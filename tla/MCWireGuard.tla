---------------------------- MODULE MCWireGuard ----------------------------
(* Two commands, one interface of somebody else, two package managers. *)
EXTENDS WireGuard

MCCommands == {"wg", "ip"}
MCOthers   == {"wg0"}
MCCandidates == <<"apt-get", "dnf">>
=============================================================================
