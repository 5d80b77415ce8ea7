------------------------------ MODULE MCDetect ------------------------------
(***************************************************************************)
(* Small worlds for Detect.  Names and IDs are ranks; name 1 is accepted   *)
(* everywhere ("nosana-node"), name 2 is a podman wrapper whose name the   *)
(* pattern *nosana* accepts too, name 3 is nobody's.                       *)
(***************************************************************************)
EXTENDS ReportViews

Raw(name, id, wrapper, inner) == [name |-> name, id |-> id, wrapper |-> wrapper, inner |-> inner]
Inner(name, id) == [name |-> name, id |-> id, wrapper |-> FALSE]

Nothing == [docker |-> <<>>, podman |-> <<>>]

(* A wrapper with a host inside, listed before a host of its own and before *)
(* a container without an ID.                                               *)
Carrier == [docker |-> <<Raw(2, 5, TRUE, <<Inner(3, 9), Inner(1, 8)>>),
                         Raw(1, 6, FALSE, <<>>),
                         Raw(3, 0, FALSE, <<>>)>>,
            podman |-> <<Raw(1, 7, FALSE, <<>>)>>]

(* An accepted wrapper with nothing to count inside, and a neighbour. *)
Shell == [docker |-> <<Raw(2, 5, TRUE, <<Inner(3, 9)>>), Raw(3, 4, FALSE, <<>>)>>,
          podman |-> <<>>]

(* A wrapper that is not accepted and sorts behind its neighbour unless its *)
(* nested host makes it relevant.                                           *)
Hidden == [docker |-> <<Raw(3, 4, FALSE, <<>>), Raw(4, 5, TRUE, <<Inner(1, 8)>>)>>,
           podman |-> <<>>]

(* The hub runs a wrapper itself; PC 1 is a carrier, PC 2 hides its host.  *)
CarrierWorld == [s \in 0 .. 2 |-> IF s = 1 THEN Carrier ELSE Hidden]

(* Three PCs that differ: one with a wrapper, one without an ssh target,   *)
(* one with nothing.                                                       *)
FleetWorld == [s \in 0 .. 3 |-> IF s = 1 THEN Shell ELSE Nothing]

(* The same container list, seen by one PC. *)
LoneWorld == [s \in 0 .. 1 |-> IF s = 1 THEN Carrier ELSE Nothing]

EveryoneAccepts == [s \in 0 .. 3 |-> {1, 2}]

(* Runtimes as configured, through runtimesForPC: nothing usable, then one. *)
CarrierRuntimes == <<RuntimesForPC(<<"other">>), RuntimesForPC(<<"docker">>)>>
FleetRuntimes   == <<RuntimesForPC(<<"docker">>), RuntimesForPC(<<"auto">>),
                     RuntimesForPC(<<"podman">>)>>
AutoAndDocker   == <<RuntimesForPC(<<"auto", "docker">>)>>

(* Addresses; 0 is one nobody has. *)
OwnAddress == [s \in 0 .. 3 |-> s + 1]

OnlyPC1    == {1}
PC1And2    == {1, 2}
PC1And3    == {1, 3}
BothRuntimes == {"docker", "podman"}
OnlyPodman   == {"podman"}
=============================================================================
