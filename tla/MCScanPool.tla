----------------------------- MODULE MCScanPool -----------------------------
(***************************************************************************)
(* Small networks for ScanPool, in a space of 16 addresses: a prefix of    *)
(* length 2 has two hosts, one of length 3 has one, and shorter ones have  *)
(* more than MaxHosts.  Port 1 stands for ssh, ports 2 and 3 for docker.   *)
(***************************************************************************)
EXTENDS ScanPool

MCPrivate == 4 .. 15

MCDefaultPorts == <<1, 2>>

MCOpen == [a \in Address |-> CASE a \in {5, 10} -> {1, 2}
                               [] a = 9 -> {2, 3}
                               [] a = 1 -> {1}
                               [] OTHER -> {}]

CIDR(addr, ones) == [addr |-> addr, ones |-> ones]

Interface(prefixes) == [up |-> TRUE, loopback |-> FALSE, prefixes |-> prefixes]

(* Cable and wireless in one network, and a second one; next to them what  *)
(* is left out: a public address, a lone address, a network that is too    *)
(* wide, a loopback and an interface that is down.                         *)
TwoNetworks == {Interface({CIDR(5, 2)}), Interface({CIDR(6, 2), CIDR(2, 2), CIDR(7, 4)}),
                Interface({CIDR(9, 2), CIDR(12, 1)}),
                [up |-> TRUE, loopback |-> TRUE, prefixes |-> {CIDR(12, 2)}],
                [up |-> FALSE, loopback |-> FALSE, prefixes |-> {CIDR(13, 2)}]}

(* One network within another one. *)
Nested == {Interface({CIDR(5, 2)}), Interface({CIDR(5, 3)})}

MCMachines == {TwoNetworks, Nested, {}}

Query(by, range, parts) == [by |-> by, cidr |-> range, ports |-> parts]

(* No CIDR and ports that are listed twice and out of order; a network of  *)
(* any size, a lone address among them, with the default ports; a bad port.*)
MCQueries == {Query(by, <<>>, ports) : by \in {"hub", "cli"}, ports \in {<<3, 1, 3>>, <<1, 0>>}} \cup
             {Query(by, <<CIDR(9, ones)>>, <<>>) : by \in {"hub", "cli"}, ones \in 1 .. 4}

OneNetwork == {Query("hub", <<CIDR(5, 2)>>, <<>>)}

Nowhere == {{}}
=============================================================================
