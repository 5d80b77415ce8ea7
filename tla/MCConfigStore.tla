--------------------------- MODULE MCConfigStore ---------------------------
(***************************************************************************)
(* Small scenarios for ConfigStore, in a space of 16 addresses with four   *)
(* in an "octet"; "gpu" is a name a user chose.                            *)
(***************************************************************************)
EXTENDS ConfigStore

MCAutoName == [a \in Address |-> "pc-" \o ToString(a)]

MCPrivate == Address

PC(name, addr, ssh) == [name |-> name, addr |-> addr, ssh |-> ssh]

One(a)              == [kind |-> "one", addr |-> a]
Span(from, to)      == [kind |-> "range", from |-> from, to |-> to]
Octet(from, last)   == [kind |-> "octet", from |-> from, last |-> last]
CIDR(a, ones)       == [kind |-> "cidr", addr |-> a, ones |-> ones]
Bad                 == [kind |-> "bad"]

BulkOf(items, limit, user) == [op |-> "bulk", items |-> items, limit |-> limit, user |-> user]
AddOf(pc)      == [op |-> "add", pc |-> pc]
RemoveOf(name) == [op |-> "remove", name |-> name]
ReadConfig     == [op |-> "read"]

(* Lists the Hub and the CLI leave when nobody gives a PC an automatic name *)
(* with a different address.                                                *)
UsualLists == {<<PC("gpu", 1, "u"), PC("pc-2", 2, "")>>,
               <<PC("pc-1", 1, "u"), PC("pc-2", 2, "u"), PC("pc-3", 3, "u")>>}

(* One after the other: two bulk requests, one that blanks the user of     *)
(* known PCs; a remove that makes the text shorter; an add without an      *)
(* address; a read.                                                        *)
InTurn == [request  |-> [bulk1   |-> BulkOf(<<CIDR(4, 4), Span(4, 4), One(1)>>, 0, ""),
                         bulk2   |-> BulkOf(<<One(3), One(1), One(3)>>, 0, "u"),
                         remove  |-> RemoveOf("pc-2"),
                         invalid |-> AddOf(PC("x", NoAddress, "")),
                         reader  |-> ReadConfig],
           serial   |-> TRUE,
           killable |-> {}]

(* At the same time: a bulk request, a pc add and a pc remove of one PC     *)
(* with a read; saves may be cut off.                                       *)
AtOnce == [request  |-> [bulk   |-> BulkOf(<<One(4), One(1)>>, 0, ""),
                         add    |-> AddOf(PC("gpu", 3, "u")),
                         remove |-> RemoveOf("pc-2"),
                         reader |-> ReadConfig],
           serial   |-> FALSE,
           killable |-> {"bulk", "add"}]

(* Bulk requests of their own, with every item there is and some pairs.    *)
Items == {Bad} \cup {Span(from, to) : from, to \in Address}
               \cup {Octet(from, last) : from \in Address, last \in {-1, 0, 2, 3, 4}}
               \cup {CIDR(a, ones) : a \in Address, ones \in 1 .. 4}

Lists == {<<item>> : item \in Items} \cup {<<One(15), item>> : item \in Items}

Alone == {[request |-> [bulk |-> BulkOf(items, limit, "u")], serial |-> TRUE, killable |-> {}] :
            items \in Lists, limit \in {-1, 2}}

AllScenarios == {InTurn, AtOnce} \cup Alone

(* Two users who add different PCs at the same time. *)
TwoAdders == {[request  |-> [bulk |-> BulkOf(<<Span(1, 2)>>, 0, "u"),
                             add  |-> AddOf(PC("gpu", 3, "u")),
                             late |-> ReadConfig],
               serial   |-> FALSE,
               killable |-> {}]}

(* A PC that bears the automatic name of another address: pc add pc-1      *)
(* --address 2.                                                            *)
MisnamedList == {<<PC("pc-1", 2, "u")>>}
OneBulk == {[request  |-> [bulk |-> BulkOf(<<One(1), One(2)>>, 0, "u"), reader |-> ReadConfig],
             serial   |-> TRUE,
             killable |-> {}]}

NoList == {}

(* The lists and scenarios are such ones as the theorems speak of. *)
ASSUME MCAssumption == SerialSafe /\ (InitialPCs = UsualLists => NamesAreTheirs)
=============================================================================
