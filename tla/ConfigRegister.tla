--------------------------- MODULE ConfigRegister ---------------------------
(***************************************************************************)
(* What a user expects of the config: one list of PCs that each request    *)
(* sees and changes in one indivisible step, answered with success exactly *)
(* when its change is in.  ConfigStore implements it as long as no two     *)
(* saving requests overlap and no save is cut off.                         *)
(***************************************************************************)
EXTENDS Integers, Sequences

CONSTANTS
  InitialLists,     \* the lists of PCs it may start with
  Permitted(_, _),  \* Permitted(r, pcs): request r is a legal change of pcs
  Effect(_, _)      \* Effect(r, pcs): what it makes of pcs; a read changes nothing

VARIABLES asked,  \* asked[u]: the request of user u
          list,   \* the PCs
          answer, \* answer[u]: "none", "ok" or "refused"
          seen    \* seen[u]: the list a successful request was applied to

vars == <<asked, list, answer, seen>>

Init == /\ list \in InitialLists
        /\ answer = [u \in DOMAIN asked |-> "none"]
        /\ seen = [u \in DOMAIN asked |-> <<>>]

Commit(u) == /\ answer[u] = "none"
             /\ Permitted(asked[u], list)
             /\ list' = Effect(asked[u], list)
             /\ answer' = [answer EXCEPT ![u] = "ok"]
             /\ seen' = [seen EXCEPT ![u] = list]
             /\ UNCHANGED asked

(* A request may be refused at any time, and then leaves nothing behind. *)
Refuse(u) == /\ answer[u] = "none"
             /\ answer' = [answer EXCEPT ![u] = "refused"]
             /\ UNCHANGED <<asked, list, seen>>

Next == \E u \in DOMAIN asked : Commit(u) \/ Refuse(u)

Spec == Init /\ [][Next]_vars
=============================================================================
