------------------------------- MODULE FanOut -------------------------------
(***************************************************************************)
(* What a bounded fan-out promises its caller: a fixed set of jobs, at     *)
(* most Limit of them running at once, each of them settled exactly once   *)
(* (by running to its end, or by being dropped before it ran), and a       *)
(* caller that is only answered when no job is left.                       *)
(*                                                                         *)
(* GridLens has three fan-outs: one goroutine per configured PC and one    *)
(* per docker container in internal/nosana/detect.go, and the worker pool  *)
(* of the LAN port scan in internal/network/scan.go.  Detect.tla           *)
(* implements this specification for the first, ScanPool.tla for the last. *)
(***************************************************************************)
EXTENDS FiniteSets, Integers

CONSTANTS Jobs,   \* the work items, fixed when the fan-out starts
          Limit   \* how many of them may run at the same time

VARIABLES running,  \* jobs that hold a slot
          settled,  \* jobs whose outcome is final
          closed    \* the caller has been answered

vars == <<running, settled, closed>>

TypeOK == /\ running \subseteq Jobs
          /\ settled \subseteq Jobs
          /\ closed \in BOOLEAN

Init == /\ running = {}
        /\ settled = {}
        /\ closed = FALSE

(* A waiting job takes a slot. *)
Begin(j) == /\ ~closed
            /\ j \notin running \cup settled
            /\ Cardinality(running) < Limit
            /\ running' = running \cup {j}
            /\ UNCHANGED <<settled, closed>>

(* A running job ends and frees its slot in the same moment. *)
Settle(j) == /\ j \in running
             /\ running' = running \ {j}
             /\ settled' = settled \cup {j}
             /\ UNCHANGED closed

(* Jobs are given up before they ever had a slot (the deadline passed). *)
Drop == /\ ~closed
        /\ settled \subseteq settled'
        /\ settled' \subseteq Jobs \ running
        /\ UNCHANGED <<running, closed>>

(* The caller is answered: every job is settled. *)
Close == /\ ~closed
         /\ settled = Jobs
         /\ closed' = TRUE
         /\ UNCHANGED <<running, settled>>

(* The caller is told that the rest will not be done: what has not begun is *)
(* dropped in the same moment.                                              *)
Refuse == /\ ~closed
          /\ running = {}
          /\ settled' = Jobs
          /\ closed' = TRUE
          /\ UNCHANGED running

Next == \/ \E j \in Jobs : Begin(j) \/ Settle(j)
        \/ Drop \/ Close \/ Refuse

Spec == Init /\ [][Next]_vars
=============================================================================
