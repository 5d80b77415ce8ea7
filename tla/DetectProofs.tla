---------------------------- MODULE DetectProofs ----------------------------
(***************************************************************************)
(* Theorems about Detect for every number of PCs, every bound on the       *)
(* concurrency and every world of containers.                              *)
(***************************************************************************)
EXTENDS Detect, FunctionTheorems, FiniteSetTheorems, TLAPS

(* What is in the state, leaving the counters aside. *)
Shape ==
  /\ main \in {"docker", "exec", "podman", "spawn", "returned"}
  /\ ctxDone \in BOOLEAN /\ reliable \in BOOLEAN
  /\ lnext \in Nat /\ traffic \in Nat /\ started \in Nat
  /\ at \in [PCs -> AtStates]
  /\ cmd \in [PCs -> CmdStates]
  /\ DOMAIN kid = PCs /\ \A i \in PCs : \A k \in DOMAIN kid[i] : kid[i][k] \in KidStates
  /\ DOMAIN built = Sites /\ DOMAIN work = Sites /\ DOMAIN targets = Sites
  /\ \A s \in Sites : targets[s].status \in {"empty", "probed", "skipped", "cancelled"}

USE DEF caller, pcs, nested, data, counts

(* Initially every part of the state has its shape. *)
LEMMA ShapeInit == Init => Shape
<1> SUFFICES ASSUME Init PROVE Shape
  OBVIOUS
<1>1. \A i \in PCs : DOMAIN kid[i] = {}
  BY DEF Init
<1>2. \A s \in Sites : targets[s].status = "empty"
  BY DEF Init, Empty, Slot
<1> QED BY <1>1, <1>2 DEF Init, Shape, AtStates, CmdStates

(* Every step keeps the shape: no handler of detect.go leaves its places. *)
LEMMA ShapeNext == Shape /\ [Next]_vars => Shape'
<1> SUFFICES ASSUME Shape, [Next]_vars PROVE Shape'
  OBVIOUS
<1> USE DEF Shape
<1>1. CASE LocalNext
  <2>1. CASE LocalDocker
    BY <2>1 DEF LocalDocker
  <2>2. CASE LocalExec
    BY <2>2 DEF LocalExec
  <2>3. CASE LocalCollect
    BY <2>3 DEF LocalCollect
  <2>4. CASE LocalPodman
    BY <2>4 DEF LocalPodman, Slot
  <2> QED BY <1>1, <2>1, <2>2, <2>3, <2>4 DEF LocalNext
<1>2. ASSUME NEW i \in PCs, PCStep(i) PROVE Shape'
  <2>1. CASE Spawn(i)
    BY <2>1 DEF Spawn, AtStates
  <2>2. CASE Acquire(i)
    BY <2>2 DEF Acquire, AtStates
  <2>3. CASE CancelTarget(i)
    BY <2>3 DEF CancelTarget, AtStates, Slot
  <2>4. CASE Skip(i)
    BY <2>4 DEF Skip, AtStates, Slot
  <2>5. CASE StartHostname(i)
    BY <2>5 DEF StartHostname, AtStates, CmdStates, Launch, CountStart
  <2>6. CASE StartList(i)
    BY <2>6 DEF StartList, AtStates, CmdStates, Launch, CountStart
  <2>7. CASE CollectNested(i)
    BY <2>7 DEF CollectNested, AtStates
  <2>8. CASE StoreTarget(i)
    BY <2>8 DEF StoreTarget, AtStates, Slot, SlotOf
  <2>9. CASE Release(i)
    BY <2>9 DEF Release, AtStates
  <2>10. CASE Exit(i)
    BY <2>10 DEF Exit, AtStates
  <2> QED BY <1>2, <2>1, <2>2, <2>3, <2>4, <2>5, <2>6, <2>7, <2>8, <2>9, <2>10 DEF PCStep
<1>3. ASSUME NEW i \in PCs, PCEnd(i) PROVE Shape'
  <2>1. CASE EndHostname(i)
    BY <2>1 DEF EndHostname, AtStates, CmdStates, AddSSH
  <2>2. CASE EndList(i)
    <3>1. CASE ListDocker(i)
      BY <2>2, <3>1 DEF EndList, ListDocker, AtStates, CmdStates, KidStates, AddSSH
    <3>2. ASSUME NEW ok, ListOther(i, ok) PROVE Shape'
      BY <2>2, <3>2 DEF EndList, ListOther, AtStates, CmdStates, AddSSH
    <3> QED BY <2>2, <3>1, <3>2 DEF EndList
  <2> QED BY <1>3, <2>1, <2>2 DEF PCEnd
<1>4. ASSUME NEW i \in PCs, NEW k \in Kids(i), KidStep(i, k) PROVE Shape'
  <2>1. CASE AcquireNested(i, k)
    BY <2>1 DEF AcquireNested, Kids, KidStates, Launch, CountStart
  <2>2. CASE CancelNested(i, k)
    BY <2>2 DEF CancelNested, NestedGone, Kids, KidStates
  <2> QED BY <1>4, <2>1, <2>2 DEF KidStep
<1>5. ASSUME NEW i \in PCs, NEW k \in Kids(i), EndNested(i, k) PROVE Shape'
  BY <1>5 DEF EndNested, NestedGone, Kids, KidStates, AddSSH
<1>6. CASE Return
  BY <1>6 DEF Return
<1>7. CASE Cancel
  BY <1>7 DEF Cancel
<1>8. CASE Finished \/ UNCHANGED vars
  BY <1>8 DEF Finished, vars
<1> QED BY <1>1, <1>2, <1>3, <1>4, <1>5, <1>6, <1>7, <1>8 DEF Next

---------------------------------------------------------------------------
(* The counters count what they are meant to count: sem the goroutines     *)
(* between taking a token and giving it back, wg those that were started   *)
(* and have not ended.                                                     *)

Counted == sem = Cardinality(Holders) /\ wg = Cardinality(Active)

(* There are finitely many PCs, so both counted sets are finite. *)
LEMMA PCsFinite == IsFiniteSet(PCs) /\ IsFiniteSet(Holders) /\ IsFiniteSet(Active)
<1>1. IsFiniteSet(PCs)
  BY SizeAssumption, FS_Interval DEF PCs
<1>2. Holders \subseteq PCs /\ Active \subseteq PCs
  BY DEF Holders, Active
<1> QED BY <1>1, <1>2, FS_Subset

(* One more element, one less element. *)
LEMMA CardinalityStep ==
  ASSUME NEW S, IsFiniteSet(S), NEW x
  PROVE  /\ Cardinality(S) \in Nat
         /\ x \notin S => Cardinality(S \cup {x}) = Cardinality(S) + 1
         /\ x \in S => Cardinality(S \ {x}) = Cardinality(S) - 1 /\ Cardinality(S) > 0
<1>1. Cardinality(S) \in Nat
  BY FS_CardinalityType
<1>2. x \notin S => Cardinality(S \cup {x}) = Cardinality(S) + 1
  BY FS_AddElement
<1>3. x \in S => Cardinality(S \ {x}) = Cardinality(S) - 1
  BY FS_RemoveElement
<1>4. IsFiniteSet(S \ {x}) /\ Cardinality(S \ {x}) \in Nat
  BY FS_RemoveElement, FS_Subset, FS_CardinalityType
<1> QED BY <1>1, <1>2, <1>3, <1>4

(* Where a goroutine is before it is started and after it has ended. *)
Off == {"idle", "done"}

(* The places that hold a token are places of goroutines under way. *)
LEMMA Places ==
  /\ \A b \in HolderStates : b \notin Off
  /\ "idle" \in Off /\ "done" \in Off /\ "select" \notin Off /\ "exit" \notin Off
  /\ "idle" \notin HolderStates /\ "done" \notin HolderStates
  /\ "select" \notin HolderStates /\ "exit" \notin HolderStates
  /\ "holding" \in HolderStates /\ "hostname" \in HolderStates
  /\ "runtime" \in HolderStates /\ "list" \in HolderStates
  /\ "nested" \in HolderStates /\ "leaving" \in HolderStates
BY DEF HolderStates, Off

(* A goroutine moves: what that makes of the two sets. *)
LEMMA Moved ==
  ASSUME Shape, NEW i \in PCs, NEW b, at' = [at EXCEPT ![i] = b]
  PROVE  /\ (b \in HolderStates <=> at[i] \in HolderStates) => Holders' = Holders
         /\ b \in HolderStates /\ at[i] \notin HolderStates
              => i \notin Holders /\ Holders' = Holders \cup {i}
         /\ b \notin HolderStates /\ at[i] \in HolderStates
              => i \in Holders /\ Holders' = Holders \ {i}
         /\ (b \in Off <=> at[i] \in Off) => Active' = Active
         /\ b \notin Off /\ at[i] \in Off
              => i \notin Active /\ Active' = Active \cup {i}
         /\ b \in Off /\ at[i] \notin Off
              => i \in Active /\ Active' = Active \ {i}
<1>1. at \in [PCs -> AtStates] /\ at'[i] = b /\ \A j \in PCs \ {i} : at'[j] = at[j]
  BY DEF Shape
<1>2. Holders' = {j \in PCs : at'[j] \in HolderStates}
  BY DEF Holders
<1>3. Active' = {j \in PCs : at'[j] \notin Off}
  BY DEF Active, Off
<1> HIDE DEF HolderStates
<1>4. (b \in HolderStates <=> at[i] \in HolderStates) => Holders' = Holders
  BY <1>1, <1>2 DEF Holders
<1>5. b \in HolderStates /\ at[i] \notin HolderStates
        => i \notin Holders /\ Holders' = Holders \cup {i}
  BY <1>1, <1>2 DEF Holders
<1>6. b \notin HolderStates /\ at[i] \in HolderStates
        => i \in Holders /\ Holders' = Holders \ {i}
  BY <1>1, <1>2 DEF Holders
<1>7. (b \in Off <=> at[i] \in Off) => Active' = Active
  BY <1>1, <1>3 DEF Active, Off
<1>8. b \notin Off /\ at[i] \in Off
        => i \notin Active /\ Active' = Active \cup {i}
  BY <1>1, <1>3 DEF Active, Off
<1>9. b \in Off /\ at[i] \notin Off
        => i \in Active /\ Active' = Active \ {i}
  BY <1>1, <1>3 DEF Active, Off
<1> QED BY <1>4, <1>5, <1>6, <1>7, <1>8, <1>9

(* A goroutine moves between two places where it holds a token. *)
LEMMA MovedInside ==
  ASSUME Shape, Counted, NEW i \in PCs, NEW b \in HolderStates, at[i] \in HolderStates,
         at' = [at EXCEPT ![i] = b], sem' = sem, wg' = wg
  PROVE  Counted'
<1>1. Holders' = Holders /\ Active' = Active
  BY Places, Moved
<1> QED BY <1>1 DEF Counted

(* Every step keeps the semaphore equal to the number of holders, and the
   wait group equal to the number of goroutines under way. *)
LEMMA CountedNext == Shape /\ Counted /\ [Next]_vars => Counted'
<1> SUFFICES ASSUME Shape, Counted, [Next]_vars PROVE Counted'
  OBVIOUS
<1> USE PCsFinite
<1>1. CASE at' = at /\ sem' = sem /\ wg' = wg
  BY <1>1 DEF Counted, Holders, Active
<1>2. ASSUME NEW i \in PCs, PCStep(i) PROVE Counted'
  <2>1. CASE Spawn(i)
    <3>0. at[i] = "idle" /\ at' = [at EXCEPT ![i] = "select"]
      BY <2>1 DEF Spawn
    <3>1. Holders' = Holders /\ i \notin Active /\ Active' = Active \cup {i}
      BY <3>0, Places, Moved
    <3> QED BY <2>1, <3>1, CardinalityStep DEF Spawn, Counted
  <2>2. CASE Acquire(i)
    <3>0. at[i] = "select" /\ at' = [at EXCEPT ![i] = "holding"]
      BY <2>2 DEF Acquire
    <3>1. i \notin Holders /\ Holders' = Holders \cup {i} /\ Active' = Active
      BY <3>0, Places, Moved
    <3> QED BY <2>2, <3>1, CardinalityStep DEF Acquire, Counted
  <2>3. CASE CancelTarget(i)
    <3>0. at[i] = "select" /\ at' = [at EXCEPT ![i] = "exit"]
      BY <2>3 DEF CancelTarget
    <3>1. Holders' = Holders /\ Active' = Active
      BY <3>0, Places, Moved
    <3> QED BY <2>3, <3>1 DEF CancelTarget, Counted
  <2>4. CASE Skip(i)
    BY <2>4, Places, MovedInside DEF Skip
  <2>5. CASE StartHostname(i)
    BY <2>5, Places, MovedInside DEF StartHostname
  <2>6. CASE StartList(i)
    BY <2>6, Places, MovedInside DEF StartList
  <2>7. CASE CollectNested(i)
    BY <2>7, Places, MovedInside DEF CollectNested
  <2>8. CASE StoreTarget(i)
    BY <2>8, Places, MovedInside DEF StoreTarget
  <2>9. CASE Release(i)
    <3>0. at[i] = "leaving" /\ at' = [at EXCEPT ![i] = "exit"]
      BY <2>9 DEF Release
    <3>1. i \in Holders /\ Holders' = Holders \ {i} /\ Active' = Active
      BY <3>0, Places, Moved
    <3> QED BY <2>9, <3>1, CardinalityStep DEF Release, Counted
  <2>10. CASE Exit(i)
    <3>0. at[i] = "exit" /\ at' = [at EXCEPT ![i] = "done"]
      BY <2>10 DEF Exit
    <3>1. i \in Active /\ Active' = Active \ {i} /\ Holders' = Holders
      BY <3>0, Places, Moved
    <3> QED BY <2>10, <3>1, CardinalityStep DEF Exit, Counted
  <2> QED BY <1>2, <2>1, <2>2, <2>3, <2>4, <2>5, <2>6, <2>7, <2>8, <2>9, <2>10 DEF PCStep
<1>3. ASSUME NEW i \in PCs, PCEnd(i) PROVE Counted'
  <2>1. CASE EndHostname(i)
    BY <2>1, Places, MovedInside DEF EndHostname
  <2>2. CASE EndList(i)
    <3>1. \E b \in HolderStates : at' = [at EXCEPT ![i] = b]
      BY <2>2 DEF EndList, ListDocker, ListOther, HolderStates
    <3> QED BY <2>2, <3>1, Places, MovedInside DEF EndList
  <2> QED BY <1>3, <2>1, <2>2 DEF PCEnd
<1>4. CASE LocalNext
  BY <1>1, <1>4 DEF LocalNext, LocalDocker, LocalExec, LocalCollect, LocalPodman
<1>5. ASSUME NEW i \in PCs, NEW k \in Kids(i), KidStep(i, k) \/ EndNested(i, k) PROVE Counted'
  BY <1>1, <1>5 DEF KidStep, AcquireNested, CancelNested, EndNested
<1>6. CASE Return \/ Cancel \/ Finished \/ UNCHANGED vars
  BY <1>1, <1>6 DEF Return, Cancel, Finished, vars
<1> QED BY <1>2, <1>3, <1>4, <1>5, <1>6 DEF Next

---------------------------------------------------------------------------
(* The same for the nested probes of one PC: nsem counts those with a      *)
(* process, nwg those that have not ended; outside addRemoteNestedPodman   *)
(* there are none.                                                         *)

NestedHolders(i) == {k \in DOMAIN kid[i] : kid[i][k] \in {"running", "refused"}}
NestedActive(i)  == {k \in DOMAIN kid[i] : kid[i][k] # "done"}

NestedCounted ==
  /\ nsem \in [PCs -> Nat] /\ nwg \in [PCs -> Nat]
  /\ \A i \in PCs : /\ IsFiniteSet(DOMAIN kid[i])
                    /\ nsem[i] = Cardinality(NestedHolders(i))
                    /\ nwg[i] = Cardinality(NestedActive(i))
                    /\ at[i] # "nested" => DOMAIN kid[i] = {}

(* Before Detect starts anything both counters, and those of every PC, are
   zero and count nobody. *)
LEMMA CountedInit == Init => Counted /\ NestedCounted
<1> SUFFICES ASSUME Init PROVE Counted /\ NestedCounted
  OBVIOUS
<1>1. Holders = {} /\ Active = {}
  BY DEF Init, Holders, Active, HolderStates
<1>2. \A i \in PCs : DOMAIN kid[i] = {}
  BY DEF Init
<1>3. \A i \in PCs : NestedHolders(i) = {} /\ NestedActive(i) = {}
  BY <1>2 DEF NestedHolders, NestedActive
<1> QED BY <1>1, <1>2, <1>3, FS_EmptySet DEF Init, Counted, NestedCounted

(* The sets of a PC whose nested probes do not move stay as they are. *)
LEMMA NestedSame ==
  ASSUME NEW i, kid'[i] = kid[i]
  PROVE  NestedHolders(i)' = NestedHolders(i) /\ NestedActive(i)' = NestedActive(i)
BY DEF NestedHolders, NestedActive

(* A step of a goroutine that is not in addRemoteNestedPodman. *)
LEMMA NestedElsewhere ==
  ASSUME Shape, NestedCounted, UNCHANGED nested, NEW i \in PCs, NEW b, at[i] # "nested",
         at' = [at EXCEPT ![i] = b]
  PROVE  NestedCounted'
<1>1. \A j \in PCs : NestedHolders(j)' = NestedHolders(j) /\ NestedActive(j)' = NestedActive(j)
  BY NestedSame
<1>2. \A j \in PCs : at'[j] # "nested" => at[j] # "nested"
  BY DEF Shape
<1> QED BY <1>1, <1>2 DEF NestedCounted

(* Every probe of PC i that holds a token is one that has not ended. *)
LEMMA NestedFinite ==
  ASSUME NestedCounted, NEW i \in PCs
  PROVE  /\ IsFiniteSet(NestedActive(i)) /\ IsFiniteSet(NestedHolders(i))
         /\ nwg[i] = 0 => NestedActive(i) = {} /\ NestedHolders(i) = {} /\ nsem[i] = 0
<1>1. NestedActive(i) \subseteq DOMAIN kid[i] /\ NestedHolders(i) \subseteq NestedActive(i)
  BY DEF NestedActive, NestedHolders
<1>2. IsFiniteSet(NestedActive(i)) /\ IsFiniteSet(NestedHolders(i))
  BY <1>1, FS_Subset DEF NestedCounted
<1>3. ASSUME nwg[i] = 0 PROVE NestedActive(i) = {} /\ NestedHolders(i) = {} /\ nsem[i] = 0
  <2>1. NestedActive(i) = {}
    BY <1>2, <1>3, FS_EmptySet DEF NestedCounted
  <2>2. NestedHolders(i) = {}
    BY <1>1, <2>1
  <2> QED BY <2>1, <2>2, FS_EmptySet DEF NestedCounted
<1> QED BY <1>2, <1>3

(* A list of containers is finite. *)
LEMMA ListsFinite ==
  \A i \in PCs : IsFiniteSet(DOMAIN Listing[i]["docker"])
<1> SUFFICES ASSUME NEW i \in PCs PROVE IsFiniteSet(DOMAIN Listing[i]["docker"])
  OBVIOUS
<1> DEFINE list == Listing[i]["docker"]
<1>1. i \in Sites
  BY SizeAssumption DEF PCs, Sites
<1>2. list \in Seq(Listed)
  BY <1>1, WorldAssumption
<1> HIDE DEF list
<1>3. DOMAIN list = 1 .. Len(list) /\ Len(list) \in Nat
  BY <1>2
<1>4. IsFiniteSet(DOMAIN list)
  BY <1>3, FS_Interval
<1> QED BY <1>4 DEF list

(* The list of containers arrives: one goroutine for each that has an ID. *)
LEMMA NestedStarts ==
  ASSUME Shape, NestedCounted, NEW i \in PCs, at[i] = "list", ListDocker(i)
  PROVE  NestedCounted'
<1> DEFINE found == Parse(i, Listing[i]["docker"])
           started_ == {k \in DOMAIN found : found[k].id # 0}
<1>1. DOMAIN found = DOMAIN Listing[i]["docker"] /\ IsFiniteSet(DOMAIN found)
  BY ListsFinite DEF Parse
<1>2. IsFiniteSet(started_) /\ Cardinality(started_) \in Nat
  BY <1>1, FS_Subset, FS_CardinalityType
<1>3. /\ at' = [at EXCEPT ![i] = "nested"]
      /\ kid' = [kid EXCEPT ![i] = [k \in DOMAIN found |->
                                      IF found[k].id = 0 THEN "done" ELSE "select"]]
      /\ nwg' = [nwg EXCEPT ![i] = Cardinality(started_)]
      /\ nsem' = nsem
  BY DEF ListDocker
<1> HIDE DEF found
<1>4. /\ kid'[i] = [k \in DOMAIN found |-> IF found[k].id = 0 THEN "done" ELSE "select"]
      /\ \A j \in PCs \ {i} : kid'[j] = kid[j]
  BY <1>3 DEF Shape
<1>5. NestedHolders(i)' = {} /\ NestedActive(i)' = started_ /\ DOMAIN kid'[i] = DOMAIN found
  BY <1>4 DEF NestedHolders, NestedActive
<1>6. nsem[i] = 0
  <2>1. DOMAIN kid[i] = {}
    BY DEF NestedCounted
  <2>2. NestedHolders(i) = {}
    BY <2>1 DEF NestedHolders
  <2> QED BY <2>2, FS_EmptySet DEF NestedCounted
<1>7. nsem' \in [PCs -> Nat] /\ nwg' \in [PCs -> Nat]
  BY <1>2, <1>3 DEF NestedCounted
<1>8. ASSUME NEW j \in PCs
      PROVE  /\ IsFiniteSet(DOMAIN kid'[j])
             /\ nsem'[j] = Cardinality(NestedHolders(j)')
             /\ nwg'[j] = Cardinality(NestedActive(j)')
             /\ at'[j] # "nested" => DOMAIN kid'[j] = {}
  <2>1. CASE j = i
    BY <1>1, <1>3, <1>5, <1>6, <2>1, FS_EmptySet DEF NestedCounted, Shape
  <2>2. CASE j # i
    BY <1>3, <1>4, <2>2, NestedSame DEF NestedCounted, Shape
  <2> QED BY <2>1, <2>2
<1> QED BY <1>7, <1>8 DEF NestedCounted, NestedHolders, NestedActive

(* wg.Wait has returned and the goroutine goes on to its next runtime. *)
LEMMA NestedEnds ==
  ASSUME Shape, NestedCounted, NEW i \in PCs, CollectNested(i)
  PROVE  NestedCounted'
<1>1. nwg[i] = 0 /\ nsem[i] = 0
  BY NestedFinite DEF CollectNested, NestedDone
<1>2. /\ nsem' = nsem /\ nwg' = nwg
      /\ kid'[i] = <<>> /\ \A j \in PCs \ {i} : kid'[j] = kid[j] /\ at'[j] = at[j]
  BY DEF CollectNested, Shape
<1>3. NestedHolders(i)' = {} /\ NestedActive(i)' = {} /\ DOMAIN kid'[i] = {}
  BY <1>2 DEF NestedHolders, NestedActive
<1>4. \A j \in PCs : /\ IsFiniteSet(DOMAIN kid'[j])
                     /\ nsem'[j] = Cardinality(NestedHolders(j)')
                     /\ nwg'[j] = Cardinality(NestedActive(j)')
                     /\ at'[j] # "nested" => DOMAIN kid'[j] = {}
  BY <1>1, <1>2, <1>3, FS_EmptySet, NestedSame DEF NestedCounted
<1> QED BY <1>2, <1>4 DEF NestedCounted, NestedHolders, NestedActive

(* One nested probe of PC i moves. *)
LEMMA NestedMoved ==
  ASSUME Shape, NestedCounted, NEW i \in PCs, NEW k \in DOMAIN kid[i], NEW b \in KidStates,
         kid' = [kid EXCEPT ![i][k] = b], at' = at,
         nsem' \in [PCs -> Nat], nwg' \in [PCs -> Nat],
         \A j \in PCs \ {i} : nsem'[j] = nsem[j] /\ nwg'[j] = nwg[j],
         nsem'[i] = Cardinality(NestedHolders(i)'), nwg'[i] = Cardinality(NestedActive(i)')
  PROVE  NestedCounted'
<1>1. /\ DOMAIN kid'[i] = DOMAIN kid[i]
      /\ \A j \in PCs \ {i} : kid'[j] = kid[j]
  BY DEF Shape
<1>2. \A j \in PCs : /\ IsFiniteSet(DOMAIN kid'[j])
                     /\ nsem'[j] = Cardinality(NestedHolders(j)')
                     /\ nwg'[j] = Cardinality(NestedActive(j)')
                     /\ at'[j] # "nested" => DOMAIN kid'[j] = {}
  BY <1>1, NestedSame DEF NestedCounted
<1> QED BY <1>2 DEF NestedCounted, NestedHolders, NestedActive

(* What a move of probe k makes of the two sets. *)
LEMMA NestedSets ==
  ASSUME Shape, NEW i \in PCs, NEW k \in DOMAIN kid[i], NEW b,
         kid' = [kid EXCEPT ![i][k] = b]
  PROVE  /\ b \in {"running", "refused"} => NestedHolders(i)' = NestedHolders(i) \cup {k}
         /\ b \notin {"running", "refused"} => NestedHolders(i)' = NestedHolders(i) \ {k}
         /\ b # "done" => NestedActive(i)' = NestedActive(i) \cup {k}
         /\ b = "done" => NestedActive(i)' = NestedActive(i) \ {k}
<1>1. /\ DOMAIN kid'[i] = DOMAIN kid[i] /\ kid'[i][k] = b
      /\ \A q \in DOMAIN kid[i] \ {k} : kid'[i][q] = kid[i][q]
  BY DEF Shape
<1>2. /\ NestedHolders(i)' = {q \in DOMAIN kid'[i] : kid'[i][q] \in {"running", "refused"}}
      /\ NestedActive(i)' = {q \in DOMAIN kid'[i] : kid'[i][q] # "done"}
  BY DEF NestedHolders, NestedActive
<1>3. b \in {"running", "refused"} => NestedHolders(i)' = NestedHolders(i) \cup {k}
  BY <1>1, <1>2 DEF NestedHolders
<1>4. b \notin {"running", "refused"} => NestedHolders(i)' = NestedHolders(i) \ {k}
  BY <1>1, <1>2 DEF NestedHolders
<1>5. b # "done" => NestedActive(i)' = NestedActive(i) \cup {k}
  BY <1>1, <1>2 DEF NestedActive
<1>6. b = "done" => NestedActive(i)' = NestedActive(i) \ {k}
  BY <1>1, <1>2 DEF NestedActive
<1> QED BY <1>3, <1>4, <1>5, <1>6

(* A step of one nested probe keeps the counters right. *)
LEMMA NestedStep ==
  ASSUME Shape, NestedCounted, NEW i \in PCs, NEW k \in Kids(i),
         KidStep(i, k) \/ EndNested(i, k)
  PROVE  NestedCounted'
<1> USE DEF Kids
<1>0. IsFiniteSet(NestedActive(i)) /\ IsFiniteSet(NestedHolders(i))
  BY NestedFinite
<1>1. /\ nsem[i] = Cardinality(NestedHolders(i)) /\ nwg[i] = Cardinality(NestedActive(i))
      /\ nsem \in [PCs -> Nat] /\ nwg \in [PCs -> Nat]
  BY DEF NestedCounted
<1>2. CASE AcquireNested(i, k)
  <2>1. PICK b \in {"running", "refused"} : kid' = [kid EXCEPT ![i][k] = b]
    BY <1>2 DEF AcquireNested, Launch
  <2>2. b \in KidStates /\ b # "done"
    BY DEF KidStates
  <2>3. k \notin NestedHolders(i) /\ k \in NestedActive(i)
    BY <1>2 DEF AcquireNested, NestedHolders, NestedActive
  <2>4. NestedHolders(i)' = NestedHolders(i) \cup {k}
    BY <2>1, NestedSets
  <2>9. NestedActive(i)' = NestedActive(i)
    <3>1. NestedActive(i)' = NestedActive(i) \cup {k}
      BY <2>1, <2>2, NestedSets
    <3> QED BY <2>3, <3>1
  <2>5. at' = at /\ nwg' = nwg /\ nsem' = [nsem EXCEPT ![i] = @ + 1]
    BY <1>2 DEF AcquireNested
  <2>6. nsem'[i] = Cardinality(NestedHolders(i)') /\ nsem' \in [PCs -> Nat]
    BY <1>0, <1>1, <2>3, <2>4, <2>5, CardinalityStep
  <2>7. nwg'[i] = Cardinality(NestedActive(i)') /\ nwg' \in [PCs -> Nat]
    BY <1>1, <2>5, <2>9
  <2>8. \A j \in PCs \ {i} : nsem'[j] = nsem[j] /\ nwg'[j] = nwg[j]
    BY <1>1, <2>5
  <2> QED BY <2>1, <2>2, <2>5, <2>6, <2>7, <2>8, NestedMoved
<1>3. CASE CancelNested(i, k)
  <2>1. kid' = [kid EXCEPT ![i][k] = "done"] /\ at' = at /\ nsem' = nsem
        /\ nwg' = [nwg EXCEPT ![i] = @ - 1]
    BY <1>3 DEF CancelNested, NestedGone
  <2>2. k \notin NestedHolders(i) /\ k \in NestedActive(i)
    BY <1>3 DEF CancelNested, NestedHolders, NestedActive
  <2>3. NestedActive(i)' = NestedActive(i) \ {k}
    BY <2>1, NestedSets
  <2>5. NestedHolders(i)' = NestedHolders(i)
    <3>1. NestedHolders(i)' = NestedHolders(i) \ {k}
      BY <2>1, NestedSets
    <3> QED BY <2>2, <3>1
  <2>4. nwg'[i] = Cardinality(NestedActive(i)') /\ nwg' \in [PCs -> Nat]
    BY <1>0, <1>1, <2>1, <2>2, <2>3, CardinalityStep
  <2> QED BY <1>1, <2>1, <2>4, <2>5, NestedMoved DEF KidStates
<1>4. CASE EndNested(i, k)
  <2>1. kid' = [kid EXCEPT ![i][k] = "done"] /\ at' = at
        /\ nsem' = [nsem EXCEPT ![i] = @ - 1] /\ nwg' = [nwg EXCEPT ![i] = @ - 1]
    BY <1>4 DEF EndNested, NestedGone
  <2>2. k \in NestedHolders(i) /\ k \in NestedActive(i)
    BY <1>4 DEF EndNested, NestedHolders, NestedActive
  <2>3. NestedHolders(i)' = NestedHolders(i) \ {k} /\ NestedActive(i)' = NestedActive(i) \ {k}
    BY <2>1, <2>2, NestedSets
  <2>4. nwg'[i] = Cardinality(NestedActive(i)') /\ nwg' \in [PCs -> Nat]
    <3>1. /\ Cardinality(NestedActive(i)') = Cardinality(NestedActive(i)) - 1
          /\ Cardinality(NestedActive(i)) \in Nat /\ Cardinality(NestedActive(i)) > 0
      BY <1>0, <2>2, <2>3, CardinalityStep
    <3> QED BY <1>1, <2>1, <3>1
  <2>5. nsem'[i] = Cardinality(NestedHolders(i)') /\ nsem' \in [PCs -> Nat]
    BY <1>0, <1>1, <2>1, <2>2, <2>3, CardinalityStep
  <2> QED BY <1>1, <2>1, <2>4, <2>5, NestedMoved DEF KidStates
<1> QED BY <1>2, <1>3, <1>4 DEF KidStep

(* Every step keeps nestedSem and the wait group of addRemoteNestedPodman
   right for every PC. *)
LEMMA NestedCountedNext == Shape /\ NestedCounted /\ [Next]_vars => NestedCounted'
<1> SUFFICES ASSUME Shape, NestedCounted, [Next]_vars PROVE NestedCounted'
  OBVIOUS
<1>1. CASE UNCHANGED nested /\ at' = at
  BY <1>1 DEF NestedCounted, NestedHolders, NestedActive
<1>2. ASSUME NEW i \in PCs, PCStep(i) PROVE NestedCounted'
  <2>1. CASE CollectNested(i)
    BY <2>1, NestedEnds
  <2>2. CASE ~CollectNested(i)
    <3>1. /\ UNCHANGED nested /\ at[i] # "nested"
          /\ \E b : at' = [at EXCEPT ![i] = b]
      BY <1>2, <2>2 DEF PCStep, Spawn, Acquire, CancelTarget, Skip, StartHostname, StartList,
                        StoreTarget, Release, Exit
    <3> QED BY <3>1, NestedElsewhere
  <2> QED BY <2>1, <2>2
<1>3. ASSUME NEW i \in PCs, PCEnd(i) PROVE NestedCounted'
  <2>1. CASE EndHostname(i)
    BY <2>1, NestedElsewhere DEF EndHostname
  <2>2. CASE EndList(i) /\ ListDocker(i)
    BY <2>2, NestedStarts DEF EndList
  <2>3. CASE EndList(i) /\ ~ListDocker(i)
    <3>1. UNCHANGED nested /\ at[i] # "nested" /\ at' = [at EXCEPT ![i] = "runtime"]
      BY <2>3 DEF EndList, ListOther
    <3> QED BY <3>1, NestedElsewhere
  <2> QED BY <1>3, <2>1, <2>2, <2>3 DEF PCEnd
<1>4. CASE LocalNext
  BY <1>1, <1>4 DEF LocalNext, LocalDocker, LocalExec, LocalCollect, LocalPodman
<1>5. ASSUME NEW i \in PCs, NEW k \in Kids(i), KidStep(i, k) \/ EndNested(i, k)
      PROVE NestedCounted'
  BY <1>5, NestedStep
<1>6. CASE Return \/ Cancel \/ Finished \/ UNCHANGED vars
  BY <1>1, <1>6 DEF Return, Cancel, Finished, vars
<1> QED BY <1>2, <1>3, <1>4, <1>5, <1>6 DEF Next

---------------------------------------------------------------------------
(* The state has the shape Detect.TypeOK gives it for every number of PCs   *)
(* and every bound; above all no counter of detect.go is ever taken below  *)
(* zero.                                                                   *)
THEOREM TypeCorrect == Spec => []TypeOK
<1>1. Init => Shape /\ Counted /\ NestedCounted
  BY ShapeInit, CountedInit
<1>2. Shape /\ Counted /\ NestedCounted /\ [Next]_vars => (Shape /\ Counted /\ NestedCounted)'
  BY ShapeNext, CountedNext, NestedCountedNext
<1>3. Shape /\ Counted /\ NestedCounted => TypeOK
  BY PCsFinite, FS_CardinalityType DEF Shape, Counted, NestedCounted, TypeOK
<1> QED BY <1>1, <1>2, <1>3, PTL DEF Spec

---------------------------------------------------------------------------
(* Why a returned report is complete: the goroutine of a PC builds the      *)
(* reports of its runtimes in their order, its verdict is in its own slot   *)
(* before it leaves, and Detect sits in wg.Wait while one of them is alive. *)

IsSeq(s) == \E S : s \in Seq(S)

BuiltInOrder(i) ==
  /\ IsSeq(built[i])
  /\ Len(built[i]) <= Len(Runtimes[i])
  /\ \A r \in 1 .. Len(built[i]) : built[i][r].type = Runtimes[i][r]
  /\ at[i] \in {"list", "nested"} => Len(built[i]) < Len(Runtimes[i])
  /\ at[i] = "nested" => RuntimeNow(i) = "docker"

Verdict(i) ==
  /\ targets[i].pc = i
  /\ targets[i].status # "empty"
  /\ targets[i].status = "probed" =>
       [r \in DOMAIN targets[i].runtimes |-> targets[i].runtimes[r].type] = Runtimes[i]

PCInv(i) == BuiltInOrder(i) /\ (at[i] \in {"leaving", "exit", "done"} => Verdict(i))

Phase ==
  /\ main \in {"docker", "exec", "podman"} => \A i \in PCs : at[i] = "idle"
  /\ main = "returned" => /\ \A i \in PCs : at[i] = "done"
                         /\ summary.counts = Summarize(targets)

(* A goroutine that is under way is under way between the first go          *)
(* statement and the return of Detect.                                      *)
LEMMA UnderWay ==
  ASSUME Shape, Phase, NEW i \in PCs, at[i] \notin {"idle", "done"}
  PROVE  main = "spawn"
BY DEF Shape, Phase

(* Every step keeps the phases of Detect apart: nothing is under way before
   the first go statement, nor after the return. *)
LEMMA PhaseNext == Shape /\ Counted /\ NestedCounted /\ Phase /\ [Next]_vars => Phase'
<1> SUFFICES ASSUME Shape, Counted, NestedCounted, Phase, [Next]_vars PROVE Phase'
  OBVIOUS
<1>1. CASE main = "spawn" /\ main' = main
  BY <1>1 DEF Phase
<1>2. ASSUME NEW i \in PCs, PCStep(i) \/ PCEnd(i) PROVE Phase'
  <2>1. main' = main
    BY <1>2 DEF PCStep, PCEnd, Spawn, Acquire, CancelTarget, Skip, StartHostname, StartList,
                CollectNested, StoreTarget, Release, Exit, EndHostname, EndList
  <2>2. main = "spawn"
    BY <1>2, UnderWay DEF PCStep, PCEnd, Spawn, Acquire, CancelTarget, Skip, StartHostname,
                          StartList, CollectNested, StoreTarget, Release, Exit, EndHostname,
                          EndList
  <2> QED BY <1>1, <2>1, <2>2
<1>3. ASSUME NEW i \in PCs, NEW k \in Kids(i), KidStep(i, k) \/ EndNested(i, k) PROVE Phase'
  <2>1. at[i] = "nested"
    BY DEF Kids, NestedCounted
  <2>2. main = "spawn"
    BY <2>1, UnderWay
  <2>3. main' = main
    BY <1>3 DEF KidStep, AcquireNested, CancelNested, EndNested
  <2> QED BY <1>1, <2>2, <2>3
<1>4. CASE LocalNext
  <2>1. main \in {"docker", "exec", "podman"} /\ main' \in {"exec", "podman", "spawn"} /\ at' = at
    BY <1>4 DEF LocalNext, LocalDocker, LocalExec, LocalCollect, LocalPodman
  <2> QED BY <2>1 DEF Phase
<1>5. CASE Return
  <2>1. Active = {}
    BY <1>5, PCsFinite, FS_EmptySet DEF Return, AllDone, Counted
  <2>2. \A i \in PCs : at[i] = "done"
    BY <1>5, <2>1 DEF Return, Active
  <2>3. main' = "returned" /\ at' = at /\ targets' = targets
        /\ summary'.counts = Summarize(targets)
    BY <1>5 DEF Return
  <2> QED BY <2>2, <2>3 DEF Phase
<1>6. CASE Cancel \/ Finished \/ UNCHANGED vars
  BY <1>6 DEF Cancel, Finished, vars, Phase
<1> QED BY <1>2, <1>3, <1>4, <1>5, <1>6 DEF Next

(* What Append adds is the last element. *)
LEMMA Appended ==
  ASSUME NEW s, IsSeq(s), NEW e
  PROVE  /\ IsSeq(Append(s, e)) /\ Len(s) \in Nat
         /\ Len(Append(s, e)) = Len(s) + 1
         /\ \A r \in 1 .. Len(s) : Append(s, e)[r] = s[r]
         /\ Append(s, e)[Len(s) + 1] = e
<1>1. PICK S : s \in Seq(S)
  BY DEF IsSeq
<1>2. s \in Seq(S \cup {e}) /\ e \in S \cup {e}
  BY <1>1
<1>3. Append(s, e) \in Seq(S \cup {e})
  BY <1>2
<1> QED BY <1>2, <1>3 DEF IsSeq

(* The next runtime is reported. *)
LEMMA NextRuntimeBuilt ==
  ASSUME Shape, NEW i \in PCs, PCInv(i), at[i] \in {"list", "nested"},
         NEW ok, NEW found, at'[i] = "runtime",
         built'[i] = Append(built[i], RuntimeReport(RuntimeNow(i), ok, found))
  PROVE  PCInv(i)'
<1>1. IsSeq(built[i]) /\ Len(built[i]) < Len(Runtimes[i]) /\ Len(Runtimes[i]) \in Nat
  BY WorldAssumption DEF PCInv, BuiltInOrder
<1>2. /\ IsSeq(built'[i]) /\ Len(built[i]) \in Nat
      /\ Len(built'[i]) = Len(built[i]) + 1
      /\ \A r \in 1 .. Len(built[i]) : built'[i][r] = built[i][r]
      /\ built'[i][Len(built[i]) + 1] = RuntimeReport(RuntimeNow(i), ok, found)
  BY <1>1, Appended
<1>3. RuntimeReport(RuntimeNow(i), ok, found).type = Runtimes[i][Len(built[i]) + 1]
  BY DEF RuntimeReport, RuntimeNow
<1>4. \A r \in 1 .. Len(built'[i]) : r \in 1 .. Len(built[i]) \/ r = Len(built[i]) + 1
  BY <1>2
<1>5. \A r \in 1 .. Len(built'[i]) : built'[i][r].type = Runtimes[i][r]
  BY <1>2, <1>3, <1>4 DEF PCInv, BuiltInOrder
<1> QED BY <1>1, <1>2, <1>5 DEF PCInv, BuiltInOrder

(* The slot is written when every runtime has been reported. *)
LEMMA VerdictStored ==
  ASSUME Shape, NEW i \in PCs, PCInv(i), StoreTarget(i)
  PROVE  PCInv(i)'
<1>1. /\ targets'[i] = Slot("probed", i, built[i])
      /\ built'[i] = <<>> /\ at'[i] = "leaving"
  BY DEF StoreTarget, SlotOf, Shape, Sites, PCs
<1>2. PICK S : built[i] \in Seq(S)
  BY DEF PCInv, BuiltInOrder, IsSeq
<1>3. Runtimes[i] \in Seq({"docker", "podman"}) /\ Len(built[i]) = Len(Runtimes[i])
  BY WorldAssumption DEF StoreTarget
<1>4. [r \in DOMAIN built[i] |-> built[i][r].type] = Runtimes[i]
  <2>1. DOMAIN built[i] = DOMAIN Runtimes[i] /\ DOMAIN built[i] = 1 .. Len(built[i])
    BY <1>2, <1>3
  <2>2. Runtimes[i] = [r \in DOMAIN Runtimes[i] |-> Runtimes[i][r]]
    BY <1>3
  <2> QED BY <2>1, <2>2 DEF PCInv, BuiltInOrder
<1>5. Verdict(i)'
  BY <1>1, <1>4 DEF Verdict, Slot
<1>6. BuiltInOrder(i)'
  <2>1. <<>> \in Seq({}) /\ Len(<<>>) = 0
    OBVIOUS
  <2> QED BY <1>1, <1>3, <2>1 DEF BuiltInOrder, IsSeq
<1> QED BY <1>5, <1>6 DEF PCInv

(* A PC whose goroutine, runtimes and slot are left alone. *)
LEMMA PCInvSame ==
  ASSUME NEW i, PCInv(i), at'[i] = at[i], built'[i] = built[i], targets'[i] = targets[i]
  PROVE  PCInv(i)'
BY DEF PCInv, BuiltInOrder, Verdict, RuntimeNow

(* A goroutine goes from one place to another without reporting anything. *)
LEMMA PCInvMoves ==
  ASSUME NEW i, PCInv(i), built'[i] = built[i], targets'[i] = targets[i],
         \/ at'[i] \notin {"list", "nested", "leaving", "exit", "done"}
         \/ {at[i], at'[i]} \subseteq {"leaving", "exit", "done"}
         \/ at'[i] = "list" /\ Len(built[i]) < Len(Runtimes[i])
         \/ at'[i] = "nested" /\ at[i] = "list" /\ RuntimeNow(i) = "docker"
  PROVE  PCInv(i)'
BY DEF PCInv, BuiltInOrder, Verdict, RuntimeNow

(* Nothing of a PC changes in the steps of the other goroutines. *)
LEMMA OthersAlone ==
  ASSUME Shape, NEW i \in PCs, NEW j \in PCs, i # j, PCStep(i) \/ PCEnd(i)
  PROVE  at'[j] = at[j] /\ built'[j] = built[j] /\ targets'[j] = targets[j]
<1>0. j \in DOMAIN at /\ j \in DOMAIN built /\ j \in DOMAIN targets
  BY DEF Shape, Sites, PCs
<1>1. CASE PCStep(i)
  <2>1. \E b : at' = [at EXCEPT ![i] = b]
    BY <1>1 DEF PCStep, Spawn, Acquire, CancelTarget, Skip, StartHostname, StartList,
                CollectNested, StoreTarget, Release, Exit
  <2>2. built' = built \/ \E b : built' = [built EXCEPT ![i] = b]
    BY <1>1 DEF PCStep, Spawn, Acquire, CancelTarget, Skip, StartHostname, StartList,
                CollectNested, StoreTarget, Release, Exit
  <2>3. targets' = targets \/ \E b : targets' = [targets EXCEPT ![i] = b]
    BY <1>1 DEF PCStep, Spawn, Acquire, CancelTarget, Skip, StartHostname, StartList,
                CollectNested, StoreTarget, SlotOf, Release, Exit
  <2> QED BY <1>0, <2>1, <2>2, <2>3
<1>2. CASE PCEnd(i)
  <2>1. \E b : at' = [at EXCEPT ![i] = b]
    BY <1>2 DEF PCEnd, EndHostname, EndList, ListDocker, ListOther
  <2>2. built' = built \/ \E b : built' = [built EXCEPT ![i] = b]
    BY <1>2 DEF PCEnd, EndHostname, EndList, ListDocker, ListOther
  <2>3. targets' = targets
    BY <1>2 DEF PCEnd, EndHostname, EndList
  <2> QED BY <1>0, <2>1, <2>2, <2>3
<1> QED BY <1>1, <1>2

(* A step of the goroutine of PC i keeps what its slot and its runtimes say
   of how far it has come. *)
LEMMA OwnStep ==
  ASSUME Shape, NEW i \in PCs, PCInv(i), PCStep(i) \/ PCEnd(i)
  PROVE  PCInv(i)'
<1>0. i \in Sites /\ i \in DOMAIN at /\ i \in DOMAIN built /\ i \in DOMAIN targets
  BY DEF Shape, Sites, PCs
<1>1. CASE Spawn(i) \/ Acquire(i) \/ StartHostname(i) \/ EndHostname(i)
  <2>1. /\ at'[i] \in {"select", "holding", "hostname", "runtime"}
        /\ built'[i] = built[i] /\ targets'[i] = targets[i]
    BY <1>1, <1>0 DEF Spawn, Acquire, StartHostname, EndHostname
  <2> QED BY <2>1, PCInvMoves
<1>2. CASE CancelTarget(i) \/ Skip(i)
  <2>1. /\ at'[i] \in {"leaving", "exit"} /\ built'[i] = built[i]
        /\ \E status \in {"cancelled", "skipped"} : targets'[i] = Slot(status, i, <<>>)
    BY <1>2, <1>0 DEF CancelTarget, Skip
  <2>2. Verdict(i)'
    BY <2>1 DEF Verdict, Slot
  <2>3. BuiltInOrder(i)'
    BY <2>1 DEF PCInv, BuiltInOrder
  <2> QED BY <2>2, <2>3 DEF PCInv
<1>3. CASE StartList(i)
  BY <1>3, <1>0, PCInvMoves DEF StartList
<1>4. CASE EndList(i)
  <2>1. CASE ListDocker(i) /\ RuntimeNow(i) = "docker"
    BY <1>4, <2>1, <1>0, PCInvMoves DEF EndList, ListDocker
  <2>2. ASSUME NEW ok, ListOther(i, ok) PROVE PCInv(i)'
    <3>1. at'[i] = "runtime" /\ at[i] = "list"
      BY <1>4, <2>2, <1>0 DEF EndList, ListOther
    <3>2. \E found : built'[i] = Append(built[i], RuntimeReport(RuntimeNow(i), ok, found))
      BY <2>2, <1>0 DEF ListOther
    <3> QED BY <3>1, <3>2, NextRuntimeBuilt
  <2> QED BY <1>4, <2>1, <2>2 DEF EndList
<1>5. CASE CollectNested(i)
  <2>1. at'[i] = "runtime" /\ at[i] = "nested" /\ RuntimeNow(i) = "docker"
    BY <1>5, <1>0 DEF CollectNested, PCInv, BuiltInOrder
  <2>2. \E found : built'[i] = Append(built[i], RuntimeReport("docker", TRUE, found))
    BY <1>5, <1>0 DEF CollectNested
  <2> QED BY <2>1, <2>2, NextRuntimeBuilt
<1>6. CASE StoreTarget(i)
  BY <1>6, VerdictStored
<1>7. CASE Release(i) \/ Exit(i)
  BY <1>7, <1>0, PCInvMoves DEF Release, Exit
<1> QED BY <1>1, <1>2, <1>3, <1>4, <1>5, <1>6, <1>7 DEF PCStep, PCEnd

(* A step of anybody keeps this for every PC. *)
LEMMA PCInvNext == Shape /\ (\A i \in PCs : PCInv(i)) /\ [Next]_vars => \A i \in PCs : PCInv(i)'
<1> SUFFICES ASSUME Shape, \A i \in PCs : PCInv(i), [Next]_vars, NEW j \in PCs
             PROVE  PCInv(j)'
  OBVIOUS
<1>1. ASSUME NEW i \in PCs, PCStep(i) \/ PCEnd(i) PROVE PCInv(j)'
  BY <1>1, OwnStep, OthersAlone, PCInvSame
<1>2. ASSUME NEW i \in PCs, NEW k \in Kids(i), KidStep(i, k) \/ EndNested(i, k) PROVE PCInv(j)'
  BY <1>2, PCInvSame DEF KidStep, AcquireNested, CancelNested, EndNested
<1>3. CASE LocalNext
  <2>1. j # 0 /\ j \in DOMAIN built /\ j \in DOMAIN targets
    BY DEF Shape, Sites, PCs
  <2>2. built' = built \/ \E b : built' = [built EXCEPT ![0] = b]
    BY <1>3 DEF LocalNext, LocalDocker, LocalExec, LocalCollect, LocalPodman
  <2>3. targets' = targets \/ \E b : targets' = [targets EXCEPT ![0] = b]
    BY <1>3 DEF LocalNext, LocalDocker, LocalExec, LocalCollect, LocalPodman
  <2>4. at' = at
    BY <1>3 DEF LocalNext, LocalDocker, LocalExec, LocalCollect, LocalPodman
  <2> QED BY <2>1, <2>2, <2>3, <2>4, PCInvSame
<1>4. CASE Return \/ Cancel \/ Finished \/ UNCHANGED vars
  BY <1>4, PCInvSame DEF Return, Cancel, Finished, vars
<1> QED BY <1>1, <1>2, <1>3, <1>4 DEF Next

(* Before anything is started there is nothing to report. *)
LEMMA ReportInit == Init => Phase /\ \A i \in PCs : PCInv(i)
<1> SUFFICES ASSUME Init PROVE Phase /\ \A i \in PCs : PCInv(i)
  OBVIOUS
<1>1. Phase
  BY DEF Init, Phase
<1>2. ASSUME NEW i \in PCs PROVE PCInv(i)
  <2>1. at[i] = "idle" /\ built[i] = <<>>
    BY DEF Init, Sites, PCs
  <2>2. <<>> \in Seq({}) /\ Len(<<>>) = 0 /\ Len(Runtimes[i]) \in Nat
    BY WorldAssumption
  <2> QED BY <2>1, <2>2 DEF PCInv, BuiltInOrder, IsSeq
<1> QED BY <1>1, <1>2

(* The strengthening that is inductive. *)
DetectInv == Shape /\ Counted /\ NestedCounted /\ Phase /\ \A i \in PCs : PCInv(i)

(* The strengthening holds initially. *)
LEMMA DetectInvInit == Init => DetectInv
BY ShapeInit, CountedInit, ReportInit DEF DetectInv

(* Every step preserves the strengthening. *)
LEMMA DetectInvNext == DetectInv /\ [Next]_vars => DetectInv'
BY ShapeNext, CountedNext, NestedCountedNext, PhaseNext, PCInvNext DEF DetectInv

(* When Detect returns, every configured PC has its verdict in its own slot, *)
(* with one report for each of its runtimes in their order, no goroutine is *)
(* left, and the summary describes exactly these slots: for every number of *)
(* PCs, every bound and every order of steps, cancelled or not.             *)
THEOREM ReportComplete == Spec => []CompleteReport
<1>1. DetectInv => CompleteReport
  BY DEF DetectInv, Phase, PCInv, Verdict, CompleteReport
<1> QED BY <1>1, DetectInvInit, DetectInvNext, PTL DEF Spec

---------------------------------------------------------------------------
(* Detect implements the bounded fan-out.                                  *)

SettledPCs == {i \in PCs : at[i] \in {"exit", "done"}}

(* What a move of goroutine i makes of the settled PCs. *)
LEMMA SettledMoved ==
  ASSUME Shape, NEW i \in PCs, NEW b, at' = [at EXCEPT ![i] = b]
  PROVE  /\ (b \in {"exit", "done"} <=> at[i] \in {"exit", "done"}) => SettledPCs' = SettledPCs
         /\ b \in {"exit", "done"} => SettledPCs' = SettledPCs \cup {i}
<1>1. at \in [PCs -> AtStates] /\ at'[i] = b /\ \A j \in PCs \ {i} : at'[j] = at[j]
  BY DEF Shape
<1>2. SettledPCs' = {j \in PCs : at'[j] \in {"exit", "done"}}
  BY DEF SettledPCs
<1>3. (b \in {"exit", "done"} <=> at[i] \in {"exit", "done"}) => SettledPCs' = SettledPCs
  BY <1>1, <1>2 DEF SettledPCs
<1>4. b \in {"exit", "done"} => SettledPCs' = SettledPCs \cup {i}
  BY <1>1, <1>2 DEF SettledPCs
<1> QED BY <1>3, <1>4

(* A step that leaves the three abstract variables alone is a stutter. *)
LEMMA FanOutStutter ==
  ASSUME Holders' = Holders, SettledPCs' = SettledPCs,
         main' = "returned" <=> main = "returned"
  PROVE  UNCHANGED PCFanOut!vars
BY DEF PCFanOut!vars, SettledPCs

(* The send into the semaphore is a Begin of FanOut: there is room for one
   more holder. *)
LEMMA FanOutBegin ==
  ASSUME DetectInv, NEW i \in PCs, Acquire(i)
  PROVE  PCFanOut!Begin(i)
<1>1. at[i] = "select" /\ at' = [at EXCEPT ![i] = "holding"] /\ main' = main /\ Shape
  BY DEF Acquire, DetectInv
<1>2. main = "spawn"
  BY <1>1, UnderWay DEF DetectInv
<1>3. i \notin Holders /\ Holders' = Holders \cup {i}
  BY <1>1, Places, Moved
<1>4. i \notin SettledPCs /\ SettledPCs' = SettledPCs
  BY <1>1, SettledMoved DEF SettledPCs
<1>5. Cardinality(Holders) < MaxTargets
  BY DEF DetectInv, Counted, Acquire, SlotFree
<1>6. main # "returned" /\ (main' = "returned") = (main = "returned")
  BY <1>1, <1>2
<1>7. i \notin Holders \cup SettledPCs
  BY <1>3, <1>4
<1>8. PCFanOut!Cardinality(Holders) = Cardinality(Holders)
  BY Zenon DEF PCFanOut!Cardinality, Cardinality
<1> QED BY <1>3, <1>4, <1>5, <1>6, <1>7, <1>8 DEF PCFanOut!Begin, SettledPCs

(* A PC that meets the deadline before it has a slot is a Drop of FanOut. *)
LEMMA FanOutDrop ==
  ASSUME DetectInv, NEW i \in PCs, CancelTarget(i)
  PROVE  PCFanOut!Drop
<1>1. at[i] = "select" /\ at' = [at EXCEPT ![i] = "exit"] /\ main' = main /\ Shape
  BY DEF CancelTarget, DetectInv
<1>2. main = "spawn"
  BY <1>1, UnderWay DEF DetectInv
<1>3. i \notin Holders /\ Holders' = Holders
  BY <1>1, Places, Moved DEF Holders
<1>4. i \notin SettledPCs /\ SettledPCs' = SettledPCs \cup {i}
  BY <1>1, SettledMoved DEF SettledPCs
<1>5. Holders \cap SettledPCs = {} /\ SettledPCs \subseteq PCs
  BY DEF Holders, HolderStates, SettledPCs
<1>6. SettledPCs \subseteq SettledPCs' /\ SettledPCs' \subseteq PCs \ Holders
  BY <1>3, <1>4, <1>5
<1>7. main # "returned" /\ (main' = "returned") = (main = "returned")
  BY <1>1, <1>2
<1> QED BY <1>3, <1>6, <1>7 DEF PCFanOut!Drop, SettledPCs

(* The receive from the semaphore, after the slot is written, is a Settle
   of FanOut. *)
LEMMA FanOutSettle ==
  ASSUME DetectInv, NEW i \in PCs, Release(i)
  PROVE  PCFanOut!Settle(i)
<1>1. at[i] = "leaving" /\ at' = [at EXCEPT ![i] = "exit"] /\ main' = main /\ Shape
  BY DEF Release, DetectInv
<1>2. i \in Holders /\ Holders' = Holders \ {i}
  BY <1>1, Places, Moved
<1>3. SettledPCs' = SettledPCs \cup {i}
  BY <1>1, SettledMoved
<1> QED BY <1>1, <1>2, <1>3 DEF PCFanOut!Settle, SettledPCs

(* The return of Detect is a Close of FanOut: nobody is left. *)
LEMMA FanOutClose ==
  ASSUME DetectInv, Return
  PROVE  PCFanOut!Close
<1>1. Active = {}
  BY PCsFinite, FS_EmptySet DEF Return, AllDone, Counted, DetectInv
<1>2. \A i \in PCs : at[i] = "done"
  BY <1>1 DEF Return, Active
<1>3. SettledPCs = PCs
  BY <1>2 DEF SettledPCs
<1>4. at' = at /\ main = "spawn" /\ main' = "returned"
  BY DEF Return
<1> QED BY <1>3, <1>4 DEF PCFanOut!Close, SettledPCs, Holders

(* Every step of Detect is a step of FanOut or a stutter. *)
LEMMA FanOutNext == DetectInv /\ [Next]_vars => [PCFanOut!Next]_(PCFanOut!vars)
<1> SUFFICES ASSUME DetectInv, [Next]_vars PROVE PCFanOut!Next \/ UNCHANGED PCFanOut!vars
  OBVIOUS
<1>0. Shape
  BY DEF DetectInv
<1>1. CASE at' = at /\ (main' = "returned" <=> main = "returned")
  BY <1>1, FanOutStutter DEF Holders, SettledPCs
<1>2. ASSUME NEW i \in PCs, PCStep(i) \/ PCEnd(i)
      PROVE  PCFanOut!Next \/ UNCHANGED PCFanOut!vars
  <2>1. CASE Acquire(i)
    BY <2>1, FanOutBegin DEF PCFanOut!Next
  <2>2. CASE CancelTarget(i)
    BY <2>2, FanOutDrop DEF PCFanOut!Next
  <2>3. CASE Release(i)
    BY <2>3, FanOutSettle DEF PCFanOut!Next
  <2>4. CASE Spawn(i) \/ Exit(i)
    <3>1. /\ main' = main
          /\ \/ at[i] = "idle" /\ at' = [at EXCEPT ![i] = "select"]
             \/ at[i] = "exit" /\ at' = [at EXCEPT ![i] = "done"]
      BY <2>4 DEF Spawn, Exit
    <3>2. Holders' = Holders
      BY <1>0, <3>1, Places, Moved
    <3>3. SettledPCs' = SettledPCs
      BY <1>0, <3>1, SettledMoved
    <3> QED BY <3>1, <3>2, <3>3, FanOutStutter
  <2>5. CASE \/ Skip(i) \/ StartHostname(i) \/ StartList(i) \/ CollectNested(i) \/ StoreTarget(i)
             \/ EndHostname(i) \/ EndList(i)
    <3>1. /\ main' = main /\ at[i] \in HolderStates
          /\ \E b \in HolderStates : at' = [at EXCEPT ![i] = b]
      BY <2>5, Places DEF Skip, StartHostname, StartList, CollectNested, StoreTarget, EndHostname,
                          EndList, ListDocker, ListOther
    <3>2. \A b \in HolderStates : b \notin {"exit", "done"}
      BY DEF HolderStates
    <3>3. Holders' = Holders
      BY <1>0, <3>1, Moved
    <3>4. SettledPCs' = SettledPCs
      BY <1>0, <3>1, <3>2, SettledMoved
    <3> QED BY <3>1, <3>3, <3>4, FanOutStutter
  <2> QED BY <1>2, <2>1, <2>2, <2>3, <2>4, <2>5 DEF PCStep, PCEnd
<1>3. CASE LocalNext
  BY <1>1, <1>3 DEF LocalNext, LocalDocker, LocalExec, LocalCollect, LocalPodman
<1>4. ASSUME NEW i \in PCs, NEW k \in Kids(i), KidStep(i, k) \/ EndNested(i, k)
      PROVE  PCFanOut!Next \/ UNCHANGED PCFanOut!vars
  BY <1>1, <1>4 DEF KidStep, AcquireNested, CancelNested, EndNested
<1>5. CASE Return
  BY <1>5, FanOutClose DEF PCFanOut!Next
<1>6. CASE Cancel \/ Finished \/ UNCHANGED vars
  BY <1>1, <1>6 DEF Cancel, Finished, vars
<1> QED BY <1>2, <1>3, <1>4, <1>5, <1>6 DEF Next

(* The initial states of Detect are initial states of FanOut. *)
LEMMA FanOutInit == Init => PCFanOut!Init
BY DEF Init, PCFanOut!Init, Holders, HolderStates

(* Detect is a bounded fan-out (FanOut.tla) for every number of PCs and     *)
(* every bound: never more than MaxConcurrentTargets goroutines between the *)
(* semaphore's send and receive, each PC settled exactly once, by its probe *)
(* or by the cancellation, and Detect only returns when all are.            *)
THEOREM DetectImplementsFanOut == Spec => ImplementsFanOut
<1>1. Init => DetectInv /\ PCFanOut!Init
  BY DetectInvInit, FanOutInit
<1>2. DetectInv /\ [Next]_vars => DetectInv' /\ [PCFanOut!Next]_(PCFanOut!vars)
  BY DetectInvNext, FanOutNext
<1> QED BY <1>1, <1>2, PTL DEF Spec, ImplementsFanOut, PCFanOut!Spec

---------------------------------------------------------------------------
(* The ssh processes: how many there are, and that the traffic of the      *)
(* report accounts for all of them.                                        *)

(* A union of at most as many sets as V has, each of at most n elements.   *)
LEMMA TaggedUnion ==
  ASSUME NEW V, IsFiniteSet(V), NEW n \in Nat, NEW K,
         \A i \in V : IsFiniteSet(K[i]) /\ Cardinality(K[i]) <= n
  PROVE  LET tagged == UNION {{<<i, k>> : k \in K[i]} : i \in V}
         IN  IsFiniteSet(tagged) /\ Cardinality(tagged) <= Cardinality(V) * n
<1> DEFINE tagged == UNION {{<<i, k>> : k \in K[i]} : i \in V}
           number == [i \in V |-> CHOOSE f : f \in Injection(K[i], 1 .. n)]
           code   == [d \in tagged |-> <<d[1], number[d[1]][d[2]]>>]
<1>1. ASSUME NEW i \in V PROVE number[i] \in Injection(K[i], 1 .. n)
  <2> DEFINE m == Cardinality(K[i])
  <2>1. m \in Nat /\ m <= n /\ ExistsBijection(1 .. m, K[i])
    BY FS_CardinalityType
  <2>2. ExistsBijection(K[i], 1 .. m)
    BY <2>1, Fun_ExistsBijSymmetric
  <2>3. PICK b : b \in Bijection(K[i], 1 .. m)
    BY <2>2, Fun_ExistsBij, Zenon
  <2>4. b \in [K[i] -> 1 .. m] /\ \A x, y \in K[i] : b[x] = b[y] => x = y
    <3>1. b \in Injection(K[i], 1 .. m)
      BY <2>3 DEF Bijection
    <3> HIDE DEF m
    <3>2. b \in [K[i] -> 1 .. m] /\ IsInjective(b)
      BY <3>1 DEF Injection
    <3> QED BY <3>2 DEF IsInjective
  <2>5. b \in [K[i] -> 1 .. n]
    BY <2>1, <2>4
  <2>6. b \in Injection(K[i], 1 .. n)
    BY <2>4, <2>5, Fun_IsInj
  <2> QED BY <2>6, Zenon
<1>2. ASSUME NEW i \in V
      PROVE  /\ number[i] \in [K[i] -> 1 .. n]
             /\ \A x, y \in K[i] : number[i][x] = number[i][y] => x = y
  BY <1>1, Fun_InjectionProperties
<1>3. \A d \in tagged : \E i \in V : \E k \in K[i] : d = <<i, k>>
  OBVIOUS
<1> HIDE DEF number, tagged
<1>4. code \in [tagged -> V \X (1 .. n)]
  <2> SUFFICES ASSUME NEW d \in tagged PROVE code[d] \in V \X (1 .. n)
    OBVIOUS
  <2>1. PICK i \in V : \E k \in K[i] : d = <<i, k>>
    BY <1>3
  <2>2. PICK k \in K[i] : d = <<i, k>>
    BY <2>1
  <2>3. code[d] = <<i, number[i][k]>>
    BY <2>2
  <2>4. number[i][k] \in 1 .. n
    BY <1>2
  <2> QED BY <2>3, <2>4
<1>5. ASSUME NEW d \in tagged, NEW e \in tagged, code[d] = code[e] PROVE d = e
  <2>1. PICK i \in V : \E k \in K[i] : d = <<i, k>>
    BY <1>3
  <2>2. PICK j \in V : \E l \in K[j] : e = <<j, l>>
    BY <1>3
  <2>3. PICK k \in K[i] : d = <<i, k>>
    BY <2>1
  <2>4. PICK l \in K[j] : e = <<j, l>>
    BY <2>2
  <2>5. code[d] = <<i, number[i][k]>> /\ code[e] = <<j, number[j][l]>>
    BY <2>3, <2>4
  <2>6. i = j /\ number[i][k] = number[i][l]
    BY <1>5, <2>5
  <2> QED BY <1>2, <2>3, <2>4, <2>6
<1>6. code \in Injection(tagged, V \X (1 .. n))
  BY <1>4, <1>5, Fun_IsInj
<1>7. IsFiniteSet(1 .. n) /\ Cardinality(1 .. n) = n
  BY FS_Interval
<1>8. IsFiniteSet(V \X (1 .. n)) /\ Cardinality(V \X (1 .. n)) = Cardinality(V) * n
  BY <1>7, FS_Product
<1>9. IsFiniteSet(tagged) /\ Cardinality(tagged) <= Cardinality(V) * n
  BY <1>6, <1>8, FS_Injection
<1> QED BY <1>9 DEF tagged

---------------------------------------------------------------------------
USE DEF caller, pcs, nested, data, counts

(* The semaphores are never overfull, and a PC waits for a process of its  *)
(* own only between the processes of its containers.                       *)
Bounded ==
  /\ sem <= MaxTargets
  /\ \A i \in PCs : nsem[i] <= MaxNested
  /\ \A i \in PCs : cmd[i] # "none" => at[i] \in {"hostname", "list"}

(* Initially no token is taken and no process runs. *)
LEMMA BoundedInit == Init => Bounded
  BY SizeAssumption DEF Init, Bounded, MaxTargets, MaxNested

(* A token is taken only where there is room, a process started only from  *)
(* the place that waits for it.                                            *)
LEMMA BoundedNext ==
  Shape /\ Counted /\ NestedCounted /\ Bounded /\ [Next]_vars => Bounded'
<1> SUFFICES ASSUME Shape, Counted, NestedCounted, Bounded, [Next]_vars PROVE Bounded'
  OBVIOUS
<1>0. /\ sem \in Nat /\ MaxTargets \in Nat /\ MaxNested \in Nat
      /\ nsem \in [PCs -> Nat] /\ DOMAIN at = PCs /\ DOMAIN cmd = PCs
  BY PCsFinite, FS_CardinalityType, SizeAssumption
  DEF Counted, NestedCounted, Shape, MaxTargets, MaxNested
<1>1. CASE UNCHANGED <<pcs, nested>>
  BY <1>1 DEF Bounded
<1>2. ASSUME NEW i \in PCs, PCStep(i) PROVE Bounded'
  <2>1. CASE Acquire(i)
    BY <1>0, <2>1 DEF Acquire, SlotFree, Bounded
  <2>2. CASE StartHostname(i)
    BY <1>0, <2>2 DEF StartHostname, Bounded
  <2>3. CASE StartList(i)
    BY <1>0, <2>3 DEF StartList, Bounded
  <2>4. CASE Release(i)
    BY <1>0, <2>4 DEF Release, Bounded
  <2>5. CASE Spawn(i)
    BY <1>0, <2>5 DEF Spawn, Bounded
  <2>6. CASE CancelTarget(i)
    BY <1>0, <2>6 DEF CancelTarget, Bounded
  <2>7. CASE Skip(i)
    BY <1>0, <2>7 DEF Skip, Bounded
  <2>8. CASE CollectNested(i)
    BY <1>0, <2>8 DEF CollectNested, Bounded
  <2>9. CASE StoreTarget(i)
    BY <1>0, <2>9 DEF StoreTarget, Bounded
  <2>10. CASE Exit(i)
    BY <1>0, <2>10 DEF Exit, Bounded
  <2> QED BY <1>2, <2>1, <2>2, <2>3, <2>4, <2>5, <2>6, <2>7, <2>8, <2>9, <2>10 DEF PCStep
<1>3. ASSUME NEW i \in PCs, PCEnd(i) PROVE Bounded'
  BY <1>0, <1>3 DEF PCEnd, EndHostname, EndList, ListDocker, ListOther, Bounded
<1>4. ASSUME NEW i \in PCs, NEW k \in Kids(i), KidStep(i, k) \/ EndNested(i, k) PROVE Bounded'
  <2>1. CASE AcquireNested(i, k)
    BY <1>0, <2>1 DEF AcquireNested, NestedFree, Bounded
  <2>2. CASE CancelNested(i, k)
    BY <1>0, <2>2 DEF CancelNested, NestedGone, Bounded
  <2>3. CASE EndNested(i, k)
    BY <1>0, <2>3 DEF EndNested, NestedGone, Bounded
  <2> QED BY <1>4, <2>1, <2>2, <2>3 DEF KidStep
<1>5. CASE LocalNext \/ Return \/ Cancel \/ Finished \/ UNCHANGED vars
  BY <1>1, <1>5 DEF LocalNext, LocalDocker, LocalExec, LocalCollect, LocalPodman,
                    Return, Cancel, Finished, vars
<1> QED BY <1>2, <1>3, <1>4, <1>5 DEF Next

---------------------------------------------------------------------------
(* A PC with a process holds a token, and it has one of its own or at most *)
(* as many as the nested semaphore admits, never both.                     *)
LEMMA BoundFollows == Shape /\ Counted /\ NestedCounted /\ Bounded => SSHBound
<1> SUFFICES ASSUME Shape, Counted, NestedCounted, Bounded PROVE SSHBound
  OBVIOUS
<1> DEFINE running == [i \in PCs |-> {k \in Kids(i) : kid[i][k] = "running"}]
           direct  == {i \in PCs : cmd[i] = "running"}
           probing == {i \in PCs : at[i] = "nested"}
<1>1. ASSUME NEW i \in PCs
      PROVE  IsFiniteSet(running[i]) /\ Cardinality(running[i]) <= MaxNested
  <2>1. running[i] \subseteq NestedHolders(i)
    BY DEF NestedHolders, Kids
  <2>2. IsFiniteSet(NestedHolders(i)) /\ Cardinality(NestedHolders(i)) = nsem[i]
    BY NestedFinite DEF NestedCounted
  <2>3. IsFiniteSet(running[i]) /\ Cardinality(running[i]) <= Cardinality(NestedHolders(i))
    BY <2>1, <2>2, FS_Subset
  <2>4. Cardinality(running[i]) \in Nat /\ nsem[i] \in Nat /\ nsem[i] <= MaxNested
    BY <2>3, FS_CardinalityType DEF NestedCounted, Bounded
  <2>5. MaxNested \in Nat
    BY SizeAssumption DEF MaxNested
  <2> QED BY <2>2, <2>3, <2>4, <2>5
<1>2. direct \cap probing = {} /\ direct \cup probing \subseteq Holders
  BY DEF Bounded, Holders, HolderStates
<1>3. /\ IsFiniteSet(direct) /\ IsFiniteSet(probing)
      /\ Cardinality(direct) + Cardinality(probing) <= sem
  <2>1. IsFiniteSet(direct) /\ IsFiniteSet(probing)
    BY PCsFinite, FS_Subset
  <2>2. Cardinality(direct \cup probing) = Cardinality(direct) + Cardinality(probing)
    <3> HIDE DEF direct, probing
    <3>1. Cardinality(direct) \in Nat /\ Cardinality(probing) \in Nat
      BY <2>1, FS_CardinalityType
    <3>2. Cardinality(direct \cap probing) = 0
      BY <1>2, FS_EmptySet
    <3>3. Cardinality(direct \cup probing) =
            Cardinality(direct) + Cardinality(probing) - Cardinality(direct \cap probing)
      BY <2>1, FS_Union, Zenon
    <3> QED BY <3>1, <3>2, <3>3
  <2>3. Cardinality(direct \cup probing) <= Cardinality(Holders)
    BY <1>2, PCsFinite, FS_Subset
  <2> QED BY <2>1, <2>2, <2>3 DEF Counted
<1> DEFINE tagged == UNION {{<<i, k>> : k \in running[i]} : i \in probing}
<1>4. IsFiniteSet(tagged) /\ Cardinality(tagged) <= Cardinality(probing) * MaxNested
  <2>1. \A i \in probing : IsFiniteSet(running[i]) /\ Cardinality(running[i]) <= MaxNested
    BY <1>1
  <2>2. MaxNested \in Nat
    BY SizeAssumption DEF MaxNested
  <2> HIDE DEF running, probing
  <2> QED BY <1>3, <2>1, <2>2, TaggedUnion
<1>5. LiveSSH = Cardinality(direct) + Cardinality(tagged)
  <2>1. \A i \in PCs \ probing : Kids(i) = {}
    BY DEF NestedCounted, Kids
  <2>2. UNION {{<<i, k>> : k \in {q \in Kids(i) : kid[i][q] = "running"}} : i \in PCs} = tagged
    BY <2>1
  <2> QED BY <2>2 DEF LiveSSH
<1>6. LiveSSH <= MaxTargets * MaxNested
  <2> DEFINE a == Cardinality(direct)
             b == Cardinality(probing)
             t == Cardinality(tagged)
  <2>1. a \in Nat /\ b \in Nat /\ t \in Nat
    BY <1>3, <1>4, FS_CardinalityType
  <2>2. MaxTargets \in Nat /\ MaxNested \in Nat /\ MaxNested >= 1
    BY SizeAssumption DEF MaxTargets, MaxNested
  <2>3. a + b <= MaxTargets /\ t <= b * MaxNested
    <3>1. sem \in Nat /\ sem <= MaxTargets
      BY PCsFinite, FS_CardinalityType DEF Counted, Bounded
    <3> QED BY <1>3, <1>4, <2>1, <2>2, <3>1
  <2> HIDE DEF a, b, t
  <2>4. a <= a * MaxNested
    BY <2>1, <2>2
  <2>5. (a + b) * MaxNested <= MaxTargets * MaxNested
    BY <2>1, <2>2, <2>3
  <2>6. (a + b) * MaxNested = a * MaxNested + b * MaxNested
    BY <2>1, <2>2
  <2>7. /\ a * MaxNested \in Nat /\ b * MaxNested \in Nat
        /\ MaxTargets * MaxNested \in Nat
    BY <2>1, <2>2
  <2>8. a + t <= MaxTargets * MaxNested
    BY <2>1, <2>3, <2>4, <2>5, <2>6, <2>7
  <2> QED BY <1>5, <2>8 DEF a, t
<1> QED BY <1>1, <1>6 DEF SSHBound

(* README.md:92, "bounded concurrency": at no moment are there more ssh    *)
(* processes than the two semaphores of detect.go multiply to, nor more    *)
(* nested ones of a PC than its own admits.                                *)
THEOREM ProcessesBounded == Spec => []SSHBound
<1> DEFINE Inv == Shape /\ Counted /\ NestedCounted /\ Bounded
<1>1. Init => Inv
  BY ShapeInit, CountedInit, BoundedInit
<1>2. Inv /\ [Next]_vars => Inv'
  BY ShapeNext, CountedNext, NestedCountedNext, BoundedNext
<1>3. Inv => SSHBound
  BY BoundFollows
<1> QED BY <1>1, <1>2, <1>3, PTL DEF Spec

---------------------------------------------------------------------------
(* The account of ssh sessions. *)

(* The PCs that wait for an ssh command of their own, refused or not, and  *)
(* the probes of containers that do.                                       *)
Own  == {i \in PCs : cmd[i] # "none"}
Deep == UNION {{<<i, k>> : k \in NestedHolders(i)} : i \in PCs}

(* Every session that was started has been counted or is one somebody      *)
(* still waits for; before the deadline nobody waits for anything else.    *)
TrafficInv ==
  /\ IsFiniteSet(Own) /\ IsFiniteSet(Deep)
  /\ \A i \in PCs : cmd[i] # "none" <=> at[i] \in {"hostname", "list"}
  /\ started <= traffic + Cardinality(Own) + Cardinality(Deep)
  /\ ~ctxDone => started = traffic + Cardinality(Own) + Cardinality(Deep)
  /\ TrafficConservative

(* Initially nothing has been started. *)
LEMMA TrafficInit == Init => TrafficInv
<1> SUFFICES ASSUME Init PROVE TrafficInv
  OBVIOUS
<1>1. \A i \in PCs : DOMAIN kid[i] = {}
  BY DEF Init
<1>2. Own = {} /\ Deep = {}
  BY <1>1 DEF Init, Own, Deep, NestedHolders
<1> QED BY <1>2, FS_EmptySet DEF Init, TrafficInv, TrafficConservative

(* What a probe of container k of PC i that moves makes of the waiting ones. *)
LEMMA DeepMoved ==
  ASSUME Shape, NEW i \in PCs, NEW k \in DOMAIN kid[i], NEW b,
         kid' = [kid EXCEPT ![i][k] = b]
  PROVE  /\ b \in {"running", "refused"} => Deep' = Deep \cup {<<i, k>>}
         /\ b \notin {"running", "refused"} => Deep' = Deep \ {<<i, k>>}
         /\ <<i, k>> \in Deep <=> kid[i][k] \in {"running", "refused"}
<1>1. \A j \in PCs \ {i} : kid'[j] = kid[j]
  BY DEF Shape
<1>2. \A j \in PCs \ {i} : NestedHolders(j)' = NestedHolders(j)
  BY <1>1 DEF NestedHolders
<1>3. \A j, q : <<j, q>> \in Deep <=> j \in PCs /\ q \in NestedHolders(j)
  BY DEF Deep
<1>4. \A j, q : <<j, q>> \in Deep' <=> j \in PCs /\ q \in NestedHolders(j)'
  BY DEF Deep
<1>5. (\A p \in Deep : p = <<p[1], p[2]>>) /\ (\A p \in Deep' : p = <<p[1], p[2]>>)
  BY DEF Deep
<1>6. ASSUME b \in {"running", "refused"} PROVE Deep' = Deep \cup {<<i, k>>}
  <2>1. NestedHolders(i)' = NestedHolders(i) \cup {k}
    BY <1>6, NestedSets
  <2>2. ASSUME NEW j, NEW q PROVE <<j, q>> \in Deep' <=> <<j, q>> \in Deep \cup {<<i, k>>}
    <3>1. CASE j = i
      BY <1>3, <1>4, <2>1, <3>1
    <3>2. CASE j # i
      BY <1>2, <1>3, <1>4, <3>2
    <3> QED BY <3>1, <3>2
  <2> QED BY <1>5, <2>2
<1>7. ASSUME b \notin {"running", "refused"} PROVE Deep' = Deep \ {<<i, k>>}
  <2>1. NestedHolders(i)' = NestedHolders(i) \ {k}
    BY <1>7, NestedSets
  <2>2. ASSUME NEW j, NEW q PROVE <<j, q>> \in Deep' <=> <<j, q>> \in Deep \ {<<i, k>>}
    <3>1. CASE j = i
      BY <1>3, <1>4, <2>1, <3>1
    <3>2. CASE j # i
      BY <1>2, <1>3, <1>4, <3>2
    <3> QED BY <3>1, <3>2
  <2> QED BY <1>5, <2>2
<1>8. <<i, k>> \in Deep <=> kid[i][k] \in {"running", "refused"}
  BY <1>3 DEF NestedHolders
<1> QED BY <1>6, <1>7, <1>8

(* A goroutine that neither starts nor ends a command. *)
LEMMA TrafficStays ==
  ASSUME TrafficInv, main # "returned", main' # "returned", UNCHANGED <<cmd, started, traffic>>,
         Deep' = Deep, ctxDone' = ctxDone,
         \A i \in PCs : at'[i] \in {"hostname", "list"} <=> at[i] \in {"hostname", "list"}
  PROVE  TrafficInv'
<1>1. Own' = Own
  BY DEF Own
<1> QED BY <1>1 DEF TrafficInv, TrafficConservative

(* A command of a PC is started or, after the deadline, refused. *)
LEMMA OwnStarts ==
  ASSUME Shape, TrafficInv, main # "returned", main' # "returned", Deep' = Deep, ctxDone' = ctxDone, traffic' = traffic,
         NEW i \in PCs, NEW b \in {"hostname", "list"}, at[i] \notin {"hostname", "list"},
         at' = [at EXCEPT ![i] = b], cmd' = [cmd EXCEPT ![i] = Launch], CountStart
  PROVE  TrafficInv'
<1>1. i \notin Own /\ Own' = Own \cup {i}
  BY DEF Own, TrafficInv, Launch, Shape
<1>2. IsFiniteSet(Own') /\ Cardinality(Own') = Cardinality(Own) + 1
  BY <1>1, CardinalityStep, FS_AddElement DEF TrafficInv
<1>3. \A j \in PCs : cmd'[j] # "none" <=> at'[j] \in {"hostname", "list"}
  BY DEF TrafficInv, Shape, Launch
<1>4. Cardinality(Own) \in Nat /\ Cardinality(Deep) \in Nat /\ started \in Nat /\ traffic \in Nat
  BY FS_CardinalityType DEF TrafficInv, Shape
<1> DEFINE o == Cardinality(Own)
           d == Cardinality(Deep)
<1>5. /\ started' <= traffic' + (o + 1) + d
      /\ ~ctxDone' => started' = traffic' + (o + 1) + d
  BY <1>4 DEF TrafficInv, CountStart
<1> QED BY <1>2, <1>3, <1>5 DEF TrafficInv, TrafficConservative

(* A command of a PC ends and its session is counted. *)
LEMMA OwnEnds ==
  ASSUME Shape, TrafficInv, main # "returned", main' # "returned", Deep' = Deep, ctxDone' = ctxDone, started' = started,
         NEW i \in PCs, NEW b, b \notin {"hostname", "list"}, at[i] \in {"hostname", "list"},
         at' = [at EXCEPT ![i] = b], cmd' = [cmd EXCEPT ![i] = "none"], AddSSH
  PROVE  TrafficInv'
<1>1. i \in Own /\ Own' = Own \ {i}
  BY DEF Own, TrafficInv, Shape
<1>2. IsFiniteSet(Own') /\ Cardinality(Own') = Cardinality(Own) - 1
  BY <1>1, CardinalityStep, FS_RemoveElement DEF TrafficInv
<1>3. \A j \in PCs : cmd'[j] # "none" <=> at'[j] \in {"hostname", "list"}
  BY DEF TrafficInv, Shape
<1>4. Cardinality(Own) \in Nat /\ Cardinality(Deep) \in Nat /\ started \in Nat /\ traffic \in Nat
  BY FS_CardinalityType DEF TrafficInv, Shape
<1> DEFINE o == Cardinality(Own)
           d == Cardinality(Deep)
<1>5. /\ started' <= traffic' + (o - 1) + d
      /\ ~ctxDone' => started' = traffic' + (o - 1) + d
  BY <1>4 DEF TrafficInv, AddSSH
<1> QED BY <1>2, <1>3, <1>5 DEF TrafficInv, TrafficConservative

(* A nested probe starts, is refused, gives up or ends. *)
LEMMA DeepStep ==
  ASSUME Shape, TrafficInv, main # "returned", NEW i \in PCs, NEW k \in Kids(i),
         KidStep(i, k) \/ EndNested(i, k)
  PROVE  TrafficInv'
<1> USE DEF Kids
<1>0. /\ main' = main /\ cmd' = cmd /\ at' = at /\ ctxDone' = ctxDone
      /\ Own' = Own
  BY DEF KidStep, AcquireNested, CancelNested, EndNested, Own
<1>1. Cardinality(Own) \in Nat /\ Cardinality(Deep) \in Nat /\ started \in Nat /\ traffic \in Nat
  BY FS_CardinalityType DEF TrafficInv, Shape
<1> DEFINE o == Cardinality(Own)
           d == Cardinality(Deep)
<1>2. CASE AcquireNested(i, k)
  <2>1. PICK b \in {"running", "refused"} : kid' = [kid EXCEPT ![i][k] = b]
    BY <1>2 DEF AcquireNested, Launch
  <2>2. <<i, k>> \notin Deep /\ Deep' = Deep \cup {<<i, k>>}
    <3>1. kid[i][k] = "select"
      BY <1>2 DEF AcquireNested
    <3> QED BY <2>1, <3>1, DeepMoved
  <2>3. IsFiniteSet(Deep') /\ Cardinality(Deep') = Cardinality(Deep) + 1
    BY <2>2, FS_AddElement DEF TrafficInv
  <2>4. /\ started' <= traffic' + o + (d + 1)
        /\ ~ctxDone' => started' = traffic' + o + (d + 1)
    BY <1>0, <1>1, <1>2 DEF TrafficInv, AcquireNested, CountStart
  <2> QED BY <1>0, <2>3, <2>4 DEF TrafficInv, TrafficConservative
<1>3. CASE CancelNested(i, k)
  <2>1. kid' = [kid EXCEPT ![i][k] = "done"] /\ kid[i][k] = "select"
    BY <1>3 DEF CancelNested, NestedGone
  <2>2. Deep' = Deep
    <3>1. <<i, k>> \notin Deep /\ Deep' = Deep \ {<<i, k>>}
      <4>1. "done" \notin {"running", "refused"} /\ "select" \notin {"running", "refused"}
        OBVIOUS
      <4> QED BY <2>1, <4>1, DeepMoved
    <3> QED BY <3>1
  <2> QED BY <1>0, <1>3, <2>2 DEF TrafficInv, TrafficConservative, CancelNested
<1>4. CASE EndNested(i, k)
  <2>1. kid' = [kid EXCEPT ![i][k] = "done"] /\ kid[i][k] \in {"running", "refused"}
    BY <1>4 DEF EndNested, NestedGone
  <2>2. <<i, k>> \in Deep /\ Deep' = Deep \ {<<i, k>>}
    <3>1. "done" \notin {"running", "refused"}
      OBVIOUS
    <3> QED BY <2>1, <3>1, DeepMoved
  <2>3. IsFiniteSet(Deep') /\ Cardinality(Deep') = Cardinality(Deep) - 1
    BY <2>2, FS_RemoveElement DEF TrafficInv
  <2>4. /\ started' <= traffic' + o + (d - 1)
        /\ ~ctxDone' => started' = traffic' + o + (d - 1)
    BY <1>0, <1>1, <1>4 DEF TrafficInv, EndNested, AddSSH
  <2> QED BY <1>0, <2>3, <2>4 DEF TrafficInv, TrafficConservative
<1> QED BY <1>2, <1>3, <1>4 DEF KidStep

(* A container list that arrives has no probe under way yet, and one whose *)
(* probes are waited for none any more.                                    *)
LEMMA DeepIdle ==
  ASSUME Shape, NestedCounted, NEW i \in PCs,
         (at[i] = "list" /\ ListDocker(i)) \/ CollectNested(i)
  PROVE  Deep' = Deep
<1>1. NestedHolders(i) = {}
  <2>1. CASE at[i] = "list"
    BY <2>1 DEF NestedCounted, NestedHolders
  <2>2. CASE CollectNested(i)
    BY <2>2, NestedFinite DEF CollectNested, NestedDone
  <2> QED BY <2>1, <2>2
<1>2. /\ \A j \in PCs \ {i} : kid'[j] = kid[j]
      /\ \A k \in DOMAIN kid'[i] : kid'[i][k] \in {"done", "select"}
  <2>1. CASE at[i] = "list" /\ ListDocker(i)
    BY <2>1 DEF Shape, ListDocker
  <2>2. CASE CollectNested(i)
    BY <2>2 DEF Shape, CollectNested
  <2> QED BY <2>1, <2>2
<1>3. NestedHolders(i)' = {} /\ \A j \in PCs \ {i} : NestedHolders(j)' = NestedHolders(j)
  BY <1>2 DEF NestedHolders
<1>4. \A j \in PCs : NestedHolders(j)' = NestedHolders(j)
  BY <1>1, <1>3
<1> QED BY <1>4 DEF Deep

(* When Detect returns nobody waits for a command any more. *)
LEMMA NobodyWaits ==
  ASSUME DetectInv, TrafficInv, Return
  PROVE  Own = {} /\ Deep = {}
<1>1. Active = {}
  BY PCsFinite, FS_EmptySet DEF Return, AllDone, Counted, DetectInv
<1>2. \A i \in PCs : at[i] = "done"
  BY <1>1 DEF Return, Active
<1>3. \A i \in PCs : cmd[i] = "none" /\ NestedHolders(i) = {}
  BY <1>2 DEF TrafficInv, DetectInv, NestedCounted, NestedHolders
<1> QED BY <1>3 DEF Own, Deep

(* Every step keeps the account of sessions. *)
LEMMA TrafficNext == DetectInv /\ TrafficInv /\ [Next]_vars => TrafficInv'
<1> SUFFICES ASSUME DetectInv, TrafficInv, [Next]_vars PROVE TrafficInv'
  OBVIOUS
<1>0. Shape /\ NestedCounted /\ Phase
  BY DEF DetectInv
<1>1. ASSUME NEW i \in PCs, PCStep(i) \/ PCEnd(i) PROVE TrafficInv'
  <2>0. /\ main # "returned" /\ main' = main /\ ctxDone' = ctxDone
    <3>1. /\ at[i] # "done" /\ main' = main /\ ctxDone' = ctxDone
          /\ Spawn(i) => main = "spawn"
          /\ ~Spawn(i) => at[i] # "idle"
      BY <1>1 DEF PCStep, PCEnd, Spawn, Acquire, CancelTarget, Skip, StartHostname, StartList,
                  CollectNested, StoreTarget, Release, Exit, EndHostname, EndList
    <3> QED BY <1>0, <3>1 DEF Phase
  <2>1. CASE StartHostname(i) \/ StartList(i)
    <3>1. PICK b \in {"hostname", "list"} : at' = [at EXCEPT ![i] = b]
      BY <2>1 DEF StartHostname, StartList
    <3>2. /\ at[i] \notin {"hostname", "list"} /\ cmd' = [cmd EXCEPT ![i] = Launch] /\ CountStart
          /\ traffic' = traffic /\ kid' = kid
      BY <2>1 DEF StartHostname, StartList
    <3>3. Deep' = Deep
      BY <3>2 DEF Deep, NestedHolders
    <3> QED BY <1>0, <2>0, <3>1, <3>2, <3>3, OwnStarts
  <2>2. CASE PCEnd(i)
    <3>1. /\ at[i] \in {"hostname", "list"} /\ cmd' = [cmd EXCEPT ![i] = "none"] /\ AddSSH
          /\ started' = started
      BY <2>2 DEF PCEnd, EndHostname, EndList
    <3>2. PICK b : b \notin {"hostname", "list"} /\ at' = [at EXCEPT ![i] = b]
      BY <2>2 DEF PCEnd, EndHostname, EndList, ListDocker, ListOther
    <3>3. Deep' = Deep
      <4>1. kid' = kid \/ (at[i] = "list" /\ ListDocker(i))
        BY <2>2 DEF PCEnd, EndHostname, EndList, ListOther
      <4> QED BY <1>0, <4>1, DeepIdle DEF Deep, NestedHolders
    <3> QED BY <1>0, <2>0, <3>1, <3>2, <3>3, OwnEnds
  <2>3. CASE CollectNested(i)
    <3>1. /\ UNCHANGED <<cmd, started, traffic>> /\ at[i] = "nested"
          /\ at' = [at EXCEPT ![i] = "runtime"]
      BY <2>3 DEF CollectNested
    <3>2. \A j \in PCs : at'[j] \in {"hostname", "list"} <=> at[j] \in {"hostname", "list"}
      BY <1>0, <3>1 DEF Shape
    <3> QED BY <1>0, <2>0, <2>3, <3>1, <3>2, DeepIdle, TrafficStays
  <2>4. CASE \/ Spawn(i) \/ Acquire(i) \/ CancelTarget(i) \/ Skip(i) \/ StoreTarget(i)
             \/ Release(i) \/ Exit(i)
    <3>1. /\ UNCHANGED <<cmd, started, traffic, kid>> /\ at[i] \notin {"hostname", "list"}
          /\ \E b \in {"select", "holding", "leaving", "exit", "done"} : at' = [at EXCEPT ![i] = b]
      BY <2>4 DEF Spawn, Acquire, CancelTarget, Skip, StoreTarget, Release, Exit
    <3>2. \A j \in PCs : at'[j] \in {"hostname", "list"} <=> at[j] \in {"hostname", "list"}
      BY <1>0, <3>1 DEF Shape
    <3>3. Deep' = Deep
      BY <3>1 DEF Deep, NestedHolders
    <3> QED BY <2>0, <3>1, <3>2, <3>3, TrafficStays
  <2> QED BY <1>1, <2>1, <2>2, <2>3, <2>4 DEF PCStep
<1>2. ASSUME NEW i \in PCs, NEW k \in Kids(i), KidStep(i, k) \/ EndNested(i, k) PROVE TrafficInv'
  <2>1. at[i] = "nested"
    BY <1>0 DEF Kids, NestedCounted
  <2>2. main # "returned"
    BY <1>0, <2>1, UnderWay
  <2> QED BY <1>0, <1>2, <2>2, DeepStep
<1>3. CASE LocalNext
  <2>1. /\ main # "returned" /\ main' # "returned"
        /\ UNCHANGED <<cmd, started, traffic, kid, at, ctxDone>>
    BY <1>3 DEF LocalNext, LocalDocker, LocalExec, LocalCollect, LocalPodman
  <2>2. Deep' = Deep
    BY <2>1 DEF Deep, NestedHolders
  <2> QED BY <2>1, <2>2, TrafficStays
<1>4. CASE Return
  <2>1. Cardinality(Own) = 0 /\ Cardinality(Deep) = 0
    BY <1>4, NobodyWaits, FS_EmptySet
  <2>2. /\ UNCHANGED <<cmd, started, traffic, kid, at, ctxDone>>
        /\ summary'.sessions = traffic
    BY <1>4 DEF Return
  <2>3. Own' = Own /\ Deep' = Deep
    BY <2>2 DEF Own, Deep, NestedHolders
  <2>4. started \in Nat /\ traffic \in Nat
    BY <1>0 DEF Shape
  <2>5. summary'.sessions >= started' /\ (~ctxDone' => summary'.sessions = started')
    BY <2>1, <2>2, <2>4 DEF TrafficInv
  <2> QED BY <2>2, <2>3, <2>5 DEF TrafficInv, TrafficConservative
<1>5. CASE Cancel \/ Finished \/ UNCHANGED vars
  <2>1. UNCHANGED <<main, cmd, started, traffic, kid, at, summary>> /\ (ctxDone => ctxDone')
    BY <1>0, <1>5 DEF Cancel, Finished, vars
  <2>2. Own' = Own /\ Deep' = Deep
    BY <2>1 DEF Own, Deep, NestedHolders
  <2> QED BY <2>1, <2>2 DEF TrafficInv, TrafficConservative
<1> QED BY <1>1, <1>2, <1>3, <1>4, <1>5 DEF Next

(* The traffic of a report (trafficCounter in detect.go) leaves out no ssh *)
(* session that took place, killed half-way or not, and counts each once   *)
(* as long as nothing is cancelled: for every number of PCs and containers *)
(* and every order of steps.                                               *)
THEOREM TrafficIsConservative == Spec => []TrafficConservative
<1>1. Init => DetectInv /\ TrafficInv
  BY DetectInvInit, TrafficInit
<1>2. DetectInv /\ TrafficInv /\ [Next]_vars => (DetectInv /\ TrafficInv)'
  BY DetectInvNext, TrafficNext
<1>3. TrafficInv => TrafficConservative
  BY DEF TrafficInv
<1> QED BY <1>1, <1>2, <1>3, PTL DEF Spec
=============================================================================
