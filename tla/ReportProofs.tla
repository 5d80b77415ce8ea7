---------------------------- MODULE ReportProofs ----------------------------
(***************************************************************************)
(* Theorems about what a report says, for every number of PCs, every world *)
(* of containers, every answer to every probe and every order in which     *)
(* they come back.                                                         *)
(*                                                                         *)
(* The inductive invariant says of every report made so far, also of those *)
(* still in the hands of a goroutine, that its list is the sorted and      *)
(* demoted reading of what runs on the machine in which just the probes of *)
(* some set S have answered, and that S is all of them as long as nothing  *)
(* may have failed.  From there on it is about lists: sorting is a         *)
(* permutation, so that every place of a report comes from one container.  *)
(***************************************************************************)
EXTENDS ReportViews, DetectProofs, SequenceTheorems

(* The containers of a list that are looked into. *)
Probed(s, rt) ==
  {k \in DOMAIN Listing[s][rt] : IncludeNested /\ rt = "docker" /\ Listing[s][rt][k].id # 0}

(* The list of a runtime when the probes of S have answered. *)
Reading(s, rt, S) ==
  [k \in DOMAIN Listing[s][rt] |->
     [name |-> Listing[s][rt][k].name, id |-> Listing[s][rt][k].id,
      wrapper |-> Listing[s][rt][k].wrapper,
      matched |-> Match(s, Listing[s][rt][k].name),
      nested |-> IF k \in S THEN ParseNested(s, k) ELSE <<>>]]

(* A list as it goes into a report. *)
Shown(s, rt, S) == SortContainers(DemoteRuntimeWrappers(Reading(s, rt, S)))

(* A report is that of a runtime that was asked, or an empty one; if       *)
(* nothing may have failed it is the former and complete.                  *)
Made(s, rep, whole) ==
  /\ rep.type \in {"docker", "podman"} /\ rep.available \in BOOLEAN
  /\ ~rep.available => rep.containers = <<>>
  /\ rep.available =>
       /\ rep.type \in RuntimesAt(s)
       /\ \E S \in SUBSET Probed(s, rep.type) :
            /\ rep.containers = Shown(s, rep.type, S)
            /\ whole => S = Probed(s, rep.type)
  /\ whole /\ rep.type \in RuntimesAt(s) => rep.available

(* The probes of done have been settled, and their answers are in list w.  *)
HalfRead(s, w, done, whole) ==
  \E S \in SUBSET Probed(s, "docker") :
    /\ w = Reading(s, "docker", S)
    /\ whole => Probed(s, "docker") \cap done \subseteq S

LocalReport(rs, whole) ==
  /\ IsSeq(rs) /\ Len(rs) = 2 /\ rs[1].type = "docker" /\ rs[2].type = "podman"
  /\ Made(0, rs[1], whole) /\ Made(0, rs[2], whole)

(* Nothing has failed so far. *)
Trusty == reliable /\ ~ctxDone

(* How far the calling goroutine has come with the hub. *)
LocalOK ==
  /\ main = "docker" => built[0] = <<>>
  /\ main = "exec" => /\ IncludeNested /\ "docker" \in LocalRuntimes
                      /\ lnext \in Nat \ {0} /\ HalfRead(0, work[0], 1 .. lnext - 1, Trusty)
  /\ main = "podman" => \E rep : /\ built[0] = <<rep>> /\ rep.type = "docker"
                                 /\ Made(0, rep, Trusty)
  /\ main \in {"spawn", "returned"} =>
       targets[0].status = "probed" /\ LocalReport(targets[0].runtimes, Trusty)

(* The goroutines of the containers that have settled. *)
Settled(i) == {k \in DOMAIN kid[i] : kid[i][k] = "done"}

(* How far the goroutine of PC i has come. *)
RemoteOK(i) ==
  /\ \A r \in DOMAIN built[i] : Made(i, built[i][r], Trusty)
  /\ at[i] = "nested" =>
       /\ IncludeNested
       /\ DOMAIN kid[i] \ Settled(i) \subseteq Probed(i, "docker")
       /\ Probed(i, "docker") \subseteq DOMAIN kid[i]
       /\ HalfRead(i, work[i], Settled(i), Trusty)
  /\ cmd[i] = "refused" => ctxDone
  /\ \A k \in DOMAIN kid[i] : kid[i][k] = "refused" => ctxDone

(* What the slot of PC i says. *)
SlotOK(i) ==
  /\ \A r \in DOMAIN targets[i].runtimes : Made(i, targets[i].runtimes[r], Trusty)
  /\ targets[i].status # "probed" => targets[i].runtimes = <<>>
  /\ Trusty => /\ targets[i].status # "cancelled"
               /\ targets[i].status = "skipped" => ~(SSHInstalled /\ i \in HasSSH)

ReportInv == LocalOK /\ \A i \in PCs : RemoteOK(i) /\ SlotOK(i)

---------------------------------------------------------------------------
(* What a report is made of. *)

(* What nothing has failed for, it is still what it was for less.          *)
LEMMA MadeStill ==
  ASSUME NEW s, NEW rep, NEW a, NEW b, b => a, Made(s, rep, a)
  PROVE  Made(s, rep, b)
BY DEF Made

(* Likewise for a list whose probes are still coming in.                   *)
LEMMA HalfReadStill ==
  ASSUME NEW s, NEW w, NEW c, NEW d, d \subseteq c, NEW a, NEW b, b => a, HalfRead(s, w, c, a)
  PROVE  HalfRead(s, w, d, b)
BY DEF HalfRead

(* A list nobody has looked into yet is what Parse makes of it.            *)
LEMMA ParsedIsReading ==
  ASSUME NEW s, NEW rt
  PROVE  Parse(s, Listing[s][rt]) = Reading(s, rt, {})
BY DEF Parse, Reading

(* Demotion changes nothing where no container has others inside.          *)
LEMMA NothingDemoted ==
  ASSUME NEW s, NEW rt
  PROVE  DemoteRuntimeWrappers(Reading(s, rt, {})) = Reading(s, rt, {})
<1> DEFINE w == Reading(s, rt, {})
           D == DOMAIN Listing[s][rt]
<1>1. DOMAIN w = D
  BY DEF Reading
<1>2. ASSUME NEW k \in D
      PROVE  [w[k] EXCEPT !.matched = w[k].matched /\ ~(w[k].wrapper /\ HasNestedMatch(w[k]))] = w[k]
  <2>1. w[k] = [name |-> Listing[s][rt][k].name, id |-> Listing[s][rt][k].id,
                wrapper |-> Listing[s][rt][k].wrapper,
                matched |-> Match(s, Listing[s][rt][k].name), nested |-> <<>>]
    BY DEF Reading
  <2>2. ~HasNestedMatch(w[k])
    <3>1. w[k].nested = <<>>
      BY <2>1
    <3> HIDE DEF w
    <3> QED BY <3>1 DEF HasNestedMatch
  <2>3. w[k].matched \in BOOLEAN
    <3>1. w[k].matched = (Listing[s][rt][k].name \in Accepts[s])
      BY <2>1 DEF Match
    <3>2. (Listing[s][rt][k].name \in Accepts[s]) \in BOOLEAN
      OBVIOUS
    <3> HIDE DEF w
    <3> QED BY <3>1, <3>2
  <2>4. (w[k].matched /\ ~(w[k].wrapper /\ HasNestedMatch(w[k]))) = w[k].matched
    BY <2>2, <2>3
  <2> HIDE DEF w
  <2> QED BY <2>1, <2>4
<1>3. DemoteRuntimeWrappers(w) =
        [k \in D |-> [w[k] EXCEPT !.matched = w[k].matched /\ ~(w[k].wrapper /\ HasNestedMatch(w[k]))]]
  BY <1>1 DEF DemoteRuntimeWrappers
<1>4. w = [k \in D |-> w[k]]
  BY DEF Reading
<1> HIDE DEF w
<1> QED BY <1>2, <1>3, <1>4 DEF w

(* The report of a runtime whose containers are not looked into.           *)
LEMMA PlainMade ==
  ASSUME NEW s, NEW rt \in {"docker", "podman"}, Probed(s, rt) = {}, NEW ok \in BOOLEAN, NEW whole,
         ok => rt \in RuntimesAt(s), whole /\ rt \in RuntimesAt(s) => ok
  PROVE  Made(s, RuntimeReport(rt, ok, IF ok THEN SortContainers(Parse(s, Listing[s][rt])) ELSE <<>>),
              whole)
<1> DEFINE found == IF ok THEN SortContainers(Parse(s, Listing[s][rt])) ELSE <<>>
           rep == RuntimeReport(rt, ok, found)
<1>1. rep.type = rt /\ rep.available = ok /\ rep.containers = found
  BY DEF RuntimeReport
<1>2. ok => found = Shown(s, rt, {})
  BY ParsedIsReading, NothingDemoted DEF Shown
<1>3. ~ok => found = <<>>
  OBVIOUS
<1> HIDE DEF found, rep
<1>4. Made(s, rep, whole)
  BY <1>1, <1>2, <1>3 DEF Made
<1> QED BY <1>4 DEF rep, found

(* The report of a docker whose containers have been looked into.          *)
LEMMA DockerMade ==
  ASSUME NEW s, NEW w, NEW done, NEW whole, HalfRead(s, w, done, whole), "docker" \in RuntimesAt(s),
         Probed(s, "docker") \subseteq done
  PROVE  Made(s, RuntimeReport("docker", TRUE, SortContainers(DemoteRuntimeWrappers(w))), whole)
<1> DEFINE rep == RuntimeReport("docker", TRUE, SortContainers(DemoteRuntimeWrappers(w)))
<1>1. PICK S \in SUBSET Probed(s, "docker") :
        w = Reading(s, "docker", S) /\ (whole => Probed(s, "docker") \cap done \subseteq S)
  BY DEF HalfRead
<1>2. /\ rep.type = "docker" /\ rep.available = TRUE
      /\ rep.containers = Shown(s, "docker", S)
  BY <1>1 DEF RuntimeReport, Shown
<1>3. whole => S = Probed(s, "docker")
  BY <1>1
<1> HIDE DEF rep
<1>4. Made(s, rep, whole)
  BY <1>2, <1>3 DEF Made
<1> QED BY <1>4 DEF rep

(* The answer of one more probe.                                           *)
LEMMA OneMoreRead ==
  ASSUME NEW s, NEW w, NEW S \in SUBSET Probed(s, "docker"), w = Reading(s, "docker", S),
         NEW k \in Probed(s, "docker")
  PROVE  [w EXCEPT ![k].nested = ParseNested(s, k)] = Reading(s, "docker", S \cup {k})
<1> DEFINE D == DOMAIN Listing[s]["docker"]
           v == Reading(s, "docker", S \cup {k})
<1>1. k \in D /\ DOMAIN w = D /\ v = [j \in D |-> v[j]] /\ w = [j \in D |-> w[j]]
  BY DEF Reading, Probed
<1>2. \A j \in D \ {k} : v[j] = w[j]
  BY DEF Reading
<1>3. [w[k] EXCEPT !.nested = ParseNested(s, k)] = v[k]
  <2> DEFINE raw == Listing[s]["docker"][k]
             seen(inside) == [name |-> raw.name, id |-> raw.id, wrapper |-> raw.wrapper,
                              matched |-> Match(s, raw.name), nested |-> inside]
  <2>1. v[k] = seen(ParseNested(s, k))
    BY <1>1 DEF Reading
  <2>2. \E inside : w[k] = seen(inside)
    BY <1>1 DEF Reading
  <2> HIDE DEF raw
  <2>3. \A inside : [seen(inside) EXCEPT !.nested = ParseNested(s, k)] = seen(ParseNested(s, k))
    OBVIOUS
  <2> QED BY <2>1, <2>2, <2>3
<1>4. [w EXCEPT ![k].nested = ParseNested(s, k)] =
        [j \in D |-> IF j = k THEN [w[k] EXCEPT !.nested = ParseNested(s, k)] ELSE w[j]]
  <2>1. [w EXCEPT ![k].nested = ParseNested(s, k)] =
          [w EXCEPT ![k] = [w[k] EXCEPT !.nested = ParseNested(s, k)]]
    BY Zenon
  <2> QED BY <1>1, <2>1
<1> HIDE DEF v, D
<1> QED BY <1>1, <1>2, <1>3, <1>4 DEF v

(* A probe settles: its answer is in the list if nothing has failed.       *)
LEMMA HalfReadOn ==
  ASSUME NEW s, NEW w, NEW c, NEW a, NEW b, b => a, HalfRead(s, w, c, a), NEW k,
         NEW ok \in BOOLEAN, ok => k \in Probed(s, "docker"),
         b /\ k \in Probed(s, "docker") => ok
  PROVE  HalfRead(s, IF ok THEN [w EXCEPT ![k].nested = ParseNested(s, k)] ELSE w, c \cup {k}, b)
<1>1. PICK S \in SUBSET Probed(s, "docker") :
        w = Reading(s, "docker", S) /\ (a => Probed(s, "docker") \cap c \subseteq S)
  BY DEF HalfRead
<1>2. CASE ok
  <2>1. [w EXCEPT ![k].nested = ParseNested(s, k)] = Reading(s, "docker", S \cup {k})
    BY <1>1, <1>2, OneMoreRead
  <2>2. S \cup {k} \in SUBSET Probed(s, "docker")
    BY <1>2
  <2>3. b => Probed(s, "docker") \cap (c \cup {k}) \subseteq S \cup {k}
    BY <1>1
  <2>4. HalfRead(s, [w EXCEPT ![k].nested = ParseNested(s, k)], c \cup {k}, b)
    BY <2>1, <2>2, <2>3, Zenon DEF HalfRead
  <2> QED BY <1>2, <2>4
<1>3. CASE ~ok
  <2>1. b => Probed(s, "docker") \cap (c \cup {k}) \subseteq S
    BY <1>1, <1>3
  <2>2. HalfRead(s, w, c \cup {k}, b)
    BY <1>1, <2>1 DEF HalfRead
  <2> QED BY <1>3, <2>2
<1> QED BY <1>2, <1>3

---------------------------------------------------------------------------
(* The calling goroutine. *)

USE DEF caller, pcs, nested, data, counts

(* Time only makes it less certain that nothing has failed.                *)
LEMMA LessTrusty ==
  ASSUME Shape, [Next]_vars
  PROVE  (Trusty' => Trusty) /\ (ctxDone => ctxDone')
<1>1. reliable' = reliable
  BY DEF Next, LocalNext, LocalDocker, LocalExec, LocalCollect, LocalPodman, PCStep, PCEnd,
         Spawn, Acquire, CancelTarget, Skip, StartHostname, StartList, CollectNested, StoreTarget,
         Release, Exit, EndHostname, EndList, KidStep, AcquireNested, CancelNested, EndNested,
         Return, Cancel, Finished, vars
<1>2. ctxDone' = ctxDone \/ Cancel
  BY DEF Next, LocalNext, LocalDocker, LocalExec, LocalCollect, LocalPodman, PCStep, PCEnd,
         Spawn, Acquire, CancelTarget, Skip, StartHostname, StartList, CollectNested, StoreTarget,
         Release, Exit, EndHostname, EndList, KidStep, AcquireNested, CancelNested, EndNested,
         Return, Finished, vars
<1> QED BY <1>1, <1>2 DEF Trusty, Shape, Cancel

(* Nothing moves on the calling goroutine, in a PC's goroutine, in a slot. *)
LEMMA LocalStill ==
  ASSUME LocalOK, UNCHANGED <<main, lnext>>, built'[0] = built[0], work'[0] = work[0],
         targets'[0] = targets[0], Trusty' => Trusty
  PROVE  LocalOK'
<1>1. \A rep : Made(0, rep, Trusty) => Made(0, rep, Trusty')
  BY MadeStill
<1>2. \A w, c : HalfRead(0, w, c, Trusty) => HalfRead(0, w, c, Trusty')
  BY HalfReadStill
<1>3. LocalReport(targets[0].runtimes, Trusty) => LocalReport(targets'[0].runtimes, Trusty')
  BY <1>1 DEF LocalReport
<1> QED BY <1>1, <1>2, <1>3 DEF LocalOK

(* The goroutine of a PC that moves without a report and without a list.   *)
LEMMA RemoteMoves ==
  ASSUME NEW i, RemoteOK(i), built'[i] = built[i], kid'[i] = kid[i],
         \/ at'[i] # "nested"
         \/ at'[i] = at[i] /\ work'[i] = work[i],
         cmd'[i] = cmd[i] \/ cmd'[i] # "refused" \/ ctxDone',
         Trusty' => Trusty, ctxDone => ctxDone'
  PROVE  RemoteOK(i)'
<1>1. \A rep : Made(i, rep, Trusty) => Made(i, rep, Trusty')
  BY MadeStill
<1>2. \A w, c : HalfRead(i, w, c, Trusty) => HalfRead(i, w, c, Trusty')
  BY HalfReadStill
<1>3. Settled(i)' = Settled(i)
  BY DEF Settled
<1>4. \A r \in DOMAIN built'[i] : Made(i, built'[i][r], Trusty')
  BY <1>1 DEF RemoteOK
<1>5. at'[i] = "nested" => HalfRead(i, work'[i], Settled(i)', Trusty')
  BY <1>2, <1>3 DEF RemoteOK
<1>6. at'[i] = "nested" => /\ IncludeNested
                           /\ DOMAIN kid'[i] \ Settled(i)' \subseteq Probed(i, "docker")
                           /\ Probed(i, "docker") \subseteq DOMAIN kid'[i]
  BY <1>3 DEF RemoteOK
<1>7. /\ cmd'[i] = "refused" => ctxDone'
      /\ \A k \in DOMAIN kid'[i] : kid'[i][k] = "refused" => ctxDone'
  BY DEF RemoteOK
<1> QED BY <1>4, <1>5, <1>6, <1>7 DEF RemoteOK

(* Nobody writes to the slot.                                              *)
LEMMA SlotStill ==
  ASSUME NEW i, SlotOK(i), targets'[i] = targets[i], Trusty' => Trusty
  PROVE  SlotOK(i)'
<1>1. \A rep : Made(i, rep, Trusty) => Made(i, rep, Trusty')
  BY MadeStill
<1> QED BY <1>1 DEF SlotOK

---------------------------------------------------------------------------
(* Answers of a command in a world where nothing has failed.               *)
LEMMA TrustyAnswers ==
  ASSUME NEW proc, proc = "refused" => ctxDone, NEW ok \in Answers(proc)
  PROVE  ok \in BOOLEAN /\ (Trusty => ok)
BY DEF Answers, Trusty

(* The runtimes of the hub, and those of a PC.                             *)
LEMMA RuntimesKnown ==
  /\ RuntimesAt(0) = LocalRuntimes
  /\ \A i \in PCs : RuntimesAt(i) = {Runtimes[i][r] : r \in DOMAIN Runtimes[i]}
BY DEF RuntimesAt, PCs

(* The calling goroutine probes the hub.                                   *)
LEMMA LocalStep == Shape /\ LocalOK /\ LocalNext => LocalOK'
<1> SUFFICES ASSUME Shape, LocalOK, LocalNext PROVE LocalOK'
  OBVIOUS
<1>0. 0 \in Sites /\ DOMAIN built = Sites /\ DOMAIN work = Sites /\ DOMAIN targets = Sites
  BY SizeAssumption DEF Shape, Sites
<1>a. ASSUME NEW rt, NEW ok \in LocalAnswers(rt)
      PROVE  ok \in BOOLEAN /\ (ok => rt \in LocalRuntimes)
             /\ (Trusty /\ rt \in LocalRuntimes => ok)
  <2>1. Launch = "refused" => ctxDone
    BY DEF Launch
  <2>2. CASE rt \in LocalRuntimes
    BY <2>1, <2>2, <1>a, TrustyAnswers DEF LocalAnswers
  <2>3. CASE rt \notin LocalRuntimes
    BY <2>3, <1>a DEF LocalAnswers
  <2> QED BY <2>2, <2>3
<1>b. LocalNext => ctxDone' = ctxDone /\ reliable' = reliable
  BY DEF LocalNext, LocalDocker, LocalExec, LocalCollect, LocalPodman
<1>c. Trusty' = Trusty
  BY <1>b DEF Trusty
<1>1. CASE LocalDocker
  <2>1. PICK ok \in LocalAnswers("docker") :
          \/ /\ ok /\ IncludeNested
             /\ work' = [work EXCEPT ![0] = Parse(0, Listing[0]["docker"])]
             /\ lnext' = 1
             /\ main' = "exec"
             /\ UNCHANGED built
          \/ /\ ~(ok /\ IncludeNested)
             /\ LET found == IF ok THEN SortContainers(Parse(0, Listing[0]["docker"])) ELSE <<>>
                IN  built' = [built EXCEPT ![0] = <<RuntimeReport("docker", ok, found)>>]
             /\ main' = "podman"
             /\ UNCHANGED <<work, lnext>>
    BY <1>1 DEF LocalDocker
  <2>2. CASE ok /\ IncludeNested
    <3>1. main' = "exec" /\ built'[0] = <<>> /\ lnext' = 1 /\ work'[0] = Reading(0, "docker", {})
      BY <1>0, <1>1, <2>1, <2>2, ParsedIsReading DEF LocalDocker, LocalOK
    <3>2. 1 .. lnext' - 1 = {}
      BY <3>1
    <3>3. HalfRead(0, work'[0], 1 .. lnext' - 1, Trusty')
      BY <3>1, <3>2 DEF HalfRead
    <3>4. "docker" \in LocalRuntimes
      BY <1>a, <2>2
    <3> QED BY <2>2, <3>1, <3>3, <3>4 DEF LocalOK
  <2>3. CASE ~(ok /\ IncludeNested)
    <3> DEFINE found == IF ok THEN SortContainers(Parse(0, Listing[0]["docker"])) ELSE <<>>
               rep == RuntimeReport("docker", ok, found)
    <3>1. main' = "podman" /\ built'[0] = <<rep>>
      BY <1>0, <2>1, <2>3
    <3>2. rep.type = "docker"
      BY DEF RuntimeReport
    <3>3. Made(0, rep, Trusty)
      <4>1. CASE ~ok
        <5>1. rep.available = ok /\ rep.containers = <<>>
          BY <4>1 DEF RuntimeReport
        <5>2. ok \in BOOLEAN /\ (Trusty => "docker" \notin RuntimesAt(0))
          BY <1>a, <4>1, RuntimesKnown
        <5> HIDE DEF rep
        <5> QED BY <3>2, <4>1, <5>1, <5>2 DEF Made
      <4>2. CASE ok
        <5>1. Probed(0, "docker") = {}
          BY <2>3, <4>2 DEF Probed
        <5>2. ok \in BOOLEAN /\ (ok => "docker" \in RuntimesAt(0))
          BY <1>a, RuntimesKnown
        <5> QED BY <4>2, <5>1, <5>2, PlainMade
      <4> QED BY <4>1, <4>2
    <3> HIDE DEF rep
    <3> QED BY <1>c, <3>1, <3>2, <3>3 DEF LocalOK
  <2> QED BY <2>2, <2>3
<1>2. CASE LocalExec
  <2>1. PICK ok \in Answers(Launch) :
          work' = IF ok /\ work[0][lnext].id # 0
                  THEN [work EXCEPT ![0][lnext].nested = ParseNested(0, lnext)]
                  ELSE work
    BY <1>2 DEF LocalExec
  <2> DEFINE yes == ok /\ work[0][lnext].id # 0
  <2>2. /\ main = "exec" /\ main' = main /\ lnext' = lnext + 1 /\ lnext \in DOMAIN work[0]
        /\ built' = built /\ targets' = targets
    BY <1>2 DEF LocalExec
  <2>3. /\ IncludeNested /\ "docker" \in LocalRuntimes
        /\ lnext \in Nat \ {0} /\ HalfRead(0, work[0], 1 .. lnext - 1, Trusty)
    BY <2>2 DEF LocalOK
  <2>4. lnext \in Probed(0, "docker") <=> work[0][lnext].id # 0
    BY <2>2, <2>3 DEF HalfRead, Reading, Probed
  <2>5. ok \in BOOLEAN /\ (Trusty => ok)
    <3>1. Launch = "refused" => ctxDone
      BY DEF Launch
    <3> QED BY <3>1, TrustyAnswers
  <2>6. /\ yes \in BOOLEAN /\ (yes => lnext \in Probed(0, "docker"))
        /\ Trusty /\ lnext \in Probed(0, "docker") => yes
    BY <2>4, <2>5
  <2>7. work'[0] = IF yes THEN [work[0] EXCEPT ![lnext].nested = ParseNested(0, lnext)] ELSE work[0]
    <3>1. CASE yes
      <4>1. work' = [work EXCEPT ![0][lnext].nested = ParseNested(0, lnext)]
        BY <2>1, <3>1
      <4>2. work' = [work EXCEPT ![0] = [work[0] EXCEPT ![lnext].nested = ParseNested(0, lnext)]]
        BY <4>1, Zenon
      <4> QED BY <1>0, <3>1, <4>2
    <3>2. CASE ~yes
      BY <2>1, <3>2
    <3> QED BY <3>1, <3>2
  <2> HIDE DEF yes
  <2>8. HalfRead(0, work'[0], (1 .. lnext - 1) \cup {lnext}, Trusty)
    <3>1. Trusty => Trusty
      OBVIOUS
    <3>2. HalfRead(0, IF yes THEN [work[0] EXCEPT ![lnext].nested = ParseNested(0, lnext)]
                             ELSE work[0], (1 .. lnext - 1) \cup {lnext}, Trusty)
      BY <2>3, <2>6, <3>1, HalfReadOn, Zenon
    <3> QED BY <2>7, <3>2
  <2>9. (1 .. lnext - 1) \cup {lnext} = 1 .. lnext' - 1 /\ lnext' \in Nat \ {0}
    BY <2>2, <2>3
  <2> QED BY <1>c, <2>2, <2>3, <2>8, <2>9 DEF LocalOK
<1>3. CASE LocalCollect
  <2> DEFINE rep == RuntimeReport("docker", TRUE, SortContainers(DemoteRuntimeWrappers(work[0])))
  <2>1. /\ main = "exec" /\ main' = "podman" /\ built'[0] = <<rep>> /\ lnext \notin DOMAIN work[0]
    BY <1>0, <1>3 DEF LocalCollect
  <2>2. /\ "docker" \in LocalRuntimes
        /\ lnext \in Nat \ {0} /\ HalfRead(0, work[0], 1 .. lnext - 1, Trusty)
    BY <2>1 DEF LocalOK
  <2>3. Probed(0, "docker") \subseteq 1 .. lnext - 1
    <3>1. DOMAIN work[0] = DOMAIN Listing[0]["docker"]
      BY <2>2 DEF HalfRead, Reading
    <3> DEFINE list == Listing[0]["docker"]
    <3>2. list \in Seq(Listed)
      BY <1>0, WorldAssumption
    <3> HIDE DEF list
    <3>3. DOMAIN list = 1 .. Len(list) /\ Len(list) \in Nat
      BY <3>2
    <3>4. DOMAIN list \subseteq 1 .. lnext - 1
      BY <2>1, <2>2, <3>1, <3>3 DEF list
    <3> QED BY <3>4 DEF Probed, list
  <2>4. Made(0, rep, Trusty)
    BY <2>2, <2>3, RuntimesKnown, DockerMade
  <2>5. rep.type = "docker"
    BY DEF RuntimeReport
  <2> HIDE DEF rep
  <2> QED BY <1>c, <2>1, <2>4, <2>5 DEF LocalOK
<1>4. CASE LocalPodman
  <2>1. PICK ok \in LocalAnswers("podman") :
          LET found == IF ok THEN SortContainers(Parse(0, Listing[0]["podman"])) ELSE <<>>
          IN  targets' = [targets EXCEPT ![0] =
                            Slot("probed", 0, Append(built[0], RuntimeReport("podman", ok, found)))]
    BY <1>4 DEF LocalPodman
  <2> DEFINE found == IF ok THEN SortContainers(Parse(0, Listing[0]["podman"])) ELSE <<>>
             rep == RuntimeReport("podman", ok, found)
  <2>2. targets'[0] = Slot("probed", 0, Append(built[0], rep)) /\ main' = "spawn" /\ main = "podman"
    BY <1>0, <1>4, <2>1 DEF LocalPodman
  <2>3. PICK dock : built[0] = <<dock>> /\ dock.type = "docker" /\ Made(0, dock, Trusty)
    BY <2>2 DEF LocalOK
  <2>4. Made(0, rep, Trusty)
    <3>1. Probed(0, "podman") = {}
      BY DEF Probed
    <3>2. /\ ok \in BOOLEAN /\ (ok => "podman" \in RuntimesAt(0))
          /\ (Trusty /\ "podman" \in RuntimesAt(0) => ok)
      BY <1>a, RuntimesKnown
    <3> QED BY <3>1, <3>2, PlainMade
  <2>5. rep.type = "podman"
    BY DEF RuntimeReport
  <2> HIDE DEF rep
  <2> DEFINE both == Append(<<dock>>, rep)
  <2>6. targets'[0].status = "probed" /\ targets'[0].runtimes = both
    BY <2>2, <2>3 DEF Slot
  <2>7. /\ IsSeq(both) /\ Len(both) = 2 /\ both[1] = dock /\ both[2] = rep
    <3>1. <<dock>> \in Seq({dock}) /\ Len(<<dock>>) = 1 /\ <<dock>>[1] = dock
      OBVIOUS
    <3>2. IsSeq(<<dock>>)
      BY <3>1 DEF IsSeq
    <3>3. /\ IsSeq(both) /\ Len(both) = 1 + 1
          /\ \A r \in 1 .. 1 : both[r] = <<dock>>[r]
          /\ both[1 + 1] = rep
      BY <3>1, <3>2, Appended
    <3> QED BY <3>1, <3>3
  <2> HIDE DEF both
  <2>8. LocalReport(both, Trusty)
    BY <2>3, <2>4, <2>5, <2>7 DEF LocalReport
  <2> QED BY <1>c, <2>2, <2>6, <2>8 DEF LocalOK
<1> QED BY <1>1, <1>2, <1>3, <1>4 DEF LocalNext

---------------------------------------------------------------------------
(* The goroutines of the PCs. *)

(* The runtime a goroutine asks for is one of its PC.                      *)
LEMMA RuntimeNowKnown ==
  ASSUME NEW i \in PCs, PCInv(i), at[i] \in {"list", "nested"}
  PROVE  RuntimeNow(i) \in RuntimesAt(i) /\ RuntimeNow(i) \in {"docker", "podman"}
<1>1. Len(built[i]) \in Nat /\ Len(built[i]) < Len(Runtimes[i])
  BY DEF PCInv, BuiltInOrder, IsSeq
<1>2. Runtimes[i] \in Seq({"docker", "podman"})
  BY WorldAssumption
<1>3. Len(built[i]) + 1 \in DOMAIN Runtimes[i]
  BY <1>1, <1>2
<1>4. Runtimes[i][Len(built[i]) + 1] \in {"docker", "podman"}
  BY <1>2, <1>3
<1> QED BY <1>3, <1>4, RuntimesKnown DEF RuntimeNow

(* One more report in the list of those a goroutine has built.             *)
LEMMA BuiltMore ==
  ASSUME NEW i \in PCs, PCInv(i), RemoteOK(i), Trusty' => Trusty, NEW rep, Made(i, rep, Trusty'),
         built'[i] = Append(built[i], rep)
  PROVE  \A r \in DOMAIN built'[i] : Made(i, built'[i][r], Trusty')
<1>1. IsSeq(built[i])
  BY DEF PCInv, BuiltInOrder
<1>2. /\ IsSeq(built'[i]) /\ Len(built[i]) \in Nat
      /\ Len(built'[i]) = Len(built[i]) + 1
      /\ \A r \in 1 .. Len(built[i]) : built'[i][r] = built[i][r]
      /\ built'[i][Len(built[i]) + 1] = rep
  BY <1>1, Appended
<1>3. /\ DOMAIN built'[i] = 1 .. Len(built'[i])
      /\ DOMAIN built[i] = 1 .. Len(built[i])
  BY <1>1, <1>2 DEF IsSeq
<1>4. \A r \in DOMAIN built[i] : Made(i, built[i][r], Trusty')
  BY MadeStill DEF RemoteOK
<1> SUFFICES ASSUME NEW r \in DOMAIN built'[i] PROVE Made(i, built'[i][r], Trusty')
  OBVIOUS
<1>5. CASE r \in 1 .. Len(built[i])
  BY <1>2, <1>3, <1>4, <1>5
<1>6. CASE r = Len(built[i]) + 1
  BY <1>2, <1>6
<1> QED BY <1>2, <1>3, <1>5, <1>6

(* A goroutine with a new report and without probes.                       *)
LEMMA RemoteReports ==
  ASSUME NEW i \in PCs, RemoteOK(i), PCInv(i), Trusty' => Trusty, ctxDone => ctxDone',
         NEW rep, Made(i, rep, Trusty'), built'[i] = Append(built[i], rep),
         at'[i] = "runtime", cmd'[i] # "refused" \/ cmd'[i] = cmd[i],
         kid'[i] = kid[i] \/ kid'[i] = <<>>
  PROVE  RemoteOK(i)'
<1>1. \A r \in DOMAIN built'[i] : Made(i, built'[i][r], Trusty')
  BY BuiltMore
<1>2. cmd'[i] = "refused" => ctxDone'
  BY DEF RemoteOK
<1>3. \A k \in DOMAIN kid'[i] : kid'[i][k] = "refused" => ctxDone'
  BY DEF RemoteOK
<1> QED BY <1>1, <1>2, <1>3 DEF RemoteOK

(* The answer of docker ps or podman ps arrives.                           *)
LEMMA ListStep ==
  ASSUME Shape, NEW i \in PCs, PCInv(i), RemoteOK(i), EndList(i), Trusty' => Trusty, ctxDone => ctxDone'
  PROVE  RemoteOK(i)'
<1>0. /\ i \in DOMAIN at /\ i \in DOMAIN built /\ i \in DOMAIN work /\ i \in DOMAIN kid /\ i \in DOMAIN cmd
      /\ i \in Sites
  BY DEF Shape, Sites, PCs
<1>1. PICK ok \in Answers(cmd[i]) :
        IF ok /\ IncludeNested /\ RuntimeNow(i) = "docker" THEN ListDocker(i) ELSE ListOther(i, ok)
  BY DEF EndList
<1>2. ok \in BOOLEAN /\ (Trusty => ok)
  BY TrustyAnswers DEF RemoteOK
<1>3. cmd'[i] = "none" /\ at[i] = "list"
  BY <1>0 DEF EndList
<1>4. CASE ok /\ IncludeNested /\ RuntimeNow(i) = "docker"
  <2> DEFINE found == Parse(i, Listing[i]["docker"])
  <2>1. /\ at'[i] = "nested" /\ work'[i] = found /\ built'[i] = built[i]
        /\ kid'[i] = [k \in DOMAIN found |-> IF found[k].id = 0 THEN "done" ELSE "select"]
    BY <1>0, <1>1, <1>4 DEF ListDocker
  <2>2. /\ found = Reading(i, "docker", {}) /\ DOMAIN found = DOMAIN Listing[i]["docker"]
        /\ \A k \in DOMAIN found : found[k].id = Listing[i]["docker"][k].id
    <3>1. found = Reading(i, "docker", {})
      BY ParsedIsReading
    <3>2. /\ DOMAIN found = DOMAIN Listing[i]["docker"]
          /\ \A k \in DOMAIN found : found[k].id = Listing[i]["docker"][k].id
      BY DEF Parse
    <3> QED BY <3>1, <3>2
  <2> HIDE DEF found
  <2>3. \A k : k \in Probed(i, "docker") <=> k \in DOMAIN found /\ found[k].id # 0
    BY <1>4, <2>2 DEF Probed
  <2>4. \A k : k \in Settled(i)' <=> k \in DOMAIN found /\ found[k].id = 0
    BY <2>1 DEF Settled
  <2>5. DOMAIN kid'[i] \ Settled(i)' \subseteq Probed(i, "docker")
        /\ Probed(i, "docker") \subseteq DOMAIN kid'[i]
    BY <2>1, <2>3, <2>4
  <2>6. HalfRead(i, work'[i], Settled(i)', Trusty')
    <3>1. Probed(i, "docker") \cap Settled(i)' \subseteq {}
      BY <2>3, <2>4
    <3> QED BY <2>1, <2>2, <3>1 DEF HalfRead
  <2>7. \A r \in DOMAIN built'[i] : Made(i, built'[i][r], Trusty')
    BY <2>1, MadeStill DEF RemoteOK
  <2>8. \A k \in DOMAIN kid'[i] : kid'[i][k] # "refused"
    BY <2>1
  <2> QED BY <1>3, <1>4, <2>5, <2>6, <2>7, <2>8 DEF RemoteOK
<1>5. CASE ~(ok /\ IncludeNested /\ RuntimeNow(i) = "docker")
  <2> DEFINE found == IF ok THEN SortContainers(Parse(i, Listing[i][RuntimeNow(i)])) ELSE <<>>
             rep == RuntimeReport(RuntimeNow(i), ok, found)
  <2>1. at'[i] = "runtime" /\ built'[i] = Append(built[i], rep) /\ kid'[i] = kid[i]
    BY <1>0, <1>1, <1>5 DEF ListOther
  <2>2. RuntimeNow(i) \in RuntimesAt(i) /\ RuntimeNow(i) \in {"docker", "podman"}
    BY <1>3, RuntimeNowKnown
  <2>3. Made(i, rep, Trusty')
    <3>1. CASE ~ok
      <4>1. rep.type = RuntimeNow(i) /\ rep.available = ok /\ rep.containers = <<>>
        BY <3>1 DEF RuntimeReport
      <4> HIDE DEF rep
      <4> QED BY <1>2, <2>2, <3>1, <4>1 DEF Made
    <3>2. CASE ok
      <4>1. Probed(i, RuntimeNow(i)) = {}
        BY <1>5, <3>2 DEF Probed
      <4>2. /\ ok => RuntimeNow(i) \in RuntimesAt(i)
            /\ Trusty' /\ RuntimeNow(i) \in RuntimesAt(i) => ok
        BY <2>2, <3>2
      <4> DEFINE whole == Trusty'
      <4> HIDE DEF whole
      <4>3. Made(i, rep, whole)
        BY <1>2, <2>2, <4>1, <4>2, PlainMade DEF whole
      <4> QED BY <4>3 DEF whole
    <3> QED BY <3>1, <3>2
  <2> HIDE DEF rep
  <2> QED BY <1>3, <2>1, <2>3, RemoteReports
<1> QED BY <1>4, <1>5

(* wg.Wait has returned: the report of docker is made.                     *)
LEMMA CollectStep ==
  ASSUME Shape, NestedCounted, NEW i \in PCs, PCInv(i), RemoteOK(i), CollectNested(i),
         Trusty' => Trusty, ctxDone => ctxDone'
  PROVE  RemoteOK(i)'
<1>0. i \in DOMAIN at /\ i \in DOMAIN built /\ i \in DOMAIN kid
  BY DEF Shape, Sites, PCs
<1> DEFINE rep == RuntimeReport("docker", TRUE, SortContainers(DemoteRuntimeWrappers(work[i])))
<1>1. /\ at[i] = "nested" /\ at'[i] = "runtime" /\ built'[i] = Append(built[i], rep)
      /\ kid'[i] = <<>> /\ cmd' = cmd
  BY <1>0 DEF CollectNested
<1>2. NestedActive(i) = {}
  BY NestedFinite DEF CollectNested, NestedDone
<1>3. Probed(i, "docker") \subseteq Settled(i)
  BY <1>1, <1>2 DEF NestedActive, Settled, RemoteOK
<1>4. "docker" \in RuntimesAt(i)
  <2>1. RuntimeNow(i) = "docker"
    BY <1>1 DEF PCInv, BuiltInOrder
  <2> QED BY <1>1, <2>1, RuntimeNowKnown
<1>5. HalfRead(i, work[i], Settled(i), Trusty)
  BY <1>1 DEF RemoteOK
<1>6. Made(i, rep, Trusty)
  BY <1>3, <1>4, <1>5, DockerMade
<1>7. Made(i, rep, Trusty')
  BY <1>6, MadeStill
<1> HIDE DEF rep
<1> QED BY <1>1, <1>7, RemoteReports

(* A probe of a container of PC i starts, gives up or ends.                *)
LEMMA KidOK ==
  ASSUME Shape, NestedCounted, NEW i \in PCs, RemoteOK(i), NEW k \in Kids(i),
         KidStep(i, k) \/ EndNested(i, k), Trusty' => Trusty, ctxDone' = ctxDone
  PROVE  RemoteOK(i)'
<1>0. /\ i \in DOMAIN kid /\ i \in DOMAIN work /\ k \in DOMAIN kid[i]
      /\ at[i] = "nested"
  BY DEF Shape, Sites, PCs, Kids, NestedCounted
<1>1. UNCHANGED <<at, cmd, built>>
  BY DEF KidStep, AcquireNested, CancelNested, EndNested
<1>2. PICK b : b \in KidStates /\ kid' = [kid EXCEPT ![i][k] = b] /\ (b = "refused" => ctxDone)
               /\ (b = "done" <=> ~AcquireNested(i, k))
  BY DEF KidStep, AcquireNested, CancelNested, EndNested, NestedGone, Launch, KidStates
<1>3. /\ DOMAIN kid'[i] = DOMAIN kid[i] /\ kid'[i][k] = b
      /\ \A q \in DOMAIN kid[i] \ {k} : kid'[i][q] = kid[i][q]
  BY <1>0, <1>2
<1>4. kid[i][k] # "done"
  BY DEF KidStep, AcquireNested, CancelNested, EndNested
<1>5. k \in Probed(i, "docker")
  BY <1>0, <1>4 DEF RemoteOK, Settled
<1>6. /\ IncludeNested
      /\ DOMAIN kid[i] \ Settled(i) \subseteq Probed(i, "docker")
      /\ Probed(i, "docker") \subseteq DOMAIN kid[i]
      /\ HalfRead(i, work[i], Settled(i), Trusty)
  BY <1>0 DEF RemoteOK
<1>7. \A r \in DOMAIN built'[i] : Made(i, built'[i][r], Trusty')
  BY <1>1, MadeStill DEF RemoteOK
<1>8. /\ cmd'[i] = "refused" => ctxDone'
      /\ \A q \in DOMAIN kid'[i] : kid'[i][q] = "refused" => ctxDone'
  BY <1>1, <1>2, <1>3 DEF RemoteOK
<1>9. Settled(i)' = IF b = "done" THEN Settled(i) \cup {k} ELSE Settled(i)
  <2>1. Settled(i)' = {q \in DOMAIN kid[i] : kid'[i][q] = "done"}
    BY <1>3 DEF Settled
  <2>2. CASE b = "done"
    BY <1>0, <1>3, <2>1, <2>2 DEF Settled
  <2>3. CASE b # "done"
    BY <1>3, <1>4, <2>1, <2>3 DEF Settled
  <2> QED BY <2>2, <2>3
<1>10. DOMAIN kid'[i] \ Settled(i)' \subseteq Probed(i, "docker")
       /\ Probed(i, "docker") \subseteq DOMAIN kid'[i]
  BY <1>3, <1>6, <1>9
<1>11. HalfRead(i, work'[i], Settled(i)', Trusty')
  <2>1. CASE AcquireNested(i, k)
    <3>1. work' = work /\ Settled(i)' = Settled(i)
      BY <1>2, <1>9, <2>1 DEF AcquireNested
    <3>2. HalfRead(i, work[i], Settled(i), Trusty')
      BY <1>6, HalfReadStill
    <3> QED BY <3>1, <3>2
  <2>2. CASE ~AcquireNested(i, k)
    <3>1. Settled(i)' = Settled(i) \cup {k}
      BY <1>2, <1>9, <2>2
    <3>2. \E ok \in BOOLEAN :
            /\ Trusty' => ok
            /\ work'[i] = IF ok THEN [work[i] EXCEPT ![k].nested = ParseNested(i, k)] ELSE work[i]
      <4>1. CASE CancelNested(i, k)
        <5>1. work' = work /\ ctxDone
          BY <4>1 DEF CancelNested
        <5>2. ~Trusty'
          BY <5>1 DEF Trusty
        <5>3. /\ FALSE \in BOOLEAN /\ (Trusty' => FALSE)
              /\ work'[i] = IF FALSE THEN [work[i] EXCEPT ![k].nested = ParseNested(i, k)] ELSE work[i]
          BY <5>1, <5>2
        <5> QED BY <5>3, Zenon
      <4>2. CASE EndNested(i, k)
        <5>1. PICK ok \in Answers(kid[i][k]) :
                work' = IF ok THEN [work EXCEPT ![i][k].nested = ParseNested(i, k)] ELSE work
          BY <4>2 DEF EndNested
        <5>2. ok \in BOOLEAN /\ (Trusty => ok)
          BY <1>0, TrustyAnswers DEF RemoteOK
        <5>3. work'[i] = IF ok THEN [work[i] EXCEPT ![k].nested = ParseNested(i, k)] ELSE work[i]
          <6>1. CASE ok
            <7>1. work' = [work EXCEPT ![i] = [work[i] EXCEPT ![k].nested = ParseNested(i, k)]]
              BY <5>1, <6>1, Zenon
            <7> QED BY <1>0, <6>1, <7>1
          <6>2. CASE ~ok
            BY <5>1, <6>2
          <6> QED BY <6>1, <6>2
        <5>4. Trusty' => ok
          BY <5>2
        <5> QED BY <5>2, <5>3, <5>4, Zenon
      <4> QED BY <2>2, <4>1, <4>2 DEF KidStep
    <3>3. PICK ok \in BOOLEAN :
            /\ Trusty' => ok
            /\ work'[i] = IF ok THEN [work[i] EXCEPT ![k].nested = ParseNested(i, k)] ELSE work[i]
      BY <3>2
    <3> DEFINE before == Trusty
               after == Trusty'
    <3>4. (after => before) /\ (ok => k \in Probed(i, "docker"))
          /\ (after /\ k \in Probed(i, "docker") => ok) /\ HalfRead(i, work[i], Settled(i), before)
      BY <1>5, <1>6, <3>3
    <3> HIDE DEF before, after
    <3>5. HalfRead(i, IF ok THEN [work[i] EXCEPT ![k].nested = ParseNested(i, k)] ELSE work[i],
                   Settled(i) \cup {k}, after)
      BY <3>4, HalfReadOn, Zenon
    <3> QED BY <3>1, <3>3, <3>5 DEF after
  <2> QED BY <2>1, <2>2
<1> QED BY <1>0, <1>1, <1>6, <1>7, <1>8, <1>10, <1>11 DEF RemoteOK

(* A goroutine of a PC moves, and perhaps writes its slot.                 *)
LEMMA OwnReportStep ==
  ASSUME Shape, NestedCounted, NEW i \in PCs, PCInv(i), RemoteOK(i), SlotOK(i),
         PCStep(i) \/ PCEnd(i), Trusty' => Trusty, ctxDone' = ctxDone
  PROVE  RemoteOK(i)' /\ SlotOK(i)'
<1>0. /\ i \in DOMAIN at /\ i \in DOMAIN built /\ i \in DOMAIN kid /\ i \in DOMAIN cmd
      /\ i \in DOMAIN targets /\ i \in DOMAIN work
  BY DEF Shape, Sites, PCs
<1>1. CASE \/ Spawn(i) \/ Acquire(i) \/ StartHostname(i) \/ StartList(i) \/ Release(i) \/ Exit(i)
           \/ EndHostname(i)
  <2>1. /\ built' = built /\ kid' = kid /\ targets' = targets /\ at'[i] # "nested"
        /\ cmd'[i] = cmd[i] \/ cmd'[i] # "refused" \/ ctxDone'
    BY <1>0, <1>1 DEF Spawn, Acquire, StartHostname, StartList, Release, Exit, EndHostname, Launch
  <2>2. RemoteOK(i)'
    BY <2>1, RemoteMoves
  <2> QED BY <2>1, <2>2, SlotStill
<1>2. CASE CancelTarget(i) \/ Skip(i)
  <2>1. /\ built' = built /\ kid' = kid /\ at'[i] # "nested" /\ cmd' = cmd
        /\ \/ targets'[i] = Slot("cancelled", i, <<>>) /\ ctxDone
           \/ targets'[i] = Slot("skipped", i, <<>>) /\ ~(SSHInstalled /\ i \in HasSSH)
    BY <1>0, <1>2 DEF CancelTarget, Skip
  <2>2. RemoteOK(i)'
    BY <2>1, RemoteMoves
  <2>3. /\ targets'[i].runtimes = <<>>
        /\ \/ targets'[i].status = "cancelled" /\ ~Trusty'
           \/ targets'[i].status = "skipped" /\ ~(SSHInstalled /\ i \in HasSSH)
    BY <2>1 DEF Slot, Trusty
  <2>4. SlotOK(i)'
    BY <2>3 DEF SlotOK
  <2> QED BY <2>2, <2>4
<1>3. CASE EndList(i)
  <2>1. targets' = targets
    BY <1>3 DEF EndList
  <2> QED BY <1>3, <2>1, ListStep, SlotStill
<1>4. CASE CollectNested(i)
  <2>1. targets' = targets
    BY <1>4 DEF CollectNested
  <2> QED BY <1>4, <2>1, CollectStep, SlotStill
<1>5. CASE StoreTarget(i)
  <2>1. /\ targets'[i] = Slot("probed", i, built[i]) /\ built'[i] = <<>> /\ at'[i] = "leaving"
        /\ kid' = kid /\ cmd' = cmd
    BY <1>0, <1>5 DEF StoreTarget, SlotOf
  <2>2. \A r \in DOMAIN built[i] : Made(i, built[i][r], Trusty')
    BY MadeStill DEF RemoteOK
  <2>3. SlotOK(i)'
    <3>1. targets'[i].status = "probed" /\ targets'[i].runtimes = built[i]
      BY <2>1 DEF Slot
    <3> QED BY <2>2, <3>1 DEF SlotOK
  <2>4. RemoteOK(i)'
    BY <2>1 DEF RemoteOK
  <2> QED BY <2>3, <2>4
<1> QED BY <1>1, <1>2, <1>3, <1>4, <1>5 DEF PCStep, PCEnd

(* Nothing of a PC moves in the steps of the other goroutines.             *)
LEMMA OthersReportStep ==
  ASSUME Shape, NEW i \in PCs, NEW j \in PCs, i # j, RemoteOK(j), SlotOK(j),
         \/ PCStep(i) \/ PCEnd(i)
         \/ \E k \in Kids(i) : KidStep(i, k) \/ EndNested(i, k),
         Trusty' => Trusty, ctxDone' = ctxDone
  PROVE  RemoteOK(j)' /\ SlotOK(j)'
<1>0. /\ j \in DOMAIN at /\ j \in DOMAIN built /\ j \in DOMAIN kid /\ j \in DOMAIN cmd
      /\ j \in DOMAIN targets /\ j \in DOMAIN work
  BY DEF Shape, Sites, PCs
<1>1. CASE PCStep(i) \/ PCEnd(i)
  <2>1. at'[j] = at[j] /\ built'[j] = built[j] /\ targets'[j] = targets[j]
    BY <1>1, OthersAlone
  <2>2. /\ work' = work \/ \E b : work' = [work EXCEPT ![i] = b]
        /\ kid' = kid \/ \E b : kid' = [kid EXCEPT ![i] = b]
        /\ cmd' = cmd \/ \E b : cmd' = [cmd EXCEPT ![i] = b]
    BY <1>1 DEF PCStep, PCEnd, Spawn, Acquire, CancelTarget, Skip, StartHostname, StartList,
                CollectNested, StoreTarget, Release, Exit, EndHostname, EndList, ListDocker,
                ListOther
  <2>3. work'[j] = work[j] /\ kid'[j] = kid[j] /\ cmd'[j] = cmd[j]
    BY <1>0, <2>2
  <2> QED BY <2>1, <2>3, RemoteMoves, SlotStill
<1>2. ASSUME NEW k \in Kids(i), KidStep(i, k) \/ EndNested(i, k) PROVE RemoteOK(j)' /\ SlotOK(j)'
  <2>1. /\ at' = at /\ built' = built /\ targets' = targets /\ cmd' = cmd
        /\ \E b : kid' = [kid EXCEPT ![i][k] = b]
    BY <1>2 DEF KidStep, AcquireNested, CancelNested, EndNested, NestedGone
  <2>2. work' = work \/ work' = [work EXCEPT ![i][k].nested = ParseNested(i, k)]
    BY <1>2 DEF KidStep, AcquireNested, CancelNested, EndNested
  <2>3. kid'[j] = kid[j]
    BY <1>0, <2>1
  <2>4. work'[j] = work[j]
    <3>1. CASE work' = [work EXCEPT ![i][k].nested = ParseNested(i, k)]
      <4>1. \E b : work' = [work EXCEPT ![i] = b]
        <5>1. work' = [work EXCEPT ![i] = [work[i] EXCEPT ![k].nested = ParseNested(i, k)]]
          BY <3>1, Zenon
        <5> QED BY <5>1
      <4> QED BY <1>0, <4>1
    <3> QED BY <2>2, <3>1
  <2> QED BY <2>1, <2>3, <2>4, RemoteMoves, SlotStill
<1> QED BY <1>1, <1>2

(* Initially nothing is reported.                                          *)
LEMMA ReportInvInit == Init => ReportInv
<1> SUFFICES ASSUME Init PROVE ReportInv
  OBVIOUS
<1>1. 0 \in Sites /\ PCs \subseteq Sites
  BY SizeAssumption DEF Sites, PCs
<1>2. LocalOK
  BY <1>1 DEF Init, LocalOK
<1>3. ASSUME NEW i \in PCs PROVE RemoteOK(i) /\ SlotOK(i)
  <2>1. built[i] = <<>> /\ kid[i] = <<>> /\ cmd[i] = "none" /\ at[i] = "idle"
    BY <1>1 DEF Init
  <2>2. targets[i].status = "empty" /\ targets[i].runtimes = <<>>
    BY <1>1 DEF Init, Empty, Slot
  <2>3. RemoteOK(i)
    BY <2>1 DEF RemoteOK
  <2>4. SlotOK(i)
    BY <2>2 DEF SlotOK
  <2> QED BY <2>3, <2>4
<1> QED BY <1>2, <1>3 DEF ReportInv

(* Every step keeps what the reports say true to the machines.             *)
LEMMA ReportInvNext == DetectInv /\ ReportInv /\ [Next]_vars => ReportInv'
<1> SUFFICES ASSUME DetectInv, ReportInv, [Next]_vars PROVE ReportInv'
  OBVIOUS
<1>0. /\ Shape /\ NestedCounted /\ LocalOK
      /\ \A i \in PCs : PCInv(i) /\ RemoteOK(i) /\ SlotOK(i)
      /\ 0 \in Sites /\ 0 \notin PCs
  BY SizeAssumption DEF DetectInv, ReportInv, Sites, PCs
<1>a. (Trusty' => Trusty) /\ (ctxDone => ctxDone')
  BY <1>0, LessTrusty
<1>1. ASSUME NEW i \in PCs,
             \/ PCStep(i) \/ PCEnd(i)
             \/ \E k \in Kids(i) : KidStep(i, k) \/ EndNested(i, k)
      PROVE  ReportInv'
  <2>1. /\ UNCHANGED <<main, lnext, ctxDone>>
        /\ built' = built \/ \E b : built' = [built EXCEPT ![i] = b]
        /\ targets' = targets \/ \E b : targets' = [targets EXCEPT ![i] = b]
    BY <1>1 DEF PCStep, PCEnd, Spawn, Acquire, CancelTarget, Skip, StartHostname, StartList,
                CollectNested, StoreTarget, SlotOf, Release, Exit, EndHostname, EndList,
                ListDocker, ListOther, KidStep, AcquireNested, CancelNested, EndNested
  <2>2. work' = work \/ \E b : work' = [work EXCEPT ![i] = b]
    <3>1. CASE PCStep(i) \/ PCEnd(i)
      BY <3>1 DEF PCStep, PCEnd, Spawn, Acquire, CancelTarget, Skip, StartHostname, StartList,
                  CollectNested, StoreTarget, Release, Exit, EndHostname, EndList, ListDocker,
                  ListOther
    <3>2. ASSUME NEW k \in Kids(i), KidStep(i, k) \/ EndNested(i, k)
          PROVE  work' = work \/ \E b : work' = [work EXCEPT ![i] = b]
      <4>1. work' = work \/ work' = [work EXCEPT ![i][k].nested = ParseNested(i, k)]
        BY <3>2 DEF KidStep, AcquireNested, CancelNested, EndNested
      <4>2. ASSUME work' = [work EXCEPT ![i][k].nested = ParseNested(i, k)]
            PROVE  \E b : work' = [work EXCEPT ![i] = b]
        <5>1. work' = [work EXCEPT ![i] = [work[i] EXCEPT ![k].nested = ParseNested(i, k)]]
          BY <4>2, Zenon
        <5> QED BY <5>1
      <4> QED BY <4>1, <4>2
    <3> QED BY <1>1, <3>1, <3>2
  <2>3. built'[0] = built[0] /\ targets'[0] = targets[0] /\ work'[0] = work[0]
    BY <1>0, <2>1, <2>2 DEF Shape
  <2>4. LocalOK'
    BY <1>0, <1>a, <2>1, <2>3, LocalStill
  <2>5. RemoteOK(i)' /\ SlotOK(i)'
    <3>1. CASE PCStep(i) \/ PCEnd(i)
      BY <1>0, <1>a, <2>1, <3>1, OwnReportStep
    <3>2. ASSUME NEW k \in Kids(i), KidStep(i, k) \/ EndNested(i, k)
          PROVE  RemoteOK(i)' /\ SlotOK(i)'
      <4>1. targets' = targets
        BY <3>2 DEF KidStep, AcquireNested, CancelNested, EndNested
      <4> QED BY <1>0, <1>a, <2>1, <3>2, <4>1, KidOK, SlotStill
    <3> QED BY <1>1, <3>1, <3>2
  <2>6. \A j \in PCs \ {i} : RemoteOK(j)' /\ SlotOK(j)'
    BY <1>0, <1>a, <1>1, <2>1, OthersReportStep
  <2> QED BY <2>4, <2>5, <2>6 DEF ReportInv
<1>2. CASE LocalNext
  <2>1. /\ UNCHANGED <<at, cmd, kid>>
        /\ built' = built \/ \E b : built' = [built EXCEPT ![0] = b]
        /\ targets' = targets \/ \E b : targets' = [targets EXCEPT ![0] = b]
    BY <1>2 DEF LocalNext, LocalDocker, LocalExec, LocalCollect, LocalPodman
  <2>2. work' = work \/ \E b : work' = [work EXCEPT ![0] = b]
    <3>1. CASE LocalDocker \/ LocalCollect \/ LocalPodman
      BY <3>1 DEF LocalDocker, LocalCollect, LocalPodman
    <3>2. CASE LocalExec
      <4>1. work' = work \/ work' = [work EXCEPT ![0][lnext].nested = ParseNested(0, lnext)]
        BY <3>2 DEF LocalExec
      <4>2. ASSUME work' = [work EXCEPT ![0][lnext].nested = ParseNested(0, lnext)]
            PROVE  \E b : work' = [work EXCEPT ![0] = b]
        <5>1. work' = [work EXCEPT ![0] = [work[0] EXCEPT ![lnext].nested = ParseNested(0, lnext)]]
          BY <4>2, Zenon
        <5> QED BY <5>1
      <4> QED BY <4>1, <4>2
    <3> QED BY <1>2, <3>1, <3>2 DEF LocalNext
  <2>3. ASSUME NEW i \in PCs PROVE RemoteOK(i)' /\ SlotOK(i)'
    <3>1. i # 0 /\ i \in Sites
      BY <1>0 DEF Sites, PCs
    <3>2. built'[i] = built[i] /\ targets'[i] = targets[i] /\ work'[i] = work[i]
      BY <1>0, <2>1, <2>2, <3>1 DEF Shape
    <3> QED BY <1>0, <1>a, <2>1, <3>2, RemoteMoves, SlotStill
  <2>4. LocalOK'
    BY <1>0, <1>2, LocalStep
  <2> QED BY <2>3, <2>4 DEF ReportInv
<1>3. CASE Return
  <2>1. /\ UNCHANGED <<at, cmd, kid, built, work, targets>> /\ main = "spawn" /\ main' = "returned"
    BY <1>3 DEF Return
  <2>2. ASSUME NEW i \in PCs PROVE RemoteOK(i)' /\ SlotOK(i)'
    BY <1>0, <1>a, <2>1, RemoteMoves, SlotStill
  <2>3. LocalOK'
    <3>1. \A rep : Made(0, rep, Trusty) => Made(0, rep, Trusty')
      BY <1>a, MadeStill
    <3>2. LocalReport(targets[0].runtimes, Trusty)
      BY <1>0, <2>1 DEF LocalOK
    <3>3. LocalReport(targets[0].runtimes, Trusty')
      BY <3>1, <3>2 DEF LocalReport
    <3> QED BY <1>0, <2>1, <3>3 DEF LocalOK
  <2> QED BY <2>2, <2>3 DEF ReportInv
<1>4. CASE Cancel \/ Finished \/ UNCHANGED vars
  <2>1. UNCHANGED <<at, cmd, kid, built, work, targets, main, lnext>>
    BY <1>4 DEF Cancel, Finished, vars
  <2>2. ASSUME NEW i \in PCs PROVE RemoteOK(i)' /\ SlotOK(i)'
    BY <1>0, <1>a, <2>1, RemoteMoves, SlotStill
  <2>3. LocalOK'
    BY <1>0, <1>a, <2>1, LocalStill
  <2> QED BY <2>2, <2>3 DEF ReportInv
<1> QED BY <1>1, <1>2, <1>3, <1>4 DEF Next

---------------------------------------------------------------------------
(* Sorting. *)

(* What sortContainers compares.                                           *)
Key == [relevant : BOOLEAN, name : Nat, id : Nat]

(* The comparison, with the old position as the last resort, is a strict   *)
(* total order.                                                            *)
LEMMA PrecedesOrders ==
  ASSUME NEW n \in Nat, NEW keys \in [1 .. n -> Key]
  PROVE  /\ \A i \in 1 .. n : ~Precedes(keys, i, i)
         /\ \A i, j, k \in 1 .. n :
              Precedes(keys, i, j) /\ Precedes(keys, j, k) => Precedes(keys, i, k)
         /\ \A i, j \in 1 .. n : i = j \/ Precedes(keys, i, j) \/ Precedes(keys, j, i)
<1>1. \A i \in 1 .. n : /\ keys[i].relevant \in BOOLEAN /\ keys[i].name \in Nat
                        /\ keys[i].id \in Nat
  BY DEF Key
<1>2. \A i \in 1 .. n : ~Precedes(keys, i, i)
  BY <1>1 DEF Precedes, Before
<1>3. ASSUME NEW i \in 1 .. n, NEW j \in 1 .. n, NEW k \in 1 .. n,
             Precedes(keys, i, j), Precedes(keys, j, k)
      PROVE  Precedes(keys, i, k)
  BY <1>1, <1>3 DEF Precedes, Before
<1>4. ASSUME NEW i \in 1 .. n, NEW j \in 1 .. n
      PROVE  i = j \/ Precedes(keys, i, j) \/ Precedes(keys, j, i)
  BY <1>1 DEF Precedes, Before
<1> QED BY <1>2, <1>3, <1>4

(* Where the element comes from that goes to a position.                   *)
CameFrom(keys) == [k \in DOMAIN keys |-> CHOOSE j \in DOMAIN keys : RankOf(keys, j) = k - 1]

(* Ranks lie below n, and those of two positions are ordered as they are.  *)
LEMMA RanksOrdered ==
  ASSUME NEW n \in Nat, NEW keys \in [1 .. n -> Key]
  PROVE  /\ \A j \in 1 .. n : RankOf(keys, j) \in 0 .. n - 1
         /\ \A i, j \in 1 .. n : Precedes(keys, i, j) => RankOf(keys, i) < RankOf(keys, j)
<1> DEFINE before == [j \in 1 .. n |-> {i \in 1 .. n : Precedes(keys, i, j)}]
<1>0. IsFiniteSet(1 .. n) /\ Cardinality(1 .. n) = n
  BY FS_Interval
<1>1. ASSUME NEW j \in 1 .. n
      PROVE  /\ RankOf(keys, j) = Cardinality(before[j]) /\ before[j] \subseteq (1 .. n) \ {j}
             /\ IsFiniteSet(before[j]) /\ Cardinality(before[j]) \in Nat
  <2>1. RankOf(keys, j) = Cardinality(before[j])
    BY DEF RankOf
  <2>2. before[j] \subseteq (1 .. n) \ {j}
    BY PrecedesOrders
  <2>3. before[j] \subseteq 1 .. n
    BY <2>2
  <2>4. IsFiniteSet(before[j])
    BY <1>0, <2>3, FS_Subset
  <2> QED BY <2>1, <2>2, <2>4, FS_CardinalityType
<1>2. ASSUME NEW j \in 1 .. n PROVE Cardinality(before[j]) <= n - 1
  <2>1. IsFiniteSet((1 .. n) \ {j}) /\ Cardinality((1 .. n) \ {j}) = n - 1
    BY <1>0, FS_RemoveElement
  <2> QED BY <1>1, <2>1, FS_Subset
<1>3. ASSUME NEW i \in 1 .. n, NEW j \in 1 .. n, Precedes(keys, i, j)
      PROVE  Cardinality(before[i]) < Cardinality(before[j])
  <2>1. before[i] \cup {i} \subseteq before[j]
    BY <1>3, PrecedesOrders
  <2>2. i \notin before[i]
    BY <1>1
  <2> HIDE DEF before
  <2>3. IsFiniteSet(before[i]) /\ IsFiniteSet(before[j])
    BY <1>1
  <2>4. Cardinality(before[i] \cup {i}) = Cardinality(before[i]) + 1
    BY <2>2, <2>3, FS_AddElement
  <2>5. Cardinality(before[i] \cup {i}) <= Cardinality(before[j])
    BY <2>1, <2>3, FS_Subset
  <2> QED BY <1>1, <2>4, <2>5
<1> HIDE DEF before
<1>4. \A j \in 1 .. n : RankOf(keys, j) \in 0 .. n - 1
  BY <1>1, <1>2
<1>5. \A i, j \in 1 .. n : Precedes(keys, i, j) => RankOf(keys, i) < RankOf(keys, j)
  BY <1>1, <1>3
<1> QED BY <1>4, <1>5

(* A stable sort moves every element to one place, in the order of the keys. *)
LEMMA CameFromPermutes ==
  ASSUME NEW n \in Nat, NEW keys \in [1 .. n -> Key]
  PROVE  /\ CameFrom(keys) \in Bijection(1 .. n, 1 .. n)
         /\ \A p, q \in 1 .. n : p < q => Precedes(keys, CameFrom(keys)[p], CameFrom(keys)[q])
<1> DEFINE rank == [j \in 1 .. n |-> RankOf(keys, j) + 1]
           place == CameFrom(keys)
<1>1. \A j \in 1 .. n : RankOf(keys, j) \in 0 .. n - 1
  BY RanksOrdered
<1>2. rank \in [1 .. n -> 1 .. n] /\ \A j \in 1 .. n : rank[j] = RankOf(keys, j) + 1
  BY <1>1
<1>3. \A i, j \in 1 .. n : Precedes(keys, i, j) => rank[i] < rank[j]
  <2> SUFFICES ASSUME NEW i \in 1 .. n, NEW j \in 1 .. n, Precedes(keys, i, j)
               PROVE  rank[i] < rank[j]
    OBVIOUS
  <2>1. RankOf(keys, i) < RankOf(keys, j)
    BY RanksOrdered
  <2>2. RankOf(keys, i) \in Int /\ RankOf(keys, j) \in Int
    BY <1>1
  <2>3. rank[i] = RankOf(keys, i) + 1 /\ rank[j] = RankOf(keys, j) + 1
    BY <1>2
  <2> HIDE DEF rank
  <2> QED BY <2>1, <2>2, <2>3
<1>p. place = [k \in 1 .. n |-> CHOOSE j \in 1 .. n : RankOf(keys, j) = k - 1]
  BY DEF CameFrom
<1> HIDE DEF rank, place
<1>o. \A i, j \in 1 .. n : i = j \/ Precedes(keys, i, j) \/ Precedes(keys, j, i)
  BY PrecedesOrders
<1>r. \A j \in 1 .. n : rank[j] \in Int
  BY <1>2
<1>4. \A i, j \in 1 .. n : rank[i] = rank[j] => i = j
  BY <1>r, <1>3, <1>o
<1>5. \A k \in 1 .. n : \E j \in 1 .. n : rank[j] = k
  <2>1. rank \in Injection(1 .. n, 1 .. n)
    BY <1>2, <1>4, Fun_IsInj
  <2>2. IsFiniteSet(1 .. n)
    BY FS_Interval
  <2>3. rank \in Surjection(1 .. n, 1 .. n)
    BY <2>1, <2>2, FS_Injection, Zenon
  <2> QED BY <2>3 DEF Surjection
<1>6. \A k \in 1 .. n : place[k] \in 1 .. n /\ rank[place[k]] = k
  <2> SUFFICES ASSUME NEW k \in 1 .. n PROVE place[k] \in 1 .. n /\ rank[place[k]] = k
    OBVIOUS
  <2>1. \E j \in 1 .. n : RankOf(keys, j) = k - 1
    <3>1. PICK j \in 1 .. n : rank[j] = k
      BY <1>5
    <3>2. RankOf(keys, j) \in Int /\ rank[j] = RankOf(keys, j) + 1
      BY <1>1, <1>2
    <3>3. RankOf(keys, j) = k - 1
      BY <3>1, <3>2
    <3> QED BY <3>3
  <2>2. place[k] \in 1 .. n /\ RankOf(keys, place[k]) = k - 1
    BY <1>p, <2>1
  <2> QED BY <1>2, <2>2
<1>7. \A j \in 1 .. n : place[rank[j]] = j
  BY <1>2, <1>4, <1>6
<1>8. place \in Bijection(1 .. n, 1 .. n)
  <2>1. place \in [1 .. n -> 1 .. n]
    BY <1>p, <1>6
  <2>2. \A p, q \in 1 .. n : place[p] = place[q] => p = q
    BY <1>6
  <2>3. \A j \in 1 .. n : \E k \in 1 .. n : place[k] = j
    BY <1>2, <1>7
  <2> QED BY <2>1, <2>2, <2>3, Fun_IsBij
<1>9. \A p, q \in 1 .. n : p < q => Precedes(keys, place[p], place[q])
  <2> SUFFICES ASSUME NEW p \in 1 .. n, NEW q \in 1 .. n, p < q
               PROVE  Precedes(keys, place[p], place[q])
    OBVIOUS
  <2>1. /\ place[p] \in 1 .. n /\ place[q] \in 1 .. n
        /\ rank[place[p]] = p /\ rank[place[q]] = q
    BY <1>6
  <2>2. place[p] # place[q] /\ ~(rank[place[q]] < rank[place[p]])
    BY <2>1
  <2> QED BY <1>3, <1>o, <2>1, <2>2
<1> QED BY <1>8, <1>9 DEF place

(* What StableSort makes of a list.                                        *)
LEMMA Sorted ==
  ASSUME NEW n \in Nat, NEW keys \in [1 .. n -> Key], NEW s, DOMAIN s = 1 .. n
  PROVE  StableSort(s, keys) = [k \in 1 .. n |-> s[CameFrom(keys)[k]]]
<1>1. DOMAIN keys = 1 .. n
  OBVIOUS
<1>2. \A k \in 1 .. n : CameFrom(keys)[k] = CHOOSE j \in 1 .. n : RankOf(keys, j) = k - 1
  BY <1>1 DEF CameFrom
<1>3. StableSort(s, keys) = [k \in 1 .. n |-> s[CHOOSE j \in 1 .. n : RankOf(keys, j) = k - 1]]
  BY DEF StableSort
<1> QED BY <1>2, <1>3

(* Some container inside container j of the list is accepted and was seen. *)
HostSeen(s, S, j) ==
  j \in S /\ \E n \in DOMAIN Listing[s]["docker"][j].inner :
               Listing[s]["docker"][j].inner[n].name \in Accepts[s]

(* What container j of a list becomes in the report.                       *)
Entry(s, rt, S, j) ==
  LET raw == Listing[s][rt][j]
  IN  [name |-> raw.name, id |-> raw.id, wrapper |-> raw.wrapper,
       matched |-> raw.name \in Accepts[s] /\ ~(raw.wrapper /\ HostSeen(s, S, j)),
       nested |-> IF j \in S THEN SortNested(ParseNested(s, j)) ELSE <<>>]

(* A list of names and IDs has keys.                                       *)
LEMMA KeysAreKeys ==
  ASSUME NEW n \in Nat, NEW l, DOMAIN l = 1 .. n, NEW rel \in [1 .. n -> BOOLEAN],
         \A k \in 1 .. n : l[k].name \in Nat /\ l[k].id \in Nat
  PROVE  [k \in 1 .. n |-> SortKey(l[k], rel[k])] \in [1 .. n -> Key]
BY DEF SortKey, Key

(* The containers inside container j, in the order of the report.          *)
LEMMA NestedSorted ==
  ASSUME NEW s \in Sites, NEW j \in DOMAIN Listing[s]["docker"]
  PROVE  LET m == Len(Listing[s]["docker"][j].inner)
         IN  /\ m \in Nat /\ DOMAIN Listing[s]["docker"][j].inner = 1 .. m
             /\ \E g \in Bijection(1 .. m, 1 .. m) :
                  SortNested(ParseNested(s, j)) = [n \in 1 .. m |-> ParseNested(s, j)[g[n]]]
<1> DEFINE raw == Listing[s]["docker"][j].inner
           m == Len(raw)
           l == ParseNested(s, j)
<1>1. Listing[s]["docker"] \in Seq(Listed)
  BY WorldAssumption
<1>2. Listing[s]["docker"][j] \in Listed
  <2> DEFINE ls == Listing[s]["docker"]
  <2>1. ls \in Seq(Listed) /\ j \in DOMAIN ls
    BY <1>1
  <2> HIDE DEF ls
  <2>2. ls[j] \in Listed
    BY <2>1
  <2> QED BY <2>2 DEF ls
<1>3. raw \in Seq(Inside)
  BY <1>2 DEF Listed
<1>4. m \in Nat /\ DOMAIN raw = 1 .. m /\ \A n \in 1 .. m : raw[n] \in Inside
  BY <1>3, LenProperties, ElementOfSeq
<1>5. l = [n \in 1 .. m |-> [name |-> raw[n].name, id |-> raw[n].id,
                            wrapper |-> raw[n].wrapper, matched |-> Match(s, raw[n].name)]]
  BY <1>4 DEF ParseNested
<1> HIDE DEF raw, m, l
<1>6. /\ DOMAIN l = 1 .. m
      /\ \A n \in 1 .. m : /\ l[n].name \in Nat /\ l[n].id \in Nat
                           /\ l[n].matched = (raw[n].name \in Accepts[s])
  BY <1>4, <1>5 DEF Match, Inside
<1> DEFINE rel == [n \in 1 .. m |-> raw[n].name \in Accepts[s]]
           keys == [n \in 1 .. m |-> SortKey(l[n], rel[n])]
<1>7. keys \in [1 .. m -> Key]
  <2>1. rel \in [1 .. m -> BOOLEAN]
    OBVIOUS
  <2> HIDE DEF rel
  <2> QED BY <1>4, <1>6, <2>1, KeysAreKeys
<1>8. keys = [n \in DOMAIN l |-> SortKey(l[n], l[n].matched)]
  BY <1>6
<1> HIDE DEF keys, rel
<1>9. StableSort(l, keys) = [n \in 1 .. m |-> l[CameFrom(keys)[n]]]
  BY <1>4, <1>6, <1>7, Sorted
<1>10. CameFrom(keys) \in Bijection(1 .. m, 1 .. m)
  BY <1>4, <1>7, CameFromPermutes
<1>11. SortNested(l) = [n \in 1 .. m |-> l[CameFrom(keys)[n]]]
  BY <1>8, <1>9 DEF SortNested
<1>12. \E g \in Bijection(1 .. m, 1 .. m) : SortNested(l) = [n \in 1 .. m |-> l[g[n]]]
  BY <1>10, <1>11
<1> QED BY <1>4, <1>12 DEF m, raw, l

(* Sorting hides nothing: some nested container matches afterwards just    *)
(* when one is accepted.                                                   *)
LEMMA NestedMatches ==
  ASSUME NEW s \in Sites, NEW j \in DOMAIN Listing[s]["docker"]
  PROVE  /\ (\E n \in DOMAIN ParseNested(s, j) : ParseNested(s, j)[n].matched)
              <=> HostSeen(s, {j}, j)
         /\ (\E n \in DOMAIN SortNested(ParseNested(s, j)) :
                SortNested(ParseNested(s, j))[n].matched)
              <=> HostSeen(s, {j}, j)
<1> DEFINE raw == Listing[s]["docker"][j].inner
           m == Len(raw)
           l == ParseNested(s, j)
           sorted == SortNested(l)
<1>1. /\ m \in Nat /\ DOMAIN raw = 1 .. m
      /\ \E g \in Bijection(1 .. m, 1 .. m) : sorted = [n \in 1 .. m |-> l[g[n]]]
  BY NestedSorted
<1>2. DOMAIN l = 1 .. m /\ \A n \in 1 .. m : l[n].matched = (raw[n].name \in Accepts[s])
  BY <1>1 DEF ParseNested, Match
<1>3. HostSeen(s, {j}, j) <=> \E n \in 1 .. m : raw[n].name \in Accepts[s]
  BY <1>1 DEF HostSeen
<1> HIDE DEF raw, m, l, sorted
<1>4. PICK g \in Bijection(1 .. m, 1 .. m) : sorted = [n \in 1 .. m |-> l[g[n]]]
  BY <1>1
<1>5. /\ \A n \in 1 .. m : g[n] \in 1 .. m
      /\ \A n \in 1 .. m : \E i \in 1 .. m : g[i] = n
  BY <1>4 DEF Bijection, Injection, Surjection
<1>6. (\E n \in DOMAIN l : l[n].matched) <=> HostSeen(s, {j}, j)
  BY <1>2, <1>3
<1>7. (\E n \in DOMAIN sorted : sorted[n].matched) <=> \E n \in 1 .. m : l[n].matched
  <2>1. DOMAIN sorted = 1 .. m /\ \A n \in 1 .. m : sorted[n] = l[g[n]]
    BY <1>4
  <2> QED BY <1>5, <2>1
<1> QED BY <1>2, <1>6, <1>7 DEF l, sorted

(* Containers nobody looked into have nothing inside.                      *)
LEMMA NothingInside == SortNested(<<>>) = <<>>
<1>1. DOMAIN <<>> = {}
  OBVIOUS
<1> QED BY <1>1 DEF SortNested, StableSort

(* A container of a report. *)
Seen(name, id, wrapper, matched, inside) ==
  [name |-> name, id |-> id, wrapper |-> wrapper, matched |-> matched, nested |-> inside]

(* Demotion and the inner sort touch one field each.                        *)
LEMMA OneFieldEach ==
  ASSUME NEW name, NEW id, NEW wrapper, NEW m, NEW x
  PROVE  LET c == Seen(name, id, wrapper, m, x)
         IN  /\ \A y : [c EXCEPT !.matched = y] = Seen(name, id, wrapper, y, x)
             /\ \A y : [c EXCEPT !.nested = y] = Seen(name, id, wrapper, m, y)
             /\ c.nested = x
BY DEF Seen

(* How two containers of a list follow one another. *)
InOrder(c, d) ==
  /\ ContainerHasMatch(d) => ContainerHasMatch(c)
  /\ ContainerHasMatch(c) = ContainerHasMatch(d) => c.name <= d.name

(* A report's list: every container of the machine has one place in it, the *)
(* relevant ones first and by name within the two groups.                   *)
LEMMA ShownEntries ==
  ASSUME NEW s \in Sites, NEW rt \in {"docker", "podman"}, NEW S \in SUBSET Probed(s, rt)
  PROVE  LET n == Len(Listing[s][rt])
         IN  /\ n \in Nat /\ DOMAIN Listing[s][rt] = 1 .. n
             /\ \E b \in Bijection(1 .. n, 1 .. n) :
                  /\ Shown(s, rt, S) = [k \in 1 .. n |-> Entry(s, rt, S, b[k])]
                  /\ \A p, q \in 1 .. n :
                       p < q => InOrder(Entry(s, rt, S, b[p]), Entry(s, rt, S, b[q]))
<1> DEFINE raw == Listing[s][rt]
           n == Len(raw)
           w == Reading(s, rt, S)
           L == DemoteRuntimeWrappers(w)
           e == [j \in 1 .. n |-> Entry(s, rt, S, j)]
           rel == [j \in 1 .. n |-> ContainerHasMatch(e[j])]
           keys == [j \in 1 .. n |-> SortKey(e[j], rel[j])]
<1>1. raw \in Seq(Listed)
  BY WorldAssumption
<1>2. n \in Nat /\ DOMAIN raw = 1 .. n /\ \A j \in 1 .. n : raw[j] \in Listed
  <2> HIDE DEF raw
  <2> QED BY <1>1, LenProperties, ElementOfSeq
<1>3. S # {} => rt = "docker"
  BY DEF Probed
<1>4. S \subseteq 1 .. n
  BY <1>2 DEF Probed
<1>5. L = [j \in 1 .. n |-> [w[j] EXCEPT !.matched =
                                w[j].matched /\ ~(w[j].wrapper /\ HasNestedMatch(w[j]))]]
  BY <1>2 DEF DemoteRuntimeWrappers, Reading
<1>6. ASSUME NEW j \in 1 .. n PROVE  e[j] = [L[j] EXCEPT !.nested = SortNested(L[j].nested)]
  <2> DEFINE inside == IF j \in S THEN ParseNested(s, j) ELSE <<>>
             sorted == IF j \in S THEN SortNested(ParseNested(s, j)) ELSE <<>>
             name == raw[j].name
             id == raw[j].id
             wrapper == raw[j].wrapper
             host == HostSeen(s, S, j)
             ok == name \in Accepts[s]
             still == w[j].matched /\ ~(w[j].wrapper /\ HasNestedMatch(w[j]))
  <2>1. w[j] = [name |-> name, id |-> id, wrapper |-> wrapper, matched |-> ok, nested |-> inside]
    BY <1>2 DEF Reading, Match
  <2>2. e[j] = [name |-> name, id |-> id, wrapper |-> wrapper,
                matched |-> ok /\ ~(wrapper /\ host), nested |-> sorted]
    BY DEF Entry
  <2>3. SortNested(inside) = sorted
    BY NothingInside
  <2>4. HasNestedMatch(w[j]) <=> host
    <3>1. HasNestedMatch(w[j]) <=> \E i \in DOMAIN inside : inside[i].matched
      <4>1. w[j].nested = inside
        BY <2>1
      <4> HIDE DEF w, inside
      <4> QED BY <4>1 DEF HasNestedMatch
    <3>2. CASE j \in S
      <4>1. rt = "docker" /\ j \in DOMAIN Listing[s]["docker"]
        BY <1>2, <1>3, <3>2
      <4>2. HostSeen(s, {j}, j) <=> host
        BY <3>2 DEF HostSeen
      <4> QED BY <3>1, <3>2, <4>1, <4>2, NestedMatches
    <3>3. CASE j \notin S
      BY <3>1, <3>3 DEF HostSeen
    <3> QED BY <3>2, <3>3
  <2>5. L[j] = [w[j] EXCEPT !.matched = still]
    BY <1>5
  <2>6. still = (ok /\ ~(wrapper /\ host))
    <3>1. w[j].matched = ok /\ w[j].wrapper = wrapper
      BY <2>1
    <3> HIDE DEF w, wrapper, host, ok
    <3> QED BY <2>4, <3>1
  <2> HIDE DEF L, w, e, inside, sorted, name, id, wrapper, host, still, ok
  <2>7. w[j] = Seen(name, id, wrapper, ok, inside)
    BY <2>1 DEF Seen
  <2>8. L[j] = Seen(name, id, wrapper, still, inside)
    <3>1. [Seen(name, id, wrapper, ok, inside) EXCEPT !.matched = still] =
            Seen(name, id, wrapper, still, inside)
      BY OneFieldEach
    <3> QED BY <2>5, <2>7, <3>1, Zenon
  <2>9. [L[j] EXCEPT !.nested = SortNested(inside)] =
          Seen(name, id, wrapper, still, SortNested(inside))
    <3>1. [Seen(name, id, wrapper, still, inside) EXCEPT !.nested = SortNested(inside)] =
            Seen(name, id, wrapper, still, SortNested(inside))
      BY OneFieldEach
    <3> QED BY <2>8, <3>1, Zenon
  <2>10. L[j].nested = inside
    BY <2>8, OneFieldEach
  <2>11. [L[j] EXCEPT !.nested = SortNested(L[j].nested)] =
           Seen(name, id, wrapper, still, SortNested(inside))
    BY <2>9, <2>10, Zenon
  <2>12. e[j] = Seen(name, id, wrapper, still, SortNested(inside))
    BY <2>2, <2>3, <2>6 DEF Seen
  <2> QED BY <2>11, <2>12
<1>7. [k \in DOMAIN L |-> [L[k] EXCEPT !.nested = SortNested(@)]] = e
  <2>1. DOMAIN L = 1 .. n
    BY <1>5
  <2>2. e = [k \in 1 .. n |-> e[k]]
    OBVIOUS
  <2> HIDE DEF L, e
  <2> QED BY <1>6, <2>1, <2>2, Zenon
<1>8. \A j \in 1 .. n : e[j] = Entry(s, rt, S, j) /\ e[j].name = raw[j].name
                         /\ e[j].name \in Nat /\ e[j].id \in Nat
  BY <1>2 DEF Entry, Listed
<1>9. keys \in [1 .. n -> Key]
  <2>1. rel \in [1 .. n -> BOOLEAN]
    BY DEF ContainerHasMatch
  <2>2. DOMAIN e = 1 .. n
    OBVIOUS
  <2> HIDE DEF rel, e, raw, n
  <2>3. \A k \in 1 .. n : e[k].name \in Nat /\ e[k].id \in Nat
    BY <1>8
  <2>4. n \in Nat
    BY <1>2
  <2> QED BY <2>1, <2>2, <2>3, <2>4, KeysAreKeys
<1>10. keys = [k \in DOMAIN e |-> SortKey(e[k], ContainerHasMatch(e[k]))]
  OBVIOUS
<1>k. \A j \in 1 .. n : /\ keys[j].relevant = ContainerHasMatch(Entry(s, rt, S, j))
                         /\ keys[j].name = Entry(s, rt, S, j).name
                         /\ keys[j].name \in Nat /\ keys[j].id \in Nat
  BY <1>8 DEF SortKey
<1>d. DOMAIN e = 1 .. n
  OBVIOUS
<1> HIDE DEF keys, rel, e, L
<1>11. Shown(s, rt, S) = StableSort(e, keys)
  BY <1>7, <1>10 DEF Shown, SortContainers, L
<1>12. StableSort(e, keys) = [k \in 1 .. n |-> e[CameFrom(keys)[k]]]
  BY <1>2, <1>9, <1>d, Sorted
<1> DEFINE b == CameFrom(keys)
<1>13. /\ b \in Bijection(1 .. n, 1 .. n)
       /\ \A p, q \in 1 .. n : p < q => Precedes(keys, b[p], b[q])
  BY <1>2, <1>9, CameFromPermutes
<1> HIDE DEF b
<1>14. \A p \in 1 .. n : b[p] \in 1 .. n
  BY <1>13 DEF Bijection, Injection
<1>15. Shown(s, rt, S) = [k \in 1 .. n |-> Entry(s, rt, S, b[k])]
  BY <1>8, <1>11, <1>12, <1>14 DEF b
<1>16. ASSUME NEW p \in 1 .. n, NEW q \in 1 .. n, p < q
       PROVE  InOrder(Entry(s, rt, S, b[p]), Entry(s, rt, S, b[q]))
  <2>1. Precedes(keys, b[p], b[q])
    BY <1>13, <1>16
  <2>2. ~Before(keys[b[q]], keys[b[p]])
    <3> DEFINE x == keys[b[p]]
               y == keys[b[q]]
    <3>1. /\ x.relevant \in BOOLEAN /\ x.name \in Nat /\ x.id \in Nat
          /\ y.relevant \in BOOLEAN /\ y.name \in Nat /\ y.id \in Nat
      BY <1>9, <1>14 DEF Key
    <3>2. Before(x, y) \/ ~Before(y, x)
      BY <2>1 DEF Precedes
    <3> HIDE DEF x, y
    <3>3. ~Before(y, x)
      BY <3>1, <3>2 DEF Before
    <3> QED BY <3>3 DEF x, y
  <2> QED BY <1>14, <1>k, <2>2 DEF Before, InOrder
<1> QED BY <1>2, <1>13, <1>15, <1>16

---------------------------------------------------------------------------
(* Reading a report. *)

(* What the report shows for the inside of a container.                    *)
LEMMA EntryMatches ==
  ASSUME NEW s \in Sites, NEW rt \in {"docker", "podman"}, NEW S \in SUBSET Probed(s, rt),
         NEW j \in DOMAIN Listing[s][rt]
  PROVE  HasNestedMatch(Entry(s, rt, S, j)) <=> HostSeen(s, S, j)
<1> DEFINE e == Entry(s, rt, S, j)
<1>1. e.nested = IF j \in S THEN SortNested(ParseNested(s, j)) ELSE <<>>
  BY DEF Entry
<1>2. CASE j \in S
  <2>1. j \in DOMAIN Listing[s]["docker"]
    BY <1>2 DEF Probed
  <2>2. HostSeen(s, {j}, j) <=> HostSeen(s, S, j)
    BY <1>2 DEF HostSeen
  <2>3. e.nested = SortNested(ParseNested(s, j))
    BY <1>1, <1>2
  <2> HIDE DEF e
  <2>4. HasNestedMatch(e) <=> \E n \in DOMAIN SortNested(ParseNested(s, j)) :
                                SortNested(ParseNested(s, j))[n].matched
    BY <2>3 DEF HasNestedMatch
  <2>5. HasNestedMatch(e) <=> HostSeen(s, S, j)
    BY <2>1, <2>2, <2>4, NestedMatches
  <2> QED BY <2>5 DEF e
<1>3. CASE j \notin S
  <2>1. e.nested = <<>> /\ ~HostSeen(s, S, j)
    BY <1>1, <1>3 DEF HostSeen
  <2> HIDE DEF e
  <2>2. ~HasNestedMatch(e)
    BY <2>1 DEF HasNestedMatch
  <2> QED BY <2>1, <2>2 DEF e
<1> QED BY <1>2, <1>3

(* The list of a report, with where each of its places comes from.         *)
ReadsAs(s, rep, S, n, b) ==
  /\ S \subseteq Probed(s, rep.type)
  /\ n \in Nat /\ 1 .. n \subseteq DOMAIN Listing[s][rep.type]
  /\ b \in Bijection(1 .. n, 1 .. n)
  /\ rep.containers = [k \in 1 .. n |-> Entry(s, rep.type, S, b[k])]
  /\ \A p, q \in 1 .. n :
       p < q => InOrder(Entry(s, rep.type, S, b[p]), Entry(s, rep.type, S, b[q]))

(* Whatever failed, the list of a report can be read so.                   *)
LEMMA MadeReadsAs ==
  ASSUME NEW s \in Sites, NEW rep, NEW whole, Made(s, rep, whole)
  PROVE  \E S, n, b : /\ ReadsAs(s, rep, S, n, b)
                      /\ rep.available => n = Len(Listing[s][rep.type])
                      /\ rep.available /\ whole => S = Probed(s, rep.type)
<1>1. rep.type \in {"docker", "podman"} /\ rep.available \in BOOLEAN
  BY DEF Made
<1>2. CASE rep.available
  <2>1. PICK S \in SUBSET Probed(s, rep.type) :
          rep.containers = Shown(s, rep.type, S) /\ (whole => S = Probed(s, rep.type))
    BY <1>2 DEF Made
  <2> DEFINE n == Len(Listing[s][rep.type])
  <2>0. rep.type \in {"docker", "podman"} /\ S \in SUBSET Probed(s, rep.type)
    BY <1>1
  <2>2. /\ n \in Nat /\ DOMAIN Listing[s][rep.type] = 1 .. n
        /\ \E b \in Bijection(1 .. n, 1 .. n) :
             /\ Shown(s, rep.type, S) = [k \in 1 .. n |-> Entry(s, rep.type, S, b[k])]
             /\ \A p, q \in 1 .. n :
                  p < q => InOrder(Entry(s, rep.type, S, b[p]), Entry(s, rep.type, S, b[q]))
    BY <2>0, ShownEntries, Zenon
  <2> HIDE DEF n
  <2>3. PICK b \in Bijection(1 .. n, 1 .. n) :
          /\ Shown(s, rep.type, S) = [k \in 1 .. n |-> Entry(s, rep.type, S, b[k])]
          /\ \A p, q \in 1 .. n :
               p < q => InOrder(Entry(s, rep.type, S, b[p]), Entry(s, rep.type, S, b[q]))
    BY <2>2
  <2>4. ReadsAs(s, rep, S, n, b)
    BY <2>1, <2>2, <2>3 DEF ReadsAs
  <2> QED BY <2>1, <2>4 DEF n
<1>3. CASE ~rep.available
  <2>1. rep.containers = <<>>
    BY <1>3 DEF Made
  <2> DEFINE b == [k \in 1 .. 0 |-> k]
  <2>2. b \in Bijection(1 .. 0, 1 .. 0)
    BY DEF Bijection, Injection, Surjection, IsInjective
  <2>3. [k \in 1 .. 0 |-> Entry(s, rep.type, {}, b[k])] = <<>>
    OBVIOUS
  <2>4. 1 .. 0 \subseteq DOMAIN Listing[s][rep.type] /\ {} \subseteq Probed(s, rep.type)
    OBVIOUS
  <2> HIDE DEF b
  <2>5. ReadsAs(s, rep, {}, 0, b)
    BY <2>1, <2>2, <2>3, <2>4 DEF ReadsAs
  <2> QED BY <1>3, <2>5
<1> QED BY <1>1, <1>2, <1>3

(* A place of the list and what stands there.                              *)
LEMMA PlaceOf ==
  ASSUME NEW s, NEW rep, NEW S, NEW n, NEW b, ReadsAs(s, rep, S, n, b),
         NEW k \in DOMAIN rep.containers
  PROVE  /\ k \in 1 .. n /\ b[k] \in 1 .. n /\ b[k] \in DOMAIN Listing[s][rep.type]
         /\ rep.containers[k] = Entry(s, rep.type, S, b[k])
BY DEF ReadsAs, Bijection, Injection

(* When Detect returns, every report in it was made so.                    *)
LEMMA ReportsMade ==
  ASSUME ReportInv, main = "returned", NEW s \in Sites, NEW r \in DOMAIN targets[s].runtimes
  PROVE  Made(s, targets[s].runtimes[r], Trusty)
<1>1. CASE s = 0
  <2> DEFINE rs == targets[0].runtimes
  <2>1. LocalReport(rs, Trusty)
    BY DEF ReportInv, LocalOK
  <2> HIDE DEF rs
  <2>2. DOMAIN rs = 1 .. 2
    BY <2>1 DEF LocalReport, IsSeq
  <2>3. r = 1 \/ r = 2
    BY <1>1, <2>2 DEF rs
  <2> QED BY <1>1, <2>1, <2>3 DEF LocalReport, rs
<1>2. CASE s # 0
  <2>1. s \in PCs
    BY <1>2, SizeAssumption DEF Sites, PCs
  <2> QED BY <2>1 DEF ReportInv, SlotOK
<1> QED BY <1>1, <1>2

(* The invariant with all it rests on.                                     *)
LEMMA ReportInvariant == Spec => [](DetectInv /\ ReportInv)
<1>1. Init => DetectInv /\ ReportInv
  BY DetectInvInit, ReportInvInit
<1>2. DetectInv /\ ReportInv /\ [Next]_vars => (DetectInv /\ ReportInv)'
  BY DetectInvNext, ReportInvNext
<1> QED BY <1>1, <1>2, PTL DEF Spec

(* No wrapper steps back for a host that is not in the report: whatever    *)
(* probes failed and in whatever order they came back, every accepted      *)
(* container that is listed stands for a host, itself or by one inside.    *)
THEOREM NoneLost == Spec => []NoHostLost
<1>1. ASSUME ReportInv PROVE NoHostLost
  <2> SUFFICES ASSUME main = "returned", NEW s \in Sites, NEW r \in DOMAIN targets[s].runtimes,
                      NEW k \in DOMAIN targets[s].runtimes[r].containers,
                      targets[s].runtimes[r].containers[k].name \in Accepts[s]
               PROVE  ContainerHasMatch(targets[s].runtimes[r].containers[k])
    BY DEF NoHostLost
  <2> DEFINE rep == targets[s].runtimes[r]
             c == rep.containers[k]
  <2>1. Made(s, rep, Trusty)
    BY <1>1, ReportsMade
  <2>2. rep.type \in {"docker", "podman"} /\ k \in DOMAIN rep.containers /\ c.name \in Accepts[s]
    BY <2>1 DEF Made
  <2> HIDE DEF rep
  <2>3. PICK S, n, b : ReadsAs(s, rep, S, n, b)
    BY <2>1, MadeReadsAs
  <2> DEFINE j == b[k]
  <2>4. c = Entry(s, rep.type, S, j) /\ j \in DOMAIN Listing[s][rep.type]
    BY <2>2, <2>3, PlaceOf
  <2>5. HasNestedMatch(Entry(s, rep.type, S, j)) <=> HostSeen(s, S, j)
    BY <2>2, <2>3, <2>4, EntryMatches DEF ReadsAs
  <2> HIDE DEF j, c
  <2>6. /\ c.name = Listing[s][rep.type][j].name
        /\ c.matched = (Listing[s][rep.type][j].name \in Accepts[s]
                          /\ ~(Listing[s][rep.type][j].wrapper /\ HostSeen(s, S, j)))
    BY <2>4 DEF Entry
  <2>7. HasNestedMatch(c) <=> HostSeen(s, S, j)
    BY <2>4, <2>5
  <2>8. c.name \in Accepts[s]
    BY <2>2 DEF c
  <2>9. ContainerHasMatch(c)
    BY <2>6, <2>7, <2>8 DEF ContainerHasMatch
  <2> QED BY <2>9 DEF c, rep
<1> QED BY <1>1, ReportInvariant, PTL

(* One way of reading the list of a report, the same one every time. *)
GoodReading(s, r, x) ==
  LET rep == targets[s].runtimes[r]
  IN  /\ ReadsAs(s, rep, x.seen, x.size, x.from)
      /\ rep.available => x.size = Len(Listing[s][rep.type])
      /\ rep.available /\ Trusty => x.seen = Probed(s, rep.type)

ReadingOf(s, r) == CHOOSE x : GoodReading(s, r, x)

(* The order the containers inside container j are shown in. *)
InnerOrder(s, j) ==
  LET m == Len(Listing[s]["docker"][j].inner)
  IN  CHOOSE g \in Bijection(1 .. m, 1 .. m) :
        SortNested(ParseNested(s, j)) = [n \in 1 .. m |-> ParseNested(s, j)[g[n]]]

(* When Detect returns, every list can be read.                            *)
LEMMA ReadingIsGood ==
  ASSUME ReportInv, main = "returned", NEW s \in Sites, NEW r \in DOMAIN targets[s].runtimes
  PROVE  GoodReading(s, r, ReadingOf(s, r))
<1> DEFINE rep == targets[s].runtimes[r]
<1>1. Made(s, rep, Trusty)
  BY ReportsMade
<1> HIDE DEF rep
<1>2. PICK S, n, b : /\ ReadsAs(s, rep, S, n, b)
                     /\ rep.available => n = Len(Listing[s][rep.type])
                     /\ rep.available /\ Trusty => S = Probed(s, rep.type)
  BY <1>1, MadeReadsAs
<1> DEFINE x == [seen |-> S, size |-> n, from |-> b]
<1>3. x.seen = S /\ x.size = n /\ x.from = b
  OBVIOUS
<1> HIDE DEF x
<1>4. GoodReading(s, r, x)
  BY <1>2, <1>3 DEF GoodReading, rep
<1> QED BY <1>4 DEF ReadingOf

(* What is listed, and what is inside it, has a name.                      *)
LEMMA InnerOrdered ==
  ASSUME NEW s \in Sites, NEW j \in DOMAIN Listing[s]["docker"]
  PROVE  LET m == Len(Listing[s]["docker"][j].inner)
             g == InnerOrder(s, j)
         IN  /\ m \in Nat /\ DOMAIN Listing[s]["docker"][j].inner = 1 .. m
             /\ g \in Bijection(1 .. m, 1 .. m)
             /\ SortNested(ParseNested(s, j)) = [n \in 1 .. m |-> ParseNested(s, j)[g[n]]]
BY NestedSorted DEF InnerOrder

(* Where a host of the report stands and what it comes from.               *)
Row(p) ==
  LET s == p[1]
      r == p[2]
      k == p[3]
      m == p[4]
      rt == targets[s].runtimes[r].type
      j == ReadingOf(s, r).from[k]
  IN  /\ p = <<s, r, k, m>> /\ s \in Sites /\ r \in DOMAIN targets[s].runtimes
      /\ rt \in {"docker", "podman"} /\ rt \in RuntimesAt(s)
      /\ targets[s].runtimes[r].available
      /\ k \in 1 .. ReadingOf(s, r).size
      /\ j \in DOMAIN Listing[s][rt]
      /\ m = 0 => /\ ContainerAt(targets, p).name = Listing[s][rt][j].name
                  /\ ContainerAt(targets, p).id = Listing[s][rt][j].id
                  /\ Listing[s][rt][j].name \in Accepts[s]
                  /\ ~(Listing[s][rt][j].wrapper /\ HostSeen(s, ReadingOf(s, r).seen, j))
      /\ m # 0 => /\ rt = "docker"
                  /\ m \in 1 .. Len(Listing[s]["docker"][j].inner)
                  /\ ContainerAt(targets, p).name =
                       Listing[s]["docker"][j].inner[InnerOrder(s, j)[m]].name
                  /\ ContainerAt(targets, p).id =
                       Listing[s]["docker"][j].inner[InnerOrder(s, j)[m]].id
                  /\ InnerOrder(s, j)[m] \in InnerHosts(s, j)
                  /\ HostSeen(s, ReadingOf(s, r).seen, j)

(* The containers inside a container of the report.                        *)
LEMMA EntryInside ==
  ASSUME NEW s \in Sites, NEW rt \in {"docker", "podman"}, NEW S \in SUBSET Probed(s, rt),
         NEW j \in DOMAIN Listing[s][rt]
  PROVE  LET e == Entry(s, rt, S, j)
             M == Len(Listing[s]["docker"][j].inner)
         IN  /\ j \notin S => e.nested = <<>> /\ Len(e.nested) = 0
             /\ j \in S => /\ rt = "docker" /\ M \in Nat /\ Len(e.nested) = M
                           /\ IncludeNested /\ Listing[s]["docker"][j].id # 0
                           /\ \A m \in 1 .. M :
                                /\ InnerOrder(s, j)[m] \in DOMAIN Listing[s]["docker"][j].inner
                                /\ e.nested[m] = ParseNested(s, j)[InnerOrder(s, j)[m]]
<1> DEFINE e == Entry(s, rt, S, j)
           raw == Listing[s]["docker"][j].inner
           M == Len(raw)
           g == InnerOrder(s, j)
<1>1. CASE j \notin S
  <2>1. e.nested = <<>>
    BY <1>1 DEF Entry
  <2> QED BY <1>1, <2>1
<1>2. CASE j \in S
  <2>1. /\ rt = "docker" /\ IncludeNested /\ Listing[s]["docker"][j].id # 0
        /\ j \in DOMAIN Listing[s]["docker"]
    BY <1>2 DEF Probed
  <2>2. e.nested = SortNested(ParseNested(s, j))
    BY <1>2 DEF Entry
  <2>3. /\ M \in Nat /\ DOMAIN raw = 1 .. M
        /\ g \in Bijection(1 .. M, 1 .. M)
        /\ SortNested(ParseNested(s, j)) = [n \in 1 .. M |-> ParseNested(s, j)[g[n]]]
    BY <2>1, InnerOrdered
  <2>4. \A m \in 1 .. M : g[m] \in 1 .. M
    BY <2>3 DEF Bijection, Injection
  <2> HIDE DEF e, raw, M, g
  <2>5. /\ Len(e.nested) = M
        /\ \A m \in 1 .. M : e.nested[m] = ParseNested(s, j)[g[m]]
    BY <2>2, <2>3
  <2> QED BY <1>2, <2>1, <2>3, <2>4, <2>5 DEF e, raw, M, g
<1> QED BY <1>1, <1>2

(* Every host position of the report is such a row.                        *)
LEMMA HostsAreRows ==
  ASSUME DetectInv, ReportInv, main = "returned", NEW p \in HostPositions(targets)
  PROVE  Row(p)
<1>1. DOMAIN targets = Sites
  BY DEF DetectInv, Shape
<1>0. PICK s \in Sites : \E r \in DOMAIN targets[s].runtimes :
        \E k \in DOMAIN targets[s].runtimes[r].containers :
          \E m \in 0 .. Len(targets[s].runtimes[r].containers[k].nested) : p = <<s, r, k, m>>
  BY <1>1 DEF HostPositions, Positions
<1>r. PICK r \in DOMAIN targets[s].runtimes :
        \E k \in DOMAIN targets[s].runtimes[r].containers :
          \E m \in 0 .. Len(targets[s].runtimes[r].containers[k].nested) : p = <<s, r, k, m>>
  BY <1>0
<1>k. PICK k \in DOMAIN targets[s].runtimes[r].containers :
        \E m \in 0 .. Len(targets[s].runtimes[r].containers[k].nested) : p = <<s, r, k, m>>
  BY <1>r
<1>2. PICK m \in 0 .. Len(targets[s].runtimes[r].containers[k].nested) : p = <<s, r, k, m>>
  BY <1>k
<1> DEFINE rep == targets[s].runtimes[r]
           rt == rep.type
           c == rep.containers[k]
           S == ReadingOf(s, r).seen
           n == ReadingOf(s, r).size
           b == ReadingOf(s, r).from
           j == b[k]
           raw == Listing[s][rt][j]
<1>3. p[1] = s /\ p[2] = r /\ p[3] = k /\ p[4] = m
  BY <1>2
<1>4. ContainerAt(targets, p).matched /\ ContainerAt(targets, p) = (IF m = 0 THEN c ELSE c.nested[m])
  BY <1>3 DEF HostPositions, ContainerAt
<1>5. GoodReading(s, r, ReadingOf(s, r))
  BY ReadingIsGood
<1>6. ReadsAs(s, rep, S, n, b)
  BY <1>5 DEF GoodReading
<1>7. Made(s, rep, Trusty)
  BY ReportsMade
<1>8. rt \in {"docker", "podman"}
  BY <1>7 DEF Made
<1>9. rep.available /\ rt \in RuntimesAt(s)
  <2>1. rep.containers # <<>>
    OBVIOUS
  <2> HIDE DEF rep
  <2> QED BY <1>7, <2>1 DEF Made
<1>10. k \in 1 .. n /\ j \in DOMAIN Listing[s][rt] /\ c = Entry(s, rt, S, j)
  BY <1>6, PlaceOf
<1>11. S \in SUBSET Probed(s, rt)
  BY <1>6 DEF ReadsAs
<1>12. /\ j \notin S => c.nested = <<>> /\ Len(c.nested) = 0
       /\ j \in S => /\ rt = "docker"
                     /\ Len(Listing[s]["docker"][j].inner) \in Nat
                     /\ Len(c.nested) = Len(Listing[s]["docker"][j].inner)
                     /\ IncludeNested /\ Listing[s]["docker"][j].id # 0
                     /\ \A i \in 1 .. Len(Listing[s]["docker"][j].inner) :
                          /\ InnerOrder(s, j)[i] \in DOMAIN Listing[s]["docker"][j].inner
                          /\ c.nested[i] = ParseNested(s, j)[InnerOrder(s, j)[i]]
  <2>1. /\ j \notin S => Entry(s, rt, S, j).nested = <<>> /\ Len(Entry(s, rt, S, j).nested) = 0
        /\ j \in S => /\ rt = "docker"
                      /\ Len(Listing[s]["docker"][j].inner) \in Nat
                      /\ Len(Entry(s, rt, S, j).nested) = Len(Listing[s]["docker"][j].inner)
                      /\ IncludeNested /\ Listing[s]["docker"][j].id # 0
                      /\ \A i \in 1 .. Len(Listing[s]["docker"][j].inner) :
                           /\ InnerOrder(s, j)[i] \in DOMAIN Listing[s]["docker"][j].inner
                           /\ Entry(s, rt, S, j).nested[i]
                                = ParseNested(s, j)[InnerOrder(s, j)[i]]
    <3> HIDE DEF rt, S, j
    <3> QED BY <1>8, <1>10, <1>11, EntryInside
  <2>2. c = Entry(s, rt, S, j)
    BY <1>10
  <2> HIDE DEF c, rt, S, j
  <2> QED BY <2>1, <2>2
<1>13. m = 0 => /\ c.name = raw.name /\ c.id = raw.id
                /\ raw.name \in Accepts[s] /\ ~(raw.wrapper /\ HostSeen(s, S, j))
  <2> HIDE DEF c, S, j, rt
  <2>1. /\ c.matched = (raw.name \in Accepts[s] /\ ~(raw.wrapper /\ HostSeen(s, S, j)))
        /\ c.name = raw.name /\ c.id = raw.id
    BY <1>10 DEF Entry
  <2> HIDE DEF raw
  <2> QED BY <1>4, <2>1
<1>14. m # 0 => /\ rt = "docker"
                /\ c.nested[m].name = Listing[s]["docker"][j].inner[InnerOrder(s, j)[m]].name
                /\ c.nested[m].id = Listing[s]["docker"][j].inner[InnerOrder(s, j)[m]].id
                /\ m \in 1 .. Len(Listing[s]["docker"][j].inner)
                /\ InnerOrder(s, j)[m] \in InnerHosts(s, j)
                /\ HostSeen(s, S, j)
  <2> HIDE DEF c, S, j, rt
  <2> SUFFICES ASSUME m # 0
               PROVE  /\ rt = "docker"
                      /\ c.nested[m].name = Listing[s]["docker"][j].inner[InnerOrder(s, j)[m]].name
                      /\ c.nested[m].id = Listing[s]["docker"][j].inner[InnerOrder(s, j)[m]].id
                      /\ m \in 1 .. Len(Listing[s]["docker"][j].inner)
                      /\ InnerOrder(s, j)[m] \in InnerHosts(s, j)
                      /\ HostSeen(s, S, j)
    OBVIOUS
  <2>1. m \in 0 .. Len(c.nested)
    BY DEF c
  <2>2. j \in S
    BY <1>12, <2>1
  <2> DEFINE i == InnerOrder(s, j)[m]
             inner == Listing[s]["docker"][j].inner
  <2>3. m \in 1 .. Len(inner)
    BY <1>12, <2>1, <2>2
  <2>4. i \in DOMAIN inner /\ c.nested[m] = ParseNested(s, j)[i]
    BY <1>12, <2>2, <2>3
  <2>5. c.nested[m].matched
    BY <1>4
  <2>6. inner[i].name \in Accepts[s]
    <3>1. ParseNested(s, j)[i].matched = (inner[i].name \in Accepts[s])
      BY <2>4 DEF ParseNested, Match
    <3> HIDE DEF i, inner
    <3> QED BY <2>4, <2>5, <3>1
  <2>n. c.nested[m].name = inner[i].name /\ c.nested[m].id = inner[i].id
    <3>1. ParseNested(s, j)[i].name = inner[i].name /\ ParseNested(s, j)[i].id = inner[i].id
      BY <2>4 DEF ParseNested
    <3> HIDE DEF i, inner
    <3> QED BY <2>4, <3>1
  <2>7. i \in InnerHosts(s, j)
    BY <1>12, <2>2, <2>4, <2>6 DEF InnerHosts
  <2>8. HostSeen(s, S, j)
    BY <2>2, <2>4, <2>6 DEF HostSeen
  <2> QED BY <1>12, <2>2, <2>3, <2>7, <2>8, <2>n
<1>15. m = 0 => ContainerAt(targets, p).name = raw.name /\ ContainerAt(targets, p).id = raw.id
  <2> HIDE DEF c, raw
  <2> QED BY <1>4, <1>13
<1>16. m # 0 => LET seen == Listing[s]["docker"][j].inner[InnerOrder(s, j)[m]]
                IN  /\ ContainerAt(targets, p).name = seen.name
                    /\ ContainerAt(targets, p).id = seen.id
  <2> HIDE DEF c, j
  <2> QED BY <1>4, <1>14
<1> HIDE DEF c
<1> QED BY <1>2, <1>3, <1>8, <1>9, <1>10, <1>13, <1>14, <1>15, <1>16 DEF Row

(* No runtime of a PC is configured twice. *)
RuntimesOnce ==
  \A i \in PCs : \A r, q \in DOMAIN Runtimes[i] : Runtimes[i][r] = Runtimes[i][q] => r = q

(* The host a row stands for: the container itself, or for a wrapper whose *)
(* host was not seen one inside it.                                        *)
Origin(p) ==
  LET s == p[1]
      rt == targets[s].runtimes[p[2]].type
      j == ReadingOf(s, p[2]).from[p[3]]
  IN  <<s, rt, j, IF p[4] # 0 THEN InnerOrder(s, j)[p[4]]
                  ELSE IF Demoted(s, rt, j) THEN CHOOSE i \in InnerHosts(s, j) : TRUE ELSE 0>>

(* It is one.                                                              *)
LEMMA OriginIsHost ==
  ASSUME NEW p, Row(p)
  PROVE  Origin(p) \in TrueHosts
<1> DEFINE s == p[1]
           r == p[2]
           m == p[4]
           rt == targets[s].runtimes[r].type
           j == ReadingOf(s, r).from[p[3]]
           i == IF m # 0 THEN InnerOrder(s, j)[m]
                ELSE IF Demoted(s, rt, j) THEN CHOOSE x \in InnerHosts(s, j) : TRUE ELSE 0
<1>1. /\ s \in Sites /\ rt \in {"docker", "podman"} /\ rt \in RuntimesAt(s)
      /\ j \in DOMAIN Listing[s][rt]
      /\ m = 0 => Listing[s][rt][j].name \in Accepts[s]
      /\ m # 0 => rt = "docker" /\ InnerOrder(s, j)[m] \in InnerHosts(s, j)
  BY DEF Row
<1>2. Origin(p) = <<s, rt, j, i>>
  BY DEF Origin
<1>3. CASE m = 0 /\ ~Demoted(s, rt, j)
  <2>1. i = 0 /\ j \in OuterHosts(s, rt)
    BY <1>1, <1>3 DEF OuterHosts
  <2> HIDE DEF i, j, rt, s
  <2>2. <<s, rt, j, 0>> \in TrueHosts
    BY <1>1, <2>1 DEF TrueHosts
  <2> QED BY <1>2, <2>1, <2>2
<1>4. CASE m # 0 \/ Demoted(s, rt, j)
  <2>1. i \in InnerHosts(s, j)
    BY <1>1, <1>4 DEF Demoted
  <2>2. rt = "docker"
    BY <1>1, <1>4 DEF Demoted
  <2> HIDE DEF i, j, rt, s
  <2>3. <<s, "docker", j, i>> \in TrueHosts
    BY <1>1, <2>1, <2>2 DEF TrueHosts
  <2> QED BY <1>2, <2>2, <2>3
<1> QED BY <1>3, <1>4

(* The reports of a target are told apart by their runtimes.               *)
LEMMA TypesOnce ==
  ASSUME RuntimesOnce, DetectInv, ReportInv, main = "returned", NEW s \in Sites,
         NEW r \in DOMAIN targets[s].runtimes, NEW q \in DOMAIN targets[s].runtimes,
         targets[s].runtimes[r].type = targets[s].runtimes[q].type
  PROVE  r = q
<1>1. CASE s = 0
  <2> DEFINE rs == targets[0].runtimes
  <2>1. LocalReport(rs, Trusty)
    BY DEF ReportInv, LocalOK
  <2>2. rs[r].type = rs[q].type /\ r \in DOMAIN rs /\ q \in DOMAIN rs
    BY <1>1
  <2> HIDE DEF rs
  <2>3. DOMAIN rs = 1 .. 2
    BY <2>1 DEF LocalReport, IsSeq
  <2> QED BY <2>1, <2>2, <2>3 DEF LocalReport
<1>2. CASE s # 0
  <2>1. s \in PCs
    BY <1>2, SizeAssumption DEF Sites, PCs
  <2>2. PCInv(s) /\ at[s] = "done" /\ SlotOK(s)
    BY <2>1 DEF DetectInv, Phase, ReportInv
  <2>3. Verdict(s)
    BY <2>2 DEF PCInv
  <2>4. CASE targets[s].status = "probed"
    <3>1. [x \in DOMAIN targets[s].runtimes |-> targets[s].runtimes[x].type] = Runtimes[s]
      BY <2>3, <2>4 DEF Verdict
    <3> QED BY <2>1, <3>1 DEF RuntimesOnce
  <2>5. CASE targets[s].status # "probed"
    BY <2>2, <2>5 DEF SlotOK
  <2> QED BY <2>4, <2>5
<1> QED BY <1>1, <1>2

(* Rows that come from one container of a list are in one place of it.     *)
LEMMA RowsOnce ==
  ASSUME RuntimesOnce, DetectInv, ReportInv, main = "returned", NEW p, Row(p), NEW q, Row(q),
         q[1] = p[1], targets[q[1]].runtimes[q[2]].type = targets[p[1]].runtimes[p[2]].type,
         ReadingOf(q[1], q[2]).from[q[3]] = ReadingOf(p[1], p[2]).from[p[3]]
  PROVE  q[2] = p[2] /\ q[3] = p[3]
<1> DEFINE s == p[1]
           r == p[2]
           x == ReadingOf(s, r)
<1>1. s \in Sites /\ r \in DOMAIN targets[s].runtimes
  BY DEF Row
<1>2. q[2] = r
  <2>1. /\ q[2] \in DOMAIN targets[s].runtimes
        /\ targets[s].runtimes[q[2]].type = targets[s].runtimes[r].type
    BY DEF Row
  <2> QED BY <1>1, <2>1, TypesOnce
<1>3. x.from[q[3]] = x.from[p[3]]
  BY <1>2
<1>4. p[3] \in 1 .. x.size /\ q[3] \in 1 .. x.size
  BY <1>2 DEF Row
<1>5. x.from \in Bijection(1 .. x.size, 1 .. x.size)
  BY <1>1, ReadingIsGood DEF GoodReading, ReadsAs
<1> HIDE DEF x
<1>6. q[3] = p[3]
  BY <1>3, <1>4, <1>5 DEF Bijection, Injection, IsInjective
<1> QED BY <1>2, <1>6

(* No host has two rows.                                                   *)
LEMMA OriginOnce ==
  ASSUME RuntimesOnce, DetectInv, ReportInv, main = "returned", NEW p, Row(p), NEW q, Row(q),
         Origin(p) = Origin(q)
  PROVE  p = q
<1> DEFINE s == p[1]
           r == p[2]
           k == p[3]
           m == p[4]
           l == q[4]
           rt == targets[s].runtimes[r].type
           x == ReadingOf(s, r)
           j == x.from[k]
           g == InnerOrder(s, j)
           M == Len(Listing[s]["docker"][j].inner)
<1>0. /\ q[1] = s /\ targets[q[1]].runtimes[q[2]].type = rt
      /\ ReadingOf(q[1], q[2]).from[q[3]] = j
  BY DEF Origin
<1>1. q[1] = s /\ s \in Sites
  BY <1>0 DEF Row
<1>2. q[2] = r
  BY <1>0, RowsOnce
<1>3. q[3] = k
  BY <1>0, RowsOnce
<1>4. /\ p = <<s, r, k, m>> /\ q = <<s, r, k, l>>
      /\ rt \in {"docker", "podman"} /\ j \in DOMAIN Listing[s][rt]
  BY <1>1, <1>2, <1>3 DEF Row
<1>5. (IF m # 0 THEN g[m] ELSE IF Demoted(s, rt, j) THEN CHOOSE i \in InnerHosts(s, j) : TRUE ELSE 0)
        = IF l # 0 THEN g[l] ELSE IF Demoted(s, rt, j) THEN CHOOSE i \in InnerHosts(s, j) : TRUE ELSE 0
  BY <1>1, <1>2, <1>3 DEF Origin
<1>6. /\ m = 0 => ~(Listing[s][rt][j].wrapper /\ HostSeen(s, x.seen, j))
      /\ l = 0 => ~(Listing[s][rt][j].wrapper /\ HostSeen(s, x.seen, j))
      /\ m # 0 => rt = "docker" /\ m \in 1 .. M /\ g[m] \in InnerHosts(s, j) /\ HostSeen(s, x.seen, j)
      /\ l # 0 => rt = "docker" /\ l \in 1 .. M /\ g[l] \in InnerHosts(s, j) /\ HostSeen(s, x.seen, j)
  BY <1>1, <1>2, <1>3 DEF Row
<1>7. rt = "docker" => /\ g \in Bijection(1 .. M, 1 .. M)
                       /\ InnerHosts(s, j) \subseteq 1 .. M
  <2>1. rt = "docker" => j \in DOMAIN Listing[s]["docker"]
    BY <1>4
  <2> HIDE DEF rt, j
  <2> QED BY <1>1, <2>1, InnerOrdered DEF InnerHosts
<1> HIDE DEF s, r, k, m, l, rt, x, j, g, M
<1>8. CASE m # 0 /\ l # 0
  BY <1>4, <1>5, <1>6, <1>7, <1>8 DEF Bijection, Injection, IsInjective
<1>9. CASE m = 0 /\ l # 0
  <2>1. ~Demoted(s, rt, j)
    BY <1>6, <1>9 DEF Demoted
  <2>2. g[l] = 0 /\ g[l] \in 1 .. M
    BY <1>5, <1>6, <1>7, <1>9, <2>1
  <2> QED BY <2>2
<1>10. CASE m # 0 /\ l = 0
  <2>1. ~Demoted(s, rt, j)
    BY <1>6, <1>10 DEF Demoted
  <2>2. g[m] = 0 /\ g[m] \in 1 .. M
    BY <1>5, <1>6, <1>7, <1>10, <2>1
  <2> QED BY <2>2
<1> QED BY <1>4, <1>8, <1>9, <1>10

---------------------------------------------------------------------------
(* There are finitely many hosts. *)

(* The values of a function on a finite set are finitely many.             *)
LEMMA ImageFinite ==
  ASSUME NEW V, IsFiniteSet(V), NEW D
  PROVE  IsFiniteSet({D[x] : x \in V})
<1> DEFINE f == [x \in V |-> D[x]]
<1>1. f \in Surjection(V, {D[x] : x \in V})
  BY DEF Surjection
<1> HIDE DEF f
<1> QED BY <1>1, FS_Surjection

(* The union of finitely many finite sets is finite.                       *)
LEMMA UnionFinite ==
  ASSUME NEW V, IsFiniteSet(V), NEW D, \A x \in V : IsFiniteSet(D[x])
  PROVE  IsFiniteSet(UNION {D[x] : x \in V})
<1>1. IsFiniteSet({D[x] : x \in V})
  BY ImageFinite
<1>2. \A T \in {D[x] : x \in V} : IsFiniteSet(T)
  OBVIOUS
<1> QED BY <1>1, <1>2, FS_UNION

(* There are finitely many hosts to be found in one list.                  *)
LEMMA HostsOfList ==
  ASSUME NEW s \in Sites, NEW rt \in {"docker", "podman"}
  PROVE  /\ IsFiniteSet(DOMAIN Listing[s][rt])
         /\ IsFiniteSet(OuterHosts(s, rt))
         /\ \A k \in DOMAIN Listing[s]["docker"] : IsFiniteSet(InnerHosts(s, k))
<1>1. \A k \in DOMAIN Listing[s]["docker"] : IsFiniteSet(InnerHosts(s, k))
  <2> SUFFICES ASSUME NEW k \in DOMAIN Listing[s]["docker"] PROVE IsFiniteSet(InnerHosts(s, k))
    OBVIOUS
  <2> DEFINE M == Len(Listing[s]["docker"][k].inner)
  <2>1. M \in Nat /\ DOMAIN Listing[s]["docker"][k].inner = 1 .. M
    BY InnerOrdered
  <2>2. IsFiniteSet(1 .. M)
    BY <2>1, FS_Interval
  <2>3. InnerHosts(s, k) \subseteq 1 .. M
    BY <2>1 DEF InnerHosts
  <2> QED BY <2>2, <2>3, FS_Subset
<1>2. IsFiniteSet(DOMAIN Listing[s][rt])
  <2> DEFINE raw == Listing[s][rt]
  <2>1. raw \in Seq(Listed)
    BY WorldAssumption
  <2> HIDE DEF raw
  <2>2. DOMAIN raw = 1 .. Len(raw) /\ Len(raw) \in Nat
    BY <2>1, LenProperties
  <2> QED BY <2>2, FS_Interval DEF raw
<1>3. OuterHosts(s, rt) \subseteq DOMAIN Listing[s][rt]
  BY DEF OuterHosts
<1> QED BY <1>1, <1>2, <1>3, FS_Subset

(* Few runtimes, and finitely many machines.                               *)
LEMMA SitesFinite ==
  /\ IsFiniteSet(Sites) /\ IsFiniteSet({"docker", "podman"})
  /\ \A s \in Sites : RuntimesAt(s) \subseteq {"docker", "podman"} /\ IsFiniteSet(RuntimesAt(s))
<1>1. IsFiniteSet(Sites)
  BY SizeAssumption, FS_Interval DEF Sites
<1>2. IsFiniteSet({"docker", "podman"})
  <2>1. IsFiniteSet({"docker"})
    BY FS_Singleton
  <2>2. {"docker", "podman"} = {"docker"} \cup {"podman"}
    OBVIOUS
  <2> QED BY <2>1, <2>2, FS_AddElement
<1>3. ASSUME NEW s \in Sites PROVE RuntimesAt(s) \subseteq {"docker", "podman"}
  <2>1. CASE s = 0
    BY <2>1, WorldAssumption DEF RuntimesAt
  <2>2. CASE s # 0
    <3>1. s \in PCs
      BY <2>2, SizeAssumption DEF Sites, PCs
    <3> DEFINE rs == Runtimes[s]
    <3>2. rs \in Seq({"docker", "podman"})
      BY <3>1, WorldAssumption
    <3> HIDE DEF rs
    <3>3. \A r \in DOMAIN rs : rs[r] \in {"docker", "podman"}
      BY <3>2
    <3> QED BY <2>2, <3>3 DEF RuntimesAt, rs
  <2> QED BY <2>1, <2>2
<1> QED BY <1>1, <1>2, <1>3, FS_Subset

(* There are finitely many hosts.                                          *)
LEMMA TrueHostsFinite == IsFiniteSet(TrueHosts)
<1> DEFINE A == UNION {UNION {{<<s, rt, k, 0>> : k \in OuterHosts(s, rt)} : rt \in RuntimesAt(s)}
                       : s \in Sites}
           D == {t \in Sites : "docker" \in RuntimesAt(t)}
           B == UNION {UNION {{<<s, "docker", k, n>> : n \in InnerHosts(s, k)}
                              : k \in DOMAIN Listing[s]["docker"]} : s \in D}
           a == [s \in Sites |-> UNION {{<<s, rt, k, 0>> : k \in OuterHosts(s, rt)}
                                        : rt \in RuntimesAt(s)}]
           b == [s \in D |-> UNION {{<<s, "docker", k, n>> : n \in InnerHosts(s, k)}
                                    : k \in DOMAIN Listing[s]["docker"]}]
<1>1. TrueHosts = A \cup B
  BY DEF TrueHosts
<1>2. ASSUME NEW s \in Sites PROVE IsFiniteSet(a[s])
  <2> DEFINE c == [rt \in RuntimesAt(s) |-> {<<s, rt, k, 0>> : k \in OuterHosts(s, rt)}]
  <2>1. ASSUME NEW rt \in RuntimesAt(s) PROVE IsFiniteSet(c[rt])
    <3> DEFINE d == [k \in OuterHosts(s, rt) |-> <<s, rt, k, 0>>]
    <3>1. IsFiniteSet(OuterHosts(s, rt))
      BY SitesFinite, HostsOfList
    <3>2. c[rt] = {d[k] : k \in OuterHosts(s, rt)}
      OBVIOUS
    <3> HIDE DEF d
    <3> QED BY <3>1, <3>2, ImageFinite
  <2>2. a[s] = UNION {c[rt] : rt \in RuntimesAt(s)}
    OBVIOUS
  <2>3. IsFiniteSet(RuntimesAt(s))
    BY SitesFinite
  <2> HIDE DEF a, c
  <2> QED BY <2>1, <2>2, <2>3, UnionFinite
<1>3. ASSUME NEW s \in D PROVE IsFiniteSet(b[s])
  <2> DEFINE K == DOMAIN Listing[s]["docker"]
             c == [k \in K |-> {<<s, "docker", k, n>> : n \in InnerHosts(s, k)}]
  <2>1. ASSUME NEW k \in K PROVE IsFiniteSet(c[k])
    <3> DEFINE d == [n \in InnerHosts(s, k) |-> <<s, "docker", k, n>>]
    <3>1. IsFiniteSet(InnerHosts(s, k))
      BY HostsOfList
    <3>2. c[k] = {d[n] : n \in InnerHosts(s, k)}
      OBVIOUS
    <3> HIDE DEF d
    <3> QED BY <3>1, <3>2, ImageFinite
  <2>2. b[s] = UNION {c[k] : k \in K}
    <3>1. \A k \in K : c[k] = {<<s, "docker", k, n>> : n \in InnerHosts(s, k)}
      OBVIOUS
    <3>2. b[s] = UNION {{<<s, "docker", k, n>> : n \in InnerHosts(s, k)} : k \in K}
      BY Zenon
    <3> HIDE DEF b, c, K
    <3> QED BY <3>1, <3>2
  <2>3. IsFiniteSet(K)
    BY HostsOfList
  <2> HIDE DEF b, c, K
  <2> QED BY <2>1, <2>2, <2>3, UnionFinite
<1>4. IsFiniteSet(A)
  <2>1. A = UNION {a[s] : s \in Sites}
    OBVIOUS
  <2> HIDE DEF a, A
  <2> QED BY <1>2, <2>1, SitesFinite, UnionFinite
<1>5. IsFiniteSet(B)
  <2>1. B = UNION {b[s] : s \in D}
    OBVIOUS
  <2>2. IsFiniteSet(D)
    BY SitesFinite, FS_Subset
  <2> HIDE DEF b, B, D
  <2> QED BY <1>3, <2>1, <2>2, UnionFinite
<1> HIDE DEF A, B
<1> QED BY <1>1, <1>4, <1>5, FS_Union

---------------------------------------------------------------------------
(* The counted hosts. *)

(* Each host of the report is one that is there, and no two are the same.  *)
LEMMA HostsInjected ==
  ASSUME RuntimesOnce, DetectInv, ReportInv, main = "returned"
  PROVE  [p \in HostPositions(targets) |-> Origin(p)] \in Injection(HostPositions(targets), TrueHosts)
<1> DEFINE H == HostPositions(targets)
           f == [p \in H |-> Origin(p)]
<1>1. \A p \in H : Row(p)
  BY HostsAreRows
<1>2. f \in [H -> TrueHosts]
  BY <1>1, OriginIsHost
<1>3. \A p, q \in H : f[p] = f[q] => p = q
  BY <1>1, OriginOnce
<1> HIDE DEF f, H
<1> QED BY <1>2, <1>3, Fun_IsInj DEF f, H

(* What the summary of a report that is returned counts.                   *)
LEMMA SummaryCounts ==
  ASSUME DetectInv, main = "returned"
  PROVE  summary.counts.nosanaHosts = Cardinality(HostPositions(targets))
BY DEF DetectInv, Phase, Summarize

(* Provided no runtime of a PC is configured twice, the summary never      *)
(* counts more hosts than there are, whatever probes failed: a wrapper is  *)
(* only counted when the host inside it was not seen.                      *)
THEOREM NeverInflated == RuntimesOnce => (Spec => []HostsNotInflated)
<1> SUFFICES ASSUME RuntimesOnce PROVE Spec => []HostsNotInflated
  OBVIOUS
<1>1. ASSUME DetectInv, ReportInv PROVE HostsNotInflated
  <2> SUFFICES ASSUME main = "returned"
               PROVE  summary.counts.nosanaHosts <= Cardinality(TrueHosts)
    BY DEF HostsNotInflated
  <2>1. [p \in HostPositions(targets) |-> Origin(p)] \in Injection(HostPositions(targets), TrueHosts)
    BY <1>1, HostsInjected
  <2>2. Cardinality(HostPositions(targets)) <= Cardinality(TrueHosts)
    BY <2>1, TrueHostsFinite, FS_Injection
  <2> QED BY <1>1, <2>2, SummaryCounts
<1>2. DetectInv /\ ReportInv => HostsNotInflated
  BY <1>1
<1> QED BY <1>2, ReportInvariant, PTL

---------------------------------------------------------------------------
(* One row per host. *)

(* The containers of a machine, and those inside them. *)
Everything(s) ==
  {x \in {"docker", "podman"} \X Nat \X Nat :
     /\ x[1] \in RuntimesAt(s) /\ x[2] \in DOMAIN Listing[s][x[1]]
     /\ x[3] # 0 => x[1] = "docker" /\ x[3] \in DOMAIN Listing[s]["docker"][x[2]].inner}

What(s, x) == IF x[3] = 0 THEN Listing[s][x[1]][x[2]] ELSE Listing[s]["docker"][x[2]].inner[x[3]]

(* No two containers of a machine have their name and their ID in common. *)
ContainersApart ==
  \A s \in Sites : \A x, y \in Everything(s) :
    What(s, x).name = What(s, y).name /\ What(s, x).id = What(s, y).id => x = y

(* The container a row shows. *)
Itself(p) ==
  LET s == p[1]
      j == ReadingOf(s, p[2]).from[p[3]]
  IN  <<targets[s].runtimes[p[2]].type, j, IF p[4] # 0 THEN InnerOrder(s, j)[p[4]] ELSE 0>>

(* It is there, with that name and ID.                                     *)
LEMMA RowShows ==
  ASSUME NEW p, Row(p)
  PROVE  /\ Itself(p) \in Everything(p[1])
         /\ What(p[1], Itself(p)).name = ContainerAt(targets, p).name
         /\ What(p[1], Itself(p)).id = ContainerAt(targets, p).id
<1> DEFINE s == p[1]
           r == p[2]
           m == p[4]
           rt == targets[s].runtimes[r].type
           j == ReadingOf(s, r).from[p[3]]
           i == IF m # 0 THEN InnerOrder(s, j)[m] ELSE 0
           c == ContainerAt(targets, p)
<1>1. /\ s \in Sites /\ rt \in {"docker", "podman"} /\ rt \in RuntimesAt(s)
      /\ j \in DOMAIN Listing[s][rt]
      /\ m = 0 => c.name = Listing[s][rt][j].name /\ c.id = Listing[s][rt][j].id
      /\ m # 0 => /\ rt = "docker" /\ i \in InnerHosts(s, j)
                  /\ c.name = Listing[s]["docker"][j].inner[i].name
                  /\ c.id = Listing[s]["docker"][j].inner[i].id
  BY DEF Row
<1>2. Itself(p) = <<rt, j, i>>
  BY DEF Itself
<1>3. j \in Nat
  <2> DEFINE raw == Listing[s][rt]
  <2>1. raw \in Seq(Listed)
    BY <1>1, WorldAssumption
  <2>2. j \in DOMAIN raw
    BY <1>1
  <2> HIDE DEF raw, j
  <2> QED BY <2>1, <2>2, LenProperties
<1>4. /\ m = 0 => i = 0
      /\ m # 0 => i \in DOMAIN Listing[s]["docker"][j].inner /\ i \in Nat /\ i # 0
  <2>1. m = 0 => i = 0
    OBVIOUS
  <2>2. ASSUME m # 0
        PROVE  i \in DOMAIN Listing[s]["docker"][j].inner /\ i \in Nat /\ i # 0
    <3>1. i \in DOMAIN Listing[s]["docker"][j].inner
      BY <1>1, <2>2 DEF InnerHosts
    <3>2. j \in DOMAIN Listing[s]["docker"]
      BY <1>1, <2>2
    <3> HIDE DEF i, j, s
    <3>3. /\ Len(Listing[s]["docker"][j].inner) \in Nat
          /\ DOMAIN Listing[s]["docker"][j].inner = 1 .. Len(Listing[s]["docker"][j].inner)
      BY <1>1, <3>2, InnerOrdered
    <3> QED BY <3>1, <3>3
  <2> QED BY <2>1, <2>2
<1> HIDE DEF s, r, m, rt, j, i, c
<1>5. <<rt, j, i>> \in Everything(s)
  BY <1>1, <1>3, <1>4 DEF Everything
<1>6. What(s, <<rt, j, i>>).name = c.name /\ What(s, <<rt, j, i>>).id = c.id
  BY <1>1, <1>4 DEF What
<1> QED BY <1>2, <1>5, <1>6 DEF s, c

(* No container has two rows.                                              *)
LEMMA ItselfOnce ==
  ASSUME RuntimesOnce, DetectInv, ReportInv, main = "returned", NEW p, Row(p), NEW q, Row(q),
         q[1] = p[1], Itself(p) = Itself(q)
  PROVE  p = q
<1> DEFINE s == p[1]
           m == p[4]
           l == q[4]
           rt == targets[s].runtimes[p[2]].type
           j == ReadingOf(s, p[2]).from[p[3]]
           g == InnerOrder(s, j)
           M == Len(Listing[s]["docker"][j].inner)
<1>1. /\ targets[q[1]].runtimes[q[2]].type = rt
      /\ ReadingOf(q[1], q[2]).from[q[3]] = j
  BY DEF Itself
<1>2. q[2] = p[2] /\ q[3] = p[3]
  BY <1>1, RowsOnce
<1>3. p = <<s, p[2], p[3], m>> /\ q = <<s, p[2], p[3], l>>
  BY <1>2 DEF Row
<1>4. (IF m # 0 THEN g[m] ELSE 0) = IF l # 0 THEN g[l] ELSE 0
  BY <1>2 DEF Itself
<1>5. /\ s \in Sites
      /\ m # 0 => rt = "docker" /\ m \in 1 .. M /\ j \in DOMAIN Listing[s][rt]
      /\ l # 0 => rt = "docker" /\ l \in 1 .. M /\ j \in DOMAIN Listing[s][rt]
  BY <1>2 DEF Row
<1>6. m # 0 \/ l # 0 => M \in Nat /\ g \in Bijection(1 .. M, 1 .. M)
  <2>1. m # 0 \/ l # 0 => j \in DOMAIN Listing[s]["docker"]
    BY <1>5
  <2> HIDE DEF j, s, m, l
  <2> QED BY <1>5, <2>1, InnerOrdered
<1> HIDE DEF s, m, l, rt, j, g, M
<1>7. m # 0 \/ l # 0 => /\ \A x \in 1 .. M : g[x] \in 1 .. M
                        /\ \A x, y \in 1 .. M : g[x] = g[y] => x = y
  BY <1>6 DEF Bijection, Injection, IsInjective
<1>8. m = l
  BY <1>4, <1>5, <1>6, <1>7
<1> QED BY <1>3, <1>8

(* Provided no runtime of a PC is configured twice, and the containers of  *)
(* a machine can be told apart at all, none is listed as a host twice.     *)
THEOREM OneRowEach == RuntimesOnce /\ ContainersApart => (Spec => []OneRowPerHost)
<1> SUFFICES ASSUME RuntimesOnce, ContainersApart PROVE Spec => []OneRowPerHost
  OBVIOUS
<1>1. ASSUME DetectInv, ReportInv PROVE OneRowPerHost
  <2> SUFFICES ASSUME main = "returned", NEW p \in HostPositions(targets),
                      NEW q \in HostPositions(targets), HostKey(p) = HostKey(q)
               PROVE  p = q
    BY DEF OneRowPerHost
  <2>1. Row(p) /\ Row(q)
    BY <1>1, HostsAreRows
  <2>2. /\ q[1] = p[1] /\ p[1] \in Sites
        /\ ContainerAt(targets, p).name = ContainerAt(targets, q).name
        /\ ContainerAt(targets, p).id = ContainerAt(targets, q).id
    BY <2>1 DEF HostKey, Row
  <2>3. Itself(p) = Itself(q)
    BY <2>1, <2>2, RowShows DEF ContainersApart
  <2> QED BY <1>1, <2>1, <2>2, <2>3, ItselfOnce
<1>2. DetectInv /\ ReportInv => OneRowPerHost
  BY <1>1
<1> QED BY <1>2, ReportInvariant, PTL

---------------------------------------------------------------------------
(* A report without failures. *)

(* A complete reading sees every host inside.                              *)
LEMMA AllSeen ==
  ASSUME NEW s, NEW rt \in {"docker", "podman"}, NEW j \in DOMAIN Listing[s][rt]
  PROVE  /\ HostSeen(s, Probed(s, rt), j) <=> rt = "docker" /\ InnerHosts(s, j) # {}
         /\ ~Demoted(s, rt, j) <=> ~(Listing[s][rt][j].wrapper /\ HostSeen(s, Probed(s, rt), j))
<1>1. HostSeen(s, Probed(s, rt), j) <=> rt = "docker" /\ InnerHosts(s, j) # {}
  BY DEF HostSeen, Probed, InnerHosts
<1> QED BY <1>1 DEF Demoted

(* When nothing failed, the targets with ssh were probed.                  *)
LEMMA AllProbed ==
  ASSUME SSHInstalled, DetectInv, ReportInv, main = "returned", Trusty, NEW i \in HasSSH
  PROVE  targets[i].status = "probed"
<1>1. i \in PCs /\ i \in Sites
  BY FlagAssumption, SizeAssumption DEF PCs, Sites
<1>2. PCInv(i) /\ at[i] = "done" /\ SlotOK(i)
  BY <1>1 DEF DetectInv, Phase, ReportInv
<1>3. targets[i].status # "empty"
  BY <1>2 DEF PCInv, Verdict
<1>4. targets[i].status \in {"empty", "probed", "skipped", "cancelled"}
  BY <1>1 DEF DetectInv, Shape
<1> QED BY <1>2, <1>3, <1>4 DEF SlotOK

(* And each of their runtimes answered, with all it had.                   *)
LEMMA AllRead ==
  ASSUME SSHInstalled, DetectInv, ReportInv, main = "returned", Trusty,
         NEW s \in Sites, s = 0 \/ s \in HasSSH
  PROVE  /\ \A rt \in RuntimesAt(s) : \E r \in DOMAIN targets[s].runtimes :
              targets[s].runtimes[r].type = rt
         /\ \A r \in DOMAIN targets[s].runtimes :
              targets[s].runtimes[r].type \in RuntimesAt(s) =>
                /\ targets[s].runtimes[r].available
                /\ GoodReading(s, r, ReadingOf(s, r))
                /\ ReadingOf(s, r).size = Len(Listing[s][targets[s].runtimes[r].type])
                /\ ReadingOf(s, r).seen = Probed(s, targets[s].runtimes[r].type)
         /\ s # 0 => \A r \in DOMAIN targets[s].runtimes : targets[s].runtimes[r].type \in RuntimesAt(s)
<1>1. ASSUME NEW r \in DOMAIN targets[s].runtimes, targets[s].runtimes[r].type \in RuntimesAt(s)
      PROVE  /\ targets[s].runtimes[r].available
             /\ GoodReading(s, r, ReadingOf(s, r))
             /\ ReadingOf(s, r).size = Len(Listing[s][targets[s].runtimes[r].type])
             /\ ReadingOf(s, r).seen = Probed(s, targets[s].runtimes[r].type)
  <2>1. targets[s].runtimes[r].available
    BY <1>1, ReportsMade DEF Made
  <2>2. GoodReading(s, r, ReadingOf(s, r))
    BY ReadingIsGood
  <2> QED BY <2>1, <2>2 DEF GoodReading
<1>2. CASE s = 0
  <2> DEFINE rs == targets[0].runtimes
  <2>1. LocalReport(rs, Trusty)
    BY DEF ReportInv, LocalOK
  <2> HIDE DEF rs
  <2>2. DOMAIN rs = 1 .. 2 /\ rs[1].type = "docker" /\ rs[2].type = "podman"
    BY <2>1 DEF LocalReport, IsSeq
  <2>3. \A rt \in RuntimesAt(0) : rt = "docker" \/ rt = "podman"
    BY SitesFinite, <1>2
  <2>4. \A rt \in RuntimesAt(0) : \E r \in DOMAIN rs : rs[r].type = rt
    BY <2>2, <2>3
  <2> QED BY <1>1, <1>2, <2>4 DEF rs
<1>3. CASE s # 0
  <2>1. s \in PCs /\ targets[s].status = "probed"
    BY <1>3, AllProbed, FlagAssumption
  <2>2. PCInv(s) /\ at[s] = "done"
    BY <2>1 DEF DetectInv, Phase
  <2>3. [r \in DOMAIN targets[s].runtimes |-> targets[s].runtimes[r].type] = Runtimes[s]
    BY <2>1, <2>2 DEF PCInv, Verdict
  <2>4. RuntimesAt(s) = {targets[s].runtimes[r].type : r \in DOMAIN targets[s].runtimes}
    BY <1>3, <2>3 DEF RuntimesAt
  <2> QED BY <1>1, <2>4
<1> QED BY <1>2, <1>3

(* A complete list is a rearrangement of what runs there.                  *)
LEMMA ListRead ==
  ASSUME SSHInstalled, DetectInv, ReportInv, main = "returned", Trusty,
         NEW s \in Sites, s = 0 \/ s \in HasSSH, NEW r \in DOMAIN targets[s].runtimes,
         NEW rt, rt = targets[s].runtimes[r].type, rt \in RuntimesAt(s)
  PROVE  LET rep == targets[s].runtimes[r]
             n == Len(Listing[s][rt])
             b == ReadingOf(s, r).from
         IN  /\ rep.available /\ n \in Nat /\ DOMAIN Listing[s][rt] = 1 .. n
             /\ DOMAIN rep.containers = 1 .. n /\ Len(rep.containers) = n
             /\ \A k \in 1 .. n : /\ b[k] \in 1 .. n
                                  /\ rep.containers[k] = Entry(s, rt, Probed(s, rt), b[k])
             /\ \A j \in 1 .. n : \E k \in 1 .. n : b[k] = j
             /\ \A p, q \in 1 .. n : p < q => InOrder(rep.containers[p], rep.containers[q])
<1> DEFINE rep == targets[s].runtimes[r]
           n == Len(Listing[s][rt])
           b == ReadingOf(s, r).from
<1>1. rt \in {"docker", "podman"}
  BY SitesFinite
<1>2. n \in Nat /\ DOMAIN Listing[s][rt] = 1 .. n
  <2> DEFINE raw == Listing[s][rt]
  <2>1. raw \in Seq(Listed)
    BY <1>1, WorldAssumption
  <2> HIDE DEF raw
  <2>2. Len(raw) \in Nat /\ DOMAIN raw = 1 .. Len(raw)
    BY <2>1, LenProperties
  <2> QED BY <2>2 DEF raw
<1>3. /\ rep.available /\ GoodReading(s, r, ReadingOf(s, r)) /\ ReadingOf(s, r).size = n
      /\ ReadingOf(s, r).seen = Probed(s, rt)
  BY AllRead
<1>4. ReadsAs(s, rep, Probed(s, rt), n, b)
  BY <1>3 DEF GoodReading
<1> HIDE DEF n, b
<1>5. /\ b \in Bijection(1 .. n, 1 .. n)
      /\ rep.containers = [k \in 1 .. n |-> Entry(s, rt, Probed(s, rt), b[k])]
      /\ \A p, q \in 1 .. n :
           p < q => InOrder(Entry(s, rt, Probed(s, rt), b[p]), Entry(s, rt, Probed(s, rt), b[q]))
  BY <1>4 DEF ReadsAs
<1>6. /\ \A k \in 1 .. n : b[k] \in 1 .. n
      /\ \A j \in 1 .. n : \E k \in 1 .. n : b[k] = j
  BY <1>5 DEF Bijection, Injection, Surjection
<1>7. DOMAIN rep.containers = 1 .. n /\ Len(rep.containers) = n
  BY <1>2, <1>5
<1>8. \A k \in 1 .. n : rep.containers[k] = Entry(s, rt, Probed(s, rt), b[k])
  BY <1>5
<1>9. \A k \in 1 .. n : b[k] \in 1 .. n /\ rep.containers[k] = Entry(s, rt, Probed(s, rt), b[k])
  BY <1>6, <1>8
<1>10. \A p, q \in 1 .. n : p < q => InOrder(rep.containers[p], rep.containers[q])
  BY <1>5, <1>8
<1> HIDE DEF rep
<1> QED BY <1>2, <1>3, <1>6, <1>7, <1>9, <1>10, Zenon DEF n, b, rep

(* The report of a runtime says exactly what runs there.                   *)
LEMMA TellsTheTruth ==
  ASSUME SSHInstalled, DetectInv, ReportInv, main = "returned", Trusty,
         NEW s \in HasSSH, NEW r \in DOMAIN targets[s].runtimes
  PROVE  SameAsListed(s, r)
<1> DEFINE rep == targets[s].runtimes[r]
           rt == rep.type
           raw == Listing[s][rt]
           n == Len(raw)
           b == ReadingOf(s, r).from
           S == Probed(s, rt)
<1>1. s \in Sites /\ s # 0
  BY FlagAssumption, SizeAssumption DEF PCs, Sites
<1>2. rt \in RuntimesAt(s) /\ rt \in {"docker", "podman"}
  BY <1>1, AllRead, SitesFinite
<1>3. /\ rep.available /\ n \in Nat /\ DOMAIN raw = 1 .. n
      /\ DOMAIN rep.containers = 1 .. n /\ Len(rep.containers) = n
      /\ \A k \in 1 .. n : /\ b[k] \in 1 .. n
                           /\ rep.containers[k] = Entry(s, rt, S, b[k])
      /\ \A j \in 1 .. n : \E k \in 1 .. n : b[k] = j
      /\ \A p, q \in 1 .. n : p < q => InOrder(rep.containers[p], rep.containers[q])
  BY <1>1, <1>2, ListRead
<1> HIDE DEF n, b, S
<1>4. ASSUME NEW k \in DOMAIN raw
      PROVE  \E q \in DOMAIN rep.containers :
               LET c == rep.containers[q]
               IN  /\ c.name = raw[k].name /\ c.id = raw[k].id
                   /\ c.matched = (raw[k].name \in Accepts[s] /\ ~Demoted(s, rt, k))
                   /\ rt = "docker" => HasNestedMatch(c) = (InnerHosts(s, k) # {})
  <2>1. PICK q \in 1 .. n : b[q] = k
    BY <1>3
  <2> DEFINE c == rep.containers[q]
  <2>2. c = Entry(s, rt, S, k) /\ q \in DOMAIN rep.containers
    BY <1>3, <2>1
  <2>3. /\ HostSeen(s, S, k) <=> rt = "docker" /\ InnerHosts(s, k) # {}
        /\ ~Demoted(s, rt, k) <=> ~(raw[k].wrapper /\ HostSeen(s, S, k))
    BY <1>2, AllSeen DEF S
  <2>4. HasNestedMatch(Entry(s, rt, S, k)) <=> HostSeen(s, S, k)
    BY <1>1, <1>2, EntryMatches DEF S
  <2> HIDE DEF rt, c
  <2>5. /\ c.name = raw[k].name /\ c.id = raw[k].id
        /\ c.matched = (raw[k].name \in Accepts[s] /\ ~(raw[k].wrapper /\ HostSeen(s, S, k)))
    BY <2>2 DEF Entry
  <2>6. HasNestedMatch(c) <=> HostSeen(s, S, k)
    BY <2>2, <2>4
  <2>7. c.matched = (raw[k].name \in Accepts[s] /\ ~Demoted(s, rt, k))
    BY <2>3, <2>5
  <2>8. rt = "docker" => HasNestedMatch(c) = (InnerHosts(s, k) # {})
    BY <2>3, <2>6 DEF HasNestedMatch
  <2> QED BY <2>2, <2>5, <2>7, <2>8 DEF c
<1>5. \A p, q \in DOMAIN rep.containers : p < q => InOrder(rep.containers[p], rep.containers[q])
  BY <1>3
<1>6. rep.available /\ Len(rep.containers) = Len(raw)
  BY <1>3 DEF n
<1> QED BY <1>4, <1>5, <1>6 DEF SameAsListed, InOrder

(* Every host has its row.                                                 *)
LEMMA HostsCovered ==
  ASSUME SSHInstalled, HasSSH = PCs, DetectInv, ReportInv, main = "returned", Trusty,
         NEW h \in TrueHosts
  PROVE  \E p \in HostPositions(targets) : Origin(p) = h
<1>0. \A s \in Sites : s = 0 \/ s \in HasSSH
  BY SizeAssumption DEF PCs, Sites
<1>1. PICK s, rt, j, i :
        /\ s \in Sites /\ rt \in {"docker", "podman"}
        /\ h = <<s, rt, j, i>> /\ rt \in RuntimesAt(s) /\ j \in DOMAIN Listing[s][rt]
        /\ \/ i = 0 /\ Listing[s][rt][j].name \in Accepts[s] /\ ~Demoted(s, rt, j)
           \/ rt = "docker" /\ i \in InnerHosts(s, j)
  BY SitesFinite DEF TrueHosts, OuterHosts
<1>2. PICK r \in DOMAIN targets[s].runtimes : rt = targets[s].runtimes[r].type
  BY <1>0, <1>1, AllRead
<1> DEFINE rep == targets[s].runtimes[r]
           n == Len(Listing[s][rt])
           b == ReadingOf(s, r).from
           S == Probed(s, rt)
           e == Entry(s, rt, S, j)
           raw == Listing[s][rt][j]
<1>3. /\ DOMAIN Listing[s][rt] = 1 .. n /\ DOMAIN rep.containers = 1 .. n
      /\ \A k \in 1 .. n : rep.containers[k] = Entry(s, rt, S, b[k])
      /\ \A x \in 1 .. n : \E k \in 1 .. n : b[k] = x
  <2>1. s \in Sites /\ (s = 0 \/ s \in HasSSH) /\ rt \in RuntimesAt(s)
    BY <1>0, <1>1
  <2>2. /\ DOMAIN Listing[s][rt] = 1 .. n /\ DOMAIN rep.containers = 1 .. n
        /\ \A k \in 1 .. n : b[k] \in 1 .. n /\ rep.containers[k] = Entry(s, rt, S, b[k])
        /\ \A x \in 1 .. n : \E k \in 1 .. n : b[k] = x
    BY <1>2, <2>1, ListRead
  <2> HIDE DEF n, b, S, rep
  <2> QED BY <2>2
<1> HIDE DEF n, S
<1>4. PICK k \in 1 .. n : b[k] = j /\ rep.containers[k] = e
  BY <1>1, <1>3
<1>5. /\ j \notin S => e.nested = <<>> /\ Len(e.nested) = 0
      /\ j \in S => /\ Len(Listing[s]["docker"][j].inner) \in Nat
                    /\ Len(e.nested) = Len(Listing[s]["docker"][j].inner)
                    /\ \A m \in 1 .. Len(Listing[s]["docker"][j].inner) :
                         e.nested[m] = ParseNested(s, j)[InnerOrder(s, j)[m]]
  BY <1>1, EntryInside DEF S
<1>6. Len(e.nested) \in Nat
  BY <1>5
<1>7. DOMAIN targets = Sites
  BY DEF DetectInv, Shape
<1>8. ASSUME NEW m \in 0 .. Len(e.nested) PROVE <<s, r, k, m>> \in Positions(targets)
  <2>1. /\ s \in DOMAIN targets /\ r \in DOMAIN targets[s].runtimes
        /\ k \in DOMAIN targets[s].runtimes[r].containers
        /\ m \in 0 .. Len(targets[s].runtimes[r].containers[k].nested)
    BY <1>1, <1>3, <1>4, <1>7
  <2> HIDE DEF e, rep
  <2> QED BY <2>1 DEF Positions
<1>9. \A m : ContainerAt(targets, <<s, r, k, m>>) = IF m = 0 THEN e ELSE e.nested[m]
  <2> HIDE DEF e
  <2> QED BY <1>4 DEF ContainerAt
<1>10. CASE i = 0 /\ Listing[s][rt][j].name \in Accepts[s] /\ ~Demoted(s, rt, j)
  <2> DEFINE p == <<s, r, k, 0>>
  <2>1. ~(raw.wrapper /\ HostSeen(s, S, j))
    BY <1>1, <1>10, AllSeen DEF S
  <2>2. e.matched
    BY <1>10, <2>1 DEF Entry
  <2>3. Origin(p) = <<s, rt, j, 0>>
    BY <1>2, <1>4, <1>10 DEF Origin
  <2> HIDE DEF e
  <2>4. p \in HostPositions(targets)
    BY <1>6, <1>8, <1>9, <2>2 DEF HostPositions
  <2> QED BY <1>1, <1>10, <2>3, <2>4
<1>11. CASE rt = "docker" /\ i \in InnerHosts(s, j)
  <2> DEFINE inner == Listing[s]["docker"][j].inner
             M == Len(inner)
             g == InnerOrder(s, j)
  <2>1. j \in S
    BY <1>1, <1>11 DEF Probed, InnerHosts, S
  <2>2. M \in Nat /\ DOMAIN inner = 1 .. M /\ g \in Bijection(1 .. M, 1 .. M)
    BY <1>1, <1>11, InnerOrdered
  <2>3. i \in 1 .. M /\ inner[i].name \in Accepts[s]
    BY <1>11, <2>2 DEF InnerHosts
  <2> HIDE DEF M, g, inner
  <2>4. PICK m \in 1 .. M : g[m] = i
    BY <2>2, <2>3 DEF Bijection, Surjection
  <2> DEFINE p == <<s, r, k, m>>
  <2>5. e.nested[m] = ParseNested(s, j)[i] /\ Len(e.nested) = M
    BY <1>5, <2>1, <2>4 DEF M, g, inner
  <2>6. ParseNested(s, j)[i].matched
    BY <2>2, <2>3 DEF ParseNested, Match, inner
  <2>7. Origin(p) = <<s, rt, j, i>>
    <3>1. m # 0
      BY <2>2
    <3> QED BY <1>2, <1>4, <2>4, <3>1 DEF Origin, g
  <2> HIDE DEF e
  <2>8. ContainerAt(targets, p) = e.nested[m] /\ p \in Positions(targets)
    BY <1>8, <1>9, <2>2, <2>5
  <2>9. p \in HostPositions(targets)
    BY <2>5, <2>6, <2>8 DEF HostPositions
  <2> QED BY <1>1, <2>7, <2>9
<1> QED BY <1>1, <1>10, <1>11

(* When no command fails, ssh is there and no runtime is configured twice, *)
(* a report says exactly what runs on the machines and counts exactly the  *)
(* hosts there are, in whatever order the nested probes came back.         *)
THEOREM TruthIsTold == SSHInstalled /\ RuntimesOnce => (Spec => []ReportIsTruth)
<1> SUFFICES ASSUME SSHInstalled, RuntimesOnce PROVE Spec => []ReportIsTruth
  OBVIOUS
<1>1. ASSUME DetectInv, ReportInv PROVE ReportIsTruth
  <2> SUFFICES ASSUME main = "returned", ~ctxDone, reliable
               PROVE  /\ \A i \in HasSSH : targets[i].status = "probed"
                      /\ \A i \in HasSSH : \A r \in DOMAIN targets[i].runtimes : SameAsListed(i, r)
                      /\ HasSSH = PCs => summary.counts.nosanaHosts = Cardinality(TrueHosts)
    BY DEF ReportIsTruth
  <2>1. Trusty
    BY DEF Trusty
  <2>2. \A i \in HasSSH : targets[i].status = "probed"
    BY <1>1, <2>1, AllProbed
  <2>3. \A i \in HasSSH : \A r \in DOMAIN targets[i].runtimes : SameAsListed(i, r)
    BY <1>1, <2>1, TellsTheTruth
  <2>4. ASSUME HasSSH = PCs PROVE summary.counts.nosanaHosts = Cardinality(TrueHosts)
    <3> DEFINE H == HostPositions(targets)
               f == [p \in H |-> Origin(p)]
    <3>1. f \in Injection(H, TrueHosts)
      BY <1>1, HostsInjected
    <3>2. \A h \in TrueHosts : \E p \in H : f[p] = h
      BY <1>1, <2>1, <2>4, HostsCovered
    <3>3. summary.counts.nosanaHosts = Cardinality(H)
      BY <1>1, SummaryCounts
    <3> HIDE DEF f, H
    <3>4. f \in Surjection(H, TrueHosts)
      BY <3>1, <3>2 DEF Injection, Surjection
    <3>5. Cardinality(H) = Cardinality(TrueHosts)
      BY <3>1, <3>4, TrueHostsFinite, FS_Injection
    <3> QED BY <3>3, <3>5
  <2> QED BY <2>2, <2>3, <2>4
<1>2. DetectInv /\ ReportInv => ReportIsTruth
  BY <1>1
<1> QED BY <1>2, ReportInvariant, PTL

---------------------------------------------------------------------------
(* The views of a report. *)

(* A target has finitely many reports.                                     *)
LEMMA ReportsFinite ==
  ASSUME DetectInv, ReportInv, main = "returned", NEW s \in Sites
  PROVE  IsFiniteSet(DOMAIN targets[s].runtimes)
<1>1. CASE s = 0
  <2> DEFINE rs == targets[0].runtimes
  <2>1. LocalReport(rs, Trusty)
    BY DEF ReportInv, LocalOK
  <2> HIDE DEF rs
  <2>2. DOMAIN rs = 1 .. 2
    BY <2>1 DEF LocalReport, IsSeq
  <2>3. IsFiniteSet(1 .. 2)
    <3>1. 1 \in Int /\ 2 \in Int
      OBVIOUS
    <3> QED BY <3>1, FS_Interval
  <2> QED BY <1>1, <2>2, <2>3 DEF rs
<1>2. CASE s # 0
  <2>1. s \in PCs
    BY <1>2, SizeAssumption DEF Sites, PCs
  <2>2. PCInv(s) /\ at[s] = "done" /\ SlotOK(s)
    BY <2>1 DEF DetectInv, Phase, ReportInv
  <2>3. CASE targets[s].status = "probed"
    <3>1. DOMAIN targets[s].runtimes = DOMAIN Runtimes[s]
      <4>1. [r \in DOMAIN targets[s].runtimes |-> targets[s].runtimes[r].type] = Runtimes[s]
        BY <2>2, <2>3 DEF PCInv, Verdict
      <4> QED BY <4>1
    <3>2. Runtimes[s] \in Seq({"docker", "podman"})
      BY <2>1, WorldAssumption
    <3>3. DOMAIN Runtimes[s] = 1 .. Len(Runtimes[s]) /\ Len(Runtimes[s]) \in Nat
      BY <3>2, LenProperties
    <3> QED BY <3>1, <3>3, FS_Interval
  <2>4. CASE targets[s].status # "probed"
    <3>1. DOMAIN targets[s].runtimes = {}
      BY <2>2, <2>4 DEF SlotOK
    <3> QED BY <3>1, FS_EmptySet
  <2> QED BY <2>3, <2>4
<1> QED BY <1>1, <1>2

(* A report has finitely many containers, with finitely many inside.       *)
LEMMA ContainersFinite ==
  ASSUME DetectInv, ReportInv, main = "returned", NEW s \in Sites,
         NEW r \in DOMAIN targets[s].runtimes
  PROVE  LET rep == targets[s].runtimes[r]
         IN  /\ IsFiniteSet(DOMAIN rep.containers)
             /\ \A k \in DOMAIN rep.containers : Len(rep.containers[k].nested) \in Nat
<1> DEFINE rep == targets[s].runtimes[r]
           x == ReadingOf(s, r)
<1>1. ReadsAs(s, rep, x.seen, x.size, x.from)
  BY ReadingIsGood DEF GoodReading
<1>2. rep.type \in {"docker", "podman"}
  BY ReportsMade DEF Made
<1> HIDE DEF rep, x
<1>3. /\ x.size \in Nat /\ DOMAIN rep.containers = 1 .. x.size
      /\ x.seen \in SUBSET Probed(s, rep.type)
  BY <1>1 DEF ReadsAs
<1>4. ASSUME NEW k \in DOMAIN rep.containers
      PROVE  Len(rep.containers[k].nested) \in Nat
  <2> DEFINE j == x.from[k]
             e == Entry(s, rep.type, x.seen, j)
  <2>1. j \in DOMAIN Listing[s][rep.type] /\ rep.containers[k] = e
    BY <1>1, PlaceOf
  <2> HIDE DEF j
  <2>2. /\ j \notin x.seen => Len(e.nested) = 0
        /\ j \in x.seen => /\ Len(Listing[s]["docker"][j].inner) \in Nat
                           /\ Len(e.nested) = Len(Listing[s]["docker"][j].inner)
    BY <1>2, <1>3, <2>1, EntryInside
  <2> HIDE DEF e
  <2> QED BY <2>1, <2>2
<1> QED BY <1>3, <1>4, FS_Interval DEF rep

(* A report has finitely many hosts.                                       *)
LEMMA HostPositionsFinite ==
  ASSUME DetectInv, ReportInv, main = "returned"
  PROVE  IsFiniteSet(HostPositions(targets))
<1> DEFINE Within(t, r, k) == {<<t, r, k, n>> : n \in 0 .. Len(targets[t].runtimes[r].containers[k].nested)}
           InReport(t, r) == UNION {Within(t, r, k) : k \in DOMAIN targets[t].runtimes[r].containers}
           InTarget(t) == UNION {InReport(t, r) : r \in DOMAIN targets[t].runtimes}
<1>1. ASSUME NEW t \in Sites PROVE IsFiniteSet(InTarget(t))
  <2>1. ASSUME NEW r \in DOMAIN targets[t].runtimes PROVE IsFiniteSet(InReport(t, r))
    <3> DEFINE K == DOMAIN targets[t].runtimes[r].containers
               c == [k \in K |-> Within(t, r, k)]
    <3>1. ASSUME NEW k \in K PROVE IsFiniteSet(c[k])
      <4> DEFINE m == Len(targets[t].runtimes[r].containers[k].nested)
                 V == 0 .. m
                 d == [n \in V |-> <<t, r, k, n>>]
      <4>1. m \in Nat
        BY ContainersFinite
      <4>2. c[k] = {d[n] : n \in V}
        OBVIOUS
      <4>3. IsFiniteSet(V)
        <5> HIDE DEF m
        <5> QED BY <4>1, FS_Interval
      <4> HIDE DEF d, c, V
      <4>4. IsFiniteSet({d[n] : n \in V})
        BY <4>3, ImageFinite
      <4> QED BY <4>2, <4>4
    <3>2. InReport(t, r) = UNION {c[k] : k \in K}
      <4>1. \A k \in K : c[k] = Within(t, r, k)
        OBVIOUS
      <4> HIDE DEF c, Within
      <4> QED BY <4>1
    <3>3. IsFiniteSet(K)
      BY ContainersFinite
    <3> HIDE DEF c, K, InReport
    <3> QED BY <3>1, <3>2, <3>3, UnionFinite
  <2> DEFINE c == [r \in DOMAIN targets[t].runtimes |-> InReport(t, r)]
  <2>2. InTarget(t) = UNION {c[r] : r \in DOMAIN targets[t].runtimes}
    <3>1. \A r \in DOMAIN targets[t].runtimes : c[r] = InReport(t, r)
      OBVIOUS
    <3> HIDE DEF c, InReport
    <3> QED BY <3>1
  <2>3. \A r \in DOMAIN targets[t].runtimes : IsFiniteSet(c[r])
    BY <2>1
  <2> HIDE DEF c, InTarget
  <2> QED BY <2>2, <2>3, ReportsFinite, UnionFinite
<1> DEFINE c == [t \in Sites |-> InTarget(t)]
<1>2. Positions(targets) = UNION {c[t] : t \in Sites}
  <2>1. DOMAIN targets = Sites
    BY DEF DetectInv, Shape
  <2>2. Positions(targets) = UNION {InTarget(t) : t \in Sites}
    BY <2>1 DEF Positions
  <2>3. \A t \in Sites : c[t] = InTarget(t)
    OBVIOUS
  <2> HIDE DEF c, InTarget
  <2> QED BY <2>2, <2>3
<1>3. \A t \in Sites : IsFiniteSet(c[t])
  BY <1>1
<1> HIDE DEF c
<1>4. IsFiniteSet(Positions(targets))
  BY <1>2, <1>3, SitesFinite, UnionFinite
<1>5. HostPositions(targets) \subseteq Positions(targets)
  BY DEF HostPositions
<1> QED BY <1>4, <1>5, FS_Subset

(* No two targets have the same address. *)
AddressesApart == \A s, t \in Sites : Address[s] = Address[t] => s = t

(* A target that was not probed has no rows.                               *)
LEMMA SkippedHasNone ==
  ASSUME DetectInv, ReportInv, main = "returned", NEW p, Row(p)
  PROVE  ~Skipped(p[1])
<1> DEFINE s == p[1]
<1>1. s \in Sites /\ p[2] \in DOMAIN targets[s].runtimes
  BY DEF Row
<1>2. CASE s = 0
  BY <1>2 DEF ReportInv, LocalOK, Skipped
<1>3. CASE s # 0
  <2>1. s \in PCs
    BY <1>1, <1>3, SizeAssumption DEF Sites, PCs
  <2>2. targets[s].status # "probed" => targets[s].runtimes = <<>>
    BY <2>1 DEF ReportInv, SlotOK
  <2> QED BY <1>1, <2>2 DEF Skipped
<1> QED BY <1>2, <1>3

(* All views of a report show the same hosts, those the summary counts,    *)
(* and a LAN candidate is dimmed just when none of them is at its address. *)
THEOREM ViewsShowTheSame == AddressesApart => (Spec => []ViewsAgree)
<1> SUFFICES ASSUME AddressesApart PROVE Spec => []ViewsAgree
  OBVIOUS
<1>1. ASSUME DetectInv, ReportInv, main = "returned"
      PROVE  /\ FleetRows = ListedRows
             /\ FleetRows = UNION {CardRows(s) : s \in Cards}
             /\ Cardinality(FleetRows) = summary.counts.nosanaHosts
             /\ \A s \in Cards : HostCount(s) = Cardinality(CardRows(s))
             /\ \A ip \in {Address[s] : s \in Sites} \cup {0} :
                  Dimmed(ip) <=> ~\E p \in FleetRows : Address[p[1]] = ip
  <2> DEFINE H == HostPositions(targets)
             At(s) == {p \in H : p[1] = s}
  <2>1. ASSUME NEW p \in H
        PROVE  /\ p[1] \in Sites /\ p[2] \in VisibleRuntimes(targets[p[1]]) /\ ~Skipped(p[1])
               /\ targets[p[1]].runtimes[p[2]].available
    <3>1. Row(p)
      BY <1>1, HostsAreRows
    <3>2. ~Skipped(p[1])
      BY <1>1, <3>1, SkippedHasNone
    <3> QED BY <3>1, <3>2 DEF Row, VisibleRuntimes
  <2>2. FleetRows = H
    BY <2>1 DEF FleetRows
  <2>3. ListedRows = H
    BY <2>1 DEF ListedRows
  <2>4. ASSUME NEW s \in Sites PROVE CardRows(s) = At(s)
    <3> HIDE DEF H
    <3>1. CardRows(s) = IF Skipped(s) THEN {}
                        ELSE {p \in H : /\ p[1] = s /\ p[2] \in VisibleRuntimes(targets[s])
                                        /\ targets[s].runtimes[p[2]].available}
      BY DEF CardRows, H
    <3>2. \A p \in H : p[1] = s => /\ p[2] \in VisibleRuntimes(targets[s]) /\ ~Skipped(s)
                                   /\ targets[s].runtimes[p[2]].available
      BY <2>1
    <3> QED BY <3>1, <3>2
  <2>5. Cards = Sites
    <3>1. {s \in Sites : s = 0} = {0}
      BY SizeAssumption DEF Sites
    <3> QED BY <3>1 DEF Cards
  <2>6. \A s \in Sites : HostCount(s) = Cardinality(At(s))
    BY DEF HostCount
  <2>7. FleetRows = UNION {CardRows(s) : s \in Cards}
    <3> HIDE DEF H
    <3>1. H = UNION {At(s) : s \in Sites}
      BY <2>1
    <3> HIDE DEF At
    <3> QED BY <2>2, <2>4, <2>5, <3>1
  <2>8. Cardinality(FleetRows) = summary.counts.nosanaHosts
    BY <1>1, <2>2, SummaryCounts
  <2>9. ASSUME NEW ip PROVE Dimmed(ip) <=> ~\E p \in FleetRows : Address[p[1]] = ip
    <3> DEFINE here == {s \in Sites : Address[s] = ip}
               first == CHOOSE s \in here : \A t \in here : s <= t
    <3>1. Dimmed(ip) <=> here = {} \/ Skipped(first) \/ HostCount(first) = 0
      BY DEF Dimmed
    <3> HIDE DEF H
    <3>2. CASE here = {}
      BY <2>1, <2>2, <3>1, <3>2
    <3>3. CASE here # {}
      <4>1. PICK s \in Sites : Address[s] = ip
        BY <3>3
      <4>2. here = {s}
        BY <4>1 DEF AddressesApart
      <4>3. first = s
        <5>1. s \in Int
          BY <4>1, SizeAssumption DEF Sites
        <5>2. s <= s
          BY <5>1
        <5> QED BY <4>2, <5>2
      <4> HIDE DEF first, here, At
      <4>4. HostCount(s) = 0 <=> At(s) = {}
        <5>1. IsFiniteSet(At(s))
          BY <1>1, HostPositionsFinite, FS_Subset DEF At, H
        <5> QED BY <2>6, <5>1, FS_EmptySet
      <4>5. Skipped(s) => At(s) = {}
        BY <2>1 DEF At
      <4>6. At(s) = {} <=> ~\E p \in H : Address[p[1]] = ip
        BY <2>1, <4>1 DEF At, AddressesApart
      <4> QED BY <2>2, <3>1, <3>3, <4>3, <4>4, <4>5, <4>6
    <3> QED BY <3>2, <3>3
  <2> QED BY <2>2, <2>3, <2>4, <2>5, <2>6, <2>7, <2>8, <2>9
<1>2. DetectInv /\ ReportInv => ViewsAgree
  BY <1>1 DEF ViewsAgree
<1> QED BY <1>2, ReportInvariant, PTL
=============================================================================
