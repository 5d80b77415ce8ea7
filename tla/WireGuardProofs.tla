-------------------------- MODULE WireGuardProofs --------------------------
(***************************************************************************)
(* What the plan says of glwg0 rests on what the machine has been like     *)
(* during the pass, for every set of commands and interfaces and any       *)
(* number of changes; and the doctor agrees with the plan.                 *)
(***************************************************************************)
EXTENDS WireGuard, TLAPS

(* A machine whose glwg0 wg has no chance to list. *)
Unlistable(m) == "wg" \notin m.has \/ m.glwg0 # "wireguard"

(* Each conclusion has a witness in the past: the moment of the read that   *)
(* led to it, or else that read has failed.                                 *)
Evidence ==
  /\ machine \in Machine /\ machine \in past
  /\ exists \in BOOLEAN
  /\ step \notin {"dependencies", "list"} /\ "glwg0" \notin listed =>
       listError \/ \E m \in past : Unlistable(m)
  /\ step \notin {"read", "done"} => ~probeFailed
  /\ probeFailed => listError \/ \E m \in past : Unlistable(m)
  /\ step \in {"read", "done"} /\ ~exists => probeFailed \/ \E m \in past : m.glwg0 = "none"
  /\ step = "done" /\ ownership = "absent" => ~exists /\ \E m \in past : m.conf = "missing"
  /\ step = "done" /\ ownership = "gridlens-owned" => \E m \in past : m.conf = "marked"

(* What others do adds to the past and takes nothing from it. *)
LEMMA ChangeKeepsEvidence ==
  ASSUME Evidence, Change
  PROVE  Evidence'
<1>1. machine' \in Machine
  <2>1. CASE \E c \in Commands \ machine.has : machine' = [machine EXCEPT !.has = @ \cup {c}]
    BY <2>1 DEF Evidence, Machine
  <2>2. CASE \E kind \in {"none", "wireguard", "otherkind"} :
               machine' = [machine EXCEPT !.glwg0 = kind]
    BY <2>2 DEF Evidence, Machine
  <2>3. CASE \E conf \in {"missing", "marked", "unmarked", "unreadable"} :
               machine' = [machine EXCEPT !.conf = conf]
    BY <2>3 DEF Evidence, Machine
  <2>4. CASE \E names \in SUBSET Others : machine' = [machine EXCEPT !.others = names]
    BY <2>4 DEF Evidence, Machine
  <2>5. CASE \E names \in SUBSET ToSet(Candidates) :
               machine' = [machine EXCEPT !.managers = names]
    BY <2>5 DEF Evidence, Machine
  <2> QED BY <2>1, <2>2, <2>3, <2>4, <2>5 DEF Change
<1>2. past \subseteq past' /\ machine' \in past'
  BY DEF Change
<1>3. UNCHANGED <<step, listed, listError, exists, probeFailed, ownership>>
  BY DEF Change
<1> QED BY <1>1, <1>2, <1>3 DEF Evidence

(* The last read: whatever it concludes of the file, the file was so. *)
LEMMA ReadConfigKeepsEvidence ==
  ASSUME Evidence, ReadConfig
  PROVE  Evidence'
<1>1. UNCHANGED <<machine, past, listed, listError, exists, probeFailed>> /\ step = "read" /\ step' = "done"
  BY DEF ReadConfig, world
<1>2. ownership' = Classify(machine.conf)
  BY DEF ReadConfig
<1>3. machine.conf \in {"missing", "marked", "unmarked", "unreadable"}
  BY DEF Evidence, Machine
<1>4. ownership' = "absent" => machine.conf = "missing" /\ ~exists
  BY <1>2, <1>3 DEF Classify, Evidence
<1>5. ownership' = "gridlens-owned" => machine.conf = "marked"
  BY <1>2, <1>3 DEF Classify, Evidence
<1> QED BY <1>1, <1>4, <1>5 DEF Evidence

(* Evidence holds of every reachable state. *)
LEMMA EvidenceInvariant == Spec => []Evidence
<1>1. Init => Evidence
  BY DEF Init, Evidence
<1>2. Evidence /\ [Next]_vars => Evidence'
  <2> SUFFICES ASSUME Evidence, [Next]_vars PROVE Evidence'
    OBVIOUS
  <2>1. CASE DetectDependencies
    BY <2>1 DEF DetectDependencies, Evidence, world
  <2>2. CASE ExistingInterfaces
    <3>1. /\ step' = "system" /\ machine \in past
          /\ UNCHANGED <<machine, past, exists, probeFailed>>
          /\ machine.glwg0 \in {"none", "wireguard", "otherkind"}
      BY <2>2 DEF ExistingInterfaces, world, Evidence, Machine
    <3>2. "glwg0" \notin listed' => listError' \/ Unlistable(machine)
      <4>1. CASE "wg" \in machine.has
        BY <2>2, <4>1 DEF ExistingInterfaces, Listing, Unlistable
      <4>2. CASE "wg" \notin machine.has
        BY <4>2 DEF Unlistable
      <4> QED BY <4>1, <4>2
    <3>3. step = "list" /\ ~probeFailed
      BY <2>2 DEF ExistingInterfaces, Evidence
    <3> QED BY <3>1, <3>2, <3>3 DEF Evidence
  <2>3. CASE DetectSystem
    BY <2>3 DEF DetectSystem, Evidence, world
  <2>4. CASE ProbeInterface
    <3>1. /\ UNCHANGED <<machine, past, listed, listError>> /\ step = "probe" /\ step' = "read"
          /\ machine \in past
      BY <2>4 DEF ProbeInterface, world, Evidence
    <3>2. exists' \in BOOLEAN /\ (~exists' => probeFailed' \/ machine.glwg0 = "none")
      BY <2>4 DEF ProbeInterface, InterfaceExists
    <3>3. probeFailed' => probeFailed \/ "glwg0" \notin listed
      BY <2>4 DEF ProbeInterface
    <3> QED BY <3>1, <3>2, <3>3 DEF Evidence
  <2>5. CASE ReadConfig
    BY <2>5, ReadConfigKeepsEvidence
  <2>6. CASE Change
    BY <2>6, ChangeKeepsEvidence
  <2>7. CASE UNCHANGED vars
    BY <2>7 DEF vars, Evidence
  <2> QED BY <2>1, <2>2, <2>3, <2>4, <2>5, <2>6, <2>7 DEF Next, Done
<1> QED BY <1>1, <1>2, PTL DEF Spec

(* What InspectInterfaceOwnership may answer, whatever it reads. *)
LEMMA ClassifyType ==
  ASSUME NEW conf \in {"missing", "marked", "unmarked", "unreadable"}, exists \in BOOLEAN
  PROVE  Classify(conf) \in {"absent", "gridlens-owned", "exists-without-gridlens-marker",
                            "exists-without-gridlens-config", "unknown-read-error",
                            "config-without-gridlens-marker", "absent-config-unreadable"}
BY DEF Classify

(* Every variable keeps its type, and a listing that failed (discovery.go:   *)
(* 36-41) leaves no names behind.                                            *)
THEOREM TypeCorrect == Spec => []TypeOK
<1>1. Init => TypeOK
  <2> SUFFICES ASSUME Init PROVE TypeOK
    OBVIOUS
  <2>1. machine \in Machine /\ past \subseteq Machine
    BY DEF Init
  <2>2. changes \in 0 .. MaxChanges
    BY WireGuardAssumption DEF Init
  <2>3. listError => listed = {}
    BY DEF Init
  <2>4. osKnown \in BOOLEAN /\ exists \in BOOLEAN /\ probeFailed \in BOOLEAN
        /\ manager \in ToSet(Candidates) \cup {"none"}
    BY Zenon DEF Init
  <2> QED BY <2>1, <2>2, <2>3, <2>4 DEF Init, TypeOK
<1>2. TypeOK /\ Evidence /\ [Next]_vars => TypeOK'
  <2> SUFFICES ASSUME TypeOK, Evidence, [Next]_vars PROVE TypeOK'
    OBVIOUS
  <2>1. CASE DetectDependencies
    BY <2>1 DEF DetectDependencies, TypeOK, world, Machine
  <2>2. CASE ExistingInterfaces
    <3>1. step' = "system" /\ UNCHANGED <<machine, past, changes, found, osKnown, manager, exists, probeFailed, ownership>>
      BY <2>2 DEF ExistingInterfaces, world
    <3>2. machine.others \subseteq Others
      BY DEF TypeOK, Machine
    <3>3. \A ok \in BOOLEAN : Listing(ok) \subseteq Others \cup {"glwg0"} /\ (~ok => Listing(ok) = {})
      BY <3>2 DEF Listing
    <3>4. listed' \subseteq Others \cup {"glwg0"} /\ (listError' => listed' = {})
      BY <2>2, <3>3 DEF ExistingInterfaces, TypeOK
    <3> QED BY <3>1, <3>4 DEF TypeOK
  <2>3. CASE DetectSystem
    <3>1. osKnown' \in BOOLEAN
      BY <2>3 DEF DetectSystem, SupportedFamily
    <3>2. manager' \in ToSet(Candidates) \cup {"none"}
      BY <2>3 DEF DetectSystem, DetectPackageManager, ToSet
    <3> QED BY <2>3, <3>1, <3>2 DEF DetectSystem, TypeOK, world
  <2>4. CASE ProbeInterface
    <3>1. exists' \in BOOLEAN /\ probeFailed' \in BOOLEAN
      BY <2>4 DEF ProbeInterface, InterfaceExists, TypeOK
    <3> QED BY <2>4, <3>1 DEF ProbeInterface, TypeOK, world
  <2>5. CASE ReadConfig
    <3>1. machine.conf \in {"missing", "marked", "unmarked", "unreadable"} /\ exists \in BOOLEAN
      BY DEF TypeOK, Machine
    <3>2. ownership' = Classify(machine.conf)
      BY <2>5 DEF ReadConfig
    <3> QED BY <2>5, <3>1, <3>2, ClassifyType DEF ReadConfig, TypeOK, world
  <2>6. CASE Change
    <3>1. machine' \in Machine
      BY <2>6, ChangeKeepsEvidence DEF Evidence
    <3>2. changes' \in 0 .. MaxChanges
      BY <2>6, WireGuardAssumption DEF Change, TypeOK
    <3>3. past' \subseteq Machine
      BY <2>6, <3>1 DEF Change, TypeOK
    <3> QED BY <2>6, <3>1, <3>2, <3>3 DEF Change, TypeOK
  <2>7. CASE UNCHANGED vars
    BY <2>7 DEF vars, TypeOK
  <2> QED BY <2>1, <2>2, <2>3, <2>4, <2>5, <2>6, <2>7 DEF Next, Done
<1> QED BY <1>1, <1>2, EvidenceInvariant, PTL DEF Spec

(* setup.go:78-83 and discovery.go:97-100: glwg0 is planned only if during  *)
(* the pass its config file was missing and it was itself free, each at     *)
(* some moment, or both looks for it had a reason to miss it.               *)
THEOREM CreatesOnlyIfFree == Spec => []CreateOnlyIfFree
<1>1. Evidence => CreateOnlyIfFree
  BY DEF Evidence, CreateOnlyIfFree, PlannedActions, Unseen, Unlistable
<1> QED BY <1>1, EvidenceInvariant, PTL

(* setup.go:72-77: GridLens takes glwg0 for its own only on the evidence of *)
(* the marker.                                                              *)
THEOREM OwnsOnlyIfMarked == Spec => []OwnedOnlyIfMarked
<1>1. Evidence => OwnedOnlyIfMarked
  BY DEF Evidence, OwnedOnlyIfMarked, PlannedActions
<1> QED BY <1>1, EvidenceInvariant, PTL

(* doctor.go:184-195 and setup.go:61-90: whatever was read, the doctor      *)
(* fails exactly where the setup would refuse or ask for packages.          *)
THEOREM DoctorAndSetupAgree == Spec => []DoctorAgreesWithSetup
<1>1. DoctorAgreesWithSetup
  <2>1. AggregateStatus = "fail" <=> \E k \in DOMAIN Checks : Checks[k] = "fail"
    BY DEF AggregateStatus
  <2>2. DOMAIN Checks = 1 .. 7
    BY DEF Checks
  <2>3. /\ Checks[1] # "fail" /\ Checks[2] # "fail" /\ Checks[4] # "fail"
        /\ Checks[5] # "fail" /\ Checks[7] # "fail"
    BY DEF Checks, CheckExisting
  <2>4. Checks[3] = "fail" <=> MissingRequired # {}
    BY DEF Checks
  <2>5. Checks[6] = "fail" <=> ownership \notin {"absent", "gridlens-owned"}
    BY DEF Checks, CheckOwnership
  <2>6. AggregateStatus = "fail" <=> MissingRequired # {} \/ ownership \notin {"absent", "gridlens-owned"}
    BY <2>1, <2>2, <2>3, <2>4, <2>5
  <2>7. "prompt-install-dependencies" \in PlannedActions <=> MissingRequired # {}
    BY DEF PlannedActions
  <2>8. "refuse-unowned-gridlens-interface" \in PlannedActions <=>
          ownership \notin {"absent", "gridlens-owned"}
    BY DEF PlannedActions
  <2> QED BY <2>6, <2>7, <2>8 DEF DoctorAgreesWithSetup
<1> QED BY <1>1, PTL

---------------------------------------------------------------------------
(* A machine that keeps still. *)

(* What has been read so far is what the machine is like. *)
ReadRight ==
  /\ step # "dependencies" => found = machine.has
  /\ "glwg0" \in listed => machine.glwg0 # "none"
  /\ step \in {"probe", "read", "done"} =>
       (manager = "apt-get" <=> "apt-get" \in machine.managers)
  /\ step \notin {"read", "done"} => ~probeFailed
  /\ step \in {"read", "done"} => (exists <=> machine.glwg0 # "none" /\ ~probeFailed)
  /\ step = "done" => ownership = Classify(machine.conf)

StillInv == past = {machine} => ReadRight

(* apt-get comes first, so it is the one that is taken where it is there.   *)
LEMMA AptGetFirst ==
  ASSUME DetectPackageManager
  PROVE  manager' = "apt-get" <=> "apt-get" \in machine.managers
<1>1. CASE machine.managers = {} /\ manager' = "none"
  BY <1>1
<1>2. ASSUME NEW k \in DOMAIN Candidates, Candidates[k] \in machine.managers,
             \A j \in 1 .. k - 1 : Candidates[j] \notin machine.managers,
             manager' = Candidates[k]
      PROVE  manager' = "apt-get" <=> "apt-get" \in machine.managers
  <2>1. k \in Nat /\ k >= 1 /\ Candidates[1] = "apt-get"
    BY WireGuardAssumption
  <2>2. CASE k = 1
    BY <1>2, <2>1, <2>2
  <2>3. CASE k > 1
    <3>1. 1 \in 1 .. k - 1
      BY <2>1, <2>3
    <3> QED BY <1>2, <2>1, <3>1
  <2> QED BY <2>1, <2>2, <2>3
<1> QED BY <1>1, <1>2 DEF DetectPackageManager

(* A change of the machine ends its keeping still. *)
LEMMA ChangeIsSeen ==
  ASSUME Evidence, Change, past' = {machine'}
  PROVE  machine' = machine /\ past = {machine}
<1>1. machine \in past /\ past' = past \cup {machine'}
  BY DEF Evidence, Change
<1> QED BY <1>1

(* The invariant of a machine that stays as it is. *)
LEMMA StillInvariant == Spec => []StillInv
<1>1. Init => StillInv
  BY DEF Init, StillInv, ReadRight
<1>2. StillInv /\ Evidence /\ TypeOK /\ [Next]_vars => StillInv'
  <2> SUFFICES ASSUME StillInv, Evidence, TypeOK, [Next]_vars, past' = {machine'}
               PROVE  ReadRight'
    BY DEF StillInv
  <2>1. CASE DetectDependencies
    <3>1. ReadRight
      BY <2>1 DEF DetectDependencies, world, StillInv
    <3> QED BY <2>1, <3>1 DEF DetectDependencies, world, ReadRight
  <2>2. CASE ExistingInterfaces
    <3>1. ReadRight
      BY <2>2 DEF ExistingInterfaces, world, StillInv
    <3>2. /\ step = "list" /\ step' = "system"
          /\ UNCHANGED <<machine, past, changes, found, osKnown, manager, exists, probeFailed, ownership>>
      BY <2>2 DEF ExistingInterfaces, world
    <3>3. \A ok \in BOOLEAN : "glwg0" \in Listing(ok) => machine.glwg0 # "none"
      BY WireGuardAssumption DEF Listing, TypeOK, Machine
    <3>4. "glwg0" \in listed' => machine.glwg0 # "none"
      BY <2>2, <3>1, <3>3 DEF ExistingInterfaces, ReadRight
    <3> QED BY <3>1, <3>2, <3>4 DEF ReadRight
  <2>3. CASE DetectSystem
    <3>1. ReadRight
      BY <2>3 DEF DetectSystem, world, StillInv
    <3>2. manager' = "apt-get" <=> "apt-get" \in machine.managers
      BY <2>3, AptGetFirst DEF DetectSystem
    <3> QED BY <2>3, <3>1, <3>2 DEF DetectSystem, world, ReadRight
  <2>4. CASE ProbeInterface
    <3>1. ReadRight
      BY <2>4 DEF ProbeInterface, world, StillInv
    <3>2. exists' <=> machine.glwg0 # "none" /\ ~probeFailed'
      <4>1. CASE "glwg0" \in listed
        BY <2>4, <3>1, <4>1 DEF ProbeInterface, ReadRight
      <4>2. CASE "glwg0" \notin listed
        BY <2>4, <4>2 DEF ProbeInterface, InterfaceExists
      <4> QED BY <4>1, <4>2
    <3> QED BY <2>4, <3>1, <3>2 DEF ProbeInterface, world, ReadRight
  <2>5. CASE ReadConfig
    <3>1. ReadRight
      BY <2>5 DEF ReadConfig, world, StillInv
    <3>2. Classify(machine.conf)' = Classify(machine.conf)
      BY <2>5 DEF ReadConfig, world, Classify
    <3> QED BY <2>5, <3>1, <3>2 DEF ReadConfig, world, ReadRight
  <2>6. CASE Change
    <3>1. machine' = machine /\ ReadRight
      BY <2>6, ChangeIsSeen DEF StillInv
    <3>2. UNCHANGED <<step, found, listed, listError, osKnown, manager, exists, probeFailed, ownership>>
      BY <2>6 DEF Change
    <3> QED BY <3>1, <3>2 DEF ReadRight, Classify
  <2>7. CASE UNCHANGED vars
    BY <2>7 DEF vars, StillInv, ReadRight, Classify
  <2> QED BY <2>1, <2>2, <2>3, <2>4, <2>5, <2>6, <2>7 DEF Next, Done
<1> QED BY <1>1, <1>2, EvidenceInvariant, TypeCorrect, PTL DEF Spec

(* On a machine that keeps still during the pass the plan is right about    *)
(* it: BuildSetupWireGuardPlan (setup.go:40-90) of what Discover reads.     *)
THEOREM StillMachineIsPlannedRight == Spec => []StillMachineIsRight
<1>1. StillInv /\ Evidence /\ TypeOK => StillMachineIsRight
  <2> SUFFICES ASSUME StillInv, Evidence, TypeOK, step = "done", past = {machine}
               PROVE  /\ "inspect-gridlens-interface" \in PlannedActions <=> machine.conf = "marked"
                      /\ "create-gridlens-interface-later" \in PlannedActions <=>
                           machine.conf = "missing" /\ (machine.glwg0 = "none" \/ Unseen)
                      /\ "prompt-install-dependencies" \in PlannedActions <=> machine.has # Commands
                      /\ InstallOffered <=> machine.has # Commands /\ "apt-get" \in machine.managers
    BY Zenon DEF StillMachineIsRight
  <2>1. ReadRight
    BY DEF StillInv
  <2>2. machine.has \subseteq Commands
        /\ machine.conf \in {"missing", "marked", "unmarked", "unreadable"}
    BY DEF TypeOK, Machine
  <2>3. found = machine.has /\ ownership = Classify(machine.conf)
        /\ (exists <=> machine.glwg0 # "none" /\ ~probeFailed)
        /\ (manager = "apt-get" <=> "apt-get" \in machine.managers)
    BY <2>1 DEF ReadRight
  <2>4. MissingRequired # {} <=> machine.has # Commands
    BY <2>2, <2>3 DEF MissingRequired
  <2>5. /\ ownership = "gridlens-owned" <=> machine.conf = "marked"
        /\ ownership = "absent" <=> machine.conf = "missing" /\ ~exists
    <3>1. CASE exists
      BY <2>2, <2>3, <3>1 DEF Classify
    <3>2. CASE ~exists
      BY <2>2, <2>3, <3>2 DEF Classify
    <3> QED BY <3>1, <3>2
  <2>6. /\ "inspect-gridlens-interface" \in PlannedActions <=> ownership = "gridlens-owned"
        /\ "create-gridlens-interface-later" \in PlannedActions <=> ownership = "absent"
        /\ "prompt-install-dependencies" \in PlannedActions <=> MissingRequired # {}
    BY DEF PlannedActions
  <2>7. Unseen <=> probeFailed
    BY DEF Unseen, Evidence, Unlistable
  <2>8. ~exists <=> machine.glwg0 = "none" \/ Unseen
    BY <2>3, <2>7
  <2> QED BY <2>3, <2>4, <2>5, <2>6, <2>8 DEF InstallOffered
<1> QED BY <1>1, StillInvariant, EvidenceInvariant, TypeCorrect, PTL
=============================================================================
