----------------------------- MODULE WireGuard -----------------------------
(***************************************************************************)
(* gridlens setup wireguard and gridlens doctor wireguard: one discovery   *)
(* pass (Discover in internal/cli/root.go) reads the machine in several    *)
(* steps, between which the administrator or other software may change it, *)
(* and the plan (setup.go) and the health report (doctor.go) are made of   *)
(* what it has read.  Nothing is written.                                  *)
(*                                                                         *)
(* "glwg0" is the interface GridLens would like to have; every other       *)
(* WireGuard interface is somebody else's.                                 *)
(***************************************************************************)
EXTENDS FiniteSets, Integers, SequencesExt

CONSTANTS
  Commands,   \* the commands GridLens requires; "wg" is one of them
  Others,     \* names other WireGuard interfaces may have
  Candidates, \* the package managers GridLens knows, in its order
  MaxChanges  \* how often the machine changes during a pass

ASSUME WireGuardAssumption ==
  /\ "wg" \in Commands
  /\ "glwg0" \notin Others
  /\ Candidates \in Seq(STRING) /\ Candidates # <<>>
  /\ Candidates[1] = "apt-get" /\ "none" \notin ToSet(Candidates)
  /\ MaxChanges \in Nat

(* What the machine is like: the commands it has; the other WireGuard      *)
(* interfaces; glwg0, which may also be an interface of another kind; its  *)
(* config file; the ID and the words of ID_LIKE in its os-release, if it   *)
(* has that file; the package managers it has.                             *)
Machine == [has       : SUBSET Commands,
            others    : SUBSET Others,
            glwg0     : {"none", "wireguard", "otherkind"},
            conf      : {"missing", "marked", "unmarked", "unreadable"},
            release   : {"debian", "likeDebian", "other", "missing"},
            managers  : SUBSET ToSet(Candidates)]

VARIABLES
  machine,   \* the machine as it is
  past,      \* history: what it has been like since the pass began
  changes,   \* how often it has changed
  step,      \* where the pass is
  found,     \* discovery.Dependencies: the commands found
  listed,    \* discovery.ExistingWireGuardInterfaces
  listError, \* discovery.WireGuardDiscoveryError is set
  osKnown,   \* discovery.OS.Supported
  manager,   \* discovery.PackageManager, or "none"
  exists,    \* GridLensInterface.Exists
  probeFailed, \* history: the look at the kernel ended in an error
  ownership  \* GridLensInterface.OwnershipStatus

vars == <<machine, past, changes, step, found, listed, listError, osKnown, manager,
          exists, probeFailed, ownership>>

world == <<machine, past, changes>>

Init == /\ machine \in Machine
        /\ past = {machine}
        /\ changes = 0
        /\ step = "dependencies"
        /\ found = {} /\ listed = {} /\ listError = FALSE
        /\ osKnown = FALSE /\ manager = "none"
        /\ exists = FALSE /\ probeFailed = FALSE /\ ownership = "absent"

---------------------------------------------------------------------------
(* The pass.                                                               *)

DetectDependencies ==
  /\ step = "dependencies"
  /\ found' = machine.has
  /\ step' = "list"
  /\ UNCHANGED <<world, listed, listError, osKnown, manager, exists, probeFailed, ownership>>

(* wg show interfaces lists WireGuard's own. *)
Listing(ok) ==
  IF ok THEN machine.others \cup (IF machine.glwg0 = "wireguard" THEN {"glwg0"} ELSE {})
        ELSE {}

ExistingInterfaces ==
  /\ step = "list"
  /\ IF "wg" \in machine.has
     THEN \E ok \in BOOLEAN : listed' = Listing(ok) /\ listError' = ~ok
     ELSE UNCHANGED <<listed, listError>>
  /\ step' = "system"
  /\ UNCHANGED <<world, found, osKnown, manager, exists, probeFailed, ownership>>

(* supportedFamily: debian or ubuntu, as itself or among what it is like. *)
SupportedFamily == machine.release \in {"debian", "likeDebian"}

(* The first candidate that is there. *)
DetectPackageManager ==
  \/ \E k \in DOMAIN Candidates :
       /\ Candidates[k] \in machine.managers
       /\ \A j \in 1 .. k - 1 : Candidates[j] \notin machine.managers
       /\ manager' = Candidates[k]
  \/ machine.managers = {} /\ manager' = "none"

DetectSystem ==
  /\ step = "system"
  /\ osKnown' = SupportedFamily
  /\ DetectPackageManager
  /\ step' = "probe"
  /\ UNCHANGED <<world, found, listed, listError, exists, probeFailed, ownership>>

(* Mutant of InterfaceExists: the kernel is not asked. *)
InterfaceNeverExists(ok) == FALSE

(* interfaceExists: an interface the kernel knows under that name, of any   *)
(* kind; but every error of the look, and it may fail, reads as none.       *)
InterfaceExists(ok) == ok /\ machine.glwg0 # "none"

(* The kernel is asked only for what the list does not have. *)
ProbeInterface ==
  /\ step = "probe"
  /\ IF "glwg0" \in listed
     THEN exists' = TRUE /\ UNCHANGED probeFailed
     ELSE \E ok \in BOOLEAN : exists' = InterfaceExists(ok) /\ probeFailed' = ~ok
  /\ step' = "read"
  /\ UNCHANGED <<world, found, listed, listError, osKnown, manager, ownership>>

(* Mutant of Classify: a file that cannot be read is taken for none. *)
ClassifyUnreadable(conf) ==
  CASE conf = "marked"                           -> "gridlens-owned"
    [] conf = "unmarked" /\ exists               -> "exists-without-gridlens-marker"
    [] conf = "unmarked" /\ ~exists              -> "config-without-gridlens-marker"
    [] conf \in {"missing", "unreadable"} /\ exists  -> "exists-without-gridlens-config"
    [] conf \in {"missing", "unreadable"} /\ ~exists -> "absent"

(* Mutant of Classify: an interface with a config is taken for GridLens'. *)
ClassifyByFile(conf) ==
  CASE conf \in {"marked", "unmarked"}  -> "gridlens-owned"
    [] conf = "missing" /\ exists       -> "exists-without-gridlens-config"
    [] conf = "missing" /\ ~exists      -> "absent"
    [] conf = "unreadable" /\ exists    -> "unknown-read-error"
    [] conf = "unreadable" /\ ~exists   -> "absent-config-unreadable"

(* InspectInterfaceOwnership: what the file says, whatever its interface. *)
Classify(conf) ==
  CASE conf = "marked"                  -> "gridlens-owned"
    [] conf = "unmarked" /\ exists      -> "exists-without-gridlens-marker"
    [] conf = "unmarked" /\ ~exists     -> "config-without-gridlens-marker"
    [] conf = "missing" /\ exists       -> "exists-without-gridlens-config"
    [] conf = "missing" /\ ~exists      -> "absent"
    [] conf = "unreadable" /\ exists    -> "unknown-read-error"
    [] conf = "unreadable" /\ ~exists   -> "absent-config-unreadable"

ReadConfig ==
  /\ step = "read"
  /\ ownership' = Classify(machine.conf)
  /\ step' = "done"
  /\ UNCHANGED <<world, found, listed, listError, osKnown, manager, exists, probeFailed>>

(* Commands are installed, interfaces come and go, the file is written.  *)
Change ==
  /\ step # "done" /\ changes < MaxChanges
  /\ changes' = changes + 1
  /\ \/ \E c \in Commands \ machine.has : machine' = [machine EXCEPT !.has = @ \cup {c}]
     \/ \E kind \in {"none", "wireguard", "otherkind"} : machine' = [machine EXCEPT !.glwg0 = kind]
     \/ \E conf \in {"missing", "marked", "unmarked", "unreadable"} :
          machine' = [machine EXCEPT !.conf = conf]
     \/ \E names \in SUBSET Others : machine' = [machine EXCEPT !.others = names]
     \/ \E names \in SUBSET ToSet(Candidates) : machine' = [machine EXCEPT !.managers = names]
  /\ past' = past \cup {machine'}
  /\ UNCHANGED <<step, found, listed, listError, osKnown, manager, exists, probeFailed, ownership>>

Done == step = "done" /\ UNCHANGED vars

Next == \/ DetectDependencies \/ ExistingInterfaces \/ DetectSystem
        \/ ProbeInterface \/ ReadConfig
        \/ Change \/ Done

Spec == Init /\ [][Next]_vars

---------------------------------------------------------------------------
(* What the two commands make of a discovery.                              *)

MissingRequired == Commands \ found

(* The planned actions of BuildSetupWireGuardPlan. *)
PlannedActions ==
  (IF MissingRequired = {} THEN {} ELSE {"prompt-install-dependencies"}) \cup
  {CASE ownership = "gridlens-owned" -> "inspect-gridlens-interface"
     [] ownership = "absent"         -> "create-gridlens-interface-later"
     [] OTHER                        -> "refuse-unowned-gridlens-interface"}

(* The prompt shows a command only for apt-get, and always the same one. *)
InstallOffered == MissingRequired # {} /\ manager = "apt-get"

CheckExisting == IF listError \/ listed # {} THEN "warn" ELSE "pass"

CheckOwnership == IF ownership \in {"absent", "gridlens-owned"} THEN "pass" ELSE "fail"

(* The statuses of the checks of BuildWireGuardDoctorReport, in their order *)
(* but for the dependencies, of which there is one each.                    *)
Checks == <<IF osKnown THEN "pass" ELSE "warn",
            IF manager # "none" THEN "pass" ELSE "warn",
            IF MissingRequired = {} THEN "pass" ELSE "fail",
            CheckExisting, "pass", CheckOwnership, "pass">>

(* Mutant of AggregateStatus: a warning that follows wins over a failure. *)
AggregateLast ==
  LET bad == {k \in DOMAIN Checks : Checks[k] # "pass"}
  IN  IF bad = {} THEN "pass" ELSE Checks[CHOOSE k \in bad : \A j \in bad : j <= k]

AggregateStatus ==
  IF \E k \in DOMAIN Checks : Checks[k] = "fail" THEN "fail"
  ELSE IF \E k \in DOMAIN Checks : Checks[k] = "warn" THEN "warn"
  ELSE "pass"

---------------------------------------------------------------------------
(* Properties.                                                             *)

(* Every variable has its type, and a listing that failed leaves no names. *)
TypeOK ==
  /\ machine \in Machine /\ past \subseteq Machine /\ changes \in 0 .. MaxChanges
  /\ step \in {"dependencies", "list", "system", "probe", "read", "done"}
  /\ found \subseteq Commands /\ listed \subseteq Others \cup {"glwg0"}
  /\ listError => listed = {}
  /\ osKnown \in BOOLEAN /\ manager \in ToSet(Candidates) \cup {"none"} /\ exists \in BOOLEAN
  /\ probeFailed \in BOOLEAN
  /\ ownership \in {"absent", "gridlens-owned", "exists-without-gridlens-marker",
                   "exists-without-gridlens-config", "unknown-read-error",
                   "config-without-gridlens-marker", "absent-config-unreadable"}

(* Both looks for glwg0 have missed it for a reason: the kernel could not   *)
(* be asked, and wg failed, or was not there, or had no such interface of   *)
(* its own to list.                                                         *)
Unseen ==
  probeFailed /\ (listError \/ \E m \in past : "wg" \notin m.has \/ m.glwg0 # "wireguard")

(* WIREGUARD_PRIVATE_REMOTE_MODE.md:17 and setup.go:81: GridLens plans to   *)
(* create glwg0 only if during the pass there was a time without its config *)
(* file and a time without such an interface, however the machine changed   *)
(* in between, also if the file cannot be read; and that a read fails hides *)
(* an interface only if the other one could not see it either.              *)
CreateOnlyIfFree ==
  step = "done" /\ "create-gridlens-interface-later" \in PlannedActions =>
    /\ \E m \in past : m.conf = "missing"
    /\ Unseen \/ \E m \in past : m.glwg0 = "none"

(* setup.go:50: GridLens treats glwg0 as its own only on the evidence of    *)
(* the ownership marker.                                                    *)
OwnedOnlyIfMarked ==
  step = "done" /\ "inspect-gridlens-interface" \in PlannedActions =>
    \E m \in past : m.conf = "marked"

(* On a machine that keeps still the plan is right about it, with or        *)
(* without a wg command that works, and for interfaces of every kind, but   *)
(* for one that neither look could see; and REQUIREMENTS.md:20-27, an       *)
(* install command is shown just where a command is missing and there is    *)
(* apt-get, whatever other managers there are.                              *)
StillMachineIsRight ==
  step = "done" /\ past = {machine} =>
    /\ "inspect-gridlens-interface" \in PlannedActions <=> machine.conf = "marked"
    /\ "create-gridlens-interface-later" \in PlannedActions <=>
         machine.conf = "missing" /\ (machine.glwg0 = "none" \/ Unseen)
    /\ "prompt-install-dependencies" \in PlannedActions <=> machine.has # Commands
    /\ InstallOffered <=> machine.has # Commands /\ "apt-get" \in machine.managers

(* The doctor fails exactly where the setup would refuse glwg0 or ask for   *)
(* packages: the two never give a user different advice.                    *)
DoctorAgreesWithSetup ==
  step = "done" =>
    (AggregateStatus = "fail" <=>
       PlannedActions \cap {"prompt-install-dependencies", "refuse-unowned-gridlens-interface"} # {})
=============================================================================
