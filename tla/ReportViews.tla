----------------------------- MODULE ReportViews -----------------------------
(***************************************************************************)
(* The four places that show one report to the user: the fleet table, the  *)
(* targets and the LAN candidates of the monitor (app.js), and the listing *)
(* of gridlens nosana detect (cli/nosana.go).  Each walks through the      *)
(* report by its own rules of what to leave out.                           *)
(*                                                                         *)
(* Views are functions of Detect's targets; a row is the position, in the  *)
(* sense of Report, of what it shows.                                      *)
(***************************************************************************)
EXTENDS Detect

CONSTANT Address  \* Address[s]: the address of target s

ASSUME AddressAssumption == \A s \in Sites : Address[s] \in Nat

---------------------------------------------------------------------------
(* app.js.                                                                 *)

HasNestedPodman(target) ==
  \E r \in DOMAIN target.runtimes :
    /\ target.runtimes[r].type = "docker"
    /\ \E k \in DOMAIN target.runtimes[r].containers : target.runtimes[r].containers[k].nested # <<>>

(* Mutant of VisibleRuntimes: podman is hidden whether it answered or not. *)
VisibleUnlessNested(target) ==
  {r \in DOMAIN target.runtimes : ~(target.runtimes[r].type = "podman" /\ HasNestedPodman(target))}

(* visibleRuntimeReports: a podman that did not answer is not mentioned     *)
(* when podman containers were seen inside docker.                          *)
VisibleRuntimes(target) ==
  {r \in DOMAIN target.runtimes :
     ~(target.runtimes[r].type = "podman" /\ ~target.runtimes[r].available
       /\ HasNestedPodman(target))}

(* collectFleetRows. *)
FleetRows == {p \in HostPositions(targets) : p[2] \in VisibleRuntimes(targets[p[1]])}

(* countHostContainers; unlike the table it walks through all runtimes. *)
HostCount(s) == Cardinality({p \in HostPositions(targets) : p[1] = s})

(* CancelTarget and Skip set target.Skipped. *)
Skipped(s) == targets[s].status \in {"skipped", "cancelled"}

(* sortedTargets: a hub without hosts has its place only if it has none     *)
(* among the sorted targets.                                                *)
Cards ==
  LET local == {s \in Sites : s = 0}
      hosting == {s \in local : HostCount(s) > 0}
  IN  (Sites \ local) \cup (IF hosting = {} THEN local \ hosting ELSE hosting)

(* renderTarget and renderRuntime: the containers a card marks as Nosana;   *)
(* that of a hub without hosts is collapsed, a skipped one has only its     *)
(* reason, and a runtime that did not answer only its error.                *)
CardRows(s) ==
  IF Skipped(s) THEN {}
  ELSE {p \in HostPositions(targets) :
          /\ p[1] = s /\ p[2] \in VisibleRuntimes(targets[s])
          /\ targets[s].runtimes[p[2]].available}

(* candidateStatus: report.targets.find takes the first with the address.   *)
Dimmed(ip) ==
  LET here == {s \in Sites : Address[s] = ip}
      first == CHOOSE s \in here : \A t \in here : s <= t
  IN  here = {} \/ Skipped(first) \/ HostCount(first) = 0

---------------------------------------------------------------------------
(* runNosanaDetect: the lines marked [nosana]. *)
ListedRows ==
  {p \in HostPositions(targets) : ~Skipped(p[1]) /\ targets[p[1]].runtimes[p[2]].available}

---------------------------------------------------------------------------
(* HUB_MONITOR.md:31, 63 and 78: whatever failed while the report was made, *)
(* all views of it show the same hosts: the rows of the fleet table, the    *)
(* marked containers of the monitor's cards and of the command line are     *)
(* those the summary counts; the number on a card is that of its marked     *)
(* containers; and a LAN candidate is dimmed just when no host is shown at  *)
(* its address (here no two targets have the same).                         *)
ViewsAgree ==
  main = "returned" =>
    /\ FleetRows = ListedRows
    /\ FleetRows = UNION {CardRows(s) : s \in Cards}
    /\ Cardinality(FleetRows) = summary.counts.nosanaHosts
    /\ \A s \in Cards : HostCount(s) = Cardinality(CardRows(s))
    /\ \A ip \in {Address[s] : s \in Sites} \cup {0} :
         Dimmed(ip) <=> ~\E p \in FleetRows : Address[p[1]] = ip
=============================================================================
