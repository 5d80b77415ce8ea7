------------------------------- MODULE Monitor -------------------------------
(***************************************************************************)
(* The page of the Hub (internal/hub/static/app.js) in one browser tab,    *)
(* with the Hub it asks and the other clients that change what the Hub     *)
(* would answer.                                                           *)
(*                                                                         *)
(* JavaScript runs a handler to its end or to its first await, so each     *)
(* action is a click, a timer, a browser event or the arrival of an answer *)
(* with everything the code does then.  Several fetches may be under way   *)
(* and are answered in any order, well or with an error.                   *)
(*                                                                         *)
(* The page is one record; handlers are operators from page to page.  Its  *)
(* fields are those of the script's state object, the disabled Refresh     *)
(* button, document.hidden, the open config dialog, the fetches under way, *)
(* what localStorage keeps, and as history the screen lastReport was       *)
(* fetched for and the number of scans nobody asked for.                   *)
(*                                                                         *)
(* What the Hub would report is one version number, which grows with every *)
(* change of the config or of the fleet.  A report and a list of the       *)
(* dialog are the version the Hub read for them.                           *)
(***************************************************************************)
EXTENDS FiniteSets, Integers

CONSTANTS
  OpenHidden,  \* the page may be opened in a background tab
  MaxChanges,  \* bound: changes after this one are not told apart
  MaxLoads,    \* bound on the loads of the dialog under way at once
  MaxReloads   \* bound on reloads

ASSUME MonitorAssumption == /\ OpenHidden \in BOOLEAN
                            /\ MaxChanges \in Nat /\ MaxLoads \in Nat
                            /\ MaxReloads \in Nat

Views == {"monitor", "fleet"}

None == -1  \* no report yet, nothing listed yet, a request not served yet

VARIABLES page,
          version,  \* the Hub: what it would report now
          reloads,
          user      \* bound: who scans or reloads leaves the dialog alone

vars == <<page, version, reloads, user>>

---------------------------------------------------------------------------
(* fetch.  seen is the version the Hub has read for the request; forSave   *)
(* marks the refresh that saveBulkConfig awaits; overtaken says that the   *)
(* list of the dialog was replaced since the request was sent.             *)

Kinds(p, k) == {q \in p.flight : q.kind = k}

Unused(p, kind) ==
  CHOOSE n \in 0 .. Cardinality(Kinds(p, kind)) : \A q \in Kinds(p, kind) : q.n # n

Fetch(p, kind, forSave) ==
  [p EXCEPT !.flight = @ \cup {[n |-> Unused(p, kind), kind |-> kind, seen |-> None,
                                 forSave |-> forSave, overtaken |-> FALSE]}]

(* Mutant of Refresh: a refresh that is under way does not keep the next    *)
(* one from starting.                                                       *)
RefreshAlways(p, forSave) ==
  IF p.view # "monitor" \/ Cardinality(p.flight) > 2 THEN p
  ELSE [Fetch(p, "monitor", forSave) EXCEPT !.monitorLoading = TRUE, !.refreshDisabled = TRUE]

(* refresh and refreshFleet up to their await. *)
Refresh(p, forSave) ==
  IF p.view # "monitor" \/ p.monitorLoading THEN p
  ELSE [Fetch(p, "monitor", forSave) EXCEPT !.monitorLoading = TRUE, !.refreshDisabled = TRUE]

(* Mutant of RefreshFleet: the guard looks at the other screen's flag. *)
RefreshFleetMixedUp(p) ==
  IF p.view # "fleet" \/ p.monitorLoading \/ Cardinality(p.flight) > 2 THEN p
  ELSE [Fetch(p, "fleet", FALSE) EXCEPT !.fleetLoading = TRUE, !.refreshDisabled = TRUE]

RefreshFleet(p) ==
  IF p.view # "fleet" \/ p.fleetLoading THEN p
  ELSE [Fetch(p, "fleet", FALSE) EXCEPT !.fleetLoading = TRUE, !.refreshDisabled = TRUE]

RefreshActiveView(p) == IF p.view = "fleet" THEN RefreshFleet(p) ELSE Refresh(p, FALSE)

(* Mutant of ScanLAN: the attempt is remembered in the page only. *)
ScanLANUnstored(p) ==
  IF p.view # "monitor" \/ p.scanning THEN p
  ELSE [Fetch(p, "scan", FALSE) EXCEPT !.scanning = TRUE, !.scanAttempted = TRUE]

ScanLAN(p) ==
  IF p.view # "monitor" \/ p.scanning THEN p
  ELSE [Fetch(p, "scan", FALSE) EXCEPT !.scanning = TRUE, !.scanAttempted = TRUE,
                                       !.storedAttempt = TRUE]

MaybeInitialLANScan(p) ==
  IF p.scanReport \/ p.scanAttempted \/ p.scanning THEN p
  ELSE [ScanLAN(p) EXCEPT !.autoScans = @ + 1]

(* Mutant of StopPolling: only the timer of the active screen is cleared. *)
StopPollingActive(p) ==
  IF p.view = "monitor" THEN [p EXCEPT !.monitorTimer = FALSE] ELSE [p EXCEPT !.fleetTimer = FALSE]

StopPolling(p) == [p EXCEPT !.monitorTimer = FALSE, !.fleetTimer = FALSE]

ActivateView(p, view) ==
  LET shown == StopPolling([p EXCEPT !.view = view])
  IN  IF view = "monitor"
      THEN [MaybeInitialLANScan(Refresh(shown, FALSE)) EXCEPT !.monitorTimer = TRUE]
      ELSE [RefreshFleet(shown) EXCEPT !.fleetTimer = TRUE]

(* The script runs from the top; view comes from the hash or the storage.  *)
Open(view, hidden, storedAttempt, storedScan, autoScans) ==
  ActivateView([hidden |-> hidden, view |-> view,
                monitorTimer |-> FALSE, fleetTimer |-> FALSE,
                monitorLoading |-> FALSE, fleetLoading |-> FALSE, refreshDisabled |-> FALSE,
                scanning |-> FALSE, savingConfig |-> FALSE,
                dialog |-> FALSE, listed |-> None,
                lastReport |-> None, lastView |-> view, fleetRows |-> None,
                scanReport |-> storedScan, scanAttempted |-> storedAttempt \/ storedScan,
                flight |-> {},
                storedAttempt |-> storedAttempt, storedScan |-> storedScan,
                autoScans |-> autoScans],
               view)

Init == /\ user \in {"scans", "configures"}
        /\ \E view \in Views, known \in IF user = "scans" THEN BOOLEAN ELSE {TRUE} :
             \E hidden \in IF OpenHidden THEN BOOLEAN ELSE {FALSE} :
               page = Open(view, hidden, known, known, 0)
        /\ version = 0
        /\ reloads = 0

others == <<version, reloads, user>>

---------------------------------------------------------------------------
(* What the user and the browser do. *)

(* The buttons of the two screens, or, also behind the dialog, a new hash. *)
ChooseView(view) == ~page.hidden /\ page' = ActivateView(page, view) /\ UNCHANGED others

HideTab == ~page.hidden /\ page' = [StopPolling(page) EXCEPT !.hidden = TRUE] /\ UNCHANGED others

(* Mutant of ShowTab: a page that is shown again is not activated. *)
ShowTabIdle == page.hidden /\ page' = [page EXCEPT !.hidden = FALSE] /\ UNCHANGED others

ShowTab == /\ page.hidden
           /\ page' = ActivateView([page EXCEPT !.hidden = FALSE], page.view)
           /\ UNCHANGED others

(* showModal keeps the clicks from everything behind the dialog. *)
Reachable == ~page.hidden /\ ~page.dialog

(* The button of the header, and the one of the fleet screen, which is      *)
(* never disabled.                                                          *)
ClickRefresh == /\ Reachable
                /\ \/ ~page.refreshDisabled /\ page' = RefreshActiveView(page)
                   \/ page.view = "fleet" /\ page' = RefreshFleet(page)
                /\ UNCHANGED others

ClickScan == user = "scans" /\ Reachable /\ page' = ScanLAN(page) /\ UNCHANGED others

OpenConfig == /\ Reachable
              /\ Cardinality(Kinds(page, "config")) < MaxLoads
              /\ user = "configures"
              /\ page' = [Fetch(page, "config", FALSE) EXCEPT !.dialog = TRUE]
              /\ UNCHANGED others

CloseConfig == /\ ~page.hidden /\ page.dialog
               /\ page' = [page EXCEPT !.dialog = FALSE]
               /\ UNCHANGED others

SubmitConfig == /\ ~page.hidden /\ page.dialog /\ ~page.savingConfig
                /\ page' = [Fetch(page, "save", FALSE) EXCEPT !.savingConfig = TRUE]
                /\ UNCHANGED others

(* The page is reloaded: its fetches are dropped, the hash and the storage *)
(* stay.                                                                   *)
Reload == /\ user = "scans" /\ ~page.hidden /\ reloads < MaxReloads
          /\ page' = Open(page.view, FALSE, page.storedAttempt, page.storedScan, page.autoScans)
          /\ reloads' = reloads + 1
          /\ UNCHANGED <<version, user>>

MonitorTick == page.monitorTimer /\ page' = Refresh(page, FALSE) /\ UNCHANGED others

FleetTick == page.fleetTimer /\ page' = RefreshFleet(page) /\ UNCHANGED others

---------------------------------------------------------------------------
(* The Hub, and what changes without this page. *)

Grown == IF version < MaxChanges THEN version + 1 ELSE version

(* The command line, another tab, or a machine of the fleet. *)
Change == /\ version < MaxChanges
          /\ version' = Grown
          /\ UNCHANGED <<page, reloads, user>>

Served(q, v) == [page EXCEPT !.flight = (@ \ {q}) \cup {[q EXCEPT !.seen = v]}]

(* Mutant of Loaded: the config is loaded once, when the Hub starts. *)
LoadedAtStart == 0

(* config.Load, anew for every request. *)
Loaded == version

(* handleNosana and handleConfig; the answer arrives later. *)
ServeRead(q) == /\ q.kind \in Views \cup {"config"} /\ q.seen = None
                /\ page' = Served(q, Loaded)
                /\ UNCHANGED others

(* handleBulkPCs stores the change; its answer may still get lost. *)
ServeSave(q) == /\ q.kind = "save" /\ q.seen = None
                /\ version' = Grown
                /\ page' = Served(q, Grown)
                /\ UNCHANGED <<reloads, user>>

---------------------------------------------------------------------------
(* The answers. *)

Answered(q) == [page EXCEPT !.flight = @ \ {q}]

(* The finally blocks; the refresh a save awaits ends the save as well. *)
MonitorDone(p, q) == [p EXCEPT !.monitorLoading = FALSE, !.refreshDisabled = FALSE,
                               !.savingConfig = @ /\ ~q.forSave]

(* Mutant of FleetDone: the button is left to the other screen's answer. *)
FleetDoneButtonKept(p) == [p EXCEPT !.fleetLoading = FALSE]

FleetDone(p) == [p EXCEPT !.fleetLoading = FALSE, !.refreshDisabled = FALSE]

MonitorAnswer(q) ==
  /\ q.kind = "monitor"
  /\ \/ q.seen # None /\ page' = MonitorDone([Answered(q) EXCEPT !.lastReport = q.seen,
                                                             !.lastView = "monitor"], q)
     \/ page' = MonitorDone(Answered(q), q)
  /\ UNCHANGED others

FleetAnswer(q) ==
  /\ q.kind = "fleet"
  /\ \/ /\ q.seen # None
        /\ page' = FleetDone([Answered(q) EXCEPT !.lastReport = q.seen,
                                                  !.lastView = "fleet",
                                                  !.fleetRows = q.seen])
     \/ page' = FleetDone(Answered(q))
  /\ UNCHANGED others

ScanAnswer(q) ==
  /\ q.kind = "scan"
  /\ \E ok \in BOOLEAN :
       page' = [Answered(q) EXCEPT !.scanning = FALSE,
                                   !.scanReport = @ \/ ok, !.storedScan = @ \/ ok]
  /\ UNCHANGED others

(* renderConfig with the list of an answer. *)
RenderConfig(p, q) ==
  [p EXCEPT !.listed = q.seen,
            !.flight = {IF r.kind \in {"config", "save"} THEN [r EXCEPT !.overtaken = TRUE] ELSE r
                        : r \in @}]

(* Mutant of ConfigAnswer: the body of an error is rendered as well. *)
ConfigAnswerUnchecked(q) ==
  /\ q.kind = "config"
  /\ page' = RenderConfig(Answered(q), q)
  /\ UNCHANGED others

ConfigAnswer(q) ==
  /\ q.kind = "config"
  /\ \/ q.seen # None /\ page' = RenderConfig(Answered(q), q)
     \/ page' = Answered(q)
  /\ UNCHANGED others

(* await refresh(): it may return at once, or the save goes on until the    *)
(* answer to the refresh is there.                                          *)
RefreshForSave(p) ==
  LET after == Refresh(p, TRUE)
  IN  [after EXCEPT !.savingConfig = \E r \in after.flight : r.forSave]

(* Mutant of SaveAnswer: the save is over only when a refresh it started is, *)
(* also when it started none.                                                *)
SaveAnswerWaits(q) ==
  /\ q.kind = "save"
  /\ \/ q.seen # None /\ page' = Refresh(RenderConfig(Answered(q), q), TRUE)
     \/ page' = [Answered(q) EXCEPT !.savingConfig = FALSE]
  /\ UNCHANGED others

SaveAnswer(q) ==
  /\ q.kind = "save"
  /\ \/ q.seen # None /\ page' = RefreshForSave(RenderConfig(Answered(q), q))
     \/ page' = [Answered(q) EXCEPT !.savingConfig = FALSE]
  /\ UNCHANGED others

Answer(q) == \/ ServeRead(q) \/ ServeSave(q)
             \/ MonitorAnswer(q) \/ FleetAnswer(q) \/ ScanAnswer(q)
             \/ ConfigAnswer(q) \/ SaveAnswer(q)

AnswerKind(kind) == \E q \in page.flight : q.kind = kind /\ Answer(q)

Next == \/ \E view \in Views : ChooseView(view)
        \/ HideTab \/ ShowTab \/ ClickRefresh \/ ClickScan \/ Reload
        \/ OpenConfig \/ CloseConfig \/ SubmitConfig
        \/ Change
        \/ MonitorTick \/ FleetTick
        \/ \E q \in page.flight : Answer(q)

Spec == Init /\ [][Next]_vars

(* Timers fire, and the Hub, which gives every request a deadline, answers.  *)
Fairness == /\ WF_vars(MonitorTick) /\ WF_vars(FleetTick)
            /\ \A kind \in Views \cup {"scan", "config", "save"} : WF_vars(AnswerKind(kind))

FairSpec == Spec /\ Fairness

---------------------------------------------------------------------------
(* Properties. *)

(* Each screen has at most one request under way, its loading flag says so, *)
(* and a save that goes on has a request to wait for.                       *)
TypeOK ==
  /\ page.view \in Views
  /\ version \in 0 .. MaxChanges /\ reloads \in 0 .. MaxReloads
  /\ Cardinality(Kinds(page, "monitor")) = IF page.monitorLoading THEN 1 ELSE 0
  /\ Cardinality(Kinds(page, "fleet")) = IF page.fleetLoading THEN 1 ELSE 0
  /\ Cardinality(Kinds(page, "scan")) = IF page.scanning THEN 1 ELSE 0
  /\ page.savingConfig <=> \E q \in page.flight : q.kind = "save" \/ q.forSave

(* HUB_MONITOR.md:40-41, "all polling stops when the browser tab is         *)
(* hidden".                                                                 *)
HiddenIsQuiet == page.hidden => ~page.monitorTimer /\ ~page.fleetTimer

(* HUB_MONITOR.md:39-41, "Only the active screen polls", and in a tab that  *)
(* is hidden none: after any sequence of clicks, hash changes, tab switches *)
(* and late answers.                                                        *)
OnlyActivePolls == /\ page.monitorTimer => page.view = "monitor"
                   /\ page.fleetTimer => page.view = "fleet"
                   /\ HiddenIsQuiet

(* The Refresh button, which both screens disable and enable, is never left *)
(* disabled when nothing is loading any more.                               *)
RefreshNotStuck == page.refreshDisabled => page.monitorLoading \/ page.fleetLoading

(* The LAN is scanned without being asked only once per browser, also when  *)
(* the page is reloaded before the scan is answered or the scan fails.      *)
AutoScanOnce == page.autoScans <= 1

(* lastReport, which the answers to both screens write, goes back to an     *)
(* older report only from that of one screen to that of the other; reports  *)
(* fetched for the same screen, and so the table of the fleet, are always   *)
(* shown in the order in which the Hub made them.                           *)
OrderLostOnlyAcross ==
  [][reloads' = reloads =>
       /\ page'.lastReport < page.lastReport => page'.lastView # page.lastView
       /\ page'.fleetRows >= page.fleetRows]_vars

(* The list of PCs in the dialog, which the answers to loads and to saves   *)
(* write, goes back to an older config only by an answer that was overtaken *)
(* by another one: closing the dialog and opening it again when nothing is  *)
(* under way always repairs it.                                             *)
ListLostOnlyOvertaken ==
  [][reloads' = reloads /\ page'.listed < page.listed =>
       \E q \in page.flight \ page'.flight : q.overtaken]_vars

(* The screen the user stays on keeps asking for reports and gets answers,  *)
(* whatever happened before and however many answers are errors.            *)
ScreenStaysLive ==
  /\ <>[](page.view = "monitor" /\ ~page.hidden) =>
       []<>page.monitorLoading /\ []<>~page.monitorLoading
  /\ <>[](page.view = "fleet" /\ ~page.hidden) =>
       []<>page.fleetLoading /\ []<>~page.fleetLoading

(* A save that has begun ends, with the refresh it awaits. *)
SavesEnd == page.savingConfig ~> ~page.savingConfig

WellAnswered(view) ==
  \E q \in page.flight : q.kind = view /\ q.seen # None
                         /\ q \notin page'.flight /\ page'.lastView = view
                         /\ page'.lastReport = q.seen

Shows(view) == page.lastReport = version /\ page.lastView = view

(* Every change, one saved in the dialog too, comes in the end to the       *)
(* screen the user stays on: unless all further answers for it are errors,  *)
(* the last report it was given becomes that of the present state and       *)
(* stays so, although the refresh of a save returns at once on the fleet    *)
(* screen or while another is under way, and old answers may still arrive.  *)
(* (An answer that is an error puts its message in the report's place until *)
(* the next one.)                                                           *)
ChangesAreShown ==
  \A view \in Views :
    <>[](page.view = view /\ ~page.hidden) /\ []<><<WellAnswered(view)>>_vars
      => <>[]Shows(view)
=============================================================================
