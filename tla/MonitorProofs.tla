---------------------------- MODULE MonitorProofs ----------------------------
(***************************************************************************)
(* Theorems about Monitor for every number of requests under way, changes, *)
(* loads and reloads.  The handlers are operators from page to page, so    *)
(* each has a lemma of its own and the actions follow.                     *)
(*                                                                         *)
(* There are two inductive invariants: PageInv is about timers, buttons    *)
(* and the scans nobody asked for; RequestInv says which requests may be   *)
(* under way at once and how old an answer that has been read may be: at   *)
(* least as new as what the page shows, unless the other screen, or        *)
(* another list, has been shown since.                                     *)
(***************************************************************************)
EXTENDS Monitor, FiniteSetTheorems, TLAPS

(* The fields of the page the theorems are about are there. *)
Fields == {"hidden", "view", "monitorTimer", "fleetTimer", "monitorLoading", "fleetLoading",
           "refreshDisabled", "scanning", "savingConfig", "dialog", "listed", "lastReport",
           "lastView", "fleetRows", "scanReport", "scanAttempted", "flight", "storedAttempt",
           "storedScan", "autoScans"}

TimersOK(p) == /\ p.monitorTimer => p.view = "monitor"
               /\ p.fleetTimer => p.view = "fleet"
               /\ p.hidden => OpenHidden \/ (~p.monitorTimer /\ ~p.fleetTimer)

ButtonOK(p) == p.refreshDisabled => p.monitorLoading \/ p.fleetLoading

(* A scan nobody asked for is remembered in the page and in the storage.   *)
ScansOK(p) == /\ p.autoScans \in {0, 1}
              /\ p.autoScans = 1 => p.scanAttempted /\ p.storedAttempt

PageInv(p) == DOMAIN p = Fields /\ p.view \in Views /\ TimersOK(p) /\ ButtonOK(p) /\ ScansOK(p)

---------------------------------------------------------------------------
(* The handlers. *)

(* The fields the invariant speaks of are the same. *)
Same(p, q) ==
  /\ q.view = p.view /\ q.hidden = p.hidden
  /\ q.monitorTimer = p.monitorTimer /\ q.fleetTimer = p.fleetTimer
  /\ q.refreshDisabled = p.refreshDisabled
  /\ q.monitorLoading = p.monitorLoading /\ q.fleetLoading = p.fleetLoading
  /\ q.autoScans = p.autoScans
  /\ q.scanAttempted = p.scanAttempted /\ q.storedAttempt = p.storedAttempt

(* A fetch changes nothing but the requests under way. *)
LEMMA FetchChanges ==
  ASSUME NEW p, DOMAIN p = Fields, NEW kind, NEW forSave
  PROVE  /\ DOMAIN Fetch(p, kind, forSave) = Fields
         /\ Same(p, Fetch(p, kind, forSave))
  BY DEF Fetch, Same, Fields

(* The invariant speaks of no other field. *)
LEMMA SameKeeps ==
  ASSUME NEW p, PageInv(p), NEW q, DOMAIN q = Fields, Same(p, q)
  PROVE  PageInv(q)
  BY DEF Same, PageInv, TimersOK, ButtonOK, ScansOK, Fields

(* refresh() disables the button and says that it is loading. *)
LEMMA RefreshKeeps ==
  ASSUME NEW p, PageInv(p), NEW forSave
  PROVE  /\ PageInv(Refresh(p, forSave))
         /\ Refresh(p, forSave).view = p.view /\ Refresh(p, forSave).hidden = p.hidden
<1> DEFINE asked == Fetch(p, "monitor", forSave)
<1>1. DOMAIN asked = Fields /\ Same(p, asked)
  BY FetchChanges DEF PageInv
<1>2. Refresh(p, forSave) = IF p.view # "monitor" \/ p.monitorLoading THEN p
        ELSE [asked EXCEPT !.monitorLoading = TRUE, !.refreshDisabled = TRUE]
  BY DEF Refresh
<1> HIDE DEF asked
<1> QED BY <1>1, <1>2 DEF Same, PageInv, TimersOK, ButtonOK, ScansOK, Fields

(* refreshFleet() does the same for the other screen. *)
LEMMA RefreshFleetKeeps ==
  ASSUME NEW p, PageInv(p)
  PROVE  /\ PageInv(RefreshFleet(p))
         /\ RefreshFleet(p).view = p.view /\ RefreshFleet(p).hidden = p.hidden
<1> DEFINE asked == Fetch(p, "fleet", FALSE)
<1>1. DOMAIN asked = Fields /\ Same(p, asked)
  BY FetchChanges DEF PageInv
<1>2. RefreshFleet(p) = IF p.view # "fleet" \/ p.fleetLoading THEN p
        ELSE [asked EXCEPT !.fleetLoading = TRUE, !.refreshDisabled = TRUE]
  BY DEF RefreshFleet
<1> HIDE DEF asked
<1> QED BY <1>1, <1>2 DEF Same, PageInv, TimersOK, ButtonOK, ScansOK, Fields

(* scanLAN() remembers the attempt when it makes one. *)
LEMMA ScanLANKeeps ==
  ASSUME NEW p, PageInv(p)
  PROVE  /\ PageInv(ScanLAN(p))
         /\ ScanLAN(p).view = p.view /\ ScanLAN(p).hidden = p.hidden
         /\ ScanLAN(p).autoScans = p.autoScans
         /\ p.view = "monitor" /\ ~p.scanning =>
              ScanLAN(p).scanAttempted /\ ScanLAN(p).storedAttempt
<1> DEFINE asked == Fetch(p, "scan", FALSE)
<1>1. DOMAIN asked = Fields /\ Same(p, asked)
  BY FetchChanges DEF PageInv
<1>2. ScanLAN(p) = IF p.view # "monitor" \/ p.scanning THEN p
        ELSE [asked EXCEPT !.scanning = TRUE, !.scanAttempted = TRUE, !.storedAttempt = TRUE]
  BY DEF ScanLAN
<1> HIDE DEF asked
<1> QED BY <1>1, <1>2 DEF Same, PageInv, TimersOK, ButtonOK, ScansOK, Fields

(* The first scan is started only where none was attempted before. *)
LEMMA InitialScanKeeps ==
  ASSUME NEW p, PageInv(p), p.view = "monitor"
  PROVE  /\ PageInv(MaybeInitialLANScan(p))
         /\ MaybeInitialLANScan(p).view = p.view /\ MaybeInitialLANScan(p).hidden = p.hidden
<1> DEFINE scanned == ScanLAN(p)
<1>1. /\ PageInv(scanned) /\ scanned.view = p.view /\ scanned.hidden = p.hidden
      /\ scanned.autoScans = p.autoScans
      /\ ~p.scanning => scanned.scanAttempted /\ scanned.storedAttempt
  BY ScanLANKeeps
<1>2. MaybeInitialLANScan(p) = IF p.scanReport \/ p.scanAttempted \/ p.scanning THEN p
                               ELSE [scanned EXCEPT !.autoScans = @ + 1]
  BY DEF MaybeInitialLANScan
<1> HIDE DEF scanned
<1>3. CASE p.scanReport \/ p.scanAttempted \/ p.scanning
  BY <1>2, <1>3
<1>4. CASE ~(p.scanReport \/ p.scanAttempted \/ p.scanning)
  <2>1. p.autoScans = 0
    BY <1>4 DEF PageInv, ScansOK
  <2> QED BY <1>1, <1>2, <1>4, <2>1 DEF PageInv, TimersOK, ButtonOK, ScansOK, Fields
<1> QED BY <1>3, <1>4

(* A screen starts its own timer after both were stopped; it is activated  *)
(* in a hidden tab only when the page is opened in one.                    *)
LEMMA ActivateKeeps ==
  ASSUME NEW p, DOMAIN p = Fields, ButtonOK(p), ScansOK(p), p.hidden => OpenHidden,
         NEW view \in Views
  PROVE  PageInv(ActivateView(p, view))
<1> DEFINE shown == StopPolling([p EXCEPT !.view = view])
<1>1. PageInv(shown) /\ shown.view = view /\ (shown.hidden => OpenHidden)
  BY DEF StopPolling, PageInv, TimersOK, ButtonOK, ScansOK, Fields
<1> HIDE DEF shown
<1>2. CASE view = "monitor"
  <2> DEFINE scanned == MaybeInitialLANScan(Refresh(shown, FALSE))
  <2>1. PageInv(scanned) /\ scanned.view = "monitor" /\ (scanned.hidden => OpenHidden)
    <3> DEFINE asked == Refresh(shown, FALSE)
    <3>1. PageInv(asked) /\ asked.view = "monitor" /\ (asked.hidden => OpenHidden)
      <4>1. /\ PageInv(asked)
            /\ asked.view = shown.view /\ asked.hidden = shown.hidden
        BY <1>1, RefreshKeeps, Zenon
      <4> QED BY <4>1, <1>1, <1>2
    <3> HIDE DEF asked
    <3>2. PageInv(MaybeInitialLANScan(asked)) /\ MaybeInitialLANScan(asked).view = "monitor"
          /\ (MaybeInitialLANScan(asked).hidden => OpenHidden)
      BY <3>1, InitialScanKeeps
    <3> QED BY <3>2 DEF asked
  <2>2. ActivateView(p, view) = [scanned EXCEPT !.monitorTimer = TRUE]
    BY <1>2 DEF ActivateView, shown
  <2> HIDE DEF scanned
  <2> QED BY <2>1, <2>2 DEF PageInv, TimersOK, ButtonOK, ScansOK, Fields
<1>3. CASE view = "fleet"
  <2> DEFINE asked == RefreshFleet(shown)
  <2>1. PageInv(asked) /\ asked.view = "fleet" /\ (asked.hidden => OpenHidden)
    BY <1>1, <1>3, RefreshFleetKeeps
  <2>2. ActivateView(p, view) = [asked EXCEPT !.fleetTimer = TRUE]
    BY <1>3 DEF ActivateView, shown
  <2> HIDE DEF asked
  <2> QED BY <2>1, <2>2 DEF PageInv, TimersOK, ButtonOK, ScansOK, Fields
<1> QED BY <1>2, <1>3 DEF Views

(* The script runs from the top, in a hidden tab only where that may be. *)
LEMMA OpenKeeps ==
  ASSUME NEW view \in Views, NEW hidden, hidden => OpenHidden, NEW attempt, NEW known,
         NEW scans \in {0, 1}, scans = 1 => attempt
  PROVE  PageInv(Open(view, hidden, attempt, known, scans))
<1> DEFINE p == [hidden |-> hidden, view |-> view,
                 monitorTimer |-> FALSE, fleetTimer |-> FALSE,
                 monitorLoading |-> FALSE, fleetLoading |-> FALSE, refreshDisabled |-> FALSE,
                 scanning |-> FALSE, savingConfig |-> FALSE,
                 dialog |-> FALSE, listed |-> None,
                 lastReport |-> None, lastView |-> view, fleetRows |-> None,
                 scanReport |-> known, scanAttempted |-> attempt \/ known,
                 flight |-> {},
                 storedAttempt |-> attempt, storedScan |-> known,
                 autoScans |-> scans]
<1>1. DOMAIN p = Fields /\ ButtonOK(p) /\ ScansOK(p) /\ (p.hidden => OpenHidden)
  BY DEF PageInv, TimersOK, ButtonOK, ScansOK, Fields
<1>2. Open(view, hidden, attempt, known, scans) = ActivateView(p, view)
  BY DEF Open
<1> HIDE DEF p
<1> QED BY <1>1, <1>2, ActivateKeeps

---------------------------------------------------------------------------
(* The actions. *)

(* The page is opened with no scan made by itself. *)
LEMMA InvInit == Init => PageInv(page)
<1> SUFFICES ASSUME Init PROVE PageInv(page)
  OBVIOUS
<1>1. PICK view \in Views, known \in BOOLEAN, hidden \in IF OpenHidden THEN BOOLEAN ELSE {FALSE} :
        page = Open(view, hidden, known, known, 0)
  BY DEF Init
<1>2. PageInv(Open(view, hidden, known, known, 0))
  <2>1. 0 \in {0, 1} /\ (0 = 1 => known)
    OBVIOUS
  <2>2. hidden => OpenHidden
    BY Zenon
  <2> QED BY <2>1, <2>2, OpenKeeps, Zenon
<1> QED BY <1>1, <1>2, Zenon

(* An answer takes its request away and nothing else. *)
LEMMA AnsweredSame ==
  ASSUME NEW q, PageInv(page)
  PROVE  PageInv(Answered(q))
<1>1. DOMAIN Answered(q) = Fields /\ Same(page, Answered(q))
  BY DEF Answered, Same, Fields, PageInv
<1> QED BY <1>1, SameKeeps, Zenon

(* renderConfig() changes the list and what is known of the requests. *)
LEMMA RenderKeeps ==
  ASSUME NEW p, PageInv(p), NEW q
  PROVE  PageInv(RenderConfig(p, q))
<1> DEFINE after == RenderConfig(p, q)
<1>1. DOMAIN after = Fields /\ Same(p, after)
  BY DEF RenderConfig, Same, Fields, PageInv
<1> QED BY <1>1, SameKeeps, Zenon

(* The finally blocks enable the button; another screen may still be loading. *)
LEMMA DoneKeeps ==
  ASSUME NEW p, PageInv(p), NEW q
  PROVE  PageInv(MonitorDone(p, q)) /\ PageInv(FleetDone(p))
  BY DEF MonitorDone, FleetDone, PageInv, TimersOK, ButtonOK, ScansOK, Fields

(* Every arrival of an answer, a good one and an error, keeps the invariant. *)
LEMMA AnswerKeeps ==
  ASSUME PageInv(page), NEW q, Answer(q)
  PROVE  PageInv(page')
<1>1. DOMAIN page = Fields
  BY DEF PageInv
<1>2. PageInv(Answered(q))
  BY AnsweredSame
<1>3. CASE ServeRead(q)
  <2>1. DOMAIN page' = Fields /\ Same(page, page')
    BY <1>1, <1>3 DEF ServeRead, Served, Same, Fields
  <2> QED BY <2>1, SameKeeps, Zenon
<1>4. CASE ServeSave(q)
  <2>1. DOMAIN page' = Fields /\ Same(page, page')
    BY <1>1, <1>4 DEF ServeSave, Served, Same, Fields
  <2> QED BY <2>1, SameKeeps, Zenon
<1>5. CASE MonitorAnswer(q)
  <2> DEFINE shown == [Answered(q) EXCEPT !.lastReport = q.seen, !.lastView = "monitor"]
  <2>1. page' = MonitorDone(shown, q) \/ page' = MonitorDone(Answered(q), q)
    BY <1>5 DEF MonitorAnswer
  <2>2. DOMAIN shown = Fields /\ Same(Answered(q), shown)
    BY <1>2 DEF Same, Fields, PageInv
  <2> HIDE DEF shown
  <2>3. PageInv(shown)
    BY <1>2, <2>2, SameKeeps, Zenon
  <2> QED BY <1>2, <2>1, <2>3, DoneKeeps, Zenon
<1>6. CASE FleetAnswer(q)
  <2> DEFINE shown == [Answered(q) EXCEPT !.lastReport = q.seen, !.lastView = "fleet",
                                          !.fleetRows = q.seen]
  <2>1. page' = FleetDone(shown) \/ page' = FleetDone(Answered(q))
    BY <1>6 DEF FleetAnswer
  <2>2. DOMAIN shown = Fields /\ Same(Answered(q), shown)
    BY <1>2 DEF Same, Fields, PageInv
  <2> HIDE DEF shown
  <2>3. PageInv(shown)
    BY <1>2, <2>2, SameKeeps, Zenon
  <2> QED BY <1>2, <2>1, <2>3, DoneKeeps, Zenon
<1>7. CASE ScanAnswer(q)
  <2>1. DOMAIN page' = Fields /\ Same(Answered(q), page')
    BY <1>2, <1>7 DEF ScanAnswer, Same, Fields, PageInv
  <2> QED BY <1>2, <2>1, SameKeeps, Zenon
<1>8. CASE ConfigAnswer(q)
  BY <1>2, <1>8, RenderKeeps, Zenon DEF ConfigAnswer
<1>9. CASE SaveAnswer(q)
  <2>1. CASE page' = [Answered(q) EXCEPT !.savingConfig = FALSE]
    <3>1. DOMAIN page' = Fields /\ Same(Answered(q), page')
      BY <1>2, <2>1 DEF Same, Fields, PageInv
    <3> QED BY <1>2, <3>1, SameKeeps, Zenon
  <2>2. CASE page' = RefreshForSave(RenderConfig(Answered(q), q))
    <3> DEFINE after == Refresh(RenderConfig(Answered(q), q), TRUE)
    <3>1. PageInv(after)
      BY <1>2, RenderKeeps, RefreshKeeps, Zenon
    <3>2. page' = [after EXCEPT !.savingConfig = \E r \in after.flight : r.forSave]
      BY <2>2 DEF RefreshForSave
    <3> HIDE DEF after
    <3>3. DOMAIN page' = Fields /\ Same(after, page')
      BY <3>1, <3>2 DEF Same, Fields, PageInv
    <3> QED BY <3>1, <3>3, SameKeeps, Zenon
  <2> QED BY <1>9, <2>1, <2>2 DEF SaveAnswer
<1> QED BY <1>3, <1>4, <1>5, <1>6, <1>7, <1>8, <1>9 DEF Answer

(* Every click, timer, browser event and answer keeps the invariant. *)
LEMMA InvNext == PageInv(page) /\ [Next]_vars => PageInv(page')
<1> SUFFICES ASSUME PageInv(page), [Next]_vars PROVE PageInv(page')
  OBVIOUS
<1>0. DOMAIN page = Fields /\ page.view \in Views
  BY DEF PageInv
<1>1. ASSUME NEW view \in Views, ChooseView(view) PROVE PageInv(page')
  BY <1>0, <1>1, ActivateKeeps, Zenon DEF ChooseView, PageInv
<1>2. CASE HideTab
  BY <1>2 DEF HideTab, StopPolling, PageInv, TimersOK, ButtonOK, ScansOK, Fields
<1>3. CASE ShowTab
  <2> DEFINE visible == [page EXCEPT !.hidden = FALSE]
  <2>1. DOMAIN visible = Fields /\ ButtonOK(visible) /\ ScansOK(visible) /\ visible.hidden = FALSE
    BY DEF PageInv, TimersOK, ButtonOK, ScansOK, Fields
  <2> HIDE DEF visible
  <2>2. PageInv(ActivateView(visible, page.view))
    BY <1>0, <2>1, ActivateKeeps, Zenon
  <2> QED BY <1>3, <2>2 DEF ShowTab, visible
<1>4. CASE ClickRefresh
  <2>1. PageInv(RefreshActiveView(page)) /\ PageInv(RefreshFleet(page))
    BY RefreshKeeps, RefreshFleetKeeps, Zenon DEF RefreshActiveView
  <2> QED BY <1>4, <2>1, Zenon DEF ClickRefresh
<1>5. CASE ClickScan
  BY <1>5, ScanLANKeeps, Zenon DEF ClickScan
<1>6. CASE Reload
  <2>1. /\ page.autoScans \in {0, 1} /\ (page.autoScans = 1 => page.storedAttempt)
    BY DEF PageInv, ScansOK
  <2>2. PageInv(Open(page.view, FALSE, page.storedAttempt, page.storedScan, page.autoScans))
    BY <1>0, <2>1, OpenKeeps, Zenon
  <2> QED BY <1>6, <2>2, Zenon DEF Reload
<1>7. CASE OpenConfig
  <2> DEFINE asked == Fetch(page, "config", FALSE)
  <2>1. DOMAIN asked = Fields /\ Same(page, asked)
    BY <1>0, FetchChanges, Zenon
  <2>2. page' = [asked EXCEPT !.dialog = TRUE]
    BY <1>7 DEF OpenConfig
  <2> HIDE DEF asked
  <2>3. DOMAIN page' = Fields /\ Same(page, page')
    BY <2>1, <2>2 DEF Same, Fields
  <2> QED BY <2>3, SameKeeps, Zenon
<1>8. CASE CloseConfig
  <2>1. DOMAIN page' = Fields /\ Same(page, page')
    BY <1>0, <1>8 DEF CloseConfig, Same, Fields
  <2> QED BY <2>1, SameKeeps, Zenon
<1>9. CASE SubmitConfig
  <2> DEFINE asked == Fetch(page, "save", FALSE)
  <2>1. DOMAIN asked = Fields /\ Same(page, asked)
    BY <1>0, FetchChanges, Zenon
  <2>2. page' = [asked EXCEPT !.savingConfig = TRUE]
    BY <1>9 DEF SubmitConfig
  <2> HIDE DEF asked
  <2>3. DOMAIN page' = Fields /\ Same(page, page')
    BY <2>1, <2>2 DEF Same, Fields
  <2> QED BY <2>3, SameKeeps, Zenon
<1>10. CASE Change \/ UNCHANGED vars
  BY <1>10 DEF Change, vars
<1>11. CASE MonitorTick
  BY <1>11, RefreshKeeps, Zenon DEF MonitorTick
<1>12. CASE FleetTick
  BY <1>12, RefreshFleetKeeps, Zenon DEF FleetTick
<1>13. ASSUME NEW q \in page.flight, Answer(q) PROVE PageInv(page')
  BY <1>0, <1>13, AnswerKeeps, Zenon
<1> QED
  BY <1>1, <1>2, <1>3, <1>4, <1>5, <1>6, <1>7, <1>8, <1>9, <1>10, <1>11, <1>12, <1>13 DEF Next

---------------------------------------------------------------------------
(* So it holds in every behaviour. *)
LEMMA PageAlways == Spec => []PageInv(page)
<1> DEFINE Inv == PageInv(page)
<1>1. Init => Inv
  BY InvInit
<1>2. Inv /\ [Next]_vars => Inv'
  BY InvNext
<1> HIDE DEF Inv
<1>3. Spec => []Inv
  BY <1>1, <1>2, PTL DEF Spec
<1> QED BY <1>3 DEF Inv

(* A page opened in a visible tab polls only for the screen it shows, and  *)
(* not at all in a hidden tab, after any clicks, timers and late answers   *)
(* (activateView, stopPolling and the visibilitychange listener).          *)
THEOREM ActivePolls == OpenHidden = FALSE => (Spec => []OnlyActivePolls)
<1> SUFFICES ASSUME OpenHidden = FALSE PROVE Spec => []OnlyActivePolls
  OBVIOUS
<1> DEFINE Inv == PageInv(page)
<1>1. Inv => OnlyActivePolls
  BY DEF PageInv, TimersOK, OnlyActivePolls, HiddenIsQuiet
<1>2. Spec => []Inv
  BY PageAlways
<1> HIDE DEF Inv
<1> QED BY <1>1, <1>2, PTL

(* The Refresh button, shared by both screens, is never left disabled when *)
(* no screen is loading (the finally blocks of refresh and refreshFleet).  *)
THEOREM RefreshComesBack == Spec => []RefreshNotStuck
<1>1. PageInv(page) => RefreshNotStuck
  BY DEF PageInv, ButtonOK, RefreshNotStuck
<1> QED BY <1>1, PageAlways, PTL

(* However often the page is reloaded and whatever becomes of the scan, it *)
(* is started only once by itself (maybeInitialLANScan, scanLAN).          *)
THEOREM ScansOnceByItself == Spec => []AutoScanOnce
<1>1. PageInv(page) => AutoScanOnce
  BY DEF PageInv, ScansOK, AutoScanOnce
<1> QED BY <1>1, PageAlways, PTL

---------------------------------------------------------------------------
(* The requests of the page and the order in which their answers are shown. *)

Request == [n : Nat, kind : Views \cup {"scan", "config", "save"}, seen : Int,
            forSave : BOOLEAN, overtaken : BOOLEAN]

FlightOK(p) ==
  /\ IsFiniteSet(p.flight) /\ p.flight \subseteq Request
  /\ \A q, r \in p.flight : q.kind = r.kind /\ q.n = r.n => q = r

(* A screen has one request under way, just when its flag says so. *)
OneEach(p) ==
  /\ \A q, r \in p.flight : q.kind = r.kind /\ q.kind \in Views \cup {"scan"} => q = r
  /\ p.monitorLoading <=> \E q \in p.flight : q.kind = "monitor"
  /\ p.fleetLoading <=> \E q \in p.flight : q.kind = "fleet"
  /\ p.scanning <=> \E q \in p.flight : q.kind = "scan"

(* A save goes on as long as its request or the refresh it awaits does.    *)
Awaited(q) == q.kind = "save" \/ q.forSave

SaveOK(p) ==
  /\ \A q \in p.flight : q.forSave => q.kind = "monitor"
  /\ \A q, r \in p.flight : Awaited(q) /\ Awaited(r) => q = r
  /\ p.savingConfig <=> \E q \in p.flight : Awaited(q)

(* Nothing is newer than what the Hub would report, and an answer is not   *)
(* older than what it would replace.                                       *)
OrderOK(p, v) ==
  /\ p.lastReport \in None .. v /\ p.fleetRows \in None .. v /\ p.listed \in None .. v
  /\ \A q \in p.flight :
       /\ q.seen \in None .. v
       /\ q.seen # None =>
            /\ q.kind = p.lastView => q.seen >= p.lastReport
            /\ q.kind = "fleet" => q.seen >= p.fleetRows
            /\ q.kind \in {"config", "save"} /\ ~q.overtaken => q.seen >= p.listed

RequestInv(p, v) ==
  DOMAIN p = Fields /\ FlightOK(p) /\ OneEach(p) /\ SaveOK(p) /\ OrderOK(p, v)

VersionOK == version \in 0 .. MaxChanges /\ reloads \in 0 .. MaxReloads

RequestsOK == RequestInv(page, version) /\ VersionOK

---------------------------------------------------------------------------
(* Requests that are sent. *)

(* What the invariant speaks of, and what the page shows of it. *)
SameShown(p, q) ==
  /\ q.lastReport = p.lastReport /\ q.lastView = p.lastView
  /\ q.fleetRows = p.fleetRows /\ q.listed = p.listed

SameRequests(p, q) ==
  /\ SameShown(p, q)
  /\ q.flight = p.flight
  /\ q.monitorLoading = p.monitorLoading /\ q.fleetLoading = p.fleetLoading
  /\ q.scanning = p.scanning /\ q.savingConfig = p.savingConfig

(* The invariant speaks of no other field. *)
LEMMA SameRequestsKeep ==
  ASSUME NEW p, NEW v, RequestInv(p, v), NEW q, DOMAIN q = Fields, SameRequests(p, q)
  PROVE  RequestInv(q, v)
  BY DEF SameRequests, SameShown, RequestInv, FlightOK, OneEach, SaveOK, OrderOK

(* The number of a new request tells it from the others of its kind. *)
LEMMA UnusedIsFresh ==
  ASSUME NEW p, FlightOK(p), NEW kind
  PROVE  Unused(p, kind) \in Nat /\ \A q \in Kinds(p, kind) : q.n # Unused(p, kind)
<1> DEFINE K == Kinds(p, kind)
           c == Cardinality(K)
<1>1. IsFiniteSet(K) /\ c \in Nat
  <2>1. K \subseteq p.flight
    BY DEF Kinds
  <2> QED BY <2>1, FS_Subset, FS_CardinalityType DEF FlightOK
<1>2. IsFiniteSet(0 .. c) /\ Cardinality(0 .. c) = c + 1
  BY <1>1, FS_Interval
<1>3. \E n \in 0 .. c : \A q \in K : q.n # n
  <2> HIDE DEF K
  <2>1. SUFFICES ASSUME \A n \in 0 .. c : \E q \in K : q.n = n PROVE FALSE
    BY Zenon
  <2> DEFINE holder == [n \in 0 .. c |-> CHOOSE q \in K : q.n = n]
  <2>2. \A n \in 0 .. c : holder[n] \in K /\ holder[n].n = n
    BY <2>1
  <2>3. holder \in [0 .. c -> K]
    BY <2>2
  <2>4. Cardinality(K) < Cardinality(0 .. c)
    BY <1>1, <1>2
  <2> HIDE DEF holder
  <2>5. PICK x, y \in 0 .. c : x # y /\ holder[x] = holder[y]
    BY <1>1, <1>2, <2>3, <2>4, FS_PigeonHole
  <2> QED BY <2>2, <2>5
<1>4. Unused(p, kind) \in 0 .. c /\ \A q \in K : q.n # Unused(p, kind)
  <2>1. Unused(p, kind) = CHOOSE n \in 0 .. c : \A q \in K : q.n # n
    BY DEF Unused
  <2> HIDE DEF K, c
  <2> QED BY <1>3, <2>1
<1> HIDE DEF c
<1> QED BY <1>1, <1>4

(* The request a fetch sends. *)
New(p, kind, forSave) ==
  [n |-> Unused(p, kind), kind |-> kind, seen |-> None, forSave |-> forSave, overtaken |-> FALSE]

(* A page that sends a request nothing else of its kind excludes, and says  *)
(* so in its flags, keeps the invariant.                                    *)
LEMMA SentKeeps ==
  ASSUME NEW p, NEW v \in Nat, RequestInv(p, v),
         NEW kind \in Views \cup {"scan", "config", "save"}, NEW forSave \in BOOLEAN,
         kind \in Views \cup {"scan"} => \A r \in p.flight : r.kind # kind,
         forSave => kind = "monitor",
         kind = "save" \/ forSave => ~p.savingConfig,
         NEW q, DOMAIN q = Fields, SameShown(p, q),
         q.flight = p.flight \cup {New(p, kind, forSave)},
         q.monitorLoading <=> p.monitorLoading \/ kind = "monitor",
         q.fleetLoading <=> p.fleetLoading \/ kind = "fleet",
         q.scanning <=> p.scanning \/ kind = "scan",
         q.savingConfig <=> p.savingConfig \/ kind = "save" \/ forSave
  PROVE  RequestInv(q, v)
<1> DEFINE new == New(p, kind, forSave)
<1>1. FlightOK(p) /\ OneEach(p) /\ SaveOK(p) /\ OrderOK(p, v)
  BY DEF RequestInv
<1>2. new \in Request /\ \A r \in p.flight : r.kind = kind => r.n # new.n
  <2>1. Unused(p, kind) \in Nat /\ \A r \in Kinds(p, kind) : r.n # Unused(p, kind)
    BY <1>1, UnusedIsFresh
  <2> QED BY <2>1 DEF New, Request, Kinds, None
<1>3. new.kind = kind /\ new.seen = None /\ new.forSave = forSave
  BY DEF New
<1> HIDE DEF new
<1>4. q.flight = p.flight \cup {new}
  BY DEF new
<1>5. FlightOK(q)
  <2>1. IsFiniteSet(q.flight)
    BY <1>1, <1>4, FS_AddElement DEF FlightOK
  <2> QED BY <1>1, <1>2, <1>3, <1>4, <2>1 DEF FlightOK
<1>6. OneEach(q)
  BY <1>1, <1>3, <1>4 DEF OneEach
<1>7. SaveOK(q)
  BY <1>1, <1>3, <1>4 DEF SaveOK, Awaited
<1>8. OrderOK(q, v)
  BY <1>1, <1>3, <1>4 DEF OrderOK, SameShown, None
<1> QED BY <1>5, <1>6, <1>7, <1>8 DEF RequestInv

---------------------------------------------------------------------------
(* The handlers that send requests. *)

(* What a handler that shows nothing new does to a page. *)
Keeps(p, q, v) == RequestInv(q, v) /\ SameShown(p, q)

(* refresh() sends a request only if the monitor has none under way. *)
LEMMA RefreshSends ==
  ASSUME NEW p, NEW v \in Nat, RequestInv(p, v)
  PROVE  Keeps(p, Refresh(p, FALSE), v)
<1> DEFINE asked == Fetch(p, "monitor", FALSE)
           after == [asked EXCEPT !.monitorLoading = TRUE, !.refreshDisabled = TRUE]
<1>0. DOMAIN p = Fields
  BY DEF RequestInv
<1>1. /\ DOMAIN asked = Fields
      /\ asked.flight = p.flight \cup {New(p, "monitor", FALSE)}
      /\ SameShown(p, asked)
      /\ asked.fleetLoading = p.fleetLoading /\ asked.scanning = p.scanning
      /\ asked.savingConfig = p.savingConfig
  BY <1>0 DEF Fetch, New, SameShown, Fields
<1>2. Refresh(p, FALSE) = IF p.view # "monitor" \/ p.monitorLoading THEN p ELSE after
  BY DEF Refresh
<1> HIDE DEF asked
<1>3. /\ DOMAIN after = Fields
      /\ after.flight = p.flight \cup {New(p, "monitor", FALSE)}
      /\ SameShown(p, after) /\ after.monitorLoading = TRUE
      /\ after.fleetLoading = p.fleetLoading /\ after.scanning = p.scanning
      /\ after.savingConfig = p.savingConfig
  BY <1>1 DEF SameShown, Fields
<1> HIDE DEF after
<1>4. CASE ~p.monitorLoading
  <2>1. \A r \in p.flight : r.kind # "monitor"
    BY <1>4 DEF RequestInv, OneEach
  <2>2. /\ "monitor" \in Views \cup {"scan", "config", "save"} /\ FALSE \in BOOLEAN
        /\ after.monitorLoading <=> p.monitorLoading \/ "monitor" = "monitor"
        /\ after.fleetLoading <=> p.fleetLoading \/ "monitor" = "fleet"
        /\ after.scanning <=> p.scanning \/ "monitor" = "scan"
        /\ after.savingConfig <=> p.savingConfig \/ "monitor" = "save" \/ FALSE
        /\ "monitor" # "save"
    BY <1>3 DEF Views
  <2>3. RequestInv(after, v)
    BY <1>3, <2>1, <2>2, SentKeeps, Zenon
  <2> QED BY <1>2, <1>3, <2>3 DEF Keeps, SameShown
<1> QED BY <1>2, <1>4 DEF Keeps, SameShown

(* refreshFleet() does the same for the fleet. *)
LEMMA RefreshFleetSends ==
  ASSUME NEW p, NEW v \in Nat, RequestInv(p, v)
  PROVE  Keeps(p, RefreshFleet(p), v)
<1> DEFINE asked == Fetch(p, "fleet", FALSE)
           after == [asked EXCEPT !.fleetLoading = TRUE, !.refreshDisabled = TRUE]
<1>0. DOMAIN p = Fields
  BY DEF RequestInv
<1>1. /\ DOMAIN asked = Fields
      /\ asked.flight = p.flight \cup {New(p, "fleet", FALSE)}
      /\ SameShown(p, asked)
      /\ asked.monitorLoading = p.monitorLoading /\ asked.scanning = p.scanning
      /\ asked.savingConfig = p.savingConfig
  BY <1>0 DEF Fetch, New, SameShown, Fields
<1>2. RefreshFleet(p) = IF p.view # "fleet" \/ p.fleetLoading THEN p ELSE after
  BY DEF RefreshFleet
<1> HIDE DEF asked
<1>3. /\ DOMAIN after = Fields
      /\ after.flight = p.flight \cup {New(p, "fleet", FALSE)}
      /\ SameShown(p, after) /\ after.fleetLoading = TRUE
      /\ after.monitorLoading = p.monitorLoading /\ after.scanning = p.scanning
      /\ after.savingConfig = p.savingConfig
  BY <1>1 DEF SameShown, Fields
<1> HIDE DEF after
<1>4. CASE ~p.fleetLoading
  <2>1. \A r \in p.flight : r.kind # "fleet"
    BY <1>4 DEF RequestInv, OneEach
  <2>2. RequestInv(after, v)
    BY <1>3, <2>1, SentKeeps DEF Views
  <2> QED BY <1>2, <1>3, <2>2 DEF Keeps, SameShown
<1> QED BY <1>2, <1>4 DEF Keeps, SameShown

(* scanLAN() scans only if no scan is under way. *)
LEMMA ScanLANSends ==
  ASSUME NEW p, NEW v \in Nat, RequestInv(p, v)
  PROVE  Keeps(p, ScanLAN(p), v)
<1> DEFINE asked == Fetch(p, "scan", FALSE)
           after == [asked EXCEPT !.scanning = TRUE, !.scanAttempted = TRUE,
                                  !.storedAttempt = TRUE]
<1>0. DOMAIN p = Fields
  BY DEF RequestInv
<1>1. /\ DOMAIN asked = Fields
      /\ asked.flight = p.flight \cup {New(p, "scan", FALSE)}
      /\ SameShown(p, asked)
      /\ asked.monitorLoading = p.monitorLoading /\ asked.fleetLoading = p.fleetLoading
      /\ asked.savingConfig = p.savingConfig
  BY <1>0 DEF Fetch, New, SameShown, Fields
<1>2. ScanLAN(p) = IF p.view # "monitor" \/ p.scanning THEN p ELSE after
  BY DEF ScanLAN
<1> HIDE DEF asked
<1>3. /\ DOMAIN after = Fields
      /\ after.flight = p.flight \cup {New(p, "scan", FALSE)}
      /\ SameShown(p, after) /\ after.scanning = TRUE
      /\ after.monitorLoading = p.monitorLoading /\ after.fleetLoading = p.fleetLoading
      /\ after.savingConfig = p.savingConfig
  BY <1>1 DEF SameShown, Fields
<1> HIDE DEF after
<1>4. CASE ~p.scanning
  <2>1. \A r \in p.flight : r.kind # "scan"
    BY <1>4 DEF RequestInv, OneEach
  <2>2. RequestInv(after, v)
    BY <1>3, <2>1, SentKeeps DEF Views
  <2> QED BY <1>2, <1>3, <2>2 DEF Keeps, SameShown
<1> QED BY <1>2, <1>4 DEF Keeps, SameShown

(* The number of scans nobody asked for is not about requests. *)
LEMMA InitialScanSends ==
  ASSUME NEW p, NEW v \in Nat, RequestInv(p, v)
  PROVE  Keeps(p, MaybeInitialLANScan(p), v)
<1> DEFINE scanned == ScanLAN(p)
           after == [scanned EXCEPT !.autoScans = @ + 1]
<1>1. RequestInv(scanned, v) /\ SameShown(p, scanned)
  BY ScanLANSends, Zenon DEF Keeps
<1>2. MaybeInitialLANScan(p) = IF p.scanReport \/ p.scanAttempted \/ p.scanning THEN p ELSE after
  BY DEF MaybeInitialLANScan
<1> HIDE DEF scanned
<1>3. DOMAIN after = Fields /\ SameRequests(scanned, after)
  BY <1>1 DEF RequestInv, SameRequests, SameShown, Fields
<1> HIDE DEF after
<1>4. RequestInv(after, v)
  BY <1>1, <1>3, SameRequestsKeep, Zenon
<1> QED BY <1>1, <1>2, <1>3, <1>4 DEF Keeps, SameShown, SameRequests

(* A screen is activated with one request at most. *)
LEMMA ActivateSends ==
  ASSUME NEW p, NEW v \in Nat, RequestInv(p, v), NEW view
  PROVE  Keeps(p, ActivateView(p, view), v)
<1> DEFINE shown == StopPolling([p EXCEPT !.view = view])
           asked == Refresh(shown, FALSE)
           scanned == MaybeInitialLANScan(asked)
           fleet == RefreshFleet(shown)
           monitored == [scanned EXCEPT !.monitorTimer = TRUE]
           listed == [fleet EXCEPT !.fleetTimer = TRUE]
<1>1. DOMAIN shown = Fields /\ SameRequests(p, shown)
  BY DEF StopPolling, SameRequests, SameShown, RequestInv, Fields
<1>2. ActivateView(p, view) = IF view = "monitor" THEN monitored ELSE listed
  BY DEF ActivateView
<1> HIDE DEF shown
<1>3. RequestInv(shown, v) /\ SameShown(p, shown)
  BY <1>1, SameRequestsKeep, Zenon DEF SameRequests
<1>4. RequestInv(asked, v) /\ SameShown(shown, asked)
  BY <1>3, RefreshSends, Zenon DEF Keeps
<1> HIDE DEF asked
<1>5. RequestInv(scanned, v) /\ SameShown(asked, scanned)
  BY <1>4, InitialScanSends, Zenon DEF Keeps
<1>6. RequestInv(fleet, v) /\ SameShown(shown, fleet)
  BY <1>3, RefreshFleetSends, Zenon DEF Keeps
<1> HIDE DEF scanned, fleet
<1>7. DOMAIN monitored = Fields /\ SameRequests(scanned, monitored)
  BY <1>5 DEF RequestInv, SameRequests, SameShown, Fields
<1>8. DOMAIN listed = Fields /\ SameRequests(fleet, listed)
  BY <1>6 DEF RequestInv, SameRequests, SameShown, Fields
<1> HIDE DEF monitored, listed
<1>9. RequestInv(monitored, v) /\ RequestInv(listed, v)
  BY <1>5, <1>6, <1>7, <1>8, SameRequestsKeep, Zenon
<1>10. SameShown(p, monitored) /\ SameShown(p, listed)
  BY <1>3, <1>4, <1>5, <1>6, <1>7, <1>8 DEF SameShown, SameRequests
<1> QED BY <1>2, <1>9, <1>10 DEF Keeps

(* The script begins with no request and nothing shown. *)
LEMMA OpenSends ==
  ASSUME NEW view, NEW hidden, NEW attempt, NEW known, NEW scans, NEW v \in Nat
  PROVE  RequestInv(Open(view, hidden, attempt, known, scans), v)
<1> DEFINE p == [hidden |-> hidden, view |-> view,
                 monitorTimer |-> FALSE, fleetTimer |-> FALSE,
                 monitorLoading |-> FALSE, fleetLoading |-> FALSE, refreshDisabled |-> FALSE,
                 scanning |-> FALSE, savingConfig |-> FALSE,
                 dialog |-> FALSE, listed |-> None,
                 lastReport |-> None, lastView |-> view, fleetRows |-> None,
                 scanReport |-> known, scanAttempted |-> attempt \/ known,
                 flight |-> {},
                 storedAttempt |-> attempt, storedScan |-> known,
                 autoScans |-> scans]
<1>1. DOMAIN p = Fields
  BY DEF Fields
<1>2. FlightOK(p) /\ OneEach(p) /\ SaveOK(p) /\ OrderOK(p, v)
  BY FS_EmptySet DEF FlightOK, OneEach, SaveOK, OrderOK, None
<1>3. Open(view, hidden, attempt, known, scans) = ActivateView(p, view)
  BY DEF Open
<1> HIDE DEF p
<1>4. Keeps(p, ActivateView(p, view), v)
  BY <1>1, <1>2, ActivateSends, Zenon DEF RequestInv
<1> QED BY <1>3, <1>4 DEF Keeps

(* The refresh a save awaits: the save goes on just as long as it does.     *)
LEMMA RefreshForSaveSends ==
  ASSUME NEW p, NEW v \in Nat, NEW idle, RequestInv(idle, v), ~idle.savingConfig,
         DOMAIN p = Fields, SameShown(p, idle), idle.flight = p.flight,
         idle.monitorLoading = p.monitorLoading, idle.fleetLoading = p.fleetLoading,
         idle.scanning = p.scanning
  PROVE  Keeps(p, RefreshForSave(p), v)
<1> DEFINE asked == Fetch(p, "monitor", TRUE)
           begun == [asked EXCEPT !.monitorLoading = TRUE, !.refreshDisabled = TRUE]
           after == Refresh(p, TRUE)
           saved == RefreshForSave(p)
<1>0. DOMAIN idle = Fields /\ OneEach(idle) /\ SaveOK(idle)
  BY DEF RequestInv
<1>1. /\ DOMAIN asked = Fields
      /\ asked.flight = p.flight \cup {New(p, "monitor", TRUE)}
      /\ SameShown(p, asked)
      /\ asked.fleetLoading = p.fleetLoading /\ asked.scanning = p.scanning
      /\ asked.savingConfig = p.savingConfig
  BY DEF Fetch, New, SameShown, Fields
<1>2. after = IF p.view # "monitor" \/ p.monitorLoading THEN p ELSE begun
  BY DEF Refresh
<1>3. saved = [after EXCEPT !.savingConfig = \E r \in after.flight : r.forSave]
  BY DEF RefreshForSave
<1>4. New(p, "monitor", TRUE) = New(idle, "monitor", TRUE) /\ New(p, "monitor", TRUE).forSave = TRUE
  BY DEF New, Unused, Kinds
<1> HIDE DEF asked, saved, after
<1>5. /\ DOMAIN begun = Fields /\ begun.flight = idle.flight \cup {New(idle, "monitor", TRUE)}
      /\ SameShown(idle, begun) /\ SameShown(p, begun) /\ begun.monitorLoading = TRUE
      /\ begun.fleetLoading = idle.fleetLoading /\ begun.scanning = idle.scanning
  BY <1>1, <1>4 DEF SameShown, Fields
<1> HIDE DEF begun
<1>6. CASE p.view # "monitor" \/ p.monitorLoading
  <2>1. ~\E r \in p.flight : r.forSave
    BY <1>0 DEF SaveOK, Awaited
  <2>2. DOMAIN saved = Fields /\ SameShown(p, saved) /\ SameShown(idle, saved)
        /\ saved.flight = idle.flight /\ saved.monitorLoading = idle.monitorLoading
        /\ saved.fleetLoading = idle.fleetLoading /\ saved.scanning = idle.scanning
        /\ ~saved.savingConfig
    BY <1>2, <1>3, <1>6, <2>1 DEF SameShown, Fields
  <2>3. RequestInv(saved, v)
    BY <2>2 DEF RequestInv, SameShown, FlightOK, OneEach, SaveOK, OrderOK
  <2> QED BY <2>2, <2>3 DEF Keeps, saved
<1>7. CASE ~(p.view # "monitor" \/ p.monitorLoading)
  <2>1. \E r \in begun.flight : r.forSave
    BY <1>4, <1>5
  <2>2. /\ DOMAIN saved = Fields /\ SameShown(p, saved) /\ SameShown(idle, saved)
        /\ saved.flight = idle.flight \cup {New(idle, "monitor", TRUE)}
        /\ saved.monitorLoading = TRUE /\ saved.fleetLoading = idle.fleetLoading
        /\ saved.scanning = idle.scanning /\ saved.savingConfig
    BY <1>2, <1>3, <1>5, <1>7, <2>1 DEF SameShown, Fields
  <2>3. /\ "monitor" \in Views \cup {"scan", "config", "save"} /\ TRUE \in BOOLEAN
        /\ saved.monitorLoading <=> idle.monitorLoading \/ "monitor" = "monitor"
        /\ saved.fleetLoading <=> idle.fleetLoading \/ "monitor" = "fleet"
        /\ saved.scanning <=> idle.scanning \/ "monitor" = "scan"
        /\ saved.savingConfig <=> idle.savingConfig \/ "monitor" = "save" \/ TRUE
        /\ "monitor" # "save"
    BY <2>2 DEF Views
  <2>4. \A r \in idle.flight : r.kind # "monitor"
    BY <1>0, <1>7 DEF OneEach
  <2>5. RequestInv(saved, v)
    BY <2>2, <2>3, <2>4, SentKeeps, Zenon
  <2> QED BY <2>2, <2>5 DEF Keeps, saved
<1> QED BY <1>6, <1>7

---------------------------------------------------------------------------
(* The answers. *)

(* Fewer requests under way need less. *)
LEMMA AnsweredKeeps ==
  ASSUME NEW p, NEW v, RequestInv(p, v), NEW q \in p.flight,
         NEW after, DOMAIN after = Fields, after.flight = p.flight \ {q},
         after.monitorLoading <=> p.monitorLoading /\ q.kind # "monitor",
         after.fleetLoading <=> p.fleetLoading /\ q.kind # "fleet",
         after.scanning <=> p.scanning /\ q.kind # "scan",
         after.savingConfig <=> p.savingConfig /\ ~Awaited(q),
         OrderOK(after, v)
  PROVE  RequestInv(after, v)
<1>1. FlightOK(after)
  BY FS_RemoveElement DEF RequestInv, FlightOK
<1>2. OneEach(after)
  BY DEF RequestInv, OneEach, Views
<1>3. SaveOK(after)
  BY DEF RequestInv, SaveOK
<1> QED BY <1>1, <1>2, <1>3 DEF RequestInv

(* An answer that shows nothing, an error or that of a scan. *)
LEMMA QuietAnswerKeeps ==
  ASSUME NEW p, NEW v, RequestInv(p, v), NEW q \in p.flight,
         NEW after, DOMAIN after = Fields, SameShown(p, after), after.flight = p.flight \ {q},
         after.monitorLoading <=> p.monitorLoading /\ q.kind # "monitor",
         after.fleetLoading <=> p.fleetLoading /\ q.kind # "fleet",
         after.scanning <=> p.scanning /\ q.kind # "scan",
         after.savingConfig <=> p.savingConfig /\ ~Awaited(q)
  PROVE  RequestInv(after, v)
<1>1. OrderOK(after, v)
  BY DEF RequestInv, OrderOK, SameShown
<1> QED BY <1>1, AnsweredKeeps, Zenon

(* renderConfig() replaces the list and overtakes what is under way for it. *)
LEMMA RenderShows ==
  ASSUME NEW p, NEW v, RequestInv(p, v), NEW q, q.seen \in None .. v
  PROVE  RequestInv(RenderConfig(p, q), v)
<1> DEFINE mark == [r \in p.flight |-> IF r.kind \in {"config", "save"}
                                        THEN [r EXCEPT !.overtaken = TRUE] ELSE r]
           after == RenderConfig(p, q)
<1>1. /\ DOMAIN after = Fields /\ after.flight = {mark[r] : r \in p.flight}
      /\ after.listed = q.seen
      /\ after.lastReport = p.lastReport /\ after.lastView = p.lastView
      /\ after.fleetRows = p.fleetRows
      /\ after.monitorLoading = p.monitorLoading /\ after.fleetLoading = p.fleetLoading
      /\ after.scanning = p.scanning /\ after.savingConfig = p.savingConfig
  BY DEF RenderConfig, RequestInv, Fields
<1> HIDE DEF after
<1>2. p.flight \subseteq Request
  BY DEF RequestInv, FlightOK
<1>3. \A r \in p.flight :
        /\ mark[r] \in Request
        /\ mark[r].kind = r.kind /\ mark[r].n = r.n /\ mark[r].seen = r.seen
        /\ mark[r].forSave = r.forSave
        /\ r.kind \in {"config", "save"} => mark[r].overtaken = TRUE
  BY <1>2 DEF Request
<1>4. IsFiniteSet(after.flight)
  <2>1. mark \in Surjection(p.flight, after.flight)
    BY <1>1 DEF Surjection
  <2> HIDE DEF mark
  <2> QED BY <2>1, FS_Surjection DEF RequestInv, FlightOK
<1> HIDE DEF mark
<1>5. \A s \in after.flight : \E r \in p.flight : s = mark[r]
  BY <1>1
<1>6. \A r \in p.flight : mark[r] \in after.flight
  BY <1>1
<1>7. FlightOK(p) /\ OneEach(p) /\ SaveOK(p) /\ OrderOK(p, v)
  BY DEF RequestInv
<1>8. FlightOK(after)
  <2>1. after.flight \subseteq Request
    BY <1>3, <1>5
  <2>2. ASSUME NEW s \in after.flight, NEW t \in after.flight, s.kind = t.kind, s.n = t.n
        PROVE  s = t
    <3>1. PICK r \in p.flight : s = mark[r]
      BY <1>5
    <3>2. PICK u \in p.flight : t = mark[u]
      BY <1>5
    <3> QED BY <1>3, <1>7, <2>2, <3>1, <3>2 DEF FlightOK
  <2> QED BY <1>4, <2>1, <2>2 DEF FlightOK
<1>9. OneEach(after)
  <2>1. ASSUME NEW s \in after.flight, NEW t \in after.flight,
               s.kind = t.kind, s.kind \in Views \cup {"scan"}
        PROVE  s = t
    <3>1. PICK r \in p.flight : s = mark[r]
      BY <1>5
    <3>2. PICK u \in p.flight : t = mark[u]
      BY <1>5
    <3> QED BY <1>3, <1>7, <2>1, <3>1, <3>2 DEF OneEach
  <2>2. \A kind : (\E s \in after.flight : s.kind = kind) <=> \E r \in p.flight : r.kind = kind
    BY <1>3, <1>5, <1>6
  <2> QED BY <1>1, <1>7, <2>1, <2>2 DEF OneEach
<1>10. SaveOK(after)
  <2>1. ASSUME NEW s \in after.flight, NEW t \in after.flight, Awaited(s), Awaited(t)
        PROVE  s = t
    <3>1. PICK r \in p.flight : s = mark[r]
      BY <1>5
    <3>2. PICK u \in p.flight : t = mark[u]
      BY <1>5
    <3> QED BY <1>3, <1>7, <2>1, <3>1, <3>2 DEF SaveOK, Awaited
  <2>2. \A s \in after.flight : s.forSave => s.kind = "monitor"
    BY <1>3, <1>5, <1>7 DEF SaveOK
  <2>3. (\E s \in after.flight : Awaited(s)) <=> \E r \in p.flight : Awaited(r)
    BY <1>3, <1>5, <1>6 DEF Awaited
  <2> QED BY <1>1, <1>7, <2>1, <2>2, <2>3 DEF SaveOK
<1>11. OrderOK(after, v)
  <2>1. ASSUME NEW s \in after.flight
        PROVE  /\ s.seen \in None .. v
               /\ s.seen # None =>
                    /\ s.kind = p.lastView => s.seen >= p.lastReport
                    /\ s.kind = "fleet" => s.seen >= p.fleetRows
                    /\ s.kind \in {"config", "save"} => s.overtaken = TRUE
    <3>1. PICK r \in p.flight : s = mark[r]
      BY <1>5
    <3> QED BY <1>3, <1>7, <3>1 DEF OrderOK
  <2> QED BY <1>1, <1>7, <2>1 DEF OrderOK
<1> QED BY <1>1, <1>8, <1>9, <1>10, <1>11 DEF after, RequestInv

(* What a step may not do to the report and to the list that are shown.     *)
ReportStep == /\ page'.lastReport < page.lastReport => page'.lastView # page.lastView
              /\ page'.fleetRows >= page.fleetRows

ListStep == page'.listed < page.listed => \E q \in page.flight \ page'.flight : q.overtaken

(* A step that shows nothing new does not do it. *)
LEMMA SameShownStep ==
  ASSUME RequestInv(page, version), SameShown(page, page')
  PROVE  ReportStep /\ ListStep
<1>1. page.lastReport \in Int /\ page.fleetRows \in Int /\ page.listed \in Int
  BY DEF RequestInv, OrderOK, None
<1> QED BY <1>1 DEF SameShown, ReportStep, ListStep

(* The Hub does not get older. *)
LEMMA LaterKeeps ==
  ASSUME NEW p, NEW v \in Nat, RequestInv(p, v), NEW w \in Nat, v <= w
  PROVE  RequestInv(p, w)
<1>1. OrderOK(p, w)
  BY DEF RequestInv, OrderOK, None
<1> QED BY <1>1 DEF RequestInv

(* The version a change leads to is the next one, or the last. *)
LEMMA GrownIsLater ==
  ASSUME VersionOK
  PROVE  version \in Nat /\ Grown \in Nat /\ version <= Grown /\ Grown <= MaxChanges
  BY MonitorAssumption DEF VersionOK, Grown

(* The Hub reads what it answers with: nothing newer exists. *)
LEMMA ServedKeeps ==
  ASSUME RequestInv(page, version), NEW q \in page.flight, q.seen = None,
         NEW v \in Nat, RequestInv(page, v)
  PROVE  RequestInv(Served(q, v), v) /\ SameShown(page, Served(q, v))
<1> DEFINE read == [q EXCEPT !.seen = v]
           after == Served(q, v)
<1>0. FlightOK(page) /\ OneEach(page) /\ SaveOK(page) /\ OrderOK(page, v) /\ DOMAIN page = Fields
  BY DEF RequestInv
<1>1. q \in Request
  BY <1>0 DEF FlightOK
<1>2. /\ read \in Request /\ read.seen = v
      /\ read.kind = q.kind /\ read.n = q.n /\ read.forSave = q.forSave
  BY <1>1 DEF Request
<1>3. /\ DOMAIN after = Fields /\ after.flight = (page.flight \ {q}) \cup {read}
      /\ SameShown(page, after)
      /\ after.monitorLoading = page.monitorLoading /\ after.fleetLoading = page.fleetLoading
      /\ after.scanning = page.scanning /\ after.savingConfig = page.savingConfig
  BY <1>0 DEF Served, SameShown, Fields
<1> HIDE DEF read, after
<1>4. FlightOK(after)
  <2>1. IsFiniteSet(after.flight)
    <3>1. IsFiniteSet(page.flight \ {q})
      BY <1>0, FS_RemoveElement DEF FlightOK
    <3> QED BY <1>3, <3>1, FS_AddElement
  <2> QED BY <1>0, <1>2, <1>3, <2>1 DEF FlightOK
<1>5. OneEach(after)
  BY <1>0, <1>2, <1>3 DEF OneEach
<1>6. SaveOK(after)
  BY <1>0, <1>2, <1>3 DEF SaveOK, Awaited
<1>7. OrderOK(after, v)
  BY <1>0, <1>2, <1>3 DEF OrderOK, SameShown, None
<1> QED BY <1>3, <1>4, <1>5, <1>6, <1>7 DEF after, RequestInv

(* The report of the monitor replaces that of the same screen only by a     *)
(* newer one: no other request for it was under way.                        *)
LEMMA MonitorAnswerKeeps ==
  ASSUME RequestInv(page, version), NEW q \in page.flight, MonitorAnswer(q)
  PROVE  RequestInv(page', version) /\ ReportStep /\ ListStep
<1>0. FlightOK(page) /\ OneEach(page) /\ SaveOK(page) /\ OrderOK(page, version)
      /\ DOMAIN page = Fields
  BY DEF RequestInv
<1>1. q.kind = "monitor" /\ (q.forSave <=> Awaited(q))
  BY DEF MonitorAnswer, Awaited
<1>2. /\ DOMAIN page' = Fields /\ page'.flight = page.flight \ {q}
      /\ ~page'.monitorLoading /\ page'.fleetLoading = page.fleetLoading
      /\ page'.scanning = page.scanning
      /\ page'.savingConfig <=> page.savingConfig /\ ~q.forSave
      /\ page'.fleetRows = page.fleetRows /\ page'.listed = page.listed
      /\ \/ SameShown(page, page')
         \/ q.seen # None /\ page'.lastReport = q.seen /\ page'.lastView = "monitor"
  BY <1>0 DEF MonitorAnswer, MonitorDone, Answered, SameShown, Fields
<1>3. OrderOK(page', version) /\ ReportStep /\ ListStep
  <2>1. CASE SameShown(page, page')
    <3>1. OrderOK(page', version)
      BY <1>0, <1>2, <2>1 DEF OrderOK, SameShown
    <3> QED BY <2>1, <3>1, SameShownStep
  <2>2. CASE q.seen # None /\ page'.lastReport = q.seen /\ page'.lastView = "monitor"
    <3>1. \A r \in page'.flight : r.kind # "monitor"
      BY <1>0, <1>1, <1>2 DEF OneEach, Views
    <3>2. OrderOK(page', version)
      BY <1>0, <1>2, <2>2, <3>1 DEF OrderOK
    <3>3. page.lastReport \in Int /\ page.fleetRows \in Int /\ page.listed \in Int /\ q.seen \in Int
      BY <1>0 DEF OrderOK, None
    <3>4. page.lastView = "monitor" => q.seen >= page.lastReport
      BY <1>0, <1>1, <2>2 DEF OrderOK
    <3> QED BY <1>2, <2>2, <3>2, <3>3, <3>4 DEF ReportStep, ListStep
  <2> QED BY <1>2, <2>1, <2>2
<1> QED BY <1>0, <1>1, <1>2, <1>3, AnsweredKeeps

(* That of the fleet likewise, and so does the table of the fleet. *)
LEMMA FleetAnswerKeeps ==
  ASSUME RequestInv(page, version), NEW q \in page.flight, FleetAnswer(q)
  PROVE  RequestInv(page', version) /\ ReportStep /\ ListStep
<1>0. FlightOK(page) /\ OneEach(page) /\ SaveOK(page) /\ OrderOK(page, version)
      /\ DOMAIN page = Fields
  BY DEF RequestInv
<1>1. q.kind = "fleet" /\ ~Awaited(q)
  BY <1>0 DEF FleetAnswer, Awaited, SaveOK
<1>2. /\ DOMAIN page' = Fields /\ page'.flight = page.flight \ {q}
      /\ ~page'.fleetLoading /\ page'.monitorLoading = page.monitorLoading
      /\ page'.scanning = page.scanning /\ page'.savingConfig = page.savingConfig
      /\ page'.listed = page.listed
      /\ \/ SameShown(page, page')
         \/ /\ q.seen # None /\ page'.lastReport = q.seen /\ page'.lastView = "fleet"
            /\ page'.fleetRows = q.seen
  BY <1>0 DEF FleetAnswer, FleetDone, Answered, SameShown, Fields
<1>3. OrderOK(page', version) /\ ReportStep /\ ListStep
  <2>1. CASE SameShown(page, page')
    <3>1. OrderOK(page', version)
      BY <1>0, <1>2, <2>1 DEF OrderOK, SameShown
    <3> QED BY <2>1, <3>1, SameShownStep
  <2>2. CASE /\ q.seen # None /\ page'.lastReport = q.seen /\ page'.lastView = "fleet"
             /\ page'.fleetRows = q.seen
    <3>1. \A r \in page'.flight : r.kind # "fleet"
      BY <1>0, <1>1, <1>2 DEF OneEach, Views
    <3>2. OrderOK(page', version)
      BY <1>0, <1>2, <2>2, <3>1 DEF OrderOK
    <3>3. page.lastReport \in Int /\ page.fleetRows \in Int /\ page.listed \in Int /\ q.seen \in Int
      BY <1>0 DEF OrderOK, None
    <3>4. /\ page.lastView = "fleet" => q.seen >= page.lastReport
          /\ q.seen >= page.fleetRows
      BY <1>0, <1>1, <2>2 DEF OrderOK
    <3> QED BY <1>2, <2>2, <3>2, <3>3, <3>4 DEF ReportStep, ListStep
  <2> QED BY <1>2, <2>1, <2>2
<1> QED BY <1>0, <1>1, <1>2, <1>3, AnsweredKeeps

(* A scan shows no report. *)
LEMMA ScanAnswerKeeps ==
  ASSUME RequestInv(page, version), NEW q \in page.flight, ScanAnswer(q)
  PROVE  RequestInv(page', version) /\ ReportStep /\ ListStep
<1>0. SaveOK(page) /\ DOMAIN page = Fields
  BY DEF RequestInv
<1>1. q.kind = "scan" /\ ~Awaited(q)
  BY <1>0 DEF ScanAnswer, Awaited, SaveOK
<1>2. /\ DOMAIN page' = Fields /\ page'.flight = page.flight \ {q} /\ SameShown(page, page')
      /\ page'.monitorLoading = page.monitorLoading /\ page'.fleetLoading = page.fleetLoading
      /\ ~page'.scanning /\ page'.savingConfig = page.savingConfig
  BY <1>0 DEF ScanAnswer, Answered, SameShown, Fields
<1> QED BY <1>1, <1>2, QuietAnswerKeeps, SameShownStep

(* A rendered list is older than the one before only if its answer was      *)
(* overtaken, and its request is gone then: no other has its number.        *)
LEMMA RenderedStep ==
  ASSUME RequestInv(page, version), NEW q \in page.flight, q.kind \in {"config", "save"},
         q.seen # None, NEW rest, rest.flight = page.flight \ {q},
         page'.listed = q.seen,
         \A s \in page'.flight : \/ s.kind = "monitor"
                                \/ \E r \in rest.flight : s.kind = r.kind /\ s.n = r.n
  PROVE  ListStep
<1>1. q \notin page'.flight
  BY DEF RequestInv, FlightOK
<1>2. ~q.overtaken => q.seen >= page.listed
  BY DEF RequestInv, OrderOK
<1>3. q.seen \in Int /\ page.listed \in Int
  BY DEF RequestInv, OrderOK, None
<1> QED BY <1>1, <1>2, <1>3 DEF ListStep

(* What renderConfig() leaves of the requests and of the reports. *)
LEMMA RenderedPage ==
  ASSUME NEW p, DOMAIN p = Fields, p.flight \subseteq Request, NEW q,
         NEW after, after = RenderConfig(p, q)
  PROVE  /\ DOMAIN after = Fields /\ after.listed = q.seen
         /\ after.lastReport = p.lastReport /\ after.lastView = p.lastView
         /\ after.fleetRows = p.fleetRows
         /\ \A s \in after.flight : \E r \in p.flight : s.kind = r.kind /\ s.n = r.n
<1>1. /\ DOMAIN after = Fields /\ after.listed = q.seen
      /\ after.lastReport = p.lastReport /\ after.lastView = p.lastView
      /\ after.fleetRows = p.fleetRows
      /\ after.flight = {IF r.kind \in {"config", "save"} THEN [r EXCEPT !.overtaken = TRUE] ELSE r
                         : r \in p.flight}
  BY DEF RenderConfig, Fields
<1>2. ASSUME NEW s \in after.flight
      PROVE  \E r \in p.flight : s.kind = r.kind /\ s.n = r.n
  <2>1. PICK r \in p.flight : s = IF r.kind \in {"config", "save"}
                                 THEN [r EXCEPT !.overtaken = TRUE] ELSE r
    BY <1>1
  <2> QED BY <2>1 DEF Request
<1> QED BY <1>1, <1>2

(* An answer to a load of the dialog. *)
LEMMA ConfigAnswerKeeps ==
  ASSUME RequestInv(page, version), NEW q \in page.flight, ConfigAnswer(q)
  PROVE  RequestInv(page', version) /\ ReportStep /\ ListStep
<1> DEFINE rest == Answered(q)
<1>0. FlightOK(page) /\ SaveOK(page) /\ OrderOK(page, version) /\ DOMAIN page = Fields
  BY DEF RequestInv
<1>1. q.kind = "config" /\ ~Awaited(q)
  BY <1>0 DEF ConfigAnswer, Awaited, SaveOK
<1>2. /\ DOMAIN rest = Fields /\ rest.flight = page.flight \ {q} /\ SameShown(page, rest)
      /\ rest.monitorLoading = page.monitorLoading /\ rest.fleetLoading = page.fleetLoading
      /\ rest.scanning = page.scanning /\ rest.savingConfig = page.savingConfig
  BY <1>0 DEF Answered, SameShown, Fields
<1>3. page' = rest \/ (q.seen # None /\ page' = RenderConfig(rest, q))
  BY DEF ConfigAnswer
<1> HIDE DEF rest
<1>4. RequestInv(rest, version)
  BY <1>1, <1>2, QuietAnswerKeeps
<1>5. CASE page' = rest
  BY <1>2, <1>4, <1>5, SameShownStep
<1>6. CASE q.seen # None /\ page' = RenderConfig(rest, q)
  <2>1. q.seen \in None .. version
    BY <1>0 DEF OrderOK
  <2>2. RequestInv(page', version)
    BY <1>4, <1>6, <2>1, RenderShows, Zenon
  <2>3. /\ page'.listed = q.seen
        /\ page'.lastReport = rest.lastReport /\ page'.fleetRows = rest.fleetRows
        /\ \A s \in page'.flight : \E r \in rest.flight : s.kind = r.kind /\ s.n = r.n
    <3>1. rest.flight \subseteq Request
      BY <1>0, <1>2 DEF FlightOK
    <3> QED BY <1>2, <1>6, <3>1, RenderedPage
  <2>4. ListStep
    BY <1>1, <1>2, <1>6, <2>3, RenderedStep
  <2>5. ReportStep
    BY <1>0, <1>2, <2>3 DEF ReportStep, SameShown, OrderOK, None
  <2> QED BY <2>2, <2>4, <2>5
<1> QED BY <1>3, <1>5, <1>6

(* An answer to a save, and the refresh that follows a good one.            *)
LEMMA SaveAnswerKeeps ==
  ASSUME VersionOK, RequestInv(page, version), NEW q \in page.flight, SaveAnswer(q)
  PROVE  RequestInv(page', version) /\ ReportStep /\ ListStep
<1> DEFINE rest == Answered(q)
           idle == [rest EXCEPT !.savingConfig = FALSE]
<1>0. FlightOK(page) /\ SaveOK(page) /\ OrderOK(page, version) /\ DOMAIN page = Fields
  BY DEF RequestInv
<1>1. q.kind = "save" /\ Awaited(q)
  BY DEF SaveAnswer, Awaited
<1>2. /\ DOMAIN rest = Fields /\ rest.flight = page.flight \ {q} /\ SameShown(page, rest)
      /\ rest.monitorLoading = page.monitorLoading /\ rest.fleetLoading = page.fleetLoading
      /\ rest.scanning = page.scanning
  BY <1>0 DEF Answered, SameShown, Fields
<1>3. page' = idle \/ (q.seen # None /\ page' = RefreshForSave(RenderConfig(rest, q)))
  BY DEF SaveAnswer
<1> HIDE DEF rest
<1>4. /\ DOMAIN idle = Fields /\ idle.flight = rest.flight /\ SameShown(page, idle)
      /\ idle.monitorLoading = page.monitorLoading /\ idle.fleetLoading = page.fleetLoading
      /\ idle.scanning = page.scanning /\ idle.savingConfig = FALSE
  BY <1>2 DEF SameShown, Fields
<1>5. /\ RenderConfig(idle, q).flight = RenderConfig(rest, q).flight
      /\ SameShown(RenderConfig(rest, q), RenderConfig(idle, q))
      /\ RenderConfig(idle, q).monitorLoading = RenderConfig(rest, q).monitorLoading
      /\ RenderConfig(idle, q).fleetLoading = RenderConfig(rest, q).fleetLoading
      /\ RenderConfig(idle, q).scanning = RenderConfig(rest, q).scanning
      /\ RenderConfig(idle, q).savingConfig = FALSE
  BY <1>2, <1>4 DEF RenderConfig, SameShown, Fields
<1> HIDE DEF idle
<1>6. RequestInv(idle, version)
  BY <1>1, <1>2, <1>4, QuietAnswerKeeps
<1>7. CASE page' = idle
  BY <1>4, <1>6, <1>7, SameShownStep
<1>8. CASE q.seen # None /\ page' = RefreshForSave(RenderConfig(rest, q))
  <2> DEFINE shown == RenderConfig(rest, q)
             shownIdle == RenderConfig(idle, q)
  <2>0. q.seen \in None .. version /\ version \in Nat
    BY <1>0 DEF OrderOK, VersionOK
  <2>1. RequestInv(shownIdle, version)
    BY <1>6, <2>0, RenderShows, Zenon
  <2>2. /\ DOMAIN shown = Fields /\ shown.listed = q.seen
        /\ shown.lastReport = rest.lastReport /\ shown.fleetRows = rest.fleetRows
        /\ \A s \in shown.flight : \E r \in rest.flight : s.kind = r.kind /\ s.n = r.n
    <3>1. rest.flight \subseteq Request
      BY <1>0, <1>2 DEF FlightOK
    <3> QED BY <1>2, <3>1, RenderedPage
  <2>3. page' = RefreshForSave(shown)
    BY <1>8
  <2>4. page'.flight = shown.flight \/ page'.flight = shown.flight \cup {New(shown, "monitor", TRUE)}
    <3>1. DOMAIN Refresh(shown, TRUE) = Fields /\
          Refresh(shown, TRUE).flight \in {shown.flight, shown.flight \cup {New(shown, "monitor", TRUE)}}
      <4> HIDE DEF shown
      <4> QED BY <2>2 DEF Refresh, Fetch, New, Fields
    <3> HIDE DEF shown
    <3> QED BY <2>3, <3>1 DEF RefreshForSave, Fields
  <2> HIDE DEF shown, shownIdle
  <2>5. Keeps(shown, page', version)
    BY <1>5, <2>0, <2>1, <2>2, <2>3, RefreshForSaveSends DEF shown, shownIdle
  <2>6. RequestInv(page', version) /\ SameShown(shown, page')
    BY <2>5 DEF Keeps
  <2>7. \A s \in page'.flight : \/ s.kind = "monitor"
                                \/ \E r \in rest.flight : s.kind = r.kind /\ s.n = r.n
    BY <2>2, <2>4 DEF New
  <2>8. ListStep
    <3>1. page'.listed = q.seen
      BY <2>2, <2>6 DEF SameShown
    <3> QED BY <1>1, <1>2, <1>8, <2>7, <3>1, RenderedStep
  <2>9. ReportStep
    BY <1>0, <1>2, <2>2, <2>6 DEF ReportStep, SameShown, OrderOK, None
  <2> QED BY <2>6, <2>8, <2>9
<1> QED BY <1>3, <1>7, <1>8

---------------------------------------------------------------------------
(* The actions. *)

(* Every arrival of a request at the Hub and of an answer at the page. *)
LEMMA AnswerStep ==
  ASSUME RequestsOK, NEW q \in page.flight, Answer(q)
  PROVE  RequestsOK' /\ ReportStep /\ ListStep
<1>1. RequestInv(page, version) /\ VersionOK
  BY DEF RequestsOK
<1>2. /\ version \in Nat /\ Grown \in Nat /\ version <= Grown /\ Grown <= MaxChanges
      /\ MaxChanges \in Nat
  BY <1>1, GrownIsLater, MonitorAssumption
<1>3. CASE ServeRead(q)
  <2>1. q.seen = None /\ page' = Served(q, version) /\ UNCHANGED others
    BY <1>3 DEF ServeRead, Loaded
  <2>2. RequestInv(page', version) /\ SameShown(page, page')
    BY <1>1, <1>2, <2>1, ServedKeeps, Zenon
  <2> QED BY <1>1, <2>1, <2>2, SameShownStep DEF RequestsOK, VersionOK, others
<1>4. CASE ServeSave(q)
  <2>1. /\ q.seen = None /\ page' = Served(q, Grown) /\ version' = Grown /\ UNCHANGED reloads
    BY <1>4 DEF ServeSave
  <2>2. RequestInv(page, Grown)
    BY <1>1, <1>2, LaterKeeps
  <2>3. RequestInv(page', Grown) /\ SameShown(page, page')
    BY <1>1, <1>2, <2>1, <2>2, ServedKeeps, Zenon
  <2>4. VersionOK'
    BY <1>1, <1>2, <2>1 DEF VersionOK
  <2> QED BY <1>1, <2>1, <2>3, <2>4, SameShownStep DEF RequestsOK
<1>5. CASE MonitorAnswer(q) \/ FleetAnswer(q) \/ ScanAnswer(q) \/ ConfigAnswer(q) \/ SaveAnswer(q)
  <2>1. UNCHANGED others
    BY <1>5, Zenon DEF MonitorAnswer, FleetAnswer, ScanAnswer, ConfigAnswer, SaveAnswer
  <2>2. RequestInv(page', version) /\ ReportStep /\ ListStep
    BY <1>1, <1>5, MonitorAnswerKeeps, FleetAnswerKeeps, ScanAnswerKeeps, ConfigAnswerKeeps,
       SaveAnswerKeeps
  <2> QED BY <1>1, <2>1, <2>2 DEF RequestsOK, VersionOK, others
<1> QED BY <1>3, <1>4, <1>5 DEF Answer

(* Every step keeps the invariant, and none but a reload loses what is      *)
(* shown where it may not.                                                  *)
LEMMA RequestsNext ==
  ASSUME RequestsOK, [Next]_vars
  PROVE  RequestsOK' /\ (reloads' = reloads => ReportStep /\ ListStep)
<1>1. RequestInv(page, version) /\ VersionOK /\ version \in Nat /\ DOMAIN page = Fields
  BY DEF RequestsOK, VersionOK, RequestInv
<1>2. ASSUME UNCHANGED others, Keeps(page, page', version)
      PROVE  RequestsOK' /\ ReportStep /\ ListStep
  BY <1>1, <1>2, SameShownStep DEF Keeps, RequestsOK, VersionOK, others
<1>3. ASSUME NEW view \in Views, ChooseView(view) PROVE Keeps(page, page', version)
  BY <1>1, <1>3, ActivateSends, Zenon DEF ChooseView
<1>4. ASSUME HideTab PROVE Keeps(page, page', version)
  <2>1. DOMAIN page' = Fields /\ SameRequests(page, page')
    BY <1>1, <1>4 DEF HideTab, StopPolling, SameRequests, SameShown, Fields
  <2> QED BY <1>1, <2>1, SameRequestsKeep DEF Keeps, SameRequests
<1>5. ASSUME ShowTab PROVE Keeps(page, page', version)
  <2> DEFINE visible == [page EXCEPT !.hidden = FALSE]
  <2>1. DOMAIN visible = Fields /\ SameRequests(page, visible)
    BY <1>1 DEF SameRequests, SameShown, Fields
  <2>2. page' = ActivateView(visible, page.view)
    BY <1>5 DEF ShowTab
  <2> HIDE DEF visible
  <2>3. RequestInv(visible, version)
    BY <1>1, <2>1, SameRequestsKeep, Zenon
  <2>4. Keeps(visible, page', version)
    BY <1>1, <2>2, <2>3, ActivateSends, Zenon
  <2> QED BY <2>1, <2>4 DEF Keeps, SameRequests, SameShown
<1>6. ASSUME ClickRefresh PROVE Keeps(page, page', version)
  <2>1. Keeps(page, RefreshActiveView(page), version) /\ Keeps(page, RefreshFleet(page), version)
    BY <1>1, RefreshSends, RefreshFleetSends, Zenon DEF RefreshActiveView
  <2> QED BY <1>6, <2>1, Zenon DEF ClickRefresh
<1>7. ASSUME ClickScan PROVE Keeps(page, page', version)
  BY <1>1, <1>7, ScanLANSends, Zenon DEF ClickScan
<1>8. CASE Reload
  <2>1. page' = Open(page.view, FALSE, page.storedAttempt, page.storedScan, page.autoScans)
        /\ reloads < MaxReloads /\ reloads' = reloads + 1 /\ UNCHANGED <<version, user>>
    BY <1>8, Zenon DEF Reload
  <2>2. RequestInv(page', version)
    BY <1>1, <2>1, OpenSends, Zenon
  <2>3. RequestInv(page', version')
    BY <2>1, <2>2
  <2>4. VersionOK' /\ reloads' # reloads
    BY <1>1, <2>1, MonitorAssumption DEF VersionOK
  <2> QED BY <2>3, <2>4 DEF RequestsOK
<1>9. ASSUME OpenConfig PROVE Keeps(page, page', version)
  <2> DEFINE asked == Fetch(page, "config", FALSE)
  <2>1. /\ DOMAIN asked = Fields /\ asked.flight = page.flight \cup {New(page, "config", FALSE)}
        /\ SameShown(page, asked)
        /\ asked.monitorLoading = page.monitorLoading /\ asked.fleetLoading = page.fleetLoading
        /\ asked.scanning = page.scanning /\ asked.savingConfig = page.savingConfig
    BY <1>1 DEF Fetch, New, SameShown, Fields
  <2>2. page' = [asked EXCEPT !.dialog = TRUE]
    BY <1>9 DEF OpenConfig
  <2> HIDE DEF asked
  <2>3. /\ DOMAIN page' = Fields /\ page'.flight = page.flight \cup {New(page, "config", FALSE)}
        /\ SameShown(page, page')
        /\ page'.monitorLoading = page.monitorLoading /\ page'.fleetLoading = page.fleetLoading
        /\ page'.scanning = page.scanning /\ page'.savingConfig = page.savingConfig
    BY <2>1, <2>2 DEF SameShown, Fields
  <2>4. /\ "config" \in Views \cup {"scan", "config", "save"} /\ FALSE \in BOOLEAN
        /\ "config" \notin Views \cup {"scan"}
        /\ page'.monitorLoading <=> page.monitorLoading \/ "config" = "monitor"
        /\ page'.fleetLoading <=> page.fleetLoading \/ "config" = "fleet"
        /\ page'.scanning <=> page.scanning \/ "config" = "scan"
        /\ page'.savingConfig <=> page.savingConfig \/ "config" = "save" \/ FALSE
        /\ "config" # "save"
    BY <2>3 DEF Views
  <2>5. RequestInv(page', version)
    BY <1>1, <2>3, <2>4, SentKeeps, Zenon
  <2> QED BY <2>3, <2>5 DEF Keeps
<1>10. ASSUME CloseConfig PROVE Keeps(page, page', version)
  <2>1. DOMAIN page' = Fields /\ SameRequests(page, page')
    BY <1>1, <1>10 DEF CloseConfig, SameRequests, SameShown, Fields
  <2> QED BY <1>1, <2>1, SameRequestsKeep DEF Keeps, SameRequests
<1>11. ASSUME SubmitConfig PROVE Keeps(page, page', version)
  <2> DEFINE asked == Fetch(page, "save", FALSE)
  <2>1. /\ DOMAIN asked = Fields /\ asked.flight = page.flight \cup {New(page, "save", FALSE)}
        /\ SameShown(page, asked)
        /\ asked.monitorLoading = page.monitorLoading /\ asked.fleetLoading = page.fleetLoading
        /\ asked.scanning = page.scanning
    BY <1>1 DEF Fetch, New, SameShown, Fields
  <2>2. page' = [asked EXCEPT !.savingConfig = TRUE] /\ ~page.savingConfig
    BY <1>11 DEF SubmitConfig
  <2> HIDE DEF asked
  <2>3. /\ DOMAIN page' = Fields /\ page'.flight = page.flight \cup {New(page, "save", FALSE)}
        /\ SameShown(page, page')
        /\ page'.monitorLoading = page.monitorLoading /\ page'.fleetLoading = page.fleetLoading
        /\ page'.scanning = page.scanning /\ page'.savingConfig = TRUE
    BY <2>1, <2>2 DEF SameShown, Fields
  <2>4. /\ "save" \in Views \cup {"scan", "config", "save"} /\ FALSE \in BOOLEAN
        /\ "save" \notin Views \cup {"scan"}
        /\ page'.monitorLoading <=> page.monitorLoading \/ "save" = "monitor"
        /\ page'.fleetLoading <=> page.fleetLoading \/ "save" = "fleet"
        /\ page'.scanning <=> page.scanning \/ "save" = "scan"
        /\ page'.savingConfig <=> page.savingConfig \/ "save" = "save" \/ FALSE
        /\ ~page.savingConfig
    BY <2>2, <2>3 DEF Views
  <2>5. RequestInv(page', version)
    BY <1>1, <2>3, <2>4, SentKeeps, Zenon
  <2> QED BY <2>3, <2>5 DEF Keeps
<1>12. CASE Change
  <2>1. version' = Grown /\ UNCHANGED <<page, reloads>>
    BY <1>12 DEF Change
  <2>2. Grown \in Nat /\ version <= Grown /\ Grown <= MaxChanges /\ MaxChanges \in Nat
    BY <1>1, GrownIsLater, MonitorAssumption
  <2>3. RequestInv(page, Grown)
    BY <1>1, <2>2, LaterKeeps
  <2>4. VersionOK'
    BY <1>1, <2>1, <2>2 DEF VersionOK
  <2> QED BY <1>1, <2>1, <2>3, <2>4, SameShownStep DEF RequestsOK, SameShown
<1>13. ASSUME MonitorTick PROVE Keeps(page, page', version)
  BY <1>1, <1>13, RefreshSends, Zenon DEF MonitorTick
<1>14. ASSUME FleetTick PROVE Keeps(page, page', version)
  BY <1>1, <1>14, RefreshFleetSends, Zenon DEF FleetTick
<1>15. ASSUME NEW q \in page.flight, Answer(q) PROVE RequestsOK' /\ ReportStep /\ ListStep
  BY <1>15, AnswerStep
<1>16. CASE UNCHANGED vars
  BY <1>1, <1>16, SameShownStep DEF vars, RequestsOK, VersionOK, SameShown
<1>17. /\ \A view \in Views : ChooseView(view) => UNCHANGED others
       /\ HideTab \/ ShowTab \/ ClickRefresh \/ ClickScan => UNCHANGED others
       /\ OpenConfig \/ CloseConfig \/ SubmitConfig \/ MonitorTick \/ FleetTick => UNCHANGED others
  BY Zenon DEF ChooseView, HideTab, ShowTab, ClickRefresh, ClickScan, OpenConfig, CloseConfig,
               SubmitConfig, MonitorTick, FleetTick
<1> QED
  BY <1>2, <1>3, <1>4, <1>5, <1>6, <1>7, <1>8, <1>9, <1>10, <1>11, <1>12, <1>13, <1>14, <1>15,
     <1>16, <1>17 DEF Next

(* The page is opened with nothing shown. *)
LEMMA RequestsInit == Init => RequestsOK
<1> SUFFICES ASSUME Init PROVE RequestsOK
  OBVIOUS
<1>1. PICK view \in Views, known \in BOOLEAN, hidden \in BOOLEAN :
        page = Open(view, hidden, known, known, 0)
  <2>1. \E view \in Views, known \in IF user = "scans" THEN BOOLEAN ELSE {TRUE} :
          \E hidden \in IF OpenHidden THEN BOOLEAN ELSE {FALSE} :
            page = Open(view, hidden, known, known, 0)
    BY Zenon DEF Init
  <2> QED BY <2>1
<1>2. version = 0 /\ reloads = 0
  BY DEF Init
<1>3. RequestInv(page, 0)
  BY <1>1, OpenSends, Zenon
<1> QED BY <1>2, <1>3, MonitorAssumption DEF RequestsOK, VersionOK

(* So it holds in every behaviour. *)
LEMMA RequestsAlways == Spec => []RequestsOK
<1>1. RequestsOK /\ [Next]_vars => RequestsOK'
  BY RequestsNext
<1> QED BY <1>1, RequestsInit, PTL DEF Spec

---------------------------------------------------------------------------

(* A set with one member at most has as many as there are. *)
LEMMA KindsCounted ==
  ASSUME NEW p, FlightOK(p), OneEach(p), NEW kind \in Views \cup {"scan"}
  PROVE  Cardinality(Kinds(p, kind)) = IF \E q \in p.flight : q.kind = kind THEN 1 ELSE 0
<1>1. CASE \E q \in p.flight : q.kind = kind
  <2>1. PICK q \in p.flight : q.kind = kind
    BY <1>1
  <2>2. Kinds(p, kind) = {q}
    BY <2>1 DEF Kinds, OneEach
  <2> QED BY <1>1, <2>2, FS_Singleton
<1>2. CASE ~\E q \in p.flight : q.kind = kind
  <2>1. Kinds(p, kind) = {}
    BY <1>2 DEF Kinds
  <2> QED BY <1>2, <2>1, FS_EmptySet
<1> QED BY <1>1, <1>2

(* Each screen and the scan have one request under way just when their     *)
(* flags say so, and a save goes on just as long as its request or the     *)
(* refresh it awaits, whatever answers come late, wrong or not at all.     *)
THEOREM FlagsAreRequests == Spec => []TypeOK
<1>1. PageInv(page) /\ RequestsOK => TypeOK
  <2> SUFFICES ASSUME PageInv(page), RequestsOK PROVE TypeOK
    OBVIOUS
  <2>1. FlightOK(page) /\ OneEach(page) /\ SaveOK(page) /\ VersionOK /\ page.view \in Views
    BY DEF RequestsOK, RequestInv, PageInv
  <2>2. /\ Cardinality(Kinds(page, "monitor")) = IF page.monitorLoading THEN 1 ELSE 0
        /\ Cardinality(Kinds(page, "fleet")) = IF page.fleetLoading THEN 1 ELSE 0
        /\ Cardinality(Kinds(page, "scan")) = IF page.scanning THEN 1 ELSE 0
    <3>1. \A kind \in {"monitor", "fleet", "scan"} :
            Cardinality(Kinds(page, kind)) = IF \E q \in page.flight : q.kind = kind THEN 1 ELSE 0
      BY <2>1, KindsCounted DEF Views
    <3> QED BY <2>1, <3>1 DEF OneEach
  <2> QED BY <2>1, <2>2 DEF TypeOK, VersionOK, SaveOK, Awaited
<1> QED BY <1>1, PageAlways, RequestsAlways, PTL

(* lastReport and the table of the fleet go back to an older report only    *)
(* from that of one screen to that of the other (refresh, refreshFleet).    *)
THEOREM ReportsInOrder == Spec => OrderLostOnlyAcross
<1>1. RequestsOK /\ [Next]_vars =>
        [reloads' = reloads =>
           /\ page'.lastReport < page.lastReport => page'.lastView # page.lastView
           /\ page'.fleetRows >= page.fleetRows]_vars
  BY RequestsNext DEF ReportStep
<1> QED BY <1>1, RequestsAlways, PTL DEF Spec, OrderLostOnlyAcross

(* The list of the dialog goes back to an older config only by an answer    *)
(* that was overtaken by another one (loadConfig, saveBulkConfig).          *)
THEOREM ListsInOrder == Spec => ListLostOnlyOvertaken
<1>1. RequestsOK /\ [Next]_vars =>
        [reloads' = reloads /\ page'.listed < page.listed =>
           \E q \in page.flight \ page'.flight : q.overtaken]_vars
  BY RequestsNext DEF ListStep
<1> QED BY <1>1, RequestsAlways, PTL DEF Spec, ListLostOnlyOvertaken
=============================================================================
