---------------------------- MODULE TrafficMeter ----------------------------
(***************************************************************************)
(* The Hub's traffic meter (internal/hub/traffic.go) and the requests that *)
(* feed it (handleNosana and handlePCScan in internal/hub/server.go).      *)
(*                                                                         *)
(* A request reads the clock, works, reads the clock again, adds a sample  *)
(* and, for a discovery, takes a snapshot of the window that ends at its   *)
(* second reading.  The mutex makes AddSample and Snapshot indivisible,    *)
(* but requests overlap, so the meter is used with times out of order; and *)
(* the readings are wall clock time (UTC() drops the monotonic one), which *)
(* may be set back in between.                                             *)
(*                                                                         *)
(* Times are small integers.  A sample lasts from start up to but not      *)
(* including end.  Rates are whole numbers of bytes per Scale time units.  *)
(***************************************************************************)
EXTENDS FiniteSetsExt, Integers, Sequences

CONSTANTS
  Requests,     \* the requests, each served once
  Scans,        \* those of them that are LAN scans
  Window,       \* m.window
  Amounts,      \* what a request may have sent and received
  Second,       \* time units in a second
  Scale,        \* a multiple of every duration
  MaxTime,      \* bound on the clock
  ClockIsSet    \* the clock may be set back

ASSUME MeterAssumption ==
  /\ Scans \subseteq Requests
  /\ Window \in Nat \ {0} /\ Second \in Nat \ {0} /\ Scale \in Nat \ {0}
  /\ MaxTime \in Nat
  /\ Amounts \subseteq Nat
  /\ ClockIsSet \in BOOLEAN
  /\ \A d \in 1 .. MaxTime \cup {Second} : Scale % d = 0

VARIABLES
  now,         \* s.now()
  at,          \* at[r]: where request r is
  startedAt, finishedAt,
  usage,       \* usage[r]: the TotalBytes it measured
  events,      \* m.events
  shown,       \* shown[r]: the events its snapshot was made of
  added,       \* history: every event the meter was ever given
  latest       \* history: the latest time it was ever used with

vars == <<now, at, startedAt, finishedAt, usage, events, shown, added, latest>>

readings == <<startedAt, finishedAt, usage>>
history  == <<added, latest>>

Init == /\ now = 0
        /\ at = [r \in Requests |-> "idle"]
        /\ startedAt = [r \in Requests |-> 0]
        /\ finishedAt = [r \in Requests |-> 0]
        /\ usage = [r \in Requests |-> 0]
        /\ events = <<>>
        /\ shown = [r \in Requests |-> <<>>]
        /\ added = {}
        /\ latest = 0

---------------------------------------------------------------------------
(* The meter. *)

(* Mutant of Trim: an event that began before the window is dropped. *)
TrimByStart(evs, time) == SelectSeq(evs, LAMBDA e : e.start >= time - Window)

(* The loop of trimLocked: kept[k] is m.events[:keep] after k rounds.        *)
Trim(evs, time) ==
  LET kept[k \in 0 .. Len(evs)] ==
        IF k = 0 THEN <<>>
        ELSE IF evs[k].end >= time - Window THEN Append(kept[k - 1], evs[k])
        ELSE kept[k - 1]
  IN  kept[Len(evs)]

(* Mutant of Event: a sample that ends before it begins is taken as it is. *)
EventUnchecked(r) ==
  [by |-> r, start |-> startedAt[r], end |-> finishedAt[r], bytes |-> usage[r],
   rate |-> IF finishedAt[r] = startedAt[r] THEN 0
            ELSE (usage[r] * Scale) \div (finishedAt[r] - startedAt[r])]

(* The event AddSample makes of the readings of request r: a second long   *)
(* if the clock has not advanced, with its average for its peak.            *)
Event(r) ==
  LET end == IF finishedAt[r] > startedAt[r] THEN finishedAt[r] ELSE startedAt[r] + Second
  IN  [by |-> r, start |-> startedAt[r], end |-> end, bytes |-> usage[r],
       rate |-> (usage[r] * Scale) \div (end - startedAt[r])]

RateAt(evs, time) ==
  MapThenSumSet(LAMBDA k : IF evs[k].start <= time /\ time < evs[k].end THEN evs[k].rate ELSE 0,
                DOMAIN evs)

(* Mutant of Peak: only the beginnings of events are looked at. *)
PeakAtStarts(evs, time) ==
  Max({0} \cup {RateAt(evs, e.start) : e \in {evs[k] : k \in DOMAIN evs}})

(* peakLocked: the rate at the beginning of the window and at the           *)
(* beginnings of the events that begin in it.                               *)
Peak(evs, time) ==
  LET cutoff == time - Window
      points == {cutoff} \cup {t \in {evs[k].start : k \in DOMAIN evs} : t >= cutoff}
  IN  IF evs = <<>> THEN 0 ELSE Max({0} \cup {RateAt(evs, t) : t \in points})

---------------------------------------------------------------------------
(* The requests. *)

Begin(r) ==
  /\ at[r] = "idle"
  /\ at' = [at EXCEPT ![r] = "working"]
  /\ startedAt' = [startedAt EXCEPT ![r] = now]
  /\ UNCHANGED <<now, finishedAt, usage, events, shown, history>>

(* The work is done and the clock is read; a scan that fails adds nothing. *)
Finish(r) ==
  /\ at[r] = "working"
  /\ \E bytes \in Amounts : usage' = [usage EXCEPT ![r] = bytes]
  /\ finishedAt' = [finishedAt EXCEPT ![r] = now]
  /\ at' = [at EXCEPT ![r] = "measured"]
  /\ UNCHANGED <<now, startedAt, events, shown, history>>

FailScan(r) ==
  /\ r \in Scans /\ at[r] = "working"
  /\ at' = [at EXCEPT ![r] = "answered"]
  /\ UNCHANGED <<now, readings, events, shown, history>>

AddSample(r) ==
  /\ at[r] = "measured"
  /\ IF usage[r] = 0
     THEN UNCHANGED <<events, history>>
     ELSE /\ events' = Trim(Append(events, Event(r)), Event(r).end)
          /\ added' = added \cup {Event(r)}
          /\ latest' = Max({latest, Event(r).end})
  /\ at' = [at EXCEPT ![r] = IF r \in Scans THEN "answered" ELSE "sampled"]
  /\ UNCHANGED <<now, readings, shown>>

(* The totals of the report are the sums over shown[r]. *)
Snapshot(r) ==
  /\ at[r] = "sampled"
  /\ events' = Trim(events, finishedAt[r])
  /\ shown' = [shown EXCEPT ![r] = events']
  /\ latest' = Max({latest, finishedAt[r]})
  /\ at' = [at EXCEPT ![r] = "answered"]
  /\ UNCHANGED <<now, readings, added>>

Tick == /\ now < MaxTime
        /\ now' = now + 1
        /\ UNCHANGED <<at, readings, events, shown, history>>

SetBack == /\ ClockIsSet /\ now > 0
           /\ now' = now - 1
           /\ UNCHANGED <<at, readings, events, shown, history>>

Idle == (\A r \in Requests : at[r] = "answered") /\ UNCHANGED vars

Next == \/ \E r \in Requests : Begin(r) \/ Finish(r) \/ FailScan(r) \/ AddSample(r) \/ Snapshot(r)
        \/ Tick \/ SetBack \/ Idle

Spec == Init /\ [][Next]_vars

---------------------------------------------------------------------------
(* Properties. *)

InMeter == {events[k] : k \in DOMAIN events}

(* Every event lasts, also when the clock was set back while its request    *)
(* worked: nothing is divided by zero and no rate is negative.              *)
TypeOK ==
  /\ now \in 0 .. MaxTime /\ latest \in Nat
  /\ at \in [Requests -> {"idle", "working", "measured", "sampled", "answered"}]
  /\ InMeter \subseteq added
  /\ \A e \in added : e.end > e.start /\ e.bytes > 0 /\ e.rate > 0

(* However late a request adds its sample and whatever time it trims with:  *)
(* what ended in the window that ends at the latest time used is still in   *)
(* the meter, and in it once.                                               *)
WindowKept ==
  /\ \A e \in added : e.end >= latest - Window => e \in InMeter
  /\ \A j, k \in DOMAIN events : events[j].by = events[k].by => j = k

(* HUB_MONITOR.md:87-88, "includes estimated GridLens network traffic for   *)
(* this Hub over the last 60 seconds": a report shows the traffic of the    *)
(* discovery it is about, unless somebody used the meter with a time more   *)
(* than a window later in the meantime.                                     *)
OwnTrafficShown ==
  \A r \in Requests \ Scans :
    at[r] = "answered" /\ usage[r] > 0 /\ latest <= finishedAt[r] + Window =>
      \E k \in DOMAIN shown[r] : shown[r][k].by = r

(* The visible peak, taken at the beginnings of events only, is the highest *)
(* rate at any time from the beginning of the window on.                    *)
PeakIsHighest ==
  \A time \in 0 .. MaxTime :
    LET kept == Trim(events, time)
    IN  /\ \A t \in time - Window .. MaxTime + Second : RateAt(kept, t) <= Peak(kept, time)
        /\ \E t \in time - Window .. MaxTime + Second : RateAt(kept, t) = Peak(kept, time)
=============================================================================
