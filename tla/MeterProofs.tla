----------------------------- MODULE MeterProofs -----------------------------
(***************************************************************************)
(* Theorems about the traffic meter for every set of requests, window and  *)
(* clock, also one that is set back.                                       *)
(***************************************************************************)
EXTENDS TrafficMeter, FiniteSetTheorems, NaturalsInduction, WellFoundedInduction, TLAPS

(* What is true of some number is first true of a least one: the form of    *)
(* induction the proofs below use.                                          *)
LEMMA Least ==
  ASSUME NEW T \in SUBSET Nat, T # {}
  PROVE  \E n \in T : \A m \in T : n <= m
<1>1. PICK n \in T : \A m \in T : ~(<<m, n>> \in OpToRel(<, Nat))
  BY NatLessThanWellFounded, WFMin
<1>2. ASSUME NEW m \in T PROVE n <= m
  <2>1. ~(m < n)
    BY <1>1 DEF OpToRel
  <2> QED BY <2>1
<1> QED BY <1>2

---------------------------------------------------------------------------
(* The loop of trimLocked. *)

(* One round. *)
Round(evs, cutoff, before, k) ==
  IF evs[k].end >= cutoff THEN Append(before, evs[k]) ELSE before

(* The slice after each of the first n rounds. *)
Slices(evs, cutoff, n, g) ==
  g = [k \in 0 .. n |-> IF k = 0 THEN <<>> ELSE Round(evs, cutoff, g[k - 1], k)]

(* The rounds follow each other, so the slices exist. *)
LEMMA SlicesExist ==
  ASSUME NEW evs, NEW cutoff, NEW n \in Nat
  PROVE  \E g : Slices(evs, cutoff, n, g)
<1> DEFINE T == {m \in Nat : ~\E g : Slices(evs, cutoff, m, g)}
<1> SUFFICES ASSUME T # {} PROVE FALSE
  OBVIOUS
<1>1. PICK m \in T : \A j \in T : m <= j
  BY Least
<1>2. CASE m = 0
  <2>1. Slices(evs, cutoff, 0, [k \in 0 .. 0 |-> <<>>])
    BY DEF Slices
  <2> QED BY <1>2, <2>1
<1>3. CASE m # 0
  <2>1. m - 1 \in Nat /\ m - 1 \notin T
    BY <1>1, <1>3
  <2>2. PICK g : Slices(evs, cutoff, m - 1, g)
    BY <2>1
  <2> DEFINE h == [k \in 0 .. m |-> IF k <= m - 1 THEN g[k] ELSE Round(evs, cutoff, g[m - 1], m)]
  <2>3. \A k \in 0 .. m - 1 : g[k] = IF k = 0 THEN <<>> ELSE Round(evs, cutoff, g[k - 1], k)
    BY <2>2 DEF Slices
  <2>4. ASSUME NEW k \in 0 .. m
        PROVE  h[k] = IF k = 0 THEN <<>> ELSE Round(evs, cutoff, h[k - 1], k)
    <3>1. CASE k = 0
      BY <2>1, <2>3, <3>1
    <3>2. CASE k \in 1 .. m - 1
      <4>1. k - 1 \in 0 .. m - 1 /\ k \in 0 .. m - 1
        BY <2>1, <3>2
      <4>2. h[k] = g[k] /\ h[k - 1] = g[k - 1]
        BY <2>1, <4>1
      <4> QED BY <2>3, <3>2, <4>1, <4>2
    <3>3. CASE k = m
      BY <1>3, <2>1, <3>3
    <3> QED BY <2>1, <3>1, <3>2, <3>3
  <2>5. h = [k \in 0 .. m |-> IF k = 0 THEN <<>> ELSE Round(evs, cutoff, h[k - 1], k)]
    <3> DEFINE rest == [k \in 0 .. m |-> IF k = 0 THEN <<>> ELSE Round(evs, cutoff, h[k - 1], k)]
    <3>1. DOMAIN h = 0 .. m /\ h = [k \in 0 .. m |-> h[k]]
      OBVIOUS
    <3> HIDE DEF h
    <3>2. \A k \in 0 .. m : h[k] = rest[k]
      BY <2>4
    <3>3. rest = [k \in 0 .. m |-> rest[k]]
      OBVIOUS
    <3> HIDE DEF rest
    <3>4. h = rest
      BY <3>1, <3>2, <3>3
    <3> QED BY <3>4 DEF rest
  <2> HIDE DEF h
  <2>6. Slices(evs, cutoff, m, h)
    BY <2>5 DEF Slices
  <2> QED BY <2>6
<1> QED BY <1>2, <1>3

(* An event is kept where its end is not before the cutoff, in the order of *)
(* the events, and one that is there once is kept once.                     *)
LEMMA TrimKeeps ==
  ASSUME NEW S, NEW evs \in Seq(S), NEW time
  PROVE  /\ Trim(evs, time) \in Seq(S)
         /\ \A j \in DOMAIN Trim(evs, time) :
              \E k \in DOMAIN evs : evs[k] = Trim(evs, time)[j] /\ evs[k].end >= time - Window
         /\ \A k \in DOMAIN evs : evs[k].end >= time - Window =>
              \E j \in DOMAIN Trim(evs, time) : evs[k] = Trim(evs, time)[j]
         /\ (\A j, k \in DOMAIN evs : evs[j].by = evs[k].by => j = k) =>
              \A j, k \in DOMAIN Trim(evs, time) :
                Trim(evs, time)[j].by = Trim(evs, time)[k].by => j = k
<1> DEFINE cutoff == time - Window
           n == Len(evs)
           kept == CHOOSE g : Slices(evs, cutoff, n, g)
           OK(i) == /\ kept[i] \in Seq(S)
                    /\ \A j \in 1 .. Len(kept[i]) :
                         \E k \in 1 .. i : evs[k] = kept[i][j] /\ evs[k].end >= cutoff
                    /\ \A k \in 1 .. i : evs[k].end >= cutoff =>
                         \E j \in 1 .. Len(kept[i]) : evs[k] = kept[i][j]
                    /\ (\A j, k \in 1 .. n : evs[j].by = evs[k].by => j = k) =>
                         \A j, k \in 1 .. Len(kept[i]) : kept[i][j].by = kept[i][k].by => j = k
<1>0. n \in Nat /\ DOMAIN evs = 1 .. n /\ \A k \in 1 .. n : evs[k] \in S
  OBVIOUS
<1>1. Trim(evs, time) = kept[n]
  BY DEF Trim, Slices, Round
<1>2. Slices(evs, cutoff, n, kept)
  BY <1>0, SlicesExist
<1> HIDE DEF kept, n, cutoff
<1>3. \A k \in 0 .. n : kept[k] = IF k = 0 THEN <<>> ELSE Round(evs, cutoff, kept[k - 1], k)
  BY <1>2 DEF Slices
<1>4. OK(0)
  <2>1. kept[0] = <<>>
    BY <1>0, <1>3
  <2> QED BY <2>1
<1>5. ASSUME NEW i \in 0 .. n, i # n, OK(i)
      PROVE  OK(i + 1)
  <2> DEFINE old == kept[i]
             new == kept[i + 1]
             e == evs[i + 1]
  <2>0. i \in Nat /\ i + 1 \in 1 .. n /\ e \in S /\ old \in Seq(S)
    BY <1>0, <1>5
  <2>1. new = IF e.end >= cutoff THEN Append(old, e) ELSE old
    BY <1>0, <1>3, <2>0 DEF Round
  <2>2. CASE e.end >= cutoff
    <3>1. new = Append(old, e)
      BY <2>1, <2>2
    <3>2. /\ \A j \in 1 .. Len(old) : \E k \in 1 .. i : evs[k] = old[j] /\ evs[k].end >= cutoff
          /\ \A k \in 1 .. i : evs[k].end >= cutoff => \E j \in 1 .. Len(old) : evs[k] = old[j]
          /\ (\A j, k \in 1 .. n : evs[j].by = evs[k].by => j = k) =>
                         \A j, k \in 1 .. Len(old) : old[j].by = old[k].by => j = k
      BY <1>5
    <3> HIDE DEF old, new, e
    <3>3. /\ Len(new) = Len(old) + 1 /\ new \in Seq(S) /\ new[Len(old) + 1] = e
          /\ Len(old) \in Nat
          /\ \A j \in 1 .. Len(old) : new[j] = old[j]
      BY <2>0, <3>1
    <3>4. \A j \in 1 .. Len(new) : j \in 1 .. Len(old) \/ j = Len(old) + 1
      BY <3>3
    <3>5. \A k \in 1 .. i + 1 : k \in 1 .. i \/ k = i + 1
      BY <2>0
    <3>6. ASSUME NEW j \in 1 .. Len(new)
          PROVE  \E k \in 1 .. i + 1 : evs[k] = new[j] /\ evs[k].end >= cutoff
      <4>1. CASE j \in 1 .. Len(old)
        <5>1. PICK k \in 1 .. i : evs[k] = old[j] /\ evs[k].end >= cutoff
          BY <3>2, <4>1
        <5>2. k \in 1 .. i + 1
          BY <2>0, <5>1
        <5> QED BY <3>3, <4>1, <5>1, <5>2
      <4>2. CASE j = Len(old) + 1
        BY <2>0, <2>2, <3>3, <4>2 DEF e
      <4> QED BY <3>4, <4>1, <4>2
    <3>7. ASSUME NEW k \in 1 .. i + 1, evs[k].end >= cutoff
          PROVE  \E j \in 1 .. Len(new) : evs[k] = new[j]
      <4>1. CASE k \in 1 .. i
        <5>1. PICK j \in 1 .. Len(old) : evs[k] = old[j]
          BY <3>2, <3>7, <4>1
        <5> QED BY <3>3, <5>1
      <4>2. CASE k = i + 1
        BY <3>3, <4>2 DEF e
      <4> QED BY <3>5, <4>1, <4>2
    <3>8. ASSUME \A j, k \in 1 .. n : evs[j].by = evs[k].by => j = k,
                 NEW j \in 1 .. Len(new), NEW k \in 1 .. Len(new), new[j].by = new[k].by
          PROVE  j = k
      <4>1. \A l \in 1 .. Len(old) : old[l].by # e.by
        <5> SUFFICES ASSUME NEW l \in 1 .. Len(old), old[l].by = e.by PROVE FALSE
          OBVIOUS
        <5>1. PICK m \in 1 .. i : evs[m] = old[l]
          BY <3>2
        <5>2. evs[m].by = evs[i + 1].by /\ m \in 1 .. n /\ m # i + 1
          BY <1>0, <2>0, <5>1 DEF e
        <5> QED BY <2>0, <3>8, <5>2
      <4> QED BY <3>2, <3>3, <3>4, <3>8, <4>1
    <3> QED BY <3>3, <3>6, <3>7, <3>8 DEF new
  <2>3. CASE ~(e.end >= cutoff)
    <3>1. new = old
      BY <2>1, <2>3
    <3>2. \A k \in 1 .. i + 1 : k \in 1 .. i \/ k = i + 1
      BY <2>0
    <3> QED BY <1>5, <2>0, <2>3, <3>1, <3>2
  <2> QED BY <2>2, <2>3
<1>6. OK(n)
  <2> HIDE DEF OK
  <2> DEFINE T == {i \in 0 .. n : ~OK(i)}
  <2>0. n \in 0 .. n
    BY <1>0
  <2> SUFFICES ASSUME T # {} PROVE FALSE
    BY <2>0
  <2>1. T \subseteq 0 .. n /\ 0 \notin T
    BY <1>4
  <2>2. ASSUME NEW i \in 0 .. n, i # n, i \notin T PROVE i + 1 \notin T
    <3>1. OK(i)
      BY <2>2
    <3>2. OK(i + 1)
      BY <1>5, <2>2, <3>1, Zenon
    <3> QED BY <3>2
  <2> HIDE DEF T
  <2>3. T \in SUBSET Nat
    BY <1>0, <2>1
  <2>4. PICK i \in T : \A j \in T : i <= j
    BY <2>3, Least
  <2>5. i - 1 \in 0 .. n /\ i - 1 # n /\ i - 1 \notin T /\ (i - 1) + 1 = i
    BY <1>0, <2>1, <2>4
  <2>6. (i - 1) + 1 \notin T
    BY <2>2, <2>5, Zenon
  <2> QED BY <2>4, <2>5, <2>6, Zenon
<1> DEFINE trimmed == Trim(evs, time)
<1>7. trimmed = kept[n] /\ trimmed \in Seq(S) /\ DOMAIN trimmed = 1 .. Len(trimmed)
  <2>1. kept[n] \in Seq(S)
    BY <1>6
  <2> QED BY <1>1, <2>1
<1>8. /\ \A j \in 1 .. Len(kept[n]) : \E k \in 1 .. n : evs[k] = kept[n][j] /\ evs[k].end >= cutoff
      /\ \A k \in 1 .. n : evs[k].end >= cutoff =>
                         \E j \in 1 .. Len(kept[n]) : evs[k] = kept[n][j]
      /\ (\A j, k \in 1 .. n : evs[j].by = evs[k].by => j = k) =>
            \A j, k \in 1 .. Len(kept[n]) : kept[n][j].by = kept[n][k].by => j = k
  BY <1>6
<1> HIDE DEF OK, trimmed
<1>9. /\ \A j \in DOMAIN trimmed : \E k \in DOMAIN evs : evs[k] = trimmed[j] /\ evs[k].end >= cutoff
      /\ \A k \in DOMAIN evs : evs[k].end >= cutoff => \E j \in DOMAIN trimmed : evs[k] = trimmed[j]
      /\ (\A j, k \in DOMAIN evs : evs[j].by = evs[k].by => j = k) =>
            \A j, k \in DOMAIN trimmed : trimmed[j].by = trimmed[k].by => j = k
  BY <1>0, <1>7, <1>8, Zenon
<1> QED BY <1>7, <1>9 DEF cutoff, trimmed

---------------------------------------------------------------------------
(* The inductive invariant.  A sample is in the history only after its      *)
(* request has added it; what a request has added is still to be found when *)
(* it takes its snapshot, unless the meter was used with a later time.      *)

Sample == {e \in [by : Requests, start : 0 .. MaxTime, end : Nat, bytes : Nat, rate : Nat] :
             e.end > e.start /\ e.bytes > 0 /\ e.rate > 0}

ReadingsOK == /\ now \in 0 .. MaxTime /\ latest \in Nat
              /\ at \in [Requests -> {"idle", "working", "measured", "sampled", "answered"}]
              /\ startedAt \in [Requests -> 0 .. MaxTime]
              /\ finishedAt \in [Requests -> 0 .. MaxTime]
              /\ usage \in [Requests -> Nat]
              /\ DOMAIN shown = Requests

EventsOK == /\ added \subseteq Sample /\ events \in Seq(added)
            /\ \A e \in added : at[e.by] \in {"sampled", "answered"}

SampledOK == \A r \in Requests : at[r] = "sampled" /\ usage[r] > 0 =>
               \E e \in added : e.by = r /\ e.end >= finishedAt[r]

MeterInv == ReadingsOK /\ EventsOK /\ SampledOK /\ WindowKept /\ OwnTrafficShown

(* A length of time that Scale is a multiple of is not longer than Scale.   *)
LEMMA DividesScale ==
  ASSUME NEW d \in 1 .. MaxTime \cup {Second}
  PROVE  d <= Scale
<1>1. Scale \in Nat /\ Scale >= 1 /\ d \in Nat /\ d >= 1
  BY MeterAssumption
<1>2. Scale % d = 0
  BY MeterAssumption
<1>3. d > Scale => Scale % d = Scale
  BY <1>1
<1> QED BY <1>1, <1>2, <1>3

(* What AddSample makes of readings is a sample, which does not end before  *)
(* the request was finished.                                                *)
LEMMA EventIsSample ==
  ASSUME ReadingsOK, NEW r \in Requests, usage[r] > 0
  PROVE  Event(r) \in Sample /\ Event(r).by = r /\ Event(r).end >= finishedAt[r]
<1> DEFINE s == startedAt[r]
           f == finishedAt[r]
           u == usage[r]
           end == IF f > s THEN f ELSE s + Second
<1>1. s \in 0 .. MaxTime /\ f \in 0 .. MaxTime /\ u \in Nat /\ u > 0
  BY DEF ReadingsOK
<1>2. Scale \in Nat /\ Scale > 0 /\ MaxTime \in Nat /\ Second \in Nat /\ Second > 0
  BY MeterAssumption
<1>3. Event(r) = [by |-> r, start |-> s, end |-> end, bytes |-> u,
                  rate |-> (u * Scale) \div (end - s)]
  BY DEF Event
<1> HIDE DEF s, f, u
<1>4. end \in Nat /\ end > s /\ end >= f /\ end - s \in 1 .. MaxTime \cup {Second}
  BY <1>1, <1>2
<1> HIDE DEF end
<1>5. end - s \in Nat /\ end - s > 0 /\ end - s <= Scale
  BY <1>1, <1>4, DividesScale
<1>6. u * Scale \in Nat /\ u * Scale >= Scale
  <2>1. ASSUME NEW a \in Nat, NEW b \in Nat, a >= 1 PROVE a * b \in Nat /\ a * b >= b
    <3>1. (a - 1) * b \in Nat /\ a * b = (a - 1) * b + b
      BY <2>1
    <3> QED BY <3>1
  <2> QED BY <1>1, <1>2, <2>1
<1>7. (u * Scale) \div (end - s) \in Nat /\ (u * Scale) \div (end - s) > 0
  <2>1. ASSUME NEW a \in Nat, NEW d \in Nat, d > 0, d <= a PROVE a \div d \in Nat /\ a \div d > 0
    BY <2>1
  <2> QED BY <1>2, <1>5, <1>6, <2>1
<1> QED BY <1>1, <1>3, <1>4, <1>7 DEF Sample, f

(* The larger of two numbers. *)
LEMMA MaxOfTwo ==
  ASSUME NEW a \in Nat, NEW b \in Nat
  PROVE  Max({a, b}) \in Nat /\ Max({a, b}) >= a /\ Max({a, b}) >= b
         /\ (Max({a, b}) = a \/ Max({a, b}) = b)
<1>1. \E x \in {a, b} : \A y \in {a, b} : x >= y
  OBVIOUS
<1>2. Max({a, b}) \in {a, b} /\ \A y \in {a, b} : Max({a, b}) >= y
  BY <1>1 DEF Max
<1> QED BY <1>2

(* What ended in the window before the latest time stays in the meter when  *)
(* it is trimmed with an earlier time or that one.                          *)
LEMMA TrimKeepsWindow ==
  ASSUME NEW S \in SUBSET Sample, NEW evs \in Seq(S), NEW time \in Nat, NEW last \in Nat,
         time <= last,
         \A e \in S : e.end >= last - Window => \E k \in DOMAIN evs : evs[k] = e,
         \A j, k \in DOMAIN evs : evs[j].by = evs[k].by => j = k
  PROVE  /\ Trim(evs, time) \in Seq(S)
         /\ \A e \in S : e.end >= last - Window => \E k \in DOMAIN Trim(evs, time) :
                                                     Trim(evs, time)[k] = e
         /\ \A j, k \in DOMAIN Trim(evs, time) :
              Trim(evs, time)[j].by = Trim(evs, time)[k].by => j = k
<1>0. /\ Trim(evs, time) \in Seq(S)
      /\ \A j \in DOMAIN Trim(evs, time) :
           \E k \in DOMAIN evs : evs[k] = Trim(evs, time)[j] /\ evs[k].end >= time - Window
      /\ \A k \in DOMAIN evs : evs[k].end >= time - Window =>
           \E j \in DOMAIN Trim(evs, time) : evs[k] = Trim(evs, time)[j]
      /\ (\A j, k \in DOMAIN evs : evs[j].by = evs[k].by => j = k) =>
           \A j, k \in DOMAIN Trim(evs, time) :
             Trim(evs, time)[j].by = Trim(evs, time)[k].by => j = k
  BY TrimKeeps, ZenonT(60)
<1> DEFINE trimmed == Trim(evs, time)
<1>1. /\ trimmed \in Seq(S)
      /\ \A k \in DOMAIN evs : evs[k].end >= time - Window =>
           \E j \in DOMAIN trimmed : evs[k] = trimmed[j]
      /\ \A j, k \in DOMAIN trimmed : trimmed[j].by = trimmed[k].by => j = k
  BY <1>0, Zenon
<1> HIDE DEF trimmed
<1>2. ASSUME NEW e \in S, e.end >= last - Window
      PROVE  \E k \in DOMAIN trimmed : trimmed[k] = e
  <2>1. PICK k \in DOMAIN evs : evs[k] = e
    BY <1>2
  <2>2. e.end >= time - Window
    BY <1>2, MeterAssumption DEF Sample
  <2> QED BY <1>1, <2>1, <2>2
<1> QED BY <1>1, <1>2 DEF trimmed

(* Being in the meter, as the loops see it. *)
LEMMA InMeterIs ==
  \A e : e \in InMeter <=> \E k \in DOMAIN events : events[k] = e
  BY DEF InMeter

(* A snapshot that was taken is not changed, and the latest time only grows. *)
LEMMA ShownStays ==
  ASSUME MeterInv, NEW r \in Requests, UNCHANGED <<finishedAt, usage, shown>>,
         \A q \in Requests \ Scans : at'[q] = "answered" => at[q] = "answered",
         latest' \in Nat, latest <= latest'
  PROVE  OwnTrafficShown'
<1>1. latest \in Nat /\ Window \in Nat /\ \A q \in Requests : finishedAt[q] \in Nat
  BY MeterAssumption DEF MeterInv, ReadingsOK
<1> SUFFICES ASSUME NEW q \in Requests \ Scans,
                    at'[q] = "answered", usage[q] > 0, latest' <= finishedAt[q] + Window
             PROVE  \E k \in DOMAIN shown[q] : shown[q][k].by = q
  BY Zenon DEF OwnTrafficShown
<1>2. at[q] = "answered" /\ latest <= finishedAt[q] + Window
  BY <1>1
<1> QED BY <1>2 DEF MeterInv, OwnTrafficShown

(* AddSample: the new sample is kept, whatever time it trims with.          *)
LEMMA AddSampleKeeps ==
  ASSUME MeterInv, NEW r \in Requests, AddSample(r)
  PROVE  MeterInv'
<1>0. ReadingsOK /\ EventsOK /\ SampledOK /\ WindowKept /\ OwnTrafficShown
  BY DEF MeterInv
<1>1. /\ at[r] = "measured" /\ UNCHANGED <<now, startedAt, finishedAt, usage, shown>>
      /\ at' = [at EXCEPT ![r] = IF r \in Scans THEN "answered" ELSE "sampled"]
  BY DEF AddSample, readings
<1>2. /\ at' \in [Requests -> {"idle", "working", "measured", "sampled", "answered"}]
      /\ at'[r] \in {"sampled", "answered"} /\ (r \notin Scans => at'[r] = "sampled")
      /\ \A q \in Requests : q # r => at'[q] = at[q]
  BY <1>0, <1>1 DEF ReadingsOK
<1>3. \A q \in Requests \ Scans : at'[q] = "answered" => at[q] = "answered"
  BY <1>2
<1>4. CASE usage[r] = 0
  <2>1. UNCHANGED <<events, added, latest>>
    BY <1>4 DEF AddSample, history
  <2>2. ReadingsOK'
    BY <1>0, <1>1, <1>2, <2>1 DEF ReadingsOK
  <2>3. EventsOK'
    BY <1>0, <1>2, <2>1 DEF EventsOK, Sample
  <2>4. SampledOK'
    BY <1>0, <1>1, <1>2, <1>4, <2>1 DEF SampledOK
  <2>5. WindowKept'
    BY <1>0, <2>1 DEF WindowKept, InMeter
  <2>6. OwnTrafficShown'
    BY <1>0, <1>1, <1>3, <2>1, ShownStays DEF ReadingsOK
  <2> QED BY <2>2, <2>3, <2>4, <2>5, <2>6 DEF MeterInv
<1>5. CASE usage[r] # 0
  <2> DEFINE ev == Event(r)
             evs == Append(events, ev)
             S == added \cup {ev}
             last == Max({latest, ev.end})
  <2>1. events' = Trim(evs, ev.end) /\ added' = S /\ latest' = last
    BY <1>5 DEF AddSample
  <2>2. ev \in Sample /\ ev.by = r /\ ev.end >= finishedAt[r] /\ ev.end \in Nat
    <3>1. usage[r] > 0
      BY <1>0, <1>5 DEF ReadingsOK
    <3> QED BY <1>0, <3>1, EventIsSample DEF Sample
  <2> HIDE DEF ev
  <2>3. last \in Nat /\ latest <= last /\ ev.end <= last
    BY <1>0, <2>2, MaxOfTwo DEF ReadingsOK
  <2> HIDE DEF last
  <2>4. S \in SUBSET Sample /\ evs \in Seq(S)
    <3>1. events \in Seq(S)
      BY <1>0 DEF EventsOK
    <3> QED BY <1>0, <2>2, <3>1 DEF EventsOK
  <2>5. /\ DOMAIN evs = 1 .. Len(events) + 1 /\ evs[Len(events) + 1] = ev
        /\ DOMAIN events = 1 .. Len(events) /\ Len(events) \in Nat
        /\ \A k \in DOMAIN events : evs[k] = events[k] /\ events[k] \in added
    BY <1>0 DEF EventsOK
  <2>6. \A e \in added : e.by # r
    BY <1>0, <1>1 DEF EventsOK
  <2> HIDE DEF evs
  <2>7. \A e \in S : e.end >= last - Window => \E k \in DOMAIN evs : evs[k] = e
    <3> SUFFICES ASSUME NEW e \in S, e.end >= last - Window
                 PROVE  \E k \in DOMAIN evs : evs[k] = e
      OBVIOUS
    <3>1. CASE e = ev
      BY <2>5, <3>1
    <3>2. CASE e \in added
      <4>1. e.end >= latest - Window
        BY <1>0, <2>3, <3>2, MeterAssumption DEF EventsOK, Sample, ReadingsOK
      <4>2. PICK k \in DOMAIN events : events[k] = e
        BY <1>0, <3>2, <4>1, InMeterIs DEF WindowKept
      <4> QED BY <2>5, <4>2
    <3> QED BY <3>1, <3>2
  <2>8. \A j, k \in DOMAIN evs : evs[j].by = evs[k].by => j = k
    <3>1. \A k \in DOMAIN events : evs[k].by # r
      BY <2>5, <2>6
    <3>2. \A j, k \in DOMAIN events : evs[j].by = evs[k].by => j = k
      BY <1>0, <2>5 DEF WindowKept
    <3>3. \A k \in DOMAIN evs : k \in DOMAIN events \/ k = Len(events) + 1
      BY <2>5
    <3> QED BY <2>2, <2>5, <3>1, <3>2, <3>3
  <2>9. /\ events' \in Seq(S)
        /\ \A e \in S : e.end >= last - Window => \E k \in DOMAIN events' : events'[k] = e
        /\ \A j, k \in DOMAIN events' : events'[j].by = events'[k].by => j = k
    BY <2>1, <2>2, <2>3, <2>4, <2>7, <2>8, TrimKeepsWindow
  <2>10. ReadingsOK'
    BY <1>0, <1>1, <1>2, <2>1, <2>3 DEF ReadingsOK
  <2>11. EventsOK'
    BY <1>0, <1>1, <1>2, <2>1, <2>2, <2>4, <2>9 DEF EventsOK, Sample
  <2>12. SampledOK'
    BY <1>0, <1>1, <1>2, <2>1, <2>2 DEF SampledOK
  <2>13. WindowKept'
    BY <2>1, <2>9 DEF WindowKept, InMeter
  <2>14. OwnTrafficShown'
    BY <1>1, <1>3, <2>1, <2>3, ShownStays
  <2> QED BY <2>10, <2>11, <2>12, <2>13, <2>14 DEF MeterInv
<1> QED BY <1>4, <1>5

(* Snapshot: the sample of the request itself is shown, unless the meter    *)
(* was used with a time more than a window later.                           *)
LEMMA SnapshotKeeps ==
  ASSUME MeterInv, NEW r \in Requests, Snapshot(r)
  PROVE  MeterInv'
<1>0. ReadingsOK /\ EventsOK /\ SampledOK /\ WindowKept /\ OwnTrafficShown
  BY DEF MeterInv
<1> DEFINE time == finishedAt[r]
           last == Max({latest, time})
<1>1. /\ at[r] = "sampled" /\ UNCHANGED <<now, startedAt, finishedAt, usage, added>>
      /\ at' = [at EXCEPT ![r] = "answered"]
      /\ events' = Trim(events, time) /\ latest' = last
      /\ shown' = [shown EXCEPT ![r] = events']
  BY DEF Snapshot, readings
<1>2. time \in Nat /\ last \in Nat /\ latest <= last /\ time <= last
  BY <1>0, MaxOfTwo DEF ReadingsOK
<1>3. /\ at' \in [Requests -> {"idle", "working", "measured", "sampled", "answered"}]
      /\ at'[r] = "answered" /\ \A q \in Requests : q # r => at'[q] = at[q]
  BY <1>0, <1>1 DEF ReadingsOK
<1> HIDE DEF last
<1>4. /\ added \in SUBSET Sample /\ events \in Seq(added)
      /\ \A e \in added : e.end >= last - Window => \E k \in DOMAIN events : events[k] = e
      /\ \A j, k \in DOMAIN events : events[j].by = events[k].by => j = k
  <2>1. \A e \in added : e.end >= last - Window => e.end >= latest - Window
    BY <1>0, <1>2, MeterAssumption DEF EventsOK, Sample, ReadingsOK
  <2> QED BY <1>0, <2>1, InMeterIs DEF EventsOK, WindowKept
<1> HIDE DEF time
<1>5. /\ events' \in Seq(added)
      /\ \A e \in added : e.end >= last - Window => \E k \in DOMAIN events' : events'[k] = e
      /\ \A j, k \in DOMAIN events' : events'[j].by = events'[k].by => j = k
  BY <1>1, <1>2, <1>4, TrimKeepsWindow
<1>6. ReadingsOK'
  BY <1>0, <1>1, <1>2, <1>3 DEF ReadingsOK
<1>7. EventsOK'
  BY <1>0, <1>1, <1>3, <1>5 DEF EventsOK, Sample
<1>8. SampledOK'
  BY <1>0, <1>1, <1>3 DEF SampledOK
<1>9. WindowKept'
  BY <1>1, <1>5 DEF WindowKept, InMeter
<1>10. OwnTrafficShown'
  <2> SUFFICES ASSUME NEW q \in Requests \ Scans,
                      at'[q] = "answered", usage[q] > 0, last <= finishedAt[q] + Window
               PROVE  \E k \in DOMAIN shown'[q] : shown'[q][k].by = q
    BY <1>1 DEF OwnTrafficShown
  <2>1. latest \in Nat /\ Window \in Nat /\ finishedAt[q] \in Nat
    BY <1>0, MeterAssumption DEF ReadingsOK
  <2>2. CASE q = r
    <3>1. PICK e \in added : e.by = r /\ e.end >= finishedAt[r]
      BY <1>0, <1>1, <2>2 DEF SampledOK
    <3>2. e.end >= last - Window
      BY <1>0, <1>2, <2>1, <2>2, <3>1 DEF EventsOK, Sample
    <3>3. PICK k \in DOMAIN events' : events'[k] = e
      BY <1>5, <3>2
    <3>4. shown'[r] = events'
      BY <1>0, <1>1 DEF ReadingsOK
    <3> QED BY <2>2, <3>1, <3>3, <3>4
  <2>3. CASE q # r
    <3>1. at[q] = "answered" /\ shown'[q] = shown[q] /\ latest <= finishedAt[q] + Window
      BY <1>0, <1>1, <1>2, <1>3, <2>1, <2>3 DEF ReadingsOK
    <3> QED BY <1>0, <3>1 DEF OwnTrafficShown
  <2> QED BY <2>2, <2>3
<1> QED BY <1>6, <1>7, <1>8, <1>9, <1>10 DEF MeterInv

(* Nothing has happened yet. *)
LEMMA MeterStarts ==
  Init => MeterInv
<1> SUFFICES ASSUME Init PROVE MeterInv
  OBVIOUS
<1>1. ReadingsOK
  BY MeterAssumption DEF Init, ReadingsOK
<1>2. EventsOK
  BY DEF Init, EventsOK
<1>3. SampledOK
  BY DEF Init, SampledOK
<1>4. WindowKept
  BY DEF Init, WindowKept
<1>5. OwnTrafficShown
  BY DEF Init, OwnTrafficShown
<1> QED BY <1>1, <1>2, <1>3, <1>4, <1>5 DEF MeterInv

(* A step in which no request is answered that measured any traffic, and    *)
(* that leaves the meter alone.                                             *)
LEMMA MeterAlone ==
  ASSUME MeterInv, ReadingsOK', UNCHANGED <<events, shown, added, latest>>,
         \A e \in added : at'[e.by] \in {"sampled", "answered"},
         \A r \in Requests : at'[r] \in {"sampled", "answered"} =>
           (at[r] = at'[r] /\ finishedAt'[r] = finishedAt[r] /\ usage'[r] = usage[r])
           \/ (r \in Scans /\ at'[r] = "answered")
  PROVE  MeterInv'
<1>0. EventsOK /\ SampledOK /\ WindowKept /\ OwnTrafficShown
  BY DEF MeterInv
<1>1. EventsOK'
  BY <1>0 DEF EventsOK
<1>2. SampledOK'
  BY <1>0 DEF SampledOK
<1>3. WindowKept'
  BY <1>0 DEF WindowKept, InMeter
<1>4. OwnTrafficShown'
  BY <1>0 DEF OwnTrafficShown
<1> QED BY <1>1, <1>2, <1>3, <1>4 DEF MeterInv

(* Every step keeps the invariant. *)
LEMMA MeterSteps ==
  MeterInv /\ [Next]_vars => MeterInv'
<1> SUFFICES ASSUME MeterInv, [Next]_vars PROVE MeterInv'
  OBVIOUS
<1>0. /\ ReadingsOK /\ \A e \in added : at[e.by] \in {"sampled", "answered"} /\ e.by \in Requests
      /\ MaxTime \in Nat
  BY MeterAssumption DEF MeterInv, EventsOK, Sample
<1>1. ASSUME NEW r \in Requests, Begin(r) PROVE MeterInv'
  <2>1. /\ at[r] = "idle" /\ at' = [at EXCEPT ![r] = "working"]
        /\ startedAt' = [startedAt EXCEPT ![r] = now]
        /\ UNCHANGED <<now, finishedAt, usage, events, shown, added, latest>>
    BY <1>1 DEF Begin, history
  <2>2. ReadingsOK' /\ \A q \in Requests : at'[q] = IF q = r THEN "working" ELSE at[q]
    BY <1>0, <2>1 DEF ReadingsOK
  <2> QED BY <1>0, <2>1, <2>2, MeterAlone
<1>2. ASSUME NEW r \in Requests, Finish(r) PROVE MeterInv'
  <2>1. PICK bytes \in Amounts : usage' = [usage EXCEPT ![r] = bytes]
    BY <1>2 DEF Finish
  <2>2. /\ at[r] = "working" /\ at' = [at EXCEPT ![r] = "measured"]
        /\ finishedAt' = [finishedAt EXCEPT ![r] = now]
        /\ UNCHANGED <<now, startedAt, events, shown, added, latest>>
    BY <1>2 DEF Finish, history
  <2>3. /\ ReadingsOK'
        /\ \A q \in Requests : at'[q] = IF q = r THEN "measured" ELSE at[q]
        /\ \A q \in Requests : q # r => finishedAt'[q] = finishedAt[q] /\ usage'[q] = usage[q]
    BY <1>0, <2>1, <2>2, MeterAssumption DEF ReadingsOK
  <2> QED BY <1>0, <2>2, <2>3, MeterAlone
<1>3. ASSUME NEW r \in Requests, FailScan(r) PROVE MeterInv'
  <2>1. /\ r \in Scans /\ at[r] = "working" /\ at' = [at EXCEPT ![r] = "answered"]
        /\ UNCHANGED <<now, startedAt, finishedAt, usage, events, shown, added, latest>>
    BY <1>3 DEF FailScan, readings, history
  <2>2. ReadingsOK' /\ \A q \in Requests : at'[q] = IF q = r THEN "answered" ELSE at[q]
    BY <1>0, <2>1 DEF ReadingsOK
  <2> QED BY <1>0, <2>1, <2>2, MeterAlone
<1>4. ASSUME Tick \/ SetBack \/ Idle \/ UNCHANGED vars PROVE MeterInv'
  <2>1. UNCHANGED <<at, startedAt, finishedAt, usage, events, shown, added, latest>>
    BY <1>4 DEF Tick, SetBack, Idle, vars, readings, history
  <2>2. now' \in 0 .. MaxTime
    BY <1>0, <1>4 DEF Tick, SetBack, Idle, vars, ReadingsOK
  <2>3. ReadingsOK'
    BY <1>0, <2>1, <2>2 DEF ReadingsOK
  <2> QED BY <1>0, <2>1, <2>3, MeterAlone
<1> QED BY <1>1, <1>2, <1>3, <1>4, AddSampleKeeps, SnapshotKeeps DEF Next

(* The invariant holds in every state. *)
LEMMA MeterAlways ==
  Spec => []MeterInv
BY MeterStarts, MeterSteps, PTL DEF Spec

---------------------------------------------------------------------------
(* Every event lasts, also when the clock was set back while its request    *)
(* worked: AddSample never divides by zero and no rate is negative.         *)
THEOREM EventsLast ==
  Spec => []TypeOK
<1>1. MeterInv => TypeOK
  BY DEF MeterInv, ReadingsOK, EventsOK, Sample, TypeOK, InMeter
<1> QED BY <1>1, MeterAlways, PTL

(* Trimming with times out of order loses nothing of the window that ends   *)
(* at the latest time the meter was used with, and counts nothing twice.    *)
THEOREM WindowIsKept ==
  Spec => []WindowKept
<1>1. MeterInv => WindowKept
  BY DEF MeterInv
<1> QED BY <1>1, MeterAlways, PTL

(* A report shows the traffic of the discovery it is about, unless the      *)
(* meter was used with a time more than a window later in the meantime.     *)
THEOREM ReportShowsOwnTraffic ==
  Spec => []OwnTrafficShown
<1>1. MeterInv => OwnTrafficShown
  BY DEF MeterInv
<1> QED BY <1>1, MeterAlways, PTL

---------------------------------------------------------------------------
(* The rate at a time is a sum over the events.                             *)

(* What the event at position k adds to the rate at a time. *)
Share(evs, time, k) ==
  IF evs[k].start <= time /\ time < evs[k].end THEN evs[k].rate ELSE 0

(* The sum over a set of positions, from the sums over smaller ones. *)
Total(evs, time, g, s) ==
  IF s = {} THEN 0 ELSE LET x == CHOOSE x \in s : TRUE IN Share(evs, time, x) + g[s \ {x}]

(* The sums over the sets of positions, as MapThenSumSet makes them. *)
RateSums(evs, time, g) == g = [s \in SUBSET DOMAIN evs |-> Total(evs, time, g, s)]

(* RateAt is the last of these sums. *)
LEMMA RateIs ==
  ASSUME NEW evs, NEW time
  PROVE  RateAt(evs, time) = (CHOOSE g : RateSums(evs, time, g))[DOMAIN evs]
BY DEF RateAt, MapThenSumSet, MapThenFoldSet, RateSums, Total, Share

(* A sum is over one position and a smaller set. *)
LEMMA OneLess ==
  ASSUME NEW D, IsFiniteSet(D), NEW s \in SUBSET D, s # {}, NEW x, x = CHOOSE y \in s : TRUE
  PROVE  /\ x \in s /\ s \ {x} \in SUBSET D
         /\ Cardinality(s) \in Nat /\ Cardinality(s \ {x}) = Cardinality(s) - 1
         /\ Cardinality(s) <= Cardinality(D) /\ Cardinality(s) > 0
<1>1. x \in s /\ s \ {x} \in SUBSET D
  OBVIOUS
<1>2. IsFiniteSet(s) /\ Cardinality(s) \in Nat /\ Cardinality(s) <= Cardinality(D)
  BY FS_Subset, FS_CardinalityType
<1>3. Cardinality(s \ {x}) = Cardinality(s) - 1
  BY <1>1, <1>2, FS_RemoveElement
<1>4. Cardinality(s) # 0
  BY <1>2, FS_EmptySet
<1> QED BY <1>1, <1>2, <1>3, <1>4

(* The sums follow from each other, so they exist. *)
LEMMA SumsExist ==
  ASSUME NEW evs, NEW time, IsFiniteSet(DOMAIN evs)
  PROVE  \E g : RateSums(evs, time, g)
<1> DEFINE D == DOMAIN evs
           Small(n) == {s \in SUBSET D : Cardinality(s) <= n}
           Partial(n, g) == g = [s \in Small(n) |-> Total(evs, time, g, s)]
           T == {n \in Nat : ~\E g : Partial(n, g)}
<1>1. T = {}
  <2> SUFFICES ASSUME T # {} PROVE FALSE
    OBVIOUS
  <2>1. PICK n \in T : \A m \in T : n <= m
    BY Least
  <2>2. CASE n = 0
    <3>1. \A s \in Small(0) : s = {}
      <4> SUFFICES ASSUME NEW s \in Small(0), s # {} PROVE FALSE
        OBVIOUS
      <4>1. Cardinality(s) > 0 /\ Cardinality(s) \in Nat /\ Cardinality(s) <= 0
        BY OneLess
      <4> QED BY <4>1
    <3> DEFINE h == [s \in Small(0) |-> 0]
    <3>2. \A s \in Small(0) : Total(evs, time, h, s) = 0
      BY <3>1 DEF Total
    <3>3. Partial(0, h)
      <4> HIDE DEF Small
      <4> QED BY <3>2
    <3> QED BY <2>1, <2>2, <3>3
  <2>3. CASE n # 0
    <3>1. n - 1 \in Nat /\ n - 1 \notin T /\ n \in Nat
      <4>1. n \in Nat
        BY DEF T
      <4> HIDE DEF T
      <4> QED BY <2>1, <2>3, <4>1
    <3>2. PICK g : Partial(n - 1, g)
      BY <3>1
    <3> DEFINE h == [s \in Small(n) |-> IF s \in Small(n - 1) THEN g[s] ELSE Total(evs, time, g, s)]
    <3>3. \A s \in Small(n - 1) : g[s] = Total(evs, time, g, s)
      <4> HIDE DEF Small
      <4> QED BY <3>2
    <3>4. \A s \in Small(n) : h[s] = Total(evs, time, g, s)
      <4> HIDE DEF Small
      <4> QED BY <3>3
    <3>5. \A s \in Small(n - 1) : s \in Small(n) /\ h[s] = g[s]
      <4> SUFFICES ASSUME NEW s \in Small(n - 1) PROVE s \in Small(n) /\ h[s] = g[s]
        OBVIOUS
      <4>1. s \in SUBSET D /\ Cardinality(s) <= n - 1 /\ Cardinality(s) \in Nat
        BY FS_Subset, FS_CardinalityType
      <4>2. s \in Small(n)
        BY <3>1, <4>1
      <4> HIDE DEF Small
      <4> QED BY <4>2
    <3>6. ASSUME NEW s \in Small(n) PROVE Total(evs, time, g, s) = Total(evs, time, h, s)
      <4>1. CASE s = {}
        BY <4>1 DEF Total
      <4>2. CASE s # {}
        <5> DEFINE x == CHOOSE y \in s : TRUE
        <5>1. /\ s \ {x} \in SUBSET D /\ Cardinality(s) \in Nat
              /\ Cardinality(s \ {x}) = Cardinality(s) - 1 /\ Cardinality(s) <= n
          BY <4>2, OneLess
        <5>2. s \ {x} \in Small(n - 1)
          BY <3>1, <5>1
        <5>3. h[s \ {x}] = g[s \ {x}]
          BY <3>5, <5>2
        <5> HIDE DEF h
        <5> QED BY <4>2, <5>3 DEF Total
      <4> QED BY <4>1, <4>2
    <3>7. Partial(n, h)
      <4>1. \A s \in Small(n) : h[s] = Total(evs, time, h, s)
        BY <3>4, <3>6
      <4>2. h = [s \in Small(n) |-> h[s]]
        OBVIOUS
      <4> HIDE DEF h, Small
      <4> DEFINE rest == [s \in Small(n) |-> Total(evs, time, h, s)]
      <4>3. \A s \in Small(n) : h[s] = rest[s]
        BY <4>1
      <4>4. rest = [s \in Small(n) |-> rest[s]]
        OBVIOUS
      <4> HIDE DEF rest
      <4>5. h = rest
        BY <4>2, <4>3, <4>4
      <4> QED BY <4>5 DEF rest
    <3> HIDE DEF h
    <3> QED BY <2>1, <3>7
  <2> QED BY <2>2, <2>3
<1>2. Cardinality(D) \in Nat
  BY FS_CardinalityType
<1>3. PICK g : Partial(Cardinality(D), g)
  BY <1>1, <1>2
<1>4. Small(Cardinality(D)) = SUBSET D
  BY FS_Subset
<1> QED BY <1>3, <1>4 DEF RateSums

(* Where every event adds at most what it adds in another sum, the rate is  *)
(* at most the other one.                                                   *)
LEMMA RateCompare ==
  ASSUME NEW evs, NEW time, NEW evs2, NEW time2,
         IsFiniteSet(DOMAIN evs), DOMAIN evs = DOMAIN evs2,
         \A k \in DOMAIN evs : /\ Share(evs, time, k) \in Nat /\ Share(evs2, time2, k) \in Nat
                               /\ Share(evs, time, k) <= Share(evs2, time2, k)
  PROVE  RateAt(evs, time) \in Nat /\ RateAt(evs2, time2) \in Nat
         /\ RateAt(evs, time) <= RateAt(evs2, time2)
<1> DEFINE D == DOMAIN evs
           g == CHOOSE f : RateSums(evs, time, f)
           h == CHOOSE f : RateSums(evs2, time2, f)
           OK(s) == g[s] \in Nat /\ h[s] \in Nat /\ g[s] <= h[s]
           T == {n \in Nat : \E s \in SUBSET D : Cardinality(s) = n /\ ~OK(s)}
<1>1. RateSums(evs, time, g) /\ RateSums(evs2, time2, h)
  BY SumsExist
<1>2. RateAt(evs, time) = g[D] /\ RateAt(evs2, time2) = h[D]
  BY RateIs
<1> HIDE DEF g, h
<1>3. \A s \in SUBSET D : g[s] = Total(evs, time, g, s) /\ h[s] = Total(evs2, time2, h, s)
  BY <1>1 DEF RateSums
<1>4. T = {}
  <2> SUFFICES ASSUME T # {} PROVE FALSE
    OBVIOUS
  <2>1. PICK n \in T : \A m \in T : n <= m
    BY Least
  <2>2. PICK s \in SUBSET D : Cardinality(s) = n /\ ~OK(s)
    BY <2>1
  <2>3. CASE s = {}
    <3>1. g[s] = 0 /\ h[s] = 0
      BY <1>3, <2>3 DEF Total
    <3> QED BY <2>2, <3>1
  <2>4. CASE s # {}
    <3> DEFINE x == CHOOSE y \in s : TRUE
               u == s \ {x}
    <3>1. x \in s /\ u \in SUBSET D /\ n \in Nat /\ Cardinality(u) = n - 1 /\ n > 0
      BY <2>2, <2>4, OneLess
    <3>2. g[s] = Share(evs, time, x) + g[u] /\ h[s] = Share(evs2, time2, x) + h[u]
      BY <1>3, <2>4 DEF Total
    <3>3. OK(u)
      <4>1. n - 1 \notin T /\ n - 1 \in Nat
        BY <2>1, <3>1
      <4> QED BY <3>1, <4>1
    <3>4. /\ Share(evs, time, x) \in Nat /\ Share(evs2, time2, x) \in Nat
          /\ Share(evs, time, x) <= Share(evs2, time2, x)
      BY <3>1
    <3> HIDE DEF x, u
    <3>5. OK(s)
      BY <3>2, <3>3, <3>4
    <3> QED BY <2>2, <3>5
  <2> QED BY <2>3, <2>4
<1>5. D \in SUBSET D /\ Cardinality(D) \in Nat
  BY FS_CardinalityType
<1>6. OK(D)
  BY <1>4, <1>5
<1> QED BY <1>2, <1>6

(* Numbers with a bound have a highest one. *)
LEMMA Highest ==
  ASSUME NEW R \in SUBSET Nat, R # {}, NEW b \in Nat, \A x \in R : x <= b
  PROVE  Max(R) \in R /\ \A x \in R : x <= Max(R)
<1> DEFINE T == {c \in Nat : \A x \in R : x <= c}
<1>1. PICK c \in T : \A d \in T : c <= d
  <2>1. T # {} /\ T \in SUBSET Nat
    OBVIOUS
  <2> HIDE DEF T
  <2> QED BY <2>1, Least
<1>2. c \in R
  <2> SUFFICES ASSUME c \notin R PROVE FALSE
    OBVIOUS
  <2>1. \A x \in R : x <= c - 1
    BY <1>1
  <2>2. c - 1 \in Nat
    <3>1. PICK x \in R : x <= c /\ x # c
      BY <1>1
    <3> QED BY <1>1, <3>1
  <2>3. c - 1 \in T
    BY <2>1, <2>2
  <2> QED BY <1>1, <2>3
<1>3. \E m \in R : \A x \in R : m >= x
  BY <1>1, <1>2
<1>4. Max(R) \in R /\ \A x \in R : Max(R) >= x
  BY <1>3 DEF Max
<1> QED BY <1>4

---------------------------------------------------------------------------
(* The event whose beginning is the last before a time goes on at that time *)
(* with every other one that does: no rate in the window is higher than one *)
(* at its beginning or at the beginning of an event in it.                  *)

(* The points in time that peakLocked looks at. *)
Points(evs, time) ==
  {time - Window} \cup {t \in {evs[k].start : k \in DOMAIN evs} : t >= time - Window}

(* At every time of the window the rate is at most that at a point.         *)
LEMMA PointAsHigh ==
  ASSUME NEW evs \in Seq(Sample), NEW time \in Nat, NEW t \in Int, t >= time - Window
  PROVE  \E p \in Points(evs, time) : RateAt(evs, t) <= RateAt(evs, p)
<1> DEFINE cutoff == time - Window
           D == DOMAIN evs
           T == {d \in Nat : \E p \in Points(evs, time) : p + d = t}
<1>0. /\ D = 1 .. Len(evs) /\ Len(evs) \in Nat /\ cutoff \in Int /\ IsFiniteSet(D)
      /\ \A k \in D : evs[k].start \in Nat /\ evs[k].end \in Nat /\ evs[k].rate \in Nat
  BY FS_Interval, MeterAssumption DEF Sample
<1>1. \A p \in Points(evs, time) : p \in Int /\ p >= cutoff
  BY <1>0 DEF Points
<1>2. t - cutoff \in T
  BY <1>0 DEF Points
<1>3. PICK d \in T : \A e \in T : d <= e
  BY <1>2, Least
<1>4. PICK p \in Points(evs, time) : p + d = t /\ d \in Nat
  BY <1>3
<1>5. ASSUME NEW k \in D, evs[k].start <= t PROVE evs[k].start <= p
  <2>1. CASE evs[k].start < cutoff
    BY <1>0, <1>1, <1>4, <2>1
  <2>2. CASE evs[k].start >= cutoff
    <3>1. evs[k].start \in Points(evs, time)
      BY <2>2 DEF Points
    <3>2. t - evs[k].start \in T
      BY <1>0, <1>5, <3>1
    <3> HIDE DEF T
    <3> QED BY <1>0, <1>1, <1>3, <1>4, <3>2
  <2> QED BY <1>0, <2>1, <2>2
<1>6. \A k \in D : /\ Share(evs, t, k) \in Nat /\ Share(evs, p, k) \in Nat
                  /\ Share(evs, t, k) <= Share(evs, p, k)
  <2> SUFFICES ASSUME NEW k \in D
               PROVE  /\ Share(evs, t, k) \in Nat /\ Share(evs, p, k) \in Nat
                      /\ Share(evs, t, k) <= Share(evs, p, k)
    OBVIOUS
  <2>1. p \in Int /\ p <= t
    BY <1>1, <1>4
  <2> QED BY <1>0, <1>5, <2>1 DEF Share
<1>7. RateAt(evs, t) <= RateAt(evs, p)
  BY <1>0, <1>6, RateCompare
<1> QED BY <1>7

(* No rate is more than that of all events at once. *)
LEMMA RatesBounded ==
  ASSUME NEW evs \in Seq(Sample)
  PROVE  \E b \in Nat : \A t \in Int : RateAt(evs, t) \in Nat /\ RateAt(evs, t) <= b
<1> DEFINE D == DOMAIN evs
           all == [k \in D |-> [start |-> 0, end |-> 1, rate |-> evs[k].rate]]
<1>0. /\ D = 1 .. Len(evs) /\ Len(evs) \in Nat /\ IsFiniteSet(D)
      /\ \A k \in D : evs[k].rate \in Nat
  <2>1. D = 1 .. Len(evs) /\ Len(evs) \in Nat /\ \A k \in D : evs[k] \in Sample
    OBVIOUS
  <2>2. IsFiniteSet(1 .. Len(evs))
    BY <2>1, FS_Interval
  <2> QED BY <2>1, <2>2 DEF Sample
<1>1. DOMAIN all = D /\ \A k \in D : Share(all, 0, k) = evs[k].rate
  BY DEF Share
<1> HIDE DEF all
<1>2. ASSUME NEW t \in Int
      PROVE  RateAt(evs, t) \in Nat /\ RateAt(all, 0) \in Nat /\ RateAt(evs, t) <= RateAt(all, 0)
  <2>1. \A k \in D : /\ Share(evs, t, k) \in Nat /\ Share(all, 0, k) \in Nat
                    /\ Share(evs, t, k) <= Share(all, 0, k)
    BY <1>0, <1>1 DEF Share
  <2> QED BY <1>0, <1>1, <2>1, RateCompare
<1>3. RateAt(all, 0) \in Nat
  BY <1>2
<1> QED BY <1>2, <1>3

(* Peak is the highest rate at a point, or nothing where there is no event. *)
LEMMA PeakIs ==
  ASSUME NEW evs \in Seq(Sample), NEW time \in Nat
  PROVE  /\ \A p \in Points(evs, time) : RateAt(evs, p) <= Peak(evs, time)
         /\ \E p \in Points(evs, time) : RateAt(evs, p) = Peak(evs, time)
<1> DEFINE R == {RateAt(evs, p) : p \in Points(evs, time)}
<1>1. PICK b \in Nat : \A t \in Int : RateAt(evs, t) \in Nat /\ RateAt(evs, t) <= b
  BY RatesBounded
<1>2. /\ Points(evs, time) \subseteq Int /\ time - Window \in Points(evs, time)
      /\ time - Window \in Int
  BY MeterAssumption DEF Points, Sample
<1>3. \A x \in R : x \in Nat /\ x <= b
  BY <1>1, <1>2
<1>4. CASE evs = <<>>
  <2>1. Peak(evs, time) = 0 /\ DOMAIN evs = {}
    BY <1>4 DEF Peak
  <2>2. Points(evs, time) = {time - Window}
    BY <2>1 DEF Points
  <2>3. RateAt(evs, time - Window) = 0
    <3> DEFINE g == CHOOSE f : RateSums(evs, time - Window, f)
    <3>1. RateSums(evs, time - Window, g)
      BY <2>1, FS_EmptySet, SumsExist
    <3>2. RateAt(evs, time - Window) = g[{}]
      BY <2>1, RateIs
    <3> HIDE DEF g
    <3>3. g[{}] = 0
      BY <2>1, <3>1 DEF RateSums, Total
    <3> QED BY <3>2, <3>3
  <2> QED BY <2>1, <2>2, <2>3
<1>5. CASE evs # <<>>
  <2>1. Peak(evs, time) = Max({0} \cup R)
    BY <1>5 DEF Peak, Points
  <2> HIDE DEF R
  <2>2. {0} \cup R \in SUBSET Nat /\ \A x \in {0} \cup R : x <= b
    BY <1>3
  <2>3. Max({0} \cup R) \in {0} \cup R /\ \A x \in {0} \cup R : x <= Max({0} \cup R)
    BY <2>2, Highest
  <2>4. RateAt(evs, time - Window) \in R
    BY <1>2 DEF R
  <2>5. Max({0} \cup R) \in R
    <3> SUFFICES ASSUME Max({0} \cup R) = 0 PROVE 0 \in R
      BY <2>3
    <3> DEFINE r == RateAt(evs, time - Window)
    <3>1. r \in Nat /\ r <= 0
      BY <1>3, <2>3, <2>4
    <3>2. r = 0
      BY <3>1
    <3> QED BY <2>4, <3>2
  <2> QED BY <2>1, <2>3, <2>5 DEF R
<1> QED BY <1>4, <1>5

(* The visible peak of a report, taken at the beginning of the window and   *)
(* at the beginnings of the events in it, is the highest rate in the window.*)
THEOREM PeakIsTheHighest ==
  Spec => []PeakIsHighest
<1>1. MeterInv => PeakIsHighest
  <2> SUFFICES ASSUME MeterInv, NEW time \in 0 .. MaxTime, NEW kept, kept = Trim(events, time)
               PROVE  /\ \A t \in time - Window .. MaxTime + Second : RateAt(kept, t) <= Peak(kept, time)
                      /\ \E t \in time - Window .. MaxTime + Second : RateAt(kept, t) = Peak(kept, time)
    BY DEF PeakIsHighest
  <2>1. kept \in Seq(Sample) /\ DOMAIN kept = 1 .. Len(kept)
    <3>1. events \in Seq(Sample)
      BY DEF MeterInv, EventsOK
    <3>2. Trim(events, time) \in Seq(Sample)
      BY <3>1, TrimKeeps, Zenon
    <3> QED BY <3>2
  <2>2. /\ MaxTime \in Nat /\ Window \in Nat /\ Second \in Nat /\ Second > 0
        /\ time \in Nat /\ time <= MaxTime
    BY MeterAssumption
  <2>3. Points(kept, time) \subseteq time - Window .. MaxTime + Second
    <3>1. \A k \in DOMAIN kept : kept[k].start \in Int /\ kept[k].start <= MaxTime
      <4>1. \A k \in DOMAIN kept : kept[k] \in Sample
        BY <2>1
      <4> QED BY <2>2, <4>1 DEF Sample
    <3> QED BY <2>2, <3>1 DEF Points
  <2>4. PICK b \in Nat : \A t \in Int : RateAt(kept, t) \in Nat /\ RateAt(kept, t) <= b
    BY <2>1, RatesBounded
  <2>5. PICK p \in Points(kept, time) : RateAt(kept, p) = Peak(kept, time)
    BY <2>1, <2>2, PeakIs
  <2>6. ASSUME NEW t \in time - Window .. MaxTime + Second
        PROVE  RateAt(kept, t) <= Peak(kept, time)
    <3>1. t \in Int /\ t >= time - Window
      BY <2>2
    <3>2. PICK q \in Points(kept, time) : RateAt(kept, t) <= RateAt(kept, q)
      BY <2>1, <2>2, <3>1, PointAsHigh
    <3>3. RateAt(kept, q) <= Peak(kept, time)
      BY <2>1, <2>2, PeakIs
    <3>4. q \in Int /\ p \in Int
      BY <2>2, <2>3
    <3> QED BY <2>4, <2>5, <3>1, <3>2, <3>3, <3>4
  <2> QED BY <2>3, <2>5, <2>6
<1> QED BY <1>1, MeterAlways, PTL
=============================================================================
