----------------------------- MODULE ScanProofs ------------------------------
(***************************************************************************)
(* Theorems about a LAN scan for every query, every set of interfaces,     *)
(* every number of workers and every limit.                                *)
(***************************************************************************)
EXTENDS ScanPool, AddressProofs

(* A network is a prefix. *)
LEMMA NetworksArePrefixes ==
  AllNetworks \subseteq Prefix
<1>1. \A q \in Queries : q.cidr # <<>> => q.cidr[1] \in Prefix
  BY ScanAssumption
<1>2. ASSUME NEW m \in Machines, NEW p \in LocalIPv4CIDRs(m) PROVE p \in Prefix
  <2>1. PICK i \in m : \E q \in i.prefixes : p = [addr |-> Masked(q), ones |-> q.ones]
    BY <1>2 DEF LocalIPv4CIDRs
  <2>2. PICK q \in i.prefixes : p = [addr |-> Masked(q), ones |-> q.ones]
    BY <2>1
  <2>3. q.addr \in Address /\ q.ones \in 0 .. Width /\ Width \in Nat
    BY ScanAssumption, AddressAssumption DEF Prefix
  <2>4. BlockSize(q) \in Nat /\ BlockSize(q) >= 1 /\ Pow2[Width] \in Nat
    BY <2>3, Pow2Positive DEF BlockSize
  <2>5. Masked(q) \in 0 .. q.addr
    <3>1. q.addr \in Nat
      BY <2>3, <2>4 DEF Address
    <3>2. q.addr - (q.addr % BlockSize(q)) \in 0 .. q.addr
      BY <2>4, <3>1, Remainder, Zenon
    <3> QED BY <3>2 DEF Masked
  <2>6. Masked(q) \in Address
    BY <2>3, <2>4, <2>5 DEF Address
  <2> QED BY <2>2, <2>3, <2>6 DEF Prefix
<1> QED BY <1>1, <1>2 DEF AllNetworks

---------------------------------------------------------------------------
(* The invariant of the pool: a worker is under way only while its CIDR is  *)
(* scanned, each with an address of its own that was handed out, and the    *)
(* WaitGroup counts the workers under way.                                  *)

Scanning == main \in {"handing", "draining", "aborting"}

ScanShape ==
  /\ query \in Queries
  /\ main \in {"asked", "open", "handing", "draining", "aborting", "answered", "failed"}
  /\ worker \in [Workers -> {"none", "waiting", "dialing"}]
  /\ job \in [Workers -> Nat] /\ dialed \in [Workers -> Nat]
  /\ DOMAIN open = Workers
  /\ next \in Nat \ {0} /\ cidr \in Nat \ {0} /\ wg \in Int
  /\ main = "asked" => cidr = 1

NetworksReady ==
  main \notin {"asked", "failed"} =>
    /\ cidrs \in Seq(AllNetworks) /\ cidr \in DOMAIN cidrs
    /\ \A m, n \in DOMAIN cidrs : cidrs[m] = cidrs[n] => m = n
    /\ \A n \in 1 .. cidr - 1 : Len(Hosts(cidrs[n])) <= MaxHosts
    /\ main # "open" => Size <= MaxHosts /\ next <= Size + 1
    /\ main \in {"draining", "answered"} => next = Size + 1
    /\ main = "answered" => cidr = Len(cidrs)

Staff == {w \in Workers : worker[w] # "none"}

Dialing == {w \in Workers : worker[w] = "dialing"}

WorkersOK ==
  /\ IF Scanning THEN wg = Cardinality(Staff) ELSE Staff = {}
  /\ \A w \in Dialing : job[w] \in 1 .. next - 1
  /\ \A v, w \in Dialing : job[v] = job[w] => v = w

PoolInv == ScanShape /\ NetworksReady /\ WorkersOK

(* Types. *)
LEMMA ScanShapeNext ==
  ScanShape /\ [Next]_vars => ScanShape'
<1> SUFFICES ASSUME ScanShape, [Next]_vars PROVE ScanShape'
  OBVIOUS
<1>0. Concurrency \in Nat
  BY ScanAssumption
<1>1. CASE Refuse \/ Choose \/ TooLarge \/ GiveUp \/ CloseJobs \/ Abort
  BY <1>1 DEF Refuse, Choose, TooLarge, GiveUp, CloseJobs, Abort, request, handout, probe, answer,
              ScanShape
<1>2. CASE StartWorkers
  BY <1>0, <1>2 DEF StartWorkers, Added, request, probe, answer, ScanShape
<1>3. CASE Collect
  BY <1>3 DEF Collect, request, probe, ScanShape
<1>4. ASSUME NEW w \in Workers, WorkerNext(w) PROVE ScanShape'
  <2>1. CASE HandOut(w)
    BY <2>1 DEF HandOut, request, answer, ScanShape
  <2>2. CASE DialPort(w)
    BY <2>2 DEF DialPort, request, handout, answer, ScanShape
  <2>3. CASE HostDone(w)
    BY <2>3 DEF HostDone, request, handout, probe, answer, ScanShape
  <2>4. CASE Leave(w)
    BY <2>4 DEF Leave, request, handout, probe, answer, ScanShape
  <2> QED BY <1>4, <2>1, <2>2, <2>3, <2>4 DEF WorkerNext
<1>5. CASE Cancel \/ Over \/ UNCHANGED vars
  BY <1>5 DEF Cancel, Over, vars, request, handout, probe, answer, ScanShape
<1> QED BY <1>1, <1>2, <1>3, <1>4, <1>5 DEF Next, HandlerNext

(* What is scanned is a list of networks, each of them once. *)
LEMMA ToScanIs ==
  ASSUME query \in Queries, NEW m \in Machines, NEW list \in ToScan(m), list # <<>>
  PROVE  /\ list \in Seq(AllNetworks) /\ 1 \in DOMAIN list
         /\ \A j, k \in DOMAIN list : list[j] = list[k] => j = k
<1>1. CASE query.cidr # <<>>
  <2>1. list = query.cidr /\ list \in Seq(Prefix) /\ Len(list) <= 1
    BY <1>1, ScanAssumption DEF ToScan
  <2>2. Len(list) # 0
    <3> SUFFICES ASSUME Len(list) = 0 PROVE FALSE
      OBVIOUS
    <3>1. list = <<>>
      BY <2>1
    <3> QED BY <3>1
  <2>3. Len(list) = 1 /\ DOMAIN list = 1 .. 1
    <3> DEFINE n == Len(list)
    <3>1. n \in Nat /\ DOMAIN list = 1 .. n /\ n <= 1 /\ n # 0
      BY <2>1, <2>2
    <3> HIDE DEF n
    <3>2. n = 1
      BY <3>1
    <3> QED BY <3>1, <3>2 DEF n
  <2>4. list[1] \in AllNetworks
    BY <1>1, <2>1 DEF AllNetworks
  <2>5. \A k \in DOMAIN list : k = 1 /\ list[k] \in AllNetworks
    BY <2>3, <2>4
  <2>6. list \in Seq(AllNetworks)
    BY <2>1, <2>5
  <2> QED BY <2>3, <2>5, <2>6
<1>2. CASE query.cidr = <<>>
  <2> DEFINE S == LocalIPv4CIDRs(m)
  <2>1. list \in SetToSeqs(S)
    BY <1>2 DEF ToScan
  <2>2. S \subseteq AllNetworks /\ Cardinality(S) \in Nat
    BY ScanAssumption, FS_CardinalityType DEF AllNetworks
  <2> HIDE DEF S
  <2>3. /\ list \in [1 .. Cardinality(S) -> S]
        /\ \A j, k \in 1 .. Cardinality(S) : j # k => list[j] # list[k]
    BY <2>1 DEF SetToSeqs
  <2>4. list \in Seq(AllNetworks) /\ DOMAIN list = 1 .. Cardinality(S)
    BY <2>2, <2>3
  <2>5. Cardinality(S) # 0
    BY <2>2, <2>3, <2>4
  <2> QED BY <2>2, <2>3, <2>4, <2>5
<1> QED BY <1>1, <1>2

(* The size of a CIDR is a number. *)
LEMMA SizeIs ==
  ASSUME cidrs \in Seq(AllNetworks), cidr \in DOMAIN cidrs
  PROVE  Size \in Nat /\ cidrs[cidr] \in AllNetworks /\ Len(cidrs) \in Nat
         /\ DOMAIN cidrs = 1 .. Len(cidrs)
<1>1. cidrs[cidr] \in AllNetworks /\ Len(cidrs) \in Nat /\ DOMAIN cidrs = 1 .. Len(cidrs)
  OBVIOUS
<1>2. Hosts(cidrs[cidr]) \in Seq(Nat)
  BY <1>1, NetworksArePrefixes, HostsAre
<1> QED BY <1>1, <1>2 DEF Size, Addresses

(* The networks are fixed once they are chosen. *)
LEMMA NetworksNext ==
  ScanShape /\ NetworksReady /\ [Next]_vars => NetworksReady'
<1> SUFFICES ASSUME ScanShape, NetworksReady, [Next]_vars PROVE NetworksReady'
  OBVIOUS
<1>0. MaxHosts \in Nat /\ next \in Nat \ {0} /\ cidr \in Nat \ {0}
  BY ScanAssumption DEF ScanShape
<1>a. main \notin {"asked", "failed"} => /\ Size \in Nat /\ Len(cidrs) \in Nat
                                         /\ DOMAIN cidrs = 1 .. Len(cidrs)
  BY SizeIs DEF NetworksReady
<1>1. CASE Refuse \/ TooLarge \/ Abort
  <2>1. main' = "failed"
    BY <1>1 DEF Refuse, TooLarge, Abort
  <2> QED BY <2>1 DEF NetworksReady
<1>2. CASE Choose
  <2>1. PICK m \in Machines : cidrs' \in ToScan(m) \ {<<>>}
    BY <1>2 DEF Choose
  <2>2. main' = "open" /\ cidr' = 1
    BY <1>2 DEF Choose, ScanShape
  <2>3. /\ cidrs' \in Seq(AllNetworks) /\ 1 \in DOMAIN cidrs'
        /\ \A j, k \in DOMAIN cidrs' : cidrs'[j] = cidrs'[k] => j = k
    BY <2>1, ToScanIs DEF ScanShape
  <2> QED BY <2>2, <2>3 DEF NetworksReady
<1>3. CASE StartWorkers
  <2>1. main = "open" /\ main' = "handing" /\ next' = 1 /\ UNCHANGED <<cidrs, cidr>> /\ Size <= MaxHosts
    BY <1>3 DEF StartWorkers
  <2>2. Size' = Size
    BY <2>1 DEF Size, Addresses
  <2> QED BY <1>0, <1>a, <2>1, <2>2 DEF NetworksReady
<1>4. CASE GiveUp \/ CloseJobs
  <2>1. /\ main = "handing" /\ UNCHANGED <<cidrs, cidr, next>>
        /\ main' = "aborting" \/ (main' = "draining" /\ next > Size)
    BY <1>4 DEF GiveUp, CloseJobs, AllHanded
  <2>2. Size' = Size
    BY <2>1 DEF Size, Addresses
  <2>3. Size \in Nat /\ Size <= MaxHosts /\ next <= Size + 1
    BY <1>a, <2>1 DEF NetworksReady
  <2>4. main' = "draining" => next' = Size' + 1
    BY <1>0, <2>1, <2>2, <2>3
  <2> QED BY <2>1, <2>2, <2>3, <2>4 DEF NetworksReady
<1>5. CASE Collect
  <2>1. /\ main = "draining" /\ UNCHANGED <<cidrs, next>>
        /\ \/ cidr < Len(cidrs) /\ main' = "open" /\ cidr' = cidr + 1
           \/ ~(cidr < Len(cidrs)) /\ main' = "answered" /\ cidr' = cidr
    BY <1>5 DEF Collect
  <2>2. CASE cidr < Len(cidrs) /\ main' = "open" /\ cidr' = cidr + 1
    <3>1. Len(Hosts(cidrs[cidr])) <= MaxHosts
      BY <2>1 DEF NetworksReady, Size, Addresses
    <3>2. \A n \in 1 .. cidr' - 1 : n \in 1 .. cidr - 1 \/ n = cidr
      BY <1>0, <2>2
    <3>3. \A n \in 1 .. cidr' - 1 : Len(Hosts(cidrs[n])) <= MaxHosts
      BY <2>1, <3>1, <3>2 DEF NetworksReady
    <3>4. cidr' \in DOMAIN cidrs
      BY <1>0, <1>a, <2>1, <2>2
    <3> QED BY <2>1, <2>2, <3>3, <3>4 DEF NetworksReady
  <2>3. CASE ~(cidr < Len(cidrs)) /\ main' = "answered" /\ cidr' = cidr
    <3>1. Size' = Size
      BY <2>1, <2>3 DEF Size, Addresses
    <3>2. cidr = Len(cidrs)
      BY <1>a, <2>1, <2>3 DEF NetworksReady
    <3> QED BY <2>1, <2>3, <3>1, <3>2 DEF NetworksReady
  <2> QED BY <2>1, <2>2, <2>3
<1>6. ASSUME NEW w \in Workers, HandOut(w) PROVE NetworksReady'
  <2>1. /\ main = "handing" /\ ~(next > Size) /\ next' = next + 1
        /\ UNCHANGED <<main, cidrs, cidr>>
    BY <1>6 DEF HandOut, AllHanded
  <2>2. Size' = Size
    BY <2>1 DEF Size, Addresses
  <2>3. next' <= Size' + 1
    BY <1>0, <1>a, <2>1, <2>2
  <2> QED BY <2>1, <2>2, <2>3 DEF NetworksReady
<1>7. ASSUME NEW w \in Workers, DialPort(w) \/ HostDone(w) \/ Leave(w) PROVE NetworksReady'
  <2>1. UNCHANGED <<main, cidrs, cidr, next>>
    BY <1>7 DEF DialPort, HostDone, Leave, handout
  <2>2. Size' = Size
    BY <2>1 DEF Size, Addresses
  <2> QED BY <2>1, <2>2 DEF NetworksReady
<1>8. CASE Cancel \/ Over \/ UNCHANGED vars
  <2>1. UNCHANGED <<main, cidrs, cidr, next>>
    BY <1>8 DEF Cancel, Over, vars, handout
  <2>2. Size' = Size
    BY <2>1 DEF Size, Addresses
  <2> QED BY <2>1, <2>2 DEF NetworksReady
<1> QED BY <1>1, <1>2, <1>3, <1>4, <1>5, <1>6, <1>7, <1>8 DEF Next, HandlerNext, WorkerNext

(* The workers, and any set of them, can be counted. *)
LEMMA Countable ==
  ASSUME NEW S \in SUBSET Workers
  PROVE  /\ IsFiniteSet(S) /\ Cardinality(S) \in Nat /\ Cardinality(S) <= Concurrency
         /\ (Cardinality(S) = 0 <=> S = {})
         /\ \A w \in S : Cardinality(S \ {w}) = Cardinality(S) - 1
         /\ S # Workers => Cardinality(S) < Concurrency
<1>1. Concurrency \in Nat
  BY ScanAssumption
<1>2. IsFiniteSet(Workers) /\ Cardinality(Workers) = Concurrency
  BY <1>1, FS_Interval DEF Workers
<1>3. /\ IsFiniteSet(S) /\ Cardinality(S) \in Nat /\ Cardinality(S) <= Concurrency
      /\ Cardinality(S) = Concurrency => S = Workers
  BY <1>2, FS_Subset, FS_CardinalityType
<1>4. Cardinality(S) = 0 <=> S = {}
  BY <1>3, FS_EmptySet
<1>5. \A w \in S : Cardinality(S \ {w}) = Cardinality(S) - 1
  BY <1>3, FS_RemoveElement
<1> QED BY <1>1, <1>3, <1>4, <1>5

(* A step that changes neither the workers nor whether a CIDR is scanned. *)
LEMMA WorkersSame ==
  ASSUME WorkersOK, UNCHANGED <<worker, wg, job, next>>, Scanning' = Scanning
  PROVE  WorkersOK'
<1>1. Staff' = Staff /\ Dialing' = Dialing
  BY DEF Staff, Dialing
<1> QED BY <1>1 DEF WorkersOK

(* Workers come and go with the WaitGroup. *)
LEMMA WorkersNext ==
  PoolInv /\ [Next]_vars => WorkersOK'
<1> SUFFICES ASSUME PoolInv, [Next]_vars PROVE WorkersOK'
  OBVIOUS
<1>0. /\ ScanShape /\ NetworksReady /\ WorkersOK
      /\ worker \in [Workers -> {"none", "waiting", "dialing"}]
      /\ job \in [Workers -> Nat] /\ next \in Nat \ {0}
  BY DEF PoolInv, ScanShape
<1>1. CASE Refuse \/ TooLarge \/ Choose
  <2>1. UNCHANGED <<worker, wg, job, next>> /\ ~Scanning /\ ~Scanning'
    BY <1>1 DEF Refuse, TooLarge, Choose, Scanning, handout, probe
  <2>2. Staff = {} /\ Dialing = {}
    BY <1>0, <2>1 DEF WorkersOK, Staff, Dialing
  <2>3. Staff' = {} /\ Dialing' = {}
    BY <2>1, <2>2 DEF Staff, Dialing
  <2> QED BY <2>1, <2>3 DEF WorkersOK
<1>2. CASE GiveUp \/ CloseJobs
  <2>1. UNCHANGED <<worker, wg, job, next>> /\ Scanning /\ Scanning'
    BY <1>2 DEF GiveUp, CloseJobs, Scanning, probe
  <2>2. Staff' = Staff /\ Dialing' = Dialing
    BY <2>1 DEF Staff, Dialing
  <2> QED BY <1>0, <2>1, <2>2 DEF WorkersOK
<1>3. CASE StartWorkers
  <2>1. /\ worker' = [w \in Workers |-> "waiting"] /\ wg' = Concurrency /\ Scanning'
    BY <1>3 DEF StartWorkers, Added, Scanning
  <2>2. Staff' = Workers /\ Dialing' = {}
    BY <2>1 DEF Staff, Dialing
  <2>3. Cardinality(Workers) = Concurrency
    BY FS_Interval, ScanAssumption DEF Workers
  <2> QED BY <2>1, <2>2, <2>3 DEF WorkersOK
<1>4. CASE Abort \/ Collect
  <2>1. UNCHANGED worker /\ wg = 0 /\ Scanning /\ ~Scanning'
    BY <1>4 DEF Abort, Collect, AllLeft, Scanning
  <2>2. Staff = {}
    BY <1>0, <2>1, Countable DEF WorkersOK, Staff
  <2>3. Staff' = {} /\ Dialing' = {}
    BY <2>1, <2>2 DEF Staff, Dialing
  <2> QED BY <2>1, <2>3 DEF WorkersOK
<1>5. ASSUME NEW w \in Workers, HandOut(w) PROVE WorkersOK'
  <2>1. /\ main = "handing" /\ main' = main /\ wg' = wg /\ worker[w] = "waiting"
        /\ next' = next + 1 /\ worker' = [worker EXCEPT ![w] = "dialing"]
        /\ job' = [job EXCEPT ![w] = next]
    BY <1>5 DEF HandOut
  <2>2. Staff' = Staff /\ Dialing' = Dialing \cup {w} /\ w \notin Dialing
    BY <1>0, <2>1 DEF Staff, Dialing
  <2>3. /\ \A v \in Dialing : job'[v] = job[v] /\ job[v] \in 1 .. next - 1
        /\ job'[w] = next
    BY <1>0, <2>1, <2>2 DEF WorkersOK, Dialing
  <2>4. Scanning' = Scanning /\ Scanning
    BY <2>1 DEF Scanning
  <2>5. \A v \in Dialing' : job'[v] \in 1 .. next' - 1
    BY <1>0, <2>1, <2>2, <2>3
  <2>6. \A u, v \in Dialing' : job'[u] = job'[v] => u = v
    <3>1. \A u, v \in Dialing : job'[u] = job'[v] => u = v
      BY <1>0, <2>3 DEF WorkersOK
    <3>2. \A v \in Dialing : job'[v] # job'[w]
      BY <1>0, <2>3
    <3> QED BY <2>2, <3>1, <3>2
  <2>7. wg' = Cardinality(Staff')
    BY <1>0, <2>1, <2>2, <2>4 DEF WorkersOK
  <2> QED BY <2>4, <2>5, <2>6, <2>7 DEF WorkersOK
<1>6. ASSUME NEW w \in Workers, DialPort(w) PROVE WorkersOK'
  <2>1. UNCHANGED <<worker, wg, job, next>> /\ Scanning' = Scanning
    BY <1>6 DEF DialPort, Scanning, handout
  <2> QED BY <1>0, <2>1, WorkersSame
<1>7. ASSUME NEW w \in Workers, HostDone(w) PROVE WorkersOK'
  <2>1. /\ UNCHANGED <<wg, job, next>> /\ Scanning' = Scanning
        /\ worker[w] = "dialing" /\ worker' = [worker EXCEPT ![w] = "waiting"]
    BY <1>7 DEF HostDone, Scanning, handout, probe
  <2>2. Staff' = Staff /\ Dialing' = Dialing \ {w}
    BY <1>0, <2>1 DEF Staff, Dialing
  <2> QED BY <1>0, <2>1, <2>2 DEF WorkersOK
<1>8. ASSUME NEW w \in Workers, Leave(w) PROVE WorkersOK'
  <2>1. /\ UNCHANGED <<job, next>> /\ Scanning' = Scanning /\ wg' = wg - 1
        /\ worker[w] = "waiting" /\ worker' = [worker EXCEPT ![w] = "none"]
    BY <1>8 DEF Leave, Scanning, handout, probe
  <2>2. Staff' = Staff \ {w} /\ w \in Staff /\ Dialing' = Dialing
    BY <1>0, <2>1 DEF Staff, Dialing
  <2>3. Scanning /\ wg = Cardinality(Staff)
    BY <1>0, <2>2 DEF WorkersOK
  <2>4. Staff \in SUBSET Workers
    BY DEF Staff
  <2>5. Cardinality(Staff \ {w}) = Cardinality(Staff) - 1
    BY <2>2, <2>4, Countable
  <2>6. wg' = Cardinality(Staff')
    BY <2>1, <2>2, <2>3, <2>5
  <2> QED BY <1>0, <2>1, <2>2, <2>3, <2>6 DEF WorkersOK
<1>9. CASE Cancel \/ Over \/ UNCHANGED vars
  <2>1. UNCHANGED <<worker, wg, job, next>> /\ Scanning' = Scanning
    BY <1>9 DEF Cancel, Over, vars, Scanning, handout, probe
  <2> QED BY <1>0, <2>1, WorkersSame
<1> QED BY <1>1, <1>2, <1>3, <1>4, <1>5, <1>6, <1>7, <1>8, <1>9 DEF Next, HandlerNext, WorkerNext

(* The invariant of the pool holds at first and is kept. *)
LEMMA PoolInit == Init => PoolInv
<1> SUFFICES ASSUME Init PROVE PoolInv
  OBVIOUS
<1>1. ScanShape
  BY DEF Init, ScanShape
<1>2. NetworksReady
  BY DEF Init, NetworksReady
<1>3. Staff = {} /\ Dialing = {} /\ ~Scanning
  BY DEF Init, Staff, Dialing, Scanning
<1>4. WorkersOK
  BY <1>3 DEF WorkersOK
<1> QED BY <1>1, <1>2, <1>4 DEF PoolInv

(* Every step keeps the invariant of the pool. *)
LEMMA PoolNext == PoolInv /\ [Next]_vars => PoolInv'
BY ScanShapeNext, NetworksNext, WorkersNext DEF PoolInv

---------------------------------------------------------------------------
(* The pool implements the bounded fan-out.                                *)

(* Belonging to the jobs of some networks. *)
LEMMA UnionOfJobs ==
  ASSUME NEW K
  PROVE  \A x : x \in UNION {JobsOf(n) : n \in K} <=> \E n \in K : x \in JobsOf(n)
OBVIOUS

(* The jobs that are held and that are settled are jobs, and no job is both.*)
LEMMA JobsApart ==
  ASSUME PoolInv
  PROVE  /\ Busy = {<<cidrs[cidr], job[w]>> : w \in Dialing}
         /\ Busy \subseteq AllJobs /\ Settled \subseteq AllJobs \ Busy
         /\ ~Scanning => Busy = {} /\ Dialing = {}
         /\ main \notin {"asked", "failed"} => Busy \subseteq HandedOut /\ HandedOut \subseteq Wanted
<1>0. ScanShape /\ NetworksReady /\ WorkersOK
  BY DEF PoolInv
<1>1. Busy = {<<cidrs[cidr], job[w]>> : w \in Dialing}
  BY DEF Busy, Dialing
<1>2. ~Scanning => Busy = {} /\ Dialing = {}
  BY <1>0, <1>1 DEF WorkersOK, Staff, Dialing
<1>3. CASE main \in {"asked", "failed"}
  <2>1. Busy = {}
    BY <1>2, <1>3 DEF Scanning
  <2> QED BY <1>1, <1>2, <1>3, <2>1 DEF Settled
<1>4. CASE main \notin {"asked", "failed"}
  <2>1. /\ Size \in Nat /\ cidrs[cidr] \in AllNetworks /\ DOMAIN cidrs = 1 .. Len(cidrs)
        /\ Len(cidrs) \in Nat /\ cidr \in 1 .. Len(cidrs)
    BY <1>0, <1>4, SizeIs DEF NetworksReady
  <2>2. next \in Nat \ {0} /\ MaxHosts \in Nat
    BY <1>0, ScanAssumption DEF ScanShape
  <2> DEFINE now == IF main = "open" THEN {} ELSE {cidrs[cidr]} \X (1 .. next - 1)
  <2>3. now \subseteq AllJobs /\ now \subseteq JobsOf(cidr)
    <3>1. CASE main = "open"
      BY <3>1
    <3>2. CASE main # "open"
      <4>1. Size <= MaxHosts /\ next <= Size + 1
        BY <1>0, <1>4, <3>2 DEF NetworksReady
      <4>2. 1 .. next - 1 \subseteq 1 .. Size /\ 1 .. next - 1 \subseteq 1 .. MaxHosts
        BY <2>1, <2>2, <4>1
      <4> QED BY <2>1, <3>2, <4>2 DEF AllJobs, JobsOf, Size, Addresses
    <3> QED BY <3>1, <3>2
  <2>4. ASSUME NEW n \in 1 .. cidr - 1
        PROVE  n \in DOMAIN cidrs /\ JobsOf(n) \subseteq AllJobs
    <3>1. n \in DOMAIN cidrs /\ cidrs[n] \in AllNetworks /\ Len(Hosts(cidrs[n])) <= MaxHosts
      <4>1. n \in DOMAIN cidrs
        BY <2>1
      <4>2. cidrs \in Seq(AllNetworks) /\ Len(Hosts(cidrs[n])) <= MaxHosts
        BY <1>0, <1>4 DEF NetworksReady
      <4>3. cidrs[n] \in AllNetworks
        BY <4>1, <4>2
      <4> QED BY <4>1, <4>2, <4>3
    <3>2. Len(Hosts(cidrs[n])) \in Nat
      BY <3>1, NetworksArePrefixes, HostsAre
    <3>3. 1 .. Len(Hosts(cidrs[n])) \subseteq 1 .. MaxHosts
      BY <2>2, <3>1, <3>2
    <3> QED BY <3>1, <3>3 DEF JobsOf, AllJobs
  <2>5. \A x : x \in HandedOut <=> (\E n \in 1 .. cidr - 1 : x \in JobsOf(n)) \/ x \in now
    <3> DEFINE earlier == UNION {JobsOf(n) : n \in 1 .. cidr - 1}
    <3>1. HandedOut = earlier \cup now
      BY DEF HandedOut
    <3>2. \A x : x \in earlier <=> \E n \in 1 .. cidr - 1 : x \in JobsOf(n)
      BY UnionOfJobs
    <3> HIDE DEF now, earlier
    <3> QED BY <3>1, <3>2
  <2> HIDE DEF now
  <2>6. HandedOut \subseteq AllJobs
    BY <2>3, <2>4, <2>5, Zenon
  <2>7. HandedOut \subseteq Wanted
    <3>1. cidr \in DOMAIN cidrs
      BY <2>1
    <3>2. \A n \in DOMAIN cidrs : JobsOf(n) \subseteq Wanted
      BY UnionOfJobs DEF Wanted
    <3> QED BY <2>3, <2>4, <2>5, <3>1, <3>2, Zenon
  <2>8. Busy \subseteq now
    <3>1. CASE main = "open"
      BY <1>2, <3>1 DEF Scanning
    <3>2. CASE main # "open"
      BY <1>0, <1>1, <3>2 DEF now, WorkersOK
    <3> QED BY <3>1, <3>2
  <2>9. Settled \subseteq AllJobs \ Busy
    BY <1>4, <2>6 DEF Settled
  <2>10. Busy \subseteq HandedOut /\ Busy \subseteq AllJobs
    BY <2>3, <2>5, <2>8, Zenon
  <2> QED BY <1>1, <1>2, <2>7, <2>9, <2>10
<1> QED BY <1>3, <1>4

(* A step that leaves the three abstract variables alone is a stutter. *)
LEMMA PoolStutter ==
  ASSUME UNCHANGED <<worker, job, cidrs, cidr, next>>, main' = main
  PROVE  UNCHANGED PoolFanOut!vars
<1>1. Busy' = Busy
  BY DEF Busy
<1>2. Settled' = Settled
  <2>1. Wanted' = Wanted /\ HandedOut' = HandedOut
    BY DEF Wanted, HandedOut, JobsOf
  <2> QED BY <1>1, <2>1 DEF Settled
<1> QED BY <1>1, <1>2 DEF PoolFanOut!vars

(* The hand-over of an address is a Begin of FanOut: the worker that takes  *)
(* it was not busy.                                                         *)
LEMMA PoolBegin ==
  ASSUME PoolInv, NEW w \in Workers, HandOut(w)
  PROVE  \E j \in AllJobs : PoolFanOut!Begin(j)
<1>0. ScanShape /\ NetworksReady /\ WorkersOK
  BY DEF PoolInv
<1> DEFINE j == <<cidrs[cidr], next>>
<1>1. /\ main = "handing" /\ main' = main /\ worker[w] = "waiting" /\ next <= Size
      /\ next' = next + 1 /\ worker' = [worker EXCEPT ![w] = "dialing"]
      /\ job' = [job EXCEPT ![w] = next] /\ UNCHANGED <<cidrs, cidr>>
  <2>1. main = "handing" /\ Size \in Nat /\ next \in Nat
    BY <1>0, SizeIs DEF HandOut, NetworksReady, ScanShape
  <2>2. ~(next > Size)
    BY DEF HandOut, AllHanded
  <2>3. next <= Size
    BY <2>1, <2>2
  <2> QED BY <2>3 DEF HandOut
<1>2. /\ Size \in Nat /\ Size <= MaxHosts /\ MaxHosts \in Nat /\ next \in Nat \ {0}
      /\ cidrs[cidr] \in AllNetworks /\ DOMAIN cidrs = 1 .. Len(cidrs) /\ cidr \in DOMAIN cidrs
      /\ \A m, n \in DOMAIN cidrs : cidrs[m] = cidrs[n] => m = n
      /\ Len(cidrs) \in Nat
  BY <1>0, <1>1, SizeIs, ScanAssumption DEF NetworksReady, ScanShape
<1>3. j \in AllJobs /\ j \in Wanted
  BY <1>1, <1>2 DEF AllJobs, Wanted, JobsOf, Size, Addresses
<1>4. j \notin HandedOut
  <2>1. \A n \in 1 .. cidr - 1 : cidrs[n] # cidrs[cidr]
    BY <1>2
  <2>2. \A n \in 1 .. cidr - 1 : j \notin JobsOf(n)
    BY <2>1 DEF JobsOf
  <2>3. j \notin {cidrs[cidr]} \X (1 .. next - 1)
    BY <1>2
  <2> DEFINE earlier == UNION {JobsOf(n) : n \in 1 .. cidr - 1}
             now     == {cidrs[cidr]} \X (1 .. next - 1)
  <2>4. HandedOut = earlier \cup now
    BY <1>1 DEF HandedOut
  <2>5. \A x : x \in earlier <=> \E n \in 1 .. cidr - 1 : x \in JobsOf(n)
    BY UnionOfJobs
  <2>6. j \notin now
    BY <2>3
  <2> HIDE DEF j, earlier, now
  <2> QED BY <2>2, <2>4, <2>5, <2>6
<1>5. Dialing' = Dialing \cup {w} /\ w \notin Dialing /\ Dialing \subseteq Workers
  BY <1>0, <1>1 DEF Dialing, ScanShape
<1>6. Busy' = Busy \cup {j}
  <2>1. Busy' = {<<cidrs[cidr], job'[v]>> : v \in Dialing'}
    BY <1>1 DEF Busy, Dialing
  <2>2. job'[w] = next /\ \A v \in Dialing : job'[v] = job[v]
    BY <1>0, <1>1, <1>5 DEF ScanShape, Dialing
  <2>3. Busy = {<<cidrs[cidr], job[v]>> : v \in Dialing}
    BY JobsApart
  <2> QED BY <1>5, <2>1, <2>2, <2>3
<1>7. HandedOut' = HandedOut \cup {j} /\ Wanted' = Wanted
  <2>1. 1 .. next' - 1 = (1 .. next - 1) \cup {next}
    BY <1>1, <1>2
  <2>2. {cidrs[cidr]} \X (1 .. next' - 1) = ({cidrs[cidr]} \X (1 .. next - 1)) \cup {j}
    BY <2>1
  <2>3. /\ HandedOut = (UNION {JobsOf(n) : n \in 1 .. cidr - 1}) \cup ({cidrs[cidr]} \X (1 .. next - 1))
        /\ HandedOut' = (UNION {JobsOf(n) : n \in 1 .. cidr - 1}) \cup ({cidrs[cidr]} \X (1 .. next' - 1))
    BY <1>1 DEF HandedOut, JobsOf
  <2> HIDE DEF j
  <2>4. Wanted' = Wanted
    BY <1>1 DEF Wanted, JobsOf
  <2> DEFINE earlier == UNION {JobsOf(n) : n \in 1 .. cidr - 1}
             now     == {cidrs[cidr]} \X (1 .. next - 1)
             later   == {cidrs[cidr]} \X (1 .. next' - 1)
  <2>5. HandedOut = earlier \cup now /\ HandedOut' = earlier \cup later /\ later = now \cup {j}
    BY <2>2, <2>3, Zenon
  <2> HIDE DEF earlier, now, later
  <2> QED BY <2>4, <2>5
<1>8. Busy \subseteq HandedOut
  BY <1>1, JobsApart
<1> HIDE DEF j
<1>9. /\ Settled = ((AllJobs \ Wanted) \cup HandedOut) \ Busy
      /\ Settled' = ((AllJobs \ Wanted') \cup HandedOut') \ Busy'
  BY <1>1 DEF Settled
<1>10. Settled' = Settled /\ j \notin Busy \cup Settled
  BY <1>3, <1>4, <1>6, <1>7, <1>8, <1>9
<1>11. Cardinality(Busy) < Concurrency
  <2> DEFINE f == [v \in Dialing |-> <<cidrs[cidr], job[v]>>]
  <2>1. f \in Surjection(Dialing, Busy)
    <3>1. Busy = {<<cidrs[cidr], job[v]>> : v \in Dialing}
      BY JobsApart
    <3> QED BY <3>1 DEF Surjection
  <2>2. IsFiniteSet(Dialing) /\ Cardinality(Dialing) < Concurrency /\ Cardinality(Dialing) \in Nat
    BY <1>5, Countable
  <2>3. IsFiniteSet(Busy) /\ Cardinality(Busy) <= Cardinality(Dialing)
    BY <2>1, <2>2, FS_Surjection
  <2>4. Cardinality(Busy) \in Nat /\ Concurrency \in Nat
    BY <2>3, FS_CardinalityType, ScanAssumption
  <2> QED BY <2>2, <2>3, <2>4
<1>12. PoolFanOut!Cardinality(Busy) = Cardinality(Busy)
  BY Zenon DEF PoolFanOut!Cardinality, Cardinality
<1>13. main \notin {"answered", "failed"}
  BY <1>1
<1>14. PoolFanOut!Begin(j)
  BY <1>1, <1>6, <1>10, <1>11, <1>12, <1>13 DEF PoolFanOut!Begin
<1> QED BY <1>3, <1>14

(* A worker that is done with its address settles its job. *)
LEMMA PoolSettle ==
  ASSUME PoolInv, NEW w \in Workers, HostDone(w)
  PROVE  <<cidrs[cidr], job[w]>> \in AllJobs /\ PoolFanOut!Settle(<<cidrs[cidr], job[w]>>)
<1>0. ScanShape /\ NetworksReady /\ WorkersOK
  BY DEF PoolInv
<1> DEFINE j == <<cidrs[cidr], job[w]>>
<1>1. /\ UNCHANGED <<main, job, cidrs, cidr, next>>
      /\ worker[w] = "dialing" /\ worker' = [worker EXCEPT ![w] = "waiting"]
  BY DEF HostDone, handout, probe
<1>2. Dialing' = Dialing \ {w} /\ w \in Dialing
  BY <1>0, <1>1 DEF Dialing, ScanShape
<1>3. /\ Busy = {<<cidrs[cidr], job[v]>> : v \in Dialing} /\ Busy \subseteq AllJobs
      /\ Scanning /\ (main \notin {"asked", "failed"} => Busy \subseteq HandedOut)
  BY <1>2, JobsApart
<1>4. Busy' = Busy \ {j} /\ j \in Busy
  <2>1. Busy' = {<<cidrs[cidr], job[v]>> : v \in Dialing'}
    BY <1>1 DEF Busy, Dialing
  <2>2. \A v \in Dialing : job[v] = job[w] => v = w
    BY <1>0, <1>2 DEF WorkersOK
  <2> QED BY <1>2, <1>3, <2>1, <2>2
<1>5. HandedOut' = HandedOut /\ Wanted' = Wanted
  BY <1>1 DEF HandedOut, Wanted, JobsOf
<1> HIDE DEF j
<1>6. Settled' = Settled \cup {j}
  <2>1. main \in {"handing", "draining", "aborting"} /\ main' = main
    BY <1>1, <1>3 DEF Scanning
  <2>2. CASE main = "aborting"
    BY <1>3, <1>4, <2>1, <2>2 DEF Settled
  <2>3. CASE main # "aborting"
    <3>1. /\ Settled = ((AllJobs \ Wanted) \cup HandedOut) \ Busy
          /\ Settled' = ((AllJobs \ Wanted') \cup HandedOut') \ Busy'
      BY <2>1, <2>3 DEF Settled
    <3>2. j \in HandedOut
      BY <1>3, <1>4, <2>1
    <3> QED BY <1>4, <1>5, <3>1, <3>2
  <2> QED BY <2>2, <2>3
<1>7. PoolFanOut!Settle(j)
  BY <1>1, <1>4, <1>6 DEF PoolFanOut!Settle
<1> QED BY <1>3, <1>4, <1>7 DEF j

(* What the end of a request makes of the jobs. *)
LEMMA PoolFails ==
  ASSUME PoolInv, main' = "failed", worker' = worker, Staff = {}, main \notin {"answered", "failed"}
  PROVE  /\ main \in {"asked", "open"} => PoolFanOut!Refuse
         /\ main = "aborting" => PoolFanOut!Close
<1>1. Busy = {} /\ Busy' = {}
  BY DEF Busy, Staff
<1>2. Settled' = AllJobs
  BY <1>1 DEF Settled
<1>3. main = "aborting" => Settled = AllJobs
  BY <1>1 DEF Settled
<1> QED BY <1>1, <1>2, <1>3 DEF PoolFanOut!Refuse, PoolFanOut!Close

(* All addresses of the CIDR are done: the next CIDR follows, or every job  *)
(* is settled and the answer is given.                                      *)
LEMMA PoolCollect ==
  ASSUME PoolInv, Collect
  PROVE  PoolFanOut!Close \/ UNCHANGED PoolFanOut!vars
<1>0. ScanShape /\ NetworksReady /\ WorkersOK
  BY DEF PoolInv
<1>1. main = "draining" /\ wg = 0 /\ UNCHANGED <<cidrs, next, worker>>
  BY DEF Collect, AllLeft
<1>2. Staff = {}
  BY <1>0, <1>1, Countable DEF WorkersOK, Scanning, Staff
<1>3. Busy = {} /\ Busy' = {}
  BY <1>1, <1>2 DEF Busy, Staff
<1>4. /\ next = Size + 1 /\ Size \in Nat /\ DOMAIN cidrs = 1 .. Len(cidrs) /\ Len(cidrs) \in Nat
      /\ cidr \in DOMAIN cidrs /\ cidr \in Nat \ {0}
  BY <1>0, <1>1, SizeIs DEF NetworksReady, ScanShape
<1>5. HandedOut = UNION {JobsOf(n) : n \in 1 .. cidr}
  <2>1. HandedOut = (UNION {JobsOf(n) : n \in 1 .. cidr - 1}) \cup JobsOf(cidr)
    <3>1. next - 1 = Len(Hosts(cidrs[cidr]))
      BY <1>4 DEF Size, Addresses
    <3> QED BY <1>1, <3>1 DEF HandedOut, JobsOf
  <2>2. 1 .. cidr = (1 .. cidr - 1) \cup {cidr}
    BY <1>4
  <2> DEFINE earlier == UNION {JobsOf(n) : n \in 1 .. cidr - 1}
             upTo    == UNION {JobsOf(n) : n \in 1 .. cidr}
  <2>3. /\ \A x : x \in earlier <=> \E n \in 1 .. cidr - 1 : x \in JobsOf(n)
        /\ \A x : x \in upTo <=> \E n \in 1 .. cidr : x \in JobsOf(n)
    BY UnionOfJobs
  <2>4. HandedOut = earlier \cup JobsOf(cidr)
    BY <2>1
  <2> HIDE DEF earlier, upTo
  <2>5. HandedOut = upTo
    BY <2>2, <2>3, <2>4
  <2> QED BY <2>5 DEF upTo
<1>6. Settled = (AllJobs \ Wanted) \cup HandedOut
  BY <1>1, <1>3 DEF Settled
<1>7. Wanted' = Wanted
  BY <1>1 DEF Wanted, JobsOf
<1>8. CASE cidr < Len(cidrs)
  <2>1. main' = "open" /\ cidr' = cidr + 1
    BY <1>8 DEF Collect
  <2>2. HandedOut' = UNION {JobsOf(n) : n \in 1 .. cidr}
    <3>1. 1 .. cidr' - 1 = 1 .. cidr
      BY <1>4, <2>1
    <3> QED BY <1>1, <2>1, <3>1 DEF HandedOut, JobsOf
  <2>3. Settled' = (AllJobs \ Wanted') \cup HandedOut'
    BY <1>3, <2>1 DEF Settled
  <2>4. Settled' = Settled
    BY <1>5, <1>6, <1>7, <2>2, <2>3
  <2> QED BY <1>1, <1>3, <2>1, <2>4 DEF PoolFanOut!vars
<1>9. CASE ~(cidr < Len(cidrs))
  <2>1. main' = "answered" /\ cidr' = cidr
    BY <1>9 DEF Collect
  <2>2. HandedOut = Wanted
    <3>1. 1 .. cidr = DOMAIN cidrs
      BY <1>4, <1>9
    <3> QED BY <1>5, <3>1 DEF Wanted
  <2>3. HandedOut' = HandedOut
    BY <1>1, <2>1 DEF HandedOut, JobsOf
  <2>4. Settled' = (AllJobs \ Wanted') \cup HandedOut'
    BY <1>3, <2>1 DEF Settled
  <2>5. Wanted \subseteq AllJobs
    BY <1>3, <1>6, <2>2, JobsApart
  <2>6. Settled = AllJobs /\ Settled' = AllJobs
    BY <1>6, <1>7, <2>2, <2>3, <2>4, <2>5
  <2> QED BY <1>1, <1>3, <2>1, <2>6 DEF PoolFanOut!Close
<1> QED BY <1>8, <1>9

(* What moves no job. *)
Quiet == \/ StartWorkers \/ CloseJobs \/ Cancel \/ Over \/ UNCHANGED vars
         \/ \E w \in Workers : DialPort(w) \/ Leave(w)

(* It is a stutter of FanOut. *)
LEMMA PoolQuiet ==
  ASSUME PoolInv, Quiet
  PROVE  UNCHANGED PoolFanOut!vars
<1>0. ScanShape /\ NetworksReady /\ WorkersOK
  BY DEF PoolInv
<1>1. CASE StartWorkers
  <2>1. /\ main = "open" /\ main' = "handing" /\ next' = 1 /\ UNCHANGED <<cidrs, cidr>>
        /\ worker' = [w \in Workers |-> "waiting"]
    BY <1>1 DEF StartWorkers
  <2>2. Staff = {}
    BY <1>0, <2>1 DEF WorkersOK, Scanning
  <2>3. Busy = {} /\ Busy' = {}
    BY <2>1, <2>2 DEF Busy, Staff
  <2>4. HandedOut' = HandedOut /\ Wanted' = Wanted
    <3>1. {cidrs[cidr]} \X (1 .. next' - 1) = {}
      BY <2>1
    <3> QED BY <2>1, <3>1 DEF HandedOut, Wanted, JobsOf
  <2>5. Settled' = Settled
    BY <2>1, <2>3, <2>4 DEF Settled
  <2> QED BY <2>1, <2>3, <2>5 DEF PoolFanOut!vars
<1>2. CASE CloseJobs
  <2>1. main = "handing" /\ main' = "draining" /\ UNCHANGED <<cidr, cidrs, worker, job, next>>
    BY <1>2 DEF CloseJobs, probe
  <2>2. Busy' = Busy /\ Wanted' = Wanted /\ HandedOut' = HandedOut
    BY <2>1 DEF Busy, Wanted, HandedOut, JobsOf
  <2>3. Settled' = Settled
    BY <2>1, <2>2 DEF Settled
  <2> QED BY <2>1, <2>2, <2>3 DEF PoolFanOut!vars
<1>3. ASSUME NEW w \in Workers, DialPort(w)
      PROVE  UNCHANGED PoolFanOut!vars
  BY <1>3, PoolStutter DEF DialPort, handout
<1>4. ASSUME NEW w \in Workers, Leave(w)
       PROVE  UNCHANGED PoolFanOut!vars
  <2>1. /\ UNCHANGED <<main, job, cidrs, cidr, next>>
        /\ worker[w] = "waiting" /\ worker' = [worker EXCEPT ![w] = "none"]
    BY <1>4 DEF Leave, handout, probe
  <2>2. Dialing' = Dialing
    BY <1>0, <2>1 DEF Dialing, ScanShape
  <2>3. Busy' = Busy /\ Wanted' = Wanted /\ HandedOut' = HandedOut
    BY <2>1, <2>2 DEF Busy, Dialing, Wanted, HandedOut, JobsOf
  <2>4. Settled' = Settled
    BY <2>1, <2>3 DEF Settled
  <2> QED BY <2>1, <2>3, <2>4 DEF PoolFanOut!vars
<1>5. CASE Cancel \/ Over \/ UNCHANGED vars
  BY <1>5, PoolStutter DEF Cancel, Over, vars, handout, probe
<1> QED BY <1>1, <1>2, <1>3, <1>4, <1>5 DEF Quiet

(* Every step of the scan is a step of FanOut or a stutter. *)
LEMMA PoolFanOutNext == PoolInv /\ [Next]_vars => [PoolFanOut!Next]_(PoolFanOut!vars)
<1> SUFFICES ASSUME PoolInv, [Next]_vars PROVE PoolFanOut!Next \/ UNCHANGED PoolFanOut!vars
  OBVIOUS
<1>0. ScanShape /\ NetworksReady /\ WorkersOK
  BY DEF PoolInv
<1>1. CASE Refuse \/ TooLarge
  <2>1. main' = "failed" /\ worker' = worker /\ main \in {"asked", "open"}
    BY <1>1 DEF Refuse, TooLarge
  <2>2. Staff = {}
    BY <1>0, <2>1 DEF WorkersOK, Scanning
  <2> QED BY <2>1, <2>2, PoolFails DEF PoolFanOut!Next
<1>2. CASE Choose
  <2>1. main = "asked" /\ main' = "open" /\ worker' = worker /\ cidr' = 1
    BY <1>0, <1>2 DEF Choose, ScanShape
  <2>2. Staff = {}
    BY <1>0, <2>1 DEF WorkersOK, Scanning
  <2>3. Busy = {} /\ Busy' = {}
    BY <2>1, <2>2 DEF Busy, Staff
  <2>4. Settled = {}
    BY <2>1 DEF Settled
  <2>5. HandedOut' = {}
    BY <2>1 DEF HandedOut
  <2>6. Settled' \subseteq AllJobs
    BY <2>1, <2>5 DEF Settled
  <2> QED BY <2>1, <2>3, <2>4, <2>6 DEF PoolFanOut!Drop, PoolFanOut!Next
<1>3. CASE GiveUp
  <2>1. main = "handing" /\ main' = "aborting" /\ UNCHANGED <<cidr, cidrs, worker, job>>
    BY <1>3 DEF GiveUp, probe
  <2>2. Busy' = Busy
    BY <2>1 DEF Busy
  <2>3. Settled' = AllJobs \ Busy
    BY <2>1, <2>2 DEF Settled
  <2> QED BY <2>1, <2>2, <2>3, JobsApart DEF PoolFanOut!Drop, PoolFanOut!Next
<1>4. CASE Abort
  <2>1. main = "aborting" /\ main' = "failed" /\ worker' = worker /\ wg = 0
    BY <1>4 DEF Abort, AllLeft
  <2>2. Staff = {}
    BY <1>0, <2>1, Countable DEF WorkersOK, Scanning, Staff
  <2> QED BY <2>1, <2>2, PoolFails DEF PoolFanOut!Next
<1>5. CASE Collect
  BY <1>5, PoolCollect DEF PoolFanOut!Next
<1>6. ASSUME NEW w \in Workers, HandOut(w) \/ HostDone(w)
      PROVE  PoolFanOut!Next
  BY <1>6, PoolBegin, PoolSettle DEF PoolFanOut!Next
<1>7. CASE Quiet
  BY <1>7, PoolQuiet
<1> QED BY <1>1, <1>2, <1>3, <1>4, <1>5, <1>6, <1>7 DEF Next, HandlerNext, WorkerNext, Quiet

(* The initial states of a scan are initial states of FanOut. *)
LEMMA PoolFanOutInit == Init => PoolFanOut!Init
<1> SUFFICES ASSUME Init PROVE PoolFanOut!Init
  OBVIOUS
<1>1. Busy = {} /\ Settled = {} /\ main = "asked"
  BY DEF Init, Busy, Settled
<1> QED BY <1>1 DEF PoolFanOut!Init

(* A scan is a bounded fan-out (FanOut.tla) for every query, every machine, *)
(* every number of workers and every limit: at most Concurrency addresses   *)
(* are dialed at once, each of them once, and the client is answered when   *)
(* none is left that was begun.                                             *)
THEOREM ScanImplementsFanOut == Spec => ImplementsFanOut
<1>1. Init => PoolInv /\ PoolFanOut!Init
  BY PoolInit, PoolFanOutInit
<1>2. PoolInv /\ [Next]_vars => PoolInv' /\ [PoolFanOut!Next]_(PoolFanOut!vars)
  BY PoolNext, PoolFanOutNext
<1> QED BY <1>1, <1>2, PTL DEF Spec, ImplementsFanOut, PoolFanOut!Spec

---------------------------------------------------------------------------
(* The dials of a scan of the Hub.  What has been handed out is either      *)
(* dialed, or left to a worker, or was not dialed because the context was   *)
(* done.                                                                    *)

Left == {d \in Workers \X (1 .. Len(Ports)) : d[1] \in Dialing /\ dialed[d[1]] < d[2]}

DialsCounted ==
  /\ dials \in Nat /\ traffic \in Nat /\ metered \in Nat
  /\ \A w \in Dialing : dialed[w] <= Len(Ports)
  /\ query.by = "hub" =>
       /\ main # "answered" => metered = 0
       /\ main \in {"asked", "open"} => dials <= traffic /\ (~ctxDone => dials = traffic)
       /\ Scanning =>
            /\ dials + Cardinality(Left) <= traffic + (next - 1) * Len(Ports)
            /\ ~ctxDone => dials + Cardinality(Left) = traffic + (next - 1) * Len(Ports)
       /\ main = "answered" => dials <= metered /\ (~ctxDone => dials = metered)

DialsInv == PoolInv /\ DialsCounted

(* A list has finitely many elements. *)
LEMMA ToSetFinite ==
  ASSUME NEW S, NEW s \in Seq(S)
  PROVE  IsFiniteSet(ToSet(s)) /\ Cardinality(ToSet(s)) \in Nat
<1>1. Len(s) \in Nat /\ DOMAIN s = 1 .. Len(s) /\ IsFiniteSet(1 .. Len(s))
  BY FS_Interval
<1>2. s \in Surjection(1 .. Len(s), ToSet(s))
  <2>1. ToSet(s) = {s[k] : k \in 1 .. Len(s)}
    BY <1>1 DEF ToSet
  <2>2. s = [k \in 1 .. Len(s) |-> s[k]]
    OBVIOUS
  <2> QED BY <2>1, <2>2 DEF Surjection
<1>3. IsFiniteSet(ToSet(s))
  BY <1>1, <1>2, FS_Surjection
<1> QED BY <1>3, FS_CardinalityType

(* The ports are a list. *)
LEMMA PortsAre ==
  ASSUME ScanShape
  PROVE  DOMAIN Ports = 1 .. Len(Ports) /\ Len(Ports) \in Nat
<1>1. query.ports \in Seq(Nat) /\ DefaultPorts \in Seq(Nat)
  BY ScanAssumption DEF ScanShape
<1> DEFINE n == Cardinality(ToSet(query.ports))
<1>2. n \in Nat
  BY <1>1, ToSetFinite
<1> HIDE DEF n
<1>3. DOMAIN InOrder(ToSet(query.ports)) = 1 .. n /\ Len(InOrder(ToSet(query.ports))) = n
  BY <1>2 DEF InOrder, n
<1> QED BY <1>1, <1>2, <1>3 DEF Ports, ParsePorts

(* What is left can be counted, and there is nothing left for no worker.    *)
LEMMA LeftCounted ==
  ASSUME DialsInv
  PROVE  /\ Len(Ports) \in Nat /\ IsFiniteSet(Left) /\ Cardinality(Left) \in Nat
         /\ Dialing = {} => Cardinality(Left) = 0
<1>1. Len(Ports) \in Nat
  BY PortsAre DEF DialsInv, PoolInv
<1>2. IsFiniteSet(Workers) /\ IsFiniteSet(1 .. Len(Ports))
  BY <1>1, FS_Interval, Countable
<1>3. IsFiniteSet(Workers \X (1 .. Len(Ports)))
  BY <1>2, FS_Product
<1>4. IsFiniteSet(Left)
  BY <1>3, FS_Subset DEF Left
<1>5. Dialing = {} => Left = {}
  BY DEF Left
<1> QED BY <1>1, <1>4, <1>5, FS_CardinalityType, FS_EmptySet

(* A step that neither dials nor moves a worker, and leaves the phase as it *)
(* is.                                                                      *)
LEMMA DialsSame ==
  ASSUME DialsCounted, UNCHANGED <<query, worker, dialed, dials, traffic, metered, next>>,
         main' = main, ctxDone => ctxDone'
  PROVE  DialsCounted'
<1>1. Left' = Left /\ Dialing' = Dialing /\ Ports' = Ports /\ Scanning' = Scanning
  BY DEF Left, Dialing, Ports, Scanning
<1> QED BY <1>1 DEF DialsCounted

(* With an address a worker gets all its ports. *)
LEMMA HandOutCounts ==
  ASSUME DialsInv, NEW w \in Workers, HandOut(w)
  PROVE  DialsCounted'
<1>0. ScanShape /\ WorkersOK /\ DialsCounted
  BY DEF DialsInv, PoolInv
<1> DEFINE n == Len(Ports)
<1>1. /\ main = "handing" /\ main' = main /\ worker[w] = "waiting" /\ next \in Nat \ {0}
      /\ next' = next + 1 /\ worker' = [worker EXCEPT ![w] = "dialing"]
      /\ dialed' = [dialed EXCEPT ![w] = 0]
      /\ UNCHANGED <<query, ctxDone, dials, traffic, metered>>
  BY <1>0 DEF HandOut, request, answer, ScanShape
<1>2. n \in Nat /\ IsFiniteSet(Left) /\ Cardinality(Left) \in Nat /\ Ports' = Ports
  BY <1>1, LeftCounted DEF Ports
<1>3. /\ Dialing' = Dialing \cup {w} /\ w \notin Dialing /\ dialed'[w] = 0
      /\ \A v \in Dialing : dialed'[v] = dialed[v]
  BY <1>0, <1>1 DEF Dialing, ScanShape
<1> HIDE DEF n
<1>4. Left' = Left \cup ({w} \X (1 .. n)) /\ Left \cap ({w} \X (1 .. n)) = {}
  <2>1. Left' = {d \in Workers \X (1 .. n) : d[1] \in Dialing' /\ dialed'[d[1]] < d[2]}
    BY <1>2 DEF Left, n
  <2>2. Left = {d \in Workers \X (1 .. n) : d[1] \in Dialing /\ dialed[d[1]] < d[2]}
    BY DEF Left, n
  <2> QED BY <1>2, <1>3, <2>1, <2>2
<1>5. Cardinality(Left') = Cardinality(Left) + n
  <2> DEFINE more == {w} \X (1 .. n)
  <2>1. IsFiniteSet(1 .. n) /\ Cardinality(1 .. n) = n
    BY <1>2, FS_Interval
  <2>2. IsFiniteSet({w}) /\ Cardinality({w}) = 1
    BY FS_Singleton, Zenon
  <2>3. IsFiniteSet(more) /\ Cardinality(more) = Cardinality({w}) * Cardinality(1 .. n)
    BY <2>1, <2>2, FS_Product, Zenon
  <2> HIDE DEF more
  <2>4. Cardinality(Left \cap more) = 0
    BY <1>4, FS_EmptySet DEF more
  <2>5. Cardinality(Left \cup more) = Cardinality(Left) + Cardinality(more) - Cardinality(Left \cap more)
    BY <1>2, <2>3, FS_Union, Zenon
  <2>6. Cardinality(more) = n
    BY <1>2, <2>1, <2>2, <2>3
  <2> QED BY <1>2, <1>4, <2>4, <2>5, <2>6 DEF more
<1>6. (next' - 1) * n = (next - 1) * n + n
  BY <1>1, <1>2
<1>7. (next - 1) * n \in Nat
  BY <1>1, <1>2
<1>8. \A v \in Dialing' : dialed'[v] <= n
  BY <1>0, <1>2, <1>3 DEF DialsCounted, n
<1> DEFINE c == Cardinality(Left)
           c2 == Cardinality(Left')
           m == (next - 1) * n
           m2 == (next' - 1) * n
<1>9. query.by = "hub" =>
        /\ metered = 0 /\ dials + c <= traffic + m
        /\ ~ctxDone => dials + c = traffic + m
  BY <1>0, <1>1 DEF DialsCounted, Scanning, n
<1>10. c2 = c + n /\ m2 = m + n /\ c \in Nat /\ m \in Nat /\ dials \in Nat /\ traffic \in Nat
  BY <1>0, <1>2, <1>5, <1>6, <1>7 DEF DialsCounted
<1> HIDE DEF c, c2, m, m2
<1>11. query.by = "hub" =>
         /\ dials + c2 <= traffic + m2
         /\ ~ctxDone => dials + c2 = traffic + m2
  BY <1>2, <1>9, <1>10
<1>12. Scanning' /\ main' \notin {"asked", "open", "answered"}
  BY <1>1 DEF Scanning
<1> QED BY <1>0, <1>1, <1>2, <1>8, <1>9, <1>11, <1>12 DEF DialsCounted, c2, m2, n

(* A dial is taken from what is left, and it is made while the context      *)
(* lives.                                                                   *)
LEMMA DialCounts ==
  ASSUME DialsInv, NEW w \in Workers, DialPort(w)
  PROVE  DialsCounted'
<1>0. ScanShape /\ WorkersOK /\ DialsCounted
  BY DEF DialsInv, PoolInv
<1> DEFINE n == Len(Ports)
           k == dialed[w] + 1
<1>1. /\ worker[w] = "dialing" /\ dialed' = [dialed EXCEPT ![w] = @ + 1]
      /\ dialed[w] < n /\ dials' = dials + (IF ctxDone THEN 0 ELSE 1)
      /\ UNCHANGED <<query, ctxDone, main, worker, traffic, metered, next>>
  BY DEF DialPort, request, handout, answer
<1>2. n \in Nat /\ IsFiniteSet(Left) /\ Cardinality(Left) \in Nat /\ Ports' = Ports
  BY <1>1, LeftCounted DEF Ports
<1>3. /\ Dialing' = Dialing /\ w \in Dialing /\ dialed \in [Workers -> Nat] /\ dialed'[w] = k
      /\ \A v \in Workers : v # w => dialed'[v] = dialed[v]
  BY <1>0, <1>1 DEF Dialing, ScanShape
<1> HIDE DEF n
<1>4. k \in 1 .. n
  BY <1>1, <1>2, <1>3
<1>5. Left' = Left \ {<<w, k>>} /\ <<w, k>> \in Left
  <2>1. Left' = {d \in Workers \X (1 .. n) : d[1] \in Dialing /\ dialed'[d[1]] < d[2]}
    BY <1>2, <1>3 DEF Left, n
  <2>2. Left = {d \in Workers \X (1 .. n) : d[1] \in Dialing /\ dialed[d[1]] < d[2]}
    BY DEF Left, n
  <2>3. <<w, k>> \in Left
    BY <1>3, <1>4, <2>2
  <2>4. ASSUME NEW v \in Workers, NEW i \in 1 .. n
        PROVE  <<v, i>> \in Left' <=> <<v, i>> \in Left /\ <<v, i>> # <<w, k>>
    <3>1. CASE v = w
      BY <1>2, <1>3, <2>1, <2>2, <3>1
    <3>2. CASE v # w
      BY <1>3, <2>1, <2>2, <3>2
    <3> QED BY <3>1, <3>2
  <2>5. /\ \A d \in Left : \E v \in Workers, i \in 1 .. n : d = <<v, i>>
        /\ \A d \in Left' : \E v \in Workers, i \in 1 .. n : d = <<v, i>>
    BY <2>1, <2>2
  <2> QED BY <2>3, <2>4, <2>5
<1> HIDE DEF k
<1>6. Cardinality(Left') = Cardinality(Left) - 1
  BY <1>2, <1>5, FS_RemoveElement
<1>7. Scanning /\ Scanning'
  BY <1>0, <1>1, <1>3, JobsApart DEF Scanning, DialsInv
<1>8. main \notin {"asked", "open", "answered"} /\ main' = main
  BY <1>1, <1>7 DEF Scanning
<1>9. \A v \in Dialing' : dialed'[v] <= n
  <2>1. dialed'[w] <= n
    BY <1>3, <1>4
  <2>2. \A v \in Dialing : dialed[v] <= n
    BY <1>0 DEF DialsCounted, n
  <2>3. Dialing \subseteq Workers
    BY DEF Dialing
  <2> QED BY <1>3, <2>1, <2>2, <2>3
<1> DEFINE c == Cardinality(Left)
           c2 == Cardinality(Left')
           m == traffic + (next - 1) * n
<1>10. query.by = "hub" =>
         /\ metered = 0 /\ dials + c <= m
         /\ ~ctxDone => dials + c = m
  BY <1>0, <1>7, <1>8 DEF DialsCounted, n
<1>11. /\ c2 = c - 1 /\ c \in Nat /\ m \in Int /\ dials \in Nat
       /\ m' = m
  <2>1. next \in Nat /\ traffic \in Nat /\ dials \in Nat
    BY <1>0 DEF DialsCounted, ScanShape
  <2>2. (next - 1) * n \in Int
    BY <1>2, <2>1
  <2>3. n' = n
    BY <1>2 DEF n
  <2> QED BY <1>1, <1>2, <1>6, <2>1, <2>2, <2>3
<1> HIDE DEF c, c2, m
<1>12. query.by = "hub" =>
         /\ dials' + c2 <= m
         /\ ~ctxDone => dials' + c2 = m
  BY <1>1, <1>10, <1>11
<1>13. dials' \in Nat
  BY <1>1, <1>11
<1> QED BY <1>0, <1>1, <1>2, <1>7, <1>8, <1>9, <1>10, <1>12, <1>13 DEF DialsCounted, c2, m, n

(* What is handed out of a CIDR in the end is what its estimate says. *)
LEMMA CollectCounts ==
  ASSUME DialsInv, Collect
  PROVE  DialsCounted'
<1>0. ScanShape /\ NetworksReady /\ WorkersOK /\ DialsCounted
  BY DEF DialsInv, PoolInv
<1> DEFINE n == Len(Ports)
           m == (next - 1) * n
<1>1. /\ main = "draining" /\ wg = 0
      /\ UNCHANGED <<query, ctxDone, worker, dialed, next, dials>>
      /\ traffic' = traffic + (IF query.by = "hub" THEN PortChecks ELSE 0)
      /\ \/ main' = "open" /\ metered' = metered
         \/ main' = "answered" /\ metered' = metered + traffic'
  BY DEF Collect, AllLeft, request, probe
<1>2. Scanning /\ ~Scanning' /\ Staff = {} /\ Dialing = {} /\ Dialing' = {}
  <2>1. Scanning /\ ~Scanning'
    BY <1>1 DEF Scanning
  <2>2. Staff = {}
    BY <1>0, <1>1, <2>1, Countable DEF WorkersOK, Staff
  <2> QED BY <1>1, <2>1, <2>2 DEF Staff, Dialing
<1>3. n \in Nat /\ Cardinality(Left) = 0 /\ Ports' = Ports
  BY <1>1, <1>2, LeftCounted DEF Ports
<1>4. Size \in Nat /\ Size <= MaxHosts /\ next = Size + 1 /\ MaxHosts \in Nat
  BY <1>0, <1>1, SizeIs, ScanAssumption DEF NetworksReady
<1> HIDE DEF n
<1>5. PortChecks = m /\ m \in Nat
  <2>1. next - 1 = Size /\ ~(Size > MaxHosts)
    BY <1>4
  <2>2. PortChecks = Size * n
    BY <2>1 DEF PortChecks, n
  <2>3. Size * n \in Nat
    BY <1>3, <1>4
  <2> QED BY <2>1, <2>2, <2>3
<1>6. /\ dials \in Nat /\ traffic \in Nat /\ metered \in Nat
      /\ query.by = "hub" => /\ metered = 0 /\ dials <= traffic + m
                             /\ ~ctxDone => dials = traffic + m
  <2>1. query.by = "hub" => /\ metered = 0 /\ dials + 0 <= traffic + m
                            /\ ~ctxDone => dials + 0 = traffic + m
    BY <1>0, <1>1, <1>2, <1>3 DEF DialsCounted, n
  <2>2. dials \in Nat /\ traffic \in Nat /\ metered \in Nat
    BY <1>0 DEF DialsCounted
  <2> QED BY <2>1, <2>2
<1> HIDE DEF m
<1>7. traffic' = (IF query.by = "hub" THEN traffic + m ELSE traffic) /\ traffic' \in Nat
  BY <1>1, <1>5, <1>6
<1>8. metered' \in Nat
  BY <1>1, <1>6, <1>7
<1>9. CASE main' = "open" /\ metered' = metered
  BY <1>1, <1>2, <1>6, <1>7, <1>8, <1>9 DEF DialsCounted
<1>10. CASE main' = "answered" /\ metered' = metered + traffic'
  BY <1>1, <1>2, <1>6, <1>7, <1>8, <1>10 DEF DialsCounted
<1> QED BY <1>1, <1>9, <1>10

(* Every step keeps the count of the dials. *)
LEMMA DialsNext == DialsInv /\ [Next]_vars => DialsInv'
<1> SUFFICES ASSUME DialsInv, [Next]_vars PROVE DialsInv'
  OBVIOUS
<1>0. PoolInv /\ PoolInv' /\ ScanShape /\ WorkersOK /\ DialsCounted
  BY PoolNext DEF DialsInv, PoolInv
<1>1. CASE Refuse \/ TooLarge \/ Choose
  <2>1. /\ UNCHANGED <<query, ctxDone, worker, dialed, dials, traffic, metered>>
        /\ main \in {"asked", "open"} /\ (main' = "failed" \/ main' = "open")
    BY <1>1 DEF Refuse, TooLarge, Choose, request, probe, answer
  <2>2. Dialing' = Dialing /\ ~Scanning' /\ Ports' = Ports
    BY <2>1 DEF Dialing, Scanning, Ports
  <2> QED BY <1>0, <2>1, <2>2 DEF DialsInv, DialsCounted
<1>2. CASE StartWorkers
  <2>1. /\ UNCHANGED <<query, ctxDone, dialed, dials, traffic, metered>>
        /\ main = "open" /\ main' = "handing" /\ next' = 1
        /\ worker' = [w \in Workers |-> "waiting"]
    BY <1>2 DEF StartWorkers, request, probe, answer
  <2>2. Dialing' = {} /\ Scanning' /\ Ports' = Ports
    BY <2>1 DEF Dialing, Scanning, Ports
  <2>3. Cardinality(Left') = 0
    <3>1. Left' = {}
      BY <2>2 DEF Left
    <3> QED BY <3>1, FS_EmptySet
  <2>4. Len(Ports) \in Nat
    BY LeftCounted
  <2>5. (next' - 1) * Len(Ports') = 0
    BY <2>1, <2>2, <2>4
  <2>6. dials \in Nat /\ traffic \in Nat
    BY <1>0 DEF DialsCounted
  <2>7. dials + 0 = dials /\ traffic + 0 = traffic
    BY <2>6
  <2>8. query.by = "hub" => metered = 0 /\ dials <= traffic /\ (~ctxDone => dials = traffic)
    BY <1>0, <2>1 DEF DialsCounted
  <2> QED BY <1>0, <2>1, <2>2, <2>3, <2>5, <2>7, <2>8 DEF DialsInv, DialsCounted
<1>3. CASE GiveUp \/ CloseJobs
  <2>1. /\ UNCHANGED <<query, ctxDone, worker, dialed, dials, traffic, metered, next>>
        /\ main = "handing" /\ (main' = "aborting" \/ main' = "draining")
    BY <1>3 DEF GiveUp, CloseJobs, request, probe, answer
  <2>2. Dialing' = Dialing /\ Scanning /\ Scanning' /\ Ports' = Ports
    BY <2>1 DEF Dialing, Scanning, Ports
  <2>3. Left' = Left
    BY <2>1, <2>2 DEF Left
  <2> QED BY <1>0, <2>1, <2>2, <2>3 DEF DialsInv, DialsCounted
<1>4. CASE Abort
  <2>1. UNCHANGED <<query, worker, dialed, dials, traffic, metered>> /\ main' = "failed" /\ main = "aborting"
    BY <1>4 DEF Abort, request, probe, answer
  <2>2. Dialing' = Dialing /\ ~Scanning' /\ Ports' = Ports
    BY <2>1 DEF Dialing, Scanning, Ports
  <2> QED BY <1>0, <2>1, <2>2 DEF DialsInv, DialsCounted
<1>5. ASSUME NEW w \in Workers, HostDone(w) PROVE DialsInv'
  <2>1. /\ UNCHANGED <<query, ctxDone, main, dialed, dials, traffic, metered, next>>
        /\ worker[w] = "dialing" /\ worker' = [worker EXCEPT ![w] = "waiting"]
        /\ dialed[w] = Len(Ports)
    BY <1>5 DEF HostDone, request, handout, probe, answer
  <2>2. Dialing' = Dialing \ {w} /\ Scanning' = Scanning /\ Ports' = Ports
    BY <1>0, <2>1 DEF Dialing, Scanning, Ports, ScanShape
  <2>3. Left' = Left
    <3>1. Len(Ports) \in Nat
      BY LeftCounted
    <3>2. \A d \in Left : d[1] # w
      BY <2>1, <3>1 DEF Left
    <3> QED BY <2>1, <2>2, <3>2 DEF Left
  <2> QED BY <1>0, <2>1, <2>2, <2>3 DEF DialsInv, DialsCounted
<1>6. ASSUME NEW w \in Workers, Leave(w) PROVE DialsInv'
  <2>1. /\ UNCHANGED <<query, ctxDone, main, dialed, dials, traffic, metered, next>>
        /\ worker[w] = "waiting" /\ worker' = [worker EXCEPT ![w] = "none"]
    BY <1>6 DEF Leave, request, handout, probe, answer
  <2>2. Dialing' = Dialing /\ Scanning' = Scanning /\ Ports' = Ports
    BY <1>0, <2>1 DEF Dialing, Scanning, Ports, ScanShape
  <2>3. Left' = Left
    BY <2>1, <2>2 DEF Left
  <2> QED BY <1>0, <2>1, <2>2, <2>3 DEF DialsInv, DialsCounted
<1>7. CASE Cancel \/ Over \/ UNCHANGED vars
  <2>1. /\ UNCHANGED <<query, worker, dialed, dials, traffic, metered, next>>
        /\ main' = main /\ (ctxDone => ctxDone')
    BY <1>7 DEF Cancel, Over, vars, request, handout, probe, answer
  <2> QED BY <1>0, <2>1, DialsSame DEF DialsInv
<1>8. CASE Collect
  BY <1>0, <1>8, CollectCounts DEF DialsInv
<1>9. ASSUME NEW w \in Workers, HandOut(w) \/ DialPort(w) PROVE DialsInv'
  BY <1>0, <1>9, HandOutCounts, DialCounts DEF DialsInv
<1> QED BY <1>1, <1>2, <1>3, <1>4, <1>5, <1>6, <1>7, <1>8, <1>9 DEF Next, HandlerNext, WorkerNext

(* HUB_MONITOR.md:92: for every query, machine, number of workers and limit *)
(* a successful scan of the Hub never reports less traffic than it caused,  *)
(* and exactly as many port checks when its context stayed alive.           *)
THEOREM EstimateIsEnough == Spec => []EstimateCovers
<1>1. Init => DialsInv
  <2> SUFFICES ASSUME Init PROVE DialsInv
    OBVIOUS
  <2>1. Dialing = {} /\ ~Scanning
    BY DEF Init, Dialing, Scanning
  <2>2. DialsCounted
    BY <2>1 DEF Init, DialsCounted
  <2> QED BY <2>2, PoolInit DEF DialsInv
<1>2. DialsInv => EstimateCovers
  BY DEF DialsInv, DialsCounted, EstimateCovers
<1> QED BY <1>1, <1>2, DialsNext, PTL DEF Spec

---------------------------------------------------------------------------
(* The answer of a scan.  Every host in it stands for a job that is done,   *)
(* no two for the same one; and when nothing times out every job that is    *)
(* done and whose host listens is in it.                                    *)

All == scans \o results

PortSet == {Ports[k] : k \in DOMAIN Ports}

HostOf(j) == Hosts(j[1])[j[2]]

Answering(j) == Open[HostOf(j)] \cap PortSet

Done == Settled \cap Wanted

Entry == [ip : Nat, ports : SUBSET PortSet]

EntriesOK == /\ scans \in Seq(Entry) /\ results \in Seq(Entry)
             /\ open \in [Workers -> SUBSET PortSet]

(* The networks of the interfaces are masked, so they are different blocks. *)
NetworksMasked ==
  /\ cidrs \in Seq(AllNetworks)
  /\ \A m, n \in DOMAIN cidrs : cidrs[m] = cidrs[n] => m = n
  /\ Len(cidrs) <= 1 \/ \A n \in DOMAIN cidrs : Masked(cidrs[n]) = cidrs[n].addr

Tags(all, tag, jobs) ==
  /\ tag \in [DOMAIN all -> jobs]
  /\ \A i, k \in DOMAIN all : tag[i] = tag[k] => i = k
  /\ \A i \in DOMAIN all : all[i].ip = HostOf(tag[i])

Tagged(all, jobs) == \E tag : Tags(all, tag, jobs)

Complete(all, jobs) ==
  /\ \A i \in DOMAIN all :
       /\ all[i].ports # {}
       /\ \E j \in jobs : all[i].ip = HostOf(j) /\ all[i].ports = Answering(j)
  /\ \A j \in jobs : Answering(j) # {} =>
       \E i \in DOMAIN all : all[i].ip = HostOf(j) /\ all[i].ports = Answering(j)

CompleteOK ==
  reliable /\ ~ctxDone /\ main \notin {"asked", "failed", "aborting"} =>
    /\ \A w \in Dialing :
         open[w] = Open[Addresses[job[w]]] \cap {Ports[k] : k \in 1 .. dialed[w]}
    /\ Complete(All, Done)

AnsweredOK == main = "answered" => Done = Wanted /\ results = <<>>

AnswerInv == /\ PoolInv /\ EntriesOK /\ NetworksMasked
             /\ Tagged(All, Done) /\ CompleteOK /\ AnsweredOK

(* A job more does not take a host its job. *)
LEMMA TagsKeep ==
  ASSUME NEW all, NEW jobs, NEW more, jobs \subseteq more, Tagged(all, jobs)
  PROVE  Tagged(all, more)
<1>1. PICK tag : Tags(all, tag, jobs)
  BY DEF Tagged
<1>2. Tags(all, tag, more)
  BY <1>1 DEF Tags
<1> QED BY <1>2 DEF Tagged

(* The host of a new job may be reported. *)
LEMMA TagsAppend ==
  ASSUME NEW S, NEW all \in Seq(S), NEW e \in S, NEW jobs, NEW j, j \notin jobs,
         e.ip = HostOf(j), Tagged(all, jobs)
  PROVE  Tagged(Append(all, e), jobs \cup {j})
<1> DEFINE n == Len(all)
           more == Append(all, e)
<1>1. PICK tag : Tags(all, tag, jobs)
  BY DEF Tagged
<1>2. /\ n \in Nat /\ DOMAIN all = 1 .. n /\ DOMAIN more = 1 .. n + 1
      /\ more[n + 1] = e /\ \A i \in 1 .. n : more[i] = all[i]
  OBVIOUS
<1> DEFINE mark == [i \in 1 .. n + 1 |-> IF i = n + 1 THEN j ELSE tag[i]]
<1> HIDE DEF n, more
<1>3. /\ tag \in [1 .. n -> jobs]
      /\ \A i, k \in 1 .. n : tag[i] = tag[k] => i = k
      /\ \A i \in 1 .. n : all[i].ip = HostOf(tag[i])
  BY <1>1, <1>2 DEF Tags
<1>4. mark[n + 1] = j /\ \A i \in 1 .. n : mark[i] = tag[i]
  BY <1>2
<1>5. \A i \in 1 .. n + 1 : i \in 1 .. n \/ i = n + 1
  BY <1>2
<1>6. mark \in [1 .. n + 1 -> jobs \cup {j}]
  BY <1>3, <1>5
<1> HIDE DEF mark
<1>7. \A i, k \in 1 .. n + 1 : mark[i] = mark[k] => i = k
  BY <1>3, <1>4, <1>5
<1>8. \A i \in 1 .. n + 1 : more[i].ip = HostOf(mark[i])
  BY <1>2, <1>3, <1>4, <1>5
<1>9. Tags(more, mark, jobs \cup {j})
  BY <1>2, <1>6, <1>7, <1>8 DEF Tags
<1> QED BY <1>9 DEF Tagged, more

(* A job whose host does not answer needs no place in the answer. *)
LEMMA CompleteWithout ==
  ASSUME NEW all, NEW jobs, NEW j, Complete(all, jobs), Answering(j) = {}
  PROVE  Complete(all, jobs \cup {j})
BY DEF Complete

(* A job whose host answers has one. *)
LEMMA CompleteAppend ==
  ASSUME NEW S, NEW all \in Seq(S), NEW e \in S, NEW jobs, NEW j, Complete(all, jobs),
         e.ip = HostOf(j), e.ports = Answering(j), Answering(j) # {}
  PROVE  Complete(Append(all, e), jobs \cup {j})
<1> DEFINE n == Len(all)
           more == Append(all, e)
<1>1. /\ n \in Nat /\ DOMAIN all = 1 .. n /\ DOMAIN more = 1 .. n + 1
      /\ more[n + 1] = e /\ \A i \in 1 .. n : more[i] = all[i]
  OBVIOUS
<1>2. \A i \in 1 .. n + 1 : i \in 1 .. n \/ i = n + 1
  BY <1>1
<1>3. n + 1 \in 1 .. n + 1 /\ 1 .. n \subseteq 1 .. n + 1
  BY <1>1
<1> HIDE DEF n, more
<1>4. Complete(more, jobs \cup {j})
  BY <1>1, <1>2, <1>3 DEF Complete
<1> QED BY <1>4 DEF more

(* A result more is an entry more. *)
LEMMA Joined ==
  ASSUME NEW S, NEW s \in Seq(S), NEW t \in Seq(S), NEW e \in S
  PROVE  /\ s \o t \in Seq(S) /\ s \o Append(t, e) = Append(s \o t, e)
         /\ s \o <<>> = s
OBVIOUS

(* What is done stays done. *)
LEMMA DoneGrows ==
  ASSUME PoolInv, [Next]_vars, cidrs' = cidrs
  PROVE  Wanted' = Wanted /\ Done \subseteq Done'
<1>1. Wanted' = Wanted
  BY DEF Wanted, JobsOf
<1>2. Settled \subseteq AllJobs
  BY JobsApart
<1>3. Settled \subseteq Settled'
  BY <1>2, PoolFanOutNext DEF PoolFanOut!Next, PoolFanOut!Begin, PoolFanOut!Settle, PoolFanOut!Drop,
                              PoolFanOut!Close, PoolFanOut!Refuse, PoolFanOut!vars
<1> QED BY <1>1, <1>3 DEF Done

(* So the invariant is kept by what sends none. *)
LEMMA AnswerKept ==
  ASSUME AnswerInv, [Next]_vars, UNCHANGED <<query, cidrs, scans, results>>,
         open' \in [Workers -> SUBSET PortSet], CompleteOK', AnsweredOK'
  PROVE  AnswerInv'
<1>1. PoolInv /\ EntriesOK /\ NetworksMasked /\ Tagged(All, Done)
  BY DEF AnswerInv
<1>2. PoolInv'
  BY <1>1, PoolNext
<1>3. All' = All /\ PortSet' = PortSet
  BY DEF All, PortSet, Ports
<1>4. EntriesOK' /\ NetworksMasked'
  BY <1>1, <1>3 DEF EntriesOK, Entry, NetworksMasked
<1>5. Tagged(All, Done')
  BY <1>1, DoneGrows, TagsKeep
<1>6. Tagged(All, Done)'
  BY <1>3, <1>5 DEF Tagged, Tags, HostOf
<1> QED BY <1>2, <1>4, <1>6 DEF AnswerInv

(* Nothing moves that the answer depends on. *)
LEMMA CompleteSame ==
  ASSUME CompleteOK,
         UNCHANGED <<query, reliable, cidrs, cidr, scans, results, open, job, dialed>>,
         Settled' = Settled, Dialing' \subseteq Dialing, ctxDone => ctxDone',
         main \in {"asked", "failed", "aborting"} => main' \in {"asked", "failed", "aborting"}
  PROVE  CompleteOK'
<1>1. Done' = Done /\ All' = All /\ Ports' = Ports /\ Addresses' = Addresses
  BY DEF Done, Wanted, JobsOf, All, Ports, Addresses
<1>2. Complete(All, Done) => Complete(All, Done)'
  <2>1. PortSet' = PortSet
    BY <1>1 DEF PortSet
  <2> QED BY <1>1, <2>1 DEF Complete, Answering, HostOf
<1> QED BY <1>1, <1>2 DEF CompleteOK

(* The choice of the networks: their host bits are masked, or there is one. *)
LEMMA ChooseAnswers ==
  ASSUME AnswerInv, Choose
  PROVE  AnswerInv'
<1>1. PoolInv /\ EntriesOK /\ Tagged(All, Done) /\ ScanShape
  BY DEF AnswerInv, PoolInv
<1>2. /\ main = "asked" /\ main' = "open" /\ UNCHANGED <<query, scans, results, worker, open, cidr>>
  BY DEF Choose, request, probe, answer
<1>3. PoolInv'
  BY <1>1, PoolNext DEF Next, HandlerNext
<1>4. All' = All /\ PortSet' = PortSet
  BY <1>2 DEF All, PortSet, Ports
<1>5. EntriesOK'
  BY <1>1, <1>2, <1>4 DEF EntriesOK, Entry
<1>6. DOMAIN All = {}
  <2>1. Done = {}
    BY <1>2 DEF Done, Settled
  <2> QED BY <1>1, <2>1 DEF Tagged, Tags
<1>7. Tagged(All, Done)'
  <2>1. Tags(All, <<>>, Done')
    BY <1>6 DEF Tags
  <2>2. Tagged(All, Done')
    BY <2>1 DEF Tagged
  <2> QED BY <1>4, <2>2 DEF Tagged, Tags, HostOf
<1>8. Done' = {}
  <2>1. HandedOut' = {}
    BY <1>1, <1>2 DEF HandedOut, ScanShape
  <2>2. Settled' \cap Wanted' = {}
    BY <1>2, <2>1 DEF Settled
  <2> QED BY <2>2 DEF Done
<1>9. CompleteOK'
  <2>1. Dialing' = {}
    <3>1. ~Scanning
      BY <1>2 DEF Scanning
    <3>2. Dialing = {}
      BY <1>1, <3>1, JobsApart
    <3> QED BY <1>2, <3>2 DEF Dialing
  <2>2. Complete(All, Done)'
    BY <1>4, <1>6, <1>8 DEF Complete
  <2> QED BY <2>1, <2>2 DEF CompleteOK
<1>10. NetworksMasked'
  <2>1. PICK m \in Machines : cidrs' \in ToScan(m) \ {<<>>}
    BY DEF Choose
  <2> DEFINE list == cidrs'
  <2>2. /\ list \in Seq(AllNetworks)
        /\ \A j, k \in DOMAIN list : list[j] = list[k] => j = k
    BY <1>1, <2>1, ToScanIs DEF ScanShape
  <2>3. CASE query.cidr # <<>>
    <3>1. list = query.cidr
      BY <2>1, <2>3 DEF ToScan
    <3>2. Len(list) <= 1
      BY <1>1, <3>1, ScanAssumption DEF ScanShape
    <3> QED BY <2>2, <3>2 DEF NetworksMasked
  <2>4. CASE query.cidr = <<>>
    <3> DEFINE S == LocalIPv4CIDRs(m)
    <3>1. list \in SetToSeqs(S)
      BY <2>1, <2>4 DEF ToScan
    <3>2. ASSUME NEW n \in S PROVE Masked(n) = n.addr
      <4>1. PICK i \in m : \E q \in i.prefixes : n = [addr |-> Masked(q), ones |-> q.ones]
        BY <3>2 DEF LocalIPv4CIDRs
      <4>2. PICK q \in i.prefixes : n = [addr |-> Masked(q), ones |-> q.ones]
        BY <4>1
      <4>3. q \in Prefix
        BY ScanAssumption
      <4> QED BY <4>2, <4>3, MaskedOnce
    <3> HIDE DEF S
    <3>3. \A n \in DOMAIN list : list[n] \in S
      BY <3>1 DEF SetToSeqs
    <3> QED BY <2>2, <3>2, <3>3 DEF NetworksMasked
  <2> QED BY <2>3, <2>4
<1>11. AnsweredOK'
  BY <1>2 DEF AnsweredOK
<1> QED BY <1>3, <1>5, <1>7, <1>9, <1>10, <1>11 DEF AnswerInv

(* A worker takes an address. *)
LEMMA HandOutAnswers ==
  ASSUME AnswerInv, NEW w \in Workers, HandOut(w)
  PROVE  AnswerInv'
<1>1. PoolInv /\ EntriesOK /\ CompleteOK /\ ScanShape
  BY DEF AnswerInv, PoolInv
<1>2. /\ main = "handing" /\ UNCHANGED <<query, reliable, main, ctxDone, cidrs, cidr, scans, results>>
      /\ worker' = [worker EXCEPT ![w] = "dialing"] /\ job' = [job EXCEPT ![w] = next]
      /\ dialed' = [dialed EXCEPT ![w] = 0] /\ open' = [open EXCEPT ![w] = {}]
  BY DEF HandOut, request, answer
<1>3. Settled' = Settled
  BY <1>1, PoolBegin DEF PoolFanOut!Begin
<1>4. Done' = Done /\ All' = All /\ Ports' = Ports /\ Addresses' = Addresses
  BY <1>2, <1>3 DEF Done, Wanted, JobsOf, All, Ports, Addresses
<1>5. /\ \A v \in Dialing' : v # w => v \in Dialing
      /\ Dialing' \subseteq Workers
      /\ job'[w] = next /\ dialed'[w] = 0 /\ open'[w] = {}
      /\ \A v \in Workers : v # w => job'[v] = job[v] /\ dialed'[v] = dialed[v] /\ open'[v] = open[v]
  BY <1>1, <1>2 DEF Dialing, ScanShape, EntriesOK
<1>6. open' \in [Workers -> SUBSET PortSet]
  BY <1>1, <1>2 DEF EntriesOK
<1>7. CompleteOK'
  <2> SUFFICES ASSUME reliable, ~ctxDone
               PROVE  /\ \A v \in Dialing' :
                           open'[v] = Open[Addresses[job'[v]]] \cap {Ports[k] : k \in 1 .. dialed'[v]}
                      /\ Complete(All, Done)'
    BY <1>2, <1>4 DEF CompleteOK
  <2>1. /\ \A v \in Dialing :
             open[v] = Open[Addresses[job[v]]] \cap {Ports[k] : k \in 1 .. dialed[v]}
        /\ Complete(All, Done)
    BY <1>1, <1>2 DEF CompleteOK
  <2>2. Complete(All, Done)'
    <3>1. PortSet' = PortSet
      BY <1>4 DEF PortSet
    <3> QED BY <1>4, <2>1, <3>1 DEF Complete, Answering, HostOf
  <2>3. ASSUME NEW v \in Dialing'
        PROVE  open'[v] = Open[Addresses[job'[v]]] \cap {Ports[k] : k \in 1 .. dialed'[v]}
    <3>1. CASE v = w
      <4>1. {Ports[k] : k \in 1 .. dialed'[v]} = {}
        BY <1>5, <3>1
      <4> QED BY <1>5, <3>1, <4>1
    <3>2. CASE v # w
      BY <1>5, <2>1, <3>2
    <3> QED BY <3>1, <3>2
  <2> QED BY <2>2, <2>3
<1>8. AnsweredOK'
  BY <1>2 DEF AnsweredOK
<1> QED BY <1>2, <1>6, <1>7, <1>8, AnswerKept DEF Next, WorkerNext

(* When the last CIDR is done, no job was too many. *)
LEMMA WantedAreJobs ==
  ASSUME PoolInv, main = "draining", ~(cidr < Len(cidrs))
  PROVE  Wanted \subseteq AllJobs
<1>0. ScanShape /\ NetworksReady
  BY DEF PoolInv
<1>1. /\ Size \in Nat /\ DOMAIN cidrs = 1 .. Len(cidrs) /\ Len(cidrs) \in Nat
      /\ cidr \in DOMAIN cidrs /\ Size <= MaxHosts /\ cidrs \in Seq(AllNetworks)
      /\ \A n \in 1 .. cidr - 1 : Len(Hosts(cidrs[n])) <= MaxHosts
  BY <1>0, SizeIs DEF NetworksReady
<1>2. ASSUME NEW n \in DOMAIN cidrs PROVE JobsOf(n) \subseteq AllJobs
  <2>1. Len(Hosts(cidrs[n])) <= MaxHosts
    <3>1. CASE n = cidr
      BY <1>1, <3>1 DEF Size, Addresses
    <3>2. CASE n # cidr
      <4>1. n \in 1 .. cidr - 1
        BY <1>1, <3>2
      <4> QED BY <1>1, <4>1
    <3> QED BY <3>1, <3>2
  <2>2. cidrs[n] \in AllNetworks
    BY <1>1
  <2>3. Len(Hosts(cidrs[n])) \in Nat /\ MaxHosts \in Nat
    BY <2>2, NetworksArePrefixes, HostsAre, ScanAssumption
  <2>4. 1 .. Len(Hosts(cidrs[n])) \subseteq 1 .. MaxHosts
    BY <2>1, <2>3
  <2> QED BY <2>2, <2>4 DEF JobsOf, AllJobs
<1>3. \A x : x \in Wanted <=> \E n \in DOMAIN cidrs : x \in JobsOf(n)
  BY UnionOfJobs DEF Wanted
<1> QED BY <1>2, <1>3

(* A dial: the port is among those that answer just if it is open.          *)
LEMMA DialAnswers ==
  ASSUME AnswerInv, NEW w \in Workers, DialPort(w)
  PROVE  AnswerInv'
<1> DEFINE n == dialed[w] + 1
           host == Addresses[job[w]]
<1>1. PoolInv /\ EntriesOK /\ CompleteOK /\ ScanShape /\ Len(Ports) \in Nat
  BY PortsAre DEF AnswerInv, PoolInv
<1>2. /\ worker[w] = "dialing" /\ dialed[w] < Len(Ports)
      /\ UNCHANGED <<query, reliable, main, ctxDone, cidrs, cidr, scans, results, worker, job>>
      /\ dialed' = [dialed EXCEPT ![w] = n]
  BY DEF DialPort, request, handout, answer
<1>3. PICK ok \in Answers(host, Ports[n]) :
        open' = [open EXCEPT ![w] = IF ok THEN open[w] \cup {Ports[n]} ELSE open[w]]
  BY DEF DialPort
<1>4. UNCHANGED PoolFanOut!vars
  BY <1>1, PoolQuiet DEF Quiet
<1>5. Done' = Done /\ All' = All /\ Ports' = Ports /\ Addresses' = Addresses /\ Dialing' = Dialing
  BY <1>2, <1>4 DEF PoolFanOut!vars, Done, Wanted, JobsOf, All, Ports, Addresses, Dialing
<1>6. dialed[w] \in Nat /\ n \in 1 .. Len(Ports) /\ w \in Dialing /\ Dialing \subseteq Workers
  BY <1>1, <1>2 DEF ScanShape, Dialing
<1>7. Ports[n] \in PortSet
  <2>1. DOMAIN Ports = 1 .. Len(Ports)
    BY <1>1, PortsAre
  <2> QED BY <1>6, <2>1 DEF PortSet
<1>8. open' \in [Workers -> SUBSET PortSet]
  BY <1>1, <1>3, <1>7 DEF EntriesOK
<1>9. CompleteOK'
  <2> SUFFICES ASSUME reliable, ~ctxDone, main \notin {"asked", "failed", "aborting"}
               PROVE  /\ \A v \in Dialing :
                           open'[v] = Open[Addresses[job[v]]] \cap {Ports[k] : k \in 1 .. dialed'[v]}
                      /\ Complete(All, Done)'
    BY <1>2, <1>5 DEF CompleteOK
  <2>1. /\ \A v \in Dialing :
             open[v] = Open[Addresses[job[v]]] \cap {Ports[k] : k \in 1 .. dialed[v]}
        /\ Complete(All, Done)
    BY <1>1 DEF CompleteOK
  <2>2. Complete(All, Done)'
    <3>1. PortSet' = PortSet
      BY <1>5 DEF PortSet
    <3> QED BY <1>5, <2>1, <3>1 DEF Complete, Answering, HostOf
  <2>3. ok <=> Ports[n] \in Open[host]
    <3>1. CASE Ports[n] \in Open[host]
      <4>1. Answers(host, Ports[n]) = {TRUE}
        BY <3>1 DEF Answers
      <4> QED BY <1>3, <3>1, <4>1
    <3>2. CASE Ports[n] \notin Open[host]
      <4>1. Answers(host, Ports[n]) = {FALSE}
        BY <3>2 DEF Answers
      <4> QED BY <1>3, <3>2, <4>1
    <3> QED BY <3>1, <3>2
  <2>4. open'[w] = Open[host] \cap {Ports[k] : k \in 1 .. n}
    <3>1. open[w] = Open[host] \cap {Ports[k] : k \in 1 .. dialed[w]}
      BY <1>6, <2>1
    <3>2. open'[w] = IF ok THEN open[w] \cup {Ports[n]} ELSE open[w]
      BY <1>1, <1>3 DEF EntriesOK
    <3>3. 1 .. n = (1 .. dialed[w]) \cup {n}
      BY <1>6
    <3>4. {Ports[k] : k \in 1 .. n} = {Ports[k] : k \in 1 .. dialed[w]} \cup {Ports[n]}
      BY <3>3
    <3> HIDE DEF n, host
    <3> QED BY <2>3, <3>1, <3>2, <3>4
  <2>5. ASSUME NEW v \in Dialing
        PROVE  open'[v] = Open[Addresses[job[v]]] \cap {Ports[k] : k \in 1 .. dialed'[v]}
    <3>1. CASE v = w
      <4>1. dialed'[w] = n
        BY <1>1, <1>2 DEF ScanShape
      <4> QED BY <2>4, <3>1, <4>1
    <3>2. CASE v # w
      <4>1. v \in Workers /\ open'[v] = open[v] /\ dialed'[v] = dialed[v]
        BY <1>1, <1>2, <1>3, <1>6, <3>2 DEF ScanShape, EntriesOK
      <4> QED BY <2>1, <4>1
    <3> QED BY <3>1, <3>2
  <2> QED BY <2>2, <2>5
<1>10. AnsweredOK'
  <2>1. results' = results /\ main' = main /\ Done' = Done /\ Wanted' = Wanted
    BY <1>2, <1>5 DEF Wanted, JobsOf
  <2> QED BY <2>1 DEF AnswerInv, AnsweredOK
<1> QED BY <1>2, <1>8, <1>9, <1>10, AnswerKept DEF Next, WorkerNext

(* A host is done: it is in the answer if and only if it answered.          *)
LEMMA HostDoneAnswers ==
  ASSUME AnswerInv, NEW w \in Workers, HostDone(w)
  PROVE  AnswerInv'
<1> DEFINE j == <<cidrs[cidr], job[w]>>
           e == [ip |-> Addresses[job[w]], ports |-> open[w]]
<1>1. PoolInv /\ EntriesOK /\ CompleteOK /\ ScanShape /\ WorkersOK /\ NetworksReady /\ NetworksMasked
      /\ Tagged(All, Done)
  BY DEF AnswerInv, PoolInv
<1>2. /\ worker[w] = "dialing" /\ dialed[w] = Len(Ports) /\ results' = Sent(w)
      /\ UNCHANGED <<query, reliable, main, ctxDone, cidrs, cidr, scans, job, dialed, open>>
      /\ worker' = [worker EXCEPT ![w] = "waiting"]
  BY DEF HostDone, request, handout, probe, answer
<1>3. PoolInv'
  BY <1>1, PoolNext DEF Next, WorkerNext
<1>4. w \in Dialing /\ Scanning /\ j \in Busy /\ Dialing' = Dialing \ {w}
  <2>1. w \in Dialing /\ Dialing' = Dialing \ {w}
    BY <1>1, <1>2 DEF Dialing, ScanShape
  <2>2. Scanning
    BY <1>1, <2>1, JobsApart
  <2>3. j \in Busy
    BY <1>1, <2>1, JobsApart
  <2> QED BY <2>1, <2>2, <2>3
<1>5. /\ Settled' = Settled \cup {j} /\ j \notin Settled /\ j \in Wanted
      /\ Wanted' = Wanted
  <2>1. Settled' = Settled \cup {j}
    BY <1>1, PoolSettle DEF PoolFanOut!Settle
  <2>2. main \notin {"asked", "failed"}
    BY <1>4 DEF Scanning
  <2>3. j \notin Settled /\ j \in Wanted
    BY <1>1, <1>4, <2>2, JobsApart
  <2> QED BY <1>2, <2>1, <2>3 DEF Wanted, JobsOf
<1>6. Done' = Done \cup {j} /\ j \notin Done
  BY <1>5 DEF Done
<1>7. /\ job[w] \in 1 .. Size /\ Addresses \in Seq(Nat) /\ Size = Len(Addresses)
  <2>1. main \notin {"asked", "failed", "open"}
    BY <1>4 DEF Scanning
  <2>2. /\ Size \in Nat /\ cidrs[cidr] \in AllNetworks /\ next <= Size + 1
    BY <1>1, <2>1, SizeIs DEF NetworksReady
  <2>3. Addresses \in Seq(Nat)
    BY <2>2, NetworksArePrefixes, HostsAre DEF Addresses
  <2>4. job[w] \in 1 .. next - 1 /\ next \in Nat
    BY <1>1, <1>4 DEF WorkersOK, ScanShape
  <2> QED BY <2>2, <2>3, <2>4 DEF Size
<1>8. e \in Entry /\ e.ip = HostOf(j) /\ e.ports = open[w]
  <2>1. Addresses[job[w]] \in Nat
    BY <1>7
  <2>2. open[w] \in SUBSET PortSet
    BY <1>1 DEF EntriesOK
  <2> QED BY <2>1, <2>2 DEF Entry, HostOf, Addresses
<1>9. Ports' = Ports /\ PortSet' = PortSet /\ Addresses' = Addresses
  BY <1>2 DEF Ports, PortSet, Addresses
<1> HIDE DEF j, e
<1>10. scans \in Seq(Entry) /\ results \in Seq(Entry) /\ All \in Seq(Entry)
  <2>1. scans \in Seq(Entry) /\ results \in Seq(Entry)
    BY <1>1 DEF EntriesOK
  <2> QED BY <1>8, <2>1, Joined DEF All
<1>11. /\ open[w] = {} => results' = results /\ All' = All
       /\ open[w] # {} => results' = Append(results, e) /\ All' = Append(All, e)
  <2>1. CASE open[w] = {}
    BY <1>2, <2>1 DEF Sent, All
  <2>2. CASE open[w] # {}
    <3>1. results' = Append(results, e)
      BY <1>2, <2>2 DEF Sent, e
    <3>2. scans \o Append(results, e) = Append(scans \o results, e)
      BY <1>8, <1>10, Joined
    <3> QED BY <1>2, <2>2, <3>1, <3>2 DEF All
  <2> QED BY <2>1, <2>2
<1>12. EntriesOK'
  <2>1. results' \in Seq(Entry)
    BY <1>8, <1>10, <1>11
  <2> QED BY <1>1, <1>2, <1>9, <2>1 DEF EntriesOK, Entry
<1>13. Tagged(All, Done)'
  <2>1. Tagged(All', Done')
    <3>1. CASE open[w] = {}
      BY <1>1, <1>6, <1>11, <3>1, TagsKeep
    <3>2. CASE open[w] # {}
      <4>1. Tagged(Append(All, e), Done \cup {j})
        BY <1>1, <1>6, <1>8, <1>10, TagsAppend, Zenon
      <4> QED BY <1>6, <1>11, <3>2, <4>1
    <3> QED BY <3>1, <3>2
  <2> QED BY <2>1 DEF Tagged, Tags, HostOf
<1>14. CompleteOK'
  <2> SUFFICES ASSUME reliable, ~ctxDone, main \notin {"asked", "failed", "aborting"}
               PROVE  /\ \A v \in Dialing' :
                           open[v] = Open[Addresses[job[v]]] \cap {Ports[k] : k \in 1 .. dialed[v]}
                      /\ Complete(All, Done)'
    BY <1>2, <1>9 DEF CompleteOK
  <2>1. /\ \A v \in Dialing :
             open[v] = Open[Addresses[job[v]]] \cap {Ports[k] : k \in 1 .. dialed[v]}
        /\ Complete(All, Done)
    BY <1>1 DEF CompleteOK
  <2>2. open[w] = Answering(j)
    <3>1. DOMAIN Ports = 1 .. Len(Ports)
      BY <1>1, PortsAre
    <3>2. HostOf(j) = Addresses[job[w]]
      BY DEF j, HostOf, Addresses
    <3> QED BY <1>2, <1>4, <2>1, <3>1, <3>2 DEF Answering, PortSet
  <2>3. Complete(All', Done')
    <3>1. CASE open[w] = {}
      BY <1>6, <1>11, <2>1, <2>2, <3>1, CompleteWithout
    <3>2. CASE open[w] # {}
      <4>1. e.ports = Answering(j) /\ Answering(j) # {}
        BY <1>8, <2>2, <3>2
      <4>2. Complete(Append(All, e), Done \cup {j})
        BY <1>8, <1>10, <2>1, <4>1, CompleteAppend, Zenon
      <4> QED BY <1>6, <1>11, <3>2, <4>2
    <3> QED BY <3>1, <3>2
  <2>4. Complete(All, Done)'
    BY <1>9, <2>3 DEF Complete, Answering, HostOf
  <2> QED BY <1>4, <2>1, <2>4
<1>15. NetworksMasked'
  BY <1>1, <1>2 DEF NetworksMasked
<1>16. AnsweredOK'
  BY <1>2, <1>4 DEF AnsweredOK, Scanning
<1> QED BY <1>3, <1>12, <1>13, <1>14, <1>15, <1>16 DEF AnswerInv

(* The results of a CIDR are collected. *)
LEMMA CollectAnswers ==
  ASSUME AnswerInv, Collect
  PROVE  AnswerInv'
<1>1. PoolInv /\ EntriesOK /\ CompleteOK /\ NetworksMasked /\ Tagged(All, Done)
  BY DEF AnswerInv
<1>2. /\ main = "draining" /\ (main' = "open" \/ main' = "answered")
      /\ scans' = scans \o results /\ results' = <<>>
      /\ UNCHANGED <<query, reliable, ctxDone, cidrs, open, worker>>
  BY DEF Collect, request, probe
<1>3. PoolInv'
  BY <1>1, PoolNext DEF Next, HandlerNext
<1>4. Settled' = Settled /\ (main' = "answered" => Settled = AllJobs)
  <2>1. CASE PoolFanOut!Close
    BY <2>1 DEF PoolFanOut!Close
  <2>2. CASE UNCHANGED PoolFanOut!vars
    <3>1. Settled' = Settled /\ ((main' \in {"answered", "failed"}) = (main \in {"answered", "failed"}))
      BY <2>2 DEF PoolFanOut!vars
    <3> QED BY <1>2, <3>1
  <2> QED BY <1>1, <2>1, <2>2, PoolCollect
<1>5. Wanted' = Wanted /\ Done' = Done
  BY <1>2, <1>4 DEF Wanted, JobsOf, Done
<1>6. scans \in Seq(Entry) /\ results \in Seq(Entry) /\ <<>> \in Seq(Entry)
  BY <1>1 DEF EntriesOK
<1>7. All \in Seq(Entry) /\ All' = All
  <2>1. All \in Seq(Entry)
    BY <1>6 DEF All
  <2>2. All' = All \o <<>>
    BY <1>2 DEF All
  <2>3. All \o <<>> = All
    BY <2>1
  <2> QED BY <2>1, <2>2, <2>3
<1>8. PortSet' = PortSet
  BY <1>2 DEF PortSet, Ports
<1>9. EntriesOK'
  <2>1. scans' \in Seq(Entry) /\ results' \in Seq(Entry)
    BY <1>2, <1>6
  <2> QED BY <1>1, <1>2, <1>8, <2>1 DEF EntriesOK, Entry
<1>10. Tagged(All, Done)'
  BY <1>1, <1>5, <1>7 DEF Tagged, Tags, HostOf
<1>11. CompleteOK'
  <2>1. Dialing' = {}
    <3>1. ~Scanning'
      BY <1>2 DEF Scanning
    <3> QED BY <1>3, <3>1 DEF PoolInv, WorkersOK, Staff, Dialing
  <2>2. Complete(All, Done) => Complete(All, Done)'
    BY <1>5, <1>7, <1>8 DEF Complete, Answering, HostOf
  <2> QED BY <1>1, <1>2, <2>1, <2>2 DEF CompleteOK
<1>12. AnsweredOK'
  <2>1. CASE main' = "answered"
    <3>1. Wanted \subseteq AllJobs
      <4>1. ~(cidr < Len(cidrs))
        BY <2>1 DEF Collect
      <4> QED BY <1>1, <1>2, <4>1, WantedAreJobs
    <3> QED BY <1>2, <1>4, <1>5, <3>1 DEF AnsweredOK, Done
  <2> QED BY <2>1 DEF AnsweredOK
<1>13. NetworksMasked'
  BY <1>1, <1>2 DEF NetworksMasked
<1> QED BY <1>3, <1>9, <1>10, <1>11, <1>12, <1>13 DEF AnswerInv

(* Every step keeps the answer right. *)
LEMMA AnswerNext == AnswerInv /\ [Next]_vars => AnswerInv'
<1> SUFFICES ASSUME AnswerInv, [Next]_vars PROVE AnswerInv'
  OBVIOUS
<1>0. PoolInv /\ EntriesOK /\ CompleteOK /\ AnsweredOK /\ ScanShape
  BY DEF AnswerInv, PoolInv
<1>1. ASSUME open' = open, PortSet' = PortSet PROVE open' \in [Workers -> SUBSET PortSet]
  BY <1>0, <1>1 DEF EntriesOK
<1>2. CASE Refuse \/ TooLarge \/ Abort \/ GiveUp
  <2>1. UNCHANGED <<query, cidrs, scans, results, open>> /\ main' \in {"failed", "aborting"}
    BY <1>2 DEF Refuse, TooLarge, Abort, GiveUp, request, handout, probe, answer
  <2>2. CompleteOK' /\ AnsweredOK' /\ PortSet' = PortSet
    BY <2>1 DEF CompleteOK, AnsweredOK, PortSet, Ports
  <2> QED BY <1>1, <2>1, <2>2, AnswerKept
<1>3. CASE Choose
  BY <1>3, ChooseAnswers
<1>4. CASE Collect
  BY <1>4, CollectAnswers
<1>5. ASSUME NEW w \in Workers, HandOut(w) PROVE AnswerInv'
  BY <1>5, HandOutAnswers
<1>6. ASSUME NEW w \in Workers, DialPort(w) PROVE AnswerInv'
  BY <1>6, DialAnswers
<1>7. ASSUME NEW w \in Workers, HostDone(w) PROVE AnswerInv'
  BY <1>7, HostDoneAnswers
<1>8. CASE StartWorkers \/ CloseJobs \/ Cancel \/ Over \/ UNCHANGED vars
           \/ \E w \in Workers : Leave(w)
  <2>1. /\ UNCHANGED <<query, reliable, cidrs, cidr, scans, results, open, job, dialed>>
        /\ ctxDone => ctxDone'
        /\ main' = "answered" => main = "answered"
        /\ main \in {"asked", "failed", "aborting"} => main' \in {"asked", "failed", "aborting"}
        /\ Dialing' \subseteq Dialing
    <3>1. CASE StartWorkers
      <4>1. worker' = [w \in Workers |-> "waiting"]
        BY <3>1 DEF StartWorkers
      <4>2. Dialing' = {}
        BY <4>1 DEF Dialing
      <4> QED BY <3>1, <4>2 DEF StartWorkers, request, probe, answer
    <3>2. CASE CloseJobs \/ Cancel
      BY <3>2 DEF CloseJobs, Cancel, request, handout, probe, answer, Dialing
    <3>4. CASE Over \/ UNCHANGED vars
      BY <3>4 DEF Over, vars, Dialing
    <3>3. ASSUME NEW w \in Workers, Leave(w)
          PROVE  /\ UNCHANGED <<query, reliable, main, cidrs, cidr, scans, results, open, job, dialed>>
                 /\ ctxDone' = ctxDone /\ Dialing' \subseteq Dialing
      <4>1. worker' = [worker EXCEPT ![w] = "none"]
        BY <3>3 DEF Leave
      <4>2. Dialing' \subseteq Dialing
        BY <1>0, <4>1 DEF Dialing, ScanShape
      <4> QED BY <3>3, <4>2 DEF Leave, request, handout, probe, answer
    <3> QED BY <1>8, <3>1, <3>2, <3>3, <3>4
  <2>2. UNCHANGED PoolFanOut!vars
    BY <1>0, <1>8, PoolQuiet DEF Quiet
  <2>3. Settled' = Settled
    BY <2>2 DEF PoolFanOut!vars
  <2>4. CompleteOK'
    BY <1>0, <2>1, <2>3, CompleteSame
  <2>5. AnsweredOK'
    <3>1. Done' = Done /\ Wanted' = Wanted
      BY <2>1, <2>3 DEF Done, Wanted, JobsOf
    <3> QED BY <1>0, <2>1, <3>1 DEF AnsweredOK
  <2>6. PortSet' = PortSet
    BY <2>1 DEF PortSet, Ports
  <2> QED BY <1>1, <2>1, <2>4, <2>5, <2>6, AnswerKept
<1> QED BY <1>2, <1>3, <1>4, <1>5, <1>6, <1>7, <1>8 DEF Next, HandlerNext, WorkerNext

(* So it always is. *)
LEMMA AnswerAlways == Spec => []AnswerInv
<1>1. Init => AnswerInv
  <2> SUFFICES ASSUME Init PROVE AnswerInv
    OBVIOUS
  <2>1. PoolInv
    BY PoolInit
  <2>2. EntriesOK /\ NetworksMasked /\ CompleteOK /\ AnsweredOK
    <3>1. \A w \in Workers : {} \in SUBSET PortSet
      OBVIOUS
    <3>2. EntriesOK
      BY <3>1 DEF Init, EntriesOK
    <3>3. NetworksMasked
      BY DEF Init, NetworksMasked
    <3> QED BY <3>2, <3>3 DEF Init, CompleteOK, AnsweredOK
  <2>3. Tagged(All, Done)
    <3>1. DOMAIN All = {}
      BY DEF Init, All
    <3>2. Tags(All, <<>>, Done)
      BY <3>1 DEF Tags
    <3> QED BY <3>2 DEF Tagged
  <2> QED BY <2>1, <2>2, <2>3 DEF AnswerInv
<1> QED BY <1>1, AnswerNext, PTL DEF Spec

(* ScanCIDR and LocalIPv4CIDRs: for every query, machine, number of workers *)
(* and limit an address is reported at most once for each different network *)
(* that has it.                                                             *)
THEOREM HostsReportedOnce == Spec => []ReportedOncePerNetwork
<1>1. AnswerInv => ReportedOncePerNetwork
  <2> SUFFICES ASSUME AnswerInv, NEW j \in DOMAIN All
               PROVE  Cardinality({k \in DOMAIN All : All[k].ip = All[j].ip}) <=
                        Cardinality({InBlock(p) : p \in {q \in Networks : All[j].ip \in InBlock(q)}})
    BY DEF ReportedOncePerNetwork, All
  <2>0. Tagged(All, Done) /\ NetworksMasked
    BY DEF AnswerInv
  <2>1. PICK tag : Tags(All, tag, Done)
    BY <2>0 DEF Tagged
  <2> DEFINE there == {q \in Networks : All[j].ip \in InBlock(q)}
             same == {k \in DOMAIN All : All[k].ip = All[j].ip}
             blocks == {InBlock(p) : p \in there}
             f == [k \in same |-> InBlock(tag[k][1])]
  <2>2. Networks \subseteq Prefix /\ IsFiniteSet(Networks)
    <3>1. cidrs \in Seq(AllNetworks) /\ Len(cidrs) \in Nat /\ DOMAIN cidrs = 1 .. Len(cidrs)
      BY <2>0 DEF NetworksMasked
    <3>2. \A n \in DOMAIN cidrs : cidrs[n] \in Prefix
      BY <3>1, NetworksArePrefixes
    <3>3. Networks = ToSet(cidrs)
      BY DEF Networks, ToSet
    <3>4. IsFiniteSet(Networks)
      BY <3>1, <3>3, ToSetFinite
    <3> QED BY <3>2, <3>4 DEF Networks
  <2>3. IsFiniteSet(blocks)
    <3> DEFINE g == [p \in there |-> InBlock(p)]
    <3>1. g \in Surjection(there, blocks)
      BY DEF Surjection
    <3>2. IsFiniteSet(there)
      BY <2>2, FS_Subset
    <3> HIDE DEF g, there, blocks
    <3> QED BY <3>1, <3>2, FS_Surjection
  <2>4. ASSUME NEW k \in DOMAIN All
        PROVE  /\ tag[k][1] \in Networks /\ tag[k] = <<tag[k][1], tag[k][2]>>
               /\ tag[k][2] \in 1 .. Len(Hosts(tag[k][1]))
               /\ All[k].ip = Hosts(tag[k][1])[tag[k][2]]
    <3>1. tag[k] \in Wanted /\ All[k].ip = HostOf(tag[k])
      BY <2>1 DEF Tags, Done
    <3>2. PICK n \in DOMAIN cidrs : tag[k] \in JobsOf(n)
      BY <3>1, UnionOfJobs DEF Wanted
    <3> QED BY <3>1, <3>2 DEF JobsOf, HostOf, Networks
  <2>5. ASSUME NEW k \in DOMAIN All
        PROVE  /\ All[k].ip \in InBlock(tag[k][1])
               /\ All[k].ip = Masked(tag[k][1]) + tag[k][2]
               /\ Masked(tag[k][1]) \in Nat /\ tag[k][2] \in Nat
    <3>1. tag[k][1] \in Prefix
      BY <2>2, <2>4
    <3> DEFINE p == tag[k][1]
               n == tag[k][2]
    <3>2. /\ BlockSize(p) \in Nat /\ BlockSize(p) >= 1 /\ Masked(p) \in Nat
          /\ Len(Hosts(p)) <= BlockSize(p) - 1 /\ Len(Hosts(p)) \in Nat
          /\ Hosts(p)[n] = Masked(p) + n /\ n \in 1 .. Len(Hosts(p))
      <4>1. n \in 1 .. Len(Hosts(p))
        BY <2>4
      <4> HIDE DEF p, n
      <4> QED BY <3>1, <4>1, HostsAre DEF p
    <3>3. All[k].ip = Masked(p) + n
      BY <2>4, <3>2
    <3>4. InBlock(p) = Masked(p) .. Masked(p) + BlockSize(p) - 1
      BY <3>1, BlockIs
    <3> HIDE DEF p, n
    <3>5. n \in Nat /\ Masked(p) + n \in InBlock(p)
      BY <3>2, <3>4
    <3> QED BY <3>2, <3>3, <3>5 DEF p, n
  <2>6. \A p, q \in Networks : InBlock(p) = InBlock(q) => p = q
    <3>1. CASE Len(cidrs) <= 1
      <4>1. Len(cidrs) \in Nat /\ DOMAIN cidrs = 1 .. Len(cidrs)
        BY <2>0 DEF NetworksMasked
      <4>2. \A m, n \in DOMAIN cidrs : m = n
        BY <3>1, <4>1
      <4> QED BY <4>2 DEF Networks
    <3>2. CASE \A n \in DOMAIN cidrs : Masked(cidrs[n]) = cidrs[n].addr
      <4>1. \A p \in Networks : Masked(p) = p.addr /\ p \in Prefix
        BY <2>2, <3>2 DEF Networks
      <4> QED BY <4>1, BlocksDiffer
    <3> QED BY <2>0, <3>1, <3>2 DEF NetworksMasked
  <2>7. f \in Injection(same, blocks)
    <3>1. f \in [same -> blocks]
      <4>1. ASSUME NEW k \in same PROVE tag[k][1] \in there
        BY <2>4, <2>5
      <4> QED BY <4>1
    <3>2. ASSUME NEW k \in same, NEW l \in same, f[k] = f[l] PROVE k = l
      <4>1. InBlock(tag[k][1]) = InBlock(tag[l][1]) /\ k \in DOMAIN All /\ l \in DOMAIN All
        BY <3>2
      <4>2. tag[k][1] = tag[l][1]
        BY <2>4, <2>6, <4>1
      <4>3. All[k].ip = All[l].ip
        OBVIOUS
      <4>4. tag[k][2] = tag[l][2]
        <5> DEFINE m == Masked(tag[k][1])
                   x == tag[k][2]
                   y == tag[l][2]
        <5>1. m + x = m + y /\ m \in Nat /\ x \in Nat /\ y \in Nat
          BY <2>5, <4>1, <4>2, <4>3
        <5> HIDE DEF m, x, y
        <5>2. x = y
          BY <5>1
        <5> QED BY <5>2 DEF x, y
      <4>5. tag[k] = tag[l]
        BY <2>4, <4>1, <4>2, <4>4
      <4> QED BY <2>1, <4>1, <4>5 DEF Tags
    <3> HIDE DEF f, same, blocks
    <3>3. IsInjective(f)
      BY <3>1, <3>2 DEF IsInjective
    <3> QED BY <3>1, <3>3 DEF Injection
  <2> HIDE DEF f, same, blocks
  <2>8. Cardinality(same) <= Cardinality(blocks)
    BY <2>3, <2>7, FS_Injection
  <2> QED BY <2>8 DEF same, blocks, there
<1> QED BY <1>1, AnswerAlways, PTL

(* An answer that is given in time lists every host that listens, with all  *)
(* of its ports, and nothing else, when no dial times out.                  *)
THEOREM NothingIsMissed == Spec => []AnswerIsComplete
<1>1. AnswerInv => AnswerIsComplete
  <2> SUFFICES ASSUME AnswerInv, main = "answered", ~ctxDone, reliable
               PROVE  {<<scans[k].ip, scans[k].ports>> : k \in DOMAIN scans} =
                        {<<a, Open[a] \cap PortSet>> : a \in Listening}
    BY DEF AnswerIsComplete, PortSet
  <2>1. Complete(All, Wanted)
    BY DEF AnswerInv, CompleteOK, AnsweredOK
  <2>2. All = scans
    <3>1. scans \in Seq(Entry) /\ results = <<>>
      BY DEF AnswerInv, EntriesOK, AnsweredOK
    <3>2. scans \o <<>> = scans
      BY <3>1
    <3> QED BY <3>1, <3>2 DEF All
  <2>3. ASSUME NEW a
        PROVE  a \in Listening <=> \E j \in Wanted : a = HostOf(j) /\ Answering(j) # {}
    <3>1. a \in Listening <=> /\ \E p \in Networks : a \in Usable(p)
                              /\ Open[a] \cap PortSet # {}
      BY DEF Listening, PortSet
    <3>2. \A p \in Networks : Usable(p) = {Hosts(p)[k] : k \in 1 .. Len(Hosts(p))}
      <4>1. Networks \subseteq Prefix
        BY NetworksArePrefixes DEF AnswerInv, NetworksMasked, Networks
      <4> QED BY <4>1, HostsAreUsable
    <3>3. (\E p \in Networks : a \in Usable(p)) <=> \E j \in Wanted : a = HostOf(j)
      <4>1. ASSUME NEW p \in Networks, a \in Usable(p) PROVE \E j \in Wanted : a = HostOf(j)
        <5>1. PICK k \in 1 .. Len(Hosts(p)) : a = Hosts(p)[k]
          BY <3>2, <4>1
        <5>2. PICK n \in DOMAIN cidrs : p = cidrs[n]
          BY DEF Networks
        <5>3. <<p, k>> \in JobsOf(n)
          BY <5>2 DEF JobsOf
        <5>4. <<p, k>> \in Wanted
          BY <5>3, UnionOfJobs DEF Wanted
        <5> QED BY <5>1, <5>4 DEF HostOf
      <4>2. ASSUME NEW j \in Wanted, a = HostOf(j) PROVE \E p \in Networks : a \in Usable(p)
        <5>1. PICK n \in DOMAIN cidrs : j \in JobsOf(n)
          BY UnionOfJobs DEF Wanted
        <5>2. j[1] = cidrs[n] /\ j[2] \in 1 .. Len(Hosts(j[1])) /\ j[1] \in Networks
          BY <5>1 DEF JobsOf, Networks
        <5> QED BY <3>2, <4>2, <5>2 DEF HostOf
      <4> QED BY <4>1, <4>2
    <3> QED BY <3>1, <3>3 DEF Answering
  <2>4. ASSUME NEW k \in DOMAIN scans
        PROVE  scans[k].ip \in Listening /\ scans[k].ports = Open[scans[k].ip] \cap PortSet
    <3>1. PICK j \in Wanted : scans[k].ip = HostOf(j) /\ scans[k].ports = Answering(j)
      BY <2>1, <2>2 DEF Complete
    <3>2. Answering(j) # {}
      BY <2>1, <2>2, <3>1 DEF Complete
    <3> QED BY <2>3, <3>1, <3>2 DEF Answering
  <2>5. ASSUME NEW a \in Listening
        PROVE  \E k \in DOMAIN scans : scans[k].ip = a /\ scans[k].ports = Open[a] \cap PortSet
    <3>1. PICK j \in Wanted : a = HostOf(j) /\ Answering(j) # {}
      BY <2>3
    <3>2. PICK k \in DOMAIN All : All[k].ip = HostOf(j) /\ All[k].ports = Answering(j)
      BY <2>1, <3>1 DEF Complete
    <3> QED BY <2>2, <3>1, <3>2 DEF Answering
  <2> DEFINE given == {<<scans[k].ip, scans[k].ports>> : k \in DOMAIN scans}
             right == {<<a, Open[a] \cap PortSet>> : a \in Listening}
  <2>6. \A x \in given : x \in right
    BY <2>4
  <2>7. \A x \in right : x \in given
    BY <2>5
  <2> HIDE DEF given, right
  <2>8. given = right
    BY <2>6, <2>7
  <2> QED BY <2>8 DEF given, right
<1> QED BY <1>1, AnswerAlways, PTL
=============================================================================
