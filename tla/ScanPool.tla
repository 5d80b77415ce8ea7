------------------------------ MODULE ScanPool ------------------------------
(***************************************************************************)
(* One LAN scan: handlePCScan of the Hub (internal/hub/server.go), or pc    *)
(* scan of the command line (internal/cli/pc.go), calls network.ScanCIDR   *)
(* (internal/network/scan.go) for one CIDR after the other: the one it was *)
(* given, or those of the machine's interfaces.                            *)
(* ScanCIDR hands the addresses over an unbuffered channel to a pool of    *)
(* workers; a worker dials the ports of its address one after the other    *)
(* and sends a host with open ports to a buffered channel, which is read   *)
(* when all workers have left.  At the Hub a deadline may pass, or the     *)
(* client leave, at any moment: a dial then fails at once, and the loop    *)
(* that hands out addresses gives up, unless it has already handed out the *)
(* last one.  The command line has no deadline and no traffic meter.       *)
(***************************************************************************)
EXTENDS AddressSpecs

CONSTANTS
  Queries,      \* the queries, [by, cidr, ports]: by "hub" or "cli", and what
                \* is written in the URL or the flags, a sequence of at most one
                \* prefix and one of ports
  Machines,     \* the sets of interfaces the machine may have
  DefaultPorts, \* the ports ScanCIDR dials when it is given none
  Open,         \* Open[a]: the ports that answer at address a
  Concurrency,  \* workers per CIDR
  MaxHosts      \* ScanOptions.MaxHosts

ASSUME ScanAssumption ==
  /\ Concurrency \in Nat \ {0}
  /\ MaxHosts \in Nat \ {0}
  /\ \A q \in Queries : /\ q.by \in {"hub", "cli"}
                       /\ q.cidr \in Seq(Prefix) /\ Len(q.cidr) <= 1
                       /\ q.ports \in Seq(Nat)
  /\ \A m \in Machines : /\ \A i \in m : i.prefixes \subseteq Prefix
                        /\ IsFiniteSet(LocalIPv4CIDRs(m))
  /\ DefaultPorts \in Seq(Nat) /\ DefaultPorts # <<>>

Workers == 1 .. Concurrency

VARIABLES
  query,    \* the query
  reliable, \* its world: an open port always answers within the dial timeout
  main,     \* where the handler or the command is
  ctxDone,  \* the context is done
  cidrs,    \* the prefixes to scan
  cidr,     \* index of the one being scanned
  next,     \* index of the address the loop hands out next
  closed,   \* close(jobs) has happened
  wg,       \* counter of the WaitGroup
  worker,   \* worker[w]: where worker w is
  job,      \* job[w]: index of the address it was handed
  dialed,   \* dialed[w]: how many ports of it are done
  open,     \* open[w]: those that answered
  results,  \* the channel of results
  scans,    \* the results of the CIDRs so far
  traffic,  \* the port checks EstimateScanTraffic has added up
  metered,  \* the port checks handed to the traffic meter
  dials     \* history: dials that were really started

vars == <<query, reliable, main, ctxDone, cidrs, cidr, next, closed, wg, worker, job,
          dialed, open, results, scans, traffic, metered, dials>>

request == <<query, reliable>>
probe   == <<job, dialed, open>>
answer  == <<scans, traffic, metered>>
handout == <<cidrs, cidr, next, closed>>

Addresses == Hosts(cidrs[cidr])

Size == Len(Addresses)

(* The ports to dial, in order. *)
Ports == IF ParsePorts(query.ports) = <<>> THEN DefaultPorts ELSE ParsePorts(query.ports)

Init == /\ query \in Queries
        /\ reliable \in BOOLEAN
        /\ main = "asked"
        /\ ctxDone = FALSE
        /\ cidrs = <<>>
        /\ cidr = 1 /\ next = 1
        /\ closed = FALSE
        /\ wg = 0
        /\ worker = [w \in Workers |-> "none"]
        /\ job = [w \in Workers |-> 0]
        /\ dialed = [w \in Workers |-> 0]
        /\ open = [w \in Workers |-> {}]
        /\ results = <<>>
        /\ scans = <<>>
        /\ traffic = 0 /\ metered = 0 /\ dials = 0

(* What the query stands for on a machine; the networks of the interfaces  *)
(* may come in any order.                                                  *)
ToScan(machine) ==
  IF query.cidr # <<>> THEN {query.cidr} ELSE SetToSeqs(LocalIPv4CIDRs(machine))

(* Bad ports, or no network at all, are an error. *)
Refuse ==
  /\ main = "asked"
  /\ PortsRefused(query.ports) \/ \E m \in Machines : <<>> \in ToScan(m)
  /\ main' = "failed"
  /\ UNCHANGED <<request, handout, probe, answer, ctxDone, wg, worker, results, dials>>

Choose ==
  /\ main = "asked"
  /\ ~PortsRefused(query.ports)
  /\ \E m \in Machines : cidrs' \in ToScan(m) \ {<<>>}
  /\ main' = "open"
  /\ UNCHANGED <<request, probe, answer, ctxDone, cidr, next, closed, wg, worker, results, dials>>

---------------------------------------------------------------------------
(* ScanCIDR before its loop: a network that is too large is an error that  *)
(* ends the whole request; otherwise the workers are started.              *)

(* What the WaitGroup counts once the workers are started. *)
Added == Concurrency

TooLarge ==
  /\ main = "open"
  /\ Size > MaxHosts
  /\ main' = "failed"
  /\ UNCHANGED <<request, handout, probe, answer, ctxDone, wg, worker, results, dials>>

StartWorkers ==
  /\ main = "open"
  /\ Size <= MaxHosts
  /\ main' = "handing"
  /\ next' = 1
  /\ closed' = FALSE
  /\ wg' = Added
  /\ worker' = [w \in Workers |-> "waiting"]
  /\ UNCHANGED <<request, probe, answer, ctxDone, cidrs, cidr, results, dials>>

(* Mutant of AllHanded: the loop leaves out the last address. *)
AllHandedEarly == next >= Size

(* The loop over ips has handed out every address. *)
AllHanded == next > Size

(* jobs <- ip meets range jobs: select takes it although the context may   *)
(* be done as well.                                                        *)
HandOut(w) ==
  /\ main = "handing" /\ ~AllHanded
  /\ worker[w] = "waiting"
  /\ next' = next + 1
  /\ worker' = [worker EXCEPT ![w] = "dialing"]
  /\ job' = [job EXCEPT ![w] = next]
  /\ dialed' = [dialed EXCEPT ![w] = 0]
  /\ open' = [open EXCEPT ![w] = {}]
  /\ UNCHANGED <<request, answer, main, ctxDone, cidrs, cidr, closed, wg, results, dials>>

(* ctx.Done is ready in that select: the rest is not scanned. *)
GiveUp ==
  /\ main = "handing" /\ ~AllHanded
  /\ ctxDone
  /\ closed' = TRUE
  /\ main' = "aborting"
  /\ UNCHANGED <<request, probe, answer, ctxDone, cidrs, cidr, next, wg, worker, results, dials>>

CloseJobs ==
  /\ main = "handing" /\ AllHanded
  /\ closed' = TRUE
  /\ main' = "draining"
  /\ UNCHANGED <<request, probe, answer, ctxDone, cidrs, cidr, next, wg, worker, results, dials>>

---------------------------------------------------------------------------
(* A worker: scanHost, the send of its result, the end of its loop.        *)

Answers(a, port) ==
  {ok \in BOOLEAN : IF ctxDone \/ port \notin Open[a] THEN ~ok ELSE reliable => ok}

DialPort(w) ==
  /\ worker[w] = "dialing"
  /\ dialed[w] < Len(Ports)
  /\ LET port == Ports[dialed[w] + 1]
     IN  \E ok \in Answers(Addresses[job[w]], port) :
           open' = [open EXCEPT ![w] = IF ok THEN @ \cup {port} ELSE @]
  /\ dialed' = [dialed EXCEPT ![w] = @ + 1]
  /\ dials' = dials + (IF ctxDone THEN 0 ELSE 1)
  /\ UNCHANGED <<request, handout, answer, main, ctxDone, wg, worker, job, results>>

(* Mutant of Room: make(chan HostScan). *)
NoRoom == 0

(* Places of the channel of results: a send into a full one waits. *)
Room == Size

(* The results after worker w is done with its address. *)
Sent(w) == IF open[w] = {} THEN results
                           ELSE Append(results, [ip |-> Addresses[job[w]], ports |-> open[w]])

HostDone(w) ==
  /\ worker[w] = "dialing"
  /\ dialed[w] = Len(Ports)
  /\ open[w] # {} => Len(results) < Room
  /\ results' = Sent(w)
  /\ worker' = [worker EXCEPT ![w] = "waiting"]
  /\ UNCHANGED <<request, handout, probe, answer, main, ctxDone, wg, dials>>

Leave(w) ==
  /\ worker[w] = "waiting"
  /\ closed
  /\ worker' = [worker EXCEPT ![w] = "none"]
  /\ wg' = wg - 1
  /\ UNCHANGED <<request, handout, probe, answer, main, ctxDone, results, dials>>

---------------------------------------------------------------------------
(* wg.Wait returns.  An aborted CIDR is an error that ends the request     *)
(* before its traffic or that of earlier CIDRs reaches the meter.          *)

(* Mutant of AllLeft: the results are read while workers are still busy. *)
AllLeftIgnored == TRUE

AllLeft == wg = 0

Abort ==
  /\ main = "aborting"
  /\ AllLeft
  /\ main' = "failed"
  /\ UNCHANGED <<request, handout, probe, answer, ctxDone, wg, worker, results, dials>>

(* Mutant of PortChecks: one check per host. *)
PortChecksPerHost == IF Size > MaxHosts THEN MaxHosts ELSE Size

(* EstimateScanTraffic of the CIDR. *)
PortChecks == (IF Size > MaxHosts THEN MaxHosts ELSE Size) * Len(Ports)

(* The results are collected (their order by the text of the address is    *)
(* left out); the next CIDR follows, or the traffic goes to the Hub's meter *)
(* and the client or the user is answered.                                 *)
Collect ==
  /\ main = "draining"
  /\ AllLeft
  /\ scans' = scans \o results
  /\ results' = <<>>
  /\ traffic' = traffic + (IF query.by = "hub" THEN PortChecks ELSE 0)
  /\ IF cidr < Len(cidrs)
     THEN main' = "open" /\ cidr' = cidr + 1 /\ metered' = metered
     ELSE main' = "answered" /\ cidr' = cidr /\ metered' = metered + traffic'
  /\ UNCHANGED <<request, probe, ctxDone, cidrs, next, closed, wg, worker, dials>>

Cancel ==
  /\ query.by = "hub" /\ ~ctxDone
  /\ ctxDone' = TRUE
  /\ UNCHANGED <<request, handout, probe, answer, main, wg, worker, results, dials>>

Over == main \in {"answered", "failed"} /\ UNCHANGED vars

HandlerNext == Refuse \/ Choose \/ TooLarge \/ StartWorkers \/ GiveUp \/ CloseJobs \/ Abort \/ Collect

WorkerNext(w) == HandOut(w) \/ DialPort(w) \/ HostDone(w) \/ Leave(w)

Next == HandlerNext \/ (\E w \in Workers : WorkerNext(w)) \/ Cancel \/ Over

Spec == Init /\ [][Next]_vars

(* Goroutines that can go on do; a dial ends by its timeout.  No fairness  *)
(* on Cancel: the scan ends without a deadline as well.                    *)
Fairness == WF_vars(HandlerNext) /\ \A w \in Workers : WF_vars(WorkerNext(w))

FairSpec == Spec /\ Fairness

---------------------------------------------------------------------------
(* Properties.                                                             *)

Networks == {cidrs[n] : n \in DOMAIN cidrs}

(* An address is reported at most once for each different network that has *)
(* it, however many interfaces and addresses the machine has there: twice  *)
(* only if one local network lies within another.                          *)
ReportedOncePerNetwork ==
  LET all == scans \o results
  IN  \A j \in DOMAIN all :
        Cardinality({k \in DOMAIN all : all[k].ip = all[j].ip}) <=
          Cardinality({InBlock(p) : p \in {q \in Networks : all[j].ip \in InBlock(q)}})

Listening == {a \in UNION {Usable(p) : p \in Networks} :
                \E k \in DOMAIN Ports : Ports[k] \in Open[a]}

(* An answer that was given in time lists every host that listens on one   *)
(* of the ports, with all of them, when no dial times out.                 *)
AnswerIsComplete ==
  main = "answered" /\ ~ctxDone /\ reliable =>
    {<<scans[k].ip, scans[k].ports>> : k \in DOMAIN scans} =
      {<<a, Open[a] \cap {Ports[k] : k \in DOMAIN Ports}>> : a \in Listening}

(* HUB_MONITOR.md:92: a successful scan of the Hub never reports less       *)
(* traffic than it caused, and exactly as many port checks when its context *)
(* stayed alive.                                                           *)
EstimateCovers ==
  main = "answered" /\ query.by = "hub" => metered >= dials /\ (~ctxDone => metered = dials)

(* HUB_MONITOR.md:87-93, "The PC metric includes estimated GridLens network *)
(* traffic ... bounded LAN port checks": what a scan has dialed is in the   *)
(* meter once the request is over, whether it succeeded or not.             *)
EveryDialMetered ==
  main \in {"answered", "failed"} /\ query.by = "hub" => metered >= dials

(* The client or the user is always answered: no worker waits for ever, not *)
(* on a channel of results that nobody reads before all of them have left,  *)
(* nor for an address when the loop has given up.                          *)
ScanReturns == <>(main \in {"answered", "failed"})

(* Job <<p, k>> is host k of network p; a query has as many as it needs,   *)
(* and the rest of them is given up when it is known what to scan.         *)
AllNetworks == {q.cidr[1] : q \in {p \in Queries : p.cidr # <<>>}}
                 \cup UNION {LocalIPv4CIDRs(m) : m \in Machines}

AllJobs == AllNetworks \X (1 .. MaxHosts)

JobsOf(n) == {cidrs[n]} \X (1 .. Len(Hosts(cidrs[n])))

Wanted == UNION {JobsOf(n) : n \in DOMAIN cidrs}

Busy == {<<cidrs[cidr], job[w]>> : w \in {v \in Workers : worker[v] = "dialing"}}

HandedOut == (UNION {JobsOf(n) : n \in 1 .. cidr - 1})
               \cup (IF main = "open" THEN {} ELSE {cidrs[cidr]} \X (1 .. next - 1))

Settled == CASE main = "asked"                  -> {}
             [] main \in {"aborting", "failed"} -> AllJobs \ Busy
             [] OTHER                           -> ((AllJobs \ Wanted) \cup HandedOut) \ Busy

(* The pool is the bounded fan-out of the addresses: none is dialed twice, *)
(* none is forgotten, and the client is answered when no worker is busy.   *)
PoolFanOut == INSTANCE FanOut WITH
  Jobs    <- AllJobs,
  Limit   <- Concurrency,
  running <- Busy,
  settled <- Settled,
  closed  <- main \in {"answered", "failed"}

ImplementsFanOut == PoolFanOut!Spec
=============================================================================
