------------------------------- MODULE Detect -------------------------------
(***************************************************************************)
(* One discovery pass: nosana.Detect (internal/nosana/detect.go).          *)
(*                                                                         *)
(* The calling goroutine probes the local runtimes, starts one goroutine   *)
(* per configured PC, waits for them and sums the report up.  A PC         *)
(* goroutine takes a slot of the semaphore or sees the context done; with  *)
(* a slot it asks the host name, then lists the containers of each runtime *)
(* of the PC over ssh.  For docker it starts one more goroutine per        *)
(* container, bounded by a second semaphore of its own, that looks for     *)
(* podman containers inside.  Every ssh command ends in trafficCounter.    *)
(*                                                                         *)
(* The remote machines and the ssh processes are the environment: a        *)
(* command that was started may end well or badly at any time, or never;   *)
(* once the context is done it is killed, and a command issued after that  *)
(* is refused by os/exec without a process.                                *)
(***************************************************************************)
EXTENDS Report

CONSTANTS
  NumPCs,                \* len(cfg.PCs)
  MaxConcurrentTargets,  \* Options; zero and below select the default
  MaxConcurrentNested,
  IncludeNested,
  SSHInstalled,          \* LookPath("ssh") succeeds
  HasSSH,                \* the PCs that have an SSHTarget
  Runtimes,              \* Runtimes[i]: the runtimes runtimesForPC gives for PC i
  LocalRuntimes,         \* the runtimes LookPath finds on the hub
  Listing,               \* Listing[site][runtime]: what runs there; site 0 is the hub
  Accepts,               \* Accepts[site]: the names its Matcher matches
  Cancellable            \* the context has a deadline or a client that may leave

PCs   == 1 .. NumPCs
Sites == 0 .. NumPCs

ASSUME SizeAssumption ==
  /\ NumPCs \in Nat
  /\ MaxConcurrentTargets \in Int
  /\ MaxConcurrentNested \in Int

ASSUME FlagAssumption ==
  /\ {IncludeNested, SSHInstalled, Cancellable} \subseteq BOOLEAN
  /\ HasSSH \subseteq PCs

(* What a command line tool says of a container inside another one, and of *)
(* one that may have some inside.                                          *)
Inside == [name : Nat, id : Nat, wrapper : BOOLEAN]
Listed == [name : Nat, id : Nat, wrapper : BOOLEAN, inner : Seq(Inside)]

ASSUME WorldAssumption ==
  /\ \A i \in PCs : Runtimes[i] \in Seq({"docker", "podman"})
  /\ LocalRuntimes \subseteq {"docker", "podman"}
  /\ \A s \in Sites : \A rt \in {"docker", "podman"} : Listing[s][rt] \in Seq(Listed)

MaxTargets == IF MaxConcurrentTargets <= 0 THEN 32 ELSE MaxConcurrentTargets
MaxNested  == IF MaxConcurrentNested <= 0 THEN 8 ELSE MaxConcurrentNested

VARIABLES
  main,     \* where Detect is
  ctxDone,  \* the context is done
  reliable, \* the world Detect runs in: no command fails unless the context is done
  lnext,    \* addNestedPodman's loop: the next local container to look into
  sem,      \* tokens in the semaphore of the PC goroutines
  wg,       \* counter of Detect's WaitGroup
  at,       \* at[i]: where the goroutine of PC i is
  cmd,      \* cmd[i]: the ssh process it waits for itself
  built,    \* built[s]: target.Runtimes of the target being put together
  work,     \* work[s]: the containers slice of the runtime being probed
  kid,      \* kid[i][k]: where the nested probe of container k of PC i is
  nsem,     \* nsem[i]: tokens in the semaphore of the nested probes of PC i
  nwg,      \* nwg[i]: counter of their WaitGroup
  targets,  \* report.Targets, slot 0 first
  traffic,  \* SSHSessions of the trafficCounter
  summary,  \* report.Summary, and the SSHSessions put in the report
  started   \* history: ssh processes that were really started

vars == <<main, ctxDone, reliable, lnext, sem, wg, at, cmd, built, work, kid, nsem, nwg,
          targets, traffic, summary, started>>

caller == <<main, ctxDone, reliable, lnext>>
pcs    == <<sem, wg, at, cmd>>
nested == <<kid, nsem, nwg>>
data   == <<built, work, targets>>
counts == <<traffic, summary, started>>

---------------------------------------------------------------------------
(* What a command returns.  A refused one fails; a running one may always  *)
(* fail, even after the deadline it may have ended well just before the    *)
(* kill; a reliable environment only fails commands once the context is    *)
(* done.                                                                   *)
Answers(proc) ==
  {ok \in BOOLEAN : IF proc = "refused" THEN ~ok ELSE reliable /\ ~ctxDone => ok}

(* exec.CommandContext starts nothing once the context is done. *)
Launch == IF ctxDone THEN "refused" ELSE "running"

(* A process is started, or refused. *)
CountStart == started' = started + (IF ctxDone THEN 0 ELSE 1)

(* Mutant of AddSSH: sessions that end after the deadline are not counted. *)
AddSSHInTime == traffic' = traffic + (IF ctxDone THEN 0 ELSE 1)

(* trafficCounter.addSSH, once per ssh command whatever became of it. *)
AddSSH == traffic' = traffic + 1

(* Matcher.Match: an exact name or a pattern of the site fits. *)
Match(site, name) == name \in Accepts[site]

(* ParseDockerPSJSONLines and ParsePodmanPSJSON apply the Matcher and leave *)
(* Nested empty.                                                            *)
Parse(site, raw) ==
  [k \in DOMAIN raw |-> [name |-> raw[k].name, id |-> raw[k].id,
                         wrapper |-> raw[k].wrapper,
                         matched |-> Match(site, raw[k].name),
                         nested |-> <<>>]]

(* The podman containers inside container k of the docker list. *)
ParseNested(site, k) ==
  LET raw == Listing[site]["docker"][k].inner
  IN  [n \in DOMAIN raw |-> [name |-> raw[n].name, id |-> raw[n].id,
                             wrapper |-> raw[n].wrapper,
                             matched |-> Match(site, raw[n].name)]]

Slot(status, pc, runtimes) == [status |-> status, pc |-> pc, runtimes |-> runtimes]

Empty == Slot("empty", 0, <<>>)

NoSummary == [none |-> TRUE]

Init == /\ main = "docker"
        /\ ctxDone = FALSE
        /\ reliable \in BOOLEAN
        /\ lnext = 0
        /\ sem = 0 /\ wg = 0
        /\ at = [i \in PCs |-> "idle"]
        /\ cmd = [i \in PCs |-> "none"]
        /\ built = [s \in Sites |-> <<>>]
        /\ work = [s \in Sites |-> <<>>]
        /\ kid = [i \in PCs |-> <<>>]
        /\ nsem = [i \in PCs |-> 0]
        /\ nwg = [i \in PCs |-> 0]
        /\ targets = [s \in Sites |-> Empty]
        /\ traffic = 0
        /\ summary = NoSummary
        /\ started = 0

---------------------------------------------------------------------------
(* detectLocal, on the calling goroutine.                                  *)

LocalAnswers(runtime) ==
  IF runtime \in LocalRuntimes THEN Answers(Launch) ELSE {FALSE}

LocalDocker ==
  /\ main = "docker"
  /\ \E ok \in LocalAnswers("docker") :
       \/ /\ ok /\ IncludeNested
          /\ work' = [work EXCEPT ![0] = Parse(0, Listing[0]["docker"])]
          /\ lnext' = 1
          /\ main' = "exec"
          /\ UNCHANGED built
       \/ /\ ~(ok /\ IncludeNested)
          /\ LET found == IF ok THEN SortContainers(Parse(0, Listing[0]["docker"])) ELSE <<>>
             IN  built' = [built EXCEPT ![0] = <<RuntimeReport("docker", ok, found)>>]
          /\ main' = "podman"
          /\ UNCHANGED <<work, lnext>>
  /\ UNCHANGED <<pcs, nested, counts, ctxDone, reliable, targets>>

(* addNestedPodman: one docker exec after the other. *)
LocalExec ==
  /\ main = "exec" /\ lnext \in DOMAIN work[0]
  /\ \E ok \in Answers(Launch) :
       work' = IF ok /\ work[0][lnext].id # 0
               THEN [work EXCEPT ![0][lnext].nested = ParseNested(0, lnext)]
               ELSE work
  /\ lnext' = lnext + 1
  /\ UNCHANGED <<pcs, nested, counts, main, ctxDone, reliable, built, targets>>

LocalCollect ==
  /\ main = "exec" /\ lnext \notin DOMAIN work[0]
  /\ built' = [built EXCEPT ![0] = <<RuntimeReport("docker", TRUE,
                                      SortContainers(DemoteRuntimeWrappers(work[0])))>>]
  /\ work' = [work EXCEPT ![0] = <<>>]
  /\ lnext' = 0
  /\ main' = "podman"
  /\ UNCHANGED <<pcs, nested, counts, ctxDone, reliable, targets>>

LocalPodman ==
  /\ main = "podman"
  /\ \E ok \in LocalAnswers("podman") :
       LET found == IF ok THEN SortContainers(Parse(0, Listing[0]["podman"])) ELSE <<>>
       IN  targets' = [targets EXCEPT ![0] =
                         Slot("probed", 0, Append(built[0], RuntimeReport("podman", ok, found)))]
  /\ built' = [built EXCEPT ![0] = <<>>]
  /\ main' = "spawn"
  /\ UNCHANGED <<pcs, nested, counts, ctxDone, reliable, lnext, work>>

---------------------------------------------------------------------------
(* The loop of Detect over cfg.PCs: wg.Add(1); go func.                    *)

Spawn(i) ==
  /\ main = "spawn"
  /\ at[i] = "idle"
  /\ \A j \in 1 .. i - 1 : at[j] # "idle"
  /\ wg' = wg + 1
  /\ at' = [at EXCEPT ![i] = "select"]
  /\ UNCHANGED <<caller, nested, data, counts, sem, cmd>>

(* The buffered channel sem has room. *)
SlotFree == sem < MaxTargets

(* select: a slot of the semaphore, or the context done; when both are     *)
(* ready Go picks either.                                                  *)
Acquire(i) ==
  /\ at[i] = "select"
  /\ SlotFree
  /\ sem' = sem + 1
  /\ at' = [at EXCEPT ![i] = "holding"]
  /\ UNCHANGED <<caller, nested, data, counts, wg, cmd>>

(* Mutant of CancelTarget: the deferred release is registered before the   *)
(* select, so a cancelled goroutine gives back a token it never took.      *)
CancelTargetReleases(i) ==
  /\ at[i] = "select"
  /\ ctxDone
  /\ targets' = [targets EXCEPT ![i] = Slot("cancelled", i, <<>>)]
  /\ at' = [at EXCEPT ![i] = "leaving"]
  /\ UNCHANGED <<caller, nested, counts, sem, wg, cmd, built, work>>

CancelTarget(i) ==
  /\ at[i] = "select"
  /\ ctxDone
  /\ targets' = [targets EXCEPT ![i] = Slot("cancelled", i, <<>>)]
  /\ at' = [at EXCEPT ![i] = "exit"]
  /\ UNCHANGED <<caller, nested, counts, sem, wg, cmd, built, work>>

(* detectPC without an ssh target, or without ssh on the hub. *)
Skip(i) ==
  /\ at[i] = "holding"
  /\ ~(SSHInstalled /\ i \in HasSSH)
  /\ targets' = [targets EXCEPT ![i] = Slot("skipped", i, <<>>)]
  /\ at' = [at EXCEPT ![i] = "leaving"]
  /\ UNCHANGED <<caller, nested, counts, sem, wg, cmd, built, work>>

StartHostname(i) ==
  /\ at[i] = "holding"
  /\ SSHInstalled /\ i \in HasSSH
  /\ at' = [at EXCEPT ![i] = "hostname"]
  /\ cmd' = [cmd EXCEPT ![i] = Launch]
  /\ CountStart
  /\ UNCHANGED <<caller, nested, data, sem, wg, traffic, summary>>

(* detectRemoteHostname returns: the name itself is display text, the      *)
(* probing goes on whatever the answer was.                                *)
EndHostname(i) ==
  /\ at[i] = "hostname"
  /\ at' = [at EXCEPT ![i] = "runtime"]
  /\ cmd' = [cmd EXCEPT ![i] = "none"]
  /\ AddSSH
  /\ UNCHANGED <<caller, nested, data, sem, wg, summary, started>>

---------------------------------------------------------------------------
(* detectRemoteRuntime, for the runtime after those already built.         *)

RuntimeNow(i) == Runtimes[i][Len(built[i]) + 1]

StartList(i) ==
  /\ at[i] = "runtime"
  /\ Len(built[i]) < Len(Runtimes[i])
  /\ at' = [at EXCEPT ![i] = "list"]
  /\ cmd' = [cmd EXCEPT ![i] = Launch]
  /\ CountStart
  /\ UNCHANGED <<caller, nested, data, sem, wg, traffic, summary>>

(* The list arrives.  A docker list goes on to its nested probes: one      *)
(* goroutine for every container with an ID, all added to the WaitGroup    *)
(* before the wait.                                                        *)
ListDocker(i) ==
  LET found == Parse(i, Listing[i]["docker"])
  IN  /\ at' = [at EXCEPT ![i] = "nested"]
      /\ work' = [work EXCEPT ![i] = found]
      /\ kid' = [kid EXCEPT ![i] = [k \in DOMAIN found |->
                                      IF found[k].id = 0 THEN "done" ELSE "select"]]
      /\ nwg' = [nwg EXCEPT ![i] = Cardinality({k \in DOMAIN found : found[k].id # 0})]
      /\ UNCHANGED <<built, nsem>>

ListOther(i, ok) ==
  LET found == IF ok THEN SortContainers(Parse(i, Listing[i][RuntimeNow(i)])) ELSE <<>>
  IN  /\ at' = [at EXCEPT ![i] = "runtime"]
      /\ built' = [built EXCEPT ![i] = Append(@, RuntimeReport(RuntimeNow(i), ok, found))]
      /\ UNCHANGED <<nested, work>>

EndList(i) ==
  /\ at[i] = "list"
  /\ AddSSH
  /\ cmd' = [cmd EXCEPT ![i] = "none"]
  /\ \E ok \in Answers(cmd[i]) :
       IF ok /\ IncludeNested /\ RuntimeNow(i) = "docker"
       THEN ListDocker(i)
       ELSE ListOther(i, ok)
  /\ UNCHANGED <<caller, sem, wg, targets, summary, started>>

---------------------------------------------------------------------------
(* addRemoteNestedPodman: the goroutine of container k of PC i.            *)

(* Mutant of NestedFree: room for one more than there should be. *)
NestedFreeForOneMore(i) == nsem[i] <= MaxNested

(* The semaphore of the nested probes has room. *)
NestedFree(i) == nsem[i] < MaxNested

AcquireNested(i, k) ==
  /\ kid[i][k] = "select"
  /\ NestedFree(i)
  /\ nsem' = [nsem EXCEPT ![i] = @ + 1]
  /\ kid' = [kid EXCEPT ![i][k] = Launch]
  /\ CountStart
  /\ UNCHANGED <<caller, pcs, data, nwg, traffic, summary>>

(* Mutant of NestedGone: the goroutine ends without wg.Done. *)
NestedGoneSilently(i, k) == kid' = [kid EXCEPT ![i][k] = "done"] /\ nwg' = nwg

(* The goroutine ends; wg.Done. *)
NestedGone(i, k) == /\ kid' = [kid EXCEPT ![i][k] = "done"]
                    /\ nwg' = [nwg EXCEPT ![i] = @ - 1]

CancelNested(i, k) ==
  /\ kid[i][k] = "select"
  /\ ctxDone
  /\ NestedGone(i, k)
  /\ UNCHANGED <<caller, pcs, data, counts, nsem>>

(* The probe ends: a failure leaves the container without nested ones and  *)
(* without a trace of it in the report.                                    *)
EndNested(i, k) ==
  /\ kid[i][k] \in {"running", "refused"}
  /\ AddSSH
  /\ \E ok \in Answers(kid[i][k]) :
       work' = IF ok THEN [work EXCEPT ![i][k].nested = ParseNested(i, k)] ELSE work
  /\ NestedGone(i, k)
  /\ nsem' = [nsem EXCEPT ![i] = @ - 1]
  /\ UNCHANGED <<caller, pcs, built, targets, summary, started>>

(* Mutant of NestedDone: the nested probes are not waited for. *)
NestedDoneIgnored(i) == TRUE

(* wg.Wait returns. *)
NestedDone(i) == nwg[i] = 0

(* Then demoteRuntimeWrappers and sortContainers. *)
CollectNested(i) ==
  /\ at[i] = "nested"
  /\ NestedDone(i)
  /\ built' = [built EXCEPT ![i] =
                 Append(@, RuntimeReport("docker", TRUE,
                             SortContainers(DemoteRuntimeWrappers(work[i]))))]
  /\ work' = [work EXCEPT ![i] = <<>>]
  /\ kid' = [kid EXCEPT ![i] = <<>>]
  /\ at' = [at EXCEPT ![i] = "runtime"]
  /\ UNCHANGED <<caller, counts, sem, wg, cmd, nsem, nwg, targets>>

---------------------------------------------------------------------------
(* i := i, the slot of the goroutine's own PC. *)
SlotOf(i) == i

(* detectPC returns and its target goes to its slot of report.Targets; the *)
(* deferred calls give the semaphore token back, then end the goroutine.   *)

StoreTarget(i) ==
  /\ at[i] = "runtime"
  /\ Len(built[i]) = Len(Runtimes[i])
  /\ targets' = [targets EXCEPT ![SlotOf(i)] = Slot("probed", i, built[i])]
  /\ built' = [built EXCEPT ![i] = <<>>]
  /\ at' = [at EXCEPT ![i] = "leaving"]
  /\ UNCHANGED <<caller, nested, counts, sem, wg, cmd, work>>

Release(i) ==
  /\ at[i] = "leaving"
  /\ sem' = sem - 1
  /\ at' = [at EXCEPT ![i] = "exit"]
  /\ UNCHANGED <<caller, nested, data, counts, wg, cmd>>

Exit(i) ==
  /\ at[i] = "exit"
  /\ wg' = wg - 1
  /\ at' = [at EXCEPT ![i] = "done"]
  /\ UNCHANGED <<caller, nested, data, counts, sem, cmd>>

(* Mutant of AllDone: Detect does not wait for its goroutines. *)
AllDoneIgnored == TRUE

(* wg.Wait returns. *)
AllDone == wg = 0

(* Then the slots are summarized and the traffic counted so far is taken. *)
Return ==
  /\ main = "spawn"
  /\ \A i \in PCs : at[i] # "idle"
  /\ AllDone
  /\ main' = "returned"
  /\ summary' = [counts |-> Summarize(targets), sessions |-> traffic]
  /\ UNCHANGED <<pcs, nested, data, ctxDone, reliable, lnext, traffic, started>>

(* The deadline passes, or the HTTP client goes away. *)
Cancel ==
  /\ Cancellable
  /\ ~ctxDone
  /\ ctxDone' = TRUE
  /\ UNCHANGED <<pcs, nested, data, counts, main, reliable, lnext>>

---------------------------------------------------------------------------
LocalNext == LocalDocker \/ LocalExec \/ LocalCollect \/ LocalPodman

(* The steps of the goroutine of PC i that wait for no ssh process. *)
PCStep(i) == \/ Spawn(i) \/ Acquire(i) \/ CancelTarget(i) \/ Skip(i)
             \/ StartHostname(i) \/ StartList(i) \/ CollectNested(i)
             \/ StoreTarget(i) \/ Release(i) \/ Exit(i)

(* The ends of the processes it waits for. *)
PCEnd(i) == EndHostname(i) \/ EndList(i)

KidStep(i, k) == AcquireNested(i, k) \/ CancelNested(i, k)

Kids(i) == DOMAIN kid[i]

(* A finished discovery stays finished. *)
Finished == main = "returned" /\ UNCHANGED vars

Next == \/ LocalNext
        \/ \E i \in PCs : PCStep(i) \/ PCEnd(i)
        \/ \E i \in PCs : \E k \in Kids(i) : KidStep(i, k) \/ EndNested(i, k)
        \/ Return
        \/ Cancel
        \/ Finished

Spec == Init /\ [][Next]_vars

MaxListed == 8 \* bound on the containers of one list, for the fairness below

(* The scheduler runs every goroutine that can go on and the deadline      *)
(* comes; a remote command need not end before it, but once the context is *)
(* done it has been killed and its end is seen.                            *)
Fairness ==
  /\ WF_vars(LocalNext)
  /\ WF_vars(Return)
  /\ WF_vars(Cancel)
  /\ \A i \in PCs : WF_vars(PCStep(i)) /\ WF_vars(ctxDone /\ PCEnd(i))
  /\ \A i \in PCs : \A k \in 1 .. MaxListed :
        WF_vars(k \in Kids(i) /\ (KidStep(i, k) \/ (ctxDone /\ EndNested(i, k))))

FairSpec == Spec /\ Fairness

---------------------------------------------------------------------------
(* Properties.                                                             *)

CmdStates == {"none", "running", "refused"}
KidStates == {"select", "running", "refused", "done"}
AtStates  == {"idle", "select", "holding", "hostname", "runtime", "list", "nested",
              "leaving", "exit", "done"}

HolderStates == {"holding", "hostname", "runtime", "list", "nested", "leaving"}

(* The goroutines that have taken a token of sem and not given it back. *)
Holders == {i \in PCs : at[i] \in HolderStates}

(* The goroutines wg counts. *)
Active == {i \in PCs : at[i] \notin {"idle", "done"}}

(* The shape of the state; the counters never go below zero, which for a   *)
(* WaitGroup would be a panic and for a semaphore a goroutine that waits   *)
(* forever to give back a token it never took.                             *)
TypeOK ==
  /\ main \in {"docker", "exec", "podman", "spawn", "returned"}
  /\ ctxDone \in BOOLEAN /\ reliable \in BOOLEAN
  /\ lnext \in Nat /\ sem \in Nat /\ wg \in Nat /\ traffic \in Nat /\ started \in Nat
  /\ at \in [PCs -> AtStates]
  /\ cmd \in [PCs -> CmdStates]
  /\ nsem \in [PCs -> Nat] /\ nwg \in [PCs -> Nat]
  /\ DOMAIN kid = PCs /\ \A i \in PCs : \A k \in DOMAIN kid[i] : kid[i][k] \in KidStates
  /\ DOMAIN built = Sites /\ DOMAIN work = Sites /\ DOMAIN targets = Sites
  /\ \A s \in Sites : targets[s].status \in {"empty", "probed", "skipped", "cancelled"}

LiveSSH == Cardinality({i \in PCs : cmd[i] = "running"})
           + Cardinality(UNION {{<<i, k>> : k \in {q \in Kids(i) : kid[i][q] = "running"}}
                                : i \in PCs})

(* README.md:92 and NOSANA_DISCOVERY.md:67, "bounded concurrency": at no   *)
(* moment are there more ssh processes than the two semaphores multiply    *)
(* to, whichever goroutines were cancelled, skipped or failed on the way.  *)
SSHBound == /\ LiveSSH <= MaxTargets * MaxNested
            /\ \A i \in PCs : Cardinality({k \in Kids(i) : kid[i][k] = "running"}) <= MaxNested

(* wg.Wait is a barrier: when Detect returns every configured PC has its   *)
(* verdict in its own slot (skipped, cancelled or probed with a report for *)
(* each of its runtimes), no goroutine is left that could still write, and *)
(* the summary describes the slots the caller is given.                    *)
CompleteReport ==
  main = "returned" =>
    /\ \A i \in PCs : /\ at[i] = "done"
                      /\ targets[i].pc = i
                      /\ targets[i].status # "empty"
                      /\ targets[i].status = "probed" =>
                           [r \in DOMAIN targets[i].runtimes |-> targets[i].runtimes[r].type]
                             = Runtimes[i]
    /\ summary.counts = Summarize(targets)

(* The traffic of a report never leaves out an ssh session that took       *)
(* place, also when it was killed half-way; without a cancellation it      *)
(* counts each exactly once.                                               *)
TrafficConservative ==
  main = "returned" => /\ summary.sessions >= started
                       /\ ~ctxDone => summary.sessions = started

(* Where a Nosana host really is: an accepted container that is not the    *)
(* wrapper of another accepted one.                                        *)
InnerHosts(s, k) ==
  IF IncludeNested /\ Listing[s]["docker"][k].id # 0
  THEN {n \in DOMAIN Listing[s]["docker"][k].inner :
          Listing[s]["docker"][k].inner[n].name \in Accepts[s]}
  ELSE {}

Demoted(s, rt, k) == rt = "docker" /\ Listing[s][rt][k].wrapper /\ InnerHosts(s, k) # {}

RuntimesAt(s) == IF s = 0 THEN LocalRuntimes
                 ELSE {Runtimes[s][r] : r \in DOMAIN Runtimes[s]}

OuterHosts(s, rt) == {k \in DOMAIN Listing[s][rt] :
                        Listing[s][rt][k].name \in Accepts[s] /\ ~Demoted(s, rt, k)}

TrueHosts ==
  (UNION {UNION {{<<s, rt, k, 0>> : k \in OuterHosts(s, rt)} : rt \in RuntimesAt(s)} : s \in Sites})
  \cup (UNION {UNION {{<<s, "docker", k, n>> : n \in InnerHosts(s, k)}
                      : k \in DOMAIN Listing[s]["docker"]}
               : s \in {t \in Sites : "docker" \in RuntimesAt(t)}})

(* HUB_MONITOR.md, "Runtime wrapper containers ... should not inflate the  *)
(* Nosana host count": whatever failed on the way, the summary never       *)
(* counts more hosts than there are.                                       *)
HostsNotInflated ==
  main = "returned" => summary.counts.nosanaHosts <= Cardinality(TrueHosts)

(* A wrapper steps back only for a host that is listed in its place: every *)
(* accepted container of a listed runtime still stands for a host in the   *)
(* report, itself or through one inside it, whatever its nested probe did. *)
NoHostLost ==
  main = "returned" =>
    \A s \in Sites : \A r \in DOMAIN targets[s].runtimes :
      \A k \in DOMAIN targets[s].runtimes[r].containers :
        LET c == targets[s].runtimes[r].containers[k]
        IN  c.name \in Accepts[s] => ContainerHasMatch(c)

HostKey(p) == LET c == ContainerAt(targets, p) IN <<p[1], c.name, c.id>>

(* HUB_MONITOR.md:31, "one row per discovered Nosana host container": no   *)
(* container of a machine is listed as a host twice.                       *)
OneRowPerHost ==
  main = "returned" =>
    \A p, q \in HostPositions(targets) : HostKey(p) = HostKey(q) => p = q

(* The containers of runtime r of target s stand for what runs there. *)
SameAsListed(s, r) ==
  LET rep == targets[s].runtimes[r]
      raw == Listing[s][rep.type]
  IN  /\ rep.available
      /\ Len(rep.containers) = Len(raw)
      /\ \A k \in DOMAIN raw : \E q \in DOMAIN rep.containers :
           LET c == rep.containers[q]
           IN  /\ c.name = raw[k].name /\ c.id = raw[k].id
               /\ c.matched = (raw[k].name \in Accepts[s] /\ ~Demoted(s, rep.type, k))
               /\ rep.type = "docker" => HasNestedMatch(c) = (InnerHosts(s, k) # {})
      /\ \A p, q \in DOMAIN rep.containers :
           LET c == rep.containers[p]
               d == rep.containers[q]
           IN  p < q => /\ ContainerHasMatch(d) => ContainerHasMatch(c)
                        /\ ContainerHasMatch(c) = ContainerHasMatch(d) => c.name <= d.name

(* When no command fails, the report says exactly what runs on the         *)
(* machines, in whatever order the nested probes came back: demotion and   *)
(* sorting see all of their answers, and the host count is the true one.   *)
ReportIsTruth ==
  main = "returned" /\ ~ctxDone /\ reliable =>
    /\ \A i \in HasSSH : targets[i].status = "probed"
    /\ \A i \in HasSSH : \A r \in DOMAIN targets[i].runtimes : SameAsListed(i, r)
    /\ HasSSH = PCs => summary.counts.nosanaHosts = Cardinality(TrueHosts)

(* With a deadline Detect answers, although remote commands may hang and   *)
(* every semaphore may be taken when the deadline comes.                   *)
DetectReturns == <>(main = "returned")

(* Detect implements the bounded fan-out over the configured PCs. *)
PCFanOut == INSTANCE FanOut WITH
              Jobs    <- PCs,
              Limit   <- MaxTargets,
              running <- Holders,
              settled <- {i \in PCs : at[i] \in {"exit", "done"}},
              closed  <- main = "returned"

ImplementsFanOut == PCFanOut!Spec
=============================================================================
