# GridLens in TLA+

Models of the parts of GridLens that several actors share: one discovery pass
over all PCs, the config file, the LAN scan, the traffic meter, the page of the
Hub, and the WireGuard discovery. TLC checks them on small instances; TLAPS
proves every safety and action property of the passing runs, and all three
refinements, for every value of the constants. Line numbers refer to this commit.

## 1. The system

GridLens is one Go program (a CLI and a local HTTP Hub) and one web page.

| component | state it keeps | operations | talks to |
|---|---|---|---|
| nosana discovery (`internal/nosana`) | report slots, two semaphores, two wait groups, a traffic counter | `Detect`: probe the hub's runtimes, then one goroutine per PC, and under it one per docker container | ssh and docker through the command runner; called by the Hub and `gridlens nosana` |
| command runner (`internal/execx`) | none | `Run`, `LookPath` under a context | the operating system |
| config store (`internal/config`, handlers, `pc` commands) | one JSON file | load, add/update, remove, bulk add, save | handlers run concurrently, commands are other processes |
| LAN scan (`internal/network/scan.go`, `handlePCScan`) | a channel of jobs, a channel of results, a wait group | expand a CIDR, dial ports, collect, estimate traffic | the meter |
| address specs (`internal/network/address_specs.go`) | none | parse and expand what the Config form is given | bulk add |
| traffic meter (`internal/hub/traffic.go`) | events of a 60 s window | `AddSample`, `Snapshot` | discovery and scan requests |
| monitor UI (`hub/static/app.js`) | view, timers, loading flags, last report, config dialog, scan memory, localStorage | refresh, scan, load and save the config, change of screen, tab hidden/shown, tables and cards of a report | the Hub over HTTP |
| hub server (`hub/server.go`) | config path, clock, meter | routes; deadlines for discovery and scan | all of the above |
| WireGuard ownership, doctor, setup plan | none; reads the system | classify `glwg0`, print a plan | wg, files |
| dependency detection (`internal/deps`) | none | which commands, which package manager, which family of systems | the WireGuard discovery |
| CLI front end (`internal/cli`) | none | parse arguments, run one operation, print | all of the above but the page |

How they interact: the page polls `/api/nosana`; each poll loads the config,
runs one `Detect` under a deadline and puts its traffic in the meter. Polls of
several tabs, LAN scans and bulk saves run at the same time in the Hub, `pc`
commands in other processes, and they share the config file and the meter.

### What is hard here

- *Interleavings.* PC goroutines, nested probes, the calling goroutine and the
  deadline; handlers that load, change and save one file without a lock; two
  screens that share a button, a report and two timers.
- *Deadlines.* A command is killed, or refused before it starts; a goroutine may
  see the deadline before it has a slot, in the select, or while it probes.
- *Partial failure.* A nested probe that fails leaves no trace; an error in the
  second network ends a scan whose first network was already dialed; a save may
  be cut off after the file was truncated.
- *Several readings of one thing.* Four views walk through one report, each with
  its own rules of what to leave out; a page shows a report and a list of PCs
  that others change meanwhile.
- *Order.* Demotion and sorting need all nested answers; meter samples arrive
  with times out of order and a wall clock may be set back; answers to the page
  overtake each other.

### What makes each part correct

- Discovery: one verdict per PC in its own slot, taken when no goroutine can
  still write; bounded ssh processes; an answer by the deadline; hosts neither
  lost, doubled nor inflated; traffic that leaves out no session.
- Config: requests one after the other behave like one register; overlapping
  ones at least never work on a half-written list or make a name ambiguous.
- Address specs: exactly the addresses the user means, or an error; never more
  than the limit for one item.
- Scan: always ends, complete if in time, and its traffic covers its dials.
- Meter: keeps everything of the window, shows a report its own traffic, and
  finds the true peak.
- Page: only the screen in use polls, nothing stays disabled or stuck, newer
  data of a screen is not replaced by older, and every change comes to be shown
  unless all answers are errors.
- Views of a report: the fleet table, the cards, the candidates and the command
  line show the same hosts, as many as the summary counts.
- WireGuard: `glwg0` is planned only where it was free, or could not be seen in two
  ways, and taken for GridLens' own only where it was marked, whatever changes while
  the machine is read and whichever reads fail.

## 2. Modules

| module | models | state and actions |
|---|---|---|
| `FanOut` | abstract: what a bounded fan-out promises | jobs are `running`, `settled`; the caller is answered (`closed`) |
| `Report` | pure part of `detect.go`: demotion, stable sort, summary, `runtimesForPC` | operators only |
| `Detect` | `nosana.Detect` | see below |
| `DetectProofs` | theorems about `Detect`: types, completeness, refinement, ssh sessions | - |
| `ReportProofs` | theorems about what `Detect` reports and `ReportViews` shows of it | - |
| `ReportViews` | the views of a report: `collectFleetRows`, `sortedTargets` and `renderTarget`, `candidateStatus` of `app.js`, the listing of `nosana detect` | operators on `Detect`'s targets |
| `MCDetect` | small worlds of containers | - |
| `AddressSpecs` | pure part of `internal/network`: expansion of items and prefixes, ports, local CIDRs | operators only; used by `ConfigStore` and `ScanPool` |
| `AddressProofs` | theorems about `AddressSpecs`: powers of two, prefixes, lists in order, what a text is parsed to | - |
| `ConfigRegister` | abstract: a config that each request changes in one step | `Commit`, `Refuse` |
| `ConfigStore` | the file and everyone who loads and saves it | parse and load, the loop of `handleBulkPCs`, `OpenFails`, `OpenFile` (truncate), `WriteFile`, `WriteFails`, `Kill` |
| `ConfigProofs` | theorems about `ConfigStore` | - |
| `MCConfigStore` | small scenarios of requests | - |
| `ScanPool` | `handlePCScan`, `pc scan` and `ScanCIDR` | `HandOut` is the meeting of `jobs <- ip` with a worker; `GiveUp` is ctx.Done in the same select |
| `ScanProofs` | theorems about `ScanPool` | - |
| `MCScanPool` | small networks | - |
| `TrafficMeter` | `trafficMeter` and its callers | clock readings, `AddSample`, `Snapshot`, clock ticks and set-backs |
| `MeterProofs` | theorems about `TrafficMeter` | - |
| `WireGuard` | `Discover`, the setup plan, the doctor | one action per read of the machine, `Change` for what others do in between |
| `WireGuardProofs` | theorems about `WireGuard` | - |
| `MCWireGuard` | two commands, one other interface, two package managers | - |
| `MonitorProofs` | theorems about `Monitor`: the screen, and the requests behind it | - |
| `Monitor` | `app.js` with the Hub and the other clients | the page as one record; each action is a click, a timer, a browser event, the moment the Hub reads or saves for a request, or an answer, with the whole handler that runs then |

**Detect.** The calling goroutine is `main`; `at[i]` is where the goroutine of
PC `i` is, from `idle` through the select, host name, lists and nested probes to
`done`; `kid[i][k]` is the same for the probe of container `k`. `sem`/`wg` and
`nsem`/`nwg` are the buffered channels and wait groups. A container list is data
(`Listing`), a name is a rank in the order `sortContainers` uses, the matcher is
the set of names it accepts, and a container's ID 0 is the empty ID. A command
that is running may end well or badly at any time or never; one issued after the
deadline is refused. The host name itself, images and states are text and left
out. Whether the world is one where commands only fail because of the deadline
(`reliable`) is chosen at the start. Of the demoting and sorting helpers one
level of nesting is modelled, because both parsers leave `Nested` empty.

**ReportViews.** A row of a view is the position of a container in the report:
target, runtime, container and, if any, nested container. `FleetRows`, `CardRows`
and `ListedRows` are sets of such positions, `Dimmed` is the verdict on a LAN
candidate. What a row says of its container is text. The views are looked at when
`Detect` has returned, whatever failed on the way.

**AddressSpecs.** An address is a number of `Width` bits, and its last octet the
last `OctetBits` of them, so that a whole address space can be checked. An item
of the Config form is a single address, a range by last octet, a full range, a
CIDR, or something the parsers refuse. What the loops and the sort yield is
stated as a sequence. `Usable` and `Meant` say a second time, as sets, what the
result should be, for the properties. The loop of `expandRangeSpec` is modelled
with its counter, which is as wide as an address: `Rounds` is how often it goes
round before it breaks or its condition fails.

**ConfigStore.** A scenario, chosen at the start, says who asks for what, whether
savers wait for each other (`serial`) and whose process may be killed or use of the
file fail: the load (`LoadFails`), the save before it has touched the file
(`OpenFails`), or after it has emptied it (`WriteFails`). A bulk request
carries items and a limit; it is parsed before the file is loaded, and a bad text
is refused there. `os.WriteFile` is two steps: open with truncation, then one
write at offset 0. The file is absent, broken, or holds a list; sizes are kept
only to tell which of two overlapping texts is longer. A PC is a name, an
address and an ssh user.

**ScanPool.** A query has a CIDR, or else the networks of the interfaces are
scanned, each one once, in any order (the code sorts them by text). Ports are
dialed one after the other by the worker that holds the address. Whether no dial
times out is chosen at the start. The order of the answer by address text is left
out. A query is made by the Hub or by `gridlens pc scan`, whose loop is the same
but has no deadline and no meter. A worker whose result finds the channel full
waits; the channel is read only when all workers have left.

**TrafficMeter.** Samples keep who added them, when they began and ended, and an
average rate in whole bytes per `Scale` units. The two directions of traffic,
which are summed the same way, are one number. Times are integers, and
`Second` is how many of them the second is that `AddSample` takes for an event whose
clock has not advanced.

**Monitor.** What the Hub would report is one number, `version`, that grows with
every change of the config or of the fleet, by this page (`ServeSave`) or by
anybody else (`Change`). A fetch under way is a record in `flight`; the Hub reads
the version for it at some moment (`ServeRead`), and the answer, or an error,
arrives later and in any order. `lastReport`, `fleetRows` and the list in the
dialog (`listed`) are the versions they were made from, so "older" and "newer" can
be told. While the dialog is open it keeps clicks from the screen behind it, but
not timers, answers or a new hash. Wording, sorting and themes are left out.

**WireGuard.** Each command makes one discovery and one report; plan and checks
are operators on what was read. The file is read once and is missing, marked,
unmarked or unreadable; `glwg0` may also be an interface of another kind, which
only the kernel knows. Three reads may fail: wg, the file, and the look at the kernel
(`InterfaceExists`), which takes place only if wg has not listed `glwg0` and whose
errors the code does not tell from "no such interface"; `probeFailed` remembers such
an error. The os-release names a known family, is like one, names
another or is missing; the package manager is the first known one found. `past` remembers what the machine has
been like since the pass began.

`Detect` and `ScanPool` both implement `FanOut` (`ImplementsFanOut` in each);
`ConfigStore` implements `ConfigRegister` (`ImplementsRegister`).

## 3. Runs

| run | instance | what it shows |
|---|---|---|
| detect_carrier | 2 PCs and the hub, default concurrency, containers in containers, cancellable | `TypeOK`; `CompleteReport`; `TrafficConservative`; `HostsNotInflated`, `NoHostLost`, `OneRowPerHost`; in a reliable world `ReportIsTruth`; `ViewsAgree` |
| detect_fleet | 3 PCs, 2 slots, 1 nested slot, fair | `SSHBound`, `DetectReturns`, `ImplementsFanOut` |
| detect_both | 1 PC with runtimes auto and docker | *violation* of `OneRowPerHost` |
| config_requests | 5 requests in turn; bulk, add, remove, read at once with cut-off saves; every kind of bulk text alone | `ImplementsRegister`; `NamesUnique`, `BulkKeepsAndStores`, `BulkStoresNothingElse`, `BulkUpdatesInPlace`, `LoadsAreWhole`, `BrokenOnlyByOverlap` |
| config_lost | bulk and add at once | *violation* of `AckedPCsKept` |
| config_misnamed | one bulk request, a PC with another address's automatic name | *violation* of `BulkKeepsAndStores` |
| scan_request | Hub and command line: a CIDR of any length, or 2 networks, 2 nested ones, none; 2 workers, fair | `ReportedOncePerNetwork`, `AnswerIsComplete`, `EstimateCovers`, `ScanReturns`, `ImplementsFanOut` |
| scan_abandoned | one network, a deadline | *violation* of `EveryDialMetered` |
| meter_three | 2 discoveries and a scan, clock set back | `TypeOK`, `WindowKept`, `OwnTrafficShown`, `PeakIsHighest` |
| page_events | clicks, timers, tab switches, the dialog, other clients, one reload, fair | `TypeOK`, `OnlyActivePolls`, `RefreshNotStuck`, `AutoScanOnce`, `OrderLostOnlyAcross`, `ListLostOnlyOvertaken`, `ScreenStaysLive`, `SavesEnd`, `ChangesAreShown` |
| page_hidden | a page opened in a background tab | *violation* of `HiddenIsQuiet` |
| wireguard_pass | every machine with 2 commands, 1 other interface and 2 package managers, 2 changes | `CreateOnlyIfFree`, `OwnedOnlyIfMarked`, `StillMachineIsRight`, `DoctorAgreesWithSetup` |

Every property of a passing run has a mutant: an operator next to the definition
it replaces, named in its comment, that breaks the property under the same cfg.

### Bounds, and why they are enough

- **Detect.** PCs interact only through `sem`, `wg` and the moment of return, so
  three PCs for two slots show waiting, overtaking and cancelling in the select.
  Each PC's world is a different one of the cases of the report code: a wrapper
  with a host and a stranger inside, an accepted wrapper with no host inside, a
  wrapper that is not accepted, a container without an ID, an empty list. Three
  containers in a list are enough for two probes to overtake each other and for
  the stable sort to have equal and unequal neighbours. `MaxListed = 8` only
  bounds the quantifier of the fairness formula; no list of the instances is
  longer than 3.
- **AddressSpecs.** 16 addresses in octets of 4: all ranges, all CIDRs of length 1
  to 4 (a /32 has no host, a /31 one), last octets below, inside and above the
  octet, each alone and after a single address, with a limit and with the default
  one. The last address of the space is among them. Length 0 is left out, which
  differs from length 1 only in size. A range that ends at the last address shows
  what becomes of the counter.
- **ConfigStore.** Lost updates, overwriting in place and truncation need two
  savers; a third client and a reader show who can see what. The initial lists
  hold PCs with chosen names, with automatic names, and an absent file.
- **ScanPool.** Two workers and two hosts per network show waiting for a worker,
  a worker that leaves early and the last address handed out after the deadline;
  two networks show that nothing is left over from one to the next. `MinOnes` = 2
  and `MaxHosts` = 3 stand for 24 and 1024: a local network is never too large, a
  CIDR that was given may be. The interfaces include all that the code leaves out.
- **WireGuard.** Two changes are enough to undo and redo each thing that is read
  between its reads; all 1536 machines are starting points.
- **TrafficMeter.** A window of one unit, which is the second, and a clock from 0 to `MaxTime` = 2 put
  events before, across and inside the window, in three overlapping requests.
  `Scale` is a multiple of every duration, so rates are exact.
- **ReportViews.** The worlds of detect_carrier: podman inside docker next to a
  podman that answers, that does not, or was never asked, on the hub and on a PC.
  Every target has an address of its own.
- **Monitor.** `MaxChanges` = 1: changes after the first one are not told apart, so
  there is an older and a newer state. `MaxLoads` = 1: a list that was asked for can
  be overtaken by a save; with two loads under way at once they could also overtake
  each other, with the same effect. `MaxReloads` = 1. `user` splits the run in two,
  with the same actions of the Hub, the timers and the screens in both: a user who
  scans and reloads, or one who uses the dialog, on a page that has scanned before.
  The number of other fetches is bounded by the flags of the code.

### Fairness

- Goroutines that can go on do (weak fairness of each one's own steps): the Go
  scheduler runs them. A goroutine that waits for a channel, a wait group or a
  process is not assumed to get it.
- `Detect`: the deadline comes (`Cancel`; the Hub uses a timeout for each
  discovery), and after it, but not before, a command ends: `CommandContext`
  kills it. This takes for granted that `ssh` leaves no child that keeps the
  output pipes open, since the code sets no `WaitDelay`.
- `ScanPool`: dials have a timeout of their own, so nothing about the deadline is
  assumed.
- `Monitor`: a timer that is set fires, and for each kind of fetch an answer or
  an error arrives, as the Hub has a deadline for every slow request. Nothing is
  assumed of the user. `ChangesAreShown` is about the last report a screen was given,
  in whose place an error shows its message until the next answer; it has a premise
  of its own: not every answer
  for the screen the user stays on is an error from some time on.

### Disagreements found

1. `detect.go:171`: runtimes `auto` and `docker` list docker twice, and each of
   its hosts is counted and shown twice; docs/HUB_MONITOR.md:31 says one row per
   host container (run detect_both).
2. `server.go:136`: two overlapping changes of the config are both acknowledged
   and one is lost (run config_lost).
3. `server.go:154`: the map of known addresses is not kept up in the loop, so a
   bulk request can overwrite the PC it has just added and still report success
   (run config_misnamed). It takes a PC that bears the automatic name of another
   address, which `pc add` allows.
4. `server.go:272`: a scan that ends with its deadline or its client drops the
   traffic it has caused;
   docs/HUB_MONITOR.md:87-93 says port checks are included (run scan_abandoned).
5. `app.js:114`: a page opened in a background tab polls although it is hidden;
   docs/HUB_MONITOR.md:39-41 says all polling stops (run page_hidden).
6. `wireguard/discovery.go:98`: an error of the look at the kernel is taken for "no
   such interface". Where wg did not list `glwg0` either, because it is missing or
   fails or the interface is of another kind, an existing `glwg0` without a config is
   planned to be created; docs/WIREGUARD_PRIVATE_REMOTE_MODE.md:16-18 says GridLens
   must refuse to modify it. As long as the program only prints its plan nothing
   comes of it, so this has no run that expects a violation: `CreateOnlyIfFree` and
   `StillMachineIsRight` name the case (`Unseen`) and show that it is the only one.

`OneRowPerHost`, `BulkKeepsAndStores` and `HiddenIsQuiet` (as a part of
`OnlyActivePolls`) also hold in a passing run, in which the one circumstance that
breaks them does not occur.

## 4. Proofs

`DetectProofs` proves, for every number of PCs, every bound, every list of
runtimes and every world of containers, with or without a deadline:

- `TypeCorrect`: `Spec => []TypeOK`. The part worth proving is that no semaphore
  and no wait group ever goes below zero.
- `ReportComplete`: `Spec => []CompleteReport`.
- `DetectImplementsFanOut`: `Spec => ImplementsFanOut`.

Assumptions: `SizeAssumption`, `FlagAssumption` and `WorldAssumption` of
`Detect`: sizes are numbers, flags Boolean, configured runtimes are docker and
podman, and a container list is a sequence of containers, each with a sequence of
containers inside.

None of the three invariants is inductive. `TypeOK` says nothing of why `sem` is
above zero when a goroutine gives its token back. `DetectInv` adds:

- `Counted`: `sem` is the number of goroutines between send and receive, `wg`
  the number of those that were started and have not ended;
- `NestedCounted`: the same for the nested probes of each PC, and that there are
  none outside `addRemoteNestedPodman`;
- `Phase`: nobody is under way before the first `go` or after the return, and
  the summary was taken from the slots as they are now;
- `PCInv(i)`: a goroutine that probes has reported its runtimes in order so far,
  and one that leaves has stored its verdict in its own slot.

Each part has its own preservation lemma with one step per action. That a
counter stays equal to a set's size is reduced to two facts about adding and
removing one element (`CardinalityStep`, `Moved`, `NestedMoved`). `CompleteReport`
follows when `wg = 0` makes the set of active goroutines empty. For the
refinement each action is a step of `FanOut` (`Acquire`: Begin, `CancelTarget`:
Drop, `Release`: Settle, `Return`: Close) or a stutter.

Two more theorems are about ssh sessions, under the same assumptions:

- `ProcessesBounded`: `Spec => []SSHBound`. `Bounded` says that no semaphore is
  overfull and that a PC waits for a process of its own only where it has no nested
  probes; with `Counted`, a PC that has a process holds a token, and it has one
  process or at most as many as its nested semaphore admits. The sum over the PCs is
  bounded by an injection of the pairs of PC and container into a product
  (`TaggedUnion`).
- `TrafficIsConservative`: `Spec => []TrafficConservative`. `TrafficInv` keeps the
  account while probes are under way: every session that was started has been counted
  or is one that somebody (`Own`, `Deep`) still waits for, and before the deadline
  nobody waits for anything else. At the return nobody waits.

`ReportProofs` proves what a report says, under the same assumptions and for every
order in which the nested probes end:

- `NoneLost`: `Spec => []NoHostLost`.
- `NeverInflated`: `RuntimesOnce => (Spec => []HostsNotInflated)`.
- `OneRowEach`: `RuntimesOnce /\ ContainersApart => (Spec => []OneRowPerHost)`.
- `TruthIsTold`: `SSHInstalled /\ RuntimesOnce => (Spec => []ReportIsTruth)`.
- `ViewsShowTheSame`: `AddressesApart => (Spec => []ViewsAgree)`.

The hypotheses are about what is configured and what runs, and each is needed.
`RuntimesOnce`: no runtime of a PC is configured twice, in the form the program
uses (`runtimesForPC`); the run `detect_both` shows what happens otherwise.
`ContainersApart`: no two containers of a machine share both name and ID, without
which a row cannot be told from another. `AddressesApart`: no two targets share an
address; otherwise a candidate gets the status of the first of them.

The invariant is `ReportInv`: each report made so far, in whoever's hands it is, is
the sorted and demoted `Reading` of what runs on the machine, with the answers of
exactly the probes in some set `S`, and `S` is complete as long as the world is
reliable and nothing is cancelled (`Trusty`). A list that is being looked into
(`HalfRead`) is the same for the probes that have settled. From there on the proof is
about lists. `StableSort` is a permutation in the order of the keys (`RanksOrdered`,
`CameFromPermutes`), so every place of a report comes from one container
(`ShownEntries`); a row that counts as a host stands for one true host (`Origin`),
two rows never for the same one (`OriginOnce`), and when nothing failed every true
host has a row (`HostsCovered`). The counts then compare by cardinality.

`ConfigProofs` proves, for any number of clients, any requests and any files:

- `LoadsWhole`: `Spec => []LoadsAreWhole`, since the list of a readable file was
  stored (`FileWasStored`).
- `NamesStayUnique`: `Spec => []NamesUnique`, from what `AddOrUpdatePC` and
  `RemovePC` keep of any list (`AddKeepsNames`, `RemoveKeeps`); that their loops
  find a first PC of a name rests on the order of the naturals (`FirstIsNamed`).
  It needs `InitialAssumption`: the file does not start with one name twice,
  which a file edited by hand may.
- `BrokenByOverlap`: `Spec => []BrokenOnlyByOverlap`. `OneSaver` says that while
  nothing is hurt at most one client saves and the file is empty while it does,
  so that the text it writes, never shorter than nothing, is the whole file.
- `StoresNothingElse`: `Spec => []BulkStoresNothingElse`.
- `KeepsAndStores`: `NamesAreTheirs => (Spec => []BulkKeepsAndStores)`.
- `UpdatesInPlace`: `NamesAreTheirs => (Spec => []BulkUpdatesInPlace)`.
- `SerialIsRegister`: `SerialSafe => (Spec => ImplementsRegister)`.

`ConfigAssumption` only says what kinds of requests there are and that a bulk request
carries items of the five kinds and a limit. `NamesAreTheirs` says that nobody gives a PC the automatic name of another address,
neither in the file at first nor by `pc add`; the run `config_misnamed` shows what a
bulk request loses otherwise. `SerialSafe` says that the requests of a serial scenario
are not killed and do not fail on the file. `MCConfigStore` has TLC evaluate both for its scenarios. The
other theorems need neither.

What a bulk request has in its list after some rounds of the loop is said round by
round. `ClientOK`: it has the addresses that were loaded and those the loop has done,
no others, and what is left to do is the rest of the text's. `Kept`: every PC that was
loaded has its place, name and address still, the others stand behind them under the
automatic names of addresses that were not there, and there are as many of them as
`added` says. `KeptNext`, that one more round keeps it so, is where names matter: a PC
the loop finds by name is then the one of that address (`OwnLists`), so the map of
known addresses need not be kept up.

For the register, a request is under way alone (`SerialTurns`), the list of the
register is the one it loaded until it has written (`SerialLoads`, `CurrentIs`), and
what it is going to write is what the request as a whole makes of that
(`SerialEffects`). For a bulk request the latter goes by the lists of `BulkEffect`, one
for each round (`ListsGrow` shows that there are such lists); for a remove it is
`RemoveIsWithout`. `Read` and `WriteFile` are then `Commit`, each refusal is `Refuse`,
and all other steps change nothing the register shows, `OpenFile` included.

`MonitorProofs` proves, for any number of changes, loads and reloads:

- `ActivePolls`: `Spec => []OnlyActivePolls`, if the page is not opened in a
  background tab (the case the run `page_hidden` refutes).
- `RefreshComesBack`: `Spec => []RefreshNotStuck`.
- `ScansOnceByItself`: `Spec => []AutoScanOnce`.

- `FlagsAreRequests`: `Spec => []TypeOK`, whose hard part is that each loading,
  scanning or saving flag stands for one request that is under way.
- `ReportsInOrder`: `Spec => OrderLostOnlyAcross`.
- `ListsInOrder`: `Spec => ListLostOnlyOvertaken`.

The handlers are operators from page to page, so the invariant `PageInv` is
preserved handler by handler; most of them change no field it speaks of (`Same`).
What `AutoScanOnce` needs besides is that a scan the page started by itself is
remembered in the page and, for reloads, in the storage (`ScansOK`). The last three
rest on `RequestInv`: requests of one kind have different numbers, each screen has
one under way just when its flag is set (`OneEach`), a save goes on as long as its
request or the refresh it awaits (`SaveOK`), and an answer that was read and not
overtaken is not older than what it will replace on its screen (`OrderOK`).

`WireGuardProofs` proves, for any number of commands, of other interfaces and of
changes, and any list of package managers, under `WireGuardAssumption` (`wg` is among the
commands, no other interface is called `glwg0`, and the package managers are looked
for in an order that begins with apt-get, as `deps/detect.go:81` does):

- `TypeCorrect`: `Spec => []TypeOK`.
- `CreatesOnlyIfFree`: `Spec => []CreateOnlyIfFree`.
- `OwnsOnlyIfMarked`: `Spec => []OwnedOnlyIfMarked`.
- `DoctorAndSetupAgree`: `Spec => []DoctorAgreesWithSetup`.
- `StillMachineIsPlannedRight`: `Spec => []StillMachineIsRight`.

The first two safety properties speak of a finished report and of what the
machine was like at some time since the pass began. They follow from `Evidence`:
what a pass has read so far was true of the machine at some moment in `past`,
whatever has changed since, or else the read has failed; and where wg has not listed
`glwg0`, it failed or there was a moment when it could not have (`Unlistable`).
`Change` only adds to `past`
(`ChangeKeepsEvidence`), and each read adds evidence about the machine of that
moment.

For `StillMachineIsRight` the evidence is all about one and the same machine: there
`glwg0` is found exactly if it exists and the look at the kernel did not fail
(`ReadRight`).

`MeterProofs` proves, for any requests, scans, window, scale and clock
(`MeterAssumption`: rates are exact in `Scale`, a second lasts):

- `EventsLast`: `Spec => []TypeOK`. Every event lasts and has a positive rate, also
  when the clock was set back while its request worked.
- `WindowIsKept`: `Spec => []WindowKept`, and `ReportShowsOwnTraffic`:
  `Spec => []OwnTrafficShown`.
- `PeakIsTheHighest`: `Spec => []PeakIsHighest`.

`MeterInv` says where each event came from and which of those that were added may
have been trimmed. That the loop of `trimLocked` keeps exactly the events of the
window, each once, follows round by round (`Slices`). The peak is proved for any list
of events: the rate is a sum over sets of positions (`RateSums`) that grows with the
set, and the last beginning before a time, or the beginning of the window, is a point
where at least the same events go on (`PointAsHigh`).

`AddressProofs` proves `ParsesWhatIsMeant`, for any width, limits and items: a text
that is not refused is parsed to the addresses its items mean (`Meant`), each once and
in order; no item is bad and none but a single address has more hosts than the limit.
The parts are `RangeIs` (the loop of `expandRangeSpec` with its counter as wide as an
address, which ends in time also at the last address there is, by `RoundsAre`),
`OctetRange`, `CIDRIs` and, for lists in order, `Enumerates`. `ConfigProofs` and
`ScanProofs` build on it.

`ScanProofs` proves, for any queries, machines, number of workers and limits, under
`ScanAssumption` (CIDRs are prefixes, ports numbers, interfaces have finitely many):

- `ScanImplementsFanOut`: `Spec => ImplementsFanOut`. `PoolInv` counts the workers
  that have not left, and says that no two of them dial the same address and that
  what was handed out was so once.
- `EstimateIsEnough`: `Spec => []EstimateCovers`. `DialsCounted` keeps the account of
  dials that were made, that a worker still has to make (`Left`), and that the
  deadline cut off.
- `HostsReportedOnce`: `Spec => []ReportedOncePerNetwork`, and `NothingIsMissed`:
  `Spec => []AnswerIsComplete`. `AnswerInv` gives each reported host a job of its own
  (`Tagged`) and each finished job that found a port its report (`Complete`). That
  distinct networks with one address in common cannot be the same block, and that a
  block's hosts are all different, is arithmetic of prefixes.

Induction is done by looking for the least number at which something fails (`Least`).

Only model-checked: liveness (`DetectReturns`, `ScanReturns`, `ScreenStaysLive`,
`SavesEnd`, `ChangesAreShown`), which is beyond the prover together with ENABLED. And
what the runs refute has no theorem, except as the hypotheses above say.

## 5. Not modelled

- The text of addresses, ports and os-release; tables of packages and which
  package brings which command; argument parsing, help, wording, routing and
  JSON: no state, or pure input and output.
- `LocalIPv4Addresses`, which names the Hub's own addresses on the page; targets
  that share an address, for which a candidate gets the status of the first one.
- Memory: `hosts` enumerates a prefix of any size before the limit is looked at.
- Of the page: wording, sort choices, themes; a change of the hash in a hidden
  tab; several tabs that share one localStorage; a localStorage that fails.
- Of the command runner: output buffering.
- Text: ssh command lines, error messages, byte sizes of a session.

## 6. Plan

What is left of the models: `ConfigStore`, `Detect` and `TrafficMeter` composed
through the handlers, which would tell which config a report was made for.
`Monitor` has this as one number already.

Theorems: for the composed module, that a report is about a config which was the
file's at some time of its request; of the config, that in any scenario, serial or not,
every acknowledged change was in the file for a moment.
