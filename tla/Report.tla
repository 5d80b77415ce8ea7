------------------------------- MODULE Report -------------------------------
(***************************************************************************)
(* The pure part of internal/nosana: what a runtime's container list       *)
(* becomes on its way into a Report.                                       *)
(*                                                                         *)
(* A container is a record                                                 *)
(*   [name, id, wrapper, matched, nested]                                  *)
(* where name and id are the ranks of the lower-cased name and of the ID   *)
(* in their string orders (only their order and their equality matter; id  *)
(* 0 is the empty ID), wrapper is looksLikeRuntimeWrapper of its name and  *)
(* image, matched is the matcher's verdict and nested is the list of the   *)
(* containers found inside it.  The two parsers never fill Nested, so a    *)
(* nested container has no list of its own and the recursion of            *)
(* hasNestedMatch, sortContainers and addContainerSummary is one level     *)
(* deep.                                                                   *)
(***************************************************************************)
EXTENDS FiniteSets, Integers, Sequences, SequencesExt

---------------------------------------------------------------------------
(* Matching and demotion. *)

HasNestedMatch(c) == \E n \in DOMAIN c.nested : c.nested[n].matched

ContainerHasMatch(c) == c.matched \/ HasNestedMatch(c)

(* Mutant of DemoteRuntimeWrappers: nobody is demoted. *)
DemoteNobody(containers) == containers

(* Mutant of DemoteRuntimeWrappers: also wrappers without a host inside. *)
DemoteEveryWrapper(containers) ==
  [k \in DOMAIN containers |->
     [containers[k] EXCEPT !.matched = @ /\ ~containers[k].wrapper]]

(* A matched wrapper with a matched container inside is not counted itself. *)
DemoteRuntimeWrappers(containers) ==
  [k \in DOMAIN containers |->
     LET c == containers[k]
     IN  [c EXCEPT !.matched = c.matched /\ ~(c.wrapper /\ HasNestedMatch(c))]]

---------------------------------------------------------------------------
(* sortContainers: relevant containers first, then by name, then by ID.    *)
(* sort.SliceStable keeps equal elements in their old order, so an element *)
(* goes to the position given by how many elements precede it.             *)

Before(a, b) ==
  \/ a.relevant /\ ~b.relevant
  \/ /\ a.relevant = b.relevant
     /\ a.name < b.name \/ (a.name = b.name /\ a.id < b.id)

Precedes(keys, i, j) ==
  Before(keys[i], keys[j]) \/ (~Before(keys[j], keys[i]) /\ i < j)

RankOf(keys, j) == Cardinality({i \in DOMAIN keys : Precedes(keys, i, j)})

StableSort(s, keys) ==
  [k \in DOMAIN s |-> s[CHOOSE j \in DOMAIN s : RankOf(keys, j) = k - 1]]

SortKey(c, relevant) == [relevant |-> relevant, name |-> c.name, id |-> c.id]

SortNested(nested) ==
  StableSort(nested, [k \in DOMAIN nested |-> SortKey(nested[k], nested[k].matched)])

SortContainers(containers) ==
  LET inner == [k \in DOMAIN containers |->
                  [containers[k] EXCEPT !.nested = SortNested(@)]]
  IN  StableSort(inner, [k \in DOMAIN inner |->
                           SortKey(inner[k], ContainerHasMatch(inner[k]))])

---------------------------------------------------------------------------
(* Reports and their summary. *)

RuntimeReport(type, available, containers) ==
  [type |-> type, available |-> available, containers |-> containers]

(* Positions <<slot, runtime, container, nested>> of everything listed in a *)
(* report; the last coordinate is 0 for a container itself.                 *)
Positions(targets) ==
  UNION {UNION {UNION {{<<t, r, k, n>> : n \in 0 .. Len(targets[t].runtimes[r].containers[k].nested)}
                       : k \in DOMAIN targets[t].runtimes[r].containers}
                : r \in DOMAIN targets[t].runtimes}
         : t \in DOMAIN targets}

ContainerAt(targets, p) ==
  LET c == targets[p[1]].runtimes[p[2]].containers[p[3]]
  IN  IF p[4] = 0 THEN c ELSE c.nested[p[4]]

HostPositions(targets) == {p \in Positions(targets) : ContainerAt(targets, p).matched}

TargetHasNosanaHost(target) ==
  \E r \in DOMAIN target.runtimes :
    \E k \in DOMAIN target.runtimes[r].containers :
      ContainerHasMatch(target.runtimes[r].containers[k])

(* targets[0] is the local target, the others are configured. *)
Summarize(targets) ==
  [ targetsScanned    |-> Cardinality(DOMAIN targets),
    pcCount           |-> Cardinality({t \in DOMAIN targets :
                                         t > 0 \/ TargetHasNosanaHost(targets[t])}),
    runtimesAvailable |-> Cardinality(UNION {{<<t, r>> : r \in
                              {q \in DOMAIN targets[t].runtimes :
                                  targets[t].runtimes[q].available}}
                              : t \in DOMAIN targets}),
    containersSeen    |-> Cardinality(Positions(targets)),
    nosanaHosts       |-> Cardinality(HostPositions(targets)) ]

---------------------------------------------------------------------------
(* runtimesForPC: the runtimes to probe, in order, from the configured      *)
(* words.  "auto" stands for the empty word too, "other" for any word the   *)
(* switch does not know.                                                    *)
RuntimeWords == {"auto", "docker", "podman", "other"}

ExpandRuntime(word) ==
  CASE word = "auto"              -> <<"docker", "podman">>
    [] word \in {"docker", "podman"} -> <<word>>
    [] OTHER                      -> <<>>

(* Mutant of RuntimesForPC: the words are added to the default pair. *)
RuntimesOnTopOfDefault(words) ==
  <<"docker", "podman">> \o FlattenSeq([k \in DOMAIN words |-> ExpandRuntime(words[k])])

RuntimesForPC(words) ==
  LET chosen == FlattenSeq([k \in DOMAIN words |-> ExpandRuntime(words[k])])
  IN  IF chosen = <<>> THEN <<"docker", "podman">> ELSE chosen
=============================================================================
