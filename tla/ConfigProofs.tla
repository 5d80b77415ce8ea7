---------------------------- MODULE ConfigProofs ----------------------------
(***************************************************************************)
(* Theorems about ConfigStore for every number of clients, whatever they   *)
(* ask for, and every list of PCs the file may hold at first.              *)
(***************************************************************************)
EXTENDS ConfigStore, AddressProofs

(* One record of state per client, and a file of one of three kinds. *)
Shape ==
  /\ scenario \in Scenarios
  /\ DOMAIN at = Clients /\ DOMAIN base = Clients /\ DOMAIN draft = Clients
  /\ DOMAIN todo = Clients /\ DOMAIN added = Clients
  /\ \/ file = Absent
     \/ \E n : file = Broken(n)
     \/ \E pcs : file = Holding(pcs)
  /\ hurt \in BOOLEAN

(* Initially nobody has loaded anything. *)
LEMMA ShapeInit == Init => Shape
  BY DEF Init, Shape

(* Every step keeps the shape. *)
LEMMA ShapeNext == Shape /\ [Next]_vars => Shape'
<1> SUFFICES ASSUME Shape, [Next]_vars PROVE Shape'
  OBVIOUS
<1> USE DEF Shape, history, Clients, Request
<1>1. ASSUME NEW c \in Clients, RefuseBulk(c) PROVE Shape'
  BY <1>1 DEF RefuseBulk
<1>2. ASSUME NEW c \in Clients, LoadFails(c) PROVE Shape'
  BY <1>2 DEF LoadFails
<1>3. ASSUME NEW c \in Clients, Read(c) PROVE Shape'
  BY <1>3 DEF Read
<1>4. ASSUME NEW c \in Clients, LoadAdd(c) PROVE Shape'
  BY <1>4 DEF LoadAdd
<1>5. ASSUME NEW c \in Clients, LoadRemove(c) PROVE Shape'
  BY <1>5 DEF LoadRemove
<1>6. ASSUME NEW c \in Clients, LoadBulk(c) PROVE Shape'
  BY <1>6 DEF LoadBulk
<1>7. ASSUME NEW c \in Clients, BulkNext(c) PROVE Shape'
  BY <1>7 DEF BulkNext
<1>8. ASSUME NEW c \in Clients, BulkReady(c) PROVE Shape'
  BY <1>8 DEF BulkReady
<1>9. ASSUME NEW c \in Clients, OpenFile(c) PROVE Shape'
  BY <1>9 DEF OpenFile, Truncated
<1>10. ASSUME NEW c \in Clients, WriteFile(c) PROVE Shape'
  BY <1>10 DEF WriteFile, Overwritten
<1>11. ASSUME NEW c \in Clients, OpenFails(c) \/ WriteFails(c) PROVE Shape'
  BY <1>11 DEF OpenFails, WriteFails
<1>12. ASSUME NEW c \in Clients, Kill(c) PROVE Shape'
  BY <1>12 DEF Kill
<1>13. CASE UNCHANGED vars
  BY <1>13 DEF vars
<1> QED
  BY <1>1, <1>2, <1>3, <1>4, <1>5, <1>6, <1>7, <1>8, <1>9, <1>10, <1>11, <1>12, <1>13
  DEF Next, AllEnded

---------------------------------------------------------------------------
(* What a load can see was stored: the list of the file, or the default    *)
(* config that stands for no file.                                         *)
FileWasStored ==
  /\ file = Absent => <<>> \in stored
  /\ file.kind = "config" => file.pcs \in stored

WholeInv == Shape /\ FileWasStored /\ LoadsAreWhole

(* The file holds the list it starts with, or none. *)
LEMMA WholeInit == Init => FileWasStored /\ LoadsAreWhole
  BY DEF Init, FileWasStored, LoadsAreWhole, Absent, Holding

(* A load that succeeds reads a list the file has held whole. *)
LEMMA ContentWasStored == Shape /\ FileWasStored /\ Loadable => Content \in stored
  BY DEF Shape, FileWasStored, Loadable, Content, Absent, Broken, Holding

(* Loads take the list of the file, and writes record the list they store. *)
LEMMA WholeNext == WholeInv /\ [Next]_vars => (FileWasStored /\ LoadsAreWhole)'
<1> SUFFICES ASSUME WholeInv, [Next]_vars PROVE (FileWasStored /\ LoadsAreWhole)'
  OBVIOUS
<1> USE DEF WholeInv, Shape, FileWasStored, LoadsAreWhole, history, Clients, Request
<1> DEFINE Goal == (FileWasStored /\ LoadsAreWhole)'
<1>1. ASSUME NEW c \in Clients, RefuseBulk(c) PROVE Goal
  BY <1>1 DEF RefuseBulk
<1>2. ASSUME NEW c \in Clients, LoadFails(c) PROVE Goal
  BY <1>2 DEF LoadFails
<1>3. ASSUME NEW c \in Clients, Read(c) PROVE Goal
  BY <1>3, ContentWasStored DEF Read
<1>4. ASSUME NEW c \in Clients, LoadAdd(c) PROVE Goal
  BY <1>4, ContentWasStored DEF LoadAdd
<1>5. ASSUME NEW c \in Clients, LoadRemove(c) PROVE Goal
  BY <1>5, ContentWasStored DEF LoadRemove
<1>6. ASSUME NEW c \in Clients, LoadBulk(c) PROVE Goal
  BY <1>6, ContentWasStored DEF LoadBulk
<1>7. ASSUME NEW c \in Clients, BulkNext(c) PROVE Goal
  BY <1>7 DEF BulkNext
<1>8. ASSUME NEW c \in Clients, BulkReady(c) PROVE Goal
  BY <1>8 DEF BulkReady
<1>9. ASSUME NEW c \in Clients, OpenFile(c) PROVE Goal
  BY <1>9 DEF OpenFile, Truncated, Broken, Absent
<1>10. ASSUME NEW c \in Clients, WriteFile(c) PROVE Goal
  BY <1>10 DEF WriteFile, Overwritten, Broken, Absent, Holding
<1>11. ASSUME NEW c \in Clients, OpenFails(c) \/ WriteFails(c) PROVE Goal
  BY <1>11 DEF OpenFails, WriteFails
<1>12. ASSUME NEW c \in Clients, Kill(c) PROVE Goal
  BY <1>12 DEF Kill
<1>13. CASE UNCHANGED vars
  BY <1>13 DEF vars
<1> QED
  BY <1>1, <1>2, <1>3, <1>4, <1>5, <1>6, <1>7, <1>8, <1>9, <1>10, <1>11, <1>12, <1>13
  DEF Next, AllEnded

(* Whatever overlaps, whoever is killed: a client that got past config.Load *)
(* works on a list that was the config at some time, never on a file a     *)
(* save had just emptied (config.go Load and Save).                        *)
THEOREM LoadsWhole == Spec => []LoadsAreWhole
<1>1. Init => WholeInv
  BY ShapeInit, WholeInit DEF WholeInv
<1>2. WholeInv /\ [Next]_vars => WholeInv'
  BY ShapeNext, WholeNext DEF WholeInv
<1>3. WholeInv => LoadsAreWhole
  BY DEF WholeInv
<1> QED BY <1>1, <1>2, <1>3, PTL DEF Spec

---------------------------------------------------------------------------
(* What AddOrUpdatePC and RemovePC (internal/config/config.go) keep of a   *)
(* list.  No assumption is made on the PCs in it.                          *)
IsList(pcs) == pcs \in Seq(ToSet(pcs))

(* Being a list does not depend on the set the PCs are taken from. *)
LEMMA SeqIsList == ASSUME NEW S, NEW pcs \in Seq(S) PROVE IsList(pcs)
<1>1. \A k \in 1 .. Len(pcs) : pcs[k] \in ToSet(pcs)
  BY DEF ToSet
<1> QED BY <1>1 DEF IsList

(* The default config has no PCs. *)
LEMMA EmptyList == IsList(<<>>) /\ UniqueNames(<<>>)
  BY DEF IsList, UniqueNames

(* A list is numbered from 1. *)
LEMMA ListIs ==
  ASSUME NEW pcs, IsList(pcs)
  PROVE  Len(pcs) \in Nat /\ DOMAIN pcs = 1 .. Len(pcs)
BY DEF IsList

(* The loops over the PCs find the first of a name where there is one.     *)
LEMMA FirstIsNamed ==
  ASSUME NEW pcs, IsList(pcs), NEW name, Named(pcs, name) # {}
  PROVE  FirstNamed(pcs, name) \in Named(pcs, name)
<1>1. Named(pcs, name) \subseteq Nat
  BY DEF IsList, Named
<1>2. PICK k \in Named(pcs, name) :
        \A j \in Named(pcs, name) : ~(<<j, k>> \in OpToRel(<, Nat))
  BY <1>1, NatLessThanWellFounded, WFMin
<1>3. ASSUME NEW j \in Named(pcs, name) PROVE k <= j
  <2>1. j \in Nat /\ k \in Nat
    BY <1>1
  <2>2. ASSUME j < k PROVE <<j, k>> \in OpToRel(<, Nat)
    BY <2>1, <2>2 DEF OpToRel
  <2>3. ~(j < k)
    BY <1>2, <2>2
  <2> QED BY <2>1, <2>3
<1>4. \E i \in Named(pcs, name) : \A j \in Named(pcs, name) : i <= j
  BY <1>2, <1>3, Zenon
<1> QED BY <1>4, Zenon DEF FirstNamed

(* AddOrUpdatePC appends a PC or replaces one. *)
LEMMA AddKeepsList ==
  ASSUME NEW pcs, IsList(pcs), NEW pc
  PROVE  IsList(AddOrUpdatePC(pcs, pc))
<1> DEFINE S == ToSet(pcs) \cup {pc}
<1>1. pcs \in Seq(S)
  BY DEF IsList
<1>2. CASE Named(pcs, pc.name) = {}
  <2>1. Append(pcs, pc) \in Seq(S)
    BY <1>1
  <2> QED BY <1>2, <2>1, SeqIsList, Zenon DEF AddOrUpdatePC
<1>3. CASE Named(pcs, pc.name) # {}
  <2>1. [pcs EXCEPT ![FirstNamed(pcs, pc.name)] = pc] \in Seq(S)
    BY <1>1, ExceptSeq, FirstIsNamed, <1>3 DEF Named
  <2> QED BY <1>3, <2>1, SeqIsList, Zenon DEF AddOrUpdatePC
<1> QED BY <1>2, <1>3

(* It appends only a PC of a new name, and replaces only one of the same. *)
LEMMA AddKeepsNames ==
  ASSUME NEW pcs, IsList(pcs), UniqueNames(pcs), NEW pc
  PROVE  UniqueNames(AddOrUpdatePC(pcs, pc))
<1>1. CASE Named(pcs, pc.name) = {}
  <2>1. \A k \in 1 .. Len(pcs) : pcs[k].name # pc.name
    BY <1>1 DEF Named, IsList
  <2>2. DOMAIN Append(pcs, pc) = 1 .. Len(pcs) + 1
    BY DEF IsList
  <2>3. \A k \in 1 .. Len(pcs) + 1 :
          Append(pcs, pc)[k] = IF k <= Len(pcs) THEN pcs[k] ELSE pc
    BY DEF IsList
  <2> QED BY <1>1, <2>1, <2>2, <2>3 DEF AddOrUpdatePC, UniqueNames, IsList
<1>2. CASE Named(pcs, pc.name) # {}
  BY <1>2, FirstIsNamed DEF AddOrUpdatePC, UniqueNames, Named
<1> QED BY <1>1, <1>2

(* RemovePC joins the PCs before the first of the name and those behind it. *)
LEMMA RemoveIs ==
  ASSUME NEW pcs, IsList(pcs), NEW name, Named(pcs, name) # {}
  PROVE  LET k == FirstNamed(pcs, name)
             d == RemovePC(pcs, name)
         IN  /\ k \in Named(pcs, name) /\ k \in 1 .. Len(pcs)
             /\ IsList(d) /\ Len(d) = Len(pcs) - 1
             /\ \A i \in 1 .. Len(pcs) - 1 : d[i] = IF i < k THEN pcs[i] ELSE pcs[i + 1]
<1> DEFINE S == ToSet(pcs)
           k == FirstNamed(pcs, name)
           front == SubSeq(pcs, 1, k - 1)
           back == SubSeq(pcs, k + 1, Len(pcs))
<1>1. pcs \in Seq(S) /\ k \in 1 .. Len(pcs) /\ Len(pcs) \in Nat
  BY FirstIsNamed DEF IsList, Named
<1>2. /\ front \in Seq(S) /\ Len(front) = k - 1
      /\ \A i \in 1 .. k - 1 : front[i] = pcs[i]
  BY <1>1, SubSeqProperties
<1>3. /\ back \in Seq(S) /\ Len(back) = Len(pcs) - k
      /\ \A i \in 1 .. Len(pcs) - k : back[i] = pcs[i + k]
  BY <1>1, SubSeqProperties
<1> HIDE DEF S, k, front, back
<1>4. /\ front \o back \in Seq(S)
      /\ Len(front \o back) = Len(front) + Len(back)
      /\ \A i \in 1 .. Len(front) + Len(back) :
           (front \o back)[i] = IF i <= Len(front) THEN front[i] ELSE back[i - Len(front)]
  BY <1>2, <1>3, ConcatProperties
<1>5. Len(front \o back) = Len(pcs) - 1
  BY <1>1, <1>2, <1>3, <1>4
<1>6. ASSUME NEW i \in 1 .. Len(pcs) - 1
      PROVE  (front \o back)[i] = IF i < k THEN pcs[i] ELSE pcs[i + 1]
  <2>1. CASE i < k
    BY <1>1, <1>2, <1>3, <1>4, <2>1
  <2>2. CASE k <= i
    <3>1. (front \o back)[i] = back[i - (k - 1)]
      BY <1>1, <1>2, <1>3, <1>4, <2>2
    <3>2. i - (k - 1) \in 1 .. Len(pcs) - k
      BY <1>1, <2>2
    <3> QED BY <1>1, <1>3, <2>2, <3>1, <3>2
  <2>3. i < k \/ k <= i
    BY <1>1
  <2>4. k <= i => ~(i < k)
    BY <1>1
  <2> QED BY <2>1, <2>2, <2>3, <2>4, Zenon
<1>7. RemovePC(pcs, name) = front \o back
  BY DEF RemovePC, RemoveAt, k, front, back
<1>8. IsList(front \o back)
  BY <1>4, SeqIsList
<1>9. k \in Named(pcs, name)
  BY FirstIsNamed DEF k
<1> QED BY <1>1, <1>5, <1>6, <1>7, <1>8, <1>9 DEF k

(* So it keeps the names apart. *)
LEMMA RemoveKeeps ==
  ASSUME NEW pcs, IsList(pcs), UniqueNames(pcs), NEW name, Named(pcs, name) # {}
  PROVE  IsList(RemovePC(pcs, name)) /\ UniqueNames(RemovePC(pcs, name))
<1> DEFINE k == FirstNamed(pcs, name)
           d == RemovePC(pcs, name)
           n == Len(pcs)
<1>1. /\ k \in 1 .. n /\ IsList(d) /\ Len(d) = n - 1
      /\ \A i \in 1 .. n - 1 : d[i] = IF i < k THEN pcs[i] ELSE pcs[i + 1]
  BY RemoveIs
<1>2. n \in Nat /\ DOMAIN pcs = 1 .. n /\ DOMAIN d = 1 .. n - 1
  BY <1>1, ListIs
<1> HIDE DEF k, d, n
<1>3. ASSUME NEW i \in 1 .. n - 1, NEW j \in 1 .. n - 1, d[i].name = d[j].name PROVE i = j
  <2> DEFINE before(m) == IF m < k THEN m ELSE m + 1
  <2>1. pcs[before(i)].name = pcs[before(j)].name
    BY <1>1, <1>3
  <2>2. before(i) \in 1 .. n /\ before(j) \in 1 .. n
    BY <1>1, <1>2
  <2>3. before(i) = before(j)
    BY <1>2, <2>1, <2>2 DEF UniqueNames
  <2> QED BY <1>1, <1>2, <2>3
<1> QED BY <1>1, <1>2, <1>3 DEF UniqueNames, d

---------------------------------------------------------------------------
(* Every list anybody has is one, and has no name twice. *)
NamedList(pcs) == IsList(pcs) /\ UniqueNames(pcs)

ListsNamed ==
  /\ file.kind = "config" => NamedList(file.pcs)
  /\ \A c \in Clients : NamedList(base[c]) /\ NamedList(draft[c])

(* So it is with the lists of the file at first. *)
LEMMA ListsInit == Init => ListsNamed
<1> SUFFICES ASSUME Init PROVE ListsNamed
  OBVIOUS
<1>1. file = Absent \/ \E pcs \in InitialPCs : file = Holding(pcs)
  BY DEF Init
<1>2. file.kind = "config" => NamedList(file.pcs)
  BY <1>1, InitialAssumption DEF Absent, Holding, NamedList, IsList
<1>3. \A c \in Clients : base[c] = <<>> /\ draft[c] = <<>>
  BY DEF Init
<1> QED BY <1>2, <1>3, EmptyList DEF ListsNamed, NamedList

(* A load that succeeds gives such a list. *)
LEMMA ContentNamed == Shape /\ ListsNamed /\ Loadable => NamedList(Content)
  BY EmptyList DEF Shape, ListsNamed, NamedList, Loadable, Content, Absent, Broken, Holding

(* Adding a PC keeps names apart ... *)
LEMMA AddNamed == \A pcs, pc : NamedList(pcs) => NamedList(AddOrUpdatePC(pcs, pc))
  BY AddKeepsList, AddKeepsNames DEF NamedList

(* ... and so does removing one. *)
LEMMA RemoveNamed ==
  \A pcs, name : NamedList(pcs) /\ Named(pcs, name) # {} => NamedList(RemovePC(pcs, name))
  BY RemoveKeeps DEF NamedList

(* Every step keeps the names of every list apart. *)
LEMMA ListsNext == Shape /\ ListsNamed /\ [Next]_vars => ListsNamed'
<1> SUFFICES ASSUME Shape, ListsNamed, [Next]_vars PROVE ListsNamed'
  OBVIOUS
<1> USE DEF Shape, ListsNamed, history, Clients, Request
<1>1. ASSUME NEW c \in Clients, RefuseBulk(c) PROVE ListsNamed'
  BY <1>1 DEF RefuseBulk
<1>2. ASSUME NEW c \in Clients, LoadFails(c) PROVE ListsNamed'
  BY <1>2 DEF LoadFails
<1>3. ASSUME NEW c \in Clients, Read(c) PROVE ListsNamed'
  BY <1>3, ContentNamed DEF Read
<1>4. ASSUME NEW c \in Clients, LoadAdd(c) PROVE ListsNamed'
  BY <1>4, ContentNamed, AddNamed DEF LoadAdd
<1>5. ASSUME NEW c \in Clients, LoadRemove(c) PROVE ListsNamed'
  BY <1>5, ContentNamed, RemoveNamed DEF LoadRemove
<1>6. ASSUME NEW c \in Clients, LoadBulk(c) PROVE ListsNamed'
  BY <1>6, ContentNamed DEF LoadBulk
<1>7. ASSUME NEW c \in Clients, BulkNext(c) PROVE ListsNamed'
  BY <1>7, AddNamed DEF BulkNext
<1>8. ASSUME NEW c \in Clients, BulkReady(c) PROVE ListsNamed'
  BY <1>8 DEF BulkReady
<1>9. ASSUME NEW c \in Clients, OpenFile(c) PROVE ListsNamed'
  BY <1>9 DEF OpenFile, Truncated, Broken
<1>10. ASSUME NEW c \in Clients, WriteFile(c) PROVE ListsNamed'
  BY <1>10 DEF WriteFile, Overwritten, Broken, Holding
<1>11. ASSUME NEW c \in Clients, OpenFails(c) \/ WriteFails(c) PROVE ListsNamed'
  BY <1>11 DEF OpenFails, WriteFails
<1>12. ASSUME NEW c \in Clients, Kill(c) PROVE ListsNamed'
  BY <1>12 DEF Kill
<1>13. CASE UNCHANGED vars
  BY <1>13 DEF vars
<1> QED
  BY <1>1, <1>2, <1>3, <1>4, <1>5, <1>6, <1>7, <1>8, <1>9, <1>10, <1>11, <1>12, <1>13
  DEF Next, AllEnded

(* Names stay unique through every interleaving of bulk requests, adds and *)
(* removes, because every list that is saved was changed by AddOrUpdatePC  *)
(* or RemovePC alone (config.go, handleBulkPCs).                           *)
THEOREM NamesStayUnique == Spec => []NamesUnique
<1>1. Init => Shape /\ ListsNamed
  BY ShapeInit, ListsInit
<1>2. Shape /\ ListsNamed /\ [Next]_vars => (Shape /\ ListsNamed)'
  BY ShapeNext, ListsNext
<1>3. ListsNamed => NamesUnique
  BY DEF ListsNamed, NamedList, NamesUnique
<1> QED BY <1>1, <1>2, <1>3, PTL DEF Spec

---------------------------------------------------------------------------
(* As long as nothing is hurt, one client saves at a time, the file is     *)
(* empty while it does, and readable otherwise.                            *)
OneSaver ==
  ~hurt =>
    /\ \A c, d \in Clients : at[c] = "saving" /\ at[d] = "saving" => c = d
    /\ \A c \in Clients : at[c] = "saving" => file = Broken(0)
    /\ file.kind = "broken" => \E c \in Clients : at[c] = "saving"

(* A text is never shorter than an emptied file. *)
LEMMA SizeIsNat == ASSUME NEW pcs, IsList(pcs) PROVE SizeOf(pcs) \in Nat
<1> DEFINE users == {k \in DOMAIN pcs : pcs[k].ssh # ""}
<1>1. Len(pcs) \in Nat /\ DOMAIN pcs = 1 .. Len(pcs)
  BY DEF IsList
<1>2. IsFiniteSet(1 .. Len(pcs))
  BY <1>1, FS_Interval
<1>3. IsFiniteSet(users)
  BY <1>1, <1>2, FS_Subset
<1>4. Cardinality(users) \in Nat
  BY <1>3, FS_CardinalityType
<1>5. SizeOf(pcs) = 1 + Len(pcs) + Cardinality(users)
  BY DEF SizeOf
<1> HIDE DEF users
<1> QED BY <1>1, <1>4, <1>5

(* Initially nobody saves. *)
LEMMA OneSaverInit == Init => OneSaver
  BY DEF Init, OneSaver, Absent, Holding

(* Every step keeps the savers apart, or records that it did not. *)
LEMMA OneSaverNext == Shape /\ ListsNamed /\ OneSaver /\ [Next]_vars => OneSaver'
<1> SUFFICES ASSUME Shape, ListsNamed, OneSaver, [Next]_vars PROVE OneSaver'
  OBVIOUS
<1> USE DEF Shape, OneSaver, history, Clients, Request
<1>1. ASSUME NEW c \in Clients, RefuseBulk(c) PROVE OneSaver'
  BY <1>1 DEF RefuseBulk
<1>2. ASSUME NEW c \in Clients, LoadFails(c) PROVE OneSaver'
  BY <1>2 DEF LoadFails
<1>3. ASSUME NEW c \in Clients, Read(c) PROVE OneSaver'
  BY <1>3 DEF Read
<1>4. ASSUME NEW c \in Clients, LoadAdd(c) PROVE OneSaver'
  BY <1>4 DEF LoadAdd
<1>5. ASSUME NEW c \in Clients, LoadRemove(c) PROVE OneSaver'
  BY <1>5 DEF LoadRemove
<1>6. ASSUME NEW c \in Clients, LoadBulk(c) PROVE OneSaver'
  BY <1>6 DEF LoadBulk
<1>7. ASSUME NEW c \in Clients, BulkNext(c) PROVE OneSaver'
  BY <1>7 DEF BulkNext
<1>8. ASSUME NEW c \in Clients, BulkReady(c) PROVE OneSaver'
  BY <1>8 DEF BulkReady
<1>9. ASSUME NEW c \in Clients, OpenFile(c) PROVE OneSaver'
  BY <1>9 DEF OpenFile, Truncated, Broken
<1>10. ASSUME NEW c \in Clients, WriteFile(c) PROVE OneSaver'
  <2>1. SUFFICES ASSUME ~hurt PROVE OneSaver'
    BY <1>10 DEF WriteFile
  <2>2. file.size = 0
    BY <1>10, <2>1 DEF WriteFile, Broken
  <2>3. SizeOf(draft[c]) \in Nat
    BY SizeIsNat DEF ListsNamed, NamedList
  <2>4. file'.kind = "config"
    BY <1>10, <2>2, <2>3 DEF WriteFile, Overwritten, Holding
  <2>5. \A d \in Clients : at'[d] # "saving"
    BY <1>10, <2>1 DEF WriteFile
  <2>6. scenario' = scenario
    BY <1>10 DEF WriteFile
  <2> QED BY <2>4, <2>5, <2>6
<1>11. ASSUME NEW c \in Clients, OpenFails(c) \/ WriteFails(c) PROVE OneSaver'
  BY <1>11 DEF OpenFails, WriteFails
<1>12. ASSUME NEW c \in Clients, Kill(c) PROVE OneSaver'
  BY <1>12 DEF Kill, UnderWay
<1>13. CASE UNCHANGED vars
  BY <1>13 DEF vars
<1> QED
  BY <1>1, <1>2, <1>3, <1>4, <1>5, <1>6, <1>7, <1>8, <1>9, <1>10, <1>11, <1>12, <1>13
  DEF Next, AllEnded

(* A config that cannot be read is the work of two saves that overlapped   *)
(* or of one that was cut off; while saves keep apart, os.WriteFile leaves *)
(* a whole text, however much shorter than the one before.                 *)
THEOREM BrokenByOverlap == Spec => []BrokenOnlyByOverlap
<1> DEFINE Inv == Shape /\ ListsNamed /\ OneSaver
<1>1. Init => Inv
  BY ShapeInit, ListsInit, OneSaverInit
<1>2. Inv /\ [Next]_vars => Inv'
  BY ShapeNext, ListsNext, OneSaverNext
<1>3. Inv => BrokenOnlyByOverlap
  BY DEF Shape, OneSaver, BrokenOnlyByOverlap
<1> QED BY <1>1, <1>2, <1>3, PTL DEF Spec

---------------------------------------------------------------------------
(* The loop of handleBulkPCs. *)

Texts(c) == Parsed(c).addresses

(* How many addresses the loop has done. *)
Done(c) == Len(Texts(c)) - Len(todo[c])

(* A bulk request that got past the load. *)
Bulking(c) == Request[c].op = "bulk" /\ at[c] \in {"edit", "save", "saving", "answered"}

(* What is left to do is the rest of the addresses. *)
LoopOK(c) ==
  /\ Parsed(c).ok /\ Texts(c) # <<>>
  /\ todo[c] \in Seq(Address) /\ Len(todo[c]) <= Len(Texts(c))
  /\ \A k \in 1 .. Len(todo[c]) : todo[c][k] = Texts(c)[Done(c) + k]
  /\ at[c] # "edit" => Len(todo[c]) = 0

(* The first n addresses of a text. *)
FirstOf(texts, n) == {texts[k] : k \in 1 .. n}

OwnNames(pcs) == \A k \in DOMAIN pcs : Own(pcs[k])

(* Each PC of the list b still has its place, name and address in list d;  *)
(* the m others are PCs of addresses from set s that b did not have, under *)
(* their automatic names; and no address of s is missing.                  *)
Kept(b, d, m, s) ==
  /\ m \in Nat /\ Len(d) = Len(b) + m
  /\ \A k \in 1 .. Len(b) : d[k].name = b[k].name /\ d[k].addr = b[k].addr
  /\ \A k \in Len(b) + 1 .. Len(b) + m : /\ d[k].addr \in s \ Addresses(b)
                                         /\ d[k].name = AutoName[d[k].addr]
  /\ s \subseteq Addresses(d)

(* AddOrUpdatePC puts a PC in the place of the first of its name, or at the *)
(* end, and leaves the others where they are.                              *)
LEMMA AddIs ==
  ASSUME NEW pcs, IsList(pcs), NEW pc
  PROVE  LET d == AddOrUpdatePC(pcs, pc)
             n == Len(pcs)
         IN  /\ IsList(d)
             /\ Named(pcs, pc.name) = {} =>
                  Len(d) = n + 1 /\ d[n + 1] = pc /\ \A k \in 1 .. n : d[k] = pcs[k]
             /\ Named(pcs, pc.name) # {} =>
                  /\ Len(d) = n
                  /\ \E j \in Named(pcs, pc.name) :
                       d[j] = pc /\ \A k \in 1 .. n : k # j => d[k] = pcs[k]
<1> DEFINE d == AddOrUpdatePC(pcs, pc)
           n == Len(pcs)
<1>1. IsList(d)
  BY AddKeepsList
<1>2. ASSUME Named(pcs, pc.name) = {}
      PROVE  Len(d) = n + 1 /\ d[n + 1] = pc /\ \A k \in 1 .. n : d[k] = pcs[k]
  <2>1. d = Append(pcs, pc)
    BY <1>2 DEF AddOrUpdatePC
  <2>2. pcs \in Seq(ToSet(pcs) \cup {pc})
    BY DEF IsList
  <2> HIDE DEF d
  <2> QED BY <2>1, <2>2
<1>3. ASSUME Named(pcs, pc.name) # {}
      PROVE  /\ Len(d) = n
             /\ \E j \in Named(pcs, pc.name) : d[j] = pc /\ \A k \in 1 .. n : k # j => d[k] = pcs[k]
  <2> DEFINE j == FirstNamed(pcs, pc.name)
  <2>1. j \in Named(pcs, pc.name) /\ j \in 1 .. n
    BY <1>3, FirstIsNamed, ListIs DEF Named
  <2>2. d = [pcs EXCEPT ![j] = pc]
    BY <1>3 DEF AddOrUpdatePC
  <2>3. Len(d) \in Nat /\ DOMAIN d = 1 .. Len(d) /\ n \in Nat /\ DOMAIN pcs = 1 .. n
    BY <1>1, ListIs
  <2>4. pcs \in Seq(ToSet(pcs) \cup {pc})
    BY DEF IsList
  <2> HIDE DEF d, j
  <2>5. Len(d) = n
    BY <2>1, <2>2, <2>3, <2>4, ExceptSeq
  <2> HIDE DEF n
  <2>6. d[j] = pc /\ \A k \in 1 .. n : k # j => d[k] = pcs[k]
    BY <2>1, <2>2, <2>3
  <2> QED BY <2>1, <2>5, <2>6
<1> QED BY <1>1, <1>2, <1>3

(* The map of handleBulkPCs has no name for an address without a PC ...    *)
LEMMA ExistingNone ==
  ASSUME NEW pcs, NEW a, a \notin Addresses(pcs)
  PROVE  Existing(pcs, a) = ""
<1>1. At(pcs, a) = {}
  BY DEF At, Addresses
<1> QED BY <1>1 DEF Existing

(* ... and the name of a PC there for the others. *)
LEMMA ExistingIs ==
  ASSUME NEW pcs, IsList(pcs), NEW a, a \in Addresses(pcs)
  PROVE  \E k \in 1 .. Len(pcs) : pcs[k].addr = a /\ Existing(pcs, a) = pcs[k].name
<1>0. Len(pcs) \in Nat /\ DOMAIN pcs = 1 .. Len(pcs)
  BY ListIs
<1> DEFINE there == At(pcs, a)
           T == {Len(pcs) - k : k \in there}
<1>1. there # {} /\ there \subseteq 1 .. Len(pcs) /\ \A k \in there : pcs[k].addr = a
  BY <1>0 DEF At, Addresses
<1> HIDE DEF there
<1>2. T \in SUBSET Nat /\ T # {}
  <2>1. \A k \in there : Len(pcs) - k \in Nat
    BY <1>0, <1>1
  <2> QED BY <1>1, <2>1
<1>3. PICK t \in T : \A u \in T : t <= u
  BY <1>2, Least
<1>4. PICK k \in there : t = Len(pcs) - k
  OBVIOUS
<1>5. ASSUME NEW j \in there PROVE j <= k
  <2>1. t <= Len(pcs) - j
    BY <1>3
  <2> QED BY <1>0, <1>1, <1>4, <2>1
<1> DEFINE last == CHOOSE i \in there : \A j \in there : j <= i
<1>6. last \in there
  <2> HIDE DEF T
  <2>1. \E i \in there : \A j \in there : j <= i
    BY <1>5
  <2> QED BY <2>1
<1>7. Existing(pcs, a) = pcs[last].name
  BY <1>1 DEF Existing, there
<1> HIDE DEF last, T
<1> QED BY <1>1, <1>6, <1>7

(* What the loop makes of an address, given the list that was loaded. *)
Listed(b, a, user) ==
  [name |-> IF Existing(b, a) # "" THEN Existing(b, a) ELSE AutoName[a], addr |-> a, ssh |-> user]

(* Such a PC has a name of its own if all of the list had. *)
LEMMA ListedIsOwn ==
  ASSUME NamesAreTheirs, NEW b, IsList(b), OwnNames(b), NEW a \in Address, NEW user
  PROVE  Own(Listed(b, a, user))
<1>1. \A x, y \in Address : AutoName[x] = AutoName[y] => x = y
  BY DEF NamesAreTheirs
<1>2. \A x \in Address : AutoName[x] # ""
  BY DEF NamesAreTheirs
<1>3. CASE Existing(b, a) = ""
  <2>1. Listed(b, a, user).name = AutoName[a] /\ Listed(b, a, user).addr = a
    BY <1>3 DEF Listed
  <2> QED BY <1>1, <1>2, <2>1 DEF Own
<1>4. CASE Existing(b, a) # ""
  <2>0. a \in Addresses(b)
    BY <1>4, ExistingNone
  <2>1. PICK k \in 1 .. Len(b) : b[k].addr = a /\ Existing(b, a) = b[k].name
    BY <2>0, ExistingIs
  <2>2. Own(b[k])
    BY ListIs DEF OwnNames
  <2>3. Listed(b, a, user).name = b[k].name /\ Listed(b, a, user).addr = b[k].addr
    BY <1>4, <2>1 DEF Listed
  <2> QED BY <2>2, <2>3 DEF Own
<1> QED BY <1>3, <1>4

(* Adding a PC with a name of its own to a list of such ones. *)
LEMMA AddKeepsOwn ==
  ASSUME NEW pcs, IsList(pcs), OwnNames(pcs), NEW pc, Own(pc)
  PROVE  OwnNames(AddOrUpdatePC(pcs, pc))
<1> DEFINE d == AddOrUpdatePC(pcs, pc)
           n == Len(pcs)
<1>1. IsList(d) /\ Len(d) \in Nat /\ DOMAIN d = 1 .. Len(d)
  BY AddIs, ListIs
<1>2. n \in Nat /\ \A k \in 1 .. n : Own(pcs[k])
  BY ListIs DEF OwnNames
<1>3. /\ Named(pcs, pc.name) = {} =>
           Len(d) = n + 1 /\ d[n + 1] = pc /\ \A k \in 1 .. n : d[k] = pcs[k]
      /\ Named(pcs, pc.name) # {} =>
           /\ Len(d) = n
           /\ \E j \in Named(pcs, pc.name) : d[j] = pc /\ \A k \in 1 .. n : k # j => d[k] = pcs[k]
  BY AddIs
<1> HIDE DEF d, n
<1>4. ASSUME NEW k \in 1 .. Len(d) PROVE d[k] = pc \/ \E j \in 1 .. n : d[k] = pcs[j]
  <2>1. CASE Named(pcs, pc.name) = {}
    <3>1. k \in 1 .. n \/ k = n + 1
      BY <1>2, <1>3, <2>1
    <3> QED BY <1>3, <2>1, <3>1
  <2>2. CASE Named(pcs, pc.name) # {}
    BY <1>3, <2>2
  <2> QED BY <2>1, <2>2
<1>5. \A k \in 1 .. Len(d) : Own(d[k])
  BY <1>2, <1>4
<1> QED BY <1>1, <1>5 DEF OwnNames, d

(* One address more. *)
LEMMA KeptNext ==
  ASSUME NamesAreTheirs,
         NEW b, IsList(b), OwnNames(b), NEW d, IsList(d), UniqueNames(d), OwnNames(d),
         NEW m, NEW s, Kept(b, d, m, s), NEW a \in Address, a \notin s, NEW user
  PROVE  Kept(b, AddOrUpdatePC(d, Listed(b, a, user)),
              m + (IF Existing(b, a) = "" THEN 1 ELSE 0), s \cup {a})
<1> DEFINE pc == Listed(b, a, user)
           e == AddOrUpdatePC(d, pc)
           n == Len(b)
<1>1. /\ n \in Nat /\ DOMAIN b = 1 .. n /\ Len(d) \in Nat /\ DOMAIN d = 1 .. Len(d)
      /\ IsList(e) /\ Len(e) \in Nat /\ DOMAIN e = 1 .. Len(e)
  BY ListIs, AddIs
<1>2. /\ m \in Nat /\ Len(d) = n + m
      /\ \A k \in 1 .. n : d[k].name = b[k].name /\ d[k].addr = b[k].addr
      /\ \A k \in n + 1 .. n + m : d[k].addr \in s \ Addresses(b) /\ d[k].name = AutoName[d[k].addr]
      /\ s \subseteq Addresses(d)
  BY DEF Kept
<1>3. /\ Named(d, pc.name) = {} =>
           Len(e) = Len(d) + 1 /\ e[Len(d) + 1] = pc /\ \A k \in 1 .. Len(d) : e[k] = d[k]
      /\ Named(d, pc.name) # {} =>
           /\ Len(e) = Len(d)
           /\ \E j \in Named(d, pc.name) : e[j] = pc /\ \A k \in 1 .. Len(d) : k # j => e[k] = d[k]
  BY AddIs
<1>4. /\ \A x : x \in Addresses(b) <=> \E k \in 1 .. n : b[k].addr = x
      /\ \A x : x \in Addresses(d) <=> \E k \in 1 .. Len(d) : d[k].addr = x
      /\ \A x : x \in Addresses(e) <=> \E k \in 1 .. Len(e) : e[k].addr = x
  BY <1>1 DEF Addresses
<1>5. pc.addr = a /\ pc.name = IF Existing(b, a) # "" THEN Existing(b, a) ELSE AutoName[a]
  BY DEF Listed
<1>6. \A k \in 1 .. Len(d) : k \in Named(d, pc.name) <=> d[k].name = pc.name
  BY <1>1 DEF Named
<1>7. Named(d, pc.name) \subseteq 1 .. Len(d)
  BY <1>1 DEF Named
<1>8. (\A k \in 1 .. n : Own(b[k])) /\ (\A k \in 1 .. Len(d) : Own(d[k]))
  BY <1>1 DEF OwnNames
<1>11. a \in Addresses(b) => \E k \in 1 .. n : b[k].addr = a /\ Existing(b, a) = b[k].name
  BY ExistingIs
<1> HIDE DEF pc, e, n
<1>9. CASE a \in Addresses(b)
  <2>1. PICK j \in 1 .. n : b[j].addr = a /\ Existing(b, a) = b[j].name
    BY <1>9, <1>11
  <2>2. Existing(b, a) # ""
    BY <1>8, <2>1 DEF Own
  <2>3. j \in 1 .. Len(d) /\ d[j].name = pc.name /\ d[j].addr = a
    <3>1. j \in 1 .. Len(d)
      BY <1>1, <1>2
    <3>2. d[j].name = b[j].name /\ d[j].addr = b[j].addr
      BY <1>2
    <3>3. pc.name = b[j].name
      BY <1>5, <2>1, <2>2, Zenon
    <3> QED BY <2>1, <3>1, <3>2, <3>3, Zenon
  <2>4. j \in Named(d, pc.name) /\ \A i \in Named(d, pc.name) : i = j
    BY <1>1, <1>6, <1>7, <2>3 DEF UniqueNames
  <2>5. Len(e) = Len(d) /\ e[j] = pc /\ \A k \in 1 .. Len(d) : k # j => e[k] = d[k]
    BY <1>3, <2>4
  <2>6. \A k \in 1 .. Len(d) : e[k].addr = d[k].addr /\ e[k].name = d[k].name
    BY <1>5, <2>3, <2>5
  <2>7. 1 .. n \subseteq 1 .. Len(d) /\ n + 1 .. n + m \subseteq 1 .. Len(d)
    BY <1>1, <1>2
  <2>8. \A k \in 1 .. n : e[k].name = b[k].name /\ e[k].addr = b[k].addr
    BY <1>2, <2>6, <2>7
  <2>9. \A k \in n + 1 .. n + m : /\ e[k].addr \in (s \cup {a}) \ Addresses(b)
                                  /\ e[k].name = AutoName[e[k].addr]
    BY <1>2, <2>6, <2>7
  <2>10. s \cup {a} \subseteq Addresses(e)
    BY <1>2, <1>4, <2>3, <2>5, <2>6
  <2>11. Kept(b, e, m, s \cup {a})
    BY <1>2, <2>5, <2>8, <2>9, <2>10 DEF Kept, n
  <2>12. m + (IF Existing(b, a) = "" THEN 1 ELSE 0) = m
    <3>1. (IF Existing(b, a) = "" THEN 1 ELSE 0) = 0
      BY <2>2, Zenon
    <3>2. m + 0 = m
      BY <1>2
    <3> QED BY <3>1, <3>2, Zenon
  <2> QED BY <2>11, <2>12 DEF e, pc
<1>10. CASE a \notin Addresses(b)
  <2>1. Existing(b, a) = "" /\ pc.name = AutoName[a]
    BY <1>5, <1>10, ExistingNone
  <2>2. ASSUME NEW k \in 1 .. Len(d) PROVE d[k].name # pc.name
    <3> SUFFICES ASSUME d[k].name = AutoName[a] PROVE FALSE
      BY <2>1
    <3>1. d[k].addr = a
      BY <1>8 DEF Own
    <3>2. k \in 1 .. n \/ k \in n + 1 .. n + m
      BY <1>1, <1>2
    <3> QED BY <1>2, <1>4, <1>10, <3>1, <3>2
  <2>3. Named(d, pc.name) = {}
    BY <1>6, <1>7, <2>2
  <2>4. Len(e) = Len(d) + 1 /\ e[Len(d) + 1] = pc /\ \A k \in 1 .. Len(d) : e[k] = d[k]
    BY <1>3, <2>3
  <2>5. Len(e) = n + (m + 1) /\ m + 1 \in Nat
    BY <1>1, <1>2, <2>4
  <2>6. 1 .. n \subseteq 1 .. Len(d) /\ n + 1 .. n + m \subseteq 1 .. Len(d)
    BY <1>1, <1>2
  <2>7. \A k \in 1 .. n : e[k].name = b[k].name /\ e[k].addr = b[k].addr
    BY <1>2, <2>4, <2>6
  <2>8. ASSUME NEW k \in n + 1 .. n + (m + 1)
        PROVE  e[k].addr \in (s \cup {a}) \ Addresses(b) /\ e[k].name = AutoName[e[k].addr]
    <3>1. k \in n + 1 .. n + m \/ k = Len(d) + 1
      BY <1>1, <1>2
    <3>2. CASE k = Len(d) + 1
      BY <1>5, <1>10, <2>1, <2>4, <3>2
    <3>3. CASE k \in n + 1 .. n + m
      BY <1>2, <2>4, <2>6, <3>3
    <3> QED BY <3>1, <3>2, <3>3
  <2>9. s \cup {a} \subseteq Addresses(e)
    <3>1. Len(d) + 1 \in 1 .. Len(e) /\ 1 .. Len(d) \subseteq 1 .. Len(e)
      BY <1>1, <2>4
    <3>2. a \in Addresses(e)
      BY <1>4, <1>5, <2>4, <3>1
    <3>3. \A x \in Addresses(d) : x \in Addresses(e)
      BY <1>4, <2>4, <3>1
    <3> QED BY <1>2, <3>2, <3>3
  <2>10. Kept(b, e, m + 1, s \cup {a})
    BY <2>5, <2>7, <2>8, <2>9 DEF Kept, n
  <2>11. m + (IF Existing(b, a) = "" THEN 1 ELSE 0) = m + 1
    BY <2>1
  <2> QED BY <2>10, <2>11 DEF e, pc
<1> QED BY <1>9, <1>10

(* Removing a PC from such a list. *)
LEMMA RemoveKeepsOwn ==
  ASSUME NEW pcs, IsList(pcs), OwnNames(pcs), NEW name, Named(pcs, name) # {}
  PROVE  OwnNames(RemovePC(pcs, name))
<1> DEFINE k == FirstNamed(pcs, name)
           d == RemovePC(pcs, name)
           n == Len(pcs)
<1>1. /\ k \in 1 .. n /\ IsList(d) /\ Len(d) = n - 1
      /\ \A i \in 1 .. n - 1 : d[i] = IF i < k THEN pcs[i] ELSE pcs[i + 1]
  BY RemoveIs
<1>2. n \in Nat /\ DOMAIN pcs = 1 .. n /\ DOMAIN d = 1 .. n - 1
  BY <1>1, ListIs
<1> HIDE DEF k, d, n
<1>3. ASSUME NEW i \in 1 .. n - 1 PROVE Own(d[i])
  <2>1. i \in 1 .. n /\ i + 1 \in 1 .. n
    BY <1>2
  <2>2. Own(pcs[i]) /\ Own(pcs[i + 1])
    BY <1>2, <2>1 DEF OwnNames
  <2> QED BY <1>1, <2>2
<1> QED BY <1>2, <1>3 DEF OwnNames, d

(* The loop adds no address but the one of the PC. *)
LEMMA OnlyNext ==
  ASSUME NEW d, IsList(d), NEW s, Addresses(d) \subseteq s, NEW pc
  PROVE  Addresses(AddOrUpdatePC(d, pc)) \subseteq s \cup {pc.addr}
<1> DEFINE e == AddOrUpdatePC(d, pc)
           n == Len(d)
<1>1. /\ n \in Nat /\ DOMAIN d = 1 .. n
      /\ IsList(e) /\ Len(e) \in Nat /\ DOMAIN e = 1 .. Len(e)
  BY ListIs, AddIs
<1>2. /\ Named(d, pc.name) = {} =>
           Len(e) = n + 1 /\ e[n + 1] = pc /\ \A k \in 1 .. n : e[k] = d[k]
      /\ Named(d, pc.name) # {} =>
           /\ Len(e) = n
           /\ \E j \in Named(d, pc.name) : e[j] = pc /\ \A k \in 1 .. n : k # j => e[k] = d[k]
  BY AddIs
<1>3. \A k \in 1 .. n : d[k].addr \in s
  BY <1>1 DEF Addresses
<1> HIDE DEF e, n
<1>4. ASSUME NEW k \in 1 .. Len(e) PROVE e[k].addr \in s \cup {pc.addr}
  <2>1. CASE Named(d, pc.name) = {}
    <3>1. k \in 1 .. n \/ k = n + 1
      BY <1>1, <1>2, <2>1
    <3> QED BY <1>2, <1>3, <2>1, <3>1
  <2>2. CASE Named(d, pc.name) # {}
    BY <1>2, <1>3, <2>2
  <2> QED BY <2>1, <2>2
<1> QED BY <1>1, <1>4 DEF Addresses, e

(* What the loop is given: the addresses the user means, each once.        *)
LEMMA TextsAre ==
  ASSUME Shape, NEW c \in Clients, Request[c].op = "bulk", Parsed(c).ok
  PROVE  /\ Texts(c) \in Seq(Address) /\ Len(Texts(c)) \in Nat
         /\ \A j, k \in 1 .. Len(Texts(c)) : Texts(c)[j] = Texts(c)[k] => j = k
         /\ Asked(c) = FirstOf(Texts(c), Len(Texts(c)))
         /\ \A k \in DOMAIN Request[c].items :
              /\ Request[c].items[k].kind # "bad"
              /\ Request[c].items[k].kind # "one" =>
                   Cardinality(Meant(Request[c].items[k])) <= Limit(c)
<1> DEFINE items == Request[c].items
           limit == Request[c].limit
           asked == UNION {Meant(items[k]) : k \in DOMAIN items}
           list == InOrder(asked)
<1>1. items \in Seq(Item) /\ limit \in Int
  BY ConfigAssumption DEF Shape, Clients, Request
<1>2. ParseAddressSpecs(items, limit).ok
  BY DEF Parsed
<1>3. /\ ParseAddressSpecs(items, limit).addresses = list
      /\ asked \subseteq Address /\ IsFiniteSet(asked)
      /\ \A k \in DOMAIN items :
           /\ items[k].kind # "bad"
           /\ items[k].kind # "one" =>
                Cardinality(Meant(items[k])) <= (IF limit > 0 THEN limit ELSE DefaultMaxHosts)
  <2> HIDE DEF items, limit
  <2> QED BY <1>1, <1>2, ParsesWhatIsMeant
<1>4. asked \in SUBSET Int
  <2>1. Pow2[Width] \in Nat
    BY Pow2Positive, AddressAssumption
  <2>2. Address \subseteq Int
    BY <2>1 DEF Address
  <2> QED BY <1>3, <2>2
<1> HIDE DEF asked
<1>5. /\ list \in Seq(asked)
      /\ \A x : x \in asked <=> \E k \in 1 .. Len(list) : list[k] = x
      /\ \A j, k \in 1 .. Len(list) : list[j] = list[k] => j = k
  BY <1>3, <1>4, ListsAll
<1>6. Texts(c) = list
  BY <1>3 DEF Texts, Parsed
<1> HIDE DEF list
<1>7. list \in Seq(Address) /\ Len(list) \in Nat
  BY <1>3, <1>5
<1>8. Asked(c) = asked
  BY DEF Asked, asked
<1>9. asked = FirstOf(list, Len(list))
  BY <1>5 DEF FirstOf
<1>10. Limit(c) = IF limit > 0 THEN limit ELSE DefaultMaxHosts
  BY DEF Limit
<1> HIDE DEF items, limit
<1>11. \A k \in DOMAIN items : items[k].kind # "bad" /\ (items[k].kind # "one" => Cardinality(Meant(items[k])) <= Limit(c))
  BY <1>3, <1>10, Zenon
<1> QED BY <1>5, <1>6, <1>7, <1>8, <1>9, <1>11 DEF items

---------------------------------------------------------------------------
(* What a step is to a client that does not load for a bulk request and is *)
(* not in its loop: either it is no bulk request any more, or never was,   *)
(* or nothing but its place changes, and it leaves the loop when the loop  *)
(* is done.                                                                *)
PlainStep(d) ==
  \/ at'[d] \notin {"start", "edit"} /\ ~(Bulking(d)')
  \/ /\ base'[d] = base[d] /\ draft'[d] = draft[d] /\ todo'[d] = todo[d] /\ added'[d] = added[d]
     /\ at'[d] # at[d] => /\ at'[d] \notin {"start", "edit"} /\ Bulking(d)
                          /\ at[d] = "edit" => todo[d] = <<>>

(* Each step is such a step for all clients, except the two of the loop for *)
(* the one that takes them.                                                *)
LEMMA StepsArePlain ==
  Shape /\ [Next]_vars =>
    /\ scenario' = scenario
    /\ \A d \in Clients : PlainStep(d) \/ LoadBulk(d) \/ BulkNext(d)
<1> DEFINE Goal == /\ scenario' = scenario
                   /\ \A d \in Clients : PlainStep(d) \/ LoadBulk(d) \/ BulkNext(d)
<1> SUFFICES ASSUME Shape, [Next]_vars PROVE Goal
  OBVIOUS
<1> USE DEF Shape, history, Clients, Request, PlainStep, Bulking
<1>1. ASSUME NEW c \in Clients, RefuseBulk(c) PROVE Goal
  BY <1>1 DEF RefuseBulk
<1>2. ASSUME NEW c \in Clients, LoadFails(c) PROVE Goal
  BY <1>2 DEF LoadFails
<1>3. ASSUME NEW c \in Clients, Read(c) PROVE Goal
  BY <1>3 DEF Read
<1>4. ASSUME NEW c \in Clients, LoadAdd(c) PROVE Goal
  BY <1>4 DEF LoadAdd
<1>5. ASSUME NEW c \in Clients, LoadRemove(c) PROVE Goal
  BY <1>5 DEF LoadRemove
<1>6. ASSUME NEW c \in Clients, LoadBulk(c) PROVE Goal
  <2>1. \A d \in Clients : d # c => PlainStep(d)
    BY <1>6 DEF LoadBulk
  <2>2. scenario' = scenario
    BY <1>6 DEF LoadBulk
  <2> QED BY <1>6, <2>1, <2>2, Zenon
<1>7. ASSUME NEW c \in Clients, BulkNext(c) PROVE Goal
  <2>1. \A d \in Clients : d # c => PlainStep(d)
    BY <1>7 DEF BulkNext
  <2>2. scenario' = scenario
    BY <1>7 DEF BulkNext
  <2> QED BY <1>7, <2>1, <2>2, Zenon
<1>8. ASSUME NEW c \in Clients, BulkReady(c) PROVE Goal
  BY <1>8 DEF BulkReady, LoopDone
<1>9. ASSUME NEW c \in Clients, OpenFile(c) PROVE Goal
  BY <1>9 DEF OpenFile
<1>10. ASSUME NEW c \in Clients, WriteFile(c) PROVE Goal
  BY <1>10 DEF WriteFile
<1>11. ASSUME NEW c \in Clients, OpenFails(c) \/ WriteFails(c) PROVE Goal
  BY <1>11 DEF OpenFails, WriteFails
<1>12. ASSUME NEW c \in Clients, Kill(c) PROVE Goal
  BY <1>12 DEF Kill
<1>13. CASE UNCHANGED vars
  BY <1>13 DEF vars
<1> QED
  BY <1>1, <1>2, <1>3, <1>4, <1>5, <1>6, <1>7, <1>8, <1>9, <1>10, <1>11, <1>12, <1>13
  DEF Next, AllEnded

(* Where a client is fits what it asks for, and a bulk request has in its  *)
(* list no address but the loaded ones and the ones the loop has done.     *)
ClientOK(c) ==
  /\ at[c] = "start" => added[c] = 0
  /\ at[c] = "edit" => Request[c].op = "bulk"
  /\ Bulking(c) => /\ LoopOK(c)
                   /\ Addresses(draft[c]) \subseteq Addresses(base[c]) \cup FirstOf(Texts(c), Done(c))

ClientsOK == \A c \in Clients : ClientOK(c)

(* The first of a list, and the rest. *)
LEMMA HeadAndTail ==
  ASSUME NEW S, NEW q \in Seq(S), q # <<>>
  PROVE  /\ Len(q) \in Nat /\ Len(q) >= 1 /\ Head(q) \in S /\ Head(q) = q[1]
         /\ Tail(q) \in Seq(S) /\ Len(Tail(q)) = Len(q) - 1
         /\ \A i \in 1 .. Len(q) - 1 : Tail(q)[i] = q[i + 1]
OBVIOUS

(* The loop goes on with an address it has not had. *)
LEMMA LoopGoesOn ==
  ASSUME Shape, NEW c \in Clients, ClientOK(c), BulkNext(c)
  PROVE  LET a == Head(todo[c])
         IN  /\ Bulking(c) /\ Bulking(c)' /\ a \in Address /\ a \notin FirstOf(Texts(c), Done(c))
             /\ LoopOK(c)' /\ Texts(c)' = Texts(c)
             /\ FirstOf(Texts(c), Done(c))' = FirstOf(Texts(c), Done(c)) \cup {a}
             /\ draft'[c] = AddOrUpdatePC(draft[c], Listed(base[c], a, Request[c].user))
             /\ added'[c] = added[c] + (IF Existing(base[c], a) = "" THEN 1 ELSE 0)
             /\ base' = base /\ at' = at /\ scenario' = scenario
<1> DEFINE a == Head(todo[c])
           t == Texts(c)
           n == Len(todo[c])
           k == Done(c) + 1
<1>1. /\ at[c] = "edit" /\ todo[c] # <<>> /\ todo'[c] = Tail(todo[c])
      /\ draft'[c] = AddOrUpdatePC(draft[c], BulkPC(c, a))
      /\ added'[c] = added[c] + (IF Existing(base[c], a) = "" THEN 1 ELSE 0)
      /\ base' = base /\ at' = at /\ scenario' = scenario
  BY DEF BulkNext, LoopDone, Shape, history
<1>2. BulkPC(c, a) = Listed(base[c], a, Request[c].user)
  BY DEF BulkPC, Listed
<1>3. /\ Bulking(c) /\ Parsed(c).ok /\ t # <<>>
      /\ todo[c] \in Seq(Address) /\ n <= Len(t)
      /\ \A i \in 1 .. n : todo[c][i] = t[Done(c) + i]
  BY <1>1 DEF ClientOK, LoopOK, Bulking
<1>4. /\ Len(t) \in Nat /\ \A i, j \in 1 .. Len(t) : t[i] = t[j] => i = j
  BY <1>3, TextsAre DEF Bulking
<1>5. Request' = Request /\ Texts(c)' = t /\ Bulking(c)' /\ Parsed(c)'.ok
  BY <1>1, <1>3 DEF Texts, Parsed, Request, Bulking
<1>6. /\ n \in Nat /\ n >= 1 /\ a \in Address /\ a = todo[c][1]
      /\ Tail(todo[c]) \in Seq(Address) /\ Len(Tail(todo[c])) = n - 1
      /\ \A i \in 1 .. n - 1 : Tail(todo[c])[i] = todo[c][i + 1]
  BY <1>1, <1>3, HeadAndTail
<1>7. Done(c) = Len(t) - n
  BY DEF Done
<1>8. todo'[c] \in Seq(Address) /\ Len(todo'[c]) = n - 1
  BY <1>1, <1>6
<1>9. Done(c)' = k
  <2>1. Done(c)' = Len(Texts(c)') - Len(todo'[c])
    BY DEF Done
  <2> HIDE DEF t, n
  <2>2. Len(todo'[c]) = n - 1 /\ Len(Texts(c)') = Len(t)
    BY <1>1, <1>5, <1>8
  <2> QED BY <1>4, <1>6, <1>7, <2>1, <2>2
<1> HIDE DEF t, n, a
<1>10. k \in 1 .. Len(t) /\ Done(c) \in Nat
  BY <1>3, <1>4, <1>6, <1>7
<1>11. a = t[k]
  <2>1. 1 \in 1 .. n
    BY <1>6
  <2> QED BY <1>3, <1>6, <1>7, <1>10, <2>1
<1>12. a \notin FirstOf(t, Done(c))
  <2> SUFFICES ASSUME NEW i \in 1 .. Done(c), a = t[i] PROVE FALSE
    BY DEF FirstOf
  <2>1. i \in 1 .. Len(t) /\ i # k
    BY <1>4, <1>10
  <2> QED BY <1>4, <1>10, <1>11, <2>1
<1>13. FirstOf(t, k) = FirstOf(t, Done(c)) \cup {a}
  <2>1. 1 .. k = 1 .. Done(c) \cup {k}
    BY <1>10
  <2> QED BY <1>11, <2>1 DEF FirstOf
<1>14. FirstOf(Texts(c), Done(c))' = FirstOf(t, k)
  BY <1>5, <1>9 DEF FirstOf
<1>15. LoopOK(c)'
  <2>1. todo'[c] \in Seq(Address) /\ Len(todo'[c]) <= Len(Texts(c)')
    <3>1. n - 1 <= Len(t)
      BY <1>3, <1>4, <1>6
    <3> QED BY <1>5, <1>8, <3>1
  <2>2. ASSUME NEW i \in 1 .. Len(todo'[c]) PROVE todo'[c][i] = Texts(c)'[Done(c)' + i]
    <3>1. i \in 1 .. n - 1 /\ i + 1 \in 1 .. n /\ i \in Int
      BY <1>6, <1>8
    <3>2. todo'[c][i] = t[Done(c) + (i + 1)]
      BY <1>1, <1>3, <1>6, <3>1
    <3>3. Done(c) + (i + 1) = Done(c)' + i
      BY <1>9, <1>10, <3>1
    <3> QED BY <1>5, <3>2, <3>3, Zenon
  <2> QED BY <1>1, <1>3, <1>5, <2>1, <2>2 DEF LoopOK
<1> QED BY <1>1, <1>2, <1>3, <1>5, <1>6, <1>12, <1>13, <1>14, <1>15 DEF a, t

(* The load of a bulk request. *)
LEMMA LoopBegins ==
  ASSUME Shape, NEW c \in Clients, LoadBulk(c)
  PROVE  /\ Bulking(c)' /\ LoopOK(c)' /\ FirstOf(Texts(c), Done(c))' = {}
         /\ base'[c] = Content /\ draft'[c] = Content /\ added' = added
         /\ at[c] = "start" /\ at'[c] = "edit" /\ scenario' = scenario /\ Loadable
<1>1. /\ Request[c].op = "bulk" /\ Parsed(c).ok /\ Texts(c) # <<>>
      /\ at[c] = "start" /\ at'[c] = "edit" /\ todo'[c] = Texts(c)
      /\ base'[c] = Content /\ draft'[c] = Content /\ added' = added
      /\ scenario' = scenario /\ Loadable
  BY DEF LoadBulk, Shape, history, Texts
<1>2. Request' = Request /\ Texts(c)' = Texts(c) /\ Bulking(c)' /\ Parsed(c)'.ok
  BY <1>1 DEF Texts, Parsed, Request, Bulking
<1> DEFINE t == Texts(c)
<1>3. t \in Seq(Address) /\ Len(t) \in Nat
  BY <1>1, TextsAre
<1>4. Done(c)' = Len(Texts(c)') - Len(todo'[c])
  BY DEF Done
<1> HIDE DEF t
<1>5. Done(c)' = 0
  BY <1>1, <1>2, <1>3, <1>4 DEF t
<1>6. LoopOK(c)'
  <2>1. \A k \in 1 .. Len(t) : 0 + k = k
    BY <1>3
  <2>2. Len(t) <= Len(t)
    BY <1>3
  <2> QED BY <1>1, <1>2, <1>3, <1>5, <2>1, <2>2 DEF LoopOK, t
<1>7. FirstOf(Texts(c), Done(c))' = {}
  <2>1. 1 .. 0 = {}
    OBVIOUS
  <2> QED BY <1>5, <2>1 DEF FirstOf
<1> QED BY <1>1, <1>2, <1>6, <1>7

(* A plain step leaves the loop of a bulk request as it is.                *)
LEMMA PlainKeeps ==
  ASSUME scenario' = scenario, NEW c, PlainStep(c)
  PROVE  /\ ClientOK(c) => ClientOK(c)'
         /\ Bulking(c)' => /\ Bulking(c) /\ base'[c] = base[c] /\ draft'[c] = draft[c]
                           /\ added'[c] = added[c]
                           /\ FirstOf(Texts(c), Done(c))' = FirstOf(Texts(c), Done(c))
<1>1. Request' = Request
  BY DEF Request
<1>2. Texts(c)' = Texts(c) /\ Parsed(c)' = Parsed(c)
  BY <1>1 DEF Texts, Parsed
<1>3. CASE at'[c] \notin {"start", "edit"} /\ ~(Bulking(c)')
  BY <1>3 DEF ClientOK
<1>4. CASE /\ base'[c] = base[c] /\ draft'[c] = draft[c] /\ todo'[c] = todo[c]
           /\ added'[c] = added[c]
           /\ at'[c] # at[c] => /\ at'[c] \notin {"start", "edit"} /\ Bulking(c)
                                /\ at[c] = "edit" => todo[c] = <<>>
  <2>1. Done(c)' = Done(c)
    BY <1>2, <1>4 DEF Done
  <2>2. FirstOf(Texts(c), Done(c))' = FirstOf(Texts(c), Done(c))
    BY <1>2, <2>1 DEF FirstOf
  <2>3. Bulking(c)' => Bulking(c)
    BY <1>1, <1>4 DEF Bulking
  <2>4. Addresses(draft[c])' = Addresses(draft[c]) /\ Addresses(base[c])' = Addresses(base[c])
    BY <1>4 DEF Addresses
  <2>5. ASSUME LoopOK(c), Bulking(c) PROVE LoopOK(c)'
    <3>1. at'[c] # "edit" => Len(todo[c]) = 0
      BY <1>4, <2>5 DEF LoopOK
    <3> QED BY <1>2, <1>4, <2>1, <2>5, <3>1 DEF LoopOK
  <2>6. ASSUME ClientOK(c) PROVE ClientOK(c)'
    BY <1>1, <1>4, <2>2, <2>3, <2>4, <2>5, <2>6 DEF ClientOK
  <2> QED BY <1>4, <2>2, <2>3, <2>6
<1> QED BY <1>3, <1>4 DEF PlainStep

(* Initially nobody is in a loop. *)
LEMMA ClientsInit == Init => ClientsOK
  BY DEF Init, ClientsOK, ClientOK, Bulking

(* The loop adds just the addresses it is given. *)
LEMMA ClientsNext == Shape /\ ListsNamed /\ ClientsOK /\ [Next]_vars => ClientsOK'
<1> SUFFICES ASSUME Shape, ListsNamed, ClientsOK, [Next]_vars PROVE ClientsOK'
  OBVIOUS
<1>1. scenario' = scenario /\ \A d \in Clients : PlainStep(d) \/ LoadBulk(d) \/ BulkNext(d)
  BY StepsArePlain
<1>2. Request' = Request /\ Clients' = Clients
  BY <1>1 DEF Clients, Request
<1>3. ASSUME NEW c \in Clients, PlainStep(c) PROVE ClientOK(c)'
  BY <1>1, <1>3, PlainKeeps DEF ClientsOK
<1>4. ASSUME NEW c \in Clients, LoadBulk(c) PROVE ClientOK(c)'
  <2>1. /\ LoopOK(c)' /\ base'[c] = draft'[c] /\ at'[c] = "edit"
        /\ Request[c].op = "bulk"
    BY <1>4, LoopBegins DEF LoadBulk
  <2>2. Addresses(draft[c])' = Addresses(base[c])'
    BY <2>1 DEF Addresses
  <2> QED BY <1>2, <2>1, <2>2 DEF ClientOK
<1>5. ASSUME NEW c \in Clients, BulkNext(c) PROVE ClientOK(c)'
  <2> DEFINE a == Head(todo[c])
             s == Addresses(base[c]) \cup FirstOf(Texts(c), Done(c))
             pc == Listed(base[c], a, Request[c].user)
  <2>1. /\ Bulking(c) /\ LoopOK(c)'
        /\ FirstOf(Texts(c), Done(c))' = FirstOf(Texts(c), Done(c)) \cup {a}
        /\ draft'[c] = AddOrUpdatePC(draft[c], pc) /\ base' = base /\ at' = at
    BY <1>5, LoopGoesOn DEF ClientsOK
  <2>2. IsList(draft[c]) /\ Addresses(draft[c]) \subseteq s
    BY <2>1 DEF ListsNamed, NamedList, ClientsOK, ClientOK
  <2>3. pc.addr = a
    BY DEF Listed
  <2>4. Addresses(AddOrUpdatePC(draft[c], pc)) \subseteq s \cup {pc.addr}
    <3> HIDE DEF s, pc
    <3> QED BY <2>2, OnlyNext
  <2>5. Addresses(draft[c])' \subseteq Addresses(base[c])' \cup FirstOf(Texts(c), Done(c))'
    <3>1. Addresses(draft[c])' = Addresses(AddOrUpdatePC(draft[c], pc))
      BY <2>1 DEF Addresses
    <3>2. Addresses(base[c])' = Addresses(base[c])
      BY <2>1 DEF Addresses
    <3> HIDE DEF pc
    <3> QED BY <2>1, <2>3, <2>4, <3>1, <3>2
  <2>6. at[c] = "edit"
    BY <1>5 DEF BulkNext
  <2> QED BY <1>2, <2>1, <2>5, <2>6 DEF ClientOK, Bulking
<1> QED BY <1>1, <1>2, <1>3, <1>4, <1>5 DEF ClientsOK

(* A bulk request that goes on to save has done all it was asked.          *)
LEMMA EditedIsDone ==
  ASSUME Shape, ClientsOK, NEW c \in Clients, Edited(c)
  PROVE  Bulking(c) /\ Request[c].op = "bulk" /\ Parsed(c).ok /\ FirstOf(Texts(c), Done(c)) = Asked(c)
<1>1. Request[c].op = "bulk" /\ Bulking(c) /\ at[c] # "edit"
  BY DEF Edited, Bulking
<1>2. Parsed(c).ok /\ Len(todo[c]) = 0
  BY <1>1 DEF ClientsOK, ClientOK, LoopOK
<1>3. Len(Texts(c)) \in Nat /\ Asked(c) = FirstOf(Texts(c), Len(Texts(c)))
  BY <1>1, <1>2, TextsAre
<1>4. Done(c) = Len(Texts(c))
  BY <1>2, <1>3 DEF Done
<1> QED BY <1>1, <1>2, <1>3, <1>4

(* A bulk request stores no address its text does not mean, whatever the   *)
(* limit, the width, and the requests around it; a text with a bad item or *)
(* with too many hosts never gets as far as that (address_specs.go,        *)
(* handleBulkPCs).                                                         *)
THEOREM StoresNothingElse == Spec => []BulkStoresNothingElse
<1> DEFINE Inv == Shape /\ ListsNamed /\ ClientsOK
<1>1. Init => Inv
  BY ShapeInit, ListsInit, ClientsInit
<1>2. Inv /\ [Next]_vars => Inv'
  BY ShapeNext, ListsNext, ClientsNext
<1>3. Inv => BulkStoresNothingElse
  <2> SUFFICES ASSUME Inv, NEW c \in Clients, Edited(c)
               PROVE  /\ Addresses(draft[c]) \subseteq Asked(c) \cup Addresses(base[c])
                      /\ \A item \in ToSet(Request[c].items) :
                           item.kind # "bad"
                             /\ (item.kind = "one" \/ Cardinality(Meant(item)) <= Limit(c))
    BY DEF BulkStoresNothingElse
  <2>1. /\ Bulking(c) /\ Request[c].op = "bulk" /\ Parsed(c).ok
        /\ FirstOf(Texts(c), Done(c)) = Asked(c)
    BY EditedIsDone
  <2>2. Addresses(draft[c]) \subseteq Asked(c) \cup Addresses(base[c])
    BY <2>1 DEF ClientsOK, ClientOK
  <2>3. \A k \in DOMAIN Request[c].items :
          /\ Request[c].items[k].kind # "bad"
          /\ Request[c].items[k].kind # "one" => Cardinality(Meant(Request[c].items[k])) <= Limit(c)
    BY <2>1, TextsAre
  <2>4. \A item \in ToSet(Request[c].items) :
          \E k \in DOMAIN Request[c].items : item = Request[c].items[k]
    BY ConfigAssumption, <2>1 DEF ToSet, Shape, Clients, Request
  <2> QED BY <2>2, <2>3, <2>4
<1> QED BY <1>1, <1>2, <1>3, PTL DEF Spec

---------------------------------------------------------------------------
(* While nobody gives a PC the automatic name of another address, every PC *)
(* has a name of its own, and the bulk loop keeps every PC it finds.       *)
OwnLists ==
  /\ file.kind = "config" => OwnNames(file.pcs)
  /\ \A c \in Clients : OwnNames(base[c]) /\ OwnNames(draft[c])

KeptInv ==
  \A c \in Clients : Bulking(c) =>
    Kept(base[c], draft[c], added[c], FirstOf(Texts(c), Done(c)))

(* Initially the file has such PCs. *)
LEMMA OwnInit == NamesAreTheirs /\ Init => OwnLists /\ KeptInv
<1> SUFFICES ASSUME NamesAreTheirs, Init PROVE OwnLists /\ KeptInv
  OBVIOUS
<1>1. file = Absent \/ \E pcs \in InitialPCs : file = Holding(pcs)
  BY DEF Init
<1>2. file.kind = "config" => OwnNames(file.pcs)
  <2>1. \A pcs \in InitialPCs : OwnNames(pcs)
    BY DEF NamesAreTheirs, OwnNames
  <2> QED BY <1>1, <2>1 DEF Absent, Holding
<1>3. \A c \in Clients : base[c] = <<>> /\ draft[c] = <<>> /\ at[c] = "start"
  BY DEF Init
<1> QED BY <1>2, <1>3 DEF OwnLists, OwnNames, KeptInv, Bulking

(* A load that succeeds gives such a list. *)
LEMMA ContentOwn == Shape /\ OwnLists /\ Loadable => OwnNames(Content)
  BY DEF Shape, OwnLists, OwnNames, Loadable, Content, Absent, Broken, Holding

(* Every step gives PCs names of their own. *)
LEMMA OwnNext ==
  NamesAreTheirs /\ Shape /\ ListsNamed /\ ClientsOK /\ OwnLists /\ [Next]_vars => OwnLists'
<1> SUFFICES ASSUME NamesAreTheirs, Shape, ListsNamed, ClientsOK, OwnLists, [Next]_vars
             PROVE  OwnLists'
  OBVIOUS
<1> USE DEF Shape, OwnLists, history, Clients, Request
<1>1. ASSUME NEW c \in Clients, RefuseBulk(c) PROVE OwnLists'
  BY <1>1 DEF RefuseBulk
<1>2. ASSUME NEW c \in Clients, LoadFails(c) PROVE OwnLists'
  BY <1>2 DEF LoadFails
<1>3. ASSUME NEW c \in Clients, Read(c) PROVE OwnLists'
  BY <1>3, ContentOwn DEF Read
<1>4. ASSUME NEW c \in Clients, LoadAdd(c) PROVE OwnLists'
  <2>1. NamedList(Content) /\ OwnNames(Content)
    BY <1>4, ContentOwn, ContentNamed DEF LoadAdd
  <2>2. Request[c].op = "add"
    BY <1>4 DEF LoadAdd
  <2>3. ASSUME Valid(Request[c].pc) PROVE OwnNames(AddOrUpdatePC(Content, Request[c].pc))
    <3>1. Own(Request[c].pc)
      BY <2>2, <2>3 DEF NamesAreTheirs
    <3> QED BY <2>1, <3>1, AddKeepsOwn DEF NamedList
  <2> QED BY <1>4, <2>1, <2>3 DEF LoadAdd
<1>5. ASSUME NEW c \in Clients, LoadRemove(c) PROVE OwnLists'
  <2>1. NamedList(Content) /\ OwnNames(Content)
    BY <1>5, ContentOwn, ContentNamed DEF LoadRemove
  <2>2. ASSUME Named(Content, Request[c].name) # {}
        PROVE  OwnNames(RemovePC(Content, Request[c].name))
    BY <2>1, <2>2, RemoveKeepsOwn DEF NamedList
  <2> QED BY <1>5, <2>1, <2>2 DEF LoadRemove
<1>6. ASSUME NEW c \in Clients, LoadBulk(c) PROVE OwnLists'
  BY <1>6, ContentOwn DEF LoadBulk
<1>7. ASSUME NEW c \in Clients, BulkNext(c) PROVE OwnLists'
  <2> DEFINE a == Head(todo[c])
             pc == Listed(base[c], a, Request[c].user)
             d == AddOrUpdatePC(draft[c], pc)
  <2>1. a \in Address /\ draft'[c] = d
    BY <1>7, LoopGoesOn DEF ClientsOK
  <2>2. IsList(base[c]) /\ IsList(draft[c]) /\ OwnNames(base[c]) /\ OwnNames(draft[c])
    BY DEF ListsNamed, NamedList
  <2>3. Own(pc)
    <3> HIDE DEF a
    <3> QED BY <2>1, <2>2, ListedIsOwn
  <2>4. OwnNames(d)
    <3> HIDE DEF pc
    <3> QED BY <2>2, <2>3, AddKeepsOwn
  <2> HIDE DEF d
  <2> QED BY <1>7, <2>1, <2>4 DEF BulkNext
<1>8. ASSUME NEW c \in Clients, BulkReady(c) PROVE OwnLists'
  BY <1>8 DEF BulkReady
<1>9. ASSUME NEW c \in Clients, OpenFile(c) PROVE OwnLists'
  BY <1>9 DEF OpenFile, Truncated, Broken
<1>10. ASSUME NEW c \in Clients, WriteFile(c) PROVE OwnLists'
  BY <1>10 DEF WriteFile, Overwritten, Broken, Holding
<1>11. ASSUME NEW c \in Clients, OpenFails(c) \/ WriteFails(c) PROVE OwnLists'
  BY <1>11 DEF OpenFails, WriteFails
<1>12. ASSUME NEW c \in Clients, Kill(c) PROVE OwnLists'
  BY <1>12 DEF Kill
<1>13. CASE UNCHANGED vars
  BY <1>13 DEF vars
<1> QED
  BY <1>1, <1>2, <1>3, <1>4, <1>5, <1>6, <1>7, <1>8, <1>9, <1>10, <1>11, <1>12, <1>13
  DEF Next, AllEnded

(* A list keeps all of itself. *)
LEMMA KeptAtFirst == ASSUME NEW b, IsList(b) PROVE Kept(b, b, 0, {})
<1> DEFINE n == Len(b)
<1>1. n \in Nat /\ DOMAIN b = 1 .. n
  BY ListIs
<1> HIDE DEF n
<1>2. n = n + 0 /\ n + 1 .. n + 0 = {}
  BY <1>1
<1> QED BY <1>1, <1>2 DEF Kept, n

(* The loop keeps what was loaded, and counts what it appends. *)
LEMMA KeptInvNext ==
  NamesAreTheirs /\ Shape /\ ListsNamed /\ ClientsOK /\ OwnLists /\ KeptInv /\ [Next]_vars => KeptInv'
<1> SUFFICES ASSUME NamesAreTheirs, Shape, ListsNamed, ClientsOK, OwnLists, KeptInv, [Next]_vars
             PROVE  KeptInv'
  OBVIOUS
<1> DEFINE OK(c) == Bulking(c) => Kept(base[c], draft[c], added[c], FirstOf(Texts(c), Done(c)))
<1>1. scenario' = scenario /\ \A d \in Clients : PlainStep(d) \/ LoadBulk(d) \/ BulkNext(d)
  BY StepsArePlain
<1>2. Clients' = Clients
  BY <1>1 DEF Clients, Request
<1>3. ASSUME NEW c \in Clients, PlainStep(c), Bulking(c)'
      PROVE  Kept(base'[c], draft'[c], added'[c], FirstOf(Texts(c), Done(c))')
  <2>1. /\ Bulking(c) /\ base'[c] = base[c] /\ draft'[c] = draft[c] /\ added'[c] = added[c]
        /\ FirstOf(Texts(c), Done(c))' = FirstOf(Texts(c), Done(c))
    BY <1>1, <1>3, PlainKeeps
  <2>2. Kept(base[c], draft[c], added[c], FirstOf(Texts(c), Done(c)))
    BY <2>1 DEF KeptInv
  <2> QED BY <2>1, <2>2, Zenon
<1>4. ASSUME NEW c \in Clients, LoadBulk(c)
      PROVE  Kept(base'[c], draft'[c], added'[c], FirstOf(Texts(c), Done(c))')
  <2>1. /\ FirstOf(Texts(c), Done(c))' = {} /\ at[c] = "start" /\ Loadable
        /\ base'[c] = Content /\ draft'[c] = Content /\ added' = added
    BY <1>4, LoopBegins
  <2>2. added[c] = 0
    BY <2>1 DEF ClientsOK, ClientOK
  <2>3. Kept(Content, Content, 0, {})
    BY <2>1, ContentNamed, KeptAtFirst DEF NamedList
  <2> QED BY <2>1, <2>2, <2>3, Zenon
<1>5. ASSUME NEW c \in Clients, BulkNext(c)
      PROVE  Kept(base'[c], draft'[c], added'[c], FirstOf(Texts(c), Done(c))')
  <2> DEFINE a == Head(todo[c])
             s == FirstOf(Texts(c), Done(c))
             user == Request[c].user
  <2>1. /\ Bulking(c) /\ a \in Address /\ a \notin s
        /\ FirstOf(Texts(c), Done(c))' = s \cup {a}
        /\ draft'[c] = AddOrUpdatePC(draft[c], Listed(base[c], a, user)) /\ base' = base
        /\ added'[c] = added[c] + (IF Existing(base[c], a) = "" THEN 1 ELSE 0)
    BY <1>5, LoopGoesOn DEF ClientsOK
  <2>2. /\ IsList(base[c]) /\ OwnNames(base[c])
        /\ IsList(draft[c]) /\ UniqueNames(draft[c]) /\ OwnNames(draft[c])
    BY DEF ListsNamed, NamedList, OwnLists
  <2>3. Kept(base[c], draft[c], added[c], s)
    BY <2>1 DEF KeptInv
  <2> HIDE DEF a, s, user
  <2>4. Kept(base[c], AddOrUpdatePC(draft[c], Listed(base[c], a, user)),
             added[c] + (IF Existing(base[c], a) = "" THEN 1 ELSE 0), s \cup {a})
    BY <2>1, <2>2, <2>3, KeptNext
  <2> QED BY <2>1, <2>4, Zenon
<1>6. \A c \in Clients : Bulking(c)' => Kept(base'[c], draft'[c], added'[c], FirstOf(Texts(c), Done(c))')
  BY <1>1, <1>3, <1>4, <1>5, Zenon
<1> QED BY <1>2, <1>6 DEF KeptInv, Kept, Addresses

(* What the clients have while names are their owners'. *)
OwnInv == Shape /\ ListsNamed /\ ClientsOK /\ OwnLists /\ KeptInv

(* It holds in every state. *)
LEMMA OwnAlways == NamesAreTheirs => (Spec => []OwnInv)
<1> SUFFICES ASSUME NamesAreTheirs PROVE Spec => []OwnInv
  OBVIOUS
<1>1. Init => OwnInv
  BY ShapeInit, ListsInit, ClientsInit, OwnInit DEF OwnInv
<1>2. OwnInv /\ [Next]_vars => OwnInv'
  BY ShapeNext, ListsNext, ClientsNext, OwnNext, KeptInvNext DEF OwnInv
<1> QED BY <1>1, <1>2, PTL DEF Spec

(* What the loop has done when it is done. *)
LEMMA KeptWhenEdited ==
  ASSUME OwnInv, NEW c \in Clients, Edited(c)
  PROVE  /\ Kept(base[c], draft[c], added[c], Asked(c))
         /\ IsList(base[c]) /\ IsList(draft[c]) /\ UniqueNames(draft[c])
<1>1. Bulking(c) /\ FirstOf(Texts(c), Done(c)) = Asked(c)
  BY EditedIsDone DEF OwnInv
<1>2. Kept(base[c], draft[c], added[c], FirstOf(Texts(c), Done(c)))
  BY <1>1 DEF OwnInv, KeptInv
<1> QED BY <1>1, <1>2 DEF OwnInv, ListsNamed, NamedList

(* As long as names are their owners', when a bulk request is answered all *)
(* the addresses its text means have a PC and all PCs the config had are   *)
(* still there, whatever the text, the list and the other requests are     *)
(* (handleBulkPCs).  Without that it is not so: see the run config_misnamed. *)
THEOREM KeepsAndStores == NamesAreTheirs => (Spec => []BulkKeepsAndStores)
<1>1. OwnInv => BulkKeepsAndStores
  <2> SUFFICES ASSUME OwnInv, NEW c \in Clients, Edited(c)
               PROVE  Asked(c) \cup Addresses(base[c]) \subseteq Addresses(draft[c])
    BY DEF BulkKeepsAndStores
  <2> DEFINE b == base[c]
             d == draft[c]
  <2>1. Kept(b, d, added[c], Asked(c)) /\ IsList(b) /\ IsList(d)
    BY KeptWhenEdited
  <2> HIDE DEF b, d
  <2>2. Len(b) \in Nat /\ DOMAIN b = 1 .. Len(b) /\ Len(d) \in Nat /\ DOMAIN d = 1 .. Len(d)
    BY <2>1, ListIs
  <2>3. ASSUME NEW k \in 1 .. Len(b) PROVE b[k].addr \in Addresses(d)
    <3>1. k \in 1 .. Len(d) /\ d[k].addr = b[k].addr
      BY <2>1, <2>2 DEF Kept
    <3> QED BY <2>2, <3>1 DEF Addresses
  <2>4. Addresses(b) \subseteq Addresses(d)
    BY <2>2, <2>3 DEF Addresses
  <2>5. Asked(c) \subseteq Addresses(d)
    BY <2>1 DEF Kept
  <2> QED BY <2>4, <2>5 DEF b, d
<1> QED BY <1>1, OwnAlways, PTL

(* And it makes no second PC of an address, and tells its user how many it *)
(* added: the map of handleBulkPCs need not be kept up in the loop.        *)
THEOREM UpdatesInPlace == NamesAreTheirs => (Spec => []BulkUpdatesInPlace)
<1>1. OwnInv => BulkUpdatesInPlace
  <2> SUFFICES ASSUME OwnInv, NEW c \in Clients, Edited(c), UniqueAddresses(base[c])
               PROVE  UniqueAddresses(draft[c]) /\ Len(draft[c]) = Len(base[c]) + added[c]
    BY DEF BulkUpdatesInPlace
  <2> DEFINE b == base[c]
             d == draft[c]
             n == Len(b)
             m == added[c]
  <2>1. Kept(b, d, m, Asked(c)) /\ IsList(b) /\ IsList(d) /\ UniqueNames(d)
    BY KeptWhenEdited
  <2>2. UniqueAddresses(b)
    OBVIOUS
  <2> HIDE DEF b, d, m
  <2>3. /\ n \in Nat /\ DOMAIN b = 1 .. n
        /\ m \in Nat /\ Len(d) = n + m /\ DOMAIN d = 1 .. n + m
        /\ \A k \in 1 .. n : d[k].addr = b[k].addr
        /\ \A k \in n + 1 .. n + m : d[k].addr \notin Addresses(b) /\ d[k].name = AutoName[d[k].addr]
    <3>1. n \in Nat /\ DOMAIN b = 1 .. n /\ DOMAIN d = 1 .. Len(d)
      BY <2>1, ListIs
    <3> QED BY <2>1, <3>1 DEF Kept
  <2>4. \A k \in 1 .. n : b[k].addr \in Addresses(b)
    BY <2>3 DEF Addresses
  <2> HIDE DEF n
  <2>5. ASSUME NEW j \in 1 .. n + m, NEW k \in 1 .. n + m, d[j].addr = d[k].addr PROVE j = k
    <3>1. /\ j \in 1 .. n \/ j \in n + 1 .. n + m
          /\ k \in 1 .. n \/ k \in n + 1 .. n + m
      BY <2>3
    <3>2. CASE j \in 1 .. n /\ k \in 1 .. n
      BY <2>2, <2>3, <2>5, <3>2 DEF UniqueAddresses
    <3>3. CASE j \in n + 1 .. n + m /\ k \in n + 1 .. n + m
      <4>1. d[j].name = d[k].name
        BY <2>3, <2>5, <3>3
      <4> QED BY <2>1, <2>3, <4>1 DEF UniqueNames
    <3>4. ~(j \in 1 .. n /\ k \in n + 1 .. n + m)
      BY <2>3, <2>4, <2>5
    <3>5. ~(k \in 1 .. n /\ j \in n + 1 .. n + m)
      BY <2>3, <2>4, <2>5
    <3> QED BY <3>1, <3>2, <3>3, <3>4, <3>5
  <2>6. UniqueAddresses(d)
    BY <2>3, <2>5 DEF UniqueAddresses
  <2> QED BY <2>3, <2>6 DEF b, d, n, m
<1> QED BY <1>1, OwnAlways, PTL

---------------------------------------------------------------------------
(* The specification of what a request does to the list as a whole, and the *)
(* steps of the code.                                                      *)

(* lists[k] is the list with the first k addresses in it (BulkEffect).     *)
Growing(pcs, addresses, user, n, lists) ==
  lists = [k \in 0 .. n |-> IF k = 0 THEN pcs
                            ELSE AddOrUpdatePC(lists[k - 1], Listed(pcs, addresses[k], user))]

(* There are such lists. *)
LEMMA ListsGrow ==
  ASSUME NEW pcs, NEW addresses, NEW user
  PROVE  \A n \in Nat : \E lists : Growing(pcs, addresses, user, n, lists)
<1> DEFINE Next1(q, k) == AddOrUpdatePC(q, Listed(pcs, addresses[k], user))
           Is(n, f) == Growing(pcs, addresses, user, n, f)
           T == {n \in Nat : ~ \E f : Is(n, f)}
<1> SUFFICES ASSUME T # {} PROVE FALSE
  OBVIOUS
<1>1. T \subseteq Nat
  OBVIOUS
<1>2. PICK n \in T : \A m \in T : n <= m
  <2> HIDE DEF T
  <2> QED BY <1>1, Least
<1>3. n \in Nat /\ ~ \E f : Is(n, f)
  OBVIOUS
<1>4. CASE n = 0
  <2> DEFINE f == [k \in 0 .. n |-> pcs]
  <2>1. f = [k \in 0 .. n |-> IF k = 0 THEN pcs ELSE Next1(f[k - 1], k)]
    BY <1>4
  <2>2. Is(n, f)
    <3> HIDE DEF f
    <3> QED BY <2>1 DEF Growing
  <2> QED BY <1>3, <2>2
<1>5. CASE n # 0
  <2>1. n - 1 \in Nat /\ n - 1 \notin T
    BY <1>1, <1>2, <1>3, <1>5
  <2>2. PICK g : Is(n - 1, g)
    BY <2>1
  <2>3. g = [k \in 0 .. n - 1 |-> IF k = 0 THEN pcs ELSE Next1(g[k - 1], k)]
    BY <2>2 DEF Growing
  <2> HIDE DEF Next1
  <2>4. \A k \in 0 .. n - 1 : g[k] = IF k = 0 THEN pcs ELSE Next1(g[k - 1], k)
    BY <2>3
  <2> DEFINE f == [k \in 0 .. n |-> IF k = n THEN Next1(g[n - 1], n) ELSE g[k]]
  <2>5. \A k \in 0 .. n : f[k] = IF k = 0 THEN pcs ELSE Next1(f[k - 1], k)
    <3> SUFFICES ASSUME NEW k \in 0 .. n PROVE f[k] = IF k = 0 THEN pcs ELSE Next1(f[k - 1], k)
      OBVIOUS
    <3>1. k # 0 => f[k - 1] = g[k - 1]
      BY <1>3
    <3>2. k # n => k \in 0 .. n - 1
      BY <1>3
    <3> QED BY <1>5, <2>4, <3>1, <3>2
  <2>6. f = [k \in 0 .. n |-> f[k]]
    OBVIOUS
  <2>7. Is(n, f)
    <3> HIDE DEF f
    <3>1. f = [k \in 0 .. n |-> IF k = 0 THEN pcs ELSE Next1(f[k - 1], k)]
      BY <2>5, <2>6
    <3> QED BY <3>1 DEF Growing, Next1
  <2> QED BY <1>3, <2>7
<1> QED BY <1>4, <1>5

(* The lists of a bulk request on pcs. *)
ListsOf(r, pcs) ==
  CHOOSE lists : Growing(pcs, ParseAddressSpecs(r.items, r.limit).addresses, r.user,
                         Len(ParseAddressSpecs(r.items, r.limit).addresses), lists)

(* They begin with pcs, each has one address more, and the last is what    *)
(* the register has after the request.                                     *)
LEMMA ListsAre ==
  ASSUME NEW r, NEW pcs, Len(ParseAddressSpecs(r.items, r.limit).addresses) \in Nat
  PROVE  LET t == ParseAddressSpecs(r.items, r.limit).addresses
         IN  /\ ListsOf(r, pcs)[0] = pcs
             /\ \A k \in 1 .. Len(t) : ListsOf(r, pcs)[k] =
                  AddOrUpdatePC(ListsOf(r, pcs)[k - 1], Listed(pcs, t[k], r.user))
             /\ BulkEffect(r, pcs) = ListsOf(r, pcs)[Len(t)]
<1> DEFINE t == ParseAddressSpecs(r.items, r.limit).addresses
           n == Len(t)
           f == ListsOf(r, pcs)
<1>1. \E lists : Growing(pcs, t, r.user, n, lists)
  <2> HIDE DEF t
  <2> QED BY ListsGrow DEF t
<1>2. Growing(pcs, t, r.user, n, f)
  <2> HIDE DEF t
  <2> QED BY <1>1 DEF ListsOf, t
<1>3. BulkEffect(r, pcs) = f[n]
  BY DEF BulkEffect, ListsOf, Growing, Listed
<1>4. n \in Nat
  OBVIOUS
<1> HIDE DEF t, n, f
<1>5. f = [k \in 0 .. n |-> IF k = 0 THEN pcs
                            ELSE AddOrUpdatePC(f[k - 1], Listed(pcs, t[k], r.user))]
  BY <1>2 DEF Growing
<1>6. \A k \in 0 .. n : f[k] = IF k = 0 THEN pcs
                            ELSE AddOrUpdatePC(f[k - 1], Listed(pcs, t[k], r.user))
  BY <1>5
<1>7. 0 \in 0 .. n /\ \A k \in 1 .. n : k \in 0 .. n /\ k # 0
  BY <1>4
<1>8. f[0] = pcs
  BY <1>6, <1>7
<1>9. \A k \in 1 .. n : f[k] = AddOrUpdatePC(f[k - 1], Listed(pcs, t[k], r.user))
  BY <1>6, <1>7
<1> QED BY <1>3, <1>8, <1>9 DEF t, n, f

(* Where names are unique, removing the first PC of a name leaves the PCs  *)
(* that do not have it.                                                    *)
LEMMA RemoveIsWithout ==
  ASSUME NEW pcs, IsList(pcs), UniqueNames(pcs), NEW name, Named(pcs, name) # {}
  PROVE  RemovePC(pcs, name) = Without(pcs, name)
<1> DEFINE k == FirstNamed(pcs, name)
           d == RemovePC(pcs, name)
           n == Len(pcs)
           S == (1 .. n) \ {k}
<1>1. /\ k \in Named(pcs, name) /\ k \in 1 .. n /\ IsList(d) /\ Len(d) = n - 1
      /\ \A i \in 1 .. n - 1 : d[i] = IF i < k THEN pcs[i] ELSE pcs[i + 1]
  BY RemoveIs
<1>2. n \in Nat /\ DOMAIN pcs = 1 .. n /\ DOMAIN d = 1 .. n - 1
  BY <1>1, ListIs
<1> HIDE DEF k, d, n
<1>3. Named(pcs, name) = {k}
  BY <1>1 DEF Named, UniqueNames
<1>4. k \in Int /\ 1 \in Int /\ n \in Int
  BY <1>1, <1>2
<1>5. IsFiniteSet(1 .. n) /\ Cardinality(1 .. n) = n
  BY <1>2, FS_Interval
<1>6. IsFiniteSet(S) /\ Cardinality(S) = n - 1 /\ S \in SUBSET Int
  <2>1. IsFiniteSet(S) /\ Cardinality(S) = n - 1
    BY <1>1, <1>5, FS_RemoveElement
  <2>2. \A x \in 1 .. n : x \in Int
    BY <1>4
  <2> QED BY <2>1, <2>2
<1> HIDE DEF S
<1>7. /\ InOrder(S) \in [1 .. n - 1 -> S]
      /\ \A x \in S : InOrder(S)[Cardinality({m \in S : m < x}) + 1] = x
  BY <1>6, Enumerates
<1>8. ASSUME NEW i \in 1 .. n - 1 PROVE InOrder(S)[i] = IF i < k THEN i ELSE i + 1
  <2>1. CASE i < k
    <3>1. i \in S /\ {m \in S : m < i} = 1 .. i - 1
      BY <1>1, <1>2, <1>4, <2>1 DEF S
    <3>2. Cardinality(1 .. i - 1) = i - 1
      BY FS_Interval
    <3>3. InOrder(S)[(i - 1) + 1] = i
      BY <1>7, <3>1, <3>2
    <3> QED BY <2>1, <3>3
  <2>2. CASE ~(i < k)
    <3>1. i + 1 \in S /\ {m \in S : m < i + 1} = (1 .. i) \ {k} /\ k \in 1 .. i
      BY <1>1, <1>2, <1>4, <2>2 DEF S
    <3>2. IsFiniteSet(1 .. i) /\ Cardinality(1 .. i) = i
      BY FS_Interval
    <3>3. Cardinality((1 .. i) \ {k}) = i - 1
      BY <3>1, <3>2, FS_RemoveElement
    <3>4. InOrder(S)[(i - 1) + 1] = i + 1
      BY <1>7, <3>1, <3>3
    <3> QED BY <2>2, <3>4
  <2> QED BY <2>1, <2>2
<1>9. InOrder(DOMAIN pcs \ Named(pcs, name)) = InOrder(S)
  BY <1>2, <1>3 DEF S
<1>10. DOMAIN InOrder(S) = 1 .. n - 1
  BY <1>7
<1>11. Without(pcs, name) = [i \in 1 .. n - 1 |-> pcs[InOrder(S)[i]]]
  BY <1>9, <1>10 DEF Without
<1>12. \A i \in 1 .. n - 1 : d[i] = pcs[InOrder(S)[i]]
  BY <1>1, <1>8
<1>13. d = [i \in 1 .. n - 1 |-> d[i]]
  BY <1>1, <1>2 DEF IsList
<1> QED BY <1>11, <1>12, <1>13 DEF d

(* While requests take turns one at a time is under way ... *)
SerialTurns ==
  /\ ~hurt
  /\ \A c \in Clients : UnderWay(c) => c \in Savers
  /\ \A c, d \in Clients : UnderWay(c) /\ UnderWay(d) => c = d

(* ... and what it loaded is the list until it writes, ...                 *)
SerialLoads == \A c \in Clients : at[c] \in {"edit", "save"} => base[c] = Content

(* ... and the list it has is what the request makes of that, in a bulk    *)
(* request as far as the loop is.                                          *)
SerialEffects ==
  \A c \in Clients :
    /\ Bulking(c) => draft[c] = ListsOf(Request[c], base[c])[Done(c)]
    /\ at[c] \in {"save", "saving"} =>
         RequestPermitted(Request[c], base[c]) /\ draft[c] = RequestEffect(Request[c], base[c])

SerialInv == scenario.serial => SerialTurns /\ SerialLoads /\ SerialEffects

(* Initially nobody is under way. *)
LEMMA SerialInit == Init => SerialInv
  BY DEF Init, SerialInv, SerialTurns, SerialLoads, SerialEffects, UnderWay, Bulking

(* No request of a serial scenario can be killed. *)
LEMMA NobodyKilled == SerialSafe /\ Shape /\ scenario.serial => Killable = {}
  BY DEF SerialSafe, Shape, Killable

(* A saving request starts only when no other is under way. *)
LEMMA TurnsNext ==
  SerialSafe /\ Shape /\ scenario.serial /\ SerialTurns /\ [Next]_vars => SerialTurns'
<1> SUFFICES ASSUME SerialSafe, Shape, scenario.serial, SerialTurns, [Next]_vars
             PROVE  SerialTurns'
  OBVIOUS
<1> USE DEF Shape, SerialTurns, UnderWay, Savers, history, Clients, Request
<1>1. ASSUME NEW c \in Clients, RefuseBulk(c) PROVE SerialTurns'
  BY <1>1 DEF RefuseBulk
<1>2. ASSUME NEW c \in Clients, LoadFails(c) PROVE SerialTurns'
  BY <1>2 DEF LoadFails
<1>3. ASSUME NEW c \in Clients, Read(c) PROVE SerialTurns'
  BY <1>3 DEF Read
<1>4. ASSUME NEW c \in Clients, LoadAdd(c) PROVE SerialTurns'
  BY <1>4 DEF LoadAdd, MayStart
<1>5. ASSUME NEW c \in Clients, LoadRemove(c) PROVE SerialTurns'
  BY <1>5 DEF LoadRemove, MayStart
<1>6. ASSUME NEW c \in Clients, LoadBulk(c) PROVE SerialTurns'
  BY <1>6 DEF LoadBulk, MayStart
<1>7. ASSUME NEW c \in Clients, BulkNext(c) PROVE SerialTurns'
  BY <1>7 DEF BulkNext
<1>8. ASSUME NEW c \in Clients, BulkReady(c) PROVE SerialTurns'
  BY <1>8 DEF BulkReady
<1>9. ASSUME NEW c \in Clients, OpenFile(c) PROVE SerialTurns'
  BY <1>9 DEF OpenFile
<1>10. ASSUME NEW c \in Clients, WriteFile(c) PROVE SerialTurns'
  BY <1>10 DEF WriteFile
<1>11. ASSUME NEW c \in Clients, OpenFails(c) \/ WriteFails(c) PROVE FALSE
  BY <1>11, NobodyKilled DEF OpenFails, WriteFails
<1>12. ASSUME NEW c \in Clients, Kill(c) PROVE FALSE
  BY <1>12, NobodyKilled DEF Kill
<1>13. CASE UNCHANGED vars
  BY <1>13 DEF vars
<1> QED
  BY <1>1, <1>2, <1>3, <1>4, <1>5, <1>6, <1>7, <1>8, <1>9, <1>10, <1>11, <1>12, <1>13
  DEF Next, AllEnded

(* Nobody else changes the file under a request. *)
LEMMA LoadsNext ==
  SerialSafe /\ Shape /\ scenario.serial /\ SerialTurns /\ SerialLoads /\ [Next]_vars => SerialLoads'
<1> SUFFICES ASSUME SerialSafe, Shape, scenario.serial, SerialTurns, SerialLoads, [Next]_vars
             PROVE  SerialLoads'
  OBVIOUS
<1> USE DEF Shape, SerialLoads, history, Clients, Request
<1>0. file' = file => Content' = Content
  BY DEF Content
<1>1. ASSUME NEW c \in Clients, RefuseBulk(c) PROVE SerialLoads'
  BY <1>0, <1>1 DEF RefuseBulk
<1>2. ASSUME NEW c \in Clients, LoadFails(c) PROVE SerialLoads'
  BY <1>0, <1>2 DEF LoadFails
<1>3. ASSUME NEW c \in Clients, Read(c) PROVE SerialLoads'
  BY <1>0, <1>3 DEF Read
<1>4. ASSUME NEW c \in Clients, LoadAdd(c) PROVE SerialLoads'
  BY <1>0, <1>4 DEF LoadAdd
<1>5. ASSUME NEW c \in Clients, LoadRemove(c) PROVE SerialLoads'
  BY <1>0, <1>5 DEF LoadRemove
<1>6. ASSUME NEW c \in Clients, LoadBulk(c) PROVE SerialLoads'
  BY <1>0, <1>6 DEF LoadBulk
<1>7. ASSUME NEW c \in Clients, BulkNext(c) PROVE SerialLoads'
  BY <1>0, <1>7 DEF BulkNext
<1>8. ASSUME NEW c \in Clients, BulkReady(c) PROVE SerialLoads'
  BY <1>0, <1>8 DEF BulkReady
<1>9. ASSUME NEW c \in Clients, OpenFile(c) PROVE SerialLoads'
  BY <1>9 DEF OpenFile, SerialTurns, UnderWay
<1>10. ASSUME NEW c \in Clients, WriteFile(c) PROVE SerialLoads'
  BY <1>10 DEF WriteFile, SerialTurns, UnderWay
<1>11. ASSUME NEW c \in Clients, OpenFails(c) \/ WriteFails(c) PROVE FALSE
  BY <1>11, NobodyKilled DEF OpenFails, WriteFails
<1>12. ASSUME NEW c \in Clients, Kill(c) PROVE FALSE
  BY <1>12, NobodyKilled DEF Kill
<1>13. CASE UNCHANGED vars
  BY <1>0, <1>13 DEF vars
<1> QED
  BY <1>1, <1>2, <1>3, <1>4, <1>5, <1>6, <1>7, <1>8, <1>9, <1>10, <1>11, <1>12, <1>13
  DEF Next, AllEnded

(* The loop makes the lists of the request one after the other. *)
LEMMA LoopMakesLists ==
  Shape /\ ListsNamed /\ ClientsOK /\ SerialEffects /\ [Next]_vars =>
    \A c \in Clients : Bulking(c)' => draft'[c] = ListsOf(Request[c], base'[c])[Done(c)']
<1> SUFFICES ASSUME Shape, ListsNamed, ClientsOK, SerialEffects, [Next]_vars,
                    NEW c \in Clients, Bulking(c)'
             PROVE  draft'[c] = ListsOf(Request[c], base'[c])[Done(c)']
  OBVIOUS
<1> DEFINE r == Request[c]
           t == Texts(c)
<1>1. scenario' = scenario /\ (PlainStep(c) \/ LoadBulk(c) \/ BulkNext(c))
  BY StepsArePlain
<1>2. t = ParseAddressSpecs(r.items, r.limit).addresses
  BY DEF Texts, Parsed
<1>3. CASE PlainStep(c)
  <2>1. /\ Bulking(c) /\ base'[c] = base[c] /\ draft'[c] = draft[c] /\ Done(c)' = Done(c)
    <3>1. Bulking(c) /\ base'[c] = base[c] /\ draft'[c] = draft[c] /\ todo'[c] = todo[c]
      BY <1>1, <1>3, PlainKeeps DEF PlainStep
    <3>2. Texts(c)' = Texts(c)
      BY <1>1 DEF Texts, Parsed, Request
    <3> QED BY <3>1, <3>2 DEF Done
  <2> QED BY <2>1 DEF SerialEffects
<1>4. CASE LoadBulk(c)
  <2>1. base'[c] = draft'[c] /\ Done(c)' = 0 /\ r.op = "bulk" /\ Parsed(c).ok
    <3>1. base'[c] = draft'[c] /\ todo'[c] = Texts(c) /\ r.op = "bulk" /\ Parsed(c).ok
      BY <1>1, <1>4, LoopBegins DEF LoadBulk, Shape, Texts
    <3>2. Texts(c)' = Texts(c)
      BY <1>1 DEF Texts, Parsed, Request
    <3>3. Len(Texts(c)) \in Nat
      BY <3>1, TextsAre
    <3> QED BY <3>1, <3>2, <3>3 DEF Done
  <2>2. Len(t) \in Nat
    BY <2>1, TextsAre
  <2>3. ListsOf(r, base'[c])[0] = base'[c]
    <3> HIDE DEF r
    <3> QED BY <1>2, <2>2, ListsAre
  <2> QED BY <2>1, <2>3
<1>5. CASE BulkNext(c)
  <2> DEFINE a == Head(todo[c])
             b == base[c]
             k == Done(c) + 1
  <2>1. /\ Bulking(c) /\ base' = base /\ Texts(c)' = t
        /\ draft'[c] = AddOrUpdatePC(draft[c], Listed(b, a, r.user))
    BY <1>5, LoopGoesOn DEF ClientsOK
  <2>2. /\ todo[c] \in Seq(Address) /\ Len(todo[c]) <= Len(t)
        /\ \A i \in 1 .. Len(todo[c]) : todo[c][i] = t[Done(c) + i]
        /\ todo[c] # <<>> /\ todo'[c] = Tail(todo[c]) /\ Parsed(c).ok /\ r.op = "bulk"
    BY <1>5, <2>1 DEF ClientsOK, ClientOK, LoopOK, BulkNext, LoopDone, Shape, Bulking
  <2>3. /\ Len(todo[c]) \in Nat /\ Len(todo[c]) >= 1 /\ a = todo[c][1]
        /\ Len(todo'[c]) = Len(todo[c]) - 1
    BY <2>2, HeadAndTail
  <2>4. Len(t) \in Nat
    BY <2>2, TextsAre
  <2>5. Done(c) = Len(t) - Len(todo[c]) /\ Done(c)' = Len(t) - Len(todo'[c])
    BY <2>1 DEF Done
  <2> HIDE DEF t, a
  <2>6. Done(c)' = k /\ k \in 1 .. Len(t) /\ k - 1 = Done(c)
    BY <2>2, <2>3, <2>4, <2>5
  <2>7. a = t[k]
    <3>1. 1 \in 1 .. Len(todo[c])
      BY <2>3
    <3> QED BY <2>2, <2>3, <3>1
  <2>8. draft[c] = ListsOf(r, b)[Done(c)]
    BY <2>1 DEF SerialEffects
  <2> HIDE DEF r, b, k
  <2>9. \A i \in 1 .. Len(t) :
          ListsOf(r, b)[i] = AddOrUpdatePC(ListsOf(r, b)[i - 1], Listed(b, t[i], r.user))
    BY <1>2, <2>4, ListsAre
  <2>10. draft'[c] = ListsOf(r, b)[k]
    BY <2>1, <2>6, <2>7, <2>8, <2>9
  <2> QED BY <2>1, <2>6, <2>10 DEF r, b
<1> QED BY <1>1, <1>3, <1>4, <1>5

(* A client that saves is going to store what its request makes of the list. *)
Effects ==
  \A c \in Clients : at[c] \in {"save", "saving"} =>
    RequestPermitted(Request[c], base[c]) /\ draft[c] = RequestEffect(Request[c], base[c])

(* So it is when it gets to saving, and it stays so. *)
LEMMA EffectsNext ==
  Shape /\ ListsNamed /\ ClientsOK /\ SerialEffects /\ [Next]_vars => Effects'
<1> SUFFICES ASSUME Shape, ListsNamed, ClientsOK, SerialEffects, [Next]_vars PROVE Effects'
  OBVIOUS
<1>0. Effects
  BY DEF SerialEffects, Effects
<1> USE DEF Shape, Effects, history, Clients, Request
<1>1. ASSUME NEW c \in Clients, RefuseBulk(c) PROVE Effects'
  BY <1>0, <1>1 DEF RefuseBulk
<1>2. ASSUME NEW c \in Clients, LoadFails(c) PROVE Effects'
  BY <1>0, <1>2 DEF LoadFails
<1>3. ASSUME NEW c \in Clients, Read(c) PROVE Effects'
  BY <1>0, <1>3 DEF Read
<1>4. ASSUME NEW c \in Clients, LoadAdd(c) PROVE Effects'
  <2>1. ASSUME Valid(Request[c].pc)
        PROVE  /\ RequestPermitted(Request[c], Content)
               /\ AddOrUpdatePC(Content, Request[c].pc) = RequestEffect(Request[c], Content)
    BY <1>4, <2>1 DEF LoadAdd, RequestPermitted, RequestEffect
  <2> QED BY <1>0, <1>4, <2>1 DEF LoadAdd
<1>5. ASSUME NEW c \in Clients, LoadRemove(c) PROVE Effects'
  <2>1. ASSUME Named(Content, Request[c].name) # {}
        PROVE  /\ RequestPermitted(Request[c], Content)
               /\ RemovePC(Content, Request[c].name) = RequestEffect(Request[c], Content)
    <3>1. NamedList(Content) /\ Request[c].op = "remove"
      BY <1>5, ContentNamed DEF LoadRemove
    <3>2. RemovePC(Content, Request[c].name) = Without(Content, Request[c].name)
      BY <2>1, <3>1, RemoveIsWithout DEF NamedList
    <3> QED BY <2>1, <3>1, <3>2 DEF RequestPermitted, RequestEffect, Named
  <2> QED BY <1>0, <1>5, <2>1 DEF LoadRemove
<1>6. ASSUME NEW c \in Clients, LoadBulk(c) PROVE Effects'
  BY <1>0, <1>6 DEF LoadBulk
<1>7. ASSUME NEW c \in Clients, BulkNext(c) PROVE Effects'
  BY <1>0, <1>7 DEF BulkNext
<1>8. ASSUME NEW c \in Clients, BulkReady(c) PROVE Effects'
  <2> DEFINE r == Request[c]
  <2>1. at[c] = "edit" /\ todo[c] = <<>>
    BY <1>8 DEF BulkReady, LoopDone
  <2>2. r.op = "bulk" /\ Bulking(c)
    BY <2>1 DEF ClientsOK, ClientOK, Bulking
  <2>3. Parsed(c).ok /\ Texts(c) # <<>>
    BY <2>2 DEF ClientsOK, ClientOK, LoopOK
  <2>4. Len(Texts(c)) \in Nat
    BY <2>2, <2>3, TextsAre
  <2>5. Done(c) = Len(Texts(c))
    BY <2>1, <2>4 DEF Done
  <2>6. Texts(c) = ParseAddressSpecs(r.items, r.limit).addresses
    BY DEF Texts, Parsed
  <2>7. draft[c] = ListsOf(r, base[c])[Len(Texts(c))]
    BY <2>2, <2>5 DEF SerialEffects
  <2>8. BulkEffect(r, base[c]) = ListsOf(r, base[c])[Len(Texts(c))]
    <3> HIDE DEF r
    <3> QED BY <2>4, <2>6, ListsAre
  <2>9. RequestPermitted(r, base[c]) /\ draft[c] = RequestEffect(r, base[c])
    BY <2>2, <2>3, <2>6, <2>7, <2>8 DEF RequestPermitted, RequestEffect
  <2> QED BY <1>0, <1>8, <2>9 DEF BulkReady
<1>9. ASSUME NEW c \in Clients, OpenFile(c) PROVE Effects'
  BY <1>0, <1>9 DEF OpenFile
<1>10. ASSUME NEW c \in Clients, WriteFile(c) PROVE Effects'
  BY <1>0, <1>10 DEF WriteFile
<1>11. ASSUME NEW c \in Clients, OpenFails(c) \/ WriteFails(c) PROVE Effects'
  BY <1>0, <1>11 DEF OpenFails, WriteFails
<1>12. ASSUME NEW c \in Clients, Kill(c) PROVE Effects'
  BY <1>0, <1>12 DEF Kill
<1>13. CASE UNCHANGED vars
  BY <1>0, <1>13 DEF vars
<1> QED
  BY <1>1, <1>2, <1>3, <1>4, <1>5, <1>6, <1>7, <1>8, <1>9, <1>10, <1>11, <1>12, <1>13
  DEF Next, AllEnded

(* What the steps of a serial scenario are mapped by. *)
RegisterInv == Shape /\ ListsNamed /\ OneSaver /\ ClientsOK /\ SerialInv

(* It holds in every state. *)
LEMMA RegisterNext == SerialSafe /\ RegisterInv /\ [Next]_vars => RegisterInv'
<1> SUFFICES ASSUME SerialSafe, RegisterInv, [Next]_vars PROVE RegisterInv'
  OBVIOUS
<1>1. (Shape /\ ListsNamed /\ OneSaver /\ ClientsOK)'
  BY ShapeNext, ListsNext, OneSaverNext, ClientsNext DEF RegisterInv
<1>2. scenario' = scenario
  BY StepsArePlain DEF RegisterInv
<1>3. ASSUME scenario.serial PROVE (SerialTurns /\ SerialLoads /\ SerialEffects)'
  <2>1. SerialTurns' /\ SerialLoads'
    BY <1>3, TurnsNext, LoadsNext DEF RegisterInv, SerialInv
  <2>2. \A c \in Clients : Bulking(c)' => draft'[c] = ListsOf(Request[c], base'[c])[Done(c)']
    BY <1>3, LoopMakesLists DEF RegisterInv, SerialInv
  <2>3. Effects'
    BY <1>3, EffectsNext DEF RegisterInv, SerialInv
  <2>4. Request' = Request /\ Clients' = Clients
    BY <1>2 DEF Request, Clients
  <2> QED BY <2>1, <2>2, <2>3, <2>4 DEF SerialEffects, Effects
<1> QED BY <1>1, <1>2, <1>3 DEF RegisterInv, SerialInv

(* The list of the register is the one a client that is saving loaded, and *)
(* otherwise the one of the file.                                          *)
LEMMA CurrentIs ==
  ASSUME RegisterInv, scenario.serial
  PROVE  /\ \A c \in Clients : at[c] = "saving" => CurrentList = base[c]
         /\ (\A c \in Clients : at[c] # "saving") => CurrentList = Content
BY DEF RegisterInv, SerialInv, SerialTurns, UnderWay, CurrentList

(* So it is after a step. *)
LEMMA CurrentWillBe ==
  ASSUME RegisterInv', scenario'.serial
  PROVE  /\ \A c \in Clients' : at'[c] = "saving" => CurrentList' = base'[c]
         /\ (\A c \in Clients' : at'[c] # "saving") => CurrentList' = Content'
BY DEF RegisterInv, SerialInv, SerialTurns, UnderWay, CurrentList

(* A step that neither opens nor writes the file leaves the list alone.    *)
LEMMA ListStays ==
  ASSUME RegisterInv, RegisterInv', scenario.serial, scenario' = scenario, file' = file,
         \A d \in Clients : /\ at'[d] = "saving" <=> at[d] = "saving"
                            /\ at[d] = "saving" => base'[d] = base[d]
  PROVE  CurrentList' = CurrentList
<1>1. Clients' = Clients
  BY DEF Clients, Request
<1>2. Content' = Content
  BY DEF Content
<1>3. CASE \E d \in Clients : at[d] = "saving"
  BY <1>1, <1>3, CurrentIs, CurrentWillBe
<1>4. CASE \A d \in Clients : at[d] # "saving"
  BY <1>1, <1>2, <1>4, CurrentIs, CurrentWillBe
<1> QED BY <1>3, <1>4

(* A client whose request is refused leaves nothing behind ...             *)
LEMMA StepRefuses ==
  ASSUME Shape, scenario' = scenario, CurrentList' = CurrentList, NEW c \in Clients,
         at[c] = "start", at' = [at EXCEPT ![c] = "failed"],
         \A d \in Clients : d # c => base'[d] = base[d]
  PROVE  Register!Refuse(c)
<1> DEFINE answer(a) == [d \in Clients |-> CASE a[d] = "answered" -> "ok"
                                             [] a[d] \in {"failed", "killed"} -> "refused"
                                             [] OTHER -> "none"]
           seen(a, b) == [d \in Clients |-> IF a[d] = "answered" THEN b[d] ELSE <<>>]
<1>1. DOMAIN at = Clients /\ Clients' = Clients /\ Request' = Request
  BY DEF Shape, Clients, Request
<1>2. answer(at)[c] = "none"
  OBVIOUS
<1>3. answer(at') = [answer(at) EXCEPT ![c] = "refused"]
  BY <1>1
<1>4. seen(at', base') = seen(at, base)
  BY <1>1
<1> HIDE DEF answer, seen
<1> QED BY <1>1, <1>2, <1>3, <1>4 DEF Register!Refuse, answer, seen

(* ... and one that goes on is not seen by anybody.                        *)
LEMMA StepHidden ==
  ASSUME Shape, scenario' = scenario, CurrentList' = CurrentList,
         \A d \in Clients :
           \/ at'[d] = at[d] /\ base'[d] = base[d]
           \/ /\ at[d] \notin {"answered", "failed", "killed"}
              /\ at'[d] \notin {"answered", "failed", "killed"}
  PROVE  UNCHANGED Register!vars
<1> DEFINE answer(a) == [d \in Clients |-> CASE a[d] = "answered" -> "ok"
                                             [] a[d] \in {"failed", "killed"} -> "refused"
                                             [] OTHER -> "none"]
           seen(a, b) == [d \in Clients |-> IF a[d] = "answered" THEN b[d] ELSE <<>>]
<1>1. Clients' = Clients /\ Request' = Request
  BY DEF Clients, Request
<1>2. answer(at') = answer(at)
  OBVIOUS
<1>3. seen(at', base') = seen(at, base)
  OBVIOUS
<1> HIDE DEF answer, seen
<1> QED BY <1>1, <1>2, <1>3 DEF Register!vars, answer, seen

(* The answer to a success is where its change takes effect.               *)
LEMMA StepCommits ==
  ASSUME Shape, scenario' = scenario, NEW c \in Clients,
         at[c] \notin {"answered", "failed", "killed"}, at' = [at EXCEPT ![c] = "answered"],
         base'[c] = CurrentList, \A d \in Clients : d # c => base'[d] = base[d],
         RequestPermitted(Request[c], CurrentList),
         CurrentList' = RequestEffect(Request[c], CurrentList)
  PROVE  Register!Commit(c)
<1> DEFINE answer(a) == [d \in Clients |-> CASE a[d] = "answered" -> "ok"
                                             [] a[d] \in {"failed", "killed"} -> "refused"
                                             [] OTHER -> "none"]
           seen(a, b) == [d \in Clients |-> IF a[d] = "answered" THEN b[d] ELSE <<>>]
<1>1. DOMAIN at = Clients /\ Clients' = Clients /\ Request' = Request
  BY DEF Shape, Clients, Request
<1>2. answer(at)[c] = "none"
  OBVIOUS
<1>3. answer(at') = [answer(at) EXCEPT ![c] = "ok"]
  BY <1>1
<1>4. seen(at', base') = [seen(at, base) EXCEPT ![c] = CurrentList]
  BY <1>1
<1> HIDE DEF answer, seen
<1> QED BY <1>1, <1>2, <1>3, <1>4 DEF Register!Commit, answer, seen

(* The register begins with a list the file may hold, or with none.        *)
LEMMA RegisterInit == Init => Register!Init
<1> SUFFICES ASSUME Init PROVE Register!Init
  OBVIOUS
<1>1. \A c \in Clients : at[c] = "start"
  BY DEF Init
<1>2. CurrentList = Content
  BY <1>1 DEF CurrentList
<1>3. Content \in InitialPCs \cup {<<>>}
  BY DEF Init, Content, Absent, Holding
<1> QED BY <1>1, <1>2, <1>3 DEF Register!Init, Clients

(* Each step of a serial scenario is one of the register, or none.         *)
LEMMA RegisterSteps ==
  ASSUME SerialSafe, RegisterInv, RegisterInv', scenario.serial, [Next]_vars
  PROVE  Register!Next \/ UNCHANGED Register!vars
<1> DEFINE Goal == Register!Next \/ UNCHANGED Register!vars
<1>a. Shape /\ DOMAIN at = Clients /\ DOMAIN base = Clients
  BY DEF RegisterInv, Shape
<1>b. scenario' = scenario /\ Clients' = Clients /\ scenario'.serial
  BY <1>a, StepsArePlain DEF Clients, Request
<1>c. ASSUME NEW c \in Clients, Register!Refuse(c) \/ Register!Commit(c) PROVE Goal
  BY <1>c DEF Register!Next, Clients
<1>d. Loadable => CurrentList = Content /\ \A c \in Clients : at[c] # "saving"
  BY CurrentIs DEF RegisterInv, SerialInv, SerialTurns, OneSaver, Loadable, Broken
<1>1. ASSUME NEW c \in Clients, RefuseBulk(c) PROVE Goal
  <2>1. /\ at[c] = "start" /\ at' = [at EXCEPT ![c] = "failed"] /\ base' = base /\ file' = file
    BY <1>1 DEF RefuseBulk
  <2>2. CurrentList' = CurrentList
    BY <1>a, <1>b, <2>1, ListStays
  <2>3. Register!Refuse(c)
    BY <1>a, <1>b, <2>1, <2>2, StepRefuses
  <2> QED BY <1>c, <2>3
<1>2. ASSUME NEW c \in Clients, LoadFails(c) PROVE Goal
  <2>1. /\ at[c] = "start" /\ at' = [at EXCEPT ![c] = "failed"] /\ base' = base /\ file' = file
    BY <1>2 DEF LoadFails
  <2>2. CurrentList' = CurrentList
    BY <1>a, <1>b, <2>1, ListStays
  <2>3. Register!Refuse(c)
    BY <1>a, <1>b, <2>1, <2>2, StepRefuses
  <2> QED BY <1>c, <2>3
<1>3. ASSUME NEW c \in Clients, Read(c) PROVE Goal
  <2>1. /\ at[c] = "start" /\ at' = [at EXCEPT ![c] = "answered"] /\ file' = file
        /\ base' = [base EXCEPT ![c] = Content] /\ Loadable /\ Request[c].op = "read"
    BY <1>3 DEF Read
  <2>2. CurrentList = Content /\ CurrentList' = CurrentList
    BY <1>a, <1>b, <1>d, <2>1, ListStays
  <2>3. /\ RequestPermitted(Request[c], CurrentList)
        /\ CurrentList' = RequestEffect(Request[c], CurrentList)
    BY <2>1, <2>2 DEF RequestPermitted, RequestEffect
  <2>4. base'[c] = CurrentList /\ \A d \in Clients : d # c => base'[d] = base[d]
    BY <1>a, <2>1, <2>2
  <2>5. Register!Commit(c)
    BY <1>a, <1>b, <2>1, <2>3, <2>4, StepCommits
  <2> QED BY <1>c, <2>5
<1>4. ASSUME NEW c \in Clients, LoadAdd(c) \/ LoadRemove(c) PROVE Goal
  <2>1. /\ at[c] = "start" /\ file' = file /\ base' = [base EXCEPT ![c] = Content]
        /\ at' = [at EXCEPT ![c] = "failed"] \/ at' = [at EXCEPT ![c] = "save"]
    BY <1>4 DEF LoadAdd, LoadRemove
  <2>2. CurrentList' = CurrentList
    BY <1>a, <1>b, <2>1, ListStays
  <2>3. \A d \in Clients : d # c => base'[d] = base[d]
    BY <1>a, <2>1
  <2>4. CASE at' = [at EXCEPT ![c] = "failed"]
    <3>1. Register!Refuse(c)
      BY <1>a, <1>b, <2>1, <2>2, <2>3, <2>4, StepRefuses
    <3> QED BY <1>c, <3>1
  <2>5. CASE at' = [at EXCEPT ![c] = "save"]
    BY <1>a, <1>b, <2>1, <2>2, <2>3, <2>5, StepHidden
  <2> QED BY <2>1, <2>4, <2>5
<1>5. ASSUME NEW c \in Clients, LoadBulk(c) \/ BulkNext(c) \/ BulkReady(c) PROVE Goal
  <2>1. /\ at[c] \in {"start", "edit"} /\ file' = file
        /\ \A d \in Clients : d # c => base'[d] = base[d] /\ at'[d] = at[d]
        /\ at'[c] \in {"edit", "save"}
    BY <1>5, <1>a DEF LoadBulk, BulkNext, BulkReady
  <2>2. CurrentList' = CurrentList
    BY <1>a, <1>b, <2>1, ListStays
  <2> QED BY <1>a, <1>b, <2>1, <2>2, StepHidden
<1>6. ASSUME NEW c \in Clients, OpenFile(c) PROVE Goal
  <2>1. at[c] = "save" /\ at' = [at EXCEPT ![c] = "saving"] /\ base' = base
    BY <1>6 DEF OpenFile
  <2>2. \A d \in Clients : at[d] # "saving"
    BY <2>1 DEF RegisterInv, SerialInv, SerialTurns, UnderWay
  <2>3. CurrentList = base[c]
    BY <2>1, <2>2, CurrentIs DEF RegisterInv, SerialInv, SerialLoads
  <2>4. CurrentList' = base[c]
    BY <1>a, <1>b, <2>1, CurrentWillBe
  <2> QED BY <1>a, <1>b, <2>1, <2>3, <2>4, StepHidden
<1>7. ASSUME NEW c \in Clients, WriteFile(c) PROVE Goal
  <2>1. /\ at[c] = "saving" /\ at' = [at EXCEPT ![c] = "answered"] /\ base' = base
        /\ file' = Overwritten(file.size, draft[c])
    BY <1>7 DEF WriteFile
  <2>2. \A d \in Clients : at'[d] # "saving"
    BY <1>a, <2>1 DEF RegisterInv, SerialInv, SerialTurns, UnderWay
  <2>3. CurrentList = base[c] /\ CurrentList' = Content'
    BY <1>b, <2>1, <2>2, CurrentIs, CurrentWillBe
  <2>4. Content' = draft[c]
    <3>1. file.size = 0
      BY <2>1 DEF RegisterInv, SerialInv, SerialTurns, OneSaver, Broken
    <3>2. SizeOf(draft[c]) \in Nat
      BY SizeIsNat DEF RegisterInv, ListsNamed, NamedList
    <3>3. file' = Holding(draft[c])
      BY <2>1, <3>1, <3>2 DEF Overwritten
    <3> QED BY <3>3 DEF Content, Holding
  <2>5. RequestPermitted(Request[c], base[c]) /\ draft[c] = RequestEffect(Request[c], base[c])
    BY <2>1 DEF RegisterInv, SerialInv, SerialEffects
  <2>6. /\ RequestPermitted(Request[c], CurrentList)
        /\ CurrentList' = RequestEffect(Request[c], CurrentList)
    BY <2>3, <2>4, <2>5
  <2>7. Register!Commit(c)
    BY <1>a, <1>b, <2>1, <2>3, <2>6, StepCommits
  <2> QED BY <1>c, <2>7
<1>8. ASSUME NEW c \in Clients, OpenFails(c) \/ WriteFails(c) \/ Kill(c) PROVE FALSE
  BY <1>8, <1>a, NobodyKilled DEF OpenFails, WriteFails, Kill
<1>9. CASE UNCHANGED vars
  <2>1. at' = at /\ base' = base /\ file' = file
    BY <1>9 DEF vars
  <2>2. CurrentList' = CurrentList
    BY <1>a, <1>b, <2>1, ListStays
  <2> QED BY <1>a, <1>b, <2>1, <2>2, StepHidden
<1> QED
  BY <1>1, <1>2, <1>3, <1>4, <1>5, <1>6, <1>7, <1>8, <1>9 DEF Next, AllEnded

(* Requests that take turns use the config file like one variable: every   *)
(* success takes effect as a whole at one moment, on the list the success  *)
(* before it left (handleBulkPCs, pc add and pc remove, GET /api/config).  *)
(* Whatever they ask for and however many they are.                        *)
THEOREM SerialIsRegister == SerialSafe => (Spec => ImplementsRegister)
<1> SUFFICES ASSUME SerialSafe PROVE Spec => ImplementsRegister
  OBVIOUS
<1>1. Init => RegisterInv
  BY ShapeInit, ListsInit, OneSaverInit, ClientsInit, SerialInit DEF RegisterInv
<1>2. RegisterInv /\ [Next]_vars => RegisterInv'
  BY RegisterNext
<1>3. Init => (scenario.serial => Register!Init)
  BY RegisterInit
<1>4. RegisterInv /\ RegisterInv' /\ [Next]_vars =>
        [scenario.serial => Register!Next \/ UNCHANGED Register!vars]_vars
  BY RegisterSteps
<1> QED BY <1>1, <1>2, <1>3, <1>4, PTL DEF Spec, ImplementsRegister
=============================================================================
