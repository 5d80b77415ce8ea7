----------------------------- MODULE ConfigStore -----------------------------
(***************************************************************************)
(* The user config file and everybody who reads, changes and saves it: the *)
(* handlers of the Hub (internal/hub/server.go), which net/http runs       *)
(* concurrently, and the pc commands of the CLI (internal/cli/pc.go),      *)
(* which are processes of their own.  Nobody holds a lock.  A save is      *)
(* os.WriteFile: open with O_TRUNC, then one write at offset 0, so between *)
(* the two the file is empty, and two saves that overlap write over each   *)
(* other in place.                                                         *)
(*                                                                         *)
(* A PC is [name, addr, ssh] with ssh the user of its SSHTarget; the lists *)
(* of runtimes, names and patterns are data the operations copy.  "" is    *)
(* the empty string, and NoAddress the empty address.                      *)
(***************************************************************************)
EXTENDS AddressSpecs

CONSTANTS
  Scenarios,  \* what may be asked together, [request, serial, killable]:
              \* request[c] is what client c asks for once, one of
              \*   [op |-> "bulk", items, limit, user] POST /api/config/pcs/bulk
              \*   [op |-> "add", pc]                  pc add
              \*   [op |-> "remove", name]             pc remove
              \*   [op |-> "read"]                     GET /api/config, pc list
              \* serial: nobody starts to save while somebody else does
              \* killable: the clients whose process may be killed, and whose
              \*           use of the file may fail
  AutoName,   \* AutoName[a]: "pc-" and the address with dashes for dots
  InitialPCs  \* the lists of PCs the file may hold at first

ASSUME ConfigAssumption ==
  \A s \in Scenarios :
    /\ {s.request[c].op : c \in DOMAIN s.request} \subseteq {"bulk", "add", "remove", "read"}
    /\ \A c \in DOMAIN s.request : s.request[c].op = "bulk" =>
         s.request[c].items \in Seq(Item) /\ s.request[c].limit \in Int
    /\ s.serial \in BOOLEAN

UniqueNames(pcs) == \A j, k \in DOMAIN pcs : pcs[j].name = pcs[k].name => j = k

(* The file was written by this program, not by hand with one name twice.  *)
ASSUME InitialAssumption ==
  \A pcs \in InitialPCs : pcs \in Seq(ToSet(pcs)) /\ UniqueNames(pcs)

VARIABLES
  scenario, \* what is asked for
  file,     \* what the config file holds
  at,       \* at[c]: where client c is
  base,     \* base[c]: the PCs c loaded
  draft,    \* draft[c]: the PCs it is going to save
  todo,     \* todo[c]: the addresses left for the loop of a bulk request
  added,    \* added[c]: the "added" of the bulk request's answer
  stored,   \* history: the lists the file has held whole
  hurt      \* history: two saves overlapped, or one was cut off

vars == <<scenario, file, at, base, draft, todo, added, stored, hurt>>

Request == scenario.request
Clients == DOMAIN Request
Savers  == {c \in Clients : Request[c].op # "read"}
Killable == scenario.killable

NoAddress == -1

---------------------------------------------------------------------------
(* The file is absent, holds text json.Unmarshal refuses, or a list of     *)
(* PCs.  size orders the lengths of the texts.                             *)

SizeOf(pcs) == 1 + Len(pcs) + Cardinality({k \in DOMAIN pcs : pcs[k].ssh # ""})

Absent       == [kind |-> "absent", size |-> 0]
Broken(n)    == [kind |-> "broken", size |-> n]
Holding(pcs) == [kind |-> "config", size |-> SizeOf(pcs), pcs |-> pcs]

(* config.Load: a missing file is the default config, an unreadable one an *)
(* error.                                                                  *)
Content == IF file.kind = "config" THEN file.pcs ELSE <<>>

(* Mutant of Loadable: an empty file is taken for a missing one. *)
LoadableIfEmpty == file.kind # "broken" \/ file.size = 0

Loadable == file.kind # "broken"

---------------------------------------------------------------------------
(* Config.AddOrUpdatePC and Config.RemovePC act on the first PC of a name. *)

Named(pcs, name) == {k \in DOMAIN pcs : pcs[k].name = name}
FirstNamed(pcs, name) == CHOOSE k \in Named(pcs, name) : \A j \in Named(pcs, name) : k <= j

Valid(pc) == pc.name # "" /\ ~(pc.addr = NoAddress /\ pc.ssh = "")

(* Mutant of AddOrUpdatePC: it always appends. *)
AlwaysAddPC(pcs, pc) == Append(pcs, pc)

AddOrUpdatePC(pcs, pc) ==
  IF Named(pcs, pc.name) = {} THEN Append(pcs, pc)
                              ELSE [pcs EXCEPT ![FirstNamed(pcs, pc.name)] = pc]

(* Mutant of RemovePC: the slices are joined one element too early. *)
RemoveNone(pcs, name) == pcs

RemovePC(pcs, name) == RemoveAt(pcs, FirstNamed(pcs, name))

---------------------------------------------------------------------------
(* The loop of handleBulkPCs.  The map from address to name is built from  *)
(* the loaded config before the loop and not kept up in it; of several PCs *)
(* with one address the last one is in the map.                            *)

At(pcs, a) == {k \in DOMAIN pcs : pcs[k].addr = a}

(* Mutant of Existing: known addresses are not looked up. *)
ExistingIgnored(pcs, a) == ""

Existing(pcs, a) ==
  IF At(pcs, a) = {} THEN ""
  ELSE pcs[CHOOSE k \in At(pcs, a) : \A j \in At(pcs, a) : j <= k].name

BulkPC(c, a) ==
  [name |-> IF Existing(base[c], a) # "" THEN Existing(base[c], a) ELSE AutoName[a],
   addr |-> a,
   ssh  |-> Request[c].user]

---------------------------------------------------------------------------
Init == /\ scenario \in Scenarios
        /\ \E f \in {Absent} \cup {Holding(pcs) : pcs \in InitialPCs} :
             /\ file = f
             /\ stored = IF f = Absent THEN {<<>>} ELSE {f.pcs}
        /\ at = [c \in Clients |-> "start"]
        /\ base = [c \in Clients |-> <<>>]
        /\ draft = [c \in Clients |-> <<>>]
        /\ todo = [c \in Clients |-> <<>>]
        /\ added = [c \in Clients |-> 0]
        /\ hurt = FALSE

UnderWay(c) == at[c] \in {"edit", "save", "saving"}

(* Users of a serial scenario wait for the answer of whoever is saving. *)
MayStart(c) == scenario.serial /\ c \in Savers => \A d \in Savers : ~UnderWay(d)

history == <<scenario, stored, hurt>>

(* What the text of a bulk request is parsed to, before anything is loaded. *)
Parsed(c) == ParseAddressSpecs(Request[c].items, Request[c].limit)

(* A text with a bad item, or without an address, is answered with 400. *)
RefuseBulk(c) ==
  /\ at[c] = "start"
  /\ Request[c].op = "bulk"
  /\ ~Parsed(c).ok \/ Parsed(c).addresses = <<>>
  /\ at' = [at EXCEPT ![c] = "failed"]
  /\ UNCHANGED <<file, base, draft, todo, added, history>>

(* config.Load does not understand the file, or cannot read it. *)
LoadFails(c) ==
  /\ at[c] = "start" /\ MayStart(c)
  /\ ~Loadable \/ c \in Killable
  /\ at' = [at EXCEPT ![c] = "failed"]
  /\ UNCHANGED <<file, base, draft, todo, added, history>>

(* config.Load succeeds and a read is answered. *)
Read(c) ==
  /\ at[c] = "start"
  /\ Loadable
  /\ Request[c].op = "read"
  /\ base' = [base EXCEPT ![c] = Content]
  /\ at' = [at EXCEPT ![c] = "answered"]
  /\ UNCHANGED <<file, draft, todo, added, history>>

(* pc add and pc remove load and change the list; a PC that is not valid   *)
(* or not there ends the command.                                          *)
LoadAdd(c) ==
  /\ at[c] = "start" /\ MayStart(c)
  /\ Loadable
  /\ Request[c].op = "add"
  /\ base' = [base EXCEPT ![c] = Content]
  /\ IF Valid(Request[c].pc)
     THEN /\ draft' = [draft EXCEPT ![c] = AddOrUpdatePC(Content, Request[c].pc)]
          /\ at' = [at EXCEPT ![c] = "save"]
     ELSE at' = [at EXCEPT ![c] = "failed"] /\ draft' = draft
  /\ UNCHANGED <<file, todo, added, history>>

LoadRemove(c) ==
  /\ at[c] = "start" /\ MayStart(c)
  /\ Loadable
  /\ Request[c].op = "remove"
  /\ base' = [base EXCEPT ![c] = Content]
  /\ IF Named(Content, Request[c].name) # {}
     THEN /\ draft' = [draft EXCEPT ![c] = RemovePC(Content, Request[c].name)]
          /\ at' = [at EXCEPT ![c] = "save"]
     ELSE at' = [at EXCEPT ![c] = "failed"] /\ draft' = draft
  /\ UNCHANGED <<file, todo, added, history>>

LoadBulk(c) ==
  /\ at[c] = "start" /\ MayStart(c)
  /\ Loadable
  /\ Request[c].op = "bulk"
  /\ Parsed(c).ok /\ Parsed(c).addresses # <<>>
  /\ base' = [base EXCEPT ![c] = Content]
  /\ draft' = [draft EXCEPT ![c] = Content]
  /\ todo' = [todo EXCEPT ![c] = Parsed(c).addresses]
  /\ at' = [at EXCEPT ![c] = "edit"]
  /\ UNCHANGED <<file, added, history>>

(* Mutant of LoopDone: the loop leaves out the last address. *)
LoopDoneEarly(c) == Len(todo[c]) <= 1

LoopDone(c) == todo[c] = <<>>

(* One iteration of the loop of handleBulkPCs. *)
BulkNext(c) ==
  /\ at[c] = "edit"
  /\ ~LoopDone(c)
  /\ LET a == Head(todo[c])
     IN  /\ draft' = [draft EXCEPT ![c] = AddOrUpdatePC(@, BulkPC(c, a))]
         /\ added' = [added EXCEPT ![c] = @ + (IF Existing(base[c], a) = "" THEN 1 ELSE 0)]
  /\ todo' = [todo EXCEPT ![c] = Tail(@)]
  /\ UNCHANGED <<file, at, base, history>>

BulkReady(c) ==
  /\ at[c] = "edit"
  /\ LoopDone(c)
  /\ at' = [at EXCEPT ![c] = "save"]
  /\ UNCHANGED <<file, base, draft, todo, added, history>>

(* Mutant of Truncated: the file is opened without O_TRUNC. *)
NotTruncated == IF file.kind = "absent" THEN Broken(0) ELSE file

(* What os.OpenFile with O_TRUNC leaves of the file. *)
Truncated == Broken(0)

(* A text written over the beginning of one of that size. *)
Overwritten(size, pcs) == IF size <= SizeOf(pcs) THEN Holding(pcs) ELSE Broken(size)

(* config.Save gives up before it has touched the file: the directory       *)
(* cannot be made, or the file not be opened.                               *)
OpenFails(c) ==
  /\ c \in Killable
  /\ at[c] = "save"
  /\ at' = [at EXCEPT ![c] = "failed"]
  /\ UNCHANGED <<file, base, draft, todo, added, history>>

(* config.Save, os.WriteFile: the file is opened ... *)
OpenFile(c) ==
  /\ at[c] = "save"
  /\ file' = Truncated
  /\ at' = [at EXCEPT ![c] = "saving"]
  /\ hurt' = (hurt \/ \E d \in Clients : at[d] = "saving")
  /\ UNCHANGED <<base, draft, todo, added, stored, scenario>>

(* ... and the text is written over its beginning.  Only a longer text     *)
(* that somebody else wrote in the meantime shows behind it.               *)
WriteFile(c) ==
  /\ at[c] = "saving"
  /\ file' = Overwritten(file.size, draft[c])
  /\ stored' = stored \cup {draft[c]}
  /\ at' = [at EXCEPT ![c] = "answered"]
  /\ UNCHANGED <<base, draft, todo, added, hurt, scenario>>

(* The disk is full: the file stays as it is, the answer is an error. *)
WriteFails(c) ==
  /\ c \in Killable
  /\ at[c] = "saving"
  /\ at' = [at EXCEPT ![c] = "failed"]
  /\ hurt' = TRUE
  /\ UNCHANGED <<file, base, draft, todo, added, stored, scenario>>

(* The process is killed, or the machine loses power. *)
Kill(c) ==
  /\ c \in Killable
  /\ at[c] = "start" \/ UnderWay(c)
  /\ at' = [at EXCEPT ![c] = "killed"]
  /\ hurt' = (hurt \/ at[c] = "saving")
  /\ UNCHANGED <<file, base, draft, todo, added, stored, scenario>>

Ended(c) == at[c] \in {"answered", "failed", "killed"}

AllEnded == (\A c \in Clients : Ended(c)) /\ UNCHANGED vars

Next == \/ \E c \in Clients :
             \/ RefuseBulk(c) \/ LoadFails(c)
             \/ Read(c) \/ LoadAdd(c) \/ LoadRemove(c) \/ LoadBulk(c)
             \/ BulkNext(c) \/ BulkReady(c)
             \/ OpenFails(c) \/ OpenFile(c) \/ WriteFile(c) \/ WriteFails(c) \/ Kill(c)
        \/ AllEnded

Spec == Init /\ [][Next]_vars

---------------------------------------------------------------------------
(* Properties.                                                             *)

(* pc remove and every update go by name and stop at the first hit, so a   *)
(* name never stands for two PCs: not in the file, not in any list a       *)
(* client goes on with, whoever saved what in between.                     *)
NamesUnique == /\ file.kind = "config" => UniqueNames(file.pcs)
               /\ \A c \in Clients : UniqueNames(base[c]) /\ UniqueNames(draft[c])

Addresses(pcs) == {pcs[k].addr : k \in DOMAIN pcs}

(* What the user means by the text of a bulk request. *)
Asked(c) == UNION {Meant(Request[c].items[k]) : k \in DOMAIN Request[c].items}

Edited(c) == Request[c].op = "bulk" /\ at[c] \in {"save", "saving", "answered"}

(* server_test.go:59 and the loop of handleBulkPCs: when a bulk request    *)
(* goes on to save, each address the user means has a PC in the list, and  *)
(* no address that had one has lost it.                                    *)
BulkKeepsAndStores ==
  \A c \in Clients : Edited(c) => Asked(c) \cup Addresses(base[c]) \subseteq Addresses(draft[c])

Limit(c) == IF Request[c].limit > 0 THEN Request[c].limit ELSE DefaultMaxHosts

(* A bulk request makes no PC of an address nobody asked for: not of the   *)
(* network and the broadcast address of a CIDR, nor of the addresses beyond *)
(* a range that ends at the last one there is; and, address_specs_test.go:38, *)
(* a range or CIDR with more hosts than the limit is refused before the     *)
(* config is touched, and so is the whole text for any bad item.            *)
BulkStoresNothingElse ==
  \A c \in Clients : Edited(c) =>
    /\ Addresses(draft[c]) \subseteq Asked(c) \cup Addresses(base[c])
    /\ \A item \in ToSet(Request[c].items) :
         item.kind # "bad" /\ (item.kind = "one" \/ Cardinality(Meant(item)) <= Limit(c))

UniqueAddresses(pcs) == \A j, k \in DOMAIN pcs : pcs[j].addr = pcs[k].addr => j = k

(* A bulk request updates the PC an address already has under whatever     *)
(* name it has: it never makes a second PC of it, and "added" is how many  *)
(* the list has grown by.                                                  *)
BulkUpdatesInPlace ==
  \A c \in Clients :
    Edited(c) /\ UniqueAddresses(base[c]) =>
      /\ UniqueAddresses(draft[c])
      /\ Len(draft[c]) = Len(base[c]) + added[c]

(* A name is some PC's own: it is not empty, and if it is the automatic one *)
(* of an address the PC has that address.                                  *)
Own(pc) == pc.name # "" /\ \A a \in Address : pc.name = AutoName[a] => pc.addr = a

(* What this rests on, and what keeps every address a list has in it:      *)
(* nobody gives a PC the automatic name of another address.                *)
NamesAreTheirs ==
  /\ \A a, b \in Address : AutoName[a] = AutoName[b] => a = b
  /\ \A a \in Address : AutoName[a] # ""
  /\ \A pcs \in InitialPCs : \A k \in DOMAIN pcs : Own(pcs[k])
  /\ \A s \in Scenarios : \A c \in DOMAIN s.request :
       s.request[c].op = "add" /\ Valid(s.request[c].pc) => Own(s.request[c].pc)

(* Nobody works on a list that never was the config: a load that meets a   *)
(* save half-way fails, it does not take the emptied file for an empty     *)
(* config and save its own change on top of that.                          *)
LoadsAreWhole ==
  \A c \in Clients : at[c] \notin {"start", "failed", "killed"} => base[c] \in stored

(* A config that cannot be read any more is always the work of two saves   *)
(* that overlapped or of one that was cut off; saves one after the other   *)
(* never leave such a file, also when the list gets shorter.               *)
BrokenOnlyByOverlap ==
  file.kind = "broken" /\ (\A c \in Clients : at[c] # "saving") => hurt

(* What a successful change promises its user (server_test.go:55-61, the   *)
(* 200 is followed by a load that has the PCs): once everybody is answered *)
(* the PCs of each successful request are in the config, at least if no    *)
(* two saves wrote over each other.  Only for requests that add different  *)
(* PCs.                                                                    *)
Wanted(c) == IF Request[c].op = "bulk" THEN Asked(c) ELSE {Request[c].pc.addr}

AckedPCsKept ==
  (\A c \in Clients : Ended(c)) /\ ~hurt =>
    \A c \in Savers : at[c] = "answered" =>
      file.kind = "config" /\ Wanted(c) \subseteq Addresses(file.pcs)

---------------------------------------------------------------------------
(* Clients of a serial scenario use the file like one indivisible          *)
(* register.  What the bulk loop does as a whole is stated here a second   *)
(* time: lists[k] is the list with the first k addresses in it.            *)

BulkEffect(r, pcs) ==
  LET addresses == ParseAddressSpecs(r.items, r.limit).addresses
      lists[k \in 0 .. Len(addresses)] ==
        IF k = 0 THEN pcs
        ELSE LET a == addresses[k]
             IN  AddOrUpdatePC(lists[k - 1],
                   [name |-> IF Existing(pcs, a) # "" THEN Existing(pcs, a) ELSE AutoName[a],
                    addr |-> a, ssh |-> r.user])
  IN  lists[Len(addresses)]

(* The PCs that do not have the name, in their order. *)
Without(pcs, name) ==
  LET kept == InOrder(DOMAIN pcs \ Named(pcs, name))
  IN  [k \in DOMAIN kept |-> pcs[kept[k]]]

RequestEffect(r, pcs) ==
  CASE r.op = "bulk"   -> BulkEffect(r, pcs)
    [] r.op = "add"    -> AddOrUpdatePC(pcs, r.pc)
    [] r.op = "remove" -> Without(pcs, r.name)
    [] r.op = "read"   -> pcs

RequestPermitted(r, pcs) ==
  CASE r.op = "bulk"   -> ParseAddressSpecs(r.items, r.limit).addresses # <<>>
    [] r.op = "add"    -> Valid(r.pc)
    [] r.op = "remove" -> \E k \in DOMAIN pcs : pcs[k].name = r.name
    [] r.op = "read"   -> TRUE

(* While a client is saving, the list is still the one it loaded. *)
CurrentList ==
  IF \E c \in Clients : at[c] = "saving"
  THEN base[CHOOSE c \in Clients : at[c] = "saving"]
  ELSE Content

Register == INSTANCE ConfigRegister WITH
  InitialLists <- InitialPCs \cup {<<>>},
  Permitted    <- RequestPermitted,
  Effect       <- RequestEffect,
  asked        <- Request,
  list         <- CurrentList,
  answer       <- [c \in Clients |-> CASE at[c] = "answered" -> "ok"
                                       [] at[c] \in {"failed", "killed"} -> "refused"
                                       [] OTHER -> "none"],
  seen         <- [c \in Clients |-> IF at[c] = "answered" THEN base[c] ELSE <<>>]

(* No request of a serial scenario is killed or fails on the file. *)
SerialSafe == \A s \in Scenarios : s.serial => s.killable = {}

(* One after the other, requests behave as if the file were one variable:  *)
(* every success takes effect as a whole at one moment, on the list the    *)
(* previous success left, and reads in between see nothing else.           *)
ImplementsRegister ==
  /\ scenario.serial => Register!Init
  /\ [][scenario.serial => Register!Next \/ UNCHANGED Register!vars]_vars
=============================================================================
