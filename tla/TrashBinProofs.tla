--------------------------- MODULE TrashBinProofs ---------------------------
(***************************************************************************)
(* Proofs about the trash bin, for any paths and any number of entries,    *)
(* items and mishaps.                                                      *)
(*                                                                         *)
(* The parts of the invariant: types (Types); the section that holds the   *)
(* lock and its list (Lock, ListInv); entries not reached yet (Untouched); *)
(* where the item of an entry is, and what a record says of it (ItemInv,   *)
(* ClaimInv, CommittedInv); what the step under way relies on (StepInv);   *)
(* and, as long as nothing is created where a claim is not recorded, what  *)
(* keeps an entry in the manifest (ClaimHides, RestoreAvoids,              *)
(* AbandonsNothing, KeptInv).                                              *)
(***************************************************************************)
EXTENDS TrashBin, TLAPS, FiniteSetTheorems, SequenceTheorems

USE DEF files, history

Kinds == Items \cup {None, Torn}
Dirs == Items \cup {None, Torn, Bare, Marked}
Entry == TrashEntry \cup {None}

FilesType ==
    /\ src \in [Paths -> Kinds]
    /\ payload \in [Entries -> Kinds]
    /\ claim \in [Entries -> Kinds]
    /\ candidate \in [Entries -> Kinds]
    /\ taken \in [Entries -> Kinds]
    /\ staging \in [Entries -> Dirs]

ListType ==
    /\ manifest \in [Entries -> Entry]
    /\ mem \in [Entries -> Entry]
    /\ op = "idle" => mem = [x \in Entries |-> None]

RunType ==
    /\ used \in 0 .. MaxEntries
    /\ todo \subseteq 1 .. used /\ drop \subseteq 1 .. used /\ given \subseteq 1 .. used

CountType == items \in 0 .. MaxItems /\ mishaps \in 0 .. MaxMishaps

\* The steps of a delete before its item is taken.
Before == {"look", "take", "saveCopied", "claim"}
Steps == Before \cup
    {"idle", "close", "saveClaimed", "compare", "publish", "verify", "saveVerified", "clean",
     "saveReady", "verifyBack", "finishBack", "unstage", "retry", "tidy", "abandon",
     "savePreparing", "giveBack", "copyBack", "putBack", "undo", "saveUndone", "saveCommitted",
     "clearPayload"}

\* Who holds the lock, and at which step.
Lock ==
    /\ op \in {"idle", "delete", "reconcile", "restore", "purge"} /\ at \in Steps
    /\ op = "idle" <=> at = "idle"
    /\ op = "idle" => todo = {}
    /\ op # "idle" => (at = "close" <=> todo = {})
    /\ todo \cap drop = {}
    /\ at \in {"take", "saveCopied", "claim", "saveClaimed", "saveReady"} => op = "delete"
    /\ at \in {"savePreparing", "giveBack", "copyBack", "putBack", "undo", "saveUndone"}
         => op = "restore"

Types == FilesType /\ ListType /\ RunType /\ CountType /\ Lock

\* What is recorded of an entry: on disk, and in the list of whoever holds the lock.
Records(x) == {manifest[x], mem[x]} \ {None}

\* The list has the entries of the manifest, and those still to be visited as they are there.
ListInv ==
    op # "idle" => \A x \in Entries :
        /\ mem[x] = None <=> manifest[x] = None
        /\ mem[x] # None => mem[x].path = manifest[x].path
        /\ mem[x] # None /\ mem[x].state = "PayloadReady" /\ claim[x] # None
             => manifest[x].state = "PayloadReady"
        /\ x \in todo => mem[x] # None
        /\ x \in todo /\ (x = e => at = "look") => mem[x] = manifest[x]

\* Entries that do not exist yet, and those of a delete that were not reached, hold nothing.
Untouched ==
    /\ \A x \in Entries : x > used => taken[x] = None /\ manifest[x] = None /\ mem[x] = None
    /\ op = "delete" => \A x \in todo : (x = e => at \in Before) => taken[x] = None
    /\ \A x \in Entries : taken[x] = None => claim[x] = None /\ payload[x] = None

\* Where the item of an entry is.
ItemInv ==
    \A x \in Entries \ given :
      /\ taken[x] # None => taken[x] \in {payload[x], claim[x]}
      /\ \A r \in Records(x) : r.state \in {"PayloadVerified", "Ready"} =>
           payload[x] = taken[x] /\ taken[x] # None

\* What a claim that still stands says of its entry.
ClaimInv ==
    \A x \in Entries : claim[x] # None =>
      /\ \A r \in Records(x) : r.state \notin {"Pending", "Ready"}
      /\ claim[x] = taken[x] \/ \A r \in Records(x) : r.state = "PayloadVerified"

\* Only what was given back is recorded as such.
CommittedInv ==
    \A x \in Entries : \A r \in Records(x) : r.restore = "Committed" => x \in given

\* What the step under way relies on.
StepInv ==
    todo # {} =>
      /\ at = "claim" => mem[e] = manifest[e] /\ mem[e].state = "PayloadReady"
      /\ at \in {"compare", "publish", "verify"} => claim[e] # None /\ mem[e].state = "Claimed"
      /\ at \in {"saveVerified", "clean", "saveReady", "tidy"} /\ e \notin given
           => payload[e] = taken[e] /\ taken[e] # None
      /\ at \in {"saveReady", "tidy"} => claim[e] = None
      /\ at = "saveClaimed" => claim[e] = taken[e] /\ claim[e] # None
      /\ at = "saveVerified" => mem[e].state = "Claimed"
      /\ at = "clean" => \A r \in Records(e) : r.state = "PayloadVerified"
      /\ at \in {"savePreparing", "giveBack", "copyBack", "putBack"} => mem[e].state = "Ready"
      /\ at = "putBack" => staging[e] = payload[e]
      /\ at \in {"saveCommitted", "finishBack", "clearPayload", "unstage"} => e \in given
      /\ op = "restore" /\ at = "verifyBack" => e \in given

\* A claim the manifest does not know of.
Hidden(x) == manifest[x] # None /\ manifest[x].state = "PayloadReady" /\ claim[x] # None

\* Unless something is created there: nothing stands where such a claim is, no restore puts
\* anything there, and a reconciliation abandons no entry whose original was taken.
ClaimHides == ~Recreates => \A x \in Entries : Hidden(x) => src[manifest[x].path] = None
RestoreAvoids ==
    ~Recreates /\ op = "restore" =>
      \A x \in todo, y \in Entries : Hidden(y) => manifest[y].path # mem[x].path
AbandonsNothing == ~Recreates /\ at = "abandon" => taken[e] = None \/ e \in given

\* An entry with an item stays in the manifest.
KeptInv ==
    ~Recreates =>
      \A x \in Entries : taken[x] # None /\ x \notin given => manifest[x] # None /\ x \notin drop

Inv == /\ Types /\ ListInv /\ Untouched /\ ItemInv /\ ClaimInv /\ CommittedInv /\ StepInv
       /\ ClaimHides /\ RestoreAvoids /\ AbandonsNothing /\ KeptInv

----------------------------------------------------------------------------
(* The entry under work.                                                   *)

\* A nonempty set of numbers up to n has a smallest member.
LEMMA Smallest ==
    ASSUME NEW n \in Nat, NEW S, S \subseteq 1 .. n, S # {}
    PROVE  \E x \in S : \A y \in S : x <= y
<1> DEFINE Below(x) == {y \in S : y < x}
           T == {Below(x) : x \in S}
           R == StrictSubsetOrdering(1 .. n)
<1>1. IsWellFoundedOn(R, FiniteSubsetsOf(1 .. n)) BY FS_StrictSubsetOrderingWellFounded
<1>2. T \subseteq FiniteSubsetsOf(1 .. n)
  <2>1. IsFiniteSet(1 .. n) BY FS_Interval
  <2>2. \A x \in S : IsFiniteSet(Below(x)) /\ Below(x) \subseteq 1 .. n
    <3> TAKE x \in S
    <3>1. Below(x) \subseteq 1 .. n OBVIOUS
    <3> QED BY <3>1, <2>1, FS_Subset
  <2> QED BY <2>2 DEF FiniteSubsetsOf
<1>3. T # {} OBVIOUS
<1>4. \E b \in T : \A c \in T : ~(<<c, b>> \in R)
  <2> HIDE DEF T, R
  <2> QED BY <1>1, <1>2, <1>3, WFMin
<1>5. PICK x \in S : \A y \in S : ~(<<Below(y), Below(x)>> \in R) BY <1>4
<1> HIDE DEF R, T
<1>6. ASSUME NEW y \in S, y < x PROVE FALSE
  <2>1. \A z \in S : z \in Int OBVIOUS
  <2>2. \A z \in Below(y) : z \in Below(x) BY <1>6, <2>1
  <2>3. y \in Below(x) /\ y \notin Below(y) BY <1>6, <2>1
  <2>4. Below(y) \subseteq 1 .. n /\ Below(x) \subseteq 1 .. n OBVIOUS
  <2>5. <<Below(y), Below(x)>> \in R
    <3> HIDE DEF Below
    <3> QED BY <2>2, <2>3, <2>4 DEF StrictSubsetOrdering, R
  <2> QED BY <2>5, <1>5
<1>7. \A z \in S : z \in Int OBVIOUS
<1> QED BY <1>6, <1>7

\* The entry under work is one of those still to be visited.
LEMMA Current ==
    ASSUME RunType, todo # {}
    PROVE  e \in todo /\ e \in Entries /\ e \in 1 .. used
<1>1. todo \subseteq 1 .. used /\ used \in Nat /\ used <= MaxEntries /\ MaxEntries \in Nat
  BY TrashAssumption DEF TrashAssumption, RunType
<1>2. \E x \in todo : \A y \in todo : x <= y BY <1>1, Smallest
<1>3. e \in todo BY <1>2 DEF e
<1> QED BY <1>1, <1>3 DEF Entries

\* The constants are told apart.
LEMMA Distinct ==
    /\ None # "Committed" /\ None # "Preparing" /\ None # Torn /\ None # Bare /\ None # Marked
    /\ Torn # Bare /\ Torn # Marked /\ None \notin TrashEntry
    /\ \A i \in Items : i # None /\ i # Torn /\ i # Bare /\ i # Marked
BY TrashAssumption DEF TrashAssumption

\* The user's next version is an item.
LEMMA NextItem ==
    ASSUME CountType, items < MaxItems
    PROVE  items + 1 \in Items
BY TrashAssumption DEF TrashAssumption, CountType, Items

\* The entry under work changes with the entries to visit only.
LEMMA StaysCurrent == todo' = todo => e' = e BY DEF e

\* What every step of a section about an entry may rely on.
AtWork ==
    /\ e \in todo /\ e \in Entries /\ e \in 1 .. used /\ ~(e > used)
    /\ mem[e] \in TrashEntry /\ p = mem[e].path /\ p \in Paths
LEMMA Working ==
    ASSUME Types, ListInv, at \notin {"idle", "close"}
    PROVE  AtWork /\ op # "idle" /\ todo # {} /\ mem[e] # None
<1>1. op # "idle" /\ todo # {} BY DEF Types, Lock
<1>2. e \in todo /\ e \in Entries /\ e \in 1 .. used BY <1>1, Current DEF Types
<1>3. mem[e] # None BY <1>1, <1>2 DEF ListInv
<1>4. mem[e] \in TrashEntry BY <1>2, <1>3 DEF Types, ListType, Entry
<1>5. p = mem[e].path /\ p \in Paths BY <1>4 DEF p, entry, TrashEntry
<1>6. ~(e > used) BY <1>2, TrashAssumption DEF TrashAssumption, Types, RunType
<1> QED BY <1>1, <1>2, <1>3, <1>4, <1>5, <1>6 DEF AtWork

\* Before its item is taken, the entry of a delete holds nothing.
LEMMA NotTaken ==
    ASSUME Types, ListInv, Untouched, at \in {"take", "saveCopied", "claim"}
    PROVE  taken[e] = None /\ claim[e] = None /\ payload[e] = None
<1>1. op = "delete" /\ e \in todo /\ e \in Entries BY Working DEF AtWork, Types, Lock
<1> QED BY <1>1 DEF Untouched, Before

\* What the two updates of the record under work change.
StateAltered(s) ==
    /\ WithState(s) \in [Entries -> Entry] /\ WithState(s)[e] \in TrashEntry
    /\ WithState(s)[e] # None /\ WithState(s)[e].state = s
    /\ WithState(s)[e].restore = mem[e].restore /\ WithState(s)[e].path = mem[e].path
    /\ \A x \in Entries : x # e => WithState(s)[x] = mem[x]
RestoreAltered(r) ==
    /\ WithRestore(r) \in [Entries -> Entry] /\ WithRestore(r)[e] \in TrashEntry
    /\ WithRestore(r)[e] # None /\ WithRestore(r)[e].restore = r
    /\ WithRestore(r)[e].state = mem[e].state /\ WithRestore(r)[e].path = mem[e].path
    /\ \A x \in Entries : x # e => WithRestore(r)[x] = mem[x]
LEMMA Updates ==
    ASSUME Types, AtWork, NEW s \in States, NEW r \in {None, "Preparing", "Committed"}
    PROVE  StateAltered(s) /\ RestoreAltered(r)
<1> DEFINE f == [mem[e] EXCEPT !.state = s]
           g == [mem[e] EXCEPT !.restore = r]
<1>1. f \in TrashEntry /\ f.state = s /\ f.restore = mem[e].restore /\ f.path = mem[e].path
  BY DEF TrashEntry, AtWork
<1>2. g \in TrashEntry /\ g.restore = r /\ g.state = mem[e].state /\ g.path = mem[e].path
  BY DEF TrashEntry, AtWork
<1>3. WithState(s) = [mem EXCEPT ![e] = f] /\ WithRestore(r) = [mem EXCEPT ![e] = g]
  BY DEF WithState, WithRestore
<1> HIDE DEF f, g
<1>4. mem \in [Entries -> Entry] /\ e \in Entries BY DEF Types, ListType, AtWork
<1> QED BY <1>1, <1>2, <1>3, <1>4, Distinct DEF Entry, StateAltered, RestoreAltered

\* How a call that fails, or a process that dies, leaves the files.
LEMMA HalfwayFiles ==
    ASSUME FilesType, e \in Entries, Halfway
    PROVE  /\ \/ candidate' = candidate
              \/ \E i \in {None, Torn} : candidate' = [candidate EXCEPT ![e] = i]
           /\ \/ claim' = claim
              \/ /\ at = "clean" /\ claim[e] # None
                 /\ claim' = [claim EXCEPT ![e] = Torn]
           /\ \/ payload' = payload
              \/ /\ at = "clearPayload" /\ payload[e] # None
                 /\ payload' = [payload EXCEPT ![e] = Torn]
           /\ \/ staging' = staging
              \/ \E i \in {None, Torn, Bare, Marked} : staging' = [staging EXCEPT ![e] = i]
<1>1. \/ candidate' = candidate
      \/ \E i \in {None, Torn} : candidate' = [candidate EXCEPT ![e] = i]
  BY DEF Halfway, Half
<1>2. claim' = claim \/ (at = "clean" /\ claim[e] # None /\ claim' = [claim EXCEPT ![e] = Torn])
  BY DEF Halfway, Half
<1>3. \/ payload' = payload
      \/ at = "clearPayload" /\ payload[e] # None /\ payload' = [payload EXCEPT ![e] = Torn]
  BY DEF Halfway, Half
<1>4. \/ staging' = staging
      \/ \E i \in {None, Torn, Bare, Marked} : staging' = [staging EXCEPT ![e] = i]
  BY DEF Halfway, Half
<1> QED BY <1>1, <1>2, <1>3, <1>4

\* A batch is a sequence of paths, and not empty.
LEMMA BatchIsSequence ==
    ASSUME NEW q \in Batches
    PROVE  /\ Len(q) \in Nat /\ Len(q) # 0
           /\ q \in [1 .. Len(q) -> Paths] /\ DOMAIN q = 1 .. Len(q)
<1>1. PICK m \in 0 .. Cardinality(Paths) : q \in [1 .. m -> Paths] BY DEF Batches, SeqOf
<1>2. q \in Seq(Paths) BY <1>1, SeqDef
<1>3. q # <<>> BY DEF Batches
<1> QED BY <1>2, <1>3, LenProperties, EmptySeq

\* A delete records new entries as Pending, or fails, and changes nothing else.
NewEntries == used + 1 .. used'
IsNewManifest(m) ==
    /\ m \in [Entries -> Entry]
    /\ \A x \in NewEntries :
         m[x] \in TrashEntry /\ m[x].state = "Pending" /\ m[x].restore = None
    /\ \A x \in Entries \ NewEntries : m[x] = manifest[x]
RecordsBatch(m) ==
    /\ op = "idle" /\ used' \in 0 .. MaxEntries /\ used < used'
    /\ NewEntries # {} /\ NewEntries \subseteq Entries
    /\ \A x \in NewEntries : x > used
    /\ \A x \in Entries : x > used' => x > used /\ x \notin NewEntries
    /\ UNCHANGED <<src, files, taken, given, items, tidied>>
    /\ IsNewManifest(m)
    /\ \/ /\ manifest' = m /\ mem' = m
          /\ op' = "delete" /\ at' = "look" /\ todo' = NewEntries /\ drop' = {}
       \/ manifest' \in {manifest, m} /\ Idle

\* What a delete does.
LEMMA Deleting ==
    ASSUME Types, \E batch \in Batches : Delete(batch)
    PROVE  \E m : RecordsBatch(m)
<1> PICK batch \in Batches : Delete(batch) OBVIOUS
<1> DEFINE n == Len(batch)
           m == [x \in Entries |->
                   IF x \in used + 1 .. used + n
                   THEN [path |-> batch[x - used], state |-> "Pending", restore |-> None]
                   ELSE manifest[x]]
<1>1. n \in Nat /\ n # 0 /\ batch \in [1 .. n -> Paths] BY BatchIsSequence
<1>2. used \in Nat /\ MaxEntries \in Nat BY TrashAssumption DEF TrashAssumption, Types, RunType
<1>3. used' = used + n /\ used + 1 .. used + n \subseteq Entries BY DEF Delete
<1> HIDE DEF n
<1>4. NewEntries = used + 1 .. used + n BY <1>3 DEF NewEntries
<1>5. NewEntries # {} /\ used < used' /\ used + n \in NewEntries
  <2>1. used + n \in used + 1 .. used + n /\ used < used + n BY <1>1, <1>2
  <2> QED BY <1>3, <1>4, <2>1
<1>6. used' \in 0 .. MaxEntries
  <2>1. used + n \in 1 .. MaxEntries BY <1>3, <1>4, <1>5 DEF Entries
  <2> QED BY <1>3, <2>1
<1>7. \A x \in NewEntries : m[x] \in TrashEntry /\ m[x].state = "Pending" /\ m[x].restore = None
  <2> SUFFICES ASSUME NEW x \in NewEntries
               PROVE  m[x] \in TrashEntry /\ m[x].state = "Pending" /\ m[x].restore = None
    OBVIOUS
  <2>1. x \in used + 1 .. used + n /\ x \in Entries BY <1>3, <1>4
  <2>2. x - used \in 1 .. n BY <1>1, <1>2, <2>1
  <2>3. batch[x - used] \in Paths BY <1>1, <2>2
  <2>4. m[x] = [path |-> batch[x - used], state |-> "Pending", restore |-> None] BY <2>1
  <2> QED BY <2>3, <2>4 DEF TrashEntry, States
<1>8. \A x \in Entries \ NewEntries : m[x] = manifest[x] BY <1>4
<1>9. m \in [Entries -> Entry]
  <2>1. \A x \in Entries : m[x] \in Entry BY <1>7, <1>8 DEF Entry, Types, ListType
  <2> QED BY <2>1
<1>10. IsNewManifest(m) BY <1>7, <1>8, <1>9 DEF IsNewManifest
<1>11. \/ /\ manifest' = m /\ mem' = m
          /\ op' = "delete" /\ at' = "look" /\ todo' = NewEntries /\ drop' = {}
       \/ manifest' \in {manifest, m} /\ Idle
  BY <1>4 DEF Delete, Save, n
<1>12. op = "idle" /\ UNCHANGED <<src, files, taken, given, items, tidied>> BY DEF Delete
<1>13. \A x \in NewEntries : x > used BY <1>2, <1>4
<1>14. \A x \in Entries : x > used' => x > used /\ x \notin NewEntries
  BY <1>2, <1>5, <1>6 DEF Entries, NewEntries
<1>15. RecordsBatch(m)
  <2> HIDE DEF m
  <2> QED BY <1>3, <1>4, <1>5, <1>6, <1>10, <1>11, <1>12, <1>13, <1>14 DEF RecordsBatch
<1> QED BY <1>15

\* A section that opens visits entries that exist.
LEMMA Opening ==
    ASSUME Types, Untouched, NEW o, NEW S, Open(o, S)
    PROVE  S \subseteq 1 .. used
<1>1. Recorded \subseteq Entries /\ \A x \in Recorded : ~(x > used)
  BY DEF Recorded, Untouched
<1>2. \A x \in Entries : x \in Nat /\ x >= 1 BY DEF Entries
<1>3. used \in Nat BY TrashAssumption DEF TrashAssumption, Types, RunType
<1> QED BY <1>1, <1>2, <1>3 DEF Open

\* Every step, with what it may rely on.
LEMMA Cases ==
    ASSUME Types, ListInv, [Next]_vars
    PROVE  \/ UNCHANGED vars
           \/ AtWork /\ LookDelete
           \/ AtWork /\ TakeLocal
           \/ AtWork /\ TakeRemote
           \/ AtWork /\ SaveCopied /\ StateAltered("PayloadReady")
           \/ AtWork /\ ClaimSource
           \/ AtWork /\ SaveClaimed /\ StateAltered("Claimed")
           \/ AtWork /\ Compare
           \/ AtWork /\ Publish
           \/ AtWork /\ Verify
           \/ AtWork /\ SaveVerified /\ StateAltered("PayloadVerified")
           \/ AtWork /\ Clean /\ StateAltered("Ready")
           \/ AtWork /\ SaveReady /\ StateAltered("Ready")
           \/ AtWork /\ LookRestoring
           \/ AtWork /\ LookMoving /\ StateAltered("Claimed")
           \/ AtWork /\ Tidy /\ StateAltered("Ready")
           \/ AtWork /\ Unstage /\ RestoreAltered(None)
           \/ AtWork /\ LookRestore /\ RestoreAltered("Preparing")
           \/ AtWork /\ SavePreparing /\ RestoreAltered(None)
           \/ AtWork /\ GiveBackLocal
           \/ AtWork /\ Stage
           \/ AtWork /\ CopyBack
           \/ AtWork /\ GiveBackRemote
           \/ AtWork /\ Occupied
           \/ AtWork /\ Undo /\ RestoreAltered(None)
           \/ AtWork /\ SaveUndone
           \/ AtWork /\ VerifyBack
           \/ AtWork /\ SaveCommitted /\ RestoreAltered("Committed")
           \/ AtWork /\ FinishBack
           \/ AtWork /\ ClearPayload
           \/ AtWork /\ LookPurge
           \/ Close
           \/ CallFails
           \/ Crash
           \/ Reconcile
           \/ \E q \in Paths : Write(q)
           \/ \E q \in Paths : Discard(q)
           \/ \E x \in Entries : LateWrite(x)
           \/ \E batch \in Batches : Delete(batch)
           \/ \E S \in SUBSET Recorded : Restore(S)
           \/ \E S \in SUBSET Recorded : Purge(S)
<1>1. at \notin {"idle", "close"} => AtWork BY Working
<1>2. AtWork => \A s \in States, r \in {None, "Preparing", "Committed"} :
                  StateAltered(s) /\ RestoreAltered(r)
  BY Updates
<1>3. LookDelete => AtWork /\ LookDelete BY <1>1 DEF LookDelete
<1>4. TakeLocal => AtWork /\ TakeLocal BY <1>1 DEF TakeLocal
<1>5. TakeRemote => AtWork /\ TakeRemote BY <1>1 DEF TakeRemote
<1>6. SaveCopied => AtWork /\ SaveCopied /\ StateAltered("PayloadReady")
  BY <1>1, <1>2 DEF SaveCopied, States
<1>7. ClaimSource => AtWork /\ ClaimSource BY <1>1 DEF ClaimSource
<1>8. SaveClaimed => AtWork /\ SaveClaimed /\ StateAltered("Claimed")
  BY <1>1, <1>2 DEF SaveClaimed, Persist, States
<1>9. Compare => AtWork /\ Compare BY <1>1 DEF Compare
<1>10. Publish => AtWork /\ Publish BY <1>1 DEF Publish
<1>11. Verify => AtWork /\ Verify BY <1>1 DEF Verify
<1>12. SaveVerified => AtWork /\ SaveVerified /\ StateAltered("PayloadVerified")
  BY <1>1, <1>2 DEF SaveVerified, Persist, States
<1>13. Clean => AtWork /\ Clean /\ StateAltered("Ready")
  BY <1>1, <1>2 DEF Clean, States
<1>14. SaveReady => AtWork /\ SaveReady /\ StateAltered("Ready")
  BY <1>1, <1>2 DEF SaveReady, Persist, States
<1>15. LookRestoring => AtWork /\ LookRestoring BY <1>1 DEF LookRestoring
<1>16. LookMoving => AtWork /\ LookMoving /\ StateAltered("Claimed")
  BY <1>1, <1>2 DEF LookMoving, States
<1>17. Tidy => AtWork /\ Tidy /\ StateAltered("Ready")
  BY <1>1, <1>2 DEF Tidy, States
<1>18. Unstage => AtWork /\ Unstage /\ RestoreAltered(None)
  BY <1>1, <1>2 DEF Unstage, States
<1>19. LookRestore => AtWork /\ LookRestore /\ RestoreAltered("Preparing")
  BY <1>1, <1>2 DEF LookRestore, States
<1>20. SavePreparing => AtWork /\ SavePreparing /\ RestoreAltered(None)
  BY <1>1, <1>2 DEF SavePreparing, States
<1>21. GiveBackLocal => AtWork /\ GiveBackLocal BY <1>1 DEF GiveBackLocal
<1>22. Stage => AtWork /\ Stage BY <1>1 DEF Stage
<1>23. CopyBack => AtWork /\ CopyBack BY <1>1 DEF CopyBack
<1>24. GiveBackRemote => AtWork /\ GiveBackRemote BY <1>1 DEF GiveBackRemote
<1>25. Occupied => AtWork /\ Occupied BY <1>1 DEF Occupied
<1>26. Undo => AtWork /\ Undo /\ RestoreAltered(None)
  BY <1>1, <1>2 DEF Undo, States
<1>27. SaveUndone => AtWork /\ SaveUndone BY <1>1 DEF SaveUndone
<1>28. VerifyBack => AtWork /\ VerifyBack BY <1>1 DEF VerifyBack
<1>29. SaveCommitted => AtWork /\ SaveCommitted /\ RestoreAltered("Committed")
  BY <1>1, <1>2 DEF SaveCommitted, States
<1>30. FinishBack => AtWork /\ FinishBack BY <1>1 DEF FinishBack
<1>31. ClearPayload => AtWork /\ ClearPayload BY <1>1 DEF ClearPayload
<1>32. LookPurge => AtWork /\ LookPurge BY <1>1 DEF LookPurge
<1> QED BY <1>3, <1>4, <1>5, <1>6, <1>7, <1>8, <1>9, <1>10, <1>11, <1>12, <1>13, <1>14, <1>15,
     <1>16, <1>17, <1>18, <1>19, <1>20, <1>21, <1>22, <1>23, <1>24, <1>25, <1>26, <1>27, <1>28,
     <1>29, <1>30, <1>31, <1>32 DEF Next, Bin, User, Move, Recover, Return, Request

\* Types of the files.
LEMMA FilesTypeStep ==
    ASSUME Types, ListInv, StepInv, [Next]_vars
    PROVE  FilesType'
<1> USE DEF Types, FilesType, Kinds, Dirs
<1>1. CASE UNCHANGED vars BY <1>1, StaysCurrent DEF vars
<1>2. CASE AtWork /\ LookDelete
  BY <1>2 DEF AtWork, LookDelete, Advance, Skip, Done, Goto, Captured, Mishap
<1>3. CASE AtWork /\ TakeLocal
  BY <1>3 DEF AtWork, TakeLocal, Advance, Skip, Done, Goto, DeleteFails, Mishap
<1>4. CASE AtWork /\ TakeRemote
  BY <1>4 DEF AtWork, TakeRemote, Advance, Skip, Done, Goto, DeleteFails, Mishap
<1>5. CASE AtWork /\ SaveCopied /\ StateAltered("PayloadReady")
  <2>1. AtWork BY <1>5
  <2>2. StateAltered("PayloadReady") BY <1>5
  <2> USE DEF AtWork, StateAltered
  <2>3. CASE Save(WithState("PayloadReady")) /\ Goto("claim") /\ UNCHANGED <<src, files, history>>
    BY <1>5, <2>1, <2>2, <2>3, StaysCurrent, NotTaken DEF SaveCopied, Save, Goto
  <2>4. CASE SaveFails(WithState("PayloadReady")) /\ Skip /\ UNCHANGED <<src, files, history>>
    BY <1>5, <2>1, <2>2, <2>4, NotTaken DEF SaveCopied, SaveFails, Skip, Advance
  <2>5. CASE /\ SaveFails(WithState("PayloadReady")) /\ Done /\ src[p] # None /\ payload[e] = None
             /\ candidate' = [candidate EXCEPT ![e] = None]
             /\ UNCHANGED <<src, payload, claim, staging, history>>
    BY <1>5, <2>1, <2>2, <2>5, NotTaken DEF SaveCopied, SaveFails, Done, Advance
  <2> QED BY <1>5, <2>3, <2>4, <2>5 DEF SaveCopied, DeleteFails
<1>6. CASE AtWork /\ ClaimSource
  BY <1>6 DEF AtWork, ClaimSource, Advance, Skip, Done, Goto, DeleteFails, Mishap
<1>7. CASE AtWork /\ SaveClaimed /\ StateAltered("Claimed")
  BY <1>7 DEF AtWork, StateAltered, SaveClaimed, Advance, Skip, Done, Goto, Persist, Mishap,
       Save, SaveFails
<1>8. CASE AtWork /\ Compare
  BY <1>8 DEF AtWork, Compare, Advance, Skip, Done, Goto
<1>9. CASE AtWork /\ Publish
  BY <1>9 DEF AtWork, Publish, Advance, Skip, Done, Goto, Mishap
<1>10. CASE AtWork /\ Verify
  BY <1>10 DEF AtWork, Verify, Advance, Skip, Done, Goto, Match
<1>11. CASE AtWork /\ SaveVerified /\ StateAltered("PayloadVerified")
  BY <1>11 DEF AtWork, StateAltered, SaveVerified, Advance, Skip, Done, Goto, Persist, Mishap,
       Save, SaveFails
<1>12. CASE AtWork /\ Clean /\ StateAltered("Ready")
  BY <1>12 DEF AtWork, StateAltered, Clean, Advance, Skip, Done, Goto
<1>13. CASE AtWork /\ SaveReady /\ StateAltered("Ready")
  BY <1>13 DEF AtWork, StateAltered, SaveReady, Advance, Skip, Done, Goto, Persist, Mishap, Save,
       SaveFails
<1>14. CASE AtWork /\ LookRestoring
  BY <1>14 DEF AtWork, LookRestoring, Advance, Skip, Done, Goto, entry
<1>15. CASE AtWork /\ LookMoving /\ StateAltered("Claimed")
  BY <1>15 DEF AtWork, StateAltered, LookMoving, Advance, Skip, Done, Goto, entry
<1>16. CASE AtWork /\ Tidy /\ StateAltered("Ready")
  BY <1>16 DEF AtWork, StateAltered, Tidy, Advance, Skip, Done, Goto
<1>17. CASE AtWork /\ Unstage /\ RestoreAltered(None)
  BY <1>17 DEF AtWork, RestoreAltered, Unstage, Advance, Skip, Done, Goto
<1>18. CASE AtWork /\ LookRestore /\ RestoreAltered("Preparing")
  BY <1>18 DEF AtWork, RestoreAltered, LookRestore, Advance, Skip, Done, Goto, entry
<1>19. CASE AtWork /\ SavePreparing /\ RestoreAltered(None)
  BY <1>19 DEF AtWork, RestoreAltered, SavePreparing, Advance, Skip, Done, Goto, Save, Mishap
<1>20. CASE AtWork /\ GiveBackLocal
  BY <1>20 DEF AtWork, GiveBackLocal, Advance, Skip, Done, Goto, PutBack
<1>21. CASE AtWork /\ Stage
  BY <1>21 DEF AtWork, Stage, Advance, Skip, Done, Goto
<1>22. CASE AtWork /\ CopyBack
  BY <1>22 DEF AtWork, CopyBack, Advance, Skip, Done, Goto
<1>23. CASE AtWork /\ GiveBackRemote
  <2>1. AtWork BY <1>23
  <2> USE DEF AtWork
  <2> QED
    BY <1>23, <2>1 DEF GiveBackRemote, Goto, PutBack, StepInv
<1>24. CASE AtWork /\ Occupied
  BY <1>24 DEF AtWork, Occupied, Advance, Skip, Done, Goto
<1>25. CASE AtWork /\ Undo /\ RestoreAltered(None)
  BY <1>25 DEF AtWork, RestoreAltered, Undo, Advance, Skip, Done, Goto
<1>26. CASE AtWork /\ SaveUndone
  BY <1>26 DEF AtWork, SaveUndone, Advance, Skip, Done, Goto, Save, SaveFails, Mishap
<1>27. CASE AtWork /\ VerifyBack
  BY <1>27 DEF AtWork, VerifyBack, Advance, Skip, Done, Goto, Match
<1>28. CASE AtWork /\ SaveCommitted /\ RestoreAltered("Committed")
  BY <1>28 DEF AtWork, RestoreAltered, SaveCommitted, Advance, Skip, Done, Goto, Save, SaveFails,
       Mishap
<1>29. CASE AtWork /\ FinishBack
  BY <1>29 DEF AtWork, FinishBack, Advance, Skip, Done, Goto
<1>30. CASE AtWork /\ ClearPayload
  BY <1>30 DEF AtWork, ClearPayload, Advance, Skip, Done, Goto
<1>31. CASE AtWork /\ LookPurge
  BY <1>31 DEF AtWork, LookPurge, Advance, Skip, Done, Goto, entry
<1>32. CASE Close BY <1>32 DEF Close, Idle, Mishap
<1>33. CASE CallFails
  <2>1. e \in Entries BY <1>33, Current DEF CallFails, Types
  <2>2. Halfway /\ UNCHANGED <<src, taken>> BY <1>33 DEF CallFails
  <2> QED BY <2>1, <2>2, HalfwayFiles DEF Types
<1>34. CASE Crash
  <2>1. CASE todo = {} BY <1>34, <2>1 DEF Crash, Types
  <2>2. CASE todo # {}
    <3>1. e \in Entries BY <2>2, Current DEF Types
    <3>2. Halfway /\ UNCHANGED <<src, taken>> BY <1>34, <2>2 DEF Crash
    <3> QED BY <3>1, <3>2, HalfwayFiles DEF Types
  <2> QED BY <2>1, <2>2
<1>35. CASE Reconcile BY <1>35 DEF Reconcile, Open
<1>36. CASE \E q \in Paths : Write(q)
  <2>1. items < MaxItems => items + 1 \in Items
    BY TrashAssumption DEF TrashAssumption, Types, CountType, Items
  <2> QED BY <1>36, <2>1 DEF Write
<1>37. CASE \E q \in Paths : Discard(q)
  BY <1>37, StaysCurrent DEF Discard
<1>38. CASE \E x \in Entries : LateWrite(x)
  <2>1. items < MaxItems => items + 1 \in Items
    BY TrashAssumption DEF TrashAssumption, Types, CountType, Items
  <2> QED BY <1>38, <2>1 DEF LateWrite
<1>39. CASE \E batch \in Batches : Delete(batch)
  <2> PICK m : RecordsBatch(m) BY <1>39, Deleting
  <2> QED BY Distinct DEF RecordsBatch, IsNewManifest, Idle
<1>40. CASE \E S \in SUBSET Recorded : Restore(S) BY <1>40 DEF Restore, Open
<1>41. CASE \E S \in SUBSET Recorded : Purge(S) BY <1>41 DEF Purge, Open
<1> QED BY <1>1, <1>2, <1>3, <1>4, <1>5, <1>6, <1>7, <1>8, <1>9, <1>10, <1>11, <1>12, <1>13,
     <1>14, <1>15, <1>16, <1>17, <1>18, <1>19, <1>20, <1>21, <1>22, <1>23, <1>24, <1>25, <1>26,
     <1>27, <1>28, <1>29, <1>30, <1>31, <1>32, <1>33, <1>34, <1>35, <1>36, <1>37, <1>38, <1>39,
     <1>40, <1>41, Cases

\* Types of the records.
LEMMA ListTypeStep ==
    ASSUME Types, ListInv, [Next]_vars
    PROVE  ListType'
<1> USE DEF Types, ListType
<1>1. CASE UNCHANGED vars BY <1>1, StaysCurrent DEF vars
<1>2. CASE AtWork /\ LookDelete
  BY <1>2 DEF AtWork, LookDelete, Advance, Skip, Done, Goto, Captured, Mishap
<1>3. CASE AtWork /\ TakeLocal
  BY <1>3 DEF AtWork, TakeLocal, Advance, Skip, Done, Goto, DeleteFails, Mishap
<1>4. CASE AtWork /\ TakeRemote
  BY <1>4 DEF AtWork, TakeRemote, Advance, Skip, Done, Goto, DeleteFails, Mishap
<1>5. CASE AtWork /\ SaveCopied /\ StateAltered("PayloadReady")
  <2>1. AtWork BY <1>5
  <2> USE DEF AtWork
  <2>2. WithState("PayloadReady") \in [Entries -> Entry] BY <1>5 DEF StateAltered, RestoreAltered
  <2>3. mem' \in {mem, WithState("PayloadReady")} /\ manifest' \in {manifest, mem, WithState("PayloadReady")}
    BY <1>5 DEF SaveCopied, Save, SaveFails
  <2>4. op' = op /\ op # "idle"
    BY <1>5, Working DEF SaveCopied, Save, SaveFails, Goto, Skip, Done, Advance, DeleteFails
  <2> QED BY <2>2, <2>3, <2>4
<1>6. CASE AtWork /\ ClaimSource
  BY <1>6 DEF AtWork, ClaimSource, Advance, Skip, Done, Goto, DeleteFails, Mishap
<1>7. CASE AtWork /\ SaveClaimed /\ StateAltered("Claimed")
  <2>1. AtWork BY <1>7
  <2> USE DEF AtWork
  <2>2. WithState("Claimed") \in [Entries -> Entry] BY <1>7 DEF StateAltered, RestoreAltered
  <2>3. mem' \in {mem, WithState("Claimed")} /\ manifest' \in {manifest, mem, WithState("Claimed")}
    BY <1>7 DEF SaveClaimed, Persist, Save, SaveFails
  <2>4. op' = op /\ op # "idle"
    BY <1>7, Working DEF SaveClaimed, Persist, Save, SaveFails, Goto, Skip, Advance
  <2> QED BY <2>2, <2>3, <2>4
<1>8. CASE AtWork /\ Compare
  BY <1>8 DEF AtWork, Compare, Advance, Skip, Done, Goto
<1>9. CASE AtWork /\ Publish
  BY <1>9 DEF AtWork, Publish, Advance, Skip, Done, Goto, Mishap
<1>10. CASE AtWork /\ Verify
  BY <1>10 DEF AtWork, Verify, Advance, Skip, Done, Goto, Match
<1>11. CASE AtWork /\ SaveVerified /\ StateAltered("PayloadVerified")
  <2>1. AtWork BY <1>11
  <2> USE DEF AtWork
  <2>2. WithState("PayloadVerified") \in [Entries -> Entry]
    BY <1>11 DEF StateAltered, RestoreAltered
  <2>3. mem' \in {mem, WithState("PayloadVerified")} /\ manifest' \in {manifest, mem, WithState("PayloadVerified")}
    BY <1>11 DEF SaveVerified, Persist, Save, SaveFails
  <2>4. op' = op /\ op # "idle"
    BY <1>11, Working DEF SaveVerified, Persist, Save, SaveFails, Goto, Skip, Advance
  <2> QED BY <2>2, <2>3, <2>4
<1>12. CASE AtWork /\ Clean /\ StateAltered("Ready")
  <2>1. AtWork BY <1>12
  <2> USE DEF AtWork
  <2>2. WithState("Ready") \in [Entries -> Entry] BY <1>12 DEF StateAltered, RestoreAltered
  <2>3. mem' \in {mem, WithState("Ready")} /\ manifest' \in {manifest, mem, WithState("Ready")}
    BY <1>12 DEF Clean
  <2>4. op' = op /\ op # "idle" BY <1>12, Working DEF Clean, Goto, Skip, Done, Advance
  <2> QED BY <2>2, <2>3, <2>4
<1>13. CASE AtWork /\ SaveReady /\ StateAltered("Ready")
  <2>1. AtWork BY <1>13
  <2> USE DEF AtWork
  <2>2. WithState("Ready") \in [Entries -> Entry] BY <1>13 DEF StateAltered, RestoreAltered
  <2>3. mem' \in {mem, WithState("Ready")} /\ manifest' \in {manifest, mem, WithState("Ready")}
    BY <1>13 DEF SaveReady, Persist, Save, SaveFails
  <2>4. op' = op /\ op # "idle"
    BY <1>13, Working DEF SaveReady, Persist, Save, SaveFails, Skip, Advance
  <2> QED BY <2>2, <2>3, <2>4
<1>14. CASE AtWork /\ LookRestoring
  BY <1>14 DEF AtWork, LookRestoring, Advance, Skip, Done, Goto, entry
<1>15. CASE AtWork /\ LookMoving /\ StateAltered("Claimed")
  <2>1. AtWork BY <1>15
  <2> USE DEF AtWork
  <2>2. WithState("Claimed") \in [Entries -> Entry] BY <1>15 DEF StateAltered, RestoreAltered
  <2>3. mem' \in {mem, WithState("Claimed")} /\ manifest' \in {manifest, mem, WithState("Claimed")}
    BY <1>15 DEF LookMoving
  <2>4. op' = op /\ op # "idle" BY <1>15, Working DEF LookMoving, Goto, Skip, Done, Advance
  <2> QED BY <2>2, <2>3, <2>4
<1>16. CASE AtWork /\ Tidy /\ StateAltered("Ready")
  <2>1. AtWork BY <1>16
  <2> USE DEF AtWork
  <2>2. WithState("Ready") \in [Entries -> Entry] BY <1>16 DEF StateAltered, RestoreAltered
  <2>3. mem' \in {mem, WithState("Ready")} /\ manifest' \in {manifest, mem, WithState("Ready")}
    BY <1>16 DEF Tidy
  <2>4. op' = op /\ op # "idle" BY <1>16, Working DEF Tidy, Goto, Skip, Done, Advance
  <2> QED BY <2>2, <2>3, <2>4
<1>17. CASE AtWork /\ Unstage /\ RestoreAltered(None)
  <2>1. AtWork BY <1>17
  <2> USE DEF AtWork
  <2>2. WithRestore(None) \in [Entries -> Entry] BY <1>17 DEF StateAltered, RestoreAltered
  <2>3. mem' \in {mem, WithRestore(None)} /\ manifest' \in {manifest, mem, WithRestore(None)}
    BY <1>17 DEF Unstage
  <2>4. op' = op /\ op # "idle" BY <1>17, Working DEF Unstage, Goto, Skip, Done, Advance
  <2> QED BY <2>2, <2>3, <2>4
<1>18. CASE AtWork /\ LookRestore /\ RestoreAltered("Preparing")
  <2>1. AtWork BY <1>18
  <2> USE DEF AtWork
  <2>2. WithRestore("Preparing") \in [Entries -> Entry] BY <1>18 DEF StateAltered, RestoreAltered
  <2>3. mem' \in {mem, WithRestore("Preparing")} /\ manifest' \in {manifest, mem, WithRestore("Preparing")}
    BY <1>18 DEF LookRestore
  <2>4. op' = op /\ op # "idle" BY <1>18, Working DEF LookRestore, Goto, Skip, Done, Advance
  <2> QED BY <2>2, <2>3, <2>4
<1>19. CASE AtWork /\ SavePreparing /\ RestoreAltered(None)
  <2>1. AtWork BY <1>19
  <2> USE DEF AtWork
  <2>2. WithRestore(None) \in [Entries -> Entry] BY <1>19 DEF StateAltered, RestoreAltered
  <2>3. mem' \in {mem, WithRestore(None)} /\ manifest' \in {manifest, mem, WithRestore(None)}
    BY <1>19 DEF SavePreparing, Save
  <2>4. op' = op /\ op # "idle" BY <1>19, Working DEF SavePreparing, Save, Goto, Skip, Advance
  <2> QED BY <2>2, <2>3, <2>4
<1>20. CASE AtWork /\ GiveBackLocal
  BY <1>20 DEF AtWork, GiveBackLocal, Advance, Skip, Done, Goto, PutBack
<1>21. CASE AtWork /\ Stage
  BY <1>21 DEF AtWork, Stage, Advance, Skip, Done, Goto
<1>22. CASE AtWork /\ CopyBack
  BY <1>22 DEF AtWork, CopyBack, Advance, Skip, Done, Goto
<1>23. CASE AtWork /\ GiveBackRemote
  BY <1>23 DEF AtWork, GiveBackRemote, Advance, Skip, Done, Goto, PutBack
<1>24. CASE AtWork /\ Occupied
  BY <1>24 DEF AtWork, Occupied, Advance, Skip, Done, Goto
<1>25. CASE AtWork /\ Undo /\ RestoreAltered(None)
  <2>1. AtWork BY <1>25
  <2> USE DEF AtWork
  <2>2. WithRestore(None) \in [Entries -> Entry] BY <1>25 DEF StateAltered, RestoreAltered
  <2>3. mem' \in {mem, WithRestore(None)} /\ manifest' \in {manifest, mem, WithRestore(None)}
    BY <1>25 DEF Undo
  <2>4. op' = op /\ op # "idle" BY <1>25, Working DEF Undo, Goto, Skip, Done, Advance
  <2> QED BY <2>2, <2>3, <2>4
<1>26. CASE AtWork /\ SaveUndone
  BY <1>26 DEF AtWork, SaveUndone, Advance, Skip, Done, Goto, Save, SaveFails, Mishap
<1>27. CASE AtWork /\ VerifyBack
  BY <1>27 DEF AtWork, VerifyBack, Advance, Skip, Done, Goto, Match
<1>28. CASE AtWork /\ SaveCommitted /\ RestoreAltered("Committed")
  <2>1. AtWork BY <1>28
  <2> USE DEF AtWork
  <2>2. WithRestore("Committed") \in [Entries -> Entry] BY <1>28 DEF StateAltered, RestoreAltered
  <2>3. mem' \in {mem, WithRestore("Committed")} /\ manifest' \in {manifest, mem, WithRestore("Committed")}
    BY <1>28 DEF SaveCommitted, Save, SaveFails
  <2>4. op' = op /\ op # "idle"
    BY <1>28, Working DEF SaveCommitted, Save, SaveFails, Goto, Skip, Advance
  <2> QED BY <2>2, <2>3, <2>4
<1>29. CASE AtWork /\ FinishBack
  BY <1>29 DEF AtWork, FinishBack, Advance, Skip, Done, Goto
<1>30. CASE AtWork /\ ClearPayload
  BY <1>30 DEF AtWork, ClearPayload, Advance, Skip, Done, Goto
<1>31. CASE AtWork /\ LookPurge
  BY <1>31 DEF AtWork, LookPurge, Advance, Skip, Done, Goto, entry
<1>32. CASE Close
  <2> DEFINE m == [x \in Entries |-> IF x \in drop THEN None ELSE mem[x]]
  <2>1. m \in [Entries -> Entry] BY DEF Entry
  <2>2. mem' = [x \in Entries |-> None] /\ manifest' \in {manifest, m} BY <1>32 DEF Close, Idle
  <2> QED BY <2>1, <2>2 DEF Entry
<1>33. CASE CallFails
  <2>1. e \in todo /\ e \in Entries /\ Halfway BY <1>33, Current DEF CallFails, Types
  <2> QED
    BY <1>33, <2>1, HalfwayFiles, StaysCurrent DEF CallFails, Mishap, Advance, Skip, Done, Goto
<1>34. CASE Crash
  <2>1. mem' = [x \in Entries |-> None] /\ UNCHANGED manifest BY <1>34 DEF Crash, Idle
  <2> QED BY <2>1 DEF Entry
<1>35. CASE Reconcile BY <1>35 DEF Reconcile, Open
<1>36. CASE \E q \in Paths : Write(q)
  BY <1>36, StaysCurrent DEF Write
<1>37. CASE \E q \in Paths : Discard(q)
  BY <1>37, StaysCurrent DEF Discard
<1>38. CASE \E x \in Entries : LateWrite(x)
  <2> PICK x \in Entries : LateWrite(x) BY <1>38
  <2>1. items + 1 \in Items BY NextItem DEF LateWrite, Types
  <2> QED BY <2>1, StaysCurrent, Distinct DEF LateWrite
<1>39. CASE \E batch \in Batches : Delete(batch)
  <2> PICK m : RecordsBatch(m) BY <1>39, Deleting
  <2> QED BY DEF RecordsBatch, IsNewManifest, Idle, Entry
<1>40. CASE \E S \in SUBSET Recorded : Restore(S) BY <1>40 DEF Restore, Open
<1>41. CASE \E S \in SUBSET Recorded : Purge(S) BY <1>41 DEF Purge, Open
<1> QED BY <1>1, <1>2, <1>3, <1>4, <1>5, <1>6, <1>7, <1>8, <1>9, <1>10, <1>11, <1>12, <1>13,
     <1>14, <1>15, <1>16, <1>17, <1>18, <1>19, <1>20, <1>21, <1>22, <1>23, <1>24, <1>25, <1>26,
     <1>27, <1>28, <1>29, <1>30, <1>31, <1>32, <1>33, <1>34, <1>35, <1>36, <1>37, <1>38, <1>39,
     <1>40, <1>41, Cases

\* Types of the sections.
LEMMA RunTypeStep ==
    ASSUME Types, ListInv, Untouched, [Next]_vars
    PROVE  RunType'
<1> USE DEF Types, RunType
<1>1. CASE UNCHANGED vars BY <1>1, StaysCurrent DEF vars
<1>2. CASE AtWork /\ LookDelete
  BY <1>2 DEF AtWork, LookDelete, Advance, Skip, Done, Goto, Captured, Mishap
<1>3. CASE AtWork /\ TakeLocal
  BY <1>3 DEF AtWork, TakeLocal, Advance, Skip, Done, Goto, DeleteFails, Mishap
<1>4. CASE AtWork /\ TakeRemote
  BY <1>4 DEF AtWork, TakeRemote, Advance, Skip, Done, Goto, DeleteFails, Mishap
<1>5. CASE AtWork /\ SaveCopied /\ StateAltered("PayloadReady")
  <2>1. AtWork BY <1>5
  <2>2. StateAltered("PayloadReady") BY <1>5
  <2> USE DEF AtWork, StateAltered
  <2>3. CASE Save(WithState("PayloadReady")) /\ Goto("claim") /\ UNCHANGED <<src, files, history>>
    BY <1>5, <2>1, <2>2, <2>3, StaysCurrent, NotTaken DEF SaveCopied, Save, Goto
  <2>4. CASE SaveFails(WithState("PayloadReady")) /\ Skip /\ UNCHANGED <<src, files, history>>
    BY <1>5, <2>1, <2>2, <2>4, NotTaken DEF SaveCopied, SaveFails, Skip, Advance
  <2>5. CASE /\ SaveFails(WithState("PayloadReady")) /\ Done /\ src[p] # None /\ payload[e] = None
             /\ candidate' = [candidate EXCEPT ![e] = None]
             /\ UNCHANGED <<src, payload, claim, staging, history>>
    BY <1>5, <2>1, <2>2, <2>5, NotTaken DEF SaveCopied, SaveFails, Done, Advance
  <2> QED BY <1>5, <2>3, <2>4, <2>5 DEF SaveCopied, DeleteFails
<1>6. CASE AtWork /\ ClaimSource
  BY <1>6 DEF AtWork, ClaimSource, Advance, Skip, Done, Goto, DeleteFails, Mishap
<1>7. CASE AtWork /\ SaveClaimed /\ StateAltered("Claimed")
  BY <1>7 DEF AtWork, StateAltered, SaveClaimed, Advance, Skip, Done, Goto, Persist, Mishap,
       Save, SaveFails
<1>8. CASE AtWork /\ Compare
  BY <1>8 DEF AtWork, Compare, Advance, Skip, Done, Goto
<1>9. CASE AtWork /\ Publish
  BY <1>9 DEF AtWork, Publish, Advance, Skip, Done, Goto, Mishap
<1>10. CASE AtWork /\ Verify
  BY <1>10 DEF AtWork, Verify, Advance, Skip, Done, Goto, Match
<1>11. CASE AtWork /\ SaveVerified /\ StateAltered("PayloadVerified")
  BY <1>11 DEF AtWork, StateAltered, SaveVerified, Advance, Skip, Done, Goto, Persist, Mishap,
       Save, SaveFails
<1>12. CASE AtWork /\ Clean /\ StateAltered("Ready")
  BY <1>12 DEF AtWork, StateAltered, Clean, Advance, Skip, Done, Goto
<1>13. CASE AtWork /\ SaveReady /\ StateAltered("Ready")
  BY <1>13 DEF AtWork, StateAltered, SaveReady, Advance, Skip, Done, Goto, Persist, Mishap, Save,
       SaveFails
<1>14. CASE AtWork /\ LookRestoring
  BY <1>14 DEF AtWork, LookRestoring, Advance, Skip, Done, Goto, entry
<1>15. CASE AtWork /\ LookMoving /\ StateAltered("Claimed")
  BY <1>15 DEF AtWork, StateAltered, LookMoving, Advance, Skip, Done, Goto, entry
<1>16. CASE AtWork /\ Tidy /\ StateAltered("Ready")
  BY <1>16 DEF AtWork, StateAltered, Tidy, Advance, Skip, Done, Goto
<1>17. CASE AtWork /\ Unstage /\ RestoreAltered(None)
  BY <1>17 DEF AtWork, RestoreAltered, Unstage, Advance, Skip, Done, Goto
<1>18. CASE AtWork /\ LookRestore /\ RestoreAltered("Preparing")
  BY <1>18 DEF AtWork, RestoreAltered, LookRestore, Advance, Skip, Done, Goto, entry
<1>19. CASE AtWork /\ SavePreparing /\ RestoreAltered(None)
  BY <1>19 DEF AtWork, RestoreAltered, SavePreparing, Advance, Skip, Done, Goto, Save, Mishap
<1>20. CASE AtWork /\ GiveBackLocal
  BY <1>20 DEF AtWork, GiveBackLocal, Advance, Skip, Done, Goto, PutBack
<1>21. CASE AtWork /\ Stage
  BY <1>21 DEF AtWork, Stage, Advance, Skip, Done, Goto
<1>22. CASE AtWork /\ CopyBack
  BY <1>22 DEF AtWork, CopyBack, Advance, Skip, Done, Goto
<1>23. CASE AtWork /\ GiveBackRemote
  BY <1>23 DEF AtWork, GiveBackRemote, Advance, Skip, Done, Goto, PutBack
<1>24. CASE AtWork /\ Occupied
  BY <1>24 DEF AtWork, Occupied, Advance, Skip, Done, Goto
<1>25. CASE AtWork /\ Undo /\ RestoreAltered(None)
  BY <1>25 DEF AtWork, RestoreAltered, Undo, Advance, Skip, Done, Goto
<1>26. CASE AtWork /\ SaveUndone
  BY <1>26 DEF AtWork, SaveUndone, Advance, Skip, Done, Goto, Save, SaveFails, Mishap
<1>27. CASE AtWork /\ VerifyBack
  BY <1>27 DEF AtWork, VerifyBack, Advance, Skip, Done, Goto, Match
<1>28. CASE AtWork /\ SaveCommitted /\ RestoreAltered("Committed")
  BY <1>28 DEF AtWork, RestoreAltered, SaveCommitted, Advance, Skip, Done, Goto, Save, SaveFails,
       Mishap
<1>29. CASE AtWork /\ FinishBack
  BY <1>29 DEF AtWork, FinishBack, Advance, Skip, Done, Goto
<1>30. CASE AtWork /\ ClearPayload
  BY <1>30 DEF AtWork, ClearPayload, Advance, Skip, Done, Goto
<1>31. CASE AtWork /\ LookPurge
  BY <1>31 DEF AtWork, LookPurge, Advance, Skip, Done, Goto, entry
<1>32. CASE Close BY <1>32 DEF Close, Idle, Mishap
<1>33. CASE CallFails
  <2>1. e \in todo /\ e \in Entries /\ Halfway BY <1>33, Current DEF CallFails, Types
  <2> QED
    BY <1>33, <2>1, HalfwayFiles, StaysCurrent DEF CallFails, Mishap, Advance, Skip, Done, Goto
<1>34. CASE Crash
  <2>1. CASE todo = {} BY <1>34, <2>1 DEF Crash, Idle
  <2>2. CASE todo # {}
    <3>1. e \in todo /\ e \in Entries /\ Halfway BY <1>34, <2>2, Current DEF Crash, Types
    <3> QED BY <1>34, <3>1, HalfwayFiles DEF Crash, Idle
  <2> QED BY <2>1, <2>2
<1>35. CASE Reconcile
  <2> QED BY <1>35, Opening DEF Reconcile, Open
<1>36. CASE \E q \in Paths : Write(q)
  BY <1>36, StaysCurrent DEF Write
<1>37. CASE \E q \in Paths : Discard(q)
  BY <1>37, StaysCurrent DEF Discard
<1>38. CASE \E x \in Entries : LateWrite(x)
  <2> PICK x \in Entries : LateWrite(x) BY <1>38
  <2>1. items + 1 \in Items BY NextItem DEF LateWrite, Types
  <2> QED BY <2>1, StaysCurrent, Distinct DEF LateWrite
<1>39. CASE \E batch \in Batches : Delete(batch)
  <2> PICK m : RecordsBatch(m) BY <1>39, Deleting
  <2> QED BY DEF RecordsBatch, IsNewManifest, NewEntries, Idle
<1>40. CASE \E S \in SUBSET Recorded : Restore(S)
  <2> PICK S \in SUBSET Recorded : Restore(S) BY <1>40
  <2> QED BY Opening DEF Restore, Open
<1>41. CASE \E S \in SUBSET Recorded : Purge(S)
  <2> PICK S \in SUBSET Recorded : Purge(S) BY <1>41
  <2> QED BY Opening DEF Purge, Open
<1> QED BY <1>1, <1>2, <1>3, <1>4, <1>5, <1>6, <1>7, <1>8, <1>9, <1>10, <1>11, <1>12, <1>13,
     <1>14, <1>15, <1>16, <1>17, <1>18, <1>19, <1>20, <1>21, <1>22, <1>23, <1>24, <1>25, <1>26,
     <1>27, <1>28, <1>29, <1>30, <1>31, <1>32, <1>33, <1>34, <1>35, <1>36, <1>37, <1>38, <1>39,
     <1>40, <1>41, Cases

\* Types of the counters.
LEMMA CountTypeStep ==
    ASSUME Types, ListInv, [Next]_vars
    PROVE  CountType'
<1> USE TrashAssumption DEF TrashAssumption, Types, CountType
<1>1. CASE UNCHANGED vars BY <1>1 DEF vars
<1>2. CASE AtWork /\ LookDelete
  BY <1>2 DEF LookDelete, Advance, Skip, Done, Goto, Captured, Mishap
<1>3. CASE AtWork /\ TakeLocal
  BY <1>3 DEF TakeLocal, Advance, Skip, Done, Goto, DeleteFails, Mishap
<1>4. CASE AtWork /\ TakeRemote
  BY <1>4 DEF TakeRemote, Advance, Skip, Done, Goto, DeleteFails, Mishap
<1>5. CASE AtWork /\ SaveCopied /\ StateAltered("PayloadReady")
  BY <1>5 DEF SaveCopied, Advance, Skip, Done, Goto, DeleteFails, Mishap, Save, SaveFails
<1>6. CASE AtWork /\ ClaimSource
  BY <1>6 DEF ClaimSource, Advance, Skip, Done, Goto, DeleteFails, Mishap
<1>7. CASE AtWork /\ SaveClaimed /\ StateAltered("Claimed")
  BY <1>7 DEF SaveClaimed, Advance, Skip, Done, Goto, Persist, Mishap, Save, SaveFails
<1>8. CASE AtWork /\ Compare BY <1>8 DEF Compare, Advance, Skip, Done, Goto
<1>9. CASE AtWork /\ Publish BY <1>9 DEF Publish, Advance, Skip, Done, Goto, Mishap
<1>10. CASE AtWork /\ Verify BY <1>10 DEF Verify, Advance, Skip, Done, Goto, Match
<1>11. CASE AtWork /\ SaveVerified /\ StateAltered("PayloadVerified")
  BY <1>11 DEF SaveVerified, Advance, Skip, Done, Goto, Persist, Mishap, Save, SaveFails
<1>12. CASE AtWork /\ Clean /\ StateAltered("Ready") BY <1>12 DEF Clean, Advance, Skip, Done, Goto
<1>13. CASE AtWork /\ SaveReady /\ StateAltered("Ready")
  BY <1>13 DEF SaveReady, Advance, Skip, Done, Goto, Persist, Mishap, Save, SaveFails
<1>14. CASE AtWork /\ LookRestoring BY <1>14 DEF LookRestoring, Advance, Skip, Done, Goto, entry
<1>15. CASE AtWork /\ LookMoving /\ StateAltered("Claimed")
  BY <1>15 DEF LookMoving, Advance, Skip, Done, Goto, entry
<1>16. CASE AtWork /\ Tidy /\ StateAltered("Ready") BY <1>16 DEF Tidy, Advance, Skip, Done, Goto
<1>17. CASE AtWork /\ Unstage /\ RestoreAltered(None)
  BY <1>17 DEF Unstage, Advance, Skip, Done, Goto
<1>18. CASE AtWork /\ LookRestore /\ RestoreAltered("Preparing")
  BY <1>18 DEF LookRestore, Advance, Skip, Done, Goto, entry
<1>19. CASE AtWork /\ SavePreparing /\ RestoreAltered(None)
  BY <1>19 DEF SavePreparing, Advance, Skip, Done, Goto, Save, Mishap
<1>20. CASE AtWork /\ GiveBackLocal BY <1>20 DEF GiveBackLocal, Advance, Skip, Done, Goto, PutBack
<1>21. CASE AtWork /\ Stage BY <1>21 DEF Stage, Advance, Skip, Done, Goto
<1>22. CASE AtWork /\ CopyBack BY <1>22 DEF CopyBack, Advance, Skip, Done, Goto
<1>23. CASE AtWork /\ GiveBackRemote
  BY <1>23 DEF GiveBackRemote, Advance, Skip, Done, Goto, PutBack
<1>24. CASE AtWork /\ Occupied BY <1>24 DEF Occupied, Advance, Skip, Done, Goto
<1>25. CASE AtWork /\ Undo /\ RestoreAltered(None) BY <1>25 DEF Undo, Advance, Skip, Done, Goto
<1>26. CASE AtWork /\ SaveUndone
  BY <1>26 DEF SaveUndone, Advance, Skip, Done, Goto, Save, SaveFails, Mishap
<1>27. CASE AtWork /\ VerifyBack BY <1>27 DEF VerifyBack, Advance, Skip, Done, Goto, Match
<1>28. CASE AtWork /\ SaveCommitted /\ RestoreAltered("Committed")
  BY <1>28 DEF SaveCommitted, Advance, Skip, Done, Goto, Save, SaveFails, Mishap
<1>29. CASE AtWork /\ FinishBack BY <1>29 DEF FinishBack, Advance, Skip, Done, Goto
<1>30. CASE AtWork /\ ClearPayload BY <1>30 DEF ClearPayload, Advance, Skip, Done, Goto
<1>31. CASE AtWork /\ LookPurge BY <1>31 DEF LookPurge, Advance, Skip, Done, Goto, entry
<1>32. CASE Close BY <1>32 DEF Close, Idle, Mishap
<1>33. CASE CallFails BY <1>33 DEF CallFails, Mishap, Advance, Skip, Done, Goto
<1>34. CASE Crash BY <1>34 DEF Crash, Mishap, Idle
<1>35. CASE Reconcile BY <1>35 DEF Reconcile, Open
<1>36. CASE \E q \in Paths : Write(q) BY <1>36 DEF Write
<1>37. CASE \E q \in Paths : Discard(q) BY <1>37 DEF Discard
<1>38. CASE \E x \in Entries : LateWrite(x) BY <1>38 DEF LateWrite
<1>39. CASE \E batch \in Batches : Delete(batch) BY <1>39 DEF Delete, Idle, Save, Mishap
<1>40. CASE \E S \in SUBSET Recorded : Restore(S) BY <1>40 DEF Restore, Open
<1>41. CASE \E S \in SUBSET Recorded : Purge(S) BY <1>41 DEF Purge, Open
<1> QED BY <1>1, <1>2, <1>3, <1>4, <1>5, <1>6, <1>7, <1>8, <1>9, <1>10, <1>11, <1>12, <1>13,
     <1>14, <1>15, <1>16, <1>17, <1>18, <1>19, <1>20, <1>21, <1>22, <1>23, <1>24, <1>25, <1>26,
     <1>27, <1>28, <1>29, <1>30, <1>31, <1>32, <1>33, <1>34, <1>35, <1>36, <1>37, <1>38, <1>39,
     <1>40, <1>41, Cases

\* The lock and its steps.
LEMMA LockStep ==
    ASSUME Types, ListInv, [Next]_vars
    PROVE  Lock'
<1> USE DEF Types, RunType, Lock, Steps, Before
<1>1. CASE UNCHANGED vars BY <1>1, StaysCurrent DEF vars
<1>2. CASE AtWork /\ LookDelete
  BY <1>2 DEF AtWork, LookDelete, Advance, Skip, Done, Goto, Captured, Mishap
<1>3. CASE AtWork /\ TakeLocal
  BY <1>3 DEF AtWork, TakeLocal, Advance, Skip, Done, Goto, DeleteFails, Mishap
<1>4. CASE AtWork /\ TakeRemote
  BY <1>4 DEF AtWork, TakeRemote, Advance, Skip, Done, Goto, DeleteFails, Mishap
<1>5. CASE AtWork /\ SaveCopied /\ StateAltered("PayloadReady")
  <2>1. AtWork BY <1>5
  <2>2. StateAltered("PayloadReady") BY <1>5
  <2> USE DEF AtWork, StateAltered
  <2>3. CASE Save(WithState("PayloadReady")) /\ Goto("claim") /\ UNCHANGED <<src, files, history>>
    BY <1>5, <2>1, <2>2, <2>3, StaysCurrent, NotTaken DEF SaveCopied, Save, Goto
  <2>4. CASE SaveFails(WithState("PayloadReady")) /\ Skip /\ UNCHANGED <<src, files, history>>
    BY <1>5, <2>1, <2>2, <2>4, NotTaken DEF SaveCopied, SaveFails, Skip, Advance
  <2>5. CASE /\ SaveFails(WithState("PayloadReady")) /\ Done /\ src[p] # None /\ payload[e] = None
             /\ candidate' = [candidate EXCEPT ![e] = None]
             /\ UNCHANGED <<src, payload, claim, staging, history>>
    BY <1>5, <2>1, <2>2, <2>5, NotTaken DEF SaveCopied, SaveFails, Done, Advance
  <2> QED BY <1>5, <2>3, <2>4, <2>5 DEF SaveCopied, DeleteFails
<1>6. CASE AtWork /\ ClaimSource
  BY <1>6 DEF AtWork, ClaimSource, Advance, Skip, Done, Goto, DeleteFails, Mishap
<1>7. CASE AtWork /\ SaveClaimed /\ StateAltered("Claimed")
  BY <1>7 DEF AtWork, StateAltered, SaveClaimed, Advance, Skip, Done, Goto, Persist, Mishap,
       Save, SaveFails
<1>8. CASE AtWork /\ Compare
  BY <1>8 DEF AtWork, Compare, Advance, Skip, Done, Goto
<1>9. CASE AtWork /\ Publish
  BY <1>9 DEF AtWork, Publish, Advance, Skip, Done, Goto, Mishap
<1>10. CASE AtWork /\ Verify
  BY <1>10 DEF AtWork, Verify, Advance, Skip, Done, Goto, Match
<1>11. CASE AtWork /\ SaveVerified /\ StateAltered("PayloadVerified")
  BY <1>11 DEF AtWork, StateAltered, SaveVerified, Advance, Skip, Done, Goto, Persist, Mishap,
       Save, SaveFails
<1>12. CASE AtWork /\ Clean /\ StateAltered("Ready")
  BY <1>12 DEF AtWork, StateAltered, Clean, Advance, Skip, Done, Goto
<1>13. CASE AtWork /\ SaveReady /\ StateAltered("Ready")
  BY <1>13 DEF AtWork, StateAltered, SaveReady, Advance, Skip, Done, Goto, Persist, Mishap, Save,
       SaveFails
<1>14. CASE AtWork /\ LookRestoring
  BY <1>14 DEF AtWork, LookRestoring, Advance, Skip, Done, Goto, entry
<1>15. CASE AtWork /\ LookMoving /\ StateAltered("Claimed")
  BY <1>15 DEF AtWork, StateAltered, LookMoving, Advance, Skip, Done, Goto, entry
<1>16. CASE AtWork /\ Tidy /\ StateAltered("Ready")
  BY <1>16 DEF AtWork, StateAltered, Tidy, Advance, Skip, Done, Goto
<1>17. CASE AtWork /\ Unstage /\ RestoreAltered(None)
  BY <1>17 DEF AtWork, RestoreAltered, Unstage, Advance, Skip, Done, Goto
<1>18. CASE AtWork /\ LookRestore /\ RestoreAltered("Preparing")
  BY <1>18 DEF AtWork, RestoreAltered, LookRestore, Advance, Skip, Done, Goto, entry
<1>19. CASE AtWork /\ SavePreparing /\ RestoreAltered(None)
  BY <1>19 DEF AtWork, RestoreAltered, SavePreparing, Advance, Skip, Done, Goto, Save, Mishap
<1>20. CASE AtWork /\ GiveBackLocal
  BY <1>20 DEF AtWork, GiveBackLocal, Advance, Skip, Done, Goto, PutBack
<1>21. CASE AtWork /\ Stage
  BY <1>21 DEF AtWork, Stage, Advance, Skip, Done, Goto
<1>22. CASE AtWork /\ CopyBack
  BY <1>22 DEF AtWork, CopyBack, Advance, Skip, Done, Goto
<1>23. CASE AtWork /\ GiveBackRemote
  BY <1>23 DEF AtWork, GiveBackRemote, Advance, Skip, Done, Goto, PutBack
<1>24. CASE AtWork /\ Occupied
  BY <1>24 DEF AtWork, Occupied, Advance, Skip, Done, Goto
<1>25. CASE AtWork /\ Undo /\ RestoreAltered(None)
  BY <1>25 DEF AtWork, RestoreAltered, Undo, Advance, Skip, Done, Goto
<1>26. CASE AtWork /\ SaveUndone
  BY <1>26 DEF AtWork, SaveUndone, Advance, Skip, Done, Goto, Save, SaveFails, Mishap
<1>27. CASE AtWork /\ VerifyBack
  BY <1>27 DEF AtWork, VerifyBack, Advance, Skip, Done, Goto, Match
<1>28. CASE AtWork /\ SaveCommitted /\ RestoreAltered("Committed")
  BY <1>28 DEF AtWork, RestoreAltered, SaveCommitted, Advance, Skip, Done, Goto, Save, SaveFails,
       Mishap
<1>29. CASE AtWork /\ FinishBack
  BY <1>29 DEF AtWork, FinishBack, Advance, Skip, Done, Goto
<1>30. CASE AtWork /\ ClearPayload
  BY <1>30 DEF AtWork, ClearPayload, Advance, Skip, Done, Goto
<1>31. CASE AtWork /\ LookPurge
  BY <1>31 DEF AtWork, LookPurge, Advance, Skip, Done, Goto, entry
<1>32. CASE Close BY <1>32 DEF Close, Idle, Mishap
<1>33. CASE CallFails
  <2>1. \/ at' = "undo" /\ UNCHANGED <<op, todo, drop>> /\ at \in {"giveBack", "copyBack", "putBack"}
        \/ Skip /\ at \notin {"giveBack", "copyBack", "putBack"}
    BY <1>33 DEF CallFails, Goto
  <2>2. e \in todo BY <1>33, Current DEF CallFails
  <2>3. at # "idle" BY <1>33 DEF CallFails
  <2>4. CASE Skip BY <2>2, <2>3, <2>4 DEF Skip, Advance
  <2>5. CASE ~Skip BY <2>1, <2>2, <2>5
  <2> QED BY <2>4, <2>5
<1>34. CASE Crash
  <2>1. CASE todo = {} BY <1>34, <2>1 DEF Crash, Idle
  <2>2. CASE todo # {}
    <3>1. e \in todo /\ e \in Entries /\ Halfway BY <1>34, <2>2, Current DEF Crash, Types
    <3> QED BY <1>34, <3>1, HalfwayFiles DEF Crash, Idle
  <2> QED BY <2>1, <2>2
<1>35. CASE Reconcile BY <1>35 DEF Reconcile, Open
<1>36. CASE \E q \in Paths : Write(q)
  BY <1>36, StaysCurrent DEF Write
<1>37. CASE \E q \in Paths : Discard(q)
  BY <1>37, StaysCurrent DEF Discard
<1>38. CASE \E x \in Entries : LateWrite(x)
  <2> PICK x \in Entries : LateWrite(x) BY <1>38
  <2>1. items + 1 \in Items BY NextItem DEF LateWrite, Types
  <2> QED BY <2>1, StaysCurrent, Distinct DEF LateWrite
<1>39. CASE \E batch \in Batches : Delete(batch)
  <2> PICK m : RecordsBatch(m) BY <1>39, Deleting
  <2> QED BY DEF RecordsBatch, IsNewManifest, NewEntries, Idle
<1>40. CASE \E S \in SUBSET Recorded : Restore(S) BY <1>40 DEF Restore, Open
<1>41. CASE \E S \in SUBSET Recorded : Purge(S) BY <1>41 DEF Purge, Open
<1> QED BY <1>1, <1>2, <1>3, <1>4, <1>5, <1>6, <1>7, <1>8, <1>9, <1>10, <1>11, <1>12, <1>13,
     <1>14, <1>15, <1>16, <1>17, <1>18, <1>19, <1>20, <1>21, <1>22, <1>23, <1>24, <1>25, <1>26,
     <1>27, <1>28, <1>29, <1>30, <1>31, <1>32, <1>33, <1>34, <1>35, <1>36, <1>37, <1>38, <1>39,
     <1>40, <1>41, Cases

\* The list and the manifest agree.
LEMMA ListInvStep ==
    ASSUME Types, ListInv, Untouched, StepInv, ClaimInv, [Next]_vars
    PROVE  ListInv'
<1> USE DEF Types, FilesType, ListType, RunType, Lock, ListInv, StepInv
<1>1. CASE UNCHANGED vars BY <1>1, StaysCurrent DEF vars
<1>2. CASE AtWork /\ LookDelete
  BY <1>2, StaysCurrent DEF AtWork, LookDelete, Advance, Skip, Done, Goto, Captured, Mishap
<1>3. CASE AtWork /\ TakeLocal
  BY <1>3, StaysCurrent, NotTaken DEF AtWork, TakeLocal, Advance, Skip, Done, Goto, DeleteFails,
       Mishap
<1>4. CASE AtWork /\ TakeRemote
  BY <1>4, StaysCurrent, NotTaken DEF AtWork, TakeRemote, Advance, Skip, Done, Goto,
       DeleteFails, Mishap
<1>5. CASE AtWork /\ SaveCopied /\ StateAltered("PayloadReady")
  <2>1. AtWork BY <1>5
  <2>2. StateAltered("PayloadReady") BY <1>5
  <2> USE DEF AtWork, StateAltered
  <2>3. CASE Save(WithState("PayloadReady")) /\ Goto("claim") /\ UNCHANGED <<src, files, history>>
    BY <1>5, <2>1, <2>2, <2>3, StaysCurrent, NotTaken DEF SaveCopied, Save, Goto
  <2>4. CASE SaveFails(WithState("PayloadReady")) /\ Skip /\ UNCHANGED <<src, files, history>>
    BY <1>5, <2>1, <2>2, <2>4, NotTaken DEF SaveCopied, SaveFails, Skip, Advance
  <2>5. CASE /\ SaveFails(WithState("PayloadReady")) /\ Done /\ src[p] # None /\ payload[e] = None
             /\ candidate' = [candidate EXCEPT ![e] = None]
             /\ UNCHANGED <<src, payload, claim, staging, history>>
    BY <1>5, <2>1, <2>2, <2>5, NotTaken DEF SaveCopied, SaveFails, Done, Advance
  <2> QED BY <1>5, <2>3, <2>4, <2>5 DEF SaveCopied, DeleteFails
<1>6. CASE AtWork /\ ClaimSource
  BY <1>6, StaysCurrent, NotTaken DEF AtWork, ClaimSource, Advance, Skip, Done, Goto,
       DeleteFails, Mishap
<1>7. CASE AtWork /\ SaveClaimed /\ StateAltered("Claimed")
  BY <1>7, StaysCurrent DEF AtWork, StateAltered, SaveClaimed, Advance, Skip, Done, Goto,
       Persist, Mishap, Save, SaveFails
<1>8. CASE AtWork /\ Compare
  BY <1>8, StaysCurrent DEF AtWork, Compare, Advance, Skip, Done, Goto
<1>9. CASE AtWork /\ Publish
  BY <1>9, StaysCurrent DEF AtWork, Publish, Advance, Skip, Done, Goto, Mishap
<1>10. CASE AtWork /\ Verify
  BY <1>10, StaysCurrent DEF AtWork, Verify, Advance, Skip, Done, Goto, Match
<1>11. CASE AtWork /\ SaveVerified /\ StateAltered("PayloadVerified")
  BY <1>11, StaysCurrent DEF AtWork, StateAltered, SaveVerified, Advance, Skip, Done, Goto,
       Persist, Mishap, Save, SaveFails
<1>12. CASE AtWork /\ Clean /\ StateAltered("Ready")
  BY <1>12, StaysCurrent DEF AtWork, StateAltered, Clean, Advance, Skip, Done, Goto
<1>13. CASE AtWork /\ SaveReady /\ StateAltered("Ready")
  BY <1>13, StaysCurrent DEF AtWork, StateAltered, SaveReady, Advance, Skip, Done, Goto, Persist,
       Mishap, Save, SaveFails
<1>14. CASE AtWork /\ LookRestoring
  BY <1>14, StaysCurrent DEF AtWork, LookRestoring, Advance, Skip, Done, Goto, entry
<1>15. CASE AtWork /\ LookMoving /\ StateAltered("Claimed")
  BY <1>15, StaysCurrent DEF AtWork, StateAltered, LookMoving, Advance, Skip, Done, Goto, entry
<1>16. CASE AtWork /\ Tidy /\ StateAltered("Ready")
  BY <1>16, StaysCurrent DEF AtWork, StateAltered, Tidy, Advance, Skip, Done, Goto
<1>17. CASE AtWork /\ Unstage /\ RestoreAltered(None)
  BY <1>17, StaysCurrent DEF AtWork, RestoreAltered, Unstage, Advance, Skip, Done, Goto
<1>18. CASE AtWork /\ LookRestore /\ RestoreAltered("Preparing")
  BY <1>18, StaysCurrent DEF AtWork, RestoreAltered, LookRestore, Advance, Skip, Done, Goto,
       entry
<1>19. CASE AtWork /\ SavePreparing /\ RestoreAltered(None)
  BY <1>19, StaysCurrent DEF AtWork, RestoreAltered, SavePreparing, Advance, Skip, Done, Goto,
       Save, Mishap
<1>20. CASE AtWork /\ GiveBackLocal
  BY <1>20, StaysCurrent DEF AtWork, GiveBackLocal, Advance, Skip, Done, Goto, PutBack
<1>21. CASE AtWork /\ Stage
  BY <1>21, StaysCurrent DEF AtWork, Stage, Advance, Skip, Done, Goto
<1>22. CASE AtWork /\ CopyBack
  BY <1>22, StaysCurrent DEF AtWork, CopyBack, Advance, Skip, Done, Goto
<1>23. CASE AtWork /\ GiveBackRemote
  BY <1>23, StaysCurrent DEF AtWork, GiveBackRemote, Advance, Skip, Done, Goto, PutBack
<1>24. CASE AtWork /\ Occupied
  BY <1>24, StaysCurrent DEF AtWork, Occupied, Advance, Skip, Done, Goto
<1>25. CASE AtWork /\ Undo /\ RestoreAltered(None)
  BY <1>25, StaysCurrent DEF AtWork, RestoreAltered, Undo, Advance, Skip, Done, Goto
<1>26. CASE AtWork /\ SaveUndone
  BY <1>26, StaysCurrent DEF AtWork, SaveUndone, Advance, Skip, Done, Goto, Save, SaveFails,
       Mishap
<1>27. CASE AtWork /\ VerifyBack
  BY <1>27, StaysCurrent DEF AtWork, VerifyBack, Advance, Skip, Done, Goto, Match
<1>28. CASE AtWork /\ SaveCommitted /\ RestoreAltered("Committed")
  BY <1>28, StaysCurrent DEF AtWork, RestoreAltered, SaveCommitted, Advance, Skip, Done, Goto,
       Save, SaveFails, Mishap
<1>29. CASE AtWork /\ FinishBack
  BY <1>29, StaysCurrent DEF AtWork, FinishBack, Advance, Skip, Done, Goto
<1>30. CASE AtWork /\ ClearPayload
  BY <1>30, StaysCurrent DEF AtWork, ClearPayload, Advance, Skip, Done, Goto
<1>31. CASE AtWork /\ LookPurge
  BY <1>31, StaysCurrent DEF AtWork, LookPurge, Advance, Skip, Done, Goto, entry
<1>32. CASE Close BY <1>32 DEF Close, Idle, Mishap
<1>33. CASE CallFails
  <2>1. e \in todo /\ e \in Entries /\ Halfway BY <1>33, Current DEF CallFails, Types
  <2> QED
    BY <1>33, <2>1, HalfwayFiles, StaysCurrent DEF CallFails, Mishap, Advance, Skip, Done, Goto
<1>34. CASE Crash
  <2>1. CASE todo = {} BY <1>34, <2>1 DEF Crash, Idle
  <2>2. CASE todo # {}
    <3>1. e \in todo /\ e \in Entries /\ Halfway BY <1>34, <2>2, Current DEF Crash, Types
    <3> QED BY <1>34, <3>1, HalfwayFiles DEF Crash, Idle
  <2> QED BY <2>1, <2>2
<1>35. CASE Reconcile
  BY <1>35 DEF Reconcile, Open, Recorded
<1>36. CASE \E q \in Paths : Write(q)
  BY <1>36, StaysCurrent DEF Write
<1>37. CASE \E q \in Paths : Discard(q)
  BY <1>37, StaysCurrent DEF Discard
<1>38. CASE \E x \in Entries : LateWrite(x)
  <2> PICK x \in Entries : LateWrite(x) BY <1>38
  <2>1. items + 1 \in Items BY NextItem DEF LateWrite, Types
  <2> QED BY <2>1, StaysCurrent, Distinct DEF LateWrite
<1>39. CASE \E batch \in Batches : Delete(batch)
  <2> PICK m : RecordsBatch(m) BY <1>39, Deleting
  <2> QED BY Distinct DEF RecordsBatch, IsNewManifest, Idle
<1>40. CASE \E S \in SUBSET Recorded : Restore(S)
  BY <1>40 DEF Restore, Open, Recorded
<1>41. CASE \E S \in SUBSET Recorded : Purge(S)
  BY <1>41 DEF Purge, Open, Recorded
<1> QED BY <1>1, <1>2, <1>3, <1>4, <1>5, <1>6, <1>7, <1>8, <1>9, <1>10, <1>11, <1>12, <1>13,
     <1>14, <1>15, <1>16, <1>17, <1>18, <1>19, <1>20, <1>21, <1>22, <1>23, <1>24, <1>25, <1>26,
     <1>27, <1>28, <1>29, <1>30, <1>31, <1>32, <1>33, <1>34, <1>35, <1>36, <1>37, <1>38, <1>39,
     <1>40, <1>41, Cases

\* What was not reached holds nothing.
LEMMA UntouchedStep ==
    ASSUME Types, ListInv, Untouched, StepInv, [Next]_vars
    PROVE  Untouched'
<1> USE DEF Types, FilesType, ListType, RunType, Lock, Untouched, StepInv, Before
<1>1. CASE UNCHANGED vars BY <1>1, StaysCurrent DEF vars
<1>2. CASE AtWork /\ LookDelete
  BY <1>2, StaysCurrent DEF AtWork, LookDelete, Advance, Skip, Done, Goto, Captured, Mishap
<1>3. CASE AtWork /\ TakeLocal
  <2>1. AtWork BY <1>3
  <2> USE DEF AtWork
  <2>3. CASE Goto("saveReady")
    <3>1. src[p] # None /\ taken' = [taken EXCEPT ![e] = src[p]]
          /\ payload' = [payload EXCEPT ![e] = src[p]]
          /\ UNCHANGED <<claim, manifest, mem, used, op, todo>>
      BY <1>3, <2>3 DEF TakeLocal, Goto, DeleteFails, Skip, Done, Advance
    <3>2. e' = e /\ at' \notin Before BY <2>3, <3>1, StaysCurrent DEF Goto
    <3> QED BY <2>1, <3>1, <3>2
  <2>4. CASE DeleteFails /\ UNCHANGED <<manifest, mem, taken, used>>
    <3>1. todo' = todo \ {e} /\ UNCHANGED <<payload, claim, op>>
      BY <2>4 DEF DeleteFails, Skip, Done, Advance
    <3> QED BY <2>1, <2>4, <3>1
  <2> QED BY <1>3, <2>3, <2>4 DEF TakeLocal
<1>4. CASE AtWork /\ TakeRemote
  BY <1>4, StaysCurrent, NotTaken DEF AtWork, TakeRemote, Advance, Skip, Done, Goto,
       DeleteFails, Mishap
<1>5. CASE AtWork /\ SaveCopied /\ StateAltered("PayloadReady")
  <2>1. AtWork BY <1>5
  <2>2. StateAltered("PayloadReady") BY <1>5
  <2> USE DEF AtWork, StateAltered
  <2>3. CASE Save(WithState("PayloadReady")) /\ Goto("claim") /\ UNCHANGED <<src, files, history>>
    BY <1>5, <2>1, <2>2, <2>3, StaysCurrent, NotTaken DEF SaveCopied, Save, Goto
  <2>4. CASE SaveFails(WithState("PayloadReady")) /\ Skip /\ UNCHANGED <<src, files, history>>
    BY <1>5, <2>1, <2>2, <2>4, NotTaken DEF SaveCopied, SaveFails, Skip, Advance
  <2>5. CASE /\ SaveFails(WithState("PayloadReady")) /\ Done /\ src[p] # None /\ payload[e] = None
             /\ candidate' = [candidate EXCEPT ![e] = None]
             /\ UNCHANGED <<src, payload, claim, staging, history>>
    BY <1>5, <2>1, <2>2, <2>5, NotTaken DEF SaveCopied, SaveFails, Done, Advance
  <2> QED BY <1>5, <2>3, <2>4, <2>5 DEF SaveCopied, DeleteFails
<1>6. CASE AtWork /\ ClaimSource
  <2>1. AtWork BY <1>6
  <2> USE DEF AtWork
  <2>3. CASE Goto("saveClaimed")
    <3>1. src[p] # None /\ taken' = [taken EXCEPT ![e] = src[p]]
          /\ claim' = [claim EXCEPT ![e] = src[p]]
          /\ UNCHANGED <<payload, manifest, mem, used, op, todo>>
      BY <1>6, <2>3 DEF ClaimSource, Goto, DeleteFails, Skip, Done, Advance
    <3>2. e' = e /\ at' \notin Before BY <2>3, <3>1, StaysCurrent DEF Goto
    <3> QED BY <2>1, <3>1, <3>2
  <2>4. CASE DeleteFails /\ UNCHANGED <<manifest, mem, taken, used>>
    <3>1. todo' = todo \ {e} /\ UNCHANGED <<payload, claim, op>>
      BY <2>4 DEF DeleteFails, Skip, Done, Advance
    <3> QED BY <2>1, <2>4, <3>1
  <2> QED BY <1>6, <2>3, <2>4 DEF ClaimSource
<1>7. CASE AtWork /\ SaveClaimed /\ StateAltered("Claimed")
  BY <1>7, StaysCurrent DEF AtWork, StateAltered, SaveClaimed, Advance, Skip, Done, Goto,
       Persist, Mishap, Save, SaveFails
<1>8. CASE AtWork /\ Compare
  BY <1>8, StaysCurrent DEF AtWork, Compare, Advance, Skip, Done, Goto
<1>9. CASE AtWork /\ Publish
  BY <1>9, StaysCurrent DEF AtWork, Publish, Advance, Skip, Done, Goto, Mishap
<1>10. CASE AtWork /\ Verify
  <2>1. AtWork BY <1>10
  <2> USE DEF AtWork
  <2> QED
    <3>1. UNCHANGED <<taken, claim, payload, manifest, mem, used, op>>
      BY <1>10 DEF Verify, Goto, Skip, Advance
    <3>2. at \notin Before BY <1>10 DEF Verify
    <3>3. todo' \subseteq todo /\ (todo' = todo => e' = e)
          /\ (todo' # todo => todo' = todo \ {e})
      BY <1>10, StaysCurrent DEF Verify, Goto, Skip, Advance
    <3>4. todo' = todo => at' = "saveVerified"
      BY <1>10, <2>1 DEF Verify, Goto, Skip, Advance
    <3> QED BY <2>1, <3>1, <3>2, <3>3, <3>4
<1>11. CASE AtWork /\ SaveVerified /\ StateAltered("PayloadVerified")
  BY <1>11, StaysCurrent DEF AtWork, StateAltered, SaveVerified, Advance, Skip, Done, Goto,
       Persist, Mishap, Save, SaveFails
<1>12. CASE AtWork /\ Clean /\ StateAltered("Ready")
  BY <1>12, StaysCurrent DEF AtWork, StateAltered, Clean, Advance, Skip, Done, Goto
<1>13. CASE AtWork /\ SaveReady /\ StateAltered("Ready")
  BY <1>13, StaysCurrent DEF AtWork, StateAltered, SaveReady, Advance, Skip, Done, Goto, Persist,
       Mishap, Save, SaveFails
<1>14. CASE AtWork /\ LookRestoring
  BY <1>14, StaysCurrent DEF AtWork, LookRestoring, Advance, Skip, Done, Goto, entry
<1>15. CASE AtWork /\ LookMoving /\ StateAltered("Claimed")
  BY <1>15, StaysCurrent DEF AtWork, StateAltered, LookMoving, Advance, Skip, Done, Goto, entry
<1>16. CASE AtWork /\ Tidy /\ StateAltered("Ready")
  <2>1. AtWork BY <1>16
  <2>2. StateAltered("Ready") BY <1>16
  <2> USE DEF AtWork, StateAltered
  <2>3. UNCHANGED <<taken, claim, payload, manifest, used, op>> /\ todo' = todo \ {e} /\ at \notin Before
    BY <1>16 DEF Tidy, Skip, Done, Advance
  <2>4. mem' = mem \/ mem' = WithState("Ready") BY <1>16 DEF Tidy
  <2> QED BY <2>1, <2>2, <2>3, <2>4
<1>17. CASE AtWork /\ Unstage /\ RestoreAltered(None)
  BY <1>17, StaysCurrent DEF AtWork, RestoreAltered, Unstage, Advance, Skip, Done, Goto
<1>18. CASE AtWork /\ LookRestore /\ RestoreAltered("Preparing")
  BY <1>18, StaysCurrent DEF AtWork, RestoreAltered, LookRestore, Advance, Skip, Done, Goto,
       entry
<1>19. CASE AtWork /\ SavePreparing /\ RestoreAltered(None)
  BY <1>19, StaysCurrent DEF AtWork, RestoreAltered, SavePreparing, Advance, Skip, Done, Goto,
       Save, Mishap
<1>20. CASE AtWork /\ GiveBackLocal
  BY <1>20, StaysCurrent DEF AtWork, GiveBackLocal, Advance, Skip, Done, Goto, PutBack
<1>21. CASE AtWork /\ Stage
  BY <1>21, StaysCurrent DEF AtWork, Stage, Advance, Skip, Done, Goto
<1>22. CASE AtWork /\ CopyBack
  BY <1>22, StaysCurrent DEF AtWork, CopyBack, Advance, Skip, Done, Goto
<1>23. CASE AtWork /\ GiveBackRemote
  BY <1>23, StaysCurrent DEF AtWork, GiveBackRemote, Advance, Skip, Done, Goto, PutBack
<1>24. CASE AtWork /\ Occupied
  BY <1>24, StaysCurrent DEF AtWork, Occupied, Advance, Skip, Done, Goto
<1>25. CASE AtWork /\ Undo /\ RestoreAltered(None)
  BY <1>25, StaysCurrent DEF AtWork, RestoreAltered, Undo, Advance, Skip, Done, Goto
<1>26. CASE AtWork /\ SaveUndone
  BY <1>26, StaysCurrent DEF AtWork, SaveUndone, Advance, Skip, Done, Goto, Save, SaveFails,
       Mishap
<1>27. CASE AtWork /\ VerifyBack
  BY <1>27, StaysCurrent DEF AtWork, VerifyBack, Advance, Skip, Done, Goto, Match
<1>28. CASE AtWork /\ SaveCommitted /\ RestoreAltered("Committed")
  BY <1>28, StaysCurrent DEF AtWork, RestoreAltered, SaveCommitted, Advance, Skip, Done, Goto,
       Save, SaveFails, Mishap
<1>29. CASE AtWork /\ FinishBack
  BY <1>29, StaysCurrent DEF AtWork, FinishBack, Advance, Skip, Done, Goto
<1>30. CASE AtWork /\ ClearPayload
  BY <1>30, StaysCurrent DEF AtWork, ClearPayload, Advance, Skip, Done, Goto
<1>31. CASE AtWork /\ LookPurge
  BY <1>31, StaysCurrent DEF AtWork, LookPurge, Advance, Skip, Done, Goto, entry
<1>32. CASE Close BY <1>32 DEF Close, Idle, Mishap
<1>33. CASE CallFails
  <2>1. e \in todo /\ e \in Entries /\ Halfway BY <1>33, Current DEF CallFails, Types
  <2> QED
    BY <1>33, <2>1, HalfwayFiles, StaysCurrent DEF CallFails, Mishap, Advance, Skip, Done, Goto
<1>34. CASE Crash
  <2>1. CASE todo = {} BY <1>34, <2>1 DEF Crash, Idle
  <2>2. CASE todo # {}
    <3>1. e \in todo /\ e \in Entries /\ Halfway BY <1>34, <2>2, Current DEF Crash, Types
    <3> QED BY <1>34, <3>1, HalfwayFiles DEF Crash, Idle
  <2> QED BY <2>1, <2>2
<1>35. CASE Reconcile BY <1>35 DEF Reconcile, Open
<1>36. CASE \E q \in Paths : Write(q)
  BY <1>36, StaysCurrent DEF Write
<1>37. CASE \E q \in Paths : Discard(q)
  BY <1>37, StaysCurrent DEF Discard
<1>38. CASE \E x \in Entries : LateWrite(x)
  <2> PICK x \in Entries : LateWrite(x) BY <1>38
  <2>1. items + 1 \in Items BY NextItem DEF LateWrite, Types
  <2> QED BY <2>1, StaysCurrent, Distinct DEF LateWrite
<1>39. CASE \E batch \in Batches : Delete(batch)
  <2> PICK m : RecordsBatch(m) BY <1>39, Deleting
  <2> QED BY Distinct DEF RecordsBatch, IsNewManifest, Idle
<1>40. CASE \E S \in SUBSET Recorded : Restore(S) BY <1>40 DEF Restore, Open
<1>41. CASE \E S \in SUBSET Recorded : Purge(S) BY <1>41 DEF Purge, Open
<1> QED BY <1>1, <1>2, <1>3, <1>4, <1>5, <1>6, <1>7, <1>8, <1>9, <1>10, <1>11, <1>12, <1>13,
     <1>14, <1>15, <1>16, <1>17, <1>18, <1>19, <1>20, <1>21, <1>22, <1>23, <1>24, <1>25, <1>26,
     <1>27, <1>28, <1>29, <1>30, <1>31, <1>32, <1>33, <1>34, <1>35, <1>36, <1>37, <1>38, <1>39,
     <1>40, <1>41, Cases

\* Where the items are.
LEMMA ItemInvStep ==
    ASSUME Types, ListInv, Untouched, ItemInv, ClaimInv, CommittedInv, StepInv, [Next]_vars
    PROVE  ItemInv'
<1> USE DEF Types, FilesType, ListType, RunType, Lock, ListInv, ItemInv, StepInv, Records,
     ClaimInv, Untouched
<1>1. CASE UNCHANGED vars BY <1>1, StaysCurrent DEF vars
<1>2. CASE AtWork /\ LookDelete
  BY <1>2, StaysCurrent DEF AtWork, LookDelete, Advance, Skip, Done, Goto, Captured, Mishap
<1>3. CASE AtWork /\ TakeLocal
  BY <1>3, StaysCurrent, NotTaken DEF AtWork, TakeLocal, Advance, Skip, Done, Goto, DeleteFails,
       Mishap
<1>4. CASE AtWork /\ TakeRemote
  BY <1>4, StaysCurrent, NotTaken DEF AtWork, TakeRemote, Advance, Skip, Done, Goto,
       DeleteFails, Mishap
<1>5. CASE AtWork /\ SaveCopied /\ StateAltered("PayloadReady")
  <2>1. AtWork BY <1>5
  <2>2. StateAltered("PayloadReady") BY <1>5
  <2> USE DEF AtWork, StateAltered
  <2>3. CASE Save(WithState("PayloadReady")) /\ Goto("claim") /\ UNCHANGED <<src, files, history>>
    BY <1>5, <2>1, <2>2, <2>3, StaysCurrent, NotTaken DEF SaveCopied, Save, Goto
  <2>4. CASE SaveFails(WithState("PayloadReady")) /\ Skip /\ UNCHANGED <<src, files, history>>
    BY <1>5, <2>1, <2>2, <2>4, NotTaken DEF SaveCopied, SaveFails, Skip, Advance
  <2>5. CASE /\ SaveFails(WithState("PayloadReady")) /\ Done /\ src[p] # None /\ payload[e] = None
             /\ candidate' = [candidate EXCEPT ![e] = None]
             /\ UNCHANGED <<src, payload, claim, staging, history>>
    BY <1>5, <2>1, <2>2, <2>5, NotTaken DEF SaveCopied, SaveFails, Done, Advance
  <2> QED BY <1>5, <2>3, <2>4, <2>5 DEF SaveCopied, DeleteFails
<1>6. CASE AtWork /\ ClaimSource
  BY <1>6, StaysCurrent, NotTaken DEF AtWork, ClaimSource, Advance, Skip, Done, Goto,
       DeleteFails, Mishap
<1>7. CASE AtWork /\ SaveClaimed /\ StateAltered("Claimed")
  BY <1>7, StaysCurrent DEF AtWork, StateAltered, SaveClaimed, Advance, Skip, Done, Goto,
       Persist, Mishap, Save, SaveFails
<1>8. CASE AtWork /\ Compare
  BY <1>8, StaysCurrent DEF AtWork, Compare, Advance, Skip, Done, Goto
<1>9. CASE AtWork /\ Publish
  BY <1>9, StaysCurrent DEF AtWork, Publish, Advance, Skip, Done, Goto, Mishap
<1>10. CASE AtWork /\ Verify
  BY <1>10, StaysCurrent DEF AtWork, Verify, Advance, Skip, Done, Goto, Match
<1>11. CASE AtWork /\ SaveVerified /\ StateAltered("PayloadVerified")
  BY <1>11, StaysCurrent DEF AtWork, StateAltered, SaveVerified, Advance, Skip, Done, Goto,
       Persist, Mishap, Save, SaveFails
<1>12. CASE AtWork /\ Clean /\ StateAltered("Ready")
  BY <1>12, StaysCurrent DEF AtWork, StateAltered, Clean, Advance, Skip, Done, Goto
<1>13. CASE AtWork /\ SaveReady /\ StateAltered("Ready")
  BY <1>13, StaysCurrent DEF AtWork, StateAltered, SaveReady, Advance, Skip, Done, Goto, Persist,
       Mishap, Save, SaveFails
<1>14. CASE AtWork /\ LookRestoring
  BY <1>14, StaysCurrent DEF AtWork, LookRestoring, Advance, Skip, Done, Goto, entry
<1>15. CASE AtWork /\ LookMoving /\ StateAltered("Claimed")
  BY <1>15, StaysCurrent DEF AtWork, StateAltered, LookMoving, Advance, Skip, Done, Goto, entry
<1>16. CASE AtWork /\ Tidy /\ StateAltered("Ready")
  BY <1>16, StaysCurrent DEF AtWork, StateAltered, Tidy, Advance, Skip, Done, Goto
<1>17. CASE AtWork /\ Unstage /\ RestoreAltered(None)
  BY <1>17, StaysCurrent DEF AtWork, RestoreAltered, Unstage, Advance, Skip, Done, Goto
<1>18. CASE AtWork /\ LookRestore /\ RestoreAltered("Preparing")
  BY <1>18, StaysCurrent DEF AtWork, RestoreAltered, LookRestore, Advance, Skip, Done, Goto,
       entry
<1>19. CASE AtWork /\ SavePreparing /\ RestoreAltered(None)
  BY <1>19, StaysCurrent DEF AtWork, RestoreAltered, SavePreparing, Advance, Skip, Done, Goto,
       Save, Mishap
<1>20. CASE AtWork /\ GiveBackLocal
  BY <1>20, StaysCurrent DEF AtWork, GiveBackLocal, Advance, Skip, Done, Goto, PutBack
<1>21. CASE AtWork /\ Stage
  BY <1>21, StaysCurrent DEF AtWork, Stage, Advance, Skip, Done, Goto
<1>22. CASE AtWork /\ CopyBack
  BY <1>22, StaysCurrent DEF AtWork, CopyBack, Advance, Skip, Done, Goto
<1>23. CASE AtWork /\ GiveBackRemote
  BY <1>23, StaysCurrent DEF AtWork, GiveBackRemote, Advance, Skip, Done, Goto, PutBack
<1>24. CASE AtWork /\ Occupied
  BY <1>24, StaysCurrent DEF AtWork, Occupied, Advance, Skip, Done, Goto
<1>25. CASE AtWork /\ Undo /\ RestoreAltered(None)
  BY <1>25, StaysCurrent DEF AtWork, RestoreAltered, Undo, Advance, Skip, Done, Goto
<1>26. CASE AtWork /\ SaveUndone
  BY <1>26, StaysCurrent DEF AtWork, SaveUndone, Advance, Skip, Done, Goto, Save, SaveFails,
       Mishap
<1>27. CASE AtWork /\ VerifyBack
  BY <1>27, StaysCurrent DEF AtWork, VerifyBack, Advance, Skip, Done, Goto, Match
<1>28. CASE AtWork /\ SaveCommitted /\ RestoreAltered("Committed")
  BY <1>28, StaysCurrent DEF AtWork, RestoreAltered, SaveCommitted, Advance, Skip, Done, Goto,
       Save, SaveFails, Mishap
<1>29. CASE AtWork /\ FinishBack
  BY <1>29, StaysCurrent DEF AtWork, FinishBack, Advance, Skip, Done, Goto
<1>30. CASE AtWork /\ ClearPayload
  BY <1>30, StaysCurrent DEF AtWork, ClearPayload, Advance, Skip, Done, Goto
<1>31. CASE AtWork /\ LookPurge
  BY <1>31, StaysCurrent DEF AtWork, LookPurge, Advance, Skip, Done, Goto, entry
<1>32. CASE Close BY <1>32 DEF Close, Idle, Mishap
<1>33. CASE CallFails
  <2>1. e \in todo /\ e \in Entries /\ Halfway BY <1>33, Current DEF CallFails, Types
  <2> QED
    BY <1>33, <2>1, HalfwayFiles, StaysCurrent DEF CallFails, Mishap, Advance, Skip, Done, Goto
<1>34. CASE Crash
  <2>1. CASE todo = {} BY <1>34, <2>1 DEF Crash, Idle
  <2>2. CASE todo # {}
    <3>1. e \in todo /\ e \in Entries /\ Halfway BY <1>34, <2>2, Current DEF Crash, Types
    <3> QED BY <1>34, <3>1, HalfwayFiles DEF Crash, Idle
  <2> QED BY <2>1, <2>2
<1>35. CASE Reconcile BY <1>35 DEF Reconcile, Open
<1>36. CASE \E q \in Paths : Write(q)
  BY <1>36, StaysCurrent DEF Write
<1>37. CASE \E q \in Paths : Discard(q)
  BY <1>37, StaysCurrent DEF Discard
<1>38. CASE \E x \in Entries : LateWrite(x)
  <2> PICK x \in Entries : LateWrite(x) BY <1>38
  <2>1. items + 1 \in Items BY NextItem DEF LateWrite, Types
  <2> QED BY <2>1, StaysCurrent, Distinct DEF LateWrite
<1>39. CASE \E batch \in Batches : Delete(batch)
  <2> PICK m : RecordsBatch(m) BY <1>39, Deleting
  <2> QED BY Distinct DEF RecordsBatch, IsNewManifest, Idle
<1>40. CASE \E S \in SUBSET Recorded : Restore(S) BY <1>40 DEF Restore, Open
<1>41. CASE \E S \in SUBSET Recorded : Purge(S) BY <1>41 DEF Purge, Open
<1> QED BY <1>1, <1>2, <1>3, <1>4, <1>5, <1>6, <1>7, <1>8, <1>9, <1>10, <1>11, <1>12, <1>13,
     <1>14, <1>15, <1>16, <1>17, <1>18, <1>19, <1>20, <1>21, <1>22, <1>23, <1>24, <1>25, <1>26,
     <1>27, <1>28, <1>29, <1>30, <1>31, <1>32, <1>33, <1>34, <1>35, <1>36, <1>37, <1>38, <1>39,
     <1>40, <1>41, Cases

\* What a claim says.
LEMMA ClaimInvStep ==
    ASSUME Types, ListInv, Untouched, ItemInv, ClaimInv, CommittedInv, StepInv, [Next]_vars
    PROVE  ClaimInv'
<1> USE DEF Types, FilesType, ListType, RunType, Lock, ListInv, ItemInv, StepInv, Records,
     ClaimInv, Untouched
<1>1. CASE UNCHANGED vars BY <1>1, StaysCurrent DEF vars
<1>2. CASE AtWork /\ LookDelete
  BY <1>2, StaysCurrent DEF AtWork, LookDelete, Advance, Skip, Done, Goto, Captured, Mishap
<1>3. CASE AtWork /\ TakeLocal
  BY <1>3, StaysCurrent, NotTaken DEF AtWork, TakeLocal, Advance, Skip, Done, Goto, DeleteFails,
       Mishap
<1>4. CASE AtWork /\ TakeRemote
  BY <1>4, StaysCurrent, NotTaken DEF AtWork, TakeRemote, Advance, Skip, Done, Goto,
       DeleteFails, Mishap
<1>5. CASE AtWork /\ SaveCopied /\ StateAltered("PayloadReady")
  <2>1. AtWork BY <1>5
  <2>2. StateAltered("PayloadReady") BY <1>5
  <2> USE DEF AtWork, StateAltered
  <2>3. CASE Save(WithState("PayloadReady")) /\ Goto("claim") /\ UNCHANGED <<src, files, history>>
    BY <1>5, <2>1, <2>2, <2>3, StaysCurrent, NotTaken DEF SaveCopied, Save, Goto
  <2>4. CASE SaveFails(WithState("PayloadReady")) /\ Skip /\ UNCHANGED <<src, files, history>>
    BY <1>5, <2>1, <2>2, <2>4, NotTaken DEF SaveCopied, SaveFails, Skip, Advance
  <2>5. CASE /\ SaveFails(WithState("PayloadReady")) /\ Done /\ src[p] # None /\ payload[e] = None
             /\ candidate' = [candidate EXCEPT ![e] = None]
             /\ UNCHANGED <<src, payload, claim, staging, history>>
    BY <1>5, <2>1, <2>2, <2>5, NotTaken DEF SaveCopied, SaveFails, Done, Advance
  <2> QED BY <1>5, <2>3, <2>4, <2>5 DEF SaveCopied, DeleteFails
<1>6. CASE AtWork /\ ClaimSource
  BY <1>6, StaysCurrent, NotTaken DEF AtWork, ClaimSource, Advance, Skip, Done, Goto,
       DeleteFails, Mishap
<1>7. CASE AtWork /\ SaveClaimed /\ StateAltered("Claimed")
  BY <1>7, StaysCurrent DEF AtWork, StateAltered, SaveClaimed, Advance, Skip, Done, Goto,
       Persist, Mishap, Save, SaveFails
<1>8. CASE AtWork /\ Compare
  BY <1>8, StaysCurrent DEF AtWork, Compare, Advance, Skip, Done, Goto
<1>9. CASE AtWork /\ Publish
  BY <1>9, StaysCurrent DEF AtWork, Publish, Advance, Skip, Done, Goto, Mishap
<1>10. CASE AtWork /\ Verify
  BY <1>10, StaysCurrent DEF AtWork, Verify, Advance, Skip, Done, Goto, Match
<1>11. CASE AtWork /\ SaveVerified /\ StateAltered("PayloadVerified")
  BY <1>11, StaysCurrent DEF AtWork, StateAltered, SaveVerified, Advance, Skip, Done, Goto,
       Persist, Mishap, Save, SaveFails
<1>12. CASE AtWork /\ Clean /\ StateAltered("Ready")
  BY <1>12, StaysCurrent DEF AtWork, StateAltered, Clean, Advance, Skip, Done, Goto
<1>13. CASE AtWork /\ SaveReady /\ StateAltered("Ready")
  BY <1>13, StaysCurrent DEF AtWork, StateAltered, SaveReady, Advance, Skip, Done, Goto, Persist,
       Mishap, Save, SaveFails
<1>14. CASE AtWork /\ LookRestoring
  BY <1>14, StaysCurrent DEF AtWork, LookRestoring, Advance, Skip, Done, Goto, entry
<1>15. CASE AtWork /\ LookMoving /\ StateAltered("Claimed")
  BY <1>15, StaysCurrent DEF AtWork, StateAltered, LookMoving, Advance, Skip, Done, Goto, entry
<1>16. CASE AtWork /\ Tidy /\ StateAltered("Ready")
  BY <1>16, StaysCurrent DEF AtWork, StateAltered, Tidy, Advance, Skip, Done, Goto
<1>17. CASE AtWork /\ Unstage /\ RestoreAltered(None)
  BY <1>17, StaysCurrent DEF AtWork, RestoreAltered, Unstage, Advance, Skip, Done, Goto
<1>18. CASE AtWork /\ LookRestore /\ RestoreAltered("Preparing")
  BY <1>18, StaysCurrent DEF AtWork, RestoreAltered, LookRestore, Advance, Skip, Done, Goto,
       entry
<1>19. CASE AtWork /\ SavePreparing /\ RestoreAltered(None)
  BY <1>19, StaysCurrent DEF AtWork, RestoreAltered, SavePreparing, Advance, Skip, Done, Goto,
       Save, Mishap
<1>20. CASE AtWork /\ GiveBackLocal
  BY <1>20, StaysCurrent DEF AtWork, GiveBackLocal, Advance, Skip, Done, Goto, PutBack
<1>21. CASE AtWork /\ Stage
  BY <1>21, StaysCurrent DEF AtWork, Stage, Advance, Skip, Done, Goto
<1>22. CASE AtWork /\ CopyBack
  BY <1>22, StaysCurrent DEF AtWork, CopyBack, Advance, Skip, Done, Goto
<1>23. CASE AtWork /\ GiveBackRemote
  BY <1>23, StaysCurrent DEF AtWork, GiveBackRemote, Advance, Skip, Done, Goto, PutBack
<1>24. CASE AtWork /\ Occupied
  BY <1>24, StaysCurrent DEF AtWork, Occupied, Advance, Skip, Done, Goto
<1>25. CASE AtWork /\ Undo /\ RestoreAltered(None)
  BY <1>25, StaysCurrent DEF AtWork, RestoreAltered, Undo, Advance, Skip, Done, Goto
<1>26. CASE AtWork /\ SaveUndone
  BY <1>26, StaysCurrent DEF AtWork, SaveUndone, Advance, Skip, Done, Goto, Save, SaveFails,
       Mishap
<1>27. CASE AtWork /\ VerifyBack
  BY <1>27, StaysCurrent DEF AtWork, VerifyBack, Advance, Skip, Done, Goto, Match
<1>28. CASE AtWork /\ SaveCommitted /\ RestoreAltered("Committed")
  BY <1>28, StaysCurrent DEF AtWork, RestoreAltered, SaveCommitted, Advance, Skip, Done, Goto,
       Save, SaveFails, Mishap
<1>29. CASE AtWork /\ FinishBack
  BY <1>29, StaysCurrent DEF AtWork, FinishBack, Advance, Skip, Done, Goto
<1>30. CASE AtWork /\ ClearPayload
  BY <1>30, StaysCurrent DEF AtWork, ClearPayload, Advance, Skip, Done, Goto
<1>31. CASE AtWork /\ LookPurge
  BY <1>31, StaysCurrent DEF AtWork, LookPurge, Advance, Skip, Done, Goto, entry
<1>32. CASE Close BY <1>32 DEF Close, Idle, Mishap
<1>33. CASE CallFails
  <2>1. e \in todo /\ e \in Entries /\ Halfway BY <1>33, Current DEF CallFails, Types
  <2> QED
    BY <1>33, <2>1, HalfwayFiles, StaysCurrent DEF CallFails, Mishap, Advance, Skip, Done, Goto
<1>34. CASE Crash
  <2>1. CASE todo = {} BY <1>34, <2>1 DEF Crash, Idle
  <2>2. CASE todo # {}
    <3>1. e \in todo /\ e \in Entries /\ Halfway BY <1>34, <2>2, Current DEF Crash, Types
    <3> QED BY <1>34, <3>1, HalfwayFiles DEF Crash, Idle
  <2> QED BY <2>1, <2>2
<1>35. CASE Reconcile BY <1>35 DEF Reconcile, Open
<1>36. CASE \E q \in Paths : Write(q)
  BY <1>36, StaysCurrent DEF Write
<1>37. CASE \E q \in Paths : Discard(q)
  BY <1>37, StaysCurrent DEF Discard
<1>38. CASE \E x \in Entries : LateWrite(x)
  <2> PICK x \in Entries : LateWrite(x) BY <1>38
  <2>1. items + 1 \in Items BY NextItem DEF LateWrite, Types
  <2> QED BY <2>1, StaysCurrent, Distinct DEF LateWrite
<1>39. CASE \E batch \in Batches : Delete(batch)
  <2> PICK m : RecordsBatch(m) BY <1>39, Deleting
  <2> QED BY Distinct DEF RecordsBatch, IsNewManifest, Idle
<1>40. CASE \E S \in SUBSET Recorded : Restore(S) BY <1>40 DEF Restore, Open
<1>41. CASE \E S \in SUBSET Recorded : Purge(S) BY <1>41 DEF Purge, Open
<1> QED BY <1>1, <1>2, <1>3, <1>4, <1>5, <1>6, <1>7, <1>8, <1>9, <1>10, <1>11, <1>12, <1>13,
     <1>14, <1>15, <1>16, <1>17, <1>18, <1>19, <1>20, <1>21, <1>22, <1>23, <1>24, <1>25, <1>26,
     <1>27, <1>28, <1>29, <1>30, <1>31, <1>32, <1>33, <1>34, <1>35, <1>36, <1>37, <1>38, <1>39,
     <1>40, <1>41, Cases

\* What is committed was given.
LEMMA CommittedInvStep ==
    ASSUME Types, ListInv, Untouched, ItemInv, ClaimInv, CommittedInv, StepInv, [Next]_vars
    PROVE  CommittedInv'
<1> USE DEF Types, FilesType, ListType, RunType, Lock, ListInv, StepInv, Records, CommittedInv
<1>1. CASE UNCHANGED vars BY <1>1, StaysCurrent DEF vars
<1>2. CASE AtWork /\ LookDelete
  BY <1>2, StaysCurrent, Distinct DEF AtWork, LookDelete, Advance, Skip, Done, Goto, Captured,
       Mishap
<1>3. CASE AtWork /\ TakeLocal
  BY <1>3, StaysCurrent, Distinct DEF AtWork, TakeLocal, Advance, Skip, Done, Goto, DeleteFails,
       Mishap
<1>4. CASE AtWork /\ TakeRemote
  BY <1>4, StaysCurrent, Distinct DEF AtWork, TakeRemote, Advance, Skip, Done, Goto,
       DeleteFails, Mishap
<1>5. CASE AtWork /\ SaveCopied /\ StateAltered("PayloadReady")
  <2>1. AtWork BY <1>5
  <2>2. StateAltered("PayloadReady") BY <1>5
  <2> USE DEF AtWork, StateAltered
  <2>3. CASE Save(WithState("PayloadReady")) /\ Goto("claim") /\ UNCHANGED <<src, files, history>>
    BY <1>5, <2>1, <2>2, <2>3, StaysCurrent, NotTaken DEF SaveCopied, Save, Goto
  <2>4. CASE SaveFails(WithState("PayloadReady")) /\ Skip /\ UNCHANGED <<src, files, history>>
    BY <1>5, <2>1, <2>2, <2>4, NotTaken DEF SaveCopied, SaveFails, Skip, Advance
  <2>5. CASE /\ SaveFails(WithState("PayloadReady")) /\ Done /\ src[p] # None /\ payload[e] = None
             /\ candidate' = [candidate EXCEPT ![e] = None]
             /\ UNCHANGED <<src, payload, claim, staging, history>>
    BY <1>5, <2>1, <2>2, <2>5, NotTaken DEF SaveCopied, SaveFails, Done, Advance
  <2> QED BY <1>5, <2>3, <2>4, <2>5 DEF SaveCopied, DeleteFails
<1>6. CASE AtWork /\ ClaimSource
  BY <1>6, StaysCurrent, Distinct DEF AtWork, ClaimSource, Advance, Skip, Done, Goto,
       DeleteFails, Mishap
<1>7. CASE AtWork /\ SaveClaimed /\ StateAltered("Claimed")
  BY <1>7, StaysCurrent, Distinct DEF AtWork, StateAltered, SaveClaimed, Advance, Skip, Done,
       Goto, Persist, Mishap, Save, SaveFails
<1>8. CASE AtWork /\ Compare
  BY <1>8, StaysCurrent, Distinct DEF AtWork, Compare, Advance, Skip, Done, Goto
<1>9. CASE AtWork /\ Publish
  BY <1>9, StaysCurrent, Distinct DEF AtWork, Publish, Advance, Skip, Done, Goto, Mishap
<1>10. CASE AtWork /\ Verify
  BY <1>10, StaysCurrent, Distinct DEF AtWork, Verify, Advance, Skip, Done, Goto, Match
<1>11. CASE AtWork /\ SaveVerified /\ StateAltered("PayloadVerified")
  BY <1>11, StaysCurrent, Distinct DEF AtWork, StateAltered, SaveVerified, Advance, Skip, Done,
       Goto, Persist, Mishap, Save, SaveFails
<1>12. CASE AtWork /\ Clean /\ StateAltered("Ready")
  BY <1>12, StaysCurrent, Distinct DEF AtWork, StateAltered, Clean, Advance, Skip, Done, Goto
<1>13. CASE AtWork /\ SaveReady /\ StateAltered("Ready")
  BY <1>13, StaysCurrent, Distinct DEF AtWork, StateAltered, SaveReady, Advance, Skip, Done,
       Goto, Persist, Mishap, Save, SaveFails
<1>14. CASE AtWork /\ LookRestoring
  BY <1>14, StaysCurrent, Distinct DEF AtWork, LookRestoring, Advance, Skip, Done, Goto, entry
<1>15. CASE AtWork /\ LookMoving /\ StateAltered("Claimed")
  BY <1>15, StaysCurrent, Distinct DEF AtWork, StateAltered, LookMoving, Advance, Skip, Done,
       Goto, entry
<1>16. CASE AtWork /\ Tidy /\ StateAltered("Ready")
  BY <1>16, StaysCurrent, Distinct DEF AtWork, StateAltered, Tidy, Advance, Skip, Done, Goto
<1>17. CASE AtWork /\ Unstage /\ RestoreAltered(None)
  BY <1>17, StaysCurrent, Distinct DEF AtWork, RestoreAltered, Unstage, Advance, Skip, Done, Goto
<1>18. CASE AtWork /\ LookRestore /\ RestoreAltered("Preparing")
  BY <1>18, StaysCurrent, Distinct DEF AtWork, RestoreAltered, LookRestore, Advance, Skip, Done,
       Goto, entry
<1>19. CASE AtWork /\ SavePreparing /\ RestoreAltered(None)
  BY <1>19, StaysCurrent, Distinct DEF AtWork, RestoreAltered, SavePreparing, Advance, Skip,
       Done, Goto, Save, Mishap
<1>20. CASE AtWork /\ GiveBackLocal
  BY <1>20, StaysCurrent, Distinct DEF AtWork, GiveBackLocal, Advance, Skip, Done, Goto, PutBack
<1>21. CASE AtWork /\ Stage
  BY <1>21, StaysCurrent, Distinct DEF AtWork, Stage, Advance, Skip, Done, Goto
<1>22. CASE AtWork /\ CopyBack
  BY <1>22, StaysCurrent, Distinct DEF AtWork, CopyBack, Advance, Skip, Done, Goto
<1>23. CASE AtWork /\ GiveBackRemote
  BY <1>23, StaysCurrent, Distinct DEF AtWork, GiveBackRemote, Advance, Skip, Done, Goto, PutBack
<1>24. CASE AtWork /\ Occupied
  BY <1>24, StaysCurrent, Distinct DEF AtWork, Occupied, Advance, Skip, Done, Goto
<1>25. CASE AtWork /\ Undo /\ RestoreAltered(None)
  BY <1>25, StaysCurrent, Distinct DEF AtWork, RestoreAltered, Undo, Advance, Skip, Done, Goto
<1>26. CASE AtWork /\ SaveUndone
  BY <1>26, StaysCurrent, Distinct DEF AtWork, SaveUndone, Advance, Skip, Done, Goto, Save,
       SaveFails, Mishap
<1>27. CASE AtWork /\ VerifyBack
  BY <1>27, StaysCurrent, Distinct DEF AtWork, VerifyBack, Advance, Skip, Done, Goto, Match
<1>28. CASE AtWork /\ SaveCommitted /\ RestoreAltered("Committed")
  BY <1>28, StaysCurrent, Distinct DEF AtWork, RestoreAltered, SaveCommitted, Advance, Skip,
       Done, Goto, Save, SaveFails, Mishap
<1>29. CASE AtWork /\ FinishBack
  BY <1>29, StaysCurrent, Distinct DEF AtWork, FinishBack, Advance, Skip, Done, Goto
<1>30. CASE AtWork /\ ClearPayload
  BY <1>30, StaysCurrent, Distinct DEF AtWork, ClearPayload, Advance, Skip, Done, Goto
<1>31. CASE AtWork /\ LookPurge
  BY <1>31, StaysCurrent, Distinct DEF AtWork, LookPurge, Advance, Skip, Done, Goto, entry
<1>32. CASE Close BY <1>32 DEF Close, Idle, Mishap
<1>33. CASE CallFails
  <2>1. e \in todo /\ e \in Entries /\ Halfway BY <1>33, Current DEF CallFails, Types
  <2> QED
    BY <1>33, <2>1, HalfwayFiles, StaysCurrent DEF CallFails, Mishap, Advance, Skip, Done, Goto
<1>34. CASE Crash
  <2>1. CASE todo = {} BY <1>34, <2>1 DEF Crash, Idle
  <2>2. CASE todo # {}
    <3>1. e \in todo /\ e \in Entries /\ Halfway BY <1>34, <2>2, Current DEF Crash, Types
    <3> QED BY <1>34, <3>1, HalfwayFiles DEF Crash, Idle
  <2> QED BY <2>1, <2>2
<1>35. CASE Reconcile BY <1>35 DEF Reconcile, Open
<1>36. CASE \E q \in Paths : Write(q)
  BY <1>36, StaysCurrent DEF Write
<1>37. CASE \E q \in Paths : Discard(q)
  BY <1>37, StaysCurrent DEF Discard
<1>38. CASE \E x \in Entries : LateWrite(x)
  <2> PICK x \in Entries : LateWrite(x) BY <1>38
  <2>1. items + 1 \in Items BY NextItem DEF LateWrite, Types
  <2> QED BY <2>1, StaysCurrent, Distinct DEF LateWrite
<1>39. CASE \E batch \in Batches : Delete(batch)
  <2> PICK m : RecordsBatch(m) BY <1>39, Deleting
  <2> QED BY Distinct DEF RecordsBatch, IsNewManifest, Idle
<1>40. CASE \E S \in SUBSET Recorded : Restore(S) BY <1>40 DEF Restore, Open
<1>41. CASE \E S \in SUBSET Recorded : Purge(S) BY <1>41 DEF Purge, Open
<1> QED BY <1>1, <1>2, <1>3, <1>4, <1>5, <1>6, <1>7, <1>8, <1>9, <1>10, <1>11, <1>12, <1>13,
     <1>14, <1>15, <1>16, <1>17, <1>18, <1>19, <1>20, <1>21, <1>22, <1>23, <1>24, <1>25, <1>26,
     <1>27, <1>28, <1>29, <1>30, <1>31, <1>32, <1>33, <1>34, <1>35, <1>36, <1>37, <1>38, <1>39,
     <1>40, <1>41, Cases

\* What a step relies on.
LEMMA StepInvStep ==
    ASSUME Types, ListInv, Untouched, ItemInv, ClaimInv, CommittedInv, StepInv, [Next]_vars
    PROVE  StepInv'
<1> USE DEF Types, FilesType, ListType, RunType, Lock, ListInv, ItemInv, StepInv, Records,
     ClaimInv, CommittedInv, Untouched, Before
<1>1. CASE UNCHANGED vars BY <1>1, StaysCurrent DEF vars
<1>2. CASE AtWork /\ LookDelete
  BY <1>2, StaysCurrent DEF AtWork, LookDelete, Advance, Skip, Done, Goto, Captured, Mishap
<1>3. CASE AtWork /\ TakeLocal
  BY <1>3, StaysCurrent, NotTaken DEF AtWork, TakeLocal, Advance, Skip, Done, Goto, DeleteFails,
       Mishap
<1>4. CASE AtWork /\ TakeRemote
  BY <1>4, StaysCurrent, NotTaken DEF AtWork, TakeRemote, Advance, Skip, Done, Goto,
       DeleteFails, Mishap
<1>5. CASE AtWork /\ SaveCopied /\ StateAltered("PayloadReady")
  <2>1. AtWork BY <1>5
  <2>2. StateAltered("PayloadReady") BY <1>5
  <2> USE DEF AtWork, StateAltered
  <2>3. CASE Save(WithState("PayloadReady")) /\ Goto("claim") /\ UNCHANGED <<src, files, history>>
    BY <1>5, <2>1, <2>2, <2>3, StaysCurrent, NotTaken DEF SaveCopied, Save, Goto
  <2>4. CASE SaveFails(WithState("PayloadReady")) /\ Skip /\ UNCHANGED <<src, files, history>>
    BY <1>5, <2>1, <2>2, <2>4, NotTaken DEF SaveCopied, SaveFails, Skip, Advance
  <2>5. CASE /\ SaveFails(WithState("PayloadReady")) /\ Done /\ src[p] # None /\ payload[e] = None
             /\ candidate' = [candidate EXCEPT ![e] = None]
             /\ UNCHANGED <<src, payload, claim, staging, history>>
    BY <1>5, <2>1, <2>2, <2>5, NotTaken DEF SaveCopied, SaveFails, Done, Advance
  <2> QED BY <1>5, <2>3, <2>4, <2>5 DEF SaveCopied, DeleteFails
<1>6. CASE AtWork /\ ClaimSource
  BY <1>6, StaysCurrent, NotTaken DEF AtWork, ClaimSource, Advance, Skip, Done, Goto,
       DeleteFails, Mishap
<1>7. CASE AtWork /\ SaveClaimed /\ StateAltered("Claimed")
  BY <1>7, StaysCurrent DEF AtWork, StateAltered, SaveClaimed, Advance, Skip, Done, Goto,
       Persist, Mishap, Save, SaveFails
<1>8. CASE AtWork /\ Compare
  BY <1>8, StaysCurrent DEF AtWork, Compare, Advance, Skip, Done, Goto
<1>9. CASE AtWork /\ Publish
  BY <1>9, StaysCurrent DEF AtWork, Publish, Advance, Skip, Done, Goto, Mishap
<1>10. CASE AtWork /\ Verify
  BY <1>10, StaysCurrent DEF AtWork, Verify, Advance, Skip, Done, Goto, Match
<1>11. CASE AtWork /\ SaveVerified /\ StateAltered("PayloadVerified")
  BY <1>11, StaysCurrent DEF AtWork, StateAltered, SaveVerified, Advance, Skip, Done, Goto,
       Persist, Mishap, Save, SaveFails
<1>12. CASE AtWork /\ Clean /\ StateAltered("Ready")
  BY <1>12, StaysCurrent DEF AtWork, StateAltered, Clean, Advance, Skip, Done, Goto
<1>13. CASE AtWork /\ SaveReady /\ StateAltered("Ready")
  BY <1>13, StaysCurrent DEF AtWork, StateAltered, SaveReady, Advance, Skip, Done, Goto, Persist,
       Mishap, Save, SaveFails
<1>14. CASE AtWork /\ LookRestoring
  BY <1>14, StaysCurrent DEF AtWork, LookRestoring, Advance, Skip, Done, Goto, entry
<1>15. CASE AtWork /\ LookMoving /\ StateAltered("Claimed")
  BY <1>15, StaysCurrent DEF AtWork, StateAltered, LookMoving, Advance, Skip, Done, Goto, entry
<1>16. CASE AtWork /\ Tidy /\ StateAltered("Ready")
  BY <1>16, StaysCurrent DEF AtWork, StateAltered, Tidy, Advance, Skip, Done, Goto
<1>17. CASE AtWork /\ Unstage /\ RestoreAltered(None)
  BY <1>17, StaysCurrent DEF AtWork, RestoreAltered, Unstage, Advance, Skip, Done, Goto
<1>18. CASE AtWork /\ LookRestore /\ RestoreAltered("Preparing")
  BY <1>18, StaysCurrent DEF AtWork, RestoreAltered, LookRestore, Advance, Skip, Done, Goto,
       entry
<1>19. CASE AtWork /\ SavePreparing /\ RestoreAltered(None)
  BY <1>19, StaysCurrent DEF AtWork, RestoreAltered, SavePreparing, Advance, Skip, Done, Goto,
       Save, Mishap
<1>20. CASE AtWork /\ GiveBackLocal
  BY <1>20, StaysCurrent DEF AtWork, GiveBackLocal, Advance, Skip, Done, Goto, PutBack
<1>21. CASE AtWork /\ Stage
  BY <1>21, StaysCurrent DEF AtWork, Stage, Advance, Skip, Done, Goto
<1>22. CASE AtWork /\ CopyBack
  BY <1>22, StaysCurrent DEF AtWork, CopyBack, Advance, Skip, Done, Goto
<1>23. CASE AtWork /\ GiveBackRemote
  BY <1>23, StaysCurrent DEF AtWork, GiveBackRemote, Advance, Skip, Done, Goto, PutBack
<1>24. CASE AtWork /\ Occupied
  BY <1>24, StaysCurrent DEF AtWork, Occupied, Advance, Skip, Done, Goto
<1>25. CASE AtWork /\ Undo /\ RestoreAltered(None)
  BY <1>25, StaysCurrent DEF AtWork, RestoreAltered, Undo, Advance, Skip, Done, Goto
<1>26. CASE AtWork /\ SaveUndone
  BY <1>26, StaysCurrent DEF AtWork, SaveUndone, Advance, Skip, Done, Goto, Save, SaveFails,
       Mishap
<1>27. CASE AtWork /\ VerifyBack
  BY <1>27, StaysCurrent DEF AtWork, VerifyBack, Advance, Skip, Done, Goto, Match
<1>28. CASE AtWork /\ SaveCommitted /\ RestoreAltered("Committed")
  BY <1>28, StaysCurrent DEF AtWork, RestoreAltered, SaveCommitted, Advance, Skip, Done, Goto,
       Save, SaveFails, Mishap
<1>29. CASE AtWork /\ FinishBack
  BY <1>29, StaysCurrent DEF AtWork, FinishBack, Advance, Skip, Done, Goto
<1>30. CASE AtWork /\ ClearPayload
  BY <1>30, StaysCurrent DEF AtWork, ClearPayload, Advance, Skip, Done, Goto
<1>31. CASE AtWork /\ LookPurge
  BY <1>31, StaysCurrent DEF AtWork, LookPurge, Advance, Skip, Done, Goto, entry
<1>32. CASE Close BY <1>32 DEF Close, Idle, Mishap
<1>33. CASE CallFails
  <2>1. e \in todo /\ e \in Entries /\ Halfway BY <1>33, Current DEF CallFails, Types
  <2> QED
    BY <1>33, <2>1, HalfwayFiles, StaysCurrent DEF CallFails, Mishap, Advance, Skip, Done, Goto
<1>34. CASE Crash
  <2>1. CASE todo = {} BY <1>34, <2>1 DEF Crash, Idle
  <2>2. CASE todo # {}
    <3>1. e \in todo /\ e \in Entries /\ Halfway BY <1>34, <2>2, Current DEF Crash, Types
    <3> QED BY <1>34, <3>1, HalfwayFiles DEF Crash, Idle
  <2> QED BY <2>1, <2>2
<1>35. CASE Reconcile BY <1>35 DEF Reconcile, Open
<1>36. CASE \E q \in Paths : Write(q)
  BY <1>36, StaysCurrent DEF Write
<1>37. CASE \E q \in Paths : Discard(q)
  BY <1>37, StaysCurrent DEF Discard
<1>38. CASE \E x \in Entries : LateWrite(x)
  <2> PICK x \in Entries : LateWrite(x) BY <1>38
  <2>1. items + 1 \in Items BY NextItem DEF LateWrite, Types
  <2>2. todo # {} => e \in todo /\ e \in Entries BY Current DEF Types
  <2>3. e' = e /\ UNCHANGED <<op, at, todo, mem, manifest, payload, staging, given>>
    BY StaysCurrent DEF LateWrite
  <2>4. claim' = [claim EXCEPT ![x] = items + 1] /\ taken' = [taken EXCEPT ![x] = items + 1]
    BY DEF LateWrite
  <2>5. claim[x] # None /\ ~(x \in todo /\ x = e /\ at \in {"saveVerified", "clean"})
    BY Distinct DEF LateWrite
  <2>6. CASE x = e BY <2>1, <2>2, <2>3, <2>4, <2>5, <2>6, Distinct
  <2>7. CASE x # e BY <2>2, <2>3, <2>4, <2>7
  <2> QED BY <2>6, <2>7
<1>39. CASE \E batch \in Batches : Delete(batch)
  <2> PICK m : RecordsBatch(m) BY <1>39, Deleting
  <2> QED BY Distinct DEF RecordsBatch, IsNewManifest, Idle
<1>40. CASE \E S \in SUBSET Recorded : Restore(S) BY <1>40 DEF Restore, Open
<1>41. CASE \E S \in SUBSET Recorded : Purge(S) BY <1>41 DEF Purge, Open
<1> QED BY <1>1, <1>2, <1>3, <1>4, <1>5, <1>6, <1>7, <1>8, <1>9, <1>10, <1>11, <1>12, <1>13,
     <1>14, <1>15, <1>16, <1>17, <1>18, <1>19, <1>20, <1>21, <1>22, <1>23, <1>24, <1>25, <1>26,
     <1>27, <1>28, <1>29, <1>30, <1>31, <1>32, <1>33, <1>34, <1>35, <1>36, <1>37, <1>38, <1>39,
     <1>40, <1>41, Cases

\* Nothing stands where a claim is not recorded.
LEMMA ClaimHidesStep ==
    ASSUME Types, ListInv, Untouched, StepInv, ClaimHides, RestoreAvoids, [Next]_vars
    PROVE  ClaimHides'
<1> USE DEF Types, FilesType, ListType, RunType, Lock, ListInv, StepInv, ClaimHides,
     RestoreAvoids, Hidden
<1>1. CASE UNCHANGED vars BY <1>1, StaysCurrent DEF vars
<1>2. CASE AtWork /\ LookDelete
  BY <1>2, StaysCurrent DEF AtWork, LookDelete, Advance, Skip, Done, Goto, Captured, Mishap
<1>3. CASE AtWork /\ TakeLocal
  <2>1. AtWork BY <1>3
  <2> USE DEF AtWork
  <2>3. \A x \in Entries : manifest[x] # None => manifest[x].path \in Paths BY DEF Entry, TrashEntry
  <2>4. UNCHANGED <<manifest, claim>> BY <1>3 DEF TakeLocal, DeleteFails
  <2>5. src' = src \/ src' = [src EXCEPT ![p] = None] BY <1>3 DEF TakeLocal
  <2> QED BY <2>1, <2>3, <2>4, <2>5
<1>4. CASE AtWork /\ TakeRemote
  BY <1>4, StaysCurrent, NotTaken DEF AtWork, TakeRemote, Advance, Skip, Done, Goto,
       DeleteFails, Mishap
<1>5. CASE AtWork /\ SaveCopied /\ StateAltered("PayloadReady")
  <2>1. AtWork BY <1>5
  <2>2. StateAltered("PayloadReady") BY <1>5
  <2> USE DEF AtWork, StateAltered
  <2>3. CASE Save(WithState("PayloadReady")) /\ Goto("claim") /\ UNCHANGED <<src, files, history>>
    BY <1>5, <2>1, <2>2, <2>3, StaysCurrent, NotTaken DEF SaveCopied, Save, Goto
  <2>4. CASE SaveFails(WithState("PayloadReady")) /\ Skip /\ UNCHANGED <<src, files, history>>
    BY <1>5, <2>1, <2>2, <2>4, NotTaken DEF SaveCopied, SaveFails, Skip, Advance
  <2>5. CASE /\ SaveFails(WithState("PayloadReady")) /\ Done /\ src[p] # None /\ payload[e] = None
             /\ candidate' = [candidate EXCEPT ![e] = None]
             /\ UNCHANGED <<src, payload, claim, staging, history>>
    BY <1>5, <2>1, <2>2, <2>5, NotTaken DEF SaveCopied, SaveFails, Done, Advance
  <2> QED BY <1>5, <2>3, <2>4, <2>5 DEF SaveCopied, DeleteFails
<1>6. CASE AtWork /\ ClaimSource
  <2>1. AtWork BY <1>6
  <2> USE DEF AtWork
  <2>3. \A x \in Entries : manifest[x] # None => manifest[x].path \in Paths BY DEF Entry, TrashEntry
  <2>4. CASE src' = src
    <3>1. UNCHANGED <<manifest, claim>> BY <1>6, <2>1, <2>4 DEF ClaimSource, DeleteFails
    <3> QED BY <2>4, <3>1
  <2>5. CASE src' # src
    <3>1. src' = [src EXCEPT ![p] = None] /\ UNCHANGED manifest
      BY <1>6, <2>5 DEF ClaimSource, DeleteFails
    <3>2. claim' = [claim EXCEPT ![e] = src[p]] BY <1>6, <2>5 DEF ClaimSource, DeleteFails
    <3>3. manifest[e].path = p BY <1>6, <2>1, Working DEF ClaimSource
    <3> QED BY <2>1, <2>3, <3>1, <3>2, <3>3
  <2> QED BY <2>4, <2>5
<1>7. CASE AtWork /\ SaveClaimed /\ StateAltered("Claimed")
  BY <1>7, StaysCurrent DEF AtWork, StateAltered, SaveClaimed, Advance, Skip, Done, Goto,
       Persist, Mishap, Save, SaveFails
<1>8. CASE AtWork /\ Compare
  BY <1>8, StaysCurrent DEF AtWork, Compare, Advance, Skip, Done, Goto
<1>9. CASE AtWork /\ Publish
  BY <1>9, StaysCurrent DEF AtWork, Publish, Advance, Skip, Done, Goto, Mishap
<1>10. CASE AtWork /\ Verify
  BY <1>10, StaysCurrent DEF AtWork, Verify, Advance, Skip, Done, Goto, Match
<1>11. CASE AtWork /\ SaveVerified /\ StateAltered("PayloadVerified")
  BY <1>11, StaysCurrent DEF AtWork, StateAltered, SaveVerified, Advance, Skip, Done, Goto,
       Persist, Mishap, Save, SaveFails
<1>12. CASE AtWork /\ Clean /\ StateAltered("Ready")
  BY <1>12, StaysCurrent DEF AtWork, StateAltered, Clean, Advance, Skip, Done, Goto
<1>13. CASE AtWork /\ SaveReady /\ StateAltered("Ready")
  BY <1>13, StaysCurrent DEF AtWork, StateAltered, SaveReady, Advance, Skip, Done, Goto, Persist,
       Mishap, Save, SaveFails
<1>14. CASE AtWork /\ LookRestoring
  BY <1>14, StaysCurrent DEF AtWork, LookRestoring, Advance, Skip, Done, Goto, entry
<1>15. CASE AtWork /\ LookMoving /\ StateAltered("Claimed")
  BY <1>15, StaysCurrent DEF AtWork, StateAltered, LookMoving, Advance, Skip, Done, Goto, entry
<1>16. CASE AtWork /\ Tidy /\ StateAltered("Ready")
  BY <1>16, StaysCurrent DEF AtWork, StateAltered, Tidy, Advance, Skip, Done, Goto
<1>17. CASE AtWork /\ Unstage /\ RestoreAltered(None)
  BY <1>17, StaysCurrent DEF AtWork, RestoreAltered, Unstage, Advance, Skip, Done, Goto
<1>18. CASE AtWork /\ LookRestore /\ RestoreAltered("Preparing")
  BY <1>18, StaysCurrent DEF AtWork, RestoreAltered, LookRestore, Advance, Skip, Done, Goto,
       entry
<1>19. CASE AtWork /\ SavePreparing /\ RestoreAltered(None)
  BY <1>19, StaysCurrent DEF AtWork, RestoreAltered, SavePreparing, Advance, Skip, Done, Goto,
       Save, Mishap
<1>20. CASE AtWork /\ GiveBackLocal
  BY <1>20, StaysCurrent DEF AtWork, GiveBackLocal, Advance, Skip, Done, Goto, PutBack
<1>21. CASE AtWork /\ Stage
  BY <1>21, StaysCurrent DEF AtWork, Stage, Advance, Skip, Done, Goto
<1>22. CASE AtWork /\ CopyBack
  BY <1>22, StaysCurrent DEF AtWork, CopyBack, Advance, Skip, Done, Goto
<1>23. CASE AtWork /\ GiveBackRemote
  BY <1>23, StaysCurrent DEF AtWork, GiveBackRemote, Advance, Skip, Done, Goto, PutBack
<1>24. CASE AtWork /\ Occupied
  BY <1>24, StaysCurrent DEF AtWork, Occupied, Advance, Skip, Done, Goto
<1>25. CASE AtWork /\ Undo /\ RestoreAltered(None)
  BY <1>25, StaysCurrent DEF AtWork, RestoreAltered, Undo, Advance, Skip, Done, Goto
<1>26. CASE AtWork /\ SaveUndone
  BY <1>26, StaysCurrent DEF AtWork, SaveUndone, Advance, Skip, Done, Goto, Save, SaveFails,
       Mishap
<1>27. CASE AtWork /\ VerifyBack
  BY <1>27, StaysCurrent DEF AtWork, VerifyBack, Advance, Skip, Done, Goto, Match
<1>28. CASE AtWork /\ SaveCommitted /\ RestoreAltered("Committed")
  BY <1>28, StaysCurrent DEF AtWork, RestoreAltered, SaveCommitted, Advance, Skip, Done, Goto,
       Save, SaveFails, Mishap
<1>29. CASE AtWork /\ FinishBack
  BY <1>29, StaysCurrent DEF AtWork, FinishBack, Advance, Skip, Done, Goto
<1>30. CASE AtWork /\ ClearPayload
  BY <1>30, StaysCurrent DEF AtWork, ClearPayload, Advance, Skip, Done, Goto
<1>31. CASE AtWork /\ LookPurge
  BY <1>31, StaysCurrent DEF AtWork, LookPurge, Advance, Skip, Done, Goto, entry
<1>32. CASE Close BY <1>32 DEF Close, Idle, Mishap
<1>33. CASE CallFails
  <2>1. e \in todo /\ e \in Entries /\ Halfway BY <1>33, Current DEF CallFails, Types
  <2> QED
    BY <1>33, <2>1, HalfwayFiles, StaysCurrent DEF CallFails, Mishap, Advance, Skip, Done, Goto
<1>34. CASE Crash
  <2>1. CASE todo = {} BY <1>34, <2>1 DEF Crash, Idle
  <2>2. CASE todo # {}
    <3>1. e \in todo /\ e \in Entries /\ Halfway BY <1>34, <2>2, Current DEF Crash, Types
    <3> QED BY <1>34, <3>1, HalfwayFiles DEF Crash, Idle
  <2> QED BY <2>1, <2>2
<1>35. CASE Reconcile BY <1>35 DEF Reconcile, Open
<1>36. CASE \E q \in Paths : Write(q)
  BY <1>36 DEF Write, Unrecorded, Recorded
<1>37. CASE \E q \in Paths : Discard(q)
  BY <1>37, StaysCurrent DEF Discard
<1>38. CASE \E x \in Entries : LateWrite(x)
  BY <1>38, Distinct DEF LateWrite
<1>39. CASE \E batch \in Batches : Delete(batch)
  <2> PICK m : RecordsBatch(m) BY <1>39, Deleting
  <2> QED BY Distinct DEF RecordsBatch, IsNewManifest, Idle
<1>40. CASE \E S \in SUBSET Recorded : Restore(S) BY <1>40 DEF Restore, Open
<1>41. CASE \E S \in SUBSET Recorded : Purge(S) BY <1>41 DEF Purge, Open
<1> QED BY <1>1, <1>2, <1>3, <1>4, <1>5, <1>6, <1>7, <1>8, <1>9, <1>10, <1>11, <1>12, <1>13,
     <1>14, <1>15, <1>16, <1>17, <1>18, <1>19, <1>20, <1>21, <1>22, <1>23, <1>24, <1>25, <1>26,
     <1>27, <1>28, <1>29, <1>30, <1>31, <1>32, <1>33, <1>34, <1>35, <1>36, <1>37, <1>38, <1>39,
     <1>40, <1>41, Cases

\* No restore puts anything there.
LEMMA RestoreAvoidsStep ==
    ASSUME Types, ListInv, Untouched, RestoreAvoids, [Next]_vars
    PROVE  RestoreAvoids'
<1> USE DEF Types, FilesType, ListType, RunType, Lock, ListInv, RestoreAvoids, Hidden
<1>1. CASE UNCHANGED vars BY <1>1, StaysCurrent DEF vars
<1>2. CASE AtWork /\ LookDelete
  BY <1>2 DEF AtWork, LookDelete, Advance, Skip, Done, Goto, Captured, Mishap
<1>3. CASE AtWork /\ TakeLocal
  BY <1>3, NotTaken DEF AtWork, TakeLocal, Advance, Skip, Done, Goto, DeleteFails, Mishap
<1>4. CASE AtWork /\ TakeRemote
  BY <1>4, NotTaken DEF AtWork, TakeRemote, Advance, Skip, Done, Goto, DeleteFails, Mishap
<1>5. CASE AtWork /\ SaveCopied /\ StateAltered("PayloadReady")
  <2>1. AtWork BY <1>5
  <2>2. StateAltered("PayloadReady") BY <1>5
  <2> USE DEF AtWork, StateAltered
  <2>3. CASE Save(WithState("PayloadReady")) /\ Goto("claim") /\ UNCHANGED <<src, files, history>>
    BY <1>5, <2>1, <2>2, <2>3, StaysCurrent, NotTaken DEF SaveCopied, Save, Goto
  <2>4. CASE SaveFails(WithState("PayloadReady")) /\ Skip /\ UNCHANGED <<src, files, history>>
    BY <1>5, <2>1, <2>2, <2>4, NotTaken DEF SaveCopied, SaveFails, Skip, Advance
  <2>5. CASE /\ SaveFails(WithState("PayloadReady")) /\ Done /\ src[p] # None /\ payload[e] = None
             /\ candidate' = [candidate EXCEPT ![e] = None]
             /\ UNCHANGED <<src, payload, claim, staging, history>>
    BY <1>5, <2>1, <2>2, <2>5, NotTaken DEF SaveCopied, SaveFails, Done, Advance
  <2> QED BY <1>5, <2>3, <2>4, <2>5 DEF SaveCopied, DeleteFails
<1>6. CASE AtWork /\ ClaimSource
  BY <1>6, NotTaken DEF AtWork, ClaimSource, Advance, Skip, Done, Goto, DeleteFails, Mishap
<1>7. CASE AtWork /\ SaveClaimed /\ StateAltered("Claimed")
  BY <1>7 DEF AtWork, StateAltered, SaveClaimed, Advance, Skip, Done, Goto, Persist, Mishap,
       Save, SaveFails
<1>8. CASE AtWork /\ Compare
  BY <1>8 DEF AtWork, Compare, Advance, Skip, Done, Goto
<1>9. CASE AtWork /\ Publish
  BY <1>9 DEF AtWork, Publish, Advance, Skip, Done, Goto, Mishap
<1>10. CASE AtWork /\ Verify
  BY <1>10 DEF AtWork, Verify, Advance, Skip, Done, Goto, Match
<1>11. CASE AtWork /\ SaveVerified /\ StateAltered("PayloadVerified")
  <2>1. AtWork BY <1>11
  <2>2. StateAltered("PayloadVerified") BY <1>11
  <2> USE DEF AtWork, StateAltered
  <2>3. op' = op /\ todo' \subseteq todo
    BY <1>11 DEF SaveVerified, Goto, Skip, Done, Advance, Persist
  <2>4. CASE op = "restore"
    <3>1. \A x \in Entries : mem'[x].path = mem[x].path
      BY <1>11, <2>1, <2>2 DEF SaveVerified, Persist, Save, SaveFails
    <3>2. \A y \in Entries : Hidden(y)' => Hidden(y) /\ manifest'[y].path = manifest[y].path
      BY <1>11, <2>1, <2>2, <2>4 DEF SaveVerified, Persist, Save, SaveFails
    <3>3. todo \subseteq Entries BY TrashAssumption DEF TrashAssumption, Entries
    <3> HIDE DEF Hidden
    <3> QED BY <2>3, <2>4, <3>1, <3>2, <3>3
  <2>5. CASE op # "restore" BY <2>3, <2>5
  <2> QED BY <2>4, <2>5
<1>12. CASE AtWork /\ Clean /\ StateAltered("Ready")
  <2>1. AtWork BY <1>12
  <2>2. StateAltered("Ready") BY <1>12
  <2> USE DEF AtWork, StateAltered
  <2>3. op' = op /\ todo' \subseteq todo BY <1>12 DEF Clean, Goto, Skip, Done, Advance
  <2>4. CASE op = "restore"
    <3>1. \A x \in Entries : mem'[x].path = mem[x].path
      BY <1>12, <2>1, <2>2 DEF Clean
    <3>2. \A y \in Entries : Hidden(y)' => Hidden(y) /\ manifest'[y].path = manifest[y].path
      BY <1>12, <2>1, <2>2, <2>4 DEF Clean
    <3>3. todo \subseteq Entries BY TrashAssumption DEF TrashAssumption, Entries
    <3> HIDE DEF Hidden
    <3> QED BY <2>3, <2>4, <3>1, <3>2, <3>3
  <2>5. CASE op # "restore" BY <2>3, <2>5
  <2> QED BY <2>4, <2>5
<1>13. CASE AtWork /\ SaveReady /\ StateAltered("Ready")
  BY <1>13 DEF AtWork, StateAltered, SaveReady, Advance, Skip, Done, Goto, Persist, Mishap, Save,
       SaveFails
<1>14. CASE AtWork /\ LookRestoring
  BY <1>14 DEF AtWork, LookRestoring, Advance, Skip, Done, Goto, entry
<1>15. CASE AtWork /\ LookMoving /\ StateAltered("Claimed")
  BY <1>15 DEF AtWork, StateAltered, LookMoving, Advance, Skip, Done, Goto, entry
<1>16. CASE AtWork /\ Tidy /\ StateAltered("Ready")
  <2>1. AtWork BY <1>16
  <2>2. StateAltered("Ready") BY <1>16
  <2> USE DEF AtWork, StateAltered
  <2>3. op' = op /\ todo' \subseteq todo BY <1>16 DEF Tidy, Goto, Skip, Done, Advance
  <2>4. CASE op = "restore"
    <3>1. \A x \in Entries : mem'[x].path = mem[x].path
      BY <1>16, <2>1, <2>2 DEF Tidy
    <3>2. \A y \in Entries : Hidden(y)' => Hidden(y) /\ manifest'[y].path = manifest[y].path
      BY <1>16, <2>1, <2>2, <2>4 DEF Tidy
    <3>3. todo \subseteq Entries BY TrashAssumption DEF TrashAssumption, Entries
    <3> HIDE DEF Hidden
    <3> QED BY <2>3, <2>4, <3>1, <3>2, <3>3
  <2>5. CASE op # "restore" BY <2>3, <2>5
  <2> QED BY <2>4, <2>5
<1>17. CASE AtWork /\ Unstage /\ RestoreAltered(None)
  <2>1. AtWork BY <1>17
  <2>2. RestoreAltered(None) BY <1>17
  <2> USE DEF AtWork, RestoreAltered
  <2>3. op' = op /\ todo' \subseteq todo BY <1>17 DEF Unstage, Goto, Skip, Done, Advance
  <2>4. CASE op = "restore"
    <3>1. \A x \in Entries : mem'[x].path = mem[x].path
      BY <1>17, <2>1, <2>2 DEF Unstage
    <3>2. \A y \in Entries : Hidden(y)' => Hidden(y) /\ manifest'[y].path = manifest[y].path
      BY <1>17, <2>1, <2>2, <2>4 DEF Unstage
    <3>3. todo \subseteq Entries BY TrashAssumption DEF TrashAssumption, Entries
    <3> HIDE DEF Hidden
    <3> QED BY <2>3, <2>4, <3>1, <3>2, <3>3
  <2>5. CASE op # "restore" BY <2>3, <2>5
  <2> QED BY <2>4, <2>5
<1>18. CASE AtWork /\ LookRestore /\ RestoreAltered("Preparing")
  <2>1. AtWork BY <1>18
  <2>2. RestoreAltered("Preparing") BY <1>18
  <2> USE DEF AtWork, RestoreAltered
  <2>3. op' = op /\ todo' \subseteq todo BY <1>18 DEF LookRestore, Goto, Skip, Done, Advance
  <2>4. CASE op = "restore"
    <3>1. \A x \in Entries : mem'[x].path = mem[x].path
      BY <1>18, <2>1, <2>2 DEF LookRestore
    <3>2. \A y \in Entries : Hidden(y)' => Hidden(y) /\ manifest'[y].path = manifest[y].path
      BY <1>18, <2>1, <2>2, <2>4 DEF LookRestore
    <3>3. todo \subseteq Entries BY TrashAssumption DEF TrashAssumption, Entries
    <3> HIDE DEF Hidden
    <3> QED BY <2>3, <2>4, <3>1, <3>2, <3>3
  <2>5. CASE op # "restore" BY <2>3, <2>5
  <2> QED BY <2>4, <2>5
<1>19. CASE AtWork /\ SavePreparing /\ RestoreAltered(None)
  <2>1. AtWork BY <1>19
  <2>2. RestoreAltered(None) BY <1>19
  <2> USE DEF AtWork, RestoreAltered
  <2>3. op' = op /\ todo' \subseteq todo BY <1>19 DEF SavePreparing, Goto, Skip, Done, Advance
  <2>4. CASE op = "restore"
    <3>1. \A x \in Entries : mem'[x].path = mem[x].path
      BY <1>19, <2>1, <2>2 DEF SavePreparing, Save
    <3>2. \A y \in Entries : Hidden(y)' => Hidden(y) /\ manifest'[y].path = manifest[y].path
      BY <1>19, <2>1, <2>2, <2>4 DEF SavePreparing, Save
    <3>3. todo \subseteq Entries BY TrashAssumption DEF TrashAssumption, Entries
    <3> HIDE DEF Hidden
    <3> QED BY <2>3, <2>4, <3>1, <3>2, <3>3
  <2>5. CASE op # "restore" BY <2>3, <2>5
  <2> QED BY <2>4, <2>5
<1>20. CASE AtWork /\ GiveBackLocal
  BY <1>20 DEF AtWork, GiveBackLocal, Advance, Skip, Done, Goto, PutBack
<1>21. CASE AtWork /\ Stage
  BY <1>21 DEF AtWork, Stage, Advance, Skip, Done, Goto
<1>22. CASE AtWork /\ CopyBack
  BY <1>22 DEF AtWork, CopyBack, Advance, Skip, Done, Goto
<1>23. CASE AtWork /\ GiveBackRemote
  BY <1>23 DEF AtWork, GiveBackRemote, Advance, Skip, Done, Goto, PutBack
<1>24. CASE AtWork /\ Occupied
  BY <1>24 DEF AtWork, Occupied, Advance, Skip, Done, Goto
<1>25. CASE AtWork /\ Undo /\ RestoreAltered(None)
  <2>1. AtWork BY <1>25
  <2>2. RestoreAltered(None) BY <1>25
  <2> USE DEF AtWork, RestoreAltered
  <2>3. op' = op /\ todo' \subseteq todo BY <1>25 DEF Undo, Goto, Skip, Done, Advance
  <2>4. CASE op = "restore"
    <3>1. \A x \in Entries : mem'[x].path = mem[x].path
      BY <1>25, <2>1, <2>2 DEF Undo
    <3>2. \A y \in Entries : Hidden(y)' => Hidden(y) /\ manifest'[y].path = manifest[y].path
      BY <1>25, <2>1, <2>2, <2>4 DEF Undo
    <3>3. todo \subseteq Entries BY TrashAssumption DEF TrashAssumption, Entries
    <3> HIDE DEF Hidden
    <3> QED BY <2>3, <2>4, <3>1, <3>2, <3>3
  <2>5. CASE op # "restore" BY <2>3, <2>5
  <2> QED BY <2>4, <2>5
<1>26. CASE AtWork /\ SaveUndone
  BY <1>26 DEF AtWork, SaveUndone, Advance, Skip, Done, Goto, Save, SaveFails, Mishap
<1>27. CASE AtWork /\ VerifyBack
  BY <1>27 DEF AtWork, VerifyBack, Advance, Skip, Done, Goto, Match
<1>28. CASE AtWork /\ SaveCommitted /\ RestoreAltered("Committed")
  <2>1. AtWork BY <1>28
  <2>2. RestoreAltered("Committed") BY <1>28
  <2> USE DEF AtWork, RestoreAltered
  <2>3. op' = op /\ todo' \subseteq todo BY <1>28 DEF SaveCommitted, Goto, Skip, Done, Advance
  <2>4. CASE op = "restore"
    <3>1. \A x \in Entries : mem'[x].path = mem[x].path
      BY <1>28, <2>1, <2>2 DEF SaveCommitted, Save, SaveFails
    <3>2. \A y \in Entries : Hidden(y)' => Hidden(y) /\ manifest'[y].path = manifest[y].path
      BY <1>28, <2>1, <2>2, <2>4 DEF SaveCommitted, Save, SaveFails
    <3>3. todo \subseteq Entries BY TrashAssumption DEF TrashAssumption, Entries
    <3> HIDE DEF Hidden
    <3> QED BY <2>3, <2>4, <3>1, <3>2, <3>3
  <2>5. CASE op # "restore" BY <2>3, <2>5
  <2> QED BY <2>4, <2>5
<1>29. CASE AtWork /\ FinishBack
  BY <1>29 DEF AtWork, FinishBack, Advance, Skip, Done, Goto
<1>30. CASE AtWork /\ ClearPayload
  BY <1>30 DEF AtWork, ClearPayload, Advance, Skip, Done, Goto
<1>31. CASE AtWork /\ LookPurge
  BY <1>31 DEF AtWork, LookPurge, Advance, Skip, Done, Goto, entry
<1>32. CASE Close BY <1>32 DEF Close, Idle, Mishap
<1>33. CASE CallFails
  <2>1. e \in todo /\ e \in Entries /\ Halfway BY <1>33, Current DEF CallFails, Types
  <2>2. UNCHANGED <<op, mem, manifest>> /\ todo' \subseteq todo
    BY <1>33 DEF CallFails, Goto, Skip, Advance
  <2>3. \A y \in Entries : claim'[y] # None => claim[y] # None BY <2>1, HalfwayFiles
  <2> QED BY <2>2, <2>3
<1>34. CASE Crash
  <2>1. CASE todo = {} BY <1>34, <2>1 DEF Crash, Idle
  <2>2. CASE todo # {}
    <3>1. e \in todo /\ e \in Entries /\ Halfway BY <1>34, <2>2, Current DEF Crash, Types
    <3> QED BY <1>34, <3>1, HalfwayFiles DEF Crash, Idle
  <2> QED BY <2>1, <2>2
<1>35. CASE Reconcile
  BY <1>35 DEF Reconcile, Open
<1>36. CASE \E q \in Paths : Write(q)
  BY <1>36, StaysCurrent DEF Write
<1>37. CASE \E q \in Paths : Discard(q)
  BY <1>37, StaysCurrent DEF Discard
<1>38. CASE \E x \in Entries : LateWrite(x)
  <2>1. UNCHANGED <<op, todo, mem, manifest>> /\ \A y \in Entries : claim'[y] # None => claim[y] # None
    BY <1>38, Distinct DEF LateWrite
  <2> QED BY <2>1
<1>39. CASE \E batch \in Batches : Delete(batch)
  <2> PICK m : RecordsBatch(m) BY <1>39, Deleting
  <2> QED BY Distinct DEF RecordsBatch, IsNewManifest, Idle
<1>40. CASE \E S \in SUBSET Recorded : Restore(S)
  BY <1>40 DEF Restore, Open, Unrecorded, Recorded
<1>41. CASE \E S \in SUBSET Recorded : Purge(S)
  BY <1>41 DEF Purge, Open
<1> QED BY <1>1, <1>2, <1>3, <1>4, <1>5, <1>6, <1>7, <1>8, <1>9, <1>10, <1>11, <1>12, <1>13,
     <1>14, <1>15, <1>16, <1>17, <1>18, <1>19, <1>20, <1>21, <1>22, <1>23, <1>24, <1>25, <1>26,
     <1>27, <1>28, <1>29, <1>30, <1>31, <1>32, <1>33, <1>34, <1>35, <1>36, <1>37, <1>38, <1>39,
     <1>40, <1>41, Cases

\* No original that was taken is abandoned.
LEMMA AbandonsNothingStep ==
    ASSUME Types, ListInv, Untouched, ItemInv, ClaimInv, ClaimHides, AbandonsNothing,
         [Next]_vars
    PROVE  AbandonsNothing'
<1> USE DEF Types, FilesType, ListType, RunType, Lock, AbandonsNothing
<1>1. CASE UNCHANGED vars BY <1>1, StaysCurrent DEF vars
<1>2. CASE AtWork /\ LookDelete
  BY <1>2, StaysCurrent DEF AtWork, LookDelete, Advance, Skip, Done, Goto, Captured, Mishap
<1>3. CASE AtWork /\ TakeLocal
  BY <1>3, StaysCurrent DEF AtWork, TakeLocal, Advance, Skip, Done, Goto, DeleteFails, Mishap
<1>4. CASE AtWork /\ TakeRemote
  BY <1>4, StaysCurrent DEF AtWork, TakeRemote, Advance, Skip, Done, Goto, DeleteFails, Mishap
<1>5. CASE AtWork /\ SaveCopied /\ StateAltered("PayloadReady")
  <2>1. AtWork BY <1>5
  <2>2. StateAltered("PayloadReady") BY <1>5
  <2> USE DEF AtWork, StateAltered
  <2>3. CASE Save(WithState("PayloadReady")) /\ Goto("claim") /\ UNCHANGED <<src, files, history>>
    BY <1>5, <2>1, <2>2, <2>3, StaysCurrent, NotTaken DEF SaveCopied, Save, Goto
  <2>4. CASE SaveFails(WithState("PayloadReady")) /\ Skip /\ UNCHANGED <<src, files, history>>
    BY <1>5, <2>1, <2>2, <2>4, NotTaken DEF SaveCopied, SaveFails, Skip, Advance
  <2>5. CASE /\ SaveFails(WithState("PayloadReady")) /\ Done /\ src[p] # None /\ payload[e] = None
             /\ candidate' = [candidate EXCEPT ![e] = None]
             /\ UNCHANGED <<src, payload, claim, staging, history>>
    BY <1>5, <2>1, <2>2, <2>5, NotTaken DEF SaveCopied, SaveFails, Done, Advance
  <2> QED BY <1>5, <2>3, <2>4, <2>5 DEF SaveCopied, DeleteFails
<1>6. CASE AtWork /\ ClaimSource
  BY <1>6, StaysCurrent DEF AtWork, ClaimSource, Advance, Skip, Done, Goto, DeleteFails, Mishap
<1>7. CASE AtWork /\ SaveClaimed /\ StateAltered("Claimed")
  BY <1>7, StaysCurrent DEF AtWork, StateAltered, SaveClaimed, Advance, Skip, Done, Goto,
       Persist, Mishap, Save, SaveFails
<1>8. CASE AtWork /\ Compare
  BY <1>8, StaysCurrent DEF AtWork, Compare, Advance, Skip, Done, Goto
<1>9. CASE AtWork /\ Publish
  BY <1>9, StaysCurrent DEF AtWork, Publish, Advance, Skip, Done, Goto, Mishap
<1>10. CASE AtWork /\ Verify
  BY <1>10, StaysCurrent DEF AtWork, Verify, Advance, Skip, Done, Goto, Match
<1>11. CASE AtWork /\ SaveVerified /\ StateAltered("PayloadVerified")
  BY <1>11, StaysCurrent DEF AtWork, StateAltered, SaveVerified, Advance, Skip, Done, Goto,
       Persist, Mishap, Save, SaveFails
<1>12. CASE AtWork /\ Clean /\ StateAltered("Ready")
  BY <1>12, StaysCurrent DEF AtWork, StateAltered, Clean, Advance, Skip, Done, Goto
<1>13. CASE AtWork /\ SaveReady /\ StateAltered("Ready")
  BY <1>13, StaysCurrent DEF AtWork, StateAltered, SaveReady, Advance, Skip, Done, Goto, Persist,
       Mishap, Save, SaveFails
<1>14. CASE AtWork /\ LookRestoring
  BY <1>14, StaysCurrent DEF AtWork, LookRestoring, Advance, Skip, Done, Goto, entry
<1>15. CASE AtWork /\ LookMoving /\ StateAltered("Claimed")
  <2>1. AtWork BY <1>15
  <2> USE DEF AtWork
  <2> QED
    <3>1. CASE at' # "abandon" BY <3>1
    <3>2. CASE at' = "abandon"
      <4>1. /\ mem[e].state \in {"Pending", "PayloadReady"} /\ src[p] # None /\ payload[e] = None
            /\ e' = e /\ UNCHANGED <<taken, given>> /\ mem[e] = manifest[e]
        BY <1>15, <2>1, <3>2, Working, StaysCurrent DEF LookMoving, entry, Goto, Skip, Advance,
           ListInv
      <4>2. mem[e] \in Records(e) BY <2>1, Distinct DEF Records
      <4>3. taken[e] # None /\ e \notin given => claim[e] # None BY <2>1, <4>1 DEF ItemInv
      <4>4. claim[e] # None => mem[e].state = "PayloadReady" BY <2>1, <4>1, <4>2 DEF ClaimInv
      <4>5. claim[e] # None => Recreates
        BY <2>1, <4>1, <4>4, Distinct DEF ClaimHides, Hidden
      <4> QED BY <4>1, <4>3, <4>5
    <3> QED BY <3>1, <3>2
<1>16. CASE AtWork /\ Tidy /\ StateAltered("Ready")
  BY <1>16, StaysCurrent DEF AtWork, StateAltered, Tidy, Advance, Skip, Done, Goto
<1>17. CASE AtWork /\ Unstage /\ RestoreAltered(None)
  BY <1>17, StaysCurrent DEF AtWork, RestoreAltered, Unstage, Advance, Skip, Done, Goto
<1>18. CASE AtWork /\ LookRestore /\ RestoreAltered("Preparing")
  BY <1>18, StaysCurrent DEF AtWork, RestoreAltered, LookRestore, Advance, Skip, Done, Goto,
       entry
<1>19. CASE AtWork /\ SavePreparing /\ RestoreAltered(None)
  BY <1>19, StaysCurrent DEF AtWork, RestoreAltered, SavePreparing, Advance, Skip, Done, Goto,
       Save, Mishap
<1>20. CASE AtWork /\ GiveBackLocal
  BY <1>20, StaysCurrent DEF AtWork, GiveBackLocal, Advance, Skip, Done, Goto, PutBack
<1>21. CASE AtWork /\ Stage
  BY <1>21, StaysCurrent DEF AtWork, Stage, Advance, Skip, Done, Goto
<1>22. CASE AtWork /\ CopyBack
  BY <1>22, StaysCurrent DEF AtWork, CopyBack, Advance, Skip, Done, Goto
<1>23. CASE AtWork /\ GiveBackRemote
  BY <1>23, StaysCurrent DEF AtWork, GiveBackRemote, Advance, Skip, Done, Goto, PutBack
<1>24. CASE AtWork /\ Occupied
  BY <1>24, StaysCurrent DEF AtWork, Occupied, Advance, Skip, Done, Goto
<1>25. CASE AtWork /\ Undo /\ RestoreAltered(None)
  BY <1>25, StaysCurrent DEF AtWork, RestoreAltered, Undo, Advance, Skip, Done, Goto
<1>26. CASE AtWork /\ SaveUndone
  BY <1>26, StaysCurrent DEF AtWork, SaveUndone, Advance, Skip, Done, Goto, Save, SaveFails,
       Mishap
<1>27. CASE AtWork /\ VerifyBack
  BY <1>27, StaysCurrent DEF AtWork, VerifyBack, Advance, Skip, Done, Goto, Match
<1>28. CASE AtWork /\ SaveCommitted /\ RestoreAltered("Committed")
  BY <1>28, StaysCurrent DEF AtWork, RestoreAltered, SaveCommitted, Advance, Skip, Done, Goto,
       Save, SaveFails, Mishap
<1>29. CASE AtWork /\ FinishBack
  BY <1>29, StaysCurrent DEF AtWork, FinishBack, Advance, Skip, Done, Goto
<1>30. CASE AtWork /\ ClearPayload
  BY <1>30, StaysCurrent DEF AtWork, ClearPayload, Advance, Skip, Done, Goto
<1>31. CASE AtWork /\ LookPurge
  BY <1>31, StaysCurrent DEF AtWork, LookPurge, Advance, Skip, Done, Goto, entry
<1>32. CASE Close BY <1>32 DEF Close, Idle, Mishap
<1>33. CASE CallFails
  <2>1. e \in todo /\ e \in Entries /\ Halfway BY <1>33, Current DEF CallFails, Types
  <2> QED
    BY <1>33, <2>1, HalfwayFiles, StaysCurrent DEF CallFails, Mishap, Advance, Skip, Done, Goto
<1>34. CASE Crash
  <2>1. CASE todo = {} BY <1>34, <2>1 DEF Crash, Idle
  <2>2. CASE todo # {}
    <3>1. e \in todo /\ e \in Entries /\ Halfway BY <1>34, <2>2, Current DEF Crash, Types
    <3> QED BY <1>34, <3>1, HalfwayFiles DEF Crash, Idle
  <2> QED BY <2>1, <2>2
<1>35. CASE Reconcile BY <1>35 DEF Reconcile, Open
<1>36. CASE \E q \in Paths : Write(q)
  BY <1>36, StaysCurrent DEF Write
<1>37. CASE \E q \in Paths : Discard(q)
  BY <1>37, StaysCurrent DEF Discard
<1>38. CASE \E x \in Entries : LateWrite(x)
  <2> PICK x \in Entries : LateWrite(x) BY <1>38
  <2>1. taken[x] # None BY Distinct DEF LateWrite, Untouched
  <2>2. e' = e /\ UNCHANGED <<at, given>> /\ taken' = [taken EXCEPT ![x] = items + 1]
    BY StaysCurrent DEF LateWrite
  <2>3. at = "abandon" => e \in Entries BY Working DEF AtWork
  <2> QED BY <2>1, <2>2, <2>3
<1>39. CASE \E batch \in Batches : Delete(batch)
  <2> PICK m : RecordsBatch(m) BY <1>39, Deleting
  <2> QED BY Distinct DEF RecordsBatch, IsNewManifest, Idle
<1>40. CASE \E S \in SUBSET Recorded : Restore(S) BY <1>40 DEF Restore, Open
<1>41. CASE \E S \in SUBSET Recorded : Purge(S) BY <1>41 DEF Purge, Open
<1> QED BY <1>1, <1>2, <1>3, <1>4, <1>5, <1>6, <1>7, <1>8, <1>9, <1>10, <1>11, <1>12, <1>13,
     <1>14, <1>15, <1>16, <1>17, <1>18, <1>19, <1>20, <1>21, <1>22, <1>23, <1>24, <1>25, <1>26,
     <1>27, <1>28, <1>29, <1>30, <1>31, <1>32, <1>33, <1>34, <1>35, <1>36, <1>37, <1>38, <1>39,
     <1>40, <1>41, Cases

\* An entry with an item is kept.
LEMMA KeptInvStep ==
    ASSUME Types, ListInv, Untouched, ItemInv, ClaimInv, CommittedInv, StepInv, AbandonsNothing,
         KeptInv, [Next]_vars
    PROVE  KeptInv'
<1> USE DEF Types, FilesType, ListType, RunType, Lock, ListInv, ItemInv, StepInv, ClaimInv,
     Untouched, AbandonsNothing, KeptInv, Records, Before
<1>1. CASE UNCHANGED vars BY <1>1, StaysCurrent DEF vars
<1>2. CASE AtWork /\ LookDelete
  BY <1>2, StaysCurrent DEF AtWork, LookDelete, Advance, Skip, Done, Goto, Captured, Mishap
<1>3. CASE AtWork /\ TakeLocal
  BY <1>3, StaysCurrent, NotTaken DEF AtWork, TakeLocal, Advance, Skip, Done, Goto, DeleteFails,
       Mishap
<1>4. CASE AtWork /\ TakeRemote
  BY <1>4, StaysCurrent, NotTaken DEF AtWork, TakeRemote, Advance, Skip, Done, Goto,
       DeleteFails, Mishap
<1>5. CASE AtWork /\ SaveCopied /\ StateAltered("PayloadReady")
  <2>1. AtWork BY <1>5
  <2>2. StateAltered("PayloadReady") BY <1>5
  <2> USE DEF AtWork, StateAltered
  <2>3. CASE Save(WithState("PayloadReady")) /\ Goto("claim") /\ UNCHANGED <<src, files, history>>
    BY <1>5, <2>1, <2>2, <2>3, StaysCurrent, NotTaken DEF SaveCopied, Save, Goto
  <2>4. CASE SaveFails(WithState("PayloadReady")) /\ Skip /\ UNCHANGED <<src, files, history>>
    BY <1>5, <2>1, <2>2, <2>4, NotTaken DEF SaveCopied, SaveFails, Skip, Advance
  <2>5. CASE /\ SaveFails(WithState("PayloadReady")) /\ Done /\ src[p] # None /\ payload[e] = None
             /\ candidate' = [candidate EXCEPT ![e] = None]
             /\ UNCHANGED <<src, payload, claim, staging, history>>
    BY <1>5, <2>1, <2>2, <2>5, NotTaken DEF SaveCopied, SaveFails, Done, Advance
  <2> QED BY <1>5, <2>3, <2>4, <2>5 DEF SaveCopied, DeleteFails
<1>6. CASE AtWork /\ ClaimSource
  BY <1>6, StaysCurrent, NotTaken DEF AtWork, ClaimSource, Advance, Skip, Done, Goto,
       DeleteFails, Mishap
<1>7. CASE AtWork /\ SaveClaimed /\ StateAltered("Claimed")
  BY <1>7, StaysCurrent DEF AtWork, StateAltered, SaveClaimed, Advance, Skip, Done, Goto,
       Persist, Mishap, Save, SaveFails
<1>8. CASE AtWork /\ Compare
  BY <1>8, StaysCurrent DEF AtWork, Compare, Advance, Skip, Done, Goto
<1>9. CASE AtWork /\ Publish
  BY <1>9, StaysCurrent DEF AtWork, Publish, Advance, Skip, Done, Goto, Mishap
<1>10. CASE AtWork /\ Verify
  BY <1>10, StaysCurrent DEF AtWork, Verify, Advance, Skip, Done, Goto, Match
<1>11. CASE AtWork /\ SaveVerified /\ StateAltered("PayloadVerified")
  BY <1>11, StaysCurrent DEF AtWork, StateAltered, SaveVerified, Advance, Skip, Done, Goto,
       Persist, Mishap, Save, SaveFails
<1>12. CASE AtWork /\ Clean /\ StateAltered("Ready")
  BY <1>12, StaysCurrent DEF AtWork, StateAltered, Clean, Advance, Skip, Done, Goto
<1>13. CASE AtWork /\ SaveReady /\ StateAltered("Ready")
  BY <1>13, StaysCurrent DEF AtWork, StateAltered, SaveReady, Advance, Skip, Done, Goto, Persist,
       Mishap, Save, SaveFails
<1>14. CASE AtWork /\ LookRestoring
  BY <1>14, StaysCurrent DEF AtWork, LookRestoring, Advance, Skip, Done, Goto, entry
<1>15. CASE AtWork /\ LookMoving /\ StateAltered("Claimed")
  BY <1>15, StaysCurrent DEF AtWork, StateAltered, LookMoving, Advance, Skip, Done, Goto, entry
<1>16. CASE AtWork /\ Tidy /\ StateAltered("Ready")
  BY <1>16, StaysCurrent DEF AtWork, StateAltered, Tidy, Advance, Skip, Done, Goto
<1>17. CASE AtWork /\ Unstage /\ RestoreAltered(None)
  BY <1>17, StaysCurrent DEF AtWork, RestoreAltered, Unstage, Advance, Skip, Done, Goto
<1>18. CASE AtWork /\ LookRestore /\ RestoreAltered("Preparing")
  BY <1>18, StaysCurrent DEF AtWork, RestoreAltered, LookRestore, Advance, Skip, Done, Goto,
       entry
<1>19. CASE AtWork /\ SavePreparing /\ RestoreAltered(None)
  BY <1>19, StaysCurrent DEF AtWork, RestoreAltered, SavePreparing, Advance, Skip, Done, Goto,
       Save, Mishap
<1>20. CASE AtWork /\ GiveBackLocal
  BY <1>20, StaysCurrent DEF AtWork, GiveBackLocal, Advance, Skip, Done, Goto, PutBack
<1>21. CASE AtWork /\ Stage
  BY <1>21, StaysCurrent DEF AtWork, Stage, Advance, Skip, Done, Goto
<1>22. CASE AtWork /\ CopyBack
  BY <1>22, StaysCurrent DEF AtWork, CopyBack, Advance, Skip, Done, Goto
<1>23. CASE AtWork /\ GiveBackRemote
  BY <1>23, StaysCurrent DEF AtWork, GiveBackRemote, Advance, Skip, Done, Goto, PutBack
<1>24. CASE AtWork /\ Occupied
  BY <1>24, StaysCurrent DEF AtWork, Occupied, Advance, Skip, Done, Goto
<1>25. CASE AtWork /\ Undo /\ RestoreAltered(None)
  BY <1>25, StaysCurrent DEF AtWork, RestoreAltered, Undo, Advance, Skip, Done, Goto
<1>26. CASE AtWork /\ SaveUndone
  BY <1>26, StaysCurrent DEF AtWork, SaveUndone, Advance, Skip, Done, Goto, Save, SaveFails,
       Mishap
<1>27. CASE AtWork /\ VerifyBack
  BY <1>27, StaysCurrent DEF AtWork, VerifyBack, Advance, Skip, Done, Goto, Match
<1>28. CASE AtWork /\ SaveCommitted /\ RestoreAltered("Committed")
  BY <1>28, StaysCurrent DEF AtWork, RestoreAltered, SaveCommitted, Advance, Skip, Done, Goto,
       Save, SaveFails, Mishap
<1>29. CASE AtWork /\ FinishBack
  BY <1>29, StaysCurrent DEF AtWork, FinishBack, Advance, Skip, Done, Goto
<1>30. CASE AtWork /\ ClearPayload
  BY <1>30, StaysCurrent DEF AtWork, ClearPayload, Advance, Skip, Done, Goto
<1>31. CASE AtWork /\ LookPurge
  BY <1>31, StaysCurrent DEF AtWork, LookPurge, Advance, Skip, Done, Goto, entry
<1>32. CASE Close BY <1>32 DEF Close, Idle, Mishap
<1>33. CASE CallFails
  <2>1. e \in todo /\ e \in Entries /\ Halfway BY <1>33, Current DEF CallFails, Types
  <2> QED
    BY <1>33, <2>1, HalfwayFiles, StaysCurrent DEF CallFails, Mishap, Advance, Skip, Done, Goto
<1>34. CASE Crash
  <2>1. CASE todo = {} BY <1>34, <2>1 DEF Crash, Idle
  <2>2. CASE todo # {}
    <3>1. e \in todo /\ e \in Entries /\ Halfway BY <1>34, <2>2, Current DEF Crash, Types
    <3> QED BY <1>34, <3>1, HalfwayFiles DEF Crash, Idle
  <2> QED BY <2>1, <2>2
<1>35. CASE Reconcile BY <1>35 DEF Reconcile, Open
<1>36. CASE \E q \in Paths : Write(q)
  BY <1>36, StaysCurrent DEF Write
<1>37. CASE \E q \in Paths : Discard(q)
  BY <1>37, StaysCurrent DEF Discard
<1>38. CASE \E x \in Entries : LateWrite(x)
  <2> PICK x \in Entries : LateWrite(x) BY <1>38
  <2>1. items + 1 \in Items BY NextItem DEF LateWrite, Types
  <2> QED BY <2>1, StaysCurrent, Distinct DEF LateWrite
<1>39. CASE \E batch \in Batches : Delete(batch)
  <2> PICK m : RecordsBatch(m) BY <1>39, Deleting
  <2> QED BY Distinct DEF RecordsBatch, IsNewManifest, Idle
<1>40. CASE \E S \in SUBSET Recorded : Restore(S) BY <1>40 DEF Restore, Open
<1>41. CASE \E S \in SUBSET Recorded : Purge(S) BY <1>41 DEF Purge, Open
<1> QED BY <1>1, <1>2, <1>3, <1>4, <1>5, <1>6, <1>7, <1>8, <1>9, <1>10, <1>11, <1>12, <1>13,
     <1>14, <1>15, <1>16, <1>17, <1>18, <1>19, <1>20, <1>21, <1>22, <1>23, <1>24, <1>25, <1>26,
     <1>27, <1>28, <1>29, <1>30, <1>31, <1>32, <1>33, <1>34, <1>35, <1>36, <1>37, <1>38, <1>39,
     <1>40, <1>41, Cases

----------------------------------------------------------------------------
\* The invariant holds at first.
LEMMA Initially == Init => Inv
<1> SUFFICES ASSUME Init PROVE Inv OBVIOUS
<1> USE DEF Init
<1>1. FilesType BY DEF FilesType, Kinds, Dirs
<1>2. ListType BY DEF ListType, Entry
<1>3. RunType /\ CountType BY TrashAssumption DEF TrashAssumption, RunType, CountType
<1>4. Lock BY DEF Lock, Steps, Before
<1>5. ListInv /\ Untouched BY DEF ListInv, Untouched
<1>6. ItemInv /\ ClaimInv /\ CommittedInv BY DEF ItemInv, ClaimInv, CommittedInv, Records
<1>7. StepInv BY DEF StepInv
<1>8. ClaimHides /\ RestoreAvoids /\ AbandonsNothing /\ KeptInv
  BY DEF ClaimHides, Hidden, RestoreAvoids, AbandonsNothing, KeptInv
<1> QED BY <1>1, <1>2, <1>3, <1>4, <1>5, <1>6, <1>7, <1>8 DEF Inv, Types

\* Every step keeps the invariant.
LEMMA InvStep ==
    ASSUME Inv, [Next]_vars
    PROVE  Inv'
<1> USE DEF Inv
<1>1. Types'
  BY FilesTypeStep, ListTypeStep, RunTypeStep, CountTypeStep, LockStep DEF Types
<1>2. ListInv' /\ Untouched' BY ListInvStep, UntouchedStep
<1>3. ItemInv' /\ ClaimInv' BY ItemInvStep, ClaimInvStep
<1>4. CommittedInv' /\ StepInv' BY CommittedInvStep, StepInvStep
<1>5. ClaimHides' /\ RestoreAvoids' BY ClaimHidesStep, RestoreAvoidsStep
<1>6. AbandonsNothing' /\ KeptInv' BY AbandonsNothingStep, KeptInvStep
<1> QED BY <1>1, <1>2, <1>3, <1>4, <1>5, <1>6

\* The invariant holds.
LEMMA Invariant == Spec => []Inv
BY Initially, InvStep, PTL DEF Spec

----------------------------------------------------------------------------
\* Every variable has its type, the list in memory exists only under the lock, and a section is
\* at its end exactly when it has no entry left to visit (trash_bin.rs, the manifest lock).
THEOREM TypeCorrect == Spec => []TypeOK
<1>1. Inv => TypeOK
  <2> SUFFICES ASSUME Inv PROVE TypeOK OBVIOUS
  <2>1. FilesType /\ ListType /\ RunType /\ CountType /\ Lock BY DEF Inv, Types
  <2>2. src \in [Paths -> Items \cup {None, Torn}]
        /\ {payload, claim, candidate, taken} \subseteq [Entries -> Items \cup {None, Torn}]
        /\ staging \in [Entries -> Items \cup {None, Torn, Bare, Marked}]
    BY <2>1 DEF FilesType, Kinds, Dirs
  <2>3. {manifest, mem} \subseteq [Entries -> TrashEntry \cup {None}]
    BY <2>1 DEF ListType, Entry
  <2>4. todo \cup drop \cup given \subseteq 1 .. used /\ used \in 0 .. MaxEntries
    BY <2>1 DEF RunType
  <2>5. items \in 0 .. MaxItems /\ mishaps \in 0 .. MaxMishaps BY <2>1 DEF CountType
  <2>6. /\ op = "idle" => at = "idle" /\ todo = {} /\ mem = [x \in Entries |-> None]
        /\ op # "idle" => (at = "close" <=> todo = {})
    BY <2>1 DEF Lock, ListType
  <2> QED BY <2>2, <2>3, <2>4, <2>5, <2>6 DEF TypeOK
<1> QED BY <1>1, Invariant, PTL

\* What the list offers for restoring is what was deleted, whole: through every crash, failed
\* call and late write, and however the move was finished (trash_bin.rs, the state Ready).
THEOREM ReadyItemsAreWhole == Spec => []ReadyIsWhole
<1>1. Inv => ReadyIsWhole
  <2> SUFFICES ASSUME Inv, NEW x \in Entries, manifest[x] # None,
                      manifest[x].state = "Ready", x \notin given
               PROVE  payload[x] = taken[x] /\ taken[x] # None
    BY DEF ReadyIsWhole
  <2>1. manifest[x] \in Records(x) BY DEF Records
  <2> QED BY <2>1 DEF Inv, ItemInv
<1> QED BY <1>1, Invariant, PTL

\* Nothing is lost: an item that left its path and was neither given back nor purged is recorded
\* on disk and stands in the store or in its claim, as long as nobody creates a file where a
\* claim is not recorded yet (trash_bin.rs, the order of claim, record, publish and clean-up).
THEOREM ItemsAreKept == ASSUME Recreates = FALSE PROVE Spec => []NothingIsLost
<1>1. Inv => NothingIsLost
  <2> SUFFICES ASSUME Inv, NEW x \in Entries, taken[x] # None, x \notin given
               PROVE  manifest[x] # None /\ taken[x] \in {payload[x], claim[x]}
    BY DEF NothingIsLost
  <2> QED BY DEF Inv, ItemInv, KeptInv
<1> QED BY <1>1, Invariant, PTL

\* The trash bin never destroys what stands at a user's path: it takes it, whole, for an entry of
\* that path, and never puts anything over it (rename_no_replace).
THEOREM PathsAreRespected == Spec => NothingIsOverwritten
<1>1. ASSUME Inv, [Next]_vars
      PROVE  [~User => \A q \in Paths : src[q] # None /\ src'[q] # src[q] =>
                /\ src'[q] = None
                /\ \E x \in Entries : taken[x] = None /\ taken'[x] = src[q]
                                    /\ manifest[x].path = q]_vars
  <2> SUFFICES ASSUME Next, ~User, NEW q \in Paths, src[q] # None, src'[q] # src[q]
               PROVE  /\ src'[q] = None
                      /\ \E x \in Entries : taken[x] = None /\ taken'[x] = src[q]
                                          /\ manifest[x].path = q
    BY <1>1
  <2> USE <1>1 DEF Inv, Types, FilesType
  <2>1. CASE TakeLocal \/ ClaimSource
    <3>1. at \in {"take", "claim"} BY <2>1 DEF TakeLocal, ClaimSource
    <3>2. op # "idle" /\ e \in todo /\ e \in Entries /\ mem[e] # None /\ p = mem[e].path /\ p \in Paths
      BY <3>1, Working DEF AtWork
    <3>3. taken[e] = None BY <3>1, NotTaken
    <3>4. manifest[e].path = p BY <3>2 DEF ListInv
    <3>5. /\ taken' = [taken EXCEPT ![e] = src[p]]
          /\ src' = [src EXCEPT ![p] = None]
      BY <2>1 DEF TakeLocal, ClaimSource
    <3> QED BY <3>2, <3>3, <3>4, <3>5
  <2>2. CASE GiveBackLocal \/ GiveBackRemote
    <3>1. src[p] = None /\ \E i : src' = [src EXCEPT ![p] = i]
      BY <2>2 DEF GiveBackLocal, GiveBackRemote, PutBack
    <3> QED BY <3>1
  <2>3. CASE UNCHANGED src BY <2>3
  <2>4. \/ UNCHANGED src \/ TakeLocal \/ ClaimSource \/ GiveBackLocal \/ GiveBackRemote
    BY DEF Next, Bin, Move, Recover, Return, Request, LookDelete, TakeRemote, SaveCopied,
       SaveClaimed, Persist, Compare, Publish, Verify, SaveVerified, Clean, SaveReady,
       LookRestoring, LookMoving, Tidy, Unstage, LookRestore, SavePreparing, Stage, CopyBack,
       Occupied, Undo, SaveUndone, VerifyBack, SaveCommitted, FinishBack, ClearPayload, Delete,
       Reconcile, Restore, Purge, Open, LookPurge, Close, CallFails, Crash
  <2> QED BY <2>1, <2>2, <2>3, <2>4
<1> QED BY <1>1, Invariant, PTL DEF Spec, NothingIsOverwritten

\* What a restore puts at the path is what was deleted from there (trash_bin.rs, commit_restore).
THEOREM RestoresAreExact == Spec => RestoreGivesBack
<1>1. ASSUME Inv, [Next]_vars
      PROVE  [\A x \in given' \ given : op = "restore" => src'[p] = taken[x] /\ x = e]_vars
  <2> SUFFICES ASSUME Next, NEW x \in given' \ given, op = "restore"
               PROVE  src'[p] = taken[x] /\ x = e
    BY <1>1
  <2> USE <1>1 DEF Inv, Types, FilesType
  <2>1. CASE GiveBackLocal \/ GiveBackRemote
    <3>1. at \in {"giveBack", "putBack"} BY <2>1 DEF GiveBackLocal, GiveBackRemote
    <3>2. todo # {} /\ e \in Entries /\ mem[e] # None /\ p \in Paths BY <3>1, Working DEF AtWork
    <3>3. x = e /\ e \notin given BY <2>1 DEF GiveBackLocal, GiveBackRemote, PutBack
    <3>4. mem[e].state = "Ready" /\ mem[e] \in Records(e) BY <3>1, <3>2 DEF StepInv, Records
    <3>5. payload[e] = taken[e] BY <3>2, <3>3, <3>4 DEF ItemInv
    <3>6. at = "putBack" => staging[e] = payload[e] BY <3>2 DEF StepInv
    <3>7. src' = [src EXCEPT ![p] = payload[e]]
      BY <2>1, <3>6 DEF GiveBackLocal, GiveBackRemote, PutBack
    <3> QED BY <3>2, <3>3, <3>5, <3>7
  <2>2. CASE VerifyBack
    <3>1. todo # {} BY <2>2, Working DEF VerifyBack
    <3>2. e \in given BY <2>2, <3>1 DEF VerifyBack, StepInv
    <3> QED BY <2>2, <3>2 DEF VerifyBack
  <2>3. CASE LookPurge BY <2>3 DEF LookPurge
  <2>4. \/ UNCHANGED given \/ GiveBackLocal \/ GiveBackRemote \/ VerifyBack \/ LookPurge
    BY DEF Next, Bin, User, Move, Recover, Return, Request, LookDelete, TakeLocal, TakeRemote,
       SaveCopied, ClaimSource, SaveClaimed, Persist, Compare, Publish, Verify, SaveVerified,
       Clean, SaveReady, LookRestoring, LookMoving, Tidy, Unstage, LookRestore, SavePreparing,
       Stage, CopyBack, Occupied, Undo, SaveUndone, SaveCommitted, FinishBack, ClearPayload,
       Delete, Reconcile, Restore, Purge, Open, Close, CallFails, Crash, Write, Discard, LateWrite
  <2> QED BY <2>1, <2>2, <2>3, <2>4
<1> QED BY <1>1, Invariant, PTL DEF Spec, RestoreGivesBack
=============================================================================
