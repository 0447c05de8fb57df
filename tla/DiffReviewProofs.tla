--------------------------- MODULE DiffReviewProofs ---------------------------
(***************************************************************************)
(* Proofs about the review of file changes, for any files, changes,        *)
(* versions and faults.                                                    *)
(*                                                                         *)
(* In any session the loads of a file begin in the order of its versions,  *)
(* each with a newer generation (LoadInv): an older version can be neither *)
(* the newest load nor what a newer one leaves behind (NewestInv), nor can *)
(* the projection of a restored record bring one back (PlanInv).  A load   *)
(* that a deletion has overtaken is superseded, or the file it was loaded  *)
(* for is gone from the disk (GoneInv).                                    *)
(*                                                                         *)
(* The rest is about calm sessions: who may be at work at the same time,   *)
(* and what a projection must not undo (QuietInv, PlanPart); that the      *)
(* newest version is shown or on its way (LostInv); that what a panel, a   *)
(* load or a projection holds is what record and snapshot have (KeptInv,   *)
(* PlanKept), which needs to know to which snapshots the records of a file *)
(* are tied (MarksInv) and that a whole-file diff is decided as a whole    *)
(* (WholeInv).                                                             *)
(***************************************************************************)
EXTENDS DiffReview, FiniteSetTheorems, WellFoundedInduction, TLAPS

USE DEF disks, panel, generations, counters

Marks == [Mods -> Statuses]
Readable == Texts \ {Missing}
Places == {"idle", "written", "yield", "record", "recorded", "probe", "clean", "commit"}
Operations == {"none", "accept", "reject", "acceptAll", "rejectAll"}
Shows == [ver : Slots, content : Readable, base : Readable, st : Marks, whole : BOOLEAN]
Snapshots == [content : Readable, base : Readable, st : Marks] \cup {NoSnapshot}
Loads == [pc : Places, gen : Nat, stale : SUBSET Docs, st : Marks, content : Readable]
Reviews == [pc : {"idle", "disk", "snapshot", "mark", "records", "leave"}, op : Operations,
            doc : Docs \cup {NoDoc}, content : Readable, st : Marks]
Deletions == [pc : {"idle", "deleted", "records"}, doc : Docs \cup {NoDoc}, upTo : Slots,
              before : SUBSET Versions]
Restores == [pc : {"idle", "mounted", "next"}, todo : SUBSET Versions, ver : Slots,
             gen : Nat, plan : Shows]

DiskTypes ==
    /\ disk \in [Docs -> Texts]
    /\ written \in Seq(Docs) /\ Len(written) <= MaxWrites
    /\ records \in [Versions -> [status : {"none", "pending", "applied", "reverted"}, st : Marks]]
    /\ newest \in [Docs -> Snapshots] /\ marks \in [Versions -> Snapshots]

PanelTypes ==
    /\ active \in Docs \cup {NoDoc} /\ top \in Shows /\ entries \in [Docs -> Shows]
    /\ mode \in {"normal", "diff"} /\ isLoading \in BOOLEAN

LoadTypes ==
    /\ gen \in [Docs -> Nat] /\ activeGen \in [Docs -> Nat] /\ deleted \in SUBSET Docs
    /\ loads \in [Slots -> Loads]
    /\ restore \in Restores /\ restore.todo \subseteq 1 .. Len(written)

DecisionTypes ==
    /\ review \in Reviews /\ (review.pc # "idle" => review.doc \in Docs)
    /\ deletion \in Deletions
    /\ deletion.pc # "idle" => deletion.doc \in Docs /\ deletion.upTo <= Len(written)

WorkTypes == LoadTypes /\ DecisionTypes

CounterTypes ==
    /\ deletes \in Nat /\ restarts \in Nat /\ session \in 0 .. Len(written)
    /\ goneAt \in [Docs -> Slots] /\ handledAt \in [Docs -> Slots] /\ calm \in BOOLEAN

Types == DiskTypes /\ PanelTypes /\ WorkTypes /\ CounterTypes

\* The diffs of the version and of those before it have come.
Begun(v) ==
    /\ v \in 1 .. Len(written)
    /\ \A w \in 1 .. v : written[w] = written[v] => loads[w].pc # "written"
Underway(i) == loads[i].pc \notin {"idle", "written"}

\* The panel shows versions of the file; what it keeps of the active one is of the same version.
ShownPart(d) ==
    /\ entries[d].ver = 0 => entries[d] = NoEntry
    /\ Shown(d).ver # 0 => Shown(d).ver <= Len(written) /\ written[Shown(d).ver] = d
PanelInv ==
    /\ active = NoDoc => top.ver = 0
    /\ active # NoDoc => top.ver # 0 /\ entries[active].ver = top.ver
                         /\ entries[active].whole = top.whole
    /\ \A d \in Docs : ShownPart(d)

\* The loads of a file begin in the order of its versions.
LoadPart(i) ==
    /\ loads[i].pc # "idle" => VersionOf(i) \in 1 .. Len(written)
    /\ Underway(i) =>
         /\ 1 <= loads[i].gen /\ loads[i].gen <= gen[DocOf(i)]
         /\ Begun(VersionOf(i))
         /\ \A v \in 1 .. VersionOf(i) - 1 :
              written[v] = DocOf(i) /\ Underway(v) => loads[v].gen < loads[i].gen
    /\ i # 0 /\ loads[i].pc # "idle" => loads[i].content = <<i, {}>>
LoadInv ==
    /\ \A i \in Slots : LoadPart(i)
    /\ loads[0].pc \in {"idle", "yield", "commit"}
    /\ loads[0].pc # "idle" <=> restore.ver # 0
    /\ restore.ver # 0 \/ restore.todo # {} => restore.pc = "next"

\* What has a record, or is to be restored, has begun.
RecordInv ==
    /\ \A v \in Versions : records[v].status # "none" => Begun(v)
    /\ \A v \in restore.todo : Begun(v)

\* An older version cannot be loaded over what is shown.
NewestPart(d) ==
    Shown(d).ver # 0 =>
        /\ Begun(Shown(d).ver)
        /\ \A v \in 1 .. Shown(d).ver - 1 : written[v] = d /\ Underway(v) => loads[v].gen < gen[d]
NewestInv == \A d \in Docs : NewestPart(d)

\* What is to be projected is a version that has begun, with the generation of its load or a
\* newer one behind it.
PlanInv ==
    restore.plan # NoEntry =>
        /\ restore.pc = "next" /\ Begun(restore.plan.ver)
        /\ restore.gen <= gen[written[restore.plan.ver]]
        /\ \A v \in 1 .. restore.plan.ver - 1 :
             written[v] = written[restore.plan.ver] /\ Underway(v) => loads[v].gen < restore.gen

\* Since the file was deleted it is still missing, or a newer version has been written.
Replaced(d, g) ==
    /\ g <= Len(written)
    /\ g # 0 => disk[d] = Missing \/ \E w \in g + 1 .. MaxWrites : disk[d] = <<w, {}>>

\* Nothing older than the deletion comes back: not in the panel, not by a load that is past its
\* preview, not from the records, unless they are about to be closed.
DeletedPart(d) == Replaced(d, goneAt[d]) /\ (goneAt[d] # 0 => d \in deleted)
ShownGonePart(d) == Shown(d).ver = 0 \/ Shown(d).ver > goneAt[d]
Passed(i) == loads[i].pc \in {"record", "recorded", "probe", "clean", "commit"}
LoadGonePart(i) == Passed(i) /\ ~Superseded(i) => VersionOf(i) > goneAt[DocOf(i)]
RecordsGonePart(d) ==
    \A v \in PendingRecords(d) : v <= goneAt[d] =>
        \/ deletion.pc = "records" /\ deletion.doc = d /\ v \in deletion.before
        \/ loads[v].pc = "recorded" /\ Superseded(v)
DeletionUnder == deletion.pc = "deleted" => Replaced(deletion.doc, deletion.upTo)
GoneInv ==
    /\ \A d \in Docs : DeletedPart(d) /\ ShownGonePart(d) /\ RecordsGonePart(d)
    /\ \A i \in Slots : LoadGonePart(i)
    /\ DeletionUnder

AnyInv == Types /\ PanelInv /\ LoadInv /\ RecordInv /\ NewestInv /\ PlanInv /\ GoneInv

\* In a calm session a load of the agent's is alone with other such loads, and the file it is
\* for is there; a decision is alone; a restore comes before anything new is written.
FreshPart(i) ==
    loads[i].pc # "idle" =>
        /\ review.pc = "idle" /\ loads[i].stale = {} /\ loads[i].pc # "clean"
        /\ disk[DocOf(i)] # Missing
        /\ Shown(DocOf(i)).ver # VersionOf(i)
        /\ i # 0 => restore.pc = "idle" /\ deletion.pc = "idle" /\ session < i
        /\ i = 0 => Shown(DocOf(0)).ver = 0 /\ (deletion.pc = "idle" \/ deletion.doc # DocOf(0))
TidyPart(d) == disk[d] = Missing => Shown(d).ver = 0 \/
    (deletion.pc = "deleted" /\ deletion.doc = d)
DeletionPart ==
    /\ deletion.pc = "deleted" => disk[deletion.doc] = Missing \/ Shown(deletion.doc).ver # 0
    /\ deletion.pc = "records" => deletion.doc \in deleted /\ Shown(deletion.doc).ver = 0
RestorePart ==
    /\ restore.pc # "idle" => session = Len(written)
    /\ restore.pc = "mounted" => \A d \in Docs : Shown(d).ver = 0
    /\ \A v \in restore.todo :
         /\ Shown(written[v]).ver = 0
         /\ written[v] \notin deleted => records[v].status = "pending"
         /\ \A w \in PendingRecords(written[v]) : w <= v
         /\ restore.ver # 0 => written[v] # written[restore.ver]
         /\ \A w \in restore.todo : written[w] = written[v] => w = v
ReviewPart ==
    review.pc # "idle" =>
        /\ Shown(review.doc).ver # 0 /\ Shown(review.doc).st = review.st
        /\ review.op # "acceptAll" => active = review.doc
        /\ review.op \in {"acceptAll", "rejectAll"} \/ review.pc = "leave" => Reviewed(review.st)
        /\ review.pc = "leave" => review.op = "accept"
\* What is to be projected has nobody else at its file, and nothing decided that it would undo.
Agrees(entry) == \A m \in Mods : entry.st[m] \in {"applied", "rejected"} =>
    restore.plan.st[m] = entry.st[m]
PlanPart ==
    restore.plan # NoEntry =>
        LET p == restore.plan.ver
            d == written[p]
        IN  /\ review.pc = "idle" /\ (deletion.pc = "idle" \/ deletion.doc # d)
            /\ \A v \in restore.todo : written[v] # d
            /\ restore.ver # 0 => written[restore.ver] = d
            /\ restore.ver = p /\ ~restore.plan.whole => Agrees(loads[0])
            /\ restore.ver = 0 /\ Shown(d).ver # 0 =>
                 ~Shown(d).whole /\ (Shown(d).ver = p /\ ~restore.plan.whole => Agrees(Shown(d)))
QuietInv ==
    /\ \A i \in Slots : FreshPart(i)
    /\ \A d \in Docs : TidyPart(d)
    /\ DeletionPart /\ RestorePart /\ ReviewPart /\ PlanPart

\* The newest version is shown, or on its way.
Newest(n) == \A w \in n + 1 .. Len(written) : written[w] # written[n]
Coming(n) ==
    /\ disk[written[n]] = <<n, {}>>
    /\ loads[n].pc = "written" \/ (Underway(n) /\ ~Superseded(n))
LostInv ==
    \A n \in 1 .. Len(written) :
        n > session /\ n > handledAt[written[n]] /\ Newest(n)
            => Shown(written[n]).ver = n \/ Coming(n)

\* What the panel shows, and what is about to be shown, has its record and what was decided.
Keeps(v, st) == records[v].status = "pending" /\ SavedStatuses(v) = st
Deciding(d) == review.pc \in {"disk", "snapshot", "mark", "records"} /\ review.doc = d
KeptPart(d) ==
    HasPending(Shown(d).st) =>
        /\ records[Shown(d).ver].status = "pending"
        /\ Deciding(d) \/ Shown(d).whole \/ SavedStatuses(Shown(d).ver) = Shown(d).st
LoadKept(i) == loads[i].pc \in {"recorded", "probe", "commit"} =>
    Keeps(VersionOf(i), loads[i].st)
PlanKept ==
    restore.plan # NoEntry /\ HasPending(restore.plan.st) =>
        /\ records[restore.plan.ver].status = "pending"
        /\ restore.plan.whole \/ SavedStatuses(restore.plan.ver) = restore.plan.st
KeptInv ==
    /\ \A d \in Docs : KeptPart(d)
    /\ \A i \in Slots : LoadKept(i)
    /\ loads[0].pc # "idle" => Keeps(restore.ver, loads[0].st)
    /\ \A i \in Versions : loads[i].pc # "idle" => loads[i].st = AllPending
    /\ PlanKept

\* The pending records of a file are tied to one snapshot, but for those written since; while a
\* load is under way, no record newer than its version is tied to any.
MarksAgree(v) == \A w \in PendingRecords(written[v]) :
    v \in PendingRecords(written[v]) /\ w <= v /\ marks[v] # NoSnapshot => marks[w] = marks[v]
LoadUnmarked(i) == loads[i].pc # "idle" =>
    \A v \in PendingRecords(written[i]) : i < v => marks[v] = NoSnapshot
ReviewMarks ==
    /\ review.pc = "mark" => newest[review.doc] # NoSnapshot /\ newest[review.doc].st = review.st
    /\ review.pc = "records" /\ review.op # "acceptAll" => \A v \in PendingRecords(review.doc) :
         marks[v] # NoSnapshot /\ marks[v].st = review.st
MarksInv ==
    /\ \A v \in 1 .. Len(written) : MarksAgree(v)
    /\ \A i \in Versions : LoadUnmarked(i)
    /\ ReviewMarks

\* The one change of a whole-file diff is decided as a whole.
OneChange(st) == \A m, n \in Mods : st[m] = st[n]
WholeInv ==
    /\ \A d \in Docs : Shown(d).whole => OneChange(Shown(d).st)
    /\ restore.plan.whole => OneChange(restore.plan.st)

CalmInv == calm => QuietInv /\ LostInv /\ KeptInv /\ MarksInv /\ WholeInv

Inv == AnyInv /\ CalmInv

-----------------------------------------------------------------------------
(* Texts, statuses and sets of versions *)

\* The sets of values have the values in them that the actions write.
LEMMA Values ==
    /\ Original \in Readable /\ Missing \in Texts /\ Readable \subseteq Texts /\ Original # Missing
    /\ NoChanges \in Marks /\ AllPending \in Marks /\ NoChanges # AllPending
    /\ 0 \in Slots /\ Slots = Versions \cup {0} /\ 0 \notin Versions
    /\ \A v \in Versions : <<v, {}>> \in Readable
    /\ Slots \subseteq Nat
    /\ NoDoc \notin Docs
<1>1. Mods # {} /\ MaxWrites \in Nat /\ NoDoc \notin Docs
  BY DiffReviewAssumption DEF DiffReviewAssumption
<1>2. Original # Missing BY <1>1 DEF Original, Missing
<1>3. NoChanges # AllPending
  <2>1. PICK m \in Mods : TRUE BY <1>1
  <2>2. NoChanges[m] = "none" /\ AllPending[m] = "pending" BY DEF NoChanges, AllPending
  <2> QED BY <2>2
<1>4. 0 \in Slots /\ Slots = Versions \cup {0} /\ 0 \notin Versions /\ Slots \subseteq Nat
  BY <1>1 DEF Slots, Versions
<1>5. \A v \in Versions : <<v, {}>> \in Readable BY <1>1, <1>4 DEF Readable, Missing, Texts
<1>6. Original \in Readable /\ Missing \in Texts /\ Readable \subseteq Texts
  BY <1>2, <1>4 DEF Readable, Texts, Original, Missing
<1>7. NoChanges \in Marks /\ AllPending \in Marks BY DEF NoChanges, AllPending, Marks, Statuses
<1> QED BY <1>1, <1>2, <1>3, <1>4, <1>5, <1>6, <1>7

\* The records at rest have their types.
LEMMA EmptyRecords ==
    /\ NoEntry \in Shows /\ NoEntry.ver = 0 /\ NoEntry.st = NoChanges /\ ~NoEntry.whole
    /\ NoLoad \in Loads /\ NoLoad.pc = "idle" /\ NoLoad.stale = {}
    /\ NoReview \in Reviews /\ NoReview.pc = "idle"
    /\ NoDeletion \in Deletions /\ NoDeletion.pc = "idle"
    /\ NoRestore \in Restores /\ NoRestore.pc = "idle" /\ NoRestore.ver = 0 /\ NoRestore.todo = {}
    /\ NoRestore.plan = NoEntry
BY Values DEF NoEntry, NoLoad, NoReview, NoDeletion, NoRestore, Shows, Loads, Reviews, Deletions,
   Restores, Places, Operations

\* Taking changes back gives a text that can be read.
LEMMA RebuildFacts ==
    ASSUME NEW base \in Readable, NEW v \in Slots, NEW r \in SUBSET Mods
    PROVE  Rebuild(base, v, r) \in Readable
BY Values DEF Rebuild, Texts, Missing, Readable

\* A snapshot that is taken can be read.
LEMMA SnapshotTypes ==
    ASSUME newest \in [Docs -> Snapshots], NEW d \in Docs, NEW content \in Readable,
           NEW st \in Marks, TakeSnapshot(d, content, st)
    PROVE  /\ newest' \in [Docs -> Snapshots]
           /\ newest'[d].st = st /\ newest'[d] # NoSnapshot
<1> DEFINE base == IF newest[d] = NoSnapshot THEN Original ELSE newest[d].content
           new == [content |-> content, base |-> base, st |-> st]
<1>1. base \in Readable BY Values DEF Snapshots
<1>2. newest' = [newest EXCEPT ![d] = new] BY DEF TakeSnapshot
<1>3. new \in Snapshots /\ new.st = st BY <1>1 DEF Snapshots
<1>4. new # NoSnapshot
  <2>1. new.content = content /\ NoSnapshot.content = Missing BY DEF NoSnapshot
  <2>2. content # Missing BY DEF Readable
  <2> QED BY <2>1, <2>2
<1> HIDE DEF new
<1> QED BY <1>2, <1>3, <1>4

\* A set of versions that is not empty has a latest one.
LEMMA LatestFacts ==
    ASSUME NEW n \in Nat, NEW S \in SUBSET (1 .. n), S # {}
    PROVE  Latest(S) \in S /\ \A w \in S : w <= Latest(S)
<1>1. IsWellFoundedOn(OpToRel(<, Nat), Nat) BY NatLessThanWellFounded
<1> DEFINE T == {n - v : v \in S}
<1>2. T \subseteq Nat /\ T # {}
  <2>1. \A v \in S : n - v \in Nat OBVIOUS
  <2> QED BY <2>1
<1>3. \E x \in T : \A y \in T : ~(<<y, x>> \in OpToRel(<, Nat)) BY <1>1, <1>2, WFMin
<1>4. PICK x \in T : \A y \in T : ~(y < x) BY <1>2, <1>3 DEF OpToRel
<1>5. PICK v \in S : x = n - v BY <1>4
<1>6. \A w \in S : w <= v
  <2> TAKE w \in S
  <2>1. n - w \in T OBVIOUS
  <2>2. ~(n - w < x) BY <1>4, <2>1
  <2> HIDE DEF T
  <2> QED BY <1>5, <2>2
<1> HIDE DEF T
<1> QED BY <1>6 DEF Latest

-----------------------------------------------------------------------------
(* Steps *)

\* The four ways a restore goes on: it is over, the next file was deleted, the next file is
\* missing, the next file is loaded.
RestoreWaits == Free /\ restore.pc = "next" /\ restore.ver = 0 /\ restore.plan = NoEntry
RestoreGoesOn(v) ==
    /\ RestoreWaits /\ v \in restore.todo
    /\ UNCHANGED <<disk, written, snapshots, active, top, entries, mode, deleted, review,
                   deletion, counters>>
RestoreEnds ==
    /\ RestoreWaits /\ restore' = NoRestore
    /\ UNCHANGED <<disks, panel, generations, loads, review, deletion, counters>>
RestoreSkips(v) ==
    /\ RestoreGoesOn(v) /\ written[v] \in deleted
    /\ restore' = [restore EXCEPT !.todo = @ \ {v}]
    /\ UNCHANGED <<records, isLoading, gen, activeGen, loads>>
RestoreCloses(v) ==
    /\ RestoreGoesOn(v) /\ written[v] \notin deleted /\ disk[written[v]] = Missing
    /\ restore' = [restore EXCEPT !.todo = @ \ {v}]
    /\ records' = Close({v}, "reverted")
    /\ UNCHANGED <<isLoading, gen, activeGen, loads>>
RestoredLoad(v) == [NoLoad EXCEPT !.st = SavedStatuses(v), !.content = RestoredText(v)]
RestoreStarts(v) ==
    /\ RestoreGoesOn(v) /\ written[v] \notin deleted /\ disk[written[v]] # Missing
    /\ StartLoad(0, written[v], RestoredLoad(v))
    /\ restore' = [restore EXCEPT !.todo = @ \ {v}, !.ver = v,
                                  !.gen = gen[written[v]] + 1, !.plan = Projection(v)]
    /\ UNCHANGED records

\* A step of the restore is one of the four ways.
LEMMA RestoreCases ==
    ASSUME RestoreNext
    PROVE  \/ RestoreEnds
           \/ \E v \in restore.todo : RestoreSkips(v) \/ RestoreCloses(v) \/ RestoreStarts(v)
<1>1. CASE restore.todo = {} /\ restore' = NoRestore /\
        UNCHANGED <<records, isLoading, gen, activeGen, loads>>
  BY <1>1 DEF RestoreNext, RestoreEnds, RestoreWaits
<1>2. ASSUME NEW v \in restore.todo,
             written[v] \in deleted \/ disk[written[v]] = Missing,
             restore' = [restore EXCEPT !.todo = @ \ {v}],
             records' = IF written[v] \in deleted THEN records ELSE Close({v}, "reverted"),
             UNCHANGED <<isLoading, gen, activeGen, loads>>
      PROVE  RestoreSkips(v) \/ RestoreCloses(v)
  BY <1>2 DEF RestoreNext, RestoreSkips, RestoreCloses, RestoreGoesOn, RestoreWaits
<1>3. ASSUME NEW v \in restore.todo,
             written[v] \notin deleted /\ disk[written[v]] # Missing,
             StartLoad(0, written[v], RestoredLoad(v)),
             restore' = [restore EXCEPT !.todo = @ \ {v}, !.ver = v,
                                        !.gen = gen[written[v]] + 1, !.plan = Projection(v)],
             UNCHANGED records
      PROVE  RestoreStarts(v)
  BY <1>3 DEF RestoreNext, RestoreStarts, RestoreGoesOn, RestoreWaits
<1> QED BY <1>1, <1>2, <1>3 DEF RestoreNext, RestoredLoad

-----------------------------------------------------------------------------
(* Types *)

\* What the panel shows of a file is a record of its.
LEMMA ShownTypes ==
    ASSUME PanelTypes
    PROVE  /\ \A d \in Docs : Shown(d) \in Shows
           /\ WithActive \in [Docs -> Shows]
           /\ \A d \in Docs : WithActive[d] = Shown(d)
BY DEF PanelTypes, Shown, WithActive

\* The active file, when there is something to review.
LEMMA ReviewedFile ==
    ASSUME Types, CanReview
    PROVE  /\ active \in Docs /\ review.pc = "idle"
           /\ \A st \in Marks : [top EXCEPT !.st = st] \in Shows
           /\ \A st \in Marks, c \in Readable : [top EXCEPT !.st = st, !.content = c] \in Shows
BY DEF Types, PanelTypes, CanReview, Shows

\* The marks that decisions leave.
LEMMA DecidedMarks ==
    ASSUME NEW st \in Marks, NEW v \in {"applied", "rejected"}
    PROVE  /\ [m \in Mods |-> IF st[m] = "pending" THEN v ELSE st[m]] \in Marks
           /\ Rejected(st) \in SUBSET Mods
           /\ st = top.st => \A m \in Mods : Decided(m, v) \in Marks
BY DEF Marks, Statuses, Rejected, Decided

\* The versions written are versions.
LEMMA WrittenVersions ==
    ASSUME Types
    PROVE  \A n \in 1 .. Len(written) : n \in Versions /\ n \in Slots /\ n \in Nat /\ n # 0 /\
        written[n] \in Docs
<1>1. Len(written) \in Nat /\ Len(written) <= MaxWrites /\ written \in Seq(Docs)
  BY DEF Types, DiskTypes
<1> QED BY <1>1, DiffReviewAssumption DEF DiffReviewAssumption, Versions, Slots

\* A slot that is at work is for a version.
LEMMA AtWork ==
    ASSUME Types, LoadInv, NEW i \in Slots, loads[i].pc # "idle"
    PROVE  /\ VersionOf(i) \in 1 .. Len(written) /\ VersionOf(i) \in Versions /\ DocOf(i) \in Docs
           /\ i # 0 => VersionOf(i) = i /\ i \in Versions
           /\ i = 0 => restore.pc = "next" /\ restore.ver # 0 /\ VersionOf(i) = restore.ver
<1>1. VersionOf(i) \in 1 .. Len(written) BY DEF LoadInv, LoadPart
<1>2. Len(written) \in Nat /\ Len(written) <= MaxWrites /\ written \in Seq(Docs)
  BY DEF Types, DiskTypes
<1>3. MaxWrites \in Nat BY DiffReviewAssumption DEF DiffReviewAssumption
<1>4. DocOf(i) \in Docs BY <1>1, <1>2 DEF DocOf
<1>5. i = 0 => restore.pc = "next" /\ restore.ver # 0 BY DEF LoadInv
<1> QED BY <1>1, <1>2, <1>3, <1>4, <1>5, Values DEF VersionOf, Versions

\* Leaving a file for the next keeps the types of the panel.
LEMMA MoveOnTypes ==
    ASSUME Types, NEW es \in [Docs -> Shows], NEW st \in Marks, NEW content \in Readable,
           MoveOn(es, st, content)
    PROVE  /\ active' \in Docs \cup {NoDoc} /\ top' \in Shows /\ entries' \in [Docs -> Shows]
           /\ mode' \in {"normal", "diff"}
<1>1. CASE \E d \in PendingElsewhere(es, active) : Activate(es, d) /\ UNCHANGED mode
  BY <1>1 DEF PendingElsewhere, Activate, Types, PanelTypes
<1>2. CASE top' = [top EXCEPT !.st = st, !.content = content] /\ entries' = es /\ mode' = "normal"
           /\ UNCHANGED active
  BY <1>2 DEF Types, PanelTypes, Shows
<1> QED BY <1>1, <1>2 DEF MoveOn

\* A load that starts, goes on or is over is a record of its kind, with the next generation.
LEMMA StartTypes ==
    ASSUME Types, NEW i \in Slots, NEW d \in Docs, NEW load \in Loads, StartLoad(i, d, load)
    PROVE  gen' \in [Docs -> Nat] /\ activeGen' \in [Docs -> Nat] /\ loads' \in [Slots -> Loads]
<1>1. gen[d] + 1 \in Nat BY DEF Types, WorkTypes, LoadTypes
<1>2. [load EXCEPT !.pc = "yield", !.gen = gen[d] + 1] \in Loads BY <1>1 DEF Loads, Places
<1> QED BY <1>1, <1>2 DEF StartLoad, Types, WorkTypes, LoadTypes

\* The types, when a load ends.
LEMMA FinishTypes ==
    ASSUME Types, NEW i \in Slots, Finish(i)
    PROVE  /\ activeGen' \in [Docs -> Nat] /\ loads' \in [Slots -> Loads]
           /\ restore' \in Restores /\ restore'.todo = restore.todo
           /\ restore'.pc = restore.pc /\ restore'.ver = (IF i = 0 THEN 0 ELSE restore.ver)
BY EmptyRecords, Values DEF Finish, Types, WorkTypes, LoadTypes, Restores

\* The types, when a load goes on.
LEMMA AdvanceTypes ==
    ASSUME Types, NEW i \in Slots, NEW to \in Places, Advance(i, to)
    PROVE  loads' \in [Slots -> Loads]
BY DEF Advance, Types, WorkTypes, LoadTypes, Loads

\* What a restore loads: the saved statuses and a text that can be read; and what it projects.
LEMMA RestoredTypes ==
    ASSUME Types, NEW v \in 1 .. Len(written), disk[written[v]] # Missing
    PROVE  /\ written[v] \in Docs /\ v \in Versions
           /\ SavedStatuses(v) \in Marks /\ RestoredLoad(v) \in Loads
           /\ RestoredLoad(v).st = SavedStatuses(v) /\ RestoredLoad(v).stale = {}
           /\ Projection(v) \in Shows
           /\ Projection(v) # NoEntry => Projection(v).ver \in {v} \cup PendingRecords(written[v])
<1>1. written[v] \in Docs /\ v \in Versions /\ v \in Slots
  BY DiffReviewAssumption, Values DEF DiffReviewAssumption, Types, DiskTypes, Versions
<1>2. marks[v] \in Snapshots /\ records[v].st \in Marks BY <1>1 DEF Types, DiskTypes
<1>3. marks[v].st \in Marks BY <1>2, Values DEF Snapshots, NoSnapshot
<1>4. SavedStatuses(v) \in Marks BY <1>2, <1>3, Values DEF SavedStatuses, Saved
<1>5. disk[written[v]] \in Readable BY <1>1 DEF Types, DiskTypes, Readable
<1>6. marks[v] # NoSnapshot => marks[v].content \in Readable /\ marks[v].base \in Readable
  BY <1>2 DEF Snapshots
<1>7. RestoredText(v) \in Readable
  <2> DEFINE shown == IF disk[written[v]] = Original THEN v ELSE disk[written[v]][1]
  <2>1. shown \in Slots BY <1>1, <1>5 DEF Readable, Texts
  <2>2. Rejected(SavedStatuses(v)) \in SUBSET Mods BY <1>4, DecidedMarks
  <2> HIDE DEF shown
  <2>3. Rebuild(Original, shown, Rejected(SavedStatuses(v))) \in Readable
    BY <2>1, <2>2, Values, RebuildFacts
  <2> QED BY <1>5, <1>6, <2>3 DEF RestoredText, shown
<1>8. /\ RestoredLoad(v) \in Loads
      /\ RestoredLoad(v).st = SavedStatuses(v) /\ RestoredLoad(v).stale = {}
  BY <1>4, <1>7, EmptyRecords DEF RestoredLoad, Loads
<1>9. CASE marks[v] = NoSnapshot BY <1>1, <1>4, <1>8, <1>9, EmptyRecords DEF Projection
<1>10. CASE marks[v] # NoSnapshot /\ marks[v].content[1] \in PendingRecords(written[v])
            /\ marks[v].content[2] = {}
  <2>1. Projection(v) = FromSource(marks[v]) BY <1>10 DEF Projection
  <2>2. marks[v].content[1] \in Slots BY <1>6, <1>10 DEF Readable, Texts
  <2>3. FromSource(marks[v]) \in Shows /\ FromSource(marks[v]).ver = marks[v].content[1]
    BY <1>3, <1>6, <1>10, <2>2, EmptyRecords DEF FromSource, Shows
  <2> QED BY <1>1, <1>4, <1>8, <1>10, <2>1, <2>3
<1>11. CASE marks[v] # NoSnapshot /\ ~(marks[v].content[1] \in PendingRecords(written[v])
                                      /\ marks[v].content[2] = {})
  <2>1. Projection(v) = FromSnapshots(v, marks[v]) BY <1>11 DEF Projection
  <2>2. FromSnapshots(v, marks[v]) \in Shows /\ FromSnapshots(v, marks[v]).ver = v
    BY <1>1, <1>6, <1>11, Values DEF FromSnapshots, Shows
  <2> QED BY <1>1, <1>4, <1>8, <2>1, <2>2
<1> QED BY <1>9, <1>10, <1>11

\* Every step keeps the types of the disk and of the records.
LEMMA DiskTypesStep ==
    ASSUME Types, LoadInv, [Next]_vars
    PROVE  DiskTypes'
<1>1. CASE UNCHANGED vars BY <1>1 DEF vars, Types, DiskTypes, snapshots
<1>2. ASSUME NEW d \in Docs, AgentWrites(d) PROVE DiskTypes'
  <2>1. Len(written) + 1 \in Versions
    BY <1>2, DiffReviewAssumption DEF DiffReviewAssumption, AgentWrites, Types, DiskTypes,
      snapshots, Versions
  <2>2. <<Len(written) + 1, {}>> \in Texts BY <2>1, Values
  <2>3. written' \in Seq(Docs) /\ Len(written') = Len(written) + 1
    BY <1>2 DEF AgentWrites, Types, DiskTypes, snapshots
  <2> QED BY <1>2, <2>1, <2>2, <2>3 DEF AgentWrites, Types, DiskTypes, snapshots, Versions
<1>3. ASSUME NEW d \in Docs, UserDeletes(d) PROVE DiskTypes'
  <2> QED BY <1>3, Values DEF UserDeletes, Types, DiskTypes, snapshots
<1>4. ASSUME NEW i \in Slots, DiffArrives(i) PROVE DiskTypes'
  BY <1>4 DEF DiffArrives, StartLoad, Types, DiskTypes, snapshots
<1>5. ASSUME NEW i \in Slots, GiveUp(i) PROVE DiskTypes'
  BY <1>5 DEF GiveUp, Step, Finish, Types, DiskTypes, snapshots
<1>6. ASSUME NEW i \in Slots, LoadFails(i) PROVE DiskTypes'
  BY <1>6 DEF LoadFails, Step, Finish, Types, DiskTypes, snapshots
<1>7. ASSUME NEW i \in Slots, CancelDeleted(i) PROVE DiskTypes'
  BY <1>7 DEF CancelDeleted, Step, Finish, Types, DiskTypes, snapshots
<1>8. ASSUME NEW i \in Slots, Previewed(i) PROVE DiskTypes'
  <2>1. UNCHANGED <<disk, written, records, marks>> BY <1>8 DEF Previewed
  <2>2. newest' \in [Docs -> Snapshots]
    <3>1. CASE UNCHANGED newest BY <3>1 DEF Types, DiskTypes
    <3>2. CASE TakeSnapshot(DocOf(i), loads[i].content, AllPending)
      <4>1. DocOf(i) \in Docs BY <1>8, AtWork DEF Previewed, Step
      <4>2. loads[i].content \in Readable BY DEF Types, WorkTypes, LoadTypes, Loads
      <4> QED BY <3>2, <4>1, <4>2, SnapshotTypes, Values DEF Types, DiskTypes
    <3> QED BY <1>8, <3>1, <3>2 DEF Previewed
  <2> QED BY <2>1, <2>2 DEF Types, DiskTypes
<1>9. ASSUME NEW i \in Slots, CreateRecord(i) PROVE DiskTypes'
  <2>1. NoSnapshot \in Snapshots BY DEF Snapshots
  <2> QED BY <1>9, <2>1, Values DEF CreateRecord, Types, DiskTypes
<1>10. ASSUME NEW i \in Slots, RecordCreated(i) PROVE DiskTypes'
  BY <1>10 DEF RecordCreated, Step, Finish, Advance, Withdraw, Types, DiskTypes, snapshots, Close
<1>11. ASSUME NEW i \in Slots, Probe(i) PROVE DiskTypes'
  BY <1>11 DEF Probe, Step, Types, DiskTypes, snapshots, Close
<1>12. ASSUME NEW i \in Slots, Commit(i) PROVE DiskTypes'
  BY <1>12 DEF Commit, Step, Finish, Activate, Types, DiskTypes, snapshots
<1>13. ASSUME NEW m \in Mods, Accept(m) PROVE DiskTypes'
  BY <1>13 DEF Accept, Rest, Types, DiskTypes, snapshots
<1>14. ASSUME NEW m \in Mods, Reject(m) PROVE DiskTypes'
  BY <1>14 DEF Reject, Rest, Types, DiskTypes, snapshots
<1>15. CASE AcceptAll BY <1>15 DEF AcceptAll, Rest, MoveOn, Activate, Types, DiskTypes, snapshots
<1>16. CASE RejectAll BY <1>16 DEF RejectAll, Rest, Types, DiskTypes, snapshots
<1>17. ASSUME NEW d \in Docs, SelectFile(d) PROVE DiskTypes'
  BY <1>17 DEF SelectFile, Activate, Types, DiskTypes, snapshots
<1>18. CASE ToggleMode BY <1>18 DEF ToggleMode, Activate, Types, DiskTypes, snapshots
<1>19. CASE ReviewDisk
  <2>1. review.content \in Texts BY Values DEF Types, WorkTypes, DecisionTypes, Reviews
  <2> QED BY <1>19, <2>1 DEF ReviewDisk, Types, DiskTypes, snapshots
<1>20. CASE ReviewRecords
  <2>1. review.st \in Marks BY DEF Types, WorkTypes, DecisionTypes, Reviews
  <2> QED BY <1>20, <2>1 DEF ReviewRecords, Close, Types, DiskTypes, snapshots
<1>21. CASE AcceptLeaves BY <1>21 DEF AcceptLeaves, MoveOn, Activate, Types, DiskTypes, snapshots
<1>22. CASE Discard BY <1>22 DEF Discard, Types, DiskTypes, snapshots
<1>23. CASE DiscardRecords BY <1>23 DEF DiscardRecords, Types, DiskTypes, snapshots, Close
<1>24. CASE BeginRestore BY <1>24 DEF BeginRestore, Types, DiskTypes, snapshots
<1>25. CASE RestoreEnds BY <1>25 DEF RestoreEnds, Types, DiskTypes, snapshots
<1>26. ASSUME NEW v \in restore.todo, RestoreSkips(v) PROVE DiskTypes'
  BY <1>26 DEF RestoreSkips, RestoreGoesOn, Types, DiskTypes, snapshots
<1>27. ASSUME NEW v \in restore.todo, RestoreCloses(v) PROVE DiskTypes'
  BY <1>27 DEF RestoreCloses, RestoreGoesOn, Types, DiskTypes, snapshots, Close
<1>28. ASSUME NEW v \in restore.todo, RestoreStarts(v) PROVE DiskTypes'
  BY <1>28 DEF RestoreStarts, RestoreGoesOn, StartLoad, Types, DiskTypes, snapshots
<1>29. CASE Restart BY <1>29 DEF Restart, Types, DiskTypes, snapshots
<1>30. ASSUME NEW i \in Slots, CloseStale(i) PROVE DiskTypes'
  BY <1>30 DEF CloseStale, Step, Advance, Close, Types, DiskTypes, snapshots
<1>31. CASE ReviewSnapshot
  <2>1. review.content \in Readable /\ review.st \in Marks /\ review.doc \in Docs
    BY <1>31 DEF ReviewSnapshot, Types, WorkTypes, DecisionTypes, Reviews
  <2>2. TakeSnapshot(review.doc, review.content, review.st)
        /\ UNCHANGED <<disk, written, records, marks>>
    BY <1>31 DEF ReviewSnapshot
  <2>3. newest' \in [Docs -> Snapshots] BY <2>1, <2>2, SnapshotTypes DEF Types, DiskTypes
  <2> QED BY <2>2, <2>3 DEF Types, DiskTypes
<1>32. CASE ReviewMark
  <2>1. review.doc \in Docs BY <1>32 DEF ReviewMark, Types, WorkTypes, DecisionTypes
  <2> QED BY <1>32, <2>1 DEF ReviewMark, Types, DiskTypes
<1>33. CASE Project BY <1>33 DEF Project, Types, DiskTypes, snapshots
<1> QED BY <1>1, <1>2, <1>3, <1>4, <1>5, <1>6, <1>7, <1>8, <1>9, <1>10, <1>11, <1>12, <1>13,
     <1>14, <1>15, <1>16, <1>17, <1>18, <1>19, <1>20, <1>21, <1>22, <1>23, <1>24, <1>25, <1>26,
     <1>27, <1>28, <1>29, <1>30, <1>31, <1>32, <1>33, RestoreCases DEF Next, LoadStep, Decide,
     ReviewStep, DeletionStep, RestoreStep

\* Every step keeps the types of the panel.
LEMMA PanelTypesStep ==
    ASSUME Types, LoadInv, [Next]_vars
    PROVE  PanelTypes'
<1>1. CASE UNCHANGED vars BY <1>1 DEF vars, Types, PanelTypes
<1>2. ASSUME NEW d \in Docs, AgentWrites(d) PROVE PanelTypes'
  BY <1>2 DEF AgentWrites, Types, PanelTypes
<1>3. ASSUME NEW d \in Docs, UserDeletes(d) PROVE PanelTypes'
  BY <1>3 DEF UserDeletes, Types, PanelTypes
<1>4. ASSUME NEW i \in Slots, DiffArrives(i) PROVE PanelTypes'
  BY <1>4 DEF DiffArrives, StartLoad, Types, PanelTypes
<1>5. ASSUME NEW i \in Slots, GiveUp(i) PROVE PanelTypes'
  BY <1>5 DEF GiveUp, Step, Finish, Types, PanelTypes
<1>6. ASSUME NEW i \in Slots, LoadFails(i) PROVE PanelTypes'
  BY <1>6 DEF LoadFails, Step, Finish, Types, PanelTypes, OtherLoads
<1>7. ASSUME NEW i \in Slots, CancelDeleted(i) PROVE PanelTypes'
  BY <1>7 DEF CancelDeleted, Step, Finish, Types, PanelTypes, OtherLoads
<1>8. ASSUME NEW i \in Slots, Previewed(i) PROVE PanelTypes'
  BY <1>8 DEF Previewed, Step, Advance, Types, PanelTypes
<1>9. ASSUME NEW i \in Slots, CreateRecord(i) PROVE PanelTypes'
  BY <1>9 DEF CreateRecord, Step, Advance, Types, PanelTypes
<1>10. ASSUME NEW i \in Slots, RecordCreated(i) PROVE PanelTypes'
  BY <1>10 DEF RecordCreated, Step, Finish, Advance, Withdraw, Types, PanelTypes
<1>11. ASSUME NEW i \in Slots, Probe(i) PROVE PanelTypes'
  BY <1>11 DEF Probe, Step, Types, PanelTypes
<1>12. ASSUME NEW i \in Slots, Commit(i) PROVE PanelTypes'
  <2>1. VersionOf(i) \in Slots /\ DocOf(i) \in Docs BY <1>12, AtWork, Values DEF Commit, Step
  <2>2. loads[i] \in Loads BY DEF Types, WorkTypes, LoadTypes
  <2>3. [NoEntry EXCEPT !.ver = VersionOf(i), !.content = loads[i].content, !.st = loads[i].st]
          \in Shows
    BY <2>1, <2>2, EmptyRecords DEF Shows, Loads
  <2> QED
    BY <1>12, <2>1, <2>3, ShownTypes, EmptyRecords DEF Commit, Activate, OtherLoads, Types,
       PanelTypes
<1>13. ASSUME NEW m \in Mods, Accept(m) PROVE PanelTypes'
  <2>1. CanReview /\ top.st \in Marks BY <1>13 DEF Accept, Types, PanelTypes, Shows
  <2>2. top' \in Shows BY <1>13, <2>1, ReviewedFile, DecidedMarks DEF Accept
  <2> QED BY <1>13, <2>2 DEF Accept, Types, PanelTypes
<1>14. ASSUME NEW m \in Mods, Reject(m) PROVE PanelTypes'
  <2>1. CanReview /\ top.st \in Marks /\ top.ver \in Slots /\ top.base \in Readable
    BY <1>14 DEF Reject, Types, PanelTypes, Shows
  <2> DEFINE st == Decided(m, "rejected")
  <2>2. st \in Marks /\ Rejected(st) \in SUBSET Mods BY <2>1, DecidedMarks
  <2>3. Rebuild(top.base, top.ver, Rejected(st)) \in Readable BY <2>1, <2>2, RebuildFacts
  <2>4. top' = [top EXCEPT !.st = st, !.content = Rebuild(top.base, top.ver, Rejected(st))]
    BY <1>14 DEF Reject
  <2> HIDE DEF st
  <2>5. top' \in Shows BY <2>1, <2>2, <2>3, <2>4, ReviewedFile
  <2> QED BY <1>14, <2>5 DEF Reject, Types, PanelTypes
<1>15. CASE AcceptAll
  <2>1. CanReview /\ top.st \in Marks /\ top.content \in Readable
    BY <1>15 DEF AcceptAll, Types, PanelTypes, Shows
  <2> DEFINE st == [m \in Mods |-> IF top.st[m] = "pending" THEN "applied" ELSE top.st[m]]
             es == [entries EXCEPT ![active] = [top EXCEPT !.st = st]]
  <2>2. st \in Marks BY <2>1, DecidedMarks
  <2>3. MoveOn(es, st, top.content) /\ UNCHANGED isLoading BY <1>15 DEF AcceptAll
  <2> HIDE DEF st
  <2>4. es \in [Docs -> Shows] BY <2>1, <2>2, ReviewedFile DEF Types, PanelTypes
  <2> HIDE DEF es
  <2> QED BY <2>1, <2>2, <2>3, <2>4, MoveOnTypes DEF Types, PanelTypes
<1>16. CASE RejectAll
  <2>1. CanReview /\ top.st \in Marks /\ top.base \in Readable
    BY <1>16 DEF RejectAll, Types, PanelTypes, Shows
  <2>2. top' \in Shows BY <1>16, <2>1, ReviewedFile, DecidedMarks DEF RejectAll
  <2> QED BY <1>16, <2>2 DEF RejectAll, Types, PanelTypes
<1>17. ASSUME NEW d \in Docs, SelectFile(d) PROVE PanelTypes'
  <2> QED BY <1>17, ShownTypes DEF SelectFile, Activate, Types, PanelTypes
<1>18. CASE ToggleMode
  <2> QED BY <1>18 DEF ToggleMode, Activate, PendingElsewhere, Types, PanelTypes
<1>19. CASE ReviewDisk BY <1>19 DEF ReviewDisk, Types, PanelTypes
<1>20. CASE ReviewRecords BY <1>20 DEF ReviewRecords, Types, PanelTypes
<1>21. CASE AcceptLeaves
  <2> DEFINE es == [d \in Docs |-> IF d = active /\ entries[d] # NoEntry
                                   THEN [entries[d] EXCEPT !.st = review.st] ELSE entries[d]]
  <2>1. review.st \in Marks /\ top.content \in Readable
    BY DEF Types, PanelTypes, WorkTypes, DecisionTypes, Reviews, Shows
  <2>2. es \in [Docs -> Shows] BY <2>1 DEF Types, PanelTypes, Shows
  <2>3. MoveOn(es, review.st, top.content) /\ UNCHANGED isLoading BY <1>21 DEF AcceptLeaves
  <2> HIDE DEF es
  <2> QED BY <2>1, <2>2, <2>3, MoveOnTypes DEF Types, PanelTypes
<1>22. CASE Discard
  <2> DEFINE es == [WithActive EXCEPT ![deletion.doc] = NoEntry]
  <2>1. es \in [Docs -> Shows] BY ShownTypes, EmptyRecords DEF Types
  <2>2. /\ entries' \in {entries, es}
        /\ \/ active' = active /\ top' = top
           \/ active' = NoDoc /\ top' = NoEntry
           \/ active' \in Docs /\ top' = es[active']
        /\ mode' \in {"normal", mode}
    <3>1. \/ /\ entries' = (IF entries[deletion.doc] = NoEntry THEN entries ELSE es)
             /\ UNCHANGED <<active, top, mode>>
          \/ /\ \E e \in PendingElsewhere(es, deletion.doc) : Activate(es, e)
             /\ UNCHANGED mode
          \/ active' = NoDoc /\ top' = NoEntry /\ entries' = es /\ mode' = "normal"
      BY <1>22, Zenon DEF Discard
    <3> HIDE DEF es
    <3>2. ASSUME NEW e \in PendingElsewhere(es, deletion.doc), Activate(es, e)
          PROVE  entries' = es /\ active' \in Docs /\ top' = es[active']
      BY <3>2 DEF Activate, PendingElsewhere
    <3> QED BY <3>1, <3>2
  <2>3. isLoading' \in BOOLEAN BY <1>22 DEF Discard, OtherLoads, Types, PanelTypes
  <2> HIDE DEF es
  <2> QED BY <2>1, <2>2, <2>3, EmptyRecords DEF Types, PanelTypes
<1>23. CASE DiscardRecords BY <1>23 DEF DiscardRecords, Types, PanelTypes
<1>24. CASE BeginRestore BY <1>24 DEF BeginRestore, Types, PanelTypes
<1>25. CASE RestoreEnds BY <1>25 DEF RestoreEnds, Types, PanelTypes
<1>26. ASSUME NEW v \in restore.todo, RestoreSkips(v) PROVE PanelTypes'
  BY <1>26 DEF RestoreSkips, RestoreGoesOn, Types, PanelTypes
<1>27. ASSUME NEW v \in restore.todo, RestoreCloses(v) PROVE PanelTypes'
  BY <1>27 DEF RestoreCloses, RestoreGoesOn, Types, PanelTypes
<1>28. ASSUME NEW v \in restore.todo, RestoreStarts(v) PROVE PanelTypes'
  BY <1>28 DEF RestoreStarts, RestoreGoesOn, StartLoad, Types, PanelTypes
<1>29. CASE Restart
  <2> QED BY <1>29, EmptyRecords DEF Restart, PanelTypes
<1>30. ASSUME NEW i \in Slots, CloseStale(i) PROVE PanelTypes'
  BY <1>30 DEF CloseStale, Step, Advance, Close, Types, PanelTypes
<1>31. CASE ReviewSnapshot
  BY <1>31 DEF ReviewSnapshot, Types, PanelTypes
<1>32. CASE ReviewMark
  BY <1>32 DEF ReviewMark, Types, PanelTypes
<1>33. CASE Project
  <2>1. CASE UNCHANGED <<top, entries, mode>> BY <1>33, <2>1 DEF Project, Types, PanelTypes
  <2>2. CASE RestoreCurrent /\ ~UNCHANGED <<top, entries, mode>>
    <3>1. restore.plan \in Shows BY DEF Types, WorkTypes, LoadTypes, Restores
    <3>2. PICK st \in {restore.plan.st, NoChanges} :
            /\ top' = [restore.plan EXCEPT !.st = st]
            /\ mode' = IF st = NoChanges THEN "normal" ELSE mode
            /\ entries' = [entries EXCEPT ![active] = top']
      BY <1>33, <2>2 DEF Project
    <3>3. st \in Marks BY <3>1, <3>2, Values DEF Shows
    <3>4. top' \in Shows BY <3>1, <3>2, <3>3 DEF Shows
    <3>5. entries' \in [Docs -> Shows] BY <3>2, <3>4 DEF Types, PanelTypes
    <3> QED BY <1>33, <3>2, <3>4, <3>5 DEF Project, Types, PanelTypes
  <2> QED BY <1>33, <2>1, <2>2 DEF Project
<1> QED BY <1>1, <1>2, <1>3, <1>4, <1>5, <1>6, <1>7, <1>8, <1>9, <1>10, <1>11, <1>12, <1>13,
     <1>14, <1>15, <1>16, <1>17, <1>18, <1>19, <1>20, <1>21, <1>22, <1>23, <1>24, <1>25, <1>26,
     <1>27, <1>28, <1>29, <1>30, <1>31, <1>32, <1>33, RestoreCases DEF Next, LoadStep, Decide,
     ReviewStep, DeletionStep, RestoreStep

\* Every step keeps the types of the loads and of the restore.
LEMMA LoadTypesStep ==
    ASSUME Types, LoadInv, [Next]_vars
    PROVE  LoadTypes'
<1>1. CASE UNCHANGED vars BY <1>1 DEF vars, Types, DiskTypes, WorkTypes, LoadTypes
<1>2. ASSUME NEW d \in Docs, AgentWrites(d) PROVE LoadTypes'
  <2>1. Len(written) + 1 \in Versions
    BY <1>2, DiffReviewAssumption DEF DiffReviewAssumption, AgentWrites, Types, DiskTypes, Versions
  <2>2. Len(written') = Len(written) + 1 BY <1>2 DEF AgentWrites, Types, DiskTypes
  <2>3. [NoLoad EXCEPT !.pc = "written", !.st = AllPending,
          !.content = <<Len(written) + 1, {}>>] \in Loads
    BY <2>1, Values, EmptyRecords DEF Loads, Places
  <2>4. loads' \in [Slots -> Loads]
    BY <1>2, <2>1, <2>3, Values DEF AgentWrites, Types, WorkTypes, LoadTypes
  <2>5. restore.todo \subseteq 1 .. Len(written') BY <2>2 DEF Types, DiskTypes, WorkTypes, LoadTypes
  <2> QED BY <1>2, <2>4, <2>5 DEF AgentWrites, Types, WorkTypes, LoadTypes
<1>3. ASSUME NEW d \in Docs, UserDeletes(d) PROVE LoadTypes'
  BY <1>3 DEF UserDeletes, Types, DiskTypes, WorkTypes, LoadTypes
<1>4. ASSUME NEW i \in Slots, DiffArrives(i) PROVE LoadTypes'
  <2>1. i # 0 /\ loads[i].pc # "idle" BY <1>4 DEF DiffArrives
  <2>2. written[i] \in Docs BY <2>1, AtWork DEF DocOf
  <2>3. loads[i] \in Loads BY DEF Types, WorkTypes, LoadTypes
  <2>4. StartLoad(i, written[i], loads[i]) /\ UNCHANGED <<written, deleted, restore>>
    BY <1>4 DEF DiffArrives
  <2> QED BY <2>2, <2>3, <2>4, StartTypes DEF Types, DiskTypes, WorkTypes, LoadTypes
<1>5. ASSUME NEW i \in Slots, GiveUp(i) PROVE LoadTypes'
  <2>1. Finish(i) /\ UNCHANGED <<written, gen, deleted>> BY <1>5 DEF GiveUp
  <2> QED BY <2>1, FinishTypes DEF Types, DiskTypes, WorkTypes, LoadTypes
<1>6. ASSUME NEW i \in Slots, LoadFails(i) PROVE LoadTypes'
  <2>1. Finish(i) /\ UNCHANGED <<written, gen, deleted>> BY <1>6 DEF LoadFails
  <2> QED BY <2>1, FinishTypes DEF Types, DiskTypes, WorkTypes, LoadTypes
<1>7. ASSUME NEW i \in Slots, CancelDeleted(i) PROVE LoadTypes'
  <2>1. Finish(i) /\ UNCHANGED <<written, gen, deleted>> BY <1>7 DEF CancelDeleted
  <2> QED BY <2>1, FinishTypes DEF Types, DiskTypes, WorkTypes, LoadTypes
<1>8. ASSUME NEW i \in Slots, Previewed(i) PROVE LoadTypes'
  <2>1. PICK to \in {"commit", "record"} : Advance(i, to) BY <1>8 DEF Previewed
  <2>2. UNCHANGED <<written, generations, restore>> BY <1>8 DEF Previewed
  <2> QED BY <2>1, <2>2, AdvanceTypes DEF Types, DiskTypes, WorkTypes, LoadTypes, Places
<1>9. ASSUME NEW i \in Slots, CreateRecord(i) PROVE LoadTypes'
  <2>1. Advance(i, "recorded") /\ UNCHANGED <<written, generations, restore>>
    BY <1>9 DEF CreateRecord
  <2> QED BY <2>1, AdvanceTypes DEF Types, DiskTypes, WorkTypes, LoadTypes, Places
<1>10. ASSUME NEW i \in Slots, RecordCreated(i) PROVE LoadTypes'
  <2>1. CASE Superseded(i)
    <3>1. Finish(i) /\ UNCHANGED <<written, gen, deleted>> BY <1>10, <2>1 DEF RecordCreated
    <3> QED BY <3>1, FinishTypes DEF Types, DiskTypes, WorkTypes, LoadTypes
  <2>2. CASE ~Superseded(i)
    <3>1. Advance(i, "probe") /\ UNCHANGED <<written, generations, restore>>
      BY <1>10, <2>2 DEF RecordCreated
    <3> QED BY <3>1, AdvanceTypes DEF Types, DiskTypes, WorkTypes, LoadTypes, Places
  <2> QED BY <2>1, <2>2
<1>11. ASSUME NEW i \in Slots, Probe(i) PROVE LoadTypes'
  <2>1. StaleEntries(i) \in SUBSET Docs BY DEF StaleEntries
  <2>2. loads' \in [Slots -> Loads]
    <3>1. loads \in [Slots -> Loads] /\ loads[i] \in Loads BY DEF Types, WorkTypes, LoadTypes
    <3>2. PICK pc \in Places : loads' = [loads EXCEPT ![i].pc = pc, ![i].stale = StaleEntries(i)]
      BY <1>11 DEF Probe, Places
    <3>3. [loads[i] EXCEPT !.pc = pc, !.stale = StaleEntries(i)] \in Loads
      BY <2>1, <3>1 DEF Loads
    <3> QED BY <3>1, <3>2, <3>3
  <2> QED BY <1>11, <2>2 DEF Probe, Types, DiskTypes, WorkTypes, LoadTypes
<1>12. ASSUME NEW i \in Slots, Commit(i) PROVE LoadTypes'
  <2>1. Finish(i) /\ UNCHANGED <<written, gen, deleted>> BY <1>12 DEF Commit
  <2> QED BY <2>1, FinishTypes DEF Types, DiskTypes, WorkTypes, LoadTypes
<1>13. ASSUME NEW m \in Mods, Accept(m) PROVE LoadTypes'
  BY <1>13 DEF Accept, Rest, Types, DiskTypes, WorkTypes, LoadTypes
<1>14. ASSUME NEW m \in Mods, Reject(m) PROVE LoadTypes'
  BY <1>14 DEF Reject, Rest, Types, DiskTypes, WorkTypes, LoadTypes
<1>15. CASE AcceptAll
  BY <1>15 DEF AcceptAll, Rest, MoveOn, Activate, Types, DiskTypes, WorkTypes, LoadTypes
<1>16. CASE RejectAll BY <1>16 DEF RejectAll, Rest, Types, DiskTypes, WorkTypes, LoadTypes
<1>17. ASSUME NEW d \in Docs, SelectFile(d) PROVE LoadTypes'
  BY <1>17 DEF SelectFile, Activate, Types, DiskTypes, WorkTypes, LoadTypes
<1>18. CASE ToggleMode BY <1>18 DEF ToggleMode, Activate, Types, DiskTypes, WorkTypes, LoadTypes
<1>19. CASE ReviewDisk BY <1>19 DEF ReviewDisk, Types, DiskTypes, WorkTypes, LoadTypes
<1>20. CASE ReviewRecords BY <1>20 DEF ReviewRecords, Types, DiskTypes, WorkTypes, LoadTypes
<1>21. CASE AcceptLeaves
  BY <1>21 DEF AcceptLeaves, MoveOn, Activate, Types, DiskTypes, WorkTypes, LoadTypes
<1>22. CASE Discard
  <2>1. deletion.doc \in Docs BY <1>22 DEF Discard, Types, WorkTypes, DecisionTypes
  <2>2. gen' \in [Docs -> Nat]
    BY <1>22, <2>1 DEF Discard, NextGeneration, Types, WorkTypes, LoadTypes
  <2>3. deleted' = deleted \cup {deletion.doc} /\ UNCHANGED <<activeGen, loads, restore, written>>
    BY <1>22 DEF Discard
  <2> QED BY <2>1, <2>2, <2>3 DEF Types, WorkTypes, LoadTypes
<1>23. CASE DiscardRecords BY <1>23 DEF DiscardRecords, Types, DiskTypes, WorkTypes, LoadTypes
<1>24. CASE BeginRestore
  <2>1. Len(written) \in Nat /\ Len(written) <= MaxWrites BY DEF Types, DiskTypes
  <2> DEFINE T == {Latest(PendingRecords(d)) : d \in {e \in Docs : PendingRecords(e) # {}}}
  <2>2. T \subseteq 1 .. Len(written)
    <3>1. \A d \in Docs : PendingRecords(d) \in SUBSET (1 .. Len(written)) BY DEF PendingRecords
    <3>2. \A d \in Docs : PendingRecords(d) # {} => Latest(PendingRecords(d)) \in 1 .. Len(written)
      BY <2>1, <3>1, LatestFacts
    <3> QED BY <3>2
  <2>3. T \subseteq Versions BY <2>1, <2>2, DiffReviewAssumption DEF DiffReviewAssumption, Versions
  <2>4. restore' \in {NoRestore, [NoRestore EXCEPT !.pc = "next", !.todo = T]}
    BY <1>24 DEF BeginRestore
  <2> HIDE DEF T
  <2>5. restore' \in Restores /\ restore'.todo \subseteq 1 .. Len(written)
    <3>1. CASE restore' = NoRestore BY <3>1, EmptyRecords
    <3>2. CASE restore' = [NoRestore EXCEPT !.pc = "next", !.todo = T]
      BY <2>2, <2>3, <3>2, EmptyRecords DEF Restores
    <3> QED BY <2>4, <3>1, <3>2
  <2> QED BY <1>24, <2>5 DEF BeginRestore, Types, WorkTypes, LoadTypes
<1>25. CASE RestoreEnds
  <2> QED BY <1>25, EmptyRecords DEF RestoreEnds, Types, WorkTypes, LoadTypes
<1>26. ASSUME NEW v \in restore.todo, RestoreSkips(v) PROVE LoadTypes'
  <2>1. restore' \in Restores /\ restore'.todo \subseteq 1 .. Len(written)
    BY <1>26, Values DEF RestoreSkips, RestoreGoesOn, Types, WorkTypes, LoadTypes, Restores
  <2> QED BY <1>26, <2>1 DEF RestoreSkips, RestoreGoesOn, Types, WorkTypes, LoadTypes
<1>27. ASSUME NEW v \in restore.todo, RestoreCloses(v) PROVE LoadTypes'
  <2>1. restore' \in Restores /\ restore'.todo \subseteq 1 .. Len(written)
    BY <1>27, Values DEF RestoreCloses, RestoreGoesOn, Types, WorkTypes, LoadTypes, Restores
  <2> QED BY <1>27, <2>1 DEF RestoreCloses, RestoreGoesOn, Types, WorkTypes, LoadTypes
<1>28. ASSUME NEW v \in restore.todo, RestoreStarts(v) PROVE LoadTypes'
  <2>1. v \in 1 .. Len(written) /\ v \in Slots /\ written[v] \in Docs
        /\ disk[written[v]] # Missing
    BY <1>28, Values DEF RestoreStarts, Types, DiskTypes, WorkTypes, LoadTypes, Restores
  <2>2. RestoredLoad(v) \in Loads /\ Projection(v) \in Shows BY <2>1, RestoredTypes
  <2>3. gen[written[v]] + 1 \in Nat BY <2>1 DEF Types, WorkTypes, LoadTypes
  <2>4. restore' \in Restores /\ restore'.todo \subseteq 1 .. Len(written)
    BY <1>28, <2>1, <2>2, <2>3 DEF RestoreStarts, Types, WorkTypes, LoadTypes, Restores
  <2>5. StartLoad(0, written[v], RestoredLoad(v)) /\ UNCHANGED <<written, deleted>>
    BY <1>28 DEF RestoreStarts, RestoreGoesOn
  <2> QED BY <2>1, <2>2, <2>4, <2>5, StartTypes, Values DEF Types, WorkTypes, LoadTypes
<1>29. CASE Restart
  <2> QED BY <1>29, EmptyRecords DEF Restart, Types, WorkTypes, LoadTypes, Restores
<1>30. ASSUME NEW i \in Slots, CloseStale(i) PROVE LoadTypes'
  <2>1. Advance(i, "commit") /\ UNCHANGED <<written, generations, restore>>
    BY <1>30 DEF CloseStale
  <2> QED BY <2>1, AdvanceTypes DEF Types, DiskTypes, WorkTypes, LoadTypes, Places
<1>31. CASE ReviewSnapshot
  BY <1>31 DEF ReviewSnapshot, Types, DiskTypes, WorkTypes, LoadTypes
<1>32. CASE ReviewMark
  BY <1>32 DEF ReviewMark, Types, DiskTypes, WorkTypes, LoadTypes
<1>33. CASE Project
  <2>1. restore' = [restore EXCEPT !.gen = 0, !.plan = NoEntry]
        /\ UNCHANGED <<written, generations, loads>>
    BY <1>33 DEF Project
  <2>2. restore' \in Restores /\ restore'.todo = restore.todo
    BY <2>1, EmptyRecords DEF Types, WorkTypes, LoadTypes, Restores
  <2> QED BY <2>1, <2>2 DEF Types, WorkTypes, LoadTypes
<1> QED BY <1>1, <1>2, <1>3, <1>4, <1>5, <1>6, <1>7, <1>8, <1>9, <1>10, <1>11, <1>12, <1>13,
     <1>14, <1>15, <1>16, <1>17, <1>18, <1>19, <1>20, <1>21, <1>22, <1>23, <1>24, <1>25, <1>26,
     <1>27, <1>28, <1>29, <1>30, <1>31, <1>32, <1>33, RestoreCases DEF Next, LoadStep, Decide,
     ReviewStep, DeletionStep, RestoreStep

\* Every step keeps the types of decisions and deletions.
LEMMA DecisionTypesStep ==
    ASSUME Types, LoadInv, [Next]_vars
    PROVE  DecisionTypes'
<1>1. CASE UNCHANGED vars BY <1>1 DEF vars, Types, DiskTypes, WorkTypes, DecisionTypes
<1>2. ASSUME NEW d \in Docs, AgentWrites(d) PROVE DecisionTypes'
  <2>1. Len(written') = Len(written) + 1 /\ Len(written) \in Nat
    BY <1>2 DEF AgentWrites, Types, DiskTypes
  <2> QED BY <1>2, <2>1, Values DEF AgentWrites, Types, WorkTypes, DecisionTypes, Deletions
<1>3. ASSUME NEW d \in Docs, UserDeletes(d) PROVE DecisionTypes'
  <2>1. Len(written) \in Slots
    BY DiffReviewAssumption DEF DiffReviewAssumption, Types, DiskTypes, Slots
  <2>2. deletion' \in Deletions BY <1>3, <2>1, EmptyRecords DEF UserDeletes, Deletions
  <2> QED
    BY <1>3, <2>1, <2>2, EmptyRecords, Values DEF UserDeletes, Types, WorkTypes, DecisionTypes,
       Deletions, NoDeletion
<1>4. ASSUME NEW i \in Slots, DiffArrives(i) PROVE DecisionTypes'
  BY <1>4 DEF DiffArrives, StartLoad, Types, DiskTypes, WorkTypes, DecisionTypes
<1>5. ASSUME NEW i \in Slots, GiveUp(i) PROVE DecisionTypes'
  BY <1>5 DEF GiveUp, Step, Finish, Types, DiskTypes, WorkTypes, DecisionTypes
<1>6. ASSUME NEW i \in Slots, LoadFails(i) PROVE DecisionTypes'
  BY <1>6 DEF LoadFails, Step, Finish, Types, DiskTypes, WorkTypes, DecisionTypes
<1>7. ASSUME NEW i \in Slots, CancelDeleted(i) PROVE DecisionTypes'
  BY <1>7 DEF CancelDeleted, Step, Finish, Types, DiskTypes, WorkTypes, DecisionTypes
<1>8. ASSUME NEW i \in Slots, Previewed(i) PROVE DecisionTypes'
  BY <1>8 DEF Previewed, Step, Advance, Types, DiskTypes, WorkTypes, DecisionTypes
<1>9. ASSUME NEW i \in Slots, CreateRecord(i) PROVE DecisionTypes'
  BY <1>9 DEF CreateRecord, Step, Advance, Types, DiskTypes, WorkTypes, DecisionTypes
<1>10. ASSUME NEW i \in Slots, RecordCreated(i) PROVE DecisionTypes'
  BY <1>10 DEF RecordCreated, Step, Finish, Advance, Withdraw, Types, DiskTypes, WorkTypes,
       DecisionTypes
<1>11. ASSUME NEW i \in Slots, Probe(i) PROVE DecisionTypes'
  BY <1>11 DEF Probe, Step, Types, DiskTypes, WorkTypes, DecisionTypes
<1>12. ASSUME NEW i \in Slots, Commit(i) PROVE DecisionTypes'
  BY <1>12 DEF Commit, Step, Finish, Activate, Types, DiskTypes, WorkTypes, DecisionTypes
<1>13. ASSUME NEW m \in Mods, Accept(m) PROVE DecisionTypes'
  <2>1. CanReview BY <1>13 DEF Accept
  <2>2. active \in Docs BY <2>1, ReviewedFile
  <2>3. review' \in Reviews /\ review'.doc = active
    <3>1. top.st \in Marks /\ top.content \in Readable /\ top.base \in Readable /\ top.ver \in Slots
      BY DEF Types, PanelTypes, Shows
    <3> DEFINE st == Decided(m, "applied")
    <3>2. st \in Marks /\ Rejected(st) \in SUBSET Mods BY <3>1, DecidedMarks
    <3>3. review' = [pc |-> "disk", op |-> "accept", doc |-> active, content |-> top.content,
                     st |-> st]
      BY <1>13 DEF Accept, Rest
    <3> HIDE DEF st
    <3>4. top.content \in Readable BY <3>1, <3>2, RebuildFacts
    <3> QED BY <2>2, <3>2, <3>3, <3>4 DEF Reviews, Operations
  <2> QED BY <1>13, <2>2, <2>3 DEF Accept, Types, DiskTypes, WorkTypes, DecisionTypes
<1>14. ASSUME NEW m \in Mods, Reject(m) PROVE DecisionTypes'
  <2>1. CanReview BY <1>14 DEF Reject
  <2>2. active \in Docs BY <2>1, ReviewedFile
  <2>3. review' \in Reviews /\ review'.doc = active
    <3>1. top.st \in Marks /\ top.content \in Readable /\ top.base \in Readable /\ top.ver \in Slots
      BY DEF Types, PanelTypes, Shows
    <3> DEFINE st == Decided(m, "rejected")
    <3>2. st \in Marks /\ Rejected(st) \in SUBSET Mods BY <3>1, DecidedMarks
    <3>3. review' = [pc |-> "disk", op |-> "reject", doc |-> active,
            content |-> Rebuild(top.base, top.ver, Rejected(st)), st |-> st]
      BY <1>14 DEF Reject, Rest
    <3> HIDE DEF st
    <3>4. Rebuild(top.base, top.ver, Rejected(st)) \in Readable BY <3>1, <3>2, RebuildFacts
    <3> QED BY <2>2, <3>2, <3>3, <3>4 DEF Reviews, Operations
  <2> QED BY <1>14, <2>2, <2>3 DEF Reject, Types, DiskTypes, WorkTypes, DecisionTypes
<1>15. CASE AcceptAll
  <2>1. CanReview BY <1>15 DEF AcceptAll
  <2>2. active \in Docs BY <2>1, ReviewedFile
  <2>3. review' \in Reviews /\ review'.doc = active
    <3>1. top.st \in Marks /\ top.content \in Readable /\ top.ver \in Slots
      BY DEF Types, PanelTypes, Shows
    <3> DEFINE st == [m \in Mods |-> IF top.st[m] = "pending" THEN "applied" ELSE top.st[m]]
    <3>2. st \in Marks /\ Rejected(st) \in SUBSET Mods BY <3>1, DecidedMarks
    <3>3. review' = [pc |-> "disk", op |-> "acceptAll", doc |-> active, content |-> top.content,
            st |-> st]
      BY <1>15 DEF AcceptAll, Rest
    <3> HIDE DEF st
    <3>4. top.content \in Readable BY <3>1, <3>2, Values, RebuildFacts
    <3> QED BY <2>2, <3>2, <3>3, <3>4 DEF Reviews, Operations
  <2> QED BY <1>15, <2>2, <2>3 DEF AcceptAll, Types, DiskTypes, WorkTypes, DecisionTypes
<1>16. CASE RejectAll
  <2>1. CanReview BY <1>16 DEF RejectAll
  <2>2. active \in Docs BY <2>1, ReviewedFile
  <2>3. review' \in Reviews /\ review'.doc = active
    <3>1. top.st \in Marks /\ top.content \in Readable /\ top.base \in Readable
      BY DEF Types, PanelTypes, Shows
    <3> DEFINE st == [m \in Mods |-> IF top.st[m] = "pending" THEN "rejected" ELSE top.st[m]]
    <3>2. st \in Marks /\ Rejected(st) \in SUBSET Mods BY <3>1, DecidedMarks
    <3>3. review' = [pc |-> "disk", op |-> "rejectAll", doc |-> active, content |-> top.base,
            st |-> st]
      BY <1>16 DEF RejectAll, Rest
    <3> HIDE DEF st
    <3>4. top.base \in Readable BY <3>1
    <3> QED BY <2>2, <3>2, <3>3, <3>4 DEF Reviews, Operations
  <2> QED BY <1>16, <2>2, <2>3 DEF RejectAll, Types, DiskTypes, WorkTypes, DecisionTypes
<1>17. ASSUME NEW d \in Docs, SelectFile(d) PROVE DecisionTypes'
  BY <1>17 DEF SelectFile, Activate, Types, DiskTypes, WorkTypes, DecisionTypes
<1>18. CASE ToggleMode
  BY <1>18 DEF ToggleMode, Activate, Types, DiskTypes, WorkTypes, DecisionTypes
<1>19. CASE ReviewDisk
  <2>1. review' \in Reviews /\ review'.doc = review.doc
    BY <1>19 DEF ReviewDisk, Types, WorkTypes, DecisionTypes, Reviews
  <2>2. deletion' \in Deletions /\ deletion'.doc = deletion.doc /\ deletion'.pc = deletion.pc
        /\ deletion'.upTo \in {0, deletion.upTo}
    BY <1>19, Values DEF ReviewDisk, Types, WorkTypes, DecisionTypes, Deletions
  <2>3. Len(written) \in Nat /\ written' = written BY <1>19 DEF ReviewDisk, Types, DiskTypes
  <2> QED BY <1>19, <2>1, <2>2, <2>3 DEF ReviewDisk, Types, WorkTypes, DecisionTypes
<1>20. CASE ReviewRecords
  <2>1. review' \in {NoReview, [review EXCEPT !.pc = "leave"]} BY <1>20 DEF ReviewRecords
  <2>2. [review EXCEPT !.pc = "leave"] \in Reviews BY DEF Types, WorkTypes, DecisionTypes, Reviews
  <2>3. review' \in Reviews /\ (review'.pc # "idle" => review'.doc \in Docs)
    BY <1>20, <2>1, <2>2, EmptyRecords DEF ReviewRecords, Types, WorkTypes, DecisionTypes, Reviews
  <2> QED BY <1>20, <2>3 DEF ReviewRecords, Types, WorkTypes, DecisionTypes
<1>21. CASE AcceptLeaves
  <2> QED BY <1>21, EmptyRecords DEF AcceptLeaves, Types, WorkTypes, DecisionTypes
<1>22. CASE Discard
  <2>1. {v \in Versions : records[v].status # "none"} \in SUBSET Versions OBVIOUS
  <2> QED BY <1>22, <2>1 DEF Discard, Types, WorkTypes, DecisionTypes, Deletions
<1>23. CASE DiscardRecords
  <2> QED BY <1>23, EmptyRecords DEF DiscardRecords, Types, WorkTypes, DecisionTypes
<1>24. CASE BeginRestore BY <1>24 DEF BeginRestore, Types, DiskTypes, WorkTypes, DecisionTypes
<1>25. CASE RestoreEnds BY <1>25 DEF RestoreEnds, Types, DiskTypes, WorkTypes, DecisionTypes
<1>26. ASSUME NEW v \in restore.todo, RestoreSkips(v) PROVE DecisionTypes'
  BY <1>26 DEF RestoreSkips, RestoreGoesOn, Types, DiskTypes, WorkTypes, DecisionTypes
<1>27. ASSUME NEW v \in restore.todo, RestoreCloses(v) PROVE DecisionTypes'
  BY <1>27 DEF RestoreCloses, RestoreGoesOn, Types, DiskTypes, WorkTypes, DecisionTypes
<1>28. ASSUME NEW v \in restore.todo, RestoreStarts(v) PROVE DecisionTypes'
  BY <1>28 DEF RestoreStarts, RestoreGoesOn, StartLoad, Types, DiskTypes, WorkTypes,
       DecisionTypes
<1>29. CASE Restart
  <2> QED BY <1>29, EmptyRecords DEF Restart, WorkTypes, DecisionTypes
<1>30. ASSUME NEW i \in Slots, CloseStale(i) PROVE DecisionTypes'
  BY <1>30 DEF CloseStale, Step, Advance, Close, Types, DiskTypes, WorkTypes, DecisionTypes
<1>31. CASE ReviewSnapshot
  <2>1. review' \in {[review EXCEPT !.pc = "records"], [review EXCEPT !.pc = "mark"]}
        /\ review.doc \in Docs /\ UNCHANGED <<written, deletion>>
    BY <1>31 DEF ReviewSnapshot, Types, WorkTypes, DecisionTypes
  <2>2. review' \in Reviews /\ review'.doc = review.doc
    BY <2>1 DEF Types, WorkTypes, DecisionTypes, Reviews
  <2> QED BY <2>1, <2>2 DEF Types, WorkTypes, DecisionTypes
<1>32. CASE ReviewMark
  <2>1. review' = [review EXCEPT !.pc = "records"] /\ review.doc \in Docs
        /\ UNCHANGED <<written, deletion>>
    BY <1>32 DEF ReviewMark, Types, WorkTypes, DecisionTypes
  <2>2. review' \in Reviews /\ review'.doc = review.doc
    BY <2>1 DEF Types, WorkTypes, DecisionTypes, Reviews
  <2> QED BY <2>1, <2>2 DEF Types, WorkTypes, DecisionTypes
<1>33. CASE Project
  BY <1>33 DEF Project, Types, DiskTypes, WorkTypes, DecisionTypes
<1> QED BY <1>1, <1>2, <1>3, <1>4, <1>5, <1>6, <1>7, <1>8, <1>9, <1>10, <1>11, <1>12, <1>13,
     <1>14, <1>15, <1>16, <1>17, <1>18, <1>19, <1>20, <1>21, <1>22, <1>23, <1>24, <1>25, <1>26,
     <1>27, <1>28, <1>29, <1>30, <1>31, <1>32, <1>33, RestoreCases DEF Next, LoadStep, Decide,
     ReviewStep, DeletionStep, RestoreStep

\* Every step keeps the types of the counters.
LEMMA CounterTypesStep ==
    ASSUME Types, LoadInv, [Next]_vars
    PROVE  CounterTypes'
<1>1. CASE UNCHANGED vars BY <1>1 DEF vars, Types, DiskTypes, CounterTypes
<1>2. ASSUME NEW d \in Docs, AgentWrites(d) PROVE CounterTypes'
  <2>1. Len(written') = Len(written) + 1 /\ Len(written) \in Nat
    BY <1>2 DEF AgentWrites, Types, DiskTypes
  <2> QED BY <1>2, <2>1 DEF AgentWrites, Types, CounterTypes
<1>3. ASSUME NEW d \in Docs, UserDeletes(d) PROVE CounterTypes'
  BY <1>3 DEF UserDeletes, Types, DiskTypes, CounterTypes
<1>4. ASSUME NEW i \in Slots, DiffArrives(i) PROVE CounterTypes'
  BY <1>4 DEF DiffArrives, StartLoad, Types, DiskTypes, CounterTypes
<1>5. ASSUME NEW i \in Slots, GiveUp(i) PROVE CounterTypes'
  BY <1>5 DEF GiveUp, Step, Finish, Types, DiskTypes, CounterTypes
<1>6. ASSUME NEW i \in Slots, LoadFails(i) PROVE CounterTypes'
  BY <1>6 DEF LoadFails, Step, Finish, Types, DiskTypes, CounterTypes
<1>7. ASSUME NEW i \in Slots, CancelDeleted(i) PROVE CounterTypes'
  BY <1>7 DEF CancelDeleted, Step, Finish, Types, DiskTypes, CounterTypes
<1>8. ASSUME NEW i \in Slots, Previewed(i) PROVE CounterTypes'
  BY <1>8 DEF Previewed, Step, Advance, Types, DiskTypes, CounterTypes
<1>9. ASSUME NEW i \in Slots, CreateRecord(i) PROVE CounterTypes'
  BY <1>9 DEF CreateRecord, Step, Advance, Types, DiskTypes, CounterTypes
<1>10. ASSUME NEW i \in Slots, RecordCreated(i) PROVE CounterTypes'
  BY <1>10 DEF RecordCreated, Step, Finish, Advance, Withdraw, Types, DiskTypes, CounterTypes
<1>11. ASSUME NEW i \in Slots, Probe(i) PROVE CounterTypes'
  BY <1>11 DEF Probe, Step, Types, DiskTypes, CounterTypes
<1>12. ASSUME NEW i \in Slots, Commit(i) PROVE CounterTypes'
  BY <1>12 DEF Commit, Step, Finish, Activate, Types, DiskTypes, CounterTypes
<1>13. ASSUME NEW m \in Mods, Accept(m) PROVE CounterTypes'
  BY <1>13 DEF Accept, Rest, Types, DiskTypes, CounterTypes
<1>14. ASSUME NEW m \in Mods, Reject(m) PROVE CounterTypes'
  BY <1>14 DEF Reject, Rest, Types, DiskTypes, CounterTypes
<1>15. CASE AcceptAll
  BY <1>15 DEF AcceptAll, Rest, MoveOn, Activate, Types, DiskTypes, CounterTypes
<1>16. CASE RejectAll BY <1>16 DEF RejectAll, Rest, Types, DiskTypes, CounterTypes
<1>17. ASSUME NEW d \in Docs, SelectFile(d) PROVE CounterTypes'
  BY <1>17 DEF SelectFile, Activate, Types, DiskTypes, CounterTypes
<1>18. CASE ToggleMode BY <1>18 DEF ToggleMode, Activate, Types, DiskTypes, CounterTypes
<1>19. CASE ReviewDisk
  <2> QED BY <1>19, Values DEF ReviewDisk, Types, DiskTypes, CounterTypes
<1>20. CASE ReviewRecords BY <1>20 DEF ReviewRecords, Types, DiskTypes, CounterTypes
<1>21. CASE AcceptLeaves
  BY <1>21 DEF AcceptLeaves, MoveOn, Activate, Types, DiskTypes, CounterTypes
<1>22. CASE Discard
  <2>1. Len(written) \in Slots /\ deletion.upTo \in Slots
    BY DiffReviewAssumption DEF DiffReviewAssumption, Types, DiskTypes, WorkTypes, DecisionTypes,
       Deletions, Slots
  <2> QED BY <1>22, <2>1 DEF Discard, Types, DiskTypes, CounterTypes
<1>23. CASE DiscardRecords BY <1>23 DEF DiscardRecords, Types, DiskTypes, CounterTypes
<1>24. CASE BeginRestore BY <1>24 DEF BeginRestore, Types, DiskTypes, CounterTypes
<1>25. CASE RestoreEnds BY <1>25 DEF RestoreEnds, Types, DiskTypes, CounterTypes
<1>26. ASSUME NEW v \in restore.todo, RestoreSkips(v) PROVE CounterTypes'
  BY <1>26 DEF RestoreSkips, RestoreGoesOn, Types, DiskTypes, CounterTypes
<1>27. ASSUME NEW v \in restore.todo, RestoreCloses(v) PROVE CounterTypes'
  BY <1>27 DEF RestoreCloses, RestoreGoesOn, Types, DiskTypes, CounterTypes
<1>28. ASSUME NEW v \in restore.todo, RestoreStarts(v) PROVE CounterTypes'
  BY <1>28 DEF RestoreStarts, RestoreGoesOn, StartLoad, Types, DiskTypes, CounterTypes
<1>29. CASE Restart
  <2> QED BY <1>29, Values DEF Restart, Types, DiskTypes, CounterTypes
<1>30. ASSUME NEW i \in Slots, CloseStale(i) PROVE CounterTypes'
  BY <1>30 DEF CloseStale, Step, Advance, Close, Types, DiskTypes, CounterTypes
<1>31. CASE ReviewSnapshot
  BY <1>31 DEF ReviewSnapshot, Types, DiskTypes, CounterTypes
<1>32. CASE ReviewMark
  BY <1>32 DEF ReviewMark, Types, DiskTypes, CounterTypes
<1>33. CASE Project
  BY <1>33 DEF Project, Types, DiskTypes, CounterTypes
<1> QED BY <1>1, <1>2, <1>3, <1>4, <1>5, <1>6, <1>7, <1>8, <1>9, <1>10, <1>11, <1>12, <1>13,
     <1>14, <1>15, <1>16, <1>17, <1>18, <1>19, <1>20, <1>21, <1>22, <1>23, <1>24, <1>25, <1>26,
     <1>27, <1>28, <1>29, <1>30, <1>31, <1>32, <1>33, RestoreCases DEF Next, LoadStep, Decide,
     ReviewStep, DeletionStep, RestoreStep

\* Every step keeps the types.
LEMMA TypesStep ==
    ASSUME Types, LoadInv, [Next]_vars
    PROVE  Types'
BY DiskTypesStep, PanelTypesStep, LoadTypesStep, DecisionTypesStep, CounterTypesStep DEF Types,
   WorkTypes

-----------------------------------------------------------------------------
(* What the steps do to the loads *)

\* No load begins: a load is over, or goes on with its generation and its text.
GoesOn(i) ==
    /\ VersionOf(i)' = VersionOf(i)
    /\ loads[i]'.gen = loads[i].gen /\ loads[i]'.content = loads[i].content
    /\ loads[i]'.pc = loads[i].pc \/ (Underway(i) /\ Underway(i)')
NoNewLoads ==
    /\ written' = written
    /\ \A d \in Docs : gen[d] <= gen'[d]
    /\ \A i \in Slots : loads[i]'.pc = "idle" \/ GoesOn(i)

\* A load begins, of version v, which has begun before or begins with it.
Starting(i, v) ==
    /\ written' = written /\ VersionOf(i)' = v /\ Begun(v)'
    /\ i # 0 => v = i /\ loads[i].pc = "written" /\ loads[i]'.content = loads[i].content
    /\ i = 0 => loads[0].pc = "idle"
    /\ loads[i]'.pc = "yield" /\ loads[i]'.gen = gen[written[v]] + 1
    /\ gen' = [gen EXCEPT ![written[v]] = @ + 1]
    /\ \A j \in Slots \ {i} : loads[j]' = loads[j] /\ VersionOf(j)' = VersionOf(j)

\* The agent writes the next version, whose diff is on its way.
Writing(d) ==
    /\ Len(written) + 1 \in Versions /\ Len(written') = Len(written) + 1
    /\ written'[Len(written) + 1] = d /\ \A v \in 1 .. Len(written) : written'[v] = written[v]
    /\ loads'[Len(written) + 1] = [NoLoad EXCEPT !.pc = "written", !.st = AllPending,
                                                 !.content = <<Len(written) + 1, {}>>]
    /\ \A j \in Slots \ {Len(written) + 1} : loads'[j] = loads[j]
    /\ loads[Len(written) + 1].pc = "idle"
    /\ UNCHANGED <<gen, restore>> /\ \A j \in Slots : VersionOf(j)' = VersionOf(j)

\* What a write of the agent does to the loads.
LEMMA WritingFacts ==
    ASSUME Types, LoadInv, NEW d \in Docs, AgentWrites(d)
    PROVE  Writing(d)
<1>1. Len(written) + 1 \in Versions /\ Len(written) \in Nat
  BY DiffReviewAssumption DEF DiffReviewAssumption, AgentWrites, Types, DiskTypes, Versions
<1>2. Len(written') = Len(written) + 1 /\ written'[Len(written) + 1] = d
      /\ \A v \in 1 .. Len(written) : written'[v] = written[v]
  BY DEF AgentWrites, Types, DiskTypes
<1>3. loads[Len(written) + 1].pc = "idle"
  <2>1. Len(written) + 1 \in Slots /\ Len(written) + 1 # 0 BY <1>1, Values
  <2>2. SUFFICES ASSUME loads[Len(written) + 1].pc # "idle" PROVE FALSE OBVIOUS
  <2>3. VersionOf(Len(written) + 1) = Len(written) + 1 BY <2>1 DEF VersionOf
  <2> QED BY <1>1, <2>1, <2>2, <2>3 DEF LoadInv, LoadPart
<1>4. loads \in [Slots -> Loads] /\ Len(written) + 1 \in Slots
  BY <1>1, Values DEF Types, WorkTypes, LoadTypes
<1>5. loads' = [loads EXCEPT ![Len(written) + 1] =
                   [NoLoad EXCEPT !.pc = "written", !.st = AllPending,
                       !.content = <<Len(written) + 1, {}>>]]
      /\ UNCHANGED <<gen, restore>>
  BY DEF AgentWrites
<1>6. \A j \in Slots : VersionOf(j)' = VersionOf(j) BY <1>5 DEF VersionOf
<1> QED BY <1>1, <1>2, <1>3, <1>4, <1>5, <1>6 DEF Writing

\* A diff that comes starts the load of its version.
LEMMA StartingFacts ==
    ASSUME Types, LoadInv, NEW i \in Slots, DiffArrives(i)
    PROVE  i \in 1 .. Len(written) /\ Starting(i, i)
<1>1. i # 0 /\ loads[i].pc = "written" BY DEF DiffArrives
<1>2. i \in 1 .. Len(written) /\ i \in Versions /\ VersionOf(i) = i /\ written[i] \in Docs
  BY <1>1, AtWork DEF DocOf
<1>3. StartLoad(i, written[i], loads[i]) /\ UNCHANGED <<written, restore>> BY DEF DiffArrives
<1>4. loads \in [Slots -> Loads] BY DEF Types, WorkTypes, LoadTypes
<1>5. /\ loads[i]' = [loads[i] EXCEPT !.pc = "yield", !.gen = gen[written[i]] + 1]
      /\ \A j \in Slots \ {i} : loads[j]' = loads[j]
  BY <1>3, <1>4 DEF StartLoad
<1>6. /\ loads[i]'.pc = "yield" /\ loads[i]'.gen = gen[written[i]] + 1
      /\ loads[i]'.content = loads[i].content
  BY <1>4, <1>5 DEF Loads
<1>7. \A w \in 1 .. i : written[w] = written[i] => loads[w]'.pc # "written"
  <2> SUFFICES ASSUME NEW w \in 1 .. i, written[w] = written[i] PROVE loads[w]'.pc # "written"
    OBVIOUS
  <2>1. CASE w = i BY <1>6, <2>1
  <2>2. CASE w # i
    <3>1. w \in 1 .. i - 1 BY <1>2, <2>2
    <3>2. w \in Slots BY <1>2, DiffReviewAssumption DEF DiffReviewAssumption, Versions, Slots
    <3> QED BY <1>5, <2>2, <3>1, <3>2 DEF DiffArrives
  <2> QED BY <2>1, <2>2
<1>8. \A j \in Slots : VersionOf(j)' = VersionOf(j) BY <1>3 DEF VersionOf
<1>9. gen' = [gen EXCEPT ![written[i]] = @ + 1] BY <1>3 DEF StartLoad
<1> QED BY <1>1, <1>2, <1>3, <1>5, <1>6, <1>7, <1>8, <1>9 DEF Starting, Begun

\* A restore starts the load of the version it restores.
LEMMA RestartingFacts ==
    ASSUME Types, LoadInv, RecordInv, NEW v \in restore.todo, RestoreStarts(v)
    PROVE  v \in 1 .. Len(written) /\ Starting(0, v) /\ loads[0]'.st = SavedStatuses(v) /\
        loads[0]'.stale = {}
<1>1. v \in 1 .. Len(written) /\ v \in Versions /\ v # 0 /\ 0 \in Slots /\ written[v] \in Docs
  BY Values DEF Types, DiskTypes, WorkTypes, LoadTypes, Restores
<1>2. StartLoad(0, written[v], RestoredLoad(v)) /\ UNCHANGED written /\ restore'.ver = v
      /\ restore.ver = 0 /\ disk[written[v]] # Missing
  BY <1>1 DEF RestoreStarts, RestoreGoesOn, RestoreWaits, Types, WorkTypes, LoadTypes, Restores
<1>3. loads \in [Slots -> Loads] /\ RestoredLoad(v) \in Loads
      /\ RestoredLoad(v).st = SavedStatuses(v) /\ RestoredLoad(v).stale = {}
  BY <1>1, <1>2, RestoredTypes DEF Types, WorkTypes, LoadTypes
<1>4. /\ loads[0]' = [RestoredLoad(v) EXCEPT !.pc = "yield", !.gen = gen[written[v]] + 1]
      /\ \A j \in Slots \ {0} : loads[j]' = loads[j]
  BY <1>1, <1>2, <1>3 DEF StartLoad
<1>5. loads[0]'.pc = "yield" /\ loads[0]'.gen = gen[written[v]] + 1
     /\ loads[0]'.st = SavedStatuses(v)
      /\ loads[0]'.stale = {}
  BY <1>3, <1>4 DEF Loads
<1>6. Begun(v) BY DEF RecordInv
<1>7. \A w \in 1 .. v : w \in Slots /\ w # 0
  BY <1>1, DiffReviewAssumption DEF DiffReviewAssumption, Versions, Slots
<1>8. Begun(v)' BY <1>2, <1>4, <1>6, <1>7 DEF Begun
<1>9. VersionOf(0)' = v /\ \A j \in Slots \ {0} : VersionOf(j)' = VersionOf(j) BY <1>2 DEF VersionOf
<1>10. loads[0].pc = "idle" BY <1>2 DEF LoadInv
<1>11. gen' = [gen EXCEPT ![written[v]] = @ + 1] BY <1>2 DEF StartLoad
<1> QED BY <1>1, <1>2, <1>4, <1>5, <1>8, <1>9, <1>10, <1>11 DEF Starting

\* A load that is over, or goes on, leaves the others alone.
LEMMA FinishMoves ==
    ASSUME Types, LoadInv, NEW i \in Slots, Finish(i), UNCHANGED <<written, gen>>
    PROVE  NoNewLoads /\ loads[i]' = NoLoad /\ \A j \in Slots \ {i} : loads[j]' = loads[j]
<1>1. loads[i]' = NoLoad /\ \A j \in Slots \ {i} : loads[j]' = loads[j]
  BY DEF Finish, Types, WorkTypes, LoadTypes
<1>2. restore'.ver = (IF i = 0 THEN 0 ELSE restore.ver) BY FinishTypes
<1>3. \A j \in Slots \ {i} : VersionOf(j)' = VersionOf(j) BY <1>2 DEF VersionOf
<1>4. \A d \in Docs : gen[d] <= gen'[d] BY DEF Types, WorkTypes, LoadTypes
<1> QED BY <1>1, <1>3, <1>4, EmptyRecords DEF NoNewLoads, GoesOn

\* A load that goes on starts no other.
LEMMA AdvanceMoves ==
    ASSUME Types, LoadInv, NEW i \in Slots, NEW to \in Places \ {"idle", "written"}, Underway(i),
           Advance(i, to), UNCHANGED <<written, gen, restore>>
    PROVE  /\ NoNewLoads /\ loads[i]'.pc = to /\ loads[i]'.gen = loads[i].gen
           /\ loads[i]'.stale = loads[i].stale /\ loads[i]'.st = loads[i].st
           /\ loads[i]'.content = loads[i].content
           /\ \A j \in Slots \ {i} : loads[j]' = loads[j]
<1>1. loads[i]' = [loads[i] EXCEPT !.pc = to] /\ \A j \in Slots \ {i} : loads[j]' = loads[j]
  BY DEF Advance, Types, WorkTypes, LoadTypes
<1>2. /\ loads[i]'.pc = to /\ loads[i]'.gen = loads[i].gen /\ loads[i]'.content = loads[i].content
      /\ loads[i]'.stale = loads[i].stale /\ loads[i]'.st = loads[i].st
  BY <1>1 DEF Types, WorkTypes, LoadTypes, Loads
<1>3. \A j \in Slots : VersionOf(j)' = VersionOf(j) BY DEF VersionOf
<1>4. \A d \in Docs : gen[d] <= gen'[d] BY DEF Types, WorkTypes, LoadTypes
<1>5. Underway(i)' BY <1>2 DEF Underway
<1> QED BY <1>1, <1>2, <1>3, <1>4, <1>5 DEF NoNewLoads, GoesOn

\* The look for missing files starts no load.
LEMMA ProbeMoves ==
    ASSUME Types, LoadInv, NEW i \in Slots, Probe(i)
    PROVE  /\ NoNewLoads /\ loads[i]'.pc = (IF StaleEntries(i) = {} THEN "commit" ELSE "clean")
           /\ loads[i]'.gen = loads[i].gen
           /\ loads[i]'.stale = StaleEntries(i) /\ loads[i]'.st = loads[i].st
           /\ loads[i]'.content = loads[i].content
           /\ \A j \in Slots \ {i} : loads[j]' = loads[j]
<1> DEFINE pc == IF StaleEntries(i) = {} THEN "commit" ELSE "clean"
<1>1. /\ loads[i]' = [loads[i] EXCEPT !.pc = pc, !.stale = StaleEntries(i)]
      /\ \A j \in Slots \ {i} : loads[j]' = loads[j]
  BY DEF Probe, Step, Types, WorkTypes, LoadTypes
<1>2. /\ loads[i]'.pc = pc /\ loads[i]'.gen = loads[i].gen /\
         loads[i]'.content = loads[i].content
      /\ loads[i]'.stale = StaleEntries(i) /\ loads[i]'.st = loads[i].st
  BY <1>1 DEF Types, WorkTypes, LoadTypes, Loads
<1>3. \A j \in Slots : VersionOf(j)' = VersionOf(j) BY DEF VersionOf, Probe
<1>4. \A d \in Docs : gen[d] <= gen'[d] BY DEF Types, WorkTypes, LoadTypes, Probe
<1>5. Underway(i)' /\ Underway(i) BY <1>2, <1>1 DEF Underway, Probe, Step
<1>6. written' = written BY DEF Probe
<1>7. loads[i].pc = "probe" BY DEF Probe, Step
<1> QED BY <1>1, <1>2, <1>3, <1>4, <1>5, <1>6, <1>7 DEF NoNewLoads, GoesOn

\* What leaves the loads alone, and does not take a generation back.
LEMMA StillMoves ==
    ASSUME Types, UNCHANGED <<written, loads>>, restore'.ver = restore.ver,
           \A d \in Docs : gen[d] <= gen'[d]
    PROVE  NoNewLoads
BY DEF NoNewLoads, GoesOn, VersionOf

\* The steps, by what they do to the loads.
Moves ==
    \/ NoNewLoads \/ Restart
    \/ \E d \in Docs : Writing(d)
    \/ \E i \in Slots, v \in 1 .. Len(written) : Starting(i, v)

\* Every step is one of these.
LEMMA MovesStep ==
    ASSUME Types, LoadInv, RecordInv, [Next]_vars
    PROVE  Moves
<1>1. CASE UNCHANGED vars
  <2>1. UNCHANGED <<written, loads, gen>> /\ restore'.ver = restore.ver BY <1>1 DEF vars
  <2>2. \A d \in Docs : gen[d] <= gen'[d] BY <2>1 DEF Types, WorkTypes, LoadTypes
  <2> QED BY <2>1, <2>2, StillMoves DEF Moves
<1>2. ASSUME NEW d \in Docs, AgentWrites(d) PROVE Moves
  <2> QED BY <1>2, WritingFacts DEF Moves
<1>3. ASSUME NEW d \in Docs, UserDeletes(d) PROVE Moves
  <2>1. UNCHANGED <<written, loads, gen>> /\ restore'.ver = restore.ver
    BY <1>3, EmptyRecords DEF UserDeletes, Types, WorkTypes, LoadTypes, Restores
  <2>2. \A e \in Docs : gen[e] <= gen'[e] BY <2>1 DEF Types, WorkTypes, LoadTypes
  <2> QED BY <2>1, <2>2, StillMoves DEF Moves
<1>4. ASSUME NEW i \in Slots, DiffArrives(i) PROVE Moves
  <2> QED BY <1>4, StartingFacts DEF Moves
<1>5. ASSUME NEW i \in Slots, GiveUp(i) PROVE Moves
  <2>1. Finish(i) /\ UNCHANGED <<written, gen>> BY <1>5 DEF GiveUp
  <2> QED BY <2>1, FinishMoves DEF Moves
<1>6. ASSUME NEW i \in Slots, LoadFails(i) PROVE Moves
  <2>1. Finish(i) /\ UNCHANGED <<written, gen>> BY <1>6 DEF LoadFails
  <2> QED BY <2>1, FinishMoves DEF Moves
<1>7. ASSUME NEW i \in Slots, CancelDeleted(i) PROVE Moves
  <2>1. Finish(i) /\ UNCHANGED <<written, gen>> BY <1>7 DEF CancelDeleted
  <2> QED BY <2>1, FinishMoves DEF Moves
<1>8. ASSUME NEW i \in Slots, Previewed(i) PROVE Moves
  <2>1. PICK to \in {"commit", "record"} : Advance(i, to) BY <1>8 DEF Previewed
  <2>2. Underway(i) /\ UNCHANGED <<written, gen, restore>> BY <1>8 DEF Previewed, Step, Underway
  <2> QED BY <2>1, <2>2, AdvanceMoves DEF Moves, Places
<1>9. ASSUME NEW i \in Slots, CreateRecord(i) PROVE Moves
  <2>1. Underway(i) /\ Advance(i, "recorded") /\ UNCHANGED <<written, gen, restore>>
    BY <1>9 DEF CreateRecord, Step, Underway
  <2> QED BY <2>1, AdvanceMoves DEF Moves, Places
<1>10. ASSUME NEW i \in Slots, RecordCreated(i) PROVE Moves
  <2>1. CASE Superseded(i)
    <3>1. Finish(i) /\ UNCHANGED <<written, gen>> BY <1>10, <2>1 DEF RecordCreated
    <3> QED BY <3>1, FinishMoves DEF Moves
  <2>2. CASE ~Superseded(i)
    <3>1. Underway(i) /\ Advance(i, "probe") /\ UNCHANGED <<written, gen, restore>>
      BY <1>10, <2>2 DEF RecordCreated, Step, Underway
    <3> QED BY <3>1, AdvanceMoves DEF Moves, Places
  <2> QED BY <2>1, <2>2
<1>11. ASSUME NEW i \in Slots, Probe(i) PROVE Moves
  <2> QED BY <1>11, ProbeMoves DEF Moves
<1>12. ASSUME NEW i \in Slots, Commit(i) PROVE Moves
  <2>1. Finish(i) /\ UNCHANGED <<written, gen>> BY <1>12 DEF Commit
  <2> QED BY <2>1, FinishMoves DEF Moves
<1>13. ASSUME NEW m \in Mods, Accept(m) PROVE Moves
  <2>1. UNCHANGED <<written, loads, gen>> /\ restore'.ver = restore.ver
    BY <1>13, EmptyRecords DEF Accept, Types, WorkTypes, LoadTypes, Restores
  <2>2. \A e \in Docs : gen[e] <= gen'[e] BY <2>1 DEF Types, WorkTypes, LoadTypes
  <2> QED BY <2>1, <2>2, StillMoves DEF Moves
<1>14. ASSUME NEW m \in Mods, Reject(m) PROVE Moves
  <2>1. UNCHANGED <<written, loads, gen>> /\ restore'.ver = restore.ver
    BY <1>14, EmptyRecords DEF Reject, Types, WorkTypes, LoadTypes, Restores
  <2>2. \A e \in Docs : gen[e] <= gen'[e] BY <2>1 DEF Types, WorkTypes, LoadTypes
  <2> QED BY <2>1, <2>2, StillMoves DEF Moves
<1>15. CASE AcceptAll
  <2>1. UNCHANGED <<written, loads, gen>> /\ restore'.ver = restore.ver
    BY <1>15, EmptyRecords DEF AcceptAll, Types, WorkTypes, LoadTypes, Restores
  <2>2. \A e \in Docs : gen[e] <= gen'[e] BY <2>1 DEF Types, WorkTypes, LoadTypes
  <2> QED BY <2>1, <2>2, StillMoves DEF Moves
<1>16. CASE RejectAll
  <2>1. UNCHANGED <<written, loads, gen>> /\ restore'.ver = restore.ver
    BY <1>16, EmptyRecords DEF RejectAll, Types, WorkTypes, LoadTypes, Restores
  <2>2. \A e \in Docs : gen[e] <= gen'[e] BY <2>1 DEF Types, WorkTypes, LoadTypes
  <2> QED BY <2>1, <2>2, StillMoves DEF Moves
<1>17. ASSUME NEW d \in Docs, SelectFile(d) PROVE Moves
  <2>1. UNCHANGED <<written, loads, gen>> /\ restore'.ver = restore.ver
    BY <1>17, EmptyRecords DEF SelectFile, Types, WorkTypes, LoadTypes, Restores
  <2>2. \A e \in Docs : gen[e] <= gen'[e] BY <2>1 DEF Types, WorkTypes, LoadTypes
  <2> QED BY <2>1, <2>2, StillMoves DEF Moves
<1>18. CASE ToggleMode
  <2>1. UNCHANGED <<written, loads, gen>> /\ restore'.ver = restore.ver
    BY <1>18, EmptyRecords DEF ToggleMode, Types, WorkTypes, LoadTypes, Restores
  <2>2. \A e \in Docs : gen[e] <= gen'[e] BY <2>1 DEF Types, WorkTypes, LoadTypes
  <2> QED BY <2>1, <2>2, StillMoves DEF Moves
<1>19. CASE ReviewDisk
  <2>1. UNCHANGED <<written, loads, gen>> /\ restore'.ver = restore.ver
    BY <1>19, EmptyRecords DEF ReviewDisk, Types, WorkTypes, LoadTypes, Restores
  <2>2. \A e \in Docs : gen[e] <= gen'[e] BY <2>1 DEF Types, WorkTypes, LoadTypes
  <2> QED BY <2>1, <2>2, StillMoves DEF Moves
<1>20. CASE ReviewRecords
  <2>1. UNCHANGED <<written, loads, gen>> /\ restore'.ver = restore.ver
    BY <1>20, EmptyRecords DEF ReviewRecords, Types, WorkTypes, LoadTypes, Restores
  <2>2. \A e \in Docs : gen[e] <= gen'[e] BY <2>1 DEF Types, WorkTypes, LoadTypes
  <2> QED BY <2>1, <2>2, StillMoves DEF Moves
<1>21. CASE AcceptLeaves
  <2>1. UNCHANGED <<written, loads, gen>> /\ restore'.ver = restore.ver
    BY <1>21, EmptyRecords DEF AcceptLeaves, Types, WorkTypes, LoadTypes, Restores
  <2>2. \A e \in Docs : gen[e] <= gen'[e] BY <2>1 DEF Types, WorkTypes, LoadTypes
  <2> QED BY <2>1, <2>2, StillMoves DEF Moves
<1>22. CASE Discard
  <2>1. UNCHANGED <<written, loads, restore>> /\ deletion.doc \in Docs
    BY <1>22 DEF Discard, Types, WorkTypes, DecisionTypes
  <2>2. \A d \in Docs : gen[d] <= gen'[d]
    BY <1>22, <2>1 DEF Discard, NextGeneration, Types, WorkTypes, LoadTypes
  <2> QED BY <2>1, <2>2, StillMoves DEF Moves
<1>23. CASE DiscardRecords
  <2>1. UNCHANGED <<written, loads, gen>> /\ restore'.ver = restore.ver
    BY <1>23, EmptyRecords DEF DiscardRecords, Types, WorkTypes, LoadTypes, Restores
  <2>2. \A e \in Docs : gen[e] <= gen'[e] BY <2>1 DEF Types, WorkTypes, LoadTypes
  <2> QED BY <2>1, <2>2, StillMoves DEF Moves
<1>24. CASE BeginRestore
  <2>1. UNCHANGED <<written, loads, gen>> /\ restore'.ver = restore.ver
    BY <1>24, EmptyRecords DEF BeginRestore, Types, WorkTypes, LoadTypes, LoadInv, Restores
  <2>2. \A e \in Docs : gen[e] <= gen'[e] BY <2>1 DEF Types, WorkTypes, LoadTypes
  <2> QED BY <2>1, <2>2, StillMoves DEF Moves
<1>25. CASE RestoreEnds
  <2>1. UNCHANGED <<written, loads, gen>> /\ restore'.ver = restore.ver
    BY <1>25, EmptyRecords DEF RestoreEnds, RestoreWaits, Types, WorkTypes, LoadTypes, Restores
  <2>2. \A e \in Docs : gen[e] <= gen'[e] BY <2>1 DEF Types, WorkTypes, LoadTypes
  <2> QED BY <2>1, <2>2, StillMoves DEF Moves
<1>26. ASSUME NEW v \in restore.todo, RestoreSkips(v) PROVE Moves
  <2>1. UNCHANGED <<written, loads, gen>> /\ restore'.ver = restore.ver
    BY <1>26, EmptyRecords DEF RestoreSkips, RestoreGoesOn, RestoreWaits, Types, WorkTypes,
      LoadTypes, Restores
  <2>2. \A e \in Docs : gen[e] <= gen'[e] BY <2>1 DEF Types, WorkTypes, LoadTypes
  <2> QED BY <2>1, <2>2, StillMoves DEF Moves
<1>27. ASSUME NEW v \in restore.todo, RestoreCloses(v) PROVE Moves
  <2>1. UNCHANGED <<written, loads, gen>> /\ restore'.ver = restore.ver
    BY <1>27, EmptyRecords DEF RestoreCloses, RestoreGoesOn, RestoreWaits, Types, WorkTypes,
      LoadTypes, Restores
  <2>2. \A e \in Docs : gen[e] <= gen'[e] BY <2>1 DEF Types, WorkTypes, LoadTypes
  <2> QED BY <2>1, <2>2, StillMoves DEF Moves
<1>28. ASSUME NEW v \in restore.todo, RestoreStarts(v) PROVE Moves
  <2> QED BY <1>28, RestartingFacts, Values DEF Moves
<1>29. CASE Restart
  <2> QED BY <1>29 DEF Moves
<1>30. ASSUME NEW i \in Slots, CloseStale(i) PROVE Moves
  <2>1. Underway(i) /\ Advance(i, "commit") /\ UNCHANGED <<written, gen, restore>>
    BY <1>30 DEF CloseStale, Step, Underway
  <2> QED BY <2>1, AdvanceMoves DEF Moves, Places
<1>31. CASE ReviewSnapshot
  <2>1. UNCHANGED <<written, loads, gen>> /\ restore'.ver = restore.ver
    BY <1>31, EmptyRecords DEF ReviewSnapshot, Types, WorkTypes, LoadTypes, Restores
  <2>2. \A e \in Docs : gen[e] <= gen'[e] BY <2>1 DEF Types, WorkTypes, LoadTypes
  <2> QED BY <2>1, <2>2, StillMoves DEF Moves
<1>32. CASE ReviewMark
  <2>1. UNCHANGED <<written, loads, gen>> /\ restore'.ver = restore.ver
    BY <1>32, EmptyRecords DEF ReviewMark, Types, WorkTypes, LoadTypes, Restores
  <2>2. \A e \in Docs : gen[e] <= gen'[e] BY <2>1 DEF Types, WorkTypes, LoadTypes
  <2> QED BY <2>1, <2>2, StillMoves DEF Moves
<1>33. CASE Project
  <2>1. UNCHANGED <<written, loads, gen>> /\ restore'.ver = restore.ver
    BY <1>33, EmptyRecords DEF Project, Types, WorkTypes, LoadTypes, Restores
  <2>2. \A e \in Docs : gen[e] <= gen'[e] BY <2>1 DEF Types, WorkTypes, LoadTypes
  <2> QED BY <2>1, <2>2, StillMoves DEF Moves
<1> QED BY <1>1, <1>2, <1>3, <1>4, <1>5, <1>6, <1>7, <1>8, <1>9, <1>10, <1>11, <1>12, <1>13,
     <1>14, <1>15, <1>16, <1>17, <1>18, <1>19, <1>20, <1>21, <1>22, <1>23, <1>24, <1>25, <1>26,
     <1>27, <1>28, <1>29, <1>30, <1>31, <1>32, <1>33, RestoreCases DEF Next, LoadStep, Decide,
     ReviewStep, DeletionStep, RestoreStep

\* What has begun stays so.
LEMMA BegunKept ==
    ASSUME Types, LoadInv, RecordInv, [Next]_vars
    PROVE  \A v : Begun(v) => Begun(v)'
<1> SUFFICES ASSUME NEW v, Begun(v) PROVE Begun(v)' OBVIOUS
<1>1. /\ v \in 1 .. Len(written) /\ Len(written) \in Nat
      /\ \A w \in 1 .. v : w \in 1 .. Len(written) /\ w \in Slots /\ w # 0
  BY DiffReviewAssumption DEF DiffReviewAssumption, Begun, Types, DiskTypes, Slots
<1>2. CASE NoNewLoads
  <2>1. \A w \in 1 .. v : loads[w]'.pc = "written" => loads[w].pc = "written"
    BY <1>1, <1>2 DEF NoNewLoads, GoesOn, Underway
  <2> QED BY <1>1, <1>2, <2>1 DEF Begun, NoNewLoads
<1>3. CASE Restart
  <2>1. \A w \in Slots : loads[w]'.pc = "idle" BY <1>3, EmptyRecords DEF Restart
  <2> QED BY <1>1, <1>3, <2>1 DEF Restart, Begun
<1>4. ASSUME NEW d \in Docs, Writing(d) PROVE Begun(v)'
  <2>1. \A w \in 1 .. v : loads[w]' = loads[w] /\ written'[w] = written[w] BY <1>1, <1>4 DEF Writing
  <2>2. v \in 1 .. Len(written') BY <1>1, <1>4 DEF Writing
  <2> QED BY <1>1, <2>1, <2>2 DEF Begun
<1>5. ASSUME NEW i \in Slots, NEW n \in 1 .. Len(written), Starting(i, n) PROVE Begun(v)'
  <2>1. \A w \in 1 .. v : loads[w]'.pc = "written" => loads[w].pc = "written"
    BY <1>1, <1>5 DEF Starting
  <2> QED BY <1>1, <1>5, <2>1 DEF Begun, Starting
<1> QED BY <1>2, <1>3, <1>4, <1>5, MovesStep DEF Moves

\* The loads of a file stay in the order of its versions.
LEMMA LoadPartStep ==
    ASSUME Types, LoadInv, RecordInv, [Next]_vars, NEW i \in Slots
    PROVE  LoadPart(i)'
<1>1. /\ Len(written) \in Nat /\ written \in Seq(Docs) /\ gen \in [Docs -> Nat]
      /\ loads \in [Slots -> Loads] /\ \A j \in Slots : loads[j].gen \in Nat /\ LoadPart(j)
      /\ \A w \in 1 .. Len(written) : w \in Slots /\ w \in Nat /\ w # 0 /\ VersionOf(w) = w /\
          written[w] \in Docs
  <2>1. Len(written) \in Nat /\ Len(written) <= MaxWrites /\ MaxWrites \in Nat
    BY DiffReviewAssumption DEF DiffReviewAssumption, Types, DiskTypes
  <2>2. written \in Seq(Docs) /\ gen \in [Docs -> Nat] /\ loads \in [Slots -> Loads]
    BY DEF Types, DiskTypes, WorkTypes, LoadTypes
  <2>3. \A j \in Slots : loads[j].gen \in Nat /\ LoadPart(j) BY <2>2 DEF Loads, LoadInv
  <2>4. \A w \in 1 .. Len(written) : w \in Slots /\ w \in Nat /\ w # 0 /\ written[w] \in Docs
    BY <2>1, <2>2 DEF Slots
  <2> QED BY <2>1, <2>2, <2>3, <2>4 DEF VersionOf
<1>2. ASSUME NEW j \in Slots, loads[j].pc # "idle"
      PROVE  /\ VersionOf(j) \in 1 .. Len(written) /\ DocOf(j) = written[VersionOf(j)] /\
                DocOf(j) \in Docs
  BY <1>1, <1>2 DEF LoadPart, DocOf
<1>3. CASE NoNewLoads
  <2> SUFFICES ASSUME loads[i]'.pc # "idle" PROVE LoadPart(i)'
    BY DEF LoadPart, Underway
  <2>1. GoesOn(i) /\ written' = written /\ loads[i].pc # "idle"
    BY <1>3 DEF NoNewLoads, GoesOn, Underway
  <2>2. DocOf(i)' = DocOf(i) BY <2>1 DEF GoesOn, DocOf
  <2>3. \A v \in 1 .. Len(written) : Underway(v)' => Underway(v) /\ loads[v]'.gen = loads[v].gen
    BY <1>1, <1>3 DEF NoNewLoads, GoesOn, Underway
  <2>4. Underway(i)' => Underway(i) BY <2>1 DEF GoesOn, Underway
  <2>5. gen[DocOf(i)] <= gen'[DocOf(i)] /\ gen'[DocOf(i)] \in Nat
    BY <1>2, <1>3, <2>1, LoadTypesStep DEF NoNewLoads, LoadTypes
  <2>6. PICK n \in 1 .. Len(written) : n = VersionOf(i) BY <1>2, <2>1
  <2>7. VersionOf(i)' = n /\ DocOf(i)' = DocOf(i) BY <2>1, <2>2, <2>6 DEF GoesOn
  <2>8. Underway(i) => Begun(n)' BY <1>1, <2>6, BegunKept DEF LoadPart
  <2>9. n \in 1 .. Len(written') BY <2>1
  <2>10. ASSUME Underway(i)', NEW v \in 1 .. n - 1, written'[v] = DocOf(i), Underway(v)'
         PROVE  loads[v]'.gen < loads[i]'.gen
    <3>1. v \in 1 .. Len(written) BY <1>1
    <3> QED BY <1>1, <2>1, <2>3, <2>4, <2>6, <2>10, <3>1 DEF LoadPart, GoesOn
  <2>11. Underway(i)' => 1 <= loads[i]'.gen /\ loads[i]'.gen <= gen'[DocOf(i)]
    BY <1>1, <1>2, <1>3, <2>1, <2>4, <2>5 DEF LoadPart, GoesOn, NoNewLoads
  <2>12. i # 0 => loads[i]'.content = <<i, {}>> BY <1>1, <2>1 DEF LoadPart, GoesOn
  <2> HIDE DEF Underway
  <2> QED BY <2>7, <2>8, <2>4, <2>9, <2>10, <2>11, <2>12 DEF LoadPart
<1>4. CASE Restart
  <2>1. loads[i]'.pc = "idle" BY <1>4, EmptyRecords DEF Restart
  <2> QED BY <2>1 DEF LoadPart, Underway
<1>5. ASSUME NEW d \in Docs, Writing(d) PROVE LoadPart(i)'
  <2>1. CASE i = Len(written) + 1
    <3>1. loads[i]'.pc = "written" /\ loads[i]'.content = <<i, {}>>
      BY <1>5, <2>1 DEF Writing, NoLoad
    <3>2. VersionOf(i)' = i BY <1>1, <2>1 DEF VersionOf
    <3> QED BY <1>1, <1>5, <2>1, <3>1, <3>2 DEF LoadPart, Underway, Writing
  <2>2. CASE i # Len(written) + 1
    <3> SUFFICES ASSUME loads[i].pc # "idle" PROVE LoadPart(i)'
      BY <1>5, <2>2 DEF LoadPart, Underway, Writing
    <3>1. loads[i]' = loads[i] /\ VersionOf(i)' = VersionOf(i) /\ gen' = gen
      BY <1>5, <2>2 DEF Writing
    <3>2. /\ VersionOf(i) \in 1 .. Len(written') /\ written'[VersionOf(i)] = written[VersionOf(i)]
          /\ \A v \in 1 .. VersionOf(i) - 1 :
                written'[v] = written[v] /\ loads[v]' = loads[v] /\ v \in 1 .. Len(written)
      BY <1>1, <1>2, <1>5 DEF Writing
    <3>3. DocOf(i)' = DocOf(i) BY <1>2, <3>1, <3>2 DEF DocOf
    <3>4. PICK n \in 1 .. Len(written) : n = VersionOf(i) BY <1>2
    <3>5. Underway(i) => Begun(n)' BY <1>1, <3>4, BegunKept DEF LoadPart
    <3> QED BY <1>1, <1>2, <3>1, <3>2, <3>3, <3>4, <3>5 DEF LoadPart, Underway
  <2> QED BY <2>1, <2>2
<1>6. ASSUME NEW k \in Slots, NEW n \in 1 .. Len(written), Starting(k, n) PROVE LoadPart(i)'
  <2>1. written' = written /\ VersionOf(k)' = n /\ gen'[written[n]] = gen[written[n]] + 1
        /\ loads[k]'.gen = gen'[written[n]]
    BY <1>1, <1>6 DEF Starting
  <2>2. \A v \in 1 .. Len(written) : written[v] = written[n] /\ v # k /\ Underway(v)' =>
              Underway(v) /\ loads[v]'.gen = loads[v].gen /\ loads[v]'.gen < loads[k]'.gen
    <3> SUFFICES ASSUME NEW v \in 1 .. Len(written), written[v] = written[n], v # k, Underway(v)'
                 PROVE  Underway(v) /\ loads[v]'.gen = loads[v].gen /\ loads[v]'.gen < loads[k]'.gen
      OBVIOUS
    <3>1. loads[v]' = loads[v] BY <1>1, <1>6 DEF Starting
    <3>2. DocOf(v) = written[n] /\ loads[v].gen <= gen[written[n]]
      BY <1>1, <3>1 DEF LoadPart, DocOf, Underway
    <3> QED BY <1>1, <2>1, <3>1, <3>2 DEF Underway
  <2>3. CASE i = k
    <3>1. DocOf(i)' = written[n] BY <2>1, <2>3 DEF DocOf
    <3>2. \A v \in 1 .. n - 1 : v \in 1 .. Len(written) /\ v # k BY <1>1, <1>6 DEF Starting
    <3>3. i # 0 => loads[i]'.content = <<i, {}>> BY <1>1, <1>6, <2>3 DEF Starting, LoadPart
    <3> QED BY <1>1, <1>6, <2>1, <2>2, <2>3, <3>1, <3>2, <3>3 DEF LoadPart, Starting
  <2>4. CASE i # k
    <3> SUFFICES ASSUME loads[i].pc # "idle" PROVE LoadPart(i)'
      BY <1>6, <2>4 DEF LoadPart, Underway, Starting
    <3>1. loads[i]' = loads[i] /\ VersionOf(i)' = VersionOf(i) BY <1>6, <2>4 DEF Starting
    <3>2. DocOf(i)' = DocOf(i) BY <2>1, <3>1 DEF DocOf
    <3>3. gen[DocOf(i)] <= gen'[DocOf(i)] /\ gen'[DocOf(i)] \in Nat
      BY <1>1, <1>2, <1>6 DEF Starting
    <3>4. PICK n0 \in 1 .. Len(written) : n0 = VersionOf(i) /\ DocOf(i) = written[n0] BY <1>2
    <3>5. Underway(i) => Begun(n0) /\ Begun(n0)' BY <1>1, <3>4, BegunKept DEF LoadPart
    <3>6. Underway(i) /\ k \in 1 .. n0 - 1 => written[k] # DocOf(i)
      BY <1>6, <3>4, <3>5 DEF Starting, Begun
    <3>7. \A v \in 1 .. n0 - 1 : v # k => loads[v]' = loads[v]
      <4>1. \A v \in 1 .. n0 - 1 : v \in 1 .. Len(written) BY <1>1, <3>4
      <4>2. \A v \in 1 .. n0 - 1 : v \in Slots BY <1>1, <4>1
      <4> QED BY <1>6, <4>2 DEF Starting
    <3>8. ASSUME Underway(i), NEW v \in 1 .. n0 - 1, written'[v] = DocOf(i), Underway(v)'
          PROVE  loads[v]'.gen < loads[i]'.gen
      BY <1>1, <2>1, <3>1, <3>4, <3>6, <3>7, <3>8 DEF LoadPart, Underway
    <3>9. Underway(i) => 1 <= loads[i]'.gen /\ loads[i]'.gen <= gen'[DocOf(i)]
      BY <1>1, <1>2, <3>1, <3>3 DEF LoadPart
    <3>10. i # 0 => loads[i]'.content = <<i, {}>> BY <1>1, <3>1 DEF LoadPart
    <3>11. VersionOf(i)' = n0 /\ DocOf(i)' = DocOf(i) /\ n0 \in 1 .. Len(written')
      BY <2>1, <3>1, <3>2, <3>4
    <3>12. Underway(i)' <=> Underway(i) BY <3>1 DEF Underway
    <3> HIDE DEF Underway
    <3> QED BY <3>5, <3>8, <3>9, <3>10, <3>11, <3>12 DEF LoadPart
  <2> QED BY <2>3, <2>4
<1> QED BY <1>3, <1>4, <1>5, <1>6, MovesStep DEF Moves

\* A restore and its load belong together.
RestoreLink ==
    /\ loads[0].pc \in {"idle", "yield", "commit"}
    /\ loads[0].pc # "idle" <=> restore.ver # 0
    /\ restore.ver # 0 \/ restore.todo # {} => restore.pc = "next"

\* A load that ends leaves no trace in the restore.
LEMMA FinishLink ==
    ASSUME Types, LoadInv, NEW i \in Slots, Finish(i), UNCHANGED <<written, gen>>
    PROVE  RestoreLink'
<1>1. restore'.todo = restore.todo /\ restore'.pc = restore.pc
      /\ restore'.ver = (IF i = 0 THEN 0 ELSE restore.ver)
  BY FinishTypes
<1>2. loads[i]' = NoLoad /\ \A j \in Slots \ {i} : loads[j]' = loads[j] BY FinishMoves
<1>3. CASE i = 0 BY <1>1, <1>2, <1>3, EmptyRecords DEF LoadInv, RestoreLink
<1>4. CASE i # 0 BY <1>1, <1>2, <1>4, Values DEF LoadInv, RestoreLink
<1> QED BY <1>3, <1>4

\* The load of the restore and the restore belong together after every step.
LEMMA RestoreLinkStep ==
    ASSUME Types, LoadInv, RecordInv, [Next]_vars
    PROVE  RestoreLink'
<1>1. CASE UNCHANGED vars BY <1>1 DEF vars, LoadInv, RestoreLink
<1>2. ASSUME NEW d \in Docs, AgentWrites(d) PROVE RestoreLink'
  <2>1. loads[0]' = loads[0] BY <1>2, WritingFacts, Values DEF Writing, Types, DiskTypes
  <2> QED BY <1>2, <2>1 DEF AgentWrites, LoadInv, RestoreLink
<1>3. ASSUME NEW d \in Docs, UserDeletes(d) PROVE RestoreLink'
  BY <1>3 DEF UserDeletes, LoadInv, RestoreLink
<1>4. ASSUME NEW i \in Slots, DiffArrives(i) PROVE RestoreLink'
  <2>1. loads[0]' = loads[0] /\ UNCHANGED restore
    BY <1>4, StartingFacts, Values DEF Starting, DiffArrives
  <2> QED BY <2>1 DEF LoadInv, RestoreLink
<1>5. ASSUME NEW i \in Slots, GiveUp(i) PROVE RestoreLink'
  <2>1. Finish(i) /\ UNCHANGED <<written, gen>> BY <1>5 DEF GiveUp
  <2> QED BY <2>1, FinishLink
<1>6. ASSUME NEW i \in Slots, LoadFails(i) PROVE RestoreLink'
  <2>1. Finish(i) /\ UNCHANGED <<written, gen>> BY <1>6 DEF LoadFails
  <2> QED BY <2>1, FinishLink
<1>7. ASSUME NEW i \in Slots, CancelDeleted(i) PROVE RestoreLink'
  <2>1. Finish(i) /\ UNCHANGED <<written, gen>> BY <1>7 DEF CancelDeleted
  <2> QED BY <2>1, FinishLink
<1>8. ASSUME NEW i \in Slots, Previewed(i) PROVE RestoreLink'
  <2>1. PICK to \in {"commit", "record"} : Advance(i, to) /\ (i = 0 => to = "commit")
    BY <1>8 DEF Previewed
  <2>2. Underway(i) /\ UNCHANGED <<written, gen, restore>> BY <1>8 DEF Previewed, Step, Underway
  <2> QED BY <2>1, <2>2, AdvanceMoves, Values DEF LoadInv, RestoreLink, Places, Underway
<1>9. ASSUME NEW i \in Slots, CreateRecord(i) PROVE RestoreLink'
  <2>1. i # 0 /\ Underway(i) /\ Advance(i, "recorded") /\ UNCHANGED <<written, gen, restore>>
    BY <1>9 DEF CreateRecord, Step, Underway, LoadInv
  <2> QED BY <2>1, AdvanceMoves, Values DEF LoadInv, RestoreLink, Places
<1>10. ASSUME NEW i \in Slots, RecordCreated(i) PROVE RestoreLink'
  <2>1. CASE Superseded(i)
    <3>1. Finish(i) /\ UNCHANGED <<written, gen>> BY <1>10, <2>1 DEF RecordCreated
    <3> QED BY <3>1, FinishLink
  <2>2. CASE ~Superseded(i)
    <3>1. i # 0 /\ Underway(i) /\ Advance(i, "probe") /\ UNCHANGED <<written, gen, restore>>
      BY <1>10, <2>2 DEF RecordCreated, Step, Underway, LoadInv
    <3> QED BY <3>1, AdvanceMoves, Values DEF LoadInv, RestoreLink, Places
  <2> QED BY <2>1, <2>2
<1>11. ASSUME NEW i \in Slots, Probe(i) PROVE RestoreLink'
  <2>1. i # 0 /\ UNCHANGED restore BY <1>11 DEF Probe, Step, LoadInv
  <2> QED BY <1>11, <2>1, ProbeMoves, Values DEF LoadInv, RestoreLink
<1>12. ASSUME NEW i \in Slots, Commit(i) PROVE RestoreLink'
  <2>1. Finish(i) /\ UNCHANGED <<written, gen>> BY <1>12 DEF Commit
  <2> QED BY <2>1, FinishLink
<1>13. ASSUME NEW m \in Mods, Accept(m) PROVE RestoreLink'
  BY <1>13 DEF Accept, Rest, LoadInv, RestoreLink
<1>14. ASSUME NEW m \in Mods, Reject(m) PROVE RestoreLink'
  BY <1>14 DEF Reject, Rest, LoadInv, RestoreLink
<1>15. CASE AcceptAll BY <1>15 DEF AcceptAll, Rest, MoveOn, Activate, LoadInv, RestoreLink
<1>16. CASE RejectAll BY <1>16 DEF RejectAll, Rest, LoadInv, RestoreLink
<1>17. ASSUME NEW d \in Docs, SelectFile(d) PROVE RestoreLink'
  BY <1>17 DEF SelectFile, Activate, LoadInv, RestoreLink
<1>18. CASE ToggleMode BY <1>18 DEF ToggleMode, Activate, LoadInv, RestoreLink
<1>19. CASE ReviewDisk BY <1>19 DEF ReviewDisk, LoadInv, RestoreLink
<1>20. CASE ReviewRecords BY <1>20 DEF ReviewRecords, LoadInv, RestoreLink
<1>21. CASE AcceptLeaves BY <1>21 DEF AcceptLeaves, MoveOn, Activate, LoadInv, RestoreLink
<1>22. CASE Discard BY <1>22 DEF Discard, LoadInv, RestoreLink
<1>23. CASE DiscardRecords BY <1>23 DEF DiscardRecords, LoadInv, RestoreLink
<1>24. CASE BeginRestore
  <2>1. restore.ver = 0 /\ UNCHANGED loads BY <1>24 DEF BeginRestore, LoadInv
  <2>2. restore'.ver = 0 /\ (restore'.todo # {} => restore'.pc = "next")
    BY <1>24, EmptyRecords DEF BeginRestore
  <2> QED BY <2>1, <2>2 DEF LoadInv, RestoreLink
<1>25. CASE RestoreEnds
  <2> QED BY <1>25, EmptyRecords DEF RestoreEnds, RestoreWaits, LoadInv, RestoreLink
<1>26. ASSUME NEW v \in restore.todo, RestoreSkips(v) PROVE RestoreLink'
  <2>1. restore'.ver = restore.ver /\ restore'.pc = "next" /\ UNCHANGED loads
    BY <1>26 DEF RestoreSkips, RestoreGoesOn, RestoreWaits, Types, WorkTypes, LoadTypes, Restores
  <2> QED BY <2>1 DEF LoadInv, RestoreLink
<1>27. ASSUME NEW v \in restore.todo, RestoreCloses(v) PROVE RestoreLink'
  <2>1. restore'.ver = restore.ver /\ restore'.pc = "next" /\ UNCHANGED loads
    BY <1>27 DEF RestoreCloses, RestoreGoesOn, RestoreWaits, Types, WorkTypes, LoadTypes, Restores
  <2> QED BY <2>1 DEF LoadInv, RestoreLink
<1>28. ASSUME NEW v \in restore.todo, RestoreStarts(v) PROVE RestoreLink'
  <2>1. restore'.ver = v /\ restore'.pc = "next"
    BY <1>28 DEF RestoreStarts, RestoreGoesOn, RestoreWaits, Types, WorkTypes, LoadTypes, Restores
  <2>2. v # 0 BY <1>28, RestartingFacts
  <2> QED BY <1>28, <2>1, <2>2, RestartingFacts DEF Starting, RestoreLink
<1>29. CASE Restart
  <2> QED BY <1>29, EmptyRecords, Values DEF Restart, RestoreLink, NoRestore
<1>30. ASSUME NEW i \in Slots, CloseStale(i) PROVE RestoreLink'
  <2>1. i # 0 /\ Underway(i) /\ Advance(i, "commit") /\ UNCHANGED <<written, gen, restore>>
    BY <1>30 DEF CloseStale, Step, Underway, LoadInv
  <2> QED BY <2>1, AdvanceMoves, Values DEF LoadInv, RestoreLink, Places
<1>31. CASE ReviewSnapshot BY <1>31 DEF ReviewSnapshot, LoadInv, RestoreLink
<1>32. CASE ReviewMark BY <1>32 DEF ReviewMark, LoadInv, RestoreLink
<1>33. CASE Project
  <2>1. restore'.ver = restore.ver /\ restore'.pc = restore.pc /\ restore'.todo = restore.todo
        /\ UNCHANGED loads
    BY <1>33 DEF Project, Types, WorkTypes, LoadTypes, Restores
  <2> QED BY <2>1 DEF LoadInv, RestoreLink
<1> QED BY <1>1, <1>2, <1>3, <1>4, <1>5, <1>6, <1>7, <1>8, <1>9, <1>10, <1>11, <1>12, <1>13,
     <1>14, <1>15, <1>16, <1>17, <1>18, <1>19, <1>20, <1>21, <1>22, <1>23, <1>24, <1>25, <1>26,
     <1>27, <1>28, <1>29, <1>30, <1>31, <1>32, <1>33, RestoreCases DEF Next, LoadStep, Decide,
     ReviewStep, DeletionStep, RestoreStep

\* The loads of a file begin in the order of its versions.
LEMMA LoadInvStep ==
    ASSUME Types, LoadInv, RecordInv, [Next]_vars
    PROVE  LoadInv'
BY LoadPartStep, RestoreLinkStep DEF LoadInv, RestoreLink

\* The records that are closed.
LEMMA ClosesFacts ==
    ASSUME Types, NEW d
    PROVE  Closes(PendingRecords(d)) \subseteq PendingRecords(d)
<1>1. Len(written) \in Nat /\ PendingRecords(d) \in SUBSET (1 .. Len(written))
  BY DEF Types, DiskTypes, PendingRecords
<1> QED BY <1>1, LatestFacts DEF Closes

\* Closing records makes none for a version that has not begun.
LEMMA CloseBegun ==
    ASSUME Types, LoadInv, RecordInv, [Next]_vars, NEW S, \A n \in S : n \in Versions => Begun(n),
           records' \in {records, Close(S, "reverted")}
    PROVE  \A n \in Versions : records[n]'.status # "none" => Begun(n)'
<1>1. \A n \in Versions : records[n]'.status # "none" => records[n].status # "none" \/ n \in S
  BY DEF Close, Types, DiskTypes
<1> QED BY <1>1, BegunKept DEF RecordInv

\* What is to be restored are the newest pending records.
Todo == {Latest(PendingRecords(d)) : d \in {e \in Docs : PendingRecords(e) # {}}}

\* What is to be restored is the latest pending record of a file.
LEMMA PendingTodo ==
    ASSUME Types
    PROVE  \A v \in Todo : \E d \in Docs : v = Latest(PendingRecords(d)) /\
        v \in PendingRecords(d) /\ v \in Versions /\ \A w \in PendingRecords(d) : w <= v
<1> SUFFICES ASSUME NEW d \in Docs, PendingRecords(d) # {}
             PROVE  Latest(PendingRecords(d)) \in PendingRecords(d) /\
                 Latest(PendingRecords(d)) \in Versions /\
                 \A w \in PendingRecords(d) : w <= Latest(PendingRecords(d))
  BY DEF Todo
<1>1. Len(written) \in Nat /\ Len(written) <= MaxWrites BY DEF Types, DiskTypes
<1>2. PendingRecords(d) \in SUBSET (1 .. Len(written)) BY DEF PendingRecords
<1>3. /\ Latest(PendingRecords(d)) \in PendingRecords(d)
      /\ \A w \in PendingRecords(d) : w <= Latest(PendingRecords(d))
  BY <1>1, <1>2, LatestFacts
<1> QED BY <1>1, <1>2, <1>3, DiffReviewAssumption DEF DiffReviewAssumption, Versions

\* What has a record, or is to be restored, has begun.
LEMMA RecordInvStep ==
    ASSUME Types, LoadInv, RecordInv, [Next]_vars
    PROVE  RecordInv'
<1>1. CASE UNCHANGED vars
  <2>1. UNCHANGED <<records, restore>> BY <1>1 DEF vars
  <2> QED BY <2>1, BegunKept, Values DEF RecordInv, Types, WorkTypes, LoadTypes, Restores
<1>2. ASSUME NEW d \in Docs, AgentWrites(d) PROVE RecordInv'
  <2>1. \A n \in Versions : records[n]'.status # "none" => records[n].status # "none" \/ Begun(n)
    BY <1>2 DEF AgentWrites, Close, Types, DiskTypes
  <2>2. restore'.todo \subseteq restore.todo
    BY <1>2, FinishTypes, EmptyRecords DEF AgentWrites, Types, WorkTypes, LoadTypes, Restores
  <2> QED BY <2>1, <2>2, BegunKept, Values DEF RecordInv, Types, WorkTypes, LoadTypes, Restores
<1>3. ASSUME NEW d \in Docs, UserDeletes(d) PROVE RecordInv'
  <2>1. \A n \in Versions : records[n]'.status # "none" => records[n].status # "none" \/ Begun(n)
    BY <1>3 DEF UserDeletes, Close, Types, DiskTypes
  <2>2. restore'.todo \subseteq restore.todo
    BY <1>3, FinishTypes, EmptyRecords DEF UserDeletes, Types, WorkTypes, LoadTypes, Restores
  <2> QED BY <2>1, <2>2, BegunKept, Values DEF RecordInv, Types, WorkTypes, LoadTypes, Restores
<1>4. ASSUME NEW i \in Slots, DiffArrives(i) PROVE RecordInv'
  <2>1. \A n \in Versions : records[n]'.status # "none" => records[n].status # "none" \/ Begun(n)
    BY <1>4 DEF DiffArrives, StartLoad, Close, Types, DiskTypes
  <2>2. restore'.todo \subseteq restore.todo
    BY <1>4, FinishTypes, EmptyRecords DEF DiffArrives, StartLoad, Types, WorkTypes, LoadTypes,
       Restores
  <2> QED BY <2>1, <2>2, BegunKept, Values DEF RecordInv, Types, WorkTypes, LoadTypes, Restores
<1>5. ASSUME NEW i \in Slots, GiveUp(i) PROVE RecordInv'
  <2>1. \A n \in Versions : records[n]'.status # "none" => records[n].status # "none" \/ Begun(n)
    BY <1>5 DEF GiveUp, Step, Close, Types, DiskTypes
  <2>2. restore'.todo \subseteq restore.todo
    BY <1>5, FinishTypes, EmptyRecords DEF GiveUp, Step, Types, WorkTypes, LoadTypes, Restores
  <2> QED BY <2>1, <2>2, BegunKept, Values DEF RecordInv, Types, WorkTypes, LoadTypes, Restores
<1>6. ASSUME NEW i \in Slots, LoadFails(i) PROVE RecordInv'
  <2>1. \A n \in Versions : records[n]'.status # "none" => records[n].status # "none" \/ Begun(n)
    BY <1>6 DEF LoadFails, Step, Close, Types, DiskTypes
  <2>2. restore'.todo \subseteq restore.todo
    BY <1>6, FinishTypes, EmptyRecords DEF LoadFails, Step, Types, WorkTypes, LoadTypes, Restores
  <2> QED BY <2>1, <2>2, BegunKept, Values DEF RecordInv, Types, WorkTypes, LoadTypes, Restores
<1>7. ASSUME NEW i \in Slots, CancelDeleted(i) PROVE RecordInv'
  <2>1. \A n \in Versions : records[n]'.status # "none" => records[n].status # "none" \/ Begun(n)
    BY <1>7 DEF CancelDeleted, Step, Close, Types, DiskTypes
  <2>2. restore'.todo \subseteq restore.todo
    BY <1>7, FinishTypes, EmptyRecords DEF CancelDeleted, Step, Types, WorkTypes, LoadTypes,
       Restores
  <2> QED BY <2>1, <2>2, BegunKept, Values DEF RecordInv, Types, WorkTypes, LoadTypes, Restores
<1>8. ASSUME NEW i \in Slots, Previewed(i) PROVE RecordInv'
  <2>1. UNCHANGED <<records, restore>> BY <1>8 DEF Previewed
  <2> QED BY <2>1, BegunKept, Values DEF RecordInv, Types, WorkTypes, LoadTypes, Restores
<1>9. ASSUME NEW i \in Slots, CreateRecord(i) PROVE RecordInv'
  <2>1. i \in Versions /\ i # 0 /\ Begun(i) /\ UNCHANGED restore
    BY <1>9, AtWork DEF CreateRecord, Step, LoadInv, LoadPart, Underway
  <2>2. \A n \in Versions : records[n]'.status # "none" => records[n].status # "none" \/ n = i
    BY <1>9 DEF CreateRecord, Types, DiskTypes
  <2> QED BY <2>1, <2>2, BegunKept, Values DEF RecordInv, Types, WorkTypes, LoadTypes, Restores
<1>10. ASSUME NEW i \in Slots, RecordCreated(i) PROVE RecordInv'
  <2>1. restore'.todo \subseteq restore.todo BY <1>10, FinishTypes DEF RecordCreated
  <2>2. Begun(i) BY <1>10 DEF RecordCreated, Step, LoadInv, LoadPart, Underway, VersionOf
  <2>3. \A n \in {i} : n \in Versions => Begun(n) BY <2>2
  <2>4. records' \in {records, Close({i}, "reverted")} BY <1>10 DEF RecordCreated, Withdraw
  <2> QED BY <2>1, <2>3, <2>4, CloseBegun, BegunKept DEF RecordInv
<1>11. ASSUME NEW i \in Slots, Probe(i) PROVE RecordInv'
  <2>1. UNCHANGED <<records, restore>> BY <1>11 DEF Probe
  <2> QED BY <2>1, BegunKept, Values DEF RecordInv, Types, WorkTypes, LoadTypes, Restores
<1>12. ASSUME NEW i \in Slots, Commit(i) PROVE RecordInv'
  <2>1. \A n \in Versions : records[n]'.status # "none" => records[n].status # "none" \/ Begun(n)
    BY <1>12 DEF Commit, Close, Types, DiskTypes
  <2>2. restore'.todo \subseteq restore.todo
    BY <1>12, FinishTypes, EmptyRecords DEF Commit, Types, WorkTypes, LoadTypes, Restores
  <2> QED BY <2>1, <2>2, BegunKept, Values DEF RecordInv, Types, WorkTypes, LoadTypes, Restores
<1>13. ASSUME NEW m \in Mods, Accept(m) PROVE RecordInv'
  <2>1. \A n \in Versions : records[n]'.status # "none" => records[n].status # "none" \/ Begun(n)
    BY <1>13 DEF Accept, Rest, Close, Types, DiskTypes
  <2>2. restore'.todo \subseteq restore.todo
    BY <1>13, FinishTypes, EmptyRecords DEF Accept, Rest, Types, WorkTypes, LoadTypes, Restores
  <2> QED BY <2>1, <2>2, BegunKept, Values DEF RecordInv, Types, WorkTypes, LoadTypes, Restores
<1>14. ASSUME NEW m \in Mods, Reject(m) PROVE RecordInv'
  <2>1. \A n \in Versions : records[n]'.status # "none" => records[n].status # "none" \/ Begun(n)
    BY <1>14 DEF Reject, Rest, Close, Types, DiskTypes
  <2>2. restore'.todo \subseteq restore.todo
    BY <1>14, FinishTypes, EmptyRecords DEF Reject, Rest, Types, WorkTypes, LoadTypes, Restores
  <2> QED BY <2>1, <2>2, BegunKept, Values DEF RecordInv, Types, WorkTypes, LoadTypes, Restores
<1>15. CASE AcceptAll
  <2>1. \A n \in Versions : records[n]'.status # "none" => records[n].status # "none" \/ Begun(n)
    BY <1>15 DEF AcceptAll, Rest, MoveOn, Activate, Close, Types, DiskTypes
  <2>2. restore'.todo \subseteq restore.todo
    BY <1>15, FinishTypes, EmptyRecords DEF AcceptAll, Rest, MoveOn, Activate, Types, WorkTypes,
       LoadTypes, Restores
  <2> QED BY <2>1, <2>2, BegunKept, Values DEF RecordInv, Types, WorkTypes, LoadTypes, Restores
<1>16. CASE RejectAll
  <2>1. \A n \in Versions : records[n]'.status # "none" => records[n].status # "none" \/ Begun(n)
    BY <1>16 DEF RejectAll, Rest, Close, Types, DiskTypes
  <2>2. restore'.todo \subseteq restore.todo
    BY <1>16, FinishTypes, EmptyRecords DEF RejectAll, Rest, Types, WorkTypes, LoadTypes, Restores
  <2> QED BY <2>1, <2>2, BegunKept, Values DEF RecordInv, Types, WorkTypes, LoadTypes, Restores
<1>17. ASSUME NEW d \in Docs, SelectFile(d) PROVE RecordInv'
  <2>1. \A n \in Versions : records[n]'.status # "none" => records[n].status # "none" \/ Begun(n)
    BY <1>17 DEF SelectFile, Activate, Close, Types, DiskTypes
  <2>2. restore'.todo \subseteq restore.todo
    BY <1>17, FinishTypes, EmptyRecords DEF SelectFile, Activate, Types, WorkTypes, LoadTypes,
       Restores
  <2> QED BY <2>1, <2>2, BegunKept, Values DEF RecordInv, Types, WorkTypes, LoadTypes, Restores
<1>18. CASE ToggleMode
  <2>1. \A n \in Versions : records[n]'.status # "none" => records[n].status # "none" \/ Begun(n)
    BY <1>18 DEF ToggleMode, Activate, Close, Types, DiskTypes
  <2>2. restore'.todo \subseteq restore.todo
    BY <1>18, FinishTypes, EmptyRecords DEF ToggleMode, Activate, Types, WorkTypes, LoadTypes,
       Restores
  <2> QED BY <2>1, <2>2, BegunKept, Values DEF RecordInv, Types, WorkTypes, LoadTypes, Restores
<1>19. CASE ReviewDisk
  <2>1. \A n \in Versions : records[n]'.status # "none" => records[n].status # "none" \/ Begun(n)
    BY <1>19 DEF ReviewDisk, Close, Types, DiskTypes
  <2>2. restore'.todo \subseteq restore.todo
    BY <1>19, FinishTypes, EmptyRecords DEF ReviewDisk, Types, WorkTypes, LoadTypes, Restores
  <2> QED BY <2>1, <2>2, BegunKept, Values DEF RecordInv, Types, WorkTypes, LoadTypes, Restores
<1>20. CASE ReviewRecords
  <2>1. \A n \in PendingRecords(review.doc) : n \in Versions => records[n].status # "none"
    BY DEF PendingRecords
  <2>2. \A n \in Versions : records[n]'.status # "none" => records[n].status # "none"
    <3>1. CASE Reviewed(review.st)
      <4>1. records' = Close(Closes(PendingRecords(review.doc)), "applied")
        BY <1>20, <3>1 DEF ReviewRecords
      <4>2. Closes(PendingRecords(review.doc)) \subseteq PendingRecords(review.doc) BY ClosesFacts
      <4> QED BY <2>1, <4>1, <4>2 DEF Close, Types, DiskTypes
    <3>2. CASE ~Reviewed(review.st)
      BY <1>20, <3>2 DEF ReviewRecords, Types, DiskTypes
    <3> QED BY <3>1, <3>2
  <2>3. UNCHANGED restore BY <1>20 DEF ReviewRecords
  <2> QED BY <2>2, <2>3, BegunKept DEF RecordInv
<1>21. CASE AcceptLeaves
  <2>1. \A n \in Versions : records[n]'.status # "none" => records[n].status # "none" \/ Begun(n)
    BY <1>21 DEF AcceptLeaves, MoveOn, Activate, Close, Types, DiskTypes
  <2>2. restore'.todo \subseteq restore.todo
    BY <1>21, FinishTypes, EmptyRecords DEF AcceptLeaves, MoveOn, Activate, Types, WorkTypes,
       LoadTypes, Restores
  <2> QED BY <2>1, <2>2, BegunKept, Values DEF RecordInv, Types, WorkTypes, LoadTypes, Restores
<1>22. CASE Discard
  <2>1. \A n \in Versions : records[n]'.status # "none" => records[n].status # "none" \/ Begun(n)
    BY <1>22 DEF Discard, Close, Types, DiskTypes
  <2>2. restore'.todo \subseteq restore.todo
    BY <1>22, FinishTypes, EmptyRecords DEF Discard, Types, WorkTypes, LoadTypes, Restores
  <2> QED BY <2>1, <2>2, BegunKept, Values DEF RecordInv, Types, WorkTypes, LoadTypes, Restores
<1>23. CASE DiscardRecords
  <2>1. PICK S : records' = Close(S, "reverted") /\ \A n \in S : n \in Versions => Begun(n)
    BY <1>23 DEF DiscardRecords, PendingRecords, RecordInv
  <2>2. restore'.todo \subseteq restore.todo
    BY <1>23, FinishTypes, EmptyRecords DEF DiscardRecords, Types, WorkTypes, LoadTypes, Restores
  <2> QED BY <2>1, <2>2, CloseBegun, BegunKept DEF RecordInv
<1>24. CASE BeginRestore
  <2>1. UNCHANGED records
        /\ restore' \in {NoRestore, [NoRestore EXCEPT !.pc = "next", !.todo = Todo]}
    BY <1>24 DEF BeginRestore, Todo
  <2>2. \A n \in restore'.todo : n \in Versions /\ records[n].status = "pending"
    <3>1. CASE restore' = NoRestore BY <3>1, EmptyRecords
    <3>2. CASE restore' = [NoRestore EXCEPT !.pc = "next", !.todo = Todo]
      <4>1. restore'.todo = Todo BY <3>2, EmptyRecords DEF Restores
      <4> QED BY <4>1, PendingTodo DEF PendingRecords
    <3> QED BY <2>1, <3>1, <3>2
  <2> QED BY <2>1, <2>2, BegunKept, Values DEF RecordInv
<1>25. CASE RestoreEnds
  <2>1. \A n \in Versions : records[n]'.status # "none" => records[n].status # "none" \/ Begun(n)
    BY <1>25 DEF RestoreEnds, RestoreWaits, Close, Types, DiskTypes
  <2>2. restore'.todo \subseteq restore.todo
    BY <1>25, FinishTypes, EmptyRecords DEF RestoreEnds, RestoreWaits, Types, WorkTypes,
      LoadTypes, Restores
  <2> QED BY <2>1, <2>2, BegunKept, Values DEF RecordInv, Types, WorkTypes, LoadTypes, Restores
<1>26. ASSUME NEW v \in restore.todo, RestoreSkips(v) PROVE RecordInv'
  <2>1. \A n \in Versions : records[n]'.status # "none" => records[n].status # "none" \/ Begun(n)
    BY <1>26 DEF RestoreSkips, RestoreGoesOn, RestoreWaits, Close, Types, DiskTypes
  <2>2. restore'.todo \subseteq restore.todo
    BY <1>26, FinishTypes, EmptyRecords DEF RestoreSkips, RestoreGoesOn, RestoreWaits, Types,
      WorkTypes, LoadTypes, Restores
  <2> QED BY <2>1, <2>2, BegunKept, Values DEF RecordInv, Types, WorkTypes, LoadTypes, Restores
<1>27. ASSUME NEW v \in restore.todo, RestoreCloses(v) PROVE RecordInv'
  <2>1. PICK S : records' = Close(S, "reverted") /\ \A n \in S : n \in Versions => Begun(n)
    BY <1>27 DEF RestoreCloses, RecordInv
  <2>2. restore'.todo \subseteq restore.todo
    BY <1>27, FinishTypes, EmptyRecords DEF RestoreCloses, RestoreGoesOn, RestoreWaits, Types,
      WorkTypes, LoadTypes, Restores
  <2> QED BY <2>1, <2>2, CloseBegun, BegunKept DEF RecordInv
<1>28. ASSUME NEW v \in restore.todo, RestoreStarts(v) PROVE RecordInv'
  <2>1. \A n \in Versions : records[n]'.status # "none" => records[n].status # "none" \/ Begun(n)
    BY <1>28 DEF RestoreStarts, RestoreGoesOn, RestoreWaits, StartLoad, Close, Types, DiskTypes
  <2>2. restore'.todo \subseteq restore.todo
    BY <1>28, FinishTypes, EmptyRecords DEF RestoreStarts, RestoreGoesOn, RestoreWaits,
      StartLoad, Types, WorkTypes, LoadTypes, Restores
  <2> QED BY <2>1, <2>2, BegunKept, Values DEF RecordInv, Types, WorkTypes, LoadTypes, Restores
<1>29. CASE Restart
  <2>1. UNCHANGED records /\ restore'.todo = {} BY <1>29, EmptyRecords DEF Restart, NoRestore
  <2> QED BY <2>1, BegunKept, Values DEF RecordInv
<1>30. ASSUME NEW i \in Slots, CloseStale(i) PROVE RecordInv'
  <2> DEFINE S == UNION {PendingRecords(d) : d \in loads[i].stale}
  <2>1. records' = Close(S, "reverted") /\ UNCHANGED restore BY <1>30 DEF CloseStale
  <2>2. \A n \in S : n \in Versions => Begun(n)
    <3> SUFFICES ASSUME NEW d, NEW n \in PendingRecords(d), n \in Versions PROVE Begun(n)
      OBVIOUS
    <3>1. records[n].status # "none" BY DEF PendingRecords
    <3> QED BY <3>1 DEF RecordInv
  <2> HIDE DEF S
  <2> QED BY <2>1, <2>2, CloseBegun, BegunKept DEF RecordInv
<1>31. CASE ReviewSnapshot
  <2>1. UNCHANGED <<records, restore>> BY <1>31 DEF ReviewSnapshot
  <2> QED BY <2>1, BegunKept, Values DEF RecordInv, Types, WorkTypes, LoadTypes, Restores
<1>32. CASE ReviewMark
  <2>1. UNCHANGED <<records, restore>> BY <1>32 DEF ReviewMark
  <2> QED BY <2>1, BegunKept, Values DEF RecordInv, Types, WorkTypes, LoadTypes, Restores
<1>33. CASE Project
  <2>1. UNCHANGED records /\ restore'.todo = restore.todo
    BY <1>33 DEF Project, Types, WorkTypes, LoadTypes, Restores
  <2> QED BY <2>1, BegunKept, Values DEF RecordInv, Types, WorkTypes, LoadTypes, Restores
<1> QED BY <1>1, <1>2, <1>3, <1>4, <1>5, <1>6, <1>7, <1>8, <1>9, <1>10, <1>11, <1>12, <1>13,
     <1>14, <1>15, <1>16, <1>17, <1>18, <1>19, <1>20, <1>21, <1>22, <1>23, <1>24, <1>25, <1>26,
     <1>27, <1>28, <1>29, <1>30, <1>31, <1>32, <1>33, RestoreCases DEF Next, LoadStep, Decide,
     ReviewStep, DeletionStep, RestoreStep

-----------------------------------------------------------------------------
(* What the steps do to the panel *)

\* Records of the files, of which the panel can be made up.
Fitting(es) ==
    /\ es \in [Docs -> Shows]
    /\ \A d \in Docs :
         /\ es[d].ver = 0 => es[d] = NoEntry
         /\ es[d].ver # 0 => es[d].ver <= Len(written) /\ written[es[d].ver] = d

\* Without changes there is nothing to decide.
LEMMA NothingPending == ~HasPending(NoChanges)
BY DEF HasPending, NoChanges

\* What the panel shows, file by file.
LEMMA PanelFitting ==
    ASSUME Types, PanelInv
    PROVE  /\ Fitting(WithActive) /\ Fitting(entries)
           /\ \A d \in Docs : Shown(d) \in Shows /\ WithActive[d] = Shown(d)
           /\ \A d \in Docs : Shown(d).ver = 0 => Shown(d) = NoEntry
           /\ \A d \in Docs : d # active => Shown(d) = entries[d]
           /\ active \in Docs => Shown(active) = top
<1>1. WithActive \in [Docs -> Shows] /\ \A d \in Docs : Shown(d) \in Shows /\
        WithActive[d] = Shown(d)
  BY ShownTypes DEF Types
<1>2. \A d \in Docs : Shown(d).ver = 0 => Shown(d) = NoEntry
  BY Values DEF Shown, PanelInv, ShownPart, Types, PanelTypes
<1>3. \A d \in Docs : entries[d].ver = Shown(d).ver BY Values DEF Shown, PanelInv
<1> QED BY <1>1, <1>2, <1>3 DEF Fitting, Shown, PanelInv, ShownPart, Types, PanelTypes

\* What is shown of a file is a version of it.
LEMMA ShownVersions ==
    ASSUME Types, PanelInv, NEW d \in Docs
    PROVE  /\ Shown(d) \in Shows /\ Shown(d).ver \in Slots /\ Shown(d).ver \in Nat
           /\ Shown(d).ver # 0 => Shown(d).ver \in 1 .. Len(written) /\ written[Shown(d).ver] = d
<1>1. Shown(d) \in Shows BY PanelFitting
<1>2. Shown(d).ver \in Slots /\ Shown(d).ver \in Nat BY <1>1, Values DEF Shows
<1>3. Len(written) \in Nat BY DEF Types, DiskTypes
<1> QED BY <1>1, <1>2, <1>3 DEF PanelInv, ShownPart

\* A file becomes the active one.
LEMMA ActivateFacts ==
    ASSUME NEW es, Fitting(es), NEW d \in Docs, es[d].ver # 0, Activate(es, d), UNCHANGED written
    PROVE  PanelInv' /\ \A e \in Docs : Shown(e)' = es[e]
<1>1. \A e \in Docs : Shown(e)' = es[e] BY DEF Activate, Shown
<1>2. active' = d /\ top' = es[d] /\ entries' = es BY DEF Activate
<1> QED BY <1>1, <1>2, Values DEF PanelInv, ShownPart, Fitting

\* Leaving a file for the next changes what is shown of the file left.
LEMMA MoveOnFacts ==
    ASSUME Types, PanelInv, NEW es \in [Docs -> Shows], NEW st, NEW c,
           \A d \in Docs : d # active => es[d] = entries[d],
           active \in Docs => es[active].ver = top.ver /\ es[active].whole = top.whole
                                /\ es[active].st = st,
           st \in Marks, c \in Readable,
           MoveOn(es, st, c), UNCHANGED written
    PROVE  /\ PanelInv'
           /\ \A d \in Docs : d # active => Shown(d)' = Shown(d)
           /\ \A d \in Docs : d = active => Shown(d)'.ver = Shown(d).ver
                                            /\ Shown(d)'.whole = Shown(d).whole
                                            /\ Shown(d)'.st = st
<1>1. top \in Shows /\ [top EXCEPT !.st = st, !.content = c].ver = top.ver
      /\ [top EXCEPT !.st = st, !.content = c].st = st
      /\ [top EXCEPT !.st = st, !.content = c].whole = top.whole
  BY DEF Types, PanelTypes, Shows
<1>2. Fitting(es)
  <2>1. ASSUME NEW d \in Docs, d = active
        PROVE  es[d].ver # 0 /\ es[d].ver <= Len(written) /\ written[es[d].ver] = d
    BY <2>1, PanelFitting, Values DEF PanelInv, ShownPart
  <2> QED BY <2>1, PanelFitting DEF Fitting
<1>3. ASSUME NEW d \in PendingElsewhere(es, active), Activate(es, d)
      PROVE  PanelInv' /\ \A e \in Docs : Shown(e)' = es[e]
  <2>1. d \in Docs /\ HasPending(es[d].st) BY DEF PendingElsewhere
  <2>2. es[d].ver # 0 BY <1>2, <2>1, NothingPending, EmptyRecords DEF Fitting
  <2> QED BY <1>2, <1>3, <2>1, <2>2, ActivateFacts
<1>4. CASE top' = [top EXCEPT !.st = st, !.content = c] /\ entries' = es /\ UNCHANGED active
  <2>1. \A e \in Docs : Shown(e)' = IF e = active THEN top' ELSE es[e] BY <1>4 DEF Shown
  <2>2. top'.ver = top.ver /\ top'.st = st /\ top'.whole = top.whole BY <1>1, <1>4
  <2>3. \A e \in Docs : Shown(e)'.ver = es[e].ver BY <2>1, <2>2
  <2>4. PanelInv'
    BY <1>2, <1>4, <2>2, <2>3, Values DEF PanelInv, ShownPart, Fitting, Types, PanelTypes
  <2> QED BY <2>1, <2>2, <2>4 DEF Shown
<1> QED BY <1>3, <1>4 DEF MoveOn, Shown

\* The versions shown stay, or a load, a deletion or a restart changes them.
SameVersions == \A d \in Docs : Shown(d)'.ver = Shown(d).ver
Committed(i) ==
    /\ Commit(i)
    /\ \A d \in Docs :
         Shown(d)' = IF d = DocOf(i)
                     THEN [NoEntry EXCEPT !.ver = VersionOf(i), !.content = loads[i].content,
                                          !.st = loads[i].st]
                     ELSE IF d \in loads[i].stale THEN NoEntry ELSE Shown(d)
Discarded == Discard /\ \A d \in Docs : Shown(d)' = IF d = deletion.doc THEN NoEntry ELSE Shown(d)
Cleared == Restart /\ \A d \in Docs : Shown(d)' = NoEntry
Projected ==
    LET p == restore.plan.ver IN
    /\ Project /\ RestoreCurrent /\ restore.plan # NoEntry
    /\ p \in 1 .. Len(written) /\ written[p] = active /\ active \in Docs
    /\ \A d \in Docs : d # active => Shown(d)' = Shown(d)
    /\ \E st \in {restore.plan.st} \cup (IF calm THEN {} ELSE {NoChanges}) :
         Shown(active)' = [restore.plan EXCEPT !.st = st]
    /\ Shown(active).ver # 0

\* A panel that is left alone shows the same.
LEMMA SamePanel ==
    ASSUME PanelInv, UNCHANGED <<active, top, entries, written>>
    PROVE  PanelInv' /\ SameVersions /\ \A d \in Docs : Shown(d)' = Shown(d)
BY DEF PanelInv, ShownPart, SameVersions, Shown

\* The marks of the active file change.
LEMMA MarksChange ==
    ASSUME Types, PanelInv, top'.ver = top.ver, top'.whole = top.whole,
           UNCHANGED <<active, entries, written>>
    PROVE  /\ PanelInv' /\ SameVersions
           /\ \A d \in Docs : d # active => Shown(d)' = Shown(d)
           /\ \A d \in Docs : d = active => Shown(d)' = top'
BY DEF PanelInv, ShownPart, SameVersions, Shown

\* A commit shows the loaded version of its file.
LEMMA CommitFacts ==
    ASSUME Types, PanelInv, LoadInv, NEW i \in Slots, Commit(i)
    PROVE  PanelInv' /\ Committed(i)
<1>1. /\ VersionOf(i) \in 1 .. Len(written) /\ VersionOf(i) \in Slots /\ VersionOf(i) # 0 /\
         DocOf(i) \in Docs
      /\ DocOf(i) = written[VersionOf(i)] /\ Len(written) \in Nat
  BY AtWork, Values DEF Commit, Step, DocOf, Types, DiskTypes
<1> DEFINE entry == [NoEntry EXCEPT !.ver = VersionOf(i), !.content = loads[i].content,
                                    !.st = loads[i].st]
           es == [e \in Docs |-> IF e = DocOf(i) THEN entry
                                 ELSE IF e \in loads[i].stale THEN NoEntry ELSE Shown(e)]
<1>2. loads[i] \in Loads BY DEF Types, WorkTypes, LoadTypes
<1>3. entry \in Shows /\ entry.ver = VersionOf(i) BY <1>1, <1>2, EmptyRecords DEF Shows, Loads
<1>4. Activate(es, DocOf(i)) /\ UNCHANGED written BY DEF Commit
<1> HIDE DEF entry
<1>5. es \in [Docs -> Shows] BY <1>3, PanelFitting, EmptyRecords
<1>6. Fitting(es)
  <2> SUFFICES ASSUME NEW d \in Docs
               PROVE  /\ es[d].ver = 0 => es[d] = NoEntry
                      /\ es[d].ver # 0 => es[d].ver <= Len(written) /\ written[es[d].ver] = d
    BY <1>5 DEF Fitting
  <2>1. CASE d = DocOf(i) BY <1>1, <1>3, <2>1
  <2>2. CASE d # DocOf(i) BY <2>2, PanelFitting, EmptyRecords DEF Fitting
  <2> QED BY <2>1, <2>2
<1>7. es[DocOf(i)].ver # 0 BY <1>1, <1>3
<1>8. PanelInv' /\ \A e \in Docs : Shown(e)' = es[e]
  <2> HIDE DEF es
  <2> QED BY <1>1, <1>4, <1>6, <1>7, ActivateFacts
<1> QED BY <1>8 DEF Committed, entry

\* A discard shows the file of the deletion no more.
LEMMA DiscardFacts ==
    ASSUME Types, PanelInv, Discard
    PROVE  PanelInv' /\ Discarded
<1> DEFINE d == deletion.doc
           es == [WithActive EXCEPT ![d] = NoEntry]
<1>1. d \in Docs BY DEF Discard, Types, WorkTypes, DecisionTypes
<1>2. es \in [Docs -> Shows] /\ \A e \in Docs : es[e] = IF e = d THEN NoEntry ELSE Shown(e)
  BY <1>1, PanelFitting, EmptyRecords DEF Fitting
<1>3. Fitting(es)
  <2> SUFFICES ASSUME NEW e \in Docs
               PROVE  /\ es[e].ver = 0 => es[e] = NoEntry
                      /\ es[e].ver # 0 => es[e].ver <= Len(written) /\ written[es[e].ver] = e
    BY <1>2 DEF Fitting
  <2> QED BY <1>2, PanelFitting, EmptyRecords DEF Fitting
<1>4. UNCHANGED written BY DEF Discard
<1>5. \/ /\ d # active /\ entries' = (IF entries[d] = NoEntry THEN entries ELSE es)
         /\ UNCHANGED <<active, top>>
      \/ d = active /\ \E e \in PendingElsewhere(es, d) : Activate(es, e)
      \/ d = active /\ active' = NoDoc /\ top' = NoEntry /\ entries' = es
  BY Zenon DEF Discard
<1> HIDE DEF d, es
<1>6. CASE d # active /\ entries' = (IF entries[d] = NoEntry THEN entries ELSE es) /\
        UNCHANGED <<active, top>>
  <2>1. \A e \in Docs : Shown(e)' = IF e = d THEN NoEntry ELSE Shown(e)
    BY <1>1, <1>2, <1>6, PanelFitting DEF Shown
  <2>2. \A e \in Docs : Shown(e)' = es[e] BY <1>2, <2>1
  <2>3. active \in Docs => entries'[active].ver = top.ver /\ entries'[active].whole = top.whole
    <3>1. active \in Docs => entries[active].ver = top.ver /\ entries[active].whole = top.whole
                             /\ es[active] = top
      BY <1>2, <1>6, PanelFitting, Values DEF PanelInv
    <3> QED BY <1>6, <3>1
  <2>4. \A e \in Docs : entries'[e].ver = 0 => entries'[e] = NoEntry
    BY <1>2, <1>3, <1>6 DEF Fitting, PanelInv, ShownPart
  <2>5. PanelInv'
    BY <1>3, <1>4, <1>6, <2>2, <2>3, <2>4, Values DEF PanelInv, ShownPart, Fitting, Types,
       PanelTypes
  <2> QED BY <2>1, <2>5 DEF Discarded, d
<1>7. ASSUME NEW e \in PendingElsewhere(es, d), Activate(es, e) PROVE PanelInv' /\ Discarded
  <2>1. e \in Docs /\ HasPending(es[e].st) BY DEF PendingElsewhere
  <2>2. es[e].ver # 0 BY <1>3, <2>1, NothingPending, EmptyRecords DEF Fitting
  <2>3. PanelInv' /\ \A f \in Docs : Shown(f)' = es[f]
    BY <1>3, <1>4, <1>7, <2>1, <2>2, ActivateFacts
  <2> QED BY <1>2, <2>3 DEF Discarded, d
<1>8. CASE active' = NoDoc /\ top' = NoEntry /\ entries' = es
  <2>1. \A e \in Docs : Shown(e)' = es[e] BY <1>8, Values DEF Shown
  <2>2. PanelInv' BY <1>3, <1>4, <1>8, <2>1, EmptyRecords, Values DEF PanelInv, ShownPart, Fitting
  <2> QED BY <1>2, <2>1, <2>2 DEF Discarded, d
<1> QED BY <1>5, <1>6, <1>7, <1>8

\* After a restart nothing is shown.
LEMMA RestartFacts ==
    ASSUME Types, Restart
    PROVE  PanelInv' /\ Cleared
<1>1. active' = NoDoc /\ top' = NoEntry /\ entries' = [d \in Docs |-> NoEntry] BY DEF Restart
<1>2. \A d \in Docs : Shown(d)' = NoEntry BY <1>1 DEF Shown
<1> QED BY <1>1, <1>2, EmptyRecords, Values DEF PanelInv, ShownPart, Cleared

\* A decision changes the marks of the active file only.
MarksOnly(st) ==
    /\ PanelInv'
    /\ \A d \in Docs : d # active => Shown(d)' = Shown(d)
    /\ \A d \in Docs : d = active => Shown(d)'.ver = Shown(d).ver
                                     /\ Shown(d)'.whole = Shown(d).whole /\ Shown(d)'.st = st

AllMarked(v) == [m \in Mods |-> IF top.st[m] = "pending" THEN v ELSE top.st[m]]

\* An accepted change is marked.
LEMMA AcceptFacts ==
    ASSUME Types, PanelInv, NEW m \in Mods, Accept(m)
    PROVE  MarksOnly(Decided(m, "applied"))
<1>1. top'.ver = top.ver /\ top'.whole = top.whole /\ top'.st = Decided(m, "applied") /\
        UNCHANGED <<active, entries, written>>
  BY DEF Accept, Types, PanelTypes, Shows
<1> QED BY <1>1, MarksChange DEF MarksOnly, SameVersions, Shown

\* A rejected change is marked.
LEMMA RejectFacts ==
    ASSUME Types, PanelInv, NEW m \in Mods, Reject(m)
    PROVE  MarksOnly(Decided(m, "rejected"))
<1>1. top'.ver = top.ver /\ top'.whole = top.whole /\ top'.st = Decided(m, "rejected") /\
        UNCHANGED <<active, entries, written>>
  BY DEF Reject, Types, PanelTypes, Shows
<1> QED BY <1>1, MarksChange DEF MarksOnly, SameVersions, Shown

\* Rejecting all marks what is pending.
LEMMA RejectAllFacts ==
    ASSUME Types, PanelInv, RejectAll
    PROVE  MarksOnly(AllMarked("rejected"))
<1>1. top'.ver = top.ver /\ top'.whole = top.whole /\ top'.st = AllMarked("rejected") /\
        UNCHANGED <<active, entries, written>>
  BY DEF RejectAll, AllMarked, Types, PanelTypes, Shows
<1> QED BY <1>1, MarksChange DEF MarksOnly, SameVersions, Shown

\* Accepting all marks what is pending.
LEMMA AcceptAllFacts ==
    ASSUME Types, PanelInv, AcceptAll
    PROVE  MarksOnly(AllMarked("applied"))
<1> DEFINE st == AllMarked("applied")
           es == [entries EXCEPT ![active] = [top EXCEPT !.st = st]]
<1>1. CanReview /\ top.st \in Marks /\ top.content \in Readable
  BY DEF AcceptAll, Types, PanelTypes, Shows
<1>2. st \in Marks BY <1>1, DecidedMarks DEF AllMarked
<1>3. MoveOn(es, st, top.content) /\ UNCHANGED written BY DEF AcceptAll, AllMarked
<1> HIDE DEF st
<1>4. active \in Docs /\ [top EXCEPT !.st = st] \in Shows BY <1>1, <1>2, ReviewedFile
<1>5. es \in [Docs -> Shows] BY <1>4 DEF Types, PanelTypes
<1>6. \A d \in Docs : d # active => es[d] = entries[d] BY DEF Types, PanelTypes
<1>7. es[active].ver = top.ver /\ es[active].whole = top.whole /\ es[active].st = st
     BY <1>4 DEF Types, PanelTypes, Shows
<1> HIDE DEF es
<1> QED BY <1>1, <1>2, <1>3, <1>5, <1>6, <1>7, MoveOnFacts DEF MarksOnly, st

\* Leaving an accepted file keeps the marks decided.
LEMMA AcceptLeavesFacts ==
    ASSUME Types, PanelInv, AcceptLeaves
    PROVE  MarksOnly(review.st)
<1> DEFINE es == [d \in Docs |-> IF d = active /\ entries[d] # NoEntry
                                 THEN [entries[d] EXCEPT !.st = review.st] ELSE entries[d]]
<1>1. review.st \in Marks /\ top.content \in Readable
  BY DEF Types, PanelTypes, WorkTypes, DecisionTypes, Reviews, Shows
<1>2. MoveOn(es, review.st, top.content) /\ UNCHANGED written BY DEF AcceptLeaves
<1>3. es \in [Docs -> Shows] BY <1>1 DEF Types, PanelTypes, Shows
<1>4. \A d \in Docs : d # active => es[d] = entries[d] OBVIOUS
<1>5. active \in Docs => es[active].ver = top.ver /\ es[active].whole = top.whole
                         /\ es[active].st = review.st
  BY <1>1, EmptyRecords, Values DEF PanelInv, Types, PanelTypes, Shows
<1> HIDE DEF es
<1> QED BY <1>1, <1>2, <1>3, <1>4, <1>5, MoveOnFacts DEF MarksOnly

\* Selecting a file changes nothing that is shown.
LEMMA SelectFacts ==
    ASSUME Types, PanelInv, NEW d \in Docs, SelectFile(d)
    PROVE  PanelInv' /\ \A e \in Docs : Shown(e)' = Shown(e)
<1>1. d # active /\ HasPending(entries[d].st) /\ Activate(WithActive, d) /\ UNCHANGED written
  BY DEF SelectFile
<1>2. WithActive[d].ver # 0 BY <1>1, PanelFitting, NothingPending, EmptyRecords
<1> QED BY <1>1, <1>2, PanelFitting, ActivateFacts

\* The other mode shows the same versions.
LEMMA ToggleFacts ==
    ASSUME Types, PanelInv, ToggleMode
    PROVE  PanelInv' /\ SameVersions /\ (calm => \A e \in Docs : Shown(e)' = Shown(e))
<1>1. CASE UNCHANGED <<active, top, entries>> BY <1>1, SamePanel DEF ToggleMode
<1>2. ASSUME NEW d \in PendingElsewhere(entries, active), Activate(entries, d), ~calm
      PROVE  PanelInv' /\ SameVersions
  <2>1. d \in Docs /\ HasPending(entries[d].st) BY DEF PendingElsewhere
  <2>2. entries[d].ver # 0 BY <2>1, NothingPending, EmptyRecords DEF PanelInv, ShownPart
  <2>3. PanelInv' /\ \A e \in Docs : Shown(e)' = entries[e]
    BY <1>2, <2>1, <2>2, PanelFitting, ActivateFacts DEF ToggleMode
  <2>4. \A e \in Docs : entries[e].ver = Shown(e).ver BY Values DEF PanelInv, Shown
  <2> QED BY <2>3, <2>4 DEF SameVersions
<1> QED BY <1>1, <1>2 DEF ToggleMode

\* A projection changes what is shown of the active file, or nothing.
LEMMA ProjectFacts ==
    ASSUME Types, PanelInv, PlanInv, Project
    PROVE  PanelInv' /\ (Projected \/ \A d \in Docs : Shown(d)' = Shown(d))
           /\ (Projected \/ SameVersions)
<1>1. UNCHANGED <<active, written>> BY DEF Project
<1>2. CASE UNCHANGED <<top, entries, mode>> BY <1>1, <1>2, SamePanel
<1>3. CASE ~UNCHANGED <<top, entries, mode>>
  <2>1. RestoreCurrent /\ restore.plan # NoEntry BY <1>3 DEF Project
  <2>2. PICK st \in {restore.plan.st} \cup (IF calm THEN {} ELSE {NoChanges}) :
          top' = [restore.plan EXCEPT !.st = st] /\ entries' = [entries EXCEPT ![active] = top']
    BY <1>3 DEF Project
  <2> DEFINE p == restore.plan.ver
  <2>3. p \in 1 .. Len(written) BY <2>1 DEF PlanInv, Begun
  <2>4. written[p] \in Docs /\ Len(written) \in Nat BY <2>3 DEF Types, DiskTypes
  <2>5. written[p] = active /\ entries[active] # NoEntry BY <2>1 DEF RestoreCurrent
  <2>6. active \in Docs /\ active # NoDoc BY <2>4, <2>5, Values
  <2>7. top'.ver = p /\ top' = [restore.plan EXCEPT !.st = st]
    BY <2>2 DEF Types, WorkTypes, LoadTypes, Restores, Shows
  <2>8. p # 0 /\ p <= Len(written) BY <2>3, <2>4
  <2>9. entries'[active] = top' /\ \A d \in Docs : d # active => entries'[d] = entries[d]
    BY <2>2, <2>6 DEF Types, PanelTypes
  <2>10. Shown(active)' = top' /\ \A d \in Docs : d # active => Shown(d)' = Shown(d)
    BY <1>1, <2>9 DEF Shown
  <2> HIDE DEF p
  <2>11. PanelInv'
    <3>1. active' = active /\ written' = written BY <1>1
    <3>2. ASSUME NEW d \in Docs PROVE ShownPart(d)'
      <4>1. CASE d = active
        <5>0. entries'[d] = top' /\ Shown(d)' = top' BY <2>9, <2>10, <3>1, <4>1
        <5>1. entries'[d].ver = p /\ Shown(d)'.ver = p BY <2>7, <5>0
        <5> QED BY <2>5, <2>8, <3>1, <4>1, <5>1 DEF ShownPart
      <4>2. CASE d # active
        <5>1. entries'[d] = entries[d] /\ Shown(d)' = Shown(d) BY <2>9, <2>10, <4>2
        <5> QED BY <3>1, <5>1 DEF PanelInv, ShownPart
      <4> QED BY <4>1, <4>2
    <3>3. top'.ver # 0 /\ entries'[active] = top' BY <2>7, <2>8, <2>9
    <3> QED BY <2>6, <3>1, <3>2, <3>3 DEF PanelInv
  <2>12. Shown(active).ver # 0 BY <2>6 DEF PanelInv, Shown
  <2>13. Projected BY <2>1, <2>2, <2>3, <2>5, <2>6, <2>7, <2>10, <2>12 DEF Projected, p
  <2> QED BY <2>11, <2>13
<1> QED BY <1>2, <1>3

\* The steps, by what they do to the panel.
PanelMoves ==
    /\ PanelInv'
    /\ SameVersions \/ Discarded \/ Cleared \/ Projected \/ \E i \in Slots : Committed(i)


\* Every step is one of these.
LEMMA PanelStep ==
    ASSUME Types, PanelInv, LoadInv, PlanInv, [Next]_vars
    PROVE  PanelMoves
<1>1. CASE UNCHANGED vars
  <2>1. UNCHANGED <<active, top, entries, written>> BY <1>1 DEF vars
  <2> QED BY <2>1, SamePanel DEF PanelMoves
<1>2. ASSUME NEW d \in Docs, AgentWrites(d) PROVE PanelMoves
  <2>1. UNCHANGED <<active, top, entries>> BY <1>2 DEF AgentWrites
  <2>2. \A e \in Docs : Shown(e)' = Shown(e) BY <2>1 DEF Shown
  <2>3. Writing(d) /\ Len(written) \in Nat /\ \A e \in Docs : Shown(e).ver \in Nat
    <3>1. \A e \in Docs : Shown(e) \in Shows BY PanelFitting
    <3>2. \A e \in Docs : Shown(e).ver \in Nat BY <3>1, Values DEF Shows
    <3> QED BY <1>2, <3>2, WritingFacts DEF Types, DiskTypes
  <2> QED BY <2>1, <2>2, <2>3 DEF PanelMoves, SameVersions, PanelInv, ShownPart, Writing
<1>3. ASSUME NEW d \in Docs, UserDeletes(d) PROVE PanelMoves
  <2>1. UNCHANGED <<active, top, entries, written>> BY <1>3 DEF UserDeletes
  <2> QED BY <2>1, SamePanel DEF PanelMoves
<1>4. ASSUME NEW i \in Slots, DiffArrives(i) PROVE PanelMoves
  <2>1. UNCHANGED <<active, top, entries, written>> BY <1>4 DEF DiffArrives
  <2> QED BY <2>1, SamePanel DEF PanelMoves
<1>5. ASSUME NEW i \in Slots, GiveUp(i) PROVE PanelMoves
  <2>1. UNCHANGED <<active, top, entries, written>> BY <1>5 DEF GiveUp
  <2> QED BY <2>1, SamePanel DEF PanelMoves
<1>6. ASSUME NEW i \in Slots, LoadFails(i) PROVE PanelMoves
  <2>1. UNCHANGED <<active, top, entries, written>> BY <1>6 DEF LoadFails
  <2> QED BY <2>1, SamePanel DEF PanelMoves
<1>7. ASSUME NEW i \in Slots, CancelDeleted(i) PROVE PanelMoves
  <2>1. UNCHANGED <<active, top, entries, written>> BY <1>7 DEF CancelDeleted
  <2> QED BY <2>1, SamePanel DEF PanelMoves
<1>8. ASSUME NEW i \in Slots, Previewed(i) PROVE PanelMoves
  <2>1. UNCHANGED <<active, top, entries, written>> BY <1>8 DEF Previewed
  <2> QED BY <2>1, SamePanel DEF PanelMoves
<1>9. ASSUME NEW i \in Slots, CreateRecord(i) PROVE PanelMoves
  <2>1. UNCHANGED <<active, top, entries, written>> BY <1>9 DEF CreateRecord
  <2> QED BY <2>1, SamePanel DEF PanelMoves
<1>10. ASSUME NEW i \in Slots, RecordCreated(i) PROVE PanelMoves
  <2>1. UNCHANGED <<active, top, entries, written>> BY <1>10 DEF RecordCreated
  <2> QED BY <2>1, SamePanel DEF PanelMoves
<1>11. ASSUME NEW i \in Slots, Probe(i) PROVE PanelMoves
  <2>1. UNCHANGED <<active, top, entries, written>> BY <1>11 DEF Probe
  <2> QED BY <2>1, SamePanel DEF PanelMoves
<1>12. ASSUME NEW i \in Slots, Commit(i) PROVE PanelMoves
  <2> QED BY <1>12, CommitFacts DEF PanelMoves
<1>13. ASSUME NEW m \in Mods, Accept(m) PROVE PanelMoves
  <2> QED BY <1>13, AcceptFacts DEF PanelMoves, MarksOnly, SameVersions
<1>14. ASSUME NEW m \in Mods, Reject(m) PROVE PanelMoves
  <2> QED BY <1>14, RejectFacts DEF PanelMoves, MarksOnly, SameVersions
<1>15. CASE AcceptAll
  <2> QED BY <1>15, AcceptAllFacts DEF PanelMoves, MarksOnly, SameVersions
<1>16. CASE RejectAll
  <2> QED BY <1>16, RejectAllFacts DEF PanelMoves, MarksOnly, SameVersions
<1>17. ASSUME NEW d \in Docs, SelectFile(d) PROVE PanelMoves
  <2> QED BY <1>17, SelectFacts DEF PanelMoves, SameVersions
<1>18. CASE ToggleMode
  <2> QED BY <1>18, ToggleFacts DEF PanelMoves
<1>19. CASE ReviewDisk
  <2>1. UNCHANGED <<active, top, entries, written>> BY <1>19 DEF ReviewDisk
  <2> QED BY <2>1, SamePanel DEF PanelMoves
<1>20. CASE ReviewRecords
  <2>1. UNCHANGED <<active, top, entries, written>> BY <1>20 DEF ReviewRecords
  <2> QED BY <2>1, SamePanel DEF PanelMoves
<1>21. CASE AcceptLeaves
  <2> QED BY <1>21, AcceptLeavesFacts DEF PanelMoves, MarksOnly, SameVersions
<1>22. CASE Discard
  <2> QED BY <1>22, DiscardFacts DEF PanelMoves
<1>23. CASE DiscardRecords
  <2>1. UNCHANGED <<active, top, entries, written>> BY <1>23 DEF DiscardRecords
  <2> QED BY <2>1, SamePanel DEF PanelMoves
<1>24. CASE BeginRestore
  <2>1. UNCHANGED <<active, top, entries, written>> BY <1>24 DEF BeginRestore
  <2> QED BY <2>1, SamePanel DEF PanelMoves
<1>25. CASE RestoreEnds
  <2>1. UNCHANGED <<active, top, entries, written>> BY <1>25 DEF RestoreEnds
  <2> QED BY <2>1, SamePanel DEF PanelMoves
<1>26. ASSUME NEW v \in restore.todo, RestoreSkips(v) PROVE PanelMoves
  <2>1. UNCHANGED <<active, top, entries, written>> BY <1>26 DEF RestoreSkips, RestoreGoesOn
  <2> QED BY <2>1, SamePanel DEF PanelMoves
<1>27. ASSUME NEW v \in restore.todo, RestoreCloses(v) PROVE PanelMoves
  <2>1. UNCHANGED <<active, top, entries, written>> BY <1>27 DEF RestoreCloses, RestoreGoesOn
  <2> QED BY <2>1, SamePanel DEF PanelMoves
<1>28. ASSUME NEW v \in restore.todo, RestoreStarts(v) PROVE PanelMoves
  <2>1. UNCHANGED <<active, top, entries, written>> BY <1>28 DEF RestoreStarts, RestoreGoesOn
  <2> QED BY <2>1, SamePanel DEF PanelMoves
<1>29. CASE Restart
  <2> QED BY <1>29, RestartFacts DEF PanelMoves
<1>30. ASSUME NEW i \in Slots, CloseStale(i) PROVE PanelMoves
  <2>1. UNCHANGED <<active, top, entries, written>> BY <1>30 DEF CloseStale
  <2> QED BY <2>1, SamePanel DEF PanelMoves
<1>31. CASE ReviewSnapshot
  <2>1. UNCHANGED <<active, top, entries, written>> BY <1>31 DEF ReviewSnapshot
  <2> QED BY <2>1, SamePanel DEF PanelMoves
<1>32. CASE ReviewMark
  <2>1. UNCHANGED <<active, top, entries, written>> BY <1>32 DEF ReviewMark
  <2> QED BY <2>1, SamePanel DEF PanelMoves
<1>33. CASE Project
  <2> QED BY <1>33, ProjectFacts DEF PanelMoves
<1> QED BY <1>1, <1>2, <1>3, <1>4, <1>5, <1>6, <1>7, <1>8, <1>9, <1>10, <1>11, <1>12, <1>13,
     <1>14, <1>15, <1>16, <1>17, <1>18, <1>19, <1>20, <1>21, <1>22, <1>23, <1>24, <1>25, <1>26,
     <1>27, <1>28, <1>29, <1>30, <1>31, <1>32, <1>33, RestoreCases DEF Next, LoadStep, Decide,
     ReviewStep, DeletionStep, RestoreStep

-----------------------------------------------------------------------------
(* The newest load wins *)

\* What a load brings to the panel, and what a projection does.
LEMMA CommittedEntry ==
    ASSUME NEW i \in Slots, Committed(i), NEW d \in Docs, d = DocOf(i)
    PROVE  /\ loads[i].pc = "commit" /\ ~Superseded(i) /\ Shown(d)'.ver = VersionOf(i)
           /\ Shown(d)'.st = loads[i].st /\ ~Shown(d)'.whole
<1>1. loads[i].pc = "commit" /\ ~Superseded(i) BY DEF Committed, Commit, Step
<1>2. Shown(d)' = [NoEntry EXCEPT !.ver = VersionOf(i), !.content = loads[i].content,
                                  !.st = loads[i].st]
  BY DEF Committed
<1> QED BY <1>1, <1>2 DEF NoEntry

LEMMA ProjectedEntry ==
    ASSUME Types, Projected
    PROVE  /\ active \in Docs /\ restore.plan \in Shows /\ Shown(active)'.ver = restore.plan.ver
           /\ Shown(active)'.whole = restore.plan.whole
           /\ \E st \in {restore.plan.st} \cup (IF calm THEN {} ELSE {NoChanges}) :
                Shown(active)'.st = st
<1>1. active \in Docs BY DEF Projected
<1>2. restore.plan \in Shows BY DEF Types, WorkTypes, LoadTypes, Restores
<1>3. PICK st \in {restore.plan.st} \cup (IF calm THEN {} ELSE {NoChanges}) :
        Shown(active)' = [restore.plan EXCEPT !.st = st]
  BY DEF Projected
<1>4. Shown(active)'.ver = restore.plan.ver /\ Shown(active)'.whole = restore.plan.whole
      /\ Shown(active)'.st = st
  BY <1>2, <1>3 DEF Shows
<1> QED BY <1>1, <1>2, <1>4

\* What was written stays written.
LEMMA WrittenStays ==
    ASSUME Types, LoadInv, RecordInv, [Next]_vars, NEW v, Begun(v)
    PROVE  written'[v] = written[v]
<1>1. v \in 1 .. Len(written) BY DEF Begun
<1>2. Restart => written' = written BY DEF Restart
<1> QED BY <1>1, <1>2, MovesStep DEF Moves, NoNewLoads, Writing, Starting

\* The loads of older versions stay behind.
LEMMA OlderStay ==
    ASSUME Types, LoadInv, RecordInv, [Next]_vars, NEW d \in Docs, NEW u, Begun(u), written[u] = d,
           NEW g \in Nat, g <= gen[d],
           \A v \in 1 .. u - 1 : written[v] = d /\ Underway(v) => loads[v].gen < g
    PROVE  /\ \A v \in 1 .. u - 1 : written'[v] = d /\ Underway(v)' => loads[v]'.gen < g
           /\ gen'[d] \in Nat /\ (Restart \/ g <= gen'[d])
<1> DEFINE Goal == /\ \A v \in 1 .. u - 1 : written'[v] = d /\ Underway(v)' => loads[v]'.gen < g
                   /\ gen'[d] \in Nat /\ (Restart \/ g <= gen'[d])
<1>1. u \in 1 .. Len(written) /\ Len(written) \in Nat /\ gen[d] \in Nat /\ gen'[d] \in Nat
  <2>1. gen'[d] \in Nat BY LoadTypesStep DEF LoadTypes
  <2>2. u \in 1 .. Len(written) /\ Len(written) \in Nat BY DEF Begun, Types, DiskTypes
  <2> QED BY <2>1, <2>2 DEF Types, WorkTypes, LoadTypes
<1>2. \A v \in 1 .. u - 1 : v \in 1 .. Len(written) /\ v \in Slots /\ v # 0
  <2>1. Len(written) <= MaxWrites BY DEF Types, DiskTypes
  <2> QED BY <1>1, <2>1, DiffReviewAssumption DEF DiffReviewAssumption, Slots
<1>3. CASE NoNewLoads
  <2>1. gen[d] <= gen'[d] BY <1>3 DEF NoNewLoads
  <2>2. ASSUME NEW v \in 1 .. u - 1, written'[v] = d, Underway(v)' PROVE loads[v]'.gen < g
    <3>1. written[v] = d /\ Underway(v) /\ loads[v]'.gen = loads[v].gen
      BY <1>2, <1>3, <2>2 DEF NoNewLoads, GoesOn, Underway
    <3> QED BY <3>1
  <2> QED BY <1>1, <2>1, <2>2
<1>4. CASE Restart
  <2>1. \A v \in 1 .. u - 1 : loads[v]'.pc = "idle" BY <1>2, <1>4, EmptyRecords DEF Restart
  <2> QED BY <1>1, <1>4, <2>1 DEF Underway
<1>5. ASSUME NEW e \in Docs, Writing(e) PROVE Goal
  <2>1. gen' = gen /\ \A v \in 1 .. u - 1 : loads[v]' = loads[v] /\ written'[v] = written[v]
    BY <1>1, <1>2, <1>5 DEF Writing
  <2> QED BY <1>1, <2>1 DEF Underway
<1>6. ASSUME NEW k \in Slots, NEW n \in 1 .. Len(written), Starting(k, n) PROVE Goal
  <2>1. written' = written /\ gen[d] <= gen'[d]
    <3>1. written[n] \in Docs /\ gen \in [Docs -> Nat] BY DEF Types, DiskTypes, WorkTypes, LoadTypes
    <3> QED BY <1>1, <1>6, <3>1 DEF Starting
  <2>2. ASSUME NEW v \in 1 .. u - 1, written'[v] = d, Underway(v)' PROVE loads[v]'.gen < g
    <3>1. v # k BY <1>1, <1>2, <1>6, <2>1, <2>2 DEF Starting, Begun
    <3>2. loads[v]' = loads[v] BY <1>2, <1>6, <3>1 DEF Starting
    <3> QED BY <2>1, <2>2, <3>2 DEF Underway
  <2> QED BY <1>1, <2>1, <2>2
<1> QED BY <1>3, <1>4, <1>5, <1>6, MovesStep DEF Moves

\* They stay behind the newest one.
LEMMA OlderKept ==
    ASSUME Types, LoadInv, RecordInv, [Next]_vars, NEW d \in Docs, NEW u, Begun(u), written[u] = d,
           \A v \in 1 .. u - 1 : written[v] = d /\ Underway(v) => loads[v].gen < gen[d]
    PROVE  \A v \in 1 .. u - 1 : written'[v] = d /\ Underway(v)' => loads[v]'.gen < gen'[d]
<1> SUFFICES ASSUME NEW v \in 1 .. u - 1, written'[v] = d, Underway(v)'
             PROVE  loads[v]'.gen < gen'[d]
  OBVIOUS
<1>1. PICK g \in Nat : g = gen[d] BY DEF Types, WorkTypes, LoadTypes
<1>2. loads[v]'.gen < g /\ gen'[d] \in Nat /\ (Restart \/ g <= gen'[d]) BY <1>1, OlderStay
<1>3. v \in Slots
  <2>1. u \in 1 .. Len(written) /\ Len(written) \in Nat /\ Len(written) <= MaxWrites
    BY DEF Begun, Types, DiskTypes
  <2> QED BY <2>1, DiffReviewAssumption DEF DiffReviewAssumption, Slots
<1>4. ~Restart
  <2>1. Restart => loads[v]'.pc = "idle" BY <1>3, EmptyRecords DEF Restart
  <2> QED BY <2>1 DEF Underway
<1>5. loads[v]'.gen \in Nat BY <1>3, LoadTypesStep DEF LoadTypes, Loads
<1> QED BY <1>2, <1>4, <1>5

\* What is to be projected stays so until it is given up; a restore starts it with a load.
PlanStays == restore'.plan = restore.plan /\ restore'.pc = restore.pc /\ restore'.gen = restore.gen
LEMMA PlanMoves ==
    ASSUME Types, [Next]_vars
    PROVE  PlanStays \/ restore'.plan = NoEntry \/ \E v \in restore.todo : RestoreStarts(v)
<1>1. restore' = restore => PlanStays BY DEF PlanStays
<1>2. CASE UNCHANGED vars BY <1>1, <1>2 DEF vars
<1>3. ASSUME NEW d \in Docs, AgentWrites(d) \/ UserDeletes(d) PROVE restore' = restore
  BY <1>3 DEF AgentWrites, UserDeletes
<1>4. ASSUME NEW i \in Slots, LoadStep(i) PROVE PlanStays
  <2>1. CASE Finish(i) BY <2>1 DEF Finish, PlanStays, Types, WorkTypes, LoadTypes, Restores
  <2>2. CASE ~Finish(i)
    <3>1. restore' = restore
      BY <1>4, <2>2 DEF LoadStep, DiffArrives, GiveUp, LoadFails, CancelDeleted, Previewed,
         CreateRecord, RecordCreated, Probe, CloseStale, Commit
    <3> QED BY <1>1, <3>1
  <2> QED BY <2>1, <2>2
<1>5. CASE Decide BY <1>1, <1>5 DEF Decide, Accept, Reject, AcceptAll, RejectAll, SelectFile,
     ToggleMode
<1>6. CASE ReviewStep
  BY <1>1, <1>6 DEF ReviewStep, ReviewDisk, ReviewSnapshot, ReviewMark, ReviewRecords, AcceptLeaves
<1>7. CASE DeletionStep BY <1>1, <1>7 DEF DeletionStep, Discard, DiscardRecords
<1>8. CASE BeginRestore BY <1>8, EmptyRecords DEF BeginRestore
<1>9. CASE RestoreEnds BY <1>9, EmptyRecords DEF RestoreEnds
<1>10. ASSUME NEW v \in restore.todo, RestoreSkips(v) \/ RestoreCloses(v) PROVE PlanStays
  BY <1>10 DEF RestoreSkips, RestoreCloses, PlanStays, Types, WorkTypes, LoadTypes, Restores
<1>11. CASE Project BY <1>11 DEF Project, Types, WorkTypes, LoadTypes, Restores
<1>12. CASE Restart BY <1>12, EmptyRecords DEF Restart
<1> QED BY <1>1, <1>2, <1>3, <1>4, <1>5, <1>6, <1>7, <1>8, <1>9, <1>10, <1>11, <1>12, RestoreCases
     DEF Next, RestoreStep

\* What is to be projected has begun, and what is older is behind.
LEMMA PlanStep ==
    ASSUME Types, LoadInv, RecordInv, PlanInv, [Next]_vars
    PROVE  PlanInv'
<1>1. CASE PlanStays
  <2> SUFFICES ASSUME restore'.plan # NoEntry PROVE PlanInv' BY DEF PlanInv
  <2>1. PICK p, g : p = restore.plan.ver /\ g = restore.gen OBVIOUS
  <2>2. /\ restore.pc = "next" /\ Begun(p) /\ g <= gen[written[p]]
        /\ \A v \in 1 .. p - 1 : written[v] = written[p] /\ Underway(v) => loads[v].gen < g
    BY <1>1, <2>1 DEF PlanInv, PlanStays
  <2>3. p \in 1 .. Len(written) /\ g \in Nat
    BY <2>1, <2>2 DEF Begun, Types, WorkTypes, LoadTypes, Restores
  <2>4. PICK d \in Docs : d = written[p] BY <2>3 DEF Types, DiskTypes
  <2>5. ~Restart
    <3>1. Restart => restore' = [NoRestore EXCEPT !.pc = "mounted"] BY DEF Restart
    <3>2. Restart => restore'.pc = "mounted" BY <3>1 DEF NoRestore
    <3> QED BY <1>1, <2>2, <3>2 DEF PlanStays
  <2>6. Begun(p)' BY <2>2, BegunKept
  <2>7. written'[p] = d BY <2>2, <2>4, WrittenStays
  <2>8. \A v \in 1 .. p - 1 : written[v] = d /\ Underway(v) => loads[v].gen < g BY <2>2, <2>4
  <2>9. /\ \A v \in 1 .. p - 1 : written'[v] = d /\ Underway(v)' => loads[v]'.gen < g
        /\ g <= gen'[d]
    BY <2>2, <2>3, <2>4, <2>5, <2>8, OlderStay
  <2>10. restore'.plan.ver = p /\ restore'.gen = g /\ restore'.pc = "next"
    BY <1>1, <2>1, <2>2 DEF PlanStays
  <2> QED BY <2>6, <2>7, <2>9, <2>10 DEF PlanInv
<1>2. CASE restore'.plan = NoEntry BY <1>2 DEF PlanInv
<1>3. ASSUME NEW v \in restore.todo, RestoreStarts(v) PROVE PlanInv'
  <2> SUFFICES ASSUME restore'.plan # NoEntry PROVE PlanInv' BY DEF PlanInv
  <2>1. v \in 1 .. Len(written) /\ Starting(0, v) BY <1>3, RestartingFacts
  <2>2. PICK d \in Docs : d = written[v] BY <2>1 DEF Types, DiskTypes
  <2>3. restore'.plan = Projection(v) /\ restore'.gen = gen[d] + 1 /\ restore'.pc = "next"
    BY <1>3, <2>2
    DEF RestoreStarts, RestoreGoesOn, RestoreWaits, Types, WorkTypes, LoadTypes, Restores
  <2>4. PICK p : p = restore'.plan.ver OBVIOUS
  <2>5. p \in {v} \cup PendingRecords(d)
    BY <1>3, <2>1, <2>2, <2>3, <2>4, RestoredTypes DEF RestoreStarts
  <2>6. p \in 1 .. Len(written) /\ written[p] = d BY <2>1, <2>2, <2>5 DEF PendingRecords
  <2>7. Begun(p)
    <3>1. CASE p = v BY <3>1 DEF RecordInv
    <3>2. CASE p \in PendingRecords(d)
      <4>1. p \in Versions BY <2>6, WrittenVersions
      <4> QED BY <3>2, <4>1 DEF RecordInv, PendingRecords
    <3> QED BY <2>5, <3>1, <3>2
  <2>8. Begun(p)' /\ written' = written BY <2>1, <2>7, BegunKept DEF Starting
  <2>9. gen[d] \in Nat /\ gen'[d] = gen[d] + 1
    BY <2>1, <2>2 DEF Starting, Types, WorkTypes, LoadTypes
  <2>10. ASSUME NEW w \in 1 .. p - 1, written[w] = d, Underway(w)' PROVE loads[w]'.gen < gen[d] + 1
    <3>1. w \in 1 .. Len(written) BY <2>6 DEF Types, DiskTypes
    <3>2. w \in Slots /\ w # 0 BY <3>1, WrittenVersions
    <3>3. loads[w]' = loads[w] BY <2>1, <3>2 DEF Starting
    <3>4. Underway(w) /\ VersionOf(w) = w BY <2>10, <3>2, <3>3 DEF Underway, VersionOf
    <3>5. loads[w].gen <= gen[d] BY <2>10, <3>2, <3>4 DEF LoadInv, LoadPart, DocOf
    <3>6. loads[w].gen \in Nat BY <3>2 DEF Types, WorkTypes, LoadTypes, Loads
    <3> QED BY <2>9, <3>3, <3>5, <3>6
  <2> QED BY <2>3, <2>4, <2>6, <2>8, <2>9, <2>10 DEF PlanInv
<1> QED BY <1>1, <1>2, <1>3, PlanMoves

\* What is shown stays newer than the loads behind it.
LEMMA NewestPartStep ==
    ASSUME Types, PanelInv, LoadInv, RecordInv, NewestInv, PlanInv, [Next]_vars, NEW d \in Docs
    PROVE  NewestPart(d)'
<1>1. /\ Shown(d).ver \in Nat /\ Len(written) \in Nat
      /\ Shown(d).ver # 0 => Shown(d).ver <= Len(written) /\ written[Shown(d).ver] = d
  BY ShownVersions DEF Types, DiskTypes
<1>2. NoEntry.ver = 0 BY EmptyRecords
<1>3. CASE Shown(d)'.ver = Shown(d).ver
  <2> DEFINE u == Shown(d).ver
  <2> SUFFICES ASSUME u # 0 PROVE NewestPart(d)' BY <1>3 DEF NewestPart
  <2>1. PICK n : n = u OBVIOUS
  <2>2. Begun(n) /\ written[n] = d
        /\ \A v \in 1 .. n - 1 : written[v] = d /\ Underway(v) => loads[v].gen < gen[d]
    BY <1>1, <2>1 DEF NewestInv, NewestPart
  <2>3. Begun(n)' BY <2>2, BegunKept
  <2>4. \A v \in 1 .. n - 1 : written'[v] = d /\ Underway(v)' => loads[v]'.gen < gen'[d]
    BY <2>2, OlderKept
  <2> QED BY <1>3, <2>1, <2>3, <2>4 DEF NewestPart
<1>4. CASE Shown(d)'.ver = 0 BY <1>4 DEF NewestPart
<1>5. ASSUME NEW i \in Slots, Committed(i), d = DocOf(i) PROVE NewestPart(d)'
  <2>1. loads[i].pc = "commit" /\ ~Superseded(i) /\ Shown(d)'.ver = VersionOf(i)
    BY <1>5, CommittedEntry
  <2>2. PICK n \in 1 .. Len(written) : n = VersionOf(i) /\ written[n] = d
    BY <1>5, <2>1, AtWork DEF DocOf
  <2>3. Begun(n) /\ loads[i].gen = gen[d]
        /\ \A v \in 1 .. n - 1 : written[v] = d /\ Underway(v) => loads[v].gen < gen[d]
    BY <1>5, <2>1, <2>2 DEF LoadInv, LoadPart, Underway, Superseded
  <2>4. Begun(n)' BY <2>3, BegunKept
  <2>5. \A v \in 1 .. n - 1 : written'[v] = d /\ Underway(v)' => loads[v]'.gen < gen'[d]
    BY <2>2, <2>3, OlderKept
  <2> QED BY <2>1, <2>2, <2>4, <2>5 DEF NewestPart
<1>6. CASE Discarded BY <1>2, <1>3, <1>4, <1>6 DEF Discarded
<1>7. CASE Cleared BY <1>2, <1>4, <1>7 DEF Cleared
<1>8. ASSUME NEW i \in Slots, Committed(i), d # DocOf(i) PROVE NewestPart(d)'
  BY <1>2, <1>3, <1>4, <1>8 DEF Committed
<1>9. CASE Projected
  <2>1. CASE d # active BY <1>3, <1>9, <2>1 DEF Projected
  <2>2. CASE d = active
    <3>1. PICK p \in 1 .. Len(written) : p = restore.plan.ver /\ written[p] = d
      BY <1>9, <2>2 DEF Projected
    <3>2. Shown(d)'.ver = p
      BY <1>9, <2>2, <3>1, ProjectedEntry DEF Projected, Project
    <3>3. Begun(p) /\ restore.gen = gen[d] /\ gen' = gen
          /\ \A v \in 1 .. p - 1 : written[v] = d /\ Underway(v) => loads[v].gen < gen[d]
      BY <1>9, <3>1 DEF Projected, Project, RestoreCurrent, PlanInv
    <3>4. Begun(p)' BY <3>3, BegunKept
    <3>5. \A v \in 1 .. p - 1 : written'[v] = d /\ Underway(v)' => loads[v]'.gen < gen'[d]
      BY <3>1, <3>3, OlderKept
    <3> QED BY <3>2, <3>4, <3>5 DEF NewestPart
  <2> QED BY <2>1, <2>2
<1> QED BY <1>3, <1>5, <1>6, <1>7, <1>8, <1>9, PanelStep DEF PanelMoves, SameVersions

\* A step takes the panel to an older version only when a restore brings one back.
NewestWins ==
    \A d \in Docs : restarts' = restarts /\ restore.pc # "next" /\ Shown(d) # NoEntry /\
        Shown(d)' # NoEntry
                       => Shown(d)'.ver >= Shown(d).ver

\* No step replaces what is shown by an older version.
LEMMA NewestWinsStep ==
    ASSUME Types, PanelInv, LoadInv, NewestInv, PlanInv, [Next]_vars
    PROVE  NewestWins
<1> SUFFICES ASSUME NEW d \in Docs, restarts' = restarts, restore.pc # "next", Shown(d) # NoEntry,
                    Shown(d)' # NoEntry
             PROVE  Shown(d)'.ver >= Shown(d).ver
  BY DEF NewestWins
<1>1. Shown(d).ver \in Nat /\ Len(written) \in Nat BY ShownVersions DEF Types, DiskTypes
<1>2. ASSUME NEW i \in Slots, Committed(i), d = DocOf(i) PROVE Shown(d)'.ver >= Shown(d).ver
  <2>1. loads[i].pc = "commit" /\ ~Superseded(i) /\ Shown(d)'.ver = VersionOf(i)
    BY <1>2, CommittedEntry
  <2>2. i # 0 /\ VersionOf(i) = i /\ written[i] = d /\ i \in 1 .. Len(written)
    BY <1>2, <2>1, AtWork DEF DocOf
  <2>3. loads[i].gen = gen[d] /\ Underway(i) BY <1>2, <2>1 DEF Superseded, Underway
  <2>4. gen[d] \in Nat BY DEF Types, WorkTypes, LoadTypes
  <2>5. ~(i \in 1 .. Shown(d).ver - 1) BY <1>1, <2>2, <2>3, <2>4 DEF NewestInv, NewestPart
  <2> QED BY <1>1, <2>1, <2>2, <2>5
<1>3. CASE SameVersions BY <1>1, <1>3 DEF SameVersions
<1>4. CASE Discarded BY <1>1, <1>4 DEF Discarded
<1>5. CASE Cleared BY <1>5 DEF Cleared
<1>6. ASSUME NEW i \in Slots, Committed(i), d # DocOf(i) PROVE Shown(d)'.ver >= Shown(d).ver
  BY <1>1, <1>6 DEF Committed
<1>7. ~Projected BY DEF Projected, PlanInv
<1> QED BY <1>2, <1>3, <1>4, <1>5, <1>6, <1>7, PanelStep DEF PanelMoves

-----------------------------------------------------------------------------
(* What was deleted stays so *)

\* A deletion is handled, or is over before a restart or by a review that writes the file again.
GoneMove ==
    \A e \in Docs : goneAt'[e] \in {0, goneAt[e]} \/
        (Discard /\ e = deletion.doc /\ goneAt'[e] = deletion.upTo)

\* A load is past its preview because it was, or because of this step.
PreviewPassed == \A j \in Slots : Passed(j)' => Passed(j) \/ Previewed(j)

\* What is pending was, or its record has just been created.
PendingStays == \A e \in Docs : \A n \in PendingRecords(e)' : n \in PendingRecords(e) \/
    CreateRecord(n)

\* A deletion goes on to the records it has seen.
DeletionStays ==
    deletion.pc = "records" =>
        \/ DiscardRecords \/ Restart
        \/ deletion'.pc = "records" /\ deletion'.doc = deletion.doc /\
            deletion'.before = deletion.before

\* A stale load stays so until its record is withdrawn.
RecordedStays ==
    \A n \in Slots : n # 0 /\ loads[n].pc = "recorded" /\ Superseded(n) =>
        RecordCreated(n) \/ Restart \/ (loads[n]'.pc = "recorded" /\ Superseded(n)')

\* How a step changes what is known of deletions.
LEMMA GoneMoves ==
    ASSUME Types, [Next]_vars
    PROVE  GoneMove
<1>1. CASE UNCHANGED vars BY <1>1 DEF vars, GoneMove
<1>2. ASSUME NEW d \in Docs, AgentWrites(d) PROVE GoneMove
  <2>1. UNCHANGED goneAt BY <1>2 DEF AgentWrites
  <2> QED BY <2>1 DEF GoneMove
<1>3. ASSUME NEW d \in Docs, UserDeletes(d) PROVE GoneMove
  <2>1. UNCHANGED goneAt BY <1>3 DEF UserDeletes
  <2> QED BY <2>1 DEF GoneMove
<1>4. ASSUME NEW i \in Slots, DiffArrives(i) PROVE GoneMove
  <2>1. UNCHANGED goneAt BY <1>4 DEF DiffArrives
  <2> QED BY <2>1 DEF GoneMove
<1>5. ASSUME NEW i \in Slots, GiveUp(i) PROVE GoneMove
  <2>1. UNCHANGED goneAt BY <1>5 DEF GiveUp
  <2> QED BY <2>1 DEF GoneMove
<1>6. ASSUME NEW i \in Slots, LoadFails(i) PROVE GoneMove
  <2>1. UNCHANGED goneAt BY <1>6 DEF LoadFails
  <2> QED BY <2>1 DEF GoneMove
<1>7. ASSUME NEW i \in Slots, CancelDeleted(i) PROVE GoneMove
  <2>1. UNCHANGED goneAt BY <1>7 DEF CancelDeleted
  <2> QED BY <2>1 DEF GoneMove
<1>8. ASSUME NEW i \in Slots, Previewed(i) PROVE GoneMove
  <2>1. UNCHANGED goneAt BY <1>8 DEF Previewed
  <2> QED BY <2>1 DEF GoneMove
<1>9. ASSUME NEW i \in Slots, CreateRecord(i) PROVE GoneMove
  <2>1. UNCHANGED goneAt BY <1>9 DEF CreateRecord
  <2> QED BY <2>1 DEF GoneMove
<1>10. ASSUME NEW i \in Slots, RecordCreated(i) PROVE GoneMove
  <2>1. UNCHANGED goneAt BY <1>10 DEF RecordCreated
  <2> QED BY <2>1 DEF GoneMove
<1>11. ASSUME NEW i \in Slots, Probe(i) PROVE GoneMove
  <2>1. UNCHANGED goneAt BY <1>11 DEF Probe
  <2> QED BY <2>1 DEF GoneMove
<1>12. ASSUME NEW i \in Slots, Commit(i) PROVE GoneMove
  <2>1. UNCHANGED goneAt BY <1>12 DEF Commit
  <2> QED BY <2>1 DEF GoneMove
<1>13. ASSUME NEW m \in Mods, Accept(m) PROVE GoneMove
  <2>1. UNCHANGED goneAt BY <1>13 DEF Accept
  <2> QED BY <2>1 DEF GoneMove
<1>14. ASSUME NEW m \in Mods, Reject(m) PROVE GoneMove
  <2>1. UNCHANGED goneAt BY <1>14 DEF Reject
  <2> QED BY <2>1 DEF GoneMove
<1>15. CASE AcceptAll
  <2>1. UNCHANGED goneAt BY <1>15 DEF AcceptAll
  <2> QED BY <2>1 DEF GoneMove
<1>16. CASE RejectAll
  <2>1. UNCHANGED goneAt BY <1>16 DEF RejectAll
  <2> QED BY <2>1 DEF GoneMove
<1>17. ASSUME NEW d \in Docs, SelectFile(d) PROVE GoneMove
  <2>1. UNCHANGED goneAt BY <1>17 DEF SelectFile
  <2> QED BY <2>1 DEF GoneMove
<1>18. CASE ToggleMode
  <2>1. UNCHANGED goneAt BY <1>18 DEF ToggleMode
  <2> QED BY <2>1 DEF GoneMove
<1>19. CASE ReviewDisk
  <2> QED BY <1>19 DEF ReviewDisk, GoneMove, Types, CounterTypes
<1>20. CASE ReviewRecords
  <2>1. UNCHANGED goneAt BY <1>20 DEF ReviewRecords
  <2> QED BY <2>1 DEF GoneMove
<1>21. CASE AcceptLeaves
  <2>1. UNCHANGED goneAt BY <1>21 DEF AcceptLeaves
  <2> QED BY <2>1 DEF GoneMove
<1>22. CASE Discard
  <2> QED BY <1>22 DEF Discard, GoneMove, Types, CounterTypes
<1>23. CASE DiscardRecords
  <2>1. UNCHANGED goneAt BY <1>23 DEF DiscardRecords
  <2> QED BY <2>1 DEF GoneMove
<1>24. CASE BeginRestore
  <2>1. UNCHANGED goneAt BY <1>24 DEF BeginRestore
  <2> QED BY <2>1 DEF GoneMove
<1>25. CASE RestoreEnds
  <2>1. UNCHANGED goneAt BY <1>25 DEF RestoreEnds
  <2> QED BY <2>1 DEF GoneMove
<1>26. ASSUME NEW v \in restore.todo, RestoreSkips(v) PROVE GoneMove
  <2>1. UNCHANGED goneAt BY <1>26 DEF RestoreSkips, RestoreGoesOn
  <2> QED BY <2>1 DEF GoneMove
<1>27. ASSUME NEW v \in restore.todo, RestoreCloses(v) PROVE GoneMove
  <2>1. UNCHANGED goneAt BY <1>27 DEF RestoreCloses, RestoreGoesOn
  <2> QED BY <2>1 DEF GoneMove
<1>28. ASSUME NEW v \in restore.todo, RestoreStarts(v) PROVE GoneMove
  <2>1. UNCHANGED goneAt BY <1>28 DEF RestoreStarts, RestoreGoesOn
  <2> QED BY <2>1 DEF GoneMove
<1>29. CASE Restart
  <2> QED BY <1>29 DEF Restart, GoneMove
<1>30. ASSUME NEW i \in Slots, CloseStale(i) PROVE GoneMove
  <2>1. UNCHANGED goneAt BY <1>30 DEF CloseStale
  <2> QED BY <2>1 DEF GoneMove
<1>31. CASE ReviewSnapshot
  <2>1. UNCHANGED goneAt BY <1>31 DEF ReviewSnapshot
  <2> QED BY <2>1 DEF GoneMove
<1>32. CASE ReviewMark
  <2>1. UNCHANGED goneAt BY <1>32 DEF ReviewMark
  <2> QED BY <2>1 DEF GoneMove
<1>33. CASE Project
  <2>1. UNCHANGED goneAt BY <1>33 DEF Project
  <2> QED BY <2>1 DEF GoneMove
<1> QED BY <1>1, <1>2, <1>3, <1>4, <1>5, <1>6, <1>7, <1>8, <1>9, <1>10, <1>11, <1>12, <1>13,
     <1>14, <1>15, <1>16, <1>17, <1>18, <1>19, <1>20, <1>21, <1>22, <1>23, <1>24, <1>25, <1>26,
     <1>27, <1>28, <1>29, <1>30, <1>31, <1>32, <1>33, RestoreCases DEF Next, LoadStep, Decide,
     ReviewStep, DeletionStep, RestoreStep

\* A load passes its preview for a file that was there.
LEMMA PassesPreview ==
    ASSUME Types, LoadInv, RecordInv, [Next]_vars
    PROVE  PreviewPassed
<1>1. CASE UNCHANGED vars BY <1>1 DEF vars, PreviewPassed, Passed
<1>2. ASSUME NEW d \in Docs, AgentWrites(d) PROVE PreviewPassed
  <2>1. /\ loads'[Len(written) + 1].pc = "written"
        /\ \A j \in Slots \ {Len(written) + 1} : loads'[j] = loads[j]
    BY <1>2, WritingFacts, EmptyRecords DEF Writing, NoLoad
  <2> QED BY <2>1 DEF PreviewPassed, Passed
<1>3. ASSUME NEW d \in Docs, UserDeletes(d) PROVE PreviewPassed
  <2>1. UNCHANGED loads BY <1>3 DEF UserDeletes
  <2> QED BY <2>1 DEF PreviewPassed, Passed
<1>4. ASSUME NEW i \in Slots, DiffArrives(i) PROVE PreviewPassed
  <2> QED BY <1>4, StartingFacts DEF Starting, PreviewPassed, Passed
<1>5. ASSUME NEW i \in Slots, GiveUp(i) PROVE PreviewPassed
  <2>1. Finish(i) /\ UNCHANGED <<written, gen>> BY <1>5 DEF GiveUp
  <2> QED BY <2>1, FinishMoves, EmptyRecords DEF PreviewPassed, Passed
<1>6. ASSUME NEW i \in Slots, LoadFails(i) PROVE PreviewPassed
  <2>1. Finish(i) /\ UNCHANGED <<written, gen>> BY <1>6 DEF LoadFails
  <2> QED BY <2>1, FinishMoves, EmptyRecords DEF PreviewPassed, Passed
<1>7. ASSUME NEW i \in Slots, CancelDeleted(i) PROVE PreviewPassed
  <2>1. Finish(i) /\ UNCHANGED <<written, gen>> BY <1>7 DEF CancelDeleted
  <2> QED BY <2>1, FinishMoves, EmptyRecords DEF PreviewPassed, Passed
<1>8. ASSUME NEW i \in Slots, Previewed(i) PROVE PreviewPassed
  <2>1. PICK to \in {"commit", "record"} : Advance(i, to) BY <1>8 DEF Previewed
  <2>2. Underway(i) /\ UNCHANGED <<written, gen, restore>> BY <1>8 DEF Previewed, Step, Underway
  <2> QED BY <1>8, <2>1, <2>2, AdvanceMoves DEF PreviewPassed, Passed, Places
<1>9. ASSUME NEW i \in Slots, CreateRecord(i) PROVE PreviewPassed
  <2>1. Passed(i) /\ Underway(i) /\ Advance(i, "recorded") /\ UNCHANGED <<written, gen, restore>>
    BY <1>9 DEF CreateRecord, Step, Passed, Underway
  <2> QED BY <2>1, AdvanceMoves DEF PreviewPassed, Passed, Places
<1>10. ASSUME NEW i \in Slots, RecordCreated(i) PROVE PreviewPassed
  <2>1. CASE Superseded(i)
    <3>1. Finish(i) /\ UNCHANGED <<written, gen>> BY <1>10, <2>1 DEF RecordCreated
    <3> QED BY <3>1, FinishMoves, EmptyRecords DEF PreviewPassed, Passed
  <2>2. CASE ~Superseded(i)
    <3>1. Passed(i) /\ Underway(i) /\ Advance(i, "probe") /\ UNCHANGED <<written, gen, restore>>
      BY <1>10, <2>2 DEF RecordCreated, Step, Passed, Underway
    <3> QED BY <3>1, AdvanceMoves DEF PreviewPassed, Passed, Places
  <2> QED BY <2>1, <2>2
<1>11. ASSUME NEW i \in Slots, Probe(i) PROVE PreviewPassed
  <2>1. Passed(i) BY <1>11 DEF Probe, Step, Passed
  <2> QED BY <1>11, <2>1, ProbeMoves DEF PreviewPassed, Passed
<1>12. ASSUME NEW i \in Slots, Commit(i) PROVE PreviewPassed
  <2>1. Finish(i) /\ UNCHANGED <<written, gen>> BY <1>12 DEF Commit
  <2> QED BY <2>1, FinishMoves, EmptyRecords DEF PreviewPassed, Passed
<1>13. ASSUME NEW m \in Mods, Accept(m) PROVE PreviewPassed
  <2>1. UNCHANGED loads BY <1>13 DEF Accept
  <2> QED BY <2>1 DEF PreviewPassed, Passed
<1>14. ASSUME NEW m \in Mods, Reject(m) PROVE PreviewPassed
  <2>1. UNCHANGED loads BY <1>14 DEF Reject
  <2> QED BY <2>1 DEF PreviewPassed, Passed
<1>15. CASE AcceptAll
  <2>1. UNCHANGED loads BY <1>15 DEF AcceptAll
  <2> QED BY <2>1 DEF PreviewPassed, Passed
<1>16. CASE RejectAll
  <2>1. UNCHANGED loads BY <1>16 DEF RejectAll
  <2> QED BY <2>1 DEF PreviewPassed, Passed
<1>17. ASSUME NEW d \in Docs, SelectFile(d) PROVE PreviewPassed
  <2>1. UNCHANGED loads BY <1>17 DEF SelectFile
  <2> QED BY <2>1 DEF PreviewPassed, Passed
<1>18. CASE ToggleMode
  <2>1. UNCHANGED loads BY <1>18 DEF ToggleMode
  <2> QED BY <2>1 DEF PreviewPassed, Passed
<1>19. CASE ReviewDisk
  <2>1. UNCHANGED loads BY <1>19 DEF ReviewDisk
  <2> QED BY <2>1 DEF PreviewPassed, Passed
<1>20. CASE ReviewRecords
  <2>1. UNCHANGED loads BY <1>20 DEF ReviewRecords
  <2> QED BY <2>1 DEF PreviewPassed, Passed
<1>21. CASE AcceptLeaves
  <2>1. UNCHANGED loads BY <1>21 DEF AcceptLeaves
  <2> QED BY <2>1 DEF PreviewPassed, Passed
<1>22. CASE Discard
  <2>1. UNCHANGED loads BY <1>22 DEF Discard
  <2> QED BY <2>1 DEF PreviewPassed, Passed
<1>23. CASE DiscardRecords
  <2>1. UNCHANGED loads BY <1>23 DEF DiscardRecords
  <2> QED BY <2>1 DEF PreviewPassed, Passed
<1>24. CASE BeginRestore
  <2>1. UNCHANGED loads BY <1>24 DEF BeginRestore
  <2> QED BY <2>1 DEF PreviewPassed, Passed
<1>25. CASE RestoreEnds
  <2>1. UNCHANGED loads BY <1>25 DEF RestoreEnds
  <2> QED BY <2>1 DEF PreviewPassed, Passed
<1>26. ASSUME NEW v \in restore.todo, RestoreSkips(v) PROVE PreviewPassed
  <2>1. UNCHANGED loads BY <1>26 DEF RestoreSkips, RestoreGoesOn
  <2> QED BY <2>1 DEF PreviewPassed, Passed
<1>27. ASSUME NEW v \in restore.todo, RestoreCloses(v) PROVE PreviewPassed
  <2>1. UNCHANGED loads BY <1>27 DEF RestoreCloses, RestoreGoesOn
  <2> QED BY <2>1 DEF PreviewPassed, Passed
<1>28. ASSUME NEW v \in restore.todo, RestoreStarts(v) PROVE PreviewPassed
  <2> QED BY <1>28, RestartingFacts DEF Starting, PreviewPassed, Passed
<1>29. CASE Restart
  <2>1. \A j \in Slots : loads[j]'.pc = "idle" BY <1>29, EmptyRecords DEF Restart
  <2> QED BY <2>1 DEF PreviewPassed, Passed
<1>30. ASSUME NEW i \in Slots, CloseStale(i) PROVE PreviewPassed
  <2>1. Passed(i) /\ Underway(i) /\ Advance(i, "commit") /\ UNCHANGED <<written, gen, restore>>
    BY <1>30 DEF CloseStale, Step, Passed, Underway
  <2> QED BY <2>1, AdvanceMoves DEF PreviewPassed, Passed, Places
<1>31. CASE ReviewSnapshot
  <2>1. UNCHANGED loads BY <1>31 DEF ReviewSnapshot
  <2> QED BY <2>1 DEF PreviewPassed, Passed
<1>32. CASE ReviewMark
  <2>1. UNCHANGED loads BY <1>32 DEF ReviewMark
  <2> QED BY <2>1 DEF PreviewPassed, Passed
<1>33. CASE Project
  <2>1. UNCHANGED loads BY <1>33 DEF Project
  <2> QED BY <2>1 DEF PreviewPassed, Passed
<1> QED BY <1>1, <1>2, <1>3, <1>4, <1>5, <1>6, <1>7, <1>8, <1>9, <1>10, <1>11, <1>12, <1>13,
     <1>14, <1>15, <1>16, <1>17, <1>18, <1>19, <1>20, <1>21, <1>22, <1>23, <1>24, <1>25, <1>26,
     <1>27, <1>28, <1>29, <1>30, <1>31, <1>32, <1>33, RestoreCases DEF Next, LoadStep, Decide,
     ReviewStep, DeletionStep, RestoreStep

\* Closing records leaves no others pending.
LEMMA ClosedNotPending ==
    ASSUME Types, NEW S, NEW status \in {"applied", "reverted"},
        records' \in {records, Close(S, status)},
           UNCHANGED written
    PROVE  \A e \in Docs : PendingRecords(e)' \subseteq PendingRecords(e)
<1>1. \A n \in Versions : records'[n].status = "pending" => records[n].status = "pending"
  BY DEF Close, Types, DiskTypes
<1> QED BY <1>1, WrittenVersions DEF PendingRecords

\* A record becomes pending only where it is created.
LEMMA PendingKept ==
    ASSUME Types, LoadInv, RecordInv, [Next]_vars
    PROVE  PendingStays
<1>1. CASE UNCHANGED vars BY <1>1 DEF vars, PendingStays, PendingRecords
<1>2. ASSUME NEW d \in Docs, AgentWrites(d) PROVE PendingStays
  <2>1. Writing(d) /\ UNCHANGED records BY <1>2, WritingFacts DEF AgentWrites
  <2>2. records[Len(written) + 1].status = "none"
    <3>1. Len(written) \in Nat /\ ~Begun(Len(written) + 1) BY DEF Begun, Types, DiskTypes
    <3> QED BY <2>1, <3>1 DEF Writing, RecordInv
  <2>3. \A n \in 1 .. Len(written') : n \in 1 .. Len(written) \/ n = Len(written) + 1
    BY <2>1 DEF Writing, Types, DiskTypes
  <2> QED BY <2>1, <2>2, <2>3 DEF PendingStays, PendingRecords, Writing
<1>3. ASSUME NEW d \in Docs, UserDeletes(d) PROVE PendingStays
  <2>1. UNCHANGED <<written, records>> BY <1>3 DEF UserDeletes
  <2> QED BY <2>1 DEF PendingStays, PendingRecords
<1>4. ASSUME NEW i \in Slots, DiffArrives(i) PROVE PendingStays
  <2>1. UNCHANGED <<written, records>> BY <1>4 DEF DiffArrives
  <2> QED BY <2>1 DEF PendingStays, PendingRecords
<1>5. ASSUME NEW i \in Slots, GiveUp(i) PROVE PendingStays
  <2>1. UNCHANGED <<written, records>> BY <1>5 DEF GiveUp
  <2> QED BY <2>1 DEF PendingStays, PendingRecords
<1>6. ASSUME NEW i \in Slots, LoadFails(i) PROVE PendingStays
  <2>1. UNCHANGED <<written, records>> BY <1>6 DEF LoadFails
  <2> QED BY <2>1 DEF PendingStays, PendingRecords
<1>7. ASSUME NEW i \in Slots, CancelDeleted(i) PROVE PendingStays
  <2>1. UNCHANGED <<written, records>> BY <1>7 DEF CancelDeleted
  <2> QED BY <2>1 DEF PendingStays, PendingRecords
<1>8. ASSUME NEW i \in Slots, Previewed(i) PROVE PendingStays
  <2>1. UNCHANGED <<written, records>> BY <1>8 DEF Previewed
  <2> QED BY <2>1 DEF PendingStays, PendingRecords
<1>9. ASSUME NEW i \in Slots, CreateRecord(i) PROVE PendingStays
  <2>1. UNCHANGED written /\ \A n \in Versions : n # i => records'[n] = records[n]
    BY <1>9 DEF CreateRecord, Types, DiskTypes
  <2> QED BY <1>9, <2>1, WrittenVersions DEF PendingStays, PendingRecords
<1>10. ASSUME NEW i \in Slots, RecordCreated(i) PROVE PendingStays
  <2>1. PICK S : records' \in {records, Close(S, "reverted")} BY <1>10 DEF RecordCreated, Withdraw
  <2>2. UNCHANGED written BY <1>10 DEF RecordCreated
  <2> QED BY <2>1, <2>2, ClosedNotPending DEF PendingStays
<1>11. ASSUME NEW i \in Slots, Probe(i) PROVE PendingStays
  <2>1. UNCHANGED <<written, records>> BY <1>11 DEF Probe
  <2> QED BY <2>1 DEF PendingStays, PendingRecords
<1>12. ASSUME NEW i \in Slots, Commit(i) PROVE PendingStays
  <2>1. UNCHANGED <<written, records>> BY <1>12 DEF Commit
  <2> QED BY <2>1 DEF PendingStays, PendingRecords
<1>13. ASSUME NEW m \in Mods, Accept(m) PROVE PendingStays
  <2>1. UNCHANGED <<written, records>> BY <1>13 DEF Accept
  <2> QED BY <2>1 DEF PendingStays, PendingRecords
<1>14. ASSUME NEW m \in Mods, Reject(m) PROVE PendingStays
  <2>1. UNCHANGED <<written, records>> BY <1>14 DEF Reject
  <2> QED BY <2>1 DEF PendingStays, PendingRecords
<1>15. CASE AcceptAll
  <2>1. UNCHANGED <<written, records>> BY <1>15 DEF AcceptAll
  <2> QED BY <2>1 DEF PendingStays, PendingRecords
<1>16. CASE RejectAll
  <2>1. UNCHANGED <<written, records>> BY <1>16 DEF RejectAll
  <2> QED BY <2>1 DEF PendingStays, PendingRecords
<1>17. ASSUME NEW d \in Docs, SelectFile(d) PROVE PendingStays
  <2>1. UNCHANGED <<written, records>> BY <1>17 DEF SelectFile
  <2> QED BY <2>1 DEF PendingStays, PendingRecords
<1>18. CASE ToggleMode
  <2>1. UNCHANGED <<written, records>> BY <1>18 DEF ToggleMode
  <2> QED BY <2>1 DEF PendingStays, PendingRecords
<1>19. CASE ReviewDisk
  <2>1. UNCHANGED <<written, records>> BY <1>19 DEF ReviewDisk
  <2> QED BY <2>1 DEF PendingStays, PendingRecords
<1>20. CASE ReviewRecords
  <2>1. UNCHANGED written BY <1>20 DEF ReviewRecords
  <2>2. CASE Reviewed(review.st)
    <3>1. PICK S : records' \in {records, Close(S, "applied")} BY <1>20, <2>2 DEF ReviewRecords
    <3> QED BY <2>1, <3>1, ClosedNotPending DEF PendingStays
  <2>3. CASE ~Reviewed(review.st)
    <3>1. \A n \in Versions : records'[n].status = records[n].status
      BY <1>20, <2>3 DEF ReviewRecords, Types, DiskTypes
    <3> QED BY <2>1, <3>1, WrittenVersions DEF PendingStays, PendingRecords
  <2> QED BY <2>2, <2>3
<1>21. CASE AcceptLeaves
  <2>1. UNCHANGED <<written, records>> BY <1>21 DEF AcceptLeaves
  <2> QED BY <2>1 DEF PendingStays, PendingRecords
<1>22. CASE Discard
  <2>1. UNCHANGED <<written, records>> BY <1>22 DEF Discard
  <2> QED BY <2>1 DEF PendingStays, PendingRecords
<1>23. CASE DiscardRecords
  <2>1. PICK S : records' \in {records, Close(S, "reverted")} BY <1>23 DEF DiscardRecords
  <2>2. UNCHANGED written BY <1>23 DEF DiscardRecords
  <2> QED BY <2>1, <2>2, ClosedNotPending DEF PendingStays
<1>24. CASE BeginRestore
  <2>1. UNCHANGED <<written, records>> BY <1>24 DEF BeginRestore
  <2> QED BY <2>1 DEF PendingStays, PendingRecords
<1>25. CASE RestoreEnds
  <2>1. UNCHANGED <<written, records>> BY <1>25 DEF RestoreEnds
  <2> QED BY <2>1 DEF PendingStays, PendingRecords
<1>26. ASSUME NEW v \in restore.todo, RestoreSkips(v) PROVE PendingStays
  <2>1. UNCHANGED <<written, records>> BY <1>26 DEF RestoreSkips, RestoreGoesOn
  <2> QED BY <2>1 DEF PendingStays, PendingRecords
<1>27. ASSUME NEW v \in restore.todo, RestoreCloses(v) PROVE PendingStays
  <2>1. PICK S : records' \in {records, Close(S, "reverted")} BY <1>27 DEF RestoreCloses
  <2>2. UNCHANGED written BY <1>27 DEF RestoreCloses, RestoreGoesOn
  <2> QED BY <2>1, <2>2, ClosedNotPending DEF PendingStays
<1>28. ASSUME NEW v \in restore.todo, RestoreStarts(v) PROVE PendingStays
  <2>1. UNCHANGED <<written, records>> BY <1>28 DEF RestoreStarts, RestoreGoesOn
  <2> QED BY <2>1 DEF PendingStays, PendingRecords
<1>29. CASE Restart
  <2>1. UNCHANGED <<written, records>> BY <1>29 DEF Restart
  <2> QED BY <2>1 DEF PendingStays, PendingRecords
<1>30. ASSUME NEW i \in Slots, CloseStale(i) PROVE PendingStays
  <2>1. PICK S : records' \in {records, Close(S, "reverted")} BY <1>30 DEF CloseStale
  <2>2. UNCHANGED written BY <1>30 DEF CloseStale
  <2> QED BY <2>1, <2>2, ClosedNotPending DEF PendingStays
<1>31. CASE ReviewSnapshot
  <2>1. UNCHANGED <<written, records>> BY <1>31 DEF ReviewSnapshot
  <2> QED BY <2>1 DEF PendingStays, PendingRecords
<1>32. CASE ReviewMark
  <2>1. UNCHANGED <<written, records>> BY <1>32 DEF ReviewMark
  <2> QED BY <2>1 DEF PendingStays, PendingRecords
<1>33. CASE Project
  <2>1. UNCHANGED <<written, records>> BY <1>33 DEF Project
  <2> QED BY <2>1 DEF PendingStays, PendingRecords
<1> QED BY <1>1, <1>2, <1>3, <1>4, <1>5, <1>6, <1>7, <1>8, <1>9, <1>10, <1>11, <1>12, <1>13,
     <1>14, <1>15, <1>16, <1>17, <1>18, <1>19, <1>20, <1>21, <1>22, <1>23, <1>24, <1>25, <1>26,
     <1>27, <1>28, <1>29, <1>30, <1>31, <1>32, <1>33, RestoreCases DEF Next, LoadStep, Decide,
     ReviewStep, DeletionStep, RestoreStep

\* A deletion under way stays until it is done.
LEMMA DeletionKept ==
    ASSUME Types, [Next]_vars
    PROVE  DeletionStays
<1>1. CASE UNCHANGED vars BY <1>1 DEF vars, DeletionStays
<1>2. ASSUME NEW d \in Docs, AgentWrites(d) PROVE DeletionStays
  <2>1. UNCHANGED deletion BY <1>2 DEF AgentWrites
  <2> QED BY <2>1 DEF DeletionStays
<1>3. ASSUME NEW d \in Docs, UserDeletes(d) PROVE DeletionStays
  <2> QED BY <1>3 DEF UserDeletes, DeletionStays
<1>4. ASSUME NEW i \in Slots, DiffArrives(i) PROVE DeletionStays
  <2>1. UNCHANGED deletion BY <1>4 DEF DiffArrives
  <2> QED BY <2>1 DEF DeletionStays
<1>5. ASSUME NEW i \in Slots, GiveUp(i) PROVE DeletionStays
  <2>1. UNCHANGED deletion BY <1>5 DEF GiveUp
  <2> QED BY <2>1 DEF DeletionStays
<1>6. ASSUME NEW i \in Slots, LoadFails(i) PROVE DeletionStays
  <2>1. UNCHANGED deletion BY <1>6 DEF LoadFails
  <2> QED BY <2>1 DEF DeletionStays
<1>7. ASSUME NEW i \in Slots, CancelDeleted(i) PROVE DeletionStays
  <2>1. UNCHANGED deletion BY <1>7 DEF CancelDeleted
  <2> QED BY <2>1 DEF DeletionStays
<1>8. ASSUME NEW i \in Slots, Previewed(i) PROVE DeletionStays
  <2>1. UNCHANGED deletion BY <1>8 DEF Previewed
  <2> QED BY <2>1 DEF DeletionStays
<1>9. ASSUME NEW i \in Slots, CreateRecord(i) PROVE DeletionStays
  <2>1. UNCHANGED deletion BY <1>9 DEF CreateRecord
  <2> QED BY <2>1 DEF DeletionStays
<1>10. ASSUME NEW i \in Slots, RecordCreated(i) PROVE DeletionStays
  <2>1. UNCHANGED deletion BY <1>10 DEF RecordCreated
  <2> QED BY <2>1 DEF DeletionStays
<1>11. ASSUME NEW i \in Slots, Probe(i) PROVE DeletionStays
  <2>1. UNCHANGED deletion BY <1>11 DEF Probe
  <2> QED BY <2>1 DEF DeletionStays
<1>12. ASSUME NEW i \in Slots, Commit(i) PROVE DeletionStays
  <2>1. UNCHANGED deletion BY <1>12 DEF Commit
  <2> QED BY <2>1 DEF DeletionStays
<1>13. ASSUME NEW m \in Mods, Accept(m) PROVE DeletionStays
  <2>1. UNCHANGED deletion BY <1>13 DEF Accept
  <2> QED BY <2>1 DEF DeletionStays
<1>14. ASSUME NEW m \in Mods, Reject(m) PROVE DeletionStays
  <2>1. UNCHANGED deletion BY <1>14 DEF Reject
  <2> QED BY <2>1 DEF DeletionStays
<1>15. CASE AcceptAll
  <2>1. UNCHANGED deletion BY <1>15 DEF AcceptAll
  <2> QED BY <2>1 DEF DeletionStays
<1>16. CASE RejectAll
  <2>1. UNCHANGED deletion BY <1>16 DEF RejectAll
  <2> QED BY <2>1 DEF DeletionStays
<1>17. ASSUME NEW d \in Docs, SelectFile(d) PROVE DeletionStays
  <2>1. UNCHANGED deletion BY <1>17 DEF SelectFile
  <2> QED BY <2>1 DEF DeletionStays
<1>18. CASE ToggleMode
  <2>1. UNCHANGED deletion BY <1>18 DEF ToggleMode
  <2> QED BY <2>1 DEF DeletionStays
<1>19. CASE ReviewDisk
  <2> QED BY <1>19 DEF ReviewDisk, DeletionStays, Types, WorkTypes, DecisionTypes, Deletions
<1>20. CASE ReviewRecords
  <2>1. UNCHANGED deletion BY <1>20 DEF ReviewRecords
  <2> QED BY <2>1 DEF DeletionStays
<1>21. CASE AcceptLeaves
  <2>1. UNCHANGED deletion BY <1>21 DEF AcceptLeaves
  <2> QED BY <2>1 DEF DeletionStays
<1>22. CASE Discard
  <2> QED BY <1>22 DEF Discard, DeletionStays
<1>23. CASE DiscardRecords
  <2> QED BY <1>23 DEF DeletionStays
<1>24. CASE BeginRestore
  <2>1. UNCHANGED deletion BY <1>24 DEF BeginRestore
  <2> QED BY <2>1 DEF DeletionStays
<1>25. CASE RestoreEnds
  <2>1. UNCHANGED deletion BY <1>25 DEF RestoreEnds
  <2> QED BY <2>1 DEF DeletionStays
<1>26. ASSUME NEW v \in restore.todo, RestoreSkips(v) PROVE DeletionStays
  <2>1. UNCHANGED deletion BY <1>26 DEF RestoreSkips, RestoreGoesOn
  <2> QED BY <2>1 DEF DeletionStays
<1>27. ASSUME NEW v \in restore.todo, RestoreCloses(v) PROVE DeletionStays
  <2>1. UNCHANGED deletion BY <1>27 DEF RestoreCloses, RestoreGoesOn
  <2> QED BY <2>1 DEF DeletionStays
<1>28. ASSUME NEW v \in restore.todo, RestoreStarts(v) PROVE DeletionStays
  <2>1. UNCHANGED deletion BY <1>28 DEF RestoreStarts, RestoreGoesOn
  <2> QED BY <2>1 DEF DeletionStays
<1>29. CASE Restart
  <2> QED BY <1>29 DEF DeletionStays
<1>30. ASSUME NEW i \in Slots, CloseStale(i) PROVE DeletionStays
  <2>1. UNCHANGED deletion BY <1>30 DEF CloseStale
  <2> QED BY <2>1 DEF DeletionStays
<1>31. CASE ReviewSnapshot
  <2>1. UNCHANGED deletion BY <1>31 DEF ReviewSnapshot
  <2> QED BY <2>1 DEF DeletionStays
<1>32. CASE ReviewMark
  <2>1. UNCHANGED deletion BY <1>32 DEF ReviewMark
  <2> QED BY <2>1 DEF DeletionStays
<1>33. CASE Project
  <2>1. UNCHANGED deletion BY <1>33 DEF Project
  <2> QED BY <2>1 DEF DeletionStays
<1> QED BY <1>1, <1>2, <1>3, <1>4, <1>5, <1>6, <1>7, <1>8, <1>9, <1>10, <1>11, <1>12, <1>13,
     <1>14, <1>15, <1>16, <1>17, <1>18, <1>19, <1>20, <1>21, <1>22, <1>23, <1>24, <1>25, <1>26,
     <1>27, <1>28, <1>29, <1>30, <1>31, <1>32, <1>33, RestoreCases DEF Next, LoadStep, Decide,
     ReviewStep, DeletionStep, RestoreStep

RecordedGoesOn ==
    \A n \in Slots : loads[n].pc = "recorded" =>
        RecordCreated(n) \/ Restart \/ (loads[n]'.pc = "recorded" /\ loads[n]'.gen = loads[n].gen)

\* A load that is superseded after its record goes on to close it.
LEMMA RecordedGoes ==
    ASSUME Types, LoadInv, RecordInv, [Next]_vars
    PROVE  RecordedGoesOn
<1>1. CASE UNCHANGED vars BY <1>1 DEF vars, RecordedGoesOn
<1>2. ASSUME NEW d \in Docs, AgentWrites(d) PROVE RecordedGoesOn
  <2>1. /\ loads[Len(written) + 1].pc = "idle"
        /\ \A j \in Slots \ {Len(written) + 1} : loads'[j] = loads[j]
    BY <1>2, WritingFacts DEF Writing
  <2> QED BY <2>1 DEF RecordedGoesOn
<1>3. ASSUME NEW d \in Docs, UserDeletes(d) PROVE RecordedGoesOn
  <2>1. UNCHANGED loads BY <1>3 DEF UserDeletes
  <2> QED BY <2>1 DEF RecordedGoesOn
<1>4. ASSUME NEW i \in Slots, DiffArrives(i) PROVE RecordedGoesOn
  <2> QED BY <1>4, StartingFacts DEF Starting, RecordedGoesOn, DiffArrives
<1>5. ASSUME NEW i \in Slots, GiveUp(i) PROVE RecordedGoesOn
  <2>1. Finish(i) /\ UNCHANGED <<written, gen>> /\ loads[i].pc # "recorded" BY <1>5 DEF GiveUp, Step
  <2> QED BY <2>1, FinishMoves DEF RecordedGoesOn
<1>6. ASSUME NEW i \in Slots, LoadFails(i) PROVE RecordedGoesOn
  <2>1. Finish(i) /\ UNCHANGED <<written, gen>> /\ loads[i].pc # "recorded"
    BY <1>6 DEF LoadFails, Step
  <2> QED BY <2>1, FinishMoves DEF RecordedGoesOn
<1>7. ASSUME NEW i \in Slots, CancelDeleted(i) PROVE RecordedGoesOn
  <2>1. Finish(i) /\ UNCHANGED <<written, gen>> /\ loads[i].pc # "recorded"
    BY <1>7 DEF CancelDeleted, Step
  <2> QED BY <2>1, FinishMoves DEF RecordedGoesOn
<1>8. ASSUME NEW i \in Slots, Previewed(i) PROVE RecordedGoesOn
  <2>1. PICK to \in {"commit", "record"} : Advance(i, to) BY <1>8 DEF Previewed
  <2>2. Underway(i) /\ loads[i].pc = "yield" /\ UNCHANGED <<written, gen, restore>>
    BY <1>8 DEF Previewed, Step, Underway
  <2> QED BY <1>8, <2>1, <2>2, AdvanceMoves DEF RecordedGoesOn, Places
<1>9. ASSUME NEW i \in Slots, CreateRecord(i) PROVE RecordedGoesOn
  <2>1. Underway(i) /\ loads[i].pc = "record" /\ Advance(i, "recorded") /\
          UNCHANGED <<written, gen, restore>>
    BY <1>9 DEF CreateRecord, Step, Underway
  <2> QED BY <2>1, AdvanceMoves DEF RecordedGoesOn, Places
<1>10. ASSUME NEW i \in Slots, RecordCreated(i) PROVE RecordedGoesOn
  <2>1. \A j \in Slots : j # i => loads'[j] = loads[j]
    BY <1>10 DEF RecordCreated, Finish, Advance, Types, WorkTypes, LoadTypes
  <2> QED BY <1>10, <2>1 DEF RecordedGoesOn
<1>11. ASSUME NEW i \in Slots, Probe(i) PROVE RecordedGoesOn
  <2>1. loads[i].pc # "recorded" BY <1>11 DEF Probe, Step
  <2> QED BY <1>11, <2>1, ProbeMoves DEF RecordedGoesOn
<1>12. ASSUME NEW i \in Slots, Commit(i) PROVE RecordedGoesOn
  <2>1. Finish(i) /\ UNCHANGED <<written, gen>> /\ loads[i].pc # "recorded"
    BY <1>12 DEF Commit, Step
  <2> QED BY <2>1, FinishMoves DEF RecordedGoesOn
<1>13. ASSUME NEW m \in Mods, Accept(m) PROVE RecordedGoesOn
  <2>1. UNCHANGED loads BY <1>13 DEF Accept
  <2> QED BY <2>1 DEF RecordedGoesOn
<1>14. ASSUME NEW m \in Mods, Reject(m) PROVE RecordedGoesOn
  <2>1. UNCHANGED loads BY <1>14 DEF Reject
  <2> QED BY <2>1 DEF RecordedGoesOn
<1>15. CASE AcceptAll
  <2>1. UNCHANGED loads BY <1>15 DEF AcceptAll
  <2> QED BY <2>1 DEF RecordedGoesOn
<1>16. CASE RejectAll
  <2>1. UNCHANGED loads BY <1>16 DEF RejectAll
  <2> QED BY <2>1 DEF RecordedGoesOn
<1>17. ASSUME NEW d \in Docs, SelectFile(d) PROVE RecordedGoesOn
  <2>1. UNCHANGED loads BY <1>17 DEF SelectFile
  <2> QED BY <2>1 DEF RecordedGoesOn
<1>18. CASE ToggleMode
  <2>1. UNCHANGED loads BY <1>18 DEF ToggleMode
  <2> QED BY <2>1 DEF RecordedGoesOn
<1>19. CASE ReviewDisk
  <2>1. UNCHANGED loads BY <1>19 DEF ReviewDisk
  <2> QED BY <2>1 DEF RecordedGoesOn
<1>20. CASE ReviewRecords
  <2>1. UNCHANGED loads BY <1>20 DEF ReviewRecords
  <2> QED BY <2>1 DEF RecordedGoesOn
<1>21. CASE AcceptLeaves
  <2>1. UNCHANGED loads BY <1>21 DEF AcceptLeaves
  <2> QED BY <2>1 DEF RecordedGoesOn
<1>22. CASE Discard
  <2>1. UNCHANGED loads BY <1>22 DEF Discard
  <2> QED BY <2>1 DEF RecordedGoesOn
<1>23. CASE DiscardRecords
  <2>1. UNCHANGED loads BY <1>23 DEF DiscardRecords
  <2> QED BY <2>1 DEF RecordedGoesOn
<1>24. CASE BeginRestore
  <2>1. UNCHANGED loads BY <1>24 DEF BeginRestore
  <2> QED BY <2>1 DEF RecordedGoesOn
<1>25. CASE RestoreEnds
  <2>1. UNCHANGED loads BY <1>25 DEF RestoreEnds
  <2> QED BY <2>1 DEF RecordedGoesOn
<1>26. ASSUME NEW v \in restore.todo, RestoreSkips(v) PROVE RecordedGoesOn
  <2>1. UNCHANGED loads BY <1>26 DEF RestoreSkips, RestoreGoesOn
  <2> QED BY <2>1 DEF RecordedGoesOn
<1>27. ASSUME NEW v \in restore.todo, RestoreCloses(v) PROVE RecordedGoesOn
  <2>1. UNCHANGED loads BY <1>27 DEF RestoreCloses, RestoreGoesOn
  <2> QED BY <2>1 DEF RecordedGoesOn
<1>28. ASSUME NEW v \in restore.todo, RestoreStarts(v) PROVE RecordedGoesOn
  <2> QED BY <1>28, RestartingFacts DEF Starting, RecordedGoesOn
<1>29. CASE Restart
  <2> QED BY <1>29 DEF RecordedGoesOn
<1>30. ASSUME NEW i \in Slots, CloseStale(i) PROVE RecordedGoesOn
  <2>1. Underway(i) /\ loads[i].pc = "clean" /\ Advance(i, "commit") /\
          UNCHANGED <<written, gen, restore>>
    BY <1>30 DEF CloseStale, Step, Underway
  <2> QED BY <2>1, AdvanceMoves DEF RecordedGoesOn, Places
<1>31. CASE ReviewSnapshot
  <2>1. UNCHANGED loads BY <1>31 DEF ReviewSnapshot
  <2> QED BY <2>1 DEF RecordedGoesOn
<1>32. CASE ReviewMark
  <2>1. UNCHANGED loads BY <1>32 DEF ReviewMark
  <2> QED BY <2>1 DEF RecordedGoesOn
<1>33. CASE Project
  <2>1. UNCHANGED loads BY <1>33 DEF Project
  <2> QED BY <2>1 DEF RecordedGoesOn
<1> QED BY <1>1, <1>2, <1>3, <1>4, <1>5, <1>6, <1>7, <1>8, <1>9, <1>10, <1>11, <1>12, <1>13,
     <1>14, <1>15, <1>16, <1>17, <1>18, <1>19, <1>20, <1>21, <1>22, <1>23, <1>24, <1>25, <1>26,
     <1>27, <1>28, <1>29, <1>30, <1>31, <1>32, <1>33, RestoreCases DEF Next, LoadStep, Decide,
     ReviewStep, DeletionStep, RestoreStep

\* A load that is superseded after its record waits to close it.
LEMMA RecordedKept ==
    ASSUME Types, LoadInv, RecordInv, [Next]_vars
    PROVE  RecordedStays
<1> SUFFICES ASSUME NEW n \in Slots, n # 0, loads[n].pc = "recorded", Superseded(n),
      ~RecordCreated(n), ~Restart
             PROVE  loads[n]'.pc = "recorded" /\ Superseded(n)'
  BY DEF RecordedStays
<1>1. /\ VersionOf(n) = n /\ VersionOf(n)' = n /\ n \in 1 .. Len(written) /\ DocOf(n) = written[n]
      /\ written[n] \in Docs /\ Underway(n)
  BY AtWork DEF VersionOf, DocOf, Underway
<1>2. gen[written[n]] \in Nat /\ gen'[written[n]] \in Nat /\ loads[n].gen \in Nat
      /\ loads[n].gen <= gen[written[n]] /\ loads[n].gen # gen[written[n]]
  BY <1>1, LoadTypesStep DEF Types, WorkTypes, LoadTypes, Loads, LoadInv, LoadPart, Superseded
<1>3. loads[n]'.pc = "recorded" /\ loads[n]'.gen = loads[n].gen BY RecordedGoes DEF RecordedGoesOn
<1>4. gen[written[n]] <= gen'[written[n]] /\ written'[n] = written[n]
  <2>1. CASE NoNewLoads BY <1>1, <2>1 DEF NoNewLoads
  <2>2. ASSUME NEW e \in Docs, Writing(e)
        PROVE  gen[written[n]] <= gen'[written[n]] /\ written'[n] = written[n]
    BY <1>1, <1>2, <2>2 DEF Writing
  <2>3. ASSUME NEW k \in Slots, NEW m \in 1 .. Len(written), Starting(k, m)
        PROVE  gen[written[n]] <= gen'[written[n]] /\ written'[n] = written[n]
    BY <1>1, <1>2, <2>3 DEF Starting, Types, WorkTypes, LoadTypes
  <2> QED BY <2>1, <2>2, <2>3, MovesStep DEF Moves
<1> QED BY <1>1, <1>2, <1>3, <1>4 DEF Superseded, DocOf

\* Since the file was deleted it is still missing, or a newer version has been written.
DeletionsHold == (\A e \in Docs : DeletedPart(e)) /\ DeletionUnder

\* A deleted file stays missing until it is written again.
LEMMA DeletionsHoldStep ==
    ASSUME Types, LoadInv, GoneInv, [Next]_vars
    PROVE  DeletionsHold'
<1>1. CASE UNCHANGED vars
  <2>1. UNCHANGED <<written, disk, goneAt, deletion, deleted>> BY <1>1 DEF vars
  <2> QED BY <2>1 DEF DeletionsHold, GoneInv, DeletedPart, DeletionUnder, Replaced
<1>2. ASSUME NEW d \in Docs, AgentWrites(d) PROVE DeletionsHold'
  <2>1. Writing(d) /\ disk' = [disk EXCEPT ![d] = <<Len(written) + 1, {}>>] /\
          UNCHANGED <<goneAt, deletion, deleted>>
    BY <1>2, WritingFacts DEF AgentWrites
  <2>2. Len(written) + 1 \in Versions /\ Len(written') = Len(written) + 1 /\ Len(written) \in Nat
    BY <2>1 DEF Writing, Types, DiskTypes
  <2>3. ASSUME NEW e \in Docs, NEW g \in Slots, Replaced(e, g) PROVE Replaced(e, g)'
    <3>1. g <= Len(written) /\ g <= Len(written') /\ g \in Nat BY <2>2, <2>3, Values DEF Replaced
    <3>2. CASE e = d
      <4>1. disk'[e] = <<Len(written) + 1, {}>> BY <2>1, <3>2 DEF Types, DiskTypes
      <4>2. Len(written) + 1 \in g + 1 .. MaxWrites
        BY <2>2, <3>1, DiffReviewAssumption DEF DiffReviewAssumption, Versions
      <4> QED BY <3>1, <4>1, <4>2 DEF Replaced
    <3>3. CASE e # d
      <4>1. disk'[e] = disk[e] BY <2>1, <3>3 DEF Types, DiskTypes
      <4> QED BY <2>3, <3>1, <4>1 DEF Replaced
    <3> QED BY <3>2, <3>3
  <2>4. \A e \in Docs : goneAt[e] \in Slots BY DEF Types, CounterTypes
  <2>5. deletion.pc # "idle" => deletion.doc \in Docs /\ deletion.upTo \in Slots
    BY DEF Types, WorkTypes, DecisionTypes, Deletions
  <2>6. \A e \in Docs : DeletedPart(e)'
    <3> SUFFICES ASSUME NEW e \in Docs PROVE DeletedPart(e)' OBVIOUS
    <3>1. PICK g \in Slots : g = goneAt[e] BY <2>4
    <3>2. Replaced(e, g)' BY <2>3, <3>1 DEF GoneInv, DeletedPart
    <3> QED BY <2>1, <3>1, <3>2 DEF DeletedPart, GoneInv, Replaced
  <2>7. DeletionUnder'
    <3> SUFFICES ASSUME deletion.pc = "deleted" PROVE DeletionUnder' BY <2>1 DEF DeletionUnder
    <3>1. PICK g \in Slots, e \in Docs : g = deletion.upTo /\ e = deletion.doc BY <2>5
    <3>2. Replaced(e, g)' BY <2>3, <3>1 DEF GoneInv, DeletionUnder
    <3> QED BY <2>1, <3>1, <3>2 DEF DeletionUnder, Replaced
  <2> QED BY <2>6, <2>7 DEF DeletionsHold
<1>3. ASSUME NEW d \in Docs, UserDeletes(d) PROVE DeletionsHold'
  <2>1. disk' = [disk EXCEPT ![d] = Missing] /\ UNCHANGED <<written, goneAt, deleted>>
        /\ deletion'.doc = d /\ deletion'.upTo = Len(written)
    BY <1>3, EmptyRecords DEF UserDeletes, NoDeletion
  <2>2. Len(written) \in Nat /\ disk'[d] = Missing /\ \A e \in Docs : e # d => disk'[e] = disk[e]
    BY <2>1 DEF Types, DiskTypes
  <2>3. DeletionUnder' BY <2>1, <2>2 DEF DeletionUnder, Replaced
  <2>4. \A e \in Docs : DeletedPart(e)' BY <2>1, <2>2 DEF GoneInv, DeletedPart, Replaced
  <2> QED BY <2>3, <2>4 DEF DeletionsHold
<1>4. ASSUME NEW i \in Slots, DiffArrives(i) PROVE DeletionsHold'
  <2>1. UNCHANGED <<written, disk, goneAt, deletion, deleted>> BY <1>4 DEF DiffArrives
  <2> QED BY <2>1 DEF DeletionsHold, GoneInv, DeletedPart, DeletionUnder, Replaced
<1>5. ASSUME NEW i \in Slots, GiveUp(i) PROVE DeletionsHold'
  <2>1. UNCHANGED <<written, disk, goneAt, deletion, deleted>> BY <1>5 DEF GiveUp
  <2> QED BY <2>1 DEF DeletionsHold, GoneInv, DeletedPart, DeletionUnder, Replaced
<1>6. ASSUME NEW i \in Slots, LoadFails(i) PROVE DeletionsHold'
  <2>1. UNCHANGED <<written, disk, goneAt, deletion, deleted>> BY <1>6 DEF LoadFails
  <2> QED BY <2>1 DEF DeletionsHold, GoneInv, DeletedPart, DeletionUnder, Replaced
<1>7. ASSUME NEW i \in Slots, CancelDeleted(i) PROVE DeletionsHold'
  <2>1. UNCHANGED <<written, disk, goneAt, deletion, deleted>> BY <1>7 DEF CancelDeleted
  <2> QED BY <2>1 DEF DeletionsHold, GoneInv, DeletedPart, DeletionUnder, Replaced
<1>8. ASSUME NEW i \in Slots, Previewed(i) PROVE DeletionsHold'
  <2>1. UNCHANGED <<written, disk, goneAt, deletion, deleted>> BY <1>8 DEF Previewed
  <2> QED BY <2>1 DEF DeletionsHold, GoneInv, DeletedPart, DeletionUnder, Replaced
<1>9. ASSUME NEW i \in Slots, CreateRecord(i) PROVE DeletionsHold'
  <2>1. UNCHANGED <<written, disk, goneAt, deletion, deleted>> BY <1>9 DEF CreateRecord
  <2> QED BY <2>1 DEF DeletionsHold, GoneInv, DeletedPart, DeletionUnder, Replaced
<1>10. ASSUME NEW i \in Slots, RecordCreated(i) PROVE DeletionsHold'
  <2>1. UNCHANGED <<written, disk, goneAt, deletion, deleted>> BY <1>10 DEF RecordCreated
  <2> QED BY <2>1 DEF DeletionsHold, GoneInv, DeletedPart, DeletionUnder, Replaced
<1>11. ASSUME NEW i \in Slots, Probe(i) PROVE DeletionsHold'
  <2>1. UNCHANGED <<written, disk, goneAt, deletion, deleted>> BY <1>11 DEF Probe
  <2> QED BY <2>1 DEF DeletionsHold, GoneInv, DeletedPart, DeletionUnder, Replaced
<1>12. ASSUME NEW i \in Slots, Commit(i) PROVE DeletionsHold'
  <2>1. UNCHANGED <<written, disk, goneAt, deletion, deleted>> BY <1>12 DEF Commit
  <2> QED BY <2>1 DEF DeletionsHold, GoneInv, DeletedPart, DeletionUnder, Replaced
<1>13. ASSUME NEW m \in Mods, Accept(m) PROVE DeletionsHold'
  <2>1. UNCHANGED <<written, disk, goneAt, deletion, deleted>> BY <1>13 DEF Accept
  <2> QED BY <2>1 DEF DeletionsHold, GoneInv, DeletedPart, DeletionUnder, Replaced
<1>14. ASSUME NEW m \in Mods, Reject(m) PROVE DeletionsHold'
  <2>1. UNCHANGED <<written, disk, goneAt, deletion, deleted>> BY <1>14 DEF Reject
  <2> QED BY <2>1 DEF DeletionsHold, GoneInv, DeletedPart, DeletionUnder, Replaced
<1>15. CASE AcceptAll
  <2>1. UNCHANGED <<written, disk, goneAt, deletion, deleted>> BY <1>15 DEF AcceptAll
  <2> QED BY <2>1 DEF DeletionsHold, GoneInv, DeletedPart, DeletionUnder, Replaced
<1>16. CASE RejectAll
  <2>1. UNCHANGED <<written, disk, goneAt, deletion, deleted>> BY <1>16 DEF RejectAll
  <2> QED BY <2>1 DEF DeletionsHold, GoneInv, DeletedPart, DeletionUnder, Replaced
<1>17. ASSUME NEW d \in Docs, SelectFile(d) PROVE DeletionsHold'
  <2>1. UNCHANGED <<written, disk, goneAt, deletion, deleted>> BY <1>17 DEF SelectFile
  <2> QED BY <2>1 DEF DeletionsHold, GoneInv, DeletedPart, DeletionUnder, Replaced
<1>18. CASE ToggleMode
  <2>1. UNCHANGED <<written, disk, goneAt, deletion, deleted>> BY <1>18 DEF ToggleMode
  <2> QED BY <2>1 DEF DeletionsHold, GoneInv, DeletedPart, DeletionUnder, Replaced
<1>19. CASE ReviewDisk
  <2>1. UNCHANGED <<written, deleted>> /\ deletion'.doc = deletion.doc /\ deletion'.pc = deletion.pc
    BY <1>19 DEF ReviewDisk, Types, WorkTypes, DecisionTypes, Deletions
  <2>2. CASE UNCHANGED <<disk, deletion, goneAt>>
    BY <2>1, <2>2 DEF DeletionsHold, GoneInv, DeletedPart, DeletionUnder, Replaced
  <2>3. CASE /\ disk' = [disk EXCEPT ![review.doc] = review.content]
             /\ deletion' = IF deletion.doc = review.doc THEN [deletion EXCEPT !.upTo = 0]
                            ELSE deletion
             /\ goneAt' = [goneAt EXCEPT ![review.doc] = 0]
    <3>1. Len(written) \in Nat BY DEF Types, DiskTypes
    <3>2. \A e \in Docs : e # review.doc => disk'[e] = disk[e] /\ goneAt'[e] = goneAt[e]
      BY <2>3 DEF Types, DiskTypes, CounterTypes
    <3>3. \A e \in Docs : e = review.doc => goneAt'[e] = 0 BY <2>3 DEF Types, CounterTypes
    <3>4. deletion.doc = review.doc => deletion'.upTo = 0
      BY <2>3 DEF Types, WorkTypes, DecisionTypes, Deletions
    <3>5. \A e \in Docs : DeletedPart(e)'
      BY <2>1, <3>1, <3>2, <3>3 DEF GoneInv, DeletedPart, Replaced
    <3>6. DeletionUnder'
      <4>1. CASE deletion.doc = review.doc BY <2>1, <3>1, <3>4, <4>1 DEF DeletionUnder, Replaced
      <4>2. CASE deletion.doc # review.doc
        <5>1. deletion.pc = "deleted" => deletion.doc \in Docs
          BY DEF Types, WorkTypes, DecisionTypes
        <5> QED BY <2>1, <2>3, <3>2, <4>2, <5>1 DEF GoneInv, DeletionUnder, Replaced
      <4> QED BY <4>1, <4>2
    <3> QED BY <3>5, <3>6 DEF DeletionsHold
  <2> QED BY <1>19, <2>2, <2>3 DEF ReviewDisk
<1>20. CASE ReviewRecords
  <2>1. UNCHANGED <<written, disk, goneAt, deletion, deleted>> BY <1>20 DEF ReviewRecords
  <2> QED BY <2>1 DEF DeletionsHold, GoneInv, DeletedPart, DeletionUnder, Replaced
<1>21. CASE AcceptLeaves
  <2>1. UNCHANGED <<written, disk, goneAt, deletion, deleted>> BY <1>21 DEF AcceptLeaves
  <2> QED BY <2>1 DEF DeletionsHold, GoneInv, DeletedPart, DeletionUnder, Replaced
<1>22. CASE Discard
  <2>1. UNCHANGED <<written, disk>> /\ deleted' = deleted \cup {deletion.doc} /\
          deletion'.pc = "records"
        /\ deletion.pc = "deleted" /\ goneAt' = [goneAt EXCEPT ![deletion.doc] = deletion.upTo]
    BY <1>22 DEF Discard, Types, WorkTypes, DecisionTypes, Deletions
  <2>2. \A e \in Docs : goneAt'[e] = IF e = deletion.doc THEN deletion.upTo ELSE goneAt[e]
    BY <2>1 DEF Types, CounterTypes
  <2> QED BY <2>1, <2>2 DEF DeletionsHold, GoneInv, DeletedPart, DeletionUnder, Replaced
<1>23. CASE DiscardRecords
  <2>1. UNCHANGED <<written, disk, goneAt, deleted>> /\ deletion'.pc = "idle"
    BY <1>23, EmptyRecords DEF DiscardRecords
  <2> QED BY <2>1 DEF DeletionsHold, GoneInv, DeletedPart, DeletionUnder, Replaced
<1>24. CASE BeginRestore
  <2>1. UNCHANGED <<written, disk, goneAt, deletion, deleted>> BY <1>24 DEF BeginRestore
  <2> QED BY <2>1 DEF DeletionsHold, GoneInv, DeletedPart, DeletionUnder, Replaced
<1>25. CASE RestoreEnds
  <2>1. UNCHANGED <<written, disk, goneAt, deletion, deleted>> BY <1>25 DEF RestoreEnds
  <2> QED BY <2>1 DEF DeletionsHold, GoneInv, DeletedPart, DeletionUnder, Replaced
<1>26. ASSUME NEW v \in restore.todo, RestoreSkips(v) PROVE DeletionsHold'
  <2>1. UNCHANGED <<written, disk, goneAt, deletion, deleted>>
    BY <1>26 DEF RestoreSkips, RestoreGoesOn
  <2> QED BY <2>1 DEF DeletionsHold, GoneInv, DeletedPart, DeletionUnder, Replaced
<1>27. ASSUME NEW v \in restore.todo, RestoreCloses(v) PROVE DeletionsHold'
  <2>1. UNCHANGED <<written, disk, goneAt, deletion, deleted>>
    BY <1>27 DEF RestoreCloses, RestoreGoesOn
  <2> QED BY <2>1 DEF DeletionsHold, GoneInv, DeletedPart, DeletionUnder, Replaced
<1>28. ASSUME NEW v \in restore.todo, RestoreStarts(v) PROVE DeletionsHold'
  <2>1. UNCHANGED <<written, disk, goneAt, deletion, deleted>>
    BY <1>28 DEF RestoreStarts, RestoreGoesOn
  <2> QED BY <2>1 DEF DeletionsHold, GoneInv, DeletedPart, DeletionUnder, Replaced
<1>29. CASE Restart
  <2>1. Len(written) \in Nat /\ deletion'.pc = "idle" /\ UNCHANGED written /\
          \A e \in Docs : goneAt'[e] = 0
    BY <1>29, EmptyRecords DEF Restart, Types, DiskTypes
  <2> QED BY <2>1 DEF DeletionsHold, DeletedPart, DeletionUnder, Replaced
<1>30. ASSUME NEW i \in Slots, CloseStale(i) PROVE DeletionsHold'
  <2>1. UNCHANGED <<written, disk, goneAt, deletion, deleted>> BY <1>30 DEF CloseStale
  <2> QED BY <2>1 DEF DeletionsHold, GoneInv, DeletedPart, DeletionUnder, Replaced
<1>31. CASE ReviewSnapshot
  <2>1. UNCHANGED <<written, disk, goneAt, deletion, deleted>> BY <1>31 DEF ReviewSnapshot
  <2> QED BY <2>1 DEF DeletionsHold, GoneInv, DeletedPart, DeletionUnder, Replaced
<1>32. CASE ReviewMark
  <2>1. UNCHANGED <<written, disk, goneAt, deletion, deleted>> BY <1>32 DEF ReviewMark
  <2> QED BY <2>1 DEF DeletionsHold, GoneInv, DeletedPart, DeletionUnder, Replaced
<1>33. CASE Project
  <2>1. UNCHANGED <<written, disk, goneAt, deletion, deleted>> BY <1>33 DEF Project
  <2> QED BY <2>1 DEF DeletionsHold, GoneInv, DeletedPart, DeletionUnder, Replaced
<1> QED BY <1>1, <1>2, <1>3, <1>4, <1>5, <1>6, <1>7, <1>8, <1>9, <1>10, <1>11, <1>12, <1>13,
     <1>14, <1>15, <1>16, <1>17, <1>18, <1>19, <1>20, <1>21, <1>22, <1>23, <1>24, <1>25, <1>26,
     <1>27, <1>28, <1>29, <1>30, <1>31, <1>32, <1>33, RestoreCases DEF Next, LoadStep, Decide,
     ReviewStep, DeletionStep, RestoreStep

\* What was deleted is not shown.
LEMMA LoadGoneStep ==
    ASSUME Types, PanelInv, LoadInv, RecordInv, GoneInv, [Next]_vars, NEW i \in Slots
    PROVE  LoadGonePart(i)'
<1> SUFFICES ASSUME Passed(i)', ~Superseded(i)' PROVE VersionOf(i)' > goneAt'[DocOf(i)']
  BY DEF LoadGonePart
<1>1. \/ loads[i].pc # "idle" /\ GoesOn(i) /\ Underway(i) /\ written' = written
      \/ \E d \in Docs : Writing(d)
  <2>1. CASE NoNewLoads BY <2>1 DEF NoNewLoads, GoesOn, Underway, Passed
  <2>2. CASE Restart BY <2>2, EmptyRecords DEF Restart, Passed
  <2>3. ASSUME NEW k \in Slots, NEW n \in 1 .. Len(written), Starting(k, n)
        PROVE  loads[i].pc # "idle" /\ GoesOn(i) /\ Underway(i) /\ written' = written
    <3>1. i # k BY <2>3 DEF Starting, Passed
    <3> QED BY <2>3, <3>1 DEF Starting, GoesOn, Passed, Underway
  <2> QED BY <2>1, <2>2, <2>3, MovesStep DEF Moves
<1>2. loads[i].pc # "idle" /\ GoesOn(i) /\ Underway(i)
  <2>1. ASSUME NEW d \in Docs, Writing(d) PROVE loads[i].pc # "idle" /\ GoesOn(i) /\ Underway(i)
    <3>1. i # Len(written) + 1 BY <2>1 DEF Writing, Passed, NoLoad
    <3> QED BY <2>1, <3>1 DEF Writing, GoesOn, Passed, Underway
  <2> QED BY <1>1, <2>1
<1>3. PICK n \in 1 .. Len(written) : n = VersionOf(i) BY <1>2 DEF LoadInv, LoadPart
<1>4. PICK d \in Docs : d = DocOf(i) /\ d = written[n] BY <1>2, <1>3, AtWork DEF DocOf
<1>5. VersionOf(i)' = n /\ DocOf(i)' = d
  <2>1. VersionOf(i)' = n BY <1>2, <1>3 DEF GoesOn
  <2>2. written'[n] = written[n]
    BY <1>1, <1>3 DEF Writing
  <2> QED BY <1>4, <2>1, <2>2 DEF DocOf
<1>6. loads[i].gen \in Nat /\ gen[d] \in Nat /\ gen'[d] \in Nat /\ gen[d] <= gen'[d]
      /\ 1 <= loads[i].gen /\ loads[i].gen <= gen[d]
  <2>1. gen'[d] \in Nat /\ gen[d] \in Nat /\ loads[i].gen \in Nat
    BY LoadTypesStep DEF Types, WorkTypes, LoadTypes, Loads
  <2>2. CASE NoNewLoads BY <2>1, <2>2, <1>2, <1>4 DEF NoNewLoads, LoadInv, LoadPart
  <2>3. CASE Restart BY <2>3, EmptyRecords DEF Restart, Passed
  <2>4. ASSUME NEW e \in Docs, Writing(e) PROVE gen[d] <= gen'[d] BY <2>1, <2>4 DEF Writing
  <2>5. ASSUME NEW k \in Slots, NEW m \in 1 .. Len(written), Starting(k, m) PROVE gen[d] <= gen'[d]
    BY <2>1, <2>5 DEF Starting, Types, WorkTypes, LoadTypes
  <2> QED BY <1>2, <1>4, <2>1, <2>2, <2>3, <2>4, <2>5, MovesStep DEF Moves, LoadInv, LoadPart
<1>7. gen'[d] = loads[i].gen /\ gen[d] = loads[i].gen /\ ~Superseded(i)
  BY <1>2, <1>4, <1>5, <1>6 DEF Superseded, GoesOn
<1>8. n \in Nat /\ n > 0 BY <1>3 DEF Types, DiskTypes
<1>9. ~(Discard /\ d = deletion.doc)
  <2> SUFFICES ASSUME Discard, d = deletion.doc PROVE FALSE OBVIOUS
  <2>1. gen' = [gen EXCEPT ![d] = @ + 1] BY <1>6, <1>7 DEF Discard, NextGeneration
  <2> QED BY <1>6, <1>7, <2>1 DEF Types, WorkTypes, LoadTypes
<1>10. goneAt'[d] \in {0, goneAt[d]} BY <1>9, GoneMoves DEF GoneMove
<1>11. goneAt[d] \in Nat BY Values DEF Types, CounterTypes
<1>12. CASE Passed(i) BY <1>3, <1>4, <1>5, <1>7, <1>8, <1>10, <1>11, <1>12 DEF GoneInv, LoadGonePart
<1>13. CASE Previewed(i)
  <2> SUFFICES ASSUME goneAt[d] # 0 PROVE n > goneAt[d] BY <1>5, <1>8, <1>10
  <2>1. d \in deleted /\ Replaced(d, goneAt[d]) BY DEF GoneInv, DeletedPart
  <2>2. i # 0 /\ disk[d] = loads[i].content BY <1>4, <1>13, <2>1 DEF Previewed, SurvivesDeletion
  <2>3. disk[d] = <<i, {}>> /\ n = i BY <1>2, <1>3, <2>2 DEF LoadInv, LoadPart, VersionOf
  <2>4. disk[d] # Missing BY <2>2, <2>3 DEF Missing
  <2>5. PICK w \in goneAt[d] + 1 .. MaxWrites : disk[d] = <<w, {}>> BY <2>1, <2>4 DEF Replaced
  <2>6. w = i BY <2>3, <2>5
  <2> QED BY <1>11, <2>3, <2>6
<1> QED BY <1>12, <1>13, PassesPreview DEF PreviewPassed

\* Nothing older than a deletion is shown.
LEMMA ShownGoneStep ==
    ASSUME Types, PanelInv, LoadInv, GoneInv, PlanInv, [Next]_vars, NEW d \in Docs
    PROVE  ShownGonePart(d)'
<1> SUFFICES ASSUME Shown(d)'.ver # 0 PROVE Shown(d)'.ver > goneAt'[d] BY DEF ShownGonePart
<1>1. goneAt[d] \in Nat /\ Shown(d).ver \in Nat BY Values, ShownVersions DEF Types, CounterTypes
<1>2. NoEntry.ver = 0 BY EmptyRecords
<1>3. ~(Discard /\ d = deletion.doc) BY <1>2, DiscardFacts DEF Discarded
<1>4. goneAt'[d] \in {0, goneAt[d]} BY <1>3, GoneMoves DEF GoneMove
<1>5. CASE Shown(d)'.ver = Shown(d).ver BY <1>1, <1>4, <1>5 DEF GoneInv, ShownGonePart
<1>6. ASSUME NEW i \in Slots, Committed(i), d = DocOf(i) PROVE Shown(d)'.ver > goneAt'[d]
  <2>1. loads[i].pc = "commit" /\ ~Superseded(i) /\ Shown(d)'.ver = VersionOf(i)
    BY <1>6, CommittedEntry
  <2>2. VersionOf(i) \in 1 .. Len(written) BY <2>1, AtWork
  <2>3. VersionOf(i) > goneAt[d] BY <1>6, <2>1 DEF GoneInv, LoadGonePart, Passed
  <2> QED BY <1>1, <1>4, <2>1, <2>2, <2>3
<1>7. CASE SameVersions BY <1>5, <1>7 DEF SameVersions
<1>8. CASE Discarded BY <1>2, <1>5, <1>8 DEF Discarded
<1>9. CASE Cleared BY <1>2, <1>9 DEF Cleared
<1>10. ASSUME NEW i \in Slots, Committed(i), d # DocOf(i) PROVE Shown(d)'.ver > goneAt'[d]
  BY <1>2, <1>5, <1>10 DEF Committed
<1>11. CASE Projected
  <2>1. CASE d # active BY <1>5, <1>11, <2>1 DEF Projected
  <2>2. CASE d = active
    <3>1. goneAt[d] = 0 BY <1>11, <2>2 DEF Projected, RestoreCurrent, GoneInv, DeletedPart
    <3>2. Shown(d)' \in Shows
      <4>1. PanelTypes' /\ PanelInv' BY PanelTypesStep, PanelStep DEF PanelMoves
      <4>2. active' \in Docs \cup {NoDoc} /\ top' \in Shows /\ entries' \in [Docs -> Shows]
        BY <4>1 DEF PanelTypes
      <4> QED BY <4>2 DEF Shown
    <3>3. Shown(d)'.ver \in Nat BY <3>2, Values DEF Shows
    <3> QED BY <1>4, <3>1, <3>3
  <2> QED BY <2>1, <2>2
<1> QED BY <1>6, <1>7, <1>8, <1>9, <1>10, <1>11, PanelStep DEF PanelMoves

\* What was deleted has no record that stays pending.
LEMMA RecordsGoneStep ==
    ASSUME Types, PanelInv, LoadInv, RecordInv, GoneInv, [Next]_vars, NEW d \in Docs
    PROVE  RecordsGonePart(d)'
<1> SUFFICES ASSUME NEW v \in PendingRecords(d)', v <= goneAt'[d]
             PROVE  \/ deletion'.pc = "records" /\ deletion'.doc = d /\ v \in deletion'.before
                    \/ loads[v]'.pc = "recorded" /\ Superseded(v)'
  BY DEF RecordsGonePart
<1>1. goneAt[d] \in Nat BY Values DEF Types, CounterTypes
<1>2. v \in PendingRecords(d) \/ CreateRecord(v) BY PendingKept DEF PendingStays
<1>3. v \in 1 .. Len(written) /\ written[v] = d /\ v \in Nat /\ v > 0 /\ v \in Versions /\
        v \in Slots
  <2>1. CASE v \in PendingRecords(d)
    <3>1. v \in 1 .. Len(written) /\ written[v] = d /\ Len(written) \in Nat /\
            Len(written) <= MaxWrites
      BY <2>1 DEF PendingRecords, Types, DiskTypes
    <3> QED BY <3>1, DiffReviewAssumption DEF DiffReviewAssumption, Versions, Slots
  <2>2. CASE CreateRecord(v)
    <3>1. v \in PendingRecords(d)' /\ UNCHANGED written BY <2>2 DEF CreateRecord
    <3>2. v \in 1 .. Len(written) /\ written[v] = d /\ Len(written) \in Nat /\
            Len(written) <= MaxWrites
      BY <3>1 DEF PendingRecords, Types, DiskTypes
    <3> QED BY <3>2, DiffReviewAssumption DEF DiffReviewAssumption, Versions, Slots
  <2> QED BY <1>2, <2>1, <2>2
<1>4. CASE Discard /\ d = deletion.doc
  <2>1. v \in PendingRecords(d) BY <1>4 DEF Discard, PendingRecords
  <2>2. /\ deletion' = [deletion EXCEPT !.pc = "records",
           !.before = {n \in Versions : records[n].status # "none"}]
    BY <1>4 DEF Discard
  <2>3. v \in {n \in Versions : records[n].status # "none"} BY <1>3, <2>1 DEF PendingRecords
  <2> QED BY <1>4, <2>2, <2>3 DEF Types, WorkTypes, DecisionTypes, Deletions
<1>5. CASE ~(Discard /\ d = deletion.doc)
  <2>1. goneAt'[d] = goneAt[d] BY <1>1, <1>3, <1>5, GoneMoves DEF GoneMove
  <2>2. CASE CreateRecord(v)
    <3>1. loads[v].pc = "record" /\ Advance(v, "recorded") /\ UNCHANGED <<gen, written>>
      BY <2>2 DEF CreateRecord, Step
    <3>2. VersionOf(v) = v /\ DocOf(v) = d /\ VersionOf(v)' = v /\ DocOf(v)' = d
      BY <1>3, <3>1 DEF VersionOf, DocOf
    <3>3. Superseded(v) BY <1>1, <1>3, <2>1, <3>1, <3>2 DEF GoneInv, LoadGonePart, Passed
    <3>4. loads[v]'.pc = "recorded" /\ loads[v]'.gen = loads[v].gen
      BY <1>3, <3>1 DEF Advance, Types, WorkTypes, LoadTypes, Loads
    <3> QED BY <3>1, <3>2, <3>3, <3>4 DEF Superseded
  <2>3. CASE v \in PendingRecords(d) /\ deletion.pc = "records" /\ deletion.doc = d /\
          v \in deletion.before
    <3>1. CASE deletion'.pc = "records" /\ deletion'.doc = deletion.doc /\
            deletion'.before = deletion.before
      BY <2>3, <3>1
    <3>2. CASE DiscardRecords
      <4>1. records'[v].status = "reverted"
        BY <1>3, <2>3, <3>2 DEF DiscardRecords, Close, Types, DiskTypes
      <4> QED BY <4>1 DEF PendingRecords
    <3>3. CASE Restart BY <1>3, <3>3 DEF Restart
    <3> QED BY <2>3, <3>1, <3>2, <3>3, DeletionKept DEF DeletionStays
  <2>4. CASE v \in PendingRecords(d) /\ loads[v].pc = "recorded" /\ Superseded(v)
    <3>1. CASE loads[v]'.pc = "recorded" /\ Superseded(v)' BY <3>1
    <3>2. CASE RecordCreated(v)
      <4>1. records'[v].status = "reverted"
        BY <1>3, <2>4, <3>2 DEF RecordCreated, Withdraw, Close, Types, DiskTypes
      <4> QED BY <4>1 DEF PendingRecords
    <3>3. CASE Restart BY <1>3, <3>3 DEF Restart
    <3> QED BY <1>3, <2>4, <3>1, <3>2, <3>3, RecordedKept DEF RecordedStays
  <2> QED BY <1>2, <1>3, <2>1, <2>2, <2>3, <2>4 DEF GoneInv, RecordsGonePart
<1> QED BY <1>4, <1>5

-----------------------------------------------------------------------------
(* Any session *)

\* The invariant holds at first.
LEMMA AnyInvInit ==
    ASSUME Init
    PROVE  AnyInv
<1>1. DiskTypes /\ PanelTypes
  <2>1. <<>> \in Seq(Docs) /\ Len(<<>>) = 0 /\ MaxWrites \in Nat
    BY DiffReviewAssumption DEF DiffReviewAssumption
  <2>2. NoRecord \in [status : {"none", "pending", "applied", "reverted"}, st : Marks]
    BY Values DEF NoRecord
  <2>3. DiskTypes
    <3>1. disk \in [Docs -> Texts] BY Values DEF Init
    <3>2. records = [v \in Versions |-> NoRecord] /\ written = <<>> BY DEF Init
    <3>3. /\ newest = [d \in Docs |-> NoSnapshot] /\ marks = [v \in Versions |-> NoSnapshot]
          /\ NoSnapshot \in Snapshots
      BY DEF Init, Snapshots
    <3> QED BY <2>1, <2>2, <3>1, <3>2, <3>3 DEF DiskTypes
  <2>4. PanelTypes BY EmptyRecords DEF Init, PanelTypes
  <2> QED BY <2>3, <2>4
<1>2. WorkTypes
  <2>1. LoadTypes BY EmptyRecords DEF Init, LoadTypes
  <2> QED BY <2>1, EmptyRecords DEF Init, WorkTypes, DecisionTypes
<1>3. CounterTypes
  <2>1. written = <<>> /\ Len(<<>>) = 0 BY DEF Init
  <2> QED BY <2>1, Values, DiffReviewAssumption DEF DiffReviewAssumption, Init, CounterTypes
<1>4. \A d \in Docs : Shown(d) = NoEntry /\ Shown(d).ver = 0 BY EmptyRecords DEF Init, Shown
<1>5. PanelInv
  <2>1. active = NoDoc /\ top.ver = 0 /\ \A d \in Docs : entries[d] = NoEntry
    BY EmptyRecords DEF Init
  <2> QED BY <1>4, <2>1 DEF PanelInv, ShownPart
<1>6. LoadInv
  <2>1. \A i \in Slots : loads[i].pc = "idle" BY EmptyRecords DEF Init
  <2>2. restore.ver = 0 /\ restore.todo = {} BY EmptyRecords DEF Init
  <2> QED BY <2>1, <2>2, Values DEF LoadInv, LoadPart, Underway
<1>7. RecordInv /\ NewestInv /\ PlanInv
  <2>1. restore.todo = {} /\ \A v \in Versions : records[v].status = "none"
    BY EmptyRecords DEF Init, NoRecord
  <2>2. restore.plan = NoEntry BY EmptyRecords DEF Init
  <2> QED BY <1>4, <2>1, <2>2 DEF RecordInv, NewestInv, NewestPart, PlanInv
<1>8. GoneInv
  <2>1. \A d \in Docs : goneAt[d] = 0 /\ ShownGonePart(d) BY <1>4 DEF Init, ShownGonePart
  <2>2. written = <<>> /\ Len(<<>>) = 0 BY DEF Init
  <2>3. \A d \in Docs : PendingRecords(d) = {} BY <2>2 DEF PendingRecords
  <2>4. \A i \in Slots : loads[i].pc = "idle" BY EmptyRecords DEF Init
  <2>5. deletion.pc = "idle" BY EmptyRecords DEF Init
  <2> QED
    BY <2>1, <2>2, <2>3, <2>4, <2>5 DEF GoneInv, DeletedPart, RecordsGonePart, LoadGonePart,
       Passed,
          DeletionUnder, Replaced
<1> QED BY <1>1, <1>2, <1>3, <1>5, <1>6, <1>7, <1>8 DEF AnyInv, Types

\* Every step keeps AnyInv.
LEMMA AnyInvStep ==
    ASSUME AnyInv, [Next]_vars
    PROVE  AnyInv'
<1> USE DEF AnyInv
<1>1. Types' /\ LoadInv' /\ RecordInv' /\ PlanInv'
  BY TypesStep, LoadInvStep, RecordInvStep, PlanStep
<1>2. PanelInv' BY PanelStep DEF PanelMoves
<1>3. NewestInv' BY NewestPartStep DEF NewestInv
<1>4. GoneInv'
  <2>1. DeletionsHold' BY DeletionsHoldStep
  <2>2. \A d \in Docs : ShownGonePart(d)' /\ RecordsGonePart(d)' BY ShownGoneStep, RecordsGoneStep
  <2>3. \A i \in Slots : LoadGonePart(i)' BY LoadGoneStep
  <2> QED BY <2>1, <2>2, <2>3 DEF GoneInv, DeletionsHold
<1> QED BY <1>1, <1>2, <1>3, <1>4

\* AnyInv holds in every session.
THEOREM ReviewInvariant == Spec => []AnyInv
<1>1. Init => AnyInv BY AnyInvInit
<1>2. AnyInv /\ [Next]_vars => AnyInv' BY AnyInvStep
<1> QED BY <1>1, <1>2, PTL DEF Spec

\* DeletedStaysGone: what the user deleted is shown only for a version that is newer than the
\* deletion, and once all is quiet no older version has a record that a restart would bring back.
THEOREM DeletionsStay == Spec => []DeletedStaysGone
<1>1. ASSUME AnyInv PROVE DeletedStaysGone
  <2>1. ShownIsNotGone BY <1>1 DEF AnyInv, GoneInv, ShownGonePart, ShownIsNotGone
  <2>2. ASSUME Quiet, NEW d \in Docs, NEW v \in PendingRecords(d) PROVE v > goneAt[d]
    <3>1. v \in 1 .. Len(written) /\ v \in Slots /\ v \in Nat
      BY <1>1, WrittenVersions DEF AnyInv, PendingRecords
    <3>2. goneAt[d] \in Nat BY <1>1, Values DEF AnyInv, Types, CounterTypes
    <3>3. ~(v <= goneAt[d])
      BY <1>1, <2>2, <3>1 DEF AnyInv, GoneInv, RecordsGonePart, Quiet, Settled
    <3> QED BY <3>1, <3>2, <3>3
  <2> QED BY <2>1, <2>2 DEF DeletedStaysGone, GoneHasNoRecord
<1> QED BY <1>1, ReviewInvariant, PTL

\* NewestLoadWins: a load that was overtaken never takes the panel back to its older version.
THEOREM OlderLoadsLose == Spec => NewestLoadWins
<1>1. AnyInv /\ [Next]_vars => [NewestWins]_vars BY NewestWinsStep DEF AnyInv
<1>2. Spec => [][NewestWins]_vars BY <1>1, ReviewInvariant, PTL DEF Spec
<1>3. NewestLoadWins <=> [][NewestWins]_vars BY PTL DEF NewestLoadWins, NewestWins
<1> QED BY <1>2, <1>3, PTL

-----------------------------------------------------------------------------
(* The steps of a calm session *)

USE DEF snapshots

\* The steps of a load that do not take it to the panel.
Loading(i) == LoadStep(i) /\ ~Commit(i)
Begins == (\E m \in Mods : Accept(m) \/ Reject(m)) \/ AcceptAll \/ RejectAll
Looks == (\E d \in Docs : SelectFile(d)) \/ ToggleMode

\* One load moves: it is over, or goes on.
LoadMoved(i) ==
    /\ \A j \in Slots \ {i} : loads[j]' = loads[j] /\ VersionOf(j)' = VersionOf(j) /\
        DocOf(j)' = DocOf(j)
    /\ loads[i].pc # "idle"
    /\ \/ loads[i]' = NoLoad
       \/ /\ VersionOf(i)' = VersionOf(i) /\ DocOf(i)' = DocOf(i)
          /\ loads[i]'.stale \in {loads[i].stale, StaleEntries(i)}
          /\ loads[i]'.stale # loads[i].stale => Probe(i)
          /\ loads[i]'.st = loads[i].st /\ loads[i]'.content = loads[i].content
    /\ UNCHANGED <<written, disk, review, deletion, deleted, counters>>
    /\ restore'.pc = restore.pc /\ restore'.todo = restore.todo /\ restore'.ver \in {0, restore.ver}
    /\ restore'.plan = restore.plan /\ (i # 0 => restore'.ver = restore.ver)

\* A load that ends moves no other.
LEMMA FinishMoved ==
    ASSUME Types, LoadInv, NEW i \in Slots, loads[i].pc # "idle", Finish(i),
           UNCHANGED <<written, gen, disk, review, deletion, deleted, counters>>
    PROVE  LoadMoved(i)
<1>1. loads[i]' = NoLoad /\ \A j \in Slots \ {i} : loads[j]' = loads[j] BY FinishMoves
<1>2. restore'.todo = restore.todo /\ restore'.pc = restore.pc
      /\ restore'.ver = (IF i = 0 THEN 0 ELSE restore.ver)
  BY FinishTypes
<1>3. \A j \in Slots \ {i} : VersionOf(j)' = VersionOf(j) /\ DocOf(j)' = DocOf(j)
  BY <1>2 DEF VersionOf, DocOf
<1>4. restore'.plan = restore.plan BY DEF Finish, Types, WorkTypes, LoadTypes, Restores
<1> QED BY <1>1, <1>2, <1>3, <1>4 DEF LoadMoved

\* A load that goes on moves no other.
LEMMA AdvanceMoved ==
    ASSUME Types, LoadInv, NEW i \in Slots, NEW to \in Places \ {"idle", "written"}, Underway(i),
           Advance(i, to),
           UNCHANGED <<written, gen, restore, disk, review, deletion, deleted, counters>>
    PROVE  LoadMoved(i)
<1>1. \A j \in Slots : VersionOf(j)' = VersionOf(j) /\ DocOf(j)' = DocOf(j) BY DEF VersionOf, DocOf
<1>2. loads[i].pc # "idle" BY DEF Underway
<1> QED BY <1>1, <1>2, AdvanceMoves DEF LoadMoved

\* A step of a load moves no other.
LEMMA LoadMovedFacts ==
    ASSUME Types, LoadInv, NEW i \in Slots, LoadStep(i)
    PROVE  LoadMoved(i)
<1>1. CASE DiffArrives(i)
  <2>1. UNCHANGED <<written, disk, review, deletion, deleted, counters, restore>> /\
          loads[i].pc # "idle"
        /\ StartLoad(i, written[i], loads[i])
    BY <1>1 DEF DiffArrives
  <2>2. \A j \in Slots : VersionOf(j)' = VersionOf(j) /\ DocOf(j)' = DocOf(j)
    BY <2>1 DEF VersionOf, DocOf
  <2>3. loads[i]' = [loads[i] EXCEPT !.pc = "yield", !.gen = gen[written[i]] + 1]
        /\ \A j \in Slots \ {i} : loads[j]' = loads[j]
    BY <2>1 DEF StartLoad, Types, WorkTypes, LoadTypes
  <2>4. loads[i]'.stale = loads[i].stale /\ loads[i]'.st = loads[i].st /\
          loads[i]'.content = loads[i].content
    BY <2>3 DEF Types, WorkTypes, LoadTypes, Loads
  <2> QED BY <2>1, <2>2, <2>3, <2>4 DEF LoadMoved
<1>2. CASE GiveUp(i) \/ LoadFails(i) \/ CancelDeleted(i) \/ Commit(i)
  <2>1. loads[i].pc # "idle" /\ Finish(i) /\ UNCHANGED <<written, gen, disk, review, deletion,
          deleted, counters>>
    BY <1>2 DEF GiveUp, LoadFails, CancelDeleted, Commit, Step
  <2> QED BY <2>1, FinishMoved
<1>3. CASE Previewed(i)
  <2>1. PICK to \in {"commit", "record"} : Advance(i, to) BY <1>3 DEF Previewed
  <2>2. Underway(i) /\ UNCHANGED <<written, gen, restore, disk, review, deletion, deleted,
          counters>>
    BY <1>3 DEF Previewed, Step, Underway
  <2> QED BY <2>1, <2>2, AdvanceMoved DEF Places
<1>4. CASE CreateRecord(i)
  <2>1. Underway(i) /\ UNCHANGED <<written, gen, restore, disk, review, deletion, deleted,
          counters>>
        /\ Advance(i, "recorded")
    BY <1>4 DEF CreateRecord, Step, Underway
  <2> QED BY <2>1, AdvanceMoved DEF Places
<1>5. CASE RecordCreated(i) /\ Superseded(i)
  <2>1. loads[i].pc # "idle" /\ Finish(i) /\ UNCHANGED <<written, gen, disk, review, deletion,
          deleted, counters>>
    BY <1>5 DEF RecordCreated, Step
  <2> QED BY <2>1, FinishMoved
<1>6. CASE RecordCreated(i) /\ ~Superseded(i)
  <2>1. Underway(i) /\ UNCHANGED <<written, gen, restore, disk, review, deletion, deleted,
          counters>>
        /\ Advance(i, "probe")
    BY <1>6 DEF RecordCreated, Step, Underway
  <2> QED BY <2>1, AdvanceMoved DEF Places
<1>7. CASE Probe(i)
  <2>1. UNCHANGED <<written, disk, review, deletion, deleted, counters, restore>> /\
          loads[i].pc # "idle"
    BY <1>7 DEF Probe, Step
  <2>2. \A j \in Slots : VersionOf(j)' = VersionOf(j) /\ DocOf(j)' = DocOf(j)
    BY <2>1 DEF VersionOf, DocOf
  <2> QED BY <1>7, <2>1, <2>2, ProbeMoves DEF LoadMoved
<1>8. CASE CloseStale(i)
  <2>1. Underway(i) /\ UNCHANGED <<written, gen, restore, disk, review, deletion, deleted,
          counters>>
        /\ Advance(i, "commit")
    BY <1>8 DEF CloseStale, Step, Underway
  <2> QED BY <2>1, AdvanceMoved DEF Places
<1> QED BY <1>1, <1>2, <1>3, <1>4, <1>5, <1>6, <1>7, <1>8 DEF LoadStep

\* A load shows nothing before its commit.
LEMMA LoadingFacts ==
    ASSUME Types, PanelInv, LoadInv, calm, NEW i \in Slots, Loading(i)
    PROVE  /\ LoadMoved(i) /\ review.pc = "idle" /\ UNCHANGED <<active, top>>
           /\ \A d \in Docs : Shown(d)' = Shown(d)
<1>1. LoadMoved(i) BY LoadMovedFacts DEF Loading
<1>2. UNCHANGED <<active, top, entries>> /\ Free
  BY DEF Loading, LoadStep, DiffArrives, GiveUp, LoadFails, CancelDeleted, Previewed, CreateRecord,
     RecordCreated, Probe, CloseStale, Step
<1> QED BY <1>1, <1>2 DEF Shown, Free

\* A commit ends its load.
LEMMA CommitMoved ==
    ASSUME Types, PanelInv, LoadInv, calm, NEW i \in Slots, Commit(i)
    PROVE  /\ LoadMoved(i) /\ review.pc = "idle" /\ loads[i]' = NoLoad
           /\ UNCHANGED <<records, marks, gen>>
           /\ loads[i].pc = "commit" /\ ~Superseded(i)
           /\ Committed(i) /\ VersionOf(i) \in 1 .. Len(written) /\ VersionOf(i) # 0 /\
               DocOf(i) \in Docs
<1>1. LoadMoved(i) /\ Committed(i) BY LoadMovedFacts, CommitFacts DEF LoadStep
<1>2. review.pc = "idle" /\ UNCHANGED <<records, marks, gen, written>> /\ Finish(i) /\
        loads[i].pc = "commit" /\ ~Superseded(i)
  BY DEF Commit, Step, Free, snapshots
<1>3. VersionOf(i) \in 1 .. Len(written) /\ DocOf(i) \in Docs /\ Len(written) \in Nat
  BY <1>2, AtWork DEF Types, DiskTypes
<1> QED BY <1>1, <1>2, <1>3, FinishMoves

\* A decision begins when no load is on its way, and marks the active file.
Marked(st) ==
    /\ MarksOnly(st) /\ review'.st = st
    /\ review'.op \in {"acceptAll", "rejectAll"} => Reviewed(st)
    /\ \A m \in Mods : top.st[m] # "pending" => st[m] = top.st[m]
    /\ HasPending(top.st) /\ (top.whole => OneChange(st))

\* A decision begins on the active file, with nothing else at work.
LEMMA BeginsFacts ==
    ASSUME Types, PanelInv, WholeInv, calm, Begins
    PROVE  /\ Settled /\ review.pc = "idle" /\ active \in Docs
           /\ review'.pc = "disk" /\ review'.doc = active /\
               (review'.op # "acceptAll" => active' = active)
           /\ UNCHANGED <<disks, loads, gen, deleted, deletion, restore, counters>>
           /\ \E st : Marked(st)
<1>1. CanReview /\ UNCHANGED <<disks, loads, gen, deleted, deletion, restore, counters>>
  BY DEF Begins, Accept, Reject, AcceptAll, RejectAll
<1>2. Settled /\ review.pc = "idle" /\ active \in Docs BY <1>1, ReviewedFile DEF CanReview
<1>3. top.st \in Marks BY DEF Types, PanelTypes, Shows
<1>4. ASSUME NEW v \in {"applied", "rejected"}
      PROVE  /\ Reviewed(AllMarked(v)) /\ \A m \in Mods : top.st[m] # "pending" =>
                AllMarked(v)[m] = top.st[m]
             /\ \A n \in Mods : \A m \in Mods : top.st[m] # "pending" /\ top.st[n] = "pending"
                                                   => Decided(n, v)[m] = top.st[m]
             /\ top.whole => OneChange(AllMarked(v)) /\ \A n \in Mods : OneChange(Decided(n, v))
  <2>1. top.whole => OneChange(top.st) BY <1>2 DEF WholeInv, Shown
  <2> QED BY <1>3, <2>1 DEF AllMarked, Reviewed, Marks, Decided, OneChange
<1>5. ASSUME NEW m \in Mods, Accept(m)
      PROVE  \E st : review' = Rest("accept", st, review'.content) /\ Marked(st)
  <2> DEFINE st == Decided(m, "applied")
  <2>1. review' = Rest("accept", st, top.content) /\ top.st[m] = "pending" BY <1>5 DEF Accept
  <2>2. MarksOnly(st) BY <1>5, AcceptFacts
  <2>3. (\A n \in Mods : top.st[n] # "pending" => st[n] = top.st[n])
        /\ (top.whole => OneChange(st))
    BY <1>4, <2>1
  <2> HIDE DEF st
  <2> QED BY <2>1, <2>2, <2>3 DEF Marked, Rest, HasPending
<1>6. ASSUME NEW m \in Mods, Reject(m)
      PROVE  \E st : review' = Rest("reject", st, review'.content) /\ Marked(st)
  <2> DEFINE st == Decided(m, "rejected")
  <2>1. review' = Rest("reject", st, review'.content) /\ top.st[m] = "pending"
    BY <1>6 DEF Reject, Rest
  <2>2. MarksOnly(st) BY <1>6, RejectFacts
  <2>3. (\A n \in Mods : top.st[n] # "pending" => st[n] = top.st[n])
        /\ (top.whole => OneChange(st))
    BY <1>4, <2>1
  <2>4. review'.op = "reject" /\ review'.st = st BY <2>1 DEF Rest
  <2> HIDE DEF st
  <2> QED BY <2>1, <2>2, <2>3, <2>4 DEF Marked, HasPending
<1>7. CASE AcceptAll
  <2>1. review' = Rest("acceptAll", AllMarked("applied"), top.content) /\ HasPending(top.st)
    BY <1>7 DEF AcceptAll, AllMarked
  <2>2. MarksOnly(AllMarked("applied")) BY <1>7, AcceptAllFacts
  <2>3. Marked(AllMarked("applied")) BY <1>4, <2>1, <2>2 DEF Marked, Rest
  <2> QED BY <1>1, <1>2, <2>1, <2>3 DEF Rest
<1>8. CASE RejectAll
  <2>1. review' = Rest("rejectAll", AllMarked("rejected"), top.base) /\ HasPending(top.st) /\
          UNCHANGED active
    BY <1>8 DEF RejectAll, AllMarked
  <2>2. MarksOnly(AllMarked("rejected")) BY <1>8, RejectAllFacts
  <2>3. Marked(AllMarked("rejected")) BY <1>4, <2>1, <2>2 DEF Marked, Rest
  <2> QED BY <1>1, <1>2, <2>1, <2>3 DEF Rest
<1>9. ASSUME NEW m \in Mods, Accept(m) \/ Reject(m)
      PROVE  UNCHANGED active /\ review'.pc = "disk" /\ review'.doc = active
  <2>1. UNCHANGED active BY <1>9 DEF Accept, Reject
  <2>2. PICK op, st, c : review' = Rest(op, st, c) BY <1>9 DEF Accept, Reject
  <2> QED BY <2>1, <2>2 DEF Rest
<1> QED BY <1>1, <1>2, <1>5, <1>6, <1>7, <1>8, <1>9 DEF Begins

\* Looking at another file decides nothing.
LEMMA LooksFacts ==
    ASSUME Types, PanelInv, calm, Looks
    PROVE  /\ review.pc = "idle" /\ \A d \in Docs : Shown(d)' = Shown(d)
           /\ UNCHANGED <<disks, loads, gen, deleted, review, deletion, restore, counters>>
<1>1. Free /\ UNCHANGED <<disks, loads, gen, deleted, review, deletion, restore, counters>>
  BY DEF Looks, SelectFile, ToggleMode
<1>2. \A d \in Docs : Shown(d)' = Shown(d) BY SelectFacts, ToggleFacts DEF Looks
<1> QED BY <1>1, <1>2 DEF Free

\* The file and the records of a review, which is alone.
LEMMA ReviewDiskFacts ==
    ASSUME Types, PanelInv, ReviewDisk
    PROVE  /\ review.pc = "disk" /\ review.doc \in Docs /\
              review' = [review EXCEPT !.pc = "snapshot"]
           /\ review'.pc = "snapshot" /\ review'.doc = review.doc /\ review'.st = review.st /\
               review'.op = review.op
           /\ \A d \in Docs : d # review.doc => disk'[d] = disk[d]
           /\ disk'[review.doc] # Missing \/ disk' = disk
           /\ deletion'.pc = deletion.pc /\ deletion'.doc = deletion.doc
           /\ \A d \in Docs : Shown(d)' = Shown(d)
           /\ UNCHANGED <<written, records, marks, active, top, loads, gen, deleted, restore,
                          deletes, restarts, handledAt, session>>
<1>1. review.pc = "disk" /\ review' = [review EXCEPT !.pc = "snapshot"]
      /\ UNCHANGED <<written, records, snapshots, panel, loads, gen, deleted, restore, deletes,
                     restarts, handledAt, session>>
  BY DEF ReviewDisk
<1>2. review.doc \in Docs /\ review.content # Missing
  BY <1>1 DEF Types, WorkTypes, DecisionTypes, Reviews, Readable
<1>3. \A d \in Docs : d # review.doc => disk'[d] = disk[d] BY DEF ReviewDisk, Types, DiskTypes
<1>4. disk'[review.doc] # Missing \/ disk' = disk BY <1>2 DEF ReviewDisk, Types, DiskTypes
<1>5. deletion'.pc = deletion.pc /\ deletion'.doc = deletion.doc
  BY DEF ReviewDisk, Types, WorkTypes, DecisionTypes, Deletions
<1>6. review'.pc = "snapshot" /\ review'.doc = review.doc /\ review'.st = review.st /\
        review'.op = review.op
  BY <1>1 DEF Types, WorkTypes, DecisionTypes, Reviews
<1> QED BY <1>1, <1>2, <1>3, <1>4, <1>5, <1>6 DEF Shown, snapshots

\* The snapshot of a decision, and the records tied to it.
Tying == ReviewSnapshot \/ ReviewMark
LEMMA TyingFacts ==
    ASSUME Types, PanelInv, Tying
    PROVE  /\ review.pc \in {"snapshot", "mark"} /\ review.doc \in Docs
           /\ review'.pc \in {"mark", "records"}
           /\ review'.doc = review.doc /\ review'.st = review.st /\ review'.op = review.op
           /\ \A d \in Docs : Shown(d)' = Shown(d)
           /\ UNCHANGED <<disk, written, records, active, top, loads, gen, deleted, deletion,
                           restore, counters>>
           /\ review'.pc = "mark" =>
                /\ marks' = marks
                /\ newest'[review.doc] # NoSnapshot /\ newest'[review.doc].st = review.st
           /\ review'.pc = "records" /\ review.op # "acceptAll" =>
                /\ review.pc = "mark"
                /\ marks' = [v \in Versions |-> IF v \in PendingRecords(review.doc)
                                                THEN newest[review.doc] ELSE marks[v]]
           /\ review'.pc = "records" /\ review.op = "acceptAll" /\ review.pc = "snapshot" =>
                marks' = marks
<1>1. /\ review.pc \in {"snapshot", "mark"}
      /\ UNCHANGED <<disk, written, records, panel, loads, gen, deleted, deletion, restore,
                      counters>>
      /\ \E pc \in {"mark", "records"} : review' = [review EXCEPT !.pc = pc]
  BY DEF Tying, ReviewSnapshot, ReviewMark
<1>2. review.doc \in Docs /\ review.content \in Readable /\ review.st \in Marks
  BY <1>1 DEF Types, WorkTypes, DecisionTypes, Reviews
<1>3. /\ review'.pc \in {"mark", "records"}
      /\ review'.doc = review.doc /\ review'.st = review.st /\ review'.op = review.op
  BY <1>1 DEF Types, WorkTypes, DecisionTypes, Reviews
<1>4. CASE ReviewSnapshot
  <2>1. newest'[review.doc] # NoSnapshot /\ newest'[review.doc].st = review.st
    BY <1>2, <1>4, SnapshotTypes DEF ReviewSnapshot, Types, DiskTypes
  <2>2. review'.pc = IF review.op = "acceptAll" THEN "records" ELSE "mark"
    BY <1>4 DEF ReviewSnapshot, Types, WorkTypes, DecisionTypes, Reviews
  <2>3. marks' = marks BY <1>4 DEF ReviewSnapshot
  <2> QED BY <1>1, <1>2, <1>3, <2>1, <2>2, <2>3 DEF Shown
<1>5. CASE ReviewMark
  <2>1. review.pc = "mark" /\ review' = [review EXCEPT !.pc = "records"] BY <1>5 DEF ReviewMark
  <2>2. review'.pc = "records" BY <2>1 DEF Types, WorkTypes, DecisionTypes, Reviews
  <2>3. marks' = [v \in Versions |-> IF v \in PendingRecords(review.doc)
                                     THEN newest[review.doc] ELSE marks[v]]
    BY <1>5 DEF ReviewMark
  <2> QED BY <1>1, <1>2, <1>3, <2>1, <2>2, <2>3 DEF Shown
<1> QED BY <1>4, <1>5 DEF Tying

\* A session stays calm.
LEMMA CalmKept ==
    ASSUME [Next]_vars
    PROVE  calm' = calm
BY DEF Next, vars, LoadStep, Decide, ReviewStep, DeletionStep, RestoreStep, AgentWrites,
   UserDeletes, DiffArrives,
   GiveUp, LoadFails, CancelDeleted, Previewed, CreateRecord, RecordCreated, Probe, CloseStale,
   Commit, Accept, Reject, AcceptAll, RejectAll, SelectFile, ToggleMode, ReviewDisk,
   ReviewSnapshot, ReviewMark, ReviewRecords, AcceptLeaves, Discard, DiscardRecords, BeginRestore,
   RestoreNext, Project, Restart

\* The steps, grouped by what they do.
LEMMA CalmCases ==
    ASSUME [Next]_vars
    PROVE  \/ UNCHANGED vars
           \/ \E d \in Docs : AgentWrites(d) \/ UserDeletes(d)
           \/ \E i \in Slots : Loading(i) \/ Commit(i)
           \/ Begins \/ Looks \/ ReviewDisk \/ ReviewRecords \/ AcceptLeaves \/ Discard \/
               DiscardRecords
           \/ Tying \/ Project
           \/ BeginRestore \/ RestoreEnds \/ Restart
           \/ \E v \in restore.todo : RestoreSkips(v) \/ RestoreCloses(v) \/ RestoreStarts(v)
BY RestoreCases DEF Next, LoadStep, Loading, Begins, Looks, Decide, ReviewStep, DeletionStep,
   RestoreStep, Tying

\* What the steps of a calm session do, and what is at work when they are taken.
Calm == AnyInv /\ calm /\ QuietInv /\ MarksInv /\ WholeInv
SameShown == \A d \in Docs : Shown(d)' = Shown(d)
\* The record of a version and the snapshot it is tied to are left alone.
Untouched(v) == records'[v] = records[v] /\ marks'[v] = marks[v]

\* Only a restore, or the loads of versions newer than the session, are at work; a review is alone.
LEMMA WhoIsAtWork ==
    ASSUME Calm
    PROVE  /\ review.pc # "idle" => Settled
           /\ restore.pc # "idle" /\ restore.ver = 0 /\ restore.plan = NoEntry => Settled
           /\ deletion.pc # "idle" \/ restore.pc # "idle" =>
               \A j \in Versions : loads[j].pc = "idle"
           /\ restore.pc # "next" => loads[0].pc = "idle" /\ restore.ver = 0
                                       /\ restore.todo = {} /\ restore.plan = NoEntry
           /\ restore.pc # "idle" => session = Len(written)
<1>1. \A j \in Slots : FreshPart(j) BY DEF Calm, QuietInv
<1>2. \A j \in Versions : j \in Slots /\ j # 0 BY Values
<1>3. restore.pc # "next" => loads[0].pc = "idle" /\ restore.ver = 0 /\ restore.todo = {}
                            /\ restore.plan = NoEntry
  BY DEF Calm, AnyInv, LoadInv, PlanInv
<1>4. restore.ver = 0 => loads[0].pc = "idle" BY DEF Calm, AnyInv, LoadInv
<1>5. restore.pc # "idle" => session = Len(written) BY DEF Calm, QuietInv, RestorePart
<1>6. deletion.pc # "idle" \/ restore.pc # "idle" => \A j \in Versions : loads[j].pc = "idle"
  BY <1>1, <1>2 DEF FreshPart
<1>7. review.pc # "idle" => Settled
  BY <1>1 DEF FreshPart, Settled, Calm, QuietInv, PlanPart
<1>8. restore.pc # "idle" /\ restore.ver = 0 /\ restore.plan = NoEntry => Settled
  BY <1>4, <1>6, Values DEF Settled
<1> QED BY <1>3, <1>5, <1>6, <1>7, <1>8

\* The agent writes while no decision, deletion or restore is under way.
LEMMA WritesCalm ==
    ASSUME Calm, NEW d \in Docs, AgentWrites(d)
    PROVE  /\ Writing(d) /\ SameShown
           /\ review.pc = "idle" /\ deletion.pc = "idle" /\ restore.pc = "idle"
           /\ UNCHANGED <<records, marks, review, deletion, restore, gen, deleted, session,
                           handledAt>>
           /\ disk'[d] = <<Len(written) + 1, {}>> /\ disk'[d] # Missing
           /\ \A e \in Docs \ {d} : disk'[e] = disk[e]
<1>1. Writing(d) BY WritingFacts DEF Calm, AnyInv
<1>2. UNCHANGED <<panel, records, snapshots, review, deletion, restore, gen, deleted, session,
                  handledAt>> /\ Free
      /\ (calm => restore.pc = "idle" /\ deletion.pc = "idle")
      /\ disk' = [disk EXCEPT ![d] = <<Len(written) + 1, {}>>]
  BY DEF AgentWrites
<1>3. SameShown BY <1>2 DEF SameShown, Shown
<1>4. disk'[d] = <<Len(written) + 1, {}>> /\ \A e \in Docs \ {d} : disk'[e] = disk[e]
  BY <1>2 DEF Calm, AnyInv, Types, DiskTypes
<1>5. <<Len(written) + 1, {}>> # Missing BY <1>1, Values DEF Writing, Readable
<1> QED BY <1>1, <1>2, <1>3, <1>4, <1>5 DEF Calm, Free

\* The user deletes while everything else rests.
LEMMA DeletesCalm ==
    ASSUME Calm, NEW d \in Docs, UserDeletes(d)
    PROVE  /\ Settled /\ SameShown /\ review.pc = "idle" /\ deletion.pc = "idle"
           /\ deletion'.pc = "deleted" /\ deletion'.doc = d
           /\ UNCHANGED <<written, records, marks, loads, review, restore, gen, deleted, session,
               handledAt>>
           /\ disk'[d] = Missing /\ \A e \in Docs \ {d} : disk'[e] = disk[e]
<1>1. UNCHANGED <<panel, written, records, snapshots, loads, review, restore, gen, deleted, session,
        handledAt>> /\ Free
      /\ (calm => Settled) /\ deletion.pc = "idle"
      /\ disk' = [disk EXCEPT ![d] = Missing]
      /\ deletion' = [NoDeletion EXCEPT !.pc = "deleted", !.doc = d, !.upTo = Len(written)]
  BY DEF UserDeletes
<1>2. SameShown BY <1>1 DEF SameShown, Shown
<1>3. disk'[d] = Missing /\ \A e \in Docs \ {d} : disk'[e] = disk[e]
  BY <1>1 DEF Calm, AnyInv, Types, DiskTypes
<1>4. deletion'.pc = "deleted" /\ deletion'.doc = d BY <1>1, EmptyRecords DEF Deletions
<1> QED BY <1>1, <1>2, <1>3, <1>4 DEF Calm, Free

\* A load that is probing finds every file that is shown.
LEMMA NothingStale ==
    ASSUME Calm, NEW i \in Slots, loads[i].pc = "probe"
    PROVE  StaleEntries(i) = {} /\ i # 0
<1>1. i # 0 BY DEF Calm, AnyInv, LoadInv
<1>2. deletion.pc = "idle" BY <1>1 DEF Calm, QuietInv, FreshPart
<1>3. ASSUME NEW d \in Docs, entries[d] # NoEntry, disk[d] = Missing PROVE FALSE
  <2>1. Shown(d).ver = 0 BY <1>2, <1>3 DEF Calm, QuietInv, TidyPart
  <2>2. Shown(d) = NoEntry BY <2>1, PanelFitting DEF Calm, AnyInv
  <2>3. d # active BY <2>1, Values, PanelFitting DEF Calm, AnyInv, PanelInv
  <2> QED BY <1>3, <2>2, <2>3 DEF Shown
<1> QED BY <1>1, <1>3 DEF StaleEntries

\* A load on its way leaves what is shown, and at most its own record changes.
LEMMA LoadsCalm ==
    ASSUME Calm, NEW i \in Slots, Loading(i)
    PROVE  /\ LoadMoved(i) /\ SameShown /\ review.pc = "idle"
           /\ loads[i]'.pc = "idle" \/ (loads[i]'.stale = {} /\ loads[i]'.pc # "clean")
           /\ i # 0 => deletion.pc = "idle" /\ restore.pc = "idle" /\ session < i /\
               Shown(DocOf(i)).ver # i
           /\ \A v \in Versions : v # i => Untouched(v)
           /\ UNCHANGED <<records, marks>> \/ (UNCHANGED marks /\ RecordCreated(i))
                \/ (CreateRecord(i) /\ i \in Versions)
           /\ ~CloseStale(i)
<1>1. LoadMoved(i) /\ SameShown /\ review.pc = "idle" BY LoadingFacts DEF Calm, AnyInv, SameShown
<1>2. loads[i].pc # "idle" /\ FreshPart(i) BY <1>1 DEF LoadMoved, Calm, QuietInv
<1>3. i # 0 => deletion.pc = "idle" /\ restore.pc = "idle" /\ session < i /\ Shown(DocOf(i)).ver # i
  BY <1>2 DEF FreshPart, VersionOf
<1>4. ~CloseStale(i) BY <1>2 DEF CloseStale, Step, FreshPart
<1>5. loads[i]'.pc = "idle" \/ loads[i]'.stale = {}
  <2>1. CASE loads[i]' = NoLoad BY <2>1, EmptyRecords
  <2>2. CASE loads[i]'.stale \in {loads[i].stale, StaleEntries(i)}
             /\ (loads[i]'.stale # loads[i].stale => Probe(i))
    <3>1. Probe(i) => loads[i].pc = "probe" BY DEF Probe, Step
    <3> QED BY <1>2, <2>2, <3>1, NothingStale DEF FreshPart
  <2> QED BY <1>1, <2>1, <2>2 DEF LoadMoved
<1>6. loads[i]'.pc # "clean"
  <2>1. loads \in [Slots -> Loads] BY DEF Calm, AnyInv, Types, WorkTypes, LoadTypes
  <2>2. CASE DiffArrives(i)
    <3>1. loads[i]'.pc = "yield" BY <2>2, StartingFacts DEF Calm, AnyInv, Starting
    <3> QED BY <3>1
  <2>3. CASE Probe(i)
    <3>1. loads[i]'.pc = IF StaleEntries(i) = {} THEN "commit" ELSE "clean"
      BY <2>3, ProbeMoves DEF Calm, AnyInv
    <3>2. loads[i].pc = "probe" BY <2>3 DEF Probe, Step
    <3> QED BY <3>1, <3>2, NothingStale
  <2>4. ASSUME Finish(i) PROVE loads[i]'.pc # "clean"
    BY <2>1, <2>4, EmptyRecords DEF Finish
  <2>5. ASSUME NEW to \in {"commit", "record", "recorded", "probe"}, Advance(i, to)
        PROVE  loads[i]'.pc # "clean"
    BY <2>1, <2>5 DEF Advance, Loads
  <2> QED
    BY <1>4, <2>2, <2>3, <2>4, <2>5 DEF Loading, LoadStep, GiveUp, LoadFails, CancelDeleted,
       Previewed, CreateRecord, RecordCreated
<1>7. CASE CreateRecord(i)
  <2>1. loads[i].pc = "record" BY <1>7 DEF CreateRecord, Step
  <2>2. i \in Versions BY <2>1, Values DEF Calm, AnyInv, LoadInv
  <2>3. \A v \in Versions : v # i => Untouched(v)
    BY <1>7 DEF CreateRecord, Untouched, Calm, AnyInv, Types, DiskTypes
  <2> QED BY <1>1, <1>3, <1>4, <1>5, <1>6, <1>7, <2>2, <2>3
<1>8. CASE RecordCreated(i)
  <2>1. marks' = marks BY <1>8 DEF RecordCreated
  <2>2. \A v \in Versions : v # i => Untouched(v)
    BY <1>8, <2>1 DEF RecordCreated, Withdraw, Close, Untouched, Calm, AnyInv, Types, DiskTypes
  <2> QED BY <1>1, <1>3, <1>4, <1>5, <1>6, <1>8, <2>1, <2>2
<1>9. CASE UNCHANGED <<records, marks>>
  BY <1>1, <1>3, <1>4, <1>5, <1>6, <1>9 DEF Untouched
<1>10. CASE Previewed(i) BY <1>9, <1>10 DEF Previewed
<1> QED
  BY <1>4, <1>7, <1>8, <1>9, <1>10 DEF Loading, LoadStep, DiffArrives, GiveUp, LoadFails,
     CancelDeleted, Probe

\* A commit finds its file on the disk and shows its version.
LEMMA CommitsCalm ==
    ASSUME Calm, NEW i \in Slots, Commit(i)
    PROVE  /\ LoadMoved(i) /\ review.pc = "idle" /\ loads[i]'.pc = "idle" /\
              UNCHANGED <<records, marks, gen>>
           /\ loads[i].pc = "commit" /\ ~Superseded(i)
           /\ DocOf(i) \in Docs /\ VersionOf(i) \in 1 .. Len(written) /\ VersionOf(i) \in Versions
           /\ disk[DocOf(i)] # Missing
           /\ Shown(DocOf(i)).ver # VersionOf(i)
           /\ \A d \in Docs : d = DocOf(i) => Shown(d)'.ver = VersionOf(i) /\
               Shown(d)'.st = loads[i].st /\ ~Shown(d)'.whole
           /\ \A d \in Docs : d # DocOf(i) => Shown(d)' = Shown(d)
           /\ i # 0 => restore.pc = "idle" /\ deletion.pc = "idle" /\ VersionOf(i) = i
           /\ i = 0 => restore.pc = "next" /\ restore.ver # 0 /\ restore'.ver = 0
                        /\ VersionOf(i) = restore.ver /\ DocOf(i) = written[restore.ver]
                        /\ (deletion.pc = "idle" \/ deletion.doc # DocOf(0))
<1>1. /\ LoadMoved(i) /\ review.pc = "idle" /\ loads[i]' = NoLoad
      /\ UNCHANGED <<records, marks, gen>>
      /\ loads[i].pc = "commit" /\ ~Superseded(i)
      /\ Committed(i) /\ VersionOf(i) \in 1 .. Len(written) /\ DocOf(i) \in Docs
  BY CommitMoved DEF Calm, AnyInv
<1>2. FreshPart(i) BY DEF Calm, QuietInv
<1>3. loads[i].stale = {} /\ disk[DocOf(i)] # Missing /\ Shown(DocOf(i)).ver # VersionOf(i)
  BY <1>1, <1>2 DEF FreshPart
<1>4. i # 0 => restore.pc = "idle" /\ deletion.pc = "idle" BY <1>1, <1>2 DEF FreshPart
<1>5. i = 0 => deletion.pc = "idle" \/ deletion.doc # DocOf(0) BY <1>1, <1>2 DEF FreshPart
<1>6. /\ VersionOf(i) \in Versions /\ (i # 0 => VersionOf(i) = i)
      /\ i = 0 => restore.pc = "next" /\ restore.ver # 0 /\ VersionOf(i) = restore.ver
                   /\ DocOf(i) = written[restore.ver]
  BY <1>1, AtWork DEF Calm, AnyInv, DocOf
<1>7. \A d \in Docs : d # DocOf(i) => Shown(d)' = Shown(d) BY <1>1, <1>3 DEF Committed
<1>8. \A d \in Docs : d = DocOf(i) =>
        Shown(d)'.ver = VersionOf(i) /\ Shown(d)'.st = loads[i].st /\ ~Shown(d)'.whole
  BY <1>1, CommittedEntry
<1>9. i = 0 => restore'.ver = 0
  <2>1. Finish(i) BY DEF Commit
  <2> QED BY <2>1, FinishTypes DEF Calm, AnyInv
<1> QED BY <1>1, <1>3, <1>4, <1>5, <1>6, <1>7, <1>8, <1>9, EmptyRecords

\* A decision marks the active file, which stays active unless all of it was accepted.
LEMMA BeginsCalm ==
    ASSUME Calm, Begins
    PROVE  /\ Settled /\ SameVersions /\ review.pc = "idle" /\ review'.pc = "disk" /\
              review'.doc = active
           /\ active \in Docs /\ Shown(active).ver # 0 /\ HasPending(Shown(active).st)
           /\ review'.op # "acceptAll" => active' = active
           /\ review'.op \in {"acceptAll", "rejectAll"} => Reviewed(review'.st)
           /\ UNCHANGED <<disks, loads, gen, deleted, deletion, restore, counters>>
           /\ \A d \in Docs : d # active => Shown(d)' = Shown(d)
           /\ \A d \in Docs : d = active =>
                /\ Shown(d)'.st = review'.st /\ Shown(d)'.whole = Shown(d).whole
                /\ Shown(d).whole => OneChange(Shown(d)'.st)
                /\ \A m \in Mods : Shown(d).st[m] # "pending" => Shown(d)'.st[m] = Shown(d).st[m]
<1>1. /\ Settled /\ review.pc = "idle" /\ active \in Docs
      /\ review'.pc = "disk" /\ review'.doc = active /\
          (review'.op # "acceptAll" => active' = active)
      /\ UNCHANGED <<disks, loads, gen, deleted, deletion, restore, counters>>
      /\ \E st : Marked(st)
  BY BeginsFacts DEF Calm, AnyInv
<1>2. PICK st : Marked(st) BY <1>1
<1>3. Shown(active) = top /\ top.ver # 0 BY <1>1, Values DEF Shown, Calm, AnyInv, PanelInv
<1>4. SameVersions BY <1>2 DEF Marked, MarksOnly, SameVersions
<1>5. HasPending(Shown(active).st) BY <1>2, <1>3 DEF Marked
<1>6. review'.op \in {"acceptAll", "rejectAll"} => Reviewed(review'.st) BY <1>2 DEF Marked
<1>7. \A d \in Docs : d = active => Shown(d) = top /\ Shown(d)'.st = st /\ review'.st = st
                                   /\ Shown(d)'.whole = Shown(d).whole
  BY <1>2, <1>3 DEF Marked, MarksOnly
<1>8. \A d \in Docs : d # active => Shown(d)' = Shown(d) BY <1>2 DEF Marked, MarksOnly
<1>9. /\ \A m \in Mods : top.st[m] # "pending" => st[m] = top.st[m]
      /\ top.whole => OneChange(st)
  BY <1>2 DEF Marked
<1> QED BY <1>1, <1>3, <1>4, <1>5, <1>6, <1>7, <1>8, <1>9

\* The records of a decision are of its file.
LEMMA ReviewRecordsCalm ==
    ASSUME Calm, ReviewRecords
    PROVE  /\ review.pc = "records" /\ review.doc \in Docs /\ SameShown
           /\ UNCHANGED <<disk, written, marks, active, loads, gen, deleted, deletion, restore,
                           counters>>
           /\ \/ review'.pc = "idle"
              \/ /\ review.op = "accept" /\ Reviewed(review.st)
                 /\ review'.pc = "leave" /\ review'.op = review.op /\ review'.st = review.st
                 /\ review'.doc = review.doc
           /\ \A v \in Versions : records'[v].status = "pending" => records[v].status = "pending"
           /\ \A v \in Versions : v \notin PendingRecords(review.doc) => Untouched(v)
           /\ ~Reviewed(review.st) => \A v \in PendingRecords(review.doc) \cap Versions :
                                        records'[v].status = "pending"
<1>1. review.pc = "records" /\ UNCHANGED <<disk, written, snapshots, panel, loads, gen, deleted,
                                           deletion, restore, counters>>
  BY DEF ReviewRecords
<1>2. review.doc \in Docs BY <1>1 DEF Calm, AnyInv, Types, WorkTypes, DecisionTypes
<1>3. SameShown BY <1>1 DEF SameShown, Shown
<1>4. \/ review'.pc = "idle"
      \/ /\ review.op = "accept" /\ Reviewed(review.st)
         /\ review'.pc = "leave" /\ review'.op = review.op /\ review'.st = review.st
         /\ review'.doc = review.doc
  BY EmptyRecords DEF ReviewRecords, Calm, AnyInv, Types, WorkTypes, DecisionTypes, Reviews
<1>5. Closes(PendingRecords(review.doc)) \subseteq PendingRecords(review.doc)
  BY ClosesFacts DEF Calm, AnyInv
<1>6. CASE Reviewed(review.st)
  <2>1. records' = Close(Closes(PendingRecords(review.doc)), "applied") BY <1>6 DEF ReviewRecords
  <2>2. \A v \in Versions : v \notin PendingRecords(review.doc) => Untouched(v)
    BY <1>1, <1>5, <2>1 DEF Close, Untouched
  <2>3. \A v \in Versions : records'[v].status = "pending" => records[v].status = "pending"
    BY <2>1, ClosedNotPending DEF Calm, AnyInv, Close, Types, DiskTypes
  <2> QED BY <1>1, <1>2, <1>3, <1>4, <1>6, <2>2, <2>3
<1>7. CASE ~Reviewed(review.st)
  <2>1. records' = [v \in Versions |-> IF v \in PendingRecords(review.doc)
                                       THEN [records[v] EXCEPT !.st = review.st] ELSE records[v]]
    BY <1>7 DEF ReviewRecords
  <2>2. \A v \in Versions : v \notin PendingRecords(review.doc) => Untouched(v)
    BY <1>1, <2>1 DEF Untouched
  <2>3. \A v \in PendingRecords(review.doc) \cap Versions : records'[v].status = "pending"
    BY <2>1 DEF PendingRecords, Calm, AnyInv, Types, DiskTypes
  <2>4. \A v \in Versions : records'[v].status = "pending" => records[v].status = "pending"
    BY <2>1 DEF Calm, AnyInv, Types, DiskTypes
  <2> QED BY <1>1, <1>2, <1>3, <1>4, <1>7, <2>2, <2>3, <2>4
<1> QED BY <1>6, <1>7

\* The end of an accepted file.
LEMMA AcceptLeavesCalm ==
    ASSUME Calm, AcceptLeaves
    PROVE  /\ Settled /\ SameVersions /\ review.pc = "leave" /\ review'.pc = "idle"
           /\ Reviewed(review.st)
           /\ UNCHANGED <<disks, loads, gen, deleted, deletion, restore, counters>>
           /\ \A d \in Docs : d # active => Shown(d)' = Shown(d)
           /\ \A d \in Docs : d = active => Shown(d)'.st = review.st /\ Shown(d).st = review.st
                                            /\ Shown(d)'.whole = Shown(d).whole
<1>1. review.pc = "leave" /\ review' = NoReview
      /\ UNCHANGED <<disks, loads, gen, deleted, deletion, restore, counters>>
  BY DEF AcceptLeaves
<1>2. MarksOnly(review.st) BY AcceptLeavesFacts DEF Calm, AnyInv
<1>3. SameVersions /\ \A d \in Docs : d # active => Shown(d)' = Shown(d)
  BY <1>2 DEF MarksOnly, SameVersions
<1>4. active = review.doc /\ Shown(review.doc).st = review.st /\ Reviewed(review.st)
  BY <1>1 DEF Calm, QuietInv, ReviewPart
<1>5. \A d \in Docs : d = active => Shown(d)'.st = review.st /\ Shown(d)'.whole = Shown(d).whole
  BY <1>2 DEF MarksOnly
<1>6. Settled BY <1>1, WhoIsAtWork
<1> QED BY <1>1, <1>3, <1>4, <1>5, <1>6, EmptyRecords

\* A discard handles what was written of its file.
LEMMA DiscardsCalm ==
    ASSUME Calm, Discard
    PROVE  /\ Discarded /\ review.pc = "idle" /\ deletion.pc = "deleted" /\ deletion.doc \in Docs
           /\ deletion'.pc = "records" /\ deletion'.doc = deletion.doc
           /\ deleted' = deleted \cup {deletion.doc}
           /\ UNCHANGED <<disks, loads, review, restore, session>>
           /\ \A d \in Docs \ {deletion.doc} : gen'[d] = gen[d] /\ handledAt'[d] = handledAt[d]
           /\ handledAt'[deletion.doc] = Len(written)
<1>1. Discarded BY DiscardFacts DEF Calm, AnyInv
<1>2. Free /\ deletion.pc = "deleted" /\ UNCHANGED <<disks, loads, review, restore, session>>
      /\ deleted' = deleted \cup {deletion.doc}
      /\ gen' = NextGeneration(deletion.doc)
      /\ handledAt' = [handledAt EXCEPT ![deletion.doc] = Len(written)]
      /\ deletion' = [deletion EXCEPT !.pc = "records",
                                      !.before = {v \in Versions : records[v].status # "none"}]
  BY DEF Discard
<1>3. deletion.doc \in Docs BY <1>2 DEF Calm, AnyInv, Types, WorkTypes, DecisionTypes
<1>4. deletion'.pc = "records" /\ deletion'.doc = deletion.doc
  BY <1>2 DEF Calm, AnyInv, Types, WorkTypes, DecisionTypes, Deletions
<1>5. \A d \in Docs \ {deletion.doc} : gen'[d] = gen[d]
  BY <1>2 DEF NextGeneration, Calm, AnyInv, Types, WorkTypes, LoadTypes
<1>6. /\ \A d \in Docs \ {deletion.doc} : handledAt'[d] = handledAt[d]
      /\ handledAt'[deletion.doc] = Len(written)
  BY <1>2, <1>3 DEF Calm, AnyInv, Types, CounterTypes
<1> QED BY <1>1, <1>2, <1>3, <1>4, <1>5, <1>6 DEF Calm, Free

\* The records of a deletion are of its file, which is not shown.
LEMMA DiscardRecordsCalm ==
    ASSUME Calm, DiscardRecords
    PROVE  /\ SameShown /\ review.pc = "idle" /\ deletion.pc = "records" /\ deletion'.pc = "idle"
           /\ deletion.doc \in deleted /\ Shown(deletion.doc).ver = 0 /\ deletion.doc \in Docs
           /\ UNCHANGED <<disk, written, marks, loads, gen, deleted, review, restore, session,
                           handledAt>>
           /\ \A v \in Versions : records'[v].status = "pending" => records[v].status = "pending"
           /\ \A v \in Versions : v \notin PendingRecords(deletion.doc) => Untouched(v)
<1>1. Free /\ deletion.pc = "records" /\ deletion' = NoDeletion
      /\ UNCHANGED <<disk, written, snapshots, panel, loads, gen, deleted, review, restore, session,
          handledAt>>
      /\ records' = Close(PendingRecords(deletion.doc) \cap deletion.before, "reverted")
  BY DEF DiscardRecords
<1>2. SameShown BY <1>1 DEF SameShown, Shown
<1>3. deletion.doc \in deleted /\ Shown(deletion.doc).ver = 0 /\ deletion.doc \in Docs
  BY <1>1 DEF Calm, AnyInv, Types, WorkTypes, DecisionTypes, QuietInv, DeletionPart
<1>4. \A v \in Versions : v \notin PendingRecords(deletion.doc) => Untouched(v)
  BY <1>1 DEF Close, Untouched
<1>5. \A v \in Versions : records'[v].status = "pending" => records[v].status = "pending"
  BY <1>1 DEF Close, Calm, AnyInv, Types, DiskTypes
<1> QED BY <1>1, <1>2, <1>3, <1>4, <1>5, EmptyRecords DEF Calm, Free

\* A restore that goes on without a load.
Restoring == BeginRestore \/ RestoreEnds \/ \E v \in restore.todo : RestoreSkips(v) \/
    RestoreCloses(v)
\* The steps of a restore that start no load.
LEMMA RestoringCalm ==
    ASSUME Calm, Restoring
    PROVE  /\ SameShown /\ review.pc = "idle" /\ restore.pc # "idle" /\ Settled /\
              session = Len(written)
           /\ UNCHANGED <<disk, written, marks, loads, gen, deleted, review, deletion, session,
                           handledAt>>
           /\ restore'.ver = 0 /\ restore'.pc # "mounted" /\ restore'.plan = NoEntry
           /\ \A v \in Versions : Untouched(v) \/ Shown(written[v]).ver = 0
           /\ \A v \in Versions : records'[v].status = "pending" => records[v].status = "pending"
           /\ \A v \in Versions : restore.pc = "next" /\ v \in restore'.todo =>
                v \in restore.todo /\ records'[v] = records[v]
           /\ restore.pc = "mounted" => BeginRestore
<1>1. restore.pc # "idle" /\ restore.ver = 0 /\ restore.plan = NoEntry /\ Free
  BY WhoIsAtWork DEF Restoring, BeginRestore, RestoreEnds, RestoreSkips, RestoreCloses,
     RestoreGoesOn, RestoreWaits
<1>2. Settled /\ session = Len(written) BY <1>1, WhoIsAtWork
<1>3. UNCHANGED <<panel, disk, written, snapshots, loads, gen, deleted, review, deletion, session,
                  handledAt>>
  BY DEF Restoring, BeginRestore, RestoreEnds, RestoreSkips, RestoreCloses, RestoreGoesOn
<1>4. SameShown BY <1>3 DEF SameShown, Shown
<1> DEFINE goal == /\ restore'.ver = 0 /\ restore'.pc # "mounted" /\ restore'.plan = NoEntry
                   /\ \A v \in Versions : records'[v] = records[v] \/ Shown(written[v]).ver = 0
                   /\ \A v \in Versions :
                        records'[v].status = "pending" => records[v].status = "pending"
                   /\ \A v \in Versions : restore.pc = "next" /\ v \in restore'.todo =>
                        v \in restore.todo /\ records'[v] = records[v]
                   /\ restore.pc = "mounted" => BeginRestore
<1>5. ASSUME BeginRestore PROVE goal
  <2>1. restore.pc = "mounted" /\ UNCHANGED records BY <1>5 DEF BeginRestore
  <2>2. ASSUME restore' = NoRestore PROVE goal BY <1>5, <2>1, <2>2, EmptyRecords
  <2>3. ASSUME NEW S, restore' = [NoRestore EXCEPT !.pc = "next", !.todo = S] PROVE goal
    <3>1. restore'.pc = "next" /\ restore'.ver = 0 /\ restore'.plan = NoEntry
      BY <2>3 DEF NoRestore
    <3> QED BY <1>5, <2>1, <3>1
  <2> QED BY <1>5, <2>2, <2>3 DEF BeginRestore
<1>6. ASSUME RestoreEnds PROVE goal
  <2>1. restore.pc = "next" /\ UNCHANGED records /\ restore' = NoRestore
    BY <1>6 DEF RestoreEnds, RestoreWaits
  <2> QED BY <2>1, EmptyRecords
<1>7. ASSUME NEW v \in restore.todo, RestoreSkips(v) \/ RestoreCloses(v) PROVE goal
  <2>1. RestoreGoesOn(v) /\ restore' = [restore EXCEPT !.todo = @ \ {v}]
    BY <1>7 DEF RestoreSkips, RestoreCloses
  <2>2. restore.pc = "next" BY <2>1 DEF RestoreGoesOn, RestoreWaits
  <2>3. restore'.pc = "next" /\ restore'.ver = 0 /\ restore'.todo = restore.todo \ {v}
        /\ restore'.plan = NoEntry
    BY <1>1, <2>1, <2>2 DEF Calm, AnyInv, Types, WorkTypes, LoadTypes, Restores
  <2>4. \A w \in Versions : w # v => records'[w] = records[w]
    BY <1>7 DEF RestoreSkips, RestoreCloses, Close
  <2>5. \A w \in Versions : records'[w].status = "pending" => records[w].status = "pending"
    BY <1>7 DEF RestoreSkips, RestoreCloses, Close, Calm, AnyInv, Types, DiskTypes
  <2>6. Shown(written[v]).ver = 0 BY DEF Calm, QuietInv, RestorePart
  <2> QED BY <2>2, <2>3, <2>4, <2>5, <2>6
<1>8. goal BY <1>5, <1>6, <1>7 DEF Restoring
<1> QED BY <1>1, <1>2, <1>3, <1>4, <1>8 DEF Calm, Free, Untouched

\* A restore starts a load for a file that is not shown.
LEMMA StartsCalm ==
    ASSUME Calm, NEW v \in restore.todo, RestoreStarts(v)
    PROVE  /\ SameShown /\ review.pc = "idle" /\ restore.pc = "next" /\ Settled /\
              session = Len(written)
           /\ v \in 1 .. Len(written) /\ v \in Versions /\ v # 0 /\ written[v] \in Docs
           /\ UNCHANGED <<disks, deleted, review, deletion, session, handledAt>>
           /\ restore'.ver = v /\ restore'.pc = "next" /\ restore'.todo = restore.todo \ {v}
           /\ restore'.plan = Projection(v)
           /\ \A j \in Versions : loads[j]'.pc = "idle"
           /\ loads[0]'.pc = "yield" /\ loads[0]'.stale = {} /\ loads[0]'.st = SavedStatuses(v)
           /\ VersionOf(0)' = v /\ DocOf(0)' = written[v]
           /\ Shown(written[v]).ver = 0 /\ records[v].status = "pending"
           /\ written[v] \notin deleted /\ disk[written[v]] # Missing
<1>1. RestoreGoesOn(v) /\ written[v] \notin deleted /\ disk[written[v]] # Missing
      /\ UNCHANGED records /\ v \in 1 .. Len(written)
      /\ Starting(0, v) /\ loads[0]'.st = SavedStatuses(v) /\ loads[0]'.stale = {}
  BY RestartingFacts DEF RestoreStarts, Calm, AnyInv
<1>2. restore.pc = "next" /\ restore.ver = 0 /\ restore.plan = NoEntry /\ Free
      /\ UNCHANGED <<disk, written, snapshots, active, top, entries, deleted, review, deletion,
          session, handledAt>>
      /\ restore' = [restore EXCEPT !.todo = @ \ {v}, !.ver = v,
                                    !.gen = gen[written[v]] + 1, !.plan = Projection(v)]
  BY <1>1 DEF RestoreGoesOn, RestoreWaits, RestoreStarts
<1>3. Settled /\ session = Len(written) BY <1>2, WhoIsAtWork
<1>4. restore'.ver = v /\ restore'.pc = "next" /\ restore'.todo = restore.todo \ {v}
      /\ restore'.plan = Projection(v)
  BY <1>1, <1>2 DEF Calm, AnyInv, Types, WorkTypes, LoadTypes, Restores
<1>5. v \in Versions /\ v # 0 /\ written[v] \in Docs BY <1>1, WrittenVersions DEF Calm, AnyInv
<1>6. \A j \in Versions : loads[j]'.pc = "idle"
  BY <1>1, <1>3, Values DEF Starting, Settled
<1>7. VersionOf(0)' = v /\ DocOf(0)' = written[v] BY <1>2, <1>4 DEF VersionOf, DocOf
<1>8. Shown(written[v]).ver = 0 /\ records[v].status = "pending"
  BY <1>1 DEF Calm, QuietInv, RestorePart
<1>9. SameShown BY <1>2 DEF SameShown, Shown
<1>10. loads[0]'.pc = "yield" BY <1>1 DEF Starting
<1> QED BY <1>1, <1>2, <1>3, <1>4, <1>5, <1>6, <1>7, <1>8, <1>9, <1>10 DEF Calm, Free

\* A restart leaves the disk and the records.
LEMMA RestartCalm ==
    ASSUME Calm, Restart
    PROVE  /\ \A d \in Docs : Shown(d)'.ver = 0 /\ Shown(d)' = NoEntry
           /\ \A j \in Slots : loads[j]'.pc = "idle"
           /\ review'.pc = "idle" /\ deletion'.pc = "idle"
           /\ restore'.pc = "mounted" /\ restore'.todo = {} /\ restore'.ver = 0
           /\ restore'.plan = NoEntry
           /\ session' = Len(written) /\ UNCHANGED disks
<1>1. Cleared BY RestartFacts DEF Calm, AnyInv
<1>2. /\ \A j \in Slots : loads'[j] = NoLoad
      /\ review' = NoReview /\ deletion' = NoDeletion
      /\ restore' = [NoRestore EXCEPT !.pc = "mounted"]
      /\ session' = Len(written) /\ UNCHANGED disks
  BY DEF Restart
<1>3. restore'.pc = "mounted" /\ restore'.todo = {} /\ restore'.ver = 0 /\ restore'.plan = NoEntry
  BY <1>2 DEF NoRestore
<1> QED BY <1>1, <1>2, <1>3, EmptyRecords DEF Cleared

\* The snapshot of a decision, whose review is alone.
LEMMA TyingCalm ==
    ASSUME Calm, Tying
    PROVE  /\ Settled /\ SameShown /\ review.pc # "idle" /\ review.doc \in Docs
           /\ review.pc \in {"snapshot", "mark"} /\ review'.pc \in {"mark", "records"}
           /\ review'.doc = review.doc /\ review'.st = review.st /\ review'.op = review.op
           /\ UNCHANGED <<disk, written, records, active, loads, gen, deleted, deletion, restore,
                           counters>>
           /\ \A v \in Versions : v \notin PendingRecords(review.doc) => Untouched(v)
<1>1. review.pc \in {"snapshot", "mark"} /\ review'.pc \in {"mark", "records"}
      /\ review.doc \in Docs /\ SameShown
      /\ review'.doc = review.doc /\ review'.st = review.st /\ review'.op = review.op
      /\ UNCHANGED <<disk, written, records, active, loads, gen, deleted, deletion, restore,
                      counters>>
  BY TyingFacts DEF Calm, AnyInv, SameShown
<1>2. Settled BY <1>1, WhoIsAtWork
<1>3. \A v \in Versions : v \notin PendingRecords(review.doc) => marks'[v] = marks[v]
  BY DEF Tying, ReviewSnapshot, ReviewMark
<1> QED BY <1>1, <1>2, <1>3 DEF Untouched

\* A projection shows what it has planned, of a file that nobody else is at.
LEMMA ProjectCalm ==
    ASSUME Calm, Project
    PROVE  /\ Settled' /\ restore.pc = "next" /\ restore.plan # NoEntry
           /\ restore'.pc = "next" /\ restore'.todo = restore.todo /\ restore'.ver = restore.ver
           /\ restore.ver = 0 /\ restore'.plan = NoEntry
           /\ review.pc = "idle" /\ session = Len(written)
           /\ \A j \in Slots : loads[j].pc = "idle"
           /\ UNCHANGED <<disks, active, loads, gen, deleted, review, deletion, counters>>
           /\ SameShown \/ Projected
           /\ Projected =>
                /\ \A d \in Docs : d # active => Shown(d)' = Shown(d)
                /\ \A d \in Docs : d = active =>
                     /\ d = written[restore.plan.ver] /\ restore.plan.ver \in Versions
                     /\ restore.plan.ver # 0 /\ Shown(d).ver # 0
                     /\ Shown(d)'.ver = restore.plan.ver /\ Shown(d)'.st = restore.plan.st
                     /\ Shown(d)'.whole = restore.plan.whole
                     /\ deletion.pc = "idle" \/ deletion.doc # d
                     /\ disk[d] # Missing
                     /\ \A v \in restore.todo : written[v] # d
<1>1. Free /\ restore.ver = 0 /\ restore.plan # NoEntry
      /\ restore' = [restore EXCEPT !.gen = 0, !.plan = NoEntry]
      /\ UNCHANGED <<disks, active, loads, gen, deleted, review, deletion, counters>>
  BY DEF Project
<1>2. restore.pc = "next" /\ restore.plan.ver \in 1 .. Len(written)
  BY <1>1 DEF Calm, AnyInv, PlanInv, Begun
<1>3. restore'.pc = "next" /\ restore'.todo = restore.todo /\ restore'.ver = restore.ver
      /\ restore'.plan = NoEntry
  BY <1>1, <1>2 DEF Calm, AnyInv, Types, WorkTypes, LoadTypes, Restores
<1>4. session = Len(written) /\ \A j \in Versions : loads[j].pc = "idle" BY <1>2, WhoIsAtWork
<1>5. loads[0].pc = "idle" BY <1>1 DEF Calm, AnyInv, LoadInv
<1>6. \A j \in Slots : loads[j].pc = "idle" BY <1>4, <1>5, Values
<1>7. Settled' BY <1>1, <1>3, <1>6 DEF Settled
<1>8. SameShown \/ Projected BY ProjectFacts DEF Calm, AnyInv, SameShown
<1>9. ASSUME Projected, NEW d \in Docs, d = active
      PROVE  /\ d = written[restore.plan.ver] /\ restore.plan.ver \in Versions
             /\ restore.plan.ver # 0 /\ Shown(d).ver # 0
             /\ Shown(d)'.ver = restore.plan.ver /\ Shown(d)'.st = restore.plan.st
             /\ Shown(d)'.whole = restore.plan.whole
             /\ deletion.pc = "idle" \/ deletion.doc # d
             /\ disk[d] # Missing
             /\ \A v \in restore.todo : written[v] # d
  <2>1. d = written[restore.plan.ver] /\ Shown(d).ver # 0 BY <1>9 DEF Projected
  <2>2. restore.plan.ver \in Versions /\ restore.plan.ver # 0
    BY <1>2, WrittenVersions DEF Calm, AnyInv
  <2>3. active' = active BY <1>1
  <2>4. Shown(active)' = Shown(d)' BY <1>9, <2>3 DEF Shown
  <2>5. Shown(d)'.ver = restore.plan.ver /\ Shown(d)'.whole = restore.plan.whole
        /\ Shown(d)'.st = restore.plan.st
    <3>1. calm /\ Types BY DEF Calm, AnyInv
    <3> QED BY <1>9, <2>4, <3>1, ProjectedEntry
  <2>6. /\ deletion.pc = "idle" \/ deletion.doc # d
        /\ \A v \in restore.todo : written[v] # d
    BY <1>1, <2>1 DEF Calm, QuietInv, PlanPart
  <2>7. disk[d] # Missing BY <2>1, <2>6 DEF Calm, QuietInv, TidyPart
  <2> QED BY <2>1, <2>2, <2>5, <2>6, <2>7
<1>10. Projected => \A d \in Docs : d # active => Shown(d)' = Shown(d) BY DEF Projected
<1> QED BY <1>1, <1>2, <1>3, <1>4, <1>6, <1>7, <1>8, <1>9, <1>10 DEF Calm, Free

\* The same groups, with those of the restore as one.
LEMMA CalmSteps ==
    ASSUME [Next]_vars
    PROVE  \/ UNCHANGED vars
           \/ \E d \in Docs : AgentWrites(d) \/ UserDeletes(d)
           \/ \E i \in Slots : Loading(i) \/ Commit(i)
           \/ Begins \/ Looks \/ ReviewDisk \/ ReviewRecords \/ AcceptLeaves \/ Discard \/
               DiscardRecords
           \/ Tying \/ Project \/ Restoring \/ Restart
           \/ \E v \in restore.todo : RestoreStarts(v)
BY CalmCases DEF Restoring

\* A load stays fresh.
LEMMA FreshKept ==
    ASSUME NEW j \in Slots, FreshPart(j), loads[j].pc # "idle",
           loads[j]'.stale = {}, loads[j]'.pc # "clean", VersionOf(j)' = VersionOf(j),
           DocOf(j)' = DocOf(j),
               DocOf(j) \in Docs,
           review'.pc = "idle", disk'[DocOf(j)] # Missing,
           \A d \in Docs : d = DocOf(j) => Shown(d)'.ver = Shown(d).ver,
           restore'.pc = restore.pc, session' = session,
           deletion'.pc = "idle" \/ (deletion.pc # "idle" /\ deletion'.doc = deletion.doc)
    PROVE  FreshPart(j)'
<1>1. PICK d \in Docs : d = DocOf(j) OBVIOUS
<1>2. DocOf(j)' = d /\ (j = 0 => DocOf(0)' = d /\ DocOf(0) = d) BY <1>1
<1>3. Shown(d)'.ver = Shown(d).ver BY <1>1
<1>4. Shown(d).ver # VersionOf(j) /\ (j = 0 => Shown(d).ver = 0) BY <1>1 DEF FreshPart
<1>5. Shown(DocOf(j))'.ver # VersionOf(j)' /\ (j = 0 => Shown(DocOf(0))'.ver = 0)
  <2>1. Shown(DocOf(j))' = Shown(d)' BY <1>2 DEF Shown
  <2>2. j = 0 => Shown(DocOf(0))' = Shown(d)' BY <1>2 DEF Shown
  <2> QED BY <1>3, <1>4, <2>1, <2>2
<1> QED BY <1>1, <1>2, <1>5 DEF FreshPart

\* Who may be at work with a load.
LEMMA FreshStep ==
    ASSUME Calm, [Next]_vars, NEW j \in Slots
    PROVE  FreshPart(j)'
<1> SUFFICES ASSUME loads[j]'.pc # "idle" PROVE FreshPart(j)' BY DEF FreshPart
<1>1. FreshPart(j) /\ Len(written) \in Nat BY DEF Calm, QuietInv, AnyInv, Types, DiskTypes
<1>2. loads[j].pc # "idle" =>
        /\ VersionOf(j) \in 1 .. Len(written) /\ DocOf(j) \in Docs /\ disk[DocOf(j)] # Missing
        /\ loads[j].stale = {} /\ loads[j].pc # "clean" /\ review.pc = "idle"
        /\ (j # 0 => VersionOf(j) = j /\ restore.pc = "idle" /\ deletion.pc = "idle")
        /\ (j = 0 => restore.pc = "next")
  BY <1>1, AtWork DEF Calm, AnyInv, FreshPart
<1>3. CASE UNCHANGED vars BY <1>1, <1>3 DEF vars, FreshPart, VersionOf, DocOf, Shown
<1>4. ASSUME NEW d \in Docs, AgentWrites(d) PROVE FreshPart(j)'
  <2>1. /\ Writing(d) /\ SameShown
        /\ review.pc = "idle" /\ deletion.pc = "idle" /\ restore.pc = "idle"
        /\ UNCHANGED <<review, deletion, restore, session>>
        /\ disk'[d] # Missing /\ \A e \in Docs \ {d} : disk'[e] = disk[e]
    BY <1>4, WritesCalm
  <2>2. CASE j = Len(written) + 1
    <3>1. loads[j]' = [NoLoad EXCEPT !.pc = "written", !.st = AllPending, !.content = <<j, {}>>]
      BY <2>1, <2>2 DEF Writing
    <3>2. loads[j]'.stale = {} /\ loads[j]'.pc # "clean" BY <3>1, EmptyRecords DEF Loads
    <3>3. j # 0 /\ VersionOf(j)' = j BY <1>1, <2>2 DEF VersionOf
    <3>4. DocOf(j)' = d BY <2>1, <2>2, <3>3 DEF Writing, DocOf
    <3>5. Shown(d).ver # j /\ session < j
      <4>1. Shown(d).ver \in 0 .. Len(written) BY <1>1, ShownVersions DEF Calm, AnyInv
      <4>2. session \in 0 .. Len(written) BY DEF Calm, AnyInv, Types, CounterTypes
      <4> QED BY <1>1, <2>2, <4>1, <4>2
    <3>6. Shown(DocOf(j))'.ver # VersionOf(j)'
      <4>1. Shown(DocOf(j))' = Shown(d)' BY <3>4 DEF Shown
      <4> QED BY <2>1, <3>3, <3>5, <4>1 DEF SameShown
    <3>7. disk'[DocOf(j)'] # Missing BY <2>1, <3>4
    <3> QED BY <2>1, <3>2, <3>3, <3>5, <3>6, <3>7 DEF FreshPart
  <2>3. CASE j # Len(written) + 1
    <3>1. loads[j]' = loads[j] /\ VersionOf(j)' = VersionOf(j) BY <2>1, <2>3 DEF Writing
    <3>2. loads[j].pc # "idle" BY <3>1
    <3>3. DocOf(j)' = DocOf(j) BY <1>2, <2>1, <3>1, <3>2 DEF DocOf, Writing
    <3>4. disk'[DocOf(j)] # Missing BY <1>2, <2>1, <3>2
    <3> QED BY <1>1, <1>2, <2>1, <3>1, <3>2, <3>3, <3>4, FreshKept DEF SameShown
  <2> QED BY <2>2, <2>3
<1>5. ASSUME NEW d \in Docs, UserDeletes(d) PROVE FreshPart(j)' BY <1>5, DeletesCalm DEF Settled
<1>6. ASSUME NEW i \in Slots, Loading(i) PROVE FreshPart(j)'
  <2>1. LoadMoved(i) /\ SameShown /\ review.pc = "idle" /\
          (loads[i]'.pc = "idle" \/ (loads[i]'.stale = {} /\ loads[i]'.pc # "clean"))
    BY <1>6, LoadsCalm
  <2>2. /\ loads[j].pc # "idle" /\ VersionOf(j)' = VersionOf(j) /\ DocOf(j)' = DocOf(j)
        /\ loads[j]'.stale = {} /\ loads[j]'.pc # "clean"
    BY <1>2, <2>1, EmptyRecords DEF LoadMoved
  <2>3. UNCHANGED <<disk, review, deletion, session>> /\ restore'.pc = restore.pc
    BY <2>1 DEF LoadMoved
  <2> QED BY <1>1, <1>2, <2>1, <2>2, <2>3, FreshKept DEF SameShown
<1>7. ASSUME NEW i \in Slots, Commit(i) PROVE FreshPart(j)'
  <2>1. /\ LoadMoved(i) /\ review.pc = "idle" /\ loads[i]'.pc = "idle"
        /\ \A d \in Docs : d = DocOf(i) => Shown(d)'.ver = VersionOf(i)
        /\ \A d \in Docs : d # DocOf(i) => Shown(d)' = Shown(d)
        /\ i # 0 => restore.pc = "idle" /\ VersionOf(i) = i
        /\ i = 0 => restore.pc = "next"
    BY <1>7, CommitsCalm
  <2>2. j # i BY <2>1
  <2>3. loads[j]' = loads[j] /\ VersionOf(j)' = VersionOf(j) /\ DocOf(j)' = DocOf(j)
        /\ UNCHANGED <<disk, review, deletion, session>> /\ restore'.pc = restore.pc
    BY <2>1, <2>2 DEF LoadMoved
  <2>4. i # 0 /\ j # 0 /\ VersionOf(i) # VersionOf(j) BY <1>2, <2>1, <2>2, <2>3
  <2>5. CASE DocOf(j) # DocOf(i) BY <1>1, <1>2, <2>1, <2>3, <2>5, FreshKept
  <2>6. CASE DocOf(j) = DocOf(i)
    <3>1. PICK d \in Docs : d = DocOf(j) BY <1>2, <2>3
    <3>2. Shown(d)'.ver = VersionOf(i) /\ DocOf(j)' = d BY <2>1, <2>3, <2>6, <3>1
    <3>3. Shown(DocOf(j))' = Shown(d)' BY <3>2 DEF Shown
    <3> QED BY <1>1, <1>2, <2>1, <2>3, <2>4, <3>1, <3>2, <3>3 DEF FreshPart
  <2> QED BY <2>5, <2>6
<1>8. CASE Begins BY <1>8, BeginsCalm DEF Settled
<1>9. CASE Looks
  <2>1. /\ SameShown /\ UNCHANGED <<disks, loads, review, deletion, restore, counters>>
    BY <1>9, LooksFacts DEF Calm, AnyInv, SameShown
  <2>2. VersionOf(j)' = VersionOf(j) /\ DocOf(j)' = DocOf(j) BY <2>1 DEF VersionOf, DocOf
  <2>3. review'.pc = "idle" /\ loads[j].pc # "idle" /\ loads[j]'.stale = {}
       /\ loads[j]'.pc # "clean"
    BY <1>2, <2>1
  <2> QED BY <1>1, <1>2, <2>1, <2>2, <2>3, FreshKept DEF SameShown
<1>10. CASE ReviewDisk \/ Tying \/ ReviewRecords \/ AcceptLeaves
  <2>1. review.pc # "idle" /\ loads' = loads
    BY <1>10, TyingCalm DEF ReviewDisk, ReviewRecords, AcceptLeaves
  <2> QED BY <2>1, WhoIsAtWork DEF Settled
<1>11. CASE Discard
  <2>1. /\ Discarded /\ review.pc = "idle" /\ deletion.pc = "deleted" /\ deletion.doc \in Docs
        /\ deletion'.doc = deletion.doc /\ UNCHANGED <<disks, loads, review, restore, session>>
    BY <1>11, DiscardsCalm
  <2>2. j = 0 /\ DocOf(j) # deletion.doc BY <1>1, <1>2, <2>1 DEF FreshPart
  <2>3. VersionOf(j)' = VersionOf(j) /\ DocOf(j)' = DocOf(j) BY <2>1 DEF VersionOf, DocOf
  <2>4. \A d \in Docs : d = DocOf(j) => Shown(d)' = Shown(d) BY <2>1, <2>2 DEF Discarded
  <2> QED BY <1>1, <1>2, <2>1, <2>3, <2>4, FreshKept
<1>12. CASE DiscardRecords
  <2>1. /\ SameShown /\ review.pc = "idle" /\ deletion'.pc = "idle"
        /\ UNCHANGED <<disk, written, loads, review, restore, session>>
    BY <1>12, DiscardRecordsCalm
  <2>2. VersionOf(j)' = VersionOf(j) /\ DocOf(j)' = DocOf(j) BY <2>1 DEF VersionOf, DocOf
  <2> QED BY <1>1, <1>2, <2>1, <2>2, FreshKept DEF SameShown
<1>13. CASE Restoring BY <1>13, RestoringCalm DEF Settled
<1>14. ASSUME NEW v \in restore.todo, RestoreStarts(v) PROVE FreshPart(j)'
  <2>1. /\ SameShown /\ review.pc = "idle" /\ v # 0 /\ written[v] \in Docs
        /\ UNCHANGED <<disk, review, deletion>>
        /\ \A k \in Versions : loads[k]'.pc = "idle"
        /\ loads[0]'.stale = {} /\ loads[0]'.pc = "yield" /\ VersionOf(0)' = v
           /\ DocOf(0)' = written[v]
        /\ Shown(written[v]).ver = 0 /\ written[v] \notin deleted /\ disk[written[v]] # Missing
    BY <1>14, StartsCalm
  <2>2. j = 0 BY <2>1, Values
  <2>3. PICK d \in Docs : d = written[v] BY <2>1
  <2>4. Shown(DocOf(0))' = Shown(d)' BY <2>1, <2>3 DEF Shown
  <2>5. Shown(DocOf(0))'.ver = 0 BY <2>1, <2>3, <2>4 DEF SameShown
  <2>6. deletion.pc = "idle" \/ deletion.doc # d
    <3>1. deletion.pc \in {"idle", "deleted", "records"}
      BY DEF Calm, AnyInv, Types, WorkTypes, DecisionTypes, Deletions
    <3> QED BY <2>1, <2>3, <3>1 DEF Calm, QuietInv, DeletionPart
  <2>7. disk'[DocOf(0)'] # Missing BY <2>1, <2>3
  <2> QED BY <2>1, <2>2, <2>3, <2>5, <2>6, <2>7 DEF FreshPart
<1>15. CASE Restart BY <1>15, RestartCalm
<1>16. CASE Project BY <1>16, ProjectCalm
<1> QED
  BY <1>3, <1>4, <1>5, <1>6, <1>7, <1>8, <1>9, <1>10, <1>11, <1>12, <1>13, <1>14, <1>15, <1>16,
     CalmSteps

\* The versions shown, the files on the disk and the deletion, from one state to the next.
LEMMA TidyStep ==
    ASSUME Calm, [Next]_vars, NEW d \in Docs
    PROVE  TidyPart(d)'
<1>1. TidyPart(d) BY DEF Calm, QuietInv
<1>2. ASSUME disk'[d] = disk[d], Shown(d)'.ver = Shown(d).ver,
             (deletion'.pc = "deleted" /\ deletion'.doc = d) \/
                 ~(deletion.pc = "deleted" /\ deletion.doc = d)
      PROVE  TidyPart(d)'
  BY <1>1, <1>2 DEF TidyPart
<1>3. CASE UNCHANGED vars BY <1>1, <1>3 DEF vars, TidyPart, Shown
<1>4. ASSUME NEW e \in Docs, AgentWrites(e) PROVE TidyPart(d)'
  BY <1>2, <1>4, WritesCalm DEF SameShown, TidyPart
<1>5. ASSUME NEW e \in Docs, UserDeletes(e) PROVE TidyPart(d)'
  BY <1>2, <1>5, DeletesCalm DEF SameShown, TidyPart
<1>6. ASSUME NEW i \in Slots, Loading(i) PROVE TidyPart(d)'
  <2>1. UNCHANGED <<disk, deletion>> /\ SameShown BY <1>6, LoadsCalm DEF LoadMoved
  <2> QED BY <1>2, <2>1 DEF SameShown
<1>7. ASSUME NEW i \in Slots, Commit(i) PROVE TidyPart(d)'
  <2>1. UNCHANGED <<disk, deletion>> /\ disk[DocOf(i)] # Missing /\
          (d # DocOf(i) => Shown(d)' = Shown(d))
    BY <1>7, CommitsCalm DEF LoadMoved
  <2>2. CASE d = DocOf(i) BY <2>1, <2>2 DEF TidyPart
  <2>3. CASE d # DocOf(i) BY <1>2, <2>1, <2>3
  <2> QED BY <2>2, <2>3
<1>8. CASE Begins BY <1>2, <1>8, BeginsCalm DEF SameVersions
<1>9. CASE Looks BY <1>2, <1>9, LooksFacts DEF Calm, AnyInv
<1>10. CASE ReviewDisk
  <2>1. /\ d # review.doc => disk'[d] = disk[d]
        /\ disk'[review.doc] # Missing \/ disk' = disk
        /\ deletion'.pc = deletion.pc /\ deletion'.doc = deletion.doc /\ Shown(d)' = Shown(d)
    BY <1>10, ReviewDiskFacts DEF Calm, AnyInv
  <2> QED BY <1>2, <2>1 DEF TidyPart
<1>11. CASE ReviewRecords BY <1>2, <1>11, ReviewRecordsCalm DEF SameShown
<1>12. CASE AcceptLeaves BY <1>2, <1>12, AcceptLeavesCalm DEF SameVersions
<1>13. CASE Discard
  <2>1. /\ Discarded /\ deletion.pc = "deleted" /\ UNCHANGED disk BY <1>13, DiscardsCalm
  <2>2. CASE d = deletion.doc BY <2>1, <2>2, EmptyRecords DEF Discarded, TidyPart
  <2>3. CASE d # deletion.doc BY <1>2, <2>1, <2>3 DEF Discarded
  <2> QED BY <2>2, <2>3
<1>14. CASE DiscardRecords BY <1>2, <1>14, DiscardRecordsCalm DEF SameShown
<1>15. CASE Restoring BY <1>2, <1>15, RestoringCalm DEF SameShown
<1>16. ASSUME NEW v \in restore.todo, RestoreStarts(v) PROVE TidyPart(d)'
  BY <1>2, <1>16, StartsCalm DEF SameShown
<1>17. CASE Restart BY <1>17, RestartCalm DEF TidyPart
<1>18. CASE Tying BY <1>2, <1>18, TyingCalm DEF SameShown
<1>19. CASE Project
  <2>1. UNCHANGED <<disk, deletion>> /\ (SameShown \/ Projected)
        /\ (Projected /\ d = active => disk[d] # Missing)
        /\ (Projected /\ d # active => Shown(d)' = Shown(d))
    BY <1>19, ProjectCalm
  <2>2. CASE Projected /\ d = active BY <2>1, <2>2 DEF TidyPart
  <2> QED BY <1>2, <2>1, <2>2 DEF SameShown
<1> QED
  BY <1>3, <1>4, <1>5, <1>6, <1>7, <1>8, <1>9, <1>10, <1>11, <1>12, <1>13, <1>14, <1>15, <1>16,
     <1>17, <1>18, <1>19, CalmSteps

\* What a deletion relies on.
LEMMA DeletionPartStep ==
    ASSUME Calm, [Next]_vars
    PROVE  DeletionPart'
<1>1. DeletionPart /\ (deletion.pc # "idle" => deletion.doc \in Docs)
  BY DEF Calm, QuietInv, AnyInv, Types, WorkTypes, DecisionTypes
\* The deletion stays where it is.
<1>2. ASSUME deletion'.pc = deletion.pc, deletion'.doc = deletion.doc, deleted' = deleted,
             ASSUME NEW d \in Docs, d = deletion.doc, deletion.pc # "idle"
             PROVE  (disk'[d] = disk[d] \/ Shown(d).ver # 0) /\ Shown(d)'.ver = Shown(d).ver
      PROVE  DeletionPart'
  <2>1. CASE deletion.pc = "idle" BY <1>2, <2>1 DEF DeletionPart
  <2>2. CASE deletion.pc # "idle"
    <3>1. PICK d \in Docs : d = deletion.doc BY <1>1, <2>2
    <3>2. (disk'[d] = disk[d] \/ Shown(d).ver # 0) /\ Shown(d)'.ver = Shown(d).ver
      BY <1>2, <2>2, <3>1
    <3>3. Shown(deletion.doc)' = Shown(d)' BY <1>2, <3>1 DEF Shown
    <3> QED BY <1>1, <1>2, <3>1, <3>2, <3>3 DEF DeletionPart
  <2> QED BY <2>1, <2>2
<1>3. ASSUME deletion'.pc = "idle" PROVE DeletionPart' BY <1>3 DEF DeletionPart
<1>4. CASE UNCHANGED vars BY <1>1, <1>4 DEF vars, DeletionPart, Shown
<1>5. ASSUME NEW e \in Docs, AgentWrites(e) PROVE DeletionPart' BY <1>3, <1>5, WritesCalm
<1>6. ASSUME NEW e \in Docs, UserDeletes(e) PROVE DeletionPart'
  BY <1>6, DeletesCalm DEF DeletionPart
<1>7. ASSUME NEW i \in Slots, Loading(i) PROVE DeletionPart'
  <2>1. UNCHANGED <<disk, deletion, deleted>> /\ SameShown BY <1>7, LoadsCalm DEF LoadMoved
  <2> QED BY <1>2, <2>1 DEF SameShown
<1>8. ASSUME NEW i \in Slots, Commit(i) PROVE DeletionPart'
  <2>1. /\ UNCHANGED <<disk, deletion, deleted>> /\ (i # 0 => deletion.pc = "idle")
        /\ \A d \in Docs : d # DocOf(i) => Shown(d)' = Shown(d)
        /\ i = 0 => deletion.pc = "idle" \/ deletion.doc # DocOf(0)
    BY <1>8, CommitsCalm DEF LoadMoved
  <2> QED BY <1>2, <1>3, <2>1
<1>9. CASE Begins BY <1>2, <1>9, BeginsCalm DEF SameVersions
<1>10. CASE Looks BY <1>2, <1>10, LooksFacts DEF Calm, AnyInv
<1>11. CASE ReviewDisk
  <2>1. /\ \A d \in Docs : d # review.doc => disk'[d] = disk[d]
        /\ deletion'.pc = deletion.pc /\ deletion'.doc = deletion.doc /\ deleted' = deleted
        /\ \A d \in Docs : Shown(d)' = Shown(d)
        /\ review.pc = "disk"
    BY <1>11, ReviewDiskFacts DEF Calm, AnyInv
  <2>2. Shown(review.doc).ver # 0 BY <2>1 DEF Calm, QuietInv, ReviewPart
  <2> QED BY <1>2, <2>1, <2>2
<1>12. CASE ReviewRecords BY <1>2, <1>12, ReviewRecordsCalm DEF SameShown
<1>13. CASE AcceptLeaves BY <1>2, <1>13, AcceptLeavesCalm DEF SameVersions
<1>14. CASE Discard
  <2>1. /\ Discarded /\ deletion'.pc = "records" /\ deletion'.doc = deletion.doc /\
           deletion.doc \in Docs
        /\ deleted' = deleted \cup {deletion.doc}
    BY <1>14, DiscardsCalm
  <2>2. PICK d \in Docs : d = deletion.doc BY <2>1
  <2>3. Shown(deletion.doc)' = Shown(d)' BY <2>1, <2>2 DEF Shown
  <2> QED BY <2>1, <2>2, <2>3, EmptyRecords DEF Discarded, DeletionPart
<1>15. CASE DiscardRecords BY <1>3, <1>15, DiscardRecordsCalm
<1>16. CASE Restoring BY <1>2, <1>16, RestoringCalm DEF SameShown
<1>17. ASSUME NEW v \in restore.todo, RestoreStarts(v) PROVE DeletionPart'
  BY <1>2, <1>17, StartsCalm DEF SameShown
<1>18. CASE Restart BY <1>3, <1>18, RestartCalm
<1>19. CASE Tying BY <1>2, <1>19, TyingCalm DEF SameShown
<1>20. CASE Project
  <2>1. /\ UNCHANGED <<disk, deletion, deleted>>
        /\ SameShown \/ Projected
        /\ \A d \in Docs : Projected /\ d = active => deletion.pc = "idle" \/ deletion.doc # d
        /\ \A d \in Docs : Projected /\ d # active => Shown(d)' = Shown(d)
    BY <1>20, ProjectCalm
  <2>2. ASSUME NEW d \in Docs, d = deletion.doc, deletion.pc # "idle"
        PROVE  Shown(d)' = Shown(d)
    BY <2>1, <2>2 DEF SameShown
  <2> QED BY <1>2, <2>1, <2>2
<1> QED
  BY <1>4, <1>5, <1>6, <1>7, <1>8, <1>9, <1>10, <1>11, <1>12, <1>13, <1>14, <1>15, <1>16, <1>17,
     <1>18, <1>19, <1>20, CalmSteps

\* A review under way is about the file whose marks it has.
LEMMA ReviewPartStep ==
    ASSUME Calm, [Next]_vars
    PROVE  ReviewPart'
<1>1. ReviewPart /\ (review.pc # "idle" => review.doc \in Docs)
  BY DEF Calm, QuietInv, AnyInv, Types, WorkTypes, DecisionTypes
<1>2. ASSUME review'.pc = "idle" PROVE ReviewPart' BY <1>2 DEF ReviewPart
<1>3. CASE UNCHANGED vars BY <1>1, <1>3 DEF vars, ReviewPart, Shown
<1>4. ASSUME NEW e \in Docs, AgentWrites(e) PROVE ReviewPart' BY <1>2, <1>4, WritesCalm
<1>5. ASSUME NEW e \in Docs, UserDeletes(e) PROVE ReviewPart' BY <1>2, <1>5, DeletesCalm
<1>6. ASSUME NEW i \in Slots, Loading(i) PROVE ReviewPart' BY <1>2, <1>6, LoadsCalm DEF LoadMoved
<1>7. ASSUME NEW i \in Slots, Commit(i) PROVE ReviewPart' BY <1>2, <1>7, CommitsCalm DEF LoadMoved
<1>8. CASE Begins
  <2>1. /\ SameVersions /\ review'.pc = "disk" /\ review'.doc = active
        /\ active \in Docs /\ Shown(active).ver # 0
        /\ review'.op # "acceptAll" => active' = active
        /\ review'.op \in {"acceptAll", "rejectAll"} => Reviewed(review'.st)
        /\ \A d \in Docs : d = active => Shown(d)'.st = review'.st
    BY <1>8, BeginsCalm
  <2>2. PICK d \in Docs : d = active BY <2>1
  <2>3. Shown(review.doc)' = Shown(d)' BY <2>1, <2>2 DEF Shown
  <2>4. Shown(d)'.ver # 0 /\ Shown(d)'.st = review'.st BY <2>1, <2>2 DEF SameVersions
  <2>5. Reviewed(review'.st) <=> Reviewed(review.st)' BY DEF Reviewed
  <2> QED BY <2>1, <2>2, <2>3, <2>4, <2>5 DEF ReviewPart
<1>9. CASE Looks BY <1>2, <1>9, LooksFacts DEF Calm, AnyInv
<1>10. CASE ReviewDisk
  <2>1. /\ review.pc = "disk" /\ review.doc \in Docs
        /\ review'.pc = "snapshot" /\ review'.doc = review.doc /\ review'.st = review.st /\
            review'.op = review.op
        /\ \A d \in Docs : Shown(d)' = Shown(d) /\ active' = active
    BY <1>10, ReviewDiskFacts DEF Calm, AnyInv
  <2>2. Shown(review.doc)' = Shown(review.doc) BY <2>1 DEF Shown
  <2> QED BY <1>1, <2>1, <2>2 DEF ReviewPart, Reviewed
<1>11. CASE ReviewRecords
  <2> SUFFICES ASSUME review'.pc # "idle" PROVE ReviewPart' BY <1>2
  <2>1. /\ review.pc = "records" /\ review.doc \in Docs /\ SameShown /\ active' = active
        /\ review.op = "accept" /\ Reviewed(review.st)
        /\ review'.pc = "leave" /\ review'.op = review.op /\ review'.st = review.st
        /\ review'.doc = review.doc
    BY <1>11, ReviewRecordsCalm
  <2>2. Shown(review.doc)' = Shown(review.doc) BY <2>1 DEF Shown, SameShown
  <2> QED BY <1>1, <2>1, <2>2 DEF ReviewPart, Reviewed
<1>12. CASE AcceptLeaves BY <1>2, <1>12, AcceptLeavesCalm
<1>13. CASE Discard BY <1>2, <1>13, DiscardsCalm
<1>14. CASE DiscardRecords BY <1>2, <1>14, DiscardRecordsCalm
<1>15. CASE Restoring BY <1>2, <1>15, RestoringCalm
<1>16. ASSUME NEW v \in restore.todo, RestoreStarts(v) PROVE ReviewPart' BY <1>2, <1>16, StartsCalm
<1>17. CASE Restart BY <1>2, <1>17, RestartCalm
<1>18. CASE Tying
  <2>1. /\ review.pc \in {"snapshot", "mark"} /\ review.doc \in Docs /\ SameShown
        /\ review'.pc \in {"mark", "records"} /\ active' = active
        /\ review'.doc = review.doc /\ review'.st = review.st /\ review'.op = review.op
    BY <1>18, TyingCalm
  <2>2. Shown(review.doc)' = Shown(review.doc) BY <2>1 DEF Shown, SameShown
  <2> QED BY <1>1, <2>1, <2>2 DEF ReviewPart, Reviewed
<1>19. CASE Project BY <1>2, <1>19, ProjectCalm
<1> QED
  BY <1>3, <1>4, <1>5, <1>6, <1>7, <1>8, <1>9, <1>10, <1>11, <1>12, <1>13, <1>14, <1>15, <1>16,
     <1>17, <1>18, <1>19, CalmSteps

\* What is to be restored is not shown, and has a record.
TodoPart(v) ==
    /\ Shown(written[v]).ver = 0
    /\ written[v] \notin deleted => records[v].status = "pending"
    /\ \A w \in PendingRecords(written[v]) : w <= v
    /\ restore.ver # 0 => written[v] # written[restore.ver]
    /\ \A w \in restore.todo : written[w] = written[v] => w = v

\* What a restore relies on.
LEMMA RestorePartStep ==
    ASSUME Calm, [Next]_vars
    PROVE  RestorePart'
<1>1. /\ RestorePart /\ \A v \in restore.todo : TodoPart(v) /\ v \in 1 .. Len(written) /\
         v \in Versions /\ written[v] \in Docs
      /\ restore.todo # {} => restore.pc = "next"
      /\ restore.pc \in {"idle", "mounted", "next"}
  <2>1. \A v \in restore.todo : v \in 1 .. Len(written) /\ v \in Versions /\ written[v] \in Docs
    BY WrittenVersions DEF Calm, AnyInv, Types, WorkTypes, LoadTypes
  <2>2. (restore.todo # {} => restore.pc = "next") /\ restore.pc \in {"idle", "mounted", "next"}
    BY DEF Calm, AnyInv, LoadInv, Types, WorkTypes, LoadTypes, Restores
  <2> QED BY <2>1, <2>2 DEF Calm, QuietInv, RestorePart, TodoPart
\* The restore stays where it is, and what it is to restore is left alone.
<1>2. ASSUME restore'.pc = restore.pc, restore'.todo = restore.todo,
        restore'.ver \in {0, restore.ver},
             UNCHANGED <<written, session>>, deleted \subseteq deleted',
             ASSUME NEW d \in Docs, Shown(d).ver = 0, restore.pc # "idle",
                    restore.pc = "next" => \E v \in restore.todo : written[v] = d
             PROVE  Shown(d)'.ver = 0,
             ASSUME NEW v \in Versions, Shown(written[v]).ver = 0, written[v] \notin deleted',
                 v \in restore.todo
             PROVE  records'[v] = records[v],
             ASSUME NEW w \in Versions, records'[w].status = "pending", restore.todo # {}
             PROVE  records[w].status = "pending"
      PROVE  RestorePart'
  <2>1. restore'.pc # "idle" => session' = Len(written') BY <1>1, <1>2 DEF RestorePart
  <2>2. restore'.pc = "mounted" => \A d \in Docs : Shown(d)'.ver = 0 BY <1>1, <1>2 DEF RestorePart
  <2>3. ASSUME NEW v \in restore'.todo PROVE TodoPart(v)'
    <3>1. TodoPart(v) /\ v \in Versions /\ restore.pc = "next" /\ v \in restore.todo BY <1>1, <1>2
    <3>2. PICK d \in Docs : d = written[v] /\ written'[v] = d BY <1>1, <1>2
    <3>3. Shown(written[v])'.ver = 0
      <4>1. Shown(d)'.ver = 0 BY <1>2, <3>1, <3>2 DEF TodoPart
      <4>2. Shown(written[v])' = Shown(d)' BY <3>2 DEF Shown
      <4> QED BY <4>1, <4>2
    <3>4. written'[v] \notin deleted' => records'[v].status = "pending"
      BY <1>2, <3>1 DEF TodoPart
    <3>5. restore'.ver # 0 => written'[v] # written'[restore'.ver] BY <1>2, <3>1 DEF TodoPart
    <3>6. \A w \in PendingRecords(written[v])' : w <= v
      <4> SUFFICES ASSUME NEW w \in PendingRecords(written[v])' PROVE w <= v OBVIOUS
      <4>1. w \in 1 .. Len(written) /\ w \in Versions /\ written[w] = written[v]
            /\ records'[w].status = "pending"
        BY <1>2, WrittenVersions DEF PendingRecords, Calm, AnyInv
      <4>2. w \in PendingRecords(written[v]) BY <1>2, <3>1, <4>1 DEF PendingRecords
      <4> QED BY <3>1, <4>2 DEF TodoPart
    <3> QED BY <1>2, <3>1, <3>3, <3>4, <3>5, <3>6 DEF TodoPart
  <2> QED BY <2>1, <2>2, <2>3 DEF RestorePart, TodoPart
<1>3. ASSUME UNCHANGED <<restore, written, session, deleted>>, SameVersions,
             ASSUME NEW v \in Versions, Shown(written[v]).ver = 0, written[v] \notin deleted',
                 v \in restore.todo
             PROVE  records'[v] = records[v],
             ASSUME NEW w \in Versions, records'[w].status = "pending"
             PROVE  records[w].status = "pending"
      PROVE  RestorePart'
  BY <1>2, <1>3 DEF SameVersions
<1>4. ASSUME restore'.pc = "idle" PROVE RestorePart'
  <2>1. restore'.todo = {} BY <1>4, LoadInvStep DEF Calm, AnyInv, LoadInv
  <2> QED BY <1>4, <2>1 DEF RestorePart
<1>5. SameShown => SameVersions BY DEF SameShown, SameVersions
<1>6. CASE UNCHANGED vars BY <1>3, <1>5, <1>6 DEF vars, SameShown, Shown
<1>7. ASSUME NEW e \in Docs, AgentWrites(e) PROVE RestorePart' BY <1>4, <1>7, WritesCalm
<1>8. ASSUME NEW e \in Docs, UserDeletes(e) PROVE RestorePart' BY <1>3, <1>5, <1>8, DeletesCalm
<1>9. ASSUME NEW i \in Slots, Loading(i) PROVE RestorePart'
  <2>1. /\ LoadMoved(i) /\ SameShown /\ (i # 0 => restore.pc = "idle")
        /\ records' = records \/ (CreateRecord(i) /\ i \in Versions) \/ RecordCreated(i)
    BY <1>9, LoadsCalm
  <2>2. UNCHANGED <<written, deleted, session>> /\ restore'.pc = restore.pc /\
          restore'.todo = restore.todo
        /\ restore'.ver \in {0, restore.ver}
    BY <2>1 DEF LoadMoved
  <2>3. CASE i # 0 BY <1>4, <2>1, <2>2, <2>3
  <2>4. CASE i = 0
    <3>1. ~CreateRecord(i) /\ ~RecordCreated(i)
      BY <2>4 DEF CreateRecord, RecordCreated, Step, Calm, AnyInv, LoadInv
    <3> QED BY <1>2, <2>1, <2>2, <3>1 DEF SameShown
  <2> QED BY <2>3, <2>4
<1>10. ASSUME NEW i \in Slots, Commit(i) PROVE RestorePart'
  <2>1. /\ LoadMoved(i) /\ UNCHANGED records /\ loads[i].pc = "commit"
        /\ \A d \in Docs : d # DocOf(i) => Shown(d)' = Shown(d)
        /\ i # 0 => restore.pc = "idle"
        /\ i = 0 => restore.pc = "next"
    BY <1>10, CommitsCalm
  <2>2. UNCHANGED <<written, deleted, session>> /\ restore'.pc = restore.pc /\
          restore'.todo = restore.todo
        /\ restore'.ver \in {0, restore.ver}
    BY <2>1 DEF LoadMoved
  <2>3. CASE i # 0 BY <1>4, <2>1, <2>2, <2>3
  <2>4. CASE i = 0
    <3>1. restore.ver # 0 /\ DocOf(i) = written[restore.ver]
      BY <2>1, <2>4 DEF Calm, AnyInv, LoadInv, DocOf, VersionOf
    <3>2. \A v \in restore.todo : written[v] # DocOf(i) BY <1>1, <3>1 DEF TodoPart
    <3> QED BY <1>2, <2>1, <2>2, <2>4, <3>2
  <2> QED BY <2>3, <2>4
<1>11. CASE Begins BY <1>3, <1>11, BeginsCalm
<1>12. CASE Looks BY <1>3, <1>5, <1>12, LooksFacts DEF Calm, AnyInv, SameShown
<1>13. CASE ReviewDisk BY <1>3, <1>5, <1>13, ReviewDiskFacts DEF Calm, AnyInv, SameShown
<1>14. CASE ReviewRecords
  <2>1. /\ review.pc = "records" /\ SameShown /\ UNCHANGED <<written, deleted, restore, session>>
        /\ \A v \in Versions : v \notin PendingRecords(review.doc) => records'[v] = records[v]
        /\ \A v \in Versions : records'[v].status = "pending" => records[v].status = "pending"
    BY <1>14, ReviewRecordsCalm DEF Untouched
  <2>2. Shown(review.doc).ver # 0 BY <2>1 DEF Calm, QuietInv, ReviewPart
  <2>3. \A v \in PendingRecords(review.doc) : Shown(written[v]).ver # 0 BY <2>2 DEF PendingRecords
  <2> QED BY <1>3, <1>5, <2>1, <2>3
<1>15. CASE AcceptLeaves BY <1>3, <1>15, AcceptLeavesCalm
<1>16. CASE Discard
  <2>1. Discarded /\ UNCHANGED <<disks, restore, session>> /\ deleted \subseteq deleted'
    BY <1>16, DiscardsCalm
  <2>2. \A d \in Docs : Shown(d).ver = 0 => Shown(d)'.ver = 0 BY <2>1, EmptyRecords DEF Discarded
  <2> QED BY <1>2, <2>1, <2>2
<1>17. CASE DiscardRecords
  <2>1. /\ SameShown /\ deletion.doc \in deleted
        /\ UNCHANGED <<written, deleted, restore, session>>
        /\ \A v \in Versions : v \notin PendingRecords(deletion.doc) => records'[v] = records[v]
        /\ \A v \in Versions : records'[v].status = "pending" => records[v].status = "pending"
    BY <1>17, DiscardRecordsCalm DEF Untouched
  <2>2. \A v \in PendingRecords(deletion.doc) : written[v] \in deleted BY <2>1 DEF PendingRecords
  <2> QED BY <1>3, <1>5, <2>1, <2>2
<1>18. CASE Restoring
  <2>1. /\ SameShown /\ session = Len(written) /\ restore.pc # "idle"
        /\ UNCHANGED <<written, deleted, session>>
        /\ restore'.ver = 0 /\ restore'.pc # "mounted"
        /\ \A v \in Versions : restore.pc = "next" /\ v \in restore'.todo =>
             v \in restore.todo /\ records'[v] = records[v]
        /\ \A v \in Versions : records'[v].status = "pending" => records[v].status = "pending"
        /\ restore.pc = "mounted" => BeginRestore
    BY <1>18, RestoringCalm
  <2>2. restore'.todo \subseteq Versions BY LoadTypesStep DEF Calm, AnyInv, LoadTypes, Restores
  <2>3. CASE restore.pc = "next"
    <3>1. ASSUME NEW v \in restore'.todo PROVE TodoPart(v)'
      <4>1. v \in restore.todo /\ v \in Versions /\ records'[v] = records[v] /\ TodoPart(v)
        BY <1>1, <2>1, <2>2, <2>3
      <4>2. PICK d \in Docs : d = written[v] BY <1>1, <4>1
      <4>3. Shown(written[v])' = Shown(d)' /\ Shown(d)' = Shown(d)
        BY <2>1, <4>2 DEF Shown, SameShown
      <4>4. restore'.todo \subseteq restore.todo BY <2>1, <2>2, <2>3
      <4>5. PendingRecords(written[v])' \subseteq PendingRecords(written[v])
        BY <2>1, WrittenVersions DEF PendingRecords, Calm, AnyInv
      <4> QED BY <2>1, <4>1, <4>2, <4>3, <4>4, <4>5 DEF TodoPart
    <3> QED BY <2>1, <3>1 DEF RestorePart, TodoPart
  <2>4. CASE restore.pc = "mounted"
    <3>1. restore' = NoRestore \/ restore' = [NoRestore EXCEPT !.pc = "next", !.todo = Todo]
      BY <2>1, <2>4 DEF BeginRestore, Todo
    <3>2. records' = records BY <2>1, <2>4 DEF BeginRestore
    <3>3. CASE restore' = NoRestore BY <1>4, <3>3, EmptyRecords
    <3>4. CASE restore' = [NoRestore EXCEPT !.pc = "next", !.todo = Todo]
      <4>1. restore'.todo = Todo BY <3>4 DEF NoRestore
      <4>2. \A v \in Todo : \E d \in Docs : v = Latest(PendingRecords(d)) /\ written[v] = d /\
              records[v].status = "pending" /\ \A w \in PendingRecords(d) : w <= v
        BY PendingTodo DEF Calm, AnyInv, PendingRecords
      <4>3. ASSUME NEW v \in restore'.todo PROVE TodoPart(v)'
        <5>1. PICK d \in Docs : v = Latest(PendingRecords(d)) /\ written[v] = d /\
                records[v].status = "pending" /\ \A w \in PendingRecords(d) : w <= v
          BY <4>1, <4>2
        <5>2. Shown(d).ver = 0 BY <1>1, <2>4 DEF RestorePart
        <5>3. Shown(written[v])' = Shown(d)' /\ Shown(d)' = Shown(d)
          BY <2>1, <5>1 DEF Shown, SameShown
        <5>4. \A w \in Todo : written[w] = written[v] => w = v BY <4>2, <5>1
        <5>5. PendingRecords(written[v])' = PendingRecords(d)
          BY <2>1, <3>2, <5>1 DEF PendingRecords
        <5> QED BY <2>1, <3>2, <4>1, <5>1, <5>2, <5>3, <5>4, <5>5 DEF TodoPart
      <4> QED BY <2>1, <4>3 DEF RestorePart, TodoPart
    <3> QED BY <3>1, <3>3, <3>4
  <2> QED BY <1>1, <2>1, <2>3, <2>4
<1>19. ASSUME NEW v \in restore.todo, RestoreStarts(v) PROVE RestorePart'
  <2>1. /\ SameShown /\ session = Len(written) /\ UNCHANGED <<disks, deleted, session>>
        /\ restore'.ver = v /\ restore'.pc = "next" /\ restore'.todo = restore.todo \ {v}
    BY <1>19, StartsCalm
  <2>2. ASSUME NEW w \in restore'.todo PROVE TodoPart(w)'
    <3>1. w \in restore.todo /\ w # v /\ TodoPart(w) /\ TodoPart(v) BY <1>1, <2>1
    <3>2. written[w] # written[v] BY <3>1 DEF TodoPart
    <3>3. PICK d \in Docs : d = written[w] BY <1>1, <3>1
    <3>4. Shown(written[w])' = Shown(d)' /\ Shown(d)' = Shown(d) BY <2>1, <3>3 DEF Shown, SameShown
    <3>5. PendingRecords(written[w])' = PendingRecords(written[w]) BY <2>1 DEF PendingRecords
    <3> QED BY <2>1, <3>1, <3>2, <3>3, <3>4, <3>5 DEF TodoPart
  <2> QED BY <2>1, <2>2 DEF RestorePart, TodoPart
<1>20. CASE Restart
  <2>1. /\ \A d \in Docs : Shown(d)'.ver = 0
        /\ restore'.pc = "mounted" /\ restore'.todo = {} /\ restore'.ver = 0
        /\ session' = Len(written) /\ UNCHANGED disks
    BY <1>20, RestartCalm
  <2> QED BY <2>1 DEF RestorePart
<1>21. CASE Tying BY <1>3, <1>5, <1>21, TyingCalm
<1>22. CASE Project
  <2>1. /\ UNCHANGED <<disks, deleted, session>> /\ restore'.pc = restore.pc
        /\ restore'.todo = restore.todo /\ restore'.ver = restore.ver
        /\ SameShown \/ Projected
        /\ \A d \in Docs : Projected /\ d = active => Shown(d).ver # 0
        /\ \A d \in Docs : Projected /\ d # active => Shown(d)' = Shown(d)
    BY <1>22, ProjectCalm
  <2>2. \A d \in Docs : Shown(d).ver = 0 => Shown(d)'.ver = 0 BY <2>1 DEF SameShown
  <2> QED BY <1>2, <2>1, <2>2
<1> QED
  BY <1>6, <1>7, <1>8, <1>9, <1>10, <1>11, <1>12, <1>13, <1>14, <1>15, <1>16, <1>17, <1>18, <1>19,
     <1>20, <1>21, <1>22, CalmSteps

\* What is to be projected, and the load of its record, have the file to themselves.
LEMMA PlanPartStep ==
    ASSUME Calm, [Next]_vars
    PROVE  PlanPart'
<1> SUFFICES ASSUME restore'.plan # NoEntry PROVE PlanPart' BY DEF PlanPart
<1>1. restore.plan # NoEntry =>
        /\ restore.pc = "next" /\ restore.plan.ver \in 1 .. Len(written)
        /\ written[restore.plan.ver] \in Docs
        /\ review.pc = "idle" /\ ~Settled
        /\ deletion.pc = "idle" \/ deletion.doc # written[restore.plan.ver]
        /\ \A v \in restore.todo : written[v] # written[restore.plan.ver]
        /\ restore.ver # 0 => written[restore.ver] = written[restore.plan.ver]
  BY WrittenVersions DEF Calm, AnyInv, PlanInv, Begun, QuietInv, PlanPart, Settled
<1>2. PlanPart BY DEF Calm, QuietInv
\* The restore, its load and what is shown of the file are left alone.
<1>3. ASSUME UNCHANGED <<restore, written, loads>>, review'.pc = "idle",
             deletion'.pc = "idle" \/ (deletion.pc # "idle" /\ deletion'.doc = deletion.doc),
             ASSUME NEW d \in Docs, d = written[restore.plan.ver] PROVE Shown(d)' = Shown(d)
      PROVE  PlanPart'
  <2>1. PICK d \in Docs : d = written[restore.plan.ver] BY <1>1, <1>3
  <2>2. Shown(d)' = Shown(d) BY <1>3, <2>1
  <2>3. Shown(written[restore.plan.ver])' = Shown(d) BY <1>3, <2>1, <2>2 DEF Shown
  <2> QED BY <1>1, <1>2, <1>3, <2>1, <2>3 DEF PlanPart, Agrees
<1>4. Settled => restore.plan = NoEntry BY DEF Settled
<1>5. CASE UNCHANGED vars
  <2>1. UNCHANGED <<restore, written, loads, review, deletion>> /\ SameShown
    BY <1>5 DEF vars, SameShown, Shown
  <2> QED BY <1>1, <1>3, <2>1 DEF SameShown
<1>6. ASSUME NEW e \in Docs, AgentWrites(e) PROVE PlanPart' BY <1>1, <1>6, WritesCalm
<1>7. ASSUME NEW e \in Docs, UserDeletes(e) PROVE PlanPart' BY <1>4, <1>7, DeletesCalm
<1>8. ASSUME NEW i \in Slots, Loading(i) PROVE PlanPart'
  <2>1. LoadMoved(i) /\ SameShown /\ (i # 0 => restore.pc = "idle") BY <1>8, LoadsCalm
  <2>2. /\ UNCHANGED <<written, review, deletion>> /\ restore'.todo = restore.todo
        /\ restore'.ver \in {0, restore.ver} /\ restore'.plan = restore.plan
        /\ loads[i].pc # "idle"
        /\ loads[i]' = NoLoad \/ loads[i]'.st = loads[i].st
    BY <2>1 DEF LoadMoved
  <2>3. i = 0 /\ restore.plan # NoEntry BY <1>1, <2>1, <2>2
  <2>4. restore.ver # 0 /\ (restore'.ver # 0 => loads[0]'.st = loads[0].st)
    <3>1. loads[0]'.pc # "idle" <=> restore'.ver # 0 BY LoadInvStep DEF Calm, AnyInv, LoadInv
    <3> QED BY <2>2, <2>3, <3>1, EmptyRecords DEF Calm, AnyInv, LoadInv
  <2>5. PICK d \in Docs : d = written[restore.plan.ver] BY <1>1, <2>3
  <2>6. Shown(d).ver = 0
    <3>1. DocOf(0) = d BY <1>1, <2>3, <2>4, <2>5 DEF DocOf, VersionOf
    <3> QED BY <2>2, <2>3, <3>1 DEF Calm, QuietInv, FreshPart
  <2>7. Shown(written[restore.plan.ver])'.ver = 0
    <3>1. Shown(written[restore.plan.ver])' = Shown(d)' BY <2>2, <2>5 DEF Shown
    <3> QED BY <2>1, <2>6, <3>1 DEF SameShown
  <2> QED BY <1>1, <1>2, <2>2, <2>3, <2>4, <2>5, <2>7 DEF PlanPart, Agrees
<1>9. ASSUME NEW i \in Slots, Commit(i) PROVE PlanPart'
  <2>1. /\ LoadMoved(i) /\ review.pc = "idle"
        /\ \A d \in Docs : d = DocOf(i) => Shown(d)'.ver = VersionOf(i) /\
               Shown(d)'.st = loads[i].st /\ ~Shown(d)'.whole
        /\ i # 0 => restore.pc = "idle"
        /\ i = 0 => restore.pc = "next" /\ restore.ver # 0 /\ restore'.ver = 0
                     /\ VersionOf(i) = restore.ver /\ DocOf(i) = written[restore.ver]
    BY <1>9, CommitsCalm
  <2>2. UNCHANGED <<written, review, deletion>> /\ restore'.todo = restore.todo
        /\ restore'.plan = restore.plan
    BY <2>1 DEF LoadMoved
  <2>3. i = 0 /\ restore.plan # NoEntry BY <1>1, <2>1, <2>2
  <2>4. PICK d \in Docs : d = written[restore.plan.ver] BY <1>1, <2>3
  <2>5. Shown(d)'.ver = restore.ver /\ Shown(d)'.st = loads[0].st /\ ~Shown(d)'.whole
    BY <1>1, <2>1, <2>3, <2>4
  <2>6. Shown(written[restore.plan.ver])' = Shown(d)' BY <2>2, <2>4 DEF Shown
  <2>7. restore.ver = restore.plan.ver /\ ~restore.plan.whole => Agrees(loads[0])
    BY <1>2, <2>3 DEF PlanPart
  <2> QED BY <1>1, <2>1, <2>2, <2>3, <2>4, <2>5, <2>6, <2>7 DEF PlanPart, Agrees
<1>10. CASE Begins BY <1>4, <1>10, BeginsCalm
<1>11. CASE Looks
  <2>1. SameShown /\ review.pc = "idle" /\ UNCHANGED <<disks, loads, review, deletion, restore>>
    BY <1>11, LooksFacts DEF Calm, AnyInv, SameShown
  <2> QED BY <1>3, <2>1 DEF SameShown
<1>12. CASE ReviewDisk \/ ReviewRecords \/ AcceptLeaves
  <2>1. review.pc # "idle" /\ restore' = restore
    BY <1>12 DEF ReviewDisk, ReviewRecords, AcceptLeaves
  <2> QED BY <1>1, <2>1
<1>13. CASE Tying BY <1>4, <1>13, TyingCalm
<1>14. CASE Discard
  <2>1. /\ Discarded /\ review.pc = "idle" /\ deletion.pc = "deleted"
        /\ deletion'.doc = deletion.doc /\ UNCHANGED <<disks, loads, review, restore>>
    BY <1>14, DiscardsCalm
  <2>2. ASSUME NEW d \in Docs, d = written[restore.plan.ver] PROVE Shown(d)' = Shown(d)
    BY <1>1, <2>1, <2>2 DEF Discarded
  <2> QED BY <1>3, <2>1, <2>2
<1>15. CASE DiscardRecords BY <1>3, <1>15, DiscardRecordsCalm DEF SameShown
<1>16. CASE Restoring BY <1>16, RestoringCalm
<1>17. CASE Restart BY <1>17, RestartCalm
<1>18. CASE Project BY <1>18, ProjectCalm
<1>19. ASSUME NEW v \in restore.todo, RestoreStarts(v) PROVE PlanPart'
  <2>1. /\ review.pc = "idle" /\ v \in 1 .. Len(written) /\ v \in Versions /\ v # 0
        /\ written[v] \in Docs /\ UNCHANGED <<disks, deleted, review, deletion>>
        /\ restore'.ver = v /\ restore'.todo = restore.todo \ {v}
        /\ restore'.plan = Projection(v) /\ loads[0]'.st = SavedStatuses(v)
        /\ Shown(written[v]).ver = 0 /\ written[v] \notin deleted /\ disk[written[v]] # Missing
    BY <1>19, StartsCalm
  <2>2. deletion.pc = "idle" \/ deletion.doc # written[v]
    <3>1. deletion.pc \in {"idle", "deleted", "records"}
      BY DEF Calm, AnyInv, Types, WorkTypes, DecisionTypes, Deletions
    <3> QED BY <2>1, <3>1 DEF Calm, QuietInv, DeletionPart
  <2>3. \A w \in restore'.todo : written[w] # written[v]
    BY <2>1 DEF Calm, QuietInv, RestorePart
  <2>4. marks[v] # NoSnapshot /\ marks[v] \in Snapshots
    BY <2>1 DEF Projection, Calm, AnyInv, Types, DiskTypes
  <2>5. \/ /\ restore'.plan = FromSource(marks[v])
           /\ marks[v].content[1] \in PendingRecords(written[v])
        \/ restore'.plan = FromSnapshots(v, marks[v])
    BY <2>1, <2>4 DEF Projection
  <2>6. written[restore'.plan.ver] = written[v]
    <3>1. FromSource(marks[v]).ver = marks[v].content[1] BY DEF FromSource, NoEntry
    <3>2. FromSnapshots(v, marks[v]).ver = v BY DEF FromSnapshots
    <3> QED BY <2>5, <3>1, <3>2 DEF PendingRecords
  <2>7. ~restore'.plan.whole => Agrees(loads[0])'
    <3>1. FromSnapshots(v, marks[v]).whole = TRUE BY DEF FromSnapshots
    <3>2. FromSource(marks[v]).st = marks[v].st BY DEF FromSource, NoEntry
    <3>3. SavedStatuses(v) = marks[v].st \/ SavedStatuses(v) = AllPending
      BY <2>4 DEF SavedStatuses, Saved
    <3>4. \A m \in Mods : AllPending[m] = "pending" BY DEF AllPending
    <3> QED BY <2>1, <2>5, <3>1, <3>2, <3>3, <3>4 DEF Agrees
  <2> QED BY <2>1, <2>2, <2>3, <2>6, <2>7 DEF PlanPart
<1> QED
  BY <1>5, <1>6, <1>7, <1>8, <1>9, <1>10, <1>11, <1>12, <1>13, <1>14, <1>15, <1>16, <1>17, <1>18,
     <1>19, CalmSteps

\* Who may be at work with whom.
LEMMA QuietStep ==
    ASSUME Calm, [Next]_vars
    PROVE  QuietInv'
BY FreshStep, TidyStep, DeletionPartStep, RestorePartStep, ReviewPartStep, PlanPartStep
  DEF QuietInv

\* The one change of a whole-file diff stays one.
LEMMA WholeStep ==
    ASSUME Calm, [Next]_vars
    PROVE  WholeInv'
<1>1. /\ \A d \in Docs : Shown(d).whole => OneChange(Shown(d).st)
      /\ restore.plan.whole => OneChange(restore.plan.st)
  BY DEF Calm, WholeInv
<1>2. ~NoEntry.whole BY DEF NoEntry
\* Nothing new is shown, and nothing new is planned.
<1>3. ASSUME restore'.plan = restore.plan \/ restore'.plan = NoEntry,
             \A d \in Docs : Shown(d)' = Shown(d) \/ ~Shown(d)'.whole
                              \/ (Shown(d)'.st = Shown(d).st /\ Shown(d)'.whole = Shown(d).whole)
      PROVE  WholeInv'
  BY <1>1, <1>2, <1>3 DEF WholeInv, OneChange
<1>4. CASE UNCHANGED vars BY <1>3, <1>4 DEF vars, Shown
<1>5. ASSUME NEW e \in Docs, AgentWrites(e) PROVE WholeInv' BY <1>3, <1>5, WritesCalm DEF SameShown
<1>6. ASSUME NEW e \in Docs, UserDeletes(e) PROVE WholeInv' BY <1>3, <1>6, DeletesCalm DEF SameShown
<1>7. ASSUME NEW i \in Slots, Loading(i) PROVE WholeInv'
  BY <1>3, <1>7, LoadsCalm DEF SameShown, LoadMoved
<1>8. ASSUME NEW i \in Slots, Commit(i) PROVE WholeInv'
  <2>1. restore'.plan = restore.plan /\ \A d \in Docs : Shown(d)' = Shown(d) \/ ~Shown(d)'.whole
    BY <1>8, CommitsCalm DEF LoadMoved
  <2> QED BY <1>3, <2>1
<1>9. CASE Begins
  <2>1. /\ restore' = restore
        /\ \A d \in Docs : d # active => Shown(d)' = Shown(d)
        /\ \A d \in Docs : d = active =>
             Shown(d)'.whole = Shown(d).whole /\ (Shown(d).whole => OneChange(Shown(d)'.st))
    BY <1>9, BeginsCalm
  <2> QED BY <1>1, <2>1 DEF WholeInv, OneChange
<1>10. CASE Looks BY <1>3, <1>10, LooksFacts DEF Calm, AnyInv
<1>11. CASE ReviewDisk BY <1>3, <1>11, ReviewDiskFacts DEF Calm, AnyInv
<1>12. CASE ReviewRecords BY <1>3, <1>12, ReviewRecordsCalm DEF SameShown
<1>13. CASE AcceptLeaves
  <2>1. /\ restore' = restore
        /\ \A d \in Docs : d # active => Shown(d)' = Shown(d)
        /\ \A d \in Docs : d = active =>
             Shown(d)'.st = Shown(d).st /\ Shown(d)'.whole = Shown(d).whole
    BY <1>13, AcceptLeavesCalm
  <2> QED BY <1>3, <2>1
<1>14. CASE Discard
  <2>1. Discarded /\ restore' = restore BY <1>14, DiscardsCalm
  <2> QED BY <1>2, <1>3, <2>1 DEF Discarded
<1>15. CASE DiscardRecords BY <1>3, <1>15, DiscardRecordsCalm DEF SameShown
<1>16. CASE Restoring BY <1>3, <1>16, RestoringCalm DEF SameShown
<1>17. ASSUME NEW v \in restore.todo, RestoreStarts(v) PROVE WholeInv'
  <2>1. SameShown /\ restore'.plan = Projection(v) BY <1>17, StartsCalm
  <2>2. ASSUME NEW s PROVE ~FromSource(s).whole BY DEF FromSource, NoEntry
  <2>3. ASSUME NEW s PROVE OneChange(FromSnapshots(v, s).st)
    BY DEF FromSnapshots, OneChange, NoChanges, AllPending
  <2>4. Projection(v).whole => OneChange(Projection(v).st) BY <1>2, <2>2, <2>3 DEF Projection
  <2> QED BY <1>1, <2>1, <2>4 DEF WholeInv, OneChange, SameShown
<1>18. CASE Restart BY <1>2, <1>3, <1>18, RestartCalm
<1>19. CASE Tying BY <1>3, <1>19, TyingCalm DEF SameShown
<1>20. CASE Project
  <2>1. /\ restore'.plan = NoEntry /\ (SameShown \/ Projected)
        /\ Projected => /\ \A d \in Docs : d # active => Shown(d)' = Shown(d)
                        /\ \A d \in Docs : d = active => Shown(d)'.st = restore.plan.st
                                                         /\ Shown(d)'.whole = restore.plan.whole
    BY <1>20, ProjectCalm
  <2> QED BY <1>1, <1>2, <2>1 DEF WholeInv, OneChange, SameShown
<1> QED
  BY <1>4, <1>5, <1>6, <1>7, <1>8, <1>9, <1>10, <1>11, <1>12, <1>13, <1>14, <1>15, <1>16, <1>17,
     <1>18, <1>19, <1>20, CalmSteps

\* The pending records of a file stay tied to one snapshot.
LEMMA MarksStep ==
    ASSUME Calm, [Next]_vars
    PROVE  MarksInv'
<1>1. /\ \A v \in 1 .. Len(written) : MarksAgree(v)
      /\ \A i \in Versions : LoadUnmarked(i)
      /\ ReviewMarks
  BY DEF Calm, MarksInv
<1>2. /\ Len(written) \in Nat /\ \A v \in 1 .. Len(written) : v \in Versions
      /\ marks \in [Versions -> Snapshots]
      /\ \A i \in Versions : i \in Slots /\ i \in Nat /\ i # 0
  BY WrittenVersions, Values DEF Calm, AnyInv, Types, DiskTypes, Versions
\* No record becomes pending, and none is tied to anything.
<1>3. ASSUME UNCHANGED <<written, marks>>,
             \A v \in Versions : records'[v].status = "pending" => records[v].status = "pending",
             \A i \in Versions : loads[i]'.pc # "idle" => loads[i].pc # "idle",
             ReviewMarks'
      PROVE  MarksInv'
  <2>1. ASSUME NEW d PROVE PendingRecords(d)' \subseteq PendingRecords(d)
    BY <1>2, <1>3 DEF PendingRecords
  <2>2. ASSUME NEW v \in 1 .. Len(written') PROVE MarksAgree(v)'
    <3>1. MarksAgree(v) /\ PendingRecords(written[v])' \subseteq PendingRecords(written[v])
      BY <1>1, <1>3, <2>1
    <3> QED BY <1>3, <3>1 DEF MarksAgree
  <2>3. ASSUME NEW i \in Versions PROVE LoadUnmarked(i)'
    <3>1. LoadUnmarked(i) /\ PendingRecords(written[i])' \subseteq PendingRecords(written[i])
      BY <1>1, <1>3, <2>1
    <3> QED BY <1>3, <3>1 DEF LoadUnmarked
  <2> QED BY <1>3, <2>2, <2>3 DEF MarksInv
<1>4. review'.pc \notin {"mark", "records"} => ReviewMarks' BY DEF ReviewMarks
<1>5. CASE UNCHANGED vars BY <1>1, <1>3, <1>5 DEF vars, ReviewMarks, PendingRecords
<1>6. ASSUME NEW d \in Docs, AgentWrites(d) PROVE MarksInv'
  <2>1. Writing(d) /\ review'.pc = "idle" /\ UNCHANGED <<records, marks>> BY <1>6, WritesCalm
  <2>2. /\ Len(written') = Len(written) + 1
        /\ \A v \in 1 .. Len(written) : written'[v] = written[v]
        /\ \A i \in Slots : i # Len(written) + 1 => loads'[i] = loads[i]
    BY <2>1 DEF Writing
  <2>3. ASSUME NEW v \in 1 .. Len(written'), records[v].status = "pending"
        PROVE  v \in 1 .. Len(written)
    <3>1. v \in Versions BY <2>1, <2>2, <1>2 DEF Writing, Versions
    <3> QED BY <2>3, <3>1 DEF Calm, AnyInv, RecordInv, Begun
  <2>4. ASSUME NEW e PROVE PendingRecords(e)' \subseteq PendingRecords(e)
    BY <2>1, <2>2, <2>3 DEF PendingRecords
  <2>5. ASSUME NEW v \in 1 .. Len(written') PROVE MarksAgree(v)'
    <3> SUFFICES ASSUME NEW w \in PendingRecords(written[v])', v \in PendingRecords(written[v])',
                        w <= v, marks[v] # NoSnapshot
                 PROVE  marks[w] = marks[v]
      BY <2>1 DEF MarksAgree
    <3>1. v \in 1 .. Len(written) BY <2>1, <2>3 DEF PendingRecords
    <3>2. w \in PendingRecords(written'[v]) /\ v \in PendingRecords(written'[v]) BY <2>4
    <3> QED BY <1>1, <2>2, <3>1, <3>2 DEF MarksAgree
  <2>6. ASSUME NEW i \in Versions PROVE LoadUnmarked(i)'
    <3> SUFFICES ASSUME loads[i]'.pc # "idle", NEW v \in PendingRecords(written[i])', i < v
                 PROVE  marks[v] = NoSnapshot
      BY <2>1 DEF LoadUnmarked
    <3>1. v \in 1 .. Len(written) /\ v \in PendingRecords(written'[i]) BY <2>4 DEF PendingRecords
    <3>2. i \in 1 .. Len(written) BY <1>2, <3>1
    <3>3. loads[i].pc # "idle" /\ written'[i] = written[i] BY <1>2, <2>2, <3>2
    <3> QED BY <1>1, <3>1, <3>3 DEF LoadUnmarked
  <2> QED BY <1>4, <2>1, <2>5, <2>6 DEF MarksInv
<1>7. ASSUME NEW e \in Docs, UserDeletes(e) PROVE MarksInv' BY <1>3, <1>4, <1>7, DeletesCalm
<1>8. ASSUME NEW i \in Slots, Loading(i) PROVE MarksInv'
  <2>1. /\ LoadMoved(i) /\ review.pc = "idle"
        /\ UNCHANGED <<records, marks>> \/ (UNCHANGED marks /\ RecordCreated(i))
             \/ (CreateRecord(i) /\ i \in Versions)
    BY <1>8, LoadsCalm
  <2>2. /\ UNCHANGED <<written, review>> /\ loads[i].pc # "idle"
        /\ \A j \in Versions : loads[j]'.pc # "idle" => loads[j].pc # "idle"
    BY <1>2, <2>1 DEF LoadMoved
  <2>3. CASE UNCHANGED <<records, marks>> BY <1>3, <1>4, <2>1, <2>2, <2>3
  <2>4. CASE UNCHANGED marks /\ RecordCreated(i)
    <3>1. records' = records \/ records' = Close({i}, "reverted")
      BY <2>4 DEF RecordCreated, Withdraw
    <3>2. \A v \in Versions : records'[v].status = "pending" => records[v].status = "pending"
      BY <3>1 DEF Close, Calm, AnyInv, Types, DiskTypes
    <3> QED BY <1>3, <1>4, <2>1, <2>2, <2>4, <3>2
  <2>5. CASE CreateRecord(i) /\ i \in Versions
    <3>1. /\ marks'[i] = NoSnapshot /\ \A v \in Versions \ {i} : marks'[v] = marks[v]
          /\ \A v \in Versions \ {i} : records'[v] = records[v]
      BY <1>2, <2>5 DEF CreateRecord, Calm, AnyInv, Types, DiskTypes
    <3>2. ASSUME NEW e, NEW v \in PendingRecords(e)'
          PROVE  v \in Versions /\ (v = i \/ v \in PendingRecords(e)) /\ written[v] = e
      BY <1>2, <2>2, <3>1 DEF PendingRecords
    <3>3. ASSUME NEW v \in 1 .. Len(written') PROVE MarksAgree(v)'
      <4> SUFFICES ASSUME NEW w \in PendingRecords(written[v])', v \in PendingRecords(written[v])',
                          w <= v, marks'[v] # NoSnapshot
                   PROVE  marks'[w] = marks'[v]
        BY DEF MarksAgree
      <4>1. v \in Versions /\ v # i /\ v \in PendingRecords(written[v]) BY <2>2, <3>1, <3>2
      <4>2. w \in Versions /\ (w = i \/ w \in PendingRecords(written[v])) /\ written[w] = written[v]
        BY <2>2, <3>2
      <4>3. w # i
        <5> SUFFICES ASSUME w = i PROVE FALSE OBVIOUS
        <5>1. i < v BY <1>2, <4>1, <4>2
        <5> QED BY <1>1, <2>2, <2>5, <3>1, <4>1, <4>2, <5>1 DEF LoadUnmarked
      <4> QED BY <1>1, <2>2, <3>1, <4>1, <4>2, <4>3 DEF MarksAgree
    <3>4. ASSUME NEW j \in Versions PROVE LoadUnmarked(j)'
      <4> SUFFICES ASSUME loads[j]'.pc # "idle", NEW v \in PendingRecords(written[j])', j < v
                   PROVE  marks'[v] = NoSnapshot
        BY DEF LoadUnmarked
      <4>1. v \in Versions /\ (v = i \/ v \in PendingRecords(written[j])) BY <2>2, <3>2
      <4> QED BY <1>1, <2>2, <3>1, <4>1 DEF LoadUnmarked
    <3> QED BY <1>4, <2>1, <2>2, <3>3, <3>4 DEF MarksInv
  <2> QED BY <2>1, <2>3, <2>4, <2>5
<1>9. ASSUME NEW i \in Slots, Commit(i) PROVE MarksInv'
  <2>1. LoadMoved(i) /\ review.pc = "idle" /\ UNCHANGED <<records, marks>>
    BY <1>9, CommitsCalm
  <2>2. /\ UNCHANGED <<written, review>>
        /\ \A j \in Versions : loads[j]'.pc # "idle" => loads[j].pc # "idle"
    BY <1>2, <2>1 DEF LoadMoved
  <2> QED BY <1>3, <1>4, <2>1, <2>2
<1>10. CASE Begins BY <1>3, <1>4, <1>10, BeginsCalm
<1>11. CASE Looks
  <2>1. review.pc = "idle" /\ UNCHANGED <<disks, loads, review>>
    BY <1>11, LooksFacts DEF Calm, AnyInv
  <2> QED BY <1>3, <1>4, <2>1
<1>12. CASE ReviewDisk
  <2>1. UNCHANGED <<written, records, marks, loads>> /\ review'.pc = "snapshot"
    BY <1>12, ReviewDiskFacts DEF Calm, AnyInv
  <2> QED BY <1>3, <1>4, <2>1
<1>13. CASE ReviewRecords
  <2>1. /\ UNCHANGED <<written, marks, loads>> /\ review'.pc \in {"idle", "leave"}
        /\ \A v \in Versions : records'[v].status = "pending" => records[v].status = "pending"
    BY <1>13, ReviewRecordsCalm
  <2> QED BY <1>3, <1>4, <2>1
<1>14. CASE AcceptLeaves BY <1>3, <1>4, <1>14, AcceptLeavesCalm
<1>15. CASE Discard BY <1>3, <1>4, <1>15, DiscardsCalm
<1>16. CASE DiscardRecords BY <1>3, <1>4, <1>16, DiscardRecordsCalm
<1>17. CASE Restoring BY <1>3, <1>4, <1>17, RestoringCalm
<1>18. ASSUME NEW v \in restore.todo, RestoreStarts(v) PROVE MarksInv'
  BY <1>3, <1>4, <1>18, StartsCalm
<1>19. CASE Restart BY <1>2, <1>3, <1>4, <1>19, RestartCalm
<1>20. CASE Project BY <1>3, <1>4, <1>20, ProjectCalm
<1>21. CASE Tying
  <2>1. /\ Settled /\ UNCHANGED <<written, records, loads>> /\ review.doc \in Docs
        /\ review'.doc = review.doc /\ review'.st = review.st /\ review'.op = review.op
    BY <1>21, TyingCalm
  <2>2. /\ review'.pc = "mark" => newest'[review.doc] # NoSnapshot
                                   /\ newest'[review.doc].st = review.st
        /\ review'.pc \in {"mark", "records"}
        /\ review'.pc = "records" /\ review.op # "acceptAll" => review.pc = "mark"
             /\ marks' = [v \in Versions |-> IF v \in PendingRecords(review.doc)
                                             THEN newest[review.doc] ELSE marks[v]]
    BY <1>21, TyingFacts DEF Calm, AnyInv
  <2>3. ASSUME NEW d PROVE PendingRecords(d)' = PendingRecords(d) BY <2>1 DEF PendingRecords
  <2>4. ReviewMarks'
    <3>1. CASE review'.pc = "mark" BY <2>1, <2>2, <3>1 DEF ReviewMarks
    <3>2. CASE review'.pc = "records" /\ review.op # "acceptAll"
      <4>1. newest[review.doc] # NoSnapshot /\ newest[review.doc].st = review.st
        BY <1>1, <2>2, <3>2 DEF ReviewMarks
      <4>2. \A v \in PendingRecords(review.doc) : v \in Versions BY <1>2 DEF PendingRecords
      <4>3. PendingRecords(review.doc)' = PendingRecords(review.doc) BY <2>1 DEF PendingRecords
      <4> QED BY <2>1, <2>2, <3>2, <4>1, <4>2, <4>3 DEF ReviewMarks
    <3>3. CASE review'.pc = "records" /\ review.op = "acceptAll"
      BY <2>1, <3>3 DEF ReviewMarks
    <3> QED BY <2>2, <3>1, <3>2, <3>3
  <2>5. CASE marks' = marks BY <1>3, <2>1, <2>4, <2>5
  <2>6. CASE marks' = [v \in Versions |-> IF v \in PendingRecords(review.doc)
                                          THEN newest[review.doc] ELSE marks[v]]
    <3>1. ASSUME NEW v \in 1 .. Len(written') PROVE MarksAgree(v)'
      <4> SUFFICES ASSUME NEW w \in PendingRecords(written[v])', v \in PendingRecords(written[v])',
                          w <= v, marks'[v] # NoSnapshot
                   PROVE  marks'[w] = marks'[v]
        BY DEF MarksAgree
      <4>1. v \in 1 .. Len(written) /\ v \in PendingRecords(written[v])
            /\ w \in PendingRecords(written[v])
        BY <2>1 DEF PendingRecords
      <4>2. v \in Versions /\ w \in Versions /\ written[w] = written[v]
        BY <1>2, <4>1 DEF PendingRecords
      <4>3. v \in PendingRecords(review.doc) <=> w \in PendingRecords(review.doc)
        BY <4>1, <4>2 DEF PendingRecords
      <4> QED BY <1>1, <2>6, <4>1, <4>2, <4>3 DEF MarksAgree
    <3>2. ASSUME NEW i \in Versions PROVE LoadUnmarked(i)'
      BY <1>2, <2>1 DEF Settled, LoadUnmarked
    <3> QED BY <2>4, <3>1, <3>2 DEF MarksInv
  <2> QED BY <1>21, <2>5, <2>6 DEF Tying, ReviewSnapshot, ReviewMark
<1> QED
  BY <1>5, <1>6, <1>7, <1>8, <1>9, <1>10, <1>11, <1>12, <1>13, <1>14, <1>15, <1>16, <1>17, <1>18,
     <1>19, <1>20, <1>21, CalmSteps

\* The newest version stays shown or on its way.
LEMMA LostStep ==
    ASSUME Calm, LostInv, [Next]_vars
    PROVE  LostInv'
<1> SUFFICES ASSUME NEW n \in 1 .. Len(written'), n > session', n > handledAt'[written'[n]],
      Newest(n)'
             PROVE  Shown(written[n])'.ver = n \/ Coming(n)'
  BY DEF LostInv
<1>1. Len(written) \in Nat /\ n \in Nat
      /\ \A v \in 1 .. Len(written) : v \in Versions /\ v \in Slots /\ v # 0 /\ written[v] \in Docs
  <2>1. Len(written') \in Nat BY DiskTypesStep DEF Calm, AnyInv, DiskTypes
  <2> QED BY <2>1, WrittenVersions DEF Calm, AnyInv, Types, DiskTypes
\* Nothing but loads and the panel has changed for this version.
<1>2. ASSUME NEW d \in Docs, n \in 1 .. Len(written), written[n] = d,
        UNCHANGED <<written, session>>,
             handledAt'[d] = handledAt[d],
             Shown(d).ver = n => Shown(d)'.ver = n,
             Coming(n) => Shown(d)'.ver = n \/ Coming(n)'
      PROVE  Shown(written[n])'.ver = n \/ Coming(n)'
  <2>1. n > session /\ n > handledAt[d] /\ Newest(n) BY <1>2 DEF Newest
  <2>2. Shown(d).ver = n \/ Coming(n) BY <1>2, <2>1 DEF LostInv
  <2>3. Shown(written[n])' = Shown(d)' BY <1>2 DEF Shown
  <2> QED BY <1>2, <2>2, <2>3
<1>3. ASSUME UNCHANGED <<written, disk, loads, gen>> PROVE Coming(n) => Coming(n)'
  <2>1. DocOf(n)' = DocOf(n) \/ n = 0 BY <1>3 DEF DocOf, VersionOf
  <2> QED BY <1>1, <1>3, <2>1 DEF Coming, Underway, Superseded, DocOf, VersionOf
<1>4. ASSUME Settled, UNCHANGED written PROVE ~Coming(n)
  <2>1. n \in Slots BY <1>1, <1>4
  <2> QED BY <1>4, <2>1 DEF Settled, Coming, Underway
<1>5. ASSUME written' = written
      PROVE  n \in 1 .. Len(written) /\ written[n] \in Docs /\ n \in Versions /\ n \in Slots /\
          n # 0
  BY <1>1, <1>5
<1>6. SameShown => SameVersions BY DEF SameShown, SameVersions
\* The session is over when a restore is at work.
<1>7. session' = Len(written) => written' # written
  BY <1>1
<1>8. CASE UNCHANGED vars
  <2>1. UNCHANGED <<written, session, handledAt, disk, loads, gen>> /\ SameShown
    BY <1>8 DEF vars, Shown, SameShown
  <2> QED BY <1>2, <1>3, <1>5, <2>1 DEF SameShown
<1>9. ASSUME NEW d \in Docs, AgentWrites(d) PROVE Shown(written[n])'.ver = n \/ Coming(n)'
  <2>1. /\ Writing(d) /\ SameShown
        /\ UNCHANGED <<gen, session, handledAt, restore>>
        /\ disk'[d] = <<Len(written) + 1, {}>> /\ \A e \in Docs \ {d} : disk'[e] = disk[e]
    BY <1>9, WritesCalm
  <2>2. CASE n = Len(written) + 1
    <3>1. written'[n] = d BY <2>1, <2>2 DEF Writing
    <3>2. loads'[n] = [NoLoad EXCEPT !.pc = "written", !.st = AllPending, !.content = <<n, {}>>]
      BY <2>1, <2>2 DEF Writing
    <3>3. loads'[n].pc = "written" BY <3>2, EmptyRecords DEF Loads
    <3> QED BY <2>1, <2>2, <3>1, <3>3 DEF Coming
  <2>3. CASE n # Len(written) + 1
    <3>1. n \in 1 .. Len(written) /\ written'[n] = written[n] /\ Len(written') = Len(written) + 1
      BY <1>1, <2>1, <2>3 DEF Writing
    <3>2. written[n] # d BY <1>1, <2>1, <3>1 DEF Newest, Writing
    <3>3. n > handledAt[written[n]] /\ n > session BY <2>1, <3>1
    <3>4. Newest(n)
      <4> SUFFICES ASSUME NEW w \in n + 1 .. Len(written) PROVE written[w] # written[n]
        BY DEF Newest
      <4>1. w \in n + 1 .. Len(written') /\ w \in 1 .. Len(written) BY <1>1, <3>1
      <4>2. written'[w] = written[w] BY <2>1, <4>1 DEF Writing
      <4> QED BY <3>1, <4>1, <4>2 DEF Newest
    <3>5. Shown(written[n]).ver = n \/ Coming(n) BY <3>1, <3>3, <3>4 DEF LostInv
    <3>6. PICK e \in Docs : e = written[n] BY <1>1, <3>1
    <3>7. Shown(written[n])' = Shown(e)' /\ Shown(e)' = Shown(e)
      BY <2>1, <3>1, <3>6 DEF Shown, SameShown
    <3>8. loads'[n] = loads[n] /\ disk'[e] = disk[e]
      BY <1>1, <2>1, <2>3, <3>1, <3>2, <3>6 DEF Writing
    <3>9. Coming(n) => Coming(n)'
      BY <1>1, <2>1, <3>1, <3>6, <3>8 DEF Coming, Underway, Superseded, DocOf, VersionOf
    <3> QED BY <3>5, <3>6, <3>7, <3>9
  <2> QED BY <2>2, <2>3
<1>10. ASSUME NEW e \in Docs, UserDeletes(e) PROVE Shown(written[n])'.ver = n \/ Coming(n)'
  BY <1>2, <1>4, <1>5, <1>10, DeletesCalm DEF SameShown
<1>11. ASSUME NEW i \in Slots, Loading(i) PROVE Shown(written[n])'.ver = n \/ Coming(n)'
  <2>1. LoadMoved(i) /\ SameShown /\ (i # 0 => restore.pc = "idle") BY <1>11, LoadsCalm
  <2>2. UNCHANGED <<written, disk, session, handledAt>> BY <2>1 DEF LoadMoved
  <2>3. i # 0
    <3> SUFFICES ASSUME i = 0 PROVE FALSE OBVIOUS
    <3>1. loads[0].pc # "idle" BY <2>1 DEF LoadMoved
    <3>2. session = Len(written) BY <3>1, WhoIsAtWork
    <3> QED BY <1>7, <2>2, <3>2
  <2>4. n \in 1 .. Len(written) /\ written[n] \in Docs /\ n \in Slots /\ n # 0 BY <1>5, <2>2
  <2>5. VersionOf(i) = i /\ DocOf(i) = written[i] /\ i \in 1 .. Len(written) /\ i \in Nat
    <3>1. loads[i].pc # "idle" BY <2>1 DEF LoadMoved
    <3> QED BY <1>1, <2>3, <3>1, AtWork DEF Calm, AnyInv, DocOf
  <2>6. DocOf(n) = written[n] /\ DocOf(n)' = written[n] BY <2>2, <2>4 DEF DocOf, VersionOf
  <2>7. SUFFICES ASSUME Coming(n) PROVE Coming(n)' BY <1>2, <2>1, <2>2, <2>4 DEF SameShown
  <2>8. disk'[written'[n]] = <<n, {}>> BY <2>2, <2>7 DEF Coming
  <2>9. Newest(n) BY <2>2 DEF Newest
  <2>10. CASE i # n
    <3>1. loads[n]' = loads[n] BY <2>1, <2>4, <2>10 DEF LoadMoved
    <3>2. CASE loads[n].pc = "written" BY <2>8, <3>1, <3>2 DEF Coming
    <3>3. CASE Underway(n) /\ ~Superseded(n)
      <4>1. CASE gen'[written[n]] = gen[written[n]]
        BY <2>6, <2>8, <3>1, <3>3, <4>1 DEF Coming, Underway, Superseded
      <4>2. CASE DiffArrives(i)
        <5>1. loads[i].pc = "written" /\ gen' = [gen EXCEPT ![written[i]] = @ + 1]
          BY <4>2, StartingFacts DEF DiffArrives, Starting, Calm, AnyInv
        <5>2. CASE written[i] = written[n]
          <6>1. i < n
            <7>1. ~(i \in n + 1 .. Len(written)) BY <2>9, <5>2 DEF Newest
            <7> QED BY <1>1, <2>5, <2>10, <7>1
          <6>2. Begun(n) BY <2>4, <3>3 DEF Calm, AnyInv, LoadInv, LoadPart, VersionOf
          <6>3. i \in 1 .. n BY <1>1, <2>5, <6>1
          <6> QED BY <5>1, <5>2, <6>2, <6>3 DEF Begun
        <5>3. CASE written[i] # written[n]
          <6>1. gen'[written[n]] = gen[written[n]]
            BY <2>4, <5>1, <5>3 DEF Calm, AnyInv, Types, WorkTypes, LoadTypes
          <6> QED BY <4>1, <6>1
        <5> QED BY <5>2, <5>3
      <4>3. DiffArrives(i) \/ gen' = gen
        BY <1>11 DEF Loading, LoadStep, GiveUp, LoadFails, CancelDeleted, Previewed, CreateRecord,
           RecordCreated, Probe, CloseStale
      <4> QED BY <4>1, <4>2, <4>3
    <3> QED BY <2>7, <3>2, <3>3 DEF Coming
  <2>11. CASE i = n
    <3>1. loads \in [Slots -> Loads] /\ loads[n] \in Loads
      BY <2>4 DEF Calm, AnyInv, Types, WorkTypes, LoadTypes
    <3>2. CASE DiffArrives(n)
      <4>1. gen' = [gen EXCEPT ![written[n]] = @ + 1] /\ loads[n]'.gen = gen[written[n]] + 1
            /\ loads[n]'.pc = "yield"
        BY <2>4, <3>2, StartingFacts DEF Starting, Calm, AnyInv
      <4>2. gen'[written[n]] = gen[written[n]] + 1
        BY <2>4, <4>1 DEF Calm, AnyInv, Types, WorkTypes, LoadTypes
      <4> QED BY <2>6, <2>8, <4>1, <4>2 DEF Coming, Underway, Superseded
    <3>3. ASSUME ~Superseded(n), gen' = gen, NEW to \in Places \ {"idle", "written"},
                 loads[n]'.pc = to, loads[n]'.gen = loads[n].gen
          PROVE  Coming(n)'
      BY <2>6, <2>8, <3>3 DEF Coming, Underway, Superseded
    <3>4. CASE GiveUp(n)
      <4>1. Superseded(n) /\ loads[n].pc # "written" BY <3>4 DEF GiveUp, Step
      <4> QED BY <2>7, <4>1 DEF Coming
    <3>5. CASE CancelDeleted(n)
      <4>1. disk[DocOf(n)] # loads[n].content /\ loads[n].pc # "idle"
        BY <2>4, <3>5 DEF CancelDeleted, SurvivesDeletion, Step
      <4>2. loads[n].content = <<n, {}>> BY <2>4, <4>1 DEF Calm, AnyInv, LoadInv, LoadPart
      <4> QED BY <2>6, <2>7, <4>1, <4>2 DEF Coming
    <3>6. CASE Previewed(n)
      <4>1. Advance(n, "record") /\ ~Superseded(n) /\ gen' = gen BY <2>4, <3>6 DEF Previewed
      <4>2. loads[n]'.pc = "record" /\ loads[n]'.gen = loads[n].gen
        BY <2>4, <3>1, <4>1 DEF Advance, Loads
      <4> QED BY <3>3, <4>1, <4>2 DEF Places
    <3>7. CASE CreateRecord(n)
      <4>1. Advance(n, "recorded") /\ loads[n].pc = "record" /\ gen' = gen
        BY <3>7 DEF CreateRecord, Step
      <4>2. loads[n]'.pc = "recorded" /\ loads[n]'.gen = loads[n].gen
        BY <2>4, <3>1, <4>1 DEF Advance, Loads
      <4>3. ~Superseded(n) BY <2>7, <4>1 DEF Coming
      <4> QED BY <3>3, <4>1, <4>2, <4>3 DEF Places
    <3>8. CASE RecordCreated(n)
      <4>1. loads[n].pc = "recorded" /\ gen' = gen BY <3>8 DEF RecordCreated, Step
      <4>2. ~Superseded(n) BY <2>7, <4>1 DEF Coming
      <4>3. Advance(n, "probe") BY <3>8, <4>2 DEF RecordCreated
      <4>4. loads[n]'.pc = "probe" /\ loads[n]'.gen = loads[n].gen
        BY <2>4, <3>1, <4>3 DEF Advance, Loads
      <4> QED BY <3>3, <4>1, <4>2, <4>4 DEF Places
    <3>9. CASE Probe(n)
      <4>1. ~Superseded(n) /\ gen' = gen /\ loads[n].pc = "probe" BY <3>9 DEF Probe, Step
      <4>2. loads[n]'.pc = "commit" /\ loads[n]'.gen = loads[n].gen
        BY <2>4, <3>9, <4>1, NothingStale, ProbeMoves DEF Calm, AnyInv
      <4> QED BY <3>3, <4>1, <4>2 DEF Places
    <3>10. ~LoadFails(n) /\ ~CloseStale(n) BY <1>11, <2>11, LoadsCalm DEF LoadFails, Calm
    <3> QED BY <1>11, <2>11, <3>2, <3>4, <3>5, <3>6, <3>7, <3>8, <3>9, <3>10 DEF Loading, LoadStep
  <2> QED BY <2>10, <2>11
<1>12. ASSUME NEW i \in Slots, Commit(i) PROVE Shown(written[n])'.ver = n \/ Coming(n)'
  <2>1. /\ LoadMoved(i) /\ gen' = gen /\ loads[i].pc = "commit" /\ ~Superseded(i)
        /\ DocOf(i) \in Docs /\ VersionOf(i) \in 1 .. Len(written)
        /\ \A d \in Docs : d = DocOf(i) => Shown(d)'.ver = VersionOf(i)
        /\ \A d \in Docs : d # DocOf(i) => Shown(d)' = Shown(d)
        /\ i # 0 => VersionOf(i) = i
        /\ i = 0 => restore.pc = "next"
    BY <1>12, CommitsCalm
  <2>2. UNCHANGED <<written, disk, session, handledAt>> BY <2>1 DEF LoadMoved
  <2>3. i # 0
    <3> SUFFICES ASSUME i = 0 PROVE FALSE OBVIOUS
    <3>1. session = Len(written) BY <2>1, WhoIsAtWork
    <3> QED BY <1>7, <2>2, <3>1
  <2>4. n \in 1 .. Len(written) /\ written[n] \in Docs /\ n \in Slots /\ n # 0 BY <1>5, <2>2
  <2>5. DocOf(n) = written[n] /\ DocOf(n)' = written[n] /\ DocOf(i) = written[i]
    BY <2>1, <2>2, <2>3, <2>4 DEF DocOf, VersionOf
  <2>6. Newest(n) BY <2>2 DEF Newest
  <2>7. PICK d \in Docs : d = written[n] BY <2>4
  <2>8. CASE i = n BY <1>2, <2>1, <2>2, <2>3, <2>4, <2>5, <2>7, <2>8
  <2>9. CASE i # n
    <3>1. Coming(n) => Coming(n)'
      <4>1. loads[n]' = loads[n] BY <2>1, <2>4, <2>9 DEF LoadMoved
      <4> QED BY <2>1, <2>2, <2>5, <4>1 DEF Coming, Underway, Superseded
    <3>2. Shown(d).ver = n => Shown(d)'.ver = n
      <4>1. CASE DocOf(i) # d BY <2>1, <4>1
      <4>2. CASE DocOf(i) = d /\ Shown(d).ver = n
        <5>1. ~(i \in n + 1 .. Len(written)) BY <2>5, <2>6, <2>7, <4>2 DEF Newest
        <5>2. i \in 1 .. n - 1 BY <1>1, <2>1, <2>3, <2>9, <5>1
        <5>3. loads[i].gen < gen[d]
          BY <2>1, <2>4, <2>5, <4>2, <5>2 DEF Calm, AnyInv, NewestInv, NewestPart, Underway
        <5>4. loads[i].gen = gen[d] /\ gen[d] \in Nat
          BY <2>1, <4>2 DEF Superseded, Calm, AnyInv, Types, WorkTypes, LoadTypes
        <5> QED BY <5>3, <5>4
      <4> QED BY <4>1, <4>2
    <3> QED BY <1>2, <2>2, <2>4, <2>7, <3>1, <3>2
  <2> QED BY <2>8, <2>9
<1>13. CASE Begins BY <1>2, <1>4, <1>5, <1>13, BeginsCalm DEF SameVersions
<1>14. CASE Looks
  <2>1. SameShown /\ UNCHANGED <<disks, loads, gen, counters>>
    BY <1>14, LooksFacts DEF Calm, AnyInv, SameShown
  <2> QED BY <1>2, <1>3, <1>5, <2>1 DEF SameShown
<1>15. CASE ReviewDisk
  <2>1. review.pc = "disk" /\ SameShown /\ UNCHANGED <<written, session, handledAt>>
    BY <1>15, ReviewDiskFacts DEF Calm, AnyInv, SameShown
  <2>2. Settled BY <2>1, WhoIsAtWork
  <2> QED BY <1>2, <1>4, <1>5, <2>1, <2>2 DEF SameShown
<1>16. CASE ReviewRecords
  <2>1. review.pc = "records" /\ SameShown /\ UNCHANGED <<written, session, handledAt>>
    BY <1>16, ReviewRecordsCalm
  <2>2. Settled BY <2>1, WhoIsAtWork
  <2> QED BY <1>2, <1>4, <1>5, <2>1, <2>2 DEF SameShown
<1>17. CASE AcceptLeaves BY <1>2, <1>4, <1>5, <1>17, AcceptLeavesCalm DEF SameVersions
<1>18. CASE Discard
  <2>1. /\ Discarded /\ UNCHANGED <<disks, loads, session>> /\ deletion.doc \in Docs
        /\ \A d \in Docs \ {deletion.doc} : gen'[d] = gen[d] /\ handledAt'[d] = handledAt[d]
        /\ handledAt'[deletion.doc] = Len(written)
    BY <1>18, DiscardsCalm
  <2>2. n \in 1 .. Len(written) /\ written[n] \in Docs /\ n # 0 BY <1>5, <2>1
  <2>3. written[n] # deletion.doc BY <1>1, <2>1, <2>2
  <2>4. PICK d \in Docs : d = written[n] BY <2>2
  <2>5. Shown(d)' = Shown(d) /\ gen'[d] = gen[d] /\ handledAt'[d] = handledAt[d]
    BY <2>1, <2>3, <2>4 DEF Discarded
  <2>6. DocOf(n) = d /\ DocOf(n)' = d BY <2>1, <2>2, <2>4 DEF DocOf, VersionOf
  <2>7. Coming(n) => Coming(n)' BY <2>1, <2>4, <2>5, <2>6 DEF Coming, Underway, Superseded
  <2> QED BY <1>2, <2>1, <2>2, <2>4, <2>5, <2>7
<1>19. CASE DiscardRecords
  <2>1. SameShown /\ UNCHANGED <<written, disk, loads, gen, session, handledAt>>
    BY <1>19, DiscardRecordsCalm
  <2> QED BY <1>2, <1>3, <1>5, <2>1 DEF SameShown
<1>20. CASE Restoring
  <2>1. session = Len(written) /\ UNCHANGED <<written, session>> BY <1>20, RestoringCalm
  <2> QED BY <1>7, <2>1
<1>21. ASSUME NEW v \in restore.todo, RestoreStarts(v)
       PROVE  Shown(written[n])'.ver = n \/ Coming(n)'
  <2>1. session = Len(written) /\ UNCHANGED <<written, session>> BY <1>21, StartsCalm
  <2> QED BY <1>7, <2>1
<1>22. CASE Restart
  <2>1. session' = Len(written) /\ UNCHANGED written BY <1>22, RestartCalm
  <2> QED BY <1>7, <2>1
<1>23. CASE Tying
  <2>1. Settled /\ SameShown /\ UNCHANGED <<written, counters>> BY <1>23, TyingCalm
  <2> QED BY <1>2, <1>4, <1>5, <2>1 DEF SameShown
<1>24. CASE Project
  <2>1. session = Len(written) /\ UNCHANGED <<disks, counters>> BY <1>24, ProjectCalm
  <2> QED BY <1>7, <2>1
<1> QED
  BY <1>8, <1>9, <1>10, <1>11, <1>12, <1>13, <1>14, <1>15, <1>16, <1>17, <1>18, <1>19, <1>20,
     <1>21, <1>22, <1>23, <1>24, CalmSteps

\* What was decided is saved in the record of the version and in the snapshot it is tied to.
LEMMA SavedKept ==
    ASSUME NEW v, Untouched(v)
    PROVE  SavedStatuses(v)' = SavedStatuses(v)
BY DEF SavedStatuses, Saved, Untouched

\* What the panel shows keeps its record.
LEMMA KeptPartStep ==
    ASSUME Calm, KeptInv, [Next]_vars, NEW d \in Docs
    PROVE  KeptPart(d)'
<1> DEFINE goal == /\ records'[Shown(d)'.ver].status = "pending"
                   /\ Deciding(d)' \/ Shown(d)'.whole \/ SavedStatuses(Shown(d).ver)' = Shown(d)'.st
<1> SUFFICES ASSUME HasPending(Shown(d)'.st) PROVE goal BY DEF KeptPart, HasPending
<1>1. /\ KeptPart(d) /\ Shown(d) \in Shows /\ Shown(d).ver \in Slots
      /\ Shown(d).ver # 0 => Shown(d).ver \in 1 .. Len(written) /\ written[Shown(d).ver] = d
                             /\ Shown(d).ver \in Versions
  BY ShownVersions, WrittenVersions DEF Calm, AnyInv, KeptInv
<1>2. Shown(d)' # NoEntry /\ ~(Shown(d)'.ver = 0 /\ Shown(d)' = Shown(d))
  <2>1. Shown(d)' # NoEntry BY NothingPending, EmptyRecords
  <2> QED BY <2>1, PanelFitting DEF Calm, AnyInv
\* The version shown has its record, with what is shown as decided.
<1>saved. ASSUME NEW v \in Versions, Shown(d)'.ver = v, records'[v].status = "pending",
              Deciding(d)' \/ Shown(d)'.whole \/ SavedStatuses(v)' = Shown(d)'.st
       PROVE  goal
  <2>1. SavedStatuses(Shown(d).ver)' = SavedStatuses(v)' BY <1>saved DEF SavedStatuses, Saved
  <2> QED BY <1>saved, <2>1
\* The file's entry and its record are left alone, and so is a decision about it.
<1>3. ASSUME Shown(d)' = Shown(d), Untouched(Shown(d).ver), Deciding(d) => Deciding(d)'
      PROVE  goal
  <2>1. PICK v \in Versions : v = Shown(d).ver BY <1>1, <1>2, <1>3
  <2>2. SavedStatuses(v)' = SavedStatuses(v) /\ records'[v] = records[v]
    BY <1>3, <2>1, SavedKept DEF Untouched
  <2>3. HasPending(Shown(d).st) BY <1>3
  <2> QED BY <1>1, <1>3, <1>saved, <2>1, <2>2, <2>3 DEF KeptPart
<1>4. ASSUME SameShown PROVE Shown(d)' = Shown(d) /\ Shown(d).ver # 0 /\ Shown(d).ver \in Versions
                             /\ written[Shown(d).ver] = d
  BY <1>1, <1>2, <1>4 DEF SameShown
<1>5. review.pc = "idle" => ~Deciding(d) BY DEF Deciding
<1>6. CASE UNCHANGED vars
  <2>1. SameShown /\ UNCHANGED <<records, marks, review>> BY <1>6 DEF vars, SameShown, Shown
  <2> QED BY <1>3, <1>4, <2>1 DEF Deciding, Untouched
<1>7. ASSUME NEW e \in Docs, AgentWrites(e) PROVE goal 
  BY <1>3, <1>4, <1>5, <1>7, WritesCalm DEF Untouched
<1>8. ASSUME NEW e \in Docs, UserDeletes(e) PROVE goal 
  BY <1>3, <1>4, <1>5, <1>8, DeletesCalm DEF Untouched
<1>9. ASSUME NEW i \in Slots, Loading(i) PROVE goal
  <2>1. /\ LoadMoved(i) /\ SameShown /\ review.pc = "idle"
        /\ i # 0 => Shown(DocOf(i)).ver # i
        /\ \A v \in Versions : v # i => Untouched(v)
    BY <1>9, LoadsCalm
  <2>2. Shown(d).ver # i
    <3> SUFFICES ASSUME Shown(d).ver = i PROVE FALSE OBVIOUS
    <3>1. i # 0 /\ written[i] = d BY <1>4, <2>1
    <3>2. DocOf(i) = d BY <3>1 DEF DocOf, VersionOf
    <3> QED BY <2>1, <3>1, <3>2
  <2> QED BY <1>3, <1>4, <1>5, <2>1, <2>2
<1>10. ASSUME NEW i \in Slots, Commit(i) PROVE goal
  <2>1. /\ review.pc = "idle" /\ UNCHANGED <<records, marks>>
        /\ loads[i].pc = "commit" /\ VersionOf(i) \in Versions
        /\ d = DocOf(i) => Shown(d)'.ver = VersionOf(i) /\ Shown(d)'.st = loads[i].st
        /\ d # DocOf(i) => Shown(d)' = Shown(d)
    BY <1>10, CommitsCalm
  <2>2. CASE d = DocOf(i)
    <3>1. PICK v \in Versions : v = VersionOf(i) BY <2>1
    <3>2. Keeps(v, loads[i].st) BY <2>1, <3>1 DEF KeptInv, LoadKept
    <3>3. SavedStatuses(v)' = SavedStatuses(v) BY <2>1, SavedKept DEF Untouched
    <3> QED BY <1>saved, <2>1, <2>2, <3>1, <3>2, <3>3 DEF Keeps
  <2>3. CASE d # DocOf(i) BY <1>3, <1>5, <2>1, <2>3 DEF Untouched
  <2> QED BY <2>2, <2>3
<1>11. CASE Begins
  <2>1. /\ SameVersions /\ review.pc = "idle" /\ review'.pc = "disk" /\ review'.doc = active
        /\ HasPending(Shown(active).st) /\ UNCHANGED disks
        /\ d # active => Shown(d)' = Shown(d)
    BY <1>11, BeginsCalm
  <2>2. CASE d = active
    <3>1. Shown(d)'.ver = Shown(d).ver /\ records[Shown(d).ver].status = "pending"
      BY <1>1, <2>1, <2>2 DEF KeptPart, SameVersions
    <3> QED BY <2>1, <2>2, <3>1 DEF Deciding
  <2>3. CASE d # active BY <1>3, <1>5, <2>1, <2>3 DEF Untouched
  <2> QED BY <2>2, <2>3
<1>12. CASE Looks BY <1>3, <1>5, <1>12, LooksFacts DEF Calm, AnyInv, Untouched
<1>13. CASE ReviewDisk
  <2>1. /\ Shown(d)' = Shown(d) /\ UNCHANGED <<records, marks>> /\ review'.pc = "snapshot"
        /\ review'.doc = review.doc
    BY <1>13, ReviewDiskFacts DEF Calm, AnyInv
  <2> QED BY <1>3, <2>1 DEF Deciding, Untouched
<1>14. CASE ReviewRecords
  <2>1. /\ review.pc = "records" /\ SameShown /\ marks' = marks
        /\ \A v \in Versions : v \notin PendingRecords(review.doc) => Untouched(v)
        /\ ~Reviewed(review.st) => \A v \in PendingRecords(review.doc) \cap Versions :
                                     records'[v].status = "pending"
    BY <1>14, ReviewRecordsCalm
  <2>2. CASE d = review.doc
    <3>1. Shown(d).st = review.st BY <2>1, <2>2 DEF Calm, QuietInv, ReviewPart
    <3>2. ~Reviewed(review.st) BY <1>4, <2>1, <3>1 DEF HasPending, Reviewed
    <3>3. review.op # "acceptAll" BY <2>1, <3>2 DEF Calm, QuietInv, ReviewPart
    <3>4. PICK v \in Versions : v = Shown(d).ver BY <1>4, <2>1
    <3>5. Shown(d)'.ver = v /\ Shown(d)'.st = review.st BY <1>4, <2>1, <3>1, <3>4
    <3>6. v \in PendingRecords(review.doc)
      BY <1>1, <1>4, <2>1, <2>2, <3>4 DEF KeptPart, PendingRecords
    <3>7. marks[v] # NoSnapshot /\ marks[v].st = review.st
      BY <2>1, <3>3, <3>6 DEF Calm, MarksInv, ReviewMarks
    <3>8. review.st # NoChanges BY <3>5, NothingPending
    <3>9. SavedStatuses(v)' = review.st BY <2>1, <3>7, <3>8 DEF SavedStatuses, Saved
    <3> QED BY <1>saved, <2>1, <3>2, <3>5, <3>6, <3>9
  <2>3. CASE d # review.doc
    <3>1. Shown(d).ver \notin PendingRecords(review.doc) BY <1>4, <2>1, <2>3 DEF PendingRecords
    <3>2. ~Deciding(d) BY <2>3 DEF Deciding
    <3> QED BY <1>3, <1>4, <2>1, <3>1, <3>2
  <2> QED BY <2>2, <2>3
<1>15. CASE AcceptLeaves
  <2>1. /\ review.pc = "leave" /\ Reviewed(review.st) /\ UNCHANGED disks
        /\ d # active => Shown(d)' = Shown(d)
        /\ d = active => Shown(d)'.st = review.st
    BY <1>15, AcceptLeavesCalm
  <2>2. d # active BY <2>1 DEF HasPending, Reviewed
  <2>3. ~Deciding(d) BY <2>1 DEF Deciding
  <2> QED BY <1>3, <2>1, <2>2, <2>3 DEF Untouched
<1>16. CASE Discard
  <2>1. Discarded /\ UNCHANGED disks /\ review.pc = "idle" BY <1>16, DiscardsCalm
  <2>2. Shown(d)' = Shown(d) BY <1>2, <2>1 DEF Discarded
  <2> QED BY <1>3, <1>5, <2>1, <2>2 DEF Untouched
<1>17. CASE DiscardRecords
  <2>1. /\ SameShown /\ review.pc = "idle" /\ Shown(deletion.doc).ver = 0
        /\ \A v \in Versions : v \notin PendingRecords(deletion.doc) => Untouched(v)
    BY <1>17, DiscardRecordsCalm
  <2>2. Shown(d).ver \notin PendingRecords(deletion.doc) BY <1>4, <2>1 DEF PendingRecords
  <2> QED BY <1>3, <1>4, <1>5, <2>1, <2>2
<1>18. CASE Restoring
  <2>1. /\ SameShown /\ review.pc = "idle"
        /\ \A v \in Versions : Untouched(v) \/ Shown(written[v]).ver = 0
    BY <1>18, RestoringCalm
  <2> QED BY <1>3, <1>4, <1>5, <2>1
<1>19. ASSUME NEW v \in restore.todo, RestoreStarts(v) PROVE goal
  BY <1>3, <1>4, <1>5, <1>19, StartsCalm DEF Untouched
<1>20. CASE Restart BY <1>2, <1>20, RestartCalm
<1>22. CASE Tying
  <2>1. /\ SameShown /\ records' = records /\ review'.doc = review.doc
        /\ review.pc \in {"snapshot", "mark"} /\ review'.pc \in {"mark", "records"}
        /\ \A v \in Versions : v \notin PendingRecords(review.doc) => Untouched(v)
    BY <1>22, TyingCalm
  <2>2. CASE d = review.doc
    <3>1. Shown(d)' = Shown(d) /\ Deciding(d)' BY <2>1, <2>2 DEF SameShown, Deciding
    <3>2. PICK v \in Versions : v = Shown(d).ver BY <1>4, <2>1
    <3>3. HasPending(Shown(d).st) BY <3>1
    <3> QED BY <1>1, <1>saved, <2>1, <3>1, <3>2, <3>3 DEF KeptPart
  <2>3. CASE d # review.doc
    <3>1. Shown(d).ver \notin PendingRecords(review.doc) BY <1>4, <2>1, <2>3 DEF PendingRecords
    <3>2. ~Deciding(d) BY <2>3 DEF Deciding
    <3> QED BY <1>3, <1>4, <2>1, <3>1, <3>2
  <2> QED BY <2>2, <2>3
<1>23. CASE Project
  <2>1. /\ UNCHANGED disks /\ review.pc = "idle" /\ restore.plan # NoEntry
        /\ SameShown \/ Projected
        /\ Projected /\ d # active => Shown(d)' = Shown(d)
        /\ Projected /\ d = active =>
             /\ restore.plan.ver \in Versions /\ Shown(d)'.ver = restore.plan.ver
             /\ Shown(d)'.st = restore.plan.st /\ Shown(d)'.whole = restore.plan.whole
    BY <1>23, ProjectCalm
  <2>2. CASE Projected /\ d = active
    <3>1. PICK v \in Versions : v = restore.plan.ver BY <2>1, <2>2
    <3>2. /\ records[v].status = "pending"
          /\ restore.plan.whole \/ SavedStatuses(v) = restore.plan.st
      BY <2>1, <2>2, <3>1 DEF KeptInv, PlanKept
    <3>3. SavedStatuses(v)' = SavedStatuses(v) BY <2>1, SavedKept DEF Untouched
    <3> QED BY <1>saved, <2>1, <2>2, <3>1, <3>2, <3>3
  <2>3. CASE ~(Projected /\ d = active)
    BY <1>3, <1>5, <2>1, <2>3 DEF SameShown, Untouched
  <2> QED BY <2>2, <2>3
<1> QED
  BY <1>6, <1>7, <1>8, <1>9, <1>10, <1>11, <1>12, <1>13, <1>14, <1>15, <1>16, <1>17, <1>18, <1>19,
     <1>20, <1>22, <1>23, CalmSteps

\* What a version keeps, it keeps as long as its record and its snapshot are left alone.
LEMMA KeepsKept ==
    ASSUME NEW v, NEW st, Untouched(v), Keeps(v, st)
    PROVE  Keeps(v, st)'
BY SavedKept DEF Keeps, Untouched

\* What is about to be shown keeps its record.
LoadRecord(i) ==
    /\ i = 0 /\ loads[i].pc # "idle" => Keeps(restore.ver, loads[i].st)
    /\ i # 0 => LoadKept(i) /\ (loads[i].pc # "idle" => loads[i].st = AllPending)

\* What a load holds is what its record has.
LEMMA LoadRecordStep ==
    ASSUME Calm, KeptInv, [Next]_vars, NEW j \in Slots
    PROVE  LoadRecord(j)'
<1> SUFFICES ASSUME loads[j]'.pc # "idle" PROVE LoadRecord(j)' BY DEF LoadRecord, LoadKept
<1>1. LoadRecord(j) /\ FreshPart(j) /\ loads \in [Slots -> Loads] /\ (j # 0 => j \in Versions)
  BY Values DEF Calm, QuietInv, AnyInv, Types, WorkTypes, LoadTypes, KeptInv, LoadRecord
<1>2. VersionOf(j) = IF j = 0 THEN restore.ver ELSE j BY DEF VersionOf
<1>3. loads[j].pc # "idle" =>
        /\ VersionOf(j) \in Versions /\ DocOf(j) \in Docs /\ DocOf(j) = written[VersionOf(j)]
        /\ j # 0 => restore.pc = "idle" /\ deletion.pc = "idle"
        /\ j = 0 => restore.pc = "next"
  BY <1>1, AtWork DEF Calm, AnyInv, FreshPart, DocOf
\* The load holds what its version keeps, or has no record yet.
<1>saved. ASSUME NEW v, NEW st, VersionOf(j)' = v, loads[j]'.st = st, j # 0 => st = AllPending,
              Keeps(v, st)' \/ (j # 0 /\ loads[j]'.pc \notin {"recorded", "probe", "commit"})
       PROVE  LoadRecord(j)'
  BY <1>saved DEF LoadRecord, LoadKept, Keeps, SavedStatuses, Saved, VersionOf
\* The load, its version and its record are left alone.
<1>4. ASSUME loads[j]' = loads[j], VersionOf(j)' = VersionOf(j), Untouched(VersionOf(j))
      PROVE  LoadRecord(j)'
  <2>1. PICK v : v = VersionOf(j) OBVIOUS
  <2>2. PICK st : st = loads[j].st OBVIOUS
  <2>3. loads[j].pc # "idle" BY <1>4
  <2>4. Keeps(v, st) => Keeps(v, st)' BY <1>4, <2>1, KeepsKept
  <2>5. CASE j = 0
    <3>1. Keeps(v, st) BY <1>1, <1>2, <2>1, <2>2, <2>3, <2>5 DEF LoadRecord
    <3> QED BY <1>4, <1>saved, <2>1, <2>2, <2>4, <2>5, <3>1
  <2>6. CASE j # 0
    <3>1. /\ loads[j].pc \in {"recorded", "probe", "commit"} => Keeps(v, st)
          /\ st = AllPending
      BY <1>1, <2>1, <2>2, <2>3, <2>6 DEF LoadRecord, LoadKept
    <3> QED BY <1>4, <1>saved, <2>1, <2>2, <2>4, <2>6, <3>1
  <2> QED BY <2>5, <2>6
<1>5. ASSUME Settled PROVE loads' # loads BY <1>5 DEF Settled
<1>6. CASE UNCHANGED vars
  <2>1. UNCHANGED <<loads, records, marks, restore>> BY <1>6 DEF vars
  <2> QED BY <1>4, <2>1 DEF VersionOf, Untouched
<1>7. ASSUME NEW d \in Docs, AgentWrites(d) PROVE LoadRecord(j)'
  <2>1. Writing(d) /\ UNCHANGED <<records, marks>> BY <1>7, WritesCalm
  <2>2. CASE j = Len(written) + 1
    <3>1. loads'[j] = [NoLoad EXCEPT !.pc = "written", !.st = AllPending, !.content = <<j, {}>>]
          /\ j \in Versions /\ j # 0
      BY <2>1, <2>2, Values DEF Writing
    <3>2. loads'[j].pc = "written" /\ loads'[j].st = AllPending BY <3>1, EmptyRecords DEF Loads
    <3> QED BY <3>1, <3>2 DEF LoadRecord, LoadKept
  <2>3. CASE j # Len(written) + 1 BY <1>4, <2>1, <2>3 DEF Writing, Untouched
  <2> QED BY <2>2, <2>3
<1>8. ASSUME NEW e \in Docs, UserDeletes(e) PROVE LoadRecord(j)' BY <1>5, <1>8, DeletesCalm
<1>9. ASSUME NEW i \in Slots, Loading(i) PROVE LoadRecord(j)'
  <2>1. /\ LoadMoved(i)
        /\ i # 0 => restore.pc = "idle"
        /\ \A v \in Versions : v # i => Untouched(v)
        /\ UNCHANGED <<records, marks>> \/ i # 0
    BY <1>9, LoadsCalm, Values DEF RecordCreated, Step, Calm, AnyInv, LoadInv
  <2>2. CASE j # i
    <3>1. loads[j]' = loads[j] /\ VersionOf(j)' = VersionOf(j) BY <2>1, <2>2 DEF LoadMoved
    <3>2. VersionOf(j) # i \/ i = 0 BY <1>2, <1>3, <2>1, <2>2, <3>1
    <3>3. Untouched(VersionOf(j)) BY <1>3, <2>1, <3>1, <3>2 DEF Untouched
    <3> QED BY <1>4, <3>1, <3>3
  <2>3. CASE j = i
    <3>1. loads[j]' # NoLoad BY EmptyRecords
    <3>2. loads[j]'.st = loads[j].st /\ VersionOf(j)' = VersionOf(j) /\ loads[j].pc # "idle"
      BY <2>1, <2>3, <3>1 DEF LoadMoved
    <3>3. CASE j = 0
      <4>1. PICK v : v = VersionOf(j) OBVIOUS
      <4>2. PICK st : st = loads[j].st OBVIOUS
      <4>3. Keeps(v, st) BY <1>1, <1>2, <3>2, <3>3, <4>1, <4>2 DEF LoadRecord
      <4>4. Keeps(v, st)' BY <2>1, <2>3, <3>3, <4>3, KeepsKept DEF Untouched
      <4> QED BY <1>saved, <3>2, <3>3, <4>1, <4>2, <4>4
    <3>4. CASE j # 0
      <4>1. loads[j].st = AllPending /\ loads[j]'.st = AllPending BY <1>1, <3>2, <3>4 DEF LoadRecord
      <4>2. VersionOf(j)' = j /\ VersionOf(j) = j BY <3>2, <3>4 DEF VersionOf
      <4>3. SUFFICES ASSUME loads[j]'.pc \in {"recorded", "probe", "commit"}
                     PROVE  Keeps(j, AllPending)'
        BY <1>saved, <3>4, <4>1, <4>2
      <4>4. CASE CreateRecord(j)
        <5>1. records'[j] = [status |-> "pending", st |-> NoChanges] /\ marks'[j] = NoSnapshot
          BY <1>1, <3>4, <4>4 DEF CreateRecord, Calm, AnyInv, Types, DiskTypes
        <5> QED BY <5>1 DEF Keeps, SavedStatuses, Saved
      <4>5. ASSUME UNCHANGED <<records, marks>>, loads[j].pc \in {"recorded", "probe", "commit"}
            PROVE  Keeps(j, AllPending)'
        <5>1. Keeps(j, AllPending) BY <1>1, <3>4, <4>1, <4>2, <4>5 DEF LoadRecord, LoadKept
        <5> QED BY <4>5, <5>1, KeepsKept DEF Untouched
      <4>6. CASE RecordCreated(j)
        <5>1. loads[j].pc = "recorded" BY <4>6 DEF RecordCreated, Step
        <5>2. ~Superseded(j)
          <6>1. Superseded(j) => loads[j]' = NoLoad BY <1>1, <4>6 DEF RecordCreated, Finish
          <6> QED BY <3>1, <6>1
        <5>3. UNCHANGED <<records, marks>> BY <4>6, <5>2 DEF RecordCreated
        <5> QED BY <4>5, <5>1, <5>3
      <4>7. CASE Probe(j)
        <5>1. loads[j].pc = "probe" /\ UNCHANGED <<records, marks>> BY <4>7 DEF Probe, Step
        <5> QED BY <4>5, <5>1
      <4>8. CASE Previewed(j)
        <5>1. Advance(j, "record") BY <3>4, <4>8 DEF Previewed
        <5>2. loads[j]'.pc = "record" BY <1>1, <5>1 DEF Advance, Loads
        <5> QED BY <4>3, <5>2
      <4>9. CASE DiffArrives(j)
        <5>1. loads[j]'.pc = "yield" BY <4>9, StartingFacts DEF Starting, Calm, AnyInv
        <5> QED BY <4>3, <5>1
      <4>10. ~(GiveUp(j) \/ CancelDeleted(j) \/ LoadFails(j) \/ CloseStale(j))
        <5>1. Finish(j) => loads[j]' = NoLoad BY <1>1 DEF Finish
        <5> QED BY <1>9, <2>3, <3>1, <5>1, LoadsCalm DEF GiveUp, CancelDeleted, LoadFails
      <4> QED BY <1>9, <2>3, <4>4, <4>6, <4>7, <4>8, <4>9, <4>10 DEF Loading, LoadStep
    <3> QED BY <3>3, <3>4
  <2> QED BY <2>2, <2>3
<1>10. ASSUME NEW i \in Slots, Commit(i) PROVE LoadRecord(j)'
  <2>1. LoadMoved(i) /\ loads[i]'.pc = "idle" /\ UNCHANGED <<records, marks>>
    BY <1>10, CommitsCalm
  <2>2. j # i BY <2>1
  <2> QED BY <1>4, <2>1, <2>2 DEF LoadMoved, Untouched
<1>11. CASE Begins BY <1>5, <1>11, BeginsCalm
<1>12. CASE Looks
  <2>1. UNCHANGED <<disks, loads, restore>> BY <1>12, LooksFacts DEF Calm, AnyInv
  <2> QED BY <1>4, <2>1 DEF VersionOf, Untouched
<1>13. CASE ReviewDisk \/ Tying \/ ReviewRecords \/ AcceptLeaves
  <2>1. review.pc # "idle" /\ loads' = loads
    BY <1>13, TyingCalm DEF ReviewDisk, ReviewRecords, AcceptLeaves
  <2> QED BY <1>5, <2>1, WhoIsAtWork
<1>14. CASE Discard
  <2>1. UNCHANGED <<disks, loads, restore>> BY <1>14, DiscardsCalm
  <2> QED BY <1>4, <2>1 DEF VersionOf, Untouched
<1>15. CASE DiscardRecords
  <2>1. /\ deletion.pc = "records" /\ UNCHANGED <<written, loads, restore>>
        /\ \A v \in Versions : v \notin PendingRecords(deletion.doc) => Untouched(v)
    BY <1>15, DiscardRecordsCalm
  <2>2. j = 0 /\ DocOf(j) # deletion.doc BY <1>1, <1>3, <2>1 DEF FreshPart
  <2>3. VersionOf(j) \notin PendingRecords(deletion.doc) BY <1>3, <2>1, <2>2 DEF PendingRecords
  <2>4. VersionOf(j)' = VersionOf(j) BY <2>1 DEF VersionOf
  <2> QED BY <1>3, <1>4, <2>1, <2>3, <2>4
<1>16. CASE Restoring BY <1>5, <1>16, RestoringCalm
<1>17. ASSUME NEW v \in restore.todo, RestoreStarts(v) PROVE LoadRecord(j)'
  <2>1. /\ v \in Versions /\ UNCHANGED disks /\ restore'.ver = v
        /\ \A k \in Versions : loads[k]'.pc = "idle"
        /\ loads[0]'.st = SavedStatuses(v) /\ records[v].status = "pending"
    BY <1>17, StartsCalm
  <2>2. j = 0 BY <1>1, <2>1
  <2>3. PICK st : st = SavedStatuses(v) OBVIOUS
  <2>4. Keeps(v, st)' BY <2>1, <2>3, KeepsKept DEF Keeps, Untouched
  <2>5. VersionOf(j)' = v BY <2>1, <2>2 DEF VersionOf
  <2> QED BY <1>saved, <2>1, <2>2, <2>3, <2>4, <2>5
<1>18. CASE Restart BY <1>18, RestartCalm
<1>19. CASE Project
  <2>1. UNCHANGED loads /\ loads[j].pc = "idle" BY <1>19, ProjectCalm
  <2> QED BY <2>1
<1> QED
  BY <1>6, <1>7, <1>8, <1>9, <1>10, <1>11, <1>12, <1>13, <1>14, <1>15, <1>16, <1>17, <1>18,
     <1>19, CalmSteps

\* What is to be projected is what its record and its snapshot have.
LEMMA PlanKeptStep ==
    ASSUME Calm, KeptInv, [Next]_vars
    PROVE  PlanKept'
<1> SUFFICES ASSUME restore'.plan # NoEntry, HasPending(restore'.plan.st) PROVE PlanKept'
  BY DEF PlanKept, HasPending
\* The version planned has its record, with the statuses planned.
<1>1. ASSUME NEW p, NEW st, restore'.plan.ver = p, restore'.plan.st = st,
             records'[p].status = "pending", restore'.plan.whole \/ SavedStatuses(p)' = st
      PROVE  PlanKept'
  BY <1>1 DEF PlanKept, SavedStatuses, Saved
<1>2. restore.plan # NoEntry =>
        /\ restore.pc = "next" /\ restore.plan.ver \in 1 .. Len(written)
        /\ restore.plan.ver \in Versions /\ review.pc = "idle" /\ ~Settled
        /\ deletion.pc = "idle" \/ deletion.doc # written[restore.plan.ver]
  BY WrittenVersions DEF Calm, AnyInv, PlanInv, Begun, QuietInv, PlanPart, Settled
\* The plan stands, and its record is left alone.
<1>3. ASSUME restore'.plan = restore.plan, Untouched(restore.plan.ver)
      PROVE  PlanKept'
  <2>1. PICK p : p = restore.plan.ver OBVIOUS
  <2>2. PICK st : st = restore.plan.st OBVIOUS
  <2>3. records[p].status = "pending" /\ (restore.plan.whole \/ SavedStatuses(p) = st)
    BY <1>3, <2>1, <2>2 DEF KeptInv, PlanKept
  <2>4. records'[p] = records[p] /\ SavedStatuses(p)' = SavedStatuses(p)
    BY <1>3, <2>1, SavedKept DEF Untouched
  <2> QED BY <1>1, <1>3, <2>1, <2>2, <2>3, <2>4
<1>4. CASE UNCHANGED vars BY <1>3, <1>4 DEF vars, Untouched
<1>5. ASSUME NEW e \in Docs, AgentWrites(e) PROVE PlanKept' BY <1>2, <1>5, WritesCalm
<1>6. ASSUME NEW e \in Docs, UserDeletes(e) PROVE PlanKept' BY <1>2, <1>6, DeletesCalm
<1>7. ASSUME NEW i \in Slots, Loading(i) PROVE PlanKept'
  <2>1. /\ restore'.plan = restore.plan /\ (i # 0 => restore.pc = "idle")
        /\ UNCHANGED <<records, marks>> \/ i # 0
    BY <1>7, LoadsCalm, Values DEF LoadMoved, RecordCreated, Step, Calm, AnyInv, LoadInv
  <2> QED BY <1>2, <1>3, <2>1 DEF Untouched
<1>8. ASSUME NEW i \in Slots, Commit(i) PROVE PlanKept'
  <2>1. restore'.plan = restore.plan /\ UNCHANGED <<records, marks>>
    BY <1>8, CommitsCalm DEF LoadMoved
  <2> QED BY <1>3, <2>1 DEF Untouched
<1>9. CASE Begins BY <1>2, <1>9, BeginsCalm
<1>10. CASE Looks
  <2>1. UNCHANGED <<disks, restore>> BY <1>10, LooksFacts DEF Calm, AnyInv
  <2> QED BY <1>3, <2>1 DEF Untouched
<1>11. CASE ReviewDisk \/ Tying \/ ReviewRecords \/ AcceptLeaves
  <2>1. review.pc # "idle" /\ restore' = restore
    BY <1>11, TyingCalm DEF ReviewDisk, ReviewRecords, AcceptLeaves
  <2> QED BY <1>2, <2>1
<1>12. CASE Discard
  <2>1. UNCHANGED <<disks, restore>> BY <1>12, DiscardsCalm
  <2> QED BY <1>3, <2>1 DEF Untouched
<1>13. CASE DiscardRecords
  <2>1. /\ restore' = restore /\ deletion.pc = "records"
        /\ \A v \in Versions : v \notin PendingRecords(deletion.doc) => Untouched(v)
    BY <1>13, DiscardRecordsCalm
  <2>2. restore.plan.ver \in Versions /\ restore.plan.ver \notin PendingRecords(deletion.doc)
    BY <1>2, <2>1 DEF PendingRecords
  <2> QED BY <1>3, <2>1, <2>2
<1>14. CASE Restoring BY <1>14, RestoringCalm
<1>15. CASE Restart BY <1>15, RestartCalm
<1>16. CASE Project BY <1>16, ProjectCalm
<1>17. ASSUME NEW v \in restore.todo, RestoreStarts(v) PROVE PlanKept'
  <2>1. /\ v \in 1 .. Len(written) /\ UNCHANGED disks /\ restore'.plan = Projection(v)
        /\ records[v].status = "pending"
    BY <1>17, StartsCalm
  <2>2. marks[v] # NoSnapshot BY <2>1 DEF Projection
  <2>3. CASE restore'.plan = FromSnapshots(v, marks[v])
    <3>1. restore'.plan.ver = v /\ restore'.plan.whole BY <2>3 DEF FromSnapshots
    <3> QED BY <1>1, <2>1, <3>1
  <2>4. CASE /\ restore'.plan = FromSource(marks[v])
             /\ marks[v].content[1] \in PendingRecords(written[v])
    <3>1. PICK p \in PendingRecords(written[v]) : p = marks[v].content[1] BY <2>4
    <3>2. PICK st : st = marks[v].st OBVIOUS
    <3>3. restore'.plan.ver = p /\ restore'.plan.st = st
      BY <2>4, <3>1, <3>2 DEF FromSource, NoEntry
    <3>4. p <= v BY DEF Calm, QuietInv, RestorePart
    <3>5. v \in PendingRecords(written[v]) BY <2>1 DEF PendingRecords
    <3>6. marks[p] = marks[v] BY <2>1, <2>2, <3>4, <3>5 DEF Calm, MarksInv, MarksAgree
    <3>7. st # NoChanges BY <3>3, NothingPending
    <3>8. SavedStatuses(p)' = st BY <2>1, <2>2, <3>2, <3>6, <3>7 DEF SavedStatuses, Saved
    <3>9. records'[p].status = "pending" BY <2>1 DEF PendingRecords
    <3> QED BY <1>1, <3>3, <3>8, <3>9
  <2> QED BY <2>1, <2>2, <2>3, <2>4 DEF Projection
<1> QED
  BY <1>4, <1>5, <1>6, <1>7, <1>8, <1>9, <1>10, <1>11, <1>12, <1>13, <1>14, <1>15, <1>16, <1>17,
     CalmSteps

\* What is shown, and what is about to be, has its record.
LEMMA KeptStep ==
    ASSUME Calm, KeptInv, [Next]_vars
    PROVE  KeptInv'
<1>1. \A d \in Docs : KeptPart(d)' BY KeptPartStep
<1>2. \A i \in Slots : LoadRecord(i)' BY LoadRecordStep
<1>3. \A i \in Versions : i \in Slots /\ i # 0 BY Values
<1>4. \A i \in Slots \ {0} : LoadKept(i)' BY <1>2 DEF LoadRecord
<1>5. loads[0]'.pc # "idle" => Keeps(restore.ver, loads[0].st)'
  BY <1>2, Values DEF LoadRecord
<1>6. LoadKept(0)' BY <1>5 DEF LoadKept, VersionOf, Keeps, SavedStatuses, Saved
<1>7. \A i \in Versions : loads[i]'.pc # "idle" => loads[i]'.st = AllPending
  BY <1>2, <1>3 DEF LoadRecord
<1>8. PlanKept' BY PlanKeptStep
<1> QED BY <1>1, <1>4, <1>5, <1>6, <1>7, <1>8 DEF KeptInv

\* A decision that was made stands when the diff shown stays of the same version and kind.
DecisionStands ==
    \A d \in Docs, m \in Mods :
      restarts' = restarts /\ Shown(d).ver = Shown(d)'.ver /\ Shown(d).whole = Shown(d)'.whole
          /\ Shown(d).st[m] \in {"applied", "rejected"}
        => Shown(d)'.st[m] = Shown(d).st[m]

\* No step takes back a decision.
LEMMA DecisionsStep ==
    ASSUME Calm, [Next]_vars
    PROVE  DecisionStands
<1> SUFFICES ASSUME NEW d \in Docs, NEW m \in Mods, restarts' = restarts,
                    Shown(d).ver = Shown(d)'.ver, Shown(d).whole = Shown(d)'.whole,
                    Shown(d).st[m] \in {"applied", "rejected"}
             PROVE  Shown(d)'.st[m] = Shown(d).st[m]
  BY DEF DecisionStands
<1>1. SameShown => Shown(d)' = Shown(d) BY DEF SameShown
<1>2. CASE UNCHANGED vars BY <1>2 DEF vars, Shown
<1>3. ASSUME NEW e \in Docs, AgentWrites(e) \/ UserDeletes(e) PROVE Shown(d)'.st[m] = Shown(d).st[m]
  BY <1>1, <1>3, WritesCalm, DeletesCalm
<1>4. ASSUME NEW i \in Slots, Loading(i) PROVE Shown(d)'.st[m] = Shown(d).st[m]
  BY <1>1, <1>4, LoadsCalm
<1>5. ASSUME NEW i \in Slots, Commit(i) PROVE Shown(d)'.st[m] = Shown(d).st[m]
  <2>1. /\ Shown(DocOf(i)).ver # VersionOf(i)
        /\ d = DocOf(i) => Shown(d)'.ver = VersionOf(i)
        /\ d # DocOf(i) => Shown(d)' = Shown(d)
    BY <1>5, CommitsCalm
  <2> QED BY <2>1
<1>6. CASE Begins BY <1>6, BeginsCalm
<1>7. CASE Looks BY <1>7, LooksFacts DEF Calm, AnyInv
<1>8. CASE ReviewDisk BY <1>8, ReviewDiskFacts DEF Calm, AnyInv
<1>9. CASE ReviewRecords BY <1>1, <1>9, ReviewRecordsCalm
<1>10. CASE AcceptLeaves BY <1>10, AcceptLeavesCalm
<1>11. CASE Discard
  <2>1. Discarded BY <1>11, DiscardsCalm
  <2>2. Shown(d)' = Shown(d) BY <2>1, EmptyRecords, PanelFitting DEF Discarded, Calm, AnyInv
  <2> QED BY <2>2
<1>12. CASE DiscardRecords BY <1>1, <1>12, DiscardRecordsCalm
<1>13. CASE Restoring BY <1>1, <1>13, RestoringCalm
<1>14. ASSUME NEW v \in restore.todo, RestoreStarts(v) PROVE Shown(d)'.st[m] = Shown(d).st[m]
  BY <1>1, <1>14, StartsCalm
<1>15. ~Restart
  <2>1. restarts \in Nat BY DEF Calm, AnyInv, Types, CounterTypes
  <2>2. Restart => restarts' = restarts + 1 BY DEF Restart
  <2> QED BY <2>1, <2>2
<1>16. CASE Tying BY <1>1, <1>16, TyingCalm
<1>17. CASE Project
  <2>1. /\ restore.plan # NoEntry /\ restore.ver = 0
        /\ SameShown \/ Projected
        /\ Projected /\ d # active => Shown(d)' = Shown(d)
        /\ Projected /\ d = active =>
             /\ d = written[restore.plan.ver] /\ Shown(d).ver # 0
             /\ Shown(d)'.ver = restore.plan.ver /\ Shown(d)'.st = restore.plan.st
             /\ Shown(d)'.whole = restore.plan.whole
    BY <1>17, ProjectCalm
  <2>2. CASE Projected /\ d = active
    <3>1. ~Shown(d).whole /\ Agrees(Shown(d))
      BY <2>1, <2>2 DEF Calm, QuietInv, PlanPart
    <3> QED BY <2>1, <2>2, <3>1 DEF Agrees
  <2>3. CASE ~(Projected /\ d = active) BY <1>1, <2>1, <2>3
  <2> QED BY <2>2, <2>3
<1> QED
  BY <1>2, <1>3, <1>4, <1>5, <1>6, <1>7, <1>8, <1>9, <1>10, <1>11, <1>12, <1>13, <1>14, <1>15,
     <1>16, <1>17, CalmSteps

\* The calm part holds at first.
LEMMA CalmInvInit ==
    ASSUME Init
    PROVE  CalmInv
<1>1. /\ \A i \in Slots : loads[i].pc = "idle"
      /\ review.pc = "idle" /\ deletion.pc = "idle" /\ restore.pc = "idle" /\ restore.todo = {}
      /\ restore.plan = NoEntry /\ written = <<>>
  BY EmptyRecords DEF Init, NoRestore
<1>2. \A d \in Docs : Shown(d) = NoEntry /\ disk[d] # Missing BY Values DEF Init, Shown
<1>3. QuietInv
  BY <1>1, <1>2 DEF QuietInv, FreshPart, TidyPart, DeletionPart, RestorePart, ReviewPart,
     PlanPart
<1>4. LostInv
  <2>1. written = <<>> /\ Len(<<>>) = 0 BY <1>1
  <2> QED BY <2>1 DEF LostInv
<1>5. KeptInv
  <2>1. \A d \in Docs : ~HasPending(Shown(d).st) BY <1>2, EmptyRecords, NothingPending
  <2> QED BY <1>1, <2>1, Values DEF KeptInv, KeptPart, LoadKept, PlanKept
<1>6. MarksInv
  <2>1. 1 .. Len(written) = {} BY <1>1
  <2>2. \A i \in Versions : i \in Slots BY Values
  <2> QED BY <1>1, <2>1, <2>2 DEF MarksInv, LoadUnmarked, ReviewMarks
<1>7. WholeInv BY <1>1, <1>2 DEF WholeInv, NoEntry
<1> QED BY <1>3, <1>4, <1>5, <1>6, <1>7 DEF CalmInv

\* Every step keeps the calm part.
LEMMA CalmInvStep ==
    ASSUME Inv, [Next]_vars
    PROVE  CalmInv'
<1> SUFFICES ASSUME calm PROVE QuietInv' /\ LostInv' /\ KeptInv' /\ MarksInv' /\ WholeInv'
  BY CalmKept DEF CalmInv
<1>1. Calm /\ LostInv /\ KeptInv BY DEF Inv, CalmInv, Calm
<1> QED BY <1>1, QuietStep, LostStep, KeptStep, MarksStep, WholeStep

\* Inv holds in every session, its second part in the calm ones.
THEOREM CalmInvariant == Spec => []Inv
<1>1. Init => Inv BY AnyInvInit, CalmInvInit DEF Inv
<1>2. Inv /\ [Next]_vars => Inv'
  <2>1. Inv /\ [Next]_vars => AnyInv' BY AnyInvStep DEF Inv
  <2>2. Inv /\ [Next]_vars => CalmInv' BY CalmInvStep
  <2>3. AnyInv' /\ CalmInv' => Inv' BY DEF Inv
  <2> QED BY <2>1, <2>2, <2>3
<1> QED BY <1>1, <1>2, PTL DEF Spec

\* NoDiffIsLost: once a calm session is quiet, the panel has the newest version of every file that
\* was written in it and not deleted since.
THEOREM NewestIsShown == Spec => []NoDiffIsLost
<1>1. ASSUME Inv PROVE NoDiffIsLost
  <2> SUFFICES ASSUME Quiet, calm, NEW d \in Docs, NewVersions(d) # {}
               PROVE  Shown(d).ver = Latest(NewVersions(d))
    BY DEF NoDiffIsLost
  <2>1. Len(written) \in Nat /\ NewVersions(d) \in SUBSET (1 .. Len(written))
    BY <1>1 DEF Inv, AnyInv, Types, DiskTypes, NewVersions
  <2>2. PICK n : n = Latest(NewVersions(d)) OBVIOUS
  <2>3. n \in NewVersions(d) /\ \A w \in NewVersions(d) : w <= n BY <2>1, <2>2, LatestFacts
  <2>4. n \in 1 .. Len(written) /\ written[n] = d /\ n > session /\ n > handledAt[d]
    BY <2>3 DEF NewVersions
  <2>5. session \in Nat /\ handledAt[d] \in Nat
    <3>1. session \in 0 .. Len(written) /\ handledAt[d] \in Slots
      BY <1>1 DEF Inv, AnyInv, Types, CounterTypes
    <3>2. Slots \subseteq Nat BY Values
    <3>3. \A k \in 0 .. Len(written) : k \in Nat BY <2>1
    <3> QED BY <3>1, <3>2, <3>3
  <2>6. Newest(n)
    <3> SUFFICES ASSUME NEW w \in n + 1 .. Len(written), written[w] = d PROVE FALSE
      BY <2>4 DEF Newest
    <3>1. w \in NewVersions(d) BY <2>1, <2>4, <2>5 DEF NewVersions
    <3>2. w <= n BY <2>3, <3>1
    <3> QED BY <2>1, <2>4, <3>2
  <2>7. Shown(d).ver = n \/ Coming(n) BY <1>1, <2>4, <2>6 DEF Inv, CalmInv, LostInv
  <2>8. ~Coming(n)
    <3>1. n \in Slots BY <1>1, <2>4, WrittenVersions DEF Inv, AnyInv
    <3> QED BY <3>1 DEF Coming, Underway, Quiet, Settled
  <2> QED BY <2>2, <2>7, <2>8
<1> QED BY <1>1, CalmInvariant, PTL

\* CrashKeepsReview: once a calm session is quiet, a review that is not finished has a pending
\* record, and the record or the snapshot it is tied to has the decisions made so far, unless the
\* diff shown is a whole-file one that a restart made up from snapshots.
THEOREM ReviewSurvives == Spec => []CrashKeepsReview
<1>1. ASSUME Inv PROVE CrashKeepsReview
  <2> SUFFICES ASSUME Quiet, calm, NEW d \in Docs, HasPending(Shown(d).st)
               PROVE  /\ records[Shown(d).ver].status = "pending"
                      /\ Shown(d).whole \/ SavedStatuses(Shown(d).ver) = Shown(d).st
    BY DEF CrashKeepsReview
  <2>1. ~Deciding(d) BY DEF Quiet, Deciding
  <2> QED BY <1>1, <2>1 DEF Inv, CalmInv, KeptInv, KeptPart
<1> QED BY <1>1, CalmInvariant, PTL

\* DecisionsStand: in a calm session, what was accepted or rejected is not up for review again as
\* long as the same diff of the same version is shown: the projection of a restart either has the
\* decisions made so far or is a diff of the other kind.
THEOREM DecidedStaysDecided == Spec /\ calm => DecisionsStand
<1>1. Inv /\ calm /\ [Next]_vars => [DecisionStands]_vars BY DecisionsStep DEF Inv, CalmInv, Calm
<1>2. calm /\ [Next]_vars => calm' BY CalmKept
<1>3. Spec /\ calm => []calm BY <1>2, PTL DEF Spec
<1>4. Spec /\ calm => [][DecisionStands]_vars BY <1>1, <1>3, CalmInvariant, PTL DEF Spec
<1>5. DecisionsStand <=> [][DecisionStands]_vars BY PTL DEF DecisionsStand, DecisionStands
<1> QED BY <1>4, <1>5, PTL

===============================================================================
