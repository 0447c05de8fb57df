----------------------------- MODULE DiffReview -----------------------------
(***************************************************************************)
(* The review of file changes: one context of stores/diffStore.ts, the      *)
(* files the agent writes, and the diff_records that bring an unfinished     *)
(* review back after a restart.                                              *)
(*                                                                           *)
(* The agent writes version v of a file and hands it to loadModifications.   *)
(* A load awaits its way to the panel: it yields and previews the changes,    *)
(* takes snapshots, creates a diff_record, probes the other files, and only  *)
(* then makes the file the active one.  Newer loads of the same file, the    *)
(* deletion of the file, the user's decisions and a restart happen in        *)
(* between; a generation per file is what tells a load that it is stale.     *)
(*                                                                           *)
(* A decision is kept in two places: in the diff_record, and in a snapshot   *)
(* of the text it left, which the record is tied to.  A restart loads the    *)
(* record and then projects the file on that snapshot: the diff shown is     *)
(* that of the record which wrote the snapshot's text or, if there is none   *)
(* (a change was rejected), the whole file against the snapshot before.      *)
(*                                                                           *)
(* Abstracted: a file's text is <<v, r>>, version v with the changes in r    *)
(* taken back (<<0, {}>> is the text before the agent touched the file, the  *)
(* base every write of one dispatch is compared with); the one change of a   *)
(* whole-file diff is all of Mods, decided together; of a file's snapshots    *)
(* only the newest and those a record is tied to are kept, none is deleted,  *)
(* and the calls to the database succeed; undo, redo and rollback, which     *)
(* ties the record to the snapshot it goes back to, are module DiffHistory's. *)
(***************************************************************************)
EXTENDS Naturals, Sequences, FiniteSets

CONSTANTS
    Docs,        \* the files of the workspace (documentId)
    NoDoc,       \* documentId = null
    Mods,        \* the changes the preview of a version consists of
    MaxWrites,   \* bound: versions the agent writes
    MaxFaults,   \* bound: files the user deletes and restarts of the app, together
    Sessions     \* whether calm sessions (below) are looked at, others, or both

ASSUME DiffReviewAssumption ==
    /\ Docs # {} /\ NoDoc \notin Docs
    /\ Mods # {} /\ IsFiniteSet(Mods)
    /\ MaxWrites \in Nat /\ MaxFaults \in Nat
    /\ Sessions \subseteq BOOLEAN

VARIABLES
    disk,      \* per file, its text on disk, or Missing
    written,   \* the versions, in order: the file each one was written to
    records,   \* per version, its diff_record: status and persisted statuses
    newest,    \* per file, its newest snapshot, or NoSnapshot
    marks,     \* per version, the snapshot of its record (active_snapshot_id), or NoSnapshot
    active,    \* documentId = activeFileId of the context
    top,       \* the top-level fields: version, content, base, statuses
    entries,   \* fileEntries: per file, the fields saved for it, or NoEntry
    mode,      \* "normal" | "diff"
    isLoading,
    gen,       \* loadModificationsGeneration
    activeGen, \* activeModificationLoadGenerations, 0 if none
    deleted,   \* deletedPathMarkers
    loads,     \* per version (0: the restored one), the load in progress
    review,    \* the tail of a decision: what is awaited after the first set
    deletion,  \* discardDiffsForDeletedPath in progress
    restore,   \* loadPersistedDiffs in progress
    deletes, restarts, \* counters of the bounds
    goneAt,    \* history: per file, the last version before it was deleted from disk
    handledAt, \* history: per file, the last version before that deletion was handled
    session,   \* history: the last version before the last start of the app
    calm       \* whether the session is calm (below)

snapshots == <<newest, marks>>
disks == <<disk, written, records, snapshots>>
panel == <<active, top, entries, mode, isLoading>>
generations == <<gen, activeGen, deleted>>
counters == <<deletes, restarts, goneAt, handledAt, session, calm>>
vars == <<disks, panel, generations, loads, review, deletion, restore, counters>>

-----------------------------------------------------------------------------
Versions == 1 .. MaxWrites
Slots == 0 .. MaxWrites
Texts == Slots \X SUBSET Mods
Original == <<0, {}>>
Missing == <<0, Mods>>
Statuses == {"none", "pending", "applied", "rejected"}
NoChanges == [m \in Mods |-> "none"]
AllPending == [m \in Mods |-> "pending"]
\* What the panel holds of a file: content and originalContent (base) with the statuses of the
\* changes between them, those the agent made or, if whole, the projection on a snapshot.
NoEntry == [ver |-> 0, content |-> Original, base |-> Original, st |-> NoChanges, whole |-> FALSE]
\* A snapshot: its text and statuses, and the text of the file's snapshot before it.
NoSnapshot == [content |-> Missing, base |-> Missing, st |-> NoChanges]
NoRecord == [status |-> "none", st |-> NoChanges]
NoLoad == [pc |-> "idle", gen |-> 0, stale |-> {}, st |-> NoChanges, content |-> Original]
NoReview == [pc |-> "idle", op |-> "none", doc |-> NoDoc, content |-> Original, st |-> NoChanges]
NoDeletion == [pc |-> "idle", doc |-> NoDoc, upTo |-> 0, before |-> {}]
NoRestore == [pc |-> "idle", todo |-> {}, ver |-> 0, gen |-> 0, plan |-> NoEntry]

\* rebuildContentByDiff: the text of version v when the changes in r are taken back.
Rebuild(base, v, r) == IF r = Mods THEN base ELSE <<v, r>>
Rejected(st) == {m \in Mods : st[m] = "rejected"}
HasPending(st) == \E m \in Mods : st[m] = "pending"
SomeReviewed(st) == \E m \in Mods : st[m] # "pending"
Reviewed(st) == \A m \in Mods : st[m] # "pending"

\* The file a load is for: a version's own, or the one being restored in slot 0.
VersionOf(i) == IF i = 0 THEN restore.ver ELSE i
DocOf(i) == written[VersionOf(i)]

\* extractFileDiffEntry: the active file's latest fields live at top level.
Shown(d) == IF d = active THEN top ELSE entries[d]
ActiveNotSaved == entries
WithActive == [d \in Docs |-> Shown(d)]
PendingElsewhere(es, d) == {e \in Docs \ {d} : HasPending(es[e].st)}

\* applyFileDiffEntry
Activate(es, d) == active' = d /\ top' = es[d] /\ entries' = es

\* hasActiveModificationLoadForContext, not counting the load of d
OtherLoads(d) == \E e \in Docs \ {d} : activeGen[e] # 0

PendingRecords(d) == {v \in 1 .. Len(written) : written[v] = d /\ records[v].status = "pending"}
Latest(S) == CHOOSE v \in S : \A w \in S : w <= v
Close(S, status) == [v \in Versions |-> IF v \in S THEN [records[v] EXCEPT !.status = status]
                                                   ELSE records[v]]

Init ==
    /\ disk = [d \in Docs |-> Original]
    /\ written = <<>>
    /\ records = [v \in Versions |-> NoRecord]
    /\ newest = [d \in Docs |-> NoSnapshot] /\ marks = [v \in Versions |-> NoSnapshot]
    /\ active = NoDoc /\ top = NoEntry /\ entries = [d \in Docs |-> NoEntry]
    /\ mode = "normal" /\ isLoading = FALSE
    /\ gen = [d \in Docs |-> 0] /\ activeGen = [d \in Docs |-> 0] /\ deleted = {}
    /\ loads = [i \in Slots |-> NoLoad]
    /\ review = NoReview /\ deletion = NoDeletion /\ restore = NoRestore
    /\ deletes = 0 /\ restarts = 0 /\ session = 0
    /\ goneAt = [d \in Docs |-> 0] /\ handledAt = [d \in Docs |-> 0]
    /\ calm \in Sessions

\* In a calm session the agent writes nothing before a restore or a deletion is over, no preview
\* fails, the user decides and deletes in a panel that has settled, the IPC calls of a decision
\* return before anything else happens, and the switch back to diff mode is not used to get to
\* another file.
Free == calm => review.pc = "idle"

-----------------------------------------------------------------------------
(* Loads *)

\* loadModifications up to its first await, in slot i for file d
StartLoad(i, d, load) ==
    /\ gen' = [gen EXCEPT ![d] = @ + 1]
    /\ activeGen' = [activeGen EXCEPT ![d] = gen[d] + 1]
    /\ loads' = [loads EXCEPT ![i] = [load EXCEPT !.pc = "yield", !.gen = gen[d] + 1]]
    /\ isLoading' = TRUE

\* file_write writes the file; its diff reaches the store by a callback, later.
AgentWrites(d) ==
    /\ Free /\ Len(written) < MaxWrites /\ (calm => restore.pc = "idle" /\ deletion.pc = "idle")
    /\ LET v == Len(written) + 1 IN
       /\ written' = Append(written, d)
       /\ disk' = [disk EXCEPT ![d] = <<v, {}>>]
       /\ loads' = [loads EXCEPT ![v] = [NoLoad EXCEPT !.pc = "written", !.st = AllPending,
                                                       !.content = <<v, {}>>]]
    /\ UNCHANGED <<records, snapshots, panel, generations, review, deletion, restore, counters>>

\* onDiffData, for one file in the order of its writes
DiffArrives(v) ==
    /\ Free /\ v # 0 /\ loads[v].pc = "written"
    /\ \A w \in 1 .. v - 1 : written[w] = written[v] => loads[w].pc # "written"
    /\ StartLoad(v, written[v], loads[v])
    /\ UNCHANGED <<disks, active, top, entries, mode, deleted, review, deletion, restore, counters>>

NeverStale(i) == FALSE
Superseded(i) == gen[DocOf(i)] # loads[i].gen

\* A load that is over: the finally block withdraws its own generation only.
Finish(i) ==
    /\ loads' = [loads EXCEPT ![i] = NoLoad]
    /\ activeGen' = IF activeGen[DocOf(i)] = loads[i].gen
                    THEN [activeGen EXCEPT ![DocOf(i)] = 0] ELSE activeGen
    /\ restore' = IF i = 0 THEN [restore EXCEPT !.ver = 0] ELSE restore

Step(i, from) == Free /\ loads[i].pc = from
Advance(i, to) == loads' = [loads EXCEPT ![i].pc = to]

\* A stale load returns without touching the panel.
GiveUp(i) ==
    /\ \E pc \in {"yield", "probe", "commit"} : Step(i, pc)
    /\ Superseded(i)
    /\ Finish(i)
    /\ UNCHANGED <<disks, panel, gen, deleted, review, deletion, counters>>

\* The path was deleted: the file on disk decides whether the load still means anything.
SurvivesDeletion(i) == i # 0 /\ disk[DocOf(i)] = loads[i].content

\* createSnapshot; the first one of a file comes after that of the original text.
TakeSnapshot(d, content, st) ==
    newest' = [newest EXCEPT ![d] =
        [content |-> content, base |-> IF @ = NoSnapshot THEN Original ELSE @.content, st |-> st]]

\* The changes are previewed, the snapshots taken, the creation of the record is on its way; a load
\* that restores creates none of these.
Previewed(i) ==
    /\ Step(i, "yield") /\ ~Superseded(i)
    /\ DocOf(i) \in deleted => SurvivesDeletion(i)
    /\ \/ i = 0 /\ Advance(i, "commit") /\ UNCHANGED newest
       \/ i # 0 /\ Advance(i, "record") /\ TakeSnapshot(DocOf(i), loads[i].content, AllPending)
    /\ UNCHANGED <<disk, written, records, marks, panel, generations, review, deletion, restore,
                   counters>>

\* settleCancelledLoad
CancelDeleted(i) ==
    /\ Step(i, "yield") /\ ~Superseded(i)
    /\ DocOf(i) \in deleted /\ ~SurvivesDeletion(i)
    /\ Finish(i)
    /\ isLoading' = OtherLoads(DocOf(i))
    /\ UNCHANGED <<disks, active, top, entries, mode, gen, deleted, review, deletion, counters>>

\* The preview throws: only a load that is still the newest takes the spinner down.
LoadFails(i) ==
    /\ ~calm /\ Step(i, "yield")
    /\ Finish(i)
    /\ isLoading' = IF Superseded(i) THEN isLoading ELSE OtherLoads(DocOf(i))
    /\ UNCHANGED <<disks, active, top, entries, mode, gen, deleted, review, deletion, counters>>

\* diff_record_create is carried out.
CreateRecord(i) ==
    /\ Step(i, "record")
    /\ records' = [records EXCEPT ![i] = [status |-> "pending", st |-> NoChanges]]
    /\ marks' = [marks EXCEPT ![i] = NoSnapshot]
    /\ Advance(i, "recorded")
    /\ UNCHANGED <<disk, written, newest, panel, generations, review, deletion, restore, counters>>

\* A load that became stale while its record was created closes the record.
Withdraw(i) == Close({i}, "reverted")

RecordCreated(i) ==
    /\ Step(i, "recorded")
    /\ IF Superseded(i)
       THEN Finish(i) /\ records' = Withdraw(i)
       ELSE Advance(i, "probe") /\ UNCHANGED <<records, activeGen, restore>>
    /\ UNCHANGED <<disk, written, snapshots, panel, gen, deleted, review, deletion, counters>>

\* Entries of other files whose file is no longer there.
AllOthers(i) == {d \in Docs \ {DocOf(i)} : entries[d] # NoEntry}
StaleEntries(i) == {d \in Docs \ {DocOf(i)} : entries[d] # NoEntry /\ disk[d] = Missing}

\* They will be dropped by the commit.
Probe(i) ==
    /\ Step(i, "probe") /\ ~Superseded(i)
    /\ loads' = [loads EXCEPT ![i].pc = IF StaleEntries(i) = {} THEN "commit" ELSE "clean",
                              ![i].stale = StaleEntries(i)]
    /\ UNCHANGED <<disks, panel, generations, review, deletion, restore, counters>>

\* Their records are closed, whether or not the load is stale by now.
CloseStale(i) ==
    /\ Step(i, "clean")
    /\ records' = Close(UNION {PendingRecords(d) : d \in loads[i].stale}, "reverted")
    /\ Advance(i, "commit")
    /\ UNCHANGED <<disk, written, snapshots, panel, generations, review, deletion, restore,
                   counters>>

\* The load becomes what the panel shows.
Commit(i) ==
    /\ Step(i, "commit") /\ ~Superseded(i)
    /\ LET d == DocOf(i)
           entry == [NoEntry EXCEPT !.ver = VersionOf(i), !.content = loads[i].content,
                                    !.st = loads[i].st]
           es == [e \in Docs |-> IF e = d THEN entry
                                 ELSE IF e \in loads[i].stale THEN NoEntry ELSE Shown(e)]
       IN Activate(es, d)
    /\ mode' = "diff"
    /\ isLoading' = OtherLoads(DocOf(i))
    /\ Finish(i)
    /\ UNCHANGED <<disks, gen, deleted, review, deletion, counters>>

-----------------------------------------------------------------------------
(* Decisions of the user *)

Settled == (\A i \in Slots : loads[i].pc = "idle") /\ restore.plan = NoEntry

\* The buttons of the viewer: shown in diff mode, the two for all changes not while loading.
CanReview ==
    /\ mode = "diff" /\ review.pc = "idle" /\ active # NoDoc
    /\ calm => Settled

Rest(op, st, content) == [pc |-> "disk", op |-> op, doc |-> active, content |-> content, st |-> st]

\* The statuses when change m is decided, in a whole-file diff with all the others.
Decided(m, status) ==
    [n \in Mods |-> IF n = m \/ top.whole THEN status ELSE top.st[n]]

Accept(m) ==
    /\ CanReview /\ top.st[m] = "pending"
    /\ LET st == Decided(m, "applied") IN
       /\ top' = [top EXCEPT !.st = st]
       /\ review' = Rest("accept", st, top.content)
    /\ UNCHANGED <<disks, active, entries, mode, isLoading, generations, loads, deletion,
                   restore, counters>>

\* Every change has a match, so the rebuild is done without leaving the task.
Reject(m) ==
    /\ CanReview /\ top.st[m] = "pending"
    /\ LET st == Decided(m, "rejected")
           content == Rebuild(top.base, top.ver, Rejected(st)) IN
       /\ top' = [top EXCEPT !.st = st, !.content = content]
       /\ review' = Rest("reject", st, content)
    /\ UNCHANGED <<disks, active, entries, mode, isLoading, generations, loads, deletion,
                   restore, counters>>

\* The next file with something left to review, or back to normal mode.
MoveOn(es, st, content) ==
    \/ \E d \in PendingElsewhere(es, active) : Activate(es, d) /\ UNCHANGED mode
    \/ /\ PendingElsewhere(es, active) = {}
       /\ top' = [top EXCEPT !.st = st, !.content = content]
       /\ entries' = es /\ mode' = "normal" /\ UNCHANGED active

AcceptAll ==
    /\ CanReview /\ ~isLoading /\ HasPending(top.st)
    /\ LET st == [m \in Mods |-> IF top.st[m] = "pending" THEN "applied" ELSE top.st[m]] IN
       /\ MoveOn([entries EXCEPT ![active] = [top EXCEPT !.st = st]], st, top.content)
       /\ review' = Rest("acceptAll", st, top.content)
    /\ UNCHANGED <<disks, isLoading, generations, loads, deletion, restore, counters>>

RejectAll ==
    /\ CanReview /\ ~isLoading /\ HasPending(top.st)
    /\ LET st == [m \in Mods |-> IF top.st[m] = "pending" THEN "rejected" ELSE top.st[m]] IN
       /\ top' = [top EXCEPT !.st = st, !.content = top.base]
       /\ review' = Rest("rejectAll", st, top.base)
    /\ UNCHANGED <<disks, active, entries, mode, isLoading, generations, loads, deletion,
                   restore, counters>>

\* The file is written: by an accept when the disk differs and can be read, always by a reject.
WritesTo(d) == review.op \in {"reject", "rejectAll"} \/ disk[d] # Missing

ReviewDisk ==
    /\ review.pc = "disk"
    /\ review' = [review EXCEPT !.pc = "snapshot"]
    /\ LET d == review.doc IN
       \/ ~WritesTo(d) /\ UNCHANGED <<disk, deletion, goneAt>>
       \/ /\ WritesTo(d)
          /\ disk' = [disk EXCEPT ![d] = review.content]
          /\ deletion' = IF deletion.doc = d THEN [deletion EXCEPT !.upTo = 0] ELSE deletion
          /\ goneAt' = [goneAt EXCEPT ![d] = 0]
    /\ UNCHANGED <<written, records, snapshots, panel, generations, loads, restore,
                   deletes, restarts, handledAt, session, calm>>

\* The text decided on becomes a snapshot of its own.
ReviewSnapshot ==
    /\ review.pc = "snapshot"
    /\ TakeSnapshot(review.doc, review.content, review.st)
    /\ review' = [review EXCEPT !.pc = IF review.op = "acceptAll" THEN "records" ELSE "mark"]
    /\ UNCHANGED <<disk, written, records, marks, panel, generations, loads, deletion, restore,
                   counters>>

\* snapshot_get_latest and diff_record_update_active_snapshot: whatever snapshot is the newest by
\* now, the file's pending records are tied to it.
ReviewMark ==
    /\ review.pc = "mark"
    /\ marks' = [v \in Versions |-> IF v \in PendingRecords(review.doc) THEN newest[review.doc]
                                                                      ELSE marks[v]]
    /\ review' = [review EXCEPT !.pc = "records"]
    /\ UNCHANGED <<disk, written, records, newest, panel, generations, loads, deletion, restore,
                   counters>>

\* Which records a finished review closes: accepting closes all of the file's (filter),
\* rejecting the first of the list, the newest (find).
Closes(S) == IF S = {} \/ review.op \in {"accept", "acceptAll"} THEN S ELSE {Latest(S)}

ReviewRecords ==
    /\ review.pc = "records"
    /\ LET S == PendingRecords(review.doc) IN
       records' = IF Reviewed(review.st) THEN Close(Closes(S), "applied")
                  ELSE [v \in Versions |-> IF v \in S THEN [records[v] EXCEPT !.st = review.st]
                                                      ELSE records[v]]
    /\ review' = IF review.op = "accept" /\ Reviewed(review.st)
                 THEN [review EXCEPT !.pc = "leave"] ELSE NoReview
    /\ UNCHANGED <<disk, written, snapshots, panel, generations, loads, deletion, restore,
                   counters>>

\* The second set of acceptModification, on whatever file is active by now.
AcceptLeaves ==
    /\ review.pc = "leave"
    /\ LET es == [d \in Docs |-> IF d = active /\ entries[d] # NoEntry
                                 THEN [entries[d] EXCEPT !.st = review.st] ELSE entries[d]]
       IN MoveOn(es, review.st, top.content)
    /\ review' = NoReview
    /\ UNCHANGED <<disks, isLoading, generations, loads, deletion, restore, counters>>

SelectFile(d) ==
    /\ Free /\ mode = "diff" /\ d # active /\ HasPending(entries[d].st)
    /\ Activate(WithActive, d)
    /\ UNCHANGED <<disks, mode, isLoading, generations, loads, review, deletion, restore, counters>>

\* setMode
ToggleMode ==
    /\ Free
    /\ \/ mode = "diff" /\ mode' = "normal" /\ UNCHANGED <<active, top, entries>>
       \/ /\ mode = "normal" /\ HasPending(top.st)
          /\ mode' = "diff" /\ UNCHANGED <<active, top, entries>>
       \/ /\ mode = "normal" /\ ~HasPending(top.st) /\ ~calm
          /\ \E d \in PendingElsewhere(entries, active) : Activate(entries, d)
          /\ mode' = "diff"
    /\ UNCHANGED <<disks, isLoading, generations, loads, review, deletion, restore, counters>>

-----------------------------------------------------------------------------
(* Deleting a file *)

UserDeletes(d) ==
    /\ Free /\ deletion.pc = "idle" /\ deletes + restarts < MaxFaults /\ disk[d] # Missing
    /\ calm => Settled
    /\ disk' = [disk EXCEPT ![d] = Missing]
    /\ deletes' = deletes + 1
    /\ deletion' = [NoDeletion EXCEPT !.pc = "deleted", !.doc = d, !.upTo = Len(written)]
    /\ UNCHANGED <<written, records, snapshots, panel, generations, loads, review, restore,
                   restarts, goneAt, handledAt, session, calm>>

\* The generation of a deleted path moves on if it ever had a load.
KeepsGeneration(d) == gen
NextGeneration(d) == IF gen[d] = 0 THEN gen ELSE [gen EXCEPT ![d] = @ + 1]

\* What discardDiffsForDeletedPath does before its first await.
Discard ==
    /\ Free /\ deletion.pc = "deleted"
    /\ LET d == deletion.doc
           es == [WithActive EXCEPT ![d] = NoEntry] IN
       /\ deleted' = deleted \cup {d}
       /\ gen' = NextGeneration(d)
       /\ \/ /\ d # active
             /\ entries' = IF entries[d] = NoEntry THEN entries ELSE es
             /\ isLoading' = IF activeGen[d] # 0 THEN OtherLoads(d) ELSE isLoading
             /\ UNCHANGED <<active, top, mode>>
          \/ /\ d = active
             /\ \E e \in PendingElsewhere(es, d) : Activate(es, e)
             /\ isLoading' = OtherLoads(d)
             /\ UNCHANGED mode
          \/ /\ d = active /\ PendingElsewhere(es, d) = {}
             /\ active' = NoDoc /\ top' = NoEntry /\ entries' = es /\ mode' = "normal"
             /\ isLoading' = OtherLoads(d)
       /\ goneAt' = [goneAt EXCEPT ![d] = deletion.upTo]
       /\ handledAt' = [handledAt EXCEPT ![d] = Len(written)]
    /\ deletion' = [deletion EXCEPT !.pc = "records",
                                    !.before = {v \in Versions : records[v].status # "none"}]
    /\ UNCHANGED <<disks, activeGen, loads, review, restore, deletes, restarts, session, calm>>

DiscardRecords ==
    /\ Free /\ deletion.pc = "records"
    /\ records' = Close(PendingRecords(deletion.doc) \cap deletion.before, "reverted")
    /\ deletion' = NoDeletion
    /\ UNCHANGED <<disk, written, snapshots, panel, generations, loads, review, restore, counters>>

-----------------------------------------------------------------------------
(* Restart *)

Restart ==
    /\ deletes + restarts < MaxFaults
    /\ restarts' = restarts + 1
    /\ active' = NoDoc /\ top' = NoEntry /\ entries' = [d \in Docs |-> NoEntry]
    /\ mode' = "normal" /\ isLoading' = FALSE
    /\ gen' = [d \in Docs |-> 0] /\ activeGen' = [d \in Docs |-> 0] /\ deleted' = {}
    /\ loads' = [i \in Slots |-> NoLoad]
    /\ review' = NoReview /\ deletion' = NoDeletion
    /\ restore' = [NoRestore EXCEPT !.pc = "mounted"]
    /\ goneAt' = [d \in Docs |-> 0] /\ handledAt' = goneAt' /\ session' = Len(written)
    /\ UNCHANGED <<disks, deletes, calm>>

\* loadPersistedDiffs: nothing to do if a diff is there, else the newest record of each file.
BeginRestore ==
    /\ Free /\ restore.pc = "mounted"
    /\ restore' = IF top.st # NoChanges THEN NoRestore
                  ELSE [NoRestore EXCEPT !.pc = "next", !.todo =
                          {Latest(PendingRecords(d)) : d \in {e \in Docs : PendingRecords(e) # {}}}]
    /\ UNCHANGED <<disks, panel, generations, loads, review, deletion, counters>>

\* What was decided so far: the statuses of the snapshot before those of the record.
Saved(v) == IF marks[v] # NoSnapshot THEN marks[v].st ELSE records[v].st
SavedStatuses(v) == IF Saved(v) = NoChanges THEN AllPending ELSE Saved(v)

\* The text is the snapshot's, or the disk's if that is no change; it is rebuilt from the disk's
\* when changes were rejected before.
RestoredText(v) ==
    LET text == disk[written[v]]
        st == SavedStatuses(v)
        shown == IF text = Original THEN v ELSE text[1]
    IN  IF Rejected(st) # {} THEN Rebuild(Original, shown, Rejected(st))
        ELSE IF marks[v] # NoSnapshot /\ marks[v].content # Original THEN marks[v].content
        ELSE text

\* What the snapshot a record is tied to makes of the file.  findUniqueSnapshotSourceRecord: the
\* pending record that wrote just this text gives its diff, with the statuses of the snapshot.
\* Otherwise the diff is the whole file against the snapshot before, undecided, or none at all.
FromSource(s) ==
    [NoEntry EXCEPT !.ver = s.content[1], !.content = s.content, !.st = s.st]
FromSnapshots(v, s) ==
    [ver |-> v, content |-> s.content, base |-> s.base, whole |-> TRUE,
     st |-> IF s.content = s.base THEN NoChanges ELSE AllPending]
Projection(v) ==
    LET s == marks[v] IN
    IF s = NoSnapshot THEN NoEntry
    ELSE IF s.content[1] \in PendingRecords(written[v]) /\ s.content[2] = {} THEN FromSource(s)
    ELSE FromSnapshots(v, s)

\* The next record: skipped when its file was deleted, closed when the file is missing.
RestoreNext ==
    /\ Free /\ restore.pc = "next" /\ restore.ver = 0 /\ restore.plan = NoEntry
    /\ \/ /\ restore.todo = {} /\ restore' = NoRestore
          /\ UNCHANGED <<records, isLoading, gen, activeGen, loads>>
       \/ \E v \in restore.todo : LET d == written[v] IN
          \/ /\ d \in deleted \/ disk[d] = Missing
             /\ restore' = [restore EXCEPT !.todo = @ \ {v}]
             /\ records' = IF d \in deleted THEN records ELSE Close({v}, "reverted")
             /\ UNCHANGED <<isLoading, gen, activeGen, loads>>
          \/ /\ d \notin deleted /\ disk[d] # Missing
             /\ StartLoad(0, d, [NoLoad EXCEPT !.st = SavedStatuses(v),
                                               !.content = RestoredText(v)])
             /\ restore' = [restore EXCEPT !.todo = @ \ {v}, !.ver = v,
                                           !.gen = gen[d] + 1, !.plan = Projection(v)]
             /\ UNCHANGED records
    /\ UNCHANGED <<disk, written, snapshots, active, top, entries, mode, deleted, review,
                   deletion, counters>>

\* isRestoreCurrent, of the file to be projected
RestoreCurrent ==
    LET d == written[restore.plan.ver] IN
    gen[d] = restore.gen /\ d \notin deleted /\ active = d /\ entries[d] # NoEntry

\* applySnapshotDiffProjection, when the load of the record is over: the panel gets the diff of the
\* snapshot, unless something else has happened to the file.  If its preview throws, it gets none.
Project ==
    /\ Free /\ restore.ver = 0 /\ restore.plan # NoEntry
    /\ restore' = [restore EXCEPT !.gen = 0, !.plan = NoEntry]
    /\ \/ ~RestoreCurrent /\ UNCHANGED <<top, entries, mode>>
       \/ /\ RestoreCurrent
          /\ \E st \in {restore.plan.st} \cup (IF calm THEN {} ELSE {NoChanges}) :
               /\ top' = [restore.plan EXCEPT !.st = st]
               /\ mode' = IF st = NoChanges THEN "normal" ELSE mode
          /\ entries' = [entries EXCEPT ![active] = top']
    /\ UNCHANGED <<disks, active, isLoading, generations, loads, review, deletion, counters>>

-----------------------------------------------------------------------------
LoadStep(i) ==
    \/ DiffArrives(i) \/ GiveUp(i) \/ LoadFails(i) \/ CancelDeleted(i) \/ Previewed(i)
    \/ CreateRecord(i) \/ RecordCreated(i) \/ Probe(i) \/ CloseStale(i) \/ Commit(i)

Decide ==
    \/ \E m \in Mods : Accept(m) \/ Reject(m)
    \/ AcceptAll \/ RejectAll
    \/ \E d \in Docs : SelectFile(d)
    \/ ToggleMode

ReviewStep == ReviewDisk \/ ReviewSnapshot \/ ReviewMark \/ ReviewRecords \/ AcceptLeaves
DeletionStep == Discard \/ DiscardRecords
RestoreStep == BeginRestore \/ RestoreNext \/ Project

Next ==
    \/ \E d \in Docs : AgentWrites(d) \/ UserDeletes(d)
    \/ \E i \in Slots : LoadStep(i)
    \/ Decide \/ ReviewStep \/ DeletionStep \/ RestoreStep \/ Restart

Spec == Init /\ [][Next]_vars

-----------------------------------------------------------------------------
(* Properties *)

\* Nothing is under way.
Quiet ==
    /\ Settled
    /\ review.pc = "idle" /\ deletion.pc = "idle" /\ restore.pc = "idle"

\* A load that a deletion has overtaken never gets back into the panel: a file the user deleted
\* is shown only for a version written after the deletion was handled.
ShownIsNotGone == \A d \in Docs : Shown(d).ver = 0 \/ Shown(d).ver > goneAt[d]

\* A file that is gone leaves no pending record behind, from which a restart would bring it back.
GoneHasNoRecord == Quiet => \A d \in Docs : \A v \in PendingRecords(d) : v > goneAt[d]

\* A deleted file stays out of the review, in the panel and in the database.
DeletedStaysGone == ShownIsNotGone /\ GoneHasNoRecord

\* When everything has settled, the panel has the newest version of every file the agent wrote
\* in this session and the user has not deleted since: no diff is lost to an older load.
NewVersions(d) == {v \in 1 .. Len(written) : written[v] = d /\ v > session /\ v > handledAt[d]}
NoDiffIsLost ==
    Quiet /\ calm => \A d \in Docs :
        NewVersions(d) # {} => Shown(d).ver = Latest(NewVersions(d))

\* A review that is not finished survives a crash: what is still to be decided has a pending
\* record, and the snapshot or the record has the decisions made so far.  A whole-file diff, which a
\* restart made up from snapshots, has only the record: PartialReviewComesBack.
CrashKeepsReview ==
    Quiet /\ calm => \A d \in Docs : HasPending(Shown(d).st) =>
        LET v == Shown(d).ver IN
        /\ records[v].status = "pending"
        /\ Shown(d).whole \/ SavedStatuses(v) = Shown(d).st

\* The statuses a partial review has persisted are what the panel shows, after a restart as well.
\* It does not hold: a change that was rejected makes the restart show another diff (README,
\* "Divergences").
PartialReviewComesBack ==
    Quiet /\ calm => \A d \in Docs : \A v \in PendingRecords(d) :
        Shown(d).ver = v /\ records[v].st # NoChanges => Shown(d).st = records[v].st

\* The panel never goes back to an older version of a file, unless a restore brings one back.
NewestLoadWins ==
    [][\A d \in Docs : restarts' = restarts /\ restore.pc # "next"
                          /\ Shown(d) # NoEntry /\ Shown(d)' # NoEntry
                          => Shown(d)'.ver >= Shown(d).ver]_vars

\* A reviewed file does not come back for review after a restart.  It does not hold (README,
\* "Divergences").
ReviewStaysClosed ==
    Quiet => \A d \in Docs : Shown(d) # NoEntry /\ Reviewed(Shown(d).st) => PendingRecords(d) = {}

\* A decision stands: as long as the file shows the same diff, of the same version and of the
\* same kind, what was accepted or rejected is not up for review again.
DecisionsStand ==
    [][\A d \in Docs, m \in Mods :
         restarts' = restarts /\ Shown(d).ver = Shown(d)'.ver /\ Shown(d).whole = Shown(d)'.whole
             /\ Shown(d).st[m] \in {"applied", "rejected"}
           => Shown(d)'.st[m] = Shown(d).st[m]]_vars

=============================================================================
