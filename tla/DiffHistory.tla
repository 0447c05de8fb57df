---------------------------- MODULE DiffHistory -----------------------------
(***************************************************************************)
(* Undo, redo and rollback of one reviewed file: stores/diffStore.ts from    *)
(* rollback to redo, with the loads and decisions that run into them.        *)
(*                                                                           *)
(* A history operation captures the panel, waits (a rollback computes the    *)
(* diff of its target, every operation writes the file), and commits only if *)
(* nothing took over meanwhile: a newer operation, a load, a decision.  An    *)
(* operation that finds itself superseded after its write has landed repairs *)
(* the file: it writes what the panel, or the load under way, says by now,   *)
(* and looks again whether that is still so (compensateSupersededFileWrite). *)
(*                                                                           *)
(* Writes are asynchronous: they reach the disk in any order, their replies  *)
(* come back in the order they were carried out.  A text is the version the   *)
(* agent wrote, 0 the original one.  deleteSnapshot of the active version    *)
(* starts a Rollback and is not told apart from one; a path the user deletes *)
(* is module DiffReview's.                                                   *)
(***************************************************************************)
EXTENDS Naturals, Sequences, SequencesExt

CONSTANTS
    MaxOps,       \* bound: history operations
    MaxWrites,    \* bound: versions the agent writes
    MaxDecisions, \* bound: accepts and rejects
    MaxEvents,    \* bound: operations, versions and decisions together
    MaxDepth,     \* MAX_HISTORY_DEPTH
    MaxAttempts   \* maxAttempts of the compensation

ASSUME DiffHistoryAssumption ==
    /\ MaxOps \in Nat /\ MaxWrites \in Nat /\ MaxDecisions \in Nat
    /\ MaxEvents \in Nat /\ MaxDepth \in Nat \ {0} /\ MaxAttempts \in Nat \ {0}

VARIABLES
    disk,      \* the file
    content,   \* the content of the panel
    pending,   \* whether its change waits for a decision
    undo, redo,
    loadGen,    \* loadModificationsGeneration
    activeLoad, \* activeModificationLoadGenerations, 0 if none
    target,     \* latestModificationLoadTargets, gen 0 if none
    mutGen,     \* snapshotRollbackGenerations: the number of the newest operation
    ops,        \* per operation, its local state
    loads,      \* per version, the generation of its load while it runs, else 0
    written,    \* the newest version of the agent
    replies,    \* writes carried out whose reply has not been handled
    decisions,
    unsynced,   \* history: a load failed, or a repair did
    touched     \* history: the user acted after the newest load had started

panel == <<content, pending, undo, redo>>
generations == <<loadGen, activeLoad, target, mutGen>>
vars == <<disk, panel, generations, ops, loads, written, replies, decisions, unsynced, touched>>

-----------------------------------------------------------------------------
Texts == 0 .. MaxWrites
Operations == 1 .. MaxOps
Entries == [before : Texts, after : Texts, pendingBefore : BOOLEAN, pendingAfter : BOOLEAN]
Seen == [load : Nat, mut : Nat, text : Texts]
NoTarget == [gen |-> 0, text |-> 0]
NoOp == [pc |-> "idle", kind |-> "none", to |-> 0, load |-> 0, content |-> 0, pending |-> FALSE,
         undo |-> <<>>, redo |-> <<>>, attempt |-> 0, seen |-> [load |-> 0, mut |-> 0, text |-> 0]]

Init ==
    /\ disk = 0 /\ content = 0 /\ pending = FALSE /\ undo = <<>> /\ redo = <<>>
    /\ loadGen = 0 /\ activeLoad = 0 /\ target = NoTarget /\ mutGen = 0
    /\ ops = [k \in Operations |-> NoOp]
    /\ loads = [v \in 1 .. MaxWrites |-> 0]
    /\ written = 0 /\ replies = <<>> /\ decisions = 0
    /\ unsynced = FALSE /\ touched = FALSE

\* A stack keeps its newest MaxDepth entries.
Push(stack, e) == IF Len(stack) = MaxDepth THEN Tail(Append(stack, e)) ELSE Append(stack, e)

Budget == mutGen + written + decisions < MaxEvents

\* A write reaches the disk; its reply will be handled after those of the earlier ones.
Land(who, text) == disk' = text /\ replies' = Append(replies, who)

Handle(who) == replies # <<>> /\ Head(replies) = who /\ replies' = Tail(replies)

-----------------------------------------------------------------------------
(* Loads *)

\* file_write, and the callback that hands the version to loadModifications
AgentWrites ==
    /\ written < MaxWrites /\ Budget
    /\ written' = written + 1
    /\ Land(<<"agent", written + 1>>, written + 1)
    /\ UNCHANGED <<panel, generations, ops, loads, decisions, unsynced, touched>>

StartLoad(v) ==
    /\ Handle(<<"agent", v>>)
    /\ loadGen' = loadGen + 1 /\ activeLoad' = loadGen + 1
    /\ target' = [gen |-> loadGen + 1, text |-> v]
    /\ loads' = [loads EXCEPT ![v] = loadGen + 1]
    /\ touched' = FALSE
    /\ UNCHANGED <<disk, panel, mutGen, ops, written, decisions, unsynced>>

\* The finally block: what this load has published is withdrawn.
EndLoad(v) ==
    /\ loads' = [loads EXCEPT ![v] = 0]
    /\ activeLoad' = IF activeLoad = loads[v] THEN 0 ELSE activeLoad
    /\ target' = IF target.gen = loads[v] THEN NoTarget ELSE target
    /\ UNCHANGED <<disk, loadGen, mutGen, ops, written, replies, decisions, touched>>

CommitLoad(v) ==
    /\ loads[v] # 0 /\ loads[v] = loadGen
    /\ EndLoad(v)
    /\ content' = v /\ pending' = TRUE /\ undo' = <<>> /\ redo' = <<>>
    /\ UNCHANGED unsynced

\* The load is stale.
DropLoad(v) ==
    /\ loads[v] # 0 /\ loads[v] # loadGen
    /\ EndLoad(v)
    /\ UNCHANGED <<panel, unsynced>>

LoadFails(v) ==
    /\ loads[v] # 0
    /\ EndLoad(v)
    /\ unsynced' = (unsynced \/ loads[v] = loadGen)
    /\ UNCHANGED panel

-----------------------------------------------------------------------------
(* Decisions: taken while no load is under way, their write carried out at once *)

\* A new decision leaves nothing to redo.
RedoKept == redo
RedoCleared == <<>>

Decide(text) ==
    /\ pending /\ decisions < MaxDecisions /\ Budget
    /\ activeLoad = 0 /\ \A r \in ToSet(replies) : r[1] # "agent"
    /\ content' = text /\ pending' = FALSE
    /\ undo' = Push(undo, [before |-> content, after |-> text, pendingBefore |-> TRUE, pendingAfter |-> FALSE])
    /\ redo' = RedoCleared
    /\ disk' = text
    /\ decisions' = decisions + 1 /\ touched' = TRUE
    /\ UNCHANGED <<generations, ops, loads, written, replies, unsynced>>

Accept == Decide(content)
Reject == Decide(0)

-----------------------------------------------------------------------------
(* History operations *)

\* An operation takes the next number and what it sees, unless a load is under way.
Begin(kind, pc, text) ==
    /\ mutGen < MaxOps /\ Budget /\ activeLoad = 0
    /\ mutGen' = mutGen + 1
    /\ ops' = [ops EXCEPT ![mutGen + 1] =
                 [NoOp EXCEPT !.pc = pc, !.kind = kind, !.to = text, !.load = loadGen, !.content = content,
                              !.pending = pending, !.undo = undo, !.redo = redo]]
    /\ touched' = TRUE
    /\ UNCHANGED <<disk, panel, loadGen, activeLoad, target, loads, written, replies, decisions, unsynced>>

BeginRollback == \E v \in 0 .. written : Begin("rollback", "compute", v)
BeginUndo == undo # <<>> /\ Begin("undo", "write", Last(undo).before)
BeginRedo == redo # <<>> /\ Begin("redo", "write", Last(redo).after)

\* isRollbackCurrent, isUndoCurrent, isRedoCurrent
IsCurrent(k) ==
    LET o == ops[k] IN
    /\ mutGen = k /\ loadGen = o.load /\ activeLoad = 0 /\ content = o.content
    /\ IF o.kind = "rollback" THEN pending = o.pending ELSE undo = o.undo /\ redo = o.redo

\* The target of a rollback has been read and compared; or that failed.
Computed(k) ==
    /\ ops[k].pc = "compute"
    /\ \/ IsCurrent(k) /\ ops' = [ops EXCEPT ![k].pc = "write"]
       \/ ops' = [ops EXCEPT ![k] = NoOp]
    /\ UNCHANGED <<disk, panel, generations, loads, written, replies, decisions, unsynced, touched>>

WriteLands(k) ==
    /\ \/ ops[k].pc = "write" /\ Land(<<"op", k>>, ops[k].to) /\ ops' = [ops EXCEPT ![k].pc = "written"]
       \/ ops[k].pc = "repair" /\ Land(<<"op", k>>, ops[k].seen.text) /\ ops' = [ops EXCEPT ![k].pc = "repaired"]
    /\ UNCHANGED <<panel, generations, loads, written, decisions, unsynced, touched>>

WriteFails(k) ==
    /\ ops[k].pc \in {"write", "repair"}
    /\ ops' = [ops EXCEPT ![k] = NoOp]
    /\ unsynced' = (unsynced \/ ops[k].pc = "repair")
    /\ UNCHANGED <<disk, panel, generations, loads, written, replies, decisions, touched>>

\* What an operation that was not superseded makes of the panel.
Apply(o) ==
    \/ /\ o.kind = "rollback"
       /\ pending' \in (IF o.to = 0 THEN {FALSE} ELSE BOOLEAN)
       /\ undo' = Push(undo, [before |-> content, after |-> o.to, pendingBefore |-> pending, pendingAfter |-> pending'])
       /\ redo' = <<>>
    \/ /\ o.kind = "undo"
       /\ pending' = Last(undo).pendingBefore
       /\ undo' = Front(undo) /\ redo' = Push(redo, Last(undo))
    \/ /\ o.kind = "redo"
       /\ pending' = Last(redo).pendingAfter
       /\ redo' = Front(redo) /\ undo' = Push(undo, Last(redo))

CommitOp(k) ==
    /\ ops[k].pc = "written" /\ Handle(<<"op", k>>) /\ IsCurrent(k)
    /\ Apply(ops[k]) /\ content' = ops[k].to
    /\ ops' = [ops EXCEPT ![k] = NoOp]
    /\ UNCHANGED <<disk, generations, loads, written, decisions, unsynced, touched>>

\* resolveCurrentTarget: the text of the load under way, else that of the panel
PanelOnly(k) == content
CurrentTarget(k) ==
    IF target.gen # 0 /\ target.gen = loadGen /\ activeLoad = loadGen /\ target.gen # ops[k].load
    THEN target.text ELSE content

SeenBy(k) == [load |-> loadGen, mut |-> mutGen, text |-> CurrentTarget(k)]
Repair(k, attempt) == ops' = [ops EXCEPT ![k].pc = "repair", ![k].attempt = attempt, ![k].seen = SeenBy(k)]

Compensate(k) ==
    /\ ops[k].pc = "written" /\ Handle(<<"op", k>>) /\ ~IsCurrent(k)
    /\ Repair(k, 1)
    /\ UNCHANGED <<disk, panel, generations, loads, written, decisions, unsynced, touched>>

\* The repair is over when nothing has changed while its write was under way.
NotLooking(k) == TRUE
Settled(k) == SeenBy(k) = ops[k].seen

Repaired(k) ==
    /\ ops[k].pc = "repaired" /\ Handle(<<"op", k>>)
    /\ \/ Settled(k) /\ ops' = [ops EXCEPT ![k] = NoOp] /\ UNCHANGED unsynced
       \/ ~Settled(k) /\ ops[k].attempt < MaxAttempts /\ Repair(k, ops[k].attempt + 1) /\ UNCHANGED unsynced
       \/ ~Settled(k) /\ ops[k].attempt = MaxAttempts /\ ops' = [ops EXCEPT ![k] = NoOp] /\ unsynced' = TRUE
    /\ UNCHANGED <<disk, panel, generations, loads, written, decisions, touched>>

-----------------------------------------------------------------------------
LoadStep == \E v \in 1 .. MaxWrites : StartLoad(v) \/ CommitLoad(v) \/ DropLoad(v) \/ LoadFails(v)

OpStep(k) == Computed(k) \/ WriteLands(k) \/ WriteFails(k) \/ CommitOp(k) \/ Compensate(k) \/ Repaired(k)

Next ==
    \/ AgentWrites \/ LoadStep
    \/ Accept \/ Reject
    \/ BeginRollback \/ BeginUndo \/ BeginRedo
    \/ \E k \in Operations : OpStep(k)

Spec == Init /\ [][Next]_vars

-----------------------------------------------------------------------------
(* Properties *)

\* Nothing is under way.
Quiet ==
    /\ \A k \in Operations : ops[k].pc = "idle"
    /\ \A v \in 1 .. MaxWrites : loads[v] = 0
    /\ replies = <<>>

\* When everything has settled the file is what the panel shows, however the writes of operations
\* that overtook each other reached the disk.
DiskFollowsPanel == Quiet /\ ~unsynced => disk = content

\* A history operation begun before a load, and superseded by it, takes nothing away from what the
\* agent wrote: neither in the file nor in the panel.
AgentTextKept == Quiet /\ ~unsynced /\ ~touched => disk = written /\ content = written

\* The two stacks fit the panel: each entry starts where the one below it ends, undo from the
\* content shown and redo back to it.
Chained(stack) == \A i \in 1 .. Len(stack) - 1 : stack[i].after = stack[i + 1].before
HistoryFits ==
    /\ Chained(undo) /\ (undo # <<>> => Last(undo).after = content)
    /\ Chained(Reverse(redo)) /\ (redo # <<>> => Last(redo).before = content)

=============================================================================
