---------------------------- MODULE PlanningTasks ----------------------------
(***************************************************************************)
(* The tasks of one chat context (an agent, or a hub): the executions of   *)
(* usePlanningMode, the send slot of chatStore they compete for with Chat  *)
(* runs, the AgentService instances and the cache that hands them out, and *)
(* a user who starts, stops, withdraws messages and switches views.        *)
(*                                                                         *)
(* Everything here is keyed by the context, so one context is the general  *)
(* case.  A run is named by the order in which the runs are started; an    *)
(* AgentService is named after the run that created it.  A step is what    *)
(* the code does between two awaits on the outside world.                  *)
(***************************************************************************)
EXTENDS Integers, Sequences, FiniteSets

CONSTANTS
    MaxRuns,    \* bound on the runs of the context
    ChatRuns,   \* which of them are Chat runs; the others are planning runs
    MaxViews    \* bound on the mounts of its chat view, each with refs of its own

ASSUME RunAssumption == MaxRuns \in Nat /\ ChatRuns \subseteq 1..MaxRuns
ASSUME ViewAssumption == MaxViews \in Nat \ {0}

Runs == 1..MaxRuns
Views == 1..MaxViews

VARIABLES
    view,       \* the mounted view; the closures of older views still run
    refs,       \* the refs of usePlanningMode in each view
    sending,    \* chatStore.sendingRunIdsByContext, the run holding the send slot
    latest,     \* chatStore.latestRunIdsByContext
    stage,      \* where each run stands
    owner,      \* the view whose closure each run is
    uses,       \* the AgentService each run obtained
    service,    \* the fields of each AgentService
    cache,      \* serviceCache for this context
    published,  \* the answers and error messages, in the order they were added
    withdrawn,  \* runs going on whose user message was removed from the message list
    notified,   \* runs going on that told their IM task how they end
    stopped     \* runs going on a stop request reached

liveVars == <<withdrawn, notified, stopped>>
storeVars == <<refs, sending, latest>>
serviceVars == <<service, cache>>
runVars == <<stage, owner, uses>>
vars == <<view, storeVars, serviceVars, published, liveVars, runVars>>

None == 0       \* no run, no service

-----------------------------------------------------------------------------
\* The stages of a planning run; "chat" is a Chat run.
Locked == {"context", "looping", "wrapping", "erring"}     \* inside processMessage
Going == Locked \cup {"preparing", "mounted", "persisting", "reporting"}

NoRefs == [active |-> None, cancelRequested |-> FALSE, sending |-> FALSE, service |-> None]
NewService == [activeRun |-> None, loop |-> "none", cancelRequested |-> FALSE,
               timer |-> None, replace |-> FALSE, session |-> None]

\* ownsLatestPlanningRun and canPublishLivePlanningRun.
OwnsLatest(r) == refs[owner[r]].active = r /\ latest = r
CanPublishIgnoringStop(r) == OwnsLatest(r)             \* mutant: the stop is not looked at
CanPublish(r) == OwnsLatest(r) /\ ~refs[owner[r]].cancelRequested

Unsettled(s) == service[s].activeRun # None

Init ==
    /\ view = 1
    /\ refs = [v \in Views |-> NoRefs]
    /\ sending = None /\ latest = None
    /\ stage = [r \in Runs |-> "unused"]
    /\ owner = [r \in Runs |-> 1]
    /\ uses = [r \in Runs |-> None]
    /\ service = [s \in Runs |-> NewService]
    /\ cache = None
    /\ published = <<>> /\ withdrawn = {} /\ notified = {} /\ stopped = {}

MoveTo(r, next) == stage' = [stage EXCEPT ![r] = next]
NextRun(r) == stage[r] = "unused" /\ \A q \in Runs : q < r => stage[q] # "unused"

-----------------------------------------------------------------------------
(* How a run ends, in the task in which its last await returns.            *)

Present(r) == r \notin withdrawn

\* The catch block up to its first await: the IM task is told, unless the run was
\* overtaken or its request withdrawn.
Fail(r) ==
    IF latest = r /\ Present(r)
    THEN MoveTo(r, "reporting") /\ notified' = notified \cup {r}
    ELSE MoveTo(r, "closing") /\ UNCHANGED notified

\* processMessage has returned: a run overtaken by a newer one stays silent; the others
\* tell their IM task how they ended, then store the answer (a cancelled one is stored
\* as it is).
Deliver(r) ==
    IF OwnsLatest(r)
    THEN /\ MoveTo(r, IF Present(r) THEN "persisting" ELSE "closing")
         /\ notified' = notified \cup {r}
    ELSE MoveTo(r, "closing") /\ UNCHANGED notified

DeliverError(r) ==
    IF OwnsLatest(r) THEN Fail(r) ELSE MoveTo(r, "closing") /\ UNCHANGED notified

-----------------------------------------------------------------------------
(* Starting: the send slot and the preparation of a run.                   *)

\* chatStore.startSending refuses a run while another one holds the slot.
SlotIsFree == sending = None

TakeSlot(r) == sending' = r /\ latest' = r

\* chatStore.finishSending frees the slot for the run that holds it.
KeepSlot(r) == sending                                  \* mutant: the slot is not freed
FreedSlot(r) == IF sending = r THEN None ELSE sending

\* executePlanningTask up to the user message being in the list.
Start(r) ==
    /\ NextRun(r) /\ r \notin ChatRuns
    /\ ~refs[view].sending /\ SlotIsFree
    /\ TakeSlot(r)
    /\ refs' = [refs EXCEPT ![view] = [@ EXCEPT !.sending = TRUE, !.active = r,
                                                !.cancelRequested = FALSE]]
    /\ owner' = [owner EXCEPT ![r] = view]
    /\ MoveTo(r, "preparing")
    /\ UNCHANGED <<view, serviceVars, published, liveVars, uses>>

\* A Chat run takes and frees the same slot.  It knows nothing of the planning refs.
StartChat(r) ==
    /\ NextRun(r) /\ r \in ChatRuns /\ SlotIsFree
    /\ TakeSlot(r)
    /\ MoveTo(r, "chat")
    /\ UNCHANGED <<view, refs, serviceVars, published, liveVars, owner, uses>>

EndChat(r) ==
    /\ stage[r] = "chat"
    /\ sending' = FreedSlot(r)
    /\ MoveTo(r, "done")
    /\ UNCHANGED <<view, refs, latest, serviceVars, published, liveVars, owner, uses>>

\* stopBeforeAgentLoopIfInactive after an await of the preparation, and an invoke
\* that throws (the user message or the history cannot be stored or read).
StopBeforeLoop(r) ==
    /\ stage[r] \in {"preparing", "mounted"} /\ ~CanPublish(r)
    /\ MoveTo(r, "closing")
    /\ UNCHANGED <<view, storeVars, serviceVars, published, liveVars, owner, uses>>

PreparationFails(r) ==
    /\ stage[r] \in {"preparing", "mounted"}
    /\ Fail(r)
    /\ UNCHANGED <<view, storeVars, serviceVars, published, withdrawn, stopped, owner, uses>>

-----------------------------------------------------------------------------
(* The cache and the AgentService fields.                                  *)

\* cancelProcessing: flag, loop, and the watchdog when a run holds the lock.
Cancelled(sv) ==
    [sv EXCEPT !.cancelRequested = TRUE,
               !.loop = IF @ = "running" THEN "cancelled" ELSE @,
               !.timer = IF sv.activeRun # None THEN sv.activeRun ELSE @]

ResetSession(sv) == [sv EXCEPT !.session = None]

\* What getOrCreateAgentService answers: whether the cached service is handed out
\* again, given that its configuration has or has not changed.
Reusable(changed) ==
    /\ cache # None
    /\ ~service[cache].replace
    /\ changed => Unsettled(cache)

\* A service that timed out is only detached; an idle one with an old configuration
\* also loses its session.
Detached(changed) ==
    IF cache # None /\ ~service[cache].replace /\ changed
    THEN [service EXCEPT ![cache] = ResetSession(@)]
    ELSE service

\* The run takes its service, and the view remembers it for the stop button.  One task:
\* the only await in between imports a module this run has already loaded, so the
\* pre-cancel test of line 1361 finds nothing that line 1265 has not seen.
Obtain(r, changed) ==
    /\ stage[r] = "preparing" /\ CanPublish(r)
    /\ MoveTo(r, "mounted")
    /\ IF Reusable(changed)
       THEN uses' = [uses EXCEPT ![r] = cache] /\ UNCHANGED serviceVars
       ELSE /\ uses' = [uses EXCEPT ![r] = r]
            /\ cache' = r
            /\ service' = [Detached(changed) EXCEPT ![r] = NewService]
    /\ refs' = [refs EXCEPT ![owner[r]].service = uses'[r]]
    /\ UNCHANGED <<view, sending, latest, published, liveVars, owner>>

-----------------------------------------------------------------------------
(* processMessage.                                                         *)

\* The lock is taken in the task that makes the last check before it.  The history
\* snapshot replaces the session only under the lock.
Locking(sv, r) ==
    [sv EXCEPT !.activeRun = r, !.timer = None, !.cancelRequested = FALSE, !.session = r]

ProcessMessage(r) ==
    /\ stage[r] = "mounted" /\ CanPublish(r)
    /\ IF Unsettled(uses[r])
       THEN DeliverError(r) /\ UNCHANGED service
       ELSE /\ MoveTo(r, "context")
            /\ service' = [service EXCEPT ![uses[r]] = Locking(@, r)]
            /\ UNCHANGED notified
    /\ UNCHANGED <<view, storeVars, cache, published, withdrawn, stopped, owner, uses>>

\* The finally block of processMessage.
Released(sv) == [sv EXCEPT !.activeRun = None, !.loop = "none", !.timer = None]

ReleaseLock(r) == service' = [service EXCEPT ![uses[r]] = Released(@)]

\* The memories, the retrieval and the history budget are ready.
ContextReady(r) ==
    /\ stage[r] = "context"
    /\ IF service[uses[r]].cancelRequested
       THEN Deliver(r) /\ ReleaseLock(r)
       ELSE /\ MoveTo(r, "looping")
            /\ service' = [service EXCEPT ![uses[r]].loop = "running"]
            /\ UNCHANGED notified
    /\ UNCHANGED <<view, storeVars, cache, published, withdrawn, stopped, owner, uses>>

\* An async stage throws: a cancel explains it, otherwise it is an error.
ContextFails(r) ==
    /\ stage[r] = "context"
    /\ IF service[uses[r]].cancelRequested THEN Deliver(r) ELSE DeliverError(r)
    /\ ReleaseLock(r)
    /\ UNCHANGED <<view, storeVars, cache, published, withdrawn, stopped, owner, uses>>

\* AgentLoop.run settles (module PlanningRun), a cancelled one never as an error; then
\* the generated images are read into the session.
LoopSettles(r) ==
    /\ stage[r] = "looping"
    /\ \/ MoveTo(r, "wrapping")
       \/ service[uses[r]].loop # "cancelled" /\ MoveTo(r, "erring")
    /\ UNCHANGED <<view, storeVars, serviceVars, published, liveVars, owner, uses>>

WrapUp(r) ==
    /\ \/ stage[r] = "wrapping" /\ Deliver(r)
       \/ stage[r] = "erring" /\ DeliverError(r)
    /\ ReleaseLock(r)
    /\ UNCHANGED <<view, storeVars, cache, published, withdrawn, stopped, owner, uses>>

TimedOutUnlocks(sv) ==                                  \* mutant: the lock is taken away
    [sv EXCEPT !.timer = None, !.replace = TRUE, !.activeRun = None]
TimedOut(sv) == [sv EXCEPT !.timer = None, !.replace = TRUE]

\* The watchdog of a cancel that did not settle.  The lock stays with its run.
Watchdog(s) ==
    /\ service[s].timer # None
    /\ service[s].activeRun = service[s].timer /\ service[s].cancelRequested
    /\ service' = [service EXCEPT ![s] = TimedOut(@)]
    /\ UNCHANGED <<view, storeVars, cache, published, liveVars, runVars>>

-----------------------------------------------------------------------------
(* After processMessage.                                                   *)

\* The answer is in the database; it is discarded when the run was overtaken or
\* withdrawn meanwhile.
PublishesOvertaken(r) == Present(r)                     \* mutant: ownership is not rechecked
PublishesWithdrawn(r) == OwnsLatest(r)                  \* mutant: the request is not rechecked
MayPublish(r) == OwnsLatest(r) /\ Present(r)
Add(r, kind) == published' = Append(published, [run |-> r, kind |-> kind])

Publish(r) ==
    /\ stage[r] = "persisting"
    /\ IF MayPublish(r) THEN Add(r, "answer") ELSE UNCHANGED published
    /\ MoveTo(r, "closing")
    /\ UNCHANGED <<view, storeVars, serviceVars, liveVars, owner, uses>>

\* message_create fails: FOREIGN KEY (the agent is gone) is skipped, the rest thrown.
PersistFails(r) ==
    /\ stage[r] = "persisting"
    /\ (MoveTo(r, "closing") /\ UNCHANGED notified) \/ Fail(r)
    /\ UNCHANGED <<view, storeVars, serviceVars, published, withdrawn, stopped, owner, uses>>

\* The error message is added after the last await of the catch block.
ReportError(r) ==
    /\ stage[r] = "reporting"
    /\ IF latest = r THEN Add(r, "error") ELSE UNCHANGED published
    /\ MoveTo(r, "closing")
    /\ UNCHANGED <<view, storeVars, serviceVars, liveVars, owner, uses>>

\* The finally block: only the run the view still follows clears its state.  The
\* closure of the run is gone, and with it what the model remembers of the run.
Close(r) ==
    /\ stage[r] = "closing"
    /\ MoveTo(r, "done")
    /\ IF refs[owner[r]].active = r
       THEN /\ refs' = [refs EXCEPT ![owner[r]] =
                  [@ EXCEPT !.active = None, !.sending = FALSE, !.cancelRequested = FALSE]]
            /\ sending' = FreedSlot(r)
       ELSE UNCHANGED <<refs, sending>>
    /\ withdrawn' = withdrawn \ {r} /\ notified' = notified \ {r} /\ stopped' = stopped \ {r}
    /\ owner' = [owner EXCEPT ![r] = 1] /\ uses' = [uses EXCEPT ![r] = None]
    /\ UNCHANGED <<view, latest, serviceVars, published>>

-----------------------------------------------------------------------------
(* The user.                                                               *)

\* stopPlanningTask reaches the service the view remembers, else the cached one.
StopTarget == IF refs[view].service # None THEN refs[view].service ELSE cache

Live(r) == stage[r] \in Going

\* A stop reaches a run by the refs of its view, or by the lock of the service it is in.
Reaches(r) == owner[r] = view \/ (StopTarget # None /\ service[StopTarget].activeRun = r)

\* The stop button, or im:abort_task: the request is noted for the preparation, the
\* service is cancelled, and the send slot is freed without waiting for the run.
Stop ==
    /\ service' = IF StopTarget = None THEN service
                  ELSE [service EXCEPT ![StopTarget] = Cancelled(@)]
    /\ refs' = [refs EXCEPT ![view] = [@ EXCEPT !.cancelRequested = TRUE, !.sending = FALSE]]
    /\ sending' = IF refs[view].active = None THEN sending ELSE FreedSlot(refs[view].active)
    /\ stopped' = stopped \cup {r \in Runs : r = latest /\ Live(r) /\ Reaches(r)}
    /\ UNCHANGED <<view, latest, cache, published, withdrawn, notified, runVars>>

\* destroyAgentService leaves the session of an unsettled run alone.
Destroyed(sv) == IF sv.activeRun # None THEN Cancelled(sv) ELSE ResetSession(sv)

\* A message is withdrawn with all that follow it (hub revoke, widget undo), and the
\* service of the context destroyed: detached, then cancelled or reset.
Withdraw(first) ==
    /\ withdrawn' = withdrawn \cup {r \in Runs : r >= first /\ Live(r)}
    /\ IF cache = None THEN UNCHANGED serviceVars
       ELSE /\ cache' = None
            /\ service' = [service EXCEPT ![cache] = Destroyed(@)]
    /\ UNCHANGED <<view, storeVars, published, notified, stopped, runVars>>

\* Leaving the chat and coming back mounts a new view with fresh refs.
Remount ==
    /\ view + 1 \in Views
    /\ view' = view + 1
    /\ UNCHANGED <<storeVars, serviceVars, published, liveVars, runVars>>

-----------------------------------------------------------------------------
Prepare(r) == \/ StopBeforeLoop(r) \/ ProcessMessage(r)
              \/ \E changed \in BOOLEAN : Obtain(r, changed)
Settle(r) == ContextReady(r) \/ WrapUp(r) \/ Publish(r) \/ ReportError(r) \/ Close(r)
Failure(r) == PreparationFails(r) \/ ContextFails(r) \/ PersistFails(r)

Next ==
    \/ \E r \in Runs : \/ Start(r) \/ StartChat(r) \/ EndChat(r) \/ Prepare(r)
                       \/ LoopSettles(r) \/ Settle(r) \/ Failure(r) \/ Withdraw(r)
    \/ \E s \in Runs : Watchdog(s)
    \/ Stop \/ Remount

\* The awaits of a run end (the embedding has a timeout of its own), and a cancelled
\* loop settles (PlanningRun!CancelSettles); one nobody cancelled may take for ever.
Fairness == \A r \in Runs : /\ WF_vars(Prepare(r) \/ Settle(r))
                            /\ WF_vars(LoopSettles(r) /\ service[uses[r]].loop = "cancelled")

Spec == Init /\ [][Next]_vars
FairSpec == Spec /\ Fairness

-----------------------------------------------------------------------------
(* Properties.                                                             *)

\* While a run is inside processMessage it holds the lock of its service, and the
\* session is the one it filled: no newer run, reset or destruction reached it
\* (AgentService.ts:325-326).
SessionBelongsToRun ==
    \A r \in Runs : stage[r] \in Locked =>
        service[uses[r]].activeRun = r /\ service[uses[r]].session = r

\* The lock of a service is never left behind: whoever holds it is inside processMessage.
LockIsHeldInside ==
    \A s \in Runs : Unsettled(s) =>
        stage[service[s].activeRun] \in Locked /\ uses[service[s].activeRun] = s

\* The lock and what it guards agree at all times.
LockGuardsSession == SessionBelongsToRun /\ LockIsHeldInside

\* Though a stop frees the send slot at once and a timed-out service is replaced, no
\* two loops of a context run for the user at the same time.
OneLiveLoop ==
    \A r, q \in Runs : r # q /\ stage[r] = "looping" /\ stage[q] = "looping" =>
        "cancelled" \in {service[uses[r]].loop, service[uses[q]].loop}

\* The input is not blocked for ever: who holds the send slot has not ended.
SlotIsReturned == sending # None => stage[sending] # "done"

\* The runs of a context take turns: one at a time, and nobody keeps the turn.
RunsTakeTurns == OneLiveLoop /\ SlotIsReturned

\* Answers and errors appear in the order of their requests, though a stopped run may
\* settle after its successor.
MessagesInOrder ==
    \A i, j \in DOMAIN published : i < j => published[i].run < published[j].run

Answered(r) == \E i \in DOMAIN published : published[i] = [run |-> r, kind |-> "answer"]

\* No answer is added for a request the user has withdrawn meanwhile.
NoAnswerAfterWithdrawal == [][\A r \in withdrawn : ~Answered(r) => ~Answered(r)']_vars

\* A stop request stops: the run it reached never enters or continues its loop,
\* even when it had no service yet (usePlanningMode.ts:750, "pre-cancel guard").
HonoursStop(r) == stage[r] = "looping" => service[uses[r]].loop = "cancelled"
StopIsHonoured == \A r \in stopped : HonoursStop(r)

\* A stop is meant for the run the user looks at, whichever view started it.  It does not hold
\* (README, "Divergences").
EveryStopReaches == [][Stop => \A r \in Runs : r = latest /\ Live(r) => r \in stopped']_vars

\* The IM task behind a run learns how the run ended, also when the desktop user stops
\* it: without that the card of the IM client hangs for ever (usePlanningMode.ts:1771-1772).
\* It does not hold (README, "Divergences").
StopNotifiesIm ==
    [][\A r \in stopped : stage'[r] = "done" => r \in notified]_vars

\* A run that a stop reached does not go on, and comes to its end although the loop owes no
\* answer by itself.
StopSettles ==
    \A r \in Runs : [](r \in stopped => HonoursStop(r) /\ <>(stage[r] = "done"))
=============================================================================
