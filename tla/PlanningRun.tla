----------------------------- MODULE PlanningRun -----------------------------
(***************************************************************************)
(* One planning run: AgentLoop.run() driving the FSM of                    *)
(* AgentLoopFSMIntegration through the Master Brain, the sub-agents and    *)
(* the LoopGovernor, with a user who may cancel it.                        *)
(*                                                                         *)
(* JavaScript runs one task at a time, so another actor interleaves with   *)
(* the run only where it waits on the outside world.  Those waits are the  *)
(* phases "persisting" (the avatar is being written), "handler" in         *)
(* MASTER_DECISION (the LLM) and in DISPATCH (the sub-agent), and          *)
(* "returning" (the second skill retrieval after a decision).              *)
(***************************************************************************)
EXTENDS Integers

CONSTANTS
    FsmBudget,      \* LOOP_GOVERNOR_INITIAL_BUDGET, the rounds of FSMContext.loopBudget
    MbBudget,       \* mbDecisionBudget, the rounds of the LoopGovernor of this agent
    MaxIterations,  \* AGENT_LOOP_MAX_ITERATIONS, the FSM step limit
    NoProgressLimit,\* consecutive rounds without progress either counter accepts
    MaxSpawnRetries \* MAX_SPAWN_RETRIES, failed sub-agents before the breaker

ASSUME BudgetAssumption == FsmBudget \in Nat \ {0} /\ MbBudget \in Nat \ {0}
ASSUME LimitAssumption ==
    /\ MaxIterations \in Nat \ {0}
    /\ NoProgressLimit \in Nat \ {0}
    /\ MaxSpawnRetries \in Nat

VARIABLES
    phase,      \* where AgentLoop.runWithFSM and integration.run() stand
    fsm,        \* FSMEngine.state
    event,      \* FSMEngine.eventQueue: a handler sends one event, a step takes it
    ctx,        \* FSMContext: loopBudget, consecutiveNoProgress, currentDecision
    governor,   \* LoopGovernor: budget, consecutiveNoProgress, subAgentCount
    shared,     \* the fields syncSharedState copies between handlers
    steps,      \* stepCount of integration.run()
    cancelled,  \* AgentLoopFSMIntegration.cancelled and its abortController
    aborted,    \* AgentLoop.runAbortController.signal.aborted
    result      \* the terminationReason of the AgentLoopResult

vars == <<phase, fsm, event, ctx, governor, shared, steps, cancelled, aborted, result>>

-----------------------------------------------------------------------------
States == {"IDLE", "PREPARE_CONTEXT", "MASTER_DECISION", "DISPATCH",
           "OBSERVE", "EVALUATE", "TERMINATE"}
Handled == States \ {"IDLE", "TERMINATE"}

Decisions == {"RESPOND_TO_USER", "SPAWN_SUB_AGENT", "REQUEST_MORE_INPUT"}
NoDecision == "no decision"

\* CONTEXT_ERROR, AGENT_OUTPUT and AGENT_ERROR have transitions too, but no handler sends
\* the last two, and nothing in the try block of handlePrepareContext throws.
EventTypes == {"USER_REQUEST", "CONTEXT_READY", "DECISION_RECEIVED", "DECISION_INVALID",
               "ACTION_COMPLETED", "ACTION_FAILED", "CONTINUE", "TIMEOUT"}
NoEvent == [type |-> "none", decision |-> NoDecision]
Event(t) == [type |-> t, decision |-> NoDecision]
Received(d) == [type |-> "DECISION_RECEIVED", decision |-> d]

\* How a sub-agent ends: completed, failed after tool calls, failed without any.
Outcomes == {"completed", "partial", "failed"}

Reasons == {"text_response", "awaiting_interaction", "budget_exhausted",
            "max_iterations", "cancelled", "error"}
NoReason == "undetermined"

Phases == {"idle", "persisting", "head", "handler", "returning", "settled"}
Waiting == \/ phase \in {"persisting", "returning"}
           \/ phase = "handler" /\ fsm \in {"MASTER_DECISION", "DISPATCH"}

-----------------------------------------------------------------------------
(***************************************************************************)
(* FSMEngine.step: the transition table of createAgentServiceFSMDefinition *)
(* and the actions its transitions run on the context.  An event without a *)
(* transition is dropped and leaves the state alone.  The guards on        *)
(* toolCallHistory and subAgentSpawnCount never hold: nothing in a run     *)
(* writes those two fields.                                                *)
(***************************************************************************)
DefaultContext == [loopBudget |-> FsmBudget, noProgress |-> 0, decision |-> NoDecision]

EvaluateTarget(c) == IF c.loopBudget <= 0 \/ c.noProgress >= NoProgressLimit
                       THEN "TERMINATE" ELSE "PREPARE_CONTEXT"

Target(s, t, c) ==
    CASE s = "IDLE" /\ t = "USER_REQUEST" /\ c.loopBudget > 0 -> "PREPARE_CONTEXT"
      [] s = "PREPARE_CONTEXT" /\ t = "CONTEXT_READY"      -> "MASTER_DECISION"
      [] s = "MASTER_DECISION" /\ t = "DECISION_RECEIVED"  -> "DISPATCH"
      [] s = "MASTER_DECISION" /\ t = "DECISION_INVALID"   -> "TERMINATE"
      [] s = "DISPATCH" /\ t \in {"ACTION_COMPLETED", "ACTION_FAILED"} -> "OBSERVE"
      [] s = "OBSERVE" /\ t = "CONTINUE"                   -> "EVALUATE"
      [] s \in {"OBSERVE", "EVALUATE"} /\ t = "TIMEOUT"    -> "TERMINATE"
      [] s = "EVALUATE" /\ t = "CONTINUE"                  -> EvaluateTarget(c)
      [] OTHER                                             -> s

DecrementBudget(c) == IF c.loopBudget > 0
                        THEN [c EXCEPT !.loopBudget = @ - 1] ELSE c

TransitionActions(s, e, c) ==
    CASE e.type = "USER_REQUEST"      -> [c EXCEPT !.loopBudget = FsmBudget]
      [] e.type = "DECISION_RECEIVED" -> [c EXCEPT !.decision = e.decision]
      [] e.type = "ACTION_COMPLETED"  -> [c EXCEPT !.noProgress = 0]
      [] e.type \in {"DECISION_INVALID", "ACTION_FAILED"} -> [c EXCEPT !.noProgress = @ + 1]
      [] s = "EVALUATE" /\ e.type = "CONTINUE" /\ EvaluateTarget(c) = "PREPARE_CONTEXT"
                                      -> DecrementBudget(c)
      [] OTHER                        -> c

-----------------------------------------------------------------------------
(***************************************************************************)
(* LoopGovernor.evaluate.  maxSubAgents follows the initial budget; tools  *)
(* and risk never stop the loop, since no caller reports any.              *)
(***************************************************************************)
FreshGovernor == [budget |-> MbBudget, noProgress |-> 0, subAgents |-> 0]

\* Mutant of MaxSubAgents.
DefaultMaxSubAgents == 5
MaxSubAgents == MbBudget

Observed(g, madeProgress, spawned) ==
    [g EXCEPT !.noProgress = IF madeProgress THEN 0 ELSE @ + 1,
              !.subAgents  = IF spawned THEN @ + 1 ELSE @]

Verdict(g) ==
    IF g.noProgress >= NoProgressLimit THEN "consecutive_no_progress"
    ELSE IF g.subAgents > MaxSubAgents THEN "over_delegation"
    ELSE IF g.budget - 1 <= 0          THEN "budget_exhausted"
    ELSE "CONTINUE"

Spent(g) == IF Verdict(g) \in {"budget_exhausted", "CONTINUE"}
              THEN [g EXCEPT !.budget = @ - 1] ELSE g

MapGovernorReason(v) == IF v = "budget_exhausted" THEN "budget_exhausted" ELSE "max_iterations"

-----------------------------------------------------------------------------
(***************************************************************************)
(* The state handlers.  Each works on a snapshot of the shared fields and  *)
(* writes it back when it returns its event to the queue.                  *)
(***************************************************************************)
FreshShared == [reason |-> NoReason, spec |-> FALSE, spawnCount |-> 0,
                madeProgress |-> TRUE, spawned |-> FALSE]

InHandler(s) == phase = "handler" /\ fsm = s

Return(e) == /\ event' = e
             /\ phase' = "head"
             /\ UNCHANGED <<fsm, ctx, steps, cancelled, aborted, result>>

PrepareContext ==
    /\ InHandler("PREPARE_CONTEXT")
    /\ Return(Event("CONTEXT_READY"))
    /\ UNCHANGED <<governor, shared>>

\* Mutant of LlmMayAnswer.
AnswersAnyway == TRUE
\* runWithLocalCancellation: an aborted run gets no answer from the LLM any more.
LlmMayAnswer == ~aborted

\* Mutant of LlmIsRejected.
IgnoresAbort == FALSE
LlmIsRejected == aborted

\* The building of the input or the LLM call fails, or the decision does not parse.
MbFails ==
    /\ InHandler("MASTER_DECISION")
    /\ Return(Event("DECISION_INVALID"))
    /\ UNCHANGED <<governor, shared>>

\* DecisionMapper.map and the copy of its side effects.
MapDecision(d) ==
    CASE d = "RESPOND_TO_USER"    -> [shared EXCEPT !.reason = "text_response",
                                                    !.madeProgress = TRUE]
      [] d = "SPAWN_SUB_AGENT"    -> [shared EXCEPT !.spec = TRUE]
      [] d = "REQUEST_MORE_INPUT" -> [shared EXCEPT !.reason = "awaiting_interaction"]

MbDecides(d) ==
    /\ InHandler("MASTER_DECISION")
    /\ LlmMayAnswer
    /\ shared' = MapDecision(d)
    /\ event' = Received(d)
    /\ phase' = "returning"
    /\ UNCHANGED <<fsm, ctx, governor, steps, cancelled, aborted, result>>

\* The second skill retrieval ends, whatever it finds.
ReturnDecision ==
    /\ phase = "returning"
    /\ phase' = "head"
    /\ UNCHANGED <<fsm, event, ctx, governor, shared, steps, cancelled, aborted, result>>

BreakerTrips == shared.spawnCount > MaxSpawnRetries

SubAgentRuns == InHandler("DISPATCH") /\ shared.spec /\ ~BreakerTrips

\* Mutant of AfterSubAgent.
AfterSubAgentKeepingSpec(o) ==
    [shared EXCEPT !.spawnCount   = IF o = "completed" THEN 0 ELSE @ + 1,
                   !.madeProgress = o # "failed",
                   !.spawned      = TRUE]
\* buildDispatchResult and the bookkeeping of handleDispatch after the await.
AfterSubAgent(o) ==
    [shared EXCEPT !.spawnCount   = IF o = "completed" THEN 0 ELSE @ + 1,
                   !.madeProgress = o # "failed",
                   !.spawned      = TRUE,
                   !.spec         = FALSE]

SaSettles(o) ==
    /\ SubAgentRuns
    /\ shared' = AfterSubAgent(o)
    /\ Return(Event(IF o = "completed" THEN "ACTION_COMPLETED" ELSE "ACTION_FAILED"))
    /\ UNCHANGED governor

SpawnBreaker ==
    /\ InHandler("DISPATCH") /\ shared.spec /\ BreakerTrips
    /\ shared' = [shared EXCEPT !.reason = "text_response", !.spec = FALSE]
    /\ Return(Event("ACTION_COMPLETED"))
    /\ UNCHANGED governor

\* RESPOND_TO_USER, REQUEST_MORE_INPUT, or nothing to execute.
AnswerUser ==
    /\ InHandler("DISPATCH") /\ ~shared.spec
    /\ shared' = CASE ctx.decision = "RESPOND_TO_USER" ->
                        [shared EXCEPT !.reason = "text_response", !.madeProgress = TRUE]
                   [] ctx.decision = "REQUEST_MORE_INPUT" ->
                        [shared EXCEPT !.reason = "awaiting_interaction", !.madeProgress = TRUE]
                   [] OTHER -> shared
    /\ Return(Event("ACTION_COMPLETED"))
    /\ UNCHANGED governor

MustStop == shared.reason \in {"awaiting_interaction", "text_response"}

Observe ==
    /\ InHandler("OBSERVE")
    /\ Return(Event(IF MustStop THEN "TIMEOUT" ELSE "CONTINUE"))
    /\ UNCHANGED <<governor, shared>>

Evaluate ==
    /\ InHandler("EVALUATE")
    /\ IF MustStop
         THEN Return(Event("TIMEOUT")) /\ UNCHANGED <<governor, shared>>
         ELSE LET seen  == Observed(governor, shared.madeProgress, shared.spawned)
                  v     == Verdict(seen)
                  clean == [shared EXCEPT !.madeProgress = FALSE, !.spawned = FALSE]
              IN  /\ governor' = Spent(seen)
                  /\ shared' = IF v = "CONTINUE" THEN clean
                               ELSE [clean EXCEPT !.reason = MapGovernorReason(v)]
                  /\ Return(Event(IF v = "CONTINUE" THEN "CONTINUE" ELSE "TIMEOUT"))

-----------------------------------------------------------------------------
(***************************************************************************)
(* AgentLoop.runWithFSM and the loop of AgentLoopFSMIntegration.run.       *)
(***************************************************************************)
Init ==
    /\ phase = "idle"
    /\ fsm = "IDLE"
    /\ event = NoEvent
    /\ ctx = DefaultContext
    /\ governor = FreshGovernor
    /\ shared = FreshShared
    /\ steps = 0
    /\ cancelled = FALSE
    /\ aborted = FALSE
    /\ result = NoReason

Run ==
    /\ phase = "idle"
    /\ phase' = "persisting"
    /\ UNCHANGED <<fsm, event, ctx, governor, shared, steps, cancelled, aborted, result>>

\* reset() of the integration, which also forgets an earlier cancel(), and the
\* first event.  runAbortController is not replaced.  The two flags of the last
\* action are not reset either; an AgentLoop runs once, so they are still fresh.
StartFsm ==
    /\ phase = "persisting"
    /\ phase' = "head"
    /\ fsm' = "IDLE"
    /\ event' = Event("USER_REQUEST")
    /\ ctx' = DefaultContext
    /\ governor' = FreshGovernor
    /\ shared' = [shared EXCEPT !.reason = NoReason, !.spec = FALSE, !.spawnCount = 0]
    /\ steps' = 0
    /\ cancelled' = FALSE
    /\ UNCHANGED <<aborted, result>>

Settle(r) ==
    /\ phase' = "settled"
    /\ result' = r
    /\ UNCHANGED <<fsm, event, ctx, governor, shared, steps, cancelled, aborted>>

AtHead == phase = "head" /\ fsm # "TERMINATE"

\* Mutant of CancelSeen.
CancelUnseen == FALSE
CancelSeen == cancelled

LoopExit ==
    /\ phase = "head" /\ fsm = "TERMINATE"
    /\ Settle(IF shared.reason = NoReason THEN "text_response" ELSE shared.reason)

LoopCancelled == AtHead /\ CancelSeen /\ Settle("cancelled")

LoopOverrun == AtHead /\ ~CancelSeen /\ steps + 1 > MaxIterations /\ Settle("max_iterations")

LoopStep ==
    /\ AtHead /\ ~CancelSeen /\ steps + 1 <= MaxIterations
    /\ steps' = steps + 1
    /\ event' = NoEvent
    /\ fsm' = Target(fsm, event.type, ctx)
    /\ ctx' = TransitionActions(fsm, event, ctx)
    /\ phase' = IF fsm' \in Handled THEN "handler" ELSE "head"
    /\ UNCHANGED <<governor, shared, cancelled, aborted, result>>

\* A callback or the session throws out of the dispatch: both catch blocks run.
DispatchThrows ==
    /\ SubAgentRuns
    /\ Settle(IF aborted THEN "cancelled" ELSE "error")

\* The user cancels.  A second request reaches the integration again.
Cancel ==
    /\ Waiting /\ ~cancelled
    /\ aborted' = TRUE
    /\ cancelled' = TRUE
    /\ UNCHANGED <<phase, fsm, event, ctx, governor, shared, steps, result>>

Done == phase = "settled" /\ UNCHANGED vars

Loop == LoopExit \/ LoopCancelled \/ LoopOverrun \/ LoopStep
Handlers == \/ PrepareContext \/ MbFails \/ ReturnDecision \/ SpawnBreaker
            \/ AnswerUser \/ Observe \/ Evaluate \/ DispatchThrows
            \/ \E d \in Decisions : MbDecides(d)
            \/ \E o \in Outcomes : SaSettles(o)

Next == Run \/ StartFsm \/ Loop \/ Handlers \/ Cancel \/ Done

\* What runs without the outside world, or waits on local I/O that always ends.
Internal == \/ StartFsm \/ Loop \/ PrepareContext \/ ReturnDecision
            \/ SpawnBreaker \/ AnswerUser \/ Observe \/ Evaluate

\* The LLM and a sub-agent owe the run no answer until it is aborted.
AbortSettlesWait ==
    \/ LlmIsRejected /\ MbFails
    \/ aborted /\ \E o \in Outcomes : SaSettles(o)

Fairness == WF_vars(Internal) /\ WF_vars(AbortSettlesWait)

Spec == Init /\ [][Next]_vars
FairSpec == Spec /\ Fairness

-----------------------------------------------------------------------------
\* The type invariant of the run.
TypeOK ==
    /\ phase \in Phases
    /\ fsm \in States
    /\ event \in [type : EventTypes \cup {"none"}, decision : Decisions \cup {NoDecision}]
    /\ ctx \in [loopBudget : 0..FsmBudget, noProgress : Nat,
                decision : Decisions \cup {NoDecision}]
    /\ governor \in [budget : 0..MbBudget, noProgress : Nat, subAgents : Nat]
    /\ shared \in [reason : Reasons \cup {NoReason}, spec : BOOLEAN, spawnCount : Nat,
                   madeProgress : BOOLEAN, spawned : BOOLEAN]
    /\ steps \in 0..MaxIterations
    /\ cancelled \in BOOLEAN
    /\ aborted \in BOOLEAN
    /\ result \in Reasons \cup {NoReason}

\* FSM steps of a whole run: one into the first round, five per round, and the
\* step a round may still be short of when the loop looks at the limit.
StepsNeeded == 5 * (FsmBudget + 1) + 1

\* The step limit is defence in depth (PlanningConstants.ts:105-108): as long as it
\* covers the rounds of the FSM budget, a run never reaches it, so the FSM's own
\* budget stops every loop whatever the Master Brain and the governor answer.
SafetyValveUnused ==
    MaxIterations >= StepsNeeded => ~(AtHead /\ steps + 1 > MaxIterations)

\* handleDispatch runs a pending spec before it looks at the decision.  That is
\* right only while a spec is pending exactly for the decision just stored: a spec
\* left over from an earlier round would hijack an answer to the user.
DecisionHonoured ==
    InHandler("DISPATCH") => (shared.spec <=> ctx.decision = "SPAWN_SUB_AGENT")

\* Once the user has cancelled, no further sub-agent is dispatched, not even when the
\* cancel fell into a wait whose end resets the cancelled flag of the integration.
NoSpawnAfterCancel == [][~SubAgentRuns /\ SubAgentRuns' => ~aborted]_vars

\* A cancel the integration has recorded is what the run reports.
CancelIsReported == phase = "settled" /\ cancelled => result = "cancelled"

\* maxSubAgents follows the budget, so that delegating every round is no reason to
\* stop (LoopGovernor.ts:166-169): the governor gives up early only without progress.
GovernorStopsOnlyStalledLoops ==
    [][InHandler("EVALUATE") /\ shared'.reason = "max_iterations"
        => governor'.noProgress >= NoProgressLimit]_vars

\* When the governor says CONTINUE the loop goes on: the rounds are those of the agent's
\* mbDecisionBudget (AgentLoopFSMIntegration.ts:122-129), not of the FSM context.  It does not
\* hold for budgets of ten and more (README, "Findings").
GovernorDecidesRounds ==
    [][fsm = "EVALUATE" /\ event.type = "CONTINUE" /\ ctx.noProgress < NoProgressLimit
        => fsm' # "TERMINATE"]_vars

\* A run that was cancelled reports it, whenever the cancel came.  It does not hold: a cancel
\* before StartFsm is forgotten (README, "Divergences").
EveryCancelIsReported == phase = "settled" /\ aborted => result = "cancelled"

\* A cancelled run settles, though nothing makes an LLM or a sub-agent answer.
CancelSettles == aborted ~> (phase = "settled")
=============================================================================
