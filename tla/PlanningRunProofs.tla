------------------------- MODULE PlanningRunProofs -------------------------
(***************************************************************************)
(* Safety of PlanningRun for every value of its constants.                 *)
(*                                                                         *)
(* The properties are not inductive: they follow from where the run stands *)
(* (which event a handler may have left for which FSM state), from how the *)
(* step counter, the FSM budget and the governor's budget move together,   *)
(* and from what a pending spec and the cancel flags say of that place.    *)
(***************************************************************************)
EXTENDS PlanningRefinement, TLAPS

\* The events a handler leaves behind: each has a transition in its state.
EventsOf(s) ==
    CASE s = "IDLE"            -> {"USER_REQUEST"}
      [] s = "PREPARE_CONTEXT" -> {"CONTEXT_READY"}
      [] s = "MASTER_DECISION" -> {"DECISION_RECEIVED", "DECISION_INVALID"}
      [] s = "DISPATCH"        -> {"ACTION_COMPLETED", "ACTION_FAILED"}
      [] s = "OBSERVE"         -> {"CONTINUE", "TIMEOUT"}
      [] s = "EVALUATE"        -> {"CONTINUE", "TIMEOUT"}
      [] s = "TERMINATE"       -> EventTypes \cup {"none"}

Control ==
    /\ phase \in {"idle", "persisting"} => fsm = "IDLE" /\ steps = 0 /\ shared = FreshShared
    /\ fsm = "IDLE" => ctx = DefaultContext
    /\ phase = "head" => event.type \in EventsOf(fsm)
    /\ phase = "handler" => fsm \in Handled
    /\ phase = "returning" => fsm = "MASTER_DECISION" /\ event.type = "DECISION_RECEIVED"

\* The governor is asked again only while it has budget left.
GovernorBudget ==
    governor.budget = 0 => \/ phase = "settled" \/ fsm = "TERMINATE"
                           \/ phase = "head" /\ fsm = "EVALUATE" /\ event.type = "TIMEOUT"

\* Steps taken when a handler of the state runs, beyond the rounds already paid for.
Position(s) ==
    CASE s = "IDLE"            -> 0
      [] s = "PREPARE_CONTEXT" -> 1
      [] s = "MASTER_DECISION" -> 2
      [] s = "DISPATCH"        -> 3
      [] s = "OBSERVE"         -> 4
      [] s = "EVALUATE"        -> 5
      [] s = "TERMINATE"       -> 6

StepCount ==
    phase \in {"head", "handler", "returning"} /\ fsm # "TERMINATE"
        => steps = 5 * (FsmBudget - ctx.loopBudget) + Position(fsm)

SpawnDecided == /\ phase \in {"head", "returning"} /\ fsm = "MASTER_DECISION"
                /\ event.type = "DECISION_RECEIVED" /\ event.decision = "SPAWN_SUB_AGENT"
SpawnStored == InHandler("DISPATCH") /\ ctx.decision = "SPAWN_SUB_AGENT"

SpecPending ==
    /\ shared.spec => SpawnDecided \/ SpawnStored \/ phase = "settled"
    /\ SpawnDecided \/ SpawnStored => shared.spec

\* A cancel the loop may not have seen yet finds the run waiting, or just returned.
CancelFlags ==
    /\ cancelled => aborted
    /\ phase \in {"head", "handler"} /\ cancelled => fsm \in {"MASTER_DECISION", "DISPATCH"}
    /\ /\ phase \in {"head", "returning"} /\ fsm = "MASTER_DECISION"
       /\ event.type = "DECISION_RECEIVED" /\ aborted
       => cancelled

IInv == /\ TypeOK /\ Control /\ GovernorBudget /\ StepCount
        /\ SpecPending /\ CancelFlags /\ CancelIsReported

-----------------------------------------------------------------------------
USE DEF InHandler

\* A run starts with fresh budgets, no spec and nothing cancelled.
LEMMA InitInvariant == Init => IInv
<1> SUFFICES ASSUME Init PROVE IInv
  OBVIOUS
<1> USE DEF Init
<1>1. TypeOK
  <2>1. phase \in Phases /\ fsm \in States
    BY DEF Phases, States
  <2>2. event \in [type : EventTypes \cup {"none"}, decision : Decisions \cup {NoDecision}]
    BY DEF NoEvent
  <2>3. ctx \in [loopBudget : 0..FsmBudget, noProgress : Nat,
                 decision : Decisions \cup {NoDecision}]
    BY BudgetAssumption DEF DefaultContext
  <2>4. governor \in [budget : 0..MbBudget, noProgress : Nat, subAgents : Nat]
    BY BudgetAssumption DEF FreshGovernor
  <2>5. shared \in [reason : Reasons \cup {NoReason}, spec : BOOLEAN, spawnCount : Nat,
                    madeProgress : BOOLEAN, spawned : BOOLEAN]
    BY DEF FreshShared
  <2>6. steps \in 0..MaxIterations
    BY LimitAssumption
  <2> QED
    BY <2>1, <2>2, <2>3, <2>4, <2>5, <2>6 DEF TypeOK
<1>2. Control
  BY DEF Control
<1>3. GovernorBudget
  BY BudgetAssumption DEF GovernorBudget, FreshGovernor
<1>4. StepCount
  BY DEF StepCount
<1>5. SpecPending
  BY DEF SpecPending, SpawnDecided, SpawnStored, FreshShared
<1>6. CancelFlags /\ CancelIsReported
  BY DEF CancelFlags, CancelIsReported
<1> QED
  BY <1>1, <1>2, <1>3, <1>4, <1>5, <1>6 DEF IInv

-----------------------------------------------------------------------------
\* What a step of the engine does to the state, event by event.
LEMMA EngineStep ==
  ASSUME TypeOK, Control, LoopStep
  PROVE  \/ fsm = "IDLE" /\ fsm' = "PREPARE_CONTEXT"
            /\ ctx' = [ctx EXCEPT !.loopBudget = FsmBudget]
         \/ fsm = "PREPARE_CONTEXT" /\ fsm' = "MASTER_DECISION" /\ ctx' = ctx
         \/ fsm = "MASTER_DECISION" /\ event.type = "DECISION_RECEIVED"
            /\ fsm' = "DISPATCH" /\ ctx' = [ctx EXCEPT !.decision = event.decision]
         \/ fsm = "MASTER_DECISION" /\ event.type = "DECISION_INVALID"
            /\ fsm' = "TERMINATE" /\ ctx' = [ctx EXCEPT !.noProgress = @ + 1]
         \/ fsm = "DISPATCH" /\ fsm' = "OBSERVE" /\ \E n \in {0, ctx.noProgress + 1} :
                                    ctx' = [ctx EXCEPT !.noProgress = n]
         \/ fsm = "OBSERVE" /\ fsm' \in {"EVALUATE", "TERMINATE"} /\ ctx' = ctx
         \/ fsm = "EVALUATE" /\ fsm' = "TERMINATE" /\ ctx' = ctx
         \/ fsm = "EVALUATE" /\ event.type = "CONTINUE" /\ ctx.loopBudget > 0
            /\ fsm' = "PREPARE_CONTEXT" /\ ctx' = [ctx EXCEPT !.loopBudget = @ - 1]
<1> USE DEF LoopStep, AtHead, TypeOK, Control, States, TransitionActions, Target, EventsOf
<1>1. CASE fsm = "IDLE"
  BY <1>1, BudgetAssumption DEF DefaultContext
<1>2. CASE fsm = "PREPARE_CONTEXT"
  BY <1>2
<1>3. CASE fsm = "MASTER_DECISION"
  BY <1>3
<1>4. CASE fsm = "DISPATCH"
  BY <1>4
<1>5. CASE fsm = "OBSERVE"
  BY <1>5
<1>6. CASE fsm = "EVALUATE"
  BY <1>6 DEF EvaluateTarget, DecrementBudget
<1> QED
  BY <1>1, <1>2, <1>3, <1>4, <1>5, <1>6

\* One iteration of integration.run(): an FSM step, and the handler of the new state.
LEMMA LoopStepInvariant == IInv /\ LoopStep => IInv'
<1> SUFFICES ASSUME IInv, LoopStep PROVE IInv'
  OBVIOUS
<1> USE DEF LoopStep, AtHead, CancelSeen
<1>0. TypeOK /\ Control /\ StepCount /\ CancelFlags
  BY DEF IInv
<1>t. TypeOK'
  <2>1. fsm' \in States /\ ctx' \in [loopBudget : 0..FsmBudget, noProgress : Nat,
                                     decision : Decisions \cup {NoDecision}]
    BY <1>0, EngineStep, BudgetAssumption DEF TypeOK, States
  <2>2. steps' \in 0..MaxIterations
    BY <1>0, LimitAssumption DEF TypeOK
  <2> QED
    BY <1>0, <2>1, <2>2 DEF TypeOK, Phases, NoEvent
<1>c. Control'
  BY <1>0, EngineStep DEF Control, EventsOf, Handled, States, NoEvent
<1>g. GovernorBudget'
  BY <1>0, EngineStep DEF IInv, GovernorBudget
<1>s. StepCount'
  BY <1>0, EngineStep, BudgetAssumption DEF StepCount, Position, TypeOK, Control, DefaultContext
<1>p. SpecPending'
  BY <1>0, EngineStep DEF IInv, SpecPending, SpawnDecided, SpawnStored, NoEvent, Handled, States, TypeOK
<1>f. CancelFlags' /\ CancelIsReported'
  BY <1>0, EngineStep DEF IInv, CancelFlags, CancelIsReported, NoEvent
<1> QED
  BY <1>t, <1>c, <1>g, <1>s, <1>p, <1>f DEF IInv

-----------------------------------------------------------------------------
\* The handlers and the ends of the run, each disturbing only a few parts of IInv.

\* The four ways integration.run() ends.
LEMMA SettleInvariant == IInv /\ (LoopExit \/ LoopCancelled \/ LoopOverrun \/ DispatchThrows) => IInv'
<1> SUFFICES ASSUME IInv, LoopExit \/ LoopCancelled \/ LoopOverrun \/ DispatchThrows
    PROVE  IInv'
  OBVIOUS
<1>1. PICK r \in Reasons : Settle(r) /\ (cancelled => r = "cancelled")
  <2>1. shared.reason \in Reasons \cup {NoReason}
    BY DEF IInv, TypeOK
  <2>2. CASE LoopExit
    BY <2>1, <2>2 DEF LoopExit, Reasons, IInv, CancelFlags
  <2>3. CASE LoopCancelled \/ LoopOverrun
    BY <2>3 DEF LoopCancelled, LoopOverrun, CancelSeen, Reasons
  <2>4. CASE DispatchThrows
    BY <2>4 DEF DispatchThrows, Reasons, IInv, CancelFlags
  <2> QED
    BY <2>2, <2>3, <2>4
<1> USE DEF Settle
<1>2. TypeOK'
  BY <1>1 DEF IInv, TypeOK, Phases
<1>3. Control' /\ GovernorBudget' /\ StepCount'
  BY <1>1 DEF IInv, Control, GovernorBudget, StepCount
<1>4. SpecPending' /\ CancelFlags' /\ CancelIsReported'
  BY <1>1 DEF IInv, SpecPending, SpawnDecided, SpawnStored, CancelFlags, CancelIsReported
<1> QED
  BY <1>2, <1>3, <1>4 DEF IInv

\* A handler that leaves the governor and the pending spec alone.
LEMMA PlainHandlerInvariant ==
  IInv /\ (PrepareContext \/ MbFails \/ Observe) => IInv'
<1> SUFFICES ASSUME IInv, PrepareContext \/ MbFails \/ Observe PROVE IInv'
  OBVIOUS
<1>1. PICK t \in EventsOf(fsm) : Return(Event(t)) /\ t # "DECISION_RECEIVED"
  BY DEF PrepareContext, MbFails, Observe, EventsOf
<1>2. UNCHANGED <<governor, shared>> /\ phase = "handler" /\ fsm # "DISPATCH" /\ t \in EventTypes
  BY <1>1 DEF PrepareContext, MbFails, Observe, EventsOf, EventTypes
<1> USE DEF Return, Event
<1>3. TypeOK'
  BY <1>1, <1>2 DEF IInv, TypeOK, Phases
<1>4. Control' /\ GovernorBudget' /\ StepCount'
  BY <1>1, <1>2 DEF IInv, Control, GovernorBudget, StepCount, Handled
<1>5. SpecPending' /\ CancelFlags' /\ CancelIsReported'
  BY <1>1, <1>2 DEF IInv, SpecPending, SpawnDecided, SpawnStored, CancelFlags, CancelIsReported
<1> QED
  BY <1>3, <1>4, <1>5 DEF IInv

\* The Master Brain answers, fails or is cut off by a cancel.
LEMMA DecisionInvariant ==
  IInv /\ (ReturnDecision \/ \E d \in Decisions : MbDecides(d)) => IInv'
<1>1. ASSUME IInv, ReturnDecision PROVE IInv'
  <2> USE <1>1 DEF ReturnDecision
  <2>1. TypeOK' /\ Control'
    BY DEF IInv, TypeOK, Phases, Control, EventsOf
  <2>2. GovernorBudget' /\ StepCount'
    BY DEF IInv, GovernorBudget, StepCount
  <2>3. SpecPending' /\ CancelFlags' /\ CancelIsReported'
    BY DEF IInv, Control, SpecPending, SpawnDecided, SpawnStored, CancelFlags, CancelIsReported
  <2> QED
    BY <2>1, <2>2, <2>3 DEF IInv
<1>2. ASSUME IInv, NEW d \in Decisions, MbDecides(d) PROVE IInv'
  <2> USE <1>2 DEF MbDecides, Received, LlmMayAnswer
  <2>1. /\ shared' \in [reason : Reasons \cup {NoReason}, spec : BOOLEAN, spawnCount : Nat,
                        madeProgress : BOOLEAN, spawned : BOOLEAN]
        /\ shared'.spec <=> (d = "SPAWN_SUB_AGENT" \/ shared.spec)
    BY DEF IInv, TypeOK, MapDecision, Decisions, Reasons
  <2>2. TypeOK'
    BY <2>1 DEF IInv, TypeOK, Phases, EventTypes
  <2>3. Control' /\ GovernorBudget' /\ StepCount'
    BY DEF IInv, Control, GovernorBudget, StepCount
  <2>4. SpecPending' /\ CancelFlags' /\ CancelIsReported'
    BY <2>1 DEF IInv, SpecPending, SpawnDecided, SpawnStored, CancelFlags, CancelIsReported
  <2> QED
    BY <2>2, <2>3, <2>4 DEF IInv
<1> QED
  BY <1>1, <1>2

\* handleDispatch: an answer to the user, the breaker, or a sub-agent and its outcome.
LEMMA DispatchInvariant ==
  IInv /\ (SpawnBreaker \/ AnswerUser \/ \E o \in Outcomes : SaSettles(o)) => IInv'
<1> SUFFICES ASSUME IInv, SpawnBreaker \/ AnswerUser \/ \E o \in Outcomes : SaSettles(o)
    PROVE  IInv'
  OBVIOUS
<1>1. shared \in [reason : Reasons \cup {NoReason}, spec : BOOLEAN, spawnCount : Nat,
                  madeProgress : BOOLEAN, spawned : BOOLEAN]
  BY DEF IInv, TypeOK
<1>2. /\ InHandler("DISPATCH") /\ UNCHANGED governor
      /\ \E t \in EventsOf("DISPATCH") : Return(Event(t))
      /\ shared' \in [reason : Reasons \cup {NoReason}, spec : BOOLEAN, spawnCount : Nat,
                      madeProgress : BOOLEAN, spawned : BOOLEAN]
      /\ ~shared'.spec
  <2>1. CASE SpawnBreaker
    BY <1>1, <2>1 DEF SpawnBreaker, EventsOf, Reasons
  <2>2. CASE AnswerUser
    BY <1>1, <2>2 DEF AnswerUser, EventsOf, Reasons
  <2>3. CASE \E o \in Outcomes : SaSettles(o)
    <3>1. PICK o \in Outcomes : SaSettles(o)
      BY <2>3
    <3>2. /\ AfterSubAgent(o) \in [reason : Reasons \cup {NoReason}, spec : BOOLEAN,
                                  spawnCount : Nat, madeProgress : BOOLEAN, spawned : BOOLEAN]
          /\ ~AfterSubAgent(o).spec
      <4> DEFINE n == IF o = "completed" THEN 0 ELSE shared.spawnCount + 1
                 b == o # "failed"
      <4>1. n \in Nat /\ b \in BOOLEAN
        BY <1>1
      <4>2. AfterSubAgent(o) = [shared EXCEPT !.spawnCount = n, !.madeProgress = b,
                                              !.spawned = TRUE, !.spec = FALSE]
        BY DEF AfterSubAgent
      <4> HIDE DEF n, b
      <4> QED
        BY <1>1, <4>1, <4>2
    <3> QED
      BY <3>1, <3>2 DEF SaSettles, SubAgentRuns, EventsOf
  <2> QED
    BY <2>1, <2>2, <2>3
<1> USE <1>2 DEF Return, Event, EventsOf
<1>3. TypeOK'
  BY DEF IInv, TypeOK, Phases, EventTypes
<1>4. Control' /\ GovernorBudget' /\ StepCount'
  BY DEF IInv, Control, GovernorBudget, StepCount
<1>5. SpecPending' /\ CancelFlags' /\ CancelIsReported'
  BY DEF IInv, SpecPending, SpawnDecided, SpawnStored, CancelFlags, CancelIsReported
<1> QED
  BY <1>3, <1>4, <1>5 DEF IInv

\* handleEvaluate asks the governor and pays a round of its budget.
LEMMA EvaluateInvariant == IInv /\ Evaluate => IInv'
<1> SUFFICES ASSUME IInv, Evaluate PROVE IInv'
  OBVIOUS
<1>1. /\ governor \in [budget : 1..MbBudget, noProgress : Nat, subAgents : Nat]
      /\ shared \in [reason : Reasons \cup {NoReason}, spec : BOOLEAN, spawnCount : Nat,
                     madeProgress : BOOLEAN, spawned : BOOLEAN]
      /\ ~shared.spec
  BY BudgetAssumption
  DEF IInv, TypeOK, GovernorBudget, SpecPending, SpawnDecided, SpawnStored, Evaluate
<1>2. /\ InHandler("EVALUATE")
      /\ \E t \in EventsOf("EVALUATE") : Return(Event(t)) /\ (governor'.budget = 0 => t = "TIMEOUT")
      /\ governor' \in [budget : 0..MbBudget, noProgress : Nat, subAgents : Nat]
      /\ shared' \in [reason : Reasons \cup {NoReason}, spec : BOOLEAN, spawnCount : Nat,
                      madeProgress : BOOLEAN, spawned : BOOLEAN]
      /\ ~shared'.spec
  <2>1. CASE MustStop
    BY <1>1, <2>1, BudgetAssumption DEF Evaluate, EventsOf
  <2>2. CASE ~MustStop
    <3> DEFINE seen  == Observed(governor, shared.madeProgress, shared.spawned)
               v     == Verdict(seen)
               clean == [shared EXCEPT !.madeProgress = FALSE, !.spawned = FALSE]
    <3>1. /\ governor' = Spent(seen)
          /\ shared' = IF v = "CONTINUE" THEN clean
                       ELSE [clean EXCEPT !.reason = MapGovernorReason(v)]
          /\ Return(Event(IF v = "CONTINUE" THEN "CONTINUE" ELSE "TIMEOUT"))
          /\ InHandler("EVALUATE")
      BY <2>2 DEF Evaluate
    <3>2. seen \in [budget : 1..MbBudget, noProgress : Nat, subAgents : Nat]
      <4> DEFINE n == IF shared.madeProgress THEN 0 ELSE governor.noProgress + 1
                 a == IF shared.spawned THEN governor.subAgents + 1 ELSE governor.subAgents
      <4>1. n \in Nat /\ a \in Nat
        BY <1>1
      <4>2. seen = [governor EXCEPT !.noProgress = n, !.subAgents = a]
        BY DEF Observed
      <4> HIDE DEF n, a, seen
      <4> QED
        BY <1>1, <4>1, <4>2
    <3>3. Spent(seen) \in [budget : 0..MbBudget, noProgress : Nat, subAgents : Nat]
      BY <3>2, BudgetAssumption DEF Spent
    <3>4. v = "CONTINUE" => Spent(seen).budget # 0
      BY <3>2, BudgetAssumption, LimitAssumption DEF Spent, Verdict
    <3>5. MapGovernorReason(v) \in Reasons
      BY DEF MapGovernorReason, Reasons
    <3>6. /\ shared' \in [reason : Reasons \cup {NoReason}, spec : BOOLEAN, spawnCount : Nat,
                          madeProgress : BOOLEAN, spawned : BOOLEAN]
          /\ ~shared'.spec
      BY <1>1, <3>1, <3>5
    <3> HIDE DEF seen, v
    <3> QED
      BY <3>1, <3>3, <3>4, <3>6 DEF EventsOf
  <2> QED
    BY <2>1, <2>2
<1> USE <1>2 DEF Return, Event, EventsOf
<1>3. TypeOK'
  BY DEF IInv, TypeOK, Phases, EventTypes
<1>4. Control' /\ GovernorBudget' /\ StepCount'
  BY DEF IInv, Control, GovernorBudget, StepCount
<1>5. SpecPending' /\ CancelFlags' /\ CancelIsReported'
  BY DEF IInv, SpecPending, SpawnDecided, SpawnStored, CancelFlags, CancelIsReported
<1> QED
  BY <1>3, <1>4, <1>5 DEF IInv

\* What AgentLoop and its caller do around the FSM: start, reset and cancel.
LEMMA CallerInvariant == IInv /\ (Run \/ StartFsm \/ Cancel \/ UNCHANGED vars) => IInv'
<1>1. ASSUME IInv, Run PROVE IInv'
  BY <1>1 DEF Run, IInv, TypeOK, Phases, Control, GovernorBudget, StepCount, SpecPending,
              SpawnDecided, SpawnStored, CancelFlags, CancelIsReported
<1>2. ASSUME IInv, StartFsm PROVE IInv'
  <2> USE <1>2 DEF StartFsm, Event
  <2>1. TypeOK'
    <3>1. ctx' \in [loopBudget : 0..FsmBudget, noProgress : Nat,
                    decision : Decisions \cup {NoDecision}]
      BY BudgetAssumption DEF DefaultContext
    <3>2. governor' \in [budget : 0..MbBudget, noProgress : Nat, subAgents : Nat]
      BY BudgetAssumption DEF FreshGovernor
    <3>3. shared' \in [reason : Reasons \cup {NoReason}, spec : BOOLEAN, spawnCount : Nat,
                       madeProgress : BOOLEAN, spawned : BOOLEAN]
      BY DEF IInv, TypeOK
    <3>4. event' \in [type : EventTypes \cup {"none"}, decision : Decisions \cup {NoDecision}]
      BY DEF EventTypes
    <3>5. phase' \in Phases /\ fsm' \in States /\ steps' \in 0..MaxIterations
      BY LimitAssumption DEF Phases, States
    <3> QED
      BY <3>1, <3>2, <3>3, <3>4, <3>5 DEF IInv, TypeOK
  <2>2. Control' /\ GovernorBudget' /\ StepCount'
    BY BudgetAssumption
    DEF IInv, Control, EventsOf, GovernorBudget, FreshGovernor, StepCount, Position, DefaultContext
  <2>3. SpecPending' /\ CancelFlags' /\ CancelIsReported'
    BY DEF IInv, TypeOK, SpecPending, SpawnDecided, SpawnStored, CancelFlags, CancelIsReported
  <2> QED
    BY <2>1, <2>2, <2>3 DEF IInv
<1>3. ASSUME IInv, Cancel PROVE IInv'
  BY <1>3 DEF Cancel, Waiting, IInv, TypeOK, Control, GovernorBudget, StepCount, SpecPending,
              SpawnDecided, SpawnStored, CancelFlags, CancelIsReported
<1>4. ASSUME IInv, UNCHANGED vars PROVE IInv'
  BY <1>4 DEF vars, IInv, TypeOK, Control, GovernorBudget, StepCount, SpecPending,
              SpawnDecided, SpawnStored, CancelFlags, CancelIsReported
<1> QED
  BY <1>1, <1>2, <1>3, <1>4

\* Every step of a run keeps the invariant.
LEMMA NextInvariant == IInv /\ [Next]_vars => IInv'
<1> SUFFICES ASSUME IInv, [Next]_vars PROVE IInv'
  OBVIOUS
<1>1. CASE Loop
  BY <1>1, LoopStepInvariant, SettleInvariant DEF Loop
<1>2. CASE Handlers
  BY <1>2, SettleInvariant, PlainHandlerInvariant, DecisionInvariant, DispatchInvariant,
     EvaluateInvariant DEF Handlers
<1>3. CASE Run \/ StartFsm \/ Cancel \/ Done \/ UNCHANGED vars
  BY <1>3, CallerInvariant DEF Done
<1> QED
  BY <1>1, <1>2, <1>3 DEF Next

\* The inductive invariant: every part of it holds throughout every run.
THEOREM Invariance == Spec => []IInv
<1>1. Init => IInv
  BY InitInvariant
<1>2. IInv /\ [Next]_vars => IInv'
  BY NextInvariant
<1> QED
  BY <1>1, <1>2, PTL DEF Spec

-----------------------------------------------------------------------------
\* The state of a run keeps its type: in particular neither budget, not that of the
\* FSM context nor that of the governor, is ever taken below zero.
THEOREM TypeCorrect == Spec => []TypeOK
<1>1. IInv => TypeOK
  BY DEF IInv
<1> QED
  BY <1>1, Invariance, PTL

\* AGENT_LOOP_MAX_ITERATIONS is never reached when it covers the FSM budget: the FSM
\* pays five steps out of every round of its budget, whoever else stops the loop.
THEOREM StepLimitNeverReached == Spec => []SafetyValveUnused
<1>1. IInv => SafetyValveUnused
  <2> SUFFICES ASSUME IInv, AtHead PROVE steps + 1 <= StepsNeeded
    BY LimitAssumption, BudgetAssumption
    DEF SafetyValveUnused, StepsNeeded, IInv, TypeOK
  <2>1. Position(fsm) \in 0..5
    BY DEF AtHead, Position, IInv, TypeOK, States
  <2>2. steps = 5 * (FsmBudget - ctx.loopBudget) + Position(fsm)
    BY DEF AtHead, IInv, StepCount
  <2>3. ctx.loopBudget \in 0..FsmBudget
    BY DEF IInv, TypeOK
  <2> QED
    BY <2>1, <2>2, <2>3, BudgetAssumption DEF StepsNeeded
<1> QED
  BY <1>1, Invariance, PTL

\* handleDispatch never runs a spec of an earlier decision and never loses the spec of
\* the present one.
THEOREM DispatchHonoursDecision == Spec => []DecisionHonoured
<1>1. IInv => DecisionHonoured
  BY DEF IInv, SpecPending, SpawnDecided, SpawnStored, DecisionHonoured
<1> QED
  BY <1>1, Invariance, PTL

\* The loop of integration.run() leaves no way to end with another reason once cancel()
\* has set its flag.
THEOREM RecordedCancelIsReported == Spec => []CancelIsReported
<1>1. IInv => CancelIsReported
  BY DEF IInv
<1> QED
  BY <1>1, Invariance, PTL

\* After AgentLoop.cancel() no sub-agent is dispatched, although reset() may have
\* cleared the flag of the integration: the abort of the LLM wait covers that window.
THEOREM CancelStopsSpawning == Spec => NoSpawnAfterCancel
<1> DEFINE A == ~SubAgentRuns /\ SubAgentRuns' => ~aborted
<1>1. IInv /\ [Next]_vars => [A]_vars
  <2> SUFFICES ASSUME IInv, Next, ~SubAgentRuns, SubAgentRuns' PROVE ~aborted
    OBVIOUS
  <2>1. LoopStep
    BY DEF Next, SubAgentRuns, BreakerTrips, Run, StartFsm, Loop, LoopExit, LoopCancelled, LoopOverrun,
           Settle, Handlers, PrepareContext, MbFails, ReturnDecision, SpawnBreaker, AnswerUser,
           Observe, Evaluate, DispatchThrows, MbDecides, SaSettles, Return, Cancel, Done, vars
  <2>2. fsm = "MASTER_DECISION" /\ event.type = "DECISION_RECEIVED"
    BY <2>1, EngineStep DEF IInv, SubAgentRuns
  <2> QED
    BY <2>1, <2>2 DEF LoopStep, AtHead, CancelSeen, IInv, CancelFlags
<1> QED
  BY <1>1, Invariance, PTL DEF Spec, NoSpawnAfterCancel

-----------------------------------------------------------------------------
(***************************************************************************)
(* The two budgets, round by round.  Of a loop that has not been told to   *)
(* stop, the governor's budget and the FSM's have paid the same rounds,    *)
(* but for the one the governor has just been asked about.                 *)
(***************************************************************************)
Stopping == \/ phase = "settled" \/ fsm = "TERMINATE"
            \/ phase = "head" /\ fsm = "EVALUATE" /\ event.type = "TIMEOUT"
RoundsPaid == FsmBudget - ctx.loopBudget + IF phase = "head" /\ fsm = "EVALUATE" THEN 1 ELSE 0

RoundInv ==
    ~Stopping /\ ~NotStarted =>
      /\ governor.budget = MbBudget - RoundsPaid
      /\ governor.subAgents <= RoundsPaid
      /\ shared.reason # "max_iterations"

\* A run that acts was not asked to stop, or knows it.
ActingFlags ==
    phase \in {"head", "handler"} /\ fsm \in {"DISPATCH", "OBSERVE", "EVALUATE"} /\ aborted
      => cancelled

\* What the governor is asked with: one round without progress, one sub-agent more at most.
Seen == Observed(governor, shared.madeProgress, shared.spawned)
LEMMA SeenFacts ==
    ASSUME TypeOK
    PROVE  /\ Seen \in [budget : 0..MbBudget, noProgress : Nat, subAgents : Nat]
           /\ Seen.budget = governor.budget
           /\ Seen.subAgents \in {governor.subAgents, governor.subAgents + 1}
<1> DEFINE n == IF shared.madeProgress THEN 0 ELSE governor.noProgress + 1
           a == IF shared.spawned THEN governor.subAgents + 1 ELSE governor.subAgents
<1>1. governor \in [budget : 0..MbBudget, noProgress : Nat, subAgents : Nat] BY DEF TypeOK
<1>2. n \in Nat /\ a \in Nat /\ a \in {governor.subAgents, governor.subAgents + 1} BY <1>1
<1>3. Seen = [governor EXCEPT !.noProgress = n, !.subAgents = a] BY DEF Seen, Observed
<1> HIDE DEF n, a
<1> QED BY <1>1, <1>2, <1>3

\* A loop that goes on asks the governor once a round.
LEMMA RoundInvStep ==
    ASSUME IInv, RoundInv, [Next]_vars
    PROVE  RoundInv'
<1> USE BudgetAssumption DEF RoundInv, Stopping, RoundsPaid, NotStarted, IInv, TypeOK
<1>1. CASE UNCHANGED vars BY <1>1 DEF vars
<1>2. CASE Run BY <1>2 DEF Run
<1>3. CASE StartFsm BY <1>3 DEF StartFsm, DefaultContext, FreshGovernor, NoReason
<1>4. CASE LoopStep
  BY <1>4, EngineStep DEF LoopStep, AtHead, Control, DefaultContext, Handled, States
<1>5. CASE LoopExit \/ LoopCancelled \/ LoopOverrun \/ DispatchThrows
  BY <1>5 DEF LoopExit, LoopCancelled, LoopOverrun, DispatchThrows, Settle
<1>6. CASE PrepareContext \/ MbFails \/ ReturnDecision \/ Observe
  BY <1>6 DEF PrepareContext, MbFails, ReturnDecision, Observe, Return, Control
<1>7. CASE SpawnBreaker \/ AnswerUser
  BY <1>7 DEF SpawnBreaker, AnswerUser, Return
<1>8. CASE \E o \in Outcomes : SaSettles(o)
  BY <1>8 DEF SaSettles, SubAgentRuns, AfterSubAgent, Return
<1>9. CASE \E d \in Decisions : MbDecides(d)
  BY <1>9 DEF MbDecides, MapDecision, Decisions
<1>10. CASE Evaluate
  <2>1. CASE MustStop BY <1>10, <2>1 DEF Evaluate, Return, Event
  <2>2. CASE ~MustStop
    <3>1. /\ phase' = "head" /\ fsm' = fsm /\ ctx' = ctx /\ governor' = Spent(Seen)
          /\ event' = Event(IF Verdict(Seen) = "CONTINUE" THEN "CONTINUE" ELSE "TIMEOUT")
          /\ Verdict(Seen) = "CONTINUE" => shared'.reason = shared.reason
      BY <1>10, <2>2 DEF Evaluate, Return, Seen
    <3>2. CASE Verdict(Seen) = "CONTINUE"
      <4>1. governor'.budget = governor.budget - 1 /\ governor'.subAgents = Seen.subAgents
        BY <3>1, <3>2, SeenFacts DEF Spent
      <4> QED BY <1>10, <3>1, <3>2, <4>1, SeenFacts DEF Evaluate
    <3>3. CASE Verdict(Seen) # "CONTINUE" BY <1>10, <3>1, <3>3 DEF Evaluate, Event
    <3> QED BY <3>2, <3>3
  <2> QED BY <2>1, <2>2
<1>11. CASE Cancel \/ Done BY <1>11 DEF Cancel, Done, vars
<1> QED
  BY <1>1, <1>2, <1>3, <1>4, <1>5, <1>6, <1>7, <1>8, <1>9, <1>10, <1>11 DEF Next, Loop, Handlers

\* A decision leads to DISPATCH only when no cancel came before it.
LEMMA ActingFlagsStep ==
    ASSUME IInv, ActingFlags, [Next]_vars
    PROVE  ActingFlags'
<1> USE DEF ActingFlags
<1>1. CASE LoopStep BY <1>1, EngineStep DEF LoopStep, AtHead, CancelSeen, IInv, CancelFlags
<1>2. CASE Cancel \/ StartFsm \/ (\E d \in Decisions : MbDecides(d)) \/ ReturnDecision
  BY <1>2 DEF Cancel, StartFsm, MbDecides, ReturnDecision, IInv, Control
<1>3. CASE Run \/ LoopExit \/ LoopCancelled \/ LoopOverrun \/ DispatchThrows
  BY <1>3 DEF Run, LoopExit, LoopCancelled, LoopOverrun, DispatchThrows, Settle
<1>4. CASE PrepareContext \/ MbFails \/ SpawnBreaker \/ AnswerUser \/ Observe \/ Evaluate
           \/ \E o \in Outcomes : SaSettles(o)
  BY <1>4 DEF PrepareContext, MbFails, SpawnBreaker, AnswerUser, Observe, Evaluate, SaSettles,
     SubAgentRuns, Return
<1>5. CASE Done \/ UNCHANGED vars BY <1>5 DEF Done, vars
<1> QED BY <1>1, <1>2, <1>3, <1>4, <1>5 DEF Next, Loop, Handlers

\* Both hold besides the invariant.
LEMMA RoundsArePaid == Spec => [](IInv /\ RoundInv /\ ActingFlags)
<1>1. Init => RoundInv /\ ActingFlags BY DEF Init, RoundInv, NotStarted, ActingFlags
<1>2. (IInv /\ RoundInv /\ ActingFlags) /\ [Next]_vars => RoundInv' /\ ActingFlags'
  BY RoundInvStep, ActingFlagsStep
<1> QED BY <1>1, <1>2, Invariance, PTL DEF Spec

\* LoopGovernor.evaluate stops a loop before its budget is spent only when it stalls: delegating
\* in every round never exceeds maxSubAgents, which follows the budget (LoopGovernor.ts:166-169).
THEOREM GovernorStopsStalled == Spec => GovernorStopsOnlyStalledLoops
<1> DEFINE A == InHandler("EVALUATE") /\ shared'.reason = "max_iterations"
                  => governor'.noProgress >= NoProgressLimit
<1>1. (IInv /\ RoundInv /\ ActingFlags) /\ [Next]_vars => [A]_vars
  <2> SUFFICES ASSUME IInv, RoundInv, Next, InHandler("EVALUATE"), shared'.reason = "max_iterations"
               PROVE  governor'.noProgress >= NoProgressLimit
    OBVIOUS
  <2>1. ~Stopping /\ ~NotStarted BY DEF Stopping, NotStarted
  <2>2. shared.reason # "max_iterations" BY <2>1 DEF RoundInv
  <2>3. Evaluate
    BY <2>2 DEF vars, Next, Loop, Handlers, Run, StartFsm, LoopStep, LoopExit, LoopCancelled,
       LoopOverrun, DispatchThrows, Settle, PrepareContext, MbFails, ReturnDecision, SpawnBreaker,
       AnswerUser, Observe, MbDecides, SaSettles, SubAgentRuns, Cancel, Done, AtHead
  <2>4. governor.budget # 0 BY DEF IInv, GovernorBudget
  <2>5. governor.subAgents <= MbBudget - governor.budget
    BY <2>1, BudgetAssumption DEF RoundInv, RoundsPaid, IInv, TypeOK
  <2>6. Seen.subAgents <= MbBudget
    BY <2>4, <2>5, SeenFacts, BudgetAssumption DEF IInv, TypeOK
  <2>7. ~MustStop BY <2>2, <2>3 DEF Evaluate
  <2>8. /\ governor' = Spent(Seen) /\ Verdict(Seen) # "CONTINUE"
        /\ MapGovernorReason(Verdict(Seen)) = "max_iterations"
    BY <2>2, <2>3, <2>7 DEF Evaluate, Seen, IInv, TypeOK
  <2>9. Verdict(Seen) # "over_delegation"
    BY <2>6, SeenFacts, BudgetAssumption DEF Verdict, MaxSubAgents, IInv
  <2>10. Verdict(Seen) = "consecutive_no_progress" BY <2>8, <2>9 DEF Verdict, MapGovernorReason
  <2>11. governor' = Seen BY <2>8, <2>10 DEF Spent
  <2> QED BY <2>10, <2>11 DEF Verdict
<1> QED BY <1>1, RoundsArePaid, PTL DEF Spec, GovernorStopsOnlyStalledLoops

\* As long as an agent's mbDecisionBudget is at most one above the FSM's, the governor alone
\* decides on the rounds: where it says CONTINUE the FSM still has budget.
THEOREM GovernorDecides == ASSUME MbBudget <= FsmBudget + 1 PROVE Spec => GovernorDecidesRounds
<1> DEFINE A == fsm = "EVALUATE" /\ event.type = "CONTINUE" /\ ctx.noProgress < NoProgressLimit
                  => fsm' # "TERMINATE"
<1>1. (IInv /\ RoundInv /\ ActingFlags) /\ [Next]_vars => [A]_vars
  <2> SUFFICES ASSUME IInv, RoundInv, Next, fsm = "EVALUATE", event.type = "CONTINUE",
                      ctx.noProgress < NoProgressLimit
               PROVE  fsm' # "TERMINATE"
    OBVIOUS
  <2>1. CASE LoopStep
    <3>1. phase = "head" BY <2>1 DEF LoopStep, AtHead
    <3>2. governor.budget # 0 BY <3>1 DEF IInv, GovernorBudget
    <3>3. governor.budget = MbBudget - (FsmBudget - ctx.loopBudget + 1)
      BY <3>1 DEF RoundInv, RoundsPaid, Stopping, NotStarted
    <3>4. ctx.loopBudget > 0 BY <3>2, <3>3, BudgetAssumption DEF IInv, TypeOK
    <3> QED BY <2>1, <3>4, LimitAssumption DEF LoopStep, Target, EvaluateTarget, IInv, TypeOK
  <2>2. CASE ~LoopStep
    BY <2>2 DEF vars, Next, Loop, Handlers, Run, StartFsm, LoopExit, LoopCancelled, LoopOverrun,
       DispatchThrows, Settle, PrepareContext, MbFails, ReturnDecision, SpawnBreaker, AnswerUser,
       Observe, Evaluate, MbDecides, SaSettles, Return, Cancel, Done
  <2> QED BY <2>1, <2>2
<1> QED BY <1>1, RoundsArePaid, PTL DEF Spec, GovernorDecidesRounds

-----------------------------------------------------------------------------
\* Every step of a planning run is one of DecisionRounds, or changes nothing there.
LEMMA RunSimulates ==
    ASSUME IInv, RoundInv, ActingFlags, [Next]_vars
    PROVE  [Promise!Next]_Promise!vars
<1> USE DEF NotStarted, Stage, Round, Promise!vars
<1>1. CASE StartFsm
  <2>1. Promise!Begin BY <1>1, BudgetAssumption DEF StartFsm, DefaultContext, Promise!Begin
  <2> QED BY <2>1 DEF Promise!Next
<1>2. CASE Cancel
  <2>1. Promise!Stop BY <1>2 DEF Cancel, Waiting, Promise!Stop, IInv, Control
  <2> QED BY <2>1 DEF Promise!Next
<1>3. CASE LoopExit \/ LoopCancelled \/ LoopOverrun \/ DispatchThrows
  <2>1. Promise!Finish
    BY <1>3 DEF LoopExit, LoopCancelled, LoopOverrun, DispatchThrows, SubAgentRuns, AtHead, Settle,
       Promise!Finish
  <2> QED BY <2>1 DEF Promise!Next
<1>4. CASE LoopStep
  <2> USE <1>4 DEF LoopStep, AtHead, CancelSeen, IInv, TypeOK
  <2>1. CASE fsm \in {"IDLE", "PREPARE_CONTEXT"}
    BY <2>1, EngineStep DEF Control, DefaultContext, Handled, States
  <2>2. CASE fsm = "MASTER_DECISION" /\ event.type = "DECISION_RECEIVED"
    <3>1. Promise!Act
      BY <2>2, EngineStep DEF CancelFlags, Promise!Act, Handled, States
    <3> QED BY <3>1 DEF Promise!Next
  <2>3. CASE fsm = "DISPATCH" \/ (fsm = "OBSERVE" /\ fsm' = "EVALUATE")
    BY <2>3, EngineStep DEF Handled, States
  <2>4. CASE fsm = "EVALUATE" /\ fsm' = "PREPARE_CONTEXT"
    <3>1. ~aborted BY <2>4 DEF ActingFlags
    <3>2. ctx.loopBudget > 0 /\ event.type = "CONTINUE"
          /\ ctx' = [ctx EXCEPT !.loopBudget = @ - 1]
      BY <2>4, EngineStep
    <3>3. governor.budget # 0 /\ governor.budget = MbBudget - Round
      BY <2>4, <3>2, BudgetAssumption DEF GovernorBudget, RoundInv, RoundsPaid, Stopping
    <3>4. Round < RoundLimit BY <2>4, <3>2, <3>3, BudgetAssumption DEF RoundLimit
    <3>5. Round' = Round + 1 BY <2>4, <3>2, BudgetAssumption DEF Handled, States
    <3>6. Promise!Again BY <2>4, <3>1, <3>4, <3>5 DEF Promise!Again, Handled, States
    <3> QED BY <3>6 DEF Promise!Next
  <2>5. CASE fsm # "IDLE" /\ fsm' = "TERMINATE"
    <3>1. Promise!GiveUp BY <2>5, EngineStep DEF Promise!GiveUp, Handled, States
    <3> QED BY <3>1 DEF Promise!Next
  <2> QED BY <2>1, <2>2, <2>3, <2>4, <2>5, EngineStep
<1>5. CASE Run \/ PrepareContext \/ MbFails \/ ReturnDecision \/ SpawnBreaker \/ AnswerUser
           \/ Observe \/ Evaluate \/ (\E d \in Decisions : MbDecides(d))
           \/ (\E o \in Outcomes : SaSettles(o)) \/ Done \/ UNCHANGED vars
  BY <1>5 DEF vars, Run, PrepareContext, MbFails, ReturnDecision, SpawnBreaker, AnswerUser, Observe,
     Evaluate, MbDecides, SaSettles, SubAgentRuns, Return, Done, IInv, Control
<1> QED BY <1>1, <1>2, <1>3, <1>4, <1>5 DEF Next, Loop, Handlers

\* A planning run alternates between deciding and acting, for no more rounds than either budget
\* pays, and neither decides nor acts once it was cancelled: it implements DecisionRounds.
THEOREM RunImplementsRounds == Spec => ImplementsDecisionRounds
<1>1. Init => Promise!Init BY DEF Init, Promise!Init, Stage, Round, NotStarted
<1>2. (IInv /\ RoundInv /\ ActingFlags) /\ [Next]_vars => [Promise!Next]_Promise!vars
  BY RunSimulates
<1> QED BY <1>1, <1>2, RoundsArePaid, PTL DEF Spec, ImplementsDecisionRounds, Promise!Spec
=============================================================================
