---------------------------- MODULE SubAgentLoop ----------------------------
(***************************************************************************)
(* The loop in which a sub-agent works:                                    *)
(* services/planning/sub-agents/SubAgentRunner.ts, runAtomicEventLoop.     *)
(*                                                                         *)
(* One turn asks the model, carries out the tools it calls and goes on     *)
(* until the model says it is done, a budget is used up, the Master Brain  *)
(* ends it at a checkpoint, the model makes no progress, or the user       *)
(* aborts.  The code runs without interruption between two awaits, so an   *)
(* abort arrives only where something is awaited (Awaiting).               *)
(*                                                                         *)
(* Messages are abstracted to what the control depends on: whether they    *)
(* are too long for the model's window (big) and how many tool calls of    *)
(* the last answer still lack a result (unanswered).  The texts added to   *)
(* the next request are left out; pausing is in Hitl.                      *)
(***************************************************************************)
EXTENDS Naturals, Sequences, FiniteSets

CONSTANTS
    MaxSteps,           \* config.maxSteps
    Interval,           \* config.checkpointInterval
    HardLimit,          \* TOOL_CALLS_HARD_LIMIT
    MaxToolsPerStep,
    MaxExtension,       \* steps one extension may add
    MaxExtensions,      \* extensions of one run
    Remaining,          \* steps left when the budget is brought before the Master Brain
    WarningPercent,     \* ... and the share used by then
    Repeats,            \* failures, unchanged writes, equal commands in a row
    EmptyRetries,       \* SUB_AGENT_EMPTY_RESPONSE_RETRY_LIMIT
    ApiRetries,         \* length of SUB_AGENT_LLM_RETRY_DELAYS_MS
    TextOnlyEnd,        \* TEXT_ONLY_DECISION_TERMINATE_AFTER
    ResetSteps,         \* CONTEXT_RESET_FALLBACK_STEPS
    ResetRemaining,     \* steps that must be left for a reset
    Commands, Unsafe,   \* the commands exec is called with, and those isExecCommandSafe rejects
    AllowedTools,       \* spec.allowedTools
    Offers,             \* what the model may call: sequences of calls
    None

Names == {"read", "file_write", "exec", "unknown"}
Calls == [name : Names \ {"exec"}, command : {None}] \cup [name : {"exec"}, command : Commands]

ASSUME SubAgentAssumption ==
    /\ {MaxSteps, Interval, HardLimit, MaxToolsPerStep, Repeats, TextOnlyEnd} \subseteq Nat \ {0}
    /\ {MaxExtension, MaxExtensions, Remaining, WarningPercent, EmptyRetries, ApiRetries,
        ResetSteps, ResetRemaining} \subseteq Nat
    /\ Unsafe \subseteq Commands /\ None \notin Commands
    /\ AllowedTools \subseteq Names \ {"unknown"}
    /\ Offers \subseteq Seq(Calls) \ {<<>>}

VARIABLES
    pc,           \* where the loop is
    trigger,      \* what the checkpoint under way is about
    aborted,      \* signal.aborted
    toolCallSteps, totalToolCalls,
    maxSteps, extensions,
    askedAt,      \* the budget that was last brought before the Master Brain
    failures, unchanged, identical, lastExec,
    apiErrors, truncated, empties, textOnly,
    resetAsked,   \* requests since the model was asked to summarise, 0 if it is not
    big,          \* the messages exceed the threshold of a reset
    queue,        \* the calls of this step that are still to be made
    called,       \* the names in the model's answer
    unanswered,
    approved,     \* approvedHighRiskTools
    stepOk,       \* a tool of this step succeeded
    reason,       \* terminationReason
    overlong,     \* requests in a row that were too long and could have been shortened
    budgetTalks,  \* how often the budget was brought before the Master Brain
    late          \* requests begun after the abort

budget == <<toolCallSteps, totalToolCalls, maxSteps, extensions, askedAt>>
repeats == <<failures, unchanged, identical, lastExec>>
answers == <<apiErrors, truncated, empties, textOnly>>
context == <<resetAsked, big>>
step == <<queue, called, unanswered, stepOk>>
ghosts == <<overlong, budgetTalks, late>>
vars == <<pc, trigger, aborted, budget, repeats, answers, context, step, approved, reason, ghosts>>

Init ==
    /\ pc = "head" /\ trigger = None /\ aborted = FALSE
    /\ toolCallSteps = 0 /\ totalToolCalls = 0 /\ maxSteps = MaxSteps /\ extensions = 0 /\ askedAt = 0
    /\ failures = 0 /\ unchanged = 0 /\ identical = 0 /\ lastExec = None
    /\ apiErrors = 0 /\ truncated = FALSE /\ empties = 0 /\ textOnly = 0
    /\ resetAsked = 0 /\ big \in BOOLEAN
    /\ queue = <<>> /\ called = {} /\ unanswered = 0 /\ stepOk = FALSE
    /\ approved = {} /\ reason = None
    /\ overlong = 0 /\ budgetTalks = 0 /\ late = 0

(***************************************************************************)
(* Parts of steps.                                                         *)
(***************************************************************************)

Awaiting == {"llm", "answered", "sleep", "checkpoint", "executing"}
Least(a, b) == IF a <= b THEN a ELSE b
Grows == big' \in {big, TRUE}

End(why) == pc' = "ended" /\ reason' = why
GoOn(where) == pc' = where /\ UNCHANGED reason

\* A request that begins although the run is aborted.
Request == late' = late + (IF aborted THEN 1 ELSE 0)

Checkpoint(what) ==
    /\ pc' = "checkpoint" /\ trigger' = what
    /\ Request
    /\ UNCHANGED reason

\* The Master Brain adds steps, a limited number a limited number of times.
Granted(asked) == IF extensions < MaxExtensions THEN Least(asked, MaxExtension) ELSE 0
Extend(asked) ==
    /\ maxSteps' = maxSteps + Granted(asked)
    /\ extensions' = extensions + (IF Granted(asked) > 0 THEN 1 ELSE 0)
    /\ askedAt' = IF Granted(asked) > 0 THEN 0 ELSE askedAt
    /\ UNCHANGED <<toolCallSteps, totalToolCalls>>

\* The messages are replaced by a summary; what was counted in a row starts anew.
ContextReset ==
    /\ resetAsked' = 0 /\ big' \in BOOLEAN /\ overlong' = 0
    /\ failures' = 0 /\ unchanged' = 0 /\ identical' = 0 /\ lastExec' = None

(***************************************************************************)
(* The head of the loop and the request to the model.                      *)
(***************************************************************************)

MayLoopOnce == toolCallSteps < maxSteps /\ totalToolCalls <= HardLimit
MayLoop == toolCallSteps < maxSteps /\ totalToolCalls < HardLimit

LoopEnds ==
    /\ pc = "head" /\ ~MayLoop
    /\ End(IF toolCallSteps >= maxSteps THEN "max_steps_reached" ELSE "tool_calls_hard_limit")
    /\ UNCHANGED <<trigger, aborted, budget, repeats, answers, context, step, approved, ghosts>>

Cancelled ==
    /\ pc = "head" /\ MayLoop /\ aborted
    /\ End("cancelled")
    /\ UNCHANGED <<trigger, aborted, budget, repeats, answers, context, step, approved, ghosts>>

\* Few steps are left, and the Master Brain was not yet asked about this budget.
BudgetStaysShort ==
    /\ toolCallSteps > 0 /\ maxSteps - toolCallSteps <= Remaining
    /\ toolCallSteps * 100 >= WarningPercent * maxSteps
    /\ extensions < MaxExtensions
BudgetIsShort ==
    /\ toolCallSteps > 0 /\ maxSteps - toolCallSteps <= Remaining
    /\ toolCallSteps * 100 >= WarningPercent * maxSteps
    /\ extensions < MaxExtensions /\ askedAt # maxSteps

BudgetCheckpoint ==
    /\ pc = "head" /\ MayLoop /\ ~aborted /\ BudgetIsShort
    /\ askedAt' = maxSteps
    /\ budgetTalks' = budgetTalks + 1
    /\ Checkpoint("budget")
    /\ UNCHANGED <<aborted, toolCallSteps, totalToolCalls, maxSteps, extensions, repeats, answers,
                   context, step, approved, overlong>>

ReadyAnyway == \/ pc = "head" /\ MayLoop /\ ~BudgetIsShort
               \/ pc = "decide"
ReadyToAsk == \/ pc = "head" /\ MayLoop /\ ~aborted /\ ~BudgetIsShort
              \/ pc = "decide"

\* The requests since a summary was asked for, this one included.
ShouldReset == big /\ maxSteps - toolCallSteps >= ResetRemaining
ResetCount == IF resetAsked > 0 \/ ShouldReset THEN resetAsked + 1 ELSE 0

CallModel ==
    /\ ReadyToAsk /\ ResetCount <= ResetSteps
    /\ resetAsked' = ResetCount
    /\ overlong' = IF ShouldReset THEN overlong + 1 ELSE 0
    /\ GoOn("llm") /\ Request
    /\ UNCHANGED <<trigger, aborted, budget, repeats, answers, big, step, approved, budgetTalks>>

\* The model did not summarise in time; the runner does it and turns to the head of the loop.
MechanicalReset ==
    /\ ReadyToAsk /\ ResetCount > ResetSteps
    /\ ContextReset
    /\ GoOn("head")
    /\ UNCHANGED <<trigger, aborted, budget, answers, step, approved, budgetTalks, late>>

\* The model's answer is there; before it is looked at the token count is reported (an await).
ModelReturns ==
    /\ pc = "llm"
    /\ IF aborted THEN End("cancelled") ELSE GoOn("answered")
    /\ UNCHANGED <<trigger, aborted, budget, repeats, answers, context, step, approved, ghosts>>

\* The request or the tool throws, and with it the loop.
Throws ==
    /\ pc \in {"llm", "executing"}
    /\ End("thrown")
    /\ UNCHANGED <<trigger, aborted, budget, repeats, answers, context, step, approved, ghosts>>

(***************************************************************************)
(* Answers without tool calls.                                             *)
(***************************************************************************)

ApiError(retryable) ==
    /\ pc = "answered"
    /\ IF retryable /\ apiErrors < ApiRetries
       THEN GoOn("sleep") /\ apiErrors' = apiErrors + 1
       ELSE End("api_error") /\ UNCHANGED apiErrors
    /\ UNCHANGED <<trigger, aborted, budget, repeats, truncated, empties, textOnly, context, step,
                   approved, ghosts>>

SleepOver ==
    /\ pc = "sleep"
    /\ GoOn("head")
    /\ UNCHANGED <<trigger, aborted, budget, repeats, answers, context, step, approved, ghosts>>

\* The answer was cut off: its calls are dropped, once.
Truncated ==
    /\ pc = "answered"
    /\ IF truncated THEN End("output_token_limit") ELSE GoOn("head")
    /\ truncated' = TRUE /\ apiErrors' = 0
    /\ UNCHANGED <<trigger, aborted, budget, repeats, empties, textOnly, context, step, approved, ghosts>>

\* What a text without calls leads to.
StartsOver(count) ==
    /\ textOnly' = IF count >= TextOnlyEnd THEN 0 ELSE count
    /\ Grows
    /\ GoOn("head")
NoProgress(count) ==
    /\ textOnly' = count
    /\ Grows
    /\ IF count >= TextOnlyEnd THEN End("no_progress") ELSE GoOn("head")

\* The model said nothing: it is asked again, then its answer counts as a text like any other, but
\* what was counted before is forgotten.
EmptyAnswer ==
    /\ pc = "answered"
    /\ empties' = Least(empties + 1, EmptyRetries + 1)
    /\ apiErrors' = 0
    /\ IF empties < EmptyRetries
       THEN textOnly' = 0 /\ GoOn("head") /\ UNCHANGED big
       ELSE NoProgress(1)
    /\ UNCHANGED <<trigger, aborted, budget, repeats, truncated, resetAsked, step, approved, ghosts>>

TextAnswer ==
    /\ pc = "answered"
    /\ empties' = 0 /\ apiErrors' = 0
    /\ NoProgress(textOnly + 1)
    /\ UNCHANGED <<trigger, aborted, budget, repeats, truncated, resetAsked, step, approved, ghosts>>

SummaryAnswer ==
    /\ pc = "answered" /\ resetAsked > 0
    /\ ContextReset
    /\ empties' = 0 /\ apiErrors' = 0 /\ textOnly' = 0
    /\ GoOn("head")
    /\ UNCHANGED <<trigger, aborted, budget, truncated, step, approved, budgetTalks, late>>

TaskComplete ==
    /\ pc = "answered"
    /\ End("termination_signal_detected")
    /\ empties' = 0 /\ apiErrors' = 0
    /\ UNCHANGED <<trigger, aborted, budget, repeats, truncated, textOnly, context, step, approved, ghosts>>

(***************************************************************************)
(* Tool calls.                                                             *)
(***************************************************************************)

HighRisk(call) == \/ call.name = "file_write" /\ "file_write" \notin AllowedTools
                  \/ call.name = "exec" /\ call.command \in Unsafe

NamesOf(offer) == {offer[i].name : i \in DOMAIN offer}
AllApproved(offer) == NamesOf(offer) \subseteq approved
FirstNeedsApproval(offer) ==
    HighRisk(offer[1]) /\ totalToolCalls > 0 /\ ~AllApproved(offer)
NeedsApproval(offer) ==
    (\E i \in DOMAIN offer : HighRisk(offer[i])) /\ totalToolCalls > 0 /\ ~AllApproved(offer)

\* The calls beyond the limit are dropped, also from the answer that is put among the messages.
Kept(offer) == SubSeq(offer, 1, Least(Len(offer), MaxToolsPerStep))
RecordedWhole(offer) == offer
Recorded(offer) == Kept(offer)

ToolAnswer(offer) ==
    /\ pc = "answered"
    /\ empties' = 0 /\ apiErrors' = 0 /\ textOnly' = 0
    /\ queue' = Kept(offer) /\ unanswered' = Len(Recorded(offer))
    /\ called' = NamesOf(offer) /\ stepOk' = FALSE
    /\ IF NeedsApproval(offer)
       THEN Checkpoint("highRisk")
       ELSE GoOn("tools") /\ UNCHANGED <<trigger, late>>
    /\ UNCHANGED <<aborted, budget, repeats, truncated, context, approved, overlong, budgetTalks>>

\* A call is answered, by its result or by a correction.
Answered ==
    /\ queue' = Tail(queue)
    /\ unanswered' = unanswered - 1
    /\ totalToolCalls' = totalToolCalls + 1

\* A break out of the tools still counts as a step.
EndInStep(why) == End(why) /\ toolCallSteps' = toolCallSteps + 1

CancelledInStep ==
    /\ pc = "tools" /\ queue # <<>> /\ aborted
    /\ EndInStep("cancelled")
    /\ UNCHANGED <<trigger, aborted, totalToolCalls, maxSteps, extensions, askedAt, repeats, answers,
                   context, step, approved, ghosts>>

\* A tool that is not allowed, or a write without its content, is answered and not carried out.
Intercepted ==
    /\ pc = "tools" /\ queue # <<>> /\ ~aborted
    /\ Head(queue).name \notin AllowedTools \/ Head(queue).name = "file_write"
    /\ Answered
    /\ UNCHANGED <<pc, trigger, aborted, toolCallSteps, maxSteps, extensions, askedAt, repeats, answers,
                   context, called, stepOk, approved, reason, ghosts>>

StartTool ==
    /\ pc = "tools" /\ queue # <<>> /\ ~aborted
    /\ Head(queue).name \in AllowedTools
    /\ GoOn("executing")
    /\ UNCHANGED <<trigger, aborted, budget, repeats, answers, context, step, approved, ghosts>>

\* How often the same command was carried out in a row, this time included.
SameCommand(call) == IF call.command = lastExec THEN identical + 1 ELSE 1

ToolSucceeds(changed) ==
    /\ pc = "executing" /\ ~aborted
    /\ LET call == Head(queue) IN
       /\ changed \/ call.name = "file_write"
       /\ unchanged' = IF call.name # "file_write" THEN unchanged ELSE IF changed THEN 0 ELSE unchanged + 1
       /\ IF call.name = "exec"
          THEN identical' = SameCommand(call) /\ lastExec' = call.command
          ELSE identical' = 0 /\ lastExec' = None
       /\ IF call.name = "exec" /\ call.command = lastExec /\ SameCommand(call) >= Repeats
          THEN EndInStep("consecutive_identical_execs")
          ELSE GoOn("tools") /\ UNCHANGED toolCallSteps
    /\ Answered /\ stepOk' = TRUE
    /\ UNCHANGED <<trigger, aborted, maxSteps, extensions, askedAt, failures, answers, context, called,
                   approved, ghosts>>

ToolFails ==
    /\ pc = "executing" /\ ~aborted
    /\ Answered
    /\ identical' = 0 /\ lastExec' = None
    /\ GoOn("tools")
    /\ UNCHANGED <<trigger, aborted, toolCallSteps, maxSteps, extensions, askedAt, failures, unchanged,
                   answers, context, called, stepOk, approved, ghosts>>

\* The result of a tool that ran when the run was aborted is still put among the messages.
ToolReturnsLate ==
    /\ pc = "executing" /\ aborted
    /\ Answered
    /\ EndInStep("cancelled")
    /\ UNCHANGED <<trigger, aborted, maxSteps, extensions, askedAt, repeats, answers, context, called,
                   stepOk, approved, ghosts>>

\* The rest of a step: writes that changed nothing end the run; every few steps a checkpoint.
RestOfStep(steps, unchangedWrites) ==
    IF unchangedWrites >= Repeats THEN End("consecutive_no_change_writes") /\ trigger' = None /\ UNCHANGED late
    ELSE IF steps % Interval = 0 THEN Checkpoint("periodic")
    ELSE GoOn("head") /\ trigger' = None /\ UNCHANGED late

\* Every call is answered.  A step in which nothing succeeded counts as one failure.
StepEnds ==
    /\ pc = "tools" /\ queue = <<>>
    /\ toolCallSteps' = toolCallSteps + 1
    /\ failures' = IF stepOk THEN 0 ELSE Least(failures + 1, Repeats)
    /\ Grows
    /\ IF failures' >= Repeats THEN Checkpoint("failures")
       ELSE RestOfStep(toolCallSteps + 1, unchanged)
    /\ UNCHANGED <<aborted, totalToolCalls, maxSteps, extensions, askedAt, unchanged, identical, lastExec,
                   answers, resetAsked, step, approved, overlong, budgetTalks>>

(***************************************************************************)
(* The Master Brain's answer at a checkpoint.                              *)
(***************************************************************************)

Continuing == {"EXTEND_BUDGET", "ADJUST_STRATEGY"}

BudgetDecision(decision, asked) ==
    /\ pc = "checkpoint" /\ trigger = "budget"
    /\ CASE decision = "fails" -> GoOn("decide") /\ UNCHANGED budget
         [] decision # "fails" /\ aborted -> End("cancelled") /\ UNCHANGED budget
         [] decision = "TERMINATE_SUB_AGENT" /\ ~aborted ->
              End("budget_checkpoint_terminate") /\ UNCHANGED budget
         [] decision \in Continuing /\ ~aborted -> GoOn("decide") /\ Extend(asked)
    /\ trigger' = None
    /\ UNCHANGED <<aborted, repeats, answers, context, step, approved, ghosts>>

HighRiskDecision(decision, asked) ==
    /\ pc = "checkpoint" /\ trigger = "highRisk"
    /\ CASE decision = "fails" -> End("high_risk_checkpoint_failed") /\ UNCHANGED <<budget, approved>>
         [] decision # "fails" /\ aborted -> End("cancelled") /\ UNCHANGED <<budget, approved>>
         [] decision = "TERMINATE_SUB_AGENT" /\ ~aborted ->
              /\ \E why \in {"high_risk_rejected", "task_completed_by_master"} : End(why)
              /\ UNCHANGED <<budget, approved>>
         [] decision \in Continuing /\ ~aborted ->
              GoOn("tools") /\ Extend(asked) /\ approved' = approved \cup called
    /\ trigger' = None
    /\ UNCHANGED <<aborted, repeats, answers, context, step, ghosts>>

\* After repeated failures the rest of the step follows, aborted or not.
FailuresDecision(decision, asked) ==
    /\ pc = "checkpoint" /\ trigger = "failures"
    /\ CASE decision = "TERMINATE_SUB_AGENT" ->
              End("consecutive_failures") /\ trigger' = None /\ UNCHANGED <<budget, failures, late>>
         [] decision = "fails" -> RestOfStep(toolCallSteps, unchanged) /\ UNCHANGED <<budget, failures>>
         [] decision \in Continuing ->
              RestOfStep(toolCallSteps, unchanged) /\ Extend(asked) /\ failures' = 0
    /\ UNCHANGED <<aborted, unchanged, identical, lastExec, answers, context, step, approved, overlong,
                   budgetTalks>>

PeriodicDecision(decision, asked) ==
    /\ pc = "checkpoint" /\ trigger = "periodic"
    /\ CASE decision = "TERMINATE_SUB_AGENT" -> End("checkpoint_terminate") /\ UNCHANGED budget
         [] decision = "fails" -> GoOn("head") /\ UNCHANGED budget
         [] decision \in Continuing -> GoOn("head") /\ Extend(asked)
    /\ trigger' = None
    /\ UNCHANGED <<aborted, repeats, answers, context, step, approved, ghosts>>

\* The user ends the run.
Abort ==
    /\ pc \in Awaiting /\ ~aborted
    /\ aborted' = TRUE
    /\ UNCHANGED <<pc, trigger, budget, repeats, answers, context, step, approved, reason, ghosts>>

(***************************************************************************)

Decision(decision, asked) ==
    \/ BudgetDecision(decision, asked) \/ HighRiskDecision(decision, asked)
    \/ FailuresDecision(decision, asked) \/ PeriodicDecision(decision, asked)

\* What the loop does by itself, what the model, the tools and the Master Brain answer included.
Work ==
    \/ LoopEnds \/ Cancelled \/ BudgetCheckpoint \/ CallModel \/ MechanicalReset
    \/ ModelReturns \/ Throws \/ SleepOver \/ Truncated \/ EmptyAnswer \/ TextAnswer
    \/ SummaryAnswer \/ TaskComplete \/ CancelledInStep \/ Intercepted \/ StartTool
    \/ ToolFails \/ ToolReturnsLate \/ StepEnds
    \/ \E b \in BOOLEAN : ApiError(b) \/ ToolSucceeds(b)
    \/ \E offer \in Offers : ToolAnswer(offer)
    \/ \E decision \in Continuing \cup {"TERMINATE_SUB_AGENT", "fails"}, asked \in 0..(MaxExtension + 1) :
          Decision(decision, asked)

Next == Work \/ Abort

\* Requests and tools come back: they have timeouts, and the loop itself is never blocked.
Spec == Init /\ [][Next]_vars /\ WF_vars(Work)

----------------------------------------------------------------------------
(***************************************************************************)
(* Properties.                                                             *)
(***************************************************************************)

Triggers == {"budget", "highRisk", "failures", "periodic"}

TypeOK ==
    /\ pc \in Awaiting \cup {"head", "decide", "tools", "ended"}
    /\ trigger \in Triggers \cup {None} /\ aborted \in BOOLEAN
    /\ toolCallSteps \in Nat /\ totalToolCalls \in Nat /\ maxSteps \in Nat
    /\ extensions \in 0..MaxExtensions /\ askedAt \in Nat
    /\ failures \in 0..Repeats /\ unchanged \in Nat /\ identical \in Nat
    /\ lastExec \in Commands \cup {None}
    /\ apiErrors \in 0..ApiRetries /\ truncated \in BOOLEAN
    /\ empties \in 0..(EmptyRetries + 1) /\ textOnly \in 0..TextOnlyEnd
    /\ resetAsked \in 0..ResetSteps /\ big \in BOOLEAN
    /\ queue \in Seq(Calls) /\ called \subseteq Names /\ unanswered \in Nat
    /\ stepOk \in BOOLEAN
    /\ approved \subseteq Names
    /\ overlong \in Nat /\ budgetTalks \in Nat /\ late \in Nat

\* However often the Master Brain extends it, the work of a sub-agent is bounded: the steps by the
\* granted extensions, the calls by the hard limit and one full step.
WorkIsBounded ==
    /\ toolCallSteps <= MaxSteps + MaxExtensions * MaxExtension
    /\ totalToolCalls < HardLimit + MaxToolsPerStep

\* The model never sees an answer of its own whose calls have no result: providers reject that.
CallsHaveResults == pc = "llm" => unanswered = 0

\* After its first step a sub-agent carries out a high-risk call only when the Master Brain let a
\* tool of that name pass.
RiskIsApproved ==
    pc = "executing" /\ HighRisk(Head(queue)) => toolCallSteps = 0 \/ Head(queue).name \in approved

\* A context that is too long is sent a limited number of times before it is summarised.
LongContextIsReset == overlong <= ResetSteps

\* The Master Brain is asked about a short budget once per budget, not at every turn.
BudgetTalksAreFew == budgetTalks <= MaxExtensions

\* What does not use up steps has limits of its own.
TurnsAreLimited == LongContextIsReset /\ BudgetTalksAreFew

\* After an abort at most one request that was due anyway is begun ...
AbortStopsRequests == late <= 1

\* ... and no tool.
NoToolAfterAbort == [][aborted /\ pc # "executing" => pc' # "executing"]_vars

\* The run ends unless the model keeps answering with nothing or with summaries.
RunEnds ==
    (<>[][~EmptyAnswer]_vars /\ <>[][~SummaryAnswer]_vars) => <>(pc = "ended")

=============================================================================
