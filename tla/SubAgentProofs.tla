--------------------------- MODULE SubAgentProofs ---------------------------
(***************************************************************************)
(* Proofs about sub-agents: about the loop of one, for all values of its   *)
(* limits, and about pausing and resuming them, for any number of tasks,   *)
(* sub-agents and instructions.  The two specifications keep their         *)
(* variables apart, so neither part uses a fact of the other.              *)
(*                                                                         *)
(* The loop has one invariant, in six parts, each proved on top of those   *)
(* before it: types, the calls of a step, the bounds of the work,          *)
(* approvals, talks about the budget and contexts that are too long,       *)
(* requests after an abort.                                                *)
(*                                                                         *)
(* The pause store knows contexts only, so what it says of a sub-agent is  *)
(* true as long as at most one sub-agent of the context is inside its      *)
(* loop.  That is what the dispatcher achieves by waiting for an aborted   *)
(* one, and what the cancellation watchdog gives up: most theorems about   *)
(* the store assume that it does not expire.                               *)
(***************************************************************************)
EXTENDS SubAgentLoop, Hitl, SequenceTheorems, FiniteSetTheorems, TLAPS

USE DEF budget, repeats, answers, context, step, ghosts

\* Where a turn is under way: the budget was seen not to be used up.
InTurn == \/ pc \in {"decide", "llm", "answered", "tools", "executing"}
          \/ pc = "checkpoint" /\ trigger \in {"budget", "highRisk"}

\* Where the calls of the last answer are being dealt with.
InCalls == pc \in {"tools", "executing"} \/ (pc = "checkpoint" /\ trigger = "highRisk")

\* What the Master Brain may say at a checkpoint.
Decisions == Continuing \cup {"TERMINATE_SUB_AGENT", "fails"}

\* The two halves of the type invariant: what is counted, and the rest.
Flags ==
    /\ pc \in Awaiting \cup {"head", "decide", "tools", "ended"}
    /\ trigger \in Triggers \cup {None} /\ aborted \in BOOLEAN
    /\ lastExec \in Commands \cup {None}
    /\ truncated \in BOOLEAN /\ big \in BOOLEAN /\ stepOk \in BOOLEAN
    /\ called \subseteq Names /\ approved \subseteq Names

\* A text that ends the run is the last one that is counted.
Numbers ==
    /\ toolCallSteps \in Nat /\ totalToolCalls \in Nat /\ maxSteps \in Nat
    /\ extensions \in 0..MaxExtensions /\ askedAt \in Nat
    /\ failures \in 0..Repeats /\ unchanged \in Nat /\ identical \in Nat
    /\ apiErrors \in 0..ApiRetries
    /\ empties \in 0..(EmptyRetries + 1) /\ textOnly \in 0..TextOnlyEnd
    /\ pc # "ended" => textOnly < TextOnlyEnd
    /\ resetAsked \in 0..ResetSteps
    /\ queue \in Seq(Calls) /\ unanswered \in Nat
    /\ overlong \in Nat /\ budgetTalks \in Nat /\ late \in Nat

CallsInv ==
    /\ InCalls => unanswered = Len(queue)
    /\ ~InCalls /\ pc # "ended" => unanswered = 0
    /\ pc = "executing" => queue # <<>>
    /\ Len(queue) <= MaxToolsPerStep

WorkInv ==
    /\ maxSteps <= MaxSteps + extensions * MaxExtension
    /\ toolCallSteps <= maxSteps
    /\ InTurn => toolCallSteps < maxSteps
    /\ InTurn /\ ~InCalls => totalToolCalls < HardLimit
    /\ InCalls => totalToolCalls + Len(queue) < HardLimit + MaxToolsPerStep
    /\ totalToolCalls < HardLimit + MaxToolsPerStep

RiskInv ==
    /\ pc # "ended" /\ totalToolCalls = 0 => toolCallSteps = 0
    /\ pc \in {"tools", "executing"} /\ queue = <<>> => totalToolCalls > 0
    /\ pc = "checkpoint" /\ trigger = "highRisk" =>
          queue # <<>> /\ \A i \in DOMAIN queue : queue[i].name \in called
    /\ pc \in {"tools", "executing"} =>
          \A i \in DOMAIN queue : HighRisk(queue[i]) => toolCallSteps = 0 \/
              queue[i].name \in approved

TalksInv ==
    /\ budgetTalks <= extensions + (IF askedAt = maxSteps THEN 1 ELSE 0)
    /\ budgetTalks <= MaxExtensions
    /\ maxSteps > 0
    /\ overlong <= resetAsked

LateInv ==
    /\ late <= 1
    /\ \/ late = 0
       \/ /\ aborted
          /\ \/ pc \in {"llm", "head", "ended"}
             \/ pc = "checkpoint" /\ trigger \in {"highRisk", "periodic"}
    /\ aborted /\ pc = "tools" => queue # <<>>

Inv == Flags /\ Numbers /\ CallsInv /\ WorkInv /\ RiskInv /\ TalksInv /\ LateInv

----------------------------------------------------------------------------
(***************************************************************************)
(* Facts about the operators.                                              *)
(***************************************************************************)

\* The assumption about the constants, one by one.
LEMMA Limits ==
    /\ MaxSteps \in Nat /\ MaxSteps > 0 /\ Interval \in Nat /\ Interval > 0
    /\ HardLimit \in Nat /\ HardLimit > 0 /\ MaxToolsPerStep \in Nat /\ MaxToolsPerStep > 0
    /\ Repeats \in Nat /\ Repeats > 0 /\ TextOnlyEnd \in Nat /\ TextOnlyEnd > 0
    /\ MaxExtension \in Nat /\ MaxExtensions \in Nat /\ Remaining \in Nat
    /\ EmptyRetries \in Nat /\ ApiRetries \in Nat /\ ResetSteps \in Nat /\ ResetRemaining \in Nat
<1>1. \A n \in Nat \ {0} : n \in Nat /\ n > 0 OBVIOUS
<1>2. /\ MaxSteps \in Nat \ {0} /\ Interval \in Nat \ {0} /\ HardLimit \in Nat \ {0}
      /\ MaxToolsPerStep \in Nat \ {0} /\ Repeats \in Nat \ {0} /\ TextOnlyEnd \in Nat \ {0}
  BY SubAgentAssumption DEF SubAgentAssumption
<1>3. /\ MaxExtension \in Nat /\ MaxExtensions \in Nat /\ Remaining \in Nat
      /\ EmptyRetries \in Nat /\ ApiRetries \in Nat /\ ResetSteps \in Nat /\ ResetRemaining \in Nat
  BY SubAgentAssumption DEF SubAgentAssumption
<1> QED BY <1>1, <1>2, <1>3

\* What is kept of an answer is not empty, fits a step and consists of calls of the answer.
LEMMA KeptFacts ==
    ASSUME NEW offer \in Offers
    PROVE  /\ Kept(offer) \in Seq(Calls)
           /\ Kept(offer) # <<>>
           /\ Len(Kept(offer)) <= MaxToolsPerStep
           /\ \A i \in DOMAIN Kept(offer) : i \in DOMAIN offer /\ Kept(offer)[i] = offer[i]
<1>1. offer \in Seq(Calls) /\ offer # <<>> BY SubAgentAssumption DEF SubAgentAssumption
<1>2. Len(offer) \in Nat \ {0} BY <1>1, EmptySeq, LenProperties
<1>3. MaxToolsPerStep \in Nat \ {0} BY SubAgentAssumption DEF SubAgentAssumption
<1> DEFINE n == Least(Len(offer), MaxToolsPerStep)
<1>4. n \in 1..Len(offer) /\ n <= MaxToolsPerStep BY <1>2, <1>3 DEF Least
<1>5. Kept(offer) = SubSeq(offer, 1, n) BY DEF Kept
<1>6. /\ SubSeq(offer, 1, n) \in Seq(Calls)
      /\ Len(SubSeq(offer, 1, n)) = n
      /\ \A i \in 1..n : SubSeq(offer, 1, n)[i] = offer[i]
  BY <1>1, <1>2, <1>4
<1> HIDE DEF n
<1>7. DOMAIN Kept(offer) = 1..n BY <1>4, <1>5, <1>6
<1>8. DOMAIN offer = 1..Len(offer) BY <1>1
<1> QED BY <1>4, <1>5, <1>6, <1>7, <1>8

\* What is left after a call was answered.
LEMMA TailFacts ==
    ASSUME queue \in Seq(Calls), queue # <<>>
    PROVE  /\ Tail(queue) \in Seq(Calls)
           /\ Len(Tail(queue)) = Len(queue) - 1
           /\ Len(queue) \in Nat \ {0}
           /\ Head(queue) \in Calls /\ Head(queue) = queue[1] /\ 1 \in DOMAIN queue
           /\ \A i \in DOMAIN Tail(queue) : i + 1 \in DOMAIN queue /\ Tail(queue)[i] = queue[i + 1]
<1>1. Len(queue) \in Nat \ {0} BY EmptySeq, LenProperties
<1> QED BY <1>1

\* An extension is granted whole or not at all.
LEMMA ExtendFacts ==
    ASSUME Numbers, NEW asked \in 0..(MaxExtension + 1), Extend(asked)
    PROVE  /\ toolCallSteps' = toolCallSteps /\ totalToolCalls' = totalToolCalls
           /\ extensions' \in 0..MaxExtensions /\ maxSteps' \in Nat /\ askedAt' \in Nat
           /\ \/ extensions' = extensions /\ maxSteps' = maxSteps /\ askedAt' = askedAt
              \/ /\ extensions' = extensions + 1 /\ askedAt' = 0
                 /\ maxSteps' > maxSteps /\ maxSteps' <= maxSteps + MaxExtension
<1> DEFINE g == Granted(asked)
<1>1. g \in 0..MaxExtension /\ (g > 0 => extensions < MaxExtensions)
  BY Limits DEF Granted, Least, Numbers
<1>2. /\ maxSteps' = maxSteps + g
      /\ extensions' = extensions + (IF g > 0 THEN 1 ELSE 0)
      /\ askedAt' = (IF g > 0 THEN 0 ELSE askedAt)
      /\ toolCallSteps' = toolCallSteps /\ totalToolCalls' = totalToolCalls
  BY DEF Extend
<1> HIDE DEF g
<1> QED BY <1>1, <1>2, Limits DEF Numbers

\* Where the rest of a step leads.
LEMMA RestFacts ==
    ASSUME NEW steps, NEW unchangedWrites, RestOfStep(steps, unchangedWrites)
    PROVE  \/ pc' \in {"ended", "head"} /\ late' = late
           \/ /\ pc' = "checkpoint" /\ trigger' = "periodic"
              /\ late' = late + (IF aborted THEN 1 ELSE 0)
BY DEF RestOfStep, End, GoOn, Checkpoint, Request

----------------------------------------------------------------------------
(***************************************************************************)
(* The invariant holds initially and every step keeps it, part by part.    *)
(***************************************************************************)

LEMMA InitInv == Init => Inv
<1> SUFFICES ASSUME Init PROVE Inv OBVIOUS
<1> USE DEF Init
<1>1. Flags
  BY DEF Flags, Awaiting, Triggers
<1>2. Numbers
  BY Limits DEF Numbers
<1>3. CallsInv /\ RiskInv /\ LateInv
  BY Limits DEF CallsInv, RiskInv, LateInv, InCalls, InTurn
<1>4. WorkInv
  BY Limits DEF WorkInv, InTurn, InCalls
<1>5. TalksInv
  BY Limits DEF TalksInv
<1> QED BY <1>1, <1>2, <1>3, <1>4, <1>5 DEF Inv

\* Every step keeps the flags.
LEMMA FlagsKept == Flags /\ Numbers /\ CallsInv /\ [Next]_vars => Flags'
<1> SUFFICES ASSUME Flags, Numbers, CallsInv, [Next]_vars PROVE Flags' OBVIOUS
<1> USE DEF Flags, Awaiting, Triggers, End, GoOn, Checkpoint
<1>1. CASE LoopEnds \/ Cancelled \/ BudgetCheckpoint \/ ModelReturns \/ Throws \/ SleepOver \/
        Truncated
  BY <1>1 DEF LoopEnds, Cancelled, BudgetCheckpoint, ModelReturns, Throws, SleepOver, Truncated
<1>2. CASE CallModel \/ MechanicalReset
  BY <1>2 DEF CallModel, MechanicalReset, ContextReset
<1>3. CASE EmptyAnswer \/ TextAnswer \/ SummaryAnswer \/ TaskComplete
  BY <1>3 DEF EmptyAnswer, TextAnswer, SummaryAnswer, TaskComplete, NoProgress, ContextReset, Grows
<1>4. ASSUME NEW b \in BOOLEAN, ApiError(b) PROVE Flags'
  BY <1>4 DEF ApiError
<1>5. ASSUME NEW offer \in Offers, ToolAnswer(offer) PROVE Flags'
  <2>1. \A i \in DOMAIN offer : offer[i] \in Calls BY SubAgentAssumption DEF SubAgentAssumption
  <2>2. \A c \in Calls : c.name \in Names BY DEF Calls, Names
  <2>3. NamesOf(offer) \subseteq Names BY <2>1, <2>2 DEF NamesOf
  <2> QED BY <1>5, <2>3 DEF ToolAnswer
<1>6. CASE CancelledInStep \/ StartTool \/ Intercepted \/ ToolFails \/ ToolReturnsLate
  BY <1>6 DEF CancelledInStep, StartTool, Intercepted, ToolFails, ToolReturnsLate, Answered,
     EndInStep
<1>7. ASSUME NEW b \in BOOLEAN, ToolSucceeds(b) PROVE Flags'
  <2>1. Head(queue) \in Calls BY <1>7, TailFacts DEF ToolSucceeds, CallsInv, Numbers
  <2>2. Head(queue).name = "exec" => Head(queue).command \in Commands BY <2>1 DEF Calls, Names
  <2>3. lastExec' \in Commands \cup {None} BY <1>7, <2>2 DEF ToolSucceeds
  <2>4. pc' \in {"ended", "tools"} BY <1>7 DEF ToolSucceeds, EndInStep
  <2> QED BY <1>7, <2>3, <2>4 DEF ToolSucceeds, Answered
<1>8. CASE StepEnds
  BY <1>8 DEF StepEnds, RestOfStep, Grows
<1>9. ASSUME NEW decision \in Decisions, NEW asked, Decision(decision, asked) PROVE Flags'
  <2> USE DEF Decisions, Continuing, RestOfStep
  <2>1. CASE BudgetDecision(decision, asked) BY <2>1 DEF BudgetDecision
  <2>2. CASE HighRiskDecision(decision, asked) BY <2>2 DEF HighRiskDecision
  <2>3. CASE FailuresDecision(decision, asked) BY <2>3 DEF FailuresDecision
  <2>4. CASE PeriodicDecision(decision, asked) BY <2>4 DEF PeriodicDecision
  <2> QED BY <1>9, <2>1, <2>2, <2>3, <2>4 DEF Decision
<1>10. CASE Abort \/ UNCHANGED vars
  BY <1>10 DEF Abort, vars
<1> QED
  BY <1>1, <1>2, <1>3, <1>4, <1>5, <1>6, <1>7, <1>8, <1>9, <1>10 DEF Next, Work, Decisions

\* Every step keeps the numbers.
LEMMA NumbersKept == Flags /\ Numbers /\ CallsInv /\ [Next]_vars => Numbers'
<1> SUFFICES ASSUME Flags, Numbers, CallsInv, [Next]_vars PROVE Numbers' OBVIOUS
<1> USE Limits DEF Numbers, Least, End, GoOn, Request, Checkpoint
<1>1. CASE LoopEnds
  BY <1>1 DEF LoopEnds
<1>2. CASE Cancelled
  BY <1>2 DEF Cancelled
<1>3. CASE BudgetCheckpoint
  BY <1>3 DEF BudgetCheckpoint
<1>4. CASE CallModel
  BY <1>4 DEF CallModel, ResetCount, ReadyToAsk
<1>5. CASE MechanicalReset
  BY <1>5 DEF MechanicalReset, ContextReset, ReadyToAsk
<1>6. CASE ModelReturns
  BY <1>6 DEF ModelReturns
<1>7. CASE Throws
  BY <1>7 DEF Throws
<1>8. CASE SleepOver
  BY <1>8 DEF SleepOver
<1>9. CASE Truncated
  BY <1>9 DEF Truncated
<1>10. CASE EmptyAnswer
  BY <1>10 DEF EmptyAnswer, NoProgress
<1>11. CASE TextAnswer
  BY <1>11 DEF TextAnswer, NoProgress
<1>12. CASE SummaryAnswer
  BY <1>12 DEF SummaryAnswer, ContextReset
<1>13. CASE TaskComplete
  BY <1>13 DEF TaskComplete
<1>14. CASE CancelledInStep
  BY <1>14 DEF CancelledInStep, EndInStep
<1>15. CASE StartTool
  BY <1>15 DEF StartTool
<1>16. ASSUME NEW b \in BOOLEAN, ApiError(b) PROVE Numbers'
  BY <1>16 DEF ApiError
<1>17. ASSUME NEW offer \in Offers, ToolAnswer(offer) PROVE Numbers'
  <2>1. Kept(offer) \in Seq(Calls) /\ Len(Kept(offer)) \in Nat BY KeptFacts
  <2> QED BY <1>17, <2>1 DEF ToolAnswer, Recorded
<1>18. ASSUME Intercepted \/ ToolFails \/ ToolReturnsLate \/ \E b \in BOOLEAN : ToolSucceeds(b)
       PROVE  Numbers'
  <2>1. queue # <<>> /\ InCalls
    BY <1>18 DEF Intercepted, ToolFails, ToolReturnsLate, ToolSucceeds, CallsInv, InCalls
  <2>2. unanswered - 1 \in Nat /\ Tail(queue) \in Seq(Calls) BY <2>1, TailFacts DEF CallsInv
  <2>3. CASE Intercepted BY <2>2, <2>3 DEF Intercepted, Answered
  <2>4. CASE ToolFails BY <2>2, <2>4 DEF ToolFails, Answered
  <2>5. CASE ToolReturnsLate BY <2>2, <2>5 DEF ToolReturnsLate, Answered, EndInStep
  <2>6. ASSUME NEW b \in BOOLEAN, ToolSucceeds(b) PROVE Numbers'
    <3>1. unchanged' \in Nat /\ identical' \in Nat BY <2>6 DEF ToolSucceeds, SameCommand
    <3>2. toolCallSteps' \in Nat /\ pc = "executing" BY <2>6 DEF ToolSucceeds, EndInStep
    <3> QED BY <2>2, <2>6, <3>1, <3>2 DEF ToolSucceeds, Answered
  <2> QED BY <1>18, <2>3, <2>4, <2>5, <2>6
<1>19. CASE StepEnds
  BY <1>19 DEF StepEnds, RestOfStep
<1>20. ASSUME NEW decision \in Decisions, NEW asked \in 0..(MaxExtension + 1),
         Decision(decision, asked)
       PROVE Numbers'
  <2> USE DEF Decisions, Continuing
  <2>1. pc # "ended"
    BY <1>20 DEF Decision, BudgetDecision, HighRiskDecision, FailuresDecision, PeriodicDecision
  <2>2. Extend(asked) \/ UNCHANGED budget
    BY <1>20 DEF Decision, BudgetDecision, HighRiskDecision, FailuresDecision, PeriodicDecision
  <2>3. /\ toolCallSteps' \in Nat /\ totalToolCalls' \in Nat /\ maxSteps' \in Nat
        /\ extensions' \in 0..MaxExtensions /\ askedAt' \in Nat
    BY <2>2, ExtendFacts
  <2>4. late' \in Nat
    <3>1. late' = late \/ RestOfStep(toolCallSteps, unchanged)
      BY <1>20 DEF Decision, BudgetDecision, HighRiskDecision, FailuresDecision, PeriodicDecision
    <3> QED BY <3>1, RestFacts
  <2>5. failures' = failures \/ failures' = 0
    <3>1. CASE FailuresDecision(decision, asked) BY <3>1 DEF FailuresDecision
    <3> QED BY <1>20, <3>1 DEF Decision, BudgetDecision, HighRiskDecision, PeriodicDecision
  <2>6. UNCHANGED <<unchanged, identical, apiErrors, empties, textOnly, resetAsked, queue,
          unanswered, overlong,
                    budgetTalks>>
    BY <1>20 DEF Decision, BudgetDecision, HighRiskDecision, FailuresDecision, PeriodicDecision
  <2> QED BY <2>1, <2>3, <2>4, <2>5, <2>6
<1>21. CASE Abort
  BY <1>21 DEF Abort
<1>22. CASE UNCHANGED vars
  BY <1>22 DEF vars
<1> QED
  BY <1>1, <1>2, <1>3, <1>4, <1>5, <1>6, <1>7, <1>8, <1>9, <1>10, <1>11, <1>12, <1>13,
     <1>14, <1>15, <1>16, <1>17, <1>18, <1>19, <1>20, <1>21, <1>22
  DEF Next, Work, Decisions

\* Every step keeps what is said of the calls.
LEMMA CallsKept == Flags /\ Numbers /\ CallsInv /\ [Next]_vars => CallsInv'
<1> SUFFICES ASSUME Flags, Numbers, CallsInv, [Next]_vars PROVE CallsInv' OBVIOUS
<1> USE DEF CallsInv, InCalls, End, GoOn, Checkpoint
<1>1. CASE LoopEnds \/ Cancelled \/ BudgetCheckpoint \/ ModelReturns \/ Throws \/ SleepOver \/
        Truncated
  BY <1>1 DEF LoopEnds, Cancelled, BudgetCheckpoint, ModelReturns, Throws, SleepOver, Truncated
<1>2. CASE CallModel \/ MechanicalReset
  BY <1>2 DEF CallModel, MechanicalReset, ReadyToAsk
<1>3. CASE EmptyAnswer \/ TextAnswer \/ SummaryAnswer \/ TaskComplete
  BY <1>3 DEF EmptyAnswer, TextAnswer, SummaryAnswer, TaskComplete, NoProgress
<1>4. ASSUME NEW b \in BOOLEAN, ApiError(b) PROVE CallsInv'
  BY <1>4 DEF ApiError
<1>5. ASSUME NEW offer \in Offers, ToolAnswer(offer) PROVE CallsInv'
  <2>1. Len(Kept(offer)) <= MaxToolsPerStep BY KeptFacts
  <2> QED BY <1>5, <2>1 DEF ToolAnswer, Recorded
<1>6. CASE CancelledInStep \/ StartTool
  BY <1>6 DEF CancelledInStep, StartTool, EndInStep
<1>7. CASE Intercepted \/ ToolFails \/ ToolReturnsLate \/ \E b \in BOOLEAN : ToolSucceeds(b)
  <2>1. /\ pc \in {"tools", "executing"} /\ queue # <<>>
        /\ pc' \in {"tools", "ended"} /\ Answered
    BY <1>7 DEF Intercepted, ToolFails, ToolReturnsLate, ToolSucceeds, EndInStep
  <2>2. Len(Tail(queue)) = Len(queue) - 1 /\ Len(queue) \in Nat BY <2>1, TailFacts DEF Numbers
  <2> QED BY <2>1, <2>2, Limits DEF Answered
<1>8. CASE StepEnds
  <2>1. Len(<<>>) = 0 OBVIOUS
  <2> QED BY <1>8, <2>1 DEF StepEnds, RestOfStep
<1>9. ASSUME NEW decision \in Decisions, NEW asked, Decision(decision, asked) PROVE CallsInv'
  <2> USE DEF Decisions, Continuing, RestOfStep
  <2>1. CASE BudgetDecision(decision, asked) BY <2>1 DEF BudgetDecision
  <2>2. CASE HighRiskDecision(decision, asked) BY <2>2 DEF HighRiskDecision
  <2>3. CASE FailuresDecision(decision, asked) BY <2>3 DEF FailuresDecision
  <2>4. CASE PeriodicDecision(decision, asked) BY <2>4 DEF PeriodicDecision
  <2> QED BY <1>9, <2>1, <2>2, <2>3, <2>4 DEF Decision
<1>10. CASE Abort \/ UNCHANGED vars
  BY <1>10 DEF Abort, vars
<1> QED
  BY <1>1, <1>2, <1>3, <1>4, <1>5, <1>6, <1>7, <1>8, <1>9, <1>10 DEF Next, Work, Decisions

\* Multiplication, as far as it is needed.
LEMMA OneMore ==
    ASSUME NEW a \in Nat, NEW b \in Nat
    PROVE  (a + 1) * b = a * b + b /\ a * b \in Nat
OBVIOUS

\* What is counted never shrinks.
LEMMA Monotone ==
    ASSUME NEW a \in Nat, NEW b \in Nat, NEW c \in Nat, a <= b
    PROVE  a * c <= b * c
<1>1. b - a \in Nat /\ b = a + (b - a) OBVIOUS
<1>2. PICK d \in Nat : b = a + d BY <1>1
<1>3. b * c = a * c + d * c BY <1>2
<1>4. d * c \in Nat /\ a * c \in Nat OBVIOUS
<1> QED BY <1>3, <1>4

\* Every step keeps what is said of the work.
LEMMA WorkKept == Flags /\ Numbers /\ CallsInv /\ WorkInv /\ [Next]_vars => WorkInv'
<1> SUFFICES ASSUME Flags, Numbers, CallsInv, WorkInv, [Next]_vars PROVE WorkInv' OBVIOUS
<1> USE DEF WorkInv, InTurn, InCalls, Numbers, End, GoOn, Checkpoint
<1>1. CASE LoopEnds \/ Cancelled \/ Throws \/ TaskComplete \/ SleepOver
  <2>1. pc' \in {"ended", "head"} /\ UNCHANGED <<budget, queue>>
    BY <1>1 DEF LoopEnds, Cancelled, Throws, TaskComplete, SleepOver
  <2> QED BY <2>1
<1>2. CASE Truncated \/ EmptyAnswer \/ TextAnswer \/ SummaryAnswer \/ MechanicalReset \/
        \E b \in BOOLEAN : ApiError(b)
  <2>1. pc' \in {"ended", "head", "sleep"} /\ UNCHANGED <<budget, queue>>
    BY <1>2 DEF Truncated, EmptyAnswer, TextAnswer, SummaryAnswer, MechanicalReset, ApiError,
       NoProgress
  <2> QED BY <2>1
<1>3. CASE BudgetCheckpoint
  BY <1>3 DEF BudgetCheckpoint, MayLoop
<1>4. CASE CallModel
  BY <1>4 DEF CallModel, ReadyToAsk, MayLoop
<1>5. CASE ModelReturns
  BY <1>5 DEF ModelReturns
<1>6. ASSUME NEW offer \in Offers, ToolAnswer(offer) PROVE WorkInv'
  <2>1. Len(Kept(offer)) \in Nat /\ Len(Kept(offer)) <= MaxToolsPerStep
    BY KeptFacts
  <2>2. UNCHANGED budget /\ pc = "answered" /\ queue' = Kept(offer)
    BY <1>6 DEF ToolAnswer
  <2>3. \/ pc' = "tools"
        \/ pc' = "checkpoint" /\ trigger' = "highRisk"
    BY <1>6 DEF ToolAnswer
  <2> QED BY <2>1, <2>2, <2>3, Limits
<1>7. CASE CancelledInStep
  BY <1>7 DEF CancelledInStep, EndInStep
<1>8. CASE StartTool
  BY <1>8 DEF StartTool
<1>9. CASE Intercepted \/ ToolFails \/ ToolReturnsLate \/ \E b \in BOOLEAN : ToolSucceeds(b)
  <2>1. /\ pc \in {"tools", "executing"} /\ queue # <<>>
        /\ UNCHANGED <<maxSteps, extensions>>
    BY <1>9 DEF Intercepted, ToolFails, ToolReturnsLate, ToolSucceeds, CallsInv
  <2>2. queue' = Tail(queue) /\ totalToolCalls' = totalToolCalls + 1
    BY <1>9 DEF Intercepted, ToolFails, ToolReturnsLate, ToolSucceeds, Answered
  <2>3. \/ pc' = "tools" /\ toolCallSteps' = toolCallSteps
        \/ pc' = "ended" /\ toolCallSteps' = toolCallSteps + 1
    <3>1. CASE Intercepted BY <3>1 DEF Intercepted
    <3>2. CASE ToolFails BY <3>2 DEF ToolFails
    <3>3. CASE ToolReturnsLate BY <3>3 DEF ToolReturnsLate, EndInStep
    <3>4. CASE \E b \in BOOLEAN : ToolSucceeds(b) BY <3>4 DEF ToolSucceeds, EndInStep
    <3> QED BY <1>9, <3>1, <3>2, <3>3, <3>4
  <2>4. Len(Tail(queue)) = Len(queue) - 1 /\ Len(queue) \in Nat \ {0} BY <2>1, TailFacts
  <2> QED BY <2>1, <2>2, <2>3, <2>4, Limits
<1>10. CASE StepEnds
  <2>1. /\ pc = "tools" /\ toolCallSteps' = toolCallSteps + 1
        /\ UNCHANGED <<totalToolCalls, maxSteps, extensions, queue>>
    BY <1>10 DEF StepEnds
  <2>2. \/ pc' \in {"ended", "head"}
        \/ pc' = "checkpoint" /\ trigger' \in {"failures", "periodic"}
    BY <1>10 DEF StepEnds, RestOfStep
  <2> QED BY <2>1, <2>2, Limits
<1>11. ASSUME NEW decision \in Decisions, NEW asked \in 0..(MaxExtension + 1),
         Decision(decision, asked)
       PROVE WorkInv'
  <2> USE DEF Decisions, Continuing
  <2>1. pc = "checkpoint" /\ UNCHANGED queue
    BY <1>11 DEF Decision, BudgetDecision, HighRiskDecision, FailuresDecision, PeriodicDecision
  <2>2. Extend(asked) \/ UNCHANGED budget
    BY <1>11 DEF Decision, BudgetDecision, HighRiskDecision, FailuresDecision, PeriodicDecision
  <2>3. /\ toolCallSteps' = toolCallSteps /\ totalToolCalls' = totalToolCalls
        /\ maxSteps' >= maxSteps /\ maxSteps' \in Nat
        /\ \/ extensions' = extensions /\ maxSteps' = maxSteps
           \/ extensions' = extensions + 1 /\ maxSteps' <= maxSteps + MaxExtension
    BY <2>2, ExtendFacts
  <2>4. maxSteps' <= MaxSteps + extensions' * MaxExtension
    BY <2>3, Limits, OneMore
  <2>5. \/ pc' \in {"ended", "head"}
        \/ pc' = "decide" /\ trigger = "budget"
        \/ pc' = "tools" /\ trigger = "highRisk"
        \/ pc' = "checkpoint" /\ trigger' = "periodic"
    BY <1>11, RestFacts DEF Decision, BudgetDecision, HighRiskDecision, FailuresDecision,
       PeriodicDecision
  <2> QED BY <2>1, <2>3, <2>4, <2>5, Limits
<1>12. CASE Abort
  BY <1>12 DEF Abort
<1>13. CASE UNCHANGED vars
  BY <1>13 DEF vars
<1> QED
  BY <1>1, <1>2, <1>3, <1>4, <1>5, <1>6, <1>7, <1>8, <1>9, <1>10, <1>11, <1>12, <1>13
  DEF Next, Work, Decisions

\* Every step keeps what is said of the risks.
LEMMA RiskKept == Flags /\ Numbers /\ CallsInv /\ RiskInv /\ [Next]_vars => RiskInv'
<1> SUFFICES ASSUME Flags, Numbers, CallsInv, RiskInv, [Next]_vars PROVE RiskInv' OBVIOUS
<1> USE DEF RiskInv, Numbers, End, GoOn, Checkpoint
<1>1. CASE LoopEnds \/ Cancelled \/ Throws \/ TaskComplete \/ SleepOver
  <2>1. pc' \in {"ended", "head"} /\ UNCHANGED <<toolCallSteps, totalToolCalls>> /\ pc # "ended"
    BY <1>1 DEF LoopEnds, Cancelled, Throws, TaskComplete, SleepOver
  <2> QED BY <2>1
<1>2. CASE Truncated \/ EmptyAnswer \/ TextAnswer \/ SummaryAnswer \/ MechanicalReset \/
        \E b \in BOOLEAN : ApiError(b)
  <2>1. pc' \in {"ended", "head", "sleep"} /\ UNCHANGED <<toolCallSteps, totalToolCalls>> /\
          pc # "ended"
    BY <1>2 DEF Truncated, EmptyAnswer, TextAnswer, SummaryAnswer, MechanicalReset, ApiError,
       NoProgress, ReadyToAsk
  <2> QED BY <2>1
<1>3. CASE BudgetCheckpoint \/ CallModel \/ ModelReturns
  <2>1. /\ pc' \in {"llm", "answered", "ended"} \/ (pc' = "checkpoint" /\ trigger' = "budget")
        /\ UNCHANGED <<toolCallSteps, totalToolCalls>> /\ pc # "ended"
    BY <1>3 DEF BudgetCheckpoint, CallModel, ModelReturns, ReadyToAsk
  <2> QED BY <2>1
<1>4. ASSUME NEW offer \in Offers, ToolAnswer(offer) PROVE RiskInv'
  <2>1. /\ queue' = Kept(offer) /\ called' = NamesOf(offer) /\ pc = "answered"
        /\ UNCHANGED <<toolCallSteps, totalToolCalls, approved>>
    BY <1>4 DEF ToolAnswer
  <2>2. /\ Kept(offer) # <<>>
        /\ \A i \in DOMAIN Kept(offer) : i \in DOMAIN offer /\ Kept(offer)[i] = offer[i]
    BY KeptFacts
  <2>3. \A i \in DOMAIN offer : offer[i].name \in NamesOf(offer)
    BY DEF NamesOf
  <2>4. CASE NeedsApproval(offer)
    <3>1. pc' = "checkpoint" /\ trigger' = "highRisk" BY <1>4, <2>4 DEF ToolAnswer
    <3> QED BY <2>1, <2>2, <2>3, <3>1
  <2>5. CASE ~NeedsApproval(offer)
    <3>1. pc' = "tools" BY <1>4, <2>5 DEF ToolAnswer
    <3>2. \/ \A i \in DOMAIN offer : ~HighRisk(offer[i])
          \/ totalToolCalls = 0
          \/ NamesOf(offer) \subseteq approved
      BY <2>5 DEF NeedsApproval, AllApproved
    <3>3. totalToolCalls = 0 => toolCallSteps = 0 BY <2>1
    <3>4. \A i \in DOMAIN Kept(offer) : HighRisk(Kept(offer)[i]) =>
             toolCallSteps = 0 \/ Kept(offer)[i].name \in approved
      BY <2>2, <2>3, <3>2, <3>3
    <3>5. \A call : HighRisk(call)' <=> HighRisk(call) BY DEF HighRisk
    <3>6. \A i \in DOMAIN queue' : HighRisk(queue'[i]) => toolCallSteps' = 0 \/
            queue'[i].name \in approved'
      BY <2>1, <3>4
    <3> QED BY <2>1, <2>2, <3>1, <3>3, <3>6 DEF HighRisk
  <2> QED BY <2>4, <2>5
<1>5. CASE CancelledInStep
  BY <1>5 DEF CancelledInStep, EndInStep
<1>6. CASE StartTool
  <2>1. /\ pc = "tools" /\ pc' = "executing" /\ UNCHANGED <<toolCallSteps, totalToolCalls, queue,
           approved, called>>
    BY <1>6 DEF StartTool
  <2> QED BY <2>1 DEF HighRisk
<1>7. CASE Intercepted \/ ToolFails \/ ToolReturnsLate \/ \E b \in BOOLEAN : ToolSucceeds(b)
  <2>1. /\ pc \in {"tools", "executing"} /\ queue # <<>>
        /\ UNCHANGED approved
    BY <1>7 DEF Intercepted, ToolFails, ToolReturnsLate, ToolSucceeds, CallsInv
  <2>2. queue' = Tail(queue) /\ totalToolCalls' = totalToolCalls + 1
    BY <1>7 DEF Intercepted, ToolFails, ToolReturnsLate, ToolSucceeds, Answered
  <2>3. \/ pc' = "tools" /\ toolCallSteps' = toolCallSteps
        \/ pc' = "ended"
    <3>1. CASE Intercepted BY <3>1 DEF Intercepted
    <3>2. CASE ToolFails BY <3>2 DEF ToolFails
    <3>3. CASE ToolReturnsLate BY <3>3 DEF ToolReturnsLate, EndInStep
    <3>4. CASE \E b \in BOOLEAN : ToolSucceeds(b) BY <3>4 DEF ToolSucceeds, EndInStep
    <3> QED BY <1>7, <3>1, <3>2, <3>3, <3>4
  <2>4. \A i \in DOMAIN Tail(queue) : i + 1 \in DOMAIN queue /\ Tail(queue)[i] = queue[i + 1]
    BY <2>1, TailFacts
  <2>5. \A i \in DOMAIN Tail(queue) : HighRisk(Tail(queue)[i]) =>
           toolCallSteps = 0 \/ Tail(queue)[i].name \in approved
    BY <2>1, <2>4
  <2>6. totalToolCalls' > 0 BY <2>2
  <2> QED BY <2>1, <2>2, <2>3, <2>5, <2>6 DEF HighRisk
<1>8. CASE StepEnds
  <2>1. pc = "tools" /\ totalToolCalls > 0 /\ totalToolCalls' = totalToolCalls
    BY <1>8 DEF StepEnds
  <2>2. \/ pc' \in {"ended", "head"}
        \/ pc' = "checkpoint" /\ trigger' \in {"failures", "periodic"}
    BY <1>8 DEF StepEnds, RestOfStep
  <2> QED BY <2>1, <2>2
<1>9. ASSUME NEW decision \in Decisions, NEW asked \in 0..(MaxExtension + 1),
        Decision(decision, asked)
       PROVE RiskInv'
  <2> USE DEF Decisions, Continuing
  <2>1. pc = "checkpoint" /\ UNCHANGED <<queue, called>>
    BY <1>9 DEF Decision, BudgetDecision, HighRiskDecision, FailuresDecision, PeriodicDecision
  <2>2. Extend(asked) \/ UNCHANGED budget
    BY <1>9 DEF Decision, BudgetDecision, HighRiskDecision, FailuresDecision, PeriodicDecision
  <2>3. toolCallSteps' = toolCallSteps /\ totalToolCalls' = totalToolCalls
    BY <2>2 DEF Extend
  <2>4. \/ pc' \in {"ended", "head", "decide"}
        \/ pc' = "tools" /\ trigger = "highRisk" /\ approved' = approved \cup called
        \/ pc' = "checkpoint" /\ trigger' = "periodic"
    BY <1>9, RestFacts DEF Decision, BudgetDecision, HighRiskDecision, FailuresDecision,
       PeriodicDecision
  <2> QED BY <2>1, <2>3, <2>4 DEF HighRisk
<1>10. CASE Abort
  BY <1>10 DEF Abort, HighRisk
<1>11. CASE UNCHANGED vars
  BY <1>11 DEF vars, HighRisk
<1> QED
  BY <1>1, <1>2, <1>3, <1>4, <1>5, <1>6, <1>7, <1>8, <1>9, <1>10, <1>11
  DEF Next, Work, Decisions

\* Every step keeps what is said of the talks with the model.
LEMMA TalksKept == Flags /\ Numbers /\ TalksInv /\ [Next]_vars => TalksInv'
<1> SUFFICES ASSUME Flags, Numbers, TalksInv, [Next]_vars PROVE TalksInv' OBVIOUS
<1> USE DEF TalksInv, Numbers
<1>1. CASE LoopEnds \/ Cancelled \/ ModelReturns \/ Throws \/ SleepOver \/ Truncated \/
        EmptyAnswer \/ TextAnswer
           \/ TaskComplete \/ \E b \in BOOLEAN : ApiError(b)
  <2>1. UNCHANGED <<budget, budgetTalks, overlong, resetAsked>>
    BY <1>1 DEF LoopEnds, Cancelled, ModelReturns, Throws, SleepOver, Truncated, EmptyAnswer,
       TextAnswer,
                TaskComplete, ApiError
  <2> QED BY <2>1
<1>2. CASE BudgetCheckpoint
  <2>1. /\ extensions < MaxExtensions /\ askedAt # maxSteps
        /\ askedAt' = maxSteps /\ maxSteps' = maxSteps /\ extensions' = extensions
        /\ budgetTalks' = budgetTalks + 1
        /\ overlong' = overlong /\ resetAsked' = resetAsked
    BY <1>2 DEF BudgetCheckpoint, BudgetIsShort
  <2> QED BY <2>1, Limits
<1>3. CASE CallModel
  <2>1. UNCHANGED <<budget, budgetTalks>> BY <1>3 DEF CallModel
  <2>2. \/ overlong' = 0 /\ resetAsked' \in Nat
        \/ overlong' = overlong + 1 /\ resetAsked' = resetAsked + 1
    <3>1. CASE ShouldReset BY <1>3, <3>1 DEF CallModel, ResetCount
    <3>2. CASE ~ShouldReset BY <1>3, <3>2 DEF CallModel, ResetCount
    <3> QED BY <3>1, <3>2
  <2> QED BY <2>1, <2>2
<1>4. CASE MechanicalReset \/ SummaryAnswer
  <2>1. UNCHANGED <<budget, budgetTalks>> /\ overlong' = 0 /\ resetAsked' = 0
    BY <1>4 DEF MechanicalReset, SummaryAnswer, ContextReset
  <2> QED BY <2>1
<1>5. CASE CancelledInStep \/ StartTool \/ Intercepted \/ ToolFails \/ ToolReturnsLate \/ StepEnds
           \/ (\E b \in BOOLEAN : ToolSucceeds(b)) \/ (\E offer \in Offers : ToolAnswer(offer))
  <2>1. UNCHANGED <<maxSteps, extensions, askedAt, budgetTalks, overlong, resetAsked>>
    BY <1>5 DEF CancelledInStep, StartTool, Intercepted, ToolFails, ToolReturnsLate, StepEnds,
       ToolSucceeds,
                ToolAnswer
  <2> QED BY <2>1
<1>6. ASSUME NEW decision \in Decisions, NEW asked \in 0..(MaxExtension + 1),
        Decision(decision, asked)
      PROVE TalksInv'
  <2>1. UNCHANGED <<budgetTalks, overlong, resetAsked>>
    BY <1>6 DEF Decision, BudgetDecision, HighRiskDecision, FailuresDecision, PeriodicDecision
  <2>2. Extend(asked) \/ UNCHANGED budget
    BY <1>6 DEF Decisions, Continuing, Decision, BudgetDecision, HighRiskDecision,
       FailuresDecision, PeriodicDecision
  <2>3. \/ extensions' = extensions /\ maxSteps' = maxSteps /\ askedAt' = askedAt
        \/ extensions' = extensions + 1 /\ askedAt' = 0 /\ maxSteps' > maxSteps /\ maxSteps' \in Nat
    BY <2>2, ExtendFacts
  <2> QED BY <2>1, <2>3
<1>7. CASE Abort \/ UNCHANGED vars
  <2>1. UNCHANGED <<budget, budgetTalks, overlong, resetAsked>> BY <1>7 DEF Abort, vars
  <2> QED BY <2>1
<1> QED
  BY <1>1, <1>2, <1>3, <1>4, <1>5, <1>6, <1>7 DEF Next, Work, Decisions

\* Every step keeps what is said of late results.
LEMMA LateKept == Flags /\ Numbers /\ CallsInv /\ LateInv /\ [Next]_vars => LateInv'
<1> SUFFICES ASSUME Flags, Numbers, CallsInv, LateInv, [Next]_vars PROVE LateInv' OBVIOUS
<1> USE DEF LateInv, Numbers, Flags
<1>1. CASE LoopEnds \/ Cancelled \/ ModelReturns \/ Throws \/ TaskComplete
  <2>1. /\ UNCHANGED <<late, aborted>>
        /\ \/ pc' = "ended"
           \/ pc' = "answered" /\ ~aborted
    BY <1>1 DEF LoopEnds, Cancelled, ModelReturns, Throws, TaskComplete, End, GoOn
  <2> QED BY <2>1
<1>2. CASE SleepOver \/ Truncated \/ EmptyAnswer \/ TextAnswer \/ SummaryAnswer \/
        \E b \in BOOLEAN : ApiError(b)
  <2>1. /\ UNCHANGED <<late, aborted>> /\ pc \in {"sleep", "answered"}
        /\ pc' \in {"ended", "head", "sleep"}
    BY <1>2 DEF SleepOver, Truncated, EmptyAnswer, TextAnswer, SummaryAnswer, ApiError,
       NoProgress, End, GoOn
  <2> QED BY <2>1
<1>3. CASE BudgetCheckpoint
  <2>1. ~aborted /\ aborted' = aborted /\ late' = late /\ pc' = "checkpoint"
    BY <1>3 DEF BudgetCheckpoint, Checkpoint, Request
  <2> QED BY <2>1
<1>4. CASE CallModel
  <2>1. /\ aborted' = aborted /\ pc' = "llm"
        /\ late' = late + (IF aborted THEN 1 ELSE 0)
        /\ pc = "decide" \/ ~aborted
    BY <1>4 DEF CallModel, GoOn, Request, ReadyToAsk
  <2> QED BY <2>1
<1>5. CASE MechanicalReset
  <2>1. UNCHANGED <<late, aborted>> /\ pc' = "head"
    BY <1>5 DEF MechanicalReset, GoOn
  <2> QED BY <2>1
<1>6. ASSUME NEW offer \in Offers, ToolAnswer(offer) PROVE LateInv'
  <2>1. aborted' = aborted /\ pc = "answered" /\ queue' # <<>>
    BY <1>6, KeptFacts DEF ToolAnswer
  <2>2. \/ pc' = "tools" /\ late' = late
        \/ pc' = "checkpoint" /\ trigger' = "highRisk" /\ late' = late + (IF aborted THEN 1 ELSE 0)
    BY <1>6 DEF ToolAnswer, Checkpoint, GoOn, Request
  <2> QED BY <2>1, <2>2
<1>7. CASE CancelledInStep \/ ToolReturnsLate
  <2>1. UNCHANGED <<late, aborted>> /\ pc' = "ended" /\ aborted
    BY <1>7 DEF CancelledInStep, ToolReturnsLate, EndInStep, End
  <2> QED BY <2>1
<1>8. CASE StartTool \/ Intercepted \/ ToolFails \/ \E b \in BOOLEAN : ToolSucceeds(b)
  <2>1. UNCHANGED <<late, aborted>> /\ ~aborted
    BY <1>8 DEF StartTool, Intercepted, ToolFails, ToolSucceeds
  <2> QED BY <2>1
<1>9. CASE StepEnds
  <2>1. ~aborted /\ aborted' = aborted
    BY <1>9 DEF StepEnds
  <2>2. late' = late
    BY <1>9, <2>1, RestFacts DEF StepEnds, Checkpoint, Request
  <2> QED BY <2>1, <2>2
<1>10. ASSUME NEW decision \in Decisions, NEW asked \in 0..(MaxExtension + 1),
         Decision(decision, asked)
       PROVE LateInv'
  <2> USE DEF Decisions, Continuing
  <2>1. CASE BudgetDecision(decision, asked)
    <3>1. UNCHANGED <<late, aborted>> /\ pc = "checkpoint" /\ trigger = "budget" /\
            pc' \in {"decide", "ended"}
      BY <2>1 DEF BudgetDecision, End, GoOn
    <3> QED BY <3>1
  <2>2. CASE HighRiskDecision(decision, asked)
    <3>1. UNCHANGED <<late, aborted>> /\ (pc' = "ended" \/ (pc' = "tools" /\ ~aborted))
      BY <2>2 DEF HighRiskDecision, End, GoOn
    <3> QED BY <3>1
  <2>3. CASE FailuresDecision(decision, asked)
    <3>1. aborted' = aborted /\ pc = "checkpoint" /\ trigger = "failures"
      BY <2>3 DEF FailuresDecision
    <3>2. \/ pc' \in {"ended", "head"} /\ late' = late
          \/ pc' = "checkpoint" /\ trigger' = "periodic" /\
              late' = late + (IF aborted THEN 1 ELSE 0)
      BY <2>3, RestFacts DEF FailuresDecision, End
    <3> QED BY <3>1, <3>2
  <2>4. CASE PeriodicDecision(decision, asked)
    <3>1. UNCHANGED <<late, aborted>> /\ pc' \in {"head", "ended"}
      BY <2>4 DEF PeriodicDecision, End, GoOn
    <3> QED BY <3>1
  <2> QED BY <1>10, <2>1, <2>2, <2>3, <2>4 DEF Decision
<1>11. CASE Abort
  <2>1. UNCHANGED <<late, pc>> /\ ~aborted /\ pc # "tools" BY <1>11 DEF Abort, Awaiting
  <2> QED BY <2>1
<1>12. CASE UNCHANGED vars
  BY <1>12 DEF vars
<1> QED
  BY <1>1, <1>2, <1>3, <1>4, <1>5, <1>6, <1>7, <1>8, <1>9, <1>10, <1>11, <1>12 DEF Next, Work,
     Decisions

\* The invariant holds.
LEMMA Invariance == Spec => []Inv
<1>1. Inv /\ [Next]_vars => Inv'
  BY FlagsKept, NumbersKept, CallsKept, WorkKept, RiskKept, TalksKept, LateKept DEF Inv
<1> QED BY InitInv, <1>1, PTL DEF Spec

----------------------------------------------------------------------------
(***************************************************************************)
(* What the loop guarantees.                                               *)
(***************************************************************************)

\* Every variable of the loop keeps its type; the counters that end the run or ask for a reset stay
\* within their limits, whatever the model and the Master Brain answer.
THEOREM TypeCorrect == Spec => []TypeOK
<1>1. Inv => TypeOK BY DEF Inv, Flags, Numbers, TypeOK
<1> QED BY Invariance, <1>1, PTL

\* The Master Brain may extend a sub-agent at every checkpoint, and still its steps and its calls are
\* bounded by the configuration (extendBudget and TOOL_CALLS_HARD_LIMIT in SubAgentRunner.ts).
THEOREM BoundedWork == Spec => []WorkIsBounded
<1>1. Inv => WorkIsBounded
  <2> SUFFICES ASSUME Inv PROVE WorkIsBounded OBVIOUS
  <2>1. /\ extensions \in Nat /\ extensions <= MaxExtensions
        /\ toolCallSteps \in Nat /\ maxSteps \in Nat
        /\ toolCallSteps <= maxSteps /\ maxSteps <= MaxSteps + extensions * MaxExtension
        /\ totalToolCalls < HardLimit + MaxToolsPerStep
    BY Limits DEF Inv, Numbers, WorkInv
  <2>2. extensions * MaxExtension <= MaxExtensions * MaxExtension BY <2>1, Limits, Monotone
  <2>3. extensions * MaxExtension \in Nat /\ MaxExtensions * MaxExtension \in Nat BY <2>1, Limits
  <2> QED BY <2>1, <2>2, <2>3, Limits DEF WorkIsBounded
<1> QED BY Invariance, <1>1, PTL

\* Whatever is answered, intercepted, cut off at MAX_TOOLS_PER_STEP or sent back after a checkpoint,
\* the messages of the next request hold a result for every call in them.
THEOREM ResultsComplete == Spec => []CallsHaveResults
<1>1. Inv => CallsHaveResults BY DEF Inv, CallsInv, InCalls, CallsHaveResults
<1> QED BY Invariance, <1>1, PTL

\* After the first step a write without permission or an unsafe command is carried out only if the
\* Master Brain let a tool of its name pass at a high-risk checkpoint, also when it is a later call of
\* its answer.
THEOREM RiskApproved == Spec => []RiskIsApproved
<1>1. Inv => RiskIsApproved
  <2> SUFFICES ASSUME Inv, pc = "executing", HighRisk(Head(queue))
               PROVE toolCallSteps = 0 \/ Head(queue).name \in approved
    BY DEF RiskIsApproved
  <2>1. Head(queue) = queue[1] /\ 1 \in DOMAIN queue
    BY TailFacts DEF Inv, Numbers, CallsInv
  <2> QED BY <2>1 DEF Inv, RiskInv
<1> QED BY Invariance, <1>1, PTL

\* A context over the threshold is sent at most CONTEXT_RESET_FALLBACK_STEPS times in a row before
\* the runner summarises it itself.
THEOREM ContextResetInTime == Spec => []LongContextIsReset
<1>1. Inv => LongContextIsReset BY Limits DEF Inv, TalksInv, Numbers, LongContextIsReset
<1> QED BY Invariance, <1>1, PTL

\* The Master Brain is asked about a budget that runs short at most once for each extension it may
\* grant.
THEOREM FewBudgetTalks == Spec => []BudgetTalksAreFew
<1>1. Inv => BudgetTalksAreFew BY DEF Inv, TalksInv, BudgetTalksAreFew
<1> QED BY Invariance, <1>1, PTL

\* What does not use up steps has limits of its own: checkpoints on a short budget, and contexts that
\* are too long.
THEOREM LimitedTurns == Spec => []TurnsAreLimited
BY ContextResetInTime, FewBudgetTalks, PTL DEF TurnsAreLimited

\* However the abort falls into a request, a checkpoint or a tool, at most one request is begun after
\* it.
THEOREM FewLateRequests == Spec => []AbortStopsRequests
<1>1. Inv => AbortStopsRequests BY DEF Inv, LateInv, AbortStopsRequests
<1> QED BY Invariance, <1>1, PTL

\* No tool is started after the abort.
THEOREM NoLateTool == Spec => NoToolAfterAbort
<1>1. Inv /\ [Next]_vars => (aborted /\ pc # "executing" => pc' # "executing")
  <2> SUFFICES ASSUME Inv, [Next]_vars, aborted, pc # "executing" PROVE pc' # "executing" OBVIOUS
  <2> USE DEF End, GoOn, Checkpoint
  <2>1. CASE LoopEnds \/ Cancelled \/ BudgetCheckpoint \/ CallModel \/ MechanicalReset \/
          ModelReturns \/ Throws
             \/ SleepOver \/ Truncated
    BY <2>1 DEF LoopEnds, Cancelled, BudgetCheckpoint, CallModel, MechanicalReset, ModelReturns,
       Throws,
                SleepOver, Truncated
  <2>2. CASE EmptyAnswer \/ TextAnswer \/ SummaryAnswer \/ TaskComplete \/
          (\E b \in BOOLEAN : ApiError(b))
             \/ \E offer \in Offers : ToolAnswer(offer)
    BY <2>2 DEF EmptyAnswer, TextAnswer, SummaryAnswer, TaskComplete, ApiError, ToolAnswer,
       NoProgress
  <2>3. CASE CancelledInStep \/ Intercepted \/ StartTool \/ ToolFails \/ ToolReturnsLate \/ StepEnds
             \/ \E b \in BOOLEAN : ToolSucceeds(b)
    BY <2>3 DEF CancelledInStep, Intercepted, StartTool, ToolFails, ToolReturnsLate, StepEnds,
       ToolSucceeds,
                EndInStep, RestOfStep
  <2>4. ASSUME NEW decision \in Decisions, NEW asked, Decision(decision, asked)
        PROVE  pc' # "executing"
    <3>1. CASE BudgetDecision(decision, asked)
      BY <3>1 DEF BudgetDecision, Decisions, Continuing
    <3>2. CASE HighRiskDecision(decision, asked)
      BY <3>2 DEF HighRiskDecision, Decisions, Continuing
    <3>3. CASE FailuresDecision(decision, asked)
      BY <3>3, RestFacts DEF FailuresDecision, Decisions, Continuing
    <3>4. CASE PeriodicDecision(decision, asked)
      BY <3>4 DEF PeriodicDecision, Decisions, Continuing
    <3> QED BY <2>4, <3>1, <3>2, <3>3, <3>4 DEF Decision
  <2>5. CASE Abort \/ UNCHANGED vars
    BY <2>5 DEF Abort, vars
  <2> QED BY <2>1, <2>2, <2>3, <2>4, <2>5 DEF Next, Work, Decisions
<1> QED BY Invariance, <1>1, PTL DEF NoToolAfterAbort, Spec

-----------------------------------------------------------------------------
(* Pausing and resuming. *)

USE DEF taskVars, agentVars, storeVars

Stages == {"unborn", "head", "working", "blocked", "gone"}

Letters == [to : 0..MaxAgents, in : 0..MaxTasks, got : 0..MaxAgents]

\* Types, of what concerns the tasks, the Sub-Agents and the store.
Booleans == owned \in BOOLEAN /\ running \in BOOLEAN /\ paused \in BOOLEAN

TaskTypes == task \in 0..MaxTasks /\ (owned => task > 0) /\ stopped \subseteq 1..task

AgentTypes ==
    /\ stage \in [Agents -> Stages]
    /\ taskOf \in [Agents -> 0..MaxTasks]
    /\ \A i \in Agents : taskOf[i] <= task

StoreTypes ==
    /\ pre \in Instructions \union {NoValue, Empty}
    /\ resolver \in 0..MaxAgents
    /\ letter \in [Instructions -> Letters]

TypeInv == Booleans /\ TaskTypes /\ AgentTypes /\ StoreTypes

\* Sub-Agents are born in the order of their numbers, into a task.
Births ==
    /\ Born = 1..Newest
    /\ \A i \in Born : taskOf[i] > 0

\* At most one Sub-Agent is inside its loop.
OneInside == \A i, j \in Inside : i = j

\* A Sub-Agent that was not stopped belongs to the task that owns the context.
InsideOwned == \A i \in Inside : ~Aborted(i) => owned /\ taskOf[i] = task

\* Who waits, what the store holds for it, and what is left when nobody owns the context.
StoreInv ==
    /\ \A i \in Agents : stage[i] = "blocked" =>
         resolver = i /\ paused /\ pre = NoValue /\ ~Aborted(i)
    /\ ResolverIsLive
    /\ IdleIsClean

\* A letter has a Sub-Agent it was sent to, and is kept until it arrives.
LetterInv ==
    /\ \A m \in Instructions : letter[m] # Unsent => letter[m].to \in Born
    /\ pre \in Instructions => letter[pre] # Unsent
    /\ InstructionKept

HitlInv == TypeInv /\ Births /\ OneInside /\ InsideOwned /\ StoreInv /\ LetterInv

\* Once the latest task has a Sub-Agent, no earlier one is inside.
BarInv == (\E i \in Born : taskOf[i] = task) => \A i \in Inside : taskOf[i] = task

\* As long as no call throws: a pause, an early resume, or a task that seems to run has a
\* Sub-Agent inside, and a letter on its way belongs to the task of that Sub-Agent.
PendingInv ==
    /\ IsPaused => Inside # {}
    /\ running /\ task \notin stopped => \E i \in Inside : taskOf[i] = task
    /\ \A m \in Instructions : pre = m => \A i \in Inside : taskOf[i] = letter[m].in
    /\ \A m \in Instructions : letter[m].got # 0 => letter[m].got \in Born
    /\ InstructionStaysInTask

----------------------------------------------------------------------------
\* The number of Sub-Agents born so far.
LEMMA NewestIsBounded == TypeInv => Newest \in 0..MaxAgents
<1> SUFFICES ASSUME TypeInv PROVE Newest \in 0..MaxAgents OBVIOUS
<1>1. MaxAgents \in Nat BY HitlAssumption DEF HitlAssumption
<1>2. IsFiniteSet(Agents) /\ Cardinality(Agents) = MaxAgents
  BY <1>1, FS_Interval DEF Agents
<1>3. Born \subseteq Agents BY DEF Born
<1>4. Cardinality(Born) <= MaxAgents /\ IsFiniteSet(Born) BY <1>2, <1>3, FS_Subset
<1> QED BY <1>1, <1>4, FS_CardinalityType DEF Newest

\* The switches stay switches.
LEMMA BooleansStep ==
    ASSUME Booleans, [HitlNext]_hitlVars
    PROVE  Booleans'
<1> USE HitlAssumption DEF HitlAssumption, Booleans
<1>1. CASE UNCHANGED hitlVars BY <1>1 DEF hitlVars
<1>2. CASE BeginTask BY <1>2 DEF BeginTask
<1>3. CASE Stop BY <1>3 DEF Stop, Cleanup
<1>4. CASE EndTask BY <1>4 DEF EndTask, Cleanup
<1>5. CASE Pause BY <1>5 DEF Pause, BarShown, IsPaused
<1>6. CASE \E m \in Instructions \union {Empty} : Resume(m)
  BY <1>6 DEF Resume, ResumeShown, BarShown, Posted, Stored
<1>7. CASE \E i \in Agents : Spawn(i) BY <1>7 DEF Spawn
<1>8. CASE \E i \in Agents : Leave(i) BY <1>8 DEF Leave, Gone, RunningAfter, Cleanup
<1>9. CASE \E i \in Agents : Throw(i) BY <1>9 DEF Throw, Gone, RunningAfter
<1>10. CASE \E i \in Agents : StepDone(i) BY <1>10 DEF StepDone
<1>11. CASE \E i \in Agents : Proceed(i) BY <1>11 DEF Proceed, AtHead
<1>12. CASE \E i \in Agents : TakePreResolved(i)
  BY <1>12 DEF TakePreResolved, AtHead, IsPaused, Receive
<1>13. CASE \E i \in Agents : Block(i) BY <1>13 DEF Block, AtHead, IsPaused
<1> QED BY <1>1, <1>2, <1>3, <1>4, <1>5, <1>6, <1>7, <1>8, <1>9, <1>10, <1>11, <1>12, <1>13 DEF
     HitlNext

\* The tasks are started in the order of their numbers.
LEMMA TaskTypesStep ==
    ASSUME TaskTypes, [HitlNext]_hitlVars
    PROVE  TaskTypes'
<1> USE HitlAssumption DEF HitlAssumption, TaskTypes
<1>1. CASE UNCHANGED hitlVars BY <1>1 DEF hitlVars
<1>2. CASE BeginTask BY <1>2 DEF BeginTask
<1>3. CASE Stop
  <2>1. owned /\ stopped' = stopped \union {task} /\ task' = task /\ owned' = owned
    BY <1>3 DEF Stop
  <2>2. task \in 1..task BY <2>1
  <2> QED BY <2>1, <2>2
<1>4. CASE EndTask BY <1>4 DEF EndTask, Cleanup
<1>5. CASE Pause BY <1>5 DEF Pause, BarShown, IsPaused
<1>6. CASE \E m \in Instructions \union {Empty} : Resume(m)
  BY <1>6 DEF Resume, ResumeShown, BarShown, Posted, Stored
<1>7. CASE \E i \in Agents : Spawn(i) BY <1>7 DEF Spawn
<1>8. CASE \E i \in Agents : Leave(i) BY <1>8 DEF Leave, Gone, RunningAfter, Cleanup
<1>9. CASE \E i \in Agents : Throw(i) BY <1>9 DEF Throw, Gone, RunningAfter
<1>10. CASE \E i \in Agents : StepDone(i) BY <1>10 DEF StepDone
<1>11. CASE \E i \in Agents : Proceed(i) BY <1>11 DEF Proceed, AtHead
<1>12. CASE \E i \in Agents : TakePreResolved(i)
  BY <1>12 DEF TakePreResolved, AtHead, IsPaused, Receive
<1>13. CASE \E i \in Agents : Block(i) BY <1>13 DEF Block, AtHead, IsPaused
<1> QED BY <1>1, <1>2, <1>3, <1>4, <1>5, <1>6, <1>7, <1>8, <1>9, <1>10, <1>11, <1>12, <1>13 DEF
     HitlNext

\* The types of the Sub-Agents are kept.
LEMMA AgentTypesStep ==
    ASSUME TypeInv, [HitlNext]_hitlVars
    PROVE  AgentTypes'
<1> USE HitlAssumption DEF HitlAssumption, TaskTypes, AgentTypes, StoreTypes, TypeInv, Stages
<1>1. CASE UNCHANGED hitlVars BY <1>1 DEF hitlVars
<1>2. CASE BeginTask BY <1>2 DEF BeginTask
<1>3. CASE Stop BY <1>3 DEF Stop, Cleanup
<1>4. CASE EndTask BY <1>4 DEF EndTask, Cleanup
<1>5. CASE Pause BY <1>5 DEF Pause, BarShown, IsPaused
<1>6. CASE \E m \in Instructions \union {Empty} : Resume(m)
  BY <1>6 DEF Resume, ResumeShown, BarShown, Posted, Stored
<1>7. CASE \E i \in Agents : Spawn(i) BY <1>7 DEF Spawn
<1>8. CASE \E i \in Agents : Leave(i) BY <1>8 DEF Leave, Gone, RunningAfter, Cleanup
<1>9. CASE \E i \in Agents : Throw(i) BY <1>9 DEF Throw, Gone, RunningAfter
<1>10. CASE \E i \in Agents : StepDone(i) BY <1>10 DEF StepDone
<1>11. CASE \E i \in Agents : Proceed(i) BY <1>11 DEF Proceed, AtHead
<1>12. CASE \E i \in Agents : TakePreResolved(i)
  BY <1>12 DEF TakePreResolved, AtHead, IsPaused, Receive
<1>13. CASE \E i \in Agents : Block(i) BY <1>13 DEF Block, AtHead, IsPaused
<1> QED BY <1>1, <1>2, <1>3, <1>4, <1>5, <1>6, <1>7, <1>8, <1>9, <1>10, <1>11, <1>12, <1>13 DEF
     HitlNext

\* The types of the store are kept.
LEMMA StoreTypesStep ==
    ASSUME TypeInv, [HitlNext]_hitlVars
    PROVE  StoreTypes'
<1> USE HitlAssumption DEF HitlAssumption, StoreTypes, TypeInv
<1>1. CASE UNCHANGED hitlVars BY <1>1 DEF hitlVars
<1>2. CASE BeginTask BY <1>2 DEF BeginTask
<1>3. CASE Stop BY <1>3 DEF Stop, Cleanup
<1>4. CASE EndTask BY <1>4 DEF EndTask, Cleanup
<1>5. CASE Pause BY <1>5 DEF Pause, BarShown, IsPaused
<1>6. CASE \E m \in Instructions \union {Empty} : Resume(m)
  <2> SUFFICES ASSUME NEW m \in Instructions \union {Empty}, Resume(m) PROVE StoreTypes'
    BY <1>6
  <2>1. pre' \in {pre, m} /\ resolver' \in {0, resolver} BY DEF Resume, Stored
  <2>2. letter' \in [Instructions -> Letters]
    BY NewestIsBounded DEF Resume, Posted, Letters, TaskTypes
  <2> QED BY <2>1, <2>2
<1>7. CASE \E i \in Agents : Spawn(i) BY <1>7 DEF Spawn
<1>8. CASE \E i \in Agents : Leave(i) BY <1>8 DEF Leave, Gone, RunningAfter, Cleanup
<1>9. CASE \E i \in Agents : Throw(i) BY <1>9 DEF Throw, Gone, RunningAfter
<1>10. CASE \E i \in Agents : StepDone(i) BY <1>10 DEF StepDone
<1>11. CASE \E i \in Agents : Proceed(i) BY <1>11 DEF Proceed, AtHead
<1>12. CASE \E i \in Agents : TakePreResolved(i)
  BY <1>12 DEF TakePreResolved, AtHead, IsPaused, Receive, Letters, Agents
<1>13. CASE \E i \in Agents : Block(i) BY <1>13 DEF Block, AtHead, IsPaused, Agents
<1> QED BY <1>1, <1>2, <1>3, <1>4, <1>5, <1>6, <1>7, <1>8, <1>9, <1>10, <1>11, <1>12, <1>13 DEF
     HitlNext

\* A Sub-Agent enters only when no other is inside.
LEMMA OneInsideStep ==
    ASSUME TypeInv, OneInside, ResolverIsLive, Overtakes = FALSE, [HitlNext]_hitlVars
    PROVE  OneInside'
<1> USE DEF OneInside, Inside, TypeInv, AgentTypes, Stages, ResolverIsLive
<1>1. CASE UNCHANGED hitlVars BY <1>1 DEF hitlVars
<1>2. CASE BeginTask BY <1>2 DEF BeginTask
<1>3. CASE Stop BY <1>3 DEF Stop, Cleanup
<1>4. CASE EndTask BY <1>4 DEF EndTask, Cleanup
<1>5. CASE Pause BY <1>5 DEF Pause, BarShown, IsPaused
<1>6. CASE \E m \in Instructions \union {Empty} : Resume(m)
  BY <1>6 DEF Resume, ResumeShown, BarShown, Posted, Stored
<1>7. CASE \E i \in Agents : Spawn(i)
  <2>1. Inside = {} BY <1>7 DEF Spawn, ServiceIsFree
  <2>2. PICK k \in Agents : stage' = [stage EXCEPT ![k] = "head"] BY <1>7 DEF Spawn
  <2> QED BY <2>1, <2>2
<1>8. CASE \E i \in Agents : Leave(i) BY <1>8 DEF Leave, Gone, RunningAfter, Cleanup
<1>9. CASE \E i \in Agents : Throw(i) BY <1>9 DEF Throw, Gone, RunningAfter
<1>10. CASE \E i \in Agents : StepDone(i) BY <1>10 DEF StepDone
<1>11. CASE \E i \in Agents : Proceed(i) BY <1>11 DEF Proceed, AtHead
<1>12. CASE \E i \in Agents : TakePreResolved(i)
  BY <1>12 DEF TakePreResolved, AtHead, IsPaused, Receive
<1>13. CASE \E i \in Agents : Block(i) BY <1>13 DEF Block, AtHead, IsPaused
<1> QED BY <1>1, <1>2, <1>3, <1>4, <1>5, <1>6, <1>7, <1>8, <1>9, <1>10, <1>11, <1>12, <1>13 DEF
     HitlNext

\* A Sub-Agent that was not stopped belongs to the task that owns the context.
LEMMA InsideOwnedStep ==
    ASSUME TypeInv, InsideOwned, ResolverIsLive, [HitlNext]_hitlVars
    PROVE  InsideOwned'
<1> USE HitlAssumption DEF HitlAssumption, InsideOwned, Inside, Aborted, TypeInv, TaskTypes,
     AgentTypes, Stages, ResolverIsLive
<1>1. CASE UNCHANGED hitlVars BY <1>1 DEF hitlVars
<1>2. CASE BeginTask BY <1>2 DEF BeginTask
<1>3. CASE Stop BY <1>3 DEF Stop, Cleanup
<1>4. CASE EndTask BY <1>4 DEF EndTask, Cleanup
<1>5. CASE Pause BY <1>5 DEF Pause, BarShown, IsPaused
<1>6. CASE \E m \in Instructions \union {Empty} : Resume(m)
  BY <1>6 DEF Resume, ResumeShown, BarShown, Posted, Stored
<1>7. CASE \E i \in Agents : Spawn(i)
  <2> SUFFICES ASSUME NEW k \in Agents, Spawn(k) PROVE InsideOwned' BY <1>7
  <2>1. /\ owned /\ task \notin stopped /\ UNCHANGED <<task, owned, stopped>>
        /\ stage[k] = "unborn" /\ stage' = [stage EXCEPT ![k] = "head"]
        /\ taskOf' = [taskOf EXCEPT ![k] = task]
    BY DEF Spawn
  <2>2. /\ taskOf'[k] = task
        /\ \A i \in Agents \ {k} : stage'[i] = stage[i] /\ taskOf'[i] = taskOf[i]
    BY <2>1
  <2> QED BY <2>1, <2>2
<1>8. CASE \E i \in Agents : Leave(i) BY <1>8 DEF Leave, Gone, RunningAfter, Cleanup
<1>9. CASE \E i \in Agents : Throw(i) BY <1>9 DEF Throw, Gone, RunningAfter
<1>10. CASE \E i \in Agents : StepDone(i) BY <1>10 DEF StepDone
<1>11. CASE \E i \in Agents : Proceed(i) BY <1>11 DEF Proceed, AtHead
<1>12. CASE \E i \in Agents : TakePreResolved(i)
  BY <1>12 DEF TakePreResolved, AtHead, IsPaused, Receive
<1>13. CASE \E i \in Agents : Block(i) BY <1>13 DEF Block, AtHead, IsPaused
<1> QED BY <1>1, <1>2, <1>3, <1>4, <1>5, <1>6, <1>7, <1>8, <1>9, <1>10, <1>11, <1>12, <1>13 DEF
     HitlNext

\* The store and the Sub-Agents agree.
LEMMA StoreInvStep ==
    ASSUME TypeInv, OneInside, InsideOwned, StoreInv, [HitlNext]_hitlVars
    PROVE  StoreInv'
<1> USE HitlAssumption DEF HitlAssumption, TaskTypes, StoreTypes, OneInside, InsideOwned,
     Inside, Aborted, TypeInv, AgentTypes, Stages, StoreInv, ResolverIsLive, IdleIsClean,
     IsPaused
<1>1. CASE UNCHANGED hitlVars BY <1>1 DEF hitlVars
<1>2. CASE BeginTask BY <1>2 DEF BeginTask
<1>3. CASE Stop BY <1>3 DEF Stop, Cleanup
<1>4. CASE EndTask BY <1>4 DEF EndTask, Cleanup
<1>5. CASE Pause BY <1>5 DEF Pause, BarShown, IsPaused
<1>6. CASE \E m \in Instructions \union {Empty} : Resume(m)
  <2> PICK m \in Instructions \union {Empty} : Resume(m) BY <1>6
  <2>1. owned /\ pre = NoValue /\ paused' = FALSE /\ UNCHANGED <<owned, stopped, taskOf>>
    BY DEF Resume, ResumeShown, BarShown
  <2>2. CASE resolver = 0
    <3>1. stage' = stage /\ resolver' = 0 BY <2>2 DEF Resume
    <3>2. \A i \in Agents : stage[i] # "blocked" BY <2>2 DEF Agents
    <3> QED BY <2>1, <3>1, <3>2
  <2>3. CASE resolver # 0
    <3>1. /\ stage' = [stage EXCEPT ![resolver] = "working"]
          /\ resolver' = 0 /\ pre' = pre
      BY <2>3 DEF Resume
    <3>2. \A i \in Agents : stage'[i] # "blocked" BY <3>1
    <3> QED BY <2>1, <3>1, <3>2
  <2> QED BY <2>2, <2>3
<1>7. CASE \E i \in Agents : Spawn(i) BY <1>7 DEF Spawn
<1>8. CASE \E i \in Agents : Leave(i) BY <1>8 DEF Leave, Gone, RunningAfter, Cleanup
<1>9. CASE \E i \in Agents : Throw(i) BY <1>9 DEF Throw, Gone, RunningAfter
<1>10. CASE \E i \in Agents : StepDone(i) BY <1>10 DEF StepDone
<1>11. CASE \E i \in Agents : Proceed(i) BY <1>11 DEF Proceed, AtHead
<1>12. CASE \E i \in Agents : TakePreResolved(i)
  BY <1>12 DEF TakePreResolved, AtHead, IsPaused, Receive
<1>13. CASE \E i \in Agents : Block(i) BY <1>13 DEF Block, AtHead, IsPaused
<1> QED BY <1>1, <1>2, <1>3, <1>4, <1>5, <1>6, <1>7, <1>8, <1>9, <1>10, <1>11, <1>12, <1>13 DEF
     HitlNext

\* A letter stays until it arrives.
LEMMA LetterInvStep ==
    ASSUME TypeInv, Births, OneInside, InsideOwned, StoreInv, LetterInv, [HitlNext]_hitlVars
    PROVE  LetterInv'
<1> USE HitlAssumption DEF HitlAssumption, TaskTypes, StoreTypes, LetterInv, InstructionKept,
     OneInside, InsideOwned, Born, Letters, Inside, Aborted, TypeInv, AgentTypes, Stages,
     StoreInv, ResolverIsLive, IdleIsClean, IsPaused
<1>1. CASE UNCHANGED hitlVars BY <1>1 DEF hitlVars
<1>2. CASE BeginTask BY <1>2 DEF BeginTask
<1>3. CASE Stop BY <1>3 DEF Stop, Cleanup
<1>4. CASE EndTask BY <1>4 DEF EndTask, Cleanup
<1>5. CASE Pause BY <1>5 DEF Pause, BarShown, IsPaused
<1>6. CASE \E m \in Instructions \union {Empty} : Resume(m)
  <2> PICK m \in Instructions \union {Empty} : Resume(m) BY <1>6
  <2>1. pre = NoValue /\ stopped' = stopped /\ taskOf' = taskOf
    BY DEF Resume, ResumeShown
  <2>2. Newest \in Born
    <3>1. Born # {} /\ Born = 1..Newest BY DEF Resume, ResumeShown, BarShown, Births
    <3> QED BY <3>1, NewestIsBounded
  <2>3. /\ \A i \in Agents : stage'[i] = "unborn" <=> stage[i] = "unborn"
        /\ \A i \in Agents : stage[i] = "gone" => stage'[i] = "gone"
    BY DEF Resume
  <2>4. CASE m \in Instructions
    <3>1. letter' = [letter EXCEPT ![m] = [to |-> Newest, in |-> task, got |-> resolver]]
      BY <2>4 DEF Resume, Posted
    <3>2. resolver = 0 => pre' = m BY <2>1, <2>4 DEF Resume, Stored
    <3>3. letter'[m].to \in Born /\ letter'[m].got = resolver BY <2>2, <2>4, <3>1
    <3>4. \A n \in Instructions \ {m} : letter'[n] = letter[n] BY <3>1
    <3>5. letter'[m] # Unsent
      <4>1. Newest # 0 BY <2>2 DEF Born, Agents
      <4> QED BY <2>4, <3>1, <4>1 DEF Unsent
    <3>6. pre' \in {NoValue, m} BY <2>1, <2>4 DEF Resume, Stored
    <3> QED BY <2>1, <2>3, <3>2, <3>3, <3>4, <3>5, <3>6
  <2>5. CASE m = Empty
    <3>1. letter' = letter BY <2>5 DEF Resume, Posted
    <3>2. pre' \in {NoValue, Empty} BY <2>1, <2>5 DEF Resume, Stored
    <3> QED BY <2>1, <2>3, <3>1, <3>2
  <2> QED BY <2>4, <2>5
<1>7. CASE \E i \in Agents : Spawn(i) BY <1>7 DEF Spawn
<1>8. CASE \E i \in Agents : Leave(i) BY <1>8 DEF Leave, Gone, RunningAfter, Cleanup
<1>9. CASE \E i \in Agents : Throw(i) BY <1>9 DEF Throw, Gone, RunningAfter
<1>10. CASE \E i \in Agents : StepDone(i) BY <1>10 DEF StepDone
<1>11. CASE \E i \in Agents : Proceed(i) BY <1>11 DEF Proceed, AtHead
<1>12. CASE \E i \in Agents : TakePreResolved(i)
  <2> PICK k \in Agents : TakePreResolved(k) BY <1>12
  <2>1. /\ stage[k] = "head" /\ stage' = [stage EXCEPT ![k] = "working"]
        /\ stopped' = stopped /\ taskOf' = taskOf
    BY DEF TakePreResolved, AtHead
  <2>2. letter' = IF pre \in Instructions THEN [letter EXCEPT ![pre].got = k] ELSE letter
    BY DEF TakePreResolved, Receive
  <2>3. \A n \in Instructions : n # pre => letter'[n] = letter[n] BY <2>2
  <2>4. pre \in Instructions => letter'[pre].to = letter[pre].to /\ letter'[pre].got = k
    BY <2>2
  <2>5. k # 0 BY DEF Agents
  <2>6. \A n \in Instructions : n # pre => letter'[n].to \in Born' \/ letter'[n] = Unsent
    BY <2>1, <2>3
  <2>7. \A n \in Instructions : letter'[n] # Unsent => letter'[n].to \in Born'
    BY <2>1, <2>4, <2>6
  <2>8. pre' = NoValue BY DEF TakePreResolved
  <2>9. InstructionKept' BY <2>1, <2>3, <2>4, <2>5
  <2> QED BY <2>7, <2>8, <2>9
<1>13. CASE \E i \in Agents : Block(i) BY <1>13 DEF Block, AtHead, IsPaused
<1> QED BY <1>1, <1>2, <1>3, <1>4, <1>5, <1>6, <1>7, <1>8, <1>9, <1>10, <1>11, <1>12, <1>13 DEF
     HitlNext

\* Sub-Agents are born one after the other.
LEMMA BirthsStep ==
    ASSUME TypeInv, Births, StoreInv, [HitlNext]_hitlVars
    PROVE  Births'
<1> USE HitlAssumption DEF HitlAssumption, TypeInv, TaskTypes, AgentTypes, StoreInv,
     ResolverIsLive
<1>1. CASE UNCHANGED hitlVars BY <1>1 DEF hitlVars, Births, Born, Newest
<1>2. CASE BeginTask BY <1>2 DEF BeginTask, Births, Born, Newest, Stages
<1>3. CASE Stop BY <1>3 DEF Stop, Cleanup, Births, Born, Newest, Stages
<1>4. CASE EndTask BY <1>4 DEF EndTask, Cleanup, Births, Born, Newest, Stages
<1>5. CASE Pause BY <1>5 DEF Pause, BarShown, IsPaused, Births, Born, Newest, Stages
<1>6. CASE \E m \in Instructions \union {Empty} : Resume(m)
  <2>1. \A i \in Agents : stage'[i] = "unborn" <=> stage[i] = "unborn"
    BY <1>6 DEF Resume
  <2>2. Born' = Born BY <2>1 DEF Born
  <2>3. taskOf' = taskOf BY <1>6 DEF Resume
  <2> QED BY <2>2, <2>3 DEF Births, Newest
<1>7. CASE \E i \in Agents : Spawn(i)
  <2> PICK k \in Agents : Spawn(k) BY <1>7
  <2>1. /\ k = Newest + 1 /\ stage[k] = "unborn" /\ task > 0
        /\ stage' = [stage EXCEPT ![k] = "head"] /\ taskOf' = [taskOf EXCEPT ![k] = task]
    BY DEF Spawn
  <2>2. Born' = Born \union {k} /\ k \notin Born BY <2>1 DEF Born
  <2>3. Born = 1..Newest /\ Newest \in Nat BY NewestIsBounded DEF Births
  <2>4. IsFiniteSet(Born) BY <2>3, FS_Interval
  <2>5. Cardinality(Born \union {k}) = Newest + 1 BY <2>2, <2>4, FS_AddElement DEF Newest
  <2>6. Newest' = Newest + 1 BY <2>2, <2>5 DEF Newest
  <2>7. Born' = 1..(Newest + 1)
    <3> HIDE DEF TypeInv
    <3> QED BY <2>1, <2>2, <2>3
  <2>8. \A i \in Born' : taskOf'[i] > 0
    <3>1. taskOf'[k] = task /\ \A i \in Agents \ {k} : taskOf'[i] = taskOf[i] BY <2>1
    <3> QED BY <2>1, <2>2, <3>1 DEF Born, Births
  <2> QED BY <2>6, <2>7, <2>8 DEF Births
<1>8. CASE \E i \in Agents : Leave(i)
  BY <1>8 DEF Leave, Gone, RunningAfter, Cleanup, Births, Born, Newest, Stages
<1>9. CASE \E i \in Agents : Throw(i)
  BY <1>9 DEF Throw, Gone, RunningAfter, Births, Born, Newest, Stages
<1>10. CASE \E i \in Agents : StepDone(i) BY <1>10 DEF StepDone, Births, Born, Newest, Stages
<1>11. CASE \E i \in Agents : Proceed(i)
  BY <1>11 DEF Proceed, AtHead, Births, Born, Newest, Stages
<1>12. CASE \E i \in Agents : TakePreResolved(i)
  BY <1>12 DEF TakePreResolved, AtHead, IsPaused, Receive, Births, Born, Newest, Stages
<1>13. CASE \E i \in Agents : Block(i)
  BY <1>13 DEF Block, AtHead, IsPaused, Births, Born, Newest, Stages
<1> QED BY <1>1, <1>2, <1>3, <1>4, <1>5, <1>6, <1>7, <1>8, <1>9, <1>10, <1>11, <1>12, <1>13 DEF
     HitlNext

\* The bar is shown to the Sub-Agent of the latest task.
LEMMA BarInvStep ==
    ASSUME TypeInv, OneInside, StoreInv, BarInv, Overtakes = FALSE, [HitlNext]_hitlVars
    PROVE  BarInv'
<1> USE HitlAssumption DEF HitlAssumption, TaskTypes, TypeInv, AgentTypes, StoreInv,
     ResolverIsLive, BarInv, Born, Inside, Stages
<1>1. CASE UNCHANGED hitlVars BY <1>1 DEF hitlVars
<1>2. CASE BeginTask BY <1>2 DEF BeginTask
<1>3. CASE Stop BY <1>3 DEF Stop, Cleanup
<1>4. CASE EndTask BY <1>4 DEF EndTask, Cleanup
<1>5. CASE Pause BY <1>5 DEF Pause, BarShown, IsPaused
<1>6. CASE \E m \in Instructions \union {Empty} : Resume(m)
  BY <1>6 DEF Resume, ResumeShown, BarShown, Posted, Stored
<1>7. CASE \E i \in Agents : Spawn(i)
  <2> PICK k \in Agents : Spawn(k) BY <1>7
  <2>1. Inside = {} BY DEF Spawn, ServiceIsFree
  <2>2. /\ stage' = [stage EXCEPT ![k] = "head"] /\ task' = task
        /\ taskOf' = [taskOf EXCEPT ![k] = task]
    BY DEF Spawn
  <2>3. taskOf'[k] = task' /\ \A i \in Agents \ {k} : stage'[i] = stage[i] BY <2>2
  <2> QED BY <2>1, <2>3
<1>8. CASE \E i \in Agents : Leave(i) BY <1>8 DEF Leave, Gone, RunningAfter, Cleanup
<1>9. CASE \E i \in Agents : Throw(i) BY <1>9 DEF Throw, Gone, RunningAfter
<1>10. CASE \E i \in Agents : StepDone(i) BY <1>10 DEF StepDone
<1>11. CASE \E i \in Agents : Proceed(i) BY <1>11 DEF Proceed, AtHead
<1>12. CASE \E i \in Agents : TakePreResolved(i)
  BY <1>12 DEF TakePreResolved, AtHead, IsPaused, Receive
<1>13. CASE \E i \in Agents : Block(i) BY <1>13 DEF Block, AtHead, IsPaused
<1> QED BY <1>1, <1>2, <1>3, <1>4, <1>5, <1>6, <1>7, <1>8, <1>9, <1>10, <1>11, <1>12, <1>13 DEF
     HitlNext

\* What is pending has a Sub-Agent that will take it.
LEMMA PendingInvStep ==
    ASSUME TypeInv, Births, OneInside, InsideOwned, StoreInv, LetterInv, BarInv, PendingInv,
         Overtakes = FALSE, CallsFail = FALSE, [HitlNext]_hitlVars
    PROVE  PendingInv'
<1> USE HitlAssumption DEF HitlAssumption, TaskTypes, StoreTypes, OneInside, InsideOwned,
     BarInv, PendingInv, InstructionStaysInTask, Born, Letters, Inside, Aborted, TypeInv,
     AgentTypes, Stages, StoreInv, ResolverIsLive, IdleIsClean, IsPaused
<1>1. CASE UNCHANGED hitlVars BY <1>1 DEF hitlVars
<1>2. CASE BeginTask BY <1>2 DEF BeginTask
<1>3. CASE Stop BY <1>3 DEF Stop, Cleanup
<1>4. CASE EndTask BY <1>4 DEF EndTask, Cleanup
<1>5. CASE Pause BY <1>5 DEF Pause, BarShown, IsPaused
<1>6. CASE \E m \in Instructions \union {Empty} : Resume(m)
  <2> PICK m \in Instructions \union {Empty} : Resume(m) BY <1>6
  <2>1. /\ owned /\ task \notin stopped /\ paused /\ pre = NoValue /\ paused' = FALSE
        /\ \A i \in Inside : taskOf[i] = task
        /\ UNCHANGED <<task, stopped, taskOf, running>>
    BY DEF Resume, ResumeShown, BarShown
  <2>2. /\ resolver # 0 => resolver \in Inside /\ stage' = [stage EXCEPT ![resolver] = "working"]
        /\ resolver = 0 => stage' = stage
    BY DEF Resume, Agents
  <2>3. Inside' = Inside /\ Born' = Born BY <2>2
  <2>4. resolver # 0 => pre' = NoValue BY <2>1 DEF Resume
  <2>5. pre' \in {NoValue, m} BY <2>1 DEF Resume, Stored
  <2>6. CASE m \in Instructions
    <3>1. letter' = [letter EXCEPT ![m] = [to |-> Newest, in |-> task, got |-> resolver]]
      BY <2>6 DEF Resume, Posted
    <3>2. letter'[m].in = task /\ letter'[m].got = resolver BY <2>6, <3>1
    <3>3. \A n \in Instructions \ {m} : letter'[n] = letter[n] BY <3>1
    <3>4. \A n \in Instructions : letter'[n].got # 0 =>
            letter'[n].got \in Born' /\ taskOf'[letter'[n].got] = letter'[n].in
      BY <2>1, <2>2, <2>3, <3>2, <3>3
    <3>5. \A n \in Instructions : pre' = n => \A i \in Inside' : taskOf'[i] = letter'[n].in
      BY <2>1, <2>3, <2>5, <3>2
    <3> QED BY <2>1, <2>3, <3>4, <3>5
  <2>7. CASE m = Empty
    <3>1. letter' = letter BY <2>7 DEF Resume, Posted
    <3>2. \A n \in Instructions : pre' # n BY <2>5, <2>7
    <3>3. InstructionStaysInTask' BY <2>1, <3>1
    <3>4. \A n \in Instructions : letter'[n].got # 0 => letter'[n].got \in Born'
      BY <2>3, <3>1
    <3> QED BY <2>1, <2>3, <3>2, <3>3, <3>4
  <2> QED BY <2>6, <2>7
<1>7. CASE \E i \in Agents : Spawn(i)
  <2> PICK k \in Agents : Spawn(k) BY <1>7
  <2>1. Inside = {} BY DEF Spawn, ServiceIsFree
  <2>2. /\ stage[k] = "unborn" /\ stage' = [stage EXCEPT ![k] = "head"]
        /\ taskOf' = [taskOf EXCEPT ![k] = task]
        /\ UNCHANGED <<task, stopped, paused, pre, letter>>
    BY DEF Spawn
  <2>3. /\ stage'[k] = "head" /\ taskOf'[k] = task
        /\ \A i \in Agents \ {k} : stage'[i] = stage[i] /\ taskOf'[i] = taskOf[i]
    BY <2>2
  <2>4. paused = FALSE /\ pre = NoValue BY <2>1 DEF Booleans
  <2>5. \A m \in Instructions : pre' # m BY <2>2, <2>4
  <2>6. \A m \in Instructions : letter[m].got # 0 => letter[m].got \in Agents \ {k} BY <2>2
  <2>7. ~IsPaused' BY <2>2, <2>4
  <2>8. k \in Inside' BY <2>3
  <2>9. InstructionStaysInTask' BY <2>2, <2>3, <2>6
  <2>10. \A m \in Instructions : letter'[m].got # 0 => letter'[m].got \in Born'
    BY <2>2, <2>3, <2>6
  <2> QED BY <2>2, <2>3, <2>5, <2>7, <2>8, <2>9, <2>10
<1>8. CASE \E i \in Agents : Leave(i) BY <1>8 DEF Leave, Gone, RunningAfter, Cleanup
<1>9. CASE \E i \in Agents : Throw(i) BY <1>9 DEF Throw, Gone, RunningAfter
<1>10. CASE \E i \in Agents : StepDone(i) BY <1>10 DEF StepDone
<1>11. CASE \E i \in Agents : Proceed(i) BY <1>11 DEF Proceed, AtHead
<1>12. CASE \E i \in Agents : TakePreResolved(i)
  BY <1>12 DEF TakePreResolved, AtHead, IsPaused, Receive
<1>13. CASE \E i \in Agents : Block(i) BY <1>13 DEF Block, AtHead, IsPaused
<1> QED BY <1>1, <1>2, <1>3, <1>4, <1>5, <1>6, <1>7, <1>8, <1>9, <1>10, <1>11, <1>12, <1>13 DEF
     HitlNext

----------------------------------------------------------------------------
\* Every part holds at the start.
LEMMA InvInit == HitlInit => TypeInv /\ Births /\ OneInside /\ InsideOwned /\ StoreInv /\ LetterInv
<1> SUFFICES ASSUME HitlInit PROVE TypeInv /\ Births /\ OneInside /\ InsideOwned /\ StoreInv /\
      LetterInv
  OBVIOUS
<1> USE HitlAssumption DEF HitlAssumption, HitlInit
<1>1. Booleans BY DEF Booleans
<1>2. TaskTypes BY DEF TaskTypes
<1>3. AgentTypes BY DEF AgentTypes, Stages
<1>4. StoreTypes
  <2>1. Unsent \in Letters BY DEF Unsent, Letters
  <2>2. pre \in Instructions \union {NoValue, Empty} /\ resolver \in 0..MaxAgents OBVIOUS
  <2>3. letter \in [Instructions -> Letters] BY <2>1
  <2> QED BY <2>2, <2>3 DEF StoreTypes
<1>5. Born = {} /\ Inside = {} BY DEF Born, Inside
<1>6. Births BY <1>5, FS_EmptySet DEF Births, Newest
<1>7. OneInside /\ InsideOwned BY <1>5 DEF OneInside, InsideOwned
<1>8. StoreInv BY DEF StoreInv, ResolverIsLive, IdleIsClean, IsPaused
<1>9. LetterInv BY DEF LetterInv, InstructionKept
<1> QED BY <1>1, <1>2, <1>3, <1>4, <1>6, <1>7, <1>8, <1>9 DEF TypeInv

\* Types, which need nothing else.
LEMMA TypeStep == TypeInv /\ [HitlNext]_hitlVars => TypeInv'
BY BooleansStep, TaskTypesStep, AgentTypesStep, StoreTypesStep DEF TypeInv

\* Whatever the user and the Sub-Agents do, the store keeps to its types.
THEOREM HitlTypeCorrect == HitlSpec => []TypeInv
<1>1. HitlInit => TypeInv BY InvInit
<1> QED BY <1>1, TypeStep, PTL DEF HitlSpec

\* The invariant of a context whose aborted Sub-Agents return before the next one starts.
LEMMA InvHolds == ASSUME Overtakes = FALSE PROVE HitlSpec => []HitlInv
<1>1. HitlInit => HitlInv BY InvInit DEF HitlInv
<1>2. HitlInv /\ [HitlNext]_hitlVars => HitlInv'
  <2> SUFFICES ASSUME HitlInv, [HitlNext]_hitlVars PROVE HitlInv' OBVIOUS
  <2>1. /\ TypeInv /\ Births /\ OneInside /\ InsideOwned /\ StoreInv /\ LetterInv
        /\ ResolverIsLive
    BY DEF HitlInv, StoreInv
  <2>2. TypeInv' BY <2>1, TypeStep
  <2>3. Births' BY <2>1, BirthsStep
  <2>4. OneInside' BY <2>1, OneInsideStep
  <2>5. InsideOwned' BY <2>1, InsideOwnedStep
  <2>6. StoreInv' BY <2>1, StoreInvStep
  <2>7. LetterInv' BY <2>1, LetterInvStep
  <2> QED BY <2>2, <2>3, <2>4, <2>5, <2>6, <2>7 DEF HitlInv
<1> QED BY <1>1, <1>2, PTL DEF HitlSpec

\* A Sub-Agent blocked in waitForResume can always be reached: the bar shows how to resume, the
\* resolver is its own, and a context that nobody owns has no pause and no resolver.
THEOREM BlockedIsReachable == ASSUME Overtakes = FALSE PROVE HitlSpec => []StoreFollowsAgents
<1>1. HitlInv => StoreFollowsAgents
  <2> SUFFICES ASSUME HitlInv PROVE StoreFollowsAgents OBVIOUS
  <2>1. BlockedCanBeResumed
    <3> SUFFICES ASSUME NEW i \in Agents, stage[i] = "blocked" PROVE resolver = i /\ ResumeShown
      BY DEF BlockedCanBeResumed
    <3>1. resolver = i /\ paused /\ pre = NoValue /\ ~Aborted(i) BY DEF HitlInv, StoreInv
    <3>2. i \in Inside /\ i \in Born BY DEF Inside, Born
    <3>3. owned /\ taskOf[i] = task BY <3>1, <3>2 DEF HitlInv, InsideOwned
    <3> QED BY <3>1, <3>2, <3>3 DEF ResumeShown, BarShown, Aborted
  <2> QED BY <2>1 DEF HitlInv, StoreInv, StoreFollowsAgents
<1> QED BY <1>1, InvHolds, PTL

\* An instruction is kept until its Sub-Agent has it, is gone, or is stopped.
THEOREM InstructionArrives == ASSUME Overtakes = FALSE PROVE HitlSpec => []InstructionKept
<1>1. HitlInv => InstructionKept BY DEF HitlInv, LetterInv
<1> QED BY <1>1, InvHolds, PTL

\* When no call throws, an instruction never reaches a later task.
THEOREM InstructionsStay ==
    ASSUME Overtakes = FALSE, CallsFail = FALSE
    PROVE  HitlSpec => []InstructionStaysInTask
<1>1. HitlInit => HitlInv /\ BarInv /\ PendingInv
  <2> SUFFICES ASSUME HitlInit PROVE HitlInv /\ BarInv /\ PendingInv OBVIOUS
  <2>1. HitlInv BY InvInit DEF HitlInv
  <2>2. BarInv BY DEF HitlInit, BarInv, Inside
  <2>3. PendingInv BY HitlAssumption
          DEF HitlAssumption, HitlInit, PendingInv, InstructionStaysInTask, IsPaused, Unsent
  <2> QED BY <2>1, <2>2, <2>3
<1>2. HitlInv /\ BarInv /\ PendingInv /\ [HitlNext]_hitlVars => BarInv' /\ PendingInv'
  BY BarInvStep, PendingInvStep DEF HitlInv
<1>3. PendingInv => InstructionStaysInTask BY DEF PendingInv
<1> QED BY <1>1, <1>2, <1>3, InvHolds, PTL DEF HitlSpec
=============================================================================
