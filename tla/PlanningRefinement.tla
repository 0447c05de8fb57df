------------------------- MODULE PlanningRefinement -------------------------
(***************************************************************************)
(* PlanningRun implements DecisionRounds.  The rounds are bounded by the   *)
(* smaller of two counters kept apart in the code: the budget of the       *)
(* LoopGovernor and the loopBudget of the FSM context.                     *)
(***************************************************************************)
EXTENDS PlanningRun

RoundLimit == IF MbBudget < FsmBudget + 1 THEN MbBudget ELSE FsmBudget + 1

NotStarted == phase \in {"idle", "persisting"}

Stage == IF NotStarted THEN "waiting"
         ELSE IF phase = "settled" THEN "done"
         ELSE IF fsm = "TERMINATE" THEN "ending"
         ELSE IF fsm \in {"DISPATCH", "OBSERVE", "EVALUATE"} THEN "acting"
         ELSE "deciding"

Round == IF NotStarted THEN 0 ELSE FsmBudget - ctx.loopBudget + 1

Promise == INSTANCE DecisionRounds
             WITH MaxRounds <- RoundLimit, stage <- Stage, round <- Round,
                  stopped <- aborted

\* Every run is a run of DecisionRounds: no more rounds than either budget allows,
\* and after a cancel neither another decision nor another action.
ImplementsDecisionRounds == Promise!Spec
=============================================================================
