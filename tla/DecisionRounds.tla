--------------------------- MODULE DecisionRounds ---------------------------
(***************************************************************************)
(* What a planning run promises its caller, whatever the LLM answers: it   *)
(* alternates between deciding and acting for at most MaxRounds rounds,    *)
(* and once it was asked to stop it neither acts nor decides again.        *)
(***************************************************************************)
EXTENDS Naturals

CONSTANT MaxRounds

VARIABLES stage, round, stopped

vars == <<stage, round, stopped>>

Init == stage = "waiting" /\ round = 0 /\ stopped = FALSE

Begin == /\ stage = "waiting"
         /\ stage' = "deciding"
         /\ round' = 1
         /\ UNCHANGED stopped

Act == /\ stage = "deciding" /\ ~stopped
       /\ stage' = "acting"
       /\ UNCHANGED <<round, stopped>>

Again == /\ stage = "acting" /\ ~stopped /\ round < MaxRounds
         /\ stage' = "deciding"
         /\ round' = round + 1
         /\ UNCHANGED stopped

GiveUp == /\ stage \in {"deciding", "acting"}
          /\ stage' = "ending"
          /\ UNCHANGED <<round, stopped>>

Finish == /\ stage \in {"deciding", "acting", "ending"}
          /\ stage' = "done"
          /\ UNCHANGED <<round, stopped>>

Stop == /\ stage \in {"waiting", "deciding", "acting"}
        /\ stopped' = TRUE
        /\ UNCHANGED <<stage, round>>

Next == Begin \/ Act \/ Again \/ GiveUp \/ Finish \/ Stop

Spec == Init /\ [][Next]_vars
=============================================================================
