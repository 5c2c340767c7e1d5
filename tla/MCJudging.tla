----------------------------- MODULE MCJudging -----------------------------
(***************************************************************************)
(* Two visits that filter overlapping names, one of them noise, and a walk *)
(* that labels ties.                                                       *)
(***************************************************************************)
EXTENDS Judging
CONSTANTS first, second, labeller, ada, bob, menu, tie
MCAsks ==
  [c \in Caller |-> CASE c = first -> <<ada, menu, bob>>
                     [] c = second -> <<bob>>
                     [] c = labeller -> <<tie>>]
=============================================================================
