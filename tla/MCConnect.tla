----------------------------- MODULE MCConnect -----------------------------
(***************************************************************************)
(* Two ways: one that an earlier build may have left and that the evidence *)
(* does not support, and one that is genuine and any stage may find.  A    *)
(* page states the genuine tie clearly, another only mentions the bogus    *)
(* one, through somebody who is no person.  One endpoint is a public       *)
(* figure, so the other is walked a hop deeper and probes for it.          *)
(***************************************************************************)
EXTENDS Connect

CONSTANTS bogus, real

MCPage ==
  {[readable |-> TRUE, near |-> TRUE, clear |-> TRUE,
    direct |-> {real}, others |-> {}, noise |-> {}],
   [readable |-> TRUE, near |-> FALSE, clear |-> FALSE,
    direct |-> {}, others |-> {}, noise |-> {bogus}]}
=============================================================================
