---------------------------- MODULE MCNodeVisit ----------------------------
(***************************************************************************)
(* Three walks: one that leaves the personal silo out and wants a little   *)
(* news of a politician, one that wants everything, and one that visits    *)
(* the person in a context and wants more news of a senior manager.        *)
(***************************************************************************)
EXTENDS NodeVisit, TLC
CONSTANTS shallow, whole, seeded

MCWants ==
  (shallow :> [context |-> "", weighted |-> TRUE, signals |-> {"political"},
               professional |-> TRUE, enhanced |-> FALSE])
  @@ (whole :> [context |-> "", weighted |-> FALSE, signals |-> {},
                professional |-> FALSE, enhanced |-> FALSE])
  @@ (seeded :> [context |-> "acme", weighted |-> TRUE, signals |-> {"senior"},
                 professional |-> FALSE, enhanced |-> TRUE])
=============================================================================
