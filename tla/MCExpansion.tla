---------------------------- MODULE MCExpansion ----------------------------
(***************************************************************************)
(* A seed that finds two people, who find each other, the seed and two     *)
(* more: two hops with a pool of two threads, a person on whom the         *)
(* evidence of two finders must be added up to pass the bar, a beam of     *)
(* two, and a famous node.                                                 *)
(***************************************************************************)
EXTENDS Expansion

CONSTANTS s, p, q, r

MCNode == {s, p, q, r}
MCFinds == [n \in MCNode |->
  CASE n = s -> [m \in MCNode |-> IF m \in {p, q} THEN 2 ELSE 0]
    [] n = p -> [m \in MCNode |-> IF m \in {s, q} THEN 2 ELSE IF m = r THEN 1 ELSE 0]
    [] n = q -> [m \in MCNode |-> IF m = p THEN 2 ELSE IF m = r THEN 1 ELSE 0]
    [] OTHER -> [m \in MCNode |-> IF m = s THEN 3 ELSE 0]]
=============================================================================
