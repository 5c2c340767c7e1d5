---------------------------- MODULE MCGraphStore ----------------------------
(***************************************************************************)
(* Two nodes whose new people overlap in opposite orders, which is how two *)
(* transactions deadlock, and a prune of two people both of them use, with *)
(* an edge that is there already: it may be changed by one of the workers  *)
(* while the prune deletes it, and its subject is that worker's own.       *)
(***************************************************************************)
EXTENDS GraphStore, TLC
CONSTANTS w1, w2, pru, ann, bob, cy, junk

MCBatch == (w1 :> <<ann, bob, junk>>) @@ (w2 :> <<cy, bob, ann, junk>>)
MCTies == {<<cy, junk>>}
=============================================================================
