----------------------------- MODULE MCLookups -----------------------------
(***************************************************************************)
(* Two visits that go through the registers, one slot for their requests,  *)
(* and lifetimes of a day or two.  The days are enough for every answer    *)
(* that goes through two caches to be asked for when it is older than it   *)
(* may be, and six topics are asked often enough to get there.            *)
(***************************************************************************)
EXTENDS Lookups
CONSTANTS w1, w2
MCAsks ==
  [coauthors_enrichment |-> 4, appearances |-> 4, rounds_for_firm |-> 4, officers |-> 4,
   insiders |-> 4, board_members |-> 4, colleagues |-> 2, directory |-> 2,
   roster_colleagues |-> 2, enrich_person |-> 1]
MCTopics == DOMAIN MCAsks
=============================================================================
