---------------------------- MODULE MCEnrichment ----------------------------
(***************************************************************************)
(* Two executors, two interactive builds that can fill the queue, and two  *)
(* slots, one of them kept for the builds.  A bound keeps apart the two    *)
(* ways in which an executor has company.                                  *)
(***************************************************************************)
EXTENDS Enrichment

\* While there are interactive builds there is one executor, and it started
\* alone.  No step under a fairness condition leads out of this.
Company ==
  \/ Waiting \cup acquired \subseteq Background
  \/ ~overlap /\ Cardinality({e \in Executor : pc[e] # "idle"}) <= 1
=============================================================================
