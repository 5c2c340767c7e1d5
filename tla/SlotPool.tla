------------------------------ MODULE SlotPool ------------------------------
(***************************************************************************)
(* What the build queue promises its callers, with no line and no counter: *)
(* a set of tickets that wait and a set that hold a slot.  Admission is    *)
(* bounded, slots are bounded, and background tickets never occupy the     *)
(* slots kept for interactive ones.  BuildQueue implements this            *)
(* specification (src/app/buildqueue.py, module docstring).                *)
(***************************************************************************)
EXTENDS Integers, FiniteSets

CONSTANTS Ticket,           \* every ticket that can be asked for
          Background,       \* those of the enrichment executor
          Slots,            \* builds that may run at once
          BackgroundSlots,  \* of which background work may use this many
          Places            \* slots plus places to wait

VARIABLES waiting, holding

poolVars == <<waiting, holding>>

Share(t) == IF t \in Background THEN BackgroundSlots ELSE Slots

PoolInit == waiting = {} /\ holding = {}

\* A newcomer is admitted while the total of waiting and running work is
\* below the bound, never by looking at one half of it.
Admit(t) ==
  /\ t \notin waiting \cup holding
  /\ Cardinality(waiting) + Cardinality(holding) < Places
  /\ waiting' = waiting \cup {t}
  /\ UNCHANGED holding

Grant(t) ==
  /\ t \in waiting
  /\ Cardinality(holding) < Share(t)
  /\ waiting' = waiting \ {t}
  /\ holding' = holding \cup {t}

Leave(t) ==
  /\ t \in waiting \cup holding
  /\ waiting' = waiting \ {t}
  /\ holding' = holding \ {t}

PoolNext == \E t \in Ticket : Admit(t) \/ Grant(t) \/ Leave(t)

PoolSpec == PoolInit /\ [][PoolNext]_poolVars
=============================================================================
