----------------------------- MODULE BuildQueue -----------------------------
(***************************************************************************)
(* src/app/buildqueue.py: the admission queue every paid build goes        *)
(* through.  A ticket is reserved on the request thread, acquired by its   *)
(* worker when it is the earliest waiting ticket its class lets start, and *)
(* released from the worker's finally-block.  Each action is one critical  *)
(* section of the queue's condition variable; a wait ends by notify or by  *)
(* the 0.25 s poll, so a wakeup is never lost and is not modelled.         *)
(***************************************************************************)
EXTENDS SequencesExt, Integers

CONSTANTS Ticket,       \* identities of Ticket objects
          Background,   \* tickets reserved with background=True
          CapacityArg,  \* the three constructor arguments, as configured:
          MaxQueuedArg, \* they come from the environment and may be absurd,
          ReservedArg   \* so the constructor clamps them

ASSUME BuildQueueAssumption ==
  /\ Background \subseteq Ticket
  /\ CapacityArg \in Int
  /\ MaxQueuedArg \in Int
  /\ ReservedArg \in Int

Capacity == Max({1, CapacityArg})
MaxQueued == Max({0, MaxQueuedArg})
\* Bug: no clamp below the capacity.
ReservedUnclamped == Max({0, ReservedArg})
Reserved == Max({0, Min({ReservedArg, Capacity - 1})})

VARIABLES pending,   \* the deque, head first
          running,   \* the counter of slots in use
          acquired   \* the tickets whose `acquired` flag is set

queueVars == <<pending, running, acquired>>

Waiting == Range(pending)

\* Bug: the reservation is forgotten.
LimitForAnyone(t) == Capacity

\* How many slots this ticket's class is allowed to occupy.
LimitFor(t) == Capacity - (IF t \in Background THEN Reserved ELSE 0)

CanStart(t) == running < LimitFor(t)

\* Bug: any ticket that could start is taken, not the earliest.
AnyEligible(i) == CanStart(pending[i])

\* _next_eligible() is the ticket at place i: it could start right now and
\* nobody ahead of it could.
NextEligible(i) ==
  /\ CanStart(pending[i])
  /\ \A j \in 1..(i - 1) : ~CanStart(pending[j])

QueueInit == pending = <<>> /\ running = 0 /\ acquired = {}

-----------------------------------------------------------------------------
\* Bug: admission looks at the running builds alone.
ReserveByRunning(t) ==
  /\ t \notin Waiting \cup acquired
  /\ running < Capacity + MaxQueued
  /\ pending' = Append(pending, t)
  /\ UNCHANGED <<running, acquired>>

\* reserve(): a new Ticket object at the tail.  QueueFull changes nothing.
Reserve(t) ==
  /\ t \notin Waiting \cup acquired
  /\ Len(pending) + running < Capacity + MaxQueued
  /\ pending' = Append(pending, t)
  /\ UNCHANGED <<running, acquired>>

\* Bug: the ticket keeps its place in line.
AcquireInPlace(t) ==
  \E i \in DOMAIN pending :
    /\ pending[i] = t
    /\ NextEligible(i)
    /\ running' = running + 1
    /\ acquired' = acquired \cup {t}
    /\ UNCHANGED pending

\* acquire(): the pass of its loop that finds the ticket next in line.
Acquire(t) ==
  \E i \in DOMAIN pending :
    /\ pending[i] = t
    /\ NextEligible(i)
    /\ pending' = RemoveAt(pending, i)
    /\ running' = running + 1
    /\ acquired' = acquired \cup {t}

\* Bug: the slot is not counted back.
GiveBackNothing(t) ==
  /\ t \in acquired
  /\ acquired' = acquired \ {t}
  /\ UNCHANGED <<pending, running>>

\* release() of a ticket that holds a slot.
GiveBackSlot(t) ==
  /\ t \in acquired
  /\ running' = running - 1
  /\ acquired' = acquired \ {t}
  /\ UNCHANGED pending

\* release() of a ticket still in line, or of one already released: the
\* deque's remove raises ValueError for the latter, which release swallows.
LeaveLine(t) ==
  /\ t \notin acquired
  /\ \/ \E i \in DOMAIN pending :
          /\ pending[i] = t
          /\ pending' = RemoveAt(pending, i)
     \/ t \notin Waiting /\ UNCHANGED pending
  /\ UNCHANGED <<running, acquired>>

Release(t) == GiveBackSlot(t) \/ LeaveLine(t)

QueueNext == \E t \in Ticket : Reserve(t) \/ Acquire(t) \/ Release(t)

\* A waiting worker polls, and a build that runs ends and releases; nobody is
\* obliged to ask for a slot, or to give up while in line.
QueueFairness ==
  \A t \in Ticket : WF_queueVars(Acquire(t)) /\ WF_queueVars(GiveBackSlot(t))

QueueSpec == QueueInit /\ [][QueueNext]_queueVars
FairQueueSpec == QueueSpec /\ QueueFairness

-----------------------------------------------------------------------------
\* The variables hold the kind of value the Python fields hold.
TypeOK ==
  /\ pending \in Seq(Ticket)
  /\ running \in Nat
  /\ acquired \in SUBSET Ticket

\* A ticket stands in line at most once.
NoDuplicates == \A i, j \in DOMAIN pending : pending[i] = pending[j] => i = j

\* The bare counter agrees with the flags on the tickets, and no ticket both
\* waits and holds: however releases of either kind are interleaved, and
\* repeated, no slot is lost and none is returned twice.
SlotsAccounted ==
  /\ IsFiniteSet(acquired)
  /\ running = Cardinality(acquired)
  /\ NoDuplicates
  /\ Waiting \cap acquired = {}

\* Running builds never exceed the capacity, outstanding work never exceeds
\* the admission bound, and background builds never take the last reserved
\* slots, though they are started from the shared counter alone.
WithinLimits ==
  /\ running <= Capacity
  /\ Len(pending) + running <= Capacity + MaxQueued
  /\ Cardinality(acquired \cap Background) <= Capacity - Reserved

Ahead(t, u) ==
  \E i, j \in DOMAIN pending : i < j /\ pending[i] = t /\ pending[j] = u

Starts(t) == t \notin acquired /\ t \in acquired'

\* A ticket overtakes another only if the other is a background ticket, the
\* overtaker is not, and the reservation is what holds the other back.  So
\* each class is first come first served and no interactive ticket is ever
\* overtaken (buildqueue.py, module docstring and _next_eligible).
FairOrder ==
  [][\A t, u \in Ticket :
       Ahead(t, u) /\ Starts(u) =>
         /\ t \in Background /\ u \notin Background
         /\ running >= Capacity - Reserved]_queueVars

\* The queue's line and counter implement the abstract pool of slots.
Pool == INSTANCE SlotPool
          WITH Slots <- Capacity, BackgroundSlots <- Capacity - Reserved,
               Places <- Capacity + MaxQueued,
               waiting <- Waiting, holding <- acquired
ImplementsSlotPool == Pool!PoolSpec

\* Every interactive ticket is served or leaves, whatever background work
\* and later arrivals do.
InteractiveServed ==
  \A t \in Ticket \ Background : t \in Waiting ~> t \notin Waiting

\* Background work yields to interactive work but is not locked out for good:
\* once interactive traffic stops, whoever waits is served, even when the
\* configuration reserves as many slots as there are.
BackgroundServed ==
  <>[](Waiting \cup acquired \subseteq Background) =>
    \A t \in Background : t \in Waiting ~> t \notin Waiting
=============================================================================
