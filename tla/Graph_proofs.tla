---------------------------- MODULE Graph_proofs ----------------------------
(***************************************************************************)
(* Proofs about the graph and the walk that fills it.  GraphStore: for any *)
(* workers, any nodes and any junk, no committed edge ends at a person     *)
(* that is not there, and no transaction loses what it has written until   *)
(* its final commit.  Expansion: for any people and any number of threads, *)
(* the walk stays in its bounds and leaves no thread behind.               *)
(***************************************************************************)
EXTENDS GraphStore, Expansion, TLAPS, FiniteSetTheorems

-----------------------------------------------------------------------------
(* GraphStore.                                                             *)

Step == {"look", "insert", "reselect", "link"}
Rows == Person \cup (Person \X Person)

Tx == [phase : {"working", "marking", "skipped", "stored", "marked"}, at : Nat \ {0},
       step : Step, linked : SUBSET (Person \X Person), dirty : SUBSET Rows,
       locked : SUBSET Rows, stale : SUBSET Rows, tries : Nat, attempt : Nat]

PruneState == [phase : {"idle", "working", "done", "expunged", "failed"},
               step : {"next", "edges", "node"}, list : SUBSET Person, todo : SUBSET Person,
               target : Person \cup {CHOOSE p \in Person : TRUE}, deleted : SUBSET Person,
               cut : SUBSET (Person \X Person), tries : Nat, attempt : Nat]

\* Everything has its type, and a statement about a person has one.
Typed ==
  /\ row \in [Person -> {"absent", "stored"} \cup Worker]
  /\ edges \subseteq Person \X Person
  /\ tx \in [Worker -> Tx]
  /\ \A w \in Worker : tx[w].step # "look" => tx[w].at <= Len(Batch[w])
  /\ prune \in PruneState

\* The people w may count on: committed, or its own inserts.
Seen(w) == {p \in Person : row[p] \in {"stored", w}}

\* Edges not yet committed end at people w sees and the prune leaves alone.
LinksHold ==
  \A w \in Worker : Held(w) \subseteq Seen(w) /\ Held(w) \cap prune.deleted = {}

\* A worker at work sees its subject, once it is past it, and the person it is
\* about to link, unless the prune has taken them away since.
Knows(w, p) == p \in Seen(w) \cup tx[w].stale
SubjectHolds ==
  \A w \in Worker :
    /\ tx[w].phase = "working" /\ tx[w].at > 1 => Knows(w, Subject(w))
    /\ tx[w].phase = "working" /\ tx[w].step = "link" => tx[w].at > 1 /\ Knows(w, Current(w))
    /\ tx[w].stale \cap Person \subseteq Junk

\* The prune works through stored junk; what it has deleted is still there for
\* the others, and all edges to it are cut.
PruneHolds ==
  /\ prune.list \cup prune.todo \cup prune.deleted \subseteq Junk
  /\ prune.phase # "working" => prune.deleted = {}
  /\ prune.phase = "working" =>
       \A p \in prune.list \cup prune.todo \cup prune.deleted : row[p] = "stored"
  /\ prune.phase = "working" /\ prune.step # "next" => prune.target \in prune.todo
  /\ \A p \in prune.deleted : Touching(p, edges) \subseteq prune.cut

\* The inductive invariant.
IInv == Typed /\ NoDanglingEdge /\ LinksHold /\ SubjectHolds /\ PruneHolds

-----------------------------------------------------------------------------
(* Facts about the constants and the start.                                *)

LEMMA Names ==
  /\ Pruner \notin Worker /\ "absent" \notin Worker /\ "stored" \notin Worker
  /\ \A w \in Worker : Batch[w] \in Seq(Person) /\ Len(Batch[w]) \in Nat \ {0}
  /\ Junk \subseteq Person /\ InPlace \in Nat /\ NodeRetries \in Nat
  /\ \A p \in Person : p \notin Person \X Person
<1>1. \A w \in Worker : Batch[w] \in Seq(Person) /\ Batch[w] # <<>>
  BY StoreAssumption
<1>2. \A w \in Worker : Len(Batch[w]) \in Nat \ {0}
  BY <1>1
<1>3. QED
  BY <1>1, <1>2, StoreAssumption

LEMMA InitEstablishes == StoreInit => IInv
<1> SUFFICES ASSUME StoreInit PROVE IInv
  OBVIOUS
<1>1. \A w \in Worker : tx[w] = Fresh(0)
  BY DEF StoreInit
<1>2. /\ Fresh(0) \in Tx /\ Fresh(0).linked = {} /\ Fresh(0).at = 1
      /\ Fresh(0).step = "look" /\ Fresh(0).stale = {}
  BY DEF Fresh, Tx, Step
<1>3. /\ prune \in PruneState /\ prune.list = {} /\ prune.todo = {} /\ prune.deleted = {}
      /\ prune.phase = "idle"
  BY DEF StoreInit, FreshPrune, PruneState
<1>4. edges = Ties /\ Ties \subseteq Stored \X Stored /\ Stored \subseteq Person
  BY StoreAssumption DEF StoreInit
<1>5. \A p \in Stored : row[p] = "stored"
  BY <1>4 DEF StoreInit
<1>6. Typed
  BY <1>1, <1>2, <1>3, <1>4 DEF Typed, StoreInit
<1>7. NoDanglingEdge
  BY <1>4, <1>5 DEF NoDanglingEdge
<1>8. LinksHold /\ SubjectHolds
  BY <1>1, <1>2, <1>3 DEF LinksHold, SubjectHolds, Held
<1>9. PruneHolds
  BY <1>3 DEF PruneHolds
<1>10. QED
  BY <1>6, <1>7, <1>8, <1>9 DEF IInv
-----------------------------------------------------------------------------
(* The workers' steps.                                                     *)

\* Rows change hands between nobody and w only.
RowsOf(w) ==
  /\ row' \in [Person -> {"absent", "stored"} \cup Worker]
  /\ \A p \in Person :
       \/ row'[p] = row[p]
       \/ row[p] = "absent" /\ row'[p] = w
       \/ row[p] = w /\ row'[p] = "absent"

\* The ends of some edges.
Ends(linked) == UNION {{e[1], e[2]} : e \in linked}

\* A step of w that commits nothing.
LEMMA WorkerMoves ==
  ASSUME IInv, NEW w \in Worker, NEW v \in Tx, tx' = [tx EXCEPT ![w] = v],
         UNCHANGED <<edges, prune>>, RowsOf(w),
         v.step # "look" => v.at <= Len(Batch[w]),
         \A p \in Ends(v.linked) : row'[p] \in {"stored", w} /\ p \notin prune.deleted,
         v.stale \subseteq tx[w].stale,
         v.phase = "working" /\ v.at > 1 => Subject(w) \in Seen(w)' \cup v.stale,
         v.phase = "working" /\ v.step = "link" =>
           v.at > 1 /\ Batch[w][v.at] \in Seen(w)' \cup v.stale
  PROVE  IInv'
<1>1. \A u \in Worker : tx'[u] = IF u = w THEN v ELSE tx[u]
  BY DEF IInv, Typed
<1>2. \A p \in Person : row[p] = "stored" => row'[p] = "stored"
  BY Names DEF RowsOf
<1>3. \A u \in Worker \ {w} : Seen(u) \subseteq Seen(u)'
  BY Names DEF RowsOf, Seen
<1>4. Typed'
  BY <1>1 DEF IInv, Typed, RowsOf
<1>5. NoDanglingEdge'
  <2>1. SUFFICES ASSUME NEW e \in edges
                 PROVE  row'[e[1]] = "stored" /\ row'[e[2]] = "stored"
    BY DEF NoDanglingEdge
  <2>2. e[1] \in Person /\ e[2] \in Person
    BY DEF IInv, Typed
  <2>3. row[e[1]] = "stored" /\ row[e[2]] = "stored"
    BY DEF IInv, NoDanglingEdge
  <2>4. QED
    BY <1>2, <2>2, <2>3
<1>6. LinksHold'
  <2>1. SUFFICES ASSUME NEW u \in Worker
                 PROVE  Held(u)' \subseteq Seen(u)' /\ Held(u)' \cap prune.deleted = {}
    BY DEF LinksHold, Held, Seen
  <2>2. CASE u = w
    <3>1. Held(u)' = Ends(v.linked)
      BY <1>1, <2>2 DEF Held, Ends
    <3>2. Ends(v.linked) \subseteq Person
      BY DEF Ends, Tx
    <3>3. QED
      BY <2>2, <3>1, <3>2 DEF Seen
  <2>3. CASE u # w
    <3>1. Held(u)' = Held(u)
      BY <1>1, <2>3 DEF Held
    <3>2. Held(u) \subseteq Seen(u) /\ Held(u) \cap prune.deleted = {}
      BY DEF IInv, LinksHold
    <3>3. QED
      BY <1>3, <2>3, <3>1, <3>2
  <2>4. QED
    BY <2>2, <2>3
<1>7. SubjectHolds'
  <2>1. SUFFICES ASSUME NEW u \in Worker
                 PROVE  /\ tx'[u].phase = "working" /\ tx'[u].at > 1 => Knows(u, Subject(u))'
                        /\ tx'[u].phase = "working" /\ tx'[u].step = "link"
                             => tx'[u].at > 1 /\ Knows(u, Current(u))'
                        /\ tx'[u].stale \cap Person \subseteq Junk
    BY DEF SubjectHolds
  <2>2. CASE u = w
    <3>1. tx'[u] = v /\ Subject(u)' = Subject(w) /\ Current(u)' = Batch[w][v.at]
      BY <1>1, <2>2 DEF Subject, Current
    <3>2. Seen(u)' = Seen(w)'
      BY <2>2
    <3>3. tx[w].stale \cap Person \subseteq Junk
      BY DEF IInv, SubjectHolds
    <3>4. QED
      BY <3>1, <3>2, <3>3 DEF Knows
  <2>3. CASE u # w
    <3>1. tx'[u] = tx[u] /\ Subject(u)' = Subject(u) /\ Current(u)' = Current(u)
      BY <1>1, <2>3 DEF Subject, Current
    <3>2. QED
      BY <1>3, <2>3, <3>1 DEF IInv, SubjectHolds, Knows
  <2>4. QED
    BY <2>2, <2>3
<1>8. PruneHolds'
  <2>1. prune.list \cup prune.todo \cup prune.deleted \subseteq Person
    BY DEF IInv, Typed, PruneState
  <2>2. QED
    BY <1>2, <2>1 DEF IInv, PruneHolds, Touching
<1>9. QED
  BY <1>4, <1>5, <1>6, <1>7, <1>8 DEF IInv

\* What holds before a step of a worker at work.
LEMMA Before ==
  ASSUME IInv, NEW w \in Worker
  PROVE  /\ tx[w] \in Tx /\ tx \in [Worker -> Tx]
         /\ row \in [Person -> {"absent", "stored"} \cup Worker]
         /\ \A p \in Ends(tx[w].linked) : row[p] \in {"stored", w} /\ p \notin prune.deleted
         /\ tx[w].phase = "working" /\ tx[w].at > 1 => Knows(w, Subject(w))
         /\ tx[w].phase = "working" /\ tx[w].step = "link"
              => tx[w].at > 1 /\ Knows(w, Current(w))
         /\ tx[w].step # "look" => tx[w].at <= Len(Batch[w])
         /\ Subject(w) \in Person
         /\ tx[w].at <= Len(Batch[w]) => Current(w) \in Person
<1>1. Held(w) = Ends(tx[w].linked)
  BY DEF Held, Ends
<1>2. tx[w] \in Tx /\ tx[w].at \in Nat \ {0}
  BY DEF IInv, Typed, Tx
<1>3. \A k \in 1..Len(Batch[w]) : Batch[w][k] \in Person
  BY Names
<1>4. Subject(w) \in Person
  BY <1>3, Names DEF Subject
<1>5. tx[w].at <= Len(Batch[w]) => Current(w) \in Person
  BY <1>2, <1>3, Names DEF Current
<1>6. QED
  BY <1>1, <1>2, <1>4, <1>5 DEF IInv, Typed, LinksHold, SubjectHolds, Seen

\* The same transaction, but for its changes, its locks and its counters.
Alike(v, u) ==
  /\ v.phase = u.phase /\ v.at = u.at /\ v.step = u.step
  /\ v.linked = u.linked /\ v.stale = u.stale

\* w moves on within its node: it keeps its rows and edges, or adds some, and
\* sees the people it uses next.
LEMMA WorkerGoesOn ==
  ASSUME IInv, NEW w \in Worker, tx[w].phase = "working",
         NEW v \in Tx, tx' = [tx EXCEPT ![w] = v],
         NEW new \in SUBSET (Person \X Person), v.linked = tx[w].linked \cup new,
         v.stale = tx[w].stale, UNCHANGED <<edges, prune>>,
         row' \in [Person -> {"absent", "stored"} \cup Worker],
         \A p \in Person : row'[p] = row[p] \/ (row[p] = "absent" /\ row'[p] = w),
         v.step # "look" => v.at <= Len(Batch[w]),
         \A p \in Ends(new) : row'[p] \in {"stored", w} /\ p \notin prune.deleted,
         v.at > 1 => tx[w].at > 1 \/ row'[Subject(w)] \in {"stored", w},
         v.step = "link" => /\ v.at = tx[w].at /\ v.at > 1
                            /\ tx[w].step = "link" \/ row'[Current(w)] \in {"stored", w}
  PROVE  IInv'
<1>1. RowsOf(w)
  BY DEF RowsOf
<1>2. Ends(v.linked) \subseteq Person
  BY DEF Ends, Tx
<1>3. \A p \in Ends(v.linked) : p \in Ends(tx[w].linked) \/ p \in Ends(new)
  BY DEF Ends
<1>4. \A p \in Person : row[p] \in {"stored", w} => row'[p] \in {"stored", w}
  BY Names
<1>5. \A p \in Ends(v.linked) : row'[p] \in {"stored", w} /\ p \notin prune.deleted
  BY <1>2, <1>3, <1>4, Before
<1>6. \A p \in Person : Knows(w, p) => p \in Seen(w)' \cup v.stale
  BY <1>4 DEF Knows, Seen
<1>7. v.at > 1 => Subject(w) \in Seen(w)' \cup v.stale
  BY <1>6, Before DEF Seen
<1>8. v.step = "link" => v.at > 1 /\ Batch[w][v.at] \in Seen(w)' \cup v.stale
  <2>1. ASSUME v.step = "link" PROVE Current(w) \in Seen(w)' \cup v.stale
    <3>1. Current(w) \in Person
      BY <2>1, Before
    <3>2. QED
      BY <1>6, <2>1, <3>1, Before DEF Seen
  <2>2. Current(w) = Batch[w][tx[w].at]
    BY DEF Current
  <2>3. QED
    BY <2>1, <2>2
<1>9. QED
  BY <1>1, <1>5, <1>7, <1>8, WorkerMoves

\* The rows stay as they are, and w sees what it saw.
LEMMA WorkerStays ==
  ASSUME IInv, NEW w \in Worker, tx[w].phase = "working",
         NEW v \in Tx, tx' = [tx EXCEPT ![w] = v], Alike(v, tx[w]),
         UNCHANGED <<row, edges, prune>>
  PROVE  IInv'
<1>1. v.linked = tx[w].linked \cup {}
  BY DEF Alike
<1>2. \A p \in Ends({}) : row'[p] \in {"stored", w} /\ p \notin prune.deleted
  BY DEF Ends
<1>3. v.at = tx[w].at /\ v.step = tx[w].step /\ v.stale = tx[w].stale
  BY DEF Alike
<1>4. v.step # "look" => v.at <= Len(Batch[w])
  BY <1>3, Before
<1>5. v.step = "link" => v.at > 1
  BY <1>3, Before
<1>6. /\ row' \in [Person -> {"absent", "stored"} \cup Worker]
      /\ \A p \in Person : row'[p] = row[p] \/ (row[p] = "absent" /\ row'[p] = w)
  BY Before
<1>7. QED
  BY <1>1, <1>2, <1>3, <1>4, <1>5, <1>6, WorkerGoesOn

LEMMA UndoesRows ==
  ASSUME IInv, NEW w \in Worker, Undo(w)
  PROVE  RowsOf(w)
<1>1. row \in [Person -> {"absent", "stored"} \cup Worker]
  BY DEF IInv, Typed
<1>2. row' = [p \in Person |-> IF row[p] = w THEN "absent" ELSE row[p]]
  BY DEF Undo
<1>3. QED
  BY <1>1, <1>2 DEF RowsOf

\* w gives its node up, or begins again: nothing of it remains.
Emptied(v) == v.linked = {} /\ v.step = "look" /\ (v.phase # "working" \/ v.at = 1)

LEMMA WorkerLetsGo ==
  ASSUME IInv, NEW w \in Worker, NEW v \in Tx, tx' = [tx EXCEPT ![w] = v],
         Emptied(v), v.stale \subseteq tx[w].stale,
         UNCHANGED <<edges, prune>>, RowsOf(w)
  PROVE  IInv'
<1>1. Ends(v.linked) = {}
  BY DEF Ends, Emptied
<1>2. \A p \in Ends(v.linked) : row'[p] \in {"stored", w} /\ p \notin prune.deleted
  BY <1>1
<1>3. /\ v.phase = "working" /\ v.at > 1 => Subject(w) \in Seen(w)' \cup v.stale
      /\ v.step = "look"
  BY DEF Tx, Emptied
<1>4. v.step # "link" /\ (v.step # "look" => v.at <= Len(Batch[w]))
  BY <1>3
<1>5. QED
  BY <1>2, <1>3, <1>4, WorkerMoves

\* Advance takes the next statement, NextPerson the next person.
LEMMA Advanced ==
  ASSUME IInv, NEW w \in Worker, NEW step \in Step
  PROVE  \E v \in Tx : /\ Advance(w, step) = [tx EXCEPT ![w] = v]
                       /\ v.linked = tx[w].linked /\ v.phase = tx[w].phase
                       /\ v.step = step /\ v.at = tx[w].at /\ v.stale = tx[w].stale
<1> DEFINE r == tx[w]
           v == [r EXCEPT !.step = step, !.tries = 0]
<1>1. r \in Tx
  BY Before
<1>2. Advance(w, step) = [tx EXCEPT ![w] = v]
  BY DEF Advance
<1>3. /\ v \in Tx /\ v.linked = r.linked /\ v.phase = r.phase /\ v.step = step
      /\ v.at = r.at /\ v.stale = r.stale
  <2> HIDE DEF r
  <2>1. QED
    BY <1>1 DEF Tx
<1> HIDE DEF v
<1>4. QED
  BY <1>2, <1>3

LEMMA Moved ==
  ASSUME IInv, NEW w \in Worker
  PROVE  \E v \in Tx : /\ NextPerson(w) = [tx EXCEPT ![w] = v]
                       /\ v.linked = tx[w].linked /\ v.phase = tx[w].phase
                       /\ v.step = "look" /\ v.stale = tx[w].stale
<1> DEFINE r == tx[w]
           next == r.at + 1
           v == [r EXCEPT !.at = next, !.step = "look", !.tries = 0]
<1>1. r \in Tx /\ next \in Nat \ {0}
  BY Before DEF Tx
<1>2. NextPerson(w) = [tx EXCEPT ![w] = v]
  BY DEF NextPerson
<1>3. /\ v \in Tx /\ v.linked = r.linked /\ v.phase = r.phase /\ v.step = "look"
      /\ v.stale = r.stale
  <2> HIDE DEF r, next
  <2>1. QED
    BY <1>1 DEF Tx, Step
<1> HIDE DEF v
<1>4. QED
  BY <1>2, <1>3

\* AfterResolve goes on to the next person or to the edge.
LEMMA Resolved ==
  ASSUME IInv, NEW w \in Worker
  PROVE  \E v \in Tx :
           /\ AfterResolve(w) = [tx EXCEPT ![w] = v]
           /\ v.linked = tx[w].linked /\ v.phase = tx[w].phase /\ v.stale = tx[w].stale
           /\ v.step \in {"look", "link"}
           /\ v.step = "link" => v.at = tx[w].at
           /\ tx[w].at > 1 \/ (Subject(w) = Current(w) /\ v.step = "look")
<1>1. CASE tx[w].at = 1
  <2>1. AfterResolve(w) = NextPerson(w) /\ Subject(w) = Current(w)
    BY <1>1 DEF AfterResolve, Subject, Current
  <2>2. QED
    BY <2>1, Moved
<1>2. CASE tx[w].at # 1
  <2>1. AfterResolve(w) = Advance(w, "link")
    BY <1>2 DEF AfterResolve
  <2>2. tx[w].at > 1
    BY <1>2, Before DEF Tx
  <2>3. \E v \in Tx : /\ Advance(w, "link") = [tx EXCEPT ![w] = v]
                      /\ v.linked = tx[w].linked /\ v.phase = tx[w].phase
                      /\ v.step = "link" /\ v.at = tx[w].at /\ v.stale = tx[w].stale
    BY Advanced DEF Step
  <2>4. QED
    BY <2>1, <2>2, <2>3
<1>3. QED
  BY <1>1, <1>2

\* A change to some rows is kept in the session.
LEMMA Changed ==
  ASSUME IInv, NEW w \in Worker, NEW u \in Tx, NEW next, next = [tx EXCEPT ![w] = u],
         NEW rows \in SUBSET Rows, Change(next, w, rows)
  PROVE  \E v \in Tx : tx' = [tx EXCEPT ![w] = v] /\ Alike(v, u)
<1>1. tx \in [Worker -> Tx]
  BY Before
<1>2. PICK S \in SUBSET rows : tx' = [next EXCEPT ![w].dirty = @ \cup S]
  BY DEF Change
<1> DEFINE dirty == u.dirty \cup S
           v == [u EXCEPT !.dirty = dirty]
<1>3. dirty \in SUBSET Rows
  BY DEF Tx
<1>4. v \in Tx /\ Alike(v, u)
  <2> HIDE DEF dirty
  <2>1. QED
    BY <1>3 DEF Tx, Alike
<1>5. tx' = [tx EXCEPT ![w] = v]
  BY <1>1, <1>2
<1> HIDE DEF v
<1>6. QED
  BY <1>4, <1>5

\* Ended keeps nothing.
LEMMA EndsEmpty ==
  ASSUME IInv, NEW w \in Worker, NEW how \in {"skipped", "stored", "marking", "marked"}
  PROVE  \E v \in Tx : /\ Ended(w, how) = [tx EXCEPT ![w] = v]
                       /\ Emptied(v) /\ v.stale = tx[w].stale /\ v.phase = how
<1> DEFINE r == tx[w]
           v == [r EXCEPT !.phase = how, !.step = "look", !.linked = {},
                          !.dirty = {}, !.locked = {}]
<1>1. r \in Tx
  BY Before
<1>2. Ended(w, how) = [tx EXCEPT ![w] = v]
  BY DEF Ended
<1>3. v \in Tx /\ Emptied(v) /\ v.stale = r.stale /\ v.phase = how
  <2> HIDE DEF r
  <2>1. QED
    BY <1>1 DEF Tx, Emptied, Step
<1> HIDE DEF v
<1>4. QED
  BY <1>2, <1>3

LEMMA EndedPreserves ==
  ASSUME IInv, NEW w \in Worker, NEW how \in {"skipped", "stored", "marking", "marked"},
         tx' = Ended(w, how), RowsOf(w), UNCHANGED <<edges, prune>>
  PROVE  IInv'
<1>1. PICK v \in Tx : /\ Ended(w, how) = [tx EXCEPT ![w] = v]
                      /\ Emptied(v) /\ v.stale = tx[w].stale
  BY EndsEmpty
<1>2. QED
  BY <1>1, WorkerLetsGo

LEMMA GiveUpPreserves ==
  ASSUME IInv, NEW w \in Worker, tx' = GiveUp(w), Undo(w), UNCHANGED <<edges, prune>>
  PROVE  IInv'
BY UndoesRows, EndedPreserves DEF GiveUp

LEMMA MarkOnlyPreserves ==
  ASSUME IInv, NEW w \in Worker, tx' = MarkOnly(w), Undo(w), UNCHANGED <<edges, prune>>
  PROVE  IInv'
BY UndoesRows, EndedPreserves DEF MarkOnly

LEMMA RedoPreserves ==
  ASSUME IInv, NEW w \in Worker, tx' = Redo(w), RowsOf(w), UNCHANGED <<edges, prune>>
  PROVE  IInv'
<1>1. CASE tx[w].attempt < NodeRetries
  <2> DEFINE next == tx[w].attempt + 1
             v == Fresh(next)
  <2>1. tx' = [tx EXCEPT ![w] = v]
    BY <1>1 DEF Redo
  <2>2. v \in Tx /\ Emptied(v) /\ v.stale = {}
    <3>1. next \in Nat
      BY Before DEF Tx
    <3> HIDE DEF next
    <3>2. QED
      BY <3>1 DEF Fresh, Tx, Step, Emptied
  <2> HIDE DEF v
  <2>3. QED
    BY <2>1, <2>2, WorkerLetsGo
<1>2. CASE ~(tx[w].attempt < NodeRetries)
  BY <1>2, EndedPreserves DEF Redo, GiveUp
<1>3. QED
  BY <1>1, <1>2

\* w has the row of its current person before it, and goes on with it.
LEMMA ResolvePreserves ==
  ASSUME IInv, NEW w \in Worker, tx[w].phase = "working", tx[w].at <= Len(Batch[w]),
         UNCHANGED <<edges, prune>>,
         row' \in [Person -> {"absent", "stored"} \cup Worker],
         \A p \in Person : row'[p] = row[p] \/ (row[p] = "absent" /\ row'[p] = w),
         row'[Current(w)] \in {"stored", w},
         tx' = AfterResolve(w) \/ Change(AfterResolve(w), w, {Current(w)})
  PROVE  IInv'
<1>1. PICK u \in Tx :
        /\ AfterResolve(w) = [tx EXCEPT ![w] = u]
        /\ u.linked = tx[w].linked /\ u.phase = tx[w].phase /\ u.stale = tx[w].stale
        /\ u.step \in {"look", "link"}
        /\ u.step = "link" => u.at = tx[w].at
        /\ tx[w].at > 1 \/ (Subject(w) = Current(w) /\ u.step = "look")
  BY Resolved
<1>2. \E v \in Tx : tx' = [tx EXCEPT ![w] = v] /\ Alike(v, u)
  <2>1. {Current(w)} \in SUBSET Rows
    BY Before DEF Rows
  <2>2. CASE tx' = AfterResolve(w)
    BY <1>1, <2>2 DEF Alike
  <2>3. CASE Change(AfterResolve(w), w, {Current(w)})
    BY <1>1, <2>1, <2>3, Changed
  <2>4. QED
    BY <2>2, <2>3
<1>3. PICK v \in Tx : tx' = [tx EXCEPT ![w] = v] /\ Alike(v, u)
  BY <1>2
<1>4. /\ v.linked = tx[w].linked \cup {} /\ v.stale = tx[w].stale
      /\ v.step \in {"look", "link"} /\ (v.step = "link" => v.at = tx[w].at)
      /\ tx[w].at > 1 \/ (Subject(w) = Current(w) /\ v.step = "look")
  BY <1>1, <1>3 DEF Alike
<1>5. \A p \in Ends({}) : row'[p] \in {"stored", w} /\ p \notin prune.deleted
  BY DEF Ends
<1>6. v.step # "look" => v.at <= Len(Batch[w])
  BY <1>4
<1>7. v.at > 1 => tx[w].at > 1 \/ row'[Subject(w)] \in {"stored", w}
  BY <1>4
<1>8. v.step = "link" => /\ v.at = tx[w].at /\ v.at > 1
                         /\ tx[w].step = "link" \/ row'[Current(w)] \in {"stored", w}
  BY <1>4
<1>9. QED
  BY <1>3, <1>4, <1>5, <1>6, <1>7, <1>8, WorkerGoesOn

\* w takes another statement about the same person, or the next person.
LEMMA StatementPreserves ==
  ASSUME IInv, NEW w \in Worker, tx[w].phase = "working",
         UNCHANGED <<row, edges, prune>>,
         \/ tx[w].at <= Len(Batch[w]) /\ tx' = Advance(w, "insert")
         \/ tx[w].at <= Len(Batch[w]) /\ tx' = Advance(w, "reselect")
         \/ tx[w].at > 1 /\ tx' = NextPerson(w)
         \/ tx[w].at > 1 /\ \E S \in SUBSET Rows : Change(NextPerson(w), w, S)
  PROVE  IInv'
<1>1. \E v \in Tx :
        /\ tx' = [tx EXCEPT ![w] = v]
        /\ v.linked = tx[w].linked /\ v.stale = tx[w].stale
        /\ v.step # "link" /\ (v.step # "look" => v.at <= Len(Batch[w]))
        /\ v.at > 1 => tx[w].at > 1
  <2>1. CASE tx[w].at <= Len(Batch[w])
             /\ (tx' = Advance(w, "insert") \/ tx' = Advance(w, "reselect"))
    <3>1. PICK step \in {"insert", "reselect"} : tx' = Advance(w, step)
      BY <2>1
    <3>2. PICK v \in Tx : /\ Advance(w, step) = [tx EXCEPT ![w] = v]
                          /\ v.linked = tx[w].linked /\ v.phase = tx[w].phase
                          /\ v.step = step /\ v.at = tx[w].at /\ v.stale = tx[w].stale
      BY Advanced DEF Step
    <3>3. QED
      BY <2>1, <3>1, <3>2
  <2>2. PICK u \in Tx : /\ NextPerson(w) = [tx EXCEPT ![w] = u]
                        /\ u.linked = tx[w].linked /\ u.phase = tx[w].phase
                        /\ u.step = "look" /\ u.stale = tx[w].stale
    BY Moved
  <2>3. CASE tx[w].at > 1 /\ tx' = NextPerson(w)
    BY <2>2, <2>3
  <2>4. CASE tx[w].at > 1 /\ \E S \in SUBSET Rows : Change(NextPerson(w), w, S)
    <3>1. PICK v \in Tx : tx' = [tx EXCEPT ![w] = v] /\ Alike(v, u)
      BY <2>2, <2>4, Changed
    <3>2. QED
      BY <2>2, <2>4, <3>1 DEF Alike
  <2>5. QED
    BY <2>1, <2>3, <2>4
<1>2. PICK v \in Tx :
        /\ tx' = [tx EXCEPT ![w] = v]
        /\ v.linked = tx[w].linked /\ v.stale = tx[w].stale
        /\ v.step # "link" /\ (v.step # "look" => v.at <= Len(Batch[w]))
        /\ v.at > 1 => tx[w].at > 1
  BY <1>1
<1>3. v.linked = tx[w].linked \cup {}
  BY <1>2
<1>4. \A p \in Ends({}) : row'[p] \in {"stored", w} /\ p \notin prune.deleted
  BY DEF Ends
<1>5. /\ row' \in [Person -> {"absent", "stored"} \cup Worker]
      /\ \A p \in Person : row'[p] = row[p] \/ (row[p] = "absent" /\ row'[p] = w)
  BY Before
<1>6. QED
  BY <1>2, <1>3, <1>4, <1>5, WorkerGoesOn

LEMMA LookPreserves ==
  ASSUME IInv, NEW w \in Worker, Look(w)
  PROVE  IInv'
<1>1. /\ tx[w].phase = "working" /\ tx[w].at <= Len(Batch[w])
      /\ UNCHANGED <<row, edges, prune>>
  <2>1. Len(Batch[w]) \in Nat /\ tx[w].at \in Nat
    BY Names, Before DEF Tx
  <2>2. QED
    BY <2>1 DEF Look, Working, AtEnd
<1>2. CASE row[Current(w)] \in {"stored", w} /\ Change(AfterResolve(w), w, {Current(w)})
  <2>1. /\ row' \in [Person -> {"absent", "stored"} \cup Worker]
        /\ \A p \in Person : row'[p] = row[p] \/ (row[p] = "absent" /\ row'[p] = w)
    BY <1>1, Before
  <2>2. row'[Current(w)] \in {"stored", w}
    BY <1>1, <1>2
  <2>3. QED
    BY <1>1, <1>2, <2>1, <2>2, ResolvePreserves
<1>3. CASE tx' = Advance(w, "insert")
  BY <1>1, <1>3, StatementPreserves
<1>4. CASE tx[w].at > 1 /\ tx' = NextPerson(w)
  BY <1>1, <1>4, StatementPreserves
<1>5. QED
  BY <1>2, <1>3, <1>4 DEF Look

LEMMA FlushPreserves ==
  ASSUME IInv, NEW w \in Worker, Flush(w)
  PROVE  IInv'
<1>1. tx[w].phase = "working" /\ UNCHANGED <<edges, prune>>
  BY DEF Flush, Flushing, Working
<1>2. CASE tx[w].dirty \cap tx[w].stale = {}
  <2> DEFINE r == tx[w]
             locked == r.locked \cup r.dirty
             v == [r EXCEPT !.locked = locked, !.dirty = {}]
  <2>1. tx' = [tx EXCEPT ![w] = v] /\ UNCHANGED row
    BY <1>2, Before DEF Flush
  <2>2. r \in Tx /\ locked \in SUBSET Rows
    BY Before DEF Tx
  <2>3. v \in Tx /\ Alike(v, r)
    <3> HIDE DEF r, locked
    <3>1. QED
      BY <2>2 DEF Tx, Alike
  <2> HIDE DEF v
  <2>4. QED
    BY <1>1, <2>1, <2>3, WorkerStays
<1>3. CASE tx[w].dirty \cap tx[w].stale # {}
  BY <1>1, <1>3, GiveUpPreserves DEF Flush
<1>4. QED
  BY <1>2, <1>3

LEMMA InsertPreserves ==
  ASSUME IInv, NEW w \in Worker, Insert(w)
  PROVE  IInv'
<1>1. /\ tx[w].phase = "working" /\ tx[w].at <= Len(Batch[w])
      /\ UNCHANGED <<edges, prune>>
  BY DEF Insert, Working, IInv, Typed
<1>2. Current(w) \in Person /\ row[Current(w)] = "absent"
  BY <1>1, Before DEF Insert
<1>3. /\ row' \in [Person -> {"absent", "stored"} \cup Worker]
      /\ \A p \in Person : row'[p] = row[p] \/ (row[p] = "absent" /\ row'[p] = w)
      /\ row'[Current(w)] = w
  BY <1>2, Before DEF Insert
<1>4. tx' = AfterResolve(w)
  BY DEF Insert
<1>5. QED
  BY <1>1, <1>3, <1>4, ResolvePreserves

LEMMA LoseRacePreserves ==
  ASSUME IInv, NEW w \in Worker, LoseRace(w)
  PROVE  IInv'
<1>1. /\ tx[w].phase = "working" /\ tx[w].at <= Len(Batch[w])
      /\ UNCHANGED <<row, edges, prune>> /\ tx' = Advance(w, "reselect")
  BY DEF LoseRace, Working, IInv, Typed
<1>2. QED
  BY <1>1, StatementPreserves

LEMMA ReselectPreserves ==
  ASSUME IInv, NEW w \in Worker, Reselect(w)
  PROVE  IInv'
<1>1. /\ tx[w].phase = "working" /\ tx[w].at <= Len(Batch[w])
      /\ UNCHANGED <<edges, prune>>
  BY DEF Reselect, Working, IInv, Typed
<1>2. CASE row[Current(w)] = "stored"
  <2>1. Change(AfterResolve(w), w, {Current(w)}) /\ UNCHANGED row
    BY <1>2 DEF Reselect
  <2>2. /\ row' \in [Person -> {"absent", "stored"} \cup Worker]
        /\ \A p \in Person : row'[p] = row[p] \/ (row[p] = "absent" /\ row'[p] = w)
    BY <2>1, Before
  <2>3. row'[Current(w)] \in {"stored", w}
    BY <1>2, <2>1
  <2>4. QED
    BY <1>1, <2>1, <2>2, <2>3, ResolvePreserves
<1>3. CASE row[Current(w)] # "stored"
  BY <1>1, <1>3, GiveUpPreserves DEF Reselect
<1>4. QED
  BY <1>2, <1>3

LEMMA LinkPreserves ==
  ASSUME IInv, NEW w \in Worker, Link(w)
  PROVE  IInv'
<1>1. /\ tx[w].phase = "working" /\ tx[w].step = "link" /\ tx[w].at <= Len(Batch[w])
      /\ UNCHANGED <<edges, prune>> /\ tx[w].at > 1
  BY Before DEF Link, Working, IInv, Typed
<1>2. Knows(w, Subject(w)) /\ Knows(w, Current(w))
  BY <1>1, Before
<1>3. Subject(w) \in Person /\ Current(w) \in Person
  BY <1>1, Before
<1>4. CASE Change(NextPerson(w), w, {Edge(w)} \cap edges) /\ UNCHANGED row
  <2>1. {Edge(w)} \cap edges \in SUBSET Rows
    BY DEF IInv, Typed, Rows
  <2>2. QED
    BY <1>1, <1>4, <2>1, StatementPreserves
<1>5. CASE /\ ~IsLinked(w) /\ tx[w].dirty = {} /\ Free(w)
           /\ {Subject(w), Current(w)} \cap tx[w].stale = {}
           /\ tx' = [NextPerson(w) EXCEPT ![w].linked = @ \cup {Edge(w)}] /\ UNCHANGED row
  <2>1. PICK u \in Tx : /\ NextPerson(w) = [tx EXCEPT ![w] = u]
                        /\ u.linked = tx[w].linked /\ u.phase = tx[w].phase
                        /\ u.step = "look" /\ u.stale = tx[w].stale
    BY Moved
  <2> DEFINE linked == u.linked \cup {Edge(w)}
             v == [u EXCEPT !.linked = linked]
  <2>2. {Edge(w)} \in SUBSET (Person \X Person)
    BY <1>3 DEF Edge
  <2>3. linked \in SUBSET (Person \X Person)
    BY <2>2 DEF Tx
  <2>4. tx' = [tx EXCEPT ![w] = v]
    BY <1>5, <2>1, Before
  <2>5. /\ v \in Tx /\ v.linked = linked /\ v.phase = u.phase /\ v.step = u.step
        /\ v.stale = u.stale
    <3> HIDE DEF linked
    <3>1. QED
      BY <2>3 DEF Tx
  <2>6. linked = tx[w].linked \cup {Edge(w)}
    BY <2>1
  <2> HIDE DEF v, linked
  <2>7. {Subject(w), Current(w)} \cap prune.deleted = {}
    <3>1. w # Pruner /\ ~Working(w, "insert") /\ Working(w, "link") /\ ~Flushing(w)
      BY <1>1, <1>5, Names DEF Working, Flushing
    <3>2. QED
      BY <1>5, <3>1 DEF Free, Blockers
  <2>8. row'[Subject(w)] \in {"stored", w} /\ row'[Current(w)] \in {"stored", w}
    BY <1>2, <1>5 DEF Knows, Seen
  <2>9. \A p \in Ends({Edge(w)}) : row'[p] \in {"stored", w} /\ p \notin prune.deleted
    <3>1. \A p \in Ends({Edge(w)}) : p \in {Subject(w), Current(w)}
      BY DEF Ends, Edge
    <3>2. QED
      BY <2>7, <2>8, <3>1
  <2>10. /\ row' \in [Person -> {"absent", "stored"} \cup Worker]
         /\ \A p \in Person : row'[p] = row[p] \/ (row[p] = "absent" /\ row'[p] = w)
    BY <1>5, Before
  <2>11. v.step = "look" /\ v.stale = tx[w].stale
    BY <2>1, <2>5
  <2> DEFINE new == {Edge(w)}
  <2>12. v.linked = tx[w].linked \cup new
    BY <2>5, <2>6
  <2>13. v.step # "link" /\ (v.step # "look" => v.at <= Len(Batch[w]))
    BY <2>11
  <2>14. \A p \in Ends(new) : row'[p] \in {"stored", w} /\ p \notin prune.deleted
    BY <2>9
  <2>15. new \in SUBSET (Person \X Person) /\ v \in Tx
    BY <2>2, <2>5
  <2> HIDE DEF new
  <2>16. QED
    BY <1>1, <2>4, <2>10, <2>11, <2>12, <2>13, <2>14, <2>15, WorkerGoesOn
<1>6. CASE tx' = GiveUp(w) /\ Undo(w)
  BY <1>1, <1>6, GiveUpPreserves
<1>7. QED
  BY <1>4, <1>5, <1>6 DEF Link

LEMMA CommitPreserves ==
  ASSUME IInv, NEW w \in Worker, Commit(w)
  PROVE  IInv'
<1> DEFINE r == tx[w]
<1>1. PICK v \in Tx : /\ Ended(w, "stored") = [tx EXCEPT ![w] = v]
                      /\ Emptied(v) /\ v.stale = r.stale /\ v.phase = "stored"
  BY EndsEmpty
<1>2. tx' = [tx EXCEPT ![w] = v] /\ v.linked = {} /\ v.step = "look"
  BY <1>1 DEF Commit, Emptied
<1>3. \A u \in Worker : tx'[u] = IF u = w THEN v ELSE tx[u]
  BY <1>2 DEF IInv, Typed
<1>4. /\ row' \in [Person -> {"absent", "stored"} \cup Worker]
      /\ \A p \in Person : row'[p] = IF row[p] = w THEN "stored" ELSE row[p]
  BY Before DEF Commit
<1>5. edges' = edges \cup r.linked /\ UNCHANGED prune
  BY DEF Commit
<1>6. \A e \in r.linked :
        /\ e \in Person \X Person
        /\ row[e[1]] \in {"stored", w} /\ e[1] \notin prune.deleted
        /\ row[e[2]] \in {"stored", w} /\ e[2] \notin prune.deleted
  <2>1. SUFFICES ASSUME NEW e \in r.linked
                 PROVE  /\ e \in Person \X Person
                        /\ row[e[1]] \in {"stored", w} /\ e[1] \notin prune.deleted
                        /\ row[e[2]] \in {"stored", w} /\ e[2] \notin prune.deleted
    OBVIOUS
  <2>2. e[1] \in Ends(r.linked) /\ e[2] \in Ends(r.linked)
    BY DEF Ends
  <2>3. QED
    BY <2>2, Before DEF Tx
<1>7. Typed'
  BY <1>1, <1>2, <1>3, <1>4, <1>5, <1>6 DEF IInv, Typed
<1>8. NoDanglingEdge'
  <2>1. SUFFICES ASSUME NEW e \in edges'
                 PROVE  row'[e[1]] = "stored" /\ row'[e[2]] = "stored"
    BY DEF NoDanglingEdge
  <2>2. CASE e \in edges
    <3>1. e[1] \in Person /\ e[2] \in Person
      BY <2>2 DEF IInv, Typed
    <3>2. row[e[1]] = "stored" /\ row[e[2]] = "stored"
      BY <2>2 DEF IInv, NoDanglingEdge
    <3>3. QED
      BY <1>4, <3>1, <3>2
  <2>3. CASE e \in r.linked
    BY <1>4, <1>6, <2>3
  <2>4. QED
    BY <1>5, <2>2, <2>3
<1>9. \A u \in Worker \ {w} : Seen(u) \subseteq Seen(u)'
  BY <1>4 DEF Seen
<1>10. LinksHold'
  <2>1. SUFFICES ASSUME NEW u \in Worker
                 PROVE  Held(u)' \subseteq Seen(u)' /\ Held(u)' \cap prune.deleted = {}
    BY <1>5 DEF LinksHold, Held, Seen
  <2>2. CASE u = w
    BY <1>2, <1>3, <2>2 DEF Held
  <2>3. CASE u # w
    <3>1. Held(u)' = Held(u)
      BY <1>3, <2>3 DEF Held
    <3>2. Held(u) \subseteq Seen(u) /\ Held(u) \cap prune.deleted = {}
      BY DEF IInv, LinksHold
    <3>3. QED
      BY <1>9, <2>3, <3>1, <3>2
  <2>4. QED
    BY <2>2, <2>3
<1>11. SubjectHolds'
  <2>1. SUFFICES ASSUME NEW u \in Worker
                 PROVE  /\ tx'[u].phase = "working" /\ tx'[u].at > 1 => Knows(u, Subject(u))'
                        /\ tx'[u].phase = "working" /\ tx'[u].step = "link"
                             => tx'[u].at > 1 /\ Knows(u, Current(u))'
                        /\ tx'[u].stale \cap Person \subseteq Junk
    BY DEF SubjectHolds
  <2>2. CASE u = w
    <3>1. tx'[u].phase # "working" /\ tx'[u].stale = tx[w].stale
      BY <1>1, <1>3, <2>2
    <3>2. QED
      BY <2>2, <3>1 DEF IInv, SubjectHolds
  <2>3. CASE u # w
    <3>1. tx'[u] = tx[u] /\ Subject(u)' = Subject(u) /\ Current(u)' = Current(u)
      BY <1>3, <2>3 DEF Subject, Current
    <3>2. QED
      BY <1>9, <2>3, <3>1 DEF IInv, SubjectHolds, Knows
  <2>4. QED
    BY <2>2, <2>3
<1>12. PruneHolds'
  <2>1. prune.list \cup prune.todo \cup prune.deleted \subseteq Person
    BY DEF IInv, Typed, PruneState
  <2>2. \A p \in Person : row[p] = "stored" => row'[p] = "stored"
    BY <1>4
  <2>3. \A p \in prune.deleted : Touching(p, edges') \subseteq prune.cut
    <3>1. \A p \in prune.deleted : Touching(p, edges') \subseteq Touching(p, edges)
      BY <1>5, <1>6 DEF Touching
    <3>2. QED
      BY <3>1 DEF IInv, PruneHolds
  <2>4. QED
    BY <1>5, <2>1, <2>2, <2>3 DEF IInv, PruneHolds, Touching
<1>13. QED
  BY <1>7, <1>8, <1>10, <1>11, <1>12 DEF IInv

LEMMA RaisePreserves ==
  ASSUME IInv, NEW w \in Worker, Raise(w)
  PROVE  IInv'
BY GiveUpPreserves DEF Raise

LEMMA CommitStalePreserves ==
  ASSUME IInv, NEW w \in Worker, CommitStale(w)
  PROVE  IInv'
BY MarkOnlyPreserves DEF CommitStale

LEMMA CommitMarkPreserves ==
  ASSUME IInv, NEW w \in Worker, CommitMark(w)
  PROVE  IInv'
<1>1. UNCHANGED <<row, edges, prune>>
  BY DEF CommitMark
<1>2. RowsOf(w)
  BY <1>1, Before DEF RowsOf
<1>3. CASE tx' = Redo(w)
  BY <1>1, <1>2, <1>3, RedoPreserves
<1>4. CASE tx' = Ended(w, "marked")
  BY <1>1, <1>2, <1>4, EndedPreserves
<1>5. QED
  BY <1>3, <1>4 DEF CommitMark

LEMMA VictimPreserves ==
  ASSUME IInv, NEW w \in Worker, Victim(w)
  PROVE  IInv'
<1> DEFINE r == tx[w]
<1>1. r \in Tx /\ r.phase = "working" /\ UNCHANGED <<edges, prune>>
  BY Before DEF Victim
<1>2. CASE tx' = [tx EXCEPT ![w].tries = @ + 1] /\ UNCHANGED row
  <2> DEFINE next == r.tries + 1
             v == [r EXCEPT !.tries = next]
  <2>1. v \in Tx /\ Alike(v, r)
    <3>1. next \in Nat
      BY <1>1 DEF Tx
    <3> HIDE DEF r, next
    <3>2. QED
      BY <1>1, <3>1 DEF Tx, Alike
  <2>2. tx' = [tx EXCEPT ![w] = v]
    BY <1>2
  <2> HIDE DEF v
  <2>3. QED
    BY <1>1, <1>2, <2>1, <2>2, WorkerStays
<1>3. CASE tx' = GiveUp(w) /\ Undo(w)
  BY <1>1, <1>3, GiveUpPreserves
<1>4. CASE tx' = MarkOnly(w) /\ Undo(w)
  BY <1>1, <1>4, MarkOnlyPreserves
<1>5. CASE tx' = Redo(w) /\ Undo(w)
  BY <1>1, <1>5, UndoesRows, RedoPreserves
<1>6. QED
  BY <1>2, <1>3, <1>4, <1>5 DEF Victim
-----------------------------------------------------------------------------
(* The prune's steps.                                                      *)

\* A step of the prune that commits nothing.
LEMMA PruneMoves ==
  ASSUME IInv, NEW q \in PruneState, prune' = q, UNCHANGED <<row, edges, tx>>,
         q.list \cup q.todo \cup q.deleted \subseteq Junk,
         q.phase # "working" => q.deleted = {},
         q.phase = "working" =>
           \A p \in q.list \cup q.todo \cup q.deleted : row[p] = "stored",
         q.phase = "working" /\ q.step # "next" => q.target \in q.todo,
         \A p \in q.deleted : Touching(p, edges) \subseteq q.cut,
         \A w \in Worker : Held(w) \cap q.deleted = {}
  PROVE  IInv'
<1>1. Typed' /\ NoDanglingEdge' /\ SubjectHolds'
  BY DEF IInv, Typed, NoDanglingEdge, SubjectHolds, Knows, Seen, Subject, Current
<1>2. LinksHold'
  BY DEF IInv, LinksHold, Held, Seen
<1>3. PruneHolds'
  BY DEF PruneHolds, Touching
<1>4. QED
  BY <1>1, <1>2, <1>3 DEF IInv

LEMMA FreshPruneTyped ==
  ASSUME NEW junk \in SUBSET Person, NEW n \in Nat
  PROVE  /\ FreshPrune(junk, n) \in PruneState
         /\ FreshPrune(junk, n).list = junk /\ FreshPrune(junk, n).todo = junk
         /\ FreshPrune(junk, n).deleted = {} /\ FreshPrune(junk, n).step = "next"
BY DEF FreshPrune, PruneState

LEMMA StartPrunePreserves ==
  ASSUME IInv, StartPrune
  PROVE  IInv'
<1> DEFINE junk == {p \in Junk : row[p] = "stored"}
           q == FreshPrune(junk, 0)
<1>1. prune' = q /\ UNCHANGED <<row, edges, tx>>
  BY DEF StartPrune
<1>2. junk \in SUBSET Person /\ junk \subseteq Junk /\ \A p \in junk : row[p] = "stored"
  BY Names
<1> HIDE DEF junk
<1>3. /\ q \in PruneState /\ q.list = junk /\ q.todo = junk /\ q.deleted = {}
      /\ q.step = "next"
  BY <1>2, FreshPruneTyped
<1> HIDE DEF q
<1>4. q.list \cup q.todo \cup q.deleted = junk
  BY <1>3
<1>5. QED
  BY <1>1, <1>2, <1>3, <1>4, PruneMoves

\* What holds while the prune is at work.
LEMMA PruneBefore ==
  ASSUME IInv
  PROVE  /\ prune \in PruneState
         /\ prune.list \cup prune.todo \cup prune.deleted \subseteq Junk
         /\ prune.phase = "working" =>
              \A p \in prune.list \cup prune.todo \cup prune.deleted : row[p] = "stored"
         /\ \A p \in prune.deleted : Touching(p, edges) \subseteq prune.cut
         /\ \A w \in Worker : Held(w) \cap prune.deleted = {}
BY DEF IInv, Typed, PruneHolds, LinksHold

LEMMA NextTargetPreserves ==
  ASSUME IInv, NextTarget
  PROVE  IInv'
<1>1. PICK p \in prune.todo : prune' = [prune EXCEPT !.step = "edges", !.target = p]
  BY DEF NextTarget
<1> DEFINE q == [prune EXCEPT !.step = "edges", !.target = p]
<1>2. prune' = q /\ prune.phase = "working" /\ UNCHANGED <<row, edges, tx>>
  BY <1>1 DEF NextTarget, Pruning
<1>3. prune \in PruneState /\ p \in Person
  BY PruneBefore DEF PruneState
<1>4. /\ q \in PruneState /\ q.list = prune.list /\ q.todo = prune.todo
      /\ q.deleted = prune.deleted /\ q.phase = prune.phase /\ q.target = p
      /\ q.cut = prune.cut
  BY <1>3 DEF PruneState
<1> HIDE DEF q
<1>5. QED
  BY <1>2, <1>4, PruneBefore, PruneMoves

LEMMA DeleteEdgesPreserves ==
  ASSUME IInv, DeleteEdges
  PROVE  IInv'
<1> DEFINE cut == prune.cut \cup Touching(Target, edges)
           q == [prune EXCEPT !.step = "node", !.cut = cut]
<1>1. /\ prune' = q /\ prune.phase = "working" /\ prune.step = "edges"
      /\ UNCHANGED <<row, edges, tx>>
  BY PruneBefore DEF DeleteEdges, Pruning, PruneState
<1>2. prune.target \in prune.todo
  BY <1>1 DEF IInv, PruneHolds
<1>3. prune \in PruneState /\ cut \in SUBSET (Person \X Person) /\ prune.cut \subseteq cut
  BY PruneBefore DEF PruneState, Touching, IInv, Typed
<1> HIDE DEF cut
<1>4. /\ q \in PruneState /\ q.list = prune.list /\ q.todo = prune.todo
      /\ q.deleted = prune.deleted /\ q.phase = prune.phase /\ q.target = prune.target
      /\ q.cut = cut
  BY <1>3 DEF PruneState
<1> HIDE DEF q
<1>5. \A x \in q.deleted : Touching(x, edges) \subseteq q.cut
  BY <1>3, <1>4, PruneBefore
<1>6. QED
  BY <1>1, <1>2, <1>4, <1>5, PruneBefore, PruneMoves

LEMMA DeletePersonPreserves ==
  ASSUME IInv, DeletePerson
  PROVE  IInv'
<1> DEFINE todo == prune.todo \ {Target}
           deleted == prune.deleted \cup {Target}
           more == prune.tries + 1
<1>1. /\ prune.phase = "working" /\ prune.step = "node"
      /\ UNCHANGED <<row, edges, tx>>
  BY DEF DeletePerson, Pruning
<1>2. Target \in prune.todo
  BY <1>1 DEF Target, IInv, PruneHolds
<1>3. /\ todo \in SUBSET Person /\ deleted \in SUBSET Person /\ more \in Nat
      /\ Remaining \in SUBSET (Person \X Person)
  BY <1>2, PruneBefore DEF PruneState, Remaining
<1>4. todo \subseteq prune.todo /\ \A x \in deleted : x \in prune.todo \cup prune.deleted
  BY <1>2
<1>5. prune \in PruneState
  BY PruneBefore
<1>6. CASE /\ Touching(Target, edges) \subseteq prune.cut
           /\ prune' = Deleted
  <2> DEFINE q == [prune EXCEPT !.step = "next", !.tries = 0, !.todo = todo,
                                !.deleted = deleted]
  <2>1. prune' = q
    BY <1>6 DEF Deleted
  <2>2. \A w \in Worker : Held(w) \cap deleted = {}
    <3>1. \A w \in Worker : Target \notin Held(w)
      BY <1>1, Names DEF DeletePerson, Free, Blockers, Target
    <3>2. QED
      BY <3>1, PruneBefore
  <2>3. \A x \in deleted : Touching(x, edges) \subseteq prune.cut
    BY <1>6, PruneBefore
  <2> HIDE DEF todo, deleted
  <2>4. /\ q \in PruneState /\ q.list = prune.list /\ q.todo = todo /\ q.deleted = deleted
        /\ q.phase = prune.phase /\ q.step = "next" /\ q.cut = prune.cut
    BY <1>3, <1>5 DEF PruneState
  <2> HIDE DEF q
  <2>5. \A x \in q.list \cup q.todo \cup q.deleted :
          x \in prune.list \cup prune.todo \cup prune.deleted
    BY <1>4, <2>4
  <2>6. q.list \cup q.todo \cup q.deleted \subseteq Junk
    BY <2>5, PruneBefore
  <2>7. \A x \in q.list \cup q.todo \cup q.deleted : row[x] = "stored"
    BY <1>1, <2>5, PruneBefore
  <2>8. QED
    BY <1>1, <2>1, <2>2, <2>3, <2>4, <2>6, <2>7, PruneMoves
<1>7. CASE /\ ~(Touching(Target, edges) \subseteq prune.cut)
           /\ prune' = IF prune.tries + 1 < DeleteTries
                       THEN [prune EXCEPT !.step = "edges", !.tries = @ + 1,
                                          !.cut = Remaining]
                       ELSE LeftAlone
  <2> DEFINE again == [prune EXCEPT !.step = "edges", !.tries = more, !.cut = Remaining]
             left == [prune EXCEPT !.step = "next", !.tries = 0, !.todo = todo,
                                   !.cut = Remaining]
             Fits(q) == /\ q \in PruneState
                        /\ q.list = prune.list /\ q.todo \subseteq prune.todo
                        /\ q.deleted = prune.deleted /\ q.phase = prune.phase
                        /\ q.step # "next" => q.target \in q.todo
                        /\ q.cut = Remaining
  <2>1. prune' = again \/ prune' = left
    BY <1>7 DEF LeftAlone
  <2>2. Fits(again) /\ Fits(left)
    <3> HIDE DEF more, todo
    <3>1. QED
      BY <1>2, <1>3, <1>4, <1>5 DEF PruneState, Target
  <2> HIDE DEF again, left
  <2>3. PICK q : prune' = q /\ Fits(q)
    BY <2>1, <2>2
  <2>4. \A x \in prune.deleted : Touching(x, edges) \subseteq Remaining
    BY PruneBefore DEF Touching, Remaining
  <2>5. \A x \in q.list \cup q.todo \cup q.deleted :
          x \in prune.list \cup prune.todo \cup prune.deleted
    BY <2>3
  <2>6. q.list \cup q.todo \cup q.deleted \subseteq Junk
    BY <2>5, PruneBefore
  <2>7. \A x \in q.list \cup q.todo \cup q.deleted : row[x] = "stored"
    BY <1>1, <2>5, PruneBefore
  <2>8. /\ \A x \in q.deleted : Touching(x, edges) \subseteq q.cut
        /\ \A w \in Worker : Held(w) \cap q.deleted = {}
    BY <2>3, <2>4, PruneBefore
  <2>9. QED
    BY <1>1, <2>3, <2>6, <2>7, <2>8, PruneMoves
<1>8. QED
  BY <1>6, <1>7 DEF DeletePerson

\* What was deleted has no committed edge left, and no worker holds it.
LEMMA CommitPrunePreserves ==
  ASSUME IInv, CommitPrune
  PROVE  IInv'
<1> DEFINE q == [prune EXCEPT !.phase = "done", !.deleted = {}, !.cut = {}]
           gone(w) == tx[w].stale \cup (Loaded(w) \cap Removed)
<1>1. prune.phase = "working" /\ prune' = q /\ edges' = edges \ prune.cut
  BY DEF CommitPrune, Pruning
<1>2. /\ q \in PruneState /\ q.list = prune.list /\ q.todo = prune.todo /\ q.deleted = {}
      /\ q.phase = "done"
  BY PruneBefore DEF PruneState
<1> HIDE DEF q
<1>3. /\ row' \in [Person -> {"absent", "stored"} \cup Worker]
      /\ \A p \in Person : row'[p] = IF p \in prune.deleted THEN "absent" ELSE row[p]
  BY DEF CommitPrune, IInv, Typed
<1>4. ASSUME NEW w \in Worker
      PROVE  /\ tx'[w] = [tx[w] EXCEPT !.stale = gone(w)] /\ tx'[w] \in Tx
             /\ tx'[w].stale = gone(w)
             /\ tx'[w].phase = tx[w].phase /\ tx'[w].at = tx[w].at
             /\ tx'[w].step = tx[w].step /\ tx'[w].linked = tx[w].linked
  <2> DEFINE g == gone(w)
             r == tx[w]
  <2>1. r \in Tx /\ g \in SUBSET Rows
    BY Before, PruneBefore DEF Removed, PruneState, Rows, Tx
  <2>2. tx'[w] = [r EXCEPT !.stale = g]
    BY Before DEF CommitPrune
  <2> HIDE DEF g, r
  <2>3. /\ [r EXCEPT !.stale = g] \in Tx /\ [r EXCEPT !.stale = g].stale = g
        /\ [r EXCEPT !.stale = g].phase = r.phase /\ [r EXCEPT !.stale = g].at = r.at
        /\ [r EXCEPT !.stale = g].step = r.step /\ [r EXCEPT !.stale = g].linked = r.linked
    BY <2>1 DEF Tx
  <2>4. QED
    BY <2>2, <2>3 DEF g, r
<1> HIDE DEF gone
<1>5. Typed'
  <2>1. tx' = [w \in Worker |-> tx'[w]]
    BY DEF CommitPrune
  <2>2. tx' \in [Worker -> Tx]
    BY <1>4, <2>1
  <2>3. \A w \in Worker : tx'[w].step # "look" => tx'[w].at <= Len(Batch[w])
    BY <1>4 DEF IInv, Typed
  <2>4. edges' \subseteq Person \X Person
    BY <1>1 DEF IInv, Typed
  <2>5. QED
    BY <1>1, <1>2, <1>3, <2>2, <2>3, <2>4 DEF Typed
<1>6. NoDanglingEdge'
  <2>1. SUFFICES ASSUME NEW e \in edges, e \notin prune.cut
                 PROVE  row'[e[1]] = "stored" /\ row'[e[2]] = "stored"
    BY <1>1 DEF NoDanglingEdge
  <2>2. e[1] \in Person /\ e[2] \in Person
    BY DEF IInv, Typed
  <2>3. row[e[1]] = "stored" /\ row[e[2]] = "stored"
    BY DEF IInv, NoDanglingEdge
  <2>4. e[1] \notin prune.deleted /\ e[2] \notin prune.deleted
    BY <2>1, PruneBefore DEF Touching
  <2>5. QED
    BY <1>3, <2>2, <2>3, <2>4
<1>7. LinksHold'
  <2>1. SUFFICES ASSUME NEW w \in Worker, NEW p \in Held(w)'
                 PROVE  p \in Seen(w)'
    BY <1>1, <1>2 DEF LinksHold, Seen
  <2>2. p \in Held(w)
    BY <1>4 DEF Held
  <2>3. p \in Seen(w) /\ p \notin prune.deleted
    BY <2>2 DEF IInv, LinksHold
  <2>4. QED
    BY <1>3, <2>3 DEF Seen
<1>8. SubjectHolds'
  <2>1. SUFFICES ASSUME NEW w \in Worker
                 PROVE  /\ tx'[w].phase = "working" /\ tx'[w].at > 1 => Knows(w, Subject(w))'
                        /\ tx'[w].phase = "working" /\ tx'[w].step = "link"
                             => tx'[w].at > 1 /\ Knows(w, Current(w))'
                        /\ tx'[w].stale \cap Person \subseteq Junk
    BY DEF SubjectHolds
  <2>2. \A p \in Loaded(w) : Knows(w, p) => Knows(w, p)'
    BY <1>3, <1>4 DEF Knows, Seen, gone, Removed
  <2>3. Subject(w)' = Subject(w) /\ Current(w)' = Current(w)
    BY <1>4 DEF Subject, Current
  <2>4. tx[w].at > 1 => Subject(w) \in Loaded(w)
    BY DEF Loaded
  <2>5. tx[w].step = "link" => Current(w) \in Loaded(w)
    BY DEF Loaded
  <2>6. tx'[w].stale \cap Person \subseteq Junk
    <3>1. prune.deleted \subseteq Junk /\ prune.cut \cap Person = {}
      BY PruneBefore, Names DEF PruneState
    <3>2. tx[w].stale \cap Person \subseteq Junk
      BY DEF IInv, SubjectHolds
    <3>3. QED
      BY <1>4, <3>1, <3>2 DEF gone, Removed
  <2>7. tx'[w].phase = "working" /\ tx'[w].at > 1 => Knows(w, Subject(w))'
    BY <1>4, <2>2, <2>3, <2>4, Before DEF Knows
  <2>8. tx'[w].phase = "working" /\ tx'[w].step = "link"
          => tx'[w].at > 1 /\ Knows(w, Current(w))'
    BY <1>4, <2>2, <2>3, <2>5, Before DEF Knows
  <2>9. QED
    BY <2>6, <2>7, <2>8
<1>9. PruneHolds'
  <2>1. prune'.list \cup prune'.todo \cup prune'.deleted \subseteq Junk
    BY <1>1, <1>2, PruneBefore
  <2>2. QED
    BY <1>1, <1>2, <2>1 DEF PruneHolds
<1>10. QED
  BY <1>5, <1>6, <1>7, <1>8, <1>9 DEF IInv

LEMMA VictimPrunePreserves ==
  ASSUME IInv, VictimPrune
  PROVE  IInv'
<1>1. prune.phase = "working" /\ UNCHANGED <<row, edges, tx>>
  BY DEF VictimPrune
<1>2. CASE prune.attempt < InPlace /\ prune.deleted = {}
  <2> DEFINE next == prune.attempt + 1
             q == FreshPrune(prune.list, next)
  <2>1. prune' = q
    BY <1>2 DEF VictimPrune
  <2>2. prune.list \in SUBSET Person /\ next \in Nat
    BY PruneBefore DEF PruneState
  <2> HIDE DEF next
  <2>3. /\ q \in PruneState /\ q.list = prune.list /\ q.todo = prune.list /\ q.deleted = {}
        /\ q.step = "next"
    BY <2>2, FreshPruneTyped
  <2> HIDE DEF q
  <2>4. q.list \cup q.todo \cup q.deleted = prune.list
    BY <2>3
  <2>5. prune.list \subseteq Junk /\ \A p \in prune.list : row[p] = "stored"
    BY <1>1, PruneBefore
  <2>6. QED
    BY <1>1, <2>1, <2>3, <2>4, <2>5, PruneMoves
<1>3. CASE ~(prune.attempt < InPlace /\ prune.deleted = {})
  <2> DEFINE end == IF prune.attempt < InPlace THEN "expunged" ELSE "failed"
             q == [prune EXCEPT !.phase = end, !.deleted = {}, !.cut = {}, !.todo = {}]
  <2>1. prune' = q
    BY <1>3 DEF VictimPrune
  <2>2. end \in {"expunged", "failed"}
    OBVIOUS
  <2> HIDE DEF end
  <2>3. /\ q \in PruneState /\ q.list = prune.list /\ q.todo = {} /\ q.deleted = {}
        /\ q.phase = end
    BY <2>2, PruneBefore DEF PruneState
  <2> HIDE DEF q
  <2>4. q.phase # "working"
    BY <2>2, <2>3
  <2>5. q.list \cup q.todo \cup q.deleted \subseteq Junk
    BY <2>3, PruneBefore
  <2>6. QED
    BY <1>1, <2>1, <2>3, <2>4, <2>5, PruneMoves
<1>4. QED
  BY <1>2, <1>3

-----------------------------------------------------------------------------
LEMMA StepPreserves == IInv /\ [StoreNext]_vars => IInv'
<1> SUFFICES ASSUME IInv, [StoreNext]_vars PROVE IInv'
  OBVIOUS
<1>1. CASE StartPrune
  BY <1>1, StartPrunePreserves
<1>2. CASE PruneStep
  BY <1>2, NextTargetPreserves, DeleteEdgesPreserves, DeletePersonPreserves,
     CommitPrunePreserves, VictimPrunePreserves DEF PruneStep
<1>3. CASE \E w \in Worker : WorkerStep(w) \/ Raise(w)
  BY <1>3, LookPreserves, FlushPreserves, InsertPreserves, LoseRacePreserves,
     ReselectPreserves, LinkPreserves, CommitPreserves, CommitStalePreserves,
     CommitMarkPreserves, VictimPreserves, RaisePreserves DEF WorkerStep
<1>4. CASE UNCHANGED vars
  BY <1>4 DEF vars, IInv, Typed, NoDanglingEdge, LinksHold, SubjectHolds, PruneHolds,
              Knows, Seen, Held, Subject, Current, Touching
<1>5. QED
  BY <1>1, <1>2, <1>3, <1>4 DEF StoreNext

\* The inductive invariant holds whatever the transactions do and however they
\* end (get_or_create_person, add_edge_from_extraction, _prune_invalid_nodes).
THEOREM StoreIsSound == StoreSpec => []IInv
BY InitEstablishes, StepPreserves, PTL DEF StoreSpec

\* Neither the race for a name nor a prune takes an end away from under a
\* committed edge.
THEOREM EdgesHaveEnds == StoreSpec => []NoDanglingEdge
<1>1. IInv => NoDanglingEdge
  BY DEF IInv
<1>2. QED
  BY <1>1, StoreIsSound, PTL

\* Until its final commit a transaction at work keeps its subject, unless that
\* is junk, and the ends of its edges.  (What a final commit that is retried
\* loses is MarkedIsStored's business, which does not hold.)
THEOREM OwnWorkIsKept == StoreSpec => []OwnWorkStays
<1>1. IInv => OwnWorkStays
  BY Before DEF IInv, OwnWorkStays, LinksHold, SubjectHolds, Knows, Seen
<1>2. QED
  BY <1>1, StoreIsSound, PTL

-----------------------------------------------------------------------------
(* Expansion.                                                              *)

WorkerState == {"none", "queued", "working", "again", "finished", "raised", "merged",
                "dropped"}
AtWork == {"queued", "working", "again"}

\* Nodes are at work only while the controlling thread is in the pool, and a
\* walk that is stopping has emptied the queue.
PoolHolds ==
  /\ phase \in {"hop", "work", "unwind", "offer", "rank", "prune", "retype", "done",
                "cancelled"}
  /\ worker \in [Node -> WorkerState]
  /\ phase \notin {"work", "unwind"} => \A n \in Node : worker[n] \notin AtWork
  /\ stopping => /\ phase \notin {"hop", "rank"}
                 /\ phase = "work" => \A n \in Node : worker[n] # "queued"

\* The inductive invariant of the bounds: the counters are numbers.
BoundsHold ==
  /\ hop \in Nat /\ tries \in [Node -> Nat] /\ visited \subseteq Node
  /\ WalkBounds

LEMMA WalkStarts == ExpansionInit => PoolHolds
BY DEF ExpansionInit, PoolHolds, WorkerState, AtWork

LEMMA PoolStep == PoolHolds /\ [ExpansionNext]_walkVars => PoolHolds'
<1> SUFFICES ASSUME PoolHolds, [ExpansionNext]_walkVars PROVE PoolHolds'
  OBVIOUS
<1> USE DEF PoolHolds, WorkerState, AtWork
<1>1. CASE Abort
  BY <1>1 DEF Abort
<1>2. CASE StartHop
  BY <1>2 DEF StartHop
<1>3. CASE StopBeforeHop
  BY <1>3 DEF StopBeforeHop
<1>4. CASE Unwind
  BY <1>4 DEF Unwind, Busy
<1>5. CASE HopDone
  BY <1>5 DEF HopDone, Busy, HopNodes
<1>6. CASE Offer
  BY <1>6 DEF Offer
<1>7. CASE EndWalk
  BY <1>7 DEF EndWalk
<1>8. CASE Rank
  BY <1>8 DEF Rank
<1>9. CASE Prune
  BY <1>9 DEF Prune
<1>10. CASE Retype
  BY <1>10 DEF Retype
<1>11. ASSUME NEW n \in Node, Collect(n) PROVE PoolHolds'
  BY <1>11 DEF Collect
<1>12. ASSUME NEW n \in Node, CollectRaised(n) PROVE PoolHolds'
  BY <1>12 DEF CollectRaised
<1>13. ASSUME NEW n \in Node, Work(n) PROVE PoolHolds'
  <2>1. UNCHANGED <<phase, stopping>>
    BY <1>13 DEF Work, Begin, Succeed, Retry, Skip, Interrupted, Becomes, control
  <2>2. PICK w \in {"finished", "raised", "working", "again"} :
             worker' = [worker EXCEPT ![n] = w]
    BY <1>13 DEF Work, Begin, Succeed, Retry, Skip, Interrupted, Becomes
  <2>3. phase \in {"work", "unwind"}
    BY <1>13 DEF Work, Begin, Succeed, Retry, Skip, Interrupted
  <2>4. QED
    BY <2>1, <2>2, <2>3
<1>14. CASE Cancel \/ Meet \/ Fill
  BY <1>14 DEF Cancel, Meet, Fill, Environment, control
<1>15. CASE UNCHANGED walkVars
  BY <1>15 DEF walkVars, control
<1>16. QED
  BY <1>1, <1>2, <1>3, <1>4, <1>5, <1>6, <1>7, <1>8, <1>9, <1>10, <1>11, <1>12, <1>13,
     <1>14, <1>15 DEF ExpansionNext, Control

\* When the call has ended, however it ended, none of its nodes is being
\* searched or still waits to be (expand_graph leaves the pool's block only
\* after its threads).
THEOREM NothingIsOrphaned == ExpansionSpec => []NoOrphans
<1>1. PoolHolds => NoOrphans
  BY DEF PoolHolds, NoOrphans, Running, AtWork
<1>2. QED
  BY <1>1, WalkStarts, PoolStep, PTL DEF ExpansionSpec

-----------------------------------------------------------------------------
LEMMA BoundsStart == ExpansionInit => BoundsHold
<1> SUFFICES ASSUME ExpansionInit PROVE BoundsHold
  OBVIOUS
<1>1. Busy = {} /\ HopNodes = {}
  BY DEF ExpansionInit, Busy, HopNodes
<1>2. Cardinality(Busy) <= Workers
  BY <1>1, FS_EmptySet, ExpansionAssumption
<1>3. hop \in 0..Depth - 1
  BY ExpansionAssumption DEF ExpansionInit
<1>4. tries \in [Node -> Nat] /\ \A n \in Node : tries[n] <= Attempts
  BY ExpansionAssumption DEF ExpansionInit, None
<1>5. QED
  BY <1>1, <1>2, <1>3, <1>4, ExpansionAssumption DEF ExpansionInit, BoundsHold, WalkBounds

\* The threads at work stay within the pool's size when none joins them ...
LEMMA NoneJoins ==
  ASSUME Cardinality(Busy) <= Workers, Busy' \subseteq Busy
  PROVE  Cardinality(Busy') <= Workers
<1>1. IsFiniteSet(Busy)
  BY FS_Subset, ExpansionAssumption DEF Busy
<1>2. Cardinality(Busy') <= Cardinality(Busy)
  BY <1>1, FS_Subset
<1>3. Cardinality(Busy) \in Nat /\ Cardinality(Busy') \in Nat /\ Workers \in Nat
  BY <1>1, FS_Subset, FS_CardinalityType, ExpansionAssumption
<1>4. QED
  BY <1>2, <1>3

\* ... and when one takes a free place.
LEMMA OneJoins ==
  ASSUME NEW n, Cardinality(Busy) < Workers, Busy' \subseteq Busy \cup {n}
  PROVE  Cardinality(Busy') <= Workers
<1>1. IsFiniteSet(Busy)
  BY FS_Subset, ExpansionAssumption DEF Busy
<1>2. /\ IsFiniteSet(Busy \cup {n})
      /\ Cardinality(Busy \cup {n}) \in {Cardinality(Busy), Cardinality(Busy) + 1}
  BY <1>1, FS_AddElement
<1>3. Cardinality(Busy') <= Cardinality(Busy \cup {n})
  BY <1>2, FS_Subset
<1>4. Cardinality(Busy) \in Nat /\ Cardinality(Busy') \in Nat /\ Workers \in Nat
  BY <1>1, <1>2, FS_Subset, FS_CardinalityType, ExpansionAssumption
<1>5. QED
  BY <1>2, <1>3, <1>4

\* The bounds survive a step that leaves the books alone and starts no hop.
LEMMA BooksUntouched ==
  ASSUME BoundsHold, UNCHANGED <<hop, frontier, visited, tries>>,
         Busy' \subseteq Busy, HopNodes' \subseteq HopNodes, phase' = "hop" => phase = "hop"
  PROVE  BoundsHold'
<1>1. Cardinality(Busy') <= Workers
  BY NoneJoins DEF BoundsHold, WalkBounds
<1>2. QED
  BY <1>1 DEF BoundsHold, WalkBounds

LEMMA WorkIsBounded ==
  ASSUME BoundsHold, NEW n \in Node, Work(n), worker \in [Node -> WorkerState]
  PROVE  BoundsHold'
<1> USE DEF Becomes, control
<1>1. UNCHANGED <<phase, hop, frontier, visited>>
  BY DEF Work, Begin, Succeed, Retry, Skip, Interrupted
<1>2. worker[n] # "none"
  BY DEF Work, Begin, Succeed, Retry, Skip, Interrupted
<1>3. PICK w \in WorkerState : worker' = [worker EXCEPT ![n] = w]
  BY DEF Work, Begin, Succeed, Retry, Skip, Interrupted, WorkerState
<1>4. HopNodes' \subseteq HopNodes
  BY <1>2, <1>3 DEF HopNodes
<1>5. Cardinality(Busy') <= Workers
  <2>1. CASE worker[n] \in {"working", "again"}
    BY <1>3, <2>1, NoneJoins DEF Busy, BoundsHold, WalkBounds
  <2>2. CASE worker[n] \notin {"working", "again"}
    <3>1. Cardinality(Busy) < Workers
      BY <2>2 DEF Work, Begin, Succeed, Retry, Skip, Interrupted
    <3>2. Busy' \subseteq Busy \cup {n}
      BY <1>3 DEF Busy
    <3>3. QED
      BY <3>1, <3>2, OneJoins
  <2>3. QED
    BY <2>1, <2>2
<1>6. tries' \in [Node -> Nat] /\ \A m \in Node : tries'[m] <= Attempts
  <2>1. CASE UNCHANGED tries
    BY <2>1 DEF BoundsHold, WalkBounds
  <2>2. CASE tries[n] < Attempts /\ tries' = [tries EXCEPT ![n] = @ + 1]
    BY <2>2, ExpansionAssumption DEF BoundsHold, WalkBounds
  <2>3. QED
    BY <2>1, <2>2 DEF Work, Begin, Succeed, Retry, Skip, Interrupted
<1>7. QED
  BY <1>1, <1>4, <1>5, <1>6 DEF BoundsHold, WalkBounds

LEMMA BoundsStep ==
  PoolHolds /\ BoundsHold /\ [ExpansionNext]_walkVars => BoundsHold'
<1> SUFFICES ASSUME PoolHolds, BoundsHold, [ExpansionNext]_walkVars PROVE BoundsHold'
  OBVIOUS
<1>1. CASE StartHop
  <2>1. Busy' = {} /\ HopNodes' = frontier \ visited
    BY <1>1 DEF StartHop, Busy, HopNodes, BoundsHold, WalkBounds
  <2>2. Cardinality(Busy') <= Workers
    BY <2>1, FS_EmptySet, ExpansionAssumption
  <2>3. tries' \in [Node -> Nat] /\ \A n \in Node : tries'[n] <= Attempts
    BY <1>1, ExpansionAssumption DEF StartHop, None
  <2>4. QED
    BY <1>1, <2>1, <2>2, <2>3 DEF StartHop, BoundsHold, WalkBounds
<1>2. CASE Rank
  <2>1. PICK S \in SUBSET Node : /\ IsRanked(S) /\ frontier' = S
                               /\ hop' = IF met \/ S = {} THEN hop ELSE hop + 1
    BY <1>2 DEF Rank
  <2>2. frontier' \cap visited = {}
    BY <2>1 DEF IsRanked, Expandable
  <2>3. hop' \in Nat /\ hop' \in 0..Depth - 1
    BY <1>2, <2>1, ExpansionAssumption DEF Rank, BoundsHold, WalkBounds
  <2>4. UNCHANGED <<worker, tries, visited, Busy, HopNodes>>
    BY <1>2 DEF Rank, Busy, HopNodes
  <2>5. QED
    BY <2>1, <2>2, <2>3, <2>4 DEF BoundsHold, WalkBounds
<1>3. ASSUME NEW n \in Node, Collect(n) PROVE BoundsHold'
  <2>1. Busy' \subseteq Busy /\ HopNodes' \subseteq HopNodes
    BY <1>3 DEF Collect, Busy, HopNodes
  <2>2. UNCHANGED <<hop, frontier, visited, tries>> /\ phase' # "hop"
    BY <1>3 DEF Collect
  <2>3. QED
    BY <2>1, <2>2, BooksUntouched
<1>4. ASSUME NEW n \in Node, Work(n) PROVE BoundsHold'
  BY <1>4, WorkIsBounded DEF PoolHolds
<1>5. CASE \/ Abort \/ StopBeforeHop \/ Unwind \/ HopDone \/ Offer \/ EndWalk \/ Prune
           \/ Retype \/ (\E n \in Node : CollectRaised(n)) \/ Cancel \/ Meet \/ Fill
           \/ UNCHANGED walkVars
  <2>1. /\ UNCHANGED <<hop, frontier, visited, worker, tries>>
        /\ phase' = "hop" => phase = "hop"
    BY <1>5 DEF Abort, StopBeforeHop, Unwind, HopDone, Offer, EndWalk, Prune, Retype,
                CollectRaised, Cancel, Meet, Fill, Environment, walkVars, control
  <2>2. Busy' = Busy /\ HopNodes' = HopNodes
    BY <2>1 DEF Busy, HopNodes
  <2>3. QED
    BY <2>1, <2>2, BooksUntouched
<1>6. QED
  BY <1>1, <1>2, <1>3, <1>4, <1>5 DEF ExpansionNext, Control

\* However the threads interleave, no more than EXPAND_NODE_CONCURRENCY nodes
\* are searched at once, no node is attempted more often than its retries
\* allow, no hop goes past max_depth, and nobody is searched twice.
THEOREM WalkStaysInBounds == ExpansionSpec => []WalkBounds
<1>1. PoolHolds /\ BoundsHold /\ [ExpansionNext]_walkVars => (PoolHolds /\ BoundsHold)'
  BY PoolStep, BoundsStep
<1>2. BoundsHold => WalkBounds
  BY DEF BoundsHold
<1>3. QED
  BY <1>1, <1>2, WalkStarts, BoundsStart, PTL DEF ExpansionSpec
=============================================================================
