----------------------------- MODULE GraphStore -----------------------------
(***************************************************************************)
(* The transactions that write the shared graph (src/app/graph/builder.py) *)
(* against a database with row locks and foreign keys, READ COMMITTED:     *)
(* every worker persists one node, the subject first and then counterpart  *)
(* after counterpart with an edge to each, in one transaction of its own   *)
(* session, while one pruning transaction deletes junk people.  Nobody     *)
(* waits on purpose: a statement that needs a row another transaction has  *)
(* written stands still, and the server ends a cycle of such waits by      *)
(* failing one member's statement.                                         *)
(*                                                                         *)
(* Inserts are sent at once, in a savepoint.  Changes to rows that exist   *)
(* are sent with the next savepoint or with the final commit, and fail if  *)
(* the row has been deleted since it was loaded.                           *)
(*                                                                         *)
(* A person stands for organizations and sources as well, which are stored *)
(* the same way.                                                           *)
(***************************************************************************)
EXTENDS Integers, Sequences, FiniteSets

CONSTANTS Worker, Person,
          Batch,        \* worker -> the subject and its counterparts, in order
          Stored, Ties, \* the people and edges the graph holds already
          Junk,         \* the people the prune deletes
          Pruner,       \* the pruning transaction
          InPlace,      \* _DEADLOCK_INPLACE_RETRIES
          NodeRetries,  \* NODE_DB_RETRY_ATTEMPTS
          DeleteTries   \* delete_node_with_retry's _retries

ASSUME StoreAssumption ==
  /\ IsFiniteSet(Worker) /\ IsFiniteSet(Person)
  /\ {Pruner, "absent", "stored"} \cap Worker = {}
  /\ \A p, q, r \in Person : p # <<q, r>>
  /\ \A w \in Worker : Batch[w] \in Seq(Person) /\ Batch[w] # <<>>
  /\ Stored \subseteq Person /\ Junk \subseteq Person /\ Ties \subseteq Stored \X Stored
  /\ InPlace \in Nat /\ NodeRetries \in Nat /\ DeleteTries \in Nat \ {0}

VARIABLES row,     \* "absent", "stored", or the worker whose insert is not committed
          edges,   \* the committed edges, as <<subject, counterpart>>
          tx,      \* worker -> the state of its transaction
          prune    \* the state of the pruning transaction

vars == <<row, edges, tx, prune>>
Actor == Worker \cup {Pruner}

\* The transaction of a worker that begins, or begins again, with its node.
\* dirty: rows changed in the session only; locked: rows it has updated;
\* stale: rows it has loaded that were deleted since.
Fresh(attempt) ==
  [phase |-> "working", at |-> 1, step |-> "look", linked |-> {}, dirty |-> {},
   locked |-> {}, stale |-> {}, tries |-> 0, attempt |-> attempt]

\* The prune with its list of junk people, none of them deleted yet.
FreshPrune(junk, attempt) ==
  [phase |-> "working", step |-> "next", list |-> junk, todo |-> junk,
   target |-> CHOOSE p \in Person : TRUE, deleted |-> {}, cut |-> {},
   tries |-> 0, attempt |-> attempt]

StoreInit ==
  /\ row = [p \in Person |-> IF p \in Stored THEN "stored" ELSE "absent"]
  /\ edges = Ties
  /\ tx = [w \in Worker |-> Fresh(0)]
  /\ prune = [FreshPrune({}, 0) EXCEPT !.phase = "idle"]

Subject(w) == Batch[w][1]
Current(w) == Batch[w][tx[w].at]
Edge(w) == <<Subject(w), Current(w)>>
Working(w, step) == tx[w].phase = "working" /\ tx[w].step = step
AtEnd(w) == tx[w].at > Len(Batch[w])
Committing(w) == Working(w, "look") /\ AtEnd(w)
Touching(p, E) == {e \in E : p \in {e[1], e[2]}}

\* The edge is in the graph, or this transaction has just inserted it.
IsLinked(w) == Edge(w) \in edges \cup tx[w].linked

\* Entering a savepoint sends the changes that the session still holds.
Flushing(w) ==
  /\ tx[w].dirty # {}
  /\ Working(w, "insert") \/ (Working(w, "link") /\ ~IsLinked(w))

\* The rows that w has loaded and goes on to use.
Loaded(w) ==
  tx[w].dirty \cup (IF tx[w].at > 1 THEN {Subject(w)} ELSE {})
              \cup (IF tx[w].step = "link" THEN {Current(w)} ELSE {})

-----------------------------------------------------------------------------
(* Locks.                                                                  *)

\* The people whose rows w keeps from being deleted: both ends of an edge it
\* has inserted.
Held(w) == UNION {{e[1], e[2]} : e \in tx[w].linked}

\* The stored rows that an actor's next statement updates or deletes.
Writes(a) ==
  IF a = Pruner
  THEN IF prune.phase # "working" THEN {}
       ELSE IF prune.step = "edges" THEN Touching(prune.target, edges)
       ELSE IF prune.step = "node" THEN {prune.target} ELSE {}
  ELSE IF Flushing(a) THEN tx[a].dirty
  ELSE IF Committing(a) THEN tx[a].dirty \cup {Subject(a)}
  ELSE IF tx[a].phase = "marking" THEN {Subject(a)} ELSE {}

Removed == prune.deleted \cup prune.cut

\* The transactions whose end an actor's next statement has to wait for.
Blockers(a) ==
  {w \in Worker \ {a} :
     \/ Writes(a) \cap tx[w].locked # {}
     \/ a = Pruner /\ prune.phase = "working" /\ prune.step = "node"
                   /\ prune.target \in Held(w)
     \/ a # Pruner /\ Working(a, "insert") /\ ~Flushing(a) /\ row[Current(a)] = w}
  \cup {b \in {Pruner} \ {a} :
          \/ Writes(a) \cap Removed # {}
          \/ Working(a, "link") /\ ~IsLinked(a) /\ ~Flushing(a)
                                /\ {Subject(a), Current(a)} \cap prune.deleted # {}}

Free(a) == Blockers(a) = {}

\* a is a member of a cycle of waits.
Deadlocked(a) ==
  \E S \in SUBSET Actor :
    /\ a \in S /\ \A x \in S : Blockers(x) \cap S # {}
    /\ \A x \in S : \E y \in S : x \in Blockers(y)

-----------------------------------------------------------------------------
(* A worker.                                                               *)

Advance(w, step) == [tx EXCEPT ![w].step = step, ![w].tries = 0]
NextPerson(w) == [tx EXCEPT ![w].at = @ + 1, ![w].step = "look", ![w].tries = 0]
AfterResolve(w) == IF tx[w].at = 1 THEN NextPerson(w) ELSE Advance(w, "link")

\* A row that exists may get something better: an alias, a higher confidence.
Change(next, w, rows) == \E S \in SUBSET rows : tx' = [next EXCEPT ![w].dirty = @ \cup S]

\* Nothing of w's transaction remains.
Undo(w) == row' = [p \in Person |-> IF row[p] = w THEN "absent" ELSE row[p]]
Ended(w, how) ==
  [tx EXCEPT ![w] = [@ EXCEPT !.phase = how, !.step = "look", !.linked = {},
                              !.dirty = {}, !.locked = {}]]
GiveUp(w) == Ended(w, "skipped")

\* Again, in a fresh session.
Redo(w) == IF tx[w].attempt < NodeRetries
           THEN [tx EXCEPT ![w] = Fresh(tx[w].attempt + 1)] ELSE GiveUp(w)

\* commit_with_retry after a rollback: what is redone is _mark_expanded alone.
\* A subject that this transaction had inserted is not in the session any
\* more, and nothing is left to commit.
MarkOnly(w) == Ended(w, IF row[Subject(w)] = w THEN "marked" ELSE "marking")

\* The select of get_or_create_person, which does not see other transactions'
\* inserts; a counterpart is not created once the graph is at its cap.
Look(w) ==
  /\ Working(w, "look") /\ ~AtEnd(w)
  /\ \/ row[Current(w)] \in {"stored", w} /\ Change(AfterResolve(w), w, {Current(w)})
     \/ row[Current(w)] \notin {"stored", w} /\ tx' = Advance(w, "insert")
     \/ row[Current(w)] \notin {"stored", w} /\ tx[w].at > 1 /\ tx' = NextPerson(w)
  /\ UNCHANGED <<row, edges, prune>>

\* The changes are sent before the savepoint is there: a row that is gone is
\* an error nobody retries.
Flush(w) ==
  /\ Flushing(w) /\ Free(w)
  /\ IF tx[w].dirty \cap tx[w].stale = {}
     THEN /\ tx' = [tx EXCEPT ![w].locked = @ \cup tx[w].dirty, ![w].dirty = {}]
          /\ UNCHANGED row
     ELSE tx' = GiveUp(w) /\ Undo(w)
  /\ UNCHANGED <<edges, prune>>

\* The insert in a savepoint.
Insert(w) ==
  /\ Working(w, "insert") /\ tx[w].dirty = {} /\ Free(w) /\ row[Current(w)] = "absent"
  /\ row' = [row EXCEPT ![Current(w)] = w]
  /\ tx' = AfterResolve(w)
  /\ UNCHANGED <<edges, prune>>

\* Bug: losing the race rolls the whole transaction back and goes on.
LoseRaceBare(w) ==
  /\ Working(w, "insert") /\ tx[w].dirty = {} /\ Free(w) /\ row[Current(w)] = "stored"
  /\ Undo(w)
  /\ tx' = [Advance(w, "reselect") EXCEPT ![w].linked = {}, ![w].locked = {}]
  /\ UNCHANGED <<edges, prune>>

\* Another worker's insert of the name was committed: the unique index
\* refuses this one, which is undone to its savepoint.
LoseRace(w) ==
  /\ Working(w, "insert") /\ tx[w].dirty = {} /\ Free(w) /\ row[Current(w)] = "stored"
  /\ tx' = Advance(w, "reselect")
  /\ UNCHANGED <<row, edges, prune>>

\* The winner's row is the person both wanted, if it is still there.
Reselect(w) ==
  /\ Working(w, "reselect")
  /\ IF row[Current(w)] = "stored"
     THEN Change(AfterResolve(w), w, {Current(w)}) /\ UNCHANGED row
     ELSE tx' = GiveUp(w) /\ Undo(w)
  /\ UNCHANGED <<edges, prune>>

\* add_edge_from_extraction.  An edge that is there is changed at most; an
\* edge to a person the prune has deleted is refused, which is not retried.
Link(w) ==
  /\ Working(w, "link")
  /\ \/ IsLinked(w) /\ Change(NextPerson(w), w, {Edge(w)} \cap edges) /\ UNCHANGED row
     \/ /\ ~IsLinked(w) /\ tx[w].dirty = {} /\ Free(w)
        /\ IF {Subject(w), Current(w)} \cap tx[w].stale = {}
           THEN tx' = [NextPerson(w) EXCEPT ![w].linked = @ \cup {Edge(w)}] /\ UNCHANGED row
           ELSE tx' = GiveUp(w) /\ Undo(w)
  /\ UNCHANGED <<edges, prune>>

\* The node is marked expanded; the last changes and the mark are sent, and
\* all of it becomes visible at once.
Commit(w) ==
  /\ Committing(w) /\ Free(w) /\ (tx[w].dirty \cup {Subject(w)}) \cap tx[w].stale = {}
  /\ row' = [p \in Person |-> IF row[p] = w THEN "stored" ELSE row[p]]
  /\ edges' = edges \cup tx[w].linked
  /\ tx' = Ended(w, "stored")
  /\ UNCHANGED prune

\* A row to be changed is gone (StaleDataError): everything is rolled back,
\* then the mark alone is tried.
CommitStale(w) ==
  /\ Committing(w) /\ Free(w) /\ (tx[w].dirty \cup {Subject(w)}) \cap tx[w].stale # {}
  /\ Undo(w) /\ tx' = MarkOnly(w)
  /\ UNCHANGED <<edges, prune>>

\* If the subject is gone as well, reading it is an error that makes the node
\* be done again.
CommitMark(w) ==
  /\ tx[w].phase = "marking" /\ Free(w)
  /\ tx' = IF Subject(w) \in tx[w].stale THEN Redo(w) ELSE Ended(w, "marked")
  /\ UNCHANGED <<row, edges, prune>>

\* Anything else that is raised while the node is processed, a cancel too.
Raise(w) ==
  /\ tx[w].phase \in {"working", "marking"}
  /\ Undo(w) /\ tx' = GiveUp(w)
  /\ UNCHANGED <<edges, prune>>

\* Bug: a deadlock is retried in place like a lock, again and again.
VictimInPlace(w) ==
  /\ tx[w].phase = "working" /\ Deadlocked(w)
  /\ tx' = [tx EXCEPT ![w].tries = InPlace]
  /\ UNCHANGED <<row, edges, prune>>

\* The server fails w's statement.  One retry: in the savepoint it keeps w's
\* rows; outside one it finds the session unusable, an error of another kind,
\* which is not retried; at the final commit it is for the mark alone.  Then
\* the whole node is done again.
Victim(w) ==
  /\ tx[w].phase = "working" /\ Deadlocked(w)
  /\ \/ /\ tx[w].tries < InPlace /\ ~Flushing(w) /\ ~Committing(w)
        /\ tx' = [tx EXCEPT ![w].tries = @ + 1] /\ UNCHANGED row
     \/ /\ tx[w].tries < InPlace /\ Flushing(w)
        /\ tx' = GiveUp(w) /\ Undo(w)
     \/ /\ tx[w].tries < InPlace /\ Committing(w)
        /\ tx' = MarkOnly(w) /\ Undo(w)
     \/ tx[w].tries = InPlace /\ tx' = Redo(w) /\ Undo(w)
  /\ UNCHANGED <<edges, prune>>

WorkerStep(w) ==
  \/ Look(w) \/ Flush(w) \/ Insert(w) \/ LoseRace(w) \/ Reselect(w) \/ Link(w)
  \/ Commit(w) \/ CommitStale(w) \/ CommitMark(w) \/ Victim(w)

-----------------------------------------------------------------------------
(* The prune: _prune_invalid_nodes, one person after the other, all in one *)
(* transaction.                                                            *)

Target == prune.target
Pruning(step) == prune.phase = "working" /\ prune.step = step

StartPrune ==
  /\ prune.phase = "idle"
  /\ prune' = FreshPrune({p \in Junk : row[p] = "stored"}, 0)
  /\ UNCHANGED <<row, edges, tx>>

NextTarget ==
  /\ Pruning("next")
  /\ \E p \in prune.todo : prune' = [prune EXCEPT !.step = "edges", !.target = p]
  /\ UNCHANGED <<row, edges, tx>>

\* delete_node_with_retry: the committed edges of the person, then the person.
DeleteEdges ==
  /\ Pruning("edges") /\ Free(Pruner)
  /\ prune' = [prune EXCEPT !.step = "node", !.cut = @ \cup Touching(Target, edges)]
  /\ UNCHANGED <<row, edges, tx>>

\* What stays cut when the savepoint of this person is rolled back.
Remaining == {e \in prune.cut : {e[1], e[2]} \cap prune.deleted # {}}

\* The person is deleted, or left alone for a later prune.
Deleted ==
  [prune EXCEPT !.step = "next", !.tries = 0, !.todo = @ \ {Target},
                !.deleted = @ \cup {Target}]
LeftAlone ==
  [prune EXCEPT !.step = "next", !.tries = 0, !.todo = @ \ {Target}, !.cut = Remaining]

\* Bug: the person is deleted although an edge has appeared.
DeletePersonAnyway ==
  /\ Pruning("node") /\ Free(Pruner)
  /\ prune' = Deleted
  /\ UNCHANGED <<row, edges, tx>>

\* The foreign key refuses the delete if an edge was committed meanwhile: a
\* few attempts, then the person is left alone.
DeletePerson ==
  /\ Pruning("node") /\ Free(Pruner)
  /\ \/ Touching(Target, edges) \subseteq prune.cut /\ prune' = Deleted
     \/ /\ ~(Touching(Target, edges) \subseteq prune.cut)
        /\ prune' = IF prune.tries + 1 < DeleteTries
                    THEN [prune EXCEPT !.step = "edges", !.tries = @ + 1,
                                       !.cut = Remaining]
                    ELSE LeftAlone
  /\ UNCHANGED <<row, edges, tx>>

CommitPrune ==
  /\ Pruning("next") /\ prune.todo = {}
  /\ row' = [p \in Person |-> IF p \in prune.deleted THEN "absent" ELSE row[p]]
  /\ edges' = edges \ prune.cut
  /\ tx' = [w \in Worker |-> [tx[w] EXCEPT !.stale = @ \cup (Loaded(w) \cap Removed)]]
  /\ prune' = [prune EXCEPT !.phase = "done", !.deleted = {}, !.cut = {}]

\* commit_with_retry does the deletes once more after a deadlock.  A person
\* deleted by the first attempt was expunged from the session, and expunging
\* it again is an error nothing catches.
VictimPrune ==
  /\ prune.phase = "working" /\ Deadlocked(Pruner)
  /\ prune' =
       IF prune.attempt < InPlace /\ prune.deleted = {}
       THEN FreshPrune(prune.list, prune.attempt + 1)
       ELSE [prune EXCEPT !.phase = IF prune.attempt < InPlace THEN "expunged" ELSE "failed",
                          !.deleted = {}, !.cut = {}, !.todo = {}]
  /\ UNCHANGED <<row, edges, tx>>

PruneStep == NextTarget \/ DeleteEdges \/ DeletePerson \/ CommitPrune \/ VictimPrune

StoreNext == StartPrune \/ PruneStep \/ \E w \in Worker : WorkerStep(w) \/ Raise(w)

\* Every session keeps issuing its statements; when waits form a cycle the
\* server fails one of them, whichever.
StoreSpec ==
  /\ StoreInit /\ [][StoreNext]_vars
  /\ WF_vars(PruneStep) /\ \A w \in Worker : WF_vars(WorkerStep(w))

-----------------------------------------------------------------------------
\* A transaction that has ended, or been rolled back for the mark alone, holds
\* nothing.
StoreTypeOK ==
  /\ row \in [Person -> {"absent", "stored"} \cup Worker]
  /\ edges \subseteq Person \X Person
  /\ \A w \in Worker :
       /\ tx[w].at \in 1..(Len(Batch[w]) + 1)
       /\ tx[w].attempt \in 0..NodeRetries /\ tx[w].tries \in 0..InPlace
       /\ tx[w].phase # "working" =>
            /\ tx[w].linked = {} /\ tx[w].dirty = {} /\ tx[w].locked = {}
            /\ \A p \in Person : row[p] # w
  /\ prune.phase # "working" => prune.deleted = {} /\ prune.cut = {}

\* The graph has no edge to or from a person that is not in it: neither the
\* race for a name nor a prune takes an end away from under an edge
\* (_new_person_or_existing, delete_node_with_retry).
NoDanglingEdge == \A e \in edges : {row[e[1]], row[e[2]]} = {"stored"}

\* While a node is being written the rows written for it stay, whatever
\* statement loses a race: the subject is there when its edges are written.
\* (Its final commit may still take them back: MarkedIsStored.)
OwnWorkStays ==
  \A w \in Worker : tx[w].phase = "working" /\ tx[w].at > 1 =>
    \A p \in Held(w) \cup ({Subject(w)} \ Junk) : row[p] \in {"stored", w}

\* Nobody waits for ever: every node is stored or given up and the prune ends.
StoreSettles ==
  <>[](/\ \A w \in Worker : tx[w].phase \notin {"working", "marking"}
       /\ prune.phase # "working")

\* "delete_node_with_retry's own per-node deletes are themselves idempotent
\* (skip/redo cleanly) either way": redoing a prune does not fail.
RedoIsClean == prune.phase # "expunged"

\* "Either way, re-applying these two fields on retry is correct and cheap": a
\* final commit that is retried has not lost the node's people and edges.
MarkedIsStored == \A w \in Worker : tx[w].phase # "marked"
=============================================================================
