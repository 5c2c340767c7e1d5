----------------------------- MODULE Expansion -----------------------------
(***************************************************************************)
(* One call of expand_graph (src/app/graph/expansion.py): a walk outwards  *)
(* from a seed, hop by hop.  The nodes of a hop are searched by a pool of  *)
(* threads, each with a session of its own; the controlling thread merges  *)
(* what they find, asks after every node whether it should stop, ranks the *)
(* next frontier, and at the end prunes and retypes the graph.             *)
(*                                                                         *)
(* What searching a node yields is a constant: a weight per person found.  *)
(* Cancel and Meet belong to the environment: a user cancels the build,    *)
(* the other side of a connect completes a route.                          *)
(***************************************************************************)
EXTENDS Integers, FiniteSets, FiniteSetsExt

CONSTANTS Node, Seed,
          Finds,       \* person -> person -> the evidence found for a tie
          Depth,       \* max_depth
          Workers,     \* EXPAND_NODE_CONCURRENCY
          TopN,        \* EXPAND_TOP_STRONG or ALPHA_TOP_CANDIDATES
          Bar,         \* the evidence that makes a person expandable
          Famous,      \* people found independently notable
          Attempts     \* NODE_DB_RETRY_ATTEMPTS

ASSUME ExpansionAssumption ==
  /\ IsFiniteSet(Node) /\ Seed \in Node
  /\ Finds \in [Node -> [Node -> Nat]]
  /\ {Depth, Workers, TopN, Bar} \subseteq Nat \ {0}
  /\ Famous \subseteq Node /\ Attempts \in Nat

VARIABLES phase,      \* where the controlling thread is
          hop, frontier, visited,
          worker,     \* what has become of each node of this hop
          tries,      \* failed attempts at each node of this hop
          found,      \* what each node's search returned
          disc,       \* the evidence merged so far in this hop
          shallow,    \* famous frontier nodes, which lead no further
          offered,    \* people handed to the on_frontier hook
          stopping,   \* stop_after_node
          full,       \* the graph is at its node cap
          cancelled, met

control == <<phase, hop, frontier, visited, shallow, offered, stopping>>
signals == <<full, cancelled, met>>
walkVars == <<control, worker, tries, found, disc, signals>>

None == [p \in Node |-> 0]
Busy == {n \in Node : worker[n] \in {"working", "again"}}
HopNodes == {n \in Node : worker[n] # "none"}
Pool == Cardinality(HopNodes) > 1

ExpansionInit ==
  /\ phase = "hop" /\ hop = 0 /\ frontier = {Seed} /\ visited = {}
  /\ worker = [n \in Node |-> "none"] /\ tries = None
  /\ found = [n \in Node |-> None] /\ disc = None
  /\ shallow = {} /\ offered = {} /\ stopping = FALSE
  /\ full = FALSE /\ cancelled = FALSE /\ met = FALSE

-----------------------------------------------------------------------------
(* The controlling thread.                                                 *)

\* check_cancel: the callback raises, and the call ends.
Abort ==
  /\ phase \in {"hop", "rank", "prune", "retype"} /\ cancelled
  /\ phase' = "cancelled"
  /\ UNCHANGED <<hop, frontier, visited, shallow, offered, stopping,
                 worker, tries, found, disc, signals>>

StartHop ==
  /\ phase = "hop" /\ ~cancelled /\ ~met
  /\ phase' = "work"
  /\ visited' = visited \cup frontier
  /\ worker' = [n \in Node |-> IF n \in frontier \ visited THEN "queued" ELSE "none"]
  /\ tries' = None /\ found' = [n \in Node |-> None] /\ disc' = None
  /\ UNCHANGED <<hop, frontier, shallow, offered, stopping, signals>>

StopBeforeHop ==
  /\ phase = "hop" /\ ~cancelled /\ met
  /\ phase' = "prune"
  /\ UNCHANGED <<hop, frontier, visited, shallow, offered, stopping,
                 worker, tries, found, disc, signals>>

\* _merge_disc; a shallow node's discoveries lead nowhere.
Merged(n) == [p \in Node |-> disc[p] + IF n \in shallow THEN 0 ELSE found[n][p]]

\* A node is done; merge it and ask whether to stop, which also notices a
\* cancel.  Stopping takes the nodes nobody has begun out of the pool.
Collect(n) ==
  /\ phase = "work" /\ ~stopping /\ worker[n] = "finished"
  /\ disc' = Merged(n)
  /\ stopping' = (met /\ ~cancelled)
  /\ phase' = IF cancelled THEN "unwind" ELSE phase
  /\ worker' = [m \in Node |->
                  IF m = n THEN "merged"
                  ELSE IF stopping' /\ worker[m] = "queued" THEN "dropped" ELSE worker[m]]
  /\ UNCHANGED <<hop, frontier, visited, shallow, offered, tries, found, signals>>

\* A worker's cancellation comes out of future.result().
CollectRaised(n) ==
  /\ phase = "work" /\ ~stopping /\ worker[n] = "raised"
  /\ phase' = "unwind"
  /\ UNCHANGED <<hop, frontier, visited, shallow, offered, stopping,
                 worker, tries, found, disc, signals>>

\* Bug: the call is left while its threads are still at work.
UnwindAtOnce ==
  /\ phase = "unwind"
  /\ phase' = "cancelled"
  /\ UNCHANGED <<hop, frontier, visited, shallow, offered, stopping,
                 worker, tries, found, disc, signals>>

\* Leaving the pool waits for its threads.
Unwind ==
  /\ phase = "unwind" /\ Busy = {} /\ \A n \in Node : worker[n] # "queued"
  /\ phase' = "cancelled"
  /\ UNCHANGED <<hop, frontier, visited, shallow, offered, stopping,
                 worker, tries, found, disc, signals>>

\* The end of a hop's work.  After a hop of one node the frontier is offered.
HopDone ==
  /\ phase = "work" /\ Busy = {}
  /\ IF stopping THEN TRUE ELSE \A n \in HopNodes : worker[n] = "merged"
  /\ phase' = IF ~Pool THEN "offer" ELSE IF stopping THEN "prune" ELSE "rank"
  /\ UNCHANGED <<hop, frontier, visited, shallow, offered, stopping,
                 worker, tries, found, disc, signals>>

Expandable == {p \in Node \ visited : disc[p] >= Bar}

\* _ranked_expandable: the TopN best, ties in any order.
IsRanked(S) ==
  /\ S \subseteq Expandable
  /\ Cardinality(S) = Min({TopN, Cardinality(Expandable)})
  /\ \A p \in S, q \in Expandable \ S : disc[p] >= disc[q]

\* _offer_frontier: the hook may find the route while it asks; an error of
\* the hook, a cancellation included, is swallowed.
Offer ==
  /\ phase = "offer"
  /\ \E S \in SUBSET Node : IsRanked(S) /\ offered' = offered \cup S
  /\ phase' = IF stopping THEN "prune" ELSE "rank"
  /\ UNCHANGED <<hop, frontier, visited, shallow, stopping,
                 worker, tries, found, disc, signals>>

\* The last hop, or a full graph, ends the walk before it looks for a cancel.
EndWalk ==
  /\ phase = "rank" /\ (hop = Depth - 1 \/ full)
  /\ phase' = "prune"
  /\ UNCHANGED <<hop, frontier, visited, shallow, offered, stopping,
                 worker, tries, found, disc, signals>>

\* The next frontier; the lookup of who is famous may fail, which makes
\* nobody shallow.
Rank ==
  /\ phase = "rank" /\ hop < Depth - 1 /\ ~full /\ ~cancelled
  /\ \E S \in SUBSET Node :
       /\ IsRanked(S)
       /\ frontier' = S
       /\ phase' = IF met \/ S = {} THEN "prune" ELSE "hop"
       /\ hop' = IF met \/ S = {} THEN hop ELSE hop + 1
       /\ \E famous \in {Famous, {}} :
            shallow' = IF met THEN shallow ELSE shallow \cup (S \cap famous)
  /\ UNCHANGED <<visited, offered, stopping, worker, tries, found, disc, signals>>

\* _prune_invalid_nodes ...
Prune ==
  /\ phase = "prune" /\ ~cancelled
  /\ phase' = "retype"
  /\ UNCHANGED <<hop, frontier, visited, shallow, offered, stopping,
                 worker, tries, found, disc, signals>>

\* Bug: nobody asks between the two passes.
RetypeUnasked ==
  /\ phase = "retype"
  /\ phase' = "done"
  /\ UNCHANGED <<hop, frontier, visited, shallow, offered, stopping,
                 worker, tries, found, disc, signals>>

\* ... and _retype_unknown_edges; then the statistics are returned.
Retype ==
  /\ phase = "retype" /\ ~cancelled
  /\ phase' = "done"
  /\ UNCHANGED <<hop, frontier, visited, shallow, offered, stopping,
                 worker, tries, found, disc, signals>>

-----------------------------------------------------------------------------
(* The worker of a node: _process_one and its attempts.                    *)

Becomes(n, w) == worker' = [worker EXCEPT ![n] = w] /\ UNCHANGED <<control, disc, signals>>

\* An attempt begins with a fresh session and the question whether to go on.
Begin(n) ==
  /\ phase \in {"work", "unwind"}
  /\ \/ worker[n] = "again"
     \/ worker[n] = "queued" /\ Cardinality(Busy) < Workers
  /\ Becomes(n, IF cancelled THEN "raised" ELSE IF met THEN "finished" ELSE "working")
  /\ UNCHANGED <<tries, found>>

\* _record: the evidence of those people a search got to.
Recorded(n, people) == [p \in Node |-> IF p \in people THEN Finds[n][p] ELSE 0]

Succeed(n) ==
  /\ worker[n] = "working" /\ Becomes(n, "finished")
  /\ found' = [found EXCEPT ![n] = Recorded(n, Node)]
  /\ UNCHANGED tries

\* Bug: the attempts are not counted.
RetryUncounted(n) ==
  /\ worker[n] = "working" /\ ~cancelled /\ tries[n] < Attempts
  /\ Becomes(n, "again")
  /\ UNCHANGED <<tries, found>>

\* A lock, a deadlock or a vanished row: the whole node again.
Retry(n) ==
  /\ worker[n] = "working" /\ ~cancelled /\ tries[n] < Attempts
  /\ Becomes(n, "again")
  /\ tries' = [tries EXCEPT ![n] = @ + 1]
  /\ UNCHANGED found

\* Any other error, or the last attempt: the node is skipped, with the part
\* of its discoveries it had recorded.
Skip(n) ==
  /\ worker[n] = "working" /\ ~cancelled /\ Becomes(n, "finished")
  /\ \E part \in SUBSET Node : found' = [found EXCEPT ![n] = Recorded(n, part)]
  /\ UNCHANGED tries

\* A search notices the cancel between two of its queries.
Interrupted(n) ==
  /\ worker[n] = "working" /\ cancelled /\ Becomes(n, "raised")
  /\ UNCHANGED <<tries, found>>

Work(n) == Begin(n) \/ Succeed(n) \/ Retry(n) \/ Skip(n) \/ Interrupted(n)

-----------------------------------------------------------------------------
Running == phase \notin {"done", "cancelled"}
Environment == UNCHANGED <<control, worker, tries, found, disc>>
Cancel ==
  Running /\ ~cancelled /\ cancelled' = TRUE /\ UNCHANGED <<full, met>> /\ Environment
Meet == Running /\ ~met /\ met' = TRUE /\ UNCHANGED <<full, cancelled>> /\ Environment
Fill == Running /\ ~full /\ full' = TRUE /\ UNCHANGED <<cancelled, met>> /\ Environment

Control ==
  \/ Abort \/ StartHop \/ StopBeforeHop \/ Unwind \/ HopDone \/ Offer
  \/ EndWalk \/ Rank \/ Prune \/ Retype
  \/ \E n \in Node : Collect(n) \/ CollectRaised(n)

ExpansionNext == Control \/ (\E n \in Node : Work(n)) \/ Cancel \/ Meet \/ Fill

\* The controlling thread and the pool's threads are scheduled; every search
\* ends, as its requests have timeouts.  The environment owes nothing.
ExpansionSpec ==
  /\ ExpansionInit /\ [][ExpansionNext]_walkVars
  /\ WF_walkVars(Control) /\ \A n \in Node : WF_walkVars(Work(n))

-----------------------------------------------------------------------------
\* A node's attempts and the hop stay in range, at most Workers nodes are
\* searched at once, and the frontier was not searched before.
WalkBounds ==
  /\ hop \in 0..Depth - 1 /\ \A n \in Node : tries[n] <= Attempts
  /\ Cardinality(Busy) <= Workers
  /\ HopNodes \subseteq visited /\ frontier \subseteq Node
  /\ phase = "hop" => frontier \cap visited = {}

\* The walk keeps its books: it stays in its bounds, and what is merged is
\* what the merged nodes found, added up, whatever order they came in.
ExpansionTypeOK ==
  /\ WalkBounds
  /\ phase = "hop" => Cardinality(frontier) <= Max({1, TopN})
  /\ \A p \in Node :
       disc[p] = MapThenSumSet(LAMBDA n : found[n][p],
                               {n \in HopNodes : worker[n] = "merged" /\ n \notin shallow})

\* A build leaves no thread behind: when the call has ended, however it
\* ended, none of its nodes is being searched or still waits to be.
NoOrphans == ~Running => \A n \in Node : worker[n] \notin {"queued", "working", "again"}

\* A cancel before the last question ends the call as cancelled, although
\* several handlers on the way swallow exceptions; and every call ends.
CancelWins == cancelled /\ phase # "done" ~> phase = "cancelled"
WalkEnds == <>(phase \in {"done", "cancelled"})

\* Every hop that was worked off asks the far endpoint's question of what it
\* turned up "before any of the exits below can end the walk".
EveryHopOffers ==
  [][phase = "work" /\ phase' \in {"rank", "prune"}
     => \A p \in Node : p \notin Expandable]_walkVars
=============================================================================
