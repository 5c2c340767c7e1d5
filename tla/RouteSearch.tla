---------------------------- MODULE RouteSearch ----------------------------
(***************************************************************************)
(* Three searches over the persisted graph of relationship edges:          *)
(*   connect   graph/connect.py: up to Wanted routes between two people,   *)
(*             each around the bridges of those before it;                 *)
(*   paths     network/paths.py: one route from a matched contact;         *)
(*   discover  graph/connect.py: everyone within a number of hops.         *)
(* All three take the cheapest partial path from a heap and extend it by   *)
(* one edge, under a limit on the number of hops.  They differ in what     *)
(* they remember of the nodes they reached and in which edges they walk.   *)
(*                                                                         *)
(* A behaviour picks a graph and a search and runs it.  Confidences and    *)
(* costs are small integers in place of logarithms; entries of equal cost  *)
(* and length leave the heap in any order.                                 *)
(***************************************************************************)
EXTENDS Integers, Sequences, FiniteSets

CONSTANTS Person, From, To,
          Pairs,        \* the pairs of people that may share edges
          RowSets,      \* what edges such a pair may have
          Name,         \* the normalized name of a person
          OrgNames,     \* which of these names organizations may have, too
          Owner,        \* whose uploaded contact a person is, if anyone's
          Modes, MaxHops, Wanted,
          Surcharge, Famous, Fame, HubDegree, Hub

ASSUME RouteSearchAssumption ==
  /\ {From, To} \subseteq Person /\ From # To
  /\ Pairs \subseteq {{p, q} : p, q \in Person}
  /\ Modes \subseteq {"connect", "paths", "discover"}
  /\ MaxHops \in Nat \ {0} /\ Wanted \in Nat \ {0}
  /\ \A p \in Person : Owner[p] \in {"none", "caller", "other"}
  /\ \A R \in RowSets : IsFiniteSet(R) /\ \A r \in R : {r.confidence, r.cost} \subseteq Nat
  /\ {Surcharge, Fame, HubDegree, Hub} \subseteq Nat

VARIABLES mode, rows, org,    \* the search and the graph, which do not change
          heap,               \* partial paths with their costs
          memo,               \* the cheapest cost each state was reached at
          excluded,           \* people no further route may run through
          routes, done

routeVars == <<mode, rows, org, heap, memo, excluded, routes, done>>

Node(e) == e.path[Len(e.path)]
HopsOf(e) == Len(e.path) - 1
Bridges(path) == {path[i] : i \in 2..Len(path) - 1}

-----------------------------------------------------------------------------
Untraversable(r) ==
  \/ r.status = "rejected"
  \/ r.type = "unknown" /\ ~r.cooccurs /\ ~r.keyword

\* The claim "I know this person" holds for whoever uploaded it: between the
\* caller and people who are nobody else's contacts.  A caller who does not
\* say who they are, as discover's, is nobody's owner.
OwnContact(pair, r) ==
  r.type = "linkedin_1st" =>
    \A p \in pair : IF mode = "connect" THEN p = From \/ Owner[p] # "other"
                                        ELSE Owner[p] = "none"

Walkable(pair) ==
  {r \in rows[pair] :
     IF mode = "paths" THEN r.status # "rejected"
                       ELSE ~Untraversable(r) /\ OwnContact(pair, r)}

\* One edge per pair, the most confident.
Best(pair) ==
  CHOOSE r \in Walkable(pair) : \A s \in Walkable(pair) : r.confidence >= s.confidence

Neighbours(p) == {q \in Person \ {p} : {p, q} \in Pairs /\ Walkable({p, q}) # {}}

NodePenalty(p) ==
  (IF p \in Famous THEN Fame ELSE 0)
    + (IF Cardinality(Neighbours(p)) > HubDegree THEN Hub ELSE 0)

\* Routing through a person costs, arriving at the target does not; discover
\* has no target.
StepCost(p, q) ==
  Best({p, q}).cost
    + (IF mode = "discover" THEN NodePenalty(q)
       ELSE IF q = To THEN 0 ELSE Surcharge + NodePenalty(q))

-----------------------------------------------------------------------------
\* Bug: reaching a person cheaply but late blocks reaching them early.
KeyByNode(p, h) == <<p, 0>>

\* What is remembered: the node and its distance, or the node alone.
Key(p, h) == IF mode = "connect" THEN <<p, h>> ELSE <<p, 0>>

KeyOf(e) == Key(Node(e), HopsOf(e))
Improves(e) == KeyOf(e) \notin DOMAIN memo \/ e.cost < memo[KeyOf(e)]

Start == [cost |-> 0, path |-> <<From>>]
AtStart == [k \in {<<From, 0>>} |-> 0]

\* People whose name an organization has; they may or may not be people.
OrgShaped(names) == {p \in Person : Name[p] \in names}

RouteInit ==
  /\ mode \in Modes /\ rows \in [Pairs -> RowSets]
  /\ org \in {OrgShaped(names) : names \in OrgNames}
  /\ heap = {Start} /\ memo = AtStart
  /\ excluded = org
  /\ routes = <<>> /\ done = FALSE

Cheapest(e) ==
  /\ e \in heap
  /\ \A f \in heap : e.cost < f.cost \/ (e.cost = f.cost /\ HopsOf(e) <= HopsOf(f))

Arrived(e) == mode # "discover" /\ Node(e) = To
Spent(e) ==
  \/ mode = "discover" /\ e.cost > memo[Key(Node(e), 0)]
  \/ HopsOf(e) >= MaxHops

Extensions(e) ==
  {[cost |-> e.cost + StepCost(Node(e), q), path |-> Append(e.path, q)] :
     q \in {n \in Neighbours(Node(e)) :
              mode = "connect" => n \notin excluded \/ n = To}}
Kept(e) == {x \in Extensions(e) : Improves(x)}

Extend(e) ==
  /\ ~done /\ Cheapest(e) /\ ~Arrived(e) /\ ~Spent(e)
  /\ heap' = (heap \ {e}) \cup Kept(e)
  /\ LET Reached(k) == {x \in Kept(e) : KeyOf(x) = k}
     IN memo' = [k \in DOMAIN memo \cup {KeyOf(x) : x \in Kept(e)} |->
                   IF Reached(k) = {} THEN memo[k]
                                      ELSE (CHOOSE x \in Reached(k) : TRUE).cost]
  /\ UNCHANGED <<mode, rows, org, excluded, routes, done>>

Discard(e) ==
  /\ ~done /\ Cheapest(e) /\ ~Arrived(e) /\ Spent(e)
  /\ heap' = heap \ {e}
  /\ UNCHANGED <<mode, rows, org, memo, excluded, routes, done>>

\* A route is found; connect looks for the next one from the start.
Arrive(e) ==
  /\ ~done /\ Cheapest(e) /\ Arrived(e)
  /\ routes' = Append(routes, e.path)
  /\ done' = (mode = "paths" \/ Len(routes') = Wanted)
  /\ excluded' = excluded \cup Bridges(e.path)
  /\ heap' = {Start} /\ memo' = AtStart
  /\ UNCHANGED <<mode, rows, org>>

Exhausted ==
  /\ ~done /\ heap = {}
  /\ done' = TRUE
  /\ UNCHANGED <<mode, rows, org, heap, memo, excluded, routes>>

RouteNext == Exhausted \/ \E e \in heap : Extend(e) \/ Discard(e) \/ Arrive(e)
RouteSpec == RouteInit /\ [][RouteNext]_routeVars

-----------------------------------------------------------------------------
\* Bug: the walk also passes through organizations.
RouteExistsThroughAnyone ==
  LET Wave[h \in 0..MaxHops] ==
        IF h = 0 THEN {From}
        ELSE Wave[h - 1] \cup UNION {Neighbours(p) : p \in Wave[h - 1]}
  IN To \in Wave[MaxHops]

\* _route_exists: the cheap test by which connect skips the paid search, a
\* walk outwards by whole hops that does not pass through organizations.
RouteExists ==
  LET Wave[h \in 0..MaxHops] ==
        IF h = 0 THEN {From}
        ELSE LET next == UNION {Neighbours(p) : p \in Wave[h - 1] \ {To}}
             IN Wave[h - 1] \cup (next \ (org \ {From, To}))
  IN To \in Wave[MaxHops]

-----------------------------------------------------------------------------
(* The reference: paths without repeated people.                           *)
SimplePaths(t) ==
  {s \in UNION {[1..n -> Person] : n \in 2..MaxHops + 1} :
     /\ s[1] = From /\ s[Len(s)] = t
     /\ \A i, j \in DOMAIN s : s[i] = s[j] => i = j
     /\ \A i \in 1..Len(s) - 1 : s[i + 1] \in Neighbours(s[i])
     /\ mode = "connect" => Bridges(s) \cap org = {}}
Cost(s) ==
  LET upTo[n \in 1..Len(s)] ==
        IF n = 1 THEN 0 ELSE upTo[n - 1] + StepCost(s[n - 1], s[n])
  IN upTo[Len(s)]

\* The routes that are left after the first n.
Left(n) == {s \in SimplePaths(To) : \A i \in 1..n : Bridges(s) \cap Bridges(routes[i]) = {}}

\* A state of a search is in range and its books agree: what lies in the heap
\* was remembered at no more than its cost.
RouteTypeOK ==
  /\ \A e \in heap : /\ e.cost \in Nat /\ e.path \in Seq(Person)
                     /\ HopsOf(e) <= MaxHops
                     /\ memo[KeyOf(e)] <= e.cost
  /\ org \subseteq excluded /\ excluded \subseteq Person
  /\ Len(routes) <= Wanted

\* Each route of connect is a path of the graph, runs through nobody twice and
\* through no organization, and is the cheapest there is within the limit that
\* shares no bridge with the routes before it; and another one comes whenever
\* there is any (_best_path, _diverse_paths; the memo keyed by node and hops).
CheapestRoutes ==
  done /\ mode = "connect" =>
    /\ \A n \in DOMAIN routes :
         /\ routes[n] \in Left(n - 1)
         /\ \A s \in Left(n - 1) : Cost(routes[n]) <= Cost(s)
    /\ Len(routes) < Wanted => Left(Len(routes)) = {}

\* The test that skips the paid search agrees with the search that follows:
\* it is true exactly if a route comes out (_route_exists, _adjacency).
ExistenceAgrees == done /\ mode = "connect" => (RouteExists <=> routes # <<>>)

\* "Everyone reachable from `name` within `depth` hops" (discover_person).
WithinReach ==
  done /\ mode = "discover" =>
    \A p \in Person \ {From} : SimplePaths(p) # {} => <<p, 0>> \in DOMAIN memo

\* "Up to k routes; each avoids all bridge (intermediate) nodes used by the
\* earlier ones, so they're genuinely different" (_diverse_paths).
GenuinelyDifferent ==
  mode = "connect" => \A i, j \in DOMAIN routes : i # j => routes[i] # routes[j]
=============================================================================
