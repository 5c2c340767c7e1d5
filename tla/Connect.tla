------------------------------ MODULE Connect ------------------------------
(***************************************************************************)
(* One connect build (connect_people in src/app/graph/connect.py) in a     *)
(* graph that other builds and an operator change at the same time.  The   *)
(* build is a cascade: is a route known; a search for the pair; guessed    *)
(* intermediaries; the origin's own network; and, if none of these found   *)
(* a route, the expansion of both endpoints and of the operator's contacts *)
(* in three threads, which stop as soon as a route exists.  The routes are *)
(* then scored and verified; if every route that made it skip the          *)
(* expansion is disproved, it resumes once; at the very end a model may    *)
(* name people to look at.                                                 *)
(*                                                                         *)
(* A way stands for a possible route.  It is hidden until some page that   *)
(* states it is read, open while it can be walked, closed when a hop of it *)
(* was rejected, gone when a person on it was pruned.  Expansion and       *)
(* RouteSearch model what one front and one scoring do inside.             *)
(***************************************************************************)
EXTENDS Integers, FiniteSets, PairSearch

CONSTANTS Genuine,         \* the ways that the evidence supports
          Known,           \* the ways an earlier build may have left open
          GuessWays, FrontWays,    \* what these stages may find
          OriginUploads,   \* the origin is who uploaded the contacts
          ContactWays, CliqueWays, \* what may run through those, as own or as coworkers
          Depth,           \* the hops asked for
          Notable,         \* the endpoints, "a" or "b", that are public figures
          Contacts, MaxContacts,  \* the operator's contacts with a context; how many to try
          MaxGuesses,      \* intermediaries proposed
          MaxShown         \* CONNECT_MAX_PATHS

ASSUME ConnectAssumption ==
  /\ IsFiniteSet(Way) /\ Genuine \subseteq Way
  /\ {Known, GuessWays, ContactWays, CliqueWays, FrontWays} \subseteq SUBSET Way
  /\ Notable \subseteq {"a", "b"} /\ OriginUploads \in BOOLEAN
  /\ {Depth, Contacts, MaxContacts, MaxGuesses} \subseteq Nat /\ MaxShown \in Nat \ {0}

VARIABLES stage,       \* where connect_people is
          way, verdict,           \* the graph: state and stored verdict of a way
          routeFound,             \* the event route_found
          front, left,            \* the fronts; the hops or contacts they still have to do
          guesses,
          candidates, kept,       \* the routes of this scoring, and those verified
          everCandidate,          \* n_candidates > 0 in some scoring
          verified, loaded,       \* this scoring verifies; the verdicts it has loaded
          expanded,               \* expand_stats is not None
          resumed, adjudicated,
          cancelled,
          paid, withdrawn,        \* history: a search was made; a way was taken away;
          late                    \* the routes rejected since this scoring loaded them

graph == <<way, verdict, withdrawn, late>>
scoring == <<candidates, kept, verified, loaded>>
flow == <<resumed, adjudicated, expanded, everCandidate>>
vars == <<stage, graph, routeFound, front, left, guesses, scoring, flow, cancelled, paid>>

Front == {"a", "b", "bridge"}
Ends == {"connected", "none", "missing", "cancelled", "failed"}
Open == {w \in Way : way[w] = "open"}

\* _route_exists, the test without verification.
RouteOpen == Open # {}

\* How many intermediaries a model may propose; none that cannot be searched
\* as a person, and no endpoint.
propose == 0..MaxGuesses

\* A way that an earlier build left, with its verdict; one it rejected may be
\* open again.
Past == {<<"hidden", "none">>, <<"open", "none">>, <<"open", "genuine">>,
         <<"open", "rejected">>, <<"closed", "rejected">>}

ConnectInit ==
  /\ stage = "known"
  /\ \E past \in [Known -> Past] :
       /\ way = [w \in Way |-> IF w \in Known THEN past[w][1] ELSE "hidden"]
       /\ verdict = [w \in Way |-> IF w \in Known THEN past[w][2] ELSE "none"]
  /\ routeFound = FALSE
  /\ front = [f \in Front |-> "idle"] /\ left = [f \in Front |-> 0]
  /\ guesses \in propose
  /\ candidates = {} /\ kept = {} /\ everCandidate = FALSE /\ verified = FALSE
  /\ loaded = [w \in Way |-> "none"]
  /\ expanded = FALSE /\ resumed = FALSE /\ adjudicated = FALSE
  /\ cancelled = FALSE /\ paid = FALSE /\ withdrawn = FALSE /\ late = {}

-----------------------------------------------------------------------------
\* A page is read: ways of the set may be stated on it, also ways that were
\* rejected before, whose status is then derived anew from the confidence.
Learn(ways) ==
  /\ \E S \in SUBSET {w \in ways : way[w] \in {"hidden", "closed"}} :
       way' = [w \in Way |-> IF w \in S THEN "open" ELSE way[w]]
  /\ UNCHANGED <<verdict, withdrawn, late>>

At(s) == stage = s /\ ~cancelled
Pay == paid' = TRUE

Quiet == UNCHANGED <<front, left, scoring, flow, cancelled>>

\* Every stage asks first whether it was cancelled, and the exception ends
\* the build.  While fronts are at work they are the ones that ask.
NoticeCancel ==
  /\ cancelled /\ stage \notin Ends \cup {"wait"}
  /\ stage' = "cancelled"
  /\ UNCHANGED <<graph, routeFound, guesses, paid>> /\ Quiet

\* [known]: an open route costs nothing.
CheckKnown ==
  /\ At("known")
  /\ routeFound' = RouteOpen
  /\ stage' = IF RouteOpen THEN "score" ELSE "direct"
  /\ UNCHANGED <<graph, guesses, paid>> /\ Quiet

\* [direct]: only a confident mention that the pathfinder can walk counts.
SearchPair ==
  /\ At("direct") /\ Pay
  /\ \E answer \in PairAnswers :
       Learn(answer.ways) /\ routeFound' = (answer.confident /\ RouteOpen')
  /\ stage' = IF routeFound' THEN "score" ELSE IF resumed THEN "expand" ELSE "guess"
  /\ UNCHANGED guesses /\ Quiet

\* [bridge]: each proposal costs two searches.
Guess ==
  /\ At("guess") /\ guesses > 0 /\ Learn(GuessWays) /\ Pay
  /\ guesses' = guesses - 1
  /\ routeFound' = RouteOpen'
  /\ stage' = IF routeFound' THEN "score" ELSE stage
  /\ Quiet
NoMoreGuesses ==
  /\ At("guess") /\ guesses = 0 /\ stage' = "origin"
  /\ UNCHANGED <<graph, routeFound, guesses, paid>> /\ Quiet

\* Only who uploaded the contacts knows them all; that they work together
\* says nothing of the origin.
Derived == CliqueWays \cup IF OriginUploads THEN ContactWays ELSE {}

\* [origin]: derived from uploaded contacts; an error leaves it at what was
\* committed before.
EnrichOrigin ==
  /\ At("origin") /\ Learn(Derived)
  /\ routeFound' = RouteOpen'
  /\ stage' = IF routeFound' THEN "score" ELSE "expand"
  /\ UNCHANGED <<guesses, paid>> /\ Quiet

Far(f) == IF f = "a" THEN "b" ELSE "a"

\* _resolve_expansion_depths: a public figure's own circle is enough, if the
\* other is none; the other then walks a hop more at depth 3.  Who is notable
\* may not be known.
Hops(f, notable) ==
  IF (f \in notable) = (Far(f) \in notable) THEN Depth
  ELSE IF f \in notable THEN (IF Depth = 0 THEN 0 ELSE 1)
  ELSE IF Depth = 3 THEN Depth + 1 ELSE Depth

\* _bridge_contacts: those ranked best, unless the ranking fails; a strategy
\* only changes their order.
BridgeContacts == {0, IF Contacts < MaxContacts THEN Contacts ELSE MaxContacts}

\* _expand_both_concurrently starts its threads, without a bridge front if
\* there is no contact for it.
StartFronts ==
  /\ At("expand") /\ stage' = "wait"
  /\ \E notable \in {Notable, {}}, contacts \in BridgeContacts :
       /\ left' = [f \in Front |-> IF f = "bridge" THEN contacts ELSE Hops(f, notable)]
       /\ front' = [f \in Front |-> IF f = "bridge" /\ contacts = 0
                                    THEN "finished" ELSE "working"]
  /\ UNCHANGED <<graph, routeFound, guesses, scoring, flow, cancelled, paid>>

\* It waits for all of them, then passes on the failure of an endpoint.
Join ==
  /\ stage = "wait" /\ \A f \in Front : front[f] \in {"finished", "failed"}
  /\ IF \E f \in {"a", "b"} : front[f] = "failed"
     THEN stage' = (IF cancelled THEN "cancelled" ELSE "failed") /\ UNCHANGED expanded
     ELSE stage' = "score" /\ expanded' = TRUE
  /\ UNCHANGED <<graph, routeFound, front, left, guesses, scoring, resumed,
                 adjudicated, everCandidate, cancelled, paid>>

-----------------------------------------------------------------------------
(* The fronts.  A cancel or an error ends an endpoint's expansion; in the  *)
(* bridge front it only ends the contact, and the next one asks again.     *)

Ending(f, s) ==
  /\ front' = [front EXCEPT ![f] = s]
  /\ UNCHANGED <<stage, guesses, scoring, flow, cancelled>>

Halt(f) ==
  /\ front[f] = "working" /\ (cancelled \/ left[f] = 0)
  /\ Ending(f, IF cancelled /\ f # "bridge" THEN "failed" ELSE "finished")
  /\ UNCHANGED <<graph, routeFound, left, paid>>

\* should_stop, before a node: the event, or a look at the graph.
StopFront(f) ==
  /\ front[f] = "working" /\ ~cancelled /\ (routeFound \/ RouteOpen)
  /\ routeFound' = TRUE
  /\ Ending(f, "finished")
  /\ UNCHANGED <<graph, left, paid>>

\* The prober of an endpoint's front asks of the people a hop turned up
\* whether they reach the far endpoint, if that is a public figure.
Probed(f) == IF f # "bridge" /\ Far(f) \in Notable THEN PairWays ELSE {}

\* A hop of an endpoint's expansion, or one contact.
SearchHop(f) ==
  /\ front[f] = "working" /\ ~cancelled /\ ~routeFound /\ ~RouteOpen /\ left[f] > 0
  /\ Learn(FrontWays \cup Probed(f)) /\ Pay
  /\ left' = [left EXCEPT ![f] = @ - 1]
  /\ Ending(f, "working") /\ UNCHANGED routeFound

FrontFails(f) ==
  /\ front[f] = "working" /\ left[f] > 0
  /\ left' = [left EXCEPT ![f] = @ - 1]
  /\ Ending(f, IF f = "bridge" THEN "working" ELSE "failed")
  /\ UNCHANGED <<graph, routeFound, paid>>

FrontStep(f) == Halt(f) \/ StopFront(f) \/ SearchHop(f) \/ FrontFails(f)

-----------------------------------------------------------------------------
(* Scoring: the diverse routes of the graph as it is now, each verified.   *)

Decided(s) ==
  /\ stage' = s
  /\ UNCHANGED <<way, verdict, withdrawn, routeFound, front, left, guesses, cancelled,
                 paid, resumed, adjudicated, expanded>>

\* An endpoint may have no row at all if nothing about it was ever stored.
Missing ==
  /\ At("score") /\ ~RouteOpen /\ ~resumed /\ ~adjudicated /\ Decided("missing")
  /\ UNCHANGED <<scoring, everCandidate, late>>

\* The session forgets what it has mapped and loads the graph as it is now.
LoadGraph == loaded' = verdict /\ late' = {}

\* Bug: the routes are counted after their verification.
ScoreForgets ==
  /\ At("score") /\ Decided("verify") /\ LoadGraph
  /\ \E S \in SUBSET Open :
       (S = {}) = (Open = {}) /\ Cardinality(S) <= MaxShown /\ candidates' = S
  /\ kept' = {} /\ verified' \in BOOLEAN /\ UNCHANGED everCandidate

Score ==
  /\ At("score") /\ Decided("verify") /\ LoadGraph
  /\ \E S \in SUBSET Open :
       /\ (S = {}) = (Open = {}) /\ Cardinality(S) <= MaxShown
       /\ candidates' = S
       /\ everCandidate' = (everCandidate \/ S # {})
  /\ kept' = {} /\ verified' \in BOOLEAN

Judging(w) ==
  /\ At("verify") /\ w \in candidates
  /\ candidates' = candidates \ {w}
  /\ UNCHANGED <<routeFound, front, left, guesses, verified, loaded, flow, cancelled,
                 paid, withdrawn, late>>

\* The model judges the evidence; a rejection also changes the status.
Ask(w) ==
  /\ verdict' = [verdict EXCEPT ![w] = IF w \in Genuine THEN "genuine" ELSE "rejected"]
  /\ way' = [way EXCEPT ![w] = IF w \notin Genuine /\ @ = "open" THEN "closed" ELSE @]
  /\ kept' = IF w \in Genuine THEN kept \cup {w} ELSE kept

\* Bug: that a verdict is stored is taken for the verdict.
VerifyStored(w) ==
  /\ Judging(w) /\ UNCHANGED stage
  /\ \/ kept' = kept \cup {w} /\ UNCHANGED <<way, verdict>>
     \/ verified /\ loaded[w] = "none" /\ way[w] # "gone" /\ Ask(w)

\* _verified_routes.  A verdict that was loaded stands, whatever the row says
\* by now; otherwise the model is asked, or cannot be, and the route stays.
Verify(w) ==
  /\ Judging(w) /\ UNCHANGED stage
  /\ \/ /\ (loaded[w] # "rejected" \/ ~verified)
        /\ kept' = kept \cup {w} /\ UNCHANGED <<way, verdict>>
     \/ verified /\ loaded[w] = "rejected" /\ UNCHANGED <<way, verdict, kept>>
     \/ verified /\ loaded[w] = "none" /\ way[w] # "gone" /\ Ask(w)

\* The verdict cannot be stored, as the row was pruned meanwhile.
VerifyFails(w) ==
  /\ Judging(w) /\ verified /\ loaded[w] = "none" /\ way[w] = "gone"
  /\ stage' = "failed" /\ UNCHANGED <<way, verdict, kept>>

Judged == At("verify") /\ candidates = {}

\* Bug: the resume is bounded only by the rejections it has stored.
MayResumeAgain == kept = {} /\ everCandidate /\ verified /\ ~expanded /\ ~adjudicated

\* The shortcut was disproved and nothing was expanded; asked once, before
\* the adjudication.
MayResume ==
  kept = {} /\ everCandidate /\ verified /\ ~expanded /\ ~resumed /\ ~adjudicated

Resume ==
  /\ Judged /\ MayResume
  /\ resumed' = TRUE /\ routeFound' = FALSE /\ stage' = "direct"
  /\ UNCHANGED <<graph, front, left, guesses, scoring, adjudicated, expanded,
                 everCandidate, cancelled, paid>>

\* The adjudicator chooses, from the people shown to it, pairs to search and
\* people to expand.
AdjudicatedWays == PairWays \cup FrontWays

\* What it names is searched, errors are swallowed, and the graph is scored
\* again.
Adjudicate ==
  /\ Judged /\ kept = {} /\ ~MayResume /\ ~adjudicated
  /\ Learn(AdjudicatedWays) /\ Pay
  /\ adjudicated' = TRUE /\ stage' = "score"
  /\ UNCHANGED <<routeFound, front, left, guesses, scoring, resumed, expanded,
                 everCandidate, cancelled>>

Answer ==
  /\ stage = "verify" /\ candidates = {} /\ ~MayResume
  /\ IF kept = {} THEN Decided("none") ELSE ~cancelled /\ Decided("connected")
  /\ UNCHANGED <<scoring, everCandidate, late>>

-----------------------------------------------------------------------------
(* The environment: a user cancels; other builds reject, prune and find;   *)
(* an operator rejects.                                                    *)

Elsewhere == UNCHANGED <<stage, routeFound, front, left, guesses, scoring, flow, paid>>

Cancel ==
  /\ stage \notin Ends /\ ~cancelled /\ cancelled' = TRUE
  /\ UNCHANGED graph /\ Elsewhere

WithdrawWay(w) ==
  /\ stage \notin Ends /\ way[w] = "open"
  /\ withdrawn' = TRUE
  /\ \/ /\ way' = [way EXCEPT ![w] = "closed"]
        /\ verdict' = [verdict EXCEPT ![w] = "rejected"]
        /\ late' = late \cup ({w} \cap (candidates \cup kept))
     \/ way' = [way EXCEPT ![w] = "gone"] /\ UNCHANGED <<verdict, late>>
  /\ UNCHANGED cancelled /\ Elsewhere

FindElsewhere(w) ==
  /\ stage \notin Ends /\ way[w] = "hidden"
  /\ way' = [way EXCEPT ![w] = "open"]
  /\ UNCHANGED <<verdict, withdrawn, late, cancelled>> /\ Elsewhere

Main ==
  \/ NoticeCancel \/ CheckKnown \/ SearchPair \/ Guess \/ NoMoreGuesses
  \/ EnrichOrigin \/ StartFronts \/ Join \/ Missing \/ Score \/ Resume
  \/ Adjudicate \/ Answer \/ \E w \in Way : Verify(w) \/ VerifyFails(w)

ConnectNext ==
  \/ Main \/ Cancel
  \/ \E f \in Front : FrontStep(f)
  \/ \E w \in Way : WithdrawWay(w) \/ FindElsewhere(w)

\* The build's thread and its fronts are scheduled and every search ends.
ConnectSpec ==
  /\ ConnectInit /\ [][ConnectNext]_vars
  /\ WF_vars(Main) /\ \A f \in Front : WF_vars(FrontStep(f))

-----------------------------------------------------------------------------
\* The build's variables agree: fronts work only while it waits for them, or
\* had to leave them idle, and a scoring keeps no more than it may show.
ConnectTypeOK ==
  /\ front \in [Front -> {"idle", "working", "finished", "failed"}]
  /\ left \in [Front -> Nat] /\ guesses \in 0..MaxGuesses
  /\ stage \notin {"wait"} => \A f \in Front : front[f] # "working"
  /\ expanded => \A f \in Front : front[f] # "idle"
  /\ candidates \cap kept = {} /\ Cardinality(candidates \cup kept) <= MaxShown

\* A shortcut that proves false does not pass for a search: a build that
\* says "no route" after verifying has searched, unless the routes it had
\* relied on were taken away by somebody else before it could score them.
NoBlindNo == stage = "none" /\ verified /\ ~withdrawn => paid

\* A verified route that is shown was neither disproved by this build nor
\* rejected by another build or an operator before this scoring loaded it, even
\* if a page has opened it again.  Only who rejects it between that load and the
\* answer comes too late.
ShowsNothingDisproved ==
  stage = "connected" /\ verified => \A w \in kept : verdict[w] = "rejected" => w \in late

\* A build ends, whatever is cancelled, fails or is changed under it.
BuildEnds == <>(stage \in Ends)
=============================================================================
