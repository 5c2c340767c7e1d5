--------------------------- MODULE Connect_proofs ---------------------------
(***************************************************************************)
(* The connect build and its search for routes.  Connect, for any ways,    *)
(* pages and evidence: a build that says "no" after verifying has          *)
(* searched, and a verified route that is shown was neither disproved nor  *)
(* stored as rejected when its scoring began.  RouteSearch, for any graph  *)
(* of people, limit and number of routes: the routes are the cheapest      *)
(* there are, and the free test for a route agrees with the search.        *)
(***************************************************************************)
EXTENDS Connect, RouteSearch, TLAPS, FiniteSetTheorems, WellFoundedInduction

Stages == {"known", "direct", "guess", "origin", "expand", "wait", "score",
           "verify"} \cup Ends

Typed ==
  /\ stage \in Stages
  /\ way \in [Way -> {"hidden", "open", "closed", "gone"}]
  /\ verdict \in [Way -> {"none", "genuine", "rejected"}]
  /\ routeFound \in BOOLEAN
  /\ front \in [Front -> {"idle", "working", "finished", "failed"}]
  /\ left \in [Front -> Nat] /\ guesses \in 0..MaxGuesses
  /\ candidates \in SUBSET Way /\ kept \in SUBSET Way
  /\ everCandidate \in BOOLEAN /\ verified \in BOOLEAN /\ expanded \in BOOLEAN
  /\ resumed \in BOOLEAN /\ adjudicated \in BOOLEAN
  /\ cancelled \in BOOLEAN /\ withdrawn \in BOOLEAN
  /\ loaded \in [Way -> {"none", "genuine", "rejected"}]
  /\ paid \in BOOLEAN

\* The fronts are idle until the build waits for them, and are all done when
\* it goes on.
FrontsFit ==
  /\ stage # "wait" => \A f \in Front : front[f] # "working"
  /\ stage = "wait" => \A f \in Front : front[f] # "idle"
  /\ expanded => \A f \in Front : front[f] # "idle"

\* A scoring shows no more routes than it may, each judged once.
ScoringFits ==
  /\ candidates \cap kept = {}
  /\ Cardinality(candidates \cup kept) <= MaxShown

\* A verdict is as this scoring loaded it, unless the build has changed it by
\* judging, which gives a kept route no rejection, or others have rejected it.
KeptStands ==
  stage \in {"verify", "connected"} /\ verified =>
    /\ \A w \in kept : verdict[w] = "rejected" => w \in late
    /\ \A w \in candidates : verdict[w] = "rejected" => loaded[w] = "rejected" \/ w \in late

\* What is still true of a build that has not searched: it never left the
\* shortcut, or has come back from it and is about to search.
UnpaidFits ==
  ~paid =>
    /\ stage \in {"known", "direct", "score", "verify"} \cup Ends
    /\ ~expanded /\ ~adjudicated
    /\ resumed => stage \in {"direct", "cancelled"}
    /\ stage = "score" /\ ~withdrawn => RouteOpen
    /\ stage = "verify" /\ ~withdrawn => everCandidate
    /\ stage = "none" /\ verified => withdrawn

CInv == Typed /\ FrontsFit /\ ScoringFits /\ KeptStands /\ UnpaidFits

-----------------------------------------------------------------------------
\* The constants are what the code takes them for.
LEMMA Givens ==
  /\ IsFiniteSet(Way) /\ Known \in SUBSET Way /\ propose = 0..MaxGuesses
  /\ Depth \in Nat /\ Contacts \in Nat /\ MaxContacts \in Nat /\ MaxGuesses \in Nat
  /\ MaxShown \in Nat \ {0}
BY ConnectAssumption DEF propose

LEMMA LearnType ==
  ASSUME Typed, NEW ways, Learn(ways)
  PROVE  /\ way' \in [Way -> {"hidden", "open", "closed", "gone"}]
         /\ UNCHANGED <<verdict, withdrawn, late>>
         /\ RouteOpen => RouteOpen'
<1>1. PICK S : way' = [w \in Way |-> IF w \in S THEN "open" ELSE way[w]]
  BY DEF Learn
<1>2. UNCHANGED <<verdict, withdrawn, late>> BY DEF Learn
<1>3. way' \in [Way -> {"hidden", "open", "closed", "gone"}] BY <1>1 DEF Typed
<1>4. RouteOpen => RouteOpen' BY <1>1 DEF RouteOpen, Open
<1> QED BY <1>2, <1>3, <1>4

LEMMA PayType ==
  ASSUME Typed, Pay
  PROVE  paid' = TRUE
BY DEF Pay

\* Fewer routes than may be shown still are when some are put aside.
LEMMA FewerShown ==
  ASSUME NEW S \in SUBSET Way, NEW T \in SUBSET S, Cardinality(S) <= MaxShown
  PROVE  Cardinality(T) <= MaxShown
<1>1. IsFiniteSet(S) BY Givens, FS_Subset
<1>2. /\ IsFiniteSet(T) /\ Cardinality(T) <= Cardinality(S) BY <1>1, FS_Subset
<1>3. Cardinality(S) \in Nat /\ Cardinality(T) \in Nat
  BY <1>1, <1>2, FS_CardinalityType
<1> QED BY <1>2, <1>3, Givens

LEMMA InitFits == ConnectInit => CInv
<1> SUFFICES ASSUME ConnectInit PROVE CInv
  OBVIOUS
<1> USE DEF ConnectInit
<1>1. Typed
  <2>1. /\ way \in [Way -> {"hidden", "open", "closed", "gone"}]
        /\ verdict \in [Way -> {"none", "genuine", "rejected"}]
    <3>1. PICK past \in [Known -> Past] :
            /\ way = [w \in Way |-> IF w \in Known THEN past[w][1] ELSE "hidden"]
            /\ verdict = [w \in Way |-> IF w \in Known THEN past[w][2] ELSE "none"]
      OBVIOUS
    <3>2. \A w \in Known : /\ past[w][1] \in {"hidden", "open", "closed"}
                           /\ past[w][2] \in {"none", "genuine", "rejected"}
      BY DEF Past
    <3> HIDE DEF ConnectInit
    <3> QED BY <3>1, <3>2
  <2>2. stage \in Stages BY DEF Stages
  <2>3. guesses \in 0..MaxGuesses BY DEF propose
  <2>4. /\ front \in [Front -> {"idle", "working", "finished", "failed"}]
        /\ left \in [Front -> Nat]
    OBVIOUS
  <2>5. /\ candidates = {} /\ kept = {} /\ routeFound = FALSE
        /\ everCandidate = FALSE /\ verified = FALSE /\ expanded = FALSE
        /\ resumed = FALSE /\ adjudicated = FALSE /\ cancelled = FALSE
        /\ withdrawn = FALSE /\ paid = FALSE
    OBVIOUS
  <2>6. loaded \in [Way -> {"none", "genuine", "rejected"}] OBVIOUS
  <2> HIDE DEF ConnectInit
  <2> QED BY <2>1, <2>2, <2>3, <2>4, <2>5, <2>6 DEF Typed
<1>2. FrontsFit BY DEF FrontsFit
<1>3. ScoringFits
  <2>1. candidates \cup kept = {} BY DEF ConnectInit
  <2> QED BY <2>1, FS_EmptySet, Givens DEF ScoringFits
<1>4. KeptStands BY DEF KeptStands
<1>5. UnpaidFits BY DEF UnpaidFits
<1> QED BY <1>1, <1>2, <1>3, <1>4, <1>5 DEF CInv

-----------------------------------------------------------------------------
(* The stages that search.  They leave what was scored alone.              *)

LEMMA NoticeCancelFits == CInv /\ NoticeCancel => CInv'
<1> SUFFICES ASSUME CInv, NoticeCancel PROVE CInv'
  OBVIOUS
<1> USE DEF NoticeCancel, Quiet, graph, scoring, flow, CInv
<1>1. Typed' BY DEF Typed, Stages, Ends
<1>2. FrontsFit' BY DEF FrontsFit
<1>3. ScoringFits' BY DEF ScoringFits
<1>4. KeptStands' BY DEF KeptStands
<1>5. UnpaidFits' BY DEF UnpaidFits, Ends
<1> QED BY <1>1, <1>2, <1>3, <1>4, <1>5

LEMMA CheckKnownFits == CInv /\ CheckKnown => CInv'
<1> SUFFICES ASSUME CInv, CheckKnown PROVE CInv'
  OBVIOUS
<1> USE DEF CheckKnown, At, Quiet, graph, scoring, flow, CInv
<1>1. Typed' BY DEF Typed, Stages, RouteOpen
<1>2. FrontsFit' BY DEF FrontsFit
<1>3. ScoringFits' BY DEF ScoringFits
<1>4. KeptStands' BY DEF KeptStands
<1>5. UnpaidFits' BY DEF UnpaidFits, RouteOpen, Open
<1> QED BY <1>1, <1>2, <1>3, <1>4, <1>5

\* What every paid search of the main thread shares.
LEMMA SearchFits ==
  ASSUME CInv, NEW ways, Learn(ways), paid' = TRUE,
         stage # "wait", stage' \in Stages \ {"wait", "verify", "connected"},
         routeFound' \in BOOLEAN, guesses' \in 0..MaxGuesses,
         UNCHANGED <<front, left, scoring, everCandidate,
                     expanded, resumed, cancelled>>,
         adjudicated' \in BOOLEAN
  PROVE  CInv'
<1> USE DEF CInv, scoring
<1>1. Typed' BY LearnType DEF Typed
<1>2. FrontsFit' BY DEF FrontsFit
<1>3. ScoringFits' BY DEF ScoringFits
<1>4. KeptStands' BY LearnType DEF KeptStands
<1>5. UnpaidFits' BY DEF UnpaidFits
<1> QED BY <1>1, <1>2, <1>3, <1>4, <1>5

LEMMA SearchPairFits == CInv /\ SearchPair => CInv'
<1> SUFFICES ASSUME CInv, SearchPair PROVE CInv'
  OBVIOUS
<1>1. PICK answer \in PairAnswers :
        Learn(answer.ways) /\ routeFound' = (answer.confident /\ RouteOpen')
  BY DEF SearchPair
<1>2. routeFound' \in BOOLEAN BY <1>1
<1>3. paid' = TRUE BY PayType DEF SearchPair, CInv
<1>4. /\ stage # "wait" /\ stage' \in Stages \ {"wait", "verify", "connected"}
      /\ guesses' \in 0..MaxGuesses /\ adjudicated' \in BOOLEAN
      /\ UNCHANGED <<front, left, scoring, everCandidate,
                     expanded, resumed, cancelled>>
  BY DEF SearchPair, At, Quiet, flow, Stages, CInv, Typed
<1> QED BY <1>1, <1>2, <1>3, <1>4, SearchFits

LEMMA GuessFits == CInv /\ Guess => CInv'
<1> SUFFICES ASSUME CInv, Guess PROVE CInv'
  OBVIOUS
<1>1. Learn(GuessWays) /\ routeFound' \in BOOLEAN BY DEF Guess, RouteOpen
<1>2. paid' = TRUE BY PayType DEF Guess, CInv
<1>3. guesses' \in 0..MaxGuesses BY Givens DEF Guess, CInv, Typed
<1>4. /\ stage # "wait" /\ stage' \in Stages \ {"wait", "verify", "connected"}
      /\ adjudicated' \in BOOLEAN
      /\ UNCHANGED <<front, left, scoring, everCandidate,
                     expanded, resumed, cancelled>>
  BY DEF Guess, At, Quiet, flow, Stages, CInv, Typed
<1> QED BY <1>1, <1>2, <1>3, <1>4, SearchFits

LEMMA NoMoreGuessesFits == CInv /\ NoMoreGuesses => CInv'
<1> SUFFICES ASSUME CInv, NoMoreGuesses PROVE CInv'
  OBVIOUS
<1> USE DEF NoMoreGuesses, At, Quiet, graph, scoring, flow, CInv
<1>1. Typed' BY DEF Typed, Stages
<1>2. FrontsFit' BY DEF FrontsFit
<1>3. ScoringFits' BY DEF ScoringFits
<1>4. KeptStands' BY DEF KeptStands
<1>5. UnpaidFits' BY DEF UnpaidFits, Ends
<1> QED BY <1>1, <1>2, <1>3, <1>4, <1>5

\* Reading the uploaded contacts costs nothing, but whoever comes to it has
\* searched before.
LEMMA EnrichOriginFits == CInv /\ EnrichOrigin => CInv'
<1> SUFFICES ASSUME CInv, EnrichOrigin PROVE CInv'
  OBVIOUS
<1>1. Learn(Derived) /\ routeFound' \in BOOLEAN BY DEF EnrichOrigin, RouteOpen
<1>2. paid' = TRUE
  BY DEF EnrichOrigin, At, CInv, Typed, UnpaidFits, Ends
<1>3. /\ stage # "wait" /\ stage' \in Stages \ {"wait", "verify", "connected"}
      /\ guesses' \in 0..MaxGuesses /\ adjudicated' \in BOOLEAN
      /\ UNCHANGED <<front, left, scoring, everCandidate,
                     expanded, resumed, cancelled>>
  BY DEF EnrichOrigin, At, Quiet, flow, Stages, CInv, Typed
<1> QED BY <1>1, <1>2, <1>3, SearchFits

LEMMA AdjudicateFits == CInv /\ Adjudicate => CInv'
<1> SUFFICES ASSUME CInv, Adjudicate PROVE CInv'
  OBVIOUS
<1>1. Learn(AdjudicatedWays) BY DEF Adjudicate
<1>2. paid' = TRUE BY PayType DEF Adjudicate, CInv
<1>3. /\ stage # "wait" /\ stage' \in Stages \ {"wait", "verify", "connected"}
      /\ guesses' \in 0..MaxGuesses /\ adjudicated' \in BOOLEAN
      /\ routeFound' \in BOOLEAN
      /\ UNCHANGED <<front, left, scoring, everCandidate,
                     expanded, resumed, cancelled>>
  BY DEF Adjudicate, Judged, At, Stages, CInv, Typed
<1> QED BY <1>1, <1>2, <1>3, SearchFits

-----------------------------------------------------------------------------
(* The fronts: only while the build waits for them, which it does only     *)
(* after it has searched itself.                                           *)

LEMMA StartFrontsFits == CInv /\ StartFronts => CInv'
<1> SUFFICES ASSUME CInv, StartFronts PROVE CInv'
  OBVIOUS
<1>1. PICK notable \in {Notable, {}}, contacts \in BridgeContacts :
        /\ left' = [f \in Front |-> IF f = "bridge" THEN contacts ELSE Hops(f, notable)]
        /\ front' = [f \in Front |-> IF f = "bridge" /\ contacts = 0
                                     THEN "finished" ELSE "working"]
  BY DEF StartFronts
<1>2. left' \in [Front -> Nat]
  <2>1. contacts \in Nat BY Givens DEF BridgeContacts
  <2>2. \A f \in Front : Hops(f, notable) \in Nat BY Givens DEF Hops
  <2> QED BY <1>1, <2>1, <2>2
<1>3. front' \in [Front -> {"working", "finished"}] BY <1>1
<1>4. /\ stage = "expand" /\ stage' = "wait"
      /\ UNCHANGED <<graph, routeFound, guesses, scoring, flow,
                     cancelled, paid>>
  BY DEF StartFronts, At
<1> USE DEF CInv, graph, scoring, flow
<1>5. Typed' BY <1>2, <1>3, <1>4 DEF Typed, Stages
<1>6. FrontsFit' BY <1>3, <1>4 DEF FrontsFit
<1>7. ScoringFits' BY <1>4 DEF ScoringFits
<1>8. KeptStands' BY <1>4 DEF KeptStands
<1>9. UnpaidFits' BY <1>4 DEF UnpaidFits, Ends
<1> QED BY <1>5, <1>6, <1>7, <1>8, <1>9

LEMMA JoinFits == CInv /\ Join => CInv'
<1> SUFFICES ASSUME CInv, Join PROVE CInv'
  OBVIOUS
<1> USE DEF Join, graph, scoring, CInv
<1>1. paid = TRUE BY DEF UnpaidFits, Ends
<1>2. Typed' BY DEF Typed, Stages, Ends
<1>3. FrontsFit' BY DEF FrontsFit
<1>4. ScoringFits' BY DEF ScoringFits
<1>5. KeptStands' BY DEF KeptStands
<1>6. UnpaidFits' BY <1>1 DEF UnpaidFits
<1> QED BY <1>2, <1>3, <1>4, <1>5, <1>6

LEMMA FrontMoves ==
  ASSUME CInv, NEW f \in Front, front[f] = "working",
         NEW s \in {"working", "finished", "failed"}, Ending(f, s),
         left' \in [Front -> Nat], routeFound' \in BOOLEAN,
         paid' \in BOOLEAN, paid => paid',
         UNCHANGED graph \/ \E ways : Learn(ways)
  PROVE  CInv'
<1>1. stage = "wait" BY DEF CInv, FrontsFit
<1>2. paid' = TRUE BY <1>1 DEF CInv, UnpaidFits, Ends, Typed
<1>3. /\ way' \in [Way -> {"hidden", "open", "closed", "gone"}]
      /\ UNCHANGED <<verdict, withdrawn, late>>
  <2>1. CASE UNCHANGED graph BY <2>1 DEF graph, CInv, Typed
  <2>2. CASE \E ways : Learn(ways) BY <2>2, LearnType DEF CInv
  <2> QED BY <2>1, <2>2
<1>4. front' = [front EXCEPT ![f] = s]
      /\ UNCHANGED <<stage, guesses, scoring, flow, cancelled>>
  BY DEF Ending
<1> USE DEF CInv, scoring, flow
<1>5. Typed' BY <1>3, <1>4 DEF Typed
<1>6. FrontsFit' BY <1>1, <1>4 DEF FrontsFit, Typed
<1>7. ScoringFits' BY <1>4 DEF ScoringFits
<1>8. KeptStands' BY <1>1, <1>4 DEF KeptStands
<1>9. UnpaidFits' BY <1>2 DEF UnpaidFits
<1> QED BY <1>5, <1>6, <1>7, <1>8, <1>9

LEMMA FrontStepFits == ASSUME CInv, NEW f \in Front, FrontStep(f) PROVE CInv'
<1>0. /\ left \in [Front -> Nat] /\ routeFound \in BOOLEAN /\ paid \in BOOLEAN
  BY DEF CInv, Typed
<1>1. ASSUME Halt(f) PROVE CInv'
  <2>1. left' = left /\ routeFound' = routeFound /\ paid' = paid /\ UNCHANGED graph
    BY <1>1 DEF Halt
  <2>2. PICK s \in {"working", "finished", "failed"} : Ending(f, s)
    BY <1>1 DEF Halt
  <2> QED BY <1>0, <1>1, <2>1, <2>2, FrontMoves DEF Halt
<1>2. ASSUME StopFront(f) PROVE CInv'
  <2>1. left' = left /\ routeFound' \in BOOLEAN /\ paid' = paid /\ UNCHANGED graph
    BY <1>2 DEF StopFront
  <2> QED BY <1>0, <1>2, <2>1, FrontMoves DEF StopFront
<1>3. ASSUME SearchHop(f) PROVE CInv'
  <2>1. left' \in [Front -> Nat] BY <1>0, <1>3 DEF SearchHop
  <2>2. paid' \in BOOLEAN /\ (paid => paid') BY <1>0, <1>3 DEF SearchHop, Pay
  <2>3. Learn(FrontWays \cup Probed(f)) /\ routeFound' = routeFound
    BY <1>3 DEF SearchHop
  <2> QED BY <1>0, <1>3, <2>1, <2>2, <2>3, FrontMoves DEF SearchHop
<1>4. ASSUME FrontFails(f) PROVE CInv'
  <2>1. left' \in [Front -> Nat] BY <1>0, <1>4 DEF FrontFails
  <2>2. routeFound' = routeFound /\ paid' = paid /\ UNCHANGED graph
    BY <1>4 DEF FrontFails
  <2>3. PICK s \in {"working", "finished", "failed"} : Ending(f, s)
    BY <1>4 DEF FrontFails
  <2> QED BY <1>0, <1>4, <2>1, <2>2, <2>3, FrontMoves DEF FrontFails
<1> QED BY <1>1, <1>2, <1>3, <1>4 DEF FrontStep

-----------------------------------------------------------------------------
(* Scoring, verifying and answering.                                       *)

LEMMA MissingFits == CInv /\ Missing => CInv'
<1> SUFFICES ASSUME CInv, Missing PROVE CInv'
  OBVIOUS
<1> USE DEF Missing, Decided, At, graph, scoring, CInv
<1>1. Typed' BY DEF Typed, Stages, Ends
<1>2. FrontsFit' BY DEF FrontsFit
<1>3. ScoringFits' BY DEF ScoringFits
<1>4. KeptStands' BY DEF KeptStands
<1>5. UnpaidFits' BY DEF UnpaidFits, Ends
<1> QED BY <1>1, <1>2, <1>3, <1>4, <1>5

LEMMA ScoreFits == CInv /\ Score => CInv'
<1> SUFFICES ASSUME CInv, Score PROVE CInv'
  OBVIOUS
<1>1. PICK S \in SUBSET Open :
        /\ (S = {}) = (Open = {}) /\ Cardinality(S) <= MaxShown
        /\ candidates' = S
        /\ everCandidate' = (everCandidate \/ S # {})
  BY DEF Score
<1>2. /\ stage = "score" /\ stage' = "verify" /\ kept' = {} /\ verified' \in BOOLEAN
      /\ loaded' = verdict /\ late' = {}
      /\ UNCHANGED <<way, verdict, withdrawn, routeFound, front, left, guesses,
                     cancelled, paid, resumed, adjudicated, expanded>>
  BY DEF Score, Decided, At, LoadGraph
<1> USE DEF CInv
<1>3. Typed'
  <2>1. candidates' \in SUBSET Way BY <1>1 DEF Open
  <2>2. everCandidate' \in BOOLEAN BY <1>1
  <2> QED BY <1>2, <2>1, <2>2 DEF Typed, Stages
<1>4. FrontsFit' BY <1>2 DEF FrontsFit
<1>5. ScoringFits'
  <2>1. candidates' \cup kept' = S BY <1>1, <1>2
  <2> QED BY <1>1, <1>2, <2>1 DEF ScoringFits
<1>6. KeptStands' BY <1>2 DEF KeptStands
<1>7. UnpaidFits'
  <2>1. RouteOpen => everCandidate' BY <1>1 DEF RouteOpen
  <2> QED BY <1>2, <2>1 DEF UnpaidFits
<1> QED BY <1>3, <1>4, <1>5, <1>6, <1>7

\* Judging one route, with either outcome.
LEMMA JudgedFits ==
  ASSUME CInv, NEW w \in Way, Judging(w), stage' \in {"verify", "failed"},
         way' \in [Way -> {"hidden", "open", "closed", "gone"}],
         verdict' \in [Way -> {"none", "genuine", "rejected"}],
         kept' \in {kept, kept \cup {w}},
         \A v \in Way : v # w => verdict'[v] = verdict[v],
         w \in kept' /\ verified /\ verdict'[w] = "rejected" =>
             verdict[w] = "rejected" /\ loaded[w] # "rejected"
  PROVE  Typed' /\ FrontsFit' /\ ScoringFits' /\ KeptStands'
<1> USE DEF CInv
<1>1. /\ stage = "verify" /\ w \in candidates /\ candidates' = candidates \ {w}
      /\ UNCHANGED <<routeFound, front, left, guesses, verified, loaded, flow, cancelled,
                     paid, withdrawn, late>>
  BY DEF Judging, At
<1>2. Typed' BY <1>1 DEF Typed, flow, Stages, Ends
<1>3. FrontsFit' BY <1>1 DEF FrontsFit, flow
<1>4. ScoringFits'
  <2>1. candidates' \cap kept' = {} BY <1>1 DEF ScoringFits
  <2>2. /\ candidates \cup kept \in SUBSET Way
        /\ candidates' \cup kept' \in SUBSET (candidates \cup kept)
    BY <1>1 DEF Typed
  <2>3. Cardinality(candidates' \cup kept') <= MaxShown
    BY <2>2, FewerShown DEF ScoringFits
  <2> QED BY <2>1, <2>3 DEF ScoringFits
<1>5. KeptStands'
  <2> SUFFICES ASSUME verified, stage' = "verify"
               PROVE  KeptStands'
    BY <1>1 DEF KeptStands
  <2>1. ASSUME NEW v \in kept', verdict'[v] = "rejected" PROVE v \in late
    <3>1. CASE v = w
      BY <1>1, <2>1, <3>1 DEF KeptStands
    <3>2. CASE v # w
      <4>1. v \in kept /\ v \in Way BY <3>2, <2>1 DEF Typed
      <4> QED BY <1>1, <2>1, <3>2, <4>1 DEF KeptStands
    <3> QED BY <3>1, <3>2
  <2>2. ASSUME NEW v \in candidates', verdict'[v] = "rejected"
        PROVE  loaded[v] = "rejected" \/ v \in late
    <3>1. v \in candidates /\ v # w /\ v \in Way BY <1>1 DEF Typed
    <3> QED BY <1>1, <2>2, <3>1 DEF KeptStands
  <2> QED BY <1>1, <2>1, <2>2 DEF KeptStands
<1> QED BY <1>2, <1>3, <1>4, <1>5

LEMMA VerifyFits == ASSUME CInv, NEW w \in Way, Verify(w) PROVE CInv'
<1> USE DEF CInv
<1>1. Judging(w) /\ stage' = stage /\ stage = "verify" /\ w \in candidates
  BY DEF Verify, Judging, At
<1>2. /\ way' \in [Way -> {"hidden", "open", "closed", "gone"}]
      /\ verdict' \in [Way -> {"none", "genuine", "rejected"}]
      /\ \A v \in Way : v # w => verdict'[v] = verdict[v]
      /\ kept' \in {kept, kept \cup {w}}
  BY DEF Verify, Ask, Typed
<1>3. w \notin kept BY <1>1 DEF ScoringFits
<1>4. w \in kept' /\ verified /\ verdict'[w] = "rejected" =>
          verdict[w] = "rejected" /\ loaded[w] # "rejected"
  BY <1>3 DEF Verify, Ask, Typed
<1>5. Typed' /\ FrontsFit' /\ ScoringFits' /\ KeptStands'
  BY <1>1, <1>2, <1>4, JudgedFits
<1>6. UnpaidFits' BY <1>1 DEF UnpaidFits, Judging, flow
<1> QED BY <1>5, <1>6

LEMMA VerifyFailsFits == ASSUME CInv, NEW w \in Way, VerifyFails(w) PROVE CInv'
<1> USE DEF CInv
<1>1. /\ Judging(w) /\ stage' = "failed" /\ way' = way /\ verdict' = verdict
      /\ kept' = kept /\ stage = "verify" /\ w \in candidates
  BY DEF VerifyFails, Judging, At
<1>2. w \notin kept BY <1>1 DEF ScoringFits
<1>3. Typed' /\ FrontsFit' /\ ScoringFits' /\ KeptStands'
  BY <1>1, <1>2, JudgedFits DEF Typed
<1>4. UnpaidFits' BY <1>1 DEF UnpaidFits, Judging, flow, Ends
<1> QED BY <1>3, <1>4

LEMMA ResumeFits == CInv /\ Resume => CInv'
<1> SUFFICES ASSUME CInv, Resume PROVE CInv'
  OBVIOUS
<1> USE DEF Resume, Judged, At, graph, scoring, CInv
<1>1. Typed' BY DEF Typed, Stages
<1>2. FrontsFit' BY DEF FrontsFit
<1>3. ScoringFits' BY DEF ScoringFits
<1>4. KeptStands' BY DEF KeptStands
<1>5. UnpaidFits' BY DEF UnpaidFits
<1> QED BY <1>1, <1>2, <1>3, <1>4, <1>5

\* A build that has not searched may resume, so it cannot say no yet.
LEMMA AnswerFits == CInv /\ Answer => CInv'
<1> SUFFICES ASSUME CInv, Answer PROVE CInv'
  OBVIOUS
<1> USE DEF CInv
<1>1. /\ stage = "verify" /\ ~MayResume
      /\ stage' = IF kept = {} THEN "none" ELSE "connected"
      /\ UNCHANGED <<graph, routeFound, front, left, guesses, cancelled, paid, resumed,
                     adjudicated, expanded, scoring, everCandidate>>
  BY DEF Answer, Decided, graph
<1> USE DEF scoring
<1>2. Typed' BY <1>1 DEF Typed, Stages, Ends, graph
<1>3. FrontsFit' BY <1>1 DEF FrontsFit
<1>4. ScoringFits' BY <1>1 DEF ScoringFits
<1>5. KeptStands' BY <1>1 DEF KeptStands, graph
<1>6. UnpaidFits' BY <1>1 DEF UnpaidFits, MayResume, Ends, graph
<1> QED BY <1>2, <1>3, <1>4, <1>5, <1>6

-----------------------------------------------------------------------------
(* The environment.                                                        *)

LEMMA CancelFits == CInv /\ Cancel => CInv'
<1> SUFFICES ASSUME CInv, Cancel PROVE CInv'
  OBVIOUS
<1> USE DEF Cancel, Elsewhere, graph, scoring, flow, CInv
<1>1. Typed' BY DEF Typed
<1>2. FrontsFit' BY DEF FrontsFit
<1>3. ScoringFits' BY DEF ScoringFits
<1>4. KeptStands' BY DEF KeptStands
<1>5. UnpaidFits' BY DEF UnpaidFits, RouteOpen, Open
<1> QED BY <1>1, <1>2, <1>3, <1>4, <1>5

LEMMA WithdrawFits == ASSUME CInv, NEW w \in Way, WithdrawWay(w) PROVE CInv'
<1> USE DEF CInv
<1>1. /\ stage \notin Ends /\ withdrawn' = TRUE
      /\ UNCHANGED <<stage, routeFound, front, left, guesses, scoring, flow, paid, cancelled>>
  BY DEF WithdrawWay, Elsewhere
<1>2. /\ way' \in [Way -> {"hidden", "open", "closed", "gone"}]
      /\ verdict' \in [Way -> {"none", "genuine", "rejected"}]
  BY DEF WithdrawWay, Typed
<1>3. Typed' BY <1>1, <1>2 DEF Typed, flow, scoring
<1>4. FrontsFit' BY <1>1 DEF FrontsFit, flow
<1>5. ScoringFits' BY <1>1 DEF ScoringFits, scoring
<1>6. KeptStands'
  <2>1. \A v \in candidates \cup kept :
          /\ verdict'[v] = "rejected" => verdict[v] = "rejected" \/ v \in late'
          /\ v \in late => v \in late'
    BY DEF WithdrawWay, Typed
  <2>2. UNCHANGED <<stage, candidates, kept, verified, loaded>> BY <1>1 DEF scoring
  <2> QED BY <2>1, <2>2 DEF KeptStands
<1>7. UnpaidFits' BY <1>1 DEF UnpaidFits, flow, scoring
<1> QED BY <1>3, <1>4, <1>5, <1>6, <1>7

LEMMA FindFits == ASSUME CInv, NEW w \in Way, FindElsewhere(w) PROVE CInv'
<1> USE DEF CInv
<1>1. /\ UNCHANGED <<verdict, withdrawn, late, cancelled>>
      /\ UNCHANGED <<stage, routeFound, front, left, guesses, scoring, flow, paid>>
      /\ way' = [way EXCEPT ![w] = "open"]
  BY DEF FindElsewhere, Elsewhere
<1>2. way' \in [Way -> {"hidden", "open", "closed", "gone"}] BY <1>1 DEF Typed
<1>3. Typed' BY <1>1, <1>2 DEF Typed, flow, scoring
<1>4. FrontsFit' BY <1>1 DEF FrontsFit, flow
<1>5. ScoringFits' BY <1>1 DEF ScoringFits, scoring
<1>6. KeptStands' BY <1>1 DEF KeptStands, scoring
<1>7. RouteOpen => RouteOpen' BY <1>1 DEF RouteOpen, Open, Typed
<1>8. UnpaidFits' BY <1>1, <1>7 DEF UnpaidFits, flow, scoring
<1> QED BY <1>3, <1>4, <1>5, <1>6, <1>8

LEMMA StutterFits == CInv /\ UNCHANGED vars => CInv'
<1> SUFFICES ASSUME CInv, UNCHANGED vars PROVE CInv'
  OBVIOUS
<1> USE DEF vars, graph, scoring, flow, CInv
<1>1. Typed' BY DEF Typed
<1>2. FrontsFit' BY DEF FrontsFit
<1>3. ScoringFits' BY DEF ScoringFits
<1>4. KeptStands' BY DEF KeptStands
<1>5. UnpaidFits' BY DEF UnpaidFits, RouteOpen, Open
<1> QED BY <1>1, <1>2, <1>3, <1>4, <1>5

LEMMA StepFits == CInv /\ [ConnectNext]_vars => CInv'
<1> SUFFICES ASSUME CInv, [ConnectNext]_vars PROVE CInv'
  OBVIOUS
<1>1. ASSUME Main PROVE CInv'
  BY <1>1, NoticeCancelFits, CheckKnownFits, SearchPairFits, GuessFits,
     NoMoreGuessesFits, EnrichOriginFits, StartFrontsFits, JoinFits, MissingFits,
     ScoreFits, VerifyFits, VerifyFailsFits, ResumeFits, AdjudicateFits, AnswerFits DEF Main
<1> QED
  BY <1>1, CancelFits, FrontStepFits, WithdrawFits, FindFits, StutterFits
     DEF ConnectNext

LEMMA Invariance == ConnectSpec => []CInv
BY InitFits, StepFits, PTL DEF ConnectSpec

\* The variables of a build agree: fronts work only while it waits for them,
\* and a scoring keeps no more than it may show (connect_people,
\* _expand_both_concurrently, CONNECT_MAX_PATHS).
THEOREM BuildIsTyped == ConnectSpec => []ConnectTypeOK
<1>1. CInv => ConnectTypeOK
  BY DEF CInv, Typed, FrontsFit, ScoringFits, ConnectTypeOK
<1> QED BY <1>1, Invariance, PTL

\* No build says "no route" on the strength of a shortcut that it disproved:
\* it has searched, unless somebody else took the routes away (the resume
\* branch of connect_people).
THEOREM NoIsNotBlind == ConnectSpec => []NoBlindNo
<1>1. CInv => NoBlindNo BY DEF CInv, Typed, UnpaidFits, NoBlindNo
<1> QED BY <1>1, Invariance, PTL

\* No route is shown as verified that this build disproved or whose rejection,
\* by any build or operator, was stored when the last scoring loaded the graph;
\* only a rejection after that load escapes it (_verified_routes, verify).
THEOREM NothingDisprovedIsShown == ConnectSpec => []ShowsNothingDisproved
<1>1. CInv => ShowsNothingDisproved
  BY DEF CInv, KeptStands, ShowsNothingDisproved
<1> QED BY <1>1, Invariance, PTL

-----------------------------------------------------------------------------
(* Route search: what the library has no induction for.                    *)

\* Any numbers have a least one.
LEMMA LeastExists ==
  ASSUME NEW S \in SUBSET Nat, S # {}
  PROVE  \E m \in S : \A y \in S : m <= y
<1> DEFINE Below == {ss \in Nat \X Nat : ss[1] < ss[2]}
<1>1. IsWellFoundedOn(Below, Nat) BY NatLessThanWellFounded DEF OpToRel
<1>2. PICK m \in S : \A y \in S : <<y, m>> \notin Below
  <2> HIDE DEF Below
  <2> QED BY <1>1, WFMin
<1>3. ASSUME NEW y \in S PROVE m <= y
  <2>1. /\ <<y, m>> \in Nat \X Nat /\ <<y, m>>[1] = y /\ <<y, m>>[2] = m
    OBVIOUS
  <2>2. ~(y < m) BY <1>2, <2>1
  <2> QED BY <2>2
<1> QED BY <1>3

\* g is what comes of a by F, up to n.
Iterates(S, a, F, n, g) ==
  g \in [0..n -> S] /\ g[0] = a /\ \A i \in 1..n : g[i] = F[i][g[i - 1]]

LEMMA IteratesAgree ==
  ASSUME NEW S, NEW a \in S, NEW F, NEW n \in Nat, NEW m \in Nat, NEW g, NEW h,
         Iterates(S, a, F, n, g), Iterates(S, a, F, m, h),
         NEW i \in Nat, i <= n, i <= m
  PROVE  g[i] = h[i]
<1> DEFINE Differ == {j \in Nat : j <= n /\ j <= m /\ g[j] # h[j]}
<1>1. Differ = {}
  <2> SUFFICES ASSUME Differ # {} PROVE FALSE
    OBVIOUS
  <2>1. PICK j \in Differ : \A y \in Differ : j <= y BY LeastExists
  <2>2. j # 0 BY DEF Iterates
  <2>3. j - 1 \in Nat /\ j - 1 < j /\ j - 1 <= n /\ j - 1 <= m /\ j \in 1..n /\ j \in 1..m
    BY <2>2
  <2>4. g[j - 1] = h[j - 1] BY <2>1, <2>3
  <2> QED BY <2>3, <2>4 DEF Iterates
<1> QED BY <1>1

LEMMA IteratesExist ==
  ASSUME NEW S, NEW a \in S, NEW F, \A i \in Nat : F[i] \in [S -> S], NEW n \in Nat
  PROVE  \E g : Iterates(S, a, F, n, g)
<1> DEFINE Lacking == {j \in Nat : ~\E g : Iterates(S, a, F, j, g)}
<1>1. Lacking = {}
  <2> SUFFICES ASSUME Lacking # {} PROVE FALSE
    OBVIOUS
  <2>1. PICK j \in Lacking : \A y \in Lacking : j <= y BY LeastExists
  <2>2. j # 0
    <3>1. Iterates(S, a, F, 0, [i \in 0..0 |-> a]) BY DEF Iterates
    <3> QED BY <3>1
  <2>3. j - 1 \in Nat /\ ~(j <= j - 1) /\ j - 1 \in 0..j - 1 BY <2>2
  <2>4. PICK g : Iterates(S, a, F, j - 1, g) BY <2>1, <2>3
  <2> DEFINE new == F[j][g[j - 1]]
             h == [i \in 0..j |-> IF i = j THEN new ELSE g[i]]
  <2>5. new \in S BY <2>3, <2>4 DEF Iterates
  <2>6. \A i \in 0..j : i # j => i \in 0..j - 1 BY <2>2
  <2>7. h \in [0..j -> S] BY <2>4, <2>5, <2>6 DEF Iterates
  <2>8. h[0] = a BY <2>2, <2>4 DEF Iterates
  <2>9. ASSUME NEW i \in 1..j PROVE h[i] = F[i][h[i - 1]]
    <3>1. i \in 0..j /\ i - 1 \in 0..j /\ i - 1 # j OBVIOUS
    <3>2. CASE i = j BY <3>1, <3>2
    <3>3. CASE i # j
      <4>1. i \in 1..j - 1 BY <3>3
      <4>2. g[i] = F[i][g[i - 1]] BY <2>4, <4>1 DEF Iterates
      <4> QED BY <3>1, <3>3, <4>2
    <3> QED BY <3>2, <3>3
  <2>10. Iterates(S, a, F, j, h)
    <3> HIDE DEF h
    <3> QED BY <2>7, <2>8, <2>9 DEF Iterates
  <2> QED BY <2>10
<1> QED BY <1>1

-----------------------------------------------------------------------------
(* Route search: the graph and the costs of its paths.                     *)

RouteTyped ==
  /\ mode \in Modes /\ rows \in [Pairs -> RowSets] /\ org \subseteq Person
  /\ memo \in [DOMAIN memo -> Nat] /\ <<From, 0>> \in DOMAIN memo
  /\ org \subseteq excluded /\ excluded \subseteq Person
  /\ done \in BOOLEAN /\ routes \in Seq(Seq(Person))
  /\ Len(routes) <= Wanted /\ (~done => Len(routes) < Wanted)

\* A way through the graph that starts where the search does.
Walk(s) ==
  /\ s \in Seq(Person) /\ s # <<>> /\ s[1] = From
  /\ \A i \in 1..Len(s) - 1 : s[i + 1] \in Neighbours(s[i])

\* Of the edges that may be walked, one is the most confident.
LEMMA BestExists ==
  ASSUME RouteTyped, NEW pair \in Pairs, Walkable(pair) # {}
  PROVE  Best(pair) \in rows[pair]
<1> DEFINE W == Walkable(pair)
           Greatest(A, m) == m \in A /\ \A s \in A : m.confidence >= s.confidence
           Lacking == {A \in SUBSET W : A # {} /\ ~\E m \in W : Greatest(A, m)}
<1>1. W \subseteq rows[pair] /\ rows[pair] \in RowSets
  BY DEF RouteTyped, Walkable
<1>2. IsFiniteSet(W) /\ \A r \in W : r.confidence \in Nat
  <2>1. IsFiniteSet(rows[pair]) /\ \A r \in rows[pair] : {r.confidence, r.cost} \subseteq Nat
    BY <1>1, RouteSearchAssumption
  <2> QED BY <1>1, <2>1, FS_Subset
<1> HIDE DEF W
<1>3. IsWellFoundedOn(StrictSubsetOrdering(W), SUBSET W)
  BY <1>2, FS_StrictSubsetOrderingWellFounded, FS_FiniteSubsetsOfFinite
<1>4. Lacking = {}
  <2> SUFFICES ASSUME Lacking # {} PROVE FALSE
    OBVIOUS
  <2>1. PICK A \in Lacking : \A B \in Lacking : <<B, A>> \notin StrictSubsetOrdering(W)
    <3>1. Lacking \subseteq SUBSET W
      OBVIOUS
    <3> HIDE DEF Lacking
    <3> QED BY <1>3, <3>1, WFMin
  <2>2. PICK x \in A : TRUE
    OBVIOUS
  <2>3. A \ {x} \notin Lacking
    BY <2>1, <2>2 DEF StrictSubsetOrdering
  <2>4. x.confidence \in Nat BY <1>2, <2>2
  <2>5. CASE A = {x}
    BY <2>2, <2>4, <2>5
  <2>6. CASE A # {x}
    <3>1. PICK m \in W : Greatest(A \ {x}, m)
      BY <2>2, <2>3, <2>6
    <3>2. \A s \in A : s.confidence \in Nat
      BY <1>2
    <3>3. Greatest(A, IF x.confidence >= m.confidence THEN x ELSE m)
      BY <2>2, <3>1, <3>2
    <3> QED BY <2>2, <3>1, <3>3
  <2> QED BY <2>5, <2>6
<1>5. \E m \in W : Greatest(W, m)
  BY <1>4 DEF W
<1>6. Best(pair) \in W
  BY <1>5 DEF Best, W
<1> QED BY <1>1, <1>6

LEMMA StepCostType ==
  ASSUME RouteTyped, NEW p \in Person, NEW q \in Neighbours(p)
  PROVE  q \in Person /\ StepCost(p, q) \in Nat
<1>1. q \in Person /\ {p, q} \in Pairs /\ Walkable({p, q}) # {} BY DEF Neighbours
<1>2. rows[{p, q}] \in RowSets BY <1>1 DEF RouteTyped
<1>3. Best({p, q}) \in rows[{p, q}] BY <1>1, BestExists
<1>4. Best({p, q}).cost \in Nat BY <1>2, <1>3, RouteSearchAssumption
<1>5. NodePenalty(q) \in Nat /\ Surcharge \in Nat BY RouteSearchAssumption DEF NodePenalty
<1> QED BY <1>1, <1>4, <1>5 DEF StepCost

\* c is what s has cost up to each of its people.
Sums(s, c) ==
  c[1] = 0 /\ \A i \in 1..Len(s) - 1 : c[i + 1] = c[i] + StepCost(s[i], s[i + 1])
Totals(s, c) == c \in [1..Len(s) -> Nat] /\ Sums(s, c)

LEMMA SumsAgree ==
  ASSUME NEW s \in Seq(Person), NEW c, NEW d, Sums(s, c), Sums(s, d), NEW n \in 1..Len(s)
  PROVE  c[n] = d[n]
<1> DEFINE Differ == {j \in Nat : j \in 1..Len(s) /\ c[j] # d[j]}
<1>1. Differ = {}
  <2> SUFFICES ASSUME Differ # {} PROVE FALSE
    OBVIOUS
  <2>1. PICK j \in Differ : \A y \in Differ : j <= y BY LeastExists
  <2>2. j # 1 BY DEF Sums
  <2>3. j - 1 \in Nat /\ ~(j <= j - 1) /\ j - 1 \in 1..Len(s) - 1 /\ j - 1 \in 1..Len(s)
    BY <2>2
  <2>4. c[j - 1] = d[j - 1] BY <2>1, <2>3
  <2>5. (j - 1) + 1 = j OBVIOUS
  <2>6. c[j] = d[j] BY <2>3, <2>4, <2>5 DEF Sums
  <2> QED BY <2>6
<1> QED BY <1>1

LEMMA CostIsTotal ==
  ASSUME RouteTyped, NEW s, Walk(s)
  PROVE  \E c : Totals(s, c) /\ Cost(s) = c[Len(s)]
<1>1. /\ s \in Seq(Person) /\ Len(s) \in Nat /\ Len(s) >= 1
      /\ \A i \in 1..Len(s) : s[i] \in Person
  BY DEF Walk
<1>2. \A i \in 1..Len(s) - 1 : StepCost(s[i], s[i + 1]) \in Nat
  <2> SUFFICES ASSUME NEW i \in 1..Len(s) - 1 PROVE StepCost(s[i], s[i + 1]) \in Nat
    OBVIOUS
  <2>1. s[i] \in Person BY <1>1
  <2> QED BY <2>1, StepCostType DEF Walk
<1> DEFINE step(i) == IF i \in 1..Len(s) - 1 THEN StepCost(s[i], s[i + 1]) ELSE 0
           F == [i \in Nat |-> [v \in Nat |-> v + step(i)]]
           N == Len(s) - 1
<1>3. \A i \in Nat : step(i) \in Nat BY <1>2
<1>4. \A i \in Nat : F[i] \in [Nat -> Nat]
  <2> HIDE DEF step
  <2> QED BY <1>3
<1>5. PICK g : Iterates(Nat, 0, F, N, g)
  <2>1. N \in Nat BY <1>1
  <2> HIDE DEF F, N
  <2> QED BY <1>4, <2>1, IteratesExist
<1> DEFINE c == [n \in 1..Len(s) |-> g[n - 1]]
<1>6. Totals(s, c)
  <2>1. \A n \in 1..Len(s) : n - 1 \in 0..N BY <1>1
  <2>2. c \in [1..Len(s) -> Nat] BY <1>5, <2>1 DEF Iterates
  <2>3. c[1] = 0 BY <1>1, <1>5 DEF Iterates
  <2>4. ASSUME NEW i \in 1..Len(s) - 1 PROVE c[i + 1] = c[i] + StepCost(s[i], s[i + 1])
    <3>1. /\ i \in 1..Len(s) /\ i + 1 \in 1..Len(s) /\ i \in 1..N /\ i \in Nat
          /\ (i + 1) - 1 = i /\ i - 1 \in 0..N
      BY <1>1
    <3>2. g[i] = F[i][g[i - 1]] /\ g[i - 1] \in Nat BY <1>5, <3>1 DEF Iterates
    <3>3. F[i][g[i - 1]] = g[i - 1] + step(i) BY <3>1, <3>2
    <3> QED BY <3>1, <3>2, <3>3
  <2> HIDE DEF c
  <2> QED BY <2>2, <2>3, <2>4 DEF Totals, Sums
<1> HIDE DEF c
<1> DEFINE Body(f) == [n \in 1..Len(s) |->
                         IF n = 1 THEN 0 ELSE f[n - 1] + StepCost(s[n - 1], s[n])]
           u == CHOOSE f : f = Body(f)
<1>7. Cost(s) = u[Len(s)] BY DEF Cost
<1>8. c = Body(c)
  <2>1. ASSUME NEW n \in 1..Len(s)
        PROVE c[n] = IF n = 1 THEN 0 ELSE c[n - 1] + StepCost(s[n - 1], s[n])
    <3>1. CASE n = 1 BY <1>6, <3>1 DEF Totals, Sums
    <3>2. CASE n # 1
      <4>1. n - 1 \in 1..Len(s) - 1 /\ (n - 1) + 1 = n BY <1>1, <3>2
      <4> QED BY <1>6, <3>2, <4>1 DEF Totals, Sums
    <3> QED BY <3>1, <3>2
  <2> QED BY <1>6, <2>1 DEF Totals
<1>9. u = Body(u)
  <2> HIDE DEF Body
  <2> QED BY <1>8
<1> HIDE DEF u
<1>10. Sums(s, u)
  <2>1. u[1] = 0 BY <1>1, <1>9
  <2>2. ASSUME NEW i \in 1..Len(s) - 1 PROVE u[i + 1] = u[i] + StepCost(s[i], s[i + 1])
    <3>1. i + 1 \in 1..Len(s) /\ i + 1 # 1 /\ (i + 1) - 1 = i BY <1>1
    <3> QED BY <1>9, <3>1
  <2> QED BY <2>1, <2>2 DEF Sums
<1>11. Len(s) \in 1..Len(s) BY <1>1
<1>12. u[Len(s)] = c[Len(s)] BY <1>1, <1>6, <1>10, <1>11, SumsAgree DEF Totals
<1> QED BY <1>6, <1>7, <1>12

LEMMA CostIs ==
  ASSUME RouteTyped, NEW s, Walk(s), NEW c, Totals(s, c)
  PROVE  Cost(s) = c[Len(s)] /\ Cost(s) \in Nat
<1>1. PICK d : Totals(s, d) /\ Cost(s) = d[Len(s)] BY CostIsTotal
<1>2. s \in Seq(Person) /\ Len(s) \in 1..Len(s) BY DEF Walk
<1>3. c[Len(s)] = d[Len(s)] BY <1>1, <1>2, SumsAgree DEF Totals
<1> QED BY <1>1, <1>2, <1>3 DEF Totals

LEMMA StartCost == RouteTyped => Walk(<<From>>) /\ Cost(<<From>>) = 0
<1> SUFFICES ASSUME RouteTyped PROVE Walk(<<From>>) /\ Cost(<<From>>) = 0
  OBVIOUS
<1>1. From \in Person BY RouteSearchAssumption
<1>2. Walk(<<From>>) BY <1>1 DEF Walk
<1>3. Totals(<<From>>, [i \in 1..1 |-> 0]) BY DEF Totals, Sums
<1> QED BY <1>2, <1>3, CostIs

\* One step more costs that step.
LEMMA AppendCost ==
  ASSUME RouteTyped, NEW s, Walk(s), NEW q \in Neighbours(s[Len(s)])
  PROVE  /\ Walk(Append(s, q)) /\ Cost(s) \in Nat
         /\ StepCost(s[Len(s)], q) \in Nat /\ q \in Person
         /\ Cost(Append(s, q)) = Cost(s) + StepCost(s[Len(s)], q)
<1> DEFINE n == Len(s)
           t == Append(s, q)
<1>1. s \in Seq(Person) /\ n \in Nat /\ n >= 1 /\ s[n] \in Person BY DEF Walk
<1>2. q \in Person /\ StepCost(s[n], q) \in Nat BY <1>1, StepCostType
<1>3. /\ t \in Seq(Person) /\ Len(t) = n + 1 /\ t[n + 1] = q
      /\ \A i \in 1..n : t[i] = s[i]
  BY <1>1, <1>2
<1>4. Walk(t)
  <2>1. \A i \in 1..n : t[i + 1] \in Neighbours(t[i])
    <3> SUFFICES ASSUME NEW i \in 1..n PROVE t[i + 1] \in Neighbours(t[i])
      OBVIOUS
    <3>1. CASE i = n BY <1>3, <3>1
    <3>2. CASE i # n
      <4>1. i \in 1..n - 1 /\ i + 1 \in 1..n BY <1>1, <3>2
      <4> QED BY <1>3, <4>1 DEF Walk
    <3> QED BY <3>1, <3>2
  <2>2. t # <<>> /\ t[1] = From BY <1>1, <1>3 DEF Walk
  <2> HIDE DEF t
  <2> QED BY <1>1, <1>3, <2>1, <2>2 DEF Walk
<1> HIDE DEF t
<1>5. PICK c : Totals(s, c) /\ Cost(s) = c[n] BY CostIsTotal
<1> DEFINE d == [i \in 1..n + 1 |-> IF i = n + 1 THEN c[n] + StepCost(s[n], q) ELSE c[i]]
<1>6. Totals(t, d)
  <2>1. c \in [1..n -> Nat] /\ Sums(s, c) BY <1>5 DEF Totals
  <2>2. c[n] \in Nat /\ \A i \in 1..n + 1 : i # n + 1 => i \in 1..n BY <1>1, <2>1
  <2>3. d \in [1..n + 1 -> Nat] BY <1>2, <2>1, <2>2
  <2>4. d[1] = 0 BY <1>1, <2>1 DEF Sums
  <2>5. ASSUME NEW i \in 1..n PROVE d[i + 1] = d[i] + StepCost(t[i], t[i + 1])
    <3>1. i \in 1..n + 1 /\ i + 1 \in 1..n + 1 /\ i # n + 1 BY <1>1
    <3>2. CASE i = n BY <1>3, <3>1, <3>2
    <3>3. CASE i # n
      <4>1. i \in 1..n - 1 /\ i + 1 \in 1..n /\ i + 1 # n + 1 BY <1>1, <3>3
      <4>2. c[i + 1] = c[i] + StepCost(s[i], s[i + 1]) BY <2>1, <4>1 DEF Sums
      <4> QED BY <1>3, <3>1, <4>1, <4>2
    <3> QED BY <3>2, <3>3
  <2>6. Len(t) - 1 = n BY <1>1, <1>3
  <2> HIDE DEF d
  <2> QED BY <1>3, <2>3, <2>4, <2>5, <2>6 DEF Totals, Sums
<1>7. Cost(t) = d[n + 1] BY <1>3, <1>4, <1>6, CostIs
<1>8. d[n + 1] = c[n] + StepCost(s[n], q) BY <1>1
<1>9. Cost(s) \in Nat BY <1>5, CostIs
<1> QED BY <1>2, <1>4, <1>5, <1>7, <1>8, <1>9 DEF t

\* Further on, nothing is cheaper.
LEMMA TotalsGrow ==
  ASSUME RouteTyped, NEW s, Walk(s), NEW c, Totals(s, c),
         NEW i \in 1..Len(s), NEW j \in 1..Len(s), i <= j
  PROVE  c[i] <= c[j]
<1> DEFINE Falls == {k \in Nat : k \in 1..Len(s) /\ i <= k /\ ~(c[i] <= c[k])}
<1>1. s \in Seq(Person) /\ Len(s) \in Nat BY DEF Walk
<1>2. Falls = {}
  <2> SUFFICES ASSUME Falls # {} PROVE FALSE
    OBVIOUS
  <2>1. PICK k \in Falls : \A y \in Falls : k <= y BY LeastExists
  <2>2. k # i BY <2>1 DEF Totals
  <2>3. /\ k - 1 \in Nat /\ ~(k <= k - 1) /\ k - 1 \in 1..Len(s) /\ i <= k - 1
        /\ k - 1 \in 1..Len(s) - 1 /\ (k - 1) + 1 = k
    BY <1>1, <2>1, <2>2
  <2>4. c[i] <= c[k - 1] BY <2>1, <2>3
  <2>5. c[k] = c[k - 1] + StepCost(s[k - 1], s[k]) BY <2>3 DEF Totals, Sums
  <2>6. StepCost(s[k - 1], s[k]) \in Nat
    <3>1. s[k - 1] \in Person /\ s[k] \in Neighbours(s[k - 1]) BY <1>1, <2>3 DEF Walk
    <3> QED BY <3>1, StepCostType
  <2>7. {c[i], c[k - 1], c[k]} \subseteq Nat BY <2>1, <2>3 DEF Totals
  <2> QED BY <2>1, <2>4, <2>5, <2>6, <2>7
<1> QED BY <1>1, <1>2

LEMMA SameShift ==
  ASSUME NEW a \in Nat, NEW b \in Nat, NEW x \in Nat, NEW y \in Nat, NEW z \in Nat,
         y = x + z
  PROVE  y - (b - a) = (x - (b - a)) + z
OBVIOUS

\* A walk without the loop between two visits to one person.
Without(s, i, j) ==
  [k \in 1..Len(s) - (j - i) |-> IF k <= i THEN s[k] ELSE s[k + (j - i)]]

LEMMA LoopsCost ==
  ASSUME RouteTyped, NEW s, Walk(s), NEW i \in 1..Len(s), NEW j \in 1..Len(s),
         i < j, s[i] = s[j]
  PROVE  /\ Walk(Without(s, i, j)) /\ Len(Without(s, i, j)) = Len(s) - (j - i)
         /\ Cost(Without(s, i, j)) <= Cost(s)
         /\ Cost(Without(s, i, j)) \in Nat /\ Cost(s) \in Nat
<1> DEFINE n == Len(s)
           m == n - (j - i)
           t == Without(s, i, j)
           to(k) == IF k <= i THEN k ELSE k + (j - i)
<1>1. s \in Seq(Person) /\ n \in Nat /\ m \in Nat /\ 1 <= i /\ i <= m /\ m < n /\ m >= 1
  BY DEF Walk
<1>2. \A k \in 1..m : to(k) \in 1..n /\ t[k] = s[to(k)]
  BY <1>1 DEF Without
<1>3. t \in Seq(Person) /\ Len(t) = m
  <2>1. t \in [1..m -> Person]
    <3>1. \A k \in 1..m : t[k] \in Person
      <4> HIDE DEF m, to, t
      <4> QED BY <1>1, <1>2
    <3> QED BY <3>1 DEF Without
  <2> HIDE DEF t, m
  <2> QED BY <1>1, <2>1
\* The step after k is the one that the walk took there, or after the loop.
<1>4. ASSUME NEW k \in 1..m - 1
      PROVE  \E x \in 1..n - 1 : /\ s[x] = t[k] /\ s[x + 1] = t[k + 1] /\ to(k + 1) = x + 1
                                 /\ k # i => to(k) = x
                                 /\ k = i => x = j
  <2>1. k \in 1..m /\ k + 1 \in 1..m BY <1>1
  <2>2. CASE k < i
    <3>1. to(k) = k /\ to(k + 1) = k + 1 /\ k \in 1..n - 1 BY <1>1, <2>2
    <3> HIDE DEF to, t
    <3> QED BY <1>2, <2>1, <2>2, <3>1
  <2>3. CASE k = i
    <3>1. to(k) = i /\ to(k + 1) = j + 1 /\ j \in 1..n - 1 BY <1>1, <2>3
    <3> HIDE DEF to, t
    <3> QED BY <1>2, <2>1, <2>3, <3>1
  <2>4. CASE k > i
    <3> DEFINE x == k + (j - i)
    <3>1. to(k) = x /\ to(k + 1) = x + 1 /\ x \in 1..n - 1 BY <1>1, <2>4
    <3> HIDE DEF to, t, x
    <3> QED BY <1>2, <2>1, <2>4, <3>1
  <2> QED BY <1>1, <2>2, <2>3, <2>4
<1>5. t[1] = From
  <2>1. to(1) = 1 /\ 1 \in 1..m BY <1>1
  <2> HIDE DEF to, t
  <2> QED BY <1>2, <2>1 DEF Walk
<1> HIDE DEF t, to
<1>6. Walk(t)
  <2>1. \A k \in 1..Len(t) - 1 : t[k + 1] \in Neighbours(t[k])
    <3> SUFFICES ASSUME NEW k \in 1..m - 1 PROVE t[k + 1] \in Neighbours(t[k])
      BY <1>3
    <3>1. PICK x \in 1..n - 1 : s[x] = t[k] /\ s[x + 1] = t[k + 1] BY <1>4
    <3> QED BY <3>1 DEF Walk
  <2>2. t # <<>> BY <1>1, <1>3
  <2> QED BY <1>3, <1>5, <2>1, <2>2 DEF Walk
<1>7. PICK c : Totals(s, c) /\ Cost(s) = c[n] BY CostIsTotal
<1>8. c[i] <= c[j] /\ {c[i], c[j], c[n]} \subseteq Nat /\ c[j] <= c[n]
  <2>1. i <= j /\ n \in 1..n /\ j <= n BY <1>1
  <2>2. c[i] <= c[j] /\ c[j] <= c[n] BY <1>7, <2>1, TotalsGrow
  <2> QED BY <1>7, <2>1, <2>2 DEF Totals
<1> DEFINE d == [k \in 1..m |-> IF k <= i THEN c[k] ELSE c[to(k)] - (c[j] - c[i])]
<1>9. Totals(t, d)
  <2>1. \A k \in 1..m : d[k] \in Nat
    <3> SUFFICES ASSUME NEW k \in 1..m PROVE d[k] \in Nat
      OBVIOUS
    <3>1. CASE k <= i
      <4>1. k \in 1..n BY <1>1
      <4> QED BY <1>7, <3>1, <4>1 DEF Totals
    <3>2. CASE k > i
      <4>1. to(k) \in 1..n /\ j <= to(k) BY <1>2, <3>2 DEF to
      <4>2. c[j] <= c[to(k)] BY <1>7, <4>1, TotalsGrow
      <4>3. c[to(k)] \in Nat BY <1>7, <4>1 DEF Totals
      <4>4. c[to(k)] - (c[j] - c[i]) \in Nat BY <1>8, <4>2, <4>3
      <4> QED BY <3>2, <4>4
    <3> QED BY <3>1, <3>2
  <2>2. d[1] = 0 BY <1>1, <1>7 DEF Totals, Sums
  <2>3. ASSUME NEW k \in 1..m - 1 PROVE d[k + 1] = d[k] + StepCost(t[k], t[k + 1])
    <3>1. PICK x \in 1..n - 1 : /\ s[x] = t[k] /\ s[x + 1] = t[k + 1] /\ to(k + 1) = x + 1
                                /\ k # i => to(k) = x
                                /\ k = i => x = j
      BY <1>4
    <3>2. c[x + 1] = c[x] + StepCost(t[k], t[k + 1]) BY <1>7, <3>1 DEF Totals, Sums
    <3>3. k \in 1..m /\ k + 1 \in 1..m BY <1>1
    <3>4. {c[x], c[x + 1]} \subseteq Nat
      <4>1. x \in 1..n /\ x + 1 \in 1..n BY <1>1
      <4> QED BY <1>7, <4>1 DEF Totals
    <3>5. StepCost(t[k], t[k + 1]) \in Nat
      <4>1. t[k] \in Person /\ t[k + 1] \in Neighbours(t[k])
        BY <1>3, <1>6, <3>3 DEF Walk
      <4> QED BY <4>1, StepCostType
    <3>6. CASE k < i
      <4>1. k <= i /\ k + 1 <= i BY <3>6
      <4>2. to(k) = k /\ to(k + 1) = k + 1 BY <4>1 DEF to
      <4>3. x = k BY <3>1, <3>6, <4>2
      <4> QED BY <3>2, <3>3, <4>1, <4>3
    <3>7. CASE k = i
      <4>1. k <= i /\ ~(k + 1 <= i) BY <3>7
      <4>2. d[k] = c[i] /\ d[k + 1] = c[to(k + 1)] - (c[j] - c[i]) BY <3>3, <3>7, <4>1
      <4>3. to(k + 1) = x + 1 /\ x = j BY <3>1, <3>7
      <4>4. d[k + 1] = c[x + 1] - (c[x] - c[i]) BY <4>2, <4>3
      <4> HIDE DEF d, to
      <4> QED BY <1>8, <3>2, <3>4, <3>5, <4>2, <4>4
    <3>8. CASE k > i
      <4>1. ~(k <= i) /\ ~(k + 1 <= i) /\ k # i BY <3>8
      <4>2. d[k] = c[to(k)] - (c[j] - c[i]) /\ d[k + 1] = c[to(k + 1)] - (c[j] - c[i])
        BY <3>3, <4>1
      <4>3. to(k + 1) = x + 1 /\ to(k) = x BY <3>1, <4>1
      <4>4. d[k + 1] = c[x + 1] - (c[j] - c[i]) /\ d[k] = c[x] - (c[j] - c[i])
        BY <4>2, <4>3
      <4>5. c[x + 1] - (c[j] - c[i]) = (c[x] - (c[j] - c[i])) + StepCost(t[k], t[k + 1])
        BY <1>8, <3>2, <3>4, <3>5, SameShift
      <4> HIDE DEF d, to
      <4> QED BY <4>4, <4>5
    <3> QED BY <3>6, <3>7, <3>8
  <2>4. d \in [1..m -> Nat]
    <3>1. d = [k \in 1..m |-> d[k]] OBVIOUS
    <3> HIDE DEF d
    <3> QED BY <2>1, <3>1
  <2> HIDE DEF d
  <2> QED BY <1>3, <2>2, <2>3, <2>4 DEF Totals, Sums
<1>10. Cost(t) = d[m] /\ Cost(t) \in Nat BY <1>3, <1>6, <1>9, CostIs
<1>11. d[m] <= c[n]
  <2>1. m \in 1..m BY <1>1
  <2>2. CASE m <= i
    <3>1. m = i BY <1>1, <2>2
    <3>2. d[m] = c[i] BY <2>1, <2>2, <3>1
    <3> QED BY <1>8, <3>2
  <2>3. CASE ~(m <= i)
    <3>1. d[m] = c[to(m)] - (c[j] - c[i]) BY <2>1, <2>3
    <3>2. to(m) = n BY <1>1, <2>3 DEF to
    <3>3. d[m] = c[n] - (c[j] - c[i]) BY <3>1, <3>2
    <3> QED BY <1>8, <3>3
  <2> QED BY <2>2, <2>3
<1>12. Cost(s) \in Nat BY <1>7, CostIs
<1> QED BY <1>3, <1>6, <1>7, <1>10, <1>11, <1>12 DEF t

-----------------------------------------------------------------------------
(* Route search: the graph does not change.                                *)
LEMMA GraphStays ==
  ASSUME UNCHANGED <<mode, rows, org>>
  PROVE  /\ \A p : Neighbours(p)' = Neighbours(p)
         /\ \A p, q : StepCost(p, q)' = StepCost(p, q)
         /\ \A s : Walk(s)' = Walk(s) /\ Cost(s)' = Cost(s)
         /\ \A x : KeyOf(x)' = KeyOf(x)
<1>1. \A pair : Walkable(pair)' = Walkable(pair)
  BY DEF Walkable, OwnContact
<1>2. \A p : Neighbours(p)' = Neighbours(p)
  BY <1>1 DEF Neighbours
<1>3. \A pair : Best(pair)' = Best(pair)
  BY <1>1 DEF Best
<1>4. \A q : NodePenalty(q)' = NodePenalty(q)
  BY <1>2 DEF NodePenalty
<1>5. \A p, q : StepCost(p, q)' = StepCost(p, q)
  BY <1>3, <1>4 DEF StepCost
<1>6. \A s : Walk(s)' = Walk(s)
  BY <1>2 DEF Walk
<1>7. \A s : Cost(s)' = Cost(s)
  BY <1>5 DEF Cost
<1>8. \A x : KeyOf(x)' = KeyOf(x)
  BY DEF KeyOf, Key
<1> QED BY <1>2, <1>5, <1>6, <1>7, <1>8

-----------------------------------------------------------------------------
(* Route search: the inductive invariant.                                  *)
Passable(q) == q \notin excluded \/ q = To

\* What _best_path may walk: around the excluded, and no further than To.
Permitted(s) ==
  /\ \A i \in 2..Len(s) : Passable(s[i])
  /\ \A i \in 1..Len(s) - 1 : s[i] # To

PathFits(e) ==
  /\ e \in [cost : Nat, path : Seq(Person)]
  /\ Walk(e.path) /\ e.cost = Cost(e.path) /\ Len(e.path) <= MaxHops + 1
  /\ mode = "connect" => Permitted(e.path)
EntryFits(e) == PathFits(e) /\ KeyOf(e) \in DOMAIN memo /\ memo[KeyOf(e)] <= e.cost
HeapFits == \A e \in heap : EntryFits(e)

\* A state that is remembered is still in the heap, or all that is one step
\* further is remembered at no more than it costs to come this way.
Pending(k) == \E f \in heap : KeyOf(f) = k /\ f.cost = memo[k]
Followed(k) ==
  /\ k[1] # To
  /\ k[2] < MaxHops =>
       \A q \in Neighbours(k[1]) :
         Passable(q) => /\ <<q, k[2] + 1>> \in DOMAIN memo
                        /\ memo[<<q, k[2] + 1>>] <= memo[k] + StepCost(k[1], q)

Books ==
  mode = "connect" =>
    /\ DOMAIN memo \subseteq Person \X (0..MaxHops)
    /\ memo[<<From, 0>>] = 0
    /\ \A k \in DOMAIN memo : Pending(k) \/ Followed(k)

\* The routes so far are as they should be, and what they run through is what
\* the next one may not.
RoutesFit ==
  mode = "connect" =>
    /\ excluded = org \cup UNION {Bridges(routes[i]) : i \in DOMAIN routes}
    /\ \A n \in DOMAIN routes :
         /\ routes[n] \in Left(n - 1)
         /\ \A s \in Left(n - 1) : Cost(routes[n]) <= Cost(s)
    /\ done => Len(routes) = Wanted \/ heap = {}

RInv == RouteTyped /\ HeapFits /\ Books /\ RoutesFit

-----------------------------------------------------------------------------
LEMMA EntryFacts ==
  ASSUME NEW e, PathFits(e)
  PROVE  /\ e.path \in Seq(Person) /\ e.cost \in Nat /\ Len(e.path) = HopsOf(e) + 1
         /\ HopsOf(e) \in 0..MaxHops /\ Node(e) \in Person
         /\ mode = "connect" => KeyOf(e) = <<Node(e), HopsOf(e)>>
<1>1. e.path \in Seq(Person) /\ e.cost \in Nat /\ e.path # <<>> /\ Len(e.path) <= MaxHops + 1
  BY DEF PathFits, Walk
<1>2. Len(e.path) \in Nat /\ Len(e.path) >= 1 /\ e.path[Len(e.path)] \in Person
  BY <1>1
<1>3. MaxHops \in Nat BY RouteSearchAssumption
<1> QED BY <1>1, <1>2, <1>3 DEF HopsOf, Node, KeyOf, Key

\* What an entry is extended to.
Onward(e, q) == [cost |-> e.cost + StepCost(Node(e), q), path |-> Append(e.path, q)]

LEMMA OnwardFits ==
  ASSUME RouteTyped, NEW e, PathFits(e), HopsOf(e) < MaxHops, ~Arrived(e),
         NEW q \in Neighbours(Node(e)), mode = "connect" => Passable(q)
  PROVE  /\ PathFits(Onward(e, q))
         /\ Node(Onward(e, q)) = q /\ HopsOf(Onward(e, q)) = HopsOf(e) + 1
         /\ Onward(e, q).cost = e.cost + StepCost(Node(e), q)
<1> DEFINE x == Onward(e, q)
           n == Len(e.path)
<1>1. /\ e.path \in Seq(Person) /\ e.cost \in Nat /\ n = HopsOf(e) + 1
      /\ HopsOf(e) \in 0..MaxHops /\ Walk(e.path) /\ e.cost = Cost(e.path)
  BY EntryFacts DEF PathFits
<1>2. /\ Walk(Append(e.path, q)) /\ StepCost(Node(e), q) \in Nat /\ q \in Person
      /\ Cost(Append(e.path, q)) = Cost(e.path) + StepCost(Node(e), q)
  BY <1>1, AppendCost DEF Node
<1>3. /\ x.path = Append(e.path, q) /\ x.cost = e.cost + StepCost(Node(e), q)
      /\ x \in [cost : Nat, path : Seq(Person)]
  BY <1>1, <1>2 DEF Onward
<1>4. /\ Len(x.path) = n + 1 /\ x.path[n + 1] = q
      /\ \A i \in 1..n : x.path[i] = e.path[i]
  BY <1>1, <1>2, <1>3
<1> HIDE DEF x
<1>5. Node(x) = q /\ HopsOf(x) = HopsOf(e) + 1
  BY <1>1, <1>4 DEF Node, HopsOf
<1>6. Len(x.path) <= MaxHops + 1
  BY <1>1, <1>4, RouteSearchAssumption
<1>7. ASSUME mode = "connect" PROVE Permitted(x.path)
  <2>1. Permitted(e.path) BY <1>7 DEF PathFits
  <2>2. e.path[n] # To BY <1>7 DEF Arrived, Node
  <2>3. ASSUME NEW i \in 2..n + 1 PROVE Passable(x.path[i])
    <3>1. CASE i = n + 1 BY <1>4, <1>7, <3>1
    <3>2. CASE i # n + 1
      <4>1. i \in 2..n /\ i \in 1..n BY <1>1, <3>2
      <4>2. Passable(e.path[i]) BY <2>1, <4>1 DEF Permitted
      <4> QED BY <1>4, <4>1, <4>2
    <3> QED BY <3>1, <3>2
  <2>4. ASSUME NEW i \in 1..n PROVE x.path[i] # To
    <3>1. CASE i = n BY <1>4, <2>2, <3>1
    <3>2. CASE i # n
      <4>1. i \in 1..n - 1 BY <1>1, <3>2
      <4>2. e.path[i] # To BY <2>1, <4>1 DEF Permitted
      <4> QED BY <1>4, <4>2
    <3> QED BY <3>1, <3>2
  <2>5. (n + 1) - 1 = n BY <1>1
  <2> QED BY <1>4, <2>3, <2>4, <2>5 DEF Permitted
<1> QED BY <1>1, <1>2, <1>3, <1>5, <1>6, <1>7 DEF PathFits, x

LEMMA Extended ==
  ASSUME RouteTyped, NEW e, PathFits(e), ~Arrived(e), ~Spent(e), NEW x \in Extensions(e)
  PROVE  /\ PathFits(x)
         /\ \E q \in Neighbours(Node(e)) : x = Onward(e, q) /\ Node(x) = q
         /\ HopsOf(x) = HopsOf(e) + 1
<1>1. PICK q \in Neighbours(Node(e)) :
        /\ x = Onward(e, q)
        /\ mode = "connect" => q \notin excluded \/ q = To
  BY DEF Extensions, Onward
<1>2. HopsOf(e) < MaxHops BY EntryFacts, RouteSearchAssumption DEF Spent
<1> QED BY <1>1, <1>2, OnwardFits DEF Passable

\* What an extension does to the memo.
LEMMA MemoMoves ==
  ASSUME RouteTyped, HeapFits, NEW e \in heap, Extend(e)
  PROVE  /\ memo' \in [DOMAIN memo' -> Nat]
         /\ \A k \in DOMAIN memo : k \in DOMAIN memo' /\ memo'[k] <= memo[k]
         /\ \A x \in Kept(e) : KeyOf(x) \in DOMAIN memo' /\ memo'[KeyOf(x)] = x.cost
         /\ \A k \in DOMAIN memo' :
              \/ k \in DOMAIN memo /\ memo'[k] = memo[k]
              \/ \E x \in Kept(e) : KeyOf(x) = k /\ memo'[k] = x.cost
<1> DEFINE Reached(k) == {x \in Kept(e) : KeyOf(x) = k}
<1>1. memo' = [k \in DOMAIN memo \cup {KeyOf(x) : x \in Kept(e)} |->
                 IF Reached(k) = {} THEN memo[k] ELSE (CHOOSE x \in Reached(k) : TRUE).cost]
  BY DEF Extend
<1>2. PathFits(e) /\ ~Arrived(e) /\ ~Spent(e) BY DEF HeapFits, EntryFits, Extend
<1>3. \A x \in Kept(e) : x \in Extensions(e) /\ x.cost \in Nat /\ Improves(x)
  BY <1>2, Extended, EntryFacts DEF Kept
<1>4. ASSUME NEW x \in Kept(e), NEW y \in Kept(e), KeyOf(x) = KeyOf(y) PROVE x = y
  <2>1. Node(x) = Node(y) BY <1>4 DEF KeyOf, Key
  <2>2. /\ \E q \in Neighbours(Node(e)) : x = Onward(e, q) /\ Node(x) = q
        /\ \E q \in Neighbours(Node(e)) : y = Onward(e, q) /\ Node(y) = q
    BY <1>2, <1>3, Extended
  <2> QED BY <2>1, <2>2
<1>5. ASSUME NEW x \in Kept(e)
      PROVE  KeyOf(x) \in DOMAIN memo' /\ memo'[KeyOf(x)] = x.cost
  <2>1. Reached(KeyOf(x)) = {x} BY <1>4
  <2> HIDE DEF Reached
  <2> QED BY <1>1, <2>1
<1>6. ASSUME NEW k \in DOMAIN memo'
      PROVE  \/ k \in DOMAIN memo /\ memo'[k] = memo[k]
             \/ \E x \in Kept(e) : KeyOf(x) = k /\ memo'[k] = x.cost
  <2>1. CASE Reached(k) = {}
    <3>1. k \in DOMAIN memo BY <1>1, <2>1
    <3> HIDE DEF Reached
    <3> QED BY <1>1, <2>1, <3>1
  <2>2. CASE Reached(k) # {}
    <3>1. PICK x \in Kept(e) : KeyOf(x) = k BY <2>2
    <3> QED BY <1>5, <3>1
  <2> QED BY <2>1, <2>2
<1>7. ASSUME NEW k \in DOMAIN memo PROVE k \in DOMAIN memo' /\ memo'[k] <= memo[k]
  <2>1. k \in DOMAIN memo' BY <1>1
  <2>2. memo[k] \in Nat BY DEF RouteTyped
  <2>3. CASE memo'[k] = memo[k] BY <2>1, <2>2, <2>3
  <2>4. CASE \E x \in Kept(e) : KeyOf(x) = k /\ memo'[k] = x.cost
    <3>1. PICK x \in Kept(e) : KeyOf(x) = k /\ memo'[k] = x.cost BY <2>4
    <3> QED BY <1>3, <2>1, <2>2, <3>1 DEF Improves
  <2> QED BY <1>6, <2>1, <2>3, <2>4
<1>8. memo' \in [DOMAIN memo' -> Nat]
  <2>1. \A k \in DOMAIN memo' : memo'[k] \in Nat
    BY <1>3, <1>6 DEF RouteTyped
  <2>2. memo' = [k \in DOMAIN memo' |-> memo'[k]] BY <1>1
  <2> QED BY <2>1, <2>2
<1> QED BY <1>5, <1>6, <1>7, <1>8

LEMMA LeftStays ==
  ASSUME UNCHANGED <<mode, rows, org>>, NEW n, \A i \in 1..n : routes'[i] = routes[i]
  PROVE  Left(n)' = Left(n)
<1>1. SimplePaths(To)' = SimplePaths(To)
  BY GraphStays DEF SimplePaths, Bridges
<1>2. \A i \in 1..n : Bridges(routes'[i]) = Bridges(routes[i])
  BY DEF Bridges
<1>3. ASSUME NEW s \in SimplePaths(To)
      PROVE  (\A i \in 1..n : Bridges(s) \cap Bridges(routes'[i]) = {})
                <=> (\A i \in 1..n : Bridges(s) \cap Bridges(routes[i]) = {})
  BY <1>2
<1>4. Left(n)' = {s \in SimplePaths(To)' :
                    \A i \in 1..n : Bridges(s) \cap Bridges(routes'[i]) = {}}
  BY DEF Left, Bridges
<1> QED BY <1>1, <1>3, <1>4 DEF Left

-----------------------------------------------------------------------------
(* Route search: what leaves the heap for To is the cheapest route left.   *)

\* Whatever way there is to To, the heap has an entry that costs no more and
\* is no longer.
LEMMA FrontierReaches ==
  ASSUME RouteTyped, HeapFits, Books, mode = "connect",
         NEW s, Walk(s), Permitted(s), s[Len(s)] = To, Len(s) <= MaxHops + 1
  PROVE  \E f \in heap : f.cost <= Cost(s) /\ HopsOf(f) <= Len(s) - 1
<1>1. PICK c : Totals(s, c) /\ Cost(s) = c[Len(s)] BY CostIsTotal
<1>2. /\ s \in Seq(Person) /\ Len(s) \in Nat /\ Len(s) >= 1 /\ s[1] = From
      /\ MaxHops \in Nat
  BY RouteSearchAssumption DEF Walk
<1>3. c[1] = 0 /\ \A i \in 1..Len(s) : c[i] \in Nat /\ c[i] <= c[Len(s)]
  <2>1. \A i \in 1..Len(s) : i <= Len(s) /\ Len(s) \in 1..Len(s) BY <1>2
  <2> QED BY <1>1, <2>1, TotalsGrow DEF Totals, Sums
<1> DEFINE key(i) == <<s[i], i - 1>>
           Held(i) == key(i) \in DOMAIN memo /\ memo[key(i)] <= c[i]
           Behind == {i \in Nat : i \in 1..Len(s) /\ ~Held(i)}
<1>4. ASSUME NEW i \in 1..Len(s), Held(i), Pending(key(i))
      PROVE  \E f \in heap : f.cost <= Cost(s) /\ HopsOf(f) <= Len(s) - 1
  <2>1. PICK f \in heap : KeyOf(f) = key(i) /\ f.cost = memo[key(i)]
    BY <1>4 DEF Pending
  <2>2. PathFits(f) BY DEF HeapFits, EntryFits
  <2>3. KeyOf(f) = <<Node(f), HopsOf(f)>> /\ f.cost \in Nat BY <2>2, EntryFacts
  <2>4. HopsOf(f) = i - 1 BY <2>1, <2>3
  <2>5. f.cost <= c[i] BY <1>4, <2>1
  <2>6. c[i] \in Nat /\ c[i] <= c[Len(s)] /\ c[Len(s)] \in Nat BY <1>2, <1>3
  <2>7. f.cost <= Cost(s) BY <1>1, <2>3, <2>5, <2>6
  <2>8. HopsOf(f) <= Len(s) - 1 BY <1>2, <2>4
  <2> QED BY <2>7, <2>8
<1> SUFFICES ASSUME ~\E f \in heap : f.cost <= Cost(s) /\ HopsOf(f) <= Len(s) - 1
             PROVE  FALSE
  OBVIOUS
<1>5. ASSUME NEW i \in 1..Len(s), Held(i) PROVE Followed(key(i))
  BY <1>4, <1>5 DEF Books
<1>6. Behind = {}
  <2> SUFFICES ASSUME Behind # {} PROVE FALSE
    OBVIOUS
  <2>1. PICK m \in Behind : \A y \in Behind : m <= y
    <3> HIDE DEF Held
    <3> QED BY LeastExists
  <2>2. m # 1
    <3>1. key(1) = <<From, 0>> BY <1>2
    <3>2. <<From, 0>> \in DOMAIN memo /\ memo[<<From, 0>>] = 0 BY DEF RouteTyped, Books
    <3> HIDE DEF key
    <3> QED BY <1>3, <2>1, <3>1, <3>2
  <2>3. /\ m - 1 \in Nat /\ ~(m <= m - 1) /\ m - 1 \in 1..Len(s) /\ m \in 2..Len(s)
        /\ m - 1 \in 1..Len(s) - 1 /\ (m - 1) + 1 = m /\ m - 2 < MaxHops
        /\ ((m - 1) - 1) + 1 = m - 1 /\ (m - 1) - 1 < MaxHops
    BY <1>2, <2>2
  <2>4. Held(m - 1)
    <3> HIDE DEF Held
    <3> QED BY <2>1, <2>3
  <2>5. Followed(key(m - 1))
    <3> HIDE DEF Held, key
    <3> QED BY <1>5, <2>3, <2>4
  <2>6. /\ s[m] \in Neighbours(s[m - 1]) /\ Passable(s[m]) /\ s[m - 1] \in Person
        /\ c[m] = c[m - 1] + StepCost(s[m - 1], s[m])
    BY <1>1, <1>2, <2>3 DEF Walk, Permitted, Totals, Sums
  <2>7. /\ key(m) \in DOMAIN memo
        /\ memo[key(m)] <= memo[key(m - 1)] + StepCost(s[m - 1], s[m])
    <3>1. key(m - 1)[1] = s[m - 1] /\ key(m - 1)[2] = (m - 1) - 1 OBVIOUS
    <3>2. key(m) = <<s[m], ((m - 1) - 1) + 1>> BY <2>3
    <3> HIDE DEF key
    <3>3. key(m - 1)[2] < MaxHops /\ key(m) = <<s[m], key(m - 1)[2] + 1>>
      BY <2>3, <3>1, <3>2
    <3> QED BY <2>5, <2>6, <3>1, <3>3 DEF Followed
  <2>8. StepCost(s[m - 1], s[m]) \in Nat BY <2>6, StepCostType
  <2>9. memo[key(m)] \in Nat /\ memo[key(m - 1)] \in Nat
    <3> HIDE DEF key
    <3> QED BY <2>4, <2>7 DEF RouteTyped
  <2>10. {c[m], c[m - 1]} \subseteq Nat BY <1>3, <2>3
  <2>11. memo[key(m - 1)] <= c[m - 1] BY <2>4
  <2>12. memo[key(m)] <= c[m]
    <3> HIDE DEF key
    <3> QED BY <2>6, <2>7, <2>8, <2>9, <2>10, <2>11
  <2> QED BY <2>1, <2>7, <2>12
<1>7. Held(Len(s)) /\ Len(s) \in 1..Len(s)
  <2>1. Len(s) \in 1..Len(s) BY <1>2
  <2> HIDE DEF Held
  <2> QED BY <1>2, <1>6, <2>1
<1>8. Followed(key(Len(s)))
  <2> HIDE DEF Held, key
  <2> QED BY <1>5, <1>7
<1> QED BY <1>8 DEF Followed

\* A route without repeated people around the excluded is one the search may
\* walk.
LEMMA LeftIsPermitted ==
  ASSUME RouteTyped, RoutesFit, mode = "connect", NEW s \in Left(Len(routes))
  PROVE  /\ Walk(s) /\ Permitted(s) /\ s[Len(s)] = To
         /\ Len(s) <= MaxHops + 1 /\ Cost(s) \in Nat
<1>1. /\ s \in SimplePaths(To)
      /\ \A i \in 1..Len(routes) : Bridges(s) \cap Bridges(routes[i]) = {}
  BY DEF Left
<1>2. PICK n \in 2..MaxHops + 1 : s \in [1..n -> Person]
  BY <1>1 DEF SimplePaths
<1>3. n \in Nat /\ n >= 2 /\ n <= MaxHops + 1 BY RouteSearchAssumption
<1>4. s \in Seq(Person) /\ Len(s) = n BY <1>2, <1>3
<1>5. /\ s[1] = From /\ s[n] = To /\ Bridges(s) \cap org = {} /\ DOMAIN s = 1..n
      /\ \A i, j \in 1..n : s[i] = s[j] => i = j
      /\ \A i \in 1..n - 1 : s[i + 1] \in Neighbours(s[i])
  BY <1>1, <1>2, <1>4 DEF SimplePaths
<1>6. Walk(s)
  <2>1. s # <<>> BY <1>3, <1>4
  <2> QED BY <1>4, <1>5, <2>1 DEF Walk
<1>7. ASSUME NEW i \in 2..n PROVE Passable(s[i])
  <2>1. CASE i = n BY <1>5, <2>1 DEF Passable
  <2>2. CASE i # n
    <3>1. i \in 2..n - 1 BY <1>3, <2>2
    <3>2. s[i] \in Bridges(s) BY <1>4, <3>1 DEF Bridges
    <3>3. s[i] \notin org BY <1>5, <3>2
    <3>4. \A j \in DOMAIN routes : s[i] \notin Bridges(routes[j])
      BY <1>1, <3>2 DEF RouteTyped
    <3> QED BY <3>3, <3>4 DEF RoutesFit, Passable
  <2> QED BY <2>1, <2>2
<1>8. ASSUME NEW i \in 1..n - 1 PROVE s[i] # To
  <2>1. i \in 1..n /\ n \in 1..n /\ i # n BY <1>3
  <2> QED BY <1>5, <2>1
<1>9. Permitted(s) BY <1>4, <1>7, <1>8 DEF Permitted
<1>10. Cost(s) \in Nat BY <1>6, CostIsTotal, CostIs
<1> QED BY <1>3, <1>4, <1>5, <1>6, <1>9, <1>10

LEMMA ArrivalIsSimple ==
  ASSUME RInv, mode = "connect", NEW e \in heap, Cheapest(e), Arrived(e),
         NEW i \in 1..Len(e.path), NEW j \in 1..Len(e.path), i < j
  PROVE  e.path[i] # e.path[j]
<1> DEFINE s == e.path
           n == Len(s)
           m == n - (j - i)
           t == Without(s, i, j)
<1>1. /\ PathFits(e) /\ RouteTyped /\ HeapFits /\ Books
      /\ Walk(s) /\ Permitted(s) /\ e.cost = Cost(s) /\ n <= MaxHops + 1 /\ s[n] = To
      /\ e.cost \in Nat /\ s \in Seq(Person) /\ n = HopsOf(e) + 1 /\ HopsOf(e) \in Nat
  <2>1. PathFits(e) BY DEF RInv, HeapFits, EntryFits
  <2> QED BY <2>1, EntryFacts DEF RInv, PathFits, Arrived, Node
<1> HIDE DEF s
<1> SUFFICES ASSUME s[i] = s[j] PROVE FALSE
  BY DEF s
<1>2. i \in 1..n /\ j \in 1..n /\ n \in Nat BY <1>1 DEF s
<1>3. j # n /\ i \in 1..n - 1
  <2>1. i \in 1..n - 1 BY <1>2
  <2>2. s[i] # To BY <1>1, <2>1 DEF Permitted
  <2> QED BY <1>1, <2>1, <2>2
<1>4. /\ Walk(t) /\ Len(t) = m /\ Cost(t) <= Cost(s) /\ Cost(t) \in Nat
  BY <1>1, <1>2, LoopsCost
<1>5. m \in Nat /\ m < n /\ i < m /\ 1 <= i BY <1>2, <1>3
<1>6. \A k \in 1..m : t[k] = IF k <= i THEN s[k] ELSE s[k + (j - i)]
  BY DEF Without
<1> HIDE DEF t
<1>7. t[m] = To
  <2>1. m \in 1..m /\ ~(m <= i) /\ m + (j - i) = n BY <1>2, <1>5
  <2>2. t[m] = s[m + (j - i)] BY <1>6, <2>1
  <2> QED BY <1>1, <2>1, <2>2
<1>8. Permitted(t)
  <2>1. ASSUME NEW k \in 2..m PROVE Passable(t[k])
    <3>1. k \in 1..m /\ k \in 2..n /\ k + (j - i) \in 2..n BY <1>2, <1>5
    <3>2. Passable(s[k]) /\ Passable(s[k + (j - i)]) BY <1>1, <3>1 DEF Permitted
    <3> QED BY <1>6, <3>1, <3>2
  <2>2. ASSUME NEW k \in 1..m - 1 PROVE t[k] # To
    <3>1. k \in 1..m /\ k \in 1..n - 1 /\ k + (j - i) \in 1..n - 1 BY <1>2, <1>5
    <3>2. s[k] # To /\ s[k + (j - i)] # To BY <1>1, <3>1 DEF Permitted
    <3> QED BY <1>6, <3>1, <3>2
  <2> QED BY <1>4, <2>1, <2>2 DEF Permitted
<1>9. PICK f \in heap : f.cost <= Cost(t) /\ HopsOf(f) <= m - 1
  <2>1. m <= MaxHops + 1 BY <1>1, <1>2, <1>5, RouteSearchAssumption
  <2> QED BY <1>1, <1>4, <1>7, <1>8, <2>1, FrontierReaches
<1>10. PathFits(f) BY <1>1 DEF HeapFits, EntryFits
<1>11. f.cost \in Nat /\ HopsOf(f) \in Nat BY <1>10, EntryFacts
<1>12. e.cost < f.cost \/ (e.cost = f.cost /\ HopsOf(e) <= HopsOf(f))
  BY DEF Cheapest
<1> QED BY <1>1, <1>2, <1>4, <1>5, <1>9, <1>11, <1>12

LEMMA ArrivalIsCheapest ==
  ASSUME RInv, mode = "connect", NEW e \in heap, Cheapest(e), Arrived(e)
  PROVE  /\ e.path \in Left(Len(routes))
         /\ \A s \in Left(Len(routes)) : Cost(e.path) <= Cost(s)
<1> DEFINE s == e.path
           n == Len(s)
<1>1. /\ PathFits(e) /\ RouteTyped /\ HeapFits /\ Books /\ RoutesFit
      /\ Walk(s) /\ Permitted(s) /\ e.cost = Cost(s) /\ n <= MaxHops + 1 /\ s[n] = To
      /\ e.cost \in Nat /\ s \in Seq(Person) /\ n = HopsOf(e) + 1 /\ HopsOf(e) \in Nat
  <2>1. PathFits(e) BY DEF RInv, HeapFits, EntryFits
  <2> QED BY <2>1, EntryFacts DEF RInv, PathFits, Arrived, Node
<1>2. ASSUME NEW t \in Left(Len(routes)) PROVE Cost(s) <= Cost(t)
  <2>1. /\ Walk(t) /\ Permitted(t) /\ t[Len(t)] = To /\ Len(t) <= MaxHops + 1
        /\ Cost(t) \in Nat
    BY <1>1, LeftIsPermitted
  <2>2. PICK f \in heap : f.cost <= Cost(t)
    BY <1>1, <2>1, FrontierReaches
  <2>3. f.cost \in Nat
    <3>1. PathFits(f) BY <1>1 DEF HeapFits, EntryFits
    <3> QED BY <3>1, EntryFacts
  <2>4. e.cost < f.cost \/ e.cost = f.cost BY DEF Cheapest
  <2> QED BY <1>1, <2>1, <2>2, <2>3, <2>4
<1>3. \A i, j \in 1..n : s[i] = s[j] => i = j
  <2> SUFFICES ASSUME NEW i \in 1..n, NEW j \in 1..n, s[i] = s[j], i # j PROVE FALSE
    OBVIOUS
  <2>1. i < j \/ j < i OBVIOUS
  <2> QED BY <2>1, ArrivalIsSimple
<1>4. n \in 2..MaxHops + 1
  <2>1. s[1] = From /\ From # To /\ n >= 1 BY <1>1, RouteSearchAssumption DEF Walk
  <2>2. n # 1 BY <1>1, <2>1
  <2> QED BY <1>1, <2>1, <2>2, RouteSearchAssumption
<1>5. ASSUME NEW q \in Bridges(s) PROVE q \notin excluded
  <2>1. PICK i \in 2..n - 1 : q = s[i] BY DEF Bridges
  <2>2. i \in 2..n /\ i \in 1..n - 1 BY <1>1
  <2>3. Passable(s[i]) /\ s[i] # To BY <1>1, <2>2 DEF Permitted
  <2> QED BY <2>1, <2>3 DEF Passable
<1>6. s \in SimplePaths(To)
  <2>1. s \in [1..n -> Person] /\ DOMAIN s = 1..n BY <1>1
  <2>2. Bridges(s) \cap org = {} BY <1>1, <1>5 DEF RouteTyped
  <2>3. s \in UNION {[1..k -> Person] : k \in 2..MaxHops + 1} BY <1>4, <2>1
  <2>4. s[1] = From /\ \A i \in 1..n - 1 : s[i + 1] \in Neighbours(s[i]) BY <1>1 DEF Walk
  <2> HIDE DEF s
  <2> QED BY <1>1, <1>3, <2>1, <2>2, <2>3, <2>4 DEF SimplePaths
<1>7. \A i \in 1..Len(routes) : Bridges(s) \cap Bridges(routes[i]) = {}
  <2>1. \A i \in DOMAIN routes : Bridges(routes[i]) \subseteq excluded
    BY <1>1 DEF RoutesFit
  <2> QED BY <1>1, <1>5, <2>1 DEF RouteTyped
<1> QED BY <1>2, <1>6, <1>7 DEF Left

-----------------------------------------------------------------------------
(* Route search: every step keeps the invariant.                           *)

\* A heap with the start alone, and nothing else remembered.
LEMMA FreshStart ==
  ASSUME RouteTyped, heap = {Start}, memo = AtStart
  PROVE  HeapFits /\ Books
<1>1. /\ KeyOf(Start) = <<From, 0>> /\ Start.cost = 0 /\ Start.path = <<From>>
      /\ Start \in [cost : Nat, path : Seq(Person)]
  BY RouteSearchAssumption DEF Start, KeyOf, Key, Node, HopsOf
<1>2. DOMAIN memo = {<<From, 0>>} /\ memo[<<From, 0>>] = 0 BY DEF AtStart
<1>3. Walk(<<From>>) /\ Cost(<<From>>) = 0 BY StartCost
<1>4. Permitted(<<From>>) /\ Len(<<From>>) = 1 BY DEF Permitted
<1>5. EntryFits(Start)
  BY <1>1, <1>2, <1>3, <1>4, RouteSearchAssumption DEF EntryFits, PathFits
<1>6. Pending(<<From, 0>>) BY <1>1, <1>2 DEF Pending
<1>7. From \in Person /\ 0 \in 0..MaxHops BY RouteSearchAssumption
<1> QED BY <1>2, <1>5, <1>6, <1>7 DEF HeapFits, Books

LEMMA RouteInitFits == RouteInit => RInv
<1> SUFFICES ASSUME RouteInit PROVE RInv
  OBVIOUS
<1>1. RouteTyped
  <2>1. org \subseteq Person BY DEF RouteInit, OrgShaped
  <2>2. memo \in [DOMAIN memo -> Nat] /\ <<From, 0>> \in DOMAIN memo
    BY DEF RouteInit, AtStart
  <2>3. routes = <<>> /\ Len(routes) = 0 /\ routes \in Seq(Seq(Person)) BY DEF RouteInit
  <2>4. mode \in Modes /\ rows \in [Pairs -> RowSets] /\ excluded = org /\ done = FALSE
    BY DEF RouteInit
  <2>5. Wanted \in Nat /\ 0 < Wanted BY RouteSearchAssumption
  <2>6. Len(routes) <= Wanted /\ Len(routes) < Wanted BY <2>3, <2>5
  <2> QED BY <2>1, <2>2, <2>3, <2>4, <2>6 DEF RouteTyped
<1>2. HeapFits /\ Books BY <1>1, FreshStart DEF RouteInit
<1>3. RoutesFit
  <2>1. DOMAIN routes = {} BY DEF RouteInit
  <2> QED BY <2>1 DEF RouteInit, RoutesFit
<1> QED BY <1>1, <1>2, <1>3 DEF RInv

LEMMA ExtendFits == ASSUME RInv, NEW e \in heap, Extend(e) PROVE RInv'
<1>1. /\ RouteTyped /\ HeapFits /\ Books /\ RoutesFit
      /\ UNCHANGED <<mode, rows, org, excluded, routes, done>>
      /\ heap' = (heap \ {e}) \cup Kept(e) /\ ~done
  BY DEF RInv, Extend
<1>2. EntryFits(e) /\ PathFits(e) /\ ~Arrived(e) /\ ~Spent(e)
  BY DEF RInv, HeapFits, EntryFits, Extend
<1>3. /\ memo' \in [DOMAIN memo' -> Nat]
      /\ \A k \in DOMAIN memo : k \in DOMAIN memo' /\ memo'[k] <= memo[k]
      /\ \A x \in Kept(e) : KeyOf(x) \in DOMAIN memo' /\ memo'[KeyOf(x)] = x.cost
      /\ \A k \in DOMAIN memo' :
           \/ k \in DOMAIN memo /\ memo'[k] = memo[k]
           \/ \E x \in Kept(e) : KeyOf(x) = k /\ memo'[k] = x.cost
  BY <1>1, MemoMoves
<1>4. /\ \A p : Neighbours(p)' = Neighbours(p)
      /\ \A p, q : StepCost(p, q)' = StepCost(p, q)
      /\ \A s : Walk(s)' = Walk(s) /\ Cost(s)' = Cost(s)
      /\ \A x : KeyOf(x)' = KeyOf(x)
  BY <1>1, GraphStays
<1>5. \A x : PathFits(x)' = PathFits(x)
  BY <1>1, <1>4 DEF PathFits, Permitted, Passable
<1>6. \A x \in Kept(e) : /\ x \in Extensions(e) /\ Improves(x) /\ PathFits(x)
                         /\ HopsOf(x) = HopsOf(e) + 1 /\ x.cost \in Nat
  BY <1>1, <1>2, Extended, EntryFacts DEF Kept
<1>7. RouteTyped' BY <1>1, <1>3 DEF RouteTyped
<1>8. HeapFits'
  <2> SUFFICES ASSUME NEW f \in heap' PROVE EntryFits(f)'
    BY DEF HeapFits
  <2>1. CASE f \in heap
    <3>1. PathFits(f) /\ KeyOf(f) \in DOMAIN memo /\ memo[KeyOf(f)] <= f.cost
      BY <1>1, <2>1 DEF HeapFits, EntryFits
    <3>2. f.cost \in Nat BY <3>1, EntryFacts
    <3>3. KeyOf(f) \in DOMAIN memo' /\ memo'[KeyOf(f)] <= memo[KeyOf(f)]
      BY <1>3, <3>1
    <3>4. memo[KeyOf(f)] \in Nat /\ memo'[KeyOf(f)] \in Nat
      BY <1>1, <1>3, <3>1, <3>3 DEF RouteTyped
    <3> QED BY <1>4, <1>5, <3>1, <3>2, <3>3, <3>4 DEF EntryFits
  <2>2. CASE f \in Kept(e)
    <3>1. KeyOf(f) \in DOMAIN memo' /\ memo'[KeyOf(f)] = f.cost BY <1>3, <2>2
    <3>2. PathFits(f) /\ f.cost \in Nat BY <1>6, <2>2
    <3> QED BY <1>4, <1>5, <3>1, <3>2 DEF EntryFits
  <2> QED BY <1>1, <2>1, <2>2
<1>9. Books'
  <2> SUFFICES ASSUME mode = "connect" PROVE Books'
    BY <1>1 DEF Books
  <2>1. ASSUME NEW x \in Kept(e)
        PROVE  /\ KeyOf(x) = <<Node(x), HopsOf(e) + 1>> /\ Node(x) \in Person
               /\ HopsOf(e) + 1 \in 0..MaxHops /\ HopsOf(e) \in Nat
    <3>1. KeyOf(x) = <<Node(x), HopsOf(x)>> /\ Node(x) \in Person /\ HopsOf(x) \in 0..MaxHops
      BY <1>6, EntryFacts
    <3>2. HopsOf(e) \in Nat BY <1>2, EntryFacts
    <3> QED BY <1>6, <3>1, <3>2
  <2>2. DOMAIN memo' \subseteq Person \X (0..MaxHops)
    <3> SUFFICES ASSUME NEW k \in DOMAIN memo' PROVE k \in Person \X (0..MaxHops)
      OBVIOUS
    <3>1. CASE k \in DOMAIN memo BY <1>1, <3>1 DEF Books
    <3>2. CASE \E x \in Kept(e) : KeyOf(x) = k BY <2>1, <3>2
    <3> QED BY <1>3, <3>1, <3>2
  <2>3. memo'[<<From, 0>>] = 0
    <3>1. <<From, 0>> \in DOMAIN memo' BY <1>1, <1>3 DEF RouteTyped
    <3>2. ASSUME NEW x \in Kept(e) PROVE KeyOf(x) # <<From, 0>>
      BY <2>1, <3>2
    <3> QED BY <1>1, <1>3, <3>1, <3>2 DEF Books
  <2>4. ASSUME NEW k \in DOMAIN memo' PROVE Pending(k)' \/ Followed(k)'
    <3>1. CASE \E x \in Kept(e) : KeyOf(x) = k /\ memo'[k] = x.cost
      <4>1. PICK x \in Kept(e) : KeyOf(x) = k /\ memo'[k] = x.cost BY <3>1
      <4>2. x \in heap' /\ KeyOf(x)' = k BY <1>1, <1>4, <4>1
      <4> QED BY <4>1, <4>2 DEF Pending
    <3>2. CASE k \in DOMAIN memo /\ memo'[k] = memo[k]
      <4>1. ASSUME NEW f \in heap, KeyOf(f) = k, f.cost = memo[k], f # e
            PROVE  Pending(k)'
        <5>1. f \in heap' /\ KeyOf(f)' = k BY <1>1, <1>4, <4>1
        <5> QED BY <3>2, <4>1, <5>1 DEF Pending
      <4>2. CASE KeyOf(e) = k /\ e.cost = memo[k]
        <5>1. k = <<Node(e), HopsOf(e)>> /\ HopsOf(e) \in Nat /\ e.cost \in Nat
          BY <1>2, <4>2, EntryFacts
        <5>2. k[1] = Node(e) /\ k[2] = HopsOf(e) BY <5>1
        <5>3. k[1] # To BY <1>2, <5>2 DEF Arrived
        <5>4. ASSUME NEW q \in Neighbours(Node(e)), Passable(q)
              PROVE  /\ <<q, k[2] + 1>> \in DOMAIN memo'
                     /\ memo'[<<q, k[2] + 1>>] <= memo'[k] + StepCost(Node(e), q)
          <6> DEFINE x == Onward(e, q)
          <6>1. HopsOf(e) < MaxHops
            BY <1>2, <5>1, RouteSearchAssumption DEF Spent
          <6>2. /\ PathFits(x) /\ Node(x) = q /\ HopsOf(x) = HopsOf(e) + 1
                /\ x.cost = e.cost + StepCost(Node(e), q)
            BY <1>1, <1>2, <5>4, <6>1, OnwardFits
          <6>3. x \in Extensions(e) BY <5>4 DEF Extensions, Onward, Passable
          <6> HIDE DEF x
          <6>4. KeyOf(x) = <<q, k[2] + 1>> /\ x.cost \in Nat
            BY <5>2, <6>2, EntryFacts
          <6>5. CASE Improves(x)
            <7>1. x \in Kept(e) BY <6>3, <6>5 DEF Kept
            <7> QED BY <1>3, <3>2, <4>2, <6>2, <6>4, <7>1
          <6>6. CASE ~Improves(x)
            <7>1. KeyOf(x) \in DOMAIN memo /\ ~(x.cost < memo[KeyOf(x)])
              BY <6>6 DEF Improves
            <7>2. KeyOf(x) \in DOMAIN memo' /\ memo'[KeyOf(x)] <= memo[KeyOf(x)]
              BY <1>3, <7>1
            <7>3. memo[KeyOf(x)] \in Nat /\ memo'[KeyOf(x)] \in Nat
              BY <1>1, <1>3, <7>1, <7>2 DEF RouteTyped
            <7>4. memo'[KeyOf(x)] <= x.cost BY <6>4, <7>1, <7>2, <7>3
            <7> QED BY <3>2, <4>2, <6>2, <6>4, <7>2, <7>4
          <6> QED BY <6>5, <6>6
        <5>5. Followed(k)'
          BY <1>1, <1>4, <5>2, <5>3, <5>4 DEF Followed, Passable
        <5> QED BY <5>5
      <4>3. CASE Followed(k)
        <5>1. k[1] # To BY <4>3 DEF Followed
        <5>2. ASSUME k[2] < MaxHops, NEW q \in Neighbours(k[1]), Passable(q)
              PROVE  /\ <<q, k[2] + 1>> \in DOMAIN memo'
                     /\ memo'[<<q, k[2] + 1>>] <= memo'[k] + StepCost(k[1], q)
          <6> DEFINE l == <<q, k[2] + 1>>
          <6>1. l \in DOMAIN memo /\ memo[l] <= memo[k] + StepCost(k[1], q)
            BY <4>3, <5>2 DEF Followed
          <6> HIDE DEF l
          <6>2. l \in DOMAIN memo' /\ memo'[l] <= memo[l] BY <1>3, <6>1
          <6>3. {memo[l], memo'[l], memo[k]} \subseteq Nat
            BY <1>1, <1>3, <3>2, <6>1, <6>2 DEF RouteTyped
          <6>4. StepCost(k[1], q) \in Nat
            <7>1. k \in Person \X (0..MaxHops) BY <1>1, <3>2 DEF Books
            <7>2. k[1] \in Person BY <7>1
            <7> QED BY <1>1, <5>2, <7>2, StepCostType
          <6> QED BY <3>2, <6>1, <6>2, <6>3, <6>4 DEF l
        <5>3. Followed(k)'
          BY <1>1, <1>4, <5>1, <5>2 DEF Followed, Passable
        <5> QED BY <5>3
      <4>4. Pending(k) \/ Followed(k) BY <1>1, <3>2 DEF Books
      <4> QED BY <4>1, <4>2, <4>3, <4>4 DEF Pending
    <3> QED BY <1>3, <3>1, <3>2
  <2> QED BY <2>2, <2>3, <2>4 DEF Books
<1>10. RoutesFit'
  <2>1. \A n : Left(n)' = Left(n) BY <1>1, LeftStays
  <2> QED BY <1>1, <1>4, <2>1 DEF RoutesFit
<1> QED BY <1>7, <1>8, <1>9, <1>10 DEF RInv

\* Steps that leave the graph, the memo and the routes alone.
LEMMA QuietFits ==
  ASSUME RInv, UNCHANGED <<mode, rows, org, memo, excluded, routes>>, heap' \subseteq heap,
         done' = done \/ done' = TRUE, ~done,
         mode = "connect" => \A k \in DOMAIN memo : Pending(k)' \/ Followed(k),
         mode = "connect" /\ done' => heap' = {}
  PROVE  RInv'
<1>1. RouteTyped /\ HeapFits /\ Books /\ RoutesFit BY DEF RInv
<1>2. /\ \A p : Neighbours(p)' = Neighbours(p)
      /\ \A p, q : StepCost(p, q)' = StepCost(p, q)
      /\ \A s : Walk(s)' = Walk(s) /\ Cost(s)' = Cost(s)
      /\ \A x : KeyOf(x)' = KeyOf(x)
  BY GraphStays
<1>3. RouteTyped' BY <1>1 DEF RouteTyped
<1>4. \A x : EntryFits(x)' = EntryFits(x)
  BY <1>2 DEF EntryFits, PathFits, Permitted, Passable
<1>5. HeapFits' BY <1>1, <1>4 DEF HeapFits
<1>6. \A k : Followed(k)' = Followed(k)
  BY <1>2 DEF Followed, Passable
<1>7. Books' BY <1>1, <1>6 DEF Books
<1>8. \A n : Left(n)' = Left(n) BY LeftStays
<1>9. RoutesFit' BY <1>1, <1>2, <1>8 DEF RoutesFit
<1> QED BY <1>3, <1>5, <1>7, <1>9 DEF RInv

LEMMA DiscardFits == ASSUME RInv, NEW e \in heap, Discard(e) PROVE RInv'
<1>1. /\ ~done /\ ~Arrived(e) /\ Spent(e) /\ heap' = heap \ {e}
      /\ UNCHANGED <<mode, rows, org, memo, excluded, routes, done>>
      /\ EntryFits(e) /\ PathFits(e) /\ Books
  BY DEF Discard, RInv, HeapFits, EntryFits
<1>2. ASSUME mode = "connect", NEW k \in DOMAIN memo PROVE Pending(k)' \/ Followed(k)
  <2>1. CASE Pending(k)
    <3>1. PICK f \in heap : KeyOf(f) = k /\ f.cost = memo[k] BY <2>1 DEF Pending
    <3>2. CASE f = e
      <4>1. k = <<Node(e), HopsOf(e)>> /\ HopsOf(e) \in 0..MaxHops
        BY <1>1, <1>2, <3>1, <3>2, EntryFacts
      <4>2. k[1] = Node(e) /\ k[2] = HopsOf(e) BY <4>1
      <4>3. HopsOf(e) >= MaxHops /\ Node(e) # To BY <1>1, <1>2 DEF Spent, Arrived
      <4> QED BY <4>1, <4>2, <4>3, RouteSearchAssumption DEF Followed
    <3>3. CASE f # e
      <4>1. f \in heap' /\ KeyOf(f)' = k BY <1>1, <3>1, <3>3, GraphStays
      <4> QED BY <1>1, <3>1, <4>1 DEF Pending
    <3> QED BY <3>2, <3>3
  <2> QED BY <1>1, <1>2, <2>1 DEF Books
<1> QED BY <1>1, <1>2, QuietFits

LEMMA ExhaustedFits == RInv /\ Exhausted => RInv'
<1> SUFFICES ASSUME RInv, Exhausted PROVE RInv'
  OBVIOUS
<1>1. /\ ~done /\ done' = TRUE /\ heap = {} /\ heap' = heap
      /\ UNCHANGED <<mode, rows, org, memo, excluded, routes>>
  BY DEF Exhausted
<1>2. ASSUME mode = "connect", NEW k \in DOMAIN memo PROVE Followed(k)
  BY <1>1, <1>2 DEF RInv, Books, Pending
<1> QED BY <1>1, <1>2, QuietFits

LEMMA ArriveFits == ASSUME RInv, NEW e \in heap, Arrive(e) PROVE RInv'
<1> DEFINE n == Len(routes)
<1>1. /\ ~done /\ Cheapest(e) /\ Arrived(e)
      /\ routes' = Append(routes, e.path)
      /\ done' = (mode = "paths" \/ Len(routes') = Wanted)
      /\ excluded' = excluded \cup Bridges(e.path)
      /\ heap' = {Start} /\ memo' = AtStart
      /\ UNCHANGED <<mode, rows, org>>
  BY DEF Arrive
<1>2. /\ RouteTyped /\ RoutesFit /\ PathFits(e) /\ e.path \in Seq(Person)
      /\ routes \in Seq(Seq(Person)) /\ n \in Nat /\ n < Wanted
  <2>1. RouteTyped /\ RoutesFit /\ PathFits(e) BY DEF RInv, HeapFits, EntryFits
  <2> QED BY <1>1, <2>1, EntryFacts DEF RouteTyped
<1>3. /\ routes' \in Seq(Seq(Person)) /\ Len(routes') = n + 1
      /\ routes'[n + 1] = e.path /\ \A i \in 1..n : routes'[i] = routes[i]
      /\ DOMAIN routes' = 1..n + 1 /\ DOMAIN routes = 1..n
  BY <1>1, <1>2
<1>4. Bridges(e.path) \subseteq Person BY <1>2 DEF Bridges
<1>5. RouteTyped'
  <2>1. memo' \in [DOMAIN memo' -> Nat] /\ <<From, 0>> \in DOMAIN memo'
    BY <1>1 DEF AtStart
  <2>2. Len(routes') <= Wanted /\ (~done' => Len(routes') < Wanted)
    <3>0. Wanted \in Nat BY RouteSearchAssumption
    <3>1. n + 1 <= Wanted /\ (n + 1 # Wanted => n + 1 < Wanted)
      <4> HIDE DEF n
      <4> QED BY <1>2, <3>0
    <3>2. ~done' => Len(routes') # Wanted BY <1>1
    <3> HIDE DEF n
    <3> QED BY <1>3, <3>1, <3>2
  <2>3. done' \in BOOLEAN BY <1>1
  <2>4. mode' \in Modes /\ rows' \in [Pairs -> RowSets] /\ org' \subseteq Person
        /\ org' \subseteq excluded' /\ excluded' \subseteq Person
    BY <1>1, <1>2, <1>4 DEF RouteTyped
  <2> QED BY <1>3, <2>1, <2>2, <2>3, <2>4 DEF RouteTyped
<1>6. RouteTyped /\ heap = {Start} /\ memo = AtStart => HeapFits /\ Books
  BY FreshStart
<1>7. HeapFits' /\ Books'
  <2>1. (RouteTyped /\ heap = {Start} /\ memo = AtStart => HeapFits /\ Books)'
    BY FreshStart, PTL
  <2> QED BY <1>1, <1>5, <2>1 DEF Start, AtStart
<1>8. RoutesFit'
  <2> SUFFICES ASSUME mode = "connect" PROVE RoutesFit'
    BY <1>1 DEF RoutesFit
  <2>1. /\ e.path \in Left(n) /\ \A s \in Left(n) : Cost(e.path) <= Cost(s)
    BY <1>1, ArrivalIsCheapest
  <2>2. \A m \in 1..n + 1 : Left(m - 1)' = Left(m - 1)
    <3> SUFFICES ASSUME NEW m \in 1..n + 1 PROVE Left(m - 1)' = Left(m - 1)
      OBVIOUS
    <3>1. \A i \in 1..m - 1 : routes'[i] = routes[i] BY <1>2, <1>3
    <3> QED BY <1>1, <3>1, LeftStays
  <2>3. \A s : Cost(s)' = Cost(s) BY <1>1, GraphStays
  <2>4. ASSUME NEW m \in 1..n + 1
        PROVE  /\ routes'[m] \in Left(m - 1)'
               /\ \A s \in Left(m - 1)' : Cost(routes[m])' <= Cost(s)'
    <3>1. CASE m = n + 1
      <4>1. m - 1 = n /\ routes'[m] = e.path BY <1>2, <1>3, <3>1
      <4> QED BY <2>1, <2>2, <2>3, <4>1
    <3>2. CASE m # n + 1
      <4>1. m \in 1..n /\ routes'[m] = routes[m] BY <1>2, <1>3, <3>2
      <4>2. routes[m] \in Left(m - 1) /\ \A s \in Left(m - 1) : Cost(routes[m]) <= Cost(s)
        BY <1>2, <1>3, <4>1 DEF RoutesFit
      <4> QED BY <2>2, <2>3, <4>1, <4>2
    <3> QED BY <3>1, <3>2
  <2>5. excluded' = org' \cup UNION {Bridges(routes'[i]) : i \in DOMAIN routes'}
    <3>1. excluded = org \cup UNION {Bridges(routes[i]) : i \in 1..n}
      BY <1>2, <1>3 DEF RoutesFit
    <3>2. \A i \in 1..n : Bridges(routes'[i]) = Bridges(routes[i]) BY <1>3
    <3>3. Bridges(routes'[n + 1]) = Bridges(e.path) BY <1>3
    <3>4. \A i \in 1..n + 1 : i \in 1..n \/ i = n + 1 BY <1>2
    <3>5. 1..n \subseteq 1..n + 1 /\ n + 1 \in 1..n + 1 BY <1>2
    <3> HIDE DEF n
    <3>6. ASSUME NEW q
          PROVE  (\E i \in 1..n + 1 : q \in Bridges(routes'[i]))
                    <=> (\E i \in 1..n : q \in Bridges(routes[i])) \/ q \in Bridges(e.path)
      BY <3>2, <3>3, <3>4, <3>5
    <3>7. ASSUME NEW q
          PROVE  q \in excluded'
                    <=> q \in org \/ \E i \in 1..n + 1 : q \in Bridges(routes'[i])
      BY <1>1, <3>1, <3>6
    <3> QED BY <1>1, <1>3, <3>7
  <2>6. done' => Len(routes') = Wanted BY <1>1
  <2> QED BY <1>1, <1>3, <2>4, <2>5, <2>6 DEF RoutesFit
<1> QED BY <1>5, <1>7, <1>8 DEF RInv

LEMMA RouteStepFits == RInv /\ [RouteNext]_routeVars => RInv'
<1> SUFFICES ASSUME RInv, [RouteNext]_routeVars PROVE RInv'
  OBVIOUS
<1>1. CASE Exhausted BY <1>1, ExhaustedFits
<1>2. ASSUME NEW e \in heap, Extend(e) PROVE RInv' BY <1>2, ExtendFits
<1>3. ASSUME NEW e \in heap, Discard(e) PROVE RInv' BY <1>3, DiscardFits
<1>4. ASSUME NEW e \in heap, Arrive(e) PROVE RInv' BY <1>4, ArriveFits
<1>5. CASE UNCHANGED routeVars
  <2>1. UNCHANGED <<mode, rows, org, heap, memo, excluded, routes, done>>
    BY <1>5 DEF routeVars
  <2>2. /\ \A p : Neighbours(p)' = Neighbours(p)
        /\ \A p, q : StepCost(p, q)' = StepCost(p, q)
        /\ \A s : Walk(s)' = Walk(s) /\ Cost(s)' = Cost(s)
        /\ \A x : KeyOf(x)' = KeyOf(x)
        /\ \A n : Left(n)' = Left(n)
    BY <2>1, GraphStays, LeftStays
  <2>3. RouteTyped' BY <2>1 DEF RInv, RouteTyped
  <2>4. HeapFits'
    BY <2>1, <2>2 DEF RInv, HeapFits, EntryFits, PathFits, Permitted, Passable
  <2>5. \A k : Pending(k)' = Pending(k) /\ Followed(k)' = Followed(k)
    BY <2>1, <2>2 DEF Pending, Followed, Passable
  <2>6. Books' BY <2>1, <2>5 DEF RInv, Books
  <2>7. RoutesFit' BY <2>1, <2>2 DEF RInv, RoutesFit
  <2> QED BY <2>3, <2>4, <2>6, <2>7 DEF RInv
<1> QED BY <1>1, <1>2, <1>3, <1>4, <1>5 DEF RouteNext

LEMMA RouteInvariance == RouteSpec => []RInv
BY RouteInitFits, RouteStepFits, PTL DEF RouteSpec

-----------------------------------------------------------------------------
(* Route search: the free test walks outwards by whole hops.               *)

\* W is what RouteExists computes: everyone within h hops.
Waves(W) ==
  /\ W \in [0..MaxHops -> SUBSET Person]
  /\ W[0] = {From}
  /\ \A h \in 1..MaxHops :
       W[h] = W[h - 1] \cup ((UNION {Neighbours(p) : p \in W[h - 1] \ {To}})
                               \ (org \ {From, To}))

LEMMA WavesExist == \E W : Waves(W) /\ (RouteExists <=> To \in W[MaxHops])
<1> DEFINE next(A) == (UNION {Neighbours(p) : p \in A \ {To}}) \ (org \ {From, To})
           F == [h \in Nat |-> [A \in SUBSET Person |-> A \cup next(A)]]
           Body(f) == [h \in 0..MaxHops |->
                         IF h = 0 THEN {From} ELSE f[h - 1] \cup next(f[h - 1])]
           Wave == CHOOSE f : f = Body(f)
<1>1. MaxHops \in Nat /\ {From} \in SUBSET Person BY RouteSearchAssumption
<1>2. \A h \in Nat : F[h] \in [SUBSET Person -> SUBSET Person]
  <2>1. \A p : Neighbours(p) \subseteq Person BY DEF Neighbours
  <2>2. \A A \in SUBSET Person : A \cup next(A) \in SUBSET Person BY <2>1
  <2> HIDE DEF next
  <2> QED BY <2>2
<1>3. PICK g : Iterates(SUBSET Person, {From}, F, MaxHops, g)
  <2> HIDE DEF F
  <2> QED BY <1>1, <1>2, IteratesExist
<1>4. /\ g \in [0..MaxHops -> SUBSET Person] /\ g[0] = {From}
      /\ \A h \in 1..MaxHops : g[h] = g[h - 1] \cup next(g[h - 1])
  <2>1. \A h \in 1..MaxHops : h \in Nat /\ h - 1 \in 0..MaxHops BY <1>1
  <2> HIDE DEF next
  <2> QED BY <1>3, <2>1 DEF Iterates
<1>5. RouteExists <=> To \in Wave[MaxHops] BY DEF RouteExists
<1>6. g = Body(g)
  <2>1. \A h \in 0..MaxHops :
          g[h] = IF h = 0 THEN {From} ELSE g[h - 1] \cup next(g[h - 1])
    <3>1. \A h \in 0..MaxHops : h = 0 \/ h \in 1..MaxHops BY <1>1
    <3> HIDE DEF next
    <3> QED BY <1>4, <3>1
  <2> HIDE DEF next
  <2> QED BY <1>4, <2>1
<1>7. Wave = Body(Wave)
  <2> HIDE DEF Body
  <2> QED BY <1>6
<1>8. \A h \in 0..MaxHops :
        Wave[h] = IF h = 0 THEN {From} ELSE Wave[h - 1] \cup next(Wave[h - 1])
  <2> HIDE DEF Wave, next
  <2> QED BY <1>7
<1> HIDE DEF Wave, next
<1> DEFINE Differ == {h \in Nat : h <= MaxHops /\ Wave[h] # g[h]}
<1>9. Differ = {}
  <2> SUFFICES ASSUME Differ # {} PROVE FALSE
    OBVIOUS
  <2>1. PICK h \in Differ : \A y \in Differ : h <= y BY LeastExists
  <2>2. h # 0
    <3>1. 0 \in 0..MaxHops BY <1>1
    <3>2. Wave[0] = {From} BY <1>8, <3>1
    <3> QED BY <1>4, <2>1, <3>2
  <2>3. /\ h - 1 \in Nat /\ ~(h <= h - 1) /\ h - 1 <= MaxHops
        /\ h \in 1..MaxHops /\ h \in 0..MaxHops
    BY <1>1, <2>2
  <2>4. Wave[h - 1] = g[h - 1] BY <2>1, <2>3
  <2>5. Wave[h] = g[h] BY <1>4, <1>8, <2>2, <2>3, <2>4
  <2> QED BY <2>5
<1>10. Wave[MaxHops] = g[MaxHops] BY <1>1, <1>9
<1>11. Waves(g) BY <1>4 DEF Waves, next
<1> QED BY <1>5, <1>10, <1>11

\* A route is found by the waves: its i-th person is within i - 1 hops.
LEMMA WavesFollowRoutes ==
  ASSUME NEW W, Waves(W), mode = "connect", NEW s \in SimplePaths(To)
  PROVE  To \in W[MaxHops]
<1>1. PICK n \in 2..MaxHops + 1 : s \in [1..n -> Person]
  BY DEF SimplePaths
<1>2. MaxHops \in Nat /\ n \in Nat /\ n >= 2 /\ n - 1 <= MaxHops BY RouteSearchAssumption
<1>3. s \in Seq(Person) /\ Len(s) = n BY <1>1, <1>2
<1>4. /\ s[1] = From /\ s[n] = To /\ Bridges(s) \cap org = {} /\ DOMAIN s = 1..n
      /\ \A i, j \in 1..n : s[i] = s[j] => i = j
      /\ \A i \in 1..n - 1 : s[i + 1] \in Neighbours(s[i])
  BY <1>1, <1>3 DEF SimplePaths
<1> DEFINE Missed == {i \in Nat : i \in 1..n /\ s[i] \notin W[i - 1]}
<1>5. Missed = {}
  <2> SUFFICES ASSUME Missed # {} PROVE FALSE
    OBVIOUS
  <2>1. PICK i \in Missed : \A y \in Missed : i <= y BY LeastExists
  <2>2. i # 1 BY <1>4, <2>1 DEF Waves
  <2>3. /\ i - 1 \in Nat /\ ~(i <= i - 1) /\ i - 1 \in 1..n /\ i - 1 \in 1..n - 1
        /\ (i - 1) + 1 = i /\ i - 1 \in 1..MaxHops /\ i - 1 # n /\ n \in 1..n
    BY <1>2, <2>1, <2>2
  <2>4. s[i - 1] \in W[(i - 1) - 1] BY <2>1, <2>3
  <2>5. s[i - 1] # To BY <1>4, <2>3
  <2>6. s[i] \in Neighbours(s[i - 1]) BY <1>4, <2>3
  <2>7. s[i] \notin org \ {From, To}
    <3>1. CASE i = n BY <1>4, <3>1
    <3>2. CASE i # n
      <4>1. i \in 2..n - 1 BY <1>2, <2>1, <2>2, <3>2
      <4>2. s[i] \in Bridges(s) BY <1>3, <4>1 DEF Bridges
      <4> QED BY <1>4, <4>2
    <3> QED BY <3>1, <3>2
  <2>8. s[i] \in W[i - 1] BY <2>3, <2>4, <2>5, <2>6, <2>7 DEF Waves
  <2> QED BY <2>1, <2>8
<1>6. To \in W[n - 1]
  <2>1. n \in 1..n BY <1>2
  <2> QED BY <1>4, <1>5, <2>1
<1> DEFINE Lost == {h \in Nat : h \in n - 1..MaxHops /\ To \notin W[h]}
<1>7. Lost = {}
  <2> SUFFICES ASSUME Lost # {} PROVE FALSE
    OBVIOUS
  <2>1. PICK h \in Lost : \A y \in Lost : h <= y BY LeastExists
  <2>2. h # n - 1 BY <1>6, <2>1
  <2>3. h - 1 \in Nat /\ ~(h <= h - 1) /\ h - 1 \in n - 1..MaxHops /\ h \in 1..MaxHops
    BY <1>2, <2>1, <2>2
  <2>4. To \in W[h - 1] BY <2>1, <2>3
  <2> QED BY <2>1, <2>3, <2>4 DEF Waves
<1> QED BY <1>2, <1>7

\* When the heap is empty and no route was found, the search has followed
\* everyone the waves reach, and has not met To.
LEMMA SearchFollowsWaves ==
  ASSUME RInv, mode = "connect", heap = {}, routes = <<>>, NEW W, Waves(W)
  PROVE  To \notin W[MaxHops]
<1>1. /\ MaxHops \in Nat /\ excluded = org /\ From # To
      /\ <<From, 0>> \in DOMAIN memo
      /\ \A k \in DOMAIN memo : Followed(k) /\ k \in Person \X (0..MaxHops)
  <2>1. DOMAIN routes = {} OBVIOUS
  <2>2. excluded = org BY <2>1 DEF RInv, RoutesFit
  <2> QED BY <2>2, RouteSearchAssumption DEF RInv, RouteTyped, Books, Pending
<1> DEFINE Met(p, h) == \E i \in 0..h : <<p, i>> \in DOMAIN memo
           Ahead == {h \in Nat : h <= MaxHops /\ \E p \in W[h] : ~Met(p, h)}
<1>2. Ahead = {}
  <2> SUFFICES ASSUME Ahead # {} PROVE FALSE
    OBVIOUS
  <2>1. PICK h \in Ahead : \A y \in Ahead : h <= y
    <3> HIDE DEF Met
    <3> QED BY LeastExists
  <2>2. PICK q \in W[h] : ~Met(q, h) BY <2>1
  <2>3. h # 0
    <3>1. CASE h = 0
      <4>1. q = From BY <2>2, <3>1 DEF Waves
      <4>2. 0 \in 0..h BY <3>1
      <4> QED BY <1>1, <2>2, <4>1, <4>2
    <3> QED BY <3>1
  <2>4. h \in Nat /\ h - 1 \in Nat /\ ~(h <= h - 1) /\ h - 1 <= MaxHops /\ h \in 1..MaxHops
    BY <1>1, <2>1, <2>3
  <2>5. \A p \in W[h - 1] : Met(p, h - 1)
    <3> HIDE DEF Met
    <3> QED BY <2>1, <2>4
  <2>6. q \notin W[h - 1]
    <3> SUFFICES ASSUME q \in W[h - 1] PROVE FALSE
      OBVIOUS
    <3>1. PICK i \in 0..h - 1 : <<q, i>> \in DOMAIN memo BY <2>5
    <3>2. i \in 0..h BY <2>4
    <3> QED BY <2>2, <3>1, <3>2
  <2>7. PICK p \in W[h - 1] \ {To} : q \in Neighbours(p) /\ q \notin org \ {From, To}
    BY <2>2, <2>4, <2>6 DEF Waves
  <2>8. PICK i \in 0..h - 1 : <<p, i>> \in DOMAIN memo BY <2>5, <2>7
  <2>9. i + 1 \in 0..h /\ i < MaxHops BY <1>1, <2>4
  <2>10. q # From
    <3>1. 0 \in 0..h BY <2>4
    <3> QED BY <1>1, <2>2, <3>1
  <2>11. Passable(q) BY <1>1, <2>7, <2>10 DEF Passable
  <2>12. Followed(<<p, i>>) BY <1>1, <2>8
  <2>13. <<q, i + 1>> \in DOMAIN memo BY <2>7, <2>9, <2>11, <2>12 DEF Followed
  <2> QED BY <2>2, <2>9, <2>13
<1> SUFFICES ASSUME To \in W[MaxHops] PROVE FALSE
  OBVIOUS
<1>3. Met(To, MaxHops)
  <2>1. MaxHops <= MaxHops BY <1>1
  <2> HIDE DEF Met
  <2> QED BY <1>1, <1>2, <2>1
<1>4. PICK i \in 0..MaxHops : <<To, i>> \in DOMAIN memo BY <1>3
<1>5. Followed(<<To, i>>) BY <1>1, <1>4
<1> QED BY <1>5 DEF Followed

-----------------------------------------------------------------------------
\* Each route is a path through nobody twice and through no organization, and
\* is the cheapest within the limit that shares no bridge with those before
\* it; another one comes whenever there is any (_best_path, _diverse_paths).
THEOREM RoutesAreCheapest == RouteSpec => []CheapestRoutes
<1>1. RInv => CheapestRoutes
  <2> SUFFICES ASSUME RInv, done, mode = "connect" PROVE CheapestRoutes
    BY DEF CheapestRoutes
  <2>1. RouteTyped /\ HeapFits /\ Books /\ RoutesFit BY DEF RInv
  <2>2. ASSUME Len(routes) < Wanted, NEW s \in Left(Len(routes)) PROVE FALSE
    <3>1. heap = {} BY <2>1, <2>2, RouteSearchAssumption DEF RoutesFit, RouteTyped
    <3>2. /\ Walk(s) /\ Permitted(s) /\ s[Len(s)] = To /\ Len(s) <= MaxHops + 1
      BY <2>1, <2>2, LeftIsPermitted
    <3>3. \E f \in heap : f.cost <= Cost(s) BY <2>1, <3>2, FrontierReaches
    <3> QED BY <3>1, <3>3
  <2> QED BY <2>1, <2>2 DEF RoutesFit, CheapestRoutes
<1> QED BY <1>1, RouteInvariance, PTL

\* The test that lets a build skip its paid search says yes exactly if the
\* search for routes comes out with one (_route_exists).
THEOREM FreeTestAgrees == RouteSpec => []ExistenceAgrees
<1>1. RInv => ExistenceAgrees
  <2> SUFFICES ASSUME RInv, done, mode = "connect" PROVE RouteExists <=> routes # <<>>
    BY DEF ExistenceAgrees
  <2>1. RouteTyped /\ RoutesFit /\ routes \in Seq(Seq(Person)) /\ Wanted \in Nat \ {0}
    BY RouteSearchAssumption DEF RInv, RouteTyped
  <2>2. PICK W : Waves(W) /\ (RouteExists <=> To \in W[MaxHops]) BY WavesExist
  <2>3. CASE routes = <<>>
    <3>1. Len(routes) = 0 BY <2>3
    <3>2. heap = {} BY <2>1, <3>1 DEF RoutesFit
    <3> QED BY <2>2, <2>3, <3>2, SearchFollowsWaves
  <2>4. CASE routes # <<>>
    <3>1. 1 \in DOMAIN routes BY <2>1, <2>4
    <3>2. routes[1] \in SimplePaths(To) BY <2>1, <3>1 DEF RoutesFit, Left
    <3> QED BY <2>2, <2>4, <3>2, WavesFollowRoutes
  <2> QED BY <2>3, <2>4
<1> QED BY <1>1, RouteInvariance, PTL

\* In every mode: what lies in the heap is within the limit and was remembered
\* at no more than its cost, and no more routes are kept than are wanted.
THEOREM RoutesAreTyped == RouteSpec => []RouteTypeOK
<1>1. RInv => RouteTypeOK
  <2> SUFFICES ASSUME RInv PROVE RouteTypeOK
    OBVIOUS
  <2>1. ASSUME NEW e \in heap
        PROVE  /\ e.cost \in Nat /\ e.path \in Seq(Person)
               /\ HopsOf(e) <= MaxHops /\ memo[KeyOf(e)] <= e.cost
    <3>1. EntryFits(e) BY DEF RInv, HeapFits
    <3>2. HopsOf(e) \in 0..MaxHops /\ e.cost \in Nat /\ e.path \in Seq(Person)
      BY <3>1, EntryFacts DEF EntryFits
    <3>3. HopsOf(e) <= MaxHops BY <3>2, RouteSearchAssumption
    <3> QED BY <3>1, <3>2, <3>3 DEF EntryFits
  <2> QED BY <2>1 DEF RInv, RouteTyped, RouteTypeOK
<1> QED BY <1>1, RouteInvariance, PTL
=============================================================================
