---------------------------- MODULE Visits_proofs ----------------------------
(***************************************************************************)
(* Proofs about visits and the lookups they make.  NodeVisit: whatever     *)
(* visits overlap, fail or overwrite each other's record, the record       *)
(* claims, and a walk that is done lacks, nothing but results that were    *)
(* stored or that a retried commit lost.  Lookups: for any threads and any *)
(* lifetimes, how old an answer, or a failure behind one, can be.          *)
(***************************************************************************)
EXTENDS NodeVisit, Lookups, TLAPS, SequenceTheorems, FiniteSetTheorems, WellFoundedInduction

-----------------------------------------------------------------------------
(* NodeVisit.                                                              *)

Budget == [Silo -> 0..Full]

Row == [processed : BOOLEAN, known : BOOLEAN, context : Context, silos : Budget]

Phase == {"begin", "registers", "search", "coauthors", "again", "profile", "angle",
          "directory", "mark", "reload", "remark"} \cup Ended

Visit == [phase : Phase, copy : Row, prior : Row, ask : Budget, lost : SUBSET Silo,
          profile : Profiles, attempt : Nat]

\* Everything has its type.
Typed == record \in Row /\ visit \in [Walk -> Visit] /\ profile \in Profiles

\* Questions that were asked for the graph: their results are stored, or were
\* lost with the commit of a visit that returned all the same.
Accounted == stored \cup forfeited
Claims(r) == Questions(r.context, r.silos)

\* What the row said when a visit loaded it was accounted for then, and is now.
CopyEarned ==
  \A w \in Walk : Claims(visit[w].copy) \cup Claims(visit[w].prior) \subseteq Accounted

\* A visit under way asks for exactly what its copy lacks.
Left == {"begin", "skipped", "cancelled"}
AsksWhatIsMissing ==
  \A w \in Walk : visit[w].phase \notin Left => visit[w].ask = Missing(w, visit[w].copy)

\* What a visit that is done has asked is accounted for.
DoneStored == \A w \in Walk : visit[w].phase = "done" => Asked(w) \subseteq Accounted

\* The inductive invariant.
IInv ==
  /\ Typed /\ answered \subseteq stored
  /\ CoverageEarned /\ CopyEarned /\ AsksWhatIsMissing /\ DoneStored

-----------------------------------------------------------------------------
(* The questions of a budget.                                              *)

\* A question belongs to a budget if its number is within the silo's.
LEMMA QuestionsMembers ==
  ASSUME NEW c, NEW b, NEW q
  PROVE  q \in Questions(c, b) <=> \E s \in Silo : \E n \in 1..b[s] : q = <<c, s, n>>
BY DEF Questions

LEMMA FullIsPositive == Full \in Nat /\ Full >= 1 /\ Floor \in Nat
<1>1. Full \in Nat \ {0} /\ Floor \in Nat
  BY VisitAssumption
<1>2. QED
  BY <1>1

\* Weights are natural numbers, whatever the signals and the silos are.
LEMMA WeightsAreWeights ==
  ASSUME NEW signals
  PROVE  initial_weights(signals) \in [Silo -> Nat]
<1>1. Prior(signals) \in
        [company : Nat, news : Nat, board_nonprofit : Nat, education : Nat,
         publications : Nat, events : Nat, government : Nat, family : Nat, friends : Nat]
  BY DEF Prior, Bonus
<1>2. \A s \in DOMAIN Prior(signals) : Prior(signals)[s] \in Nat
  BY <1>1
<1>3. QED
  BY <1>2 DEF initial_weights

\* No silo is given more questions than it has.
LEMMA AllowanceIsBudget ==
  ASSUME NEW weights \in [Silo -> Nat]
  PROVE  query_budget(weights) \in Budget
<1>1. ASSUME NEW s \in Silo
      PROVE  (weights[s] * Full + 50) \div 100 \in Int
  BY FullIsPositive
<1>2. QED
  BY <1>1, FullIsPositive DEF query_budget, Budget

\* The budgets a walk is given and lacks are budgets.
LEMMA BudgetsAreBudgets ==
  ASSUME NEW w \in Walk, NEW r \in Row
  PROVE  Nothing \in Budget /\ Wanted(w) \in Budget /\ Missing(w, r) \in Budget
<1>1. Full \in Nat /\ 0 \in 0..Full
  BY FullIsPositive
<1>2. Nothing \in Budget
  BY <1>1 DEF Nothing, Budget
<1>3. Budgeted(w) \in Budget
  <2>1. query_budget(initial_weights(Wants[w].signals)) \in Budget
    BY WeightsAreWeights, AllowanceIsBudget
  <2>2. [s \in Silo |-> Full] \in Budget
    BY <1>1 DEF Budget
  <2>3. QED
    BY <2>1, <2>2 DEF Budgeted
<1>4. Wanted(w) \in Budget
  BY <1>1, <1>3 DEF Wanted, Budget
<1>5. \A c \in Budget : uncovered_budget(Wanted(w), c) \in Budget
  BY <1>1, <1>4 DEF uncovered_budget, Budget
<1>6. QED
  BY <1>2, <1>4, <1>5 DEF Missing, Row

\* Merging budgets claims no question that neither had.
LEMMA MergeClaimsNoMore ==
  ASSUME NEW c, NEW a \in Budget, NEW b \in Budget
  PROVE  /\ merge_coverage(a, b) \in Budget
         /\ Questions(c, merge_coverage(a, b)) \subseteq Questions(c, a) \cup Questions(c, b)
<1>1. merge_coverage(a, b) \in Budget
  BY DEF merge_coverage, Budget
<1>2. \A s \in Silo : merge_coverage(a, b)[s] \in {a[s], b[s]}
  BY DEF merge_coverage
<1>3. ASSUME NEW q \in Questions(c, merge_coverage(a, b))
      PROVE  q \in Questions(c, a) \cup Questions(c, b)
  BY <1>2, <1>3, QuestionsMembers
<1>4. QED
  BY <1>1, <1>3

\* Asking nothing is no question.
LEMMA NothingAsksNothing == \A c : Questions(c, Nothing) = {}
BY QuestionsMembers DEF Nothing

\* What a walk wants was asked before, or is missing and is asked now.
LEMMA WantedIsCoveredOrAsked ==
  ASSUME NEW w \in Walk, NEW r \in Row, r.processed => r.known
  PROVE  Questions(Wants[w].context, Wanted(w))
           \subseteq Questions(r.context, r.silos)
                     \cup Questions(Wants[w].context, Missing(w, r))
<1> DEFINE c == Wants[w].context
           covered == IF r.context = c THEN r.silos ELSE Nothing
<1>1. CASE ~r.processed
  BY <1>1 DEF Missing
<1>2. CASE r.processed
  <2>1. Missing(w, r) = uncovered_budget(Wanted(w), covered)
    BY <1>2 DEF Missing
  <2>2. Wanted(w) \in Budget /\ covered \in Budget
    BY BudgetsAreBudgets DEF Row
  <2>3. SUFFICES ASSUME NEW s \in Silo, NEW n \in 1..Wanted(w)[s]
                 PROVE  <<c, s, n>> \in Questions(r.context, r.silos)
                                        \cup Questions(c, Missing(w, r))
    BY QuestionsMembers
  <2>4. Wanted(w)[s] \in Nat /\ covered[s] \in Nat
    BY <2>2 DEF Budget
  <2>5. CASE Wanted(w)[s] > covered[s]
    <3>1. Missing(w, r)[s] = Wanted(w)[s]
      BY <2>1, <2>5 DEF uncovered_budget
    <3>2. QED
      BY <3>1, QuestionsMembers
  <2>6. CASE ~(Wanted(w)[s] > covered[s])
    <3>1. n \in 1..covered[s]
      BY <2>4, <2>6
    <3>2. covered # Nothing
      BY <3>1 DEF Nothing
    <3>3. r.context = c /\ n \in 1..r.silos[s]
      BY <3>1, <3>2
    <3>4. QED
      BY <3>3, QuestionsMembers
  <2>7. QED
    BY <2>5, <2>6
<1>3. QED
  BY <1>1, <1>2

-----------------------------------------------------------------------------
(* The steps.                                                              *)

LEMMA BlankIsRow == Blank \in Row /\ Claims(Blank) = {}
<1>1. Nothing \in Budget
  <2>1. Full \in Nat
    BY VisitAssumption
  <2>2. QED
    BY <2>1 DEF Nothing, Budget
<1>2. "" \in Context
  BY VisitAssumption
<1>3. QED
  BY <1>1, <1>2, NothingAsksNothing DEF Blank, Row, Claims

LEMMA UntouchedIsVisit ==
  ASSUME record \in Row, NEW n \in Nat
  PROVE  /\ Untouched(n) \in Visit /\ Untouched(n).phase = "begin"
         /\ Untouched(n).copy = record /\ Untouched(n).prior = Blank
<1>1. Blank \in Row /\ Nothing \in Budget
  BY BlankIsRow, BudgetsAreBudgets DEF Blank, Row
<1>2. QED
  BY <1>1 DEF Untouched, Visit, Phase, Profiles

LEMMA InitEstablishes == VisitInit => IInv
<1> SUFFICES ASSUME VisitInit PROVE IInv
  OBVIOUS
<1>1. record \in Row /\ Claims(record) = {}
  <2>1. PICK processed \in BOOLEAN : record = [Blank EXCEPT !.processed = processed]
    BY DEF VisitInit
  <2>2. Blank \in Row /\ record.context = Blank.context /\ record.silos = Blank.silos
    BY <2>1, BlankIsRow DEF Blank
  <2>3. QED
    BY <2>1, <2>2, BlankIsRow DEF Row, Claims
<1>2. \A w \in Walk : visit[w] = Untouched(0)
  BY DEF VisitInit
<1>3. /\ Untouched(0) \in Visit /\ Untouched(0).phase = "begin"
      /\ Untouched(0).copy = record /\ Untouched(0).prior = Blank
  BY <1>1, UntouchedIsVisit
<1>4. Typed
  BY <1>1, <1>3 DEF Typed, VisitInit, Profiles
<1>5. CoverageEarned /\ CopyEarned
  BY <1>1, <1>2, <1>3, BlankIsRow DEF CoverageEarned, CopyEarned, Claims
<1>6. AsksWhatIsMissing /\ DoneStored
  BY <1>2, <1>3 DEF AsksWhatIsMissing, DoneStored, Left
<1>7. QED
  BY <1>4, <1>5, <1>6 DEF IInv, VisitInit

\* One visit changes; what is stored or forfeited stays so.
LEMMA OneVisitMoves ==
  ASSUME IInv, NEW w \in Walk, NEW v \in Visit, visit' = [visit EXCEPT ![w] = v],
         Accounted \subseteq Accounted', (answered \subseteq stored)',
         record' \in Row, profile' \in Profiles, Claims(record') \subseteq Accounted',
         Claims(v.copy) \cup Claims(v.prior) \subseteq Accounted',
         v.phase \notin Left => v.ask = Missing(w, v.copy),
         v.phase = "done" => Questions(Wants[w].context, v.ask) \subseteq Accounted'
  PROVE  IInv'
<1>1. \A u \in Walk : visit'[u] = IF u = w THEN v ELSE visit[u]
  BY DEF IInv, Typed
<1>2. Typed'
  BY DEF IInv, Typed
<1>3. CoverageEarned'
  BY DEF CoverageEarned, Claims, Accounted, Questions
<1>4. CopyEarned'
  <2>1. SUFFICES ASSUME NEW u \in Walk
                 PROVE  Claims(visit'[u].copy) \cup Claims(visit'[u].prior) \subseteq Accounted'
    BY DEF CopyEarned, Claims, Questions
  <2>2. Claims(visit[u].copy) \cup Claims(visit[u].prior) \subseteq Accounted
    BY DEF IInv, CopyEarned
  <2>3. QED
    BY <1>1, <2>2
<1>5. AsksWhatIsMissing'
  BY <1>1 DEF IInv, AsksWhatIsMissing
<1>6. DoneStored'
  <2>1. SUFFICES ASSUME NEW u \in Walk, visit'[u].phase = "done"
                 PROVE  Questions(Wants[u].context, visit'[u].ask) \subseteq Accounted'
    BY DEF DoneStored, Asked, Questions
  <2>2. visit[u].phase = "done"
          => Questions(Wants[u].context, visit[u].ask) \subseteq Accounted
    BY DEF IInv, DoneStored, Asked
  <2>3. QED
    BY <1>1, <2>1, <2>2
<1>7. QED
  BY <1>2, <1>3, <1>4, <1>5, <1>6 DEF IInv

\* What holds before a step of a visit.
LEMMA Before ==
  ASSUME IInv, NEW w \in Walk
  PROVE  /\ visit[w] \in Visit /\ record \in Row /\ profile \in Profiles
         /\ visit[w].ask \in Budget /\ visit[w].copy \in Row /\ visit[w].prior \in Row
         /\ Claims(record) \subseteq Accounted
         /\ Claims(visit[w].copy) \subseteq Accounted
         /\ Claims(visit[w].prior) \subseteq Accounted
         /\ visit[w].phase \notin Left => visit[w].ask = Missing(w, visit[w].copy)
<1>1. visit[w] \in Visit
  BY DEF IInv, Typed
<1>2. QED
  BY <1>1 DEF IInv, Typed, CoverageEarned, CopyEarned, AsksWhatIsMissing, Claims,
              Accounted, Visit

\* Nothing shared changes.
LEMMA Alone ==
  ASSUME IInv, OnlyVisits
  PROVE  /\ Accounted \subseteq Accounted' /\ (answered \subseteq stored)'
         /\ record' \in Row /\ profile' \in Profiles /\ Claims(record') \subseteq Accounted'
         /\ Accounted' = Accounted
<1>1. UNCHANGED <<record, profile, stored, forfeited, answered>>
  BY DEF OnlyVisits, shared
<1>2. Accounted' = Accounted
  BY <1>1 DEF Accounted
<1>3. record \in Row /\ profile \in Profiles /\ Claims(record) \subseteq Accounted
  BY DEF IInv, Typed, CoverageEarned, Claims, Accounted
<1>4. QED
  BY <1>1, <1>2, <1>3 DEF IInv

\* A step that only moves one visit on, keeping its copy and what it asks.
LEMMA MovingOn ==
  ASSUME IInv, NEW w \in Walk, NEW v \in Visit, OnlyVisits,
         visit' = [visit EXCEPT ![w] = v],
         v.copy = visit[w].copy, v.ask = visit[w].ask,
         Claims(v.prior) \subseteq Accounted,
         v.phase # "done", visit[w].phase \notin Left
  PROVE  IInv'
<1>1. Claims(v.copy) \cup Claims(v.prior) \subseteq Accounted'
  BY Alone, Before
<1>2. v.ask = Missing(w, v.copy)
  BY Before
<1>3. QED
  BY <1>1, <1>2, Alone, OneVisitMoves

\* A step that only changes the phase, and not to done.
LEMMA Going ==
  ASSUME IInv, NEW w \in Walk, NEW p \in Phase, Goes(w, p), OnlyVisits,
         p # "done", visit[w].phase \notin Left
  PROVE  IInv'
<1> DEFINE v == [visit[w] EXCEPT !.phase = p]
<1>1. visit[w] \in Visit
  BY DEF IInv, Typed
<1>2. /\ v \in Visit /\ v.copy = visit[w].copy /\ v.ask = visit[w].ask /\ v.phase = p
      /\ v.prior = visit[w].prior
  BY <1>1 DEF Visit
<1>3. visit' = [visit EXCEPT ![w] = v]
  BY DEF Goes
<1> HIDE DEF v
<1>4. Claims(v.prior) \subseteq Accounted
  BY <1>2, Before
<1>5. QED
  BY <1>2, <1>3, <1>4, MovingOn

\* A visit that is given up.
LEMMA Leaving ==
  ASSUME IInv, NEW w \in Walk, NEW p \in {"skipped", "cancelled"}, Leaves(w, p), OnlyVisits
  PROVE  IInv'
<1> DEFINE u == Untouched(0)
           v == [u EXCEPT !.phase = p, !.copy = Blank]
<1>1. u \in Visit /\ u.prior = Blank /\ Blank \in Row
  BY UntouchedIsVisit, BlankIsRow DEF IInv, Typed
<1>2. visit' = [visit EXCEPT ![w] = v]
  BY DEF Leaves
<1>3. v \in Visit /\ v.copy = Blank /\ v.prior = Blank /\ v.phase = p
  <2>1. p \in Phase
    BY DEF Phase, Ended
  <2> HIDE DEF u
  <2>2. QED
    BY <1>1, <2>1 DEF Visit
<1> HIDE DEF v
<1>4. Claims(v.copy) \cup Claims(v.prior) \subseteq Accounted'
  BY <1>3, BlankIsRow
<1>5. v.phase \in Left /\ v.phase # "done"
  BY <1>3 DEF Left
<1>6. QED
  BY <1>2, <1>3, <1>4, <1>5, Alone, OneVisitMoves

\* A visit is loaded anew and asks for what the row lacks, or is over.
LEMMA BeginPreserves ==
  ASSUME IInv, NEW w \in Walk, Begin(w)
  PROVE  IInv'
<1> DEFINE ask == Missing(w, record)
           p == IF record.processed /\ ask = Nothing THEN "done"
                ELSE IF Wants[w].context = "" THEN "registers" ELSE "search"
           v == [visit[w] EXCEPT !.copy = record, !.ask = ask, !.phase = p]
<1>1. OnlyVisits /\ visit' = [visit EXCEPT ![w] = v]
  BY DEF Begin
<1>2. ask \in Budget
  BY Before, BudgetsAreBudgets
<1>3. /\ v \in Visit /\ v.copy = record /\ v.ask = ask /\ v.phase = p
      /\ v.prior = visit[w].prior
  <2>1. p \in Phase
    BY DEF Phase, Ended
  <2> HIDE DEF p, ask
  <2>2. QED
    BY <1>2, <2>1, Before DEF Visit
<1>4. p = "done" => Questions(Wants[w].context, ask) = {}
  BY NothingAsksNothing
<1> HIDE DEF v, p, ask
<1>5. Claims(v.copy) \cup Claims(v.prior) \subseteq Accounted'
  BY <1>1, <1>3, Alone, Before
<1>6. v.ask = Missing(w, v.copy)
  BY <1>3 DEF ask
<1>7. v.phase = "done" => Questions(Wants[w].context, v.ask) \subseteq Accounted'
  BY <1>3, <1>4
<1>8. QED
  BY <1>1, <1>3, <1>5, <1>6, <1>7, Alone, OneVisitMoves

\* A visit starts over with a fresh copy of the row.
LEMMA RetryPreserves ==
  ASSUME IInv, NEW w \in Walk, Retry(w)
  PROVE  IInv'
<1> DEFINE n == visit[w].attempt + 1
           v == Untouched(n)
<1>1. OnlyVisits /\ visit' = [visit EXCEPT ![w] = v]
  BY DEF Retry
<1>2. n \in Nat /\ record \in Row
  BY Before DEF Visit
<1> HIDE DEF n
<1>3. v \in Visit /\ v.copy = record /\ v.prior = Blank /\ v.phase = "begin"
  BY <1>2, UntouchedIsVisit
<1> HIDE DEF v
<1>4. Claims(v.copy) \cup Claims(v.prior) \subseteq Accounted'
  BY <1>1, <1>3, Alone, Before, BlankIsRow
<1>5. v.phase \in Left /\ v.phase # "done"
  BY <1>3 DEF Left
<1>6. QED
  BY <1>1, <1>3, <1>4, <1>5, Alone, OneVisitMoves

\* A visit returns with its questions accounted for.
LEMMA Returning ==
  ASSUME IInv, NEW w \in Walk, Done(w), visit[w].phase \notin Left,
         Accounted' = Accounted \cup Asked(w), (answered \subseteq stored)',
         record' \in Row, profile' \in Profiles, Claims(record') \subseteq Accounted'
  PROVE  IInv'
<1> DEFINE u == Untouched(0)
           v == [u EXCEPT !.phase = "done", !.copy = visit[w].copy, !.ask = visit[w].ask]
<1>1. u \in Visit /\ u.prior = Blank /\ visit[w] \in Visit
  BY UntouchedIsVisit, Before
<1>2. visit' = [visit EXCEPT ![w] = v]
  BY DEF Done
<1>3. /\ v \in Visit /\ v.copy = visit[w].copy /\ v.ask = visit[w].ask
      /\ v.phase = "done" /\ v.prior = Blank
  <2>1. "done" \in Phase /\ visit[w].copy \in Row /\ visit[w].ask \in Budget
    BY Before DEF Phase, Ended
  <2> HIDE DEF u
  <2>2. QED
    BY <1>1, <2>1 DEF Visit
<1> HIDE DEF v
<1>4. Claims(v.copy) \cup Claims(v.prior) \subseteq Accounted'
  BY <1>3, Before, BlankIsRow
<1>5. v.ask = Missing(w, v.copy)
  BY <1>3, Before
<1>6. Questions(Wants[w].context, v.ask) \subseteq Accounted'
  BY <1>3 DEF Asked
<1>7. Accounted \subseteq Accounted'
  OBVIOUS
<1>8. QED
  BY <1>2, <1>3, <1>4, <1>5, <1>6, <1>7, OneVisitMoves

\* The mark claims what its row claimed and what the visit asked.
LEMMA MarkClaims ==
  ASSUME IInv, NEW w \in Walk, NEW c \in Row
  PROVE  Marked(w, c) \in Row /\ Claims(Marked(w, c)) \subseteq Claims(c) \cup Asked(w)
<1> DEFINE ask == visit[w].ask
<1>1. ask \in Budget /\ c.silos \in Budget /\ Wants[w].context \in Context
  BY Before, VisitAssumption DEF Row
<1>2. CASE c.context = Wants[w].context
  <2>1. Marked(w, c) = [processed |-> TRUE, known |-> TRUE, context |-> Wants[w].context,
                        silos |-> merge_coverage(c.silos, ask)]
    BY <1>2 DEF Marked
  <2>2. QED
    BY <1>1, <1>2, <2>1, MergeClaimsNoMore DEF Row, Claims, Asked
<1>3. CASE c.context # Wants[w].context
  <2>1. Marked(w, c) = [processed |-> TRUE, known |-> TRUE, context |-> Wants[w].context,
                        silos |-> ask]
    BY <1>3 DEF Marked
  <2>2. QED
    BY <1>1, <2>1 DEF Row, Claims, Asked
<1>4. QED
  BY <1>2, <1>3

\* The commit: results and record become visible together.
LEMMA MarkPreserves ==
  ASSUME IInv, NEW w \in Walk, Mark(w)
  PROVE  IInv'
<1>1. /\ stored' = stored \cup Asked(w) /\ UNCHANGED forfeited
      /\ answered' \subseteq answered \cup Asked(w)
  BY DEF Mark
<1>2. Accounted' = Accounted \cup Asked(w) /\ (answered \subseteq stored)'
  BY <1>1 DEF Accounted, IInv
<1>3. record' = Marked(w, visit[w].copy) /\ visit[w].copy \in Row
  BY Before DEF Mark
<1>4. record' \in Row /\ Claims(record') \subseteq Accounted'
  BY <1>2, <1>3, MarkClaims, Before
<1>5. profile' \in Profiles
  BY Before DEF Mark, Visit
<1>6. Done(w) /\ visit[w].phase \notin Left
  BY DEF Mark, At, Left
<1>7. QED
  BY <1>2, <1>4, <1>5, <1>6, Returning

\* The commit is rolled back; the visit goes on to the mark, or returns.
LEMMA RollBackPreserves ==
  ASSUME IInv, NEW w \in Walk, RollBack(w)
  PROVE  IInv'
<1>1. /\ visit[w].phase = "mark" /\ visit[w].phase \notin Left
      /\ UNCHANGED <<record, profile, stored, answered, cancelled>>
  BY DEF RollBack, At, Left
<1>2. CASE /\ visit' = [visit EXCEPT ![w].phase = "reload", ![w].lost = {},
                                     ![w].profile = "none"]
           /\ UNCHANGED forfeited
  <2> DEFINE r == visit[w]
             v == [r EXCEPT !.phase = "reload", !.lost = {}, !.profile = "none"]
  <2>1. r \in Visit
    BY Before
  <2>2. visit' = [visit EXCEPT ![w] = v]
    BY <1>2
  <2>3. /\ v \in Visit /\ v.copy = r.copy /\ v.ask = r.ask /\ v.prior = r.prior
        /\ v.phase = "reload"
    <3> HIDE DEF r
    <3>1. QED
      BY <2>1 DEF Visit, Phase, Profiles
  <2> HIDE DEF v
  <2>4. OnlyVisits
    BY <1>1, <1>2 DEF OnlyVisits, shared
  <2>5. Claims(v.prior) \subseteq Accounted
    BY <2>3, Before
  <2>6. QED
    BY <1>1, <2>2, <2>3, <2>4, <2>5, MovingOn
<1>3. CASE Done(w) /\ forfeited' = forfeited \cup Asked(w)
  <2>1. Accounted' = Accounted \cup Asked(w) /\ (answered \subseteq stored)'
    BY <1>1, <1>3 DEF Accounted, IInv
  <2>2. record' \in Row /\ profile' \in Profiles /\ Claims(record') \subseteq Accounted'
    BY <1>1, <2>1, Before
  <2>3. QED
    BY <1>1, <1>3, <2>1, <2>2, Returning
<1>4. QED
  BY <1>2, <1>3 DEF RollBack

LEMMA ReloadPreserves ==
  ASSUME IInv, NEW w \in Walk, Reload(w)
  PROVE  IInv'
<1> DEFINE r == visit[w]
           v == [r EXCEPT !.prior = record, !.phase = "remark"]
<1>1. r \in Visit /\ record \in Row
  BY Before
<1>2. visit' = [visit EXCEPT ![w] = v] /\ OnlyVisits /\ visit[w].phase \notin Left
  BY DEF Reload, Left
<1>3. /\ v \in Visit /\ v.copy = r.copy /\ v.ask = r.ask /\ v.prior = record
      /\ v.phase = "remark"
  <2> HIDE DEF r
  <2>1. QED
    BY <1>1 DEF Visit, Phase
<1> HIDE DEF v
<1>4. Claims(v.prior) \subseteq Accounted
  BY <1>3, Before
<1>5. QED
  BY <1>2, <1>3, <1>4, MovingOn

\* The mark alone: what the visit had found is lost.
LEMMA RemarkPreserves ==
  ASSUME IInv, NEW w \in Walk, Remark(w)
  PROVE  IInv'
<1>1. Accounted' = Accounted \cup Asked(w) /\ (answered \subseteq stored)'
  BY DEF Remark, Accounted, IInv
<1>2. record' = Marked(w, visit[w].prior) /\ visit[w].prior \in Row
  BY Before DEF Remark
<1>3. record' \in Row /\ Claims(record') \subseteq Accounted'
  BY <1>1, <1>2, MarkClaims, Before
<1>4. Done(w) /\ visit[w].phase \notin Left /\ profile' \in Profiles
  BY Before DEF Remark, Left
<1>5. QED
  BY <1>1, <1>3, <1>4, Returning

\* Searching and profiling write what they found into the visit.
LEMMA FindingPreserves ==
  ASSUME IInv, NEW w \in Walk, Search(w) \/ Profile(w)
  PROVE  IInv'
<1>1. visit[w] \in Visit /\ Claims(visit[w].prior) \subseteq Accounted
  BY Before
<1>2. CASE Search(w)
  <2>1. PICK lost \in SUBSET Silo :
          visit' = [visit EXCEPT ![w].lost = lost, ![w].phase = "coauthors"]
    BY <1>2 DEF Search
  <2> DEFINE v == [visit[w] EXCEPT !.lost = lost, !.phase = "coauthors"]
  <2>2. v \in Visit /\ v.copy = visit[w].copy /\ v.ask = visit[w].ask
          /\ v.phase = "coauthors" /\ v.prior = visit[w].prior
    BY <1>1 DEF Visit, Phase
  <2>3. visit' = [visit EXCEPT ![w] = v]
    BY <2>1
  <2>4. OnlyVisits /\ visit[w].phase \notin Left
    BY <1>2 DEF Search, At, Left
  <2> HIDE DEF v
  <2>5. QED
    BY <1>1, <2>2, <2>3, <2>4, MovingOn
<1>3. CASE Profile(w)
  <2>1. PICK p \in Profiles :
          visit' = [visit EXCEPT ![w].profile = p,
                                 ![w].phase = IF p = "grounded" THEN "angle" ELSE "directory"]
    BY <1>3 DEF Profile, Profiles, IInv, Typed
  <2> DEFINE q == IF p = "grounded" THEN "angle" ELSE "directory"
             v == [visit[w] EXCEPT !.profile = p, !.phase = q]
  <2>2. v \in Visit /\ v.copy = visit[w].copy /\ v.ask = visit[w].ask
          /\ v.phase \in {"angle", "directory"} /\ v.prior = visit[w].prior
    BY <1>1 DEF Visit, Phase
  <2>3. visit' = [visit EXCEPT ![w] = v]
    BY <2>1
  <2>4. OnlyVisits /\ visit[w].phase \notin Left
    BY <1>3 DEF Profile, At, Left
  <2> HIDE DEF v
  <2>5. QED
    BY <1>1, <2>2, <2>3, <2>4, MovingOn
<1>4. QED
  BY <1>2, <1>3

\* Every step preserves the invariant.
LEMMA StepPreserves == IInv /\ [VisitNext]_vars => IInv'
<1> SUFFICES ASSUME IInv, [VisitNext]_vars PROVE IInv'
  OBVIOUS
<1>1. CASE UNCHANGED vars
  BY <1>1 DEF vars, IInv, Typed, CoverageEarned, CopyEarned, AsksWhatIsMissing,
              DoneStored, Asked, Accounted, Claims, Questions
<1>2. CASE VisitNext
  <2>1. PICK w \in Walk : VisitStep(w) \/ Stop(w) \/ Skip(w) \/ Cancel(w)
    BY <1>2 DEF VisitNext
  <2>2. CASE NoticeCancel(w)
    BY <2>2, Leaving DEF NoticeCancel
  <2>3. CASE Begin(w)
    BY <2>3, BeginPreserves
  <2>4. CASE Registers(w)
    BY <2>4, Going DEF Registers, At, Phase, Left
  <2>5. CASE Search(w) \/ Profile(w)
    BY <2>5, FindingPreserves
  <2>6. CASE Coauthors(w)
    <3>1. PICK p \in {"again", "mark"} : Goes(w, p) /\ OnlyVisits
      BY <2>6 DEF Coauthors
    <3>2. QED
      BY <2>6, <3>1, Going DEF Coauthors, At, Phase, Left
  <2>7. CASE Again(w)
    <3>1. PICK p \in {"profile", "mark"} : Goes(w, p) /\ OnlyVisits
      BY <2>7 DEF Again
    <3>2. QED
      BY <2>7, <3>1, Going DEF Again, At, Phase, Left
  <2>8. CASE Angle(w)
    BY <2>8, Going DEF Angle, At, Phase, Left
  <2>9. CASE Directory(w)
    BY <2>9, Going DEF Directory, At, Phase, Left
  <2>10. CASE Mark(w) \/ RollBack(w) \/ Reload(w) \/ Remark(w)
    BY <2>10, MarkPreserves, RollBackPreserves, ReloadPreserves, RemarkPreserves
  <2>11. CASE Retry(w)
    BY <2>11, RetryPreserves
  <2>12. CASE Stop(w)
    BY <2>12, Leaving DEF Stop
  <2>13. CASE Skip(w)
    BY <2>13, Leaving DEF Skip
  <2>14. CASE Cancel(w)
    BY <2>14 DEF Cancel, shared, IInv, Typed, CoverageEarned, CopyEarned,
                 AsksWhatIsMissing, DoneStored, Asked, Accounted, Claims, Questions
  <2>15. QED
    BY <2>1, <2>2, <2>3, <2>4, <2>5, <2>6, <2>7, <2>8, <2>9, <2>10, <2>11, <2>12, <2>13,
       <2>14 DEF VisitStep
<1>3. QED
  BY <1>1, <1>2

\* What the inductive invariant says of a walk that is done.
LEMMA DoneIsMet == IInv => WantsMet
<1> SUFFICES ASSUME IInv, NEW w \in Walk, visit[w].phase = "done",
                    visit[w].copy.processed => visit[w].copy.known
             PROVE  Questions(Wants[w].context, Wanted(w)) \subseteq Accounted
  BY DEF WantsMet, Accounted
<1>1. visit[w].copy \in Row /\ visit[w].ask = Missing(w, visit[w].copy)
  BY Before DEF Left
<1>2. Questions(visit[w].copy.context, visit[w].copy.silos) \subseteq Accounted
  BY Before DEF Claims
<1>3. Questions(Wants[w].context, visit[w].ask) \subseteq Accounted
  BY DEF IInv, DoneStored, Asked
<1>4. QED
  BY <1>1, <1>2, <1>3, WantedIsCoveredOrAsked

-----------------------------------------------------------------------------
\* The invariant holds throughout, for any walks, silos, contexts and wishes.
THEOREM RecordIsInductive == VisitSpec => []IInv
BY InitEstablishes, StepPreserves, PTL DEF VisitSpec

\* The record of what was asked of a person (expanded_silos, _mark_expanded)
\* never claims a question whose results are not stored, but for those that a
\* final commit has lost (commit_with_retry).
THEOREM CoverageIsEarned == VisitSpec => []CoverageEarned
<1>1. IInv => CoverageEarned
  BY DEF IInv
<1>2. QED
  BY <1>1, RecordIsInductive, PTL

\* A walk that is done with a person has the results of all that it wanted,
\* its own or those of visits before it (_residual_weights), but for those that
\* a final commit has lost.
THEOREM WantsAreMet == VisitSpec => []WantsMet
BY DoneIsMet, RecordIsInductive, PTL

-----------------------------------------------------------------------------
(* Lookups: the table.                                                     *)

\* How many lookups one goes through below it: the table has no cycle.
Depth1 == {"org_headcount", "coauthors", "fetch_readable", "appearances", "rounds_for_firm",
           "official_domain"}
Depth2 == {"colleagues", "coauthors_enrichment", "roster", "find_directory_page"}
Depth3 == {"enrich_person", "roster_colleagues", "directory"}
Level(s) ==
  IF s \in Depth1 THEN 1 ELSE IF s \in Depth2 THEN 2 ELSE IF s \in Depth3 THEN 3 ELSE 0

Part == [of : Lookup \cup Leaf, mode : {"must", "also", "or"}]

\* What is used of an entry of the table.
EntryFits(s) ==
  /\ Method[s].parts \in Seq(Part)
  /\ Method[s].ttl \in Nat /\ (Method[s].keeps # "never" => Method[s].ttl >= 1)
  /\ \A u \in Subs(s) : u \in Lookup /\ Level(u) < Level(s)

LEMMA Ttls ==
  /\ TtlPage \in Nat /\ TtlSearch \in Nat /\ TtlWiki \in Nat /\ TtlHeadcount \in Nat
  /\ TtlPage >= 1 /\ TtlSearch >= 1 /\ TtlWiki >= 1 /\ TtlHeadcount >= 1
<1>1. {TtlPage, TtlSearch, TtlWiki, TtlHeadcount} \subseteq Nat \ {0}
  BY LookupsAssumption
<1> QED BY <1>1

LEMMA Names == Lookup =
  {"best_title", "wikidata_id", "summary", "article_text", "is_human",
   "official_website", "relationships", "colleagues_for_target", "org_headcount",
   "colleagues", "enrich_person", "board_members", "officers", "insiders",
   "resolve_author", "coauthors", "coauthors_enrichment", "search", "page",
   "rendered", "fetch_readable", "roster", "roster_colleagues", "hosts_and_items",
   "appearances", "rounds_for_firm", "official_domain", "find_directory_page",
   "directory"}
BY DEF Lookup, Method

LEMMA Entries ==
  /\ Method["best_title"] = best_title
  /\ Method["wikidata_id"] = wikidata_id
  /\ Method["summary"] = summary
  /\ Method["article_text"] = article_text
  /\ Method["is_human"] = is_human
  /\ Method["official_website"] = official_website
  /\ Method["relationships"] = relationships
  /\ Method["colleagues_for_target"] = colleagues_for_target
  /\ Method["org_headcount"] = org_headcount
  /\ Method["colleagues"] = colleagues
  /\ Method["enrich_person"] = enrich_person
  /\ Method["board_members"] = board_members
  /\ Method["officers"] = officers
  /\ Method["insiders"] = insiders
  /\ Method["resolve_author"] = resolve_author
  /\ Method["coauthors"] = coauthors
  /\ Method["coauthors_enrichment"] = coauthors_enrichment
  /\ Method["search"] = search
  /\ Method["page"] = page
  /\ Method["rendered"] = rendered
  /\ Method["fetch_readable"] = fetch_readable
  /\ Method["roster"] = roster
  /\ Method["roster_colleagues"] = roster_colleagues
  /\ Method["hosts_and_items"] = hosts_and_items
  /\ Method["appearances"] = appearances
  /\ Method["rounds_for_firm"] = rounds_for_firm
  /\ Method["official_domain"] = official_domain
  /\ Method["find_directory_page"] = find_directory_page
  /\ Method["directory"] = directory
BY DEF Method

LEMMA TableFits == ASSUME NEW s \in Lookup PROVE EntryFits(s)
<1> USE DEF EntryFits, Part, Subs, Leaf, Level, Depth1, Depth2, Depth3, Always, Answered,
            Readable, UnlessUnreadable, Uncached, Must, Also, Or
<1>1. CASE s = "best_title"
  BY <1>1, Entries, Names, Ttls DEF best_title
<1>2. CASE s = "wikidata_id"
  BY <1>2, Entries, Names, Ttls DEF wikidata_id
<1>3. CASE s = "summary"
  BY <1>3, Entries, Names, Ttls DEF summary
<1>4. CASE s = "article_text"
  BY <1>4, Entries, Names, Ttls DEF article_text
<1>5. CASE s = "is_human"
  BY <1>5, Entries, Names, Ttls DEF is_human
<1>6. CASE s = "official_website"
  BY <1>6, Entries, Names, Ttls DEF official_website
<1>7. CASE s = "relationships"
  BY <1>7, Entries, Names, Ttls DEF relationships
<1>8. CASE s = "colleagues_for_target"
  BY <1>8, Entries, Names, Ttls DEF colleagues_for_target
<1>9. CASE s = "org_headcount"
  BY <1>9, Entries, Names, Ttls DEF org_headcount
<1>10. CASE s = "colleagues"
  BY <1>10, Entries, Names, Ttls DEF colleagues
<1>11. CASE s = "enrich_person"
  BY <1>11, Entries, Names, Ttls DEF enrich_person
<1>12. CASE s = "board_members"
  BY <1>12, Entries, Names, Ttls DEF board_members
<1>13. CASE s = "officers"
  BY <1>13, Entries, Names, Ttls DEF officers
<1>14. CASE s = "insiders"
  BY <1>14, Entries, Names, Ttls DEF insiders
<1>15. CASE s = "resolve_author"
  BY <1>15, Entries, Names, Ttls DEF resolve_author
<1>16. CASE s = "coauthors"
  BY <1>16, Entries, Names, Ttls DEF coauthors
<1>17. CASE s = "coauthors_enrichment"
  BY <1>17, Entries, Names, Ttls DEF coauthors_enrichment
<1>18. CASE s = "search"
  BY <1>18, Entries, Names, Ttls DEF search
<1>19. CASE s = "page"
  BY <1>19, Entries, Names, Ttls DEF page
<1>20. CASE s = "rendered"
  BY <1>20, Entries, Names, Ttls DEF rendered
<1>21. CASE s = "fetch_readable"
  BY <1>21, Entries, Names, Ttls DEF fetch_readable
<1>22. CASE s = "roster"
  BY <1>22, Entries, Names, Ttls DEF roster
<1>23. CASE s = "roster_colleagues"
  BY <1>23, Entries, Names, Ttls DEF roster_colleagues
<1>24. CASE s = "hosts_and_items"
  BY <1>24, Entries, Names, Ttls DEF hosts_and_items
<1>25. CASE s = "appearances"
  BY <1>25, Entries, Names, Ttls DEF appearances
<1>26. CASE s = "rounds_for_firm"
  BY <1>26, Entries, Names, Ttls DEF rounds_for_firm
<1>27. CASE s = "official_domain"
  BY <1>27, Entries, Names, Ttls DEF official_domain
<1>28. CASE s = "find_directory_page"
  BY <1>28, Entries, Names, Ttls DEF find_directory_page
<1>29. CASE s = "directory"
  BY <1>29, Entries, Names, Ttls DEF directory
<1> QED
  BY Names, <1>1, <1>2, <1>3, <1>4, <1>5, <1>6, <1>7, <1>8, <1>9, <1>10,
     <1>11, <1>12, <1>13, <1>14, <1>15, <1>16, <1>17, <1>18, <1>19, <1>20,
     <1>21, <1>22, <1>23, <1>24, <1>25, <1>26, <1>27, <1>28, <1>29

-----------------------------------------------------------------------------
(* Lookups: the greatest of some numbers, and functions defined down the   *)
(* table.                                                                  *)

LEMMA GreatestExists ==
  ASSUME NEW S \in SUBSET Nat, IsFiniteSet(S), S # {}
  PROVE  Max(S) \in S /\ \A y \in S : y <= Max(S)
<1> DEFINE Greatest(A, m) == m \in A /\ \A y \in A : m >= y
           Without == {A \in SUBSET S : A # {} /\ ~\E m \in S : Greatest(A, m)}
<1>1. IsWellFoundedOn(StrictSubsetOrdering(S), SUBSET S)
  BY FS_StrictSubsetOrderingWellFounded, FS_FiniteSubsetsOfFinite
<1>2. Without = {}
  <2> SUFFICES ASSUME Without # {} PROVE FALSE
    OBVIOUS
  <2>1. PICK A \in Without : \A B \in Without : <<B, A>> \notin StrictSubsetOrdering(S)
    <3>1. Without \subseteq SUBSET S
      OBVIOUS
    <3> HIDE DEF Without
    <3> QED BY <1>1, <3>1, WFMin
  <2>2. PICK x \in A : TRUE
    OBVIOUS
  <2>3. A \ {x} \notin Without
    BY <2>1, <2>2 DEF StrictSubsetOrdering
  <2>4. CASE A = {x}
    BY <2>2, <2>4
  <2>5. CASE A # {x}
    <3>1. PICK m \in S : Greatest(A \ {x}, m)
      BY <2>2, <2>3, <2>5
    <3>2. x \in Nat /\ m \in Nat
      BY <2>2
    <3>3. Greatest(A, IF x >= m THEN x ELSE m)
      BY <2>2, <3>1, <3>2
    <3> QED BY <2>2, <3>1, <3>3
  <2> QED BY <2>4, <2>5
<1>3. \E m \in S : Greatest(S, m)
  BY <1>2
<1> QED BY <1>3 DEF Max

LEMMA ImageIsFinite ==
  ASSUME NEW S, IsFiniteSet(S), NEW g
  PROVE  IsFiniteSet({g[u] : u \in S})
<1>1. [u \in S |-> g[u]] \in Surjection(S, {g[u] : u \in S})
  BY DEF Surjection
<1> QED BY <1>1, FS_Surjection

LEMMA SubsAreFinite == ASSUME NEW s \in Lookup PROVE IsFiniteSet(Subs(s))
<1> DEFINE p == Method[s].parts
           g == [i \in DOMAIN p |-> p[i].of]
<1>1. IsFiniteSet(DOMAIN p)
  <2>1. p \in Seq(Part)
    BY TableFits DEF EntryFits
  <2>2. DOMAIN p = 1..Len(p) /\ Len(p) \in Nat
    BY <2>1
  <2>3. IsFiniteSet(1..Len(p))
    <3> HIDE DEF p
    <3> QED BY <2>2, FS_Interval
  <2> QED BY <2>2, <2>3
<1>2. IsFiniteSet({g[i] : i \in DOMAIN p})
  <2> HIDE DEF g
  <2> QED BY <1>1, ImageIsFinite
<1>3. Subs(s) \subseteq {g[i] : i \in DOMAIN p}
  BY DEF Subs
<1> QED BY <1>2, <1>3, FS_Subset

\* The most that g says of what s asks, and g worked out once more from what
\* every lookup adds to that.
Most(g, s) == Max({g[u] : u \in Subs(s)} \cup {0})
Once(base, g) == [s \in Lookup |-> base[s] + Most(g, s)]

LEMMA MostIsMost ==
  ASSUME NEW g, NEW s \in Lookup, \A u \in Subs(s) : g[u] \in Nat
  PROVE  Most(g, s) \in Nat /\ \A u \in Subs(s) : g[u] <= Most(g, s)
<1> DEFINE S == {g[u] : u \in Subs(s)} \cup {0}
<1>1. IsFiniteSet(S) /\ S \subseteq Nat /\ S # {}
  <2>1. IsFiniteSet(Subs(s))
    BY SubsAreFinite
  <2>2. IsFiniteSet({g[u] : u \in Subs(s)})
    BY <2>1, ImageIsFinite
  <2> QED BY <2>2, FS_AddElement
<1>2. Max(S) \in S /\ \A y \in S : y <= Max(S)
  <2> HIDE DEF S
  <2> QED BY <1>1, GreatestExists
<1> QED BY <1>1, <1>2 DEF Most

\* Levels settle one after the other.
LEMMA LevelSettles ==
  ASSUME NEW base, NEW g, NEW h, NEW n \in Nat,
         \A s \in Lookup : Level(s) < n => g[s] = h[s]
  PROVE  \A s \in Lookup : Level(s) < n + 1 => Once(base, g)[s] = Once(base, h)[s]
<1> SUFFICES ASSUME NEW s \in Lookup, Level(s) < n + 1
             PROVE  Once(base, g)[s] = Once(base, h)[s]
  OBVIOUS
<1>1. \A u \in Subs(s) : g[u] = h[u]
  <2> TAKE u \in Subs(s)
  <2>1. u \in Lookup /\ Level(u) < Level(s)
    BY TableFits DEF EntryFits
  <2>2. Level(u) \in Nat /\ Level(s) \in Nat
    BY DEF Level
  <2>3. Level(u) < n
    BY <2>1, <2>2
  <2> QED BY <2>1, <2>3
<1>2. {g[u] : u \in Subs(s)} = {h[u] : u \in Subs(s)}
  BY <1>1
<1> QED BY <1>2 DEF Once, Most

LEMMA LevelsAreFour == \A s \in Lookup : Level(s) \in Nat /\ Level(s) < 4
BY DEF Level

\* So the recursion down the table defines something.
LEMMA FixedPointExists ==
  ASSUME NEW base
  PROVE  \E g : g = Once(base, g)
<1> DEFINE g0 == [s \in Lookup |-> 0]
           g1 == Once(base, g0)
           g2 == Once(base, g1)
           g3 == Once(base, g2)
           g4 == Once(base, g3)
           g5 == Once(base, g4)
<1>0. \A s \in Lookup : Level(s) < 0 => g0[s] = g1[s]
  BY LevelsAreFour
<1> HIDE DEF g0
<1>1. \A s \in Lookup : Level(s) < 0 + 1 => g1[s] = g2[s]
  <2> HIDE DEF g1
  <2>1. \A s \in Lookup : Level(s) < 0 + 1 => Once(base, g0)[s] = Once(base, g1)[s]
    BY <1>0, LevelSettles
  <2> QED BY <2>1 DEF g1
<1> HIDE DEF g1
<1>2. \A s \in Lookup : Level(s) < 1 + 1 => g2[s] = g3[s]
  <2> HIDE DEF g2
  <2>1. \A s \in Lookup : Level(s) < 1 + 1 => Once(base, g1)[s] = Once(base, g2)[s]
    BY <1>1, LevelSettles
  <2> QED BY <2>1 DEF g2
<1> HIDE DEF g2
<1>3. \A s \in Lookup : Level(s) < 2 + 1 => g3[s] = g4[s]
  <2> HIDE DEF g3
  <2>1. \A s \in Lookup : Level(s) < 2 + 1 => Once(base, g2)[s] = Once(base, g3)[s]
    BY <1>2, LevelSettles
  <2> QED BY <2>1 DEF g3
<1> HIDE DEF g3
<1>4. \A s \in Lookup : Level(s) < 3 + 1 => g4[s] = g5[s]
  <2> HIDE DEF g4
  <2>1. \A s \in Lookup : Level(s) < 3 + 1 => Once(base, g3)[s] = Once(base, g4)[s]
    BY <1>3, LevelSettles
  <2> QED BY <2>1 DEF g4
<1>5. g4 = g5
  <2>1. \A s \in Lookup : g4[s] = g5[s]
    BY <1>4, LevelsAreFour
  <2> QED BY <2>1 DEF g4, Once
<1> HIDE DEF g4
<1> QED BY <1>5

\* What the recursion defines is a number when the base is.
LEMMA LevelIsTyped ==
  ASSUME NEW base \in [Lookup -> Nat], NEW g, g = Once(base, g), NEW n \in Nat,
         \A s \in Lookup : Level(s) < n => g[s] \in Nat
  PROVE  \A s \in Lookup : Level(s) < n + 1 => g[s] \in Nat
<1> SUFFICES ASSUME NEW s \in Lookup, Level(s) < n + 1 PROVE g[s] \in Nat
  OBVIOUS
<1>1. \A u \in Subs(s) : g[u] \in Nat
  <2> TAKE u \in Subs(s)
  <2>1. u \in Lookup /\ Level(u) < Level(s)
    BY TableFits DEF EntryFits
  <2>2. Level(u) \in Nat /\ Level(s) \in Nat
    BY DEF Level
  <2>3. Level(u) < n
    BY <2>1, <2>2
  <2> QED BY <2>1, <2>3
<1>2. Most(g, s) \in Nat
  BY <1>1, MostIsMost
<1>3. g[s] = base[s] + Most(g, s)
  BY DEF Once
<1> QED BY <1>2, <1>3

LEMMA FixedPointIsTyped ==
  ASSUME NEW base \in [Lookup -> Nat], NEW g, g = Once(base, g)
  PROVE  g \in [Lookup -> Nat]
<1>0. \A s \in Lookup : Level(s) < 0 => g[s] \in Nat
  BY LevelsAreFour
<1>1. \A s \in Lookup : Level(s) < 0 + 1 => g[s] \in Nat
  BY <1>0, LevelIsTyped
<1>2. \A s \in Lookup : Level(s) < 1 + 1 => g[s] \in Nat
  BY <1>1, LevelIsTyped
<1>3. \A s \in Lookup : Level(s) < 2 + 1 => g[s] \in Nat
  BY <1>2, LevelIsTyped
<1>4. \A s \in Lookup : Level(s) < 3 + 1 => g[s] \in Nat
  BY <1>3, LevelIsTyped
<1>5. \A s \in Lookup : g[s] \in Nat
  BY <1>4, LevelsAreFour
<1> QED BY <1>5 DEF Once

AgeBase == [s \in Lookup |-> Lifetime(s)]
BlameBase == [s \in Lookup |-> IF Method[s].keeps = "answered" THEN 0 ELSE Lifetime(s)]

LEMMA BasesAreTyped == AgeBase \in [Lookup -> Nat] /\ BlameBase \in [Lookup -> Nat]
<1>1. ASSUME NEW s \in Lookup PROVE Lifetime(s) \in Nat
  <2>1. EntryFits(s)
    BY TableFits
  <2> QED BY <2>1 DEF EntryFits, Lifetime, Kept
<1> QED BY <1>1 DEF AgeBase, BlameBase

LEMMA AgeEquation == MaxAge = Once(AgeBase, MaxAge)
<1> DEFINE Body(g) == [s \in Lookup |-> Lifetime(s) + Max({g[u] : u \in Subs(s)} \cup {0})]
<1>1. \A g : Once(AgeBase, g) = Body(g)
  BY DEF Once, Most, AgeBase
<1>2. MaxAge = CHOOSE g : g = Body(g)
  BY DEF MaxAge
<1>3. \E g : g = Body(g)
  <2>1. PICK g : g = Once(AgeBase, g)
    BY FixedPointExists
  <2> HIDE DEF Body
  <2> QED BY <1>1, <2>1
<1> HIDE DEF Body
<1> QED BY <1>1, <1>2, <1>3

LEMMA BlameEquation == MaxBlame = Once(BlameBase, MaxBlame)
<1> DEFINE Body(g) == [s \in Lookup |->
                         (IF Method[s].keeps = "answered" THEN 0 ELSE Lifetime(s))
                           + Max({g[u] : u \in Subs(s)} \cup {0})]
<1>1. \A g : Once(BlameBase, g) = Body(g)
  BY DEF Once, Most, BlameBase
<1>2. MaxBlame = CHOOSE g : g = Body(g)
  BY DEF MaxBlame
<1>3. \E g : g = Body(g)
  <2>1. PICK g : g = Once(BlameBase, g)
    BY FixedPointExists
  <2> HIDE DEF Body
  <2> QED BY <1>1, <2>1
<1> HIDE DEF Body
<1> QED BY <1>1, <1>2, <1>3

-----------------------------------------------------------------------------
(* Lookups: the inductive invariant.                                       *)

Result == [found : BOOLEAN, born : Int, blamed : Int]
Frames == [of : Lookup \cup Leaf, at : Int, found : BOOLEAN, born : Int, blamed : Int]
Cached == [found : BOOLEAN, born : Int, blamed : Int, until : Int]
Returned == [of : Lookup \cup {"none"}, day : Int, found : BOOLEAN, born : Int, blamed : Int]

\* On day d: what may be behind an answer of s, and behind the parts that a
\* running method has had.
ResultFits(d, s, a) ==
  /\ a \in Result
  /\ d - a.born <= (IF s \in Lookup THEN MaxAge[s] ELSE 0)
  /\ a.blamed # Never => d - a.blamed <= (IF s \in Lookup THEN MaxBlame[s] ELSE 0)
FrameFits(d, f) ==
  /\ f \in Frames
  /\ f.of \in Lookup => /\ d - f.born <= Most(MaxAge, f.of)
                        /\ f.blamed # Never => d - f.blamed <= Most(MaxBlame, f.of)

\* f asks s at the part it is at.
Calls(f, s) == f.of \in Lookup /\ f.at \in DOMAIN Parts(f) /\ s = Parts(f)[f.at].of

\* A method runs because the one below it asks it.
StackFits(d, st) ==
  /\ st \in Seq(Frames) /\ \A i \in 1..Len(st) : FrameFits(d, st[i])
  /\ st # <<>> => st[1].of \in Lookup
  /\ \A i \in 1..Len(st) - 1 : Calls(st[i], st[i + 1].of)

\* An entry was of its age when it was written, ttl days before it expires; a
\* failure is kept only by those that keep failures.
EntryHolds(s, e) ==
  /\ e \in Cached
  /\ e.until - Method[s].ttl - e.born <= Most(MaxAge, s)
  /\ e.blamed # Never => /\ Method[s].keeps # "answered"
                         /\ e.until - Method[s].ttl - e.blamed <= Most(MaxBlame, s)

AnswerHolds(a) ==
  /\ a \in Returned
  /\ a.of # "none" => a.day - a.born <= MaxAge[a.of]
  /\ a.blamed # Never => a.of # "none" /\ a.day - a.blamed <= MaxBlame[a.of]

CacheHolds == cache \in [Kept -> Cached] /\ \A s \in Kept : EntryHolds(s, cache[s])
StacksHold == DOMAIN stack = Worker /\ \A w \in Worker : StackFits(day, stack[w])
AnswersHold == DOMAIN answer = Worker /\ \A w \in Worker : AnswerHolds(answer[w])

LInv == topic \in Topics /\ day \in Nat /\ CacheHolds /\ StacksHold /\ AnswersHold

-----------------------------------------------------------------------------
(* Lookups: lifetimes add up.                                              *)

LEMMA Weights ==
  /\ MaxAge \in [Lookup -> Nat] /\ MaxBlame \in [Lookup -> Nat]
  /\ \A s \in Lookup :
       /\ Most(MaxAge, s) \in Nat /\ Most(MaxBlame, s) \in Nat /\ Lifetime(s) \in Nat
       /\ MaxAge[s] = Lifetime(s) + Most(MaxAge, s)
       /\ MaxBlame[s] = (IF Method[s].keeps = "answered" THEN 0 ELSE Lifetime(s))
                          + Most(MaxBlame, s)
       /\ \A u \in Subs(s) : /\ u \in Lookup
                             /\ MaxAge[u] <= Most(MaxAge, s)
                             /\ MaxBlame[u] <= Most(MaxBlame, s)
<1>1. MaxAge \in [Lookup -> Nat] /\ MaxBlame \in [Lookup -> Nat]
  BY AgeEquation, BlameEquation, BasesAreTyped, FixedPointIsTyped
<1>2. ASSUME NEW s \in Lookup
      PROVE  /\ MaxAge[s] = AgeBase[s] + Most(MaxAge, s)
             /\ MaxBlame[s] = BlameBase[s] + Most(MaxBlame, s)
  <2>1. Once(AgeBase, MaxAge)[s] = AgeBase[s] + Most(MaxAge, s)
    BY DEF Once
  <2>2. Once(BlameBase, MaxBlame)[s] = BlameBase[s] + Most(MaxBlame, s)
    BY DEF Once
  <2> QED BY <2>1, <2>2, AgeEquation, BlameEquation
<1>3. ASSUME NEW s \in Lookup
      PROVE  /\ Most(MaxAge, s) \in Nat /\ Most(MaxBlame, s) \in Nat
             /\ \A u \in Subs(s) : /\ u \in Lookup
                                   /\ MaxAge[u] <= Most(MaxAge, s)
                                   /\ MaxBlame[u] <= Most(MaxBlame, s)
  <2>1. \A u \in Subs(s) : u \in Lookup
    BY TableFits DEF EntryFits
  <2>2. \A u \in Subs(s) : MaxAge[u] \in Nat /\ MaxBlame[u] \in Nat
    BY <1>1, <2>1
  <2> QED BY <2>1, <2>2, MostIsMost
<1>4. ASSUME NEW s \in Lookup
      PROVE  /\ AgeBase[s] = Lifetime(s) /\ Lifetime(s) \in Nat
             /\ BlameBase[s] = IF Method[s].keeps = "answered" THEN 0 ELSE Lifetime(s)
  BY BasesAreTyped DEF AgeBase, BlameBase
<1> QED BY <1>1, <1>2, <1>3, <1>4

LEMMA KeptLifetime ==
  ASSUME NEW s \in Kept
  PROVE  s \in Lookup /\ Method[s].ttl \in Nat /\ Lifetime(s) = Method[s].ttl - 1
BY TableFits DEF Kept, Lifetime, EntryFits

\* What a method makes of an answer is as old as its parts may be.
LEMMA WithFits ==
  ASSUME NEW d \in Nat, NEW f, NEW s, NEW a, FrameFits(d, f), Calls(f, s), ResultFits(d, s, a)
  PROVE  FrameFits(d, With(f, a)) /\ With(f, a).of = f.of
<1>1. /\ f \in Frames /\ f.of \in Lookup /\ f.at \in Int /\ f.born \in Int /\ f.blamed \in Int
      /\ d - f.born <= Most(MaxAge, f.of)
      /\ f.blamed # Never => d - f.blamed <= Most(MaxBlame, f.of)
  BY DEF FrameFits, Calls, Frames
<1>2. a.born \in Int /\ a.blamed \in Int /\ a.found \in BOOLEAN
  BY DEF ResultFits, Result
<1>3. /\ d - a.born <= Most(MaxAge, f.of)
      /\ a.blamed # Never => d - a.blamed <= Most(MaxBlame, f.of)
  <2>1. Most(MaxAge, f.of) \in Nat /\ Most(MaxBlame, f.of) \in Nat
    BY <1>1, Weights
  <2>2. CASE s \in Lookup
    <3>1. s \in Subs(f.of)
      <4>1. s \notin Leaf
        BY <2>2, Names DEF Leaf
      <4> QED BY <4>1 DEF Subs, Calls, Parts
    <3>2. MaxAge[s] \in Nat /\ MaxBlame[s] \in Nat
      BY <2>2, Weights
    <3>3. MaxAge[s] <= Most(MaxAge, f.of) /\ MaxBlame[s] <= Most(MaxBlame, f.of)
      BY <1>1, <3>1, Weights
    <3> QED BY <1>2, <2>1, <2>2, <3>2, <3>3 DEF ResultFits, Never
  <2>3. CASE s \notin Lookup
    BY <1>2, <2>1, <2>3 DEF ResultFits, Never
  <2> QED BY <2>2, <2>3
<1>4. Len(Parts(f)) \in Nat
  <2>1. Parts(f) \in Seq(Part)
    BY <1>1, TableFits DEF EntryFits, Parts
  <2> QED BY <2>1
<1> DEFINE g == With(f, a)
<1>5. g.born = Min({f.born, a.born}) /\ g.blamed = Earlier(f.blamed, a.blamed) /\ g.of = f.of
  BY <1>1 DEF With, Frames
<1>6. g.born \in {f.born, a.born}
  BY <1>1, <1>2, <1>5 DEF Min
<1>7. g.blamed \in {f.blamed, a.blamed}
  BY <1>5 DEF Earlier
<1>8. g \in Frames
  <2>1. /\ g.at \in {f.at + 1, Len(Parts(f)) + 1, -f.at}
        /\ g.found = (Parts(f)[f.at].mode = "must" => a.found)
    BY <1>1 DEF With, Frames
  <2>5. DOMAIN g = DOMAIN f /\ g = [x \in DOMAIN g |-> g[x]]
    BY Zenon DEF With
  <2>6. DOMAIN f = {"of", "at", "found", "born", "blamed"}
    BY <1>1 DEF Frames
  <2>2. g.at \in Int
    BY <1>1, <1>4, <2>1
  <2>3. g.found \in BOOLEAN
    BY <2>1
  <2>4. g.of \in Lookup \cup Leaf /\ g.born \in Int /\ g.blamed \in Int
    BY <1>1, <1>2, <1>5, <1>6, <1>7
  <2> HIDE DEF g
  <2> QED BY <2>2, <2>3, <2>4, <2>5, <2>6 DEF Frames
<1> HIDE DEF g
<1>9. d - g.born <= Most(MaxAge, f.of)
  BY <1>1, <1>3, <1>6
<1>10. g.blamed # Never => d - g.blamed <= Most(MaxBlame, f.of)
  BY <1>1, <1>3, <1>7
<1>11. FrameFits(d, g) /\ g.of = f.of
  BY <1>5, <1>8, <1>9, <1>10 DEF FrameFits
<1> QED BY <1>11 DEF g

-----------------------------------------------------------------------------
(* Lookups: stacks.                                                        *)

LEMMA FrontFacts ==
  ASSUME NEW st \in Seq(Frames), st # <<>>
  PROVE  /\ Front(st) \in Seq(Frames) /\ Len(Front(st)) = Len(st) - 1
         /\ \A i \in 1..Len(st) - 1 : Front(st)[i] = st[i]
         /\ Len(st) \in Nat \ {0} /\ Last(st) = st[Len(st)] /\ Last(st) \in Frames
<1>1. Len(st) \in Nat \ {0} /\ Last(st) = st[Len(st)] /\ Last(st) \in Frames
  BY DEF Last
<1>2. \A i \in 1..Len(st) - 1 : st[i] \in Frames
  BY <1>1
<1> DEFINE n == Len(st) - 1
<1>3. n \in Nat /\ 1 \in Int
  BY <1>1
<1> HIDE DEF n
<1>4. \A i \in 1..n : st[i] \in Frames
  BY <1>2 DEF n
<1>5. /\ SubSeq(st, 1, n) \in Seq(Frames)
      /\ Len(SubSeq(st, 1, n)) = IF 1 <= n THEN n - 1 + 1 ELSE 0
      /\ \A i \in 1..n - 1 + 1 : SubSeq(st, 1, n)[i] = st[1 + i - 1]
  BY <1>3, <1>4, SubSeqProperties
<1>6. /\ SubSeq(st, 1, n) \in Seq(Frames)
      /\ Len(SubSeq(st, 1, n)) = n
      /\ \A i \in 1..n : SubSeq(st, 1, n)[i] = st[i]
  BY <1>3, <1>5
<1> QED BY <1>1, <1>6 DEF n, Front

LEMMA EmptyFits == ASSUME NEW d PROVE StackFits(d, <<>>)
BY DEF StackFits

LEMMA PushFits ==
  ASSUME NEW d, NEW st, NEW f, StackFits(d, st), FrameFits(d, f),
         st = <<>> => f.of \in Lookup, st # <<>> => Calls(Last(st), f.of)
  PROVE  StackFits(d, Append(st, f))
<1> DEFINE new == Append(st, f)
<1>1. /\ st \in Seq(Frames) /\ f \in Frames /\ Len(st) \in Nat
      /\ new \in Seq(Frames) /\ Len(new) = Len(st) + 1 /\ new # <<>>
      /\ \A i \in 1..Len(st) : new[i] = st[i]
      /\ new[Len(st) + 1] = f
  <2>1. st \in Seq(Frames) /\ f \in Frames
    BY DEF StackFits, FrameFits
  <2> QED BY <2>1, AppendProperties
<1> HIDE DEF new
<1>2. ASSUME NEW i \in 1..Len(new) PROVE FrameFits(d, new[i])
  <2>1. CASE i = Len(st) + 1
    BY <1>1, <2>1
  <2>2. CASE i # Len(st) + 1
    BY <1>1, <1>2, <2>2 DEF StackFits
  <2> QED BY <2>1, <2>2
<1>3. new[1].of \in Lookup
  <2>1. CASE st = <<>>
    BY <1>1, <2>1
  <2>2. CASE st # <<>>
    BY <1>1, <2>2 DEF StackFits
  <2> QED BY <2>1, <2>2
<1>4. ASSUME NEW i \in 1..Len(new) - 1 PROVE Calls(new[i], new[i + 1].of)
  <2>1. CASE i = Len(st)
    <3>1. st # <<>> /\ new[i] = Last(st) /\ new[i + 1] = f
      BY <1>1, <2>1 DEF Last
    <3> QED BY <3>1
  <2>2. CASE i # Len(st)
    <3>1. i \in 1..Len(st) - 1 /\ i + 1 \in 1..Len(st)
      BY <1>1, <2>2
    <3> QED BY <1>1, <3>1 DEF StackFits
  <2> QED BY <2>1, <2>2
<1>5. StackFits(d, new)
  BY <1>1, <1>2, <1>3, <1>4 DEF StackFits
<1> QED BY <1>5 DEF new

LEMMA PopFits ==
  ASSUME NEW d, NEW st, StackFits(d, st), st # <<>>
  PROVE  /\ StackFits(d, Front(st)) /\ FrameFits(d, Last(st))
         /\ Front(st) = <<>> => Last(st).of \in Lookup
         /\ Front(st) # <<>> => Calls(Last(Front(st)), Last(st).of)
<1>1. /\ st \in Seq(Frames) /\ Front(st) \in Seq(Frames) /\ Len(Front(st)) = Len(st) - 1
      /\ \A i \in 1..Len(st) - 1 : Front(st)[i] = st[i]
      /\ Len(st) \in Nat \ {0} /\ Last(st) = st[Len(st)]
  BY FrontFacts DEF StackFits
<1>2. StackFits(d, Front(st))
  BY <1>1 DEF StackFits
<1>3. FrameFits(d, Last(st))
  BY <1>1 DEF StackFits
<1>4. ASSUME Front(st) = <<>> PROVE Last(st).of \in Lookup
  <2>1. Len(Front(st)) = 0
    BY <1>4
  <2>2. Len(st) = 1
    BY <1>1, <2>1
  <2> QED BY <1>1, <2>2 DEF StackFits
<1>5. ASSUME Front(st) # <<>> PROVE Calls(Last(Front(st)), Last(st).of)
  <2>1. Len(st) - 1 \in 1..Len(st) - 1
    BY <1>1, <1>5
  <2>2. Last(Front(st)) = st[Len(st) - 1]
    BY <1>1, <2>1 DEF Last
  <2>3. Calls(st[Len(st) - 1], st[(Len(st) - 1) + 1].of)
    BY <2>1 DEF StackFits
  <2> QED BY <1>1, <2>2, <2>3
<1> QED BY <1>2, <1>3, <1>4, <1>5

\* The innermost method goes on.
LEMMA TopMoves ==
  ASSUME NEW d, NEW st, NEW f, StackFits(d, st), st # <<>>, FrameFits(d, f), f.of = Last(st).of
  PROVE  StackFits(d, Append(Front(st), f))
BY PopFits, PushFits

-----------------------------------------------------------------------------
(* Lookups: a method returns.                                              *)

LEMMA AnswerIsGood ==
  ASSUME NEW s \in Lookup, NEW a, NEW d \in Nat, ResultFits(d, s, a)
  PROVE  AnswerHolds([of |-> s, day |-> d, found |-> a.found, born |-> a.born,
                      blamed |-> a.blamed])
<1>1. a \in Result
  BY DEF ResultFits
<1> DEFINE r == [of |-> s, day |-> d, found |-> a.found, born |-> a.born, blamed |-> a.blamed]
<1>2. r \in Returned
  BY <1>1 DEF Returned, Result
<1>3. s # "none"
  BY Names
<1> QED BY <1>2, <1>3 DEF AnswerHolds, ResultFits

LEMMA OneStackMoves ==
  ASSUME StacksHold, NEW w \in Worker, NEW st, StackFits(day, st), UNCHANGED day,
         stack' = [stack EXCEPT ![w] = st]
  PROVE  StacksHold'
<1>1. ASSUME NEW v \in Worker PROVE StackFits(day, stack'[v])
  BY DEF StacksHold
<1> QED BY <1>1 DEF StacksHold

LEMMA ReturnKeeps ==
  ASSUME LInv, NEW w \in Worker, stack[w] # <<>>, NEW a, ResultFits(day, Top(w).of, a),
         Return(w, a), UNCHANGED day
  PROVE  StacksHold' /\ AnswersHold'
<1> DEFINE st == stack[w]
           rest == Front(st)
           Given == [of |-> Top(w).of, day |-> day, found |-> a.found, born |-> a.born,
                     blamed |-> a.blamed]
<1>1. StackFits(day, st) /\ day \in Nat
  BY DEF LInv, StacksHold
<1>2. Top(w) = Last(st)
  BY DEF Top
<1>3. CASE rest = <<>>
  <2>1. stack' = [stack EXCEPT ![w] = <<>>]
    BY <1>3 DEF Return
  <2>2. answer' = [answer EXCEPT ![w] = Given]
    BY <1>3 DEF Return
  <2>3. StackFits(day, <<>>)
    BY EmptyFits
  <2>4. AnswerHolds(Given)
    BY <1>1, <1>2, <1>3, PopFits, AnswerIsGood
  <2>5. StacksHold'
    BY <2>1, <2>3, OneStackMoves DEF LInv
  <2>6. \A v \in Worker : AnswerHolds(answer'[v])
    BY <2>2, <2>4 DEF LInv, AnswersHold
  <2>7. DOMAIN answer' = Worker
    BY <2>2 DEF LInv, AnswersHold
  <2> QED BY <2>5, <2>6, <2>7 DEF AnswersHold
<1>4. CASE rest # <<>>
  <2> DEFINE f == Last(rest)
  <2>1. stack' = [stack EXCEPT ![w] = Append(Front(rest), With(f, a))] /\ UNCHANGED answer
    BY <1>4 DEF Return
  <2>2. StackFits(day, rest) /\ Calls(f, Top(w).of)
    BY <1>1, <1>2, <1>4, PopFits
  <2>3. FrameFits(day, f)
    BY <1>4, <2>2, PopFits
  <2>4. FrameFits(day, With(f, a)) /\ With(f, a).of = f.of
    <3> HIDE DEF f
    <3> QED BY <1>1, <2>2, <2>3, WithFits
  <2>5. StackFits(day, Append(Front(rest), With(f, a)))
    <3> DEFINE g == With(f, a)
    <3> HIDE DEF g, rest
    <3>1. StackFits(day, Append(Front(rest), g))
      BY <1>4, <2>2, <2>4, TopMoves DEF g
    <3> QED BY <3>1 DEF g
  <2>6. StacksHold'
    <3> HIDE DEF f
    <3> QED BY <2>1, <2>5, OneStackMoves DEF LInv
  <2> QED BY <2>1, <2>6 DEF LInv, AnswersHold
<1> QED BY <1>3, <1>4

-----------------------------------------------------------------------------
(* Lookups: every step keeps the invariant.                                *)

LEMMA StartFits ==
  ASSUME NEW d \in Nat, NEW s \in Lookup \cup Leaf
  PROVE  FrameFits(d, [of |-> s, at |-> 1, found |-> TRUE, born |-> d, blamed |-> Never])
<1> DEFINE f == [of |-> s, at |-> 1, found |-> TRUE, born |-> d, blamed |-> Never]
<1>1. f \in Frames
  BY DEF Frames, Never
<1>2. s \in Lookup => d - f.born <= Most(MaxAge, s)
  BY Weights
<1> QED BY <1>1, <1>2 DEF FrameFits

LEMMA LookupsStart == LookupsInit => LInv
<1> SUFFICES ASSUME LookupsInit PROVE LInv
  OBVIOUS
<1>1. \A s \in Kept : EntryHolds(s, Absent)
  <2> TAKE s \in Kept
  <2>1. Absent \in Cached /\ Absent.until - Absent.born = 0 /\ Absent.blamed = Never
    BY DEF Absent, Cached, Never
  <2>2. Method[s].ttl \in Nat /\ Most(MaxAge, s) \in Nat
    BY KeptLifetime, Weights
  <2> QED BY <2>1, <2>2 DEF EntryHolds, Absent, Never
<1>2. Absent \in Cached
  BY DEF Absent, Cached, Never
<1>3. CacheHolds
  BY <1>1, <1>2 DEF LookupsInit, CacheHolds
<1>4. StacksHold
  BY DEF LookupsInit, StacksHold, StackFits
<1>5. AnswerHolds(NoAnswer)
  BY DEF AnswerHolds, NoAnswer, Returned, Never
<1>6. AnswersHold
  BY <1>5 DEF LookupsInit, AnswersHold
<1> QED BY <1>3, <1>4, <1>6 DEF LookupsInit, LInv

LEMMA AskKeeps ==
  ASSUME LInv, NEW w \in Worker, Ask(w)
  PROVE  LInv'
<1>1. PICK s \in {topic} \cup (Under[topic] \cap Shared) :
           stack' = [stack EXCEPT ![w] = <<Frame(s)>>]
  BY DEF Ask
<1>2. UNCHANGED <<topic, day, cache>> /\ answer' = [answer EXCEPT ![w] = NoAnswer]
  BY DEF Ask
<1>3. s \in Lookup
  BY LookupsAssumption, Names DEF LInv, Shared
<1>4. FrameFits(day, Frame(s)) /\ Frame(s).of = s
  BY <1>3, StartFits DEF LInv, Frame
<1>5. StackFits(day, <<>>)
  BY EmptyFits
<1> DEFINE f == Frame(s)
<1> HIDE DEF f
<1>6. StackFits(day, Append(<<>>, f))
  BY <1>3, <1>4, <1>5, PushFits DEF f
<1>7. Append(<<>>, f) = <<f>>
  OBVIOUS
<1>8. StacksHold'
  BY <1>1, <1>2, <1>6, <1>7, OneStackMoves DEF f, LInv
<1>9. AnswerHolds(NoAnswer)
  BY DEF AnswerHolds, NoAnswer, Returned, Never
<1>10. \A v \in Worker : AnswerHolds(answer'[v])
  BY <1>2, <1>9 DEF LInv, AnswersHold
<1>11. AnswersHold'
  BY <1>2, <1>10 DEF LInv, AnswersHold
<1> QED BY <1>2, <1>8, <1>11 DEF LInv, CacheHolds

LEMMA HitKeeps ==
  ASSUME LInv, NEW w \in Worker, Hit(w)
  PROVE  LInv'
<1> DEFINE s == Top(w).of
<1>1. /\ stack[w] # <<>> /\ Return(w, Entry(s)) /\ UNCHANGED <<topic, day, cache>>
      /\ s \in Kept /\ cache[s].until > day
  BY DEF Hit, InLookup, Fresh, world
<1> HIDE DEF s
<1>2. /\ s \in Lookup /\ Method[s].ttl \in Nat /\ Lifetime(s) = Method[s].ttl - 1
      /\ Most(MaxAge, s) \in Nat /\ Most(MaxBlame, s) \in Nat
      /\ MaxAge[s] = Lifetime(s) + Most(MaxAge, s)
      /\ MaxBlame[s] = (IF Method[s].keeps = "answered" THEN 0 ELSE Lifetime(s))
                         + Most(MaxBlame, s)
  BY <1>1, KeptLifetime, Weights
<1> DEFINE e == cache[s]
<1>3. /\ e.born \in Int /\ e.blamed \in Int /\ e.until \in Int /\ e.found \in BOOLEAN
      /\ e.until > day /\ day \in Nat
      /\ e.until - Method[s].ttl - e.born <= Most(MaxAge, s)
      /\ e.blamed # Never => /\ Method[s].keeps # "answered"
                             /\ e.until - Method[s].ttl - e.blamed <= Most(MaxBlame, s)
  BY <1>1 DEF LInv, CacheHolds, EntryHolds, Cached
<1>4. Entry(s) = [found |-> e.found, born |-> e.born, blamed |-> e.blamed]
  BY DEF Entry
<1> HIDE DEF e
<1>5. day - e.born <= MaxAge[s]
  BY <1>2, <1>3
<1>6. e.blamed # Never => day - e.blamed <= MaxBlame[s]
  BY <1>2, <1>3
<1>7. ResultFits(day, s, Entry(s))
  BY <1>2, <1>3, <1>4, <1>5, <1>6 DEF ResultFits, Result
<1>8. StacksHold' /\ AnswersHold'
  BY <1>1, <1>7, ReturnKeeps DEF s
<1> QED BY <1>1, <1>8 DEF LInv, CacheHolds

LEMMA TopFits ==
  ASSUME LInv, NEW w \in Worker, stack[w] # <<>>
  PROVE  FrameFits(day, Top(w)) /\ Top(w) = Last(stack[w]) /\ StackFits(day, stack[w])
BY PopFits DEF LInv, StacksHold, Top

LEMMA DescendKeeps ==
  ASSUME LInv, NEW w \in Worker, Descend(w)
  PROVE  LInv'
<1> DEFINE s == Parts(Top(w))[Top(w).at].of
           f == Frame(s)
<1>1. /\ stack[w] # <<>> /\ Top(w).of \in Lookup /\ Top(w).at \in DOMAIN Parts(Top(w))
      /\ UNCHANGED <<topic, day, cache, answer>>
      /\ stack' = [stack EXCEPT ![w] = Append(stack[w], f)]
  BY DEF Descend, InLookup, world
<1>2. s \in Lookup \cup Leaf
  <2>1. Parts(Top(w)) \in Seq(Part)
    BY <1>1, TableFits DEF EntryFits, Parts
  <2>2. Parts(Top(w))[Top(w).at] \in Part
    BY <1>1, <2>1
  <2> QED BY <2>2 DEF Part
<1>3. Calls(Top(w), s)
  BY <1>1 DEF Calls
<1> HIDE DEF s
<1>4. FrameFits(day, f) /\ f.of = s
  BY <1>2, StartFits DEF LInv, Frame
<1> HIDE DEF f
<1>5. StackFits(day, Append(stack[w], f))
  BY <1>1, <1>3, <1>4, TopFits, PushFits
<1>6. StacksHold'
  BY <1>1, <1>5, OneStackMoves DEF LInv
<1> QED BY <1>1, <1>6 DEF LInv, CacheHolds, AnswersHold

LEMMA FinishKeeps ==
  ASSUME LInv, NEW w \in Worker, Finish(w)
  PROVE  LInv'
<1> DEFINE f == Top(w)
           s == f.of
<1>1. PICK found \in Outcomes(f), kept \in BOOLEAN :
        /\ kept \in Keeps(f, found)
        /\ cache' = IF ~kept THEN cache
                    ELSE [cache EXCEPT ![s] =
                            [found |-> found, born |-> f.born, blamed |-> f.blamed,
                             until |-> day + Method[s].ttl]]
        /\ Return(w, [found |-> found, born |-> f.born, blamed |-> f.blamed])
  BY DEF Finish
<1>2. stack[w] # <<>> /\ s \in Lookup /\ UNCHANGED <<topic, day>>
  BY DEF Finish, InLookup, world
<1>3. /\ f.born \in Int /\ f.blamed \in Int /\ f.found \in BOOLEAN /\ day \in Nat
      /\ day - f.born <= Most(MaxAge, s)
      /\ f.blamed # Never => day - f.blamed <= Most(MaxBlame, s)
  BY <1>2, TopFits DEF FrameFits, Frames, LInv
<1>4. found \in BOOLEAN
  BY <1>3 DEF Outcomes
<1>5. kept => s \in Kept /\ (Method[s].keeps = "answered" => f.blamed = Never)
  BY <1>1, <1>2 DEF Keeps, Kept
<1> DEFINE a == [found |-> found, born |-> f.born, blamed |-> f.blamed]
           e == [found |-> found, born |-> f.born, blamed |-> f.blamed,
                 until |-> day + Method[s].ttl]
<1>6. Return(w, a) /\ cache' = IF ~kept THEN cache ELSE [cache EXCEPT ![s] = e]
  BY <1>1
<1>7. ResultFits(day, s, a)
  <2>1. /\ Most(MaxAge, s) \in Nat /\ Most(MaxBlame, s) \in Nat
        /\ Most(MaxAge, s) <= MaxAge[s] /\ Most(MaxBlame, s) <= MaxBlame[s]
        /\ MaxAge[s] \in Nat /\ MaxBlame[s] \in Nat
    <3> HIDE DEF s
    <3>1. /\ Most(MaxAge, s) \in Nat /\ Most(MaxBlame, s) \in Nat /\ Lifetime(s) \in Nat
          /\ MaxAge[s] = Lifetime(s) + Most(MaxAge, s)
          /\ MaxBlame[s] = (IF Method[s].keeps = "answered" THEN 0 ELSE Lifetime(s))
                             + Most(MaxBlame, s)
      BY <1>2, Weights
    <3> QED BY <3>1
  <2>2. a \in Result
    BY <1>3, <1>4 DEF Result
  <2>3. a.born = f.born /\ a.blamed = f.blamed
    OBVIOUS
  <2> HIDE DEF a, f
  <2> QED BY <1>2, <1>3, <2>1, <2>2, <2>3 DEF ResultFits, Never
<1>8. StacksHold' /\ AnswersHold'
  <2> HIDE DEF a
  <2> QED BY <1>2, <1>6, <1>7, ReturnKeeps
<1>9. ASSUME kept PROVE EntryHolds(s, e)
  <2>1. s \in Kept /\ Method[s].ttl \in Nat
    BY <1>5, <1>9, KeptLifetime
  <2>2. e \in Cached
    BY <1>3, <1>4, <2>1 DEF Cached
  <2>3. e.until - Method[s].ttl = day /\ e.born = f.born /\ e.blamed = f.blamed
    BY <1>3, <2>1
  <2> HIDE DEF e, f
  <2> QED BY <1>3, <1>5, <1>9, <2>2, <2>3 DEF EntryHolds
<1>10. CacheHolds'
  <2> HIDE DEF e
  <2>1. CASE kept
    <3>1. s \in Kept /\ e \in Cached
      BY <1>5, <1>9, <2>1 DEF EntryHolds
    <3>2. cache' = [cache EXCEPT ![s] = e]
      BY <1>6, <2>1
    <3> HIDE DEF s
    <3>3. cache' \in [Kept -> Cached]
      BY <3>1, <3>2 DEF LInv, CacheHolds
    <3>4. \A t \in Kept : EntryHolds(t, cache'[t])
      BY <1>9, <2>1, <3>1, <3>2 DEF LInv, CacheHolds
    <3> QED BY <3>3, <3>4 DEF CacheHolds
  <2>2. CASE ~kept
    BY <1>6, <2>2 DEF LInv, CacheHolds
  <2> QED BY <2>1, <2>2
<1> QED BY <1>2, <1>8, <1>10 DEF LInv

\* A request, browser, engine or model replies or fails.
LEMMA LeafReturns ==
  ASSUME LInv, NEW w \in Worker, InLeaf(w), NEW a \in Result, a.born = day,
         a.blamed \in {Never, day}, Return(w, a), UNCHANGED <<topic, day, cache>>
  PROVE  LInv'
<1>1. Top(w).of \notin Lookup
  BY Names DEF InLeaf, Leaf
<1>2. ResultFits(day, Top(w).of, a)
  BY <1>1 DEF ResultFits, LInv, Result
<1>3. StacksHold' /\ AnswersHold'
  BY <1>2, ReturnKeeps DEF InLeaf
<1> QED BY <1>3 DEF LInv, CacheHolds

LEMMA LeafMoves ==
  ASSUME LInv, NEW w \in Worker, InLeaf(w), NEW at \in Int, MoveTo(w, at),
         UNCHANGED <<topic, day, cache, answer>>
  PROVE  LInv'
<1> DEFINE f == [Top(w) EXCEPT !.at = at]
<1>1. f \in Frames /\ f.of = Top(w).of /\ f.born = Top(w).born /\ f.blamed = Top(w).blamed
  BY TopFits DEF FrameFits, Frames, InLeaf
<1>2. stack' = [stack EXCEPT ![w] = Append(Front(stack[w]), f)]
  BY DEF MoveTo
<1> HIDE DEF f
<1>3. FrameFits(day, f)
  BY <1>1, TopFits DEF FrameFits, InLeaf
<1>4. StackFits(day, Append(Front(stack[w]), f))
  BY <1>1, <1>3, TopFits, TopMoves DEF InLeaf
<1>5. StacksHold'
  BY <1>2, <1>4, OneStackMoves DEF LInv
<1> QED BY <1>5 DEF LInv, CacheHolds, AnswersHold

LEMMA LeafKeeps ==
  ASSUME LInv, NEW w \in Worker, Try(w) \/ Reply(w) \/ Fail(w)
  PROVE  LInv'
<1>1. InLeaf(w) /\ Top(w).at \in Int
  BY TopFits DEF Try, Reply, Fail, InLeaf, FrameFits, Frames
<1>2. UNCHANGED <<topic, day, cache>>
  BY DEF Try, Reply, Fail, TryAgain, GiveUp, world
<1>3. CASE \E at \in Int : MoveTo(w, at) /\ UNCHANGED answer
  BY <1>1, <1>2, <1>3, LeafMoves
<1>4. CASE \E found \in BOOLEAN : Return(w, Said(found))
  <2>1. PICK found \in BOOLEAN : Return(w, Said(found))
    BY <1>4
  <2>2. Said(found) \in Result /\ Said(found).born = day /\ Said(found).blamed = Never
    BY DEF Said, Result, Never, LInv
  <2> QED BY <1>1, <1>2, <2>1, <2>2, LeafReturns
<1>5. CASE Return(w, Failed)
  <2>1. Failed \in Result /\ Failed.born = day /\ Failed.blamed = day
    BY DEF Failed, Result, LInv
  <2> QED BY <1>1, <1>2, <1>5, <2>1, LeafReturns
<1>6. Top(w).at + 1 \in Int /\ 1 \in Int
  BY <1>1
<1>7. QED
  BY <1>3, <1>4, <1>5, <1>6 DEF Try, Reply, Fail, TryAgain, GiveUp

LEMMA LookupsStep == LInv /\ [LookupsNext]_lookupVars => LInv'
<1> SUFFICES ASSUME LInv, [LookupsNext]_lookupVars PROVE LInv'
  OBVIOUS
<1>1. CASE Tick
  <2>1. /\ day' = day + 1 /\ UNCHANGED <<topic, cache, stack, answer>>
        /\ \A w \in Worker : stack[w] = <<>>
    BY <1>1 DEF Tick
  <2>2. \A w \in Worker : StackFits(day', stack'[w])
    BY <2>1, EmptyFits
  <2>3. StacksHold'
    BY <2>1, <2>2 DEF StacksHold, LInv
  <2>4. day' \in Nat
    BY <2>1 DEF LInv
  <2> QED BY <2>1, <2>3, <2>4 DEF LInv, CacheHolds, AnswersHold
<1>2. ASSUME NEW w \in Worker, Ask(w) PROVE LInv'
  BY <1>2, AskKeeps
<1>3. ASSUME NEW w \in Worker, Inside(w) PROVE LInv'
  BY <1>3, DescendKeeps, HitKeeps, FinishKeeps, LeafKeeps DEF Inside
<1>4. CASE UNCHANGED lookupVars
  BY <1>4 DEF lookupVars, LInv, CacheHolds, StacksHold, AnswersHold
<1> QED BY <1>1, <1>2, <1>3, <1>4 DEF LookupsNext

\* Whatever the threads of all visits ask, cache and overwrite, and whichever
\* requests fail, an answer is no older than the lifetimes of the caches below
\* one another added up (cache.py, get and set; CACHE_TTL_*).
THEOREM AnswersAreFresh == LookupsSpec => []FreshEnough
<1>1. LInv => FreshEnough
  BY DEF LInv, AnswersHold, AnswerHolds, FreshEnough
<1> QED BY <1>1, LookupsStart, LookupsStep, PTL DEF LookupsSpec

\* An outage is forgotten when the caches that keep failures have expired: a
\* lookup that does not keep them adds nothing (wikipedia.py, "don't cache").
THEOREM OutagesAreForgotten == LookupsSpec => []OutageForgotten
<1>1. LInv => OutageForgotten
  BY DEF LInv, AnswersHold, AnswerHolds, OutageForgotten
<1> QED BY <1>1, LookupsStart, LookupsStep, PTL DEF LookupsSpec
=============================================================================
