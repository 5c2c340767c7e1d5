--------------------------- MODULE Search_proofs ---------------------------
(***************************************************************************)
(* Routed search, for every number of workers, every set of providers and  *)
(* routes and every quota: the monthly quota is overrun by less than the   *)
(* number of workers, and fewer than all of them reach a provider after it *)
(* refused, or send a query while its answer is cached.                    *)
(***************************************************************************)
EXTENDS Search, TLAPS, FiniteSetTheorems

SearchRecord ==
  [query : Query \cup {""}, route : Routes \cup {<<>>}, at : Nat \ {0},
   endpoint : 1..Endpoints, found : Answers \cup {"failed"}]

BreakerRecord ==
  [state : {"closed", "open", "half_open"}, failures : 0..Threshold, cooled : BOOLEAN]

LEMMA MinOfTwo ==
  ASSUME NEW a \in Int, NEW b \in Int
  PROVE  /\ Min({a, b}) \in {a, b}
         /\ Min({a, b}) <= a /\ Min({a, b}) <= b
<1>1. PICK m \in {a, b} : \A y \in {a, b} : m =< y
  <2>1. CASE a =< b BY <2>1
  <2>2. CASE ~(a =< b) BY <2>2
  <2> QED BY <2>1, <2>2
<1> QED BY <1>1 DEF Min

LEMMA Bounds == Quota \in Nat /\ Threshold \in Nat \ {0} /\ Endpoints \in Nat \ {0}
BY SearchAssumption

LEMMA NoSearchType == NoSearch \in SearchRecord
BY SearchAssumption DEF NoSearch, SearchRecord, Answers

\* What the breaker can become.
LEMMA BreakerTypes ==
  ASSUME breaker \in BreakerRecord
  PROVE  /\ ClosedBreaker \in BreakerRecord
         /\ AfterAllow \in BreakerRecord
         /\ AfterSuccess \in BreakerRecord
         /\ AfterFailure \in BreakerRecord
<1>1. ClosedBreaker \in BreakerRecord
  BY SearchAssumption DEF ClosedBreaker, BreakerRecord
<1>2. AfterAllow \in BreakerRecord
  BY DEF AfterAllow, BreakerRecord
<1>3. AfterSuccess \in BreakerRecord
  BY <1>1 DEF AfterSuccess
<1>4. AfterFailure \in BreakerRecord
  <2> DEFINE n == breaker.failures + 1
             m == Min({n, Threshold})
  <2>1. n \in Int /\ n >= 0 /\ Threshold \in Int /\ Threshold >= 0
    BY SearchAssumption DEF BreakerRecord
  <2>2. m \in {n, Threshold} /\ m <= Threshold
    <3> HIDE DEF n
    <3> QED BY <2>1, MinOfTwo, Zenon
  <2>3. m \in 0..Threshold
    <3> HIDE DEF m, n
    <3> QED BY <2>1, <2>2
  <2> HIDE DEF m
  <2>4. AfterFailure =
          [state |-> IF breaker.state = "half_open" \/ n >= Threshold
                     THEN "open" ELSE breaker.state,
           failures |-> m,
           cooled |-> breaker.cooled
                        /\ ~(breaker.state = "half_open" \/ n >= Threshold)]
    BY DEF AfterFailure, m
  <2> QED BY <2>3, <2>4 DEF BreakerRecord
<1> QED BY <1>1, <1>2, <1>3, <1>4

\* SearchTypeOK with its record sets named.
LEMMA TypeParts ==
  SearchTypeOK <=>
    /\ pc \in [Worker -> PC]
    /\ search \in [Worker -> SearchRecord]
    /\ cache \in [Provider \X Query -> {"absent", "empty", "hits"}]
    /\ counter \in [Metered -> Nat] /\ used \in [Metered -> Nat]
    /\ exhausted \in [Metered -> BOOLEAN]
    /\ mark \in [Metered -> {"none", "ok", "exhausted", "invalid_key"}]
    /\ breaker \in BreakerRecord
BY DEF SearchTypeOK, SearchRecord, BreakerRecord

LEMMA GotoType ==
  ASSUME pc \in [Worker -> PC], NEW w \in Worker, NEW from, NEW to \in PC,
         Goto(w, from, to)
  PROVE  pc' \in [Worker -> PC]
BY DEF Goto

LEMMA FoundType ==
  ASSUME search \in [Worker -> SearchRecord], NEW w \in Worker,
         NEW f \in Answers \cup {"failed"}, Found(w, f)
  PROVE  search' \in [Worker -> SearchRecord]
<1>1. [search[w] EXCEPT !.found = f] \in SearchRecord
  BY DEF SearchRecord
<1>2. search' = [search EXCEPT ![w] = [search[w] EXCEPT !.found = f]]
  BY DEF Found
<1> QED BY <1>1, <1>2

LEMMA NextRecord ==
  ASSUME NEW r \in SearchRecord
  PROVE  [r EXCEPT !.at = @ + 1, !.endpoint = 1, !.found = "failed"] \in SearchRecord
<1>1. r.at + 1 \in Nat \ {0}
  <2>1. r.at \in Nat \ {0} BY DEF SearchRecord
  <2> QED BY <2>1
<1>2. 1 \in 1..Endpoints BY Bounds
<1> QED BY <1>1, <1>2 DEF SearchRecord

LEMMA NextProviderType ==
  ASSUME search \in [Worker -> SearchRecord], NEW w \in Worker, NextProvider(w)
  PROVE  search' \in [Worker -> SearchRecord]
<1> DEFINE r == [search[w] EXCEPT !.at = @ + 1, !.endpoint = 1, !.found = "failed"]
<1>1. r \in SearchRecord
  <2>1. search[w] \in SearchRecord OBVIOUS
  <2> QED BY <2>1, NextRecord
<1>2. search' = [search EXCEPT ![w] = r]
  BY DEF NextProvider, SearchRecord
<1> HIDE DEF r
<1> QED BY <1>1, <1>2

LEMMA EndType ==
  ASSUME search \in [Worker -> SearchRecord], NEW w \in Worker,
         search' = [search EXCEPT ![w] = NoSearch]
  PROVE  search' \in [Worker -> SearchRecord]
BY NoSearchType

-----------------------------------------------------------------------------
LEMMA InitType == SearchInit => SearchTypeOK
<1> SUFFICES ASSUME SearchInit PROVE SearchTypeOK
  OBVIOUS
<1> USE DEF SearchInit
<1>1. pc \in [Worker -> PC] BY DEF PC
<1>2. search \in [Worker -> SearchRecord] BY NoSearchType
<1>3. cache \in [Provider \X Query -> {"absent", "empty", "hits"}]
  OBVIOUS
<1>4. counter \in [Metered -> Nat] /\ used \in [Metered -> Nat]
  BY SearchAssumption
<1>5. exhausted \in [Metered -> BOOLEAN] OBVIOUS
<1>6. mark \in [Metered -> {"none", "ok", "exhausted", "invalid_key"}] OBVIOUS
<1>7. breaker \in BreakerRecord
  BY SearchAssumption DEF ClosedBreaker, BreakerRecord
<1> QED BY <1>1, <1>2, <1>3, <1>4, <1>5, <1>6, <1>7, TypeParts

LEMMA StepType == SearchTypeOK /\ [SearchNext]_vars => SearchTypeOK'
<1> SUFFICES ASSUME SearchTypeOK, [SearchNext]_vars PROVE SearchTypeOK'
  OBVIOUS
<1> DEFINE PcOK == pc \in [Worker -> PC]
           SearchOK == search \in [Worker -> SearchRecord]
           CacheOK == cache \in [Provider \X Query -> {"absent", "empty", "hits"}]
           CountOK == counter \in [Metered -> Nat] /\ used \in [Metered -> Nat]
           FlagOK == exhausted \in [Metered -> BOOLEAN]
           MarkOK == mark \in [Metered -> {"none", "ok", "exhausted", "invalid_key"}]
           BreakerOK == breaker \in BreakerRecord
<1>0. /\ PcOK /\ SearchOK /\ CacheOK /\ CountOK /\ FlagOK /\ MarkOK /\ BreakerOK
  BY TypeParts
<1>s. SUFFICES /\ PcOK' /\ SearchOK' /\ CacheOK' /\ CountOK'
               /\ FlagOK' /\ MarkOK' /\ BreakerOK'
  BY DEF SearchTypeOK, SearchRecord, BreakerRecord
<1>p. /\ "idle" \in PC /\ "ask" \in PC /\ "lookup" \in PC /\ "check" \in PC
      /\ "call" \in PC /\ "judge" \in PC /\ "store" \in PC
  BY DEF PC
<1>b. ASSUME NEW p, AskBreaker(p) PROVE BreakerOK'
  BY <1>0, <1>b, BreakerTypes DEF AskBreaker
<1>1. ASSUME NEW w \in Worker, Begin(w)
      PROVE  /\ PcOK' /\ SearchOK' /\ CacheOK' /\ CountOK'
             /\ FlagOK' /\ MarkOK' /\ BreakerOK'
  <2>1. PcOK' BY <1>0, <1>1, <1>p, GotoType DEF Begin
  <2>2. SearchOK'
    <3>1. PICK q \in Query, r \in Routes :
            search' = [search EXCEPT ![w] = [NoSearch EXCEPT !.query = q, !.route = r]]
      BY <1>1 DEF Begin
    <3>2. [NoSearch EXCEPT !.query = q, !.route = r] \in SearchRecord
      BY NoSearchType DEF SearchRecord
    <3> QED BY <1>0, <3>1, <3>2
  <2> QED BY <1>0, <1>1, <2>1, <2>2 DEF Begin
<1>2. ASSUME NEW w \in Worker, GiveUp(w)
      PROVE  /\ PcOK' /\ SearchOK' /\ CacheOK' /\ CountOK'
             /\ FlagOK' /\ MarkOK' /\ BreakerOK'
  <2>1. PcOK' BY <1>0, <1>2, <1>p, GotoType DEF GiveUp
  <2>2. SearchOK' BY <1>0, <1>2, EndType DEF GiveUp
  <2> QED BY <1>0, <1>2, <2>1, <2>2 DEF GiveUp
<1>3. ASSUME NEW w \in Worker, Ask(w)
      PROVE  /\ PcOK' /\ SearchOK' /\ CacheOK' /\ CountOK'
             /\ FlagOK' /\ MarkOK' /\ BreakerOK'
  <2>1. PcOK' BY <1>0, <1>3, <1>p, GotoType DEF Ask
  <2>2. SearchOK' BY <1>0, <1>3, NextProviderType DEF Ask
  <2>3. BreakerOK' BY <1>3, <1>b DEF Ask
  <2> QED BY <1>0, <1>3, <2>1, <2>2, <2>3 DEF Ask
<1>4. ASSUME NEW w \in Worker, Lookup(w)
      PROVE  /\ PcOK' /\ SearchOK' /\ CacheOK' /\ CountOK'
             /\ FlagOK' /\ MarkOK' /\ BreakerOK'
  <2>1. PcOK' BY <1>0, <1>4, <1>p, GotoType DEF Lookup
  <2>2. SearchOK' BY <1>0, <1>4, NextProviderType, EndType DEF Lookup
  <2> QED BY <1>0, <1>4, <2>1, <2>2 DEF Lookup
<1>5. ASSUME NEW w \in Worker, Check(w)
      PROVE  /\ PcOK' /\ SearchOK' /\ CacheOK' /\ CountOK'
             /\ FlagOK' /\ MarkOK' /\ BreakerOK'
  <2>1. PcOK' BY <1>0, <1>5, <1>p, GotoType DEF Check
  <2>2. BreakerOK' BY <1>5, <1>b DEF Check
  <2> QED BY <1>0, <1>5, <2>1, <2>2 DEF Check
<1>6. ASSUME NEW w \in Worker, Answer(w)
      PROVE  /\ PcOK' /\ SearchOK' /\ CacheOK' /\ CountOK'
             /\ FlagOK' /\ MarkOK' /\ BreakerOK'
  <2>1. PcOK' BY <1>0, <1>6, <1>p, GotoType DEF Answer
  <2>2. SearchOK' BY <1>0, <1>6, FoundType DEF Answer
  <2>3. CountOK' BY <1>0, <1>6 DEF Answer
  <2> QED BY <1>0, <1>6, <2>1, <2>2, <2>3 DEF Answer
<1>7. ASSUME NEW w \in Worker, Judge(w)
      PROVE  /\ PcOK' /\ SearchOK' /\ CacheOK' /\ CountOK'
             /\ FlagOK' /\ MarkOK' /\ BreakerOK'
  <2>1. PcOK' BY <1>0, <1>7, <1>p, GotoType DEF Judge
  <2>2. SearchOK'
    <3> DEFINE a == search[w].found
               f == IF a \in {"hits", "empty"} THEN a ELSE "failed"
    <3>1. Found(w, f) BY <1>7 DEF Judge
    <3>2. f \in Answers \cup {"failed"} BY DEF Answers
    <3> HIDE DEF f
    <3> QED BY <1>0, <3>1, <3>2, FoundType
  <2>3. FlagOK' BY <1>0, <1>7 DEF Judge
  <2>4. MarkOK'
    <3> DEFINE a == search[w].found
               m == CASE a = "denied" -> "invalid_key"
                      [] a = "spent" -> "exhausted"
                      [] a = "other" -> mark[Asked(w)]
                      [] OTHER -> "ok"
    <3>1. mark' = [mark EXCEPT ![Asked(w)] = m] BY <1>7 DEF Judge
    <3>2. Asked(w) \in Metered => m \in {"none", "ok", "exhausted", "invalid_key"}
      BY <1>0
    <3> HIDE DEF m
    <3> QED BY <1>0, <3>1, <3>2
  <2> QED BY <1>0, <1>7, <2>1, <2>2, <2>3, <2>4 DEF Judge
<1>8. ASSUME NEW w \in Worker, AskWikipedia(w)
      PROVE  /\ PcOK' /\ SearchOK' /\ CacheOK' /\ CountOK'
             /\ FlagOK' /\ MarkOK' /\ BreakerOK'
  <2>1. PcOK' BY <1>0, <1>8, <1>p, GotoType DEF AskWikipedia
  <2>2. SearchOK'
    <3>1. PICK f \in {"hits", "empty", "failed"} : Found(w, f)
      BY <1>8 DEF AskWikipedia
    <3>2. f \in Answers \cup {"failed"} BY DEF Answers
    <3> QED BY <1>0, <3>1, <3>2, FoundType
  <2> QED BY <1>0, <1>8, <2>1, <2>2 DEF AskWikipedia
<1>9. ASSUME NEW w \in Worker, AskEndpoint(w)
      PROVE  /\ PcOK' /\ SearchOK' /\ CacheOK' /\ CountOK'
             /\ FlagOK' /\ MarkOK' /\ BreakerOK'
  <2>1. PICK a \in {"hits", "empty", "failed", "other"} :
          /\ breaker' = CASE a = "failed" -> AfterFailure
                          [] a = "other" -> breaker
                          [] OTHER -> AfterSuccess
          /\ search' = [search EXCEPT ![w].found = IF a \in {"hits", "empty"} THEN a ELSE @,
                                      ![w].endpoint = Min({@ + 1, Endpoints})]
          /\ IF a = "hits" \/ search[w].endpoint = Endpoints
             THEN Goto(w, "call", "store") ELSE UNCHANGED pc
    BY <1>9 DEF AskEndpoint
  <2>2. PcOK' BY <1>0, <1>p, <2>1, GotoType
  <2>3. BreakerOK' BY <1>0, <2>1, BreakerTypes
  <2>4. SearchOK'
    <3> DEFINE e == search[w].endpoint
               m == Min({e + 1, Endpoints})
               r == [search[w] EXCEPT
                       !.found = IF a \in {"hits", "empty"} THEN a ELSE @,
                       !.endpoint = Min({@ + 1, Endpoints})]
    <3>1. e + 1 \in Int /\ e + 1 >= 1 /\ Endpoints \in Int /\ Endpoints >= 1
      <4>1. search[w] \in SearchRecord BY <1>0
      <4>2. e \in 1..Endpoints BY <4>1 DEF SearchRecord
      <4> HIDE DEF e
      <4> QED BY <4>2, Bounds
    <3>2. m \in {e + 1, Endpoints} /\ m <= Endpoints
      <4> HIDE DEF e
      <4> QED BY <3>1, MinOfTwo, Zenon
    <3>3. m \in 1..Endpoints
      <4> HIDE DEF m, e
      <4> QED BY <3>1, <3>2
    <3>4. r = [search[w] EXCEPT !.found = IF a \in {"hits", "empty"} THEN a ELSE @,
                                !.endpoint = m]
      OBVIOUS
    <3>5. r \in SearchRecord
      <4> HIDE DEF m, r
      <4> QED BY <1>0, <3>3, <3>4 DEF SearchRecord, Answers
    <3>6. search' = [search EXCEPT ![w] = r] BY <2>1
    <3> HIDE DEF r
    <3> QED BY <1>0, <3>5, <3>6
  <2> QED BY <1>0, <1>9, <2>2, <2>3, <2>4 DEF AskEndpoint
<1>10. ASSUME NEW w \in Worker, Store(w)
       PROVE  /\ PcOK' /\ SearchOK' /\ CacheOK' /\ CountOK'
              /\ FlagOK' /\ MarkOK' /\ BreakerOK'
  <2>1. PcOK' BY <1>0, <1>10, <1>p, GotoType DEF Store
  <2>2. SearchOK' BY <1>0, <1>10, NextProviderType, EndType DEF Store
  <2>3. CacheOK' BY <1>0, <1>10 DEF Store
  <2> QED BY <1>0, <1>10, <2>1, <2>2, <2>3 DEF Store
<1>11. ASSUME NEW e \in Provider \X Query, Expire(e)
       PROVE  /\ PcOK' /\ SearchOK' /\ CacheOK' /\ CountOK'
              /\ FlagOK' /\ MarkOK' /\ BreakerOK'
  BY <1>0, <1>11 DEF Expire
<1>12. ASSUME CoolDown
       PROVE  /\ PcOK' /\ SearchOK' /\ CacheOK' /\ CountOK'
              /\ FlagOK' /\ MarkOK' /\ BreakerOK'
  <2>1. BreakerOK' BY <1>0, <1>12 DEF CoolDown, BreakerRecord
  <2> QED BY <1>0, <1>12, <2>1 DEF CoolDown
<1>13. ASSUME Restart
       PROVE  /\ PcOK' /\ SearchOK' /\ CacheOK' /\ CountOK'
              /\ FlagOK' /\ MarkOK' /\ BreakerOK'
  <2>1. PcOK' BY <1>13, <1>p DEF Restart
  <2>2. SearchOK' BY <1>13, NoSearchType DEF Restart
  <2>3. BreakerOK' BY <1>0, <1>13, BreakerTypes DEF Restart
  <2> QED BY <1>0, <1>13, <2>1, <2>2, <2>3 DEF Restart
<1>14. ASSUME UNCHANGED vars
       PROVE  /\ PcOK' /\ SearchOK' /\ CacheOK' /\ CountOK'
              /\ FlagOK' /\ MarkOK' /\ BreakerOK'
  BY <1>0, <1>14 DEF vars
<1> HIDE DEF PcOK, SearchOK, CacheOK, CountOK, FlagOK, MarkOK, BreakerOK
<1> QED
  BY <1>1, <1>2, <1>3, <1>4, <1>5, <1>6, <1>7, <1>8, <1>9, <1>10, <1>11,
     <1>12, <1>13, <1>14 DEF SearchNext, Work

-----------------------------------------------------------------------------
\* The workers that have passed the check of a provider and not heard from it.
InFlight(p) == {w \in Worker : pc[w] = "call" /\ Asked(w) = p}

\* The strengthening: what is counted and what is under way together stay
\* within the bound.
Budgeted ==
  \A p \in Metered :
    /\ used[p] = counter[p]
    /\ counter[p] + Cardinality(InFlight(p)) <= Quota + Cardinality(Worker) - 1

IInv == SearchTypeOK /\ Budgeted

LEMMA FlightSize ==
  ASSUME NEW p
  PROVE  /\ IsFiniteSet(InFlight(p))
         /\ Cardinality(InFlight(p)) \in Nat
         /\ Cardinality(Worker) \in Nat \ {0}
         /\ Cardinality(InFlight(p)) <= Cardinality(Worker)
<1>1. IsFiniteSet(Worker) /\ Worker # {} BY SearchAssumption
<1>2. InFlight(p) \in SUBSET Worker BY DEF InFlight
<1>3. Cardinality(Worker) \in Nat \ {0}
  BY <1>1, FS_CardinalityType, FS_EmptySet
<1>4. IsFiniteSet(InFlight(p)) /\ Cardinality(InFlight(p)) <= Cardinality(Worker)
  BY <1>1, <1>2, FS_Subset
<1> QED BY <1>3, <1>4, FS_CardinalityType

\* The same of the next state, whose flight is also a set of workers.
LEMMA NextFlightSize ==
  ASSUME NEW p
  PROVE  /\ IsFiniteSet(InFlight(p)')
         /\ Cardinality(InFlight(p)') \in Nat
         /\ Cardinality(InFlight(p)') <= Cardinality(Worker)
<1>1. IsFiniteSet(Worker) BY SearchAssumption
<1>2. InFlight(p)' \in SUBSET Worker BY DEF InFlight
<1>3. IsFiniteSet(InFlight(p)') /\ Cardinality(InFlight(p)') <= Cardinality(Worker)
  BY <1>1, <1>2, FS_Subset
<1> QED BY <1>3, FS_CardinalityType

\* A step that counts nothing keeps the bound if nobody newly passes the
\* check.
Joins(w) ==
  /\ pc'[w] = "call"
  /\ ~(/\ pc[w] = "call"
       /\ search'[w].route = search[w].route /\ search'[w].at = search[w].at)

LEMMA NobodyJoins ==
  ASSUME \A w \in Worker : ~Joins(w), NEW p
  PROVE  InFlight(p)' \subseteq InFlight(p)
BY DEF InFlight, Joins, Asked

LEMMA QuietKeeps ==
  ASSUME IInv, UNCHANGED <<counter, used>>, \A w \in Worker : ~Joins(w)
  PROVE  Budgeted'
<1> SUFFICES ASSUME NEW p \in Metered
             PROVE  /\ used'[p] = counter'[p]
                    /\ counter'[p] + Cardinality(InFlight(p)')
                         <= Quota + Cardinality(Worker) - 1
  BY DEF Budgeted
<1>1. InFlight(p)' \in SUBSET InFlight(p) BY NobodyJoins
<1>2. Cardinality(InFlight(p)') <= Cardinality(InFlight(p))
  BY <1>1, FlightSize, FS_Subset
<1>3. /\ used[p] = counter[p] /\ counter[p] \in Nat
      /\ counter[p] + Cardinality(InFlight(p)) <= Quota + Cardinality(Worker) - 1
  BY DEF IInv, Budgeted, SearchTypeOK
<1> QED BY <1>2, <1>3, FlightSize, NextFlightSize, Bounds

LEMMA InitBudget == SearchInit => Budgeted
<1> SUFFICES ASSUME SearchInit, NEW p \in Metered
             PROVE  /\ used[p] = counter[p]
                    /\ counter[p] + Cardinality(InFlight(p))
                         <= Quota + Cardinality(Worker) - 1
  BY DEF Budgeted
<1>1. InFlight(p) = {} BY DEF InFlight, SearchInit
<1>2. Cardinality(InFlight(p)) = 0 BY <1>1, FS_EmptySet
<1>3. used[p] = counter[p] /\ counter[p] \in 0..Quota BY DEF SearchInit
<1> QED BY <1>2, <1>3, FlightSize, Bounds

\* A worker passes the check only below the quota, so that even with every
\* worker under way the bound is kept.
LEMMA CheckKeeps ==
  ASSUME IInv, NEW w \in Worker, Check(w)
  PROVE  Budgeted'
<1>1. pc \in [Worker -> PC] /\ search' = search /\ UNCHANGED <<counter, used>>
  BY DEF IInv, SearchTypeOK, Check
<1>2. \A v \in Worker \ {w} : pc'[v] = pc[v] BY <1>1 DEF Check, Goto
<1> SUFFICES ASSUME NEW p \in Metered
             PROVE  /\ used'[p] = counter'[p]
                    /\ counter'[p] + Cardinality(InFlight(p)')
                         <= Quota + Cardinality(Worker) - 1
  BY DEF Budgeted
<1>3. /\ used[p] = counter[p] /\ counter[p] \in Nat
      /\ counter[p] + Cardinality(InFlight(p)) <= Quota + Cardinality(Worker) - 1
  BY DEF IInv, Budgeted, SearchTypeOK
<1>4. CASE InFlight(p)' \subseteq InFlight(p)
  <2>1. Cardinality(InFlight(p)') <= Cardinality(InFlight(p))
    BY <1>4, FlightSize, FS_Subset
  <2> QED BY <1>1, <1>3, <2>1, FlightSize, NextFlightSize, Bounds
<1>5. CASE ~(InFlight(p)' \subseteq InFlight(p))
  <2>1. Asked(w) = p /\ pc'[w] = "call"
    BY <1>1, <1>2, <1>5 DEF InFlight, Asked
  <2>2. Available(p) BY <1>1, <2>1 DEF Check, Goto
  <2>3. used[p] < Quota BY <2>2 DEF Available, HasBudget
  <2> QED BY <1>1, <1>3, <2>3, FlightSize, NextFlightSize, Bounds
<1> QED BY <1>4, <1>5

\* A request that is counted is no longer under way.
LEMMA AnswerKeeps ==
  ASSUME IInv, NEW w \in Worker, Answer(w)
  PROVE  Budgeted'
<1>1. /\ pc \in [Worker -> PC] /\ search \in [Worker -> SearchRecord]
      /\ counter \in [Metered -> Nat] /\ used \in [Metered -> Nat]
  BY TypeParts DEF IInv
<1>2. pc[w] = "call" /\ pc'[w] # "call" /\ Asked(w) \in Metered
  BY <1>1 DEF Answer, Goto
<1>3. \A v \in Worker \ {w} : pc'[v] = pc[v] /\ search'[v] = search[v]
  BY <1>1 DEF Answer, Goto, Found
<1>4. \A v \in Worker : ~Joins(v) BY <1>2, <1>3 DEF Joins
<1>5. CASE UNCHANGED <<counter, used>> BY <1>4, <1>5, QuietKeeps
<1>6. CASE /\ counter' = [counter EXCEPT ![Asked(w)] = @ + 1]
           /\ used' = [used EXCEPT ![Asked(w)] = counter'[Asked(w)]]
  <2> SUFFICES ASSUME NEW p \in Metered
               PROVE  /\ used'[p] = counter'[p]
                      /\ counter'[p] + Cardinality(InFlight(p)')
                           <= Quota + Cardinality(Worker) - 1
    BY DEF Budgeted
  <2>1. /\ used[p] = counter[p] /\ counter[p] \in Nat
        /\ counter[p] + Cardinality(InFlight(p)) <= Quota + Cardinality(Worker) - 1
    BY DEF IInv, Budgeted, SearchTypeOK
  <2>2. InFlight(p)' \subseteq InFlight(p) BY <1>4, NobodyJoins
  <2>3. CASE p = Asked(w)
    <3>1. w \in InFlight(p) /\ InFlight(p)' \in SUBSET (InFlight(p) \ {w})
      BY <1>2, <2>2, <2>3 DEF InFlight
    <3>2. /\ IsFiniteSet(InFlight(p) \ {w})
          /\ Cardinality(InFlight(p) \ {w}) = Cardinality(InFlight(p)) - 1
      BY <3>1, FlightSize, FS_RemoveElement
    <3>3. Cardinality(InFlight(p)') <= Cardinality(InFlight(p)) - 1
      BY <3>1, <3>2, FS_Subset
    <3>4. counter'[p] = counter[p] + 1 /\ used'[p] = counter'[p]
      BY <1>1, <1>6, <2>3
    <3> QED BY <2>1, <3>3, <3>4, FlightSize, NextFlightSize, Bounds
  <2>4. CASE p # Asked(w)
    <3>1. Cardinality(InFlight(p)') <= Cardinality(InFlight(p))
      BY <2>2, FlightSize, FS_Subset
    <3>2. counter'[p] = counter[p] /\ used'[p] = used[p] BY <1>1, <1>6, <2>4
    <3> QED BY <2>1, <3>1, <3>2, FlightSize, NextFlightSize, Bounds
  <2> QED BY <2>3, <2>4
<1> QED BY <1>5, <1>6 DEF Answer

LEMMA RestartKeeps ==
  ASSUME IInv, Restart
  PROVE  Budgeted'
<1> SUFFICES ASSUME NEW p \in Metered
             PROVE  /\ used'[p] = counter'[p]
                    /\ counter'[p] + Cardinality(InFlight(p)')
                         <= Quota + Cardinality(Worker) - 1
  BY DEF Budgeted
<1>1. InFlight(p)' = {} BY DEF Restart, InFlight
<1>2. Cardinality(InFlight(p)') = 0 BY <1>1, FS_EmptySet
<1>3. /\ counter[p] \in Nat
      /\ counter[p] + Cardinality(InFlight(p)) <= Quota + Cardinality(Worker) - 1
  BY DEF IInv, Budgeted, SearchTypeOK
<1>4. counter'[p] = counter[p] /\ used'[p] = counter[p] BY DEF Restart
<1> QED BY <1>2, <1>3, <1>4, FlightSize, Bounds

\* Every step checks, answers, restarts, or counts nothing and lets nobody
\* join.
LEMMA StepKinds ==
  ASSUME IInv, [SearchNext]_vars
  PROVE  \/ UNCHANGED <<counter, used>> /\ \A w \in Worker : ~Joins(w)
         \/ \E w \in Worker : Check(w)
         \/ \E w \in Worker : Answer(w)
         \/ Restart
<1> DEFINE Keeps == UNCHANGED <<counter, used>> /\ \A v \in Worker : ~Joins(v)
<1>0. pc \in [Worker -> PC] /\ search \in [Worker -> SearchRecord]
  BY TypeParts DEF IInv
<1>1. ASSUME NEW w \in Worker, Begin(w) PROVE Keeps
  <2>1. \A v \in Worker : ~Joins(v) BY <1>0, <1>1 DEF Begin, Goto, Joins
  <2> QED BY <1>1, <2>1 DEF Begin
<1>2. ASSUME NEW w \in Worker, GiveUp(w) PROVE Keeps
  <2>1. \A v \in Worker : ~Joins(v) BY <1>0, <1>2 DEF GiveUp, Goto, Joins
  <2> QED BY <1>2, <2>1 DEF GiveUp
<1>3. ASSUME NEW w \in Worker, Ask(w) PROVE Keeps
  <2>1. \A v \in Worker : ~Joins(v)
    BY <1>0, <1>3 DEF Ask, Goto, NextProvider, Joins
  <2> QED BY <1>3, <2>1 DEF Ask
<1>4. ASSUME NEW w \in Worker, Lookup(w) PROVE Keeps
  <2>1. \A v \in Worker : ~Joins(v)
    BY <1>0, <1>4 DEF Lookup, Goto, NextProvider, Joins
  <2> QED BY <1>4, <2>1 DEF Lookup
<1>5. ASSUME NEW w \in Worker, Judge(w) PROVE Keeps
  <2>1. \A v \in Worker : ~Joins(v) BY <1>0, <1>5 DEF Judge, Goto, Found, Joins
  <2> QED BY <1>5, <2>1 DEF Judge
<1>6. ASSUME NEW w \in Worker, AskWikipedia(w) PROVE Keeps
  <2>1. \A v \in Worker : ~Joins(v)
    BY <1>0, <1>6 DEF AskWikipedia, Goto, Found, Joins
  <2> QED BY <1>6, <2>1 DEF AskWikipedia
<1>7. ASSUME NEW w \in Worker, AskEndpoint(w) PROVE Keeps
  <2>1. \A v \in Worker : /\ search'[v].route = search[v].route
                          /\ search'[v].at = search[v].at
    <3>1. PICK f, n : search' = [search EXCEPT ![w].found = f, ![w].endpoint = n]
      BY <1>7 DEF AskEndpoint
    <3>2. search' = [search EXCEPT ![w] = [search[w] EXCEPT !.found = f, !.endpoint = n]]
      BY <1>0, <3>1
    <3>3. search[w] \in SearchRecord BY <1>0
    <3>4. \A v \in Worker \ {w} : search'[v] = search[v] BY <1>0, <3>2
    <3>5. search'[w] = [search[w] EXCEPT !.found = f, !.endpoint = n] BY <1>0, <3>2
    <3>6. search'[w].route = search[w].route /\ search'[w].at = search[w].at
      BY <3>3, <3>5 DEF SearchRecord
    <3> QED BY <3>4, <3>6
  <2>2. \A v \in Worker : pc'[v] = "call" => pc[v] = "call"
    BY <1>0, <1>7 DEF AskEndpoint, Goto
  <2>3. \A v \in Worker : ~Joins(v) BY <2>1, <2>2 DEF Joins
  <2> QED BY <1>7, <2>3 DEF AskEndpoint
<1>8. ASSUME NEW w \in Worker, Store(w) PROVE Keeps
  <2>1. \A v \in Worker : ~Joins(v)
    BY <1>0, <1>8 DEF Store, Goto, NextProvider, Joins
  <2> QED BY <1>8, <2>1 DEF Store
<1>9. ASSUME NEW e, Expire(e) PROVE Keeps
  <2>1. \A v \in Worker : ~Joins(v) BY <1>9 DEF Expire, Joins
  <2> QED BY <1>9, <2>1 DEF Expire
<1>10. ASSUME CoolDown PROVE Keeps
  <2>1. \A v \in Worker : ~Joins(v) BY <1>10 DEF CoolDown, Joins
  <2> QED BY <1>10, <2>1 DEF CoolDown
<1>11. ASSUME UNCHANGED vars PROVE Keeps
  <2>1. \A v \in Worker : ~Joins(v) BY <1>11 DEF vars, Joins
  <2> QED BY <1>11, <2>1 DEF vars
<1> HIDE DEF Keeps
<1>12. Keeps \/ (\E w \in Worker : Check(w) \/ Answer(w)) \/ Restart
  BY <1>1, <1>2, <1>3, <1>4, <1>5, <1>6, <1>7, <1>8, <1>9, <1>10, <1>11
     DEF SearchNext, Work
<1> QED BY <1>12 DEF Keeps

LEMMA StepBudget == IInv /\ [SearchNext]_vars => Budgeted'
BY StepKinds, QuietKeeps, CheckKeeps, AnswerKeeps, RestartKeeps

LEMMA Invariance == SearchSpec => []IInv
<1>1. SearchInit => IInv BY InitType, InitBudget DEF IInv
<1>2. IInv /\ [SearchNext]_vars => IInv' BY StepType, StepBudget DEF IInv
<1> QED BY <1>1, <1>2, PTL DEF SearchSpec

\* The workers' progress, the cache, the counters, the flags and the breaker
\* always hold values of their kinds (providers/base.py, ratelimit.py,
\* serper.py, brave.py).
THEOREM SearchTypeCorrect == SearchSpec => []SearchTypeOK
<1>1. IInv => SearchTypeOK BY DEF IInv
<1> QED BY <1>1, Invariance, PTL

\* However many workers search at once, and however often the process
\* restarts, the monthly quota of a metered provider is overrun by less than
\* the number of workers (SerperProvider and BraveProvider,
\* _search_uncached).
THEOREM QuotaHolds == SearchSpec => []QuotaBounded
<1>1. IInv => QuotaBounded
  <2> SUFFICES ASSUME IInv, NEW p \in Metered
               PROVE  /\ used[p] = counter[p]
                      /\ counter[p] <= Quota + Cardinality(Worker) - 1
    BY DEF QuotaBounded
  <2>1. /\ used[p] = counter[p] /\ counter[p] \in Nat
        /\ counter[p] + Cardinality(InFlight(p)) <= Quota + Cardinality(Worker) - 1
    BY DEF IInv, Budgeted, SearchTypeOK
  <2> QED BY <2>1, FlightSize, Bounds
<1> QED BY <1>1, Invariance, PTL

-----------------------------------------------------------------------------
(* The histories.  A step of one worker leaves the others where they are,  *)
(* and only some steps do what the histories are about.                    *)

LEMMA WorkerMoves ==
  ASSUME IInv, NEW w \in Worker, Begin(w) \/ Work(w)
  PROVE  /\ \A v \in Worker \ {w} : pc'[v] = pc[v] /\ search'[v] = search[v]
         /\ pc[w] = "judge" => Judge(w)
         /\ pc'[w] = "check" => Lookup(w)
         /\ exhausted' = exhausted \/ Judge(w)
         /\ cache' = cache \/ Store(w)
<1> DEFINE Moves ==
             /\ \A v \in Worker \ {w} : pc'[v] = pc[v] /\ search'[v] = search[v]
             /\ pc[w] = "judge" => Judge(w)
             /\ pc'[w] = "check" => Lookup(w)
             /\ exhausted' = exhausted \/ Judge(w)
             /\ cache' = cache \/ Store(w)
<1>0. pc \in [Worker -> PC] /\ search \in [Worker -> SearchRecord]
  BY TypeParts DEF IInv
<1>1. ASSUME Begin(w) PROVE Moves BY <1>0, <1>1 DEF Begin, Goto
<1>2. ASSUME GiveUp(w) PROVE Moves BY <1>0, <1>2 DEF GiveUp, Goto
<1>3. ASSUME Ask(w) PROVE Moves BY <1>0, <1>3 DEF Ask, Goto, NextProvider
<1>4. ASSUME Lookup(w) PROVE Moves BY <1>0, <1>4 DEF Lookup, Goto, NextProvider
<1>5. ASSUME Check(w) PROVE Moves BY <1>0, <1>5 DEF Check, Goto
<1>6. ASSUME Answer(w) PROVE Moves BY <1>0, <1>6 DEF Answer, Goto, Found
<1>7. ASSUME Judge(w) PROVE Moves BY <1>0, <1>7 DEF Judge, Goto, Found
<1>8. ASSUME AskWikipedia(w) PROVE Moves
  BY <1>0, <1>8 DEF AskWikipedia, Goto, Found
<1>9. ASSUME AskEndpoint(w) PROVE Moves BY <1>0, <1>9 DEF AskEndpoint, Goto
<1>10. ASSUME Store(w) PROVE Moves BY <1>0, <1>10 DEF Store, Goto, NextProvider
<1> HIDE DEF Moves
<1>11. Moves
  BY <1>1, <1>2, <1>3, <1>4, <1>5, <1>6, <1>7, <1>8, <1>9, <1>10 DEF Work
<1> QED BY <1>11 DEF Moves

\* A provider that gave up is not asked anew: what is counted and under way
\* together no longer grows.
LEMMA FlightOnlyLands ==
  ASSUME IInv, SearchNext, ~Restart, NEW p \in Metered, exhausted[p]
  PROVE  counter'[p] + Cardinality(InFlight(p)')
           <= counter[p] + Cardinality(InFlight(p))
<1>0. /\ pc \in [Worker -> PC] /\ search \in [Worker -> SearchRecord]
      /\ counter \in [Metered -> Nat] /\ used \in [Metered -> Nat]
  BY TypeParts DEF IInv
<1>q. ASSUME counter'[p] = counter[p], InFlight(p)' \subseteq InFlight(p)
      PROVE  counter'[p] + Cardinality(InFlight(p)')
               <= counter[p] + Cardinality(InFlight(p))
  <2>1. Cardinality(InFlight(p)') <= Cardinality(InFlight(p))
    BY <1>q, FlightSize, FS_Subset
  <2> QED BY <1>0, <1>q, <2>1, FlightSize, NextFlightSize
<1>1. CASE UNCHANGED <<counter, used>> /\ \A w \in Worker : ~Joins(w)
  BY <1>1, <1>q, NobodyJoins
<1>2. CASE \E w \in Worker : Check(w)
  <2>1. PICK w \in Worker : Check(w) BY <1>2
  <2>2. ~Available(p) BY DEF Available, HasBudget
  <2>3. /\ search' = search /\ counter' = counter
        /\ \A v \in Worker \ {w} : pc'[v] = pc[v]
        /\ Asked(w) = p => pc'[w] # "call"
    BY <1>0, <2>1, <2>2 DEF Check, Goto
  <2>4. InFlight(p)' \subseteq InFlight(p) BY <2>3 DEF InFlight, Asked
  <2> QED BY <1>q, <2>3, <2>4
<1>3. CASE \E w \in Worker : Answer(w)
  <2>1. PICK w \in Worker : Answer(w) BY <1>3
  <2>2. pc[w] = "call" /\ pc'[w] # "call" /\ Asked(w) \in Metered
    BY <1>0, <2>1 DEF Answer, Goto
  <2>3. \A v \in Worker \ {w} : pc'[v] = pc[v] /\ search'[v] = search[v]
    BY <1>0, <2>1 DEF Answer, Goto, Found
  <2>4. InFlight(p)' \subseteq InFlight(p)
    <3>1. \A v \in Worker : ~Joins(v) BY <2>2, <2>3 DEF Joins
    <3> QED BY <3>1, NobodyJoins
  <2>5. CASE counter'[p] = counter[p] BY <1>q, <2>4, <2>5
  <2>6. CASE counter'[p] # counter[p]
    <3>1. Asked(w) = p /\ counter'[p] = counter[p] + 1
      BY <1>0, <2>1, <2>6 DEF Answer
    <3>2. w \in InFlight(p) /\ InFlight(p)' \in SUBSET (InFlight(p) \ {w})
      BY <2>2, <2>4, <3>1 DEF InFlight
    <3>3. /\ IsFiniteSet(InFlight(p) \ {w})
          /\ Cardinality(InFlight(p) \ {w}) = Cardinality(InFlight(p)) - 1
      BY <3>2, FlightSize, FS_RemoveElement
    <3>4. Cardinality(InFlight(p)') <= Cardinality(InFlight(p)) - 1
      BY <3>2, <3>3, FS_Subset
    <3> QED BY <1>0, <3>1, <3>4, FlightSize, NextFlightSize
  <2> QED BY <2>5, <2>6
<1> QED BY <1>1, <1>2, <1>3, StepKinds

\* The workers that have found an entry missing and not yet sent a request.
Missed(e) == {w \in Worker : pc[w] = "check" /\ Entry(w) = e}

\* A worker that asks or misses is one of all workers; a set without one of
\* them has fewer.
LEMMA SizeWithout ==
  ASSUME NEW S \in SUBSET Worker
  PROVE  /\ IsFiniteSet(S) /\ Cardinality(S) \in Nat
         /\ \A w \in Worker \ S : Cardinality(S) <= Cardinality(Worker) - 1
         /\ \A T \in SUBSET S :
              /\ Cardinality(T) \in Nat /\ Cardinality(T) <= Cardinality(S)
              /\ \A w \in S \ T : Cardinality(T) <= Cardinality(S) - 1
<1>1. IsFiniteSet(Worker) BY SearchAssumption
<1>2. IsFiniteSet(S) BY <1>1, FS_Subset
<1>3. ASSUME NEW A, IsFiniteSet(A), NEW B \in SUBSET A
      PROVE  /\ Cardinality(B) \in Nat /\ Cardinality(B) <= Cardinality(A)
             /\ \A w \in A \ B : Cardinality(B) <= Cardinality(A) - 1
  <2>1. IsFiniteSet(B) /\ Cardinality(B) <= Cardinality(A) BY <1>3, FS_Subset
  <2>2. Cardinality(B) \in Nat BY <2>1, FS_CardinalityType
  <2>3. ASSUME NEW w \in A \ B PROVE Cardinality(B) <= Cardinality(A) - 1
    <3>1. /\ IsFiniteSet(A \ {w}) /\ Cardinality(A \ {w}) = Cardinality(A) - 1
      BY <1>3, <2>3, FS_RemoveElement
    <3>2. B \in SUBSET (A \ {w}) BY <2>3
    <3> QED BY <3>1, <3>2, FS_Subset
  <2> QED BY <2>1, <2>2, <2>3
<1>4. Cardinality(S) \in Nat BY <1>2, FS_CardinalityType
<1>5. \A w \in Worker \ S : Cardinality(S) <= Cardinality(Worker) - 1
  BY <1>1, <1>3
<1>6. ASSUME NEW T \in SUBSET S
      PROVE  /\ Cardinality(T) \in Nat /\ Cardinality(T) <= Cardinality(S)
             /\ \A w \in S \ T : Cardinality(T) <= Cardinality(S) - 1
  BY <1>2, <1>3
<1> QED BY <1>2, <1>4, <1>5, <1>6

\* Once a provider has refused, what came late and what is under way together
\* are fewer than the workers.
LateBounded(p) ==
  late[p] # NotRefused =>
    /\ late[p] \in Nat /\ exhausted[p]
    /\ late[p] + Cardinality(InFlight(p)) <= Cardinality(Worker) - 1

\* While an entry is cached, the requests made for it all the same and those
\* that may still be are fewer than the workers.
RepeatBounded(e) ==
  /\ repeats[e] \in Nat
  /\ repeats[e] <= Cardinality(Worker) - 1
  /\ cache[e] # "absent" =>
       repeats[e] + Cardinality(Missed(e)) <= Cardinality(Worker) - 1

HInv ==
  /\ \A p \in Metered : LateBounded(p)
  /\ \A e \in Provider \X Query : RepeatBounded(e)

LEMMA InitHistory == HistoryInit => HInv
<1> SUFFICES ASSUME HistoryInit PROVE HInv
  OBVIOUS
<1>1. \A p \in Metered : LateBounded(p) BY DEF HistoryInit, LateBounded
<1>2. ASSUME NEW e \in Provider \X Query PROVE RepeatBounded(e)
  <2>1. repeats[e] = 0 /\ cache[e] = "absent"
    BY <1>2 DEF HistoryInit, SearchInit
  <2>2. Cardinality(Worker) \in Nat \ {0} BY FlightSize
  <2> QED BY <2>1, <2>2 DEF RepeatBounded
<1> QED BY <1>1, <1>2 DEF HInv

\* A refusal is read in Judge, by a worker that is then not under way.
LEMMA RefusalRecorded ==
  ASSUME IInv, SearchNext, ~Restart, NEW p \in Metered, Refusal(p)
  PROVE  exhausted'[p] /\ \E w \in Worker : w \notin InFlight(p)'
<1>0. exhausted \in [Metered -> BOOLEAN] BY DEF IInv, SearchTypeOK
<1>1. PICK w \in Worker : /\ pc[w] = "judge" /\ pc'[w] = "store"
                          /\ Asked(w) = p /\ search[w].found \in {"denied", "spent"}
  BY DEF Refusal
<1>2. w \notin InFlight(p)' BY <1>1 DEF InFlight
<1>3. Judge(w)
  <2>1. CASE \E v \in Worker : Begin(v) \/ Work(v)
    <3>1. PICK v \in Worker : Begin(v) \/ Work(v) BY <2>1
    <3>2. v = w BY <1>1, <3>1, WorkerMoves
    <3> QED BY <1>1, <3>1, <3>2, WorkerMoves
  <2>2. CASE ~\E v \in Worker : Begin(v) \/ Work(v)
    <3>1. pc' = pc BY <2>2 DEF SearchNext, Expire, CoolDown
    <3> QED BY <1>1, <3>1
  <2> QED BY <2>1, <2>2
<1>4. exhausted'[p] BY <1>0, <1>1, <1>3 DEF Judge
<1> QED BY <1>2, <1>4

LEMMA RefusedStaysRefused ==
  ASSUME IInv, SearchNext, ~Restart, NEW p \in Metered, exhausted[p]
  PROVE  exhausted'[p]
<1>0. exhausted \in [Metered -> BOOLEAN] BY DEF IInv, SearchTypeOK
<1>1. CASE \E v \in Worker : Judge(v) BY <1>0, <1>1 DEF Judge
<1>2. CASE exhausted' = exhausted BY <1>2
<1>3. exhausted' = exhausted \/ \E v \in Worker : Judge(v)
  <2>1. \A v \in Worker : Begin(v) \/ Work(v) => exhausted' = exhausted \/ Judge(v)
    BY WorkerMoves
  <2> QED BY <2>1 DEF SearchNext, Expire, CoolDown
<1> QED BY <1>1, <1>2, <1>3

LEMMA CountGrows ==
  ASSUME IInv, [SearchNext]_vars, NEW p \in Metered
  PROVE  counter'[p] \in Nat /\ counter'[p] >= counter[p]
<1>0. counter \in [Metered -> Nat] BY DEF IInv, SearchTypeOK
<1>1. CASE counter' = counter BY <1>0, <1>1
<1>2. CASE \E w \in Worker : Answer(w)
  <2>1. PICK w \in Worker : Answer(w) BY <1>2
  <2>2. counter' = counter \/ counter' = [counter EXCEPT ![Asked(w)] = @ + 1]
    BY <2>1 DEF Answer
  <2> QED BY <1>0, <1>1, <2>2
<1> QED BY <1>1, <1>2, StepKinds DEF Check, Restart

LEMMA LateKeeps ==
  ASSUME IInv, HistoryNext, NEW p \in Metered, LateBounded(p)
  PROVE  LateBounded(p)'
<1>0. SearchNext /\ counter \in [Metered -> Nat] /\ Cardinality(Worker) \in Nat \ {0}
  BY FlightSize DEF HistoryNext, IInv, SearchTypeOK
<1>1. late'[p] = IF Restart THEN NotRefused
                 ELSE IF late[p] = NotRefused THEN IF Refusal(p) THEN 0 ELSE NotRefused
                 ELSE late[p] + counter'[p] - counter[p]
  BY DEF HistoryNext
<1>2. CASE Restart BY <1>1, <1>2 DEF LateBounded
<1>3. CASE ~Restart /\ late[p] = NotRefused /\ ~Refusal(p)
  BY <1>1, <1>3 DEF LateBounded
<1>4. CASE ~Restart /\ late[p] = NotRefused /\ Refusal(p)
  <2>1. late'[p] = 0 BY <1>1, <1>4
  <2>2. exhausted'[p] /\ \E w \in Worker : w \notin InFlight(p)'
    BY <1>0, <1>4, RefusalRecorded
  <2>3. InFlight(p)' \in SUBSET Worker BY DEF InFlight
  <2>4. Cardinality(InFlight(p)') \in Nat
        /\ Cardinality(InFlight(p)') <= Cardinality(Worker) - 1
    BY <2>2, <2>3, SizeWithout
  <2> QED BY <1>0, <2>1, <2>2, <2>4 DEF LateBounded
<1>5. CASE ~Restart /\ late[p] # NotRefused
  <2>1. /\ late[p] \in Nat /\ exhausted[p]
        /\ late[p] + Cardinality(InFlight(p)) <= Cardinality(Worker) - 1
    BY <1>5 DEF LateBounded
  <2>2. late'[p] = late[p] + counter'[p] - counter[p] BY <1>1, <1>5
  <2>3. exhausted'[p] BY <1>0, <1>5, <2>1, RefusedStaysRefused
  <2>4. counter'[p] + Cardinality(InFlight(p)')
          <= counter[p] + Cardinality(InFlight(p))
    BY <1>0, <1>5, <2>1, FlightOnlyLands
  <2>5. counter'[p] \in Nat /\ counter'[p] >= counter[p] BY <1>0, CountGrows
  <2> QED BY <1>0, <2>1, <2>2, <2>3, <2>4, <2>5, FlightSize, NextFlightSize
          DEF LateBounded
<1> QED BY <1>2, <1>3, <1>4, <1>5

\* Nobody finds missing what is cached.
LEMMA NobodyMissesCached ==
  ASSUME IInv, SearchNext, NEW e \in Provider \X Query, cache[e] # "absent"
  PROVE  Missed(e)' \subseteq Missed(e)
<1>1. CASE \E w \in Worker : Begin(w) \/ Work(w)
  <2>1. PICK w \in Worker : Begin(w) \/ Work(w) BY <1>1
  <2>2. \A v \in Worker \ {w} : pc'[v] = pc[v] /\ search'[v] = search[v]
    BY <2>1, WorkerMoves
  <2>3. w \notin Missed(e)'
    <3>1. CASE pc'[w] # "check" BY <3>1 DEF Missed
    <3>2. CASE pc'[w] = "check"
      <4>1. Lookup(w) BY <2>1, <3>2, WorkerMoves
      <4>2. pc \in [Worker -> PC] BY DEF IInv, SearchTypeOK
      <4>3. search' = search /\ cache[Entry(w)] = "absent"
        BY <3>2, <4>1, <4>2 DEF Lookup, Goto
      <4> QED BY <4>3 DEF Missed, Entry, Asked
    <3> QED BY <3>1, <3>2
  <2> QED BY <2>2, <2>3 DEF Missed, Entry, Asked
<1>2. CASE Restart BY <1>2 DEF Restart, Missed
<1>3. CASE \E f \in Provider \X Query : Expire(f)
  BY <1>3 DEF Expire, Missed, Entry, Asked
<1>4. CASE CoolDown BY <1>4 DEF CoolDown, Missed, Entry, Asked
<1> QED BY <1>1, <1>2, <1>3, <1>4 DEF SearchNext

\* What becomes cached is stored by a worker that is then past its search.
LEMMA StorerIsDone ==
  ASSUME IInv, SearchNext, NEW e \in Provider \X Query,
         cache[e] = "absent", cache'[e] # "absent"
  PROVE  \E w \in Worker : w \notin Missed(e)'
<1>1. \E w \in Worker : Store(w)
  <2>1. \A w \in Worker : Begin(w) \/ Work(w) => cache' = cache \/ Store(w)
    BY WorkerMoves
  <2>2. cache \in [Provider \X Query -> {"absent", "empty", "hits"}]
    BY DEF IInv, SearchTypeOK
  <2> QED BY <2>1, <2>2 DEF SearchNext, Expire, CoolDown, Restart
<1>2. PICK w \in Worker : Store(w) BY <1>1
<1>3. pc'[w] # "check"
  <2>1. pc \in [Worker -> PC] BY DEF IInv, SearchTypeOK
  <2> QED BY <1>2, <2>1 DEF Store, Goto
<1> QED BY <1>3 DEF Missed

LEMMA RepeatKeeps ==
  ASSUME IInv, HistoryNext, NEW e \in Provider \X Query, RepeatBounded(e)
  PROVE  RepeatBounded(e)'
<1>0. SearchNext /\ Cardinality(Worker) \in Nat \ {0}
  BY FlightSize DEF HistoryNext
<1>1. repeats'[e] = IF cache[e] = "absent" THEN 0
                    ELSE IF Requests(e) THEN repeats[e] + 1 ELSE repeats[e]
  BY DEF HistoryNext
<1>2. Missed(e) \in SUBSET Worker /\ Missed(e)' \in SUBSET Worker BY DEF Missed
<1>3. CASE cache[e] = "absent"
  <2>1. repeats'[e] = 0 BY <1>1, <1>3
  <2>2. cache'[e] # "absent" =>
          /\ Cardinality(Missed(e)') \in Nat
          /\ Cardinality(Missed(e)') <= Cardinality(Worker) - 1
    <3>1. cache'[e] # "absent" => \E w \in Worker : w \notin Missed(e)'
      BY <1>0, <1>3, StorerIsDone
    <3> QED BY <1>2, <3>1, SizeWithout
  <2> QED BY <1>0, <2>1, <2>2 DEF RepeatBounded
<1>4. CASE cache[e] # "absent"
  <2>1. /\ repeats[e] \in Nat
        /\ repeats[e] + Cardinality(Missed(e)) <= Cardinality(Worker) - 1
    BY <1>4 DEF RepeatBounded
  <2>2. Missed(e)' \in SUBSET Missed(e) BY <1>0, <1>4, NobodyMissesCached
  <2>3. Cardinality(Missed(e)) \in Nat /\ Cardinality(Missed(e)') \in Nat
        /\ Cardinality(Missed(e)') <= Cardinality(Missed(e))
    BY <1>2, <2>2, SizeWithout
  <2>4. Requests(e) => Cardinality(Missed(e)') <= Cardinality(Missed(e)) - 1
    <3>1. Requests(e) => \E w \in Worker : w \in Missed(e) \ Missed(e)'
      BY DEF Requests, Missed
    <3> QED BY <1>2, <2>2, <3>1, SizeWithout
  <2>5. repeats'[e] \in Nat
        /\ repeats'[e] + Cardinality(Missed(e)') <= Cardinality(Worker) - 1
    BY <1>0, <1>1, <1>4, <2>1, <2>3, <2>4
  <2> QED BY <1>0, <2>3, <2>5 DEF RepeatBounded
<1> QED BY <1>3, <1>4

\* A behaviour with the histories is one of the search.
LEMMA HistoryRefinesSearch == HistorySpec => SearchSpec
<1>1. HistoryInit => SearchInit BY DEF HistoryInit
<1>2. [HistoryNext]_<<vars, late, repeats>> => [SearchNext]_vars
  BY DEF HistoryNext
<1> QED BY <1>1, <1>2, PTL DEF HistorySpec, SearchSpec

LEMMA HistoryInvariance == HistorySpec => []HInv
<1>1. HistoryInit => HInv BY InitHistory
<1>2. IInv /\ HInv /\ [HistoryNext]_<<vars, late, repeats>> => HInv'
  <2> SUFFICES ASSUME IInv, HInv, [HistoryNext]_<<vars, late, repeats>>
               PROVE  HInv'
    OBVIOUS
  <2>1. CASE HistoryNext BY <2>1, LateKeeps, RepeatKeeps DEF HInv
  <2>2. CASE UNCHANGED <<vars, late, repeats>>
    BY <2>2 DEF HInv, LateBounded, RepeatBounded, InFlight, Missed, Entry, Asked, vars
  <2> QED BY <2>1, <2>2
<1> QED BY <1>1, <1>2, HistoryRefinesSearch, Invariance, PTL DEF HistorySpec

\* However many workers search at once, fewer than all of them still reach a
\* provider after its refusal was read, until the process ends
\* (SerperProvider and BraveProvider, _search_uncached; _exhausted).
THEOREM RefusalIsHeeded == HistorySpec => []RefusalHeeded
<1>1. HInv => RefusalHeeded
  <2> SUFFICES ASSUME HInv, NEW p \in Metered
               PROVE  late[p] <= Cardinality(Worker) - 1
    BY DEF RefusalHeeded
  <2> QED BY FlightSize DEF HInv, LateBounded, NotRefused
<1> QED BY <1>1, HistoryInvariance, PTL

\* A cached query is sent again by fewer than all workers, at most by those
\* that had found it missing before (SearchProvider.search, cache.py).
THEOREM RepeatsAreBounded == HistorySpec => []RepeatsBounded
<1>1. HInv => RepeatsBounded BY DEF HInv, RepeatBounded, RepeatsBounded
<1> QED BY <1>1, HistoryInvariance, PTL
=============================================================================
