----------------------------- MODULE PairSearch -----------------------------
(***************************************************************************)
(* What one search for two people together may bring into the graph        *)
(* (_direct_pair_search in src/app/graph/connect.py).  The pages of one    *)
(* query are read once and by two readers: one looks for the tie between   *)
(* the two themselves, by a model or by keywords, the other harvests the   *)
(* ties to everybody else who is named there.                              *)
(*                                                                         *)
(* A page is a record:                                                     *)
(*   readable  its text, or at least its snippet, can be had               *)
(*   near      two consecutive sentences name both, and no namesake        *)
(*   clear     these sentences say what the tie is                         *)
(*   direct    the ways the tie between the two would open                 *)
(*   others    the ways that ties to other people named on it open         *)
(*   noise     those by names that are not people                          *)
(***************************************************************************)
EXTENDS FiniteSets

CONSTANTS Way,    \* possible routes
          Page

\* _PairPage, kept whole for both readers.
PairPage ==
  [readable : BOOLEAN, near : BOOLEAN, clear : BOOLEAN,
   direct : SUBSET Way, others : SUBSET Way, noise : SUBSET Way]

ASSUME PairSearchAssumption == Page \subseteq PairPage

\* _fetch_result_text; a page is saved and handed on whole.
Fetched(results) == {p \in results : p.readable}

\* The windows that name both and nobody of the same surname.
Windows(pages) == {p \in pages : p.near}

\* The classifier says "unknown" of what it does not see, and of everything
\* if it does not answer; such a tie is stored, and no route may use it.
ViaClaude(pages, answered) ==
  LET typed == {p \in Windows(pages) : answered /\ p.clear}
  IN [confident |-> typed # {}, ways |-> UNION {p.direct : p \in typed}]

\* Without a classifier keywords type the tie; an untyped one may be walked,
\* as the two are named together, but it is not a confident answer.
ViaKeywords(pages) ==
  [confident |-> \E p \in Windows(pages) : p.clear,
   ways |-> UNION {p.direct : p \in Windows(pages)}]

\* The entity filter keeps names that are not people from becoming bridges.
\* The harvest says nothing of the two themselves.
Harvested(pages, filtering) ==
  UNION {p.others \cup (IF filtering THEN {} ELSE p.noise) : p \in pages}

Searched(results, classifier, answered, filtering) ==
  LET pages == Fetched(results)
      tie == IF classifier THEN ViaClaude(pages, answered) ELSE ViaKeywords(pages)
  IN [tie EXCEPT !.ways = @ \cup Harvested(pages, filtering)]

\* Every answer a search can give; the search itself may fail.
PairAnswers ==
  {Searched(results, classifier, answered, filtering) :
     results \in SUBSET Page, classifier, answered, filtering \in BOOLEAN}

PairWays == UNION {answer.ways : answer \in PairAnswers}
=============================================================================
