----------------------------- MODULE NodeVisit -----------------------------
(***************************************************************************)
(* The visits that walks pay to one person of the graph                    *)
(* (_process_one_attempt and _process_person in src/app/graph/             *)
(* expansion.py): a walk wants the answers to some questions, in some      *)
(* disambiguation context; the person's row records which questions were   *)
(* asked before; only what is missing is searched, and what a visit finds  *)
(* and the new record become visible with one commit, unless that commit   *)
(* is retried: then the record alone does (commit_with_retry, builder.py). *)
(*                                                                         *)
(* The questions of a silo are asked in order, so a number per silo says   *)
(* which were asked.  Visits of different builds run at the same time.     *)
(***************************************************************************)
EXTENDS Integers, FiniteSets, FiniteSetsExt

CONSTANTS Walk, Silo,
          Professional,  \* PROFESSIONAL_SILOS
          Context,       \* disambiguation contexts, "" among them
          Wants,         \* walk -> [context, weighted, signals, professional, enhanced]
          Full,          \* MAX_QUERIES_PER_SILO
          Floor,         \* ENRICH_SILO_MIN_WEIGHT, in hundredths
          Attempts       \* NODE_DB_RETRY_ATTEMPTS

ASSUME VisitAssumption ==
  /\ Professional \subseteq Silo /\ "" \in Context
  /\ Full \in Nat \ {0} /\ {Floor, Attempts} \subseteq Nat
  /\ \A w \in Walk :
       /\ Wants[w].context \in Context
       /\ {Wants[w].weighted, Wants[w].professional, Wants[w].enhanced} \subseteq BOOLEAN

VARIABLES record,    \* the row: [processed, known, context, silos]
          profile,   \* the employer's stored profile, if it is of the current version
          visit,     \* walk -> [phase, copy, prior, ask, lost, profile, attempt]
          stored,    \* questions whose results a commit stored, as <<context, silo, n>>
          forfeited, \* those a visit returned without, its commit having been retried
          answered,  \* those that a provider had answered
          cancelled  \* walks whose build is cancelled

vars == <<record, profile, visit, stored, forfeited, answered, cancelled>>
shared == <<record, profile, stored, forfeited, answered>>

Nothing == [s \in Silo |-> 0]
Ended == {"done", "skipped", "cancelled"}
Profiles == {"none", "guessed", "grounded"}

Blank == [processed |-> FALSE, known |-> FALSE, context |-> "", silos |-> Nothing]

\* copy: the row as the visit loaded it; prior: as it is loaded for another mark.
Untouched(attempt) ==
  [phase |-> "begin", copy |-> record, prior |-> Blank, ask |-> Nothing, lost |-> {},
   profile |-> "none", attempt |-> attempt]

\* The row may be new, or left by a version that recorded no questions.
VisitInit ==
  /\ \E processed \in BOOLEAN : record = [Blank EXCEPT !.processed = processed]
  /\ profile = "none"
  /\ visit = [w \in Walk |-> Untouched(0)]
  /\ stored = {} /\ forfeited = {} /\ answered = {} /\ cancelled = {}

-----------------------------------------------------------------------------
(* What to ask.                                                            *)

\* How much a silo is worth for a contact, in hundredths, from what its row
\* of the export says (the signals).  A silo unknown here is worth nothing.
Bonus(signals, signal, n) == IF signal \in signals THEN n ELSE 0

Prior(signals) ==
  LET Plus(signal, n) == Bonus(signals, signal, n)
  IN [company         |-> 100 + Plus("senior", 30),
      news            |-> 30 + Plus("senior", 50) + Plus("political", 30)
                             + Plus("academic", 10),
      board_nonprofit |-> 10 + Plus("senior", 60) + Plus("nonprofit_org", 50),
      education       |-> 10 + Plus("school", 50) + Plus("edu_org", 50)
                             + Plus("academic", 40),
      publications    |-> 10 + Plus("academic", 70) + Plus("media", 60),
      events          |-> 10 + Plus("senior", 30) + Plus("academic", 30),
      government      |-> 5 + Plus("political", 90) + Plus("gov_org", 60),
      family          |-> 5,
      friends         |-> 5]

initial_weights(signals) ==
  [s \in Silo |-> IF s \in DOMAIN Prior(signals) THEN Prior(signals)[s] ELSE 0]

\* A weight becomes a number of questions, at least one above the floor.
query_budget(weights) ==
  [s \in Silo |->
     LET rounded == (weights[s] * Full + 50) \div 100
     IN IF weights[s] < Floor THEN 0
        ELSE IF rounded > Full THEN Full ELSE IF rounded < 1 THEN 1 ELSE rounded]

Budgeted(w) ==
  IF Wants[w].weighted THEN query_budget(initial_weights(Wants[w].signals))
                       ELSE [s \in Silo |-> Full]

\* uncovered_budget: a silo with a question too many is asked in full.
uncovered_budget(wanted, covered) ==
  [s \in Silo |-> IF wanted[s] > covered[s] THEN wanted[s] ELSE 0]

merge_coverage(covered, executed) ==
  [s \in Silo |-> IF executed[s] > covered[s] THEN executed[s] ELSE covered[s]]

\* The silos a walk would put questions to.
Wanted(w) ==
  [s \in Silo |-> IF Wants[w].professional /\ s \notin Professional
                  THEN 0 ELSE Budgeted(w)[s]]

\* Bug: a person that was expanded once is never asked again.
MissingByFlag(w, r) == IF r.processed THEN Nothing ELSE Wanted(w)

\* _residual_weights; a row that was expanded without a record counts as asked.
Missing(w, r) ==
  IF ~r.processed THEN Wanted(w)
  ELSE IF ~r.known THEN Nothing
  ELSE uncovered_budget(Wanted(w),
                        IF r.context = Wants[w].context THEN r.silos ELSE Nothing)

Questions(context, budget) ==
  UNION {{<<context, s, n>> : n \in 1..budget[s]} : s \in Silo}

-----------------------------------------------------------------------------
(* A visit, phase after phase; before each, and when an error is handled,  *)
(* it asks whether it is cancelled.                                        *)

At(w, phase) == visit[w].phase = phase /\ w \notin cancelled
Goes(w, phase) == visit' = [visit EXCEPT ![w].phase = phase]

\* The session is rolled back and closed; what it held is gone.
Leaves(w, phase) ==
  visit' = [visit EXCEPT ![w] = [Untouched(0) EXCEPT !.phase = phase, !.copy = Blank]]

\* The visit returns what it has found.
Done(w) == visit' = [visit EXCEPT ![w] = [Untouched(0) EXCEPT !.phase = "done",
                                                 !.copy = visit[w].copy, !.ask = visit[w].ask]]
OnlyVisits == UNCHANGED <<shared, cancelled>>

NoticeCancel(w) ==
  /\ w \in cancelled /\ visit[w].phase \notin Ended /\ Leaves(w, "cancelled")
  /\ OnlyVisits

\* The neighbours stored are replayed; what was asked is not asked again.
Begin(w) ==
  /\ At(w, "begin")
  /\ LET ask == Missing(w, record)
     IN visit' = [visit EXCEPT ![w].copy = record, ![w].ask = ask,
                    ![w].phase = IF record.processed /\ ask = Nothing
                                 THEN "done"
                                 ELSE IF Wants[w].context = "" THEN "registers" ELSE "search"]
  /\ OnlyVisits

\* Another side has found the route: the node is left alone.
Stop(w) == At(w, "begin") /\ Leaves(w, "skipped") /\ OnlyVisits

\* Phases 0 to 0d: Wikipedia, registers, rosters and podcasts, for a person
\* whose name stands alone; a context would make them answer for another.
Registers(w) == At(w, "registers") /\ Goes(w, "search") /\ OnlyVisits

\* Phases 1 to 4, in a pool; a search that fails counts as one without
\* results.  Pages triage has picked are read by Claude, the rest cheaply.
Search(w) ==
  /\ At(w, "search")
  /\ \E lost \in SUBSET {s \in Silo : visit[w].ask[s] > 0} :
       visit' = [visit EXCEPT ![w].lost = lost, ![w].phase = "coauthors"]
  /\ OnlyVisits

\* Phase 4b: coauthors, unless that is implausible or they are another's.
Coauthors(w) ==
  /\ At(w, "coauthors")
  /\ Goes(w, IF Wants[w].enhanced THEN "again" ELSE "mark")
  /\ OnlyVisits

\* Phase 4c: names met more than once are searched again with the subject.
\* The following phases need an employer.
Again(w) ==
  /\ At(w, "again")
  /\ \E next \in {"profile", "mark"} : Goes(w, next)
  /\ OnlyVisits

\* Phase 4d: a stored profile of the current version serves; a new one may be
\* a guess, or fail.
Profile(w) ==
  /\ At(w, "profile")
  /\ \E p \in IF profile = "none" THEN Profiles ELSE {profile} :
       visit' = [visit EXCEPT ![w].profile = p,
                              ![w].phase = IF p = "grounded" THEN "angle" ELSE "directory"]
  /\ OnlyVisits

\* Phase 4e: a strategy is asked for only on a profile that is no guess.
Angle(w) == At(w, "angle") /\ Goes(w, "directory") /\ OnlyVisits

\* Phase 4f: the employer's own page of people.
Directory(w) == At(w, "directory") /\ Goes(w, "mark") /\ OnlyVisits

Asked(w) == Questions(Wants[w].context, visit[w].ask)

\* Bug: what was asked in another context counts for this one.
MarkedMixed(w, c) ==
  [processed |-> TRUE, known |-> TRUE, context |-> Wants[w].context,
   silos |-> merge_coverage(c.silos, visit[w].ask)]

\* The meta column is written as a whole, from the row c this session loaded.
Marked(w, c) ==
  [processed |-> TRUE, known |-> TRUE, context |-> Wants[w].context,
   silos |-> IF c.context = Wants[w].context THEN merge_coverage(c.silos, visit[w].ask)
                                             ELSE visit[w].ask]

\* The entity filter and the upserts that GraphStore describes, then
\* _mark_expanded and the commit of everything.
Mark(w) ==
  /\ At(w, "mark")
  /\ record' = Marked(w, visit[w].copy)
  /\ stored' = stored \cup Asked(w)
  /\ answered' = answered \cup {q \in Asked(w) : q[2] \notin visit[w].lost}
  /\ profile' = IF visit[w].profile = "none" THEN profile ELSE visit[w].profile
  /\ Done(w)
  /\ UNCHANGED <<forfeited, cancelled>>

\* That commit meets a deadlock or a row that is gone, and everything is rolled
\* back.  commit_with_retry does _mark_expanded again and nothing else; on a
\* row that the visit itself had added, that writes nothing.
RollBack(w) ==
  /\ At(w, "mark")
  /\ \/ /\ visit' = [visit EXCEPT ![w].phase = "reload", ![w].lost = {},
                                    ![w].profile = "none"]
        /\ UNCHANGED forfeited
     \/ ~visit[w].copy.processed /\ Done(w) /\ forfeited' = forfeited \cup Asked(w)
  /\ UNCHANGED <<record, profile, stored, answered, cancelled>>

\* The row is loaded again as the mark reads it.
Reload(w) ==
  /\ visit[w].phase = "reload"
  /\ visit' = [visit EXCEPT ![w].prior = record, ![w].phase = "remark"]
  /\ OnlyVisits

\* The mark is committed without what the visit found.
Remark(w) ==
  /\ visit[w].phase = "remark"
  /\ record' = Marked(w, visit[w].prior)
  /\ forfeited' = forfeited \cup Asked(w)
  /\ Done(w)
  /\ UNCHANGED <<profile, stored, answered, cancelled>>

Running(w) == visit[w].phase \notin Ended \cup {"begin"} /\ w \notin cancelled

\* A deadlock, or a row that was pruned: again, in a fresh session.
Retry(w) ==
  /\ Running(w) /\ visit[w].attempt < Attempts
  /\ visit' = [visit EXCEPT ![w] = Untouched(visit[w].attempt + 1)]
  /\ OnlyVisits

\* Any other error, or one too many: rolled back and left out.
Skip(w) == Running(w) /\ Leaves(w, "skipped") /\ OnlyVisits

Cancel(w) ==
  /\ visit[w].phase \notin Ended /\ w \notin cancelled
  /\ cancelled' = cancelled \cup {w}
  /\ UNCHANGED <<shared, visit>>

VisitStep(w) ==
  \/ NoticeCancel(w) \/ Begin(w) \/ Registers(w) \/ Search(w) \/ Coauthors(w)
  \/ Again(w) \/ Profile(w) \/ Angle(w) \/ Directory(w)
  \/ Mark(w) \/ RollBack(w) \/ Reload(w) \/ Remark(w) \/ Retry(w)

VisitNext == \E w \in Walk : VisitStep(w) \/ Stop(w) \/ Skip(w) \/ Cancel(w)

VisitSpec == VisitInit /\ [][VisitNext]_vars

-----------------------------------------------------------------------------
VisitTypeOK ==
  /\ record.context \in Context /\ record.silos \in [Silo -> 0..Full]
  /\ profile \in Profiles
  /\ answered \subseteq stored

\* The record never claims a question that was not asked for it, whatever
\* visits overlap, fail, are redone, or overwrite each other's record ("claim a
\* node had been asked questions that were never issued"): the results are in
\* the graph, or a visit lost them in its final commit and returned.
CoverageEarned == Questions(record.context, record.silos) \subseteq stored \cup forfeited

\* A walk that has visited the person, whether it searched or relied on what
\* others had asked, lacks no result of what it wanted but those that a final
\* commit lost, unless it relied on a row from before questions were recorded.
WantsMet ==
  \A w \in Walk : visit[w].phase = "done" /\ (visit[w].copy.processed => visit[w].copy.known)
    => Questions(Wants[w].context, Wanted(w)) \subseteq stored \cup forfeited

\* "reuses this node's persisted neighbors instead of re-searching it, but only
\* for the silos this budget actually covered": what is recorded is stored.
CoverageStored == Questions(record.context, record.silos) \subseteq stored

\* A question recorded as asked was answered: otherwise "a later walk that
\* DOES want those silos would then skip them as already covered".
CoverageAnswered == Questions(record.context, record.silos) \subseteq answered
=============================================================================
