------------------------------ MODULE Judging ------------------------------
(***************************************************************************)
(* The batched judgements of src/app/extraction (entity_filter.validate    *)
(* and relation_classifier.classify, which share a shape) and the client   *)
(* they use (claude_client.py): verdicts are cached, the first batch goes  *)
(* alone, the others run in a pool, calls in flight are bounded for the    *)
(* process, and a credential that is refused latches Claude off.           *)
(* Callers run in the threads of several visits and builds.                *)
(*                                                                         *)
(* The latch is _availability: unset, yes or no.  A credential is resolved *)
(* (a key the SDK sees) or unproven (settled by the first call).           *)
(***************************************************************************)
EXTENDS Integers, Sequences, FiniteSets, SequencesExt

CONSTANTS Caller,
          Labels,   \* the callers that want labels; the others filter names
          Item,     \* what is judged: a name, or the evidence of a tie
          Noise,    \* is_noise_name
          Asks,     \* caller -> the items it submits, in order
          Batch,    \* CLAUDE_FILTER_BATCH and the like
          Slots     \* CLAUDE_MAX_CONCURRENCY

ASSUME JudgingAssumption ==
  /\ Labels \subseteq Caller /\ Noise \subseteq Item
  /\ Asks \in [Caller -> Seq(Item)] /\ \A c \in Caller : IsInjective(Asks[c])
  /\ {Batch, Slots} \subseteq Nat \ {0}

VARIABLES latch,       \* _availability
          credential,  \* resolved or unproven
          revoked,     \* the credential is refused from now on
          cache,       \* item -> its cached verdict
          visit,       \* caller -> [phase, kept, todo, in, out]
          calls,       \* caller -> its batches
          told,        \* every verdict ever given, as <<item, verdict>>
          reopened     \* a latch that was off was set again

judgingVars == <<latch, credential, revoked, cache, visit, calls, told, reopened>>
model == <<credential, revoked, reopened>>

JudgingInit ==
  /\ credential \in {"resolved", "unproven"} /\ latch = "unset"
  /\ revoked \in BOOLEAN /\ reopened = FALSE
  /\ cache = [i \in Item |-> "none"] /\ told = {}
  /\ visit = [c \in Caller |-> [phase |-> "start", kept |-> {}, todo |-> Asks[c],
                                in |-> {}, out |-> {}]]
  /\ calls = [c \in Caller |-> <<>>]

-----------------------------------------------------------------------------
Doing(c, phase) == visit[c].phase = phase

\* What a caller makes of items nobody judged: the filter keeps them, a tie
\* stays unknown.
Default(c, items) == IF c \in Labels THEN {} ELSE items

\* is_filtering_active or is_active of the caller.  claude_available reads
\* the latch and, if it was unset and a key is resolved, sets it later.
Check(c) ==
  /\ Doing(c, "start")
  /\ visit' = [visit EXCEPT ![c].phase =
       CASE latch = "no" -> "use"
         [] latch = "unset" /\ credential = "resolved" -> "settle"
         [] OTHER -> "submit"]
  /\ UNCHANGED <<model, latch, cache, calls, told>>

Settle(c) ==
  /\ Doing(c, "settle")
  /\ latch' = "yes" /\ reopened' = (reopened \/ latch = "no")
  /\ visit' = [visit EXCEPT ![c].phase = "submit"]
  /\ UNCHANGED <<credential, revoked, cache, calls, told>>

Call(items, state) ==
  [items |-> items, state |-> state, refused |-> FALSE, valid |-> {}, junk |-> {}]

Items(c, places) == {Asks[c][p] : p \in places}

\* The places whose number among all of them falls into the k-th batch.
Slice(places, k) ==
  {p \in places : Cardinality({q \in places : q < p}) \div Batch = k - 1}
BatchCount(places) == (Cardinality(places) + Batch - 1) \div Batch

\* Bug: all batches go at once.
BatchesAtOnce(c, open) ==
  [k \in 1..BatchCount(open) |-> Call(Items(c, Slice(open, k)), "waiting")]

\* The pending items in batches; the first may go, the rest are held back.
Batches(c, open) ==
  [k \in 1..BatchCount(open) |->
     Call(Items(c, Slice(open, k)), IF k = 1 THEN "waiting" ELSE "held")]

\* validate and classify up to the first call: what the cache knows is
\* settled, the rest is put in batches; with Claude off nothing is judged.
Submit(c) ==
  LET real == {p \in DOMAIN Asks[c] : Asks[c][p] \notin Noise}
      open == {p \in real : cache[Asks[c][p]] = "none"}
  IN /\ Doing(c, "submit")
     /\ calls' = [calls EXCEPT ![c] = IF latch = "no" THEN <<>> ELSE Batches(c, open)]
     /\ visit' = [visit EXCEPT
          ![c].kept = IF latch = "no" THEN Default(c, Items(c, real))
                      ELSE {i \in Items(c, real) : cache[i] = "valid"},
          ![c].phase = IF latch = "no" \/ open = {} THEN "use" ELSE "judge"]
     /\ UNCHANGED <<model, latch, cache, told>>

-----------------------------------------------------------------------------
(* call_json, in the caller's thread or one of its pool.                   *)

InFlight ==
  UNION {{c} \X {k \in DOMAIN calls[c] : calls[c][k].state \in {"asking", "doomed"}} :
         c \in Caller}

Send(c, k) ==
  /\ k \in DOMAIN calls[c] /\ calls[c][k].state = "waiting"
  /\ Cardinality(InFlight) < Slots
  /\ calls' = [calls EXCEPT ![c][k].state = IF revoked THEN "doomed" ELSE "asking"]
  /\ UNCHANGED <<model, latch, cache, visit, told>>

\* The model may leave items out.
Answer(c, k) ==
  /\ k \in DOMAIN calls[c] /\ calls[c][k].state = "asking"
  /\ \E valid \in SUBSET calls[c][k].items : \E junk \in SUBSET (calls[c][k].items \ valid) :
       /\ calls' = [calls EXCEPT ![c][k].state = "done", ![c][k].valid = valid,
                                 ![c][k].junk = junk]
       /\ told' = told \cup (valid \X {"valid"}) \cup (junk \X {"junk"})
  /\ UNCHANGED <<model, latch, cache, visit>>

\* A timeout, a rate limit, a refusal to answer, a truncated answer: None.
Fail(c, k) ==
  /\ k \in DOMAIN calls[c] /\ calls[c][k].state = "asking"
  /\ calls' = [calls EXCEPT ![c][k].state = "done"]
  /\ UNCHANGED <<model, latch, cache, visit, told>>

\* An authentication failure: _mark_unavailable.
Refuse(c, k) ==
  /\ k \in DOMAIN calls[c] /\ calls[c][k].state = "doomed"
  /\ calls' = [calls EXCEPT ![c][k].state = "done", ![c][k].refused = TRUE]
  /\ latch' = "no"
  /\ UNCHANGED <<model, cache, visit, told>>

Revoke ==
  /\ ~revoked /\ revoked' = TRUE
  /\ UNCHANGED <<credential, reopened, latch, cache, visit, calls, told>>

-----------------------------------------------------------------------------
(* _apply: what the answers mean.  An item without a verdict gets the      *)
(* default and is not cached.                                              *)

\* Bug: only what Claude vouched for is kept.
KeptIfVouched(c, call) == call.valid

Filtered(call) == call.items \ call.junk
Labelled(call) == call.valid
Kept(c, call) == IF c \in Labels THEN Labelled(call) ELSE Filtered(call)

Cached(call) ==
  [i \in Item |-> IF i \in call.valid THEN "valid"
                  ELSE IF i \in call.junk THEN "junk" ELSE cache[i]]

\* The first answer; only then, and if Claude is still on, the others go.
ApplyFirst(c) ==
  /\ Doing(c, "judge") /\ calls[c][1].state = "done"
  /\ LET call == calls[c][1]
         rest == 2..Len(calls[c])
         stop == rest = {} \/ latch = "no"
     IN /\ visit' = [visit EXCEPT
             ![c].kept = @ \cup Kept(c, call)
                           \cup IF stop THEN Default(c, UNION {calls[c][k].items : k \in rest})
                                ELSE {},
             ![c].phase = IF stop THEN "use" ELSE "rest"]
        /\ cache' = Cached(call)
        /\ calls' = [calls EXCEPT ![c] = [k \in DOMAIN @ |->
             IF k # 1 /\ stop THEN @[k]
             ELSE [@[k] EXCEPT !.state = IF k = 1 THEN "applied" ELSE "waiting"]]]
  /\ UNCHANGED <<model, latch, told>>

\* Bug: an answer that comes after the latch is waited for again.
ApplyUnlatched(c, k) ==
  /\ Doing(c, "rest") /\ k \in 2..Len(calls[c]) /\ calls[c][k].state = "done"
  /\ latch # "no"
  /\ visit' = [visit EXCEPT ![c].kept = @ \cup Kept(c, calls[c][k]),
       ![c].phase = IF \A j \in 2..Len(calls[c]) : j = k \/ calls[c][j].state = "applied"
                    THEN "use" ELSE "rest"]
  /\ cache' = Cached(calls[c][k])
  /\ calls' = [calls EXCEPT ![c][k].state = "applied"]
  /\ UNCHANGED <<model, latch, told>>

\* as_completed: an answer that comes when Claude is off is set aside.
Apply(c, k) ==
  /\ Doing(c, "rest") /\ k \in 2..Len(calls[c]) /\ calls[c][k].state = "done"
  /\ visit' = [visit EXCEPT
       ![c].kept = @ \cup IF latch = "no" THEN Default(c, calls[c][k].items)
                          ELSE Kept(c, calls[c][k]),
       ![c].phase = IF \A j \in 2..Len(calls[c]) : j = k \/ calls[c][j].state = "applied"
                    THEN "use" ELSE "rest"]
  /\ cache' = IF latch = "no" THEN cache ELSE Cached(calls[c][k])
  /\ calls' = [calls EXCEPT ![c][k].state = "applied"]
  /\ UNCHANGED <<model, latch, told>>

-----------------------------------------------------------------------------
(* What the caller does with its items, one after the other.               *)

Takes(c, i, taken) ==
  visit' = [visit EXCEPT ![c].todo = Tail(@),
              ![c].in = IF taken THEN @ \cup {i} ELSE @,
              ![c].out = IF taken THEN @ ELSE @ \cup {i}]

\* _process_person asks for each name again whether Claude is on.
Store(c) ==
  /\ Doing(c, "use") /\ c \notin Labels /\ visit[c].todo # <<>>
  /\ LET i == Head(visit[c].todo) IN Takes(c, i, latch = "no" \/ i \in visit[c].kept)
  /\ UNCHANGED <<model, latch, cache, calls, told>>

\* A tie gets the type Claude is confident of, or stays as it is.
Label(c) ==
  /\ Doing(c, "use") /\ c \in Labels /\ visit[c].todo # <<>>
  /\ LET i == Head(visit[c].todo) IN Takes(c, i, i \in visit[c].kept)
  /\ UNCHANGED <<model, latch, cache, calls, told>>

CallStep(c, k) == Send(c, k) \/ Answer(c, k) \/ Fail(c, k) \/ Refuse(c, k) \/ Apply(c, k)
CallerStep(c) == Check(c) \/ Settle(c) \/ Submit(c) \/ ApplyFirst(c) \/ Store(c)
                 \/ Label(c)

JudgingNext ==
  \/ Revoke
  \/ \E c \in Caller : CallerStep(c) \/ \E k \in 1..Cardinality(Item) : CallStep(c, k)

\* Threads run on, and the SDK ends every call at CLAUDE_TIMEOUT.
JudgingFairness ==
  \A c \in Caller : /\ WF_judgingVars(CallerStep(c))
                    /\ \A k \in 1..Cardinality(Item) : WF_judgingVars(CallStep(c, k))

JudgingSpec == JudgingInit /\ [][JudgingNext]_judgingVars /\ JudgingFairness

-----------------------------------------------------------------------------
Verdict == {"none", "valid", "junk"}

JudgingTypeOK ==
  /\ latch \in {"unset", "yes", "no"} /\ cache \in [Item -> Verdict]
  /\ told \subseteq Item \X {"valid", "junk"}
  /\ \A c \in Caller : {visit[c].kept, visit[c].in, visit[c].out} \subseteq SUBSET Item

\* Nothing is decided without a judgement.  A name is turned away only if
\* Claude called it junk, a tie is labelled only if Claude labelled it, and
\* only such verdicts are cached: no failed, truncated or refused call, no
\* item the model left out and no latch that falls in between loses a real
\* counterpart ("keep for THIS run (conservative) but don't cache it").  The
\* race that reopens the latch is the one exception.
OnlyJudged ==
  /\ \A i \in Item : cache[i] # "none" => <<i, cache[i]>> \in told
  /\ ~reopened =>
       \A c \in Caller :
         IF c \in Labels THEN visit[c].in \X {"valid"} \subseteq told
         ELSE (visit[c].out \ Noise) \X {"junk"} \subseteq told

\* A caller whose first batch is refused sends no other: "if the key is
\* broken, this is the ONE wasted round trip" (validate).
BrokenKeyCostsOneCall ==
  ~reopened =>
    \A c \in Caller : calls[c] # <<>> /\ calls[c][1].refused =>
      \A k \in 2..Len(calls[c]) : calls[c][k].state = "held"

\* Every caller gets through, whatever fails and however few slots there are.
JudgingEnds == \A c \in Caller : <>(visit[c].todo = <<>>)

\* "Latch Claude off for the rest of the process after an auth failure"
\* (_mark_unavailable).
LatchHolds == ~reopened
=============================================================================
