-------------------------- MODULE Verdicts_proofs --------------------------
(***************************************************************************)
(* Proofs about what Claude's verdicts do.  EdgeVerdict: for any number of *)
(* sessions, a no closes the edge and nothing else does.  Judging: for any *)
(* callers and any items, only what was judged is turned away or labelled, *)
(* and a broken key costs one call.                                        *)
(***************************************************************************)
EXTENDS EdgeVerdict, Judging, TLAPS, SequenceTheorems, FiniteSetTheorems

-----------------------------------------------------------------------------
(* EdgeVerdict.                                                            *)

\* A row is fresh only if it has a verdict.
Judged(e) == e.fresh => e.verdict # "none"

\* What a session at work knows: its copy was such a row, a verdict it saw is
\* still one, it has not answered, and it verifies edges that are open only.
Sound(s) ==
  /\ Judged(session[s].copy)
  /\ edge # None /\ session[s].copy.verdict # "none" => edge.verdict # "none"
  /\ answer[s] = "none"
  /\ session[s].op = "verify" => session[s].copy.status # "rejected"

\* The inductive invariant.
IInv ==
  /\ VerdictTypeOK
  /\ edge # None => Judged(edge)
  /\ \A s \in Session : session[s] # None => Sound(s)

-----------------------------------------------------------------------------
\* A write takes the fields that changed from the new row, the others from the
\* stored one.
LEMMA WriteFields ==
  ASSUME edge \in Edge, NEW copy \in Edge, NEW new \in Edge
  PROVE  /\ Write(copy, new) \in Edge
         /\ Write(copy, new).status
                = IF new.status = copy.status THEN edge.status ELSE new.status
         /\ Write(copy, new).verdict
              = IF new.verdict = copy.verdict THEN edge.verdict ELSE new.verdict
         /\ Write(copy, new).fresh = IF new.fresh = copy.fresh THEN edge.fresh ELSE new.fresh
         /\ Write(copy, new).by = IF new.by = copy.by THEN edge.by ELSE new.by
<1>1. DOMAIN edge = {"kind", "conf", "status", "verdict", "by", "fresh"}
  BY DEF Edge
<1>2. \A f \in DOMAIN edge :
        Write(copy, new)[f] = IF new[f] = copy[f] THEN edge[f] ELSE new[f]
  BY DEF Write
<1>3. Write(copy, new) = [kind |-> IF new.kind = copy.kind THEN edge.kind ELSE new.kind,
                          conf |-> IF new.conf = copy.conf THEN edge.conf ELSE new.conf,
                          status |-> IF new.status = copy.status THEN edge.status
                                     ELSE new.status,
                          verdict |-> IF new.verdict = copy.verdict THEN edge.verdict
                                      ELSE new.verdict,
                          by |-> IF new.by = copy.by THEN edge.by ELSE new.by,
                          fresh |-> IF new.fresh = copy.fresh THEN edge.fresh ELSE new.fresh]
  BY <1>1 DEF Write
<1>4. QED
  BY <1>3 DEF Edge

LEMMA InitEstablishes == VerdictInit => IInv
<1> SUFFICES ASSUME VerdictInit PROVE IInv
  OBVIOUS
<1>1. PICK kind \in Kind, conf \in Tier :
        edge = [kind |-> kind, conf |-> conf, status |-> derive_status(kind, conf),
                verdict |-> "none", by |-> "none", fresh |-> FALSE]
  BY DEF VerdictInit
<1>2. edge \in Edge /\ Judged(edge)
  BY <1>1 DEF Edge, Tier, derive_status, Judged
<1>3. VerdictTypeOK
  BY <1>2 DEF VerdictInit, VerdictTypeOK
<1>4. QED
  BY <1>2, <1>3 DEF VerdictInit, IInv

\* A step that closes one session, and writes the row or not.
LEMMA Closing ==
  ASSUME IInv, NEW s \in Session, Close(s),
         answer' \in [Session -> {"none", "yes", "no"}],
         \A t \in Session \ {s} : answer'[t] = answer[t],
         edge' \in Edge \cup {None},
         edge' # None => Judged(edge') /\ edge # None
                          /\ (edge.verdict # "none" => edge'.verdict # "none")
  PROVE  IInv'
<1>1. \A t \in Session : session'[t] = IF t = s THEN None ELSE session[t]
  BY DEF Close, IInv, VerdictTypeOK
<1>2. VerdictTypeOK'
  BY DEF Close, IInv, VerdictTypeOK
<1>3. ASSUME NEW t \in Session, session'[t] # None PROVE Sound(t)'
  <2>1. t # s /\ session'[t] = session[t] /\ answer'[t] = answer[t]
    BY <1>1, <1>3
  <2>2. Sound(t)
    BY <1>3, <2>1 DEF IInv
  <2>3. QED
    BY <2>1, <2>2 DEF Sound, Judged
<1>4. QED
  BY <1>2, <1>3 DEF IInv

\* What each writer makes of the row: it is judged as it should be, a verdict
\* stays one, and only a verify that says no rejects an edge that was open.
LEMMA ExtractWrites ==
  ASSUME IInv, NEW s \in Session, Extract(s) \/ Retype(s)
  PROVE  /\ edge' \in Edge /\ Judged(edge') /\ edge # None
         /\ edge.verdict # "none" => edge'.verdict # "none"
         /\ edge.status # "rejected" => edge'.status # "rejected"
<1>1. edge \in Edge /\ edge # None /\ Judged(edge) /\ session[s] # None
  BY DEF Extract, Retype, At, IInv, VerdictTypeOK
<1> DEFINE c == session[s].copy
<1>2. c \in Edge
  BY <1>1 DEF IInv, VerdictTypeOK, Open
<1>3. \E new \in Edge : /\ edge' = Write(c, new) /\ new.status # "rejected"
                        /\ new.verdict = c.verdict /\ new.fresh = c.fresh
  <2>1. CASE Extract(s)
    <3>1. PICK conf \in Tier :
            edge' = Write(c, [c EXCEPT !.conf = conf, !.status = derive_status(c.kind, conf)])
      BY <2>1 DEF Extract, Copy
    <3> DEFINE new == [c EXCEPT !.conf = conf, !.status = derive_status(c.kind, conf)]
    <3>2. new \in Edge /\ new.status # "rejected" /\ new.verdict = c.verdict
            /\ new.fresh = c.fresh
      BY <1>2 DEF Edge, Tier, derive_status
    <3>3. QED
      BY <3>1, <3>2
  <2>2. CASE Retype(s)
    <3>1. PICK kind \in Kind \ {"unknown"}, conf \in {"candidate", "strong"} :
            edge' = Write(c, [c EXCEPT !.kind = kind, !.conf = Higher(c.conf, conf),
                                       !.status = derive_status(kind, Higher(c.conf, conf))])
      BY <2>2 DEF Retype, Copy
    <3> DEFINE best == Higher(c.conf, conf)
               new == [c EXCEPT !.kind = kind, !.conf = best,
                                !.status = derive_status(kind, best)]
    <3>2. best \in Tier
      BY <1>2 DEF Higher, Edge, Tier
    <3>3. derive_status(kind, best) \in Tier
      BY <3>2 DEF derive_status, Tier
    <3> HIDE DEF best
    <3>4. new \in Edge /\ new.status # "rejected" /\ new.verdict = c.verdict
            /\ new.fresh = c.fresh
      BY <1>2, <3>2, <3>3 DEF Edge, Tier
    <3>5. QED
      BY <3>1, <3>4 DEF best
  <2>3. QED
    BY <2>1, <2>2
<1>4. QED
  BY <1>1, <1>2, <1>3, WriteFields DEF Judged

LEMMA VerifyWrites ==
  ASSUME IInv, NEW s \in Session, Verify(s)
  PROVE  /\ edge' \in Edge /\ Judged(edge') /\ edge # None
         /\ edge.verdict # "none" => edge'.verdict # "none"
         /\ \/ answer'[s] = "no" /\ edge'.status = "rejected" /\ edge'.fresh
            \/ answer'[s] = "yes" /\ (edge.status # "rejected" => edge'.status # "rejected")
<1>1. edge \in Edge /\ edge # None /\ Judged(edge) /\ session[s] # None
  BY DEF Verify, At, IInv, VerdictTypeOK
<1> DEFINE c == session[s].copy
<1>2. c \in Edge /\ Judged(c) /\ c.status # "rejected" /\ Stale(c)
        /\ (c.verdict # "none" => edge.verdict # "none")
  BY <1>1 DEF Verify, At, Copy, IInv, VerdictTypeOK, Open, Sound
<1>3. PICK verdict \in {"genuine", "rejected"} :
        /\ edge' = Write(c, [c EXCEPT
                     !.verdict = verdict, !.by = "model", !.fresh = TRUE,
                     !.status = IF verdict = "rejected" THEN "rejected"
                                ELSE IF @ = "rejected" THEN "candidate" ELSE @])
        /\ answer' = [answer EXCEPT ![s] = IF verdict = "rejected" THEN "no" ELSE "yes"]
  BY DEF Verify, Copy
<1> DEFINE new == [c EXCEPT
                     !.verdict = verdict, !.by = "model", !.fresh = TRUE,
                     !.status = IF verdict = "rejected" THEN "rejected"
                                ELSE IF @ = "rejected" THEN "candidate" ELSE @]
<1>4. new \in Edge /\ new.verdict = verdict /\ new.fresh
        /\ new.status = IF verdict = "rejected" THEN "rejected" ELSE c.status
  BY <1>2 DEF Edge, Tier
<1>5. ~c.fresh
  BY <1>2 DEF Judged, Stale, Edge
<1>6. answer'[s] = IF verdict = "rejected" THEN "no" ELSE "yes"
  BY <1>3 DEF IInv, VerdictTypeOK
<1>7. edge' = Write(c, new)
  BY <1>3
<1> HIDE DEF new
<1>8. edge'.fresh /\ edge'.verdict # "none"
  BY <1>1, <1>2, <1>4, <1>5, <1>7, WriteFields DEF Edge
<1>9. edge' \in Edge
  BY <1>1, <1>2, <1>4, <1>7, WriteFields
<1>10. edge'.status = IF verdict = "rejected" THEN "rejected" ELSE edge.status
  BY <1>1, <1>2, <1>4, <1>7, WriteFields
<1>11. QED
  BY <1>1, <1>6, <1>8, <1>9, <1>10 DEF Judged
-----------------------------------------------------------------------------
(* The steps preserve the invariant.                                       *)

\* A session loads the row as it is.
LEMMA LoadPreserves ==
  ASSUME IInv, NEW s \in Session, NEW op \in {"extract", "retype", "verify"}, Load(s, op)
  PROVE  IInv'
<1> DEFINE o == [op |-> op, copy |-> edge]
<1>1. edge \in Edge /\ Judged(edge) /\ edge' = edge
  BY DEF Load, IInv, VerdictTypeOK
<1>2. o \in Open /\ o.copy = edge /\ o.op = op
  BY <1>1 DEF Open
<1>3. session' = [session EXCEPT ![s] = o] /\ answer' = [answer EXCEPT ![s] = "none"]
  BY DEF Load
<1>4. op = "verify" => edge.status # "rejected"
  BY DEF Load
<1> HIDE DEF o
<1>5. \A t \in Session : /\ session'[t] = IF t = s THEN o ELSE session[t]
                         /\ answer'[t] = IF t = s THEN "none" ELSE answer[t]
  BY <1>3 DEF IInv, VerdictTypeOK
<1>6. VerdictTypeOK'
  BY <1>1, <1>2, <1>3 DEF IInv, VerdictTypeOK
<1>7. ASSUME NEW t \in Session, session'[t] # None PROVE Sound(t)'
  <2>1. CASE t = s
    BY <1>1, <1>2, <1>4, <1>5, <2>1 DEF Sound, Judged
  <2>2. CASE t # s
    BY <1>1, <1>5, <1>7, <2>2 DEF IInv, Sound, Judged
  <2>3. QED
    BY <2>1, <2>2
<1>8. QED
  BY <1>1, <1>6, <1>7 DEF IInv, Judged

\* A step of the row alone.
LEMMA RowStep ==
  ASSUME IInv, UNCHANGED <<session, answer>>, edge' \in Edge \cup {None},
         edge' # None => Judged(edge') /\ edge # None
                          /\ (edge.verdict # "none" => edge'.verdict # "none")
  PROVE  IInv'
<1>1. VerdictTypeOK'
  BY DEF IInv, VerdictTypeOK
<1>2. \A t \in Session : session[t] # None => Sound(t)'
  BY DEF IInv, Sound, Judged
<1>3. QED
  BY <1>1, <1>2 DEF IInv

LEMMA RowPreserves ==
  ASSUME IInv, OperatorRejects \/ Age \/ Pruned
  PROVE  IInv'
<1>1. CASE OperatorRejects
  <2>1. edge \in Edge /\ edge # None
    BY <1>1 DEF OperatorRejects, IInv, VerdictTypeOK
  <2>2. edge' \in Edge /\ edge'.verdict = "rejected"
    BY <1>1, <2>1 DEF OperatorRejects, Edge
  <2>3. QED
    BY <1>1, <2>1, <2>2, RowStep DEF OperatorRejects, Judged
<1>2. CASE Age
  <2>1. edge \in Edge /\ edge # None
    BY <1>2 DEF Age, IInv, VerdictTypeOK
  <2>2. edge' \in Edge /\ ~edge'.fresh /\ edge'.verdict = edge.verdict
    BY <1>2, <2>1 DEF Age, Edge
  <2>3. QED
    BY <1>2, <2>1, <2>2, RowStep DEF Age, Judged
<1>3. CASE Pruned
  BY <1>3, RowStep DEF Pruned
<1>4. QED
  BY <1>1, <1>2, <1>3

\* Closing without a write.
LEMMA CloseQuietly ==
  ASSUME IInv, NEW s \in Session, Close(s), UNCHANGED edge,
         answer' = answer \/ \E a \in {"yes", "no"} : answer' = [answer EXCEPT ![s] = a]
  PROVE  IInv'
<1>1. answer' \in [Session -> {"none", "yes", "no"}]
        /\ \A t \in Session \ {s} : answer'[t] = answer[t]
  BY DEF IInv, VerdictTypeOK
<1>2. edge' \in Edge \cup {None} /\ (edge' # None => Judged(edge'))
  BY DEF IInv, VerdictTypeOK, Judged
<1>3. QED
  BY <1>1, <1>2, Closing

LEMMA SessionPreserves ==
  ASSUME IInv, NEW s \in Session, SessionStep(s)
  PROVE  IInv'
<1>1. CASE \E op \in {"extract", "retype", "verify"} : Load(s, op)
  BY <1>1, LoadPreserves
<1>2. CASE Gone(s) \/ ExtractNothingNew(s) \/ RetypeNothing(s)
  BY <1>2, CloseQuietly DEF Gone, ExtractNothingNew, RetypeNothing
<1>3. CASE VerifyStored(s) \/ VerifyUnasked(s)
  BY <1>3, CloseQuietly DEF VerifyStored, VerifyUnasked
<1>4. CASE Extract(s) \/ Retype(s)
  <2>1. Close(s) /\ answer' = answer
    BY <1>4 DEF Extract, Retype
  <2>2. answer' \in [Session -> {"none", "yes", "no"}]
    BY <2>1 DEF IInv, VerdictTypeOK
  <2>3. QED
    BY <1>4, <2>1, <2>2, ExtractWrites, Closing
<1>5. CASE Verify(s)
  <2>1. Close(s)
    BY <1>5 DEF Verify
  <2>2. PICK a \in {"yes", "no"} : answer' = [answer EXCEPT ![s] = a]
    BY <1>5 DEF Verify
  <2>3. answer' \in [Session -> {"none", "yes", "no"}]
          /\ \A t \in Session \ {s} : answer'[t] = answer[t]
    BY <2>2 DEF IInv, VerdictTypeOK
  <2>4. QED
    BY <1>5, <2>1, <2>3, VerifyWrites, Closing
<1>6. QED
  BY <1>1, <1>2, <1>3, <1>4, <1>5 DEF SessionStep

LEMMA StepPreserves == IInv /\ [VerdictNext]_vars => IInv'
<1> SUFFICES ASSUME IInv, [VerdictNext]_vars PROVE IInv'
  OBVIOUS
<1>1. CASE UNCHANGED vars
  BY <1>1 DEF vars, IInv, VerdictTypeOK, Sound, Judged
<1>2. CASE OperatorRejects \/ Age \/ Pruned
  BY <1>2, RowPreserves
<1>3. CASE \E s \in Session : SessionStep(s)
  BY <1>3, SessionPreserves
<1>4. QED
  BY <1>1, <1>2, <1>3 DEF VerdictNext
-----------------------------------------------------------------------------
(* What a step may do.                                                     *)

\* A session that closes is the one whose step it is.
LEMMA CloserSteps ==
  ASSUME IInv, [VerdictNext]_vars, NEW s \in Session, session[s] # None, session'[s] = None
  PROVE  SessionStep(s) /\ \A op \in {"extract", "retype", "verify"} : ~Load(s, op)
<1>1. session' # session
  OBVIOUS
<1>2. PICK t \in Session : SessionStep(t)
  BY <1>1 DEF VerdictNext, vars, OperatorRejects, Age, Pruned
<1>3. \A u \in Session \ {t} : session'[u] = session[u]
  <2>1. \E v \in Open \cup {None} : session' = [session EXCEPT ![t] = v]
    <3>1. CASE \E op \in {"extract", "retype", "verify"} : Load(t, op)
      <4>1. PICK op \in {"extract", "retype", "verify"} : Load(t, op)
        BY <3>1
      <4>2. [op |-> op, copy |-> edge] \in Open
        BY <4>1 DEF Load, Open, IInv, VerdictTypeOK
      <4>3. QED
        BY <4>1, <4>2 DEF Load
    <3>2. CASE Close(t)
      BY <3>2 DEF Close
    <3>3. QED
      BY <1>2, <3>1, <3>2 DEF SessionStep, Gone, Extract, ExtractNothingNew, Retype,
         RetypeNothing, VerifyStored, VerifyUnasked, Verify
  <2>2. QED
    BY <2>1 DEF IInv, VerdictTypeOK
<1>4. s = t
  BY <1>3
<1>5. QED
  BY <1>2, <1>4 DEF Load

\* A no that was asked for closes the edge.
LEMMA NoCloses ==
  ASSUME IInv, [VerdictNext]_vars,
         NEW s \in Session, session[s] # None, session'[s] = None,
         answer'[s] = "no", Stale(Copy(s))
  PROVE  edge' # None /\ edge'.status = "rejected"
<1>1. SessionStep(s) /\ \A op \in {"extract", "retype", "verify"} : ~Load(s, op)
  BY CloserSteps
<1>2. answer[s] = "none"
  BY DEF IInv, Sound
<1>3. CASE VerifyUnasked(s)
  BY <1>3 DEF VerifyUnasked, IInv, VerdictTypeOK
<1>4. CASE Verify(s)
  <2>1. edge' \in Edge /\ edge'.status = "rejected"
    BY <1>4, VerifyWrites
  <2>2. QED
    BY <2>1, VerdictAssumption
<1>5. QED
  BY <1>1, <1>2, <1>3, <1>4 DEF SessionStep, Gone, Extract, ExtractNothingNew, Retype,
     RetypeNothing, VerifyStored

\* An edge that becomes rejected is judged in that step.
LEMMA HidingIsJudged ==
  ASSUME IInv, [VerdictNext]_vars,
         edge # None, edge' # None, edge.status # "rejected", edge'.status = "rejected"
  PROVE  \/ is_operator_rejected(edge')
         \/ \E s \in Session : session[s] # None /\ session'[s] = None
                              /\ answer'[s] = "no" /\ edge'.fresh
<1>1. edge \in Edge
  BY DEF IInv, VerdictTypeOK
<1>2. edge' # edge
  OBVIOUS
<1>3. CASE OperatorRejects
  BY <1>1, <1>3 DEF OperatorRejects, is_operator_rejected, Edge
<1>4. CASE Age
  BY <1>1, <1>4 DEF Age, Edge
<1>5. CASE Pruned
  BY <1>5 DEF Pruned
<1>6. ASSUME NEW s \in Session, SessionStep(s)
      PROVE  session[s] # None /\ session'[s] = None /\ answer'[s] = "no" /\ edge'.fresh
  <2>1. ~(Extract(s) \/ Retype(s))
    BY ExtractWrites
  <2>2. Verify(s)
    BY <1>2, <1>6, <2>1 DEF SessionStep, Load, Gone, ExtractNothingNew, RetypeNothing,
       VerifyStored, VerifyUnasked
  <2>3. session[s] # None /\ session'[s] = None
    BY <2>2 DEF Verify, At, Close, IInv, VerdictTypeOK
  <2>4. answer'[s] = "no" /\ edge'.fresh
    BY <2>2, VerifyWrites
  <2>5. QED
    BY <2>3, <2>4
<1>7. QED
  BY <1>2, <1>3, <1>4, <1>5, <1>6 DEF VerdictNext, vars

-----------------------------------------------------------------------------
\* The invariant holds throughout, for any number of sessions.
THEOREM VerdictsAreSound == VerdictSpec => []IInv
BY InitEstablishes, StepPreserves, PTL DEF VerdictSpec

\* When verify asks and says no, the row is rejected in that very step: no
\* route can be laid over the edge again (_routes_now relies on it).
THEOREM NoClosesTheEdge == VerdictSpec => NoMeansClosed
<1>1. IInv /\ [VerdictNext]_vars
        => [\A s \in Session :
              session[s] # None /\ session'[s] = None /\ answer'[s] = "no" /\ Stale(Copy(s))
              => edge' # None /\ edge'.status = "rejected"]_vars
  BY NoCloses
<1>2. QED
  BY <1>1, VerdictsAreSound, PTL DEF VerdictSpec, NoMeansClosed

\* No extraction, retyping, failed call or write from an old copy takes an
\* edge off the routes (verify's promise that no failure hides a real tie).
THEOREM OnlyJudgementHides == VerdictSpec => HiddenOnlyByJudgement
<1>1. IInv /\ [VerdictNext]_vars
        => [edge # None /\ edge' # None /\ edge.status # "rejected"
              /\ edge'.status = "rejected"
            => \/ is_operator_rejected(edge')
               \/ \E s \in Session : session[s] # None /\ session'[s] = None
                                    /\ answer'[s] = "no" /\ edge'.fresh]_vars
  BY HidingIsJudged
<1>2. QED
  BY <1>1, VerdictsAreSound, PTL DEF VerdictSpec, HiddenOnlyByJudgement

-----------------------------------------------------------------------------
(* Judging.                                                                *)

CallState == {"held", "waiting", "asking", "doomed", "done", "applied"}
CallRow == [items : SUBSET Item, state : CallState, refused : BOOLEAN,
            valid : SUBSET Item, junk : SUBSET Item]
VisitRow == [phase : {"start", "settle", "submit", "judge", "rest", "use"},
             kept : SUBSET Item, todo : Seq(Item), in : SUBSET Item, out : SUBSET Item]

JTyped ==
  /\ latch \in {"unset", "yes", "no"} /\ reopened \in BOOLEAN
  /\ cache \in [Item -> Verdict]
  /\ visit \in [Caller -> VisitRow]
  /\ calls \in [Caller -> Seq(CallRow)]

Ruled(i, verdict) == <<i, verdict>> \in told

\* What an answer says was said.
Vouched(call) ==
  /\ \A i \in call.valid : Ruled(i, "valid")
  /\ \A i \in call.junk : Ruled(i, "junk")

\* The first batch alone is at work until it is applied.
FirstAlone(c) ==
  /\ Doing(c, "judge") => calls[c] # <<>> /\ calls[c][1].state # "applied"
  /\ Doing(c, "rest") => calls[c] # <<>> /\ calls[c][1].state = "applied"
  /\ calls[c] # <<>> /\ calls[c][1].state # "applied" =>
       \A k \in 2..Len(calls[c]) : calls[c][k].state = "held"

\* What a caller has left to do is of what it asked.
Asked(c) == \A j \in DOMAIN visit[c].todo : visit[c].todo[j] \in ToSet(Asks[c])

\* An item still on its way to a verdict or a default.
Underway(c, i) ==
  /\ visit[c].phase # "use"
  /\ \E k \in DOMAIN calls[c] : calls[c][k].state # "applied" /\ i \in calls[c][k].items

Accounted(c, i) == i \in visit[c].kept \/ Ruled(i, "junk") \/ Underway(c, i)

\* What a caller did and may do rests on verdicts.  A filter that finds the
\* latch down keeps everything, so only then may its books be incomplete.
Trusted(c) ==
  /\ c \in Labels => \A i \in visit[c].kept \cup visit[c].in : Ruled(i, "valid")
  /\ c \notin Labels =>
       /\ \A i \in visit[c].out \ Noise : Ruled(i, "junk")
       /\ visit[c].phase \in {"judge", "rest", "use"} /\ latch # "no" =>
            \A i \in ToSet(Asks[c]) \ Noise : Accounted(c, i)

\* A refused first batch has latched Claude off and leaves the rest held.
Broken(c) ==
  calls[c] # <<>> /\ calls[c][1].refused =>
    latch = "no" /\ \A k \in 2..Len(calls[c]) : calls[c][k].state = "held"

CallerFits(c) ==
  /\ \A k \in DOMAIN calls[c] : Vouched(calls[c][k])
  /\ FirstAlone(c) /\ Asked(c)
  /\ ~reopened => Trusted(c) /\ Broken(c)

CacheTold == \A i \in Item : cache[i] # "none" => Ruled(i, cache[i])

JInv == JTyped /\ CacheTold /\ \A c \in Caller : CallerFits(c)

\* The latch comes on again only by the race.
LatchGoes ==
  (~reopened' => ~reopened) /\ (~reopened' /\ latch = "no" => latch' = "no")

-----------------------------------------------------------------------------
(* Slicing a list into batches.                                            *)

LEMMA Division ==
  ASSUME NEW a \in Nat, NEW n \in Nat, a < n, NEW b \in Nat \ {0}
  PROVE  /\ a \div b \in Nat /\ (n + b - 1) \div b \in Nat
         /\ a \div b < (n + b - 1) \div b
<1> DEFINE q == a \div b
           r == (n + b - 1) \div b
<1>1. q \in Nat /\ b * q <= a OBVIOUS
<1>2. n + b - 1 \in Nat OBVIOUS
<1>3. r \in Nat /\ n + b - 1 < b * (r + 1) BY <1>2
<1> HIDE DEF q, r
<1>4. b * q + b < b * (r + 1) BY <1>1, <1>3
<1>5. b * (r - q) > 0 BY <1>1, <1>3, <1>4
<1>6. ~(r =< q)
  <2> SUFFICES ASSUME r =< q PROVE FALSE OBVIOUS
  <2>1. b * (q - r) >= 0 BY <1>1, <1>3
  <2> QED BY <1>1, <1>3, <1>5, <2>1
<1> QED BY <1>1, <1>3, <1>6 DEF q, r

\* Every place is in one of the batches.
LEMMA Sliced ==
  ASSUME NEW c \in Caller, NEW places \in SUBSET DOMAIN Asks[c]
  PROVE  /\ BatchCount(places) \in Nat
         /\ \A p \in places : \E k \in 1..BatchCount(places) : p \in Slice(places, k)
<1>1. /\ Asks[c] \in Seq(Item) /\ Batch \in Nat \ {0}
      /\ Len(Asks[c]) \in Nat /\ DOMAIN Asks[c] = 1..Len(Asks[c])
  BY JudgingAssumption, LenProperties
<1>2. IsFiniteSet(places)
  <2>1. IsFiniteSet(1..Len(Asks[c])) BY <1>1, FS_Interval
  <2> QED BY <1>1, <2>1, FS_Subset
<1>3. Cardinality(places) \in Nat BY <1>2, FS_CardinalityType
<1>4. ASSUME NEW p \in places
      PROVE  /\ BatchCount(places) \in Nat
             /\ \E k \in 1..BatchCount(places) : p \in Slice(places, k)
  <2> DEFINE before == {q \in places : q < p}
             m == Cardinality(before) \div Batch
  <2>1. before \in SUBSET places /\ before # places BY <1>1
  <2>2. IsFiniteSet(before) /\ Cardinality(before) <= Cardinality(places)
        /\ Cardinality(before) # Cardinality(places)
    BY <1>2, <2>1, FS_Subset
  <2>3. Cardinality(before) \in Nat BY <2>2, FS_CardinalityType
  <2>4. Cardinality(before) < Cardinality(places) BY <1>3, <2>2, <2>3
  <2>5. m \in Nat /\ BatchCount(places) \in Nat /\ m < BatchCount(places)
    BY <1>1, <1>3, <2>3, <2>4, Division DEF BatchCount
  <2>6. m + 1 \in 1..BatchCount(places) /\ m = (m + 1) - 1 BY <2>5
  <2>7. p \in Slice(places, m + 1) BY <2>6 DEF Slice
  <2> QED BY <2>5, <2>6, <2>7
<1>5. CASE places = {}
  <2>1. Cardinality(places) = 0 BY <1>5, FS_EmptySet
  <2>2. (0 + Batch - 1) \div Batch \in Nat BY <1>1
  <2> QED BY <1>5, <2>1, <2>2 DEF BatchCount
<1> QED BY <1>4, <1>5

\* The calls of a caller before any of them went.
Unsent(s) ==
  \A k \in DOMAIN s : /\ s[k].state = IF k = 1 THEN "waiting" ELSE "held"
                      /\ s[k].valid = {} /\ s[k].junk = {} /\ ~s[k].refused

\* The batches are calls, the first of which may go, and hold all the items.
LEMMA Batched ==
  ASSUME NEW c \in Caller, NEW open \in SUBSET DOMAIN Asks[c]
  PROVE  /\ Batches(c, open) \in Seq(CallRow) /\ Unsent(Batches(c, open))
         /\ open # {} => DOMAIN Batches(c, open) # {}
         /\ \A i \in Items(c, open) :
              \E k \in DOMAIN Batches(c, open) : i \in Batches(c, open)[k].items
<1> DEFINE row(k) == Call(Items(c, Slice(open, k)), IF k = 1 THEN "waiting" ELSE "held")
<1>0. /\ Asks[c] \in Seq(Item) /\ DOMAIN Asks[c] = 1..Len(Asks[c])
      /\ \A p \in DOMAIN Asks[c] : Asks[c][p] \in Item
  BY JudgingAssumption, LenProperties, ElementOfSeq
<1>1. BatchCount(open) \in Nat BY Sliced
<1>2. \A k \in 1..BatchCount(open) : row(k) \in CallRow
  BY <1>0 DEF Call, CallRow, CallState, Items, Slice
<1>3. Batches(c, open) = [k \in 1..BatchCount(open) |-> row(k)] BY DEF Batches
<1>4. /\ \A k \in 1..BatchCount(open) :
           /\ row(k).state = IF k = 1 THEN "waiting" ELSE "held"
           /\ row(k).valid = {} /\ row(k).junk = {} /\ row(k).refused = FALSE
           /\ row(k).items = Items(c, Slice(open, k))
  BY DEF Call
<1> HIDE DEF row
<1>5. Batches(c, open) \in Seq(CallRow) BY <1>1, <1>2, <1>3, IsASeq
<1>6. DOMAIN Batches(c, open) = 1..BatchCount(open) BY <1>3
<1>7. \A i \in Items(c, open) :
         \E k \in DOMAIN Batches(c, open) : i \in Batches(c, open)[k].items
  <2> SUFFICES ASSUME NEW p \in open
               PROVE  \E k \in 1..BatchCount(open) : Asks[c][p] \in row(k).items
    BY <1>3, <1>6 DEF Items
  <2>1. PICK k \in 1..BatchCount(open) : p \in Slice(open, k) BY Sliced
  <2> QED BY <1>4, <2>1 DEF Items
<1>8. open # {} => DOMAIN Batches(c, open) # {} BY <1>6, Sliced
<1>9. Unsent(Batches(c, open)) BY <1>3, <1>4, <1>6 DEF Unsent
<1> QED BY <1>5, <1>7, <1>8, <1>9

-----------------------------------------------------------------------------
(* Frames.                                                                 *)

LEMMA Rows ==
  ASSUME JTyped, NEW c \in Caller
  PROVE  /\ visit[c] \in VisitRow /\ calls[c] \in Seq(CallRow)
         /\ Len(calls[c]) \in Nat /\ DOMAIN calls[c] = 1..Len(calls[c])
         /\ \A k \in DOMAIN calls[c] : calls[c][k] \in CallRow
         /\ calls[c] # <<>> => 1 \in DOMAIN calls[c]
<1>1. visit[c] \in VisitRow /\ calls[c] \in Seq(CallRow) BY DEF JTyped
<1> QED BY <1>1, LenProperties, ElementOfSeq, EmptySeq

\* A step of one caller does nothing to what another relies on.
LEMMA Elsewhere ==
  ASSUME JInv, JTyped', CacheTold', NEW c \in Caller,
         \A d \in Caller \ {c} : visit'[d] = visit[d] /\ calls'[d] = calls[d],
         told \subseteq told', LatchGoes, CallerFits(c)'
  PROVE  JInv'
<1> SUFFICES ASSUME NEW d \in Caller \ {c} PROVE CallerFits(d)'
  BY DEF JInv
<1>1. CallerFits(d) /\ visit'[d] = visit[d] /\ calls'[d] = calls[d] BY DEF JInv
<1>2. \A i, v : Ruled(i, v) => Ruled(i, v)' BY DEF Ruled
<1>3. \A k \in DOMAIN calls'[d] : Vouched(calls[d][k])'
  BY <1>1, <1>2 DEF CallerFits, Vouched
<1>4. FirstAlone(d)' /\ Asked(d)' BY <1>1 DEF CallerFits, FirstAlone, Asked, Doing
<1>5. ~reopened' => Trusted(d)'
  BY <1>1, <1>2 DEF CallerFits, Trusted, Accounted, Underway, LatchGoes
<1>6. ~reopened' => Broken(d)' BY <1>1 DEF CallerFits, Broken, LatchGoes
<1> QED BY <1>1, <1>3, <1>4, <1>5, <1>6 DEF CallerFits

\* A call that goes on, with the items it has.
LEMMA CallMoves ==
  ASSUME JInv, NEW c \in Caller, NEW k \in DOMAIN calls[c], NEW r \in CallRow,
         calls' = [calls EXCEPT ![c] = [calls[c] EXCEPT ![k] = r]],
         r.items = calls[c][k].items,
         r.state \notin {"held", "applied"}, calls[c][k].state \notin {"held", "applied"},
         visit' = visit, cache' = cache, reopened' = reopened,
         told \subseteq told', latch' \in {latch, "no"},
         \A i \in r.valid : <<i, "valid">> \in told',
         \A i \in r.junk : <<i, "junk">> \in told',
         r.refused => calls[c][k].refused \/ latch' = "no"
  PROVE  JInv'
<1>0. /\ JTyped /\ CallerFits(c) /\ calls[c] \in Seq(CallRow)
      /\ calls \in [Caller -> Seq(CallRow)]
      /\ DOMAIN calls[c] = 1..Len(calls[c]) /\ Len(calls[c]) \in Nat
  BY Rows DEF JInv, JTyped
<1> DEFINE s == [calls[c] EXCEPT ![k] = r]
<1>1. /\ s \in Seq(CallRow) /\ Len(s) = Len(calls[c])
      /\ \A j \in DOMAIN calls[c] : s[j] = IF j = k THEN r ELSE calls[c][j]
  BY <1>0, ExceptSeq
<1>2. DOMAIN s = DOMAIN calls[c] OBVIOUS
<1>3. calls' = [calls EXCEPT ![c] = s] OBVIOUS
<1> HIDE DEF s
<1>4. calls'[c] = s /\ \A d \in Caller \ {c} : calls'[d] = calls[d] BY <1>0, <1>3
<1>5. JTyped' BY <1>0, <1>1, <1>3 DEF JTyped
<1>6. \A i, v : Ruled(i, v) => Ruled(i, v)' BY DEF Ruled
<1>7. CacheTold' BY <1>6 DEF JInv, CacheTold
<1>8. LatchGoes BY <1>0 DEF LatchGoes
<1>9. \A j \in DOMAIN calls'[c] : Vouched(calls[c][j])'
  BY <1>0, <1>1, <1>2, <1>4, <1>6 DEF CallerFits, Vouched, Ruled
<1>10. calls[c] # <<>> /\ s # <<>> /\ 1 \in DOMAIN s
  <2>1. DOMAIN s # {} /\ 1 \in DOMAIN s BY <1>0, <1>2
  <2> QED BY <1>2, <2>1, EmptySeq
<1>11. FirstAlone(c)'
  <2>0. FirstAlone(c) /\ calls'[c] = s /\ s # <<>> /\ calls[c] # <<>>
        /\ \A f : Doing(c, f)' <=> Doing(c, f)
    BY <1>0, <1>4, <1>10 DEF CallerFits, Doing
  <2>1. CASE k = 1
    <3>0. 1 \in DOMAIN calls[c] /\ 2..Len(s) \subseteq DOMAIN calls[c] \ {1}
      BY <1>0, <1>1, <2>1
    <3>1. s[1] = r /\ \A j \in 2..Len(s) : s[j] = calls[c][j]
      BY <1>1, <2>1, <3>0
    <3>2. r.state # "applied" /\ calls[c][1].state # "applied" BY <2>1
    <3> QED BY <1>1, <2>0, <3>1, <3>2 DEF FirstAlone
  <2>2. CASE k # 1
    <3>1. s[1] = calls[c][1] BY <1>0, <1>1, <1>2, <1>10, <2>2
    <3>2. k \in 2..Len(calls[c]) /\ calls[c][k].state # "held" BY <1>0, <2>2
    <3>3. calls[c][1].state = "applied" BY <2>0, <3>2 DEF FirstAlone
    <3> QED BY <2>0, <3>1, <3>3 DEF FirstAlone
  <2> QED BY <2>1, <2>2
<1>12. Asked(c)' BY <1>0 DEF CallerFits, Asked
<1>13. ASSUME ~reopened' PROVE Trusted(c)'
  <2>1. \A i : Underway(c, i) => Underway(c, i)'
    BY <1>0, <1>1, <1>2, <1>4 DEF Underway
  <2>2. \A i : Accounted(c, i) => Accounted(c, i)' BY <1>6, <2>1 DEF Accounted
  <2> QED BY <1>0, <1>6, <1>13, <2>2 DEF CallerFits, Trusted
<1>14. ASSUME ~reopened' PROVE Broken(c)'
  <2> SUFFICES ASSUME s[1].refused
               PROVE  latch' = "no" /\ \A j \in 2..Len(s) : s[j].state = "held"
    BY <1>4 DEF Broken
  <2>1. CASE k = 1
    <3>1. s[1] = r /\ calls[c][1].state # "applied" BY <1>0, <1>1, <2>1
    <3>2. latch' = "no" BY <1>0, <1>10, <1>14, <2>1, <3>1 DEF CallerFits, Broken
    <3> QED BY <1>0, <1>1, <1>2, <1>10, <2>1, <3>1, <3>2 DEF CallerFits, FirstAlone
  <2>2. CASE k # 1
    <3>1. s[1] = calls[c][1] BY <1>0, <1>1, <1>2, <1>10, <2>2
    <3>2. calls[c][k].state = "held"
      BY <1>0, <1>10, <1>14, <2>2, <3>1 DEF CallerFits, Broken
    <3> QED BY <3>2
  <2> QED BY <2>1, <2>2
<1>15. CallerFits(c)' BY <1>9, <1>11, <1>12, <1>13, <1>14 DEF CallerFits
<1> QED BY <1>4, <1>5, <1>7, <1>8, <1>15, Elsewhere

-----------------------------------------------------------------------------
(* Action by action.                                                       *)

LEMMA JudgingStarts == JudgingInit => JInv
<1> SUFFICES ASSUME JudgingInit PROVE JInv
  OBVIOUS
<1>0. /\ <<>> \in Seq(CallRow) /\ DOMAIN <<>> = {} BY EmptySeq
<1>1. \A c \in Caller : Asks[c] \in Seq(Item) BY JudgingAssumption
<1>2. JTyped
  <2>1. \A c \in Caller : [phase |-> "start", kept |-> {}, todo |-> Asks[c],
                           in |-> {}, out |-> {}] \in VisitRow
    BY <1>1 DEF VisitRow
  <2> QED BY <1>0, <2>1 DEF JudgingInit, JTyped, Verdict
<1>3. CacheTold BY DEF JudgingInit, CacheTold
<1>4. ASSUME NEW c \in Caller PROVE CallerFits(c)
  <2>1. /\ visit[c] = [phase |-> "start", kept |-> {}, todo |-> Asks[c],
                       in |-> {}, out |-> {}]
        /\ calls[c] = <<>>
    BY <1>4 DEF JudgingInit
  <2>2. visit[c].phase = "start" /\ visit[c].kept = {} /\ visit[c].in = {}
        /\ visit[c].out = {} /\ visit[c].todo = Asks[c]
    BY <2>1
  <2>3. Asked(c) BY <2>2 DEF Asked, ToSet
  <2>4. FirstAlone(c) /\ Broken(c) BY <2>1, <2>2 DEF FirstAlone, Broken, Doing
  <2>5. Trusted(c) BY <2>2 DEF Trusted
  <2> QED BY <1>0, <2>1, <2>3, <2>4, <2>5 DEF CallerFits
<1> QED BY <1>2, <1>3, <1>4 DEF JInv

\* A caller that changes no calls and keeps its promises.
LEMMA VisitMoves ==
  ASSUME JInv, NEW c \in Caller, NEW v \in VisitRow,
         visit' = [visit EXCEPT ![c] = v], UNCHANGED <<cache, calls, told>>,
         latch' \in {"unset", "yes", "no"}, reopened' \in BOOLEAN, LatchGoes,
         v.phase \notin {"judge", "rest"},
         \A j \in DOMAIN v.todo : v.todo[j] \in ToSet(Asks[c]),
         ~reopened' => Trusted(c)'
  PROVE  JInv'
<1>0. JTyped /\ CallerFits(c) /\ visit \in [Caller -> VisitRow]
  BY DEF JInv, JTyped
<1>1. visit'[c] = v /\ \A d \in Caller \ {c} : visit'[d] = visit[d] BY <1>0
<1>2. JTyped' BY <1>0 DEF JTyped
<1>3. CacheTold' BY DEF JInv, CacheTold, Ruled
<1>4. FirstAlone(c)' BY <1>0, <1>1 DEF CallerFits, FirstAlone, Doing
<1>5. Asked(c)' BY <1>1 DEF Asked
<1>6. \A k \in DOMAIN calls'[c] : Vouched(calls[c][k])'
  BY <1>0 DEF CallerFits, Vouched, Ruled
<1>7. ~reopened' => Broken(c)' BY <1>0 DEF CallerFits, Broken, LatchGoes
<1>8. CallerFits(c)' BY <1>4, <1>5, <1>6, <1>7 DEF CallerFits
<1> QED BY <1>1, <1>2, <1>3, <1>8, Elsewhere

LEMMA CheckKeeps ==
  ASSUME JInv, NEW c \in Caller, Check(c) \/ Settle(c)
  PROVE  JInv'
<1>0. JTyped /\ CallerFits(c) /\ visit[c] \in VisitRow BY Rows DEF JInv
<1> DEFINE row(p) == [visit[c] EXCEPT !.phase = p]
<1>1. ASSUME NEW p \in {"settle", "submit", "use"}
      PROVE  /\ row(p) \in VisitRow /\ row(p).phase = p
             /\ row(p).todo = visit[c].todo /\ row(p).kept = visit[c].kept
             /\ row(p).in = visit[c].in /\ row(p).out = visit[c].out
  BY <1>0 DEF VisitRow
<1> HIDE DEF row
<1>2. PICK p \in {"settle", "submit", "use"} :
        /\ visit' = [visit EXCEPT ![c] = row(p)]
        /\ p = "use" => latch = "no" /\ latch' = latch
  <2>1. CASE Check(c) BY <1>0, <2>1 DEF Check, row
  <2>2. CASE Settle(c) BY <1>0, <2>2 DEF Settle, row
  <2> QED BY <2>1, <2>2
<1>3. /\ UNCHANGED <<cache, calls, told>> /\ LatchGoes
      /\ latch' \in {"unset", "yes", "no"} /\ reopened' \in BOOLEAN
  BY <1>0 DEF Check, Settle, model, JTyped, LatchGoes
<1>4. \A j \in DOMAIN row(p).todo : row(p).todo[j] \in ToSet(Asks[c])
  BY <1>0, <1>1 DEF CallerFits, Asked
<1>5. ASSUME ~reopened' PROVE Trusted(c)'
  <2>1. Trusted(c) BY <1>0, <1>3, <1>5 DEF CallerFits, LatchGoes
  <2>2. visit'[c] = row(p) BY <1>0, <1>2 DEF JTyped
  <2> QED BY <1>1, <1>2, <1>3, <2>1, <2>2 DEF Trusted, Ruled
<1> QED BY <1>1, <1>2, <1>3, <1>4, <1>5, VisitMoves

LEMMA SubmitKeeps ==
  ASSUME JInv, NEW c \in Caller, Submit(c)
  PROVE  JInv'
<1> DEFINE real == {p \in DOMAIN Asks[c] : Asks[c][p] \notin Noise}
           left == {p \in real : cache[Asks[c][p]] = "none"}
           s == IF latch = "no" THEN <<>> ELSE Batches(c, left)
           kept == IF latch = "no" THEN Default(c, Items(c, real))
                   ELSE {i \in Items(c, real) : cache[i] = "valid"}
           phase == IF latch = "no" \/ left = {} THEN "use" ELSE "judge"
           v == [visit[c] EXCEPT !.kept = kept, !.phase = phase]
<1>0. /\ JTyped /\ CacheTold /\ CallerFits(c) /\ visit[c] \in VisitRow
      /\ visit \in [Caller -> VisitRow] /\ calls \in [Caller -> Seq(CallRow)]
      /\ cache \in [Item -> Verdict]
      /\ \A p \in DOMAIN Asks[c] : Asks[c][p] \in Item
  BY Rows, JudgingAssumption, ElementOfSeq, LenProperties DEF JInv, JTyped
<1>1. /\ visit' = [visit EXCEPT ![c] = v] /\ calls' = [calls EXCEPT ![c] = s]
      /\ UNCHANGED <<latch, reopened, cache, told>>
  BY <1>0 DEF Submit, model
<1>2. kept \in SUBSET Item BY <1>0 DEF Default, Items
<1>3. phase \in {"use", "judge"} /\ (phase = "judge" <=> latch # "no" /\ left # {})
  OBVIOUS
<1>4. left \in SUBSET DOMAIN Asks[c] OBVIOUS
<1>5. /\ s \in Seq(CallRow) /\ Unsent(s) /\ (phase = "judge" => DOMAIN s # {})
  <2>1. CASE latch = "no"
    <3>1. s = <<>> /\ phase = "use" BY <2>1
    <3>2. <<>> \in Seq(CallRow) /\ DOMAIN <<>> = {} BY EmptySeq
    <3> QED BY <3>1, <3>2 DEF Unsent
  <2>2. CASE latch # "no"
    <3>1. s = Batches(c, left) BY <2>2
    <3>2. Batches(c, left) \in Seq(CallRow) /\ Unsent(Batches(c, left))
      BY <1>4, Batched
    <3>3. left # {} => DOMAIN Batches(c, left) # {} BY <1>4, Batched
    <3> QED BY <1>3, <3>1, <3>2, <3>3
  <2> QED BY <2>1, <2>2
<1>6. latch # "no" =>
        \A i \in Items(c, left) : \E k \in DOMAIN s : i \in s[k].items
  BY <1>4, Batched
<1>7. c \in Labels => \A i \in kept : Ruled(i, "valid")
  BY <1>0 DEF CacheTold, Default, Items
<1>8. latch # "no" =>
        \A i \in ToSet(Asks[c]) \ Noise :
          i \in kept \/ Ruled(i, "junk") \/ (left # {} /\ i \in Items(c, left))
  <2> SUFFICES ASSUME latch # "no", NEW p \in real
               PROVE  \/ Asks[c][p] \in kept \/ Ruled(Asks[c][p], "junk")
                      \/ left # {} /\ Asks[c][p] \in Items(c, left)
    BY DEF ToSet
  <2>1. Asks[c][p] \in Item /\ Asks[c][p] \in Items(c, real) BY <1>0 DEF Items
  <2>2. CASE cache[Asks[c][p]] = "none"
    <3>1. p \in left BY <2>2
    <3> QED BY <3>1 DEF Items
  <2>3. CASE cache[Asks[c][p]] = "valid" BY <2>1, <2>3
  <2>4. CASE cache[Asks[c][p]] = "junk" BY <1>0, <2>1, <2>4 DEF CacheTold
  <2> QED BY <1>0, <2>1, <2>2, <2>3, <2>4 DEF Verdict
<1> HIDE DEF s, kept, phase, left, real
<1>9. /\ v \in VisitRow /\ v.kept = kept /\ v.phase = phase
      /\ v.todo = visit[c].todo /\ v.in = visit[c].in /\ v.out = visit[c].out
  BY <1>0, <1>2, <1>3 DEF VisitRow
<1> HIDE DEF v
<1>10. /\ visit'[c] = v /\ calls'[c] = s
       /\ \A d \in Caller \ {c} : visit'[d] = visit[d] /\ calls'[d] = calls[d]
  BY <1>0, <1>1
<1>11. /\ DOMAIN s = 1..Len(s) /\ Len(s) \in Nat /\ (s # <<>> => 1 \in DOMAIN s)
       /\ phase = "judge" => s # <<>>
  BY <1>5, LenProperties, EmptySeq
<1>12. JTyped' BY <1>0, <1>1, <1>5, <1>9 DEF JTyped
<1>13. CacheTold' BY <1>0, <1>1 DEF CacheTold, Ruled
<1>14. \A k \in DOMAIN calls'[c] : Vouched(calls[c][k])'
  BY <1>5, <1>10 DEF Vouched, Unsent
<1>15. FirstAlone(c)'
  <2>1. \A k \in 2..Len(s) : s[k].state = "held" BY <1>5, <1>11 DEF Unsent
  <2>2. s # <<>> => s[1].state # "applied" BY <1>5, <1>11 DEF Unsent
  <2> QED BY <1>3, <1>9, <1>10, <1>11, <2>1, <2>2 DEF FirstAlone, Doing
<1>16. Asked(c)' BY <1>0, <1>9, <1>10 DEF CallerFits, Asked
<1>17. ASSUME ~reopened' PROVE Trusted(c)'
  <2>1. Trusted(c) BY <1>0, <1>1, <1>17 DEF CallerFits
  <2>2. c \in Labels => \A i \in visit'[c].kept \cup visit'[c].in : Ruled(i, "valid")'
    BY <1>1, <1>7, <1>9, <1>10, <2>1 DEF Trusted, Ruled
  <2>3. ASSUME latch # "no", NEW i \in ToSet(Asks[c]) \ Noise PROVE Accounted(c, i)'
    <3>1. CASE i \in kept \/ Ruled(i, "junk")
      BY <1>1, <1>9, <1>10, <3>1 DEF Accounted, Ruled
    <3>2. CASE left # {} /\ i \in Items(c, left)
      <4>1. PICK k \in DOMAIN s : i \in s[k].items BY <1>6, <2>3, <3>2
      <4>2. s[k].state # "applied" /\ phase = "judge" BY <1>3, <1>5, <2>3, <3>2 DEF Unsent
      <4> QED BY <1>9, <1>10, <4>1, <4>2 DEF Accounted, Underway
    <3> QED BY <1>8, <2>3, <3>1, <3>2
  <2>4. c \notin Labels => \A i \in visit'[c].out \ Noise : Ruled(i, "junk")'
    BY <1>1, <1>9, <1>10, <2>1 DEF Trusted, Ruled
  <2> QED BY <1>1, <2>2, <2>3, <2>4 DEF Trusted
<1>18. Broken(c)' BY <1>5, <1>10, <1>11 DEF Broken, Unsent
<1>19. CallerFits(c)' BY <1>14, <1>15, <1>16, <1>17, <1>18 DEF CallerFits
<1>20. LatchGoes /\ told \subseteq told' BY <1>1 DEF LatchGoes
<1> QED BY <1>10, <1>12, <1>13, <1>19, <1>20, Elsewhere

LEMMA CallKeeps ==
  ASSUME JInv, NEW c \in Caller, NEW k,
         Send(c, k) \/ Answer(c, k) \/ Fail(c, k) \/ Refuse(c, k)
  PROVE  JInv'
<1>0. /\ JTyped /\ CallerFits(c) /\ k \in DOMAIN calls[c] /\ calls[c][k] \in CallRow
      /\ calls[c] \in Seq(CallRow) /\ calls \in [Caller -> Seq(CallRow)]
      /\ Vouched(calls[c][k]) /\ latch' \in {latch, "no"}
      /\ UNCHANGED <<reopened, visit, cache>>
  BY Rows DEF JInv, JTyped, CallerFits, Send, Answer, Fail, Refuse, model
<1>1. ASSUME Send(c, k) PROVE JInv'
  <2> DEFINE r == [calls[c][k] EXCEPT !.state = IF revoked THEN "doomed" ELSE "asking"]
  <2>1. /\ r \in CallRow /\ r.items = calls[c][k].items /\ r.refused = calls[c][k].refused
        /\ r.state \in {"doomed", "asking"}
        /\ r.valid = calls[c][k].valid /\ r.junk = calls[c][k].junk
    BY <1>0 DEF CallRow, CallState
  <2>2. calls' = [calls EXCEPT ![c] = [calls[c] EXCEPT ![k] = r]]
    BY <1>0, <1>1 DEF Send
  <2>3. calls[c][k].state = "waiting" /\ told' = told BY <1>1 DEF Send
  <2> HIDE DEF r
  <2>4. /\ \A i \in r.valid : <<i, "valid">> \in told'
        /\ \A i \in r.junk : <<i, "junk">> \in told'
    BY <1>0, <2>1, <2>3 DEF Vouched, Ruled
  <2> QED BY <1>0, <2>1, <2>2, <2>3, <2>4, CallMoves
<1>2. ASSUME Answer(c, k) PROVE JInv'
  <2>0. PICK valid \in SUBSET calls[c][k].items :
          \E junk \in SUBSET (calls[c][k].items \ valid) :
            /\ calls' = [calls EXCEPT ![c][k].state = "done", ![c][k].valid = valid,
                                      ![c][k].junk = junk]
            /\ told' = told \cup (valid \X {"valid"}) \cup (junk \X {"junk"})
    BY <1>2 DEF Answer
  <2>1. PICK junk \in SUBSET (calls[c][k].items \ valid) :
          /\ calls' = [calls EXCEPT ![c][k].state = "done", ![c][k].valid = valid,
                                    ![c][k].junk = junk]
          /\ told' = told \cup (valid \X {"valid"}) \cup (junk \X {"junk"})
    BY <2>0
  <2> DEFINE r == [calls[c][k] EXCEPT !.state = "done", !.valid = valid, !.junk = junk]
  <2>2. /\ r \in CallRow /\ r.items = calls[c][k].items /\ r.refused = calls[c][k].refused
        /\ r.state = "done" /\ r.valid = valid /\ r.junk = junk
    BY <1>0 DEF CallRow, CallState
  <2>3. calls' = [calls EXCEPT ![c] = [calls[c] EXCEPT ![k] = r]]
    BY <1>0, <2>1
  <2>4. calls[c][k].state = "asking" BY <1>2 DEF Answer
  <2> HIDE DEF r
  <2>5. /\ \A i \in r.valid : <<i, "valid">> \in told'
        /\ \A i \in r.junk : <<i, "junk">> \in told'
    BY <2>1, <2>2
  <2>6. told \subseteq told' BY <2>1
  <2> QED BY <1>0, <2>2, <2>3, <2>4, <2>5, <2>6, CallMoves
<1>3. ASSUME Fail(c, k) PROVE JInv'
  <2> DEFINE r == [calls[c][k] EXCEPT !.state = "done"]
  <2>1. /\ r \in CallRow /\ r.items = calls[c][k].items /\ r.refused = calls[c][k].refused
        /\ r.state = "done" /\ r.valid = calls[c][k].valid /\ r.junk = calls[c][k].junk
    BY <1>0 DEF CallRow, CallState
  <2>2. calls' = [calls EXCEPT ![c] = [calls[c] EXCEPT ![k] = r]]
    BY <1>0, <1>3 DEF Fail
  <2>3. calls[c][k].state = "asking" /\ told' = told BY <1>3 DEF Fail
  <2> HIDE DEF r
  <2>4. /\ \A i \in r.valid : <<i, "valid">> \in told'
        /\ \A i \in r.junk : <<i, "junk">> \in told'
    BY <1>0, <2>1, <2>3 DEF Vouched, Ruled
  <2> QED BY <1>0, <2>1, <2>2, <2>3, <2>4, CallMoves
<1>4. ASSUME Refuse(c, k) PROVE JInv'
  <2> DEFINE r == [calls[c][k] EXCEPT !.state = "done", !.refused = TRUE]
  <2>1. /\ r \in CallRow /\ r.items = calls[c][k].items
        /\ r.state = "done" /\ r.valid = calls[c][k].valid /\ r.junk = calls[c][k].junk
    BY <1>0 DEF CallRow, CallState
  <2>2. calls' = [calls EXCEPT ![c] = [calls[c] EXCEPT ![k] = r]]
    BY <1>0, <1>4 DEF Refuse
  <2>3. calls[c][k].state = "doomed" /\ told' = told /\ latch' = "no"
    BY <1>4 DEF Refuse
  <2> HIDE DEF r
  <2>4. /\ \A i \in r.valid : <<i, "valid">> \in told'
        /\ \A i \in r.junk : <<i, "junk">> \in told'
    BY <1>0, <2>1, <2>3 DEF Vouched, Ruled
  <2> QED BY <1>0, <2>1, <2>2, <2>3, <2>4, CallMoves
<1> QED BY <1>1, <1>2, <1>3, <1>4

\* What the answers leave in the cache and in the caller's hands was said.
LEMMA Told ==
  ASSUME JTyped, CacheTold, NEW call \in CallRow, Vouched(call)
  PROVE  /\ Cached(call) \in [Item -> Verdict]
         /\ \A i \in Item : Cached(call)[i] # "none" => Ruled(i, Cached(call)[i])
         /\ \A c \in Caller :
              /\ Kept(c, call) \in SUBSET Item
              /\ c \in Labels => \A i \in Kept(c, call) : Ruled(i, "valid")
              /\ c \notin Labels =>
                   \A i \in call.items : i \in Kept(c, call) \/ Ruled(i, "junk")
BY DEF JTyped, CacheTold, CallRow, Vouched, Cached, Kept, Filtered, Labelled, Verdict

LEMMA ApplyFirstKeeps ==
  ASSUME JInv, NEW c \in Caller, ApplyFirst(c)
  PROVE  JInv'
<1> DEFINE call == calls[c][1]
           rest == 2..Len(calls[c])
           stop == rest = {} \/ latch = "no"
           kept == visit[c].kept \cup Kept(c, call)
                     \cup IF stop THEN Default(c, UNION {calls[c][k].items : k \in rest})
                          ELSE {}
           phase == IF stop THEN "use" ELSE "rest"
           row(k) == IF k # 1 /\ stop THEN calls[c][k]
                     ELSE [calls[c][k] EXCEPT !.state = IF k = 1 THEN "applied"
                                                        ELSE "waiting"]
           s == [k \in DOMAIN calls[c] |-> row(k)]
           v == [visit[c] EXCEPT !.kept = kept, !.phase = phase]
<1>0. /\ JTyped /\ CacheTold /\ CallerFits(c) /\ visit[c] \in VisitRow
      /\ visit \in [Caller -> VisitRow] /\ calls \in [Caller -> Seq(CallRow)]
      /\ Len(calls[c]) \in Nat /\ DOMAIN calls[c] = 1..Len(calls[c])
      /\ \A k \in DOMAIN calls[c] : calls[c][k] \in CallRow
  BY Rows DEF JInv, JTyped
<1>1. /\ Doing(c, "judge") /\ calls[c] # <<>> /\ 1 \in DOMAIN calls[c]
      /\ call \in CallRow /\ Vouched(call) /\ call.state = "done"
  BY <1>0, Rows DEF ApplyFirst, CallerFits, FirstAlone
<1>2. /\ visit' = [visit EXCEPT ![c] = v] /\ calls' = [calls EXCEPT ![c] = s]
      /\ cache' = Cached(call) /\ UNCHANGED <<latch, reopened, told>>
  BY <1>0 DEF ApplyFirst, model
<1>3. /\ phase \in {"use", "rest"} /\ (phase = "use" <=> stop)
      /\ (~stop => latch # "no") /\ (latch # "no" => (stop <=> rest = {}))
  OBVIOUS
<1>4. kept \in SUBSET Item
  <2>1. \A k \in rest : calls[c][k].items \in SUBSET Item BY <1>0 DEF CallRow
  <2>2. visit[c].kept \in SUBSET Item BY <1>0 DEF VisitRow
  <2>3. Kept(c, call) \in SUBSET Item BY <1>0, <1>1, Told
  <2> QED BY <2>1, <2>2, <2>3 DEF Default
<1>5. \A k \in DOMAIN calls[c] :
        /\ row(k) \in CallRow /\ row(k).items = calls[c][k].items
        /\ row(k).valid = calls[c][k].valid /\ row(k).junk = calls[c][k].junk
        /\ row(k).refused = calls[c][k].refused
        /\ k = 1 => row(k).state = "applied"
        /\ k # 1 /\ stop => row(k).state = calls[c][k].state
        /\ k # 1 /\ ~stop => row(k).state = "waiting"
  BY <1>0 DEF CallRow, CallState
<1>6. /\ visit[c].kept \cup Kept(c, call) \subseteq kept
      /\ c \in Labels => kept = visit[c].kept \cup Kept(c, call)
  BY DEF Default
<1> HIDE DEF row, kept, phase
<1>7. /\ s \in Seq(CallRow) /\ Len(s) = Len(calls[c]) /\ DOMAIN s = DOMAIN calls[c]
      /\ \A k \in DOMAIN calls[c] : s[k] = row(k)
  <2>1. s = [k \in 1..Len(calls[c]) |-> row(k)] BY <1>0
  <2>2. s \in Seq(CallRow) BY <1>0, <1>5, <2>1, IsASeq
  <2> QED BY <1>0, <2>2, LenProperties
<1> HIDE DEF s
<1>8. /\ v \in VisitRow /\ v.kept = kept /\ v.phase = phase
      /\ v.todo = visit[c].todo /\ v.in = visit[c].in /\ v.out = visit[c].out
  BY <1>0, <1>3, <1>4 DEF VisitRow
<1> HIDE DEF v, stop
<1>9. /\ visit'[c] = v /\ calls'[c] = s
      /\ \A d \in Caller \ {c} : visit'[d] = visit[d] /\ calls'[d] = calls[d]
  BY <1>0, <1>2
<1>10. JTyped'
  <2>1. Cached(call) \in [Item -> Verdict] BY <1>0, <1>1, Told
  <2> QED BY <1>0, <1>2, <1>7, <1>8, <2>1 DEF JTyped
<1>11. CacheTold'
  <2>1. \A i \in Item : Cached(call)[i] # "none" => Ruled(i, Cached(call)[i])
    BY <1>0, <1>1, Told
  <2> QED BY <1>2, <2>1 DEF CacheTold, Ruled
<1>12. \A k \in DOMAIN calls'[c] : Vouched(calls[c][k])'
  BY <1>0, <1>2, <1>5, <1>7, <1>9 DEF CallerFits, Vouched, Ruled
<1>13. FirstAlone(c)'
  <2>1. s # <<>> /\ s[1].state = "applied"
    BY <1>1, <1>5, <1>7, EmptySeq
  <2> QED BY <1>3, <1>8, <1>9, <2>1 DEF FirstAlone, Doing
<1>14. Asked(c)' BY <1>0, <1>8, <1>9 DEF CallerFits, Asked
<1>15. ASSUME ~reopened' PROVE Trusted(c)'
  <2>1. Trusted(c) /\ told' = told /\ latch' = latch
    BY <1>0, <1>2, <1>15 DEF CallerFits
  <2>2. c \in Labels => \A i \in v.kept \cup v.in : Ruled(i, "valid")
    <3>1. c \in Labels => \A i \in Kept(c, call) : Ruled(i, "valid")
      BY <1>0, <1>1, Told
    <3> QED BY <1>6, <1>8, <2>1, <3>1 DEF Trusted
  <2>3. ASSUME c \notin Labels, latch # "no", NEW i \in ToSet(Asks[c]) \ Noise
        PROVE  Accounted(c, i)'
    <3>1. Accounted(c, i) BY <1>1, <2>1, <2>3 DEF Trusted, Doing
    <3>2. CASE i \in kept \/ Ruled(i, "junk")
      BY <1>8, <1>9, <2>1, <3>2 DEF Accounted, Ruled
    <3>3. CASE Underway(c, i) /\ i \notin kept /\ ~Ruled(i, "junk")
      <4>1. PICK k \in DOMAIN calls[c] : i \in calls[c][k].items
        BY <3>3 DEF Underway
      <4>2. k # 1 BY <1>0, <1>1, <1>6, <2>3, <3>3, <4>1, Told
      <4>3. k \in rest BY <1>0, <4>1, <4>2
      <4>4. ~stop BY <1>3, <2>3, <4>3
      <4>5. s[k].state = "waiting" /\ i \in s[k].items
        BY <1>5, <1>7, <4>1, <4>2, <4>4
      <4> QED BY <1>3, <1>7, <1>8, <1>9, <4>4, <4>5 DEF Accounted, Underway
    <3> QED BY <1>6, <3>1, <3>2, <3>3 DEF Accounted
  <2>4. c \notin Labels => \A i \in v.out \ Noise : Ruled(i, "junk")
    BY <1>8, <2>1 DEF Trusted
  <2> QED BY <1>9, <2>1, <2>2, <2>3, <2>4 DEF Trusted, Ruled
<1>16. ASSUME ~reopened' PROVE Broken(c)'
  <2> SUFFICES ASSUME s[1].refused
               PROVE  latch = "no" /\ \A k \in 2..Len(s) : s[k].state = "held"
    BY <1>2, <1>9 DEF Broken
  <2>1. calls[c][1].refused BY <1>1, <1>5, <1>7
  <2>2. latch = "no" /\ \A k \in 2..Len(calls[c]) : calls[c][k].state = "held"
    BY <1>0, <1>1, <1>2, <1>16, <2>1 DEF CallerFits, Broken
  <2>3. stop BY <2>2 DEF stop
  <2> QED BY <1>0, <1>5, <1>7, <2>2, <2>3
<1>17. CallerFits(c)' BY <1>12, <1>13, <1>14, <1>15, <1>16 DEF CallerFits
<1>18. LatchGoes /\ told \subseteq told' BY <1>2 DEF LatchGoes
<1> QED BY <1>9, <1>10, <1>11, <1>17, <1>18, Elsewhere

LEMMA ApplyKeeps ==
  ASSUME JInv, NEW c \in Caller, NEW k, Apply(c, k)
  PROVE  JInv'
<1> DEFINE call == calls[c][k]
           kept == visit[c].kept \cup IF latch = "no" THEN Default(c, call.items)
                                     ELSE Kept(c, call)
           phase == IF \A j \in 2..Len(calls[c]) : j = k \/ calls[c][j].state = "applied"
                    THEN "use" ELSE "rest"
           r == [calls[c][k] EXCEPT !.state = "applied"]
           s == [calls[c] EXCEPT ![k] = r]
           v == [visit[c] EXCEPT !.kept = kept, !.phase = phase]
<1>0. /\ JTyped /\ CacheTold /\ CallerFits(c) /\ visit[c] \in VisitRow
      /\ visit \in [Caller -> VisitRow] /\ calls \in [Caller -> Seq(CallRow)]
      /\ calls[c] \in Seq(CallRow)
      /\ Len(calls[c]) \in Nat /\ DOMAIN calls[c] = 1..Len(calls[c])
  BY Rows DEF JInv, JTyped
<1>1. /\ Doing(c, "rest") /\ calls[c] # <<>> /\ calls[c][1].state = "applied"
      /\ k \in DOMAIN calls[c] /\ k # 1 /\ call.state = "done"
      /\ call \in CallRow /\ Vouched(call)
  <2>1. Doing(c, "rest") /\ k \in 2..Len(calls[c]) /\ call.state = "done"
    BY DEF Apply
  <2>2. k \in DOMAIN calls[c] /\ k # 1 BY <1>0, <2>1
  <2> QED BY <1>0, <2>1, <2>2, Rows DEF CallerFits, FirstAlone
<1>2. /\ visit' = [visit EXCEPT ![c] = v] /\ calls' = [calls EXCEPT ![c] = s]
      /\ cache' = IF latch = "no" THEN cache ELSE Cached(call)
      /\ UNCHANGED <<latch, reopened, told>>
  BY <1>0, <1>1 DEF Apply, model
<1>3. /\ phase \in {"use", "rest"}
      /\ phase = "use" => \A j \in 2..Len(calls[c]) : j = k \/ calls[c][j].state = "applied"
  OBVIOUS
<1>4. kept \in SUBSET Item
  <2>1. call.items \in SUBSET Item BY <1>1 DEF CallRow
  <2>2. visit[c].kept \in SUBSET Item BY <1>0 DEF VisitRow
  <2>3. Kept(c, call) \in SUBSET Item BY <1>0, <1>1, Told
  <2> QED BY <2>1, <2>2, <2>3 DEF Default
<1>5. /\ r \in CallRow /\ r.valid = call.valid /\ r.junk = call.junk
      /\ r.state = "applied"
  BY <1>1 DEF CallRow, CallState
<1>6. /\ visit[c].kept \subseteq kept
      /\ latch # "no" => Kept(c, call) \subseteq kept
      /\ c \in Labels => kept \subseteq visit[c].kept \cup Kept(c, call)
  BY DEF Default
<1> HIDE DEF r, kept, phase
<1>7. /\ s \in Seq(CallRow) /\ Len(s) = Len(calls[c]) /\ DOMAIN s = DOMAIN calls[c]
      /\ \A j \in DOMAIN calls[c] : s[j] = IF j = k THEN r ELSE calls[c][j]
  BY <1>0, <1>1, <1>5, ExceptSeq
<1> HIDE DEF s
<1>8. /\ v \in VisitRow /\ v.kept = kept /\ v.phase = phase
      /\ v.todo = visit[c].todo /\ v.in = visit[c].in /\ v.out = visit[c].out
  BY <1>0, <1>3, <1>4 DEF VisitRow
<1> HIDE DEF v
<1>9. /\ visit'[c] = v /\ calls'[c] = s
      /\ \A d \in Caller \ {c} : visit'[d] = visit[d] /\ calls'[d] = calls[d]
  BY <1>0, <1>2
<1>10. JTyped'
  <2>1. Cached(call) \in [Item -> Verdict] BY <1>0, <1>1, Told
  <2> QED BY <1>0, <1>2, <1>7, <1>8, <2>1 DEF JTyped
<1>11. CacheTold'
  <2>1. \A i \in Item : Cached(call)[i] # "none" => Ruled(i, Cached(call)[i])
    BY <1>0, <1>1, Told
  <2> QED BY <1>0, <1>2, <2>1 DEF CacheTold, Ruled
<1>12. \A j \in DOMAIN calls'[c] : Vouched(calls[c][j])'
  BY <1>0, <1>1, <1>2, <1>5, <1>7, <1>9 DEF CallerFits, Vouched, Ruled
<1>13. FirstAlone(c)'
  <2>1. 1 \in DOMAIN calls[c] BY <1>0, <1>1
  <2>2. s[1].state = "applied" BY <1>1, <1>7, <2>1
  <2>3. s # <<>> BY <1>7, <2>1, EmptySeq
  <2> QED BY <1>3, <1>8, <1>9, <2>2, <2>3 DEF FirstAlone, Doing
<1>14. Asked(c)' BY <1>0, <1>8, <1>9 DEF CallerFits, Asked
<1>15. ASSUME ~reopened' PROVE Trusted(c)'
  <2>1. Trusted(c) /\ told' = told /\ latch' = latch
    BY <1>0, <1>2, <1>15 DEF CallerFits
  <2>2. c \in Labels => \A i \in v.kept \cup v.in : Ruled(i, "valid")
    <3>1. c \in Labels => \A i \in Kept(c, call) : Ruled(i, "valid")
      BY <1>0, <1>1, Told
    <3> QED BY <1>6, <1>8, <2>1, <3>1 DEF Trusted
  <2>3. ASSUME c \notin Labels, latch # "no", NEW i \in ToSet(Asks[c]) \ Noise
        PROVE  Accounted(c, i)'
    <3>1. Accounted(c, i) BY <1>1, <2>1, <2>3 DEF Trusted, Doing
    <3>2. CASE i \in kept \/ Ruled(i, "junk")
      BY <1>8, <1>9, <2>1, <3>2 DEF Accounted, Ruled
    <3>3. CASE Underway(c, i) /\ i \notin kept /\ ~Ruled(i, "junk")
      <4>1. PICK j \in DOMAIN calls[c] :
              calls[c][j].state # "applied" /\ i \in calls[c][j].items
        BY <3>3 DEF Underway
      <4>2. j # k BY <1>0, <1>1, <1>6, <2>3, <3>3, <4>1, Told
      <4>3. j # 1 /\ j \in 2..Len(calls[c])
        BY <1>0, <1>1, <4>1
      <4>4. phase # "use" BY <1>3, <4>1, <4>2, <4>3
      <4>5. s[j] = calls[c][j] /\ j \in DOMAIN s BY <1>7, <4>1, <4>2
      <4> QED BY <1>8, <1>9, <4>1, <4>4, <4>5 DEF Accounted, Underway
    <3> QED BY <1>6, <3>1, <3>2, <3>3 DEF Accounted
  <2>4. c \notin Labels => \A i \in v.out \ Noise : Ruled(i, "junk")
    BY <1>8, <2>1 DEF Trusted
  <2> QED BY <1>9, <2>1, <2>2, <2>3, <2>4 DEF Trusted, Ruled
<1>16. ASSUME ~reopened' PROVE Broken(c)'
  <2>1. 1 \in DOMAIN calls[c] /\ k \in 2..Len(calls[c]) BY <1>0, <1>1
  <2>2. s[1] = calls[c][1] BY <1>1, <1>7, <2>1
  <2>3. ~calls[c][1].refused
    BY <1>0, <1>1, <1>2, <1>16, <2>1 DEF CallerFits, Broken
  <2> QED BY <1>9, <2>2, <2>3 DEF Broken
<1>17. CallerFits(c)' BY <1>12, <1>13, <1>14, <1>15, <1>16 DEF CallerFits
<1>18. LatchGoes /\ told \subseteq told' BY <1>2 DEF LatchGoes
<1> QED BY <1>9, <1>10, <1>11, <1>17, <1>18, Elsewhere

\* A name is turned away, or a tie labelled, on a verdict only.
LEMMA TakeKeeps ==
  ASSUME JInv, NEW c \in Caller, Store(c) \/ Label(c)
  PROVE  JInv'
<1> DEFINE i == Head(visit[c].todo)
           taken == (c \notin Labels /\ latch = "no") \/ i \in visit[c].kept
           v == [visit[c] EXCEPT !.todo = Tail(@),
                                 !.in = IF taken THEN @ \cup {i} ELSE @,
                                 !.out = IF taken THEN @ ELSE @ \cup {i}]
<1>0. /\ JTyped /\ CallerFits(c) /\ visit[c] \in VisitRow
      /\ visit \in [Caller -> VisitRow] /\ visit[c].todo \in Seq(Item)
  BY Rows DEF JInv, JTyped, VisitRow
<1>1. /\ Doing(c, "use") /\ visit[c].todo # <<>>
      /\ UNCHANGED <<latch, reopened, cache, calls, told>>
  BY DEF Store, Label, model
<1>2. visit' = [visit EXCEPT ![c] = v]
  BY <1>0 DEF Store, Label, Takes
<1>3. /\ i \in Item /\ Tail(visit[c].todo) \in Seq(Item)
      /\ \A j \in DOMAIN Tail(visit[c].todo) :
           j + 1 \in DOMAIN visit[c].todo /\ Tail(visit[c].todo)[j] = visit[c].todo[j + 1]
      /\ i = visit[c].todo[1] /\ 1 \in DOMAIN visit[c].todo
  <2>1. /\ i \in Item /\ Tail(visit[c].todo) \in Seq(Item)
        /\ Len(Tail(visit[c].todo)) = Len(visit[c].todo) - 1
        /\ \A j \in 1..Len(Tail(visit[c].todo)) :
             Tail(visit[c].todo)[j] = visit[c].todo[j + 1]
    BY <1>0, <1>1, HeadTailProperties
  <2>2. /\ DOMAIN visit[c].todo = 1..Len(visit[c].todo) /\ Len(visit[c].todo) \in Nat
        /\ DOMAIN Tail(visit[c].todo) = 1..Len(Tail(visit[c].todo))
        /\ Len(visit[c].todo) # 0
    BY <1>0, <1>1, <2>1, LenProperties, EmptySeq
  <2> QED BY <2>1, <2>2
<1>4. /\ v \in VisitRow /\ v.kept = visit[c].kept /\ v.phase = visit[c].phase
      /\ v.todo = Tail(visit[c].todo)
      /\ v.in = IF taken THEN visit[c].in \cup {i} ELSE visit[c].in
      /\ v.out = IF taken THEN visit[c].out ELSE visit[c].out \cup {i}
  BY <1>0, <1>3 DEF VisitRow
<1>5. i \in ToSet(Asks[c]) BY <1>0, <1>3 DEF CallerFits, Asked
<1>6. \A j \in DOMAIN v.todo : v.todo[j] \in ToSet(Asks[c])
  BY <1>0, <1>3, <1>4 DEF CallerFits, Asked
<1> HIDE DEF v, i
<1>7. ASSUME ~reopened' PROVE Trusted(c)'
  <2>1. Trusted(c) /\ visit'[c] = v BY <1>0, <1>1, <1>2, <1>7 DEF CallerFits
  <2>2. ASSUME c \in Labels, NEW x \in v.kept \cup v.in PROVE Ruled(x, "valid")
    BY <1>4, <2>1, <2>2 DEF Trusted
  <2>3. ASSUME c \notin Labels, NEW x \in v.out \ Noise PROVE Ruled(x, "junk")
    <3>1. CASE x \in visit[c].out BY <2>1, <2>3, <3>1 DEF Trusted
    <3>2. CASE x \notin visit[c].out
      <4>1. x = i /\ ~taken BY <1>4, <2>3, <3>2
      <4>2. Accounted(c, i) BY <1>1, <1>5, <2>1, <2>3, <4>1 DEF Trusted, Doing
      <4> QED BY <1>1, <2>3, <4>1, <4>2 DEF Accounted, Underway, Doing
    <3> QED BY <3>1, <3>2
  <2>4. ASSUME c \notin Labels, latch # "no", NEW x \in ToSet(Asks[c]) \ Noise
        PROVE  Accounted(c, x)'
    <3>1. Accounted(c, x) BY <1>1, <2>1, <2>4 DEF Trusted, Doing
    <3> QED BY <1>1, <1>4, <2>1, <3>1 DEF Accounted, Underway, Ruled
  <2> QED BY <1>1, <2>1, <2>2, <2>3, <2>4 DEF Trusted, Ruled
<1>8. v.phase \notin {"judge", "rest"} /\ LatchGoes BY <1>1, <1>4 DEF Doing, LatchGoes
<1> QED BY <1>0, <1>1, <1>2, <1>4, <1>6, <1>7, <1>8, VisitMoves DEF JTyped

LEMMA JudgingStep == JInv /\ [JudgingNext]_judgingVars => JInv'
<1> SUFFICES ASSUME JInv, [JudgingNext]_judgingVars PROVE JInv'
  OBVIOUS
<1>1. ASSUME UNCHANGED <<reopened, latch, cache, visit, calls, told>> PROVE JInv'
  BY <1>1 DEF JInv, JTyped, CacheTold, CallerFits, Vouched, FirstAlone, Asked, Trusted,
     Broken, Doing, Accounted, Underway, Ruled
<1>2. ASSUME NEW c \in Caller, CallerStep(c) PROVE JInv'
  BY <1>2, CheckKeeps, SubmitKeeps, ApplyFirstKeeps, TakeKeeps DEF CallerStep
<1>3. ASSUME NEW c \in Caller, NEW k, CallStep(c, k) PROVE JInv'
  BY <1>3, CallKeeps, ApplyKeeps DEF CallStep
<1> QED BY <1>1, <1>2, <1>3 DEF JudgingNext, Revoke, judgingVars

LEMMA JudgingInvariance == JudgingSpec => []JInv
<1> QED BY JudgingStarts, JudgingStep, PTL DEF JudgingSpec

\* No failed, truncated or refused call, no item the model left out and no
\* latch that falls in between turns a name away or labels a tie; only what
\* Claude said does, and only that is cached (entity_filter.validate,
\* relation_classifier.classify, "keep for THIS run ... but don't cache it").
THEOREM OnlyTheJudgedAreTurnedAway == JudgingSpec => []OnlyJudged
<1>1. ASSUME JInv PROVE OnlyJudged
  <2>1. \A i \in Item : cache[i] # "none" => <<i, cache[i]>> \in told
    BY <1>1 DEF JInv, CacheTold, Ruled
  <2>2. ASSUME ~reopened, NEW c \in Caller
        PROVE  IF c \in Labels THEN visit[c].in \X {"valid"} \subseteq told
               ELSE (visit[c].out \ Noise) \X {"junk"} \subseteq told
    BY <1>1, <2>2 DEF JInv, CallerFits, Trusted, Ruled
  <2> QED BY <2>1, <2>2 DEF OnlyJudged
<1> QED BY <1>1, JudgingInvariance, PTL

\* If the key is broken, that is found out by one call: the batches behind
\* the first never go (validate, "this is the ONE wasted round trip").
THEOREM OneCallFindsTheBrokenKey == JudgingSpec => []BrokenKeyCostsOneCall
<1>1. JInv => BrokenKeyCostsOneCall
  BY DEF JInv, CallerFits, Broken, BrokenKeyCostsOneCall
<1> QED BY <1>1, JudgingInvariance, PTL
=============================================================================
