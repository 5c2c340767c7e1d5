---------------------------- MODULE EdgeVerdict ----------------------------
(***************************************************************************)
(* One edge of the shared graph and the sessions that change it at the     *)
(* same time: a new extraction of the same tie raises its confidence       *)
(* (add_edge_from_extraction in src/app/graph/builder.py), the classifier  *)
(* types it (_retype_unknown_edges in expansion.py), the verifier judges   *)
(* it (verify in hop_verify.py), an operator rejects it (reject_edges), a  *)
(* prune deletes it.  A session works on the copy it has loaded, over a    *)
(* model call that takes seconds, and then writes the fields it has        *)
(* changed, and only those.                                                *)
(***************************************************************************)
EXTENDS Naturals

CONSTANTS Session, None

Tier == {"weak", "candidate", "strong"}
Kind == {"unknown", "social", "work"}    \* social: family_social

Edge == [kind : Kind, conf : Tier, status : Tier \cup {"rejected"},
         verdict : {"none", "genuine", "rejected"}, by : {"none", "model", "operator"},
         fresh : BOOLEAN]

\* A session at work: what it is about and the row it has loaded.
Open == [op : {"extract", "retype", "verify"}, copy : Edge]

ASSUME VerdictAssumption == None \notin Edge \cup Open

VARIABLES edge,      \* the stored row, or None once deleted
          session,   \* session -> [op, copy], or None
          answer     \* session -> what its last verify returned

vars == <<edge, session, answer>>

\* The tiers of unlike confidence, in order.
Above(s, t) == <<s, t>> \in {<<"candidate", "weak">>, <<"strong", "weak">>,
                             <<"strong", "candidate">>}
Higher(s, t) == IF Above(s, t) THEN s ELSE t

\* The tier, but family_social never reaches strong.
derive_status(kind, conf) ==
  IF kind = "social" /\ conf = "strong" THEN "candidate" ELSE conf

\* Without an explicit keyword a type stays unknown and the confidence short
\* of strong (compute_confidence's ceilings).
Plausible(kind, conf) == kind = "unknown" => conf # "strong"

VerdictInit ==
  /\ \E kind \in Kind, conf \in Tier :
       /\ Plausible(kind, conf)
       /\ edge = [kind |-> kind, conf |-> conf, status |-> derive_status(kind, conf),
                  verdict |-> "none", by |-> "none", fresh |-> FALSE]
  /\ session = [s \in Session |-> None]
  /\ answer = [s \in Session |-> "none"]

-----------------------------------------------------------------------------
\* What an update does to the row: the fields that differ from the copy.
Write(copy, new) ==
  [f \in DOMAIN edge |-> IF new[f] = copy[f] THEN edge[f] ELSE new[f]]

is_operator_rejected(e) == e.verdict = "rejected" /\ e.by = "operator"

\* A verdict ages; one an operator gave does not.
Stale(e) == e.verdict = "none" \/ (~e.fresh /\ ~is_operator_rejected(e))

\* A retype takes the edges that are unknown, a verify those of a route.
Load(s, op) ==
  /\ session[s] = None /\ edge # None
  /\ op = "retype" => edge.kind = "unknown"
  /\ op = "verify" => edge.status # "rejected"
  /\ session' = [session EXCEPT ![s] = [op |-> op, copy |-> edge]]
  /\ answer' = [answer EXCEPT ![s] = "none"]
  /\ UNCHANGED edge

At(s, op) == session[s] # None /\ session[s].op = op
Copy(s) == session[s].copy
Close(s) == session' = [session EXCEPT ![s] = None]

\* The edge was deleted under the session: a retype leaves it out, the others
\* fail with StaleDataError.
Gone(s) ==
  /\ session[s] # None /\ edge = None
  /\ Close(s) /\ UNCHANGED <<edge, answer>>

\* add_edge_from_extraction finds the row; only a higher confidence counts.
Extract(s) ==
  /\ At(s, "extract") /\ edge # None
  /\ \E conf \in Tier :
       LET c == Copy(s) IN
       /\ Plausible(c.kind, conf) /\ Above(conf, c.conf)
       /\ edge' = Write(c, [c EXCEPT !.conf = conf, !.status = derive_status(c.kind, conf)])
  /\ Close(s) /\ UNCHANGED answer
ExtractNothingNew(s) ==
  /\ At(s, "extract") /\ Close(s) /\ UNCHANGED <<edge, answer>>

\* The classifier's verdict: a type, confident enough, or nothing.
Retype(s) ==
  /\ At(s, "retype") /\ edge # None
  /\ \E kind \in Kind \ {"unknown"}, conf \in {"candidate", "strong"} :
       LET c == Copy(s)
           best == Higher(c.conf, conf)
       IN edge' = Write(c, [c EXCEPT !.kind = kind, !.conf = best,
                                     !.status = derive_status(kind, best)])
  /\ Close(s) /\ UNCHANGED answer
RetypeNothing(s) ==
  /\ At(s, "retype") /\ Close(s) /\ UNCHANGED <<edge, answer>>

-----------------------------------------------------------------------------
\* verify with a verdict that stands.
VerifyStored(s) ==
  /\ At(s, "verify") /\ ~Stale(Copy(s))
  /\ answer' = [answer EXCEPT ![s] = IF Copy(s).verdict = "rejected" THEN "no" ELSE "yes"]
  /\ Close(s) /\ UNCHANGED edge

\* Bug: a call that fails counts as a no.
VerifyUnaskedAsNo(s) ==
  /\ At(s, "verify") /\ edge # None
  /\ edge' = [edge EXCEPT !.status = "rejected"]
  /\ answer' = [answer EXCEPT ![s] = "no"]
  /\ Close(s)

\* No model, no evidence, or no answer: the edge stays as it is.
VerifyUnasked(s) ==
  /\ At(s, "verify")
  /\ answer' = [answer EXCEPT ![s] = "yes"]
  /\ Close(s) /\ UNCHANGED edge

\* Bug: the rejection is stored as a verdict only.
VerifyMarksOnly(s) ==
  /\ At(s, "verify") /\ edge # None /\ Stale(Copy(s))
  /\ \E verdict \in {"genuine", "rejected"} :
       LET c == Copy(s) IN
       /\ edge' = Write(c, [c EXCEPT !.verdict = verdict, !.by = "model", !.fresh = TRUE])
       /\ answer' = [answer EXCEPT ![s] = IF verdict = "rejected" THEN "no" ELSE "yes"]
  /\ Close(s)

\* verify asks the model; a reversed rejection gets a middle tier.
Verify(s) ==
  /\ At(s, "verify") /\ edge # None /\ Stale(Copy(s))
  /\ \E verdict \in {"genuine", "rejected"} :
       LET c == Copy(s) IN
       /\ edge' = Write(c, [c EXCEPT
                    !.verdict = verdict, !.by = "model", !.fresh = TRUE,
                    !.status = IF verdict = "rejected" THEN "rejected"
                               ELSE IF @ = "rejected" THEN "candidate" ELSE @])
       /\ answer' = [answer EXCEPT ![s] = IF verdict = "rejected" THEN "no" ELSE "yes"]
  /\ Close(s)

-----------------------------------------------------------------------------
\* reject_edges, in the session of one request.
OperatorRejects ==
  /\ edge # None /\ ~is_operator_rejected(edge)
  /\ edge' = [edge EXCEPT !.status = "rejected", !.verdict = "rejected",
                          !.by = "operator", !.fresh = TRUE]
  /\ UNCHANGED <<session, answer>>

\* HOP_VERIFY_TTL_* has passed.
Age ==
  /\ edge # None /\ edge.fresh
  /\ edge' = [edge EXCEPT !.fresh = FALSE]
  /\ UNCHANGED <<session, answer>>

Pruned ==
  /\ edge # None /\ edge' = None
  /\ UNCHANGED <<session, answer>>

SessionStep(s) ==
  \/ \E op \in {"extract", "retype", "verify"} : Load(s, op)
  \/ Gone(s) \/ Extract(s) \/ ExtractNothingNew(s) \/ Retype(s) \/ RetypeNothing(s)
  \/ VerifyStored(s) \/ VerifyUnasked(s) \/ Verify(s)

VerdictNext ==
  \/ OperatorRejects \/ Age \/ Pruned
  \/ \E s \in Session : SessionStep(s)

VerdictSpec == VerdictInit /\ [][VerdictNext]_vars

-----------------------------------------------------------------------------
VerdictTypeOK ==
  /\ edge \in Edge \cup {None}
  /\ session \in [Session -> Open \cup {None}]
  /\ answer \in [Session -> {"none", "yes", "no"}]

\* A freshly disproved edge is closed to every route, which is what bounds a
\* resumed build: the step in which verify says no after asking leaves the
\* row rejected (_routes_now's docstring).
NoMeansClosed ==
  [][\A s \in Session :
       session[s] # None /\ session'[s] = None /\ answer'[s] = "no" /\ Stale(Copy(s))
       => edge' # None /\ edge'.status = "rejected"]_vars

\* An edge leaves the routes only because it is judged in that very step, by
\* an operator or by a model that was asked and said no: no failed call and
\* no write from an old copy closes a tie ("no LLM failure may make a real
\* connection disappear from a path", verify's docstring).
HiddenOnlyByJudgement ==
  [][edge # None /\ edge' # None /\ edge.status # "rejected" /\ edge'.status = "rejected"
     => \/ is_operator_rejected(edge')
        \/ \E s \in Session : session[s] # None /\ session'[s] = None
                             /\ answer'[s] = "no" /\ edge'.fresh]_vars

\* "Rejections made here are permanent -- unlike the model's own, they are
\* never reconsidered on TTL expiry" (edges_reject in main.py).
OperatorStands ==
  [][edge # None /\ is_operator_rejected(edge) /\ edge' # None
     => is_operator_rejected(edge') /\ edge'.status = "rejected"]_vars
=============================================================================
