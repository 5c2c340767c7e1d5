----------------------------- MODULE BuildJobs -----------------------------
(***************************************************************************)
(* The background jobs of src/app/main.py: the in-memory table of job      *)
(* records, the worker thread each build endpoint starts, and the build    *)
(* queue both go through.  A job's id and its ticket are created together  *)
(* and used once, so a ticket that is not Background stands for both.      *)
(*                                                                         *)
(* The worker threads, the request thread that cancels and the sides of a  *)
(* two-sided build interleave at every lock they release.  Progress is a   *)
(* number in 0..Full, Full standing for 100 percent.                       *)
(***************************************************************************)
EXTENDS BuildQueue

CONSTANTS SearchJobs,   \* jobs of POST /targets/search: they close the usage
                        \* window in the finally-block only
          Full,         \* a finished job's progress
          MaxSides      \* threads of one build that may report at once

Job == Ticket \ Background

ASSUME BuildJobsAssumption ==
  /\ SearchJobs \subseteq Job
  /\ Full \in Nat \ {0}
  /\ MaxSides \in Nat \ {0}

VARIABLES jobs,      \* _JOBS: job id -> record
          pc,        \* where the job's worker thread is
          steps,     \* progress reports that passed their cancel check but
                     \* are not applied to the record yet
          window     \* _UsageWindow: other builds seen when it was opened and
                     \* when it was closed

jobVars == <<jobs, pc, steps, window>>
vars == <<queueVars, jobVars>>

NotSeen == -1
Terminal == {"done", "error", "cancelled"}
Status == {"queued", "running", "cancelling"} \cup Terminal
PC == {"none", "admitted", "queued", "ticked", "granted", "started",
       "building", "joining", "returned", "publish", "cancelled", "error",
       "finally", "account", "exited"}

JobsInit ==
  /\ QueueInit
  /\ jobs = [j \in {} |-> 0]
  /\ pc = [j \in Job |-> "none"]
  /\ steps = [j \in Job |-> {}]
  /\ window = [j \in Job |-> [opened |-> NotSeen, closed |-> NotSeen]]

-----------------------------------------------------------------------------
\* The record _new_job inserts.  `old` says that updated_at is further back
\* than _JOB_TTL_S.
NewRecord == [status |-> "queued", pct |-> 0, cancel |-> FALSE,
              usage |-> NotSeen, old |-> FALSE]

\* Bug: a job being cancelled counts as finished.
KeptRunning == {j \in DOMAIN jobs : jobs[j].old => jobs[j].status = "running"}

\* _gc_jobs: the records it keeps, those of jobs at work however stale.
Kept ==
  {j \in DOMAIN jobs : jobs[j].old => jobs[j].status \in {"running", "cancelling"}}

\* Bug: the last writer wins.
WithStatusAsGiven(r, st) ==
  [r EXCEPT !.status = st, !.pct = IF st = "done" THEN Full ELSE @, !.old = FALSE]

\* _update_job(status=st): a requested cancel turns done and error into
\* cancelled; anything but done keeps the progress shown so far.
WithStatus(r, st) ==
  [r EXCEPT !.status = IF r.cancel /\ st \in {"done", "error"}
                       THEN "cancelled" ELSE st,
            !.pct = IF st = "done" /\ ~r.cancel THEN Full ELSE @,
            !.old = FALSE]

\* Bug: the latest report is shown, whichever side it is from.
WithLatestProgress(r, p) ==
  IF r.status \in {"cancelling", "cancelled"} THEN r
  ELSE [r EXCEPT !.pct = p, !.old = FALSE]

\* _update_job without a status: dropped once the job is being cancelled,
\* and progress never moves backwards.
WithProgress(r, p) ==
  IF r.status \in {"cancelling", "cancelled"} THEN r
  ELSE [r EXCEPT !.pct = Max({@, p}), !.old = FALSE]

\* What _update_job does to the table: nothing if the job was swept.
SetStatus(j, st) ==
  jobs' = [k \in DOMAIN jobs |->
             IF k = j THEN WithStatus(jobs[k], st) ELSE jobs[k]]
Report(j, p) ==
  jobs' = [k \in DOMAIN jobs |->
             IF k = j THEN WithProgress(jobs[k], p) ELSE jobs[k]]

\* _check_job_cancelled raises, and the except-clause that catches it: an
\* HTTPException for a job no longer in the table ends in the general one.
CancelSeen(j) == j \in DOMAIN jobs => jobs[j].cancel
Raised(j) == IF j \in DOMAIN jobs THEN "cancelled" ELSE "error"

Goto(j, from, to) == pc[j] = from /\ pc' = [pc EXCEPT ![j] = to]

\* _UsageWindow._others
Others == Max({0, running - 1})

-----------------------------------------------------------------------------
\* The request thread: reserve a ticket, or answer 429 and change nothing.
Submit(j) ==
  /\ Goto(j, "none", "admitted")
  /\ Reserve(j)
  /\ UNCHANGED <<jobs, steps, window>>

\* _new_job, which sweeps the table first, and the start of the thread.
StartJob(j) ==
  /\ Goto(j, "admitted", "queued")
  /\ jobs' = [k \in Kept \cup {j} |->
                IF k = j THEN NewRecord ELSE jobs[k]]
  /\ UNCHANGED <<queueVars, steps, window>>

\* _tick: the cancel check that runs between waits, then the status message.
Tick(j) ==
  /\ \/ CancelSeen(j) /\ Goto(j, "queued", Raised(j)) /\ UNCHANGED jobs
     \/ ~CancelSeen(j) /\ Goto(j, "queued", "ticked") /\ Report(j, 0)
  /\ UNCHANGED <<queueVars, steps, window>>

\* The locked half of acquire's loop: take the slot, or wait and poll again.
TakeSlot(j) ==
  /\ \/ Acquire(j) /\ Goto(j, "ticked", "granted")
     \/ /\ \E i \in DOMAIN pending : pending[i] = j /\ ~NextEligible(i)
        /\ Goto(j, "ticked", "queued")
        /\ UNCHANGED queueVars
  /\ UNCHANGED <<jobs, steps, window>>

\* The end of _await_build_slot, after the queue's lock is released.
MarkRunning(j) ==
  /\ Goto(j, "granted", "started")
  /\ SetStatus(j, "running")
  /\ UNCHANGED <<queueVars, steps, window>>

\* The check after the wait, and the usage window opened when it passes.
OpenWindow(j) ==
  /\ \/ CancelSeen(j) /\ Goto(j, "started", Raised(j)) /\ UNCHANGED window
     \/ /\ ~CancelSeen(j)
        /\ Goto(j, "started", "building")
        /\ window' = [window EXCEPT ![j].opened = Others]
  /\ UNCHANGED <<queueVars, jobs, steps>>

\* on_step in one of the build's threads: the cancel check passes and the
\* new progress is computed ...
PassStep(j) ==
  /\ pc[j] = "building" /\ ~CancelSeen(j)
  /\ Cardinality(steps[j]) < MaxSides
  /\ \E p \in 0..(Full - 1) : steps' = [steps EXCEPT ![j] = @ \cup {p}]
  /\ UNCHANGED <<queueVars, jobs, pc, window>>

\* ... and is applied later, under the table's lock.
ApplyStep(j) ==
  /\ \E p \in steps[j] :
       Report(j, p) /\ steps' = [steps EXCEPT ![j] = @ \ {p}]
  /\ UNCHANGED <<queueVars, pc, window>>

\* _append_job_log, from a build that reports what it is doing: whatever the
\* status, it makes the record fresh.
AppendLog(j) ==
  /\ j \in DOMAIN jobs /\ pc[j] \in {"building", "joining"}
  /\ jobs' = [jobs EXCEPT ![j].old = FALSE]
  /\ UNCHANGED <<queueVars, pc, steps, window>>

\* The build's threads start no further report ...
WindUp(j) ==
  /\ Goto(j, "building", "joining")
  /\ UNCHANGED <<queueVars, jobs, steps, window>>

\* ... and it is over once they are joined: it failed, a cancel check inside
\* or right after it raised, or it returned a result.
BuildEnds(j) ==
  /\ steps[j] = {}
  /\ \/ Goto(j, "joining", "error")
     \/ CancelSeen(j) /\ Goto(j, "joining", Raised(j))
     \/ ~CancelSeen(j) /\ Goto(j, "joining", "returned")
  /\ UNCHANGED <<queueVars, jobs, steps, window>>

\* connect and discover put the spend into the result; search does not.
CloseForResult(j) ==
  /\ Goto(j, "returned", "publish")
  /\ window' = IF j \in SearchJobs THEN window
               ELSE [window EXCEPT ![j].closed = Max({@, window[j].opened, Others})]
  /\ UNCHANGED <<queueVars, jobs, steps>>

\* The three ways a worker reports its outcome.
Publish(j) ==
  /\ \/ Goto(j, "publish", "finally") /\ SetStatus(j, "done")
     \/ Goto(j, "cancelled", "finally") /\ SetStatus(j, "cancelled")
     \/ Goto(j, "error", "finally") /\ SetStatus(j, "error")
  /\ UNCHANGED <<queueVars, steps, window>>

\* Bug: the ticket is released only by a worker that got its slot.
FinallyIfGranted(j) ==
  /\ Goto(j, "finally",
          IF window[j].opened = NotSeen THEN "exited" ELSE "account")
  /\ IF j \in acquired THEN Release(j) ELSE UNCHANGED queueVars
  /\ UNCHANGED <<jobs, steps, window>>

\* The finally-block: the ticket first, whatever state it is in ...
Finally(j) ==
  /\ Goto(j, "finally",
          IF window[j].opened = NotSeen THEN "exited" ELSE "account")
  /\ Release(j)
  /\ UNCHANGED <<jobs, steps, window>>

\* Bug: the spend goes through _update_job, which drops it after a cancel.
AccountThroughUpdate(j) ==
  LET seen == IF window[j].closed = NotSeen
              THEN Max({window[j].opened, Others}) ELSE window[j].closed IN
  /\ Goto(j, "account", "exited")
  /\ window' = [window EXCEPT ![j].closed = seen]
  /\ jobs' = [k \in DOMAIN jobs |->
                IF k = j /\ jobs[k].status # "cancelled"
                THEN [jobs[k] EXCEPT !.usage = seen] ELSE jobs[k]]
  /\ UNCHANGED <<queueVars, steps>>

\* ... then the spend, written around _update_job's guards.  close() is
\* idempotent: it samples the queue only if nobody closed the window before.
AccountUsage(j) ==
  LET seen == IF window[j].closed = NotSeen
              THEN Max({window[j].opened, Others}) ELSE window[j].closed IN
  /\ Goto(j, "account", "exited")
  /\ window' = [window EXCEPT ![j].closed = seen]
  /\ jobs' = [k \in DOMAIN jobs |->
                IF k = j THEN [jobs[k] EXCEPT !.usage = seen] ELSE jobs[k]]
  /\ UNCHANGED <<queueVars, steps>>

\* POST /jobs/{id}/cancel, on a request thread.
CancelJob(j) ==
  /\ j \in DOMAIN jobs
  /\ jobs[j].status \notin Terminal
  /\ jobs' = [jobs EXCEPT ![j].cancel = TRUE, ![j].status = "cancelling",
                          ![j].old = FALSE]
  /\ UNCHANGED <<queueVars, pc, steps, window>>

\* _JOB_TTL_S passes without an update.  A worker in line reports at every
\* poll, so only a silent build and a finished job can grow that old.
GrowOld(j) ==
  /\ j \in DOMAIN jobs /\ pc[j] \in {"building", "joining", "exited"}
  /\ ~jobs[j].old
  /\ jobs' = [jobs EXCEPT ![j].old = TRUE]
  /\ UNCHANGED <<queueVars, pc, steps, window>>

\* The enrichment executor's tickets, which share the queue.
OtherWork(t) ==
  /\ Reserve(t) \/ Acquire(t) \/ Release(t)
  /\ UNCHANGED jobVars

Worker(j) ==
  \/ Tick(j) \/ TakeSlot(j) \/ MarkRunning(j) \/ OpenWindow(j)
  \/ ApplyStep(j) \/ WindUp(j) \/ BuildEnds(j) \/ CloseForResult(j)
  \/ Publish(j) \/ Finally(j) \/ AccountUsage(j)

JobsNext ==
  \/ \E j \in Job : \/ Submit(j) \/ StartJob(j) \/ Worker(j) \/ PassStep(j)
                    \/ AppendLog(j) \/ CancelJob(j) \/ GrowOld(j)
  \/ \E t \in Background : OtherWork(t)

\* Threads are scheduled, and a build ends: it makes finitely many steps,
\* each bounded by the timeouts of its requests.  Nobody is obliged to submit
\* or to cancel a job.
JobsFairness ==
  /\ \A j \in Job : WF_vars(StartJob(j)) /\ WF_vars(Worker(j)) /\ WF_vars(WindUp(j))
  /\ \A t \in Background : /\ WF_vars(Acquire(t) /\ UNCHANGED jobVars)
                         /\ WF_vars(GiveBackSlot(t) /\ UNCHANGED jobVars)

JobsSpec == JobsInit /\ [][JobsNext]_vars
FairJobsSpec == JobsSpec /\ JobsFairness
-----------------------------------------------------------------------------
JobsTypeOK ==
  /\ TypeOK
  /\ DOMAIN jobs \subseteq Job
  /\ jobs \in [DOMAIN jobs ->
                [status : Status, pct : 0..Full, cancel : BOOLEAN,
                 usage : Int, old : BOOLEAN]]
  /\ pc \in [Job -> PC]
  /\ steps \in [Job -> SUBSET (0..(Full - 1))]
  /\ window \in [Job -> [opened : Int, closed : Int]]

\* However a worker ends - cancelled in line, cancelled between the grant and
\* the build, failed or finished - its ticket is neither in line nor holding a
\* slot afterwards, and nobody builds without a slot (comment in
\* _run_connect_job's finally-block).
NoTicketAbandoned ==
  \A j \in Job :
    /\ pc[j] \in {"none", "account", "exited"} => j \notin Waiting \cup acquired
    /\ pc[j] \in {"admitted", "queued", "ticked"} => j \in Waiting
    /\ pc[j] \in {"building", "joining"} => j \in acquired

\* A build the user cancelled is never reported as done or failed, wherever
\* the cancel lands between the worker's checks (_update_job).
CancelHonoured ==
  \A j \in DOMAIN jobs : jobs[j].cancel => jobs[j].status \notin {"done", "error"}

\* What a client polls never goes back: an outcome is final, a request to
\* cancel stays, and progress, which two sides report in any order, only
\* grows and reaches Full exactly with "done".
NeverGoesBack ==
  [][\A j \in DOMAIN jobs \cap DOMAIN jobs' :
       /\ jobs[j].status \in Terminal => jobs'[j].status = jobs[j].status
       /\ jobs[j].cancel => jobs'[j].cancel
       /\ jobs'[j].pct >= jobs[j].pct
       /\ jobs'[j].pct = Full <=> jobs'[j].status = "done"]_vars

\* The sweep of old records never takes the record of a job at work, however
\* long its build or its cancellation is silent (_gc_jobs).
WorkerListed ==
  \A j \in Job : pc[j] \notin {"none", "admitted", "exited"} => j \in DOMAIN jobs

\* Once its worker has exited a job shows an outcome, the cancelled one if a
\* cancel came before it, and what the build spent if it began: on every
\* path, also the cancelled one that _update_job would have dropped.
ExitSettles ==
  \A j \in DOMAIN jobs :
    pc[j] = "exited" =>
      /\ jobs[j].status \in Terminal
      /\ jobs[j].cancel <=> jobs[j].status = "cancelled"
      /\ window[j].opened # NotSeen <=> jobs[j].usage # NotSeen

\* Every admitted job's worker exits: nobody waits in line for ever.
EveryJobEnds == \A j \in Job : pc[j] # "none" ~> pc[j] = "exited"
=============================================================================
