----------------------------- MODULE Enrichment -----------------------------
(***************************************************************************)
(* One enrichment run (src/app/network/executor.py, enrichment.py and the  *)
(* /enrich endpoints of src/app/main.py): a ranked plan of tasks in the    *)
(* database, the executor threads that work it off one background build    *)
(* ticket per task, the operator who starts, pauses and cancels the run,   *)
(* and a process that may crash.  `state` and `task` are rows and survive  *)
(* a crash; everything else is memory and does not.                        *)
(*                                                                         *)
(* An executor is one call of execute_run.  It uses one ticket at a time,  *)
(* so it stands for its ticket too: Background is the set of executors.    *)
(* The limit and the budget of an execute_run call are abstracted to its   *)
(* being allowed to stop after any task.                                   *)
(***************************************************************************)
EXTENDS BuildQueue

CONSTANTS Tasks,         \* the plan has the tasks 1..Tasks, in rank order
          Org,           \* those that are org sweeps, which are not probed
          MaxAttempts,   \* config.ENRICH_MAX_ATTEMPTS
          MaxMishaps     \* bound: crashes and database errors in a behaviour

Executor == Background
Task == 1..Tasks

ASSUME EnrichmentAssumption ==
  /\ Tasks \in Nat /\ Org \subseteq Task
  /\ MaxAttempts \in Nat \ {0} /\ MaxMishaps \in Nat

VARIABLES state,     \* EnrichmentRun.state
          task,      \* EnrichmentTask rows: state and attempts
          pc,        \* where each executor is
          held,      \* the task it selected, with the attempts it then read
          outcome,   \* what it is about to write
          request,   \* a pause or cancel that has read the run's state and
                     \* will write it
          mishaps,
          stray,     \* history: executors whose ticket was left in line
          overlap,   \* history: the last start found an executor at work
          contested  \* history: the tasks picked while another had them in hand

rows == <<state, task>>
memory == <<pc, held, outcome>>
history == <<mishaps, stray, overlap, contested>>
enrichVars == <<rows, memory, request, history>>
vars == <<queueVars, enrichVars>>

RunState == {"planned", "running", "paused", "done", "cancelled", "failed"}
TaskState == {"pending", "enriching", "done", "probed_empty", "skipped", "failed"}
None == [task |-> 0, attempts |-> 0]

\* plan_run has ranked the contacts: some never eligible, some expanded or
\* found empty before.  Org sweeps always start pending.
EnrichInit ==
  /\ QueueInit
  /\ state = "planned"
  /\ task \in [Task -> [state : {"pending", "done", "probed_empty", "skipped"},
                        attempts : {0}]]
  /\ \A t \in Org : task[t].state = "pending"
  /\ pc = [e \in Executor |-> "idle"]
  /\ held = [e \in Executor |-> None]
  /\ outcome = [e \in Executor |-> ""]
  /\ request = "" /\ mishaps = 0
  /\ stray = {} /\ overlap = FALSE /\ contested = {}

Goto(e, from, to) == pc[e] = from /\ pc' = [pc EXCEPT ![e] = to]

-----------------------------------------------------------------------------
\* Bug: one attempt too many.
RetryableOnceMore(t) == task[t].state = "failed" /\ task[t].attempts <= MaxAttempts

\* _has_retryable_failures and the same test in _next_task.
Retryable(t) == task[t].state = "failed" /\ task[t].attempts < MaxAttempts

\* What _next_task selects from.
Open == {t \in Task : task[t].state = "pending" \/ Retryable(t)}
NextTask == Min(Open)

\* Bug: a task a crash left behind does not count.
UnfinishedPending == {t \in Task : task[t].state = "pending"}

\* What _finalize finds unfinished in the tally.
Unfinished == {t \in Task : task[t].state \in {"pending", "enriching"}}

-----------------------------------------------------------------------------
\* POST /enrich/runs/{id}/start: claim_run's conditional UPDATE, and a thread.
\* It looks at the row only: an executor may still be at work.
Start(e) ==
  /\ e \notin Waiting \cup acquired
  /\ state \in {"planned", "paused"}
  /\ state' = "running"
  /\ Goto(e, "idle", "begin")
  /\ overlap' = \E f \in Executor : pc[f] # "idle"
  /\ UNCHANGED <<queueVars, task, held, outcome, request, mishaps, stray, contested>>

\* POST .../pause and cancel_run read the state, then write it.
AskPause ==
  /\ request = "" /\ state = "running"
  /\ request' = "paused"
  /\ UNCHANGED <<queueVars, rows, memory, history>>

AskCancel ==
  /\ request = "" /\ state \notin {"done", "cancelled", "failed"}
  /\ request' = "cancelled"
  /\ UNCHANGED <<queueVars, rows, memory, history>>

WriteRequest ==
  /\ request # ""
  /\ state' = request
  /\ request' = ""
  /\ UNCHANGED <<queueVars, task, memory, history>>

-----------------------------------------------------------------------------
\* execute_run's prologue.
Begin(e) ==
  /\ Goto(e, "begin", "check")
  /\ UNCHANGED <<queueVars, rows, held, outcome, request, history>>

\* The top of the loop: limit and budget, then the run's live state.
CheckRun(e) ==
  /\ \/ Goto(e, "check", "tally")
     \/ state = "running" /\ Goto(e, "check", "pick")
  /\ UNCHANGED <<queueVars, rows, held, outcome, request, history>>

\* From its selection to its last commit an executor has a task in hand.
InTask == {"reserve", "line", "polled", "granted", "working", "release", "commit"}
HasInHand(e, t) == pc[e] \in InTask /\ held[e].task = t

PickTask(e) ==
  /\ \/ Open = {} /\ Goto(e, "pick", "tally") /\ UNCHANGED <<held, contested>>
     \/ /\ Open # {} /\ Goto(e, "pick", "reserve")
        /\ held' = [held EXCEPT ![e] = [task |-> NextTask,
                                        attempts |-> task[NextTask].attempts]]
        /\ contested' = IF \E f \in Executor : HasInHand(f, NextTask)
                        THEN contested \cup {NextTask} ELSE contested \ {NextTask}
  /\ UNCHANGED <<queueVars, rows, outcome, request, mishaps, stray, overlap>>

\* _acquire_background_slot: give up if the run stopped, else a ticket; when
\* the queue is full, sleep and try again.
ReserveSlot(e) ==
  /\ \/ state # "running" /\ Goto(e, "reserve", "tally") /\ UNCHANGED queueVars
     \/ state = "running" /\ Goto(e, "reserve", "line") /\ Reserve(e)
  /\ UNCHANGED <<rows, held, outcome, request, history>>

\* Bug: a stopped executor leaves its ticket in line.
PollRunKeepsPlace(e) ==
  /\ \/ state # "running" /\ Goto(e, "line", "tally")
     \/ state = "running" /\ Goto(e, "line", "polled")
  /\ UNCHANGED <<queueVars, rows, held, outcome, request, history>>

\* _check between two waits: a run that stopped gives the place back.
PollRun(e) ==
  /\ \/ state # "running" /\ Goto(e, "line", "tally") /\ Release(e)
     \/ state = "running" /\ Goto(e, "line", "polled") /\ UNCHANGED queueVars
  /\ UNCHANGED <<rows, held, outcome, request, history>>

TakeSlot(e) ==
  /\ \/ Goto(e, "polled", "granted") /\ Acquire(e)
     \/ /\ \E i \in DOMAIN pending : pending[i] = e /\ ~NextEligible(i)
        /\ Goto(e, "polled", "line") /\ UNCHANGED queueVars
  /\ UNCHANGED <<rows, held, outcome, request, history>>

\* The task is committed as enriching, with the attempts this session read.
BeginTask(e) ==
  /\ Goto(e, "granted", "working")
  /\ task' = [task EXCEPT ![held[e].task] =
                [state |-> "enriching", attempts |-> held[e].attempts + 1]]
  /\ UNCHANGED <<queueVars, state, held, outcome, request, history>>

\* Probe and expansion: the new state is set on the row object, not committed.
\* An expansion that should_stop cut short also counts as done.
Work(e) ==
  /\ Goto(e, "working", "release")
  /\ \E o \in {"done", "failed", "probed_empty"} :
       /\ o = "probed_empty" => held[e].task \notin Org
       /\ outcome' = [outcome EXCEPT ![e] = o]
  /\ UNCHANGED <<queueVars, rows, held, request, history>>

\* The finally-block: the slot first, then the commit.
GiveBack(e) ==
  /\ Goto(e, "release", "commit")
  /\ Release(e)
  /\ UNCHANGED <<rows, held, outcome, request, history>>

CommitTask(e) ==
  /\ Goto(e, "commit", "check")
  /\ task' = [task EXCEPT ![held[e].task].state = outcome[e]]
  /\ held' = [held EXCEPT ![e] = None]
  /\ outcome' = [outcome EXCEPT ![e] = ""]
  /\ UNCHANGED <<queueVars, state, request, history>>

\* _finalize: the tally, then the live state, then the verdict it commits.
\* (A verdict equal to the state this session last loaded writes nothing.)
Tally(e) ==
  /\ Goto(e, "tally", "settle")
  /\ outcome' = [outcome EXCEPT ![e] = IF Unfinished # {} THEN "paused" ELSE "done"]
  /\ held' = [held EXCEPT ![e] = None]
  /\ UNCHANGED <<queueVars, rows, request, history>>

Settle(e) ==
  /\ \/ /\ state = "cancelled" /\ Goto(e, "settle", "idle")
        /\ outcome' = [outcome EXCEPT ![e] = ""]
     \/ /\ state # "cancelled" /\ Goto(e, "settle", "write")
        /\ outcome' = [outcome EXCEPT ![e] =
                         IF \E t \in Task : Retryable(t) THEN "paused" ELSE @]
  /\ UNCHANGED <<queueVars, rows, held, request, history>>

WriteVerdict(e) ==
  /\ Goto(e, "write", "idle")
  /\ state' = outcome[e]
  /\ outcome' = [outcome EXCEPT ![e] = ""]
  /\ UNCHANGED <<queueVars, task, held, request, history>>

\* execute_run's last except-clause.
RecordFailure(e) ==
  /\ Goto(e, "handler", "idle")
  /\ state' = "failed"
  /\ held' = [held EXCEPT ![e] = None]
  /\ outcome' = [outcome EXCEPT ![e] = ""]
  /\ UNCHANGED <<queueVars, task, request, history>>

\* The database fails under an executor.  In the prologue nothing catches it;
\* in line the ticket is left behind, for only _Stopped releases it; when the
\* task's first commit fails, the task's own except-clause takes over.
DbFault(e) ==
  /\ mishaps < MaxMishaps /\ mishaps' = mishaps + 1
  /\ \/ Goto(e, "begin", "idle") /\ UNCHANGED <<outcome, stray>>
     \/ /\ \E p \in {"check", "pick", "reserve", "commit", "tally", "settle",
                     "write"} : Goto(e, p, "handler")
        /\ UNCHANGED <<outcome, stray>>
     \/ /\ Goto(e, "line", "handler") /\ stray' = stray \cup {e}
        /\ UNCHANGED outcome
     \/ /\ Goto(e, "granted", "release") /\ UNCHANGED stray
        /\ outcome' = [outcome EXCEPT ![e] = "failed"]
  /\ UNCHANGED <<queueVars, rows, held, request, overlap, contested>>

\* The process dies and comes up again; start-up repairs nothing.
Crash ==
  /\ mishaps < MaxMishaps /\ mishaps' = mishaps + 1
  /\ pending' = <<>> /\ running' = 0 /\ acquired' = {}
  /\ pc' = [e \in Executor |-> "idle"]
  /\ held' = [e \in Executor |-> None]
  /\ outcome' = [e \in Executor |-> ""]
  /\ request' = "" /\ stray' = {}
  /\ UNCHANGED <<rows, overlap, contested>>

\* Interactive builds come and go.
Interactive(t) ==
  /\ Reserve(t) \/ Acquire(t) \/ Release(t)
  /\ UNCHANGED enrichVars

Execute(e) ==
  \/ Begin(e) \/ CheckRun(e) \/ PickTask(e) \/ ReserveSlot(e) \/ PollRun(e)
  \/ TakeSlot(e) \/ BeginTask(e) \/ Work(e) \/ GiveBack(e) \/ CommitTask(e)
  \/ Tally(e) \/ Settle(e) \/ WriteVerdict(e) \/ RecordFailure(e)

EnrichNext ==
  \/ \E e \in Executor : Start(e) \/ Execute(e) \/ DbFault(e)
  \/ AskPause \/ AskCancel \/ WriteRequest \/ Crash
  \/ \E t \in Ticket \ Background : Interactive(t)

\* Threads run, expansions end (their requests have timeouts), builds that
\* hold a slot give it back.  Nothing obliges the operator.
EnrichFairness ==
  /\ \A e \in Executor : WF_vars(Execute(e))
  /\ \A t \in Ticket \ Background :
       /\ WF_vars(Acquire(t) /\ UNCHANGED enrichVars)
       /\ WF_vars(GiveBackSlot(t) /\ UNCHANGED enrichVars)

EnrichSpec == EnrichInit /\ [][EnrichNext]_vars
FairEnrichSpec == EnrichSpec /\ EnrichFairness

-----------------------------------------------------------------------------
EnrichTypeOK ==
  /\ TypeOK
  /\ state \in RunState
  /\ task \in [Task -> [state : TaskState, attempts : 0..MaxAttempts]]
  /\ pc \in [Executor -> {"idle", "begin", "check", "pick", "reserve", "line",
                          "polled", "granted", "working", "release", "commit",
                          "tally", "settle", "write", "handler"}]
  /\ held \in [Executor -> [task : 0..Tasks, attempts : 0..MaxAttempts]]
  /\ outcome \in [Executor -> TaskState \cup RunState \cup {""}]
  /\ request \in {"", "paused", "cancelled"}

\* Paid work happens under a background slot and never in the slots kept for
\* interactive builds, however many executors there are, and an executor that is
\* not waiting for a slot or in a task has no ticket, unless the database failed
\* under it in line (_acquire_background_slot; execute_run's finally-block).
TicketsFollowExecutors ==
  /\ \A e \in Executor :
       /\ pc[e] \in {"granted", "working", "release"} => e \in acquired
       /\ e \in Waiting => pc[e] \in {"line", "polled"} \/ e \in stray
       /\ e \in acquired => pc[e] \in {"granted", "working", "release"}
  /\ Cardinality({e \in Executor : pc[e] = "working"}) <= Capacity - Reserved

\* Whatever stops an executor, it leaves nothing in the line
\* (buildqueue.BuildQueue.acquire: "the caller's finally-block releases the
\* ticket").
NothingLeftInLine == \A e \in Executor : e \in Waiting => pc[e] \in {"line", "polled"}

Settled(t) ==
  \/ task[t].state \in {"done", "probed_empty", "skipped"}
  \/ task[t].state = "failed" /\ task[t].attempts = MaxAttempts

\* What is finished, found empty, excluded or given up for good is not paid
\* for again, whatever pauses, failures, crashes and second executors lie
\* between; only a task that two executors had in hand at once may be
\* (_next_task, execute_run's loop).
SettledStays ==
  [][\A t \in Task : Settled(t) => task'[t] = task[t] \/ t \in contested]_vars

\* The same without exception: a restart picks up at the next pending task
\* "rather than re-paying for the first half" (executor.py:10).
SettledForGood == [][\A t \in Task : Settled(t) => task'[t] = task[t]]_vars

\* A run reported done has nothing left to do: `done` can never be started
\* again, so it must not strand a task, if the last start found no executor at
\* work (_finalize, _has_retryable_failures).
DoneMeansSettled == state = "done" /\ ~overlap => \A t \in Task : Settled(t)

\* Once interactive builds stop coming, an executor ends: it neither waits
\* for ever for a slot nor retries for ever, if no ticket was left in line.
ExecutorEnds ==
  <>[](Waiting \cup acquired \subseteq Background /\ stray = {}) =>
    \A e \in Executor : []<>(pc[e] = "idle")

\* An executor that stops with "paused" leaves work a later start can select:
\* paused is for a run that "stopped early" and is resumable (_finalize).
PausedIsResumable ==
  \A e \in Executor : pc[e] = "write" /\ outcome[e] = "paused" => Open # {}
=============================================================================
