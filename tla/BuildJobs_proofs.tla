-------------------------- MODULE BuildJobs_proofs --------------------------
(***************************************************************************)
(* The background jobs, for every set of jobs and every configuration of   *)
(* the queue: where a job's ticket is, what its record shows at each point *)
(* of its worker, and that what a client polls never goes back.            *)
(***************************************************************************)
EXTENDS BuildJobs, BuildQueue_proofs

Record == [status : Status, pct : 0..Full, cancel : BOOLEAN,
           usage : Int, old : BOOLEAN]

Typed ==
  /\ DOMAIN jobs \subseteq Job
  /\ jobs \in [DOMAIN jobs -> Record]
  /\ pc \in [Job -> PC]
  /\ steps \in [Job -> SUBSET (0..(Full - 1))]
  /\ window \in [Job -> [opened : Int, closed : Int]]

\* Where the ticket is while the worker is at p.  A worker that is on its way
\* out may have it in line or hold a slot.
TicketFits(p, j) ==
  /\ p \in {"none", "account", "exited"} => j \notin Waiting \cup acquired
  /\ p \in {"admitted", "queued", "ticked"} => j \in Waiting
  /\ p \in {"granted", "started", "building", "joining", "returned", "publish"}
       => j \in acquired

Tickets == \A j \in Job : TicketFits(pc[j], j)

Past == {"finally", "account", "exited"}
Busy == {"running", "cancelling"}

\* What a record may show while the worker is at p.  That a record which has
\* grown old is busy is what spares it from the sweep.
RecordFits(r, p, opened) ==
  /\ p \notin {"none", "admitted"}
  /\ p \in {"started", "building", "joining", "returned", "publish"} => r.status \in Busy
  /\ p \in Past <=> r.status \in Terminal
  /\ p \in Past => (r.cancel <=> r.status = "cancelled")
  /\ p = "cancelled" => r.cancel
  /\ r.old /\ p # "exited" => r.status \in Busy
  /\ r.pct = Full <=> r.status = "done"
  /\ r.usage # NotSeen <=> p = "exited" /\ opened # NotSeen

Ledger(j) ==
  /\ pc[j] \notin {"none", "admitted", "exited"} => j \in DOMAIN jobs
  /\ j \in DOMAIN jobs => RecordFits(jobs[j], pc[j], window[j].opened)
  /\ pc[j] = "account" => window[j].opened # NotSeen

\* The strengthening that is inductive.
JInv == IInv /\ Typed /\ Tickets /\ \A j \in Job : Ledger(j)

\* What a step may do to a record that stays in the table.
Forward(j) ==
  j \in DOMAIN jobs \cap DOMAIN jobs' =>
    /\ jobs[j].status \in Terminal => jobs'[j].status = jobs[j].status
    /\ jobs[j].cancel => jobs'[j].cancel
    /\ jobs'[j].pct >= jobs[j].pct
    /\ jobs'[j].pct = Full <=> jobs'[j].status = "done"

\* A step of job j leaves the other jobs alone.
Apart(j) ==
  \A k \in Job \ {j} :
    /\ k \in DOMAIN jobs' <=> k \in DOMAIN jobs
    /\ k \in DOMAIN jobs => jobs'[k] = jobs[k]
    /\ pc'[k] = pc[k] /\ window'[k] = window[k]

StepFits(j) == Typed' /\ Apart(j) /\ Ledger(j)' /\ Forward(j)

-----------------------------------------------------------------------------
(* The two halves of _update_job.                                          *)

LEMMA StatusWritten ==
  ASSUME NEW r \in Record, NEW st \in Status
  PROVE  LET n == WithStatus(r, st) IN
         /\ n \in Record /\ n.cancel = r.cancel /\ n.usage = r.usage /\ ~n.old
         /\ n.status = IF r.cancel /\ st \in {"done", "error"} THEN "cancelled" ELSE st
         /\ n.pct = IF st = "done" /\ ~r.cancel THEN Full ELSE r.pct
<1>0. Full \in 0..Full /\ "cancelled" \in Status
  BY BuildJobsAssumption DEF Status, Terminal
<1> DEFINE status == IF r.cancel /\ st \in {"done", "error"} THEN "cancelled" ELSE st
           pct == IF st = "done" /\ ~r.cancel THEN Full ELSE r.pct
<1>1. status \in Status /\ pct \in 0..Full BY <1>0 DEF Record
<1>2. WithStatus(r, st) = [r EXCEPT !.status = status, !.pct = pct, !.old = FALSE]
  BY DEF WithStatus
<1> HIDE DEF status, pct
<1>3. /\ WithStatus(r, st) \in Record
      /\ WithStatus(r, st).cancel = r.cancel /\ WithStatus(r, st).usage = r.usage
      /\ ~WithStatus(r, st).old
      /\ WithStatus(r, st).status = status /\ WithStatus(r, st).pct = pct
  BY <1>1, <1>2 DEF Record
<1> QED BY <1>3 DEF status, pct

LEMMA ProgressWritten ==
  ASSUME NEW r \in Record, NEW p \in 0..(Full - 1)
  PROVE  LET n == WithProgress(r, p) IN
         /\ n \in Record /\ n.cancel = r.cancel /\ n.usage = r.usage
         /\ n.status = r.status /\ (n.old => r.old)
         /\ n.pct >= r.pct /\ (n.pct = Full <=> r.pct = Full)
<1>1. r.pct \in Int /\ p \in Int /\ Full \in Nat \ {0}
  BY BuildJobsAssumption DEF Record
<1>2. /\ Max({r.pct, p}) \in {r.pct, p}
      /\ Max({r.pct, p}) >= r.pct /\ Max({r.pct, p}) >= p
  BY <1>1, MaxOfTwo, Zenon
<1> DEFINE m == Max({r.pct, p})
<1>3. m \in 0..Full /\ m >= r.pct /\ (m = Full <=> r.pct = Full)
  BY <1>1, <1>2 DEF Record
<1> HIDE DEF m
<1>4. CASE r.status \in {"cancelling", "cancelled"}
  BY <1>1, <1>4 DEF WithProgress, Record
<1>5. CASE r.status \notin {"cancelling", "cancelled"}
  <2>1. WithProgress(r, p) = [r EXCEPT !.pct = m, !.old = FALSE]
    BY <1>5 DEF WithProgress, m
  <2> QED BY <1>3, <2>1 DEF Record
<1> QED BY <1>4, <1>5

\* The number of other builds is never the mark for "not seen".
LEMMA OthersSeen == TypeOK => Others \in Nat
<1> SUFFICES ASSUME TypeOK PROVE Others \in Nat
  OBVIOUS
<1>1. 0 \in Int /\ running - 1 \in Int BY DEF TypeOK
<1>2. Max({0, running - 1}) \in {0, running - 1} /\ Max({0, running - 1}) >= 0
  BY <1>1, MaxOfTwo, Zenon
<1> QED BY <1>1, <1>2 DEF Others

-----------------------------------------------------------------------------
(* The queue under the jobs.                                               *)

\* Every step of the jobs is a step of the queue or leaves it alone.
LEMMA JobsUseQueue == [JobsNext]_vars => [QueueNext]_queueVars
<1> SUFFICES ASSUME [JobsNext]_vars PROVE [QueueNext]_queueVars
  OBVIOUS
<1>1. Job \subseteq Ticket /\ Background \subseteq Ticket
  BY BuildQueueAssumption DEF Job
<1>2. ASSUME NEW j \in Job, Submit(j) PROVE QueueNext
  BY <1>1, <1>2 DEF Submit, QueueNext
<1>3. ASSUME NEW j \in Job, TakeSlot(j) PROVE QueueNext \/ UNCHANGED queueVars
  BY <1>1, <1>3 DEF TakeSlot, QueueNext
<1>4. ASSUME NEW j \in Job, Finally(j) PROVE QueueNext
  BY <1>1, <1>4 DEF Finally, QueueNext
<1>5. ASSUME NEW t \in Background, OtherWork(t) PROVE QueueNext
  BY <1>1, <1>5 DEF OtherWork, QueueNext
<1>6. ASSUME NEW j \in Job,
             \/ StartJob(j) \/ Tick(j) \/ MarkRunning(j) \/ OpenWindow(j) \/ PassStep(j)
             \/ ApplyStep(j) \/ AppendLog(j) \/ WindUp(j) \/ BuildEnds(j)
             \/ CloseForResult(j) \/ Publish(j) \/ AccountUsage(j) \/ CancelJob(j) \/ GrowOld(j)
      PROVE  UNCHANGED queueVars
  BY <1>6 DEF StartJob, Tick, MarkRunning, OpenWindow, PassStep, ApplyStep, AppendLog,
              WindUp, BuildEnds, CloseForResult, Publish, AccountUsage, CancelJob, GrowOld
<1>7. CASE UNCHANGED vars BY <1>7 DEF vars
<1> QED BY <1>2, <1>3, <1>4, <1>5, <1>6, <1>7 DEF JobsNext, Worker

-----------------------------------------------------------------------------
(* Where the tickets are.                                                  *)

\* A worker that moves and whose ticket moves with it.
LEMMA TicketMoves ==
  ASSUME Typed, Tickets, NEW j \in Job, NEW from, NEW to, Goto(j, from, to),
         \A k \in Job \ {j} : /\ k \in Waiting' <=> k \in Waiting
                              /\ k \in acquired' <=> k \in acquired,
         TicketFits(to, j)'
  PROVE  Tickets'
<1> SUFFICES ASSUME NEW k \in Job PROVE TicketFits(pc[k], k)'
  BY DEF Tickets
<1>1. pc' = [pc EXCEPT ![j] = to] /\ pc \in [Job -> PC] BY DEF Goto, Typed
<1>2. CASE k = j BY <1>1, <1>2 DEF TicketFits
<1>3. CASE k # j
  <2>1. pc'[k] = pc[k] BY <1>1, <1>3
  <2>2. TicketFits(pc[k], k) BY DEF Tickets
  <2> QED BY <1>3, <2>1, <2>2 DEF TicketFits
<1> QED BY <1>2, <1>3

LEMMA TicketsStep == JInv /\ [JobsNext]_vars => Tickets'
<1> SUFFICES ASSUME JInv, [JobsNext]_vars PROVE Tickets'
  OBVIOUS
<1>0. /\ IInv /\ Typed /\ Tickets
      /\ Job \subseteq Ticket /\ Background \subseteq Ticket
      /\ Waiting \cap acquired = {}
  BY BuildQueueAssumption DEF JInv, Job, IInv, SlotsAccounted
<1>1. ASSUME NEW j \in Job, Submit(j) PROVE Tickets'
  <2>1. Waiting' = Waiting \cup {j} /\ acquired' = acquired
    BY <1>0, <1>1, WhenReserved DEF Submit
  <2>2. TicketFits("admitted", j)' BY <2>1 DEF TicketFits
  <2> QED BY <1>0, <1>1, <2>1, <2>2, TicketMoves DEF Submit
<1>2. ASSUME NEW j \in Job, TakeSlot(j) PROVE Tickets'
  <2>1. CASE Acquire(j) /\ Goto(j, "ticked", "granted")
    <3>1. Waiting' = Waiting \ {j} /\ acquired' = acquired \cup {j}
      BY <1>0, <2>1, WhenAcquired
    <3>2. TicketFits("granted", j)' BY <3>1 DEF TicketFits
    <3> QED BY <1>0, <2>1, <3>1, <3>2, TicketMoves
  <2>2. CASE Goto(j, "ticked", "queued") /\ UNCHANGED queueVars
    <3>1. Waiting' = Waiting /\ acquired' = acquired
      BY <2>2 DEF queueVars, Waiting
    <3>2. TicketFits("queued", j)'
      BY <1>0, <2>2, <3>1 DEF Goto, Tickets, TicketFits
    <3> QED BY <1>0, <2>2, <3>1, <3>2, TicketMoves
  <2> QED BY <1>2, <2>1, <2>2 DEF TakeSlot
<1>3. ASSUME NEW j \in Job, Finally(j) PROVE Tickets'
  <2>1. Waiting' = Waiting \ {j} /\ acquired' = acquired \ {j}
    BY <1>0, <1>3, WhenReleased DEF Finally
  <2>2. TicketFits("exited", j)' /\ TicketFits("account", j)'
    BY <2>1 DEF TicketFits
  <2>3. Goto(j, "finally", "exited") \/ Goto(j, "finally", "account")
    BY <1>3 DEF Finally, Goto
  <2> QED BY <1>0, <2>1, <2>2, <2>3, TicketMoves
<1>4. ASSUME NEW t \in Background, OtherWork(t) PROVE Tickets'
  <2>1. /\ \/ Waiting' = Waiting \cup {t} /\ acquired' = acquired
           \/ Waiting' = Waiting \ {t} /\ acquired' = acquired \cup {t}
           \/ Waiting' = Waiting \ {t} /\ acquired' = acquired \ {t}
        /\ pc' = pc
    BY <1>0, <1>4, WhenReserved, WhenAcquired, WhenReleased DEF OtherWork, jobVars
  <2>2. \A k \in Job : k # t BY DEF Job
  <2> QED BY <1>0, <2>1, <2>2 DEF Tickets, TicketFits
<1>5. ASSUME UNCHANGED queueVars, NEW j \in Job,
             \/ StartJob(j) \/ Tick(j) \/ MarkRunning(j) \/ OpenWindow(j)
             \/ WindUp(j) \/ BuildEnds(j) \/ CloseForResult(j)
             \/ Publish(j) \/ AccountUsage(j)
      PROVE  Tickets'
  <2>1. Waiting' = Waiting /\ acquired' = acquired
    BY <1>5 DEF queueVars, Waiting
  <2>2. TicketFits(pc[j], j) BY <1>0 DEF Tickets
  <2>3. PICK from, to : /\ Goto(j, from, to)
                        /\ TicketFits(from, j) => TicketFits(to, j)
    BY <1>5 DEF StartJob, Tick, MarkRunning, OpenWindow, WindUp, BuildEnds,
                CloseForResult, Publish, AccountUsage, TicketFits, Raised
  <2>4. TicketFits(to, j)' BY <2>1, <2>2, <2>3 DEF TicketFits, Goto
  <2> QED BY <1>0, <2>1, <2>3, <2>4, TicketMoves
<1>6. ASSUME UNCHANGED queueVars, UNCHANGED pc PROVE Tickets'
  BY <1>0, <1>6 DEF Tickets, TicketFits, Waiting, queueVars
<1> QED
  BY <1>1, <1>2, <1>3, <1>4, <1>5, <1>6
  DEF JobsNext, Worker, vars, jobVars, StartJob, Tick, MarkRunning, OpenWindow,
      PassStep, ApplyStep, AppendLog, WindUp, BuildEnds, CloseForResult, Publish,
      AccountUsage, CancelJob, GrowOld

-----------------------------------------------------------------------------
(* What the records show.                                                  *)

\* A step that touches only what is kept about j.
LEMMA LedgerMoves ==
  ASSUME \A k \in Job : Ledger(k), NEW j \in Job, Apart(j), Ledger(j)'
  PROVE  \A k \in Job : Ledger(k)'
<1> SUFFICES ASSUME NEW k \in Job, k # j PROVE Ledger(k)'
  OBVIOUS
<1>1. /\ k \in DOMAIN jobs' <=> k \in DOMAIN jobs
      /\ k \in DOMAIN jobs => jobs'[k] = jobs[k]
      /\ pc'[k] = pc[k] /\ window'[k] = window[k]
  BY DEF Apart
<1>2. Ledger(k) OBVIOUS
<1> QED BY <1>1, <1>2 DEF Ledger, RecordFits

\* A worker goes from one point to another.
LEMMA WorkerMoves ==
  ASSUME Typed, NEW j \in Job, NEW from, NEW to \in PC, Goto(j, from, to)
  PROVE  /\ pc[j] = from /\ pc'[j] = to /\ pc' \in [Job -> PC]
         /\ \A k \in Job \ {j} : pc'[k] = pc[k]
BY DEF Goto, Typed

\* Only the worker moves, to a point where its record may stay as it is.
LEMMA RecordStays ==
  ASSUME Typed, NEW j \in Job, Ledger(j), NEW from, NEW to \in PC, Goto(j, from, to),
         UNCHANGED <<jobs, steps, window>>,
         from \notin {"none", "admitted", "exited"}, to \notin {"none", "admitted"},
         j \in DOMAIN jobs => RecordFits(jobs[j], to, window[j].opened),
         to = "account" => window[j].opened # NotSeen
  PROVE  StepFits(j)
<1>1. /\ pc[j] = from /\ pc'[j] = to /\ pc' \in [Job -> PC]
      /\ \A k \in Job \ {j} : pc'[k] = pc[k]
  BY WorkerMoves
<1>2. Typed' BY <1>1 DEF Typed
<1>3. Apart(j) BY <1>1 DEF Apart
<1>4. Ledger(j)' BY <1>1 DEF Ledger, RecordFits
<1>5. Forward(j)
  <2> SUFFICES ASSUME j \in DOMAIN jobs
               PROVE  /\ jobs[j].pct >= jobs[j].pct
                      /\ (jobs[j].pct = Full <=> jobs[j].status = "done")
    BY DEF Forward
  <2>1. jobs[j].pct \in 0..Full BY DEF Typed, Record
  <2> QED BY <2>1, BuildJobsAssumption DEF RecordFits
<1> QED BY <1>2, <1>3, <1>4, <1>5 DEF StepFits

\* What is always so of the entry a step writes.
LEMMA EntryTyped ==
  ASSUME Typed, NEW j \in DOMAIN jobs
  PROVE  /\ j \in Job /\ jobs[j] \in Record /\ jobs[j].pct \in 0..Full
         /\ jobs[j].cancel \in BOOLEAN /\ jobs[j].old \in BOOLEAN
         /\ jobs[j].usage \in Int /\ jobs[j].status \in Status
BY DEF Typed, Record

\* The worker moves, or stays, and its record changes to r.
LEMMA RecordChanges ==
  ASSUME Typed, NEW j \in Job, Ledger(j), NEW r \in Record, NEW to \in PC,
         DOMAIN jobs' = DOMAIN jobs, j \in DOMAIN jobs => jobs'[j] = r,
         \A k \in DOMAIN jobs \ {j} : jobs'[k] = jobs[k],
         jobs' \in [DOMAIN jobs' -> Record],
         pc' = [pc EXCEPT ![j] = to], UNCHANGED window,
         steps' \in [Job -> SUBSET (0..(Full - 1))],
         pc[j] \notin {"none", "admitted", "exited"} \/ to = pc[j],
         j \in DOMAIN jobs =>
           /\ RecordFits(r, to, window[j].opened)
           /\ jobs[j].status \in Terminal => r.status = jobs[j].status
           /\ jobs[j].cancel => r.cancel
           /\ r.pct >= jobs[j].pct,
         to = "account" => window[j].opened # NotSeen
  PROVE  StepFits(j)
<1>1. /\ pc'[j] = to /\ pc' \in [Job -> PC]
      /\ \A k \in Job \ {j} : pc'[k] = pc[k]
  BY DEF Typed
<1>2. Typed' BY <1>1 DEF Typed
<1>3. Apart(j) BY <1>1 DEF Apart
<1>4. Ledger(j)' BY <1>1 DEF Ledger, RecordFits
<1>5. Forward(j) BY DEF Forward, RecordFits
<1> QED BY <1>2, <1>3, <1>4, <1>5 DEF StepFits

LEMMA StatusSet ==
  ASSUME Typed, NEW j \in Job, NEW st \in Status, SetStatus(j, st)
  PROVE  /\ DOMAIN jobs' = DOMAIN jobs /\ jobs' \in [DOMAIN jobs' -> Record]
         /\ j \in DOMAIN jobs => jobs'[j] = WithStatus(jobs[j], st)
         /\ \A k \in DOMAIN jobs \ {j} : jobs'[k] = jobs[k]
<1>1. \A k \in DOMAIN jobs : jobs[k] \in Record BY DEF Typed
<1>2. \A k \in DOMAIN jobs : WithStatus(jobs[k], st) \in Record BY <1>1, StatusWritten
<1> QED BY <1>1, <1>2 DEF SetStatus

LEMMA Reported ==
  ASSUME Typed, NEW j \in Job, NEW p \in 0..(Full - 1), Report(j, p)
  PROVE  /\ DOMAIN jobs' = DOMAIN jobs /\ jobs' \in [DOMAIN jobs' -> Record]
         /\ j \in DOMAIN jobs => jobs'[j] = WithProgress(jobs[j], p)
         /\ \A k \in DOMAIN jobs \ {j} : jobs'[k] = jobs[k]
<1>1. \A k \in DOMAIN jobs : jobs[k] \in Record BY DEF Typed
<1>2. \A k \in DOMAIN jobs : WithProgress(jobs[k], p) \in Record
  BY <1>1, ProgressWritten
<1> QED BY <1>1, <1>2 DEF Report

\* A report leaves the record fit for where the worker is, or goes next in line.
LEMMA ReportFits ==
  ASSUME Typed, NEW j \in Job, Ledger(j), NEW p \in 0..(Full - 1), Report(j, p),
         NEW to \in PC, pc' = [pc EXCEPT ![j] = to], UNCHANGED window,
         steps' \in [Job -> SUBSET (0..(Full - 1))],
         to = pc[j] \/ (pc[j] = "queued" /\ to = "ticked")
  PROVE  StepFits(j)
<1>1. /\ DOMAIN jobs' = DOMAIN jobs /\ jobs' \in [DOMAIN jobs' -> Record]
      /\ j \in DOMAIN jobs => jobs'[j] = WithProgress(jobs[j], p)
      /\ \A k \in DOMAIN jobs \ {j} : jobs'[k] = jobs[k]
  BY Reported
<1>2. to = "account" => window[j].opened # NotSeen BY DEF Ledger
<1>3. CASE j \in DOMAIN jobs
  <2> DEFINE r == WithProgress(jobs[j], p)
  <2>1. jobs[j] \in Record BY <1>3, EntryTyped
  <2>2. /\ r \in Record /\ r.cancel = jobs[j].cancel /\ r.usage = jobs[j].usage
        /\ r.status = jobs[j].status /\ (r.old => jobs[j].old)
        /\ r.pct >= jobs[j].pct /\ (r.pct = Full <=> jobs[j].pct = Full)
    BY <2>1, ProgressWritten
  <2> HIDE DEF r
  <2>3. RecordFits(r, to, window[j].opened)
    BY <1>3, <2>2 DEF Ledger, RecordFits, Past
  <2>4. j \in DOMAIN jobs => jobs'[j] = r BY <1>1 DEF r
  <2>5. pc[j] \notin {"none", "admitted", "exited"} \/ to = pc[j] OBVIOUS
  <2> QED BY <1>1, <1>2, <2>2, <2>3, <2>4, <2>5, RecordChanges
<1>4. CASE j \notin DOMAIN jobs
  <2>1. NewRecord \in Record BY BuildJobsAssumption DEF NewRecord, Record, Status, NotSeen
  <2>2. pc[j] \notin {"none", "admitted", "exited"} \/ to = pc[j] OBVIOUS
  <2> QED BY <1>1, <1>2, <1>4, <2>1, <2>2, RecordChanges
<1> QED BY <1>3, <1>4

-----------------------------------------------------------------------------
(* One lemma for each way a record changes.                                *)

LEMMA SubmitFits ==
  ASSUME Typed, NEW j \in Job, Ledger(j), Submit(j)
  PROVE  StepFits(j)
<1>1. /\ Goto(j, "none", "admitted") /\ "admitted" \in PC
      /\ UNCHANGED <<jobs, steps, window>>
  BY DEF Submit, PC
<1>2. /\ pc[j] = "none" /\ pc'[j] = "admitted" /\ pc' \in [Job -> PC]
      /\ \A k \in Job \ {j} : pc'[k] = pc[k]
  BY <1>1, WorkerMoves
<1>3. j \notin DOMAIN jobs BY <1>2 DEF Ledger, RecordFits
<1>4. Typed' BY <1>1, <1>2 DEF Typed
<1> QED BY <1>1, <1>2, <1>3, <1>4 DEF StepFits, Apart, Ledger, Forward

\* The ways a worker goes on without touching the table.
LEMMA WorkerFits ==
  ASSUME Typed, NEW j \in Job, Ledger(j), UNCHANGED <<jobs, steps, window>>,
         NEW from, NEW to, Goto(j, from, to),
         \/ from = "queued" /\ to = Raised(j) /\ CancelSeen(j)
         \/ from = "ticked" /\ to \in {"queued", "granted"}
         \/ from = "started" /\ to = Raised(j) /\ CancelSeen(j)
         \/ from = "building" /\ to = "joining"
         \/ from = "joining" /\ to \in {"error", "returned"}
         \/ from = "joining" /\ to = Raised(j) /\ CancelSeen(j)
         \/ /\ from = "finally"
            /\ to = IF window[j].opened = NotSeen THEN "exited" ELSE "account"
  PROVE  StepFits(j)
<1>1. pc[j] = from BY DEF Goto
<1>2. to \in PC /\ from \notin {"none", "admitted", "exited"} /\ to \notin {"none", "admitted"}
  BY DEF PC, Raised
<1>3. to = "account" => window[j].opened # NotSeen BY DEF Raised
<1>4. j \in DOMAIN jobs => RecordFits(jobs[j], to, window[j].opened)
  <2> SUFFICES ASSUME j \in DOMAIN jobs PROVE RecordFits(jobs[j], to, window[j].opened)
    OBVIOUS
  <2>1. RecordFits(jobs[j], from, window[j].opened) BY <1>1 DEF Ledger
  <2>2. to = "cancelled" => jobs[j].cancel BY DEF Raised, CancelSeen
  <2> QED BY <2>1, <2>2 DEF RecordFits, Past, Busy, Raised
<1> QED BY <1>2, <1>3, <1>4, RecordStays

LEMMA MarkRunningFits ==
  ASSUME Typed, NEW j \in Job, Ledger(j), MarkRunning(j)
  PROVE  StepFits(j)
<1>1. /\ pc[j] = "granted" /\ pc' = [pc EXCEPT ![j] = "started"] /\ "started" \in PC
      /\ "running" \in Status /\ SetStatus(j, "running") /\ UNCHANGED <<steps, window>>
  BY DEF MarkRunning, Goto, PC, Status
<1>2. /\ DOMAIN jobs' = DOMAIN jobs /\ jobs' \in [DOMAIN jobs' -> Record]
      /\ j \in DOMAIN jobs => jobs'[j] = WithStatus(jobs[j], "running")
      /\ \A k \in DOMAIN jobs \ {j} : jobs'[k] = jobs[k]
  BY <1>1, StatusSet
<1>3. j \in DOMAIN jobs BY <1>1 DEF Ledger
<1> DEFINE r == WithStatus(jobs[j], "running")
<1>4. jobs[j] \in Record /\ jobs[j].pct \in 0..Full BY <1>3, EntryTyped
<1>5. /\ r \in Record /\ r.cancel = jobs[j].cancel /\ r.usage = jobs[j].usage
      /\ ~r.old /\ r.status = "running" /\ r.pct = jobs[j].pct
  BY <1>1, <1>4, StatusWritten
<1>6. RecordFits(jobs[j], "granted", window[j].opened) BY <1>1, <1>3 DEF Ledger
<1>7. jobs'[j] = r BY <1>2, <1>3 DEF r
<1> HIDE DEF r
<1>8. RecordFits(r, "started", window[j].opened)
  BY <1>5, <1>6 DEF RecordFits, Past, Busy, Terminal
<1>9. /\ jobs[j].status \notin Terminal /\ r.pct >= jobs[j].pct
      /\ steps' \in [Job -> SUBSET (0..(Full - 1))]
  BY <1>1, <1>4, <1>5, <1>6, BuildJobsAssumption DEF RecordFits, Past, Typed
<1> QED BY <1>1, <1>2, <1>5, <1>7, <1>8, <1>9, RecordChanges

LEMMA PublishFits ==
  ASSUME Typed, NEW j \in Job, Ledger(j), Publish(j)
  PROVE  StepFits(j)
<1>1. PICK st \in {"done", "cancelled", "error"} :
        /\ pc[j] = IF st = "done" THEN "publish" ELSE st
        /\ pc' = [pc EXCEPT ![j] = "finally"] /\ SetStatus(j, st)
        /\ UNCHANGED <<steps, window>>
  BY DEF Publish, Goto
<1>2. st \in Status /\ "finally" \in PC BY DEF Status, Terminal, PC
<1>3. /\ DOMAIN jobs' = DOMAIN jobs /\ jobs' \in [DOMAIN jobs' -> Record]
      /\ j \in DOMAIN jobs => jobs'[j] = WithStatus(jobs[j], st)
      /\ \A k \in DOMAIN jobs \ {j} : jobs'[k] = jobs[k]
  BY <1>1, <1>2, StatusSet
<1>4. j \in DOMAIN jobs BY <1>1 DEF Ledger
<1> DEFINE r == WithStatus(jobs[j], st)
<1>5. /\ jobs[j] \in Record /\ jobs[j].pct \in 0..Full
      /\ jobs[j].cancel \in BOOLEAN
  BY <1>4, EntryTyped
<1>6. /\ r \in Record /\ r.cancel = jobs[j].cancel /\ r.usage = jobs[j].usage /\ ~r.old
      /\ r.status = IF r.cancel /\ st \in {"done", "error"} THEN "cancelled" ELSE st
      /\ r.pct = IF st = "done" /\ ~r.cancel THEN Full ELSE jobs[j].pct
  BY <1>2, <1>5, StatusWritten
<1>7. RecordFits(jobs[j], pc[j], window[j].opened) BY <1>4 DEF Ledger
<1>8. jobs'[j] = r BY <1>3, <1>4 DEF r
<1> HIDE DEF r
<1>9. jobs[j].status \notin Terminal /\ jobs[j].pct # Full /\ (st = "cancelled" => r.cancel)
  BY <1>1, <1>6, <1>7 DEF RecordFits, Past, Terminal
<1>10. RecordFits(r, "finally", window[j].opened)
  <2>1. r.status \in Terminal /\ (r.cancel <=> r.status = "cancelled")
    BY <1>5, <1>6, <1>9 DEF Terminal
  <2>2. r.pct = Full <=> r.status = "done" BY <1>6, <1>9
  <2>3. r.usage = NotSeen BY <1>1, <1>6, <1>7 DEF RecordFits
  <2> QED BY <1>6, <2>1, <2>2, <2>3 DEF RecordFits, Past
<1>11. r.pct >= jobs[j].pct /\ steps' \in [Job -> SUBSET (0..(Full - 1))]
  BY <1>1, <1>5, <1>6, BuildJobsAssumption DEF Typed
<1>12. pc[j] \notin {"none", "admitted", "exited"} BY <1>1
<1>13. j \in DOMAIN jobs =>
         /\ RecordFits(r, "finally", window[j].opened)
         /\ jobs[j].status \in Terminal => r.status = jobs[j].status
         /\ jobs[j].cancel => r.cancel
         /\ r.pct >= jobs[j].pct
  BY <1>6, <1>9, <1>10, <1>11
<1> QED BY <1>1, <1>2, <1>3, <1>6, <1>8, <1>11, <1>12, <1>13, RecordChanges

\* The worker moves and its window changes, but not the table.
LEMMA WindowFits ==
  ASSUME Typed, NEW j \in Job, Ledger(j), NEW from, NEW to \in PC, Goto(j, from, to),
         UNCHANGED <<jobs, steps>>, window' \in [Job -> [opened : Int, closed : Int]],
         \A k \in Job \ {j} : window'[k] = window[k],
         from \notin {"none", "admitted", "exited"}, to \notin {"none", "admitted", "account"},
         j \in DOMAIN jobs => RecordFits(jobs[j], to, window'[j].opened)
  PROVE  StepFits(j)
<1>1. /\ pc[j] = from /\ pc'[j] = to /\ pc' \in [Job -> PC]
      /\ \A k \in Job \ {j} : pc'[k] = pc[k]
  BY WorkerMoves
<1>2. Typed' BY <1>1 DEF Typed
<1>3. Apart(j) BY <1>1 DEF Apart
<1>4. Ledger(j)' BY <1>1 DEF Ledger, RecordFits
<1>5. Forward(j)
  <2> SUFFICES ASSUME j \in DOMAIN jobs
               PROVE  /\ jobs[j].pct >= jobs[j].pct
                      /\ jobs[j].pct = Full <=> jobs[j].status = "done"
    BY DEF Forward
  <2>1. jobs[j].pct \in 0..Full BY EntryTyped
  <2> QED BY <2>1, BuildJobsAssumption DEF RecordFits
<1> QED BY <1>2, <1>3, <1>4, <1>5 DEF StepFits

LEMMA OpenWindowFits ==
  ASSUME Typed, TypeOK, NEW j \in Job, Ledger(j), OpenWindow(j)
  PROVE  StepFits(j)
<1>1. CASE CancelSeen(j) /\ Goto(j, "started", Raised(j)) /\ UNCHANGED window
  BY <1>1, WorkerFits DEF OpenWindow
<1>2. CASE /\ Goto(j, "started", "building")
           /\ window' = [window EXCEPT ![j].opened = Others]
  <2>1. UNCHANGED <<jobs, steps>> /\ "building" \in PC BY DEF OpenWindow, PC
  <2>2. Others \in Int BY OthersSeen
  <2>3. /\ window' \in [Job -> [opened : Int, closed : Int]]
        /\ \A k \in Job \ {j} : window'[k] = window[k]
    BY <1>2, <2>2 DEF Typed
  <2>4. j \in DOMAIN jobs => RecordFits(jobs[j], "building", window'[j].opened)
    BY <1>2 DEF Ledger, RecordFits, Past, Goto
  <2> QED BY <1>2, <2>1, <2>3, <2>4, WindowFits
<1> QED BY <1>1, <1>2 DEF OpenWindow

LEMMA MaxOfThree ==
  ASSUME NEW a \in Int, NEW b \in Int, NEW c \in Int
  PROVE  Max({a, b, c}) \in Int
<1>1. PICK m \in {a, b, c} : \A y \in {a, b, c} : m >= y
  <2>1. CASE a >= b /\ a >= c BY <2>1
  <2>2. CASE b >= a /\ b >= c BY <2>2
  <2>3. CASE c >= a /\ c >= b BY <2>3
  <2> QED BY <2>1, <2>2, <2>3
<1> QED BY <1>1 DEF Max

LEMMA CloseFits ==
  ASSUME Typed, TypeOK, NEW j \in Job, Ledger(j), CloseForResult(j)
  PROVE  StepFits(j)
<1> DEFINE m == Max({window[j].closed, window[j].opened, Others})
<1>1. /\ Goto(j, "returned", "publish") /\ "publish" \in PC
      /\ UNCHANGED <<jobs, steps>>
      /\ window' = window \/ window' = [window EXCEPT ![j].closed = m]
  BY DEF CloseForResult, PC
<1>2. m \in Int
  <2>1. window[j].closed \in Int /\ window[j].opened \in Int /\ Others \in Int
    BY OthersSeen DEF Typed
  <2> QED BY <2>1, MaxOfThree
<1> HIDE DEF m
<1>3. /\ window' \in [Job -> [opened : Int, closed : Int]]
      /\ \A k \in Job \ {j} : window'[k] = window[k]
      /\ window'[j].opened = window[j].opened
  BY <1>1, <1>2 DEF Typed
<1>4. j \in DOMAIN jobs => RecordFits(jobs[j], "publish", window'[j].opened)
  BY <1>1, <1>3 DEF Ledger, RecordFits, Past, Goto
<1> QED BY <1>1, <1>3, <1>4, WindowFits

\* The spend is written whatever the status; it is never the mark for none.
LEMMA AccountFits ==
  ASSUME Typed, TypeOK, NEW j \in Job, Ledger(j), AccountUsage(j)
  PROVE  StepFits(j)
<1> DEFINE seen == IF window[j].closed = NotSeen
                   THEN Max({window[j].opened, Others}) ELSE window[j].closed
<1>1. /\ pc[j] = "account" /\ pc' = [pc EXCEPT ![j] = "exited"]
      /\ window' = [window EXCEPT ![j].closed = seen]
      /\ jobs' = [k \in DOMAIN jobs |->
                    IF k = j THEN [jobs[k] EXCEPT !.usage = seen] ELSE jobs[k]]
      /\ UNCHANGED steps
  BY DEF AccountUsage, Goto
<1>2. seen \in Int /\ seen # NotSeen
  <2>1. /\ window[j].closed \in Int /\ window[j].opened \in Int
        /\ Others \in Nat /\ Others \in Int
    BY OthersSeen DEF Typed
  <2>2. /\ Max({window[j].opened, Others}) \in {window[j].opened, Others}
        /\ Max({window[j].opened, Others}) >= Others
    BY <2>1, MaxOfTwo, Zenon
  <2> QED BY <2>1, <2>2 DEF NotSeen
<1> HIDE DEF seen
<1>3. /\ \A k \in DOMAIN jobs : jobs'[k] \in Record
      /\ DOMAIN jobs' = DOMAIN jobs /\ \A k \in DOMAIN jobs \ {j} : jobs'[k] = jobs[k]
  BY <1>1, <1>2 DEF Typed, Record
<1>4. /\ pc'[j] = "exited" /\ pc' \in [Job -> PC]
      /\ \A k \in Job \ {j} : pc'[k] = pc[k]
  BY <1>1 DEF Typed, PC
<1>5. /\ window' \in [Job -> [opened : Int, closed : Int]]
      /\ \A k \in Job \ {j} : window'[k] = window[k]
      /\ window'[j].opened = window[j].opened
  BY <1>1, <1>2 DEF Typed
<1>6. Typed'
  <2>1. jobs' \in [DOMAIN jobs' -> Record] BY <1>1, <1>3
  <2> QED BY <1>1, <1>3, <1>4, <1>5, <2>1 DEF Typed
<1>7. Apart(j) BY <1>3, <1>4, <1>5 DEF Apart
<1>8. ASSUME j \in DOMAIN jobs
      PROVE  /\ jobs[j] \in Record /\ jobs'[j] = [jobs[j] EXCEPT !.usage = seen]
             /\ jobs'[j].usage = seen /\ jobs'[j].status = jobs[j].status
             /\ jobs'[j].cancel = jobs[j].cancel /\ jobs'[j].old = jobs[j].old
             /\ jobs'[j].pct = jobs[j].pct /\ jobs[j].pct \in Nat
  BY <1>1, <1>8, EntryTyped, BuildJobsAssumption DEF Record
<1>9. Ledger(j)'
  <2>1. j \in DOMAIN jobs => RecordFits(jobs'[j], "exited", window[j].opened)
    BY <1>1, <1>2, <1>8 DEF Ledger, RecordFits, Past
  <2> QED BY <1>3, <1>4, <1>5, <2>1 DEF Ledger, RecordFits
<1>10. Forward(j)
  <2>1. j \in DOMAIN jobs => (jobs[j].pct = Full <=> jobs[j].status = "done")
    BY DEF Ledger, RecordFits
  <2> QED BY <1>8, <2>1 DEF Forward
<1> QED BY <1>6, <1>7, <1>9, <1>10 DEF StepFits

\* What the request threads and the clock do to a record: it gets r, and its
\* worker stays where it is.
LEMMA CancelFits ==
  ASSUME Typed, NEW j \in Job, Ledger(j), CancelJob(j)
  PROVE  StepFits(j)
<1> DEFINE r == [jobs[j] EXCEPT !.cancel = TRUE, !.status = "cancelling", !.old = FALSE]
<1>1. /\ j \in DOMAIN jobs /\ jobs[j].status \notin Terminal
      /\ jobs' = [jobs EXCEPT ![j] = r]
      /\ UNCHANGED <<pc, steps, window>>
  BY DEF CancelJob
<1>2. jobs[j] \in Record /\ jobs[j].pct \in 0..Full BY <1>1, EntryTyped
<1>3. /\ r \in Record /\ r.cancel = TRUE /\ r.status = "cancelling" /\ r.old = FALSE
      /\ r.pct = jobs[j].pct /\ r.usage = jobs[j].usage
  BY <1>2 DEF Record, Status
<1> HIDE DEF r
<1>4. /\ DOMAIN jobs' = DOMAIN jobs /\ jobs'[j] = r
      /\ \A k \in DOMAIN jobs \ {j} : jobs'[k] = jobs[k]
      /\ jobs' \in [DOMAIN jobs' -> Record]
  BY <1>1, <1>3 DEF Typed
<1>5. RecordFits(r, pc[j], window[j].opened)
  BY <1>1, <1>3 DEF Ledger, RecordFits, Past, Busy, Terminal
<1>6. /\ pc[j] \in PC /\ pc' = [pc EXCEPT ![j] = pc[j]] /\ UNCHANGED window
      /\ steps' \in [Job -> SUBSET (0..(Full - 1))]
      /\ pc[j] = "account" => window[j].opened # NotSeen
  BY <1>1 DEF Typed, Ledger
<1>7. r.pct >= jobs[j].pct BY <1>2, <1>3, BuildJobsAssumption
<1>8. j \in DOMAIN jobs =>
        /\ RecordFits(r, pc[j], window[j].opened)
        /\ jobs[j].status \in Terminal => r.status = jobs[j].status
        /\ jobs[j].cancel => r.cancel
        /\ r.pct >= jobs[j].pct
  BY <1>1, <1>3, <1>5, <1>7
<1> QED BY <1>3, <1>4, <1>6, <1>8, RecordChanges

LEMMA AgeFits ==
  ASSUME Typed, NEW j \in Job, Ledger(j), AppendLog(j) \/ GrowOld(j)
  PROVE  StepFits(j)
<1>1. PICK old \in BOOLEAN :
        /\ jobs' = [jobs EXCEPT ![j] = [jobs[j] EXCEPT !.old = old]]
        /\ old => pc[j] \in {"building", "joining", "exited"}
        /\ j \in DOMAIN jobs
        /\ UNCHANGED <<pc, steps, window>>
  BY DEF AppendLog, GrowOld
<1> DEFINE r == [jobs[j] EXCEPT !.old = old]
<1>2. jobs[j] \in Record /\ jobs[j].pct \in 0..Full BY <1>1, EntryTyped
<1>3. /\ r \in Record /\ r.cancel = jobs[j].cancel /\ r.status = jobs[j].status
      /\ r.old = old /\ r.pct = jobs[j].pct /\ r.usage = jobs[j].usage
  BY <1>2 DEF Record
<1>4. jobs' = [jobs EXCEPT ![j] = r] BY <1>1
<1> HIDE DEF r
<1>5. /\ DOMAIN jobs' = DOMAIN jobs /\ jobs'[j] = r
      /\ \A k \in DOMAIN jobs \ {j} : jobs'[k] = jobs[k]
      /\ jobs' \in [DOMAIN jobs' -> Record]
  BY <1>1, <1>3, <1>4 DEF Typed
<1>6. RecordFits(r, pc[j], window[j].opened)
  BY <1>1, <1>3 DEF Ledger, RecordFits
<1>7. /\ pc[j] \in PC /\ pc' = [pc EXCEPT ![j] = pc[j]] /\ UNCHANGED window
      /\ steps' \in [Job -> SUBSET (0..(Full - 1))]
      /\ pc[j] = "account" => window[j].opened # NotSeen
  BY <1>1 DEF Typed, Ledger
<1>8. r.pct >= jobs[j].pct BY <1>2, <1>3, BuildJobsAssumption
<1> QED BY <1>3, <1>5, <1>6, <1>7, <1>8, RecordChanges

LEMMA TickFits ==
  ASSUME Typed, NEW j \in Job, Ledger(j), Tick(j)
  PROVE  StepFits(j)
<1>1. CASE CancelSeen(j) /\ Goto(j, "queued", Raised(j)) /\ UNCHANGED jobs
  BY <1>1, WorkerFits DEF Tick
<1>2. CASE Goto(j, "queued", "ticked") /\ Report(j, 0)
  <2>1. 0 \in 0..(Full - 1) /\ "ticked" \in PC BY BuildJobsAssumption DEF PC
  <2>2. /\ UNCHANGED window /\ steps' \in [Job -> SUBSET (0..(Full - 1))]
        /\ pc[j] = "queued" /\ pc' = [pc EXCEPT ![j] = "ticked"]
    BY <1>2 DEF Tick, Typed, Goto
  <2> QED BY <1>2, <2>1, <2>2, ReportFits
<1> QED BY <1>1, <1>2 DEF Tick

LEMMA StepsFit ==
  ASSUME Typed, NEW j \in Job, Ledger(j), PassStep(j) \/ ApplyStep(j)
  PROVE  StepFits(j)
<1>1. CASE PassStep(j)
  <2>1. PICK p \in 0..(Full - 1) : steps' = [steps EXCEPT ![j] = @ \cup {p}]
    BY <1>1 DEF PassStep
  <2>2. steps' \in [Job -> SUBSET (0..(Full - 1))] BY <2>1 DEF Typed
  <2>3. UNCHANGED <<jobs, pc, window>> BY <1>1 DEF PassStep
  <2>4. Typed' /\ Apart(j) /\ Ledger(j)'
    BY <2>2, <2>3 DEF Typed, Apart, Ledger, RecordFits
  <2>5. Forward(j)
    <3> SUFFICES ASSUME j \in DOMAIN jobs
                 PROVE  /\ jobs[j].pct >= jobs[j].pct
                        /\ jobs[j].pct = Full <=> jobs[j].status = "done"
      BY <2>3 DEF Forward
    <3>1. jobs[j].pct \in 0..Full BY EntryTyped
    <3> QED BY <3>1, BuildJobsAssumption DEF Ledger, RecordFits
  <2> QED BY <2>4, <2>5 DEF StepFits
<1>2. CASE ApplyStep(j)
  <2>1. PICK p \in steps[j] : Report(j, p) /\ steps' = [steps EXCEPT ![j] = @ \ {p}]
    BY <1>2 DEF ApplyStep
  <2>2. p \in 0..(Full - 1) /\ steps' \in [Job -> SUBSET (0..(Full - 1))]
    BY <2>1 DEF Typed
  <2>3. UNCHANGED window /\ pc[j] \in PC /\ pc' = [pc EXCEPT ![j] = pc[j]]
    BY <1>2 DEF ApplyStep, Typed
  <2> QED BY <2>1, <2>2, <2>3, ReportFits
<1> QED BY <1>1, <1>2

\* The sweep that comes with a new job takes only records of workers that
\* have exited.
LEMMA StartFits ==
  ASSUME Typed, NEW j \in Job, \A k \in Job : Ledger(k), StartJob(j)
  PROVE  /\ Typed' /\ \A k \in Job : Ledger(k)'
         /\ \A k \in Job : Forward(k)
<1>1. /\ pc[j] = "admitted" /\ pc'[j] = "queued" /\ pc' \in [Job -> PC]
      /\ \A k \in Job \ {j} : pc'[k] = pc[k]
      /\ UNCHANGED <<steps, window>>
      /\ DOMAIN jobs' = Kept \cup {j}
      /\ jobs'[j] = NewRecord
      /\ \A k \in Kept \ {j} : jobs'[k] = jobs[k]
  BY DEF StartJob, Goto, Typed, PC
<1>2. j \notin DOMAIN jobs BY <1>1 DEF Ledger, RecordFits
<1>3. Kept \subseteq DOMAIN jobs /\ Kept \subseteq Job BY DEF Kept, Typed
<1>4. NewRecord \in Record
  BY BuildJobsAssumption DEF NewRecord, Record, Status, NotSeen
<1>5. \A k \in DOMAIN jobs' : jobs'[k] \in Record
  BY <1>1, <1>3, <1>4 DEF Typed
<1>6. Typed'
  <2>1. jobs' \in [DOMAIN jobs' -> Record] BY <1>5 DEF StartJob
  <2> QED BY <1>1, <1>3, <2>1 DEF Typed
<1>7. Ledger(j)'
  <2>1. RecordFits(NewRecord, "queued", window[j].opened)
    BY BuildJobsAssumption DEF RecordFits, NewRecord, Past, Terminal
  <2> QED BY <1>1, <2>1 DEF Ledger, RecordFits
<1>8. ASSUME NEW k \in Job, k # j PROVE Ledger(k)'
  <2>1. Ledger(k) /\ pc'[k] = pc[k] /\ window'[k] = window[k] BY <1>1, <1>8
  <2>2. k \in DOMAIN jobs' => k \in DOMAIN jobs /\ jobs'[k] = jobs[k]
    BY <1>1, <1>3, <1>8
  <2>3. ASSUME pc[k] \notin {"none", "admitted", "exited"} PROVE k \in DOMAIN jobs'
    <3>1. k \in DOMAIN jobs /\ (jobs[k].old => jobs[k].status \in Busy)
      BY <2>1, <2>3 DEF Ledger, RecordFits
    <3> QED BY <1>1, <3>1 DEF Kept, Busy
  <2> QED BY <2>1, <2>2, <2>3 DEF Ledger, RecordFits
<1>9. ASSUME NEW k \in Job PROVE Forward(k)
  <2> SUFFICES ASSUME k \in DOMAIN jobs, k \in DOMAIN jobs'
               PROVE  /\ jobs'[k] = jobs[k] /\ jobs[k].pct >= jobs[k].pct
                      /\ jobs[k].pct = Full <=> jobs[k].status = "done"
    BY DEF Forward
  <2>1. jobs[k].pct \in 0..Full /\ Ledger(k) BY EntryTyped
  <2> QED BY <1>1, <1>2, <1>3, <2>1, BuildJobsAssumption DEF Ledger, RecordFits
<1> QED BY <1>6, <1>7, <1>8, <1>9

-----------------------------------------------------------------------------
(* All steps together.                                                     *)

\* Every step but the start of a job touches what is kept about one job only.
LEMMA OneJobFits ==
  ASSUME Typed, TypeOK, NEW j \in Job, Ledger(j),
         \/ Submit(j) \/ Worker(j) \/ PassStep(j) \/ AppendLog(j) \/ CancelJob(j)
         \/ GrowOld(j)
  PROVE  StepFits(j)
<1>1. CASE TakeSlot(j)
  <2>1. /\ UNCHANGED <<jobs, steps, window>>
        /\ Goto(j, "ticked", "granted") \/ Goto(j, "ticked", "queued")
    BY <1>1 DEF TakeSlot
  <2> QED BY <2>1, WorkerFits
<1>2. CASE WindUp(j)
  <2>1. UNCHANGED <<jobs, steps, window>> /\ Goto(j, "building", "joining")
    BY <1>2 DEF WindUp
  <2> QED BY <2>1, WorkerFits
<1>3. CASE BuildEnds(j)
  <2>1. /\ UNCHANGED <<jobs, steps, window>>
        /\ \/ Goto(j, "joining", "error") \/ Goto(j, "joining", "returned")
           \/ Goto(j, "joining", Raised(j)) /\ CancelSeen(j)
    BY <1>3 DEF BuildEnds
  <2> QED BY <2>1, WorkerFits
<1>4. CASE Finally(j)
  <2>1. /\ UNCHANGED <<jobs, steps, window>>
        /\ Goto(j, "finally", IF window[j].opened = NotSeen THEN "exited" ELSE "account")
    BY <1>4 DEF Finally
  <2> QED BY <2>1, WorkerFits
<1> QED
  BY <1>1, <1>2, <1>3, <1>4, SubmitFits, MarkRunningFits, PublishFits, OpenWindowFits,
     CloseFits, AccountFits, CancelFits, AgeFits, TickFits, StepsFit
  DEF Worker

LEMMA LedgersStep ==
  JInv /\ [JobsNext]_vars =>
    /\ Typed' /\ \A j \in Job : Ledger(j)'
    /\ \A j \in Job : Forward(j)
<1> SUFFICES ASSUME JInv, [JobsNext]_vars
             PROVE  /\ Typed' /\ \A j \in Job : Ledger(j)'
                    /\ \A j \in Job : Forward(j)
  OBVIOUS
<1>0. Typed /\ TypeOK /\ \A j \in Job : Ledger(j) BY DEF JInv, IInv
\* A record that a step leaves as it is does not go back.
<1>1. ASSUME NEW k \in Job, k \in DOMAIN jobs => jobs'[k] = jobs[k]
      PROVE  Forward(k)
  <2> SUFFICES ASSUME k \in DOMAIN jobs
               PROVE  /\ jobs[k].pct >= jobs[k].pct
                      /\ jobs[k].pct = Full <=> jobs[k].status = "done"
    BY <1>1 DEF Forward
  <2>1. jobs[k].pct \in 0..Full /\ Ledger(k) BY <1>0, EntryTyped
  <2> QED BY <2>1, BuildJobsAssumption DEF Ledger, RecordFits
<1>2. ASSUME NEW j \in Job,
             \/ Submit(j) \/ Worker(j) \/ PassStep(j) \/ AppendLog(j) \/ CancelJob(j)
             \/ GrowOld(j)
      PROVE  /\ Typed' /\ \A k \in Job : Ledger(k)'
             /\ \A k \in Job : Forward(k)
  <2>1. StepFits(j) BY <1>0, <1>2, OneJobFits
  <2>2. Typed' /\ Apart(j) /\ Ledger(j)' /\ Forward(j) BY <2>1 DEF StepFits
  <2>3. \A k \in Job : Ledger(k)' BY <1>0, <2>2, LedgerMoves
  <2>4. \A k \in Job \ {j} : Forward(k) BY <1>1, <2>2 DEF Apart
  <2> QED BY <2>2, <2>3, <2>4
<1>3. ASSUME NEW j \in Job, StartJob(j)
      PROVE  /\ Typed' /\ \A k \in Job : Ledger(k)'
             /\ \A k \in Job : Forward(k)
  BY <1>0, <1>3, StartFits
<1>4. CASE UNCHANGED jobVars
  <2>1. Typed' /\ \A k \in Job : Ledger(k)'
    BY <1>0, <1>4 DEF jobVars, Typed, Ledger, RecordFits
  <2> QED BY <1>1, <1>4, <2>1 DEF jobVars
<1> QED BY <1>2, <1>3, <1>4 DEF JobsNext, OtherWork, vars

LEMMA JobsInv == JobsSpec => []JInv
<1>1. JobsInit => JInv
  <2> SUFFICES ASSUME JobsInit PROVE JInv
    OBVIOUS
  <2>1. IInv BY InitInv DEF JobsInit
  <2>2. Typed BY DEF JobsInit, Typed, PC, NotSeen
  <2>3. Waiting = {} /\ acquired = {}
    BY EmptySeq DEF JobsInit, QueueInit, Waiting, Range
  <2>4. Tickets BY <2>3 DEF JobsInit, Tickets, TicketFits
  <2>5. \A j \in Job : Ledger(j) BY DEF JobsInit, Ledger
  <2> QED BY <2>1, <2>2, <2>4, <2>5 DEF JInv
<1>2. JInv /\ [JobsNext]_vars => JInv'
  <2>1. JInv /\ [JobsNext]_vars => IInv'
    BY JobsUseQueue, StepInv DEF JInv
  <2> QED BY <2>1, TicketsStep, LedgersStep DEF JInv
<1> QED BY <1>1, <1>2, PTL DEF JobsSpec

\* The jobs use the queue as it is meant to be used: whatever is proved of the
\* queue, its limits, its order and the pool it implements, holds of the jobs
\* (every reserve, acquire and release in main.py).
THEOREM JobsAreClients == JobsSpec => QueueSpec
<1>1. JobsInit => QueueInit BY DEF JobsInit
<1> QED BY <1>1, JobsUseQueue, PTL DEF JobsSpec, QueueSpec

\* The job table, the workers and the usage windows hold values of their
\* kinds (main.py, _JOBS, _new_job, _update_job, _UsageWindow).
THEOREM JobsAreTyped == JobsSpec => []JobsTypeOK
<1>1. JInv => JobsTypeOK BY DEF JInv, IInv, Typed, Record, JobsTypeOK
<1> QED BY <1>1, JobsInv, PTL

\* However a worker ends its ticket is gone, and nobody builds without a
\* slot, for any number of builds and any configuration of the queue.
THEOREM TicketsAreReturned == JobsSpec => []NoTicketAbandoned
<1>1. JInv => NoTicketAbandoned
  BY DEF JInv, Tickets, TicketFits, NoTicketAbandoned
<1> QED BY <1>1, JobsInv, PTL

\* A cancelled build is never shown as done or failed, wherever the cancel
\* lands between the worker's checks (_update_job).
THEOREM CancelIsHonoured == JobsSpec => []CancelHonoured
<1>1. JInv => CancelHonoured
  <2> SUFFICES ASSUME JInv, NEW j \in DOMAIN jobs, jobs[j].cancel
               PROVE  jobs[j].status \notin {"done", "error"}
    BY DEF CancelHonoured
  <2>1. j \in Job /\ RecordFits(jobs[j], pc[j], window[j].opened)
    BY DEF JInv, Typed, Ledger
  <2> QED BY <2>1 DEF RecordFits, Terminal
<1> QED BY <1>1, JobsInv, PTL

\* The sweep never takes the record of a job at work (_gc_jobs).
THEOREM WorkersAreListed == JobsSpec => []WorkerListed
<1>1. JInv => WorkerListed BY DEF JInv, Ledger, WorkerListed
<1> QED BY <1>1, JobsInv, PTL

\* A job whose worker has exited shows its outcome and its spend, on every
\* path through the except-clauses and the finally-block (_run_connect_job).
THEOREM ExitsSettle == JobsSpec => []ExitSettles
<1>1. JInv => ExitSettles
  <2> SUFFICES ASSUME JInv, NEW j \in DOMAIN jobs, pc[j] = "exited"
               PROVE  /\ jobs[j].status \in Terminal
                      /\ jobs[j].cancel <=> jobs[j].status = "cancelled"
                      /\ window[j].opened # NotSeen <=> jobs[j].usage # NotSeen
    BY DEF ExitSettles
  <2>1. j \in Job /\ RecordFits(jobs[j], "exited", window[j].opened)
    BY DEF JInv, Typed, Ledger
  <2> QED BY <2>1 DEF RecordFits, Past
<1> QED BY <1>1, JobsInv, PTL

\* What a client polls never goes back, whichever of a build's threads report
\* and in which order (_update_job, _check_job_cancelled).
THEOREM PollsNeverGoBack == JobsSpec => NeverGoesBack
<1>1. JInv /\ [JobsNext]_vars =>
        [\A j \in DOMAIN jobs \cap DOMAIN jobs' :
           /\ jobs[j].status \in Terminal => jobs'[j].status = jobs[j].status
           /\ jobs[j].cancel => jobs'[j].cancel
           /\ jobs'[j].pct >= jobs[j].pct
           /\ jobs'[j].pct = Full <=> jobs'[j].status = "done"]_vars
  <2>1. JInv /\ [JobsNext]_vars => \A j \in DOMAIN jobs : j \in Job /\ Forward(j)
    BY LedgersStep DEF JInv, Typed
  <2> QED BY <2>1 DEF Forward
<1> QED BY <1>1, JobsInv, PTL DEF JobsSpec, NeverGoesBack
=============================================================================
