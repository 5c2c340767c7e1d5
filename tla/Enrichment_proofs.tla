-------------------------- MODULE Enrichment_proofs --------------------------
(***************************************************************************)
(* An enrichment run, for every plan, every set of executors, overlapping  *)
(* or not, and every configuration of the queue, with crashes and database *)
(* errors wherever the code can meet them: where an executor's ticket is,  *)
(* what it holds at each point, which settled tasks may be touched again,  *)
(* and when done leaves no task behind.                                    *)
(***************************************************************************)
EXTENDS Enrichment, BuildQueue_proofs, WellFoundedInduction

PC == {"idle", "begin", "check", "pick", "reserve", "line", "polled", "granted",
       "working", "release", "commit", "tally", "settle", "write", "handler"}
TaskRow == [state : TaskState, attempts : 0..MaxAttempts]
Holding == [task : 0..Tasks, attempts : 0..MaxAttempts]

\* The executor has a task in hand and has not begun it.
Choosing == {"reserve", "line", "polled", "granted"}

Typed ==
  /\ state \in RunState
  /\ task \in [Task -> TaskRow]
  /\ \A t \in Task : task[t].state = "pending" => task[t].attempts = 0
  /\ pc \in [Executor -> PC]
  /\ held \in [Executor -> Holding]
  /\ outcome \in [Executor -> TaskState \cup RunState \cup {""}]
  /\ request \in {"", "paused", "cancelled"}

\* What an executor at p has in hand: a task that has attempts left, then the
\* state it will write to the task, then the one it will write to the run.
HoldingFits(p, h, o) ==
  /\ p \in InTask => h.task \in Task
  /\ p \in Choosing => h.attempts < MaxAttempts
  /\ p \in {"release", "commit"} => o \in {"done", "failed", "probed_empty"}
  /\ p \in {"settle", "write"} => o \in {"paused", "done"}

Holdings == \A e \in Executor : HoldingFits(pc[e], held[e], outcome[e])

\* Where an executor's ticket is; left is whether it was left in line.
TicketFits(p, e, left) ==
  /\ e \in Waiting <=> p \in {"line", "polled"} \/ left
  /\ e \in acquired <=> p \in {"granted", "working", "release"}
  /\ left => p \in {"handler", "idle"}

Tickets == \A e \in Executor : TicketFits(pc[e], e, e \in stray)

\* Who has the same task in hand as another, or a settled one, is in a contest.
Contests ==
  \A e, f \in Executor :
    HasInHand(e, held[e].task) =>
      /\ e # f /\ HasInHand(f, held[e].task) => held[e].task \in contested
      /\ Settled(held[e].task) => held[e].task \in contested

EInv == IInv /\ Typed /\ Holdings /\ Tickets

\* What an executor relies on because no other is at work on the run.
WorkFits(e) ==
  /\ pc[e] = "settle" /\ outcome[e] = "done" => Unfinished = {}
  /\ pc[e] = "write" /\ outcome[e] = "done" => \A t \in Task : Settled(t)

Alone ==
  /\ \A e, f \in Executor : pc[e] # "idle" /\ pc[f] # "idle" => e = f
  /\ \A e \in Executor : WorkFits(e)
  /\ state = "done" =>
       (\A e \in Executor : pc[e] = "idle") /\ (\A t \in Task : Settled(t))

\* Since the last start, if it found nobody at work.
Solitude == ~overlap => Alone

\* A step of executor e leaves the others alone.
Apart(e) ==
  \A f \in Executor \ {e} :
    pc'[f] = pc[f] /\ held'[f] = held[f] /\ outcome'[f] = outcome[f]

Moves(e) == Apart(e) /\ Typed' /\ HoldingFits(pc[e], held[e], outcome[e])'

-----------------------------------------------------------------------------
(* What the selection of a task gives.                                     *)

LEMMA Givens ==
  /\ Tasks \in Nat /\ Task \subseteq Nat /\ MaxAttempts \in Nat \ {0}
  /\ 0 \in 0..MaxAttempts /\ 0 \in 0..Tasks /\ Task \subseteq 0..Tasks
  /\ Executor \subseteq Ticket
BY EnrichmentAssumption, BuildQueueAssumption DEF Task, Executor

\* Any numbers have a least one.
LEMMA LeastExists ==
  ASSUME NEW S \in SUBSET Nat, S # {}
  PROVE  Min(S) \in S
<1> DEFINE Below == {ss \in Nat \X Nat : ss[1] < ss[2]}
<1>1. IsWellFoundedOn(Below, Nat) BY NatLessThanWellFounded DEF OpToRel
<1>2. PICK m \in S : \A y \in S : <<y, m>> \notin Below
  <2> HIDE DEF Below
  <2> QED BY <1>1, WFMin
<1>3. ASSUME NEW y \in S PROVE m =< y
  <2>1. /\ <<y, m>> \in Nat \X Nat /\ <<y, m>>[1] = y /\ <<y, m>>[2] = m
    OBVIOUS
  <2>2. ~(y < m) BY <1>2, <2>1
  <2> QED BY <2>2
<1> QED BY <1>2, <1>3 DEF Min

\* The next task is one that is not settled and has attempts left.
LEMMA NextTaskIsOpen ==
  ASSUME Typed, Open # {}
  PROVE  /\ NextTask \in Task /\ ~Settled(NextTask)
         /\ task[NextTask].attempts \in 0..MaxAttempts
         /\ task[NextTask].attempts < MaxAttempts
<1>1. Open \in SUBSET Nat BY Givens DEF Open
<1>2. NextTask \in Open BY <1>1, LeastExists DEF NextTask
<1>3. NextTask \in Task /\ task[NextTask] \in TaskRow
  BY <1>2 DEF Open, Typed
<1>4. CASE task[NextTask].state = "pending"
  <2>1. task[NextTask].attempts = 0 BY <1>3, <1>4 DEF Typed
  <2> QED BY <1>3, <1>4, <2>1, Givens DEF Settled
<1>5. CASE Retryable(NextTask)
  BY <1>3, <1>5 DEF Retryable, Settled, TaskRow
<1> QED BY <1>2, <1>4, <1>5 DEF Open

-----------------------------------------------------------------------------
(* What an executor holds, action by action.                               *)

\* A step that writes no task.
LEMMA HandsMove ==
  ASSUME Typed, NEW e \in Executor, NEW from, NEW to \in PC, Goto(e, from, to),
         task' = task, state' \in RunState, request' = request,
         NEW h \in Holding, held' = [held EXCEPT ![e] = h],
         NEW o \in TaskState \cup RunState \cup {""},
         outcome' = [outcome EXCEPT ![e] = o],
         HoldingFits(to, h, o)
  PROVE  Moves(e)
<1>1. /\ pc' = [pc EXCEPT ![e] = to] /\ pc \in [Executor -> PC]
      /\ held \in [Executor -> Holding]
      /\ outcome \in [Executor -> TaskState \cup RunState \cup {""}]
  BY DEF Goto, Typed
<1>2. Apart(e) BY <1>1 DEF Apart
<1>3. Typed' BY <1>1 DEF Typed
<1>4. pc'[e] = to /\ held'[e] = h /\ outcome'[e] = o BY <1>1
<1>5. HoldingFits(pc[e], held[e], outcome[e])' BY <1>4 DEF HoldingFits
<1> QED BY <1>2, <1>3, <1>5 DEF Moves

\* A step that only goes on, with what is in hand.
LEMMA OnlyGoes ==
  ASSUME Typed, NEW e \in Executor, NEW from, NEW to \in PC, Goto(e, from, to),
         task' = task, state' \in RunState, request' = request,
         held' = held, outcome' = outcome,
         HoldingFits(to, held[e], outcome[e])
  PROVE  Moves(e)
<1>1. /\ held[e] \in Holding /\ held' = [held EXCEPT ![e] = held[e]]
      /\ outcome[e] \in TaskState \cup RunState \cup {""}
      /\ outcome' = [outcome EXCEPT ![e] = outcome[e]]
  BY DEF Typed
<1> QED BY <1>1, HandsMove

LEMMA Kinds ==
  /\ None \in Holding /\ "" \in TaskState \cup RunState \cup {""}
  /\ {"done", "failed", "probed_empty", "paused"} \subseteq TaskState \cup RunState
BY Givens DEF None, Holding, TaskState, RunState

LEMMA Unheld ==
  ASSUME NEW p \in PC \ (InTask \cup {"settle", "write"}), NEW h, NEW o
  PROVE  HoldingFits(p, h, o)
BY DEF HoldingFits, InTask, Choosing

LEMMA ExecuteMoves ==
  ASSUME Typed, Holdings, NEW e \in Executor,
         Start(e) \/ Execute(e) \/ DbFault(e)
  PROVE  Moves(e)
<1>0. /\ state \in RunState /\ held[e] \in Holding /\ HoldingFits(pc[e], held[e], outcome[e])
      /\ held \in [Executor -> Holding] /\ task \in [Task -> TaskRow]
      /\ outcome[e] \in TaskState \cup RunState \cup {""}
      /\ outcome \in [Executor -> TaskState \cup RunState \cup {""}]
      /\ pc \in [Executor -> PC]
  BY DEF Typed, Holdings
<1>s. /\ held' = held => held' = [held EXCEPT ![e] = held[e]]
      /\ outcome' = outcome => outcome' = [outcome EXCEPT ![e] = outcome[e]]
  BY <1>0
<1>1. ASSUME Start(e) PROVE Moves(e)
  <2>1. "running" \in RunState /\ "begin" \in PC \ (InTask \cup {"settle", "write"})
    BY DEF RunState, PC, InTask, Choosing
  <2> QED BY <1>1, <2>1, Unheld, OnlyGoes DEF Start
<1>2. ASSUME Begin(e) PROVE Moves(e)
  <2>1. "check" \in PC \ (InTask \cup {"settle", "write"})
    BY DEF PC, InTask, Choosing
  <2> QED BY <1>0, <1>2, <2>1, Unheld, OnlyGoes DEF Begin, rows
<1>3. ASSUME CheckRun(e) PROVE Moves(e)
  <2>1. {"tally", "pick"} \subseteq PC \ (InTask \cup {"settle", "write"})
    BY DEF PC, InTask, Choosing
  <2> QED BY <1>0, <1>3, <2>1, Unheld, OnlyGoes DEF CheckRun, rows
<1>4. ASSUME PickTask(e) PROVE Moves(e)
  <2>1. CASE Open = {} /\ Goto(e, "pick", "tally") /\ UNCHANGED held
    <3>1. "tally" \in PC \ (InTask \cup {"settle", "write"})
      BY DEF PC, InTask, Choosing
    <3> QED BY <1>0, <1>4, <2>1, <3>1, Unheld, OnlyGoes DEF PickTask, rows
  <2>2. CASE /\ Open # {} /\ Goto(e, "pick", "reserve")
             /\ held' = [held EXCEPT ![e] = [task |-> NextTask,
                                             attempts |-> task[NextTask].attempts]]
    <3> DEFINE h == [task |-> NextTask, attempts |-> task[NextTask].attempts]
    <3>1. /\ NextTask \in Task /\ task[NextTask].attempts \in 0..MaxAttempts
          /\ task[NextTask].attempts < MaxAttempts
      BY <2>2, NextTaskIsOpen
    <3>2. h \in Holding BY <3>1, Givens DEF Holding
    <3>3. HoldingFits("reserve", h, outcome[e])
      BY <3>1 DEF HoldingFits, InTask, Choosing
    <3>4. "reserve" \in PC BY DEF PC
    <3>5. held' = [held EXCEPT ![e] = h] BY <2>2
    <3>6. task' = task /\ state' = state /\ outcome' = outcome /\ request' = request
      BY <1>4 DEF PickTask, rows
    <3> HIDE DEF h
    <3> QED BY <1>0, <1>s, <2>2, <3>2, <3>3, <3>4, <3>5, <3>6, HandsMove
  <2> QED BY <1>4, <2>1, <2>2 DEF PickTask
<1>5. ASSUME ReserveSlot(e) \/ PollRun(e) \/ TakeSlot(e) PROVE Moves(e)
  <2>1. \E from \in Choosing, to \in {"tally", "line", "polled", "granted"} :
          Goto(e, from, to)
    BY <1>5 DEF ReserveSlot, PollRun, TakeSlot, Choosing
  <2>2. PICK from \in Choosing, to \in {"tally", "line", "polled", "granted"} :
          Goto(e, from, to)
    BY <2>1
  <2>3. UNCHANGED <<rows, held, outcome, request>>
    BY <1>5 DEF ReserveSlot, PollRun, TakeSlot
  <2>4. to \in PC BY DEF PC
  <2>5. HoldingFits(to, held[e], outcome[e])
    BY <1>0, <2>2 DEF HoldingFits, InTask, Choosing, Goto
  <2> QED BY <1>0, <2>2, <2>3, <2>4, <2>5, OnlyGoes DEF rows
<1>6. ASSUME BeginTask(e) PROVE Moves(e)
  <2>1. /\ Goto(e, "granted", "working") /\ pc[e] = "granted"
        /\ UNCHANGED <<state, held, outcome, request>>
    BY <1>6 DEF BeginTask, Goto
  <2>2. held[e].task \in Task /\ held[e].attempts + 1 \in 0..MaxAttempts
    <3>1. held[e].task \in Task /\ held[e].attempts < MaxAttempts
      BY <1>0, <2>1 DEF HoldingFits, InTask, Choosing
    <3>2. held[e].attempts \in 0..MaxAttempts BY <1>0 DEF Holding
    <3> QED BY <3>1, <3>2, Givens
  <2>3. [state |-> "enriching", attempts |-> held[e].attempts + 1] \in TaskRow
    BY <2>2 DEF TaskRow, TaskState
  <2>4. /\ task' \in [Task -> TaskRow]
        /\ \A t \in Task : task'[t].state = "pending" => task'[t].attempts = 0
    BY <1>0, <1>6, <2>3 DEF BeginTask, Typed
  <2>5. pc' = [pc EXCEPT ![e] = "working"] /\ "working" \in PC
    BY <2>1 DEF Goto, PC
  <2>6. Typed' BY <2>1, <2>4, <2>5 DEF Typed
  <2>7. Apart(e) BY <1>0, <2>1, <2>5 DEF Apart
  <2>8. HoldingFits(pc[e], held[e], outcome[e])'
    BY <1>0, <2>1, <2>2, <2>5 DEF HoldingFits, InTask, Choosing
  <2> QED BY <2>6, <2>7, <2>8 DEF Moves
<1>7. ASSUME Work(e) PROVE Moves(e)
  <2>1. PICK o \in {"done", "failed", "probed_empty"} :
          outcome' = [outcome EXCEPT ![e] = o]
    BY <1>7 DEF Work
  <2>2. Goto(e, "working", "release") /\ UNCHANGED <<rows, held, request>>
    BY <1>7 DEF Work
  <2>3. HoldingFits("release", held[e], o) /\ "release" \in PC
    BY <1>0, <2>2 DEF HoldingFits, InTask, Choosing, Goto, PC
  <2> QED BY <1>0, <1>s, <2>1, <2>2, <2>3, Kinds, HandsMove DEF rows
<1>8. ASSUME GiveBack(e) PROVE Moves(e)
  <2>1. /\ Goto(e, "release", "commit") /\ pc[e] = "release"
        /\ UNCHANGED <<rows, held, outcome, request>>
    BY <1>8 DEF GiveBack, Goto
  <2>2. HoldingFits("commit", held[e], outcome[e]) /\ "commit" \in PC
    BY <1>0, <2>1 DEF HoldingFits, InTask, Choosing, PC
  <2> QED BY <1>0, <2>1, <2>2, OnlyGoes DEF rows
<1>9. ASSUME CommitTask(e) PROVE Moves(e)
  <2>1. /\ pc[e] = "commit" /\ pc' = [pc EXCEPT ![e] = "check"]
        /\ task' = [task EXCEPT ![held[e].task].state = outcome[e]]
        /\ held' = [held EXCEPT ![e] = None] /\ outcome' = [outcome EXCEPT ![e] = ""]
        /\ UNCHANGED <<state, request>>
    BY <1>9 DEF CommitTask, Goto
  <2>2. held[e].task \in Task /\ outcome[e] \in {"done", "failed", "probed_empty"}
    BY <1>0, <2>1 DEF HoldingFits, InTask, Choosing
  <2>3. [task[held[e].task] EXCEPT !.state = outcome[e]] \in TaskRow
    BY <1>0, <2>2 DEF TaskRow, TaskState
  <2>4. /\ task' \in [Task -> TaskRow]
        /\ \A t \in Task : task'[t].state = "pending" => task'[t].attempts = 0
    <3>1. task' = [task EXCEPT ![held[e].task] =
                     [task[held[e].task] EXCEPT !.state = outcome[e]]]
      BY <1>0, <2>1, <2>2
    <3>2. [task[held[e].task] EXCEPT !.state = outcome[e]].state # "pending"
      BY <1>0, <2>2 DEF TaskRow
    <3> QED BY <1>0, <2>2, <2>3, <3>1, <3>2 DEF Typed
  <2>5. Typed' BY <2>1, <2>4, Kinds DEF Typed, PC
  <2>6. Apart(e) BY <1>0, <2>1 DEF Apart
  <2>7. pc'[e] = "check" BY <1>0, <2>1
  <2>8. HoldingFits(pc[e], held[e], outcome[e])'
    BY <2>7 DEF HoldingFits, InTask, Choosing
  <2> QED BY <2>5, <2>6, <2>8 DEF Moves
<1>10. ASSUME Tally(e) PROVE Moves(e)
  <2> DEFINE o == IF Unfinished # {} THEN "paused" ELSE "done"
  <2>1. /\ Goto(e, "tally", "settle") /\ outcome' = [outcome EXCEPT ![e] = o]
        /\ held' = [held EXCEPT ![e] = None] /\ UNCHANGED <<rows, request>>
    BY <1>10 DEF Tally
  <2>2. o \in {"paused", "done"} OBVIOUS
  <2> HIDE DEF o
  <2>3. HoldingFits("settle", None, o) /\ "settle" \in PC
    BY <2>2 DEF HoldingFits, InTask, Choosing, PC
  <2> QED BY <1>0, <2>1, <2>2, <2>3, Kinds, HandsMove DEF rows
<1>11. ASSUME Settle(e) PROVE Moves(e)
  <2>0. UNCHANGED <<rows, held, request>> /\ pc[e] = "settle"
    BY <1>11 DEF Settle, Goto
  <2>1. CASE Goto(e, "settle", "idle") /\ outcome' = [outcome EXCEPT ![e] = ""]
    <3>1. "idle" \in PC \ (InTask \cup {"settle", "write"})
      BY DEF PC, InTask, Choosing
    <3> QED BY <1>0, <1>s, <2>0, <2>1, <3>1, Unheld, Kinds, HandsMove DEF rows
  <2>2. CASE /\ Goto(e, "settle", "write")
             /\ outcome' = [outcome EXCEPT ![e] =
                              IF \E t \in Task : Retryable(t) THEN "paused" ELSE @]
    <3> DEFINE o == IF \E t \in Task : Retryable(t) THEN "paused" ELSE outcome[e]
    <3>1. o \in {"paused", "done"}
      BY <1>0, <2>0 DEF HoldingFits
    <3>2. outcome' = [outcome EXCEPT ![e] = o] BY <1>0, <2>2
    <3> HIDE DEF o
    <3>3. HoldingFits("write", held[e], o) /\ "write" \in PC
      BY <3>1 DEF HoldingFits, InTask, Choosing, PC
    <3> QED BY <1>0, <1>s, <2>0, <2>2, <3>1, <3>2, <3>3, Kinds, HandsMove DEF rows
  <2> QED BY <1>11, <2>1, <2>2 DEF Settle
<1>12. ASSUME WriteVerdict(e) PROVE Moves(e)
  <2>1. /\ Goto(e, "write", "idle") /\ pc[e] = "write" /\ state' = outcome[e]
        /\ outcome' = [outcome EXCEPT ![e] = ""] /\ UNCHANGED <<task, held, request>>
    BY <1>12 DEF WriteVerdict, Goto
  <2>2. state' \in RunState BY <1>0, <2>1 DEF HoldingFits, RunState
  <2>3. "idle" \in PC \ (InTask \cup {"settle", "write"})
    BY DEF PC, InTask, Choosing
  <2> QED BY <1>0, <1>s, <2>1, <2>2, <2>3, Unheld, Kinds, HandsMove
<1>13. ASSUME RecordFailure(e) PROVE Moves(e)
  <2>1. "failed" \in RunState /\ "idle" \in PC \ (InTask \cup {"settle", "write"})
    BY DEF PC, InTask, Choosing, RunState
  <2> QED BY <1>0, <1>13, <2>1, Unheld, Kinds, HandsMove DEF RecordFailure
<1>14. ASSUME DbFault(e) PROVE Moves(e)
  <2>0. UNCHANGED <<rows, held, request>> BY <1>14 DEF DbFault
  <2>1. CASE /\ outcome' = outcome
             /\ \E from, to \in PC : to \in {"idle", "handler"} /\ Goto(e, from, to)
    <3>1. PICK from, to \in PC : to \in {"idle", "handler"} /\ Goto(e, from, to)
      BY <2>1
    <3>2. to \in PC \ (InTask \cup {"settle", "write"})
      BY <3>1 DEF InTask, Choosing
    <3> QED BY <1>0, <2>0, <2>1, <3>1, <3>2, Unheld, OnlyGoes DEF rows
  <2>2. CASE Goto(e, "granted", "release") /\ outcome' = [outcome EXCEPT ![e] = "failed"]
    <3>1. HoldingFits("release", held[e], "failed") /\ "release" \in PC
      BY <1>0, <2>2 DEF HoldingFits, InTask, Choosing, PC, Goto
    <3> QED BY <1>0, <1>s, <2>0, <2>2, <3>1, Kinds, HandsMove DEF rows
  <2> QED BY <1>14, <2>1, <2>2 DEF DbFault, PC
<1> QED
  BY <1>1, <1>2, <1>3, <1>4, <1>5, <1>6, <1>7, <1>8, <1>9, <1>10, <1>11,
     <1>12, <1>13, <1>14 DEF Execute

LEMMA HandsStep ==
  Typed /\ Holdings /\ [EnrichNext]_vars => Typed' /\ Holdings'
<1> SUFFICES ASSUME Typed, Holdings, [EnrichNext]_vars PROVE Typed' /\ Holdings'
  OBVIOUS
<1>1. ASSUME NEW e \in Executor, Start(e) \/ Execute(e) \/ DbFault(e)
      PROVE  Typed' /\ Holdings'
  <2>1. Moves(e) BY <1>1, ExecuteMoves
  <2>2. ASSUME NEW f \in Executor
        PROVE  HoldingFits(pc[f], held[f], outcome[f])'
    <3>1. CASE f = e BY <2>1, <3>1 DEF Moves
    <3>2. CASE f # e
      <4>1. pc'[f] = pc[f] /\ held'[f] = held[f] /\ outcome'[f] = outcome[f]
        BY <2>1, <3>2 DEF Moves, Apart
      <4>2. HoldingFits(pc[f], held[f], outcome[f]) BY DEF Holdings
      <4> QED BY <4>1, <4>2 DEF HoldingFits
    <3> QED BY <3>1, <3>2
  <2> QED BY <2>1, <2>2 DEF Moves, Holdings
<1>2. ASSUME AskPause \/ AskCancel \/ WriteRequest
      PROVE  Typed' /\ Holdings'
  <2>1. UNCHANGED <<task, memory>> BY <1>2 DEF AskPause, AskCancel, WriteRequest, rows
  <2>2. state' \in RunState /\ request' \in {"", "paused", "cancelled"}
    BY <1>2 DEF AskPause, AskCancel, WriteRequest, rows, Typed, RunState
  <2> QED BY <2>1, <2>2 DEF memory, Typed, Holdings, HoldingFits
<1>3. ASSUME Crash PROVE Typed' /\ Holdings'
  <2>1. Typed' BY <1>3, Kinds DEF Crash, rows, Typed, PC
  <2>2. \A e \in Executor : pc'[e] = "idle" BY <1>3 DEF Crash
  <2>3. Holdings' BY <2>2 DEF Holdings, HoldingFits, InTask, Choosing
  <2> QED BY <2>1, <2>3
<1>4. ASSUME UNCHANGED enrichVars PROVE Typed' /\ Holdings'
  BY <1>4 DEF enrichVars, rows, memory, Typed, Holdings, HoldingFits
<1> QED BY <1>1, <1>2, <1>3, <1>4 DEF EnrichNext, Interactive, vars

-----------------------------------------------------------------------------
(* The queue under the run, and the tickets.                               *)

\* Every step of the run is one of the queue, leaves it alone, or loses it.
LEMMA EnrichUsesQueue == [EnrichNext]_vars => [QueueNext]_queueVars \/ QueueInit'
<1> SUFFICES ASSUME [EnrichNext]_vars PROVE [QueueNext]_queueVars \/ QueueInit'
  OBVIOUS
<1>1. ASSUME NEW e \in Executor, Start(e) \/ Execute(e) \/ DbFault(e)
      PROVE  QueueNext \/ UNCHANGED queueVars
  <2>1. Reserve(e) \/ Acquire(e) \/ Release(e) \/ UNCHANGED queueVars
    BY <1>1 DEF Start, Execute, DbFault, Begin, CheckRun, PickTask, ReserveSlot,
       PollRun, TakeSlot, BeginTask, Work, GiveBack, CommitTask, Tally, Settle,
       WriteVerdict, RecordFailure
  <2> QED BY <2>1, Givens DEF QueueNext
<1>2. ASSUME AskPause \/ AskCancel \/ WriteRequest PROVE UNCHANGED queueVars
  BY <1>2 DEF AskPause, AskCancel, WriteRequest
<1>3. ASSUME Crash PROVE QueueInit' BY <1>3 DEF Crash, QueueInit
<1>4. ASSUME NEW t \in Ticket \ Background, Interactive(t) PROVE QueueNext
  BY <1>4 DEF Interactive, QueueNext
<1>5. CASE UNCHANGED vars BY <1>5 DEF vars
<1> QED BY <1>1, <1>2, <1>3, <1>4, <1>5 DEF EnrichNext

LEMMA QueueStep == IInv /\ [EnrichNext]_vars => IInv'
<1>1. (QueueInit => IInv)' BY InitInv, PTL
<1> QED BY <1>1, EnrichUsesQueue, StepInv

\* An executor that moves and whose ticket moves with it.
LEMMA TicketMoves ==
  ASSUME Typed, Tickets, NEW e \in Executor, NEW from, NEW to, Goto(e, from, to),
         \A f \in Executor \ {e} : /\ f \in Waiting' <=> f \in Waiting
                                   /\ f \in acquired' <=> f \in acquired
                                   /\ f \in stray' <=> f \in stray,
         TicketFits(to, e, e \in stray)'
  PROVE  Tickets'
<1> SUFFICES ASSUME NEW f \in Executor PROVE TicketFits(pc[f], f, f \in stray)'
  BY DEF Tickets
<1>1. pc' = [pc EXCEPT ![e] = to] /\ pc \in [Executor -> PC] BY DEF Goto, Typed
<1>2. CASE f = e BY <1>1, <1>2 DEF TicketFits
<1>3. CASE f # e
  <2>1. pc'[f] = pc[f] BY <1>1, <1>3
  <2>2. TicketFits(pc[f], f, f \in stray) BY DEF Tickets
  <2> QED BY <1>3, <2>1, <2>2 DEF TicketFits
<1> QED BY <1>2, <1>3

\* A step that leaves the queue alone and stays on the same side of it.
LEMMA TicketStays ==
  ASSUME Typed, Tickets, NEW e \in Executor, NEW from, NEW to, Goto(e, from, to),
         UNCHANGED <<queueVars, stray>>,
         from \in {"line", "polled"} <=> to \in {"line", "polled"},
         from \in {"granted", "working", "release"}
           <=> to \in {"granted", "working", "release"},
         from \in {"handler", "idle"} => to = "idle" \/ e \notin Waiting
  PROVE  Tickets'
<1>1. Waiting' = Waiting /\ acquired' = acquired /\ stray' = stray
  BY DEF queueVars, Waiting
<1>2. TicketFits(from, e, e \in stray) BY DEF Tickets, Goto
<1>3. TicketFits(to, e, e \in stray)' BY <1>1, <1>2 DEF TicketFits
<1> QED BY <1>1, <1>3, TicketMoves

LEMMA NobodyInEmptyLine == Range(<<>>) = {}
<1>1. DOMAIN <<>> = {} BY EmptySeq
<1> QED BY <1>1 DEF Range

LEMMA TicketsStep == EInv /\ [EnrichNext]_vars => Tickets'
<1> SUFFICES ASSUME EInv, [EnrichNext]_vars PROVE Tickets'
  OBVIOUS
<1>0. /\ IInv /\ Typed /\ Tickets /\ Executor \subseteq Ticket
      /\ Waiting \cap acquired = {}
  BY Givens DEF EInv, IInv, SlotsAccounted
<1>1. ASSUME NEW e \in Executor,
             \/ Start(e) \/ Begin(e) \/ CheckRun(e) \/ PickTask(e) \/ BeginTask(e) \/ Work(e)
             \/ CommitTask(e) \/ Tally(e) \/ Settle(e) \/ WriteVerdict(e) \/ RecordFailure(e)
      PROVE  Tickets'
  <2>1. UNCHANGED <<queueVars, stray>>
    BY <1>1 DEF Start, Begin, CheckRun, PickTask, BeginTask, Work, CommitTask,
       Tally, Settle, WriteVerdict, RecordFailure, history
  <2>2. \E from, to \in PC :
          /\ Goto(e, from, to)
          /\ from \notin {"line", "polled"} /\ to \notin {"line", "polled"}
          /\ from \in {"granted", "working", "release"}
               <=> to \in {"granted", "working", "release"}
          /\ from \in {"handler", "idle"} => to = "idle" \/ e \notin Waiting
    BY <1>1 DEF Start, Begin, CheckRun, PickTask, BeginTask, Work, CommitTask,
       Tally, Settle, WriteVerdict, RecordFailure, PC
  <2> QED BY <1>0, <2>1, <2>2, TicketStays
<1>2. ASSUME NEW e \in Executor, ReserveSlot(e) PROVE Tickets'
  <2>0. stray' = stray /\ pc[e] = "reserve" /\ e \notin stray
    BY <1>0, <1>2 DEF ReserveSlot, history, Goto, Tickets, TicketFits
  <2>1. CASE Goto(e, "reserve", "tally") /\ UNCHANGED queueVars
    BY <1>0, <2>0, <2>1, TicketStays
  <2>2. CASE Goto(e, "reserve", "line") /\ Reserve(e)
    <3>1. Waiting' = Waiting \cup {e} /\ acquired' = acquired
      BY <1>0, <2>2, WhenReserved
    <3>2. e \notin acquired BY <2>2 DEF Reserve
    <3>3. TicketFits("line", e, e \in stray)' BY <2>0, <3>1, <3>2 DEF TicketFits
    <3> QED BY <1>0, <2>0, <2>2, <3>1, <3>3, TicketMoves
  <2> QED BY <1>2, <2>1, <2>2 DEF ReserveSlot
<1>3. ASSUME NEW e \in Executor, PollRun(e) PROVE Tickets'
  <2>0. stray' = stray /\ pc[e] = "line" /\ e \notin stray
    BY <1>0, <1>3 DEF PollRun, history, Goto, Tickets, TicketFits
  <2>1. CASE Goto(e, "line", "polled") /\ UNCHANGED queueVars
    BY <1>0, <2>0, <2>1, TicketStays
  <2>2. CASE Goto(e, "line", "tally") /\ Release(e)
    <3>1. Waiting' = Waiting \ {e} /\ acquired' = acquired \ {e}
      BY <1>0, <2>2, WhenReleased
    <3>2. TicketFits("tally", e, e \in stray)' BY <2>0, <3>1 DEF TicketFits
    <3> QED BY <1>0, <2>0, <2>2, <3>1, <3>2, TicketMoves
  <2> QED BY <1>3, <2>1, <2>2 DEF PollRun
<1>4. ASSUME NEW e \in Executor, TakeSlot(e) PROVE Tickets'
  <2>0. stray' = stray /\ pc[e] = "polled" /\ e \notin stray
    BY <1>0, <1>4 DEF TakeSlot, history, Goto, Tickets, TicketFits
  <2>1. CASE Goto(e, "polled", "line") /\ UNCHANGED queueVars
    BY <1>0, <2>0, <2>1, TicketStays
  <2>2. CASE Goto(e, "polled", "granted") /\ Acquire(e)
    <3>1. Waiting' = Waiting \ {e} /\ acquired' = acquired \cup {e}
      BY <1>0, <2>2, WhenAcquired
    <3>2. TicketFits("granted", e, e \in stray)' BY <2>0, <3>1 DEF TicketFits
    <3> QED BY <1>0, <2>0, <2>2, <3>1, <3>2, TicketMoves
  <2> QED BY <1>4, <2>1, <2>2 DEF TakeSlot
<1>5. ASSUME NEW e \in Executor, GiveBack(e) PROVE Tickets'
  <2>1. Waiting' = Waiting \ {e} /\ acquired' = acquired \ {e}
    BY <1>0, <1>5, WhenReleased DEF GiveBack
  <2>2. stray' = stray /\ e \notin stray
    BY <1>0, <1>5 DEF GiveBack, history, Goto, Tickets, TicketFits
  <2>3. TicketFits("commit", e, e \in stray)' BY <2>1, <2>2 DEF TicketFits
  <2> QED BY <1>0, <1>5, <2>1, <2>2, <2>3, TicketMoves DEF GiveBack
<1>6. ASSUME NEW e \in Executor, DbFault(e) PROVE Tickets'
  <2>0. UNCHANGED queueVars BY <1>6 DEF DbFault
  <2>1. CASE Goto(e, "line", "handler") /\ stray' = stray \cup {e}
    <3>1. Waiting' = Waiting /\ acquired' = acquired BY <2>0 DEF queueVars, Waiting
    <3>2. e \in Waiting /\ e \notin acquired
      BY <1>0, <2>1 DEF Tickets, TicketFits, Goto
    <3>3. TicketFits("handler", e, e \in stray)' BY <2>1, <3>1, <3>2 DEF TicketFits
    <3> QED BY <1>0, <2>1, <3>1, <3>3, TicketMoves
  <2>2. CASE /\ stray' = stray
             /\ \E from, to \in PC :
                  /\ Goto(e, from, to)
                  /\ from \notin {"line", "polled", "handler", "idle"}
                  /\ to \notin {"line", "polled"}
                  /\ from \in {"granted", "working", "release"}
                       <=> to \in {"granted", "working", "release"}
    BY <1>0, <2>0, <2>2, TicketStays
  <2> QED BY <1>6, <2>1, <2>2 DEF DbFault, PC
<1>7. ASSUME AskPause \/ AskCancel \/ WriteRequest \/ UNCHANGED vars PROVE Tickets'
  BY <1>0, <1>7 DEF AskPause, AskCancel, WriteRequest, vars, enrichVars, memory,
     history, queueVars, Tickets, TicketFits, Waiting
<1>8. ASSUME Crash PROVE Tickets'
  <2>1. \A e \in Executor : pc'[e] = "idle" BY <1>8 DEF Crash
  <2>2. Waiting' = {} /\ acquired' = {} /\ stray' = {}
    BY <1>8, NobodyInEmptyLine DEF Crash, Waiting
  <2> QED BY <2>1, <2>2 DEF Tickets, TicketFits
<1>9. ASSUME NEW t \in Ticket \ Background, Interactive(t) PROVE Tickets'
  <2>1. \A f \in Executor : /\ f \in Waiting' <=> f \in Waiting
                            /\ f \in acquired' <=> f \in acquired
    BY <1>0, <1>9, WhenReserved, WhenAcquired, WhenReleased DEF Interactive, Executor
  <2>2. pc' = pc /\ stray' = stray
    BY <1>9 DEF Interactive, enrichVars, memory, history
  <2> QED BY <1>0, <2>1, <2>2 DEF Tickets, TicketFits
<1> QED
  BY <1>1, <1>2, <1>3, <1>4, <1>5, <1>6, <1>7, <1>8, <1>9 DEF EnrichNext, Execute

LEMMA InitFits == EnrichInit => EInv /\ Contests /\ Alone
<1> SUFFICES ASSUME EnrichInit PROVE EInv /\ Contests /\ Alone
  OBVIOUS
<1>1. IInv BY InitInv DEF EnrichInit
<1>2. \A e \in Executor : pc[e] = "idle" BY DEF EnrichInit
<1>3. Typed
  <2>1. /\ task \in [Task -> TaskRow]
        /\ \A t \in Task : task[t].state = "pending" => task[t].attempts = 0
    BY Givens DEF EnrichInit, TaskRow, TaskState
  <2>2. /\ pc \in [Executor -> PC] /\ held \in [Executor -> Holding]
        /\ outcome \in [Executor -> TaskState \cup RunState \cup {""}]
    BY Kinds DEF EnrichInit, PC
  <2>3. state \in RunState /\ request \in {"", "paused", "cancelled"}
    BY DEF EnrichInit, RunState
  <2> QED BY <2>1, <2>2, <2>3 DEF Typed
<1>4. Holdings BY <1>2 DEF Holdings, HoldingFits, InTask, Choosing
<1>5. Tickets
  <2>1. Waiting = {} /\ acquired = {} /\ stray = {}
    BY NobodyInEmptyLine DEF EnrichInit, QueueInit, Waiting
  <2> QED BY <1>2, <2>1 DEF Tickets, TicketFits
<1>6. Alone BY <1>2 DEF Alone, WorkFits, EnrichInit
<1>7. Contests BY <1>2 DEF Contests, HasInHand, InTask
<1> QED BY <1>1, <1>3, <1>4, <1>5, <1>6, <1>7 DEF EInv

LEMMA RunInvariance == EnrichSpec => []EInv
<1>1. EnrichInit => EInv BY InitFits
<1>2. EInv /\ [EnrichNext]_vars => EInv'
  BY QueueStep, HandsStep, TicketsStep DEF EInv
<1> QED BY <1>1, <1>2, PTL DEF EnrichSpec

\* The rows of a run and what its executors hold always have values of their
\* kinds; in particular the attempts counted for a task never exceed MaxAttempts
\* (models.py, EnrichmentRun and EnrichmentTask; executor.py, _next_task).
THEOREM RunIsTyped == EnrichSpec => []EnrichTypeOK
<1>1. EInv => EnrichTypeOK
  BY DEF EInv, IInv, Typed, TaskRow, Holding, PC, EnrichTypeOK
<1> QED BY <1>1, RunInvariance, PTL

\* Paid work happens under a slot the reservation leaves to background work,
\* with any number of executors, and one that stopped has left no ticket in line
\* unless the database failed under it there (executor.py,
\* _acquire_background_slot and execute_run's finally-block).
THEOREM TicketsFollow == EnrichSpec => []TicketsFollowExecutors
<1>1. ASSUME EInv PROVE TicketsFollowExecutors
  <2> DEFINE Busy == {e \in Executor : pc[e] = "working"}
  <2>1. \A e \in Executor : TicketFits(pc[e], e, e \in stray) BY <1>1 DEF EInv, Tickets
  <2>2. Busy \in SUBSET (acquired \cap Background)
    BY <2>1 DEF TicketFits, Executor
  <2>3. /\ IsFiniteSet(acquired \cap Background)
        /\ Cardinality(acquired \cap Background) \in Nat
    BY <1>1, QueueBasics DEF EInv
  <2> HIDE DEF Busy
  <2>4. /\ IsFiniteSet(Busy)
        /\ Cardinality(Busy) <= Cardinality(acquired \cap Background)
    BY <2>2, <2>3, FS_Subset
  <2>5. Cardinality(Busy) \in Nat BY <2>4, FS_CardinalityType
  <2>6. Cardinality(acquired \cap Background) <= Capacity - Reserved
    BY <1>1 DEF EInv, IInv, WithinLimits
  <2>7. Cardinality(Busy) <= Capacity - Reserved
    BY <2>3, <2>4, <2>5, <2>6, Clamped
  <2> QED BY <2>1, <2>7 DEF TicketsFollowExecutors, TicketFits, Busy
<1> QED BY <1>1, RunInvariance, PTL

-----------------------------------------------------------------------------
(* Who has a task in hand, and who else has.                               *)

\* A step that gives nobody a task and settles none.
LEMMA HandsKept ==
  ASSUME Holdings, Contests, contested' = contested,
         \A f \in Executor : pc'[f] \in InTask => pc[f] \in InTask /\ held'[f] = held[f],
         \A t \in Task : Settled(t)' => Settled(t)
  PROVE  Contests'
<1> SUFFICES ASSUME NEW e \in Executor, NEW f \in Executor, HasInHand(e, held[e].task)'
             PROVE  /\ e # f /\ HasInHand(f, held[e].task)' => held'[e].task \in contested'
                    /\ Settled(held[e].task)' => held'[e].task \in contested'
  BY DEF Contests
<1>1. pc[e] \in InTask /\ held'[e] = held[e] BY DEF HasInHand
<1>2. held[e].task \in Task BY <1>1 DEF Holdings, HoldingFits
<1>3. HasInHand(e, held[e].task) BY <1>1 DEF HasInHand
<1>4. HasInHand(f, held[e].task)' => HasInHand(f, held[e].task)
  BY <1>1 DEF HasInHand
<1>5. Settled(held[e].task)' => Settled(held[e].task) BY <1>1, <1>2
<1> QED BY <1>1, <1>3, <1>4, <1>5 DEF Contests

LEMMA PickContests ==
  ASSUME Typed, Holdings, Contests, NEW e \in Executor, PickTask(e)
  PROVE  Contests'
<1>0. /\ pc \in [Executor -> PC] /\ held \in [Executor -> Holding] /\ pc[e] = "pick"
      /\ task' = task
  BY DEF Typed, PickTask, Goto, rows
<1>1. CASE Goto(e, "pick", "tally") /\ UNCHANGED <<held, contested>>
  <2>1. \A f \in Executor : pc'[f] \in InTask => pc[f] \in InTask /\ held'[f] = held[f]
    BY <1>0, <1>1 DEF Goto, InTask
  <2>2. \A t \in Task : Settled(t)' => Settled(t) BY <1>0 DEF Settled
  <2> QED BY <1>1, <2>1, <2>2, HandsKept
<1>2. CASE /\ Open # {} /\ Goto(e, "pick", "reserve")
           /\ held' = [held EXCEPT ![e] = [task |-> NextTask,
                                           attempts |-> task[NextTask].attempts]]
           /\ contested' = IF \E f \in Executor : HasInHand(f, NextTask)
                           THEN contested \cup {NextTask} ELSE contested \ {NextTask}
  <2>1. held'[e].task = NextTask /\ pc'[e] = "reserve" BY <1>0, <1>2 DEF Goto
  <2>2. \A f \in Executor \ {e} : pc'[f] = pc[f] /\ held'[f] = held[f]
    BY <1>0, <1>2 DEF Goto
  <2>3. ~Settled(NextTask) BY <1>2, NextTaskIsOpen
  <2>4. \A f \in Executor, u \in contested : HasInHand(f, u) => u \in contested'
    BY <1>2
  <2>5. \A f \in Executor : HasInHand(f, NextTask) => NextTask \in contested'
    BY <1>2
  <2> SUFFICES ASSUME NEW a \in Executor, NEW b \in Executor, HasInHand(a, held[a].task)'
               PROVE  /\ a # b /\ HasInHand(b, held[a].task)'
                           => held'[a].task \in contested'
                      /\ Settled(held[a].task)' => held'[a].task \in contested'
    BY DEF Contests
  <2>6. CASE a = e
    <3>1. ASSUME b # e, HasInHand(b, held[a].task)' PROVE held'[a].task \in contested'
      <4>1. HasInHand(b, NextTask) BY <2>1, <2>2, <2>6, <3>1 DEF HasInHand
      <4> QED BY <2>1, <2>5, <2>6, <4>1
    <3>2. ~Settled(held[a].task)' BY <1>0, <2>1, <2>3, <2>6 DEF Settled
    <3> QED BY <2>6, <3>1, <3>2
  <2>7. CASE a # e
    <3>1. held'[a] = held[a] /\ HasInHand(a, held[a].task)
      BY <2>2, <2>7 DEF HasInHand
    <3>2. ASSUME b # a, HasInHand(b, held[a].task)' PROVE held'[a].task \in contested'
      <4>1. CASE b = e
        <5>1. held[a].task = NextTask BY <2>1, <3>1, <3>2, <4>1 DEF HasInHand
        <5> QED BY <2>5, <3>1, <5>1
      <4>2. CASE b # e
        <5>1. HasInHand(b, held[a].task) BY <2>2, <3>1, <3>2, <4>2 DEF HasInHand
        <5>2. held[a].task \in contested BY <3>1, <3>2, <5>1 DEF Contests
        <5> QED BY <2>4, <3>1, <5>2
      <4> QED BY <4>1, <4>2
    <3>3. ASSUME Settled(held[a].task)' PROVE held'[a].task \in contested'
      <4>1. Settled(held[a].task) BY <1>0, <3>1, <3>3 DEF Settled
      <4>2. held[a].task \in contested BY <3>1, <4>1 DEF Contests
      <4> QED BY <2>4, <3>1, <4>2
    <3> QED BY <3>2, <3>3
  <2> QED BY <2>6, <2>7
<1> QED BY <1>1, <1>2 DEF PickTask

LEMMA CommitContests ==
  ASSUME Typed, Holdings, Contests, NEW e \in Executor, CommitTask(e)
  PROVE  Contests'
<1>0. /\ pc \in [Executor -> PC] /\ held \in [Executor -> Holding]
      /\ task \in [Task -> TaskRow] /\ pc[e] = "commit" /\ contested' = contested
      /\ pc' = [pc EXCEPT ![e] = "check"] /\ held' = [held EXCEPT ![e] = None]
      /\ task' = [task EXCEPT ![held[e].task].state = outcome[e]]
  BY DEF Typed, CommitTask, Goto, history
<1> SUFFICES ASSUME NEW a \in Executor, NEW b \in Executor, HasInHand(a, held[a].task)'
             PROVE  /\ a # b /\ HasInHand(b, held[a].task)' => held'[a].task \in contested'
                    /\ Settled(held[a].task)' => held'[a].task \in contested'
  BY DEF Contests
<1>1. a # e BY <1>0 DEF HasInHand, InTask
<1>2. held'[a] = held[a] /\ pc'[a] = pc[a] BY <1>0, <1>1
<1>3. HasInHand(a, held[a].task) BY <1>2 DEF HasInHand
<1>4. HasInHand(b, held[a].task)' => HasInHand(b, held[a].task)
  BY <1>0, <1>2 DEF HasInHand, InTask
<1>5. ASSUME Settled(held[a].task)' PROVE held[a].task \in contested
  <2>1. CASE held[a].task = held[e].task
    <3>1. HasInHand(e, held[a].task) BY <1>0, <2>1 DEF HasInHand, InTask
    <3> QED BY <1>1, <1>3, <3>1 DEF Contests
  <2>2. CASE held[a].task # held[e].task
    <3>1. task'[held[a].task] = task[held[a].task]
      <4>1. held[a].task \in Task BY <1>3 DEF HasInHand, Holdings, HoldingFits
      <4> QED BY <1>0, <2>2, <4>1
    <3>2. Settled(held[a].task) BY <1>2, <1>5, <3>1 DEF Settled
    <3> QED BY <1>3, <3>2 DEF Contests
  <2> QED BY <2>1, <2>2
<1> QED BY <1>0, <1>2, <1>3, <1>4, <1>5 DEF Contests

LEMMA ContestsStep == EInv /\ Contests /\ [EnrichNext]_vars => Contests'
<1> SUFFICES ASSUME EInv, Contests, [EnrichNext]_vars PROVE Contests'
  OBVIOUS
<1>0. /\ Typed /\ Holdings /\ pc \in [Executor -> PC] /\ held \in [Executor -> Holding]
      /\ task \in [Task -> TaskRow]
  BY DEF EInv, Typed
<1>1. ASSUME NEW e \in Executor, PickTask(e) \/ CommitTask(e) PROVE Contests'
  BY <1>0, <1>1, PickContests, CommitContests
<1>2. ASSUME NEW e \in Executor, BeginTask(e) PROVE Contests'
  <2>1. /\ contested' = contested /\ held' = held /\ pc[e] = "granted"
        /\ pc' = [pc EXCEPT ![e] = "working"]
    BY <1>2 DEF BeginTask, Goto, history
  <2>2. \A f \in Executor : pc'[f] \in InTask => pc[f] \in InTask /\ held'[f] = held[f]
    BY <1>0, <2>1 DEF InTask
  <2>3. ASSUME NEW t \in Task, Settled(t)' PROVE Settled(t)
    <3>1. CASE t = held[e].task
      <4>1. task'[t].state = "enriching" BY <1>0, <1>2, <3>1 DEF BeginTask
      <4> QED BY <2>3, <4>1 DEF Settled
    <3>2. CASE t # held[e].task
      <4>1. task'[t] = task[t] BY <1>0, <1>2, <3>2 DEF BeginTask
      <4> QED BY <2>3, <4>1 DEF Settled
    <3> QED BY <3>1, <3>2
  <2> QED BY <1>0, <2>1, <2>2, <2>3, HandsKept
<1>3. ASSUME NEW e \in Executor,
             \/ Start(e) \/ Begin(e) \/ CheckRun(e) \/ ReserveSlot(e) \/ PollRun(e)
             \/ TakeSlot(e) \/ Work(e) \/ GiveBack(e) \/ Tally(e) \/ Settle(e)
             \/ WriteVerdict(e) \/ RecordFailure(e) \/ DbFault(e)
      PROVE  Contests'
  <2>1. task' = task /\ contested' = contested
    BY <1>3 DEF Start, Begin, CheckRun, ReserveSlot, PollRun, TakeSlot, Work, GiveBack,
       Tally, Settle, WriteVerdict, RecordFailure, DbFault, rows, history
  <2>2. \E from, to \in PC : /\ Goto(e, from, to)
                             /\ to \in InTask => from \in InTask /\ held' = held
    BY <1>3 DEF Start, Begin, CheckRun, ReserveSlot, PollRun, TakeSlot, Work, GiveBack,
       Tally, Settle, WriteVerdict, RecordFailure, DbFault, PC, InTask
  <2>3. held' = held \/ held' = [held EXCEPT ![e] = None]
    BY <1>3 DEF Start, Begin, CheckRun, ReserveSlot, PollRun, TakeSlot, Work, GiveBack,
       Tally, Settle, WriteVerdict, RecordFailure, DbFault
  <2>4. \A f \in Executor : pc'[f] \in InTask => pc[f] \in InTask /\ held'[f] = held[f]
    BY <1>0, <2>2, <2>3 DEF Goto
  <2>5. \A t \in Task : Settled(t)' => Settled(t) BY <2>1 DEF Settled
  <2> QED BY <1>0, <2>1, <2>4, <2>5, HandsKept
<1>4. ASSUME UNCHANGED <<task, contested, memory>> PROVE Contests'
  BY <1>4 DEF memory, Contests, HasInHand, Settled
<1>5. ASSUME Crash PROVE Contests'
  <2>1. \A e \in Executor : pc'[e] = "idle" BY <1>5 DEF Crash
  <2> QED BY <2>1 DEF Contests, HasInHand, InTask
<1>6. ASSUME AskPause \/ AskCancel \/ WriteRequest \/ UNCHANGED enrichVars PROVE Contests'
  BY <1>4, <1>6 DEF AskPause, AskCancel, WriteRequest, enrichVars, rows, history
<1> QED
  BY <1>1, <1>2, <1>3, <1>5, <1>6 DEF EnrichNext, Execute, Interactive, vars

LEMMA Contested == EnrichSpec => [](EInv /\ Contests)
<1>1. EnrichInit => EInv /\ Contests BY InitFits
<1>2. EInv /\ Contests /\ [EnrichNext]_vars => EInv' /\ Contests'
  BY QueueStep, HandsStep, TicketsStep, ContestsStep DEF EInv
<1> QED BY <1>1, <1>2, PTL DEF EnrichSpec

-----------------------------------------------------------------------------
(* One executor at a time: what it relies on, action by action.            *)

\* Nothing unfinished and nothing to retry: all is settled.
LEMMA NothingLeft ==
  ASSUME Typed, Unfinished = {}, ~ \E t \in Task : Retryable(t)
  PROVE  \A t \in Task : Settled(t)
<1> SUFFICES ASSUME NEW t \in Task PROVE Settled(t)
  OBVIOUS
<1>1. task[t] \in TaskRow BY DEF Typed
<1>2. task[t].state \notin {"pending", "enriching"} BY DEF Unfinished
<1>3. ~(task[t].state = "failed" /\ task[t].attempts < MaxAttempts)
  BY DEF Retryable
<1>4. task[t].attempts \in 0..MaxAttempts /\ task[t].state \in TaskState
  BY <1>1 DEF TaskRow
<1> QED BY <1>2, <1>3, <1>4, Givens DEF TaskState, Settled

LEMMA Nonidle ==
  ASSUME NEW e \in Executor, Execute(e) \/ DbFault(e)
  PROVE  pc[e] # "idle"
BY DEF Execute, DbFault, Begin, CheckRun, PickTask, ReserveSlot, PollRun,
   TakeSlot, BeginTask, Work, GiveBack, CommitTask, Tally, Settle,
   WriteVerdict, RecordFailure, Goto

\* An executor that is not at its verdict relies on nothing.
LEMMA NoVerdict ==
  ASSUME Typed, NEW e \in Executor, NEW from, NEW to, Goto(e, from, to),
         to \notin {"settle", "write"}
  PROVE  WorkFits(e)'
<1>1. pc'[e] = to BY DEF Goto, Typed
<1> QED BY <1>1 DEF WorkFits

LEMMA WorkGoesOn ==
  ASSUME Typed, Holdings, NEW e \in Executor, WorkFits(e),
         Start(e) \/ Execute(e) \/ DbFault(e)
  PROVE  WorkFits(e)'
<1>0. /\ pc \in [Executor -> PC] /\ task \in [Task -> TaskRow]
      /\ outcome \in [Executor -> TaskState \cup RunState \cup {""}]
  BY DEF Typed
<1>1. ASSUME \/ Start(e) \/ Begin(e) \/ CheckRun(e) \/ PickTask(e) \/ ReserveSlot(e)
             \/ PollRun(e) \/ TakeSlot(e) \/ BeginTask(e) \/ Work(e) \/ GiveBack(e)
             \/ CommitTask(e) \/ WriteVerdict(e) \/ RecordFailure(e) \/ DbFault(e)
      PROVE  WorkFits(e)'
  <2>1. \E from, to \in PC : Goto(e, from, to) /\ to \notin {"settle", "write"}
    BY <1>1 DEF Start, Begin, CheckRun, PickTask, ReserveSlot, PollRun, TakeSlot,
       BeginTask, Work, GiveBack, CommitTask, WriteVerdict, RecordFailure, DbFault, PC
  <2> QED BY <2>1, NoVerdict
<1>2. ASSUME Tally(e) PROVE WorkFits(e)'
  <2>1. pc'[e] = "settle" /\ task' = task BY <1>0, <1>2 DEF Tally, Goto, rows
  <2>2. outcome'[e] = "done" => Unfinished = {} BY <1>0, <1>2 DEF Tally
  <2>3. Unfinished' = Unfinished BY <2>1 DEF Unfinished
  <2> QED BY <2>1, <2>2, <2>3 DEF WorkFits
<1>3. ASSUME Settle(e) PROVE WorkFits(e)'
  <2>1. CASE Goto(e, "settle", "idle") BY <2>1, NoVerdict
  <2>2. CASE /\ Goto(e, "settle", "write")
             /\ outcome' = [outcome EXCEPT ![e] =
                              IF \E t \in Task : Retryable(t) THEN "paused" ELSE @]
    <3>1. pc[e] = "settle" /\ pc'[e] = "write" /\ task' = task
      BY <1>0, <1>3, <2>2 DEF Settle, Goto, rows
    <3>2. ASSUME outcome'[e] = "done" PROVE \A t \in Task : Settled(t)'
      <4>1. ~(\E t \in Task : Retryable(t)) /\ outcome[e] = "done"
        BY <1>0, <2>2, <3>2
      <4>2. Unfinished = {} BY <3>1, <4>1 DEF WorkFits
      <4>3. \A t \in Task : Settled(t) BY <4>1, <4>2, NothingLeft
      <4> QED BY <3>1, <4>3 DEF Settled
    <3> QED BY <3>1, <3>2 DEF WorkFits
  <2> QED BY <1>3, <2>1, <2>2 DEF Settle
<1> QED BY <1>1, <1>2, <1>3 DEF Execute

\* A run becomes done only by a verdict reached when all was settled.
LEMMA DoneByVerdict ==
  ASSUME Typed, NEW e \in Executor, WorkFits(e), state # "done",
         Start(e) \/ Execute(e) \/ DbFault(e), state' = "done"
  PROVE  pc'[e] = "idle" /\ task' = task /\ \A t \in Task : Settled(t)
<1>1. WriteVerdict(e)
  BY DEF Start, Execute, DbFault, Begin, CheckRun, PickTask, ReserveSlot, PollRun,
     TakeSlot, BeginTask, Work, GiveBack, CommitTask, Tally, Settle,
     RecordFailure, rows
<1>2. pc[e] = "write" /\ pc'[e] = "idle" /\ task' = task /\ outcome[e] = "done"
  BY <1>1 DEF WriteVerdict, Goto, Typed
<1> QED BY <1>2 DEF WorkFits

\* A start that finds nobody at work begins alone; a step of an executor that
\* is alone leaves it alone.
LEMMA SolitudeStep == EInv /\ Solitude /\ [EnrichNext]_vars => Solitude'
<1> SUFFICES ASSUME EInv, Solitude, [EnrichNext]_vars, ~overlap' PROVE Alone'
  BY DEF Solitude
<1>0. Typed /\ Holdings BY DEF EInv
<1>1. ASSUME NEW e \in Executor, Start(e) PROVE Alone'
  <2>1. Apart(e) BY <1>0, <1>1, ExecuteMoves DEF Moves
  <2>2. \A f \in Executor : pc[f] = "idle" BY <1>1 DEF Start
  <2>3. \A f \in Executor \ {e} : pc'[f] = "idle" BY <2>1, <2>2 DEF Apart
  <2>4. WorkFits(e) BY <2>2 DEF WorkFits
  <2>5. WorkFits(e)' BY <1>0, <1>1, <2>4, WorkGoesOn
  <2>6. \A f \in Executor : WorkFits(f)' BY <2>3, <2>5 DEF WorkFits
  <2>7. state' # "done" BY <1>1 DEF Start
  <2> QED BY <2>3, <2>6, <2>7 DEF Alone
<1>2. ASSUME NEW e \in Executor, Execute(e) \/ DbFault(e) PROVE Alone'
  <2>0. Alone
    <3>1. overlap' = overlap
      BY <1>2 DEF Execute, DbFault, Begin, CheckRun, PickTask, ReserveSlot, PollRun,
         TakeSlot, BeginTask, Work, GiveBack, CommitTask, Tally, Settle, WriteVerdict,
         RecordFailure, history
    <3> QED BY <3>1 DEF Solitude
  <2>1. Apart(e) BY <1>0, <1>2, ExecuteMoves DEF Moves
  <2>2. \A f \in Executor \ {e} : pc[f] = "idle" BY <1>2, <2>0, Nonidle DEF Alone
  <2>3. \A f \in Executor \ {e} : pc'[f] = "idle" BY <2>1, <2>2 DEF Apart
  <2>4. WorkFits(e)' BY <1>0, <1>2, <2>0, WorkGoesOn DEF Alone
  <2>5. \A f \in Executor : WorkFits(f)' BY <2>3, <2>4 DEF WorkFits
  <2>6. state # "done" BY <1>2, <2>0, Nonidle DEF Alone
  <2>7. ASSUME state' = "done"
        PROVE  (\A f \in Executor : pc'[f] = "idle") /\ \A t \in Task : Settled(t)'
    <3>1. pc'[e] = "idle" /\ task' = task /\ \A t \in Task : Settled(t)
      BY <1>0, <1>2, <2>0, <2>6, <2>7, DoneByVerdict DEF Alone
    <3> QED BY <2>3, <3>1 DEF Settled
  <2> QED BY <2>3, <2>5, <2>7 DEF Alone
<1>3. ASSUME UNCHANGED <<task, overlap, memory>>, state' = "done" => state = "done"
      PROVE  Alone'
  BY <1>3 DEF memory, Solitude, Alone, WorkFits, Settled, Unfinished
<1>4. ASSUME AskPause \/ AskCancel \/ WriteRequest \/ UNCHANGED enrichVars PROVE Alone'
  BY <1>0, <1>3, <1>4 DEF AskPause, AskCancel, WriteRequest, enrichVars, rows, history,
     Typed
<1>5. ASSUME Crash PROVE Alone'
  <2>1. \A e \in Executor : pc'[e] = "idle" BY <1>5 DEF Crash
  <2>2. UNCHANGED rows /\ overlap' = overlap BY <1>5 DEF Crash
  <2> QED BY <2>1, <2>2 DEF rows, Solitude, Alone, WorkFits, Settled
<1> QED BY <1>1, <1>2, <1>4, <1>5 DEF EnrichNext, Interactive, vars

LEMMA Lonely == EnrichSpec => [](EInv /\ Solitude)
<1>1. EnrichInit => EInv /\ Solitude BY InitFits DEF Solitude
<1>2. EInv /\ Solitude /\ [EnrichNext]_vars => EInv' /\ Solitude'
  BY QueueStep, HandsStep, TicketsStep, SolitudeStep DEF EInv
<1> QED BY <1>1, <1>2, PTL DEF EnrichSpec

\* `done` can never be started again, and no task is stranded by it, whatever
\* crashes, failures and requests lie between, if the last start came when no
\* executor was at work; the code's start does not look, and with an old
\* executor still at work a verdict of its may be stale (_finalize,
\* _has_retryable_failures).
THEOREM DoneIsSettled == EnrichSpec => []DoneMeansSettled
<1>1. Solitude => DoneMeansSettled BY DEF Solitude, Alone, DoneMeansSettled
<1> QED BY <1>1, Lonely, PTL

\* However many executors work on a run, a task finished, found empty, excluded
\* or given up is paid for again only if two of them had it in hand at once:
\* nobody else's task is touched (executor.py, RESUMABLE; _next_task).
THEOREM SettledTasksStay == EnrichSpec => SettledStays
<1>1. ASSUME EInv, Contests, EnrichNext, NEW t \in Task, Settled(t)
      PROVE  task'[t] = task[t] \/ t \in contested
  <2>0. task \in [Task -> TaskRow] BY <1>1 DEF EInv, Typed
  <2>1. ASSUME NEW e \in Executor, BeginTask(e) \/ CommitTask(e)
        PROVE  task'[t] = task[t] \/ t \in contested
    <3>1. pc[e] \in InTask BY <2>1 DEF BeginTask, CommitTask, Goto, InTask
    <3>2. CASE held[e].task = t
      <4>1. HasInHand(e, held[e].task) BY <3>1 DEF HasInHand
      <4> QED BY <1>1, <3>2, <4>1 DEF Contests
    <3>3. CASE held[e].task # t
      BY <2>0, <2>1, <3>3 DEF BeginTask, CommitTask
    <3> QED BY <3>2, <3>3
  <2>2. CASE task' = task BY <2>2
  <2> QED
    BY <1>1, <2>1, <2>2 DEF EnrichNext, Start, Execute, DbFault, Begin, CheckRun,
       PickTask, ReserveSlot, PollRun, TakeSlot, Work, GiveBack, Tally, Settle,
       WriteVerdict, RecordFailure, AskPause, AskCancel, WriteRequest, Crash,
       Interactive, enrichVars, rows
<1>2. EInv /\ Contests /\ [EnrichNext]_vars =>
        [\A t \in Task : Settled(t) => task'[t] = task[t] \/ t \in contested]_vars
  BY <1>1
<1> QED BY <1>2, Contested, PTL DEF EnrichSpec, SettledStays
=============================================================================
