---------------------------- MODULE JobScheduler ----------------------------
(***************************************************************************)
(* The job scheduler (internal/jobscheduler): a pool of workers that take  *)
(* jobs from one list, at most one at a time for each queue and at most    *)
(* maxCloneConcurrency clones, and sleep on one condition variable.        *)
(* Periodic jobs re-arm themselves and keep their last run in a store that *)
(* survives a restart; Drain stops the intake, and cancelling the context  *)
(* stops the workers.                                                      *)
(*                                                                         *)
(* An action is one critical section of q.lock, or one step outside it.    *)
(***************************************************************************)
EXTENDS Integers, FiniteSets, Sequences

CONSTANTS
    Worker,
    Job,                  \* a job is its jobKey: queue and id
    Queue,
    QueueOf,              \* [Job -> Queue]
    Clones,               \* the jobs for whose id isCloneJob holds
    Periodic,             \* those submitted by SubmitPeriodicJob
    Offered,              \* those submitted by TrySubmit; the others by Submit
    MaxQueued,            \* TrySubmit's limit
    MaxCloneConcurrency,  \* 0: no limit
    Interval,             \* of the periodic jobs, in units of the clock
    NoJob,
    MaxClock,             \* bound: the clock stops here
    MaxPanics,            \* bound: panics of jobs
    MaxRestarts           \* bound: process restarts

ASSUME WorkerAssumption == IsFiniteSet(Worker)
ASSUME JobAssumption ==
    /\ QueueOf \in [Job -> Queue]
    /\ Clones \subseteq Job /\ Periodic \subseteq Job
    /\ Offered \subseteq Job \ Periodic
    /\ NoJob \notin Job
ASSUME LimitAssumption ==
    /\ MaxQueued \in Int /\ MaxCloneConcurrency \in Nat /\ Interval \in Nat \ {0}
    /\ MaxClock \in Nat /\ MaxPanics \in Nat /\ MaxRestarts \in Nat

VARIABLES
    queue,          \* q.queue
    active,         \* q.active, NoJob for a queue without an entry
    activeClones,
    draining,
    stop,           \* "no"; "cancelled": the context; "done": q.done;
                    \* "broadcast": all waiters were woken
    worker,         \* [Worker -> pc and job]
    signals,        \* submitters between their Unlock and their Signal
    timer,          \* [Periodic -> when its sleepThenSubmit wakes, 0 if none]
    submitted,      \* jobs this process has been asked to run
    lastRun,        \* the ScheduleStore: [Periodic -> time, 0 if none]
    now,
    panics, restarts

vars == <<queue, active, activeClones, draining, stop, worker, signals, timer,
          submitted, lastRun, now, panics, restarts>>
poolVars == <<queue, active, activeClones, worker, signals>>
faultVars == <<panics, restarts>>

-----------------------------------------------------------------------------
At(w, pc) == worker[w].pc = pc
Waiting == {w \in Worker : At(w, "wait")}
Busy == {w \in Worker : worker[w].pc \in {"run", "ran"}}
Cancelled == stop # "no"
Done == stop \in {"done", "broadcast"}

\* A worker that has just started, or has been woken, wants the lock.
Ready == [pc |-> "lock", job |-> NoJob]

\* cond.Signal wakes one waiter, if there is one.
Signal(ws) ==
    IF \E w \in Worker : ws[w].pc = "wait"
    THEN \E w \in Worker : ws[w].pc = "wait" /\ worker' = [ws EXCEPT ![w] = Ready]
    ELSE worker' = ws

\* New, in a process that finds an empty store.
Init ==
    /\ queue = <<>>
    /\ active = [q \in Queue |-> NoJob]
    /\ activeClones = 0
    /\ draining = FALSE
    /\ stop = "no"
    /\ worker = [w \in Worker |-> Ready]
    /\ signals = 0
    /\ timer = [j \in Periodic |-> 0]
    /\ submitted = {}
    /\ lastRun = [j \in Periodic |-> 0]
    /\ now = 1
    /\ panics = 0 /\ restarts = 0

-----------------------------------------------------------------------------
(* Submitting.                                                             *)

\* Mutant: jobs are accepted while the scheduler drains.
EnqueueDraining(j) ==
    IF Done
    THEN UNCHANGED <<queue, signals>>
    ELSE queue' = Append(queue, j) /\ signals' = signals + 1

\* Submit: append under the lock; the Signal comes after the Unlock.
Enqueue(j) ==
    IF Done \/ draining
    THEN UNCHANGED <<queue, signals>>
    ELSE queue' = Append(queue, j) /\ signals' = signals + 1

Submit(j) ==
    /\ j \in Job \ (Periodic \cup Offered \cup submitted)
    /\ submitted' = submitted \cup {j}
    /\ Enqueue(j)
    /\ UNCHANGED <<active, activeClones, draining, stop, worker, timer,
                   lastRun, now, faultVars>>

TrySubmit(j) ==
    /\ j \in Offered \ submitted
    /\ submitted' = submitted \cup {j}
    /\ IF MaxQueued <= 0 \/ Len(queue) >= MaxQueued
       THEN UNCHANGED <<queue, signals>>
       ELSE Enqueue(j)
    /\ UNCHANGED <<active, activeClones, draining, stop, worker, timer,
                   lastRun, now, faultVars>>

\* The submitter's Signal.
Notify ==
    /\ signals > 0
    /\ signals' = signals - 1
    /\ Signal(worker)
    /\ UNCHANGED <<queue, active, activeClones, draining, stop, timer,
                   submitted, lastRun, now, faultVars>>

\* Mutant: the store is not consulted.
DueAtOnce(j) == now

\* periodicDelay: a job that ran before is due an interval after that.
DueAt(j) == IF lastRun[j] # 0 /\ lastRun[j] + Interval > now
            THEN lastRun[j] + Interval ELSE now

\* SubmitPeriodicJob, called at startup and by the re-arm timer: nothing once
\* the scheduler drains or is torn down; otherwise submit now or sleep first.
SubmitPeriodicJob(j) ==
    IF Cancelled \/ draining
    THEN timer' = [timer EXCEPT ![j] = 0] /\ UNCHANGED <<queue, signals>>
    ELSE IF DueAt(j) > now
         THEN timer' = [timer EXCEPT ![j] = DueAt(j)] /\ UNCHANGED <<queue, signals>>
         ELSE timer' = [timer EXCEPT ![j] = 0] /\ Enqueue(j)

Register(j) ==
    /\ j \in Periodic \ submitted
    /\ submitted' = submitted \cup {j}
    /\ SubmitPeriodicJob(j)
    /\ UNCHANGED <<active, activeClones, draining, stop, worker, lastRun, now,
                   faultVars>>

\* sleepThenSubmit's timer fires; a timer set by SubmitPeriodicJob itself calls
\* Submit, one set after a run calls SubmitPeriodicJob: the same, once due.
TimerFires(j) ==
    /\ timer[j] # 0 /\ timer[j] <= now
    /\ SubmitPeriodicJob(j)
    /\ UNCHANGED <<active, activeClones, draining, stop, worker, submitted,
                   lastRun, now, faultVars>>

\* ... or it returns because of the drain channel or the context.
TimerStops(j) ==
    /\ timer[j] # 0
    /\ draining \/ Cancelled
    /\ timer' = [timer EXCEPT ![j] = 0]
    /\ UNCHANGED <<poolVars, draining, stop, submitted, lastRun, now, faultVars>>

-----------------------------------------------------------------------------
(* Workers.                                                                *)

\* takeNextJobLocked skips jobs of active queues, and clones at the limit.
Eligible(j) ==
    /\ active[QueueOf[j]] = NoJob
    /\ ~(MaxCloneConcurrency > 0 /\ j \in Clones /\ activeClones >= MaxCloneConcurrency)

Runnable == {i \in DOMAIN queue : Eligible(queue[i])}

Without(s, i) == SubSeq(s, 1, i - 1) \o SubSeq(s, i + 1, Len(s))

CloneCount(j) == IF j \in Clones THEN 1 ELSE 0

\* waitForJob, having the lock: exit, take the first runnable job and wake the
\* next worker, or wait.
TakeJob(w) ==
    /\ At(w, "lock") /\ ~Done
    /\ \E i \in Runnable :
          /\ \A k \in Runnable : i <= k
          /\ queue' = Without(queue, i)
          /\ active' = [active EXCEPT ![QueueOf[queue[i]]] = queue[i]]
          /\ activeClones' = activeClones + CloneCount(queue[i])
          /\ Signal([worker EXCEPT ![w] = [pc |-> "run", job |-> queue[i]]])
    /\ UNCHANGED <<draining, stop, signals, timer, submitted, lastRun, now, faultVars>>

Wait(w) ==
    /\ At(w, "lock") /\ ~Done
    /\ Runnable = {}
    /\ worker' = [worker EXCEPT ![w].pc = "wait"]
    /\ UNCHANGED <<queue, active, activeClones, draining, stop, signals, timer,
                   submitted, lastRun, now, faultVars>>

Exit(w) ==
    /\ At(w, "lock") /\ Done
    /\ worker' = [worker EXCEPT ![w].pc = "exit"]
    /\ UNCHANGED <<queue, active, activeClones, draining, stop, signals, timer,
                   submitted, lastRun, now, faultVars>>

\* Mutant: a failed write to the store ends the wrapper early.
RunReturnsIfStored(w) ==
    LET j == worker[w].job IN
    /\ At(w, "run")
    /\ worker' = [worker EXCEPT ![w].pc = "ran"]
    /\ \/ /\ j \in Periodic
          /\ timer' = [timer EXCEPT ![j] = now + Interval]
          /\ lastRun' = [lastRun EXCEPT ![j] = now]
       \/ UNCHANGED <<timer, lastRun>>
    /\ UNCHANGED <<queue, active, activeClones, draining, stop, signals,
                   submitted, now, faultVars>>

\* job.run returns.  The wrapper of a periodic job records the time, which may
\* fail, and starts the sleep before the next run.
RunReturns(w) ==
    LET j == worker[w].job IN
    /\ At(w, "run")
    /\ worker' = [worker EXCEPT ![w].pc = "ran"]
    /\ IF j \in Periodic
       THEN /\ timer' = [timer EXCEPT ![j] = now + Interval]
            /\ lastRun' \in {lastRun, [lastRun EXCEPT ![j] = now]}
       ELSE UNCHANGED <<timer, lastRun>>
    /\ UNCHANGED <<queue, active, activeClones, draining, stop, signals,
                   submitted, now, faultVars>>

\* job.run panics: runJob recovers, and the rest of the wrapper is skipped.
RunPanics(w) ==
    /\ At(w, "run")
    /\ panics < MaxPanics
    /\ panics' = panics + 1
    /\ worker' = [worker EXCEPT ![w].pc = "ran"]
    /\ UNCHANGED <<queue, active, activeClones, draining, stop, signals, timer,
                   submitted, lastRun, now, restarts>>

\* Mutant: the worker sleeps without looking again, and wakes nobody.
MarkSilently(w) ==
    LET q == QueueOf[worker[w].job] IN
    /\ At(w, "ran")
    /\ activeClones' = activeClones - CloneCount(active[q])
    /\ active' = [active EXCEPT ![q] = NoJob]
    /\ worker' = [worker EXCEPT ![w] = [pc |-> "wait", job |-> NoJob]]
    /\ UNCHANGED <<queue, draining, stop, signals, timer, submitted, lastRun,
                   now, faultVars>>

\* markQueueInactive, deferred by runJob; the worker is back at waitForJob.
MarkQueueInactive(w) ==
    LET q == QueueOf[worker[w].job] IN
    /\ At(w, "ran")
    /\ activeClones' = activeClones - CloneCount(active[q])
    /\ active' = [active EXCEPT ![q] = NoJob]
    /\ Signal([worker EXCEPT ![w] = Ready])
    /\ UNCHANGED <<queue, draining, stop, signals, timer, submitted, lastRun,
                   now, faultVars>>

-----------------------------------------------------------------------------
(* Shutdown: main drains the intake, shuts the server down, and cancels.   *)

Drain ==
    /\ ~draining
    /\ draining' = TRUE
    /\ UNCHANGED <<poolVars, stop, timer, submitted, lastRun, now, faultVars>>

Cancel ==
    /\ draining /\ stop = "no"
    /\ stop' = "cancelled"
    /\ UNCHANGED <<poolVars, draining, timer, submitted, lastRun, now, faultVars>>

\* The goroutine of New that waits for the context.
SetDone ==
    /\ stop = "cancelled"
    /\ stop' = "done"
    /\ UNCHANGED <<poolVars, draining, timer, submitted, lastRun, now, faultVars>>

\* Mutant: only one waiter is woken.
BroadcastOne ==
    /\ stop = "done"
    /\ stop' = "broadcast"
    /\ Signal(worker)
    /\ UNCHANGED <<queue, active, activeClones, signals, draining, timer,
                   submitted, lastRun, now, faultVars>>

Broadcast ==
    /\ stop = "done"
    /\ stop' = "broadcast"
    /\ worker' = [w \in Worker |-> IF At(w, "wait") THEN Ready ELSE worker[w]]
    /\ UNCHANGED <<queue, active, activeClones, signals, draining, timer,
                   submitted, lastRun, now, faultVars>>

\* The process ends, in any state, and a new one starts on the same store.
Restart ==
    /\ restarts < MaxRestarts
    /\ restarts' = restarts + 1
    /\ queue' = <<>>
    /\ active' = [q \in Queue |-> NoJob]
    /\ activeClones' = 0
    /\ draining' = FALSE
    /\ stop' = "no"
    /\ worker' = [w \in Worker |-> Ready]
    /\ signals' = 0
    /\ timer' = [j \in Periodic |-> 0]
    /\ submitted' = {}
    /\ UNCHANGED <<lastRun, now, panics>>

Tick ==
    /\ now < MaxClock
    /\ now' = now + 1
    /\ UNCHANGED <<poolVars, draining, stop, timer, submitted, lastRun, faultVars>>

Work(w) ==
    \/ TakeJob(w) \/ Wait(w) \/ Exit(w)
    \/ RunReturns(w) \/ RunPanics(w) \/ MarkQueueInactive(w)

Next ==
    \/ \E j \in Job : Submit(j) \/ TrySubmit(j)
    \/ \E j \in Periodic : Register(j) \/ TimerFires(j) \/ TimerStops(j)
    \/ Notify
    \/ \E w \in Worker : Work(w)
    \/ Drain \/ Cancel \/ SetDone \/ Broadcast
    \/ Restart \/ Tick

Spec == Init /\ [][Next]_vars

-----------------------------------------------------------------------------
(* Correctness.                                                            *)

\* The type invariant.
TypeOK ==
    /\ queue \in Seq(Job)
    /\ active \in [Queue -> Job \cup {NoJob}]
    /\ activeClones \in Int
    /\ draining \in BOOLEAN
    /\ stop \in {"no", "cancelled", "done", "broadcast"}
    /\ worker \in [Worker -> [pc : {"lock", "wait", "run", "ran", "exit"},
                              job : Job \cup {NoJob}]]
    /\ \A w \in Busy : worker[w].job \in Job
    /\ signals \in Nat
    /\ timer \in [Periodic -> Nat]
    /\ submitted \subseteq Job
    /\ lastRun \in [Periodic -> Nat]
    /\ now \in Nat /\ panics \in Nat /\ restarts \in Nat

\* Jobs of one queue never run at the same time, also not when a job panics
\* (takeNextJobLocked and markQueueInactive).
QueueExclusive ==
    \A v, w \in Busy : QueueOf[worker[v].job] = QueueOf[worker[w].job] => v = w

\* At most maxCloneConcurrency clones run at the same time, and the counter
\* does not drift (takeNextJobLocked and markQueueInactive).
CloneLimit ==
    LET clones == {w \in Busy : worker[w].job \in Clones} IN
    /\ activeClones = Cardinality(clones)
    /\ MaxCloneConcurrency > 0 => Cardinality(clones) <= MaxCloneConcurrency

\* No wake-up is lost: while a job could run and a worker sleeps, somebody is
\* awake to look, or about to wake one (Submit signals after its Unlock, and a
\* Signal wakes a single waiter).
NoLostWakeup ==
    Runnable # {} /\ Waiting # {} /\ ~Done
        => signals > 0 \/ \E w \in Worker : At(w, "lock")

\* q.active is exactly what the workers are running.
ActiveSound ==
    /\ \A w \in Busy : active[QueueOf[worker[w].job]] = worker[w].job
    /\ \A q \in Queue : active[q] # NoJob => \E w \in Busy : QueueOf[worker[w].job] = q

\* The inductive invariant of the pool: no queue is blocked by a job that no
\* worker runs, next to the three properties above.
PoolInv == TypeOK /\ ActiveSound /\ QueueExclusive /\ CloneLimit /\ NoLostWakeup

\* The places where a periodic job can be.
Occurrences(j) ==
    Cardinality({i \in DOMAIN queue : queue[i] = j})
    + Cardinality({w \in Worker : At(w, "run") /\ worker[w].job = j})
    + (IF timer[j] # 0 THEN 1 ELSE 0)

\* A periodic job that was submitted is queued, running or asleep, exactly one
\* of them, until the scheduler drains or a job panics: the series neither ends
\* nor doubles, also when the store fails.
PeriodicAlive ==
    \A j \in Periodic \cap submitted :
        ~draining /\ ~Cancelled /\ panics = 0 => Occurrences(j) = 1

\* What the comment on SubmitPeriodicJob says: the job runs immediately, and
\* then periodically after the interval.
PeriodicForever ==
    \A j \in Periodic \cap submitted : ~draining /\ ~Cancelled => Occurrences(j) = 1

\* A periodic job starts no sooner than an interval after its last recorded
\* run, also in a new process (periodicDelay).
PeriodicSpacing ==
    [][\A w \in Worker : At(w, "lock") /\ worker'[w].pc = "run" =>
          \A j \in Periodic :
              j = worker'[w].job /\ lastRun[j] # 0 => now >= lastRun[j] + Interval]_vars

\* After Drain nothing enters the queue: a timer that fires, a submitter that
\* was on its way, or a job that submits another do not get in.
IntakeClosed == [][draining /\ draining' => Len(queue') <= Len(queue)]_vars

-----------------------------------------------------------------------------
(* Progress: goroutines are scheduled, the mutex is not starved, timers fire *)
(* and jobs return.                                                          *)

FairSpec ==
    /\ Spec
    /\ WF_vars(Notify) /\ WF_vars(SetDone) /\ WF_vars(Broadcast)
    /\ \A j \in Periodic : WF_vars(TimerFires(j))
    /\ \A w \in Worker : /\ WF_vars(TakeJob(w) \/ Wait(w) \/ Exit(w))
                         /\ WF_vars(RunReturns(w)) /\ WF_vars(MarkQueueInactive(w))

InQueue(j) == \E i \in DOMAIN queue : queue[i] = j

\* A job that was accepted is run in the end, unless the scheduler is torn
\* down: it is not stuck behind the clone limit, a queue or a sleeping pool.
JobsRun == \A j \in Job : InQueue(j) ~> (~InQueue(j) \/ Cancelled)

\* Every worker exits after the context is cancelled, so Wait returns.
WorkersExit == Cancelled ~> (~Cancelled \/ \A w \in Worker : At(w, "exit"))

\* Accepted jobs run, and the pool ends when it is told to.
SchedulerProgress == JobsRun /\ WorkersExit
=============================================================================
