------------------------- MODULE JobSchedulerProofs -------------------------
(***************************************************************************)
(* The pool of the job scheduler, for any number of workers, jobs, queues  *)
(* and restarts: exclusion within a queue, the clone limit, and the        *)
(* absence of lost wake-ups; and its periodic jobs: a series goes on,      *)
(* single and spaced, and nothing is taken in after Drain.                 *)
(***************************************************************************)
EXTENDS JobScheduler, FiniteSetTheorems, TLAPS

USE JobAssumption, LimitAssumption, WorkerAssumption

Shape == [Worker -> [pc : {"lock", "wait", "run", "ran", "exit"},
                     job : Job \cup {NoJob}]]

BusyIn(ws) == {w \in Worker : ws[w].pc \in {"run", "ran"}}
LockIn(ws) == {w \in Worker : ws[w].pc = "lock"}
WaitIn(ws) == {w \in Worker : ws[w].pc = "wait"}

\* What the provers need of sequences, functions and numbers.
LEMMA EmptyQueue == <<>> \in Seq(Job)
  BY SMT

LEMMA LongerQueue == \A s \in Seq(Job), j \in Job : Append(s, j) \in Seq(Job)
  BY SMT

LEMMA ShorterQueue == \A s \in Seq(Job) : \A i \in DOMAIN s :
                          Without(s, i) \in Seq(Job) /\ s[i] \in Job
  BY SMT DEF Without

LEMMA NewTime == \A f \in [Periodic -> Nat], n \in Nat, j \in Periodic :
                     [f EXCEPT ![j] = n] \in [Periodic -> Nat]
  BY SMT

LEMMA NoTimes == [j \in Periodic |-> 0] \in [Periodic -> Nat]
  BY SMT

LEMMA Successor == \A n \in Nat : n + 1 \in Nat /\ n + 1 > 0 /\ n + Interval \in Nat
  BY SMT

LEMMA SmallNumbers == 0 \in Nat /\ 1 \in Nat /\ 0 \in Int
  BY SMT

LEMMA CloneArithmetic ==
    \A n \in Nat : /\ n \in Int /\ n + 0 = n /\ n - 0 = n /\ n + 1 - 1 = n
                   /\ n <= MaxCloneConcurrency => n - 1 <= MaxCloneConcurrency
                   /\ ~(n >= MaxCloneConcurrency) => n + 1 <= MaxCloneConcurrency
  BY SMT

\* One worker more in a set of workers, or one less.
LEMMA OneMore ==
    ASSUME NEW S \in SUBSET Worker, NEW w \in Worker
    PROVE  /\ Cardinality(S) \in Nat
           /\ w \notin S => Cardinality(S \cup {w}) = Cardinality(S) + 1
           /\ w \in S => Cardinality(S \ {w}) = Cardinality(S) - 1
  <1>1. IsFiniteSet(S)
    BY FS_Subset, Zenon
  <1>2. Cardinality(S) \in Nat
    BY <1>1, FS_CardinalityType, Zenon
  <1>3. w \notin S => Cardinality(S \cup {w}) = Cardinality(S) + 1
    BY <1>1, FS_AddElement, Zenon
  <1>4. w \in S => Cardinality(S \ {w}) = Cardinality(S) - 1
    BY <1>1, FS_RemoveElement, Zenon
  <1> QED
    BY <1>2, <1>3, <1>4, Zenon

\* A Signal changes no busy worker, wakes somebody if anybody sleeps, and takes
\* nobody's readiness away.
LEMMA SignalStep ==
    ASSUME NEW ws \in Shape, Signal(ws)
    PROVE  /\ worker' \in Shape
           /\ BusyIn(worker') = BusyIn(ws)
           /\ \A w \in BusyIn(ws) : worker'[w] = ws[w]
           /\ LockIn(ws) \subseteq LockIn(worker')
           /\ WaitIn(worker') # {} => LockIn(worker') # {}
  <1>1. CASE \E w \in Worker : ws[w].pc = "wait"
    <2>1. PICK w \in Worker : ws[w].pc = "wait" /\ worker' = [ws EXCEPT ![w] = Ready]
      BY <1>1, Zenon DEF Signal
    <2>2. Ready \in [pc : {"lock", "wait", "run", "ran", "exit"}, job : Job \cup {NoJob}]
          /\ Ready.pc = "lock"
      BY Zenon DEF Ready
    <2>3. worker' \in Shape /\ worker'[w] = Ready
          /\ \A v \in Worker : v # w => worker'[v] = ws[v]
      BY <2>1, <2>2, Zenon DEF Shape
    <2> QED
      BY <2>1, <2>2, <2>3, Zenon DEF BusyIn, LockIn, WaitIn
  <1>2. CASE ~ \E w \in Worker : ws[w].pc = "wait"
    BY <1>2, Zenon DEF Signal, BusyIn, LockIn, WaitIn
  <1> QED
    BY <1>1, <1>2, Zenon

\* The part of the invariant that speaks of the pool alone.
PoolSound == ActiveSound /\ QueueExclusive /\ CloneLimit /\ NoLostWakeup

LEMMA InitPool == Init => PoolInv
  <1> SUFFICES ASSUME Init PROVE PoolInv
    OBVIOUS
  <1>1. TypeOK
    <2>1. worker \in Shape /\ \A w \in Worker : worker[w].pc = "lock"
      BY DEF Init, Shape, Ready
    <2>2. \A w \in Busy : worker[w].job \in Job
      BY <2>1, SMT DEF Busy
    <2>3. active \in [Queue -> Job \cup {NoJob}]
      BY DEF Init
    <2>4. queue \in Seq(Job) /\ timer \in [Periodic -> Nat] /\ lastRun \in [Periodic -> Nat]
      BY EmptyQueue, NoTimes, Zenon DEF Init
    <2> QED
      BY <2>1, <2>2, <2>3, <2>4, SmallNumbers, Zenon DEF Init, TypeOK, Shape
  <1>2. Busy = {}
    BY Zenon DEF Init, Busy, Ready
  <1>3. {w \in Busy : worker[w].job \in Clones} = {} /\ Cardinality({}) = 0
    BY <1>2, FS_EmptySet, Zenon
  <1>4. ActiveSound /\ QueueExclusive /\ CloneLimit
    BY <1>2, <1>3 DEF ActiveSound, QueueExclusive, CloneLimit, Init
  <1>5. NoLostWakeup
    BY Zenon DEF Init, NoLostWakeup, Waiting, At, Ready
  <1> QED
    BY <1>1, <1>4, <1>5, Zenon DEF PoolInv

\* Steps that neither touch the pool nor take a Signal away: a job may be added
\* to the queue, with a Signal on its way.
LEMMA SubmitStep ==
    ASSUME PoolInv, UNCHANGED <<active, activeClones, worker>>,
           \/ UNCHANGED <<queue, signals>>
           \/ signals' > 0,
           Done => Done'
    PROVE  PoolSound'
  <1>1. Busy' = Busy /\ Waiting' = Waiting
    BY Zenon DEF Busy, Waiting, At
  <1>2. (ActiveSound /\ QueueExclusive /\ CloneLimit)'
    BY <1>1 DEF PoolInv, ActiveSound, QueueExclusive, CloneLimit
  <1>3. NoLostWakeup'
    <2>1. CASE UNCHANGED <<queue, signals>>
      <3>1. Runnable' = Runnable
        BY <2>1, Zenon DEF Runnable, Eligible
      <3> QED
        BY <1>1, <2>1, <3>1, Zenon DEF PoolInv, NoLostWakeup, At
    <2>2. CASE signals' > 0
      BY <2>2, Zenon DEF NoLostWakeup
    <2> QED
      BY <2>1, <2>2, Zenon
  <1> QED
    BY <1>2, <1>3, Zenon DEF PoolSound

LEMMA EnqueueType ==
    ASSUME TypeOK, NEW j \in Job, Enqueue(j)
    PROVE  /\ queue' \in Seq(Job) /\ signals' \in Nat
           /\ UNCHANGED <<queue, signals>> \/ signals' > 0
  <1>1. CASE UNCHANGED <<queue, signals>>
    BY <1>1, Zenon DEF TypeOK
  <1>2. CASE queue' = Append(queue, j) /\ signals' = signals + 1
    BY <1>2, LongerQueue, Successor, Zenon DEF TypeOK
  <1> QED
    BY <1>1, <1>2, Zenon DEF Enqueue

LEMMA SubmissionType ==
    ASSUME TypeOK, NEW j \in Periodic, SubmitPeriodicJob(j)
    PROVE  /\ queue' \in Seq(Job) /\ signals' \in Nat
           /\ UNCHANGED <<queue, signals>> \/ signals' > 0
           /\ timer' \in [Periodic -> Nat]
  <1>1. DueAt(j) \in Nat
    BY DEF DueAt, TypeOK
  <1>2. timer' \in [Periodic -> Nat]
    <2>1. \/ timer' = [timer EXCEPT ![j] = 0]
          \/ timer' = [timer EXCEPT ![j] = DueAt(j)]
      BY Zenon DEF SubmitPeriodicJob
    <2>2. timer \in [Periodic -> Nat]
      BY Zenon DEF TypeOK
    <2>3. \A n \in Nat : [timer EXCEPT ![j] = n] \in [Periodic -> Nat]
      BY <2>2, NewTime, Zenon
    <2> QED
      BY <1>1, <2>1, <2>3, SmallNumbers, Zenon
  <1>3. UNCHANGED <<queue, signals>> \/ Enqueue(j)
    BY Zenon DEF SubmitPeriodicJob
  <1> QED
    BY <1>2, <1>3, EnqueueType, Zenon DEF TypeOK

LEMMA SubmitPool ==
    ASSUME PoolInv,
           \/ \E j \in Job : Submit(j) \/ TrySubmit(j)
           \/ \E j \in Periodic : Register(j) \/ TimerFires(j)
    PROVE  PoolInv'
  <1> USE DEF PoolInv
  <1>1. ASSUME NEW j \in Job, Submit(j) \/ TrySubmit(j)  PROVE PoolInv'
    <2>1. UNCHANGED <<queue, signals>> \/ Enqueue(j)
      BY <1>1, Zenon DEF Submit, TrySubmit
    <2>2. UNCHANGED <<active, activeClones, draining, stop, worker, timer, lastRun, now, panics, restarts>>
          /\ submitted' = submitted \cup {j}
      BY <1>1, Zenon DEF Submit, TrySubmit, faultVars
    <2>3. TypeOK'
      BY <2>1, <2>2, EnqueueType, Zenon DEF TypeOK, Busy
    <2>4. PoolSound'
      BY <2>1, <2>2, EnqueueType, SubmitStep, Zenon DEF Done
    <2> QED
      BY <2>3, <2>4, Zenon DEF PoolSound
  <1>2. ASSUME NEW j \in Periodic, Register(j) \/ TimerFires(j)  PROVE PoolInv'
    <2>1. SubmitPeriodicJob(j)
      BY <1>2, Zenon DEF Register, TimerFires
    <2>2. UNCHANGED <<active, activeClones, draining, stop, worker, lastRun, now, panics, restarts>>
          /\ submitted' \subseteq submitted \cup {j}
      BY <1>2, Zenon DEF Register, TimerFires, faultVars
    <2>3. TypeOK'
      BY <2>1, <2>2, SubmissionType, Zenon DEF TypeOK, Busy
    <2>4. PoolSound'
      BY <2>1, <2>2, SubmissionType, SubmitStep, Zenon DEF Done
    <2> QED
      BY <2>3, <2>4, Zenon DEF PoolSound
  <1> QED
    BY <1>1, <1>2, Zenon

\* Steps outside the pool.
LEMMA OutsidePool ==
    ASSUME PoolInv,
           \/ \E j \in Periodic : TimerStops(j)
           \/ Drain \/ Cancel \/ SetDone \/ Tick \/ UNCHANGED vars
    PROVE  PoolInv'
  <1>1. UNCHANGED <<queue, signals, active, activeClones, worker>>
    BY Zenon DEF TimerStops, Drain, Cancel, SetDone, Tick, poolVars, vars
  <1>2. Done => Done'
    BY Zenon DEF Done, TimerStops, Drain, Cancel, SetDone, Tick, vars
  <1>3. PoolSound'
    BY <1>1, <1>2, SubmitStep, Zenon
  <1>4. TypeOK'
    <2>1. ASSUME NEW j \in Periodic, TimerStops(j) PROVE TypeOK'
      BY <1>1, <2>1, Zenon DEF PoolInv, TypeOK, Busy, TimerStops, faultVars
    <2>2. CASE Drain \/ Cancel \/ SetDone
      BY <1>1, <2>2, Zenon DEF PoolInv, TypeOK, Busy, Drain, Cancel, SetDone, faultVars
    <2>3. CASE Tick \/ UNCHANGED vars
      BY <1>1, <2>3 DEF PoolInv, TypeOK, Busy, Tick, faultVars, vars
    <2> QED
      BY <2>1, <2>2, <2>3, Zenon
  <1> QED
    BY <1>3, <1>4, Zenon DEF PoolSound, PoolInv

\* Steps that leave every busy worker, the queue and the counters alone.
LEMMA IdleStep ==
    ASSUME PoolInv, worker' \in Shape,
           UNCHANGED <<queue, active, activeClones>>,
           Busy' = Busy, \A w \in Busy : worker'[w].job = worker[w].job
    PROVE  (ActiveSound /\ QueueExclusive /\ CloneLimit)' /\ Runnable' = Runnable
  <1>1. (ActiveSound /\ QueueExclusive)'
    BY DEF PoolInv, ActiveSound, QueueExclusive
  <1>2. {w \in Busy' : worker'[w].job \in Clones} = {w \in Busy : worker[w].job \in Clones}
    OBVIOUS
  <1>3. CloneLimit'
    BY <1>2, Zenon DEF PoolInv, CloneLimit
  <1>4. Runnable' = Runnable
    BY Zenon DEF Runnable, Eligible
  <1> QED
    BY <1>1, <1>3, <1>4, Zenon

LEMMA ShapeOf == TypeOK => worker \in Shape
  BY Zenon DEF TypeOK, Shape

LEMMA NotifyPool == ASSUME PoolInv, Notify PROVE PoolInv'
  <1>1. worker \in Shape
    BY ShapeOf, Zenon DEF PoolInv
  <1>2. Signal(worker)
    BY Zenon DEF Notify
  <1>3. /\ worker' \in Shape /\ BusyIn(worker') = BusyIn(worker)
        /\ \A w \in BusyIn(worker) : worker'[w] = worker[w]
        /\ WaitIn(worker') # {} => LockIn(worker') # {}
    BY <1>1, <1>2, SignalStep, Zenon
  <1>4. Busy' = Busy /\ \A w \in Busy : worker'[w] = worker[w]
    BY <1>3, Zenon DEF Busy, BusyIn
  <1>5. (ActiveSound /\ QueueExclusive /\ CloneLimit)'
    BY <1>3, <1>4, IdleStep, Zenon DEF Notify
  <1>6. NoLostWakeup'
    BY <1>3, Zenon DEF NoLostWakeup, Waiting, At, WaitIn, LockIn
  <1>7. TypeOK'
    BY <1>3, <1>4 DEF PoolInv, TypeOK, Notify, faultVars, Shape
  <1> QED
    BY <1>5, <1>6, <1>7, Zenon DEF PoolInv

LEMMA WaitPool == ASSUME PoolInv, NEW w \in Worker, Wait(w) \/ Exit(w) PROVE PoolInv'
  <1>1. worker \in Shape
    BY ShapeOf, Zenon DEF PoolInv
  <1>2. PICK pc \in {"wait", "exit"} : worker' = [worker EXCEPT ![w].pc = pc]
    BY Zenon DEF Wait, Exit
  <1>3. worker' \in Shape
    BY <1>1, <1>2, Zenon DEF Shape
  <1>4. worker[w].pc = "lock"
    BY Zenon DEF Wait, Exit, At
  <1>5. Busy' = Busy /\ \A v \in Busy : worker'[v] = worker[v]
    BY <1>1, <1>2, <1>4, Zenon DEF Busy, Shape
  <1>6. (ActiveSound /\ QueueExclusive /\ CloneLimit)' /\ Runnable' = Runnable
    BY <1>3, <1>5, IdleStep, Zenon DEF Wait, Exit
  <1>7. NoLostWakeup'
    BY <1>6, Zenon DEF NoLostWakeup, Wait, Exit, Done
  <1>8. TypeOK'
    BY <1>3, <1>5, Zenon DEF PoolInv, TypeOK, Wait, Exit, faultVars, Shape
  <1> QED
    BY <1>6, <1>7, <1>8, Zenon DEF PoolInv

LEMMA BroadcastPool == ASSUME PoolInv, Broadcast PROVE PoolInv'
  <1>1. worker \in Shape
    BY ShapeOf, Zenon DEF PoolInv
  <1>2. worker' \in Shape
    BY <1>1, Zenon DEF Broadcast, Shape, Ready
  <1>3. Busy' = Busy /\ \A v \in Busy : worker'[v] = worker[v]
    BY <1>1, Zenon DEF Busy, Shape, Broadcast, Ready, At
  <1>4. (ActiveSound /\ QueueExclusive /\ CloneLimit)'
    BY <1>2, <1>3, IdleStep, Zenon DEF Broadcast
  <1>5. NoLostWakeup'
    BY Zenon DEF NoLostWakeup, Broadcast, Done
  <1>6. TypeOK'
    BY <1>2, <1>3, Zenon DEF PoolInv, TypeOK, Broadcast, faultVars, Shape
  <1> QED
    BY <1>4, <1>5, <1>6, Zenon DEF PoolInv

LEMMA RestartPool == ASSUME PoolInv, Restart PROVE PoolInv'
  <1>1. TypeOK'
    <2>1. worker' \in Shape /\ \A w \in Worker : worker'[w].pc = "lock"
      BY DEF Restart, Shape, Ready
    <2>2. \A w \in Busy' : worker'[w].job \in Job
      BY <2>1, SMT DEF Busy
    <2>3. active' \in [Queue -> Job \cup {NoJob}]
      BY DEF Restart
    <2>4. queue' \in Seq(Job) /\ timer' \in [Periodic -> Nat]
      BY EmptyQueue, NoTimes, Zenon DEF Restart
    <2>5. restarts' \in Nat /\ signals' \in Nat /\ activeClones' \in Int
      BY SmallNumbers, Successor, Zenon DEF Restart, PoolInv, TypeOK
    <2> QED
      BY <2>1, <2>2, <2>3, <2>4, <2>5, Zenon DEF Restart, PoolInv, TypeOK, Shape
  <1>2. Busy' = {}
    BY Zenon DEF Restart, Busy, Ready
  <1>3. {w \in Busy' : worker'[w].job \in Clones} = {} /\ Cardinality({}) = 0
    BY <1>2, FS_EmptySet, Zenon
  <1>4. (ActiveSound /\ QueueExclusive /\ CloneLimit)'
    BY <1>2, <1>3 DEF ActiveSound, QueueExclusive, CloneLimit, Restart
  <1>5. NoLostWakeup'
    BY Zenon DEF Restart, NoLostWakeup, Waiting, At, Ready
  <1> QED
    BY <1>1, <1>4, <1>5, Zenon DEF PoolInv

LEMMA ReturnPool == ASSUME PoolInv, NEW w \in Worker, RunReturns(w) \/ RunPanics(w) PROVE PoolInv'
  <1>1. worker \in Shape
    BY ShapeOf, Zenon DEF PoolInv
  <1>2. worker' = [worker EXCEPT ![w].pc = "ran"] /\ worker[w].pc = "run"
    BY Zenon DEF RunReturns, RunPanics, At
  <1>3. worker' \in Shape
    BY <1>1, <1>2, Zenon DEF Shape
  <1>4. Busy' = Busy /\ \A v \in Busy : worker'[v].job = worker[v].job
    BY <1>1, <1>2, Zenon DEF Busy, Shape
  <1>5. (ActiveSound /\ QueueExclusive /\ CloneLimit)' /\ Runnable' = Runnable
    BY <1>3, <1>4, IdleStep, Zenon DEF RunReturns, RunPanics
  <1>6. NoLostWakeup'
    <2>1. \A v \in Worker : v # w => worker'[v] = worker[v]
      BY <1>1, <1>2, Zenon DEF Shape
    <2>2. Waiting' = Waiting /\ worker'[w].pc = "ran"
      BY <1>1, <1>2, <2>1, Zenon DEF Waiting, At, Shape
    <2> QED
      BY <1>2, <1>5, <2>1, <2>2, Zenon DEF PoolInv, NoLostWakeup, At, RunReturns, RunPanics, Done
  <1>7. timer' \in [Periodic -> Nat] /\ lastRun' \in [Periodic -> Nat] /\ panics' \in Nat
    <2>1. \/ UNCHANGED <<timer, lastRun>>
          \/ /\ worker[w].job \in Periodic
             /\ timer' = [timer EXCEPT ![worker[w].job] = now + Interval]
             /\ UNCHANGED lastRun \/ lastRun' = [lastRun EXCEPT ![worker[w].job] = now]
      BY Zenon DEF RunReturns, RunPanics
    <2>3. UNCHANGED panics \/ panics' = panics + 1
      BY Zenon DEF RunReturns, RunPanics, faultVars
    <2>4. now \in Nat /\ timer \in [Periodic -> Nat] /\ lastRun \in [Periodic -> Nat] /\ panics \in Nat
      BY Zenon DEF PoolInv, TypeOK
    <2>5. timer' \in [Periodic -> Nat] /\ lastRun' \in [Periodic -> Nat]
      <3>1. CASE UNCHANGED <<timer, lastRun>>
        BY <2>4, <3>1, Zenon
      <3>2. CASE worker[w].job \in Periodic
        <4>1. [timer EXCEPT ![worker[w].job] = now + Interval] \in [Periodic -> Nat]
          BY <2>4, <3>2, NewTime, Successor, Zenon
        <4>2. [lastRun EXCEPT ![worker[w].job] = now] \in [Periodic -> Nat]
          BY <2>4, <3>2, NewTime, Zenon
        <4> QED
          BY <2>1, <2>4, <4>1, <4>2, Zenon
      <3> QED
        BY <2>1, <3>1, <3>2, Zenon
    <2> QED
      BY <2>3, <2>4, <2>5, Successor, Zenon
  <1>8. UNCHANGED <<queue, active, activeClones, draining, stop, signals, submitted, now, restarts>>
    BY Zenon DEF RunReturns, RunPanics, faultVars
  <1>9. TypeOK'
    BY <1>3, <1>4, <1>7, <1>8, Zenon DEF PoolInv, TypeOK, Shape
  <1> QED
    BY <1>5, <1>6, <1>9, Zenon DEF PoolInv

\* The worker takes the first runnable job: its queue was free, so no other
\* worker runs a job of it, and the limit was not reached if it is a clone.
LEMMA TakePool == ASSUME PoolInv, NEW w \in Worker, TakeJob(w) PROVE PoolInv'
  <1> DEFINE clones == {v \in Busy : worker[v].job \in Clones}
  <1>1. worker \in Shape /\ worker[w].pc = "lock"
    BY ShapeOf, Zenon DEF PoolInv, TakeJob, At
  <1>2. PICK i \in Runnable :
          /\ queue' = Without(queue, i)
          /\ active' = [active EXCEPT ![QueueOf[queue[i]]] = queue[i]]
          /\ activeClones' = activeClones + CloneCount(queue[i])
          /\ Signal([worker EXCEPT ![w] = [pc |-> "run", job |-> queue[i]]])
    BY Zenon DEF TakeJob
  <1> DEFINE j == queue[i]
             ws == [worker EXCEPT ![w] = [pc |-> "run", job |-> j]]
  <1>3. i \in DOMAIN queue /\ Eligible(j)
    BY Zenon DEF Runnable
  <1>4. j \in Job /\ queue' \in Seq(Job)
    BY <1>2, <1>3, ShorterQueue, Zenon DEF PoolInv, TypeOK
  <1> HIDE DEF j
  <1>5. /\ ws \in Shape /\ ws[w] = [pc |-> "run", job |-> j]
        /\ \A v \in Worker : v # w => ws[v] = worker[v]
    BY <1>1, <1>4 DEF Shape
  <1>6. BusyIn(ws) = Busy \cup {w} /\ w \notin Busy
    BY <1>1, <1>5 DEF BusyIn, Busy
  <1>7. Signal(ws)
    BY <1>2, Zenon DEF j
  <1> HIDE DEF ws
  <1>8. /\ worker' \in Shape /\ BusyIn(worker') = BusyIn(ws)
        /\ \A v \in BusyIn(ws) : worker'[v] = ws[v]
        /\ WaitIn(worker') # {} => LockIn(worker') # {}
    BY <1>5, <1>7, SignalStep, Zenon
  <1>9. Busy' = Busy \cup {w}
    BY <1>6, <1>8, Zenon DEF Busy, BusyIn
  <1>10. worker'[w].job = j
    BY <1>5, <1>6, <1>8
  <1>11. \A v \in Busy : v \in Worker /\ v # w /\ worker'[v] = worker[v]
    BY <1>5, <1>6, <1>8, Zenon DEF Busy
  <1>12. active[QueueOf[j]] = NoJob /\ QueueOf[j] \in Queue
    BY <1>3, <1>4, Zenon DEF Eligible
  <1>13. \A v \in Busy : /\ worker[v].job \in Job
                         /\ active[QueueOf[worker[v].job]] = worker[v].job
                         /\ QueueOf[worker[v].job] # QueueOf[j]
    <2>1. ASSUME NEW v \in Busy
          PROVE  worker[v].job \in Job /\ active[QueueOf[worker[v].job]] = worker[v].job
      BY <2>1, Zenon DEF PoolInv, TypeOK, ActiveSound
    <2>2. NoJob \notin Job
      BY JobAssumption, Zenon
    <2> QED
      BY <1>12, <2>1, <2>2, Zenon
  <1>14. /\ active' \in [Queue -> Job \cup {NoJob}]
         /\ active'[QueueOf[j]] = j
         /\ \A q \in Queue : q # QueueOf[j] => active'[q] = active[q]
    BY <1>2, <1>4, <1>12 DEF PoolInv, TypeOK, j
  <1>15. ActiveSound'
    <2>1. \A v \in Busy' : active'[QueueOf[worker'[v].job]] = worker'[v].job
      <3>1. \A v \in Busy : QueueOf[worker[v].job] \in Queue
        BY <1>13, JobAssumption
      <3>2. \A v \in Busy : active'[QueueOf[worker'[v].job]] = worker'[v].job
        <4> SUFFICES ASSUME NEW v \in Busy
                     PROVE  active'[QueueOf[worker'[v].job]] = worker'[v].job
          BY Zenon
        <4>1. active'[QueueOf[worker[v].job]] = active[QueueOf[worker[v].job]]
          BY <1>13, <1>14, <3>1, Zenon
        <4> QED
          BY <1>11, <1>13, <4>1, Zenon
      <3> QED
        BY <1>9, <1>10, <1>14, <3>2, Zenon
    <2>2. ASSUME NEW q \in Queue, active'[q] # NoJob
          PROVE  \E v \in Busy' : QueueOf[worker'[v].job] = q
      <3>1. CASE q = QueueOf[j]
        BY <1>9, <1>10, <3>1, Zenon
      <3>2. CASE q # QueueOf[j]
        <4>1. PICK v \in Busy : QueueOf[worker[v].job] = q
          BY <1>14, <2>2, <3>2, Zenon DEF PoolInv, ActiveSound
        <4> QED
          BY <1>9, <1>11, <4>1, Zenon
      <3> QED
        BY <3>1, <3>2, Zenon
    <2> QED
      BY <2>1, <2>2, Zenon DEF ActiveSound
  <1>16. QueueExclusive'
    <2>1. \A u, v \in Busy : QueueOf[worker'[u].job] = QueueOf[worker'[v].job] => u = v
      BY <1>11, Zenon DEF PoolInv, QueueExclusive
    <2>2. \A v \in Busy : QueueOf[worker'[v].job] # QueueOf[worker'[w].job]
      BY <1>10, <1>11, <1>13, Zenon
    <2> QED
      BY <1>9, <2>1, <2>2, Zenon DEF QueueExclusive
  <1>17. CloneLimit' /\ activeClones' \in Int
    <2>1. activeClones' = activeClones + CloneCount(j)
      BY <1>2, Zenon DEF j
    <2>2. /\ activeClones = Cardinality(clones)
          /\ MaxCloneConcurrency > 0 => Cardinality(clones) <= MaxCloneConcurrency
      BY Zenon DEF PoolInv, CloneLimit
    <2>3. clones \in SUBSET Worker /\ w \notin clones
      BY <1>6, Zenon DEF Busy
    <2>4. Cardinality(clones) \in Nat /\ Cardinality(clones \cup {w}) = Cardinality(clones) + 1
      BY <2>3, OneMore, Zenon
    <2>5. CASE j \in Clones
      <3>1. {v \in Busy' : worker'[v].job \in Clones} = clones \cup {w}
        BY <2>5, <1>9, <1>10, <1>11, Zenon
      <3>2. MaxCloneConcurrency > 0 => ~(activeClones >= MaxCloneConcurrency)
        BY <2>5, <1>3, Zenon DEF Eligible, j
      <3>3. CloneCount(j) = 1
        BY <2>5, Zenon DEF CloneCount
      <3> HIDE DEF clones
      <3>4. activeClones' = Cardinality(clones \cup {w}) /\ activeClones' \in Int
        BY <2>1, <2>2, <2>4, <3>3, Successor, CloneArithmetic, Zenon
      <3>5. MaxCloneConcurrency > 0 => Cardinality(clones \cup {w}) <= MaxCloneConcurrency
        BY <2>2, <2>4, <3>2, CloneArithmetic, Zenon
      <3> QED
        BY <3>1, <3>4, <3>5, Zenon DEF CloneLimit
    <2>6. CASE j \notin Clones
      <3>1. {v \in Busy' : worker'[v].job \in Clones} = clones
        BY <2>6, <1>9, <1>10, <1>11, Zenon
      <3>2. CloneCount(j) = 0
        BY <2>6, Zenon DEF CloneCount
      <3> HIDE DEF clones
      <3>3. activeClones' = Cardinality(clones) /\ activeClones' \in Int
        BY <2>1, <2>2, <2>4, <3>2, CloneArithmetic, Zenon
      <3> QED
        BY <2>2, <3>1, <3>3, Zenon DEF CloneLimit
    <2> QED
      BY <2>5, <2>6, Zenon
  <1>18. NoLostWakeup'
    BY <1>8, Zenon DEF NoLostWakeup, Waiting, At, WaitIn, LockIn
  <1>19. \A v \in Busy' : worker'[v].job \in Job
    BY <1>4, <1>9, <1>10, <1>11, <1>13, Zenon
  <1>20. TypeOK'
    BY <1>4, <1>8, <1>14, <1>17, <1>19, Zenon DEF PoolInv, TypeOK, Shape, TakeJob, faultVars
  <1> QED
    BY <1>15, <1>16, <1>17, <1>18, <1>20, Zenon DEF PoolInv

\* The worker gives its job back: the entry of q.active it clears is its own.
LEMMA MarkPool == ASSUME PoolInv, NEW w \in Worker, MarkQueueInactive(w) PROVE PoolInv'
  <1> DEFINE clones == {v \in Busy : worker[v].job \in Clones}
             j == worker[w].job
             ws == [worker EXCEPT ![w] = Ready]
  <1>1. worker \in Shape /\ worker[w].pc = "ran"
    BY ShapeOf, Zenon DEF PoolInv, MarkQueueInactive, At
  <1>2. w \in Busy
    BY <1>1, Zenon DEF Busy
  <1>3. j \in Job /\ QueueOf[j] \in Queue /\ active[QueueOf[j]] = j
    BY <1>2, JobAssumption, Zenon DEF PoolInv, TypeOK, ActiveSound
  <1>4. /\ activeClones' = activeClones - CloneCount(j)
        /\ active' = [active EXCEPT ![QueueOf[j]] = NoJob]
        /\ Signal(ws)
    BY <1>3, Zenon DEF MarkQueueInactive
  <1>5. /\ ws \in Shape /\ ws[w] = Ready /\ Ready.pc = "lock"
        /\ \A v \in Worker : v # w => ws[v] = worker[v]
    BY <1>1 DEF Shape, Ready
  <1>6. BusyIn(ws) = Busy \ {w}
    BY <1>5 DEF BusyIn, Busy
  <1> HIDE DEF ws
  <1>7. /\ worker' \in Shape /\ BusyIn(worker') = BusyIn(ws)
        /\ \A v \in BusyIn(ws) : worker'[v] = ws[v]
        /\ WaitIn(worker') # {} => LockIn(worker') # {}
    BY <1>4, <1>5, SignalStep, Zenon
  <1>8. Busy' = Busy \ {w}
    BY <1>6, <1>7, Zenon DEF Busy, BusyIn
  <1>9. \A v \in Busy' : v \in Worker /\ v \in Busy /\ v # w /\ worker'[v] = worker[v]
    BY <1>5, <1>6, <1>7, <1>8, Zenon DEF Busy
  <1>10. \A v \in Busy' : /\ worker[v].job \in Job /\ QueueOf[worker[v].job] \in Queue
                          /\ active[QueueOf[worker[v].job]] = worker[v].job
    BY <1>9, JobAssumption, Zenon DEF PoolInv, TypeOK, ActiveSound
  <1>11. \A v \in Busy' : QueueOf[worker[v].job] # QueueOf[j]
    BY <1>2, <1>9, Zenon DEF PoolInv, QueueExclusive
  <1>12. /\ active' \in [Queue -> Job \cup {NoJob}]
         /\ active'[QueueOf[j]] = NoJob
         /\ \A q \in Queue : q # QueueOf[j] => active'[q] = active[q]
    BY <1>3, <1>4 DEF PoolInv, TypeOK
  <1> HIDE DEF j
  <1>13. ActiveSound'
    <2>1. \A v \in Busy' : active'[QueueOf[worker'[v].job]] = worker'[v].job
      <3> SUFFICES ASSUME NEW v \in Busy'
                   PROVE  active'[QueueOf[worker'[v].job]] = worker'[v].job
        BY Zenon
      <3>1. active'[QueueOf[worker[v].job]] = active[QueueOf[worker[v].job]]
        BY <1>10, <1>11, <1>12, Zenon
      <3> QED
        BY <1>9, <1>10, <3>1, Zenon
    <2>2. ASSUME NEW q \in Queue, active'[q] # NoJob
          PROVE  \E v \in Busy' : QueueOf[worker'[v].job] = q
      <3>1. q # QueueOf[j]
        BY <1>12, <2>2, Zenon
      <3>2. PICK v \in Busy : QueueOf[worker[v].job] = q
        BY <1>12, <2>2, <3>1, Zenon DEF PoolInv, ActiveSound
      <3>3. v # w
        BY <3>1, <3>2, Zenon DEF j
      <3> QED
        BY <1>8, <1>9, <3>2, <3>3, Zenon
    <2> QED
      BY <2>1, <2>2, Zenon DEF ActiveSound
  <1>14. QueueExclusive'
    <2>1. \A u, v \in Busy' : QueueOf[worker'[u].job] = QueueOf[worker'[v].job] => u = v
      BY <1>9, Zenon DEF PoolInv, QueueExclusive
    <2> QED
      BY <2>1, Zenon DEF QueueExclusive
  <1>15. CloneLimit' /\ activeClones' \in Int
    <2>1. /\ activeClones = Cardinality(clones)
          /\ MaxCloneConcurrency > 0 => Cardinality(clones) <= MaxCloneConcurrency
      BY Zenon DEF PoolInv, CloneLimit
    <2>2. clones \in SUBSET Worker
      BY Zenon DEF Busy
    <2>3. /\ Cardinality(clones) \in Nat /\ Cardinality(clones \ {w}) \in Nat
          /\ w \in clones => Cardinality(clones \ {w}) = Cardinality(clones) - 1
      BY <2>2, OneMore, Zenon
    <2>4. CASE j \in Clones
      <3>1. {v \in Busy' : worker'[v].job \in Clones} = clones \ {w} /\ w \in clones
        BY <2>4, <1>2, <1>8, <1>9, Zenon DEF j
      <3>2. CloneCount(j) = 1
        BY <2>4, Zenon DEF CloneCount
      <3> HIDE DEF clones
      <3>3. activeClones' = Cardinality(clones \ {w}) /\ activeClones' \in Int
        BY <1>4, <2>1, <2>3, <3>1, <3>2, CloneArithmetic, Zenon
      <3>4. MaxCloneConcurrency > 0 => Cardinality(clones \ {w}) <= MaxCloneConcurrency
        BY <2>1, <2>3, <3>1, CloneArithmetic, Zenon
      <3> QED
        BY <3>1, <3>3, <3>4, Zenon DEF CloneLimit
    <2>5. CASE j \notin Clones
      <3>1. {v \in Busy' : worker'[v].job \in Clones} = clones
        BY <2>5, <1>8, <1>9, Zenon DEF j
      <3>2. CloneCount(j) = 0
        BY <2>5, Zenon DEF CloneCount
      <3> HIDE DEF clones
      <3>3. activeClones' = Cardinality(clones) /\ activeClones' \in Int
        BY <1>4, <2>1, <2>3, <3>2, CloneArithmetic, Zenon
      <3> QED
        BY <2>1, <3>1, <3>3, Zenon DEF CloneLimit
    <2> QED
      BY <2>4, <2>5, Zenon
  <1>16. NoLostWakeup'
    BY <1>7, Zenon DEF NoLostWakeup, Waiting, At, WaitIn, LockIn
  <1>17. \A v \in Busy' : worker'[v].job \in Job
    BY <1>9, <1>10, Zenon
  <1>18. TypeOK'
    BY <1>7, <1>12, <1>15, <1>17, Zenon DEF PoolInv, TypeOK, Shape, MarkQueueInactive, faultVars
  <1> QED
    BY <1>13, <1>14, <1>15, <1>16, <1>18, Zenon DEF PoolInv

LEMMA NextPool == ASSUME PoolInv, [Next]_vars PROVE PoolInv'
  <1>1. ASSUME NEW w \in Worker, Work(w) PROVE PoolInv'
    BY <1>1, TakePool, WaitPool, ReturnPool, MarkPool, Zenon DEF Work
  <1>2. ASSUME NEW j \in Periodic, Register(j) \/ TimerFires(j) \/ TimerStops(j) PROVE PoolInv'
    BY <1>2, SubmitPool, OutsidePool, Zenon
  <1>3. ASSUME NEW j \in Job, Submit(j) \/ TrySubmit(j) PROVE PoolInv'
    BY <1>3, SubmitPool, Zenon
  <1>4. CASE Drain \/ Cancel \/ SetDone \/ Tick \/ UNCHANGED vars
    BY <1>4, OutsidePool, Zenon
  <1>5. CASE Notify \/ Broadcast \/ Restart
    BY <1>5, NotifyPool, BroadcastPool, RestartPool, Zenon
  <1> QED
    BY <1>1, <1>2, <1>3, <1>4, <1>5, Zenon DEF Next

\* The inductive invariant of the pool: q.active, the clone counter and the
\* condition variable are right after every critical section of jobs.go.
THEOREM PoolCorrect == Spec => []PoolInv
  <1>1. Init => PoolInv
    BY InitPool
  <1>2. PoolInv /\ [Next]_vars => PoolInv'
    BY NextPool
  <1> QED
    BY <1>1, <1>2, PTL DEF Spec

\* No two jobs of a queue ever run together (takeNextJobLocked).
THEOREM QueueExclusiveAlways == Spec => []QueueExclusive
  <1>1. PoolInv => QueueExclusive
    BY DEF PoolInv
  <1> QED
    BY <1>1, PoolCorrect, PTL

\* The clone counter counts, and the limit holds (takeNextJobLocked).
THEOREM CloneLimitAlways == Spec => []CloneLimit
  <1>1. PoolInv => CloneLimit
    BY DEF PoolInv
  <1> QED
    BY <1>1, PoolCorrect, PTL

\* A runnable job never waits for a pool that sleeps (Submit, takeNextJobLocked
\* and markQueueInactive each Signal one waiter).
THEOREM NoLostWakeupAlways == Spec => []NoLostWakeup
  <1>1. PoolInv => NoLostWakeup
    BY DEF PoolInv
  <1> QED
    BY <1>1, PoolCorrect, PTL
-----------------------------------------------------------------------------
(* The series of a periodic job, and the intake.                           *)

Holds(s, j) == \E i \in DOMAIN s : s[i] = j
Once(s, j) == \A i, k \in DOMAIN s : s[i] = j /\ s[k] = j => i = k

\* Running: a worker is inside job.run, and the re-arm is still to come.
Running(j) == \E w \in Worker : At(w, "run") /\ worker[w].job = j

\* A job is in one place at most, in none before it was submitted, and in one
\* as long as nothing ends its series.
Single(j) ==
    /\ Once(queue, j)
    /\ Holds(queue, j) => ~Running(j) /\ timer[j] = 0
    /\ Running(j) => timer[j] = 0
    /\ j \notin submitted => ~Holds(queue, j) /\ ~Running(j) /\ timer[j] = 0
    /\ j \in submitted /\ ~draining /\ ~Cancelled /\ panics = 0
          => Holds(queue, j) \/ Running(j) \/ timer[j] # 0

\* A job is in the queue only when it is due.
Due(j) == Holds(queue, j) /\ lastRun[j] # 0 => lastRun[j] + Interval <= now

SeriesInv == \A j \in Periodic : Single(j) /\ Due(j)

LEMMA HoldsAppended ==
    ASSUME NEW s \in Seq(Job), NEW a \in Job, NEW j \in Job
    PROVE  /\ Holds(Append(s, a), j) <=> Holds(s, j) \/ a = j
           /\ Once(s, j) /\ ~(a = j /\ Holds(s, j)) => Once(Append(s, a), j)
           /\ Len(Append(s, a)) = Len(s) + 1
<1>1. /\ Append(s, a) \in Seq(Job) /\ DOMAIN s = 1..Len(s) /\ Len(s) \in Nat
      /\ DOMAIN Append(s, a) = 1..Len(s) + 1
      /\ Append(s, a)[Len(s) + 1] = a
      /\ \A i \in 1..Len(s) : Append(s, a)[i] = s[i]
      /\ Len(Append(s, a)) = Len(s) + 1
  BY SMT
<1>2. \A i \in 1..Len(s) + 1 : i \in 1..Len(s) \/ i = Len(s) + 1
  BY <1>1
<1>3. Len(s) + 1 \in 1..Len(s) + 1 /\ 1..Len(s) \subseteq 1..Len(s) + 1
  BY <1>1
<1> QED
  BY <1>1, <1>2, <1>3, Zenon DEF Holds, Once

LEMMA Joined == \A s, t \in Seq(Job) : s \o t \in Seq(Job) /\ Len(s \o t) = Len(s) + Len(t)
  BY SMT

LEMMA HoldsWithout ==
    ASSUME NEW s \in Seq(Job), NEW i \in DOMAIN s, NEW j \in Job
    PROVE  /\ s[i] # j => (Holds(Without(s, i), j) <=> Holds(s, j))
           /\ Once(s, j) => Once(Without(s, i), j)
           /\ s[i] = j /\ Once(s, j) => ~Holds(Without(s, i), j)
           /\ Len(Without(s, i)) = Len(s) - 1
<1> DEFINE t == Without(s, i)
<1>0. DOMAIN s = 1..Len(s) /\ Len(s) \in Nat /\ i \in 1..Len(s)
  OBVIOUS
<1>1. /\ DOMAIN s = 1..Len(s) /\ Len(s) \in Nat /\ i \in 1..Len(s)
      /\ DOMAIN t = 1..Len(s) - 1 /\ Len(t) = Len(s) - 1
      /\ \A k \in 1..Len(s) - 1 : t[k] = IF k < i THEN s[k] ELSE s[k + 1]
  <2> DEFINE a == SubSeq(s, 1, i - 1)
             b == SubSeq(s, i + 1, Len(s))
  <2>1. a \in Seq(Job) /\ Len(a) = i - 1 /\ \A k \in 1..i - 1 : a[k] = s[k]
    BY <1>0
  <2>2. b \in Seq(Job) /\ Len(b) = Len(s) - i /\ \A k \in 1..Len(s) - i : b[k] = s[k + i]
    BY <1>0
  <2>3. t = a \o b
    BY DEF Without
  <2> HIDE DEF a, b, t
  <2>4. t \in Seq(Job) /\ Len(t) = Len(s) - 1
    <3>1. t \in Seq(Job) /\ Len(t) = Len(a) + Len(b)
      BY <2>1, <2>2, <2>3, Joined, Zenon
    <3> QED
      BY <1>0, <2>1, <2>2, <3>1
  <2>5. ASSUME NEW k \in 1..Len(s) - 1 PROVE t[k] = IF k < i THEN s[k] ELSE s[k + 1]
    <3>1. CASE k < i
      BY <1>0, <2>1, <2>2, <2>3, <3>1
    <3>2. CASE ~(k < i)
      <4>1. t[k] = b[k - (i - 1)] /\ k - (i - 1) \in 1..Len(s) - i
        BY <1>0, <2>1, <2>2, <2>3, <3>2
      <4>2. (k - (i - 1)) + i = k + 1
        BY <1>0
      <4> QED
        BY <2>2, <3>2, <4>1, <4>2
    <3> QED
      BY <3>1, <3>2
  <2> QED
    BY <1>0, <2>4, <2>5
<1> HIDE DEF t
<1>2. s[i] # j => (Holds(t, j) <=> Holds(s, j))
  <2>1. ASSUME NEW k \in DOMAIN t, t[k] = j PROVE Holds(s, j)
    BY <1>1, <2>1 DEF Holds
  <2>2. ASSUME NEW k \in DOMAIN s, s[k] = j, s[i] # j PROVE Holds(t, j)
    <3>1. CASE k < i
      BY <1>1, <2>2, <3>1 DEF Holds
    <3>2. CASE k > i
      <4>1. k - 1 \in DOMAIN t /\ t[k - 1] = j
        BY <1>1, <2>2, <3>2
      <4> QED
        BY <4>1 DEF Holds
    <3> QED
      BY <1>1, <2>2, <3>1, <3>2
  <2> QED
    BY <2>1, <2>2 DEF Holds
<1>3. Once(s, j) => Once(t, j)
  <2> SUFFICES ASSUME Once(s, j), NEW k \in DOMAIN t, NEW l \in DOMAIN t, t[k] = j, t[l] = j
               PROVE  k = l
    BY DEF Once
  <2> DEFINE up(n) == IF n < i THEN n ELSE n + 1
  <2>1. up(k) \in DOMAIN s /\ up(l) \in DOMAIN s /\ s[up(k)] = j /\ s[up(l)] = j
    BY <1>1
  <2>2. up(k) = up(l)
    BY <2>1 DEF Once
  <2> QED
    BY <1>1, <2>2
<1>4. s[i] = j /\ Once(s, j) => ~Holds(t, j)
  <2> SUFFICES ASSUME Once(s, j), s[i] = j, NEW k \in DOMAIN t, t[k] = j PROVE FALSE
    BY DEF Holds
  <2> DEFINE up(n) == IF n < i THEN n ELSE n + 1
  <2>1. up(k) \in DOMAIN s /\ s[up(k)] = j /\ up(k) # i
    BY <1>1
  <2> QED
    BY <2>1 DEF Once
<1> QED
  BY <1>1, <1>2, <1>3, <1>4 DEF t
LEMMA RunningSame ==
    ASSUME \A w \in Worker :
              /\ worker'[w].pc = "run" <=> worker[w].pc = "run"
              /\ worker[w].pc = "run" => worker'[w].job = worker[w].job
    PROVE  \A j \in Job : Running(j)' <=> Running(j)
  BY Zenon DEF Running, At

\* A step that moves no occurrence of j and ends no series keeps them.
LEMMA SeriesKept ==
    ASSUME TypeOK, TypeOK', NEW j \in Periodic, Single(j), Due(j),
           Once(queue', j), Holds(queue', j) <=> Holds(queue, j),
           Running(j)' <=> Running(j), timer'[j] = timer[j],
           j \in submitted' <=> j \in submitted, lastRun'[j] = lastRun[j],
           draining => draining', Cancelled => Cancelled',
           panics # 0 => panics' # 0, now' >= now
    PROVE  (Single(j) /\ Due(j))'
<1>1. Single(j)'
  BY Zenon DEF Single
<1>2. lastRun[j] \in Nat /\ now \in Nat /\ now' \in Nat
  BY DEF TypeOK
<1>3. Due(j)'
  BY <1>2 DEF Due
<1> QED
  BY <1>1, <1>3

LEMMA InitSeries == Init => SeriesInv
<1> SUFFICES ASSUME Init, NEW j \in Periodic PROVE Single(j) /\ Due(j)
  BY DEF SeriesInv
<1>1. ~Holds(queue, j) /\ Once(queue, j)
  BY DEF Init, Holds, Once
<1>2. ~Running(j) /\ timer[j] = 0 /\ j \notin submitted
  BY Zenon DEF Init, Running, At, Ready
<1> QED
  BY <1>1, <1>2, Zenon DEF Single, Due

\* Enqueue of another job leaves j where it is.
LEMMA EnqueueSeries ==
    ASSUME TypeOK, NEW a \in Job, NEW j \in Job, Once(queue, j),
           UNCHANGED queue \/ Enqueue(a), a # j
    PROVE  Once(queue', j) /\ (Holds(queue', j) <=> Holds(queue, j))
<1>1. queue' = queue \/ queue' = Append(queue, a)
  BY Zenon DEF Enqueue
<1>2. CASE queue' = queue
  BY <1>2
<1>3. CASE queue' = Append(queue, a)
  <2>1. queue \in Seq(Job)
    BY Zenon DEF TypeOK
  <2>2. Once(Append(queue, a), j) /\ (Holds(Append(queue, a), j) <=> Holds(queue, j))
    BY <2>1, HoldsAppended, Zenon
  <2> QED
    BY <1>3, <2>2
<1> QED
  BY <1>1, <1>2, <1>3

LEMMA SubmitSeries ==
    ASSUME TypeOK, TypeOK', SeriesInv, NEW a \in Job, Submit(a) \/ TrySubmit(a)
    PROVE  SeriesInv'
<1> SUFFICES ASSUME NEW j \in Periodic PROVE (Single(j) /\ Due(j))'
  BY Zenon DEF SeriesInv
<1>1. a # j /\ j \in Job
  BY Zenon DEF Submit, TrySubmit
<1>2. UNCHANGED queue \/ Enqueue(a)
  BY Zenon DEF Submit, TrySubmit
<1>3. UNCHANGED <<draining, stop, worker, timer, lastRun, now, panics>>
      /\ submitted' = submitted \cup {a}
  BY Zenon DEF Submit, TrySubmit, faultVars
<1>4. Single(j) /\ Due(j) /\ Once(queue, j)
  BY Zenon DEF SeriesInv, Single
<1>5. Once(queue', j) /\ (Holds(queue', j) <=> Holds(queue, j))
  BY <1>1, <1>2, <1>4, EnqueueSeries, Zenon
<1>6. Running(j)' <=> Running(j)
  BY <1>1, <1>3, RunningSame, Zenon
<1>7. now' >= now
  BY <1>3 DEF TypeOK
<1>8. Cancelled => Cancelled'
  BY <1>3, Zenon DEF Cancelled
<1> QED
  BY <1>1, <1>3, <1>4, <1>5, <1>6, <1>7, <1>8, SeriesKept, Zenon

\* SubmitPeriodicJob puts a job that is nowhere in the queue, if it is due, or
\* to sleep; it drops it only when the scheduler drains or is cancelled.
LEMMA PlaceSeries ==
    ASSUME TypeOK, TypeOK', SeriesInv, NEW a \in Periodic, SubmitPeriodicJob(a),
           ~Holds(queue, a), ~Running(a), a \in submitted',
           submitted' = submitted \cup {a},
           UNCHANGED <<draining, stop, worker, lastRun, now, panics>>
    PROVE  SeriesInv'
<1> SUFFICES ASSUME NEW j \in Periodic PROVE (Single(j) /\ Due(j))'
  BY Zenon DEF SeriesInv
<1>1. a \in Job /\ j \in Job
  BY Zenon
<1>2. UNCHANGED queue \/ Enqueue(a)
  BY Zenon DEF SubmitPeriodicJob
<1>3. Single(j) /\ Due(j) /\ Once(queue, j) /\ Once(queue, a)
  BY Zenon DEF SeriesInv, Single
<1>4. Running(j)' <=> Running(j)
  BY <1>1, RunningSame, Zenon
<1>5. now' >= now /\ now \in Nat /\ lastRun[j] \in Nat /\ timer \in [Periodic -> Nat]
      /\ queue \in Seq(Job)
  BY DEF TypeOK
<1>6. Cancelled' <=> Cancelled
  BY Zenon DEF Cancelled
<1>7. CASE j # a
  <2>1. Once(queue', j) /\ (Holds(queue', j) <=> Holds(queue, j))
    BY <1>1, <1>2, <1>3, <1>7, EnqueueSeries, Zenon
  <2>2. timer'[j] = timer[j]
    BY <1>5, <1>7, Zenon DEF SubmitPeriodicJob
  <2> QED
    BY <1>1, <1>3, <1>4, <1>5, <1>6, <1>7, <2>1, <2>2, SeriesKept, Zenon
<1>8. CASE j = a
  <2>1. CASE Cancelled \/ draining
    <3>1. timer'[j] = 0 /\ queue' = queue
      BY <1>5, <1>8, <2>1, Zenon DEF SubmitPeriodicJob
    <3> QED
      BY <1>3, <1>4, <1>6, <1>8, <2>1, <3>1, Zenon DEF Single, Due
  <2>2. CASE ~(Cancelled \/ draining) /\ DueAt(j) > now
    <3>1. timer'[j] = DueAt(j) /\ queue' = queue
      BY <1>5, <1>8, <2>2, Zenon DEF SubmitPeriodicJob
    <3>2. timer'[j] # 0
      BY <1>5, <2>2, <3>1
    <3> QED
      BY <1>3, <1>4, <1>8, <3>1, <3>2, Zenon DEF Single, Due
  <2>3. CASE ~(Cancelled \/ draining) /\ ~(DueAt(j) > now)
    <3>1. timer'[j] = 0 /\ Enqueue(a)
      BY <1>5, <1>8, <2>3, Zenon DEF SubmitPeriodicJob
    <3>2. queue' = Append(queue, a)
      BY <2>3, <3>1, Zenon DEF Enqueue, Done, Cancelled
    <3>3. Once(queue', j) /\ Holds(queue', j)
      BY <1>1, <1>3, <1>5, <1>8, <3>2, HoldsAppended, Zenon
    <3>4. lastRun[j] # 0 => lastRun[j] + Interval <= now
      BY <1>5, <2>3 DEF DueAt
    <3>5. Single(j)'
      BY <1>3, <1>4, <1>8, <3>1, <3>3, Zenon DEF Single
    <3>6. Due(j)'
      BY <3>4, Zenon DEF Due
    <3> QED
      BY <3>5, <3>6
  <2> QED
    BY <2>1, <2>2, <2>3, Zenon
<1> QED
  BY <1>7, <1>8
LEMMA RegisterSeries ==
    ASSUME TypeOK, TypeOK', SeriesInv, NEW a \in Periodic, Register(a) \/ TimerFires(a)
    PROVE  SeriesInv'
<1>1. SubmitPeriodicJob(a)
      /\ UNCHANGED <<draining, stop, worker, lastRun, now, panics>>
  BY Zenon DEF Register, TimerFires, faultVars
<1>2. Single(a)
  BY Zenon DEF SeriesInv
<1>3. CASE Register(a)
  <2>1. a \notin submitted /\ submitted' = submitted \cup {a}
    BY <1>3, Zenon DEF Register
  <2>2. ~Holds(queue, a) /\ ~Running(a) /\ a \in submitted'
    BY <1>2, <2>1, Zenon DEF Single
  <2> QED
    BY <1>1, <2>1, <2>2, PlaceSeries, Zenon
<1>4. CASE TimerFires(a)
  <2>1. timer[a] # 0 /\ submitted' = submitted
    BY <1>4, Zenon DEF TimerFires
  <2>2. ~Holds(queue, a) /\ ~Running(a) /\ a \in submitted
    BY <1>2, <2>1, Zenon DEF Single
  <2>3. a \in submitted' /\ submitted' = submitted \cup {a}
    BY <2>1, <2>2, Zenon
  <2> QED
    BY <1>1, <2>2, <2>3, PlaceSeries, Zenon
<1> QED
  BY <1>3, <1>4, Zenon

LEMMA StopsSeries ==
    ASSUME TypeOK, TypeOK', SeriesInv, NEW a \in Periodic, TimerStops(a)
    PROVE  SeriesInv'
<1> SUFFICES ASSUME NEW j \in Periodic PROVE (Single(j) /\ Due(j))'
  BY Zenon DEF SeriesInv
<1>1. /\ UNCHANGED <<queue, draining, stop, worker, submitted, lastRun, now, panics>>
      /\ timer' = [timer EXCEPT ![a] = 0]
      /\ draining \/ Cancelled
  BY Zenon DEF TimerStops, poolVars, faultVars
<1>2. timer'[j] = timer[j] \/ timer'[j] = 0
  BY <1>1, Zenon DEF TypeOK
<1>3. Single(j) /\ Due(j)
  BY Zenon DEF SeriesInv
<1>4. j \in Job /\ (Running(j)' <=> Running(j)) /\ (Cancelled' <=> Cancelled)
  BY <1>1, RunningSame, Zenon DEF Cancelled
<1>5. Single(j)'
  BY <1>1, <1>2, <1>3, <1>4, Zenon DEF Single
<1>6. Due(j)'
  BY <1>1, <1>3, Zenon DEF Due
<1> QED
  BY <1>5, <1>6

\* Steps of the pool that start and end no run.
LEMMA IdleSeries ==
    ASSUME TypeOK, TypeOK', SeriesInv,
           UNCHANGED <<queue, timer, submitted, lastRun>>,
           \A j \in Job : Running(j)' <=> Running(j),
           draining => draining', Cancelled => Cancelled',
           panics # 0 => panics' # 0, now' >= now
    PROVE  SeriesInv'
<1> SUFFICES ASSUME NEW j \in Periodic PROVE (Single(j) /\ Due(j))'
  BY Zenon DEF SeriesInv
<1>1. Single(j) /\ Due(j) /\ Once(queue, j) /\ j \in Job
  BY Zenon DEF SeriesInv, Single
<1> QED
  BY <1>1, SeriesKept, Zenon

LEMMA NotifySeries ==
    ASSUME TypeOK, TypeOK', SeriesInv, Notify \/ Broadcast
    PROVE  SeriesInv'
<1>1. /\ UNCHANGED <<queue, timer, submitted, lastRun, draining, now, panics>>
      /\ Cancelled => Cancelled'
  BY Zenon DEF Notify, Broadcast, Cancelled, faultVars
<1>2. now' >= now
  BY <1>1 DEF TypeOK
<1>3. worker \in Shape
  BY ShapeOf
<1>4. CASE Notify
  <2>1. Signal(worker)
    BY <1>4, Zenon DEF Notify
  <2>2. BusyIn(worker') = BusyIn(worker) /\ \A w \in BusyIn(worker) : worker'[w] = worker[w]
    BY <1>3, <2>1, SignalStep, Zenon
  <2>3. \A j \in Job : Running(j)' <=> Running(j)
    BY <2>2, RunningSame, Zenon DEF BusyIn
  <2> QED
    BY <1>1, <1>2, <2>3, IdleSeries, Zenon
<1>5. CASE Broadcast
  <2>1. \A w \in Worker : worker'[w] = IF At(w, "wait") THEN Ready ELSE worker[w]
    BY <1>5, Zenon DEF Broadcast
  <2>2. \A w \in Worker : /\ worker'[w].pc = "run" <=> worker[w].pc = "run"
                          /\ worker[w].pc = "run" => worker'[w].job = worker[w].job
    BY <2>1, SMT DEF At, Ready
  <2>3. \A j \in Job : Running(j)' <=> Running(j)
    BY <2>2, RunningSame, Zenon
  <2> QED
    BY <1>1, <1>2, <2>3, IdleSeries, Zenon
<1> QED
  BY <1>4, <1>5
LEMMA OutsideSeries ==
    ASSUME TypeOK, TypeOK', SeriesInv,
           Drain \/ Cancel \/ SetDone \/ Tick \/ UNCHANGED vars
    PROVE  SeriesInv'
<1>1. /\ UNCHANGED <<queue, timer, submitted, lastRun, worker, panics>>
      /\ draining => draining'
  BY DEF Drain, Cancel, SetDone, Tick, poolVars, faultVars, vars
<1>2. Cancelled => Cancelled'
  BY Zenon DEF Cancelled, Drain, Cancel, SetDone, Tick, vars
<1>3. now' >= now
  BY DEF TypeOK, Drain, Cancel, SetDone, Tick, vars
<1>4. \A j \in Job : Running(j)' <=> Running(j)
  BY <1>1, RunningSame, Zenon
<1> QED
  BY <1>1, <1>2, <1>3, <1>4, IdleSeries, Zenon

LEMMA WaitSeries ==
    ASSUME TypeOK, TypeOK', SeriesInv, NEW w \in Worker,
           Wait(w) \/ Exit(w) \/ MarkQueueInactive(w)
    PROVE  SeriesInv'
<1>1. UNCHANGED <<queue, timer, submitted, lastRun, draining, stop, now, panics>>
  BY Zenon DEF Wait, Exit, MarkQueueInactive, faultVars
<1>2. now' >= now
  BY <1>1 DEF TypeOK
<1>3. worker \in Shape
  BY ShapeOf
<1>4. Cancelled => Cancelled'
  BY <1>1, Zenon DEF Cancelled
<1>5. CASE Wait(w) \/ Exit(w)
  <2>1. worker[w].pc = "lock"
        /\ (worker' = [worker EXCEPT ![w].pc = "wait"] \/ worker' = [worker EXCEPT ![w].pc = "exit"])
    BY <1>5, Zenon DEF Wait, Exit, At
  <2>2. \A v \in Worker : /\ worker'[v].pc = "run" <=> worker[v].pc = "run"
                          /\ worker[v].pc = "run" => worker'[v].job = worker[v].job
    BY <1>3, <2>1 DEF Shape
  <2>3. \A j \in Job : Running(j)' <=> Running(j)
    BY <2>2, RunningSame, Zenon
  <2> QED
    BY <1>1, <1>2, <1>4, <2>3, IdleSeries, Zenon
<1>6. CASE MarkQueueInactive(w)
  <2> DEFINE ws == [worker EXCEPT ![w] = Ready]
  <2>1. worker[w].pc = "ran" /\ Signal(ws)
    BY <1>6, Zenon DEF MarkQueueInactive, At
  <2>2. ws \in Shape /\ ws[w].pc = "lock" /\ \A v \in Worker : v # w => ws[v] = worker[v]
    BY <1>3 DEF Shape, Ready
  <2> HIDE DEF ws
  <2>3. BusyIn(worker') = BusyIn(ws) /\ \A v \in BusyIn(ws) : worker'[v] = ws[v]
    BY <2>1, <2>2, SignalStep, Zenon
  <2>4. \A v \in Worker : /\ worker'[v].pc = "run" <=> worker[v].pc = "run"
                          /\ worker[v].pc = "run" => worker'[v].job = worker[v].job
    <3> SUFFICES ASSUME NEW v \in Worker
                 PROVE  /\ worker'[v].pc = "run" <=> worker[v].pc = "run"
                        /\ worker[v].pc = "run" => worker'[v].job = worker[v].job
      OBVIOUS
    <3>1. CASE v = w
      BY <2>1, <2>2, <2>3, <3>1 DEF BusyIn
    <3>2. CASE v # w
      BY <2>2, <2>3, <3>2, Zenon DEF BusyIn
    <3> QED
      BY <3>1, <3>2
  <2>5. \A j \in Job : Running(j)' <=> Running(j)
    BY <2>4, RunningSame, Zenon
  <2> QED
    BY <1>1, <1>2, <1>4, <2>5, IdleSeries, Zenon
<1> QED
  BY <1>5, <1>6

\* TakeJob moves one job from the queue to a worker.
LEMMA TakeMoves ==
    ASSUME TypeOK, NEW w \in Worker, TakeJob(w)
    PROVE  \E i \in DOMAIN queue :
              /\ queue' = Without(queue, i) /\ queue[i] \in Job
              /\ worker'[w].pc = "run" /\ worker'[w].job = queue[i]
              /\ worker[w].pc = "lock"
              /\ \A v \in Worker \ {w} :
                    /\ worker'[v].pc = "run" <=> worker[v].pc = "run"
                    /\ worker[v].pc = "run" => worker'[v].job = worker[v].job
<1>1. worker \in Shape /\ worker[w].pc = "lock"
  BY ShapeOf, Zenon DEF TakeJob, At
<1>2. PICK i \in Runnable :
         /\ queue' = Without(queue, i)
         /\ Signal([worker EXCEPT ![w] = [pc |-> "run", job |-> queue[i]]])
  BY Zenon DEF TakeJob
<1>3. i \in DOMAIN queue
  BY Zenon DEF Runnable
<1>4. queue[i] \in Job
  BY <1>3, ShorterQueue, Zenon DEF TypeOK
<1> DEFINE ws == [worker EXCEPT ![w] = [pc |-> "run", job |-> queue[i]]]
<1>5. /\ ws \in Shape /\ ws[w].pc = "run" /\ ws[w].job = queue[i]
      /\ \A v \in Worker : v # w => ws[v] = worker[v]
  BY <1>1, <1>4 DEF Shape
<1>6. Signal(ws)
  BY <1>2
<1> HIDE DEF ws
<1>7. BusyIn(worker') = BusyIn(ws) /\ \A v \in BusyIn(ws) : worker'[v] = ws[v]
  BY <1>5, <1>6, SignalStep, Zenon
<1>8. worker'[w] = ws[w]
  BY <1>5, <1>7, Zenon DEF BusyIn
<1>9. \A v \in Worker \ {w} :
         /\ worker'[v].pc = "run" <=> worker[v].pc = "run"
         /\ worker[v].pc = "run" => worker'[v].job = worker[v].job
  BY <1>5, <1>7, Zenon DEF BusyIn
<1> QED
  BY <1>1, <1>2, <1>3, <1>4, <1>5, <1>8, <1>9, Zenon

LEMMA TakeSeries ==
    ASSUME TypeOK, TypeOK', SeriesInv, NEW w \in Worker, TakeJob(w)
    PROVE  SeriesInv'
<1> SUFFICES ASSUME NEW j \in Periodic PROVE (Single(j) /\ Due(j))'
  BY Zenon DEF SeriesInv
<1>1. PICK i \in DOMAIN queue :
         /\ queue' = Without(queue, i) /\ queue[i] \in Job
         /\ worker'[w].pc = "run" /\ worker'[w].job = queue[i]
         /\ worker[w].pc = "lock"
         /\ \A v \in Worker \ {w} :
               /\ worker'[v].pc = "run" <=> worker[v].pc = "run"
               /\ worker[v].pc = "run" => worker'[v].job = worker[v].job
  BY TakeMoves
<1>2. UNCHANGED <<timer, submitted, lastRun, draining, stop, now, panics>>
  BY Zenon DEF TakeJob, faultVars
<1>3. Single(j) /\ Due(j) /\ Once(queue, j) /\ j \in Job /\ queue \in Seq(Job)
  BY Zenon DEF SeriesInv, Single, TypeOK
<1>4. /\ queue[i] # j => (Holds(queue', j) <=> Holds(queue, j))
      /\ Once(queue', j)
      /\ queue[i] = j => ~Holds(queue', j) /\ Holds(queue, j)
  <2>1. queue[i] = j => Holds(queue, j)
    BY Zenon DEF Holds
  <2>2. /\ queue[i] # j => (Holds(Without(queue, i), j) <=> Holds(queue, j))
        /\ Once(Without(queue, i), j)
        /\ queue[i] = j => ~Holds(Without(queue, i), j)
    BY <1>3, HoldsWithout, Zenon
  <2> QED
    BY <1>1, <2>1, <2>2
<1>5. now' >= now /\ (Cancelled => Cancelled')
  BY <1>2 DEF TypeOK, Cancelled
<1>6. CASE queue[i] # j
  <2>1. Running(j)' <=> Running(j)
    <3>1. ASSUME NEW v \in Worker, worker'[v].pc = "run", worker'[v].job = j
          PROVE  Running(j)
      BY <1>1, <1>6, <3>1, SMT DEF Running, At
    <3>2. ASSUME NEW v \in Worker, worker[v].pc = "run", worker[v].job = j
          PROVE  Running(j)'
      BY <1>1, <1>6, <3>2, SMT DEF Running, At
    <3> QED
      BY <3>1, <3>2, Zenon DEF Running, At
  <2> QED
    BY <1>2, <1>3, <1>4, <1>5, <1>6, <2>1, SeriesKept, Zenon
<1>7. CASE queue[i] = j
  <2>1. Running(j)'
    BY <1>1, <1>7, Zenon DEF Running, At
  <2> QED
    BY <1>2, <1>3, <1>4, <1>7, <2>1, Zenon DEF Single, Due
<1> QED
  BY <1>6, <1>7
\* A run that returns goes to sleep, and no other worker runs the same job.
LEMMA ReturnSeries ==
    ASSUME TypeOK, TypeOK', QueueExclusive, SeriesInv, NEW w \in Worker,
           RunReturns(w) \/ RunPanics(w)
    PROVE  SeriesInv'
<1> DEFINE a == worker[w].job
<1> SUFFICES ASSUME NEW j \in Periodic PROVE (Single(j) /\ Due(j))'
  BY Zenon DEF SeriesInv
<1>1. /\ UNCHANGED <<queue, draining, stop, submitted, now>>
      /\ worker[w].pc = "run" /\ worker' = [worker EXCEPT ![w].pc = "ran"]
  BY Zenon DEF RunReturns, RunPanics, At, faultVars
<1>2. worker \in Shape
  BY ShapeOf
<1>3. /\ worker'[w].pc = "ran"
      /\ \A v \in Worker : v # w => worker'[v] = worker[v]
  BY <1>1, <1>2 DEF Shape
<1>4. j \in Job /\ Single(j) /\ Due(j) /\ Once(queue, j) /\ (Cancelled' <=> Cancelled)
  BY <1>1, Zenon DEF SeriesInv, Single, Cancelled
<1>5. now \in Nat /\ now' >= now /\ now + Interval \in Nat /\ now + Interval # 0
      /\ timer \in [Periodic -> Nat] /\ lastRun \in [Periodic -> Nat] /\ panics \in Nat
  <2>1. now \in Nat /\ timer \in [Periodic -> Nat] /\ lastRun \in [Periodic -> Nat]
        /\ panics \in Nat
    BY Zenon DEF TypeOK
  <2>2. now' >= now /\ now + Interval \in Nat /\ now + Interval # 0
    BY <1>1, <2>1
  <2> QED
    BY <2>1, <2>2
<1>6. CASE a # j
  <2>1. Running(j)' <=> Running(j)
    BY <1>1, <1>3, <1>6, SMT DEF Running, At
  <2>2. timer'[j] = timer[j] /\ lastRun'[j] = lastRun[j]
    BY <1>5, <1>6, Zenon DEF RunReturns, RunPanics
  <2>3. panics # 0 => panics' # 0
    BY <1>5 DEF RunReturns, RunPanics, faultVars
  <2> QED
    BY <1>1, <1>4, <1>5, <2>1, <2>2, <2>3, SeriesKept, Zenon
<1>7. CASE a = j
  <2>1. ~Running(j)'
    <3> SUFFICES ASSUME NEW v \in Worker, worker'[v].pc = "run", worker'[v].job = j PROVE FALSE
      BY Zenon DEF Running, At
    <3>1. v # w
      BY <1>3
    <3>2. v \in Busy /\ w \in Busy /\ worker[v].job = worker[w].job
      BY <1>1, <1>3, <1>7, <3>1, SMT DEF Busy
    <3> QED
      BY <3>1, <3>2, Zenon DEF QueueExclusive
  <2>2. Running(j)
    BY <1>1, <1>7, Zenon DEF Running, At
  <2>3. ~Holds(queue, j) /\ timer[j] = 0 /\ j \in submitted
    BY <1>4, <2>2, Zenon DEF Single
  <2>4. timer'[j] # 0 \/ panics' # 0
    <3>1. CASE RunReturns(w)
      BY <1>5, <1>7, <3>1, Zenon DEF RunReturns
    <3>2. CASE RunPanics(w)
      BY <1>5, <3>2 DEF RunPanics
    <3> QED
      BY <3>1, <3>2
  <2> QED
    BY <1>1, <1>4, <2>1, <2>3, <2>4, Zenon DEF Single, Due
<1> QED
  BY <1>6, <1>7

LEMMA RestartSeries ==
    ASSUME Restart
    PROVE  SeriesInv'
<1> SUFFICES ASSUME NEW j \in Periodic PROVE (Single(j) /\ Due(j))'
  BY Zenon DEF SeriesInv
<1>1. queue' = <<>> /\ timer'[j] = 0 /\ j \notin submitted'
  BY Zenon DEF Restart
<1>2. ~Holds(queue', j) /\ Once(queue', j)
  BY <1>1 DEF Holds, Once
<1>3. ~Running(j)'
  BY Zenon DEF Restart, Running, At, Ready
<1> QED
  BY <1>1, <1>2, <1>3, Zenon DEF Single, Due

LEMMA NextSeries ==
    ASSUME PoolInv, PoolInv', SeriesInv, [Next]_vars
    PROVE  SeriesInv'
<1>0. TypeOK /\ TypeOK' /\ QueueExclusive
  BY Zenon DEF PoolInv
<1>1. ASSUME NEW w \in Worker, Work(w) PROVE SeriesInv'
  BY <1>0, <1>1, TakeSeries, WaitSeries, ReturnSeries, Zenon DEF Work
<1>2. ASSUME NEW j \in Periodic, Register(j) \/ TimerFires(j) \/ TimerStops(j) PROVE SeriesInv'
  BY <1>0, <1>2, RegisterSeries, StopsSeries, Zenon
<1>3. ASSUME NEW j \in Job, Submit(j) \/ TrySubmit(j) PROVE SeriesInv'
  BY <1>0, <1>3, SubmitSeries, Zenon
<1>4. CASE Drain \/ Cancel \/ SetDone \/ Tick \/ UNCHANGED vars
  BY <1>0, <1>4, OutsideSeries, Zenon
<1>5. CASE Notify \/ Broadcast \/ Restart
  BY <1>0, <1>5, NotifySeries, RestartSeries, Zenon
<1> QED
  BY <1>1, <1>2, <1>3, <1>4, <1>5, Zenon DEF Next

\* The inductive invariant of the periodic jobs: a job is never in two places,
\* and it is queued only when it is due (SubmitPeriodicJob, periodicDelay).
THEOREM SeriesCorrect == Spec => []SeriesInv
<1>1. Init => SeriesInv
  BY InitSeries
<1>2. PoolInv /\ PoolInv' /\ SeriesInv /\ [Next]_vars => SeriesInv'
  BY NextSeries
<1> QED
  BY <1>1, <1>2, PoolCorrect, PTL DEF Spec

\* One place is one occurrence.
LEMMA OneOccurrence ==
    ASSUME PoolInv, NEW j \in Periodic, Single(j), j \in submitted,
           ~draining, ~Cancelled, panics = 0
    PROVE  Occurrences(j) = 1
<1> DEFINE Q == {i \in DOMAIN queue : queue[i] = j}
           R == {w \in Worker : At(w, "run") /\ worker[w].job = j}
<1>1. \A x : Cardinality({x}) = 1
  BY FS_Singleton, Zenon
<1>2. Cardinality({}) = 0
  BY FS_EmptySet, Zenon
<1>3. CASE Holds(queue, j)
  <2>1. PICK i \in DOMAIN queue : queue[i] = j
    BY <1>3, Zenon DEF Holds
  <2>2. Q = {i}
    BY <2>1, Zenon DEF Single, Once
  <2>3. R = {} /\ timer[j] = 0
    BY <1>3, Zenon DEF Single, Running
  <2>4. Cardinality(Q) = 1 /\ Cardinality(R) = 0
    BY <1>1, <1>2, <2>2, <2>3, Zenon
  <2> HIDE DEF Q, R
  <2> QED
    BY <2>3, <2>4 DEF Occurrences, Q, R
<1>4. CASE Running(j)
  <2>1. PICK w \in Worker : At(w, "run") /\ worker[w].job = j
    BY <1>4, Zenon DEF Running
  <2>2. R = {w}
    BY <2>1, Zenon DEF PoolInv, QueueExclusive, Busy, At
  <2>3. Q = {} /\ timer[j] = 0
    BY <1>4, Zenon DEF Single, Holds
  <2>4. Cardinality(Q) = 0 /\ Cardinality(R) = 1
    BY <1>1, <1>2, <2>2, <2>3, Zenon
  <2> QED
    BY <2>3, <2>4 DEF Occurrences
<1>5. CASE timer[j] # 0
  <2>1. Q = {} /\ R = {}
    BY <1>5, Zenon DEF Single, Holds, Running
  <2>2. Cardinality(Q) = 0 /\ Cardinality(R) = 0
    BY <1>2, <2>1, Zenon
  <2> QED
    BY <1>5, <2>2 DEF Occurrences
<1> QED
  BY <1>3, <1>4, <1>5, Zenon DEF Single

\* The series of a periodic job neither ends nor doubles while the scheduler
\* accepts work and no job panics (SubmitPeriodicJob and its wrapper).
THEOREM PeriodicAliveAlways == Spec => []PeriodicAlive
<1>1. PoolInv /\ SeriesInv => PeriodicAlive
  BY OneOccurrence, Zenon DEF SeriesInv, PeriodicAlive
<1> QED
  BY <1>1, PoolCorrect, SeriesCorrect, PTL

\* No periodic job starts before an interval has passed since the last run the
\* store knows, whatever restarted in between (periodicDelay).
THEOREM PeriodicSpacingAlways == Spec => PeriodicSpacing
<1> DEFINE Spaced == \A w \in Worker : At(w, "lock") /\ worker'[w].pc = "run" =>
               \A j \in Periodic :
                   j = worker'[w].job /\ lastRun[j] # 0 => now >= lastRun[j] + Interval
<1>1. PoolInv /\ PoolInv' /\ SeriesInv /\ [Next]_vars => [Spaced]_vars
  <2> SUFFICES ASSUME PoolInv, SeriesInv, Next, NEW w \in Worker, At(w, "lock"),
                      worker'[w].pc = "run", NEW j \in Periodic, j = worker'[w].job,
                      lastRun[j] # 0
               PROVE  now >= lastRun[j] + Interval
    BY Zenon
  <2>1. TypeOK /\ worker \in Shape
    BY ShapeOf, Zenon DEF PoolInv
  <2>2. TakeJob(w)
    <3>1. ~UNCHANGED worker
      BY SMT DEF At
    <3>2. ~Notify
      BY <2>1, SignalStep, SMT DEF Notify, At, BusyIn
    <3>3. ~Broadcast /\ ~Restart
      BY SMT DEF Broadcast, Restart, At, Ready
    <3>4. \A v \in Worker : ~RunReturns(v) /\ ~RunPanics(v) /\ ~Wait(v) /\ ~Exit(v)
      BY <2>1, SMT DEF RunReturns, RunPanics, Wait, Exit, At, Shape
    <3>5. ASSUME NEW v \in Worker, MarkQueueInactive(v) PROVE FALSE
      <4> DEFINE ws == [worker EXCEPT ![v] = Ready]
      <4>1. ws \in Shape /\ \A u \in Worker : ws[u].pc = "run" => worker[u].pc = "run"
        BY <2>1 DEF Shape, Ready
      <4>2. Signal(ws)
        BY <3>5, Zenon DEF MarkQueueInactive
      <4> HIDE DEF ws
      <4>3. BusyIn(worker') = BusyIn(ws) /\ \A u \in BusyIn(ws) : worker'[u] = ws[u]
        BY <4>1, <4>2, SignalStep, Zenon
      <4> QED
        BY <4>1, <4>3, SMT DEF BusyIn, At
    <3>6. ASSUME NEW v \in Worker, TakeJob(v) PROVE TakeJob(w)
      BY <2>1, <3>6, TakeMoves, SMT DEF At
    <3> QED
      BY <3>1, <3>2, <3>3, <3>4, <3>5, <3>6, Zenon DEF Next, Work, Submit, TrySubmit, Register,
         TimerFires, TimerStops, Drain, Cancel, SetDone, Tick, poolVars
  <2>3. PICK i \in DOMAIN queue : worker'[w].job = queue[i]
    BY <2>1, <2>2, TakeMoves, Zenon
  <2>4. Holds(queue, j)
    BY <2>3, Zenon DEF Holds
  <2>5. lastRun[j] + Interval <= now
    BY <2>4, Zenon DEF SeriesInv, Due
  <2> QED
    BY <2>1, <2>5 DEF TypeOK
<1> QED
  BY <1>1, PoolCorrect, SeriesCorrect, PTL DEF Spec, PeriodicSpacing

\* From Drain until the process ends, the queue only shrinks (Submit, TrySubmit
\* and SubmitPeriodicJob all look at draining under the lock).
THEOREM IntakeClosedAlways == Spec => IntakeClosed
<1>1. PoolInv /\ [Next]_vars => [draining /\ draining' => Len(queue') <= Len(queue)]_vars
  <2> SUFFICES ASSUME PoolInv, Next, draining, draining' PROVE Len(queue') <= Len(queue)
    BY Zenon
  <2>1. queue \in Seq(Job) /\ TypeOK
    BY Zenon DEF PoolInv, TypeOK
  <2>2. UNCHANGED queue \/ \E w \in Worker : TakeJob(w)
    BY Zenon DEF Next, Work, Submit, TrySubmit, Enqueue, Register, TimerFires, TimerStops,
       SubmitPeriodicJob, Notify, Wait, Exit, RunReturns, RunPanics, MarkQueueInactive,
       Drain, Cancel, SetDone, Broadcast, Restart, Tick, poolVars
  <2>3. CASE UNCHANGED queue
    BY <2>1, <2>3
  <2>4. ASSUME NEW w \in Worker, TakeJob(w) PROVE Len(queue') <= Len(queue)
    <3>1. PICK i \in DOMAIN queue : queue' = Without(queue, i) /\ queue[i] \in Job
      BY <2>1, <2>4, TakeMoves, Zenon
    <3>2. Len(queue') = Len(queue) - 1
      BY <2>1, <3>1, HoldsWithout, Zenon
    <3> QED
      BY <2>1, <3>2
  <2> QED
    BY <2>2, <2>3, <2>4, Zenon
<1> QED
  BY <1>1, PoolCorrect, PTL DEF Spec, IntakeClosed
=============================================================================
