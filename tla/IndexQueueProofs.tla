-------------------------- MODULE IndexQueueProofs --------------------------
(***************************************************************************)
(* Proofs about IndexQueue, for any projects, workers and bounds.          *)
(***************************************************************************)
EXTENDS IndexQueue, FiniteSetTheorems, TLAPS

USE IndexQueueAssumption, NoJobAssumption DEF Commits

\* Queueing a job keeps the queue and the marks well typed.
LEMMA EnqueueType ==
    ASSUME queue \in Seq(Jobs), pending \subseteq Projects,
           NEW j \in Jobs, enqueue(j)
    PROVE  queue' \in Seq(Jobs) /\ pending' \subseteq Projects
<1>1. j.project \in Projects
  BY DEF Jobs
<1>2. CASE j.project \in pending
  BY <1>2 DEF enqueue
<1>3. CASE j.project \notin pending
  <2>1. Append(queue, j) \in Seq(Jobs)
    OBVIOUS
  <2> QED BY <1>1, <1>3, <2>1 DEF enqueue
<1> QED BY <1>2, <1>3

\* The job at the front of the queue and the rest of it.
LEMMA HeadType ==
    ASSUME queue \in Seq(Jobs), queue # <<>>
    PROVE  /\ Head(queue) \in Jobs /\ Tail(queue) \in Seq(Jobs)
           /\ Head(queue).project \in Projects
<1>1. Head(queue) \in Jobs /\ Tail(queue) \in Seq(Jobs)
  OBVIOUS
<1> QED BY <1>1 DEF Jobs

\* A delivery removes at most its own notification and costs at most a fault.
LEMMA DeliveredType ==
    ASSUME NEW h, Delivered(h), faults \in 0..MaxFaults
    PROVE  hooks' \subseteq hooks /\ faults' \in 0..MaxFaults
BY DEF Delivered, Fault

\* The jobs a rescan appends: one per unmarked project, at the branch tip.
LEMMA RescanType ==
    ASSUME TypeOK, Rescan
    PROVE  queue' \in Seq(Jobs) /\ pending' \subseteq Projects
<1> DEFINE n == Cardinality(Projects \ pending)
<1>1. n \in Nat
  BY FS_Difference, FS_CardinalityType
<1>2. PICK s \in Orders(Projects \ pending) :
          queue' = queue \o [i \in 1..n |-> [project |-> s[i], sha |-> 0]]
  BY DEF Rescan
<1>3. s \in [1..n -> Projects]
  BY <1>2 DEF Orders
<1> HIDE DEF n
<1>4. [i \in 1..n |-> [project |-> s[i], sha |-> 0]] \in Seq(Jobs)
  BY <1>1, <1>3 DEF Jobs
<1>5. queue \in Seq(Jobs)
  BY DEF TypeOK
<1>6. queue' \in Seq(Jobs)
  BY <1>2, <1>4, <1>5
<1>7. pending' \subseteq Projects
  BY DEF Rescan
<1> QED BY <1>6, <1>7

\* A worker that is neither idle nor without a job holds a proper job.
Busy == \A w \in Workers : pc[w] # "idle" => job[w] \in Jobs

TypeInv == TypeOK /\ Busy

\* Entering the lock changes the worker's own place only.
LEMMA EnterLockType ==
    ASSUME TypeOK, NEW w \in Workers, NEW p \in Projects, EnterLock(w, p)
    PROVE  /\ owner' \in [Projects -> Workers \union {NoWorker}]
           /\ pending' \subseteq Projects
           /\ pc' \in [Workers -> {"idle", "lock"} \union Working]
           /\ pc'[w] \in {"clone", "fetch"}
           /\ \A v \in Workers \ {w} : pc'[v] = pc[v]
BY DEF TypeOK, EnterLock, FirstStep, Working, GitSteps

\* A fresh indexer is well typed.
LEMMA TypeInit == Init => TypeInv
BY DEF Init, TypeInv, TypeOK, Busy, Working, GitSteps

\* Every step of the indexer keeps it well typed.
LEMMA TypeNext == TypeInv /\ [Next]_vars => TypeInv'
<1> SUFFICES ASSUME TypeInv, [Next]_vars PROVE TypeInv'
  OBVIOUS
<1> USE DEF TypeInv, TypeOK, Busy, Working, GitSteps, remoteVars, lockVars, diskVars
<1>1. ASSUME NEW p \in Projects, Push(p) PROVE TypeInv'
  <2>1. head[p] + 1 \in 1..MaxCommit
    BY <1>1 DEF Push
  <2>2. head' \in [Projects -> 1..MaxCommit]
    BY <1>1, <2>1 DEF Push
  <2>3. hooks' \subseteq [project : Projects, sha : 1..MaxCommit]
    BY <1>1, <2>1 DEF Push
  <2> QED BY <1>1, <2>2, <2>3 DEF Push
<1>2. ASSUME NEW h \in hooks, LoseHook(h) PROVE TypeInv'
  BY <1>2 DEF LoseHook, Fault
<1>3. ASSUME NEW h \in hooks, Webhook(h) PROVE TypeInv'
  <2>1. h \in Jobs
    BY DEF Jobs
  <2>2. queue' \in Seq(Jobs) /\ pending' \subseteq Projects
    BY <1>3, <2>1, EnqueueType DEF Webhook
  <2>3. hooks' \subseteq hooks /\ faults' \in 0..MaxFaults
    BY <1>3, DeliveredType DEF Webhook
  <2> QED BY <1>3, <2>2, <2>3 DEF Webhook
<1>4. ASSUME NEW h \in hooks, Trigger(h) PROVE TypeInv'
  <2>1. [project |-> h.project, sha |-> 0] \in Jobs
    BY DEF Jobs
  <2>2. queue' \in Seq(Jobs) /\ pending' \subseteq Projects
    BY <1>4, <2>1, EnqueueType DEF Trigger
  <2>3. hooks' \subseteq hooks /\ faults' \in 0..MaxFaults
    BY <1>4, DeliveredType DEF Trigger
  <2> QED BY <1>4, <2>2, <2>3 DEF Trigger
<1>5. CASE Rescan
  <2>1. queue' \in Seq(Jobs) /\ pending' \subseteq Projects
    BY <1>5, RescanType
  <2> QED BY <1>5, <2>1 DEF Rescan
<1>6. ASSUME NEW w \in Workers, WorkerStep(w) PROVE TypeInv'
  <2>1. CASE Get(w)
    <3>1. Head(queue) \in Jobs /\ Tail(queue) \in Seq(Jobs)
      BY <2>1, HeadType DEF Get
    <3>2. Head(queue).project \in Projects
      BY <2>1, HeadType DEF Get
    <3>3. job' \in [Workers -> Jobs \union {NoJob}]
          /\ job'[w] \in Jobs /\ \A v \in Workers \ {w} : job'[v] = job[v]
      BY <2>1, <3>1 DEF Get
    <3>4. CASE owner[Head(queue).project] = NoWorker /\ waiters[Head(queue).project] = <<>>
      <4>1. EnterLock(w, Head(queue).project) /\ waiters' = waiters
        BY <2>1, <3>4 DEF Get
      <4>2. owner' \in [Projects -> Workers \union {NoWorker}]
            /\ pending' \subseteq Projects
            /\ pc' \in [Workers -> {"idle", "lock"} \union Working]
            /\ \A v \in Workers \ {w} : pc'[v] = pc[v]
        BY <3>2, <4>1, EnterLockType
      <4> QED BY <2>1, <3>1, <3>3, <4>1, <4>2 DEF Get
    <3>5. CASE ~ (owner[Head(queue).project] = NoWorker /\ waiters[Head(queue).project] = <<>>)
      <4>1. waiters' = [waiters EXCEPT ![Head(queue).project] = Append(@, w)]
            /\ pc' = [pc EXCEPT ![w] = "lock"]
            /\ UNCHANGED <<owner, pending>>
        BY <2>1, <3>5 DEF Get
      <4>2. waiters' \in [Projects -> Seq(Workers)]
        BY <3>2, <4>1
      <4> QED BY <2>1, <3>1, <3>3, <4>1, <4>2 DEF Get
    <3> QED BY <3>4, <3>5
  <2>2. CASE Acquire(w)
    <3>1. job[w].project \in Projects
      BY <2>2 DEF Acquire, Jobs
    <3>2. EnterLock(w, job[w].project)
          /\ waiters' = [waiters EXCEPT ![job[w].project] = Tail(@)]
          /\ waiters[job[w].project] # <<>>
      BY <2>2 DEF Acquire
    <3>3. owner' \in [Projects -> Workers \union {NoWorker}]
          /\ pending' \subseteq Projects
          /\ pc' \in [Workers -> {"idle", "lock"} \union Working]
          /\ \A v \in Workers \ {w} : pc'[v] = pc[v]
      BY <3>1, <3>2, EnterLockType
    <3>4. waiters' \in [Projects -> Seq(Workers)]
      <4>1. Tail(waiters[job[w].project]) \in Seq(Workers)
        BY <3>1, <3>2
      <4> QED BY <3>1, <3>2, <4>1
    <3>5. job[w] \in Jobs
      BY <2>2 DEF Acquire
    <3> QED BY <2>2, <3>3, <3>4, <3>5 DEF Acquire
  <2>3. ASSUME pc[w] # "idle" PROVE job[w].project \in Projects /\ job[w].sha \in 0..MaxCommit
    BY <2>3 DEF Jobs
  <2>4. CASE Clone(w)
    <3>1. job[w].project \in Projects /\ head[job[w].project] \in 0..MaxCommit
      BY <2>3, <2>4 DEF Clone
    <3> QED BY <3>1, <2>4 DEF Clone
  <2>5. CASE Fetch(w)
    <3>1. job[w].project \in Projects /\ head[job[w].project] \in 0..MaxCommit
      BY <2>3, <2>5 DEF Fetch
    <3> QED BY <3>1, <2>5 DEF Fetch
  <2>6. CASE Checkout(w)
    BY <2>3, <2>6 DEF Checkout, Target
  <2>7. CASE GitFails(w)
    BY <2>3, <2>7 DEF GitFails, Release, Fault
  <2>8. CASE EngineWrites(w)
    BY <2>3, <2>8 DEF EngineWrites
  <2>9. CASE EngineSucceeds(w)
    BY <2>3, <2>9 DEF EngineSucceeds
  <2>10. CASE EngineFails(w)
    BY <2>3, <2>10 DEF EngineFails, Release, Fault
  <2>11. CASE RecordEpoch(w)
    BY <2>3, <2>11 DEF RecordEpoch, Release
  <2>12. CASE RecordFails(w)
    BY <2>3, <2>12 DEF RecordFails, Release, Fault
  <2> QED
    BY <1>6, <2>1, <2>2, <2>4, <2>5, <2>6, <2>7, <2>8, <2>9, <2>10, <2>11, <2>12
       DEF WorkerStep
<1>7. CASE Restart
  BY <1>7 DEF Restart, Fault
<1>8. CASE UNCHANGED vars
  BY <1>8 DEF vars
<1> QED BY <1>1, <1>2, <1>3, <1>4, <1>5, <1>6, <1>7, <1>8 DEF Next

\* Every state of the indexer is well typed, whatever is pushed, lost,
\* repeated, coalesced, failed or restarted.
THEOREM TypeCorrect == Spec => []TypeOK
<1>1. TypeInv => TypeOK
  BY DEF TypeInv
<1> QED BY TypeInit, TypeNext, <1>1, PTL DEF Spec

-----------------------------------------------------------------------------
(* One worker per project.  ProjectExclusion is not inductive by itself: a *)
(* worker at work has to be known as the lock's owner, and the owner of a  *)
(* lock as a worker at work on that project.                               *)

LockInv ==
    /\ \A w \in Workers : pc[w] \in Working => owner[job[w].project] = w
    /\ \A p \in Projects : owner[p] # NoWorker =>
           pc[owner[p]] \in Working /\ job[owner[p]].project = p

\* No lock is held, and nobody works, in a fresh process.
LEMMA LockInit == Init => LockInv
BY DEF Init, LockInv, Working, GitSteps

\* A step moves one worker, from the owner of a lock to nobody's or back.
LEMMA LockNext == TypeInv /\ LockInv /\ [Next]_vars => LockInv'
<1> SUFFICES ASSUME TypeInv, LockInv, [Next]_vars PROVE LockInv'
  OBVIOUS
<1>0. /\ owner \in [Projects -> Workers \union {NoWorker}]
      /\ pc \in [Workers -> {"idle", "lock"} \union Working]
      /\ job \in [Workers -> Jobs \union {NoJob}]
      /\ \A w \in Workers : pc[w] # "idle" => job[w] \in Jobs /\ job[w].project \in Projects
  BY DEF TypeInv, TypeOK, Busy, Jobs
<1> USE DEF LockInv, lockVars, Working, GitSteps
<1>1. ASSUME UNCHANGED <<owner, pc, job>> PROVE LockInv'
  BY <1>1
<1>2. ASSUME NEW w \in Workers, pc[w] \in Working, Release(w) PROVE LockInv'
  BY <1>0, <1>2 DEF Release
<1>3. ASSUME NEW w \in Workers, pc[w] \in Working, UNCHANGED <<owner, job>>,
             NEW s \in Working, pc' = [pc EXCEPT ![w] = s] PROVE LockInv'
  BY <1>0, <1>3
<1>4. ASSUME NEW w \in Workers, WorkerStep(w) PROVE LockInv'
  <2>1. CASE Get(w)
    <3>1. Head(queue) \in Jobs /\ Head(queue).project \in Projects
      BY <2>1, HeadType DEF Get, TypeInv, TypeOK
    <3>2. pc[w] = "idle" /\ job' = [job EXCEPT ![w] = Head(queue)]
      BY <2>1 DEF Get
    <3>3. CASE EnterLock(w, Head(queue).project) /\ owner[Head(queue).project] = NoWorker
      BY <1>0, <3>1, <3>2, <3>3 DEF EnterLock, FirstStep
    <3>4. CASE pc' = [pc EXCEPT ![w] = "lock"] /\ UNCHANGED owner
      BY <1>0, <3>1, <3>2, <3>4
    <3> QED BY <2>1, <3>3, <3>4 DEF Get
  <2>2. CASE Acquire(w)
    BY <1>0, <2>2 DEF Acquire, EnterLock, FirstStep
  <2>3. CASE Clone(w)
    BY <1>3, <2>3 DEF Clone
  <2>4. CASE Fetch(w)
    BY <1>3, <2>4 DEF Fetch
  <2>5. CASE Checkout(w)
    BY <1>3, <2>5 DEF Checkout
  <2>6. CASE EngineWrites(w)
    BY <1>3, <2>6 DEF EngineWrites
  <2>7. CASE EngineSucceeds(w)
    BY <1>3, <2>7 DEF EngineSucceeds
  <2>8. CASE GitFails(w) \/ EngineFails(w) \/ RecordEpoch(w) \/ RecordFails(w)
    BY <1>2, <2>8 DEF GitFails, EngineFails, RecordEpoch, RecordFails
  <2> QED
    BY <1>4, <2>1, <2>2, <2>3, <2>4, <2>5, <2>6, <2>7, <2>8 DEF WorkerStep
<1>5. CASE Restart
  BY <1>5 DEF Restart
<1>6. CASE \/ \E p \in Projects : Push(p)
           \/ \E h \in hooks : LoseHook(h) \/ Webhook(h) \/ Trigger(h)
           \/ Rescan
           \/ UNCHANGED vars
  BY <1>1, <1>6 DEF Push, LoseHook, Webhook, Trigger, Rescan, vars
<1> QED BY <1>4, <1>5, <1>6 DEF Next

\* The lock's bookkeeping is what excludes two workers from one project.
LEMMA LockExcludes == TypeInv /\ LockInv => ProjectExclusion
BY DEF LockInv, ProjectExclusion

\* No two workers run git or the engine for one project at the same time
\* (the `async with lock` of Indexer._run), across failures and restarts.
THEOREM ProjectsExcluded == Spec => []ProjectExclusion
BY TypeInit, TypeNext, LockInit, LockNext, LockExcludes, PTL DEF Spec

-----------------------------------------------------------------------------
(* No push is coalesced with nothing.                                      *)

\* Appending to the queue keeps everybody's place in it.
LEMMA AppendKeepsWaiting ==
    ASSUME queue \in Seq(Jobs), NEW t \in Seq(Jobs), queue' = queue \o t,
           NEW p, WaitsInQueue(p)
    PROVE  WaitsInQueue(p)'
BY DEF WaitsInQueue

\* Whoever is behind the first job is still there when that job is taken.
LEMMA TailKeepsWaiting ==
    ASSUME queue \in Seq(Jobs), queue # <<>>, queue' = Tail(queue),
           NEW p, WaitsInQueue(p), Head(queue).project # p
    PROVE  WaitsInQueue(p)'
<1>1. PICK i \in 1..Len(queue) : queue[i].project = p
  BY DEF WaitsInQueue
<1>2. i # 1
  BY <1>1
<1>3. i - 1 \in 1..Len(Tail(queue)) /\ Tail(queue)[i - 1] = queue[i]
  BY <1>1, <1>2
<1>4. i - 1 \in DOMAIN queue' /\ queue'[i - 1].project = p
  BY <1>1, <1>3
<1> QED BY <1>4 DEF WaitsInQueue

\* Queueing a job marks its project, and its project then has a waiting job.
LEMMA EnqueueWaits ==
    ASSUME TypeOK, PendingIsWaiting, NEW j \in Jobs, enqueue(j),
           UNCHANGED <<pc, job>>
    PROVE  PendingIsWaiting'
<1>1. \A p : WaitsOnLock(p) => WaitsOnLock(p)'
  BY DEF WaitsOnLock
<1>2. CASE j.project \in pending
  BY <1>1, <1>2 DEF enqueue, PendingIsWaiting, WaitsInQueue
<1>3. CASE j.project \notin pending
  <2>1. queue' = Append(queue, j) /\ pending' = pending \union {j.project}
    BY <1>3 DEF enqueue
  <2>2. queue' = queue \o <<j>> /\ queue \in Seq(Jobs) /\ <<j>> \in Seq(Jobs)
    BY <2>1 DEF TypeOK
  <2>3. \A p : WaitsInQueue(p) => WaitsInQueue(p)'
    BY <2>2, AppendKeepsWaiting
  <2>4. WaitsInQueue(j.project)'
    <3>1. Len(queue) + 1 \in DOMAIN queue' /\ queue'[Len(queue) + 1] = j
      BY <2>1, <2>2
    <3> QED BY <3>1 DEF WaitsInQueue
  <2> QED BY <1>1, <2>1, <2>3, <2>4 DEF PendingIsWaiting
<1> QED BY <1>2, <1>3

\* A rescan gives every unmarked project a waiting job.
LEMMA RescanWaits ==
    ASSUME TypeOK, PendingIsWaiting, Rescan
    PROVE  PendingIsWaiting'
<1> DEFINE n == Cardinality(Projects \ pending)
<1>1. n \in Nat
  BY FS_Difference, FS_CardinalityType
<1>2. PICK s \in Orders(Projects \ pending) :
          queue' = queue \o [i \in 1..n |-> [project |-> s[i], sha |-> 0]]
  BY DEF Rescan
<1>3. s \in [1..n -> Projects]
  BY <1>2 DEF Orders
<1>4. \A p \in Projects \ pending : \E i \in 1..n : s[i] = p
  BY <1>2, <1>3 DEF Orders
<1> HIDE DEF n
<1> DEFINE t == [i \in 1..n |-> [project |-> s[i], sha |-> 0]]
<1>5. t \in Seq(Jobs) /\ Len(t) = n
  BY <1>1, <1>3 DEF Jobs
<1>6. queue \in Seq(Jobs) /\ pending \subseteq Projects
  BY DEF TypeOK
<1>7. \A p \in pending : WaitsInQueue(p)' \/ WaitsOnLock(p)'
  BY <1>2, <1>5, <1>6, AppendKeepsWaiting
     DEF PendingIsWaiting, WaitsOnLock, Rescan
<1>8. \A p \in Projects \ pending : WaitsInQueue(p)'
  <2> SUFFICES ASSUME NEW p \in Projects \ pending PROVE WaitsInQueue(p)'
    OBVIOUS
  <2>1. PICK i \in 1..n : s[i] = p
    BY <1>4
  <2>2. t[i].project = p
    BY <2>1
  <2> HIDE DEF t
  <2>3. queue' = queue \o t
    BY <1>2 DEF t
  <2>4. Len(queue) + i \in DOMAIN queue' /\ queue'[Len(queue) + i] = t[i]
    BY <1>1, <1>5, <1>6, <2>1, <2>3
  <2> QED BY <2>2, <2>4 DEF WaitsInQueue
<1> QED BY <1>7, <1>8 DEF PendingIsWaiting, Rescan

\* No step leaves a mark behind when its project's last waiting job is gone.
LEMMA PendingNext == TypeInv /\ PendingIsWaiting /\ [Next]_vars => PendingIsWaiting'
<1> SUFFICES ASSUME TypeInv, PendingIsWaiting, [Next]_vars PROVE PendingIsWaiting'
  OBVIOUS
<1>0. TypeOK /\ Busy
  BY DEF TypeInv
<1>1. ASSUME UNCHANGED <<queue, pending, pc, job>> PROVE PendingIsWaiting'
  BY <1>1 DEF PendingIsWaiting, WaitsInQueue, WaitsOnLock
<1>2. ASSUME NEW h \in hooks, Webhook(h) PROVE PendingIsWaiting'
  <2>1. h \in Jobs
    BY <1>0 DEF Jobs, TypeOK
  <2> QED BY <1>0, <1>2, <2>1, EnqueueWaits DEF Webhook
<1>3. ASSUME NEW h \in hooks, Trigger(h) PROVE PendingIsWaiting'
  <2>1. [project |-> h.project, sha |-> 0] \in Jobs
    BY <1>0 DEF Jobs, TypeOK
  <2> QED BY <1>0, <1>3, <2>1, EnqueueWaits DEF Trigger
<1>4. ASSUME NEW w \in Workers, pc[w] # "lock", UNCHANGED queue,
             \A v \in Workers \ {w} : pc'[v] = pc[v] /\ job'[v] = job[v],
             pending' \subseteq pending
      PROVE PendingIsWaiting'
  BY <1>4 DEF PendingIsWaiting, WaitsInQueue, WaitsOnLock
<1>5. ASSUME NEW w \in Workers, WorkerStep(w) PROVE PendingIsWaiting'
  <2>1. CASE Get(w)
    <3>1. queue \in Seq(Jobs) /\ queue # <<>> /\ queue' = Tail(queue)
          /\ pc[w] = "idle" /\ job' = [job EXCEPT ![w] = Head(queue)]
          /\ job \in [Workers -> Jobs \union {NoJob}]
          /\ pc \in [Workers -> {"idle", "lock"} \union Working]
      BY <1>0, <2>1 DEF Get, TypeOK
    <3>2. PICK q : q = Head(queue).project
      OBVIOUS
    <3>3. \A p : WaitsInQueue(p) /\ p # q => WaitsInQueue(p)'
      BY <3>1, <3>2, TailKeepsWaiting
    <3>4. CASE EnterLock(w, Head(queue).project)
      <4>1. \A p : WaitsOnLock(p) => WaitsOnLock(p)'
        BY <3>1, <3>4 DEF EnterLock, WaitsOnLock
      <4>2. pending' = pending \ {q}
        BY <3>2, <3>4 DEF EnterLock
      <4> QED BY <3>3, <4>1, <4>2 DEF PendingIsWaiting
    <3>5. CASE pc' = [pc EXCEPT ![w] = "lock"] /\ UNCHANGED pending
      <4>1. \A p : WaitsOnLock(p) => WaitsOnLock(p)'
        BY <3>1, <3>5 DEF WaitsOnLock
      <4>2. pc'[w] = "lock" /\ job'[w].project = q
        BY <3>1, <3>2, <3>5
      <4>3. WaitsOnLock(q)'
        BY <4>2 DEF WaitsOnLock
      <4> QED BY <3>3, <3>5, <4>1, <4>3 DEF PendingIsWaiting
    <3> QED BY <2>1, <3>4, <3>5 DEF Get
  <2>2. CASE Acquire(w)
    <3>1. pending' = pending \ {job[w].project} /\ UNCHANGED <<queue, job>>
          /\ \A v \in Workers \ {w} : pc'[v] = pc[v]
      BY <1>0, <2>2 DEF Acquire, EnterLock, TypeOK
    <3> QED BY <3>1, ZenonT(30) DEF PendingIsWaiting, WaitsInQueue, WaitsOnLock
  <2>3. CASE Clone(w) \/ Fetch(w) \/ Checkout(w) \/ EngineWrites(w) \/ EngineSucceeds(w)
    <3>1. pc[w] # "lock" /\ UNCHANGED <<queue, pending, job>>
          /\ \A v \in Workers \ {w} : pc'[v] = pc[v]
      BY <1>0, <2>3
         DEF Clone, Fetch, Checkout, EngineWrites, EngineSucceeds, TypeOK
    <3> QED BY <1>4, <3>1
  <2>4. CASE GitFails(w) \/ EngineFails(w) \/ RecordEpoch(w) \/ RecordFails(w)
    <3>1. pc[w] # "lock" /\ Release(w) /\ UNCHANGED queue
      BY <2>4 DEF GitFails, GitSteps, EngineFails, RecordEpoch, RecordFails
    <3>2. /\ pending' \subseteq pending
          /\ \A v \in Workers \ {w} : pc'[v] = pc[v] /\ job'[v] = job[v]
      BY <1>0, <3>1 DEF Release, TypeOK
    <3> QED BY <1>4, <3>1, <3>2
  <2> QED BY <1>5, <2>1, <2>2, <2>3, <2>4 DEF WorkerStep
<1>6. CASE Rescan
  BY <1>0, <1>6, RescanWaits
<1>7. CASE Restart
  BY <1>7 DEF Restart, PendingIsWaiting
<1>8. CASE (\E p \in Projects : Push(p)) \/ (\E h \in hooks : LoseHook(h)) \/ UNCHANGED vars
  BY <1>1, <1>8 DEF Push, LoseHook, vars
<1> QED BY <1>2, <1>3, <1>5, <1>6, <1>7, <1>8 DEF Next

\* A push is dropped by Indexer.enqueue only while a job of its project has
\* still to sync the clone: no notification is coalesced with a job that
\* already started, or with nothing, whatever the interleaving.
THEOREM NothingCoalescedAway == Spec => []PendingIsWaiting
<1>1. Init => PendingIsWaiting
  BY DEF Init, PendingIsWaiting
<1> QED BY <1>1, TypeInit, TypeNext, PendingNext, PTL DEF Spec

-----------------------------------------------------------------------------
(* Results and epochs.  OkMeansGraphCurrent needs to know what the worker  *)
(* at the end of an index has built, and that nobody else touches it.      *)

BuiltInv ==
    \A w \in Workers : pc[w] \in {"exit", "record"} =>
        graph[job[w].project] = worktree[job[w].project]

ResultInv == BuiltInv /\ OkMeansGraphCurrent

\* Nothing is built, and nothing has a result, in a fresh process.
LEMMA ResultInit == Init => ResultInv
BY DEF Init, ResultInv, BuiltInv, OkMeansGraphCurrent

\* A step changes clone, graph and result of the project it holds the lock
\* of, and leaves every other project's worker and result alone.
LEMMA ResultNext ==
    TypeInv /\ LockInv /\ ResultInv /\ [Next]_vars => ResultInv'
<1> SUFFICES ASSUME TypeInv, LockInv, ResultInv, [Next]_vars PROVE ResultInv'
  OBVIOUS
<1>0. /\ owner \in [Projects -> Workers \union {NoWorker}]
      /\ pc \in [Workers -> {"idle", "lock"} \union Working]
      /\ job \in [Workers -> Jobs \union {NoJob}]
      /\ result \in [Projects -> {"none", "ok", "failed"}]
      /\ worktree \in [Projects -> 0..MaxCommit]
      /\ graph \in [Projects -> 0..MaxCommit]
      /\ \A w \in Workers : pc[w] # "idle" => job[w] \in Jobs /\ job[w].project \in Projects
  BY DEF TypeInv, TypeOK, Busy, Jobs
<1> USE DEF ResultInv, BuiltInv, OkMeansGraphCurrent, Working, GitSteps, lockVars, diskVars
<1>1. ASSUME UNCHANGED <<owner, pc, job, result, diskVars>> PROVE ResultInv'
  BY <1>1
<1>2. ASSUME NEW w \in Workers, WorkerStep(w) PROVE ResultInv'
  <2>1. CASE Get(w)
    <3>1. /\ pc[w] = "idle" /\ UNCHANGED <<result, diskVars>>
          /\ \A v \in Workers \ {w} : pc'[v] = pc[v] /\ job'[v] = job[v]
          /\ pc'[w] \in {"lock", "clone", "fetch"}
      BY <1>0, <2>1 DEF Get, EnterLock, FirstStep
    <3>2. \A p \in Projects : owner'[p] = NoWorker => owner[p] = NoWorker
      BY <1>0, <2>1 DEF Get, EnterLock
    <3> QED BY <3>1, <3>2
  <2>2. CASE Acquire(w)
    <3>1. /\ UNCHANGED <<job, result, diskVars>>
          /\ \A v \in Workers \ {w} : pc'[v] = pc[v]
          /\ pc'[w] \in {"clone", "fetch"}
      BY <1>0, <2>2 DEF Acquire, EnterLock, FirstStep
    <3>2. \A p \in Projects : owner'[p] = NoWorker => owner[p] = NoWorker
      BY <1>0, <2>2 DEF Acquire, EnterLock
    <3> QED BY <3>1, <3>2
  <2>3. CASE Clone(w) \/ Fetch(w) \/ Checkout(w) \/ EngineWrites(w)
    <3>1. PICK p \in Projects : p = job[w].project
      BY <1>0, <2>3 DEF Clone, Fetch, Checkout, EngineWrites
    <3>2. /\ pc[w] \in Working /\ UNCHANGED <<owner, job, result>>
          /\ \A v \in Workers \ {w} : pc'[v] = pc[v]
          /\ \A q \in Projects \ {p} : graph'[q] = graph[q] /\ worktree'[q] = worktree[q]
          /\ pc'[w] \in {"exit", "record"} => graph'[p] = worktree'[p]
      BY <1>0, <2>3, <3>1 DEF Clone, Fetch, Checkout, EngineWrites
    <3>3. owner[p] = w /\ \A v \in Workers \ {w} : pc[v] \in Working => job[v].project # p
      BY <3>1, <3>2 DEF LockInv
    <3>4. BuiltInv'
      BY <1>0, <3>1, <3>2, <3>3
    <3>5. OkMeansGraphCurrent'
      BY <3>2, <3>3
    <3> QED BY <3>4, <3>5
  <2>4. CASE EngineSucceeds(w)
    <3>1. /\ pc[w] = "exit" /\ UNCHANGED <<owner, job, diskVars>>
          /\ pc' = [pc EXCEPT ![w] = "record"]
          /\ result' = [result EXCEPT ![job[w].project] = "ok"]
          /\ owner[job[w].project] = w
      BY <2>4 DEF EngineSucceeds, LockInv
    <3> QED BY <1>0, <3>1
  <2>5. CASE GitFails(w) \/ EngineFails(w)
    <3>1. /\ pc[w] \in Working /\ UNCHANGED diskVars
          /\ Release(w)
          /\ result' = [result EXCEPT ![job[w].project] = "failed"]
      BY <2>5 DEF GitFails, EngineFails
    <3> QED BY <1>0, <3>1 DEF Release
  <2>6. CASE RecordEpoch(w) \/ RecordFails(w)
    <3>1. /\ pc[w] = "record" /\ UNCHANGED <<worktree, graph, result>>
          /\ Release(w)
      BY <2>6 DEF RecordEpoch, RecordFails
    <3> QED BY <1>0, <3>1 DEF Release
  <2> QED BY <1>2, <2>1, <2>2, <2>3, <2>4, <2>5, <2>6 DEF WorkerStep
<1>3. CASE Restart
  BY <1>3 DEF Restart
<1>4. CASE \/ \E p \in Projects : Push(p)
           \/ \E h \in hooks : LoseHook(h) \/ Webhook(h) \/ Trigger(h)
           \/ Rescan
           \/ UNCHANGED vars
  BY <1>1, <1>4 DEF Push, LoseHook, Webhook, Trigger, Rescan, vars
<1> QED BY <1>2, <1>3, <1>4 DEF Next

\* An "ok" in Indexer.last_results is never left standing over a graph that
\* was not built from the tree now checked out.
THEOREM OkIsHonest == Spec => []OkMeansGraphCurrent
<1>1. ResultInv => OkMeansGraphCurrent
  BY DEF ResultInv
<1> QED
  BY <1>1, TypeInit, TypeNext, LockInit, LockNext, ResultInit, ResultNext, PTL DEF Spec

\* Between two faults only the worker that wrote a graph can be late with
\* its epoch.
LEMMA EpochNext == TypeInv /\ EpochFollowsGraph /\ [Next]_vars => EpochFollowsGraph'
<1> SUFFICES ASSUME TypeInv, EpochFollowsGraph, [Next]_vars PROVE EpochFollowsGraph'
  OBVIOUS
<1>0. /\ pc \in [Workers -> {"idle", "lock"} \union Working]
      /\ job \in [Workers -> Jobs \union {NoJob}]
      /\ graph \in [Projects -> 0..MaxCommit]
      /\ covered \in [Projects -> 0..MaxCommit]
      /\ faults \in Nat
      /\ \A w \in Workers : pc[w] # "idle" => job[w] \in Jobs /\ job[w].project \in Projects
  BY DEF TypeInv, TypeOK, Busy, Jobs
<1> USE DEF EpochFollowsGraph, diskVars
<1>1. ASSUME Fault PROVE EpochFollowsGraph'
  BY <1>0, <1>1 DEF Fault
<1>2. ASSUME UNCHANGED <<pc, job, graph, covered, faults>> PROVE EpochFollowsGraph'
  BY <1>2
<1>3. ASSUME NEW w \in Workers, WorkerStep(w) PROVE EpochFollowsGraph'
  <2>1. CASE Get(w) \/ Acquire(w) \/ Clone(w) \/ Fetch(w) \/ Checkout(w)
    <3>1. /\ pc[w] \notin {"exit", "record"} /\ UNCHANGED <<graph, covered, faults>>
          /\ \A v \in Workers \ {w} : pc'[v] = pc[v] /\ job'[v] = job[v]
      BY <1>0, <2>1 DEF Get, Acquire, EnterLock, Clone, Fetch, Checkout
    <3> QED BY <3>1
  <2>2. CASE EngineWrites(w) \/ EngineSucceeds(w)
    <3>1. /\ pc'[w] \in {"exit", "record"} /\ UNCHANGED <<job, covered, faults>>
          /\ \A v \in Workers \ {w} : pc'[v] = pc[v]
          /\ \A q \in Projects \ {job[w].project} : graph'[q] = graph[q]
      BY <1>0, <2>2 DEF EngineWrites, EngineSucceeds
    <3> QED BY <3>1
  <2>3. CASE RecordEpoch(w)
    <3>1. /\ job[w].project \in Projects /\ covered'[job[w].project] = graph[job[w].project]
          /\ UNCHANGED <<graph, faults>>
          /\ \A v \in Workers \ {w} : pc'[v] = pc[v] /\ job'[v] = job[v]
          /\ \A q \in Projects \ {job[w].project} : covered'[q] = covered[q]
      BY <1>0, <2>3 DEF RecordEpoch, Release
    <3> QED BY <3>1
  <2>4. CASE GitFails(w) \/ EngineFails(w) \/ RecordFails(w)
    BY <1>1, <2>4 DEF GitFails, EngineFails, RecordFails
  <2> QED BY <1>3, <2>1, <2>2, <2>3, <2>4 DEF WorkerStep
<1>4. CASE Restart
  BY <1>1, <1>4 DEF Restart
<1>5. ASSUME NEW h \in hooks, Webhook(h) \/ Trigger(h) PROVE EpochFollowsGraph'
  BY <1>1, <1>2, <1>5 DEF Webhook, Trigger, Delivered
<1>6. ASSUME NEW h \in hooks, LoseHook(h) PROVE EpochFollowsGraph'
  BY <1>1, <1>6 DEF LoseHook
<1>7. CASE (\E p \in Projects : Push(p)) \/ Rescan \/ UNCHANGED vars
  BY <1>2, <1>7 DEF Push, Rescan, vars
<1> QED BY <1>3, <1>4, <1>5, <1>6, <1>7 DEF Next

\* As long as nothing fails, every graph the engine wrote is followed by an
\* epoch, or the worker that will record it is still on its way there.
THEOREM EpochAfterGraph == Spec => []EpochFollowsGraph
<1>1. Init => EpochFollowsGraph
  BY DEF Init, EpochFollowsGraph
<1> QED BY <1>1, TypeInit, TypeNext, EpochNext, PTL DEF Spec
=============================================================================
