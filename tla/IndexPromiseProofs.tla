------------------------- MODULE IndexPromiseProofs -------------------------
(***************************************************************************)
(* IndexQueue implements ProjectIndex, for any projects, workers and       *)
(* bounds.                                                                 *)
(***************************************************************************)
EXTENDS IndexQueueProofs

USE IndexQueueAssumption, NoJobAssumption DEF Commits

-----------------------------------------------------------------------------
(* What is checked out was published.  Commits are named by notifications, *)
(* travel through queue and jobs, and a fetch knows the branch's tip.      *)

HooksPublished == \A h \in hooks : h.sha \in 1..head[h.project]

QueuePublished == \A i \in 1..Len(queue) : queue[i].sha \in 0..head[queue[i].project]

JobsPublished ==
    \A w \in Workers : pc[w] # "idle" => job[w].sha \in 0..head[job[w].project]

\* What a worker has fetched or checked out, where it relies on it.
ClonePublished ==
    \A w \in Workers :
        /\ pc[w] = "checkout" => origin[job[w].project] \in 1..head[job[w].project]
        /\ pc[w] = "engine" => worktree[job[w].project] \in 1..head[job[w].project]

PublishedInv == HooksPublished /\ QueuePublished /\ JobsPublished /\ ClonePublished

\* Nothing is on its way in a fresh process.
LEMMA PublishedInit == Init => PublishedInv
BY DEF Init, PublishedInv, HooksPublished, QueuePublished, JobsPublished, ClonePublished

\* Branches only grow.
LEMMA HeadGrows ==
    TypeInv /\ [Next]_vars =>
        \A p \in Projects : head[p] \in Nat /\ head'[p] \in Nat /\ head[p] <= head'[p]
<1> SUFFICES ASSUME TypeInv, [Next]_vars
             PROVE  \A p \in Projects : head[p] \in Nat /\ head'[p] \in Nat /\ head[p] <= head'[p]
  OBVIOUS
<1>1. head \in [Projects -> 1..MaxCommit]
  BY DEF TypeInv, TypeOK
<1>2. ASSUME UNCHANGED head
      PROVE  \A p \in Projects : head[p] \in Nat /\ head'[p] \in Nat /\ head[p] <= head'[p]
  BY <1>1, <1>2
<1>3. ASSUME NEW p \in Projects, Push(p)
      PROVE  \A q \in Projects : head[q] \in Nat /\ head'[q] \in Nat /\ head[q] <= head'[q]
  BY <1>1, <1>3 DEF Push
<1>4. ASSUME NEW w \in Workers, WorkerStep(w) PROVE UNCHANGED head
  BY <1>4 DEF WorkerStep, Get, Acquire, Clone, Fetch, Checkout, GitFails, EngineWrites,
              EngineSucceeds, EngineFails, RecordEpoch, RecordFails, remoteVars
<1>5. ASSUME NEW h \in hooks, LoseHook(h) \/ Webhook(h) \/ Trigger(h) PROVE UNCHANGED head
  BY <1>5 DEF LoseHook, Webhook, Trigger
<1>6. CASE Rescan \/ Restart \/ UNCHANGED vars
  BY <1>2, <1>6 DEF Rescan, Restart, vars, remoteVars
<1> QED BY <1>2, <1>3, <1>4, <1>5, <1>6 DEF Next

\* Queueing a published job leaves the queue published.
LEMMA EnqueuePublished ==
    ASSUME TypeInv, QueuePublished, UNCHANGED head,
           NEW j \in Jobs, j.sha \in 0..head[j.project], enqueue(j)
    PROVE  QueuePublished'
<1>1. queue \in Seq(Jobs)
  BY DEF TypeInv, TypeOK
<1>2. CASE UNCHANGED queue
  BY <1>2 DEF QueuePublished
<1>3. CASE queue' = Append(queue, j)
  <2>1. Len(queue') = Len(queue) + 1 /\ queue'[Len(queue) + 1] = j
        /\ \A i \in 1..Len(queue) : queue'[i] = queue[i]
    BY <1>1, <1>3
  <2>2. \A i \in 1..Len(queue') : i \in 1..Len(queue) \/ i = Len(queue) + 1
    BY <1>1, <2>1
  <2> QED BY <2>1, <2>2 DEF QueuePublished
<1> QED BY <1>2, <1>3 DEF enqueue

\* A rescan queues jobs for the tip, whatever it is.
LEMMA RescanPublished ==
    ASSUME TypeInv, QueuePublished, Rescan
    PROVE  QueuePublished'
<1> DEFINE n == Cardinality(Projects \ pending)
<1>1. n \in Nat
  BY FS_Difference, FS_CardinalityType
<1>2. PICK s \in Orders(Projects \ pending) :
          queue' = queue \o [i \in 1..n |-> [project |-> s[i], sha |-> 0]]
  BY DEF Rescan
<1>3. s \in [1..n -> Projects]
  BY <1>2 DEF Orders
<1> HIDE DEF n
<1> DEFINE t == [i \in 1..n |-> [project |-> s[i], sha |-> 0]]
<1>4. t \in Seq(Jobs) /\ Len(t) = n
  BY <1>1, <1>3 DEF Jobs
<1>5. \A i \in 1..n : t[i].sha = 0 /\ t[i].project \in Projects
  BY <1>3
<1>6. queue \in Seq(Jobs) /\ head \in [Projects -> 1..MaxCommit] /\ UNCHANGED head
  BY DEF TypeInv, TypeOK, Rescan, remoteVars
<1>7. queue' = queue \o t
  BY <1>2
<1> HIDE DEF t
<1>8. ASSUME NEW i \in 1..Len(queue') PROVE queue'[i].sha \in 0..head[queue'[i].project]
  <2>1. Len(queue') = Len(queue) + n
    <3>1. Len(queue \o t) = Len(queue) + Len(t)
      BY <1>4, <1>6
    <3> QED BY <1>4, <1>7, <3>1
  <2>2. CASE i <= Len(queue)
    <3>1. i \in 1..Len(queue) /\ queue'[i] = queue[i]
      BY <1>4, <1>6, <1>7, <2>2
    <3> QED BY <3>1 DEF QueuePublished
  <2>3. CASE i > Len(queue)
    <3>1. i - Len(queue) \in 1..n /\ queue'[i] = t[i - Len(queue)]
      BY <1>1, <1>4, <1>6, <1>7, <2>1, <2>3
    <3>2. queue'[i].sha = 0 /\ queue'[i].project \in Projects
      BY <1>5, <3>1
    <3> QED BY <1>6, <3>2
  <2> QED BY <1>6, <2>2, <2>3
<1> QED BY <1>6, <1>8 DEF QueuePublished

\* No step brings a commit into play that is not on the branch.
LEMMA PublishedNext ==
    TypeInv /\ LockInv /\ PublishedInv /\ [Next]_vars => PublishedInv'
<1> SUFFICES ASSUME TypeInv, LockInv, PublishedInv, [Next]_vars PROVE PublishedInv'
  OBVIOUS
<1>0. /\ head \in [Projects -> 1..MaxCommit]
      /\ hooks \subseteq [project : Projects, sha : 1..MaxCommit]
      /\ queue \in Seq(Jobs)
      /\ pc \in [Workers -> {"idle", "lock"} \union Working]
      /\ job \in [Workers -> Jobs \union {NoJob}]
      /\ origin \in [Projects -> 0..MaxCommit]
      /\ worktree \in [Projects -> 0..MaxCommit]
      /\ \A w \in Workers : pc[w] # "idle" => job[w] \in Jobs /\ job[w].project \in Projects
  BY DEF TypeInv, TypeOK, Busy, Jobs
<1> USE DEF PublishedInv, Working, GitSteps
<1>1. ASSUME UNCHANGED <<head, hooks, queue, pc, job, origin, worktree>> PROVE PublishedInv'
  BY <1>1 DEF HooksPublished, QueuePublished, JobsPublished, ClonePublished
<1>2. ASSUME NEW p \in Projects, Push(p) PROVE PublishedInv'
  <2>1. /\ head' = [head EXCEPT ![p] = @ + 1]
        /\ hooks' = hooks \union {[project |-> p, sha |-> head[p] + 1]}
        /\ UNCHANGED <<queue, pc, job, origin, worktree>>
    BY <1>2 DEF Push, diskVars
  <2>2. \A q \in Projects : head[q] \in Nat /\ head'[q] \in Nat /\ head[q] <= head'[q]
    BY HeadGrows
  <2>3. HooksPublished'
    BY <1>0, <2>1, <2>2 DEF HooksPublished
  <2>4. QueuePublished'
    <3>0. \A i \in 1..Len(queue) : queue[i] \in Jobs
      BY <1>0
    <3>1. \A i \in 1..Len(queue) : queue[i].project \in Projects
      BY <3>0 DEF Jobs
    <3> QED BY <2>1, <2>2, <3>1 DEF QueuePublished
  <2>5. JobsPublished' /\ ClonePublished'
    BY <1>0, <2>1, <2>2 DEF JobsPublished, ClonePublished
  <2> QED BY <2>3, <2>4, <2>5
<1>3. ASSUME NEW h \in hooks, LoseHook(h) PROVE PublishedInv'
  BY <1>3 DEF LoseHook, diskVars, HooksPublished, QueuePublished, JobsPublished, ClonePublished
<1>4. ASSUME NEW h \in hooks, Webhook(h) \/ Trigger(h) PROVE PublishedInv'
  <2>1. UNCHANGED <<head, pc, job, origin, worktree>>
    BY <1>4 DEF Webhook, Trigger, diskVars
  <2>2. hooks' \subseteq hooks
    BY <1>4 DEF Webhook, Trigger, Delivered
  <2>3. QueuePublished'
    <3>1. h \in Jobs /\ h.sha \in 0..head[h.project]
      BY <1>0 DEF Jobs, HooksPublished
    <3>2. /\ [project |-> h.project, sha |-> 0] \in Jobs
          /\ 0 \in 0..head[h.project]
      BY <1>0 DEF Jobs
    <3>3. CASE Webhook(h)
      BY <2>1, <3>1, <3>3, EnqueuePublished DEF Webhook
    <3>4. CASE Trigger(h)
      BY <2>1, <3>2, <3>4, EnqueuePublished DEF Trigger
    <3> QED BY <1>4, <3>3, <3>4
  <2> QED BY <2>1, <2>2, <2>3 DEF HooksPublished, JobsPublished, ClonePublished
<1>5. CASE Rescan
  BY <1>5, RescanPublished
     DEF Rescan, remoteVars, diskVars, HooksPublished, JobsPublished, ClonePublished
<1>6. ASSUME NEW w \in Workers, WorkerStep(w) PROVE PublishedInv'
  <2>1. CASE Get(w)
    <3>1. Head(queue) \in Jobs /\ queue # <<>> /\ queue' = Tail(queue)
      BY <1>0, <2>1, HeadType DEF Get
    <3>2. Head(queue) = queue[1] /\ 1 \in 1..Len(queue)
      BY <1>0, <3>1
    <3>3. /\ job' = [job EXCEPT ![w] = Head(queue)]
          /\ \A v \in Workers \ {w} : pc'[v] = pc[v]
          /\ pc'[w] \in {"lock", "clone", "fetch"}
          /\ UNCHANGED <<head, hooks, origin, worktree>>
      BY <1>0, <2>1 DEF Get, EnterLock, FirstStep, remoteVars, diskVars
    <3>4. QueuePublished'
      <4>1. \A i \in 1..Len(queue') : i + 1 \in 1..Len(queue) /\ queue'[i] = queue[i + 1]
        BY <1>0, <3>1
      <4> QED BY <3>3, <4>1 DEF QueuePublished
    <3>5. JobsPublished'
      BY <1>0, <3>2, <3>3 DEF QueuePublished, JobsPublished
    <3> QED BY <1>0, <3>3, <3>4, <3>5 DEF HooksPublished, ClonePublished
  <2>2. CASE Acquire(w)
    <3>1. /\ pc[w] # "idle" /\ pc'[w] \in {"clone", "fetch"}
          /\ \A v \in Workers \ {w} : pc'[v] = pc[v]
          /\ UNCHANGED <<head, hooks, queue, job, origin, worktree>>
      BY <1>0, <2>2 DEF Acquire, EnterLock, FirstStep, remoteVars, diskVars
    <3> QED BY <3>1 DEF HooksPublished, QueuePublished, JobsPublished, ClonePublished
  <2>3. CASE Clone(w) \/ Fetch(w) \/ Checkout(w)
    <3>1. /\ pc[w] \in Working /\ UNCHANGED <<head, hooks, queue, job>>
          /\ \A v \in Workers \ {w} : pc'[v] = pc[v]
          /\ pc'[w] # "idle"
      BY <1>0, <2>3 DEF Clone, Fetch, Checkout, remoteVars
    <3>2. PICK p \in Projects : p = job[w].project
      BY <1>0, <3>1
    <3>3. \A v \in Workers \ {w} : pc[v] \in Working => job[v].project # p
      BY <3>1, <3>2 DEF LockInv
    <3>4. \A q \in Projects \ {p} : origin'[q] = origin[q] /\ worktree'[q] = worktree[q]
      BY <1>0, <2>3, <3>2 DEF Clone, Fetch, Checkout
    <3>5. /\ pc'[w] = "checkout" => origin'[p] \in 1..head[p]
          /\ pc'[w] = "engine" => worktree'[p] \in 1..head[p]
      <4>1. CASE Clone(w)
        BY <1>0, <4>1 DEF Clone
      <4>2. CASE Fetch(w)
        BY <1>0, <3>2, <4>2 DEF Fetch
      <4>3. CASE Checkout(w)
        <5>1. pc[w] = "checkout" /\ pc'[w] = "engine" /\ worktree'[p] = Target(job[w])
          BY <1>0, <3>2, <4>3 DEF Checkout
        <5>2. Target(job[w]) \in 1..head[p]
          BY <1>0, <3>2, <5>1 DEF Target, JobsPublished, ClonePublished
        <5> QED BY <5>1, <5>2
      <4> QED BY <2>3, <4>1, <4>2, <4>3
    <3>6. ClonePublished'
      BY <1>0, <3>1, <3>2, <3>3, <3>4, <3>5 DEF ClonePublished
    <3> QED BY <3>1, <3>6 DEF HooksPublished, QueuePublished, JobsPublished
  <2>4. CASE EngineWrites(w) \/ EngineSucceeds(w)
    <3>1. /\ pc[w] # "idle" /\ pc'[w] \in {"exit", "record"}
          /\ \A v \in Workers \ {w} : pc'[v] = pc[v]
          /\ UNCHANGED <<head, hooks, queue, job, origin, worktree>>
      BY <1>0, <2>4 DEF EngineWrites, EngineSucceeds, remoteVars, diskVars
    <3> QED BY <3>1 DEF HooksPublished, QueuePublished, JobsPublished, ClonePublished
  <2>5. CASE GitFails(w) \/ EngineFails(w) \/ RecordEpoch(w) \/ RecordFails(w)
    <3>1. /\ pc'[w] = "idle"
          /\ \A v \in Workers \ {w} : pc'[v] = pc[v] /\ job'[v] = job[v]
          /\ UNCHANGED <<head, hooks, queue, origin, worktree>>
      BY <1>0, <2>5
         DEF GitFails, EngineFails, RecordEpoch, RecordFails, Release, remoteVars, diskVars
    <3> QED BY <3>1 DEF HooksPublished, QueuePublished, JobsPublished, ClonePublished
  <2> QED BY <1>6, <2>1, <2>2, <2>3, <2>4, <2>5 DEF WorkerStep
<1>7. CASE Restart
  BY <1>7
     DEF Restart, remoteVars, diskVars, HooksPublished, QueuePublished, JobsPublished,
         ClonePublished
<1>8. CASE UNCHANGED vars
  BY <1>1, <1>8 DEF vars
<1> QED BY <1>2, <1>3, <1>4, <1>5, <1>6, <1>7, <1>8 DEF Next

-----------------------------------------------------------------------------
(* The refinement.  A pass is open while the project's lock is held, so a  *)
(* step of a worker is a step of its own project's pass and of no other.   *)

\* No pass is open in a fresh process.
LEMMA PromiseInit == Init => Promise!Init
BY DEF Init, Promise!Init, Passing

\* Every step of the queue is a step of the promise, or none.
LEMMA PromiseNext ==
    TypeInv /\ LockInv /\ PublishedInv /\ [Next]_vars => [Promise!Next]_(Promise!vars)
<1> SUFFICES ASSUME TypeInv, LockInv, PublishedInv, [Next]_vars
             PROVE  [Promise!Next]_(Promise!vars)
  OBVIOUS
<1>0. /\ head \in [Projects -> 1..MaxCommit]
      /\ owner \in [Projects -> Workers \union {NoWorker}]
      /\ pc \in [Workers -> {"idle", "lock"} \union Working]
      /\ job \in [Workers -> Jobs \union {NoJob}]
      /\ \A w \in Workers : pc[w] # "idle" => job[w] \in Jobs /\ job[w].project \in Projects
  BY DEF TypeInv, TypeOK, Busy, Jobs
<1> USE DEF Working, GitSteps
<1>1. ASSUME UNCHANGED <<head, owner, pc, graph, covered>> PROVE UNCHANGED Promise!vars
  BY <1>1 DEF Promise!vars, Passing
<1>2. ASSUME NEW p \in Projects, Push(p) PROVE Promise!Next
  BY <1>2 DEF Push, lockVars, diskVars, Passing, Promise!Next, Promise!Publish
<1>3. ASSUME NEW w \in Workers, WorkerStep(w) PROVE [Promise!Next]_(Promise!vars)
  <2>1. CASE Get(w) \/ Acquire(w)
    <3>1. CASE \E p \in Projects : owner[p] = NoWorker /\ pc[w] \notin Working /\ EnterLock(w, p)
      <4>1. PICK p \in Projects : owner[p] = NoWorker /\ pc[w] \notin Working /\ EnterLock(w, p)
        BY <3>1
      <4>2. Passing[p] = "none" /\ Passing' = [Passing EXCEPT ![p] = "open"]
        <5>1. /\ owner' = [owner EXCEPT ![p] = w]
              /\ pc' = [pc EXCEPT ![w] = FirstStep(p)]
              /\ FirstStep(p) \notin {"exit", "record"}
          BY <4>1 DEF EnterLock, FirstStep
        <5>2. \A q \in Projects \ {p} :
                 owner'[q] = owner[q] /\ (owner[q] # NoWorker => pc'[owner[q]] = pc[owner[q]])
          BY <1>0, <4>1, <5>1 DEF LockInv
        <5>3. owner'[p] = w /\ pc'[w] = FirstStep(p)
          BY <1>0, <5>1
        <5>4. w # NoWorker /\ Passing[p] = "none"
          BY <4>1 DEF Passing
        <5>5. Passing'[p] = "open"
          BY <5>1, <5>3, <5>4 DEF Passing
        <5>6. \A q \in Projects \ {p} : Passing'[q] = Passing[q]
          BY <5>2 DEF Passing
        <5>7. DOMAIN Passing = Projects /\ Passing' = [q \in Projects |-> Passing'[q]]
          BY DEF Passing
        <5> QED BY <5>4, <5>5, <5>6, <5>7
      <4>3. UNCHANGED <<head, graph, covered>>
        BY <2>1 DEF Get, Acquire, remoteVars, diskVars
      <4> QED BY <4>2, <4>3 DEF Promise!Next, Promise!Begin
    <3>2. CASE pc[w] \notin Working /\ pc' = [pc EXCEPT ![w] = "lock"] /\ UNCHANGED owner
      <4>1. UNCHANGED Passing
        BY <1>0, <3>2 DEF Passing, LockInv
      <4> QED BY <2>1, <4>1 DEF Get, Acquire, remoteVars, diskVars, Promise!vars
    <3>3. Get(w) => Head(queue).project \in Projects
      BY HeadType DEF Get, TypeInv, TypeOK
    <3> QED BY <1>0, <2>1, <3>1, <3>2, <3>3 DEF Get, Acquire
  <2> SUFFICES ASSUME pc[w] \in Working, ~ Get(w), ~ Acquire(w)
               PROVE  [Promise!Next]_(Promise!vars)
    BY <1>3, <2>1
       DEF WorkerStep, Clone, Fetch, Checkout, GitFails, EngineWrites, EngineSucceeds,
           EngineFails, RecordEpoch, RecordFails
  <2>2. PICK p \in Projects : p = job[w].project
    BY <1>0
  <2>3. owner[p] = w /\ \A q \in Projects \ {p} : owner[q] # w
    BY <1>0, <2>2 DEF LockInv
  <2>4. ASSUME NEW s \in Working, pc' = [pc EXCEPT ![w] = s], UNCHANGED owner,
               pc[w] \in {"exit", "record"} <=> s \in {"exit", "record"}
        PROVE  UNCHANGED Passing
    BY <1>0, <2>3, <2>4 DEF Passing
  <2>5. ASSUME Release(w)
        PROVE  Passing[p] # "none" /\ Passing' = [Passing EXCEPT ![p] = "none"]
    BY <1>0, <2>2, <2>3, <2>5 DEF Passing, Release
  <2>6. CASE Clone(w) \/ Fetch(w) \/ Checkout(w) \/ EngineSucceeds(w)
    <3>1. UNCHANGED Passing
      BY <2>4, <2>6 DEF Clone, Fetch, Checkout, EngineSucceeds, lockVars
    <3> QED
      BY <2>6, <3>1
         DEF Clone, Fetch, Checkout, EngineSucceeds, remoteVars, diskVars, Promise!vars
  <2>7. CASE EngineWrites(w)
    <3>1. Passing[p] = "open" /\ Passing' = [Passing EXCEPT ![p] = "replaced"]
      BY <1>0, <2>3, <2>7 DEF EngineWrites, lockVars, Passing
    <3>2. worktree[p] \in 1..head[p]
      BY <2>2, <2>7 DEF EngineWrites, PublishedInv, ClonePublished
    <3> QED
      BY <2>2, <2>7, <3>1, <3>2 DEF EngineWrites, remoteVars, Promise!Next, Promise!Replace
  <2>8. CASE RecordEpoch(w)
    <3>1. Passing[p] = "replaced"
      BY <2>3, <2>8 DEF RecordEpoch, Passing
    <3> QED
      BY <2>2, <2>5, <2>8, <3>1 DEF RecordEpoch, remoteVars, Promise!Next, Promise!Record
  <2>9. CASE GitFails(w) \/ EngineFails(w) \/ RecordFails(w)
    BY <2>5, <2>9
       DEF GitFails, EngineFails, RecordFails, remoteVars, diskVars, Promise!Next,
           Promise!Abandon
  <2> QED BY <1>3, <2>6, <2>7, <2>8, <2>9 DEF WorkerStep
<1>4. CASE Restart
  BY <1>4 DEF Restart, remoteVars, diskVars, Passing, Promise!Next, Promise!Crash
<1>5. CASE \/ \E h \in hooks : LoseHook(h) \/ Webhook(h) \/ Trigger(h)
           \/ Rescan
           \/ UNCHANGED vars
  BY <1>1, <1>5 DEF LoseHook, Webhook, Trigger, Rescan, vars, remoteVars, lockVars, diskVars
<1> QED BY <1>2, <1>3, <1>4, <1>5 DEF Next

\* The indexer's queue, locks and workers implement ProjectIndex, across
\* failures and restarts: passes over a project never overlap, its graph only
\* ever becomes a published commit, and only inside a pass, and the epoch
\* Indexer._run records covers the graph of the pass that ends.
THEOREM QueueKeepsPromise == Spec => KeepsPromise
BY TypeInit, TypeNext, LockInit, LockNext, PublishedInit, PublishedNext,
   PromiseInit, PromiseNext, PTL DEF Spec, KeepsPromise, Promise!Spec
=============================================================================
