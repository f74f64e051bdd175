----------------------------- MODULE IndexQueue -----------------------------
(***************************************************************************)
(* The indexing queue of the indexer service (indexer/app/worker.py) with  *)
(* the handlers that feed it (indexer/app/main.py).                        *)
(*                                                                         *)
(* Jobs wait in one FIFO asyncio.Queue; a fixed pool of workers takes them *)
(* and serialises per project with one asyncio.Lock each.  `pending` holds *)
(* the projects a further job is coalesced with.  The event loop switches  *)
(* tasks only at an await, so every action below is the code between two   *)
(* awaits.  Queue, locks and marks are in memory and die with the process; *)
(* clone, graph and index epoch survive it.                                *)
(*                                                                         *)
(* A commit is its position in the default branch's history: 1, 2, ...     *)
(* The sha 0 stands for the empty sha, "whatever the branch points at".    *)
(***************************************************************************)
EXTENDS Naturals, Sequences, FiniteSets

CONSTANTS
    Projects,   \* the keys tenant/project of the discovered bindings
    Workers,    \* the worker tasks started by Indexer.start
    NoWorker,   \* owner of a free lock
    NoJob,      \* what an idle worker holds
    MaxCommit,  \* bound: commits on each default branch
    MaxQueue,   \* bound: jobs in the queue
    MaxFaults   \* bound: failures, lost or repeated deliveries and restarts

ASSUME IndexQueueAssumption ==
    /\ IsFiniteSet(Projects)
    /\ NoWorker \notin Workers
    /\ MaxCommit \in Nat \ {0}
    /\ MaxQueue \in Nat
    /\ MaxFaults \in Nat

Commits == 1..MaxCommit
Jobs    == [project : Projects, sha : 0..MaxCommit]
ASSUME NoJobAssumption == NoJob \notin Jobs

VARIABLES
    head,      \* per project: commit the remote default branch points at
    hooks,     \* push notifications on their way to the indexer
    queue,     \* Indexer._queue
    pending,   \* Indexer._pending
    owner,     \* Indexer._project_locks: who holds the lock
    waiters,   \* ... and who waits for it, first come first served
    pc,        \* per worker: the await it is suspended at
    job,       \* per worker: the job it took
    result,    \* Indexer.last_results, reduced to its outcome
    origin,    \* per project: commit of origin/<default> in the clone, 0: no clone
    worktree,  \* per project: commit checked out, 0: no clone
    graph,     \* per project: commit the engine's graph was built from, 0: none
    covered,   \* per project: graph[p] when the index epoch was last bumped
    faults     \* failures so far

remoteVars == <<head, hooks>>
lockVars   == <<owner, waiters>>
diskVars   == <<origin, worktree, graph, covered>>
vars == <<head, hooks, queue, pending, owner, waiters, pc, job, result,
          origin, worktree, graph, covered, faults>>

GitSteps == {"clone", "fetch", "checkout"}
Working  == GitSteps \union {"engine", "exit", "record"}

TypeOK ==
    /\ head \in [Projects -> Commits]
    /\ hooks \subseteq [project : Projects, sha : Commits]
    /\ queue \in Seq(Jobs)
    /\ pending \subseteq Projects
    /\ owner \in [Projects -> Workers \union {NoWorker}]
    /\ waiters \in [Projects -> Seq(Workers)]
    /\ pc \in [Workers -> {"idle", "lock"} \union Working]
    /\ job \in [Workers -> Jobs \union {NoJob}]
    /\ result \in [Projects -> {"none", "ok", "failed"}]
    /\ origin \in [Projects -> 0..MaxCommit]
    /\ worktree \in [Projects -> 0..MaxCommit]
    /\ graph \in [Projects -> 0..MaxCommit]
    /\ covered \in [Projects -> 0..MaxCommit]
    /\ faults \in 0..MaxFaults

Init ==
    /\ head = [p \in Projects |-> 1]
    /\ hooks = {}
    /\ queue = <<>>
    /\ pending = {}
    /\ owner = [p \in Projects |-> NoWorker]
    /\ waiters = [p \in Projects |-> <<>>]
    /\ pc = [w \in Workers |-> "idle"]
    /\ job = [w \in Workers |-> NoJob]
    /\ result = [p \in Projects |-> "none"]
    /\ origin = [p \in Projects |-> 0]
    /\ worktree = [p \in Projects |-> 0]
    /\ graph = [p \in Projects |-> 0]
    /\ covered = [p \in Projects |-> 0]
    /\ faults = 0

\* A step that uses up one of the tolerated faults.
Fault == faults < MaxFaults /\ faults' = faults + 1

-----------------------------------------------------------------------------
(* The remote and the handlers that enqueue.                               *)

\* A push moves the default branch; the provider sends a notification.
Push(p) ==
    /\ head[p] < MaxCommit
    /\ head' = [head EXCEPT ![p] = @ + 1]
    /\ hooks' = hooks \union {[project |-> p, sha |-> head[p] + 1]}
    /\ UNCHANGED <<queue, pending, lockVars, pc, job, result, diskVars, faults>>

LoseHook(h) ==
    /\ Fault
    /\ hooks' = hooks \ {h}
    /\ UNCHANGED <<head, queue, pending, lockVars, pc, job, result, diskVars>>

enqueue(j) ==
    /\ Len(queue) < MaxQueue
    /\ IF j.project \in pending
       THEN UNCHANGED <<queue, pending>>
       ELSE /\ pending' = pending \union {j.project}
            /\ queue' = Append(queue, j)

\* The provider delivers once, or delivers again what it already delivered.
Delivered(h) ==
    \/ hooks' = hooks \ {h} /\ UNCHANGED faults
    \/ hooks' = hooks /\ Fault

\* POST /webhook/{provider} for the default branch: pinned to event.sha.
Webhook(h) ==
    /\ Delivered(h)
    /\ enqueue(h)
    /\ UNCHANGED <<head, lockVars, pc, job, result, diskVars>>

\* Defect: the job is built without a sha.
TriggerWithoutSha(h) ==
    /\ Delivered(h)
    /\ enqueue([project |-> h.project])
    /\ UNCHANGED <<head, lockVars, pc, job, result, diskVars>>

\* POST /trigger from CI without a sha (with one it does what Webhook does).
Trigger(h) ==
    /\ Delivered(h)
    /\ enqueue([project |-> h.project, sha |-> 0])
    /\ UNCHANGED <<head, lockVars, pc, job, result, diskVars>>

\* The orders in which the bindings of S may be queued.
Orders(S) ==
    {s \in [1..Cardinality(S) -> S] : \A p \in S : \E i \in DOMAIN s : s[i] = p}

\* rescan_loop and POST /rescan: every binding is queued at the branch tip,
\* with no await between them.
Rescan ==
    /\ Len(queue) + Cardinality(Projects \ pending) <= MaxQueue
    /\ \E s \in Orders(Projects \ pending) :
          queue' = queue \o [i \in 1..Cardinality(Projects \ pending) |->
                                [project |-> s[i], sha |-> 0]]
    /\ pending' = Projects
    /\ UNCHANGED <<remoteVars, lockVars, pc, job, result, diskVars, faults>>

-----------------------------------------------------------------------------
(* The worker task, Indexer._run.                                          *)

\* _sync_worktree clones only what has no .git directory yet.
FirstStep(p) == IF worktree[p] = 0 THEN "clone" ELSE "fetch"

\* Defect: the mark is cleared only when the job ends.
EnterLockKeepsMark(w, p) ==
    /\ owner' = [owner EXCEPT ![p] = w]
    /\ UNCHANGED pending
    /\ pc' = [pc EXCEPT ![w] = FirstStep(p)]

\* Inside the lock: the mark is cleared before the work starts, so that a
\* push arriving mid-index schedules a follow-up.
EnterLock(w, p) ==
    /\ owner' = [owner EXCEPT ![p] = w]
    /\ pending' = pending \ {p}
    /\ pc' = [pc EXCEPT ![w] = FirstStep(p)]

\* queue.get() and, in the same breath, the lock when nobody has or awaits it.
Get(w) ==
    /\ pc[w] = "idle"
    /\ queue # <<>>
    /\ queue' = Tail(queue)
    /\ job' = [job EXCEPT ![w] = Head(queue)]
    /\ LET p == Head(queue).project IN
          \/ /\ owner[p] = NoWorker /\ waiters[p] = <<>>
             /\ EnterLock(w, p)
             /\ UNCHANGED waiters
          \/ /\ ~ (owner[p] = NoWorker /\ waiters[p] = <<>>)
             /\ waiters' = [waiters EXCEPT ![p] = Append(@, w)]
             /\ pc' = [pc EXCEPT ![w] = "lock"]
             /\ UNCHANGED <<owner, pending>>
    /\ UNCHANGED <<remoteVars, result, diskVars, faults>>

\* Defect: a waiter does not look at the lock when it wakes up.
AcquireUnchecked(w) ==
    /\ pc[w] = "lock"
    /\ LET p == job[w].project IN
          /\ waiters[p] # <<>> /\ Head(waiters[p]) = w
          /\ waiters' = [waiters EXCEPT ![p] = Tail(@)]
          /\ EnterLock(w, p)
    /\ UNCHANGED <<remoteVars, queue, job, result, diskVars, faults>>

\* The longest waiter wakes up once the lock is free.
Acquire(w) ==
    /\ pc[w] = "lock"
    /\ LET p == job[w].project IN
          /\ owner[p] = NoWorker
          /\ waiters[p] # <<>> /\ Head(waiters[p]) = w
          /\ waiters' = [waiters EXCEPT ![p] = Tail(@)]
          /\ EnterLock(w, p)
    /\ UNCHANGED <<remoteVars, queue, job, result, diskVars, faults>>

\* Defect: the lock is taken by hand and never given back.
ReleaseKeepsLock(w) ==
    /\ pending' = pending \ {job[w].project}
    /\ pc' = [pc EXCEPT ![w] = "idle"]
    /\ job' = [job EXCEPT ![w] = NoJob]
    /\ UNCHANGED owner

\* Leaving `async with lock`, then the finally block.
Release(w) ==
    /\ owner' = [owner EXCEPT ![job[w].project] = NoWorker]
    /\ pending' = pending \ {job[w].project}
    /\ pc' = [pc EXCEPT ![w] = "idle"]
    /\ job' = [job EXCEPT ![w] = NoJob]

Clone(w) ==
    /\ pc[w] = "clone"
    /\ LET p == job[w].project IN
          /\ origin' = [origin EXCEPT ![p] = head[p]]
          /\ worktree' = [worktree EXCEPT ![p] = head[p]]
    /\ pc' = [pc EXCEPT ![w] = "fetch"]
    /\ UNCHANGED <<remoteVars, queue, pending, lockVars, job, result, graph,
                   covered, faults>>

\* Defect: an existing clone is not fetched.
FetchSkipped(w) ==
    /\ pc[w] = "fetch"
    /\ pc' = [pc EXCEPT ![w] = "checkout"]
    /\ UNCHANGED <<remoteVars, queue, pending, lockVars, job, result, diskVars,
                   faults>>

Fetch(w) ==
    /\ pc[w] = "fetch"
    /\ origin' = [origin EXCEPT ![job[w].project] = head[job[w].project]]
    /\ pc' = [pc EXCEPT ![w] = "checkout"]
    /\ UNCHANGED <<remoteVars, queue, pending, lockVars, job, result, worktree,
                   graph, covered, faults>>

\* Pinned to the job's commit when it has one, else to origin/<default>.
Target(j) == IF j.sha # 0 THEN j.sha ELSE origin[j.project]

Checkout(w) ==
    /\ pc[w] = "checkout"
    /\ worktree' = [worktree EXCEPT ![job[w].project] = Target(job[w])]
    /\ pc' = [pc EXCEPT ![w] = "engine"]
    /\ UNCHANGED <<remoteVars, queue, pending, lockVars, job, result, origin,
                   graph, covered, faults>>

\* _git raised (non-zero exit or timeout): _run records a failed result.
GitFails(w) ==
    /\ pc[w] \in GitSteps
    /\ Fault
    /\ result' = [result EXCEPT ![job[w].project] = "failed"]
    /\ Release(w)
    /\ UNCHANGED <<remoteVars, queue, waiters, diskVars>>

\* The engine process replaces the project's graph, and exits later.
EngineWrites(w) ==
    /\ pc[w] = "engine"
    /\ LET p == job[w].project IN graph' = [graph EXCEPT ![p] = worktree[p]]
    /\ pc' = [pc EXCEPT ![w] = "exit"]
    /\ UNCHANGED <<remoteVars, queue, pending, lockVars, job, result, origin,
                   worktree, covered, faults>>

\* Defect: a successful index records no epoch.
EngineSucceedsUnrecorded(w) ==
    /\ pc[w] = "exit"
    /\ result' = [result EXCEPT ![job[w].project] = "ok"]
    /\ Release(w)
    /\ UNCHANGED <<remoteVars, queue, waiters, diskVars, faults>>

\* Defect: the epoch is recorded after the lock is given back.
EngineSucceedsUnlocks(w) ==
    /\ pc[w] = "exit"
    /\ result' = [result EXCEPT ![job[w].project] = "ok"]
    /\ owner' = [owner EXCEPT ![job[w].project] = NoWorker]
    /\ pc' = [pc EXCEPT ![w] = "record"]
    /\ UNCHANGED <<remoteVars, queue, pending, waiters, job, diskVars, faults>>

EngineSucceeds(w) ==
    /\ pc[w] = "exit"
    /\ result' = [result EXCEPT ![job[w].project] = "ok"]
    /\ pc' = [pc EXCEPT ![w] = "record"]
    /\ UNCHANGED <<remoteVars, queue, pending, lockVars, job, diskVars, faults>>

\* Defect: the failure is logged but the previous result is left standing.
EngineFailsSilently(w) ==
    /\ pc[w] \in {"engine", "exit"}
    /\ Fault
    /\ Release(w)
    /\ UNCHANGED <<remoteVars, queue, waiters, result, diskVars>>

\* Non-zero exit, or killed at the index timeout (rc 124) - before or after
\* it replaced the graph.  No epoch is recorded.
EngineFails(w) ==
    /\ pc[w] \in {"engine", "exit"}
    /\ Fault
    /\ result' = [result EXCEPT ![job[w].project] = "failed"]
    /\ Release(w)
    /\ UNCHANGED <<remoteVars, queue, waiters, diskVars>>

\* _record_epoch: on_indexed bumps the project's epoch in the database.
RecordEpoch(w) ==
    /\ pc[w] = "record"
    /\ covered' = [covered EXCEPT ![job[w].project] = graph[job[w].project]]
    /\ Release(w)
    /\ UNCHANGED <<remoteVars, queue, waiters, result, origin, worktree, graph,
                   faults>>

\* The database call failed; it is logged and the index counts as done.
RecordFails(w) ==
    /\ pc[w] = "record"
    /\ Fault
    /\ Release(w)
    /\ UNCHANGED <<remoteVars, queue, waiters, result, diskVars>>

\* The process stops (aclose cancels every worker) or crashes, and starts again.
Restart ==
    /\ Fault
    /\ queue' = <<>>
    /\ pending' = {}
    /\ owner' = [p \in Projects |-> NoWorker]
    /\ waiters' = [p \in Projects |-> <<>>]
    /\ pc' = [w \in Workers |-> "idle"]
    /\ job' = [w \in Workers |-> NoJob]
    /\ result' = [p \in Projects |-> "none"]
    /\ UNCHANGED <<remoteVars, diskVars>>

-----------------------------------------------------------------------------
WorkerStep(w) ==
    \/ Get(w) \/ Acquire(w)
    \/ Clone(w) \/ Fetch(w) \/ Checkout(w) \/ GitFails(w)
    \/ EngineWrites(w) \/ EngineSucceeds(w) \/ EngineFails(w)
    \/ RecordEpoch(w) \/ RecordFails(w)

Next ==
    \/ \E p \in Projects : Push(p)
    \/ \E h \in hooks : LoseHook(h) \/ Webhook(h) \/ Trigger(h)
    \/ Rescan
    \/ \E w \in Workers : WorkerStep(w)
    \/ Restart

Spec == Init /\ [][Next]_vars

\* Every await of a worker ends: git and the engine run under a timeout, the
\* lock is handed over in order.  The rescan loop never ends.
Fairness ==
    /\ \A w \in Workers : WF_vars(WorkerStep(w))
    /\ WF_vars(Rescan)

FairSpec == Spec /\ Fairness
-----------------------------------------------------------------------------
(* Properties.                                                             *)

WaitsInQueue(p) == \E i \in DOMAIN queue : queue[i].project = p
WaitsOnLock(p)  == \E w \in Workers : pc[w] = "lock" /\ job[w].project = p
IsIndexing(p)   == \E w \in Workers : pc[w] \in Working /\ job[w].project = p

\* Two workers never run git or the engine on one project at a time, so
\* neither a checkout nor the graph is changed under the other's feet.
ProjectExclusion ==
    \A v, w \in Workers :
        pc[v] \in Working /\ pc[w] \in Working /\ v # w
            => job[v].project # job[w].project

\* A push is only ever coalesced with a job that has not started: a marked
\* project has a job that will still sync its clone.  Otherwise `enqueue`
\* would drop the push and nothing would index it.
PendingIsWaiting == \A p \in pending : WaitsInQueue(p) \/ WaitsOnLock(p)

\* The last result is "ok" only as long as the graph is what is checked out:
\* no failure between a checkout and the engine's exit leaves an "ok" behind.
OkMeansGraphCurrent ==
    \A p \in Projects :
        result[p] = "ok" /\ owner[p] = NoWorker => graph[p] = worktree[p]

\* Without faults, a graph no epoch covers yet belongs to a worker that has
\* yet to record it: cached answers outlive a graph only for that long.
EpochFollowsGraph ==
    \A p \in Projects :
        graph[p] # covered[p] =>
            \/ faults > 0
            \/ \E w \in Workers : pc[w] \in {"exit", "record"} /\ job[w].project = p

\* A job that waits is started: neither a long index of the same project, nor
\* a worker blocked on its lock, nor a restart keeps it from running for ever.
WaitingIsIndexed ==
    \A p \in Projects : (WaitsInQueue(p) \/ WaitsOnLock(p)) ~> IsIndexing(p)

\* Once pushes and faults stop, rescans bring every graph to the branch tip
\* and the epoch up to the graph, for good, whatever was lost, repeated,
\* reordered, coalesced or failed before.
EventuallyAtHead ==
    \A p \in Projects : <>[](graph[p] = head[p] /\ covered[p] = graph[p])

\* A project is in a pass while its lock is held.
Passing ==
    [p \in Projects |-> IF owner[p] = NoWorker THEN "none"
                        ELSE IF pc[owner[p]] \in {"exit", "record"} THEN "replaced"
                        ELSE "open"]

Promise == INSTANCE ProjectIndex WITH passing <- Passing

\* Queue, locks, workers and restarts together keep what ProjectIndex
\* promises: passes over a project never overlap, the graph only ever becomes
\* a published commit, inside a pass, and the epoch covers the graph of the
\* pass that ends - not one a second worker has put there meanwhile.
KeepsPromise == Promise!Spec

\* enqueue's docstring: "Consecutive pushes converge on the same head": when
\* every notification has been handled without a fault and nothing is left to
\* do, an indexed project's graph is at the head of its branch.
PushesConverge ==
    /\ faults = 0 /\ hooks = {} /\ queue = <<>>
    /\ \A w \in Workers : pc[w] = "idle"
    => \A p \in Projects : graph[p] \in {0, head[p]}
=============================================================================
