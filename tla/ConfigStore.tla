---------------------------- MODULE ConfigStore ----------------------------
(***************************************************************************)
(* Configuration in the database and its cached copies: the writers        *)
(* (common/repo_mcp_common/admin.py, called by the admin API of a gateway  *)
(* replica or by the CLI), the generation counter they bump, the snapshot  *)
(* each service keeps (common/repo_mcp_common/store.py) and the runtime    *)
(* configuration a gateway builds from it (gateway/app/configuration.py).  *)
(*                                                                         *)
(* The configuration is a few tables, each a version number: how many      *)
(* edits have been committed to it.  Every action is one statement or      *)
(* commit seen by the database (READ COMMITTED), with the code up to the   *)
(* next await.                                                             *)
(***************************************************************************)
EXTENDS Naturals, Sequences

CONSTANTS
    Replicas,   \* processes with a ConfigStore
    Writers,    \* administrators and CLI runs
    NoReplica,  \* a write that comes from the CLI
    Tables,     \* number of SELECTs a load consists of
    None,       \* no snapshot
    MaxWrites,  \* bound: edits
    MaxFaults   \* bound: loads the database fails

ASSUME ConfigStoreAssumption ==
    /\ NoReplica \notin Replicas
    /\ Tables \in Nat \ {0}
    /\ MaxWrites \in Nat
    /\ MaxFaults \in Nat

Versions    == [1..Tables -> 0..MaxWrites]
Generations == 1..(MaxWrites + 1)
Snapshots   == [generation : Generations, data : Versions]
ASSUME NoneAssumption == None \notin Snapshots

VARIABLES
    generation,  \* config_generation.generation
    tables,      \* the committed version of each table
    history,     \* tables after each commit so far
    writer,      \* per writer: its transaction
    snapshot,    \* per replica: ConfigStore._snapshot
    current,     \* per replica: ConfigurationProvider._current
    due,         \* per replica: _checked_at is a poll interval ago
    load,        \* per replica: the load under way, under ConfigStore._lock
    promised,    \* per replica: what its admin API has reported as written
    faults

vars == <<generation, tables, history, writer, snapshot, current, due, load,
          promised, faults>>
dbVars     == <<generation, tables, history>>
cacheVars  == <<snapshot, current, due, load>>

NoEdit == [pc |-> "idle", via |-> NoReplica, edit |-> {}, seen |-> 1]
NoLoad == [at |-> 0, generation |-> 1, data |-> [t \in 1..Tables |-> 0]]

TypeOK ==
    /\ generation \in Generations
    /\ tables \in Versions
    /\ history \in Seq(Versions)
    /\ writer \in [Writers -> [pc : {"idle", "open", "invalidate"},
                               via : Replicas \union {NoReplica},
                               edit : SUBSET (1..Tables), seen : Generations]]
    /\ snapshot \in [Replicas -> Snapshots \union {None}]
    /\ current \in [Replicas -> Snapshots \union {None}]
    /\ due \in [Replicas -> BOOLEAN]
    /\ load \in [Replicas -> [at : 0..Tables, generation : Generations, data : Versions]]
    /\ promised \in [Replicas -> Versions]
    /\ faults \in 0..MaxFaults

Init ==
    /\ generation = 1
    /\ tables = [t \in 1..Tables |-> 0]
    /\ history = <<tables>>
    /\ writer = [w \in Writers |-> NoEdit]
    /\ snapshot = [r \in Replicas |-> None]
    /\ current = [r \in Replicas |-> None]
    /\ due = [r \in Replicas |-> FALSE]
    /\ load = [r \in Replicas |-> NoLoad]
    /\ promised = [r \in Replicas |-> [t \in 1..Tables |-> 0]]
    /\ faults = 0

-----------------------------------------------------------------------------
(* A write.                                                                *)

\* bump_generation reads the counter inside the writing transaction.
BeginWrite(w, via, edit) ==
    /\ writer[w].pc = "idle"
    /\ writer' = [writer EXCEPT ![w] = [pc |-> "open", via |-> via, edit |-> edit,
                                        seen |-> generation]]
    /\ UNCHANGED <<dbVars, cacheVars, promised, faults>>

\* Defect: the counter is bumped twice by one write.
CommitBumpsTwice(w) ==
    /\ writer[w].pc = "open"
    /\ Len(history) <= MaxWrites
    /\ generation' = writer[w].seen + 2
    /\ tables' = [t \in 1..Tables |-> IF t \in writer[w].edit THEN tables[t] + 1 ELSE tables[t]]
    /\ history' = Append(history, tables')
    /\ writer' = [writer EXCEPT ![w] = NoEdit]
    /\ UNCHANGED <<cacheVars, promised, faults>>

\* The transaction commits the edit and the counter as read plus one.  A
\* write through the admin API has a copy on its own replica to drop.
CommitWrite(w) ==
    /\ writer[w].pc = "open"
    /\ Len(history) <= MaxWrites
    /\ generation' = writer[w].seen + 1
    /\ tables' = [t \in 1..Tables |-> IF t \in writer[w].edit THEN tables[t] + 1 ELSE tables[t]]
    /\ history' = Append(history, tables')
    /\ writer' = [writer EXCEPT ![w] = IF writer[w].via = NoReplica THEN NoEdit
                                       ELSE [@ EXCEPT !.pc = "invalidate"]]
    /\ UNCHANGED <<cacheVars, promised, faults>>

\* An AdminError, or the database refuses: rolled back.
WriteRejected(w) ==
    /\ writer[w].pc = "open"
    /\ writer' = [writer EXCEPT ![w] = NoEdit]
    /\ UNCHANGED <<dbVars, cacheVars, promised, faults>>

\* Defect: the copy is dropped without the store's lock.
InvalidateUnlocked(w) ==
    LET r == writer[w].via IN
    /\ writer[w].pc = "invalidate"
    /\ snapshot' = [snapshot EXCEPT ![r] = None]
    /\ current' = [current EXCEPT ![r] = None]
    /\ promised' = [promised EXCEPT ![r] =
                       [t \in 1..Tables |-> IF t \in writer[w].edit THEN tables[t] ELSE @[t]]]
    /\ writer' = [writer EXCEPT ![w] = NoEdit]
    /\ UNCHANGED <<dbVars, due, load, faults>>

\* provider.invalidate() waits for the store's lock, then the API answers.
invalidate(w) ==
    LET r == writer[w].via IN
    /\ writer[w].pc = "invalidate"
    /\ load[r].at = 0
    /\ snapshot' = [snapshot EXCEPT ![r] = None]
    /\ current' = [current EXCEPT ![r] = None]
    /\ promised' = [promised EXCEPT ![r] =
                       [t \in 1..Tables |-> IF t \in writer[w].edit THEN tables[t] ELSE @[t]]]
    /\ writer' = [writer EXCEPT ![w] = NoEdit]
    /\ UNCHANGED <<dbVars, due, load, faults>>

-----------------------------------------------------------------------------
(* A read, by whichever request or loop of the replica comes first.        *)

\* The poll interval has passed since _checked_at.
PollDue(r) ==
    /\ snapshot[r] # None /\ ~ due[r] /\ load[r].at = 0
    /\ due' = [due EXCEPT ![r] = TRUE]
    /\ UNCHANGED <<dbVars, writer, snapshot, current, load, promised, faults>>

\* provider.current(): rebuilt when the generation differs.
Applied(r, s) ==
    IF current[r] # None /\ current[r].generation = s.generation THEN current[r] ELSE s

\* Defect: a snapshot once loaded is never compared again.
UpToDateOnceLoaded(r) == snapshot[r] # None

\* The snapshot carries the generation the database has.
UpToDate(r) == snapshot[r] # None /\ snapshot[r].generation = generation

\* Under the lock, the generation is read; the same one keeps the snapshot.
current_generation(r) ==
    /\ load[r].at = 0
    /\ snapshot[r] = None \/ due[r]
    /\ due' = [due EXCEPT ![r] = FALSE]
    /\ \/ /\ UpToDate(r)
          /\ current' = [current EXCEPT ![r] = Applied(r, snapshot[r])]
          /\ UNCHANGED load
       \/ /\ ~ UpToDate(r)
          /\ load' = [load EXCEPT ![r] = [NoLoad EXCEPT !.at = 1, !.generation = generation]]
          /\ UNCHANGED current
    /\ UNCHANGED <<dbVars, writer, snapshot, promised, faults>>

\* What the load under way on r has read once table t is read too.
Read(r) == [load[r].data EXCEPT ![load[r].at] = tables[load[r].at]]

\* Defect: the snapshot takes the generation of the moment it is complete.
SelectLabelsLate(r) ==
    /\ load[r].at # 0
    /\ IF load[r].at < Tables
       THEN /\ load' = [load EXCEPT ![r].data = Read(r), ![r].at = @ + 1]
            /\ UNCHANGED <<snapshot, current>>
       ELSE LET s == [generation |-> generation, data |-> Read(r)] IN
            /\ snapshot' = [snapshot EXCEPT ![r] = s]
            /\ current' = [current EXCEPT ![r] = Applied(r, s)]
            /\ load' = [load EXCEPT ![r] = NoLoad]
    /\ UNCHANGED <<dbVars, writer, due, promised, faults>>

\* One SELECT of _load; the last one makes the snapshot, under the
\* generation read before the first.
Select(r) ==
    /\ load[r].at # 0
    /\ IF load[r].at < Tables
       THEN /\ load' = [load EXCEPT ![r].data = Read(r), ![r].at = @ + 1]
            /\ UNCHANGED <<snapshot, current>>
       ELSE LET s == [generation |-> load[r].generation, data |-> Read(r)] IN
            /\ snapshot' = [snapshot EXCEPT ![r] = s]
            /\ current' = [current EXCEPT ![r] = Applied(r, s)]
            /\ load' = [load EXCEPT ![r] = NoLoad]
    /\ UNCHANGED <<dbVars, writer, due, promised, faults>>

\* A SELECT fails: the request fails, the old snapshot stays until the next
\* poll.
LoadFails(r) ==
    /\ load[r].at # 0
    /\ faults < MaxFaults /\ faults' = faults + 1
    /\ load' = [load EXCEPT ![r] = NoLoad]
    /\ UNCHANGED <<dbVars, writer, snapshot, current, due, promised>>

-----------------------------------------------------------------------------
ReadStep(r) == current_generation(r) \/ Select(r) \/ LoadFails(r)

WriteStep(w) ==
    \/ \E via \in Replicas \union {NoReplica}, edit \in SUBSET (1..Tables) \ {{}} :
          BeginWrite(w, via, edit)
    \/ CommitWrite(w) \/ WriteRejected(w) \/ invalidate(w)

Next ==
    \/ \E w \in Writers : WriteStep(w)
    \/ \E r \in Replicas : PollDue(r) \/ ReadStep(r)

Spec == Init /\ [][Next]_vars

\* Time passes, requests keep arriving at every replica, and the database
\* answers; nobody has to write.
FairSpec == Spec /\ \A r \in Replicas : WF_vars(PollDue(r)) /\ WF_vars(ReadStep(r))

-----------------------------------------------------------------------------
(* Properties.                                                             *)

AtLeast(a, b) == \A t \in 1..Tables : a[t] >= b[t]

\* What the admin API has reported as written, its own replica serves from
\* then on: a load that began before the write cannot come back after it.
ReadYourWrites ==
    \A r \in Replicas : current[r] # None => AtLeast(current[r].data, promised[r])

\* With one writer at a time a copy is never older than its generation says,
\* however the load interleaves with commits; else the poll, which compares
\* generations only, would keep it for ever.
CopyMatchesGeneration ==
    \A r \in Replicas : current[r] # None =>
        AtLeast(current[r].data, history[current[r].generation])

\* With one writer at a time a copy put together from two configurations, by
\* a commit between two SELECTs, carries a superseded generation: the next
\* poll replaces it.
TornIsReloaded ==
    \A r \in Replicas : current[r] # None /\ current[r].generation = generation =>
        \E i \in DOMAIN history : current[r].data = history[i]

\* With one writer at a time every replica ends up with the committed
\* configuration once the edits stop.
Converges ==
    \A r \in Replicas :
        <>[](current[r] # None /\ current[r].data = tables)

\* "an administrative edit reaches every replica within one poll interval":
\* a committed edit is served everywhere, sooner or later.
EditReachesReplicas ==
    \A r \in Replicas, t \in 1..Tables, v \in 1..MaxWrites :
        tables[t] = v ~> current[r] # None /\ current[r].data[t] >= v
=============================================================================
