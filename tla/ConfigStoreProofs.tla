-------------------------- MODULE ConfigStoreProofs --------------------------
(***************************************************************************)
(* Proofs about ConfigStore and about ModelRouting, which is built on it,  *)
(* for any replicas, writers, tables, settings and requests.               *)
(***************************************************************************)
EXTENDS ModelRouting, TLAPS

USE ConfigStoreAssumption, NoneAssumption

-----------------------------------------------------------------------------
(* Types.  Generations and versions stay in their range because each is at *)
(* most the number of commits.                                             *)

WriterStates == [pc : {"idle", "open", "invalidate"}, via : Replicas \union {NoReplica},
                 edit : SUBSET (1..Tables), seen : Generations]
LoadStates == [at : 0..Tables, generation : Generations, data : Versions]

DbType ==
    /\ generation \in Generations /\ tables \in Versions /\ history \in Seq(Versions)
    /\ Len(history) \in 1..(MaxWrites + 1)
WriterType == writer \in [Writers -> WriterStates]
CacheType ==
    /\ snapshot \in [Replicas -> Snapshots \union {None}]
    /\ current \in [Replicas -> Snapshots \union {None}]
    /\ due \in [Replicas -> BOOLEAN]
    /\ load \in [Replicas -> LoadStates]
RestType == promised \in [Replicas -> Versions] /\ faults \in 0..MaxFaults

\* Nothing counts more commits than there were.
Counted ==
    /\ generation <= Len(history)
    /\ \A w \in Writers : writer[w].seen <= Len(history)
    /\ \A t \in 1..Tables : tables[t] < Len(history)

\* A write that has a copy to drop came through a replica.
DropsSomewhere == \A w \in Writers : writer[w].pc = "invalidate" => writer[w].via \in Replicas

TypeInv == DbType /\ WriterType /\ CacheType /\ RestType /\ Counted /\ DropsSomewhere

\* TypeInv contains TypeOK.
LEMMA TypeImplied == TypeInv => TypeOK
BY DEF TypeInv, TypeOK, DbType, WriterType, CacheType, RestType, WriterStates, LoadStates

\* The states a writer and a load start from.
LEMMA IdleTypes ==
    /\ NoEdit \in WriterStates /\ NoEdit.pc = "idle" /\ NoEdit.seen = 1
    /\ NoLoad \in LoadStates /\ NoLoad.at = 0
    /\ [t \in 1..Tables |-> 0] \in Versions
<1>1. [t \in 1..Tables |-> 0] \in Versions
  BY DEF Versions
<1>2. 1 \in Generations
  BY DEF Generations
<1> QED BY <1>1, <1>2 DEF NoEdit, NoLoad, WriterStates, LoadStates

\* A database with nothing configured, and no copy of it.
LEMMA TypeInit == Init => TypeInv
<1> SUFFICES ASSUME Init PROVE TypeInv
  OBVIOUS
<1>1. tables \in Versions /\ history = <<tables>> /\ generation = 1 /\ Len(history) = 1
      /\ \A t \in 1..Tables : tables[t] = 0
  BY IdleTypes DEF Init
<1>2. DbType
  BY <1>1 DEF DbType, Generations
<1>3. WriterType /\ CacheType /\ RestType
  BY IdleTypes DEF Init, WriterType, CacheType, RestType
<1>4. Counted /\ DropsSomewhere
  BY <1>1, IdleTypes DEF Init, Counted, DropsSomewhere
<1> QED BY <1>2, <1>3, <1>4 DEF TypeInv

\* What a commit leaves behind: one entry more, no table older, the counter
\* as read plus one.
LEMMA CommitDb ==
    ASSUME TypeInv, NEW w \in Writers, CommitWrite(w)
    PROVE  /\ DbType'
           /\ Len(history') = Len(history) + 1
           /\ \A i \in 1..Len(history) : history'[i] = history[i]
           /\ history'[Len(history')] = tables'
           /\ generation' = writer[w].seen + 1 /\ generation' \in Nat
           /\ \A t \in 1..Tables : /\ tables[t] \in Nat /\ tables'[t] \in Nat
                                    /\ tables[t] <= tables'[t] /\ tables'[t] <= tables[t] + 1
<1>1. /\ history \in Seq(Versions) /\ tables \in Versions /\ writer[w] \in WriterStates
      /\ \A t \in 1..Tables : tables[t] < Len(history)
      /\ writer[w].seen <= Len(history) /\ Len(history) <= MaxWrites /\ Len(history) \in Nat
  BY DEF TypeInv, DbType, WriterType, Counted, CommitWrite
<1>2. \A t \in 1..Tables : tables[t] \in Nat
  BY <1>1 DEF Versions
<1>3. tables' = [t \in 1..Tables |-> IF t \in writer[w].edit THEN tables[t] + 1 ELSE tables[t]]
      /\ history' = Append(history, tables') /\ generation' = writer[w].seen + 1
  BY DEF CommitWrite
<1>4. \A t \in 1..Tables : tables[t] <= tables'[t] /\ tables'[t] <= tables[t] + 1
                           /\ tables'[t] \in 0..MaxWrites
  BY <1>1, <1>2, <1>3
<1>5. tables' \in Versions
  BY <1>3, <1>4 DEF Versions
<1>6. /\ history' \in Seq(Versions) /\ Len(history') = Len(history) + 1
      /\ \A i \in 1..Len(history) : history'[i] = history[i]
      /\ history'[Len(history) + 1] = tables'
  BY <1>1, <1>3, <1>5
<1>7. writer[w].seen \in 1..(MaxWrites + 1)
  BY <1>1 DEF WriterStates, Generations
<1>8. generation' \in Generations
  BY <1>1, <1>3, <1>7 DEF Generations
<1>9. DbType'
  BY <1>1, <1>5, <1>6, <1>8 DEF DbType
<1>10. generation' \in Nat
  BY <1>3, <1>7
<1> QED BY <1>2, <1>3, <1>4, <1>6, <1>9, <1>10

\* What a load has read, one table further.
LEMMA ReadType ==
    ASSUME DbType, CacheType, NEW r \in Replicas, load[r].at # 0
    PROVE  /\ Read(r) \in Versions /\ load[r].at \in 1..Tables
           /\ Read(r)[load[r].at] = tables[load[r].at]
           /\ \A t \in 1..Tables \ {load[r].at} : Read(r)[t] = load[r].data[t]
<1>1. load[r] \in LoadStates /\ tables \in Versions
  BY DEF DbType, CacheType
<1>2. load[r].at \in 1..Tables /\ load[r].data \in Versions
  BY <1>1 DEF LoadStates
<1> QED BY <1>1, <1>2 DEF Read, Versions

\* A SELECT extends the load, or completes it under the generation read first.
LEMMA SelectStep ==
    ASSUME DbType, CacheType, NEW r \in Replicas, Select(r)
    PROVE  /\ CacheType' /\ load[r].at # 0
           /\ \A q \in Replicas \ {r} :
                 load'[q] = load[q] /\ snapshot'[q] = snapshot[q] /\ current'[q] = current[q]
           /\ \/ /\ load[r].at < Tables /\ UNCHANGED <<snapshot, current>>
                 /\ load'[r].at = load[r].at + 1 /\ load'[r].generation = load[r].generation
                 /\ load'[r].data = Read(r)
              \/ /\ load[r].at = Tables /\ load'[r].at = 0
                 /\ \E s \in Snapshots :
                       /\ s.generation = load[r].generation /\ s.data = Read(r)
                       /\ snapshot'[r] = s /\ current'[r] = Applied(r, s)
<1>0. load[r].at # 0 /\ load[r] \in LoadStates
  BY DEF Select, CacheType
<1>1. Read(r) \in Versions /\ load[r].at \in 1..Tables
  BY <1>0, ReadType
<1>2. CASE load[r].at < Tables
  <2>1. load' = [load EXCEPT ![r] = [load[r] EXCEPT !.data = Read(r), !.at = load[r].at + 1]]
        /\ UNCHANGED <<snapshot, current, due>>
    BY <1>2 DEF Select, CacheType, LoadStates
  <2>2. [load[r] EXCEPT !.data = Read(r), !.at = load[r].at + 1] \in LoadStates
    <3>1. load[r].at + 1 \in 0..Tables
      BY <1>1, <1>2
    <3> QED BY <1>0, <1>1, <3>1 DEF LoadStates
  <2>3. CacheType'
    BY <2>1, <2>2 DEF CacheType
  <2> QED BY <1>0, <1>2, <2>1, <2>3 DEF CacheType, LoadStates
<1>3. CASE ~ (load[r].at < Tables)
  <2> DEFINE s == [generation |-> load[r].generation, data |-> Read(r)]
  <2>1. s \in Snapshots
    BY <1>0, <1>1 DEF Snapshots, LoadStates
  <2>2. s.generation = load[r].generation /\ s.data = Read(r)
    OBVIOUS
  <2>3. /\ snapshot' = [snapshot EXCEPT ![r] = s]
        /\ current' = [current EXCEPT ![r] = Applied(r, s)]
        /\ load' = [load EXCEPT ![r] = NoLoad] /\ UNCHANGED due
    BY <1>3 DEF Select
  <2> HIDE DEF s
  <2>4. Applied(r, s) \in Snapshots \union {None}
    BY <2>1 DEF Applied, CacheType
  <2>5. CacheType'
    BY <2>1, <2>3, <2>4, IdleTypes DEF CacheType
  <2>6. load[r].at = Tables
    BY <1>1, <1>3
  <2> QED BY <1>0, <2>1, <2>2, <2>3, <2>5, <2>6, IdleTypes DEF CacheType
<1> QED BY <1>2, <1>3

\* Checking the generation keeps the copy, or starts a load that has read
\* nothing but the generation.
LEMMA GenerationStep ==
    ASSUME DbType, CacheType, NEW r \in Replicas, current_generation(r)
    PROVE  /\ CacheType' /\ UNCHANGED snapshot
           /\ \A q \in Replicas \ {r} : load'[q] = load[q] /\ current'[q] = current[q]
           /\ load[r].at = 0
           /\ \/ /\ snapshot[r] # None /\ snapshot[r].generation = generation
                 /\ load' = load /\ current'[r] = Applied(r, snapshot[r])
              \/ /\ load'[r].at = 1 /\ load'[r].generation = generation /\ current' = current
<1>1. /\ due' = [due EXCEPT ![r] = FALSE] /\ UNCHANGED snapshot /\ load[r].at = 0
      /\ due' \in [Replicas -> BOOLEAN]
  BY DEF current_generation, CacheType
<1>2. CASE /\ UpToDate(r) /\ UNCHANGED load
           /\ current' = [current EXCEPT ![r] = Applied(r, snapshot[r])]
  <2>1. Applied(r, snapshot[r]) \in Snapshots \union {None}
    BY DEF Applied, CacheType
  <2> QED BY <1>1, <1>2, <2>1 DEF UpToDate, CacheType
<1>3. CASE /\ UNCHANGED current
           /\ load' = [load EXCEPT ![r] = [NoLoad EXCEPT !.at = 1, !.generation = generation]]
  <2> DEFINE l == [NoLoad EXCEPT !.at = 1, !.generation = generation]
  <2>1. l \in LoadStates /\ l.at = 1 /\ l.generation = generation
    <3>1. 1 \in 0..Tables
      OBVIOUS
    <3> QED BY <3>1, IdleTypes DEF LoadStates, DbType
  <2> HIDE DEF l
  <2>2. load' = [load EXCEPT ![r] = l]
    BY <1>3 DEF l
  <2> QED BY <1>1, <1>3, <2>1, <2>2 DEF CacheType
<1> QED BY <1>2, <1>3 DEF current_generation

\* Every step of a writer or a replica keeps the store well typed.
LEMMA TypeNext == TypeInv /\ [Next]_vars => TypeInv'
<1> SUFFICES ASSUME TypeInv, [Next]_vars PROVE TypeInv'
  OBVIOUS
<1> USE DEF TypeInv, dbVars, cacheVars
<1>a. ASSUME UNCHANGED <<dbVars, writer>> PROVE DbType' /\ WriterType' /\ Counted' /\ DropsSomewhere'
  BY <1>a DEF DbType, WriterType, Counted, DropsSomewhere
<1>b. ASSUME UNCHANGED cacheVars PROVE CacheType'
  BY <1>b DEF CacheType
<1>c. ASSUME UNCHANGED <<promised, faults>> PROVE RestType'
  BY <1>c DEF RestType
<1>d. ASSUME NEW w \in Writers, NEW s \in WriterStates, writer' = [writer EXCEPT ![w] = s],
             s.seen <= Len(history), s.pc = "invalidate" => s.via \in Replicas, UNCHANGED dbVars
      PROVE  DbType' /\ WriterType' /\ Counted' /\ DropsSomewhere'
  BY <1>d DEF DbType, WriterType, Counted, DropsSomewhere
<1>0. generation \in 1..(MaxWrites + 1) /\ Len(history) \in 1..(MaxWrites + 1)
  BY DEF DbType, Generations
<1>e. ASSUME NEW w \in Writers, writer' = [writer EXCEPT ![w] = NoEdit], UNCHANGED dbVars
      PROVE  DbType' /\ WriterType' /\ Counted' /\ DropsSomewhere'
  <2>1. NoEdit.seen <= Len(history) /\ NoEdit.pc # "invalidate" /\ NoEdit \in WriterStates
    BY <1>0, IdleTypes
  <2> QED BY <1>d, <1>e, <2>1
<1>1. ASSUME NEW w \in Writers, NEW via \in Replicas \union {NoReplica},
             NEW edit \in SUBSET (1..Tables) \ {{}}, BeginWrite(w, via, edit)
      PROVE  TypeInv'
  <2> DEFINE s == [pc |-> "open", via |-> via, edit |-> edit, seen |-> generation]
  <2>1. s \in WriterStates /\ s.pc = "open" /\ s.seen = generation
    BY DEF WriterStates, DbType
  <2>2. generation <= Len(history)
    BY DEF Counted
  <2> HIDE DEF s
  <2>3. writer' = [writer EXCEPT ![w] = s] /\ UNCHANGED <<dbVars, cacheVars, promised, faults>>
    BY <1>1 DEF BeginWrite, s
  <2> QED BY <1>b, <1>c, <1>d, <2>1, <2>2, <2>3
<1>2. ASSUME NEW w \in Writers, CommitWrite(w) PROVE TypeInv'
  <2>1. PICK s \in WriterStates :
            /\ writer' = [writer EXCEPT ![w] = s] /\ s.seen \in {1, writer[w].seen}
            /\ s.pc = "invalidate" => s.via \in Replicas
    <3>1. CASE writer' = [writer EXCEPT ![w] = NoEdit]
      BY <3>1, IdleTypes
    <3>2. CASE writer[w].via # NoReplica /\ writer' = [writer EXCEPT ![w] = [@ EXCEPT !.pc = "invalidate"]]
      <4> DEFINE s == [writer[w] EXCEPT !.pc = "invalidate"]
      <4>1. s \in WriterStates /\ s.seen = writer[w].seen /\ s.via \in Replicas
        BY <3>2 DEF WriterType, WriterStates
      <4>2. writer' = [writer EXCEPT ![w] = s]
        BY <3>2 DEF WriterType
      <4> QED BY <4>1, <4>2
    <3> QED BY <1>2, <3>1, <3>2 DEF CommitWrite
  <2>2. writer[w].seen <= Len(history) /\ writer[w].seen \in Nat
    BY DEF Counted, WriterType, WriterStates, Generations
  <2>3. WriterType' /\ DropsSomewhere'
    BY <2>1 DEF WriterType, DropsSomewhere
  <2>4. \A v \in Writers : writer'[v].seen \in Nat /\ writer'[v].seen <= Len(history)
    BY <1>0, <2>1, <2>2 DEF Counted, WriterType, WriterStates, Generations
  <2>5. \A t \in 1..Tables : tables[t] \in Nat /\ tables'[t] \in Nat
    BY <1>2, CommitDb
  <2>6. Counted'
    <3>1. Len(history') = Len(history) + 1 /\ generation' = writer[w].seen + 1
          /\ \A t \in 1..Tables : tables'[t] <= tables[t] + 1
      BY <1>2, CommitDb
    <3>2. \A t \in 1..Tables : tables[t] < Len(history)
      BY DEF Counted
    <3>3. generation' <= Len(history')
      BY <1>0, <2>2, <3>1
    <3>4. \A v \in Writers : writer'[v].seen <= Len(history')
      BY <1>0, <2>4, <3>1
    <3>5. \A t \in 1..Tables : tables'[t] < Len(history')
      BY <1>0, <2>5, <3>1, <3>2
    <3> QED BY <3>3, <3>4, <3>5 DEF Counted
  <2> QED BY <1>2, <1>b, <1>c, <2>3, <2>6, CommitDb DEF CommitWrite
<1>3. ASSUME NEW w \in Writers, WriteRejected(w) PROVE TypeInv'
  BY <1>3, <1>b, <1>c, <1>e DEF WriteRejected
<1>4. ASSUME NEW w \in Writers, invalidate(w) PROVE TypeInv'
  <2>1. PICK r \in Replicas : r = writer[w].via
    BY <1>4 DEF invalidate, DropsSomewhere
  <2>2. CacheType'
    BY <1>4, <2>1 DEF invalidate, CacheType
  <2>3. RestType'
    <3> DEFINE v == [t \in 1..Tables |-> IF t \in writer[w].edit THEN tables[t] ELSE promised[r][t]]
    <3>1. v \in Versions
      BY DEF Versions, DbType, RestType
    <3>2. promised' = [promised EXCEPT ![r] = v]
      BY <1>4, <2>1 DEF invalidate, RestType
    <3> HIDE DEF v
    <3> QED BY <1>4, <3>1, <3>2 DEF invalidate, RestType
  <2>4. DbType' /\ WriterType' /\ Counted' /\ DropsSomewhere'
    BY <1>4, <1>e DEF invalidate
  <2> QED BY <2>2, <2>3, <2>4
<1>5. ASSUME NEW r \in Replicas, PollDue(r) PROVE TypeInv'
  BY <1>5, <1>a, <1>c DEF PollDue, CacheType
<1>6. ASSUME NEW r \in Replicas, current_generation(r) PROVE TypeInv'
  BY <1>6, <1>a, <1>c, GenerationStep DEF current_generation
<1>7. ASSUME NEW r \in Replicas, Select(r) PROVE TypeInv'
  BY <1>7, <1>a, <1>c, SelectStep DEF Select
<1>8. ASSUME NEW r \in Replicas, LoadFails(r) PROVE TypeInv'
  <2>1. CacheType'
    BY <1>8, IdleTypes DEF LoadFails, CacheType
  <2>2. RestType'
    BY <1>8 DEF LoadFails, RestType
  <2> QED BY <1>8, <1>a, <2>1, <2>2 DEF LoadFails
<1>9. CASE UNCHANGED vars
  BY <1>9, <1>a, <1>b, <1>c DEF vars
<1> QED
  BY <1>1, <1>2, <1>3, <1>4, <1>5, <1>6, <1>7, <1>8, <1>9 DEF Next, WriteStep, ReadStep

-----------------------------------------------------------------------------
(* A copy is not older than it may be.  Whatever a replica holds, whole or *)
(* half read, is at least as new as what it promised and as the            *)
(* configuration its generation stands for; both only matter because a     *)
(* table never goes back and a promise is made with no copy and no load.   *)

\* The part of a load that is read: the tables before `at`.
Loaded(r) == {t \in 1..Tables : t < load[r].at}

HistoryBelow == \A i \in 1..Len(history) : AtLeast(tables, history[i])

PromiseKept ==
    \A r \in Replicas :
        /\ AtLeast(tables, promised[r])
        /\ snapshot[r] # None => AtLeast(snapshot[r].data, promised[r])
        /\ current[r] # None => AtLeast(current[r].data, promised[r])
        /\ \A t \in Loaded(r) : load[r].data[t] >= promised[r][t]

LabelKept ==
    \A r \in Replicas :
        /\ snapshot[r] # None => /\ snapshot[r].generation \in 1..Len(history)
                                 /\ AtLeast(snapshot[r].data, history[snapshot[r].generation])
        /\ current[r] # None => /\ current[r].generation \in 1..Len(history)
                                /\ AtLeast(current[r].data, history[current[r].generation])
        /\ load[r].at # 0 => /\ load[r].generation \in 1..Len(history)
                             /\ \A t \in Loaded(r) :
                                   load[r].data[t] >= history[load[r].generation][t]

CopyInv == HistoryBelow /\ PromiseKept /\ LabelKept

\* No copy, nothing promised.
LEMMA CopyInit == Init => CopyInv
<1> SUFFICES ASSUME Init PROVE CopyInv
  OBVIOUS
<1>1. /\ history = <<tables>> /\ tables = [t \in 1..Tables |-> 0]
      /\ \A r \in Replicas : /\ snapshot[r] = None /\ current[r] = None /\ load[r].at = 0
                             /\ promised[r] = [t \in 1..Tables |-> 0]
  BY IdleTypes DEF Init
<1>2. HistoryBelow
  BY <1>1 DEF HistoryBelow, AtLeast
<1>3. PromiseKept
  <2>0. \A t \in 1..Tables : ~ (t < 0)
    OBVIOUS
  <2>1. \A r \in Replicas : Loaded(r) = {}
    BY <1>1, <2>0 DEF Loaded
  <2>2. \A r \in Replicas : AtLeast(tables, promised[r])
    BY <1>1 DEF AtLeast
  <2> QED BY <1>1, <2>1, <2>2 DEF PromiseKept
<1>4. LabelKept
  BY <1>1 DEF LabelKept
<1> QED BY <1>2, <1>3, <1>4 DEF CopyInv

\* Versions are numbers.
LEMMA Numbers ==
    ASSUME TypeInv
    PROVE  /\ \A t \in 1..Tables : tables[t] \in Nat
           /\ \A i \in 1..Len(history), t \in 1..Tables : history[i][t] \in Nat
           /\ \A r \in Replicas, t \in 1..Tables :
                 promised[r][t] \in Nat /\ load[r].data[t] \in Nat
           /\ \A s \in Snapshots, t \in 1..Tables : s.data[t] \in Nat
           /\ generation \in 1..Len(history) /\ Len(history) \in Nat
<1>1. /\ tables \in Versions /\ \A i \in 1..Len(history) : history[i] \in Versions
      /\ \A r \in Replicas : promised[r] \in Versions /\ load[r] \in LoadStates
  BY DEF TypeInv, DbType, RestType, CacheType
<1>2. /\ \A r \in Replicas : load[r].data \in Versions
      /\ \A s \in Snapshots : s.data \in Versions
  BY <1>1 DEF LoadStates, Snapshots
<1>3. generation \in 1..Len(history) /\ Len(history) \in Nat
  BY DEF TypeInv, DbType, Counted, Generations
<1>4. \A v \in Versions, t \in 1..Tables : v[t] \in Nat
  BY DEF Versions
<1> QED BY <1>1, <1>2, <1>3, <1>4

\* A copy that is kept or forgotten stays as good as it was, as long as
\* nothing new is promised.
LEMMA CopiesKept ==
    ASSUME TypeInv, CopyInv, UNCHANGED <<dbVars, promised>>,
           \A r \in Replicas :
               /\ snapshot'[r] \in {snapshot[r], None}
               /\ current'[r] \in {current[r], snapshot[r], None}
               /\ load'[r] = load[r] \/ load'[r].at = 0
    PROVE  CopyInv'
<1> USE DEF CopyInv, dbVars
<1>1. HistoryBelow'
  BY DEF HistoryBelow, AtLeast
<1>2. \A r \in Replicas : Loaded(r)' \subseteq Loaded(r) /\ (Loaded(r)' # {} => load'[r] = load[r])
  BY DEF Loaded
<1>3. PromiseKept'
  BY <1>2 DEF PromiseKept, AtLeast
<1>4. LabelKept'
  BY <1>2 DEF LabelKept, AtLeast
<1> QED BY <1>1, <1>3, <1>4

\* A commit takes nothing back.
LEMMA CommitKeepsCopies ==
    ASSUME TypeInv, CopyInv, NEW w \in Writers, CommitWrite(w)
    PROVE  CopyInv'
<1> USE DEF CopyInv
<1>1. /\ \A t \in 1..Tables : tables[t] \in Nat /\ tables'[t] \in Nat /\ tables[t] <= tables'[t]
      /\ Len(history') = Len(history) + 1 /\ Len(history) \in Nat
      /\ \A i \in 1..Len(history) : history'[i] = history[i]
      /\ history'[Len(history')] = tables'
  BY CommitDb, Numbers
<1>2. UNCHANGED <<cacheVars, promised>>
  BY DEF CommitWrite
<1>3. HistoryBelow'
  <2> SUFFICES ASSUME NEW i \in 1..Len(history'), NEW t \in 1..Tables
               PROVE  tables'[t] >= history'[i][t]
    BY DEF HistoryBelow, AtLeast
  <2>1. CASE i = Len(history')
    BY <1>1, <2>1
  <2>2. CASE i # Len(history')
    <3>1. i \in 1..Len(history) /\ history'[i] = history[i]
      BY <1>1, <2>2
    <3>2. tables[t] >= history[i][t] /\ history[i][t] \in Nat
      BY <3>1, Numbers DEF HistoryBelow, AtLeast
    <3> QED BY <1>1, <3>1, <3>2
  <2> QED BY <2>1, <2>2
<1>4. \A r \in Replicas : AtLeast(tables, promised[r])'
  <2> SUFFICES ASSUME NEW r \in Replicas, NEW t \in 1..Tables PROVE tables'[t] >= promised[r][t]
    BY <1>2 DEF AtLeast
  <2>1. tables[t] >= promised[r][t] /\ promised[r][t] \in Nat
    BY Numbers DEF PromiseKept, AtLeast
  <2> QED BY <1>1, <2>1
<1>5. PromiseKept'
  BY <1>2, <1>4 DEF PromiseKept, AtLeast, Loaded, cacheVars
<1>6. \A i \in 1..Len(history) : i \in 1..Len(history') /\ history'[i] = history[i]
  BY <1>1
<1>7. LabelKept'
  BY <1>2, <1>6 DEF LabelKept, AtLeast, Loaded, cacheVars
<1> QED BY <1>3, <1>5, <1>7

\* What the API promises is in the tables, and the replica has no copy of
\* anything older: it would have waited for a load under way.
LEMMA InvalidateKeepsCopies ==
    ASSUME TypeInv, CopyInv, NEW w \in Writers, invalidate(w)
    PROVE  CopyInv'
<1> USE DEF CopyInv
<1>1. PICK r \in Replicas : r = writer[w].via
  BY DEF invalidate, TypeInv, DropsSomewhere
<1>2. /\ load[r].at = 0 /\ UNCHANGED <<dbVars, load>>
      /\ snapshot' = [snapshot EXCEPT ![r] = None] /\ current' = [current EXCEPT ![r] = None]
      /\ promised' = [promised EXCEPT ![r] =
             [t \in 1..Tables |-> IF t \in writer[w].edit THEN tables[t] ELSE @[t]]]
  BY <1>1 DEF invalidate
<1>3. /\ snapshot'[r] = None /\ current'[r] = None
      /\ \A q \in Replicas \ {r} : /\ snapshot'[q] = snapshot[q] /\ current'[q] = current[q]
                                   /\ promised'[q] = promised[q]
  BY <1>2 DEF TypeInv, CacheType, RestType
<1>4. \A t \in 1..Tables : promised'[r][t] \in {tables[t], promised[r][t]}
  BY <1>2 DEF TypeInv, RestType
<1>5. AtLeast(tables, promised'[r])
  BY <1>4, Numbers DEF PromiseKept, AtLeast
<1>6. Loaded(r) = {} /\ \A q \in Replicas : Loaded(q)' = Loaded(q)
  BY <1>2 DEF Loaded
<1>7. UNCHANGED <<tables, history>>
  BY <1>2 DEF dbVars
<1>8. \A q \in Replicas : AtLeast(tables, promised'[q])
  BY <1>3, <1>5 DEF PromiseKept
<1>9. PromiseKept'
  <2> SUFFICES ASSUME NEW q \in Replicas
               PROVE  /\ AtLeast(tables', promised'[q])
                      /\ snapshot'[q] # None => AtLeast(snapshot'[q].data, promised'[q])
                      /\ current'[q] # None => AtLeast(current'[q].data, promised'[q])
                      /\ \A t \in Loaded(q)' : load'[q].data[t] >= promised'[q][t]
    BY DEF PromiseKept, AtLeast
  <2>1. CASE q = r
    BY <1>2, <1>3, <1>5, <1>6, <1>7, <2>1
  <2>2. CASE q # r
    BY <1>2, <1>3, <1>6, <1>7, <1>8, <2>2 DEF PromiseKept
  <2> QED BY <2>1, <2>2
<1>10. LabelKept'
  BY <1>2, <1>3, <1>6, <1>7 DEF LabelKept, AtLeast
<1>11. HistoryBelow'
  BY <1>7 DEF HistoryBelow, AtLeast
<1> QED BY <1>9, <1>10, <1>11

\* A load that begins has read nothing, under a generation there has been.
LEMMA GenerationKeepsCopies ==
    ASSUME TypeInv, CopyInv, NEW r \in Replicas, current_generation(r)
    PROVE  CopyInv'
<1>0. DbType /\ CacheType /\ UNCHANGED <<dbVars, promised>>
  BY DEF TypeInv, current_generation
<1>1. CASE /\ snapshot[r] # None
           /\ load' = load /\ current'[r] = Applied(r, snapshot[r])
  <2>1. \A q \in Replicas : /\ snapshot'[q] = snapshot[q] /\ load'[q] = load[q]
                            /\ current'[q] \in {current[q], snapshot[q], None}
    BY <1>0, <1>1, GenerationStep DEF Applied
  <2> QED BY <1>0, <2>1, CopiesKept
<1>2. CASE load'[r].at = 1 /\ load'[r].generation = generation /\ current' = current
  <2>1. /\ UNCHANGED <<snapshot, current, tables, history, promised>>
        /\ \A q \in Replicas \ {r} : load'[q] = load[q]
    BY <1>0, <1>2, GenerationStep DEF dbVars
  <2>2. \A t \in 1..Tables : ~ (t < 1)
    OBVIOUS
  <2>3. Loaded(r)' = {} /\ \A q \in Replicas \ {r} : Loaded(q)' = Loaded(q)
    BY <1>2, <2>1, <2>2 DEF Loaded
  <2>4. generation \in 1..Len(history)
    BY Numbers
  <2>5. HistoryBelow'
    BY <2>1 DEF CopyInv, HistoryBelow, AtLeast
  <2>6. PromiseKept'
    BY <2>1, <2>3 DEF CopyInv, PromiseKept, AtLeast
  <2>7. LabelKept'
    BY <1>2, <2>1, <2>3, <2>4 DEF CopyInv, LabelKept, AtLeast
  <2> QED BY <2>5, <2>6, <2>7 DEF CopyInv
<1> QED BY <1>0, <1>1, <1>2, GenerationStep

\* What a load reads is at least what was promised and what its label says.
LEMMA SelectKeepsCopies ==
    ASSUME TypeInv, CopyInv, NEW r \in Replicas, Select(r)
    PROVE  CopyInv'
<1>0. DbType /\ CacheType /\ UNCHANGED <<tables, history, promised>> /\ load[r].at # 0
  BY DEF TypeInv, Select, dbVars
<1>1. load[r].at \in 1..Tables /\ load[r].generation \in 1..Len(history)
  BY <1>0, ReadType DEF CopyInv, LabelKept
<1>2. \A t \in 1..Tables : t <= load[r].at =>
          /\ Read(r)[t] >= promised[r][t]
          /\ Read(r)[t] >= history[load[r].generation][t]
  <2> SUFFICES ASSUME NEW t \in 1..Tables, t <= load[r].at
               PROVE  /\ Read(r)[t] >= promised[r][t]
                      /\ Read(r)[t] >= history[load[r].generation][t]
    OBVIOUS
  <2>1. CASE t = load[r].at
    BY <1>0, <1>1, <2>1, ReadType DEF CopyInv, PromiseKept, HistoryBelow, AtLeast
  <2>2. CASE t # load[r].at
    <3>1. t \in Loaded(r)
      BY <1>1, <2>2 DEF Loaded
    <3>2. Read(r)[t] = load[r].data[t]
      BY <1>0, <2>2, ReadType
    <3> QED BY <1>0, <3>1, <3>2 DEF CopyInv, PromiseKept, LabelKept
  <2> QED BY <2>1, <2>2
<1>3. \A q \in Replicas \ {r} :
          load'[q] = load[q] /\ snapshot'[q] = snapshot[q] /\ current'[q] = current[q]
  BY <1>0, SelectStep
<1>4. HistoryBelow'
  BY <1>0 DEF CopyInv, HistoryBelow, AtLeast
<1>5. \A q \in Replicas \ {r} : Loaded(q)' = Loaded(q)
  BY <1>3 DEF Loaded
<1>6. CASE /\ load[r].at < Tables /\ UNCHANGED <<snapshot, current>>
           /\ load'[r].at = load[r].at + 1 /\ load'[r].generation = load[r].generation
           /\ load'[r].data = Read(r)
  <2>1. \A t \in Loaded(r)' : t \in 1..Tables /\ t <= load[r].at
    BY <1>1, <1>6 DEF Loaded
  <2>2. PromiseKept'
    BY <1>0, <1>2, <1>3, <1>5, <1>6, <2>1 DEF CopyInv, PromiseKept, AtLeast
  <2>3. LabelKept'
    BY <1>0, <1>1, <1>2, <1>3, <1>5, <1>6, <2>1 DEF CopyInv, LabelKept, AtLeast
  <2> QED BY <1>4, <2>2, <2>3 DEF CopyInv
<1>7. ASSUME load[r].at = Tables, load'[r].at = 0, NEW s \in Snapshots,
             s.generation = load[r].generation, s.data = Read(r),
             snapshot'[r] = s, current'[r] = Applied(r, s)
      PROVE  CopyInv'
  <2>1. AtLeast(s.data, promised[r]) /\ AtLeast(s.data, history[s.generation])
    BY <1>2, <1>7 DEF AtLeast
  <2>2. current'[r] \in {current[r], s} /\ s # None
    BY <1>7 DEF Applied
  <2>3. \A t \in 1..Tables : ~ (t < 0)
    OBVIOUS
  <2>4. Loaded(r)' = {}
    BY <1>7, <2>3 DEF Loaded
  <2>5. PromiseKept'
    BY <1>0, <1>3, <1>5, <1>7, <2>1, <2>2, <2>4 DEF CopyInv, PromiseKept, AtLeast
  <2>6. LabelKept'
    <3> SUFFICES ASSUME NEW q \in Replicas
                 PROVE  /\ snapshot'[q] # None =>
                               /\ snapshot'[q].generation \in 1..Len(history)
                               /\ AtLeast(snapshot'[q].data, history[snapshot'[q].generation])
                        /\ current'[q] # None =>
                               /\ current'[q].generation \in 1..Len(history)
                               /\ AtLeast(current'[q].data, history[current'[q].generation])
                        /\ load'[q].at # 0 =>
                               /\ load'[q].generation \in 1..Len(history)
                               /\ \A t \in Loaded(q)' :
                                     load'[q].data[t] >= history[load'[q].generation][t]
      BY <1>0 DEF LabelKept, AtLeast
    <3>1. CASE q = r
      BY <1>1, <1>7, <2>1, <2>2, <3>1 DEF CopyInv, LabelKept
    <3>2. CASE q # r
      BY <1>3, <1>5, <3>2 DEF CopyInv, LabelKept
    <3> QED BY <3>1, <3>2
  <2> QED BY <1>4, <2>5, <2>6 DEF CopyInv
<1> QED BY <1>0, <1>6, <1>7, SelectStep

\* No step leaves a copy behind that is older than it may be.
LEMMA CopyNext == TypeInv /\ CopyInv /\ [Next]_vars => CopyInv'
<1> SUFFICES ASSUME TypeInv, CopyInv, [Next]_vars PROVE CopyInv'
  OBVIOUS
<1>1. CASE UNCHANGED <<dbVars, promised, snapshot, current, load>>
  BY <1>1, CopiesKept
<1>2. ASSUME NEW w \in Writers, WriteStep(w) PROVE CopyInv'
  BY <1>1, <1>2, CommitKeepsCopies, InvalidateKeepsCopies
     DEF WriteStep, BeginWrite, WriteRejected, cacheVars
<1>3. ASSUME NEW r \in Replicas, LoadFails(r) PROVE CopyInv'
  <2>1. \A q \in Replicas : load'[q] = load[q] \/ load'[q].at = 0
    BY <1>3, IdleTypes DEF LoadFails, TypeInv, CacheType
  <2> QED BY <1>3, <2>1, CopiesKept DEF LoadFails
<1>4. ASSUME NEW r \in Replicas, PollDue(r) \/ ReadStep(r) PROVE CopyInv'
  BY <1>1, <1>3, <1>4, GenerationKeepsCopies, SelectKeepsCopies DEF PollDue, ReadStep
<1> QED BY <1>1, <1>2, <1>4 DEF Next, vars, dbVars

\* What the admin API of a replica has reported as written, that replica
\* serves from then on: ConfigStore._lock makes the invalidation wait for a
\* load that began before it.
THEOREM StoreReadsItsWrites == Spec => []ReadYourWrites
<1>1. CopyInv => ReadYourWrites
  BY DEF CopyInv, PromiseKept, ReadYourWrites
<1> QED BY TypeInit, TypeNext, CopyInit, CopyNext, <1>1, PTL DEF Spec

\* A copy is never older than the generation it is kept under, because the
\* generation is read before the first table (ConfigStore._load).
THEOREM StoreLabelsItsCopies == Spec => []CopyMatchesGeneration
<1>1. CopyInv => CopyMatchesGeneration
  BY DEF CopyInv, LabelKept, CopyMatchesGeneration
<1> QED BY TypeInit, TypeNext, CopyInit, CopyNext, <1>1, PTL DEF Spec

-----------------------------------------------------------------------------
(* A torn copy carries a superseded generation, as long as transactions    *)
(* that bump the generation do not overlap: a commit gives the database a  *)
(* number no copy and no load has yet, so that what carries the latest     *)
(* number was read since the last commit.                                  *)

\* No two transactions that read the generation to bump it are open at once.
OneOpen ==
    \A v, w \in Writers : writer[v].pc = "open" /\ writer[w].pc = "open" => v = w

\* The counter counts the commits, and an open transaction has read it as it is.
CountsCommits ==
    /\ generation = Len(history) /\ history[Len(history)] = tables
    /\ \A w \in Writers : writer[w].pc = "open" => writer[w].seen = generation

\* A copy, whole or half read, under the latest number is the committed one.
LatestIsCommitted ==
    \A r \in Replicas :
        /\ snapshot[r] # None /\ snapshot[r].generation = generation => snapshot[r].data = tables
        /\ current[r] # None /\ current[r].generation = generation => current[r].data = tables
        /\ load[r].at # 0 /\ load[r].generation = generation =>
              \A t \in Loaded(r) : load[r].data[t] = tables[t]

FreshInv == CountsCommits /\ LatestIsCommitted

\* No copy, one generation.
LEMMA FreshInit == Init => FreshInv
<1> SUFFICES ASSUME Init PROVE FreshInv
  OBVIOUS
<1>1. CountsCommits
  <2>1. generation = 1 /\ history = <<tables>> /\ \A w \in Writers : writer[w].pc = "idle"
    BY IdleTypes DEF Init
  <2> QED BY <2>1 DEF CountsCommits
<1>2. LatestIsCommitted
  BY IdleTypes DEF Init, LatestIsCommitted
<1> QED BY <1>1, <1>2 DEF FreshInv

\* A commit takes the next number, which nothing carries yet.
LEMMA CommitKeepsFresh ==
    ASSUME TypeInv, CopyInv, FreshInv, OneOpen, NEW w \in Writers, CommitWrite(w)
    PROVE  FreshInv'
<1>1. writer[w].pc = "open" /\ writer[w].seen = generation /\ generation = Len(history)
  BY DEF CommitWrite, FreshInv, CountsCommits
<1>2. /\ Len(history') = Len(history) + 1 /\ Len(history) \in Nat
      /\ history'[Len(history')] = tables' /\ generation' = writer[w].seen + 1
  BY CommitDb, Numbers
<1>3. generation' = Len(history')
  BY <1>1, <1>2
<1>4. \A v \in Writers : writer'[v].pc # "open"
  <2> SUFFICES ASSUME NEW v \in Writers PROVE writer'[v].pc # "open"
    OBVIOUS
  <2>1. CASE v = w
    <3>1. writer'[w] \in {NoEdit, [writer[w] EXCEPT !.pc = "invalidate"]}
      BY DEF CommitWrite, TypeInv, WriterType
    <3>2. [writer[w] EXCEPT !.pc = "invalidate"].pc = "invalidate"
      BY DEF TypeInv, WriterType, WriterStates
    <3> QED BY <2>1, <3>1, <3>2, IdleTypes
  <2>2. CASE v # w
    BY <1>1, <2>2 DEF CommitWrite, OneOpen, TypeInv, WriterType
  <2> QED BY <2>1, <2>2
<1>5. CountsCommits'
  BY <1>2, <1>3, <1>4 DEF CountsCommits
<1>6. generation' \notin 1..Len(history) /\ UNCHANGED cacheVars
  BY <1>1, <1>2 DEF CommitWrite
<1>7. LatestIsCommitted'
  BY <1>6 DEF cacheVars, LatestIsCommitted, CopyInv, LabelKept
<1> QED BY <1>5, <1>7 DEF FreshInv

\* A SELECT reads what is committed.
LEMMA SelectKeepsFresh ==
    ASSUME TypeInv, CopyInv, FreshInv, NEW r \in Replicas, Select(r)
    PROVE  LatestIsCommitted'
<1>0. DbType /\ CacheType /\ UNCHANGED <<tables, generation>> /\ load[r].at # 0
  BY DEF TypeInv, Select, dbVars
<1>1. load[r].at \in 1..Tables
  BY <1>0, ReadType
<1>2. load[r].generation = generation =>
          \A t \in 1..Tables : t <= load[r].at => Read(r)[t] = tables[t]
  <2> SUFFICES ASSUME load[r].generation = generation, NEW t \in 1..Tables, t <= load[r].at
               PROVE  Read(r)[t] = tables[t]
    OBVIOUS
  <2>1. CASE t = load[r].at
    BY <1>0, <2>1, ReadType
  <2>2. CASE t # load[r].at
    <3>1. t \in Loaded(r)
      BY <1>1, <2>2 DEF Loaded
    <3> QED BY <1>0, <2>2, <3>1, ReadType DEF FreshInv, LatestIsCommitted
  <2> QED BY <2>1, <2>2
<1>3. \A q \in Replicas \ {r} :
          load'[q] = load[q] /\ snapshot'[q] = snapshot[q] /\ current'[q] = current[q]
  BY <1>0, SelectStep
<1>4. \A q \in Replicas \ {r} : Loaded(q)' = Loaded(q)
  BY <1>3 DEF Loaded
<1>5. CASE /\ load[r].at < Tables /\ UNCHANGED <<snapshot, current>>
           /\ load'[r].at = load[r].at + 1 /\ load'[r].generation = load[r].generation
           /\ load'[r].data = Read(r)
  <2>1. \A t \in Loaded(r)' : t \in 1..Tables /\ t <= load[r].at
    BY <1>1, <1>5 DEF Loaded
  <2> QED BY <1>0, <1>2, <1>3, <1>4, <1>5, <2>1 DEF FreshInv, LatestIsCommitted
<1>6. ASSUME load[r].at = Tables, load'[r].at = 0, NEW s \in Snapshots,
             s.generation = load[r].generation, s.data = Read(r),
             snapshot'[r] = s, current'[r] = Applied(r, s)
      PROVE  LatestIsCommitted'
  <2>1. s.generation = generation => s.data = tables
    <3>1. Read(r) \in Versions /\ tables \in Versions
      BY <1>0, ReadType DEF DbType
    <3>2. \A t \in 1..Tables : t <= Tables
      OBVIOUS
    <3> QED BY <1>2, <1>6, <3>1, <3>2 DEF Versions
  <2>2. current'[r] \in {current[r], s}
    BY <1>6 DEF Applied
  <2> QED BY <1>0, <1>3, <1>4, <1>6, <2>1, <2>2 DEF FreshInv, LatestIsCommitted
<1> QED BY <1>0, <1>5, <1>6, SelectStep

\* Every step but an overlapping commit keeps the latest number truthful.
LEMMA FreshNext == TypeInv /\ CopyInv /\ FreshInv /\ OneOpen /\ [Next]_vars => FreshInv'
<1> SUFFICES ASSUME TypeInv, CopyInv, FreshInv, OneOpen, [Next]_vars PROVE FreshInv'
  OBVIOUS
<1>a. ASSUME UNCHANGED dbVars,
             \A w \in Writers : writer'[w].pc = "open" =>
                 writer'[w] = writer[w] \/ writer'[w].seen = generation
      PROVE  CountsCommits'
  BY <1>a DEF FreshInv, CountsCommits, dbVars
<1>b. ASSUME UNCHANGED dbVars,
             \A r \in Replicas :
                 /\ snapshot'[r] \in {snapshot[r], None}
                 /\ current'[r] \in {current[r], snapshot[r], None}
                 /\ load'[r] = load[r] \/ load'[r].at = 0
      PROVE  LatestIsCommitted'
  <2>1. \A r \in Replicas : load'[r] = load[r] => Loaded(r)' = Loaded(r)
    BY DEF Loaded
  <2> QED BY <1>b, <2>1 DEF FreshInv, LatestIsCommitted, dbVars
<1>1. ASSUME NEW w \in Writers, NEW via \in Replicas \union {NoReplica},
             NEW edit \in SUBSET (1..Tables) \ {{}}, BeginWrite(w, via, edit)
      PROVE  FreshInv'
  <2>1. \A v \in Writers : writer'[v] = writer[v] \/ writer'[v].seen = generation
    BY <1>1 DEF BeginWrite, TypeInv, WriterType
  <2> QED BY <1>1, <1>a, <1>b, <2>1 DEF BeginWrite, cacheVars, FreshInv
<1>2. ASSUME NEW w \in Writers, WriteRejected(w) \/ invalidate(w) PROVE FreshInv'
  <2>1. \A v \in Writers : writer'[v].pc = "open" => writer'[v] = writer[v]
    BY <1>2, IdleTypes DEF WriteRejected, invalidate, TypeInv, WriterType
  <2>2. \A r \in Replicas : /\ snapshot'[r] \in {snapshot[r], None}
                            /\ current'[r] \in {current[r], None} /\ load'[r] = load[r]
    BY <1>2 DEF WriteRejected, invalidate, TypeInv, CacheType, cacheVars
  <2>3. UNCHANGED dbVars
    BY <1>2 DEF WriteRejected, invalidate
  <2> QED BY <1>a, <1>b, <2>1, <2>2, <2>3 DEF FreshInv
<1>3. ASSUME NEW r \in Replicas, PollDue(r) PROVE FreshInv'
  BY <1>3, <1>a, <1>b DEF PollDue, FreshInv
<1>4. ASSUME NEW r \in Replicas, LoadFails(r) PROVE FreshInv'
  <2>1. \A q \in Replicas : load'[q] = load[q] \/ load'[q].at = 0
    BY <1>4, IdleTypes DEF LoadFails, TypeInv, CacheType
  <2> QED BY <1>4, <1>a, <1>b, <2>1 DEF LoadFails, FreshInv
<1>5. ASSUME NEW r \in Replicas, Select(r) PROVE FreshInv'
  BY <1>5, <1>a, SelectKeepsFresh DEF Select, FreshInv
<1>6. ASSUME NEW r \in Replicas, current_generation(r) PROVE FreshInv'
  <2>0. DbType /\ CacheType /\ UNCHANGED <<dbVars, writer>>
    BY <1>6 DEF TypeInv, current_generation
  <2>1. CountsCommits'
    BY <1>a, <2>0
  <2>2. CASE /\ snapshot[r] # None
             /\ load' = load /\ current'[r] = Applied(r, snapshot[r])
    <3>1. \A q \in Replicas : /\ snapshot'[q] = snapshot[q] /\ load'[q] = load[q]
                              /\ current'[q] \in {current[q], snapshot[q], None}
      BY <1>6, <2>0, <2>2, GenerationStep DEF Applied
    <3> QED BY <1>b, <2>0, <2>1, <3>1 DEF FreshInv
  <2>3. CASE load'[r].at = 1 /\ load'[r].generation = generation /\ current' = current
    <3>1. /\ UNCHANGED <<snapshot, current, tables, generation>>
          /\ \A q \in Replicas \ {r} : load'[q] = load[q]
      BY <1>6, <2>0, <2>3, GenerationStep DEF dbVars
    <3>2. \A t \in 1..Tables : ~ (t < 1)
      OBVIOUS
    <3>3. Loaded(r)' = {} /\ \A q \in Replicas \ {r} : Loaded(q)' = Loaded(q)
      BY <2>3, <3>1, <3>2 DEF Loaded
    <3>4. LatestIsCommitted'
      BY <2>3, <3>1, <3>3 DEF FreshInv, LatestIsCommitted
    <3> QED BY <2>1, <3>4 DEF FreshInv
  <2> QED BY <1>6, <2>0, <2>2, <2>3, GenerationStep
<1>7. CASE UNCHANGED vars
  BY <1>7, <1>a, <1>b DEF vars, dbVars, FreshInv
<1> QED
  BY <1>1, <1>2, <1>3, <1>4, <1>5, <1>6, <1>7, CommitKeepsFresh DEF Next, WriteStep, ReadStep

\* A copy put together from two configurations, by a commit between two
\* SELECTs of ConfigStore._load, is one the next poll replaces; for any
\* number of writers whose transactions do not overlap, with or without
\* failing loads.
THEOREM TornIsReplaced == Spec /\ []OneOpen => []TornIsReloaded
<1>1. TypeInv /\ FreshInv => TornIsReloaded
  <2> SUFFICES ASSUME TypeInv, FreshInv PROVE TornIsReloaded
    OBVIOUS
  <2>1. Len(history) \in DOMAIN history /\ history[Len(history)] = tables
    BY DEF TypeInv, DbType, FreshInv, CountsCommits
  <2> QED BY <2>1 DEF FreshInv, LatestIsCommitted, TornIsReloaded
<1> QED BY TypeInit, TypeNext, CopyInit, CopyNext, FreshInit, FreshNext, <1>1, PTL DEF Spec

-----------------------------------------------------------------------------
(* The model client on top.  To the configuration store the client is only *)
(* a reader, so that what is proved of Spec holds of RoutingSpec.          *)

USE ModelRoutingAssumption

\* Requests and pages leave the configuration alone.
LEMMA RoutingStep == [RoutingNext]_allVars => [Next]_vars
BY DEF RoutingNext, allVars, mcp_endpoint, session_info, RequestStep, embed, complete,
       FallsBack, RequestEnds, Post, Done, llm_enabled

\* The composition implements the store, so that the theorems about the store
\* hold while requests use what it serves.
THEOREM RoutingKeepsStore == RoutingSpec => Spec
<1>1. RoutingInit => Init
  BY DEF RoutingInit
<1> QED BY <1>1, RoutingStep, PTL DEF RoutingSpec, Spec

Addresses == Urls \union {NoUrl}
RequestStates == [pc : {"idle", "asked"} \union InFlight, at : Replicas \union {NoReplica},
                  read : SettingsVersions, client : Addresses]

ClientType ==
    /\ settings \in [Replicas -> SettingsVersions]
    /\ clients \in [Replicas -> SUBSET Addresses]
    /\ stale \in [Replicas -> SUBSET Addresses]

\* A request that is not idle is at a replica.
RequestType ==
    /\ request \in [Requests \union Pages -> RequestStates]
    /\ \A q \in Requests \union Pages : request[q].pc # "idle" => request[q].at \in Replicas

RoutingInv == ClientType /\ RequestType /\ OpenWhileInUse

\* The settings a version stands for name endpoints, or none.
LEMMA SettingsTypes ==
    /\ \A v \in SettingsVersions : /\ SettingsOf[v].litellm_base_url \in Addresses
                                   /\ SettingsOf[v].headroom_base_url \in Addresses
                                   /\ chat_route(v) \in Addresses
    /\ Idle \in RequestStates /\ Idle.pc = "idle" /\ 0 \in SettingsVersions
<1>1. \A v \in SettingsVersions : /\ SettingsOf[v].litellm_base_url \in Addresses
                                  /\ SettingsOf[v].headroom_base_url \in Addresses
  BY DEF Addresses
<1>2. 0 \in SettingsVersions
  BY DEF SettingsVersions
<1> QED BY <1>1, <1>2 DEF chat_route, Idle, RequestStates, Addresses

\* No clients, no requests.
LEMMA RoutingInvInit == RoutingInit => RoutingInv
BY SettingsTypes DEF RoutingInit, RoutingInv, ClientType, RequestType, OpenWhileInUse, InFlight

\* Handing settings to the client closes nothing.
LEMMA UpdateKeepsOpen ==
    ASSUME ClientType, NEW r \in Replicas, NEW v \in SettingsVersions, update(r, v)
    PROVE  /\ ClientType'
           /\ \A p \in Replicas : clients[p] \union stale[p] \subseteq clients'[p] \union stale'[p]
<1>1. ClientType'
  BY DEF ClientType, update
<1>2. /\ clients'[r] = clients[r] \intersect Endpoints(v)
      /\ stale'[r] = stale[r] \union (clients[r] \ Endpoints(v))
      /\ \A p \in Replicas \ {r} : clients'[p] = clients[p] /\ stale'[p] = stale[p]
  BY DEF ClientType, update
<1> QED BY <1>1, <1>2

\* A request that ends, or that has not posted yet, holds no client.
LEMMA RequestKeepsOpen ==
    ASSUME RoutingInv, NEW q \in Requests \union Pages, NEW s \in RequestStates,
           request' = [request EXCEPT ![q] = s], s.pc \in {"idle", "asked"},
           s.pc = "asked" => s.at \in Replicas, ClientType',
           \A p \in Replicas : clients[p] \union stale[p] \subseteq clients'[p] \union stale'[p]
    PROVE  RoutingInv'
<1>1. request'[q] = s /\ \A o \in (Requests \union Pages) \ {q} : request'[o] = request[o]
  BY DEF RoutingInv, RequestType
<1>2. RequestType'
  BY <1>1 DEF RoutingInv, RequestType
<1>3. s.pc \notin InFlight /\ "idle" \notin InFlight
  BY DEF InFlight
<1>4. OpenWhileInUse'
  <2> SUFFICES ASSUME NEW o \in Requests, request'[o].pc \in InFlight
               PROVE  request'[o].client \in clients'[request'[o].at] \union stale'[request'[o].at]
    BY DEF OpenWhileInUse
  <2>1. o # q /\ request'[o] = request[o] /\ request[o].at \in Replicas
    BY <1>1, <1>3 DEF RoutingInv, RequestType
  <2>2. request[o].client \in clients[request[o].at] \union stale[request[o].at]
    BY <2>1 DEF RoutingInv, OpenWhileInUse
  <2> QED BY <2>1, <2>2
<1> QED BY <1>2, <1>4 DEF RoutingInv

\* A post goes through a client that is open.
LEMMA PostKeepsOpen ==
    ASSUME RoutingInv, NEW q \in Requests, NEW u \in Addresses, NEW as \in InFlight,
           request[q].pc # "idle", Post(q, u, as)
    PROVE  RoutingInv'
<1> DEFINE r == request[q].at
           s == [request[q] EXCEPT !.pc = as, !.client = u]
<1>1. r \in Replicas /\ request[q] \in RequestStates
  BY DEF RoutingInv, RequestType
<1>2. s \in RequestStates /\ s.pc = as /\ s.client = u /\ s.at = r
  BY <1>1 DEF RequestStates
<1>3. /\ clients' = [clients EXCEPT ![r] = @ \union {u}] /\ UNCHANGED <<settings, stale>>
      /\ request' = [request EXCEPT ![q] = s]
  BY DEF Post, RoutingInv, RequestType
<1> HIDE DEF r, s
<1>4. /\ clients'[r] = clients[r] \union {u}
      /\ \A p \in Replicas \ {r} : clients'[p] = clients[p]
      /\ request'[q] = s /\ \A o \in (Requests \union Pages) \ {q} : request'[o] = request[o]
  BY <1>1, <1>3 DEF RoutingInv, ClientType, RequestType
<1>5. ClientType'
  BY <1>1, <1>3 DEF RoutingInv, ClientType
<1>6. RequestType'
  BY <1>1, <1>2, <1>3, <1>4 DEF RoutingInv, RequestType
<1>7. OpenWhileInUse'
  <2> SUFFICES ASSUME NEW o \in Requests, request'[o].pc \in InFlight
               PROVE  request'[o].client \in clients'[request'[o].at] \union stale'[request'[o].at]
    BY DEF OpenWhileInUse
  <2>1. CASE o = q
    BY <1>2, <1>4, <2>1
  <2>2. CASE o # q
    <3>1. request'[o] = request[o]
      BY <1>4, <2>2
    <3>2. request[o].at \in Replicas
      BY <1>6, <3>1 DEF RequestType, InFlight
    <3>3. request[o].client \in clients[request[o].at] \union stale[request[o].at]
      BY <3>1 DEF RoutingInv, OpenWhileInUse
    <3> QED BY <1>3, <1>4, <3>1, <3>2, <3>3
  <2> QED BY <2>1, <2>2
<1> QED BY <1>5, <1>6, <1>7 DEF RoutingInv

\* What a replica serves is a version of the settings.
LEMMA ServedVersion ==
    ASSUME TypeInv, NEW r \in Replicas, Served(r)
    PROVE  current[r].data[SettingsTable] \in SettingsVersions
<1>1. current[r] \in Snapshots
  BY DEF TypeInv, CacheType, Served
<1>2. current[r].data \in Versions
  BY <1>1 DEF Snapshots
<1>3. 1 \in 1..Tables
  OBVIOUS
<1> QED BY <1>2, <1>3 DEF Versions, SettingsTable, SettingsVersions

\* Every step of the composition keeps clients in use open.
LEMMA RoutingInvNext == TypeInv /\ RoutingInv /\ [RoutingNext]_allVars => RoutingInv'
<1> SUFFICES ASSUME TypeInv, RoutingInv, [RoutingNext]_allVars PROVE RoutingInv'
  OBVIOUS
<1>1. CASE UNCHANGED llmVars
  BY <1>1 DEF llmVars, RoutingInv, ClientType, RequestType, OpenWhileInUse
<1>2. ASSUME NEW q \in Requests, NEW r \in Replicas, mcp_endpoint(q, r) PROVE RoutingInv'
  <2> DEFINE s == [Idle EXCEPT !.pc = "asked", !.at = r]
  <2>1. s \in RequestStates /\ s.pc = "asked" /\ s.at = r
    BY SettingsTypes DEF Idle, RequestStates
  <2>2. request' = [request EXCEPT ![q] = s]
    BY <1>2 DEF mcp_endpoint
  <2> HIDE DEF s
  <2> DEFINE v == current[r].data[SettingsTable]
  <2>3. v \in SettingsVersions /\ update(r, v)
    BY <1>2, ServedVersion DEF mcp_endpoint
  <2> HIDE DEF v
  <2>4. /\ ClientType'
        /\ \A p \in Replicas : clients[p] \union stale[p] \subseteq clients'[p] \union stale'[p]
    BY <2>3, UpdateKeepsOpen DEF RoutingInv
  <2> QED BY <2>1, <2>2, <2>4, RequestKeepsOpen
<1>3. ASSUME NEW q \in Pages, NEW r \in Replicas, session_info(q, r) PROVE RoutingInv'
  <2> DEFINE s == [Idle EXCEPT !.pc = "asked", !.at = r, !.read = current[r].data[SettingsTable]]
  <2>0. current[r].data[SettingsTable] \in SettingsVersions
    BY <1>3, ServedVersion DEF session_info
  <2>1. s \in RequestStates /\ s.pc = "asked" /\ s.at = r
    BY <2>0, SettingsTypes DEF Idle, RequestStates
  <2>2. request' = [request EXCEPT ![q] = s] /\ UNCHANGED <<settings, clients, stale>>
    BY <1>3 DEF session_info
  <2> HIDE DEF s
  <2>3. ClientType'
    BY <2>2 DEF RoutingInv, ClientType
  <2> QED BY <2>1, <2>2, <2>3, RequestKeepsOpen
<1>4. ASSUME NEW q \in Pages, llm_enabled(q) PROVE RoutingInv'
  <2>1. request[q].at \in Replicas /\ request[q].read \in SettingsVersions
    BY <1>4 DEF llm_enabled, RoutingInv, RequestType, RequestStates
  <2>2. /\ ClientType'
        /\ \A p \in Replicas : clients[p] \union stale[p] \subseteq clients'[p] \union stale'[p]
    <3>1. CASE update(request[q].at, request[q].read)
      BY <2>1, <3>1, UpdateKeepsOpen DEF RoutingInv
    <3>2. CASE UNCHANGED <<settings, clients, stale>>
      BY <3>2 DEF RoutingInv, ClientType
    <3> QED BY <1>4, <3>1, <3>2 DEF llm_enabled
  <2>3. request' = [request EXCEPT ![q] = Idle]
    BY <1>4 DEF llm_enabled
  <2> QED BY <2>2, <2>3, SettingsTypes, RequestKeepsOpen
<1>5. ASSUME NEW q \in Requests, Done(q) PROVE RoutingInv'
  <2>1. request' = [request EXCEPT ![q] = Idle] /\ UNCHANGED <<settings, clients, stale>>
    BY <1>5 DEF Done
  <2>2. ClientType'
    BY <2>1 DEF RoutingInv, ClientType
  <2> QED BY <2>1, <2>2, SettingsTypes, RequestKeepsOpen
<1>6. ASSUME NEW q \in Requests, RequestStep(q) PROVE RoutingInv'
  <2>1. \A o \in Requests : request[o].pc # "idle" => settings[request[o].at] \in SettingsVersions
    BY DEF RoutingInv, RequestType, ClientType
  <2>2. CASE embed(q)
    <3>1. request[q].pc # "idle"
          /\ \E as \in InFlight : Post(q, SettingsOf[settings[request[q].at]].litellm_base_url, as)
      BY <2>2 DEF embed, InFlight
    <3> QED BY <2>1, <3>1, SettingsTypes, PostKeepsOpen
  <2>3. CASE complete(q)
    <3> DEFINE v == settings[request[q].at]
    <3>1. request[q].pc # "idle"
          /\ \/ Done(q) \/ Post(q, chat_route(v), "proxy")
             \/ Post(q, SettingsOf[v].litellm_base_url, "direct")
      BY <2>3 DEF complete
    <3>2. v \in SettingsVersions /\ "proxy" \in InFlight /\ "direct" \in InFlight
      BY <2>1, <3>1 DEF InFlight
    <3> HIDE DEF v
    <3> QED BY <1>5, <3>1, <3>2, SettingsTypes, PostKeepsOpen
  <2>4. CASE FallsBack(q)
    <3> DEFINE v == settings[request[q].at]
    <3>1. request[q].pc # "idle" /\ Post(q, SettingsOf[v].litellm_base_url, "direct")
      BY <2>4 DEF FallsBack
    <3>2. v \in SettingsVersions /\ "direct" \in InFlight
      BY <2>1, <3>1 DEF InFlight
    <3> HIDE DEF v
    <3> QED BY <3>1, <3>2, SettingsTypes, PostKeepsOpen
  <2>5. CASE RequestEnds(q)
    BY <1>5, <2>5 DEF RequestEnds
  <2> QED BY <1>6, <2>2, <2>3, <2>4, <2>5 DEF RequestStep
<1> QED BY <1>1, <1>2, <1>3, <1>4, <1>6 DEF RoutingNext, allVars, llmVars

\* Configuration, client and requests keep their types.
THEOREM RoutingTyped == RoutingSpec => []RoutingTypeOK
<1>1. TypeInv /\ RoutingInv => RoutingTypeOK
  BY TypeImplied DEF RoutingInv, ClientType, RequestType, RoutingTypeOK, RequestStates, Addresses
<1>2. RoutingInit => TypeInv
  BY TypeInit DEF RoutingInit
<1>3. TypeInv /\ [RoutingNext]_allVars => TypeInv'
  BY TypeNext, RoutingStep
<1> QED BY RoutingInvInit, RoutingInvNext, <1>1, <1>2, <1>3, PTL DEF RoutingSpec

\* A client is never closed under a call (LlmClient.update, LlmClient._http):
\* whatever settings pages and requests hand over meanwhile, in any order.
THEOREM ClientsStayOpen == RoutingSpec => []OpenWhileInUse
<1>1. RoutingInv => OpenWhileInUse
  BY DEF RoutingInv
<1>2. RoutingInit => TypeInv
  BY TypeInit DEF RoutingInit
<1>3. TypeInv /\ [RoutingNext]_allVars => TypeInv'
  BY TypeNext, RoutingStep
<1> QED BY RoutingInvInit, RoutingInvNext, <1>1, <1>2, <1>3, PTL DEF RoutingSpec
=============================================================================
