-------------------------- MODULE AnswerCacheProofs --------------------------
(***************************************************************************)
(* Proofs about AnswerCache, for any scopes, requests, questions and       *)
(* bounds, and any similarity relation.                                    *)
(***************************************************************************)
EXTENDS AnswerCache, TLAPS

USE AnswerCacheAssumption, NoEntryAssumption DEF Versions

\* A request that starts, or is done, is well typed.
LEMMA FreshType ==
    ASSUME NEW s \in Scopes, NEW q \in Questions
    PROVE  Fresh(s, q) \in RequestStates
BY DEF Fresh, RequestStates, Phases

\* So is the idle one.
LEMMA IdleType == Idle \in RequestStates
BY FreshType DEF Idle

\* Moving a request to another phase keeps it well typed.
LEMMA GotoType ==
    ASSUME req \in [Requests -> RequestStates], NEW r \in Requests,
           NEW p \in Phases, Goto(r, p)
    PROVE  req' \in [Requests -> RequestStates]
BY DEF Goto, RequestStates

\* A fault stays within its bound.
LEMMA FaultType ==
    ASSUME faults \in 0..MaxFaults, Fault
    PROVE  faults' \in 0..MaxFaults
BY DEF Fault

\* A graph replaced stays within its bound.
LEMMA GraphType ==
    ASSUME graph \in [Scopes -> 1..MaxGraph], NEW s \in Scopes, graph[s] < MaxGraph
    PROVE  [graph EXCEPT ![s] = graph[s] + 1] \in [Scopes -> 1..MaxGraph]
<1>1. graph[s] + 1 \in 1..MaxGraph
  OBVIOUS
<1> QED BY <1>1

\* Graph and epoch are versions.
LEMMA VersionType ==
    ASSUME TypeOK, NEW s \in Scopes
    PROVE  graph[s] \in 0..MaxGraph /\ epoch[s] \in 0..MaxGraph
<1>1. graph[s] \in 1..MaxGraph /\ epoch[s] \in 0..MaxGraph
  BY DEF TypeOK
<1> QED BY <1>1

\* The database starts empty, and nobody has asked yet.
LEMMA TypeInit == Init => TypeOK
BY IdleType DEF Init, TypeOK

\* Every transaction, engine call and model call keeps the state well typed.
LEMMA TypeNext == TypeOK /\ [Next]_vars => TypeOK'
<1> SUFFICES ASSUME TypeOK, [Next]_vars PROVE TypeOK'
  OBVIOUS
<1> USE DEF TypeOK, indexVars
<1>1. ASSUME NEW s \in Scopes,
             IndexerWrites(s) \/ BumpFails(s) \/ GatewayIndexes(s) \/ clear_answer_cache(s)
      PROVE TypeOK'
  <2>1. CASE IndexerWrites(s)
    <3>1. graph' \in [Scopes -> 1..MaxGraph]
      BY <2>1, GraphType DEF IndexerWrites
    <3>2. indexing' \in [Scopes -> BOOLEAN]
      BY <2>1, Zenon DEF IndexerWrites
    <3> QED BY <2>1, <3>1, <3>2, Zenon DEF IndexerWrites
  <2>2. CASE BumpFails(s)
    <3>1. indexing' \in [Scopes -> BOOLEAN]
      BY <2>2, Zenon DEF BumpFails
    <3> QED BY <2>2, <3>1, Zenon DEF BumpFails
  <2>3. CASE GatewayIndexes(s)
    <3>1. graph' \in [Scopes -> 1..MaxGraph]
      BY <2>3, GraphType DEF GatewayIndexes
    <3> QED BY <2>3, <3>1, Zenon DEF GatewayIndexes
  <2>4. CASE clear_answer_cache(s)
    BY <2>4 DEF clear_answer_cache
  <2> QED BY <1>1, <2>1, <2>2, <2>3, <2>4
<1>2. ASSUME NEW s \in Scopes, bump_epoch(s) PROVE TypeOK'
  <2>1. epoch[s] + 1 \in 0..MaxGraph /\ graph[s] \in 0..MaxGraph
    <3>1. graph[s] \in 0..MaxGraph /\ epoch[s] \in 0..MaxGraph /\ epoch[s] < MaxGraph
      BY <1>2, VersionType DEF bump_epoch
    <3> HIDE DEF TypeOK
    <3> QED BY <3>1
  <2>2. [announced[s] EXCEPT ![epoch[s] + 1] = graph[s]] \in [0..MaxGraph -> 0..MaxGraph]
    BY <2>1
  <2>3. announced' = [announced EXCEPT ![s] = [announced[s] EXCEPT ![epoch[s] + 1] = graph[s]]]
    BY <1>2 DEF bump_epoch
  <2>4. announced' \in [Scopes -> [0..MaxGraph -> 0..MaxGraph]]
    BY <2>2, <2>3
  <2>5. epoch' \in [Scopes -> 0..MaxGraph]
    BY <1>2, <2>1 DEF bump_epoch
  <2>6. indexing' \in [Scopes -> BOOLEAN]
    BY <1>2 DEF bump_epoch
  <2> QED BY <1>2, <2>4, <2>5, <2>6 DEF bump_epoch
<1>3. ASSUME NEW r \in Requests, NEW s \in Scopes, NEW q \in Questions, Ask(r, s, q)
      PROVE TypeOK'
  <2>1. [Fresh(s, q) EXCEPT !.pc = "exact", !.epoch = epoch[s]] \in RequestStates
    <3>1. Fresh(s, q) \in RequestStates /\ epoch[s] \in 0..MaxGraph
      BY FreshType, VersionType
    <3> HIDE DEF TypeOK
    <3> QED BY <3>1 DEF RequestStates, Phases
  <2> QED BY <1>3, <2>1 DEF Ask
<1>4. ASSUME NEW r \in Requests, RequestStep(r) PROVE TypeOK'
  <2>1. ASSUME NEW e \in entries, Serve(r, e) PROVE req' \in [Requests -> RequestStates]
    <3>1. [req[r] EXCEPT !.pc = "answered", !.served = e] \in RequestStates
      <4>1. req[r] \in RequestStates /\ e \in Entries
        OBVIOUS
      <4> QED BY ONLY <4>1 DEF RequestStates, Phases
    <3>2. req' = [req EXCEPT ![r] = [req[r] EXCEPT !.pc = "answered", !.served = e]]
      BY <2>1 DEF Serve
    <3> QED BY <3>1, <3>2
  <2>2. CASE ExactTier(r)
    BY <2>1, <2>2, GotoType DEF ExactTier, ExactMatches, Candidates, Phases
  <2>3. CASE SemanticTier(r)
    BY <2>1, <2>3, GotoType DEF SemanticTier, ExactMatches, SimilarMatches, Candidates, Phases
  <2>4. CASE LookupFails(r) \/ UpstreamFails(r) \/ StoreFails(r)
    <3>1. \E p \in Phases : Goto(r, p)
      BY <2>4 DEF LookupFails, UpstreamFails, StoreFails, Phases
    <3>2. req' \in [Requests -> RequestStates]
      BY <3>1, GotoType
    <3>3. faults' \in 0..MaxFaults /\ UNCHANGED <<graph, indexing, epoch, announced, entries, sweep>>
      BY <2>4, FaultType DEF LookupFails, UpstreamFails, StoreFails
    <3> QED BY <3>2, <3>3
  <2>5. CASE get_architecture(r)
    <3>1. [req[r] EXCEPT !.pc = "search", !.built = graph[req[r].scope]] \in RequestStates
      <4>1. req[r] \in RequestStates /\ graph[req[r].scope] \in 0..MaxGraph
        BY VersionType DEF RequestStates
      <4> HIDE DEF TypeOK
      <4> QED BY <4>1 DEF RequestStates, Phases
    <3>2. req' = [req EXCEPT ![r] = [req[r] EXCEPT !.pc = "search", !.built = graph[req[r].scope]]]
      BY <2>5 DEF get_architecture
    <3>3. req' \in [Requests -> RequestStates]
      BY <3>1, <3>2
    <3> QED BY <2>5, <3>3 DEF get_architecture
  <2>6. CASE search_graph(r) \/ complete(r)
    <3>1. \E p \in Phases : Goto(r, p)
      BY <2>6 DEF search_graph, complete, Phases
    <3>2. req' \in [Requests -> RequestStates]
      BY <3>1, GotoType
    <3> QED BY <2>6, <3>2 DEF search_graph, complete
  <2>7. CASE StoreReadsEpoch(r)
    <3>1. [req[r] EXCEPT !.pc = "insert", !.key = epoch[req[r].scope]] \in RequestStates
      <4>1. req[r] \in RequestStates /\ epoch[req[r].scope] \in 0..MaxGraph
        BY VersionType DEF RequestStates
      <4> HIDE DEF TypeOK
      <4> QED BY <4>1 DEF RequestStates, Phases
    <3>2. req' = [req EXCEPT ![r] = [req[r] EXCEPT !.pc = "insert", !.key = epoch[req[r].scope]]]
      BY <2>7 DEF StoreReadsEpoch
    <3>3. req' \in [Requests -> RequestStates]
      BY <3>1, <3>2
    <3> QED BY <2>7, <3>3 DEF StoreReadsEpoch
  <2>8. CASE StoreCommits(r)
    <3>1. \A emb \in BOOLEAN : NewEntry(r, emb) \in Entries
      <4>1. req[r] \in RequestStates
        OBVIOUS
      <4> QED BY ONLY <4>1 DEF NewEntry, Entries, RequestStates
    <3>2. entries' \subseteq Entries
      BY <2>8, <3>1 DEF StoreCommits
    <3> QED BY <2>8, <3>2, GotoType DEF StoreCommits, Phases
  <2>9. CASE Respond(r)
    BY <2>9, IdleType DEF Respond
  <2> QED BY <1>4, <2>2, <2>3, <2>4, <2>5, <2>6, <2>7, <2>8, <2>9 DEF RequestStep
<1>5. CASE SweepReads \/ SweepDeletes
  BY <1>5 DEF SweepReads, SweepDeletes
<1>6. ASSUME NEW e \in entries, Expire(e) PROVE TypeOK'
  <2>1. [e EXCEPT !.expired = TRUE] \in Entries
    BY DEF Entries
  <2> QED BY <1>6, <2>1 DEF Expire
<1>7. CASE UNCHANGED vars
  BY <1>7 DEF vars
<1> QED BY <1>1, <1>2, <1>3, <1>4, <1>5, <1>6, <1>7 DEF Next

\* Epochs, answers and requests stay well typed under any interleaving of
\* requests, indexing, sweeps and failures.
THEOREM TypeCorrect == Spec => []TypeOK
BY TypeInit, TypeNext, PTL DEF Spec

-----------------------------------------------------------------------------
(* RecalledIsFresh is not inductive: an answer's age is decided when its   *)
(* request reads the graph, long before it is stored, and it may be stored *)
(* and recalled after further epochs.  The invariant follows the version   *)
(* through all of that: it bounds every evidence and every row from below  *)
(* by what was announced for the epoch the answering request had seen.     *)

Announced(s, e) == announced[s][e]

EpochInv ==
    \A s \in Scopes : \A e \in 0..MaxGraph :
        e <= epoch[s] => Announced(s, e) <= graph[s]

AnswerOk(a) ==
    /\ a.epoch <= epoch[a.scope]
    /\ a.seen <= epoch[a.scope]
    /\ a.built >= Announced(a.scope, a.seen)

RequestOk(r) ==
    /\ req[r].epoch <= epoch[req[r].scope]
    /\ req[r].key <= epoch[req[r].scope]
    /\ req[r].pc \in {"search", "llm", "store", "insert"} =>
           req[r].built >= Announced(req[r].scope, req[r].epoch)
    /\ req[r].served # NoEntry =>
           /\ AnswerOk(req[r].served)
           /\ req[r].served.scope = req[r].scope
           /\ req[r].served.epoch = req[r].epoch

FreshInv ==
    /\ EpochInv
    /\ \A a \in entries : AnswerOk(a)
    /\ \A r \in Requests : RequestOk(r)

\* Without epochs, answers and requests there is nothing to be stale.
LEMMA FreshInit == Init => FreshInv
<1> SUFFICES ASSUME Init PROVE FreshInv
  OBVIOUS
<1>1. EpochInv
  BY DEF Init, EpochInv, Announced
<1>2. \A r \in Requests : RequestOk(r)
  BY DEF Init, RequestOk, Idle, Fresh
<1> QED BY <1>1, <1>2 DEF Init, FreshInv

\* What the steps of a request leave alone cannot become stale.
LEMMA StableIndex ==
    ASSUME UNCHANGED indexVars
    PROVE  /\ EpochInv => EpochInv'
           /\ \A a : AnswerOk(a) => AnswerOk(a)'
           /\ \A r \in Requests : RequestOk(r) /\ req'[r] = req[r] => RequestOk(r)'
BY DEF indexVars, EpochInv, AnswerOk, RequestOk, Announced

\* A new epoch announces the graph as it is and changes no earlier epoch.
LEMMA BumpKeeps ==
    ASSUME TypeOK, FreshInv, NEW s \in Scopes, bump_epoch(s)
    PROVE  FreshInv'
<1>0. epoch[s] + 1 \in 0..MaxGraph /\ epoch[s] + 1 >= epoch[s]
  <2>1. epoch[s] \in 0..MaxGraph /\ epoch[s] < MaxGraph
    BY VersionType DEF bump_epoch
  <2> QED BY <2>1
<1>1. /\ epoch[s] \in 0..MaxGraph /\ epoch[s] < MaxGraph /\ graph[s] \in 0..MaxGraph
      /\ epoch \in [Scopes -> 0..MaxGraph] /\ graph \in [Scopes -> 1..MaxGraph]
      /\ announced \in [Scopes -> [0..MaxGraph -> 0..MaxGraph]]
  BY VersionType DEF bump_epoch, TypeOK
<1>2. /\ epoch' = [epoch EXCEPT ![s] = epoch[s] + 1]
      /\ announced' = [announced EXCEPT ![s] = [announced[s] EXCEPT ![epoch[s] + 1] = graph[s]]]
      /\ UNCHANGED <<graph, entries, req>>
  BY DEF bump_epoch
<1>3. \A t \in Scopes : epoch'[t] \in 0..MaxGraph /\ epoch[t] \in 0..MaxGraph /\ epoch'[t] >= epoch[t]
  <2> SUFFICES ASSUME NEW t \in Scopes
               PROVE  epoch'[t] \in 0..MaxGraph /\ epoch[t] \in 0..MaxGraph /\ epoch'[t] >= epoch[t]
    OBVIOUS
  <2>1. epoch'[t] = IF t = s THEN epoch[s] + 1 ELSE epoch[t]
    BY <1>1, <1>2
  <2>2. epoch[t] \in 0..MaxGraph
    BY <1>1
  <2>3. epoch[t] >= epoch[t]
    BY <2>2
  <2> QED BY <1>0, <2>1, <2>2, <2>3
<1>4. \A t \in Scopes, e \in 0..MaxGraph : e <= epoch[t] => announced'[t][e] = announced[t][e]
  <2> SUFFICES ASSUME NEW t \in Scopes, NEW e \in 0..MaxGraph, e <= epoch[t]
               PROVE  announced'[t][e] = announced[t][e]
    OBVIOUS
  <2>1. CASE t = s
    <3>1. e # epoch[s] + 1
      BY <1>1, <2>1
    <3> QED BY <1>1, <1>2, <2>1, <3>1
  <2>2. CASE t # s
    BY <1>1, <1>2, <2>2
  <2> QED BY <2>1, <2>2
<1>5. announced'[s][epoch[s] + 1] = graph[s]
  BY <1>0, <1>1, <1>2
<1>6. EpochInv'
  <2> SUFFICES ASSUME NEW t \in Scopes, NEW e \in 0..MaxGraph, e <= epoch'[t]
               PROVE  announced'[t][e] <= graph[t]
    BY <1>2 DEF EpochInv, Announced
  <2>1. CASE e <= epoch[t]
    BY <1>4, <2>1 DEF FreshInv, EpochInv, Announced
  <2>2. CASE ~ (e <= epoch[t])
    <3>1. t = s
      BY <1>1, <1>2, <2>2
    <3>2. epoch'[s] = epoch[s] + 1
      BY <1>1, <1>2
    <3>3. e = epoch[s] + 1
      BY <1>1, <2>2, <3>1, <3>2
    <3>4. graph[s] <= graph[s]
      BY <1>1
    <3> QED BY <1>5, <3>1, <3>3, <3>4
  <2> QED BY <2>1, <2>2
<1>7. ASSUME NEW a \in Entries, AnswerOk(a) PROVE AnswerOk(a)'
  <2>1. a.scope \in Scopes /\ a.epoch \in 0..MaxGraph /\ a.seen \in 0..MaxGraph
    BY DEF Entries
  <2> QED BY <1>3, <1>4, <1>7, <2>1 DEF AnswerOk, Announced
<1>8. ASSUME NEW r \in Requests PROVE RequestOk(r)'
  <2>1. RequestOk(r)
    BY DEF FreshInv
  <2>2. /\ req[r].scope \in Scopes /\ req[r].epoch \in 0..MaxGraph
        /\ req[r].key \in 0..MaxGraph /\ req[r].served \in Entries \union {NoEntry}
    BY DEF TypeOK, RequestStates
  <2>3. req'[r] = req[r]
    BY <1>2
  <2>4. req[r].epoch <= epoch'[req[r].scope] /\ req[r].key <= epoch'[req[r].scope]
    BY <1>3, <2>1, <2>2 DEF RequestOk
  <2>5. announced'[req[r].scope][req[r].epoch] = announced[req[r].scope][req[r].epoch]
    BY <1>4, <2>1, <2>2 DEF RequestOk
  <2>6. req[r].served # NoEntry => AnswerOk(req[r].served)'
    <3> SUFFICES ASSUME req[r].served # NoEntry PROVE AnswerOk(req[r].served)'
      OBVIOUS
    <3>1. PICK a \in Entries : a = req[r].served
      BY <2>2
    <3>2. AnswerOk(a)'
      BY <1>7, <2>1, <3>1 DEF RequestOk
    <3> QED BY <2>3, <3>1, <3>2 DEF AnswerOk
  <2> QED BY <2>1, <2>3, <2>4, <2>5, <2>6 DEF RequestOk, Announced
<1>9. \A a \in entries' : AnswerOk(a)'
  BY <1>2, <1>7 DEF FreshInv, TypeOK
<1> QED BY <1>6, <1>8, <1>9 DEF FreshInv

\* A replaced graph is newer than anything announced.
LEMMA GraphKeeps ==
    ASSUME TypeOK, FreshInv, NEW s \in Scopes, graph' = [graph EXCEPT ![s] = graph[s] + 1],
           UNCHANGED <<epoch, announced, entries, req>>
    PROVE  FreshInv'
<1>1. \A t \in Scopes : graph[t] \in Nat /\ graph'[t] \in Nat /\ graph[t] <= graph'[t]
  <2> SUFFICES ASSUME NEW t \in Scopes
               PROVE  graph[t] \in Nat /\ graph'[t] \in Nat /\ graph[t] <= graph'[t]
    OBVIOUS
  <2>1. graph[t] \in 1..MaxGraph
    BY DEF TypeOK
  <2>2. graph'[t] \in {graph[t], graph[t] + 1}
    BY DEF TypeOK
  <2> QED BY <2>1, <2>2
<1>2. EpochInv'
  <2> SUFFICES ASSUME NEW t \in Scopes, NEW e \in 0..MaxGraph, e <= epoch[t]
               PROVE  announced[t][e] <= graph'[t]
    BY DEF EpochInv, Announced
  <2>1. announced[t][e] <= graph[t] /\ announced[t][e] \in Nat
    <3>1. announced[t][e] \in 0..MaxGraph
      BY DEF TypeOK
    <3>2. announced[t][e] <= graph[t]
      BY DEF FreshInv, EpochInv, Announced
    <3> QED BY <3>1, <3>2
  <2> QED BY <1>1, <2>1
<1>3. \A a : AnswerOk(a) => AnswerOk(a)'
  BY DEF AnswerOk, Announced
<1>4. \A r \in Requests : RequestOk(r)'
  BY DEF FreshInv, RequestOk, AnswerOk, Announced
<1> QED BY <1>2, <1>3, <1>4 DEF FreshInv

\* A request that has just asked, or is idle, has read at most the epoch.
LEMMA FreshOk ==
    ASSUME TypeOK, NEW s \in Scopes, NEW q \in Questions, NEW r \in Requests,
           UNCHANGED indexVars,
           \/ req'[r] = Fresh(s, q)
           \/ req'[r] = [Fresh(s, q) EXCEPT !.pc = "exact", !.epoch = epoch[s]]
    PROVE  RequestOk(r)'
<1>1. epoch[s] \in 0..MaxGraph
  BY VersionType
<1>2. 0 <= epoch[s] /\ epoch[s] <= epoch[s]
  BY <1>1
<1>3. /\ req'[r].scope = s /\ req'[r].epoch \in {0, epoch[s]} /\ req'[r].key = 0
      /\ req'[r].pc \in {"idle", "exact"} /\ req'[r].served = NoEntry
  <2>1. CASE req'[r] = Fresh(s, q)
    BY <2>1 DEF Fresh
  <2>2. CASE req'[r] = [Fresh(s, q) EXCEPT !.pc = "exact", !.epoch = epoch[s]]
    BY <2>2 DEF Fresh
  <2> QED BY <2>1, <2>2
<1>4. epoch' = epoch
  BY DEF indexVars
<1>5. /\ req'[r].epoch <= epoch'[req'[r].scope] /\ req'[r].key <= epoch'[req'[r].scope]
  BY <1>2, <1>3, <1>4
<1> QED BY <1>3, <1>5 DEF RequestOk

\* A request may change phase as long as it does not claim evidence it has
\* not read.
LEMMA GotoOk ==
    ASSUME TypeOK, FreshInv, UNCHANGED indexVars, NEW r \in Requests, NEW p, Goto(r, p),
           p \in {"search", "llm", "store", "insert"} =>
               req[r].pc \in {"search", "llm", "store", "insert"}
    PROVE  \A v \in Requests : RequestOk(v)'
<1>1. ASSUME NEW v \in Requests, v # r PROVE RequestOk(v)'
  <2>1. req'[v] = req[v]
    BY <1>1 DEF Goto, TypeOK
  <2> QED BY <2>1, StableIndex DEF FreshInv
<1>2. RequestOk(r)'
  <2>1. req[r] \in RequestStates /\ req'[r] = [req[r] EXCEPT !.pc = p]
    BY DEF Goto, TypeOK
  <2>2. /\ req'[r].pc = p /\ req'[r].scope = req[r].scope
        /\ req'[r].epoch = req[r].epoch /\ req'[r].key = req[r].key
        /\ req'[r].built = req[r].built /\ req'[r].served = req[r].served
    BY <2>1 DEF RequestStates
  <2>3. RequestOk(r)
    BY DEF FreshInv
  <2> QED BY <2>2, <2>3 DEF RequestOk, AnswerOk, Announced, indexVars
<1> QED BY <1>1, <1>2

\* What a lookup serves is a row of the request's own scope and epoch.
LEMMA ServeOk ==
    ASSUME TypeOK, FreshInv, UNCHANGED indexVars, NEW r \in Requests,
           NEW a \in Candidates(r), Serve(r, a)
    PROVE  \A v \in Requests : RequestOk(v)'
<1>1. ASSUME NEW v \in Requests, v # r PROVE RequestOk(v)'
  <2>1. req'[v] = req[v]
    BY <1>1 DEF Serve, TypeOK
  <2> QED BY <2>1, StableIndex DEF FreshInv
<1>2. RequestOk(r)'
  <2>1. req[r] \in RequestStates
        /\ req'[r] = [req[r] EXCEPT !.pc = "answered", !.served = a]
    BY DEF Serve, TypeOK
  <2>2. /\ req'[r].pc = "answered" /\ req'[r].scope = req[r].scope
        /\ req'[r].epoch = req[r].epoch /\ req'[r].key = req[r].key
        /\ req'[r].served = a
    BY <2>1 DEF RequestStates
  <2>3. RequestOk(r) /\ AnswerOk(a) /\ a.scope = req[r].scope /\ a.epoch = req[r].epoch
    BY DEF FreshInv, Candidates
  <2> QED BY <2>2, <2>3 DEF RequestOk, AnswerOk, Announced, indexVars
<1> QED BY <1>1, <1>2

\* Every step of a request reads versions and epochs no older than it says.
LEMMA RequestKeeps ==
    ASSUME TypeOK, FreshInv, NEW r \in Requests, RequestStep(r)
    PROVE  FreshInv'
<1>0. UNCHANGED indexVars
  BY DEF RequestStep, ExactTier, SemanticTier, LookupFails, get_architecture, search_graph,
         complete, UpstreamFails, StoreReadsEpoch, StoreCommits, StoreFails, Respond
<1>1. EpochInv' /\ \A a : AnswerOk(a) => AnswerOk(a)'
  BY <1>0, StableIndex DEF FreshInv
<1>2. SUFFICES (\A a \in entries' : AnswerOk(a)) /\ (\A v \in Requests : RequestOk(v)')
  BY <1>1 DEF FreshInv
<1>3. \A a \in entries : AnswerOk(a)
  BY DEF FreshInv
<1>4. ASSUME NEW v \in Requests, req'[v] = req[v] PROVE RequestOk(v)'
  BY <1>0, <1>4, StableIndex DEF FreshInv
<1>5. CASE ExactTier(r) \/ SemanticTier(r)
  <2>1. (\E a \in Candidates(r) : Serve(r, a)) \/ Goto(r, "semantic") \/ Goto(r, "gather")
    BY <1>5 DEF ExactTier, SemanticTier, ExactMatches, SimilarMatches
  <2>2. entries' = entries
    BY <1>5 DEF ExactTier, SemanticTier
  <2> QED BY <1>0, <1>3, <2>1, <2>2, ServeOk, GotoOk
<1>6. CASE LookupFails(r) \/ UpstreamFails(r) \/ StoreFails(r)
  <2>1. entries' = entries /\ \E p \in {"gather", "failed", "answered"} : Goto(r, p)
    BY <1>6 DEF LookupFails, UpstreamFails, StoreFails
  <2> QED BY <1>0, <1>3, <2>1, GotoOk
<1>7. CASE search_graph(r) \/ complete(r)
  <2>1. entries' = entries /\ req[r].pc \in {"search", "llm"} /\ \E p \in {"llm", "store"} : Goto(r, p)
    BY <1>7 DEF search_graph, complete
  <2> QED BY <1>0, <1>3, <2>1, GotoOk
<1>8. CASE get_architecture(r)
  <2>1. /\ req[r] \in RequestStates /\ entries' = entries
        /\ req'[r] = [req[r] EXCEPT !.pc = "search", !.built = graph[req[r].scope]]
        /\ \A v \in Requests \ {r} : req'[v] = req[v]
    BY <1>8 DEF get_architecture, TypeOK
  <2>2. /\ req'[r].pc = "search" /\ req'[r].scope = req[r].scope
        /\ req'[r].epoch = req[r].epoch /\ req'[r].key = req[r].key
        /\ req'[r].built = graph[req[r].scope] /\ req'[r].served = req[r].served
    BY <2>1 DEF RequestStates
  <2>3. RequestOk(r)
    BY DEF FreshInv
  <2>4. graph[req[r].scope] >= Announced(req[r].scope, req[r].epoch)
    <3>1. req[r].scope \in Scopes /\ req[r].epoch \in 0..MaxGraph
      BY <2>1 DEF RequestStates
    <3>2. Announced(req[r].scope, req[r].epoch) <= graph[req[r].scope]
      BY <2>3, <3>1 DEF FreshInv, EpochInv, RequestOk
    <3>3. graph[req[r].scope] \in 0..MaxGraph /\ Announced(req[r].scope, req[r].epoch) \in 0..MaxGraph
      BY <3>1, VersionType DEF TypeOK, Announced
    <3> QED BY <3>2, <3>3
  <2>5. RequestOk(r)'
    BY <1>0, <2>2, <2>3, <2>4 DEF RequestOk, AnswerOk, Announced, indexVars
  <2> QED BY <1>3, <1>4, <2>1, <2>5
<1>9. CASE StoreReadsEpoch(r)
  <2>1. /\ req[r] \in RequestStates /\ entries' = entries /\ req[r].pc = "store"
        /\ req'[r] = [req[r] EXCEPT !.pc = "insert", !.key = epoch[req[r].scope]]
        /\ \A v \in Requests \ {r} : req'[v] = req[v]
    BY <1>9 DEF StoreReadsEpoch, TypeOK
  <2>2. /\ req'[r].scope = req[r].scope
        /\ req'[r].epoch = req[r].epoch /\ req'[r].key = epoch[req[r].scope]
        /\ req'[r].built = req[r].built /\ req'[r].served = req[r].served
    BY <2>1 DEF RequestStates
  <2>3. RequestOk(r)
    BY DEF FreshInv
  <2>4. epoch[req[r].scope] <= epoch[req[r].scope]
    <3>1. epoch[req[r].scope] \in 0..MaxGraph
      BY <2>1, VersionType DEF RequestStates
    <3> QED BY <3>1
  <2>5. RequestOk(r)'
    BY <1>0, <2>1, <2>2, <2>3, <2>4 DEF RequestOk, AnswerOk, Announced, indexVars
  <2> QED BY <1>3, <1>4, <2>1, <2>5
<1>10. CASE StoreCommits(r)
  <2>1. RequestOk(r) /\ req[r].pc = "insert" /\ Goto(r, "answered")
    BY <1>10 DEF FreshInv, StoreCommits
  <2>2. \A emb \in BOOLEAN : AnswerOk(NewEntry(r, emb))
    BY <2>1 DEF RequestOk, AnswerOk, NewEntry
  <2>3. \A a \in entries' : a \in entries \/ \E emb \in BOOLEAN : a = NewEntry(r, emb)
    BY <1>10 DEF StoreCommits
  <2>4. \A v \in Requests : RequestOk(v)'
    BY <1>0, <2>1, GotoOk
  <2> QED BY <1>3, <2>2, <2>3, <2>4
<1>11. CASE Respond(r)
  <2>1. PICK s \in Scopes, q \in Questions : Idle = Fresh(s, q)
    BY DEF Idle
  <2>2. /\ entries' = entries /\ req'[r] = Fresh(s, q)
        /\ \A v \in Requests \ {r} : req'[v] = req[v]
    BY <1>11, <2>1 DEF Respond, TypeOK
  <2>3. RequestOk(r)'
    BY <1>0, <2>2, FreshOk
  <2> QED BY <1>3, <1>4, <2>2, <2>3
<1> QED
  BY <1>5, <1>6, <1>7, <1>8, <1>9, <1>10, <1>11 DEF RequestStep

\* No step lets an answer fall behind the epoch its request had seen.
LEMMA FreshNext == TypeOK /\ FreshInv /\ [Next]_vars => FreshInv'
<1> SUFFICES ASSUME TypeOK, FreshInv, [Next]_vars PROVE FreshInv'
  OBVIOUS
<1>1. ASSUME NEW s \in Scopes, IndexerWrites(s) \/ GatewayIndexes(s) PROVE FreshInv'
  BY <1>1, GraphKeeps DEF IndexerWrites, GatewayIndexes
<1>2. ASSUME NEW s \in Scopes, bump_epoch(s) PROVE FreshInv'
  BY <1>2, BumpKeeps
<1>3. ASSUME UNCHANGED <<graph, epoch, announced, req>>,
             \A a \in entries' : AnswerOk(a)
      PROVE FreshInv'
  BY <1>3 DEF FreshInv, EpochInv, AnswerOk, RequestOk, Announced
<1>4. ASSUME NEW s \in Scopes, BumpFails(s) \/ clear_answer_cache(s) PROVE FreshInv'
  BY <1>3, <1>4 DEF BumpFails, clear_answer_cache, FreshInv, indexVars
<1>5. ASSUME NEW r \in Requests, NEW s \in Scopes, NEW q \in Questions, Ask(r, s, q)
      PROVE FreshInv'
  <2>1. /\ UNCHANGED indexVars /\ entries' = entries
        /\ req'[r] = [Fresh(s, q) EXCEPT !.pc = "exact", !.epoch = epoch[s]]
        /\ \A v \in Requests \ {r} : req'[v] = req[v]
    BY <1>5 DEF Ask, TypeOK
  <2>2. RequestOk(r)'
    BY <2>1, FreshOk
  <2> QED BY <2>1, <2>2, StableIndex DEF FreshInv
<1>6. ASSUME NEW r \in Requests, RequestStep(r) PROVE FreshInv'
  BY <1>6, RequestKeeps
<1>7. CASE SweepReads \/ SweepDeletes
  BY <1>3, <1>7 DEF SweepReads, SweepDeletes, FreshInv, indexVars
<1>8. ASSUME NEW e \in entries, Expire(e) PROVE FreshInv'
  <2>1. e \in Entries /\ AnswerOk(e)
    BY DEF FreshInv, TypeOK
  <2>2. AnswerOk([e EXCEPT !.expired = TRUE])
    BY <2>1 DEF AnswerOk, Entries
  <2>3. \A a \in entries' : AnswerOk(a)
    BY <1>8, <2>2 DEF Expire, FreshInv
  <2> QED BY <1>3, <1>8, <2>3 DEF Expire, indexVars
<1>9. CASE UNCHANGED vars
  BY <1>3, <1>9 DEF vars, FreshInv
<1> QED BY <1>1, <1>2, <1>4, <1>5, <1>6, <1>7, <1>8, <1>9 DEF Next

\* An answer recalled from the cache, if its own request ran within one
\* epoch, is at least as new as the graph announced by the epoch the asking
\* request looked up: the two reads of current_epoch bracket the evidence.
THEOREM RecallFresh == Spec => []RecalledIsFresh
<1>1. FreshInv => RecalledIsFresh
  BY DEF FreshInv, RequestOk, AnswerOk, Announced, RecalledIsFresh, Recalled
<1> QED BY <1>1, TypeInit, TypeNext, FreshInit, FreshNext, PTL DEF Spec

\* No answer crosses from one squad or project to another.
THEOREM RecallOwn == Spec => []RecalledIsOwn
<1>1. FreshInv => RecalledIsOwn
  BY DEF FreshInv, RequestOk, RecalledIsOwn, Recalled
<1> QED BY <1>1, TypeInit, TypeNext, FreshInit, FreshNext, PTL DEF Spec

-----------------------------------------------------------------------------
(* The sweep.                                                              *)

\* What a sweep has read is no newer than what is recorded now.
SweepInv == sweep # NoSweep => \A s \in Scopes : sweep[s] <= epoch[s]

\* Only the sweep's own steps touch what it has read, and epochs only grow.
LEMMA SweepStep ==
    ASSUME TypeOK, [Next]_vars
    PROVE  \/ sweep' = sweep /\ \A s \in Scopes : epoch[s] <= epoch'[s]
           \/ SweepReads
           \/ SweepDeletes
<1>0. epoch \in [Scopes -> Nat]
  BY DEF TypeOK
<1>1. ASSUME UNCHANGED <<epoch, sweep>>
      PROVE  sweep' = sweep /\ \A s \in Scopes : epoch[s] <= epoch'[s]
  BY <1>0, <1>1
<1>2. ASSUME NEW s \in Scopes, bump_epoch(s)
      PROVE  sweep' = sweep /\ \A t \in Scopes : epoch[t] <= epoch'[t]
  BY <1>0, <1>2 DEF bump_epoch
<1>3. ASSUME NEW s \in Scopes,
             IndexerWrites(s) \/ BumpFails(s) \/ GatewayIndexes(s) \/ clear_answer_cache(s)
      PROVE  UNCHANGED <<epoch, sweep>>
  BY <1>3 DEF IndexerWrites, BumpFails, GatewayIndexes, clear_answer_cache, indexVars
<1>4. ASSUME NEW r \in Requests, NEW s \in Scopes, NEW q \in Questions, Ask(r, s, q)
      PROVE  UNCHANGED <<epoch, sweep>>
  BY <1>4 DEF Ask, indexVars
<1>5. ASSUME NEW r \in Requests, RequestStep(r) PROVE UNCHANGED <<epoch, sweep>>
  BY <1>5 DEF RequestStep, ExactTier, SemanticTier, LookupFails, get_architecture,
     search_graph, complete, UpstreamFails, StoreReadsEpoch, StoreCommits,
     StoreFails, Respond, indexVars
<1>6. ASSUME NEW e \in entries, Expire(e) PROVE UNCHANGED <<epoch, sweep>>
  BY <1>6 DEF Expire, indexVars
<1>7. CASE UNCHANGED vars
  BY <1>1, <1>7 DEF vars, indexVars
<1> QED BY <1>1, <1>2, <1>3, <1>4, <1>5, <1>6, <1>7 DEF Next

\* The epochs a sweep has read stay behind the recorded ones.
LEMMA SweepNext == TypeOK /\ SweepInv /\ [Next]_vars => SweepInv'
<1> SUFFICES ASSUME TypeOK, SweepInv, [Next]_vars PROVE SweepInv'
  OBVIOUS
<1>0. epoch \in [Scopes -> Nat] /\ epoch' \in [Scopes -> Nat]
  <2>1. TypeOK'
    BY TypeNext
  <2>2. epoch' \in [Scopes -> 0..MaxGraph]
    BY <2>1 DEF TypeOK
  <2>3. epoch' \in [Scopes -> Nat]
    BY <2>2
  <2>4. epoch \in [Scopes -> Nat]
    BY DEF TypeOK
  <2> QED BY <2>3, <2>4
<1>1. ASSUME sweep' = sweep, \A s \in Scopes : epoch[s] <= epoch'[s] PROVE SweepInv'
  <2>1. sweep # NoSweep => sweep \in [Scopes -> Nat]
    BY DEF TypeOK
  <2> QED BY <1>0, <1>1, <2>1 DEF SweepInv
<1>2. CASE SweepReads
  BY <1>0, <1>2 DEF SweepReads, SweepInv, indexVars
<1>3. CASE SweepDeletes
  BY <1>3 DEF SweepDeletes, SweepInv
<1> QED BY <1>1, <1>2, <1>3, SweepStep

\* A sweep never costs a live answer: what it deletes is older than an epoch
\* it read, and whatever was recorded or stored since is not older than that.
THEOREM SweepsSpareLive == Spec => SweepKeepsLive
<1>1. Init => SweepInv
  BY DEF Init, SweepInv
<1>2. ASSUME TypeOK, SweepInv, [Next]_vars
      PROVE  [ sweep # NoSweep /\ sweep' = NoSweep =>
                 \A e \in entries : e.epoch = epoch[e.scope] /\ ~ e.expired
                                       => e \in entries' ]_vars
  <2> SUFFICES ASSUME sweep # NoSweep, sweep' = NoSweep,
                      NEW e \in entries, e.epoch = epoch[e.scope], ~ e.expired
               PROVE  e \in entries'
    OBVIOUS
  <2>1. SweepDeletes
    BY <1>2, SweepStep DEF SweepReads
  <2>2. e.scope \in Scopes
    BY <1>2 DEF TypeOK, Entries
  <2>3. sweep \in [Scopes -> 0..MaxGraph] /\ epoch \in [Scopes -> 0..MaxGraph]
    BY <1>2 DEF TypeOK
  <2>4. sweep[e.scope] \in Nat /\ epoch[e.scope] \in Nat
    BY <2>2, <2>3
  <2> QED BY <1>2, <2>1, <2>2, <2>4 DEF SweepDeletes, SweepInv
<1> QED BY <1>1, <1>2, TypeInit, TypeNext, SweepNext, PTL DEF Spec, SweepKeepsLive
=============================================================================
