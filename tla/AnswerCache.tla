---------------------------- MODULE AnswerCache ----------------------------
(***************************************************************************)
(* The per-squad cache of LLM answers: storage and keys                    *)
(* (common/repo_mcp_common/answer_cache.py), the request path that uses it *)
(* (gateway/app/answer_cache.py, McpRouter._smart_tool, ask_codebase) and  *)
(* the two writers of a graph: the indexer, which records an epoch after   *)
(* it, and the engine tool index_repository called through the gateway.    *)
(*                                                                         *)
(* A scope is a (squad, project) pair.  Graph contents are versions 1, 2,  *)
(* ...: an answer is the version its evidence was read from.  Questions    *)
(* are taken after normalise(), so equality is the exact tier; Similar     *)
(* holds the pairs whose embeddings clear the threshold.  Every action is  *)
(* one database transaction, engine call or model call.                    *)
(***************************************************************************)
EXTENDS Naturals

CONSTANTS
    Scopes,     \* (tenant, project) pairs
    Requests,   \* concurrent ask_codebase calls, on any gateway replica
    Questions,  \* normalised questions
    Similar,    \* pairs of questions above the similarity threshold
    NoEntry,    \* a request that recalled nothing
    NoSweep,    \* no sweep is running
    MaxGraph,   \* bound: versions of each graph
    MaxFaults   \* bound: calls that fail a request's step

ASSUME AnswerCacheAssumption ==
    /\ Scopes # {} /\ Questions # {}
    /\ Similar \subseteq Questions \X Questions
    /\ MaxGraph \in Nat \ {0}
    /\ MaxFaults \in Nat

VARIABLES
    graph,      \* per scope: version of the engine's graph
    indexing,   \* per scope: the indexer wrote a graph and has yet to bump
    epoch,      \* per scope: project_index_state.epoch, 0 without a row
    announced,  \* per scope and epoch: the version that epoch was recorded for
    entries,    \* the rows of answer_cache
    req,        \* per request: where it is and what it has read
    sweep,      \* epochs the running sweep has read, or NoSweep
    faults

vars == <<graph, indexing, epoch, announced, entries, req, sweep, faults>>
indexVars == <<graph, indexing, epoch, announced>>

Versions == 0..MaxGraph

\* built: version behind the answer.  seen: epoch when its request looked up.
Entries == [scope : Scopes, question : Questions, epoch : Versions,
            seen : Versions, built : Versions, embedded : BOOLEAN,
            expired : BOOLEAN]
ASSUME NoEntryAssumption == NoEntry \notin Entries

Phases == {"idle", "exact", "semantic", "gather", "search", "llm", "store",
           "insert", "answered", "failed"}
RequestStates == [pc : Phases, scope : Scopes, question : Questions,
                  epoch : Versions, built : Versions, key : Versions,
                  served : Entries \union {NoEntry}]

TypeOK ==
    /\ graph \in [Scopes -> 1..MaxGraph]
    /\ indexing \in [Scopes -> BOOLEAN]
    /\ epoch \in [Scopes -> Versions]
    /\ announced \in [Scopes -> [Versions -> Versions]]
    /\ entries \subseteq Entries
    /\ req \in [Requests -> RequestStates]
    /\ sweep \in [Scopes -> Versions] \union {NoSweep}
    /\ faults \in 0..MaxFaults

\* A request that has read nothing yet; an idle one keeps nothing of the last.
Fresh(s, q) == [pc |-> "idle", scope |-> s, question |-> q, epoch |-> 0,
                built |-> 0, key |-> 0, served |-> NoEntry]
Idle == Fresh(CHOOSE s \in Scopes : TRUE, CHOOSE q \in Questions : TRUE)

Init ==
    /\ graph = [s \in Scopes |-> 1]
    /\ indexing = [s \in Scopes |-> FALSE]
    /\ epoch = [s \in Scopes |-> 0]
    /\ announced = [s \in Scopes |-> [e \in Versions |-> 0]]
    /\ entries = {}
    /\ req = [r \in Requests |-> Idle]
    /\ sweep = NoSweep
    /\ faults = 0

Fault == faults < MaxFaults /\ faults' = faults + 1

-----------------------------------------------------------------------------
(* The writers of a graph.                                                 *)

\* The indexer's engine run replaces the graph; its project lock keeps other
\* runs of the indexer out until the epoch is recorded.
IndexerWrites(s) ==
    /\ ~ indexing[s]
    /\ graph[s] < MaxGraph
    /\ graph' = [graph EXCEPT ![s] = @ + 1]
    /\ indexing' = [indexing EXCEPT ![s] = TRUE]
    /\ UNCHANGED <<epoch, announced, entries, req, sweep, faults>>

\* Defect: the row is written with the default epoch instead of the next one.
BumpToOne(s) ==
    /\ indexing[s]
    /\ epoch[s] < MaxGraph
    /\ epoch' = [epoch EXCEPT ![s] = 1]
    /\ announced' = [announced EXCEPT ![s][1] = graph[s]]
    /\ indexing' = [indexing EXCEPT ![s] = FALSE]
    /\ UNCHANGED <<graph, entries, req, sweep, faults>>

\* Defect: insert and update both add one.
BumpTwice(s) ==
    /\ indexing[s]
    /\ epoch[s] < MaxGraph
    /\ epoch' = [epoch EXCEPT ![s] = @ + 2]
    /\ announced' = [announced EXCEPT ![s][epoch[s] + 2] = graph[s]]
    /\ indexing' = [indexing EXCEPT ![s] = FALSE]
    /\ UNCHANGED <<graph, entries, req, sweep, faults>>

\* The row is created at epoch 1, or its epoch increased by 1.
bump_epoch(s) ==
    /\ indexing[s]
    /\ epoch[s] < MaxGraph
    /\ epoch' = [epoch EXCEPT ![s] = @ + 1]
    /\ announced' = [announced EXCEPT ![s][epoch[s] + 1] = graph[s]]
    /\ indexing' = [indexing EXCEPT ![s] = FALSE]
    /\ UNCHANGED <<graph, entries, req, sweep, faults>>

\* The engine was killed after writing, or the database call failed.
BumpFails(s) ==
    /\ indexing[s]
    /\ indexing' = [indexing EXCEPT ![s] = FALSE]
    /\ UNCHANGED <<graph, epoch, announced, entries, req, sweep, faults>>

\* tools/call index_repository, proxied to the squad's engine as any tool.
GatewayIndexes(s) ==
    /\ graph[s] < MaxGraph
    /\ graph' = [graph EXCEPT ![s] = @ + 1]
    /\ UNCHANGED <<indexing, epoch, announced, entries, req, sweep, faults>>

-----------------------------------------------------------------------------
(* One ask_codebase call.                                                  *)

Goto(r, phase) == req' = [req EXCEPT ![r].pc = phase]

\* AnswerCache.lookup reads the epoch that is the key of both tiers.
Ask(r, s, q) ==
    /\ req[r].pc = "idle"
    /\ req' = [req EXCEPT ![r] = [Fresh(s, q) EXCEPT !.pc = "exact", !.epoch = epoch[s]]]
    /\ UNCHANGED <<indexVars, entries, sweep, faults>>

\* Defect: the filter on squad and project is missing.
CandidatesOfAnySquad(r) ==
    {e \in entries : e.epoch = req[r].epoch /\ ~ e.expired}

\* Rows of the request's squad, project and epoch that the TTL still admits.
Candidates(r) ==
    {e \in entries : /\ e.scope = req[r].scope
                     /\ e.epoch = req[r].epoch
                     /\ ~ e.expired}

ExactMatches(r) == {e \in Candidates(r) : e.question = req[r].question}

SimilarMatches(r) ==
    {e \in Candidates(r) : e.embedded /\ <<req[r].question, e.question>> \in Similar}

Serve(r, e) == req' = [req EXCEPT ![r].pc = "answered", ![r].served = e]

ExactTier(r) ==
    /\ req[r].pc = "exact"
    /\ \/ \E e \in ExactMatches(r) : Serve(r, e)
       \/ ExactMatches(r) = {} /\ Goto(r, "semantic")
    /\ UNCHANGED <<indexVars, entries, sweep, faults>>

\* The embedding call comes first, in the same session and under the same
\* key; the lookup with the vector tries the exact tier again.  Without a
\* vector (no embedding model, or it failed) or a match, the model is asked.
SemanticTier(r) ==
    /\ req[r].pc = "semantic"
    /\ \/ \E e \in ExactMatches(r) : Serve(r, e)
       \/ ExactMatches(r) = {} /\ \E e \in SimilarMatches(r) : Serve(r, e)
       \/ Goto(r, "gather")
    /\ UNCHANGED <<indexVars, entries, sweep, faults>>

\* The database failed: swallowed, as if a miss.
LookupFails(r) ==
    /\ req[r].pc \in {"exact", "semantic"}
    /\ Fault
    /\ Goto(r, "gather")
    /\ UNCHANGED <<indexVars, entries, sweep>>

\* ask_codebase: two engine calls.  The answer is as old as the older one.
get_architecture(r) ==
    /\ req[r].pc = "gather"
    /\ req' = [req EXCEPT ![r].pc = "search", ![r].built = graph[req[r].scope]]
    /\ UNCHANGED <<indexVars, entries, sweep, faults>>

search_graph(r) ==
    /\ req[r].pc = "search"
    /\ Goto(r, "llm")
    /\ UNCHANGED <<indexVars, entries, sweep, faults>>

complete(r) ==
    /\ req[r].pc = "llm"
    /\ Goto(r, "store")
    /\ UNCHANGED <<indexVars, entries, sweep, faults>>

\* CbmError or LlmError: the call fails and nothing is stored.
UpstreamFails(r) ==
    /\ req[r].pc \in {"gather", "search", "llm"}
    /\ Fault
    /\ Goto(r, "failed")
    /\ UNCHANGED <<indexVars, entries, sweep>>

\* AnswerCache.store reads the epoch again, for the key it stores under.
StoreReadsEpoch(r) ==
    /\ req[r].pc = "store"
    /\ req' = [req EXCEPT ![r].pc = "insert", ![r].key = epoch[req[r].scope]]
    /\ UNCHANGED <<indexVars, entries, sweep, faults>>

SameKey(r) ==
    {e \in entries : /\ e.scope = req[r].scope
                     /\ e.epoch = req[r].key
                     /\ e.question = req[r].question}

NewEntry(r, emb) ==
    [scope |-> req[r].scope, question |-> req[r].question, epoch |-> req[r].key,
     seen |-> req[r].epoch, built |-> req[r].built, embedded |-> emb,
     expired |-> FALSE]

\* Defect: the store is tried again until no row is in the way.
StoreRetries(r) ==
    /\ req[r].pc = "insert"
    /\ \/ /\ SameKey(r) = {}
          /\ \E emb \in BOOLEAN : entries' = entries \union {NewEntry(r, emb)}
          /\ Goto(r, "answered")
       \/ SameKey(r) # {} /\ UNCHANGED entries /\ Goto(r, "store")
    /\ UNCHANGED <<indexVars, sweep, faults>>

\* The row of that key is deleted and the new one inserted - or a row another
\* replica committed meanwhile trips the unique constraint and stays.
\* Without a vector the row only serves the exact tier.
StoreCommits(r) ==
    /\ req[r].pc = "insert"
    /\ \/ \E emb \in BOOLEAN : entries' = (entries \ SameKey(r)) \union {NewEntry(r, emb)}
       \/ SameKey(r) # {} /\ UNCHANGED entries
    /\ Goto(r, "answered")
    /\ UNCHANGED <<indexVars, sweep, faults>>

\* The database failed: swallowed, the answer is returned all the same.
StoreFails(r) ==
    /\ req[r].pc \in {"store", "insert"}
    /\ Fault
    /\ Goto(r, "answered")
    /\ UNCHANGED <<indexVars, entries, sweep>>

\* The response is sent.
Respond(r) ==
    /\ req[r].pc \in {"answered", "failed"}
    /\ req' = [req EXCEPT ![r] = Idle]
    /\ UNCHANGED <<indexVars, entries, sweep, faults>>

-----------------------------------------------------------------------------
(* Housekeeping.                                                           *)

\* purge_superseded reads every epoch first ...
SweepReads ==
    /\ sweep = NoSweep
    /\ sweep' = epoch
    /\ UNCHANGED <<indexVars, entries, req, faults>>

\* Defect: the comparison with the epoch is off by one.
SweepDeletesCurrent ==
    /\ sweep # NoSweep
    /\ entries' = {e \in entries : e.epoch > sweep[e.scope] /\ ~ e.expired}
    /\ sweep' = NoSweep
    /\ UNCHANGED <<indexVars, req, faults>>

\* ... and deletes what is older; purge then drops what the TTL has passed.
SweepDeletes ==
    /\ sweep # NoSweep
    /\ entries' = {e \in entries : e.epoch >= sweep[e.scope] /\ ~ e.expired}
    /\ sweep' = NoSweep
    /\ UNCHANGED <<indexVars, req, faults>>

\* DELETE /answer-cache for a squad's project.
clear_answer_cache(s) ==
    /\ entries' = {e \in entries : e.scope # s}
    /\ UNCHANGED <<indexVars, req, sweep, faults>>

\* A row passes the TTL.
Expire(e) ==
    /\ ~ e.expired
    /\ entries' = (entries \ {e}) \union {[e EXCEPT !.expired = TRUE]}
    /\ UNCHANGED <<indexVars, req, sweep, faults>>

-----------------------------------------------------------------------------
RequestStep(r) ==
    \/ ExactTier(r) \/ SemanticTier(r) \/ LookupFails(r)
    \/ get_architecture(r) \/ search_graph(r) \/ complete(r) \/ UpstreamFails(r)
    \/ StoreReadsEpoch(r) \/ StoreCommits(r) \/ StoreFails(r)
    \/ Respond(r)

Next ==
    \/ \E s \in Scopes : \/ IndexerWrites(s) \/ bump_epoch(s) \/ BumpFails(s)
                         \/ GatewayIndexes(s) \/ clear_answer_cache(s)
    \/ \E r \in Requests, s \in Scopes, q \in Questions : Ask(r, s, q)
    \/ \E r \in Requests : RequestStep(r)
    \/ SweepReads \/ SweepDeletes
    \/ \E e \in entries : Expire(e)

Spec == Init /\ [][Next]_vars

\* Every call a request awaits ends: the engine, the model and the database
\* all answer, fail or time out.
FairSpec == Spec /\ \A r \in Requests : WF_vars(RequestStep(r))

-----------------------------------------------------------------------------
(* Properties.                                                             *)

Recalled(r) == req[r].pc = "answered" /\ req[r].served # NoEntry

\* A recalled answer whose own request ran within one epoch is no older than
\* the graph that was current when the asking request looked the epoch up.
RecalledIsFresh ==
    \A r \in Requests :
        Recalled(r) /\ req[r].served.seen = req[r].served.epoch
            => req[r].served.built >= announced[req[r].scope][req[r].epoch]

\* No squad is served an answer computed for another squad or project, in
\* either tier, whatever else is stored under the same epoch number.
RecalledIsOwn == \A r \in Requests : Recalled(r) => req[r].served.scope = req[r].scope

\* A sweep never costs a live answer, even when an epoch is recorded or an
\* answer stored between its read and its delete.
SweepKeepsLive ==
    [][ sweep # NoSweep /\ sweep' = NoSweep =>
          \A e \in entries : e.epoch = epoch[e.scope] /\ ~ e.expired => e \in entries' ]_vars

\* A question ends in an answer or in a failure of the engine or the model:
\* no failure of the cache keeps a request from getting there.
QuestionsEnd ==
    \A r \in Requests : req[r].pc = "exact" ~> req[r].pc \in {"answered", "failed"}

\* "every answer computed from the previous graph stops being a candidate at
\* once": nothing recalled is older than the graph its epoch was recorded for.
NothingStaleRecalled ==
    \A r \in Requests :
        Recalled(r) => req[r].served.built >= announced[req[r].scope][req[r].epoch]
=============================================================================
