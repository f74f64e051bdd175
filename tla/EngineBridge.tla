---------------------------- MODULE EngineBridge ----------------------------
(***************************************************************************)
(* The gateway's bridge to the indexing engine (gateway/app/cbm.py) for    *)
(* one tenant: CbmPool hands out CbmSession objects and reaps idle ones,   *)
(* CbmSession owns at most one engine process and serialises JSON-RPC over *)
(* its stdio with an asyncio.Lock.  Calls are the requests that use it:    *)
(* a proxied tool call or tools/list (one engine call), ask_codebase (two  *)
(* engine calls on one session object) and the graph page, which only      *)
(* needs the process to run.                                               *)
(*                                                                         *)
(* Every action is the code between two awaits.  Each call is made once,   *)
(* so the calls bound sessions, processes and request ids.  Time enters    *)
(* only as "idle": calls are short beside the idle timeout (120 s to 900), *)
(* so a session turns idle only when the calls that held it at its last    *)
(* use, and those that overlapped them, have let go of it.                 *)
(***************************************************************************)
EXTENDS Naturals, Sequences, FiniteSets

CONSTANTS
    Calls,      \* requests to the gateway that need the tenant's engine
    NoCall,     \* sender of what the engine writes unasked
    NoReply,    \* a call that has taken no reply yet
    MaxStray    \* bound: log lines and notifications the engine writes

ASSUME EngineBridgeAssumption ==
    /\ IsFiniteSet(Calls)
    /\ NoCall \notin Calls
    /\ MaxStray \in Nat

\* A call starts at most one process per engine call, and takes one session.
MaxProcs == 2 * Cardinality(Calls)
Sessions == 1..Cardinality(Calls)
Ids      == 0..(MaxProcs + 1)

Messages == [id : Ids, call : Calls \union {NoCall}, method : {"initialize", "tools", "none"},
             left : 0..2]
ASSUME NoReplyAssumption == NoReply \notin Messages

VARIABLES
    pool,     \* CbmPool._sessions[tenant], 0: no entry
    made,     \* CbmSession objects created so far
    ses,      \* per CbmSession: its fields
    eng,      \* the engine processes started so far
    call,     \* per call: where it is
    victim,   \* the session the reap loop has popped and has yet to close
    dying,    \* the process the reap loop waits for in close()
    gauge,    \* CBM_SESSIONS
    strays    \* lines the engine wrote unasked

vars == <<pool, made, ses, eng, call, victim, dying, gauge, strays>>
reapVars == <<victim, dying>>

\* proc, next, idle: _proc (0: None), _next_id, last_used before the cutoff.
\* lock: who holds or awaits _lock.  recent: calls too close to last_used for
\* the session to turn idle before they end.
SessionStates == [proc : 0..MaxProcs, next : Ids, idle : BOOLEAN,
                  lock : Seq(Calls), recent : SUBSET Calls]

\* up; exiting: it closed its output or was told to stop; gone: returncode is
\* set.  asked and out: requests it has yet to answer, lines not yet read.
EngineStates == [status : {"up", "exiting", "gone"}, ready : BOOLEAN, asked : SUBSET Messages,
                 out : Seq(Messages)]

CallStates == [pc : {"new", "has", "queued", "init", "reply", "closing", "ended"},
               kind : {"tool", "ask", "layout"}, left : 0..2, sess : {0} \union Sessions,
               pid : 0..MaxProcs, id : Ids, got : Messages \union {NoReply}]

TypeOK ==
    /\ pool \in {0} \union Sessions
    /\ made \in {0} \union Sessions
    /\ ses \in [Sessions -> SessionStates]
    /\ eng \in Seq(EngineStates) /\ Len(eng) <= MaxProcs
    /\ call \in [Calls -> CallStates]
    /\ victim \in {0} \union Sessions
    /\ dying \in 0..MaxProcs
    /\ gauge \in 0..MaxProcs
    /\ strays \in 0..MaxStray

NewSession == [proc |-> 0, next |-> 0, idle |-> FALSE, lock |-> <<>>, recent |-> {}]

Rounds(kind) == IF kind = "ask" THEN 2 ELSE 1

Init ==
    /\ pool = 0 /\ made = 0
    /\ ses = [x \in Sessions |-> NewSession]
    /\ eng = <<>>
    /\ call \in [Calls -> {[pc |-> "new", kind |-> k, left |-> Rounds(k), sess |-> 0,
                            pid |-> 0, id |-> 0, got |-> NoReply] :
                           k \in {"tool", "ask", "layout"}}]
    /\ victim = 0 /\ dying = 0
    /\ gauge = 0
    /\ strays = 0

-----------------------------------------------------------------------------
(* CbmPool.session, and the way to the session's lock.                     *)

\* The registered session, or a new one.  Getting it does not touch last_used.
session(r) ==
    /\ call[r].pc = "new"
    /\ \/ /\ pool # 0
          /\ call' = [call EXCEPT ![r].pc = "has", ![r].sess = pool]
          /\ ses' = [ses EXCEPT ![pool].recent =
                        IF \E q \in @ : call[q].sess = pool THEN @ \union {r} ELSE @]
          /\ UNCHANGED <<pool, made>>
       \/ /\ pool = 0
          /\ made' = made + 1
          /\ pool' = made + 1
          /\ ses' = [ses EXCEPT ![made + 1].recent = {r}]
          /\ call' = [call EXCEPT ![r].pc = "has", ![r].sess = made + 1]
    /\ UNCHANGED <<eng, reapVars, gauge, strays>>

\* After whatever the handler awaits in between (the answer cache, the
\* model), `async with self._lock`.
QueueForLock(r) ==
    /\ call[r].pc = "has"
    /\ call' = [call EXCEPT ![r].pc = "queued"]
    /\ ses' = [ses EXCEPT ![call[r].sess].lock = Append(@, r)]
    /\ UNCHANGED <<pool, made, eng, reapVars, gauge, strays>>

-----------------------------------------------------------------------------
(* CbmSession: start, request, reply.                                      *)

Holders(x) == {r \in Calls : call[r].sess = x}
Status(p)  == eng[p].status

\* Defect: the lock is not awaited.
MyTurnUnlocked(r) == call[r].pc = "queued"

\* r holds the lock of its session.
MyTurn(r) == call[r].pc = "queued" /\ Head(ses[call[r].sess].lock) = r

\* _proc is set and its returncode is None.
Running(x) == ses[x].proc # 0 /\ Status(ses[x].proc) # "gone"

\* r is answered or fails, and lets go of lock and session.
Ended(r) == [call[r] EXCEPT !.pc = "ended", !.sess = 0, !.pid = 0, !.id = 0]

\* last_used, then the request under the next id; e is the engines' state
\* after what was read in the same step.
Send(r, e) ==
    LET x == call[r].sess
        n == ses[x].next + 1
    IN  /\ ses' = [ses EXCEPT ![x].next = n, ![x].idle = FALSE, ![x].recent = Holders(x)]
        /\ eng' = [e EXCEPT ![ses[x].proc].asked = @ \union
                      {[id |-> n, call |-> r, method |-> "tools", left |-> call[r].left]}]
        /\ call' = [call EXCEPT ![r].pc = "reply", ![r].pid = ses[x].proc, ![r].id = n]

\* call_tool and list_tools with the process running.
call_tool(r) ==
    /\ MyTurn(r) /\ Running(call[r].sess)
    /\ call[r].kind # "layout"
    /\ Send(r, eng)
    /\ UNCHANGED <<pool, made, reapVars, gauge, strays>>

\* Writing to a process that closed its pipes raises; it stays attached.
WriteFails(r) ==
    /\ MyTurn(r) /\ Running(call[r].sess)
    /\ call[r].kind # "layout"
    /\ Status(ses[call[r].sess].proc) = "exiting"
    /\ ses' = [ses EXCEPT ![call[r].sess].next = @ + 1, ![call[r].sess].idle = FALSE,
                          ![call[r].sess].recent = Holders(call[r].sess),
                          ![call[r].sess].lock = Tail(@)]
    /\ call' = [call EXCEPT ![r] = Ended(r)]
    /\ UNCHANGED <<pool, made, eng, reapVars, gauge, strays>>

\* ensure_started finds the process running.
ensure_started(r) ==
    /\ MyTurn(r) /\ Running(call[r].sess)
    /\ call[r].kind = "layout"
    /\ ses' = [ses EXCEPT ![call[r].sess].lock = Tail(@)]
    /\ call' = [call EXCEPT ![r] = Ended(r)]
    /\ UNCHANGED <<pool, made, eng, reapVars, gauge, strays>>

\* Defect: the process is attached without the handshake.
SpawnNoHandshake(r) ==
    /\ MyTurn(r) /\ ~ Running(call[r].sess)
    /\ eng' = Append(eng, [status |-> "up", ready |-> FALSE, asked |-> {}, out |-> <<>>])
    /\ ses' = [ses EXCEPT ![call[r].sess].proc = Len(eng) + 1, ![call[r].sess].next = 0]
    /\ gauge' = gauge + 1
    /\ UNCHANGED <<pool, made, call, reapVars, strays>>

\* _ensure_started starts a process, counts it and writes `initialize`.
Spawn(r) ==
    /\ MyTurn(r) /\ ~ Running(call[r].sess)
    /\ LET p == Len(eng) + 1 IN
          /\ eng' = Append(eng, [status |-> "up", ready |-> FALSE,
                                 asked |-> {[id |-> 1, call |-> r, method |-> "initialize",
                                             left |-> call[r].left]},
                                 out |-> <<>>])
          /\ ses' = [ses EXCEPT ![call[r].sess].proc = p, ![call[r].sess].next = 1]
          /\ call' = [call EXCEPT ![r].pc = "init", ![r].pid = p, ![r].id = 1]
    /\ gauge' = gauge + 1
    /\ UNCHANGED <<pool, made, reapVars, strays>>

\* Defect: the error path does not release the lock.
SpawnFailsLocked(r) ==
    /\ MyTurn(r) /\ ~ Running(call[r].sess)
    /\ call' = [call EXCEPT ![r] = Ended(r)]
    /\ UNCHANGED <<pool, made, ses, eng, reapVars, gauge, strays>>

\* No cache directory, no binary, or no process to be had: CbmError.
SpawnFails(r) ==
    /\ MyTurn(r) /\ ~ Running(call[r].sess)
    /\ ses' = [ses EXCEPT ![call[r].sess].lock = Tail(@)]
    /\ call' = [call EXCEPT ![r] = Ended(r)]
    /\ UNCHANGED <<pool, made, eng, reapVars, gauge, strays>>

Waiting(r) == call[r].pc \in {"init", "reply"}
Line(r)    == Head(eng[call[r].pid].out)
Readable(r) == Waiting(r) /\ eng[call[r].pid].out # <<>>

\* A line with another id, or none, is skipped.
SkipLine(r) ==
    /\ Readable(r) /\ Line(r).id # call[r].id
    /\ eng' = [eng EXCEPT ![call[r].pid].out = Tail(@)]
    /\ UNCHANGED <<pool, made, ses, call, reapVars, gauge, strays>>

\* `initialize` is answered: notify, and on to the call itself.  If the reap
\* loop has closed the session meanwhile, _write's assertion fails instead;
\* an error reply raises CbmError and leaves the process attached.
TakeInitialize(r) ==
    /\ Readable(r) /\ call[r].pc = "init" /\ Line(r).id = call[r].id
    /\ LET x == call[r].sess
           e == [eng EXCEPT ![call[r].pid].out = Tail(@)]
       IN \/ /\ ses[x].proc # 0 /\ call[r].kind # "layout"
             /\ Send(r, e)
          \/ /\ eng' = e
             /\ ses' = [ses EXCEPT ![x].lock = Tail(@)]
             /\ call' = [call EXCEPT ![r] = Ended(r)]
    /\ UNCHANGED <<pool, made, reapVars, gauge, strays>>

\* Defect: the next line is taken for the reply, whatever its id.
TakeReplyAnyLine(r) ==
    /\ Readable(r) /\ call[r].pc = "reply"
    /\ eng' = [eng EXCEPT ![call[r].pid].out = Tail(@)]
    /\ ses' = [ses EXCEPT ![call[r].sess].lock = Tail(@)]
    /\ call' = [call EXCEPT ![r] = [Ended(r) EXCEPT !.got = Line(r), !.left = @ - 1]]
    /\ UNCHANGED <<pool, made, reapVars, gauge, strays>>

\* The reply to the call: the lock is released and the call ends, goes on to
\* its second engine call, or fails on an error reply.
TakeReply(r) ==
    /\ Readable(r) /\ call[r].pc = "reply" /\ Line(r).id = call[r].id
    /\ eng' = [eng EXCEPT ![call[r].pid].out = Tail(@)]
    /\ ses' = [ses EXCEPT ![call[r].sess].lock = Tail(@)]
    /\ \/ call' = [call EXCEPT ![r] = [Ended(r) EXCEPT !.got = Line(r), !.left = @ - 1]]
       \/ /\ call[r].left = 2
          /\ call' = [call EXCEPT ![r].pc = "has", ![r].got = Line(r), ![r].left = 1,
                                  ![r].pid = 0, ![r].id = 0]
    /\ UNCHANGED <<pool, made, reapVars, gauge, strays>>

-----------------------------------------------------------------------------
(* close(), from a call that gives up and from the reap loop.              *)

\* Defect: the early return is missing.
CloseAlwaysCounts(x) ==
    /\ ses' = [ses EXCEPT ![x].proc = 0]
    /\ gauge' = gauge - 1
    /\ UNCHANGED eng

\* Defect: the process is detached and not told to stop.
CloseForgets(x) ==
    /\ ses' = [ses EXCEPT ![x].proc = 0]
    /\ gauge' = IF Running(x) THEN gauge - 1 ELSE gauge
    /\ UNCHANGED eng

\* The process is detached; unless it has exited it is counted out and told
\* to stop, and the caller waits for it.
close(x) ==
    LET p == ses[x].proc IN
       /\ ses' = [ses EXCEPT ![x].proc = 0]
       /\ IF Running(x)
          THEN /\ gauge' = gauge - 1
               /\ eng' = [eng EXCEPT ![p].status = "exiting"]
          ELSE UNCHANGED <<gauge, eng>>

\* The call timeout, or end of file on the engine's output.
GiveUp(r) ==
    /\ Waiting(r)
    /\ close(call[r].sess)
    /\ call' = [call EXCEPT ![r].pc = "closing",
                            ![r].pid = IF Running(call[r].sess) THEN @ ELSE 0]
    /\ UNCHANGED <<pool, made, reapVars, strays>>

\* close() returns once the process it stopped is gone, and CbmError is raised.
CloseReturns(r) ==
    /\ call[r].pc = "closing"
    /\ call[r].pid # 0 => Status(call[r].pid) = "gone"
    /\ ses' = [ses EXCEPT ![call[r].sess].lock = Tail(@)]
    /\ call' = [call EXCEPT ![r] = Ended(r)]
    /\ UNCHANGED <<pool, made, eng, reapVars, gauge, strays>>

\* last_used falls behind the reap loop's cutoff.
GoIdle(x) ==
    /\ x \in 1..made /\ ~ ses[x].idle
    /\ \A r \in ses[x].recent : call[r].sess # x
    /\ ses' = [ses EXCEPT ![x].idle = TRUE]
    /\ UNCHANGED <<pool, made, eng, call, reapVars, gauge, strays>>

\* _reap_loop pops the idle session under the pool's guard ...
Reap ==
    /\ victim = 0 /\ dying = 0
    /\ pool # 0 /\ ses[pool].idle
    /\ victim' = pool
    /\ pool' = 0
    /\ UNCHANGED <<made, ses, eng, call, dying, gauge, strays>>

\* ... closes it, without its lock ...
ReapCloses ==
    /\ victim # 0
    /\ close(victim)
    /\ dying' = IF Running(victim) THEN ses[victim].proc ELSE 0
    /\ victim' = 0
    /\ UNCHANGED <<pool, made, call, strays>>

\* ... and goes on once the process is gone.
ReapReturns ==
    /\ dying # 0 /\ Status(dying) = "gone"
    /\ dying' = 0
    /\ UNCHANGED <<pool, made, ses, eng, call, victim, gauge, strays>>

-----------------------------------------------------------------------------
(* The engine (an external program).                                       *)

Answers(p) ==
    /\ Status(p) # "gone"
    /\ \E m \in eng[p].asked :
          eng' = [eng EXCEPT ![p].asked = @ \ {m}, ![p].out = Append(@, m),
                             ![p].ready = @ \/ m.method = "initialize"]
    /\ UNCHANGED <<pool, made, ses, call, reapVars, gauge, strays>>

WritesUnasked(p) ==
    /\ Status(p) = "up"
    /\ strays < MaxStray
    /\ strays' = strays + 1
    /\ eng' = [eng EXCEPT ![p].out = Append(@, [id |-> 0, call |-> NoCall,
                                                method |-> "none", left |-> 0])]
    /\ UNCHANGED <<pool, made, ses, call, reapVars, gauge>>

\* It crashes: its pipes close first, the exit status follows.
Crashes(p) ==
    /\ Status(p) = "up"
    /\ eng' = [eng EXCEPT ![p].status = "exiting"]
    /\ UNCHANGED <<pool, made, ses, call, reapVars, gauge, strays>>

\* It exits, or is killed ten seconds after it was told to stop.
Exits(p) ==
    /\ Status(p) = "exiting"
    /\ eng' = [eng EXCEPT ![p].status = "gone"]
    /\ UNCHANGED <<pool, made, ses, call, reapVars, gauge, strays>>

-----------------------------------------------------------------------------
CallStep(r) ==
    \/ session(r) \/ QueueForLock(r)
    \/ call_tool(r) \/ WriteFails(r) \/ ensure_started(r) \/ Spawn(r) \/ SpawnFails(r)
    \/ SkipLine(r) \/ TakeInitialize(r) \/ TakeReply(r)
    \/ GiveUp(r) \/ CloseReturns(r)

EngineStep(p) == Answers(p) \/ WritesUnasked(p) \/ Crashes(p) \/ Exits(p)

Next ==
    \/ \E r \in Calls : CallStep(r)
    \/ \E x \in Sessions : GoIdle(x)
    \/ Reap \/ ReapCloses \/ ReapReturns
    \/ \E p \in DOMAIN eng : EngineStep(p)

Spec == Init /\ [][Next]_vars

\* Every await of a call ends: the lock is handed over in order, a read ends
\* at the call timeout, close() kills what does not exit.  The reap loop runs
\* for ever and an unused session grows old.  Nothing is assumed of the engine.
FairSpec ==
    /\ Spec
    /\ \A r \in Calls : WF_vars(CallStep(r))
    /\ \A p \in 1..MaxProcs : WF_vars(p \in DOMAIN eng /\ Exits(p))
    /\ \A x \in Sessions : WF_vars(GoIdle(x))
    /\ WF_vars(Reap) /\ WF_vars(ReapCloses) /\ WF_vars(ReapReturns)

-----------------------------------------------------------------------------
(* Properties.                                                             *)

\* A call only ever takes the engine's answer to its own current request,
\* whatever was written unasked, timed out or reaped in between.
OwnReply ==
    \A r \in Calls : call[r].got # NoReply =>
        call[r].got.call = r /\ call[r].got.method = "tools" /\ call[r].got.left = call[r].left + 1

\* A call waiting for an answer is alone on its process, and its session has
\* no other process: what its timeout closes is what it waited for.
AloneOnProcess ==
    \A r \in Calls : Waiting(r) =>
        /\ ses[call[r].sess].proc \in {0, call[r].pid}
        /\ \A q \in Calls \ {r} : Waiting(q) => call[q].pid # call[r].pid

\* No tool request reaches an engine that has not answered `initialize`.
InitializedFirst ==
    \A p \in DOMAIN eng : (\E m \in eng[p].asked : m.method = "tools") => eng[p].ready

\* An engine no session refers to has been told to stop: neither a restart,
\* a timeout nor the reap loop drops a running process on the floor.
NoEngineDropped ==
    \A p \in DOMAIN eng : Status(p) = "up" => \E x \in Sessions : ses[x].proc = p

\* Every call ends, with an answer or an error, though the engine may hang,
\* crash or be reaped under it and other calls hold the lock before it.
CallsEnd == \A r \in Calls : <>(call[r].pc = "ended")
=============================================================================
