------------------------- MODULE EngineBridgeProofs -------------------------
(***************************************************************************)
(* Proofs about EngineBridge, for any finite set of calls and any number   *)
(* of lines the engine writes unasked.                                     *)
(***************************************************************************)
EXTENDS EngineBridge, FiniteSetTheorems, TLAPS

USE EngineBridgeAssumption, NoReplyAssumption

-----------------------------------------------------------------------------
(* The inductive invariant, part by part.                                  *)

\* Calls that hold the lock of their session and use it; that hold or await it.
Using   == {"init", "reply", "closing"}
Queuing == {"queued"} \union Using

\* What the calls may still do, each a pair of a call and one of its rounds:
\* start a process, send a request.
Rest(states) ==
    {u \in Calls \X {1, 2} :
        /\ call[u[1]].pc # "ended"
        /\ \/ u[2] < call[u[1]].left
           \/ u[2] = call[u[1]].left /\ call[u[1]].pc \in states}
Unspawned == Rest({"new", "has", "queued"})
Unsent    == Rest({"new", "has", "queued", "init"})
Arriving  == {r \in Calls : call[r].pc = "new"}
Live      == {x \in Sessions : Running(x)}

PoolType ==
    /\ pool \in {0} \union Sessions /\ victim \in {0} \union Sessions
    /\ made \in Nat /\ gauge \in Nat /\ strays \in 0..MaxStray
    /\ dying \in 0..Len(eng) /\ gauge <= Len(eng)
SesType  == ses \in [Sessions -> SessionStates]
EngType  == eng \in Seq(EngineStates)
CallType == call \in [Calls -> CallStates]

\* A call has a session while it has one to use, and a round to go; what it
\* and its session refer to are processes there are.
Placed ==
    /\ \A r \in Calls :
          /\ call[r].pc \notin {"new", "ended"} => call[r].sess \in Sessions
          /\ call[r].pc # "ended" => call[r].left \in {1, 2}
          /\ call[r].pid \in 0..Len(eng)
          /\ Waiting(r) => call[r].pid # 0 /\ call[r].id # 0
    /\ \A x \in Sessions : ses[x].proc \in 0..Len(eng)

\* Sessions, processes, ids and the gauge stay in their range because each
\* call arrives once and, in each of its rounds, starts at most one process
\* and sends at most one request.
Budget ==
    /\ made + Cardinality(Arriving) <= Cardinality(Calls)
    /\ Len(eng) + Cardinality(Unspawned) <= MaxProcs
    /\ \A x \in Sessions : ses[x].next + Cardinality(Unsent) <= MaxProcs + 1
    /\ Cardinality(Live) <= gauge

TypeInv == PoolType /\ SesType /\ EngType /\ CallType /\ Placed /\ Budget

\* Whoever uses a session is at the head of its lock, and who waits is in it.
LockInv ==
    \A r \in Calls :
        /\ call[r].pc \in Queuing =>
              \E i \in DOMAIN ses[call[r].sess].lock : ses[call[r].sess].lock[i] = r
        /\ call[r].pc \in Using => Head(ses[call[r].sess].lock) = r

\* A process belongs to one session: its own, or the one its caller came from.
OwnedOnce ==
    /\ \A x, y \in Sessions : x # y /\ ses[x].proc # 0 => ses[x].proc # ses[y].proc
    /\ \A r \in Calls : Waiting(r) =>
          \A y \in Sessions \ {call[r].sess} : ses[y].proc # call[r].pid
ProcInv == OwnedOnce /\ AloneOnProcess

\* What a process has written, with or without what it has been asked.
Lines(e)   == {e.out[i] : i \in DOMAIN e.out}
Traffic(e) == e.asked \union Lines(e)

\* The request a waiting call has made is the only one under its id.
OwnId ==
    \A r \in Calls : Waiting(r) =>
        \A m \in Traffic(eng[call[r].pid]) : m.id = call[r].id =>
            /\ m.call = r /\ m.left = call[r].left
            /\ m.method = IF call[r].pc = "init" THEN "initialize" ELSE "tools"

\* The ids a session has yet to give are new to its process.
NextIsNew ==
    \A x \in Sessions : ses[x].proc # 0 =>
        \A m \in Traffic(eng[ses[x].proc]) : m.id <= ses[x].next

\* A process is ready once `initialize` is answered, and a session's process
\* is ready unless the call that started it still waits for that.
Handshake ==
    /\ \A p \in DOMAIN eng : (\E m \in Lines(eng[p]) : m.method = "initialize") => eng[p].ready
    /\ \A x \in Sessions : ses[x].proc # 0 /\ ~ eng[ses[x].proc].ready =>
          \E r \in Calls : call[r].pc = "init" /\ call[r].sess = x

MessageInv == OwnId /\ NextIsNew /\ OwnReply
ReadyInv == Handshake /\ InitializedFirst

-----------------------------------------------------------------------------
(* Counting.                                                               *)

\* A smaller set has fewer elements.
LEMMA Smaller ==
    ASSUME NEW S, IsFiniteSet(S), NEW T \in SUBSET S
    PROVE  /\ IsFiniteSet(T) /\ Cardinality(T) \in Nat /\ Cardinality(S) \in Nat
           /\ Cardinality(T) <= Cardinality(S)
           /\ \A u \in S : u \notin T => Cardinality(T) + 1 <= Cardinality(S)
<1>1. IsFiniteSet(T) /\ Cardinality(T) \in Nat /\ Cardinality(S) \in Nat
      /\ Cardinality(T) <= Cardinality(S)
  BY FS_Subset, FS_CardinalityType
<1>2. ASSUME NEW u \in S, u \notin T PROVE Cardinality(T) + 1 <= Cardinality(S)
  <2>1. T # S /\ Cardinality(S) # Cardinality(T)
    BY <1>2, FS_Subset
  <2> QED BY <1>1, <2>1
<1> QED BY <1>1, <1>2

\* The calls, their rounds and the sessions are finitely many.
LEMMA Sizes ==
    /\ Cardinality(Calls) \in Nat /\ MaxProcs \in Nat
    /\ IsFiniteSet(Calls \X {1, 2}) /\ Cardinality(Calls \X {1, 2}) = MaxProcs
    /\ IsFiniteSet(Sessions)
    /\ \A st : Rest(st) \in SUBSET (Calls \X {1, 2})
    /\ \A st : IsFiniteSet(Rest(st)) /\ Cardinality(Rest(st)) \in Nat
                                     /\ Cardinality(Rest(st)) <= MaxProcs
    /\ Arriving \in SUBSET Calls /\ IsFiniteSet(Arriving)
    /\ Cardinality(Arriving) \in Nat /\ Cardinality(Arriving) <= Cardinality(Calls)
    /\ Live \in SUBSET Sessions /\ IsFiniteSet(Live) /\ Cardinality(Live) \in Nat
<1>1. Cardinality(Calls) \in Nat
  BY FS_CardinalityType
<1>2. IsFiniteSet({1, 2}) /\ Cardinality({1, 2}) = 2
  <2>1. IsFiniteSet({1}) /\ Cardinality({1}) = 1
    BY FS_Singleton, Zenon
  <2>2. IsFiniteSet({1} \cup {2}) /\ Cardinality({1} \cup {2}) = Cardinality({1}) + 1
    <3>1. 2 \notin {1}
      OBVIOUS
    <3> QED BY <2>1, <3>1, FS_AddElement, Zenon
  <2>3. {1, 2} = {1} \cup {2}
    OBVIOUS
  <2> QED BY <2>1, <2>2, <2>3
<1>3. /\ MaxProcs \in Nat
      /\ IsFiniteSet(Calls \X {1, 2}) /\ Cardinality(Calls \X {1, 2}) = MaxProcs
  <2>1. IsFiniteSet(Calls \X {1, 2})
        /\ Cardinality(Calls \X {1, 2}) = Cardinality(Calls) * 2
    BY <1>2, FS_Product
  <2> QED BY <1>1, <2>1 DEF MaxProcs
<1>4. IsFiniteSet(Sessions)
  <2>1. IsFiniteSet(1..Cardinality(Calls))
    BY <1>1, FS_Interval
  <2> QED BY <2>1 DEF Sessions
<1>5. \A st : Rest(st) \in SUBSET (Calls \X {1, 2})
  BY DEF Rest
<1>6. \A st : IsFiniteSet(Rest(st)) /\ Cardinality(Rest(st)) \in Nat
                                    /\ Cardinality(Rest(st)) <= MaxProcs
  BY <1>3, <1>5, Smaller
<1>7. Arriving \in SUBSET Calls /\ Live \in SUBSET Sessions
  BY DEF Arriving, Live
<1>8. /\ IsFiniteSet(Arriving) /\ Cardinality(Arriving) \in Nat
      /\ Cardinality(Arriving) <= Cardinality(Calls)
      /\ IsFiniteSet(Live) /\ Cardinality(Live) \in Nat
  BY <1>4, <1>7, Smaller
<1> QED BY <1>1, <1>3, <1>4, <1>5, <1>6, <1>7, <1>8

\* A call that moves on has no more to do than before.
LEMMA RestShrinks ==
    ASSUME NEW st, NEW r \in Calls, \A q \in Calls \ {r} : call'[q] = call[q],
           \/ call'[r].pc = "ended"
           \/ /\ call[r].pc # "ended" /\ call'[r].left = call[r].left
              /\ call'[r].pc \in st => call[r].pc \in st
           \/ call[r].pc # "ended" /\ call[r].left = 2 /\ call'[r].left = 1
    PROVE  Rest(st)' \subseteq Rest(st)
<1> SUFFICES ASSUME NEW u \in Calls \X {1, 2}, u \in Rest(st)' PROVE u \in Rest(st)
  BY DEF Rest
<1>1. /\ call'[u[1]].pc # "ended" /\ u[1] \in Calls /\ u[2] \in {1, 2}
      /\ \/ u[2] < call'[u[1]].left
         \/ u[2] = call'[u[1]].left /\ call'[u[1]].pc \in st
  BY DEF Rest
<1>2. CASE u[1] # r
  BY <1>1, <1>2 DEF Rest
<1>3. CASE u[1] = r
  BY <1>1, <1>3 DEF Rest
<1> QED BY <1>2, <1>3

\* There is a session for whoever arrives, a process for whoever may start
\* one and an id for whoever may send.
LEMMA Room ==
    ASSUME TypeInv, NEW r \in Calls
    PROVE  /\ call[r].pc = "new" => made + 1 \in Sessions
           /\ call[r].pc = "queued" => Len(eng) + 1 <= MaxProcs
           /\ call[r].pc \in {"queued", "init"} => \A x \in Sessions : ses[x].next + 1 \in Ids
<1>0. /\ Len(eng) \in Nat /\ made \in Nat /\ \A x \in Sessions : ses[x].next \in Nat
      /\ Cardinality(Calls) \in Nat /\ MaxProcs \in Nat
  <2>1. \A x \in Sessions : ses[x] \in SessionStates
    BY DEF TypeInv, SesType
  <2>2. \A x \in Sessions : ses[x].next \in 0..(MaxProcs + 1)
    BY <2>1 DEF SessionStates, Ids
  <2> QED BY <2>2, Sizes DEF TypeInv, PoolType, EngType
<1>1. ASSUME call[r].pc = "new" PROVE made + 1 \in Sessions
  <2>1. Cardinality({}) + 1 <= Cardinality(Arriving) /\ Cardinality({}) = 0
    BY <1>1, Sizes, Smaller, FS_EmptySet DEF Arriving
  <2> QED BY <1>0, <2>1, Sizes DEF TypeInv, Budget, Sessions
<1>2. ASSUME NEW st, call[r].pc \in st, call[r].pc # "ended" PROVE 1 <= Cardinality(Rest(st))
  <2>1. <<r, call[r].left>> \in Rest(st)
    BY <1>2 DEF Rest, TypeInv, Placed
  <2>2. Cardinality({}) + 1 <= Cardinality(Rest(st)) /\ Cardinality({}) = 0
    BY <2>1, Sizes, Smaller, FS_EmptySet
  <2> QED BY <2>2
<1>3. ASSUME call[r].pc = "queued" PROVE Len(eng) + 1 <= MaxProcs
  <2>1. 1 <= Cardinality(Unspawned) /\ Cardinality(Unspawned) \in Nat
    BY <1>2, <1>3, Sizes DEF Unspawned
  <2> QED BY <1>0, <2>1 DEF TypeInv, Budget
<1>4. ASSUME call[r].pc \in {"queued", "init"}, NEW x \in Sessions PROVE ses[x].next + 1 \in Ids
  <2>1. 1 <= Cardinality(Unsent) /\ Cardinality(Unsent) \in Nat
    BY <1>2, <1>4, Sizes DEF Unsent
  <2>2. ses[x].next + Cardinality(Unsent) <= MaxProcs + 1
    BY DEF TypeInv, Budget
  <2> QED BY <1>0, <2>1, <2>2 DEF Ids
<1> QED BY <1>1, <1>3, <1>4

-----------------------------------------------------------------------------
(* What the steps change, field by field.                                  *)

OnlyCall(r) == CallType' /\ \A q \in Calls \ {r} : call'[q] = call[q]
OnlySes(x)  == SesType' /\ \A y \in Sessions \ {x} : ses'[y] = ses[y]
OnlyEng(p)  ==
    EngType' /\ Len(eng') = Len(eng) /\ \A o \in 1..Len(eng) : o # p => eng'[o] = eng[o]

\* One call changes.
LEMMA CallUpdate ==
    ASSUME CallType, NEW r \in Calls, NEW c \in CallStates, call' = [call EXCEPT ![r] = c]
    PROVE  OnlyCall(r) /\ call'[r] = c
BY DEF CallType, OnlyCall

\* One session changes.
LEMMA SesUpdate ==
    ASSUME SesType, NEW x \in Sessions, NEW s \in SessionStates, ses' = [ses EXCEPT ![x] = s]
    PROVE  OnlySes(x) /\ ses'[x] = s
BY DEF SesType, OnlySes

\* One element of a sequence changes.
LEMMA SeqUpdate ==
    ASSUME NEW e \in Seq(EngineStates), NEW p \in 1..Len(e), NEW g \in EngineStates,
           eng' = [e EXCEPT ![p] = g]
    PROVE  /\ eng' \in Seq(EngineStates) /\ Len(eng') = Len(e) /\ eng'[p] = g
           /\ \A o \in 1..Len(e) : o # p => eng'[o] = e[o]
OBVIOUS

\* One process changes.
LEMMA EngUpdate ==
    ASSUME EngType, NEW p \in 1..Len(eng), NEW e \in EngineStates, eng' = [eng EXCEPT ![p] = e]
    PROVE  OnlyEng(p) /\ eng'[p] = e
BY DEF EngType, OnlyEng

\* Types of the parts of the state.
LEMMA Parts ==
    ASSUME TypeInv
    PROVE  /\ \A r \in Calls : call[r] \in CallStates
           /\ \A x \in Sessions : ses[x] \in SessionStates
           /\ \A p \in 1..Len(eng) : eng[p] \in EngineStates
           /\ Len(eng) \in Nat /\ Len(eng) <= MaxProcs /\ DOMAIN eng = 1..Len(eng)
<1>1. Len(eng) \in Nat /\ DOMAIN eng = 1..Len(eng)
      /\ \A p \in 1..Len(eng) : eng[p] \in EngineStates
  BY DEF TypeInv, EngType
<1>2. Len(eng) <= MaxProcs
  <2>1. Cardinality(Unspawned) \in Nat /\ MaxProcs \in Nat
    BY Sizes DEF Unspawned
  <2> QED BY <1>1, <2>1 DEF TypeInv, Budget
<1> QED BY <1>1, <1>2 DEF TypeInv, CallType, SesType

\* Who holds the lock of a session.
LEMMA HoldsLock ==
    ASSUME TypeInv, LockInv, NEW r \in Calls, MyTurn(r) \/ call[r].pc \in Using
    PROVE  /\ call[r].sess \in Sessions /\ call[r].pc \in Queuing
           /\ ses[call[r].sess].lock \in Seq(Calls) /\ ses[call[r].sess].lock # <<>>
           /\ Head(ses[call[r].sess].lock) = r
           /\ call[r].left \in {1, 2}
<1>1. call[r].pc \in Queuing /\ call[r].pc \notin {"new", "ended"}
  BY DEF MyTurn, Queuing, Using
<1>2. call[r].sess \in Sessions /\ call[r].left \in {1, 2}
  BY <1>1 DEF TypeInv, Placed
<1>3. ses[call[r].sess].lock \in Seq(Calls)
  BY <1>2, Parts DEF SessionStates
<1>4. Head(ses[call[r].sess].lock) = r
  BY DEF LockInv, MyTurn
<1>5. PICK i \in DOMAIN ses[call[r].sess].lock : ses[call[r].sess].lock[i] = r
  BY <1>1 DEF LockInv
<1>6. ses[call[r].sess].lock # <<>>
  BY <1>3, <1>5
<1> QED BY <1>1, <1>2, <1>3, <1>4, <1>6

\* r lets go of the lock, and of its session or for its second round.
LetsGo(r) ==
    LET x == call[r].sess IN
    /\ OnlyCall(r) /\ OnlySes(x)
    /\ \/ call'[r].pc = "ended"
       \/ /\ call[r].pc = "reply" /\ call'[r].pc = "has" /\ call'[r].sess = x
          /\ call[r].left = 2 /\ call'[r].left = 1
    /\ call'[r].pid = 0
    /\ ses'[x].lock = Tail(ses[x].lock) /\ ses'[x].proc = ses[x].proc
    /\ \/ ses'[x].next = ses[x].next
       \/ ses'[x].next = ses[x].next + 1 /\ call[r].pc = "queued"

\* r reads a line of its process.
ReadsLine(r) ==
    LET p == call[r].pid IN
    /\ p \in 1..Len(eng) /\ eng[p].out \in Seq(Messages) /\ eng[p].out # <<>>
    /\ OnlyEng(p) /\ eng'[p].out = Tail(eng[p].out)
    /\ eng'[p].asked = eng[p].asked /\ eng'[p].status = eng[p].status
    /\ eng'[p].ready = eng[p].ready

\* The lock's next state.
LEMMA TailSes ==
    ASSUME TypeInv, LockInv, NEW r \in Calls, MyTurn(r) \/ call[r].pc \in Using,
           ses' = [ses EXCEPT ![call[r].sess].lock = Tail(@)]
    PROVE  /\ OnlySes(call[r].sess)
           /\ ses'[call[r].sess].lock = Tail(ses[call[r].sess].lock)
           /\ ses'[call[r].sess].proc = ses[call[r].sess].proc
           /\ ses'[call[r].sess].next = ses[call[r].sess].next
<1> DEFINE x == call[r].sess
           s == [ses[x] EXCEPT !.lock = Tail(ses[x].lock)]
<1>1. x \in Sessions /\ ses[x] \in SessionStates /\ Tail(ses[x].lock) \in Seq(Calls)
  BY HoldsLock, Parts
<1>2. /\ s \in SessionStates /\ s.lock = Tail(ses[x].lock) /\ s.proc = ses[x].proc
      /\ s.next = ses[x].next
  BY <1>1 DEF SessionStates
<1>3. ses' = [ses EXCEPT ![x] = s]
  BY <1>1 DEF TypeInv, SesType
<1> HIDE DEF s, x
<1>4. OnlySes(x) /\ ses'[x] = s
  BY <1>1, <1>2, <1>3, SesUpdate DEF TypeInv
<1> QED BY <1>2, <1>4 DEF x

\* A call that is over.
LEMMA EndedCall ==
    ASSUME TypeInv, NEW r \in Calls, call' = [call EXCEPT ![r] = Ended(r)]
    PROVE  /\ OnlyCall(r) /\ call'[r].pc = "ended" /\ call'[r].pid = 0
           /\ call'[r].got = call[r].got /\ call'[r].left = call[r].left
<1>1. call[r] \in CallStates /\ MaxProcs \in Nat
  BY Parts, Sizes
<1>2. 0 \in 0..MaxProcs /\ 0 \in Ids
  BY <1>1 DEF Ids
<1>3. /\ Ended(r) \in CallStates /\ Ended(r).pc = "ended" /\ Ended(r).pid = 0
      /\ Ended(r).got = call[r].got /\ Ended(r).left = call[r].left
  BY <1>1, <1>2 DEF Ended, CallStates
<1> QED BY <1>3, CallUpdate DEF TypeInv

\* ensure_started, SpawnFails and CloseReturns.
LEMMA EndStep ==
    ASSUME TypeInv, LockInv, NEW r \in Calls,
           ensure_started(r) \/ SpawnFails(r) \/ CloseReturns(r)
    PROVE  LetsGo(r) /\ call'[r].got = call[r].got /\ call'[r].left = call[r].left
<1>1. /\ MyTurn(r) \/ call[r].pc \in Using
      /\ ses' = [ses EXCEPT ![call[r].sess].lock = Tail(@)]
      /\ call' = [call EXCEPT ![r] = Ended(r)]
  BY DEF ensure_started, SpawnFails, CloseReturns, Using
<1> QED BY <1>1, TailSes, EndedCall DEF LetsGo

\* A request that cannot be written has used up an id.
LEMMA WriteFailsStep ==
    ASSUME TypeInv, LockInv, NEW r \in Calls, WriteFails(r)
    PROVE  LetsGo(r) /\ call'[r].got = call[r].got /\ call'[r].left = call[r].left
<1> DEFINE x == call[r].sess
           s == [ses[x] EXCEPT !.next = ses[x].next + 1, !.idle = FALSE, !.recent = Holders(x),
                               !.lock = Tail(ses[x].lock)]
<1>0. MyTurn(r) /\ call[r].pc = "queued"
  BY DEF WriteFails, MyTurn
<1>1. x \in Sessions /\ ses[x] \in SessionStates /\ Tail(ses[x].lock) \in Seq(Calls)
  BY <1>0, HoldsLock, Parts
<1>2. ses[x].next + 1 \in Ids /\ Holders(x) \in SUBSET Calls
  BY <1>0, <1>1, Room DEF Holders
<1>3. /\ s \in SessionStates /\ s.lock = Tail(ses[x].lock) /\ s.proc = ses[x].proc
      /\ s.next = ses[x].next + 1
  BY <1>1, <1>2 DEF SessionStates
<1>4. ses' = [ses EXCEPT ![x] = s]
  BY <1>1 DEF TypeInv, SesType, WriteFails
<1> HIDE DEF s
<1>5. OnlySes(x) /\ ses'[x] = s
  BY <1>1, <1>3, <1>4, SesUpdate DEF TypeInv
<1>6. call' = [call EXCEPT ![r] = Ended(r)]
  BY DEF WriteFails
<1> QED BY <1>0, <1>3, <1>5, <1>6, EndedCall DEF LetsGo

\* The process of a waiting call, and the line it reads.
LEMMA ReadStep ==
    ASSUME TypeInv, NEW r \in Calls, Readable(r),
           eng' = [eng EXCEPT ![call[r].pid].out = Tail(@)]
    PROVE  ReadsLine(r)
<1> DEFINE p == call[r].pid
           e == [eng[p] EXCEPT !.out = Tail(eng[p].out)]
<1>1. p \in 1..Len(eng)
  BY Parts DEF Readable, TypeInv, Placed
<1>2. eng[p] \in EngineStates /\ eng[p].out # <<>>
  BY <1>1, Parts DEF Readable
<1>3. eng[p].out \in Seq(Messages) /\ Tail(eng[p].out) \in Seq(Messages)
  BY <1>2 DEF EngineStates
<1>4. /\ e \in EngineStates /\ e.out = Tail(eng[p].out) /\ e.asked = eng[p].asked
      /\ e.status = eng[p].status /\ e.ready = eng[p].ready
  BY <1>2, <1>3 DEF EngineStates
<1>5. eng' = [eng EXCEPT ![p] = e]
  BY <1>1 DEF TypeInv, EngType
<1> HIDE DEF e
<1>6. OnlyEng(p) /\ eng'[p] = e
  BY <1>1, <1>4, <1>5, EngUpdate DEF TypeInv
<1> QED BY <1>1, <1>2, <1>3, <1>4, <1>6 DEF ReadsLine

\* The line a call reads is a message of its process.
LEMMA LineType ==
    ASSUME TypeInv, NEW r \in Calls, Readable(r)
    PROVE  Line(r) \in Messages /\ Line(r) \in Lines(eng[call[r].pid])
<1> DEFINE p == call[r].pid
<1>1. p \in 1..Len(eng)
  BY Parts DEF Readable, TypeInv, Placed
<1>2. eng[p] \in EngineStates /\ eng[p].out # <<>>
  BY <1>1, Parts DEF Readable
<1>3. eng[p].out \in Seq(Messages)
  BY <1>2 DEF EngineStates
<1>4. Line(r) = eng[p].out[1] /\ 1 \in DOMAIN eng[p].out
  BY <1>2, <1>3 DEF Line
<1> QED BY <1>3, <1>4 DEF Lines

\* A reply ends the call or its first round.
LEMMA TakeReplyStep ==
    ASSUME TypeInv, LockInv, NEW r \in Calls, TakeReply(r)
    PROVE  /\ LetsGo(r) /\ ReadsLine(r)
           /\ call'[r].got = Line(r) /\ call'[r].left = call[r].left - 1
<1>1. /\ Readable(r) /\ call[r].pc = "reply" /\ call[r].pc \in Using
      /\ eng' = [eng EXCEPT ![call[r].pid].out = Tail(@)]
      /\ ses' = [ses EXCEPT ![call[r].sess].lock = Tail(@)]
  BY DEF TakeReply, Using
<1>2. call[r] \in CallStates /\ Line(r) \in Messages /\ call[r].left \in {1, 2}
  BY <1>1, Parts, LineType, HoldsLock
<1>3. MaxProcs \in Nat /\ 0 \in 0..MaxProcs /\ 0 \in Ids
  BY Sizes DEF Ids
<1>4. CASE call' = [call EXCEPT ![r] = [Ended(r) EXCEPT !.got = Line(r), !.left = @ - 1]]
  <2> DEFINE c == [Ended(r) EXCEPT !.got = Line(r), !.left = Ended(r).left - 1]
  <2>1. /\ c \in CallStates /\ c.pc = "ended" /\ c.pid = 0
        /\ c.got = Line(r) /\ c.left = call[r].left - 1
    <3>1. /\ Ended(r) \in CallStates /\ Ended(r).pc = "ended" /\ Ended(r).pid = 0
          /\ Ended(r).left = call[r].left
      BY <1>2, <1>3 DEF Ended, CallStates
    <3>2. call[r].left - 1 \in 0..2
      BY <1>2
    <3> QED BY <1>2, <3>1, <3>2 DEF CallStates
  <2>2. call' = [call EXCEPT ![r] = c]
    BY <1>4
  <2> HIDE DEF c
  <2>3. OnlyCall(r) /\ call'[r] = c
    BY <2>1, <2>2, CallUpdate DEF TypeInv
  <2> QED BY <1>1, <2>1, <2>3, TailSes, ReadStep DEF LetsGo
<1>5. CASE /\ call[r].left = 2
           /\ call' = [call EXCEPT ![r].pc = "has", ![r].got = Line(r), ![r].left = 1,
                                   ![r].pid = 0, ![r].id = 0]
  <2> DEFINE c == [call[r] EXCEPT !.pc = "has", !.got = Line(r), !.left = 1, !.pid = 0, !.id = 0]
  <2>1. /\ c \in CallStates /\ c.pc = "has" /\ c.pid = 0 /\ c.sess = call[r].sess
        /\ c.got = Line(r) /\ c.left = 1
    <3>1. 1 \in 0..2 /\ Line(r) \in Messages \union {NoReply}
      BY <1>2
    <3> QED BY <1>2, <1>3, <3>1 DEF CallStates
  <2>2. call' = [call EXCEPT ![r] = c]
    BY <1>2, <1>5 DEF TypeInv, CallType, CallStates
  <2> HIDE DEF c
  <2>3. OnlyCall(r) /\ call'[r] = c
    BY <2>1, <2>2, CallUpdate DEF TypeInv
  <2>4. call[r].left - 1 = 1
    BY <1>5
  <2> QED BY <1>1, <1>5, <2>1, <2>3, <2>4, TailSes, ReadStep DEF LetsGo
<1> QED BY <1>4, <1>5 DEF TakeReply

\* r sends the request of its round, under the next id, to the process of its
\* session, having read a line or not.
Sends(r) ==
    LET x == call[r].sess
        p == ses[x].proc
    IN
    /\ OnlyCall(r) /\ OnlySes(x) /\ OnlyEng(p) /\ p \in 1..Len(eng)
    /\ call'[r].pc = "reply" /\ call'[r].pid = p /\ call'[r].id = ses[x].next + 1
    /\ call'[r].sess = x /\ call'[r].left = call[r].left /\ call'[r].got = call[r].got
    /\ ses'[x].proc = p /\ ses'[x].next = ses[x].next + 1 /\ ses'[x].lock = ses[x].lock
    /\ eng'[p].asked = eng[p].asked \union
          {[id |-> ses[x].next + 1, call |-> r, method |-> "tools", left |-> call[r].left]}
    /\ eng'[p].out \in {eng[p].out, Tail(eng[p].out)}
    /\ eng'[p].status = eng[p].status /\ eng'[p].ready = eng[p].ready

\* What sending a request changes.
LEMMA SendStep ==
    ASSUME TypeInv, LockInv, NEW r \in Calls, NEW e \in Seq(EngineStates),
           MyTurn(r) \/ call[r].pc = "init", Send(r, e),
           NEW p, p = ses[call[r].sess].proc, p # 0,
           Len(e) = Len(eng), \A o \in 1..Len(eng) : o # p => e[o] = eng[o],
           e[p].asked = eng[p].asked, e[p].out \in {eng[p].out, Tail(eng[p].out)},
           e[p].status = eng[p].status, e[p].ready = eng[p].ready
    PROVE  Sends(r)
<1> DEFINE x == call[r].sess
           n == ses[x].next + 1
           m == [id |-> n, call |-> r, method |-> "tools", left |-> call[r].left]
           s == [ses[x] EXCEPT !.next = n, !.idle = FALSE, !.recent = Holders(x)]
           c == [call[r] EXCEPT !.pc = "reply", !.pid = p, !.id = n]
           g == [e[p] EXCEPT !.asked = e[p].asked \union {m}]
<1>a. /\ TypeInv /\ LockInv /\ r \in Calls /\ (MyTurn(r) \/ call[r].pc = "init")
      /\ p = ses[x].proc /\ p # 0
  OBVIOUS
<1>0. call[r].pc \in {"queued", "init"} /\ (MyTurn(r) \/ call[r].pc \in Using)
  BY ONLY <1>a DEF MyTurn, Using
<1>1. x \in Sessions /\ ses[x] \in SessionStates /\ call[r] \in CallStates
      /\ call[r].left \in {1, 2}
  BY ONLY <1>a, <1>0, HoldsLock, Parts
<1>2. n \in Ids /\ Holders(x) \in SUBSET Calls
  BY ONLY <1>a, <1>0, <1>1, Room DEF Holders
<1>3. p \in 1..Len(eng) /\ p \in 0..MaxProcs
  <2>1. p \in 0..Len(eng) /\ p # 0
    BY ONLY <1>a, <1>1 DEF TypeInv, Placed
  <2>2. Len(eng) \in Nat /\ Len(eng) <= MaxProcs /\ MaxProcs \in Nat
    BY ONLY <1>a, Parts, Sizes
  <2> QED BY ONLY <2>1, <2>2
<1>4. s \in SessionStates /\ s.lock = ses[x].lock /\ s.proc = p /\ s.next = n
  BY ONLY <1>a, <1>1, <1>2 DEF SessionStates
<1>5. m \in Messages
  <2>1. call[r].left \in 0..2
    BY ONLY <1>1
  <2> QED BY ONLY <1>a, <1>2, <2>1 DEF Messages
<1>6. /\ c \in CallStates /\ c.pc = "reply" /\ c.pid = p /\ c.id = n /\ c.sess = x
      /\ c.left = call[r].left /\ c.got = call[r].got
  BY ONLY <1>a, <1>1, <1>2, <1>3 DEF CallStates
<1>7. e[p] \in EngineStates
  <2>1. e \in Seq(EngineStates) /\ p \in 1..Len(e)
    BY <1>3
  <2> QED BY ONLY <2>1
<1>8. /\ g \in EngineStates /\ g.asked = e[p].asked \union {m} /\ g.out = e[p].out
      /\ g.status = e[p].status /\ g.ready = e[p].ready
  <2>1. e[p].asked \union {m} \in SUBSET Messages
    BY <1>5, <1>7 DEF EngineStates
  <2> HIDE DEF m
  <2> QED BY <1>7, <2>1 DEF EngineStates
<1>9. ses' = [ses EXCEPT ![x] = s]
  BY <1>1 DEF TypeInv, SesType, Send
<1>10. call' = [call EXCEPT ![r] = c]
  BY <1>1 DEF TypeInv, CallType, Send
<1>11. eng' = [e EXCEPT ![p] = g]
  BY <1>3 DEF Send
<1> HIDE DEF s, c, g
<1>12. OnlySes(x) /\ ses'[x] = s
  BY <1>1, <1>4, <1>9, SesUpdate DEF TypeInv
<1>13. OnlyCall(r) /\ call'[r] = c
  BY <1>6, <1>10, CallUpdate DEF TypeInv
<1>14. OnlyEng(p) /\ eng'[p] = g
  <2>0. p \in 1..Len(e) /\ g \in EngineStates
    BY <1>3, <1>8
  <2>1. /\ eng' \in Seq(EngineStates) /\ Len(eng') = Len(e) /\ eng'[p] = g
        /\ \A o \in 1..Len(e) : o # p => eng'[o] = e[o]
    BY <1>11, <2>0, SeqUpdate
  <2> QED BY <2>1 DEF OnlyEng, EngType
<1> QED BY <1>3, <1>4, <1>6, <1>8, <1>12, <1>13, <1>14 DEF Sends

\* A request to a process that runs.
LEMMA CallToolStep ==
    ASSUME TypeInv, LockInv, NEW r \in Calls, call_tool(r)
    PROVE  Sends(r)
<1>1. MyTurn(r) /\ ses[call[r].sess].proc # 0 /\ Send(r, eng)
  BY DEF call_tool, Running
<1>2. eng \in Seq(EngineStates)
  BY DEF TypeInv, EngType
<1> QED BY <1>1, <1>2, SendStep

\* The answer to `initialize` is followed by the request, or ends the call.
LEMMA TakeInitializeStep ==
    ASSUME TypeInv, LockInv, ProcInv, NEW r \in Calls, TakeInitialize(r)
    PROVE  \/ Sends(r) /\ call[r].pc = "init" /\ ses[call[r].sess].proc = call[r].pid
           \/ /\ LetsGo(r) /\ ReadsLine(r) /\ call[r].pc = "init"
              /\ call'[r].got = call[r].got /\ call'[r].left = call[r].left
<1> DEFINE e == [eng EXCEPT ![call[r].pid].out = Tail(@)]
<1>1. Readable(r) /\ call[r].pc = "init" /\ call[r].pc \in Using
  BY DEF TakeInitialize, Using
<1>2. CASE ses[call[r].sess].proc # 0 /\ Send(r, e)
  <2> DEFINE p == call[r].pid
             g == [eng[p] EXCEPT !.out = Tail(eng[p].out)]
  <2>1. p = ses[call[r].sess].proc /\ p # 0
    BY <1>1, <1>2 DEF ProcInv, AloneOnProcess, Readable
  <2>2. p \in 1..Len(eng)
    BY <1>1, <2>1, Parts DEF TypeInv, Placed
  <2>3. eng[p] \in EngineStates /\ eng[p].out # <<>>
    BY <1>1, <2>2, Parts DEF Readable
  <2>4. Tail(eng[p].out) \in Seq(Messages)
    BY <2>3 DEF EngineStates
  <2>5. /\ g \in EngineStates /\ g.out = Tail(eng[p].out) /\ g.asked = eng[p].asked
        /\ g.status = eng[p].status /\ g.ready = eng[p].ready
    BY <2>3, <2>4 DEF EngineStates
  <2>6. e = [eng EXCEPT ![p] = g]
    BY <2>2 DEF TypeInv, EngType
  <2>7. eng \in Seq(EngineStates)
    BY DEF TypeInv, EngType
  <2> HIDE DEF p, g, e
  <2>8. /\ e \in Seq(EngineStates) /\ Len(e) = Len(eng) /\ e[p] = g
        /\ \A o \in 1..Len(eng) : o # p => e[o] = eng[o]
    BY <2>2, <2>5, <2>6, <2>7
  <2> QED BY <1>1, <1>2, <2>1, <2>5, <2>8, SendStep DEF p
<1>3. CASE /\ eng' = e /\ ses' = [ses EXCEPT ![call[r].sess].lock = Tail(@)]
           /\ call' = [call EXCEPT ![r] = Ended(r)]
  BY <1>1, <1>3, TailSes, EndedCall, ReadStep DEF LetsGo
<1> QED BY <1>2, <1>3 DEF TakeInitialize

\* A new process, which has been asked to initialize.
LEMMA SpawnStep ==
    ASSUME TypeInv, LockInv, NEW r \in Calls, Spawn(r)
    PROVE  /\ OnlyCall(r) /\ OnlySes(call[r].sess) /\ MyTurn(r) /\ ~ Running(call[r].sess)
           /\ call'[r].pc = "init" /\ call'[r].pid = Len(eng) + 1 /\ call'[r].id = 1
           /\ call'[r].sess = call[r].sess /\ call'[r].left = call[r].left
           /\ call'[r].got = call[r].got
           /\ ses'[call[r].sess].proc = Len(eng) + 1 /\ ses'[call[r].sess].next = 1
           /\ ses'[call[r].sess].lock = ses[call[r].sess].lock
           /\ EngType' /\ Len(eng') = Len(eng) + 1
           /\ \A o \in 1..Len(eng) : eng'[o] = eng[o]
           /\ eng'[Len(eng) + 1] =
                 [status |-> "up", ready |-> FALSE,
                  asked |-> {[id |-> 1, call |-> r, method |-> "initialize", left |-> call[r].left]},
                  out |-> <<>>]
<1> DEFINE x == call[r].sess
           p == Len(eng) + 1
           m == [id |-> 1, call |-> r, method |-> "initialize", left |-> call[r].left]
           s == [ses[x] EXCEPT !.proc = p, !.next = 1]
           c == [call[r] EXCEPT !.pc = "init", !.pid = p, !.id = 1]
           g == [status |-> "up", ready |-> FALSE, asked |-> {m}, out |-> <<>>]
<1>0. MyTurn(r) /\ call[r].pc = "queued" /\ ~ Running(x)
  BY DEF MyTurn, Spawn
<1>1. x \in Sessions /\ ses[x] \in SessionStates /\ call[r] \in CallStates
      /\ call[r].left \in {1, 2}
  BY <1>0, HoldsLock, Parts
<1>2. p \in 0..MaxProcs /\ 1 \in Ids
  <2>1. Len(eng) \in Nat /\ MaxProcs \in Nat /\ Len(eng) + 1 <= MaxProcs
    BY <1>0, Parts, Sizes, Room
  <2> QED BY <2>1 DEF Ids
<1>3. s \in SessionStates /\ s.lock = ses[x].lock /\ s.proc = p /\ s.next = 1
  BY <1>1, <1>2 DEF SessionStates
<1>4. /\ c \in CallStates /\ c.pc = "init" /\ c.pid = p /\ c.id = 1 /\ c.sess = x
      /\ c.left = call[r].left /\ c.got = call[r].got
  BY <1>1, <1>2 DEF CallStates
<1>5. g \in EngineStates
  <2>1. call[r].left \in 0..2
    BY <1>1
  <2>2. m \in Messages
    BY <1>2, <2>1 DEF Messages
  <2> HIDE DEF m
  <2> QED BY <2>2 DEF EngineStates
<1>6. ses' = [ses EXCEPT ![x] = s]
  BY <1>1 DEF TypeInv, SesType, Spawn
<1>7. call' = [call EXCEPT ![r] = c]
  BY <1>1 DEF TypeInv, CallType, Spawn
<1>8. eng' = Append(eng, g) /\ eng \in Seq(EngineStates)
  BY DEF Spawn, TypeInv, EngType
<1> HIDE DEF s, c, g
<1>9. OnlySes(x) /\ ses'[x] = s
  BY <1>1, <1>3, <1>6, SesUpdate DEF TypeInv
<1>10. OnlyCall(r) /\ call'[r] = c
  BY <1>4, <1>7, CallUpdate DEF TypeInv
<1>11. /\ eng' \in Seq(EngineStates) /\ Len(eng') = Len(eng) + 1 /\ eng'[p] = g
       /\ \A o \in 1..Len(eng) : eng'[o] = eng[o]
  BY <1>5, <1>8
<1> QED BY <1>0, <1>3, <1>4, <1>9, <1>10, <1>11 DEF EngType, g

\* A session for a call that arrives.
LEMMA SessionStep ==
    ASSUME TypeInv, NEW r \in Calls, session(r)
    PROVE  /\ OnlyCall(r) /\ SesType'
           /\ \A x \in Sessions : /\ ses'[x].proc = ses[x].proc /\ ses'[x].next = ses[x].next
                                  /\ ses'[x].lock = ses[x].lock
           /\ call[r].pc = "new" /\ call'[r].pc = "has" /\ call'[r].sess \in Sessions
           /\ call'[r].left = call[r].left /\ call'[r].pid = call[r].pid
           /\ call'[r].got = call[r].got
           /\ pool' \in Sessions /\ made' \in {made, made + 1}
<1>0. call[r].pc = "new" /\ call[r] \in CallStates
  BY Parts DEF session
<1>1. PICK y \in Sessions : /\ call' = [call EXCEPT ![r].pc = "has", ![r].sess = y]
                            /\ \E C \in SUBSET Calls : ses' = [ses EXCEPT ![y].recent = C]
                            /\ pool' = y /\ made' \in {made, made + 1}
  <2>1. CASE /\ pool # 0 /\ call' = [call EXCEPT ![r].pc = "has", ![r].sess = pool]
             /\ ses' = [ses EXCEPT ![pool].recent =
                           IF \E q \in @ : call[q].sess = pool THEN @ \union {r} ELSE @]
             /\ UNCHANGED <<pool, made>>
    <3>1. pool \in Sessions
      BY <2>1 DEF TypeInv, PoolType
    <3> DEFINE C == IF \E q \in ses[pool].recent : call[q].sess = pool
                    THEN ses[pool].recent \union {r} ELSE ses[pool].recent
    <3>2. ses[pool].recent \in SUBSET Calls
      BY <3>1, Parts DEF SessionStates
    <3>3. C \in SUBSET Calls
      BY <3>2
    <3>4. ses' = [ses EXCEPT ![pool].recent = C]
      BY <2>1, <3>1 DEF TypeInv, SesType
    <3> QED BY <2>1, <3>1, <3>3, <3>4
  <2>2. CASE /\ made' = made + 1 /\ pool' = made + 1
             /\ ses' = [ses EXCEPT ![made + 1].recent = {r}]
             /\ call' = [call EXCEPT ![r].pc = "has", ![r].sess = made + 1]
    BY <1>0, <2>2, Room
  <2> QED BY <2>1, <2>2 DEF session
<1>2. PICK C \in SUBSET Calls : ses' = [ses EXCEPT ![y].recent = C]
  BY <1>1
<1> DEFINE s == [ses[y] EXCEPT !.recent = C]
           c == [call[r] EXCEPT !.pc = "has", !.sess = y]
<1>3. /\ s \in SessionStates /\ s.proc = ses[y].proc /\ s.next = ses[y].next
      /\ s.lock = ses[y].lock
  <2>1. ses[y] \in SessionStates
    BY Parts
  <2> QED BY <2>1 DEF SessionStates
<1>4. /\ c \in CallStates /\ c.pc = "has" /\ c.sess = y /\ c.left = call[r].left
      /\ c.pid = call[r].pid /\ c.got = call[r].got
  BY <1>0 DEF CallStates
<1>5. ses' = [ses EXCEPT ![y] = s] /\ call' = [call EXCEPT ![r] = c]
  BY <1>1, <1>2 DEF TypeInv, SesType, CallType
<1> HIDE DEF s, c
<1>6. OnlySes(y) /\ ses'[y] = s
  BY <1>3, <1>5, SesUpdate DEF TypeInv
<1>7. OnlyCall(r) /\ call'[r] = c
  BY <1>4, <1>5, CallUpdate DEF TypeInv
<1> QED BY <1>0, <1>1, <1>3, <1>4, <1>6, <1>7 DEF OnlySes

\* A call queues behind whoever uses the session.
LEMMA QueueStep ==
    ASSUME TypeInv, NEW r \in Calls, QueueForLock(r)
    PROVE  /\ OnlyCall(r) /\ OnlySes(call[r].sess) /\ call[r].sess \in Sessions
           /\ call[r].pc = "has" /\ call'[r].pc = "queued" /\ call'[r].sess = call[r].sess
           /\ call'[r].left = call[r].left /\ call'[r].pid = call[r].pid
           /\ call'[r].got = call[r].got
           /\ ses'[call[r].sess].proc = ses[call[r].sess].proc
           /\ ses'[call[r].sess].next = ses[call[r].sess].next
           /\ ses'[call[r].sess].lock = Append(ses[call[r].sess].lock, r)
<1> DEFINE x == call[r].sess
           s == [ses[x] EXCEPT !.lock = Append(ses[x].lock, r)]
           c == [call[r] EXCEPT !.pc = "queued"]
<1>1. call[r].pc = "has" /\ x \in Sessions /\ call[r] \in CallStates /\ ses[x] \in SessionStates
  BY Parts DEF QueueForLock, TypeInv, Placed
<1>2. /\ s \in SessionStates /\ s.proc = ses[x].proc /\ s.next = ses[x].next
      /\ s.lock = Append(ses[x].lock, r)
  <2>1. Append(ses[x].lock, r) \in Seq(Calls)
    BY <1>1 DEF SessionStates
  <2> QED BY <1>1, <2>1 DEF SessionStates
<1>3. /\ c \in CallStates /\ c.pc = "queued" /\ c.sess = x /\ c.left = call[r].left
      /\ c.pid = call[r].pid /\ c.got = call[r].got
  BY <1>1 DEF CallStates
<1>4. ses' = [ses EXCEPT ![x] = s] /\ call' = [call EXCEPT ![r] = c]
  BY <1>1 DEF QueueForLock, TypeInv, SesType, CallType
<1> HIDE DEF s, c
<1>5. OnlySes(x) /\ ses'[x] = s
  BY <1>1, <1>2, <1>4, SesUpdate DEF TypeInv
<1>6. OnlyCall(r) /\ call'[r] = c
  BY <1>3, <1>4, CallUpdate DEF TypeInv
<1> QED BY <1>1, <1>2, <1>3, <1>5, <1>6

\* A session gives up its process, which is told to stop unless it is gone.
Closes(x) ==
    /\ OnlySes(x) /\ ses'[x].proc = 0 /\ ses'[x].next = ses[x].next
    /\ ses'[x].lock = ses[x].lock
    /\ \/ /\ Running(x) /\ gauge' = gauge - 1
          /\ ses[x].proc \in 1..Len(eng) /\ OnlyEng(ses[x].proc)
          /\ eng'[ses[x].proc].status = "exiting"
          /\ eng'[ses[x].proc].asked = eng[ses[x].proc].asked
          /\ eng'[ses[x].proc].out = eng[ses[x].proc].out
          /\ eng'[ses[x].proc].ready = eng[ses[x].proc].ready
       \/ ~ Running(x) /\ UNCHANGED <<gauge, eng>>

\* What close() changes.
LEMMA CloseStep ==
    ASSUME TypeInv, NEW x \in Sessions, close(x)
    PROVE  Closes(x)
<1> DEFINE p == ses[x].proc
           s == [ses[x] EXCEPT !.proc = 0]
<1>1. ses[x] \in SessionStates /\ MaxProcs \in Nat /\ 0 \in 0..MaxProcs
  BY Parts, Sizes
<1>2. s \in SessionStates /\ s.proc = 0 /\ s.next = ses[x].next /\ s.lock = ses[x].lock
  BY <1>1 DEF SessionStates
<1>3. ses' = [ses EXCEPT ![x] = s]
  BY DEF close, TypeInv, SesType
<1> HIDE DEF s
<1>4. OnlySes(x) /\ ses'[x] = s
  BY <1>2, <1>3, SesUpdate DEF TypeInv
<1>5. CASE Running(x)
  <2> DEFINE e == [eng[p] EXCEPT !.status = "exiting"]
  <2>1. p \in 1..Len(eng) /\ gauge' = gauge - 1
    BY <1>5, Parts DEF Running, TypeInv, Placed, close
  <2>2. /\ e \in EngineStates /\ e.status = "exiting" /\ e.asked = eng[p].asked
        /\ e.out = eng[p].out /\ e.ready = eng[p].ready
    <3>1. eng[p] \in EngineStates
      BY <2>1, Parts
    <3> QED BY <3>1 DEF EngineStates
  <2>3. eng' = [eng EXCEPT ![p] = e]
    BY <1>5, <2>1 DEF close, TypeInv, EngType
  <2> HIDE DEF e, p
  <2>4. OnlyEng(p) /\ eng'[p] = e
    BY <2>1, <2>2, <2>3, EngUpdate DEF TypeInv
  <2> QED BY <1>2, <1>4, <1>5, <2>1, <2>2, <2>4 DEF Closes, p
<1>6. CASE ~ Running(x)
  BY <1>2, <1>4, <1>6 DEF Closes, close
<1> QED BY <1>5, <1>6

\* A call gives up, closing its session's process.
LEMMA GiveUpStep ==
    ASSUME TypeInv, NEW r \in Calls, GiveUp(r)
    PROVE  /\ Closes(call[r].sess) /\ OnlyCall(r) /\ Waiting(r) /\ call[r].sess \in Sessions
           /\ call'[r].pc = "closing" /\ call'[r].sess = call[r].sess
           /\ call'[r].left = call[r].left /\ call'[r].pid \in {0, call[r].pid}
           /\ call'[r].got = call[r].got
<1>1. Waiting(r) /\ call[r].pc \notin {"new", "ended"} /\ call[r] \in CallStates
  BY Parts DEF GiveUp, Waiting
<1>2. call[r].sess \in Sessions
  BY <1>1 DEF TypeInv, Placed
<1>3. Closes(call[r].sess)
  BY <1>2, CloseStep DEF GiveUp
<1> DEFINE n == IF Running(call[r].sess) THEN call[r].pid ELSE 0
           c == [call[r] EXCEPT !.pc = "closing", !.pid = n]
<1>4. n \in {0, call[r].pid} /\ n \in 0..MaxProcs
  BY <1>1, Sizes DEF CallStates
<1>5. call' = [call EXCEPT ![r] = c]
  BY <1>1 DEF GiveUp, TypeInv, CallType
<1> HIDE DEF n
<1>6. /\ c \in CallStates /\ c.pc = "closing" /\ c.sess = call[r].sess
      /\ c.left = call[r].left /\ c.pid = n /\ c.got = call[r].got
  BY <1>1, <1>4 DEF CallStates
<1> HIDE DEF c
<1>7. OnlyCall(r) /\ call'[r] = c
  BY <1>5, <1>6, CallUpdate DEF TypeInv
<1> QED BY <1>1, <1>2, <1>3, <1>4, <1>6, <1>7

\* The engine answers, writes unasked, crashes or exits.
EngineActs(p) ==
    /\ p \in 1..Len(eng) /\ OnlyEng(p) /\ UNCHANGED <<ses, call>>
    /\ \/ \E m \in eng[p].asked :
             /\ eng'[p].asked = eng[p].asked \ {m} /\ eng'[p].out = Append(eng[p].out, m)
             /\ eng'[p].ready = (eng[p].ready \/ m.method = "initialize")
             /\ eng'[p].status = eng[p].status
       \/ \E m \in Messages :
             /\ m.id = 0 /\ m.method = "none"
             /\ eng'[p].asked = eng[p].asked /\ eng'[p].out = Append(eng[p].out, m)
             /\ eng'[p].ready = eng[p].ready /\ eng'[p].status = eng[p].status
       \/ /\ eng'[p].asked = eng[p].asked /\ eng'[p].out = eng[p].out
          /\ eng'[p].ready = eng[p].ready /\ eng'[p].status # "up"
          /\ eng[p].status # "gone"

\* What the engine's steps change.
LEMMA EngineActsStep ==
    ASSUME TypeInv, NEW p \in DOMAIN eng, EngineStep(p)
    PROVE  EngineActs(p)
<1>0. p \in 1..Len(eng) /\ eng[p] \in EngineStates /\ UNCHANGED <<ses, call>>
  BY Parts DEF EngineStep, Answers, WritesUnasked, Crashes, Exits
<1>1. /\ eng[p].asked \in SUBSET Messages /\ eng[p].out \in Seq(Messages)
      /\ eng[p].ready \in BOOLEAN
  BY <1>0 DEF EngineStates
<1>2. CASE Answers(p)
  <2>1. PICK m \in eng[p].asked :
            eng' = [eng EXCEPT ![p].asked = @ \ {m}, ![p].out = Append(@, m),
                               ![p].ready = @ \/ m.method = "initialize"]
    BY <1>2 DEF Answers
  <2> DEFINE b == eng[p].ready \/ m.method = "initialize"
             e == [eng[p] EXCEPT !.asked = eng[p].asked \ {m}, !.out = Append(eng[p].out, m),
                                 !.ready = b]
  <2>2. Append(eng[p].out, m) \in Seq(Messages) /\ eng[p].asked \ {m} \in SUBSET Messages
    BY <1>1
  <2>3. b \in BOOLEAN
    OBVIOUS
  <2>4. eng' = [eng EXCEPT ![p] = e]
    BY <1>0, <2>1 DEF TypeInv, EngType
  <2> HIDE DEF b
  <2>5. /\ e \in EngineStates /\ e.asked = eng[p].asked \ {m} /\ e.out = Append(eng[p].out, m)
        /\ e.ready = b /\ e.status = eng[p].status
    BY <1>0, <2>2, <2>3 DEF EngineStates
  <2> HIDE DEF e
  <2>6. OnlyEng(p) /\ eng'[p] = e
    BY <1>0, <2>4, <2>5, EngUpdate DEF TypeInv
  <2> QED BY <1>0, <2>5, <2>6 DEF EngineActs, b
<1>3. CASE WritesUnasked(p)
  <2> DEFINE m == [id |-> 0, call |-> NoCall, method |-> "none", left |-> 0]
             e == [eng[p] EXCEPT !.out = Append(eng[p].out, m)]
  <2>1. m \in Messages /\ m.id = 0 /\ m.method = "none"
    <3>1. 0 \in Ids /\ 0 \in 0..2
      BY Sizes DEF Ids
    <3> QED BY <3>1 DEF Messages
  <2>2. eng' = [eng EXCEPT ![p] = e]
    BY <1>0, <1>3 DEF WritesUnasked, TypeInv, EngType
  <2> HIDE DEF m
  <2>3. Append(eng[p].out, m) \in Seq(Messages)
    BY <1>1, <2>1
  <2>4. /\ e \in EngineStates /\ e.asked = eng[p].asked /\ e.out = Append(eng[p].out, m)
        /\ e.ready = eng[p].ready /\ e.status = eng[p].status
    BY <1>0, <2>3 DEF EngineStates
  <2> HIDE DEF e
  <2>5. OnlyEng(p) /\ eng'[p] = e
    BY <1>0, <2>2, <2>4, EngUpdate DEF TypeInv
  <2> QED BY <1>0, <2>1, <2>4, <2>5 DEF EngineActs
<1>4. ASSUME NEW st \in {"exiting", "gone"}, eng' = [eng EXCEPT ![p].status = st],
             eng[p].status # "gone"
      PROVE  EngineActs(p)
  <2> DEFINE e == [eng[p] EXCEPT !.status = st]
  <2>1. /\ e \in EngineStates /\ e.asked = eng[p].asked /\ e.out = eng[p].out
        /\ e.ready = eng[p].ready /\ e.status # "up"
    BY <1>0 DEF EngineStates
  <2>2. eng' = [eng EXCEPT ![p] = e]
    BY <1>0, <1>4 DEF TypeInv, EngType
  <2> HIDE DEF e
  <2>3. OnlyEng(p) /\ eng'[p] = e
    BY <1>0, <2>1, <2>2, EngUpdate DEF TypeInv
  <2> QED BY <1>0, <1>4, <2>1, <2>3 DEF EngineActs
<1>5. CASE Crashes(p) \/ Exits(p)
  BY <1>4, <1>5 DEF Crashes, Exits, Status
<1> QED BY <1>2, <1>3, <1>5 DEF EngineStep

\* Growing idle changes nothing the calls see.
LEMMA IdleStep ==
    ASSUME TypeInv, NEW x \in Sessions, GoIdle(x)
    PROVE  /\ SesType'
           /\ \A y \in Sessions : /\ ses'[y].proc = ses[y].proc /\ ses'[y].next = ses[y].next
                                  /\ ses'[y].lock = ses[y].lock
<1> DEFINE s == [ses[x] EXCEPT !.idle = TRUE]
<1>1. ses[x] \in SessionStates
  BY Parts
<1>2. /\ s \in SessionStates /\ s.proc = ses[x].proc /\ s.next = ses[x].next
      /\ s.lock = ses[x].lock
  BY <1>1 DEF SessionStates
<1>3. ses' = [ses EXCEPT ![x] = s]
  BY DEF GoIdle, TypeInv, SesType
<1> HIDE DEF s
<1>4. OnlySes(x) /\ ses'[x] = s
  BY <1>2, <1>3, SesUpdate DEF TypeInv
<1> QED BY <1>2, <1>4 DEF OnlySes

-----------------------------------------------------------------------------
(* The lock: one user at a time.                                           *)

\* Behind the head, nobody leaves the queue.
LEMMA TailKeeps ==
    ASSUME NEW s \in Seq(Calls), s # <<>>, NEW i \in DOMAIN s, s[i] # Head(s)
    PROVE  \E j \in DOMAIN Tail(s) : Tail(s)[j] = s[i]
<1>1. i \in 1..Len(s) /\ Len(s) \in Nat /\ s[1] = Head(s) /\ i # 1
  OBVIOUS
<1>2. i - 1 \in 1..(Len(s) - 1) /\ (i - 1) + 1 = i
  BY <1>1
<1>3. DOMAIN Tail(s) = 1..(Len(s) - 1) /\ Tail(s)[i - 1] = s[(i - 1) + 1]
  BY <1>1, <1>2
<1> QED BY <1>2, <1>3

\* At the end of the queue, nobody disturbs it.
LEMMA AppendKeeps ==
    ASSUME NEW s \in Seq(Calls), NEW r \in Calls
    PROVE  /\ \A i \in DOMAIN s : i \in DOMAIN Append(s, r) /\ Append(s, r)[i] = s[i]
           /\ Len(s) + 1 \in DOMAIN Append(s, r) /\ Append(s, r)[Len(s) + 1] = r
           /\ s # <<>> => Head(Append(s, r)) = Head(s)
OBVIOUS

\* One call uses a session at a time.
LEMMA OneUser ==
    ASSUME LockInv, NEW q \in Calls, NEW r \in Calls, call[q].pc \in Using,
           MyTurn(r) \/ call[r].pc \in Using, call[q].sess = call[r].sess
    PROVE  q = r
BY DEF LockInv, MyTurn

\* The lock is left alone, and used only by who has come to its head.
LEMMA LockKept ==
    ASSUME TypeInv, LockInv, \A x \in Sessions : ses'[x].lock = ses[x].lock,
           \A r \in Calls :
               /\ call'[r].pc \in Queuing => call[r].pc \in Queuing /\ call'[r].sess = call[r].sess
               /\ call'[r].pc \in Using => call[r].pc \in Using \/ MyTurn(r)
    PROVE  LockInv'
<1> SUFFICES ASSUME NEW r \in Calls
             PROVE  /\ call'[r].pc \in Queuing =>
                           \E i \in DOMAIN ses'[call'[r].sess].lock :
                               ses'[call'[r].sess].lock[i] = r
                    /\ call'[r].pc \in Using => Head(ses'[call'[r].sess].lock) = r
  BY DEF LockInv
<1>1. ASSUME call'[r].pc \in Queuing
      PROVE  call[r].pc \in Queuing /\ ses'[call'[r].sess].lock = ses[call[r].sess].lock
  <2>1. call[r].pc \in Queuing /\ call'[r].sess = call[r].sess
    BY <1>1
  <2>2. call[r].sess \in Sessions
    BY <2>1 DEF Queuing, Using, TypeInv, Placed
  <2> QED BY <2>1, <2>2
<1>2. call'[r].pc \in Using => call'[r].pc \in Queuing
  BY DEF Queuing
<1> QED BY <1>1, <1>2 DEF LockInv, MyTurn

\* The lock is released.
LEMMA LockReleased ==
    ASSUME TypeInv, LockInv, NEW r \in Calls, MyTurn(r) \/ call[r].pc \in Using, LetsGo(r)
    PROVE  LockInv'
<1> DEFINE x == call[r].sess
<1>1. /\ x \in Sessions /\ ses[x].lock \in Seq(Calls) /\ ses[x].lock # <<>>
      /\ Head(ses[x].lock) = r
  BY HoldsLock
<1>2. /\ call'[r].pc \in {"ended", "has"} /\ \A q \in Calls \ {r} : call'[q] = call[q]
      /\ ses'[x].lock = Tail(ses[x].lock) /\ \A y \in Sessions \ {x} : ses'[y] = ses[y]
  BY DEF LetsGo, OnlyCall, OnlySes
<1> SUFFICES ASSUME NEW q \in Calls, call'[q].pc \in Queuing
             PROVE  /\ \E i \in DOMAIN ses'[call'[q].sess].lock :
                           ses'[call'[q].sess].lock[i] = q
                    /\ call'[q].pc \in Using => Head(ses'[call'[q].sess].lock) = q
  BY DEF LockInv, Queuing
<1>3. q # r /\ call'[q] = call[q] /\ call[q].sess \in Sessions
  BY <1>2 DEF Queuing, Using, TypeInv, Placed
<1>4. PICK i \in DOMAIN ses[call[q].sess].lock : ses[call[q].sess].lock[i] = q
  BY <1>3 DEF LockInv
<1>5. CASE call[q].sess = x
  <2>1. call[q].pc \notin Using
    BY <1>3, <1>5, OneUser
  <2>2. \E j \in DOMAIN Tail(ses[x].lock) : Tail(ses[x].lock)[j] = q
    BY <1>1, <1>3, <1>4, <1>5, TailKeeps
  <2> QED BY <1>2, <1>3, <1>5, <2>1, <2>2
<1>6. CASE call[q].sess # x
  BY <1>2, <1>3, <1>4, <1>6 DEF LockInv
<1> QED BY <1>5, <1>6

\* Every step keeps the lock.
LEMMA LockNext == TypeInv /\ LockInv /\ ProcInv /\ [Next]_vars => LockInv'
<1> SUFFICES ASSUME TypeInv, LockInv, ProcInv, [Next]_vars PROVE LockInv'
  OBVIOUS
<1>0. {"new", "has", "ended"} \intersect Queuing = {} /\ Using \subseteq Queuing
  BY DEF Queuing, Using
<1>1. ASSUME NEW r \in Calls, session(r) PROVE LockInv'
  <2>1. \A q \in Calls : call'[q] = call[q] \/ call'[q].pc \notin Queuing
    BY <1>0, <1>1, SessionStep DEF OnlyCall
  <2>2. \A x \in Sessions : ses'[x].lock = ses[x].lock
    BY <1>1, SessionStep
  <2> QED BY <1>0, <2>1, <2>2, LockKept
<1>2. ASSUME NEW r \in Calls, QueueForLock(r) PROVE LockInv'
  <2> DEFINE x == call[r].sess
             l == ses[x].lock
  <2>1. /\ \A q \in Calls \ {r} : call'[q] = call[q]
        /\ \A y \in Sessions \ {x} : ses'[y] = ses[y]
        /\ ses'[x].lock = Append(l, r) /\ x \in Sessions
        /\ call'[r].pc = "queued" /\ call'[r].sess = x
    BY <1>2, QueueStep DEF OnlyCall, OnlySes
  <2>2. l \in Seq(Calls)
    BY <2>1, Parts DEF SessionStates
  <2> SUFFICES ASSUME NEW q \in Calls, call'[q].pc \in Queuing
               PROVE  /\ \E i \in DOMAIN ses'[call'[q].sess].lock :
                             ses'[call'[q].sess].lock[i] = q
                      /\ call'[q].pc \in Using => Head(ses'[call'[q].sess].lock) = q
    BY <1>0 DEF LockInv
  <2>3. CASE q = r
    <3>1. ses'[call'[q].sess].lock = Append(l, r) /\ call'[q].pc = "queued"
      BY <2>1, <2>3
    <3>2. \E i \in DOMAIN Append(l, r) : Append(l, r)[i] = r
      <4>1. Len(l) + 1 \in DOMAIN Append(l, r) /\ Append(l, r)[Len(l) + 1] = r
        BY <2>2, AppendKeeps
      <4> HIDE DEF l
      <4> QED BY ONLY <4>1
    <3>3. call'[q].pc \notin Using
      BY ONLY <3>1 DEF Using
    <3> QED BY <2>3, <3>1, <3>2, <3>3
  <2>4. CASE q # r
    <3>1. call'[q] = call[q] /\ call[q].sess \in Sessions
      BY <1>0, <2>1, <2>4 DEF TypeInv, Placed
    <3>2. PICK i \in DOMAIN ses[call[q].sess].lock : ses[call[q].sess].lock[i] = q
      BY <3>1 DEF LockInv
    <3>3. CASE call[q].sess = x
      <4>1. l # <<>>
        BY <2>2, <3>2, <3>3
      <4>2. call[q].pc \in Using => Head(l) = q
        BY <3>3 DEF LockInv
      <4>3. i \in DOMAIN Append(l, r) /\ Append(l, r)[i] = q
        BY <2>2, <3>2, <3>3, AppendKeeps
      <4>4. Head(Append(l, r)) = Head(l)
        BY <2>2, <4>1, AppendKeeps
      <4>5. ses'[call'[q].sess].lock = Append(l, r)
        BY <2>1, <3>1, <3>3
      <4> QED BY <3>1, <4>2, <4>3, <4>4, <4>5
    <3>4. CASE call[q].sess # x
      BY <2>1, <3>1, <3>2, <3>4 DEF LockInv
    <3> QED BY <3>3, <3>4
  <2> QED BY <2>3, <2>4
<1>3. ASSUME NEW r \in Calls, MyTurn(r) \/ call[r].pc \in Using, Sends(r) PROVE LockInv'
  <2>1. \A x \in Sessions : ses'[x].lock = ses[x].lock
    BY <1>3 DEF Sends, OnlySes
  <2>2. call[r].pc \in Queuing /\ call'[r].sess = call[r].sess
    BY <1>0, <1>3 DEF Sends, MyTurn, Queuing
  <2>3. \A q \in Calls : q # r => call'[q] = call[q]
    BY <1>3 DEF Sends, OnlyCall
  <2>4. MyTurn(r) \/ call[r].pc \in Using
    BY <1>3
  <2> QED BY <1>0, <2>1, <2>2, <2>3, <2>4, LockKept
<1>4. ASSUME NEW r \in Calls, Spawn(r) PROVE LockInv'
  <2>1. \A x \in Sessions : ses'[x].lock = ses[x].lock
    BY <1>4, SpawnStep DEF OnlySes
  <2>2. MyTurn(r) /\ call[r].pc \in Queuing /\ call'[r].sess = call[r].sess
    BY <1>4, SpawnStep DEF MyTurn, Queuing
  <2>3. \A q \in Calls : q # r => call'[q] = call[q]
    BY <1>4, SpawnStep DEF OnlyCall
  <2> QED BY <1>0, <2>1, <2>2, <2>3, LockKept
<1>5. ASSUME NEW r \in Calls, GiveUp(r) PROVE LockInv'
  <2>1. \A x \in Sessions : ses'[x].lock = ses[x].lock
    BY <1>5, GiveUpStep DEF Closes, OnlySes
  <2>2. call[r].pc \in Using /\ call'[r].sess = call[r].sess
    BY <1>5, GiveUpStep DEF Waiting, Using
  <2>3. \A q \in Calls : q # r => call'[q] = call[q]
    BY <1>5, GiveUpStep DEF OnlyCall
  <2> QED BY <1>0, <2>1, <2>2, <2>3, LockKept
<1>6. ASSUME NEW r \in Calls, CallStep(r) PROVE LockInv'
  <2>1. CASE call_tool(r)
    BY <1>3, <2>1, CallToolStep DEF call_tool
  <2>2. CASE WriteFails(r)
    BY <2>2, WriteFailsStep, LockReleased DEF WriteFails
  <2>3. CASE ensure_started(r) \/ SpawnFails(r) \/ CloseReturns(r)
    <3>1. MyTurn(r) \/ call[r].pc \in Using
      BY <2>3 DEF ensure_started, SpawnFails, CloseReturns, Using
    <3> QED BY <2>3, <3>1, EndStep, LockReleased
  <2>4. CASE SkipLine(r)
    BY <2>4, LockKept DEF SkipLine
  <2>5. CASE TakeInitialize(r)
    <3>1. call[r].pc \in Using
      BY <2>5 DEF TakeInitialize, Using
    <3> QED BY <1>3, <2>5, <3>1, TakeInitializeStep, LockReleased
  <2>6. CASE TakeReply(r)
    <3>1. call[r].pc \in Using
      BY <2>6 DEF TakeReply, Using
    <3> QED BY <2>6, <3>1, TakeReplyStep, LockReleased
  <2> QED BY <1>1, <1>2, <1>4, <1>5, <1>6, <2>1, <2>2, <2>3, <2>4, <2>5, <2>6 DEF CallStep
<1>7. ASSUME NEW x \in Sessions, GoIdle(x) PROVE LockInv'
  BY <1>7, IdleStep, LockKept DEF GoIdle
<1>8. CASE ReapCloses
  <2>1. victim \in Sessions /\ close(victim)
    BY <1>8 DEF ReapCloses, TypeInv, PoolType
  <2>2. \A x \in Sessions : ses'[x].lock = ses[x].lock
    BY <2>1, CloseStep DEF Closes, OnlySes
  <2> QED BY <1>8, <2>2, LockKept DEF ReapCloses
<1>9. ASSUME UNCHANGED <<ses, call>> PROVE LockInv'
  BY <1>9, LockKept
<1>10. ASSUME NEW p \in DOMAIN eng, EngineStep(p) PROVE LockInv'
  BY <1>9, <1>10, EngineActsStep DEF EngineActs
<1> QED BY <1>6, <1>7, <1>8, <1>9, <1>10 DEF Next, vars, Reap, ReapReturns

-----------------------------------------------------------------------------
(* Types, and the counts that bound them.                                  *)

\* TypeInv contains TypeOK.
LEMMA TypeImplied == TypeInv => TypeOK
<1> SUFFICES ASSUME TypeInv PROVE TypeOK
  OBVIOUS
<1>1. /\ Len(eng) \in Nat /\ Len(eng) <= MaxProcs /\ MaxProcs \in Nat
      /\ Cardinality(Calls) \in Nat
  BY Parts, Sizes
<1>2. made \in {0} \union Sessions
  <2>1. made \in Nat /\ made + Cardinality(Arriving) <= Cardinality(Calls)
        /\ Cardinality(Arriving) \in Nat
    BY Sizes DEF TypeInv, PoolType, Budget
  <2> QED BY <1>1, <2>1 DEF Sessions
<1>3. dying \in 0..MaxProcs /\ gauge \in 0..MaxProcs
  BY <1>1 DEF TypeInv, PoolType
<1> QED BY <1>1, <1>2, <1>3 DEF TypeInv, TypeOK, PoolType, SesType, EngType, CallType

\* Nobody arrives twice.
LEMMA ArrivingKept ==
    ASSUME TypeInv, made' = made,
           \A q \in Calls : call'[q].pc = "new" => call[q].pc = "new"
    PROVE  made' + Cardinality(Arriving') <= Cardinality(Calls)
<1>1. Arriving' \in SUBSET Arriving
  BY DEF Arriving
<1>2. /\ Cardinality(Arriving') <= Cardinality(Arriving) /\ Cardinality(Arriving') \in Nat
      /\ Cardinality(Arriving) \in Nat /\ Cardinality(Calls) \in Nat
  BY <1>1, Sizes, Smaller
<1>3. made \in Nat /\ made + Cardinality(Arriving) <= Cardinality(Calls)
  BY DEF TypeInv, PoolType, Budget
<1> QED BY <1>2, <1>3

\* No process is started, and nobody gains the right to.
LEMMA SpawnsKept ==
    ASSUME TypeInv, Len(eng') = Len(eng), Unspawned' \subseteq Unspawned
    PROVE  Len(eng') + Cardinality(Unspawned') <= MaxProcs
<1>1. IsFiniteSet(Unspawned) /\ Unspawned' \in SUBSET Unspawned
  BY Sizes DEF Unspawned
<1>2. /\ Cardinality(Unspawned') <= Cardinality(Unspawned)
      /\ Cardinality(Unspawned') \in Nat /\ Cardinality(Unspawned) \in Nat
  BY <1>1, Smaller
<1>3. Len(eng) \in Nat /\ MaxProcs \in Nat /\ Len(eng) + Cardinality(Unspawned) <= MaxProcs
  BY Parts, Sizes DEF TypeInv, Budget
<1> QED BY <1>2, <1>3

\* No id is given away, and nobody gains the right to one.
LEMMA SendsKept ==
    ASSUME TypeInv, Unsent' \subseteq Unsent, \A x \in Sessions : ses'[x].next = ses[x].next
    PROVE  \A x \in Sessions : ses'[x].next + Cardinality(Unsent') <= MaxProcs + 1
<1>1. IsFiniteSet(Unsent) /\ Unsent' \in SUBSET Unsent
  BY Sizes DEF Unsent
<1>2. /\ Cardinality(Unsent') <= Cardinality(Unsent)
      /\ Cardinality(Unsent') \in Nat /\ Cardinality(Unsent) \in Nat
  BY <1>1, Smaller
<1>3. MaxProcs \in Nat
      /\ \A x \in Sessions : ses[x].next \in Nat /\ ses[x].next + Cardinality(Unsent) <= MaxProcs + 1
  BY Parts, Sizes DEF TypeInv, Budget, SessionStates, Ids
<1> QED BY <1>2, <1>3

\* An id is given to r, which has none to ask for in this round any more.
LEMMA SendsSpent ==
    ASSUME TypeInv, NEW r \in Calls, call[r].pc \in {"queued", "init"},
           Unsent' \subseteq Unsent \ {<<r, call[r].left>>}, NEW z \in Sessions,
           ses'[z].next = ses[z].next + 1, \A x \in Sessions \ {z} : ses'[x].next = ses[x].next
    PROVE  \A x \in Sessions : ses'[x].next + Cardinality(Unsent') <= MaxProcs + 1
<1>1. IsFiniteSet(Unsent) /\ Unsent' \in SUBSET Unsent
  BY Sizes DEF Unsent
<1>2. <<r, call[r].left>> \in Unsent /\ <<r, call[r].left>> \notin Unsent'
  BY DEF TypeInv, Placed, Unsent, Rest
<1>3. /\ Cardinality(Unsent') + 1 <= Cardinality(Unsent)
      /\ Cardinality(Unsent') \in Nat /\ Cardinality(Unsent) \in Nat
  BY <1>1, <1>2, Smaller
<1>4. MaxProcs \in Nat
      /\ \A x \in Sessions : ses[x].next \in Nat /\ ses[x].next + Cardinality(Unsent) <= MaxProcs + 1
  BY Parts, Sizes DEF TypeInv, Budget, SessionStates, Ids
<1> QED BY <1>3, <1>4

\* A process that is gone stays gone.
LEMMA LiveKept ==
    ASSUME TypeInv, NEW X \in SUBSET Sessions,
           \A x \in X : ses'[x].proc \in {0, ses[x].proc},
           \A p \in 1..Len(eng) : eng[p].status = "gone" => eng'[p].status = "gone"
    PROVE  \A x \in X : x \in Live' => x \in Live
<1>1. \A x \in X : ses[x].proc \in 0..Len(eng)
  BY DEF TypeInv, Placed
<1>2. \A x \in X : ses'[x].proc # 0 => ses'[x].proc \in 1..Len(eng)
  BY <1>1, Parts
<1> QED BY <1>2 DEF Live, Running, Status

\* The gauge counts at least the sessions with a process.
LEMMA GaugeKept ==
    ASSUME TypeInv, Live' \subseteq Live, gauge' = gauge
    PROVE  Cardinality(Live') <= gauge'
<1>1. /\ Cardinality(Live') <= Cardinality(Live)
      /\ Cardinality(Live') \in Nat /\ Cardinality(Live) \in Nat
  BY Sizes, Smaller
<1>2. gauge \in Nat /\ Cardinality(Live) <= gauge
  BY DEF TypeInv, PoolType, Budget
<1> QED BY <1>1, <1>2

\* Calls and sessions refer to what there is, also after a step that starts
\* no process.
LEMMA PlacedKept ==
    ASSUME TypeInv, NEW r \in Calls, OnlyCall(r), Len(eng') = Len(eng),
           \A x \in Sessions : ses'[x].proc \in {0, ses[x].proc},
           call'[r].pc \notin {"new", "ended"} => call'[r].sess \in Sessions,
           call'[r].pc # "ended" => call'[r].left \in {1, 2},
           call'[r].pid \in 0..Len(eng),
           Waiting(r)' => call'[r].pid # 0 /\ call'[r].id # 0
    PROVE  Placed'
<1>1. \A q \in Calls \ {r} : call'[q] = call[q]
  BY DEF OnlyCall
<1>2. \A x \in Sessions : ses'[x].proc \in 0..Len(eng)
  BY Parts DEF TypeInv, Placed
<1>3. \A q \in Calls :
          /\ call'[q].pc \notin {"new", "ended"} => call'[q].sess \in Sessions
          /\ call'[q].pc # "ended" => call'[q].left \in {1, 2}
          /\ call'[q].pid \in 0..Len(eng)
          /\ Waiting(q)' => call'[q].pid # 0 /\ call'[q].id # 0
  BY <1>1 DEF TypeInv, Placed, Waiting
<1> QED BY <1>2, <1>3 DEF Placed

\* The reap loop's variables and the pool are left alone.
LEMMA PoolKept ==
    ASSUME TypeInv, UNCHANGED <<pool, made, victim, dying, gauge, strays>>,
           Len(eng') = Len(eng)
    PROVE  PoolType'
BY DEF TypeInv, PoolType

\* Letting go of the lock.
LEMMA LetsGoTyped ==
    ASSUME TypeInv, LockInv, NEW r \in Calls, MyTurn(r) \/ call[r].pc \in Using, LetsGo(r),
           UNCHANGED <<pool, made, victim, dying, gauge, strays>>,
           EngType', Len(eng') = Len(eng),
           \A p \in 1..Len(eng) : eng'[p].status = eng[p].status
    PROVE  TypeInv'
<1> DEFINE x == call[r].sess
<1>1. x \in Sessions /\ call[r].pc \notin {"new", "ended"}
  BY HoldsLock DEF Queuing, Using
<1>2. /\ OnlyCall(r) /\ SesType' /\ CallType'
      /\ \A y \in Sessions : ses'[y].proc = ses[y].proc
      /\ call'[r].pc \in {"has", "ended"} /\ call'[r].pid = 0
      /\ call'[r].pc = "has" => call'[r].sess \in Sessions /\ call'[r].left = 1
      /\ \A q \in Calls \ {r} : call'[q] = call[q]
  BY <1>1 DEF LetsGo, OnlyCall, OnlySes
<1>3. Placed'
  <2>1. 0 \in 0..Len(eng) /\ ~ Waiting(r)'
    BY <1>2, Parts DEF Waiting
  <2> QED BY <1>2, <2>1, PlacedKept
<1>4. made' + Cardinality(Arriving') <= Cardinality(Calls)
  BY <1>2, ArrivingKept
<1>5. \A st : Rest(st)' \subseteq Rest(st)
  BY <1>1, RestShrinks DEF LetsGo, OnlyCall
<1>6. Len(eng') + Cardinality(Unspawned') <= MaxProcs
  BY <1>5, SpawnsKept DEF Unspawned
<1>7. \A y \in Sessions : ses'[y].next + Cardinality(Unsent') <= MaxProcs + 1
  <2>1. CASE ses'[x].next = ses[x].next
    <3>1. \A y \in Sessions : ses'[y].next = ses[y].next
      BY <2>1 DEF LetsGo, OnlySes
    <3> QED BY <1>5, <3>1, SendsKept DEF Unsent
  <2>2. CASE ses'[x].next = ses[x].next + 1 /\ call[r].pc = "queued"
    <3>1. \A y \in Sessions \ {x} : ses'[y].next = ses[y].next
      BY DEF LetsGo, OnlySes
    <3>2. call'[r].pc = "ended"
      BY <2>2 DEF LetsGo
    <3>3. Unsent' \subseteq Unsent \ {<<r, call[r].left>>}
      <4>1. <<r, call[r].left>> \notin Unsent'
        BY <3>2 DEF Unsent, Rest
      <4>2. Unsent' \subseteq Unsent
        BY <1>5 DEF Unsent
      <4> QED BY <4>1, <4>2
    <3> QED BY <1>1, <2>2, <3>1, <3>3, SendsSpent
  <2> QED BY <2>1, <2>2 DEF LetsGo
<1>8. Cardinality(Live') <= gauge'
  <2>1. Live' \subseteq Live
    <3>1. \A y \in Sessions : y \in Live' => y \in Live
      BY <1>2, LiveKept
    <3> QED BY <3>1 DEF Live
  <2> QED BY <2>1, GaugeKept
<1>9. Budget'
  BY <1>4, <1>6, <1>7, <1>8 DEF Budget
<1> QED BY <1>2, <1>3, <1>9, PoolKept DEF TypeInv

\* Sending a request.
LEMMA SendsTyped ==
    ASSUME TypeInv, LockInv, NEW r \in Calls, MyTurn(r) \/ call[r].pc = "init", Sends(r),
           UNCHANGED <<pool, made, victim, dying, gauge, strays>>
    PROVE  TypeInv'
<1> DEFINE x == call[r].sess
           p == ses[x].proc
<1>0. call[r].pc \in {"queued", "init"} /\ (MyTurn(r) \/ call[r].pc \in Using)
  BY DEF MyTurn, Using
<1>1. x \in Sessions /\ call[r].left \in {1, 2} /\ ses[x] \in SessionStates
  BY <1>0, HoldsLock, Parts
<1>2. /\ OnlyCall(r) /\ SesType' /\ CallType' /\ EngType' /\ Len(eng') = Len(eng)
      /\ p \in 1..Len(eng)
      /\ \A y \in Sessions : ses'[y].proc = ses[y].proc
      /\ \A y \in Sessions \ {x} : ses'[y].next = ses[y].next
      /\ ses'[x].next = ses[x].next + 1
      /\ \A q \in Calls \ {r} : call'[q] = call[q]
      /\ \A o \in 1..Len(eng) : eng'[o].status = eng[o].status
  BY <1>1 DEF Sends, OnlyCall, OnlySes, OnlyEng
<1>3. /\ call'[r].pc = "reply" /\ call'[r].pid = p /\ call'[r].id = ses[x].next + 1
      /\ call'[r].sess = x /\ call'[r].left = call[r].left
  BY DEF Sends
<1>4. Placed'
  <2>1. ses[x].next \in Nat
    <3>1. ses[x] \in SessionStates /\ MaxProcs \in Nat
      BY <1>1, Sizes
    <3> QED BY ONLY <3>1 DEF SessionStates, Ids
  <2>2. call'[r].pid \in 0..Len(eng) /\ call'[r].pid # 0 /\ call'[r].id # 0
    BY <1>2, <1>3, <2>1, Parts
  <2> QED BY <1>1, <1>2, <1>3, <2>2, PlacedKept
<1>5. made' + Cardinality(Arriving') <= Cardinality(Calls)
  BY <1>2, <1>3, ArrivingKept
<1>6. Unspawned' \subseteq Unspawned /\ Unsent' \subseteq Unsent
  BY <1>0, <1>2, <1>3, RestShrinks DEF Unspawned, Unsent
<1>7. Len(eng') + Cardinality(Unspawned') <= MaxProcs
  BY <1>2, <1>6, SpawnsKept
<1>8. \A y \in Sessions : ses'[y].next + Cardinality(Unsent') <= MaxProcs + 1
  <2>1. <<r, call[r].left>> \notin Unsent'
    BY <1>1, <1>3 DEF Unsent, Rest
  <2>2. Unsent' \subseteq Unsent \ {<<r, call[r].left>>}
    BY <1>6, <2>1
  <2> QED BY <1>0, <1>1, <1>2, <2>2, SendsSpent
<1>9. Cardinality(Live') <= gauge'
  <2>1. Live' \subseteq Live
    <3>1. \A y \in Sessions : y \in Live' => y \in Live
      BY <1>2, LiveKept
    <3> QED BY <3>1 DEF Live
  <2> QED BY <2>1, GaugeKept
<1>10. Budget'
  BY <1>5, <1>7, <1>8, <1>9 DEF Budget
<1> QED BY <1>2, <1>4, <1>10, PoolKept DEF TypeInv

\* Starting a process.
LEMMA SpawnTyped ==
    ASSUME TypeInv, LockInv, NEW r \in Calls, Spawn(r)
    PROVE  TypeInv'
<1> DEFINE x == call[r].sess
<1>0. call[r].pc = "queued" /\ MyTurn(r)
  BY SpawnStep DEF MyTurn
<1>1. x \in Sessions /\ call[r].left \in {1, 2}
  BY <1>0, HoldsLock
<1>2. /\ SesType' /\ CallType' /\ EngType' /\ Len(eng') = Len(eng) + 1
      /\ ses'[x].proc = Len(eng) + 1 /\ ses'[x].next = 1
      /\ \A y \in Sessions \ {x} : ses'[y] = ses[y]
      /\ \A q \in Calls \ {r} : call'[q] = call[q]
      /\ \A o \in 1..Len(eng) : eng'[o] = eng[o]
  BY SpawnStep DEF OnlyCall, OnlySes
<1>3. /\ call'[r].pc = "init" /\ call'[r].pid = Len(eng) + 1 /\ call'[r].id = 1
      /\ call'[r].sess = x /\ call'[r].left = call[r].left /\ ~ Running(x)
  BY SpawnStep
<1>4. /\ Len(eng) \in Nat /\ MaxProcs \in Nat
      /\ \A y \in Sessions : ses[y].proc \in 0..Len(eng)
      /\ \A q \in Calls : call[q].pid \in 0..Len(eng)
  BY Parts, Sizes DEF TypeInv, Placed
<1>5. \A y \in Sessions : ses'[y].proc \in 0..Len(eng')
  BY <1>2, <1>4
<1>6. \A q \in Calls : call'[q].pid \in 0..Len(eng')
  BY <1>2, <1>3, <1>4
<1>7. Placed'
  <2>1. \A q \in Calls :
            /\ call'[q].pc \notin {"new", "ended"} => call'[q].sess \in Sessions
            /\ call'[q].pc # "ended" => call'[q].left \in {1, 2}
    BY <1>1, <1>2, <1>3 DEF TypeInv, Placed
  <2>2. \A q \in Calls : Waiting(q)' => call'[q].pid # 0 /\ call'[q].id # 0
    BY <1>2, <1>3, <1>4 DEF TypeInv, Placed, Waiting
  <2> QED BY <1>5, <1>6, <2>1, <2>2 DEF Placed
<1>8. PoolType'
  <2>1. gauge' = gauge + 1 /\ UNCHANGED <<pool, made, victim, dying, strays>>
    BY DEF Spawn, reapVars
  <2>2. dying \in 0..Len(eng) /\ gauge \in Nat /\ gauge <= Len(eng)
    BY DEF TypeInv, PoolType
  <2>3. dying' \in 0..Len(eng') /\ gauge' \in Nat /\ gauge' <= Len(eng')
    BY <1>2, <1>4, <2>1, <2>2
  <2> QED BY <2>1, <2>3 DEF TypeInv, PoolType
<1>9. made' + Cardinality(Arriving') <= Cardinality(Calls)
  <2>1. made' = made
    BY DEF Spawn
  <2> QED BY <1>2, <1>3, <2>1, ArrivingKept
<1>10. Unspawned' \subseteq Unspawned /\ Unsent' \subseteq Unsent
  BY <1>0, <1>2, <1>3, RestShrinks DEF Unspawned, Unsent
<1>11. Len(eng') + Cardinality(Unspawned') <= MaxProcs
  <2>1. <<r, call[r].left>> \notin Unspawned' /\ <<r, call[r].left>> \in Unspawned
    BY <1>0, <1>1, <1>3 DEF Unspawned, Rest
  <2>2. IsFiniteSet(Unspawned) /\ Unspawned' \in SUBSET Unspawned
    BY <1>10, Sizes DEF Unspawned
  <2>3. /\ Cardinality(Unspawned') + 1 <= Cardinality(Unspawned)
        /\ Cardinality(Unspawned') \in Nat /\ Cardinality(Unspawned) \in Nat
    BY <2>1, <2>2, Smaller
  <2>4. Len(eng) + Cardinality(Unspawned) <= MaxProcs
    BY DEF TypeInv, Budget
  <2> QED BY <1>2, <1>4, <2>3, <2>4
<1>12. \A y \in Sessions : ses'[y].next + Cardinality(Unsent') <= MaxProcs + 1
  <2>1. IsFiniteSet(Unsent) /\ Unsent' \in SUBSET Unsent
        /\ Cardinality(Unsent) <= MaxProcs /\ Cardinality(Unsent) \in Nat
    BY <1>10, Sizes DEF Unsent
  <2>2. Cardinality(Unsent') <= Cardinality(Unsent) /\ Cardinality(Unsent') \in Nat
    BY <2>1, Smaller
  <2>3. \A y \in Sessions : ses[y].next \in Nat
                            /\ ses[y].next + Cardinality(Unsent) <= MaxProcs + 1
    BY Parts, Sizes DEF TypeInv, Budget, SessionStates, Ids
  <2>4. \A y \in Sessions \ {x} : ses'[y].next + Cardinality(Unsent') <= MaxProcs + 1
    BY <1>2, <1>4, <2>1, <2>2, <2>3
  <2>5. ses'[x].next + Cardinality(Unsent') <= MaxProcs + 1
    BY <1>2, <1>4, <2>1, <2>2
  <2> QED BY <2>4, <2>5
<1>13. Cardinality(Live') <= gauge'
  <2>1. \A y \in Sessions \ {x} : y \in Live' => y \in Live
    BY <1>2, LiveKept
  <2>2. Live' \subseteq Live \cup {x}
    BY <2>1 DEF Live
  <2>3. x \notin Live /\ IsFiniteSet(Live) /\ Cardinality(Live) \in Nat
    BY <1>3, Sizes DEF Live
  <2>4. IsFiniteSet(Live \cup {x}) /\ Cardinality(Live \cup {x}) = Cardinality(Live) + 1
    BY <2>3, FS_AddElement
  <2>5. Cardinality(Live') <= Cardinality(Live) + 1 /\ Cardinality(Live') \in Nat
    BY <2>2, <2>4, Smaller
  <2>6. gauge' = gauge + 1 /\ gauge \in Nat /\ Cardinality(Live) <= gauge
    BY DEF Spawn, TypeInv, PoolType, Budget
  <2> QED BY <2>3, <2>5, <2>6
<1>14. Budget'
  BY <1>9, <1>11, <1>12, <1>13 DEF Budget
<1> QED BY <1>2, <1>7, <1>8, <1>14 DEF TypeInv

\* Closing a session counts its process out.
LEMMA ClosesGauge ==
    ASSUME TypeInv, NEW x \in Sessions, Closes(x)
    PROVE  /\ gauge' \in Nat /\ gauge' <= gauge /\ Cardinality(Live') <= gauge'
           /\ EngType' /\ Len(eng') = Len(eng)
           /\ \A y \in Sessions : ses'[y].proc \in {0, ses[y].proc} /\ ses'[y].next = ses[y].next
<1>1. /\ EngType' /\ Len(eng') = Len(eng)
      /\ \A y \in Sessions : ses'[y].proc \in {0, ses[y].proc} /\ ses'[y].next = ses[y].next
      /\ ses'[x].proc = 0
  BY DEF Closes, OnlySes, OnlyEng, TypeInv, EngType
<1>2. \A p \in 1..Len(eng) : eng[p].status = "gone" => eng'[p].status = "gone"
  BY DEF Closes, OnlyEng, Running, Status
<1>3. Live' \subseteq Live /\ x \notin Live'
  <2>1. \A y \in Sessions : y \in Live' => y \in Live
    BY <1>1, <1>2, LiveKept
  <2> QED BY <1>1, <2>1 DEF Live, Running
<1>4. gauge \in Nat /\ Cardinality(Live) <= gauge
  BY DEF TypeInv, PoolType, Budget
<1>5. CASE Running(x) /\ gauge' = gauge - 1
  <2>1. x \in Live /\ IsFiniteSet(Live)
    BY <1>5, Sizes DEF Live
  <2>2. /\ Cardinality(Live') + 1 <= Cardinality(Live)
        /\ Cardinality(Live') \in Nat /\ Cardinality(Live) \in Nat
    BY <1>3, <2>1, Smaller
  <2>3. gauge' \in Nat /\ gauge' <= gauge /\ Cardinality(Live') <= gauge'
    BY <1>4, <1>5, <2>2
  <2> QED BY <1>1, <2>3
<1>6. CASE gauge' = gauge
  BY <1>1, <1>3, <1>4, <1>6, GaugeKept
<1> QED BY <1>5, <1>6 DEF Closes

\* A call moves on in its round, without starting a process or sending.
LEMMA MovesTyped ==
    ASSUME TypeInv, NEW r \in Calls, OnlyCall(r), call[r].pc # "ended",
           call'[r].pc \in {"has", "queued", "closing"}, call'[r].left = call[r].left,
           call[r].pc \in {"new", "has"} \/ call'[r].pc = "closing",
           call'[r].sess \in Sessions, call'[r].pid \in {0, call[r].pid},
           SesType', \A x \in Sessions : /\ ses'[x].proc \in {0, ses[x].proc}
                                         /\ ses'[x].next = ses[x].next,
           EngType', Len(eng') = Len(eng), PoolType', Cardinality(Live') <= gauge',
           made' + Cardinality(Arriving') <= Cardinality(Calls)
    PROVE  TypeInv'
<1>1. call[r].left \in {1, 2} /\ call[r].pid \in 0..Len(eng) /\ 0 \in 0..Len(eng)
  BY Parts DEF TypeInv, Placed
<1>2. Placed'
  <2>1. ~ Waiting(r)' /\ call'[r].pid \in 0..Len(eng)
    BY <1>1 DEF Waiting
  <2> QED BY <1>1, <2>1, PlacedKept
<1>3. Unspawned' \subseteq Unspawned /\ Unsent' \subseteq Unsent
  BY RestShrinks DEF Unspawned, Unsent, OnlyCall
<1>4. Budget'
  BY <1>3, SpawnsKept, SendsKept DEF Budget
<1> QED BY <1>2, <1>4 DEF TypeInv, OnlyCall

\* The calls do nothing.
LEMMA CallsTyped ==
    ASSUME TypeInv, UNCHANGED <<call, made>>,
           SesType', \A x \in Sessions : /\ ses'[x].proc \in {0, ses[x].proc}
                                         /\ ses'[x].next = ses[x].next,
           EngType', Len(eng') = Len(eng), PoolType', Cardinality(Live') <= gauge'
    PROVE  TypeInv'
<1>1. CallType'
  BY DEF TypeInv, CallType
<1>2. Placed'
  <2>1. \A x \in Sessions : ses'[x].proc \in 0..Len(eng)
    BY Parts DEF TypeInv, Placed
  <2> QED BY <2>1 DEF TypeInv, Placed, Waiting
<1>3. Unspawned' \subseteq Unspawned /\ Unsent' \subseteq Unsent
  BY DEF Unspawned, Unsent, Rest
<1>4. made' + Cardinality(Arriving') <= Cardinality(Calls)
  BY ArrivingKept
<1>5. Budget'
  BY <1>3, <1>4, SpawnsKept, SendsKept DEF Budget
<1> QED BY <1>1, <1>2, <1>5 DEF TypeInv

\* Every step keeps the types and the counts.
LEMMA TypeNext == TypeInv /\ LockInv /\ ProcInv /\ [Next]_vars => TypeInv'
<1> SUFFICES ASSUME TypeInv, LockInv, ProcInv, [Next]_vars PROVE TypeInv'
  OBVIOUS
<1>a. ASSUME UNCHANGED eng, gauge' = gauge, \A x \in Sessions : ses'[x].proc = ses[x].proc
      PROVE  EngType' /\ Len(eng') = Len(eng) /\ Cardinality(Live') <= gauge'
  <2>1. Live' \subseteq Live
    <3>1. \A y \in Sessions : y \in Live' => y \in Live
      BY <1>a, LiveKept
    <3> QED BY <3>1 DEF Live
  <2> QED BY <1>a, <2>1, GaugeKept DEF TypeInv, EngType
<1>1. ASSUME NEW r \in Calls, session(r) PROVE TypeInv'
  <2>1. UNCHANGED <<eng, gauge, victim, dying, strays>>
    BY <1>1 DEF session, reapVars
  <2>2. made' + Cardinality(Arriving') <= Cardinality(Calls) /\ made' \in Nat
    <3>1. Arriving' \in SUBSET Arriving /\ r \in Arriving /\ r \notin Arriving'
      BY <1>1, SessionStep DEF OnlyCall, Arriving
    <3>2. /\ Cardinality(Arriving') + 1 <= Cardinality(Arriving)
          /\ Cardinality(Arriving') \in Nat /\ Cardinality(Arriving) \in Nat
      BY <3>1, Sizes, Smaller
    <3>3. /\ made \in Nat /\ made + Cardinality(Arriving) <= Cardinality(Calls)
          /\ Cardinality(Calls) \in Nat /\ made' \in {made, made + 1}
      BY <1>1, Sizes, SessionStep DEF TypeInv, PoolType, Budget
    <3> QED BY <3>2, <3>3
  <2>3. PoolType'
    BY <1>1, <2>1, <2>2, SessionStep DEF TypeInv, PoolType
  <2>4. \A x \in Sessions : ses'[x].proc = ses[x].proc /\ ses'[x].next = ses[x].next
    BY <1>1, SessionStep
  <2>5. EngType' /\ Len(eng') = Len(eng) /\ Cardinality(Live') <= gauge'
    BY <1>a, <2>1, <2>4
  <2>6. /\ OnlyCall(r) /\ call[r].pc = "new" /\ call'[r].pc = "has" /\ SesType'
        /\ call'[r].sess \in Sessions /\ call'[r].left = call[r].left
        /\ call'[r].pid = call[r].pid
    BY <1>1, SessionStep
  <2> QED BY <2>2, <2>3, <2>4, <2>5, <2>6, MovesTyped
<1>2. ASSUME NEW r \in Calls, QueueForLock(r) PROVE TypeInv'
  <2>1. UNCHANGED <<pool, made, eng, gauge, victim, dying, strays>>
    BY <1>2 DEF QueueForLock, reapVars
  <2>2. \A x \in Sessions : ses'[x].proc = ses[x].proc /\ ses'[x].next = ses[x].next
    BY <1>2, QueueStep DEF OnlySes
  <2>3. /\ OnlyCall(r) /\ call[r].pc = "has" /\ call'[r].pc = "queued" /\ SesType'
        /\ call'[r].sess \in Sessions /\ call'[r].left = call[r].left
        /\ call'[r].pid = call[r].pid
    BY <1>2, QueueStep DEF OnlySes
  <2>4. made' + Cardinality(Arriving') <= Cardinality(Calls)
    BY <2>1, <2>3, ArrivingKept DEF OnlyCall
  <2>5. EngType' /\ Len(eng') = Len(eng) /\ Cardinality(Live') <= gauge'
    BY <1>a, <2>1, <2>2
  <2>6. PoolType'
    BY <2>1, PoolKept
  <2> QED BY <2>2, <2>3, <2>4, <2>5, <2>6, MovesTyped
<1>3. ASSUME NEW r \in Calls, GiveUp(r) PROVE TypeInv'
  <2>1. UNCHANGED <<pool, made, victim, dying, strays>>
    BY <1>3 DEF GiveUp, reapVars
  <2>2. /\ OnlyCall(r) /\ Waiting(r) /\ call'[r].pc = "closing" /\ SesType'
        /\ call'[r].sess \in Sessions /\ call'[r].left = call[r].left
        /\ call'[r].pid \in {0, call[r].pid} /\ Closes(call[r].sess) /\ call[r].sess \in Sessions
    BY <1>3, GiveUpStep DEF Closes, OnlySes
  <2>3. /\ gauge' \in Nat /\ gauge' <= gauge /\ Cardinality(Live') <= gauge'
        /\ EngType' /\ Len(eng') = Len(eng)
        /\ \A y \in Sessions : ses'[y].proc \in {0, ses[y].proc} /\ ses'[y].next = ses[y].next
    BY <2>2, ClosesGauge
  <2>4. made' + Cardinality(Arriving') <= Cardinality(Calls)
    BY <2>1, <2>2, ArrivingKept DEF OnlyCall
  <2>5. PoolType'
    <3>1. gauge \in Nat /\ gauge <= Len(eng) /\ Len(eng) \in Nat
      BY Parts DEF TypeInv, PoolType
    <3>2. gauge' <= Len(eng')
      BY <2>3, <3>1
    <3> QED BY <2>1, <2>3, <3>2 DEF TypeInv, PoolType
  <2>6. call[r].pc # "ended"
    BY <2>2 DEF Waiting
  <2> QED BY <2>2, <2>3, <2>4, <2>5, <2>6, MovesTyped
<1>4. ASSUME NEW r \in Calls, MyTurn(r) \/ call[r].pc \in Using, LetsGo(r), UNCHANGED eng,
             UNCHANGED <<pool, made, victim, dying, gauge, strays>>
      PROVE  TypeInv'
  <2>1. EngType' /\ Len(eng') = Len(eng) /\ \A p \in 1..Len(eng) : eng'[p].status = eng[p].status
    BY <1>4 DEF TypeInv, EngType
  <2> QED BY <1>4, <2>1, LetsGoTyped
<1>5. ASSUME NEW r \in Calls, call[r].pc \in Using, LetsGo(r), ReadsLine(r),
             UNCHANGED <<pool, made, victim, dying, gauge, strays>>
      PROVE  TypeInv'
  <2>1. EngType' /\ Len(eng') = Len(eng) /\ \A p \in 1..Len(eng) : eng'[p].status = eng[p].status
    BY <1>5 DEF ReadsLine, OnlyEng
  <2> QED BY <1>5, <2>1, LetsGoTyped
<1>6. ASSUME NEW r \in Calls, CallStep(r) PROVE TypeInv'
  <2>1. CASE call_tool(r)
    BY <2>1, CallToolStep, SendsTyped DEF call_tool, reapVars
  <2>2. CASE WriteFails(r)
    BY <1>4, <2>2, WriteFailsStep DEF WriteFails, reapVars
  <2>3. CASE ensure_started(r) \/ SpawnFails(r) \/ CloseReturns(r)
    <3>1. MyTurn(r) \/ call[r].pc \in Using
      BY <2>3 DEF ensure_started, SpawnFails, CloseReturns, Using
    <3>2. UNCHANGED eng /\ UNCHANGED <<pool, made, victim, dying, gauge, strays>>
      BY <2>3 DEF ensure_started, SpawnFails, CloseReturns, reapVars
    <3> QED BY <1>4, <2>3, <3>1, <3>2, EndStep
  <2>4. CASE SkipLine(r)
    <3>1. Readable(r) /\ UNCHANGED <<pool, made, ses, call, victim, dying, gauge, strays>>
          /\ eng' = [eng EXCEPT ![call[r].pid].out = Tail(@)]
      BY <2>4 DEF SkipLine, reapVars
    <3>2. EngType' /\ Len(eng') = Len(eng) /\ \A p \in 1..Len(eng) : eng'[p].status = eng[p].status
      BY <3>1, ReadStep DEF ReadsLine, OnlyEng
    <3>3. Live' \subseteq Live
      <4>1. \A y \in Sessions : y \in Live' => y \in Live
        BY <3>1, <3>2, LiveKept
      <4> QED BY <4>1 DEF Live
    <3>4. SesType'
      BY <3>1 DEF TypeInv, SesType
    <3> QED BY <3>1, <3>2, <3>3, <3>4, GaugeKept, PoolKept, CallsTyped
  <2>5. CASE TakeInitialize(r)
    <3>1. call[r].pc = "init" /\ call[r].pc \in Using
          /\ UNCHANGED <<pool, made, victim, dying, gauge, strays>>
      BY <2>5 DEF TakeInitialize, Using, reapVars
    <3> QED BY <1>5, <2>5, <3>1, TakeInitializeStep, SendsTyped
  <2>6. CASE TakeReply(r)
    <3>1. call[r].pc \in Using /\ UNCHANGED <<pool, made, victim, dying, gauge, strays>>
      BY <2>6 DEF TakeReply, Using, reapVars
    <3> QED BY <1>5, <2>6, <3>1, TakeReplyStep
  <2> QED
    BY <1>1, <1>2, <1>3, <1>6, <2>1, <2>2, <2>3, <2>4, <2>5, <2>6, SpawnTyped DEF CallStep
<1>7. ASSUME NEW x \in Sessions, GoIdle(x) PROVE TypeInv'
  <2>1. UNCHANGED <<pool, made, eng, call, victim, dying, gauge, strays>>
    BY <1>7 DEF GoIdle, reapVars
  <2>2. SesType' /\ \A y \in Sessions : ses'[y].proc = ses[y].proc /\ ses'[y].next = ses[y].next
    BY <1>7, IdleStep
  <2>3. EngType' /\ Len(eng') = Len(eng) /\ Cardinality(Live') <= gauge'
    BY <1>a, <2>1, <2>2
  <2> QED BY <2>1, <2>2, <2>3, PoolKept, CallsTyped
<1>8. CASE ReapCloses
  <2>1. victim \in Sessions /\ Closes(victim) /\ UNCHANGED <<pool, made, call, strays>>
        /\ victim' = 0 /\ dying' = IF Running(victim) THEN ses[victim].proc ELSE 0
    BY <1>8, CloseStep DEF ReapCloses, TypeInv, PoolType
  <2>2. /\ gauge' \in Nat /\ gauge' <= gauge /\ Cardinality(Live') <= gauge'
        /\ EngType' /\ Len(eng') = Len(eng)
        /\ \A y \in Sessions : ses'[y].proc \in {0, ses[y].proc} /\ ses'[y].next = ses[y].next
    BY <2>1, ClosesGauge
  <2>3. gauge' <= Len(eng') /\ dying' \in 0..Len(eng')
    <3>1. gauge \in Nat /\ gauge <= Len(eng) /\ Len(eng) \in Nat
          /\ ses[victim].proc \in 0..Len(eng)
      BY <2>1, Parts DEF TypeInv, PoolType, Placed
    <3> QED BY <2>1, <2>2, <3>1
  <2>4. PoolType'
    BY <2>1, <2>2, <2>3 DEF TypeInv, PoolType
  <2>5. SesType'
    BY <2>1 DEF Closes, OnlySes
  <2> QED BY <2>1, <2>2, <2>4, <2>5, CallsTyped
<1>9. ASSUME UNCHANGED <<made, ses, eng, call, gauge>>, PoolType' PROVE TypeInv'
  <2>1. EngType' /\ Len(eng') = Len(eng) /\ Cardinality(Live') <= gauge' /\ SesType'
    BY <1>a, <1>9 DEF TypeInv, SesType
  <2> QED BY <1>9, <2>1, CallsTyped
<1>10. CASE Reap \/ ReapReturns \/ UNCHANGED vars
  <2>1. PoolType'
    BY <1>10, Parts DEF Reap, ReapReturns, vars, TypeInv, PoolType
  <2> QED BY <1>9, <1>10, <2>1 DEF Reap, ReapReturns, vars
<1>11. ASSUME NEW p \in DOMAIN eng, EngineStep(p) PROVE TypeInv'
  <2>0. strays \in 0..MaxStray
    BY DEF TypeInv, PoolType
  <2>1. UNCHANGED <<pool, made, victim, dying, gauge>> /\ strays' \in 0..MaxStray
    <3>1. UNCHANGED <<pool, made, victim, dying, gauge>>
      BY <1>11 DEF EngineStep, Answers, WritesUnasked, Crashes, Exits, reapVars
    <3>2. strays' = strays \/ (strays < MaxStray /\ strays' = strays + 1)
      BY <1>11 DEF EngineStep, Answers, WritesUnasked, Crashes, Exits
    <3> QED BY <2>0, <3>1, <3>2
  <2>2. /\ EngType' /\ Len(eng') = Len(eng) /\ UNCHANGED <<ses, call>>
        /\ \A o \in 1..Len(eng) : eng[o].status = "gone" => eng'[o].status = "gone"
    BY <1>11, EngineActsStep DEF EngineActs, OnlyEng
  <2>3. Live' \subseteq Live
    <3>1. \A y \in Sessions : y \in Live' => y \in Live
      BY <2>2, LiveKept
    <3> QED BY <3>1 DEF Live
  <2>4. SesType' /\ PoolType'
    BY <2>1, <2>2 DEF TypeInv, SesType, PoolType
  <2> QED BY <2>1, <2>2, <2>3, <2>4, GaugeKept, CallsTyped
<1> QED BY <1>6, <1>7, <1>8, <1>10, <1>11 DEF Next

-----------------------------------------------------------------------------
(* Processes: who waits on which.                                          *)

\* A waiting call has a session.
LEMMA WaitingPlaced ==
    ASSUME TypeInv, NEW r \in Calls, Waiting(r)
    PROVE  /\ call[r].sess \in Sessions /\ call[r].pid \in 1..Len(eng) /\ call[r].id # 0
           /\ call[r].pc \in Using /\ call[r].left \in {1, 2}
<1>1. call[r].pc \in Using /\ call[r].pc \notin {"new", "ended"}
  BY DEF Waiting, Using
<1>2. call[r].pid \in 0..Len(eng) /\ call[r].pid # 0 /\ Len(eng) \in Nat
  BY Parts DEF TypeInv, Placed
<1> QED BY <1>1, <1>2 DEF TypeInv, Placed

\* Nobody starts to wait, and sessions keep their process or give it up.
LEMMA ProcKept ==
    ASSUME TypeInv, ProcInv, \A x \in Sessions : ses'[x].proc \in {0, ses[x].proc},
           \A r \in Calls : Waiting(r)' => /\ Waiting(r) /\ call'[r].pid = call[r].pid
                                           /\ call'[r].sess = call[r].sess
    PROVE  ProcInv'
<1>1. \A r \in Calls : Waiting(r) => call[r].sess \in Sessions /\ call[r].pid # 0
  BY WaitingPlaced
<1>2. OwnedOnce'
  BY <1>1 DEF ProcInv, OwnedOnce
<1>3. AloneOnProcess'
  BY <1>1 DEF ProcInv, AloneOnProcess
<1> QED BY <1>2, <1>3 DEF ProcInv

\* The user of a session starts to wait for the session's process.
LEMMA ProcSends ==
    ASSUME TypeInv, LockInv, ProcInv, NEW r \in Calls, Sends(r),
           MyTurn(r) \/ (call[r].pc = "init" /\ ses[call[r].sess].proc = call[r].pid)
    PROVE  ProcInv'
<1> DEFINE x == call[r].sess
           p == ses[x].proc
<1>1. /\ \A q \in Calls \ {r} : call'[q] = call[q]
      /\ \A y \in Sessions : ses'[y].proc = ses[y].proc
      /\ call'[r].pid = p /\ call'[r].sess = x /\ p \in 1..Len(eng) /\ p # 0
  <2>1. x \in Sessions /\ p \in 1..Len(eng)
    BY HoldsLock DEF Sends, Using
  <2>2. p # 0
    BY <2>1, Parts
  <2>3. \A y \in Sessions : ses'[y].proc = ses[y].proc
    BY DEF Sends, OnlySes
  <2> QED BY <2>1, <2>2, <2>3 DEF Sends, OnlyCall
<1>2. \A q \in Calls \ {r} : Waiting(q)' => Waiting(q)
  BY <1>1 DEF Waiting
<1>3. CASE call[r].pc = "init" /\ ses[x].proc = call[r].pid
  <2>1. Waiting(r)
    BY <1>3 DEF Waiting
  <2> QED BY <1>1, <1>2, <1>3, <2>1, ProcKept
<1>4. CASE MyTurn(r)
  <2>1. x \in Sessions
    BY <1>4, HoldsLock
  <2>2. \A q \in Calls \ {r} : Waiting(q) => call[q].sess \in Sessions /\ call[q].sess # x
    BY <1>4, OneUser, WaitingPlaced
  <2>3. \A q \in Calls \ {r} : Waiting(q) => call[q].pid # p
    BY <2>1, <2>2 DEF ProcInv, OwnedOnce
  <2>4. OwnedOnce'
    <3>1. \A y \in Sessions \ {x} : ses[y].proc # p
      BY <1>1, <2>1 DEF ProcInv, OwnedOnce
    <3> QED BY <1>1, <1>2, <3>1 DEF ProcInv, OwnedOnce
  <2>5. AloneOnProcess'
    <3> SUFFICES ASSUME NEW q \in Calls, Waiting(q)'
                 PROVE  /\ ses'[call'[q].sess].proc \in {0, call'[q].pid}
                        /\ \A o \in Calls \ {q} : Waiting(o)' => call'[o].pid # call'[q].pid
      BY DEF AloneOnProcess
    <3>1. CASE q = r
      BY <1>1, <1>2, <2>1, <2>3, <3>1
    <3>2. CASE q # r
      BY <1>1, <1>2, <2>2, <2>3, <3>2 DEF ProcInv, AloneOnProcess
    <3> QED BY <3>1, <3>2
  <2> QED BY <2>4, <2>5 DEF ProcInv
<1> QED BY <1>3, <1>4

\* A new process is nobody else's.
LEMMA ProcSpawn ==
    ASSUME TypeInv, LockInv, ProcInv, NEW r \in Calls, Spawn(r)
    PROVE  ProcInv'
<1> DEFINE x == call[r].sess
           p == Len(eng) + 1
<1>1. /\ \A q \in Calls \ {r} : call'[q] = call[q]
      /\ \A y \in Sessions \ {x} : ses'[y] = ses[y]
      /\ ses'[x].proc = p /\ call'[r].pid = p /\ call'[r].sess = x /\ MyTurn(r)
  BY SpawnStep DEF OnlyCall, OnlySes
<1>2. x \in Sessions /\ \A q \in Calls \ {r} : Waiting(q)' => Waiting(q)
  BY <1>1, HoldsLock DEF Waiting
<1>3. \A q \in Calls \ {r} : Waiting(q) => call[q].sess \in Sessions /\ call[q].sess # x
  BY <1>1, OneUser, WaitingPlaced
<1>4. /\ \A y \in Sessions : ses[y].proc # p
      /\ \A q \in Calls : call[q].pid # p
      /\ p # 0
  <2>1. /\ \A y \in Sessions : ses[y].proc \in 0..Len(eng)
        /\ \A q \in Calls : call[q].pid \in 0..Len(eng)
        /\ Len(eng) \in Nat
    BY Parts DEF TypeInv, Placed
  <2> QED BY <2>1
<1> HIDE DEF p
<1>5. OwnedOnce'
  <2>1. \A y, z \in Sessions : y # z /\ ses'[y].proc # 0 => ses'[y].proc # ses'[z].proc
    BY <1>1, <1>4 DEF ProcInv, OwnedOnce
  <2>2. \A q \in Calls : Waiting(q)' =>
            \A y \in Sessions \ {call'[q].sess} : ses'[y].proc # call'[q].pid
    BY <1>1, <1>2, <1>4 DEF ProcInv, OwnedOnce
  <2> QED BY <2>1, <2>2 DEF OwnedOnce
<1>6. AloneOnProcess'
  <2> SUFFICES ASSUME NEW q \in Calls, Waiting(q)'
               PROVE  /\ ses'[call'[q].sess].proc \in {0, call'[q].pid}
                      /\ \A o \in Calls \ {q} : Waiting(o)' => call'[o].pid # call'[q].pid
    BY DEF AloneOnProcess
  <2>1. CASE q = r
    BY <1>1, <1>2, <1>4, <2>1
  <2>2. CASE q # r
    BY <1>1, <1>2, <1>3, <1>4, <2>2 DEF ProcInv, AloneOnProcess
  <2> QED BY <2>1, <2>2
<1> QED BY <1>5, <1>6 DEF ProcInv

\* Letting go of a session, nobody starts to wait.
LEMMA LetsGoWaits ==
    ASSUME NEW r \in Calls, LetsGo(r)
    PROVE  /\ \A q \in Calls : Waiting(q)' => Waiting(q) /\ call'[q] = call[q]
           /\ \A y \in Sessions : ses'[y].proc = ses[y].proc
<1>1. ~ Waiting(r)'
  BY DEF LetsGo, Waiting
<1> QED BY <1>1 DEF LetsGo, OnlyCall, OnlySes, Waiting

\* Every step keeps each waiting call alone on its process.
LEMMA ProcNext == TypeInv /\ LockInv /\ ProcInv /\ [Next]_vars => ProcInv'
<1> SUFFICES ASSUME TypeInv, LockInv, ProcInv, [Next]_vars PROVE ProcInv'
  OBVIOUS
<1>1. ASSUME NEW r \in Calls, session(r) \/ QueueForLock(r) PROVE ProcInv'
  <2>1. /\ \A q \in Calls \ {r} : call'[q] = call[q]
        /\ call'[r].pc \in {"has", "queued"}
        /\ \A y \in Sessions : ses'[y].proc = ses[y].proc
    BY <1>1, SessionStep, QueueStep DEF OnlyCall, OnlySes
  <2>2. \A q \in Calls : Waiting(q)' => Waiting(q) /\ call'[q] = call[q]
    BY <2>1 DEF Waiting
  <2> QED BY <2>1, <2>2, ProcKept
<1>2. ASSUME NEW r \in Calls, LetsGo(r) PROVE ProcInv'
  BY <1>2, LetsGoWaits, ProcKept
<1>3. ASSUME NEW r \in Calls, GiveUp(r) PROVE ProcInv'
  <2>1. /\ \A q \in Calls \ {r} : call'[q] = call[q] /\ call'[r].pc = "closing"
        /\ \A y \in Sessions : ses'[y].proc \in {0, ses[y].proc}
    BY <1>3, GiveUpStep DEF OnlyCall, Closes, OnlySes
  <2>2. \A q \in Calls : Waiting(q)' => Waiting(q) /\ call'[q] = call[q]
    BY <1>3, <2>1, GiveUpStep DEF Waiting
  <2> QED BY <2>1, <2>2, ProcKept
<1>4. ASSUME \A y \in Sessions : ses'[y].proc \in {0, ses[y].proc}, UNCHANGED call PROVE ProcInv'
  BY <1>4, ProcKept DEF Waiting
<1>5. ASSUME NEW r \in Calls, CallStep(r) PROVE ProcInv'
  <2>1. CASE call_tool(r)
    BY <2>1, CallToolStep, ProcSends DEF call_tool
  <2>2. CASE TakeInitialize(r)
    BY <1>2, <2>2, TakeInitializeStep, ProcSends
  <2>3. CASE SkipLine(r)
    BY <1>4, <2>3 DEF SkipLine
  <2> QED BY <1>1, <1>2, <1>3, <1>5, <2>1, <2>2, <2>3, ProcSpawn, EndStep, WriteFailsStep,
             TakeReplyStep DEF CallStep
<1>6. ASSUME NEW x \in Sessions, GoIdle(x) PROVE ProcInv'
  BY <1>4, <1>6, IdleStep DEF GoIdle
<1>7. CASE ReapCloses
  <2>1. victim \in Sessions /\ Closes(victim) /\ UNCHANGED call
    BY <1>7, CloseStep DEF ReapCloses, TypeInv, PoolType
  <2>2. \A y \in Sessions : ses'[y].proc \in {0, ses[y].proc}
    BY <2>1 DEF Closes, OnlySes
  <2> QED BY <1>4, <2>1, <2>2
<1>8. CASE UNCHANGED <<ses, call>>
  BY <1>4, <1>8
<1>9. ASSUME NEW p \in DOMAIN eng, EngineStep(p) PROVE ProcInv'
  BY <1>8, <1>9, EngineActsStep DEF EngineActs
<1> QED BY <1>5, <1>6, <1>7, <1>8, <1>9 DEF Next, vars, Reap, ReapReturns

\* At the start nobody has arrived.
LEMMA BridgeInit == Init => TypeInv /\ LockInv /\ ProcInv
<1> SUFFICES ASSUME Init PROVE TypeInv /\ LockInv /\ ProcInv
  OBVIOUS
<1> USE DEF Init
<1>1. MaxProcs \in Nat /\ 0 \in 0..MaxProcs /\ 0 \in Ids /\ <<>> \in Seq(Calls)
      /\ 1 \in 0..2 /\ 2 \in 0..2
  BY Sizes DEF Ids
<1>2. /\ NewSession \in SessionStates /\ NewSession.proc = 0 /\ NewSession.next = 0
  BY <1>1 DEF NewSession, SessionStates
<1>3. SesType /\ \A x \in Sessions : ses[x].proc = 0 /\ ses[x].next = 0
  BY <1>2 DEF SesType
<1>4. \A r \in Calls : \E k \in {"tool", "ask", "layout"} :
          call[r] = [pc |-> "new", kind |-> k, left |-> Rounds(k), sess |-> 0,
                     pid |-> 0, id |-> 0, got |-> NoReply]
  OBVIOUS
<1>5. \A r \in Calls : /\ call[r] \in CallStates /\ call[r].pc = "new" /\ call[r].pid = 0
                       /\ call[r].left \in {1, 2} /\ call[r].got = NoReply
  <2> SUFFICES ASSUME NEW r \in Calls
               PROVE  /\ call[r] \in CallStates /\ call[r].pc = "new" /\ call[r].pid = 0
                      /\ call[r].left \in {1, 2} /\ call[r].got = NoReply
    OBVIOUS
  <2>1. PICK k \in {"tool", "ask", "layout"} :
            call[r] = [pc |-> "new", kind |-> k, left |-> Rounds(k), sess |-> 0,
                       pid |-> 0, id |-> 0, got |-> NoReply]
    BY <1>4
  <2>2. Rounds(k) \in {1, 2} /\ Rounds(k) \in 0..2
    BY <1>1 DEF Rounds
  <2> QED BY <1>1, <2>1, <2>2 DEF CallStates
<1>6. CallType
  BY <1>5 DEF CallType
<1>7. EngType /\ Len(eng) = 0
  BY DEF EngType
<1>8. PoolType
  BY <1>7 DEF PoolType
<1>9. Placed
  BY <1>3, <1>5, <1>7 DEF Placed, Waiting
<1>10. Budget
  <2>1. Live = {}
    BY <1>3 DEF Live, Running
  <2>2. Cardinality(Live) = 0
    BY <2>1, FS_EmptySet
  <2>3. /\ Cardinality(Arriving) <= Cardinality(Calls) /\ Cardinality(Arriving) \in Nat
        /\ Cardinality(Unspawned) <= MaxProcs /\ Cardinality(Unspawned) \in Nat
        /\ Cardinality(Unsent) <= MaxProcs /\ Cardinality(Unsent) \in Nat
    BY Sizes DEF Unspawned, Unsent
  <2>4. made + Cardinality(Arriving) <= Cardinality(Calls)
    BY <2>3
  <2>5. Len(eng) + Cardinality(Unspawned) <= MaxProcs
    BY <1>7, <2>3
  <2>6. \A x \in Sessions : ses[x].next + Cardinality(Unsent) <= MaxProcs + 1
    BY <1>1, <1>3, <2>3
  <2> QED BY <2>2, <2>4, <2>5, <2>6 DEF Budget
<1>11. LockInv /\ ProcInv
  BY <1>3, <1>5 DEF LockInv, ProcInv, OwnedOnce, AloneOnProcess, Waiting, Queuing, Using
<1> QED BY <1>3, <1>6, <1>7, <1>8, <1>9, <1>10, <1>11 DEF TypeInv

\* The bridge keeps its types: each call takes at most one session and, per
\* engine call, starts at most one process and uses at most one id.
THEOREM BridgeTyped == Spec => []TypeOK
BY BridgeInit, TypeNext, LockNext, ProcNext, TypeImplied, PTL DEF Spec

\* A call waiting for an answer is alone on its process, and what its timeout
\* closes is what it waited for (CbmSession._lock, CbmSession.close): for any
\* number of calls, sessions, crashes, timeouts and reaped sessions.
THEOREM WaitsAlone == Spec => []AloneOnProcess
<1>1. ProcInv => AloneOnProcess
  BY DEF ProcInv
<1> QED BY BridgeInit, TypeNext, LockNext, ProcNext, <1>1, PTL DEF Spec

-----------------------------------------------------------------------------
(* Messages: what is under the id a call waits for.                        *)

\* Reading a line adds none.
LEMMA TailLines ==
    ASSUME NEW s \in Seq(Messages), s # <<>>, NEW i \in DOMAIN Tail(s)
    PROVE  \E j \in DOMAIN s : s[j] = Tail(s)[i]
<1>1. i \in 1..(Len(s) - 1) /\ Len(s) \in Nat /\ Tail(s)[i] = s[i + 1]
  OBVIOUS
<1>2. i + 1 \in DOMAIN s
  BY <1>1
<1> QED BY <1>1, <1>2

\* A line written is the only one added.
LEMMA AppendLines ==
    ASSUME NEW s \in Seq(Messages), NEW m \in Messages, NEW i \in DOMAIN Append(s, m)
    PROVE  Append(s, m)[i] = m \/ \E j \in DOMAIN s : s[j] = Append(s, m)[i]
<1>1. i \in 1..(Len(s) + 1) /\ Len(s) \in Nat
  OBVIOUS
<1>2. CASE i = Len(s) + 1
  BY <1>2
<1>3. CASE i # Len(s) + 1
  <2>1. i \in DOMAIN s /\ Append(s, m)[i] = s[i]
    BY <1>1, <1>3
  <2> QED BY <2>1
<1> QED BY <1>2, <1>3

\* What a process has been asked and has written are messages.
LEMMA TrafficType ==
    ASSUME TypeInv, NEW p \in 1..Len(eng)
    PROVE  /\ eng[p].out \in Seq(Messages) /\ eng[p].asked \in SUBSET Messages
           /\ \A m \in Traffic(eng[p]) : m \in Messages /\ m.id \in Nat
<1>1. eng[p].out \in Seq(Messages) /\ eng[p].asked \in SUBSET Messages
  BY Parts DEF EngineStates
<1>2. \A m \in Traffic(eng[p]) : m \in Messages
  BY <1>1 DEF Traffic, Lines
<1>3. \A m \in Messages : m.id \in Nat
  BY Sizes DEF Messages, Ids
<1> QED BY <1>1, <1>2, <1>3

\* Nothing new to read.
LEMMA ReadsTraffic ==
    ASSUME TypeInv, NEW r \in Calls, ReadsLine(r)
    PROVE  \A p \in 1..Len(eng) : /\ Lines(eng'[p]) \subseteq Lines(eng[p])
                                  /\ Traffic(eng'[p]) \subseteq Traffic(eng[p])
                                  /\ eng'[p].asked = eng[p].asked /\ eng'[p].ready = eng[p].ready
<1> SUFFICES ASSUME NEW p \in 1..Len(eng)
             PROVE  /\ Lines(eng'[p]) \subseteq Lines(eng[p])
                    /\ eng'[p].asked = eng[p].asked /\ eng'[p].ready = eng[p].ready
  BY DEF Traffic
<1>1. CASE p # call[r].pid
  BY <1>1 DEF ReadsLine, OnlyEng, Lines
<1>2. CASE p = call[r].pid
  <2>1. /\ eng'[p].out = Tail(eng[p].out) /\ eng[p].out \in Seq(Messages) /\ eng[p].out # <<>>
        /\ eng'[p].asked = eng[p].asked /\ eng'[p].ready = eng[p].ready
    BY <1>2 DEF ReadsLine
  <2>2. Lines(eng'[p]) \subseteq Lines(eng[p])
    <3>1. \A i \in DOMAIN Tail(eng[p].out) : \E j \in DOMAIN eng[p].out :
              eng[p].out[j] = Tail(eng[p].out)[i]
      BY <2>1, TailLines
    <3> QED BY <2>1, <3>1 DEF Lines
  <2> QED BY <2>1, <2>2
<1> QED BY <1>1, <1>2

\* Nobody sends, and the engine writes only what it was asked or without id.
LEMMA MessagesKept ==
    ASSUME TypeInv, MessageInv,
           \A p \in 1..Len(eng) : \A m \in Traffic(eng'[p]) : m \in Traffic(eng[p]) \/ m.id = 0,
           \A r \in Calls : Waiting(r)' =>
               /\ Waiting(r) /\ call'[r].pid = call[r].pid /\ call'[r].id = call[r].id
               /\ call'[r].left = call[r].left /\ call'[r].pc = call[r].pc,
           \A x \in Sessions : /\ ses'[x].proc \in {0, ses[x].proc}
                               /\ ses'[x].next \in {ses[x].next, ses[x].next + 1}
    PROVE  OwnId' /\ NextIsNew'
<1>1. OwnId'
  <2> SUFFICES ASSUME NEW r \in Calls, Waiting(r)', NEW m \in Traffic(eng'[call'[r].pid]),
                      m.id = call'[r].id
               PROVE  /\ m.call = r /\ m.left = call'[r].left
                      /\ m.method = IF call'[r].pc = "init" THEN "initialize" ELSE "tools"
    BY DEF OwnId
  <2>1. Waiting(r) /\ call[r].pid \in 1..Len(eng) /\ call[r].id # 0
    BY WaitingPlaced
  <2>2. m \in Traffic(eng[call[r].pid])
    BY <2>1
  <2> QED BY <2>1, <2>2 DEF MessageInv, OwnId
<1>2. NextIsNew'
  <2> SUFFICES ASSUME NEW x \in Sessions, ses'[x].proc # 0, NEW m \in Traffic(eng'[ses'[x].proc])
               PROVE  m.id <= ses'[x].next
    BY DEF NextIsNew
  <2>1. ses'[x].proc = ses[x].proc /\ ses[x].proc # 0
    OBVIOUS
  <2>2. ses[x].proc \in 1..Len(eng)
    BY <2>1, Parts DEF TypeInv, Placed
  <2>3. ses[x].next \in Nat
    BY Parts, Sizes DEF SessionStates, Ids
  <2>4. m \in Traffic(eng[ses[x].proc]) \/ m.id = 0
    BY <2>1, <2>2
  <2>5. CASE m \in Traffic(eng[ses[x].proc])
    <3>1. m.id <= ses[x].next /\ m.id \in Nat
      BY <2>1, <2>2, <2>5, TrafficType DEF MessageInv, NextIsNew
    <3> QED BY <2>3, <3>1
  <2>6. CASE m.id = 0
    BY <2>3, <2>6
  <2> QED BY <2>4, <2>5, <2>6
<1> QED BY <1>1, <1>2

\* A request is the first under its id.
LEMMA MessagesSent ==
    ASSUME TypeInv, LockInv, ProcInv, ProcInv', MessageInv, NEW r \in Calls, Sends(r),
           MyTurn(r) \/ call[r].pc = "init"
    PROVE  OwnId' /\ NextIsNew'
<1> DEFINE x == call[r].sess
           p == ses[x].proc
           n == ses[x].next + 1
           m0 == [id |-> n, call |-> r, method |-> "tools", left |-> call[r].left]
<1>0. x \in Sessions /\ p \in 1..Len(eng) /\ p # 0 /\ ses[x].next \in Nat
  <2>1. x \in Sessions /\ p \in 1..Len(eng)
    BY HoldsLock DEF Sends, Using
  <2> QED BY <2>1, Parts, Sizes DEF SessionStates, Ids
<1>1. /\ call'[r].pc = "reply" /\ call'[r].pid = p /\ call'[r].id = n
      /\ call'[r].left = call[r].left
      /\ ses'[x].proc = p /\ ses'[x].next = n
      /\ \A q \in Calls \ {r} : call'[q] = call[q]
      /\ \A y \in Sessions \ {x} : ses'[y] = ses[y]
      /\ \A o \in 1..Len(eng) : o # p => eng'[o] = eng[o]
  BY DEF Sends, OnlyCall, OnlySes, OnlyEng
<1>2. /\ m0.id = n /\ m0.call = r /\ m0.method = "tools" /\ m0.left = call[r].left
  OBVIOUS
<1>3. eng'[p].asked = eng[p].asked \union {m0} /\ eng'[p].out \in {eng[p].out, Tail(eng[p].out)}
  BY DEF Sends
<1> HIDE DEF m0
<1>4. Lines(eng'[p]) \subseteq Lines(eng[p])
  <2>1. CASE eng'[p].out = eng[p].out
    BY <2>1 DEF Lines
  <2>2. CASE eng'[p].out = Tail(eng[p].out) /\ eng[p].out # <<>>
    <3>1. eng[p].out \in Seq(Messages)
      BY <1>0, TrafficType
    <3>3. \A i \in DOMAIN Tail(eng[p].out) : \E j \in DOMAIN eng[p].out :
              eng[p].out[j] = Tail(eng[p].out)[i]
      BY <2>2, <3>1, TailLines
    <3> QED BY <2>2, <3>3 DEF Lines
  <2>3. CASE eng'[p].out = Tail(eng[p].out) /\ eng[p].out = <<>>
    <3>1. Tail(<<>>) = <<>>
      OBVIOUS
    <3> QED BY <2>3, <3>1 DEF Lines
  <2> QED BY <1>3, <2>1, <2>2, <2>3
<1>5. \A m \in Traffic(eng'[p]) : m = m0 \/ m \in Traffic(eng[p])
  BY <1>3, <1>4 DEF Traffic
<1>6. \A o \in 1..Len(eng) : o # p => Traffic(eng'[o]) = Traffic(eng[o])
  BY <1>1 DEF Traffic, Lines
<1>7. \A m \in Traffic(eng[p]) : m.id <= ses[x].next /\ m.id \in Nat
  BY <1>0, TrafficType DEF MessageInv, NextIsNew
<1>8. \A m \in Traffic(eng'[p]) : m = m0 \/ (m.id <= ses[x].next /\ m.id \in Nat)
  BY <1>5, <1>7
<1>9. OwnId'
  <2> SUFFICES ASSUME NEW q \in Calls, Waiting(q)', NEW m \in Traffic(eng'[call'[q].pid]),
                      m.id = call'[q].id
               PROVE  /\ m.call = q /\ m.left = call'[q].left
                      /\ m.method = IF call'[q].pc = "init" THEN "initialize" ELSE "tools"
    BY DEF OwnId
  <2>1. CASE q = r
    <3>1. m \in Traffic(eng'[p]) /\ m.id = n
      BY <1>1, <2>1
    <3>2. m = m0
      BY <1>0, <1>8, <3>1
    <3> QED BY <1>1, <1>2, <2>1, <3>2
  <2>2. CASE q # r
    <3>1. call'[q] = call[q] /\ Waiting(q) /\ Waiting(r)'
      BY <1>1, <2>2 DEF Waiting
    <3>2. call[q].pid # p /\ call[q].pid \in 1..Len(eng)
      BY <1>1, <2>2, <3>1, WaitingPlaced DEF ProcInv, AloneOnProcess
    <3>3. m \in Traffic(eng[call[q].pid])
      BY <1>6, <3>1, <3>2
    <3> QED BY <3>1, <3>3 DEF MessageInv, OwnId
  <2> QED BY <2>1, <2>2
<1>10. NextIsNew'
  <2> SUFFICES ASSUME NEW y \in Sessions, ses'[y].proc # 0, NEW m \in Traffic(eng'[ses'[y].proc])
               PROVE  m.id <= ses'[y].next
    BY DEF NextIsNew
  <2>1. CASE y = x
    <3>1. m \in Traffic(eng'[p]) /\ ses'[y].next = n
      BY <1>1, <2>1
    <3> QED BY <1>0, <1>2, <1>8, <3>1
  <2>2. CASE y # x
    <3>1. ses'[y] = ses[y] /\ ses[y].proc # 0 /\ ses[y].proc # p
      BY <1>0, <1>1, <2>2 DEF ProcInv, OwnedOnce
    <3>2. ses[y].proc \in 1..Len(eng)
      BY <3>1, Parts DEF TypeInv, Placed
    <3> QED BY <1>6, <3>1, <3>2 DEF MessageInv, NextIsNew
  <2> QED BY <2>1, <2>2
<1> QED BY <1>9, <1>10

\* A new process has seen nothing but `initialize`.
LEMMA MessagesSpawn ==
    ASSUME TypeInv, LockInv, ProcInv, MessageInv, NEW r \in Calls, Spawn(r)
    PROVE  OwnId' /\ NextIsNew'
<1> DEFINE x == call[r].sess
           p == Len(eng) + 1
           m0 == [id |-> 1, call |-> r, method |-> "initialize", left |-> call[r].left]
<1>1. /\ call'[r].pc = "init" /\ call'[r].pid = p /\ call'[r].id = 1
      /\ call'[r].left = call[r].left
      /\ ses'[x].proc = p /\ ses'[x].next = 1
      /\ \A q \in Calls \ {r} : call'[q] = call[q]
      /\ \A y \in Sessions \ {x} : ses'[y] = ses[y]
      /\ \A o \in 1..Len(eng) : eng'[o] = eng[o]
  BY SpawnStep DEF OnlyCall, OnlySes
<1>2. eng'[p] = [status |-> "up", ready |-> FALSE, asked |-> {m0}, out |-> <<>>]
  BY SpawnStep
<1>3. m0.id = 1 /\ m0.call = r /\ m0.method = "initialize" /\ m0.left = call[r].left
  OBVIOUS
<1> HIDE DEF m0
<1>4. Traffic(eng'[p]) = {m0}
  <2>1. eng'[p].asked = {m0} /\ eng'[p].out = <<>>
    BY <1>2
  <2>2. DOMAIN eng'[p].out = {}
    BY <2>1
  <2>3. Lines(eng'[p]) = {}
    BY <2>2, Zenon DEF Lines
  <2> QED BY <2>1, <2>3 DEF Traffic
<1>5. \A o \in 1..Len(eng) : Traffic(eng'[o]) = Traffic(eng[o])
  BY <1>1 DEF Traffic, Lines
<1> HIDE DEF p
<1>6. OwnId'
  <2> SUFFICES ASSUME NEW q \in Calls, Waiting(q)', NEW m \in Traffic(eng'[call'[q].pid]),
                      m.id = call'[q].id
               PROVE  /\ m.call = q /\ m.left = call'[q].left
                      /\ m.method = IF call'[q].pc = "init" THEN "initialize" ELSE "tools"
    BY DEF OwnId
  <2>1. CASE q = r
    BY <1>1, <1>3, <1>4, <2>1
  <2>2. CASE q # r
    <3>1. call'[q] = call[q] /\ Waiting(q)
      BY <1>1, <2>2 DEF Waiting
    <3>2. m \in Traffic(eng[call[q].pid])
      BY <1>5, <3>1, WaitingPlaced
    <3> QED BY <3>1, <3>2 DEF MessageInv, OwnId
  <2> QED BY <2>1, <2>2
<1>7. NextIsNew'
  <2> SUFFICES ASSUME NEW y \in Sessions, ses'[y].proc # 0, NEW m \in Traffic(eng'[ses'[y].proc])
               PROVE  m.id <= ses'[y].next
    BY DEF NextIsNew
  <2>1. CASE y = x
    BY <1>1, <1>3, <1>4, <2>1
  <2>2. CASE y # x
    <3>1. ses'[y] = ses[y] /\ ses[y].proc # 0
      BY <1>1, <2>2
    <3>2. ses[y].proc \in 1..Len(eng)
      BY <3>1, Parts DEF TypeInv, Placed
    <3> QED BY <1>5, <3>1, <3>2 DEF MessageInv, NextIsNew
  <2> QED BY <2>1, <2>2
<1> QED BY <1>6, <1>7

\* No request is made: what is new has no id.
Quiet == \A p \in 1..Len(eng) : \A m \in Traffic(eng'[p]) : m \in Traffic(eng[p]) \/ m.id = 0

\* Reading and closing are quiet.
LEMMA QuietSteps ==
    ASSUME TypeInv
    PROVE  /\ \A r \in Calls : ReadsLine(r) => Quiet
           /\ \A x \in Sessions : Closes(x) => Quiet
           /\ UNCHANGED eng => Quiet
<1>1. ASSUME NEW r \in Calls, ReadsLine(r) PROVE Quiet
  BY <1>1, ReadsTraffic DEF Quiet
<1>2. ASSUME NEW x \in Sessions, Closes(x) PROVE Quiet
  <2>1. \A p \in 1..Len(eng) : eng'[p].asked = eng[p].asked /\ eng'[p].out = eng[p].out
    BY <1>2 DEF Closes, OnlyEng
  <2> QED BY <2>1 DEF Quiet, Traffic, Lines
<1>3. UNCHANGED eng => Quiet
  BY DEF Quiet
<1> QED BY <1>1, <1>2, <1>3

\* The engine answers what it was asked, or writes a line without id.
LEMMA QuietEngine ==
    ASSUME TypeInv, NEW p \in 1..Len(eng), EngineActs(p)
    PROVE  Quiet
<1> SUFFICES ASSUME NEW m \in Traffic(eng'[p]) PROVE m \in Traffic(eng[p]) \/ m.id = 0
  BY DEF Quiet, EngineActs, OnlyEng
<1>1. eng[p].out \in Seq(Messages) /\ eng[p].asked \in SUBSET Messages
  BY TrafficType
<1>2. ASSUME NEW n \in Messages, eng'[p].out = Append(eng[p].out, n), m \in Lines(eng'[p])
      PROVE  m = n \/ m \in Lines(eng[p])
  <2>1. PICK i \in DOMAIN Append(eng[p].out, n) : m = Append(eng[p].out, n)[i]
    BY <1>2 DEF Lines
  <2> QED BY <1>1, <2>1, AppendLines DEF Lines
<1>3. CASE \E n \in eng[p].asked :
              eng'[p].asked = eng[p].asked \ {n} /\ eng'[p].out = Append(eng[p].out, n)
  BY <1>1, <1>2, <1>3 DEF Traffic
<1>4. CASE \E n \in Messages : /\ n.id = 0 /\ eng'[p].asked = eng[p].asked
                               /\ eng'[p].out = Append(eng[p].out, n)
  BY <1>2, <1>4 DEF Traffic
<1>5. CASE eng'[p].asked = eng[p].asked /\ eng'[p].out = eng[p].out
  BY <1>5 DEF Traffic, Lines
<1> QED BY <1>3, <1>4, <1>5 DEF EngineActs

\* No step leaves two messages under an id somebody waits for or is to use.
LEMMA IdsNext ==
    TypeInv /\ LockInv /\ ProcInv /\ MessageInv /\ [Next]_vars => OwnId' /\ NextIsNew'
<1> SUFFICES ASSUME TypeInv, LockInv, ProcInv, MessageInv, [Next]_vars PROVE OwnId' /\ NextIsNew'
  OBVIOUS
<1>0. ProcInv'
  BY ProcNext
<1>1. ASSUME Quiet, \A y \in Sessions : /\ ses'[y].proc \in {0, ses[y].proc}
                                        /\ ses'[y].next \in {ses[y].next, ses[y].next + 1},
             \A q \in Calls : Waiting(q)' => Waiting(q) /\ call'[q] = call[q]
      PROVE  OwnId' /\ NextIsNew'
  BY <1>1, MessagesKept DEF Quiet
<1>2. ASSUME NEW r \in Calls, session(r) \/ QueueForLock(r) PROVE OwnId' /\ NextIsNew'
  <2>1. /\ \A q \in Calls \ {r} : call'[q] = call[q]
        /\ call'[r].pc \in {"has", "queued"}
        /\ \A y \in Sessions : ses'[y].proc = ses[y].proc /\ ses'[y].next = ses[y].next
    BY <1>2, SessionStep, QueueStep DEF OnlyCall, OnlySes
  <2>2. \A q \in Calls : Waiting(q)' => Waiting(q) /\ call'[q] = call[q]
    BY <2>1 DEF Waiting
  <2>3. Quiet
    BY <1>2, QuietSteps DEF session, QueueForLock
  <2> QED BY <1>1, <2>1, <2>2, <2>3
<1>3. ASSUME NEW r \in Calls, LetsGo(r), Quiet PROVE OwnId' /\ NextIsNew'
  <2>1. \A y \in Sessions : /\ ses'[y].proc = ses[y].proc
                            /\ ses'[y].next \in {ses[y].next, ses[y].next + 1}
    BY <1>3 DEF LetsGo, OnlySes
  <2> QED BY <1>1, <1>3, <2>1, LetsGoWaits
<1>4. ASSUME NEW r \in Calls, GiveUp(r) PROVE OwnId' /\ NextIsNew'
  <2>1. /\ \A q \in Calls \ {r} : call'[q] = call[q] /\ call'[r].pc = "closing"
        /\ \A y \in Sessions : ses'[y].proc \in {0, ses[y].proc} /\ ses'[y].next = ses[y].next
        /\ Quiet
    BY <1>4, GiveUpStep, QuietSteps DEF OnlyCall, Closes, OnlySes
  <2>2. \A q \in Calls : Waiting(q)' => Waiting(q) /\ call'[q] = call[q]
    BY <1>4, <2>1, GiveUpStep DEF Waiting
  <2> QED BY <1>1, <2>1, <2>2
<1>5. ASSUME Quiet, UNCHANGED call,
             \A y \in Sessions : ses'[y].proc \in {0, ses[y].proc} /\ ses'[y].next = ses[y].next
      PROVE  OwnId' /\ NextIsNew'
  BY <1>1, <1>5 DEF Waiting
<1>6. ASSUME NEW r \in Calls, CallStep(r) PROVE OwnId' /\ NextIsNew'
  <2>1. CASE call_tool(r)
    BY <1>0, <2>1, CallToolStep, MessagesSent DEF call_tool
  <2>2. CASE TakeInitialize(r)
    BY <1>0, <1>3, <2>2, TakeInitializeStep, MessagesSent, QuietSteps
  <2>3. CASE SkipLine(r)
    <3>1. ReadsLine(r) /\ UNCHANGED <<ses, call>>
      BY <2>3, ReadStep DEF SkipLine
    <3> QED BY <1>5, <3>1, QuietSteps
  <2>4. CASE WriteFails(r) \/ ensure_started(r) \/ SpawnFails(r) \/ CloseReturns(r)
    <3>1. UNCHANGED eng
      BY <2>4 DEF WriteFails, ensure_started, SpawnFails, CloseReturns
    <3> QED BY <1>3, <2>4, <3>1, EndStep, WriteFailsStep, QuietSteps
  <2>5. CASE TakeReply(r)
    BY <1>3, <2>5, TakeReplyStep, QuietSteps
  <2> QED BY <1>2, <1>4, <1>6, <2>1, <2>2, <2>3, <2>4, <2>5, MessagesSpawn DEF CallStep
<1>7. ASSUME NEW x \in Sessions, GoIdle(x) PROVE OwnId' /\ NextIsNew'
  BY <1>5, <1>7, IdleStep, QuietSteps DEF GoIdle
<1>8. CASE ReapCloses
  <2>1. victim \in Sessions /\ Closes(victim) /\ UNCHANGED call
    BY <1>8, CloseStep DEF ReapCloses, TypeInv, PoolType
  <2>2. \A y \in Sessions : ses'[y].proc \in {0, ses[y].proc} /\ ses'[y].next = ses[y].next
    BY <2>1 DEF Closes, OnlySes
  <2> QED BY <1>5, <2>1, <2>2, QuietSteps
<1>9. CASE UNCHANGED <<ses, eng, call>>
  BY <1>5, <1>9, QuietSteps
<1>10. ASSUME NEW p \in DOMAIN eng, EngineStep(p) PROVE OwnId' /\ NextIsNew'
  <2>1. EngineActs(p) /\ p \in 1..Len(eng)
    BY <1>10, EngineActsStep, Parts
  <2> QED BY <1>5, <2>1, QuietEngine DEF EngineActs
<1> QED BY <1>6, <1>7, <1>8, <1>9, <1>10 DEF Next, vars, Reap, ReapReturns

\* A call takes a reply only under the id it waits for.
LEMMA ReplyNext ==
    TypeInv /\ LockInv /\ ProcInv /\ MessageInv /\ [Next]_vars => OwnReply'
<1> SUFFICES ASSUME TypeInv, LockInv, ProcInv, MessageInv, [Next]_vars PROVE OwnReply'
  OBVIOUS
<1>1. CASE UNCHANGED call
  BY <1>1 DEF MessageInv, OwnReply
<1>2. ASSUME NEW r \in Calls, CallStep(r) PROVE OwnReply'
  <2>1. ASSUME OnlyCall(r), call'[r].got = call[r].got, call'[r].left = call[r].left
        PROVE  OwnReply'
    BY <2>1 DEF MessageInv, OwnReply, OnlyCall
  <2>2. CASE TakeReply(r)
    <3>1. /\ OnlyCall(r) /\ call'[r].got = Line(r) /\ call'[r].left = call[r].left - 1
          /\ Readable(r) /\ Waiting(r) /\ call[r].pc = "reply" /\ Line(r).id = call[r].id
      BY <2>2, TakeReplyStep DEF TakeReply, LetsGo, Readable
    <3>2. Line(r) \in Traffic(eng[call[r].pid]) /\ call[r].left \in {1, 2}
      BY <3>1, LineType, WaitingPlaced DEF Traffic
    <3>3. Line(r).call = r /\ Line(r).left = call[r].left /\ Line(r).method = "tools"
      BY <3>1, <3>2 DEF MessageInv, OwnId
    <3>4. call'[r].left + 1 = call[r].left
      BY <3>1, <3>2
    <3> QED BY <3>1, <3>3, <3>4 DEF MessageInv, OwnReply, OnlyCall
  <2>3. CASE call_tool(r) \/ TakeInitialize(r)
    BY <2>1, <2>3, CallToolStep, TakeInitializeStep DEF Sends, LetsGo
  <2>4. CASE session(r) \/ QueueForLock(r) \/ GiveUp(r) \/ Spawn(r)
    BY <2>1, <2>4, SessionStep, QueueStep, GiveUpStep, SpawnStep
  <2>5. CASE WriteFails(r) \/ ensure_started(r) \/ SpawnFails(r) \/ CloseReturns(r)
    BY <2>1, <2>5, EndStep, WriteFailsStep DEF LetsGo
  <2> QED BY <1>1, <1>2, <2>2, <2>3, <2>4, <2>5 DEF CallStep, SkipLine
<1>3. ASSUME NEW p \in DOMAIN eng, EngineStep(p) PROVE UNCHANGED call
  BY <1>3, EngineActsStep DEF EngineActs
<1> QED BY <1>1, <1>2, <1>3 DEF Next, vars, GoIdle, Reap, ReapCloses, ReapReturns

\* At the start there are no messages.
LEMMA MessageInit == Init => MessageInv
<1> SUFFICES ASSUME Init PROVE MessageInv
  OBVIOUS
<1>1. \A r \in Calls : call[r].pc = "new" /\ call[r].got = NoReply
  BY DEF Init
<1>2. \A x \in Sessions : ses[x].proc = 0
  BY DEF Init, NewSession
<1> QED BY <1>1, <1>2 DEF MessageInv, OwnId, NextIsNew, OwnReply, Waiting

\* A call only takes the answer to its own current request (the id loop of
\* CbmSession._call), though ids start anew with each process and lines of
\* calls that gave up, or written unasked, may still be unread.
THEOREM RepliesAreOwn == Spec => []OwnReply
<1>1. TypeInv /\ LockInv /\ ProcInv /\ MessageInv /\ [Next]_vars => MessageInv'
  BY IdsNext, ReplyNext DEF MessageInv
<1>2. MessageInv => OwnReply
  BY DEF MessageInv
<1> QED BY BridgeInit, MessageInit, TypeNext, LockNext, ProcNext, <1>1, <1>2, PTL DEF Spec

-----------------------------------------------------------------------------
(* The handshake, and processes nobody refers to.                          *)

\* What process p is asked and writes goes with its handshake.
Orderly(p) ==
    /\ eng[p].ready => eng'[p].ready
    /\ \A m \in Lines(eng'[p]) :
          m \in Lines(eng[p]) \/ m.method # "initialize" \/ eng'[p].ready
    /\ \A m \in eng'[p].asked : m \in eng[p].asked \/ m.method # "tools" \/ eng[p].ready

\* No process is started, and a call is done with `initialize` when its
\* session's process is ready or given up.
LEMMA ReadyKept ==
    ASSUME TypeInv, ReadyInv, EngType', Len(eng') = Len(eng), \A p \in 1..Len(eng) : Orderly(p),
           \A x \in Sessions : ses'[x].proc \in {0, ses[x].proc},
           \A r \in Calls : call[r].pc = "init" =>
               \/ call'[r].pc = "init" /\ call'[r].sess = call[r].sess
               \/ ses'[call[r].sess].proc = 0
               \/ ses[call[r].sess].proc # 0 /\ eng[ses[call[r].sess].proc].ready
    PROVE  ReadyInv'
<1>0. DOMAIN eng = 1..Len(eng) /\ DOMAIN eng' = 1..Len(eng)
  BY Parts DEF EngType
<1>1. ASSUME NEW p \in DOMAIN eng', NEW m \in Lines(eng'[p]), m.method = "initialize"
      PROVE  eng'[p].ready
  BY <1>0, <1>1 DEF ReadyInv, Handshake, Orderly
<1>2. ASSUME NEW p \in DOMAIN eng', NEW m \in eng'[p].asked, m.method = "tools"
      PROVE  eng'[p].ready
  BY <1>0, <1>2 DEF ReadyInv, InitializedFirst, Orderly
<1>3. ASSUME NEW x \in Sessions, ses'[x].proc # 0, ~ eng'[ses'[x].proc].ready
      PROVE  \E r \in Calls : call'[r].pc = "init" /\ call'[r].sess = x
  <2>1. ses'[x].proc = ses[x].proc /\ ses[x].proc \in 1..Len(eng)
    BY <1>3, Parts DEF TypeInv, Placed
  <2>2. ~ eng[ses[x].proc].ready
    BY <1>3, <2>1 DEF Orderly
  <2>3. PICK r \in Calls : call[r].pc = "init" /\ call[r].sess = x
    BY <1>3, <2>1, <2>2 DEF ReadyInv, Handshake
  <2> QED BY <1>3, <2>1, <2>2, <2>3
<1> QED BY <1>1, <1>2, <1>3 DEF ReadyInv, Handshake, InitializedFirst

\* A new process waits for the answer to `initialize`.
LEMMA ReadySpawn ==
    ASSUME TypeInv, LockInv, ReadyInv, NEW r \in Calls, Spawn(r)
    PROVE  ReadyInv'
<1> DEFINE x == call[r].sess
           m0 == [id |-> 1, call |-> r, method |-> "initialize", left |-> call[r].left]
<1>1. /\ call'[r].pc = "init" /\ call'[r].sess = x /\ call[r].pc = "queued"
      /\ ses'[x].proc = Len(eng) + 1
      /\ \A q \in Calls \ {r} : call'[q] = call[q]
      /\ \A y \in Sessions \ {x} : ses'[y] = ses[y]
      /\ \A o \in 1..Len(eng) : eng'[o] = eng[o]
  BY SpawnStep DEF OnlyCall, OnlySes, MyTurn
<1>2. DOMAIN eng = 1..Len(eng) /\ DOMAIN eng' = 1..(Len(eng) + 1) /\ Len(eng) \in Nat
  <2>1. DOMAIN eng = 1..Len(eng) /\ Len(eng) \in Nat
    BY Parts
  <2>2. EngType' /\ Len(eng') = Len(eng) + 1
    BY SpawnStep
  <2>3. DOMAIN eng' = 1..Len(eng')
    BY <2>2 DEF EngType
  <2> QED BY <2>1, <2>2, <2>3
<1>3. m0.method = "initialize"
  OBVIOUS
<1>4. eng'[Len(eng) + 1] = [status |-> "up", ready |-> FALSE, asked |-> {m0}, out |-> <<>>]
  BY SpawnStep
<1> HIDE DEF m0
<1>5. eng'[Len(eng) + 1].asked = {m0} /\ eng'[Len(eng) + 1].out = <<>>
  BY <1>4
<1>6. Lines(eng'[Len(eng) + 1]) = {}
  <2>1. DOMAIN eng'[Len(eng) + 1].out = {}
    BY <1>5
  <2> QED BY <2>1, Zenon DEF Lines
<1>7. ASSUME NEW p \in DOMAIN eng', NEW m \in Lines(eng'[p]), m.method = "initialize"
      PROVE  eng'[p].ready
  <2>1. p \in 1..Len(eng)
    BY <1>2, <1>6, <1>7
  <2> QED BY <1>1, <1>2, <1>7, <2>1 DEF ReadyInv, Handshake
<1>8. ASSUME NEW p \in DOMAIN eng', NEW m \in eng'[p].asked, m.method = "tools"
      PROVE  eng'[p].ready
  <2>1. p \in 1..Len(eng)
    BY <1>2, <1>3, <1>5, <1>8
  <2> QED BY <1>1, <1>2, <1>8, <2>1 DEF ReadyInv, InitializedFirst
<1>9. ASSUME NEW y \in Sessions, ses'[y].proc # 0, ~ eng'[ses'[y].proc].ready
      PROVE  \E q \in Calls : call'[q].pc = "init" /\ call'[q].sess = y
  <2>1. CASE y = x
    BY <1>1, <2>1
  <2>2. CASE y # x
    <3>1. ses'[y] = ses[y] /\ ses[y].proc \in 1..Len(eng)
      BY <1>1, <1>9, <2>2, Parts DEF TypeInv, Placed
    <3>2. PICK q \in Calls : call[q].pc = "init" /\ call[q].sess = y
      BY <1>1, <1>9, <3>1 DEF ReadyInv, Handshake
    <3> QED BY <1>1, <3>2
  <2> QED BY <2>1, <2>2
<1> QED BY <1>7, <1>8, <1>9 DEF ReadyInv, Handshake, InitializedFirst

\* Reading and closing are orderly.
LEMMA OrderlySteps ==
    ASSUME TypeInv
    PROVE  /\ \A r \in Calls : ReadsLine(r) =>
                  EngType' /\ Len(eng') = Len(eng) /\ \A p \in 1..Len(eng) : Orderly(p)
           /\ \A x \in Sessions : Closes(x) =>
                  EngType' /\ Len(eng') = Len(eng) /\ \A p \in 1..Len(eng) : Orderly(p)
           /\ UNCHANGED eng =>
                  EngType' /\ Len(eng') = Len(eng) /\ \A p \in 1..Len(eng) : Orderly(p)
<1>1. ASSUME NEW r \in Calls, ReadsLine(r)
      PROVE  EngType' /\ Len(eng') = Len(eng) /\ \A p \in 1..Len(eng) : Orderly(p)
  BY <1>1, ReadsTraffic DEF Orderly, ReadsLine, OnlyEng
<1>2. UNCHANGED eng => EngType' /\ Len(eng') = Len(eng) /\ \A p \in 1..Len(eng) : Orderly(p)
  BY DEF Orderly, TypeInv, EngType
<1>3. ASSUME NEW x \in Sessions, Closes(x)
      PROVE  EngType' /\ Len(eng') = Len(eng) /\ \A p \in 1..Len(eng) : Orderly(p)
  <2>1. CASE UNCHANGED eng
    BY <1>2, <2>1
  <2>2. CASE OnlyEng(ses[x].proc)
    <3>1. \A p \in 1..Len(eng) : /\ eng'[p].asked = eng[p].asked /\ eng'[p].out = eng[p].out
                                 /\ eng'[p].ready = eng[p].ready
      BY <1>3, <2>2 DEF Closes, OnlyEng
    <3> QED BY <2>2, <3>1 DEF Orderly, Lines, OnlyEng
  <2> QED BY <1>3, <2>1, <2>2 DEF Closes
<1> QED BY <1>1, <1>2, <1>3

\* The engine is ready before its answer to `initialize` can be read.
LEMMA OrderlyEngine ==
    ASSUME TypeInv, NEW p \in 1..Len(eng), EngineActs(p)
    PROVE  EngType' /\ Len(eng') = Len(eng) /\ \A o \in 1..Len(eng) : Orderly(o)
<1>1. EngType' /\ Len(eng') = Len(eng) /\ \A o \in 1..Len(eng) : o # p => Orderly(o)
  BY DEF EngineActs, OnlyEng, Orderly
<1>2. eng[p].out \in Seq(Messages) /\ eng[p].asked \in SUBSET Messages
  BY TrafficType
<1>3. ASSUME NEW n \in Messages, eng'[p].out = Append(eng[p].out, n), NEW m \in Lines(eng'[p])
      PROVE  m = n \/ m \in Lines(eng[p])
  <2>1. PICK i \in DOMAIN Append(eng[p].out, n) : m = Append(eng[p].out, n)[i]
    BY <1>3 DEF Lines
  <2> QED BY <1>2, <2>1, AppendLines DEF Lines
<1>4. ASSUME NEW n \in eng[p].asked,
             eng'[p].asked = eng[p].asked \ {n}, eng'[p].out = Append(eng[p].out, n),
             eng'[p].ready = (eng[p].ready \/ n.method = "initialize")
      PROVE  Orderly(p)
  <2>1. \A m \in Lines(eng'[p]) : m = n \/ m \in Lines(eng[p])
    BY <1>2, <1>3, <1>4
  <2>2. \A m \in Lines(eng'[p]) :
            m \in Lines(eng[p]) \/ m.method # "initialize" \/ eng'[p].ready
    BY <1>4, <2>1, Zenon
  <2>3. eng[p].ready => eng'[p].ready
    BY <1>4, Zenon
  <2> QED BY <1>4, <2>2, <2>3 DEF Orderly
<1>5. ASSUME NEW n \in Messages, n.method = "none", eng'[p].asked = eng[p].asked,
             eng'[p].out = Append(eng[p].out, n), eng'[p].ready = eng[p].ready
      PROVE  Orderly(p)
  <2>1. \A m \in Lines(eng'[p]) : m = n \/ m \in Lines(eng[p])
    BY <1>3, <1>5
  <2>2. \A m \in Lines(eng'[p]) : m \in Lines(eng[p]) \/ m.method # "initialize"
    BY <1>5, <2>1
  <2>3. eng[p].ready => eng'[p].ready
    BY <1>5, Zenon
  <2> QED BY <1>5, <2>2, <2>3 DEF Orderly
<1>6. ASSUME eng'[p].asked = eng[p].asked, eng'[p].out = eng[p].out, eng'[p].ready = eng[p].ready
      PROVE  Orderly(p)
  <2>1. Lines(eng'[p]) = Lines(eng[p])
    BY <1>6, Zenon DEF Lines
  <2>2. eng[p].ready => eng'[p].ready
    BY <1>6, Zenon
  <2> QED BY <1>6, <2>1, <2>2 DEF Orderly
<1>7. Orderly(p)
  BY <1>4, <1>5, <1>6 DEF EngineActs
<1> QED BY <1>1, <1>7

\* A request goes to a process that is ready.
LEMMA ReadySent ==
    ASSUME TypeInv, LockInv, ReadyInv, NEW r \in Calls, Sends(r),
           eng[ses[call[r].sess].proc].ready, ses[call[r].sess].proc # 0
    PROVE  ReadyInv'
<1> DEFINE x == call[r].sess
           p == ses[x].proc
           m0 == [id |-> ses[x].next + 1, call |-> r, method |-> "tools", left |-> call[r].left]
<1>1. /\ p \in 1..Len(eng) /\ EngType' /\ Len(eng') = Len(eng)
      /\ \A o \in 1..Len(eng) : o # p => eng'[o] = eng[o]
      /\ eng'[p].out \in {eng[p].out, Tail(eng[p].out)} /\ eng'[p].ready = eng[p].ready
      /\ \A q \in Calls \ {r} : call'[q] = call[q]
      /\ \A y \in Sessions : ses'[y].proc = ses[y].proc
  BY DEF Sends, OnlyEng, OnlyCall, OnlySes
<1>2. \A o \in 1..Len(eng) : Orderly(o)
  BY <1>1 DEF Orderly
<1>3. \A q \in Calls : call[q].pc = "init" =>
          \/ call'[q].pc = "init" /\ call'[q].sess = call[q].sess
          \/ ses[call[q].sess].proc # 0 /\ eng[ses[call[q].sess].proc].ready
  BY <1>1
<1> QED BY <1>1, <1>2, <1>3, ReadyKept

\* The answer to `initialize` comes from a process that is ready.
LEMMA ReadyAnswer ==
    ASSUME TypeInv, MessageInv, ReadyInv, NEW r \in Calls, TakeInitialize(r)
    PROVE  eng[call[r].pid].ready
<1>1. Readable(r) /\ Waiting(r) /\ call[r].pc = "init" /\ Line(r).id = call[r].id
  BY DEF TakeInitialize, Readable
<1>2. Line(r) \in Lines(eng[call[r].pid]) /\ Line(r) \in Traffic(eng[call[r].pid])
  BY <1>1, LineType DEF Traffic
<1>3. Line(r).method = "initialize" /\ call[r].pid \in DOMAIN eng
  BY <1>1, <1>2, WaitingPlaced, Parts DEF MessageInv, OwnId
<1> QED BY <1>2, <1>3 DEF ReadyInv, Handshake

\* No step breaks the handshake.
LEMMA ReadyNext ==
    TypeInv /\ LockInv /\ ProcInv /\ MessageInv /\ ReadyInv /\ [Next]_vars => ReadyInv'
<1> SUFFICES ASSUME TypeInv, LockInv, ProcInv, MessageInv, ReadyInv, [Next]_vars PROVE ReadyInv'
  OBVIOUS
<1>1. ASSUME EngType', Len(eng') = Len(eng), \A p \in 1..Len(eng) : Orderly(p), UNCHANGED call,
             \A y \in Sessions : ses'[y].proc \in {0, ses[y].proc}
      PROVE  ReadyInv'
  BY <1>1, ReadyKept
<1>2. ASSUME NEW r \in Calls, CallStep(r) PROVE ReadyInv'
  <2>1. CASE session(r) \/ QueueForLock(r)
    <3>1. /\ \A q \in Calls \ {r} : call'[q] = call[q]
          /\ call[r].pc # "init"
          /\ \A y \in Sessions : ses'[y].proc = ses[y].proc
      BY <2>1, SessionStep, QueueStep DEF OnlyCall, OnlySes
    <3>2. UNCHANGED eng
      BY <2>1 DEF session, QueueForLock
    <3> QED BY <3>1, <3>2, OrderlySteps, ReadyKept
  <2>2. ASSUME LetsGo(r), EngType', Len(eng') = Len(eng), \A p \in 1..Len(eng) : Orderly(p),
               \/ call[r].pc # "init" \/ ses[call[r].sess].proc = 0
               \/ eng[ses[call[r].sess].proc].ready
        PROVE  ReadyInv'
    <3>1. /\ \A q \in Calls \ {r} : call'[q] = call[q]
          /\ \A y \in Sessions : ses'[y].proc = ses[y].proc
      BY <2>2, LetsGoWaits DEF LetsGo, OnlyCall
    <3>2. call[r].pc = "init" => call[r].sess \in Sessions
      BY WaitingPlaced DEF Waiting
    <3>3. \A q \in Calls : call[q].pc = "init" =>
              \/ call'[q].pc = "init" /\ call'[q].sess = call[q].sess
              \/ ses'[call[q].sess].proc = 0
              \/ ses[call[q].sess].proc # 0 /\ eng[ses[call[q].sess].proc].ready
      BY <2>2, <3>1, <3>2
    <3> QED BY <2>2, <3>1, <3>3, ReadyKept
  <2>3. CASE GiveUp(r)
    <3>1. /\ \A q \in Calls \ {r} : call'[q] = call[q]
          /\ Closes(call[r].sess) /\ call[r].sess \in Sessions
          /\ ses'[call[r].sess].proc = 0
          /\ \A y \in Sessions : ses'[y].proc \in {0, ses[y].proc}
      BY <2>3, GiveUpStep DEF OnlyCall, Closes, OnlySes
    <3> QED BY <3>1, OrderlySteps, ReadyKept
  <2>4. CASE call_tool(r)
    <3>1. /\ Sends(r) /\ MyTurn(r) /\ call[r].sess \in Sessions /\ call[r].pc = "queued"
          /\ ses[call[r].sess].proc # 0 /\ Head(ses[call[r].sess].lock) = r
      BY <2>4, CallToolStep, HoldsLock DEF call_tool, Running, MyTurn
    <3>2. eng[ses[call[r].sess].proc].ready
      <4> SUFFICES ASSUME ~ eng[ses[call[r].sess].proc].ready PROVE FALSE
        OBVIOUS
      <4>1. PICK q \in Calls : call[q].pc = "init" /\ call[q].sess = call[r].sess
        BY <3>1 DEF ReadyInv, Handshake
      <4>2. Head(ses[call[q].sess].lock) = q
        BY <4>1 DEF LockInv, Using
      <4> QED BY <3>1, <4>1, <4>2
    <3> QED BY <3>1, <3>2, ReadySent
  <2>5. CASE TakeInitialize(r)
    <3>1. eng[call[r].pid].ready /\ Waiting(r) /\ call[r].pid \in 1..Len(eng)
      BY <2>5, ReadyAnswer, WaitingPlaced DEF TakeInitialize, Readable
    <3>2. ses[call[r].sess].proc \in {0, call[r].pid}
      BY <3>1 DEF ProcInv, AloneOnProcess
    <3>3. CASE Sends(r) /\ ses[call[r].sess].proc = call[r].pid
      <4>1. call[r].pid # 0
        BY <3>1
      <4> QED BY <3>1, <3>3, <4>1, ReadySent
    <3>4. CASE LetsGo(r) /\ ReadsLine(r)
      BY <2>2, <3>1, <3>2, <3>4, OrderlySteps
    <3> QED BY <2>5, <3>3, <3>4, TakeInitializeStep
  <2>6. CASE SkipLine(r)
    <3>1. ReadsLine(r) /\ UNCHANGED <<ses, call>>
      BY <2>6, ReadStep DEF SkipLine
    <3> QED BY <1>1, <3>1, OrderlySteps
  <2>7. CASE WriteFails(r) \/ ensure_started(r) \/ SpawnFails(r) \/ CloseReturns(r)
    <3>1. UNCHANGED eng /\ call[r].pc # "init"
      BY <2>7 DEF WriteFails, ensure_started, SpawnFails, CloseReturns, MyTurn
    <3> QED BY <2>2, <2>7, <3>1, EndStep, WriteFailsStep, OrderlySteps
  <2>8. CASE TakeReply(r)
    <3>1. call[r].pc # "init"
      BY <2>8 DEF TakeReply
    <3> QED BY <2>2, <2>8, <3>1, TakeReplyStep, OrderlySteps
  <2> QED BY <1>2, <2>1, <2>3, <2>4, <2>5, <2>6, <2>7, <2>8, ReadySpawn DEF CallStep
<1>3. ASSUME NEW x \in Sessions, GoIdle(x) PROVE ReadyInv'
  BY <1>1, <1>3, IdleStep, OrderlySteps DEF GoIdle
<1>4. CASE ReapCloses
  <2>1. victim \in Sessions /\ Closes(victim) /\ UNCHANGED call
    BY <1>4, CloseStep DEF ReapCloses, TypeInv, PoolType
  <2>2. \A y \in Sessions : ses'[y].proc \in {0, ses[y].proc}
    BY <2>1 DEF Closes, OnlySes
  <2> QED BY <1>1, <2>1, <2>2, OrderlySteps
<1>5. CASE UNCHANGED <<ses, eng, call>>
  BY <1>1, <1>5, OrderlySteps
<1>6. ASSUME NEW p \in DOMAIN eng, EngineStep(p) PROVE ReadyInv'
  <2>1. EngineActs(p) /\ p \in 1..Len(eng)
    BY <1>6, EngineActsStep, Parts
  <2> QED BY <1>1, <2>1, OrderlyEngine DEF EngineActs
<1> QED BY <1>2, <1>3, <1>4, <1>5, <1>6 DEF Next, vars, Reap, ReapReturns

\* No tool request reaches an engine that has not answered `initialize`
\* (CbmSession._ensure_started under the session's lock), although a process
\* may be replaced, reaped or given up while it starts.
THEOREM InitializesFirst == Spec => []InitializedFirst
<1>1. Init => ReadyInv
  <2> SUFFICES ASSUME Init PROVE ReadyInv
    OBVIOUS
  <2>1. DOMAIN eng = {} /\ \A x \in Sessions : ses[x].proc = 0
    BY DEF Init, NewSession
  <2> QED BY <2>1 DEF ReadyInv, Handshake, InitializedFirst
<1>2. TypeInv /\ LockInv /\ ProcInv /\ MessageInv /\ [Next]_vars => MessageInv'
  BY IdsNext, ReplyNext DEF MessageInv
<1>3. ReadyInv => InitializedFirst
  BY DEF ReadyInv
<1> QED BY BridgeInit, MessageInit, TypeNext, LockNext, ProcNext, ReadyNext, <1>1, <1>2, <1>3, PTL
        DEF Spec

\* No process is started, and a session gives up only one that is not up.
LEMMA DropKept ==
    ASSUME TypeInv, NoEngineDropped, EngType', Len(eng') = Len(eng),
           \A p \in 1..Len(eng) : eng'[p].status = "up" => eng[p].status = "up",
           \A x \in Sessions : ses'[x].proc # ses[x].proc /\ ses[x].proc \in 1..Len(eng) =>
               eng'[ses[x].proc].status # "up"
    PROVE  NoEngineDropped'
<1> SUFFICES ASSUME NEW p \in DOMAIN eng', eng'[p].status = "up"
             PROVE  \E x \in Sessions : ses'[x].proc = p
  BY DEF NoEngineDropped, Status
<1>1. p \in DOMAIN eng /\ p \in 1..Len(eng) /\ eng[p].status = "up"
  BY Parts DEF EngType
<1>2. PICK x \in Sessions : ses[x].proc = p
  BY <1>1 DEF NoEngineDropped, Status
<1> QED BY <1>1, <1>2

\* What a new process replaces is gone.
LEMMA DropSpawn ==
    ASSUME TypeInv, LockInv, NoEngineDropped, NEW r \in Calls, Spawn(r)
    PROVE  NoEngineDropped'
<1> DEFINE x == call[r].sess
<1>1. /\ ~ Running(x) /\ ses'[x].proc = Len(eng) + 1 /\ x \in Sessions
      /\ \A y \in Sessions \ {x} : ses'[y] = ses[y]
      /\ \A o \in 1..Len(eng) : eng'[o] = eng[o]
      /\ EngType' /\ Len(eng') = Len(eng) + 1
  BY SpawnStep, HoldsLock DEF OnlySes
<1> SUFFICES ASSUME NEW p \in DOMAIN eng', eng'[p].status = "up"
             PROVE  \E y \in Sessions : ses'[y].proc = p
  BY DEF NoEngineDropped, Status
<1>2. p \in 1..(Len(eng) + 1) /\ Len(eng) \in Nat /\ DOMAIN eng = 1..Len(eng)
  BY <1>1, Parts DEF EngType
<1>3. CASE p = Len(eng) + 1
  BY <1>1, <1>3
<1>4. CASE p # Len(eng) + 1
  <2>1. p \in 1..Len(eng) /\ eng[p].status = "up" /\ p # 0
    BY <1>1, <1>2, <1>4
  <2>2. PICK y \in Sessions : ses[y].proc = p
    BY <1>2, <2>1 DEF NoEngineDropped, Status
  <2>3. y # x
    BY <1>1, <2>1, <2>2 DEF Running, Status
  <2> QED BY <1>1, <2>2, <2>3
<1> QED BY <1>3, <1>4

\* close() gives up a process it tells to stop, or one that is gone.
LEMMA DropCloses ==
    ASSUME TypeInv, NoEngineDropped, NEW x \in Sessions, Closes(x)
    PROVE  NoEngineDropped'
<1>1. \A y \in Sessions : y # x => ses'[y] = ses[y]
  BY DEF Closes, OnlySes
<1>2. CASE Running(x)
  <2>1. /\ OnlyEng(ses[x].proc) /\ eng'[ses[x].proc].status = "exiting"
    BY <1>2 DEF Closes
  <2> QED BY <1>1, <2>1, DropKept DEF OnlyEng
<1>3. CASE ~ Running(x)
  <2>1. UNCHANGED eng /\ EngType'
    BY <1>3 DEF Closes, TypeInv, EngType
  <2>2. ses[x].proc \in 1..Len(eng) => eng[ses[x].proc].status # "up"
    BY <1>3, Parts DEF Running, Status
  <2> QED BY <1>1, <2>1, <2>2, DropKept
<1> QED BY <1>2, <1>3

\* No step drops a running process.
LEMMA DropNext ==
    TypeInv /\ LockInv /\ ProcInv /\ NoEngineDropped /\ [Next]_vars => NoEngineDropped'
<1> SUFFICES ASSUME TypeInv, LockInv, ProcInv, NoEngineDropped, [Next]_vars
             PROVE  NoEngineDropped'
  OBVIOUS
<1>1. ASSUME EngType', Len(eng') = Len(eng), \A y \in Sessions : ses'[y].proc = ses[y].proc,
             \A p \in 1..Len(eng) : eng'[p].status = "up" => eng[p].status = "up"
      PROVE  NoEngineDropped'
  BY <1>1, DropKept
<1>2. ASSUME UNCHANGED eng, \A y \in Sessions : ses'[y].proc = ses[y].proc PROVE NoEngineDropped'
  BY <1>1, <1>2 DEF TypeInv, EngType
<1>3. ASSUME NEW r \in Calls, ReadsLine(r), \A y \in Sessions : ses'[y].proc = ses[y].proc
      PROVE  NoEngineDropped'
  BY <1>1, <1>3 DEF ReadsLine, OnlyEng
<1>4. ASSUME NEW r \in Calls, Sends(r) PROVE NoEngineDropped'
  <2>1. EngType' /\ Len(eng') = Len(eng) /\ \A y \in Sessions : ses'[y].proc = ses[y].proc
    BY <1>4 DEF Sends, OnlyEng, OnlySes
  <2>2. \A p \in 1..Len(eng) : eng'[p].status = eng[p].status
    BY <1>4 DEF Sends, OnlyEng
  <2> QED BY <1>1, <2>1, <2>2
<1>5. ASSUME NEW r \in Calls, CallStep(r) PROVE NoEngineDropped'
  <2>1. CASE session(r) \/ QueueForLock(r)
    <3>1. \A y \in Sessions : ses'[y].proc = ses[y].proc
      BY <2>1, SessionStep, QueueStep DEF OnlySes
    <3> QED BY <1>2, <2>1, <3>1 DEF session, QueueForLock
  <2>2. CASE WriteFails(r) \/ ensure_started(r) \/ SpawnFails(r) \/ CloseReturns(r)
    <3>1. UNCHANGED eng
      BY <2>2 DEF WriteFails, ensure_started, SpawnFails, CloseReturns
    <3> QED BY <1>2, <2>2, <3>1, EndStep, WriteFailsStep, LetsGoWaits
  <2>3. CASE SkipLine(r)
    BY <1>3, <2>3, ReadStep DEF SkipLine
  <2>4. CASE TakeReply(r)
    BY <1>3, <2>4, TakeReplyStep, LetsGoWaits
  <2>5. CASE call_tool(r) \/ TakeInitialize(r)
    BY <1>3, <1>4, <2>5, CallToolStep, TakeInitializeStep, LetsGoWaits
  <2>6. CASE GiveUp(r)
    BY <2>6, GiveUpStep, DropCloses
  <2> QED BY <1>5, <2>1, <2>2, <2>3, <2>4, <2>5, <2>6, DropSpawn DEF CallStep
<1>6. ASSUME NEW x \in Sessions, GoIdle(x) PROVE NoEngineDropped'
  BY <1>2, <1>6, IdleStep DEF GoIdle
<1>7. CASE ReapCloses
  BY <1>7, CloseStep, DropCloses DEF ReapCloses, TypeInv, PoolType
<1>8. CASE UNCHANGED <<ses, eng>>
  BY <1>2, <1>8
<1>9. ASSUME NEW p \in DOMAIN eng, EngineStep(p) PROVE NoEngineDropped'
  BY <1>1, <1>9, EngineActsStep DEF EngineActs, OnlyEng
<1> QED BY <1>5, <1>6, <1>7, <1>8, <1>9 DEF Next, vars, Reap, ReapReturns

\* An engine no session refers to has been told to stop (CbmSession.close,
\* _ensure_started, CbmPool._reap_loop): a restart, a timeout and the reap
\* loop never leave a running process behind.
THEOREM EnginesAreKept == Spec => []NoEngineDropped
<1>1. Init => NoEngineDropped
  <2> SUFFICES ASSUME Init PROVE NoEngineDropped
    OBVIOUS
  <2>1. DOMAIN eng = {}
    BY DEF Init
  <2> QED BY <2>1 DEF NoEngineDropped
<1> QED BY BridgeInit, TypeNext, LockNext, ProcNext, DropNext, <1>1, PTL DEF Spec
=============================================================================
