--------------------------- MODULE FirstRunProofs ---------------------------
(***************************************************************************)
(* Proofs about FirstRun, for any processes, runs, accounts and browsers.  *)
(***************************************************************************)
EXTENDS FirstRun, TLAPS

USE FirstRunAssumption DEF Services

Phases   == {"idle", "check", "ensure", "create", "commit", "refresh", "done"}
Outcomes == {"none", "ok", "exists", "error", "lost"}
RunStates == [pc : Phases, at : Gateways \union {Cli}, user : Usernames \union {NoAccount},
              out : Outcomes]
ServiceStates == [up : BOOLEAN, ready : BOOLEAN, setup : BOOLEAN]
SessionStates == [user : Usernames \union {NoToken}, live : BOOLEAN]
SignInStates  == [pc : {"idle", "issue", "acting"}, at : Gateways \union {Cli},
                  user : Usernames \union {NoAccount}]
Proofs == SignIns \X Usernames

DbType      == schema \in BOOLEAN /\ account \in [Usernames -> Runs \union {Changed, NoAccount}]
ServiceType == service \in [Services -> ServiceStates]
RunType     == run \in [Runs -> RunStates]
SessionType == sessions \in [Gateways -> [SignIns -> SessionStates]]
SignInType  == signin \in [SignIns -> SignInStates]
ProvedType  == proved \in [Gateways -> SUBSET Proofs]
FaultType   == faults \in 0..MaxFaults

\* TypeOK, with names for its parts.
LEMMA TypeParts ==
    TypeOK <=> /\ DbType /\ ServiceType /\ RunType /\ SessionType /\ SignInType /\ ProvedType
               /\ FaultType
BY DEF TypeOK, DbType, ServiceType, RunType, SessionType, SignInType, ProvedType, FaultType,
       ServiceStates, RunStates, Phases, Outcomes, SessionStates, SignInStates, Proofs

\* A run that is under way is for a username, and so is one that succeeded.
RunsNamed ==
    \A b \in Runs : run[b].pc \notin {"idle", "done"} \/ run[b].out = "ok"
                        => run[b].user \in Usernames

\* A browser's request runs in a gateway, for a username; a session that is
\* still valid has a username too.
ActorsNamed ==
    /\ \A i \in SignIns : signin[i].pc # "idle" =>
           signin[i].at \in Gateways /\ signin[i].user \in Usernames
    /\ \A g \in Gateways, i \in SignIns :
           sessions[g][i].live => sessions[g][i].user \in Usernames

TypeInv ==
    /\ DbType /\ ServiceType /\ RunType /\ SessionType /\ SignInType /\ ProvedType /\ FaultType
    /\ RunsNamed /\ ActorsNamed

-----------------------------------------------------------------------------
(* What the model's small operators do.                                    *)

\* A run that goes on changes its own phase only.
LEMMA GoesOn ==
    ASSUME RunType, NEW b \in Runs, NEW to \in Phases, Goes(b, to)
    PROVE  /\ RunType'
           /\ run'[b].pc = to /\ run'[b].at = run[b].at /\ run'[b].user = run[b].user
           /\ run'[b].out = run[b].out
           /\ \A a \in Runs \ {b} : run'[a] = run[a]
BY DEF RunType, RunStates, Phases, Outcomes, Goes

\* A run that ends keeps place and username.
LEMMA EndsRun ==
    ASSUME RunType, NEW b \in Runs, NEW out \in Outcomes, Ends(b, out)
    PROVE  /\ RunType'
           /\ run'[b].pc = "done" /\ run'[b].at = run[b].at /\ run'[b].user = run[b].user
           /\ run'[b].out = out
           /\ \A a \in Runs \ {b} : run'[a] = run[a]
BY DEF RunType, RunStates, Phases, Outcomes, Ends

\* What a process learns from the database is well typed.
LEMMA InspectedType ==
    ASSUME DbType PROVE Inspected \in ServiceStates
BY DEF DbType, Inspected, Ready, HasAdmin, ServiceStates

\* Neither a browser's rest nor the lack of a session has an actor.
LEMMA IdleTypes ==
    /\ IdleSignIn \in SignInStates /\ IdleSignIn.pc = "idle"
    /\ NoSession \in SessionStates /\ ~ NoSession.live
BY DEF IdleSignIn, SignInStates, NoSession, SessionStates

\* An attempt makes an idle run one under way, or one that found an
\* administrator, for a username.
LEMMA AttemptRun ==
    ASSUME RunType, NEW b \in Runs, Attempt(b)
    PROVE  /\ RunType' /\ UNCHANGED <<dbVars, service, sessionVars, faults>>
           /\ run[b].pc = "idle" /\ run'[b].user \in Usernames
           /\ \/ run'[b].pc = "check" /\ schema /\ run'[b].out = run[b].out
              \/ /\ run'[b].pc = "ensure" /\ run'[b].out = run[b].out
                 /\ \E g \in Gateways : run'[b].at = g /\ service[g].setup
              \/ run'[b].pc = "done" /\ run'[b].out = "exists"
           /\ \A a \in Runs \ {b} : run'[a] = run[a]
<1>1. ASSUME NEW u \in Usernames, cmd_init(b, u)
      PROVE  /\ RunType' /\ run'[b].user = u
             /\ run'[b].pc = "check" /\ schema /\ run'[b].out = run[b].out
             /\ \A a \in Runs \ {b} : run'[a] = run[a]
  BY <1>1 DEF cmd_init, RunType, RunStates, Phases, Outcomes
<1>2. ASSUME NEW u \in Usernames, NEW g \in Gateways, create_first_admin(b, g, u)
      PROVE  /\ RunType' /\ run'[b].user = u /\ run'[b].at = g
             /\ \/ run'[b].pc = "ensure" /\ run'[b].out = run[b].out /\ service[g].setup
                \/ run'[b].pc = "done" /\ run'[b].out = "exists"
             /\ \A a \in Runs \ {b} : run'[a] = run[a]
  BY <1>2, ZenonT(40) DEF create_first_admin, RunType, RunStates, Phases, Outcomes
<1> QED BY <1>1, <1>2 DEF Attempt, cmd_init, create_first_admin

\* The end of a process ends the runs it had under way, without an answer.
LEMMA CrashRuns ==
    ASSUME RunType, NEW s \in Services, Crash(s)
    PROVE  /\ RunType'
           /\ \A b \in Runs : run'[b].user = run[b].user /\ run'[b].at = run[b].at
           /\ \A b \in Runs : \/ run'[b] = run[b]
                              \/ /\ run[b].pc \notin {"idle", "done"}
                                 /\ run'[b].pc = "done" /\ run'[b].out = "lost"
BY ZenonT(40) DEF Crash, Interrupted, RunType, RunStates, Phases, Outcomes

\* A browser's step leaves processes and runs alone.
LEMMA SignInLeaves ==
    ASSUME NEW i \in SignIns, SignInStep(i) PROVE UNCHANGED <<schema, service, run, faults>>
BY DEF SignInStep, issue, change_password, authenticate_admin, Expires, resolve, logout, dbVars

-----------------------------------------------------------------------------
(* Types.                                                                  *)

\* An empty database and no process: well typed.
LEMMA TypeInit == Init => TypeInv
<1> SUFFICES ASSUME Init PROVE TypeInv
  OBVIOUS
<1>1. DbType /\ ServiceType /\ FaultType
  <2>1. Down \in ServiceStates
    BY DEF Down, ServiceStates
  <2>2. DbType
    BY DEF Init, DbType
  <2>3. ServiceType /\ FaultType
    BY <2>1 DEF Init, ServiceType, FaultType
  <2> QED BY <2>2, <2>3
<1>2. RunType /\ RunsNamed
  BY DEF Init, RunType, RunsNamed, RunStates, Phases, Outcomes, IdleRun
<1>3. SessionType /\ SignInType /\ ActorsNamed
  <2>1. \A g \in Gateways, i \in SignIns : sessions[g][i] = NoSession
    BY DEF Init
  <2>2. SessionType
    BY IdleTypes DEF Init, SessionType
  <2>3. SignInType
    BY IdleTypes DEF Init, SignInType
  <2>4. ActorsNamed
    BY <2>1, IdleTypes DEF Init, ActorsNamed
  <2> QED BY <2>2, <2>3, <2>4
<1>4. ProvedType
  BY DEF Init, ProvedType
<1> QED BY <1>1, <1>2, <1>3, <1>4 DEF TypeInv

\* A browser's step keeps sessions, requests and accounts well typed.
LEMMA SignInTypes ==
    ASSUME TypeInv, NEW i \in SignIns, SignInStep(i) PROVE TypeInv'
<1> USE DEF TypeInv
<1>0. UNCHANGED <<schema, service, run, faults>>
  BY SignInLeaves
<1>1. ServiceType' /\ RunType' /\ FaultType' /\ RunsNamed'
  BY <1>0 DEF ServiceType, RunType, FaultType, RunsNamed
<1>2. DbType'
  BY <1>0 DEF SignInStep, issue, change_password, authenticate_admin, Expires, resolve, logout,
              dbVars, DbType
<1> SUFFICES SessionType' /\ SignInType' /\ ProvedType' /\ ActorsNamed'
  BY <1>1, <1>2
<1>4. ASSUME UNCHANGED sessions, signin' = [signin EXCEPT ![i] = IdleSignIn]
      PROVE  SessionType' /\ SignInType' /\ ActorsNamed'
  BY <1>4, IdleTypes DEF SessionType, SignInType, ActorsNamed
<1>5. ASSUME UNCHANGED signin, NEW g \in Gateways,
             \A h \in Gateways, j \in SignIns :
                 sessions'[h][j] = sessions[h][j] \/ ~ sessions'[h][j].live
      PROVE  ActorsNamed'
  BY <1>5 DEF ActorsNamed
<1>6. CASE issue(i)
  <2>1. PICK g \in Gateways : g = signin[i].at /\ signin[i].user \in Usernames
    BY <1>6 DEF issue, ActorsNamed
  <2>2. [user |-> signin[i].user, live |-> TRUE] \in SessionStates
    BY <2>1 DEF SessionStates
  <2>3. sessions' = [sessions EXCEPT ![g] =
            [j \in SignIns |-> IF j = i THEN [user |-> signin[i].user, live |-> TRUE]
                               ELSE IF sessions[g][j].live THEN sessions[g][j] ELSE NoSession]]
    BY <1>6, <2>1 DEF issue, SessionType
  <2>4. SessionType'
    <3> DEFINE row == [j \in SignIns |-> IF j = i THEN [user |-> signin[i].user, live |-> TRUE]
                               ELSE IF sessions[g][j].live THEN sessions[g][j] ELSE NoSession]
    <3>1. \A j \in SignIns : sessions[g][j] \in SessionStates
      BY DEF SessionType
    <3>2. row \in [SignIns -> SessionStates]
      BY <2>2, <3>1, IdleTypes
    <3> HIDE DEF row
    <3> QED BY <2>3, <3>2 DEF SessionType, row
  <2>5. SignInType' /\ UNCHANGED proved
    BY <1>6, IdleTypes DEF issue, SignInType
  <2>6. ActorsNamed'
    <3>1. \A h \in Gateways, j \in SignIns :
              \/ sessions'[h][j] = sessions[h][j] \/ ~ sessions'[h][j].live
              \/ sessions'[h][j].user = signin[i].user
      BY <2>3, IdleTypes DEF SessionType
    <3>2. signin'[i].pc = "idle" /\ \A j \in SignIns \ {i} : signin'[j] = signin[j]
      BY <1>6, IdleTypes DEF issue, SignInType
    <3> QED BY <2>1, <3>1, <3>2 DEF ActorsNamed
  <2> QED BY <2>4, <2>5, <2>6 DEF ProvedType
<1>7. CASE change_password(i)
  BY <1>4, <1>7 DEF change_password, ProvedType
<1>8. ASSUME NEW g \in Gateways, NEW u \in Usernames, authenticate_admin(i, g, u)
      PROVE  SessionType' /\ SignInType' /\ ProvedType' /\ ActorsNamed'
  <2>1. <<i, u>> \in Proofs
    BY DEF Proofs
  <2>2. ProvedType'
    BY <1>8, <2>1 DEF authenticate_admin, ProvedType
  <2>3. SessionType' /\ SignInType' /\ ActorsNamed'
    BY <1>8 DEF authenticate_admin, SessionType, SignInType, SignInStates, ActorsNamed
  <2> QED BY <2>2, <2>3
<1>9. ASSUME NEW g \in Gateways, Expires(i, g)
      PROVE  SessionType' /\ SignInType' /\ ProvedType' /\ ActorsNamed'
  <2>1. ProvedType'
    BY <1>9 DEF Expires, ProvedType
  <2>2. SessionType' /\ ActorsNamed'
    <3>1. PICK row \in [SignIns -> SessionStates] : row = sessions[g]
      BY DEF SessionType
    <3>2. [row[i] EXCEPT !.live = FALSE] \in SessionStates
      BY <3>1 DEF SessionStates
    <3>3. sessions' = [sessions EXCEPT ![g] = [row EXCEPT ![i] = [row[i] EXCEPT !.live = FALSE]]]
      BY <1>9, <3>1 DEF Expires, SessionType
    <3>4. SessionType'
      BY <3>2, <3>3 DEF SessionType
    <3>5. ~ sessions'[g][i].live
      BY <3>1, <3>3 DEF SessionType, SessionStates
    <3>6. \A h \in Gateways, j \in SignIns : h # g \/ j # i => sessions'[h][j] = sessions[h][j]
      BY <3>1, <3>3 DEF SessionType
    <3> QED BY <1>9, <3>4, <3>5, <3>6 DEF Expires, ActorsNamed
  <2> QED BY <1>9, <2>1, <2>2 DEF Expires, SignInType
<1>10. ASSUME NEW g \in Gateways, sessions' = [sessions EXCEPT ![g][i] = NoSession],
              UNCHANGED signin
       PROVE  SessionType' /\ SignInType' /\ ActorsNamed'
  <2>1. SessionType' /\ SignInType'
    BY <1>10, IdleTypes DEF SessionType, SignInType
  <2>2. ActorsNamed'
    BY <1>5, <1>10, IdleTypes DEF SessionType
  <2> QED BY <2>1, <2>2
<1>11. ASSUME NEW g \in Gateways, resolve(i, g) \/ logout(i, g)
       PROVE  SessionType' /\ SignInType' /\ ProvedType' /\ ActorsNamed'
  <2>1. UNCHANGED proved
    BY <1>11 DEF resolve, logout
  <2>2. CASE sessions' = [sessions EXCEPT ![g][i] = NoSession] /\ UNCHANGED signin
    BY <1>10, <2>1, <2>2 DEF ProvedType
  <2>3. CASE /\ sessions[g][i].live
             /\ signin' = [signin EXCEPT ![i] = [pc |-> "acting", at |-> g,
                                                 user |-> sessions[g][i].user]]
             /\ UNCHANGED sessions
    BY <2>1, <2>3 DEF ProvedType, SessionType, SignInType, SignInStates, ActorsNamed
  <2> QED BY <1>11, <2>2, <2>3 DEF resolve, logout
<1> QED BY <1>6, <1>7, <1>8, <1>9, <1>11 DEF SignInStep

\* Every step keeps database, processes, runs and sessions well typed.
LEMMA TypeNext == TypeInv /\ [Next]_vars => TypeInv'
<1> SUFFICES ASSUME TypeInv, [Next]_vars PROVE TypeInv'
  OBVIOUS
<1> USE DEF TypeInv, dbVars, sessionVars
<1>0. ASSUME UNCHANGED sessionVars
      PROVE  SessionType' /\ SignInType' /\ ProvedType' /\ ActorsNamed'
  BY <1>0 DEF SessionType, SignInType, ProvedType, ActorsNamed
<1>1. CASE upgrade_schema
  BY <1>0, <1>1 DEF upgrade_schema, DbType, ServiceType, RunType, RunsNamed, FaultType
<1>2. ASSUME NEW s \in Services, Start(s) \/ StartsUnready(s) PROVE TypeInv'
  <2>1. [Down EXCEPT !.up = TRUE] \in ServiceStates
    BY DEF Down, ServiceStates
  <2>2. ServiceType'
    BY <1>2, <2>1, InspectedType DEF Start, StartsUnready, ServiceType
  <2>3. FaultType'
    BY <1>2 DEF Start, StartsUnready, Fault, FaultType
  <2>4. DbType' /\ RunType' /\ RunsNamed' /\ UNCHANGED sessionVars
    BY <1>2 DEF Start, StartsUnready, DbType, RunType, RunsNamed
  <2> QED BY <1>0, <2>2, <2>3, <2>4
<1>3. ASSUME NEW s \in Services, Crash(s) PROVE TypeInv'
  <2>1. DbType' /\ FaultType' /\ ServiceType'
    BY <1>3 DEF Crash, Fault, DbType, FaultType, ServiceType, ServiceStates, Down
  <2>2. RunType' /\ RunsNamed'
    BY <1>3, CrashRuns DEF RunsNamed
  <2>3. SessionType' /\ SignInType' /\ ActorsNamed'
    <3>1. \A g \in Gateways, i \in SignIns :
              sessions'[g][i] \in {sessions[g][i], NoSession}
      BY <1>3 DEF Crash
    <3>2. \A i \in SignIns : signin'[i] \in {signin[i], IdleSignIn}
      BY <1>3 DEF Crash
    <3>3. SessionType'
      BY <1>3, IdleTypes DEF Crash, SessionType
    <3>4. SignInType'
      BY <1>3, IdleTypes DEF Crash, SignInType
    <3>5. ActorsNamed'
      BY <3>1, <3>2, IdleTypes DEF ActorsNamed
    <3> QED BY <3>3, <3>4, <3>5
  <2>4. ProvedType'
    BY <1>3 DEF Crash, ProvedType
  <2> QED BY <2>1, <2>2, <2>3, <2>4
<1>4. ASSUME NEW b \in Runs, Attempt(b) PROVE TypeInv'
  <2>1. RunType' /\ RunsNamed' /\ UNCHANGED <<dbVars, service, sessionVars, faults>>
    BY <1>4, AttemptRun DEF RunsNamed
  <2> QED BY <1>0, <2>1 DEF DbType, ServiceType, FaultType
<1>5. ASSUME NEW b \in Runs, RunStep(b) PROVE TypeInv'
  <2>1. UNCHANGED sessionVars
    BY <1>5 DEF RunStep, cmd_create_admin, ensure_admin, create_admin, CreateRefused, CommitAdmin,
                refresh_bootstrap
  <2>2. DbType' /\ FaultType'
    BY <1>5 DEF RunStep, cmd_create_admin, ensure_admin, create_admin, CreateRefused, CommitAdmin,
                refresh_bootstrap, Fault, DbType, FaultType
  <2>3. ServiceType'
    BY <1>5, InspectedType
       DEF RunStep, cmd_create_admin, ensure_admin, create_admin, CreateRefused, CommitAdmin,
           refresh_bootstrap, ServiceType
  <2>4. /\ run[b].pc \notin {"idle", "done"}
        /\ \/ \E to \in Phases : Goes(b, to)
           \/ \E out \in Outcomes : Ends(b, out)
    BY <1>5 DEF RunStep, cmd_create_admin, ensure_admin, create_admin, CreateRefused, CommitAdmin,
                refresh_bootstrap, Phases, Outcomes
  <2>5. RunType' /\ RunsNamed'
    BY <2>4, GoesOn, EndsRun DEF RunsNamed
  <2> QED BY <1>0, <2>1, <2>2, <2>3, <2>5
<1>6. ASSUME NEW b \in Runs, Again(b) PROVE TypeInv'
  <2>1. RunType' /\ RunsNamed'
    BY <1>6 DEF Again, IdleRun, RunType, RunsNamed, RunStates, Phases, Outcomes
  <2> QED BY <1>0, <1>6, <2>1 DEF Again, DbType, ServiceType, FaultType
<1>7. ASSUME NEW i \in SignIns, SignInStep(i) PROVE TypeInv'
  BY <1>7, SignInTypes
<1>8. ASSUME NEW u \in Usernames, cmd_set_password(u) PROVE TypeInv'
  BY <1>0, <1>8 DEF cmd_set_password, DbType, ServiceType, RunType, RunsNamed, FaultType
<1>9. CASE UNCHANGED vars
  BY <1>0, <1>9 DEF vars, DbType, ServiceType, RunType, RunsNamed, FaultType
<1> QED BY <1>1, <1>2, <1>3, <1>4, <1>5, <1>6, <1>7, <1>8, <1>9 DEF Next

\* Database, processes, runs and sessions always have their types.
THEOREM TypeCorrect == Spec => []TypeOK
<1>1. TypeInv => TypeOK
  BY TypeParts DEF TypeInv
<1> QED BY TypeInit, TypeNext, <1>1, PTL DEF Spec

-----------------------------------------------------------------------------
(* The first administrator.  What a process remembers is true for ever,    *)
(* because schema and accounts only grow.  A run that is about to commit   *)
(* has its username to itself, so that its commit replaces nobody; a run   *)
(* that has committed keeps the account, up to deliberate changes.  These  *)
(* need that whoever changes a password acts for an existing account.      *)

Exists(u) == account[u] # NoAccount

ServicesRight ==
    \A s \in Services :
        (service[s].ready => schema /\ HasAdmin) /\ (service[s].setup => schema)

RunsHaveSchema == \A b \in Runs : run[b].pc \notin {"idle", "done"} => schema

OkIsDone == \A b \in Runs : run[b].out = "ok" => run[b].pc = "done"

\* An insert that is not committed yet has no rival, committed or not.
CommitsAlone ==
    \A b \in Runs : run[b].pc = "commit" =>
        /\ ~ Exists(run[b].user)
        /\ \A a \in Runs \ {b} : run[a].pc = "commit" => run[a].user # run[b].user

CommittedKept ==
    \A b \in Runs : run[b].pc = "refresh" \/ run[b].out = "ok" =>
        account[run[b].user] \in {b, Changed}

RefreshInGateway == \A b \in Runs : run[b].pc = "refresh" => run[b].at \in Gateways

ActorsExist ==
    /\ \A i \in SignIns : signin[i].pc # "idle" => Exists(signin[i].user)
    /\ \A g \in Gateways, i \in SignIns :
           sessions[g][i].live => Exists(sessions[g][i].user)

AdminInv ==
    /\ ServicesRight /\ RunsHaveSchema /\ OkIsDone /\ CommitsAlone /\ CommittedKept
    /\ RefreshInGateway /\ ActorsExist

\* Nobody has been promised anything yet.
LEMMA AdminInit == Init => AdminInv
<1> SUFFICES ASSUME Init PROVE AdminInv
  OBVIOUS
<1>1. /\ \A b \in Runs : run[b].pc = "idle" /\ run[b].out = "none"
      /\ \A s \in Services : ~ service[s].ready /\ ~ service[s].setup
  BY DEF Init, IdleRun, Down
<1>2. /\ \A i \in SignIns : signin[i].pc = "idle"
      /\ \A g \in Gateways, i \in SignIns : ~ sessions[g][i].live
  BY IdleTypes DEF Init
<1> QED BY <1>1, <1>2 DEF AdminInv, ServicesRight, RunsHaveSchema, OkIsDone, CommitsAlone,
              CommittedKept, RefreshInGateway, ActorsExist

\* Schema and accounts only grow.
LEMMA DbGrows ==
    TypeInv /\ AdminInv /\ [Next]_vars =>
        (schema => schema') /\ \A u \in Usernames : Exists(u) => Exists(u)'
<1> SUFFICES ASSUME TypeInv, AdminInv, [Next]_vars
             PROVE  (schema => schema') /\ \A u \in Usernames : Exists(u) => Exists(u)'
  OBVIOUS
<1> USE DEF Exists
<1>0. account \in [Usernames -> Runs \union {Changed, NoAccount}]
  BY DEF TypeInv, DbType
<1>1. CASE UNCHANGED account
  <2>1. schema => schema'
    BY DEF Next, upgrade_schema, Start, StartsUnready, Crash, Attempt, cmd_init, create_first_admin,
           RunStep, cmd_create_admin, ensure_admin, create_admin, CreateRefused, CommitAdmin,
           refresh_bootstrap, Again, SignInStep, issue, change_password, authenticate_admin,
           Expires, resolve, logout, cmd_set_password, dbVars, vars
  <2> QED BY <1>1, <2>1
<1>2. ASSUME NEW b \in Runs, CommitAdmin(b)
      PROVE  (schema => schema') /\ \A u \in Usernames : Exists(u) => Exists(u)'
  BY <1>0, <1>2 DEF CommitAdmin
<1>3. ASSUME NEW i \in SignIns, change_password(i)
      PROVE  (schema => schema') /\ \A u \in Usernames : Exists(u) => Exists(u)'
  BY <1>0, <1>3 DEF change_password
<1>4. ASSUME NEW u \in Usernames, cmd_set_password(u)
      PROVE  (schema => schema') /\ \A v \in Usernames : Exists(v) => Exists(v)'
  BY <1>0, <1>4 DEF cmd_set_password
<1> QED
  BY <1>1, <1>2, <1>3, <1>4
     DEF Next, upgrade_schema, Start, StartsUnready, Crash, Attempt, cmd_init, create_first_admin,
         RunStep, cmd_create_admin, ensure_admin, create_admin, CreateRefused, refresh_bootstrap,
         Again, SignInStep, issue, authenticate_admin, Expires, resolve, logout, dbVars, vars

\* A process that inspects the database, or forgets, is right about it.
LEMMA ServicesStayRight ==
    ASSUME TypeInv, AdminInv, [Next]_vars,
           \A s \in Services : \/ service'[s] = service[s]
                               \/ service'[s] = Inspected
                               \/ ~ service'[s].ready /\ ~ service'[s].setup
    PROVE  ServicesRight'
<1>1. HasAdmin => HasAdmin'
  BY DbGrows DEF HasAdmin, Exists
<1>2. schema => schema'
  BY DbGrows
<1>3. (Inspected.ready => schema /\ HasAdmin) /\ (Inspected.setup => schema)
  BY DEF Inspected, Ready
<1> QED BY <1>1, <1>2, <1>3 DEF AdminInv, ServicesRight

\* A password that is changed takes no username from anybody.
LEMMA ChangeKeeps ==
    ASSUME TypeInv, AdminInv, UNCHANGED run, NEW u \in Usernames, Exists(u),
           account' = [account EXCEPT ![u] = Changed]
    PROVE  CommitsAlone' /\ CommittedKept'
<1>1. account \in [Usernames -> Runs \union {Changed, NoAccount}]
  BY DEF TypeInv, DbType
<1>2. \A b \in Runs : run[b].pc \in {"commit", "refresh"} \/ run[b].out = "ok"
                          => run[b].user \in Usernames
  BY DEF TypeInv, RunsNamed
<1>3. CommitsAlone'
  BY <1>1, <1>2 DEF AdminInv, CommitsAlone, Exists
<1>4. CommittedKept'
  BY <1>1, <1>2 DEF AdminInv, CommittedKept, Exists
<1> QED BY <1>3, <1>4

\* No step breaks what the first administrator was promised.
LEMMA AdminNext == TypeInv /\ AdminInv /\ [Next]_vars => AdminInv'
<1> SUFFICES ASSUME TypeInv, AdminInv, [Next]_vars PROVE AdminInv'
  OBVIOUS
<1> DEFINE RunPart == RunsHaveSchema /\ OkIsDone /\ CommitsAlone /\ CommittedKept /\ RefreshInGateway
<1> USE DEF dbVars, sessionVars
<1>0. /\ schema => schema'
      /\ \A u \in Usernames : Exists(u) => Exists(u)'
      /\ account \in [Usernames -> Runs \union {Changed, NoAccount}]
  BY DbGrows DEF TypeInv, DbType
<1>a. ASSUME UNCHANGED <<run, account>> PROVE RunPart'
  BY <1>a, <1>0 DEF AdminInv, RunsHaveSchema, OkIsDone, CommitsAlone, CommittedKept,
                    RefreshInGateway, Exists
<1>b. ASSUME UNCHANGED sessionVars PROVE ActorsExist'
  BY <1>b, <1>0 DEF AdminInv, ActorsExist, TypeInv, ActorsNamed
<1>c. ASSUME UNCHANGED service PROVE ServicesRight'
  BY <1>c, ServicesStayRight
<1>1. CASE upgrade_schema
  BY <1>1, <1>a, <1>b, <1>c DEF upgrade_schema, AdminInv
<1>2. ASSUME NEW s \in Services, Start(s) \/ StartsUnready(s) PROVE AdminInv'
  <2>1. ~ [Down EXCEPT !.up = TRUE].ready /\ ~ [Down EXCEPT !.up = TRUE].setup
    BY DEF Down
  <2>2. ServicesRight'
    BY <1>2, <2>1, ServicesStayRight DEF Start, StartsUnready, TypeInv, ServiceType
  <2> QED BY <1>2, <1>a, <1>b, <2>2 DEF Start, StartsUnready, AdminInv
<1>3. ASSUME NEW s \in Services, Crash(s) PROVE AdminInv'
  <2>1. ~ Down.ready /\ ~ Down.setup
    BY DEF Down
  <2>2. ServicesRight'
    BY <1>3, <2>1, ServicesStayRight DEF Crash, TypeInv, ServiceType
  <2>3. RunPart'
    <3>1. /\ \A b \in Runs : run'[b] = run[b] \/ (run'[b].pc = "done" /\ run'[b].out = "lost")
          /\ UNCHANGED dbVars
      BY <1>3, CrashRuns DEF Crash, TypeInv
    <3> QED BY <3>1 DEF AdminInv, RunsHaveSchema, OkIsDone, CommitsAlone, CommittedKept,
                        RefreshInGateway, Exists
  <2>4. /\ \A g \in Gateways, i \in SignIns : sessions'[g][i] \in {sessions[g][i], NoSession}
        /\ \A i \in SignIns : signin'[i] \in {signin[i], IdleSignIn}
    BY <1>3 DEF Crash
  <2>5. ActorsExist'
    BY <1>3, <2>4, IdleTypes DEF Crash, AdminInv, ActorsExist, Exists
  <2> QED BY <2>2, <2>3, <2>5 DEF AdminInv
<1>4. ASSUME NEW b \in Runs, Attempt(b) PROVE AdminInv'
  <2>1. /\ RunType' /\ UNCHANGED <<dbVars, service, sessionVars, faults>>
        /\ run[b].pc = "idle"
        /\ run'[b].pc \in {"check", "ensure", "done"}
        /\ run'[b].pc # "done" => schema
        /\ run'[b].out \in {run[b].out, "exists"}
        /\ \A a \in Runs \ {b} : run'[a] = run[a]
    BY <1>4, AttemptRun DEF TypeInv, AdminInv, ServicesRight
  <2>2. RunPart'
    BY <2>1 DEF AdminInv, RunsHaveSchema, OkIsDone, CommitsAlone, CommittedKept,
                RefreshInGateway, Exists
  <2> QED BY <1>b, <1>c, <2>1, <2>2 DEF AdminInv
<1>5. ASSUME NEW b \in Runs, RunStep(b) PROVE AdminInv'
  <2>0. UNCHANGED sessionVars /\ RunType /\ run[b].pc \notin {"idle", "done"}
    BY <1>5 DEF RunStep, cmd_create_admin, ensure_admin, create_admin, CreateRefused, CommitAdmin,
                refresh_bootstrap, TypeInv
  <2>1. ASSUME UNCHANGED account, NEW to \in {"ensure", "create"}, Goes(b, to) PROVE RunPart'
    <3>1. /\ run'[b].pc = to /\ run'[b].user = run[b].user /\ run'[b].out = run[b].out
          /\ \A a \in Runs \ {b} : run'[a] = run[a]
      BY <2>0, <2>1, GoesOn DEF Phases
    <3> QED BY <1>0, <2>0, <2>1, <3>1
            DEF AdminInv, RunsHaveSchema, OkIsDone, CommitsAlone, CommittedKept,
                RefreshInGateway, Exists
  <2>2. ASSUME UNCHANGED account, NEW out \in {"exists", "error"}, Ends(b, out) PROVE RunPart'
    <3>1. /\ run'[b].pc = "done" /\ run'[b].user = run[b].user /\ run'[b].out = out
          /\ \A a \in Runs \ {b} : run'[a] = run[a]
      BY <2>0, <2>2, EndsRun DEF Outcomes
    <3> QED BY <1>0, <2>2, <3>1
            DEF AdminInv, RunsHaveSchema, OkIsDone, CommitsAlone, CommittedKept,
                RefreshInGateway, Exists
  <2>3. CASE cmd_create_admin(b) \/ ensure_admin(b) \/ CreateRefused(b)
    BY <1>b, <1>c, <2>0, <2>1, <2>2, <2>3
       DEF cmd_create_admin, ensure_admin, CreateRefused, AdminInv
  <2>4. CASE create_admin(b)
    <3>1. CASE Goes(b, "commit") /\ account[run[b].user] = NoAccount
      <4>1. /\ run'[b].pc = "commit" /\ run'[b].user = run[b].user /\ run'[b].out = run[b].out
            /\ \A a \in Runs \ {b} : run'[a] = run[a]
        BY <2>0, <3>1, GoesOn DEF Phases
      <4>2. UNCHANGED <<dbVars, service>> /\ ~ Blocked(b)
        BY <2>4 DEF create_admin
      <4>3. CommitsAlone'
        BY <3>1, <4>1, <4>2 DEF AdminInv, CommitsAlone, Blocked, Exists
      <4>4. RunsHaveSchema' /\ OkIsDone' /\ CommittedKept' /\ RefreshInGateway'
        BY <2>0, <4>1, <4>2 DEF AdminInv, RunsHaveSchema, OkIsDone, CommittedKept, RefreshInGateway
      <4> QED BY <1>b, <1>c, <2>0, <4>2, <4>3, <4>4 DEF AdminInv
    <3> QED BY <1>b, <1>c, <2>0, <2>2, <2>4, <3>1 DEF create_admin, AdminInv
  <2>5. CASE CommitAdmin(b)
    <3>1. PICK u \in Usernames : u = run[b].user
      BY <2>0 DEF TypeInv, RunsNamed
    <3>2. account' = [account EXCEPT ![u] = b] /\ account[u] = NoAccount /\ run[b].pc = "commit"
          /\ UNCHANGED <<schema, service>>
      BY <2>5, <3>1 DEF CommitAdmin, AdminInv, CommitsAlone, Exists
    <3>3. /\ run'[b].user = u
          /\ \/ run'[b].pc = "done" /\ run'[b].out = "ok"
             \/ run'[b].pc = "refresh" /\ run'[b].at \in Gateways /\ run'[b].out = run[b].out
          /\ \A a \in Runs \ {b} : run'[a] = run[a]
      <4>1. CASE Ends(b, "ok")
        BY <2>0, <3>1, <4>1, EndsRun DEF Outcomes
      <4>2. CASE Goes(b, "refresh") /\ run[b].at # Cli
        <5>1. run[b].at \in Gateways
          BY <2>0, <4>2 DEF RunType, RunStates
        <5> QED BY <2>0, <3>1, <4>2, <5>1, GoesOn DEF Phases
      <4> QED BY <2>5, <4>1, <4>2 DEF CommitAdmin
    <3>4. RunsHaveSchema' /\ OkIsDone' /\ RefreshInGateway'
      BY <2>0, <3>2, <3>3 DEF AdminInv, RunsHaveSchema, OkIsDone, RefreshInGateway
    <3>5. \A a \in Runs : run[a].pc \in {"commit", "refresh"} \/ run[a].out = "ok"
                              => run[a].user \in Usernames
      BY DEF TypeInv, RunsNamed
    <3>6. CommitsAlone'
      BY <1>0, <3>1, <3>2, <3>3, <3>5 DEF AdminInv, CommitsAlone, Exists
    <3>7. CommittedKept'
      BY <1>0, <3>1, <3>2, <3>3, <3>5 DEF AdminInv, CommittedKept
    <3> QED BY <1>b, <1>c, <2>0, <3>2, <3>4, <3>6, <3>7 DEF AdminInv
  <2>6. CASE refresh_bootstrap(b)
    <3>1. /\ run'[b].pc = "done" /\ run'[b].user = run[b].user /\ run'[b].out = "ok"
          /\ \A a \in Runs \ {b} : run'[a] = run[a]
      BY <2>0, <2>6, EndsRun DEF refresh_bootstrap, Outcomes
    <3>2. RunPart'
      BY <2>6, <3>1 DEF refresh_bootstrap, AdminInv, RunsHaveSchema, OkIsDone, CommitsAlone,
                        CommittedKept, RefreshInGateway, Exists
    <3>3. ServicesRight'
      BY <2>6, ServicesStayRight DEF refresh_bootstrap, TypeInv, ServiceType
    <3> QED BY <1>b, <2>0, <3>2, <3>3 DEF AdminInv
  <2> QED BY <1>5, <2>3, <2>4, <2>5, <2>6 DEF RunStep
<1>6. ASSUME NEW b \in Runs, Again(b) PROVE AdminInv'
  <2>1. /\ run'[b].pc = "idle" /\ run'[b].out = "none"
        /\ \A a \in Runs \ {b} : run'[a] = run[a]
        /\ UNCHANGED <<dbVars, service, sessionVars>>
    BY <1>6 DEF Again, IdleRun, TypeInv, RunType
  <2>2. RunPart'
    BY <2>1 DEF AdminInv, RunsHaveSchema, OkIsDone, CommitsAlone, CommittedKept,
                RefreshInGateway, Exists
  <2> QED BY <1>b, <1>c, <2>1, <2>2 DEF AdminInv
<1>7. ASSUME NEW i \in SignIns, SignInStep(i) PROVE AdminInv'
  <2>1. UNCHANGED <<schema, service, run>>
    BY <1>7, SignInLeaves
  <2>2. RunPart'
    <3>1. CASE UNCHANGED account
      BY <1>a, <2>1, <3>1
    <3>2. CASE signin[i].pc = "acting" /\ account' = [account EXCEPT ![signin[i].user] = Changed]
      <4>1. signin[i].user \in Usernames /\ Exists(signin[i].user)
        BY <3>2 DEF TypeInv, ActorsNamed, AdminInv, ActorsExist
      <4>2. CommitsAlone' /\ CommittedKept'
        BY <2>1, <3>2, <4>1, ChangeKeeps
      <4> QED BY <2>1, <4>2 DEF AdminInv, RunsHaveSchema, OkIsDone, RefreshInGateway
    <3> QED
      BY <1>7, <3>1, <3>2
         DEF SignInStep, issue, change_password, authenticate_admin, Expires, resolve, logout
  <2>3. ActorsExist'
    <3>0. /\ \A j \in SignIns : signin[j].pc # "idle" =>
                 signin[j].user \in Usernames /\ Exists(signin[j].user)
          /\ \A g \in Gateways, j \in SignIns : sessions[g][j].live =>
                 sessions[g][j].user \in Usernames /\ Exists(sessions[g][j].user)
      BY DEF TypeInv, ActorsNamed, AdminInv, ActorsExist
    <3>1. ASSUME \A j \in SignIns :
                     \/ signin'[j] = signin[j] \/ signin'[j].pc = "idle"
                     \/ signin'[j].user \in Usernames /\ Exists(signin'[j].user),
                 \A g \in Gateways, j \in SignIns :
                     \/ sessions'[g][j] = sessions[g][j] \/ ~ sessions'[g][j].live
                     \/ sessions'[g][j].user \in Usernames /\ Exists(sessions'[g][j].user)
          PROVE  ActorsExist'
      BY <1>0, <3>0, <3>1 DEF ActorsExist
    <3>2. signin \in [SignIns -> SignInStates] /\ sessions \in [Gateways -> [SignIns -> SessionStates]]
      BY DEF TypeInv, SignInType, SessionType
    <3>3. CASE issue(i)
      <4>1. \A j \in SignIns : signin'[j] = signin[j] \/ signin'[j].pc = "idle"
        BY <3>2, <3>3, IdleTypes DEF issue
      <4>2. \A g \in Gateways, j \in SignIns :
                \/ sessions'[g][j] = sessions[g][j] \/ ~ sessions'[g][j].live
                \/ sessions'[g][j].user = signin[i].user
        BY <3>2, <3>3, IdleTypes DEF issue
      <4>3. signin[i].user \in Usernames /\ Exists(signin[i].user)
        BY <3>0, <3>3 DEF issue
      <4> QED BY <3>1, <4>1, <4>2, <4>3
    <3>4. CASE change_password(i)
      BY <3>1, <3>2, <3>4, IdleTypes DEF change_password
    <3>5. ASSUME NEW g \in Gateways, NEW u \in Usernames, authenticate_admin(i, g, u)
          PROVE  ActorsExist'
      BY <3>1, <3>2, <3>5 DEF authenticate_admin, Exists
    <3>6. ASSUME NEW g \in Gateways, Expires(i, g) PROVE ActorsExist'
      <4>1. ~ sessions'[g][i].live
        BY <3>2, <3>6 DEF Expires, SessionStates
      <4>2. \A h \in Gateways, j \in SignIns : h # g \/ j # i => sessions'[h][j] = sessions[h][j]
        BY <3>2, <3>6 DEF Expires
      <4> QED BY <3>1, <3>6, <4>1, <4>2 DEF Expires
    <3>7. ASSUME NEW g \in Gateways, resolve(i, g) \/ logout(i, g) PROVE ActorsExist'
      <4>1. CASE sessions' = [sessions EXCEPT ![g][i] = NoSession] /\ UNCHANGED signin
        BY <3>1, <3>2, <4>1, IdleTypes
      <4>2. CASE /\ sessions[g][i].live
                 /\ signin' = [signin EXCEPT ![i] = [pc |-> "acting", at |-> g,
                                                     user |-> sessions[g][i].user]]
                 /\ UNCHANGED sessions
        BY <3>0, <3>1, <3>2, <4>2
      <4> QED BY <3>7, <4>1, <4>2 DEF resolve, logout
    <3> QED BY <1>7, <3>3, <3>4, <3>5, <3>6, <3>7 DEF SignInStep
  <2> QED BY <1>c, <2>1, <2>2, <2>3 DEF AdminInv
<1>8. ASSUME NEW u \in Usernames, cmd_set_password(u) PROVE AdminInv'
  <2>1. CommitsAlone' /\ CommittedKept'
    BY <1>8, ChangeKeeps DEF cmd_set_password, Exists
  <2>2. RunsHaveSchema' /\ OkIsDone' /\ RefreshInGateway'
    BY <1>8 DEF cmd_set_password, AdminInv, RunsHaveSchema, OkIsDone, RefreshInGateway
  <2> QED BY <1>8, <1>b, <1>c, <2>1, <2>2 DEF cmd_set_password, AdminInv
<1>9. CASE UNCHANGED vars
  BY <1>9, <1>a, <1>b, <1>c DEF vars, AdminInv
<1> QED BY <1>1, <1>2, <1>3, <1>4, <1>5, <1>6, <1>7, <1>8, <1>9 DEF Next

\* A gateway or indexer that serves has a schema and an administrator behind
\* it (BootstrapState.ready), although it inspected the database only once.
THEOREM ServingIsReady == Spec => []ReadyIsTrue
<1>1. AdminInv => ReadyIsTrue
  BY DEF AdminInv, ServicesRight, ReadyIsTrue
<1> QED BY TypeInit, TypeNext, AdminInit, AdminNext, <1>1, PTL DEF Spec

\* Whoever ensure_admin told that the administrator was created keeps the
\* account: no run, page or command line replaces it.
THEOREM CreatedIsKept == Spec => []CreatedCanSignIn
<1>1. AdminInv => CreatedCanSignIn
  BY DEF AdminInv, CommittedKept, CreatedCanSignIn
<1> QED BY TypeInit, TypeNext, AdminInit, AdminNext, <1>1, PTL DEF Spec

\* A run only comes to succeed by the commit of a command line, or by the
\* refresh of a gateway that is ready by then.
LEMMA OkStep ==
    ASSUME TypeInv, AdminInv, [Next]_vars, NEW b \in Runs,
           run[b].out # "ok", run'[b].out = "ok", run[b].at # Cli
    PROVE  service'[run[b].at].ready /\ ~ service'[run[b].at].setup
<1>0. RunType
  BY DEF TypeInv
<1>1. CASE refresh_bootstrap(b)
  <2>1. run[b].at \in Services /\ run[b].user \in Usernames
    BY <1>1 DEF refresh_bootstrap, AdminInv, RefreshInGateway, TypeInv, RunsNamed
  <2>2. schema /\ HasAdmin
    BY <1>1, <2>1 DEF refresh_bootstrap, AdminInv, RunsHaveSchema, CommittedKept, HasAdmin
  <2>3. service'[run[b].at] = Inspected
    BY <1>1, <2>1 DEF refresh_bootstrap, TypeInv, ServiceType
  <2>4. Inspected.ready /\ ~ Inspected.setup
    BY <2>2 DEF Inspected, Ready
  <2> QED BY <2>3, <2>4
<1>2. CASE CommitAdmin(b)
  BY <1>0, <1>2, GoesOn DEF CommitAdmin, Phases
<1>3. ASSUME UNCHANGED run PROVE FALSE
  BY <1>3
<1>4. ASSUME NEW a \in Runs, RunStep(a), a # b PROVE FALSE
  <2>1. \/ \E to \in Phases : Goes(a, to)
        \/ \E out \in Outcomes : Ends(a, out)
    BY <1>4 DEF RunStep, cmd_create_admin, ensure_admin, create_admin, CreateRefused, CommitAdmin,
                refresh_bootstrap, Phases, Outcomes
  <2> QED BY <1>0, <1>4, <2>1, GoesOn, EndsRun
<1>5. CASE cmd_create_admin(b) \/ ensure_admin(b) \/ create_admin(b) \/ CreateRefused(b)
  <2>1. \/ \E to \in Phases : Goes(b, to)
        \/ \E out \in Outcomes \ {"ok"} : Ends(b, out)
    BY <1>5 DEF cmd_create_admin, ensure_admin, create_admin, CreateRefused, Phases, Outcomes
  <2> QED BY <1>0, <2>1, GoesOn, EndsRun
<1>6. ASSUME NEW a \in Runs, Attempt(a) PROVE FALSE
  BY <1>0, <1>6, AttemptRun
<1>7. ASSUME NEW a \in Runs, Again(a) PROVE FALSE
  BY <1>0, <1>7 DEF Again, IdleRun, RunType
<1>8. ASSUME NEW s \in Services, Crash(s) PROVE FALSE
  BY <1>0, <1>8, CrashRuns
<1>9. ASSUME NEW i \in SignIns, SignInStep(i) PROVE FALSE
  BY <1>3, <1>9, SignInLeaves
<1>10. ASSUME NEW a \in Runs, RunStep(a)
       PROVE  service'[run[b].at].ready /\ ~ service'[run[b].at].setup
  BY <1>1, <1>2, <1>4, <1>5, <1>10 DEF RunStep
<1> QED
  BY <1>3, <1>6, <1>7, <1>8, <1>9, <1>10
     DEF Next, upgrade_schema, Start, StartsUnready, cmd_set_password, vars

\* When the setup page reports success, the gateway that reports it serves:
\* refresh_bootstrap finds what the run itself has committed.
THEOREM OkIsUsable == Spec => OkMeansUsable
<1>1. TypeInv /\ AdminInv /\ [Next]_vars =>
          [\A b \in Runs :
              run[b].out # "ok" /\ run'[b].out = "ok" /\ run[b].at # Cli
                  => service'[run[b].at].ready /\ ~ service'[run[b].at].setup]_vars
  BY OkStep
<1> QED BY TypeInit, TypeNext, AdminInit, AdminNext, <1>1, PTL DEF Spec, OkMeansUsable

-----------------------------------------------------------------------------
(* Administrative sessions.  A session that is still valid, and a password *)
(* that was just accepted, are both proved to the process that holds them. *)

ProvedInv ==
    /\ \A g \in Gateways, i \in SignIns :
           sessions[g][i].live => <<i, sessions[g][i].user>> \in proved[g]
    /\ \A i \in SignIns :
           signin[i].pc = "issue" => <<i, signin[i].user>> \in proved[signin[i].at]

\* No session is left from before.
LEMMA ProvedInit == Init => ProvedInv
<1>1. Init => /\ \A i \in SignIns : signin[i].pc = "idle"
              /\ \A g \in Gateways, i \in SignIns : ~ sessions[g][i].live
  BY IdleTypes DEF Init
<1> QED BY <1>1 DEF ProvedInv

\* A session ends no later than what was proved for it.
LEMMA ProvedNext == TypeInv /\ ProvedInv /\ [Next]_vars => ProvedInv'
<1> SUFFICES ASSUME TypeInv, ProvedInv, [Next]_vars PROVE ProvedInv'
  OBVIOUS
<1> USE DEF sessionVars
<1>0. /\ signin \in [SignIns -> SignInStates]
      /\ sessions \in [Gateways -> [SignIns -> SessionStates]]
      /\ proved \in [Gateways -> SUBSET Proofs]
      /\ \A i \in SignIns : signin[i].pc # "idle" => signin[i].at \in Gateways
  BY DEF TypeInv, SignInType, SessionType, ProvedType, ActorsNamed
<1>1. CASE UNCHANGED sessionVars
  BY <1>1 DEF ProvedInv
<1>2. ASSUME NEW s \in Services, Crash(s) PROVE ProvedInv'
  <2>1. \A g \in Gateways : g # s => sessions'[g] = sessions[g] /\ proved'[g] = proved[g]
    BY <1>2 DEF Crash
  <2>2. \A g \in Gateways, i \in SignIns : g = s => ~ sessions'[g][i].live
    BY <1>2, IdleTypes DEF Crash
  <2>3. \A i \in SignIns : \/ signin'[i].pc = "idle"
                           \/ signin'[i] = signin[i] /\ signin[i].at # s
    BY <1>2, IdleTypes DEF Crash
  <2>4. \A g \in Gateways, i \in SignIns :
            sessions'[g][i].live => <<i, sessions'[g][i].user>> \in proved'[g]
    BY <2>1, <2>2 DEF ProvedInv
  <2>5. \A i \in SignIns :
            signin'[i].pc = "issue" => <<i, signin'[i].user>> \in proved'[signin'[i].at]
    BY <1>0, <2>1, <2>3 DEF ProvedInv
  <2> QED BY <2>4, <2>5 DEF ProvedInv
<1>3. ASSUME NEW i \in SignIns, issue(i) PROVE ProvedInv'
  <2>1. PICK g \in Gateways : g = signin[i].at /\ <<i, signin[i].user>> \in proved[g]
    BY <1>0, <1>3 DEF issue, ProvedInv
  <2>2. \A h \in Gateways, j \in SignIns :
            \/ sessions'[h][j] = sessions[h][j] \/ ~ sessions'[h][j].live
            \/ h = g /\ j = i /\ sessions'[h][j].user = signin[i].user
    BY <1>0, <1>3, <2>1, IdleTypes DEF issue
  <2>3. \A j \in SignIns : signin'[j] = signin[j] \/ signin'[j].pc = "idle"
    BY <1>0, <1>3, IdleTypes DEF issue
  <2>4. UNCHANGED proved
    BY <1>3 DEF issue
  <2> QED BY <2>1, <2>2, <2>3, <2>4 DEF ProvedInv
<1>4. ASSUME NEW i \in SignIns, change_password(i) PROVE ProvedInv'
  <2>1. \A j \in SignIns : signin'[j] = signin[j] \/ signin'[j].pc = "idle"
    BY <1>0, <1>4, IdleTypes DEF change_password
  <2> QED BY <1>4, <2>1 DEF change_password, ProvedInv
<1>5. ASSUME NEW i \in SignIns, NEW g \in Gateways, NEW u \in Usernames,
             authenticate_admin(i, g, u)
      PROVE  ProvedInv'
  <2>1. /\ \A h \in Gateways : proved[h] \subseteq proved'[h]
        /\ <<i, u>> \in proved'[g]
    BY <1>0, <1>5 DEF authenticate_admin
  <2>2. /\ signin'[i].user = u /\ signin'[i].at = g
        /\ \A j \in SignIns \ {i} : signin'[j] = signin[j]
        /\ UNCHANGED sessions
    BY <1>0, <1>5 DEF authenticate_admin
  <2> QED BY <1>0, <2>1, <2>2 DEF ProvedInv
<1>6. ASSUME NEW i \in SignIns, NEW g \in Gateways, Expires(i, g) PROVE ProvedInv'
  <2>1. ~ sessions'[g][i].live
    BY <1>0, <1>6 DEF Expires, SessionStates
  <2>2. \A h \in Gateways, j \in SignIns : h # g \/ j # i => sessions'[h][j] = sessions[h][j]
    BY <1>0, <1>6 DEF Expires
  <2>3. /\ \A h \in Gateways \ {g} : proved'[h] = proved[h]
        /\ \A u : \A j \in SignIns \ {i} : <<j, u>> \in proved[g] => <<j, u>> \in proved'[g]
        /\ \A u : <<i, u>> \in proved[g] /\ signin[i] = [pc |-> "issue", at |-> g, user |-> u]
                      => <<i, u>> \in proved'[g]
    BY <1>0, <1>6 DEF Expires
  <2>4. signin[i].pc = "issue" /\ signin[i].at = g
            => signin[i] = [pc |-> "issue", at |-> g, user |-> signin[i].user]
    BY <1>0 DEF SignInStates
  <2>5. UNCHANGED signin
    BY <1>6 DEF Expires
  <2>6. \A h \in Gateways, j \in SignIns :
            sessions'[h][j].live => <<j, sessions'[h][j].user>> \in proved'[h]
    BY <2>1, <2>2, <2>3 DEF ProvedInv
  <2>7. \A j \in SignIns :
            signin[j].pc = "issue" => <<j, signin[j].user>> \in proved'[signin[j].at]
    BY <1>0, <2>3, <2>4 DEF ProvedInv
  <2> QED BY <2>5, <2>6, <2>7 DEF ProvedInv
<1>7. ASSUME NEW i \in SignIns, NEW g \in Gateways, resolve(i, g) \/ logout(i, g)
      PROVE  ProvedInv'
  <2>1. \A j \in SignIns : signin'[j] = signin[j] \/ signin'[j].pc = "acting"
    BY <1>0, <1>7 DEF resolve, logout
  <2>2. \A h \in Gateways, j \in SignIns :
            sessions'[h][j] = sessions[h][j] \/ ~ sessions'[h][j].live
    BY <1>0, <1>7, IdleTypes DEF resolve, logout
  <2> QED BY <1>7, <2>1, <2>2 DEF resolve, logout, ProvedInv
<1>8. ASSUME NEW i \in SignIns, SignInStep(i) PROVE ProvedInv'
  BY <1>3, <1>4, <1>5, <1>6, <1>7, <1>8 DEF SignInStep
<1> QED
  BY <1>1, <1>2, <1>8
     DEF Next, upgrade_schema, Start, StartsUnready, Attempt, cmd_init, create_first_admin, RunStep,
         cmd_create_admin, ensure_admin, create_admin, CreateRefused, CommitAdmin,
         refresh_bootstrap, Again, cmd_set_password, vars

\* An admin request acts only for an account whose password current_admin's
\* own process was given by that browser within a session's lifetime.
THEOREM ActorsAreProved == Spec => ActorsProved
<1> DEFINE A == \A i \in SignIns :
                    signin[i].pc # "acting" /\ signin'[i].pc = "acting"
                        => <<i, signin'[i].user>> \in proved[signin'[i].at]
<1>1. ASSUME TypeInv, ProvedInv, [Next]_vars, NEW i \in SignIns,
             signin[i].pc # "acting", signin'[i].pc = "acting"
      PROVE  <<i, signin'[i].user>> \in proved[signin'[i].at]
  <2>0. signin \in [SignIns -> SignInStates] /\ IdleSignIn.pc = "idle"
    BY <1>1, IdleTypes DEF TypeInv, SignInType
  <2>1. PICK j \in SignIns : SignInStep(j)
    <3>1. signin' # signin
      BY <1>1
    <3>2. ASSUME NEW s \in Services, Crash(s) PROVE FALSE
      BY <1>1, <2>0, <3>2 DEF Crash
    <3> QED
      BY <1>1, <3>1, <3>2
         DEF Next, upgrade_schema, Start, StartsUnready, Attempt, cmd_init, create_first_admin,
             RunStep, cmd_create_admin, ensure_admin, create_admin, CreateRefused, CommitAdmin,
             refresh_bootstrap, Again, cmd_set_password, sessionVars, vars
  <2>2. PICK g \in Gateways : resolve(j, g) /\ signin' # signin
    BY <1>1, <2>0, <2>1
       DEF SignInStep, issue, change_password, authenticate_admin, Expires, logout
  <2>3. /\ sessions[g][j].live
        /\ signin' = [signin EXCEPT ![j] = [pc |-> "acting", at |-> g,
                                            user |-> sessions[g][j].user]]
    BY <2>2 DEF resolve
  <2>4. i = j /\ signin'[i].at = g /\ signin'[i].user = sessions[g][i].user
    BY <1>1, <2>0, <2>3
  <2> QED BY <1>1, <2>3, <2>4 DEF ProvedInv
<1>2. TypeInv /\ ProvedInv /\ [Next]_vars => [A]_vars
  BY <1>1
<1> QED BY TypeInit, TypeNext, ProvedInit, ProvedNext, <1>2, PTL DEF Spec, ActorsProved
=============================================================================
