------------------------------ MODULE FirstRun ------------------------------
(***************************************************************************)
(* From an empty database to a platform that serves: the schema, the first *)
(* administrator (common/repo_mcp_common/bootstrap.py, called by the CLI   *)
(* and by the setup page of gateway/app/firstrun.py), the readiness each   *)
(* process remembers (gateway/app/main.py, indexer/app/main.py) and the    *)
(* administrative sessions a gateway keeps (gateway/app/admin_api.py).     *)
(*                                                                         *)
(* A run is one attempt to create the first administrator, with a password *)
(* of its own: a POST to the setup page of a gateway, or a command line.   *)
(* A sign-in is one administrator at one browser.  Every action is one     *)
(* statement or commit of the database (READ COMMITTED) with the code up   *)
(* to the next await.  No code deactivates or deletes an account.          *)
(***************************************************************************)
EXTENDS Naturals

CONSTANTS
    Gateways,     \* gateway replicas
    Indexers,     \* indexer processes
    Cli,          \* where a command line runs
    Runs,         \* attempts to create the first administrator
    Usernames,
    SignIns,      \* administrators at their browsers
    NoAccount,    \* no row in admin_users
    Changed,      \* a password set by set-password or by the admin API
    NoToken,      \* a browser without a session
    MaxFaults     \* bound: crashes, failed starts and refused passwords

Services == Gateways \union Indexers

ASSUME FirstRunAssumption ==
    /\ Cli \notin Services
    /\ Gateways \intersect Indexers = {}
    /\ NoAccount \notin Runs /\ Changed \notin Runs /\ NoAccount # Changed
    /\ NoToken \notin Usernames
    /\ MaxFaults \in Nat

VARIABLES
    schema,    \* the tables exist
    account,   \* admin_users: whose password a username has
    service,   \* per process: state["ready"], state["needs_setup"], up or not
    run,       \* per run: where it is
    sessions,  \* per gateway: SessionStore._sessions, by browser
    signin,    \* per browser: the admin request it has under way
    proved,    \* per gateway: the browsers and usernames that gave the password
               \* to this process less than SESSION_TTL_SECONDS ago
    faults

dbVars      == <<schema, account>>
sessionVars == <<sessions, signin, proved>>
vars == <<schema, account, service, run, sessions, signin, proved, faults>>

IdleRun    == [pc |-> "idle", at |-> Cli, user |-> NoAccount, out |-> "none"]
IdleSignIn == [pc |-> "idle", at |-> Cli, user |-> NoAccount]
Down       == [up |-> FALSE, ready |-> FALSE, setup |-> FALSE]
NoSession  == [user |-> NoToken, live |-> FALSE]

\* Database, processes, runs and sessions have their types.
TypeOK ==
    /\ schema \in BOOLEAN
    /\ account \in [Usernames -> Runs \union {Changed, NoAccount}]
    /\ service \in [Services -> [up : BOOLEAN, ready : BOOLEAN, setup : BOOLEAN]]
    /\ run \in [Runs -> [pc : {"idle", "check", "ensure", "create", "commit", "refresh", "done"},
                         at : Gateways \union {Cli},
                         user : Usernames \union {NoAccount},
                         out : {"none", "ok", "exists", "error", "lost"}]]
    /\ sessions \in [Gateways -> [SignIns -> [user : Usernames \union {NoToken},
                                              live : BOOLEAN]]]
    /\ signin \in [SignIns -> [pc : {"idle", "issue", "acting"},
                               at : Gateways \union {Cli},
                               user : Usernames \union {NoAccount}]]
    /\ proved \in [Gateways -> SUBSET (SignIns \X Usernames)]
    /\ faults \in 0..MaxFaults

Init ==
    /\ schema = FALSE
    /\ account = [u \in Usernames |-> NoAccount]
    /\ service = [s \in Services |-> Down]
    /\ run = [b \in Runs |-> IdleRun]
    /\ sessions = [g \in Gateways |-> [i \in SignIns |-> NoSession]]
    /\ signin = [i \in SignIns |-> IdleSignIn]
    /\ proved = [g \in Gateways |-> {}]
    /\ faults = 0

Fault == faults < MaxFaults /\ faults' = faults + 1

-----------------------------------------------------------------------------
(* Bootstrap state.                                                        *)

\* admin_count > 0
HasAdmin == \E u \in Usernames : account[u] # NoAccount

\* Defect: a schema is enough.
ReadyWithSchema == schema

\* BootstrapState.ready
Ready == schema /\ HasAdmin

\* inspect_state and what a process keeps of it.  Schema and accounts only
\* grow, so its two reads see what one read at the second would see.
Inspected == [up |-> TRUE, ready |-> Ready, setup |-> schema /\ ~ HasAdmin]

\* The lifespan of either service: the database answers and is inspected,
\* once.
Start(s) ==
    /\ ~ service[s].up
    /\ service' = [service EXCEPT ![s] = Inspected]
    /\ UNCHANGED <<dbVars, run, sessionVars, faults>>

\* No key, or no database within connect_retry_seconds: it answers probes only.
StartsUnready(s) ==
    /\ ~ service[s].up
    /\ Fault
    /\ service' = [service EXCEPT ![s] = [Down EXCEPT !.up = TRUE]]
    /\ UNCHANGED <<dbVars, run, sessionVars>>

\* Defect: the phase is overwritten together with the outcome.
InterruptedLost(b, s) ==
    IF run[b].at = s /\ run[b].pc \notin {"idle", "done"}
    THEN [run[b] EXCEPT !.pc = "lost", !.out = "lost"] ELSE run[b]

\* What the end of process s does to a run: a transaction that has not
\* committed is rolled back, nobody is answered.
Interrupted(b, s) ==
    IF run[b].at = s /\ run[b].pc \notin {"idle", "done"}
    THEN [run[b] EXCEPT !.pc = "done", !.out = "lost"] ELSE run[b]

\* A process stops or crashes; its flags and its sessions were in memory.
Crash(s) ==
    /\ service[s].up
    /\ Fault
    /\ service' = [service EXCEPT ![s] = Down]
    /\ run' = [b \in Runs |-> Interrupted(b, s)]
    /\ sessions' = [g \in Gateways |-> IF g = s THEN [i \in SignIns |-> NoSession]
                                       ELSE sessions[g]]
    /\ signin' = [i \in SignIns |-> IF signin[i].at = s THEN IdleSignIn ELSE signin[i]]
    /\ proved' = [g \in Gateways |-> IF g = s THEN {} ELSE proved[g]]
    /\ UNCHANGED dbVars

-----------------------------------------------------------------------------
(* The first administrator.                                                *)

\* Where run b goes next, or how it ends.
Goes(b, to)  == run' = [run EXCEPT ![b].pc = to]
Ends(b, out) == run' = [run EXCEPT ![b].pc = "done", ![b].out = out]

\* upgrade_schema, by init-db or by init and create-admin when
\* MIGRATE_ON_START allows it.
upgrade_schema ==
    /\ ~ schema
    /\ schema' = TRUE
    /\ UNCHANGED <<account, service, run, sessionVars, faults>>

\* repo-mcp-admin init or create-admin, up to its has_admin check; without a
\* schema both give up.
cmd_init(b, u) ==
    /\ run[b].pc = "idle"
    /\ schema
    /\ run' = [run EXCEPT ![b] = [@ EXCEPT !.pc = "check", !.user = u]]
    /\ UNCHANGED <<dbVars, service, sessionVars, faults>>

\* An administrator exists: nothing to do.  --force skips the check.
cmd_create_admin(b) ==
    /\ run[b].pc = "check"
    /\ \/ HasAdmin /\ Ends(b, "exists")
       \/ Goes(b, "ensure")
    /\ UNCHANGED <<dbVars, service, sessionVars, faults>>

\* POST /api/bootstrap/admin: the process' own flag decides, before the body
\* is read.
create_first_admin(b, g, u) ==
    /\ run[b].pc = "idle"
    /\ service[g].up
    /\ run' = [run EXCEPT ![b] =
                  IF service[g].setup
                  THEN [@ EXCEPT !.pc = "ensure", !.at = g, !.user = u]
                  ELSE [@ EXCEPT !.pc = "done", !.at = g, !.user = u, !.out = "exists"]]
    /\ UNCHANGED <<dbVars, service, sessionVars, faults>>

\* ensure_admin counts the administrators inside its transaction.
ensure_admin(b) ==
    /\ run[b].pc = "ensure"
    /\ \/ HasAdmin /\ Ends(b, "exists")
       \/ ~ HasAdmin /\ Goes(b, "create")
    /\ UNCHANGED <<dbVars, service, sessionVars, faults>>

\* Another open transaction has inserted this run's username: the unique
\* index makes the insert wait for it.
Blocked(b) ==
    \E a \in Runs \ {b} : run[a].pc = "commit" /\ run[a].user = run[b].user

\* Defect: an existing username is taken over.
CreateTakesOver(b) ==
    /\ run[b].pc = "create"
    /\ Goes(b, "commit")
    /\ UNCHANGED <<dbVars, service, sessionVars, faults>>

\* create_admin: a username that exists is refused, by the query or by the
\* unique index; else the row is inserted and flushed.
create_admin(b) ==
    /\ run[b].pc = "create"
    /\ ~ Blocked(b)
    /\ \/ account[run[b].user] # NoAccount /\ Ends(b, "error")
       \/ account[run[b].user] = NoAccount /\ Goes(b, "commit")
    /\ UNCHANGED <<dbVars, service, sessionVars, faults>>

\* No JSON body, no password, WeakPassword, an empty username, a database
\* error: rolled back.
CreateRefused(b) ==
    /\ run[b].pc \in {"ensure", "create"}
    /\ Fault
    /\ Ends(b, "error")
    /\ UNCHANGED <<dbVars, service, sessionVars>>

\* The transaction commits.  A gateway still has its readiness to refresh.
CommitAdmin(b) ==
    /\ run[b].pc = "commit"
    /\ account' = [account EXCEPT ![run[b].user] = b]
    /\ IF run[b].at = Cli THEN Ends(b, "ok") ELSE Goes(b, "refresh")
    /\ UNCHANGED <<schema, service, sessionVars, faults>>

\* Defect: the new administrator is reported without re-reading readiness.
RefreshSkipped(b) ==
    /\ run[b].pc = "refresh"
    /\ Ends(b, "ok")
    /\ UNCHANGED <<dbVars, service, sessionVars, faults>>

\* _refresh_bootstrap, then the answer.
refresh_bootstrap(b) ==
    /\ run[b].pc = "refresh"
    /\ service' = [service EXCEPT ![run[b].at] = Inspected]
    /\ Ends(b, "ok")
    /\ UNCHANGED <<dbVars, sessionVars, faults>>

\* The same person or the same container tries again.
Again(b) ==
    /\ run[b].pc = "done" /\ run[b].out \in {"exists", "error", "lost"}
    /\ run' = [run EXCEPT ![b] = IdleRun]
    /\ UNCHANGED <<dbVars, service, sessionVars, faults>>

-----------------------------------------------------------------------------
(* Administrative sessions.  The admin API does not ask for readiness.     *)

\* login, its transaction: the password given is the account's.
authenticate_admin(i, g, u) ==
    /\ signin[i].pc = "idle"
    /\ service[g].up
    /\ account[u] # NoAccount
    /\ signin' = [signin EXCEPT ![i] = [pc |-> "issue", at |-> g, user |-> u]]
    /\ proved' = [proved EXCEPT ![g] = @ \union {<<i, u>>}]
    /\ UNCHANGED <<dbVars, service, run, sessions, faults>>

\* SessionStore.issue: a token of the browser's own replaces what it held;
\* _reap drops what has expired.
issue(i) ==
    LET g == signin[i].at IN
    /\ signin[i].pc = "issue"
    /\ sessions' = [sessions EXCEPT ![g] =
          [j \in SignIns |-> IF j = i THEN [user |-> signin[i].user, live |-> TRUE]
                             ELSE IF @[j].live THEN @[j] ELSE NoSession]]
    /\ signin' = [signin EXCEPT ![i] = IdleSignIn]
    /\ UNCHANGED <<dbVars, service, run, proved, faults>>

\* SESSION_TTL_SECONDS have passed since the browser gave the password; it may
\* just have given it again.
Expires(i, g) ==
    /\ sessions[g][i].live
    /\ sessions' = [sessions EXCEPT ![g][i].live = FALSE]
    /\ proved' = [proved EXCEPT ![g] =
                     {x \in @ : x[1] = i => signin[i] = [pc |-> "issue", at |-> g, user |-> x[2]]}]
    /\ UNCHANGED <<dbVars, service, run, signin, faults>>

\* Defect: an expired session is still found.
ResolveIgnoresExpiry(i, g) ==
    /\ signin[i].pc = "idle"
    /\ sessions[g][i] # NoSession
    /\ signin' = [signin EXCEPT ![i] = [pc |-> "acting", at |-> g, user |-> sessions[g][i].user]]
    /\ UNCHANGED <<dbVars, service, run, sessions, proved, faults>>

\* current_admin: SessionStore.resolve, which drops the session it finds
\* expired; without one the request ends with 401.
resolve(i, g) ==
    /\ signin[i].pc = "idle"
    /\ sessions[g][i] # NoSession
    /\ \/ /\ sessions[g][i].live
          /\ signin' = [signin EXCEPT ![i] = [pc |-> "acting", at |-> g,
                                              user |-> sessions[g][i].user]]
          /\ UNCHANGED sessions
       \/ /\ ~ sessions[g][i].live
          /\ sessions' = [sessions EXCEPT ![g][i] = NoSession]
          /\ UNCHANGED signin
    /\ UNCHANGED <<dbVars, service, run, proved, faults>>

\* POST /admin/password commits set_admin_password for the actor; the
\* sessions stay.  Any other admin request ends here too.
change_password(i) ==
    /\ signin[i].pc = "acting"
    /\ \/ account' = [account EXCEPT ![signin[i].user] = Changed]
       \/ UNCHANGED account
    /\ signin' = [signin EXCEPT ![i] = IdleSignIn]
    /\ UNCHANGED <<schema, service, run, sessions, proved, faults>>

\* POST /admin/logout revokes the token, with no session asked for.
logout(i, g) ==
    /\ signin[i].pc = "idle"
    /\ sessions[g][i] # NoSession
    /\ sessions' = [sessions EXCEPT ![g][i] = NoSession]
    /\ UNCHANGED <<dbVars, service, run, signin, proved, faults>>

\* repo-mcp-admin set-password.
cmd_set_password(u) ==
    /\ account[u] # NoAccount
    /\ account' = [account EXCEPT ![u] = Changed]
    /\ UNCHANGED <<schema, service, run, sessionVars, faults>>

-----------------------------------------------------------------------------
RunStep(b) ==
    \/ cmd_create_admin(b) \/ ensure_admin(b) \/ create_admin(b) \/ CreateRefused(b)
    \/ CommitAdmin(b) \/ refresh_bootstrap(b)

Attempt(b) ==
    \E u \in Usernames : cmd_init(b, u) \/ \E g \in Gateways : create_first_admin(b, g, u)

SignInStep(i) ==
    \/ issue(i) \/ change_password(i)
    \/ \E g \in Gateways :
          \/ \E u \in Usernames : authenticate_admin(i, g, u)
          \/ Expires(i, g) \/ resolve(i, g) \/ logout(i, g)

Next ==
    \/ upgrade_schema
    \/ \E s \in Services : Start(s) \/ StartsUnready(s) \/ Crash(s)
    \/ \E b \in Runs : Attempt(b) \/ RunStep(b) \/ Again(b)
    \/ \E i \in SignIns : SignInStep(i)
    \/ \E u \in Usernames : cmd_set_password(u)

Spec == Init /\ [][Next]_vars

-----------------------------------------------------------------------------
(* Properties.                                                             *)

\* "Both services refuse to serve traffic until the database has a schema and
\* at least one active administrator": a process that serves is right about
\* the database, although it looked only once.
ReadyIsTrue == \A s \in Services : service[s].ready => schema /\ HasAdmin

\* Whoever was told that the administrator was created can sign in with the
\* password given, until somebody changes it deliberately: no other run, on
\* the setup page or on the command line, replaced it.
CreatedCanSignIn ==
    \A b \in Runs : run[b].out = "ok" => account[run[b].user] \in {b, Changed}

\* "re-read readiness so the platform is usable without a restart": when the
\* setup page reports success, the gateway that reports it serves.
OkMeansUsable ==
    [][\A b \in Runs :
          run[b].out # "ok" /\ run'[b].out = "ok" /\ run[b].at # Cli
              => service'[run[b].at].ready /\ ~ service'[run[b].at].setup]_vars

\* An admin request acts for an account whose password this very process was
\* given, by this browser, less than a session's lifetime ago: neither a
\* restart, nor a logout, nor the expiry of a session found too late lets an
\* older one in.
ActorsProved ==
    [][\A i \in SignIns :
          signin[i].pc # "acting" /\ signin'[i].pc = "acting"
              => <<i, signin'[i].user>> \in proved[signin'[i].at]]_vars
=============================================================================
