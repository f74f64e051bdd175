----------------------------- MODULE Discovery -----------------------------
(***************************************************************************)
(* Repository discovery in the indexer: the connectors administrators edit *)
(* (common/repo_mcp_common/admin.py), the document the configuration store *)
(* makes of them, the providers that list repositories page by page        *)
(* (common/repo_mcp_common/providers.py), the cache of bindings they fill  *)
(* and the handlers that look a repository up in it (indexer/app/main.py,  *)
(* repos.py, webhooks.py).                                                 *)
(*                                                                         *)
(* Every action is the code between two awaits.  What is queued in the end *)
(* is IndexQueue's concern.                                                *)
(***************************************************************************)
EXTENDS Naturals, Sequences, FiniteSets

CONSTANTS
    Connectors,  \* the connectors in the order of their names
    Kind,        \* per connector: its provider
    Listed,      \* per connector: the repositories its provider lists at first
    Repos,       \* full names of repositories
    Short,       \* per repository: the last segment of its name
    Patterns,    \* include and exclude patterns
    Include,     \* per connector: patterns
    Exclude,     \* per connector: patterns
    Matches,     \* <<pattern, full or short name>> that fnmatch accepts
    Default,     \* the default branch, as path segments
    Branches,    \* branches that are pushed to
    PageSize,    \* _PAGE_SIZE
    MaxPages,    \* _MAX_PAGES
    Scans,       \* the rescan loop and POST /rescan requests
    Hooks,       \* webhook and /trigger requests
    NoConnector, \* a repository without binding
    MaxChanges   \* bound: edits of connectors and secrets, changes of the remotes
                 \* and page requests that fail, together

Tasks == Scans \union Hooks
Index == DOMAIN Connectors
Names == {Connectors[i] : i \in Index}

ASSUME DiscoveryAssumption ==
    /\ Connectors \in Seq(Names)
    /\ \A i, j \in Index : Connectors[i] = Connectors[j] => i = j
    /\ Kind \in [Names -> {"github", "gitlab", "bitbucket"}]
    /\ DOMAIN Listed = Names /\ \A c \in Names : Listed[c] \in Seq(Repos)
    /\ Repos # {} /\ DOMAIN Short = Repos
    /\ Include \in [Names -> SUBSET Patterns] /\ Exclude \in [Names -> SUBSET Patterns]
    /\ Default \in Branches /\ \A b \in Branches : Len(b) > 0
    /\ PageSize \in Nat \ {0} /\ MaxPages \in Nat \ {0}
    /\ Scans \intersect Hooks = {}
    /\ NoConnector \notin Names
    /\ MaxChanges \in Nat

\* A connector's row: without a token secret's name it is "unnamed", without
\* the org, group or workspace its provider asks for it is "incomplete".
Rows == {"absent", "disabled", "unnamed", "incomplete", "ok"}
\* What the scan document and the secrets make of a row.
Entries == {"none", "unnamed", "tokenless", "incomplete", "ok"}

VARIABLES
    rows,      \* per connector: its row
    secrets,   \* connectors whose token secret is stored
    remote,    \* per connector: the repositories its provider lists, in order
    dormant,   \* repositories that are archived or empty
    snap,      \* the indexer's ConfigStore._snapshot, reduced to its entries
    due,       \* the snapshot is older than the poll interval, or there is none
    config,    \* BindingCache._config
    bindings,  \* BindingCache._bindings: per repository the connector it came from
    lock,      \* BindingCache._lock: the holder first, then who waits
    scan,      \* the refresh under way, by the holder of the lock
    task,      \* per task: where it is
    changes

dbVars     == <<rows, secrets>>
remoteVars == <<remote, dormant>>
storeVars  == <<snap, due>>
cacheVars  == <<config, bindings, lock, scan>>
vars == <<dbVars, remoteVars, storeVars, cacheVars, task, changes>>

NoEntries  == [c \in Names |-> "none"]
NoBindings == [r \in Repos |-> NoConnector]
NoScan     == [entries |-> NoEntries, at |-> 1, page |-> 1, found |-> NoBindings]
Bindings   == [Repos -> Names \union {NoConnector}]
Refs       == {<<>>} \union Branches \union {<<"refs", "heads">> \o b : b \in Branches}

\* repo, branch and ref: what a hook is about; sure: since it arrived its
\* repository has been in scope and nothing has disturbed discovery.
NoTask == [pc |-> "idle", repo |-> CHOOSE r \in Repos : TRUE, branch |-> <<>>, ref |-> <<>>,
           sure |-> FALSE, answer |-> "none"]

\* Rows, remotes, snapshot, cache and tasks have their types.
TypeOK ==
    /\ rows \in [Names -> Rows]
    /\ secrets \subseteq Names
    /\ DOMAIN remote = Names /\ \A c \in Names : remote[c] \in Seq(Repos)
    /\ dormant \subseteq Repos
    /\ snap \in [Names -> Entries]
    /\ due \in BOOLEAN
    /\ config \in [Names -> Entries \ {"unnamed"}]
    /\ bindings \in Bindings
    /\ lock \in Seq(Tasks)
    /\ scan \in [entries : [Names -> Entries \ {"unnamed"}], at : 1..(Len(Connectors) + 1),
                 page : 1..MaxPages, found : Bindings]
    /\ task \in [Tasks -> [pc : {"idle", "reload", "lock", "scan"}, repo : Repos,
                           branch : {<<>>} \union Branches, ref : Refs, sure : BOOLEAN,
                           answer : {"none", "queued", "out_of_scope", "ignored_branch",
                                     "ignored_deletion", "failed"}]]
    /\ changes \in 0..MaxChanges

\* A configured platform whose indexer has just started.
Init ==
    /\ rows = [c \in Names |-> "ok"]
    /\ secrets = Names
    /\ remote = Listed
    /\ dormant = {}
    /\ snap = NoEntries /\ due = TRUE
    /\ config = NoEntries
    /\ bindings = NoBindings
    /\ lock = <<>> /\ scan = NoScan
    /\ task = [t \in Tasks |-> NoTask]
    /\ changes = 0

-----------------------------------------------------------------------------
(* Reading the configuration.                                              *)

\* _scan_document, and the token each entry finds among the secrets.
scan_document ==
    [c \in Names |-> IF rows[c] \in {"absent", "disabled"} THEN "none"
                     ELSE IF rows[c] = "unnamed" \/ c \in secrets THEN rows[c]
                     ELSE "tokenless"]

\* ScanConfig.from_dict accepts the document.
Loads(entries) ==
    /\ \E c \in Names : entries[c] # "none"
    /\ \A c \in Names : entries[c] # "unnamed"

\* providers.selected
Hit(p, r) == <<p, r>> \in Matches \/ <<p, Short[r]>> \in Matches
selected(c, r) ==
    /\ \E p \in Include[c] : Hit(p, r)
    /\ \A p \in Exclude[c] : ~ Hit(p, r)

\* Connector.matches
matches(c, r) == r \notin dormant /\ selected(c, r)

-----------------------------------------------------------------------------
(* What administrators and developers change.  A change takes the sureness *)
(* from every hook under way.                                              *)

Disturb ==
    /\ changes < MaxChanges /\ changes' = changes + 1
    /\ task' = [t \in Tasks |-> [task[t] EXCEPT !.sure = FALSE]]

Edit == Disturb /\ UNCHANGED <<storeVars, cacheVars>>

\* PUT /admin/connectors/{name} and `connector set`: the whole row is written.
upsert_connector(c, row) ==
    /\ rows' = [rows EXCEPT ![c] = row]
    /\ Edit
    /\ UNCHANGED <<secrets, remoteVars>>

delete_connector(c) ==
    /\ rows[c] # "absent"
    /\ rows' = [rows EXCEPT ![c] = "absent"]
    /\ Edit
    /\ UNCHANGED <<secrets, remoteVars>>

put_secret(c) ==
    /\ secrets' = secrets \union {c}
    /\ Edit
    /\ UNCHANGED <<rows, remoteVars>>

delete_secret(c) ==
    /\ secrets' = secrets \ {c}
    /\ Edit
    /\ UNCHANGED <<rows, remoteVars>>

\* A repository is created and listed first or last, deleted, archived or
\* emptied, or brought back.
RemoteChanges(c, r) ==
    /\ \/ /\ \A i \in DOMAIN remote[c] : remote[c][i] # r
          /\ \/ remote' = [remote EXCEPT ![c] = Append(@, r)]
             \/ remote' = [remote EXCEPT ![c] = <<r>> \o @]
          /\ UNCHANGED dormant
       \/ /\ \E i \in DOMAIN remote[c] :
                /\ remote[c][i] = r
                /\ remote' = [remote EXCEPT ![c] = SubSeq(@, 1, i - 1) \o SubSeq(@, i + 1, Len(@))]
          /\ UNCHANGED dormant
       \/ /\ dormant' = IF r \in dormant THEN dormant \ {r} ELSE dormant \union {r}
          /\ UNCHANGED remote
    /\ Edit
    /\ UNCHANGED dbVars

-----------------------------------------------------------------------------
(* The provider's listing.                                                 *)

\* The repositories on page k of a listing.
Page(list, k) ==
    SubSeq(list, (k - 1) * PageSize + 1, IF k * PageSize < Len(list) THEN k * PageSize
                                         ELSE Len(list))

\* Defect: the listing is followed as long as it goes on.
LastOfNumberedUncapped(list, k) == Len(Page(list, k)) < PageSize

\* Defect: a full page is taken for the last one.
LastOfNumberedNoFull(list, k) == Len(Page(list, k)) <= PageSize

\* GitHub and GitLab: a short page, an empty one included, is the last.
LastOfNumbered(list, k) == Len(Page(list, k)) < PageSize \/ k = MaxPages

\* Bitbucket: the page carries the URL of the next one, if there is one.
LastOfLinked(list, k) == k * PageSize >= Len(list) \/ k = MaxPages

\* build_provider chose how connector c is listed.
IsLast(c, k) ==
    IF Kind[c] = "bitbucket" THEN LastOfLinked(remote[c], k) ELSE LastOfNumbered(remote[c], k)

-----------------------------------------------------------------------------
(* BindingCache.refresh.                                                   *)

\* Task t is over.
Ended(t, answer) ==
    [NoTask EXCEPT !.answer = answer, !.branch = task[t].branch, !.sure = task[t].sure]

\* The poll interval has passed since the snapshot was checked.
PollDue ==
    /\ ~ due
    /\ due' = TRUE
    /\ UNCHANGED <<dbVars, remoteVars, snap, cacheVars, task, changes>>

\* _reload_config, before the lock: what from_dict rejects ends the refresh.
reload_config(t) ==
    /\ task[t].pc = "reload"
    /\ snap' = IF due THEN scan_document ELSE snap
    /\ due' = FALSE
    /\ \/ /\ Loads(snap')
          /\ config' = snap'
          /\ lock' = Append(lock, t)
          /\ task' = [task EXCEPT ![t].pc = "lock"]
       \/ /\ ~ Loads(snap')
          /\ task' = [task EXCEPT ![t] = Ended(t, "failed")]
          /\ UNCHANGED <<config, lock>>
    /\ UNCHANGED <<dbVars, remoteVars, bindings, scan, changes>>

\* The first connector from i on that is in the document and has a token;
\* without one build() raises ConfigError and the loop goes on.
FirstBuilt(entries, i) ==
    CHOOSE j \in i..(Len(Connectors) + 1) :
        /\ j \in Index => entries[Connectors[j]] \in {"incomplete", "ok"}
        /\ \A k \in i..(j - 1) : entries[Connectors[k]] \in {"none", "tokenless"}

\* The lock is this task's: the connectors are those of the moment.
BeginScan(t) ==
    /\ task[t].pc = "lock" /\ Head(lock) = t
    /\ scan' = [NoScan EXCEPT !.entries = config, !.at = FirstBuilt(config, 1)]
    /\ task' = [task EXCEPT ![t].pc = "scan"]
    /\ UNCHANGED <<dbVars, remoteVars, storeVars, config, bindings, lock, changes>>

Scanning(t) == task[t].pc = "scan" /\ scan.at \in Index

NextConnector(found) ==
    [scan EXCEPT !.at = FirstBuilt(scan.entries, @ + 1), !.page = 1, !.found = found]

\* Defect: the lock is taken by hand and an error leaves it locked.
BuildRaisesLocked(t) ==
    /\ Scanning(t) /\ scan.entries[Connectors[scan.at]] = "incomplete"
    /\ scan' = NoScan
    /\ task' = [task EXCEPT ![t] = Ended(t, "failed")]
    /\ UNCHANGED <<dbVars, remoteVars, storeVars, config, bindings, lock, changes>>

\* build_provider reads a setting that is not there: KeyError, not the
\* ValueError the loop is prepared for, and the refresh is over.
BuildRaises(t) ==
    /\ Scanning(t) /\ scan.entries[Connectors[scan.at]] = "incomplete"
    /\ lock' = Tail(lock)
    /\ scan' = NoScan
    /\ task' = [task EXCEPT ![t] = Ended(t, "failed")]
    /\ UNCHANGED <<dbVars, remoteVars, storeVars, config, bindings, changes>>

\* One page of the listing, its repositories matched and bound; a later
\* connector takes over what an earlier one found.
discover(t) ==
    LET c == Connectors[scan.at]
        page == Page(remote[c], scan.page)
        kept == {r \in Repos : matches(c, r) /\ \E i \in DOMAIN page : page[i] = r}
        found == [r \in Repos |-> IF r \in kept THEN c ELSE scan.found[r]] IN
    /\ Scanning(t) /\ scan.entries[c] = "ok"
    /\ scan' = IF IsLast(c, scan.page) THEN NextConnector(found)
               ELSE [scan EXCEPT !.page = @ + 1, !.found = found]
    /\ UNCHANGED <<dbVars, remoteVars, storeVars, config, bindings, lock, task, changes>>

\* The request for a page fails: what the connector has yielded is kept.
PageFails(t) ==
    /\ Scanning(t) /\ scan.entries[Connectors[scan.at]] = "ok"
    /\ scan' = NextConnector(scan.found)
    /\ Disturb
    /\ UNCHANGED <<dbVars, remoteVars, storeVars, config, bindings, lock>>

-----------------------------------------------------------------------------
(* The handlers.                                                           *)

\* event.ref.endswith("/" + default_branch)
EndsWithDefault(ref) ==
    /\ Len(ref) > Len(Default)
    /\ SubSeq(ref, Len(ref) - Len(Default) + 1, Len(ref)) = Default

\* What the rest of the handler makes of the binding lookup has returned; a
\* rescan queues whatever is bound.
Answer(t, binding, ref) ==
    IF t \in Scans THEN "queued"
    ELSE IF binding = NoConnector THEN "out_of_scope"
    ELSE IF ref # <<>> /\ ~ EndsWithDefault(ref) THEN "ignored_branch"
    ELSE "queued"

\* The scan is complete: the bindings are replaced, the lock is released and
\* the task goes on - the rescan with every binding, a hook with its lookup.
SwapBindings(t) ==
    /\ task[t].pc = "scan" /\ scan.at \notin Index
    /\ bindings' = scan.found
    /\ lock' = Tail(lock)
    /\ scan' = NoScan
    /\ task' = [task EXCEPT ![t] = Ended(t, Answer(t, scan.found[task[t].repo], task[t].ref))]
    /\ UNCHANGED <<dbVars, remoteVars, storeVars, config, changes>>

\* rescan_loop wakes up, or POST /rescan arrives.
Rescan(t) ==
    /\ task[t].pc = "idle"
    /\ task' = [task EXCEPT ![t] = [NoTask EXCEPT !.pc = "reload"]]
    /\ UNCHANGED <<dbVars, remoteVars, storeVars, cacheVars, changes>>

\* parse_github, parse_gitlab and parse_bitbucket: Bitbucket's event carries
\* the bare name of the branch.
parse(kind, branch) == IF kind = "bitbucket" THEN branch ELSE <<"refs", "heads">> \o branch

\* Connectors whose next scan binds r, as the database and the remotes are.
Finders(r) ==
    {c \in Names :
        /\ scan_document[c] = "ok" /\ matches(c, r)
        /\ \E i \in 1..(MaxPages * PageSize) : i \in DOMAIN remote[c] /\ remote[c][i] = r}

\* A refresh that starts now sees the configuration there is, and ends well.
Sound ==
    /\ Loads(scan_document)
    /\ \A c \in Names : scan_document[c] # "incomplete"
    /\ due \/ snap = scan_document

\* A hook for r has come in and is not answered at once.
Arrived(r, branch, ref) ==
    [NoTask EXCEPT !.pc = "reload", !.repo = r, !.branch = branch, !.ref = ref,
                   !.sure = Sound /\ Finders(r) # {}]

\* Defect: a miss while a refresh is under way waits for that one's result.
LookupJoins(t, r, branch, ref) ==
    /\ task[t].pc = "idle"
    /\ task' = [task EXCEPT ![t] =
           IF bindings[r] = NoConnector /\ lock = <<>> THEN Arrived(r, branch, ref)
           ELSE [Arrived(r, branch, ref) EXCEPT !.pc = "idle", !.answer =
                    IF bindings[r] = NoConnector THEN "out_of_scope" ELSE "queued"]]
    /\ UNCHANGED <<dbVars, remoteVars, storeVars, cacheVars, changes>>

\* BindingCache.lookup for a hook that has been verified and parsed: a miss
\* refreshes, a hit answers at once.
lookup(t, r, branch, ref) ==
    /\ task[t].pc = "idle"
    /\ task' = [task EXCEPT ![t] =
           IF bindings[r] = NoConnector THEN Arrived(r, branch, ref)
           ELSE [NoTask EXCEPT !.branch = branch, !.answer = Answer(t, bindings[r], ref)]]
    /\ UNCHANGED <<dbVars, remoteVars, storeVars, cacheVars, changes>>

\* POST /webhook/{provider}; a branch deletion is not looked up.
webhook(t, r) ==
    \/ \E kind \in {"github", "bitbucket"}, branch \in Branches :
          lookup(t, r, branch, parse(kind, branch))
    \/ /\ task[t].pc = "idle"
       /\ task' = [task EXCEPT ![t] = [NoTask EXCEPT !.answer = "ignored_deletion"]]
       /\ UNCHANGED <<dbVars, remoteVars, storeVars, cacheVars, changes>>

\* POST /trigger names no ref.
trigger(t, r) == lookup(t, r, Default, <<>>)

-----------------------------------------------------------------------------
TaskStep(t) ==
    \/ reload_config(t) \/ BeginScan(t) \/ BuildRaises(t)
    \/ discover(t) \/ PageFails(t) \/ SwapBindings(t)

Next ==
    \/ \E c \in Names :
          \/ \E row \in Rows \ {"absent"} : upsert_connector(c, row)
          \/ delete_connector(c)
          \/ put_secret(c) \/ delete_secret(c)
          \/ \E r \in Repos : RemoteChanges(c, r)
    \/ PollDue
    \/ \E t \in Scans : Rescan(t)
    \/ \E t \in Hooks, r \in Repos : webhook(t, r) \/ trigger(t, r)
    \/ \E t \in Tasks : TaskStep(t)

Spec == Init /\ [][Next]_vars

\* Time passes, providers answer or time out (30 s), and the rescan loop
\* never ends.
FairSpec ==
    /\ Spec
    /\ WF_vars(PollDue)
    /\ \A t \in Tasks : WF_vars(TaskStep(t))
    /\ \A t \in Scans : WF_vars(Rescan(t))

-----------------------------------------------------------------------------
(* Properties.                                                             *)

\* "A miss triggers a rediscovery rather than dropping the event": a hook is
\* told that its repository is out of scope only if, at some time since it
\* arrived, that was so or discovery was disturbed - not because another
\* refresh, begun before the repository existed, was under way.
MissRediscovers ==
    \A t \in Hooks : task[t].answer = "out_of_scope" => ~ task[t].sure

\* The last connector, by name, among those that find r.
Expected(r) ==
    IF Finders(r) = {} THEN NoConnector
    ELSE Connectors[CHOOSE i \in Index :
            Connectors[i] \in Finders(r)
            /\ \A j \in Index : Connectors[j] \in Finders(r) => j <= i]

\* Once edits and failures stop, the rescans bring the bindings, for good, to
\* exactly what the connectors select, over all pages, with the last of
\* several connectors winning - if no connector is unnamed or incomplete.
BindingsConverge ==
    <>[](Loads(scan_document) /\ \A c \in Names : scan_document[c] # "incomplete")
        => <>[](\A r \in Repos : bindings[r] = Expected(r))

\* Every hook is answered: no failed refresh leaves the lock behind.
HooksAnswered == \A t \in Hooks : task[t].pc # "idle" ~> task[t].pc = "idle"

\* "Only the default branch feeds the shared graph": a push to a repository
\* in scope is queued exactly if it is to the default branch.
OnlyDefaultBranchFeeds ==
    \A t \in Hooks : task[t].answer \in {"queued", "ignored_branch"} =>
        (task[t].answer = "queued" <=> task[t].branch = Default)
=============================================================================
