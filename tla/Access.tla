------------------------------- MODULE Access -------------------------------
(***************************************************************************)
(* Who may do what: the squads and roles administrators edit               *)
(* (common/repo_mcp_common/admin.py, models.py), the registry a gateway    *)
(* builds from them (store.py, gateway/app/tenants.py, roles.py) and the   *)
(* decisions taken on it (gateway/app/mcp.py, webui.py).                   *)
(*                                                                         *)
(* Edits are transactions of several statements under READ COMMITTED; an   *)
(* action is one group of statements with nothing to wait for in between.  *)
(* A row of a child table is a value and the edit that inserted it, so a   *)
(* row deleted and inserted again is another row.  Decisions are operators *)
(* on the committed tables: how copies of them age is ConfigStore's part.  *)
(***************************************************************************)
EXTENDS Naturals, FiniteSets

CONSTANTS
    Squads,     \* names of squads
    Groups,     \* LDAP groups
    Projects,   \* project names; a pattern is the set of those it matches
    Patterns,   \* subset of SUBSET Projects
    PatternLists,  \* lists of patterns edits choose from
    Settings,   \* column values of a squad that edits choose from
    EditRoles,  \* roles that edits choose from
    Admins,     \* transactions open at once
    NoRow,      \* no such row
    NoProject,  \* a call without a project argument
    MaxEdits    \* bound: committed edits

-----------------------------------------------------------------------------
(* The fixed tables of roles.py, tenants.py, mcp.py and smart_tools.py.    *)

Capabilities == {"read_graph", "read_source", "query_raw", "analyze_changes",
                 "trigger_index", "manage_adr", "ingest_traces", "administer",
                 "use_smart_tools"}
Roles == {"admin", "lead", "developer", "qa", "devops", "viewer"}

DeveloperCapabilities ==
    {"read_graph", "read_source", "query_raw", "analyze_changes", "use_smart_tools"}

ROLE_CAPABILITIES == [role \in Roles |->
    CASE role = "admin" -> Capabilities
      [] role = "lead" -> DeveloperCapabilities \union {"trigger_index", "manage_adr"}
      [] role \in {"developer", "qa"} -> DeveloperCapabilities
      [] role = "devops" -> {"read_graph", "query_raw", "analyze_changes",
                             "trigger_index", "ingest_traces", "use_smart_tools"}
      [] role = "viewer" -> {"read_graph"}]

\* The tools each capability opens.
ToolsOf == [c \in Capabilities |->
    CASE c = "read_graph" -> {"search_graph", "trace_path", "get_graph_schema",
                              "get_architecture", "list_projects", "index_status",
                              "check_index_coverage"}
      [] c = "read_source" -> {"get_code_snippet", "search_code"}
      [] c = "query_raw" -> {"query_graph"}
      [] c = "analyze_changes" -> {"detect_changes"}
      [] c = "trigger_index" -> {"index_repository"}
      [] c = "manage_adr" -> {"manage_adr"}
      [] c = "ingest_traces" -> {"ingest_traces"}
      [] c = "administer" -> {"delete_project"}
      [] c = "use_smart_tools" -> {}]
TOOL_CAPABILITY(tool, c) == tool \in ToolsOf[c]

SCOUT_TOOLS == {"search_graph", "trace_path", "get_code_snippet", "get_architecture",
                "list_projects", "index_status", "check_index_coverage"}
ANALYSIS_TOOLS == SCOUT_TOOLS \union {"query_graph", "get_graph_schema", "search_code",
                                      "detect_changes"}
WRITE_TOOLS == {"index_repository", "delete_project", "manage_adr", "ingest_traces"}
PROFILES == [all |-> ANALYSIS_TOOLS \union WRITE_TOOLS, analysis |-> ANALYSIS_TOOLS,
             scout |-> SCOUT_TOOLS]

SMART_TOOL_REQUIREMENTS == [explain_change_impact |-> {"detect_changes"},
                            ask_codebase |-> {"search_graph", "get_architecture"}]
SmartTools == DOMAIN SMART_TOOL_REQUIREMENTS

\* The engine tools the handlers of the composite tools call.
HandlerCalls == [explain_change_impact |-> {"detect_changes"},
                 ask_codebase |-> {"get_architecture", "search_graph"}]

PROJECT_ARG_TOOLS == ((PROFILES.all \ {"list_projects", "index_repository"})
                      \union SmartTools)
Tools == PROFILES.all \union SmartTools

\* Most privileged first.
ROLE_PRECEDENCE == <<"admin", "lead", "devops", "qa", "developer", "viewer">>

-----------------------------------------------------------------------------
SettingRows == [profile : DOMAIN PROFILES, structural : BOOLEAN, enabled : BOOLEAN,
                denied : SUBSET PROFILES.all]
Ids == 0..MaxEdits

ASSUME AccessAssumption ==
    /\ MaxEdits \in Nat
    /\ Patterns \subseteq SUBSET Projects
    /\ PatternLists \subseteq SUBSET Patterns
    /\ Settings \subseteq SettingRows
    /\ EditRoles \subseteq Roles
    /\ NoProject \notin Projects

VARIABLES
    edits,        \* committed edits
    squads,       \* the tenants table: id and columns per name, or NoRow
    groupRows,    \* tenant_ldap_groups per squad
    projectRows,  \* tenant_projects per squad
    roleRows,     \* role_assignments per role
    tx,           \* per administrator: the open transaction
    givenGroups,  \* per squad: the groups of the last accepted upsert
    givenRole     \* per role: the groups of the last accepted set

vars == <<edits, squads, groupRows, projectRows, roleRows, tx, givenGroups, givenRole>>
tableVars == <<edits, squads, groupRows, projectRows, roleRows, givenGroups, givenRole>>

SquadRows == [id : Ids, settings : SettingRows]
ASSUME NoRowAssumption == NoRow \notin SquadRows

Idle == [at |-> "idle"]
Upserts == [at : {"tenant checked", "tenant written"}, squad : Squads, found : SquadRows \union {NoRow},
            groups : SUBSET Groups, patterns : SUBSET Patterns, settings : SettingRows,
            goneGroups : SUBSET (Groups \X Ids), gonePatterns : SUBSET (Patterns \X Ids)]
Deletes == [at : {"tenant found"}, squad : Squads, found : SquadRows]
RoleSets == [at : {"role written"}, role : Roles, groups : SUBSET Groups,
             gone : SUBSET (Groups \X Ids)]

TypeOK ==
    /\ edits \in Ids
    /\ squads \in [Squads -> SquadRows \union {NoRow}]
    /\ groupRows \in [Squads -> SUBSET (Groups \X Ids)]
    /\ projectRows \in [Squads -> SUBSET (Patterns \X Ids)]
    /\ roleRows \in [Roles -> SUBSET (Groups \X Ids)]
    /\ tx \in [Admins -> {Idle} \union Upserts \union Deletes \union RoleSets]
    /\ givenGroups \in [Squads -> SUBSET Groups]
    /\ givenRole \in [Roles -> SUBSET Groups]

\* A migrated database nobody has configured.
Init ==
    /\ edits = 0
    /\ squads = [s \in Squads |-> NoRow]
    /\ groupRows = [s \in Squads |-> {}]
    /\ projectRows = [s \in Squads |-> {}]
    /\ roleRows = [role \in Roles |-> {}]
    /\ tx = [a \in Admins |-> Idle]
    /\ givenGroups = [s \in Squads |-> {}]
    /\ givenRole = [role \in Roles |-> {}]

\* The values of a set of rows, and rows inserted by the edit under way.
Values(rows) == {row[1] : row \in rows}
Inserted(values) == values \X {edits + 1}

-----------------------------------------------------------------------------
(* Edits of squads.                                                        *)

\* The statement that reads the squad, then the one that looks for groups
\* mapped to another: an AdminError leaves nothing behind.
upsert_tenant(a, s, groups, patterns, settings) ==
    /\ tx[a] = Idle
    /\ groups # {} /\ patterns # {}
    /\ \A t \in Squads \ {s} : Values(groupRows[t]) \intersect groups = {}
    /\ tx' = [tx EXCEPT ![a] =
                [at |-> "tenant checked", squad |-> s, found |-> squads[s],
                 groups |-> groups, patterns |-> patterns, settings |-> settings,
                 goneGroups |-> {}, gonePatterns |-> {}]]
    /\ UNCHANGED tableVars

\* The transaction holds the squad's row (or the index entry of its name) until
\* it ends: an INSERT does, and an UPDATE, which is sent only if a column changed.
Writes(t) == t.found = NoRow \/ t.found.settings # t.settings
Locked(a, s) == \E b \in Admins \ {a} :
    tx[b].at = "tenant written" /\ tx[b].squad = s /\ Writes(tx[b])

\* The row the transaction read is the one the table has now.
SameRow(t) == IF t.found = NoRow THEN squads[t.squad] = NoRow
              ELSE squads[t.squad] # NoRow /\ squads[t.squad].id = t.found.id

\* The flush of the squad's columns and the two DELETEs, which see the rows
\* committed by now.  Two DELETEs of one row wait for each other: that only
\* orders the two commits, and both orders are behaviours here.
WriteTenant(a) ==
    /\ tx[a].at = "tenant checked"
    /\ Writes(tx[a]) => ~Locked(a, tx[a].squad) /\ SameRow(tx[a])
    /\ tx' = [tx EXCEPT ![a].at = "tenant written",
                        ![a].goneGroups = groupRows[tx[a].squad],
                        ![a].gonePatterns = projectRows[tx[a].squad]]
    /\ UNCHANGED tableVars

\* Defect: the row of a new squad is never given its columns.
UnsetSettings(t) == IF t.found = NoRow THEN NoRow ELSE t.settings

\* An UPDATE sets the columns that differ from what was read, and no others.
UpdatedSettings(t) ==
    [c \in DOMAIN t.settings |->
        IF t.found # NoRow /\ t.settings[c] = t.found.settings[c]
        THEN squads[t.squad].settings[c] ELSE t.settings[c]]

\* Defect: a squad's own groups are unique, two squads may share one.
uq_within_squad(t) == Values(groupRows[t.squad] \ t.goneGroups) \intersect t.groups = {}

\* The constraints uq_tenant_ldap_group and uq_tenant_project on the INSERTs.
uq_tenant_ldap_group(t) == \A s \in Squads :
    Values(IF s = t.squad THEN groupRows[s] \ t.goneGroups ELSE groupRows[s])
        \intersect t.groups = {}

uq_tenant_project(t) ==
    Values(projectRows[t.squad] \ t.gonePatterns) \intersect t.patterns = {}

\* Defect: child tables without a foreign key.
NoForeignKey(t) == Writes(t) => SameRow(t)

\* The foreign keys of the child rows, and the squad an INSERT or UPDATE wrote.
TenantStillThere(t) == SameRow(t)

\* The INSERTs of the new rows, the generation and the commit.  A constraint
\* or a foreign key that refuses them leaves only Rollback.
CommitTenant(a) ==
    LET t == tx[a]
        s == t.squad
    IN  /\ t.at = "tenant written"
        /\ edits < MaxEdits
        /\ TenantStillThere(t) /\ uq_tenant_ldap_group(t) /\ uq_tenant_project(t)
        /\ edits' = edits + 1
        /\ squads' = [squads EXCEPT ![s] =
                        IF ~Writes(t) THEN @
                        ELSE [id |-> IF t.found = NoRow THEN edits + 1 ELSE t.found.id,
                              settings |-> UpdatedSettings(t)]]
        /\ groupRows' = [groupRows EXCEPT ![s] = (@ \ t.goneGroups) \union Inserted(t.groups)]
        /\ projectRows' = [projectRows EXCEPT ![s] =
                             (@ \ t.gonePatterns) \union Inserted(t.patterns)]
        /\ givenGroups' = [givenGroups EXCEPT ![s] = t.groups]
        /\ tx' = [tx EXCEPT ![a] = Idle]
        /\ UNCHANGED <<roleRows, givenRole>>

delete_tenant(a, s) ==
    /\ tx[a] = Idle
    /\ squads[s] # NoRow
    /\ tx' = [tx EXCEPT ![a] = [at |-> "tenant found", squad |-> s, found |-> squads[s]]]
    /\ UNCHANGED tableVars

\* The DELETE takes the squad's child rows with it, those inserted since the
\* read too.  It waits for the row, and matches nothing if the row is gone.
CommitDelete(a) ==
    LET s == tx[a].squad
    IN  /\ tx[a].at = "tenant found"
        /\ ~Locked(a, s)
        /\ IF SameRow(tx[a])
           THEN /\ edits < MaxEdits
                /\ edits' = edits + 1
                /\ squads' = [squads EXCEPT ![s] = NoRow]
                /\ groupRows' = [groupRows EXCEPT ![s] = {}]
                /\ projectRows' = [projectRows EXCEPT ![s] = {}]
                /\ givenGroups' = [givenGroups EXCEPT ![s] = {}]
           ELSE UNCHANGED <<edits, squads, groupRows, projectRows, givenGroups>>
        /\ tx' = [tx EXCEPT ![a] = Idle]
        /\ UNCHANGED <<roleRows, givenRole>>

-----------------------------------------------------------------------------
(* Edits of roles.                                                         *)

\* The DELETE, which sees the rows committed by now.
set_role_groups(a, role, groups) ==
    /\ tx[a] = Idle
    /\ tx' = [tx EXCEPT ![a] = [at |-> "role written", role |-> role, groups |-> groups,
                                gone |-> roleRows[role]]]
    /\ UNCHANGED tableVars

\* Defect: the INSERTs of groups the role already has are skipped.
CommitRoleMissing(a) ==
    LET t == tx[a]
    IN  /\ t.at = "role written"
        /\ edits < MaxEdits
        /\ edits' = edits + 1
        /\ roleRows' = [roleRows EXCEPT ![t.role] =
             (@ \ t.gone) \union Inserted(t.groups \ Values(@))]
        /\ givenRole' = [givenRole EXCEPT ![t.role] = t.groups]
        /\ tx' = [tx EXCEPT ![a] = Idle]
        /\ UNCHANGED <<squads, groupRows, projectRows, givenGroups>>

\* The INSERTs, refused by uq_role_group if a remaining row is one of them.
CommitRole(a) ==
    LET t == tx[a]
    IN  /\ t.at = "role written"
        /\ edits < MaxEdits
        /\ Values(roleRows[t.role] \ t.gone) \intersect t.groups = {}
        /\ edits' = edits + 1
        /\ roleRows' = [roleRows EXCEPT ![t.role] = (@ \ t.gone) \union Inserted(t.groups)]
        /\ givenRole' = [givenRole EXCEPT ![t.role] = t.groups]
        /\ tx' = [tx EXCEPT ![a] = Idle]
        /\ UNCHANGED <<squads, groupRows, projectRows, givenGroups>>

\* A refused statement, a lost connection or a deadlock the database breaks.
Rollback(a) ==
    /\ tx[a] # Idle
    /\ tx' = [tx EXCEPT ![a] = Idle]
    /\ UNCHANGED tableVars

Next == \E a \in Admins :
    \/ \E s \in Squads, groups \in SUBSET Groups, patterns \in PatternLists,
          settings \in Settings : upsert_tenant(a, s, groups, patterns, settings)
    \/ WriteTenant(a)
    \/ CommitTenant(a)
    \/ \E s \in Squads : delete_tenant(a, s)
    \/ CommitDelete(a)
    \/ \E role \in EditRoles, groups \in SUBSET Groups : set_role_groups(a, role, groups)
    \/ CommitRole(a)
    \/ Rollback(a)

Spec == Init /\ [][Next]_vars

-----------------------------------------------------------------------------
(* The registry of the committed tables, and the decisions taken on it.    *)

\* A disabled squad is left out of the document (_tenants_document).
Enabled(s) == squads[s] # NoRow /\ squads[s].settings.enabled
LdapGroups(s) == Values(groupRows[s])

\* What TenantRegistry.from_dict raises no ConfigError for.  A role without
\* rows is not in the document.
from_dict ==
    /\ \A s \in Squads : Enabled(s) =>
         squads[s].settings.profile \in DOMAIN PROFILES /\ groupRows[s] # {} /\ projectRows[s] # {}
    /\ \A s, t \in Squads : Enabled(s) /\ Enabled(t) =>
         \A row \in groupRows[s], other \in groupRows[t] :
            row[1] = other[1] => s = t /\ row = other

for_groups(groups) == {s \in Squads : Enabled(s) /\ LdapGroups(s) \intersect groups # {}}

\* The squad of the request, or none: requested is the X-Tenant header.
select_tenant(groups, requested) ==
    LET candidates == for_groups(groups)
    IN  IF requested # NoRow THEN candidates \intersect {requested}
        ELSE {s \in candidates : Cardinality(candidates) = 1}

resolve_role(groups) ==
    LET matched == {i \in DOMAIN ROLE_PRECEDENCE :
                       Values(roleRows[ROLE_PRECEDENCE[i]]) \intersect groups # {}}
    IN  IF matched = {} THEN "viewer"
        ELSE ROLE_PRECEDENCE[CHOOSE i \in matched : \A j \in matched : i <= j]

allowed_tools(s) ==
    LET row == squads[s].settings
    IN  (PROFILES[row.profile] \ IF row.structural THEN {"get_code_snippet", "search_code"} ELSE {})
            \ row.denied

effective_tools(s, role) ==
    {tool \in allowed_tools(s) : \E c \in ROLE_CAPABILITIES[role] : TOOL_CAPABILITY(tool, c)}

\* The Session of a request, or none.
build_session(groups, requested) ==
    {[tenant |-> s, role |-> resolve_role(groups),
      effective_tools |-> effective_tools(s, resolve_role(groups))] :
        s \in select_tenant(groups, requested)}

\* Defect: every composite tool is offered to a role that may use them.
SmartToolsOfRole(session, llm) ==
    {name \in SmartTools : llm /\ "use_smart_tools" \in ROLE_CAPABILITIES[session.role]}

\* The composite tools of a session; llm: a model backend is configured.
smart_tools_for(session, llm) ==
    {name \in SmartTools : /\ llm /\ "use_smart_tools" \in ROLE_CAPABILITIES[session.role]
                           /\ SMART_TOOL_REQUIREMENTS[name] \subseteq session.effective_tools}

\* The tools /api/session reports and tools/list returns, from an engine that
\* serves every tool of the squad's profile.
session_info(session, llm) == session.effective_tools \union smart_tools_for(session, llm)

allows_project(s, project) == \E pattern \in Values(projectRows[s]) : project \in pattern

\* The call is let through.  rooted: repo_path lies under the squad's root.
authorize(session, llm, name, project, rooted) ==
    /\ IF name \in SmartTools
       THEN /\ llm /\ "use_smart_tools" \in ROLE_CAPABILITIES[session.role]
            /\ SMART_TOOL_REQUIREMENTS[name] \subseteq session.effective_tools
       ELSE name \in session.effective_tools
    /\ name \in PROJECT_ARG_TOOLS => project = NoProject \/ allows_project(session.tenant, project)
    /\ name = "index_repository" => rooted

-----------------------------------------------------------------------------
(* Properties.                                                             *)

\* However edits interleave, a directory group leads to at most one squad, in
\* enabled and disabled squads alike: the check upsert_tenant makes is long
\* stale when it commits, and the constraint decides.
OneSquadPerGroup == \A s, t \in Squads : s # t => LdapGroups(s) \intersect LdapGroups(t) = {}

\* Whatever administrators commit, in whatever order, every gateway can load:
\* from_dict refuses none of the states the edits can leave.
Loadable == from_dict

\* An edit that read a squad before it was deleted adds no row to it after:
\* a name with no squad has no groups and no projects.
NoOrphans == \A s \in Squads : squads[s] = NoRow => groupRows[s] = {} /\ projectRows[s] = {}

\* An edit that was accepted is in force until the next one is: no concurrent
\* edit removes the groups it inserted, of a squad or of a role.
AcceptedIsInForce ==
    /\ \A s \in Squads : givenGroups[s] \subseteq LdapGroups(s)
    /\ \A role \in Roles : givenRole[role] \subseteq Values(roleRows[role])

\* Every session a caller can have.
Sessions == UNION {build_session(groups, requested) :
                     groups \in SUBSET Groups, requested \in Squads \union {NoRow}}

\* smart_tools_for says that the interface offers exactly what is not refused:
\* in every session of every reachable configuration, the tools offered are
\* those authorize lets through for some arguments.
OfferedIsGranted == \A session \in Sessions, llm \in BOOLEAN :
    session_info(session, llm) =
        {name \in Tools : \E project \in Projects \union {NoProject}, rooted \in BOOLEAN :
                             authorize(session, llm, name, project, rooted)}

\* A composite tool reaches nothing its caller could not call directly on the
\* same project: the calls its handler makes would each be let through.
SmartNeverWidens ==
    \A session \in Sessions, name \in SmartTools, project \in Projects \union {NoProject} :
        authorize(session, TRUE, name, project, FALSE) =>
            \A tool \in HandlerCalls[name] : authorize(session, FALSE, tool, project, FALSE)

=============================================================================
