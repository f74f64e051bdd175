---------------------------- MODULE AccessProofs ----------------------------
(***************************************************************************)
(* What holds of Access for any squads, groups, patterns, settings, roles  *)
(* and any number of administrators at work at once.                       *)
(*                                                                         *)
(* One inductive invariant, IInv, carries every property: the constraints  *)
(* of the tables keep rows apart at each commit, and what an open          *)
(* transaction may still insert was checked not to be empty when it began. *)
(***************************************************************************)
EXTENDS Access, TLAPS

\* What an open upsert will insert is not empty: a squad it commits has
\* groups and patterns.
Asks == \A a \in Admins : tx[a].at \in {"tenant checked", "tenant written"} =>
            tx[a].groups # {} /\ tx[a].patterns # {}

\* A squad has groups and patterns.
Filled == \A s \in Squads : squads[s] # NoRow => groupRows[s] # {} /\ projectRows[s] # {}

\* No two rows of a squad name the same group.
RowsUnique == \A s \in Squads : \A row, other \in groupRows[s] :
                  row[1] = other[1] => row = other

IInv ==
    /\ TypeOK
    /\ OneSquadPerGroup
    /\ NoOrphans
    /\ AcceptedIsInForce
    /\ Asks
    /\ Filled
    /\ RowsUnique

-----------------------------------------------------------------------------
(* The values of rows.                                                     *)

\* Fewer rows have fewer values.
LEMMA ValuesMonotone ==
    ASSUME NEW rows, NEW more, rows \subseteq more
    PROVE  Values(rows) \subseteq Values(more)
BY DEF Values

\* Rows inserted by an edit have the values inserted.
LEMMA ValuesInserted ==
    ASSUME NEW values, edits \in Nat
    PROVE  Values(Inserted(values)) = values
<1>1. ASSUME NEW v \in values
      PROVE  v \in Values(Inserted(values))
  <2>1. <<v, edits + 1>> \in Inserted(values)
    BY <1>1 DEF Inserted
  <2> QED
    BY <2>1 DEF Values
<1>2. ASSUME NEW v \in Values(Inserted(values))
      PROVE  v \in values
  BY <1>2 DEF Values, Inserted
<1> QED
  BY <1>1, <1>2

\* The values of a table after an edit has inserted rows.
LEMMA ValuesExtended ==
    ASSUME NEW rows, NEW values, edits \in Nat
    PROVE  Values(rows \union Inserted(values)) = Values(rows) \union values
<1>1. Values(rows \union Inserted(values)) = Values(rows) \union Values(Inserted(values))
  BY DEF Values
<1> QED
  BY <1>1, ValuesInserted

\* The kinds of transaction, told apart by the step they have reached.
LEMMA Kinds ==
    ASSUME TypeOK, NEW a \in Admins
    PROVE  /\ tx[a].at \in {"tenant checked", "tenant written"} => tx[a] \in Upserts
           /\ tx[a].at = "tenant found" => tx[a] \in Deletes
           /\ tx[a].at = "role written" => tx[a] \in RoleSets
<1>1. tx[a] \in {Idle} \union Upserts \union Deletes \union RoleSets
  BY DEF TypeOK
<1>2. CASE tx[a] = Idle
  BY <1>2 DEF Idle
<1>3. CASE tx[a] \in Upserts
  BY <1>3 DEF Upserts
<1>4. CASE tx[a] \in Deletes
  BY <1>4 DEF Deletes
<1>5. CASE tx[a] \in RoleSets
  BY <1>5 DEF RoleSets
<1> QED
  BY <1>1, <1>2, <1>3, <1>4, <1>5

\* An update writes a row of the table's type.
LEMMA UpdatedSettingsType ==
    ASSUME TypeOK, NEW t \in Upserts, SameRow(t)
    PROVE  UpdatedSettings(t) \in SettingRows
<1>1. t.settings \in SettingRows /\ t.squad \in Squads
  BY DEF Upserts
<1>2. CASE t.found = NoRow
  <2>1. UpdatedSettings(t) = [c \in DOMAIN t.settings |-> t.settings[c]]
    BY <1>2 DEF UpdatedSettings
  <2> QED
    BY <1>1, <2>1 DEF SettingRows
<1>3. CASE t.found # NoRow
  <2>1. squads[t.squad] \in SquadRows
    BY <1>1, <1>3 DEF SameRow, TypeOK
  <2>2. squads[t.squad].settings \in SettingRows
    BY <2>1 DEF SquadRows
  <2>3. DOMAIN t.settings = {"profile", "structural", "enabled", "denied"}
    BY <1>1 DEF SettingRows
  <2> QED
    BY <1>1, <2>2, <2>3 DEF UpdatedSettings, SettingRows
<1> QED
  BY <1>2, <1>3

-----------------------------------------------------------------------------
(* IInv is inductive.                                                      *)

\* Every part of the invariant but the transactions' is about the tables, so a
\* step that leaves them alone has only its transaction to answer for.
LEMMA TablesKept ==
    ASSUME IInv, UNCHANGED tableVars,
           tx' \in [Admins -> {Idle} \union Upserts \union Deletes \union RoleSets],
           Asks'
    PROVE  IInv'
<1>1. TypeOK'
  BY DEF IInv, TypeOK, tableVars
<1>2. OneSquadPerGroup' /\ NoOrphans'
  BY DEF IInv, OneSquadPerGroup, NoOrphans, LdapGroups, Values, tableVars
<1>3. AcceptedIsInForce'
  BY DEF IInv, AcceptedIsInForce, LdapGroups, Values, tableVars
<1>4. Filled' /\ RowsUnique'
  BY DEF IInv, Filled, RowsUnique, tableVars
<1> QED
  BY <1>1, <1>2, <1>3, <1>4 DEF IInv

\* A migrated database satisfies the invariant.
LEMMA InitIInv == Init => IInv
<1> SUFFICES ASSUME Init PROVE IInv
  OBVIOUS
<1>1. TypeOK
  BY AccessAssumption DEF Init, TypeOK, Ids
<1>2. OneSquadPerGroup /\ NoOrphans /\ AcceptedIsInForce
  BY DEF Init, OneSquadPerGroup, NoOrphans, AcceptedIsInForce, LdapGroups, Values
<1>3. Asks /\ Filled /\ RowsUnique
  BY DEF Init, Asks, Filled, RowsUnique, Idle
<1> QED
  BY <1>1, <1>2, <1>3 DEF IInv

\* The steps that only open, advance or abandon a transaction.
LEMMA OpenSteps ==
    ASSUME IInv, NEW a \in Admins,
           \/ \E s \in Squads, groups \in SUBSET Groups, patterns \in PatternLists,
                 settings \in Settings : upsert_tenant(a, s, groups, patterns, settings)
           \/ WriteTenant(a)
           \/ \E s \in Squads : delete_tenant(a, s)
           \/ \E role \in EditRoles, groups \in SUBSET Groups : set_role_groups(a, role, groups)
           \/ Rollback(a)
    PROVE  IInv'
<1> USE DEF IInv
<1>1. ASSUME NEW s \in Squads, NEW groups \in SUBSET Groups, NEW patterns \in PatternLists,
             NEW settings \in Settings, upsert_tenant(a, s, groups, patterns, settings)
      PROVE  IInv'
  <2> DEFINE t == [at |-> "tenant checked", squad |-> s, found |-> squads[s],
                   groups |-> groups, patterns |-> patterns, settings |-> settings,
                   goneGroups |-> {}, gonePatterns |-> {}]
  <2>1. tx' = [tx EXCEPT ![a] = t] /\ UNCHANGED tableVars /\ groups # {} /\ patterns # {}
    BY <1>1 DEF upsert_tenant
  <2>2. t \in Upserts
    BY AccessAssumption DEF Upserts, TypeOK
  <2>3. tx' \in [Admins -> {Idle} \union Upserts \union Deletes \union RoleSets]
    BY <2>1, <2>2 DEF TypeOK
  <2>4. Asks'
    BY <2>1 DEF Asks, TypeOK
  <2> QED
    BY <2>1, <2>3, <2>4, TablesKept
<1>2. ASSUME WriteTenant(a) PROVE IInv'
  <2>1. tx[a] \in Upserts
    BY <1>2, Kinds DEF WriteTenant
  <2> DEFINE t == [tx[a] EXCEPT !.at = "tenant written", !.goneGroups = groupRows[tx[a].squad],
                                !.gonePatterns = projectRows[tx[a].squad]]
  <2>2. tx' = [tx EXCEPT ![a] = t] /\ UNCHANGED tableVars
    BY <1>2 DEF WriteTenant, TypeOK
  <2>3. t \in Upserts /\ t.groups = tx[a].groups /\ t.patterns = tx[a].patterns
    BY <2>1 DEF Upserts, TypeOK
  <2>4. tx' \in [Admins -> {Idle} \union Upserts \union Deletes \union RoleSets]
    BY <2>2, <2>3 DEF TypeOK
  <2>5. tx[a].groups # {} /\ tx[a].patterns # {}
    BY <1>2 DEF WriteTenant, Asks
  <2>6. Asks'
    BY <2>2, <2>3, <2>5 DEF Asks, TypeOK
  <2> QED
    BY <2>2, <2>4, <2>6, TablesKept
<1>3. ASSUME NEW s \in Squads, delete_tenant(a, s) PROVE IInv'
  <2> DEFINE t == [at |-> "tenant found", squad |-> s, found |-> squads[s]]
  <2>1. tx' = [tx EXCEPT ![a] = t] /\ UNCHANGED tableVars
    BY <1>3 DEF delete_tenant
  <2>2. t \in Deletes
    BY <1>3 DEF delete_tenant, Deletes, TypeOK
  <2>3. tx' \in [Admins -> {Idle} \union Upserts \union Deletes \union RoleSets]
    BY <2>1, <2>2 DEF TypeOK
  <2>4. Asks'
    BY <2>1 DEF Asks, TypeOK
  <2> QED
    BY <2>1, <2>3, <2>4, TablesKept
<1>4. ASSUME NEW role \in EditRoles, NEW groups \in SUBSET Groups, set_role_groups(a, role, groups)
      PROVE  IInv'
  <2> DEFINE t == [at |-> "role written", role |-> role, groups |-> groups,
                   gone |-> roleRows[role]]
  <2>1. tx' = [tx EXCEPT ![a] = t] /\ UNCHANGED tableVars
    BY <1>4 DEF set_role_groups
  <2>2. t \in RoleSets
    BY AccessAssumption DEF RoleSets, TypeOK
  <2>3. tx' \in [Admins -> {Idle} \union Upserts \union Deletes \union RoleSets]
    BY <2>1, <2>2 DEF TypeOK
  <2>4. Asks'
    BY <2>1 DEF Asks, TypeOK
  <2> QED
    BY <2>1, <2>3, <2>4, TablesKept
<1>5. ASSUME Rollback(a) PROVE IInv'
  <2>1. tx' = [tx EXCEPT ![a] = Idle] /\ UNCHANGED tableVars
    BY <1>5 DEF Rollback
  <2>2. tx' \in [Admins -> {Idle} \union Upserts \union Deletes \union RoleSets] /\ Asks'
    BY <2>1 DEF TypeOK, Asks, Idle
  <2> QED
    BY <2>1, <2>2, TablesKept
<1> QED
  BY <1>1, <1>2, <1>3, <1>4, <1>5

\* A commit ends its transaction: the others keep what they ask for.
LEMMA CommitEnds ==
    ASSUME IInv, NEW a \in Admins, tx' = [tx EXCEPT ![a] = Idle]
    PROVE  /\ tx' \in [Admins -> {Idle} \union Upserts \union Deletes \union RoleSets]
           /\ Asks'
BY DEF IInv, TypeOK, Asks, Idle

\* The commit of an upsert.  The groups it inserts belong to no other squad and
\* to no remaining row of its own: the unique constraint has seen both.
LEMMA CommitTenantStep ==
    ASSUME IInv, NEW a \in Admins, CommitTenant(a)
    PROVE  IInv'
<1> DEFINE t == tx[a]
           s == t.squad
           kept == groupRows[s] \ t.goneGroups
<1>1. t \in Upserts /\ t.groups # {} /\ t.patterns # {}
  BY Kinds DEF IInv, CommitTenant, Asks
<1>2. s \in Squads /\ t.groups \subseteq Groups /\ t.patterns \subseteq Patterns
  BY <1>1 DEF Upserts
<1>bound. edits \in Nat /\ edits + 1 \in Ids
  <2>1. edits \in Ids /\ edits < MaxEdits
    BY DEF IInv, TypeOK, CommitTenant
  <2> QED
    BY <2>1, AccessAssumption DEF Ids
<1>3. /\ edits' = edits + 1
      /\ groupRows' = [groupRows EXCEPT ![s] = kept \union Inserted(t.groups)]
      /\ projectRows' = [projectRows EXCEPT ![s] =
                           (projectRows[s] \ t.gonePatterns) \union Inserted(t.patterns)]
      /\ givenGroups' = [givenGroups EXCEPT ![s] = t.groups]
      /\ tx' = [tx EXCEPT ![a] = Idle]
      /\ UNCHANGED <<roleRows, givenRole>>
  BY DEF CommitTenant
<1>4. /\ squads' \in [Squads -> SquadRows \union {NoRow}]
      /\ squads'[s] \in SquadRows
      /\ \A u \in Squads \ {s} : squads'[u] = squads[u]
  <2>1. SameRow(t)
    BY DEF CommitTenant, TenantStillThere
  <2>2. CASE Writes(t)
    <3> DEFINE row == [id |-> IF t.found = NoRow THEN edits + 1 ELSE t.found.id,
                       settings |-> UpdatedSettings(t)]
    <3>1. squads' = [squads EXCEPT ![s] = row]
      BY <2>2 DEF CommitTenant
    <3>2. t.found # NoRow => t.found \in SquadRows
      BY <1>1 DEF Upserts
    <3>3. row.id \in Ids
      BY <1>bound, <3>2 DEF SquadRows
    <3>4. UpdatedSettings(t) \in SettingRows
      BY <1>1, <2>1, UpdatedSettingsType DEF IInv
    <3>5. row \in SquadRows
      BY <3>3, <3>4 DEF SquadRows
    <3> QED
      BY <1>2, <3>1, <3>5 DEF IInv, TypeOK
  <2>3. CASE ~Writes(t)
    <3>1. t.found # NoRow
      BY <2>3 DEF Writes
    <3>2. squads[s] \in SquadRows
      BY <1>2, <2>1, <3>1 DEF SameRow, IInv, TypeOK
    <3>3. squads' = squads
      BY <1>2, <2>3 DEF CommitTenant, IInv, TypeOK
    <3> QED
      BY <3>2, <3>3 DEF IInv, TypeOK
  <2> QED
    BY <2>2, <2>3
<1>5. TypeOK'
  <2>1. Inserted(t.groups) \subseteq Groups \X Ids /\ Inserted(t.patterns) \subseteq Patterns \X Ids
    BY <1>2, <1>bound DEF Inserted
  <2>2. groupRows' \in [Squads -> SUBSET (Groups \X Ids)]
    BY <1>2, <1>3, <2>1 DEF IInv, TypeOK
  <2>3. projectRows' \in [Squads -> SUBSET (Patterns \X Ids)]
    BY <1>2, <1>3, <2>1 DEF IInv, TypeOK
  <2>4. givenGroups' \in [Squads -> SUBSET Groups]
    BY <1>2, <1>3 DEF IInv, TypeOK
  <2> QED
    BY <1>bound, <1>3, <1>4, <2>2, <2>3, <2>4, CommitEnds DEF IInv, TypeOK
<1>6. /\ Values(groupRows'[s]) = Values(kept) \union t.groups
      /\ \A u \in Squads \ {s} : groupRows'[u] = groupRows[u] /\ projectRows'[u] = projectRows[u]
  <2>1. groupRows'[s] = kept \union Inserted(t.groups)
    BY <1>2, <1>3 DEF IInv, TypeOK
  <2>2. Values(kept \union Inserted(t.groups)) = Values(kept) \union t.groups
    BY <1>bound, ValuesExtended
  <2> QED
    BY <1>3, <2>1, <2>2 DEF IInv, TypeOK
<1>7. /\ Values(kept) \intersect t.groups = {}
      /\ \A u \in Squads \ {s} : Values(groupRows[u]) \intersect t.groups = {}
  BY <1>2 DEF CommitTenant, uq_tenant_ldap_group
<1>8. OneSquadPerGroup'
  <2>1. \A u \in Squads \ {s} : Values(kept) \intersect Values(groupRows[u]) = {}
    <3>1. Values(kept) \subseteq Values(groupRows[s])
      BY ValuesMonotone
    <3> QED
      BY <1>2, <3>1 DEF IInv, OneSquadPerGroup, LdapGroups
  <2>2. \A u \in Squads \ {s} : Values(groupRows'[s]) \intersect Values(groupRows'[u]) = {}
    BY <1>6, <1>7, <2>1
  <2>3. \A u, v \in Squads \ {s} : u # v => Values(groupRows'[u]) \intersect Values(groupRows'[v]) = {}
    BY <1>6 DEF IInv, OneSquadPerGroup, LdapGroups
  <2>4. \A u, v \in Squads : u # v => Values(groupRows'[u]) \intersect Values(groupRows'[v]) = {}
    BY <2>2, <2>3
  <2> QED
    BY <2>4 DEF OneSquadPerGroup, LdapGroups, Values
<1>9. NoOrphans'
  BY <1>4, <1>6, NoRowAssumption DEF IInv, NoOrphans
<1>10. AcceptedIsInForce'
  <2>1. \A u \in Squads : givenGroups'[u] \subseteq Values(groupRows'[u])
    BY <1>2, <1>3, <1>6 DEF IInv, TypeOK, AcceptedIsInForce, LdapGroups
  <2>2. \A role \in Roles : givenRole'[role] \subseteq Values(roleRows'[role])
    BY <1>3 DEF IInv, AcceptedIsInForce
  <2> QED
    BY <2>1, <2>2 DEF AcceptedIsInForce, LdapGroups, Values
<1>11. Filled'
  <2>1. Inserted(t.groups) # {} /\ Inserted(t.patterns) # {}
    <3>1. PICK g \in t.groups, pattern \in t.patterns : TRUE
      BY <1>1
    <3>2. <<g, edits + 1>> \in Inserted(t.groups) /\ <<pattern, edits + 1>> \in Inserted(t.patterns)
      BY <3>1 DEF Inserted
    <3> QED
      BY <3>2
  <2>2. groupRows'[s] # {} /\ projectRows'[s] # {}
    BY <1>2, <1>3, <2>1 DEF IInv, TypeOK
  <2> QED
    BY <1>4, <1>6, <2>2 DEF IInv, Filled
<1>12. RowsUnique'
  <2>1. ASSUME NEW row \in groupRows'[s], NEW other \in groupRows'[s], row[1] = other[1]
        PROVE  row = other
    <3>1. row \in kept \union Inserted(t.groups) /\ other \in kept \union Inserted(t.groups)
      BY <1>2, <1>3, <2>1 DEF IInv, TypeOK
    <3>2. \A r \in kept : r[1] \notin t.groups
      BY <1>7 DEF Values
    <3>3. \A r \in Inserted(t.groups) : r[1] \in t.groups /\ r = <<r[1], edits + 1>>
      BY DEF Inserted
    <3>4. CASE row \in kept /\ other \in kept
      BY <1>2, <2>1, <3>4 DEF IInv, RowsUnique
    <3>5. CASE row \in Inserted(t.groups) /\ other \in Inserted(t.groups)
      BY <2>1, <3>3, <3>5
    <3> QED
      BY <2>1, <3>1, <3>2, <3>3, <3>4, <3>5
  <2> QED
    BY <1>6, <2>1 DEF IInv, RowsUnique
<1> QED
  BY <1>3, <1>5, <1>8, <1>9, <1>10, <1>11, <1>12, CommitEnds DEF IInv

\* The commit of a deletion: the squad's rows go with it, or nothing changes.
LEMMA CommitDeleteStep ==
    ASSUME IInv, NEW a \in Admins, CommitDelete(a)
    PROVE  IInv'
<1> DEFINE s == tx[a].squad
<1>1. tx' = [tx EXCEPT ![a] = Idle] /\ UNCHANGED <<roleRows, givenRole>>
  BY DEF CommitDelete
<1>2. CASE ~SameRow(tx[a])
  <2>1. UNCHANGED tableVars
    BY <1>1, <1>2 DEF CommitDelete, tableVars
  <2> QED
    BY <1>1, <2>1, CommitEnds, TablesKept
<1>3. CASE SameRow(tx[a])
  <2>1. s \in Squads
    <3>1. tx[a] \in Deletes
      BY Kinds DEF IInv, CommitDelete
    <3> QED
      BY <3>1 DEF Deletes
  <2>2. edits \in Ids /\ edits < MaxEdits
    BY <1>3 DEF CommitDelete, IInv, TypeOK
  <2>3. edits + 1 \in Ids
    BY <2>2, AccessAssumption DEF Ids
  <2>4. /\ edits' = edits + 1
        /\ squads' = [squads EXCEPT ![s] = NoRow]
        /\ groupRows' = [groupRows EXCEPT ![s] = {}]
        /\ projectRows' = [projectRows EXCEPT ![s] = {}]
        /\ givenGroups' = [givenGroups EXCEPT ![s] = {}]
    BY <1>3 DEF CommitDelete
  <2>5. TypeOK'
    BY <1>1, <2>1, <2>3, <2>4, CommitEnds DEF IInv, TypeOK
  <2>6. /\ squads'[s] = NoRow /\ groupRows'[s] = {} /\ projectRows'[s] = {} /\ givenGroups'[s] = {}
        /\ \A u \in Squads \ {s} : /\ squads'[u] = squads[u] /\ groupRows'[u] = groupRows[u]
                                   /\ projectRows'[u] = projectRows[u]
                                   /\ givenGroups'[u] = givenGroups[u]
    BY <2>1, <2>4 DEF IInv, TypeOK
  <2>7. OneSquadPerGroup'
    <3>1. Values(groupRows'[s]) = {}
      BY <2>6 DEF Values
    <3>2. \A u, v \in Squads : u # v => Values(groupRows'[u]) \intersect Values(groupRows'[v]) = {}
      BY <2>6, <3>1 DEF IInv, OneSquadPerGroup, LdapGroups
    <3> QED
      BY <3>2 DEF OneSquadPerGroup, LdapGroups, Values
  <2>8. NoOrphans' /\ Filled' /\ RowsUnique'
    BY <2>6 DEF IInv, NoOrphans, Filled, RowsUnique
  <2>9. AcceptedIsInForce'
    <3>1. \A u \in Squads : givenGroups'[u] \subseteq Values(groupRows'[u])
      BY <2>6 DEF IInv, AcceptedIsInForce, LdapGroups
    <3>2. \A role \in Roles : givenRole'[role] \subseteq Values(roleRows'[role])
      BY <1>1 DEF IInv, AcceptedIsInForce
    <3> QED
      BY <3>1, <3>2 DEF AcceptedIsInForce, LdapGroups, Values
  <2> QED
    BY <1>1, <2>5, <2>7, <2>8, <2>9, CommitEnds DEF IInv
<1> QED
  BY <1>2, <1>3

\* The commit of a role's groups: every group given is among its rows.
LEMMA CommitRoleStep ==
    ASSUME IInv, NEW a \in Admins, CommitRole(a)
    PROVE  IInv'
<1> DEFINE t == tx[a]
           kept == roleRows[t.role] \ t.gone
<1>1. t.role \in Roles /\ t.groups \subseteq Groups
  <2>1. t \in RoleSets
    BY Kinds DEF IInv, CommitRole
  <2> QED
    BY <2>1 DEF RoleSets
<1>2. edits \in Nat /\ edits + 1 \in Ids
  <2>1. edits \in Ids /\ edits < MaxEdits
    BY DEF IInv, TypeOK, CommitRole
  <2> QED
    BY <2>1, AccessAssumption DEF Ids
<1>3. /\ edits' = edits + 1
      /\ roleRows' = [roleRows EXCEPT ![t.role] = kept \union Inserted(t.groups)]
      /\ givenRole' = [givenRole EXCEPT ![t.role] = t.groups]
      /\ tx' = [tx EXCEPT ![a] = Idle]
      /\ UNCHANGED <<squads, groupRows, projectRows, givenGroups>>
  BY DEF CommitRole
<1>4. TypeOK'
  <2>1. Inserted(t.groups) \subseteq Groups \X Ids
    BY <1>1, <1>2 DEF Inserted
  <2>2. roleRows' \in [Roles -> SUBSET (Groups \X Ids)] /\ givenRole' \in [Roles -> SUBSET Groups]
    BY <1>1, <1>3, <2>1 DEF IInv, TypeOK
  <2> QED
    BY <1>2, <1>3, <2>2, CommitEnds DEF IInv, TypeOK
<1>5. OneSquadPerGroup' /\ NoOrphans'
  BY <1>3 DEF IInv, OneSquadPerGroup, NoOrphans, LdapGroups, Values
<1>6. AcceptedIsInForce'
  <2>1. Values(kept \union Inserted(t.groups)) = Values(kept) \union t.groups
    BY <1>2, ValuesExtended
  <2>2. \A role \in Roles : givenRole'[role] \subseteq Values(roleRows'[role])
    BY <1>1, <1>3, <2>1 DEF IInv, TypeOK, AcceptedIsInForce
  <2>3. \A s \in Squads : givenGroups'[s] \subseteq Values(groupRows'[s])
    BY <1>3 DEF IInv, AcceptedIsInForce, LdapGroups
  <2> QED
    BY <2>2, <2>3 DEF AcceptedIsInForce, LdapGroups, Values
<1>7. Filled' /\ RowsUnique'
  BY <1>3 DEF IInv, Filled, RowsUnique
<1> QED
  BY <1>3, <1>4, <1>5, <1>6, <1>7, CommitEnds DEF IInv

\* No step of any administrator leaves the invariant.
LEMMA NextIInv == IInv /\ [Next]_vars => IInv'
<1> SUFFICES ASSUME IInv, [Next]_vars PROVE IInv'
  OBVIOUS
<1>1. CASE Next
  <2>1. PICK a \in Admins :
          \/ \E s \in Squads, groups \in SUBSET Groups, patterns \in PatternLists,
                settings \in Settings : upsert_tenant(a, s, groups, patterns, settings)
          \/ WriteTenant(a)
          \/ CommitTenant(a)
          \/ \E s \in Squads : delete_tenant(a, s)
          \/ CommitDelete(a)
          \/ \E role \in EditRoles, groups \in SUBSET Groups : set_role_groups(a, role, groups)
          \/ CommitRole(a)
          \/ Rollback(a)
    BY <1>1 DEF Next
  <2> QED
    BY <2>1, OpenSteps, CommitTenantStep, CommitDeleteStep, CommitRoleStep
<1>2. CASE UNCHANGED vars
  <2>1. UNCHANGED tableVars /\ tx' = tx
    BY <1>2 DEF vars, tableVars
  <2>2. tx' \in [Admins -> {Idle} \union Upserts \union Deletes \union RoleSets] /\ Asks'
    BY <2>1 DEF IInv, TypeOK, Asks
  <2> QED
    BY <2>1, <2>2, TablesKept
<1> QED
  BY <1>1, <1>2

\* The invariant holds throughout.
LEMMA Invariance == Spec => []IInv
BY InitIInv, NextIInv, PTL DEF Spec

\* A squad that is loaded has all from_dict asks for.
LEMMA IInvLoadable == IInv => Loadable
<1> SUFFICES ASSUME IInv PROVE from_dict
  BY DEF Loadable
<1>1. ASSUME NEW s \in Squads, Enabled(s)
      PROVE  squads[s].settings.profile \in DOMAIN PROFILES /\ groupRows[s] # {} /\ projectRows[s] # {}
  <2>1. squads[s] \in SquadRows
    BY <1>1 DEF Enabled, IInv, TypeOK
  <2>2. squads[s].settings \in SettingRows
    BY <2>1 DEF SquadRows
  <2> QED
    BY <1>1, <2>2 DEF SettingRows, IInv, Filled, Enabled
<1>2. ASSUME NEW s \in Squads, NEW u \in Squads, NEW row \in groupRows[s],
             NEW other \in groupRows[u], row[1] = other[1]
      PROVE  s = u /\ row = other
  <2>1. row[1] \in Values(groupRows[s]) /\ row[1] \in Values(groupRows[u])
    BY <1>2 DEF Values
  <2>2. s = u
    BY <2>1 DEF IInv, OneSquadPerGroup, LdapGroups
  <2> QED
    BY <1>2, <2>2 DEF IInv, RowsUnique
<1> QED
  BY <1>1, <1>2 DEF from_dict

-----------------------------------------------------------------------------
(* Decisions.                                                              *)

\* A session's engine tools are tools of the engine, and no composite tool is
\* one of them: the two branches of authorize never overlap.
LEMMA SessionTools ==
    ASSUME TypeOK, NEW session \in Sessions
    PROVE  session.effective_tools \subseteq PROFILES.all
<1>1. PICK groups \in SUBSET Groups, requested \in Squads \union {NoRow} :
        session \in build_session(groups, requested)
  BY DEF Sessions
<1>2. PICK s \in select_tenant(groups, requested) :
        session.effective_tools = effective_tools(s, resolve_role(groups))
  BY <1>1 DEF build_session
<1>3. s \in Squads /\ Enabled(s)
  BY <1>2 DEF select_tenant, for_groups
<1>4. squads[s].settings \in SettingRows
  <2>1. squads[s] \in SquadRows
    BY <1>3 DEF Enabled, TypeOK
  <2> QED
    BY <2>1 DEF SquadRows
<1>5. squads[s].settings.profile \in {"all", "analysis", "scout"}
  BY <1>4 DEF SettingRows, PROFILES
<1>6. PROFILES[squads[s].settings.profile] \subseteq PROFILES.all
  BY <1>5 DEF PROFILES, ANALYSIS_TOOLS
<1> QED
  BY <1>2, <1>6 DEF effective_tools, allowed_tools

\* Composite tools are named apart from the engine's.
LEMMA SmartApart == PROFILES.all \intersect SmartTools = {}
BY DEF PROFILES, ANALYSIS_TOOLS, SCOUT_TOOLS, WRITE_TOOLS, SmartTools, SMART_TOOL_REQUIREMENTS

\* What is offered is what is let through, in any tables of the right type.
LEMMA TypeOKOffered == TypeOK => OfferedIsGranted
<1> SUFFICES ASSUME TypeOK, NEW session \in Sessions, NEW llm \in BOOLEAN
             PROVE  session_info(session, llm) =
                      {name \in Tools :
                         \E project \in Projects \union {NoProject}, rooted \in BOOLEAN :
                            authorize(session, llm, name, project, rooted)}
  BY DEF OfferedIsGranted
<1>1. session.effective_tools \subseteq PROFILES.all
  BY SessionTools
<1>2. ASSUME NEW name \in session_info(session, llm)
      PROVE  name \in Tools /\ authorize(session, llm, name, NoProject, TRUE)
  <2>1. CASE name \in session.effective_tools
    BY <1>1, <2>1, SmartApart DEF authorize, Tools
  <2>2. CASE name \in smart_tools_for(session, llm)
    <3>1. name \in SmartTools /\ name # "index_repository"
      BY <2>2, SmartApart DEF smart_tools_for, PROFILES, WRITE_TOOLS
    <3> QED
      BY <2>2, <3>1 DEF smart_tools_for, authorize, Tools
  <2> QED
    BY <1>2, <2>1, <2>2 DEF session_info
<1>3. ASSUME NEW name \in Tools, NEW project, NEW rooted,
             authorize(session, llm, name, project, rooted)
      PROVE  name \in session_info(session, llm)
  BY <1>3 DEF authorize, session_info, smart_tools_for
<1> QED
  BY <1>2, <1>3

\* The calls a composite tool makes are its requirements, on its own project.
LEMMA TypeOKSmart == TypeOK => SmartNeverWidens
<1> SUFFICES ASSUME TypeOK, NEW session \in Sessions, NEW name \in SmartTools,
                    NEW project \in Projects \union {NoProject},
                    authorize(session, TRUE, name, project, FALSE),
                    NEW tool \in HandlerCalls[name]
             PROVE  authorize(session, FALSE, tool, project, FALSE)
  BY DEF SmartNeverWidens
<1>1. name \in {"explain_change_impact", "ask_codebase"}
  BY DEF SmartTools, SMART_TOOL_REQUIREMENTS
<1>2. tool \in SMART_TOOL_REQUIREMENTS[name]
  BY <1>1 DEF HandlerCalls, SMART_TOOL_REQUIREMENTS
<1>3. tool \in session.effective_tools
  BY <1>2 DEF authorize
<1>4. tool \notin SmartTools
  BY <1>3, SessionTools, SmartApart
<1>5. name \in PROJECT_ARG_TOOLS
  BY DEF PROJECT_ARG_TOOLS
<1>6. tool # "index_repository"
  BY <1>1 DEF HandlerCalls
<1> QED
  BY <1>3, <1>4, <1>5, <1>6 DEF authorize

-----------------------------------------------------------------------------
(* The theorems.                                                           *)

\* The tables and the open transactions keep their types.
THEOREM TypeCorrect == Spec => []TypeOK
<1>1. IInv => TypeOK
  BY DEF IInv
<1> QED
  BY <1>1, Invariance, PTL

\* No interleaving of any number of edits maps a directory group to two squads.
THEOREM GroupHasOneSquad == Spec => []OneSquadPerGroup
<1>1. IInv => OneSquadPerGroup
  BY DEF IInv
<1> QED
  BY <1>1, Invariance, PTL

\* Every configuration administrators can commit is accepted by from_dict.
THEOREM ConfigurationLoads == Spec => []Loadable
BY IInvLoadable, Invariance, PTL

\* A deleted squad has no rows, whoever was editing it when it was deleted.
THEOREM DeletedHasNothing == Spec => []NoOrphans
<1>1. IInv => NoOrphans
  BY DEF IInv
<1> QED
  BY <1>1, Invariance, PTL

\* No edit takes away what the last accepted edit of a squad or role granted.
THEOREM EditsStay == Spec => []AcceptedIsInForce
<1>1. IInv => AcceptedIsInForce
  BY DEF IInv
<1> QED
  BY <1>1, Invariance, PTL

\* In every reachable configuration and for every caller, the tools offered
\* are the tools let through.
THEOREM OffersAreGrants == Spec => []OfferedIsGranted
BY TypeOKOffered, TypeCorrect, PTL

\* In every reachable configuration no composite tool widens its caller's reach.
THEOREM NoWidening == Spec => []SmartNeverWidens
BY TypeOKSmart, TypeCorrect, PTL

=============================================================================
