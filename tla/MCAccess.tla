------------------------------ MODULE MCAccess ------------------------------
(***************************************************************************)
(* Instances of Access for TLC.  Squads, groups, projects and              *)
(* administrators are symmetric: no action and no property tells them      *)
(* apart.                                                                  *)
(***************************************************************************)
EXTENDS Access, TLC

\* A pattern for each project, and squads of one pattern.
PatternPerProject == {{project} : project \in Projects}
OnePatternLists == {{pattern} : pattern \in PatternPerProject}

\* A squad restricted in every column, and an open one that is disabled.
Restricted == [profile |-> "all", structural |-> TRUE, enabled |-> TRUE,
               denied |-> {"detect_changes"}]
Off == [profile |-> "analysis", structural |-> FALSE, enabled |-> FALSE, denied |-> {}]
TwoSettings == {Restricted, Off}

Symmetry == Permutations(Squads) \union Permutations(Groups)
                \union Permutations(Projects) \union Permutations(Admins)
=============================================================================
