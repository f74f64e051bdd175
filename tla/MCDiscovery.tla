---------------------------- MODULE MCDiscovery ----------------------------
(***************************************************************************)
(* TLC instance of Discovery: a connector that excludes one repository by  *)
(* its short name, and one listed by links.                                *)
(***************************************************************************)
EXTENDS Discovery

CONSTANTS a, b, r1, r2, s1, s2, any, legacy

MCConnectors == <<a, b>>
MCKind == [c \in {a, b} |-> IF c = a THEN "github" ELSE "bitbucket"]
MCListed == [c \in {a, b} |-> <<r1>>]
MCShort == [r \in {r1, r2} |-> IF r = r1 THEN s1 ELSE s2]
MCInclude == [c \in {a, b} |-> {any}]
MCExclude == [c \in {a, b} |-> IF c = a THEN {} ELSE {legacy}]
MCMatches == {<<any, s1>>, <<any, s2>>, <<legacy, s2>>}
MCDefault == <<"main">>
OneBranch == {<<"main">>}
MCBranches == {<<"main">>, <<"feature", "main">>, <<"dev">>}
=============================================================================
