---------------------------- MODULE ProjectIndex ----------------------------
(***************************************************************************)
(* What the indexing queue promises whoever reads its graphs, without      *)
(* queue, locks, workers or git: a project is indexed in passes that never *)
(* overlap; a pass replaces the graph at most once, by a published commit; *)
(* the index epoch moves only at the end of a pass that has replaced the   *)
(* graph, and covers that graph; nothing else touches either.              *)
(***************************************************************************)
EXTENDS Naturals

CONSTANT Projects

VARIABLES
    head,     \* per project: the newest published commit
    passing,  \* per project: "none", "open" or "replaced"
    graph,    \* per project: the commit its graph was built from, 0: none
    covered   \* per project: the graph the index epoch stands for

vars == <<head, passing, graph, covered>>

Init ==
    /\ head = [p \in Projects |-> 1]
    /\ passing = [p \in Projects |-> "none"]
    /\ graph = [p \in Projects |-> 0]
    /\ covered = [p \in Projects |-> 0]

Publish(p) ==
    /\ head' = [head EXCEPT ![p] = @ + 1]
    /\ UNCHANGED <<passing, graph, covered>>

Begin(p) ==
    /\ passing[p] = "none"
    /\ passing' = [passing EXCEPT ![p] = "open"]
    /\ UNCHANGED <<head, graph, covered>>

Replace(p) ==
    /\ passing[p] = "open"
    /\ passing' = [passing EXCEPT ![p] = "replaced"]
    /\ \E c \in 1..head[p] : graph' = [graph EXCEPT ![p] = c]
    /\ UNCHANGED <<head, covered>>

Record(p) ==
    /\ passing[p] = "replaced"
    /\ passing' = [passing EXCEPT ![p] = "none"]
    /\ covered' = [covered EXCEPT ![p] = graph[p]]
    /\ UNCHANGED <<head, graph>>

\* A pass that fails, in whatever state.
Abandon(p) ==
    /\ passing[p] # "none"
    /\ passing' = [passing EXCEPT ![p] = "none"]
    /\ UNCHANGED <<head, graph, covered>>

Crash ==
    /\ passing' = [p \in Projects |-> "none"]
    /\ UNCHANGED <<head, graph, covered>>

Next ==
    \/ \E p \in Projects :
          Publish(p) \/ Begin(p) \/ Replace(p) \/ Record(p) \/ Abandon(p)
    \/ Crash

Spec == Init /\ [][Next]_vars
=============================================================================
