---------------------------- MODULE GraphStates ----------------------------
(***************************************************************************)
(* The workflow graph and the closed-form effect of its traversal:         *)
(* api/dify_graph/graph_engine/graph_state_manager.py and the packages     *)
(* graph_traversal/ and graph/.  Everything here is a constant operator of *)
(* an edge-state function es, so the module serves both GraphEngine (one   *)
(* fixed graph) and GraphTraversal (every small graph).                    *)
(*                                                                         *)
(* The code computes these sets by walking lists and by recursion; module  *)
(* GraphTraversal holds that walk and checks that it ends in exactly the   *)
(* states and with exactly the ready nodes defined here.                   *)
(***************************************************************************)
CONSTANTS
    Nodes,   \* node identifiers
    Edges,   \* edge identifiers
    tail,    \* [Edges -> Nodes], Edge.tail
    head,    \* [Edges -> Nodes], Edge.head
    handle   \* [Edges -> handles], Edge.source_handle

State == {"unknown", "taken", "skipped"}

get_incoming_edges(n) == {e \in Edges : head[e] = n}
get_outgoing_edges(n) == {e \in Edges : tail[e] = n}

HasUnknown(es, n) == \E e \in get_incoming_edges(n) : es[e] = "unknown"
HasTaken(es, n)   == \E e \in get_incoming_edges(n) : es[e] = "taken"

(* Mutant of is_node_ready: a join starts with its first taken edge. *)
MutantReadyOnFirstTaken(es, n) == get_incoming_edges(n) = {} \/ HasTaken(es, n)

is_node_ready(es, n) ==
    \/ get_incoming_edges(n) = {}
    \/ ~HasUnknown(es, n) /\ HasTaken(es, n)

(* The selected half of categorize_branch_edges(n, h). *)
SelectedEdges(n, h) == {e \in get_outgoing_edges(n) : handle[e] = h}

(* S contains every node whose incoming edges (there is at least one) are  *)
(* all skipped or come from S.                                             *)
ClosedUnderSkip(es, S) ==
    \A n \in Nodes \ S :
        ~ /\ get_incoming_edges(n) # {}
          /\ \A e \in get_incoming_edges(n) : es[e] = "skipped" \/ tail[e] \in S

(* The nodes that the propagation has skipped when it comes to rest: the   *)
(* least set closed under the rule above, that is, those in every such set.*)
SkippedNodes(es) ==
    LET inner == {n \in Nodes : get_incoming_edges(n) # {}}
    IN  Nodes \ UNION {Nodes \ S : S \in {T \in SUBSET inner : ClosedUnderSkip(es, T)}}

(* Mutant of mark_edges_skipped: every edge into the head is skipped. *)
MutantSkipIntoHead(es, dropped) ==
    [e \in Edges |-> IF head[e] \in {head[d] : d \in dropped} THEN "skipped" ELSE es[e]]

mark_edges_skipped(es, dropped) ==
    [e \in Edges |-> IF e \in dropped THEN "skipped" ELSE es[e]]

(* Edge states once the edges of `dropped` are skipped and the skip has    *)
(* propagated.                                                             *)
skip_branch_paths(es, dropped) ==
    LET marked  == mark_edges_skipped(es, dropped)
        skipped == SkippedNodes(marked)
    IN  [e \in Edges |-> IF tail[e] \in skipped THEN "skipped" ELSE marked[e]]

(* The nodes that the skip propagation itself enqueues: the last unknown   *)
(* incoming edge became skipped, and another one had been taken.           *)
WokenBySkip(es, dropped) ==
    LET es2 == skip_branch_paths(es, dropped)
    IN  {n \in Nodes : /\ \E e \in get_incoming_edges(n) : es[e] # "skipped" /\ es2[e] = "skipped"
                       /\ ~HasUnknown(es2, n)
                       /\ HasTaken(es2, n)}

(* Edge states after the edges of `chosen` are marked taken. *)
mark_edges_taken(es, chosen) ==
    [e \in Edges |-> IF e \in chosen THEN "taken" ELSE es[e]]

(* The completion of a node: `dropped` are skipped first, then `chosen`    *)
(* are taken; the nodes returned as ready are heads of chosen edges.       *)
EdgesAfter(es, dropped, chosen) == mark_edges_taken(skip_branch_paths(es, dropped), chosen)

ReadyAfter(es, dropped, chosen) ==
    {n \in {head[e] : e \in chosen} : is_node_ready(EdgesAfter(es, dropped, chosen), n)}

(* The nodes of S and every node a path from S leads to. *)
Downstream(S) ==
    {n \in Nodes : \A T \in SUBSET Nodes :
        S \subseteq T /\ (\A e \in Edges : tail[e] \in T => head[e] \in T) => n \in T}
=============================================================================
