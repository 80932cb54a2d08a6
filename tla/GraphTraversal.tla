--------------------------- MODULE GraphTraversal ---------------------------
(***************************************************************************)
(* The traversal code itself, edge by edge in the order of its recursion:  *)
(* EdgeProcessor, SkipPropagator, the node and edge operations of          *)
(* GraphStateManager and Graph._mark_inactive_root_branches.               *)
(*                                                                         *)
(* Every acyclic graph over N nodes is explored: the graph is picked in    *)
(* Init and never changes.  Nodes complete in any order the ready queue    *)
(* allows (the order the worker threads finish in), a branch node with any *)
(* handle.  An edge is <<tail, head, source_handle>>, so two handles of a  *)
(* branch may lead to the same node.                                       *)
(*                                                                         *)
(* A loop is a function of its turns.  The recursion is a loop over the    *)
(* edges that the calls in progress have still to visit, innermost first:  *)
(* a call puts its edges in front.  Each turn decides an edge, so that as  *)
(* many turns as there are edges are enough (GraphTraversal_proofs).       *)
(***************************************************************************)
EXTENDS Naturals, SequencesExt

CONSTANTS N,          \* number of nodes; node 1 is the active root
          HandleCount \* source handles of a branch node are 1..HandleCount

ASSUME TraversalConstants == N \in Nat \ {0} /\ HandleCount \in Nat \ {0}

VARIABLES
    edges,   \* the edges of the graph
    branch,  \* nodes whose execution_type is BRANCH
    roots,   \* nodes whose execution_type is ROOT
    st,      \* [ns: node states, es: edge states, queue: ready queue]
    done     \* nodes whose completion was handled (history)

vars == <<edges, branch, roots, st, done>>

AllNodes == 1 .. N
Handles == 1 .. HandleCount
EdgeIds == {e \in AllNodes \X AllNodes \X Handles : e[1] < e[2]}

G == INSTANCE GraphStates WITH
        Nodes <- AllNodes, Edges <- edges,
        tail <- [e \in edges |-> e[1]],
        head <- [e \in edges |-> e[2]],
        handle <- [e \in edges |-> e[3]]

(* The edges of S in some fixed order. *)
EdgeList(S) == SetToSeq(S)
Outgoing(n) == EdgeList(G!get_outgoing_edges(n))

-----------------------------------------------------------------------------
(* GraphStateManager *)

enqueue_node(s, n) == [s EXCEPT !.ns[n] = "taken", !.queue = Append(@, n)]
mark_node_skipped(s, n) == [s EXCEPT !.ns[n] = "skipped"]
mark_edge_taken(s, e) == [s EXCEPT !.es[e] = "taken"]
mark_edge_skipped(s, e) == [s EXCEPT !.es[e] = "skipped"]

(* analyze_edge_states: the states of the edges that lead to n. *)
IncomingStates(s, n) == {s.es[e] : e \in G!get_incoming_edges(n)}

-----------------------------------------------------------------------------
(* SkipPropagator.  A walk w is [st: the state, todo: the edges to visit]. *)

propagate_skip_to_node(w, n) ==
    [st |-> mark_node_skipped(w.st, n), todo |-> Outgoing(n) \o w.todo]

(* Mutant: the test for undecided edges is missing. *)
MutantNoUnknownTest(w, e) ==
    IF "taken" \in IncomingStates(w.st, e[2]) THEN [w EXCEPT !.st = enqueue_node(@, e[2])]
    ELSE propagate_skip_to_node(w, e[2])

(* Mutant: a node with a taken edge is skipped as well. *)
MutantNoTakenTest(w, e) ==
    IF "unknown" \in IncomingStates(w.st, e[2]) THEN w ELSE propagate_skip_to_node(w, e[2])

propagate_skip_from_edge(w, e) ==
    LET states == IncomingStates(w.st, e[2])
    IN  IF "unknown" \in states THEN w
        ELSE IF "taken" \in states THEN [w EXCEPT !.st = enqueue_node(@, e[2])]
        ELSE propagate_skip_to_node(w, e[2])

(* The next edge is marked as skipped, and the skip propagated from it. *)
visit(w) ==
    LET e == Head(w.todo)
    IN  IF w.todo = <<>> THEN w
        ELSE propagate_skip_from_edge([st |-> mark_edge_skipped(w.st, e), todo |-> Tail(w.todo)], e)

skip_branch_paths(s, unselected) ==
    LET walk[k \in 0 .. Cardinality(edges)] ==
            IF k = 0 THEN [st |-> s, todo |-> unselected] ELSE visit(walk[k - 1])
    IN  walk[Cardinality(edges)].st

-----------------------------------------------------------------------------
(* EdgeProcessor.  p is [st: the state, ready: the list of ready nodes].   *)

process_taken_edge(p, e) ==
    LET s == mark_edge_taken(p.st, e)
    IN  [st |-> s,
         ready |-> IF G!is_node_ready(s.es, e[2]) THEN Append(p.ready, e[2]) ELSE p.ready]

process_taken_edges(s, list) ==
    LET taken[k \in 0 .. Len(list)] ==
            IF k = 0 THEN [st |-> s, ready |-> <<>>] ELSE process_taken_edge(taken[k - 1], list[k])
    IN  taken[Len(list)]

process_non_branch_node_edges(s, n) == process_taken_edges(s, Outgoing(n))

Unselected(n, h) == G!get_outgoing_edges(n) \ G!SelectedEdges(n, h)

process_branch_node_edges(s, n, h) ==
    process_taken_edges([s EXCEPT !.es = G!mark_edges_skipped(@, Unselected(n, h))],
                        EdgeList(G!SelectedEdges(n, h)))

handle_branch_completion(s, n, h) ==
    process_branch_node_edges(skip_branch_paths(s, EdgeList(Unselected(n, h))), n, h)

enqueue_nodes(s, list) ==
    [s EXCEPT !.ns = [n \in AllNodes |-> IF n \in ToSet(list) THEN "taken" ELSE @[n]],
              !.queue = @ \o list]

(* What the success handler does with a completed node while the run is   *)
(* not paused.                                                             *)
node_succeeded(s, n, h) ==
    LET p == IF n \in branch THEN handle_branch_completion(s, n, h)
                             ELSE process_non_branch_node_edges(s, n)
    IN  enqueue_nodes(p.st, p.ready)

-----------------------------------------------------------------------------
(* Graph._mark_inactive_root_branches: a graph may have several roots (for *)
(* example triggers) of which one is active.                               *)

visit_downstream(w) ==
    LET e == Head(w.todo)
        marked == [st |-> mark_edge_skipped(w.st, e), todo |-> Tail(w.todo)]
    IN  IF w.todo = <<>> THEN w
        ELSE IF IncomingStates(marked.st, e[2]) = {"skipped"}
             THEN propagate_skip_to_node(marked, e[2])
             ELSE marked

mark_downstream(s, n) ==
    LET walk[k \in 0 .. Cardinality(edges)] ==
            IF k = 0 THEN [st |-> s, todo |-> Outgoing(n)] ELSE visit_downstream(walk[k - 1])
    IN  IF s.ns[n] # "skipped" THEN s ELSE walk[Cardinality(edges)].st

(* Only roots are skipped beforehand, and only when the active one is one  *)
(* of them.  Other nodes without incoming edges, and what they lead to,    *)
(* stay unknown (the inner nodes of iterations and loops).                 *)
InactiveRoots == IF 1 \in roots THEN roots \ {1} ELSE {}

mark_inactive_root_branches(s) ==
    LET list == SetToSeq(InactiveRoots)
        marked[k \in 0 .. Len(list)] ==
            IF k = 0
            THEN [s EXCEPT !.ns = [n \in AllNodes |-> IF n \in InactiveRoots THEN "skipped" ELSE @[n]]]
            ELSE mark_downstream(marked[k - 1], list[k])
    IN  marked[Len(list)]

-----------------------------------------------------------------------------
BlankState ==
    [ns |-> [n \in AllNodes |-> "unknown"], es |-> [e \in edges |-> "unknown"], queue |-> <<>>]

(* A graph as the editor builds it: only a branch node uses more than one  *)
(* handle, and a branch leads somewhere; nothing leads to a root.  The     *)
(* active root is enqueued when the run starts.                            *)
Init ==
    /\ branch \in SUBSET (1 .. N - 1)
    /\ edges \in SUBSET {e \in EdgeIds : e[1] \in branch \/ e[3] = 1}
    /\ \A n \in branch : G!get_outgoing_edges(n) # {}
    /\ roots \in SUBSET {n \in AllNodes \ branch : G!get_incoming_edges(n) = {}}
    /\ st = enqueue_node(mark_inactive_root_branches(BlankState), 1)
    /\ done = {}

(* A queued node has run; the dispatcher handles its success. *)
Complete(i, h) ==
    /\ st' = node_succeeded([st EXCEPT !.queue = RemoveAt(@, i)], st.queue[i], h)
    /\ done' = done \union {st.queue[i]}
    /\ UNCHANGED <<edges, branch, roots>>

Next == \E i \in DOMAIN st.queue, h \in Handles : Complete(i, h)

Spec == Init /\ [][Next]_vars

-----------------------------------------------------------------------------
(* Whatever node completes next, with whatever handle, the walk of the code*)
(* ends in the edge states of the closed form, and enqueues exactly the    *)
(* nodes the closed form names, none of them twice.                        *)
WalkAgreesWithClosedForm ==
    \A n \in ToSet(st.queue), h \in Handles :
        LET before  == [st EXCEPT !.queue = <<>>]
            after   == node_succeeded(before, n, h)
            chosen  == IF n \in branch THEN G!SelectedEdges(n, h) ELSE G!get_outgoing_edges(n)
            dropped == G!get_outgoing_edges(n) \ chosen
            woken   == G!WokenBySkip(st.es, dropped)
            ready   == G!ReadyAfter(st.es, dropped, chosen)
        IN  /\ after.es = G!EdgesAfter(st.es, dropped, chosen)
            /\ ToSet(after.queue) = woken \union ready
            /\ woken \intersect ready = {}
            /\ IsInjective(after.queue)

(* Once its incoming edges are decided, a node runs exactly when some      *)
(* taken edge leads to it; it is never both run and marked skipped; an     *)
(* edge is taken only out of a node that has run.                          *)
RunsIffReached ==
    /\ \A n \in AllNodes : G!get_incoming_edges(n) # {} /\ ~G!HasUnknown(st.es, n) =>
          ((n \in done \/ Contains(st.queue, n)) <=> G!HasTaken(st.es, n))
    /\ \A n \in AllNodes : (n \in done \/ Contains(st.queue, n)) => st.ns[n] # "skipped"
    /\ \A e \in edges : st.es[e] = "taken" => e[1] \in done

=============================================================================
