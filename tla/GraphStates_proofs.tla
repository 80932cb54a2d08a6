-------------------------- MODULE GraphStates_proofs --------------------------
(* What the completion of one node does to the states of edges, for every  *)
(* graph: facts about the operators of GraphStates alone, shared by the    *)
(* proofs about the engine and about the response coordinator.             *)
EXTENDS GraphStates, Integers, WellFoundedInduction, TLAPS

-----------------------------------------------------------------------------
(* Loops: functions of the number of turns *)

(* A set that contains 0 and, with a number, the next one holds them all.  *)
(* The numbers that are missing have no least element.                     *)
LEMMA SetInduction ==
    ASSUME NEW S, 0 \in S, \A k \in Nat : k \in S => k + 1 \in S
    PROVE  \A k \in Nat : k \in S
<1> DEFINE T == Nat \ S
           R == OpToRel(<, Nat)
<1>1. SUFFICES ASSUME T # {} PROVE FALSE
  OBVIOUS
<1>2. T \subseteq Nat
  OBVIOUS
<1>3. \E x \in T : \A y \in T : ~ (<<y, x>> \in R)
  <2> HIDE DEF T, R
  <2>1. IsWellFoundedOn(R, Nat)
    BY NatLessThanWellFounded DEF R
  <2> QED
    BY <1>1, <1>2, <2>1, WFMin
<1>4. PICK x \in T : \A y \in T : ~ (<<y, x>> \in R)
  BY <1>3
<1>5. x # 0 /\ x \in Nat
  OBVIOUS
<1>6. x - 1 \in Nat /\ x - 1 < x /\ (x - 1) + 1 = x
  BY <1>5
<1>7. x - 1 \in T
  BY <1>5, <1>6
<1>8. <<x - 1, x>> \in R
  BY <1>5, <1>6 DEF OpToRel
<1> QED
  BY <1>4, <1>7, <1>8

(* A function that starts at w and steps by g within D exists. *)
Iterates(F, w, g, m) ==
    F = [k \in 0 .. m |-> IF k = 0 THEN w ELSE g[<<k, F[k - 1]>>]]

LEMMA Iterate ==
    ASSUME NEW D, NEW w \in D, NEW g, \A k \in Nat \ {0} : \A v \in D : g[<<k, v>>] \in D, NEW n \in Nat
    PROVE  \E F \in [0 .. n -> D] : Iterates(F, w, g, n)
<1> DEFINE S == {m \in Nat : \E F \in [0 .. m -> D] : Iterates(F, w, g, m)}
<1>1. 0 \in S
  <2> DEFINE F == [k \in 0 .. 0 |-> w]
  <2>1. F \in [0 .. 0 -> D]
    OBVIOUS
  <2>2. Iterates(F, w, g, 0)
    BY DEF Iterates
  <2> HIDE DEF F
  <2> QED
    BY <2>1, <2>2
<1>2. ASSUME NEW m \in Nat, m \in S PROVE m + 1 \in S
  <2>1. PICK F \in [0 .. m -> D] : Iterates(F, w, g, m)
    BY <1>2
  <2> DEFINE G == [k \in 0 .. m + 1 |-> IF k = m + 1 THEN g[<<m + 1, F[m]>>] ELSE F[k]]
  <2>2. F[m] \in D /\ m + 1 \in Nat \ {0}
    OBVIOUS
  <2>3. g[<<m + 1, F[m]>>] \in D
    BY <2>2
  <2>4. \A k \in 0 .. m + 1 : k = m + 1 \/ k \in 0 .. m
    OBVIOUS
  <2>5. G \in [0 .. m + 1 -> D]
    BY <2>3, <2>4
  <2>6. \A k \in 0 .. m : G[k] = F[k] /\ k # m + 1
    OBVIOUS
  <2>7. G[m + 1] = g[<<m + 1, F[m]>>]
    OBVIOUS
  <2>8. \A k \in 0 .. m : F[k] = IF k = 0 THEN w ELSE g[<<k, F[k - 1]>>]
    BY <2>1 DEF Iterates
  <2>9. G = [k \in 0 .. m + 1 |-> G[k]]
    OBVIOUS
  <2> HIDE DEF G
  <2>10. ASSUME NEW k \in 0 .. m + 1 PROVE G[k] = IF k = 0 THEN w ELSE g[<<k, G[k - 1]>>]
    <3>1. CASE k = m + 1
      <4>1. m \in 0 .. m /\ k - 1 = m /\ k # 0
        BY <3>1
      <4> QED
        BY <2>6, <2>7, <3>1, <4>1
    <3>2. CASE k # m + 1 /\ k # 0
      <4>1. k \in 0 .. m /\ k - 1 \in 0 .. m
        BY <3>2
      <4> QED
        BY <2>6, <2>8, <3>2, <4>1
    <3>3. CASE k = 0
      <4>1. 0 \in 0 .. m
        OBVIOUS
      <4> QED
        BY <2>6, <2>8, <3>3, <4>1
    <3> QED
      BY <3>1, <3>2, <3>3
  <2>11. Iterates(G, w, g, m + 1)
    BY <2>9, <2>10 DEF Iterates
  <2> QED
    BY <2>5, <2>11
<1> HIDE DEF S
<1>3. n \in S
  BY <1>1, <1>2, SetInduction
<1> QED
  BY <1>3 DEF S

(* What holds at first and is kept by every step holds at last. *)
LEMMA StaysIn ==
    ASSUME NEW D, NEW F, NEW n \in Nat, F[0] \in D, \A k \in 1 .. n : F[k - 1] \in D => F[k] \in D
    PROVE  F[n] \in D
<1> DEFINE S == {k \in Nat : k <= n => F[k] \in D}
<1>1. 0 \in S
  OBVIOUS
<1>2. ASSUME NEW k \in Nat, k \in S PROVE k + 1 \in S
  <2>1. SUFFICES ASSUME k + 1 <= n PROVE F[k + 1] \in D
    OBVIOUS
  <2>2. k <= n /\ k + 1 \in 1 .. n /\ (k + 1) - 1 = k
    BY <2>1
  <2>3. F[k] \in D
    BY <1>2, <2>2
  <2> QED
    BY <2>2, <2>3
<1> HIDE DEF S
<1>3. n \in S
  BY <1>1, <1>2, SetInduction
<1> QED
  BY <1>3 DEF S

-----------------------------------------------------------------------------
(* Skip propagation is a least fixed point *)

(* All incoming edges of n, of which there is one, are skipped or come     *)
(* from S: the condition under which propagate_skip_from_edge goes on.     *)
AllSkipped(es, S, n) ==
    /\ get_incoming_edges(n) # {}
    /\ \A e \in get_incoming_edges(n) : es[e] = "skipped" \/ tail[e] \in S

(* The skipped nodes are the smallest closed set. *)
LEMMA SkippedBelow ==
    ASSUME NEW es, NEW S \in SUBSET Nodes, ClosedUnderSkip(es, S)
    PROVE  SkippedNodes(es) \subseteq S
<1> DEFINE T == {n \in S : get_incoming_edges(n) # {}}
<1>1. T \in SUBSET {n \in Nodes : get_incoming_edges(n) # {}}
  OBVIOUS
<1>2. ClosedUnderSkip(es, T)
  BY DEF ClosedUnderSkip
<1> HIDE DEF T
<1>3. SkippedNodes(es) \subseteq T
  BY <1>1, <1>2 DEF SkippedNodes
<1> QED
  BY <1>3 DEF T

(* A node that meets the condition is skipped. *)
LEMMA SkippedClosed ==
    ASSUME NEW es, NEW n \in Nodes, AllSkipped(es, SkippedNodes(es), n)
    PROVE  n \in SkippedNodes(es)
<1>1. SUFFICES ASSUME NEW S \in SUBSET Nodes, ClosedUnderSkip(es, S) PROVE n \in S
  BY DEF SkippedNodes
<1>2. AllSkipped(es, S, n)
  BY <1>1, SkippedBelow DEF AllSkipped
<1> QED
  BY <1>1, <1>2 DEF ClosedUnderSkip, AllSkipped

(* A node that is skipped meets the condition: otherwise the set without   *)
(* it would be closed as well.                                             *)
LEMMA SkippedRule ==
    ASSUME NEW es, NEW n \in SkippedNodes(es)
    PROVE  AllSkipped(es, SkippedNodes(es), n)
<1> DEFINE S == SkippedNodes(es) \ {n}
<1>1. S \in SUBSET Nodes
  BY DEF SkippedNodes
<1>2. SUFFICES ASSUME ~AllSkipped(es, SkippedNodes(es), n) PROVE FALSE
  OBVIOUS
<1>3. ASSUME NEW m \in Nodes, AllSkipped(es, S, m) PROVE m \in S
  <2>1. AllSkipped(es, SkippedNodes(es), m)
    BY <1>3 DEF AllSkipped
  <2> QED
    BY <2>1, <1>2, SkippedClosed
<1>4. ClosedUnderSkip(es, S)
  BY <1>3 DEF ClosedUnderSkip, AllSkipped
<1> QED
  BY <1>1, <1>4, SkippedBelow

-----------------------------------------------------------------------------
(* The completion of a node *)

(* What the states of the edges say about a set A of nodes that are queued,*)
(* running or waiting: such a node was reached and has not acted on its    *)
(* outgoing edges yet.  An edge is decided only once its source is, and    *)
(* taken only out of a node that was reached.                              *)
Consistent(es, A) ==
    /\ \A n \in A : is_node_ready(es, n) /\ \A e \in get_outgoing_edges(n) : es[e] = "unknown"
    /\ \A e \in Edges : es[e] # "unknown" => ~HasUnknown(es, tail[e])
    /\ \A e \in Edges : es[e] = "taken" => is_node_ready(es, tail[e])

(* The hypotheses of the lemmas below: node n of A completes, of its       *)
(* outgoing edges some are dropped and some chosen.                        *)
Completes(es, A, n, dropped, chosen) ==
    /\ es \in [Edges -> State] /\ A \subseteq Nodes /\ n \in A
    /\ tail \in [Edges -> Nodes] /\ head \in [Edges -> Nodes]
    /\ dropped \subseteq get_outgoing_edges(n) /\ chosen \subseteq get_outgoing_edges(n)
    /\ dropped \intersect chosen = {}
    /\ Consistent(es, A)

(* Neither an active node nor one with a taken edge is skipped: the set of *)
(* the other nodes is closed under the rule of the propagation.            *)
LEMMA SkipSparesActive ==
    ASSUME NEW es, NEW A, NEW n, NEW dropped, NEW chosen, Completes(es, A, n, dropped, chosen)
    PROVE  \A m \in SkippedNodes(mark_edges_skipped(es, dropped)) :
              m \in Nodes /\ m \notin A /\ \A e \in get_outgoing_edges(m) : es[e] # "taken"
<1> DEFINE marked == mark_edges_skipped(es, dropped)
           T == {m \in Nodes : m \notin A /\ \A e \in get_outgoing_edges(m) : es[e] # "taken"}
<1>1. \A e \in Edges : es[e] = "taken" => marked[e] = "taken"
  BY DEF Completes, Consistent, mark_edges_skipped
<1>2. ASSUME NEW m \in Nodes, AllSkipped(marked, T, m) PROVE ~HasTaken(es, m)
  <2>1. SUFFICES ASSUME NEW e \in get_incoming_edges(m), es[e] = "taken" PROVE FALSE
    BY DEF HasTaken
  <2>2. e \in Edges /\ marked[e] = "taken"
    BY <2>1, <1>1 DEF get_incoming_edges
  <2>3. tail[e] \in T
    BY <1>2, <2>1, <2>2 DEF AllSkipped
  <2> QED
    BY <2>1, <2>2, <2>3 DEF get_outgoing_edges
<1>3. ASSUME NEW m \in Nodes, AllSkipped(marked, T, m) PROVE m \in T
  <2>1. ~is_node_ready(es, m)
    BY <1>2, <1>3 DEF is_node_ready, AllSkipped
  <2>2. m \notin A
    BY <2>1 DEF Completes, Consistent
  <2>3. \A e \in get_outgoing_edges(m) : es[e] # "taken"
    BY <2>1 DEF Completes, Consistent, get_outgoing_edges
  <2> QED
    BY <2>2, <2>3
<1>4. ClosedUnderSkip(marked, T)
  BY <1>3 DEF ClosedUnderSkip, AllSkipped
<1>5. SkippedNodes(marked) \subseteq T
  BY <1>4, SkippedBelow
<1> QED
  BY <1>5

(* How the state of each edge changes. *)
LEMMA EdgeChanges ==
    ASSUME NEW es, NEW A, NEW n, NEW dropped, NEW chosen, Completes(es, A, n, dropped, chosen),
           NEW e \in Edges
    PROVE  LET skipped == SkippedNodes(mark_edges_skipped(es, dropped))
               es1 == skip_branch_paths(es, dropped)
               es2 == EdgesAfter(es, dropped, chosen)
           IN  /\ e \in chosen => es[e] = "unknown" /\ es1[e] = "unknown" /\ es2[e] = "taken"
               /\ e \notin chosen => es2[e] = es1[e]
               /\ e \in dropped => es[e] = "unknown" /\ es1[e] = "skipped"
               /\ tail[e] \in skipped => es[e] # "taken" /\ es1[e] = "skipped"
               /\ e \notin dropped /\ tail[e] \notin skipped => es1[e] = es[e]
<1> DEFINE skipped == SkippedNodes(mark_edges_skipped(es, dropped))
<1>1. n \notin skipped
  BY SkipSparesActive DEF Completes
<1>2. e \in chosen \union dropped => tail[e] = n /\ es[e] = "unknown"
  BY DEF Completes, Consistent, get_outgoing_edges
<1>3. tail[e] \in skipped => es[e] # "taken"
  BY SkipSparesActive DEF get_outgoing_edges
<1>4. skip_branch_paths(es, dropped)[e] = IF tail[e] \in skipped THEN "skipped"
                                          ELSE IF e \in dropped THEN "skipped" ELSE es[e]
  BY DEF skip_branch_paths, mark_edges_skipped
<1>5. EdgesAfter(es, dropped, chosen)[e] =
          IF e \in chosen THEN "taken" ELSE skip_branch_paths(es, dropped)[e]
  BY DEF EdgesAfter, mark_edges_taken
<1>6. e \in chosen => e \notin dropped
  BY DEF Completes
<1> HIDE DEF skipped
<1>7. e \in chosen => es[e] = "unknown" /\ skip_branch_paths(es, dropped)[e] = "unknown"
  BY <1>1, <1>2, <1>4, <1>6
<1> QED
  BY <1>2, <1>3, <1>4, <1>5, <1>7 DEF skipped

(* A decided edge keeps its state. *)
LEMMA DecidedStays ==
    ASSUME NEW es, NEW A, NEW n, NEW dropped, NEW chosen, Completes(es, A, n, dropped, chosen),
           NEW e \in Edges, es[e] # "unknown"
    PROVE  EdgesAfter(es, dropped, chosen)[e] = es[e]
<1>1. es[e] \in {"taken", "skipped"}
  BY DEF Completes, State
<1> QED
  BY <1>1, EdgeChanges

(* So a node that was reached stays reached, and a settled join settled. *)
LEMMA ReadyStays ==
    ASSUME NEW es, NEW A, NEW n, NEW dropped, NEW chosen, Completes(es, A, n, dropped, chosen),
           NEW m
    PROVE  /\ ~HasUnknown(es, m) => ~HasUnknown(EdgesAfter(es, dropped, chosen), m)
           /\ is_node_ready(es, m) => is_node_ready(EdgesAfter(es, dropped, chosen), m)
<1>1. \A e \in get_incoming_edges(m) : e \in Edges
  BY DEF get_incoming_edges
<1>2. ~HasUnknown(es, m) => ~HasUnknown(EdgesAfter(es, dropped, chosen), m)
  BY <1>1, DecidedStays DEF HasUnknown
<1>3. HasTaken(es, m) => HasTaken(EdgesAfter(es, dropped, chosen), m)
  BY <1>1, DecidedStays DEF HasTaken
<1> QED
  BY <1>2, <1>3 DEF is_node_ready

(* A node that the completion makes ready had an undecided incoming edge;  *)
(* it is neither skipped nor n itself.  The nodes woken by a skip and the  *)
(* ready heads of chosen edges are different nodes.                        *)
LEMMA NewlyReady ==
    ASSUME NEW es, NEW A, NEW n, NEW dropped, NEW chosen, Completes(es, A, n, dropped, chosen)
    PROVE  LET woken == WokenBySkip(es, dropped)
               ready == ReadyAfter(es, dropped, chosen)
           IN  /\ woken \subseteq Nodes /\ ready \subseteq Nodes
               /\ woken \intersect ready = {}
               /\ \A m \in woken \union ready :
                     /\ HasUnknown(es, m)
                     /\ is_node_ready(EdgesAfter(es, dropped, chosen), m)
                     /\ m \notin SkippedNodes(mark_edges_skipped(es, dropped))
<1> DEFINE woken == WokenBySkip(es, dropped)
           ready == ReadyAfter(es, dropped, chosen)
           skipped == SkippedNodes(mark_edges_skipped(es, dropped))
           es1 == skip_branch_paths(es, dropped)
           es2 == EdgesAfter(es, dropped, chosen)
<1>1. woken \subseteq Nodes
  BY DEF WokenBySkip
<1>2. chosen \subseteq Edges /\ dropped \subseteq Edges
  BY DEF Completes, get_outgoing_edges
<1>3. ready \subseteq Nodes
  BY <1>2 DEF ReadyAfter, Completes
<1>4. ASSUME NEW m \in ready
      PROVE  /\ HasUnknown(es, m) /\ HasUnknown(es1, m)
             /\ is_node_ready(es2, m) /\ m \notin skipped
  <2>1. PICK e \in chosen : m = head[e]
    BY DEF ReadyAfter
  <2>2. e \in get_incoming_edges(m)
    BY <2>1, <1>2 DEF get_incoming_edges
  <2>3. es[e] = "unknown" /\ es1[e] = "unknown"
    BY <1>2, EdgeChanges
  <2>4. m \notin skipped
    <3>1. SUFFICES ASSUME m \in skipped PROVE FALSE
      OBVIOUS
    <3>2. AllSkipped(mark_edges_skipped(es, dropped), skipped, m)
      BY <3>1, SkippedRule
    <3>3. e \notin dropped
      BY DEF Completes
    <3>4. mark_edges_skipped(es, dropped)[e] = "unknown"
      BY <2>3, <3>3, <1>2 DEF mark_edges_skipped
    <3>5. tail[e] \in skipped
      BY <2>2, <3>2, <3>4 DEF AllSkipped
    <3> QED
      BY <3>5, <2>3, <1>2, EdgeChanges
  <2>5. is_node_ready(es2, m)
    BY DEF ReadyAfter
  <2> QED
    BY <2>2, <2>3, <2>4, <2>5 DEF HasUnknown
<1>5. ASSUME NEW m \in woken
      PROVE  /\ HasUnknown(es, m) /\ ~HasUnknown(es1, m)
             /\ is_node_ready(es2, m) /\ m \notin skipped
  <2>1. PICK e \in get_incoming_edges(m) : es[e] # "skipped" /\ es1[e] = "skipped"
    BY DEF WokenBySkip
  <2>2. ~HasUnknown(es1, m) /\ HasTaken(es1, m)
    BY DEF WokenBySkip
  <2>3. e \in Edges /\ es[e] \in {"unknown", "taken"}
    BY <2>1 DEF get_incoming_edges, Completes, State
  <2>4. es[e] = "unknown"
    BY <2>1, <2>3, EdgeChanges
  <2>5. PICK f \in get_incoming_edges(m) : es1[f] = "taken"
    BY <2>2 DEF HasTaken
  <2>6. f \in Edges /\ f \notin chosen /\ f \notin dropped /\ tail[f] \notin skipped
    BY <2>5, EdgeChanges DEF get_incoming_edges
  <2>7. es[f] = "taken" /\ es2[f] = "taken"
    BY <2>5, <2>6, EdgeChanges
  <2>8. m \notin skipped
    <3>1. SUFFICES ASSUME m \in skipped PROVE FALSE
      OBVIOUS
    <3>2. AllSkipped(mark_edges_skipped(es, dropped), skipped, m)
      BY <3>1, SkippedRule
    <3>3. mark_edges_skipped(es, dropped)[f] = "taken"
      BY <2>6, <2>7 DEF mark_edges_skipped
    <3> QED
      BY <2>5, <2>6, <3>2, <3>3 DEF AllSkipped
  <2>9. \A g \in get_incoming_edges(m) : es2[g] # "unknown"
    <3>1. TAKE g \in get_incoming_edges(m)
    <3>2. g \in Edges /\ es1[g] # "unknown"
      BY <2>2 DEF HasUnknown, get_incoming_edges
    <3> QED
      BY <3>2, EdgeChanges
  <2>10. is_node_ready(es2, m)
    BY <2>5, <2>7, <2>9 DEF is_node_ready, HasUnknown, HasTaken
  <2> QED
    BY <2>1, <2>2, <2>4, <2>8, <2>10 DEF HasUnknown
<1>6. woken \intersect ready = {}
  BY <1>4, <1>5
<1> QED
  BY <1>1, <1>3, <1>4, <1>5, <1>6

(* Only edges out of n are newly taken. *)
LEMMA TakenAfter ==
    ASSUME NEW es, NEW A, NEW n, NEW dropped, NEW chosen, Completes(es, A, n, dropped, chosen),
           NEW e \in Edges, EdgesAfter(es, dropped, chosen)[e] = "taken"
    PROVE  es[e] = "taken" \/ tail[e] = n
<1>1. e \in chosen \union dropped => tail[e] = n
  BY DEF Completes, get_outgoing_edges
<1> QED
  BY <1>1, EdgeChanges

(* The completion of n (EdgeProcessor: skip the edges not chosen and what  *)
(* only they reach, then take the chosen ones) keeps the states consistent *)
(* for the nodes that are active afterwards, and wakes no node that was    *)
(* active already.                                                         *)
THEOREM ConsistentAfter ==
    ASSUME NEW es, NEW A, NEW n, NEW dropped, NEW chosen, Completes(es, A, n, dropped, chosen)
    PROVE  /\ Consistent(EdgesAfter(es, dropped, chosen),
                         (A \ {n}) \union WokenBySkip(es, dropped)
                                   \union ReadyAfter(es, dropped, chosen))
           /\ \A m \in WokenBySkip(es, dropped) \union ReadyAfter(es, dropped, chosen) : m \notin A
<1> DEFINE new == WokenBySkip(es, dropped) \union ReadyAfter(es, dropped, chosen)
           skipped == SkippedNodes(mark_edges_skipped(es, dropped))
           es2 == EdgesAfter(es, dropped, chosen)
<1>1. \A m \in new : m \in Nodes /\ HasUnknown(es, m) /\ is_node_ready(es2, m) /\ m \notin skipped
  BY NewlyReady
<1>2. ASSUME NEW m \in A PROVE ~HasUnknown(es, m) /\ m \notin skipped
  <2>1. is_node_ready(es, m)
    BY DEF Completes, Consistent
  <2>2. ~HasUnknown(es, m)
    BY <2>1 DEF is_node_ready, HasUnknown
  <2> QED
    BY <2>2, SkipSparesActive
<1>3. \A m \in new : m \notin A
  BY <1>1, <1>2
<1>4. \A e \in Edges : e \in chosen \union dropped => tail[e] = n
  BY DEF Completes, get_outgoing_edges
<1>5. ASSUME NEW m \in (A \ {n}) \union new, NEW e \in get_outgoing_edges(m)
      PROVE  es2[e] = "unknown"
  <2>1. e \in Edges /\ tail[e] = m
    BY DEF get_outgoing_edges
  <2>2. es[e] = "unknown"
    <3>1. CASE m \in A
      BY <3>1 DEF Completes, Consistent
    <3>2. CASE m \in new
      BY <3>2, <2>1, <1>1 DEF Completes, Consistent
    <3> QED
      BY <3>1, <3>2
  <2>3. m # n /\ m \notin skipped
    BY <1>1, <1>2, <1>3 DEF Completes
  <2>4. e \notin chosen /\ e \notin dropped
    BY <2>1, <2>3, <1>4
  <2> QED
    BY <2>1, <2>2, <2>3, <2>4, EdgeChanges
<1>6. ASSUME NEW m \in (A \ {n}) \union new PROVE is_node_ready(es2, m)
  <2>1. CASE m \in A
    BY <2>1, ReadyStays DEF Completes, Consistent
  <2> QED
    BY <2>1, <1>1
<1>7. ASSUME NEW e \in Edges, es2[e] # "unknown" PROVE ~HasUnknown(es2, tail[e])
  <2>1. CASE es[e] # "unknown"
    BY <2>1, ReadyStays DEF Completes, Consistent
  <2>2. CASE tail[e] = n
    BY <2>2, <1>2, ReadyStays DEF Completes
  <2>3. CASE es[e] = "unknown" /\ tail[e] # n
    <3>1. e \notin chosen /\ e \notin dropped
      BY <2>3, <1>4
    <3>2. tail[e] \in skipped
      BY <1>7, <2>3, <3>1, EdgeChanges
    <3>3. AllSkipped(mark_edges_skipped(es, dropped), skipped, tail[e])
      BY <3>2, SkippedRule
    <3>4. ASSUME NEW g \in get_incoming_edges(tail[e]) PROVE es2[g] # "unknown"
      <4>1. g \in Edges
        BY DEF get_incoming_edges
      <4>2. CASE tail[g] \in skipped
        BY <4>1, <4>2, EdgeChanges
      <4>3. CASE mark_edges_skipped(es, dropped)[g] = "skipped"
        <5>1. g \in dropped \/ es[g] = "skipped"
          BY <4>1, <4>3 DEF mark_edges_skipped
        <5> QED
          BY <4>1, <5>1, EdgeChanges
      <4> QED
        BY <4>2, <4>3, <3>3 DEF AllSkipped
    <3> QED
      BY <3>4 DEF HasUnknown
  <2> QED
    BY <2>1, <2>2, <2>3
<1>8. ASSUME NEW e \in Edges, es2[e] = "taken" PROVE es[e] = "taken" \/ tail[e] = n
  BY <1>8, TakenAfter
<1>9. ASSUME NEW e \in Edges, es2[e] = "taken" PROVE is_node_ready(es2, tail[e])
  <2>1. is_node_ready(es, tail[e])
    BY <1>8, <1>9 DEF Completes, Consistent
  <2> QED
    BY <2>1, ReadyStays
<1> QED
  BY <1>3, <1>5, <1>6, <1>7, <1>9 DEF Consistent

(* No node is missed: every node that the completion of n makes ready is   *)
(* woken by a skip or is the head of a chosen edge, and so is scheduled.   *)
THEOREM EveryReadyFound ==
    ASSUME NEW es, NEW A, NEW n, NEW dropped, NEW chosen, Completes(es, A, n, dropped, chosen),
           NEW m \in Nodes, ~is_node_ready(es, m),
           is_node_ready(EdgesAfter(es, dropped, chosen), m)
    PROVE  m \in WokenBySkip(es, dropped) \union ReadyAfter(es, dropped, chosen)
<1> DEFINE es1 == skip_branch_paths(es, dropped)
           es2 == EdgesAfter(es, dropped, chosen)
<1>1. CASE \E e \in chosen : head[e] = m
  BY <1>1 DEF ReadyAfter
<1>2. CASE ~\E e \in chosen : head[e] = m
  <2>1. \A e \in get_incoming_edges(m) : e \in Edges /\ e \notin chosen /\ es2[e] = es1[e]
    BY <1>2, EdgeChanges DEF get_incoming_edges
  <2>2. ~HasUnknown(es1, m) /\ HasTaken(es1, m)
    BY <2>1 DEF is_node_ready, HasUnknown, HasTaken
  <2>3. PICK f \in get_incoming_edges(m) : es1[f] = "taken"
    BY <2>2 DEF HasTaken
  <2>4. es[f] = "taken"
    BY <2>1, <2>3, EdgeChanges
  <2>5. PICK e \in get_incoming_edges(m) : es[e] = "unknown"
    BY <2>3, <2>4 DEF is_node_ready, HasUnknown, HasTaken
  <2>6. e \in Edges /\ es1[e] # "unknown"
    BY <2>1, <2>2, <2>5 DEF HasUnknown
  <2>7. es1[e] = "skipped"
    BY <2>5, <2>6, EdgeChanges
  <2> QED
    BY <2>2, <2>5, <2>7 DEF WokenBySkip
<1> QED
  BY <1>1, <1>2

(* Nor is a skip missed: a node all of whose incoming edges are skipped    *)
(* after the completion was reached by the propagation, and its own edges  *)
(* are decided.                                                            *)
LEMMA SkipReaches ==
    ASSUME NEW es, NEW A, NEW n, NEW dropped, NEW chosen, Completes(es, A, n, dropped, chosen),
           NEW m \in Nodes, AllSkipped(EdgesAfter(es, dropped, chosen), {}, m)
    PROVE  m \in SkippedNodes(mark_edges_skipped(es, dropped))
<1> DEFINE marked == mark_edges_skipped(es, dropped)
           skipped == SkippedNodes(marked)
<1>1. ASSUME NEW e \in get_incoming_edges(m)
      PROVE  marked[e] = "skipped" \/ tail[e] \in skipped
  <2>1. e \in Edges /\ EdgesAfter(es, dropped, chosen)[e] = "skipped"
    BY DEF AllSkipped, get_incoming_edges
  <2>2. skip_branch_paths(es, dropped)[e] = "skipped"
    BY <2>1, EdgeChanges
  <2> QED
    BY <2>1, <2>2 DEF skip_branch_paths
<1>2. AllSkipped(marked, skipped, m)
  BY <1>1 DEF AllSkipped
<1> QED
  BY <1>2, SkippedClosed

(* The edges of a skipped node are decided by the completion, and so are   *)
(* those of n when the chosen and the dropped edges are all it has.        *)
LEMMA SettledAfter ==
    ASSUME NEW es, NEW A, NEW n, NEW dropped, NEW chosen, Completes(es, A, n, dropped, chosen),
           NEW e \in Edges,
           \/ tail[e] \in SkippedNodes(mark_edges_skipped(es, dropped))
           \/ e \in dropped \union chosen
    PROVE  EdgesAfter(es, dropped, chosen)[e] # "unknown"
<1>1. e \in chosen => e \notin dropped
  BY DEF Completes
<1> QED
  BY <1>1, EdgeChanges

=============================================================================
