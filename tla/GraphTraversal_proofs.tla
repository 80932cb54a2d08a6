---------------------- MODULE GraphTraversal_proofs ----------------------
(* The walk over the edges ends in the closed form of GraphStates, for     *)
(* every number of nodes and handles, every acyclic graph over them and    *)
(* every order in which nodes complete.                                    *)
(*                                                                         *)
(* Part 1: lists, and the graph as a set of edges.                         *)
(* Part 2: the walk, turn by turn.                                         *)
(* Part 3: the completion of a node.                                       *)
(* Part 4: the run.                                                        *)
(* Part 5: the start.                                                      *)
(* Part 6: the theorems.                                                   *)
EXTENDS GraphTraversal, SequenceTheorems, FunctionTheorems, FiniteSetTheorems, TLAPS

(* What is proved of the closed form, for the graph of this run. *)
P == INSTANCE GraphStates_proofs WITH
        Nodes <- AllNodes, Edges <- edges,
        tail <- [e \in edges |-> e[1]],
        head <- [e \in edges |-> e[2]],
        handle <- [e \in edges |-> e[3]]

-----------------------------------------------------------------------------
(* Part 1 *)

(* A list of different elements of S. *)
Distinct(s, S) == s \in Seq(S) /\ \A i, j \in 1 .. Len(s) : s[i] = s[j] => i = j

Elements(s) == {s[i] : i \in 1 .. Len(s)}

(* What a list holds are elements of the set it is a list over. *)
LEMMA ElementsIn ==
    ASSUME NEW S, NEW s \in Seq(S)
    PROVE  /\ Elements(s) \subseteq S /\ ToSet(s) = Elements(s) /\ Len(s) \in Nat
           /\ Distinct(s, S) => IsInjective(s)
<1>1. Len(s) \in Nat /\ DOMAIN s = 1 .. Len(s) /\ \A i \in 1 .. Len(s) : s[i] \in S
  BY LenProperties, ElementOfSeq
<1> QED
  BY <1>1 DEF Elements, ToSet, IsInjective, Distinct

(* The empty list. *)
LEMMA EmptyList ==
    ASSUME NEW S
    PROVE  Distinct(<<>>, S) /\ Elements(<<>>) = {} /\ <<>> \in Seq(S)
<1>1. <<>> \in Seq(S) /\ Len(<<>>) = 0
  BY EmptySeq
<1> QED
  BY <1>1 DEF Distinct, Elements

(* A new element at the end of a list. *)
LEMMA ListAppend ==
    ASSUME NEW S, NEW s \in Seq(S), NEW x \in S
    PROVE  /\ Append(s, x) \in Seq(S) /\ Elements(Append(s, x)) = Elements(s) \union {x}
           /\ Distinct(s, S) /\ x \notin Elements(s) => Distinct(Append(s, x), S)
<1> DEFINE t == Append(s, x)
<1>1. /\ t \in Seq(S) /\ Len(s) \in Nat /\ Len(t) = Len(s) + 1
      /\ (\A i \in 1 .. Len(s) : t[i] = s[i]) /\ t[Len(s) + 1] = x
  BY AppendProperties, LenProperties
<1> HIDE DEF t
<1>2. \A i \in 1 .. Len(t) : i \in 1 .. Len(s) \/ i = Len(s) + 1
  BY <1>1
<1>3. Len(s) + 1 \in 1 .. Len(t) /\ 1 .. Len(s) \subseteq 1 .. Len(t)
  BY <1>1
<1>4. Elements(t) = Elements(s) \union {x}
  <2>1. ASSUME NEW y \in Elements(t) PROVE y \in Elements(s) \union {x}
    BY <1>1, <1>2 DEF Elements
  <2>2. ASSUME NEW y \in Elements(s) PROVE y \in Elements(t)
    <3>1. PICK i \in 1 .. Len(s) : y = s[i]
      BY DEF Elements
    <3> QED
      BY <1>1, <1>3, <3>1 DEF Elements
  <2>3. x \in Elements(t)
    BY <1>1, <1>3 DEF Elements
  <2> QED
    BY <2>1, <2>2, <2>3
<1>5. ASSUME Distinct(s, S), x \notin Elements(s) PROVE Distinct(t, S)
  <2>1. \A i \in 1 .. Len(s) : s[i] # x
    BY <1>5 DEF Elements
  <2>2. ASSUME NEW i \in 1 .. Len(t), NEW j \in 1 .. Len(t), t[i] = t[j] PROVE i = j
    BY <1>1, <1>2, <1>5, <2>1, <2>2 DEF Distinct
  <2> QED
    BY <1>1, <2>2 DEF Distinct
<1> QED
  BY <1>1, <1>4, <1>5 DEF t

(* Two lists, one after the other. *)
LEMMA ListConcat ==
    ASSUME NEW S, NEW s \in Seq(S), NEW u \in Seq(S)
    PROVE  /\ s \o u \in Seq(S) /\ Elements(s \o u) = Elements(s) \union Elements(u)
           /\ Distinct(s, S) /\ Distinct(u, S) /\ Elements(s) \intersect Elements(u) = {}
                => Distinct(s \o u, S)
<1> DEFINE t == s \o u
           a == Len(s)
           b == Len(u)
<1>1. /\ t \in Seq(S) /\ a \in Nat /\ b \in Nat /\ Len(t) = a + b
      /\ \A i \in 1 .. a + b : t[i] = IF i <= a THEN s[i] ELSE u[i - a]
  BY ConcatProperties, LenProperties
<1> HIDE DEF t
<1>2. \A i \in 1 .. a + b : (i <= a /\ i \in 1 .. a) \/ (~(i <= a) /\ i - a \in 1 .. b)
  BY <1>1
<1>3. (\A i \in 1 .. a : i \in 1 .. a + b /\ i <= a)
      /\ \A i \in 1 .. b : i + a \in 1 .. a + b /\ ~(i + a <= a) /\ (i + a) - a = i
  BY <1>1
<1>4. ASSUME NEW y \in Elements(t) PROVE y \in Elements(s) \union Elements(u)
  <2>1. PICK i \in 1 .. a + b : y = t[i]
    BY <1>1 DEF Elements
  <2> QED
    BY <2>1, <1>1, <1>2 DEF Elements
<1>5. ASSUME NEW y \in Elements(s) PROVE y \in Elements(t)
  <2>1. PICK i \in 1 .. a : y = s[i]
    BY DEF Elements
  <2>2. i \in 1 .. Len(t) /\ t[i] = y
    BY <1>1, <1>3, <2>1
  <2> QED
    BY <2>2 DEF Elements
<1>6. ASSUME NEW y \in Elements(u) PROVE y \in Elements(t)
  <2>1. PICK i \in 1 .. b : y = u[i]
    BY DEF Elements
  <2>2. i + a \in 1 .. Len(t) /\ t[i + a] = y
    BY <1>1, <1>3, <2>1
  <2> QED
    BY <2>2 DEF Elements
<1>7. ASSUME Distinct(s, S), Distinct(u, S), Elements(s) \intersect Elements(u) = {}
      PROVE  Distinct(t, S)
  <2>1. \A i \in 1 .. a, j \in 1 .. b : s[i] # u[j]
    BY <1>7 DEF Elements
  <2>2. ASSUME NEW i \in 1 .. Len(t), NEW j \in 1 .. Len(t), t[i] = t[j] PROVE i = j
    <3>1. i \in 1 .. a + b /\ j \in 1 .. a + b
      BY <1>1
    <3>2. CASE i <= a /\ j <= a
      BY <1>1, <1>2, <1>7, <2>2, <3>1, <3>2 DEF Distinct
    <3>3. CASE i <= a /\ ~(j <= a)
      BY <1>1, <1>2, <2>1, <2>2, <3>1, <3>3
    <3>4. CASE ~(i <= a) /\ j <= a
      BY <1>1, <1>2, <2>1, <2>2, <3>1, <3>4
    <3>5. CASE ~(i <= a) /\ ~(j <= a)
      <4>1. i - a \in 1 .. b /\ j - a \in 1 .. b /\ u[i - a] = u[j - a]
        BY <1>1, <1>2, <2>2, <3>1, <3>5
      <4>2. i - a = j - a
        BY <1>7, <4>1 DEF Distinct
      <4> QED
        BY <1>1, <3>1, <4>2
    <3> QED
      BY <3>2, <3>3, <3>4, <3>5
  <2> QED
    BY <1>1, <2>2 DEF Distinct
<1> QED
  BY <1>1, <1>4, <1>5, <1>6, <1>7 DEF t

(* A list without its head. *)
LEMMA ListTail ==
    ASSUME NEW S, NEW s, Distinct(s, S), s # <<>>
    PROVE  /\ Head(s) \in Elements(s) /\ Head(s) \in S
           /\ Distinct(Tail(s), S) /\ Elements(Tail(s)) = Elements(s) \ {Head(s)}
<1> DEFINE t == Tail(s)
           n == Len(s)
<1>1. s \in Seq(S)
  BY DEF Distinct
<1>2. /\ n \in Nat \ {0} /\ t \in Seq(S) /\ Len(t) = n - 1 /\ Head(s) = s[1] /\ Head(s) \in S
      /\ \A i \in 1 .. Len(t) : t[i] = s[i + 1]
  BY <1>1, EmptySeq, HeadTailProperties, LenProperties
<1> HIDE DEF t
<1>3. \A i \in 1 .. Len(t) : i + 1 \in 1 .. n /\ i + 1 # 1
  BY <1>2
<1>4. 1 \in 1 .. n /\ \A i \in 1 .. n : i = 1 \/ (i - 1 \in 1 .. Len(t) /\ (i - 1) + 1 = i)
  BY <1>2
<1>5. ASSUME NEW y \in Elements(t) PROVE y \in Elements(s) /\ y # Head(s)
  <2>1. PICK i \in 1 .. Len(t) : y = t[i]
    BY DEF Elements
  <2>2. i + 1 \in 1 .. n /\ y = s[i + 1] /\ i + 1 # 1
    BY <1>2, <1>3, <2>1
  <2> QED
    BY <1>2, <1>4, <2>2 DEF Distinct, Elements
<1>6. ASSUME NEW y \in Elements(s), y # Head(s) PROVE y \in Elements(t)
  <2>1. PICK i \in 1 .. n : y = s[i]
    BY DEF Elements
  <2>2. i # 1
    BY <1>2, <1>6, <2>1
  <2>3. i - 1 \in 1 .. Len(t) /\ t[i - 1] = y
    BY <1>2, <1>4, <2>1, <2>2
  <2> QED
    BY <2>3 DEF Elements
<1>7. ASSUME NEW i \in 1 .. Len(t), NEW j \in 1 .. Len(t), t[i] = t[j] PROVE i = j
  <2>1. i + 1 = j + 1
    BY <1>2, <1>3, <1>7 DEF Distinct
  <2> QED
    BY <2>1
<1>8. Head(s) \in Elements(s)
  BY <1>2, <1>4 DEF Elements
<1> QED
  BY <1>2, <1>5, <1>6, <1>7, <1>8 DEF t, Distinct

(* A list without its element at i. *)
LEMMA ListRemove ==
    ASSUME NEW S, NEW s, Distinct(s, S), NEW i \in 1 .. Len(s)
    PROVE  /\ Distinct(RemoveAt(s, i), S)
           /\ Elements(RemoveAt(s, i)) = Elements(s) \ {s[i]}
<1> DEFINE a == SubSeq(s, 1, i - 1)
           b == SubSeq(s, i + 1, Len(s))
           n == Len(s)
<1>1. s \in Seq(S) /\ n \in Nat /\ \A j \in 1 .. n : s[j] \in S
  BY LenProperties, ElementOfSeq DEF Distinct
<1>2. /\ a \in Seq(S) /\ Len(a) = i - 1 /\ \A j \in 1 .. i - 1 : a[j] = s[j]
  <2>1. 1 \in Int /\ i - 1 \in Int /\ \A j \in 1 .. i - 1 : s[j] \in S
    BY <1>1
  <2> HIDE DEF a
  <2>2. /\ a \in Seq(S) /\ Len(a) = (IF 1 <= i - 1 THEN (i - 1) - 1 + 1 ELSE 0)
        /\ \A j \in 1 .. (i - 1) - 1 + 1 : a[j] = s[1 + j - 1]
    BY <2>1, SubSeqProperties DEF a
  <2> QED
    BY <2>2, <1>1
<1>3. /\ b \in Seq(S) /\ Len(b) = n - i /\ \A j \in 1 .. n - i : b[j] = s[i + j]
  <2>1. i + 1 \in Int /\ n \in Int /\ \A j \in i + 1 .. n : s[j] \in S
    BY <1>1
  <2> HIDE DEF b
  <2>2. /\ b \in Seq(S) /\ Len(b) = (IF i + 1 <= n THEN n - (i + 1) + 1 ELSE 0)
        /\ \A j \in 1 .. n - (i + 1) + 1 : b[j] = s[(i + 1) + j - 1]
    BY <2>1, SubSeqProperties DEF b
  <2> QED
    BY <2>2, <1>1
<1> HIDE DEF a, b
<1>4. (\A j \in 1 .. i - 1 : j \in 1 .. n /\ j # i)
      /\ \A j \in 1 .. n - i : i + j \in 1 .. n /\ i + j # i
  BY <1>1
<1>5. Distinct(a, S)
  BY <1>2, <1>4 DEF Distinct
<1>6. ASSUME NEW j \in 1 .. Len(b), NEW k \in 1 .. Len(b), b[j] = b[k] PROVE j = k
  <2>1. i + j = i + k
    BY <1>3, <1>4, <1>6 DEF Distinct
  <2> QED
    BY <1>1, <1>3, <2>1
<1>7. Elements(a) \intersect Elements(b) = {}
  <2>1. ASSUME NEW j \in 1 .. i - 1, NEW k \in 1 .. n - i PROVE a[j] # b[k]
    <3>1. j # i + k
      BY <1>1
    <3> QED
      BY <1>2, <1>3, <1>4, <3>1 DEF Distinct
  <2> QED
    BY <1>2, <1>3, <2>1 DEF Elements
<1>8. Elements(a) \union Elements(b) = Elements(s) \ {s[i]}
  <2>1. \A j \in 1 .. n : j = i \/ j \in 1 .. i - 1 \/ (j - i \in 1 .. n - i /\ i + (j - i) = j)
    BY <1>1
  <2>2. ASSUME NEW y \in Elements(s), y # s[i] PROVE y \in Elements(a) \union Elements(b)
    <3>1. PICK j \in 1 .. n : y = s[j]
      BY DEF Elements
    <3>2. CASE j \in 1 .. i - 1
      BY <1>2, <3>1, <3>2 DEF Elements
    <3>3. CASE j - i \in 1 .. n - i /\ i + (j - i) = j
      <4>1. b[j - i] = y
        BY <1>3, <3>1, <3>3
      <4> QED
        BY <1>3, <3>3, <4>1 DEF Elements
    <3> QED
      BY <2>1, <2>2, <3>1, <3>2, <3>3
  <2>3. ASSUME NEW y \in Elements(a) PROVE y \in Elements(s) \ {s[i]}
    <3>1. PICK j \in 1 .. i - 1 : y = s[j]
      BY <1>2 DEF Elements
    <3> QED
      BY <1>4, <3>1 DEF Elements, Distinct
  <2>4. ASSUME NEW y \in Elements(b) PROVE y \in Elements(s) \ {s[i]}
    <3>1. PICK j \in 1 .. n - i : y = s[i + j]
      BY <1>3 DEF Elements
    <3> QED
      BY <1>4, <3>1 DEF Elements, Distinct
  <2> QED
    BY <2>2, <2>3, <2>4
<1> QED
  <2>1. RemoveAt(s, i) = a \o b
    BY DEF RemoveAt, a, b
  <2>2. Distinct(b, S)
    BY <1>3, <1>6 DEF Distinct
  <2>3. Distinct(a \o b, S) /\ Elements(a \o b) = Elements(a) \union Elements(b)
    BY <1>2, <1>3, <1>5, <1>7, <2>2, ListConcat
  <2> QED
    BY <1>8, <2>1, <2>3

(* The list of a finite set. *)
LEMMA SetList ==
    ASSUME NEW S, IsFiniteSet(S)
    PROVE  Distinct(SetToSeq(S), S) /\ Elements(SetToSeq(S)) = S
<1> DEFINE c == Cardinality(S)
           s == SetToSeq(S)
<1>1. c \in Nat /\ ExistsBijection(1 .. c, S)
  BY FS_CardinalityType
<1>2. PICK f \in Bijection(1 .. c, S) : TRUE
  BY <1>1, Fun_ExistsBij
<1>3. f \in [1 .. c -> S] /\ IsInjective(f)
  BY <1>2, Fun_BijectionProperties DEF Injection
<1>4. s \in [1 .. c -> S] /\ IsInjective(s)
  BY <1>3 DEF SetToSeq
<1> HIDE DEF s
<1>5. s \in Injection(1 .. c, S)
  BY <1>4 DEF Injection
<1>6. Cardinality(1 .. c) = c
  BY <1>1, FS_Interval
<1>7. s \in Surjection(1 .. c, S)
  BY <1>5, <1>6, FS_Injection
<1>8. \A x \in S : \E i \in 1 .. c : s[i] = x
  BY <1>7 DEF Surjection
<1>9. s \in Seq(S)
  BY <1>1, <1>4, SeqDef
<1>10. Len(s) = c
  BY <1>1, <1>4, <1>9, LenProperties
<1>11. \A i, j \in 1 .. c : s[i] = s[j] => i = j
  BY <1>4 DEF IsInjective
<1>12. \A i \in 1 .. c : s[i] \in S
  BY <1>4
<1> HIDE DEF c
<1> QED
  BY <1>8, <1>9, <1>10, <1>11, <1>12 DEF Distinct, Elements, s

-----------------------------------------------------------------------------
(* The graph, as an operator of its edges. *)

Into(E, n) == {e \in E : e[2] = n}
OutOf(E, n) == {e \in E : e[1] = n}
Unknown(E, f, n) == \E e \in Into(E, n) : f[e] = "unknown"
Taken(E, f, n) == \E e \in Into(E, n) : f[e] = "taken"
Ready(E, f, n) == Into(E, n) = {} \/ (~Unknown(E, f, n) /\ Taken(E, f, n))

(* Every incoming edge of n is skipped, and there is one. *)
AllSkip(E, f, n) == Into(E, n) # {} /\ \A e \in Into(E, n) : f[e] = "skipped"

EdgeState == {"unknown", "taken", "skipped"}
TraversalState(E) == [ns : [AllNodes -> EdgeState], es : [E -> EdgeState], queue : Seq(AllNodes)]

(* The ends of an edge are nodes, the tail before the head: none leads to 1. *)
LEMMA EdgeFields ==
    ASSUME NEW e \in EdgeIds
    PROVE  /\ e[1] \in AllNodes /\ e[2] \in AllNodes /\ e[1] < e[2] /\ e[2] # 1
           /\ e[1] \in Nat /\ e[2] \in Nat
BY TraversalConstants DEF EdgeIds, AllNodes

(* There are finitely many edges, whatever the graph. *)
LEMMA EdgesFinite == IsFiniteSet(EdgeIds)
<1> DEFINE T == AllNodes \X AllNodes \X Handles
           pair == [e \in T |-> <<<<e[1], e[2]>>, e[3]>>]
<1>1. IsFiniteSet(AllNodes) /\ IsFiniteSet(Handles)
  BY TraversalConstants, FS_Interval DEF AllNodes, Handles
<1>2. IsFiniteSet((AllNodes \X AllNodes) \X Handles)
  BY <1>1, FS_Product
<1>3. pair \in Injection(T, (AllNodes \X AllNodes) \X Handles)
  BY DEF Injection, IsInjective
<1>4. IsFiniteSet(T)
  BY <1>2, <1>3, FS_Injection
<1> QED
  BY <1>4, FS_Subset DEF EdgeIds

(* The operators of GraphStates say the same of this graph. *)
LEMMA GraphIs ==
    /\ \A n : G!get_incoming_edges(n) = Into(edges, n) /\ P!get_incoming_edges(n) = Into(edges, n)
    /\ \A n : G!get_outgoing_edges(n) = OutOf(edges, n) /\ P!get_outgoing_edges(n) = OutOf(edges, n)
    /\ \A f, n : /\ G!HasUnknown(f, n) <=> Unknown(edges, f, n)
                 /\ P!HasUnknown(f, n) <=> Unknown(edges, f, n)
                 /\ G!HasTaken(f, n) <=> Taken(edges, f, n)
                 /\ P!HasTaken(f, n) <=> Taken(edges, f, n)
                 /\ G!is_node_ready(f, n) <=> Ready(edges, f, n)
                 /\ P!is_node_ready(f, n) <=> Ready(edges, f, n)
<1>1. /\ \A n : G!get_incoming_edges(n) = Into(edges, n) /\ P!get_incoming_edges(n) = Into(edges, n)
      /\ \A n : G!get_outgoing_edges(n) = OutOf(edges, n) /\ P!get_outgoing_edges(n) = OutOf(edges, n)
  BY DEF G!get_incoming_edges, P!get_incoming_edges, G!get_outgoing_edges, P!get_outgoing_edges, Into, OutOf
<1>2. \A f, n : /\ G!HasUnknown(f, n) <=> Unknown(edges, f, n)
                /\ P!HasUnknown(f, n) <=> Unknown(edges, f, n)
                /\ G!HasTaken(f, n) <=> Taken(edges, f, n)
                /\ P!HasTaken(f, n) <=> Taken(edges, f, n)
  BY <1>1 DEF G!HasUnknown, P!HasUnknown, G!HasTaken, P!HasTaken, Unknown, Taken
<1> QED
  BY <1>1, <1>2 DEF G!is_node_ready, P!is_node_ready, Ready

(* So does the closed form. *)
LEMMA ClosedFormIs ==
    ASSUME NEW f, NEW D, NEW C
    PROVE  /\ G!skip_branch_paths(f, D) = P!skip_branch_paths(f, D)
           /\ G!EdgesAfter(f, D, C) = P!EdgesAfter(f, D, C)
           /\ G!WokenBySkip(f, D) = P!WokenBySkip(f, D)
           /\ G!ReadyAfter(f, D, C) = P!ReadyAfter(f, D, C)
           /\ G!mark_edges_skipped(f, D) = P!mark_edges_skipped(f, D)
<1>1. \A h : G!mark_edges_skipped(h, D) = P!mark_edges_skipped(h, D)
  BY DEF G!mark_edges_skipped, P!mark_edges_skipped
<1>2. \A h : G!SkippedNodes(h) = P!SkippedNodes(h)
  BY GraphIs DEF G!SkippedNodes, P!SkippedNodes, G!ClosedUnderSkip, P!ClosedUnderSkip
<1>3. G!skip_branch_paths(f, D) = P!skip_branch_paths(f, D)
  BY <1>1, <1>2 DEF G!skip_branch_paths, P!skip_branch_paths
<1>4. G!EdgesAfter(f, D, C) = P!EdgesAfter(f, D, C)
  BY <1>3 DEF G!EdgesAfter, P!EdgesAfter, G!mark_edges_taken, P!mark_edges_taken
<1>5. G!WokenBySkip(f, D) = P!WokenBySkip(f, D)
  BY <1>3, GraphIs DEF G!WokenBySkip, P!WokenBySkip
<1>6. G!ReadyAfter(f, D, C) = P!ReadyAfter(f, D, C)
  BY <1>4, GraphIs DEF G!ReadyAfter, P!ReadyAfter
<1> QED
  BY <1>1, <1>3, <1>4, <1>5, <1>6

-----------------------------------------------------------------------------
(* Part 2 *)

(* The states f of the edges before a walk, and the edges D it is told to  *)
(* skip: these are undecided, and so is every edge of a node that has      *)
(* undecided ones before it; a skipped node has skipped its edges.         *)
Base(f, D) ==
    /\ f \in [edges -> EdgeState] /\ D \subseteq edges
    /\ \A e \in D : f[e] = "unknown" /\ ~Unknown(edges, f, e[1])
    /\ \A e \in edges : f[e] # "unknown" => ~Unknown(edges, f, e[1])
    /\ \A n \in AllNodes : AllSkip(edges, f, n) => \A e \in OutOf(edges, n) : f[e] = "skipped"

(* The walk has come upon e. *)
Due(f, D, e) == e \in D \/ AllSkip(edges, f, e[1])

(* The nodes that the closed form skips. *)
Skipped(f, D) == P!SkippedNodes(P!mark_edges_skipped(f, D))

(* The nodes that a walk from f has woken when the states are g. *)
Woken(f, g) ==
    {n \in AllNodes : /\ ~Unknown(edges, g, n) /\ Taken(edges, g, n)
                      /\ \E e \in Into(edges, n) : g[e] # f[e]}

(* A walk that started from f to skip D has come to g, and has T to visit; *)
(* the edges of Y are due, too, but left to a later walk.                  *)
Reaching(f, D, g, T, Y) ==
    /\ g \in [edges -> EdgeState] /\ T \subseteq edges /\ Y \subseteq edges /\ T \intersect Y = {}
    /\ \A e \in edges : g[e] # f[e] => f[e] = "unknown" /\ g[e] = "skipped" /\ Due(g, D, e)
    /\ \A e \in T \union Y : g[e] = "unknown" /\ Due(g, D, e)
    /\ \A e \in edges : Due(g, D, e) => g[e] = "skipped" \/ e \in T \union Y
    /\ \A n \in AllNodes : AllSkip(edges, g, n) => n \in Skipped(f, D)

Walks == [st : TraversalState(edges), todo : Seq(edges)]

(* Such a walk, that started in state s and stands at w.                   *)
Walking(s, D, w, Y) ==
    /\ w \in Walks /\ Distinct(w.todo, edges)
    /\ Reaching(s.es, D, w.st.es, Elements(w.todo), Y)
    /\ \E L : Distinct(L, AllNodes) /\ w.st.queue = s.queue \o L /\ Elements(L) = Woken(s.es, w.st.es)
    /\ \A n \in AllNodes : w.st.ns[n] = "skipped" => s.ns[n] = "skipped" \/ AllSkip(edges, w.st.es, n)

(* A list of edges, in the order of the graph, names each of them once. *)
LEMMA OutgoingList ==
    ASSUME edges \subseteq EdgeIds, NEW S \in SUBSET edges
    PROVE  Distinct(EdgeList(S), edges) /\ Elements(EdgeList(S)) = S
<1>1. IsFiniteSet(S)
  BY EdgesFinite, FS_Subset
<1>2. Distinct(EdgeList(S), S) /\ Elements(EdgeList(S)) = S
  BY <1>1, SetList DEF EdgeList
<1>3. EdgeList(S) \in Seq(edges)
  BY <1>2, SeqMonotonic DEF Distinct
<1> QED
  BY <1>2, <1>3 DEF Distinct

(* The record that enqueue_node returns. *)
LEMMA EnqueueIs ==
    ASSUME NEW a, NEW f, NEW q, NEW n
    PROVE  enqueue_node([ns |-> a, es |-> f, queue |-> q], n)
             = [ns |-> [a EXCEPT ![n] = "taken"], es |-> f, queue |-> Append(q, n)]
<1>1. PICK s : s = [ns |-> a, es |-> f, queue |-> q]
  OBVIOUS
<1>2. PICK b : b = [a EXCEPT ![n] = "taken"]
  OBVIOUS
<1>3. PICK r : r = Append(q, n)
  OBVIOUS
<1>4. PICK t : t = [s EXCEPT !.ns = b, !.queue = r]
  OBVIOUS
<1>5. t = [ns |-> b, es |-> f, queue |-> r]
  BY <1>1, <1>4
<1>6. s.ns = a /\ s.queue = q
  BY <1>1
<1>7. enqueue_node(s, n) = t
  BY <1>2, <1>3, <1>4, <1>6 DEF enqueue_node
<1> QED
  BY <1>1, <1>2, <1>3, <1>5, <1>7

(* The record that mark_edge_skipped returns. *)
LEMMA MarkIs ==
    ASSUME NEW s \in TraversalState(edges), NEW e
    PROVE  mark_edge_skipped(s, e)
             = [ns |-> s.ns, es |-> [s.es EXCEPT ![e] = "skipped"], queue |-> s.queue]
<1>1. s = [ns |-> s.ns, es |-> s.es, queue |-> s.queue]
  BY DEF TraversalState
<1>2. [s EXCEPT !.es[e] = "skipped"] = [ns |-> s.ns, es |-> [s.es EXCEPT ![e] = "skipped"], queue |-> s.queue]
  BY <1>1
<1> QED
  BY <1>2 DEF mark_edge_skipped

(* The walk after the skip of a node: its edges are visited next. *)
LEMMA SkipNodeIs ==
    ASSUME NEW w, NEW n,
           w = [st |-> [ns |-> w.st.ns, es |-> w.st.es, queue |-> w.st.queue], todo |-> w.todo]
    PROVE  propagate_skip_to_node(w, n)
             = [st |-> [ns |-> [w.st.ns EXCEPT ![n] = "skipped"], es |-> w.st.es, queue |-> w.st.queue],
                todo |-> Outgoing(n) \o w.todo]
<1>1. PICK s : s = w.st
  OBVIOUS
<1>2. s = [ns |-> s.ns, es |-> s.es, queue |-> s.queue]
  BY <1>1
<1>3. mark_node_skipped(s, n) = [ns |-> [s.ns EXCEPT ![n] = "skipped"], es |-> s.es, queue |-> s.queue]
  BY <1>2 DEF mark_node_skipped
<1> QED
  BY <1>1, <1>3 DEF propagate_skip_to_node

(* What a turn does: the next edge e is skipped; its head n is left alone, *)
(* woken or skipped, by what is now known of its incoming edges.           *)
LEMMA VisitIs ==
    ASSUME edges \subseteq EdgeIds, NEW w \in Walks,
           w.todo # <<>>, NEW e \in edges, e = Head(w.todo), NEW n \in AllNodes, n = e[2],
           NEW f, f = [w.st.es EXCEPT ![e] = "skipped"]
    PROVE  visit(w) =
               IF Unknown(edges, f, n)
               THEN [st |-> [ns |-> w.st.ns, es |-> f, queue |-> w.st.queue], todo |-> Tail(w.todo)]
               ELSE IF Taken(edges, f, n)
               THEN [st |-> [ns |-> [w.st.ns EXCEPT ![n] = "taken"], es |-> f,
                             queue |-> Append(w.st.queue, n)],
                     todo |-> Tail(w.todo)]
               ELSE [st |-> [ns |-> [w.st.ns EXCEPT ![n] = "skipped"], es |-> f, queue |-> w.st.queue],
                     todo |-> Outgoing(n) \o Tail(w.todo)]
<1> USE DEF Walks
<1>1. PICK s1 : s1 = [ns |-> w.st.ns, es |-> f, queue |-> w.st.queue]
  OBVIOUS
<1>2. mark_edge_skipped(w.st, e) = s1
  BY <1>1, MarkIs
<1>3. IncomingStates(s1, n) = {f[g] : g \in Into(edges, n)}
  BY <1>1, GraphIs DEF IncomingStates
<1>4. /\ "unknown" \in IncomingStates(s1, n) <=> Unknown(edges, f, n)
      /\ "taken" \in IncomingStates(s1, n) <=> Taken(edges, f, n)
  BY <1>3 DEF Unknown, Taken
<1>5. PICK w1 : w1 = [st |-> s1, todo |-> Tail(w.todo)]
  OBVIOUS
<1>6. visit(w) = propagate_skip_from_edge(w1, e)
  BY <1>2, <1>5 DEF visit
<1>7. w1.st = s1 /\ w1.todo = Tail(w.todo)
  BY <1>5
<1>8. enqueue_node(s1, n) = [ns |-> [w.st.ns EXCEPT ![n] = "taken"], es |-> f,
                             queue |-> Append(w.st.queue, n)]
  <2>1. PICK a : a = w.st.ns
    OBVIOUS
  <2>2. PICK q : q = w.st.queue
    OBVIOUS
  <2>3. s1 = [ns |-> a, es |-> f, queue |-> q]
    BY <1>1, <2>1, <2>2
  <2>4. enqueue_node([ns |-> a, es |-> f, queue |-> q], n)
          = [ns |-> [a EXCEPT ![n] = "taken"], es |-> f, queue |-> Append(q, n)]
    BY ONLY EnqueueIs
  <2> QED
    BY <2>1, <2>2, <2>3, <2>4
<1>10. propagate_skip_from_edge(w1, e) =
           IF Unknown(edges, f, n) THEN w1
           ELSE IF Taken(edges, f, n) THEN [w1 EXCEPT !.st = enqueue_node(s1, n)]
           ELSE propagate_skip_to_node(w1, n)
  BY <1>4, <1>7 DEF propagate_skip_from_edge
<1>11. [w1 EXCEPT !.st = enqueue_node(s1, n)] = [st |-> enqueue_node(s1, n), todo |-> Tail(w.todo)]
  <2>1. \A q, t : [[st |-> s1, todo |-> t] EXCEPT !.st = q] = [st |-> q, todo |-> t]
    OBVIOUS
  <2> QED
    BY <1>5, <2>1
<1>12. propagate_skip_to_node(w1, n)
          = [st |-> [ns |-> [w.st.ns EXCEPT ![n] = "skipped"], es |-> f, queue |-> w.st.queue],
             todo |-> Outgoing(n) \o Tail(w.todo)]
  <2>1. /\ w1.st.ns = w.st.ns /\ w1.st.es = f /\ w1.st.queue = w.st.queue /\ w1.todo = Tail(w.todo)
        /\ w1 = [st |-> [ns |-> w1.st.ns, es |-> w1.st.es, queue |-> w1.st.queue], todo |-> w1.todo]
    BY <1>1, <1>5
  <2>2. propagate_skip_to_node(w1, n)
          = [st |-> [ns |-> [w1.st.ns EXCEPT ![n] = "skipped"], es |-> w1.st.es, queue |-> w1.st.queue],
             todo |-> Outgoing(n) \o w1.todo]
    BY <2>1, SkipNodeIs
  <2> QED
    BY <2>1, <2>2
<1> QED
  BY <1>1, <1>5, <1>6, <1>8, <1>10, <1>11, <1>12

(* The turn of the other loop skips the head only if every incoming edge is.*)
LEMMA DownIs ==
    ASSUME edges \subseteq EdgeIds, NEW w \in Walks,
           w.todo # <<>>, NEW e \in edges, e = Head(w.todo), NEW n \in AllNodes, n = e[2],
           NEW f, f = [w.st.es EXCEPT ![e] = "skipped"]
    PROVE  visit_downstream(w) =
               IF AllSkip(edges, f, n)
               THEN [st |-> [ns |-> [w.st.ns EXCEPT ![n] = "skipped"], es |-> f, queue |-> w.st.queue],
                     todo |-> Outgoing(n) \o Tail(w.todo)]
               ELSE [st |-> [ns |-> w.st.ns, es |-> f, queue |-> w.st.queue], todo |-> Tail(w.todo)]
<1>1. PICK s1 : s1 = [ns |-> w.st.ns, es |-> f, queue |-> w.st.queue]
  OBVIOUS
<1>2. mark_edge_skipped(w.st, e) = s1
  BY <1>1, MarkIs DEF Walks
<1>3. IncomingStates(s1, n) = {f[g] : g \in Into(edges, n)}
  BY <1>1, GraphIs DEF IncomingStates
<1>4. IncomingStates(s1, n) = {"skipped"} <=> AllSkip(edges, f, n)
  BY <1>3 DEF AllSkip
<1>5. PICK w1 : w1 = [st |-> s1, todo |-> Tail(w.todo)]
  OBVIOUS
<1>6. w1.st = s1
  BY <1>5
<1>7. visit_downstream(w) = IF AllSkip(edges, f, n) THEN propagate_skip_to_node(w1, n) ELSE w1
  BY <1>2, <1>4, <1>5, <1>6 DEF visit_downstream
<1>8. propagate_skip_to_node(w1, n)
          = [st |-> [ns |-> [w.st.ns EXCEPT ![n] = "skipped"], es |-> f, queue |-> w.st.queue],
             todo |-> Outgoing(n) \o Tail(w.todo)]
  <2>1. /\ w1.st.ns = w.st.ns /\ w1.st.es = f /\ w1.st.queue = w.st.queue /\ w1.todo = Tail(w.todo)
        /\ w1 = [st |-> [ns |-> w1.st.ns, es |-> w1.st.es, queue |-> w1.st.queue], todo |-> w1.todo]
    BY <1>1, <1>5
  <2>2. propagate_skip_to_node(w1, n)
          = [st |-> [ns |-> [w1.st.ns EXCEPT ![n] = "skipped"], es |-> w1.st.es, queue |-> w1.st.queue],
             todo |-> Outgoing(n) \o w1.todo]
    BY <2>1, SkipNodeIs
  <2> QED
    BY <2>1, <2>2
<1> QED
  BY <1>1, <1>5, <1>7, <1>8

(* A turn of either loop keeps the types. *)
LEMMA TurnTypes ==
    ASSUME edges \subseteq EdgeIds, NEW w \in Walks
    PROVE  visit(w) \in Walks /\ visit_downstream(w) \in Walks
<1>1. CASE w.todo = <<>>
  BY <1>1 DEF visit, visit_downstream
<1>2. CASE w.todo # <<>>
  <2>1. /\ w.st.ns \in [AllNodes -> EdgeState] /\ w.st.es \in [edges -> EdgeState]
        /\ w.st.queue \in Seq(AllNodes) /\ w.todo \in Seq(edges)
    BY DEF Walks, TraversalState
  <2>2. PICK e \in edges : e = Head(w.todo)
    BY <1>2, <2>1, HeadTailProperties
  <2>3. PICK n \in AllNodes : n = e[2]
    BY EdgeFields
  <2>4. PICK f \in [edges -> EdgeState] : f = [w.st.es EXCEPT ![e] = "skipped"]
    BY <2>1 DEF EdgeState
  <2>5. PICK t \in Seq(edges) : t = Tail(w.todo)
    BY <1>2, <2>1, HeadTailProperties
  <2>6. PICK u \in Seq(edges) : u = Outgoing(n) \o t
    <3>1. Outgoing(n) = EdgeList(OutOf(edges, n))
      BY GraphIs DEF Outgoing
    <3>2. Outgoing(n) \in Seq(edges)
      BY <3>1, OutgoingList DEF OutOf, Distinct
    <3> QED
      BY <3>2, ConcatProperties
  <2>7. PICK q \in Seq(AllNodes) : q = Append(w.st.queue, n)
    BY <2>1, AppendProperties
  <2>8. PICK a \in [AllNodes -> EdgeState] : a = [w.st.ns EXCEPT ![n] = "skipped"]
    BY <2>1 DEF EdgeState
  <2>9. PICK b \in [AllNodes -> EdgeState] : b = [w.st.ns EXCEPT ![n] = "taken"]
    BY <2>1 DEF EdgeState
  <2>10. /\ [st |-> [ns |-> w.st.ns, es |-> f, queue |-> w.st.queue], todo |-> t] \in Walks
         /\ [st |-> [ns |-> b, es |-> f, queue |-> q], todo |-> t] \in Walks
         /\ [st |-> [ns |-> a, es |-> f, queue |-> w.st.queue], todo |-> u] \in Walks
    BY <2>1 DEF Walks, TraversalState
  <2>11. visit(w) \in Walks
    <3>1. visit(w) = IF Unknown(edges, f, n)
                     THEN [st |-> [ns |-> w.st.ns, es |-> f, queue |-> w.st.queue], todo |-> t]
                     ELSE IF Taken(edges, f, n)
                     THEN [st |-> [ns |-> b, es |-> f, queue |-> q], todo |-> t]
                     ELSE [st |-> [ns |-> a, es |-> f, queue |-> w.st.queue], todo |-> u]
      <4>1. visit(w) =
               IF Unknown(edges, f, n)
               THEN [st |-> [ns |-> w.st.ns, es |-> f, queue |-> w.st.queue], todo |-> Tail(w.todo)]
               ELSE IF Taken(edges, f, n)
               THEN [st |-> [ns |-> [w.st.ns EXCEPT ![n] = "taken"], es |-> f,
                             queue |-> Append(w.st.queue, n)],
                     todo |-> Tail(w.todo)]
               ELSE [st |-> [ns |-> [w.st.ns EXCEPT ![n] = "skipped"], es |-> f, queue |-> w.st.queue],
                     todo |-> Outgoing(n) \o Tail(w.todo)]
        BY <1>2, <2>2, <2>3, <2>4, VisitIs
      <4> QED
        BY <2>5, <2>6, <2>7, <2>8, <2>9, <4>1
    <3> QED
      BY <2>10, <3>1
  <2>12. visit_downstream(w) \in Walks
    <3>1. visit_downstream(w) = IF AllSkip(edges, f, n)
                     THEN [st |-> [ns |-> a, es |-> f, queue |-> w.st.queue], todo |-> u]
                     ELSE [st |-> [ns |-> w.st.ns, es |-> f, queue |-> w.st.queue], todo |-> t]
      <4>1. visit_downstream(w) =
               IF AllSkip(edges, f, n)
               THEN [st |-> [ns |-> [w.st.ns EXCEPT ![n] = "skipped"], es |-> f, queue |-> w.st.queue],
                     todo |-> Outgoing(n) \o Tail(w.todo)]
               ELSE [st |-> [ns |-> w.st.ns, es |-> f, queue |-> w.st.queue], todo |-> Tail(w.todo)]
        BY <1>2, <2>2, <2>3, <2>4, DownIs
      <4> QED
        BY <2>5, <2>6, <2>8, <4>1
    <3> QED
      BY <2>10, <3>1
  <2> QED
    BY <2>11, <2>12
<1> QED
  BY <1>1, <1>2

(* The states f become g: e, which leads to n and was undecided, is skipped. *)
Skips(f, e, g, n) ==
    /\ g \in [edges -> EdgeState] /\ g[e] = "skipped"
    /\ \A x \in edges : x # e => g[x] = f[x]
    /\ \A m : Taken(edges, g, m) <=> Taken(edges, f, m)
    /\ \A m : m # n => /\ \A x \in Into(edges, m) : x # e
                       /\ Unknown(edges, g, m) <=> Unknown(edges, f, m)
                       /\ AllSkip(edges, g, m) <=> AllSkip(edges, f, m)
    /\ n \in AllNodes /\ e \in Into(edges, n)
    /\ Unknown(edges, f, n) /\ ~AllSkip(edges, f, n)
    /\ AllSkip(edges, g, n) <=> ~Unknown(edges, g, n) /\ ~Taken(edges, g, n)

(* What changes when an undecided edge is skipped: only its head may now   *)
(* have nothing undecided before it.                                       *)
LEMMA SkipOne ==
    ASSUME edges \subseteq EdgeIds, NEW f \in [edges -> EdgeState], NEW e \in edges, f[e] = "unknown",
           NEW g, g = [f EXCEPT ![e] = "skipped"], NEW n, n = e[2]
    PROVE  Skips(f, e, g, n)
<1>1. g \in [edges -> EdgeState] /\ g[e] = "skipped" /\ \A x \in edges : x # e => g[x] = f[x]
  BY DEF EdgeState
<1> HIDE DEF EdgeState
<1>2. \A m : \A x \in Into(edges, m) : x \in edges /\ x[2] = m
  BY DEF Into
<1>3. \A m : m # n => \A x \in Into(edges, m) : x # e /\ g[x] = f[x]
  BY <1>1, <1>2
<1>4. n \in AllNodes /\ e \in Into(edges, n)
  BY EdgeFields DEF Into
<1>5. \A m : Taken(edges, g, m) <=> Taken(edges, f, m)
  <2>1. \A x \in edges : g[x] = "taken" <=> f[x] = "taken"
    BY <1>1
  <2> QED
    BY <1>2, <2>1 DEF Taken
<1>6. \A m : m # n => /\ Unknown(edges, g, m) <=> Unknown(edges, f, m)
                      /\ AllSkip(edges, g, m) <=> AllSkip(edges, f, m)
  BY <1>3 DEF Unknown, AllSkip
<1>7. Unknown(edges, f, n) /\ ~AllSkip(edges, f, n)
  BY <1>4 DEF Unknown, AllSkip
<1>8. AllSkip(edges, g, n) <=> ~Unknown(edges, g, n) /\ ~Taken(edges, g, n)
  <2>1. \A x \in edges : g[x] \in {"unknown", "taken", "skipped"}
    BY <1>1 DEF EdgeState
  <2> QED
    BY <1>2, <1>4, <2>1 DEF Unknown, AllSkip, Taken
<1> QED
  BY <1>1, <1>3, <1>4, <1>5, <1>6, <1>7, <1>8 DEF Skips

(* The edge e is skipped next, with head n.                                *)
ReachesOn(f, D, g, T, Y, e, n) ==
    /\ Unknown(edges, g, n) \/ Taken(edges, g, n) => Reaching(f, D, g, T \ {e}, Y)
    /\ AllSkip(edges, g, n) => /\ Reaching(f, D, g, OutOf(edges, n) \union (T \ {e}), Y)
                               /\ OutOf(edges, n) \intersect T = {}

(* Skipping the next edge keeps the walk on its way: if that skips the     *)
(* head of the edge, its edges are new ones to visit.                      *)
LEMMA ReachNext ==
    ASSUME edges \subseteq EdgeIds, NEW f, NEW D, Base(f, D), NEW h, NEW T, NEW Y, Reaching(f, D, h, T, Y),
           NEW e \in T, NEW n, n = e[2], NEW g, Skips(h, e, g, n)
    PROVE  ReachesOn(f, D, g, T, Y, e, n)
<1>1. /\ f \in [edges -> EdgeState] /\ h \in [edges -> EdgeState] /\ e \in edges /\ T \subseteq edges
      /\ D \subseteq edges /\ Y \subseteq edges /\ T \intersect Y = {} /\ h[e] = "unknown" /\ Due(h, D, e)
  BY DEF Base, Reaching
<1>2. /\ g \in [edges -> EdgeState] /\ g[e] = "skipped"
      /\ \A x \in edges : x # e => g[x] = h[x]
      /\ \A m : m # n => (AllSkip(edges, g, m) <=> AllSkip(edges, h, m))
      /\ n \in AllNodes /\ e \in Into(edges, n)
      /\ Unknown(edges, h, n) /\ ~AllSkip(edges, h, n)
      /\ AllSkip(edges, g, n) <=> ~Unknown(edges, g, n) /\ ~Taken(edges, g, n)
  BY <1>1 DEF Skips
<1>3. \A x \in edges : (Due(g, D, x) <=> Due(h, D, x) \/ (x[1] = n /\ AllSkip(edges, g, n)))
  BY <1>2 DEF Due
<1>4. ASSUME NEW x \in edges, g[x] # f[x]
      PROVE  f[x] = "unknown" /\ g[x] = "skipped" /\ Due(g, D, x)
  <2>1. f[e] = "unknown"
    BY <1>1 DEF Reaching
  <2>2. CASE x = e
    BY <1>1, <1>2, <1>3, <2>1, <2>2
  <2>3. CASE x # e
    <3>1. h[x] # f[x] /\ g[x] = h[x]
      BY <1>2, <1>4, <2>3
    <3> QED
      BY <1>3, <3>1 DEF Reaching
  <2> QED
    BY <2>2, <2>3
<1>5. ASSUME NEW x \in (T \ {e}) \union Y PROVE g[x] = "unknown" /\ Due(g, D, x)
  <2>1. x \in edges /\ x # e /\ x \in T \union Y
    BY <1>1
  <2> QED
    BY <1>2, <1>3, <2>1 DEF Reaching
<1>6. ASSUME NEW x \in edges, Due(h, D, x) PROVE g[x] = "skipped" \/ x \in (T \ {e}) \union Y
  <2>1. h[x] = "skipped" \/ x \in T \union Y
    BY <1>6 DEF Reaching
  <2> QED
    BY <1>1, <1>2, <2>1
<1>7. ASSUME Unknown(edges, g, n) \/ Taken(edges, g, n) PROVE Reaching(f, D, g, T \ {e}, Y)
  <2>1. ~AllSkip(edges, g, n) /\ \A m : AllSkip(edges, g, m) => AllSkip(edges, h, m)
    BY <1>2, <1>7
  <2>2. \A x \in edges : Due(g, D, x) => g[x] = "skipped" \/ x \in (T \ {e}) \union Y
    BY <1>3, <1>6, <2>1
  <2>3. \A m \in AllNodes : AllSkip(edges, g, m) => m \in Skipped(f, D)
    BY <2>1 DEF Reaching
  <2> QED
    BY <1>1, <1>2, <1>4, <1>5, <2>2, <2>3 DEF Reaching
<1>8. ASSUME AllSkip(edges, g, n)
      PROVE  /\ Reaching(f, D, g, OutOf(edges, n) \union (T \ {e}), Y)
             /\ OutOf(edges, n) \intersect T = {}
  <2>1. f[e] = "unknown" /\ Unknown(edges, f, n)
    BY <1>1, <1>2 DEF Reaching, Unknown
  <2>2. ASSUME NEW x \in OutOf(edges, n)
        PROVE  x \in edges /\ x # e /\ x \notin T \union Y /\ g[x] = "unknown" /\ Due(g, D, x)
    <3>1. x \in edges /\ x[1] = n
      BY DEF OutOf
    <3>2. x # e
      <4>1. e[1] < e[2] /\ e[1] \in Nat /\ e[2] \in Nat
        BY <1>1, EdgeFields
      <4> QED
        BY <3>1, <4>1
    <3>3. f[x] = "unknown" /\ x \notin D
      BY <2>1, <3>1 DEF Base
    <3>4. ~Due(h, D, x)
      BY <1>2, <3>1, <3>3 DEF Due
    <3>5. h[x] = "unknown"
      <4>1. h[x] # f[x] => Due(h, D, x)
        BY <3>1 DEF Reaching
      <4> QED
        BY <3>3, <3>4, <4>1
    <3>6. x \notin T \union Y
      BY <3>4 DEF Reaching
    <3>7. Due(g, D, x)
      BY <1>8, <3>1 DEF Due
    <3> QED
      BY <1>2, <3>1, <3>2, <3>5, <3>6, <3>7
  <2>3. \A x \in edges : Due(g, D, x) => g[x] = "skipped" \/ x \in (OutOf(edges, n) \union (T \ {e})) \union Y
    BY <1>3, <1>6 DEF OutOf
  <2>4. n \in Skipped(f, D)
    <3>1. ASSUME NEW x \in Into(edges, n)
          PROVE  P!mark_edges_skipped(f, D)[x] = "skipped" \/ x[1] \in Skipped(f, D)
      <4>1. x \in edges /\ g[x] = "skipped"
        BY <1>8 DEF AllSkip, Into
      <4>2. P!mark_edges_skipped(f, D)[x] = IF x \in D THEN "skipped" ELSE f[x]
        BY <4>1 DEF P!mark_edges_skipped
      <4>3. x[1] \in AllNodes
        BY <4>1, EdgeFields
      <4>4. CASE f[x] = "skipped"
        BY <4>2, <4>4
      <4>5. CASE f[x] # "skipped"
        <5>1. Due(h, D, x)
          <6>1. CASE x = e
            BY <1>1, <6>1
          <6>2. CASE x # e
            <7>1. h[x] # f[x]
              BY <1>2, <4>1, <4>5, <6>2
            <7> QED
              BY <4>1, <7>1 DEF Reaching
          <6> QED
            BY <6>1, <6>2
        <5>2. x \in D \/ AllSkip(edges, h, x[1])
          BY <5>1 DEF Due
        <5> QED
          BY <4>2, <4>3, <5>2 DEF Reaching
      <4> QED
        BY <4>4, <4>5
    <3>2. Into(edges, n) # {} /\ \A x \in Into(edges, n) : [y \in edges |-> y[1]][x] = x[1]
      BY <1>2 DEF Into
    <3>3. P!AllSkipped(P!mark_edges_skipped(f, D), Skipped(f, D), n)
      BY <3>1, <3>2, GraphIs DEF P!AllSkipped
    <3> QED
      BY <1>2, <3>3, P!SkippedClosed DEF Skipped
  <2>5. \A m \in AllNodes : AllSkip(edges, g, m) => m \in Skipped(f, D)
    <3>1. \A m \in AllNodes : m # n /\ AllSkip(edges, g, m) => AllSkip(edges, h, m)
      BY <1>2
    <3> QED
      BY <2>4, <3>1 DEF Reaching
  <2>6. OutOf(edges, n) \intersect T = {} /\ OutOf(edges, n) \intersect Y = {} /\ OutOf(edges, n) \subseteq edges
    BY <2>2
  <2>7. \A x \in (OutOf(edges, n) \union (T \ {e})) \union Y : g[x] = "unknown" /\ Due(g, D, x)
    BY <1>5, <2>2
  <2> QED
    BY <1>1, <1>2, <1>4, <2>3, <2>5, <2>6, <2>7 DEF Reaching
<1> QED
  BY <1>7, <1>8 DEF ReachesOn

(* What the walk has woken grows by n, if n is woken now.                  *)
LEMMA WokenNext ==
    ASSUME edges \subseteq EdgeIds, NEW f, NEW D, NEW h, NEW T, NEW Y, Reaching(f, D, h, T, Y),
           f \in [edges -> EdgeState],
           NEW e \in T, NEW n, n = e[2], NEW g, Skips(h, e, g, n)
    PROVE  /\ n \notin Woken(f, h) /\ n \in AllNodes
           /\ Woken(f, g) = Woken(f, h) \union {m \in {n} : ~Unknown(edges, g, n) /\ Taken(edges, g, n)}
<1>1. h \in [edges -> EdgeState] /\ e \in edges /\ h[e] = "unknown"
  BY DEF Reaching
<1>2. Skips(h, e, g, n)
  OBVIOUS
<1>3. n \notin Woken(f, h)
  BY <1>2 DEF Skips, Woken
<1>4. f[e] # g[e]
  BY <1>1, <1>2 DEF Skips, Reaching
<1>5. ASSUME NEW m \in AllNodes, m # n PROVE m \in Woken(f, g) <=> m \in Woken(f, h)
  <2>1. \A x \in Into(edges, m) : g[x] = h[x]
    BY <1>2, <1>5 DEF Skips, Into
  <2> QED
    BY <1>2, <1>5, <2>1 DEF Skips, Woken
<1>6. n \in Woken(f, g) <=> ~Unknown(edges, g, n) /\ Taken(edges, g, n)
  BY <1>2, <1>4 DEF Skips, Woken
<1>7. Woken(f, g) \subseteq AllNodes /\ Woken(f, h) \subseteq AllNodes /\ n \in AllNodes
  BY <1>2 DEF Woken, Skips
<1> QED
  BY <1>3, <1>5, <1>6, <1>7

(* A turn of the loop keeps the walk on its way, and decides the edge it   *)
(* visits.                                                                 *)
LEMMA VisitKeeps ==
    ASSUME edges \subseteq EdgeIds, NEW s \in TraversalState(edges), NEW D, Base(s.es, D),
           NEW w, NEW Y, Walking(s, D, w, Y), w.todo # <<>>
    PROVE  /\ Walking(s, D, visit(w), Y)
           /\ Head(w.todo) \in edges /\ w.st.es[Head(w.todo)] = "unknown"
           /\ visit(w).st.es = [w.st.es EXCEPT ![Head(w.todo)] = "skipped"]
<1>1. PICK e : e = Head(w.todo)
  OBVIOUS
<1>2. PICK n : n = e[2]
  OBVIOUS
<1>3. PICK h : h = w.st.es
  OBVIOUS
<1>4. PICK g : g = [h EXCEPT ![e] = "skipped"]
  OBVIOUS
<1>5. PICK T : T = Elements(w.todo)
  OBVIOUS
<1>6. PICK f : f = s.es
  OBVIOUS
<1>7. PICK L : Distinct(L, AllNodes) /\ w.st.queue = s.queue \o L /\ Elements(L) = Woken(f, h)
  BY <1>3, <1>6 DEF Walking
<1>8. /\ w \in Walks /\ w.st \in TraversalState(edges) /\ Distinct(w.todo, edges)
      /\ w.st.ns \in [AllNodes -> EdgeState] /\ w.st.queue \in Seq(AllNodes) /\ w.todo \in Seq(edges)
  BY DEF Walking, Walks, TraversalState
<1>9. Reaching(f, D, h, T, Y) /\ f \in [edges -> EdgeState] /\ Base(f, D)
  BY <1>3, <1>5, <1>6 DEF Walking, TraversalState
<1>10. e \in T /\ e \in edges /\ h[e] = "unknown" /\ h \in [edges -> EdgeState]
  BY <1>1, <1>5, <1>8, <1>9, ListTail DEF Reaching
<1>11. Distinct(Tail(w.todo), edges) /\ Elements(Tail(w.todo)) = T \ {e}
  BY <1>1, <1>5, <1>8, ListTail
<1>12. Skips(h, e, g, n)
  BY <1>2, <1>4, <1>10, SkipOne
<1>13. n \in AllNodes /\ g \in [edges -> EdgeState]
  BY <1>12 DEF Skips
<1>14. /\ Unknown(edges, g, n) \/ Taken(edges, g, n) => Reaching(f, D, g, T \ {e}, Y)
       /\ AllSkip(edges, g, n) => /\ Reaching(f, D, g, OutOf(edges, n) \union (T \ {e}), Y)
                                  /\ OutOf(edges, n) \intersect T = {}
  <2>1. ReachesOn(f, D, g, T, Y, e, n)
    BY <1>2, <1>9, <1>10, <1>12, ReachNext
  <2> QED
    BY <2>1 DEF ReachesOn
<1>15. /\ n \notin Woken(f, h)
       /\ Woken(f, g) = Woken(f, h) \union {m \in {n} : ~Unknown(edges, g, n) /\ Taken(edges, g, n)}
  BY <1>2, <1>9, <1>10, <1>12, WokenNext
<1>16. \A m \in AllNodes : AllSkip(edges, h, m) => AllSkip(edges, g, m)
  BY <1>12 DEF Skips
<1>17. visit(w) =
           IF Unknown(edges, g, n)
           THEN [st |-> [ns |-> w.st.ns, es |-> g, queue |-> w.st.queue], todo |-> Tail(w.todo)]
           ELSE IF Taken(edges, g, n)
           THEN [st |-> [ns |-> [w.st.ns EXCEPT ![n] = "taken"], es |-> g,
                         queue |-> Append(w.st.queue, n)],
                 todo |-> Tail(w.todo)]
           ELSE [st |-> [ns |-> [w.st.ns EXCEPT ![n] = "skipped"], es |-> g, queue |-> w.st.queue],
                 todo |-> Outgoing(n) \o Tail(w.todo)]
  BY <1>1, <1>2, <1>3, <1>4, <1>8, <1>10, <1>13, VisitIs
<1>18. \A m \in AllNodes : w.st.ns[m] = "skipped" => s.ns[m] = "skipped" \/ AllSkip(edges, g, m)
  BY <1>3, <1>16 DEF Walking
<1>19. Tail(w.todo) \in Seq(edges)
  BY <1>11 DEF Distinct
<1>20. CASE Unknown(edges, g, n)
  <2>1. PICK v : v = visit(w)
    OBVIOUS
  <2>2. /\ v = [st |-> [ns |-> w.st.ns, es |-> g, queue |-> w.st.queue], todo |-> Tail(w.todo)]
        /\ v.st.ns = w.st.ns /\ v.st.es = g /\ v.st.queue = w.st.queue /\ v.todo = Tail(w.todo)
    BY <1>17, <1>20, <2>1
  <2>3. v \in Walks
    BY <1>8, <1>13, <1>19, <2>2 DEF Walks, TraversalState
  <2>4. Elements(L) = Woken(f, g)
    BY <1>7, <1>15, <1>20
  <2>5. Reaching(s.es, D, v.st.es, Elements(v.todo), Y)
    BY <1>6, <1>11, <1>14, <1>20, <2>2
  <2>6. Walking(s, D, v, Y)
    BY <1>6, <1>7, <1>11, <1>18, <2>2, <2>3, <2>4, <2>5 DEF Walking
  <2> QED
    BY <1>1, <1>3, <1>4, <1>10, <2>1, <2>2, <2>6
<1>21. CASE ~Unknown(edges, g, n) /\ Taken(edges, g, n)
  <2>1. PICK v : v = visit(w)
    OBVIOUS
  <2>2. PICK a : a = [w.st.ns EXCEPT ![n] = "taken"]
    OBVIOUS
  <2>3. /\ v = [st |-> [ns |-> a, es |-> g, queue |-> Append(w.st.queue, n)], todo |-> Tail(w.todo)]
        /\ v.st.ns = a /\ v.st.es = g /\ v.st.queue = Append(w.st.queue, n) /\ v.todo = Tail(w.todo)
    <3>1. PICK q : q = Append(w.st.queue, n)
      OBVIOUS
    <3>2. v = [st |-> [ns |-> a, es |-> g, queue |-> q], todo |-> Tail(w.todo)]
      BY <1>17, <1>21, <2>1, <2>2, <3>1
    <3>3. v.st.ns = a /\ v.st.es = g /\ v.st.queue = q /\ v.todo = Tail(w.todo)
      BY <3>2
    <3> QED
      BY <3>1, <3>2, <3>3
  <2>4. a \in [AllNodes -> EdgeState] /\ \A m \in AllNodes : a[m] = "skipped" => w.st.ns[m] = "skipped"
    BY <1>8, <1>13, <2>2 DEF EdgeState
  <2>5. v \in Walks
    <3>1. Append(w.st.queue, n) \in Seq(AllNodes)
      BY <1>8, <1>13, AppendProperties
    <3> QED
      BY <1>13, <1>19, <2>3, <2>4, <3>1 DEF Walks, TraversalState
  <2>6. /\ Distinct(Append(L, n), AllNodes) /\ Elements(Append(L, n)) = Woken(f, g)
        /\ v.st.queue = s.queue \o Append(L, n)
    <3>1. L \in Seq(AllNodes) /\ s.queue \in Seq(AllNodes)
      BY <1>7 DEF Distinct, TraversalState
    <3>2. Append(s.queue \o L, n) = s.queue \o Append(L, n)
      <4>1. L \o <<n>> = Append(L, n) /\ (s.queue \o L) \o <<n>> = Append(s.queue \o L, n)
        BY <1>13, <3>1, ConcatProperties, AppendIsConcat
      <4>2. (s.queue \o L) \o <<n>> = s.queue \o (L \o <<n>>)
        <5>1. <<n>> \in Seq(AllNodes)
          BY <1>13
        <5>2. s.queue \in Seq(AllNodes) /\ L \in Seq(AllNodes)
          BY <3>1
        <5>3. PICK x \in Seq(AllNodes) : x = s.queue
          BY <5>2
        <5>4. PICK y \in Seq(AllNodes) : y = <<n>>
          BY <5>1
        <5>5. (x \o L) \o y = x \o (L \o y)
          BY <5>2, ConcatAssociative
        <5> QED
          BY <5>3, <5>4, <5>5
      <4> QED
        BY <4>1, <4>2
    <3>3. n \notin Elements(L) /\ Elements(L) \union {n} = Woken(f, g)
      BY <1>7, <1>15, <1>21
    <3>4. Distinct(Append(L, n), AllNodes) /\ Elements(Append(L, n)) = Elements(L) \union {n}
      BY <1>7, <1>13, <3>1, <3>3, ListAppend
    <3> QED
      BY <1>7, <2>3, <3>2, <3>3, <3>4
  <2>7. Reaching(s.es, D, v.st.es, Elements(v.todo), Y)
    BY <1>6, <1>11, <1>14, <1>21, <2>3
  <2>8. Walking(s, D, v, Y)
    BY <1>6, <1>11, <1>18, <2>3, <2>4, <2>5, <2>6, <2>7 DEF Walking
  <2> QED
    BY <1>1, <1>3, <1>4, <1>10, <2>1, <2>3, <2>8
<1>22. CASE ~Unknown(edges, g, n) /\ ~Taken(edges, g, n)
  <2>1. PICK v : v = visit(w)
    OBVIOUS
  <2>2. PICK a : a = [w.st.ns EXCEPT ![n] = "skipped"]
    OBVIOUS
  <2>3. PICK t : t = Outgoing(n) \o Tail(w.todo)
    OBVIOUS
  <2>4. /\ v = [st |-> [ns |-> a, es |-> g, queue |-> w.st.queue], todo |-> t]
        /\ v.st.ns = a /\ v.st.es = g /\ v.st.queue = w.st.queue /\ v.todo = t
    BY <1>17, <1>22, <2>1, <2>2, <2>3
  <2>5. AllSkip(edges, g, n)
    BY <1>12, <1>22 DEF Skips
  <2>6. /\ a \in [AllNodes -> EdgeState]
        /\ \A m \in AllNodes : a[m] = "skipped" => w.st.ns[m] = "skipped" \/ m = n
    BY <1>8, <1>13, <2>2 DEF EdgeState
  <2>7. /\ Distinct(t, edges) /\ t \in Seq(edges)
        /\ Elements(t) = OutOf(edges, n) \union (T \ {e})
    <3>1. Outgoing(n) = EdgeList(OutOf(edges, n))
      BY GraphIs DEF Outgoing
    <3>2. Distinct(Outgoing(n), edges) /\ Elements(Outgoing(n)) = OutOf(edges, n)
      BY <3>1, OutgoingList DEF OutOf
    <3>3. OutOf(edges, n) \intersect (T \ {e}) = {}
      BY <1>14, <2>5
    <3>4. Outgoing(n) \in Seq(edges)
      BY <3>2 DEF Distinct
    <3>5. PICK a1 : a1 = Outgoing(n)
      OBVIOUS
    <3>6. PICK b1 : b1 = Tail(w.todo)
      OBVIOUS
    <3>7. /\ a1 \in Seq(edges) /\ b1 \in Seq(edges) /\ Distinct(a1, edges) /\ Distinct(b1, edges)
          /\ Elements(a1) \intersect Elements(b1) = {}
      BY <1>11, <1>19, <3>2, <3>3, <3>4, <3>5, <3>6
    <3>8. Distinct(a1 \o b1, edges) /\ Elements(a1 \o b1) = Elements(a1) \union Elements(b1)
      BY <3>7, ListConcat
    <3>9. a1 \o b1 \in Seq(edges)
      BY <3>8 DEF Distinct
    <3> QED
      BY <1>11, <2>3, <3>2, <3>5, <3>6, <3>8, <3>9
  <2>8. v \in Walks
    BY <1>8, <1>13, <2>4, <2>6, <2>7 DEF Walks, TraversalState
  <2>9. Elements(L) = Woken(f, g)
    BY <1>7, <1>15, <1>22
  <2>10. Reaching(s.es, D, v.st.es, Elements(v.todo), Y)
    BY <1>6, <1>14, <2>4, <2>5, <2>7
  <2>11. \A m \in AllNodes : v.st.ns[m] = "skipped" => s.ns[m] = "skipped" \/ AllSkip(edges, v.st.es, m)
    BY <1>18, <2>4, <2>5, <2>6
  <2>12. Walking(s, D, v, Y)
    BY <1>6, <1>7, <2>4, <2>7, <2>8, <2>9, <2>10, <2>11 DEF Walking
  <2> QED
    BY <1>1, <1>3, <1>4, <1>10, <2>1, <2>4, <2>12
<1> QED
  BY <1>20, <1>21, <1>22

(* Each turn decides one edge: after as many turns as there are edges,     *)
(* nothing is left to visit.                                               *)
LEMMA WalkEnds ==
    ASSUME edges \subseteq EdgeIds, NEW s \in TraversalState(edges), NEW D, Base(s.es, D),
           NEW Y, NEW F, Walking(s, D, F[0], Y),
           \A k \in 1 .. Cardinality(edges) : Walking(s, D, F[k - 1], Y) => F[k] = visit(F[k - 1])
    PROVE  /\ Walking(s, D, F[Cardinality(edges)], Y)
           /\ F[Cardinality(edges)].todo = <<>>
<1> DEFINE m == Cardinality(edges)
           U(w) == {e \in edges : w.st.es[e] = "unknown"}
           Good(k) == F[k].todo = <<>> \/ Cardinality(U(F[k])) + k <= m
           S == {k \in Nat : k <= m => Walking(s, D, F[k], Y) /\ Good(k)}
<1>1. IsFiniteSet(edges) /\ m \in Nat
  BY EdgesFinite, FS_Subset, FS_CardinalityType
<1>2. \A w : IsFiniteSet(U(w)) /\ Cardinality(U(w)) \in Nat /\ Cardinality(U(w)) <= m
  BY <1>1, FS_Subset, FS_CardinalityType
<1> HIDE DEF m
<1>3. 0 \in S
  <2>1. Cardinality(U(F[0])) + 0 <= m
    <3> HIDE DEF U
    <3> QED
      BY <1>1, <1>2
  <2> QED
    BY <2>1
<1>4. ASSUME NEW k \in Nat, k \in S PROVE k + 1 \in S
  <2>1. SUFFICES ASSUME k + 1 <= m PROVE Walking(s, D, F[k + 1], Y) /\ Good(k + 1)
    OBVIOUS
  <2>2. k <= m /\ k + 1 \in 1 .. m /\ (k + 1) - 1 = k
    BY <1>1, <2>1
  <2>3. Walking(s, D, F[k], Y) /\ Good(k)
    BY <1>4, <2>2
  <2>4. F[k + 1] = visit(F[k])
    BY <2>2, <2>3 DEF m
  <2>5. CASE F[k].todo = <<>>
    <3>1. F[k + 1] = F[k]
      BY <2>4, <2>5 DEF visit
    <3> QED
      BY <2>3, <2>5, <3>1
  <2>6. CASE F[k].todo # <<>>
    <3>1. PICK e : e = Head(F[k].todo)
      OBVIOUS
    <3>2. /\ Walking(s, D, F[k + 1], Y) /\ e \in edges /\ F[k].st.es[e] = "unknown"
          /\ F[k + 1].st.es = [F[k].st.es EXCEPT ![e] = "skipped"]
      <4>1. PICK w : w = F[k]
        OBVIOUS
      <4>2. Walking(s, D, w, Y) /\ w.todo # <<>> /\ e = Head(w.todo) /\ F[k + 1] = visit(w)
        BY <2>3, <2>4, <2>6, <3>1, <4>1
      <4>3. /\ Walking(s, D, visit(w), Y)
            /\ Head(w.todo) \in edges /\ w.st.es[Head(w.todo)] = "unknown"
            /\ visit(w).st.es = [w.st.es EXCEPT ![Head(w.todo)] = "skipped"]
        BY <4>2, VisitKeeps
      <4> QED
        BY <4>1, <4>2, <4>3
    <3>3. F[k].st.es \in [edges -> EdgeState]
      BY <2>3 DEF Walking, Reaching
    <3>4. U(F[k + 1]) = U(F[k]) \ {e} /\ e \in U(F[k])
      BY <3>2, <3>3 DEF EdgeState
    <3> HIDE DEF U
    <3>5. Cardinality(U(F[k + 1])) = Cardinality(U(F[k])) - 1
      BY <1>2, <3>4, FS_RemoveElement
    <3>6. Cardinality(U(F[k])) + k <= m
      BY <2>3, <2>6
    <3>7. Cardinality(U(F[k + 1])) + (k + 1) <= m
      BY <1>1, <1>2, <3>5, <3>6
    <3> QED
      BY <3>2, <3>7
  <2> QED
    BY <2>5, <2>6
<1>5. \A k \in Nat : k \in S
  <2> HIDE DEF S
  <2> QED
    BY <1>3, <1>4, P!SetInduction
<1>6. Walking(s, D, F[m], Y) /\ Good(m)
  <2>1. m \in S
    BY <1>1, <1>5
  <2> QED
    BY <1>1, <2>1
<1>7. F[m].todo = <<>>
  <2>1. SUFFICES ASSUME Cardinality(U(F[m])) + m <= m, F[m].todo # <<>> PROVE FALSE
    BY <1>6
  <2>2. Cardinality(U(F[m])) = 0
    <3> HIDE DEF U
    <3> QED
      BY <1>1, <1>2, <2>1
  <2>3. U(F[m]) = {}
    BY <1>2, <2>2, FS_EmptySet
  <2>4. Head(F[m].todo) \in edges /\ F[m].st.es[Head(F[m].todo)] = "unknown"
    BY <1>6, <2>1, VisitKeeps
  <2> QED
    BY <2>3, <2>4
<1> QED
  BY <1>6, <1>7 DEF m

(* The loops, as the functions of their turns that they are.               *)
LEMMA SkipLoop ==
    ASSUME edges \subseteq EdgeIds, NEW s \in TraversalState(edges), NEW list \in Seq(edges)
    PROVE  \E F : /\ F[0] = [st |-> s, todo |-> list]
                  /\ \A k \in 1 .. Cardinality(edges) : F[k] = visit(F[k - 1])
                  /\ skip_branch_paths(s, list) = F[Cardinality(edges)].st
<1> DEFINE w == [st |-> s, todo |-> list]
           m == Cardinality(edges)
           Seen(F) == F = [k \in 0 .. m |-> IF k = 0 THEN w ELSE visit(F[k - 1])]
           g == [p \in (Nat \ {0}) \X Walks |-> visit(p[2])]
<1>1. m \in Nat
  BY EdgesFinite, FS_Subset, FS_CardinalityType
<1>2. w \in Walks
  BY DEF Walks
<1> HIDE DEF m
<1>3. \A k \in Nat \ {0} : \A v \in Walks : g[<<k, v>>] = visit(v) /\ g[<<k, v>>] \in Walks
  BY TurnTypes
<1> HIDE DEF w, g
<1>4. PICK F \in [0 .. m -> Walks] : P!Iterates(F, w, g, m)
  BY <1>1, <1>2, <1>3, P!Iterate
<1>5. ASSUME NEW k \in 0 .. m
      PROVE  (IF k = 0 THEN w ELSE g[<<k, F[k - 1]>>]) = (IF k = 0 THEN w ELSE visit(F[k - 1]))
  <2>1. CASE k # 0
    <3>1. k \in Nat \ {0} /\ k - 1 \in 0 .. m
      BY <1>1, <2>1
    <3> QED
      BY <1>3, <2>1, <3>1
  <2> QED
    BY <2>1
<1>6. Seen(F)
  BY <1>4, <1>5 DEF P!Iterates
<1> DEFINE H == CHOOSE f : Seen(f)
<1>7. Seen(H)
  BY <1>6
<1>8. skip_branch_paths(s, list) = H[m].st
  BY DEF skip_branch_paths, w, m
<1> HIDE DEF H
<1>9. H[0] = w /\ \A k \in 1 .. m : H[k] = visit(H[k - 1])
  <2>1. \A k \in 0 .. m : H[k] = IF k = 0 THEN w ELSE visit(H[k - 1])
    BY <1>7
  <2>2. 0 \in 0 .. m /\ \A k \in 1 .. m : k \in 0 .. m /\ k # 0
    BY <1>1
  <2> QED
    BY <2>1, <2>2
<1> QED
  BY <1>8, <1>9 DEF w, m

(* mark_downstream as the states of its loop, turn by turn. *)
LEMMA DownLoop ==
    ASSUME edges \subseteq EdgeIds, NEW s \in TraversalState(edges), NEW n, s.ns[n] = "skipped"
    PROVE  \E F : /\ F[0] = [st |-> s, todo |-> Outgoing(n)]
                  /\ \A k \in 1 .. Cardinality(edges) : F[k] = visit_downstream(F[k - 1])
                  /\ mark_downstream(s, n) = F[Cardinality(edges)].st
<1> DEFINE w == [st |-> s, todo |-> Outgoing(n)]
           m == Cardinality(edges)
           Seen(F) == F = [k \in 0 .. m |-> IF k = 0 THEN w ELSE visit_downstream(F[k - 1])]
           g == [p \in (Nat \ {0}) \X Walks |-> visit_downstream(p[2])]
<1>1. m \in Nat
  BY EdgesFinite, FS_Subset, FS_CardinalityType
<1>2. w \in Walks
  <2>1. Outgoing(n) = EdgeList(OutOf(edges, n))
    BY GraphIs DEF Outgoing
  <2>2. Outgoing(n) \in Seq(edges)
    BY <2>1, OutgoingList DEF OutOf, Distinct
  <2> QED
    BY <2>2 DEF Walks
<1> HIDE DEF m
<1>3. \A k \in Nat \ {0} : \A v \in Walks : g[<<k, v>>] = visit_downstream(v) /\ g[<<k, v>>] \in Walks
  BY TurnTypes
<1> HIDE DEF w, g
<1>4. PICK F \in [0 .. m -> Walks] : P!Iterates(F, w, g, m)
  BY <1>1, <1>2, <1>3, P!Iterate
<1>5. ASSUME NEW k \in 0 .. m
      PROVE  (IF k = 0 THEN w ELSE g[<<k, F[k - 1]>>]) = (IF k = 0 THEN w ELSE visit_downstream(F[k - 1]))
  <2>1. CASE k # 0
    <3>1. k \in Nat \ {0} /\ k - 1 \in 0 .. m
      BY <1>1, <2>1
    <3> QED
      BY <1>3, <2>1, <3>1
  <2> QED
    BY <2>1
<1>6. Seen(F)
  BY <1>4, <1>5 DEF P!Iterates
<1> DEFINE H == CHOOSE f : Seen(f)
<1>7. Seen(H)
  BY <1>6
<1>8. mark_downstream(s, n) = H[m].st
  BY DEF mark_downstream, w, m
<1> HIDE DEF H
<1>9. H[0] = w /\ \A k \in 1 .. m : H[k] = visit_downstream(H[k - 1])
  <2>1. \A k \in 0 .. m : H[k] = IF k = 0 THEN w ELSE visit_downstream(H[k - 1])
    BY <1>7
  <2>2. 0 \in 0 .. m /\ \A k \in 1 .. m : k \in 0 .. m /\ k # 0
    BY <1>1
  <2> QED
    BY <2>1, <2>2
<1> QED
  BY <1>8, <1>9 DEF w, m

(* A walk that has nothing left to visit, and has left nothing to others,  *)
(* ends in the closed form.                                                *)
LEMMA ReachEnd ==
    ASSUME edges \subseteq EdgeIds, NEW f, NEW D, Base(f, D), NEW g, Reaching(f, D, g, {}, {})
    PROVE  /\ g = P!skip_branch_paths(f, D)
           /\ Woken(f, g) = P!WokenBySkip(f, D)
           /\ \A n : n \in Skipped(f, D) <=> n \in AllNodes /\ AllSkip(edges, g, n)
<1> DEFINE S == {n \in AllNodes : AllSkip(edges, g, n)}
           marked == P!mark_edges_skipped(f, D)
<1>1. /\ f \in [edges -> EdgeState] /\ D \subseteq edges /\ g \in [edges -> EdgeState]
      /\ \A e \in edges : g[e] # f[e] => f[e] = "unknown" /\ g[e] = "skipped" /\ Due(g, D, e)
      /\ \A e \in edges : Due(g, D, e) => g[e] = "skipped"
      /\ \A n \in AllNodes : AllSkip(edges, g, n) => n \in Skipped(f, D)
  BY DEF Base, Reaching
<1>2. \A e \in edges : e[1] \in AllNodes /\ marked[e] = IF e \in D THEN "skipped" ELSE f[e]
  BY EdgeFields DEF P!mark_edges_skipped
<1> HIDE DEF marked
<1>3. ASSUME NEW n \in AllNodes, Into(edges, n) # {},
             \A e \in Into(edges, n) : marked[e] = "skipped" \/ e[1] \in S
      PROVE  n \in S
  <2>1. ASSUME NEW e \in Into(edges, n) PROVE g[e] = "skipped"
    <3>1. e \in edges
      BY DEF Into
    <3>2. CASE e[1] \in S
      BY <1>1, <3>1, <3>2 DEF Due
    <3>3. CASE e \in D
      BY <1>1, <3>1, <3>3 DEF Due
    <3>4. CASE e \notin D /\ f[e] = "skipped"
      <4>1. g[e] = f[e]
        BY <1>1, <3>1, <3>4
      <4> QED
        BY <3>4, <4>1
    <3> QED
      BY <1>2, <1>3, <3>1, <3>2, <3>3, <3>4
  <2> QED
    BY <1>3, <2>1 DEF AllSkip
<1>4. P!ClosedUnderSkip(marked, S)
  <2>1. \A n : \A e \in Into(edges, n) : [y \in edges |-> y[1]][e] = e[1]
    BY DEF Into
  <2> HIDE DEF S
  <2> QED
    BY <1>3, <2>1, GraphIs DEF P!ClosedUnderSkip
<1>5. Skipped(f, D) = S
  <2>1. S \in SUBSET AllNodes
    OBVIOUS
  <2>2. Skipped(f, D) \subseteq S
    BY <1>4, <2>1, P!SkippedBelow DEF Skipped, marked
  <2> QED
    BY <1>1, <2>2
<1>6. ASSUME NEW e \in edges
      PROVE  g[e] = IF e[1] \in Skipped(f, D) THEN "skipped" ELSE marked[e]
  <2>1. CASE e[1] \in S
    BY <1>1, <1>5, <2>1 DEF Due
  <2>2. CASE e[1] \notin S
    <3>1. CASE e \in D
      BY <1>1, <1>2, <1>5, <2>2, <3>1 DEF Due
    <3>2. CASE e \notin D
      <4>1. ~Due(g, D, e)
        BY <1>2, <2>2, <3>2 DEF Due
      <4> QED
        BY <1>1, <1>2, <1>5, <2>2, <3>2, <4>1
    <3> QED
      BY <3>1, <3>2
  <2> QED
    BY <2>1, <2>2
<1>7. g = P!skip_branch_paths(f, D)
  <2>1. P!skip_branch_paths(f, D)
          = [e \in edges |-> IF e[1] \in Skipped(f, D) THEN "skipped" ELSE marked[e]]
    BY DEF P!skip_branch_paths, Skipped, marked
  <2>2. g = [e \in edges |-> g[e]]
    BY <1>1
  <2> QED
    BY <1>6, <2>1, <2>2
<1>8. Woken(f, g) = P!WokenBySkip(f, D)
  <2>1. \A n : \A e \in Into(edges, n) : g[e] # f[e] <=> f[e] # "skipped" /\ g[e] = "skipped"
    BY <1>1 DEF Into
  <2>2. P!WokenBySkip(f, D) =
           {n \in AllNodes : /\ \E e \in Into(edges, n) : f[e] # "skipped" /\ g[e] = "skipped"
                             /\ ~Unknown(edges, g, n) /\ Taken(edges, g, n)}
    BY <1>7, GraphIs DEF P!WokenBySkip
  <2> QED
    BY <2>1, <2>2 DEF Woken
<1> QED
  BY <1>5, <1>7, <1>8

(* A walk that starts is on its way. *)
LEMMA WalkStart ==
    ASSUME edges \subseteq EdgeIds, NEW s \in TraversalState(edges), NEW D, Base(s.es, D),
           NEW list, Distinct(list, edges), NEW Y, Elements(list) \union Y = D,
           Elements(list) \intersect Y = {}
    PROVE  Walking(s, D, [st |-> s, todo |-> list], Y)
<1> DEFINE f == s.es
           w == [st |-> s, todo |-> list]
<1>1. /\ f \in [edges -> EdgeState] /\ s.queue \in Seq(AllNodes) /\ list \in Seq(edges)
      /\ D \subseteq edges
  BY DEF TraversalState, Distinct, Base
<1>2. w \in Walks
  BY <1>1 DEF Walks
<1>3. ASSUME NEW n \in AllNodes, AllSkip(edges, f, n) PROVE n \in Skipped(f, D)
  <2>1. \A e \in Into(edges, n) : e \in edges /\ f[e] = "skipped"
    BY <1>3 DEF AllSkip, Into
  <2>2. \A e \in Into(edges, n) : P!mark_edges_skipped(f, D)[e] = "skipped"
    BY <2>1 DEF P!mark_edges_skipped
  <2>3. P!AllSkipped(P!mark_edges_skipped(f, D), Skipped(f, D), n)
    BY <1>3, <2>2, GraphIs DEF P!AllSkipped, AllSkip
  <2> QED
    BY <2>3, P!SkippedClosed DEF Skipped
<1>4. \A e \in D : f[e] = "unknown" /\ Due(f, D, e)
  BY DEF Base, Due
<1>5. \A e \in edges : Due(f, D, e) => f[e] = "skipped" \/ e \in D
  <2>1. ASSUME NEW e \in edges, AllSkip(edges, f, e[1]) PROVE f[e] = "skipped"
    <3>1. e[1] \in AllNodes /\ e \in OutOf(edges, e[1])
      BY EdgeFields DEF OutOf
    <3> QED
      BY <2>1, <3>1 DEF Base
  <2> QED
    BY <2>1 DEF Due
<1>6. Elements(list) \subseteq edges
  BY <1>1, ElementsIn
<1>7. Reaching(f, D, f, Elements(list), Y)
  BY <1>1, <1>3, <1>4, <1>5, <1>6 DEF Reaching
<1>8. Distinct(<<>>, AllNodes) /\ s.queue = s.queue \o <<>> /\ Elements(<<>>) = Woken(f, f)
  <2>1. Woken(f, f) = {}
    BY DEF Woken
  <2>2. PICK q \in Seq(AllNodes) : q = s.queue
    BY <1>1
  <2>3. q = q \o <<>>
    BY ConcatEmptySeq
  <2> QED
    BY <2>1, <2>2, <2>3, EmptyList
<1> QED
  BY <1>2, <1>7, <1>8 DEF Walking

(* The state r once the edges of D, and what only they reach, are skipped. *)
SkippedFrom(s, D, r) ==
    /\ r \in TraversalState(edges) /\ r.es = P!skip_branch_paths(s.es, D)
    /\ \E L : /\ Distinct(L, AllNodes) /\ r.queue = s.queue \o L
              /\ Elements(L) = P!WokenBySkip(s.es, D)
    /\ \A n \in AllNodes : r.ns[n] = "skipped" => s.ns[n] = "skipped" \/ n \in Skipped(s.es, D)

(* The walk that a completion starts ends in the closed form.              *)
LEMMA SkipIsClosedForm ==
    ASSUME edges \subseteq EdgeIds, NEW s \in TraversalState(edges), NEW D, Base(s.es, D),
           NEW list, Distinct(list, edges), Elements(list) = D,
           NEW r, r = skip_branch_paths(s, list)
    PROVE  SkippedFrom(s, D, r)
<1>1. list \in Seq(edges)
  BY DEF Distinct
<1>2. PICK F : /\ F[0] = [st |-> s, todo |-> list]
               /\ \A k \in 1 .. Cardinality(edges) : F[k] = visit(F[k - 1])
               /\ r = F[Cardinality(edges)].st
  BY <1>1, SkipLoop
<1>3. Walking(s, D, F[0], {})
  BY <1>2, WalkStart
<1>4. PICK w : w = F[Cardinality(edges)]
  OBVIOUS
<1>5. Walking(s, D, w, {}) /\ w.todo = <<>> /\ r = w.st
  BY <1>2, <1>3, <1>4, WalkEnds
<1>6. Elements(w.todo) = {}
  BY <1>5, EmptyList
<1>7. Reaching(s.es, D, r.es, {}, {})
  BY <1>5, <1>6 DEF Walking
<1>8. /\ r.es = P!skip_branch_paths(s.es, D) /\ Woken(s.es, r.es) = P!WokenBySkip(s.es, D)
      /\ \A n : n \in Skipped(s.es, D) <=> n \in AllNodes /\ AllSkip(edges, r.es, n)
  BY <1>7, ReachEnd
<1> QED
  BY <1>5, <1>8 DEF Walking, Walks, SkippedFrom

-----------------------------------------------------------------------------
(* Part 3 *)

Takings == [st : TraversalState(edges), ready : Seq(AllNodes)]

(* The record that process_taken_edge returns. *)
LEMMA TakeIs ==
    ASSUME edges \subseteq EdgeIds, NEW p \in Takings, NEW e \in edges, NEW n, n = e[2],
           NEW f, f = [p.st.es EXCEPT ![e] = "taken"]
    PROVE  /\ process_taken_edge(p, e) =
                [st |-> [ns |-> p.st.ns, es |-> f, queue |-> p.st.queue],
                 ready |-> IF Ready(edges, f, n) THEN Append(p.ready, n) ELSE p.ready]
           /\ process_taken_edge(p, e) \in Takings
<1>1. /\ p.st \in TraversalState(edges) /\ p.ready \in Seq(AllNodes) /\ p.st.es \in [edges -> EdgeState]
      /\ p.st.ns \in [AllNodes -> EdgeState] /\ p.st.queue \in Seq(AllNodes)
  BY DEF Takings, TraversalState
<1>2. PICK s : s = p.st
  OBVIOUS
<1>3. s = [ns |-> s.ns, es |-> s.es, queue |-> s.queue]
  BY <1>1, <1>2 DEF TraversalState
<1>4. [s EXCEPT !.es[e] = "taken"] = [ns |-> s.ns, es |-> [s.es EXCEPT ![e] = "taken"], queue |-> s.queue]
  BY <1>3
<1>5. mark_edge_taken(p.st, e) = [ns |-> p.st.ns, es |-> f, queue |-> p.st.queue]
  BY <1>2, <1>4 DEF mark_edge_taken
<1>6. PICK r : r = IF Ready(edges, f, n) THEN Append(p.ready, n) ELSE p.ready
  OBVIOUS
<1>7. process_taken_edge(p, e) = [st |-> [ns |-> p.st.ns, es |-> f, queue |-> p.st.queue], ready |-> r]
  <2>1. PICK s2 : s2 = [ns |-> p.st.ns, es |-> f, queue |-> p.st.queue]
    OBVIOUS
  <2>2. s2.es = f /\ mark_edge_taken(p.st, e) = s2
    BY <1>5, <2>1
  <2>3. G!is_node_ready(f, n) <=> Ready(edges, f, n)
    BY GraphIs
  <2>4. process_taken_edge(p, e)
          = [st |-> s2, ready |-> IF G!is_node_ready(f, n) THEN Append(p.ready, n) ELSE p.ready]
    BY <2>2 DEF process_taken_edge
  <2> QED
    BY <1>6, <2>1, <2>3, <2>4
<1>8. r \in Seq(AllNodes)
  <2>1. n \in AllNodes
    BY EdgeFields
  <2> QED
    BY <1>1, <1>6, <2>1, AppendProperties
<1>9. f \in [edges -> EdgeState]
  BY <1>1 DEF EdgeState
<1> QED
  BY <1>1, <1>6, <1>7, <1>8, <1>9 DEF Takings, TraversalState

(* process_taken_edges as the states of its loop, turn by turn. *)
LEMMA TakeLoop ==
    ASSUME edges \subseteq EdgeIds, NEW s \in TraversalState(edges), NEW list \in Seq(edges)
    PROVE  \E F \in [0 .. Len(list) -> Takings] :
               /\ F[0] = [st |-> s, ready |-> <<>>]
               /\ \A k \in 1 .. Len(list) : F[k] = process_taken_edge(F[k - 1], list[k])
               /\ process_taken_edges(s, list) = F[Len(list)]
<1> DEFINE w == [st |-> s, ready |-> <<>>]
           m == Len(list)
           Seen(F) == F = [k \in 0 .. m |-> IF k = 0 THEN w ELSE process_taken_edge(F[k - 1], list[k])]
           g == [p \in (Nat \ {0}) \X Takings |->
                    IF p[1] <= m THEN process_taken_edge(p[2], list[p[1]]) ELSE p[2]]
<1>1. m \in Nat /\ \A k \in 1 .. m : list[k] \in edges
  BY LenProperties, ElementOfSeq
<1>2. w \in Takings
  BY EmptyList DEF Takings
<1> HIDE DEF m
<1>3. \A k \in 1 .. m : \A v \in Takings : process_taken_edge(v, list[k]) \in Takings
  BY <1>1, TakeIs
<1>4. \A k \in Nat \ {0} : \A v \in Takings :
         g[<<k, v>>] = IF k <= m THEN process_taken_edge(v, list[k]) ELSE v
  OBVIOUS
<1> HIDE DEF w, g
<1>5. ASSUME NEW k \in Nat \ {0}, NEW v \in Takings PROVE g[<<k, v>>] \in Takings
  <2>1. CASE k <= m
    <3>1. k \in 1 .. m
      BY <1>1, <2>1
    <3> QED
      BY <1>3, <1>4, <2>1, <3>1
  <2>2. CASE ~(k <= m)
    BY <1>4, <2>2
  <2> QED
    BY <2>1, <2>2
<1>6. PICK F \in [0 .. m -> Takings] : P!Iterates(F, w, g, m)
  BY <1>1, <1>2, <1>5, P!Iterate
<1>7. ASSUME NEW k \in 0 .. m
      PROVE  (IF k = 0 THEN w ELSE g[<<k, F[k - 1]>>])
             = (IF k = 0 THEN w ELSE process_taken_edge(F[k - 1], list[k]))
  <2>1. CASE k # 0
    <3>1. k \in Nat \ {0} /\ k - 1 \in 0 .. m /\ k <= m
      BY <1>1, <2>1
    <3> QED
      BY <1>4, <2>1, <3>1
  <2> QED
    BY <2>1
<1>8. Seen(F)
  BY <1>6, <1>7 DEF P!Iterates
<1> DEFINE H == CHOOSE f : Seen(f)
<1>9. Seen(H)
  BY <1>8
<1>10. process_taken_edges(s, list) = H[m]
  BY DEF process_taken_edges, w, m
<1> HIDE DEF H
<1>11. DOMAIN H = 0 .. m /\ H[0] = w /\ \A k \in 1 .. m : H[k] = process_taken_edge(H[k - 1], list[k])
  <2>1. \A k \in 0 .. m : H[k] = IF k = 0 THEN w ELSE process_taken_edge(H[k - 1], list[k])
    BY <1>9
  <2>2. 0 \in 0 .. m /\ \A k \in 1 .. m : k \in 0 .. m /\ k # 0
    BY <1>1
  <2>3. DOMAIN H = 0 .. m
    BY <1>9
  <2> QED
    BY <2>1, <2>2, <2>3
<1>12. \A k \in 0 .. m : H[k] \in Takings
  <2>1. ASSUME NEW k \in Nat, k <= m => H[k] \in Takings, k + 1 <= m PROVE H[k + 1] \in Takings
    <3>1. k <= m /\ k + 1 \in 1 .. m /\ (k + 1) - 1 = k
      BY <1>1, <2>1
    <3> QED
      BY <1>3, <1>11, <2>1, <3>1
  <2> DEFINE S == {k \in Nat : k <= m => H[k] \in Takings}
  <2>2. 0 \in S /\ \A k \in Nat : k \in S => k + 1 \in S
    BY <1>2, <1>11, <2>1
  <2> HIDE DEF S
  <2>3. \A k \in Nat : k \in S
    BY <2>2, P!SetInduction
  <2> QED
    BY <1>1, <2>3 DEF S
<1>13. H = [k \in 0 .. m |-> H[k]]
  BY <1>9
<1>14. H \in [0 .. m -> Takings]
  BY <1>12, <1>13
<1> QED
  BY <1>10, <1>11, <1>14 DEF w, m

(* The states g of the edges and the list p.ready after C was taken. *)
TakenFrom(s, C, g, p) ==
    /\ p.st = [ns |-> s.ns, es |-> g, queue |-> s.queue] /\ p.st \in TraversalState(edges)
    /\ Distinct(p.ready, AllNodes)
    /\ Elements(p.ready) = {m \in AllNodes : (\E e \in C : e[2] = m) /\ Ready(edges, g, m)}

(* Of several edges to one head the last one finds it ready, if any does:  *)
(* before, an edge to it is undecided.                                     *)
LEMMA TakesAll ==
    ASSUME edges \subseteq EdgeIds, NEW s \in TraversalState(edges), NEW list, Distinct(list, edges),
           NEW C, C = Elements(list), \A e \in C : s.es[e] = "unknown",
           NEW p, p = process_taken_edges(s, list), NEW g, g = P!mark_edges_taken(s.es, C)
    PROVE  TakenFrom(s, C, g, p)
<1> DEFINE n == Len(list)
           First(k) == {list[i] : i \in 1 .. k}
           Es(k) == P!mark_edges_taken(s.es, First(k))
           Heads(k) == {m \in AllNodes : (\E e \in First(k) : e[2] = m) /\ Ready(edges, Es(k), m)}
<1>1. /\ list \in Seq(edges) /\ n \in Nat /\ (\A k \in 1 .. n : list[k] \in edges)
      /\ \A i, j \in 1 .. n : list[i] = list[j] => i = j
  BY LenProperties, ElementOfSeq DEF Distinct
<1>2. PICK F \in [0 .. n -> Takings] :
               /\ F[0] = [st |-> s, ready |-> <<>>]
               /\ \A k \in 1 .. n : F[k] = process_taken_edge(F[k - 1], list[k])
               /\ p = F[n]
  BY <1>1, TakeLoop
<1>3. s.es \in [edges -> EdgeState] /\ s = [ns |-> s.ns, es |-> s.es, queue |-> s.queue]
  BY DEF TraversalState
<1> HIDE DEF n
<1> DEFINE Good(k) == /\ F[k].st = [ns |-> s.ns, es |-> Es(k), queue |-> s.queue]
                      /\ Distinct(F[k].ready, AllNodes) /\ Elements(F[k].ready) = Heads(k)
           S == {k \in Nat : k <= n => Good(k)}
<1>4. \A k : Es(k) = [e \in edges |-> IF e \in First(k) THEN "taken" ELSE s.es[e]]
  BY DEF P!mark_edges_taken
<1>5. 0 \in S
  <2>1. First(0) = {}
    OBVIOUS
  <2>2. Heads(0) = {}
    BY <2>1
  <2>3. Es(0) = s.es
    <3> HIDE DEF Es, First
    <3>1. Es(0) = [e \in edges |-> s.es[e]]
      BY <1>4, <2>1
    <3> QED
      BY <1>3, <3>1
  <2> HIDE DEF Es, Heads
  <2>4. Good(0)
    <3>1. F[0].st = s /\ F[0].ready = <<>>
      BY <1>2
    <3>2. F[0].st = [ns |-> s.ns, es |-> Es(0), queue |-> s.queue]
      BY <1>3, <2>3, <3>1
    <3>3. Distinct(F[0].ready, AllNodes) /\ Elements(F[0].ready) = Heads(0)
      BY <2>2, <3>1, EmptyList
    <3> QED
      BY <3>2, <3>3
  <2> QED
    BY <2>4
<1>6. ASSUME NEW k \in Nat, k \in S PROVE k + 1 \in S
  <2>1. SUFFICES ASSUME k + 1 <= n PROVE Good(k + 1)
    OBVIOUS
  <2>2. k <= n /\ k + 1 \in 1 .. n /\ (k + 1) - 1 = k /\ k \in 0 .. n
    BY <1>1, <2>1
  <2>3. Good(k) /\ F[k] \in Takings
    BY <1>2, <1>6, <2>2
  <2>4. PICK e \in edges : e = list[k + 1]
    BY <1>1, <2>2
  <2>5. PICK h \in AllNodes : h = e[2]
    BY EdgeFields
  <2>6. First(k + 1) = First(k) \union {e} /\ e \notin First(k) /\ First(k) \subseteq edges
    <3>1. \A i \in 1 .. k + 1 : i = k + 1 \/ i \in 1 .. k
      OBVIOUS
    <3>2. \A i \in 1 .. k : i \in 1 .. k + 1 /\ i \in 1 .. n /\ i # k + 1
      BY <1>1, <2>2
    <3>3. k + 1 \in 1 .. k + 1
      OBVIOUS
    <3>4. \A i \in 1 .. k : list[i] # e /\ list[i] \in edges
      BY <1>1, <2>2, <2>4, <3>2
    <3> QED
      BY <2>4, <3>1, <3>2, <3>3, <3>4
  <2>7. e \in C
    BY <2>2, <2>4 DEF Elements, n
  <2> HIDE DEF First
  <2>8. Es(k)[e] = "unknown" /\ Es(k) \in [edges -> EdgeState]
    BY <1>3, <1>4, <2>6, <2>7 DEF EdgeState
  <2>9. Es(k + 1) = [Es(k) EXCEPT ![e] = "taken"]
    <3>1. \A x \in edges : Es(k + 1)[x] = IF x = e THEN "taken" ELSE Es(k)[x]
      <4> HIDE DEF Es
      <4> QED
        BY <1>4, <2>6
    <3>2. Es(k + 1) = [x \in edges |-> Es(k + 1)[x]] /\ DOMAIN Es(k) = edges
      BY <1>4
    <3> HIDE DEF Es
    <3> QED
      BY <3>1, <3>2
  <2>10. \A x \in edges : x # e => Es(k + 1)[x] = Es(k)[x]
    <3> HIDE DEF Es
    <3> QED
      BY <2>8, <2>9
  <2> HIDE DEF Es
  <2>11. F[k].st.ns = s.ns /\ F[k].st.es = Es(k) /\ F[k].st.queue = s.queue
    BY <2>3
  <2>12. F[k + 1] = [st |-> [ns |-> s.ns, es |-> Es(k + 1), queue |-> s.queue],
                    ready |-> IF Ready(edges, Es(k + 1), h) THEN Append(F[k].ready, h) ELSE F[k].ready]
    <3>1. F[k + 1] = process_taken_edge(F[k], e)
      BY <1>2, <2>2, <2>4
    <3>2. PICK v \in Takings : v = F[k]
      BY <2>3
    <3>3. PICK f : f = Es(k + 1)
      OBVIOUS
    <3>4. f = [v.st.es EXCEPT ![e] = "taken"]
      BY <2>9, <2>11, <3>2, <3>3
    <3>5. process_taken_edge(v, e) =
                [st |-> [ns |-> v.st.ns, es |-> f, queue |-> v.st.queue],
                 ready |-> IF Ready(edges, f, h) THEN Append(v.ready, h) ELSE v.ready]
      BY <2>5, <3>4, TakeIs
    <3> QED
      BY <2>11, <3>1, <3>2, <3>3, <3>5
  <2>13. ~Ready(edges, Es(k), h)
    <3>1. e \in Into(edges, h)
      BY <2>5 DEF Into
    <3> QED
      BY <2>8, <3>1 DEF Ready, Unknown
  <2>14. \A m : m # h => (Ready(edges, Es(k + 1), m) <=> Ready(edges, Es(k), m))
    <3>1. \A m : m # h => \A x \in Into(edges, m) : Es(k + 1)[x] = Es(k)[x]
      BY <2>5, <2>10 DEF Into
    <3> QED
      BY <3>1 DEF Ready, Unknown, Taken
  <2>15. h \notin Heads(k)
    BY <2>13
  <2>16. Heads(k + 1) = Heads(k) \union {m \in {h} : Ready(edges, Es(k + 1), h)}
    <3>1. ASSUME NEW m \in AllNodes, m # h PROVE m \in Heads(k + 1) <=> m \in Heads(k)
      BY <2>5, <2>6, <2>14, <3>1
    <3>2. h \in Heads(k + 1) <=> Ready(edges, Es(k + 1), h)
      BY <2>5, <2>6
    <3>3. Heads(k) \subseteq AllNodes /\ Heads(k + 1) \subseteq AllNodes
      OBVIOUS
    <3> HIDE DEF Heads
    <3> QED
      BY <2>15, <3>1, <3>2, <3>3
  <2> HIDE DEF Heads
  <2>17. F[k].ready \in Seq(AllNodes)
    BY <2>3 DEF Distinct
  <2>18. CASE Ready(edges, Es(k + 1), h)
    <3>1. /\ F[k + 1].st = [ns |-> s.ns, es |-> Es(k + 1), queue |-> s.queue]
          /\ F[k + 1].ready = Append(F[k].ready, h)
      BY <2>12, <2>18
    <3>2. Heads(k + 1) = Heads(k) \union {h}
      BY <2>16, <2>18
    <3>3. h \notin Elements(F[k].ready)
      BY <2>3, <2>15
    <3>4. PICK q : q = F[k].ready
      OBVIOUS
    <3>5. Distinct(Append(q, h), AllNodes) /\ Elements(Append(q, h)) = Elements(q) \union {h}
      BY <2>3, <2>17, <3>3, <3>4, ListAppend
    <3> QED
      BY <2>3, <3>1, <3>2, <3>4, <3>5
  <2>19. CASE ~Ready(edges, Es(k + 1), h)
    <3>1. /\ F[k + 1].st = [ns |-> s.ns, es |-> Es(k + 1), queue |-> s.queue]
          /\ F[k + 1].ready = F[k].ready
      BY <2>12, <2>19
    <3>2. Heads(k + 1) = Heads(k)
      BY <2>16, <2>19
    <3> QED
      BY <2>3, <3>1, <3>2
  <2> QED
    BY <2>18, <2>19
<1>7. \A k \in Nat : k \in S
  <2> HIDE DEF S
  <2> QED
    BY <1>5, <1>6, P!SetInduction
<1>8. Good(n)
  <2> HIDE DEF Good
  <2>1. n \in S
    BY <1>1, <1>7
  <2> QED
    BY <1>1, <2>1
<1>9. First(n) = C
  BY DEF n, Elements
<1>10. Es(n) = g
  BY <1>9
<1>11. p \in Takings
  <2>1. n \in 0 .. n
    BY <1>1
  <2> QED
    BY <1>2, <2>1
<1> HIDE DEF First, Es
<1> QED
  BY <1>2, <1>8, <1>9, <1>10, <1>11 DEF Takings, TakenFrom

(* A node with nothing but skipped edges into it has skipped its own.      *)
Propagated(E, f) == \A n \in AllNodes : AllSkip(E, f, n) => \A e \in OutOf(E, n) : f[e] = "skipped"

Chosen(n, h) == IF n \in branch THEN P!SelectedEdges(n, h) ELSE OutOf(edges, n)
Dropped(n, h) == OutOf(edges, n) \ Chosen(n, h)

(* A walk may start whenever a node completes. *)
LEMMA BaseOfCompletion ==
    ASSUME edges \subseteq EdgeIds, NEW f, NEW A, NEW n, NEW D, NEW C, P!Completes(f, A, n, D, C),
           Propagated(edges, f)
    PROVE  Base(f, D)
<1>1. f \in [edges -> EdgeState] /\ D \subseteq OutOf(edges, n) /\ n \in A
  BY GraphIs DEF P!Completes, P!State, EdgeState
<1>2. /\ \A e \in OutOf(edges, n) : f[e] = "unknown"
      /\ Ready(edges, f, n)
  BY <1>1, GraphIs DEF P!Completes, P!Consistent
<1>3. ~Unknown(edges, f, n)
  BY <1>2 DEF Ready, Unknown
<1>4. \A e \in edges : f[e] # "unknown" => ~Unknown(edges, f, e[1])
  BY GraphIs DEF P!Completes, P!Consistent
<1> QED
  BY <1>1, <1>2, <1>3, <1>4 DEF Base, Propagated, OutOf

(* Nothing is skipped when nothing is dropped.                             *)
LEMMA NothingDropped ==
    ASSUME edges \subseteq EdgeIds, NEW s \in TraversalState(edges), Base(s.es, {})
    PROVE  P!skip_branch_paths(s.es, {}) = s.es /\ P!WokenBySkip(s.es, {}) = {}
<1>1. Distinct(<<>>, edges) /\ Elements(<<>>) = {}
  BY EmptyList
<1>2. Walking(s, {}, [st |-> s, todo |-> <<>>], {})
  BY <1>1, WalkStart
<1>3. PICK w : w = [st |-> s, todo |-> <<>>]
  OBVIOUS
<1>4. w.st = s /\ w.todo = <<>>
  BY <1>3
<1>5. Reaching(s.es, {}, s.es, {}, {})
  BY <1>1, <1>2, <1>3, <1>4 DEF Walking
<1>6. Woken(s.es, s.es) = {}
  BY DEF Woken
<1> QED
  BY <1>5, <1>6, ReachEnd

EnqueuedFrom(s, list, r) ==
    /\ r \in TraversalState(edges) /\ r.es = s.es /\ r.queue = s.queue \o list
    /\ \A m \in AllNodes : r.ns[m] = "skipped" => s.ns[m] = "skipped"

(* What enqueue_nodes does to the state. *)
LEMMA EnqueueAllIs ==
    ASSUME NEW s \in TraversalState(edges), NEW list, Distinct(list, AllNodes),
           NEW r, r = enqueue_nodes(s, list)
    PROVE  EnqueuedFrom(s, list, r)
<1>1. /\ s = [ns |-> s.ns, es |-> s.es, queue |-> s.queue] /\ list \in Seq(AllNodes)
      /\ s.ns \in [AllNodes -> EdgeState] /\ s.es \in [edges -> EdgeState] /\ s.queue \in Seq(AllNodes)
  BY DEF TraversalState, Distinct
<1>2. PICK a : a = [n \in AllNodes |-> IF n \in ToSet(list) THEN "taken" ELSE s.ns[n]]
  OBVIOUS
<1>3. PICK q : q = s.queue \o list
  OBVIOUS
<1>4. PICK t : t = [s EXCEPT !.ns = a, !.queue = q]
  OBVIOUS
<1>5. t = [ns |-> a, es |-> s.es, queue |-> q]
  BY <1>1, <1>4
<1>6. r = t
  BY <1>2, <1>3, <1>4 DEF enqueue_nodes
<1>7. a \in [AllNodes -> EdgeState] /\ \A m \in AllNodes : a[m] = "skipped" => s.ns[m] = "skipped"
  BY <1>1, <1>2 DEF EdgeState
<1>8. q \in Seq(AllNodes)
  BY <1>1, <1>3, ConcatProperties
<1> QED
  BY <1>1, <1>3, <1>5, <1>6, <1>7, <1>8 DEF TraversalState, EnqueuedFrom

(* What the completion of n does to state s.                               *)
Completed(s, n, h, r) ==
    /\ r \in TraversalState(edges) /\ r.es = P!EdgesAfter(s.es, Dropped(n, h), Chosen(n, h))
    /\ \E L : /\ Distinct(L, AllNodes) /\ r.queue = s.queue \o L
              /\ Elements(L) = P!WokenBySkip(s.es, Dropped(n, h))
                                 \union P!ReadyAfter(s.es, Dropped(n, h), Chosen(n, h))
    /\ \A m \in AllNodes : r.ns[m] = "skipped" =>
          s.ns[m] = "skipped" \/ m \in Skipped(s.es, Dropped(n, h))

(* Once the edges of D are skipped in s1, those of C are taken. *)
LEMMA TakesChosen ==
    ASSUME edges \subseteq EdgeIds, NEW s \in TraversalState(edges), NEW A, NEW n, NEW h,
           P!Completes(s.es, A, n, Dropped(n, h), Chosen(n, h)),
           NEW s1 \in TraversalState(edges), s1.es = P!skip_branch_paths(s.es, Dropped(n, h)),
           NEW L, Distinct(L, AllNodes), s1.queue = s.queue \o L,
           Elements(L) = P!WokenBySkip(s.es, Dropped(n, h)),
           \A m \in AllNodes : s1.ns[m] = "skipped" =>
              s.ns[m] = "skipped" \/ m \in Skipped(s.es, Dropped(n, h)),
           NEW p, p = process_taken_edges(s1, EdgeList(Chosen(n, h)))
    PROVE  Completed(s, n, h, enqueue_nodes(p.st, p.ready))
<1> DEFINE D == Dropped(n, h)
           C == Chosen(n, h)
           g == P!EdgesAfter(s.es, D, C)
<1>1. C \subseteq edges
  BY GraphIs DEF P!Completes, OutOf
<1>2. Distinct(EdgeList(C), edges) /\ Elements(EdgeList(C)) = C
  BY <1>1, OutgoingList
<1>3. \A e \in C : s1.es[e] = "unknown"
  BY <1>1, P!EdgeChanges
<1>4. g = P!mark_edges_taken(s1.es, C)
  BY DEF P!EdgesAfter
<1> HIDE DEF C, D
<1>5. /\ p.st = [ns |-> s1.ns, es |-> g, queue |-> s1.queue] /\ p.st \in TraversalState(edges)
      /\ Distinct(p.ready, AllNodes)
      /\ Elements(p.ready) = {m \in AllNodes : (\E e \in C : e[2] = m) /\ Ready(edges, g, m)}
  <2>1. PICK list : list = EdgeList(C)
    OBVIOUS
  <2>2. PICK f : f = g
    OBVIOUS
  <2>3. p = process_taken_edges(s1, list) /\ C = Elements(list) /\ Distinct(list, edges)
    BY <1>2, <2>1 DEF C
  <2>4. f = P!mark_edges_taken(s1.es, C)
    BY <1>4, <2>2
  <2>5. TakenFrom(s1, C, f, p)
    BY <1>3, <2>3, <2>4, TakesAll
  <2> QED
    BY <2>2, <2>5 DEF TakenFrom
<1>6. Elements(p.ready) = P!ReadyAfter(s.es, D, C)
  <2>1. \A e \in C : [x \in edges |-> x[2]][e] = e[2] /\ e[2] \in AllNodes
    BY <1>1, EdgeFields DEF C
  <2>2. P!ReadyAfter(s.es, D, C) = {m \in {e[2] : e \in C} : Ready(edges, g, m)}
    <3>1. {[x \in edges |-> x[2]][e] : e \in C} = {e[2] : e \in C}
      BY <2>1
    <3> QED
      BY <3>1, GraphIs DEF P!ReadyAfter
  <2> HIDE DEF g
  <2>3. \A m : m \in P!ReadyAfter(s.es, D, C) <=> (\E e \in C : e[2] = m) /\ Ready(edges, g, m)
    BY <2>2
  <2>4. \A m : m \in Elements(p.ready) <=> m \in AllNodes /\ (\E e \in C : e[2] = m) /\ Ready(edges, g, m)
    BY <1>5
  <2>5. \A m : m \in P!ReadyAfter(s.es, D, C) <=> m \in Elements(p.ready)
    BY <2>1, <2>3, <2>4
  <2> QED
    BY <2>5
<1> HIDE DEF g
<1>7. PICK r : r = enqueue_nodes(p.st, p.ready)
  OBVIOUS
<1>8. /\ r \in TraversalState(edges) /\ r.es = p.st.es /\ r.queue = p.st.queue \o p.ready
      /\ \A m \in AllNodes : r.ns[m] = "skipped" => p.st.ns[m] = "skipped"
  <2>1. PICK v \in TraversalState(edges) : v = p.st
    BY <1>5
  <2>2. PICK list : list = p.ready
    OBVIOUS
  <2> QED
    <3>1. Distinct(list, AllNodes) /\ r = enqueue_nodes(v, list)
      BY <1>5, <1>7, <2>1, <2>2
    <3>2. EnqueuedFrom(v, list, r)
      BY <3>1, EnqueueAllIs
    <3> QED
      BY <2>1, <2>2, <3>2 DEF EnqueuedFrom
<1>9. p.st.es = g /\ p.st.queue = s1.queue /\ p.st.ns = s1.ns
  BY <1>5
<1>10. PICK M : M = L \o p.ready
  OBVIOUS
<1>11. r.queue = s.queue \o M
  <2>1. PICK x \in Seq(AllNodes) : x = s.queue
    BY DEF TraversalState
  <2>2. PICK y \in Seq(AllNodes) : y = p.ready
    BY <1>5 DEF Distinct
  <2>3. L \in Seq(AllNodes)
    BY DEF Distinct
  <2>4. (x \o L) \o y = x \o (L \o y)
    BY <2>3, ConcatAssociative
  <2> QED
    BY <1>8, <1>9, <1>10, <2>1, <2>2, <2>4
<1>12. /\ Distinct(M, AllNodes)
       /\ Elements(M) = P!WokenBySkip(s.es, D) \union P!ReadyAfter(s.es, D, C)
  <2>1. P!WokenBySkip(s.es, D) \intersect P!ReadyAfter(s.es, D, C) = {}
    BY P!NewlyReady DEF D, C
  <2>2. PICK q : q = p.ready
    OBVIOUS
  <2>3. /\ L \in Seq(AllNodes) /\ q \in Seq(AllNodes) /\ Distinct(q, AllNodes)
        /\ Elements(L) \intersect Elements(q) = {}
    BY <1>5, <1>6, <2>1, <2>2 DEF Distinct, D
  <2>4. Distinct(L \o q, AllNodes) /\ Elements(L \o q) = Elements(L) \union Elements(q)
    BY <2>3, ListConcat
  <2> QED
    BY <1>6, <1>10, <2>2, <2>4 DEF D
<1> QED
  BY <1>7, <1>8, <1>9, <1>11, <1>12 DEF Completed, g, D, C

(* The completion of n is the one the closed form describes.               *)
LEMMA SucceededIs ==
    ASSUME edges \subseteq EdgeIds, NEW s \in TraversalState(edges), NEW A, NEW n, NEW h,
           P!Completes(s.es, A, n, Dropped(n, h), Chosen(n, h)), Propagated(edges, s.es)
    PROVE  Completed(s, n, h, node_succeeded(s, n, h))
<1> DEFINE D == Dropped(n, h)
           C == Chosen(n, h)
<1>1. Base(s.es, D) /\ D \subseteq edges
  BY BaseOfCompletion DEF Base
<1>2. Distinct(EdgeList(D), edges) /\ Elements(EdgeList(D)) = D
  BY <1>1, OutgoingList
<1>3. CASE n \in branch
  <2>1. Unselected(n, h) = D /\ G!SelectedEdges(n, h) = C
    BY <1>3, GraphIs DEF Unselected, Dropped, Chosen, G!SelectedEdges, P!SelectedEdges
  <2>2. PICK s1 : s1 = skip_branch_paths(s, EdgeList(D))
    OBVIOUS
  <2>3. /\ s1 \in TraversalState(edges) /\ s1.es = P!skip_branch_paths(s.es, D)
        /\ \E L : /\ Distinct(L, AllNodes) /\ s1.queue = s.queue \o L
                  /\ Elements(L) = P!WokenBySkip(s.es, D)
        /\ \A m \in AllNodes : s1.ns[m] = "skipped" => s.ns[m] = "skipped" \/ m \in Skipped(s.es, D)
    <3>1. PICK list : list = EdgeList(D)
      OBVIOUS
    <3>2. PICK X : X = D
      OBVIOUS
    <3>3. Base(s.es, X) /\ Distinct(list, edges) /\ Elements(list) = X /\ s1 = skip_branch_paths(s, list)
      BY <1>1, <1>2, <2>2, <3>1, <3>2
    <3>4. SkippedFrom(s, X, s1)
      BY <3>3, SkipIsClosedForm
    <3> QED
      BY <3>2, <3>4 DEF SkippedFrom
  <2>4. [s1 EXCEPT !.es = G!mark_edges_skipped(@, D)] = s1
    <3>1. \A e \in D : s1.es[e] = "skipped"
      BY <1>1, <2>3, P!EdgeChanges
    <3>2. s1.es \in [edges -> EdgeState] /\ s1 = [ns |-> s1.ns, es |-> s1.es, queue |-> s1.queue]
      BY <2>3 DEF TraversalState
    <3>3. G!mark_edges_skipped(s1.es, D) = [e \in edges |-> s1.es[e]]
      BY <1>1, <3>1 DEF G!mark_edges_skipped
    <3>4. G!mark_edges_skipped(s1.es, D) = s1.es
      BY <3>2, <3>3
    <3>5. [s1 EXCEPT !.es = s1.es] = s1
      BY <3>2
    <3> QED
      BY <3>4, <3>5
  <2>5. PICK p : p = process_taken_edges(s1, EdgeList(C))
    OBVIOUS
  <2>6. handle_branch_completion(s, n, h) = p
    BY <2>1, <2>2, <2>4, <2>5 DEF handle_branch_completion, process_branch_node_edges
  <2>7. node_succeeded(s, n, h) = enqueue_nodes(p.st, p.ready)
    BY <1>3, <2>6 DEF node_succeeded
  <2> QED
    BY <2>3, <2>5, <2>7, TakesChosen
<1>4. CASE n \notin branch
  <2>1. D = {} /\ C = OutOf(edges, n)
    BY <1>4 DEF Dropped, Chosen
  <2>2. P!skip_branch_paths(s.es, D) = s.es /\ P!WokenBySkip(s.es, D) = {}
    BY <1>1, <2>1, NothingDropped
  <2>3. PICK p : p = process_taken_edges(s, EdgeList(C))
    OBVIOUS
  <2>4. process_non_branch_node_edges(s, n) = p
    BY <2>1, <2>3, GraphIs DEF process_non_branch_node_edges, Outgoing
  <2>5. node_succeeded(s, n, h) = enqueue_nodes(p.st, p.ready)
    BY <1>4, <2>4 DEF node_succeeded
  <2>6. Distinct(<<>>, AllNodes) /\ Elements(<<>>) = {}
    BY EmptyList
  <2>7. s.queue = s.queue \o <<>>
    <3>1. PICK q \in Seq(AllNodes) : q = s.queue
      BY DEF TraversalState
    <3>2. q = q \o <<>>
      BY ConcatEmptySeq
    <3> QED
      BY <3>1, <3>2
  <2>8. PICK L : L = <<>>
    OBVIOUS
  <2>9. /\ Distinct(L, AllNodes) /\ s.queue = s.queue \o L /\ Elements(L) = P!WokenBySkip(s.es, D)
        /\ s.es = P!skip_branch_paths(s.es, D)
    BY <2>2, <2>6, <2>7, <2>8
  <2> QED
    BY <2>3, <2>5, <2>9, TakesChosen
<1> QED
  BY <1>3, <1>4

-----------------------------------------------------------------------------
(* Part 4 *)

(* Nodes Q are queued, those of d have completed.  What is queued was      *)
(* reached and has not acted on its edges; edges are decided only once     *)
(* their tails are, and taken only out of a completed node.                *)
Standing(E, f, Q, d) ==
    /\ \A n \in Q : Ready(E, f, n) /\ \A e \in OutOf(E, n) : f[e] = "unknown"
    /\ \A e \in E : f[e] # "unknown" => ~Unknown(E, f, e[1])
    /\ \A e \in E : f[e] = "taken" => Ready(E, f, e[1]) /\ e[1] \in d

(* A node has been queued if and only if it is the active root, or all its *)
(* incoming edges are decided and one is taken.                            *)
QueuedIffReached(E, f, Q, d) ==
    /\ d \subseteq AllNodes
    /\ \A n \in d \union Q : n = 1 \/ (~Unknown(E, f, n) /\ Taken(E, f, n))
    /\ \A n \in AllNodes : ~Unknown(E, f, n) /\ Taken(E, f, n) => n \in d \union Q

SkippedOnly(E, f, ns) ==
    \A n \in AllNodes : ns[n] = "skipped" => (n # 1 /\ Into(E, n) = {}) \/ AllSkip(E, f, n)

Invariant(E, s, d) ==
    /\ E \subseteq EdgeIds /\ s \in TraversalState(E) /\ Distinct(s.queue, AllNodes)
    /\ Standing(E, s.es, Elements(s.queue), d)
    /\ Propagated(E, s.es)
    /\ QueuedIffReached(E, s.es, Elements(s.queue), d)
    /\ SkippedOnly(E, s.es, s.ns)

TraversalInv == Invariant(edges, st, done)

(* Whichever queued node completes, the conditions of GraphStates_proofs   *)
(* for a completion are met.                                               *)
LEMMA InvCompletes ==
    ASSUME NEW s, NEW d, Invariant(edges, s, d), NEW n \in Elements(s.queue), NEW h
    PROVE  /\ P!Completes(s.es, Elements(s.queue), n, Dropped(n, h), Chosen(n, h))
           /\ Propagated(edges, s.es)
<1>1. /\ edges \subseteq EdgeIds /\ s.es \in [edges -> EdgeState] /\ s.queue \in Seq(AllNodes)
      /\ Standing(edges, s.es, Elements(s.queue), d) /\ Propagated(edges, s.es)
  BY DEF Invariant, TraversalState
<1>2. Elements(s.queue) \subseteq AllNodes
  BY <1>1, ElementsIn
<1>3. Chosen(n, h) \subseteq OutOf(edges, n)
  BY GraphIs DEF Chosen, P!SelectedEdges
<1>4. Dropped(n, h) \subseteq OutOf(edges, n) /\ Dropped(n, h) \intersect Chosen(n, h) = {}
  BY DEF Dropped
<1>5. \A e \in edges : /\ e[1] \in AllNodes /\ e[2] \in AllNodes
                       /\ [x \in edges |-> x[1]][e] = e[1] /\ [x \in edges |-> x[2]][e] = e[2]
  BY <1>1, EdgeFields
<1>6. [x \in edges |-> x[1]] \in [edges -> AllNodes] /\ [x \in edges |-> x[2]] \in [edges -> AllNodes]
  BY <1>5
<1>7. P!Consistent(s.es, Elements(s.queue))
  <2>1. P!Consistent(s.es, Elements(s.queue)) <=>
           /\ \A m \in Elements(s.queue) :
                 Ready(edges, s.es, m) /\ \A e \in OutOf(edges, m) : s.es[e] = "unknown"
           /\ \A e \in edges : s.es[e] # "unknown" => ~Unknown(edges, s.es, e[1])
           /\ \A e \in edges : s.es[e] = "taken" => Ready(edges, s.es, e[1])
    BY <1>5, GraphIs DEF P!Consistent
  <2> QED
    BY <1>1, <2>1 DEF Standing
<1>8. s.es \in [edges -> P!State]
  BY <1>1 DEF P!State, EdgeState
<1> QED
  BY <1>1, <1>2, <1>3, <1>4, <1>6, <1>7, <1>8, GraphIs DEF P!Completes

(* What a completion does to the states of edges, in the terms of this     *)
(* module.                                                                 *)
LEMMA CompletionFacts ==
    ASSUME edges \subseteq EdgeIds, NEW f, NEW A, NEW n, NEW D, NEW C, P!Completes(f, A, n, D, C),
           NEW g, g = P!EdgesAfter(f, D, C)
    PROVE  /\ \A e \in edges : /\ f[e] # "unknown" => g[e] = f[e]
                               /\ e[1] \in Skipped(f, D) => g[e] = "skipped"
                               /\ e \in D => g[e] = "skipped"
                               /\ g[e] = "taken" => f[e] = "taken" \/ e[1] = n
           /\ \A m \in Skipped(f, D) : m \in AllNodes /\ AllSkip(edges, g, m)
           /\ \A m \in AllNodes : AllSkip(edges, g, m) => m \in Skipped(f, D)
<1> DEFINE f1 == P!skip_branch_paths(f, D)
           marked == P!mark_edges_skipped(f, D)
<1>1. \A e \in edges : [x \in edges |-> x[1]][e] = e[1] /\ e[1] \in AllNodes
  BY EdgeFields
<1>2. D \intersect C = {} /\ D \subseteq edges
  BY DEF P!Completes, P!get_outgoing_edges
<1>3. ASSUME NEW e \in edges
      PROVE  /\ f[e] # "unknown" => g[e] = f[e]
             /\ e[1] \in Skipped(f, D) => g[e] = "skipped"
             /\ e \in D => g[e] = "skipped"
             /\ g[e] = "taken" => f[e] = "taken" \/ e[1] = n
  <2>1. f[e] # "unknown" => g[e] = f[e]
    BY P!DecidedStays
  <2>2. /\ e \in C => f1[e] = "unknown"
        /\ e \notin C => g[e] = f1[e]
        /\ e \in D => f1[e] = "skipped"
        /\ e[1] \in Skipped(f, D) => f1[e] = "skipped"
    BY <1>1, P!EdgeChanges DEF Skipped
  <2>3. g[e] = "taken" => f[e] = "taken" \/ e[1] = n
    BY <1>1, P!TakenAfter
  <2> QED
    BY <1>2, <2>1, <2>2, <2>3
<1>4. ASSUME NEW m \in Skipped(f, D) PROVE m \in AllNodes /\ AllSkip(edges, g, m)
  <2>1. m \in AllNodes
    BY DEF Skipped, P!SkippedNodes
  <2>2. P!AllSkipped(marked, Skipped(f, D), m)
    BY P!SkippedRule DEF Skipped
  <2>3. Into(edges, m) # {} /\ \A e \in Into(edges, m) : marked[e] = "skipped" \/ e[1] \in Skipped(f, D)
    <3>1. \A e \in Into(edges, m) : e \in edges
      BY DEF Into
    <3> HIDE DEF marked
    <3> QED
      BY <1>1, <2>2, <3>1, GraphIs DEF P!AllSkipped
  <2>4. ASSUME NEW e \in Into(edges, m) PROVE g[e] = "skipped"
    <3>1. e \in edges
      BY DEF Into
    <3>2. marked[e] = IF e \in D THEN "skipped" ELSE f[e]
      BY <3>1 DEF P!mark_edges_skipped
    <3> HIDE DEF marked
    <3> QED
      BY <1>3, <2>3, <3>1, <3>2
  <2> QED
    BY <2>1, <2>3, <2>4 DEF AllSkip
<1>5. ASSUME NEW m \in AllNodes, AllSkip(edges, g, m) PROVE m \in Skipped(f, D)
  <2>1. P!AllSkipped(g, {}, m)
    BY <1>5, GraphIs DEF AllSkip, P!AllSkipped
  <2> QED
    BY <2>1, P!SkipReaches DEF Skipped
<1> QED
  BY <1>3, <1>4, <1>5

(* The completion of a queued node keeps the invariant. *)
LEMMA CompletionKeeps ==
    ASSUME NEW s0, NEW d, Invariant(edges, s0, d), NEW i \in 1 .. Len(s0.queue), NEW n, n = s0.queue[i],
           NEW s, s = [s0 EXCEPT !.queue = RemoveAt(@, i)], NEW h, NEW r, r = node_succeeded(s, n, h)
    PROVE  Invariant(edges, r, d \union {n})
<1> DEFINE D == Dropped(n, h)
           C == Chosen(n, h)
           woken == P!WokenBySkip(s0.es, D)
           ready == P!ReadyAfter(s0.es, D, C)
<1>1. PICK f : f = s0.es
  OBVIOUS
<1>2. PICK A : A = Elements(s0.queue)
  OBVIOUS
<1>3. /\ edges \subseteq EdgeIds /\ s0 \in TraversalState(edges) /\ Distinct(s0.queue, AllNodes)
      /\ Standing(edges, f, A, d) /\ Propagated(edges, f) /\ QueuedIffReached(edges, f, A, d)
      /\ SkippedOnly(edges, f, s0.ns)
  BY <1>1, <1>2 DEF Invariant
<1>4. PICK q : q = RemoveAt(s0.queue, i)
  OBVIOUS
<1>5. /\ Distinct(q, AllNodes) /\ Elements(q) = A \ {n} /\ n \in A
  <2>1. PICK u : u = s0.queue
    OBVIOUS
  <2>2. Distinct(u, AllNodes) /\ i \in 1 .. Len(u) /\ n = u[i] /\ q = RemoveAt(u, i) /\ A = Elements(u)
    BY <1>2, <1>3, <1>4, <2>1
  <2>3. Distinct(RemoveAt(u, i), AllNodes) /\ Elements(RemoveAt(u, i)) = Elements(u) \ {u[i]}
    BY <2>2, ListRemove
  <2>4. u[i] \in Elements(u)
    BY <2>2 DEF Elements
  <2> QED
    BY <2>2, <2>3, <2>4
<1>6. s.ns = s0.ns /\ s.es = f /\ s.queue = q /\ s \in TraversalState(edges)
  <2>1. s0 = [ns |-> s0.ns, es |-> s0.es, queue |-> s0.queue]
    BY <1>3 DEF TraversalState
  <2>2. [s0 EXCEPT !.queue = q] = [ns |-> s0.ns, es |-> s0.es, queue |-> q]
    BY <2>1
  <2>3. s = [ns |-> s0.ns, es |-> f, queue |-> q]
    BY <1>1, <1>4, <2>2
  <2>4. s.ns = s0.ns /\ s.es = f /\ s.queue = q
    BY <2>3
  <2>5. s0.ns \in [AllNodes -> EdgeState] /\ f \in [edges -> EdgeState] /\ q \in Seq(AllNodes)
    BY <1>1, <1>3, <1>5 DEF TraversalState, Distinct
  <2>6. s \in TraversalState(edges)
    <3>1. \A a \in [AllNodes -> EdgeState], b \in [edges -> EdgeState], c \in Seq(AllNodes) :
             [ns |-> a, es |-> b, queue |-> c] \in TraversalState(edges)
      BY DEF TraversalState
    <3> QED
      <4>1. PICK t : t = [ns |-> s0.ns, es |-> f, queue |-> q]
        OBVIOUS
      <4>2. t \in TraversalState(edges)
        BY <2>5, <3>1, <4>1
      <4> QED
        BY <2>3, <4>1, <4>2
  <2> QED
    BY <2>4, <2>6
<1>7. P!Completes(f, A, n, D, C)
  BY <1>1, <1>2, <1>5, InvCompletes
<1>8. Completed(s, n, h, r)
  BY <1>3, <1>6, <1>7, SucceededIs
<1>9. PICK g : g = P!EdgesAfter(f, D, C)
  OBVIOUS
<1>10. PICK L : /\ Distinct(L, AllNodes) /\ r.queue = q \o L /\ Elements(L) = woken \union ready
  BY <1>1, <1>6, <1>8 DEF Completed
<1>11. /\ r \in TraversalState(edges) /\ r.es = g
       /\ \A m \in AllNodes : r.ns[m] = "skipped" => s0.ns[m] = "skipped" \/ m \in Skipped(f, D)
  BY <1>6, <1>8, <1>9 DEF Completed
<1>12. PICK B : B = (A \ {n}) \union woken \union ready
  OBVIOUS
<1>13. P!Consistent(g, B) /\ \A m \in woken \union ready : m \notin A
  BY <1>1, <1>7, <1>9, <1>12, P!ConsistentAfter
<1>14. /\ \A e \in edges : /\ f[e] # "unknown" => g[e] = f[e]
                           /\ e[1] \in Skipped(f, D) => g[e] = "skipped"
                           /\ e \in D => g[e] = "skipped"
                           /\ g[e] = "taken" => f[e] = "taken" \/ e[1] = n
       /\ \A m \in Skipped(f, D) : m \in AllNodes /\ AllSkip(edges, g, m)
       /\ \A m \in AllNodes : AllSkip(edges, g, m) => m \in Skipped(f, D)
  BY <1>3, <1>7, <1>9, CompletionFacts
<1>15. \A m \in woken \union ready : m \in AllNodes /\ Unknown(edges, f, m) /\ Ready(edges, g, m)
  BY <1>1, <1>7, <1>9, GraphIs, P!NewlyReady
<1>16. ASSUME NEW m \in AllNodes, ~Ready(edges, f, m), Ready(edges, g, m) PROVE m \in woken \union ready
  BY <1>1, <1>7, <1>9, <1>16, GraphIs, P!EveryReadyFound
<1>17. \A m : /\ ~Unknown(edges, f, m) => ~Unknown(edges, g, m)
              /\ Taken(edges, f, m) => Taken(edges, g, m)
              /\ AllSkip(edges, f, m) => AllSkip(edges, g, m)
  BY <1>14 DEF Unknown, Taken, AllSkip, Into
<1> HIDE DEF D, C, woken, ready
<1>18. Distinct(r.queue, AllNodes) /\ Elements(r.queue) = B
  <2>1. q \in Seq(AllNodes) /\ L \in Seq(AllNodes) /\ Elements(q) \intersect Elements(L) = {}
    BY <1>5, <1>10, <1>13 DEF Distinct
  <2>2. Distinct(q \o L, AllNodes) /\ Elements(q \o L) = Elements(q) \union Elements(L)
    BY <1>5, <1>10, <2>1, ListConcat
  <2> QED
    BY <1>5, <1>10, <1>12, <2>2
<1>19. Standing(edges, g, B, d \union {n})
  <2>1. \A e \in edges : [x \in edges |-> x[1]][e] = e[1]
    OBVIOUS
  <2>2. /\ \A m \in B : Ready(edges, g, m) /\ \A e \in OutOf(edges, m) : g[e] = "unknown"
        /\ \A e \in edges : g[e] # "unknown" => ~Unknown(edges, g, e[1])
        /\ \A e \in edges : g[e] = "taken" => Ready(edges, g, e[1])
    BY <1>13, <2>1, GraphIs DEF P!Consistent
  <2>3. \A e \in edges : g[e] = "taken" => e[1] \in d \union {n}
    BY <1>3, <1>14 DEF Standing
  <2> QED
    BY <2>2, <2>3 DEF Standing
<1>20. Propagated(edges, g)
  <2>1. ASSUME NEW m \in AllNodes, AllSkip(edges, g, m), NEW e \in OutOf(edges, m) PROVE g[e] = "skipped"
    BY <1>14, <2>1 DEF OutOf
  <2> QED
    BY <2>1 DEF Propagated
<1>21. QueuedIffReached(edges, g, B, d \union {n})
  <2>1. A \subseteq AllNodes
    BY <1>2, <1>3, ElementsIn DEF Distinct
  <2>2. d \union {n} \subseteq AllNodes
    BY <1>3, <1>5, <2>1 DEF QueuedIffReached
  <2>3. ASSUME NEW m \in (d \union {n}) \union B
        PROVE  m = 1 \/ (~Unknown(edges, g, m) /\ Taken(edges, g, m))
    <3>1. CASE m \in d \union A
      BY <1>3, <1>17, <3>1 DEF QueuedIffReached
    <3>2. CASE m \in woken \union ready
      <4>1. Unknown(edges, f, m) /\ Ready(edges, g, m)
        BY <1>15, <3>2
      <4>2. Into(edges, m) # {}
        BY <4>1 DEF Unknown
      <4> QED
        BY <4>1, <4>2 DEF Ready
    <3> QED
      BY <1>5, <1>12, <2>3, <3>1, <3>2
  <2>4. ASSUME NEW m \in AllNodes, ~Unknown(edges, g, m), Taken(edges, g, m)
        PROVE  m \in (d \union {n}) \union B
    <3>1. CASE Ready(edges, f, m)
      <4>1. Into(edges, m) # {}
        BY <2>4 DEF Taken
      <4>2. m \in d \union A
        BY <1>3, <3>1, <4>1 DEF Ready, QueuedIffReached
      <4> QED
        BY <1>12, <4>2
    <3>2. CASE ~Ready(edges, f, m)
      <4>1. Ready(edges, g, m)
        BY <2>4 DEF Ready
      <4> QED
        BY <1>12, <1>16, <3>2, <4>1
    <3> QED
      BY <3>1, <3>2
  <2> QED
    BY <2>2, <2>3, <2>4 DEF QueuedIffReached
<1>22. SkippedOnly(edges, g, r.ns)
  <2>1. ASSUME NEW m \in AllNodes, r.ns[m] = "skipped"
        PROVE  (m # 1 /\ Into(edges, m) = {}) \/ AllSkip(edges, g, m)
    <3>1. CASE s0.ns[m] = "skipped"
      BY <1>3, <1>17, <3>1 DEF SkippedOnly
    <3>2. CASE m \in Skipped(f, D)
      BY <1>14, <3>2
    <3> QED
      BY <1>11, <2>1, <3>1, <3>2
  <2> QED
    BY <2>1 DEF SkippedOnly
<1> QED
  BY <1>3, <1>11, <1>18, <1>19, <1>20, <1>21, <1>22 DEF Invariant

(* No edge leads to the active root. *)
LEMMA RootHasNoEdges ==
    ASSUME NEW E, E \subseteq EdgeIds
    PROVE  Into(E, 1) = {}
BY EdgeFields DEF Into

(* Nodes run if and only if they are reached. *)
LEMMA ReachedFromInv == TraversalInv => RunsIffReached
<1>1. SUFFICES ASSUME TraversalInv PROVE RunsIffReached
  OBVIOUS
<1> DEFINE Q == Elements(st.queue)
<1>2. /\ edges \subseteq EdgeIds /\ st.queue \in Seq(AllNodes) /\ Standing(edges, st.es, Q, done)
      /\ QueuedIffReached(edges, st.es, Q, done) /\ SkippedOnly(edges, st.es, st.ns)
  BY <1>1 DEF TraversalInv, Invariant, TraversalState
<1>3. \A n : Contains(st.queue, n) <=> n \in Q
  BY DEF Contains, Elements
<1> HIDE DEF Q
<1>4. Into(edges, 1) = {}
  BY <1>2, RootHasNoEdges
<1>5. ASSUME NEW n \in AllNodes, Into(edges, n) # {}, ~Unknown(edges, st.es, n)
      PROVE  n \in done \union Q <=> Taken(edges, st.es, n)
  BY <1>2, <1>4, <1>5 DEF QueuedIffReached
<1>6. ASSUME NEW n \in AllNodes, n \in done \union Q PROVE st.ns[n] # "skipped"
  <2>1. n = 1 \/ Taken(edges, st.es, n)
    BY <1>2, <1>6 DEF QueuedIffReached
  <2>2. ~AllSkip(edges, st.es, n)
    BY <1>4, <2>1 DEF Taken, AllSkip
  <2>3. n = 1 \/ Into(edges, n) # {}
    BY <2>1 DEF Taken
  <2> QED
    BY <1>2, <2>2, <2>3 DEF SkippedOnly
<1>7. \A e \in edges : st.es[e] = "taken" => e[1] \in done
  BY <1>2 DEF Standing
<1> QED
  BY <1>3, <1>5, <1>6, <1>7, GraphIs DEF RunsIffReached

(* Whichever node completes next, its walk ends in the closed form. *)
LEMMA AgreesFromInv == TraversalInv => WalkAgreesWithClosedForm
<1>1. SUFFICES ASSUME TraversalInv, NEW n \in ToSet(st.queue), NEW h \in Handles
               PROVE  LET before  == [st EXCEPT !.queue = <<>>]
                          after   == node_succeeded(before, n, h)
                          chosen  == IF n \in branch THEN G!SelectedEdges(n, h)
                                                     ELSE G!get_outgoing_edges(n)
                          dropped == G!get_outgoing_edges(n) \ chosen
                          woken   == G!WokenBySkip(st.es, dropped)
                          ready   == G!ReadyAfter(st.es, dropped, chosen)
                      IN  /\ after.es = G!EdgesAfter(st.es, dropped, chosen)
                          /\ ToSet(after.queue) = woken \union ready
                          /\ woken \intersect ready = {}
                          /\ IsInjective(after.queue)
  BY DEF WalkAgreesWithClosedForm
<1> DEFINE D == Dropped(n, h)
           C == Chosen(n, h)
<1>2. /\ edges \subseteq EdgeIds /\ st \in TraversalState(edges) /\ st.queue \in Seq(AllNodes)
      /\ Invariant(edges, st, done)
  BY <1>1 DEF TraversalInv, Invariant, TraversalState
<1>3. PICK before : before = [st EXCEPT !.queue = <<>>]
  OBVIOUS
<1>4. before.es = st.es /\ before.queue = <<>> /\ before \in TraversalState(edges)
  <2>1. st = [ns |-> st.ns, es |-> st.es, queue |-> st.queue]
    BY <1>2 DEF TraversalState
  <2>2. before = [ns |-> st.ns, es |-> st.es, queue |-> <<>>]
    BY <1>3, <2>1
  <2>3. st.ns \in [AllNodes -> EdgeState] /\ st.es \in [edges -> EdgeState] /\ <<>> \in Seq(AllNodes)
    BY <1>2, EmptyList DEF TraversalState
  <2>4. before \in TraversalState(edges)
    BY <2>2, <2>3 DEF TraversalState
  <2> QED
    BY <2>2, <2>4
<1>5. n \in Elements(st.queue)
  BY <1>2, ElementsIn
<1>6. /\ P!Completes(st.es, Elements(st.queue), n, D, C) /\ Propagated(edges, st.es)
  BY <1>2, <1>5, InvCompletes
<1>7. PICK after : after = node_succeeded(before, n, h)
  OBVIOUS
<1>8. Completed(before, n, h, after)
  BY <1>2, <1>4, <1>6, <1>7, SucceededIs
<1>9. PICK L : /\ Distinct(L, AllNodes) /\ after.queue = <<>> \o L
               /\ Elements(L) = P!WokenBySkip(st.es, D) \union P!ReadyAfter(st.es, D, C)
  BY <1>4, <1>8 DEF Completed
<1>10. after.queue = L /\ L \in Seq(AllNodes)
  <2>1. L \in Seq(AllNodes)
    BY <1>9 DEF Distinct
  <2> QED
    BY <1>9, <2>1, ConcatEmptySeq
<1>11. ToSet(L) = Elements(L) /\ IsInjective(L)
  BY <1>9, <1>10, ElementsIn
<1>12. after.es = P!EdgesAfter(st.es, D, C)
  BY <1>4, <1>8 DEF Completed
<1>13. P!WokenBySkip(st.es, D) \intersect P!ReadyAfter(st.es, D, C) = {}
  BY <1>6, P!NewlyReady
<1>14. /\ C = IF n \in branch THEN G!SelectedEdges(n, h) ELSE G!get_outgoing_edges(n)
       /\ D = G!get_outgoing_edges(n) \ C
  BY GraphIs DEF Chosen, Dropped, G!SelectedEdges, P!SelectedEdges
<1>15. /\ G!EdgesAfter(st.es, D, C) = P!EdgesAfter(st.es, D, C)
       /\ G!WokenBySkip(st.es, D) = P!WokenBySkip(st.es, D)
       /\ G!ReadyAfter(st.es, D, C) = P!ReadyAfter(st.es, D, C)
  BY ClosedFormIs
<1> HIDE DEF C, D
<1> QED
  BY <1>3, <1>7, <1>9, <1>10, <1>11, <1>12, <1>13, <1>14, <1>15

-----------------------------------------------------------------------------
(* Part 5: the start.  The walk from the roots that are not active.        *)

(* While nothing is taken, its turns are those of the other loop.          *)
LEMMA DownIsVisit ==
    ASSUME edges \subseteq EdgeIds, NEW s, NEW D, NEW w, NEW Y, Walking(s, D, w, Y),
           \A e \in edges : s.es[e] # "taken"
    PROVE  visit_downstream(w) = visit(w)
<1>1. CASE w.todo = <<>>
  BY <1>1 DEF visit, visit_downstream
<1>2. CASE w.todo # <<>>
  <2>1. w \in Walks /\ Distinct(w.todo, edges) /\ w.st.es \in [edges -> EdgeState]
    BY DEF Walking, Reaching
  <2>2. PICK e \in edges : e = Head(w.todo)
    BY <1>2, <2>1, ListTail
  <2>3. PICK n \in AllNodes : n = e[2]
    BY EdgeFields
  <2>4. PICK f : f = [w.st.es EXCEPT ![e] = "skipped"]
    OBVIOUS
  <2>5. w.st.es[e] = "unknown"
    <3>1. e \in Elements(w.todo)
      BY <1>2, <2>1, <2>2, ListTail
    <3> QED
      BY <3>1 DEF Walking, Reaching
  <2>6. Skips(w.st.es, e, f, n)
    BY <2>1, <2>3, <2>4, <2>5, SkipOne
  <2>7. ~Taken(edges, f, n)
    <3>1. \A x \in edges : w.st.es[x] # "taken"
      BY DEF Walking, Reaching
    <3>2. ~Taken(edges, w.st.es, n)
      BY <3>1 DEF Taken, Into
    <3> QED
      BY <2>6, <3>2 DEF Skips
  <2>8. AllSkip(edges, f, n) <=> ~Unknown(edges, f, n)
    BY <2>6, <2>7 DEF Skips
  <2>9. visit_downstream(w) =
               IF AllSkip(edges, f, n)
               THEN [st |-> [ns |-> [w.st.ns EXCEPT ![n] = "skipped"], es |-> f, queue |-> w.st.queue],
                     todo |-> Outgoing(n) \o Tail(w.todo)]
               ELSE [st |-> [ns |-> w.st.ns, es |-> f, queue |-> w.st.queue], todo |-> Tail(w.todo)]
    BY <1>2, <2>1, <2>2, <2>3, <2>4, DownIs
  <2>10. visit(w) =
               IF Unknown(edges, f, n)
               THEN [st |-> [ns |-> w.st.ns, es |-> f, queue |-> w.st.queue], todo |-> Tail(w.todo)]
               ELSE IF Taken(edges, f, n)
               THEN [st |-> [ns |-> [w.st.ns EXCEPT ![n] = "taken"], es |-> f,
                             queue |-> Append(w.st.queue, n)],
                     todo |-> Tail(w.todo)]
               ELSE [st |-> [ns |-> [w.st.ns EXCEPT ![n] = "skipped"], es |-> f, queue |-> w.st.queue],
                     todo |-> Outgoing(n) \o Tail(w.todo)]
    BY <1>2, <2>1, <2>2, <2>3, <2>4, VisitIs
  <2> QED
    BY <2>7, <2>8, <2>9, <2>10
<1> QED
  BY <1>1, <1>2

(* It skips nodes, and no skipped node becomes anything else.              *)
LEMMA DownSpares ==
    ASSUME edges \subseteq EdgeIds, NEW w \in Walks, NEW x \in AllNodes, w.st.ns[x] = "skipped"
    PROVE  visit_downstream(w).st.ns[x] = "skipped"
<1>1. CASE w.todo = <<>>
  BY <1>1 DEF visit_downstream
<1>2. CASE w.todo # <<>>
  <2>1. w.todo \in Seq(edges) /\ w.st.ns \in [AllNodes -> EdgeState]
    BY DEF Walks, TraversalState
  <2>2. PICK e \in edges : e = Head(w.todo)
    BY <1>2, <2>1, HeadTailProperties
  <2>3. PICK n \in AllNodes : n = e[2]
    BY EdgeFields
  <2>4. PICK f : f = [w.st.es EXCEPT ![e] = "skipped"]
    OBVIOUS
  <2>5. PICK a : a = [w.st.ns EXCEPT ![n] = "skipped"]
    OBVIOUS
  <2>6. a[x] = "skipped"
    BY <2>1, <2>5
  <2>7. visit_downstream(w) =
               IF AllSkip(edges, f, n)
               THEN [st |-> [ns |-> a, es |-> f, queue |-> w.st.queue],
                     todo |-> Outgoing(n) \o Tail(w.todo)]
               ELSE [st |-> [ns |-> w.st.ns, es |-> f, queue |-> w.st.queue], todo |-> Tail(w.todo)]
    BY <1>2, <2>2, <2>3, <2>4, <2>5, DownIs
  <2>8. visit_downstream(w).st.ns = a \/ visit_downstream(w).st.ns = w.st.ns
    BY <2>7
  <2> QED
    BY <2>6, <2>8
<1> QED
  BY <1>1, <1>2

(* A walk that has come to rest goes on with edges left to it.             *)
LEMMA WalkOn ==
    ASSUME NEW s, NEW D, NEW t, NEW Y, Walking(s, D, [st |-> t, todo |-> <<>>], Y),
           NEW list, Distinct(list, edges), Elements(list) \subseteq Y
    PROVE  Walking(s, D, [st |-> t, todo |-> list], Y \ Elements(list))
<1>1. PICK w : w = [st |-> t, todo |-> <<>>]
  OBVIOUS
<1>2. PICK v : v = [st |-> t, todo |-> list]
  OBVIOUS
<1>3. w.st = t /\ w.todo = <<>> /\ v.st = t /\ v.todo = list /\ Elements(w.todo) = {}
  BY <1>1, <1>2, EmptyList
<1>4. t \in TraversalState(edges) /\ list \in Seq(edges) /\ Walking(s, D, w, Y)
  BY <1>1, <1>3 DEF Walking, Walks, Distinct
<1>5. v \in Walks
  BY <1>2, <1>4 DEF Walks
<1>6. Reaching(s.es, D, t.es, {}, Y)
  BY <1>3, <1>4 DEF Walking
<1>7. PICK T : T = Elements(list)
  OBVIOUS
<1>8. T \subseteq edges /\ T \subseteq Y
  BY <1>4, <1>7, ElementsIn
<1>9. T \union (Y \ T) = {} \union Y /\ T \intersect (Y \ T) = {} /\ (Y \ T) \subseteq edges
  BY <1>6, <1>8 DEF Reaching
<1>10. Reaching(s.es, D, t.es, T, Y \ T)
  BY <1>6, <1>8, <1>9 DEF Reaching
<1>11. Walking(s, D, v, Y \ T)
  BY <1>3, <1>4, <1>5, <1>7, <1>10 DEF Walking
<1> QED
  BY <1>2, <1>7, <1>11

(* The walk is at rest in state s, has left Y, and the nodes of R are      *)
(* marked as skipped.                                                      *)
AtRest(s0, D, s, Y, R) ==
    Walking(s0, D, [st |-> s, todo |-> <<>>], Y) /\ \A x \in R : s.ns[x] = "skipped"

(* The walk from one root n: of the edges Y that are left, it visits those *)
(* of n.                                                                   *)
LEMMA OneRoot ==
    ASSUME edges \subseteq EdgeIds, NEW s0 \in TraversalState(edges), NEW D, Base(s0.es, D),
           \A e \in edges : s0.es[e] # "taken", NEW s, NEW Y, NEW R \in SUBSET AllNodes,
           AtRest(s0, D, s, Y, R), NEW n \in R, OutOf(edges, n) \subseteq Y
    PROVE  AtRest(s0, D, mark_downstream(s, n), Y \ OutOf(edges, n), R)
<1> DEFINE m == Cardinality(edges)
           V == {w \in Walks : \A x \in R : w.st.ns[x] = "skipped"}
<1>0. PICK r : r = mark_downstream(s, n)
  OBVIOUS
<1>1. m \in Nat
  BY EdgesFinite, FS_Subset, FS_CardinalityType
<1>2. s \in TraversalState(edges) /\ s.ns[n] = "skipped"
  <2>1. PICK w : w = [st |-> s, todo |-> <<>>]
    OBVIOUS
  <2>2. w \in Walks /\ w.st = s
    BY <2>1 DEF Walking, AtRest
  <2> QED
    BY <2>2 DEF Walks, AtRest
<1>3. PICK F : /\ F[0] = [st |-> s, todo |-> Outgoing(n)]
               /\ \A k \in 1 .. m : F[k] = visit_downstream(F[k - 1])
               /\ r = F[m].st
  BY <1>0, <1>2, DownLoop
<1>4. PICK list : list = Outgoing(n)
  OBVIOUS
<1>5. Distinct(list, edges) /\ Elements(list) = OutOf(edges, n)
  <2>1. list = EdgeList(OutOf(edges, n)) /\ OutOf(edges, n) \in SUBSET edges
    BY <1>4, GraphIs DEF Outgoing, OutOf
  <2> QED
    BY <2>1, OutgoingList
<1>6. PICK Z : Z = Y \ OutOf(edges, n)
  OBVIOUS
<1>7. Walking(s0, D, F[0], Z)
  <2>1. Walking(s0, D, [st |-> s, todo |-> list], Y \ Elements(list))
    BY <1>5, WalkOn DEF AtRest
  <2> QED
    BY <1>3, <1>4, <1>5, <1>6, <2>1
<1>8. \A k \in 1 .. m : Walking(s0, D, F[k - 1], Z) => F[k] = visit(F[k - 1])
  BY <1>3, DownIsVisit
<1>9. Walking(s0, D, F[m], Z) /\ F[m].todo = <<>>
  BY <1>7, <1>8, WalkEnds
<1>10. F[m] \in V
  <2>1. F[0] \in V
    <3>1. F[0].st = s /\ F[0] \in Walks
      BY <1>3, <1>7 DEF Walking
    <3> QED
      BY <3>1 DEF AtRest
  <2>2. ASSUME NEW w \in V PROVE visit_downstream(w) \in V
    BY TurnTypes, DownSpares
  <2> HIDE DEF V, m
  <2>3. \A k \in 1 .. m : F[k - 1] \in V => F[k] \in V
    BY <1>3, <2>2 DEF m
  <2> QED
    BY <1>1, <2>1, <2>3, P!StaysIn
<1>11. F[m] = [st |-> r, todo |-> <<>>]
  <2>1. PICK w : w = F[m]
    OBVIOUS
  <2>2. w = [st |-> w.st, todo |-> w.todo]
    BY <1>10, <2>1 DEF Walks
  <2> QED
    BY <1>3, <1>9, <2>1, <2>2
<1> QED
  BY <1>0, <1>3, <1>6, <1>9, <1>10, <1>11 DEF AtRest

(* mark_downstream keeps the types. *)
LEMMA DownTypes ==
    ASSUME edges \subseteq EdgeIds, NEW s \in TraversalState(edges), NEW n
    PROVE  mark_downstream(s, n) \in TraversalState(edges)
<1> DEFINE m == Cardinality(edges)
<1>1. m \in Nat
  BY EdgesFinite, FS_Subset, FS_CardinalityType
<1>2. CASE s.ns[n] # "skipped"
  BY <1>2 DEF mark_downstream
<1>3. CASE s.ns[n] = "skipped"
  <2>1. PICK F : /\ F[0] = [st |-> s, todo |-> Outgoing(n)]
                 /\ \A k \in 1 .. m : F[k] = visit_downstream(F[k - 1])
                 /\ mark_downstream(s, n) = F[m].st
    BY <1>3, DownLoop
  <2>2. Outgoing(n) \in Seq(edges)
    <3>1. Outgoing(n) = EdgeList(OutOf(edges, n)) /\ OutOf(edges, n) \in SUBSET edges
      BY GraphIs DEF Outgoing, OutOf
    <3> QED
      BY <3>1, OutgoingList DEF Distinct
  <2>3. F[0] \in Walks
    BY <2>1, <2>2 DEF Walks
  <2> HIDE DEF m
  <2>4. \A k \in 1 .. m : F[k - 1] \in Walks => F[k] \in Walks
    BY <2>1, TurnTypes
  <2>5. F[m] \in Walks
    BY <1>1, <2>3, <2>4, P!StaysIn
  <2> QED
    BY <2>1, <2>5 DEF Walks
<1> QED
  BY <1>2, <1>3

(* The loop over the roots. *)
InactiveStart(s) ==
    [s EXCEPT !.ns = [n \in AllNodes |-> IF n \in InactiveRoots THEN "skipped" ELSE @[n]]]

(* The loop over the inactive list, turn by turn. *)
LEMMA RootLoop ==
    ASSUME edges \subseteq EdgeIds, NEW s, InactiveStart(s) \in TraversalState(edges),
           NEW list \in Seq(AllNodes), list = SetToSeq(InactiveRoots)
    PROVE  \E F : /\ F[0] = InactiveStart(s)
                  /\ \A k \in 1 .. Len(list) : F[k] = mark_downstream(F[k - 1], list[k])
                  /\ mark_inactive_root_branches(s) = F[Len(list)]
<1> DEFINE w == InactiveStart(s)
           m == Len(list)
           Seen(F) == F = [k \in 0 .. m |-> IF k = 0 THEN w ELSE mark_downstream(F[k - 1], list[k])]
           g == [p \in (Nat \ {0}) \X TraversalState(edges) |-> mark_downstream(p[2], list[p[1]])]
<1>1. m \in Nat
  BY LenProperties
<1>2. mark_inactive_root_branches(s) = (CHOOSE f : Seen(f))[m]
  BY DEF mark_inactive_root_branches, InactiveStart
<1> HIDE DEF m, w
<1>3. \A k \in Nat \ {0} : \A v \in TraversalState(edges) :
         g[<<k, v>>] = mark_downstream(v, list[k]) /\ g[<<k, v>>] \in TraversalState(edges)
  BY DownTypes
<1> HIDE DEF g
<1>4. PICK F \in [0 .. m -> TraversalState(edges)] : P!Iterates(F, w, g, m)
  <2>1. w \in TraversalState(edges)
    BY DEF w
  <2> QED
    BY <1>1, <1>3, <2>1, P!Iterate
<1>5. ASSUME NEW k \in 0 .. m
      PROVE  (IF k = 0 THEN w ELSE g[<<k, F[k - 1]>>])
             = (IF k = 0 THEN w ELSE mark_downstream(F[k - 1], list[k]))
  <2>1. CASE k # 0
    <3>1. k \in Nat \ {0} /\ k - 1 \in 0 .. m
      BY <1>1, <2>1
    <3> QED
      BY <1>3, <2>1, <3>1
  <2> QED
    BY <2>1
<1>6. Seen(F)
  BY <1>4, <1>5 DEF P!Iterates
<1> DEFINE H == CHOOSE f : Seen(f)
<1>7. Seen(H)
  BY <1>6
<1>8. mark_inactive_root_branches(s) = H[m]
  BY <1>2
<1> HIDE DEF H
<1>9. H[0] = w /\ \A k \in 1 .. m : H[k] = mark_downstream(H[k - 1], list[k])
  <2>1. \A k \in 0 .. m : H[k] = IF k = 0 THEN w ELSE mark_downstream(H[k - 1], list[k])
    BY <1>7
  <2>2. 0 \in 0 .. m /\ \A k \in 1 .. m : k \in 0 .. m /\ k # 0
    BY <1>1
  <2> QED
    BY <2>1, <2>2
<1> QED
  BY <1>8, <1>9 DEF w, m

(* Nothing leads to a root of the graph. *)
RootsAreFirst == \A n \in roots : n \in AllNodes /\ Into(edges, n) = {}

(* The states before that walk, and what it leaves when it is at rest.     *)
RootEdges == {e \in edges : e[1] \in InactiveRoots}

(* The roots are marked before anything else is; their edges are where the *)
(* walk may start.                                                         *)
LEMMA StartIs ==
    ASSUME edges \subseteq EdgeIds, RootsAreFirst, NEW s0, s0 = InactiveStart(BlankState)
    PROVE  /\ s0 \in TraversalState(edges) /\ s0.queue = <<>>
           /\ \A e \in edges : s0.es[e] = "unknown"
           /\ \A n \in AllNodes : s0.ns[n] = "skipped" <=> n \in InactiveRoots
           /\ Base(s0.es, RootEdges)
           /\ \A n \in InactiveRoots : n \in AllNodes /\ n # 1 /\ Into(edges, n) = {}
<1>1. \A n \in InactiveRoots : n \in AllNodes /\ n # 1 /\ Into(edges, n) = {}
  BY DEF InactiveRoots, RootsAreFirst
<1>2. PICK u : u = BlankState
  OBVIOUS
<1>3. u.ns = [n \in AllNodes |-> "unknown"] /\ u.es = [e \in edges |-> "unknown"] /\ u.queue = <<>>
  BY <1>2 DEF BlankState
<1>4. u = [ns |-> u.ns, es |-> u.es, queue |-> u.queue]
  BY <1>2 DEF BlankState
<1>5. PICK a : a = [n \in AllNodes |-> IF n \in InactiveRoots THEN "skipped" ELSE u.ns[n]]
  OBVIOUS
<1>6. /\ a \in [AllNodes -> EdgeState]
      /\ \A n \in AllNodes : a[n] = "skipped" <=> n \in InactiveRoots
  BY <1>3, <1>5 DEF EdgeState
<1>7. s0 = [ns |-> a, es |-> u.es, queue |-> <<>>]
  <2>1. [u EXCEPT !.ns = a] = [ns |-> a, es |-> u.es, queue |-> u.queue]
    BY <1>4
  <2> QED
    BY <1>2, <1>3, <1>5, <2>1 DEF InactiveStart
<1>8. PICK f : f = u.es
  OBVIOUS
<1>9. f \in [edges -> EdgeState] /\ \A e \in edges : f[e] = "unknown"
  BY <1>3, <1>8 DEF EdgeState
<1>10. s0.ns = a /\ s0.es = f /\ s0.queue = <<>>
  BY <1>7, <1>8
<1>11. s0 \in TraversalState(edges)
  <2>1. <<>> \in Seq(AllNodes)
    BY EmptyList
  <2> QED
    BY <1>6, <1>7, <1>8, <1>9, <2>1 DEF TraversalState
<1>12. Base(f, RootEdges)
  <2>1. \A e \in RootEdges : e \in edges /\ Into(edges, e[1]) = {}
    BY <1>1 DEF RootEdges
  <2>2. \A e \in RootEdges : f[e] = "unknown" /\ ~Unknown(edges, f, e[1])
    BY <1>9, <2>1 DEF Unknown
  <2>3. \A n \in AllNodes : ~AllSkip(edges, f, n)
    BY <1>9 DEF AllSkip, Into
  <2> QED
    BY <1>9, <2>1, <2>2, <2>3 DEF Base
<1> QED
  BY <1>1, <1>6, <1>9, <1>10, <1>11, <1>12

(* The walks from all list, one after the other, are one walk that has    *)
(* come to rest.                                                           *)
LEMMA RootsWalk ==
    ASSUME edges \subseteq EdgeIds, RootsAreFirst, NEW s0, s0 = InactiveStart(BlankState),
           NEW r, r = mark_inactive_root_branches(BlankState)
    PROVE  Walking(s0, RootEdges, [st |-> r, todo |-> <<>>], {})
<1> DEFINE list == SetToSeq(InactiveRoots)
           n == Len(list)
           D == RootEdges
           R == InactiveRoots
           Left(k) == {e \in edges : \E i \in k + 1 .. n : e[1] = list[i]}
<1>1. R \in SUBSET AllNodes /\ IsFiniteSet(R)
  <2>1. IsFiniteSet(AllNodes) /\ R \in SUBSET AllNodes
    BY TraversalConstants, FS_Interval DEF AllNodes, InactiveRoots, RootsAreFirst
  <2> QED
    BY <2>1, FS_Subset
<1>2. Distinct(list, R) /\ Elements(list) = R
  BY <1>1, SetList
<1>3. list \in Seq(AllNodes) /\ n \in Nat /\ \A i \in 1 .. n : list[i] \in R
  <2>1. list \in Seq(R) /\ n \in Nat
    BY <1>2, LenProperties DEF Distinct
  <2>2. list \in Seq(AllNodes)
    BY <1>1, <2>1, SeqMonotonic
  <2> QED
    BY <2>1, <2>2, ElementOfSeq
<1>4. /\ s0 \in TraversalState(edges) /\ Base(s0.es, D)
      /\ \A e \in edges : s0.es[e] # "taken"
      /\ \A x \in R : s0.ns[x] = "skipped"
  BY <1>1, StartIs
<1>5. PICK F : /\ F[0] = s0
               /\ \A k \in 1 .. n : F[k] = mark_downstream(F[k - 1], list[k])
               /\ r = F[n]
  BY <1>3, <1>4, RootLoop
<1>6. \A i, j \in 1 .. n : list[i] = list[j] => i = j
  BY <1>2 DEF Distinct
<1>7. \A x \in R : \E i \in 1 .. n : x = list[i]
  BY <1>2 DEF Elements
<1> HIDE DEF n, list, R, D
<1> DEFINE Good(k) == /\ Walking(s0, D, [st |-> F[k], todo |-> <<>>], Left(k))
                      /\ \A x \in R : F[k].ns[x] = "skipped"
           S == {k \in Nat : k <= n => Good(k)}
<1>8. 0 \in S
  <2>1. Left(0) = D
    BY <1>3, <1>7 DEF D, R, RootEdges
  <2>2. Distinct(<<>>, edges) /\ Elements(<<>>) = {}
    BY EmptyList
  <2>3. Walking(s0, D, [st |-> s0, todo |-> <<>>], D)
    BY <1>4, <2>2, WalkStart
  <2> HIDE DEF Left
  <2> QED
    BY <1>4, <1>5, <2>1, <2>3
<1>9. ASSUME NEW k \in Nat, k \in S PROVE k + 1 \in S
  <2>1. SUFFICES ASSUME k + 1 <= n PROVE Good(k + 1)
    OBVIOUS
  <2>2. k <= n /\ k + 1 \in 1 .. n /\ (k + 1) - 1 = k
    BY <1>3, <2>1
  <2>3. Good(k)
    BY <1>9, <2>2
  <2>4. PICK x \in R : x = list[k + 1]
    BY <1>3, <2>2
  <2>5. F[k + 1] = mark_downstream(F[k], x)
    BY <1>5, <2>2, <2>4
  <2>6. OutOf(edges, x) \subseteq Left(k)
    <3>1. k + 1 \in k + 1 .. n
      BY <1>3, <2>1
    <3> QED
      BY <2>4, <3>1 DEF OutOf
  <2>7. Left(k + 1) = Left(k) \ OutOf(edges, x)
    <3>1. \A i \in k + 1 .. n : i = k + 1 \/ i \in (k + 1) + 1 .. n
      BY <1>3
    <3>2. \A i \in (k + 1) + 1 .. n : i \in k + 1 .. n /\ i \in 1 .. n /\ i # k + 1
      BY <1>3
    <3>3. \A i \in (k + 1) + 1 .. n : list[i] # x
      BY <1>6, <2>2, <2>4, <3>2
    <3> QED
      BY <2>4, <3>1, <3>2, <3>3 DEF OutOf
  <2> HIDE DEF Left
  <2>8. /\ Walking(s0, D, [st |-> F[k + 1], todo |-> <<>>], Left(k) \ OutOf(edges, x))
        /\ \A y \in R : F[k + 1].ns[y] = "skipped"
    <3>1. AtRest(s0, D, F[k], Left(k), R)
      BY <2>3 DEF AtRest
    <3>2. R \in SUBSET AllNodes
      BY <1>1 DEF R
    <3>3. AtRest(s0, D, mark_downstream(F[k], x), Left(k) \ OutOf(edges, x), R)
      BY <1>4, <2>6, <3>1, <3>2, OneRoot
    <3> QED
      BY <2>5, <3>3 DEF AtRest
  <2> QED
    BY <2>7, <2>8
<1>10. Good(n)
  <2>1. \A k \in Nat : k \in S
    <3> HIDE DEF S
    <3> QED
      BY <1>8, <1>9, P!SetInduction
  <2> HIDE DEF Good
  <2>2. n \in S
    BY <1>3, <2>1
  <2> QED
    BY <1>3, <2>2
<1>11. Left(n) = {}
  BY <1>3
<1> HIDE DEF Left
<1> QED
  BY <1>5, <1>10, <1>11 DEF D

(* The invariant holds when the run starts. *)
LEMMA InitInv == Init => TraversalInv
<1>1. SUFFICES ASSUME Init PROVE Invariant(edges, st, {})
  BY DEF Init, TraversalInv
<1>2. edges \subseteq EdgeIds /\ RootsAreFirst
  BY <1>1, GraphIs DEF Init, RootsAreFirst
<1>3. PICK s0 : s0 = InactiveStart(BlankState)
  OBVIOUS
<1>4. PICK m : m = mark_inactive_root_branches(BlankState)
  OBVIOUS
<1>5. PICK w : w = [st |-> m, todo |-> <<>>]
  OBVIOUS
<1>6. Walking(s0, RootEdges, w, {}) /\ w.st = m /\ w.todo = <<>> /\ Elements(w.todo) = {}
  BY <1>2, <1>3, <1>4, <1>5, RootsWalk, EmptyList
<1>7. /\ s0 \in TraversalState(edges) /\ s0.queue = <<>>
      /\ \A e \in edges : s0.es[e] = "unknown"
      /\ \A n \in AllNodes : s0.ns[n] = "skipped" <=> n \in InactiveRoots
      /\ \A n \in InactiveRoots : n \in AllNodes /\ n # 1 /\ Into(edges, n) = {}
  BY <1>2, <1>3, StartIs
<1>8. PICK g : g = m.es
  OBVIOUS
<1>9. Reaching(s0.es, RootEdges, g, {}, {})
  BY <1>6, <1>8 DEF Walking
<1>10. /\ g \in [edges -> EdgeState]
       /\ \A e \in edges : g[e] # "unknown" => g[e] = "skipped" /\ Due(g, RootEdges, e)
       /\ \A e \in edges : Due(g, RootEdges, e) => g[e] = "skipped"
  BY <1>7, <1>9 DEF Reaching
<1>11. \A e \in RootEdges : e[1] # 1 /\ Into(edges, e[1]) = {}
  BY <1>7 DEF RootEdges
<1>12. m \in TraversalState(edges)
  BY <1>6 DEF Walking, Walks
<1>13. m.queue = <<>>
  <2>1. PICK L : /\ Distinct(L, AllNodes) /\ m.queue = <<>> \o L
                 /\ Elements(L) = Woken(s0.es, g)
    BY <1>6, <1>7, <1>8 DEF Walking
  <2>2. Woken(s0.es, g) = {}
    BY <1>10 DEF Woken, Taken, Into
  <2>3. L \in Seq(AllNodes) /\ Len(L) \in Nat
    BY <2>1, LenProperties DEF Distinct
  <2>4. Len(L) = 0
    <3>1. 1 \notin 1 .. Len(L)
      BY <2>1, <2>2 DEF Elements
    <3> QED
      BY <2>3, <3>1
  <2>5. L = <<>>
    BY <2>3, <2>4, EmptySeq
  <2> QED
    BY <2>1, <2>3, <2>5, ConcatEmptySeq
<1>14. 1 \in AllNodes
  BY TraversalConstants DEF AllNodes
<1>15. PICK a : a = [m.ns EXCEPT ![1] = "taken"]
  OBVIOUS
<1>16. PICK q : q = Append(m.queue, 1)
  OBVIOUS
<1>17. st = [ns |-> a, es |-> g, queue |-> q]
  <2>1. m = [ns |-> m.ns, es |-> m.es, queue |-> m.queue]
    BY <1>12 DEF TraversalState
  <2>2. enqueue_node([ns |-> m.ns, es |-> m.es, queue |-> m.queue], 1)
          = [ns |-> [m.ns EXCEPT ![1] = "taken"], es |-> m.es, queue |-> Append(m.queue, 1)]
    BY EnqueueIs
  <2>3. st = enqueue_node(m, 1)
    BY <1>1, <1>4 DEF Init
  <2> QED
    BY <1>8, <1>15, <1>16, <2>1, <2>2, <2>3
<1>18. st.ns = a /\ st.es = g /\ st.queue = q
  BY <1>17
<1>19. /\ Distinct(q, AllNodes) /\ Elements(q) = {1} /\ q \in Seq(AllNodes)
  <2>1. Distinct(<<>>, AllNodes) /\ Elements(<<>>) = {} /\ <<>> \in Seq(AllNodes)
    BY EmptyList
  <2> QED
    <3>1. PICK x : x = <<>>
      OBVIOUS
    <3>2. x \in Seq(AllNodes) /\ Distinct(x, AllNodes) /\ 1 \notin Elements(x) /\ Elements(x) \union {1} = {1}
      BY <2>1, <3>1
    <3>3. Distinct(Append(x, 1), AllNodes) /\ Elements(Append(x, 1)) = Elements(x) \union {1}
      BY <1>14, <3>2, ListAppend
    <3>4. Append(x, 1) \in Seq(AllNodes)
      BY <3>3 DEF Distinct
    <3> QED
      BY <1>13, <1>16, <3>1, <3>2, <3>3, <3>4
<1>20. /\ a \in [AllNodes -> EdgeState]
       /\ \A n \in AllNodes : a[n] = "skipped" => n # 1 /\ m.ns[n] = "skipped"
  <2>1. m.ns \in [AllNodes -> EdgeState]
    BY <1>12 DEF TraversalState
  <2> QED
    BY <1>14, <1>15, <2>1 DEF EdgeState
<1>21. st \in TraversalState(edges)
  BY <1>10, <1>17, <1>19, <1>20 DEF TraversalState
<1>22. Into(edges, 1) = {}
  BY <1>2, RootHasNoEdges
<1>23. Standing(edges, g, {1}, {})
  <2>1. ASSUME NEW e \in OutOf(edges, 1) PROVE g[e] = "unknown"
    <3>1. e \in edges /\ e[1] = 1
      BY DEF OutOf
    <3>2. ~Due(g, RootEdges, e)
      BY <1>11, <1>22, <3>1 DEF Due, AllSkip
    <3> QED
      BY <1>10, <3>1, <3>2
  <2>2. ASSUME NEW e \in edges, g[e] # "unknown" PROVE ~Unknown(edges, g, e[1])
    <3>1. e \in RootEdges \/ AllSkip(edges, g, e[1])
      BY <1>10, <2>2 DEF Due
    <3> QED
      BY <1>11, <3>1 DEF Unknown, AllSkip
  <2>3. \A e \in edges : g[e] # "taken"
    BY <1>10
  <2> QED
    BY <1>22, <2>1, <2>2, <2>3 DEF Standing, Ready
<1>24. Propagated(edges, g)
  <2>1. ASSUME NEW n \in AllNodes, AllSkip(edges, g, n), NEW e \in OutOf(edges, n) PROVE g[e] = "skipped"
    BY <1>10, <2>1 DEF OutOf, Due
  <2> QED
    BY <2>1 DEF Propagated
<1>25. QueuedIffReached(edges, g, {1}, {})
  <2>1. \A n : ~Taken(edges, g, n)
    BY <1>10 DEF Taken, Into
  <2> QED
    BY <2>1 DEF QueuedIffReached
<1>26. SkippedOnly(edges, g, a)
  <2>1. \A n \in AllNodes : m.ns[n] = "skipped" => s0.ns[n] = "skipped" \/ AllSkip(edges, g, n)
    BY <1>6, <1>8 DEF Walking
  <2> QED
    BY <1>7, <1>20, <2>1 DEF SkippedOnly
<1> QED
  BY <1>2, <1>18, <1>19, <1>21, <1>23, <1>24, <1>25, <1>26 DEF Invariant

-----------------------------------------------------------------------------
(* Part 6 *)

(* A step keeps the invariant: it is a completion. *)
LEMMA NextInv == TraversalInv /\ [Next]_vars => TraversalInv'
<1>1. SUFFICES ASSUME TraversalInv, [Next]_vars PROVE TraversalInv'
  OBVIOUS
<1>2. CASE UNCHANGED vars
  <2>1. edges' = edges /\ st' = st /\ done' = done
    BY <1>2 DEF vars
  <2>2. Invariant(edges', st', done')
    BY <1>1, <2>1 DEF TraversalInv
  <2> QED
    BY <2>2 DEF TraversalInv
<1>3. ASSUME NEW i \in DOMAIN st.queue, NEW h \in Handles, Complete(i, h) PROVE TraversalInv'
  <2>1. Invariant(edges, st, done) /\ st.queue \in Seq(AllNodes)
    BY <1>1 DEF TraversalInv, Invariant, TraversalState
  <2>2. i \in 1 .. Len(st.queue)
    BY <2>1, LenProperties
  <2>3. PICK n : n = st.queue[i]
    OBVIOUS
  <2>4. PICK s : s = [st EXCEPT !.queue = RemoveAt(@, i)]
    OBVIOUS
  <2>5. PICK r : r = node_succeeded(s, n, h)
    OBVIOUS
  <2>6. Invariant(edges, r, done \union {n})
    BY <2>1, <2>2, <2>3, <2>4, <2>5, CompletionKeeps
  <2>7. edges' = edges /\ st' = r /\ done' = done \union {n}
    BY <1>3, <2>3, <2>4, <2>5 DEF Complete
  <2>8. Invariant(edges', st', done')
    BY <2>6, <2>7
  <2> QED
    BY <2>8 DEF TraversalInv
<1> QED
  BY <1>1, <1>2, <1>3 DEF Next

(* Between two completions the edges, the states of the nodes and the     *)
(* ready queue of GraphStateManager fit together (Invariant, above): at    *)
(* the start, and however the nodes complete.                              *)
THEOREM TraversalKeepsInv == Spec => []TraversalInv
<1>1. Init => TraversalInv
  BY InitInv
<1>2. TraversalInv /\ [Next]_vars => TraversalInv'
  BY NextInv
<1> QED
  BY <1>1, <1>2, PTL DEF Spec

(* Whichever graph, order of completions and handles: the walk over lists  *)
(* and recursion of EdgeProcessor and SkipPropagator does what the closed  *)
(* form says, which the engine and the coordinator are modelled with.      *)
THEOREM WalkIsClosedForm == Spec => []WalkAgreesWithClosedForm
<1>1. TraversalInv => WalkAgreesWithClosedForm
  BY AgreesFromInv
<1> QED
  BY <1>1, TraversalKeepsInv, PTL

(* A node whose incoming edges are all decided is queued if and only if    *)
(* one of them was taken, and then never marked as skipped.                *)
THEOREM RunsWhenReached == Spec => []RunsIffReached
<1>1. TraversalInv => RunsIffReached
  BY ReachedFromInv
<1> QED
  BY <1>1, TraversalKeepsInv, PTL

=============================================================================
