--------------------- MODULE ResponseCoordinator_proofs ---------------------
(* The response coordinator, for every acyclic graph, any templates,       *)
(* streams, strategies and resumptions.                                    *)
(*                                                                         *)
(* Part 1: a call of the coordinator.  Whatever it is told, the sessions,  *)
(* the transcript, the sent chunks and the remaining paths stay in order,  *)
(* and a flush goes on until the active session has to wait.               *)
(* Part 2: the run.  The states of edges, nodes and variables a call sees. *)
(* Part 3: the properties.                                                 *)
EXTENDS ResponseCoordinator, GraphStates_proofs, SequenceTheorems, FiniteSetTheorems

(* The elements of a set in some order. *)
LEMMA Listed ==
    ASSUME NEW S, IsFiniteSet(S), NEW q \in SetToSeqs(S)
    PROVE  q \in Seq(S) /\ Len(q) \in Nat /\ \A i \in 1 .. Len(q) : q[i] \in S
<1> DEFINE c == Cardinality(S)
<1>1. c \in Nat
  BY FS_CardinalityType
<1>2. q \in [1 .. c -> S]
  BY DEF SetToSeqs
<1> HIDE DEF c
<1>3. q \in Seq(S)
  BY <1>1, <1>2, SeqDef
<1> QED
  BY <1>3, ElementOfSeq, LenProperties

-----------------------------------------------------------------------------
(* Part 1 *)

(* The items of a transcript. *)
Items == [to : Responses, seg : Nat, sel : Selectors \union {Text},
          kind : {"text", "chunk", "value"}, no : Nat]

Work == [co : CoordinatorState, out : Seq(Items)]

(* A session is pending, waiting or active, or over; a waiting one has not *)
(* begun, and nothing waits behind no session.                             *)
Sessions(w) ==
    /\ \A i \in 1 .. Len(w.co.waiting) :
          w.co.waiting[i].node \notin w.co.pending /\ w.co.waiting[i].index = 0
    /\ \A i, k \in 1 .. Len(w.co.waiting) :
          i # k => w.co.waiting[i].node # w.co.waiting[k].node
    /\ w.co.active # NoSession =>
          /\ w.co.active.node \notin w.co.pending
          /\ w.co.active.index <= Len(template[w.co.active.node])
          /\ \A i \in 1 .. Len(w.co.waiting) : w.co.waiting[i].node # w.co.active.node
    /\ w.co.active = NoSession => w.co.waiting = <<>>

(* The items of an answer stand together, in the order of its segments.    *)
(* Answers whose session has not begun have none, and those of the active  *)
(* session come last.                                                      *)
Ordered(w) ==
    /\ \A i, k \in 1 .. Len(w.out) : i < k /\ w.out[i].to = w.out[k].to =>
          /\ w.out[i].seg <= w.out[k].seg
          /\ \A j \in i .. k : w.out[j].to = w.out[i].to
    /\ \A i \in 1 .. Len(w.out) :
          /\ w.out[i].to \notin w.co.pending
          /\ \A k \in 1 .. Len(w.co.waiting) : w.co.waiting[k].node # w.out[i].to
    /\ w.co.active # NoSession =>
          \A i \in 1 .. Len(w.out) : w.out[i].to = w.co.active.node =>
              \A j \in i .. Len(w.out) :
                  w.out[j].to = w.co.active.node /\ w.out[j].seg <= w.co.active.index + 1

IsChunk(item, x) == item.kind = "chunk" /\ item.sel = x

(* The chunks sent of x are those up to its position, in their order. *)
ChunksSent(w) ==
    /\ \A x \in Selectors : w.co.position[x] <= w.co.buffered[x]
    /\ \A x \in Selectors : \A n \in 1 .. w.co.position[x] :
          \E i \in 1 .. Len(w.out) : IsChunk(w.out[i], x) /\ w.out[i].no = n
    /\ \A x \in Selectors : \A i \in 1 .. Len(w.out) :
          IsChunk(w.out[i], x) => w.out[i].no \in 1 .. w.co.position[x]
    /\ \A x \in Selectors : \A i, k \in 1 .. Len(w.out) :
          i < k /\ IsChunk(w.out[i], x) /\ IsChunk(w.out[k], x) => w.out[i].no < w.out[k].no
    /\ \A i \in 1 .. Len(w.out) : w.out[i].kind = "chunk" => w.out[i].sel \in Selectors

(* The surroundings d of a call of the coordinator: the edges and the pool *)
(* it sees; what is buffered and closed; of which variables it may send    *)
(* the value; and the answer nodes that have ended and show only variables *)
(* of nodes before them.                                                   *)
ValuesSent(w, d) == \A i \in 1 .. Len(w.out) : w.out[i].kind = "value" => w.out[i].sel \in d.values

(* What is left of a path, with the taken edges, covers a path; a session  *)
(* was opened because the taken edges do.                                  *)
PathsLeft(w, d) ==
    \A r \in Responses :
        /\ \A P \in w.co.paths[r] : \E B \in build_paths_map(r) : \A e \in B : e \in P \/ d.edges[e] = "taken"
        /\ r \notin w.co.pending => \E B \in build_paths_map(r) : \A e \in B : d.edges[e] = "taken"

Good(w, d) ==
    /\ w \in Work /\ w.co.buffered = d.buffered /\ w.co.closed = d.closed
    /\ Sessions(w) /\ Ordered(w) /\ ChunksSent(w) /\ ValuesSent(w, d) /\ PathsLeft(w, d)

(* The active session waits for a variable that is not available. *)
AtRest(w, d) ==
    w.co.active # NoSession =>
        LET a == w.co.active
            x == template[a.node][a.index + 1]
        IN  /\ a.index < Len(template[a.node]) /\ x # Text
            /\ ~SourceSkipped(d.edges, x) /\ x \notin w.co.closed /\ ~HasValue(d.pool, x)

Settled(w, d) == w.co.active.node \in d.ended => AtRest(w, d)

LEMMA WorkFields ==
    ASSUME NEW w \in Work
    PROVE  /\ w.co \in CoordinatorState /\ w.out \in Seq(Items) /\ Len(w.out) \in Nat
           /\ w.co.pending \in SUBSET Responses /\ w.co.waiting \in Seq(Session)
           /\ Len(w.co.waiting) \in Nat
           /\ \A i \in 1 .. Len(w.co.waiting) : w.co.waiting[i] \in Session
           /\ \A i \in 1 .. Len(w.out) : w.out[i] \in Items
           /\ w.co.paths \in [Responses -> SUBSET SUBSET Edges]
           /\ w.co.buffered \in [Selectors -> Nat] /\ w.co.position \in [Selectors -> Nat]
           /\ w.co.closed \in SUBSET Selectors
           /\ w.co.active \in Session \union {NoSession}
           /\ w.co.active # NoSession =>
                 w.co.active.node \in Responses /\ w.co.active.index \in Nat
<1>1. w.co \in CoordinatorState /\ w.out \in Seq(Items)
  BY DEF Work
<1>2. /\ w.co.pending \in SUBSET Responses /\ w.co.waiting \in Seq(Session)
      /\ w.co.paths \in [Responses -> SUBSET SUBSET Edges]
      /\ w.co.buffered \in [Selectors -> Nat] /\ w.co.position \in [Selectors -> Nat]
      /\ w.co.closed \in SUBSET Selectors
      /\ w.co.active \in Session \union {NoSession}
  BY <1>1 DEF CoordinatorState
<1>3. w.co.active # NoSession => w.co.active.node \in Responses /\ w.co.active.index \in Nat
  BY <1>2 DEF Session
<1>4. Len(w.out) \in Nat /\ Len(w.co.waiting) \in Nat
  BY <1>1, <1>2, LenProperties
<1>5. /\ \A i \in 1 .. Len(w.co.waiting) : w.co.waiting[i] \in Session
      /\ \A i \in 1 .. Len(w.out) : w.out[i] \in Items
  BY <1>1, <1>2, ElementOfSeq
<1> QED
  BY <1>1, <1>2, <1>3, <1>4, <1>5

(* What the active session sends keeps the transcript in order. *)
LEMMA SentInOrder ==
    ASSUME NEW w \in Work, Ordered(w), Sessions(w), w.co.active # NoSession,
           NEW s \in Seq(Items),
           \A i \in 1 .. Len(s) : s[i].to = w.co.active.node /\ s[i].seg = w.co.active.index + 1,
           NEW v, v.out = w.out \o s, v.co.active = w.co.active, v.co.waiting = w.co.waiting,
           v.co.pending = w.co.pending
    PROVE  Ordered(v)
<1> DEFINE o == w.out
           a == w.co.active
           m == Len(o)
           n == Len(s)
           q == v.out
<1>1. m \in Nat /\ n \in Nat /\ a.index \in Nat
  BY WorkFields, LenProperties
<1>2. /\ Len(q) = m + n
      /\ \A i \in 1 .. m + n : q[i] = IF i <= m THEN o[i] ELSE s[i - m]
  BY WorkFields, ConcatProperties
<1>3. \A i \in 1 .. m + n : i <= m => i \in 1 .. m /\ q[i] = o[i]
  BY <1>1, <1>2
<1>4. \A i \in 1 .. m + n : i > m => q[i].to = a.node /\ q[i].seg = a.index + 1
  <2> SUFFICES ASSUME NEW i \in 1 .. m + n, i > m PROVE q[i].to = a.node /\ q[i].seg = a.index + 1
    OBVIOUS
  <2>1. i - m \in 1 .. n /\ ~(i <= m)
    BY <1>1
  <2> QED
    BY <1>2, <2>1
<1>5. /\ \A i, k \in 1 .. m : i < k /\ o[i].to = o[k].to =>
          /\ o[i].seg <= o[k].seg
          /\ \A j \in i .. k : o[j].to = o[i].to
      /\ \A i \in 1 .. m :
          /\ o[i].to \notin w.co.pending
          /\ \A k \in 1 .. Len(w.co.waiting) : w.co.waiting[k].node # o[i].to
      /\ \A i \in 1 .. m : o[i].to = a.node =>
              \A j \in i .. m : o[j].to = a.node /\ o[j].seg <= a.index + 1
  BY DEF Ordered
<1>6. \A i \in 1 .. m : o[i].seg \in Nat
  BY WorkFields DEF Items
<1> HIDE DEF o, a, m, n, q
<1>7. ASSUME NEW i \in 1 .. m + n, q[i].to = a.node, NEW j \in i .. m + n
      PROVE  q[j].to = a.node /\ q[j].seg <= a.index + 1
  <2>1. j \in 1 .. m + n /\ (j <= m => i <= m /\ j \in i .. m)
    BY <1>1
  <2>2. CASE j <= m
    <3>1. i \in 1 .. m /\ j \in i .. m /\ q[i] = o[i] /\ q[j] = o[j]
      BY <1>3, <2>1, <2>2
    <3> QED
      BY <1>5, <1>7, <3>1
  <2>3. CASE j > m
    BY <1>1, <1>4, <2>1, <2>3
  <2> QED
    BY <1>1, <2>1, <2>2, <2>3
<1>8. ASSUME NEW i \in 1 .. m + n, NEW k \in 1 .. m + n, i < k, q[i].to = q[k].to
      PROVE  q[i].seg <= q[k].seg /\ \A j \in i .. k : q[j].to = q[i].to
  <2>1. CASE k <= m
    <3>1. i \in 1 .. m /\ k \in 1 .. m /\ q[i] = o[i] /\ q[k] = o[k]
      BY <1>1, <1>3, <1>8, <2>1
    <3>2. \A j \in i .. k : j \in 1 .. m + n /\ q[j] = o[j]
      BY <1>1, <1>3, <2>1
    <3>3. o[i].seg <= o[k].seg /\ \A j \in i .. k : o[j].to = o[i].to
      BY <1>5, <1>8, <3>1
    <3> QED
      BY <3>1, <3>2, <3>3
  <2>2. CASE k > m
    <3>1. q[k].to = a.node /\ q[k].seg = a.index + 1
      BY <1>4, <2>2
    <3>2. \A j \in i .. m + n : q[j].to = a.node /\ q[j].seg <= a.index + 1
      BY <1>7, <1>8, <3>1
    <3>3. i \in i .. m + n /\ \A j \in i .. k : j \in i .. m + n
      BY <1>1
    <3> QED
      BY <1>8, <3>1, <3>2, <3>3
  <2> QED
    BY <1>1, <2>1, <2>2
<1>9. ASSUME NEW i \in 1 .. m + n
      PROVE  /\ q[i].to \notin w.co.pending
             /\ \A k \in 1 .. Len(w.co.waiting) : w.co.waiting[k].node # q[i].to
  <2>1. CASE i <= m
    BY <1>3, <1>5, <2>1
  <2>2. CASE i > m
    <3>1. q[i].to = a.node
      BY <1>4, <2>2
    <3> QED
      BY <3>1 DEF Sessions, a
  <2> QED
    BY <1>1, <2>1, <2>2
<1>10. Len(q) = m + n
  BY <1>2
<1>11. /\ \A i, k \in 1 .. Len(q) : i < k /\ q[i].to = q[k].to =>
          q[i].seg <= q[k].seg /\ \A j \in i .. k : q[j].to = q[i].to
       /\ \A i \in 1 .. Len(q) :
          /\ q[i].to \notin w.co.pending
          /\ \A k \in 1 .. Len(w.co.waiting) : w.co.waiting[k].node # q[i].to
       /\ \A i \in 1 .. Len(q) : q[i].to = a.node =>
              \A j \in i .. Len(q) : q[j].to = a.node /\ q[j].seg <= a.index + 1
  BY <1>7, <1>8, <1>9, <1>10
<1>12. q = v.out /\ a = v.co.active /\ w.co.pending = v.co.pending /\ w.co.waiting = v.co.waiting
  BY DEF q, a
<1>13. \A i, k \in 1 .. Len(v.out) : i < k /\ v.out[i].to = v.out[k].to =>
          /\ v.out[i].seg <= v.out[k].seg
          /\ \A j \in i .. k : v.out[j].to = v.out[i].to
  <2>1. \A i, k \in 1 .. Len(q) : i < k /\ q[i].to = q[k].to =>
          q[i].seg <= q[k].seg /\ \A j \in i .. k : q[j].to = q[i].to
    BY <1>11
  <2>2. q = v.out
    BY <1>12
  <2> QED
    BY <2>1, <2>2
<1>14. \A i \in 1 .. Len(v.out) :
          /\ v.out[i].to \notin v.co.pending
          /\ \A k \in 1 .. Len(v.co.waiting) : v.co.waiting[k].node # v.out[i].to
  BY <1>11, <1>12
<1>15. v.co.active # NoSession =>
          \A i \in 1 .. Len(v.out) : v.out[i].to = v.co.active.node =>
              \A j \in i .. Len(v.out) :
                  v.out[j].to = v.co.active.node /\ v.out[j].seg <= v.co.active.index + 1
  BY <1>11, <1>12
<1> QED
  BY <1>13, <1>14, <1>15 DEF Ordered

LEMMA SentGood ==
    ASSUME NEW w, NEW d, Good(w, d), w.co.active # NoSession, NEW item \in Items,
           item.to = w.co.active.node, item.seg = w.co.active.index + 1,
           item.kind # "chunk", item.kind = "value" => item.sel \in d.values,
           NEW v, v = [w EXCEPT !.out = Append(@, item)]
    PROVE  Good(v, d) /\ v.co = w.co
<1> DEFINE n == Len(w.out)
<1>1. /\ w \in Work /\ w.out \in Seq(Items) /\ n \in Nat
      /\ Sessions(w) /\ Ordered(w) /\ ChunksSent(w) /\ ValuesSent(w, d) /\ PathsLeft(w, d)
  BY WorkFields DEF Good
<1>2. v.co = w.co /\ v.out = Append(w.out, item)
  BY <1>1 DEF Work
<1>3. v \in Work
  <2>1. Append(w.out, item) \in Seq(Items)
    BY <1>1, AppendProperties
  <2> QED
    BY <1>1, <2>1 DEF Work
<1>4. /\ Len(v.out) = n + 1 /\ v.out[n + 1] = item
      /\ \A i \in 1 .. n : v.out[i] = w.out[i]
  BY <1>1, <1>2, AppendProperties
<1> HIDE DEF n
<1>5. \A i \in 1 .. n + 1 : i \in 1 .. n \/ i = n + 1
  BY <1>1
<1>6. Sessions(v) /\ PathsLeft(v, d)
  BY <1>1, <1>2 DEF Sessions, PathsLeft
<1>7. Ordered(v)
  <2>1. <<item>> \in Seq(Items) /\ Len(<<item>>) = 1 /\ <<item>>[1] = item
    OBVIOUS
  <2>2. v.out = w.out \o <<item>>
    BY <1>1, <1>2, AppendIsConcat
  <2>3. \A i \in 1 .. Len(<<item>>) : <<item>>[i].to = w.co.active.node
                                      /\ <<item>>[i].seg = w.co.active.index + 1
    <3>1. \A i \in 1 .. Len(<<item>>) : i = 1
      BY <2>1
    <3> QED
      BY <2>1, <3>1
  <2> QED
    BY <1>1, <1>2, <2>1, <2>2, <2>3, SentInOrder
<1>8. ChunksSent(v)
  <2>1. \A i \in 1 .. n + 1, x \in Selectors :
           IsChunk(v.out[i], x) => i \in 1 .. n /\ v.out[i] = w.out[i]
    BY <1>4, <1>5 DEF IsChunk
  <2>2. \A i \in 1 .. n : i \in 1 .. n + 1
    BY <1>1
  <2>3. \A x \in Selectors : v.co.position[x] <= v.co.buffered[x]
    BY <1>1, <1>2 DEF ChunksSent
  <2>4. \A x \in Selectors : \A k \in 1 .. v.co.position[x] :
           \E i \in 1 .. Len(v.out) : IsChunk(v.out[i], x) /\ v.out[i].no = k
    <3>1. \A x \in Selectors : \A k \in 1 .. w.co.position[x] :
             \E i \in 1 .. n : IsChunk(w.out[i], x) /\ w.out[i].no = k
      BY <1>1 DEF ChunksSent, n
    <3> QED
      BY <1>2, <1>4, <2>2, <3>1
  <2>5. \A x \in Selectors : \A i \in 1 .. Len(v.out) :
           IsChunk(v.out[i], x) => v.out[i].no \in 1 .. v.co.position[x]
    BY <1>1, <1>2, <1>4, <2>1 DEF ChunksSent, n
  <2>6. \A x \in Selectors : \A i, k \in 1 .. Len(v.out) :
          i < k /\ IsChunk(v.out[i], x) /\ IsChunk(v.out[k], x) => v.out[i].no < v.out[k].no
    BY <1>1, <1>4, <2>1 DEF ChunksSent, n
  <2>7. \A i \in 1 .. Len(v.out) : v.out[i].kind = "chunk" => v.out[i].sel \in Selectors
    BY <1>1, <1>4, <1>5 DEF ChunksSent, n
  <2> QED
    BY <2>3, <2>4, <2>5, <2>6, <2>7 DEF ChunksSent
<1>9. ValuesSent(v, d)
  BY <1>1, <1>4, <1>5 DEF ValuesSent, n
<1> QED
  BY <1>2, <1>3, <1>6, <1>7, <1>8, <1>9 DEF Good

(* The k-th chunk of a source, when its chunks after the p-th are appended  *)
(* to a list of n items.                                                   *)
LEMMA Numbering ==
    ASSUME NEW n \in Nat, NEW p \in Nat, NEW b \in Nat, NEW k \in Nat, p < k, k <= b
    PROVE  /\ n + (k - p) \in 1 .. n + (b - p) /\ n + (k - p) > n
           /\ p + ((n + (k - p)) - n) = k
OBVIOUS

(* Sending every unread chunk of a variable. *)
LEMMA PoppedGood ==
    ASSUME NEW w, NEW d, Good(w, d), w.co.active # NoSession, NEW x \in Selectors,
           NEW v, v = PopChunks(w, x)
    PROVE  /\ Good(v, d)
           /\ v.co.active = w.co.active /\ v.co.waiting = w.co.waiting /\ v.co.closed = w.co.closed
<1> DEFINE n == Len(w.out)
           a == w.co.active
           p == w.co.position[x]
           b == w.co.buffered[x]
           s == [k \in 1 .. b - p |-> Item(a.node, a.index + 1, x, "chunk", p + k)]
<1>1. /\ w \in Work /\ w.out \in Seq(Items) /\ n \in Nat /\ w.co \in CoordinatorState
      /\ Sessions(w) /\ Ordered(w) /\ ChunksSent(w) /\ ValuesSent(w, d) /\ PathsLeft(w, d)
  BY WorkFields DEF Good
<1>2. p \in Nat /\ b \in Nat /\ p <= b /\ a.node \in Responses /\ a.index \in Nat
  BY <1>1, WorkFields DEF ChunksSent
<1>3. v.co = [w.co EXCEPT !.position[x] = b] /\ v.out = w.out \o s
  BY DEF PopChunks
<1>4. /\ v.co.active = w.co.active /\ v.co.waiting = w.co.waiting /\ v.co.closed = w.co.closed
      /\ v.co.pending = w.co.pending /\ v.co.paths = w.co.paths /\ v.co.buffered = w.co.buffered
      /\ v.co.position = [w.co.position EXCEPT ![x] = b]
      /\ v.co \in CoordinatorState
  <2>1. w.co = [w.co EXCEPT !.pending = w.co.pending]
    BY <1>1 DEF CoordinatorState
  <2>2. w.co.position \in [Selectors -> Nat]
    BY <1>1, WorkFields
  <2>3. [w.co.position EXCEPT ![x] = b] \in [Selectors -> Nat]
    BY <1>2, <2>2
  <2>4. v.co = [w.co EXCEPT !.position = [w.co.position EXCEPT ![x] = b]]
    BY <1>3
  <2>5. /\ v.co.active = w.co.active /\ v.co.waiting = w.co.waiting /\ v.co.closed = w.co.closed
        /\ v.co.pending = w.co.pending /\ v.co.paths = w.co.paths /\ v.co.buffered = w.co.buffered
        /\ v.co.position = [w.co.position EXCEPT ![x] = b]
    BY <1>1, <2>4 DEF CoordinatorState
  <2>6. v.co \in CoordinatorState
    BY <1>1, <2>3, <2>4 DEF CoordinatorState
  <2> QED
    BY <2>5, <2>6
<1>5. /\ s \in Seq(Items) /\ Len(s) = b - p
      /\ \A k \in 1 .. b - p : s[k] = Item(a.node, a.index + 1, x, "chunk", p + k)
      /\ \A k \in 1 .. b - p : s[k].to = a.node /\ s[k].seg = a.index + 1
  <2>1. \A k \in 1 .. b - p : Item(a.node, a.index + 1, x, "chunk", p + k) \in Items
    BY <1>2 DEF Item, Items
  <2>2. s \in [1 .. b - p -> Items] /\ b - p \in Nat
    BY <1>2, <2>1
  <2>3. s \in Seq(Items)
    BY <2>2, SeqDef
  <2>4. DOMAIN s = 1 .. b - p
    OBVIOUS
  <2>5. Len(s) = b - p
    BY <2>2, <2>3, <2>4, LenProperties
  <2>6. \A k \in 1 .. b - p : s[k] = Item(a.node, a.index + 1, x, "chunk", p + k)
    OBVIOUS
  <2>7. \A k \in 1 .. b - p : s[k].to = a.node /\ s[k].seg = a.index + 1
    BY DEF Item
  <2> QED
    BY <2>3, <2>5, <2>6, <2>7
<1> HIDE DEF s
<1>6. v \in Work
  <2>1. v = [co |-> v.co, out |-> v.out]
    BY DEF PopChunks
  <2>2. v.out \in Seq(Items)
    BY <1>1, <1>3, <1>5, ConcatProperties
  <2> QED
    BY <1>4, <2>1, <2>2 DEF Work
<1>7. Sessions(v) /\ PathsLeft(v, d)
  BY <1>1, <1>4 DEF Sessions, PathsLeft
<1>8. Ordered(v)
  <2>1. \A i \in 1 .. Len(s) : s[i].to = w.co.active.node /\ s[i].seg = w.co.active.index + 1
    BY <1>5
  <2> QED
    BY <1>1, <1>3, <1>4, <1>5, <2>1, SentInOrder
<1> DEFINE m == b - p
<1>9. /\ Len(v.out) = n + m /\ m \in Nat
      /\ \A i \in 1 .. n + m : v.out[i] = IF i <= n THEN w.out[i] ELSE s[i - n]
  <2>1. m \in Nat /\ Len(s) = m
    BY <1>2, <1>5
  <2>2. /\ Len(w.out \o s) = Len(w.out) + Len(s)
        /\ \A i \in 1 .. Len(w.out) + Len(s) :
              (w.out \o s)[i] = IF i <= Len(w.out) THEN w.out[i] ELSE s[i - Len(w.out)]
    BY <1>1, <1>5, ConcatProperties
  <2> HIDE DEF m
  <2> QED
    BY <1>3, <2>1, <2>2
<1>10. \A i \in 1 .. n : i \in 1 .. n + m /\ v.out[i] = w.out[i]
  BY <1>1, <1>9
<1>11. \A i \in 1 .. n + m : i > n =>
          /\ i - n \in 1 .. m
          /\ v.out[i].sel = x /\ v.out[i].kind = "chunk" /\ v.out[i].no = p + (i - n)
  <2> SUFFICES ASSUME NEW i \in 1 .. n + m, i > n
               PROVE  /\ i - n \in 1 .. m
                      /\ v.out[i].sel = x /\ v.out[i].kind = "chunk" /\ v.out[i].no = p + (i - n)
    OBVIOUS
  <2>1. i - n \in 1 .. m /\ ~(i <= n)
    BY <1>1, <1>9
  <2>2. v.out[i] = Item(a.node, a.index + 1, x, "chunk", p + (i - n))
    BY <1>5, <1>9, <2>1
  <2> QED
    BY <2>1, <2>2 DEF Item
<1>12. \A i \in 1 .. n + m : i \in 1 .. n \/ i > n
  BY <1>1, <1>9
<1>13. \A y \in Selectors : v.co.position[y] = IF y = x THEN b ELSE w.co.position[y]
  BY <1>1, <1>4, WorkFields
<1> HIDE DEF m, n, a
<1>14. ChunksSent(v)
  <2>1. \A y \in Selectors : \A i \in 1 .. n + m :
           i > n => (IsChunk(v.out[i], y) <=> y = x) /\ v.out[i].no = p + (i - n)
    BY <1>11 DEF IsChunk
  <2>2. \A y \in Selectors : v.co.position[y] <= v.co.buffered[y]
    BY <1>1, <1>2, <1>4, <1>13 DEF ChunksSent
  <2>3. /\ \A y \in Selectors : \A k \in 1 .. w.co.position[y] :
              \E i \in 1 .. n : IsChunk(w.out[i], y) /\ w.out[i].no = k
        /\ \A y \in Selectors : \A i \in 1 .. n :
              IsChunk(w.out[i], y) => w.out[i].no \in 1 .. w.co.position[y]
        /\ \A y \in Selectors : \A i, k \in 1 .. n :
              i < k /\ IsChunk(w.out[i], y) /\ IsChunk(w.out[k], y) => w.out[i].no < w.out[k].no
    BY <1>1 DEF ChunksSent, n
  <2>4. ASSUME NEW y \in Selectors, NEW k \in 1 .. v.co.position[y]
        PROVE  \E i \in 1 .. n + m : IsChunk(v.out[i], y) /\ v.out[i].no = k
    <3>1. CASE k \in 1 .. w.co.position[y]
      BY <1>10, <2>3, <3>1
    <3>2. CASE k \notin 1 .. w.co.position[y]
      <4>1. y = x /\ k \in Nat /\ p < k /\ k <= b
        BY <1>2, <1>13, <3>2
      <4>2. n + (k - p) \in 1 .. n + m /\ n + (k - p) > n /\ p + ((n + (k - p)) - n) = k
        <5>1. n \in Nat /\ p \in Nat /\ b \in Nat /\ k \in Nat /\ p < k /\ k <= b
          BY <1>1, <1>2, <4>1
        <5> QED
          BY <5>1, Numbering DEF m
      <4> QED
        BY <2>1, <4>1, <4>2
    <3> QED
      BY <3>1, <3>2
  <2>5. ASSUME NEW y \in Selectors, NEW i \in 1 .. n + m, IsChunk(v.out[i], y)
        PROVE  v.out[i].no \in 1 .. v.co.position[y]
    <3>1. CASE i \in 1 .. n
      <4>1. w.out[i].no \in 1 .. w.co.position[y]
        BY <1>10, <2>3, <2>5, <3>1
      <4>2. w.co.position[y] \in Nat /\ w.co.position[y] <= v.co.position[y] /\ v.co.position[y] \in Nat
        BY <1>1, <1>2, <1>13, WorkFields
      <4> QED
        BY <1>10, <3>1, <4>1, <4>2
    <3>2. CASE i > n
      <4>1. y = x /\ v.out[i].no = p + (i - n) /\ i - n \in 1 .. m
        BY <1>11, <2>1, <2>5, <3>2
      <4> QED
        BY <1>2, <1>13, <4>1 DEF m
    <3> QED
      BY <1>12, <3>1, <3>2
  <2>6. ASSUME NEW y \in Selectors, NEW i \in 1 .. n + m, NEW k \in 1 .. n + m,
               i < k, IsChunk(v.out[i], y), IsChunk(v.out[k], y)
        PROVE  v.out[i].no < v.out[k].no
    <3>1. CASE k \in 1 .. n
      <4>1. i \in 1 .. n
        BY <1>1, <2>6, <3>1
      <4> QED
        BY <1>10, <2>3, <2>6, <3>1, <4>1
    <3>2. CASE k > n
      <4>1. y = x /\ v.out[k].no = p + (k - n) /\ k - n \in 1 .. m
        BY <1>11, <2>1, <2>6, <3>2
      <4>2. CASE i > n
        <5>1. v.out[i].no = p + (i - n) /\ i - n \in 1 .. m
          BY <1>11, <2>1, <4>2
        <5> QED
          BY <1>1, <1>2, <2>6, <4>1, <5>1
      <4>3. CASE i \in 1 .. n
        <5>1. v.out[i].no \in 1 .. p
          BY <1>10, <2>3, <2>6, <4>1, <4>3
        <5> QED
          BY <1>2, <4>1, <5>1
      <4> QED
        BY <1>12, <4>2, <4>3
    <3> QED
      BY <1>12, <3>1, <3>2
  <2>7. \A i \in 1 .. n + m : v.out[i].kind = "chunk" => v.out[i].sel \in Selectors
    <3>1. \A i \in 1 .. n : w.out[i].kind = "chunk" => w.out[i].sel \in Selectors
      BY <1>1 DEF ChunksSent, n
    <3>2. \A i \in 1 .. n + m : i > n => v.out[i].sel = x
      BY <1>11
    <3> QED
      BY <1>10, <1>12, <3>1, <3>2
  <2> QED
    BY <1>9, <2>2, <2>4, <2>5, <2>6, <2>7 DEF ChunksSent
<1>15. ValuesSent(v, d)
  <2>1. \A i \in 1 .. n + m : i > n => v.out[i].kind = "chunk"
    BY <1>11
  <2> QED
    BY <1>1, <1>9, <1>10, <1>12, <2>1 DEF ValuesSent, n
<1> QED
  BY <1>1, <1>4, <1>6, <1>7, <1>8, <1>14, <1>15 DEF Good

(* A working state with other sessions and paths. *)
Resumed(w, P, a, q, ps) ==
    [co |-> [w.co EXCEPT !.pending = P, !.active = a, !.waiting = q, !.paths = ps], out |-> w.out]

LEMMA ResumedFields ==
    ASSUME NEW w \in Work, NEW P \in SUBSET Responses, NEW a \in Session \union {NoSession},
           NEW q \in Seq(Session), NEW ps \in [Responses -> SUBSET SUBSET Edges],
           NEW v, v = Resumed(w, P, a, q, ps)
    PROVE  /\ v \in Work /\ v.out = w.out
           /\ v.co.pending = P /\ v.co.active = a /\ v.co.waiting = q /\ v.co.paths = ps
           /\ v.co.buffered = w.co.buffered /\ v.co.position = w.co.position
           /\ v.co.closed = w.co.closed
<1>1. w.co \in CoordinatorState /\ w.out \in Seq(Items)
  BY WorkFields
<1> DEFINE c == [w.co EXCEPT !.pending = P, !.active = a, !.waiting = q, !.paths = ps]
<1>2. /\ c.pending = P /\ c.active = a /\ c.waiting = q /\ c.paths = ps
      /\ c.buffered = w.co.buffered /\ c.position = w.co.position /\ c.closed = w.co.closed
  BY <1>1 DEF CoordinatorState
<1>3. c \in CoordinatorState
  BY <1>1 DEF CoordinatorState
<1>4. v = [co |-> c, out |-> w.out]
  BY DEF Resumed
<1> HIDE DEF c
<1> QED
  BY <1>1, <1>2, <1>3, <1>4 DEF Work

LEMMA AdvancedIs ==
    ASSUME NEW w \in Work, w.co.active # NoSession
    PROVE  /\ Advanced(w) = Resumed(w, w.co.pending,
                                    [w.co.active EXCEPT !.index = w.co.active.index + 1],
                                    w.co.waiting, w.co.paths)
           /\ [w.co.active EXCEPT !.index = w.co.active.index + 1] \in Session
           /\ [w.co.active EXCEPT !.index = w.co.active.index + 1].node = w.co.active.node
           /\ [w.co.active EXCEPT !.index = w.co.active.index + 1].index = w.co.active.index + 1
<1>1. w.co \in CoordinatorState /\ w.co.active \in Session /\ w.co.active.index \in Nat
  BY WorkFields
<1> DEFINE a == [w.co.active EXCEPT !.index = w.co.active.index + 1]
<1>2. a \in Session /\ a.node = w.co.active.node /\ a.index = w.co.active.index + 1
  BY <1>1 DEF Session
<1>3. Advanced(w) = [w EXCEPT !.co = [w.co EXCEPT !.active = a]]
  BY DEF Advanced
<1> HIDE DEF a
<1>4. [w.co EXCEPT !.active = a] =
         [w.co EXCEPT !.pending = w.co.pending, !.active = a, !.waiting = w.co.waiting,
                      !.paths = w.co.paths]
  BY <1>1 DEF CoordinatorState
<1>5. [w EXCEPT !.co = [w.co EXCEPT !.active = a]] =
         [co |-> [w.co EXCEPT !.active = a], out |-> w.out]
  BY DEF Work
<1> QED
  BY <1>2, <1>3, <1>4, <1>5 DEF a, Resumed

LEMMA NextSessionIs ==
    ASSUME NEW w \in Work
    PROVE  NextSession(w) =
              IF w.co.waiting = <<>>
              THEN Resumed(w, w.co.pending, NoSession, w.co.waiting, w.co.paths)
              ELSE Resumed(w, w.co.pending, Head(w.co.waiting), Tail(w.co.waiting), w.co.paths)
<1>1. w.co \in CoordinatorState
  BY WorkFields
<1>2. CASE w.co.waiting = <<>>
  <2>1. NextSession(w) = [w EXCEPT !.co = [w.co EXCEPT !.active = NoSession]]
    BY <1>2 DEF NextSession
  <2>2. [w.co EXCEPT !.active = NoSession] =
           [w.co EXCEPT !.pending = w.co.pending, !.active = NoSession,
                        !.waiting = w.co.waiting, !.paths = w.co.paths]
    BY <1>1 DEF CoordinatorState
  <2>3. [w EXCEPT !.co = [w.co EXCEPT !.active = NoSession]] =
           [co |-> [w.co EXCEPT !.active = NoSession], out |-> w.out]
    BY DEF Work
  <2> QED
    BY <1>2, <2>1, <2>2, <2>3 DEF Resumed
<1>3. CASE w.co.waiting # <<>>
  <2> DEFINE h == Head(w.co.waiting)
             t == Tail(w.co.waiting)
             c == [w.co EXCEPT !.active = h, !.waiting = t]
  <2>1. NextSession(w) = [w EXCEPT !.co = c]
    BY <1>1, <1>3 DEF NextSession, CoordinatorState, Work
  <2> HIDE DEF h, t
  <2>2. c = [w.co EXCEPT !.pending = w.co.pending, !.active = h, !.waiting = t,
                         !.paths = w.co.paths]
    BY <1>1 DEF CoordinatorState
  <2>3. [w EXCEPT !.co = c] = [co |-> c, out |-> w.out]
    BY DEF Work
  <2> HIDE DEF c
  <2> QED
    BY <1>3, <2>1, <2>2, <2>3 DEF Resumed, h, t
<1> QED
  BY <1>2, <1>3

(* What has been sent does not depend on the sessions. *)
LEMMA ResumedSent ==
    ASSUME NEW w, NEW d, Good(w, d), NEW P \in SUBSET Responses,
           NEW a \in Session \union {NoSession}, NEW q \in Seq(Session),
           NEW ps \in [Responses -> SUBSET SUBSET Edges], NEW v, v = Resumed(w, P, a, q, ps),
           Sessions(v), Ordered(v), PathsLeft(v, d)
    PROVE  Good(v, d)
<1>1. w \in Work /\ ChunksSent(w) /\ ValuesSent(w, d)
  BY DEF Good
<1>2. /\ v \in Work /\ v.out = w.out
      /\ v.co.buffered = w.co.buffered /\ v.co.position = w.co.position
      /\ v.co.closed = w.co.closed
  BY <1>1, ResumedFields
<1>3. ChunksSent(v)
  BY <1>1, <1>2 DEF ChunksSent
<1>4. ValuesSent(v, d)
  BY <1>1, <1>2 DEF ValuesSent
<1> QED
  BY <1>2, <1>3, <1>4 DEF Good

LEMMA AdvancedGood ==
    ASSUME NEW w, NEW d, Good(w, d), w.co.active # NoSession,
           w.co.active.index < Len(template[w.co.active.node])
    PROVE  /\ Good(Advanced(w), d)
           /\ Advanced(w).co.active # NoSession
           /\ Advanced(w).co.active.node = w.co.active.node
           /\ Advanced(w).co.active.index = w.co.active.index + 1
           /\ Advanced(w).co.waiting = w.co.waiting
<1> DEFINE a == [w.co.active EXCEPT !.index = w.co.active.index + 1]
           v == Advanced(w)
           r == w.co.active.node
           i0 == w.co.active.index
<1>1. /\ w \in Work /\ Sessions(w) /\ Ordered(w) /\ PathsLeft(w, d)
      /\ w.co.pending \in SUBSET Responses /\ w.co.waiting \in Seq(Session)
      /\ w.co.paths \in [Responses -> SUBSET SUBSET Edges]
      /\ r \in Responses /\ i0 \in Nat
  BY WorkFields DEF Good
<1>2. /\ v = Resumed(w, w.co.pending, a, w.co.waiting, w.co.paths)
      /\ a \in Session /\ a.node = r /\ a.index = i0 + 1
  BY <1>1, AdvancedIs
<1> HIDE DEF a, v
<1>3. /\ v.out = w.out /\ v.co.pending = w.co.pending /\ v.co.active = a
      /\ v.co.waiting = w.co.waiting /\ v.co.paths = w.co.paths
  BY <1>1, <1>2, ResumedFields
<1>4. a # NoSession
  BY <1>1, <1>2, ResponseConstants DEF NoSession
<1>5. Len(template[r]) \in Nat
  BY <1>1, ResponseConstants, LenProperties
<1>6. Sessions(v)
  BY <1>1, <1>2, <1>3, <1>4, <1>5 DEF Sessions
<1>7. Ordered(v)
  <2>1. \A j \in 1 .. Len(w.out) : w.out[j].seg \in Nat
    BY <1>1, WorkFields DEF Items
  <2>2. \A i \in 1 .. Len(w.out) : w.out[i].to = r =>
              \A j \in i .. Len(w.out) : w.out[j].to = r /\ w.out[j].seg <= i0 + 1
    BY <1>1 DEF Ordered
  <2>3. \A i \in 1 .. Len(w.out) : \A j \in i .. Len(w.out) : j \in 1 .. Len(w.out)
    BY <1>1, WorkFields
  <2>4. \A i \in 1 .. Len(w.out) : w.out[i].to = r =>
              \A j \in i .. Len(w.out) : w.out[j].to = r /\ w.out[j].seg <= (i0 + 1) + 1
    BY <1>1, <2>1, <2>2, <2>3
  <2>5. v.co.active # NoSession =>
          \A i \in 1 .. Len(v.out) : v.out[i].to = v.co.active.node =>
              \A j \in i .. Len(v.out) :
                  v.out[j].to = v.co.active.node /\ v.out[j].seg <= v.co.active.index + 1
    BY <1>2, <1>3, <2>4
  <2>6. \A i, k \in 1 .. Len(v.out) : i < k /\ v.out[i].to = v.out[k].to =>
          /\ v.out[i].seg <= v.out[k].seg
          /\ \A j \in i .. k : v.out[j].to = v.out[i].to
    BY <1>1, <1>3 DEF Ordered
  <2>7. \A i \in 1 .. Len(v.out) :
          /\ v.out[i].to \notin v.co.pending
          /\ \A k \in 1 .. Len(v.co.waiting) : v.co.waiting[k].node # v.out[i].to
    BY <1>1, <1>3 DEF Ordered
  <2> QED
    BY <2>5, <2>6, <2>7 DEF Ordered
<1>8. PathsLeft(v, d)
  BY <1>1, <1>3 DEF PathsLeft
<1>9. Good(v, d)
  BY <1>1, <1>2, <1>6, <1>7, <1>8, ResumedSent
<1> QED
  BY <1>2, <1>3, <1>4, <1>9 DEF v

(* The next session begins: nothing was sent for it yet. *)
LEMMA NextGood ==
    ASSUME NEW w, NEW d, Good(w, d), w.co.active # NoSession
    PROVE  /\ Good(NextSession(w), d)
           /\ w.co.waiting = <<>> => NextSession(w).co.active = NoSession
           /\ w.co.waiting # <<>> => /\ NextSession(w).co.active # NoSession
                                     /\ NextSession(w).co.active.index = 0
                                     /\ Len(NextSession(w).co.waiting) = Len(w.co.waiting) - 1
<1> DEFINE v == NextSession(w)
           q == w.co.waiting
           h == Head(q)
           t == Tail(q)
<1>1. /\ w \in Work /\ Sessions(w) /\ Ordered(w) /\ PathsLeft(w, d)
      /\ w.co.pending \in SUBSET Responses /\ q \in Seq(Session)
      /\ w.co.paths \in [Responses -> SUBSET SUBSET Edges]
  BY WorkFields DEF Good
<1>2. v = IF q = <<>> THEN Resumed(w, w.co.pending, NoSession, q, w.co.paths)
          ELSE Resumed(w, w.co.pending, h, t, w.co.paths)
  BY <1>1, NextSessionIs
<1> HIDE DEF v
<1>3. ASSUME q = <<>> PROVE Good(v, d) /\ v.co.active = NoSession
  <2>1. v = Resumed(w, w.co.pending, NoSession, q, w.co.paths)
    BY <1>2, <1>3
  <2>2. /\ v.out = w.out /\ v.co.pending = w.co.pending /\ v.co.active = NoSession
        /\ v.co.waiting = q /\ v.co.paths = w.co.paths
    BY <1>1, <2>1, ResumedFields
  <2>3. Sessions(v)
    BY <1>1, <1>3, <2>2 DEF Sessions
  <2>4. Ordered(v)
    BY <1>1, <2>2 DEF Ordered
  <2>5. PathsLeft(v, d)
    BY <1>1, <2>2 DEF PathsLeft
  <2> QED
    BY <1>1, <2>1, <2>2, <2>3, <2>4, <2>5, ResumedSent
<1>4. ASSUME q # <<>>
      PROVE  Good(v, d) /\ v.co.active # NoSession /\ v.co.active.index = 0 /\ Len(v.co.waiting) = Len(q) - 1
  <2>1. v = Resumed(w, w.co.pending, h, t, w.co.paths)
    BY <1>2, <1>4
  <2>2. /\ h \in Session /\ t \in Seq(Session) /\ Len(t) = Len(q) - 1 /\ Len(q) \in Nat \ {0}
        /\ \A i \in 1 .. Len(t) : t[i] = q[i + 1]
    BY <1>1, <1>4, HeadTailProperties, EmptySeq
  <2>3. h = q[1]
    OBVIOUS
  <2> HIDE DEF h, t
  <2>4. /\ v.out = w.out /\ v.co.pending = w.co.pending /\ v.co.active = h
        /\ v.co.waiting = t /\ v.co.paths = w.co.paths
    BY <1>1, <2>1, <2>2, ResumedFields
  <2>5. h # NoSession /\ h.node \in Responses
    BY <2>2, ResponseConstants DEF Session, NoSession
  <2>6. Len(template[h.node]) \in Nat
    BY <2>5, ResponseConstants, LenProperties
  <2>7. /\ \A i \in 1 .. Len(q) : q[i].node \notin w.co.pending /\ q[i].index = 0
        /\ \A i, k \in 1 .. Len(q) : i # k => q[i].node # q[k].node
    BY <1>1 DEF Sessions
  <2>8. 1 \in 1 .. Len(q) /\ \A i \in 1 .. Len(t) : i + 1 \in 1 .. Len(q) /\ i + 1 # 1
    BY <2>2
  <2>9. Sessions(v)
    <3>1. \A i \in 1 .. Len(t) : t[i].node \notin w.co.pending /\ t[i].index = 0
      BY <2>2, <2>7, <2>8
    <3>2. \A i, k \in 1 .. Len(t) : i # k => t[i].node # t[k].node
      <4> SUFFICES ASSUME NEW i \in 1 .. Len(t), NEW k \in 1 .. Len(t), i # k
                   PROVE  t[i].node # t[k].node
        OBVIOUS
      <4>1. i + 1 # k + 1 /\ i + 1 \in 1 .. Len(q) /\ k + 1 \in 1 .. Len(q)
        BY <2>2
      <4> QED
        BY <2>2, <2>7, <4>1
    <3>3. h.node \notin w.co.pending /\ h.index = 0
      BY <2>3, <2>7, <2>8
    <3>4. \A i \in 1 .. Len(t) : t[i].node # h.node
      BY <2>2, <2>3, <2>7, <2>8
    <3> QED
      BY <2>4, <2>5, <2>6, <3>1, <3>2, <3>3, <3>4 DEF Sessions
  <2>10. Ordered(v)
    <3>1. \A i \in 1 .. Len(w.out) : \A k \in 1 .. Len(q) : q[k].node # w.out[i].to
      BY <1>1 DEF Ordered
    <3>2. \A i \in 1 .. Len(w.out) : w.out[i].to # h.node
      BY <2>3, <2>8, <3>1
    <3>3. \A i \in 1 .. Len(w.out) : \A k \in 1 .. Len(t) : t[k].node # w.out[i].to
      BY <2>2, <2>8, <3>1
    <3>4. \A i, k \in 1 .. Len(v.out) : i < k /\ v.out[i].to = v.out[k].to =>
            /\ v.out[i].seg <= v.out[k].seg
            /\ \A j \in i .. k : v.out[j].to = v.out[i].to
      BY <1>1, <2>4 DEF Ordered
    <3>5. \A i \in 1 .. Len(v.out) :
            /\ v.out[i].to \notin v.co.pending
            /\ \A k \in 1 .. Len(v.co.waiting) : v.co.waiting[k].node # v.out[i].to
      BY <1>1, <2>4, <3>3 DEF Ordered
    <3> QED
      BY <2>4, <3>2, <3>4, <3>5 DEF Ordered
  <2>11. PathsLeft(v, d)
    BY <1>1, <2>4 DEF PathsLeft
  <2>12. Good(v, d)
    BY <1>1, <2>1, <2>2, <2>9, <2>10, <2>11, ResumedSent
  <2>13. h.index = 0
    BY <2>3, <2>7, <2>8
  <2> QED
    BY <2>2, <2>4, <2>5, <2>12, <2>13
<1> QED
  BY <1>3, <1>4 DEF v

-----------------------------------------------------------------------------
(* The flush *)

(* A value in the pool may be sent, unless the stream was closed. *)
Fits(d) ==
    /\ d.pool \in [Selectors -> Nat]
    /\ \A x \in Selectors : HasValue(d.pool, x) /\ x \notin d.closed => x \in d.values

(* At least the turns that are left. *)
Cost(w) == Len(w.co.waiting) * (MaxSegments + 1) + ((MaxSegments + 1) - w.co.active.index)

LEMMA TemplateFacts ==
    ASSUME NEW r \in Responses
    PROVE  /\ Len(template[r]) \in Nat /\ Len(template[r]) <= MaxSegments /\ MaxSegments \in Nat
           /\ \A i \in Nat : i < Len(template[r]) => template[r][i + 1] \in Selectors \union {Text}
<1>1. template[r] \in Seq(Selectors \union {Text})
  BY ResponseConstants
<1>2. Len(template[r]) \in Nat
  BY <1>1, LenProperties
<1>3. ASSUME NEW i \in Nat, i < Len(template[r]) PROVE template[r][i + 1] \in Selectors \union {Text}
  <2>1. i + 1 \in 1 .. Len(template[r])
    BY <1>2, <1>3
  <2> QED
    BY <1>1, <2>1, ElementOfSeq
<1> QED
  BY <1>2, <1>3, ResponseConstants

(* A turn leads from one working state in order to another; a session that *)
(* waits goes on waiting, and any other comes nearer to that.              *)
LEMMA TurnGood ==
    ASSUME NEW w, NEW d, Good(w, d), Fits(d), NEW v, v = flush_turn(w, d.edges, d.pool)
    PROVE  /\ Good(v, d)
           /\ AtRest(w, d) => AtRest(v, d)
           /\ \/ AtRest(v, d)
              \/ v.co.active # NoSession /\ Cost(v) + 1 <= Cost(w)
<1> DEFINE a == w.co.active
           x == template[a.node][a.index + 1]
           n == Len(w.co.waiting)
           c == MaxSegments + 1
<1>1. w \in Work /\ Sessions(w) /\ n \in Nat /\ c \in Nat /\ w.co.waiting \in Seq(Session)
  BY WorkFields, ResponseConstants DEF Good
<1>2. CASE a = NoSession
  <2>1. v = w
    BY <1>2 DEF flush_turn
  <2> QED
    BY <1>2, <2>1 DEF AtRest
<1>3. CASE a # NoSession /\ a.index >= Len(template[a.node])
  <2>1. v = NextSession(w)
    BY <1>3 DEF flush_turn
  <2>2. Good(v, d)
    BY <1>3, <2>1, NextGood
  <2>3. a.node \in Responses /\ a.index \in Nat /\ a.index <= Len(template[a.node])
    BY <1>1, <1>3, WorkFields DEF Sessions
  <2>4. a.index <= MaxSegments
    BY <2>3, TemplateFacts
  <2>5. ~AtRest(w, d)
    BY <1>3, <2>3, TemplateFacts DEF AtRest
  <2>6. CASE w.co.waiting = <<>>
    <3>1. v.co.active = NoSession
      BY <1>3, <2>1, <2>6, NextGood
    <3> QED
      BY <2>2, <2>5, <3>1 DEF AtRest
  <2>7. CASE w.co.waiting # <<>>
    <3>1. v.co.active # NoSession /\ v.co.active.index = 0 /\ Len(v.co.waiting) = n - 1
      BY <1>3, <2>1, <2>7, NextGood
    <3>2. n \in Nat \ {0}
      BY <1>1, <2>7, EmptySeq
    <3> HIDE DEF n, c
    <3>3. Cost(v) = (n - 1) * c + c
      BY <1>1, <3>1, <3>2 DEF Cost, c
    <3>4. (n - 1) * c + c = n * c
      BY <1>1, <3>2
    <3>5. Cost(w) = n * c + (c - a.index)
      BY DEF Cost, c, n
    <3>6. c = MaxSegments + 1 /\ MaxSegments \in Nat
      BY ResponseConstants DEF c
    <3>7. n * c \in Nat
      BY <1>1
    <3>8. Cost(v) + 1 <= Cost(w)
      BY <2>3, <2>4, <3>3, <3>4, <3>5, <3>6, <3>7
    <3> QED
      BY <2>2, <2>5, <3>1, <3>8
  <2> QED
    BY <2>6, <2>7
<1>4. CASE a # NoSession /\ ~(a.index >= Len(template[a.node]))
  <2>1. a.node \in Responses /\ a.index \in Nat
    BY <1>1, <1>4, WorkFields
  <2>2. a.index < Len(template[a.node]) /\ a.index + 1 <= MaxSegments /\ x \in Selectors \union {Text}
    BY <1>4, <2>1, TemplateFacts
  <2>3. x = Text \/ x \in Selectors
    BY <2>2
  \* advancing from a working state u that has the sessions of w
  <2>4. ASSUME NEW u, Good(u, d), u.co.active = a, u.co.waiting = w.co.waiting
        PROVE  /\ Good(Advanced(u), d) /\ Advanced(u).co.active # NoSession
               /\ Cost(Advanced(u)) + 1 <= Cost(w)
    <3>1. /\ Good(Advanced(u), d) /\ Advanced(u).co.active # NoSession
          /\ Advanced(u).co.active.index = a.index + 1
          /\ Advanced(u).co.waiting = w.co.waiting
      BY <1>4, <2>2, <2>4, AdvancedGood
    <3>2. n * c \in Nat
      BY <1>1
    <3> HIDE DEF n, c
    <3>3. Cost(Advanced(u)) = n * c + (c - (a.index + 1)) /\ Cost(w) = n * c + (c - a.index)
      BY <3>1 DEF Cost, c, n
    <3> QED
      BY <1>1, <2>1, <3>1, <3>2, <3>3
  <2> DEFINE popped == PopChunks(w, x)
  <2>5. CASE x = Text
    <3> DEFINE item == Item(a.node, a.index + 1, Text, "text", 0)
               u == SendText(w)
    <3>1. item \in Items /\ item.to = a.node /\ item.seg = a.index + 1 /\ item.kind = "text"
      BY <2>1 DEF Item, Items
    <3>2. u = [w EXCEPT !.out = Append(@, item)]
      BY DEF SendText
    <3> HIDE DEF item, u
    <3>3. Good(u, d) /\ u.co = w.co
      BY <1>4, <3>1, <3>2, SentGood
    <3>4. v = Advanced(u)
      BY <1>4, <2>5 DEF flush_turn, u
    <3>5. ~AtRest(w, d)
      BY <1>4, <2>5 DEF AtRest
    <3> QED
      BY <2>4, <3>3, <3>4, <3>5
  <2>6. CASE x # Text /\ SourceSkipped(d.edges, x)
    <3>1. v = Advanced(w)
      BY <1>4, <2>6 DEF flush_turn, FlushVariable
    <3>2. ~AtRest(w, d)
      BY <1>4, <2>6 DEF AtRest
    <3> QED
      BY <2>4, <3>1, <3>2
  <2>7. CASE x # Text /\ ~SourceSkipped(d.edges, x)
    <3>1. /\ Good(popped, d) /\ popped.co.active = a /\ popped.co.waiting = w.co.waiting
          /\ popped.co.closed = w.co.closed
      BY <1>4, <2>3, <2>7, PoppedGood
    <3> HIDE DEF popped
    <3>2. CASE x \in w.co.closed
      <4>1. v = Advanced(popped)
        BY <1>4, <2>7, <3>2 DEF flush_turn, FlushVariable, process_variable_segment, popped
      <4>2. ~AtRest(w, d)
        BY <1>4, <3>2 DEF AtRest
      <4> QED
        BY <2>4, <3>1, <4>1, <4>2
    <3>3. CASE x \notin w.co.closed /\ HasValue(d.pool, x)
      <4> DEFINE item == Item(a.node, a.index + 1, x, "value", d.pool[x])
                 u == [popped EXCEPT !.out = Append(@, item)]
      <4>1. x \in d.values /\ d.pool[x] \in Nat
        BY <2>3, <2>7, <3>3 DEF Fits, Good
      <4>2. item \in Items /\ item.to = a.node /\ item.seg = a.index + 1
            /\ item.kind = "value" /\ item.sel = x
        <5>1. /\ item = [to |-> a.node, seg |-> a.index + 1, sel |-> x, kind |-> "value", no |-> d.pool[x]]
              /\ a.node \in Responses /\ a.index + 1 \in Nat /\ x \in Selectors \union {Text}
          BY <2>1, <2>2 DEF Item
        <5> HIDE DEF item
        <5> QED
          BY <4>1, <5>1 DEF Items
      <4>3. v = Advanced(u)
        BY <1>4, <2>7, <3>3 DEF flush_turn, FlushVariable, process_variable_segment, popped
      <4> HIDE DEF item
      <4>4. Good(u, d) /\ u.co = popped.co
        BY <1>4, <3>1, <4>1, <4>2, SentGood
      <4> HIDE DEF u
      <4>5. ~AtRest(w, d)
        BY <1>4, <3>3 DEF AtRest
      <4> QED
        BY <2>4, <3>1, <4>3, <4>4, <4>5
    <3>4. CASE x \notin w.co.closed /\ ~HasValue(d.pool, x)
      <4>1. v = popped
        BY <1>4, <2>7, <3>4 DEF flush_turn, FlushVariable, process_variable_segment, popped
      <4>2. AtRest(v, d)
        BY <2>2, <2>7, <3>1, <3>4, <4>1 DEF AtRest
      <4> QED
        BY <3>1, <4>1, <4>2
    <3> QED
      BY <3>2, <3>3, <3>4
  <2> QED
    BY <2>5, <2>6, <2>7
<1> QED
  BY <1>2, <1>3, <1>4

(* The function of the turns, as its reader expects it. *)
Turning(F, w, f, p, m) ==
    F = [k \in 0 .. m |-> IF k = 0 THEN w ELSE flush_turn(F[k - 1], f, p)]

LEMMA TurningExists ==
    ASSUME NEW w, NEW d, Good(w, d), Fits(d), NEW m \in Nat
    PROVE  \E F : Turning(F, w, d.edges, d.pool, m)
<1> DEFINE D == {u \in Work : Good(u, d)}
           g == [ku \in Nat \X D |-> flush_turn(ku[2], d.edges, d.pool)]
<1>1. w \in D
  BY DEF Good
<1>2. ASSUME NEW k \in Nat, NEW u \in D
      PROVE  g[<<k, u>>] = flush_turn(u, d.edges, d.pool)
  OBVIOUS
<1>3. ASSUME NEW u \in D PROVE flush_turn(u, d.edges, d.pool) \in D
  BY TurnGood DEF Good
<1> HIDE DEF g
<1>4. \A k \in Nat \ {0} : \A u \in D : g[<<k, u>>] \in D
  BY <1>2, <1>3
<1> HIDE DEF D
<1>5. PICK F \in [0 .. m -> D] : Iterates(F, w, g, m)
  BY <1>1, <1>4, Iterate
<1>6. ASSUME NEW k \in 0 .. m
      PROVE  (IF k = 0 THEN w ELSE g[<<k, F[k - 1]>>]) =
             (IF k = 0 THEN w ELSE flush_turn(F[k - 1], d.edges, d.pool))
  <2>1. CASE k # 0
    <3>1. k \in Nat /\ k - 1 \in 0 .. m
      BY <2>1
    <3>2. F[k - 1] \in D
      BY <3>1
    <3> QED
      BY <1>2, <2>1, <3>1, <3>2
  <2> QED
    BY <2>1
<1>7. Turning(F, w, d.edges, d.pool, m)
  BY <1>5, <1>6 DEF Iterates, Turning
<1> QED
  BY <1>7

LEMMA TryFlushIs ==
    ASSUME NEW w, NEW d, Good(w, d), Fits(d)
    PROVE  /\ Turns(w) \in Nat
           /\ \E F : /\ Turning(F, w, d.edges, d.pool, Turns(w))
                     /\ try_flush(w, d.edges, d.pool) = F[Turns(w)]
<1> DEFINE F == CHOOSE f : f = [k \in 0 .. Turns(w) |->
                   IF k = 0 THEN w ELSE flush_turn(f[k - 1], d.edges, d.pool)]
<1>1. Turns(w) \in Nat
  <2>1. Len(w.co.waiting) \in Nat /\ MaxSegments \in Nat
    BY WorkFields, ResponseConstants DEF Good
  <2>2. Len(w.co.waiting) + 1 \in Nat /\ MaxSegments + 1 \in Nat
    BY <2>1
  <2> QED
    BY <2>2 DEF Turns
<1>2. try_flush(w, d.edges, d.pool) = F[Turns(w)]
  BY DEF try_flush
<1>3. \E f : f = [k \in 0 .. Turns(w) |->
                   IF k = 0 THEN w ELSE flush_turn(f[k - 1], d.edges, d.pool)]
  BY <1>1, TurningExists DEF Turning
<1>4. Turning(F, w, d.edges, d.pool, Turns(w))
  BY <1>3 DEF Turning
<1> QED
  BY <1>1, <1>2, <1>4

(* A flush keeps everything in order and ends with the active session at   *)
(* rest: the bound on its turns is never reached.                          *)
LEMMA FlushGood ==
    ASSUME NEW w, NEW d, Good(w, d), Fits(d), NEW v, v = try_flush(w, d.edges, d.pool)
    PROVE  Good(v, d) /\ AtRest(v, d)
<1>1. PICK F : Turning(F, w, d.edges, d.pool, Turns(w)) /\ v = F[Turns(w)]
  BY TryFlushIs
<1> DEFINE m == Turns(w)
<1>2. m \in Nat
  BY TryFlushIs
<1>3. /\ F[0] = w
      /\ \A k \in 1 .. m : F[k] = flush_turn(F[k - 1], d.edges, d.pool)
  <2> HIDE DEF m
  <2>1. F = [k \in 0 .. m |-> IF k = 0 THEN w ELSE flush_turn(F[k - 1], d.edges, d.pool)]
    BY <1>1 DEF Turning, m
  <2>2. \A k \in 0 .. m : F[k] = IF k = 0 THEN w ELSE flush_turn(F[k - 1], d.edges, d.pool)
    BY <2>1
  <2>3. 0 \in 0 .. m /\ \A k \in 1 .. m : k \in 0 .. m /\ k # 0
    BY <1>2
  <2> QED
    BY <2>2, <2>3
<1> DEFINE S == {k \in Nat : k <= m => /\ Good(F[k], d)
                                       /\ \/ AtRest(F[k], d)
                                          \/ F[k].co.active # NoSession /\ Cost(F[k]) + k <= m}
<1>4. 0 \in S
  <2>1. CASE AtRest(w, d)
    BY <1>3, <2>1
  <2>2. CASE ~AtRest(w, d)
    <3>1. w.co.active # NoSession
      BY <2>2 DEF AtRest
    <3>2. w.co.active.index \in Nat /\ Len(w.co.waiting) \in Nat /\ MaxSegments \in Nat
      BY <3>1, WorkFields, ResponseConstants DEF Good
    <3> DEFINE n == Len(w.co.waiting)
               c == MaxSegments + 1
    <3>3. n \in Nat /\ c \in Nat
      BY <3>2
    <3>4. m = (n + 1) * c /\ Cost(w) = n * c + (c - w.co.active.index)
      BY DEF Turns, Cost
    <3> HIDE DEF m, n, c
    <3>5. (n + 1) * c = n * c + c /\ n * c \in Nat
      BY <3>3
    <3>6. Cost(w) + 0 <= m
      BY <3>2, <3>3, <3>4, <3>5
    <3> QED
      BY <1>3, <3>1, <3>6
  <2> QED
    BY <2>1, <2>2
<1>5. ASSUME NEW k \in Nat, k \in S PROVE k + 1 \in S
  <2> SUFFICES ASSUME k + 1 <= m
               PROVE  /\ Good(F[k + 1], d)
                      /\ \/ AtRest(F[k + 1], d)
                         \/ F[k + 1].co.active # NoSession /\ Cost(F[k + 1]) + (k + 1) <= m
    OBVIOUS
  <2> HIDE DEF m
  <2>1. k <= m /\ k + 1 \in 1 .. m /\ (k + 1) - 1 = k
    BY <1>2
  <2>2. F[k + 1] = flush_turn(F[k], d.edges, d.pool)
    BY <1>3, <2>1
  <2>3. Good(F[k], d) /\ (AtRest(F[k], d) \/ (F[k].co.active # NoSession /\ Cost(F[k]) + k <= m))
    BY <1>5, <2>1
  <2> HIDE DEF S
  <2>4. Good(F[k + 1], d)
    BY <2>2, <2>3, TurnGood
  <2>5. CASE AtRest(F[k + 1], d)
    BY <2>4, <2>5
  <2>6. CASE ~AtRest(F[k + 1], d)
    <3>1. ~AtRest(F[k], d) /\ F[k + 1].co.active # NoSession /\ Cost(F[k + 1]) + 1 <= Cost(F[k])
      BY <2>2, <2>3, <2>6, TurnGood
    <3>2. Cost(F[k]) + k <= m
      BY <2>3, <3>1
    <3>3. ASSUME NEW u, Good(u, d), u.co.active # NoSession PROVE Cost(u) \in Int
      <4>1. Len(u.co.waiting) \in Int /\ u.co.active.index \in Int /\ MaxSegments + 1 \in Int
        BY <3>3, WorkFields, ResponseConstants DEF Good
      <4> QED
        BY <4>1 DEF Cost
    <3>4. Cost(F[k + 1]) \in Int /\ Cost(F[k]) \in Int
      BY <2>3, <2>4, <3>1, <3>3
    <3> QED
      BY <1>2, <2>4, <3>1, <3>2, <3>4
  <2> QED
    BY <2>5, <2>6
<1> HIDE DEF S
<1>6. m \in S
  BY <1>2, <1>4, <1>5, SetInduction
<1>7. Good(v, d) /\ (AtRest(v, d) \/ (v.co.active # NoSession /\ Cost(v) + m <= m))
  BY <1>1, <1>2, <1>6 DEF S
<1>8. ASSUME v.co.active # NoSession PROVE Cost(v) >= 1 /\ Cost(v) \in Int
  <2>1. /\ v.co.active.node \in Responses /\ v.co.active.index \in Nat
        /\ v.co.active.index <= Len(template[v.co.active.node]) /\ Len(v.co.waiting) \in Nat
    BY <1>7, <1>8, WorkFields DEF Good, Sessions
  <2>2. v.co.active.index <= MaxSegments /\ MaxSegments \in Nat
    BY <2>1, TemplateFacts
  <2>3. Len(v.co.waiting) * (MaxSegments + 1) \in Nat
    <3> DEFINE c == MaxSegments + 1
    <3>1. c \in Nat
      BY <2>2
    <3> HIDE DEF c
    <3>2. Len(v.co.waiting) * c \in Nat
      BY <2>1, <3>1
    <3> QED
      BY <3>2 DEF c
  <2> QED
    BY <2>1, <2>2, <2>3 DEF Cost
<1> HIDE DEF m
<1> QED
  BY <1>2, <1>7, <1>8

-----------------------------------------------------------------------------
(* Opening sessions *)

(* Whether the session waits rightly depends on it and on closed streams.  *)
LEMMA SettledStays ==
    ASSUME NEW w, NEW d, Settled(w, d), NEW v, v.co.active = w.co.active, v.co.closed = w.co.closed
    PROVE  Settled(v, d)
BY DEF Settled, AtRest

(* The session of r, all of whose obstacles are gone, is opened. *)
LEMMA OpenedGood ==
    ASSUME NEW w, NEW d, Good(w, d), Settled(w, d), Fits(d), NEW r \in Responses,
           \E B \in build_paths_map(r) : \A e \in B : d.edges[e] = "taken",
           NEW v, v = active_or_queue_session(w, r, d.edges, d.pool)
    PROVE  Good(v, d) /\ Settled(v, d)
<1> DEFINE session == [node |-> r, index |-> 0]
           P == w.co.pending \ {r}
           q == w.co.waiting
           n == Len(q)
<1>1. /\ w \in Work /\ Sessions(w) /\ Ordered(w) /\ PathsLeft(w, d)
      /\ w.co \in CoordinatorState /\ q \in Seq(Session) /\ n \in Nat
      /\ P \in SUBSET Responses /\ w.co.active \in Session \union {NoSession}
      /\ w.co.paths \in [Responses -> SUBSET SUBSET Edges]
  BY WorkFields DEF Good
<1>2. session \in Session /\ session # NoSession /\ session.node = r /\ session.index = 0
  BY ResponseConstants DEF Session, NoSession
<1>3. CASE r \notin w.co.pending
  BY <1>3 DEF active_or_queue_session
<1>4. Len(template[r]) \in Nat
  BY TemplateFacts
<1> HIDE DEF n
<1>5. CASE r \in w.co.pending /\ w.co.active = NoSession
  <2> DEFINE u == Resumed(w, P, session, q, w.co.paths)
  <2>1. v = try_flush(u, d.edges, d.pool)
    <3> DEFINE popped == [w EXCEPT !.co.pending = @ \ {r}]
    <3>1. popped = [co |-> [w.co EXCEPT !.pending = P], out |-> w.out]
      <4>1. popped = [w EXCEPT !.co = [w.co EXCEPT !.pending = P]]
        OBVIOUS
      <4> HIDE DEF popped, P
      <4> QED
        BY <1>1, <4>1 DEF Work
    <3>2. v = try_flush([popped EXCEPT !.co.active = session], d.edges, d.pool)
      BY <1>5 DEF active_or_queue_session
    <3>3. [popped EXCEPT !.co.active = session] =
             [co |-> [[w.co EXCEPT !.pending = P] EXCEPT !.active = session], out |-> w.out]
      <4> HIDE DEF popped, P, session
      <4> QED
        BY <3>1
    <3>4. [[w.co EXCEPT !.pending = P] EXCEPT !.active = session] =
             [w.co EXCEPT !.pending = P, !.active = session, !.waiting = q, !.paths = w.co.paths]
      BY <1>1 DEF CoordinatorState
    <3> HIDE DEF popped
    <3> QED
      BY <3>2, <3>3, <3>4 DEF Resumed
  <2> HIDE DEF u, session
  <2>2. /\ u.out = w.out /\ u.co.pending = P /\ u.co.active = session
        /\ u.co.waiting = q /\ u.co.paths = w.co.paths
    BY <1>1, <1>2, ResumedFields DEF u
  <2>3. q = <<>> /\ n = 0
    BY <1>1, <1>5 DEF Sessions, n
  <2>4. Sessions(u)
    BY <1>1, <1>2, <1>4, <2>2, <2>3 DEF Sessions, n
  <2>5. Ordered(u)
    <3>1. \A i \in 1 .. Len(w.out) : w.out[i].to # r /\ w.out[i].to \notin P
      BY <1>1, <1>5 DEF Ordered
    <3>2. \A i, k \in 1 .. Len(u.out) : i < k /\ u.out[i].to = u.out[k].to =>
            /\ u.out[i].seg <= u.out[k].seg
            /\ \A j \in i .. k : u.out[j].to = u.out[i].to
      BY <1>1, <2>2 DEF Ordered
    <3>3. \A k \in 1 .. Len(u.co.waiting) : FALSE
      BY <2>2, <2>3 DEF n
    <3> QED
      BY <1>2, <2>2, <3>1, <3>2, <3>3 DEF Ordered
  <2>6. PathsLeft(u, d)
    BY <1>1, <2>2 DEF PathsLeft
  <2>7. Good(u, d)
    BY <1>1, <1>2, <2>4, <2>5, <2>6, ResumedSent DEF u
  <2>8. Good(v, d) /\ AtRest(v, d)
    BY <2>1, <2>7, FlushGood
  <2> QED
    BY <2>8 DEF Settled
<1>6. CASE r \in w.co.pending /\ w.co.active # NoSession
  <2> DEFINE s == Append(q, session)
  <2>1. v = Resumed(w, P, w.co.active, s, w.co.paths)
    <3> DEFINE popped == [w EXCEPT !.co.pending = @ \ {r}]
    <3>1. popped = [co |-> [w.co EXCEPT !.pending = P], out |-> w.out]
      <4>1. popped = [w EXCEPT !.co = [w.co EXCEPT !.pending = P]]
        OBVIOUS
      <4> HIDE DEF popped, P
      <4> QED
        BY <1>1, <4>1 DEF Work
    <3>2. v = [popped EXCEPT !.co.waiting = Append(@, session)]
      BY <1>6 DEF active_or_queue_session
    <3>3. [w.co EXCEPT !.pending = P].waiting = q
      BY <1>1 DEF CoordinatorState
    <3>4. v = [co |-> [[w.co EXCEPT !.pending = P] EXCEPT !.waiting = s], out |-> w.out]
      BY <3>1, <3>2, <3>3
    <3>5. [[w.co EXCEPT !.pending = P] EXCEPT !.waiting = s] =
             [w.co EXCEPT !.pending = P, !.active = w.co.active, !.waiting = s, !.paths = w.co.paths]
      BY <1>1 DEF CoordinatorState
    <3> HIDE DEF popped
    <3> QED
      BY <3>4, <3>5 DEF Resumed
  <2>2. /\ s \in Seq(Session) /\ Len(s) = n + 1 /\ s[n + 1] = session
        /\ \A i \in 1 .. n : s[i] = q[i]
    BY <1>1, <1>2, AppendProperties DEF n
  <2> HIDE DEF session, s
  <2>3. /\ v.out = w.out /\ v.co.pending = P /\ v.co.active = w.co.active
        /\ v.co.waiting = s /\ v.co.paths = w.co.paths /\ v.co.closed = w.co.closed
    BY <1>1, <2>1, <2>2, ResumedFields
  <2>4. \A i \in 1 .. n + 1 : i \in 1 .. n \/ i = n + 1
    BY <1>1
  <2>5. /\ \A i \in 1 .. n : q[i].node \notin w.co.pending /\ q[i].index = 0
        /\ \A i, k \in 1 .. n : i # k => q[i].node # q[k].node
        /\ w.co.active.node \notin w.co.pending
        /\ w.co.active.index <= Len(template[w.co.active.node])
        /\ \A i \in 1 .. n : q[i].node # w.co.active.node
    BY <1>1, <1>6 DEF Sessions, n
  <2>6. \A i \in 1 .. n : s[i] = q[i] /\ q[i].node # r
    BY <1>6, <2>2, <2>5
  <2>7. s[n + 1].node = r /\ s[n + 1].index = 0
    BY <1>2, <2>2
  <2>8. Sessions(v)
    <3>1. \A i \in 1 .. n + 1 : s[i].node \notin P /\ s[i].index = 0
      BY <2>4, <2>5, <2>6, <2>7
    <3>2. \A i, k \in 1 .. n + 1 : i # k => s[i].node # s[k].node
      <4> SUFFICES ASSUME NEW i \in 1 .. n + 1, NEW k \in 1 .. n + 1, i # k
                   PROVE  s[i].node # s[k].node
        OBVIOUS
      <4>1. CASE i \in 1 .. n /\ k \in 1 .. n
        BY <2>5, <2>6, <4>1
      <4>2. CASE i = n + 1
        BY <2>4, <2>6, <2>7, <4>2
      <4>3. CASE k = n + 1
        BY <2>4, <2>6, <2>7, <4>3
      <4> QED
        BY <2>4, <4>1, <4>2, <4>3
    <3>3. \A i \in 1 .. n + 1 : s[i].node # w.co.active.node
      BY <1>6, <2>4, <2>5, <2>6, <2>7
    <3> QED
      BY <1>6, <2>2, <2>3, <2>5, <3>1, <3>2, <3>3 DEF Sessions
  <2>9. Ordered(v)
    <3>1. /\ \A i \in 1 .. Len(w.out) : w.out[i].to \notin w.co.pending
          /\ \A i \in 1 .. Len(w.out) : \A k \in 1 .. n : q[k].node # w.out[i].to
      BY <1>1 DEF Ordered, n
    <3>2. \A i \in 1 .. Len(v.out) : /\ v.out[i].to \notin v.co.pending
                                     /\ \A k \in 1 .. Len(v.co.waiting) : v.co.waiting[k].node # v.out[i].to
      BY <1>6, <2>2, <2>3, <2>4, <2>6, <2>7, <3>1
    <3>3. \A i, k \in 1 .. Len(v.out) : i < k /\ v.out[i].to = v.out[k].to =>
            /\ v.out[i].seg <= v.out[k].seg
            /\ \A j \in i .. k : v.out[j].to = v.out[i].to
      BY <1>1, <2>3 DEF Ordered
    <3>4. v.co.active # NoSession =>
            \A i \in 1 .. Len(v.out) : v.out[i].to = v.co.active.node =>
                \A j \in i .. Len(v.out) :
                    v.out[j].to = v.co.active.node /\ v.out[j].seg <= v.co.active.index + 1
      BY <1>1, <2>3 DEF Ordered
    <3> QED
      BY <3>2, <3>3, <3>4 DEF Ordered
  <2>10. PathsLeft(v, d)
    BY <1>1, <2>3 DEF PathsLeft
  <2>11. Good(v, d)
    BY <1>1, <2>1, <2>2, <2>8, <2>9, <2>10, ResumedSent
  <2> QED
    BY <2>3, <2>11, SettledStays
<1> QED
  BY <1>3, <1>5, <1>6

(* One taken edge, reported for one answer. *)
LEMMA TakenGood ==
    ASSUME NEW w, NEW d, Good(w, d), Settled(w, d), Fits(d), NEW e \in Edges, d.edges[e] = "taken",
           NEW r \in Responses, NEW v, v = take_edge(w, e, r, d.edges, d.pool)
    PROVE  Good(v, d) /\ Settled(v, d)
<1> DEFINE left == {path \ {e} : path \in w.co.paths[r]}
           ps == [w.co.paths EXCEPT ![r] = left]
           u == [w EXCEPT !.co.paths[r] = left]
<1>1. /\ w \in Work /\ Sessions(w) /\ Ordered(w) /\ PathsLeft(w, d)
      /\ w.co \in CoordinatorState /\ w.co.waiting \in Seq(Session)
      /\ w.co.pending \in SUBSET Responses /\ w.co.active \in Session \union {NoSession}
      /\ w.co.paths \in [Responses -> SUBSET SUBSET Edges]
  BY WorkFields DEF Good
<1>2. ps \in [Responses -> SUBSET SUBSET Edges]
  BY <1>1
<1>3. \A P \in left : \E Q \in w.co.paths[r] : P = Q \ {e}
  OBVIOUS
<1>4. \A s \in Responses : ps[s] = IF s = r THEN left ELSE w.co.paths[s]
  BY <1>1
<1>5. v = IF {} \in left THEN active_or_queue_session(u, r, d.edges, d.pool) ELSE u
  BY DEF take_edge
<1> HIDE DEF left
<1>6. u = Resumed(w, w.co.pending, w.co.active, w.co.waiting, ps)
  <2>1. u = [co |-> [w.co EXCEPT !.paths = ps], out |-> w.out]
    BY <1>1 DEF Work
  <2> HIDE DEF ps
  <2>2. [w.co EXCEPT !.paths = ps] =
           [w.co EXCEPT !.pending = w.co.pending, !.active = w.co.active,
                        !.waiting = w.co.waiting, !.paths = ps]
    BY <1>1 DEF CoordinatorState
  <2> QED
    BY <2>1, <2>2 DEF Resumed
<1> HIDE DEF ps, u
<1>7. /\ u.out = w.out /\ u.co.pending = w.co.pending /\ u.co.active = w.co.active
      /\ u.co.waiting = w.co.waiting /\ u.co.paths = ps /\ u.co.closed = w.co.closed
  BY <1>1, <1>2, <1>6, ResumedFields
<1>8. Sessions(u)
  BY <1>1, <1>7 DEF Sessions
<1>9. Ordered(u)
  BY <1>1, <1>7 DEF Ordered
<1>10. PathsLeft(u, d)
  <2>1. ASSUME NEW s \in Responses, NEW P \in ps[s]
        PROVE  \E B \in build_paths_map(s) : \A f \in B : f \in P \/ d.edges[f] = "taken"
    <3>1. CASE s # r
      BY <1>1, <1>4, <3>1 DEF PathsLeft
    <3>2. CASE s = r
      <4>1. PICK Q \in w.co.paths[r] : P = Q \ {e}
        BY <1>3, <1>4, <3>2
      <4>2. PICK B \in build_paths_map(r) : \A f \in B : f \in Q \/ d.edges[f] = "taken"
        BY <1>1 DEF PathsLeft
      <4> QED
        BY <3>2, <4>1, <4>2
    <3> QED
      BY <3>1, <3>2
  <2> QED
    BY <1>1, <1>7, <2>1 DEF PathsLeft
<1>11. Good(u, d) /\ Settled(u, d)
  BY <1>1, <1>2, <1>6, <1>7, <1>8, <1>9, <1>10, ResumedSent, SettledStays
<1>12. CASE {} \in left
  <2>1. PICK Q \in w.co.paths[r] : {} = Q \ {e}
    BY <1>3, <1>12
  <2>2. PICK B \in build_paths_map(r) : \A f \in B : f \in Q \/ d.edges[f] = "taken"
    BY <1>1 DEF PathsLeft
  <2>3. \A f \in B : d.edges[f] = "taken"
    BY <2>1, <2>2
  <2> QED
    BY <1>5, <1>11, <1>12, <2>2, <2>3, OpenedGood
<1>13. CASE {} \notin left
  BY <1>5, <1>11, <1>13
<1> QED
  BY <1>12, <1>13

(* The good working states that are settled. *)
GoodWork(d) == {u \in Work : Good(u, d) /\ Settled(u, d)}

LEMMA GoodWorkIs ==
    ASSUME NEW w, NEW d
    PROVE  w \in GoodWork(d) <=> Good(w, d) /\ Settled(w, d)
BY DEF GoodWork, Good

(* One taken edge, reported for every answer. *)
LEMMA EdgeTakenGood ==
    ASSUME order \in SetToSeqs(Responses), NEW w, NEW d, Good(w, d), Settled(w, d), Fits(d),
           NEW e \in Edges, d.edges[e] = "taken"
    PROVE  on_edge_taken(w, e, d.edges, d.pool) \in GoodWork(d)
<1> DEFINE D == GoodWork(d)
           n == Len(order)
           g == [ku \in (Nat \ {0}) \X D |->
                    IF ku[1] \in 1 .. n THEN take_edge(ku[2], e, order[ku[1]], d.edges, d.pool)
                    ELSE ku[2]]
           Seen(F) == F = [k \in 0 .. n |-> IF k = 0 THEN w
                                            ELSE take_edge(F[k - 1], e, order[k], d.edges, d.pool)]
<1>1. n \in Nat /\ \A k \in 1 .. n : order[k] \in Responses
  <2>1. IsFiniteSet(Responses)
    BY ResponseGraph, ResponseConstants, FS_Subset
  <2> QED
    BY <2>1, Listed
<1>2. w \in D
  BY GoodWorkIs
<1>3. ASSUME NEW k \in 1 .. n, NEW u \in D
      PROVE  take_edge(u, e, order[k], d.edges, d.pool) \in D
  <2>1. Good(u, d) /\ Settled(u, d) /\ order[k] \in Responses
    BY <1>1, GoodWorkIs
  <2> QED
    BY <2>1, TakenGood, GoodWorkIs
<1> HIDE DEF D, n
<1>4. ASSUME NEW k \in 1 .. n, NEW u \in D
      PROVE  g[<<k, u>>] = take_edge(u, e, order[k], d.edges, d.pool)
  BY <1>1
<1>5. \A k \in Nat \ {0} : \A u \in D : g[<<k, u>>] \in D
  BY <1>3
<1> HIDE DEF g
<1>6. PICK F \in [0 .. n -> D] : Iterates(F, w, g, n)
  BY <1>1, <1>2, <1>5, Iterate
<1>7. ASSUME NEW k \in 0 .. n
      PROVE  (IF k = 0 THEN w ELSE g[<<k, F[k - 1]>>]) =
             (IF k = 0 THEN w ELSE take_edge(F[k - 1], e, order[k], d.edges, d.pool))
  <2>1. CASE k # 0
    <3>1. k \in 1 .. n /\ k - 1 \in 0 .. n
      BY <1>1, <2>1
    <3>2. F[k - 1] \in D
      BY <3>1
    <3> QED
      BY <1>4, <2>1, <3>1, <3>2
  <2> QED
    BY <2>1
<1>8. Seen(F)
  BY <1>6, <1>7 DEF Iterates
<1> DEFINE G == CHOOSE f : Seen(f)
<1>9. on_edge_taken(w, e, d.edges, d.pool) = G[n]
  BY DEF on_edge_taken, n
<1>10. Seen(G)
  BY <1>8
<1> HIDE DEF G
<1>11. G[0] = w /\ \A k \in 1 .. n : G[k] = take_edge(G[k - 1], e, order[k], d.edges, d.pool)
  <2>1. \A k \in 0 .. n : G[k] = IF k = 0 THEN w
                                  ELSE take_edge(G[k - 1], e, order[k], d.edges, d.pool)
    BY <1>10
  <2>2. 0 \in 0 .. n /\ \A k \in 1 .. n : k \in 0 .. n /\ k # 0
    BY <1>1
  <2> QED
    BY <2>1, <2>2
<1>12. G[n] \in D
  BY <1>1, <1>2, <1>3, <1>11, StaysIn
<1> QED
  BY <1>9, <1>12 DEF D

(* All the taken edges of a node, reported in some order. *)
LEMMA ReportGood ==
    ASSUME order \in SetToSeqs(Responses), NEW w, NEW d, Good(w, d), Settled(w, d), Fits(d),
           NEW C, C \subseteq Edges, \A e \in C : d.edges[e] = "taken", NEW edges \in SetToSeqs(C)
    PROVE  report_taken(w, edges, d.edges, d.pool) \in GoodWork(d)
<1> DEFINE D == GoodWork(d)
           n == Len(edges)
           g == [ku \in (Nat \ {0}) \X D |->
                    IF ku[1] \in 1 .. n THEN on_edge_taken(ku[2], edges[ku[1]], d.edges, d.pool)
                    ELSE ku[2]]
           Told(F) == F = [k \in 0 .. n |-> IF k = 0 THEN w
                                            ELSE on_edge_taken(F[k - 1], edges[k], d.edges, d.pool)]
<1>1. n \in Nat /\ \A k \in 1 .. n : edges[k] \in C
  <2>1. IsFiniteSet(C)
    BY ResponseGraph, FS_Subset
  <2> QED
    BY <2>1, Listed
<1>2. w \in D
  BY GoodWorkIs
<1>3. ASSUME NEW k \in 1 .. n, NEW u \in D
      PROVE  on_edge_taken(u, edges[k], d.edges, d.pool) \in D
  <2>1. Good(u, d) /\ Settled(u, d) /\ edges[k] \in Edges /\ d.edges[edges[k]] = "taken"
    BY <1>1, GoodWorkIs
  <2> QED
    BY <2>1, EdgeTakenGood
<1> HIDE DEF D, n
<1>4. ASSUME NEW k \in 1 .. n, NEW u \in D
      PROVE  g[<<k, u>>] = on_edge_taken(u, edges[k], d.edges, d.pool)
  BY <1>1
<1>5. \A k \in Nat \ {0} : \A u \in D : g[<<k, u>>] \in D
  BY <1>3
<1> HIDE DEF g
<1>6. PICK F \in [0 .. n -> D] : Iterates(F, w, g, n)
  BY <1>1, <1>2, <1>5, Iterate
<1>7. ASSUME NEW k \in 0 .. n
      PROVE  (IF k = 0 THEN w ELSE g[<<k, F[k - 1]>>]) =
             (IF k = 0 THEN w ELSE on_edge_taken(F[k - 1], edges[k], d.edges, d.pool))
  <2>1. CASE k # 0
    <3>1. k \in 1 .. n /\ k - 1 \in 0 .. n
      BY <1>1, <2>1
    <3>2. F[k - 1] \in D
      BY <3>1
    <3> QED
      BY <1>4, <2>1, <3>1, <3>2
  <2> QED
    BY <2>1
<1>8. Told(F)
  BY <1>6, <1>7 DEF Iterates
<1> DEFINE G == CHOOSE f : Told(f)
<1>9. report_taken(w, edges, d.edges, d.pool) = G[n]
  BY DEF report_taken, n
<1>10. Told(G)
  BY <1>8
<1> HIDE DEF G
<1>11. G[0] = w /\ \A k \in 1 .. n : G[k] = on_edge_taken(G[k - 1], edges[k], d.edges, d.pool)
  <2>1. \A k \in 0 .. n : G[k] = IF k = 0 THEN w
                                  ELSE on_edge_taken(G[k - 1], edges[k], d.edges, d.pool)
    BY <1>10
  <2>2. 0 \in 0 .. n /\ \A k \in 1 .. n : k \in 0 .. n /\ k # 0
    BY <1>1
  <2> QED
    BY <2>1, <2>2
<1>12. G[n] \in D
  BY <1>1, <1>2, <1>3, <1>11, StaysIn
<1> QED
  BY <1>9, <1>12 DEF D

-----------------------------------------------------------------------------
(* Part 2 *)

Ended(n) == phase[n] \in {"done", "exception"}

(* The variables whose value may be sent. *)
Values(f) == {x \in Selectors : source[x] = NoNode \/ x \notin Streams \/ f[source[x]] = "exception"}

(* The surroundings of the current state. *)
Here == [edges |-> es, pool |-> pool, buffered |-> co.buffered, closed |-> co.closed,
         values |-> Values(phase), ended |-> {r \in Responses : Ended(r) /\ ShowsUpstream(r)}]

Types ==
    /\ es \in [Edges -> State] /\ phase \in [Nodes -> {"idle", "running", "done", "exception"}]
    /\ pool \in [Selectors -> Nat] /\ order \in SetToSeqs(Responses) /\ aborted \in BOOLEAN

(* The states of edges and nodes. *)
GraphInv ==
    /\ Consistent(es, Running)
    /\ \A n \in Nodes : Ended(n) => /\ is_node_ready(es, n)
                                    /\ \A e \in get_outgoing_edges(n) : es[e] # "unknown"
    /\ \A e \in Edges : es[e] # "unknown" => Ended(tail[e]) \/ Skipped(es, tail[e])
    /\ \A e \in Edges : es[e] = "skipped" /\ Ended(tail[e]) => tail[e] \in Branch
    /\ \A n \in Nodes : Skipped(es, n) => /\ phase[n] = "idle"
                                          /\ \A e \in get_outgoing_edges(n) : es[e] = "skipped"
    /\ \A n \in Nodes : is_node_ready(es, n) /\ n \notin InactiveRoots \union Strays => phase[n] # "idle"
    /\ \A n \in Strays : phase[n] = "idle"
    /\ \A n \in Nodes : phase[n] = "exception" => n \in CanFail

(* Variables: only a stream of a node is buffered; a node has stored its   *)
(* outputs only when it has ended, and then, if it succeeded, its streams  *)
(* are closed.                                                             *)
PoolInv ==
    /\ \A x \in Selectors : co.buffered[x] > 0 => x \in Streams /\ source[x] \in Nodes
    /\ \A x \in Selectors : source[x] \in Nodes /\ pool[x] > 0 => Ended(source[x])
    /\ \A x \in Selectors :
          x \in Streams /\ source[x] \in Nodes /\ phase[source[x]] = "done" => x \in co.closed

ResponseInv ==
    /\ Types /\ GraphInv /\ PoolInv
    /\ Good(Working, Here) /\ Settled(Working, Here)

(* Nothing leads to a root that the run was not started from. *)
LEMMA RootFacts ==
    /\ \A n \in InactiveRoots : n \in Nodes /\ get_incoming_edges(n) = {} /\ n \notin Strays
    /\ \A n \in Strays : n \in Nodes /\ get_incoming_edges(n) = {}
    /\ Root \notin InactiveRoots /\ Root \notin Strays
    /\ \A n \in Nodes : get_incoming_edges(n) = {} /\ n \notin InactiveRoots \union Strays => n = Root
BY ResponseConstants DEF InactiveRoots, Roots, Strays

(* What does not depend on the coordinator. *)
LEMMA NodeFacts ==
    ASSUME Types, GraphInv, NEW n \in Nodes
    PROVE  /\ phase[n] = "running" => is_node_ready(es, n) /\ n \in Running
           /\ Ended(n) \/ phase[n] = "running" => is_node_ready(es, n) /\ ~Skipped(es, n)
           /\ n \in InactiveRoots => phase[n] = "idle"
<1>1. phase[n] = "running" => is_node_ready(es, n) /\ n \in Running
  BY DEF GraphInv, Consistent, Running
<1>2. Ended(n) => is_node_ready(es, n) /\ phase[n] # "idle"
  BY DEF GraphInv, Ended
<1>3. n \in InactiveRoots => phase[n] = "idle"
  BY DEF GraphInv, Skipped
<1> QED
  BY <1>1, <1>2, <1>3 DEF GraphInv

(* When a node was started, all nodes before it have ended or are skipped. *)
LEMMA DecidedUpstream ==
    ASSUME Types, GraphInv, NEW r \in Responses, phase[r] # "idle", NEW n \in Upstream[r]
    PROVE  Ended(n) \/ Skipped(es, n)
<1> DEFINE S == {r} \union {m \in Nodes : Ended(m) \/ Skipped(es, m)}
<1>1. ASSUME NEW e \in Edges, head[e] \in S PROVE tail[e] \in S
  <2>1. e \in get_incoming_edges(head[e]) /\ tail[e] \in Nodes
    BY ResponseGraph DEF get_incoming_edges
  <2>2. es[e] # "unknown"
    <3>1. CASE head[e] = r \/ Ended(head[e])
      <4>1. r \in Nodes /\ phase[r] \in {"running", "done", "exception"}
        BY ResponseConstants DEF Types
      <4>2. is_node_ready(es, head[e])
        BY <1>1, <3>1, <4>1, NodeFacts DEF Ended
      <4> QED
        BY <2>1, <4>2 DEF is_node_ready, HasUnknown
    <3>2. CASE Skipped(es, head[e])
      BY <2>1, <3>2, RootFacts DEF Skipped
    <3> QED
      BY <1>1, <3>1, <3>2
  <2>3. Ended(tail[e]) \/ Skipped(es, tail[e])
    BY <2>2 DEF GraphInv
  <2> QED
    BY <2>1, <2>3
<1>2. S \in SUBSET Nodes /\ r \in S
  BY ResponseConstants
<1>3. n \in S /\ n # r
  BY <1>1, <1>2 DEF Upstream
<1> QED
  BY <1>3

(* The completion of a node: the states of edges and nodes. *)
LEMMA ProceedGraph ==
    ASSUME Types, GraphInv, NEW n \in Nodes, phase[n] = "running",
           NEW end \in {"done", "exception"}, end = "exception" => n \in CanFail,
           NEW chosen, chosen \subseteq get_outgoing_edges(n),
           chosen = get_outgoing_edges(n) \/ n \in Branch,
           es' = EdgesAfter(es, get_outgoing_edges(n) \ chosen, chosen),
           phase' = [m \in Nodes |-> IF m = n THEN end
                                     ELSE IF phase[m] = "idle" /\ ~HasUnknown(es', m) /\ HasTaken(es', m)
                                          THEN "running"
                                     ELSE phase[m]]
    PROVE  /\ GraphInv' /\ es' \in [Edges -> State]
           /\ phase' \in [Nodes -> {"idle", "running", "done", "exception"}]
           /\ \A e \in Edges : es[e] # "unknown" => es'[e] = es[e]
           /\ \A e \in chosen : es'[e] = "taken"
           /\ \A m \in Nodes :
                 /\ is_node_ready(es, m) => is_node_ready(es', m)
                 /\ Ended(m)' <=> m = n \/ Ended(m)
                 /\ phase'[m] = "done" <=> (m = n /\ end = "done") \/ phase[m] = "done"
                 /\ phase'[m] = "exception" <=> (m = n /\ end = "exception") \/ phase[m] = "exception"
<1> DEFINE dropped == get_outgoing_edges(n) \ chosen
           gone == SkippedNodes(mark_edges_skipped(es, dropped))
           new == WokenBySkip(es, dropped) \union ReadyAfter(es, dropped, chosen)
<1>1. Completes(es, Running, n, dropped, chosen)
  <2>1. es \in [Edges -> State] /\ Consistent(es, Running)
    BY DEF Types, GraphInv
  <2> QED
    BY <2>1, ResponseGraph DEF Completes, Running
<1>2. es' = EdgesAfter(es, dropped, chosen)
  OBVIOUS
<1>3. \A e \in Edges : es[e] # "unknown" => es'[e] = es[e]
  BY <1>1, <1>2, DecidedStays
<1>4. \A m : /\ is_node_ready(es, m) => is_node_ready(es', m)
             /\ ~HasUnknown(es, m) => ~HasUnknown(es', m)
  BY <1>1, <1>2, ReadyStays
<1>5. \A m \in gone : m \in Nodes /\ m \notin Running /\ AllSkipped(mark_edges_skipped(es, dropped), gone, m)
  BY <1>1, SkipSparesActive, SkippedRule
<1>6. \A e \in Edges :
         /\ e \in chosen => es[e] = "unknown" /\ es'[e] = "taken"
         /\ e \in dropped => es'[e] = "skipped"
         /\ tail[e] \in gone => es'[e] = "skipped"
         /\ e \notin dropped /\ e \notin chosen /\ tail[e] \notin gone => es'[e] = es[e]
  <2>1. SUFFICES ASSUME NEW e \in Edges
                 PROVE  /\ e \in chosen => es[e] = "unknown" /\ es'[e] = "taken"
                        /\ e \in dropped => es'[e] = "skipped"
                        /\ tail[e] \in gone => es'[e] = "skipped"
                        /\ e \notin dropped /\ e \notin chosen /\ tail[e] \notin gone => es'[e] = es[e]
    OBVIOUS
  <2>2. e \in chosen => tail[e] = n /\ e \notin dropped
    BY DEF get_outgoing_edges
  <2>3. n \notin gone
    BY <1>5 DEF Running
  <2> HIDE DEF dropped
  <2> QED
    BY <1>1, <1>2, <2>2, <2>3, EdgeChanges
<1>7. \A e \in dropped \union chosen : e \in Edges /\ tail[e] = n
  BY DEF get_outgoing_edges
<1>8. \A e \in Edges : tail[e] = n => e \in dropped \union chosen
  BY DEF get_outgoing_edges
<1>9. n \in Running /\ n \notin gone /\ is_node_ready(es, n)
  BY <1>5, NodeFacts DEF Running
<1>10. es' \in [Edges -> State]
  <2>1. es' = [e \in Edges |-> es'[e]]
    BY <1>2 DEF EdgesAfter, mark_edges_taken
  <2>2. \A e \in Edges : es'[e] \in State
    <3>1. \A e \in Edges : es[e] \in State
      BY DEF Types
    <3>2. "skipped" \in State /\ "taken" \in State
      BY DEF State
    <3> HIDE DEF dropped, gone
    <3> QED
      BY <1>6, <3>1, <3>2
  <2> QED
    BY <2>1, <2>2
<1>11. \A m \in Nodes : phase[m] \in {"idle", "running", "done", "exception"}
  BY DEF Types
<1>12. phase' \in [Nodes -> {"idle", "running", "done", "exception"}]
  BY <1>11
<1>13. \A m \in Nodes : phase'[m] = IF m = n THEN end
                                     ELSE IF phase[m] = "idle" /\ ~HasUnknown(es', m) /\ HasTaken(es', m)
                                          THEN "running"
                                     ELSE phase[m]
  OBVIOUS
<1> HIDE DEF dropped, gone, new
<1>14. \A m \in Nodes :
          /\ Ended(m)' <=> m = n \/ Ended(m)
          /\ phase'[m] = "done" <=> (m = n /\ end = "done") \/ phase[m] = "done"
          /\ phase'[m] = "exception" <=> (m = n /\ end = "exception") \/ phase[m] = "exception"
  BY <1>13 DEF Ended
\* a node that is started was woken or found ready
<1>15. Consistent(es', Running')
  <2>1. ASSUME NEW m \in Running', m \notin Running \ {n} PROVE m \in new
    <3>1. m \in Nodes /\ phase'[m] = "running"
      BY <2>1 DEF Running
    <3>2. m # n /\ phase[m] = "idle" /\ ~HasUnknown(es', m) /\ HasTaken(es', m)
      BY <1>13, <2>1, <3>1 DEF Running
    <3>3. m \notin InactiveRoots \union Strays
      BY <3>2, RootFacts DEF HasTaken
    <3>4. ~is_node_ready(es, m)
      BY <3>1, <3>2, <3>3 DEF GraphInv
    <3>5. is_node_ready(EdgesAfter(es, dropped, chosen), m)
      BY <1>2, <3>2 DEF is_node_ready
    <3> QED
      BY <1>1, <3>1, <3>4, <3>5, EveryReadyFound DEF new
  <2>2. Consistent(es', (Running \ {n}) \union new)
    <3>1. (Running \ {n}) \union new =
             (Running \ {n}) \union WokenBySkip(es, dropped) \union ReadyAfter(es, dropped, chosen)
      BY DEF new
    <3> QED
      BY <1>1, <1>2, <3>1, ConsistentAfter
  <2> QED
    BY <2>1, <2>2 DEF Consistent
<1>16. ASSUME NEW m \in Nodes, Ended(m)'
       PROVE  is_node_ready(es', m) /\ \A e \in get_outgoing_edges(m) : es'[e] # "unknown"
  <2>1. CASE m = n
    BY <1>4, <1>6, <1>8, <1>9, <2>1 DEF get_outgoing_edges
  <2>2. CASE Ended(m)
    <3>1. is_node_ready(es, m) /\ \A e \in get_outgoing_edges(m) : es[e] # "unknown"
      BY <2>2 DEF GraphInv
    <3> QED
      BY <1>3, <1>4, <3>1 DEF get_outgoing_edges
  <2> QED
    BY <1>14, <1>16, <2>1, <2>2
\* a node of the propagation is skipped afterwards, and so is one that was
<1>17. \A m \in gone : Skipped(es', m)
  <2>1. SUFFICES ASSUME NEW m \in gone, NEW e \in get_incoming_edges(m) PROVE es'[e] = "skipped"
    BY <1>5 DEF Skipped, AllSkipped
  <2>2. e \in Edges
    BY DEF get_incoming_edges
  <2>3. mark_edges_skipped(es, dropped)[e] = "skipped" \/ tail[e] \in gone
    BY <1>5 DEF AllSkipped
  <2>4. e \in dropped \/ es[e] = "skipped" \/ tail[e] \in gone
    BY <2>2, <2>3 DEF mark_edges_skipped
  <2> QED
    BY <1>3, <1>6, <2>2, <2>4
<1>18. \A m \in Nodes : Skipped(es, m) => Skipped(es', m)
  BY <1>3 DEF Skipped, get_incoming_edges
<1>19. ASSUME NEW e \in Edges, es'[e] # "unknown" PROVE Ended(tail[e])' \/ Skipped(es', tail[e])
  <2>1. tail[e] \in Nodes
    BY ResponseGraph
  <2>2. CASE es[e] # "unknown"
    <3>1. Ended(tail[e]) \/ Skipped(es, tail[e])
      BY <2>2 DEF GraphInv
    <3> QED
      BY <1>14, <1>18, <2>1, <3>1
  <2>3. CASE tail[e] = n
    BY <1>14, <2>3
  <2>4. CASE es[e] = "unknown" /\ tail[e] # n
    BY <1>6, <1>7, <1>17, <1>19, <2>4
  <2> QED
    BY <2>2, <2>3, <2>4
<1>20. ASSUME NEW e \in Edges, es'[e] = "skipped", Ended(tail[e])' PROVE tail[e] \in Branch
  <2>1. tail[e] \in Nodes /\ e \in get_outgoing_edges(tail[e])
    BY ResponseGraph DEF get_outgoing_edges
  <2>2. CASE tail[e] = n
    <3>1. e \notin chosen
      BY <1>6, <1>20
    <3> QED
      BY <2>1, <2>2, <3>1
  <2>3. CASE tail[e] # n /\ Ended(tail[e])
    <3>1. es[e] # "unknown"
      BY <2>1, <2>3 DEF GraphInv
    <3> QED
      BY <1>3, <1>20, <2>3, <3>1 DEF GraphInv
  <2> QED
    BY <1>14, <1>20, <2>1, <2>2, <2>3
<1>21. ASSUME NEW m \in Nodes, Skipped(es', m)
       PROVE  phase'[m] = "idle" /\ \A e \in get_outgoing_edges(m) : es'[e] = "skipped"
  <2>1. CASE m \in InactiveRoots
    <3>1. phase[m] = "idle" /\ \A e \in get_outgoing_edges(m) : es[e] = "skipped"
      BY <2>1 DEF GraphInv, Skipped
    <3>2. ~HasTaken(es', m) /\ m # n
      BY <2>1, <3>1, RootFacts DEF HasTaken
    <3> QED
      BY <1>3, <1>13, <3>1, <3>2 DEF get_outgoing_edges
  <2>2. CASE m \notin InactiveRoots
    <3>1. get_incoming_edges(m) # {} /\ \A e \in get_incoming_edges(m) : es'[e] = "skipped"
      BY <1>21, <2>2 DEF Skipped
    <3>2. AllSkipped(EdgesAfter(es, dropped, chosen), {}, m)
      BY <1>2, <3>1 DEF AllSkipped
    <3>3. m \in gone
      BY <1>1, <3>2, SkipReaches DEF gone
    <3>4. ~is_node_ready(es', m) /\ ~HasTaken(es', m)
      BY <3>1 DEF is_node_ready, HasTaken
    <3>5. phase[m] = "idle"
      <4>1. ~Ended(m) /\ phase[m] # "running"
        BY <1>4, <3>4, NodeFacts
      <4> QED
        BY <1>11, <4>1 DEF Ended
    <3> QED
      BY <1>6, <1>13, <1>9, <3>3, <3>4, <3>5 DEF get_outgoing_edges
  <2> QED
    BY <2>1, <2>2
<1>22. ASSUME NEW m \in Nodes, is_node_ready(es', m), m \notin InactiveRoots \union Strays
       PROVE  phase'[m] # "idle"
  <2>1. CASE get_incoming_edges(m) = {}
    <3>1. phase[m] # "idle"
      BY <1>22, <2>1 DEF GraphInv, is_node_ready
    <3> QED
      BY <1>13, <3>1
  <2>2. CASE ~HasUnknown(es', m) /\ HasTaken(es', m)
    BY <1>13, <2>2
  <2> QED
    BY <1>22, <2>1, <2>2 DEF is_node_ready
<1>23. \A m \in Nodes : phase'[m] = "exception" => m \in CanFail
  BY <1>14 DEF GraphInv
<1>24. ASSUME NEW m \in Strays PROVE phase'[m] = "idle"
  <2>1. phase[m] = "idle" /\ m \in Nodes /\ ~HasTaken(es', m) /\ m # n
    BY RootFacts DEF GraphInv, HasTaken
  <2> QED
    BY <1>13, <2>1
<1>25. GraphInv'
  BY <1>15, <1>16, <1>19, <1>20, <1>21, <1>22, <1>23, <1>24 DEF GraphInv
<1>26. \A e \in chosen : es'[e] = "taken"
  BY <1>6, <1>7
<1> QED
  BY <1>3, <1>4, <1>10, <1>12, <1>14, <1>25, <1>26

-----------------------------------------------------------------------------
(* The paths to an answer *)

WalkStates == [at : Nodes, edges : SUBSET Edges, visited : SUBSET Nodes]

Setout == [at |-> Root, edges |-> {}, visited |-> {Root}]

Goon(q, e) == [at |-> head[e], edges |-> q.edges \union {e}, visited |-> q.visited \union {head[e]}]

(* Every walk of V that has not arrived at r goes on. *)
Prolonged(V, r) ==
    {[at |-> head[s[2]], edges |-> s[1].edges \union {s[2]}, visited |-> s[1].visited \union {head[s[2]]}] :
        s \in {t \in V \X Edges : /\ t[1].at # r /\ tail[t[2]] = t[1].at
                                  /\ head[t[2]] \notin t[1].visited}}

LEMMA ProlongedIs ==
    ASSUME NEW V, NEW r, NEW q \in Prolonged(V, r)
    PROVE  \E p \in V, e \in Edges : p.at # r /\ tail[e] = p.at /\ q = Goon(p, e)
<1>1. PICK s \in V \X Edges : /\ s[1].at # r /\ tail[s[2]] = s[1].at
                              /\ q = Goon(s[1], s[2])
  BY DEF Prolonged, Goon
<1> QED
  BY <1>1

Walking(F, r, m) ==
    F = [k \in 0 .. m |-> IF k = 0 THEN {Setout} ELSE Prolonged(F[k - 1], r)]

(* What holds of the start and is kept edge by edge holds of every path. *)
LEMMA PathsFrom ==
    ASSUME NEW r, NEW I \in SUBSET WalkStates, Setout \in I,
           \A q \in I, e \in Edges : q.at # r /\ tail[e] = q.at => Goon(q, e) \in I,
           NEW p \in find_paths(r)
    PROVE  \E q \in I : q.at = r /\ q.edges = p
<1> DEFINE m == Cardinality(Nodes)
           D == SUBSET I
           g == [kv \in (Nat \ {0}) \X D |-> Prolonged(kv[2], r)]
<1>1. m \in Nat
  BY ResponseGraph, FS_CardinalityType
<1>2. {Setout} \in D
  OBVIOUS
<1>3. ASSUME NEW V \in D PROVE Prolonged(V, r) \in D
  <2>1. SUFFICES ASSUME NEW q \in Prolonged(V, r) PROVE q \in I
    OBVIOUS
  <2>2. PICK u \in V, e \in Edges : u.at # r /\ tail[e] = u.at /\ q = Goon(u, e)
    BY ProlongedIs
  <2> QED
    BY <2>2
<1> HIDE DEF D, m
<1>4. ASSUME NEW k \in Nat \ {0}, NEW V \in D PROVE g[<<k, V>>] = Prolonged(V, r)
  OBVIOUS
<1>5. \A k \in Nat \ {0} : \A V \in D : g[<<k, V>>] \in D
  BY <1>3, <1>4
<1> HIDE DEF g
<1>6. PICK F \in [0 .. m -> D] : Iterates(F, {Setout}, g, m)
  BY <1>1, <1>2, <1>5, Iterate
<1>7. ASSUME NEW k \in 0 .. m
      PROVE  (IF k = 0 THEN {Setout} ELSE g[<<k, F[k - 1]>>]) =
             (IF k = 0 THEN {Setout} ELSE Prolonged(F[k - 1], r))
  <2>1. CASE k # 0
    <3>1. k \in Nat \ {0} /\ k - 1 \in 0 .. m
      BY <1>1, <2>1
    <3>2. F[k - 1] \in D
      BY <3>1
    <3> QED
      BY <1>4, <2>1, <3>1, <3>2
  <2> QED
    BY <2>1
<1>8. Walking(F, r, m)
  BY <1>6, <1>7 DEF Iterates, Walking
<1> DEFINE G == CHOOSE f : Walking(f, r, m)
<1>9. find_paths(r) = UNION {{q.edges : q \in {v \in G[k] : v.at = r}} : k \in 0 .. m}
  BY DEF find_paths, Walking, Prolonged, Setout, m
<1>10. Walking(G, r, m)
  BY <1>8
<1> HIDE DEF G
<1>11. G[0] = {Setout} /\ \A k \in 1 .. m : G[k] = Prolonged(G[k - 1], r)
  <2>1. \A k \in 0 .. m : G[k] = IF k = 0 THEN {Setout} ELSE Prolonged(G[k - 1], r)
    BY <1>10 DEF Walking
  <2>2. 0 \in 0 .. m /\ \A k \in 1 .. m : k \in 0 .. m /\ k # 0
    BY <1>1
  <2> QED
    BY <2>1, <2>2
<1>12. PICK k \in 0 .. m : \E q \in G[k] : q.at = r /\ q.edges = p
  BY <1>9
<1>13. k \in Nat /\ \A j \in 1 .. k : j \in 1 .. m
  BY <1>1
<1>14. G[k] \in D
  <2>1. G[0] \in D /\ \A j \in 1 .. k : G[j - 1] \in D => G[j] \in D
    BY <1>2, <1>3, <1>11, <1>13
  <2> QED
    BY <1>13, <2>1, StaysIn
<1> QED
  BY <1>12, <1>14 DEF D

LEMMA PathEdges ==
    ASSUME NEW r, NEW B \in build_paths_map(r)
    PROVE  B \subseteq Edges
<1>1. PICK p \in find_paths(r) : B = {e \in p : Blocks(tail[e], r)}
  BY DEF build_paths_map
<1>2. Setout \in WalkStates
  BY ResponseGraph DEF Setout, WalkStates
<1>3. \A q \in WalkStates, e \in Edges : Goon(q, e) \in WalkStates
  BY ResponseGraph DEF Goon, WalkStates
<1>4. PICK q \in WalkStates : q.edges = p
  BY <1>2, <1>3, PathsFrom
<1> QED
  BY <1>1, <1>4 DEF WalkStates

-----------------------------------------------------------------------------
(* The surroundings change *)

(* More taken edges and more variables that may be sent: what was in order *)
(* still is.                                                               *)
LEMMA GoodCarried ==
    ASSUME NEW w, NEW d, Good(w, d), NEW c, c.buffered = d.buffered, c.closed = d.closed,
           \A e \in Edges : d.edges[e] = "taken" => c.edges[e] = "taken",
           \A x \in d.values : x \in c.values
    PROVE  Good(w, c)
<1>1. PathsLeft(w, c)
  <2>1. PathsLeft(w, d)
    BY DEF Good
  <2>2. ASSUME NEW r \in Responses, NEW P \in w.co.paths[r]
        PROVE  \E B \in build_paths_map(r) : \A e \in B : e \in P \/ c.edges[e] = "taken"
    <3>1. PICK B \in build_paths_map(r) : \A e \in B : e \in P \/ d.edges[e] = "taken"
      BY <2>1 DEF PathsLeft
    <3> QED
      BY <3>1, PathEdges
  <2>3. ASSUME NEW r \in Responses, r \notin w.co.pending
        PROVE  \E B \in build_paths_map(r) : \A e \in B : c.edges[e] = "taken"
    <3>1. PICK B \in build_paths_map(r) : \A e \in B : d.edges[e] = "taken"
      BY <2>1, <2>3 DEF PathsLeft
    <3> QED
      BY <3>1, PathEdges
  <2> QED
    BY <2>2, <2>3 DEF PathsLeft
<1>2. ValuesSent(w, c)
  BY DEF Good, ValuesSent
<1> QED
  BY <1>1, <1>2 DEF Good

(* The parts of being in order that depend on other fields. *)
LEMMA SameSessions ==
    ASSUME NEW w, NEW v, v.co.pending = w.co.pending, v.co.active = w.co.active,
           v.co.waiting = w.co.waiting, v.out = w.out
    PROVE  /\ Sessions(w) => Sessions(v)
           /\ Ordered(w) => Ordered(v)
<1>1. Sessions(w) => Sessions(v)
  BY DEF Sessions
<1>2. ASSUME Ordered(w) PROVE Ordered(v)
  <2>1. \A i, k \in 1 .. Len(v.out) : i < k /\ v.out[i].to = v.out[k].to =>
          /\ v.out[i].seg <= v.out[k].seg
          /\ \A j \in i .. k : v.out[j].to = v.out[i].to
    BY <1>2 DEF Ordered
  <2>2. \A i \in 1 .. Len(v.out) :
          /\ v.out[i].to \notin v.co.pending
          /\ \A k \in 1 .. Len(v.co.waiting) : v.co.waiting[k].node # v.out[i].to
    BY <1>2 DEF Ordered
  <2>3. v.co.active # NoSession =>
          \A i \in 1 .. Len(v.out) : v.out[i].to = v.co.active.node =>
              \A j \in i .. Len(v.out) :
                  v.out[j].to = v.co.active.node /\ v.out[j].seg <= v.co.active.index + 1
    BY <1>2 DEF Ordered
  <2> QED
    BY <2>1, <2>2, <2>3 DEF Ordered
<1> QED
  BY <1>1, <1>2

(* A chunk is buffered, the stream perhaps closed. *)
Buffered(w, b, C) == [co |-> [w.co EXCEPT !.buffered = b, !.closed = C], out |-> w.out]

LEMMA BufferedGood ==
    ASSUME NEW w, NEW d, Good(w, d), NEW x \in Selectors, NEW C \in SUBSET Selectors,
           NEW b, b = [w.co.buffered EXCEPT ![x] = w.co.buffered[x] + 1],
           NEW v, v = Buffered(w, b, C),
           NEW c, c.buffered = b, c.closed = C, c.edges = d.edges, c.values = d.values
    PROVE  Good(v, c)
<1>1. /\ w \in Work /\ w.co \in CoordinatorState /\ w.out \in Seq(Items)
      /\ w.co.buffered \in [Selectors -> Nat] /\ w.co.position \in [Selectors -> Nat]
      /\ Sessions(w) /\ Ordered(w) /\ ChunksSent(w) /\ ValuesSent(w, d) /\ PathsLeft(w, d)
  BY WorkFields DEF Good
<1>2. b \in [Selectors -> Nat] /\ \A y \in Selectors : w.co.buffered[y] <= b[y]
  BY <1>1
<1> DEFINE u == [w.co EXCEPT !.buffered = b, !.closed = C]
<1>3. u \in CoordinatorState
  BY <1>1, <1>2 DEF CoordinatorState
<1>4. /\ u.pending = w.co.pending /\ u.active = w.co.active /\ u.waiting = w.co.waiting
      /\ u.paths = w.co.paths /\ u.position = w.co.position /\ u.buffered = b /\ u.closed = C
  BY <1>1 DEF CoordinatorState
<1>5. v.co = u /\ v.out = w.out /\ v = [co |-> u, out |-> w.out]
  BY DEF Buffered
<1>6. v \in Work
  BY <1>1, <1>3, <1>5 DEF Work
<1> HIDE DEF u
<1>7. /\ v.co.pending = w.co.pending /\ v.co.active = w.co.active /\ v.co.waiting = w.co.waiting
      /\ v.co.paths = w.co.paths /\ v.co.position = w.co.position /\ v.co.buffered = b
      /\ v.co.closed = C /\ v.out = w.out
  BY <1>4, <1>5
<1>8. Sessions(v)
  BY <1>1, <1>7, SameSessions
<1>9. Ordered(v)
  BY <1>1, <1>7, SameSessions
<1>10. PathsLeft(v, c)
  <2>1. v.co.pending = w.co.pending /\ v.co.paths = w.co.paths /\ c.edges = d.edges
    BY <1>7
  <2>2. PathsLeft(w, d)
    BY <1>1
  <2> QED
    BY <2>1, <2>2 DEF PathsLeft
<1>11. ValuesSent(v, c)
  BY <1>1, <1>7 DEF ValuesSent
<1>12. ChunksSent(v)
  <2>1. \A y \in Selectors : w.co.position[y] <= b[y]
    <3>1. \A y \in Selectors : w.co.position[y] <= w.co.buffered[y]
      BY <1>1 DEF ChunksSent
    <3> QED
      BY <1>1, <1>2, <3>1
  <2>2. \A y \in Selectors : \A n \in 1 .. v.co.position[y] :
          \E i \in 1 .. Len(v.out) : IsChunk(v.out[i], y) /\ v.out[i].no = n
    <3>1. \A y \in Selectors : \A n \in 1 .. w.co.position[y] :
            \E i \in 1 .. Len(w.out) : IsChunk(w.out[i], y) /\ w.out[i].no = n
      BY <1>1 DEF ChunksSent
    <3>2. v.co.position = w.co.position /\ v.out = w.out
      BY <1>7
    <3> QED
      BY <3>1, <3>2
  <2>3. \A y \in Selectors : \A i \in 1 .. Len(v.out) :
          IsChunk(v.out[i], y) => v.out[i].no \in 1 .. v.co.position[y]
    BY <1>1, <1>7 DEF ChunksSent
  <2>4. \A y \in Selectors : \A i, k \in 1 .. Len(v.out) :
          i < k /\ IsChunk(v.out[i], y) /\ IsChunk(v.out[k], y) => v.out[i].no < v.out[k].no
    BY <1>1, <1>7 DEF ChunksSent
  <2>5. \A i \in 1 .. Len(v.out) : v.out[i].kind = "chunk" => v.out[i].sel \in Selectors
    BY <1>1, <1>7 DEF ChunksSent
  <2> QED
    BY <1>7, <2>1, <2>2, <2>3, <2>4, <2>5 DEF ChunksSent
<1> QED
  BY <1>6, <1>7, <1>8, <1>9, <1>10, <1>11, <1>12 DEF Good

LEMMA ShownIs ==
    ASSUME NEW r \in Responses, NEW i \in Nat, i < Len(template[r]), template[r][i + 1] # Text
    PROVE  template[r][i + 1] \in Shown(r)
<1>1. template[r] \in Seq(Selectors \union {Text}) /\ Len(template[r]) \in Nat
  BY TemplateFacts, ResponseConstants
<1>2. i + 1 \in 1 .. Len(template[r])
  BY <1>1
<1>3. DOMAIN template[r] = 1 .. Len(template[r])
  BY <1>1, LenProperties
<1>4. template[r][i + 1] \in ToSet(template[r])
  BY <1>2, <1>3 DEF ToSet
<1> QED
  BY <1>4 DEF Shown

(* A session that waits rightly goes on waiting rightly, when the nodes    *)
(* its answer depends on have ended: they are not skipped afterwards.      *)
LEMMA SettledCarried ==
    ASSUME Types, GraphInv, NEW w, NEW d, Good(w, d), AtRest(w, d), d.edges = es,
           NEW c, \A x \in Selectors : x \notin w.co.closed /\ ~HasValue(d.pool, x)
                      /\ (source[x] = NoNode \/ Ended(source[x])) => ~HasValue(c.pool, x),
           \A m \in Nodes : is_node_ready(es, m) => is_node_ready(c.edges, m),
           w.co.active.node \in Responses => phase[w.co.active.node] # "idle"
                                             /\ ShowsUpstream(w.co.active.node)
    PROVE  AtRest(w, c)
<1> DEFINE a == w.co.active
           x == template[a.node][a.index + 1]
<1>1. SUFFICES ASSUME a # NoSession
               PROVE  /\ a.index < Len(template[a.node]) /\ x # Text
                      /\ ~SourceSkipped(c.edges, x) /\ x \notin w.co.closed /\ ~HasValue(c.pool, x)
  BY DEF AtRest
<1>2. /\ a.index < Len(template[a.node]) /\ x # Text
      /\ ~SourceSkipped(es, x) /\ x \notin w.co.closed /\ ~HasValue(d.pool, x)
  BY <1>1 DEF AtRest
<1>3. a.node \in Responses /\ a.index \in Nat
  BY <1>1, WorkFields DEF Good
<1>4. x \in Selectors
  BY <1>2, <1>3, TemplateFacts
<1>5. x \in Shown(a.node)
  BY <1>2, <1>3, ShownIs
<1>6. source[x] = NoNode \/ (source[x] \in Nodes /\ Ended(source[x]))
  <2>1. source[x] = NoNode \/ source[x] \in Upstream[a.node]
    BY <1>3, <1>5 DEF ShowsUpstream
  <2>2. ASSUME source[x] \in Upstream[a.node] PROVE source[x] \in Nodes /\ Ended(source[x])
    <3>1. source[x] \in Nodes /\ a.node \in Nodes
      BY <1>3, <2>2, ResponseConstants DEF Upstream
    <3>2. Ended(source[x]) \/ Skipped(es, source[x])
      BY <1>3, <2>2, <3>1, DecidedUpstream
    <3>3. source[x] # NoNode
      BY <3>1, ResponseConstants
    <3> QED
      BY <1>2, <3>1, <3>2, <3>3 DEF SourceSkipped
  <2> QED
    BY <2>1, <2>2
<1>7. ~HasValue(c.pool, x)
  BY <1>2, <1>4, <1>6
<1>8. ~SourceSkipped(c.edges, x)
  <2>1. SUFFICES ASSUME source[x] # NoNode PROVE ~Skipped(c.edges, source[x])
    BY DEF SourceSkipped
  <2>2. source[x] \in Nodes /\ Ended(source[x])
    BY <1>6, <2>1
  <2>3. is_node_ready(c.edges, source[x]) /\ source[x] \notin InactiveRoots
    BY <2>2, NodeFacts DEF Ended
  <2> QED
    BY <2>3 DEF Skipped, is_node_ready, HasTaken
<1> QED
  BY <1>2, <1>7, <1>8

-----------------------------------------------------------------------------
(* Steps *)

LEMMA FitsWhen ==
    ASSUME NEW d, d.pool \in [Selectors -> Nat], NEW f, d.values = Values(f),
           \A x \in Selectors : source[x] \in Nodes /\ d.pool[x] > 0 => f[source[x]] \in {"done", "exception"},
           \A x \in Selectors :
              x \in Streams /\ source[x] \in Nodes /\ f[source[x]] = "done" => x \in d.closed
    PROVE  Fits(d)
<1>1. SUFFICES ASSUME NEW x \in Selectors, d.pool[x] > 0, x \notin d.closed PROVE x \in Values(f)
  BY DEF Fits, HasValue
<1>2. source[x] \in Nodes \/ source[x] = NoNode
  BY ResponseConstants
<1> QED
  BY <1>1, <1>2 DEF Values

LEMMA Installed ==
    ASSUME NEW w \in Work, Install(w)
    PROVE  Working' = w /\ co' = w.co
BY DEF Work, Install, Working

LEMMA HereFacts ==
    ASSUME ResponseInv
    PROVE  /\ Good(Working, Here) /\ Settled(Working, Here) /\ Fits(Here)
           /\ Working \in Work /\ co \in CoordinatorState
           /\ Working.co = co /\ Working.out = out
<1>1. Good(Working, Here) /\ Settled(Working, Here)
  BY DEF ResponseInv
<1>2. Working \in Work /\ Working.co = co /\ Working.out = out
  BY <1>1 DEF Good, Working
<1>3. co \in CoordinatorState
  BY <1>2, WorkFields
<1>4. /\ Here.pool = pool /\ Here.values = Values(phase) /\ Here.closed = co.closed
      /\ pool \in [Selectors -> Nat] /\ PoolInv
  BY DEF Here, ResponseInv, Types
<1>5. Fits(Here)
  BY <1>4, FitsWhen DEF PoolInv, Ended
<1> QED
  BY <1>1, <1>2, <1>3, <1>5

(* A chunk arrives, the last one or not. *)
LEMMA ChunkKeeps ==
    ASSUME ResponseInv, NEW x \in Selectors, source[x] \in Nodes, x \in Streams,
           NEW C, C = co.closed \/ C = co.closed \union {x},
           NEW b, b = [co.buffered EXCEPT ![x] = co.buffered[x] + 1],
           Install(try_flush(Buffered(Working, b, C), es, pool)),
           UNCHANGED <<es, phase, pool, order, aborted>>
    PROVE  ResponseInv'
<1> DEFINE d == [edges |-> es, pool |-> pool, buffered |-> b, closed |-> C,
                 values |-> Values(phase), ended |-> Here.ended]
           w == Buffered(Working, b, C)
           v == try_flush(w, es, pool)
<1>1. /\ Good(Working, Here) /\ Working \in Work /\ co \in CoordinatorState
      /\ Working.co = co /\ Types /\ GraphInv /\ PoolInv
      /\ Here.edges = es /\ Here.values = Values(phase)
  BY HereFacts DEF ResponseInv, Here
<1>2. C \in SUBSET Selectors /\ co.buffered \in [Selectors -> Nat] /\ co.closed \subseteq C
  BY <1>1, WorkFields
<1>3. /\ d.edges = es /\ d.pool = pool /\ d.buffered = b /\ d.closed = C
      /\ d.values = Values(phase) /\ d.ended = Here.ended
  OBVIOUS
<1> HIDE DEF d
<1>4. Good(w, d)
  BY <1>1, <1>2, <1>3, BufferedGood
<1>5. Fits(d)
  BY <1>1, <1>2, <1>3, FitsWhen DEF PoolInv, Types, Ended
<1> HIDE DEF w
<1>6. Good(v, d) /\ AtRest(v, d)
  BY <1>3, <1>4, <1>5, FlushGood
<1> HIDE DEF v
<1>7. Working' = v /\ co' = v.co
  BY <1>6, Installed DEF v, w, Good
<1>8. co'.buffered = b /\ co'.closed = C
  BY <1>3, <1>6, <1>7 DEF Good
<1>9. Here' = d
  BY <1>8 DEF Here, d, Ended, Values
<1>10. Good(Working, Here)' /\ Settled(Working, Here)'
  <2>1. Settled(v, d)
    BY <1>6 DEF Settled
  <2> QED
    BY <1>6, <1>7, <1>9, <2>1
<1>11. Types'
  BY <1>1 DEF Types
<1>12. GraphInv'
  BY <1>1 DEF GraphInv, Ended, Running
<1>13. PoolInv'
  <2>1. \A y \in Selectors : b[y] > 0 => y = x \/ co.buffered[y] > 0
    BY <1>2
  <2> QED
    BY <1>1, <1>2, <1>8, <2>1 DEF PoolInv, Ended
<1> QED
  BY <1>10, <1>11, <1>12, <1>13 DEF ResponseInv

(* The surroundings the taken edges of a completed node are reported in. *)
Beyond == [edges |-> es', pool |-> pool', buffered |-> co.buffered, closed |-> co.closed,
           values |-> Values(phase'),
           ended |-> {r \in Responses : Ended(r)' /\ ShowsUpstream(r)}]

Completed(n, end, chosen) ==
    /\ es' = EdgesAfter(es, get_outgoing_edges(n) \ chosen, chosen)
    /\ phase' = [m \in Nodes |-> IF m = n THEN end
                                 ELSE IF phase[m] = "idle" /\ ~HasUnknown(es', m) /\ HasTaken(es', m)
                                      THEN "running"
                                 ELSE phase[m]]

(* A node completes, with an output that only changes its own variables,   *)
(* and if it succeeds its streams are closed.                              *)
Completion(n, end, chosen) ==
    /\ ResponseInv
    /\ n \in Nodes /\ phase[n] = "running" /\ end \in {"done", "exception"}
    /\ end = "exception" => n \in CanFail
    /\ chosen \subseteq get_outgoing_edges(n)
    /\ chosen = get_outgoing_edges(n) \/ n \in Branch
    /\ Completed(n, end, chosen)
    /\ pool' \in [Selectors -> Nat]
    /\ \A x \in Selectors : source[x] # n => pool'[x] = pool[x]
    /\ \A x \in Selectors : source[x] = n /\ end = "done" /\ x \in Streams => x \in co.closed

LEMMA CompletionGraph ==
    ASSUME NEW n, NEW end, NEW chosen, Completion(n, end, chosen)
    PROVE  /\ GraphInv' /\ es' \in [Edges -> State]
           /\ phase' \in [Nodes -> {"idle", "running", "done", "exception"}]
           /\ \A e \in Edges : es[e] # "unknown" => es'[e] = es[e]
           /\ \A e \in chosen : es'[e] = "taken"
           /\ \A m \in Nodes :
                 /\ is_node_ready(es, m) => is_node_ready(es', m)
                 /\ Ended(m)' <=> m = n \/ Ended(m)
                 /\ phase'[m] = "done" <=> (m = n /\ end = "done") \/ phase[m] = "done"
                 /\ phase'[m] = "exception" <=> (m = n /\ end = "exception") \/ phase[m] = "exception"
BY ProceedGraph DEF Completion, Completed, ResponseInv

LEMMA BeyondFacts ==
    ASSUME NEW n, NEW end, NEW chosen, Completion(n, end, chosen)
    PROVE  /\ \A x \in Selectors : source[x] \in Nodes /\ pool'[x] > 0 => Ended(source[x])'
           /\ \A x \in Selectors : x \in Streams /\ source[x] \in Nodes /\ phase'[source[x]] = "done"
                                      => x \in co.closed
           /\ Fits(Beyond)
           /\ \A x \in Values(phase) : x \in Values(phase')
<1>1. /\ \A x \in Selectors : source[x] \in Nodes /\ pool[x] > 0 => Ended(source[x])
      /\ \A x \in Selectors : x \in Streams /\ source[x] \in Nodes /\ phase[source[x]] = "done"
                                 => x \in co.closed
  BY DEF Completion, ResponseInv, PoolInv
<1>2. \A x \in Selectors : source[x] \in Nodes /\ pool'[x] > 0 => Ended(source[x])'
  BY <1>1, CompletionGraph DEF Completion
<1>3. \A x \in Selectors : x \in Streams /\ source[x] \in Nodes /\ phase'[source[x]] = "done"
                                      => x \in co.closed
  BY <1>1, CompletionGraph DEF Completion
<1>4. Fits(Beyond)
  <2>1. Beyond.pool = pool' /\ Beyond.values = Values(phase') /\ Beyond.closed = co.closed
    BY DEF Beyond
  <2> QED
    BY <1>2, <1>3, <2>1, FitsWhen DEF Completion, Ended
<1>5. ASSUME NEW x \in Values(phase) PROVE x \in Values(phase')
  <2>1. x \in Selectors /\ (source[x] \in Nodes \/ source[x] = NoNode)
    BY ResponseConstants DEF Values
  <2> QED
    BY <2>1, CompletionGraph DEF Values
<1> QED
  BY <1>2, <1>3, <1>4, <1>5

LEMMA ProceedKeeps ==
    ASSUME NEW n, NEW end, NEW chosen, Completion(n, end, chosen), NEW w,
           Good(w, Beyond), Settled(w, Beyond),
           \E edges \in SetToSeqs(chosen) : Install(report_taken(w, edges, es', pool')),
           UNCHANGED <<order, aborted>>
    PROVE  ResponseInv'
<1>1. PICK edges \in SetToSeqs(chosen) : Install(report_taken(w, edges, es', pool'))
  OBVIOUS
<1> DEFINE v == report_taken(w, edges, es', pool')
<1>2. Beyond.edges = es' /\ Beyond.pool = pool' /\ Beyond.buffered = co.buffered /\ Beyond.closed = co.closed
  BY DEF Beyond
<1>3. chosen \subseteq Edges /\ \A e \in chosen : es'[e] = "taken"
  BY CompletionGraph DEF Completion, get_outgoing_edges
<1>4. order \in SetToSeqs(Responses)
  BY DEF Completion, ResponseInv, Types
<1>5. v \in GoodWork(Beyond)
  BY <1>2, <1>3, <1>4, BeyondFacts, ReportGood
<1> HIDE DEF v
<1>6. Good(v, Beyond) /\ Settled(v, Beyond)
  BY <1>5, GoodWorkIs
<1>7. Working' = v /\ co' = v.co
  BY <1>1, <1>6, Installed DEF v, Good
<1>8. co'.buffered = co.buffered /\ co'.closed = co.closed
  BY <1>2, <1>6, <1>7 DEF Good
<1>9. Here' = Beyond
  BY <1>8 DEF Here, Beyond
<1>10. Good(Working, Here)' /\ Settled(Working, Here)'
  BY <1>6, <1>7, <1>9
<1>11. Types'
  BY CompletionGraph DEF Completion, ResponseInv, Types
<1>12. PoolInv'
  <2>1. PoolInv
    BY DEF Completion, ResponseInv
  <2> QED
    BY <1>8, <2>1, BeyondFacts DEF PoolInv
<1> QED
  BY <1>10, <1>11, <1>12, CompletionGraph DEF ResponseInv

(* A success: the active session is flushed with the outputs of the node,  *)
(* before its edges are decided.                                           *)
LEMMA SuccessKeeps ==
    ASSUME NEW n, NEW chosen, Completion(n, "done", chosen),
           \E edges \in SetToSeqs(chosen) :
               Install(report_taken(try_flush(Working, es, pool'), edges, es', pool')),
           UNCHANGED <<order, aborted>>
    PROVE  ResponseInv'
<1> DEFINE d == [edges |-> es, pool |-> pool', buffered |-> co.buffered, closed |-> co.closed,
                 values |-> Values(phase'), ended |-> {}]
           v == try_flush(Working, es, pool')
<1>1. /\ d.edges = es /\ d.pool = pool' /\ d.buffered = co.buffered /\ d.closed = co.closed
      /\ d.values = Values(phase')
  OBVIOUS
<1>2. /\ Beyond.edges = es' /\ Beyond.pool = pool' /\ Beyond.buffered = co.buffered
      /\ Beyond.closed = co.closed /\ Beyond.values = Values(phase')
      /\ Beyond.ended = {r \in Responses : Ended(r)' /\ ShowsUpstream(r)}
  BY DEF Beyond
<1>3. /\ Here.edges = es /\ Here.buffered = co.buffered /\ Here.closed = co.closed
      /\ Here.values = Values(phase)
  BY DEF Here
<1> HIDE DEF d
<1>4. Good(Working, Here) /\ Types /\ GraphInv /\ n \in Nodes /\ phase[n] = "running"
  BY HereFacts DEF Completion, ResponseInv
<1>5. Good(Working, d)
  BY <1>1, <1>3, <1>4, BeyondFacts, GoodCarried
<1>6. Fits(d)
  BY <1>1, <1>2, BeyondFacts DEF Fits
<1>7. Good(v, d) /\ AtRest(v, d)
  BY <1>1, <1>5, <1>6, FlushGood
<1> HIDE DEF v
<1>8. Good(v, Beyond)
  <2>1. \A e \in Edges : es[e] = "taken" => es'[e] = "taken"
    BY CompletionGraph
  <2> QED
    BY <1>1, <1>2, <1>7, <2>1, GoodCarried
<1>9. Settled(v, Beyond)
  <2>1. SUFFICES ASSUME v.co.active.node \in Beyond.ended PROVE AtRest(v, Beyond)
    BY DEF Settled
  <2>2. ASSUME NEW m \in Beyond.ended PROVE m \in Responses /\ phase[m] # "idle" /\ ShowsUpstream(m)
    <3>1. m \in Responses /\ m \in Nodes /\ Ended(m)' /\ ShowsUpstream(m)
      BY <1>2, ResponseConstants
    <3>2. m = n \/ Ended(m)
      BY <3>1, CompletionGraph
    <3> QED
      BY <1>4, <3>1, <3>2 DEF Ended
  <2>3. /\ v.co.active.node \in Responses /\ phase[v.co.active.node] # "idle"
        /\ ShowsUpstream(v.co.active.node)
    BY <2>1, <2>2
  <2>4. \A m \in Nodes : is_node_ready(es, m) => is_node_ready(es', m)
    BY CompletionGraph
  <2> QED
    BY <1>1, <1>2, <1>4, <1>7, <2>3, <2>4, SettledCarried
<1>10. \E edges \in SetToSeqs(chosen) : Install(report_taken(v, edges, es', pool'))
  BY DEF v
<1> QED
  BY <1>8, <1>9, <1>10, ProceedKeeps

(* An exception: the taken edges are reported at once. *)
LEMMA ExceptionKeeps ==
    ASSUME NEW n, NEW chosen, Completion(n, "exception", chosen),
           \E edges \in SetToSeqs(chosen) : Install(report_taken(Working, edges, es', pool')),
           UNCHANGED <<order, aborted>>
    PROVE  ResponseInv'
<1>1. /\ Beyond.edges = es' /\ Beyond.pool = pool' /\ Beyond.buffered = co.buffered
      /\ Beyond.closed = co.closed /\ Beyond.values = Values(phase')
      /\ Beyond.ended = {r \in Responses : Ended(r)' /\ ShowsUpstream(r)}
  BY DEF Beyond
<1>2. /\ Here.edges = es /\ Here.buffered = co.buffered /\ Here.closed = co.closed
      /\ Here.values = Values(phase) /\ Here.pool = pool
      /\ Here.ended = {r \in Responses : Ended(r) /\ ShowsUpstream(r)}
  BY DEF Here
<1>3. /\ Good(Working, Here) /\ Settled(Working, Here) /\ Types /\ GraphInv
      /\ n \in Nodes /\ phase[n] = "running" /\ n \in CanFail
  BY HereFacts DEF Completion, ResponseInv
<1>4. Good(Working, Beyond)
  <2>1. \A e \in Edges : es[e] = "taken" => es'[e] = "taken"
    BY CompletionGraph
  <2> QED
    BY <1>1, <1>2, <1>3, <2>1, BeyondFacts, GoodCarried
<1>5. Settled(Working, Beyond)
  <2> DEFINE r == Working.co.active.node
  <2>1. SUFFICES ASSUME r \in Beyond.ended PROVE AtRest(Working, Beyond)
    BY DEF Settled
  <2>2. ASSUME NEW m \in Beyond.ended
        PROVE  m \in Responses /\ Ended(m) /\ ShowsUpstream(m)
    <3>1. m \in Responses /\ Ended(m)' /\ ShowsUpstream(m) /\ m \in Nodes /\ m # n
      BY <1>1, <1>3, ResponseConstants
    <3> QED
      BY <3>1, CompletionGraph
  <2>3. r \in Responses /\ Ended(r) /\ ShowsUpstream(r)
    BY <2>1, <2>2
  <2>4. AtRest(Working, Here)
    BY <1>2, <1>3, <2>3 DEF Settled
  <2>5. phase[r] # "idle"
    BY <2>3 DEF Ended
  <2>6. \A m \in Nodes : is_node_ready(es, m) => is_node_ready(es', m)
    BY CompletionGraph
  <2>7. ASSUME NEW x \in Selectors, ~HasValue(pool, x), source[x] = NoNode \/ Ended(source[x])
        PROVE  ~HasValue(pool', x)
    <3>1. source[x] # n
      BY <1>3, <2>7, ResponseConstants DEF Ended
    <3> QED
      BY <2>7, <3>1 DEF Completion, HasValue
  <2> HIDE DEF r
  <2>8. \A x \in Selectors : x \notin Working.co.closed /\ ~HasValue(Here.pool, x)
            /\ (source[x] = NoNode \/ Ended(source[x])) => ~HasValue(Beyond.pool, x)
    BY <1>1, <1>2, <2>7
  <2> QED
    BY <1>1, <1>2, <1>3, <2>3, <2>4, <2>5, <2>6, <2>8, SettledCarried DEF r
<1> QED
  BY <1>4, <1>5, ProceedKeeps

LEMMA StoredIs ==
    ASSUME Types, NEW xs, NEW n, \A x \in xs : source[x] = n, pool' = Stored(pool, xs)
    PROVE  /\ pool' \in [Selectors -> Nat]
           /\ \A x \in Selectors : source[x] # n => pool'[x] = pool[x]
BY DEF Types, Stored

LEMMA SucceedKeeps ==
    ASSUME ResponseInv, NEW n \in Nodes, NEW h, Succeed(n, h)
    PROVE  ResponseInv'
<1> DEFINE chosen == IF n \in Branch THEN SelectedEdges(n, h) ELSE get_outgoing_edges(n)
           xs == {x \in onSuccess : source[x] = n}
<1>1. /\ phase[n] = "running" /\ \A x \in Streams : source[x] = n => x \in co.closed
      /\ pool' = Stored(pool, xs)
      /\ Proceed(n, "done", chosen, try_flush(Working, es, pool'))
      /\ UNCHANGED <<order, aborted>>
  BY DEF Succeed
<1>2. /\ chosen \subseteq get_outgoing_edges(n)
      /\ chosen = get_outgoing_edges(n) \/ n \in Branch
  BY DEF SelectedEdges
<1>3. pool' \in [Selectors -> Nat] /\ \A x \in Selectors : source[x] # n => pool'[x] = pool[x]
  <2>1. Types /\ \A x \in xs : source[x] = n
    BY DEF ResponseInv
  <2> QED
    BY <1>1, <2>1, StoredIs
<1> HIDE DEF chosen, xs
<1>4. Completion(n, "done", chosen)
  BY <1>1, <1>2, <1>3 DEF Completion, Completed, Proceed
<1>5. \E edges \in SetToSeqs(chosen) :
          Install(report_taken(try_flush(Working, es, pool'), edges, es', pool'))
  BY <1>1 DEF Proceed
<1> QED
  BY <1>1, <1>4, <1>5, SuccessKeeps

LEMMA FailKeeps ==
    ASSUME ResponseInv, NEW n \in Nodes, Exception(n)
    PROVE  ResponseInv'
<1> DEFINE chosen == IF n \in Branch THEN SelectedEdges(n, "fail-branch") ELSE get_outgoing_edges(n)
           xs == {x \in onException : source[x] = n}
<1>1. /\ phase[n] = "running" /\ n \in CanFail /\ pool' = Stored(pool, xs)
      /\ Proceed(n, "exception", chosen, Working)
      /\ UNCHANGED <<order, aborted>>
  BY DEF Exception, Fails
<1>2. /\ chosen \subseteq get_outgoing_edges(n)
      /\ chosen = get_outgoing_edges(n) \/ n \in Branch
  BY DEF SelectedEdges
<1>3. pool' \in [Selectors -> Nat] /\ \A x \in Selectors : source[x] # n => pool'[x] = pool[x]
  <2>1. Types /\ \A x \in xs : source[x] = n
    BY DEF ResponseInv
  <2> QED
    BY <1>1, <2>1, StoredIs
<1> HIDE DEF chosen, xs
<1>4. Completion(n, "exception", chosen)
  BY <1>1, <1>2, <1>3 DEF Completion, Completed, Proceed
<1>5. \E edges \in SetToSeqs(chosen) : Install(report_taken(Working, edges, es', pool'))
  BY <1>1 DEF Proceed
<1> QED
  BY <1>1, <1>4, <1>5, ExceptionKeeps

LEMMA StreamKeeps ==
    ASSUME ResponseInv, NEW n \in Nodes, NEW x \in Selectors, StreamChunk(n, x) \/ FinalChunk(n, x)
    PROVE  ResponseInv'
<1> DEFINE b == [co.buffered EXCEPT ![x] = co.buffered[x] + 1]
<1>1. co \in CoordinatorState /\ Working = [co |-> co, out |-> out]
  BY HereFacts DEF Working
<1>2. source[x] \in Nodes /\ x \in Streams /\ UNCHANGED <<es, phase, pool, order, aborted>>
  BY DEF StreamChunk, FinalChunk
<1>3. CASE StreamChunk(n, x)
  <2>1. [Working EXCEPT !.co.buffered[x] = @ + 1] = [co |-> [co EXCEPT !.buffered = b], out |-> out]
    BY <1>1
  <2>2. [co EXCEPT !.buffered = b] = [co EXCEPT !.buffered = b, !.closed = co.closed]
    BY <1>1 DEF CoordinatorState
  <2>3. [Working EXCEPT !.co.buffered[x] = @ + 1] = Buffered(Working, b, co.closed)
    BY <1>1, <2>1, <2>2 DEF Buffered
  <2>4. Install(try_flush(Buffered(Working, b, co.closed), es, pool))
    BY <1>3, <2>3 DEF StreamChunk
  <2> QED
    BY <1>2, <2>4, ChunkKeeps
<1>4. CASE FinalChunk(n, x)
  <2> DEFINE C == co.closed \union {x}
  <2>1. [Working EXCEPT !.co.buffered[x] = @ + 1, !.co.closed = @ \union {x}] =
           [co |-> [co EXCEPT !.buffered = b, !.closed = C], out |-> out]
    <3> DEFINE c == [co EXCEPT !.buffered = b]
               u == [Working EXCEPT !.co.buffered[x] = @ + 1]
    <3>1. u = [co |-> c, out |-> out]
      BY <1>1
    <3>2. c.closed = co.closed
      BY <1>1 DEF CoordinatorState
    <3>3. [Working EXCEPT !.co.buffered[x] = @ + 1, !.co.closed = @ \union {x}] =
             [u EXCEPT !.co.closed = @ \union {x}]
      OBVIOUS
    <3> HIDE DEF u, c, C
    <3>4. [u EXCEPT !.co.closed = @ \union {x}] = [u EXCEPT !.co.closed = C]
      BY <3>1, <3>2 DEF C
    <3>5. [u EXCEPT !.co.closed = C] = [co |-> [c EXCEPT !.closed = C], out |-> out]
      BY <3>1
    <3>6. [c EXCEPT !.closed = C] = [co EXCEPT !.buffered = b, !.closed = C]
      BY DEF c
    <3> QED
      BY <3>3, <3>4, <3>5, <3>6
  <2>2. [Working EXCEPT !.co.buffered[x] = @ + 1, !.co.closed = @ \union {x}] = Buffered(Working, b, C)
    BY <1>1, <2>1 DEF Buffered
  <2>3. Install(try_flush(Buffered(Working, b, C), es, pool))
    BY <1>4, <2>2 DEF FinalChunk
  <2> QED
    BY <1>2, <2>3, ChunkKeeps
<1> QED
  BY <1>3, <1>4

LEMMA AssignKeeps ==
    ASSUME ResponseInv, NEW n \in Nodes, NEW x \in Selectors, Assign(n, x)
    PROVE  ResponseInv'
<1>1. /\ pool' = [pool EXCEPT ![x] = 2] /\ pool[x] = 1
      /\ UNCHANGED <<es, phase, co, order, out, aborted>>
  BY DEF Assign
<1>2. Types /\ GraphInv /\ PoolInv /\ Good(Working, Here) /\ Settled(Working, Here)
  BY DEF ResponseInv
<1>3. pool' \in [Selectors -> Nat] /\ \A y \in Selectors : pool'[y] > 0 <=> pool[y] > 0
  BY <1>1, <1>2 DEF Types
<1>4. Types'
  BY <1>1, <1>2, <1>3 DEF Types
<1>5. GraphInv'
  BY <1>1, <1>2 DEF GraphInv, Ended, Running
<1>6. PoolInv'
  BY <1>1, <1>2, <1>3 DEF PoolInv, Ended
<1>7. /\ Working' = Working /\ Here'.edges = Here.edges /\ Here'.buffered = Here.buffered
      /\ Here'.closed = Here.closed /\ Here'.values = Here.values /\ Here'.ended = Here.ended
      /\ Here'.pool = pool' /\ Here.pool = pool
  BY <1>1 DEF Working, Here, Ended
<1>8. Good(Working, Here)'
  BY <1>2, <1>7, GoodCarried
<1>9. Settled(Working, Here)'
  <2>1. ASSUME AtRest(Working, Here) PROVE AtRest(Working, Here')
    <3> DEFINE a == Working.co.active
               y == template[a.node][a.index + 1]
    <3>1. SUFFICES ASSUME a # NoSession
                   PROVE  /\ a.index < Len(template[a.node]) /\ y # Text
                          /\ ~SourceSkipped(Here'.edges, y) /\ y \notin Working.co.closed
                          /\ ~HasValue(Here'.pool, y)
      BY DEF AtRest
    <3>2. /\ a.index < Len(template[a.node]) /\ y # Text
          /\ ~SourceSkipped(Here.edges, y) /\ y \notin Working.co.closed /\ ~HasValue(Here.pool, y)
      BY <2>1, <3>1 DEF AtRest
    <3>3. y \in Selectors
      <4>1. a.node \in Responses /\ a.index \in Nat
        BY <1>2, <3>1, WorkFields DEF Good
      <4> QED
        BY <3>2, <4>1, TemplateFacts
    <3> HIDE DEF y, a
    <3> QED
      BY <1>3, <1>7, <3>2, <3>3 DEF HasValue
  <2> QED
    BY <1>2, <1>7, <2>1 DEF Settled
<1> QED
  BY <1>4, <1>5, <1>6, <1>8, <1>9 DEF ResponseInv

(* Steps that leave the coordinator and what it sees alone. *)
LEMMA OtherKeeps ==
    ASSUME ResponseInv, UNCHANGED <<es, phase, pool, out>>, co' = co,
           order' \in SetToSeqs(Responses), aborted' \in BOOLEAN
    PROVE  ResponseInv'
<1>1. Working' = Working /\ Here' = Here
  BY DEF Working, Here, Ended, Values
<1>2. Types'
  BY DEF ResponseInv, Types
<1>3. GraphInv'
  BY DEF ResponseInv, GraphInv, Ended, Running
<1>4. PoolInv'
  BY DEF ResponseInv, PoolInv, Ended
<1> QED
  BY <1>1, <1>2, <1>3, <1>4 DEF ResponseInv

LEMMA LoadsIs ==
    ASSUME NEW c \in CoordinatorState
    PROVE  loads(c) = c
BY DEF loads, CoordinatorState

LEMMA ResponseStep == ResponseInv /\ [Next]_vars => ResponseInv'
<1> SUFFICES ASSUME ResponseInv, [Next]_vars PROVE ResponseInv'
  OBVIOUS
<1>1. order \in SetToSeqs(Responses) /\ aborted \in BOOLEAN
  BY DEF ResponseInv, Types
<1>2. CASE UNCHANGED vars
  BY <1>1, <1>2, OtherKeeps DEF vars
<1>3. ASSUME NEW n \in Nodes, NEW x \in Selectors, StreamChunk(n, x) PROVE ResponseInv'
  BY <1>3, StreamKeeps
<1>4. ASSUME NEW n \in Nodes, NEW x \in Selectors, FinalChunk(n, x) PROVE ResponseInv'
  BY <1>4, StreamKeeps
<1>5. ASSUME NEW n \in Nodes, NEW x \in Selectors, Assign(n, x) PROVE ResponseInv'
  BY <1>5, AssignKeeps
<1>6. ASSUME NEW n \in Nodes, NEW h \in {handle[e] : e \in Edges} \union {"source"}, Succeed(n, h)
      PROVE  ResponseInv'
  BY <1>6, SucceedKeeps
<1>7. ASSUME NEW n \in Nodes, Retry(n) PROVE ResponseInv'
  BY <1>1, <1>7, OtherKeeps DEF Retry
<1>8. ASSUME NEW n \in Nodes, Exception(n) PROVE ResponseInv'
  BY <1>8, FailKeeps
<1>9. ASSUME NEW n \in Nodes, Abort(n) PROVE ResponseInv'
  BY <1>1, <1>9, OtherKeeps DEF Abort
<1>10. CASE Resume
  <2>1. co' = co
    BY <1>10, HereFacts, LoadsIs DEF Resume
  <2> QED
    BY <1>1, <1>10, <2>1, OtherKeeps DEF Resume
<1> QED
  BY <1>2, <1>3, <1>4, <1>5, <1>6, <1>7, <1>8, <1>9, <1>10 DEF Next

-----------------------------------------------------------------------------
(* The start *)

LEMMA StartGraph == Init => Types /\ GraphInv
<1> SUFFICES ASSUME Init PROVE Types /\ GraphInv
  OBVIOUS
<1> DEFINE blank == [e \in Edges |-> "unknown"]
           drop == UNION {get_outgoing_edges(n) : n \in InactiveRoots}
           marked == mark_edges_skipped(blank, drop)
           gone == SkippedNodes(marked)
<1>1. \A e \in Edges : marked[e] = IF tail[e] \in InactiveRoots THEN "skipped" ELSE "unknown"
  BY DEF mark_edges_skipped, get_outgoing_edges
<1>2. /\ es = skip_branch_paths(blank, drop)
      /\ phase = [n \in Nodes |-> IF n = Root THEN "running" ELSE "idle"]
      /\ pool = [x \in Selectors |-> IF source[x] = NoNode THEN 1 ELSE 0]
      /\ order \in SetToSeqs(Responses) /\ aborted = FALSE
  BY DEF Init
<1>3. es = [e \in Edges |-> IF tail[e] \in gone THEN "skipped" ELSE marked[e]]
  BY <1>2 DEF skip_branch_paths
<1>4. \A n \in gone : n \in Nodes /\ AllSkipped(marked, gone, n)
  <2>1. \A n \in gone : n \in Nodes
    BY DEF SkippedNodes
  <2> QED
    BY <2>1, SkippedRule
<1>5. \A n \in Nodes : AllSkipped(marked, gone, n) => n \in gone
  BY SkippedClosed
<1> HIDE DEF marked, gone
<1>6. \A e \in Edges : es[e] = IF tail[e] \in gone THEN "skipped" ELSE marked[e]
  BY <1>3
<1>7. \A e \in Edges : es[e] \in {"skipped", "unknown"}
  BY <1>1, <1>6
<1>8. \A n \in Nodes : /\ ~Ended(n) /\ phase[n] # "exception"
                       /\ phase[n] = "running" <=> n = Root
                       /\ phase[n] = "idle" <=> n # Root
  BY <1>2 DEF Ended
<1>9. /\ Root \in Nodes /\ get_incoming_edges(Root) = {} /\ Root \notin InactiveRoots
      /\ Root \notin gone
  BY <1>4, ResponseGraph, RootFacts DEF AllSkipped
<1>10. Types
  <2>1. es \in [Edges -> State]
    BY <1>3, <1>7 DEF State
  <2> QED
    BY <1>2, <2>1 DEF Types
<1>11. \A n \in gone : Skipped(es, n)
  BY <1>1, <1>4, <1>6 DEF AllSkipped, Skipped, get_incoming_edges
<1>12. ASSUME NEW e \in Edges, es[e] # "unknown" PROVE Skipped(es, tail[e])
  <2>1. tail[e] \in gone \/ tail[e] \in InactiveRoots
    BY <1>1, <1>6, <1>12
  <2> QED
    BY <1>11, <2>1 DEF Skipped
<1>13. ASSUME NEW n \in Nodes, Skipped(es, n)
       PROVE  n # Root /\ \A e \in get_outgoing_edges(n) : es[e] = "skipped"
  <2>1. n \in InactiveRoots \/ n \in gone
    <3>1. SUFFICES ASSUME n \notin InactiveRoots PROVE n \in gone
      OBVIOUS
    <3>2. get_incoming_edges(n) # {} /\ \A e \in get_incoming_edges(n) : e \in Edges /\ es[e] = "skipped"
      BY <1>13, <3>1 DEF Skipped, get_incoming_edges
    <3>3. AllSkipped(marked, gone, n)
      BY <1>6, <3>2 DEF AllSkipped
    <3> QED
      BY <1>5, <3>3
  <2> QED
    BY <1>1, <1>6, <1>9, <2>1 DEF get_outgoing_edges
<1>14. Consistent(es, Running)
  <2>1. Running = {Root}
    BY <1>8, <1>9 DEF Running
  <2>2. is_node_ready(es, Root)
    BY <1>9 DEF is_node_ready
  <2>3. \A e \in get_outgoing_edges(Root) : es[e] = "unknown"
    BY <1>1, <1>6, <1>9 DEF get_outgoing_edges
  <2>4. ASSUME NEW e \in Edges, es[e] # "unknown" PROVE ~HasUnknown(es, tail[e])
    <3>1. Skipped(es, tail[e])
      BY <1>12, <2>4
    <3> QED
      BY <3>1, RootFacts DEF Skipped, HasUnknown
  <2>5. \A e \in Edges : es[e] # "taken"
    BY <1>7
  <2> QED
    BY <2>1, <2>2, <2>3, <2>4, <2>5 DEF Consistent
<1>15. ASSUME NEW n \in Nodes, is_node_ready(es, n), n \notin InactiveRoots \union Strays
       PROVE  phase[n] # "idle"
  <2>1. ~HasTaken(es, n)
    BY <1>7 DEF HasTaken, get_incoming_edges
  <2>2. n = Root
    BY <1>15, <2>1, RootFacts DEF is_node_ready
  <2> QED
    BY <1>8, <2>2
<1>16. \A e \in Edges : tail[e] \in Nodes
  BY ResponseGraph
<1>17. \A n \in Strays : phase[n] = "idle"
  BY <1>8, RootFacts
<1>18. GraphInv
  BY <1>8, <1>12, <1>13, <1>14, <1>15, <1>16, <1>17 DEF GraphInv
<1> QED
  BY <1>10, <1>18

LEMMA ResponseInit == Init => ResponseInv
<1> SUFFICES ASSUME Init PROVE ResponseInv
  OBVIOUS
<1>1. Types /\ GraphInv
  BY StartGraph
<1>2. /\ phase = [n \in Nodes |-> IF n = Root THEN "running" ELSE "idle"]
      /\ pool = [x \in Selectors |-> IF source[x] = NoNode THEN 1 ELSE 0]
      /\ co = [pending |-> Responses, active |-> NoSession, waiting |-> <<>>,
               paths |-> [r \in Responses |-> build_paths_map(r)],
               buffered |-> [x \in Selectors |-> 0], position |-> [x \in Selectors |-> 0],
               closed |-> {}]
      /\ out = <<>>
  BY DEF Init
<1>3. PoolInv
  <2>1. \A x \in Selectors : co.buffered[x] = 0
    BY <1>2
  <2>2. \A x \in Selectors : pool[x] > 0 => source[x] = NoNode
    BY <1>2
  <2>3. \A n \in Nodes : phase[n] # "done"
    BY <1>2
  <2> QED
    BY <2>1, <2>2, <2>3, ResponseConstants DEF PoolInv
<1> DEFINE w == Working
<1>4. /\ w.out = <<>> /\ w.co.pending = Responses /\ w.co.active = NoSession /\ w.co.waiting = <<>>
      /\ w.co.paths = [r \in Responses |-> build_paths_map(r)]
      /\ w.co.buffered = [x \in Selectors |-> 0] /\ w.co.position = [x \in Selectors |-> 0]
      /\ w.co.closed = {}
  BY <1>2 DEF Working
<1>5. [r \in Responses |-> build_paths_map(r)] \in [Responses -> SUBSET SUBSET Edges]
  BY PathEdges
<1>6. w \in Work
  <2>1. co \in CoordinatorState
    <3>1. [x \in Selectors |-> 0] \in [Selectors -> Nat] /\ <<>> \in Seq(Session)
      BY EmptySeq
    <3> HIDE DEF NoSession
    <3> QED
      BY <1>2, <1>5, <3>1 DEF CoordinatorState
  <2>2. out \in Seq(Items)
    BY <1>2, EmptySeq
  <2> QED
    BY <2>1, <2>2 DEF Work, Working
<1>7. Len(w.out) = 0 /\ Len(w.co.waiting) = 0 /\ \A i \in 1 .. 0 : FALSE
  BY <1>4, EmptySeq
<1> HIDE DEF w
<1>8. Sessions(w)
  BY <1>4, <1>7 DEF Sessions
<1>9. Ordered(w)
  BY <1>4, <1>7 DEF Ordered
<1>10. ChunksSent(w)
  <2>1. \A x \in Selectors : w.co.position[x] = 0 /\ w.co.buffered[x] = 0
    BY <1>4
  <2> QED
    BY <1>7, <2>1 DEF ChunksSent
<1>11. ValuesSent(w, Here)
  BY <1>7 DEF ValuesSent
<1>12. PathsLeft(w, Here)
  <2>1. \A r \in Responses : w.co.paths[r] = build_paths_map(r) /\ r \in w.co.pending
    BY <1>4
  <2> QED
    BY <2>1 DEF PathsLeft
<1>13. Good(w, Here)
  <2>1. w.co.buffered = Here.buffered /\ w.co.closed = Here.closed
    BY DEF w, Working, Here
  <2> QED
    BY <1>6, <1>8, <1>9, <1>10, <1>11, <1>12, <2>1 DEF Good
<1>14. Settled(w, Here)
  BY <1>4 DEF Settled, AtRest
<1> QED
  BY <1>1, <1>3, <1>13, <1>14 DEF ResponseInv, w

(* The run keeps the whole invariant. *)
THEOREM ResponseCorrect == Spec => []ResponseInv
<1>1. Init => ResponseInv
  BY ResponseInit
<1>2. ResponseInv /\ [Next]_vars => ResponseInv'
  BY ResponseStep
<1> QED
  BY <1>1, <1>2, PTL DEF Spec

-----------------------------------------------------------------------------
(* Part 3 *)

LEMMA OutFacts ==
    ASSUME ResponseInv
    PROVE  /\ DOMAIN out = 1 .. Len(out) /\ Len(out) \in Nat
           /\ Sessions(Working) /\ Ordered(Working) /\ ChunksSent(Working)
           /\ ValuesSent(Working, Here) /\ PathsLeft(Working, Here)
           /\ Working.co = co /\ Working.out = out
           /\ co.position \in [Selectors -> Nat] /\ co.buffered \in [Selectors -> Nat]
<1>1. Good(Working, Here) /\ Working \in Work /\ Working.co = co /\ Working.out = out
  BY HereFacts
<1>2. /\ out \in Seq(Items) /\ co.position \in [Selectors -> Nat]
      /\ co.buffered \in [Selectors -> Nat]
  BY <1>1, WorkFields
<1> QED
  BY <1>1, <1>2, LenProperties DEF Good

(* Answers reach the client one after the other, each in the order of its  *)
(* template.                                                               *)
THEOREM AnswersStayInOrder == Spec => []AnswersInOrder
<1>1. ResponseInv => AnswersInOrder
  BY OutFacts DEF Ordered, AnswersInOrder
<1> QED
  BY <1>1, ResponseCorrect, PTL

(* The chunks of a variable are sent in the order they arrived, none twice *)
(* and none left out.                                                      *)
THEOREM ChunksAreSentOnce == Spec => []ChunksOnceInOrder
<1>1. ASSUME ResponseInv PROVE ChunksOnceInOrder
  <2>1. SUFFICES ASSUME NEW x \in Selectors
                 PROVE  LET sent == {i \in DOMAIN out : out[i].sel = x /\ out[i].kind = "chunk"}
                        IN  /\ {out[i].no : i \in sent} = 1 .. co.position[x]
                            /\ \A i, k \in sent : i < k => out[i].no < out[k].no
    BY DEF ChunksOnceInOrder
  <2> DEFINE sent == {i \in DOMAIN out : out[i].sel = x /\ out[i].kind = "chunk"}
  <2>2. /\ \A n \in 1 .. co.position[x] :
              \E i \in 1 .. Len(out) : IsChunk(out[i], x) /\ out[i].no = n
        /\ \A i \in 1 .. Len(out) : IsChunk(out[i], x) => out[i].no \in 1 .. co.position[x]
        /\ \A i, k \in 1 .. Len(out) :
              i < k /\ IsChunk(out[i], x) /\ IsChunk(out[k], x) => out[i].no < out[k].no
    <3>1. ChunksSent(Working) /\ Working.co = co /\ Working.out = out
      BY <1>1, OutFacts
    <3>2. /\ \A n \in 1 .. Working.co.position[x] :
                \E i \in 1 .. Len(Working.out) : IsChunk(Working.out[i], x) /\ Working.out[i].no = n
          /\ \A i \in 1 .. Len(Working.out) :
                IsChunk(Working.out[i], x) => Working.out[i].no \in 1 .. Working.co.position[x]
          /\ \A i, k \in 1 .. Len(Working.out) :
                i < k /\ IsChunk(Working.out[i], x) /\ IsChunk(Working.out[k], x)
                   => Working.out[i].no < Working.out[k].no
      BY <3>1 DEF ChunksSent
    <3> QED
      BY <3>1, <3>2
  <2>3. \A i : i \in sent <=> i \in 1 .. Len(out) /\ IsChunk(out[i], x)
    BY <1>1, OutFacts DEF IsChunk
  <2> HIDE DEF sent
  <2>4. {out[i].no : i \in sent} = 1 .. co.position[x]
    BY <2>2, <2>3
  <2>5. \A i, k \in sent : i < k => out[i].no < out[k].no
    BY <2>2, <2>3
  <2> QED
    BY <2>4, <2>5 DEF sent
<1> QED
  BY <1>1, ResponseCorrect, PTL

(* A variable that was streamed is not sent again as a value, unless its   *)
(* source ended by its error strategy.                                     *)
THEOREM StreamsAreNotRepeated == Spec => []NotShownTwice
<1>1. ASSUME ResponseInv PROVE NotShownTwice
  <2>1. SUFFICES ASSUME NEW i \in DOMAIN out, NEW k \in DOMAIN out,
                        out[i].kind = "chunk", out[k].kind = "value", out[i].sel = out[k].sel
                 PROVE  phase[source[out[i].sel]] = "exception"
    BY DEF NotShownTwice
  <2> DEFINE x == out[i].sel
  <2>2. i \in 1 .. Len(out) /\ k \in 1 .. Len(out)
    BY <1>1, OutFacts
  <2>3. x \in Selectors /\ out[i].no \in 1 .. co.position[x] /\ co.position[x] <= co.buffered[x]
    BY <1>1, <2>1, <2>2, OutFacts DEF ChunksSent, IsChunk
  <2>4. co.position[x] \in Nat /\ co.buffered[x] \in Nat
    BY <1>1, <2>3, OutFacts
  <2>5. co.buffered[x] > 0
    BY <2>3, <2>4
  <2>6. x \in Streams /\ source[x] \in Nodes
    BY <1>1, <2>3, <2>5 DEF ResponseInv, PoolInv
  <2>7. x \in Values(phase)
    BY <1>1, <2>1, <2>2, OutFacts DEF ValuesSent, Here
  <2> QED
    BY <2>6, <2>7, ResponseConstants DEF Values
<1> QED
  BY <1>1, ResponseCorrect, PTL

(* The strays and the heads of edges out of stuck nodes are stuck. *)
LEMMA StuckClosed ==
    /\ Strays \subseteq Stuck
    /\ \A e \in Edges : tail[e] \in Stuck => head[e] \in Stuck
BY ResponseGraph DEF Stuck, Downstream, Strays

(* What lies behind a stray has neither ended nor is it skipped: the nodes *)
(* of which this is true contain the strays, and with a node the heads of  *)
(* its edges, which stay undecided.                                        *)
LEMMA StuckUnfinished ==
    ASSUME ResponseInv, NEW n \in Stuck
    PROVE  n \in Nodes /\ ~Ended(n) /\ ~Skipped(es, n)
<1> DEFINE T == {m \in Nodes : ~Ended(m) /\ ~Skipped(es, m)}
<1>1. Types /\ GraphInv
  BY DEF ResponseInv
<1>2. ASSUME NEW m \in Strays PROVE m \in T
  <2>1. m \in Nodes /\ get_incoming_edges(m) = {} /\ m \notin InactiveRoots /\ phase[m] = "idle"
    BY <1>1, RootFacts DEF GraphInv
  <2> QED
    BY <2>1 DEF Skipped, Ended
<1>3. ASSUME NEW e \in Edges, tail[e] \in T PROVE head[e] \in T
  <2>1. es[e] = "unknown"
    BY <1>1, <1>3 DEF GraphInv
  <2>2. head[e] \in Nodes /\ e \in get_incoming_edges(head[e])
    BY ResponseGraph DEF get_incoming_edges
  <2>3. ~is_node_ready(es, head[e])
    BY <2>1, <2>2 DEF is_node_ready, HasUnknown
  <2>4. ~Skipped(es, head[e])
    BY <2>1, <2>2, RootFacts DEF Skipped
  <2> QED
    BY <1>1, <2>2, <2>3, <2>4, NodeFacts
<1>4. T \in SUBSET Nodes
  OBVIOUS
<1> HIDE DEF T
<1>5. n \in T
  BY <1>2, <1>3, <1>4 DEF Stuck, Downstream
<1> QED
  BY <1>5 DEF T

(* At the end of a run that was not aborted every edge into a node that is *)
(* not stuck is decided: a node with an undecided one would have another   *)
(* such node before it, for ever.                                          *)
LEMMA AllDecided ==
    ASSUME ResponseInv, Over, NEW e \in Edges, head[e] \notin Stuck
    PROVE  es[e] # "unknown"
<1> DEFINE U == {n \in Nodes : n \notin Stuck /\ HasUnknown(es, n)}
<1>1. Types /\ GraphInv /\ Running = {}
  BY DEF ResponseInv, Over
<1>2. ASSUME NEW n \in Nodes, is_node_ready(es, n), n \notin InactiveRoots \union Strays PROVE Ended(n)
  <2>1. phase[n] # "idle" /\ phase[n] # "running"
    BY <1>1, <1>2 DEF GraphInv, Running
  <2> QED
    BY <1>1, <2>1 DEF Types, Ended
<1>3. ASSUME NEW n \in Nodes, ~HasUnknown(es, n), n \notin Stuck
      PROVE  \A f \in get_outgoing_edges(n) : es[f] # "unknown"
  <2>1. CASE Skipped(es, n)
    BY <1>1, <2>1 DEF GraphInv
  <2>2. CASE ~Skipped(es, n)
    <3>1. is_node_ready(es, n)
      <4>1. CASE get_incoming_edges(n) = {}
        BY <4>1 DEF is_node_ready
      <4>2. CASE get_incoming_edges(n) # {}
        <5>1. PICK f \in get_incoming_edges(n) : es[f] # "skipped"
          BY <2>2, <4>2 DEF Skipped
        <5>2. f \in Edges /\ es[f] \in State
          BY <1>1 DEF get_incoming_edges, Types
        <5>3. es[f] = "taken"
          BY <1>3, <5>1, <5>2 DEF State, HasUnknown
        <5> QED
          BY <1>3, <5>3 DEF is_node_ready, HasTaken
      <4> QED
        BY <4>1, <4>2
    <3>2. Ended(n)
      BY <1>2, <1>3, <2>2, <3>1, StuckClosed DEF Skipped
    <3> QED
      BY <1>1, <3>2 DEF GraphInv
  <2> QED
    BY <2>1, <2>2
<1>4. ASSUME NEW n \in U PROVE \E f \in get_incoming_edges(n) : tail[f] \in U
  <2>1. PICK f \in get_incoming_edges(n) : es[f] = "unknown"
    BY DEF HasUnknown
  <2>2. tail[f] \in Nodes /\ f \in get_outgoing_edges(tail[f])
    BY ResponseGraph DEF get_incoming_edges, get_outgoing_edges
  <2>3. tail[f] \notin Stuck
    BY StuckClosed DEF get_incoming_edges
  <2> QED
    BY <1>3, <2>1, <2>2, <2>3
<1>5. U = {}
  <2> HIDE DEF U
  <2>1. U \in SUBSET Nodes
    BY DEF U
  <2> QED
    BY <1>4, <2>1, ResponseGraph
<1>6. head[e] \in Nodes /\ e \in get_incoming_edges(head[e])
  BY ResponseGraph DEF get_incoming_edges
<1> QED
  BY <1>5, <1>6 DEF HasUnknown

(* A walk whose blocking edges are taken leads to nodes that are not       *)
(* skipped: an edge that is not blocking is only skipped with its source.  *)
(* At the end of the run they have ended, if they are not stuck.           *)
LEMMA WalkIsRun ==
    ASSUME ResponseInv, NEW r, NEW p \in find_paths(r),
           \A e \in p : Blocks(tail[e], r) => es[e] = "taken"
    PROVE  ~Skipped(es, r) /\ (Over => (Ended(r) <=> r \notin Stuck))
<1> DEFINE Sure(q) == \A e \in q.edges : Blocks(tail[e], r) => es[e] = "taken"
           Runs(n) == ~Skipped(es, n) /\ (Over => (Ended(n) <=> n \notin Stuck))
           I == {q \in WalkStates : Sure(q) => Runs(q.at)}
<1>1. Types /\ GraphInv
  BY DEF ResponseInv
<1>2. ASSUME NEW n \in Nodes, is_node_ready(es, n), n \notin InactiveRoots \union Strays, Over
      PROVE  Ended(n)
  <2>1. phase[n] # "idle" /\ phase[n] # "running"
    BY <1>1, <1>2 DEF GraphInv, Over, Running
  <2> QED
    BY <1>1, <2>1 DEF Types, Ended
<1>3. Setout \in I
  <2>1. Setout \in WalkStates /\ Setout.at = Root
    BY ResponseGraph DEF Setout, WalkStates
  <2>2. Root \in Nodes /\ get_incoming_edges(Root) = {} /\ Root \notin InactiveRoots \union Strays
    BY ResponseGraph, RootFacts
  <2>3. Runs(Root)
    BY <1>2, <2>2, StuckUnfinished DEF Skipped, is_node_ready
  <2> QED
    BY <2>1, <2>3
<1>4. ASSUME NEW q \in I, NEW e \in Edges, q.at # r, tail[e] = q.at PROVE Goon(q, e) \in I
  <2>1. q \in WalkStates
    OBVIOUS
  <2>2. /\ Goon(q, e) \in WalkStates /\ Goon(q, e).at = head[e]
        /\ Goon(q, e).edges = q.edges \union {e}
    BY <2>1, ResponseGraph DEF Goon, WalkStates
  <2>3. SUFFICES ASSUME Sure(Goon(q, e)) PROVE Runs(head[e])
    BY <2>2
  <2>4. Sure(q) /\ (Blocks(tail[e], r) => es[e] = "taken")
    BY <2>2, <2>3
  <2>5. Runs(tail[e])
    BY <1>4, <2>4
  <2>6. e \in get_incoming_edges(head[e]) /\ head[e] \in Nodes /\ tail[e] \in Nodes
    BY ResponseGraph DEF get_incoming_edges
  <2>7. head[e] \notin InactiveRoots \union Strays
    BY <2>6, RootFacts
  <2>8. es[e] # "skipped"
    <3>1. SUFFICES ASSUME es[e] = "skipped" PROVE FALSE
      OBVIOUS
    <3>2. tail[e] \notin Branch
      BY <2>4, <3>1 DEF Blocks
    <3>3. Ended(tail[e]) \/ Skipped(es, tail[e])
      BY <1>1, <3>1 DEF GraphInv
    <3> QED
      BY <1>1, <2>5, <3>1, <3>2, <3>3 DEF GraphInv
  <2>9. ~Skipped(es, head[e])
    BY <2>6, <2>7, <2>8 DEF Skipped
  <2>10. ASSUME Over, head[e] \notin Stuck PROVE Ended(head[e])
    <3>1. \A f \in get_incoming_edges(head[e]) : es[f] # "unknown"
      BY <2>10, AllDecided DEF get_incoming_edges
    <3>2. es[e] \in State
      BY <1>1 DEF Types
    <3>3. es[e] = "taken"
      BY <2>6, <2>8, <3>1, <3>2 DEF State
    <3>4. is_node_ready(es, head[e])
      BY <2>6, <3>1, <3>3 DEF is_node_ready, HasUnknown, HasTaken
    <3> QED
      BY <1>2, <2>6, <2>7, <2>10, <3>4
  <2> QED
    BY <2>9, <2>10, StuckUnfinished
<1>5. I \in SUBSET WalkStates
  OBVIOUS
<1> HIDE DEF I
<1>6. PICK q \in I : q.at = r /\ q.edges = p
  BY <1>3, <1>4, <1>5, PathsFrom
<1> QED
  BY <1>6 DEF I

LEMMA OpenedRuns ==
    ASSUME ResponseInv, NEW r \in Opened
    PROVE  ~Skipped(es, r) /\ (Over => (phase[r] = "done" <=> r \notin Stuck))
<1>1. r \in Responses /\ r \notin co.pending
  BY DEF Opened
<1>2. PICK B \in build_paths_map(r) : \A e \in B : es[e] = "taken"
  BY <1>1, OutFacts DEF PathsLeft, Here
<1>3. PICK p \in find_paths(r) : B = {e \in p : Blocks(tail[e], r)}
  BY DEF build_paths_map
<1>4. ~Skipped(es, r) /\ (Over => (Ended(r) <=> r \notin Stuck))
  BY <1>2, <1>3, WalkIsRun
<1>5. r \in Nodes /\ r \notin CanFail
  BY <1>1, ResponseConstants
<1>6. phase[r] # "exception"
  BY <1>5 DEF ResponseInv, GraphInv
<1> QED
  BY <1>4, <1>6 DEF Ended

(* An answer that was opened is never skipped and, when the run is over,   *)
(* has run, unless a node that nothing starts lies before it.              *)
THEOREM OpenedAnswersRun == Spec => []NoPrematureAnswer
<1>1. ResponseInv => NoPrematureAnswer
  BY OpenedRuns DEF NoPrematureAnswer
<1> QED
  BY <1>1, ResponseCorrect, PTL

(* At the end no session is open, if the opened answers could run and show *)
(* variables of nodes before them that became available.                   *)
THEOREM NoSessionIsLeft == Spec => []SessionsEnd
<1>1. ASSUME ResponseInv, Over,
             \A r \in Opened : r \notin Stuck /\ Available(r) /\ ShowsUpstream(r)
      PROVE  Open = {}
  <2> DEFINE a == co.active
             x == template[a.node][a.index + 1]
  <2>1. /\ a = NoSession => co.waiting = <<>>
        /\ a # NoSession => a.node \notin co.pending
    BY <1>1, OutFacts DEF Sessions
  <2>2. a # NoSession => a.node \in Responses /\ a.index \in Nat
    BY <1>1, HereFacts, WorkFields
  <2>3. CASE a = NoSession
    <3>1. DOMAIN co.waiting = {}
      BY <2>1, <2>3
    <3>2. a.node = NoNode
      BY <2>3 DEF NoSession
    <3> QED
      BY <3>1, <3>2 DEF Open
  <2>4. CASE a # NoSession
    <3>1. a.node \in Opened
      BY <2>1, <2>2, <2>4 DEF Opened
    <3>2. phase[a.node] = "done" /\ Available(a.node) /\ ShowsUpstream(a.node)
      BY <1>1, <3>1, OpenedRuns
    <3>3. a.node \in Here.ended /\ Here.edges = es /\ Here.pool = pool
      BY <2>2, <2>4, <3>2 DEF Here, Ended
    <3>4. AtRest(Working, Here) /\ Working.co = co
      BY <1>1, <3>3, HereFacts DEF Settled
    <3>5. /\ a.index < Len(template[a.node]) /\ x # Text
          /\ ~SourceSkipped(es, x) /\ x \notin co.closed /\ ~HasValue(pool, x)
      BY <2>4, <3>3, <3>4 DEF AtRest
    <3>6. x \in Shown(a.node)
      BY <2>2, <2>4, <3>5, ShownIs
    <3> QED
      BY <3>2, <3>5, <3>6 DEF Available, SourceSkipped
  <2> QED
    BY <2>3, <2>4
<1>2. ResponseInv => SessionsEnd
  BY <1>1 DEF SessionsEnd
<1> QED
  BY <1>2, ResponseCorrect, PTL
=============================================================================
