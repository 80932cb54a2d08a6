------------------------ MODULE ResponseCoordinator ------------------------
(***************************************************************************)
(* ResponseStreamCoordinator (dify_graph/graph_engine/response_coordinator)*)
(* and the parts of EventHandler and EdgeProcessor that call it.           *)
(*                                                                         *)
(* Answer and End nodes have a template of text and variable segments.     *)
(* The coordinator decides, before such a node runs, that the run will     *)
(* reach it, opens its session and streams the template: the chunks of a   *)
(* variable as they arrive, or its value once it is in the variable pool.  *)
(* One session is active, the others wait.                                 *)
(*                                                                         *)
(* Every action is one event handled by the dispatcher thread; the order   *)
(* in which the worker threads put events in the queue is free.  Edge      *)
(* states follow the closed form of GraphStates.                           *)
(*                                                                         *)
(* Loops are functions of the number of turns, so that a proof can follow  *)
(* them turn by turn.                                                      *)
(***************************************************************************)
EXTENDS GraphStates, Naturals, FiniteSets, SequencesExt

CONSTANTS
    Root,       \* Graph.root_node
    Responses,  \* nodes whose execution_type is RESPONSE
    DeclaredRoot,   \* nodes whose own execution_type is ROOT (Start, triggers)
    DeclaredBranch, \* nodes whose own execution_type is BRANCH
    Containers, \* nodes whose execution_type is CONTAINER (iteration, loop)
    CanPause,   \* nodes that may ask for a pause (human input)
    Selectors,  \* variables that some template shows
    source,     \* [Selectors -> Nodes \union {NoNode}]; NoNode: sys, env, conversation
    template,   \* [Responses -> Seq(Selectors \union {Text})]
    Streams,    \* selectors whose source streams them chunk by chunk
    onSuccess,  \* selectors that a node stores when it succeeds
    onException,\* selectors that a node stores when its error strategy applies
    assigns,    \* [Nodes -> SUBSET Selectors], variables a Variable Assigner writes
    strategy,   \* [Nodes -> {"none", "default-value", "fail-branch"}]
    CanFail,    \* nodes that may fail
    MaxRetries, \* [Nodes -> Nat]
    MaxChunks,  \* bound: chunks of a stream before its final one
    MaxSegments,\* bound: segments of a template
    Text, NoNode

ASSUME ResponseGraph ==
    /\ IsFiniteSet(Nodes) /\ IsFiniteSet(Edges)
    /\ tail \in [Edges -> Nodes] /\ head \in [Edges -> Nodes]
    /\ Root \in Nodes /\ get_incoming_edges(Root) = {}
    \* no edge leads back: the set of nodes on a cycle is empty
    /\ \A S \in SUBSET Nodes :
          (\A n \in S : \E e \in get_incoming_edges(n) : tail[e] \in S) => S = {}

ASSUME ResponseConstants ==
    /\ Responses \subseteq Nodes /\ DeclaredBranch \subseteq Nodes /\ NoNode \notin Nodes
    \* nothing leads to a Start or trigger node ("and no incoming edges")
    /\ DeclaredRoot \subseteq Nodes /\ \A n \in DeclaredRoot : get_incoming_edges(n) = {}
    /\ Text \notin Selectors /\ source \in [Selectors -> Nodes \union {NoNode}]
    /\ MaxChunks \in Nat /\ MaxSegments \in Nat
    /\ \A r \in Responses : /\ template[r] \in Seq(Selectors \union {Text})
                            /\ Len(template[r]) <= MaxSegments
    \* AnswerNode._run and EndNode._run report success whatever they find
    /\ Responses \intersect CanFail = {}

(* Graph._promote_fail_branch_nodes *)
Branch == DeclaredBranch \union {n \in Nodes : strategy[n] = "fail-branch"}

Roots == DeclaredRoot \ Branch

(* Roots that the run was not started from (other triggers).  A run that   *)
(* starts at an inner node of an iteration or a loop has none.             *)
InactiveRoots == IF Root \in Roots THEN Roots \ {Root} ELSE {}

VARIABLES
    es,       \* edge states
    phase,    \* node -> "idle", "running" (queued or executing), "done", "exception"
    tries,    \* node -> retries so far
    pool,     \* selector -> version of its value, 0 when there is none
    co,       \* the coordinator, see CoordinatorState
    order,    \* iteration order of the Python set _response_nodes
    out,      \* the chunks sent to the client, in order (history)
    aborted   \* the run failed

vars == <<es, phase, tries, pool, co, order, out, aborted>>

Session == [node : Responses, index : Nat]
NoSession == [node |-> NoNode, index |-> 0]

(* What dumps() serializes.  A buffered chunk is its arrival number, so a  *)
(* buffer is described by its length.                                      *)
CoordinatorState ==
    [pending  : SUBSET Responses,               \* _response_sessions
     active   : Session \union {NoSession},     \* _active_session
     waiting  : Seq(Session),                   \* _waiting_sessions
     paths    : [Responses -> SUBSET SUBSET Edges],
     buffered : [Selectors -> Nat],             \* length of _stream_buffers
     position : [Selectors -> Nat],             \* _stream_positions
     closed   : SUBSET Selectors]               \* _closed_streams

Item(r, i, x, kind, no) == [to |-> r, seg |-> i, sel |-> x, kind |-> kind, no |-> no]

-----------------------------------------------------------------------------
(* register: the blocking edges of every path from the root.               *)

(* The walks from the root to r, each as the set of its edges, extended    *)
(* edge by edge; a walk visits no node twice and ends at r.                *)
find_paths(r) ==
    LET walks[k \in 0 .. Cardinality(Nodes)] ==
            IF k = 0 THEN {[at |-> Root, edges |-> {}, visited |-> {Root}]}
            ELSE {[at      |-> head[s[2]],
                   edges   |-> s[1].edges \union {s[2]},
                   visited |-> s[1].visited \union {head[s[2]]}] :
                     s \in {t \in walks[k - 1] \X Edges :
                              /\ t[1].at # r /\ tail[t[2]] = t[1].at
                              /\ head[t[2]] \notin t[1].visited}}
    IN  UNION {{q.edges : q \in {v \in walks[k] : v.at = r}} : k \in 0 .. Cardinality(Nodes)}

Shown(r) == ToSet(template[r]) \ {Text}

(* Mutant: the edges of a branch count as sure to be taken. *)
MutantOnlyResponsesBlock(n, r) == n \in Responses

Blocks(n, r) == n \in Branch \union Containers \union Responses \/ assigns[n] \intersect Shown(r) # {}

build_paths_map(r) ==
    {{e \in p : Blocks(tail[e], r)} : p \in find_paths(r)}

-----------------------------------------------------------------------------
(* Streaming.  A working state w is [co, out]; edges f and pool p are the  *)
(* ones the handler sees.                                                  *)

HasValue(p, x) == p[x] > 0

(* Node state SKIPPED, once the propagation over the edges is at rest. *)
Skipped(f, n) ==
    \/ n \in InactiveRoots
    \/ get_incoming_edges(n) # {} /\ \A e \in get_incoming_edges(n) : f[e] = "skipped"

(* Mutant: the chunks are sent but their position is not recorded. *)
MutantKeepPosition(w, x) ==
    LET a == w.co.active
    IN  [w EXCEPT !.out = @ \o [k \in 1 .. w.co.buffered[x] - w.co.position[x] |->
                                  Item(a.node, a.index + 1, x, "chunk", w.co.position[x] + k)]]

(* _process_variable_segment, first half: send every unread chunk. *)
PopChunks(w, x) ==
    LET a == w.co.active
        c == w.co
    IN  [co  |-> [c EXCEPT !.position[x] = c.buffered[x]],
         out |-> w.out \o [k \in 1 .. c.buffered[x] - c.position[x] |->
                             Item(a.node, a.index + 1, x, "chunk", c.position[x] + k)]]

(* Second half: a closed stream is complete; otherwise a value in the pool *)
(* is sent as one chunk; otherwise the segment waits.                      *)
process_variable_segment(w, x, p) ==
    LET popped == PopChunks(w, x)
        a == w.co.active
    IN  IF x \in w.co.closed THEN [w |-> popped, complete |-> TRUE]
        ELSE IF HasValue(p, x)
             THEN [w |-> [popped EXCEPT !.out = Append(@, Item(a.node, a.index + 1, x, "value", p[x]))],
                   complete |-> TRUE]
             ELSE [w |-> popped, complete |-> FALSE]

Advanced(w) == [w EXCEPT !.co.active.index = @ + 1]

(* end_session, up to the flush of the session it starts. *)
NextSession(w) ==
    IF w.co.waiting = <<>> THEN [w EXCEPT !.co.active = NoSession]
    ELSE [w EXCEPT !.co.active = Head(w.co.waiting), !.co.waiting = Tail(@)]

(* Mutant: the segment of a skipped node is waited for like any other. *)
MutantNeverSkipped(f, x) == FALSE

SourceSkipped(f, x) == source[x] # NoNode /\ Skipped(f, source[x])

SendText(w) ==
    [w EXCEPT !.out = Append(@, Item(w.co.active.node, w.co.active.index + 1, Text, "text", 0))]

FlushVariable(w, f, p, x) ==
    LET done == process_variable_segment(w, x, p)
    IN  IF SourceSkipped(f, x) THEN Advanced(w)
        ELSE IF done.complete THEN Advanced(done.w) ELSE done.w

(* One turn of the loop over the segments; behind the last segment the     *)
(* session ends and the next one starts.                                   *)
flush_turn(w, f, p) ==
    LET a == w.co.active
        x == template[a.node][a.index + 1]
    IN  IF a = NoSession THEN w
        ELSE IF a.index >= Len(template[a.node]) THEN NextSession(w)
        ELSE IF x = Text THEN Advanced(SendText(w)) ELSE FlushVariable(w, f, p, x)

(* A bound on the turns: every session that is not over takes at most one  *)
(* for each segment and one to end.                                        *)
Turns(w) == (Len(w.co.waiting) + 1) * (MaxSegments + 1)

try_flush(w, f, p) ==
    LET turn[k \in 0 .. Turns(w)] == IF k = 0 THEN w ELSE flush_turn(turn[k - 1], f, p)
    IN  turn[Turns(w)]

(* Mutant: a session starts at once although another is active. *)
MutantPreempt(w, r, f, p) ==
    IF r \notin w.co.pending THEN w
    ELSE try_flush([w EXCEPT !.co.pending = @ \ {r},
                             !.co.waiting = IF w.co.active = NoSession THEN @
                                            ELSE Append(@, w.co.active),
                             !.co.active = [node |-> r, index |-> 0]], f, p)

active_or_queue_session(w, r, f, p) ==
    LET session == [node |-> r, index |-> 0]
        popped == [w EXCEPT !.co.pending = @ \ {r}]
    IN  IF r \notin w.co.pending THEN w
        ELSE IF w.co.active = NoSession
             THEN try_flush([popped EXCEPT !.co.active = session], f, p)
             ELSE [popped EXCEPT !.co.waiting = Append(@, session)]

(* The paths of r without edge e; r is opened when one of them is empty. *)
take_edge(w, e, r, f, p) ==
    LET left == {path \ {e} : path \in w.co.paths[r]}
        next == [w EXCEPT !.co.paths[r] = left]
    IN  IF {} \in left THEN active_or_queue_session(next, r, f, p) ELSE next

on_edge_taken(w, e, f, p) ==
    LET seen[k \in 0 .. Len(order)] ==
            IF k = 0 THEN w ELSE take_edge(seen[k - 1], e, order[k], f, p)
    IN  seen[Len(order)]

(* Mutant of loads: closed streams are not restored. *)
MutantForgetClosed(d) == [d EXCEPT !.closed = {}]

(* loads(dumps()): every field is restored; a session is rebuilt from its  *)
(* node and index.                                                         *)
loads(d) ==
    [pending |-> d.pending, active |-> d.active, waiting |-> d.waiting, paths |-> d.paths,
     buffered |-> d.buffered, position |-> d.position, closed |-> d.closed]

-----------------------------------------------------------------------------
(* The handlers.                                                           *)

Working == [co |-> co, out |-> out]
Install(w) == co' = w.co /\ out' = w.out

Init ==
    /\ es = skip_branch_paths([e \in Edges |-> "unknown"],
                               UNION {get_outgoing_edges(n) : n \in InactiveRoots})
    /\ phase = [n \in Nodes |-> IF n = Root THEN "running" ELSE "idle"]
    /\ tries = [n \in Nodes |-> 0]
    /\ pool = [x \in Selectors |-> IF source[x] = NoNode THEN 1 ELSE 0]
    /\ co = [pending |-> Responses, active |-> NoSession, waiting |-> <<>>,
             paths |-> [r \in Responses |-> build_paths_map(r)],
             buffered |-> [x \in Selectors |-> 0], position |-> [x \in Selectors |-> 0],
             closed |-> {}]
    /\ order \in SetToSeqs(Responses)
    /\ out = <<>>
    /\ aborted = FALSE

(* NodeRunStreamChunkEvent: the chunk is buffered, then flushed. *)
StreamChunk(n, x) ==
    /\ ~aborted /\ phase[n] = "running"
    /\ source[x] = n /\ x \in Streams \ co.closed
    /\ co.buffered[x] < MaxChunks
    /\ Install(try_flush([Working EXCEPT !.co.buffered[x] = @ + 1], es, pool))
    /\ UNCHANGED <<es, phase, tries, pool, order, aborted>>

(* The same with is_final set: the stream is closed before the flush. *)
FinalChunk(n, x) ==
    /\ ~aborted /\ phase[n] = "running"
    /\ source[x] = n /\ x \in Streams \ co.closed
    /\ Install(try_flush([Working EXCEPT !.co.buffered[x] = @ + 1,
                                         !.co.closed = @ \union {x}], es, pool))
    /\ UNCHANGED <<es, phase, tries, pool, order, aborted>>

(* VariableAssignerNode._run writes the pool from the worker thread. *)
Assign(n, x) ==
    /\ ~aborted /\ phase[n] = "running"
    /\ x \in assigns[n] /\ pool[x] = 1
    /\ pool' = [pool EXCEPT ![x] = 2]
    /\ UNCHANGED <<es, phase, tries, co, order, out, aborted>>

(* The coordinator is told of the taken edges one by one. *)
report_taken(w, edges, f, p) ==
    LET told[k \in 0 .. Len(edges)] ==
            IF k = 0 THEN w ELSE on_edge_taken(told[k - 1], edges[k], f, p)
    IN  told[Len(edges)]

(* The edges of a completed node: skipped ones first, then every taken one *)
(* is reported to the coordinator, in the order in which the graph lists   *)
(* them.  Nodes with a taken edge and no undecided one are started.        *)
Proceed(n, end, chosen, w) ==
    /\ es' = EdgesAfter(es, get_outgoing_edges(n) \ chosen, chosen)
    /\ phase' = [m \in Nodes |-> IF m = n THEN end
                                 ELSE IF phase[m] = "idle" /\ ~HasUnknown(es', m) /\ HasTaken(es', m)
                                      THEN "running"
                                 ELSE phase[m]]
    /\ \E edges \in SetToSeqs(chosen) : Install(report_taken(w, edges, es', pool'))

Stored(p, xs) == [x \in Selectors |-> IF x \in xs THEN 1 ELSE p[x]]

(* NodeRunSucceededEvent: the outputs are stored, the active session is    *)
(* flushed, the edges are processed.  A streaming node has sent its final  *)
(* chunk, an assigner has written.  The handle a branch selects may lead   *)
(* nowhere.                                                                *)
Succeed(n, h) ==
    /\ ~aborted /\ phase[n] = "running"
    /\ \A x \in Streams : source[x] = n => x \in co.closed
    /\ \A x \in assigns[n] : pool[x] = 2
    /\ IF n \in Branch THEN h # "fail-branch" ELSE h = "source"
    /\ pool' = Stored(pool, {x \in onSuccess : source[x] = n})
    /\ Proceed(n, "done", IF n \in Branch THEN SelectedEdges(n, h) ELSE get_outgoing_edges(n),
               try_flush(Working, es, pool'))
    /\ UNCHANGED <<tries, order, aborted>>

(* A node fails before it has ended its stream. *)
Fails(n) ==
    /\ ~aborted /\ phase[n] = "running" /\ n \in CanFail
    /\ \A x \in Streams : source[x] = n => x \notin co.closed

(* NodeRunRetryEvent: the chunks of the failed attempt stay buffered. *)
Retry(n) ==
    /\ Fails(n) /\ tries[n] < MaxRetries[n]
    /\ tries' = [tries EXCEPT ![n] = @ + 1]
    /\ UNCHANGED <<es, phase, pool, co, order, out, aborted>>

(* The edge processor raises when a branch falls back on default values,   *)
(* since it then selects no handle.                                        *)
Continues(n) ==
    strategy[n] = "fail-branch" \/ (strategy[n] = "default-value" /\ n \notin Branch)

(* NodeRunExceptionEvent: as a success, without the first flush. *)
Exception(n) ==
    /\ Fails(n) /\ tries[n] = MaxRetries[n] /\ Continues(n)
    /\ pool' = Stored(pool, {x \in onException : source[x] = n})
    /\ Proceed(n, "exception", IF n \in Branch THEN SelectedEdges(n, "fail-branch")
                  ELSE get_outgoing_edges(n), Working)
    /\ UNCHANGED <<tries, order, aborted>>

(* NodeRunFailedEvent without a strategy, or an exception that cannot be   *)
(* handled: the run ends.                                                  *)
Abort(n) ==
    /\ Fails(n) /\ tries[n] = MaxRetries[n] /\ ~Continues(n)
    /\ aborted' = TRUE
    /\ UNCHANGED <<es, phase, tries, pool, co, order, out>>

Running == {n \in Nodes : phase[n] = "running"}

(* The run pauses, is saved, and another process loads it: the set of      *)
(* response nodes may iterate in another order there.                      *)
Resume ==
    /\ ~aborted /\ Running # {} /\ Running \subseteq CanPause
    /\ co' = loads(co)
    /\ order' \in SetToSeqs(Responses)
    /\ UNCHANGED <<es, phase, tries, pool, out, aborted>>

Next ==
    \/ \E n \in Nodes, x \in Selectors : StreamChunk(n, x)
    \/ \E n \in Nodes, x \in Selectors : FinalChunk(n, x)
    \/ \E n \in Nodes, x \in Selectors : Assign(n, x)
    \/ \E n \in Nodes, h \in {handle[e] : e \in Edges} \union {"source"} : Succeed(n, h)
    \/ \E n \in Nodes : Retry(n)
    \/ \E n \in Nodes : Exception(n)
    \/ \E n \in Nodes : Abort(n)
    \/ Resume

Spec == Init /\ [][Next]_vars

-----------------------------------------------------------------------------
Opened == Responses \ co.pending
Open == {co.waiting[i].node : i \in DOMAIN co.waiting} \union ({co.active.node} \ {NoNode})
Over == ~aborted /\ Running = {}

(* Nodes that nothing starts and nothing skips: the entries of iterations  *)
(* and loops, unconnected nodes.  What lies behind them never runs.        *)
Strays == {n \in Nodes \ ({Root} \union InactiveRoots) : get_incoming_edges(n) = {}}
Stuck == Downstream(Strays)

(* Whatever the order in which nodes stream and sessions open, the client  *)
(* receives the answers one after the other, never mixed, and each one in  *)
(* the order of its template.                                              *)
AnswersInOrder ==
    \A i, k \in DOMAIN out : i < k /\ out[i].to = out[k].to =>
        /\ out[i].seg <= out[k].seg
        /\ \A j \in i .. k : out[j].to = out[i].to

(* The chunks of a variable reach the client in the order they arrived,    *)
(* none twice and none left out, across retries, waiting sessions, several *)
(* templates that show the same variable, and a resume.                    *)
ChunksOnceInOrder ==
    \A x \in Selectors :
        LET sent == {i \in DOMAIN out : out[i].sel = x /\ out[i].kind = "chunk"}
        IN  /\ {out[i].no : i \in sent} = 1 .. co.position[x]
            /\ \A i, k \in sent : i < k => out[i].no < out[k].no

(* A variable that was streamed to its end is not sent a second time as a  *)
(* value: the final chunk closes the stream before the output is stored.   *)
(* A source that ended by its error strategy is the exception.             *)
NotShownTwice ==
    \A i, k \in DOMAIN out :
        out[i].kind = "chunk" /\ out[k].kind = "value" /\ out[i].sel = out[k].sel
            => phase[source[out[i].sel]] = "exception"

(* No answer is opened on a path the run does not take: a response node    *)
(* whose session was opened, from which text may have been sent, is never  *)
(* skipped, and when the run is over it has run, except exactly an answer  *)
(* behind a node that nothing starts: one path to it suffices to open its  *)
(* session, and the answer itself waits for ever for its other edges.      *)
NoPrematureAnswer ==
    \A r \in Opened : /\ ~Skipped(es, r)
                      /\ Over => (phase[r] = "done" <=> r \notin Stuck)

(* What r shows is available: the source is skipped, or has ended its      *)
(* stream, or the variable has a value.                                    *)
Available(r) ==
    \A x \in Shown(r) : \/ source[x] # NoNode /\ Skipped(es, source[x])
                        \/ x \in co.closed
                        \/ HasValue(pool, x)

(* The nodes before r: they are in every set that, with r, holds all the   *)
(* predecessors of its members.                                            *)
Upstream ==
    [r \in Responses |->
        {n \in Nodes \ {r} :
            \A S \in SUBSET Nodes :
                r \in S /\ (\A e \in Edges : head[e] \in S => tail[e] \in S) => n \in S}]

(* r shows only variables of nodes before it, as the editor offers them. *)
ShowsUpstream(r) == \A x \in Shown(r) : source[x] = NoNode \/ source[x] \in Upstream[r]

(* At the end of a run no answer is left half sent and no session waits    *)
(* behind another, provided every opened answer could run, and its         *)
(* template only shows variables of nodes before it that became available. *)
SessionsEnd ==
    Over /\ (\A r \in Opened : r \notin Stuck /\ Available(r) /\ ShowsUpstream(r)) => Open = {}
=============================================================================
