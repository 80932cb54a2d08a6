---------------------------- MODULE GraphEngine ----------------------------
(***************************************************************************)
(* The queue-based workflow engine of api/dify_graph/graph_engine: one run *)
(* of a workflow graph, its pauses and its resumptions.                    *)
(*                                                                         *)
(* Three kinds of threads share the state below:                           *)
(*   - the caller's thread drives the generator GraphEngine.run;           *)
(*   - the dispatcher thread consumes node events, moves the graph on,     *)
(*     polls commands and decides when the run is over;                    *)
(*   - worker threads take ready nodes, run them and post events.          *)
(* Commands come from outside (GraphEngineManager) at any time.            *)
(*                                                                         *)
(* A handler is one step: what it writes is read by the dispatcher only,   *)
(* except the ready queue, which the workers see as a shared bag.  The     *)
(* channel is an atomic queue here; RedisChannel shows that the two-step   *)
(* fetch of the Redis channel implements one.                              *)
(***************************************************************************)
EXTENDS Naturals, Sequences, GraphStates

CONSTANTS
    Root,            \* the active root node
    DeclaredRoot,    \* nodes whose own execution_type is ROOT (Start, triggers)
    DeclaredBranch,  \* nodes whose own execution_type is BRANCH
    Reports,         \* [Nodes -> set of handles a successful run reports]
    CanFail,         \* nodes whose run may fail
    CanPause,        \* nodes that may request a pause (human input)
    ErrorStrategy,   \* [Nodes -> "none" | "fail-branch" | "default-value"]
    MaxRetries,      \* [Nodes -> Nat]: retry_config.max_retries, 0 if retry is off
    Workers,         \* worker threads
    NoNode,          \* what an idle worker holds
    MaxCommands,     \* bound: commands sent from outside
    MaxResumes       \* bound: resumptions

ASSUME GraphAssumption ==
    /\ tail \in [Edges -> Nodes] /\ head \in [Edges -> Nodes]
    /\ Root \in Nodes /\ get_incoming_edges(Root) = {}
    \* no edge leads back: the set of nodes on a cycle is empty
    /\ \A S \in SUBSET Nodes :
          (\A n \in S : \E e \in get_incoming_edges(n) : tail[e] \in S) => S = {}

ASSUME NodeAssumption ==
    \* nothing leads to a Start or trigger node ("and no incoming edges")
    /\ DeclaredRoot \subseteq Nodes /\ \A n \in DeclaredRoot : get_incoming_edges(n) = {}
    /\ DeclaredBranch \subseteq Nodes /\ CanFail \subseteq Nodes /\ CanPause \subseteq Nodes
    /\ ErrorStrategy \in [Nodes -> {"none", "fail-branch", "default-value"}]
    /\ MaxRetries \in [Nodes -> Nat]
    /\ DOMAIN Reports = Nodes
    /\ NoNode \notin Nodes

ASSUME BoundAssumption == MaxCommands \in Nat /\ MaxResumes \in Nat

(* Graph._promote_fail_branch_nodes *)
Branch == DeclaredBranch \union {n \in Nodes : ErrorStrategy[n] = "fail-branch"}

Roots == DeclaredRoot \ Branch

(* Roots that the run was not started from (other triggers).  A run that   *)
(* starts at an inner node of an iteration or a loop has none.             *)
InactiveRoots == IF Root \in Roots THEN Roots \ {Root} ELSE {}

-----------------------------------------------------------------------------
VARIABLES
    \* Graph: Node.state, Edge.state
    nodeState, edgeState,
    \* GraphStateManager: copies of a node in the ready queue, executing set
    readyQueue, executing,
    \* GraphRuntimeState: nodes to run again on resumption
    pausedNodes, deferredNodes,
    \* GraphExecution and its NodeExecutions
    started, completed, aborted, paused, error, exceptionsCount, retryCount,
    \* Worker threads: where each one is, the node it runs; stop flag of the pool
    wpc, held, workersStop,
    \* events posted by workers and not yet handled; events collected per node
    eventQueue, collected,
    \* command channel, the batch being handled, commands sent so far
    channel, batch, sent,
    \* Dispatcher: where it is, where it goes after polling, its local
    \* variable `paused`, its stop flag
    dpc, after, sawPause, dispatcherStop,
    \* the caller: where it is, the event that ended the run, the ready
    \* queue of the snapshot, resumptions so far
    mpc, result, savedReady, resumes

graphVars   == <<nodeState, edgeState>>
schedVars   == <<readyQueue, executing, pausedNodes, deferredNodes>>
execVars    == <<started, completed, aborted, paused, error, exceptionsCount, retryCount>>
workerVars  == <<wpc, held, workersStop>>
eventVars   == <<eventQueue, collected>>
commandVars == <<channel, batch, sent>>
dispVars    == <<dpc, after, sawPause, dispatcherStop>>
callerVars  == <<mpc, result, savedReady, resumes>>
vars == <<graphVars, schedVars, execVars, workerVars, eventVars, commandVars, dispVars, callerVars>>

Commands == {"abort", "pause"}
Errors == {"none", "node", "abort", "internal"}
ResultKinds == {"succeeded", "failed", "pause"}
LogKinds == {"started", "retry", "exception"} \union ResultKinds
AllHandles == UNION {Reports[n] : n \in Nodes}
Event == [node : Nodes, kind : {"started", "failed", "pause"}]
            \union [node : Nodes, kind : {"succeeded"}, handle : AllHandles]

FlagTypes ==
    /\ started \in BOOLEAN /\ completed \in BOOLEAN /\ aborted \in BOOLEAN /\ paused \in BOOLEAN
    /\ workersStop \in BOOLEAN /\ sawPause \in BOOLEAN /\ dispatcherStop \in BOOLEAN

GraphTypes ==
    /\ nodeState \in [Nodes -> State] /\ edgeState \in [Edges -> State]
    /\ readyQueue \in [Nodes -> Nat] /\ savedReady \in [Nodes -> Nat]
    /\ executing \subseteq Nodes /\ pausedNodes \subseteq Nodes /\ deferredNodes \subseteq Nodes
    /\ exceptionsCount \in Nat /\ retryCount \in [Nodes -> Nat]

ThreadTypes ==
    /\ wpc \in [Workers -> {"get", "taken", "begun", "exited"}]
    /\ held \in [Workers -> Nodes \union {NoNode}]
    /\ dpc \in {"off", "poll", "handle", "loop", "idle", "drain", "finish", "done"}
    /\ after \in {"loop", "idle", "exit"}
    /\ mpc \in {"new", "running", "ending", "stopped"}
    /\ error \in Errors
    /\ result \in {"none", "closed", "paused", "aborted", "failed", "partial", "succeeded"}
    /\ sent \in Nat /\ resumes \in Nat

QueueTypes ==
    /\ eventQueue \in Seq(Event) /\ collected \in [Nodes -> Seq(LogKinds)]
    /\ channel \in Seq(Commands) /\ batch \in Seq(Commands)

TypeOK == FlagTypes /\ GraphTypes /\ ThreadTypes /\ QueueTypes

(* Graph.init: the branches of inactive roots are skipped beforehand.      *)
(* Everything else is new.                                                 *)
Init ==
    LET blank == [e \in Edges |-> "unknown"]
        drop  == UNION {get_outgoing_edges(n) : n \in InactiveRoots}
    IN  /\ nodeState = [n \in Nodes |->
                IF n \in InactiveRoots \union SkippedNodes(mark_edges_skipped(blank, drop))
                THEN "skipped" ELSE "unknown"]
        /\ edgeState = skip_branch_paths(blank, drop)
        /\ readyQueue = [n \in Nodes |-> 0] /\ executing = {}
        /\ pausedNodes = {} /\ deferredNodes = {}
        /\ started = FALSE /\ completed = FALSE /\ aborted = FALSE /\ paused = FALSE
        /\ error = "none" /\ exceptionsCount = 0 /\ retryCount = [n \in Nodes |-> 0]
        /\ wpc = [w \in Workers |-> "get"] /\ held = [w \in Workers |-> NoNode]
        /\ workersStop = FALSE
        /\ eventQueue = <<>> /\ collected = [n \in Nodes |-> <<>>]
        /\ channel = <<>> /\ batch = <<>> /\ sent = 0
        /\ dpc = "off" /\ after = "loop" /\ sawPause = FALSE /\ dispatcherStop = FALSE
        /\ mpc = "new" /\ result = "none"
        /\ savedReady = [n \in Nodes |-> 0] /\ resumes = 0
-----------------------------------------------------------------------------
(* What the handlers do to the state they share *)

(* Mutant of start_execution: scheduled nodes are not tracked. *)
MutantUntracked(S) == executing

(* Mutant of finish_execution: the node stays in the executing set. *)
MutantNeverFinished(n) == executing

(* GraphStateManager: the ready queue and the executing set after nodes    *)
(* are scheduled, the executing set after a node ended.                    *)
enqueue_nodes(S) == [n \in Nodes |-> IF n \in S THEN readyQueue[n] + 1 ELSE readyQueue[n]]
start_execution(S) == executing \union S
finish_execution(n) == executing \ {n}

(* Mutant of register_deferred_node: nothing is recorded. *)
MutantDeferUnrecorded(S) == deferredNodes

(* GraphRuntimeState: what has to run on resumption. *)
register_paused_node(n) == pausedNodes \union {n}
register_deferred_node(S) == deferredNodes \union S

(* GraphExecution.record_node_failure *)
record_node_failure == exceptionsCount' = exceptionsCount + 1

-----------------------------------------------------------------------------
(* Worker.run *)

(* Mutant of WorkerTake: the node is read and left in the queue. *)
MutantTakePeeks(w, n) ==
    /\ wpc[w] = "get" /\ readyQueue[n] > 0 /\ mpc # "new"
    /\ held' = [held EXCEPT ![w] = n]
    /\ wpc' = [wpc EXCEPT ![w] = "taken"]
    /\ UNCHANGED <<graphVars, schedVars, execVars, workersStop, eventVars, commandVars,
                   dispVars, callerVars>>

(* ready_queue.get returned a node.  A worker already waiting in get may   *)
(* still obtain one after the pool was told to stop.                       *)
WorkerTake(w, n) ==
    /\ wpc[w] = "get" /\ readyQueue[n] > 0 /\ mpc # "new"
    /\ readyQueue' = [readyQueue EXCEPT ![n] = @ - 1]
    /\ held' = [held EXCEPT ![w] = n]
    /\ wpc' = [wpc EXCEPT ![w] = "taken"]
    /\ UNCHANGED <<graphVars, executing, pausedNodes, deferredNodes, execVars, workersStop,
                   eventVars, commandVars, dispVars, callerVars>>

(* The node's first event is NodeRunStartedEvent. *)
WorkerBegin(w) ==
    /\ wpc[w] = "taken"
    /\ eventQueue' = Append(eventQueue, [node |-> held[w], kind |-> "started"])
    /\ wpc' = [wpc EXCEPT ![w] = "begun"]
    /\ UNCHANGED <<graphVars, schedVars, execVars, held, workersStop, collected,
                   commandVars, dispVars, callerVars>>

(* What a run of node n may end with. *)
Outcomes(n) ==
    {[node |-> n, kind |-> "succeeded", handle |-> h] : h \in Reports[n]}
    \union (IF n \in CanFail THEN {[node |-> n, kind |-> "failed"]} ELSE {})
    \union (IF n \in CanPause THEN {[node |-> n, kind |-> "pause"]} ELSE {})

(* The node ends: its result event is posted and the loop tests stop. *)
WorkerFinish(w) ==
    /\ wpc[w] = "begun"
    /\ \E ev \in Outcomes(held[w]) : eventQueue' = Append(eventQueue, ev)
    /\ held' = [held EXCEPT ![w] = NoNode]
    /\ wpc' = [wpc EXCEPT ![w] = IF workersStop THEN "exited" ELSE "get"]
    /\ UNCHANGED <<graphVars, schedVars, execVars, workersStop, collected,
                   commandVars, dispVars, callerVars>>

(* get timed out and the stop flag is set. *)
WorkerExit(w) ==
    /\ wpc[w] = "get" /\ workersStop
    /\ wpc' = [wpc EXCEPT ![w] = "exited"]
    /\ UNCHANGED <<graphVars, schedVars, execVars, held, workersStop, eventVars,
                   commandVars, dispVars, callerVars>>

-----------------------------------------------------------------------------
(* GraphEngineManager: a command is sent while the run may still read it,  *)
(* or while it is paused: the resumed run reads the same channel.          *)
SendCommand(c) ==
    /\ sent < MaxCommands
    /\ mpc = "running" \/ result = "paused"
    /\ channel' = Append(channel, c)
    /\ sent' = sent + 1
    /\ UNCHANGED <<graphVars, schedVars, execVars, workerVars, eventVars, batch,
                   dispVars, callerVars>>

-----------------------------------------------------------------------------
(* GraphEngine.run: the caller's thread *)

(* Mutant of NodesToStart: the deferred nodes are not resumed. *)
MutantPausedOnly == IF started THEN pausedNodes ELSE {Root}

(* _start_execution: the root, or what a pause has left to run. *)
NodesToStart == IF started THEN pausedNodes \union deferredNodes ELSE {Root}

(* run up to dispatcher.start(), including _start_execution. *)
Run ==
    /\ mpc = "new"
    /\ started' = TRUE /\ paused' = FALSE
    /\ pausedNodes' = {} /\ deferredNodes' = {}
    /\ nodeState' = [n \in Nodes |-> IF n \in NodesToStart THEN "taken" ELSE nodeState[n]]
    /\ readyQueue' = enqueue_nodes(NodesToStart)
    /\ executing' = start_execution(NodesToStart)
    /\ dpc' = "poll" /\ after' = "loop"
    /\ mpc' = "running"
    /\ UNCHANGED <<edgeState, completed, aborted, error, exceptionsCount, retryCount,
                   workerVars, eventVars, commandVars, sawPause, dispatcherStop,
                   result, savedReady, resumes>>

(* emit_events has ended; the final event is yielded.  A pause is          *)
(* persisted at this point (dumps), ready queue included.                  *)
ReportResult ==
    /\ mpc = "running" /\ dpc = "done"
    /\ result' = IF paused THEN "paused"
                 ELSE IF aborted THEN "aborted"
                 ELSE IF error # "none" THEN "failed"
                 ELSE IF exceptionsCount > 0 THEN "partial" ELSE "succeeded"
    /\ savedReady' = readyQueue
    /\ mpc' = "ending"
    /\ UNCHANGED <<graphVars, schedVars, execVars, workerVars, eventVars, commandVars,
                   dispVars, resumes>>

(* The consumer drops the generator before its end (GeneratorExit): the    *)
(* finally clause sets the dispatcher's stop flag.                         *)
Close ==
    /\ mpc = "running" /\ dpc # "done"
    /\ dispatcherStop' = TRUE
    /\ result' = "closed"
    /\ mpc' = "ending"
    /\ UNCHANGED <<graphVars, schedVars, execVars, workerVars, eventVars, commandVars,
                   dpc, after, sawPause, savedReady, resumes>>

(* _stop_execution: the dispatcher was joined, or the join timed out; the  *)
(* workers are told to stop.                                               *)
StopExecution ==
    /\ mpc = "ending"
    /\ workersStop' = TRUE
    /\ dispatcherStop' = TRUE
    /\ mpc' = "stopped"
    /\ UNCHANGED <<graphVars, schedVars, execVars, wpc, held, eventVars, commandVars,
                   dpc, after, sawPause, result, savedReady, resumes>>

(* A new engine is built from the snapshot of a paused run: the execution, *)
(* the graph states, the paused and deferred nodes and the ready queue are *)
(* restored; the executing set, the event queue and the threads are new.   *)
Resume ==
    /\ mpc = "stopped" /\ result = "paused" /\ resumes < MaxResumes
    /\ resumes' = resumes + 1
    /\ readyQueue' = savedReady /\ executing' = {}
    /\ wpc' = [w \in Workers |-> "get"] /\ held' = [w \in Workers |-> NoNode]
    /\ workersStop' = FALSE
    /\ eventQueue' = <<>> /\ batch' = <<>>
    /\ dpc' = "off" /\ sawPause' = FALSE /\ dispatcherStop' = FALSE
    /\ mpc' = "new" /\ result' = "none"
    /\ UNCHANGED <<graphVars, pausedNodes, deferredNodes, execVars, collected, channel, sent,
                   after, savedReady>>
-----------------------------------------------------------------------------
(* Dispatcher._process_commands and CommandProcessor *)

(* Where _dispatcher_loop goes on after a poll. *)
AfterPoll == IF after = "exit" THEN (IF sawPause THEN "idle" ELSE "drain") ELSE after

(* fetch_commands drains the channel. *)
PollCommands ==
    /\ dpc = "poll"
    /\ batch' = channel /\ channel' = <<>>
    /\ dpc' = IF channel = <<>> THEN AfterPoll ELSE "handle"
    /\ UNCHANGED <<graphVars, schedVars, execVars, workerVars, eventVars, sent,
                   after, sawPause, dispatcherStop, callerVars>>

(* GraphExecution.abort overwrites the error. *)
Abort == aborted' = TRUE /\ error' = "abort" /\ UNCHANGED paused

(* GraphExecution.pause raises when completed or aborted; the command      *)
(* processor logs the exception and goes on.                               *)
MayPause == ~completed /\ ~aborted
Pause == paused' = (paused \/ MayPause) /\ UNCHANGED <<aborted, error>>

HandleCommand ==
    /\ dpc = "handle" /\ batch # <<>>
    /\ IF Head(batch) = "abort" THEN Abort ELSE Pause
    /\ batch' = Tail(batch)
    /\ dpc' = IF Tail(batch) = <<>> THEN AfterPoll ELSE "handle"
    /\ UNCHANGED <<graphVars, schedVars, started, completed, exceptionsCount, retryCount,
                   workerVars, eventVars, channel, sent, after, sawPause, dispatcherStop, callerVars>>

-----------------------------------------------------------------------------
(* Dispatcher._dispatcher_loop *)

IsExecutionComplete == executing = {} /\ \A n \in Nodes : readyQueue[n] = 0

(* ExecutionCoordinator.aborted *)
Stopping == dispatcherStop \/ aborted \/ error # "none" \/ IsExecutionComplete

(* The main loop breaks; commands are polled once more. *)
LeaveLoop ==
    /\ dpc = "loop"
    /\ Stopping \/ paused
    /\ sawPause' = ~Stopping
    /\ dpc' = "poll" /\ after' = "exit"
    /\ UNCHANGED <<graphVars, schedVars, execVars, workerVars, eventVars, commandVars,
                   dispatcherStop, callerVars>>

(* _drain_events_until_idle ends: stopped, or the queue is empty and       *)
(* nothing executes.                                                       *)
LeaveIdle ==
    /\ dpc = "idle"
    /\ dispatcherStop \/ (eventQueue = <<>> /\ executing = {})
    /\ dpc' = "drain"
    /\ UNCHANGED <<graphVars, schedVars, execVars, workerVars, eventVars, commandVars,
                   after, sawPause, dispatcherStop, callerVars>>

(* _drain_event_queue found the queue empty. *)
LeaveDrain ==
    /\ dpc = "drain" /\ eventQueue = <<>>
    /\ dpc' = "finish"
    /\ UNCHANGED <<graphVars, schedVars, execVars, workerVars, eventVars, commandVars,
                   after, sawPause, dispatcherStop, callerVars>>

(* The finally clause: ExecutionCoordinator.mark_complete, then the event  *)
(* emitter is told that no more events come.                               *)
MarkComplete ==
    /\ dpc = "finish"
    /\ completed' = (completed \/ ~paused)
    /\ dpc' = "done"
    /\ UNCHANGED <<graphVars, schedVars, started, aborted, paused, error, exceptionsCount,
                   retryCount, workerVars, eventVars, commandVars, after, sawPause,
                   dispatcherStop, callerVars>>

(* The dispatcher takes the next event, in its main loop or in a drain. *)
MayReceive ==
    /\ eventQueue # <<>>
    /\ \/ dpc = "loop" /\ ~Stopping /\ ~paused
       \/ dpc = "idle" /\ ~dispatcherStop
       \/ dpc = "drain"

(* Commands are polled after result events (not in the last drain). *)
CommandTrigger(ev) == ev.kind \in {"succeeded", "failed"}

Receive(ev) ==
    /\ MayReceive
    /\ ev = Head(eventQueue)
    /\ eventQueue' = Tail(eventQueue)
    /\ IF CommandTrigger(ev) /\ dpc # "drain"
       THEN dpc' = "poll" /\ after' = dpc
       ELSE UNCHANGED <<dpc, after>>
    /\ UNCHANGED <<started, aborted, workerVars, commandVars, sawPause, dispatcherStop, callerVars>>

collect(n, kind) == collected' = [collected EXCEPT ![n] = Append(@, kind)]
-----------------------------------------------------------------------------
(* EventHandler: one action per kind of event and per outcome of the error *)
(* handler.                                                                *)

(* Only the first attempt of a node is visible; retries start silently. *)
HandleStarted(ev) ==
    /\ ev.kind = "started" /\ Receive(ev)
    /\ IF retryCount[ev.node] = 0 THEN collect(ev.node, "started") ELSE UNCHANGED collected
    /\ UNCHANGED <<graphVars, schedVars, completed, paused, error, exceptionsCount, retryCount>>

(* Mutant of ScheduledBy: a node that is deferred is enqueued all the same. *)
MutantDeferredToo(woken, ready, defer) == woken \union ready

(* The skip propagator enqueues the nodes it wakes itself; the ready heads *)
(* of taken edges are deferred or enqueued.                                *)
ScheduledBy(woken, ready, defer) == woken \union (IF defer THEN {} ELSE ready)

(* enqueue_node and mark_node_skipped *)
MarkNodes(queued, dropped) ==
    LET skipped == SkippedNodes(mark_edges_skipped(edgeState, dropped))
    IN  [m \in Nodes |-> IF m \in queued THEN "taken"
                         ELSE IF m \in skipped THEN "skipped" ELSE nodeState[m]]

(* The graph moves on past node n: of its outgoing edges `chosen` are      *)
(* taken and, at a branch, the others are skipped.  Node n is no longer    *)
(* executing.                                                              *)
Advance(n, chosen, defer) ==
    LET dropped == IF n \in Branch THEN get_outgoing_edges(n) \ chosen ELSE {}
        ready   == ReadyAfter(edgeState, dropped, chosen)
    IN  \E queued \in {ScheduledBy(WokenBySkip(edgeState, dropped), ready, defer)} :
           /\ edgeState' = EdgesAfter(edgeState, dropped, chosen)
           /\ nodeState' = MarkNodes(queued, dropped)
           /\ readyQueue' = enqueue_nodes(queued)
           /\ executing' = start_execution(queued) \ {n}
           /\ deferredNodes' = IF defer THEN register_deferred_node(ready) ELSE deferredNodes
           /\ UNCHANGED pausedNodes

HandleSucceeded(ev) ==
    /\ ev.kind = "succeeded" /\ Receive(ev)
    /\ Advance(ev.node,
               IF ev.node \in Branch THEN SelectedEdges(ev.node, ev.handle)
                                     ELSE get_outgoing_edges(ev.node),
               paused)
    /\ collect(ev.node, "succeeded")
    /\ UNCHANGED <<completed, paused, error, exceptionsCount, retryCount>>

(* The node will run again when the run is resumed. *)
HandlePauseRequested(ev) ==
    /\ ev.kind = "pause" /\ MayPause /\ Receive(ev)
    /\ paused' = TRUE
    /\ executing' = finish_execution(ev.node)
    /\ nodeState' = [nodeState EXCEPT ![ev.node] = "unknown"]
    /\ pausedNodes' = register_paused_node(ev.node)
    /\ collect(ev.node, "pause")
    /\ UNCHANGED <<edgeState, readyQueue, deferredNodes, completed, error, exceptionsCount, retryCount>>

(* ErrorHandler.handle_node_failure tries a retry before the strategy. *)
MayRetry(n) == retryCount[n] < MaxRetries[n]

HandleRetry(ev) ==
    /\ ev.kind = "failed" /\ MayRetry(ev.node) /\ Receive(ev)
    /\ record_node_failure
    /\ retryCount' = [retryCount EXCEPT ![ev.node] = @ + 1]
    /\ nodeState' = [nodeState EXCEPT ![ev.node] = "taken"]
    /\ readyQueue' = enqueue_nodes({ev.node})
    /\ executing' = start_execution({ev.node})
    /\ collect(ev.node, "retry")
    /\ UNCHANGED <<edgeState, pausedNodes, deferredNodes, completed, paused, error>>

(* No strategy: the run fails. *)
HandleFatal(ev) ==
    /\ ev.kind = "failed" /\ ~MayRetry(ev.node) /\ ErrorStrategy[ev.node] = "none"
    /\ Receive(ev)
    /\ record_node_failure
    /\ error' = "node" /\ completed' = TRUE
    /\ executing' = finish_execution(ev.node)
    /\ collect(ev.node, "failed")
    /\ UNCHANGED <<graphVars, readyQueue, pausedNodes, deferredNodes, paused, retryCount>>

(* A default value replaces the outputs, or the fail branch is taken.  The *)
(* handler of NodeRunExceptionEvent does not look at the pause flag.       *)
HandleException(ev) ==
    /\ ev.kind = "failed" /\ ~MayRetry(ev.node)
    /\ \/ ErrorStrategy[ev.node] = "fail-branch"
       \/ ErrorStrategy[ev.node] = "default-value" /\ ev.node \notin Branch
    /\ Receive(ev)
    /\ record_node_failure
    /\ Advance(ev.node,
               IF ev.node \in Branch THEN SelectedEdges(ev.node, "fail-branch")
                                     ELSE get_outgoing_edges(ev.node),
               FALSE)
    /\ collect(ev.node, "exception")
    /\ UNCHANGED <<completed, paused, error, retryCount>>

(* A handler raises: a pause is requested after the run completed or was   *)
(* aborted, or a branch node falls back on a default value and therefore   *)
(* selects no edge.  The loop is left for good through mark_failed.        *)
HandlerRaises(ev) ==
    /\ MayReceive /\ ev = Head(eventQueue)
    /\ \/ ev.kind = "pause" /\ ~MayPause /\ UNCHANGED exceptionsCount
       \/ /\ ev.kind = "failed" /\ ~MayRetry(ev.node)
          /\ ErrorStrategy[ev.node] = "default-value" /\ ev.node \in Branch
          /\ record_node_failure
    /\ eventQueue' = Tail(eventQueue)
    /\ error' = "internal" /\ completed' = TRUE
    /\ dpc' = "finish"
    /\ UNCHANGED <<graphVars, schedVars, started, aborted, paused, retryCount, workerVars,
                   collected, commandVars, after, sawPause, dispatcherStop, callerVars>>

Handle(ev) ==
    \/ HandleStarted(ev)
    \/ HandleSucceeded(ev)
    \/ HandlePauseRequested(ev)
    \/ HandleRetry(ev)
    \/ HandleFatal(ev)
    \/ HandleException(ev)
    \/ HandlerRaises(ev)

-----------------------------------------------------------------------------
Worker(w) == (\E n \in Nodes : WorkerTake(w, n)) \/ WorkerBegin(w) \/ WorkerFinish(w) \/ WorkerExit(w)

Dispatcher ==
    \/ PollCommands \/ HandleCommand \/ LeaveLoop \/ LeaveIdle \/ LeaveDrain \/ MarkComplete
    \/ eventQueue # <<>> /\ Handle(Head(eventQueue))

Caller == Run \/ ReportResult \/ StopExecution

Environment == (\E c \in Commands : SendCommand(c)) \/ Close \/ Resume

Next == (\E w \in Workers : Worker(w)) \/ Dispatcher \/ Caller \/ Environment

Spec == Init /\ [][Next]_vars

(* Every thread is scheduled and every node run ends; nobody has to send a *)
(* command, close the generator or resume a paused run.                    *)
Fairness ==
    /\ \A w \in Workers : WF_vars(Worker(w))
    /\ WF_vars(Dispatcher)
    /\ WF_vars(Caller)

FairSpec == Spec /\ Fairness

-----------------------------------------------------------------------------
(* Vocabulary of the properties *)

(* Nodes that nothing starts and nothing skips: the entries of iterations  *)
(* and loops, unconnected nodes.  What lies behind them stays undecided.   *)
Strays == {n \in Nodes \ ({Root} \union InactiveRoots) : get_incoming_edges(n) = {}}
Stuck == Downstream(Strays)

ResultPending(n) ==
    \E i \in DOMAIN eventQueue : eventQueue[i].node = n /\ eventQueue[i].kind \in ResultKinds
Running(n) == \E w \in Workers : held[w] = n
InFlight(n) == readyQueue[n] > 0 \/ Running(n) \/ ResultPending(n)

HasLogged(n, kinds) == \E i \in DOMAIN collected[n] : collected[n][i] \in kinds
Done(n) == HasLogged(n, {"succeeded", "exception"})

(* A node is never in two places at once: it is queued once, or run by one *)
(* worker, or its one result waits to be handled.  Two workers never run   *)
(* the same node, whatever retries, joins and resumptions do.              *)
OneRunAtATime ==
    \A n \in Nodes :
        /\ readyQueue[n] <= 1
        /\ readyQueue[n] = 1 => ~Running(n) /\ ~ResultPending(n)
        /\ Running(n) => ~ResultPending(n)
        /\ \A v, w \in Workers : held[v] = n /\ held[w] = n => v = w
        /\ \A x, y \in DOMAIN eventQueue :
              /\ eventQueue[x].node = n /\ eventQueue[x].kind \in ResultKinds
              /\ eventQueue[y].node = n /\ eventQueue[y].kind \in ResultKinds
              => x = y

(* The executing set, by which the dispatcher recognises the end of a run  *)
(* and the end of a pause drain, is exactly the set of nodes in flight: a  *)
(* node missing from it would end the run early, a node left in it would   *)
(* keep the dispatcher waiting for ever.  It is consulted as long as the   *)
(* run is not aborted and has not failed, or failed while the dispatcher   *)
(* drains for a pause.  (A run that failed and is resumed nevertheless may *)
(* have nodes in its ready queue that the new set does not contain.)       *)
TrackedWork ==
    ~aborted /\ (error = "none" \/ (error = "node" /\ sawPause)) =>
        \A n \in Nodes : InFlight(n) <=> n \in executing

(* A run that reports success has done all its work: nothing is still in   *)
(* flight, and every node completed or lies on a branch that was not       *)
(* taken, except exactly the nodes behind a node that nothing starts: a    *)
(* join of such a path and of the run never runs, and the run succeeds.    *)
SuccessMeansAllDone ==
    result \in {"succeeded", "partial"} =>
        \A n \in Nodes :
            /\ ~InFlight(n)
            /\ (Done(n) \/ nodeState[n] = "skipped") <=> n \notin Stuck

(* A pause forgets nothing: when it is reported (and the run has not also  *)
(* failed) no node is in flight, and every node that could run but has not *)
(* completed is recorded for the resumption.  (A node without incoming     *)
(* edges that nothing starts counts as ready and is not recorded.)         *)
NothingForgottenAtPause ==
    result = "paused" /\ error = "none" =>
        \A n \in Nodes :
            /\ ~InFlight(n)
            /\ is_node_ready(edgeState, n) /\ nodeState[n] # "skipped" /\ ~Done(n) /\ n \notin Strays
               => n \in pausedNodes \union deferredNodes

(* A join waits for everything: a node that is queued, run, paused or      *)
(* deferred has no undecided incoming edge, and the source of each taken   *)
(* incoming edge completed before.                                         *)
RunsOnlyWhenReady ==
    \A n \in Nodes :
        InFlight(n) \/ n \in pausedNodes \union deferredNodes =>
            /\ \A e \in get_incoming_edges(n) :
                  edgeState[e] = "skipped" \/ (edgeState[e] = "taken" /\ Done(tail[e]))
            /\ get_incoming_edges(n) = {} \/ HasTaken(edgeState, n)

(* Completion is final: after a node succeeded, failed for good or ended   *)
(* by its error strategy, no further event of that node reaches the        *)
(* consumer, through retries, pauses and resumptions alike.                *)
CompletionIsLast ==
    \A n \in Nodes : \A i \in DOMAIN collected[n] :
        collected[n][i] \in {"succeeded", "exception", "failed"} => i = Len(collected[n])

(* A decided edge is never decided again. *)
EdgesDecidedOnce ==
    [][\A e \in Edges : edgeState[e] # "unknown" => edgeState'[e] = edgeState[e]]_vars

(* Every run that is started comes to an end: it reports a result or is    *)
(* closed, and its workers are told to stop.                               *)
EveryRunEnds == (mpc = "running") ~> (mpc = "stopped")
=============================================================================
