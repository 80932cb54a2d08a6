------------------------ MODULE GraphEngine_proofs ------------------------
(* The engine, for every acyclic graph, node configuration and number of   *)
(* workers, commands and resumptions.                                      *)
(*                                                                         *)
(* Part 1: types and safety.  A node is in one place at a time, a join     *)
(* waits for its incoming edges, and a decided edge stays decided.         *)
(* Part 2: the work of a run is neither lost nor repeated.  The executing  *)
(* set is the set of nodes in flight, a successful run has done all its    *)
(* work, a pause forgets nothing, and completion is final.                 *)
(* What the completion of a node does to the states of edges is the matter *)
(* of GraphStates_proofs.                                                  *)
EXTENDS GraphEngine, GraphStates_proofs, SequenceTheorems

-----------------------------------------------------------------------------
(* Part 1 *)

-----------------------------------------------------------------------------
(* Type correctness *)

(* Type correctness is inductive once it is known that a worker holds a    *)
(* node exactly while it runs one.                                         *)
HeldTypes == \A w \in Workers : wpc[w] \in {"taken", "begun"} <=> held[w] # NoNode
TypeInv == TypeOK /\ HeldTypes

(* Every event belongs to a node. *)
LEMMA EventFacts == \A ev \in Event : ev.node \in Nodes
BY DEF Event

(* What a node may end with is an event. *)
LEMMA OutcomeTypes == ASSUME NEW n \in Nodes PROVE Outcomes(n) \subseteq Event
<1>1. Reports[n] \subseteq AllHandles
  BY DEF AllHandles
<1> QED
  BY <1>1 DEF Outcomes, Event

(* Receiving an event takes the head of the queue and may lead to a poll. *)
LEMMA ReceiveTypes ==
    ASSUME QueueTypes, ThreadTypes, NEW ev \in Event, Receive(ev)
    PROVE  /\ eventQueue' \in Seq(Event)
           /\ dpc' \in {"off", "poll", "handle", "loop", "idle", "drain", "finish", "done"}
           /\ after' \in {"loop", "idle", "exit"}
<1>1. eventQueue # <<>> /\ eventQueue' = Tail(eventQueue)
  BY DEF Receive, MayReceive
<1>2. eventQueue' \in Seq(Event)
  BY <1>1, HeadTailProperties DEF QueueTypes
<1>3. dpc \in {"loop", "idle", "drain"}
  BY DEF Receive, MayReceive
<1>4. \/ dpc' = "poll" /\ after' = dpc /\ dpc # "drain"
      \/ dpc' = dpc /\ after' = after
  BY DEF Receive
<1> QED
  BY <1>2, <1>3, <1>4 DEF ThreadTypes

LEMMA CollectTypes ==
    ASSUME QueueTypes, NEW n \in Nodes, NEW k \in LogKinds, collect(n, k)
    PROVE  collected' \in [Nodes -> Seq(LogKinds)]
<1>1. collected[n] \in Seq(LogKinds)
  BY DEF QueueTypes
<1>2. Append(collected[n], k) \in Seq(LogKinds)
  BY <1>1, AppendProperties
<1> QED
  BY <1>2 DEF QueueTypes, collect

(* Moving the graph on keeps states and schedules well typed. *)
LEMMA AdvanceTypes ==
    ASSUME GraphTypes, NEW n \in Nodes, NEW chosen, chosen \subseteq Edges, NEW defer,
           Advance(n, chosen, defer)
    PROVE  /\ nodeState' \in [Nodes -> State] /\ edgeState' \in [Edges -> State]
           /\ readyQueue' \in [Nodes -> Nat] /\ executing' \subseteq Nodes
           /\ pausedNodes' \subseteq Nodes /\ deferredNodes' \subseteq Nodes
<1> USE DEF GraphTypes
<1> DEFINE dropped == IF n \in Branch THEN get_outgoing_edges(n) \ chosen ELSE {}
           woken   == WokenBySkip(edgeState, dropped)
           ready   == ReadyAfter(edgeState, dropped, chosen)
           queued  == ScheduledBy(woken, ready, defer)
<1>1. woken \subseteq Nodes
  BY DEF WokenBySkip
<1>2. ready \subseteq Nodes
  BY GraphAssumption DEF ReadyAfter
<1>3. queued \subseteq Nodes
  BY <1>1, <1>2 DEF ScheduledBy
<1>4. edgeState' = EdgesAfter(edgeState, dropped, chosen) /\ nodeState' = MarkNodes(queued, dropped)
  BY DEF Advance
<1>5. /\ readyQueue' = enqueue_nodes(queued)
      /\ executing' = start_execution(queued) \ {n}
      /\ deferredNodes' = deferredNodes \/ deferredNodes' = deferredNodes \union ready
      /\ pausedNodes' = pausedNodes
  BY DEF Advance, register_deferred_node
<1> HIDE DEF dropped, woken, ready, queued
<1>6. nodeState' \in [Nodes -> State]
  BY <1>4 DEF MarkNodes, State
<1>7. edgeState' \in [Edges -> State]
  BY <1>4 DEF EdgesAfter, mark_edges_taken, skip_branch_paths, mark_edges_skipped, State
<1>8. readyQueue' \in [Nodes -> Nat]
  BY <1>5 DEF enqueue_nodes
<1> QED
  BY <1>2, <1>3, <1>5, <1>6, <1>7, <1>8 DEF start_execution

LEMMA TypeInit == Init => TypeInv
<1> SUFFICES ASSUME Init PROVE TypeInv
  OBVIOUS
<1>1. FlagTypes
  BY DEF Init, FlagTypes
<1>2. GraphTypes
  BY DEF Init, GraphTypes, State, skip_branch_paths, mark_edges_skipped
<1>3. ThreadTypes
  BY DEF Init, ThreadTypes, Errors
<1>4. QueueTypes
  BY EmptySeq DEF Init, QueueTypes
<1>5. HeldTypes
  BY DEF Init, HeldTypes
<1> QED
  BY <1>1, <1>2, <1>3, <1>4, <1>5 DEF TypeInv, TypeOK

LEMMA TypeStep == TypeInv /\ [Next]_vars => TypeInv'
<1> SUFFICES ASSUME TypeInv, [Next]_vars PROVE TypeInv'
  OBVIOUS
<1> USE NodeAssumption DEF TypeInv, TypeOK, HeldTypes,
        vars, graphVars, schedVars, execVars, workerVars, eventVars,
        commandVars, dispVars, callerVars
<1>1. ASSUME NEW w \in Workers, NEW n \in Nodes, WorkerTake(w, n) PROVE TypeInv'
  <2>1. FlagTypes'
    BY <1>1 DEF WorkerTake, FlagTypes
  <2>2. GraphTypes'
    BY <1>1 DEF WorkerTake, GraphTypes
  <2>3. ThreadTypes'
    BY <1>1 DEF WorkerTake, ThreadTypes
  <2>4. QueueTypes'
    BY <1>1 DEF WorkerTake, QueueTypes
  <2>5. HeldTypes'
    BY <1>1 DEF WorkerTake, ThreadTypes
  <2> QED
    BY <2>1, <2>2, <2>3, <2>4, <2>5
<1>2. ASSUME NEW w \in Workers, WorkerBegin(w) PROVE TypeInv'
  <2>1. FlagTypes'
    BY <1>2 DEF WorkerBegin, FlagTypes
  <2>2. GraphTypes'
    BY <1>2 DEF WorkerBegin, GraphTypes
  <2>3. ThreadTypes'
    BY <1>2 DEF WorkerBegin, ThreadTypes
  <2>4. QueueTypes'
    <3>1. held[w] \in Nodes
      BY <1>2 DEF WorkerBegin, ThreadTypes
    <3>2. [node |-> held[w], kind |-> "started"] \in Event
      BY <3>1 DEF Event
    <3> QED
      BY <1>2, <3>2, AppendProperties DEF WorkerBegin, QueueTypes
  <2>5. HeldTypes'
    BY <1>2 DEF WorkerBegin, ThreadTypes
  <2> QED
    BY <2>1, <2>2, <2>3, <2>4, <2>5
<1>3. ASSUME NEW w \in Workers, WorkerFinish(w) PROVE TypeInv'
  <2>1. FlagTypes'
    BY <1>3 DEF WorkerFinish, FlagTypes
  <2>2. GraphTypes'
    BY <1>3 DEF WorkerFinish, GraphTypes
  <2>3. ThreadTypes'
    BY <1>3 DEF WorkerFinish, ThreadTypes
  <2>4. QueueTypes'
    <3>1. PICK e \in Outcomes(held[w]) : eventQueue' = Append(eventQueue, e)
      BY <1>3 DEF WorkerFinish
    <3>2. held[w] \in Nodes
      BY <1>3 DEF WorkerFinish, ThreadTypes
    <3>3. e \in Event
      BY <3>1, <3>2, OutcomeTypes
    <3> QED
      BY <1>3, <3>1, <3>3, AppendProperties DEF WorkerFinish, QueueTypes
  <2>5. HeldTypes'
    BY <1>3 DEF WorkerFinish, ThreadTypes
  <2> QED
    BY <2>1, <2>2, <2>3, <2>4, <2>5
<1>4. ASSUME NEW w \in Workers, WorkerExit(w) PROVE TypeInv'
  <2>1. FlagTypes'
    BY <1>4 DEF WorkerExit, FlagTypes
  <2>2. GraphTypes'
    BY <1>4 DEF WorkerExit, GraphTypes
  <2>3. ThreadTypes'
    BY <1>4 DEF WorkerExit, ThreadTypes
  <2>4. QueueTypes'
    BY <1>4 DEF WorkerExit, QueueTypes
  <2>5. HeldTypes'
    BY <1>4 DEF WorkerExit, ThreadTypes
  <2> QED
    BY <2>1, <2>2, <2>3, <2>4, <2>5
<1>5. ASSUME NEW c \in Commands, SendCommand(c) PROVE TypeInv'
  <2>1. FlagTypes'
    BY <1>5 DEF SendCommand, FlagTypes
  <2>2. GraphTypes'
    BY <1>5 DEF SendCommand, GraphTypes
  <2>3. ThreadTypes'
    BY <1>5 DEF SendCommand, ThreadTypes
  <2>4. QueueTypes'
    BY <1>5 DEF SendCommand, QueueTypes
  <2>5. HeldTypes'
    BY <1>5 DEF SendCommand, ThreadTypes
  <2> QED
    BY <2>1, <2>2, <2>3, <2>4, <2>5
<1>6. ASSUME Run PROVE TypeInv'
  <2>1. FlagTypes'
    BY <1>6 DEF Run, FlagTypes
  <2>2. GraphTypes'
    BY <1>6, GraphAssumption DEF Run, GraphTypes, enqueue_nodes, start_execution, NodesToStart, State
  <2>3. ThreadTypes'
    BY <1>6 DEF Run, ThreadTypes
  <2>4. QueueTypes'
    BY <1>6 DEF Run, QueueTypes
  <2>5. HeldTypes'
    BY <1>6 DEF Run, ThreadTypes
  <2> QED
    BY <2>1, <2>2, <2>3, <2>4, <2>5
<1>7. ASSUME ReportResult PROVE TypeInv'
  <2>1. FlagTypes'
    BY <1>7 DEF ReportResult, FlagTypes
  <2>2. GraphTypes'
    BY <1>7 DEF ReportResult, GraphTypes
  <2>3. ThreadTypes'
    BY <1>7 DEF ReportResult, ThreadTypes
  <2>4. QueueTypes'
    BY <1>7 DEF ReportResult, QueueTypes
  <2>5. HeldTypes'
    BY <1>7 DEF ReportResult, ThreadTypes
  <2> QED
    BY <2>1, <2>2, <2>3, <2>4, <2>5
<1>8. ASSUME Close PROVE TypeInv'
  <2>1. FlagTypes'
    BY <1>8 DEF Close, FlagTypes
  <2>2. GraphTypes'
    BY <1>8 DEF Close, GraphTypes
  <2>3. ThreadTypes'
    BY <1>8 DEF Close, ThreadTypes
  <2>4. QueueTypes'
    BY <1>8 DEF Close, QueueTypes
  <2>5. HeldTypes'
    BY <1>8 DEF Close, ThreadTypes
  <2> QED
    BY <2>1, <2>2, <2>3, <2>4, <2>5
<1>9. ASSUME StopExecution PROVE TypeInv'
  <2>1. FlagTypes'
    BY <1>9 DEF StopExecution, FlagTypes
  <2>2. GraphTypes'
    BY <1>9 DEF StopExecution, GraphTypes
  <2>3. ThreadTypes'
    BY <1>9 DEF StopExecution, ThreadTypes
  <2>4. QueueTypes'
    BY <1>9 DEF StopExecution, QueueTypes
  <2>5. HeldTypes'
    BY <1>9 DEF StopExecution, ThreadTypes
  <2> QED
    BY <2>1, <2>2, <2>3, <2>4, <2>5
<1>10. ASSUME Resume PROVE TypeInv'
  <2>1. FlagTypes'
    BY <1>10 DEF Resume, FlagTypes
  <2>2. GraphTypes'
    BY <1>10 DEF Resume, GraphTypes
  <2>3. ThreadTypes'
    BY <1>10 DEF Resume, ThreadTypes
  <2>4. QueueTypes'
    BY <1>10 DEF Resume, QueueTypes
  <2>5. HeldTypes'
    BY <1>10 DEF Resume, ThreadTypes
  <2> QED
    BY <2>1, <2>2, <2>3, <2>4, <2>5
<1>11. ASSUME PollCommands PROVE TypeInv'
  <2>1. FlagTypes'
    BY <1>11 DEF PollCommands, FlagTypes
  <2>2. GraphTypes'
    BY <1>11 DEF PollCommands, GraphTypes
  <2>3. ThreadTypes'
    BY <1>11 DEF PollCommands, ThreadTypes, AfterPoll
  <2>4. QueueTypes'
    BY <1>11 DEF PollCommands, QueueTypes
  <2>5. HeldTypes'
    BY <1>11 DEF PollCommands, ThreadTypes
  <2> QED
    BY <2>1, <2>2, <2>3, <2>4, <2>5
<1>12. ASSUME HandleCommand PROVE TypeInv'
  <2>1. FlagTypes'
    BY <1>12 DEF HandleCommand, FlagTypes, Abort, Pause
  <2>2. GraphTypes'
    BY <1>12 DEF HandleCommand, GraphTypes
  <2>3. ThreadTypes'
    BY <1>12 DEF HandleCommand, ThreadTypes, AfterPoll, Abort, Pause, Errors
  <2>4. QueueTypes'
    BY <1>12, HeadTailProperties DEF HandleCommand, QueueTypes
  <2>5. HeldTypes'
    BY <1>12 DEF HandleCommand, ThreadTypes
  <2> QED
    BY <2>1, <2>2, <2>3, <2>4, <2>5
<1>13. ASSUME LeaveLoop PROVE TypeInv'
  <2>1. FlagTypes'
    BY <1>13 DEF LeaveLoop, FlagTypes
  <2>2. GraphTypes'
    BY <1>13 DEF LeaveLoop, GraphTypes
  <2>3. ThreadTypes'
    BY <1>13 DEF LeaveLoop, ThreadTypes
  <2>4. QueueTypes'
    BY <1>13 DEF LeaveLoop, QueueTypes
  <2>5. HeldTypes'
    BY <1>13 DEF LeaveLoop, ThreadTypes
  <2> QED
    BY <2>1, <2>2, <2>3, <2>4, <2>5
<1>14. ASSUME LeaveIdle PROVE TypeInv'
  <2>1. FlagTypes'
    BY <1>14 DEF LeaveIdle, FlagTypes
  <2>2. GraphTypes'
    BY <1>14 DEF LeaveIdle, GraphTypes
  <2>3. ThreadTypes'
    BY <1>14 DEF LeaveIdle, ThreadTypes
  <2>4. QueueTypes'
    BY <1>14 DEF LeaveIdle, QueueTypes
  <2>5. HeldTypes'
    BY <1>14 DEF LeaveIdle, ThreadTypes
  <2> QED
    BY <2>1, <2>2, <2>3, <2>4, <2>5
<1>15. ASSUME LeaveDrain PROVE TypeInv'
  <2>1. FlagTypes'
    BY <1>15 DEF LeaveDrain, FlagTypes
  <2>2. GraphTypes'
    BY <1>15 DEF LeaveDrain, GraphTypes
  <2>3. ThreadTypes'
    BY <1>15 DEF LeaveDrain, ThreadTypes
  <2>4. QueueTypes'
    BY <1>15 DEF LeaveDrain, QueueTypes
  <2>5. HeldTypes'
    BY <1>15 DEF LeaveDrain, ThreadTypes
  <2> QED
    BY <2>1, <2>2, <2>3, <2>4, <2>5
<1>16. ASSUME MarkComplete PROVE TypeInv'
  <2>1. FlagTypes'
    BY <1>16 DEF MarkComplete, FlagTypes
  <2>2. GraphTypes'
    BY <1>16 DEF MarkComplete, GraphTypes
  <2>3. ThreadTypes'
    BY <1>16 DEF MarkComplete, ThreadTypes
  <2>4. QueueTypes'
    BY <1>16 DEF MarkComplete, QueueTypes
  <2>5. HeldTypes'
    BY <1>16 DEF MarkComplete, ThreadTypes
  <2> QED
    BY <2>1, <2>2, <2>3, <2>4, <2>5
<1>17. ASSUME NEW ev \in Event, HandleStarted(ev) PROVE TypeInv'
  <2>1. FlagTypes'
    BY <1>17 DEF HandleStarted, FlagTypes, Receive
  <2>2. GraphTypes'
    BY <1>17, EventFacts DEF HandleStarted, GraphTypes, Receive
  <2>3. ThreadTypes'
    BY <1>17, ReceiveTypes DEF HandleStarted, ThreadTypes, Receive, Errors
  <2>4. QueueTypes'
    BY <1>17, EventFacts, ReceiveTypes, CollectTypes DEF HandleStarted, QueueTypes, Receive, LogKinds, ResultKinds
  <2>5. HeldTypes'
    BY <1>17 DEF HandleStarted, Receive, ThreadTypes
  <2> QED
    BY <2>1, <2>2, <2>3, <2>4, <2>5
<1>18. ASSUME NEW ev \in Event, HandleSucceeded(ev) PROVE TypeInv'
  <2>1. FlagTypes'
    BY <1>18 DEF HandleSucceeded, FlagTypes, Receive
  <2>2. GraphTypes'
    <3> DEFINE chosen == IF ev.node \in Branch THEN SelectedEdges(ev.node, ev.handle)
                                                ELSE get_outgoing_edges(ev.node)
    <3>1. chosen \subseteq Edges
      BY DEF SelectedEdges, get_outgoing_edges
    <3>2. Advance(ev.node, chosen, paused)
      BY <1>18 DEF HandleSucceeded
    <3>3. exceptionsCount' = exceptionsCount
      BY <1>18 DEF HandleSucceeded, Receive, record_node_failure
    <3>4. exceptionsCount' \in Nat
      BY <3>3 DEF GraphTypes
    <3>5. retryCount' = retryCount /\ savedReady' = savedReady
      BY <1>18 DEF HandleSucceeded, Receive
    <3>6. ev.node \in Nodes
      BY EventFacts
    <3>7. /\ nodeState' \in [Nodes -> State] /\ edgeState' \in [Edges -> State]
          /\ readyQueue' \in [Nodes -> Nat] /\ executing' \subseteq Nodes
          /\ pausedNodes' \subseteq Nodes /\ deferredNodes' \subseteq Nodes
      BY <3>1, <3>2, <3>6, AdvanceTypes
    <3> QED
      BY <3>4, <3>5, <3>7 DEF GraphTypes
  <2>3. ThreadTypes'
    BY <1>18, ReceiveTypes DEF HandleSucceeded, ThreadTypes, Receive, Errors
  <2>4. QueueTypes'
    BY <1>18, EventFacts, ReceiveTypes, CollectTypes DEF HandleSucceeded, QueueTypes, Receive, LogKinds, ResultKinds
  <2>5. HeldTypes'
    BY <1>18 DEF HandleSucceeded, Receive, ThreadTypes
  <2> QED
    BY <2>1, <2>2, <2>3, <2>4, <2>5
<1>19. ASSUME NEW ev \in Event, HandlePauseRequested(ev) PROVE TypeInv'
  <2>1. FlagTypes'
    BY <1>19 DEF HandlePauseRequested, FlagTypes, Receive
  <2>2. GraphTypes'
    BY <1>19, EventFacts DEF HandlePauseRequested, GraphTypes, Receive, finish_execution, register_paused_node, State
  <2>3. ThreadTypes'
    BY <1>19, ReceiveTypes DEF HandlePauseRequested, ThreadTypes, Receive, Errors
  <2>4. QueueTypes'
    BY <1>19, EventFacts, ReceiveTypes, CollectTypes DEF HandlePauseRequested, QueueTypes, Receive, LogKinds, ResultKinds
  <2>5. HeldTypes'
    BY <1>19 DEF HandlePauseRequested, Receive, ThreadTypes
  <2> QED
    BY <2>1, <2>2, <2>3, <2>4, <2>5
<1>20. ASSUME NEW ev \in Event, HandleRetry(ev) PROVE TypeInv'
  <2>1. FlagTypes'
    BY <1>20 DEF HandleRetry, FlagTypes, Receive
  <2>2. GraphTypes'
    BY <1>20, EventFacts DEF HandleRetry, GraphTypes, Receive, record_node_failure, enqueue_nodes, start_execution, State
  <2>3. ThreadTypes'
    BY <1>20, ReceiveTypes DEF HandleRetry, ThreadTypes, Receive, Errors
  <2>4. QueueTypes'
    BY <1>20, EventFacts, ReceiveTypes, CollectTypes DEF HandleRetry, QueueTypes, Receive, LogKinds, ResultKinds
  <2>5. HeldTypes'
    BY <1>20 DEF HandleRetry, Receive, ThreadTypes
  <2> QED
    BY <2>1, <2>2, <2>3, <2>4, <2>5
<1>21. ASSUME NEW ev \in Event, HandleFatal(ev) PROVE TypeInv'
  <2>1. FlagTypes'
    BY <1>21 DEF HandleFatal, FlagTypes, Receive
  <2>2. GraphTypes'
    BY <1>21, EventFacts DEF HandleFatal, GraphTypes, Receive, record_node_failure, finish_execution
  <2>3. ThreadTypes'
    BY <1>21, ReceiveTypes DEF HandleFatal, ThreadTypes, Receive, Errors
  <2>4. QueueTypes'
    BY <1>21, EventFacts, ReceiveTypes, CollectTypes DEF HandleFatal, QueueTypes, Receive, LogKinds, ResultKinds
  <2>5. HeldTypes'
    BY <1>21 DEF HandleFatal, Receive, ThreadTypes
  <2> QED
    BY <2>1, <2>2, <2>3, <2>4, <2>5
<1>22. ASSUME NEW ev \in Event, HandleException(ev) PROVE TypeInv'
  <2>1. FlagTypes'
    BY <1>22 DEF HandleException, FlagTypes, Receive
  <2>2. GraphTypes'
    <3> DEFINE chosen == IF ev.node \in Branch THEN SelectedEdges(ev.node, "fail-branch")
                                                ELSE get_outgoing_edges(ev.node)
    <3>1. chosen \subseteq Edges
      BY DEF SelectedEdges, get_outgoing_edges
    <3>2. Advance(ev.node, chosen, FALSE)
      BY <1>22 DEF HandleException
    <3>3. exceptionsCount' = exceptionsCount + 1
      BY <1>22 DEF HandleException, Receive, record_node_failure
    <3>4. exceptionsCount' \in Nat
      BY <3>3 DEF GraphTypes
    <3>5. retryCount' = retryCount /\ savedReady' = savedReady
      BY <1>22 DEF HandleException, Receive
    <3>6. ev.node \in Nodes
      BY EventFacts
    <3>7. /\ nodeState' \in [Nodes -> State] /\ edgeState' \in [Edges -> State]
          /\ readyQueue' \in [Nodes -> Nat] /\ executing' \subseteq Nodes
          /\ pausedNodes' \subseteq Nodes /\ deferredNodes' \subseteq Nodes
      BY <3>1, <3>2, <3>6, AdvanceTypes
    <3> QED
      BY <3>4, <3>5, <3>7 DEF GraphTypes
  <2>3. ThreadTypes'
    BY <1>22, ReceiveTypes DEF HandleException, ThreadTypes, Receive, Errors
  <2>4. QueueTypes'
    BY <1>22, EventFacts, ReceiveTypes, CollectTypes DEF HandleException, QueueTypes, Receive, LogKinds, ResultKinds
  <2>5. HeldTypes'
    BY <1>22 DEF HandleException, Receive, ThreadTypes
  <2> QED
    BY <2>1, <2>2, <2>3, <2>4, <2>5
<1>23. ASSUME NEW ev \in Event, HandlerRaises(ev) PROVE TypeInv'
  <2>1. FlagTypes'
    BY <1>23 DEF HandlerRaises, FlagTypes
  <2>2. GraphTypes'
    BY <1>23 DEF HandlerRaises, GraphTypes, record_node_failure
  <2>3. ThreadTypes'
    BY <1>23 DEF HandlerRaises, ThreadTypes, Errors
  <2>4. QueueTypes'
    BY <1>23, HeadTailProperties DEF HandlerRaises, QueueTypes, MayReceive
  <2>5. HeldTypes'
    BY <1>23 DEF HandlerRaises, ThreadTypes
  <2> QED
    BY <2>1, <2>2, <2>3, <2>4, <2>5
<1>24. CASE UNCHANGED vars
  BY <1>24 DEF FlagTypes, GraphTypes, ThreadTypes, QueueTypes
<1>25. CASE \E w \in Workers : Worker(w)
  BY <1>1, <1>2, <1>3, <1>4, <1>25 DEF Worker
<1>26. CASE Dispatcher
  <2>1. CASE eventQueue # <<>> /\ Handle(Head(eventQueue))
    <3>1. Head(eventQueue) \in Event
      BY <2>1, HeadTailProperties DEF QueueTypes
    <3> QED
      BY <2>1, <3>1, <1>17, <1>18, <1>19, <1>20, <1>21, <1>22, <1>23 DEF Handle
  <2> QED
    BY <1>26, <2>1, <1>11, <1>12, <1>13, <1>14, <1>15, <1>16 DEF Dispatcher
<1>27. CASE Caller
  BY <1>27, <1>6, <1>7, <1>9 DEF Caller
<1>28. CASE Environment
  BY <1>28, <1>5, <1>8, <1>10 DEF Environment
<1> QED
  BY <1>24, <1>25, <1>26, <1>27, <1>28 DEF Next

(* Type correctness of the engine, for every graph and every bound. *)
THEOREM TypeCorrect == Spec => []TypeOK
<1>1. TypeInv => TypeOK
  BY DEF TypeInv
<1> QED
  BY <1>1, TypeInit, TypeStep, PTL DEF Spec

-----------------------------------------------------------------------------
(* The inductive invariant *)

(* Recorded for the next resumption. *)
Waiting(n) == n \in pausedNodes \union deferredNodes
Active == {n \in Nodes : InFlight(n) \/ Waiting(n)}

OneWorker(n) == \A v, w \in Workers : held[v] = n /\ held[w] = n => v = w
OneResult(n) ==
    \A x, y \in DOMAIN eventQueue :
        /\ eventQueue[x].node = n /\ eventQueue[x].kind \in ResultKinds
        /\ eventQueue[y].node = n /\ eventQueue[y].kind \in ResultKinds
        => x = y

(* Node n is queued once, or run by one worker, or its one result waits,   *)
(* or it waits for a resumption: one of these at most.                     *)
PlaceAt(n) ==
    /\ readyQueue[n] <= 1
    /\ readyQueue[n] = 1 => ~Running(n) /\ ~ResultPending(n)
    /\ Running(n) => ~ResultPending(n)
    /\ OneWorker(n) /\ OneResult(n)
    /\ Waiting(n) => ~InFlight(n)
PlaceInv == \A n \in Nodes : PlaceAt(n)

(* The active nodes agree with the states of the edges, and an edge is     *)
(* taken only after its source completed.                                  *)
EdgeInv ==
    /\ Consistent(edgeState, Active)
    /\ \A e \in Edges : edgeState[e] = "taken" => Done(tail[e])

(* A paused run is frozen, and its snapshot satisfies the same conditions  *)
(* as the running engine, so that a resumption can start from it.          *)
SnapshotInv ==
    /\ mpc \in {"new", "running"} => result = "none"
    /\ result = "paused" =>
          /\ dpc = "done"
          /\ \A n \in Nodes : savedReady[n] <= 1 /\ (savedReady[n] > 0 => ~Waiting(n))
          /\ Consistent(edgeState, {n \in Nodes : savedReady[n] > 0 \/ Waiting(n)})

(* Before the first run nothing is active and the root has not acted. *)
FreshInv ==
    ~started =>
        /\ mpc = "new" /\ Active = {} /\ eventQueue = <<>>
        /\ \A e \in get_outgoing_edges(Root) : edgeState[e] = "unknown"

SafetyInv == PlaceInv /\ EdgeInv /\ SnapshotInv /\ FreshInv

-----------------------------------------------------------------------------
(* Facts about the pieces *)

(* The conditions on edges hold for fewer active nodes as well. *)
LEMMA ConsistentSubset ==
    ASSUME NEW es, NEW A, NEW B, Consistent(es, A), B \subseteq A
    PROVE  Consistent(es, B)
BY DEF Consistent

(* A worker posts an event. *)
LEMMA QueueGrows ==
    ASSUME eventQueue \in Seq(Event), NEW ev \in Event, eventQueue' = Append(eventQueue, ev),
           NEW n
    PROVE  /\ ResultPending(n)' <=> ResultPending(n) \/ (ev.node = n /\ ev.kind \in ResultKinds)
           /\ OneResult(n) /\ ~(ResultPending(n) /\ ev.node = n /\ ev.kind \in ResultKinds)
              => OneResult(n)'
<1>1. /\ eventQueue' \in Seq(Event) /\ Len(eventQueue') = Len(eventQueue) + 1
      /\ \A i \in 1 .. Len(eventQueue) : eventQueue'[i] = eventQueue[i]
      /\ eventQueue'[Len(eventQueue) + 1] = ev
  OBVIOUS
<1>2. DOMAIN eventQueue = 1 .. Len(eventQueue) /\ DOMAIN eventQueue' = 1 .. Len(eventQueue) + 1
      /\ Len(eventQueue) \in Nat
  BY <1>1
<1>3. DOMAIN eventQueue' = DOMAIN eventQueue \union {Len(eventQueue) + 1}
  BY <1>2
<1>4. ResultPending(n)' <=> ResultPending(n) \/ (ev.node = n /\ ev.kind \in ResultKinds)
  BY <1>1, <1>2, <1>3 DEF ResultPending
<1>5. ASSUME OneResult(n), ~(ResultPending(n) /\ ev.node = n /\ ev.kind \in ResultKinds)
      PROVE  OneResult(n)'
  BY <1>1, <1>2, <1>3, <1>5 DEF OneResult, ResultPending
<1> QED
  BY <1>4, <1>5

(* The dispatcher takes an event. *)
LEMMA QueueShrinks ==
    ASSUME eventQueue \in Seq(Event), eventQueue # <<>>, eventQueue' = Tail(eventQueue),
           NEW n
    PROVE  /\ ResultPending(n)' => ResultPending(n)
           /\ OneResult(n) => OneResult(n)'
           /\ Head(eventQueue).kind \in ResultKinds => ResultPending(Head(eventQueue).node)
           /\ OneResult(n) /\ Head(eventQueue).kind \in ResultKinds /\ Head(eventQueue).node = n
              => ~ResultPending(n)'
<1>1. /\ eventQueue' \in Seq(Event) /\ Len(eventQueue') = Len(eventQueue) - 1
      /\ \A i \in 1 .. Len(eventQueue') : eventQueue'[i] = eventQueue[i + 1]
      /\ Head(eventQueue) = eventQueue[1] /\ Len(eventQueue) \in Nat /\ Len(eventQueue) > 0
  OBVIOUS
<1>2. DOMAIN eventQueue = 1 .. Len(eventQueue) /\ DOMAIN eventQueue' = 1 .. Len(eventQueue')
  BY <1>1
<1>3. 1 \in DOMAIN eventQueue
      /\ \A i \in DOMAIN eventQueue' : i + 1 \in DOMAIN eventQueue /\ i + 1 # 1 /\ i \in Nat
                                       /\ eventQueue'[i] = eventQueue[i + 1]
  BY <1>1, <1>2
<1>4. ResultPending(n)' => ResultPending(n)
  BY <1>3 DEF ResultPending
<1>5. OneResult(n) => OneResult(n)'
  <2>1. SUFFICES ASSUME OneResult(n), NEW x \in DOMAIN eventQueue', NEW y \in DOMAIN eventQueue',
                        eventQueue'[x].node = n, eventQueue'[x].kind \in ResultKinds,
                        eventQueue'[y].node = n, eventQueue'[y].kind \in ResultKinds
                 PROVE  x = y
    BY DEF OneResult
  <2>2. x + 1 = y + 1
    BY <1>3, <2>1 DEF OneResult
  <2> QED
    BY <1>3, <2>2
<1>6. Head(eventQueue).kind \in ResultKinds => ResultPending(Head(eventQueue).node)
  BY <1>1, <1>3 DEF ResultPending
<1>7. ASSUME OneResult(n), Head(eventQueue).kind \in ResultKinds, Head(eventQueue).node = n
      PROVE  ~ResultPending(n)'
  <2>1. SUFFICES ASSUME NEW x \in DOMAIN eventQueue', eventQueue'[x].node = n,
                        eventQueue'[x].kind \in ResultKinds
                 PROVE  FALSE
    BY DEF ResultPending
  <2>2. x + 1 = 1
    BY <1>1, <1>3, <1>7, <2>1 DEF OneResult
  <2> QED
    BY <1>3, <2>2
<1> QED
  BY <1>4, <1>5, <1>6, <1>7

(* An event that reaches the consumer leaves the earlier ones in place. *)
LEMMA CollectKeeps ==
    ASSUME QueueTypes, NEW n \in Nodes, NEW k \in LogKinds, collect(n, k)
    PROVE  /\ \A m \in Nodes : Done(m) => Done(m)'
           /\ k \in {"succeeded", "exception"} => Done(n)'
<1>1. \A m \in Nodes : collected[m] \in Seq(LogKinds)
  BY DEF QueueTypes
<1>2. \A m \in Nodes : collected'[m] = IF m = n THEN Append(collected[n], k) ELSE collected[m]
  BY DEF QueueTypes, collect
<1>3. /\ \A i \in DOMAIN collected[n] : i \in DOMAIN collected'[n] /\ collected'[n][i] = collected[n][i]
      /\ Len(collected[n]) + 1 \in DOMAIN collected'[n] /\ collected'[n][Len(collected[n]) + 1] = k
  <2> DEFINE s == collected[n]
  <2>1. s \in Seq(LogKinds) /\ collected'[n] = Append(s, k)
    BY <1>1, <1>2
  <2> HIDE DEF s
  <2>2. /\ Len(s) \in Nat /\ DOMAIN s = 1 .. Len(s) /\ DOMAIN Append(s, k) = 1 .. Len(s) + 1
        /\ \A i \in 1 .. Len(s) : Append(s, k)[i] = s[i]
        /\ Append(s, k)[Len(s) + 1] = k
    BY <2>1
  <2>3. \A i \in DOMAIN s : i \in DOMAIN Append(s, k)
    BY <2>2
  <2>4. Len(s) + 1 \in DOMAIN Append(s, k)
    BY <2>2
  <2> QED
    BY <2>1, <2>2, <2>3, <2>4 DEF s
<1>4. ASSUME NEW m \in Nodes, Done(m) PROVE Done(m)'
  <2>1. CASE m = n
    BY <2>1, <1>3, <1>4 DEF Done, HasLogged
  <2>2. CASE m # n
    BY <2>2, <1>2, <1>4 DEF Done, HasLogged
  <2> QED
    BY <2>1, <2>2
<1>5. k \in {"succeeded", "exception"} => Done(n)'
  BY <1>3 DEF Done, HasLogged
<1> QED
  BY <1>4, <1>5

(* Nothing new is active and no edge changes: the edges still agree. *)
LEMMA EdgesKept ==
    ASSUME EdgeInv, tail \in [Edges -> Nodes], edgeState' = edgeState, Active' \subseteq Active,
           \A n \in Nodes : Done(n) => Done(n)'
    PROVE  EdgeInv'
<1>1. Consistent(edgeState, Active')
  BY ConsistentSubset DEF EdgeInv
<1>2. \A e \in Edges : edgeState[e] = "taken" => Done(tail[e])'
  BY DEF EdgeInv
<1> QED
  BY <1>1, <1>2 DEF EdgeInv

-----------------------------------------------------------------------------
(* Initial states *)

(* Nothing leads to an inactive root, which is not the active one. *)
LEMMA InactiveRootFacts ==
    /\ InactiveRoots \subseteq Nodes /\ Root \notin InactiveRoots /\ Root \notin Strays
    /\ \A n \in InactiveRoots : get_incoming_edges(n) = {} /\ n \notin Strays
BY NodeAssumption DEF InactiveRoots, Roots, Strays

(* Graph.init decides only edges behind inactive roots. *)
LEMMA SafetyInit == Init => SafetyInv
<1> SUFFICES ASSUME Init PROVE SafetyInv
  OBVIOUS
<1> DEFINE blank == [e \in Edges |-> "unknown"]
           drop == UNION {get_outgoing_edges(n) : n \in InactiveRoots}
           marked == mark_edges_skipped(blank, drop)
<1>1. \A e \in Edges : marked[e] = IF tail[e] \in InactiveRoots THEN "skipped" ELSE "unknown"
  BY DEF mark_edges_skipped, get_outgoing_edges
<1>2. edgeState = skip_branch_paths(blank, drop)
  BY DEF Init
<1>3. \A e \in Edges : edgeState[e] = IF tail[e] \in SkippedNodes(marked) THEN "skipped" ELSE marked[e]
  BY <1>2 DEF skip_branch_paths
<1> HIDE DEF marked
<1>4. \A e \in Edges : edgeState[e] # "taken"
  BY <1>1, <1>3
<1>5. ASSUME NEW e \in Edges, edgeState[e] # "unknown" PROVE ~HasUnknown(edgeState, tail[e])
  <2>1. SUFFICES ASSUME NEW f \in get_incoming_edges(tail[e]) PROVE edgeState[f] # "unknown"
    BY DEF HasUnknown
  <2>2. f \in Edges
    BY DEF get_incoming_edges
  <2>3. CASE tail[e] \in InactiveRoots
    BY <2>3, InactiveRootFacts
  <2>4. CASE tail[e] \in SkippedNodes(marked)
    <3>1. AllSkipped(marked, SkippedNodes(marked), tail[e])
      BY <2>4, SkippedRule
    <3> QED
      BY <2>2, <3>1, <1>3 DEF AllSkipped
  <2> QED
    BY <2>3, <2>4, <1>1, <1>3, <1>5
<1>6. ASSUME NEW e \in get_outgoing_edges(Root) PROVE edgeState[e] = "unknown"
  <2>1. e \in Edges /\ tail[e] = Root
    BY DEF get_outgoing_edges
  <2>2. Root \notin InactiveRoots
    BY InactiveRootFacts
  <2>3. Root \notin SkippedNodes(marked)
    BY GraphAssumption, SkippedRule DEF AllSkipped
  <2> QED
    BY <2>1, <2>2, <2>3, <1>1, <1>3
<1>7. eventQueue = <<>> /\ (\A n \in Nodes : readyQueue[n] = 0)
      /\ (\A w \in Workers : held[w] = NoNode) /\ pausedNodes = {} /\ deferredNodes = {}
  BY DEF Init
<1>8. DOMAIN eventQueue = {}
  BY <1>7
<1>9. \A n \in Nodes : ~Running(n) /\ ~ResultPending(n) /\ ~Waiting(n) /\ ~InFlight(n)
  <2>1. TAKE n \in Nodes
  <2>2. NoNode # n
    BY NodeAssumption
  <2>3. ~Running(n)
    BY <1>7, <2>2 DEF Running
  <2>4. ~ResultPending(n)
    BY <1>8 DEF ResultPending
  <2>5. ~Waiting(n)
    BY <1>7 DEF Waiting
  <2> QED
    BY <1>7, <2>3, <2>4, <2>5 DEF InFlight
<1>10. Active = {}
  BY <1>9 DEF Active
<1>11. PlaceInv
  <2>1. SUFFICES ASSUME NEW n \in Nodes PROVE PlaceAt(n)
    BY DEF PlaceInv
  <2>2. OneWorker(n)
    BY <1>9 DEF OneWorker, Running
  <2>3. OneResult(n)
    BY <1>8 DEF OneResult
  <2> QED
    BY <1>7, <1>9, <2>2, <2>3 DEF PlaceAt
<1>12. EdgeInv
  BY <1>4, <1>5, <1>10 DEF EdgeInv, Consistent
<1>13. SnapshotInv
  BY DEF Init, SnapshotInv
<1>14. FreshInv
  BY <1>6, <1>7, <1>10 DEF Init, FreshInv
<1> QED
  BY <1>11, <1>12, <1>13, <1>14 DEF SafetyInv

-----------------------------------------------------------------------------
(* Steps *)

(* The state that says where the nodes are. *)
placeVars == <<edgeState, readyQueue, pausedNodes, deferredNodes, started, held, eventQueue, collected>>

(* A step that does not touch it keeps the first two parts. *)
LEMMA QuietStep ==
    ASSUME PlaceInv, EdgeInv, UNCHANGED placeVars
    PROVE  PlaceInv' /\ EdgeInv' /\ Active' = Active
<1> USE DEF placeVars
<1>1. \A n : /\ Running(n)' <=> Running(n)
             /\ ResultPending(n)' <=> ResultPending(n)
             /\ Waiting(n)' <=> Waiting(n)
             /\ Done(n)' <=> Done(n)
             /\ OneWorker(n)' <=> OneWorker(n)
             /\ OneResult(n)' <=> OneResult(n)
  BY DEF Running, ResultPending, Waiting, Done, HasLogged, OneWorker, OneResult
<1>2. \A n : InFlight(n)' <=> InFlight(n)
  BY <1>1 DEF InFlight
<1>3. Active' = Active
  BY <1>1, <1>2 DEF Active
<1>4. PlaceInv'
  BY <1>1, <1>2 DEF PlaceInv, PlaceAt
<1>5. EdgeInv'
  BY <1>1, <1>3 DEF EdgeInv
<1> QED
  BY <1>3, <1>4, <1>5

(* The steps that move no node: commands, the end of the loops, the result *)
(* of a run and its end.                                                   *)
QuietActions ==
    \/ \E w \in Workers : WorkerExit(w)
    \/ \E c \in Commands : SendCommand(c)
    \/ ReportResult \/ Close \/ StopExecution
    \/ PollCommands \/ HandleCommand \/ LeaveLoop \/ LeaveIdle \/ LeaveDrain \/ MarkComplete
    \/ UNCHANGED vars

LEMMA QuietFrame == QuietActions => UNCHANGED placeVars
BY DEF QuietActions, placeVars, WorkerExit, SendCommand, ReportResult, Close, StopExecution,
       PollCommands, HandleCommand, LeaveLoop, LeaveIdle, LeaveDrain, MarkComplete,
       vars, graphVars, schedVars, execVars, workerVars, eventVars, commandVars, dispVars, callerVars

(* What a snapshot holds stays as long as the graph and the lists do. *)
LEMMA SnapshotKept ==
    ASSUME SnapshotInv, UNCHANGED <<edgeState, pausedNodes, deferredNodes, savedReady, result>>,
           mpc' \in {"new", "running"} => mpc \in {"new", "running"},
           dpc' = dpc \/ dpc # "done"
    PROVE  SnapshotInv'
BY DEF SnapshotInv, Waiting

LEMMA QuietSafe ==
    ASSUME TypeInv, SafetyInv, QuietActions
    PROVE  SafetyInv'
<1> USE DEF SafetyInv
<1>1. PlaceInv' /\ EdgeInv' /\ Active' = Active
  BY QuietFrame, QuietStep
<1>2. UNCHANGED <<edgeState, pausedNodes, deferredNodes, eventQueue, started>>
  BY QuietFrame DEF placeVars
<1>3. ~started => mpc' = mpc
  <2> SUFFICES ASSUME ~started, mpc = "new" PROVE mpc' = mpc
    BY DEF FreshInv
  <2> QED
    BY DEF QuietActions, WorkerExit, SendCommand, ReportResult, Close, StopExecution,
       PollCommands, HandleCommand, LeaveLoop, LeaveIdle, LeaveDrain, MarkComplete, vars, callerVars
<1>4. FreshInv'
  BY <1>1, <1>2, <1>3 DEF FreshInv
<1>5. CASE ReportResult
  <2>1. mpc' = "ending" /\ dpc' = "done" /\ savedReady' = readyQueue /\ readyQueue' = readyQueue
    BY <1>5 DEF ReportResult, dispVars, schedVars
  <2>2. \A n \in Nodes : readyQueue[n] <= 1 /\ (readyQueue[n] > 0 => ~Waiting(n))
    BY DEF PlaceInv, PlaceAt, InFlight
  <2>3. Consistent(edgeState, {n \in Nodes : readyQueue[n] > 0 \/ Waiting(n)})
    BY ConsistentSubset DEF EdgeInv, Active, InFlight
  <2>4. \A n : Waiting(n)' <=> Waiting(n)
    BY <1>2 DEF Waiting
  <2> QED
    BY <2>1, <2>2, <2>3, <2>4, <1>1, <1>2, <1>4 DEF SnapshotInv
<1>6. CASE Close
  <2>1. mpc' = "ending" /\ result' = "closed"
    BY <1>6 DEF Close
  <2>2. SnapshotInv'
    BY <2>1 DEF SnapshotInv
  <2> QED
    BY <2>2, <1>1, <1>4
<1>7. CASE ~ReportResult /\ ~Close
  <2>1. /\ UNCHANGED <<savedReady, result>>
        /\ mpc' \in {"new", "running"} => mpc \in {"new", "running"}
        /\ dpc' = dpc \/ dpc # "done"
    BY <1>7 DEF QuietActions, WorkerExit, SendCommand, StopExecution,
       PollCommands, HandleCommand, LeaveLoop, LeaveIdle, LeaveDrain, MarkComplete,
       vars, callerVars, dispVars
  <2>2. SnapshotInv'
    BY <2>1, <1>2, SnapshotKept
  <2> QED
    BY <2>2, <1>1, <1>4
<1> QED
  BY <1>5, <1>6, <1>7

(* A step of a started run that only moves active nodes is safe. *)
LEMMA MoveSafe ==
    ASSUME SafetyInv, PlaceInv', SnapshotInv', Active' \subseteq Active, edgeState' = edgeState,
           \A n \in Nodes : Done(n) => Done(n)', started, started' = started
    PROVE  SafetyInv'
<1>1. EdgeInv'
  BY EdgesKept, GraphAssumption DEF SafetyInv
<1>2. FreshInv'
  BY DEF FreshInv
<1> QED
  BY <1>1, <1>2 DEF SafetyInv

(* Whatever is active belongs to a run that was started. *)
LEMMA ActiveStarted ==
    ASSUME SafetyInv, NEW n \in Nodes, readyQueue[n] > 0 \/ Running(n)
    PROVE  started
BY DEF SafetyInv, FreshInv, Active, InFlight

(* A worker takes a node: it moves from the queue to the worker. *)
LEMMA TakeSafe ==
    ASSUME TypeInv, SafetyInv, NEW w \in Workers, NEW n \in Nodes, WorkerTake(w, n)
    PROVE  SafetyInv'
<1>1. /\ held \in [Workers -> Nodes \union {NoNode}] /\ held[w] = NoNode
      /\ readyQueue \in [Nodes -> Nat]
  BY DEF TypeInv, TypeOK, ThreadTypes, GraphTypes, HeldTypes, WorkerTake
<1>2. readyQueue[n] > 0 /\ readyQueue' = [readyQueue EXCEPT ![n] = @ - 1]
      /\ held' = [held EXCEPT ![w] = n]
  BY DEF WorkerTake
<1>3. UNCHANGED <<edgeState, pausedNodes, deferredNodes, started, collected, eventQueue,
                  savedReady, result, mpc, dpc>>
  BY DEF WorkerTake, graphVars, execVars, eventVars, callerVars, dispVars
<1>4. \A m \in Nodes : PlaceAt(m)
  BY DEF SafetyInv, PlaceInv
<1>5. \A m : /\ ResultPending(m)' <=> ResultPending(m)
             /\ Waiting(m)' <=> Waiting(m)
             /\ Done(m)' <=> Done(m)
             /\ OneResult(m)' <=> OneResult(m)
  BY <1>3 DEF ResultPending, Waiting, Done, HasLogged, OneResult
<1>6. ASSUME NEW m \in Nodes
      PROVE  /\ Running(m)' <=> Running(m) \/ m = n
             /\ m # n => readyQueue'[m] = readyQueue[m] /\ (OneWorker(m) => OneWorker(m)')
             /\ ~Running(n) => OneWorker(n)'
  <2>1. NoNode # m
    BY NodeAssumption
  <2> QED
    BY <1>1, <1>2, <2>1 DEF Running, OneWorker
<1>7. /\ readyQueue[n] = 1 /\ readyQueue'[n] = 0
      /\ ~Running(n) /\ ~ResultPending(n) /\ ~Waiting(n)
  BY <1>1, <1>2, <1>4 DEF PlaceAt, InFlight
<1>8. ASSUME NEW m \in Nodes PROVE PlaceAt(m)'
  <2>1. CASE m = n
    BY <2>1, <1>4, <1>5, <1>6, <1>7 DEF PlaceAt
  <2>2. CASE m # n
    BY <2>2, <1>4, <1>5, <1>6 DEF PlaceAt, InFlight
  <2> QED
    BY <2>1, <2>2
<1>9. ASSUME NEW m \in Nodes, (InFlight(m) \/ Waiting(m))' PROVE InFlight(m) \/ Waiting(m)
  <2>1. CASE m = n
    BY <2>1, <1>2 DEF InFlight
  <2>2. CASE m # n
    BY <2>2, <1>5, <1>6, <1>9 DEF InFlight
  <2> QED
    BY <2>1, <2>2
<1>10. Active' \subseteq Active
  BY <1>9 DEF Active
<1>11. SnapshotInv'
  BY <1>3, SnapshotKept DEF SafetyInv
<1> QED
  BY <1>2, <1>3, <1>5, <1>8, <1>10, <1>11, ActiveStarted, MoveSafe DEF PlaceInv

(* A worker announces its node, which moves nothing. *)
LEMMA BeginSafe ==
    ASSUME TypeInv, SafetyInv, NEW w \in Workers, WorkerBegin(w)
    PROVE  SafetyInv'
<1> DEFINE ev == [node |-> held[w], kind |-> "started"]
<1>1. held[w] \in Nodes /\ eventQueue \in Seq(Event)
  BY DEF TypeInv, TypeOK, ThreadTypes, QueueTypes, HeldTypes, WorkerBegin
<1>2. ev \in Event /\ ev.kind \notin ResultKinds
  BY <1>1 DEF Event, ResultKinds
<1>3. eventQueue' = Append(eventQueue, ev)
  BY DEF WorkerBegin
<1>4. UNCHANGED <<edgeState, readyQueue, pausedNodes, deferredNodes, started, collected, held,
                  savedReady, result, mpc, dpc>>
  BY DEF WorkerBegin, graphVars, schedVars, execVars, callerVars, dispVars
<1> HIDE DEF ev
<1>5. \A m : (ResultPending(m)' <=> ResultPending(m)) /\ (OneResult(m) => OneResult(m)')
  BY <1>1, <1>2, <1>3, QueueGrows
<1>6. \A m : /\ Running(m)' <=> Running(m)
             /\ Waiting(m)' <=> Waiting(m)
             /\ Done(m)' <=> Done(m)
             /\ OneWorker(m)' <=> OneWorker(m)
  BY <1>4 DEF Running, Waiting, Done, HasLogged, OneWorker
<1>7. \A m : InFlight(m)' <=> InFlight(m)
  BY <1>4, <1>5, <1>6 DEF InFlight
<1>8. PlaceInv'
  BY <1>4, <1>5, <1>6, <1>7 DEF SafetyInv, PlaceInv, PlaceAt
<1>9. Active' \subseteq Active
  BY <1>6, <1>7 DEF Active
<1>10. SnapshotInv'
  BY <1>4, SnapshotKept DEF SafetyInv
<1>11. started
  BY <1>1, ActiveStarted DEF Running
<1> QED
  BY <1>4, <1>6, <1>8, <1>9, <1>10, <1>11, MoveSafe

(* A node run ends: the node moves from the worker to its result event. *)
LEMMA FinishSafe ==
    ASSUME TypeInv, SafetyInv, NEW w \in Workers, WorkerFinish(w)
    PROVE  SafetyInv'
<1>0. PICK n \in Nodes : n = held[w]
  BY DEF TypeInv, TypeOK, ThreadTypes, HeldTypes, WorkerFinish
<1>1. eventQueue \in Seq(Event) /\ held \in [Workers -> Nodes \union {NoNode}]
  BY DEF TypeInv, TypeOK, ThreadTypes, QueueTypes
<1>2. PICK ev \in Outcomes(n) : eventQueue' = Append(eventQueue, ev)
  BY <1>0 DEF WorkerFinish
<1>3. ev \in Event
  BY <1>1, <1>2, OutcomeTypes
<1>4. ev.node = n /\ ev.kind \in ResultKinds
  BY <1>2 DEF Outcomes, ResultKinds
<1>5. held' = [held EXCEPT ![w] = NoNode]
  BY DEF WorkerFinish
<1>6. UNCHANGED <<edgeState, readyQueue, pausedNodes, deferredNodes, started, collected,
                  savedReady, result, mpc, dpc>>
  BY DEF WorkerFinish, graphVars, schedVars, execVars, callerVars, dispVars
<1>7. \A m \in Nodes : PlaceAt(m)
  BY DEF SafetyInv, PlaceInv
<1>8. Running(n)
  BY <1>0 DEF Running
<1>9. ~ResultPending(n) /\ readyQueue[n] # 1 /\ ~Waiting(n) /\ OneWorker(n) /\ readyQueue[n] <= 1
  BY <1>1, <1>7, <1>8 DEF PlaceAt, InFlight
<1>10. \A m : /\ ResultPending(m)' <=> ResultPending(m) \/ m = n
              /\ OneResult(m) => OneResult(m)'
  BY <1>1, <1>2, <1>3, <1>4, <1>9, QueueGrows
<1>11. \A m : (Waiting(m)' <=> Waiting(m)) /\ (Done(m)' <=> Done(m))
  BY <1>6 DEF Waiting, Done, HasLogged
<1>12. ASSUME NEW m \in Nodes
       PROVE  /\ Running(m)' => Running(m) /\ m # n
              /\ OneWorker(m) => OneWorker(m)'
  <2>1. NoNode # m
    BY NodeAssumption
  <2>2. \A v \in Workers : held'[v] = IF v = w THEN NoNode ELSE held[v]
    BY <1>1, <1>5
  <2>3. OneWorker(m) => OneWorker(m)'
    BY <2>1, <2>2 DEF OneWorker
  <2>4. Running(m)' => Running(m)
    BY <2>1, <2>2 DEF Running
  <2>5. ~Running(n)'
    BY <1>0, <1>9, <2>2, NodeAssumption DEF Running, OneWorker
  <2> QED
    BY <2>3, <2>4, <2>5
<1>13. ASSUME NEW m \in Nodes PROVE PlaceAt(m)'
  <2>1. CASE m = n
    BY <2>1, <1>6, <1>7, <1>9, <1>10, <1>11, <1>12 DEF PlaceAt, InFlight
  <2>2. CASE m # n
    BY <2>2, <1>6, <1>7, <1>10, <1>11, <1>12 DEF PlaceAt, InFlight
  <2> QED
    BY <2>1, <2>2
<1>14. Active' \subseteq Active
  BY <1>6, <1>8, <1>10, <1>11, <1>12 DEF Active, InFlight
<1>15. SnapshotInv'
  BY <1>6, SnapshotKept DEF SafetyInv
<1>16. started
  BY <1>1, <1>8, ActiveStarted
<1> QED
  BY <1>6, <1>11, <1>13, <1>14, <1>15, <1>16, MoveSafe DEF PlaceInv

(* The dispatcher takes an event: the run was started and no snapshot has  *)
(* been taken.                                                             *)
LEMMA ReceiveStarted ==
    ASSUME TypeInv, SafetyInv, MayReceive, UNCHANGED <<started, mpc, result, savedReady>>
    PROVE  started /\ SnapshotInv'
<1>1. eventQueue # <<>> /\ dpc # "done"
  BY DEF MayReceive
<1>2. started
  BY <1>1 DEF SafetyInv, FreshInv
<1>3. SnapshotInv'
  BY <1>1 DEF SafetyInv, SnapshotInv
<1> QED
  BY <1>2, <1>3

(* No other node moves. *)
LEMMA ReceiveKeeps ==
    ASSUME TypeInv, SafetyInv, MayReceive, eventQueue' = Tail(eventQueue), UNCHANGED held,
           NEW m \in Nodes
    PROVE  /\ ResultPending(m)' => ResultPending(m)
           /\ Running(m)' <=> Running(m)
           /\ OneWorker(m)' /\ OneResult(m)'
<1>1. eventQueue \in Seq(Event) /\ eventQueue # <<>>
  BY DEF TypeInv, TypeOK, QueueTypes, MayReceive
<1>2. OneWorker(m) /\ OneResult(m)
  BY DEF SafetyInv, PlaceInv, PlaceAt
<1>3. (ResultPending(m)' => ResultPending(m)) /\ OneResult(m)'
  BY <1>1, <1>2, QueueShrinks
<1>4. (Running(m)' <=> Running(m)) /\ OneWorker(m)'
  BY <1>2 DEF Running, OneWorker
<1> QED
  BY <1>3, <1>4

(* If the event is a result, its node is now in no place. *)
LEMMA ReceiveResult ==
    ASSUME TypeInv, SafetyInv, MayReceive, eventQueue' = Tail(eventQueue),
           NEW ev \in Event, ev = Head(eventQueue), ev.kind \in ResultKinds,
           NEW n \in Nodes, n = ev.node
    PROVE  /\ ResultPending(n) /\ ~ResultPending(n)'
           /\ ~Running(n) /\ readyQueue[n] = 0 /\ ~Waiting(n)
<1>1. eventQueue \in Seq(Event) /\ eventQueue # <<>> /\ readyQueue \in [Nodes -> Nat]
  BY DEF TypeInv, TypeOK, QueueTypes, GraphTypes, MayReceive
<1>2. PlaceAt(n)
  BY DEF SafetyInv, PlaceInv
<1>3. ResultPending(n) /\ ~ResultPending(n)'
  BY <1>1, <1>2, QueueShrinks DEF PlaceAt
<1>4. ~Running(n) /\ ~Waiting(n) /\ readyQueue[n] # 1 /\ readyQueue[n] <= 1
  BY <1>2, <1>3 DEF PlaceAt, InFlight
<1>5. readyQueue[n] \in Nat
  BY <1>1
<1> QED
  BY <1>3, <1>4, <1>5

(* The frame of a handler. *)
LEMMA ReceiveFrame ==
    ASSUME NEW ev, Receive(ev)
    PROVE  /\ MayReceive /\ ev = Head(eventQueue) /\ eventQueue' = Tail(eventQueue)
           /\ UNCHANGED <<held, started, mpc, result, savedReady>>
BY DEF Receive, workerVars, callerVars

(* An event that moves no other node: its node leaves the event queue for  *)
(* the ready queue, for the nodes to resume, or for good.                  *)
LEMMA HandleSafe ==
    ASSUME TypeInv, SafetyInv, NEW ev \in Event,
           \/ HandleStarted(ev) \/ HandlePauseRequested(ev) \/ HandleRetry(ev)
           \/ HandleFatal(ev) \/ HandlerRaises(ev)
    PROVE  SafetyInv'
<1>0. PICK n \in Nodes : n = ev.node
  BY EventFacts
<1>1. /\ MayReceive /\ ev = Head(eventQueue) /\ eventQueue' = Tail(eventQueue)
      /\ UNCHANGED <<held, started, mpc, result, savedReady>>
  <2>1. CASE HandlerRaises(ev)
    BY <2>1 DEF HandlerRaises, workerVars, callerVars
  <2>2. CASE Receive(ev)
    BY <2>2, ReceiveFrame
  <2> QED
    BY <2>1, <2>2 DEF HandleStarted, HandlePauseRequested, HandleRetry, HandleFatal
<1>2. started /\ SnapshotInv'
  BY <1>1, ReceiveStarted
<1>3. ASSUME NEW m \in Nodes
      PROVE  /\ ResultPending(m)' => ResultPending(m)
             /\ Running(m)' <=> Running(m)
             /\ OneWorker(m)' /\ OneResult(m)'
  BY <1>1, ReceiveKeeps
<1>4. ev.kind \in ResultKinds =>
         /\ ResultPending(n) /\ ~ResultPending(n)'
         /\ ~Running(n) /\ readyQueue[n] = 0 /\ ~Waiting(n)
  BY <1>0, <1>1, ReceiveResult
<1>5. edgeState' = edgeState
  BY DEF HandleStarted, HandlePauseRequested, HandleRetry, HandleFatal, HandlerRaises, graphVars
<1>6. \A m \in Nodes : Done(m) => Done(m)'
  <2>1. CASE \E k \in LogKinds : collect(n, k)
    BY <2>1, CollectKeeps DEF TypeInv, TypeOK
  <2>2. CASE collected' = collected
    BY <2>2 DEF Done, HasLogged
  <2> QED
    BY <1>0, <2>1, <2>2 DEF HandleStarted, HandlePauseRequested, HandleRetry, HandleFatal, HandlerRaises,
       LogKinds, ResultKinds
<1>7. readyQueue \in [Nodes -> Nat]
  BY DEF TypeInv, TypeOK, GraphTypes
<1>8. \/ UNCHANGED <<readyQueue, pausedNodes, deferredNodes>>
      \/ /\ ev.kind = "pause" /\ UNCHANGED <<readyQueue, deferredNodes>>
         /\ pausedNodes' = pausedNodes \union {n}
      \/ /\ ev.kind = "failed" /\ UNCHANGED <<pausedNodes, deferredNodes>>
         /\ readyQueue' = enqueue_nodes({n})
  BY <1>0 DEF HandleStarted, HandlePauseRequested, HandleRetry, HandleFatal, HandlerRaises, schedVars,
     register_paused_node
<1>9. ASSUME NEW m \in Nodes
      PROVE  /\ m # n => readyQueue'[m] = readyQueue[m] /\ (Waiting(m)' <=> Waiting(m))
             /\ \/ readyQueue'[n] = readyQueue[n] /\ (Waiting(n)' <=> Waiting(n))
                \/ ev.kind \in ResultKinds /\ readyQueue'[n] = readyQueue[n] /\ Waiting(n)'
                \/ ev.kind \in ResultKinds /\ readyQueue'[n] = readyQueue[n] + 1
                   /\ (Waiting(n)' <=> Waiting(n))
  BY <1>4, <1>7, <1>8 DEF Waiting, enqueue_nodes, ResultKinds
<1>10. \A m \in Nodes : PlaceAt(m) /\ readyQueue[m] \in Nat
  BY <1>7 DEF SafetyInv, PlaceInv
<1>11. ASSUME NEW m \in Nodes, m # n
      PROVE  PlaceAt(m)' /\ ((InFlight(m) \/ Waiting(m))' => InFlight(m) \/ Waiting(m))
  <2>1. readyQueue'[m] = readyQueue[m] /\ (Waiting(m)' <=> Waiting(m))
    BY <1>9, <1>11
  <2>2. /\ ResultPending(m)' => ResultPending(m)
        /\ Running(m)' <=> Running(m)
        /\ OneWorker(m)' /\ OneResult(m)'
    BY <1>3
  <2>3. PlaceAt(m)
    BY <1>10
  <2> QED
    BY <2>1, <2>2, <2>3 DEF PlaceAt, InFlight
<1>12. PlaceAt(n)' /\ ((InFlight(n) \/ Waiting(n))' => InFlight(n) \/ Waiting(n))
  <2>1. /\ ResultPending(n)' => ResultPending(n)
        /\ Running(n)' <=> Running(n)
        /\ OneWorker(n)' /\ OneResult(n)'
    BY <1>3
  <2>2. PlaceAt(n)
    BY <1>10
  <2>3. CASE readyQueue'[n] = readyQueue[n] /\ (Waiting(n)' <=> Waiting(n))
    BY <2>1, <2>2, <2>3 DEF PlaceAt, InFlight
  <2>4. CASE ev.kind \in ResultKinds /\ readyQueue'[n] = readyQueue[n] /\ Waiting(n)'
    <3>1. ResultPending(n) /\ ~ResultPending(n)' /\ ~Running(n) /\ readyQueue[n] = 0
      BY <2>4, <1>4
    <3> QED
      BY <3>1, <2>1, <2>4 DEF PlaceAt, InFlight
  <2>5. CASE ev.kind \in ResultKinds /\ readyQueue'[n] = readyQueue[n] + 1 /\ (Waiting(n)' <=> Waiting(n))
    <3>1. ResultPending(n) /\ ~ResultPending(n)' /\ ~Running(n) /\ readyQueue[n] = 0 /\ ~Waiting(n)
      BY <2>5, <1>4
    <3>2. readyQueue'[n] = 1
      BY <3>1, <2>5
    <3> QED
      BY <3>1, <3>2, <2>1, <2>5 DEF PlaceAt, InFlight
  <2> QED
    BY <2>3, <2>4, <2>5, <1>9
<1>13. PlaceInv'
  BY <1>11, <1>12 DEF PlaceInv
<1>14. Active' \subseteq Active
  BY <1>11, <1>12 DEF Active
<1> QED
  BY <1>1, <1>2, <1>5, <1>6, <1>13, <1>14, MoveSafe

(* A node whose result waits is active, so it may complete. *)
LEMMA MayComplete ==
    ASSUME TypeInv, SafetyInv, NEW n \in Nodes, ResultPending(n),
           NEW chosen, chosen \subseteq get_outgoing_edges(n), NEW dropped,
           dropped = IF n \in Branch THEN get_outgoing_edges(n) \ chosen ELSE {}
    PROVE  Completes(edgeState, Active, n, dropped, chosen)
<1>1. n \in Active /\ Active \subseteq Nodes
  BY DEF Active, InFlight
<1>2. edgeState \in [Edges -> State]
  BY DEF TypeInv, TypeOK, GraphTypes
<1>3. Consistent(edgeState, Active)
  BY DEF SafetyInv, EdgeInv
<1> QED
  BY <1>1, <1>2, <1>3, GraphAssumption DEF Completes

(* What the two handlers that move the graph on have in common. *)
LEMMA AdvanceForm ==
    ASSUME TypeInv, NEW ev \in Event, NEW n \in Nodes, n = ev.node,
           HandleSucceeded(ev) \/ HandleException(ev)
    PROVE  \E chosen \in SUBSET get_outgoing_edges(n), defer \in BOOLEAN,
              k \in {"succeeded", "exception"} :
                 /\ Receive(ev) /\ ev.kind \in ResultKinds
                 /\ Advance(n, chosen, defer) /\ collect(n, k)
                 /\ n \notin Branch => chosen = get_outgoing_edges(n)
                 /\ UNCHANGED <<started, aborted, error>>
<1>1. CASE HandleSucceeded(ev)
  <2>1. PICK defer \in BOOLEAN : defer = paused
    BY DEF TypeInv, TypeOK, FlagTypes
  <2> DEFINE chosen == IF n \in Branch THEN SelectedEdges(n, ev.handle) ELSE get_outgoing_edges(n)
  <2>2. chosen \in SUBSET get_outgoing_edges(n)
    BY DEF SelectedEdges
  <2>3. Receive(ev) /\ ev.kind \in ResultKinds /\ collect(n, "succeeded")
    BY <1>1 DEF HandleSucceeded, ResultKinds
  <2>4. Advance(n, chosen, defer)
    BY <1>1, <2>1, Zenon DEF HandleSucceeded
  <2>5. n \notin Branch => chosen = get_outgoing_edges(n)
    OBVIOUS
  <2>6. UNCHANGED <<started, aborted, error>>
    BY <1>1, Zenon DEF HandleSucceeded, Receive
  <2> HIDE DEF chosen
  <2> QED
    BY <2>2, <2>3, <2>4, <2>5, <2>6
<1>2. CASE HandleException(ev)
  <2> DEFINE chosen == IF n \in Branch THEN SelectedEdges(n, "fail-branch") ELSE get_outgoing_edges(n)
  <2>1. chosen \in SUBSET get_outgoing_edges(n)
    BY DEF SelectedEdges
  <2>2. Receive(ev) /\ ev.kind \in ResultKinds /\ collect(n, "exception")
    BY <1>2 DEF HandleException, ResultKinds
  <2>3. Advance(n, chosen, FALSE)
    BY <1>2, Zenon DEF HandleException
  <2>4. n \notin Branch => chosen = get_outgoing_edges(n)
    OBVIOUS
  <2>5. UNCHANGED <<started, aborted, error>>
    BY <1>2, Zenon DEF HandleException, Receive
  <2> HIDE DEF chosen
  <2> QED
    BY <2>1, <2>2, <2>3, <2>4, <2>5
<1> QED
  BY <1>1, <1>2

(* The graph moves on past a node that completed.  The nodes it schedules  *)
(* or defers had an undecided incoming edge, so they were not active.      *)
LEMMA AdvanceSafe ==
    ASSUME TypeInv, SafetyInv, NEW ev \in Event, Receive(ev), ev.kind \in ResultKinds,
           NEW n \in Nodes, n = ev.node,
           NEW chosen, chosen \subseteq get_outgoing_edges(n), NEW defer \in BOOLEAN,
           Advance(n, chosen, defer), NEW k \in {"succeeded", "exception"}, collect(n, k)
    PROVE  SafetyInv'
<1>1. PICK es : es = edgeState
  OBVIOUS
<1>2. PICK A : A = Active
  OBVIOUS
<1> DEFINE dropped == IF n \in Branch THEN get_outgoing_edges(n) \ chosen ELSE {}
           woken == WokenBySkip(es, dropped)
           ready == ReadyAfter(es, dropped, chosen)
           es2 == EdgesAfter(es, dropped, chosen)
           queued == ScheduledBy(woken, ready, defer)
<1>3. /\ MayReceive /\ ev = Head(eventQueue) /\ eventQueue' = Tail(eventQueue)
      /\ UNCHANGED <<held, started, mpc, result, savedReady>>
  BY ReceiveFrame
<1>4. started /\ SnapshotInv'
  BY <1>3, ReceiveStarted
<1>5. ASSUME NEW m \in Nodes
      PROVE  /\ ResultPending(m)' => ResultPending(m)
             /\ Running(m)' <=> Running(m)
             /\ OneWorker(m)' /\ OneResult(m)'
  BY <1>3, ReceiveKeeps
<1>6. /\ ResultPending(n) /\ ~ResultPending(n)'
      /\ ~Running(n) /\ readyQueue[n] = 0 /\ ~Waiting(n)
  BY <1>3, ReceiveResult
<1>7. /\ edgeState' = es2 /\ readyQueue' = enqueue_nodes(queued)
      /\ deferredNodes' = IF defer THEN deferredNodes \union ready ELSE deferredNodes
      /\ pausedNodes' = pausedNodes
  BY <1>1 DEF Advance, register_deferred_node
<1>8. Completes(es, A, n, dropped, chosen)
  BY <1>1, <1>2, <1>6, MayComplete
<1> HIDE DEF dropped, woken, ready, es2, queued
<1>9. /\ Consistent(es2, (A \ {n}) \union woken \union ready)
      /\ \A m \in woken \union ready : m \notin A
      /\ \A e \in Edges : es2[e] = "taken" => es[e] = "taken" \/ tail[e] = n
  <2>1. Consistent(EdgesAfter(es, dropped, chosen),
                   (A \ {n}) \union WokenBySkip(es, dropped) \union ReadyAfter(es, dropped, chosen))
    BY <1>8, ConsistentAfter
  <2>2. \A m \in WokenBySkip(es, dropped) \union ReadyAfter(es, dropped, chosen) : m \notin A
    BY <1>8, ConsistentAfter
  <2>3. \A e \in Edges : EdgesAfter(es, dropped, chosen)[e] = "taken" => es[e] = "taken" \/ tail[e] = n
    BY <1>8, TakenAfter
  <2> QED
    BY <2>1, <2>2, <2>3 DEF woken, ready, es2
<1>10. woken \intersect ready = {}
  BY <1>8, NewlyReady DEF woken, ready
<1>11. \A m \in Nodes : PlaceAt(m) /\ readyQueue[m] \in Nat
  BY DEF SafetyInv, PlaceInv, TypeInv, TypeOK, GraphTypes
<1>12. n \notin woken \union ready
  BY <1>8, <1>9 DEF Completes
<1>13. queued = woken \union (IF defer THEN {} ELSE ready)
  BY DEF queued, ScheduledBy
<1>14. ASSUME NEW m \in Nodes, m \notin woken \union ready
       PROVE  readyQueue'[m] = readyQueue[m] /\ (Waiting(m)' <=> Waiting(m))
  <2>1. m \notin queued
    BY <1>13, <1>14
  <2>2. readyQueue'[m] = readyQueue[m]
    BY <2>1, <1>7 DEF enqueue_nodes
  <2>3. Waiting(m)' <=> Waiting(m)
    BY <1>7, <1>14 DEF Waiting
  <2> QED
    BY <2>2, <2>3
<1>15. ASSUME NEW m \in Nodes, m \in woken \union ready
       PROVE  /\ ~InFlight(m) /\ ~Waiting(m)
              /\ \/ readyQueue'[m] = 1 /\ ~Waiting(m)'
                 \/ readyQueue'[m] = 0 /\ Waiting(m)'
  <2>1. ~InFlight(m) /\ ~Waiting(m)
    BY <1>2, <1>9, <1>15 DEF Active
  <2>2. readyQueue[m] = 0
    BY <2>1, <1>11 DEF InFlight
  <2>3. CASE m \in queued
    <3>1. readyQueue'[m] = 1
      BY <2>2, <2>3, <1>7 DEF enqueue_nodes
    <3>2. ~(defer /\ m \in ready)
      BY <2>3, <1>10, <1>13
    <3>3. ~Waiting(m)'
      BY <3>2, <2>1, <1>7 DEF Waiting
    <3> QED
      BY <3>1, <3>3, <2>1
  <2>4. CASE m \notin queued
    <3>1. readyQueue'[m] = 0
      BY <2>2, <2>4, <1>7 DEF enqueue_nodes
    <3>2. defer /\ m \in ready
      BY <2>4, <1>13, <1>15
    <3>3. Waiting(m)'
      BY <3>2, <1>7 DEF Waiting
    <3> QED
      BY <3>1, <3>3, <2>1
  <2> QED
    BY <2>3, <2>4
<1>16. ASSUME NEW m \in Nodes PROVE PlaceAt(m)'
  <2>1. /\ ResultPending(m)' => ResultPending(m)
        /\ Running(m)' <=> Running(m)
        /\ OneWorker(m)' /\ OneResult(m)'
    BY <1>5
  <2>2. CASE m \in woken \union ready
    <3>1. ~Running(m)' /\ ~ResultPending(m)'
      BY <2>1, <2>2, <1>15 DEF InFlight
    <3>2. \/ readyQueue'[m] = 1 /\ ~Waiting(m)'
          \/ readyQueue'[m] = 0 /\ Waiting(m)'
      BY <2>2, <1>15
    <3> QED
      BY <2>1, <3>1, <3>2 DEF PlaceAt, InFlight
  <2>3. CASE m \notin woken \union ready
    <3>1. readyQueue'[m] = readyQueue[m] /\ (Waiting(m)' <=> Waiting(m)) /\ PlaceAt(m)
      BY <2>3, <1>11, <1>14
    <3> QED
      BY <2>1, <3>1 DEF PlaceAt, InFlight
  <2> QED
    BY <2>2, <2>3
<1>17. PlaceInv'
  BY <1>16 DEF PlaceInv
<1>18. ASSUME NEW m \in Nodes, (InFlight(m) \/ Waiting(m))'
       PROVE  m \in (A \ {n}) \union woken \union ready
  <2>1. SUFFICES ASSUME m \notin woken \union ready PROVE m \in A \ {n}
    OBVIOUS
  <2>2. readyQueue'[m] = readyQueue[m] /\ (Waiting(m)' <=> Waiting(m))
    BY <2>1, <1>14
  <2>3. (ResultPending(m)' => ResultPending(m)) /\ (Running(m)' <=> Running(m))
    BY <1>5
  <2>4. m # n
    BY <2>2, <2>3, <1>6, <1>18 DEF InFlight
  <2>5. InFlight(m) \/ Waiting(m)
    BY <2>2, <2>3, <1>18 DEF InFlight
  <2> QED
    BY <2>4, <2>5, <1>2 DEF Active
<1>19. Active' \subseteq (A \ {n}) \union woken \union ready
  BY <1>18 DEF Active
<1>20. Consistent(edgeState', Active')
  BY <1>7, <1>9, <1>19, ConsistentSubset
<1>21. (\A m \in Nodes : Done(m) => Done(m)') /\ Done(n)'
  <2>1. k \in LogKinds
    BY DEF LogKinds, ResultKinds
  <2> QED
    BY <2>1, CollectKeeps DEF TypeInv, TypeOK
<1>22. ASSUME NEW e \in Edges, edgeState'[e] = "taken" PROVE Done(tail[e])'
  <2>1. tail[e] \in Nodes
    BY GraphAssumption
  <2>2. CASE tail[e] = n
    BY <2>2, <1>21
  <2>3. CASE es[e] = "taken"
    BY <2>1, <2>3, <1>1, <1>21 DEF SafetyInv, EdgeInv
  <2> QED
    BY <2>2, <2>3, <1>7, <1>9, <1>22
<1>23. EdgeInv'
  BY <1>20, <1>22 DEF EdgeInv
<1>24. FreshInv'
  BY <1>3, <1>4 DEF FreshInv
<1> QED
  BY <1>4, <1>17, <1>23, <1>24 DEF SafetyInv

(* The run starts with its root, or goes on with what waits for it. *)
LEMMA RunSafe ==
    ASSUME TypeInv, SafetyInv, Run
    PROVE  SafetyInv'
<1>1. UNCHANGED <<edgeState, held, eventQueue, collected, result>> /\ started' /\ mpc' = "running"
  BY DEF Run, workerVars, eventVars
<1>2. pausedNodes' = {} /\ deferredNodes' = {} /\ readyQueue' = enqueue_nodes(NodesToStart)
  BY DEF Run
<1>3. \A m : /\ ResultPending(m)' <=> ResultPending(m)
             /\ Running(m)' <=> Running(m)
             /\ Done(m)' <=> Done(m)
             /\ OneWorker(m)' <=> OneWorker(m)
             /\ OneResult(m)' <=> OneResult(m)
  BY <1>1 DEF ResultPending, Running, Done, HasLogged, OneWorker, OneResult
<1>4. \A m : ~Waiting(m)'
  BY <1>2 DEF Waiting
<1>5. SnapshotInv'
  <2>1. mpc = "new"
    BY DEF Run
  <2>2. result' = "none"
    BY <1>1, <2>1 DEF SafetyInv, SnapshotInv
  <2> QED
    BY <2>2 DEF SnapshotInv
<1>6. FreshInv'
  BY <1>1 DEF FreshInv
<1>7. \A m \in Nodes : PlaceAt(m) /\ readyQueue[m] \in Nat
  BY DEF SafetyInv, PlaceInv, TypeInv, TypeOK, GraphTypes
<1>8. \A m \in Nodes : readyQueue'[m] = IF m \in NodesToStart THEN readyQueue[m] + 1 ELSE readyQueue[m]
  BY <1>2 DEF enqueue_nodes
<1>9. ASSUME NEW m \in Nodes, m \in NodesToStart PROVE ~InFlight(m)
  <2>1. CASE started
    <3>1. Waiting(m)
      BY <2>1, <1>9 DEF NodesToStart, Waiting
    <3> QED
      BY <3>1, <1>7 DEF PlaceAt
  <2>2. CASE ~started
    BY <2>2 DEF SafetyInv, FreshInv, Active
  <2> QED
    BY <2>1, <2>2
<1>10. ASSUME NEW m \in Nodes PROVE PlaceAt(m)'
  <2>1. PlaceAt(m) /\ readyQueue[m] \in Nat
    BY <1>7
  <2>2. CASE m \in NodesToStart
    <3>1. ~Running(m)' /\ ~ResultPending(m)' /\ readyQueue'[m] = 1
      BY <2>1, <2>2, <1>3, <1>8, <1>9 DEF InFlight
    <3> QED
      BY <3>1, <2>1, <1>3, <1>4 DEF PlaceAt
  <2>3. CASE m \notin NodesToStart
    <3>1. readyQueue'[m] = readyQueue[m]
      BY <2>3, <1>8
    <3> QED
      BY <3>1, <2>1, <1>3, <1>4 DEF PlaceAt
  <2> QED
    BY <2>2, <2>3
<1>11. ASSUME NEW m \in Nodes, (InFlight(m) \/ Waiting(m))' PROVE InFlight(m) \/ m \in NodesToStart
  BY <1>3, <1>4, <1>8, <1>11 DEF InFlight
<1>12. Active' \subseteq Active \union NodesToStart
  BY <1>11 DEF Active
<1>13. Consistent(edgeState, Active')
  <2>1. CASE started
    <3>1. NodesToStart \subseteq Active
      BY <2>1 DEF NodesToStart, Active, Waiting, TypeInv, TypeOK, GraphTypes
    <3>2. Active' \subseteq Active
      BY <3>1, <1>12
    <3> QED
      BY <3>2, ConsistentSubset DEF SafetyInv, EdgeInv
  <2>2. CASE ~started
    <3>1. Active = {} /\ \A e \in get_outgoing_edges(Root) : edgeState[e] = "unknown"
      BY <2>2 DEF SafetyInv, FreshInv
    <3>2. is_node_ready(edgeState, Root)
      BY GraphAssumption DEF is_node_ready
    <3>3. Consistent(edgeState, {Root})
      BY <3>1, <3>2 DEF SafetyInv, EdgeInv, Consistent
    <3>4. Active' \subseteq {Root}
      BY <2>2, <3>1, <1>12 DEF NodesToStart
    <3> QED
      BY <3>3, <3>4, ConsistentSubset
  <2> QED
    BY <2>1, <2>2
<1>14. \A e \in Edges : edgeState[e] = "taken" => Done(tail[e])'
  BY <1>3 DEF SafetyInv, EdgeInv
<1>15. EdgeInv'
  BY <1>1, <1>13, <1>14 DEF EdgeInv
<1> QED
  BY <1>5, <1>6, <1>10, <1>15 DEF SafetyInv, PlaceInv

(* A paused run is loaded from its snapshot. *)
LEMMA ResumeSafe ==
    ASSUME TypeInv, SafetyInv, Resume
    PROVE  SafetyInv'
<1>1. /\ readyQueue' = savedReady /\ eventQueue' = <<>>
      /\ UNCHANGED <<edgeState, pausedNodes, deferredNodes, collected>>
  BY DEF Resume, graphVars
<1>2. \A w \in Workers : held'[w] = NoNode
  BY DEF Resume
<1>3. /\ \A m \in Nodes : savedReady[m] <= 1 /\ (savedReady[m] > 0 => ~Waiting(m))
      /\ Consistent(edgeState, {m \in Nodes : savedReady[m] > 0 \/ Waiting(m)})
  BY DEF Resume, SafetyInv, SnapshotInv
<1>4. \A m : (Waiting(m)' <=> Waiting(m)) /\ (Done(m)' <=> Done(m))
  BY <1>1 DEF Waiting, Done, HasLogged
<1>5. DOMAIN eventQueue' = {}
  BY <1>1
<1>6. \A m : ~ResultPending(m)' /\ OneResult(m)'
  BY <1>5 DEF ResultPending, OneResult
<1>7. \A m \in Nodes : ~Running(m)' /\ OneWorker(m)'
  BY <1>2, NodeAssumption DEF Running, OneWorker
<1>8. \A m \in Nodes : InFlight(m)' <=> savedReady[m] > 0
  BY <1>1, <1>6, <1>7 DEF InFlight
<1>9. PlaceInv'
  BY <1>1, <1>3, <1>4, <1>6, <1>7, <1>8 DEF PlaceInv, PlaceAt
<1>10. Active' = {m \in Nodes : savedReady[m] > 0 \/ Waiting(m)}
  BY <1>4, <1>8 DEF Active
<1>11. EdgeInv'
  BY <1>1, <1>3, <1>4, <1>10 DEF SafetyInv, EdgeInv
<1>12. SnapshotInv'
  BY DEF Resume, SnapshotInv
<1>13. FreshInv'
  <2>1. mpc = "stopped" /\ started' = started
    BY DEF Resume, execVars
  <2>2. started
    BY <2>1 DEF SafetyInv, FreshInv
  <2> QED
    BY <2>1, <2>2 DEF FreshInv
<1> QED
  BY <1>9, <1>11, <1>12, <1>13 DEF SafetyInv

-----------------------------------------------------------------------------
(* The invariant *)

(* The dispatcher handles the event at the head of the queue. *)
LEMMA DispatchSafe ==
    ASSUME TypeInv, SafetyInv, eventQueue # <<>>, Handle(Head(eventQueue))
    PROVE  SafetyInv'
<1>1. PICK ev \in Event : ev = Head(eventQueue)
  BY HeadTailProperties DEF TypeInv, TypeOK, QueueTypes
<1>2. Handle(ev)
  BY <1>1
<1>3. PICK n \in Nodes : n = ev.node
  BY EventFacts
<1>4. CASE HandleSucceeded(ev) \/ HandleException(ev)
  BY <1>3, <1>4, AdvanceForm, AdvanceSafe
<1> QED
  BY <1>2, <1>4, HandleSafe DEF Handle

LEMMA SafetyStep == TypeInv /\ SafetyInv /\ [Next]_vars => SafetyInv'
<1> SUFFICES ASSUME TypeInv, SafetyInv, [Next]_vars PROVE SafetyInv'
  OBVIOUS
<1>1. ASSUME NEW w \in Workers, NEW n \in Nodes, WorkerTake(w, n) PROVE SafetyInv'
  BY <1>1, TakeSafe
<1>2. ASSUME NEW w \in Workers, WorkerBegin(w) PROVE SafetyInv'
  BY <1>2, BeginSafe
<1>3. ASSUME NEW w \in Workers, WorkerFinish(w) PROVE SafetyInv'
  BY <1>3, FinishSafe
<1>4. CASE Run
  BY <1>4, RunSafe
<1>5. CASE Resume
  BY <1>5, ResumeSafe
<1>6. CASE eventQueue # <<>> /\ Handle(Head(eventQueue))
  BY <1>6, DispatchSafe
<1>7. CASE QuietActions
  BY <1>7, QuietSafe
<1> QED
  BY <1>1, <1>2, <1>3, <1>4, <1>5, <1>6, <1>7
     DEF Next, Worker, Dispatcher, Caller, Environment, QuietActions

LEMMA SafetyAlways == Spec => [](TypeInv /\ SafetyInv)
BY TypeInit, TypeStep, SafetyInit, SafetyStep, PTL DEF Spec

-----------------------------------------------------------------------------
(* The theorems *)

(* A node is never in two places at once: not twice in the ready queue of  *)
(* GraphStateManager, not with two workers, not with two results waiting   *)
(* for the dispatcher, whatever retries, joins and resumptions do.         *)
THEOREM NeverTwice == Spec => []OneRunAtATime
<1>1. SafetyInv => OneRunAtATime
  BY DEF SafetyInv, PlaceInv, PlaceAt, OneWorker, OneResult, OneRunAtATime
<1> QED
  BY <1>1, SafetyAlways, PTL

(* A join waits for everything: whatever is scheduled, run, paused or      *)
(* deferred has only decided incoming edges, at least one of them taken,   *)
(* and the sources of the taken ones completed (is_node_ready, also after  *)
(* the skip propagation and after a resumption).                           *)
THEOREM JoinsWait == Spec => []RunsOnlyWhenReady
<1>1. TypeInv /\ SafetyInv => RunsOnlyWhenReady
  <2>1. SUFFICES ASSUME TypeInv, SafetyInv, NEW n \in Nodes,
                        InFlight(n) \/ n \in pausedNodes \union deferredNodes
                 PROVE  /\ \A e \in get_incoming_edges(n) :
                              edgeState[e] = "skipped" \/ (edgeState[e] = "taken" /\ Done(tail[e]))
                        /\ get_incoming_edges(n) = {} \/ HasTaken(edgeState, n)
    BY DEF RunsOnlyWhenReady
  <2>2. n \in Active
    BY <2>1 DEF Active, Waiting
  <2>3. is_node_ready(edgeState, n)
    BY <2>1, <2>2 DEF SafetyInv, EdgeInv, Consistent
  <2>4. \A e \in get_incoming_edges(n) : e \in Edges /\ edgeState[e] # "unknown"
    BY <2>3 DEF is_node_ready, HasUnknown, get_incoming_edges
  <2>5. \A e \in Edges : edgeState[e] \in {"unknown", "taken", "skipped"}
    BY <2>1 DEF TypeInv, TypeOK, GraphTypes, State
  <2>6. \A e \in Edges : edgeState[e] = "taken" => Done(tail[e])
    BY <2>1 DEF SafetyInv, EdgeInv
  <2> QED
    BY <2>3, <2>4, <2>5, <2>6 DEF is_node_ready
<1> QED
  BY <1>1, SafetyAlways, PTL

(* A decided edge stays decided (Edge.state leaves UNKNOWN once): the skip *)
(* propagation and the marking of taken edges change unknown edges only,   *)
(* and a resumption restores the states of the snapshot.                   *)
THEOREM DecidedForGood == Spec => EdgesDecidedOnce
<1> DEFINE Kept == \A e \in Edges : edgeState[e] # "unknown" => edgeState'[e] = edgeState[e]
<1>1. ASSUME TypeInv, SafetyInv, NEW ev \in Event, NEW n \in Nodes, n = ev.node,
             HandleSucceeded(ev) \/ HandleException(ev)
      PROVE  Kept
  <2>1. PICK chosen \in SUBSET get_outgoing_edges(n), defer \in BOOLEAN :
           Receive(ev) /\ ev.kind \in ResultKinds /\ Advance(n, chosen, defer)
    BY <1>1, AdvanceForm
  <2>2. ResultPending(n)
    BY <1>1, <2>1, ReceiveFrame, ReceiveResult
  <2>3. PICK dropped : dropped = IF n \in Branch THEN get_outgoing_edges(n) \ chosen ELSE {}
    OBVIOUS
  <2>4. Completes(edgeState, Active, n, dropped, chosen)
    BY <1>1, <2>2, <2>3, MayComplete
  <2>5. edgeState' = EdgesAfter(edgeState, dropped, chosen)
    BY <2>1, <2>3 DEF Advance
  <2> QED
    BY <2>4, <2>5, DecidedStays
<1>2. ASSUME TypeInv, SafetyInv, eventQueue # <<>>, Handle(Head(eventQueue)) PROVE Kept
  <2>1. PICK ev \in Event : ev = Head(eventQueue)
    BY <1>2, HeadTailProperties DEF TypeInv, TypeOK, QueueTypes
  <2>2. PICK n \in Nodes : n = ev.node
    BY EventFacts
  <2>3. Handle(ev)
    BY <1>2, <2>1
  <2>4. CASE HandleSucceeded(ev) \/ HandleException(ev)
    BY <1>1, <1>2, <2>2, <2>4
  <2>5. CASE ~(HandleSucceeded(ev) \/ HandleException(ev))
    BY <2>3, <2>5 DEF Handle, HandleStarted, HandlePauseRequested, HandleRetry, HandleFatal,
       HandlerRaises, graphVars
  <2> QED
    BY <2>4, <2>5
<1>3. ASSUME TypeInv, SafetyInv, Next PROVE Kept
  <2>1. CASE \/ \E w \in Workers : Worker(w)
           \/ Run \/ Resume \/ QuietActions
    <3>1. edgeState' = edgeState
      BY <2>1, QuietFrame DEF placeVars, Worker, WorkerTake, WorkerBegin, WorkerFinish, WorkerExit,
         Run, Resume, graphVars
    <3> QED
      BY <3>1
  <2>2. CASE eventQueue # <<>> /\ Handle(Head(eventQueue))
    BY <1>2, <1>3, <2>2
  <2> QED
    BY <1>3, <2>1, <2>2 DEF Next, Dispatcher, Caller, Environment, QuietActions
<1>4. TypeInv /\ SafetyInv /\ [Next]_vars => [Kept]_vars
  BY <1>3
<1> HIDE DEF Kept
<1>5. Spec => [][Kept]_vars
  BY <1>4, SafetyAlways, PTL DEF Spec
<1> QED
  BY <1>5 DEF Kept, EdgesDecidedOnce

-----------------------------------------------------------------------------
(* Part 2 *)

-----------------------------------------------------------------------------
(* The inductive invariant *)

(* The dispatcher still decides by the executing set. *)
Consulted == ~aborted /\ (error = "none" \/ (error = "node" /\ sawPause))

(* The main loop was left, not for a pause; or the drain of a pause ended. *)
PastLoop ==
    \/ dpc \in {"drain", "finish", "done"}
    \/ dpc \in {"poll", "handle"} /\ after = "exit" /\ ~sawPause

(* How the flags of GraphExecution go together with the positions of the   *)
(* dispatcher and of the caller.                                           *)
ErrorFlags ==
    /\ aborted => error # "none"
    /\ error = "abort" => aborted
    /\ error # "none" => completed \/ aborted
    /\ sawPause /\ error = "internal" => dpc \in {"finish", "done"}
CallerFlags ==
    /\ mpc = "new" => dpc = "off" /\ ~sawPause /\ ~dispatcherStop
    /\ mpc \in {"new", "running"} <=> result = "none"
    /\ result \notin {"none", "closed"} => dpc = "done"
    /\ dispatcherStop => result # "none"
    /\ result \in {"succeeded", "partial"} => error = "none" /\ ~paused
PauseFlags ==
    /\ sawPause => paused
    /\ ~paused => pausedNodes = {} /\ deferredNodes = {}
FlagInv == ErrorFlags /\ CallerFlags /\ PauseFlags

(* Nothing executes once the dispatcher is past its loop; so the ready     *)
(* queue of the snapshot of a paused run is empty unless the run failed.   *)
QuietInv ==
    /\ PastLoop /\ Consulted /\ result # "closed" => executing = {}
    /\ result = "paused" /\ error = "none" => \A n \in Nodes : savedReady[n] = 0

WorkInv == FlagInv /\ QuietInv /\ TrackedWork

-----------------------------------------------------------------------------
(* The flags *)

flagVars == <<completed, aborted, paused, error, dpc, sawPause, dispatcherStop, mpc, result,
              pausedNodes, deferredNodes>>

LEMMA FlagInit == Init => FlagInv
BY DEF Init, FlagInv, ErrorFlags, CallerFlags, PauseFlags

(* The handlers, as far as the flags are concerned. *)
LEMMA HandleFlags ==
    ASSUME TypeInv, FlagInv, NEW ev, Handle(ev)
    PROVE  FlagInv'
<1> USE DEF FlagInv, ErrorFlags, CallerFlags, PauseFlags, TypeInv, TypeOK, FlagTypes
<1>1. CASE Receive(ev)
  <2>1. /\ dpc \in {"loop", "idle", "drain"} /\ dpc' \in {"loop", "idle", "drain", "poll"}
        /\ UNCHANGED <<aborted, sawPause, dispatcherStop, mpc, result>>
    BY <1>1 DEF Receive, MayReceive, callerVars
  <2>2. ASSUME NEW n, NEW chosen, NEW defer, Advance(n, chosen, defer), defer => paused,
               UNCHANGED <<completed, paused, error>>
        PROVE  FlagInv'
    <3>1. (deferredNodes' = deferredNodes \/ paused) /\ pausedNodes' = pausedNodes
      BY <2>2 DEF Advance
    <3> QED
      BY <2>1, <2>2, <3>1
  <2>3. CASE HandleStarted(ev)
    BY <2>1, <2>3 DEF HandleStarted, schedVars
  <2>4. CASE HandleSucceeded(ev)
    BY <2>2, <2>4, Zenon DEF HandleSucceeded
  <2>5. CASE HandlePauseRequested(ev)
    BY <2>1, <2>5 DEF HandlePauseRequested
  <2>6. CASE HandleRetry(ev)
    BY <2>1, <2>6 DEF HandleRetry
  <2>7. CASE HandleFatal(ev)
    BY <2>1, <2>7 DEF HandleFatal
  <2>8. CASE HandleException(ev)
    BY <2>2, <2>8, Zenon DEF HandleException
  <2>9. CASE HandlerRaises(ev)
    BY <2>1, <2>9 DEF HandlerRaises, schedVars, callerVars
  <2> QED
    BY <1>1, Handle(ev), <2>3, <2>4, <2>5, <2>6, <2>7, <2>8, <2>9 DEF Handle
<1>2. CASE HandlerRaises(ev)
  <2>1. /\ dpc # "done" /\ dpc # "off" /\ dpc' = "finish" /\ error' = "internal" /\ completed'
        /\ UNCHANGED <<aborted, paused, sawPause, dispatcherStop, mpc, result, pausedNodes, deferredNodes>>
    BY <1>2 DEF HandlerRaises, MayReceive, schedVars, callerVars
  <2> QED
    BY <2>1
<1> QED
  BY <1>1, <1>2 DEF Handle, HandleStarted, HandleSucceeded, HandlePauseRequested, HandleRetry,
     HandleFatal, HandleException

LEMMA FlagStep == TypeInv /\ FlagInv /\ [Next]_vars => FlagInv'
<1> SUFFICES ASSUME TypeInv, FlagInv, [Next]_vars PROVE FlagInv'
  OBVIOUS
<1>1. ASSUME UNCHANGED flagVars PROVE FlagInv'
  BY <1>1 DEF FlagInv, ErrorFlags, CallerFlags, PauseFlags, flagVars
<1>2. CASE \/ \E w \in Workers : Worker(w)
           \/ \E c \in Commands : SendCommand(c)
           \/ UNCHANGED vars
  <2>1. UNCHANGED flagVars
    BY <1>2 DEF flagVars, Worker, WorkerTake, WorkerBegin, WorkerFinish, WorkerExit, SendCommand,
       vars, schedVars, execVars, dispVars, callerVars
  <2> QED
    BY <2>1, <1>1
<1>3. CASE eventQueue # <<>> /\ Handle(Head(eventQueue))
  BY <1>3, HandleFlags
<1> USE DEF FlagInv, ErrorFlags, CallerFlags, PauseFlags, TypeInv, TypeOK, FlagTypes, ThreadTypes, Errors,
        schedVars, execVars, dispVars, callerVars
<1>4. CASE Run
  BY <1>4 DEF Run
<1>5. CASE ReportResult
  BY <1>5 DEF ReportResult
<1>6. CASE StopExecution
  BY <1>6 DEF StopExecution
<1>7. CASE Close
  BY <1>7 DEF Close
<1>8. CASE Resume
  BY <1>8 DEF Resume
<1>9. CASE PollCommands
  BY <1>9 DEF PollCommands, AfterPoll
<1>10. CASE HandleCommand
  BY <1>10 DEF HandleCommand, AfterPoll, Abort, Pause, MayPause
<1>11. CASE LeaveLoop
  BY <1>11 DEF LeaveLoop, Stopping
<1>12. CASE LeaveIdle \/ LeaveDrain \/ MarkComplete
  BY <1>12 DEF LeaveIdle, LeaveDrain, MarkComplete
<1> QED
  BY <1>2, <1>3, <1>4, <1>5, <1>6, <1>7, <1>8, <1>9, <1>10, <1>11, <1>12
     DEF Next, Dispatcher, Caller, Environment

-----------------------------------------------------------------------------
(* Where the nodes are after a step *)

(* Taking an event removes no other result from the queue. *)
LEMMA QueueKeeps ==
    ASSUME eventQueue \in Seq(Event), eventQueue # <<>>, eventQueue' = Tail(eventQueue),
           NEW n, ResultPending(n),
           ~(Head(eventQueue).node = n /\ Head(eventQueue).kind \in ResultKinds)
    PROVE  ResultPending(n)'
<1>1. /\ eventQueue' \in Seq(Event) /\ Len(eventQueue') = Len(eventQueue) - 1
      /\ \A i \in 1 .. Len(eventQueue') : eventQueue'[i] = eventQueue[i + 1]
      /\ Head(eventQueue) = eventQueue[1] /\ Len(eventQueue) \in Nat /\ Len(eventQueue) > 0
  OBVIOUS
<1>2. DOMAIN eventQueue = 1 .. Len(eventQueue) /\ DOMAIN eventQueue' = 1 .. Len(eventQueue')
  BY <1>1
<1>3. PICK i \in DOMAIN eventQueue : eventQueue[i].node = n /\ eventQueue[i].kind \in ResultKinds
  BY DEF ResultPending
<1>4. i # 1
  BY <1>1, <1>3
<1>5. i - 1 \in DOMAIN eventQueue' /\ eventQueue'[i - 1] = eventQueue[i]
  BY <1>1, <1>2, <1>3, <1>4
<1> QED
  BY <1>3, <1>5 DEF ResultPending

(* Workers carry nodes from the ready queue to their results. *)
LEMMA WorkerEffect ==
    ASSUME TypeInv, NEW w \in Workers, Worker(w), NEW m \in Nodes
    PROVE  InFlight(m)' <=> InFlight(m)
<1> USE DEF TypeInv, TypeOK, ThreadTypes, GraphTypes, QueueTypes, HeldTypes
<1>0. NoNode # m /\ held \in [Workers -> Nodes \union {NoNode}] /\ readyQueue \in [Nodes -> Nat]
      /\ eventQueue \in Seq(Event)
  BY NodeAssumption
<1>1. ASSUME NEW n \in Nodes, WorkerTake(w, n) PROVE InFlight(m)' <=> InFlight(m)
  <2>1. /\ held[w] = NoNode /\ readyQueue[n] > 0
        /\ readyQueue' = [readyQueue EXCEPT ![n] = @ - 1] /\ held' = [held EXCEPT ![w] = n]
        /\ eventQueue' = eventQueue
    BY <1>1 DEF WorkerTake, eventVars
  <2>2. ResultPending(m)' <=> ResultPending(m)
    BY <2>1 DEF ResultPending
  <2>3. Running(m)' <=> Running(m) \/ m = n
    BY <1>0, <2>1 DEF Running
  <2>4. m # n => readyQueue'[m] = readyQueue[m]
    BY <1>0, <2>1
  <2> QED
    BY <2>1, <2>2, <2>3, <2>4 DEF InFlight
<1>2. CASE WorkerBegin(w)
  <2> DEFINE ev == [node |-> held[w], kind |-> "started"]
  <2>1. eventQueue' = Append(eventQueue, ev) /\ UNCHANGED <<readyQueue, held>>
    BY <1>2 DEF WorkerBegin, schedVars
  <2>2. ev \in Event /\ ev.kind \notin ResultKinds
    BY <1>0, <1>2 DEF WorkerBegin, Event, ResultKinds
  <2> HIDE DEF ev
  <2>3. ResultPending(m)' <=> ResultPending(m)
    BY <1>0, <2>1, <2>2, QueueGrows
  <2> QED
    BY <2>1, <2>3 DEF InFlight, Running
<1>3. CASE WorkerFinish(w)
  <2>1. PICK n \in Nodes : n = held[w]
    BY <1>0, <1>3 DEF WorkerFinish
  <2>2. PICK ev \in Outcomes(n) : eventQueue' = Append(eventQueue, ev)
    BY <1>3, <2>1 DEF WorkerFinish
  <2>3. ev \in Event /\ ev.node = n /\ ev.kind \in ResultKinds
    BY <2>2, OutcomeTypes DEF Outcomes, ResultKinds
  <2>4. ResultPending(m)' <=> ResultPending(m) \/ m = n
    BY <1>0, <2>2, <2>3, QueueGrows
  <2>5. held' = [held EXCEPT ![w] = NoNode] /\ readyQueue' = readyQueue
    BY <1>3 DEF WorkerFinish, schedVars
  <2>6. Running(n) /\ (m # n => (Running(m)' <=> Running(m)))
    BY <1>0, <2>1, <2>5 DEF Running
  <2> QED
    BY <2>4, <2>5, <2>6 DEF InFlight
<1>4. CASE WorkerExit(w)
  BY <1>4 DEF WorkerExit, schedVars, eventVars, InFlight, Running, ResultPending
<1> QED
  BY <1>1, <1>2, <1>3, <1>4 DEF Worker

(* A handler that leaves the ready queue alone takes the node of a result  *)
(* out of flight and moves no other.                                       *)
LEMMA ReceiveEffect ==
    ASSUME TypeInv, SafetyInv, MayReceive, eventQueue' = Tail(eventQueue), held' = held,
           NEW ev \in Event, ev = Head(eventQueue), NEW m \in Nodes
    PROVE  /\ Running(m)' <=> Running(m)
           /\ ~(ev.kind \in ResultKinds /\ ev.node = m) => (ResultPending(m)' <=> ResultPending(m))
           /\ ev.kind \in ResultKinds /\ ev.node = m =>
                 ResultPending(m) /\ ~ResultPending(m)' /\ ~Running(m) /\ readyQueue[m] = 0
<1>1. eventQueue \in Seq(Event) /\ eventQueue # <<>>
  BY DEF TypeInv, TypeOK, QueueTypes, MayReceive
<1>2. (ResultPending(m)' => ResultPending(m)) /\ (Running(m)' <=> Running(m))
  BY ReceiveKeeps
<1>3. ~(ev.kind \in ResultKinds /\ ev.node = m) /\ ResultPending(m) => ResultPending(m)'
  BY <1>1, QueueKeeps
<1>4. ev.kind \in ResultKinds /\ ev.node = m =>
         ResultPending(m) /\ ~ResultPending(m)' /\ ~Running(m) /\ readyQueue[m] = 0
  BY ReceiveResult
<1> QED
  BY <1>2, <1>3, <1>4

(* The handlers that move no other node: what happens to the node n of the *)
(* event and to the executing set.                                         *)
LEMMA HandleEffect ==
    ASSUME TypeInv, SafetyInv, NEW ev \in Event, NEW n \in Nodes, n = ev.node,
           \/ HandleStarted(ev) \/ HandlePauseRequested(ev) \/ HandleRetry(ev) \/ HandleFatal(ev)
    PROVE  /\ \A m \in Nodes : m # n => (InFlight(m)' <=> InFlight(m)) /\ (Waiting(m)' <=> Waiting(m))
           /\ HandleStarted(ev) => /\ InFlight(n)' <=> InFlight(n)
                                   /\ UNCHANGED <<executing, pausedNodes, deferredNodes>>
           /\ HandleRetry(ev) => /\ InFlight(n) /\ InFlight(n)' /\ executing' = executing \union {n}
                                 /\ UNCHANGED <<pausedNodes, deferredNodes>>
           /\ HandlePauseRequested(ev) => /\ InFlight(n) /\ ~InFlight(n)' /\ executing' = executing \ {n}
                                          /\ Waiting(n)'
           /\ HandleFatal(ev) => /\ InFlight(n) /\ ~InFlight(n)' /\ executing' = executing \ {n}
                                 /\ UNCHANGED <<pausedNodes, deferredNodes>>
<1>1. /\ MayReceive /\ ev = Head(eventQueue) /\ eventQueue' = Tail(eventQueue) /\ held' = held
  BY ReceiveFrame DEF HandleStarted, HandlePauseRequested, HandleRetry, HandleFatal
<1>2. ASSUME NEW m \in Nodes
      PROVE  /\ Running(m)' <=> Running(m)
             /\ ~(ev.kind \in ResultKinds /\ n = m) => (ResultPending(m)' <=> ResultPending(m))
             /\ ev.kind \in ResultKinds /\ n = m =>
                   ResultPending(m) /\ ~ResultPending(m)' /\ ~Running(m) /\ readyQueue[m] = 0
  BY <1>1, ReceiveEffect
<1>3. readyQueue \in [Nodes -> Nat]
  BY DEF TypeInv, TypeOK, GraphTypes
<1>4. CASE HandleStarted(ev)
  <2>1. ev.kind = "started" /\ UNCHANGED schedVars
    BY <1>4 DEF HandleStarted
  <2> QED
    BY <1>2, <2>1 DEF HandlePauseRequested, HandleRetry, HandleFatal, InFlight, Waiting, ResultKinds, schedVars
<1>5. CASE HandlePauseRequested(ev)
  <2>1. /\ ev.kind = "pause" /\ executing' = executing \ {n} /\ pausedNodes' = pausedNodes \union {n}
        /\ UNCHANGED <<readyQueue, deferredNodes>>
    BY <1>5 DEF HandlePauseRequested, finish_execution, register_paused_node
  <2> QED
    BY <1>2, <1>3, <2>1 DEF HandleStarted, HandleRetry, HandleFatal, InFlight, Waiting, ResultKinds
<1>6. CASE HandleRetry(ev)
  <2>1. /\ ev.kind = "failed" /\ executing' = executing \union {n}
        /\ readyQueue' = [m \in Nodes |-> IF m \in {n} THEN readyQueue[m] + 1 ELSE readyQueue[m]]
        /\ UNCHANGED <<pausedNodes, deferredNodes>>
    BY <1>6 DEF HandleRetry, enqueue_nodes, start_execution
  <2>2. /\ readyQueue'[n] = readyQueue[n] + 1 /\ readyQueue[n] \in Nat
        /\ \A m \in Nodes : m # n => readyQueue'[m] = readyQueue[m]
    BY <1>3, <2>1
  <2>3. ~HandleFatal(ev) /\ ~HandleStarted(ev) /\ ~HandlePauseRequested(ev)
    BY <1>6 DEF HandleStarted, HandlePauseRequested, HandleRetry, HandleFatal
  <2> QED
    BY <1>2, <2>1, <2>2, <2>3 DEF InFlight, Waiting, ResultKinds
<1>7. CASE HandleFatal(ev)
  <2>1. /\ ev.kind = "failed" /\ executing' = executing \ {n}
        /\ UNCHANGED <<readyQueue, pausedNodes, deferredNodes>>
    BY <1>7 DEF HandleFatal, finish_execution
  <2>2. ~HandleRetry(ev) /\ ~HandleStarted(ev) /\ ~HandlePauseRequested(ev)
    BY <1>7 DEF HandleStarted, HandlePauseRequested, HandleRetry, HandleFatal
  <2> QED
    BY <1>2, <1>3, <2>1, <2>2 DEF InFlight, Waiting, ResultKinds
<1> QED
  BY <1>4, <1>5, <1>6, <1>7

(* The graph moves on past node n: n is out of flight, what is queued is   *)
(* in flight, what is deferred waits.                                      *)
Moved(n, chosen, dropped, defer, queued, k) ==
    /\ Completes(edgeState, Active, n, dropped, chosen)
    /\ \A e \in get_outgoing_edges(n) : e \in dropped \union chosen
    /\ queued = ScheduledBy(WokenBySkip(edgeState, dropped),
                            ReadyAfter(edgeState, dropped, chosen), defer)
    /\ edgeState' = EdgesAfter(edgeState, dropped, chosen)
    /\ nodeState' = MarkNodes(queued, dropped)
    /\ executing' = (executing \union queued) \ {n}
    /\ collect(n, k)
    /\ UNCHANGED <<started, aborted, error>>
    /\ InFlight(n) /\ n \notin queued
    /\ \A m \in Nodes :
          /\ InFlight(m)' <=> (InFlight(m) /\ m # n) \/ m \in queued
          /\ Waiting(m)' <=> \/ Waiting(m)
                             \/ defer /\ m \in ReadyAfter(edgeState, dropped, chosen)

LEMMA MovesOn ==
    ASSUME TypeInv, SafetyInv, NEW ev \in Event, NEW n \in Nodes, n = ev.node,
           HandleSucceeded(ev) \/ HandleException(ev)
    PROVE  \E chosen \in SUBSET get_outgoing_edges(n), dropped \in SUBSET Edges, defer \in BOOLEAN,
              queued \in SUBSET Nodes, k \in {"succeeded", "exception"} :
              Moved(n, chosen, dropped, defer, queued, k)
<1>1. PICK chosen \in SUBSET get_outgoing_edges(n), defer \in BOOLEAN, k \in {"succeeded", "exception"} :
         /\ Receive(ev) /\ ev.kind \in ResultKinds
         /\ Advance(n, chosen, defer) /\ collect(n, k)
         /\ n \notin Branch => chosen = get_outgoing_edges(n)
         /\ UNCHANGED <<started, aborted, error>>
  BY AdvanceForm
<1>2. chosen \subseteq get_outgoing_edges(n)
  OBVIOUS
<1>3. PICK dropped : dropped = IF n \in Branch THEN get_outgoing_edges(n) \ chosen ELSE {}
  OBVIOUS
<1>4. dropped \in SUBSET Edges
  BY <1>3 DEF get_outgoing_edges
<1>5. PICK woken : woken = WokenBySkip(edgeState, dropped)
  OBVIOUS
<1>6. PICK ready : ready = ReadyAfter(edgeState, dropped, chosen)
  OBVIOUS
<1>7. PICK queued : queued = ScheduledBy(woken, ready, defer)
  OBVIOUS
<1>8. /\ MayReceive /\ ev = Head(eventQueue) /\ eventQueue' = Tail(eventQueue) /\ held' = held
  BY <1>1, ReceiveFrame
<1>9. ASSUME NEW m \in Nodes
      PROVE  /\ Running(m)' <=> Running(m)
             /\ n # m => (ResultPending(m)' <=> ResultPending(m))
             /\ n = m => ResultPending(m) /\ ~ResultPending(m)' /\ ~Running(m) /\ readyQueue[m] = 0
  BY <1>1, <1>8, ReceiveEffect
<1>10. InFlight(n) /\ n \in Active /\ ResultPending(n)
  BY <1>9 DEF InFlight, Active
<1>11. Completes(edgeState, Active, n, dropped, chosen)
  BY <1>2, <1>3, <1>10, MayComplete
<1>12. woken \subseteq Nodes /\ ready \subseteq Nodes /\ n \notin woken \union ready
  <2>1. \A m \in woken \union ready : m \notin Active
    BY <1>5, <1>6, <1>11, ConsistentAfter
  <2>2. woken \subseteq Nodes /\ ready \subseteq Nodes
    BY <1>5, <1>6, <1>11, NewlyReady
  <2> QED
    BY <1>10, <2>1, <2>2
<1>13. queued \subseteq Nodes /\ n \notin queued
  BY <1>7, <1>12 DEF ScheduledBy
<1>14. /\ readyQueue' = [m \in Nodes |-> IF m \in queued THEN readyQueue[m] + 1 ELSE readyQueue[m]]
       /\ executing' = (executing \union queued) \ {n}
       /\ deferredNodes' = IF defer THEN deferredNodes \union ready ELSE deferredNodes
       /\ pausedNodes' = pausedNodes
  BY <1>1, <1>3, <1>5, <1>6, <1>7 DEF Advance, enqueue_nodes, start_execution, register_deferred_node
<1>15. readyQueue \in [Nodes -> Nat]
  BY DEF TypeInv, TypeOK, GraphTypes
<1>16. ASSUME NEW m \in Nodes
       PROVE  /\ InFlight(m)' <=> (InFlight(m) /\ m # n) \/ m \in queued
              /\ Waiting(m)' <=> Waiting(m) \/ (defer /\ m \in ready)
  <2>1. /\ m \in queued => readyQueue'[m] > 0
        /\ m \notin queued => readyQueue'[m] = readyQueue[m]
    BY <1>14, <1>15
  <2>2. InFlight(m)' <=> (InFlight(m) /\ m # n) \/ m \in queued
    BY <1>9, <1>13, <2>1, <1>15 DEF InFlight
  <2>3. Waiting(m)' <=> Waiting(m) \/ (defer /\ m \in ready)
    BY <1>14 DEF Waiting
  <2> QED
    BY <2>2, <2>3
<1>17. \A e \in get_outgoing_edges(n) : e \in dropped \union chosen
  BY <1>1, <1>3
<1> QED
  <2>1. /\ edgeState' = EdgesAfter(edgeState, dropped, chosen)
        /\ nodeState' = MarkNodes(queued, dropped)
    BY <1>1, <1>3, <1>5, <1>6, <1>7 DEF Advance
  <2>2. Moved(n, chosen, dropped, defer, queued, k)
    BY <1>1, <1>5, <1>6, <1>7, <1>10, <1>11, <1>13, <1>14, <1>16, <1>17, <2>1 DEF Moved
  <2>3. queued \in SUBSET Nodes /\ dropped \in SUBSET Edges
    BY <1>4, <1>13
  <2> QED
    BY <1>1, <2>2, <2>3, Zenon

(* A run starts: what waits for it, or the root, is in flight.             *)
LEMMA RunEffect ==
    ASSUME TypeInv, Run
    PROVE  /\ executing' = executing \union NodesToStart
           /\ \A m \in Nodes : /\ InFlight(m)' <=> InFlight(m) \/ m \in NodesToStart
                               /\ ~Waiting(m)'
<1>1. /\ readyQueue' = [m \in Nodes |-> IF m \in NodesToStart THEN readyQueue[m] + 1 ELSE readyQueue[m]]
      /\ executing' = executing \union NodesToStart
      /\ pausedNodes' = {} /\ deferredNodes' = {}
      /\ UNCHANGED <<held, eventQueue>>
  BY DEF Run, enqueue_nodes, start_execution, workerVars, eventVars
<1>2. readyQueue \in [Nodes -> Nat]
  BY DEF TypeInv, TypeOK, GraphTypes
<1>3. ASSUME NEW m \in Nodes PROVE InFlight(m)' <=> InFlight(m) \/ m \in NodesToStart
  <2>1. (Running(m)' <=> Running(m)) /\ (ResultPending(m)' <=> ResultPending(m))
    BY <1>1 DEF Running, ResultPending
  <2>2. /\ m \in NodesToStart => readyQueue'[m] > 0
        /\ m \notin NodesToStart => readyQueue'[m] = readyQueue[m]
    BY <1>1, <1>2
  <2> QED
    BY <2>1, <2>2 DEF InFlight
<1> QED
  BY <1>1, <1>3 DEF Waiting

(* A new engine has what the snapshot's ready queue has. *)
LEMMA ResumeEffect ==
    ASSUME Resume
    PROVE  /\ executing' = {}
           /\ \A m \in Nodes : /\ InFlight(m)' <=> savedReady[m] > 0
                               /\ Waiting(m)' <=> Waiting(m)
<1>1. /\ readyQueue' = savedReady /\ executing' = {} /\ eventQueue' = <<>>
      /\ UNCHANGED <<pausedNodes, deferredNodes>>
      /\ \A w \in Workers : held'[w] = NoNode
  BY DEF Resume
<1>2. DOMAIN eventQueue' = {}
  BY <1>1
<1>3. \A m \in Nodes : ~Running(m)' /\ ~ResultPending(m)'
  BY <1>1, <1>2, NodeAssumption DEF Running, ResultPending
<1> QED
  BY <1>1, <1>3 DEF InFlight, Waiting

(* The other steps. *)
LEMMA QuietEffect ==
    ASSUME QuietActions, NEW m
    PROVE  executing' = executing /\ (InFlight(m)' <=> InFlight(m)) /\ (Waiting(m)' <=> Waiting(m))
<1>1. UNCHANGED <<readyQueue, held, eventQueue, pausedNodes, deferredNodes>>
  BY QuietFrame DEF placeVars
<1>2. executing' = executing
  BY DEF QuietActions, WorkerExit, SendCommand, ReportResult, Close, StopExecution,
     PollCommands, HandleCommand, LeaveLoop, LeaveIdle, LeaveDrain, MarkComplete, vars, schedVars
<1> QED
  BY <1>1, <1>2 DEF InFlight, Running, ResultPending, Waiting

-----------------------------------------------------------------------------
(* The executing set *)

LEMMA WorkInit == Init => WorkInv
<1> SUFFICES ASSUME Init PROVE WorkInv
  OBVIOUS
<1>1. \A n \in Nodes : ~InFlight(n)
  BY SafetyInit DEF SafetyInv, FreshInv, Active, Init
<1>2. executing = {} /\ dpc = "off" /\ result = "none"
  BY DEF Init
<1> QED
  BY <1>1, <1>2, FlagInit DEF WorkInv, QuietInv, PastLoop, TrackedWork

(* Once the dispatcher no longer consults the set, it never does again in  *)
(* the same run.                                                           *)
LEMMA ConsultedBefore ==
    ASSUME TypeInv, FlagInv, [Next]_vars, ~Resume, Consulted'
    PROVE  Consulted
<1> USE DEF Consulted
<1>1. CASE UNCHANGED <<aborted, error, sawPause>>
  BY <1>1
<1>2. CASE HandleCommand
  BY <1>2 DEF HandleCommand, Abort, Pause
<1>3. CASE LeaveLoop
  BY <1>3 DEF LeaveLoop, Stopping, execVars
<1>4. ASSUME NEW ev, HandleFatal(ev) PROVE Consulted
  <2>1. /\ aborted' = aborted /\ sawPause' = sawPause /\ error' = "node"
        /\ dpc \notin {"finish", "done"}
    BY <1>4 DEF HandleFatal, Receive, MayReceive
  <2>2. error \in Errors
    BY DEF TypeInv, TypeOK, ThreadTypes
  <2> QED
    BY <2>1, <2>2 DEF FlagInv, ErrorFlags, Errors
<1>5. ASSUME NEW ev, HandlerRaises(ev) PROVE Consulted
  BY <1>5 DEF HandlerRaises
<1>6. ASSUME NEW ev, HandleSucceeded(ev) \/ HandleException(ev)
      PROVE  UNCHANGED <<aborted, error, sawPause>>
  BY <1>6, Zenon DEF HandleSucceeded, HandleException, Receive
<1>7. ASSUME NEW ev, HandleStarted(ev) \/ HandlePauseRequested(ev) \/ HandleRetry(ev)
      PROVE  UNCHANGED <<aborted, error, sawPause>>
  BY <1>7 DEF HandleStarted, HandlePauseRequested, HandleRetry, Receive
<1>8. ASSUME NEW w \in Workers, Worker(w) PROVE UNCHANGED <<aborted, error, sawPause>>
  BY <1>8 DEF Worker, WorkerTake, WorkerBegin, WorkerFinish, WorkerExit, execVars, dispVars
<1>9. CASE \/ PollCommands \/ LeaveIdle \/ LeaveDrain \/ MarkComplete
           \/ Run \/ ReportResult \/ StopExecution \/ Close
           \/ \E c \in Commands : SendCommand(c)
           \/ UNCHANGED vars
  BY <1>9 DEF PollCommands, LeaveIdle, LeaveDrain, MarkComplete, Run, ReportResult, StopExecution,
     Close, SendCommand, vars, execVars, dispVars
<1> QED
  BY <1>1, <1>2, <1>3, <1>4, <1>5, <1>6, <1>7, <1>8, <1>9
     DEF Next, Dispatcher, Handle, Caller, Environment

(* Past the loop nothing executes, so no result waits: the last drain      *)
(* handles nothing but announcements.                                      *)
LEMMA NothingPastLoop ==
    ASSUME WorkInv, PastLoop, Consulted, result # "closed", NEW n \in Nodes
    PROVE  ~InFlight(n)
BY DEF WorkInv, QuietInv, TrackedWork, Consulted

(* The handlers keep the executing set equal to the nodes in flight, and   *)
(* leave it empty in the last drain.                                       *)
LEMMA HandleWork ==
    ASSUME TypeInv, SafetyInv, WorkInv, [Next]_vars, eventQueue # <<>>, Handle(Head(eventQueue))
    PROVE  (QuietInv /\ TrackedWork)'
<1>1. PICK ev \in Event : ev = Head(eventQueue)
  BY HeadTailProperties DEF TypeInv, TypeOK, QueueTypes
<1>2. PICK n \in Nodes : n = ev.node
  BY EventFacts
<1>3. MayReceive /\ UNCHANGED <<aborted, sawPause, result, savedReady>> /\ Handle(ev)
  <2>1. Handle(ev)
    BY <1>1
  <2> QED
    BY <2>1 DEF Handle, HandleStarted, HandleSucceeded, HandlePauseRequested, HandleRetry,
       HandleFatal, HandleException, HandlerRaises, Receive, callerVars
<1>4. result # "paused"
  BY <1>3 DEF WorkInv, FlagInv, CallerFlags, MayReceive
<1>5. CASE ~Consulted'
  BY <1>3, <1>4, <1>5 DEF Consulted, QuietInv, TrackedWork
<1>6. CASE Consulted'
  <2>1. Consulted
    BY <1>3, <1>6, ConsultedBefore DEF WorkInv, MayReceive, Resume, FlagInv, CallerFlags
  <2>2. Receive(ev) /\ ~HandlerRaises(ev)
    BY <1>3, <1>6 DEF Consulted, Handle, HandleStarted, HandleSucceeded, HandlePauseRequested,
       HandleRetry, HandleFatal, HandleException, HandlerRaises
  <2>3. PastLoop' => PastLoop
    BY <1>3, <2>2 DEF PastLoop, Receive, MayReceive
  <2>4. ASSUME PastLoop', result # "closed" PROVE HandleStarted(ev) /\ executing = {}
    <3>1. ~InFlight(n) /\ executing = {}
      BY <2>1, <2>3, <2>4, NothingPastLoop DEF WorkInv, QuietInv
    <3>2. ~HandlePauseRequested(ev) /\ ~HandleRetry(ev) /\ ~HandleFatal(ev)
      BY <1>2, <3>1, HandleEffect
    <3>3. ~(HandleSucceeded(ev) \/ HandleException(ev))
      BY <1>2, <3>1, AdvanceForm, ReceiveFrame, ReceiveResult DEF InFlight
    <3> QED
      BY <1>3, <2>2, <3>1, <3>2, <3>3 DEF Handle
  <2>5. \A m \in Nodes : InFlight(m) <=> m \in executing
    BY <2>1 DEF WorkInv, TrackedWork, Consulted
  <2>6. CASE HandleSucceeded(ev) \/ HandleException(ev)
    <3>1. PICK chosen \in SUBSET get_outgoing_edges(n), dropped \in SUBSET Edges, defer \in BOOLEAN,
               queued \in SUBSET Nodes, k \in {"succeeded", "exception"} :
             Moved(n, chosen, dropped, defer, queued, k)
      BY <1>2, <2>6, MovesOn
    <3>5. /\ n \notin queued /\ executing' = (executing \union queued) \ {n}
          /\ \A m \in Nodes : InFlight(m)' <=> (InFlight(m) /\ m # n) \/ m \in queued
      BY <3>1 DEF Moved
    <3>6. TrackedWork'
      BY <2>5, <3>5 DEF TrackedWork
    <3>7. ~(PastLoop' /\ result # "closed")
      BY <2>4, <2>6 DEF HandleStarted, HandleSucceeded, HandleException
    <3> QED
      BY <1>3, <1>4, <3>6, <3>7 DEF QuietInv
  <2>7. CASE HandleStarted(ev) \/ HandlePauseRequested(ev) \/ HandleRetry(ev) \/ HandleFatal(ev)
    <3>1. /\ \A m \in Nodes : m # n => (InFlight(m)' <=> InFlight(m))
          /\ \/ (InFlight(n)' <=> InFlight(n)) /\ executing' = executing
             \/ InFlight(n)' /\ executing' = executing \union {n}
             \/ ~InFlight(n)' /\ executing' = executing \ {n}
          /\ HandleStarted(ev) => executing' = executing
      <4>1. CASE HandleStarted(ev)
        <5>1. /\ \A m \in Nodes : m # n => (InFlight(m)' <=> InFlight(m))
              /\ (InFlight(n)' <=> InFlight(n)) /\ executing' = executing
          BY <1>2, <4>1, HandleEffect
        <5> QED
          BY <5>1
      <4>2. CASE HandlePauseRequested(ev)
        BY <1>2, <2>2, <4>2, HandleEffect DEF HandleStarted, HandlePauseRequested
      <4>3. CASE HandleRetry(ev)
        BY <1>2, <4>3, HandleEffect DEF HandleStarted, HandleRetry
      <4>4. CASE HandleFatal(ev)
        BY <1>2, <4>4, HandleEffect DEF HandleStarted, HandleFatal
      <4> QED
        BY <2>7, <4>1, <4>2, <4>3, <4>4
    <3>2. TrackedWork'
      BY <2>5, <3>1 DEF TrackedWork
    <3>3. PastLoop' /\ result # "closed" => executing' = {}
      BY <2>4, <3>1
    <3> QED
      BY <1>3, <1>4, <3>2, <3>3 DEF QuietInv
  <2> QED
    BY <1>3, <2>2, <2>6, <2>7 DEF Handle
<1> QED
  BY <1>5, <1>6

(* Where the dispatcher goes on after a poll. *)
LEMMA AfterPollCases ==
    ASSUME TypeInv
    PROVE  \/ AfterPoll = "drain" /\ after = "exit" /\ ~sawPause
           \/ AfterPoll \in {"loop", "idle"}
BY DEF AfterPoll, TypeInv, TypeOK, ThreadTypes

(* The other steps of the dispatcher, the caller and the environment move  *)
(* no node; the dispatcher passes its loop, or ends the drain of a pause,  *)
(* only when nothing executes, or when the set no longer counts.           *)
LEMMA QuietWork ==
    ASSUME TypeInv, SafetyInv, WorkInv, [Next]_vars, QuietActions
    PROVE  (QuietInv /\ TrackedWork)'
<1>1. \A m : executing' = executing /\ (InFlight(m)' <=> InFlight(m))
  BY QuietEffect
<1>2. ~Resume
  BY DEF QuietActions, Resume, WorkerExit, SendCommand, ReportResult, Close, StopExecution,
     PollCommands, HandleCommand, LeaveLoop, LeaveIdle, LeaveDrain, MarkComplete, vars, callerVars
<1>3. Consulted' => Consulted
  BY <1>2, ConsultedBefore DEF WorkInv
<1>4. TrackedWork'
  BY <1>1, <1>3 DEF TrackedWork, WorkInv, Consulted
<1>5. CASE LeaveLoop
  <2>1. /\ dpc = "loop" /\ sawPause' = ~Stopping
        /\ UNCHANGED <<aborted, error, result, savedReady, executing, completed>>
    BY <1>5 DEF LeaveLoop, execVars, callerVars, schedVars
  <2>2. PastLoop' /\ Consulted' => error = "none" /\ ~aborted /\ Stopping
    <3>1. dpc' = "poll"
      BY <1>5 DEF LeaveLoop
    <3>2. Stopping => ~sawPause'
      BY <2>1
    <3>3. ~Stopping => sawPause' /\ error = "none"
      BY <2>1 DEF Stopping
    <3> QED
      BY <2>1, <3>1, <3>2, <3>3 DEF PastLoop, Consulted
  <2>3. dispatcherStop => result = "closed"
    BY <2>1 DEF WorkInv, FlagInv, CallerFlags
  <2> QED
    BY <2>1, <2>2, <2>3, <1>4 DEF QuietInv, Stopping, IsExecutionComplete, WorkInv
<1>6. CASE LeaveIdle
  <2>1. /\ dpc = "idle" /\ (dispatcherStop \/ executing = {})
        /\ UNCHANGED <<aborted, error, result, savedReady, executing>>
    BY <1>6 DEF LeaveIdle, execVars, callerVars, schedVars
  <2>2. dispatcherStop => result = "closed"
    BY <2>1 DEF WorkInv, FlagInv, CallerFlags
  <2> QED
    BY <2>1, <2>2, <1>4 DEF QuietInv, WorkInv
<1>7. CASE ReportResult
  <2>1. /\ mpc = "running" /\ dpc = "done" /\ savedReady' = readyQueue
        /\ UNCHANGED <<executing, aborted, error>>
    BY <1>7 DEF ReportResult, schedVars, execVars
  <2>2. result = "none" /\ PastLoop
    BY <2>1 DEF WorkInv, FlagInv, CallerFlags, PastLoop
  <2>3. error = "none" => Consulted
    BY DEF Consulted, WorkInv, FlagInv, ErrorFlags
  <2>4. error = "none" => \A m \in Nodes : readyQueue[m] = 0
    BY <2>2, <2>3, NothingPastLoop DEF InFlight, TypeInv, TypeOK, GraphTypes
  <2>5. Consulted' => executing = {}
    BY <1>3, <2>2 DEF WorkInv, QuietInv
  <2> QED
    BY <2>1, <2>4, <2>5, <1>4 DEF QuietInv
<1>8. CASE Close
  <2>1. result' = "closed"
    BY <1>8 DEF Close
  <2> QED
    BY <2>1, <1>4 DEF QuietInv
<1>9. CASE ~LeaveLoop /\ ~LeaveIdle /\ ~ReportResult /\ ~Close
  <2>1. UNCHANGED <<result, savedReady>>
    BY <1>9 DEF QuietActions, WorkerExit, SendCommand, StopExecution,
       PollCommands, HandleCommand, LeaveDrain, MarkComplete, vars, callerVars
  <2>2. PastLoop' => PastLoop
    <3>1. CASE PollCommands \/ HandleCommand
      BY <3>1, AfterPollCases DEF PollCommands, HandleCommand, PastLoop
    <3>2. CASE LeaveDrain \/ MarkComplete
      BY <3>2 DEF LeaveDrain, MarkComplete, PastLoop
    <3>3. CASE UNCHANGED dispVars \/ StopExecution
      BY <3>3 DEF PastLoop, dispVars, StopExecution
    <3> QED
      BY <1>9, <3>1, <3>2, <3>3 DEF QuietActions, WorkerExit, SendCommand, vars
  <2>3. result = "paused" /\ error' = "none" => error = "none"
    BY <1>3, <1>9 DEF Consulted, QuietActions, WorkerExit, SendCommand, StopExecution,
       PollCommands, HandleCommand, LeaveDrain, MarkComplete, vars, execVars,
       WorkInv, FlagInv, CallerFlags
  <2> QED
    BY <1>1, <1>3, <1>4, <2>1, <2>2, <2>3 DEF QuietInv, WorkInv
<1> QED
  BY <1>5, <1>6, <1>7, <1>8, <1>9

LEMMA WorkStep == TypeInv /\ SafetyInv /\ WorkInv /\ [Next]_vars => WorkInv'
<1> SUFFICES ASSUME TypeInv, SafetyInv, WorkInv, [Next]_vars PROVE (QuietInv /\ TrackedWork)'
  BY FlagStep DEF WorkInv
<1>1. ASSUME NEW w \in Workers, Worker(w) PROVE (QuietInv /\ TrackedWork)'
  <2>1. \A m \in Nodes : InFlight(m)' <=> InFlight(m)
    BY <1>1, WorkerEffect
  <2>2. UNCHANGED <<executing, aborted, error, sawPause, dpc, after, result, savedReady>>
    BY <1>1 DEF Worker, WorkerTake, WorkerBegin, WorkerFinish, WorkerExit, schedVars, execVars,
       dispVars, callerVars
  <2> QED
    BY <2>1, <2>2 DEF WorkInv, QuietInv, TrackedWork, PastLoop, Consulted
<1>2. CASE eventQueue # <<>> /\ Handle(Head(eventQueue))
  BY <1>2, HandleWork
<1>3. CASE Run
  <2>1. /\ dpc' = "poll" /\ after' = "loop" /\ mpc = "new"
        /\ UNCHANGED <<aborted, error, sawPause, result>>
    BY <1>3 DEF Run
  <2>2. result = "none" /\ ~PastLoop'
    BY <2>1 DEF WorkInv, FlagInv, CallerFlags, PastLoop
  <2>3. Consulted' => Consulted
    BY <2>1 DEF Consulted
  <2> QED
    BY <1>3, <2>1, <2>2, <2>3, RunEffect DEF QuietInv, TrackedWork, WorkInv, Consulted
<1>4. CASE Resume
  <2>1. result = "paused" /\ dpc' = "off" /\ ~sawPause' /\ UNCHANGED <<aborted, error>> /\ result' = "none"
    BY <1>4 DEF Resume, execVars
  <2>2. Consulted' => error = "none"
    BY <2>1 DEF Consulted
  <2>3. error = "none" => \A m \in Nodes : savedReady[m] = 0
    BY <2>1 DEF WorkInv, QuietInv
  <2> QED
    BY <1>4, <2>1, <2>2, <2>3, ResumeEffect DEF QuietInv, TrackedWork, PastLoop, Consulted
<1>5. CASE QuietActions
  BY <1>5, QuietWork
<1> QED
  BY <1>1, <1>2, <1>3, <1>4, <1>5
     DEF Next, Dispatcher, Caller, Environment, QuietActions

LEMMA WorkAlways == Spec => [](TypeInv /\ SafetyInv /\ WorkInv)
BY TypeInit, TypeStep, SafetyInit, SafetyStep, WorkInit, WorkStep, PTL DEF Spec

(* The executing set is exactly the set of nodes in flight, as long as the *)
(* dispatcher decides by it.                                               *)
THEOREM WorkIsTracked == Spec => []TrackedWork
<1>1. WorkInv => TrackedWork
  BY DEF WorkInv
<1> QED
  BY <1>1, WorkAlways, PTL

-----------------------------------------------------------------------------
(* Nothing that could run is lost *)

Finished(n) == Done(n) \/ nodeState[n] = "skipped"

(* The paths have led to n, and n is not the root before its start. *)
Reached(n) == /\ is_node_ready(edgeState, n) /\ nodeState[n] # "skipped"
              /\ n \notin Strays /\ (started \/ n # Root)

(* A node that was reached is active or done, unless the run failed; a     *)
(* node that no path can reach is marked skipped; a node is done or        *)
(* skipped only when its incoming edges are decided, and if and only if    *)
(* its outgoing edges are; and nothing starts a stray.                     *)
ReachInv ==
    /\ error = "none" => \A n \in Nodes : Reached(n) => n \in Active \/ Done(n)
    /\ \A n \in Nodes : AllSkipped(edgeState, {}, n) => nodeState[n] = "skipped"
    /\ \A n \in Nodes : Finished(n) => /\ n \notin Strays /\ ~HasUnknown(edgeState, n)
                                       /\ \A e \in get_outgoing_edges(n) : edgeState[e] # "unknown"
    /\ \A e \in Edges : edgeState[e] # "unknown" => Finished(tail[e])
    /\ \A n \in Nodes : n \in Active \/ savedReady[n] > 0 => n \notin Strays

(* What an event that reaches the consumer adds to the log. *)
LEMMA CollectAdds ==
    ASSUME QueueTypes, NEW n \in Nodes, NEW k \in LogKinds, collect(n, k), NEW kinds, NEW m \in Nodes
    PROVE  HasLogged(m, kinds)' <=> HasLogged(m, kinds) \/ (m = n /\ k \in kinds)
<1> DEFINE s == collected[m]
<1>1. s \in Seq(LogKinds) /\ collected'[m] = IF m = n THEN Append(s, k) ELSE s
  BY DEF QueueTypes, collect
<1>2. HasLogged(m, kinds) <=> \E i \in DOMAIN s : s[i] \in kinds
  BY DEF HasLogged
<1> HIDE DEF s
<1>3. CASE m = n
  <2>1. /\ Len(s) \in Nat /\ DOMAIN s = 1 .. Len(s) /\ DOMAIN Append(s, k) = 1 .. Len(s) + 1
        /\ \A i \in 1 .. Len(s) : Append(s, k)[i] = s[i]
        /\ Append(s, k)[Len(s) + 1] = k
    BY <1>1
  <2>2. DOMAIN Append(s, k) = DOMAIN s \union {Len(s) + 1}
    BY <2>1
  <2>3. (\E i \in DOMAIN Append(s, k) : Append(s, k)[i] \in kinds)
          <=> (\E i \in DOMAIN s : s[i] \in kinds) \/ k \in kinds
    BY <2>1, <2>2
  <2>4. collected'[m] = Append(s, k)
    BY <1>1, <1>3
  <2> QED
    BY <1>2, <1>3, <2>3, <2>4 DEF HasLogged
<1>4. CASE m # n
  BY <1>1, <1>2, <1>4 DEF HasLogged
<1> QED
  BY <1>3, <1>4

LEMMA ReachInit == Init => ReachInv
<1> SUFFICES ASSUME Init PROVE ReachInv
  OBVIOUS
<1> DEFINE blank == [e \in Edges |-> "unknown"]
           drop == UNION {get_outgoing_edges(n) : n \in InactiveRoots}
           marked == mark_edges_skipped(blank, drop)
           skipped == SkippedNodes(marked)
<1>1. /\ edgeState = skip_branch_paths(blank, drop)
      /\ \A n \in Nodes : nodeState[n] = IF n \in InactiveRoots \union skipped THEN "skipped" ELSE "unknown"
      /\ ~started /\ \A n \in Nodes : collected[n] = <<>>
  BY DEF Init
<1>2. \A e \in Edges : /\ marked[e] = IF tail[e] \in InactiveRoots THEN "skipped" ELSE "unknown"
                       /\ edgeState[e] = IF tail[e] \in skipped THEN "skipped" ELSE marked[e]
  BY <1>1 DEF mark_edges_skipped, skip_branch_paths, get_outgoing_edges
<1> HIDE DEF marked
<1>3. ASSUME NEW n \in Nodes PROVE ~Done(n)
  <2>1. collected[n] = <<>>
    BY <1>1
  <2>2. DOMAIN collected[n] = {}
    BY <2>1
  <2> QED
    BY <2>2 DEF Done, HasLogged
<1>4. ASSUME NEW n \in Nodes, Reached(n) PROVE FALSE
  <2>1. ~HasTaken(edgeState, n)
    BY <1>2 DEF HasTaken, get_incoming_edges
  <2>2. get_incoming_edges(n) = {} /\ n # Root
    BY <1>1, <1>4, <2>1 DEF Reached, is_node_ready
  <2> QED
    BY <1>1, <1>4, <2>2 DEF Reached, Strays
<1>5. ASSUME NEW n \in Nodes, Finished(n)
      PROVE  /\ n \notin Strays /\ ~HasUnknown(edgeState, n)
             /\ \A e \in get_outgoing_edges(n) : edgeState[e] # "unknown"
  <2>1. n \in InactiveRoots \/ n \in skipped
    BY <1>1, <1>3, <1>5 DEF Finished
  <2>2. \A e \in get_outgoing_edges(n) : edgeState[e] # "unknown"
    BY <1>2, <2>1 DEF get_outgoing_edges
  <2>3. CASE n \in InactiveRoots
    BY <2>2, <2>3, InactiveRootFacts DEF HasUnknown
  <2>4. CASE n \in skipped
    <3>1. AllSkipped(marked, skipped, n)
      BY <2>4, SkippedRule
    <3>2. n \notin Strays /\ ~HasUnknown(edgeState, n)
      BY <1>2, <3>1 DEF AllSkipped, Strays, HasUnknown, get_incoming_edges
    <3> QED
      BY <2>2, <3>2
  <2> QED
    BY <2>1, <2>3, <2>4
<1>6. ASSUME NEW n \in Nodes, AllSkipped(edgeState, {}, n) PROVE nodeState[n] = "skipped"
  <2>1. AllSkipped(marked, skipped, n)
    BY <1>2, <1>6 DEF AllSkipped, get_incoming_edges
  <2> QED
    BY <1>1, <2>1, SkippedClosed
<1>7. ASSUME NEW e \in Edges, edgeState[e] # "unknown" PROVE Finished(tail[e])
  <2>1. tail[e] \in InactiveRoots \union skipped /\ tail[e] \in Nodes
    BY <1>2, <1>7, GraphAssumption
  <2> QED
    BY <1>1, <2>1 DEF Finished
<1>8. \A n \in Nodes : n \notin Active /\ ~(savedReady[n] > 0)
  <2>1. ASSUME NEW n \in Nodes PROVE ~(savedReady[n] > 0)
    <3>1. savedReady[n] = 0 /\ ~(0 > 0)
      BY DEF Init
    <3> QED
      BY <3>1, Zenon
  <2>2. Active = {}
    BY <1>1, SafetyInit DEF SafetyInv, FreshInv
  <2> QED
    BY <2>1, <2>2, Zenon
<1> QED
  BY <1>4, <1>5, <1>6, <1>7, <1>8 DEF ReachInv

(* A step that decides no edge and completes no node: the nodes of S are   *)
(* moved to another state, which they are ready for, and are active then.  *)
(* Only the root, or what a snapshot holds, becomes active.                *)
LEMMA ReachMoved ==
    ASSUME ReachInv, edgeState' = edgeState, NEW S \in SUBSET Nodes,
           \A m \in S : is_node_ready(edgeState, m) /\ nodeState'[m] # "skipped" /\ m \in Active',
           \A m \in S : \A e \in get_outgoing_edges(m) : edgeState[e] = "unknown",
           \A m \in Nodes : m \in Active' => m \in Active \/ savedReady[m] > 0 \/ m = Root,
           savedReady' = savedReady \/ savedReady' = readyQueue,
           \A m \in Nodes \ S : nodeState'[m] = nodeState[m],
           started' = started \/ Root \in S,
           \A m \in Nodes : Done(m)' <=> Done(m),
           error' = "none" => error = "none" /\ \A m \in Nodes : m \in Active => m \in Active'
    PROVE  ReachInv'
<1>1. ASSUME NEW n \in Nodes, error' = "none", Reached(n)' PROVE n \in Active' \/ Done(n)'
  <2>1. CASE n \in S
    BY <2>1
  <2>2. CASE n \notin S
    <3>1. nodeState'[n] = nodeState[n] /\ (started' => started \/ n # Root)
      BY <2>2
    <3>2. Reached(n)
      BY <1>1, <3>1 DEF Reached
    <3> QED
      BY <1>1, <3>2 DEF ReachInv
  <2> QED
    BY <2>1, <2>2
<1>2. ASSUME NEW n \in Nodes, Finished(n)' PROVE Finished(n)
  BY <1>2 DEF Finished
<1>3. ASSUME NEW n \in Nodes, AllSkipped(edgeState, {}, n) PROVE nodeState'[n] = "skipped"
  <2>1. ~is_node_ready(edgeState, n)
    BY <1>3 DEF AllSkipped, is_node_ready, HasTaken
  <2> QED
    BY <1>3, <2>1 DEF ReachInv
<1>4. ASSUME NEW e \in Edges, edgeState[e] # "unknown" PROVE Finished(tail[e])'
  <2>1. tail[e] \in Nodes /\ e \in get_outgoing_edges(tail[e])
    BY GraphAssumption DEF get_outgoing_edges
  <2>2. Finished(tail[e]) /\ tail[e] \notin S
    BY <1>4, <2>1 DEF ReachInv
  <2> QED
    BY <2>1, <2>2 DEF Finished
<1>5. ASSUME NEW n \in Nodes, n \in Active' \/ savedReady'[n] > 0 PROVE n \notin Strays
  <2>1. n \in Active \/ savedReady[n] > 0 \/ n = Root
    BY <1>5 DEF Active, InFlight
  <2> QED
    BY <2>1, InactiveRootFacts DEF ReachInv
<1>6. \A n \in Nodes : Finished(n)' => /\ n \notin Strays /\ ~HasUnknown(edgeState, n)
                                      /\ \A e \in get_outgoing_edges(n) : edgeState[e] # "unknown"
  BY <1>2 DEF ReachInv
<1> QED
  BY <1>1, <1>3, <1>4, <1>5, <1>6 DEF ReachInv

(* The graph moves on past n. *)
LEMMA ReachAdvance ==
    ASSUME TypeInv, SafetyInv, ReachInv, NEW ev \in Event, NEW n \in Nodes, n = ev.node,
           HandleSucceeded(ev) \/ HandleException(ev)
    PROVE  ReachInv'
<1>0. PICK chosen \in SUBSET get_outgoing_edges(n), dropped \in SUBSET Edges, defer \in BOOLEAN,
           queued \in SUBSET Nodes, k \in {"succeeded", "exception"} :
         Moved(n, chosen, dropped, defer, queued, k)
  BY MovesOn
<1>1. /\ Completes(edgeState, Active, n, dropped, chosen)
      /\ \A e \in get_outgoing_edges(n) : e \in dropped \union chosen
      /\ queued = ScheduledBy(WokenBySkip(edgeState, dropped),
                              ReadyAfter(edgeState, dropped, chosen), defer)
      /\ collect(n, k) /\ UNCHANGED <<started, error>>
      /\ \A m \in Nodes :
            /\ InFlight(m)' <=> (InFlight(m) /\ m # n) \/ m \in queued
            /\ Waiting(m)' <=> \/ Waiting(m)
                               \/ defer /\ m \in ReadyAfter(edgeState, dropped, chosen)
  BY <1>0 DEF Moved
<1> DEFINE new == WokenBySkip(edgeState, dropped) \union ReadyAfter(edgeState, dropped, chosen)
           skipped == SkippedNodes(mark_edges_skipped(edgeState, dropped))
           es2 == EdgesAfter(edgeState, dropped, chosen)
<1>2. /\ edgeState' = es2
      /\ \A m \in Nodes : nodeState'[m] = IF m \in queued THEN "taken"
                                          ELSE IF m \in skipped THEN "skipped" ELSE nodeState[m]
  BY <1>0 DEF Moved, MarkNodes
<1>3. \A m \in Nodes : Done(m)' <=> Done(m) \/ m = n
  BY <1>1, CollectAdds DEF Done, TypeInv, TypeOK, LogKinds, ResultKinds
<1>4. /\ queued \subseteq new /\ \A m \in new : m \in queued \/ Waiting(m)'
      /\ \A m \in new : m \in Nodes /\ is_node_ready(es2, m)
  <2>1. \A m \in new : m \in Nodes /\ is_node_ready(es2, m)
    BY <1>1, NewlyReady
  <2> QED
    BY <1>1, <2>1 DEF ScheduledBy
<1>5. n \notin skipped /\ n \in Active
  <2>1. n \in Active
    BY <1>1 DEF Completes
  <2>2. \A m \in skipped : m \notin Active
    BY <1>1, SkipSparesActive
  <2> QED
    BY <2>1, <2>2
<1> HIDE DEF new, skipped, es2
<1>6. ASSUME NEW m \in Nodes, error' = "none", Reached(m)' PROVE m \in Active' \/ Done(m)'
  <2>1. CASE m \in new
    BY <1>1, <1>4, <2>1 DEF Active
  <2>2. CASE m \notin new
    <3>1. nodeState'[m] # "skipped" /\ is_node_ready(es2, m) /\ (started \/ m # Root)
      BY <1>1, <1>2, <1>6 DEF Reached
    <3>2. nodeState[m] # "skipped"
      BY <1>2, <1>4, <2>2, <3>1
    <3>3. is_node_ready(edgeState, m)
      BY <1>1, <2>2, <3>1, EveryReadyFound DEF new, es2
    <3>4. m \in Active \/ Done(m)
      BY <1>1, <1>6, <3>1, <3>2, <3>3 DEF Reached, ReachInv
    <3> QED
      BY <1>1, <1>3, <3>4 DEF Active
  <2> QED
    BY <2>1, <2>2
<1>7. ASSUME NEW m \in Nodes, Finished(m)', NEW e \in get_outgoing_edges(m)
      PROVE  es2[e] # "unknown"
  <2>1. e \in Edges /\ tail[e] = m
    BY DEF get_outgoing_edges
  <2>2. CASE m = n \/ m \in skipped
    BY <1>1, <2>1, <2>2, SettledAfter DEF skipped, es2
  <2>3. CASE Finished(m)
    <3>1. edgeState[e] # "unknown"
      BY <2>3 DEF ReachInv
    <3> QED
      BY <1>1, <2>1, <3>1, DecidedStays DEF es2
  <2> QED
    BY <1>2, <1>3, <1>7, <2>2, <2>3 DEF Finished
<1>8. ASSUME NEW m \in Nodes, AllSkipped(es2, {}, m) PROVE nodeState'[m] = "skipped"
  <2>1. m \in skipped
    BY <1>1, <1>8, SkipReaches DEF es2, skipped
  <2>2. ~is_node_ready(es2, m)
    BY <1>8 DEF AllSkipped, is_node_ready, HasTaken
  <2> QED
    BY <1>2, <1>4, <2>1, <2>2
<1>9. ASSUME NEW m \in new PROVE m \in Nodes /\ m \notin Strays
  <2>1. HasUnknown(edgeState, m)
    BY <1>1, NewlyReady DEF new
  <2> QED
    BY <1>4, <2>1 DEF HasUnknown, Strays
<1>10. ASSUME NEW m \in Nodes, m \in skipped PROVE m \notin Strays /\ ~HasUnknown(es2, m)
  <2>1. AllSkipped(mark_edges_skipped(edgeState, dropped), skipped, m)
    BY <1>10, SkippedRule DEF skipped
  <2>2. ASSUME NEW e \in get_incoming_edges(m) PROVE es2[e] # "unknown"
    <3>1. e \in Edges
      BY DEF get_incoming_edges
    <3>2. CASE tail[e] \in skipped
      BY <1>1, <3>1, <3>2, SettledAfter DEF skipped, es2
    <3>3. CASE e \in dropped
      BY <1>1, <3>1, <3>3, SettledAfter DEF es2
    <3>4. CASE e \notin dropped /\ edgeState[e] = "skipped"
      BY <1>1, <3>1, <3>4, DecidedStays DEF es2
    <3> QED
      BY <2>1, <3>1, <3>2, <3>3, <3>4 DEF AllSkipped, mark_edges_skipped
  <2> QED
    BY <2>1, <2>2 DEF AllSkipped, Strays, HasUnknown
<1>11. ASSUME NEW m \in Nodes, Finished(m)' PROVE m \notin Strays /\ ~HasUnknown(es2, m)
  <2>1. CASE m = n
    <3>1. is_node_ready(edgeState, n) /\ n \notin Strays
      BY <1>5 DEF SafetyInv, EdgeInv, Consistent, ReachInv
    <3>2. ~HasUnknown(edgeState, n)
      BY <3>1 DEF is_node_ready, HasUnknown
    <3> QED
      BY <1>1, <2>1, <3>1, <3>2, ReadyStays DEF es2
  <2>2. CASE m \in skipped
    BY <1>10, <2>2
  <2>3. CASE Finished(m)
    BY <1>1, <2>3, ReadyStays DEF ReachInv, es2
  <2> QED
    BY <1>2, <1>3, <1>11, <2>1, <2>2, <2>3 DEF Finished
<1>12. ASSUME NEW e \in Edges, es2[e] # "unknown" PROVE Finished(tail[e])'
  <2>1. tail[e] \in Nodes
    BY GraphAssumption
  <2>2. CASE tail[e] = n
    BY <1>3, <2>1, <2>2 DEF Finished
  <2>3. CASE tail[e] \in skipped
    BY <1>2, <1>4, <1>10, <2>1, <2>3, NewlyReady, <1>1 DEF Finished, new, skipped
  <2>4. CASE tail[e] # n /\ tail[e] \notin skipped
    <3>1. e \notin chosen /\ e \notin dropped
      BY <1>1, <2>4 DEF Completes, get_outgoing_edges
    <3>2. edgeState[e] = es2[e]
      BY <1>1, <2>4, <3>1, EdgeChanges DEF skipped, es2
    <3>3. Finished(tail[e]) /\ ~HasUnknown(edgeState, tail[e])
      BY <1>12, <2>1, <3>2 DEF ReachInv
    <3>4. tail[e] \notin new
      BY <1>1, <3>3, NewlyReady DEF new
    <3> QED
      BY <1>2, <1>3, <1>4, <2>1, <2>4, <3>3, <3>4 DEF Finished
  <2> QED
    BY <2>2, <2>3, <2>4
<1>13. ASSUME NEW m \in Nodes, m \in Active' \/ savedReady'[m] > 0 PROVE m \notin Strays
  <2>1. savedReady' = savedReady
    BY DEF HandleSucceeded, HandleException, Receive, callerVars
  <2>2. m \in Active \/ savedReady[m] > 0 \/ m \in new
    BY <1>1, <1>4, <1>13, <2>1 DEF Active, new
  <2> QED
    BY <1>9, <2>2 DEF ReachInv
<1> QED
  BY <1>2, <1>6, <1>7, <1>8, <1>11, <1>12, <1>13 DEF ReachInv

LEMMA ReachStep == TypeInv /\ SafetyInv /\ WorkInv /\ ReachInv /\ [Next]_vars => ReachInv'
<1> SUFFICES ASSUME TypeInv, SafetyInv, WorkInv, ReachInv, [Next]_vars PROVE ReachInv'
  OBVIOUS
<1>1. \A m \in Active : /\ is_node_ready(edgeState, m)
                        /\ \A e \in get_outgoing_edges(m) : edgeState[e] = "unknown"
  BY DEF SafetyInv, EdgeInv, Consistent
\* A step that leaves the graph and the log alone.
<1>2. ASSUME UNCHANGED <<graphVars, started, collected>>,
             savedReady' = savedReady \/ savedReady' = readyQueue,
             \A m \in Nodes : m \in Active' => m \in Active \/ savedReady[m] > 0,
             error' = "none" => error = "none" /\ \A m \in Nodes : m \in Active => m \in Active'
      PROVE  ReachInv'
  <2>1. \A m \in Nodes : Done(m)' <=> Done(m)
    BY <1>2 DEF Done, HasLogged
  <2>2. /\ edgeState' = edgeState /\ \A m \in Nodes \ {} : nodeState'[m] = nodeState[m]
        /\ started' = started \/ Root \in {}
    BY <1>2 DEF graphVars
  <2>3. {} \in SUBSET Nodes
    OBVIOUS
  <2> QED
    BY <1>2, <2>1, <2>2, <2>3, ReachMoved
<1>3. ASSUME NEW w \in Workers, Worker(w) PROVE ReachInv'
  <2>1. \A m \in Nodes : (InFlight(m)' <=> InFlight(m)) /\ (Waiting(m)' <=> Waiting(m))
    <3>1. UNCHANGED <<pausedNodes, deferredNodes>>
      BY <1>3 DEF Worker, WorkerTake, WorkerBegin, WorkerFinish, WorkerExit, schedVars
    <3> QED
      BY <1>3, <3>1, WorkerEffect DEF Waiting
  <2>2. UNCHANGED <<graphVars, started, collected, error, savedReady>>
    BY <1>3 DEF Worker, WorkerTake, WorkerBegin, WorkerFinish, WorkerExit, execVars, eventVars,
                callerVars
  <2> QED
    BY <1>2, <2>1, <2>2 DEF Active
<1>4. CASE QuietActions
  <2>1. \A m \in Nodes : (InFlight(m)' <=> InFlight(m)) /\ (Waiting(m)' <=> Waiting(m))
    BY <1>4, QuietEffect
  <2>2. UNCHANGED <<graphVars, started, collected>>
    BY <1>4 DEF QuietActions, WorkerExit, SendCommand, ReportResult, Close, StopExecution,
       PollCommands, HandleCommand, LeaveLoop, LeaveIdle, LeaveDrain, MarkComplete, vars,
       execVars, eventVars
  <2>4. savedReady' = savedReady \/ savedReady' = readyQueue
    BY <1>4 DEF QuietActions, WorkerExit, SendCommand, ReportResult, Close, StopExecution,
       PollCommands, HandleCommand, LeaveLoop, LeaveIdle, LeaveDrain, MarkComplete, vars,
       callerVars
  <2>3. error' = "none" => error = "none"
    BY <1>4 DEF QuietActions, WorkerExit, SendCommand, ReportResult, Close, StopExecution,
       PollCommands, HandleCommand, LeaveLoop, LeaveIdle, LeaveDrain, MarkComplete, vars,
       execVars, Abort, Pause
  <2> QED
    BY <1>2, <2>1, <2>2, <2>3, <2>4 DEF Active
<1>5. CASE Resume
  <2>1. UNCHANGED <<graphVars, started, collected, error, savedReady>> /\ result = "paused"
    BY <1>5 DEF Resume, execVars
  <2>3. \A m \in Nodes : m \in Active' => m \in Active \/ savedReady[m] > 0
    BY <1>5, ResumeEffect DEF Active
  <2>2. ASSUME error = "none", NEW m \in Nodes, m \in Active PROVE m \in Active'
    <3>1. ~InFlight(m)
      BY <2>1, <2>2, NothingPastLoop DEF WorkInv, FlagInv, CallerFlags, ErrorFlags, PastLoop, Consulted
    <3> QED
      BY <1>5, <2>2, <3>1, ResumeEffect DEF Active
  <2> QED
    BY <1>2, <2>1, <2>2, <2>3
<1>6. CASE Run
  <2> DEFINE S == NodesToStart
  <2>1. /\ UNCHANGED <<edgeState, collected, error, savedReady>> /\ started'
        /\ \A m \in Nodes : nodeState'[m] = IF m \in S THEN "taken" ELSE nodeState[m]
    BY <1>6 DEF Run, eventVars
  <2>2. S \in SUBSET Nodes
    BY GraphAssumption DEF NodesToStart, TypeInv, TypeOK, GraphTypes
  <2>3. \A m \in Nodes : m \in S \/ m \in Active => m \in Active'
    BY <1>6, RunEffect DEF Active, NodesToStart, Waiting, SafetyInv, FreshInv
  <2>4. \A m \in S : /\ is_node_ready(edgeState, m)
                     /\ \A e \in get_outgoing_edges(m) : edgeState[e] = "unknown"
    BY <1>1, <2>2, GraphAssumption
       DEF NodesToStart, Active, Waiting, is_node_ready, SafetyInv, FreshInv
  <2>7. \A m \in Nodes : m \in Active' => m \in Active \/ m = Root
    BY <1>6, RunEffect DEF Active, NodesToStart, Waiting
  <2>5. started' = started \/ Root \in S
    BY <2>1 DEF NodesToStart, TypeInv, TypeOK, FlagTypes
  <2>6. \A m \in Nodes : Done(m)' <=> Done(m)
    BY <2>1 DEF Done, HasLogged
  <2> HIDE DEF S
  <2> QED
    BY <2>1, <2>2, <2>3, <2>4, <2>5, <2>6, <2>7, ReachMoved
<1>7. CASE eventQueue # <<>> /\ Handle(Head(eventQueue))
  <2>1. PICK ev \in Event : ev = Head(eventQueue)
    BY <1>7, HeadTailProperties DEF TypeInv, TypeOK, QueueTypes
  <2>2. PICK n \in Nodes : n = ev.node
    BY EventFacts
  <2>3. CASE HandleSucceeded(ev) \/ HandleException(ev)
    BY <2>2, <2>3, ReachAdvance
  <2>4. CASE HandlerRaises(ev)
    <3>1. error' = "internal" /\ UNCHANGED <<graphVars, started, collected, savedReady>>
      BY <2>4 DEF HandlerRaises, callerVars
    <3>2. \A m \in Nodes : m \in Active' => m \in Active
      <4>1. /\ MayReceive /\ eventQueue' = Tail(eventQueue)
            /\ UNCHANGED <<held, readyQueue, pausedNodes, deferredNodes>>
        BY <2>1, <2>4 DEF HandlerRaises, schedVars, workerVars
      <4>2. \A m \in Nodes : (ResultPending(m)' => ResultPending(m)) /\ (Running(m)' <=> Running(m))
        BY <4>1, ReceiveKeeps
      <4> QED
        BY <4>1, <4>2 DEF Active, InFlight, Waiting
    <3> QED
      BY <1>2, <3>1, <3>2
  <2>5. ASSUME NEW k \in {"started", "pause", "retry", "failed"}, collect(n, k) \/ UNCHANGED collected
        PROVE  \A m \in Nodes : Done(m)' <=> Done(m)
    <3>1. CASE collect(n, k)
      BY <3>1, <2>5, CollectAdds DEF Done, TypeInv, TypeOK, LogKinds, ResultKinds
    <3>2. CASE UNCHANGED collected
      BY <3>2 DEF Done, HasLogged
    <3> QED
      BY <2>5, <3>1, <3>2
  <2>6. CASE HandleStarted(ev)
    <3>1. UNCHANGED <<graphVars, error, savedReady>> /\ started' = started
      BY <2>6 DEF HandleStarted, Receive, callerVars
    <3>2. \A m \in Nodes : Done(m)' <=> Done(m)
      BY <2>2, <2>5, <2>6 DEF HandleStarted
    <3>3. \A m \in Nodes : m \in Active <=> m \in Active'
      BY <2>2, <2>6, HandleEffect DEF Active, Waiting
    <3>4. /\ {} \in SUBSET Nodes /\ \A m \in Nodes \ {} : nodeState'[m] = nodeState[m]
          /\ started' = started \/ Root \in {}
          /\ edgeState' = edgeState
      BY <3>1 DEF graphVars
    <3> QED
      BY <3>1, <3>2, <3>3, <3>4, ReachMoved
  <2>7. CASE HandleFatal(ev)
    <3>1. UNCHANGED <<graphVars, savedReady>> /\ started' = started /\ error' = "node"
      BY <2>7 DEF HandleFatal, Receive, callerVars
    <3>2. \A m \in Nodes : Done(m)' <=> Done(m)
      BY <2>2, <2>5, <2>7 DEF HandleFatal
    <3>4. /\ {} \in SUBSET Nodes /\ \A m \in Nodes \ {} : nodeState'[m] = nodeState[m]
          /\ started' = started \/ Root \in {}
          /\ edgeState' = edgeState
      BY <3>1 DEF graphVars
    <3>3. \A m \in Nodes : m \in Active' => m \in Active
      BY <2>2, <2>7, HandleEffect DEF Active, Waiting
    <3> QED
      BY <3>1, <3>2, <3>3, <3>4, ReachMoved
  <2>8. CASE HandlePauseRequested(ev) \/ HandleRetry(ev)
    <3>1. /\ UNCHANGED <<edgeState, error, started, savedReady>>
          /\ nodeState' \in {[nodeState EXCEPT ![n] = "unknown"], [nodeState EXCEPT ![n] = "taken"]}
      BY <2>2, <2>8 DEF HandlePauseRequested, HandleRetry, Receive, callerVars
    <3>2. \A m \in Nodes : Done(m)' <=> Done(m)
      BY <2>2, <2>5, <2>8 DEF HandlePauseRequested, HandleRetry
    <3>3. /\ InFlight(n) /\ n \in Active'
          /\ \A m \in Nodes : m # n => (m \in Active <=> m \in Active')
      BY <2>2, <2>8, HandleEffect DEF Active
    <3>4. n \in Active /\ is_node_ready(edgeState, n)
          /\ \A e \in get_outgoing_edges(n) : edgeState[e] = "unknown"
      BY <1>1, <3>3 DEF Active
    <3>5. /\ nodeState'[n] # "skipped" /\ \A m \in Nodes \ {n} : nodeState'[m] = nodeState[m]
          /\ {n} \in SUBSET Nodes
      BY <3>1 DEF TypeInv, TypeOK, GraphTypes
    <3>6. started' = started \/ Root \in {n}
      <4>1. started
        BY <3>3 DEF Active, SafetyInv, FreshInv
      <4> QED
        BY <3>1, <4>1
    <3> QED
      BY <3>1, <3>2, <3>3, <3>4, <3>5, <3>6, ReachMoved
  <2> QED
    BY <1>7, <2>1, <2>3, <2>4, <2>6, <2>7, <2>8 DEF Handle
<1> QED
  BY <1>3, <1>4, <1>5, <1>6, <1>7 DEF Next, Dispatcher, Caller, Environment, QuietActions

LEMMA ReachAlways == Spec => [](TypeInv /\ SafetyInv /\ WorkInv /\ ReachInv)
BY TypeInit, TypeStep, SafetyInit, SafetyStep, WorkInit, WorkStep, ReachInit, ReachStep, PTL DEF Spec

(* When a run has reported its result without an error, nothing is in      *)
(* flight, and the run was started.                                        *)
LEMMA NothingInFlight ==
    ASSUME SafetyInv, WorkInv, result \notin {"none", "closed"}, error = "none"
    PROVE  started /\ \A n \in Nodes : ~InFlight(n)
<1>1. dpc = "done" /\ mpc # "new" /\ ~aborted
  BY DEF WorkInv, FlagInv, CallerFlags, ErrorFlags
<1>2. started
  BY <1>1 DEF SafetyInv, FreshInv
<1> QED
  BY <1>1, <1>2, NothingPastLoop DEF PastLoop, Consulted

(* A node that is neither done nor skipped has a predecessor like it, once *)
(* every node that was reached is done.                                    *)
LEMMA UnfinishedBehind ==
    ASSUME TypeInv, ReachInv, NEW n \in Nodes, ~Finished(n), ~Reached(n), n \notin Strays, started
    PROVE  \E e \in get_incoming_edges(n) : ~Finished(tail[e])
<1>1. ~is_node_ready(edgeState, n)
  BY DEF Reached, Finished
<1>2. CASE HasUnknown(edgeState, n)
  <2>1. PICK e \in get_incoming_edges(n) : edgeState[e] = "unknown"
    BY <1>2 DEF HasUnknown
  <2>2. tail[e] \in Nodes /\ e \in get_outgoing_edges(tail[e])
    BY <2>1, GraphAssumption DEF get_incoming_edges, get_outgoing_edges
  <2> QED
    BY <2>1, <2>2 DEF ReachInv
<1>3. CASE ~HasUnknown(edgeState, n)
  <2>1. get_incoming_edges(n) # {} /\ ~HasTaken(edgeState, n)
    BY <1>1, <1>3 DEF is_node_ready
  <2>2. \A e \in get_incoming_edges(n) : edgeState[e] = "skipped"
    BY <1>3, <2>1 DEF HasUnknown, HasTaken, get_incoming_edges, TypeInv, TypeOK, GraphTypes, State
  <2> QED
    BY <2>1, <2>2 DEF ReachInv, AllSkipped, Finished
<1> QED
  BY <1>2, <1>3

(* What lies behind a stray is not finished: the unfinished nodes contain  *)
(* the strays, and with a node the heads of its edges.                     *)
LEMMA StuckUnfinished == ASSUME ReachInv, NEW n \in Stuck PROVE n \in Nodes /\ ~Finished(n)
<1> DEFINE T == {m \in Nodes : ~Finished(m)}
<1>1. Strays \subseteq T
  BY DEF ReachInv, Strays
<1>2. ASSUME NEW e \in Edges, tail[e] \in T PROVE head[e] \in T
  <2>1. edgeState[e] = "unknown" /\ head[e] \in Nodes
    BY <1>2, GraphAssumption DEF ReachInv
  <2>2. HasUnknown(edgeState, head[e])
    BY <2>1 DEF HasUnknown, get_incoming_edges
  <2> QED
    BY <2>1, <2>2 DEF ReachInv
<1>3. T \in SUBSET Nodes
  OBVIOUS
<1> HIDE DEF T
<1>4. n \in T
  BY <1>1, <1>2, <1>3 DEF Stuck, Downstream
<1> QED
  BY <1>4 DEF T

(* The strays and the heads of edges out of stuck nodes are stuck. *)
LEMMA StuckClosed ==
    /\ Strays \subseteq Stuck
    /\ \A e \in Edges : tail[e] \in Stuck => head[e] \in Stuck
BY GraphAssumption DEF Stuck, Downstream, Strays

(* A run that reports success has done all its work.  The nodes that are   *)
(* neither done nor skipped nor stuck would have one predecessor each      *)
(* among themselves, which the absence of cycles excludes.                 *)
THEOREM SuccessIsComplete == Spec => []SuccessMeansAllDone
<1>1. ASSUME TypeInv, SafetyInv, WorkInv, ReachInv PROVE SuccessMeansAllDone
  <2>1. SUFFICES ASSUME result \in {"succeeded", "partial"}
                 PROVE  \A n \in Nodes : ~InFlight(n) /\ (Finished(n) <=> n \notin Stuck)
    BY DEF SuccessMeansAllDone, Finished
  <2>2. error = "none" /\ ~paused
    BY <1>1, <2>1 DEF WorkInv, FlagInv, CallerFlags
  <2>3. started /\ \A n \in Nodes : ~InFlight(n)
    BY <1>1, <2>1, <2>2, NothingInFlight
  <2>4. \A n \in Nodes : ~Waiting(n)
    BY <1>1, <2>2 DEF WorkInv, FlagInv, PauseFlags, Waiting
  <2> DEFINE S == {n \in Nodes : ~Finished(n) /\ n \notin Stuck}
  <2>5. ASSUME NEW n \in S PROVE \E e \in get_incoming_edges(n) : tail[e] \in S
    <3>1. ~Reached(n)
      BY <1>1, <2>2, <2>3, <2>4, <2>5 DEF ReachInv, Active, Finished
    <3>2. n \notin Strays
      BY <2>5, StuckClosed
    <3>3. PICK e \in get_incoming_edges(n) : ~Finished(tail[e])
      BY <1>1, <2>3, <2>5, <3>1, <3>2, UnfinishedBehind
    <3>4. tail[e] \in Nodes /\ tail[e] \notin Stuck
      BY <2>5, <3>3, GraphAssumption, StuckClosed DEF get_incoming_edges
    <3> QED
      BY <3>3, <3>4
  <2>6. S = {}
    <3>1. S \in SUBSET Nodes
      OBVIOUS
    <3> HIDE DEF S
    <3> QED
      BY <2>5, <3>1, GraphAssumption
  <2> QED
    BY <1>1, <2>3, <2>6, StuckUnfinished
<1> QED
  BY <1>1, ReachAlways, PTL

(* A pause forgets nothing: what could run and has not completed is        *)
(* recorded for the resumption.                                            *)
THEOREM PauseKeepsAll == Spec => []NothingForgottenAtPause
<1>1. ASSUME TypeInv, SafetyInv, WorkInv, ReachInv PROVE NothingForgottenAtPause
  <2>1. SUFFICES ASSUME result = "paused", error = "none", NEW n \in Nodes
                 PROVE  /\ ~InFlight(n)
                        /\ is_node_ready(edgeState, n) /\ nodeState[n] # "skipped" /\ ~Done(n)
                           /\ n \notin Strays
                           => n \in pausedNodes \union deferredNodes
    BY DEF NothingForgottenAtPause
  <2>2. started /\ ~InFlight(n)
    BY <1>1, <2>1, NothingInFlight
  <2> QED
    BY <1>1, <2>1, <2>2 DEF ReachInv, Reached, Active, Waiting
<1> QED
  BY <1>1, ReachAlways, PTL

-----------------------------------------------------------------------------
(* Completion is final *)

Completed(n) == HasLogged(n, {"succeeded", "exception", "failed"})

(* A node that completed was reached, is not active and will not be active *)
(* on resumption; and a start that was announced and not yet handled is    *)
(* that of a node which still runs or whose result comes after it.         *)
CompletedAt(n) ==
    Completed(n) => /\ started /\ n \notin Active /\ is_node_ready(edgeState, n)
                    /\ result = "paused" => savedReady[n] = 0
StartedAt(i) ==
    eventQueue[i].kind = "started" =>
        \/ Running(eventQueue[i].node)
        \/ \E z \in DOMAIN eventQueue : /\ z > i /\ eventQueue[z].kind \in ResultKinds
                                        /\ eventQueue[z].node = eventQueue[i].node
LogInv ==
    /\ CompletionIsLast
    /\ \A n \in Nodes : CompletedAt(n)
    /\ \A i \in DOMAIN eventQueue : StartedAt(i)

LEMMA LogInit == Init => LogInv
<1> SUFFICES ASSUME Init PROVE LogInv
  OBVIOUS
<1>1. DOMAIN eventQueue = {} /\ \A n \in Nodes : DOMAIN collected[n] = {}
  BY DEF Init
<1> QED
  BY <1>1 DEF LogInv, CompletionIsLast, CompletedAt, Completed, HasLogged

(* A node whose event is next has not completed. *)
LEMMA NextIsOpen ==
    ASSUME TypeInv, LogInv, eventQueue # <<>>, NEW ev \in Event, ev = Head(eventQueue),
           NEW n \in Nodes, n = ev.node
    PROVE  ~Completed(n)
<1>1. /\ eventQueue \in Seq(Event) /\ 1 \in DOMAIN eventQueue /\ eventQueue[1] = ev
  BY DEF TypeInv, TypeOK, QueueTypes
<1>2. ev.kind \in ResultKinds \union {"started"}
  BY DEF Event, ResultKinds
<1>3. CASE ev.kind \in ResultKinds
  <2>1. ResultPending(n)
    BY <1>1, <1>3 DEF ResultPending
  <2> QED
    BY <2>1 DEF LogInv, CompletedAt, Active, InFlight
<1>4. CASE ev.kind = "started"
  <2>1. Running(n) \/ ResultPending(n)
    BY <1>1, <1>4 DEF LogInv, StartedAt, ResultPending
  <2> QED
    BY <2>1 DEF LogInv, CompletedAt, Active, InFlight
<1> QED
  BY <1>2, <1>3, <1>4

(* What reaches the consumer is appended to the log of a node that has not *)
(* completed.                                                              *)
LEMMA LogGrows ==
    ASSUME QueueTypes, CompletionIsLast, NEW n \in Nodes, NEW k \in LogKinds, collect(n, k), ~Completed(n)
    PROVE  CompletionIsLast'
<1>1. \A m \in Nodes : collected[m] \in Seq(LogKinds)
                       /\ collected'[m] = IF m = n THEN Append(collected[m], k) ELSE collected[m]
  BY DEF QueueTypes, collect
<1>2. SUFFICES ASSUME NEW m \in Nodes, NEW i \in DOMAIN collected'[m],
                      collected'[m][i] \in {"succeeded", "exception", "failed"}
               PROVE  i = Len(collected'[m])
  BY DEF CompletionIsLast
<1>3. CASE m # n
  BY <1>1, <1>2, <1>3 DEF CompletionIsLast
<1>4. CASE m = n
  <2> DEFINE s == collected[n]
  <2>1. s \in Seq(LogKinds) /\ collected'[m] = Append(s, k)
    BY <1>1, <1>4
  <2>2. \A x \in DOMAIN s : s[x] \notin {"succeeded", "exception", "failed"}
    BY DEF Completed, HasLogged
  <2> HIDE DEF s
  <2>3. /\ Len(s) \in Nat /\ DOMAIN s = 1 .. Len(s) /\ DOMAIN Append(s, k) = 1 .. Len(s) + 1
        /\ \A x \in 1 .. Len(s) : Append(s, k)[x] = s[x]
        /\ Len(Append(s, k)) = Len(s) + 1
    BY <2>1
  <2> QED
    BY <1>2, <2>1, <2>2, <2>3
<1> QED
  BY <1>3, <1>4

(* A node that completed stays out of every queue. *)
LEMMA CompletedKept ==
    ASSUME NEW n, CompletedAt(n), Completed(n)' => Completed(n),
           Completed(n) => /\ started' /\ is_node_ready(edgeState, n)'
                           /\ n \in Active' => n \in Active
                           /\ result' = "paused" => savedReady'[n] = 0
    PROVE  CompletedAt(n)'
BY DEF CompletedAt

(* The announcements that wait, when a worker moves. *)
LEMMA StartedWorker ==
    ASSUME TypeInv, LogInv, NEW w \in Workers, Worker(w)
    PROVE  \A i \in DOMAIN eventQueue' : StartedAt(i)'
<1>0. /\ eventQueue \in Seq(Event) /\ held \in [Workers -> Nodes \union {NoNode}] /\ NoNode \notin Nodes
      /\ \A i \in DOMAIN eventQueue : eventQueue[i].node \in Nodes
  <2>1. eventQueue \in Seq(Event)
    BY DEF TypeInv, TypeOK, QueueTypes
  <2>2. \A i \in DOMAIN eventQueue : eventQueue[i] \in Event
    BY <2>1
  <2> QED
    BY <2>1, <2>2, EventFacts, NodeAssumption DEF TypeInv, TypeOK, ThreadTypes
<1>1. \A i \in DOMAIN eventQueue : StartedAt(i)
  BY DEF LogInv
<1>2. ASSUME NEW n \in Nodes, WorkerTake(w, n) PROVE \A i \in DOMAIN eventQueue' : StartedAt(i)'
  <2>1. eventQueue' = eventQueue /\ held' = [held EXCEPT ![w] = n] /\ held[w] = NoNode
    BY <1>2 DEF WorkerTake, eventVars, TypeInv, HeldTypes
  <2>2. \A m \in Nodes : Running(m) => Running(m)'
    BY <1>0, <2>1 DEF Running
  <2> QED
    BY <1>0, <1>1, <2>1, <2>2 DEF StartedAt
<1>3. CASE WorkerExit(w)
  BY <1>1, <1>3 DEF WorkerExit, eventVars, StartedAt, Running
<1>4. PICK last : last = Len(eventQueue) + 1
  OBVIOUS
<1>5. ASSUME NEW ev, eventQueue' = Append(eventQueue, ev)
      PROVE  /\ DOMAIN eventQueue' = DOMAIN eventQueue \union {last}
             /\ \A i \in DOMAIN eventQueue : eventQueue'[i] = eventQueue[i] /\ last > i
             /\ eventQueue'[last] = ev
  <2>1. /\ Len(eventQueue) \in Nat /\ DOMAIN eventQueue = 1 .. Len(eventQueue)
        /\ DOMAIN eventQueue' = 1 .. Len(eventQueue) + 1
        /\ \A i \in 1 .. Len(eventQueue) : eventQueue'[i] = eventQueue[i]
        /\ eventQueue'[Len(eventQueue) + 1] = ev
    BY <1>0, <1>5
  <2> QED
    BY <2>1, <1>4
<1>6. CASE WorkerBegin(w)
  <2> DEFINE ev == [node |-> held[w], kind |-> "started"]
  <2>1. eventQueue' = Append(eventQueue, ev) /\ held' = held
    BY <1>6 DEF WorkerBegin
  <2>2. Running(ev.node) /\ ev.kind = "started"
    BY DEF Running
  <2> HIDE DEF ev
  <2>3. \A i \in DOMAIN eventQueue : StartedAt(i)'
    BY <1>1, <1>5, <2>1 DEF StartedAt, Running
  <2>4. StartedAt(last)'
    BY <1>5, <2>1, <2>2 DEF StartedAt, Running
  <2> QED
    BY <1>5, <2>1, <2>3, <2>4
<1>7. CASE WorkerFinish(w)
  <2>1. PICK n \in Nodes : n = held[w]
    BY <1>0, <1>7 DEF WorkerFinish, TypeInv, HeldTypes
  <2>2. PICK ev \in Outcomes(n) : eventQueue' = Append(eventQueue, ev)
    BY <1>7, <2>1 DEF WorkerFinish
  <2>3. ev.node = n /\ ev.kind \in ResultKinds /\ ev.kind # "started"
    BY <2>2 DEF Outcomes, ResultKinds
  <2>4. held' = [held EXCEPT ![w] = NoNode]
    BY <1>7 DEF WorkerFinish
  <2>5. \A m \in Nodes : Running(m) => Running(m)' \/ m = n
    BY <1>0, <2>1, <2>4 DEF Running
  <2>6. ASSUME NEW i \in DOMAIN eventQueue PROVE StartedAt(i)'
    <3>1. SUFFICES ASSUME eventQueue[i].kind = "started", ~Running(eventQueue[i].node)'
                   PROVE  \E z \in DOMAIN eventQueue' : /\ z > i /\ eventQueue'[z].kind \in ResultKinds
                                                        /\ eventQueue'[z].node = eventQueue[i].node
      BY <1>5, <2>2 DEF StartedAt
    <3>2. CASE eventQueue[i].node = n
      BY <1>5, <2>2, <2>3, <3>2
    <3>3. CASE eventQueue[i].node # n
      BY <1>0, <1>1, <1>5, <2>2, <2>5, <3>1, <3>3 DEF StartedAt
    <3> QED
      BY <3>2, <3>3
  <2>7. StartedAt(last)'
    BY <1>5, <2>2, <2>3 DEF StartedAt
  <2> QED
    BY <1>5, <2>2, <2>6, <2>7
<1> QED
  BY <1>2, <1>3, <1>6, <1>7 DEF Worker

(* The announcements that wait, when the dispatcher takes an event. *)
LEMMA StartedReceive ==
    ASSUME TypeInv, LogInv, eventQueue # <<>>, eventQueue' = Tail(eventQueue), held' = held
    PROVE  \A i \in DOMAIN eventQueue' : StartedAt(i)'
<1>1. /\ eventQueue \in Seq(Event)
      /\ \A i \in DOMAIN eventQueue : StartedAt(i)
  BY DEF TypeInv, TypeOK, QueueTypes, LogInv
<1>2. /\ Len(eventQueue) \in Nat /\ Len(eventQueue) > 0 /\ Len(eventQueue') = Len(eventQueue) - 1
      /\ DOMAIN eventQueue = 1 .. Len(eventQueue) /\ DOMAIN eventQueue' = 1 .. Len(eventQueue')
      /\ \A i \in 1 .. Len(eventQueue') : eventQueue'[i] = eventQueue[i + 1]
  BY <1>1
<1>3. SUFFICES ASSUME NEW i \in DOMAIN eventQueue', eventQueue'[i].kind = "started",
                      ~Running(eventQueue'[i].node)
               PROVE  \E z \in DOMAIN eventQueue' : /\ z > i /\ eventQueue'[z].kind \in ResultKinds
                                                    /\ eventQueue'[z].node = eventQueue'[i].node
  BY DEF StartedAt, Running
<1>4. i \in Nat /\ i + 1 \in DOMAIN eventQueue /\ eventQueue'[i] = eventQueue[i + 1]
  BY <1>2
<1>5. PICK z \in DOMAIN eventQueue : /\ z > i + 1 /\ eventQueue[z].kind \in ResultKinds
                                     /\ eventQueue[z].node = eventQueue'[i].node
  BY <1>1, <1>3, <1>4 DEF StartedAt
<1>6. z - 1 \in DOMAIN eventQueue' /\ z - 1 > i /\ eventQueue'[z - 1] = eventQueue[z]
  BY <1>2, <1>4, <1>5
<1> QED
  BY <1>5, <1>6

(* The graph moves on past n: n is completed and no longer active, and no  *)
(* node that completed before is scheduled again.                          *)
LEMMA LogAdvance ==
    ASSUME TypeInv, SafetyInv, LogInv, NEW ev \in Event, NEW n \in Nodes, n = ev.node,
           eventQueue # <<>>, ev = Head(eventQueue), result # "paused", result' = result,
           HandleSucceeded(ev) \/ HandleException(ev)
    PROVE  CompletionIsLast' /\ \A m \in Nodes : CompletedAt(m)'
<1>0. PICK chosen \in SUBSET get_outgoing_edges(n), dropped \in SUBSET Edges, defer \in BOOLEAN,
           queued \in SUBSET Nodes, k \in {"succeeded", "exception"} :
         Moved(n, chosen, dropped, defer, queued, k)
  BY MovesOn
<1> DEFINE new == WokenBySkip(edgeState, dropped) \union ReadyAfter(edgeState, dropped, chosen)
<1>1. /\ Completes(edgeState, Active, n, dropped, chosen)
      /\ queued \subseteq new
      /\ edgeState' = EdgesAfter(edgeState, dropped, chosen)
      /\ collect(n, k) /\ started' = started /\ InFlight(n)
      /\ \A m \in Nodes : /\ InFlight(m)' => (InFlight(m) /\ m # n) \/ m \in queued
                          /\ Waiting(m)' => Waiting(m) \/ m \in new
  BY <1>0 DEF Moved, ScheduledBy
<1>2. started
  BY <1>1 DEF SafetyInv, FreshInv, Active
<1>3. ~Completed(n)
  BY NextIsOpen
<1>4. QueueTypes /\ k \in LogKinds
  BY DEF TypeInv, TypeOK, LogKinds, ResultKinds
<1>5. CompletionIsLast'
  BY <1>1, <1>3, <1>4, LogGrows DEF LogInv
<1>6. \A m \in new : HasUnknown(edgeState, m) /\ m \notin Active
  <2>1. \A m \in new : HasUnknown(edgeState, m)
    BY <1>1, NewlyReady
  <2>2. \A m \in new : m \notin Active
    BY <1>1, ConsistentAfter
  <2> QED
    BY <2>1, <2>2
<1>7. \A m \in Nodes : is_node_ready(edgeState, m) =>
         /\ is_node_ready(edgeState', m)
         /\ m \notin new
  <2>1. TAKE m \in Nodes
  <2>2. HasUnknown(edgeState, m) => ~is_node_ready(edgeState, m)
    BY DEF HasUnknown, is_node_ready
  <2> QED
    BY <1>1, <1>6, <2>2, ReadyStays
<1> HIDE DEF new
<1>8. ASSUME NEW m \in Nodes, m # n PROVE CompletedAt(m)'
  <2>1. Completed(m)' => Completed(m)
    BY <1>1, <1>4, <1>8, CollectAdds DEF Completed
  <2>2. ASSUME Completed(m) PROVE is_node_ready(edgeState, m) /\ m \notin Active'
    <3>1. is_node_ready(edgeState, m) /\ m \notin Active
      BY <2>2 DEF LogInv, CompletedAt
    <3> QED
      BY <1>1, <1>7, <3>1 DEF Active
  <2> QED
    BY <1>1, <1>2, <1>7, <2>1, <2>2 DEF CompletedAt
<1>9. CompletedAt(n)'
  <2>1. n \in Active /\ ~Waiting(n) /\ is_node_ready(edgeState, n)
    BY <1>1 DEF Active, SafetyInv, PlaceInv, PlaceAt, EdgeInv, Consistent
  <2>2. n \notin Active'
    BY <1>1, <1>6, <2>1 DEF Active
  <2> QED
    BY <1>1, <1>2, <1>7, <2>1, <2>2 DEF CompletedAt
<1> QED
  BY <1>5, <1>8, <1>9

(* The other handlers. *)
LEMMA LogHandle ==
    ASSUME TypeInv, SafetyInv, LogInv, NEW ev \in Event, NEW n \in Nodes, n = ev.node,
           eventQueue # <<>>, ev = Head(eventQueue), result # "paused", result' = result,
           \/ HandleStarted(ev) \/ HandlePauseRequested(ev) \/ HandleRetry(ev) \/ HandleFatal(ev)
    PROVE  CompletionIsLast' /\ \A m \in Nodes : CompletedAt(m)'
<1>1. ~Completed(n)
  BY NextIsOpen
<1>2. QueueTypes
  BY DEF TypeInv, TypeOK
<1>3. /\ edgeState' = edgeState /\ started' = started
      /\ \/ UNCHANGED collected
         \/ collect(n, "started") /\ HandleStarted(ev)
         \/ collect(n, "pause") /\ HandlePauseRequested(ev)
         \/ collect(n, "retry") /\ HandleRetry(ev)
         \/ collect(n, "failed") /\ HandleFatal(ev)
  BY DEF HandleStarted, HandlePauseRequested, HandleRetry, HandleFatal, Receive, graphVars
<1>4. CompletionIsLast'
  <2>1. CASE UNCHANGED collected
    BY <2>1 DEF LogInv, CompletionIsLast
  <2>2. ASSUME NEW k \in {"started", "pause", "retry", "failed"}, collect(n, k) PROVE CompletionIsLast'
    BY <1>1, <1>2, <2>2, LogGrows DEF LogInv, LogKinds, ResultKinds
  <2> QED
    BY <1>3, <2>1, <2>2
<1>5. ASSUME NEW m \in Nodes
      PROVE  Completed(m)' => Completed(m) \/ (m = n /\ HandleFatal(ev))
  <2>1. CASE UNCHANGED collected
    BY <2>1 DEF Completed, HasLogged
  <2>2. ASSUME NEW k \in {"started", "pause", "retry", "failed"}, collect(n, k)
        PROVE  Completed(m)' => Completed(m) \/ (m = n /\ k = "failed")
    BY <1>2, <2>2, CollectAdds DEF Completed, LogKinds, ResultKinds
  <2>3. CASE collect(n, "failed") /\ HandleFatal(ev)
    BY <2>2, <2>3
  <2>4. ASSUME NEW k \in {"started", "pause", "retry"}, collect(n, k)
        PROVE  Completed(m)' => Completed(m)
    BY <2>2, <2>4
  <2> QED
    BY <1>3, <2>1, <2>3, <2>4
<1>6. ASSUME NEW m \in Nodes, m # n PROVE CompletedAt(m)'
  <2>1. m \in Active' => m \in Active
    BY <1>6, HandleEffect DEF Active
  <2> QED
    BY <1>3, <1>5, <1>6, <2>1 DEF LogInv, CompletedAt
<1>7. CompletedAt(n)'
  <2>1. CASE HandleFatal(ev)
    <3>1. InFlight(n) /\ ~InFlight(n)' /\ UNCHANGED <<pausedNodes, deferredNodes>>
      BY <2>1, HandleEffect
    <3>2. n \in Active /\ ~Waiting(n) /\ started
      BY <3>1 DEF Active, SafetyInv, PlaceInv, PlaceAt, FreshInv
    <3>3. is_node_ready(edgeState, n)
      BY <3>2 DEF SafetyInv, EdgeInv, Consistent
    <3>4. n \notin Active'
      BY <3>1, <3>2 DEF Active, Waiting
    <3> QED
      BY <1>3, <3>2, <3>3, <3>4 DEF CompletedAt
  <2>2. CASE ~HandleFatal(ev)
    BY <1>1, <1>5, <2>2 DEF CompletedAt
  <2> QED
    BY <2>1, <2>2
<1> QED
  BY <1>4, <1>6, <1>7

LEMMA LogStep == TypeInv /\ SafetyInv /\ WorkInv /\ LogInv /\ [Next]_vars => LogInv'
<1> SUFFICES ASSUME TypeInv, SafetyInv, WorkInv, LogInv, [Next]_vars PROVE LogInv'
  OBVIOUS
\* A step that reports nothing to the consumer and decides no edge.
<1>1. ASSUME UNCHANGED <<collected, edgeState>>, started => started',
             \A m \in Nodes : Completed(m) /\ m \notin Active =>
                m \notin Active' /\ (result' = "paused" => savedReady'[m] = 0)
      PROVE  CompletionIsLast' /\ \A m \in Nodes : CompletedAt(m)'
  <2>1. \A m \in Nodes : Completed(m)' => Completed(m)
    BY <1>1 DEF Completed, HasLogged
  <2>2. CompletionIsLast'
    BY <1>1 DEF LogInv, CompletionIsLast
  <2> QED
    BY <1>1, <2>1, <2>2 DEF LogInv, CompletedAt
<1>2. ASSUME UNCHANGED <<eventQueue, held>> PROVE \A i \in DOMAIN eventQueue' : StartedAt(i)'
  BY <1>2 DEF LogInv, StartedAt, Running
<1>3. ASSUME NEW w \in Workers, Worker(w) PROVE LogInv'
  <2>1. /\ UNCHANGED <<pausedNodes, deferredNodes, edgeState, started, collected, result, savedReady>>
    BY <1>3 DEF Worker, WorkerTake, WorkerBegin, WorkerFinish, WorkerExit, graphVars, schedVars,
       execVars, eventVars, callerVars
  <2>2. \A m \in Nodes : m \in Active' => m \in Active
    BY <1>3, <2>1, WorkerEffect DEF Active, Waiting
  <2>3. CompletionIsLast' /\ \A m \in Nodes : CompletedAt(m)'
    BY <1>1, <2>1, <2>2 DEF LogInv, CompletedAt
  <2> QED
    BY <1>3, <2>3, StartedWorker DEF LogInv
<1>4. CASE QuietActions
  <2>1. /\ UNCHANGED <<edgeState, started, collected, eventQueue, held, readyQueue>>
        /\ UNCHANGED <<result, savedReady>> \/ savedReady' = readyQueue \/ result' = "closed"
    BY <1>4 DEF QuietActions, WorkerExit, SendCommand, ReportResult, Close, StopExecution,
       PollCommands, HandleCommand, LeaveLoop, LeaveIdle, LeaveDrain, MarkComplete, vars,
       graphVars, schedVars, execVars, eventVars, workerVars, callerVars
  <2>2. \A m \in Nodes : m \in Active' => m \in Active
    BY <1>4, QuietEffect DEF Active
  <2>3. \A m \in Nodes : m \notin Active => readyQueue[m] = 0
    BY DEF Active, InFlight, TypeInv, TypeOK, GraphTypes
  <2>4. CompletionIsLast' /\ \A m \in Nodes : CompletedAt(m)'
    BY <1>1, <2>1, <2>2, <2>3 DEF LogInv, CompletedAt
  <2> QED
    BY <1>2, <2>1, <2>4 DEF LogInv
<1>5. CASE Run
  <2>1. UNCHANGED <<edgeState, collected, eventQueue, held, result>> /\ started'
        /\ result = "none"
    BY <1>5 DEF Run, eventVars, workerVars, WorkInv, FlagInv, CallerFlags
  <2>2. ASSUME NEW m \in Nodes, Completed(m), m \notin Active PROVE m \notin Active'
    <3>1. started
      BY <2>2 DEF LogInv, CompletedAt
    <3> QED
      BY <1>5, <2>2, <3>1, RunEffect DEF Active, NodesToStart, Waiting
  <2>3. CompletionIsLast' /\ \A m \in Nodes : CompletedAt(m)'
    BY <1>1, <2>1, <2>2
  <2> QED
    BY <1>2, <2>1, <2>3 DEF LogInv
<1>6. CASE Resume
  <2>1. UNCHANGED <<edgeState, collected, started>> /\ eventQueue' = <<>>
        /\ result = "paused" /\ result' = "none"
    BY <1>6 DEF Resume, graphVars, execVars
  <2>2. ASSUME NEW m \in Nodes, Completed(m), m \notin Active PROVE m \notin Active'
    <3>1. savedReady[m] = 0
      BY <2>1, <2>2 DEF LogInv, CompletedAt
    <3> QED
      BY <1>6, <2>2, <3>1, ResumeEffect DEF Active
  <2>3. CompletionIsLast' /\ \A m \in Nodes : CompletedAt(m)'
    BY <1>1, <2>1, <2>2
  <2>4. DOMAIN eventQueue' = {}
    BY <2>1
  <2> QED
    BY <2>3, <2>4 DEF LogInv
<1>7. CASE eventQueue # <<>> /\ Handle(Head(eventQueue))
  <2>1. PICK ev \in Event : ev = Head(eventQueue)
    BY <1>7, HeadTailProperties DEF TypeInv, TypeOK, QueueTypes
  <2>2. PICK n \in Nodes : n = ev.node
    BY EventFacts
  <2>3. Handle(ev)
    BY <1>7, <2>1
  <2>4. MayReceive /\ eventQueue' = Tail(eventQueue) /\ held' = held /\ result' = result
    BY <2>3 DEF Handle, HandleStarted, HandleSucceeded, HandlePauseRequested, HandleRetry,
       HandleFatal, HandleException, HandlerRaises, Receive, callerVars, workerVars
  <2>5. result # "paused"
    BY <2>4 DEF WorkInv, FlagInv, CallerFlags, MayReceive
  <2>6. \A i \in DOMAIN eventQueue' : StartedAt(i)'
    BY <1>7, <2>4, StartedReceive
  <2>7. CASE HandleSucceeded(ev) \/ HandleException(ev)
    BY <1>7, <2>1, <2>2, <2>4, <2>5, <2>6, <2>7, LogAdvance DEF LogInv
  <2>8. CASE HandleStarted(ev) \/ HandlePauseRequested(ev) \/ HandleRetry(ev) \/ HandleFatal(ev)
    BY <1>7, <2>1, <2>2, <2>4, <2>5, <2>6, <2>8, LogHandle DEF LogInv
  <2>9. CASE HandlerRaises(ev)
    <3>1. UNCHANGED <<collected, edgeState, started, readyQueue, pausedNodes, deferredNodes, savedReady>>
      BY <2>9 DEF HandlerRaises, graphVars, schedVars, callerVars
    <3>2. \A m \in Nodes : m \in Active' => m \in Active
      BY <2>4, <3>1, ReceiveKeeps DEF Active, InFlight, Waiting
    <3>3. CompletionIsLast' /\ \A m \in Nodes : CompletedAt(m)'
      BY <1>1, <2>4, <2>5, <3>1, <3>2
    <3> QED
      BY <2>6, <3>3 DEF LogInv
  <2> QED
    BY <2>3, <2>7, <2>8, <2>9 DEF Handle
<1> QED
  BY <1>3, <1>4, <1>5, <1>6, <1>7 DEF Next, Dispatcher, Caller, Environment, QuietActions

(* After a node succeeded, failed for good or ended by its error strategy, *)
(* no further event of that node reaches the consumer.                     *)
THEOREM CompletionIsFinal == Spec => []CompletionIsLast
<1>1. LogInv => CompletionIsLast
  BY DEF LogInv
<1> QED
  BY <1>1, TypeInit, TypeStep, SafetyInit, SafetyStep, WorkInit, WorkStep, LogInit, LogStep, PTL DEF Spec
=============================================================================
