# A verification of the workflow engine

The repository holds two programs: the Dify platform (`dify-main/dify-main`, whose
Python API contains a workflow engine) and the RuoYi administration framework
(`RuoYi-master`, Java), with design notes beside them. The logic that is concurrent,
stateful and hard to test is the workflow engine (`api/dify_graph`) and the code that
starts a run, streams its events, pauses, resumes and stops it. This directory models both in
TLA+, checks the models with TLC on small instances, and proves some of their properties
with TLAPS for all instances. Paths below are relative to `dify-main/dify-main/api`;
`PROJECT.json` maps every definition to the lines it stands for.

## Inventory

| Component | State | Operations | Interacts with | What is hard | Correct when |
|---|---|---|---|---|---|
| Graph and traversal (`dify_graph/graph/graph.py`, `graph_engine/graph_state_manager.py`, `graph_traversal/`) | state of each node and edge, executing set | skip the branches of inactive roots (only nodes whose type is ROOT), take and skip edges, propagate skips recursively, find ready nodes | event handlers, ready queue | joins reached by taken and skipped edges in any order | a join runs once, exactly when it is reached |
| Engine run (`graph_engine.py`, `orchestration/`, `event_management/event_handlers.py`, `error_handler.py`, `domain/`) | execution flags, error, counters, event queue | run, handle each kind of event, poll commands, drain for a pause, finish | workers by two queues, the caller by the event manager | pause, abort, failure and completion race each other | the reported result matches what was done; every run ends |
| Workers and ready queue (`worker.py`, `ready_queue/`) | node being run, stop flag | take, run, post events | ready queue, event queue | a worker takes a node after stop was asked | no node is run twice at once |
| Worker pool (`worker_management/worker_pool.py`) | list of workers, counter, last-task times | start, scale up, scale down, stop | dispatcher, workers | idleness is inferred from time; counts are stale within a check | list within its bounds, queue served |
| Command channels (`command_channels/`, `manager.py`) | Redis list and marker key; or a queue | send, fetch | senders in other processes, command processor | two pipelines per fetch, expiry, failing calls | FIFO, at most once, nothing stranded |
| Command processing (`command_processing/`) | none | abort, pause, update variables | execution flags | commands are polled only at certain moments | a command acts on a run that can still obey |
| Event manager (`event_management/event_manager.py`) | list of events, completion flag, read-write lock | collect, emit, mark complete | dispatcher writes, caller reads | flag and list are read in two steps; wakeups | events in order, none lost, the stream ends |
| Runtime state (`runtime/graph_runtime_state.py`) | paused, deferred nodes; snapshot | register, dump, restore | resumption by a new engine | what a snapshot drops must not be needed | a resumed run neither repeats nor forgets nodes |
| Response coordinator (`response_coordinator/`) | paths to each answer, sessions, buffered streams | follow taken edges, open and queue sessions, flush, dump and load | event handlers | chunks of parallel nodes, retries, skips, pauses | answers whole, in template order, not too early |
| Iteration node (`nodes/iteration/iteration_node.py`), loop node (`nodes/loop`) | child engines, outputs, copies of the variable pool | run children, collect outputs, copy variables back | thread pool of children | order, failure and pause of children; copies taken before an update | outputs in the order of the items; no update is lost unnoticed |
| Layers (`layers/`) | step and time counters | send abort when a limit is passed | command channel | limit reached while others run | limits are enforced once |
| App queue manager, task pipeline, output moderation (`core/app/apps`, `core/app/task_pipeline`, `core/moderation/output_moderation.py`) | queue, Redis stop flag and its cache | publish, listen, stop, moderate | model thread, listener, stop request, moderation thread | four threads end the same request | the request ends, never silently |
| Rate limit (`core/app/features/rate_limiting`, `services/app_generate_service.py`) | Redis hash of active requests and limit, one object per process | enter, exit, flush, charge and refund | all requests to an app | check-then-act over Redis, sweeping by age | what is served is counted, what is over is not |
| Event stream and broadcast channels (`services/app_generate_service.py`, `services/workflow_event_snapshot_service.py`, `libs/broadcast_channel`, `core/app/apps/streaming_utils.py`) | start gate, subscription, bounded queues, snapshot of a returning client | subscribe, start, publish, receive, replay, close | Celery task, Redis, client, database | start by subscription or timer; full queue; a run that dies; events between a snapshot and a subscription | the stream ends; gaps have a cause |
| Human input: pause and resumption (`nodes/human_input`, `core/app/layers/pause_state_persist_layer.py`, `core/app/workflow/layers/persistence.py`, `tasks/`, `services/human_input_service.py`, `repositories/`) | run status, `WorkflowPause` row, forms, Celery tasks | create form, save pause, submit, time out, resume, stop | engine, database, broker | answers before the pause is saved, two answers at once, timeouts, crashes | a paused run can be resumed; a form is decided once |
| Node implementations, models, RAG, other controllers, front end | - | I/O, conversions, CRUD | - | - | not modelled, below |
| RuoYi (Java) | sessions, scheduler, users | CRUD, scheduling | - | - | not modelled: separate framework |

The hazards of this code, each at its line and with the properties that guard it, are in
`PROJECT.json`.

How the parts work together in one request: the limiter admits it; a streaming workflow
request is started by a Celery task once the client has subscribed (or a timer gave up
waiting); the task runs the engine, whose dispatcher hands nodes to workers and their
results to the event handlers, and these to the response coordinator and the event manager;
the caller publishes the events, to the subscribed client or to the queue of
the task pipeline. A human-input node makes the engine drain and the run pause; a
submission or a timeout of the form enqueues a task that resumes it from the saved state.

## Modules

### The engine

**GraphStates** - constant operators over a graph and its edge states: readiness,
branch selection, and the closed form of skip propagation (the least set of nodes whose
incoming edges are all skipped). `GraphEngine` and `ResponseCoordinator` use it.

**GraphTraversal** - the same code as it is written, edge by edge over lists, in the order of its
recursion. The recursion of `SkipPropagator` is a loop over the edges that the calls in progress have still to visit,
innermost first (`visit`): a call puts its edges in front. Each turn decides an edge, so the number of edges
bounds the turns. The walk is compared with the closed form, by TLC on every acyclic graph of four nodes and by
proof on all, so that `GraphEngine` and `ResponseCoordinator` may use the closed form.

Which nodes are skipped beforehand (`InactiveRoots` in all three) is what `Graph._mark_inactive_root_branches`
says: the other nodes of type ROOT (`DeclaredRoot`, less those promoted to branches), and none when the run
was not started at one of them. Any other node without incoming edges, such as the entry of an iteration or
an unconnected node, is neither started nor skipped, and what lies behind it stays undecided
(`test_graph.py`, `test_non_root_execution_type`). The properties call these nodes `Strays` and what they lead to `Stuck`.
That a ROOT node has no incoming edges is assumed, as the comment at `graph.py:213` does.

**GraphEngine** - the engine: caller, dispatcher, workers and command senders over the
shared state. One action per handler and per step of a thread:

| Code | Actions |
|---|---|
| `Worker.run`, `_execute_node` | `WorkerTake`, `WorkerBegin`, `WorkerFinish`, `WorkerExit` |
| `GraphEngine.run`, `_start_execution`, `_stop_execution` | `Run`, `ReportResult`, `Close`, `StopExecution` |
| snapshot and a new engine | `ReportResult` (keeps the ready queue), `Resume` |
| `Dispatcher._dispatcher_loop` and its drains | `PollCommands`, `HandleCommand`, `LeaveLoop`, `LeaveIdle`, `LeaveDrain`, `MarkComplete`, `Receive` (inside every handler) |
| `EventHandler` and `ErrorHandler` | `HandleStarted`, `HandleSucceeded`, `HandlePauseRequested`, `HandleRetry`, `HandleFatal`, `HandleException`, `HandlerRaises` |
| `GraphEngineManager` | `SendCommand` |

A handler is one step: apart from the ready queue everything it writes is read by the
dispatcher thread alone. The ready queue is a bag, the event queue a sequence, the
channel an atomic queue (justified by `RedisChannel`). A node run is known by its outcome
only: success with one of its handles, failure, or a pause request. The variable pool,
token counts, outputs and chunks are not there. **MCGraphEngine** gives the two graphs
that TLC runs it on.

**CommandQueue, RedisChannel** - the promise of a channel as an abstract queue, and the
Redis channel with its two pipelines, expiring keys and failing calls; `ImplementsQueue`
is the refinement (the list is the queue, the returned commands are the delivered ones).

**ReadWriteLock, EventManager** - the lock with its condition variable, for any set of
threads, and the collecting and the emitting thread composed with it.

**WorkerPool** - scaling with busy and idle workers and discrete time.

**ResponseCoordinator**, **MCResponse** - the response coordinator together with the handlers
that call it. Every action is one event handled by the dispatcher thread, in any order the
workers may produce: `StreamChunk` and `FinalChunk` (`intercept_event` of a chunk), `Assign` (an
updated variable), `Succeed`, `Retry`, `Exception` (default value or fail branch), `Abort`, and `Resume`
(`dumps` and `loads` by a new engine; what a dump leaves out is lost). The helpers have the code's names:
`on_edge_taken`, `active_or_queue_session`, `try_flush`, `process_variable_segment`. Texts are chunk
numbers; a value in the variable pool is the number of the run that wrote it. Loops are functions of
the number of turns: `find_paths` extends walks edge by edge, `try_flush` takes one segment, or the change to the
next session, a turn. `Turns` bounds these turns and is never reached (`FlushGood`).

**Iteration** - `iteration_node.py`, in both modes and the three error modes. The node's thread:
`Submit`, `Collect`, `CollectError`, `Terminate`, `SyncVariable`, `SyncEnds` and `ExecutorExit`; a child, in a
thread of the executor or, in sequential mode, in the node's own: `Start`, `CopyVariable` (the deep copy is
made variable by variable while the parent is written), `RunEnds`, `Raises`. A conversation variable is the set of iterations whose
update it contains, so that a lost update is visible.

### The request

**RateLimit** - the limiter and the path of a request through `AppGenerateService.generate`: `Construct`
(one object per process, its limit assigned by every request), `ConstructFails` (an error after the quota was
consumed and before the `try`), `QuotaRefused`, `Check` (hlen), `Add` (hset), `Answer`, `Return`, `Leave`,
`Fail` and `FlushFails` (an exception inside the `try`, in a Redis call or in the generation), `Iterate`,
`Abandon` (a generator that is never begun), `Close`, `FlushDue` and `Age` (time). A workflow request enters
twice under one id, as in the code. `Refund` and `Exit` may fail wherever they are called. The consumption of the quota and
the call of the constructor are one step: nobody else sees the state between them, and `ConstructFails` is the
failure there. Time stands still once no request will look at it any more (`TimeMatters`).

**EventStream** - `Build` and `TimerFires` (start gate and fallback timer), `Subscribe`, `OnSubscribe`,
`Publish`, `Crash` (the Celery task), `Listen`, `DropOldest`, `PutHeld`, `ListenerDies` (the listener
thread, which drops the oldest event of a full queue), `Receive`, `IdleTimeout`, `Disconnect` (the reader).
The transport, Pub/Sub or Streams, is chosen initially.

**ReturningClient** - `EventManager` composed with `build_workflow_event_stream`: a client that comes
back to a run is sent what the database has and then what a subscription brings. The run: `ResumeRun`,
`ManagerStep` (the steps of the event manager), `on_event` (the persistence layer saves an event after
it was appended, outside the lock, so an event may be published first), `Conclude`, `publish`. The client:
`ReadRun`, `ReadSnapshot`, `Subscribe`, `SendSnapshot`, `TestDone`, `TestEmpty`, `Get`, `GetEmpty`. The threads behind
it: `ListenerDies`, `Forward`, `ForwardHeld`, `BufferingEnds`. Event 0 stands for what an earlier engine of
the same run published, which ends with a pause; `TheEnd` is the final event.

**WorkflowRequest**, **MCWorkflowRequest** - the composition: one workflow request passes through the
limiter and streams its events, other requests come and go.

**AppQueue** - the chat applications, whose events go through a queue in the process: `WorkerChunk`,
`WorkerEnd`, `WorkerCheck` (stopped?), `WorkerStopListen` (the model's thread); `Get`, `GetEmpty`, `HandleChunk`,
`HandleEnd`, `HandleError`, `Finally`, `ListenerStopListen` (the pipeline); `StopRead`, `StopSet` (the stop request);
`ModerationLooks` (at the text that came since its last look), `ModerationPublishes` (after which it goes on, unless it asked for its own answer); `Disconnect`, `TimePasses`, `CacheExpires`.

**PauseResume**, **MCPauseResume** - one run that waits for people, from the first execution to its end. A step is
one transaction, or one call of the storage or the broker: `RunNode` (a human-input node decides
or creates its form), `Succeed`, `SavePaused` and `create_workflow_pause` (the two saves of a pause), `Fetch`, `Load`,
`resume_workflow_pause` (read and write are two steps), `WriteResumed`, `Start`, `delete_workflow_pause` and
`Crash` (a task); `Submit`, `mark_submitted`, `SubmitResumes` (a submission); `Scan`, `mark_timeout`, `TimeoutResumes`,
`_handle_global_timeout` (the scanner); `Expire`, `GlobalDeadline` (time). That the engine drains before
it pauses is `GraphEngine`'s result; here it is the order of a task's steps.

### Proofs

**GraphStates_proofs, GraphTraversal_proofs, GraphEngine_proofs, ResponseCoordinator_proofs, ReturningClient_proofs,
Standalone_proofs, PauseResume_proofs, WorkflowRequest_proofs** - the theorems, below. `GraphStates_proofs` is about the
operators that traversal, engine and coordinator share, and about loops; `ReturningClient_proofs` begins with the lock and the event
manager, which the returning client is composed with; `Standalone_proofs` has the four that share
nothing with the others: `RedisChannel`, `WorkerPool`, `AppQueue` and `Iteration`.

## Runs

| Run | Bounds | Shows |
|---|---|---|
| EngineFork | 5 nodes, 2 joins, a retried fail-branch node, a pausing branch, a default-value node; 2 workers, 2 commands | single execution, tracked work, joins wait, edges decided once |
| EngineHuman | 2 human-input nodes in parallel, a join with an inactive trigger, a node behind an unconnected one; 2 workers, 1 command, 1 resumption | success means all done but what lies behind an unconnected node, nothing forgotten at a pause, completion is last, every run ends |
| GraphTraversal | all acyclic graphs of 4 nodes, 2 handles, any set of branch nodes and of roots, any completion order | the walk is the closed form; a node runs iff it is reached |
| RedisChannel | 5 sends, 2 expirations, 2 failed calls | nothing stranded, refinement of the queue, delivery |
| ReturningClient | 2 events and the final one, queues of 1, Pub/Sub or Streams, run resumed or not | what a returning client misses and what it gets twice is explained, its stream ends rightly, nothing is lost in the event manager, the engine's stream ends |
| WorkerPool | 1..3 workers, 4 threads, 4 nodes | list within bounds, queue served |
| ResponseChat | 10 nodes, 4 answers that share variables, one of them behind an unconnected node as well, a branch that may pause, a retried streaming node with a default value, 2 chunks per stream | answers whole and in order, chunks once, nothing shown twice, no answer too early, sessions end |
| Iteration | 3 items, 2 threads, 1 conversation variable, both modes, all error modes | outputs in place, updates lost only by overlap, the node ends |
| WorkflowRequest | the workflow request and one other of any kind, one process, limits 1 and 2 changing at any time, 2 events, a queue of 1, 1 failed enqueue, any Redis call and refund failing | what is served is counted, what is over is neither counted nor, unless served, charged, but for the named failures, limit exceeded only by a race, gaps of the stream explained, events missed only by the timer's start, the stream ends |
| AppQueue | 2 chunks, moderation, one stop request, one disconnection | the request ends, never silently (`EndIsReported`, with the race that saves the message twice as its exception) |
| PauseResume | 2 forms, 2 workers, 1 user, 1 failure of the broker, 1 crash | a paused run can be resumed, a form is decided once, answers are lost only for named reasons, a stopped run is revived only by a task at work, the run ends |
| PauseLost | 1 form, 2 workers, no failure, no crash | *violated*: a submitted form resumes the run |

The bounds are the smallest at which the interesting cases occur: two workers are needed
for two nodes to end in either order; one resumption for a node to run again, and a command
on each side of it; four nodes for a join behind a branch and a join of a join; the fork
graph has two joins so that one is taken and the other is skipped, by different parents.
Five sends allow two full fetches with a send between the pipelines of each. Three answers
make one session wait behind another while a third is on the path that is not taken; two
chunks put a pause, a retry or a session change between them. Three items and two threads
leave one item waiting for a thread while one runs and one is collected; a second item can
then copy a variable before and after an update. Two requests are what a race between hlen
and hset takes, and a queue of one is full with the second event. Two events put one before and one after
the snapshot of a returning client, and make a batch of two in the event manager. With one form that is
decided and one that is not, a resumed run pauses a second time; a user and the scanner,
or the scanner twice, give two tasks on two workers that find the same pause. Threads of one
process differ from threads of several only by sharing the limiter's object; the theorems
about the limiter hold for any assignment of requests to processes.

Deadlock checking is off where the system may stop, which is everywhere but in the Redis
channel, whose reader can always poll.

**PauseLost** documents a disagreement between a comment and the code: the docstring of
`HumanInputNode._run` ends with "6. Wait for form submission to resume", but a form can be
submitted as soon as it is created, long before the pause of the run is saved (other nodes still
run). The resume task then finds no pause (`tasks/app_generate/workflow_execute_task.py:274`) and
gives up; the form cannot be submitted again and the run stays paused. `LostOnlyByEarlyAnswer` in
the run PauseResume says what else can lose an answer: two tasks that resume one pause, the global
timeout, a failing broker or a crash, and nothing more.

### What else the models showed

These are behaviours of the models that a reader of the code may not expect. Properties
name them as their exceptions, or were stated so that they hold in spite of them.

- Skip propagation, retries and error branches enqueue nodes during the drain of a pause; the
  drain waits for them (`NothingForgottenAtPause`).
- An idle main loop does not poll commands (`orchestration/dispatcher.py:97`): a command waits for
  the next result.
- A run whose node fails for good during a drain is reported as paused (`graph_engine.py:274`).
- A busy worker that is removed from the list lives on beside its replacement
  (`worker_pool.py:146`): more threads than `max_workers` may live, the list stays within its bounds.
- An answer opens when one of its paths has no blocking edge left (`coordinator.py:250`): behind a join it may
  show the value that a variable had before the other branch assigns it. A session whose
  variable never becomes available holds up all later ones (`coordinator.py:404`); so does one that shows a
  variable of a node not before it, when that node is skipped after the last flush. `SessionsEnd`
  assumes that answers show variables of nodes before them, as the editor offers them, and that these
  become available.
- A node behind one that nothing starts (`Stuck`, above) never runs, and the run succeeds without it
  (`SuccessMeansAllDone`); a response node there is opened, and shown, as soon as one path to it is free, although
  it never runs itself (`NoPrematureAnswer`).
- A branch node that falls back on default values selects no handle, and the edge processor raises
  (`edge_processor.py:177`): such a run ends in `Abort`. A selected handle that no edge has ends the branch
  silently: all its edges are skipped.
- The message of a chat is saved twice when a stop arrives after the end event and before its
  None (`base_app_queue_manager.py:75`; `EndIsReported`).
- A streaming workflow request enters the limiter twice (`app_generate_service.py:201`), leaves it before
  its events are streamed, and counts itself at its second entry. `CountedWhileServed` is about the
  other kinds of request.
- The quota is consumed (`app_generate_service.py:109`) before the limiter is built (114-116) and the `try` is
  entered (117): when the Redis calls of the first construction in a process fail, the request stays charged. A
  refund that the billing service fails is only logged (`enums/quota_type.py:145-177`), and an entry that
  `exit` fails to delete counts until a flush sweeps it. `OverLeavesNothing` names these three and allows nothing else.
- The failed first construction leaves the object initialized and the limit perhaps missing in Redis; the next
  flush writes the object's own (`rate_limit.py:47`).
- A client that comes back over Pub/Sub misses what is published between its snapshot and its
  subscription, what was published before it was saved, and the final event too, in which case it waits for
  its idle timeout (`GapsOfReturn`). An event that was saved before the snapshot was read and published after the
  subscription reaches it twice (`workflow_event_snapshot_service.py:225-241`); over Redis Streams every event of the
  snapshot does. Over Redis Streams only a full buffer drops events, but the stream is read from its
  beginning (`libs/broadcast_channel/redis/streams_channel.py`): after a resumption the old pause comes
  first and ends the stream (`ReturnEndsRightly` names it).
- A sequential iteration leaves no entry for a child that was paused or aborted
  (`iteration_node.py:562`), so later outputs move up; `remove-abnormal-output` drops every None in
  parallel mode, also one that an iteration without an output left. In parallel mode an update of a
  conversation variable is lost when another iteration copied the variable before it and is collected
  after it (`UpdatesLostOnlyByOverlap`).
- A run that fails inside the engine while it drains for a pause is reported as paused and can be resumed. Its
  saved ready queue then holds nodes that the executing set of the new engine does not
  (`graph_state_manager.py`), and a further failure replaces the recorded error. `TrackedWork` is therefore about runs
  that have not failed, or failed by a node during a drain.
- Two resume tasks may both pass the tests of `resume_workflow_pause` before either writes
  (`sqlalchemy_api_workflow_run_repository.py:916`); the properties of PauseResume name that race.

### Fairness

- `GraphEngine!FairSpec`: weak fairness for each worker, the dispatcher and the caller:
  threads are scheduled by the operating system, every wait in the code has a timeout, and
  node runs are assumed to end. Nothing is assumed of commands, `Close` and `Resume`.
- `RedisChannel!FairSpec`: the command processor keeps polling.
- `EventManager!FairSpec`: the consumer keeps reading and the dispatcher comes to its end.
  The lock lets readers overtake a woken writer any number of times; the writer gets in
  because an emitter that found nothing new sleeps for a millisecond, hence strong fairness
  of that one step.
- `ReturningClient!ReturnFairSpec`: the fairness of the event manager; the resume task, the layers
  and the pipeline go on. Nothing is assumed of the client and its threads.
- `WorkerPool!FairSpec`: workers are scheduled and node runs end; nothing about scaling.
- `Iteration!FairIterationSpec`: the node's thread goes on, and so do the executor's threads taken
  together: child runs end, which `EveryRunEnds` shows of an engine.
- `AppQueue!Spec`: the listener is scheduled (its `get` has a timeout) and time passes. Nothing is
  assumed of the model's thread, the moderation thread or the user.
- `WorkflowRequest!FairSpec`: the thread that serves a streaming client and its listener
  go on, including their timeouts; a stream that is over is closed; the timer fires. Nothing is assumed of the
  run (which may hang or crash) or of other requests.
- `PauseResume!FairSpec`: each Celery worker goes on with its task and takes the next, the threads of a
  submission go on, the scanner is run periodically, and forms expire. Nobody has to submit.

## Proofs

Checked by TLAPS for every value of the constants; the assumptions are the named ASSUMEs of
the modules (an acyclic finite or infinite graph with a root, typed node configuration, finite
set of threads) and TLC evaluates them on the runs.

- `GraphStates_proofs` is about the graph alone. `SkippedNodes` is a least fixed point, and its
  two halves are `SkippedClosed` (what meets the rule is skipped) and `SkippedRule` (what is
  skipped meets the rule; otherwise the set without it would be closed too).
  `Consistent(es, A)` relates edge states to a set A of active nodes: an active node is ready
  and its outgoing edges are undecided; a decided edge has a source without undecided incoming
  edges; a taken edge has a source that was ready. `SkipSparesActive` shows that the
  propagation reaches no active node (the other nodes form a closed set),
  `ConsistentAfter` that the completion of an active node keeps `Consistent` and wakes only nodes
  that were not active, and `EveryReadyFound` that it wakes all that become ready.
  A loop is a recursive function of its turns, and followed turn by turn: `SetInduction` (from the
  well-foundedness of the numbers), `Iterate` (an iterated function exists) and `StaysIn` (what every turn
  keeps holds at the end).
- `GraphTraversal_proofs`: `WalkIsClosedForm` (`WalkAgreesWithClosedForm`) and `RunsWhenReached` (`RunsIffReached`), for any
  number of nodes and handles, every acyclic graph (its nodes numbered along its edges), set of branch nodes and order of completions.
  `Reaching(f, D, g, T, Y)` says how far a walk has come that started from the states f to skip the edges D: what
  it changed was undecided and is skipped; what is due (an edge of D, or of a node all whose incoming
  edges are skipped) is skipped or among the edges T to visit; and every node it skips is one that the closed form
  skips. `Walking` adds that the nodes it has queued are those whose last undecided edge it skipped and that have a taken
  one, each once. A turn keeps this (`VisitKeeps`); the edge it visits is undecided, so each turn lowers
  their number and the walk comes to its end (`WalkEnds`), where the nodes it skipped form a set
  closed under the rule, hence the least one (`ReachEnd`). That the walk may start (`Base`) is what a
  run has to keep, `TraversalInv` (`TraversalKeepsInv`): the edge states are `Consistent` with the queue, what
  is skipped has been propagated (`Propagated`), a node is queued or done if and only if it is the root or was reached
  (`QueuedIffReached`), and only nodes without a taken edge are marked as skipped (`SkippedOnly`). It holds
  at the start because the walks from the inactive roots, one after the other, are one walk (`RootsWalk`); the edges of
  the roots still to come are the Y of `Reaching`.
- `GraphEngine_proofs`, part 1: `TypeCorrect`, `NeverTwice` (`OneRunAtATime`), `JoinsWait` (`RunsOnlyWhenReady`) and
  `DecidedForGood` (`EdgesDecidedOnce`). Type correctness is inductive together with
  `HeldTypes`: a worker holds a node exactly while it runs one (otherwise the event it posts
  would belong to no node). None of the other three is inductive: a second copy of a node is
  ruled out only because a node that becomes ready had an undecided incoming edge and an
  active one has none. `SafetyInv` therefore adds `Consistent(edgeState, Active)`, where the
  active nodes are those in flight, paused or deferred (`EdgeInv`); that paused and deferred
  nodes are not in flight (`PlaceInv`); that the snapshot of a paused run meets the same
  conditions, since a resumption starts from it (`SnapshotInv`); and that nothing is active
  before the first run (`FreshInv`). Only a handler that completes a node changes edges, and
  `ConsistentAfter` is its step. That the graph has no cycle is assumed (`GraphAssumption`)
  and not needed by these arguments; that the root has no incoming edge is.
- Part 2: `WorkIsTracked` (`TrackedWork`), `SuccessIsComplete` (`SuccessMeansAllDone`), `PauseKeepsAll`
  (`NothingForgottenAtPause`) and `CompletionIsFinal` (`CompletionIsLast`), on top of `SafetyInv`. `FlagInv` says how the flags, the
  error, the phases of dispatcher and caller and the result go together; `QuietInv` that nothing executes once the dispatcher is
  past its loop, so that the ready queue saved with a pause is empty unless the run failed. With them
  `TrackedWork` is inductive. `ReachInv` adds that a node that was reached is active or done
  (`EveryReadyFound` is its step), that done and skipped nodes have decided their edges, and that nodes no
  path can reach are marked; after a success, nodes neither done nor skipped would each have
  a predecessor among themselves, unless nothing starts one of them, which a graph without cycles excludes; and
  a node behind such a stray keeps an undecided edge. `LogInv` relates the
  log of a node to the events in flight: a node that has completed is not active, and a started event is
  queued before the result it belongs to.
- `ResponseCoordinator_proofs`: `AnswersStayInOrder`, `ChunksAreSentOnce`, `StreamsAreNotRepeated`, `OpenedAnswersRun` and
  `NoSessionIsLeft`, one for each property of the run ResponseChat, from one inductive invariant, `ResponseInv`
  (`ResponseCorrect`). Its parts about the coordinator, `Good` and `Settled`, are stated of a working state and of the
  surroundings in which a handler calls it: edges, pool, what is buffered and closed, whose value may be
  sent, which answers have ended. So what a call keeps is proved once (`FlushGood`, `EdgeTakenGood`, `ReportGood`), for
  surroundings that hold before, within or after a handler, and the steps of the run only have to show
  that the surroundings fit. `Good` says that each answer is pending, waiting, active or over, and a waiting
  one not begun (`Sessions`); that its items stand together, those of the active session last (`Ordered`); that
  the chunks sent of a variable are those up to its position, in order (`ChunksSent`); that values are sent only
  of variables without a stream or whose source failed (`ValuesSent`); and that a session was opened because the
  taken edges cover the blocking edges of a path (`PathsLeft`). `Settled` says that an active session waits for a variable that is not there, once its answer node has
  ended, if it shows only variables of nodes before it. Without the last condition it
  is not inductive: the source of a variable could be skipped later, and skipping a
  node flushes nothing. Hence the condition `ShowsUpstream` of `SessionsEnd`; nodes upstream of a node that was started
  have all ended or are skipped (`DecidedUpstream`).
  Its loops are followed turn by turn, too. The flush ends because every
  turn that does not wait lowers `Cost`. `OpenedAnswersRun` takes a walk whose blocking edges are all taken: each of
  its nodes that is not skipped has its next edge not skipped, because only a branch, an edge of which is
  always blocking, skips an edge without being skipped (`WalkIsRun`); and at the end of a run every edge is
  decided that no stray leads to, since a node with an undecided one would have another before it, which the acyclic graph excludes
  (`AllDecided`); an answer behind a stray has an undecided edge and cannot have run. `ResponseConstants` assumes that response nodes do not fail: `AnswerNode._run` and `EndNode._run`
  report success whatever they find.
- `Standalone_proofs`, the Redis channel: `NothingStranded`; `InOrderAtMostOnce`; `ChannelRefinement`. The first needs
  the types and the counter of failures only; the second that what was returned followed
  by what is stored is strictly increasing and bounded by the number of sends; the third that
  every step is a send, a fetch, a loss (only if faults are allowed) or a stutter.
- `ReturningClient_proofs`, parts 1 and 2: `LockInvariant`, `MutualExclusion`, `WakeupKept`, for any finite set of
  threads. `LockInv` says that the counter equals the number of threads in a read section, that
  the owner of the mutex is the writer, that a writer excludes counted readers, and that a
  waiting writer implies a counted reader; the last is what only the last reader's
  notification needs. `UsesLock` (the event manager implements the lock's specification, so its
  theorems carry over: `ListIsProtected`), `OrderKept`, `StreamComplete`. `StreamInv` says that what
  was yielded and what is about to be are the beginning of the list, that the count is
  tested only after the flag was seen, and that the dispatcher is out of `collect` once the
  flag is set.
- Part 3: `ManagerImplemented` (composed with layers, pipeline and client, the event manager still behaves as its
  specification says, so `StreamInv` holds here too), `GapsExplainedOnReturn` (`GapsOfReturn`) and `EndsRightly`
  (`ReturnEndsRightly`). `ReturnInv` follows an event on its way: an event is saved before the next one is
  collected, and what is published is a beginning of what was yielded, so that at most one
  published event is not saved (`RunInv`), hence at most one is missing in a snapshot (`ReadInv`); the queues and the
  client hold published events in the order of their publication (`PipeOrder`), and what is in none of
  them was dropped or came before the subscription (`Covered`); what came before it is in none of the queues (`Apart`).
- The worker pool: `PoolBounds` (`PoolWithinBounds`). The worker that a check waits for is in the list, which has others
  enough (`Joining`); that only it was told to stop is `Serving`.
- The application queue: `EndReported` (`EndIsReported`). The first end that the listener reads is reported because
  every None in the queue has an end before it (`EndFirst`); a kind of end is not saved twice because nothing behind a None is
  read, and a second end of the same kind always has one before it (`StopCloses`, `KindsOnce`).
- The iteration node: `LostToOverlap` (`UpdatesLostOnlyByOverlap`) and `ItemsInOrder` (`OutputsInPlace`). For the first,
  `Updates` says of every variable, in the parent's pool and in every copy, that an update it should contain is
  there or was overlapped by a later collected iteration; `Alone` that in sequential mode a copy has seen all earlier
  iterations. For the second, `Filled` and `Appended` say what the outputs are before all results are
  taken. The removal of None values is a recursive function; that it is well defined, and what
  it does to an appended value and to a list without None, is proved by the least counterexample
  (`LeastNumber`, from the cardinality of intervals), in place of the induction theorems, which the installed
  provers cannot instantiate.
- `PauseResume_proofs`: `TypeCorrect`, `SingleExecution`, `DecidedOnce`, `PausedResumable`,
  `RevivedByRunning`, for any number of forms, workers, users, failures and crashes. That a form is
  decided once is not inductive. `Single` adds, all of it under the proviso that no two tasks
  tested one pause at the same time: at most one task is at work on the run (`Alone`); while one
  executes it, the pause is spent, so no other can pass the tests (`Spent`); a task that loaded the
  current pause has its decisions (`Holds`); and what was decided is known to the task at work and to
  the pause that can be resumed (`Known`), so nobody decides it again. `PausedResumable` needs besides
  that a pause which is not spent has its state (`HasState`) and that a task which deletes the
  current pause deletes a spent one (`DeletesSpent`); `RevivedByRunning` that no task takes up
  a stopped run (`StoppedWorkers`). `LostByEarlyAnswer` (`LostOnlyByEarlyAnswer`): as long as nothing failed or raced, an
  answered form is being submitted, has its task queued or at work, was decided, or belongs to a run
  that is over (`AnswersCovered`).
- `WorkflowRequest_proofs`: `NothingLeft`, `ServedIsCounted`, `OneStart`, `MissedByTimer`, for any number of
  requests, processes, limits and events. The limiter is proved correct on its own
  next-state relation, and `LimiterSteps` shows that every step of the composition is one of its steps
  or leaves its variables alone. What has to be added to the two properties is how far a request has
  come: who passed the constructor was charged, only a workflow request enters twice, nobody is
  counted before entering (`Stages`). The steps with a failure in them are reduced to what they do to the request
  itself (`Begun`, `Passed`, `Stopped`) and to the others (`Others`), who keep at most the entries they had (`Remains`). `Gate` is the invariant of the start: the timer is armed once and
  fires once, a run exists only after the one start, and on Pub/Sub a run without a listener
  was started by the timer; events are missed only in that state. `GapsAreExplained` (`GapsExplained`): what the listener
  holds and what is queued are consecutive events, up to what was dropped (`Consecutive`). `OnlyRacesExceed`
  (`OverLimitOnlyByRace`): without a race there is room, below the limit it was checked against, for whoever is
  between hlen and hset (`RoomLeft`).

Type correctness, `InOrder`, `DeliveredInOrder`, `StartedOnce`, `LockInv`, `WriterIsAlone` and `NoLostWakeup` are proved and
appear in no run of their own.

Only model-checked: the liveness properties, since fairness and ENABLED are out of the prover's reach. Every safety
property of the passing runs is proved.

## Not modelled

- Engine: execution limits and the other layers; the loop node (strictly sequential; it copies variables
  as a sequential iteration does); the in-memory channel (one thread-safe queue with one reader);
  UpdateVariablesCommand, token accounting, JSON encoding of snapshots and commands (data).
- Iteration: the children's events, their tokens, and the flattening of the outputs.
- Request: events of a returning client that are not about nodes, replaced messages and task ids; the
  asynchronous Celery repositories (`core/repositories/celery_workflow_node_execution_repository.py`; the
  default, synchronous ones are modelled); sharded Pub/Sub (the same base class); the length limit and expiry of Redis Streams; the infinite limit 0, which switches the limiter
  off, and the one-day expiry of its keys; pings, annotation replies and the 600-second expiry of
  the stop flag in the application queue.
- Human input: content, recipients and delivery of forms; the pruning of old pauses.
- Most of the repository by volume: node implementations, model providers, RAG and data sets, plugins, account
  and tenant management, other controllers, the web front end, and the RuoYi platform. These convert data,
  call services or read and write single rows; they have no protocol between concurrent parties that
  the models could say more about than a test does. For this reason the map covers a small share
  of the repository's lines.

## Plan

1. *WorkflowRun*: an abstract specification of a run (not started, running, paused, ended with a
   result) that `GraphEngine` refines.
2. *ExecutionLimits* over the command channel, *InMemoryChannel* as a second implementation of
   `CommandQueue`, the loop node beside `Iteration`.
