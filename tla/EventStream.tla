---------------------------- MODULE EventStream ----------------------------
(***************************************************************************)
(* The event stream of one streaming workflow request: the start gate of   *)
(* AppGenerateService (_build_streaming_task_on_subscribe), the Celery     *)
(* task that publishes the events of the run, the broadcast channel        *)
(* (libs/broadcast_channel/redis) and stream_topic_events, which passes    *)
(* the events on to the client.                                            *)
(*                                                                         *)
(* Events are numbered as they are published.  Over Pub/Sub an event goes  *)
(* to the sockets of the current subscribers; over Redis Streams it is     *)
(* kept in a log that every subscriber reads from its beginning.           *)
(***************************************************************************)
EXTENDS Naturals, SequencesExt

CONSTANTS MaxEvents,   \* bound: events of the run
          QueueSize,   \* RedisSubscriptionBase: maxsize of the queue
          MaxFailures  \* bound: failed attempts to enqueue the task

ASSUME EventStreamConstants ==
    MaxEvents \in Nat /\ QueueSize \in Nat \ {0} /\ MaxFailures \in Nat

VARIABLES
    transport, \* PUBSUB_REDIS_CHANNEL_TYPE: "pubsub" or "streams"
    timer,     \* the fallback timer: "none", "armed", "over"
    starts,    \* successful calls of start_task (history)
    failures,  \* failed ones
    task,      \* the Celery task: "none", "running", "ended", "crashed"
    log,       \* number of events published
    terminal,  \* number of the terminal event, 0 before it is published
    client,    \* stream_topic_events: "idle", "subscribing", "receiving", "closed"
    wire,      \* events on their way to the listener thread
    listener,  \* the listener thread: "off", "on", "dead"
    held,      \* the event the listener puts into the full queue, 0: none
    queue,     \* _queue; 0 is the sentinel of the streams subscription
    got,       \* events passed on to the client (history)
    dropped,   \* events dropped from the full queue
    missed,    \* events published before the subscription (history)
    byTimer    \* the timer started the task (history)

gateVars == <<timer, starts, failures, byTimer>>
runVars == <<task, log, terminal>>
subVars == <<wire, listener, held, queue, dropped>>
esVars == <<transport, gateVars, runVars, client, subVars, got, missed>>

EventStreamInit ==
    /\ transport \in {"pubsub", "streams"}
    /\ timer = "none" /\ starts = 0 /\ failures = 0 /\ byTimer = FALSE
    /\ task = "none" /\ log = 0 /\ terminal = 0
    /\ client = "idle" /\ wire = <<>> /\ listener = "off" /\ held = 0 /\ queue = <<>>
    /\ got = <<>> /\ dropped = 0 /\ missed = 0

-----------------------------------------------------------------------------
(* The start gate.  ok says whether start_task succeeds. *)

(* _try_start, under its lock. *)
TryStart(ok) ==
    IF starts > 0 THEN UNCHANGED <<starts, failures, task>>
    ELSE IF ok THEN starts' = starts + 1 /\ task' = "running" /\ UNCHANGED failures
    ELSE failures < MaxFailures /\ failures' = failures + 1 /\ UNCHANGED <<starts, task>>

(* Mutant: the task is started at once over Pub/Sub as well. *)
MutantBuildStarts(ok) ==
    /\ TryStart(ok)
    /\ timer' = "armed"
    /\ UNCHANGED <<transport, byTimer, log, terminal, client, subVars, got, missed>>

(* _build_streaming_task_on_subscribe: with Redis Streams the task starts  *)
(* now, otherwise the timer is armed.                                      *)
Build(ok) ==
    /\ IF transport = "streams" THEN TryStart(ok) /\ timer' = "over"
       ELSE timer' = "armed" /\ UNCHANGED <<starts, failures, task>>
    /\ UNCHANGED <<transport, byTimer, log, terminal, client, subVars, got, missed>>

(* SSE_TASK_START_FALLBACK_MS have passed. *)
TimerFires(ok) ==
    /\ timer = "armed"
    /\ timer' = "over"
    /\ TryStart(ok)
    /\ byTimer' = (starts = 0 /\ ok)
    /\ UNCHANGED <<transport, log, terminal, client, subVars, got, missed>>

-----------------------------------------------------------------------------
(* The run.  topic.publish reaches nobody over Pub/Sub when there is no    *)
(* subscription.                                                           *)
Publish(last) ==
    /\ task = "running" /\ log < MaxEvents
    /\ log' = log + 1
    /\ terminal' = IF last THEN log + 1 ELSE terminal
    /\ task' = IF last THEN "ended" ELSE task
    /\ wire' = IF transport = "streams" \/ listener = "on" THEN Append(wire, log + 1) ELSE wire
    /\ missed' = IF transport = "pubsub" /\ listener = "off" THEN log + 1 ELSE missed
    /\ UNCHANGED <<transport, gateVars, client, listener, held, queue, dropped, got>>

(* The worker process dies; the terminal event is never published. *)
Crash ==
    /\ task = "running"
    /\ task' = "crashed"
    /\ UNCHANGED <<transport, gateVars, log, terminal, client, subVars, got, missed>>

-----------------------------------------------------------------------------
(* The listener thread of the subscription. *)

Room == Len(queue) < QueueSize

(* An event leaves the socket.  Over Pub/Sub the queue is bounded. *)
Listen ==
    /\ client # "closed"
    /\ listener = "on" /\ held = 0 /\ wire # <<>>
    /\ wire' = Tail(wire)
    /\ IF transport = "streams" \/ Room
       THEN queue' = Append(queue, Head(wire)) /\ UNCHANGED held
       ELSE held' = Head(wire) /\ UNCHANGED queue
    /\ UNCHANGED <<transport, gateVars, runVars, client, listener, dropped, got, missed>>

(* _enqueue_message on queue.Full: drop the oldest event, if the client    *)
(* has not emptied the queue meanwhile, and try again.                     *)
DropOldest ==
    /\ client # "closed"
    /\ held # 0 /\ Len(queue) = QueueSize
    /\ queue' = Tail(queue)
    /\ dropped' = dropped + 1
    /\ UNCHANGED <<transport, gateVars, runVars, client, wire, listener, held, got, missed>>

(* Mutant: the event that was put is put again. *)
MutantPutAgain ==
    /\ client # "closed"
    /\ held # 0 /\ Room
    /\ queue' = Append(queue, held)
    /\ UNCHANGED <<transport, gateVars, runVars, client, wire, listener, held, dropped, got, missed>>

PutHeld ==
    /\ client # "closed"
    /\ held # 0 /\ Room
    /\ queue' = Append(queue, held)
    /\ held' = 0
    /\ UNCHANGED <<transport, gateVars, runVars, client, wire, listener, dropped, got, missed>>

(* An error of Redis ends the thread.  A streams subscription leaves a     *)
(* sentinel that closes it for the reader; a Pub/Sub one leaves nothing.   *)
ListenerDies ==
    /\ client # "closed"
    /\ listener = "on" /\ held = 0
    /\ listener' = "dead"
    /\ queue' = IF transport = "streams" THEN Append(queue, 0) ELSE queue
    /\ UNCHANGED <<transport, gateVars, runVars, client, wire, held, dropped, got, missed>>

-----------------------------------------------------------------------------
(* stream_topic_events. *)

Subscribe ==
    /\ client = "idle"
    /\ client' = "subscribing"
    /\ listener' = "on"
    /\ UNCHANGED <<transport, gateVars, runVars, wire, held, queue, dropped, got, missed>>

(* on_subscribe; the timer is cancelled when the task has been started. *)
OnSubscribe(ok) ==
    /\ client = "subscribing"
    /\ client' = "receiving"
    /\ TryStart(ok)
    /\ timer' = IF starts' > 0 THEN "over" ELSE timer
    /\ UNCHANGED <<transport, byTimer, log, terminal, subVars, got, missed>>

(* receive: an event is passed on; the terminal one, or the sentinel, ends *)
(* the stream.                                                             *)
Receive ==
    /\ client = "receiving" /\ queue # <<>>
    /\ queue' = Tail(queue)
    /\ got' = IF Head(queue) = 0 THEN got ELSE Append(got, Head(queue))
    /\ client' = IF Head(queue) \in {0} \union ({terminal} \ {0}) THEN "closed" ELSE client
    /\ UNCHANGED <<transport, gateVars, runVars, wire, listener, held, dropped, missed>>

(* Mutant: the stream has no idle timeout. *)
MutantWaitForever == FALSE /\ UNCHANGED esVars

(* Nothing arrived for idle_timeout seconds. *)
IdleTimeout ==
    /\ client = "receiving" /\ queue = <<>> /\ held = 0
    /\ client' = "closed"
    /\ UNCHANGED <<transport, gateVars, runVars, subVars, got, missed>>

(* The client disconnects, before or while it receives. *)
Disconnect ==
    /\ client # "closed"
    /\ client' = "closed"
    /\ UNCHANGED <<transport, gateVars, runVars, subVars, got, missed>>

ClientStep == Subscribe \/ (\E ok \in BOOLEAN : OnSubscribe(ok)) \/ Receive \/ IdleTimeout
ListenerStep == Listen \/ DropOldest \/ PutHeld \/ ListenerDies
=============================================================================
