-------------------------- MODULE ReturningClient --------------------------
(***************************************************************************)
(* services/workflow_event_snapshot_service.py, composed with the          *)
(* EventManager: a client comes back to a run, is sent the node executions *)
(* that are in the database, and then the events of a subscription.        *)
(*                                                                         *)
(* An event is appended to the manager's list, after that the persistence  *)
(* layer saves it, while the caller's thread may already yield it to the   *)
(* pipeline that publishes it; so it may be published before it is saved.  *)
(* The engine may be the second one of the run, which was paused before:   *)
(* event 0 stands for what the first one published, which ends with a      *)
(* pause.  TheEnd is the final event, a pause or not.  The queue of the    *)
(* subscription is EventStream's, here without the steps of its listener;  *)
(* events of other kinds than nodes', texts and task ids are left out.     *)
(***************************************************************************)
EXTENDS EventManager

CONSTANTS QueueSize,  \* RedisSubscriptionBase: maxsize of its queue
          BufferSize  \* _start_buffering: maxsize of the buffer

ASSUME ReturnAssumption == QueueSize \in Nat \ {0} /\ BufferSize \in Nat \ {0}

VARIABLES
    resumed,   \* the run was paused before this engine
    transport, \* "pubsub" or "streams"
    phase,     \* of the run as saved: "paused", "running", "paused_again", "finished"
    saved,     \* events the persistence layer has saved
    log,       \* events published to the topic
    client,    \* build_workflow_event_stream: "away", "read", "snapshot", "start",
               \* "test_done", "test_empty", "get", "closed"
    why,       \* what closed it: "finished", "pause", "event", "done", "idle"
    seen,      \* the phase it has read
    snap,      \* events in the snapshot it has read
    atRead,    \* events published when it read the snapshot, and ...
    before,    \* ... when it subscribed (both history)
    listener,  \* the subscription: "off", "on", "dead"
    sub,       \* its queue; Sentinel closes it
    buffer,    \* BufferState.queue
    held,      \* the event the buffering thread could not put, or None
    done,      \* BufferState.done_event
    got,       \* events of the subscription passed on to the client (history)
    dropped    \* events dropped from one of the queues (history)

runVars == <<resumed, transport, phase, saved, log>>
readVars == <<why, seen, snap, before, atRead>>
queueVars == <<listener, sub, buffer, held, done, dropped>>
returnVars == <<runVars, client, readVars, queueVars, got>>
allVars == <<vars, returnVars>>

TheEnd == MaxEvents + 1
Sentinel == MaxEvents + 2
None == MaxEvents + 3
Published == IF resumed THEN Len(log) - 1 ELSE Len(log)  \* by this engine
Paused == {"paused", "paused_again"}

ReturnInit ==
    /\ Init
    /\ resumed \in BOOLEAN /\ transport \in {"pubsub", "streams"}
    /\ phase = (IF resumed THEN "paused" ELSE "running")
    /\ saved = 0 /\ log = IF resumed THEN <<0>> ELSE <<>>
    /\ client = "away" /\ why = "none" /\ seen = "none"
    /\ snap = 0 /\ before = {} /\ atRead = {}
    /\ listener = "off" /\ sub = <<>> /\ buffer = <<>> /\ held = None /\ done = FALSE
    /\ got = <<>> /\ dropped = {}

-----------------------------------------------------------------------------
(* The run *)

(* The resume task starts the second engine. *)
ResumeRun ==
    /\ phase = "paused"
    /\ phase' = "running"
    /\ UNCHANGED <<vars, resumed, transport, saved, log, client, readVars, queueVars, got>>

(* Mutant: layers are notified by a thread of their own. *)
MutantNotified == TRUE

(* collect returns when every layer was notified. *)
Notified == saved = Len(events)

ManagerStep ==
    /\ phase = "running"
    /\ Emitting \/ collect \/ (Notified /\ (CollectLocks \/ mark_complete))
    /\ UNCHANGED returnVars

(* _notify_layers, outside the lock: on_event of the persistence layer.  *)
on_event ==
    /\ saved < Len(events)
    /\ saved' = saved + 1
    /\ UNCHANGED <<vars, resumed, transport, phase, log, client, readVars, queueVars, got>>

(* GraphEngine.run notifies the layers of the final event, then yields it. *)
Conclude(final) ==
    /\ emit = "ended" /\ phase = "running"
    /\ phase' = final
    /\ UNCHANGED <<vars, resumed, transport, saved, log, client, readVars, queueVars, got>>

(* The event that _publish_streaming_response publishes next, if any. *)
NextEvent ==
    IF Published < Len(yielded) THEN Published + 1
    ELSE IF phase \in {"paused_again", "finished"} /\ Published = Len(yielded) THEN TheEnd
    ELSE None

publish ==
    /\ NextEvent # None
    /\ log' = Append(log, NextEvent)
    /\ LET open == listener = "on" /\ client # "closed"
           full == transport = "pubsub" /\ Len(sub) = QueueSize
       IN  /\ sub' = IF ~open THEN sub
                     ELSE Append(IF full THEN Tail(sub) ELSE sub, NextEvent)
           /\ dropped' = IF open /\ full THEN dropped \union {Head(sub)} ELSE dropped
    /\ UNCHANGED <<vars, resumed, transport, phase, saved, client, readVars,
                   listener, buffer, held, done, got>>

-----------------------------------------------------------------------------
(* The request of the client *)

Close(reason) == client' = "closed" /\ why' = reason

(* The controller reads the run; one that has finished is answered at once. *)
ReadRun ==
    /\ client = "away"
    /\ seen' = phase
    /\ IF phase = "finished" THEN Close("finished") ELSE client' = "read" /\ UNCHANGED why
    /\ UNCHANGED <<vars, runVars, snap, before, atRead, queueVars, got>>

(* build_workflow_event_stream: the pause, unless it was deleted or its     *)
(* reading failed, and then the node executions.                            *)
ReadSnapshot(found) ==
    /\ client = "read"
    /\ seen' = IF found THEN seen ELSE "running"
    /\ snap' = saved /\ atRead' = ToSet(log)
    /\ client' = "snapshot"
    /\ UNCHANGED <<vars, runVars, why, before, queueVars, got>>

(* topic.subscribe; a stream is read from its beginning. *)
Subscribe ==
    /\ client = "snapshot"
    /\ listener' = "on" /\ before' = ToSet(log)
    /\ sub' = IF transport = "streams" THEN log ELSE <<>>
    /\ client' = "start"
    /\ UNCHANGED <<vars, runVars, why, seen, snap, atRead, buffer, held, done, dropped, got>>

(* The snapshot is sent; it ends with the pause the client has read.  What *)
(* the subscription brings is not compared with it.                        *)
SendSnapshot ==
    /\ client = "start"
    /\ IF seen \in Paused THEN Close("pause") ELSE client' = "test_done" /\ UNCHANGED why
    /\ UNCHANGED <<vars, runVars, seen, snap, before, atRead, queueVars, got>>

(* Mutant: the loop ends when the buffering thread has ended. *)
MutantLeave ==
    /\ client = "test_done"
    /\ IF done THEN Close("done") ELSE client' = "get" /\ UNCHANGED why
    /\ UNCHANGED <<vars, runVars, seen, snap, before, atRead, queueVars, got>>

(* The two operands of the test at the head of the loop. *)
TestDone ==
    /\ client = "test_done"
    /\ client' = IF done THEN "test_empty" ELSE "get"
    /\ UNCHANGED <<vars, runVars, readVars, queueVars, got>>

TestEmpty ==
    /\ client = "test_empty"
    /\ IF buffer = <<>> THEN Close("done") ELSE client' = "get" /\ UNCHANGED why
    /\ UNCHANGED <<vars, runVars, seen, snap, before, atRead, queueVars, got>>

(* An event is passed on; a final one and any pause end the stream. *)
Get ==
    /\ client = "get" /\ buffer # <<>>
    /\ buffer' = Tail(buffer) /\ got' = Append(got, Head(buffer))
    /\ IF Head(buffer) \in {0, TheEnd} THEN Close("event")
       ELSE client' = "test_done" /\ UNCHANGED why
    /\ UNCHANGED <<vars, runVars, seen, snap, before, atRead, listener, sub, held, done, dropped>>

(* Nothing came for a second, or for idle_timeout seconds. *)
GetEmpty ==
    /\ client = "get" /\ buffer = <<>>
    /\ Close("idle") \/ (client' = "test_done" /\ UNCHANGED why)
    /\ UNCHANGED <<vars, runVars, seen, snap, before, atRead, queueVars, got>>

-----------------------------------------------------------------------------
(* The threads behind it *)

(* An error of Redis.  Only a streams subscription tells its reader. *)
ListenerDies ==
    /\ listener = "on" /\ client # "closed"
    /\ listener' = "dead"
    /\ sub' = IF transport = "streams" THEN Append(sub, Sentinel) ELSE sub
    /\ UNCHANGED <<vars, runVars, client, readVars, buffer, held, done, dropped, got>>

(* The buffering thread takes an event from the subscription. *)
Forward ==
    /\ client # "closed" /\ ~done /\ held = None
    /\ sub # <<>> /\ Head(sub) # Sentinel
    /\ sub' = Tail(sub)
    /\ IF Len(buffer) < BufferSize THEN buffer' = Append(buffer, Head(sub)) /\ UNCHANGED held
       ELSE held' = Head(sub) /\ UNCHANGED buffer
    /\ UNCHANGED <<vars, runVars, client, readVars, listener, done, dropped, got>>

(* queue.Full: the oldest event is dropped, although the client may have   *)
(* made room meanwhile.                                                    *)
ForwardHeld ==
    /\ client # "closed" /\ held # None
    /\ buffer' = Append(IF buffer = <<>> THEN <<>> ELSE Tail(buffer), held)
    /\ dropped' = IF buffer = <<>> THEN dropped ELSE dropped \union {Head(buffer)}
    /\ held' = None
    /\ UNCHANGED <<vars, runVars, client, readVars, listener, sub, done, got>>

(* receive raises SubscriptionClosedError. *)
BufferingEnds ==
    /\ client # "closed" /\ ~done /\ held = None
    /\ sub # <<>> /\ Head(sub) = Sentinel
    /\ done' = TRUE
    /\ UNCHANGED <<vars, runVars, client, readVars, listener, sub, buffer, held, dropped, got>>

-----------------------------------------------------------------------------
Following == {"start", "test_done", "test_empty", "get"}
Coming == ToSet(sub) \union ToSet(buffer) \union ({held} \ {None})

Run ==
    \/ ResumeRun \/ ManagerStep \/ on_event \/ publish
    \/ \E final \in {"paused_again", "finished"} : Conclude(final)

Client ==
    \/ ReadRun \/ Subscribe \/ SendSnapshot \/ TestDone \/ TestEmpty \/ Get \/ GetEmpty
    \/ \E found \in BOOLEAN : ReadSnapshot(found)

Buffering == Forward \/ ForwardHeld \/ BufferingEnds

ReturnNext == Run \/ Client \/ Buffering \/ ListenerDies

ReturnSpec == ReturnInit /\ [][ReturnNext]_allVars

(* The fairness of the event manager; the resume task, the layers and the  *)
(* pipeline go on.  Nothing is assumed of the client; one that left takes  *)
(* no more steps.                                                          *)
ReturnFairSpec ==
    /\ ReturnSpec /\ Fairness
    /\ WF_allVars(ResumeRun) /\ WF_allVars(on_event) /\ WF_allVars(publish)

-----------------------------------------------------------------------------
(* What a client that came back did not receive from its subscription, nor *)
(* will receive, was dropped from a full queue or was published over       *)
(* Pub/Sub before it had subscribed.  The latter is in the snapshot or was *)
(* published since the snapshot was read, but for at most one event that   *)
(* was not saved by then and for the final event, which no snapshot has.   *)
(*                                                                         *)
(* The subscription brings each event once and in order, but an event of   *)
(* the snapshot may come again: over Pub/Sub only one that was published   *)
(* after the subscription although it was saved before the snapshot was    *)
(* read; over Streams every one comes, unless it is dropped.               *)
GapsOfReturn ==
    /\ \A i, k \in DOMAIN got : i < k => got[i] < got[k]
    /\ transport = "pubsub" => before \intersect (Coming \union ToSet(got)) = {}
    /\ client \in Following /\ listener = "on" =>
         \A e \in ToSet(log) \ (Coming \union ToSet(got) \union dropped) :
             /\ transport = "pubsub" /\ e \in before
             /\ e \in 1 .. snap \/ e \notin atRead \/ e \in {0, snap + 1, TheEnd}

(* The stream ends by an event only at the end of the run, or at a pause:  *)
(* one the client read in the database, or, over Redis Streams only, one   *)
(* that was published before the run was resumed.  When it ends because    *)
(* the buffering thread has ended, nothing is left in the buffer.          *)
ReturnEndsRightly ==
    /\ why \in {"event", "pause"} =>
         \/ TheEnd \in ToSet(got) \/ seen \in Paused
         \/ resumed /\ transport = "streams" /\ Last(got) = 0
    /\ why = "done" => buffer = <<>> /\ held = None
=============================================================================
