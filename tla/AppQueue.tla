------------------------------ MODULE AppQueue ------------------------------
(***************************************************************************)
(* One chat request: AppQueueManager, MessageBasedAppQueueManager, the     *)
(* loop of EasyUIBasedGenerateTaskPipeline that listens to the queue, the  *)
(* worker thread that runs the model, the output-moderation thread and the *)
(* user who stops the task.                                                *)
(*                                                                         *)
(* put(message) and the put(None) of stop_listen are separate steps of the *)
(* publishing thread.  The value of _is_stopped is cached for one second.  *)
(* Pings are left out: they are messages that the listener passes on.      *)
(***************************************************************************)
EXTENDS Naturals, Sequences

CONSTANTS MaxChunks,  \* bound: chunks the model generates
          Moderated   \* output moderation is configured

ASSUME AppQueueConstants == MaxChunks \in Nat /\ Moderated \in BOOLEAN

VARIABLES
    q,         \* the queue; "none" is the None of stop_listen
    worker,    \* "run", "check" (after a put), "ending" (before None), "done"
    sent,      \* chunks published by the worker
    listener,  \* "get", "handle", "finally", "leave", "done"; before None:
               \* "stopping" (in the finally clause), "replacing" (in HandleChunk)
    message,   \* the message the listener holds
    belong,    \* Redis: generate_task_belong exists
    flag,      \* Redis: generate_task_stopped exists
    cache,     \* _stopped_cache: "empty", "yes", "no"
    timeUp,    \* APP_MAX_EXECUTION_TIME has elapsed
    stopper,   \* the stop request: "idle", "allowed", "done"
    moderator, \* "off", "on", "flagged" (about to publish), "done"
    unread,    \* the buffer holds text the moderation thread has not looked at
    direct,    \* OutputModeration.final_output is set
    saved,     \* events that ended and saved the message, in order (history)
    errored,   \* an error was reported to the client (history)
    gone       \* the client disconnected

queueVars == <<q, belong>>
workerVars == <<worker, sent>>
listenerVars == <<listener, message, saved, errored, gone>>
stopVars == <<flag, cache, timeUp, stopper>>
moderationVars == <<moderator, unread, direct>>
vars == <<queueVars, workerVars, listenerVars, stopVars, moderationVars>>

Ending == {"end", "error", "stop"}

Init ==
    /\ q = <<>> /\ belong = TRUE
    /\ worker = "run" /\ sent = 0
    /\ listener = "get" /\ message = "none" /\ saved = <<>> /\ errored = FALSE /\ gone = FALSE
    /\ flag = FALSE /\ cache = "empty" /\ timeUp = FALSE /\ stopper = "idle"
    /\ moderator = "off" /\ unread = FALSE /\ direct = FALSE

-----------------------------------------------------------------------------
(* _is_stopped: the cached answer, or that of Redis, which is then cached. *)
IsStopped == IF cache = "empty" THEN flag ELSE cache = "yes"

CacheStopped == cache' = IF IsStopped THEN "yes" ELSE "no"

CacheExpires ==
    /\ cache # "empty"
    /\ cache' = "empty"
    /\ UNCHANGED <<queueVars, workerVars, listenerVars, flag, timeUp, stopper, moderationVars>>

TimePasses ==
    /\ ~timeUp
    /\ timeUp' = TRUE
    /\ UNCHANGED <<queueVars, workerVars, listenerVars, flag, cache, stopper, moderationVars>>

(* set_stop_flag: the task must still belong to the user. *)
StopRead ==
    /\ stopper = "idle"
    /\ stopper' = IF belong THEN "allowed" ELSE "done"
    /\ UNCHANGED <<queueVars, workerVars, listenerVars, flag, cache, timeUp, moderationVars>>

StopSet ==
    /\ stopper = "allowed"
    /\ stopper' = "done"
    /\ flag' = TRUE
    /\ UNCHANGED <<queueVars, workerVars, listenerVars, cache, timeUp, moderationVars>>

-----------------------------------------------------------------------------
(* The worker thread publishes as APPLICATION_MANAGER. *)

WorkerPut(m) ==
    /\ q' = Append(q, m)
    /\ UNCHANGED <<belong, listenerVars, stopVars, moderationVars>>

WorkerChunk ==
    /\ worker = "run" /\ sent < MaxChunks
    /\ worker' = "check"
    /\ sent' = sent + 1
    /\ WorkerPut("chunk")

WorkerEnd(m) ==
    /\ worker = "run"
    /\ worker' = "ending"
    /\ UNCHANGED sent
    /\ WorkerPut(m)

(* GenerateTaskStoppedError ends the thread, which publishes nothing more. *)
WorkerCheck ==
    /\ worker = "check"
    /\ worker' = IF IsStopped THEN "done" ELSE "run"
    /\ CacheStopped
    /\ UNCHANGED <<queueVars, sent, listenerVars, flag, timeUp, stopper, moderationVars>>

(* stop_listen, then the last _is_stopped of the publication. *)
WorkerStopListen ==
    /\ worker = "ending"
    /\ worker' = "done"
    /\ belong' = FALSE
    /\ q' = Append(q, "none")
    /\ CacheStopped
    /\ UNCHANGED <<sent, listenerVars, flag, timeUp, stopper, moderationVars>>

-----------------------------------------------------------------------------
(* The listener: listen() and the pipeline that consumes it. *)

Get ==
    /\ listener = "get" /\ q # <<>>
    /\ q' = Tail(q)
    /\ message' = Head(q)
    /\ listener' = IF Head(q) = "none" THEN "leave" ELSE "handle"
    /\ UNCHANGED <<belong, workerVars, saved, errored, gone, stopVars, moderationVars>>

(* queue.Empty after one second. *)
GetEmpty ==
    /\ listener = "get" /\ q = <<>>
    /\ listener' = "finally"
    /\ UNCHANGED <<queueVars, workerVars, message, saved, errored, gone, stopVars, moderationVars>>

(* A chunk goes to the buffer of the moderation thread, which the first    *)
(* one starts; once moderation asks for its own answer, a chunk makes the  *)
(* pipeline publish that answer and stop.                                  *)
HandleChunk ==
    /\ listener = "handle" /\ message \in {"chunk", "replace"}
    /\ IF message = "chunk" /\ direct /\ saved = <<>>
       THEN /\ q' = q \o <<"chunk", "stop">>
            /\ listener' = "replacing"
            /\ UNCHANGED <<moderator, unread>>
       ELSE /\ listener' = "finally"
            /\ IF Moderated /\ message = "chunk" /\ saved = <<>>
               THEN unread' = TRUE /\ moderator' = IF moderator = "off" THEN "on" ELSE moderator
               ELSE UNCHANGED <<moderator, unread>>
            /\ UNCHANGED q
    /\ UNCHANGED <<belong, workerVars, message, saved, errored, gone, stopVars, direct>>

(* Mutant: the saving of a stopped message is left to the end event. *)
MutantStopNotSaved ==
    /\ listener = "handle" /\ message \in {"end", "stop"}
    /\ saved' = IF message = "end" THEN Append(saved, message) ELSE saved
    /\ moderator' = IF moderator = "off" THEN "off" ELSE "done"
    /\ listener' = "finally"
    /\ UNCHANGED <<queueVars, workerVars, message, errored, gone, stopVars, unread, direct>>

(* A stop or message-end event: moderation is ended, the message is saved  *)
(* and message_end goes to the client.  The loop goes on to None.          *)
HandleEnd ==
    /\ listener = "handle" /\ message \in {"end", "stop"}
    /\ saved' = Append(saved, message)
    /\ moderator' = IF moderator = "off" THEN "off" ELSE "done"
    /\ listener' = "finally"
    /\ UNCHANGED <<queueVars, workerVars, message, errored, gone, stopVars, unread, direct>>

(* An error is reported and the loop is left. *)
HandleError ==
    /\ listener = "handle" /\ message = "error"
    /\ errored' = TRUE
    /\ listener' = "leave"
    /\ UNCHANGED <<queueVars, workerVars, message, saved, gone, stopVars, moderationVars>>

(* The client is gone: GeneratorExit at the yield. *)
Disconnect ==
    /\ listener = "handle"
    /\ gone' = TRUE
    /\ listener' = "leave"
    /\ UNCHANGED <<queueVars, workerVars, message, saved, errored, stopVars, moderationVars>>

(* Mutant: only the stop flag ends the request, not the time. *)
MutantNoTimeLimit == IsStopped

StopDue == timeUp \/ IsStopped

(* The finally clause.  It also runs when the loop is left; nobody reads   *)
(* the queue then, so its whole publication is one step.                   *)
Finally ==
    /\ listener \in {"finally", "leave"}
    /\ IF timeUp THEN UNCHANGED cache ELSE CacheStopped
    /\ q' = CASE ~StopDue -> q
              [] StopDue /\ listener = "finally" -> Append(q, "stop")
              [] OTHER -> q \o <<"stop", "none">>
    /\ belong' = (belong /\ ~(StopDue /\ listener = "leave"))
    /\ listener' = CASE listener = "leave" -> "done"
                     [] listener = "finally" /\ StopDue -> "stopping"
                     [] OTHER -> "get"
    /\ UNCHANGED <<workerVars, message, saved, errored, gone, flag, timeUp, stopper,
                   moderationVars>>

(* stop_listen of a stop that the listener's thread published: from the    *)
(* chunk handler the finally clause is still to come.                      *)
ListenerStopListen ==
    /\ listener \in {"replacing", "stopping"}
    /\ belong' = FALSE
    /\ q' = Append(q, "none")
    /\ listener' = IF listener = "replacing" THEN "finally" ELSE "get"
    /\ UNCHANGED <<workerVars, message, saved, errored, gone, stopVars, moderationVars>>

-----------------------------------------------------------------------------
(* OutputModeration.worker looks at the text that has come; flagged, with  *)
(* the action direct_output, it also sets final_output.                    *)
ModerationLooks(action) ==
    /\ moderator = "on" /\ unread
    /\ unread' = FALSE
    /\ moderator' = IF action = "none" THEN "on" ELSE "flagged"
    /\ direct' = (action = "direct_output")
    /\ UNCHANGED <<queueVars, workerVars, listenerVars, stopVars>>

(* The replacement is published unless stop_thread came first; the thread  *)
(* ends after a direct_output and looks at later text after another one.   *)
ModerationPublishes ==
    /\ moderator = "flagged"
    /\ q' = Append(q, "replace")
    /\ moderator' = IF direct THEN "done" ELSE "on"
    /\ UNCHANGED <<belong, workerVars, listenerVars, stopVars, unread, direct>>

-----------------------------------------------------------------------------
Worker ==
    \/ WorkerChunk \/ (\E m \in {"end", "error"} : WorkerEnd(m)) \/ WorkerCheck
    \/ WorkerStopListen

Listener == Get \/ GetEmpty \/ HandleChunk \/ HandleEnd \/ HandleError \/ Finally \/ ListenerStopListen

Next ==
    \/ CacheExpires
    \/ TimePasses
    \/ StopRead
    \/ StopSet
    \/ Worker
    \/ Listener
    \/ Disconnect
    \/ \E action \in {"none", "overridden", "direct_output"} : ModerationLooks(action)
    \/ ModerationPublishes

(* The listener's thread is scheduled and time passes.  Nothing is assumed *)
(* of the worker: a call of the model may never return.                    *)
Spec == Init /\ [][Next]_vars /\ WF_vars(Listener) /\ WF_vars(TimePasses)

-----------------------------------------------------------------------------
(* The request ends neither silently nor over and over: when the listener *)
(* is done, the message was saved or an error was reported, unless the     *)
(* client left; and the message is saved a second time only when two kinds *)
(* of end race, such as a stop and the end of the generation.              *)
EndIsReported ==
    /\ listener = "done" => saved # <<>> \/ errored \/ gone
    /\ Len(saved) > 1 => Len(saved) = 2 /\ saved[1] # saved[2]

(* Whatever the worker does, even if it hangs for ever, the request ends. *)
RequestEnds == <>(listener = "done")
=============================================================================
