-------------------------- MODULE WorkflowRequest --------------------------
(***************************************************************************)
(* The composition of RateLimit and EventStream: the streaming request w   *)
(* of a workflow goes through the limiter and then streams its events,     *)
(* while other requests to the same app come and go.                       *)
(***************************************************************************)
EXTENDS RateLimit, EventStream

CONSTANT w

ASSUME WorkflowRequestConstants == w \in Requests

vars == <<rlVars, esVars>>

Init ==
    /\ RateLimitInit /\ kind[w] = "workflow"
    /\ EventStreamInit

(* Requests other than w are answered inside the limiter's actions. *)
OtherRequest ==
    \E r \in Requests \ {w} : Return(r) \/ Iterate(r) \/ Abandon(r) \/ Close(r)

Limiter == (RateLimitStep \/ OtherRequest \/ Iterate(w)) /\ UNCHANGED esVars

(* generate() builds the start gate and returns the generator. *)
ReturnStream == Return(w) /\ \E ok \in BOOLEAN : Build(ok)

(* The client is gone before it read anything: the stream is never begun.  *)
AbandonStream == Abandon(w) /\ UNCHANGED esVars

(* The generator is iterated; its first item is a ping. *)
Stream ==
    /\ pc[w] = "serving"
    /\ ClientStep \/ ListenerStep
    /\ UNCHANGED rlVars

(* What goes on whether or not the client reads. *)
Background ==
    /\ (\E ok \in BOOLEAN : TimerFires(ok)) \/ (\E last \in BOOLEAN : Publish(last)) \/ Crash
    /\ UNCHANGED rlVars

(* StopIteration or an exception closes the RateLimitGenerator. *)
CloseEnded == client = "closed" /\ Close(w) /\ UNCHANGED esVars

(* The server closes the generator of a client that disconnected. *)
CloseGone == Close(w) /\ Disconnect

Next ==
    \/ Limiter
    \/ ReturnStream
    \/ AbandonStream
    \/ Stream
    \/ Background
    \/ CloseEnded
    \/ CloseGone

Spec == Init /\ [][Next]_vars

(* The threads of a request that is served are scheduled, idle time and    *)
(* the timer pass.  Nothing is assumed of the run or of other requests.    *)
Timer == \E ok \in BOOLEAN : TimerFires(ok)
Fairness ==
    /\ WF_vars(Stream) /\ WF_vars(CloseEnded)
    /\ WF_vars(Timer /\ UNCHANGED rlVars)

FairSpec == Spec /\ Fairness

-----------------------------------------------------------------------------
(* A request makes the number of active requests exceed the limit it was   *)
(* checked against only if two requests were between hlen and hset at the  *)
(* same time.                                                              *)
OverLimitOnlyByRace ==
    [][\A r \in Requests : r \in Entries' \ Entries /\ ~raced' => Cardinality(Entries') <= under[r]]_vars

(* A blocking or chat request that is being answered is counted, unless it *)
(* has been taking more than 10 minutes.                                   *)
CountedWhileServed ==
    \A r \in Requests :
        kind[r] # "workflow" /\ pc[r] \in Entered => r \in Entries \/ active[r] = "swept"

(* A request that is over, however it ended, is not counted any more,      *)
(* unless exit failed to delete its entry.  The quota of one that was      *)
(* served stands; one that was refused or failed has been refunded, or the *)
(* billing service failed to; only an error before generate's try, while   *)
(* the limiter is built, leaves it charged without a refund.               *)
OverLeavesNothing ==
    \A r \in Requests : pc[r] \in Over =>
        /\ r \in Entries => r \in left
        /\ charge[r] = "charged" <=> pc[r] \in {"done", "unbuilt"}

(* However the timer and the subscription race, the run is started at most *)
(* once.                                                                   *)
StartedOnce == starts <= 1

(* Events reach the client in the order of their publication, none twice.  *)
(* What is left out was published before the subscription or dropped from  *)
(* the full queue; over Redis Streams nothing is.                          *)
GapsExplained ==
    /\ \A i, k \in DOMAIN got : i < k => got[i] < got[k]
    /\ got # <<>> => Last(got) - missed - Len(got) <= dropped
    /\ transport = "streams" => missed + dropped = 0

(* A client misses events only if the fallback timer, not its own          *)
(* subscription, started the run.                                          *)
MissedOnlyByTimer == missed > 0 => byTimer

(* A stream that is read comes to an end even if the run dies. *)
StreamEnds == (pc[w] = "serving") ~> (pc[w] = "done")

=============================================================================
