---------------------------- MODULE EventManager ----------------------------
(***************************************************************************)
(* event_management/event_manager.py, class EventManager: the dispatcher   *)
(* thread collects events, and the caller's thread yields them to the      *)
(* consumer of GraphEngine.run.                                            *)
(*                                                                         *)
(* The list of events is accessed under the read-write lock.  The flag     *)
(* _execution_complete is outside it, and the loop condition of            *)
(* emit_events reads the flag and the number of events in two steps.       *)
(* Events are numbered as they are collected; what a layer does when it is *)
(* notified, after the lock was released, does not touch this state (see   *)
(* ReturningClient for the layer that saves events).                       *)
(***************************************************************************)
EXTENDS ReadWriteLock, Sequences, SequencesExt

CONSTANTS Dispatcher, \* the thread that calls collect and mark_complete
          Caller,     \* the thread that runs emit_events
          MaxEvents   \* bound: events collected

ASSUME EventAssumption ==
    /\ Threads = {Dispatcher, Caller} /\ Dispatcher # Caller
    /\ MaxEvents \in Nat

VARIABLES
    events,   \* EventManager._events
    complete, \* EventManager._execution_complete
    emit,     \* emit_events: "flag", "count", "fetch", "yield", "ended"
    batch,    \* its local variable new_events, as far as not yet yielded
    yielded   \* what the consumer has received; yielded_count is its length

eventVars == <<events, complete, emit, batch, yielded>>
vars == <<lockVars, eventVars>>

Init ==
    /\ LockInit
    /\ events = <<>> /\ complete = FALSE
    /\ emit = "flag" /\ batch = <<>> /\ yielded = <<>>

-----------------------------------------------------------------------------
(* The dispatcher thread; it ends with mark_complete. *)

(* collect enters the write lock, or sleeps until the readers have left. *)
CollectLocks ==
    /\ ~complete /\ Len(events) < MaxEvents
    /\ acquire_write(Dispatcher)
    /\ UNCHANGED eventVars

collect ==
    /\ release_write(Dispatcher)
    /\ events' = Append(events, Len(events) + 1)
    /\ UNCHANGED <<complete, emit, batch, yielded>>

mark_complete ==
    /\ pc[Dispatcher] = "out" /\ ~complete
    /\ complete' = TRUE
    /\ UNCHANGED <<lockVars, events, emit, batch, yielded>>

-----------------------------------------------------------------------------
(* The caller's thread: emit_events *)

(* Mutant: the loop ends on the flag alone. *)
MutantEndOnFlag ==
    /\ emit = "flag"
    /\ emit' = IF complete THEN "ended" ELSE "fetch"
    /\ UNCHANGED <<lockVars, events, complete, batch, yielded>>

(* The first operand of the loop condition. *)
TestFlag ==
    /\ emit = "flag"
    /\ emit' = IF complete THEN "count" ELSE "fetch"
    /\ UNCHANGED <<lockVars, events, complete, batch, yielded>>

(* _event_count and _get_new_events enter the read lock. *)
ReadLocks ==
    /\ emit \in {"count", "fetch"}
    /\ acquire_read(Caller)
    /\ UNCHANGED eventVars

(* The second operand, evaluated only once the flag was seen set. *)
TestCount ==
    /\ emit = "count" /\ release_read(Caller)
    /\ emit' = IF Len(yielded) < Len(events) THEN "fetch" ELSE "ended"
    /\ UNCHANGED <<events, complete, batch, yielded>>

(* _get_new_events: the copy of a slice. *)
FetchNew ==
    /\ emit = "fetch" /\ release_read(Caller)
    /\ batch' = SubSeq(events, Len(yielded) + 1, Len(events))
    /\ emit' = "yield"
    /\ UNCHANGED <<events, complete, yielded>>

YieldEvent ==
    /\ emit = "yield" /\ batch # <<>>
    /\ yielded' = Append(yielded, Head(batch))
    /\ batch' = Tail(batch)
    /\ UNCHANGED <<lockVars, events, complete, emit>>

(* The end of the loop body; its sleep is no state change. *)
BatchDone ==
    /\ emit = "yield" /\ batch = <<>>
    /\ emit' = "flag"
    /\ UNCHANGED <<lockVars, events, complete, batch, yielded>>

Collecting == CollectLocks \/ collect \/ mark_complete
Emitting ==
    TestFlag \/ ReadLocks \/ TestCount \/ FetchNew \/ YieldEvent \/ BatchDone

Next == Collecting \/ Emitting

Spec == Init /\ [][Next]_vars

(* The consumer goes on reading and the dispatcher comes to its end.  The  *)
(* lock does not keep readers from overtaking a woken writer for ever:     *)
(* that the writer gets in rests on the sleep of an emitter that found     *)
(* nothing new, hence strong fairness.                                     *)
Fairness ==
    /\ WF_vars(Emitting) /\ WF_vars(Collecting) /\ WF_vars(mark_complete)
    /\ SF_vars(CollectLocks /\ pc'[Dispatcher] = "writing")

FairSpec == Spec /\ Fairness

-----------------------------------------------------------------------------
(* The consumer sees the events in the order they were collected, none     *)
(* twice and none left out, at every moment.                               *)
InOrder == IsPrefix(yielded \o batch, events)

(* When the stream ends, everything that was or ever will be collected has *)
(* been yielded: an event collected between the test of the flag and the   *)
(* count, or just before mark_complete, is not lost.                       *)
NothingLost == [](emit = "ended" => [](yielded = events))

(* The stream ends: neither thread is left waiting for the other, in the   *)
(* lock or in the loop of emit_events.                                     *)
StreamEnds == <>(emit = "ended")
=============================================================================
