--------------------------- MODULE ReadWriteLock ---------------------------
(***************************************************************************)
(* event_management/event_manager.py, class ReadWriteLock: a condition     *)
(* variable over a re-entrant mutex, and a count of readers.               *)
(*                                                                         *)
(* A reader holds the mutex only while it changes the count.  A writer     *)
(* holds it for its whole critical section, and waits on the condition     *)
(* while readers are counted.  Only the last reader notifies;              *)
(* release_write does not.                                                 *)
(***************************************************************************)
EXTENDS Naturals, FiniteSets

CONSTANTS Threads, \* threads that read and write
          NoThread \* owner of the free mutex

ASSUME LockAssumption == IsFiniteSet(Threads) /\ NoThread \notin Threads

VARIABLES
    owner,   \* thread that holds the mutex
    readers, \* ReadWriteLock._readers
    pc       \* where each thread is; "waiting" and "woken" are inside
             \* Condition.wait, before and after a notification

lockVars == <<owner, readers, pc>>

Reading == {t \in Threads : pc[t] = "reading"}
Writing == {t \in Threads : pc[t] = "writing"}

LockTypes ==
    /\ owner \in Threads \union {NoThread}
    /\ readers \in Nat
    /\ pc \in [Threads -> {"out", "reading", "waiting", "woken", "writing"}]

LockInit ==
    /\ owner = NoThread /\ readers = 0
    /\ pc = [t \in Threads |-> "out"]

(* The mutex is taken and given back within the step. *)
acquire_read(t) ==
    /\ pc[t] = "out" /\ owner = NoThread
    /\ readers' = readers + 1
    /\ pc' = [pc EXCEPT ![t] = "reading"]
    /\ UNCHANGED owner

(* Mutant: the last reader does not notify. *)
MutantNoNotify(t) ==
    /\ pc[t] = "reading" /\ owner = NoThread
    /\ readers' = readers - 1
    /\ pc' = [pc EXCEPT ![t] = "out"]
    /\ UNCHANGED owner

(* The last reader wakes every waiting writer. *)
release_read(t) ==
    /\ pc[t] = "reading" /\ owner = NoThread
    /\ readers' = readers - 1
    /\ pc' = [u \in Threads |->
                IF u = t THEN "out"
                ELSE IF readers = 1 /\ pc[u] = "waiting" THEN "woken" ELSE pc[u]]
    /\ UNCHANGED owner

(* The mutex is taken, at first or on the way out of wait, and the count   *)
(* is tested: the thread waits, giving the mutex back, or keeps it.        *)
acquire_write(t) ==
    /\ pc[t] \in {"out", "woken"} /\ owner = NoThread
    /\ IF readers > 0
       THEN pc' = [pc EXCEPT ![t] = "waiting"] /\ UNCHANGED owner
       ELSE pc' = [pc EXCEPT ![t] = "writing"] /\ owner' = t
    /\ UNCHANGED readers

release_write(t) ==
    /\ pc[t] = "writing"
    /\ owner' = NoThread
    /\ pc' = [pc EXCEPT ![t] = "out"]
    /\ UNCHANGED readers

LockNext ==
    \E t \in Threads : acquire_read(t) \/ release_read(t) \/ acquire_write(t) \/ release_write(t)

LockSpec == LockInit /\ [][LockNext]_lockVars

-----------------------------------------------------------------------------
(* A writer is alone: no other writer and no reader is in its critical     *)
(* section at the same time, although writers that were woken together     *)
(* race each other and new readers for the mutex.                          *)
WriterIsAlone ==
    \A t \in Writing : Writing = {t} /\ Reading = {}

(* No wakeup is lost: while a writer sleeps, some reader is inside that    *)
(* will notify it, although neither release_write nor a reader that is not *)
(* the last one notifies.                                                  *)
NoLostWakeup == (\E t \in Threads : pc[t] = "waiting") => Reading # {}

(* The inductive invariant: the count is the number of readers, and the    *)
(* mutex belongs to the writer.                                            *)
LockInv ==
    /\ LockTypes
    /\ readers = Cardinality(Reading)
    /\ \A t \in Threads : pc[t] = "writing" <=> owner = t
    /\ owner # NoThread => readers = 0
    /\ (\E t \in Threads : pc[t] = "waiting") => readers > 0
=============================================================================
