----------------------------- MODULE WorkerPool -----------------------------
(***************************************************************************)
(* worker_management/worker_pool.py and the loop of worker.py: how many    *)
(* worker threads serve the ready queue of one engine.                     *)
(*                                                                         *)
(* The dispatcher calls check_and_scale before it waits for an event; the  *)
(* pool's lock makes start, stop and check_and_scale atomic towards each   *)
(* other.  A worker counts as idle by the time since it last TOOK a node   *)
(* (_last_task_time), so a worker busy with a long node counts as idle     *)
(* too.  Time is a tick of 0.2 seconds: age is what has passed since the   *)
(* last task, counted up to IdleTime ticks (scale_down_idle_time).         *)
(***************************************************************************)
EXTENDS Naturals, FiniteSets

CONSTANTS
    MinWorkers, MaxWorkers,  \* GraphEngineConfig
    ScaleUpThreshold,        \* queue depth above which a worker is added
    IdleTime,                \* scale_down_idle_time, in ticks
    InitialCount,            \* workers that start creates
    MaxThreads,              \* bound: workers created
    MaxNodes                 \* bound: nodes enqueued

ASSUME PoolAssumption ==
    /\ MinWorkers \in Nat \ {0} /\ MaxWorkers \in Nat /\ MinWorkers <= MaxWorkers
    /\ ScaleUpThreshold \in Nat /\ IdleTime \in Nat \ {0}
    \* start adds 0, 1 or 2 to MinWorkers, depending on the size of the graph
    /\ InitialCount \in MinWorkers .. MaxWorkers
    /\ MaxThreads \in Nat /\ InitialCount <= MaxThreads
    /\ MaxNodes \in Nat

Threads == 1 .. MaxThreads

VARIABLES
    running,  \* WorkerPool._running
    pool,     \* WorkerPool._workers, a set of threads
    created,  \* WorkerPool._worker_counter
    joining,  \* the worker that _remove_worker waits for, 0 if none
    phase,    \* each thread: "unborn", "waiting" for a node, "busy", "exited"
    stop,     \* each thread's _stop_event
    age,      \* ticks since _last_task_time
    queued,   \* ready_queue.qsize()
    enqueued  \* nodes put into the queue so far

poolVars == <<running, pool, created, joining, phase, stop, age, queued, enqueued>>

PoolTypeOK ==
    /\ running \in BOOLEAN /\ pool \subseteq Threads /\ created \in 0 .. MaxThreads
    /\ joining \in 0 .. MaxThreads
    /\ phase \in [Threads -> {"unborn", "waiting", "busy", "exited"}]
    /\ stop \in [Threads -> BOOLEAN] /\ age \in [Threads -> 0 .. IdleTime]
    /\ queued \in Nat /\ enqueued \in 0 .. MaxNodes

Live == {w \in Threads : phase[w] \in {"waiting", "busy"}}
Busy == {w \in Threads : phase[w] = "busy"}

(* The pool has been started. *)
PoolInit ==
    /\ running = TRUE /\ pool = 1 .. InitialCount /\ created = InitialCount
    /\ joining = 0
    /\ phase = [w \in Threads |-> IF w <= InitialCount THEN "waiting" ELSE "unborn"]
    /\ stop = [w \in Threads |-> FALSE] /\ age = [w \in Threads |-> 0]
    /\ queued = 0 /\ enqueued = 0

-----------------------------------------------------------------------------
(* Worker.run *)

(* A worker waiting in get takes a node, even if it was just told to stop. *)
Take(w) ==
    /\ phase[w] = "waiting" /\ queued > 0
    /\ queued' = queued - 1
    /\ phase' = [phase EXCEPT ![w] = "busy"]
    /\ age' = [age EXCEPT ![w] = 0]
    /\ UNCHANGED <<running, pool, created, joining, stop, enqueued>>

(* _execute_node ends; the loop condition is tested. *)
Finish(w) ==
    /\ phase[w] = "busy"
    /\ phase' = [phase EXCEPT ![w] = IF stop[w] THEN "exited" ELSE "waiting"]
    /\ UNCHANGED <<running, pool, created, joining, stop, age, queued, enqueued>>

(* get timed out. *)
Exit(w) ==
    /\ phase[w] = "waiting" /\ stop[w]
    /\ phase' = [phase EXCEPT ![w] = "exited"]
    /\ UNCHANGED <<running, pool, created, joining, stop, age, queued, enqueued>>

PoolWorker(w) == Take(w) \/ Finish(w) \/ Exit(w)

Tick ==
    /\ \E w \in Live : age[w] < IdleTime
    /\ age' = [w \in Threads |-> IF w \in Live /\ age[w] < IdleTime THEN age[w] + 1 ELSE age[w]]
    /\ UNCHANGED <<running, pool, created, joining, phase, stop, queued, enqueued>>

(* GraphStateManager.enqueue_node *)
Enqueue ==
    /\ running /\ enqueued < MaxNodes
    /\ queued' = queued + 1 /\ enqueued' = enqueued + 1
    /\ UNCHANGED <<running, pool, created, joining, phase, stop, age>>

-----------------------------------------------------------------------------
(* WorkerPool.check_and_scale *)

is_idle(w) == age[w] > 0

(* Mutant: the pool grows without looking at max_workers. *)
MutantScalesUpAlways == queued > ScaleUpThreshold

ScalesUp == queued > ScaleUpThreshold /\ Cardinality(pool) < MaxWorkers

(* _try_scale_down: the counts were taken before the pool was scaled up. *)
HasExcessCapacity ==
    LET idle   == Cardinality({w \in pool : is_idle(w)})
        active == Cardinality(pool) - idle
    IN  /\ Cardinality(pool) > MinWorkers /\ idle > 0
        /\ queued <= active \/ idle > active \/ queued = 0

(* Mutant: every worker that is idle for long enough may go. *)
MutantRemovableBelowMin == {w \in pool : is_idle(w) /\ age[w] >= IdleTime}

(* The first worker of the list that is idle for long enough is removed,   *)
(* if enough others remain.                                                *)
Removable ==
    LET remaining == Cardinality(pool) - 1
    IN  {w \in pool : /\ is_idle(w) /\ age[w] >= IdleTime
                      /\ HasExcessCapacity
                      /\ remaining >= MinWorkers
                      /\ remaining >= 1 /\ remaining >= queued \div 2}

Removed == {w \in Removable : \A v \in Removable : w <= v}

(* check_and_scale up to the join in _remove_worker.  A new worker is not  *)
(* idle.  The removed worker is told to stop, and waited for.              *)
check_and_scale ==
    /\ running /\ joining = 0
    /\ ScalesUp => created < MaxThreads
    /\ LET new == IF ScalesUp THEN {created + 1} ELSE {}
       IN  /\ pool' = pool \union new
           /\ created' = created + Cardinality(new)
           /\ phase' = [w \in Threads |-> IF w \in new THEN "waiting" ELSE phase[w]]
    /\ joining' = IF Removed = {} THEN 0 ELSE CHOOSE w \in Removed : TRUE
    /\ stop' = [w \in Threads |-> stop[w] \/ w \in Removed]
    /\ UNCHANGED <<running, age, queued, enqueued>>

(* _remove_worker: the worker has ended, or it is busy and the join times  *)
(* out.  It leaves the list in both cases.                                 *)
JoinEnds ==
    /\ joining # 0 /\ phase[joining] # "waiting"
    /\ pool' = pool \ {joining}
    /\ joining' = 0
    /\ UNCHANGED <<running, created, phase, stop, age, queued, enqueued>>

(* WorkerPool.stop *)
Stop ==
    /\ running /\ joining = 0
    /\ running' = FALSE
    /\ stop' = [w \in Threads |-> stop[w] \/ w \in pool]
    /\ pool' = {}
    /\ UNCHANGED <<created, joining, phase, age, queued, enqueued>>

PoolNext ==
    \/ \E w \in Threads : PoolWorker(w)
    \/ Tick \/ Enqueue \/ check_and_scale \/ JoinEnds \/ Stop

PoolSpec == PoolInit /\ [][PoolNext]_poolVars

(* Workers are scheduled and node runs end. *)
FairPoolSpec == PoolSpec /\ \A w \in Threads : WF_poolVars(PoolWorker(w))

-----------------------------------------------------------------------------
(* As long as the pool runs, its list stays between min_workers and        *)
(* max_workers, although a check may add one worker and remove another     *)
(* with counts taken before; and no listed worker has been told to stop    *)
(* (but for the one being removed), so the queue never goes unserved.      *)
PoolWithinBounds ==
    running =>
        /\ Cardinality(pool) \in MinWorkers .. MaxWorkers
        /\ \A w \in pool \ {joining} : w \in Live /\ ~stop[w]

(* Every enqueued node is eventually taken, unless the pool is stopped. *)
QueueIsServed == (queued > 0) ~> (queued = 0 \/ ~running)
=============================================================================
