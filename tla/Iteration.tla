------------------------------ MODULE Iteration ------------------------------
(* dify_graph/nodes/iteration/iteration_node.py: one run of a child engine   *)
(* per item of a list, one after the other or in a thread pool.  Every child *)
(* works on a deep copy of the parent's variable pool, taken when its thread *)
(* starts; when it is over, the conversation variables of its copy replace   *)
(* those of the parent.                                                      *)
(*                                                                           *)
(* A conversation variable is the set of the iterations whose update it      *)
(* contains: a Variable Assigner in the child appends to it.  The other      *)
(* variables of the pool, the events of the children and the counted tokens  *)
(* are left out; the output of iteration i is i, or 0 for None.              *)
EXTENDS Naturals, Sequences, FiniteSets, SequencesExt

CONSTANTS
    N,             \* length of the iterated list
    parallel_nums, \* IterationNodeData.parallel_nums
    K              \* number of conversation variables

ASSUME IterationAssumption ==
    N \in Nat \ {0} /\ parallel_nums \in Nat \ {0} /\ K \in Nat

Iters == 1 .. N
Names == 1 .. K  \* in the order of the dictionary

VARIABLES
    is_parallel, error_handle_mode,  \* IterationNodeData
    main,     \* the node: "submit", "collect", "sync", "exit", "over"
    current,  \* the iteration being synced
    position, \* conversation variables of current that are already synced
    parent,   \* conversation variables of the parent's pool
    outputs,
    result,   \* "none", "succeeded", "failed"
    child,    \* each iteration: "new", "queued", "running", "ended",
              \* "taken" (its result is), "cancelled"
    copied,   \* its copy of the conversation variables, as far as it is made
    outcome,  \* how its engine ended
    wrote,    \* whether it updated the conversation variables
    seen,     \* history: for each variable copied, the iterations synced before
    order     \* history: the iterations in the order they are synced

nodeVars == <<is_parallel, error_handle_mode>>
mainVars == <<main, current, position, parent, outputs, result, order>>
childVars == <<child, copied, outcome, wrote, seen>>
iterationVars == <<nodeVars, mainVars, childVars>>

IterationInit ==
    /\ is_parallel \in BOOLEAN
    /\ error_handle_mode \in {"terminated", "continue-on-error", "remove-abnormal-output"}
    /\ main = "submit" /\ current = 0 /\ position = 0
    /\ parent = [v \in Names |-> {}]
    \* _execute_parallel_iterations: "Initialize outputs list with None values"
    /\ outputs = IF is_parallel THEN [i \in Iters |-> 0] ELSE <<>>
    /\ result = "none" /\ order = <<>>
    /\ child = [i \in Iters |-> "new"]
    /\ copied = [i \in Iters |-> <<>>] /\ seen = [i \in Iters |-> <<>>]
    /\ outcome = [i \in Iters |-> "none"] /\ wrote = [i \in Iters |-> FALSE]

In(phases) == {i \in Iters : child[i] \in phases}
max_workers == IF is_parallel /\ parallel_nums < N THEN parallel_nums
           ELSE IF is_parallel THEN N ELSE 1

(* The iterations whose value of v has been written to the parent's pool. *)
Synced(v) == {order[x] : x \in DOMAIN order} \ (IF position < v THEN {current} ELSE {})

-----------------------------------------------------------------------------
(* The child of an iteration: _create_graph_engine and _run_single_iter, in  *)
(* a thread of the executor or, in sequential mode, in the node's own.       *)

Become(i, phase) == child' = [child EXCEPT ![i] = phase]

(* A thread takes the iteration that was submitted first. *)
Start(i) ==
    /\ i \in In({"queued"}) /\ \A j \in In({"queued"}) : i <= j
    /\ Cardinality(In({"running"})) < max_workers
    /\ Become(i, "running")
    /\ UNCHANGED <<nodeVars, mainVars, copied, outcome, wrote, seen>>

(* model_copy(deep=True) copies one variable after the other, while the node *)
(* may be writing to the same dictionary.                                    *)
CopyVariable(i) ==
    /\ child[i] = "running" /\ Len(copied[i]) < K
    /\ LET v == Len(copied[i]) + 1
       IN  /\ copied' = [copied EXCEPT ![i] = Append(@, parent[v])]
           /\ seen' = [seen EXCEPT ![i] = Append(@, Synced(v))]
    /\ UNCHANGED <<nodeVars, mainVars, child, outcome, wrote>>

(* The engine ends: "value" and "none" are success with and without an       *)
(* output; "stopped" is a pause or an abort, which no branch handles.        *)
RunEnds(i, o, w) ==
    /\ child[i] = "running" /\ Len(copied[i]) = K
    /\ Become(i, "ended")
    /\ outcome' = [outcome EXCEPT ![i] = o]
    /\ wrote' = [wrote EXCEPT ![i] = w]
    /\ copied' = IF w THEN [copied EXCEPT ![i] = [v \in Names |-> @[v] \union {i}]] ELSE copied
    /\ UNCHANGED <<nodeVars, mainVars, seen>>

(* The copy fails (another node of the parent adds to the dictionary that is *)
(* being iterated), or the engine cannot be built, or raises.                *)
Raises(i) ==
    /\ child[i] = "running"
    /\ Become(i, "ended")
    /\ outcome' = [outcome EXCEPT ![i] = "raised"]
    /\ UNCHANGED <<nodeVars, mainVars, copied, wrote, seen>>

-----------------------------------------------------------------------------
(* The node: _execute_iterations and _execute_parallel_iterations. *)

(* In parallel mode all iterations are submitted before any is collected. *)
Submit ==
    /\ main = "submit"
    /\ LET i == Cardinality(Iters \ In({"new"})) + 1
       IN  /\ Become(i, "queued")
           /\ main' = IF is_parallel /\ i < N THEN "submit" ELSE "collect"
    /\ UNCHANGED <<nodeVars, current, position, parent, outputs, result, order, copied, outcome, wrote, seen>>

(* The exception of an iteration reaches the node. *)
Failed(i) ==
    outcome[i] = "raised" \/ (outcome[i] = "failed" /\ error_handle_mode = "terminated")

Value(i) == IF outcome[i] = "value" THEN i ELSE 0

(* [output for output in outputs if output is not None], written as a        *)
(* recursive function, about which one can prove.                            *)
NotNone(s) ==
    LET kept[k \in 0 .. Len(s)] ==
            IF k = 0 THEN <<>>
            ELSE IF s[k] = 0 THEN kept[k - 1] ELSE Append(kept[k - 1], s[k])
    IN  kept[Len(s)]

(* Mutant of Placed: the results of a thread pool are appended, too. *)
MutantPlaced(i) == Append(NotNone(outputs), Value(i))

(* outputs with the result of iteration i.  In sequential mode it is         *)
(* appended, if _run_single_iter did so.                                     *)
Placed(i) ==
    IF is_parallel THEN [outputs EXCEPT ![i] = Value(i)]
    ELSE IF \/ outcome[i] \in {"value", "none"}
            \/ outcome[i] = "failed" /\ error_handle_mode = "continue-on-error"
         THEN Append(outputs, Value(i))
         ELSE outputs

(* What comes after an iteration whose result is taken: the parallel mode    *)
(* with remove-abnormal-output drops every None at the end, whatever its     *)
(* origin.                                                                   *)
Continue(out) ==
    IF \A i \in Iters : child'[i] = "taken"
    THEN /\ main' = "over" /\ result' = "succeeded"
         /\ outputs' = IF is_parallel /\ error_handle_mode = "remove-abnormal-output"
                       THEN NotNone(out) ELSE out
    ELSE /\ main' = IF is_parallel THEN "collect" ELSE "submit"
         /\ outputs' = out
         /\ UNCHANGED result

(* as_completed yields a future, or the only child has come to its end. *)
Collect(i) ==
    /\ main = "collect" /\ child[i] = "ended" /\ ~Failed(i)
    /\ outputs' = Placed(i)
    /\ main' = "sync" /\ current' = i /\ position' = 0
    /\ order' = Append(order, i)
    /\ UNCHANGED <<nodeVars, parent, result, childVars>>

(* The exception is handled: the output is None and nothing is synced. *)
CollectError(i) ==
    /\ main = "collect" /\ child[i] = "ended" /\ Failed(i)
    /\ is_parallel /\ error_handle_mode # "terminated"
    /\ Become(i, "taken")
    /\ Continue([outputs EXCEPT ![i] = 0])
    /\ UNCHANGED <<nodeVars, current, position, parent, order, copied, outcome, wrote, seen>>

(* The exception ends the node.  Futures that no thread has started are      *)
(* cancelled.                                                                *)
Terminate(i) ==
    /\ main = "collect" /\ child[i] = "ended" /\ Failed(i)
    /\ ~is_parallel \/ error_handle_mode = "terminated"
    /\ child' = [j \in Iters |-> IF child[j] = "queued" THEN "cancelled" ELSE child[j]]
    /\ main' = "exit"
    /\ UNCHANGED <<nodeVars, current, position, parent, outputs, result, order, copied, outcome, wrote, seen>>

(* Mutant of SyncVariable: only what an iteration with an output wrote is    *)
(* kept.                                                                     *)
MutantSyncValue ==
    /\ main = "sync" /\ position < K
    /\ parent' = IF outcome[current] = "value"
                 THEN [parent EXCEPT ![position + 1] = copied[current][position + 1]] ELSE parent
    /\ position' = position + 1
    /\ UNCHANGED <<nodeVars, main, current, outputs, result, order, childVars>>

(* _sync_conversation_variables_from_snapshot adds one variable after the    *)
(* other.  (The keys never change.)                                          *)
SyncVariable ==
    /\ main = "sync" /\ position < K
    /\ parent' = [parent EXCEPT ![position + 1] = copied[current][position + 1]]
    /\ position' = position + 1
    /\ UNCHANGED <<nodeVars, main, current, outputs, result, order, childVars>>

SyncEnds ==
    /\ main = "sync" /\ position = K
    /\ Become(current, "taken")
    /\ Continue(outputs)
    /\ current' = 0 /\ position' = 0
    /\ UNCHANGED <<nodeVars, parent, order, copied, outcome, wrote, seen>>

(* Mutant of ExecutorExit: every future is waited for, cancelled or not. *)
MutantAwaitAll ==
    /\ main = "exit" /\ \A i \in Iters : child[i] \in {"ended", "taken"}
    /\ main' = "over" /\ result' = "failed"
    /\ UNCHANGED <<nodeVars, current, position, parent, outputs, order, childVars>>

(* Leaving the with statement waits for the threads that are still running;  *)
(* their results are dropped.                                                *)
ExecutorExit ==
    /\ main = "exit" /\ In({"queued", "running"}) = {}
    /\ main' = "over" /\ result' = "failed"
    /\ UNCHANGED <<nodeVars, current, position, parent, outputs, order, childVars>>

-----------------------------------------------------------------------------
Outcomes == {"value", "none", "failed", "stopped"}

Child(i) ==
    \/ Start(i) \/ CopyVariable(i) \/ Raises(i)
    \/ \E o \in Outcomes, w \in BOOLEAN : RunEnds(i, o, w)

Main ==
    \/ Submit
    \/ \E i \in Iters : Collect(i) \/ CollectError(i) \/ Terminate(i)
    \/ SyncVariable \/ SyncEnds \/ ExecutorExit

IterationNext == Main \/ \E i \in Iters : Child(i)

IterationSpec == IterationInit /\ [][IterationNext]_iterationVars

(* The node and the threads of the executor, as a whole, go on; so the runs  *)
(* of child engines end (EveryRunEnds of GraphEngine says so of an engine).  *)
FairIterationSpec == IterationSpec /\ WF_iterationVars(Main) /\ WF_iterationVars(\E i \in Iters : Child(i))

-----------------------------------------------------------------------------
(* The outputs of a node that succeeds are those of its iterations, in the   *)
(* order of the items, whatever the order in which threads end.  Each has    *)
(* the index of its item, unless abnormal outputs are to be removed or, in   *)
(* sequential mode, a child was paused or aborted (it then leaves no entry). *)
OutputsInPlace ==
    result = "succeeded" =>
        /\ NotNone(outputs) = NotNone([i \in Iters |-> Value(i)])
        /\ \/ error_handle_mode = "remove-abnormal-output"
           \/ ~is_parallel /\ \E i \in Iters : outcome[i] = "stopped"
           \/ outputs = [i \in Iters |-> Value(i)]

(* A node that succeeds passes on the updates its iterations made to         *)
(* conversation variables, also those of an iteration that failed later.     *)
(* One is lost only if another iteration, collected afterwards, had copied   *)
(* the variable before it was synced; in sequential mode none does.          *)
UpdatesLostOnlyByOverlap ==
    result = "succeeded" =>
        \A i \in Iters, v \in Names :
            wrote[i] /\ i \notin parent[v] =>
                /\ is_parallel
                /\ \E x, y \in DOMAIN order : x < y /\ order[x] = i /\ i \notin seen[order[y]][v]

(* The node ends, also if an iteration fails while others wait for a thread. *)
NodeEnds == <>(main = "over")
=============================================================================
