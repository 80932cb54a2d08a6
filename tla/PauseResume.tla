---------------------------- MODULE PauseResume ----------------------------
(***************************************************************************)
(* One workflow run that waits for people: its human-input nodes ask for   *)
(* forms, run in parallel and pause the run; users submit the forms, a     *)
(* scanner lets them time out, and Celery tasks resume the run from the    *)
(* state saved with its WorkflowPause.                                     *)
(*                                                                         *)
(* A step is one database transaction, or one call of the storage or the   *)
(* broker.  resume_workflow_pause and mark_timeout read, test and write    *)
(* without a lock, so other transactions commit between their two steps.   *)
(* The forms of a run are created close together and share one global      *)
(* deadline; the graph between the human-input nodes is left out.          *)
(***************************************************************************)
EXTENDS Naturals

CONSTANTS Forms,       \* the human-input nodes, one form each
          Workers,     \* Celery workers that execute the run
          first,       \* the worker of the first execution
          Users,       \* submissions
          MaxFailures, \* bound: failed calls of apply_async
          MaxCrashes   \* bound: crashes of workers

ASSUME PauseResumeConstants ==
    /\ first \in Workers
    /\ MaxFailures \in Nat /\ MaxCrashes \in Nat

VARIABLES
    chat,      \* the app is an advanced chat: its pauses are not deleted
    run,       \* WorkflowRun.status
    status,    \* form -> HumanInputForm.status, "none" before it is created
    submitted, \* forms with a submitted_at
    late,      \* forms whose expiration_time has passed
    overdue,   \* HUMAN_INPUT_GLOBAL_TIMEOUT_SECONDS have passed
    pause,     \* the WorkflowPause row, NoPause when there is none
    pauses,    \* pauses created so far
    queued,    \* resume_app_execution tasks in the broker
    pc,        \* worker -> where its task is
    entity,    \* worker -> id of the pause entity its task holds, 0: none
    decided,   \* worker -> forms decided in the runtime state of its engine
    todo,      \* worker -> human-input nodes its engine still has to run
    user,      \* user -> <<where, form>>
    scan,      \* the timeout scanner: <<where, form, is_global>>
    failures, crashes

runVars == <<run, pause, pauses>>
formVars == <<status, submitted>>
timeVars == <<late, overdue>>
faults == <<failures, crashes>>

(* History: how often a form was decided, the forms whose answer was there *)
(* when a task gave up, whether two tasks were in resume_workflow_pause at *)
(* once, and the workers at work when the global timeout stopped the run.  *)
VARIABLES decisions, early, raced, atStop

history == <<decisions, early, raced, atStop>>
workerVars == <<queued, pc, entity, decided, todo>>
vars == <<chat, runVars, formVars, timeVars, workerVars, user, scan, faults, history>>

NoPause == [id |-> 0, resumed |-> TRUE, object |-> FALSE, decided |-> {}]
NoForm == "no form"
Idle == <<"idle", NoForm, FALSE>>
Finals == {"succeeded", "stopped"}

Created == {f \in Forms : status[f] # "none"}
Answered == {f \in Forms : status[f] \in {"submitted", "timeout", "expired"}}

Goto(k, l) == pc' = [pc EXCEPT ![k] = l]

Init ==
    /\ chat \in BOOLEAN
    /\ run = "running" /\ pause = NoPause /\ pauses = 0
    /\ status = [f \in Forms |-> "none"] /\ submitted = {}
    /\ late = {} /\ overdue = FALSE
    /\ queued = 0
    /\ pc = [k \in Workers |-> IF k = first THEN "run" ELSE "free"]
    /\ entity = [k \in Workers |-> 0]
    /\ decided = [k \in Workers |-> {}]
    /\ todo = [k \in Workers |-> IF k = first THEN Forms ELSE {}]
    /\ user = [u \in Users |-> <<"new", NoForm>>]
    /\ scan = Idle /\ failures = 0 /\ crashes = 0
    /\ decisions = [f \in Forms |-> 0] /\ early = {} /\ raced = FALSE /\ atStop = {}

-----------------------------------------------------------------------------
(* The engine in the task of worker k. *)

(* Mutant: a form that timed out is not looked for. *)
MutantOver(f) == f \in submitted

Over(f) == status[f] \in {"timeout", "expired"} \/ f \in late \/ f \in submitted

(* HumanInputNode._run: the first time it creates the form; later it looks *)
(* whether the form is decided, and pauses if not.                         *)
RunNode(k, f) ==
    /\ pc[k] = "run" /\ f \in todo[k]
    /\ todo' = [todo EXCEPT ![k] = @ \ {f}]
    /\ status' = IF status[f] = "none" THEN [status EXCEPT ![f] = "waiting"] ELSE status
    /\ decided' = [decided EXCEPT ![k] = IF Over(f) THEN @ \union {f} ELSE @]
    /\ decisions' = [decisions EXCEPT ![f] = IF Over(f) THEN @ + 1 ELSE @]
    /\ UNCHANGED <<chat, runVars, submitted, timeVars, queued, pc, entity, user, scan, faults, early, raced, atStop>>

(* Where a task goes when its engine is done: _resume_workflow deletes the *)
(* pause that it resumed.                                                  *)
AfterRun(k) == IF chat \/ entity[k] = 0 THEN "free" ELSE "deleting"

(* GraphRunSucceededEvent, saved by the persistence layer. *)
Succeed(k) ==
    /\ pc[k] = "run" /\ todo[k] = {} /\ decided[k] = Forms
    /\ run' = "succeeded"
    /\ Goto(k, AfterRun(k))
    /\ UNCHANGED <<chat, pause, pauses, formVars, timeVars, queued, entity, decided, todo, user, scan, faults, history>>

(* GraphRunPausedEvent: the persistence layer comes first, ... *)
SavePaused(k) ==
    /\ pc[k] = "run" /\ todo[k] = {} /\ decided[k] # Forms
    /\ run' = "paused"
    /\ Goto(k, "pausing")
    /\ UNCHANGED <<chat, pause, pauses, formVars, timeVars, queued, entity, decided, todo, user, scan, faults, history>>

(* ... then the pause layer calls create_workflow_pause, which replaces    *)
(* the previous pause.  What it raises is logged by the event manager.     *)
create_workflow_pause(k) ==
    /\ pc[k] = "pausing"
    /\ IF run \in {"running", "paused"}
       THEN /\ run' = "paused"
            /\ pauses' = pauses + 1
            /\ pause' = [id |-> pauses + 1, resumed |-> FALSE, object |-> TRUE, decided |-> decided[k]]
       ELSE UNCHANGED runVars
    /\ Goto(k, AfterRun(k))
    /\ UNCHANGED <<chat, formVars, timeVars, queued, entity, decided, todo, user, scan, faults, history>>

(* Mutant: the pause of the run is deleted, whichever it is. *)
MutantDeleteCurrent(k) ==
    /\ pc[k] = "deleting"
    /\ pause' = NoPause
    /\ Goto(k, "free")
    /\ UNCHANGED <<chat, run, pauses, formVars, timeVars, queued, entity, decided, todo, user, scan, faults, history>>

delete_workflow_pause(k) ==
    /\ pc[k] = "deleting"
    /\ pause' = IF pause.id = entity[k] THEN NoPause ELSE pause
    /\ Goto(k, "free")
    /\ UNCHANGED <<chat, run, pauses, formVars, timeVars, queued, entity, decided, todo, user, scan, faults, history>>

-----------------------------------------------------------------------------
(* resume_app_execution. *)

GiveUp(k) ==
    /\ Goto(k, "free")
    /\ early' = early \union Answered
    /\ UNCHANGED <<runVars, entity, decided, todo, raced>>

(* get_workflow_pause *)
Fetch(k) ==
    /\ pc[k] = "free" /\ queued > 0
    /\ queued' = queued - 1
    /\ \/ pause = NoPause /\ GiveUp(k)
       \/ /\ pause # NoPause
          /\ Goto(k, "fetched")
          /\ entity' = [entity EXCEPT ![k] = pause.id]
          /\ UNCHANGED <<runVars, decided, todo, early, raced>>
    /\ UNCHANGED <<chat, formVars, timeVars, user, scan, faults, decisions, atStop>>

(* get_state, from the storage: it may have been deleted meanwhile. *)
Load(k) ==
    /\ pc[k] = "fetched"
    /\ \/ (pause.id # entity[k] \/ ~pause.object) /\ GiveUp(k)
       \/ /\ pause.id = entity[k] /\ pause.object
          /\ Goto(k, "loaded")
          /\ decided' = [decided EXCEPT ![k] = pause.decided]
          /\ UNCHANGED <<runVars, entity, todo, early, raced>>
    /\ UNCHANGED <<chat, formVars, timeVars, queued, user, scan, faults, decisions, atStop>>

(* Mutant: neither the status nor resumed_at is looked at. *)
MutantResumesAlways(k) == pause.id = entity[k]

(* The tests of resume_workflow_pause. *)
Resumable(k) == run = "paused" /\ pause.id = entity[k] /\ ~pause.resumed

resume_workflow_pause(k) ==
    /\ pc[k] = "loaded"
    /\ \/ ~Resumable(k) /\ GiveUp(k)
       \/ /\ Resumable(k)
          /\ Goto(k, "resuming")
          /\ raced' = (raced \/ \E x \in Workers : pc[x] = "resuming")
          /\ UNCHANGED <<runVars, entity, decided, todo, early>>
    /\ UNCHANGED <<chat, formVars, timeVars, queued, user, scan, faults, decisions, atStop>>

(* Its writes.  They fail if the pause row that was tested is gone. *)
WriteResumed(k) ==
    /\ pc[k] = "resuming"
    /\ \/ pause.id # entity[k] /\ GiveUp(k)
       \/ /\ pause.id = entity[k]
          /\ Goto(k, "starting")
          /\ pause' = [pause EXCEPT !.resumed = TRUE]
          /\ run' = "running"
          /\ UNCHANGED <<pauses, entity, decided, todo, early, raced>>
    /\ UNCHANGED <<chat, formVars, timeVars, queued, user, scan, faults, decisions, atStop>>

(* GraphRunStartedEvent, saved by the persistence layer; the paused nodes  *)
(* are scheduled again.                                                    *)
Start(k) ==
    /\ pc[k] = "starting"
    /\ run' = "running"
    /\ Goto(k, "run")
    /\ todo' = [todo EXCEPT ![k] = Forms \ decided[k]]
    /\ UNCHANGED <<chat, pause, pauses, formVars, timeVars, queued, entity, decided, user, scan, faults, history>>

(* The worker dies.  Celery acknowledged the task when it took it. *)
Crash(k) ==
    /\ pc[k] # "free" /\ crashes < MaxCrashes
    /\ crashes' = crashes + 1
    /\ Goto(k, "free")
    /\ UNCHANGED <<chat, runVars, formVars, timeVars, queued, entity, decided, todo, user, scan, failures, history>>

-----------------------------------------------------------------------------
(* HumanInputService.enqueue_resume.  A failure of the broker is logged. *)
enqueue_resume ==
    \/ queued' = queued + 1 /\ UNCHANGED failures
    \/ failures < MaxFailures /\ failures' = failures + 1 /\ UNCHANGED queued

(* submit_form_by_token: ensure_form_active, ... *)
Submit(u, f) ==
    /\ user[u][1] = "new"
    /\ status[f] = "waiting" /\ f \notin submitted /\ f \notin late /\ ~overdue
    /\ user' = [user EXCEPT ![u] = <<"active", f>>]
    /\ UNCHANGED <<chat, runVars, formVars, timeVars, workerVars, scan, faults, history>>

(* ... mark_submitted, which does not look at the form again, ... *)
mark_submitted(u) ==
    /\ user[u][1] = "active"
    /\ LET f == user[u][2]
       IN  status' = [status EXCEPT ![f] = "submitted"] /\ submitted' = submitted \union {f}
    /\ user' = [user EXCEPT ![u][1] = "marked"]
    /\ UNCHANGED <<chat, runVars, timeVars, workerVars, scan, faults, history>>

(* ... and enqueue_resume. *)
SubmitResumes(u) ==
    /\ user[u][1] = "marked"
    /\ enqueue_resume
    /\ user' = [user EXCEPT ![u] = <<"done", NoForm>>]
    /\ UNCHANGED <<chat, runVars, formVars, timeVars, pc, entity, decided, todo, scan, crashes, history>>

-----------------------------------------------------------------------------
Expire(f) ==
    /\ f \in Created \ late
    /\ late' = late \union {f}
    /\ UNCHANGED <<chat, runVars, formVars, overdue, workerVars, user, scan, faults, history>>

GlobalDeadline ==
    /\ ~overdue /\ Created = Forms
    /\ overdue' = TRUE
    /\ UNCHANGED <<chat, runVars, formVars, late, workerVars, user, scan, faults, history>>

(* check_and_handle_human_input_timeouts.  is_global is computed with the  *)
(* time at which the scan began.  mark_timeout tests the form, ...         *)
Scan(f, is_global) ==
    /\ scan = Idle
    /\ status[f] = "waiting" /\ f \notin submitted
    /\ IF is_global THEN overdue ELSE f \in late
    /\ scan' = <<"marking", f, is_global>>
    /\ UNCHANGED <<chat, runVars, formVars, timeVars, workerVars, user, faults, history>>

(* ... and writes its status. *)
mark_timeout ==
    /\ scan[1] = "marking"
    /\ status' = [status EXCEPT ![scan[2]] = IF scan[3] THEN "expired" ELSE "timeout"]
    /\ scan' = [scan EXCEPT ![1] = "marked"]
    /\ UNCHANGED <<chat, runVars, submitted, timeVars, workerVars, user, faults, history>>

(* Mutant: a form that timed out does not resume the run. *)
MutantNoResume ==
    /\ scan[1] = "marked" /\ ~scan[3]
    /\ scan' = Idle
    /\ UNCHANGED <<chat, runVars, formVars, timeVars, workerVars, user, faults, history>>

TimeoutResumes ==
    /\ scan[1] = "marked" /\ ~scan[3]
    /\ enqueue_resume
    /\ scan' = Idle
    /\ UNCHANGED <<chat, runVars, formVars, timeVars, pc, entity, decided, todo, user, crashes, history>>

(* _handle_global_timeout stops the run and spends its pause. *)
_handle_global_timeout ==
    /\ scan[1] = "marked" /\ scan[3]
    /\ run' = "stopped"
    /\ pause' = IF pause = NoPause THEN pause ELSE [pause EXCEPT !.object = FALSE, !.resumed = TRUE]
    /\ scan' = Idle
    /\ atStop' = {k \in Workers : pc[k] \in {"resuming", "starting", "run", "pausing"}}
    /\ UNCHANGED <<chat, pauses, formVars, timeVars, workerVars, user, faults, decisions, early, raced>>

(* The process of the scanner dies between its two transactions. *)
ScannerCrashes ==
    /\ scan # Idle /\ crashes < MaxCrashes
    /\ crashes' = crashes + 1
    /\ scan' = Idle
    /\ UNCHANGED <<chat, runVars, formVars, timeVars, workerVars, user, failures, history>>

-----------------------------------------------------------------------------
Task(k) ==
    \/ \E f \in Forms : RunNode(k, f)
    \/ Succeed(k) \/ SavePaused(k) \/ create_workflow_pause(k) \/ delete_workflow_pause(k)
    \/ Fetch(k) \/ Load(k) \/ resume_workflow_pause(k) \/ WriteResumed(k) \/ Start(k)

Submission(u) == mark_submitted(u) \/ SubmitResumes(u)

Scanner ==
    \/ \E f \in Forms, is_global \in BOOLEAN : Scan(f, is_global)
    \/ mark_timeout \/ TimeoutResumes \/ _handle_global_timeout

Next ==
    \/ \E k \in Workers : Task(k) \/ Crash(k)
    \/ \E u \in Users : Submission(u) \/ \E f \in Forms : Submit(u, f)
    \/ Scanner \/ ScannerCrashes
    \/ GlobalDeadline \/ \E f \in Forms : Expire(f)

Spec == Init /\ [][Next]_vars

(* Workers, the threads of a submission and the scanner go on, and time    *)
(* passes; nobody has to submit anything.                                  *)
FairSpec ==
    /\ Spec
    /\ \A k \in Workers : WF_vars(Task(k))
    /\ \A u \in Users : WF_vars(Submission(u))
    /\ WF_vars(Scanner)
    /\ \A f \in Forms : WF_vars(Expire(f))

-----------------------------------------------------------------------------
PC == {"free", "fetched", "loaded", "resuming", "starting", "run", "pausing", "deleting"}

TypeOK ==
    /\ chat \in BOOLEAN /\ run \in {"running", "paused"} \union Finals
    /\ status \in [Forms -> {"none", "waiting", "submitted", "timeout", "expired"}]
    /\ submitted \subseteq Created /\ late \subseteq Created /\ overdue \in BOOLEAN
    /\ pauses \in Nat
    /\ pause \in [id : 0 .. pauses, resumed : BOOLEAN, object : BOOLEAN, decided : SUBSET Forms]
    /\ queued \in Nat /\ pc \in [Workers -> PC] /\ entity \in [Workers -> 0 .. pauses]
    /\ decided \in [Workers -> SUBSET Forms] /\ todo \in [Workers -> SUBSET Forms]
    /\ \A k \in Workers : pc[k] = "run" => todo[k] \intersect decided[k] = {}
    /\ user \in [Users -> {"new", "active", "marked", "done"} \X (Forms \union {NoForm})]
    /\ \A u \in Users : user[u][1] = "active" => user[u][2] \in Created
    /\ scan \in {"idle", "marking", "marked"} \X (Forms \union {NoForm}) \X BOOLEAN
    /\ scan[1] # "idle" => scan[2] \in Created
    /\ failures \in 0 .. MaxFailures /\ crashes \in 0 .. MaxCrashes
    /\ decisions \in [Forms -> Nat] /\ early \subseteq Forms
    /\ raced \in BOOLEAN /\ atStop \subseteq Workers

Pausing == \E k \in Workers : pc[k] = "pausing"

(* WorkflowPause: a run in the PAUSED state has a pause that is not yet    *)
(* resumed and whose state can be loaded, and no other run has one.  It    *)
(* does not hold while a pause is being saved, after a crash in between,   *)
(* or when a pause was resumed twice.                                      *)
PausedMeansResumable ==
    crashes = 0 /\ ~raced /\ ~Pausing =>
        (run = "paused" <=> ~pause.resumed /\ pause.object)

(* A form is decided once in all the tasks that execute the run, so what   *)
(* follows it is executed once, unless two tasks tested the same pause     *)
(* before either had marked it.                                            *)
DecidedOnceUnlessRaced == ~raced => \A f \in Forms : decisions[f] <= 1

(* Nothing is under way that could still resume the run. *)
Quiet ==
    /\ queued = 0 /\ \A k \in Workers : pc[k] = "free"
    /\ \A u \in Users : user[u][1] \in {"new", "done"}
    /\ scan = Idle

(* A form that is answered and not in the saved state of a paused run will *)
(* never be looked at again. *)
Lost(f) == Quiet /\ run = "paused" /\ f \in Answered \ pause.decided

(* An answer is lost only if a task gave up after it was there, the broker *)
(* or a process failed, two tasks resumed one pause, or a task that was at *)
(* work during the global timeout paused the run again.                    *)
LostOnlyByEarlyAnswer ==
    \A f \in Forms : Lost(f) =>
        f \in early \/ raced \/ status[f] = "expired" \/ failures + crashes > 0

(* A run that the global timeout stopped is only continued by a task that  *)
(* was executing or resuming it at that moment.                            *)
RevivedOnlyByRunning ==
    [][run = "stopped" /\ run' # "stopped" => \E k \in atStop : pc'[k] # pc[k]]_vars

(* The run ends, or an answer was lost. *)
RunEnds ==
    <>(run \in Finals \/ early # {} \/ raced \/ failures + crashes > 0)

-----------------------------------------------------------------------------
(* HumanInputNode._run: "6. Wait for form submission to resume".  With     *)
(* neither failures nor crashes a form that was submitted resumes the run. *)
SubmittedFormResumes == \A f \in Forms : status[f] = "submitted" => ~Lost(f)
=============================================================================
