------------------------ MODULE PauseResume_proofs ------------------------
(***************************************************************************)
(* Pausing and resuming a run, for any number of forms, workers and users. *)
(* The type invariant is proved part by part.  The other theorems rest on  *)
(* the invariant Single: unless two tasks tested one pause at the same     *)
(* time, at most one task executes the run, and what it and the pause that *)
(* can be resumed know of the forms is what was decided.                   *)
(***************************************************************************)
EXTENDS PauseResume, TLAPS

RunOK ==
    /\ run \in {"running", "paused"} \union Finals /\ pauses \in Nat
    /\ pause \in [id : 0 .. pauses, resumed : BOOLEAN, object : BOOLEAN, decided : SUBSET Forms]

FormOK ==
    /\ status \in [Forms -> {"none", "waiting", "submitted", "timeout", "expired"}]
    /\ submitted \subseteq Created /\ late \subseteq Created

TaskOK ==
    /\ pauses \in Nat /\ pause.id \in 0 .. pauses
    /\ pc \in [Workers -> PC] /\ entity \in [Workers -> 0 .. pauses]

EngineOK ==
    /\ decided \in [Workers -> SUBSET Forms] /\ todo \in [Workers -> SUBSET Forms]
    /\ \A k \in Workers : pc[k] = "run" => todo[k] \intersect decided[k] = {}

UserOK ==
    /\ user \in [Users -> {"new", "active", "marked", "done"} \X (Forms \union {NoForm})]
    /\ \A u \in Users : user[u][1] = "active" => user[u][2] \in Created

ScanOK ==
    /\ scan \in {"idle", "marking", "marked"} \X (Forms \union {NoForm}) \X BOOLEAN
    /\ scan[1] # "idle" => scan[2] \in Created

CountOK ==
    /\ queued \in Nat /\ failures \in 0 .. MaxFailures /\ crashes \in 0 .. MaxCrashes

HistoryOK ==
    /\ decisions \in [Forms -> Nat] /\ early \subseteq Forms /\ atStop \subseteq Workers

FlagOK == chat \in BOOLEAN /\ overdue \in BOOLEAN /\ raced \in BOOLEAN

LEMMA TypeParts ==
    TypeOK <=> /\ RunOK /\ FormOK /\ TaskOK /\ EngineOK /\ UserOK
               /\ ScanOK /\ CountOK /\ HistoryOK /\ FlagOK
BY DEF TypeOK, RunOK, FormOK, TaskOK, EngineOK, UserOK, ScanOK, CountOK, HistoryOK, FlagOK

(* The run and its pause. *)
LEMMA RunStep == RunOK /\ TaskOK /\ EngineOK /\ [Next]_vars => RunOK'
<1> SUFFICES ASSUME RunOK, TaskOK, EngineOK, [Next]_vars PROVE RunOK'
  OBVIOUS
<1> QED
  <2>1. ASSUME NEW k \in Workers, NEW f \in Forms, RunNode(k, f) PROVE RunOK'
    BY <2>1 DEF RunNode, RunOK, runVars
  <2>2. ASSUME NEW k \in Workers, Succeed(k) PROVE RunOK'
    BY <2>2 DEF Succeed, RunOK, Goto, AfterRun, Finals
  <2>3. ASSUME NEW k \in Workers, SavePaused(k) PROVE RunOK'
    BY <2>3 DEF SavePaused, RunOK, Goto
  <2>4. ASSUME NEW k \in Workers, create_workflow_pause(k) PROVE RunOK'
    <3>1. pauses + 1 \in Nat /\ decided[k] \in SUBSET Forms
      BY DEF TaskOK, EngineOK
    <3>2. [id |-> pauses + 1, resumed |-> FALSE, object |-> TRUE, decided |-> decided[k]]
             \in [id : 0 .. pauses + 1, resumed : BOOLEAN, object : BOOLEAN, decided : SUBSET Forms]
      BY <3>1
    <3> QED
      BY <2>4, <3>1, <3>2 DEF create_workflow_pause, RunOK, runVars
  <2>5. ASSUME NEW k \in Workers, delete_workflow_pause(k) PROVE RunOK'
    <3>1. NoPause \in [id : 0 .. pauses, resumed : BOOLEAN, object : BOOLEAN,
        decided : SUBSET Forms]
      BY DEF NoPause, RunOK
    <3> QED
      BY <2>5, <3>1 DEF delete_workflow_pause, RunOK
  <2>6. ASSUME NEW k \in Workers, Fetch(k) PROVE RunOK'
    BY <2>6 DEF Fetch, RunOK, GiveUp, Goto, runVars
  <2>7. ASSUME NEW k \in Workers, Load(k) PROVE RunOK'
    BY <2>7 DEF Load, RunOK, GiveUp, Goto, runVars
  <2>8. ASSUME NEW k \in Workers, resume_workflow_pause(k) PROVE RunOK'
    BY <2>8 DEF resume_workflow_pause, RunOK, GiveUp, Goto, runVars
  <2>9. ASSUME NEW k \in Workers, WriteResumed(k) PROVE RunOK'
    BY <2>9 DEF WriteResumed, RunOK, GiveUp, Goto, runVars
  <2>10. ASSUME NEW k \in Workers, Start(k) PROVE RunOK'
    BY <2>10 DEF Start, RunOK, Goto
  <2>11. ASSUME NEW k \in Workers, Crash(k) PROVE RunOK'
    BY <2>11 DEF Crash, RunOK, Goto, runVars
  <2>12. ASSUME NEW u \in Users, mark_submitted(u) PROVE RunOK'
    BY <2>12 DEF mark_submitted, RunOK, runVars, workerVars
  <2>13. ASSUME NEW u \in Users, SubmitResumes(u) PROVE RunOK'
    BY <2>13 DEF SubmitResumes, RunOK, enqueue_resume, runVars
  <2>14. ASSUME NEW u \in Users, NEW f \in Forms, Submit(u, f) PROVE RunOK'
    BY <2>14 DEF Submit, RunOK, runVars, workerVars
  <2>15. ASSUME NEW f \in Forms, NEW is_global \in BOOLEAN, Scan(f, is_global) PROVE RunOK'
    BY <2>15 DEF Scan, RunOK, runVars, workerVars
  <2>16. CASE mark_timeout
    BY <2>16 DEF mark_timeout, RunOK, runVars, workerVars
  <2>17. CASE TimeoutResumes
    BY <2>17 DEF TimeoutResumes, RunOK, enqueue_resume, runVars
  <2>18. CASE _handle_global_timeout
    BY <2>18 DEF _handle_global_timeout, RunOK, workerVars, Finals
  <2>19. CASE ScannerCrashes
    BY <2>19 DEF ScannerCrashes, RunOK, runVars, workerVars
  <2>20. CASE GlobalDeadline
    BY <2>20 DEF GlobalDeadline, RunOK, runVars, workerVars
  <2>21. ASSUME NEW f \in Forms, Expire(f) PROVE RunOK'
    BY <2>21 DEF Expire, RunOK, runVars, workerVars
  <2>22. CASE UNCHANGED vars
    BY <2>22 DEF vars, RunOK, runVars, workerVars
  <2> QED
    BY <2>1, <2>2, <2>3, <2>4, <2>5, <2>6, <2>7, <2>8, <2>9, <2>10, <2>11, <2>12, <2>13, <2>14,
        <2>15, <2>16, <2>17, <2>18, <2>19, <2>20, <2>21, <2>22 DEF Next, Task, Submission,
        Scanner

(* The forms. *)
LEMMA FormStep == FormOK /\ UserOK /\ ScanOK /\ [Next]_vars => FormOK'
<1> SUFFICES ASSUME FormOK, UserOK, ScanOK, [Next]_vars PROVE FormOK'
  OBVIOUS
<1> QED
  <2>1. ASSUME NEW k \in Workers, NEW f \in Forms, RunNode(k, f) PROVE FormOK'
    BY <2>1 DEF RunNode, FormOK, Created, timeVars
  <2>2. ASSUME NEW k \in Workers, Succeed(k) PROVE FormOK'
    BY <2>2 DEF Succeed, FormOK, Created, Goto, formVars, timeVars
  <2>3. ASSUME NEW k \in Workers, SavePaused(k) PROVE FormOK'
    BY <2>3 DEF SavePaused, FormOK, Created, Goto, formVars, timeVars
  <2>4. ASSUME NEW k \in Workers, create_workflow_pause(k) PROVE FormOK'
    BY <2>4 DEF create_workflow_pause, FormOK, Created, Goto, formVars, timeVars
  <2>5. ASSUME NEW k \in Workers, delete_workflow_pause(k) PROVE FormOK'
    BY <2>5 DEF delete_workflow_pause, FormOK, Created, Goto, formVars, timeVars
  <2>6. ASSUME NEW k \in Workers, Fetch(k) PROVE FormOK'
    BY <2>6 DEF Fetch, FormOK, Created, GiveUp, Goto, formVars, timeVars
  <2>7. ASSUME NEW k \in Workers, Load(k) PROVE FormOK'
    BY <2>7 DEF Load, FormOK, Created, GiveUp, Goto, formVars, timeVars
  <2>8. ASSUME NEW k \in Workers, resume_workflow_pause(k) PROVE FormOK'
    BY <2>8 DEF resume_workflow_pause, FormOK, Created, GiveUp, Goto, formVars, timeVars
  <2>9. ASSUME NEW k \in Workers, WriteResumed(k) PROVE FormOK'
    BY <2>9 DEF WriteResumed, FormOK, Created, GiveUp, Goto, formVars, timeVars
  <2>10. ASSUME NEW k \in Workers, Start(k) PROVE FormOK'
    BY <2>10 DEF Start, FormOK, Created, Goto, formVars, timeVars
  <2>11. ASSUME NEW k \in Workers, Crash(k) PROVE FormOK'
    BY <2>11 DEF Crash, FormOK, Created, Goto, formVars, timeVars
  <2>12. ASSUME NEW u \in Users, mark_submitted(u) PROVE FormOK'
    BY <2>12 DEF mark_submitted, FormOK, Created, timeVars, UserOK
  <2>13. ASSUME NEW u \in Users, SubmitResumes(u) PROVE FormOK'
    BY <2>13 DEF SubmitResumes, FormOK, Created, enqueue_resume, formVars, timeVars
  <2>14. ASSUME NEW u \in Users, NEW f \in Forms, Submit(u, f) PROVE FormOK'
    BY <2>14 DEF Submit, FormOK, Created, formVars, timeVars
  <2>15. ASSUME NEW f \in Forms, NEW is_global \in BOOLEAN, Scan(f, is_global) PROVE FormOK'
    BY <2>15 DEF Scan, FormOK, Created, formVars, timeVars
  <2>16. CASE mark_timeout
    BY <2>16 DEF mark_timeout, FormOK, Created, timeVars, ScanOK
  <2>17. CASE TimeoutResumes
    BY <2>17 DEF TimeoutResumes, FormOK, Created, enqueue_resume, formVars, timeVars
  <2>18. CASE _handle_global_timeout
    BY <2>18 DEF _handle_global_timeout, FormOK, Created, formVars, timeVars
  <2>19. CASE ScannerCrashes
    BY <2>19 DEF ScannerCrashes, FormOK, Created, formVars, timeVars
  <2>20. CASE GlobalDeadline
    BY <2>20 DEF GlobalDeadline, FormOK, Created, formVars
  <2>21. ASSUME NEW f \in Forms, Expire(f) PROVE FormOK'
    BY <2>21 DEF Expire, FormOK, Created, formVars
  <2>22. CASE UNCHANGED vars
    BY <2>22 DEF vars, FormOK, Created, formVars, timeVars
  <2> QED
    BY <2>1, <2>2, <2>3, <2>4, <2>5, <2>6, <2>7, <2>8, <2>9, <2>10, <2>11, <2>12, <2>13, <2>14,
        <2>15, <2>16, <2>17, <2>18, <2>19, <2>20, <2>21, <2>22 DEF Next, Task, Submission,
        Scanner

(* The tasks and the pauses they hold. *)
LEMMA TaskStep == RunOK /\ TaskOK /\ [Next]_vars => TaskOK'
<1> SUFFICES ASSUME RunOK, TaskOK, [Next]_vars PROVE TaskOK'
  OBVIOUS
<1> QED
  <2>1. ASSUME NEW k \in Workers, NEW f \in Forms, RunNode(k, f) PROVE TaskOK'
    BY <2>1 DEF RunNode, RunOK, TaskOK, PC, runVars
  <2>2. ASSUME NEW k \in Workers, Succeed(k) PROVE TaskOK'
    BY <2>2 DEF Succeed, RunOK, TaskOK, PC, Goto, AfterRun
  <2>3. ASSUME NEW k \in Workers, SavePaused(k) PROVE TaskOK'
    BY <2>3 DEF SavePaused, RunOK, TaskOK, PC, Goto
  <2>4. ASSUME NEW k \in Workers, create_workflow_pause(k) PROVE TaskOK'
    BY <2>4 DEF create_workflow_pause, RunOK, TaskOK, PC, Goto, AfterRun, runVars
  <2>5. ASSUME NEW k \in Workers, delete_workflow_pause(k) PROVE TaskOK'
    BY <2>5 DEF delete_workflow_pause, RunOK, TaskOK, PC, Goto, NoPause
  <2>6. ASSUME NEW k \in Workers, Fetch(k) PROVE TaskOK'
    BY <2>6 DEF Fetch, RunOK, TaskOK, PC, GiveUp, Goto, NoPause, runVars
  <2>7. ASSUME NEW k \in Workers, Load(k) PROVE TaskOK'
    BY <2>7 DEF Load, RunOK, TaskOK, PC, GiveUp, Goto, runVars
  <2>8. ASSUME NEW k \in Workers, resume_workflow_pause(k) PROVE TaskOK'
    BY <2>8 DEF resume_workflow_pause, RunOK, TaskOK, PC, GiveUp, Goto, runVars
  <2>9. ASSUME NEW k \in Workers, WriteResumed(k) PROVE TaskOK'
    BY <2>9 DEF WriteResumed, RunOK, TaskOK, PC, GiveUp, Goto, runVars
  <2>10. ASSUME NEW k \in Workers, Start(k) PROVE TaskOK'
    BY <2>10 DEF Start, RunOK, TaskOK, PC, Goto
  <2>11. ASSUME NEW k \in Workers, Crash(k) PROVE TaskOK'
    BY <2>11 DEF Crash, RunOK, TaskOK, PC, Goto, runVars
  <2>12. ASSUME NEW u \in Users, mark_submitted(u) PROVE TaskOK'
    BY <2>12 DEF mark_submitted, RunOK, TaskOK, PC, runVars, workerVars
  <2>13. ASSUME NEW u \in Users, SubmitResumes(u) PROVE TaskOK'
    BY <2>13 DEF SubmitResumes, RunOK, TaskOK, PC, enqueue_resume, runVars
  <2>14. ASSUME NEW u \in Users, NEW f \in Forms, Submit(u, f) PROVE TaskOK'
    BY <2>14 DEF Submit, RunOK, TaskOK, PC, runVars, workerVars
  <2>15. ASSUME NEW f \in Forms, NEW is_global \in BOOLEAN, Scan(f, is_global) PROVE TaskOK'
    BY <2>15 DEF Scan, RunOK, TaskOK, PC, runVars, workerVars
  <2>16. CASE mark_timeout
    BY <2>16 DEF mark_timeout, RunOK, TaskOK, PC, runVars, workerVars
  <2>17. CASE TimeoutResumes
    BY <2>17 DEF TimeoutResumes, RunOK, TaskOK, PC, enqueue_resume, runVars
  <2>18. CASE _handle_global_timeout
    BY <2>18 DEF _handle_global_timeout, RunOK, TaskOK, PC, NoPause, workerVars
  <2>19. CASE ScannerCrashes
    BY <2>19 DEF ScannerCrashes, RunOK, TaskOK, PC, runVars, workerVars
  <2>20. CASE GlobalDeadline
    BY <2>20 DEF GlobalDeadline, RunOK, TaskOK, PC, runVars, workerVars
  <2>21. ASSUME NEW f \in Forms, Expire(f) PROVE TaskOK'
    BY <2>21 DEF Expire, RunOK, TaskOK, PC, runVars, workerVars
  <2>22. CASE UNCHANGED vars
    BY <2>22 DEF vars, RunOK, TaskOK, PC, runVars, workerVars
  <2> QED
    BY <2>1, <2>2, <2>3, <2>4, <2>5, <2>6, <2>7, <2>8, <2>9, <2>10, <2>11, <2>12, <2>13, <2>14,
        <2>15, <2>16, <2>17, <2>18, <2>19, <2>20, <2>21, <2>22 DEF Next, Task, Submission,
        Scanner

(* The engines. *)
LEMMA EngineStep == RunOK /\ TaskOK /\ EngineOK /\ [Next]_vars => EngineOK'
<1> SUFFICES ASSUME RunOK, TaskOK, EngineOK, [Next]_vars PROVE EngineOK'
  OBVIOUS
<1> QED
  <2>1. ASSUME NEW k \in Workers, NEW f \in Forms, RunNode(k, f) PROVE EngineOK'
    BY <2>1 DEF RunNode, EngineOK, TaskOK, runVars
  <2>2. ASSUME NEW k \in Workers, Succeed(k) PROVE EngineOK'
    BY <2>2 DEF Succeed, EngineOK, TaskOK, Goto, AfterRun
  <2>3. ASSUME NEW k \in Workers, SavePaused(k) PROVE EngineOK'
    BY <2>3 DEF SavePaused, EngineOK, TaskOK, Goto
  <2>4. ASSUME NEW k \in Workers, create_workflow_pause(k) PROVE EngineOK'
    BY <2>4 DEF create_workflow_pause, EngineOK, TaskOK, Goto, AfterRun, runVars
  <2>5. ASSUME NEW k \in Workers, delete_workflow_pause(k) PROVE EngineOK'
    BY <2>5 DEF delete_workflow_pause, EngineOK, TaskOK, Goto
  <2>6. ASSUME NEW k \in Workers, Fetch(k) PROVE EngineOK'
    BY <2>6 DEF Fetch, EngineOK, TaskOK, GiveUp, Goto, runVars
  <2>7. ASSUME NEW k \in Workers, Load(k) PROVE EngineOK'
    BY <2>7 DEF Load, EngineOK, TaskOK, GiveUp, Goto, runVars, RunOK
  <2>8. ASSUME NEW k \in Workers, resume_workflow_pause(k) PROVE EngineOK'
    BY <2>8 DEF resume_workflow_pause, EngineOK, TaskOK, GiveUp, Goto, runVars
  <2>9. ASSUME NEW k \in Workers, WriteResumed(k) PROVE EngineOK'
    BY <2>9 DEF WriteResumed, EngineOK, TaskOK, GiveUp, Goto, runVars
  <2>10. ASSUME NEW k \in Workers, Start(k) PROVE EngineOK'
    BY <2>10 DEF Start, EngineOK, TaskOK, Goto
  <2>11. ASSUME NEW k \in Workers, Crash(k) PROVE EngineOK'
    BY <2>11 DEF Crash, EngineOK, TaskOK, Goto, runVars
  <2>12. ASSUME NEW u \in Users, mark_submitted(u) PROVE EngineOK'
    BY <2>12 DEF mark_submitted, EngineOK, TaskOK, runVars, workerVars
  <2>13. ASSUME NEW u \in Users, SubmitResumes(u) PROVE EngineOK'
    BY <2>13 DEF SubmitResumes, EngineOK, TaskOK, enqueue_resume, runVars
  <2>14. ASSUME NEW u \in Users, NEW f \in Forms, Submit(u, f) PROVE EngineOK'
    BY <2>14 DEF Submit, EngineOK, TaskOK, runVars, workerVars
  <2>15. ASSUME NEW f \in Forms, NEW is_global \in BOOLEAN, Scan(f, is_global) PROVE EngineOK'
    BY <2>15 DEF Scan, EngineOK, TaskOK, runVars, workerVars
  <2>16. CASE mark_timeout
    BY <2>16 DEF mark_timeout, EngineOK, TaskOK, runVars, workerVars
  <2>17. CASE TimeoutResumes
    BY <2>17 DEF TimeoutResumes, EngineOK, TaskOK, enqueue_resume, runVars
  <2>18. CASE _handle_global_timeout
    BY <2>18 DEF _handle_global_timeout, EngineOK, TaskOK, workerVars
  <2>19. CASE ScannerCrashes
    BY <2>19 DEF ScannerCrashes, EngineOK, TaskOK, runVars, workerVars
  <2>20. CASE GlobalDeadline
    BY <2>20 DEF GlobalDeadline, EngineOK, TaskOK, runVars, workerVars
  <2>21. ASSUME NEW f \in Forms, Expire(f) PROVE EngineOK'
    BY <2>21 DEF Expire, EngineOK, TaskOK, runVars, workerVars
  <2>22. CASE UNCHANGED vars
    BY <2>22 DEF vars, EngineOK, TaskOK, runVars, workerVars
  <2> QED
    BY <2>1, <2>2, <2>3, <2>4, <2>5, <2>6, <2>7, <2>8, <2>9, <2>10, <2>11, <2>12, <2>13, <2>14,
        <2>15, <2>16, <2>17, <2>18, <2>19, <2>20, <2>21, <2>22 DEF Next, Task, Submission,
        Scanner

(* The users. *)
LEMMA UserStep == FormOK /\ UserOK /\ ScanOK /\ [Next]_vars => UserOK'
<1> SUFFICES ASSUME FormOK, UserOK, ScanOK, [Next]_vars PROVE UserOK'
  OBVIOUS
<1> QED
  <2>1. ASSUME NEW k \in Workers, NEW f \in Forms, RunNode(k, f) PROVE UserOK'
    BY <2>1 DEF RunNode, UserOK, FormOK, Created, timeVars
  <2>2. ASSUME NEW k \in Workers, Succeed(k) PROVE UserOK'
    BY <2>2 DEF Succeed, UserOK, FormOK, Created, Goto, formVars, timeVars
  <2>3. ASSUME NEW k \in Workers, SavePaused(k) PROVE UserOK'
    BY <2>3 DEF SavePaused, UserOK, FormOK, Created, Goto, formVars, timeVars
  <2>4. ASSUME NEW k \in Workers, create_workflow_pause(k) PROVE UserOK'
    BY <2>4 DEF create_workflow_pause, UserOK, FormOK, Created, Goto, formVars, timeVars
  <2>5. ASSUME NEW k \in Workers, delete_workflow_pause(k) PROVE UserOK'
    BY <2>5 DEF delete_workflow_pause, UserOK, FormOK, Created, Goto, formVars, timeVars
  <2>6. ASSUME NEW k \in Workers, Fetch(k) PROVE UserOK'
    BY <2>6 DEF Fetch, UserOK, FormOK, Created, GiveUp, Goto, formVars, timeVars
  <2>7. ASSUME NEW k \in Workers, Load(k) PROVE UserOK'
    BY <2>7 DEF Load, UserOK, FormOK, Created, GiveUp, Goto, formVars, timeVars
  <2>8. ASSUME NEW k \in Workers, resume_workflow_pause(k) PROVE UserOK'
    BY <2>8 DEF resume_workflow_pause, UserOK, FormOK, Created, GiveUp, Goto, formVars, timeVars
  <2>9. ASSUME NEW k \in Workers, WriteResumed(k) PROVE UserOK'
    BY <2>9 DEF WriteResumed, UserOK, FormOK, Created, GiveUp, Goto, formVars, timeVars
  <2>10. ASSUME NEW k \in Workers, Start(k) PROVE UserOK'
    BY <2>10 DEF Start, UserOK, FormOK, Created, Goto, formVars, timeVars
  <2>11. ASSUME NEW k \in Workers, Crash(k) PROVE UserOK'
    BY <2>11 DEF Crash, UserOK, FormOK, Created, Goto, formVars, timeVars
  <2>12. ASSUME NEW u \in Users, mark_submitted(u) PROVE UserOK'
    BY <2>12 DEF mark_submitted, UserOK, FormOK, Created, timeVars
  <2>13. ASSUME NEW u \in Users, SubmitResumes(u) PROVE UserOK'
    BY <2>13 DEF SubmitResumes, UserOK, FormOK, Created, enqueue_resume, formVars, timeVars
  <2>14. ASSUME NEW u \in Users, NEW f \in Forms, Submit(u, f) PROVE UserOK'
    BY <2>14 DEF Submit, UserOK, FormOK, Created, formVars, timeVars
  <2>15. ASSUME NEW f \in Forms, NEW is_global \in BOOLEAN, Scan(f, is_global) PROVE UserOK'
    BY <2>15 DEF Scan, UserOK, FormOK, Created, formVars, timeVars
  <2>16. CASE mark_timeout
    BY <2>16 DEF mark_timeout, UserOK, FormOK, Created, timeVars, ScanOK
  <2>17. CASE TimeoutResumes
    BY <2>17 DEF TimeoutResumes, UserOK, FormOK, Created, enqueue_resume, formVars, timeVars
  <2>18. CASE _handle_global_timeout
    BY <2>18 DEF _handle_global_timeout, UserOK, FormOK, Created, formVars, timeVars
  <2>19. CASE ScannerCrashes
    BY <2>19 DEF ScannerCrashes, UserOK, FormOK, Created, formVars, timeVars
  <2>20. CASE GlobalDeadline
    BY <2>20 DEF GlobalDeadline, UserOK, FormOK, Created, formVars
  <2>21. ASSUME NEW f \in Forms, Expire(f) PROVE UserOK'
    BY <2>21 DEF Expire, UserOK, FormOK, Created, formVars
  <2>22. CASE UNCHANGED vars
    BY <2>22 DEF vars, UserOK, FormOK, Created, formVars, timeVars
  <2> QED
    BY <2>1, <2>2, <2>3, <2>4, <2>5, <2>6, <2>7, <2>8, <2>9, <2>10, <2>11, <2>12, <2>13, <2>14,
        <2>15, <2>16, <2>17, <2>18, <2>19, <2>20, <2>21, <2>22 DEF Next, Task, Submission,
        Scanner

(* The scanner. *)
LEMMA ScanStep == FormOK /\ UserOK /\ ScanOK /\ [Next]_vars => ScanOK'
<1> SUFFICES ASSUME FormOK, UserOK, ScanOK, [Next]_vars PROVE ScanOK'
  OBVIOUS
<1> QED
  <2>1. ASSUME NEW k \in Workers, NEW f \in Forms, RunNode(k, f) PROVE ScanOK'
    BY <2>1 DEF RunNode, ScanOK, FormOK, Created, timeVars
  <2>2. ASSUME NEW k \in Workers, Succeed(k) PROVE ScanOK'
    BY <2>2 DEF Succeed, ScanOK, FormOK, Created, Goto, formVars, timeVars
  <2>3. ASSUME NEW k \in Workers, SavePaused(k) PROVE ScanOK'
    BY <2>3 DEF SavePaused, ScanOK, FormOK, Created, Goto, formVars, timeVars
  <2>4. ASSUME NEW k \in Workers, create_workflow_pause(k) PROVE ScanOK'
    BY <2>4 DEF create_workflow_pause, ScanOK, FormOK, Created, Goto, formVars, timeVars
  <2>5. ASSUME NEW k \in Workers, delete_workflow_pause(k) PROVE ScanOK'
    BY <2>5 DEF delete_workflow_pause, ScanOK, FormOK, Created, Goto, formVars, timeVars
  <2>6. ASSUME NEW k \in Workers, Fetch(k) PROVE ScanOK'
    BY <2>6 DEF Fetch, ScanOK, FormOK, Created, GiveUp, Goto, formVars, timeVars
  <2>7. ASSUME NEW k \in Workers, Load(k) PROVE ScanOK'
    BY <2>7 DEF Load, ScanOK, FormOK, Created, GiveUp, Goto, formVars, timeVars
  <2>8. ASSUME NEW k \in Workers, resume_workflow_pause(k) PROVE ScanOK'
    BY <2>8 DEF resume_workflow_pause, ScanOK, FormOK, Created, GiveUp, Goto, formVars, timeVars
  <2>9. ASSUME NEW k \in Workers, WriteResumed(k) PROVE ScanOK'
    BY <2>9 DEF WriteResumed, ScanOK, FormOK, Created, GiveUp, Goto, formVars, timeVars
  <2>10. ASSUME NEW k \in Workers, Start(k) PROVE ScanOK'
    BY <2>10 DEF Start, ScanOK, FormOK, Created, Goto, formVars, timeVars
  <2>11. ASSUME NEW k \in Workers, Crash(k) PROVE ScanOK'
    BY <2>11 DEF Crash, ScanOK, FormOK, Created, Goto, formVars, timeVars
  <2>12. ASSUME NEW u \in Users, mark_submitted(u) PROVE ScanOK'
    BY <2>12 DEF mark_submitted, ScanOK, FormOK, Created, timeVars, UserOK
  <2>13. ASSUME NEW u \in Users, SubmitResumes(u) PROVE ScanOK'
    BY <2>13 DEF SubmitResumes, ScanOK, FormOK, Created, enqueue_resume, formVars, timeVars
  <2>14. ASSUME NEW u \in Users, NEW f \in Forms, Submit(u, f) PROVE ScanOK'
    BY <2>14 DEF Submit, ScanOK, FormOK, Created, formVars, timeVars
  <2>15. ASSUME NEW f \in Forms, NEW is_global \in BOOLEAN, Scan(f, is_global) PROVE ScanOK'
    BY <2>15 DEF Scan, ScanOK, FormOK, Created, Idle, formVars, timeVars
  <2>16. CASE mark_timeout
    BY <2>16 DEF mark_timeout, ScanOK, FormOK, Created, timeVars
  <2>17. CASE TimeoutResumes
    BY <2>17 DEF TimeoutResumes, ScanOK, FormOK, Created, enqueue_resume, Idle, formVars, timeVars
  <2>18. CASE _handle_global_timeout
    BY <2>18 DEF _handle_global_timeout, ScanOK, FormOK, Created, Idle, formVars, timeVars
  <2>19. CASE ScannerCrashes
    BY <2>19 DEF ScannerCrashes, ScanOK, FormOK, Created, Idle, formVars, timeVars
  <2>20. CASE GlobalDeadline
    BY <2>20 DEF GlobalDeadline, ScanOK, FormOK, Created, formVars
  <2>21. ASSUME NEW f \in Forms, Expire(f) PROVE ScanOK'
    BY <2>21 DEF Expire, ScanOK, FormOK, Created, formVars
  <2>22. CASE UNCHANGED vars
    BY <2>22 DEF vars, ScanOK, FormOK, Created, formVars, timeVars
  <2> QED
    BY <2>1, <2>2, <2>3, <2>4, <2>5, <2>6, <2>7, <2>8, <2>9, <2>10, <2>11, <2>12, <2>13, <2>14,
        <2>15, <2>16, <2>17, <2>18, <2>19, <2>20, <2>21, <2>22 DEF Next, Task, Submission,
        Scanner

(* The counters. *)
LEMMA CountStep == CountOK /\ [Next]_vars => CountOK'
<1> SUFFICES ASSUME CountOK, [Next]_vars PROVE CountOK'
  OBVIOUS
<1> QED
  <2>1. ASSUME NEW k \in Workers, NEW f \in Forms, RunNode(k, f) PROVE CountOK'
    BY <2>1 DEF RunNode, CountOK, faults
  <2>2. ASSUME NEW k \in Workers, Succeed(k) PROVE CountOK'
    BY <2>2 DEF Succeed, CountOK, Goto, faults
  <2>3. ASSUME NEW k \in Workers, SavePaused(k) PROVE CountOK'
    BY <2>3 DEF SavePaused, CountOK, Goto, faults
  <2>4. ASSUME NEW k \in Workers, create_workflow_pause(k) PROVE CountOK'
    BY <2>4 DEF create_workflow_pause, CountOK, Goto, faults
  <2>5. ASSUME NEW k \in Workers, delete_workflow_pause(k) PROVE CountOK'
    BY <2>5 DEF delete_workflow_pause, CountOK, Goto, faults
  <2>6. ASSUME NEW k \in Workers, Fetch(k) PROVE CountOK'
    BY <2>6 DEF Fetch, CountOK, GiveUp, Goto, faults
  <2>7. ASSUME NEW k \in Workers, Load(k) PROVE CountOK'
    BY <2>7 DEF Load, CountOK, GiveUp, Goto, faults
  <2>8. ASSUME NEW k \in Workers, resume_workflow_pause(k) PROVE CountOK'
    BY <2>8 DEF resume_workflow_pause, CountOK, GiveUp, Goto, faults
  <2>9. ASSUME NEW k \in Workers, WriteResumed(k) PROVE CountOK'
    BY <2>9 DEF WriteResumed, CountOK, GiveUp, Goto, faults
  <2>10. ASSUME NEW k \in Workers, Start(k) PROVE CountOK'
    BY <2>10 DEF Start, CountOK, Goto, faults
  <2>11. ASSUME NEW k \in Workers, Crash(k) PROVE CountOK'
    BY <2>11, PauseResumeConstants DEF Crash, CountOK, Goto
  <2>12. ASSUME NEW u \in Users, mark_submitted(u) PROVE CountOK'
    BY <2>12 DEF mark_submitted, CountOK, faults, workerVars
  <2>13. ASSUME NEW u \in Users, SubmitResumes(u) PROVE CountOK'
    BY <2>13, PauseResumeConstants DEF SubmitResumes, CountOK, enqueue_resume
  <2>14. ASSUME NEW u \in Users, NEW f \in Forms, Submit(u, f) PROVE CountOK'
    BY <2>14 DEF Submit, CountOK, faults, workerVars
  <2>15. ASSUME NEW f \in Forms, NEW is_global \in BOOLEAN, Scan(f, is_global) PROVE CountOK'
    BY <2>15 DEF Scan, CountOK, faults, workerVars
  <2>16. CASE mark_timeout
    BY <2>16 DEF mark_timeout, CountOK, faults, workerVars
  <2>17. CASE TimeoutResumes
    BY <2>17, PauseResumeConstants DEF TimeoutResumes, CountOK, enqueue_resume
  <2>18. CASE _handle_global_timeout
    BY <2>18 DEF _handle_global_timeout, CountOK, faults, workerVars
  <2>19. CASE ScannerCrashes
    BY <2>19, PauseResumeConstants DEF ScannerCrashes, CountOK, workerVars
  <2>20. CASE GlobalDeadline
    BY <2>20 DEF GlobalDeadline, CountOK, faults, workerVars
  <2>21. ASSUME NEW f \in Forms, Expire(f) PROVE CountOK'
    BY <2>21 DEF Expire, CountOK, faults, workerVars
  <2>22. CASE UNCHANGED vars
    BY <2>22 DEF vars, CountOK, faults, workerVars
  <2> QED
    BY <2>1, <2>2, <2>3, <2>4, <2>5, <2>6, <2>7, <2>8, <2>9, <2>10, <2>11, <2>12, <2>13, <2>14,
        <2>15, <2>16, <2>17, <2>18, <2>19, <2>20, <2>21, <2>22 DEF Next, Task, Submission,
        Scanner

(* The history variables. *)
LEMMA HistoryStep == HistoryOK /\ [Next]_vars => HistoryOK'
<1> SUFFICES ASSUME HistoryOK, [Next]_vars PROVE HistoryOK'
  OBVIOUS
<1> QED
  <2>1. ASSUME NEW k \in Workers, NEW f \in Forms, RunNode(k, f) PROVE HistoryOK'
    BY <2>1 DEF RunNode, HistoryOK
  <2>2. ASSUME NEW k \in Workers, Succeed(k) PROVE HistoryOK'
    BY <2>2 DEF Succeed, HistoryOK, Goto, history
  <2>3. ASSUME NEW k \in Workers, SavePaused(k) PROVE HistoryOK'
    BY <2>3 DEF SavePaused, HistoryOK, Goto, history
  <2>4. ASSUME NEW k \in Workers, create_workflow_pause(k) PROVE HistoryOK'
    BY <2>4 DEF create_workflow_pause, HistoryOK, Goto, history
  <2>5. ASSUME NEW k \in Workers, delete_workflow_pause(k) PROVE HistoryOK'
    BY <2>5 DEF delete_workflow_pause, HistoryOK, Goto, history
  <2>6. ASSUME NEW k \in Workers, Fetch(k) PROVE HistoryOK'
    BY <2>6 DEF Fetch, HistoryOK, GiveUp, Goto, formVars, Answered
  <2>7. ASSUME NEW k \in Workers, Load(k) PROVE HistoryOK'
    BY <2>7 DEF Load, HistoryOK, GiveUp, Goto, formVars, Answered
  <2>8. ASSUME NEW k \in Workers, resume_workflow_pause(k) PROVE HistoryOK'
    BY <2>8 DEF resume_workflow_pause, HistoryOK, GiveUp, Goto, formVars, Answered
  <2>9. ASSUME NEW k \in Workers, WriteResumed(k) PROVE HistoryOK'
    BY <2>9 DEF WriteResumed, HistoryOK, GiveUp, Goto, formVars, Answered
  <2>10. ASSUME NEW k \in Workers, Start(k) PROVE HistoryOK'
    BY <2>10 DEF Start, HistoryOK, Goto, history
  <2>11. ASSUME NEW k \in Workers, Crash(k) PROVE HistoryOK'
    BY <2>11 DEF Crash, HistoryOK, Goto, history
  <2>12. ASSUME NEW u \in Users, mark_submitted(u) PROVE HistoryOK'
    BY <2>12 DEF mark_submitted, HistoryOK, history
  <2>13. ASSUME NEW u \in Users, SubmitResumes(u) PROVE HistoryOK'
    BY <2>13 DEF SubmitResumes, HistoryOK, enqueue_resume, history
  <2>14. ASSUME NEW u \in Users, NEW f \in Forms, Submit(u, f) PROVE HistoryOK'
    BY <2>14 DEF Submit, HistoryOK, history
  <2>15. ASSUME NEW f \in Forms, NEW is_global \in BOOLEAN, Scan(f, is_global) PROVE HistoryOK'
    BY <2>15 DEF Scan, HistoryOK, history
  <2>16. CASE mark_timeout
    BY <2>16 DEF mark_timeout, HistoryOK, history
  <2>17. CASE TimeoutResumes
    BY <2>17 DEF TimeoutResumes, HistoryOK, enqueue_resume, history
  <2>18. CASE _handle_global_timeout
    BY <2>18 DEF _handle_global_timeout, HistoryOK
  <2>19. CASE ScannerCrashes
    BY <2>19 DEF ScannerCrashes, HistoryOK, history
  <2>20. CASE GlobalDeadline
    BY <2>20 DEF GlobalDeadline, HistoryOK, history
  <2>21. ASSUME NEW f \in Forms, Expire(f) PROVE HistoryOK'
    BY <2>21 DEF Expire, HistoryOK, history
  <2>22. CASE UNCHANGED vars
    BY <2>22 DEF vars, HistoryOK, history
  <2> QED
    BY <2>1, <2>2, <2>3, <2>4, <2>5, <2>6, <2>7, <2>8, <2>9, <2>10, <2>11, <2>12, <2>13, <2>14,
        <2>15, <2>16, <2>17, <2>18, <2>19, <2>20, <2>21, <2>22 DEF Next, Task, Submission,
        Scanner

(* The flags. *)
LEMMA FlagStep == FlagOK /\ [Next]_vars => FlagOK'
<1> SUFFICES ASSUME FlagOK, [Next]_vars PROVE FlagOK'
  OBVIOUS
<1> QED
  <2>1. ASSUME NEW k \in Workers, NEW f \in Forms, RunNode(k, f) PROVE FlagOK'
    BY <2>1 DEF RunNode, FlagOK, timeVars
  <2>2. ASSUME NEW k \in Workers, Succeed(k) PROVE FlagOK'
    BY <2>2 DEF Succeed, FlagOK, Goto, timeVars, history
  <2>3. ASSUME NEW k \in Workers, SavePaused(k) PROVE FlagOK'
    BY <2>3 DEF SavePaused, FlagOK, Goto, timeVars, history
  <2>4. ASSUME NEW k \in Workers, create_workflow_pause(k) PROVE FlagOK'
    BY <2>4 DEF create_workflow_pause, FlagOK, Goto, timeVars, history
  <2>5. ASSUME NEW k \in Workers, delete_workflow_pause(k) PROVE FlagOK'
    BY <2>5 DEF delete_workflow_pause, FlagOK, Goto, timeVars, history
  <2>6. ASSUME NEW k \in Workers, Fetch(k) PROVE FlagOK'
    BY <2>6 DEF Fetch, FlagOK, GiveUp, Goto, timeVars
  <2>7. ASSUME NEW k \in Workers, Load(k) PROVE FlagOK'
    BY <2>7 DEF Load, FlagOK, GiveUp, Goto, timeVars
  <2>8. ASSUME NEW k \in Workers, resume_workflow_pause(k) PROVE FlagOK'
    BY <2>8 DEF resume_workflow_pause, FlagOK, GiveUp, Goto, timeVars
  <2>9. ASSUME NEW k \in Workers, WriteResumed(k) PROVE FlagOK'
    BY <2>9 DEF WriteResumed, FlagOK, GiveUp, Goto, timeVars
  <2>10. ASSUME NEW k \in Workers, Start(k) PROVE FlagOK'
    BY <2>10 DEF Start, FlagOK, Goto, timeVars, history
  <2>11. ASSUME NEW k \in Workers, Crash(k) PROVE FlagOK'
    BY <2>11 DEF Crash, FlagOK, Goto, timeVars, history
  <2>12. ASSUME NEW u \in Users, mark_submitted(u) PROVE FlagOK'
    BY <2>12 DEF mark_submitted, FlagOK, timeVars, history
  <2>13. ASSUME NEW u \in Users, SubmitResumes(u) PROVE FlagOK'
    BY <2>13 DEF SubmitResumes, FlagOK, enqueue_resume, timeVars, history
  <2>14. ASSUME NEW u \in Users, NEW f \in Forms, Submit(u, f) PROVE FlagOK'
    BY <2>14 DEF Submit, FlagOK, timeVars, history
  <2>15. ASSUME NEW f \in Forms, NEW is_global \in BOOLEAN, Scan(f, is_global) PROVE FlagOK'
    BY <2>15 DEF Scan, FlagOK, timeVars, history
  <2>16. CASE mark_timeout
    BY <2>16 DEF mark_timeout, FlagOK, timeVars, history
  <2>17. CASE TimeoutResumes
    BY <2>17 DEF TimeoutResumes, FlagOK, enqueue_resume, timeVars, history
  <2>18. CASE _handle_global_timeout
    BY <2>18 DEF _handle_global_timeout, FlagOK, timeVars
  <2>19. CASE ScannerCrashes
    BY <2>19 DEF ScannerCrashes, FlagOK, timeVars, history
  <2>20. CASE GlobalDeadline
    BY <2>20 DEF GlobalDeadline, FlagOK, history
  <2>21. ASSUME NEW f \in Forms, Expire(f) PROVE FlagOK'
    BY <2>21 DEF Expire, FlagOK, history
  <2>22. CASE UNCHANGED vars
    BY <2>22 DEF vars, FlagOK, timeVars, history
  <2> QED
    BY <2>1, <2>2, <2>3, <2>4, <2>5, <2>6, <2>7, <2>8, <2>9, <2>10, <2>11, <2>12, <2>13, <2>14,
        <2>15, <2>16, <2>17, <2>18, <2>19, <2>20, <2>21, <2>22 DEF Next, Task, Submission,
        Scanner

(* Type correctness of a run with human input. *)
THEOREM TypeCorrect == Spec => []TypeOK
<1>1. Init => TypeOK
  <2> SUFFICES ASSUME Init PROVE TypeOK
    OBVIOUS
  <2>1. RunOK /\ FormOK
    BY DEF Init, RunOK, FormOK, NoPause, Created
  <2>2. TaskOK /\ EngineOK
    BY DEF Init, TaskOK, EngineOK, NoPause, PC
  <2>3. UserOK /\ ScanOK
    BY DEF Init, UserOK, ScanOK, Idle
  <2>4. CountOK /\ HistoryOK
    BY PauseResumeConstants DEF Init, CountOK, HistoryOK
  <2>5. FlagOK
    BY DEF Init, FlagOK
  <2> QED
    BY <2>1, <2>2, <2>3, <2>4, <2>5, TypeParts
<1>2. TypeOK /\ [Next]_vars => TypeOK'
  <2> SUFFICES ASSUME TypeOK, [Next]_vars PROVE TypeOK'
    OBVIOUS
  <2>1. RunOK' /\ FormOK' /\ TaskOK' /\ EngineOK' /\ UserOK' /\ ScanOK' /\ CountOK' /\ HistoryOK' /\ FlagOK'
    BY TypeParts, RunStep, FormStep, TaskStep, EngineStep, UserStep, ScanStep, CountStep,
        HistoryStep, FlagStep
  <2> QED
    BY <2>1, TypeParts DEF TypeOK, RunOK, FormOK, TaskOK, EngineOK, UserOK, ScanOK, CountOK,
        HistoryOK, FlagOK
<1> QED
  BY <1>1, <1>2, PTL DEF Spec

(* Where a task executes the run, and where it is at work on it at all. *)
Executing == {"starting", "run", "pausing"}
AtWork == Executing \union {"resuming"}

(* At most one task is at work on the run. *)
Alone ==
    ~raced => \A a, b \in Workers : pc[a] \in AtWork /\ pc[b] \in AtWork => a = b

(* While the run executes there is no pause to resume. *)
Spent == ~raced => \A a \in Workers : pc[a] \in Executing => pause.resumed

(* A task that holds the current pause has loaded what the pause knows. *)
Holds ==
    /\ pause.id = 0 => pause = NoPause
    /\ \A a \in Workers : pc[a] \in {"fetched", "loaded", "resuming"} => entity[a] # 0
    /\ \A a \in Workers :
          pc[a] \in {"loaded", "resuming"} /\ entity[a] = pause.id => decided[a] = pause.decided

(* What was decided is known to the task at work and to the pause that can *)
(* be resumed. *)
Knows(f) ==
    /\ \A a \in Workers : pc[a] \in AtWork => f \in decided[a]
    /\ ~pause.resumed => f \in pause.decided

Known == ~raced => \A f \in Forms : decisions[f] # 0 => Knows(f)

Single == Alone /\ Spent /\ Holds /\ Known /\ DecidedOnceUnlessRaced


(* A race is remembered. *)
LEMMA RacedStays == raced /\ [Next]_vars => raced'
<1> SUFFICES ASSUME raced, [Next]_vars PROVE raced'
  BY DEF history
<1> QED
  <2>1. ASSUME NEW k \in Workers, NEW f \in Forms, RunNode(k, f) PROVE raced'
    BY <2>1 DEF RunNode, history
  <2>2. ASSUME NEW k \in Workers, Succeed(k) PROVE raced'
    BY <2>2 DEF Succeed, history, history
  <2>3. ASSUME NEW k \in Workers, SavePaused(k) PROVE raced'
    BY <2>3 DEF SavePaused, history, history
  <2>4. ASSUME NEW k \in Workers, create_workflow_pause(k) PROVE raced'
    BY <2>4 DEF create_workflow_pause, history, history
  <2>5. ASSUME NEW k \in Workers, delete_workflow_pause(k) PROVE raced'
    BY <2>5 DEF delete_workflow_pause, history, history
  <2>6. ASSUME NEW k \in Workers, Fetch(k) PROVE raced'
    BY <2>6 DEF Fetch, history, GiveUp
  <2>7. ASSUME NEW k \in Workers, Load(k) PROVE raced'
    BY <2>7 DEF Load, history, GiveUp
  <2>8. ASSUME NEW k \in Workers, resume_workflow_pause(k) PROVE raced'
    BY <2>8 DEF resume_workflow_pause, history, GiveUp
  <2>9. ASSUME NEW k \in Workers, WriteResumed(k) PROVE raced'
    BY <2>9 DEF WriteResumed, history, GiveUp
  <2>10. ASSUME NEW k \in Workers, Start(k) PROVE raced'
    BY <2>10 DEF Start, history, history
  <2>11. ASSUME NEW k \in Workers, Crash(k) PROVE raced'
    BY <2>11 DEF Crash, history, history
  <2>12. ASSUME NEW u \in Users, mark_submitted(u) PROVE raced'
    BY <2>12 DEF mark_submitted, history, history
  <2>13. ASSUME NEW u \in Users, SubmitResumes(u) PROVE raced'
    BY <2>13 DEF SubmitResumes, history, history
  <2>14. ASSUME NEW u \in Users, NEW f \in Forms, Submit(u, f) PROVE raced'
    BY <2>14 DEF Submit, history, history
  <2>15. ASSUME NEW f \in Forms, NEW is_global \in BOOLEAN, Scan(f, is_global) PROVE raced'
    BY <2>15 DEF Scan, history, history
  <2>16. CASE mark_timeout
    BY <2>16 DEF mark_timeout, history, history
  <2>17. CASE TimeoutResumes
    BY <2>17 DEF TimeoutResumes, history, history
  <2>18. CASE _handle_global_timeout
    BY <2>18 DEF _handle_global_timeout, history
  <2>19. CASE ScannerCrashes
    BY <2>19 DEF ScannerCrashes, history, history
  <2>20. CASE GlobalDeadline
    BY <2>20 DEF GlobalDeadline, history, history
  <2>21. ASSUME NEW f \in Forms, Expire(f) PROVE raced'
    BY <2>21 DEF Expire, history, history
  <2>22. CASE UNCHANGED vars
    BY <2>22 DEF vars, history, history
  <2> QED
    BY <2>1, <2>2, <2>3, <2>4, <2>5, <2>6, <2>7, <2>8, <2>9, <2>10, <2>11, <2>12, <2>13, <2>14,
        <2>15, <2>16, <2>17, <2>18, <2>19, <2>20, <2>21, <2>22 DEF Next, Task, Submission,
        Scanner

(* Two tasks are not at work. *)
LEMMA AloneStep == TaskOK /\ Alone /\ Spent /\ [Next]_vars => Alone'
<1> SUFFICES ASSUME TaskOK, Alone, Spent, [Next]_vars, ~raced', NEW a \in Workers,
    NEW b \in Workers,
                    pc'[a] \in AtWork, pc'[b] \in AtWork PROVE a = b
  BY DEF Alone
<1>1. ~raced
  BY RacedStays
<1> QED
  <2>1. ASSUME NEW k \in Workers, NEW f \in Forms, RunNode(k, f) PROVE a = b
    BY <2>1, <1>1 DEF RunNode, Alone, TaskOK, AtWork, Executing, runVars
  <2>2. ASSUME NEW k \in Workers, Succeed(k) PROVE a = b
    BY <2>2, <1>1 DEF Succeed, Alone, TaskOK, AtWork, Executing, Goto, AfterRun, history
  <2>3. ASSUME NEW k \in Workers, SavePaused(k) PROVE a = b
    BY <2>3, <1>1 DEF SavePaused, Alone, TaskOK, AtWork, Executing, Goto, history
  <2>4. ASSUME NEW k \in Workers, create_workflow_pause(k) PROVE a = b
    BY <2>4, <1>1 DEF create_workflow_pause, Alone, TaskOK, AtWork, Executing, Goto, AfterRun,
        runVars, history
  <2>5. ASSUME NEW k \in Workers, delete_workflow_pause(k) PROVE a = b
    BY <2>5, <1>1 DEF delete_workflow_pause, Alone, TaskOK, AtWork, Executing, Goto, history
  <2>6. ASSUME NEW k \in Workers, Fetch(k) PROVE a = b
    BY <2>6, <1>1 DEF Fetch, Alone, TaskOK, AtWork, Executing, GiveUp, Goto, runVars
  <2>7. ASSUME NEW k \in Workers, Load(k) PROVE a = b
    BY <2>7, <1>1 DEF Load, Alone, TaskOK, AtWork, Executing, GiveUp, Goto, runVars
  <2>8. ASSUME NEW k \in Workers, resume_workflow_pause(k) PROVE a = b
    BY <2>8, <1>1 DEF resume_workflow_pause, Alone, TaskOK, AtWork, Executing, GiveUp, Goto,
        runVars, Spent, Resumable
  <2>9. ASSUME NEW k \in Workers, WriteResumed(k) PROVE a = b
    BY <2>9, <1>1 DEF WriteResumed, Alone, TaskOK, AtWork, Executing, GiveUp, Goto, runVars
  <2>10. ASSUME NEW k \in Workers, Start(k) PROVE a = b
    BY <2>10, <1>1 DEF Start, Alone, TaskOK, AtWork, Executing, Goto, history
  <2>11. ASSUME NEW k \in Workers, Crash(k) PROVE a = b
    BY <2>11, <1>1 DEF Crash, Alone, TaskOK, AtWork, Executing, Goto, runVars, history
  <2>12. ASSUME NEW u \in Users, mark_submitted(u) PROVE a = b
    BY <2>12, <1>1 DEF mark_submitted, Alone, TaskOK, AtWork, Executing, runVars, history,
        workerVars
  <2>13. ASSUME NEW u \in Users, SubmitResumes(u) PROVE a = b
    BY <2>13, <1>1 DEF SubmitResumes, Alone, TaskOK, AtWork, Executing, runVars, history
  <2>14. ASSUME NEW u \in Users, NEW f \in Forms, Submit(u, f) PROVE a = b
    BY <2>14, <1>1 DEF Submit, Alone, TaskOK, AtWork, Executing, runVars, history, workerVars
  <2>15. ASSUME NEW f \in Forms, NEW is_global \in BOOLEAN, Scan(f, is_global) PROVE a = b
    BY <2>15, <1>1 DEF Scan, Alone, TaskOK, AtWork, Executing, runVars, history, workerVars
  <2>16. CASE mark_timeout
    BY <2>16, <1>1 DEF mark_timeout, Alone, TaskOK, AtWork, Executing, runVars, history, workerVars
  <2>17. CASE TimeoutResumes
    BY <2>17, <1>1 DEF TimeoutResumes, Alone, TaskOK, AtWork, Executing, runVars, history
  <2>18. CASE _handle_global_timeout
    BY <2>18, <1>1 DEF _handle_global_timeout, Alone, TaskOK, AtWork, Executing, workerVars
  <2>19. CASE ScannerCrashes
    BY <2>19, <1>1 DEF ScannerCrashes, Alone, TaskOK, AtWork, Executing, runVars, history,
        workerVars
  <2>20. CASE GlobalDeadline
    BY <2>20, <1>1 DEF GlobalDeadline, Alone, TaskOK, AtWork, Executing, runVars, history,
        workerVars
  <2>21. ASSUME NEW f \in Forms, Expire(f) PROVE a = b
    BY <2>21, <1>1 DEF Expire, Alone, TaskOK, AtWork, Executing, runVars, history, workerVars
  <2>22. CASE UNCHANGED vars
    BY <2>22 DEF vars, Alone, TaskOK, AtWork, Executing, runVars, history, workerVars
  <2> QED
    BY <2>1, <2>2, <2>3, <2>4, <2>5, <2>6, <2>7, <2>8, <2>9, <2>10, <2>11, <2>12, <2>13, <2>14,
        <2>15, <2>16, <2>17, <2>18, <2>19, <2>20, <2>21, <2>22 DEF Next, Task, Submission,
        Scanner

(* Nothing to resume while the run executes. *)
LEMMA SpentStep == TaskOK /\ RunOK /\ Alone /\ Spent /\ [Next]_vars => Spent'
<1> SUFFICES ASSUME TaskOK, RunOK, Alone, Spent, [Next]_vars, ~raced', NEW a \in Workers,
    pc'[a] \in Executing PROVE pause'.resumed
  BY DEF Spent
<1>1. ~raced
  BY RacedStays
<1> QED
  <2>1. ASSUME NEW k \in Workers, NEW f \in Forms, RunNode(k, f) PROVE pause'.resumed
    BY <2>1, <1>1 DEF RunNode, Spent, TaskOK, RunOK, Executing, runVars
  <2>2. ASSUME NEW k \in Workers, Succeed(k) PROVE pause'.resumed
    BY <2>2, <1>1 DEF Succeed, Spent, TaskOK, RunOK, Executing, Goto, AfterRun, history
  <2>3. ASSUME NEW k \in Workers, SavePaused(k) PROVE pause'.resumed
    BY <2>3, <1>1 DEF SavePaused, Spent, TaskOK, RunOK, Executing, Goto, history
  <2>4. ASSUME NEW k \in Workers, create_workflow_pause(k) PROVE pause'.resumed
    BY <2>4, <1>1 DEF create_workflow_pause, Spent, TaskOK, RunOK, Executing, Goto, AfterRun,
        runVars, history, Alone, AtWork
  <2>5. ASSUME NEW k \in Workers, delete_workflow_pause(k) PROVE pause'.resumed
    BY <2>5, <1>1 DEF delete_workflow_pause, Spent, TaskOK, RunOK, Executing, Goto, NoPause, history
  <2>6. ASSUME NEW k \in Workers, Fetch(k) PROVE pause'.resumed
    BY <2>6, <1>1 DEF Fetch, Spent, TaskOK, RunOK, Executing, GiveUp, Goto, NoPause, runVars
  <2>7. ASSUME NEW k \in Workers, Load(k) PROVE pause'.resumed
    BY <2>7, <1>1 DEF Load, Spent, TaskOK, RunOK, Executing, GiveUp, Goto, runVars
  <2>8. ASSUME NEW k \in Workers, resume_workflow_pause(k) PROVE pause'.resumed
    BY <2>8, <1>1 DEF resume_workflow_pause, Spent, TaskOK, RunOK, Executing, GiveUp, Goto, runVars
  <2>9. ASSUME NEW k \in Workers, WriteResumed(k) PROVE pause'.resumed
    BY <2>9, <1>1 DEF WriteResumed, Spent, TaskOK, RunOK, Executing, GiveUp, Goto, runVars
  <2>10. ASSUME NEW k \in Workers, Start(k) PROVE pause'.resumed
    BY <2>10, <1>1 DEF Start, Spent, TaskOK, RunOK, Executing, Goto, history
  <2>11. ASSUME NEW k \in Workers, Crash(k) PROVE pause'.resumed
    BY <2>11, <1>1 DEF Crash, Spent, TaskOK, RunOK, Executing, Goto, runVars, history
  <2>12. ASSUME NEW u \in Users, mark_submitted(u) PROVE pause'.resumed
    BY <2>12, <1>1 DEF mark_submitted, Spent, TaskOK, RunOK, Executing, runVars, history, workerVars
  <2>13. ASSUME NEW u \in Users, SubmitResumes(u) PROVE pause'.resumed
    BY <2>13, <1>1 DEF SubmitResumes, Spent, TaskOK, RunOK, Executing, runVars, history
  <2>14. ASSUME NEW u \in Users, NEW f \in Forms, Submit(u, f) PROVE pause'.resumed
    BY <2>14, <1>1 DEF Submit, Spent, TaskOK, RunOK, Executing, runVars, history, workerVars
  <2>15. ASSUME NEW f \in Forms, NEW is_global \in BOOLEAN, Scan(f, is_global) PROVE pause'.resumed
    BY <2>15, <1>1 DEF Scan, Spent, TaskOK, RunOK, Executing, runVars, history, workerVars
  <2>16. CASE mark_timeout
    BY <2>16, <1>1 DEF mark_timeout, Spent, TaskOK, RunOK, Executing, runVars, history, workerVars
  <2>17. CASE TimeoutResumes
    BY <2>17, <1>1 DEF TimeoutResumes, Spent, TaskOK, RunOK, Executing, runVars, history
  <2>18. CASE _handle_global_timeout
    BY <2>18, <1>1 DEF _handle_global_timeout, Spent, TaskOK, RunOK, Executing, NoPause, workerVars
  <2>19. CASE ScannerCrashes
    BY <2>19, <1>1 DEF ScannerCrashes, Spent, TaskOK, RunOK, Executing, runVars, history, workerVars
  <2>20. CASE GlobalDeadline
    BY <2>20, <1>1 DEF GlobalDeadline, Spent, TaskOK, RunOK, Executing, runVars, history, workerVars
  <2>21. ASSUME NEW f \in Forms, Expire(f) PROVE pause'.resumed
    BY <2>21, <1>1 DEF Expire, Spent, TaskOK, RunOK, Executing, runVars, history, workerVars
  <2>22. CASE UNCHANGED vars
    BY <2>22 DEF vars, Spent, TaskOK, RunOK, Executing, runVars, history, workerVars
  <2> QED
    BY <2>1, <2>2, <2>3, <2>4, <2>5, <2>6, <2>7, <2>8, <2>9, <2>10, <2>11, <2>12, <2>13, <2>14,
        <2>15, <2>16, <2>17, <2>18, <2>19, <2>20, <2>21, <2>22 DEF Next, Task, Submission,
        Scanner

(* What a task holds of a pause. *)
LEMMA HoldsStep == TaskOK /\ RunOK /\ EngineOK /\ Holds /\ [Next]_vars => Holds'
<1> SUFFICES ASSUME TaskOK, RunOK, EngineOK, Holds, [Next]_vars PROVE Holds'
  OBVIOUS
<1> QED
  <2>1. ASSUME NEW k \in Workers, NEW f \in Forms, RunNode(k, f) PROVE Holds'
    BY <2>1 DEF RunNode, Holds, TaskOK, RunOK, EngineOK, runVars
  <2>2. ASSUME NEW k \in Workers, Succeed(k) PROVE Holds'
    BY <2>2 DEF Succeed, Holds, TaskOK, RunOK, EngineOK, Goto, PC, AfterRun
  <2>3. ASSUME NEW k \in Workers, SavePaused(k) PROVE Holds'
    BY <2>3 DEF SavePaused, Holds, TaskOK, RunOK, EngineOK, Goto
  <2>4. ASSUME NEW k \in Workers, create_workflow_pause(k) PROVE Holds'
    BY <2>4 DEF create_workflow_pause, Holds, TaskOK, RunOK, EngineOK, Goto, runVars, PC, AfterRun
  <2>5. ASSUME NEW k \in Workers, delete_workflow_pause(k) PROVE Holds'
    BY <2>5 DEF delete_workflow_pause, Holds, TaskOK, RunOK, EngineOK, Goto, NoPause
  <2>6. ASSUME NEW k \in Workers, Fetch(k) PROVE Holds'
    BY <2>6 DEF Fetch, Holds, TaskOK, RunOK, EngineOK, GiveUp, Goto, NoPause, runVars
  <2>7. ASSUME NEW k \in Workers, Load(k) PROVE Holds'
    BY <2>7 DEF Load, Holds, TaskOK, RunOK, EngineOK, GiveUp, Goto, runVars
  <2>8. ASSUME NEW k \in Workers, resume_workflow_pause(k) PROVE Holds'
    BY <2>8 DEF resume_workflow_pause, Holds, TaskOK, RunOK, EngineOK, GiveUp, Goto, runVars
  <2>9. ASSUME NEW k \in Workers, WriteResumed(k) PROVE Holds'
    BY <2>9 DEF WriteResumed, Holds, TaskOK, RunOK, EngineOK, GiveUp, Goto, runVars
  <2>10. ASSUME NEW k \in Workers, Start(k) PROVE Holds'
    BY <2>10 DEF Start, Holds, TaskOK, RunOK, EngineOK, Goto
  <2>11. ASSUME NEW k \in Workers, Crash(k) PROVE Holds'
    BY <2>11 DEF Crash, Holds, TaskOK, RunOK, EngineOK, Goto, runVars
  <2>12. ASSUME NEW u \in Users, mark_submitted(u) PROVE Holds'
    BY <2>12 DEF mark_submitted, Holds, TaskOK, RunOK, EngineOK, runVars, workerVars
  <2>13. ASSUME NEW u \in Users, SubmitResumes(u) PROVE Holds'
    BY <2>13 DEF SubmitResumes, Holds, TaskOK, RunOK, EngineOK, runVars
  <2>14. ASSUME NEW u \in Users, NEW f \in Forms, Submit(u, f) PROVE Holds'
    BY <2>14 DEF Submit, Holds, TaskOK, RunOK, EngineOK, runVars, workerVars
  <2>15. ASSUME NEW f \in Forms, NEW is_global \in BOOLEAN, Scan(f, is_global) PROVE Holds'
    BY <2>15 DEF Scan, Holds, TaskOK, RunOK, EngineOK, runVars, workerVars
  <2>16. CASE mark_timeout
    BY <2>16 DEF mark_timeout, Holds, TaskOK, RunOK, EngineOK, runVars, workerVars
  <2>17. CASE TimeoutResumes
    BY <2>17 DEF TimeoutResumes, Holds, TaskOK, RunOK, EngineOK, runVars
  <2>18. CASE _handle_global_timeout
    BY <2>18 DEF _handle_global_timeout, Holds, TaskOK, RunOK, EngineOK, NoPause, workerVars
  <2>19. CASE ScannerCrashes
    BY <2>19 DEF ScannerCrashes, Holds, TaskOK, RunOK, EngineOK, runVars, workerVars
  <2>20. CASE GlobalDeadline
    BY <2>20 DEF GlobalDeadline, Holds, TaskOK, RunOK, EngineOK, runVars, workerVars
  <2>21. ASSUME NEW f \in Forms, Expire(f) PROVE Holds'
    BY <2>21 DEF Expire, Holds, TaskOK, RunOK, EngineOK, runVars, workerVars
  <2>22. CASE UNCHANGED vars
    BY <2>22 DEF vars, Holds, TaskOK, RunOK, EngineOK, runVars, workerVars
  <2> QED
    BY <2>1, <2>2, <2>3, <2>4, <2>5, <2>6, <2>7, <2>8, <2>9, <2>10, <2>11, <2>12, <2>13, <2>14,
        <2>15, <2>16, <2>17, <2>18, <2>19, <2>20, <2>21, <2>22 DEF Next, Task, Submission,
        Scanner

(* What was decided stays known. *)
LEMMA KnownStep == TaskOK /\ RunOK /\ EngineOK /\ HistoryOK /\ Alone /\ Spent /\ Holds /\ Known /\ [Next]_vars
    => Known'
<1> SUFFICES ASSUME TaskOK, RunOK, EngineOK, HistoryOK, Alone, Spent, Holds, Known,
    [Next]_vars, ~raced', NEW g \in Forms, decisions'[g] # 0 PROVE Knows(g)'
  BY DEF Known
<1>1. ~raced
  BY RacedStays
<1> QED
  <2>1. ASSUME NEW k \in Workers, NEW f \in Forms, RunNode(k, f) PROVE Knows(g)'
    BY <2>1, <1>1 DEF RunNode, Known, Knows, TaskOK, RunOK, EngineOK, HistoryOK, AtWork,
        Executing, runVars, Alone, Spent
  <2>2. ASSUME NEW k \in Workers, Succeed(k) PROVE Knows(g)'
    BY <2>2, <1>1 DEF Succeed, Known, Knows, TaskOK, RunOK, EngineOK, HistoryOK, AtWork,
        Executing, Goto, AfterRun, history
  <2>3. ASSUME NEW k \in Workers, SavePaused(k) PROVE Knows(g)'
    BY <2>3, <1>1 DEF SavePaused, Known, Knows, TaskOK, RunOK, EngineOK, HistoryOK, AtWork,
        Executing, Goto, history
  <2>4. ASSUME NEW k \in Workers, create_workflow_pause(k) PROVE Knows(g)'
    BY <2>4, <1>1 DEF create_workflow_pause, Known, Knows, TaskOK, RunOK, EngineOK, HistoryOK,
        AtWork, Executing, Goto, AfterRun, runVars, history, Alone
  <2>5. ASSUME NEW k \in Workers, delete_workflow_pause(k) PROVE Knows(g)'
    BY <2>5, <1>1 DEF delete_workflow_pause, Known, Knows, TaskOK, RunOK, EngineOK, HistoryOK,
        AtWork, Executing, Goto, NoPause, history
  <2>6. ASSUME NEW k \in Workers, Fetch(k) PROVE Knows(g)'
    BY <2>6, <1>1 DEF Fetch, Known, Knows, TaskOK, RunOK, EngineOK, HistoryOK, AtWork,
        Executing, GiveUp, Goto, NoPause, runVars
  <2>7. ASSUME NEW k \in Workers, Load(k) PROVE Knows(g)'
    BY <2>7, <1>1 DEF Load, Known, Knows, TaskOK, RunOK, EngineOK, HistoryOK, AtWork,
        Executing, GiveUp, Goto, runVars
  <2>8. ASSUME NEW k \in Workers, resume_workflow_pause(k) PROVE Knows(g)'
    BY <2>8, <1>1 DEF resume_workflow_pause, Known, Knows, TaskOK, RunOK, EngineOK, HistoryOK,
        AtWork, Executing, GiveUp, Goto, runVars, Resumable, Holds
  <2>9. ASSUME NEW k \in Workers, WriteResumed(k) PROVE Knows(g)'
    BY <2>9, <1>1 DEF WriteResumed, Known, Knows, TaskOK, RunOK, EngineOK, HistoryOK, AtWork,
        Executing, GiveUp, Goto, runVars, Holds
  <2>10. ASSUME NEW k \in Workers, Start(k) PROVE Knows(g)'
    BY <2>10, <1>1 DEF Start, Known, Knows, TaskOK, RunOK, EngineOK, HistoryOK, AtWork,
        Executing, Goto, history
  <2>11. ASSUME NEW k \in Workers, Crash(k) PROVE Knows(g)'
    BY <2>11, <1>1 DEF Crash, Known, Knows, TaskOK, RunOK, EngineOK, HistoryOK, AtWork,
        Executing, Goto, runVars, history
  <2>12. ASSUME NEW u \in Users, mark_submitted(u) PROVE Knows(g)'
    BY <2>12, <1>1 DEF mark_submitted, Known, Knows, TaskOK, RunOK, EngineOK, HistoryOK,
        AtWork, Executing, runVars, history, workerVars
  <2>13. ASSUME NEW u \in Users, SubmitResumes(u) PROVE Knows(g)'
    BY <2>13, <1>1 DEF SubmitResumes, Known, Knows, TaskOK, RunOK, EngineOK, HistoryOK, AtWork,
        Executing, runVars, history
  <2>14. ASSUME NEW u \in Users, NEW f \in Forms, Submit(u, f) PROVE Knows(g)'
    BY <2>14, <1>1 DEF Submit, Known, Knows, TaskOK, RunOK, EngineOK, HistoryOK, AtWork,
        Executing, runVars, history, workerVars
  <2>15. ASSUME NEW f \in Forms, NEW is_global \in BOOLEAN, Scan(f, is_global) PROVE Knows(g)'
    BY <2>15, <1>1 DEF Scan, Known, Knows, TaskOK, RunOK, EngineOK, HistoryOK, AtWork,
        Executing, runVars, history, workerVars
  <2>16. CASE mark_timeout
    BY <2>16, <1>1 DEF mark_timeout, Known, Knows, TaskOK, RunOK, EngineOK, HistoryOK, AtWork,
        Executing, runVars, history, workerVars
  <2>17. CASE TimeoutResumes
    BY <2>17, <1>1 DEF TimeoutResumes, Known, Knows, TaskOK, RunOK, EngineOK, HistoryOK,
        AtWork, Executing, runVars, history
  <2>18. CASE _handle_global_timeout
    BY <2>18, <1>1 DEF _handle_global_timeout, Known, Knows, TaskOK, RunOK, EngineOK,
        HistoryOK, AtWork, Executing, NoPause, workerVars
  <2>19. CASE ScannerCrashes
    BY <2>19, <1>1 DEF ScannerCrashes, Known, Knows, TaskOK, RunOK, EngineOK, HistoryOK,
        AtWork, Executing, runVars, history, workerVars
  <2>20. CASE GlobalDeadline
    BY <2>20, <1>1 DEF GlobalDeadline, Known, Knows, TaskOK, RunOK, EngineOK, HistoryOK,
        AtWork, Executing, runVars, history, workerVars
  <2>21. ASSUME NEW f \in Forms, Expire(f) PROVE Knows(g)'
    BY <2>21, <1>1 DEF Expire, Known, Knows, TaskOK, RunOK, EngineOK, HistoryOK, AtWork,
        Executing, runVars, history, workerVars
  <2>22. CASE UNCHANGED vars
    BY <2>22 DEF vars, Known, Knows, TaskOK, RunOK, EngineOK, HistoryOK, AtWork, Executing,
        runVars, history, workerVars
  <2> QED
    BY <2>1, <2>2, <2>3, <2>4, <2>5, <2>6, <2>7, <2>8, <2>9, <2>10, <2>11, <2>12, <2>13, <2>14,
        <2>15, <2>16, <2>17, <2>18, <2>19, <2>20, <2>21, <2>22 DEF Next, Task, Submission,
        Scanner

(* No form is decided twice. *)
LEMMA OnceStep == TaskOK /\ EngineOK /\ HistoryOK /\ Known /\ DecidedOnceUnlessRaced /\ [Next]_vars
    => DecidedOnceUnlessRaced'
<1> SUFFICES ASSUME TaskOK, EngineOK, HistoryOK, Known, DecidedOnceUnlessRaced, [Next]_vars,
    ~raced', NEW g \in Forms PROVE decisions'[g] <= 1
  BY DEF DecidedOnceUnlessRaced
<1>1. ~raced
  BY RacedStays
<1> QED
  <2>1. ASSUME NEW k \in Workers, NEW f \in Forms, RunNode(k, f) PROVE decisions'[g] <= 1
    BY <2>1, <1>1 DEF RunNode, DecidedOnceUnlessRaced, HistoryOK, runVars, Known, Knows,
        EngineOK, TaskOK, AtWork, Executing
  <2>2. ASSUME NEW k \in Workers, Succeed(k) PROVE decisions'[g] <= 1
    BY <2>2, <1>1 DEF Succeed, DecidedOnceUnlessRaced, HistoryOK, AfterRun, history
  <2>3. ASSUME NEW k \in Workers, SavePaused(k) PROVE decisions'[g] <= 1
    BY <2>3, <1>1 DEF SavePaused, DecidedOnceUnlessRaced, HistoryOK, history
  <2>4. ASSUME NEW k \in Workers, create_workflow_pause(k) PROVE decisions'[g] <= 1
    BY <2>4, <1>1 DEF create_workflow_pause, DecidedOnceUnlessRaced, HistoryOK, AfterRun, history
  <2>5. ASSUME NEW k \in Workers, delete_workflow_pause(k) PROVE decisions'[g] <= 1
    BY <2>5, <1>1 DEF delete_workflow_pause, DecidedOnceUnlessRaced, HistoryOK, NoPause, history
  <2>6. ASSUME NEW k \in Workers, Fetch(k) PROVE decisions'[g] <= 1
    BY <2>6, <1>1 DEF Fetch, DecidedOnceUnlessRaced, HistoryOK, GiveUp, NoPause
  <2>7. ASSUME NEW k \in Workers, Load(k) PROVE decisions'[g] <= 1
    BY <2>7, <1>1 DEF Load, DecidedOnceUnlessRaced, HistoryOK, GiveUp
  <2>8. ASSUME NEW k \in Workers, resume_workflow_pause(k) PROVE decisions'[g] <= 1
    BY <2>8, <1>1 DEF resume_workflow_pause, DecidedOnceUnlessRaced, HistoryOK, GiveUp
  <2>9. ASSUME NEW k \in Workers, WriteResumed(k) PROVE decisions'[g] <= 1
    BY <2>9, <1>1 DEF WriteResumed, DecidedOnceUnlessRaced, HistoryOK, GiveUp
  <2>10. ASSUME NEW k \in Workers, Start(k) PROVE decisions'[g] <= 1
    BY <2>10, <1>1 DEF Start, DecidedOnceUnlessRaced, HistoryOK, history
  <2>11. ASSUME NEW k \in Workers, Crash(k) PROVE decisions'[g] <= 1
    BY <2>11, <1>1 DEF Crash, DecidedOnceUnlessRaced, HistoryOK, history
  <2>12. ASSUME NEW u \in Users, mark_submitted(u) PROVE decisions'[g] <= 1
    BY <2>12, <1>1 DEF mark_submitted, DecidedOnceUnlessRaced, HistoryOK, history
  <2>13. ASSUME NEW u \in Users, SubmitResumes(u) PROVE decisions'[g] <= 1
    BY <2>13, <1>1 DEF SubmitResumes, DecidedOnceUnlessRaced, HistoryOK, history
  <2>14. ASSUME NEW u \in Users, NEW f \in Forms, Submit(u, f) PROVE decisions'[g] <= 1
    BY <2>14, <1>1 DEF Submit, DecidedOnceUnlessRaced, HistoryOK, history
  <2>15. ASSUME NEW f \in Forms, NEW is_global \in BOOLEAN, Scan(f, is_global)
      PROVE decisions'[g] <= 1
    BY <2>15, <1>1 DEF Scan, DecidedOnceUnlessRaced, HistoryOK, history
  <2>16. CASE mark_timeout
    BY <2>16, <1>1 DEF mark_timeout, DecidedOnceUnlessRaced, HistoryOK, history
  <2>17. CASE TimeoutResumes
    BY <2>17, <1>1 DEF TimeoutResumes, DecidedOnceUnlessRaced, HistoryOK, history
  <2>18. CASE _handle_global_timeout
    BY <2>18, <1>1 DEF _handle_global_timeout, DecidedOnceUnlessRaced, HistoryOK, NoPause
  <2>19. CASE ScannerCrashes
    BY <2>19, <1>1 DEF ScannerCrashes, DecidedOnceUnlessRaced, HistoryOK, history
  <2>20. CASE GlobalDeadline
    BY <2>20, <1>1 DEF GlobalDeadline, DecidedOnceUnlessRaced, HistoryOK, history
  <2>21. ASSUME NEW f \in Forms, Expire(f) PROVE decisions'[g] <= 1
    BY <2>21, <1>1 DEF Expire, DecidedOnceUnlessRaced, HistoryOK, history
  <2>22. CASE UNCHANGED vars
    BY <2>22 DEF vars, DecidedOnceUnlessRaced, HistoryOK, history
  <2> QED
    BY <2>1, <2>2, <2>3, <2>4, <2>5, <2>6, <2>7, <2>8, <2>9, <2>10, <2>11, <2>12, <2>13, <2>14,
        <2>15, <2>16, <2>17, <2>18, <2>19, <2>20, <2>21, <2>22 DEF Next, Task, Submission,
        Scanner

(* The inductive invariant. *)
THEOREM SingleExecution == Spec => []Single
<1>1. Init => Single
  <2> SUFFICES ASSUME Init PROVE Single
    OBVIOUS
  <2>1. Alone
    BY DEF Init, Alone, AtWork, Executing
  <2>2. Spent /\ Holds
    BY DEF Init, Spent, Holds, NoPause
  <2>3. Known /\ DecidedOnceUnlessRaced
    BY DEF Init, Known, DecidedOnceUnlessRaced
  <2> QED
    BY <2>1, <2>2, <2>3 DEF Single
<1>2. TypeOK /\ Single /\ [Next]_vars => Single'
  BY TypeParts, AloneStep, SpentStep, HoldsStep, KnownStep, OnceStep DEF Single
<1> QED
  BY <1>1, <1>2, TypeCorrect, PTL DEF Spec

(* Nothing is executed twice: a form is decided once in all the tasks that *)
(* execute a run, unless two of them were in resume_workflow_pause at the  *)
(* same time. *)
THEOREM DecidedOnce == Spec => []DecidedOnceUnlessRaced
<1>1. Single => DecidedOnceUnlessRaced
  BY DEF Single
<1> QED
  BY <1>1, SingleExecution, PTL

(* A pause that can be resumed has its state, a task that is about to      *)
(* delete a pause has resumed it, and the claim of WorkflowPause itself.   *)
HasState == ~pause.resumed => pause.object

DeletesSpent ==
    ~raced => \A a \in Workers : pc[a] = "deleting" /\ entity[a] = pause.id => pause.resumed

Resumability == HasState /\ DeletesSpent /\ PausedMeansResumable

(* Only a pause that is spent loses its state. *)
LEMMA HasStateStep == RunOK /\ HasState /\ [Next]_vars => HasState'
<1> SUFFICES ASSUME RunOK, HasState, [Next]_vars PROVE HasState'
  OBVIOUS
<1> QED
  <2>1. ASSUME NEW k \in Workers, NEW f \in Forms, RunNode(k, f) PROVE HasState'
    BY <2>1 DEF RunNode, HasState, RunOK, runVars
  <2>2. ASSUME NEW k \in Workers, Succeed(k) PROVE HasState'
    BY <2>2 DEF Succeed, HasState, RunOK, Goto
  <2>3. ASSUME NEW k \in Workers, SavePaused(k) PROVE HasState'
    BY <2>3 DEF SavePaused, HasState, RunOK, Goto
  <2>4. ASSUME NEW k \in Workers, create_workflow_pause(k) PROVE HasState'
    BY <2>4 DEF create_workflow_pause, HasState, RunOK, Goto, runVars
  <2>5. ASSUME NEW k \in Workers, delete_workflow_pause(k) PROVE HasState'
    BY <2>5 DEF delete_workflow_pause, HasState, RunOK, Goto, NoPause
  <2>6. ASSUME NEW k \in Workers, Fetch(k) PROVE HasState'
    BY <2>6 DEF Fetch, HasState, RunOK, GiveUp, Goto, NoPause, runVars
  <2>7. ASSUME NEW k \in Workers, Load(k) PROVE HasState'
    BY <2>7 DEF Load, HasState, RunOK, GiveUp, Goto, runVars
  <2>8. ASSUME NEW k \in Workers, resume_workflow_pause(k) PROVE HasState'
    BY <2>8 DEF resume_workflow_pause, HasState, RunOK, GiveUp, Goto, runVars
  <2>9. ASSUME NEW k \in Workers, WriteResumed(k) PROVE HasState'
    BY <2>9 DEF WriteResumed, HasState, RunOK, GiveUp, Goto, runVars
  <2>10. ASSUME NEW k \in Workers, Start(k) PROVE HasState'
    BY <2>10 DEF Start, HasState, RunOK, Goto
  <2>11. ASSUME NEW k \in Workers, Crash(k) PROVE HasState'
    BY <2>11 DEF Crash, HasState, RunOK, Goto, runVars
  <2>12. ASSUME NEW u \in Users, mark_submitted(u) PROVE HasState'
    BY <2>12 DEF mark_submitted, HasState, RunOK, runVars, workerVars
  <2>13. ASSUME NEW u \in Users, SubmitResumes(u) PROVE HasState'
    BY <2>13 DEF SubmitResumes, HasState, RunOK, runVars
  <2>14. ASSUME NEW u \in Users, NEW f \in Forms, Submit(u, f) PROVE HasState'
    BY <2>14 DEF Submit, HasState, RunOK, runVars, workerVars
  <2>15. ASSUME NEW f \in Forms, NEW is_global \in BOOLEAN, Scan(f, is_global) PROVE HasState'
    BY <2>15 DEF Scan, HasState, RunOK, runVars, workerVars
  <2>16. CASE mark_timeout
    BY <2>16 DEF mark_timeout, HasState, RunOK, runVars, workerVars
  <2>17. CASE TimeoutResumes
    BY <2>17 DEF TimeoutResumes, HasState, RunOK, runVars
  <2>18. CASE _handle_global_timeout
    BY <2>18 DEF _handle_global_timeout, HasState, RunOK, NoPause, workerVars
  <2>19. CASE ScannerCrashes
    BY <2>19 DEF ScannerCrashes, HasState, RunOK, runVars, workerVars
  <2>20. CASE GlobalDeadline
    BY <2>20 DEF GlobalDeadline, HasState, RunOK, runVars, workerVars
  <2>21. ASSUME NEW f \in Forms, Expire(f) PROVE HasState'
    BY <2>21 DEF Expire, HasState, RunOK, runVars, workerVars
  <2>22. CASE UNCHANGED vars
    BY <2>22 DEF vars, HasState, RunOK, runVars, workerVars
  <2> QED
    BY <2>1, <2>2, <2>3, <2>4, <2>5, <2>6, <2>7, <2>8, <2>9, <2>10, <2>11, <2>12, <2>13, <2>14,
        <2>15, <2>16, <2>17, <2>18, <2>19, <2>20, <2>21, <2>22 DEF Next, Task, Submission,
        Scanner

(* Only a pause that is spent is deleted. *)
LEMMA DeletesSpentStep == TaskOK /\ RunOK /\ Spent /\ DeletesSpent /\ [Next]_vars => DeletesSpent'
<1> SUFFICES ASSUME TaskOK, RunOK, Spent, DeletesSpent, [Next]_vars, ~raced',
    NEW a \in Workers, pc'[a] = "deleting", entity'[a] = pause'.id PROVE pause'.resumed
  BY DEF DeletesSpent
<1>1. ~raced
  BY RacedStays
<1> QED
  <2>1. ASSUME NEW k \in Workers, NEW f \in Forms, RunNode(k, f) PROVE pause'.resumed
    BY <2>1, <1>1 DEF RunNode, DeletesSpent, TaskOK, RunOK, PC, runVars
  <2>2. ASSUME NEW k \in Workers, Succeed(k) PROVE pause'.resumed
    BY <2>2, <1>1 DEF Succeed, DeletesSpent, TaskOK, RunOK, PC, Goto, AfterRun, history, Spent,
        Executing
  <2>3. ASSUME NEW k \in Workers, SavePaused(k) PROVE pause'.resumed
    BY <2>3, <1>1 DEF SavePaused, DeletesSpent, TaskOK, RunOK, PC, Goto, history
  <2>4. ASSUME NEW k \in Workers, create_workflow_pause(k) PROVE pause'.resumed
    BY <2>4, <1>1 DEF create_workflow_pause, DeletesSpent, TaskOK, RunOK, PC, Goto, AfterRun,
        runVars, history, Spent, Executing
  <2>5. ASSUME NEW k \in Workers, delete_workflow_pause(k) PROVE pause'.resumed
    BY <2>5, <1>1 DEF delete_workflow_pause, DeletesSpent, TaskOK, RunOK, PC, Goto, NoPause, history
  <2>6. ASSUME NEW k \in Workers, Fetch(k) PROVE pause'.resumed
    BY <2>6, <1>1 DEF Fetch, DeletesSpent, TaskOK, RunOK, PC, GiveUp, Goto, NoPause, runVars
  <2>7. ASSUME NEW k \in Workers, Load(k) PROVE pause'.resumed
    BY <2>7, <1>1 DEF Load, DeletesSpent, TaskOK, RunOK, PC, GiveUp, Goto, runVars
  <2>8. ASSUME NEW k \in Workers, resume_workflow_pause(k) PROVE pause'.resumed
    BY <2>8, <1>1 DEF resume_workflow_pause, DeletesSpent, TaskOK, RunOK, PC, GiveUp, Goto, runVars
  <2>9. ASSUME NEW k \in Workers, WriteResumed(k) PROVE pause'.resumed
    BY <2>9, <1>1 DEF WriteResumed, DeletesSpent, TaskOK, RunOK, PC, GiveUp, Goto, runVars
  <2>10. ASSUME NEW k \in Workers, Start(k) PROVE pause'.resumed
    BY <2>10, <1>1 DEF Start, DeletesSpent, TaskOK, RunOK, PC, Goto, history
  <2>11. ASSUME NEW k \in Workers, Crash(k) PROVE pause'.resumed
    BY <2>11, <1>1 DEF Crash, DeletesSpent, TaskOK, RunOK, PC, Goto, runVars, history
  <2>12. ASSUME NEW u \in Users, mark_submitted(u) PROVE pause'.resumed
    BY <2>12, <1>1 DEF mark_submitted, DeletesSpent, TaskOK, RunOK, PC, runVars, history, workerVars
  <2>13. ASSUME NEW u \in Users, SubmitResumes(u) PROVE pause'.resumed
    BY <2>13, <1>1 DEF SubmitResumes, DeletesSpent, TaskOK, RunOK, PC, runVars, history
  <2>14. ASSUME NEW u \in Users, NEW f \in Forms, Submit(u, f) PROVE pause'.resumed
    BY <2>14, <1>1 DEF Submit, DeletesSpent, TaskOK, RunOK, PC, runVars, history, workerVars
  <2>15. ASSUME NEW f \in Forms, NEW is_global \in BOOLEAN, Scan(f, is_global) PROVE pause'.resumed
    BY <2>15, <1>1 DEF Scan, DeletesSpent, TaskOK, RunOK, PC, runVars, history, workerVars
  <2>16. CASE mark_timeout
    BY <2>16, <1>1 DEF mark_timeout, DeletesSpent, TaskOK, RunOK, PC, runVars, history, workerVars
  <2>17. CASE TimeoutResumes
    BY <2>17, <1>1 DEF TimeoutResumes, DeletesSpent, TaskOK, RunOK, PC, runVars, history
  <2>18. CASE _handle_global_timeout
    BY <2>18, <1>1 DEF _handle_global_timeout, DeletesSpent, TaskOK, RunOK, PC, NoPause, workerVars
  <2>19. CASE ScannerCrashes
    BY <2>19, <1>1 DEF ScannerCrashes, DeletesSpent, TaskOK, RunOK, PC, runVars, history, workerVars
  <2>20. CASE GlobalDeadline
    BY <2>20, <1>1 DEF GlobalDeadline, DeletesSpent, TaskOK, RunOK, PC, runVars, history, workerVars
  <2>21. ASSUME NEW f \in Forms, Expire(f) PROVE pause'.resumed
    BY <2>21, <1>1 DEF Expire, DeletesSpent, TaskOK, RunOK, PC, runVars, history, workerVars
  <2>22. CASE UNCHANGED vars
    BY <2>22 DEF vars, DeletesSpent, TaskOK, RunOK, PC, runVars, history, workerVars
  <2> QED
    BY <2>1, <2>2, <2>3, <2>4, <2>5, <2>6, <2>7, <2>8, <2>9, <2>10, <2>11, <2>12, <2>13, <2>14,
        <2>15, <2>16, <2>17, <2>18, <2>19, <2>20, <2>21, <2>22 DEF Next, Task, Submission,
        Scanner

(* The claim of WorkflowPause. *)
LEMMA PausedStep == TaskOK /\ RunOK /\ CountOK /\ Alone /\ Spent /\ HasState /\ DeletesSpent /\ PausedMeansResumable /\ [Next]_vars
    => PausedMeansResumable'
<1> SUFFICES ASSUME TaskOK, RunOK, CountOK, Alone, Spent, HasState, DeletesSpent,
    PausedMeansResumable, [Next]_vars, crashes' = 0, ~raced', ~Pausing'
    PROVE run' = "paused" <=> ~pause'.resumed /\ pause'.object
  BY DEF PausedMeansResumable
<1>1. ~raced
  BY RacedStays
<1> QED
  <2>1. ASSUME NEW k \in Workers, NEW f \in Forms, RunNode(k, f)
      PROVE run' = "paused" <=> ~pause'.resumed /\ pause'.object
    BY <2>1, <1>1 DEF RunNode, PausedMeansResumable, TaskOK, RunOK, Pausing, runVars, faults
  <2>2. ASSUME NEW k \in Workers, Succeed(k)
      PROVE run' = "paused" <=> ~pause'.resumed /\ pause'.object
    BY <2>2, <1>1 DEF Succeed, PausedMeansResumable, TaskOK, RunOK, Pausing, Goto, AfterRun,
        faults, history, Spent, Executing
  <2>3. ASSUME NEW k \in Workers, SavePaused(k)
      PROVE run' = "paused" <=> ~pause'.resumed /\ pause'.object
    BY <2>3, <1>1 DEF SavePaused, PausedMeansResumable, TaskOK, RunOK, Pausing, Goto, faults,
        history
  <2>4. ASSUME NEW k \in Workers, create_workflow_pause(k)
      PROVE run' = "paused" <=> ~pause'.resumed /\ pause'.object
    BY <2>4, <1>1 DEF create_workflow_pause, PausedMeansResumable, TaskOK, RunOK, Pausing,
        Goto, AfterRun, runVars, faults, history, Spent, Executing
  <2>5. ASSUME NEW k \in Workers, delete_workflow_pause(k)
      PROVE run' = "paused" <=> ~pause'.resumed /\ pause'.object
    BY <2>5, <1>1 DEF delete_workflow_pause, PausedMeansResumable, TaskOK, RunOK, Pausing,
        Goto, NoPause, faults, history, DeletesSpent
  <2>6. ASSUME NEW k \in Workers, Fetch(k)
      PROVE run' = "paused" <=> ~pause'.resumed /\ pause'.object
    BY <2>6, <1>1 DEF Fetch, PausedMeansResumable, TaskOK, RunOK, Pausing, GiveUp, Goto,
        NoPause, runVars, faults
  <2>7. ASSUME NEW k \in Workers, Load(k) PROVE run' = "paused" <=> ~pause'.resumed /\ pause'.object
    BY <2>7, <1>1 DEF Load, PausedMeansResumable, TaskOK, RunOK, Pausing, GiveUp, Goto,
        runVars, faults
  <2>8. ASSUME NEW k \in Workers, resume_workflow_pause(k)
      PROVE run' = "paused" <=> ~pause'.resumed /\ pause'.object
    BY <2>8, <1>1 DEF resume_workflow_pause, PausedMeansResumable, TaskOK, RunOK, Pausing,
        GiveUp, Goto, runVars, faults
  <2>9. ASSUME NEW k \in Workers, WriteResumed(k)
      PROVE run' = "paused" <=> ~pause'.resumed /\ pause'.object
    BY <2>9, <1>1 DEF WriteResumed, PausedMeansResumable, TaskOK, RunOK, Pausing, GiveUp, Goto,
        runVars, faults
  <2>10. ASSUME NEW k \in Workers, Start(k)
      PROVE run' = "paused" <=> ~pause'.resumed /\ pause'.object
    BY <2>10, <1>1 DEF Start, PausedMeansResumable, TaskOK, RunOK, Pausing, Goto, faults,
        history, Spent, Executing
  <2>11. ASSUME NEW k \in Workers, Crash(k)
      PROVE run' = "paused" <=> ~pause'.resumed /\ pause'.object
    BY <2>11, <1>1 DEF Crash, PausedMeansResumable, TaskOK, RunOK, Pausing, Goto, runVars,
        history, CountOK
  <2>12. ASSUME NEW u \in Users, mark_submitted(u)
      PROVE run' = "paused" <=> ~pause'.resumed /\ pause'.object
    BY <2>12, <1>1 DEF mark_submitted, PausedMeansResumable, TaskOK, RunOK, Pausing, runVars,
        faults, history, workerVars
  <2>13. ASSUME NEW u \in Users, SubmitResumes(u)
      PROVE run' = "paused" <=> ~pause'.resumed /\ pause'.object
    BY <2>13, <1>1 DEF SubmitResumes, PausedMeansResumable, TaskOK, RunOK, Pausing, runVars, history
  <2>14. ASSUME NEW u \in Users, NEW f \in Forms, Submit(u, f)
      PROVE run' = "paused" <=> ~pause'.resumed /\ pause'.object
    BY <2>14, <1>1 DEF Submit, PausedMeansResumable, TaskOK, RunOK, Pausing, runVars, faults,
        history, workerVars
  <2>15. ASSUME NEW f \in Forms, NEW is_global \in BOOLEAN, Scan(f, is_global)
      PROVE run' = "paused" <=> ~pause'.resumed /\ pause'.object
    BY <2>15, <1>1 DEF Scan, PausedMeansResumable, TaskOK, RunOK, Pausing, runVars, faults,
        history, workerVars
  <2>16. CASE mark_timeout
    BY <2>16, <1>1 DEF mark_timeout, PausedMeansResumable, TaskOK, RunOK, Pausing, runVars,
        faults, history, workerVars
  <2>17. CASE TimeoutResumes
    BY <2>17, <1>1 DEF TimeoutResumes, PausedMeansResumable, TaskOK, RunOK, Pausing, runVars,
        history
  <2>18. CASE _handle_global_timeout
    BY <2>18, <1>1 DEF _handle_global_timeout, PausedMeansResumable, TaskOK, RunOK, Pausing,
        NoPause, faults, workerVars
  <2>19. CASE ScannerCrashes
    BY <2>19, <1>1 DEF ScannerCrashes, PausedMeansResumable, TaskOK, RunOK, Pausing, runVars,
        history, workerVars, CountOK
  <2>20. CASE GlobalDeadline
    BY <2>20, <1>1 DEF GlobalDeadline, PausedMeansResumable, TaskOK, RunOK, Pausing, runVars,
        faults, history, workerVars
  <2>21. ASSUME NEW f \in Forms, Expire(f)
      PROVE run' = "paused" <=> ~pause'.resumed /\ pause'.object
    BY <2>21, <1>1 DEF Expire, PausedMeansResumable, TaskOK, RunOK, Pausing, runVars, faults,
        history, workerVars
  <2>22. CASE UNCHANGED vars
    BY <2>22 DEF vars, PausedMeansResumable, TaskOK, RunOK, Pausing, runVars, faults, history,
        workerVars
  <2> QED
    BY <2>1, <2>2, <2>3, <2>4, <2>5, <2>6, <2>7, <2>8, <2>9, <2>10, <2>11, <2>12, <2>13, <2>14,
        <2>15, <2>16, <2>17, <2>18, <2>19, <2>20, <2>21, <2>22 DEF Next, Task, Submission,
        Scanner

LEMMA ResumabilityKept == Spec => []Resumability
<1>1. Init => Resumability
  BY DEF Init, Resumability, HasState, DeletesSpent, PausedMeansResumable, NoPause
<1>2. TypeOK /\ Single /\ Resumability /\ [Next]_vars => Resumability'
  BY TypeParts, HasStateStep, DeletesSpentStep, PausedStep DEF Single, Resumability
<1> QED
  BY <1>1, <1>2, TypeCorrect, SingleExecution, PTL DEF Spec

(* The doc of WorkflowPause: a run in the PAUSED state has a pause not yet *)
(* resumed, whose state can be loaded, and no other run has one.           *)
THEOREM PausedResumable == Spec => []PausedMeansResumable
<1>1. Resumability => PausedMeansResumable
  BY DEF Resumability
<1> QED
  BY <1>1, ResumabilityKept, PTL

(* When the run is stopped, the tasks at work were at work at the stop.    *)
StoppedWorkers == run = "stopped" => \A a \in Workers : pc[a] \in AtWork => a \in atStop

(* No task takes up a stopped run. *)
LEMMA StoppedStep == TaskOK /\ StoppedWorkers /\ [Next]_vars => StoppedWorkers'
<1> SUFFICES ASSUME TaskOK, StoppedWorkers, [Next]_vars PROVE StoppedWorkers'
  OBVIOUS
<1> QED
  <2>1. ASSUME NEW k \in Workers, NEW f \in Forms, RunNode(k, f) PROVE StoppedWorkers'
    BY <2>1 DEF RunNode, StoppedWorkers, TaskOK, AtWork, Executing, runVars
  <2>2. ASSUME NEW k \in Workers, Succeed(k) PROVE StoppedWorkers'
    BY <2>2 DEF Succeed, StoppedWorkers, TaskOK, AtWork, Executing, Goto, AfterRun, history
  <2>3. ASSUME NEW k \in Workers, SavePaused(k) PROVE StoppedWorkers'
    BY <2>3 DEF SavePaused, StoppedWorkers, TaskOK, AtWork, Executing, Goto, history
  <2>4. ASSUME NEW k \in Workers, create_workflow_pause(k) PROVE StoppedWorkers'
    BY <2>4 DEF create_workflow_pause, StoppedWorkers, TaskOK, AtWork, Executing, Goto,
        AfterRun, runVars, history
  <2>5. ASSUME NEW k \in Workers, delete_workflow_pause(k) PROVE StoppedWorkers'
    BY <2>5 DEF delete_workflow_pause, StoppedWorkers, TaskOK, AtWork, Executing, Goto, history
  <2>6. ASSUME NEW k \in Workers, Fetch(k) PROVE StoppedWorkers'
    BY <2>6 DEF Fetch, StoppedWorkers, TaskOK, AtWork, Executing, GiveUp, Goto, runVars
  <2>7. ASSUME NEW k \in Workers, Load(k) PROVE StoppedWorkers'
    BY <2>7 DEF Load, StoppedWorkers, TaskOK, AtWork, Executing, GiveUp, Goto, runVars
  <2>8. ASSUME NEW k \in Workers, resume_workflow_pause(k) PROVE StoppedWorkers'
    BY <2>8 DEF resume_workflow_pause, StoppedWorkers, TaskOK, AtWork, Executing, GiveUp, Goto,
        Resumable, runVars
  <2>9. ASSUME NEW k \in Workers, WriteResumed(k) PROVE StoppedWorkers'
    BY <2>9 DEF WriteResumed, StoppedWorkers, TaskOK, AtWork, Executing, GiveUp, Goto, runVars
  <2>10. ASSUME NEW k \in Workers, Start(k) PROVE StoppedWorkers'
    BY <2>10 DEF Start, StoppedWorkers, TaskOK, AtWork, Executing, Goto, history
  <2>11. ASSUME NEW k \in Workers, Crash(k) PROVE StoppedWorkers'
    BY <2>11 DEF Crash, StoppedWorkers, TaskOK, AtWork, Executing, Goto, runVars, history
  <2>12. ASSUME NEW u \in Users, mark_submitted(u) PROVE StoppedWorkers'
    BY <2>12 DEF mark_submitted, StoppedWorkers, TaskOK, AtWork, Executing, runVars, history,
        workerVars
  <2>13. ASSUME NEW u \in Users, SubmitResumes(u) PROVE StoppedWorkers'
    BY <2>13 DEF SubmitResumes, StoppedWorkers, TaskOK, AtWork, Executing, runVars, history
  <2>14. ASSUME NEW u \in Users, NEW f \in Forms, Submit(u, f) PROVE StoppedWorkers'
    BY <2>14 DEF Submit, StoppedWorkers, TaskOK, AtWork, Executing, runVars, history, workerVars
  <2>15. ASSUME NEW f \in Forms, NEW is_global \in BOOLEAN, Scan(f, is_global) PROVE StoppedWorkers'
    BY <2>15 DEF Scan, StoppedWorkers, TaskOK, AtWork, Executing, runVars, history, workerVars
  <2>16. CASE mark_timeout
    BY <2>16 DEF mark_timeout, StoppedWorkers, TaskOK, AtWork, Executing, runVars, history,
        workerVars
  <2>17. CASE TimeoutResumes
    BY <2>17 DEF TimeoutResumes, StoppedWorkers, TaskOK, AtWork, Executing, runVars, history
  <2>18. CASE _handle_global_timeout
    BY <2>18 DEF _handle_global_timeout, StoppedWorkers, TaskOK, AtWork, Executing, workerVars
  <2>19. CASE ScannerCrashes
    BY <2>19 DEF ScannerCrashes, StoppedWorkers, TaskOK, AtWork, Executing, runVars, history,
        workerVars
  <2>20. CASE GlobalDeadline
    BY <2>20 DEF GlobalDeadline, StoppedWorkers, TaskOK, AtWork, Executing, runVars, history,
        workerVars
  <2>21. ASSUME NEW f \in Forms, Expire(f) PROVE StoppedWorkers'
    BY <2>21 DEF Expire, StoppedWorkers, TaskOK, AtWork, Executing, runVars, history, workerVars
  <2>22. CASE UNCHANGED vars
    BY <2>22 DEF vars, StoppedWorkers, TaskOK, AtWork, Executing, runVars, history, workerVars
  <2> QED
    BY <2>1, <2>2, <2>3, <2>4, <2>5, <2>6, <2>7, <2>8, <2>9, <2>10, <2>11, <2>12, <2>13, <2>14,
        <2>15, <2>16, <2>17, <2>18, <2>19, <2>20, <2>21, <2>22 DEF Next, Task, Submission,
        Scanner

(* A run that the global timeout stopped is only continued by a task that  *)
(* was at work on it at that moment. *)
THEOREM RevivedByRunning == Spec => RevivedOnlyByRunning
<1>1. Init => StoppedWorkers
  BY DEF Init, StoppedWorkers
<1>2. TypeOK /\ StoppedWorkers /\ [Next]_vars => StoppedWorkers'
  BY TypeParts, StoppedStep
<1>3. TypeOK /\ StoppedWorkers /\ [Next]_vars
        => [run = "stopped" /\ run' # "stopped" => \E k \in atStop : pc'[k] # pc[k]]_vars
  <2> SUFFICES ASSUME TypeOK, StoppedWorkers, [Next]_vars, run = "stopped", run' # "stopped"
               PROVE \E k \in atStop : pc'[k] # pc[k]
    OBVIOUS
  <2> QED
    <3>1. ASSUME NEW k \in Workers, NEW f \in Forms, RunNode(k, f)
        PROVE \E x \in atStop : pc'[x] # pc[x]
      BY <3>1, TypeParts DEF RunNode, TaskOK, StoppedWorkers, AtWork, Executing, runVars
    <3>2. ASSUME NEW k \in Workers, Succeed(k) PROVE \E x \in atStop : pc'[x] # pc[x]
      BY <3>2, TypeParts DEF Succeed, TaskOK, StoppedWorkers, AtWork, Executing, Goto,
          AfterRun, history
    <3>3. ASSUME NEW k \in Workers, SavePaused(k) PROVE \E x \in atStop : pc'[x] # pc[x]
      BY <3>3, TypeParts DEF SavePaused, TaskOK, StoppedWorkers, AtWork, Executing, Goto, history
    <3>4. ASSUME NEW k \in Workers, create_workflow_pause(k) PROVE \E x \in atStop : pc'[x] # pc[x]
      BY <3>4, TypeParts DEF create_workflow_pause, TaskOK, StoppedWorkers, AtWork, Executing,
          Goto, AfterRun, runVars, history
    <3>5. ASSUME NEW k \in Workers, delete_workflow_pause(k) PROVE \E x \in atStop : pc'[x] # pc[x]
      BY <3>5, TypeParts DEF delete_workflow_pause, TaskOK, StoppedWorkers, AtWork, Executing,
          Goto, history
    <3>6. ASSUME NEW k \in Workers, Fetch(k) PROVE \E x \in atStop : pc'[x] # pc[x]
      BY <3>6, TypeParts DEF Fetch, TaskOK, StoppedWorkers, AtWork, Executing, GiveUp, Goto, runVars
    <3>7. ASSUME NEW k \in Workers, Load(k) PROVE \E x \in atStop : pc'[x] # pc[x]
      BY <3>7, TypeParts DEF Load, TaskOK, StoppedWorkers, AtWork, Executing, GiveUp, Goto, runVars
    <3>8. ASSUME NEW k \in Workers, resume_workflow_pause(k) PROVE \E x \in atStop : pc'[x] # pc[x]
      BY <3>8, TypeParts DEF resume_workflow_pause, TaskOK, StoppedWorkers, AtWork, Executing,
          GiveUp, Goto, Resumable, runVars
    <3>9. ASSUME NEW k \in Workers, WriteResumed(k) PROVE \E x \in atStop : pc'[x] # pc[x]
      BY <3>9, TypeParts DEF WriteResumed, TaskOK, StoppedWorkers, AtWork, Executing, GiveUp,
          Goto, runVars
    <3>10. ASSUME NEW k \in Workers, Start(k) PROVE \E x \in atStop : pc'[x] # pc[x]
      BY <3>10, TypeParts DEF Start, TaskOK, StoppedWorkers, AtWork, Executing, Goto, history
    <3>11. ASSUME NEW k \in Workers, Crash(k) PROVE \E x \in atStop : pc'[x] # pc[x]
      BY <3>11, TypeParts DEF Crash, TaskOK, StoppedWorkers, AtWork, Executing, Goto, runVars,
          history
    <3>12. ASSUME NEW u \in Users, mark_submitted(u) PROVE \E x \in atStop : pc'[x] # pc[x]
      BY <3>12, TypeParts DEF mark_submitted, TaskOK, StoppedWorkers, AtWork, Executing,
          runVars, history, workerVars
    <3>13. ASSUME NEW u \in Users, SubmitResumes(u) PROVE \E x \in atStop : pc'[x] # pc[x]
      BY <3>13, TypeParts DEF SubmitResumes, TaskOK, StoppedWorkers, AtWork, Executing,
          runVars, history
    <3>14. ASSUME NEW u \in Users, NEW f \in Forms, Submit(u, f)
        PROVE \E x \in atStop : pc'[x] # pc[x]
      BY <3>14, TypeParts DEF Submit, TaskOK, StoppedWorkers, AtWork, Executing, runVars,
          history, workerVars
    <3>15. ASSUME NEW f \in Forms, NEW is_global \in BOOLEAN, Scan(f, is_global)
        PROVE \E x \in atStop : pc'[x] # pc[x]
      BY <3>15, TypeParts DEF Scan, TaskOK, StoppedWorkers, AtWork, Executing, runVars,
          history, workerVars
    <3>16. CASE mark_timeout
      BY <3>16, TypeParts DEF mark_timeout, TaskOK, StoppedWorkers, AtWork, Executing, runVars,
          history, workerVars
    <3>17. CASE TimeoutResumes
      BY <3>17, TypeParts DEF TimeoutResumes, TaskOK, StoppedWorkers, AtWork, Executing,
          runVars, history
    <3>18. CASE _handle_global_timeout
      BY <3>18, TypeParts DEF _handle_global_timeout, TaskOK, StoppedWorkers, AtWork,
          Executing, workerVars
    <3>19. CASE ScannerCrashes
      BY <3>19, TypeParts DEF ScannerCrashes, TaskOK, StoppedWorkers, AtWork, Executing,
          runVars, history, workerVars
    <3>20. CASE GlobalDeadline
      BY <3>20, TypeParts DEF GlobalDeadline, TaskOK, StoppedWorkers, AtWork, Executing,
          runVars, history, workerVars
    <3>21. ASSUME NEW f \in Forms, Expire(f) PROVE \E x \in atStop : pc'[x] # pc[x]
      BY <3>21, TypeParts DEF Expire, TaskOK, StoppedWorkers, AtWork, Executing, runVars,
          history, workerVars
    <3>22. CASE UNCHANGED vars
      BY <3>22 DEF vars, TaskOK, StoppedWorkers, AtWork, Executing, runVars, history, workerVars
    <3> QED
      BY <3>1, <3>2, <3>3, <3>4, <3>5, <3>6, <3>7, <3>8, <3>9, <3>10, <3>11, <3>12, <3>13,
          <3>14, <3>15, <3>16, <3>17, <3>18, <3>19, <3>20, <3>21, <3>22 DEF Next, Task,
          Submission, Scanner
<1> QED
  BY <1>1, <1>2, <1>3, TypeCorrect, PTL DEF Spec, RevivedOnlyByRunning

-----------------------------------------------------------------------------
(* No answer is lost, for any number of forms, workers and users *)

SubmittedAt == \A f \in Forms : status[f] = "submitted" => f \in submitted

(* Somebody will still act on the answer to f, the pause knows of it, or   *)
(* the run is over.                                                        *)
Submitting(f) == \E u \in Users : user[u] = <<"marked", f>>
TimingOut(f) == scan = <<"marked", f, FALSE>>
Resuming == \E a \in Workers : pc[a] \in {"fetched", "loaded", "resuming", "starting"}
Decides(f) ==
    \E a \in Workers : \/ pc[a] = "run" /\ f \in todo[a] \union decided[a]
                       \/ pc[a] = "pausing" /\ f \in decided[a]
Remembered(f) == f \in pause.decided /\ ~pause.resumed
RunOver == run \in Finals /\ \A a \in Workers : pc[a] \notin AtWork

Covered(f) ==
    \/ Submitting(f) \/ TimingOut(f) \/ queued > 0 \/ Resuming
    \/ Decides(f) \/ Remembered(f) \/ RunOver

Undisturbed == ~raced /\ failures = 0 /\ crashes = 0

AnswersCovered ==
    Undisturbed =>
        \A f \in Forms : status[f] \in {"submitted", "timeout"} /\ f \notin early => Covered(f)

LEMMA SubmittedStep == FormOK /\ UserOK /\ ScanOK /\ SubmittedAt /\ [Next]_vars => SubmittedAt'
<1> SUFFICES ASSUME FormOK, UserOK, ScanOK, SubmittedAt, [Next]_vars PROVE SubmittedAt'
  OBVIOUS
<1> QED
  <2>1. ASSUME NEW k \in Workers, NEW f \in Forms, RunNode(k, f) PROVE SubmittedAt'
    BY <2>1 DEF RunNode, runVars, SubmittedAt, FormOK, Created
  <2>2. ASSUME NEW k \in Workers, Succeed(k) PROVE SubmittedAt'
    BY <2>2 DEF Succeed, Goto, AfterRun, history, formVars, SubmittedAt, FormOK, Created
  <2>3. ASSUME NEW k \in Workers, SavePaused(k) PROVE SubmittedAt'
    BY <2>3 DEF SavePaused, Goto, history, formVars, SubmittedAt, FormOK, Created
  <2>4. ASSUME NEW k \in Workers, create_workflow_pause(k) PROVE SubmittedAt'
    BY <2>4 DEF create_workflow_pause, Goto, AfterRun, runVars, history, formVars, SubmittedAt,
       FormOK, Created
  <2>5. ASSUME NEW k \in Workers, delete_workflow_pause(k) PROVE SubmittedAt'
    BY <2>5 DEF delete_workflow_pause, Goto, NoPause, history, formVars, SubmittedAt, FormOK,
       Created
  <2>6. ASSUME NEW k \in Workers, Fetch(k) PROVE SubmittedAt'
    BY <2>6 DEF Fetch, GiveUp, Goto, runVars, formVars, SubmittedAt, FormOK, Created
  <2>7. ASSUME NEW k \in Workers, Load(k) PROVE SubmittedAt'
    BY <2>7 DEF Load, GiveUp, Goto, runVars, formVars, SubmittedAt, FormOK, Created
  <2>8. ASSUME NEW k \in Workers, resume_workflow_pause(k) PROVE SubmittedAt'
    BY <2>8 DEF resume_workflow_pause, Resumable, GiveUp, Goto, runVars, formVars, SubmittedAt,
       FormOK, Created
  <2>9. ASSUME NEW k \in Workers, WriteResumed(k) PROVE SubmittedAt'
    BY <2>9 DEF WriteResumed, GiveUp, Goto, runVars, formVars, SubmittedAt, FormOK, Created
  <2>10. ASSUME NEW k \in Workers, Start(k) PROVE SubmittedAt'
    BY <2>10 DEF Start, Goto, history, formVars, SubmittedAt, FormOK, Created
  <2>11. ASSUME NEW k \in Workers, Crash(k) PROVE SubmittedAt'
    BY <2>11 DEF Crash, Goto, runVars, history, formVars, SubmittedAt, FormOK, Created
  <2>12. ASSUME NEW u \in Users, mark_submitted(u) PROVE SubmittedAt'
    BY <2>12 DEF mark_submitted, runVars, history, workerVars, SubmittedAt, FormOK, Created
  <2>13. ASSUME NEW u \in Users, SubmitResumes(u) PROVE SubmittedAt'
    BY <2>13 DEF SubmitResumes, enqueue_resume, runVars, history, formVars, SubmittedAt, FormOK,
       Created
  <2>14. ASSUME NEW u \in Users, NEW f \in Forms, Submit(u, f) PROVE SubmittedAt'
    BY <2>14 DEF Submit, runVars, history, workerVars, formVars, SubmittedAt, FormOK, Created
  <2>15. ASSUME NEW f \in Forms, NEW is_global \in BOOLEAN, Scan(f, is_global) PROVE SubmittedAt'
    BY <2>15 DEF Scan, Idle, runVars, history, workerVars, formVars, SubmittedAt, FormOK, Created
  <2>16. CASE mark_timeout
    BY <2>16 DEF mark_timeout, runVars, history, workerVars, SubmittedAt, FormOK, Created
  <2>17. CASE TimeoutResumes
    BY <2>17 DEF TimeoutResumes, enqueue_resume, runVars, history, formVars, SubmittedAt, FormOK,
       Created
  <2>18. CASE _handle_global_timeout
    BY <2>18 DEF _handle_global_timeout, workerVars, formVars, SubmittedAt, FormOK, Created
  <2>19. CASE ScannerCrashes
    BY <2>19 DEF ScannerCrashes, runVars, history, workerVars, formVars, SubmittedAt, FormOK,
       Created
  <2>20. CASE GlobalDeadline
    BY <2>20 DEF GlobalDeadline, runVars, history, workerVars, formVars, SubmittedAt, FormOK,
       Created
  <2>21. ASSUME NEW f \in Forms, Expire(f) PROVE SubmittedAt'
    BY <2>21 DEF Expire, runVars, history, workerVars, formVars, SubmittedAt, FormOK, Created
  <2>22. CASE UNCHANGED vars
    BY <2>22 DEF vars, runVars, formVars, history, workerVars, SubmittedAt, FormOK, Created
  <2> QED
    BY <2>1, <2>2, <2>3, <2>4, <2>5, <2>6, <2>7, <2>8, <2>9, <2>10, <2>11, <2>12, <2>13, <2>14,
       <2>15, <2>16, <2>17, <2>18, <2>19, <2>20, <2>21, <2>22 DEF Next, Task, Submission, Scanner

(* Failures and crashes are counted. *)
LEMMA DisturbedStays == CountOK /\ [Next]_vars /\ Undisturbed' => Undisturbed
<1> SUFFICES ASSUME CountOK, [Next]_vars, ~Undisturbed PROVE ~Undisturbed'
  OBVIOUS
<1>1. raced => raced'
  BY RacedStays
<1>2. failures \in Nat /\ crashes \in Nat /\ failures' >= failures /\ crashes' >= crashes
  <2> SUFFICES failures' >= failures /\ crashes' >= crashes
    BY PauseResumeConstants DEF CountOK
  <2>1. ASSUME NEW k \in Workers, NEW f \in Forms, RunNode(k, f) PROVE failures' >= failures /\ crashes' >= crashes
    BY <2>1 DEF RunNode, runVars, faults, CountOK
  <2>2. ASSUME NEW k \in Workers, Succeed(k) PROVE failures' >= failures /\ crashes' >= crashes
    BY <2>2 DEF Succeed, Goto, AfterRun, history, formVars, faults, CountOK
  <2>3. ASSUME NEW k \in Workers, SavePaused(k) PROVE failures' >= failures /\ crashes' >= crashes
    BY <2>3 DEF SavePaused, Goto, history, formVars, faults, CountOK
  <2>4. ASSUME NEW k \in Workers, create_workflow_pause(k) PROVE failures' >= failures /\ crashes' >= crashes
    BY <2>4 DEF create_workflow_pause, Goto, AfterRun, runVars, history, formVars, faults, CountOK
  <2>5. ASSUME NEW k \in Workers, delete_workflow_pause(k) PROVE failures' >= failures /\ crashes' >= crashes
    BY <2>5 DEF delete_workflow_pause, Goto, NoPause, history, formVars, faults, CountOK
  <2>6. ASSUME NEW k \in Workers, Fetch(k) PROVE failures' >= failures /\ crashes' >= crashes
    BY <2>6 DEF Fetch, GiveUp, Goto, runVars, formVars, faults, CountOK
  <2>7. ASSUME NEW k \in Workers, Load(k) PROVE failures' >= failures /\ crashes' >= crashes
    BY <2>7 DEF Load, GiveUp, Goto, runVars, formVars, faults, CountOK
  <2>8. ASSUME NEW k \in Workers, resume_workflow_pause(k) PROVE failures' >= failures /\ crashes' >= crashes
    BY <2>8 DEF resume_workflow_pause, Resumable, GiveUp, Goto, runVars, formVars, faults, CountOK
  <2>9. ASSUME NEW k \in Workers, WriteResumed(k) PROVE failures' >= failures /\ crashes' >= crashes
    BY <2>9 DEF WriteResumed, GiveUp, Goto, runVars, formVars, faults, CountOK
  <2>10. ASSUME NEW k \in Workers, Start(k) PROVE failures' >= failures /\ crashes' >= crashes
    BY <2>10 DEF Start, Goto, history, formVars, faults, CountOK
  <2>11. ASSUME NEW k \in Workers, Crash(k) PROVE failures' >= failures /\ crashes' >= crashes
    BY <2>11 DEF Crash, Goto, runVars, history, formVars, faults, CountOK
  <2>12. ASSUME NEW u \in Users, mark_submitted(u) PROVE failures' >= failures /\ crashes' >= crashes
    BY <2>12 DEF mark_submitted, runVars, history, workerVars, faults, CountOK
  <2>13. ASSUME NEW u \in Users, SubmitResumes(u) PROVE failures' >= failures /\ crashes' >= crashes
    BY <2>13 DEF SubmitResumes, enqueue_resume, runVars, history, formVars, faults, CountOK
  <2>14. ASSUME NEW u \in Users, NEW f \in Forms, Submit(u, f) PROVE failures' >= failures /\ crashes' >= crashes
    BY <2>14 DEF Submit, runVars, history, workerVars, formVars, faults, CountOK
  <2>15. ASSUME NEW f \in Forms, NEW is_global \in BOOLEAN, Scan(f, is_global) PROVE failures' >= failures /\ crashes' >= crashes
    BY <2>15 DEF Scan, Idle, runVars, history, workerVars, formVars, faults, CountOK
  <2>16. CASE mark_timeout
    BY <2>16 DEF mark_timeout, runVars, history, workerVars, faults, CountOK
  <2>17. CASE TimeoutResumes
    BY <2>17 DEF TimeoutResumes, enqueue_resume, runVars, history, formVars, faults, CountOK
  <2>18. CASE _handle_global_timeout
    BY <2>18 DEF _handle_global_timeout, workerVars, formVars, faults, CountOK
  <2>19. CASE ScannerCrashes
    BY <2>19 DEF ScannerCrashes, runVars, history, workerVars, formVars, faults, CountOK
  <2>20. CASE GlobalDeadline
    BY <2>20 DEF GlobalDeadline, runVars, history, workerVars, formVars, faults, CountOK
  <2>21. ASSUME NEW f \in Forms, Expire(f) PROVE failures' >= failures /\ crashes' >= crashes
    BY <2>21 DEF Expire, runVars, history, workerVars, formVars, faults, CountOK
  <2>22. CASE UNCHANGED vars
    BY <2>22 DEF vars, runVars, formVars, history, workerVars, faults, CountOK
  <2> QED
    BY <2>1, <2>2, <2>3, <2>4, <2>5, <2>6, <2>7, <2>8, <2>9, <2>10, <2>11, <2>12, <2>13, <2>14,
       <2>15, <2>16, <2>17, <2>18, <2>19, <2>20, <2>21, <2>22 DEF Next, Task, Submission, Scanner
<1> QED
  BY <1>1, <1>2 DEF Undisturbed, CountOK

(* Somebody goes on acting on an answer, until it is decided. *)
LEMMA CoveredStep ==
    TypeOK /\ Single /\ DeletesSpent /\ SubmittedAt /\ AnswersCovered /\ [Next]_vars => AnswersCovered'
<1> SUFFICES ASSUME TypeOK, Single, DeletesSpent, SubmittedAt, AnswersCovered, [Next]_vars,
                    Undisturbed', NEW g \in Forms, status'[g] \in {"submitted", "timeout"}, g \notin early'
             PROVE  Covered(g)'
  BY DEF AnswersCovered
<1>1. /\ Undisturbed /\ RunOK /\ FormOK /\ TaskOK /\ EngineOK /\ UserOK /\ ScanOK /\ CountOK
      /\ ~raced /\ failures = 0 /\ crashes = 0 /\ failures' = 0 /\ crashes' = 0
      /\ \A a, b \in Workers : pc[a] \in AtWork /\ pc[b] \in AtWork => a = b
      /\ \A a \in Workers : pc[a] \in Executing => pause.resumed
      /\ \A a \in Workers : pc[a] = "deleting" /\ entity[a] = pause.id => pause.resumed
  BY TypeParts, DisturbedStays DEF Undisturbed, Single, Alone, Spent, DeletesSpent
<1>2. status[g] \in {"submitted", "timeout"} /\ g \notin early => Covered(g)
  BY <1>1 DEF AnswersCovered
<1>3. status[g] = "submitted" => g \in submitted
  BY DEF SubmittedAt
<1> QED
  <2>1. ASSUME NEW k \in Workers, NEW f \in Forms, RunNode(k, f) PROVE Covered(g)'
    <3>1. \/ Submitting(g) \/ TimingOut(g) \/ queued > 0 \/ Resuming
          \/ Decides(g) \/ Remembered(g) \/ RunOver
      BY <2>1, <1>1, <1>2 DEF Covered, RunNode, runVars, FormOK
    <3>2. CASE Submitting(g)
      BY <2>1, <1>1, <1>3, <3>2 DEF RunNode, runVars, UserOK, CountOK, Covered, Submitting
    <3>3. CASE TimingOut(g)
      BY <2>1, <1>1, <1>3, <3>3 DEF RunNode, runVars, ScanOK, CountOK, Covered, TimingOut
    <3>4. CASE queued > 0
      BY <2>1, <1>1, <1>3, <3>4 DEF RunNode, runVars, CountOK, TaskOK, Answered, FormOK, Covered,
         Resuming
    <3>5. CASE Resuming
      BY <2>1, <1>1, <1>3, <3>5 DEF RunNode, runVars, TaskOK, Answered, FormOK, Covered, Resuming
    <3>6. CASE Decides(g)
      BY <2>1, <1>1, <1>3, <3>6 DEF RunNode, runVars, TaskOK, EngineOK, AtWork, Executing, Over,
         Finals, RunOK, NoPause, Covered, Decides, RunOver, Remembered, Resuming
    <3>7. CASE Remembered(g)
      BY <2>1, <1>1, <1>3, <3>7 DEF RunNode, runVars, TaskOK, AtWork, Executing, RunOK, NoPause,
         Finals, Covered, Remembered, RunOver
    <3>8. CASE RunOver
      BY <2>1, <1>1, <1>3, <3>8 DEF RunNode, runVars, TaskOK, AtWork, Executing, Finals, Covered,
         RunOver, Resuming, Decides
    <3> QED
      BY <3>1, <3>2, <3>3, <3>4, <3>5, <3>6, <3>7, <3>8
  <2>2. ASSUME NEW k \in Workers, Succeed(k) PROVE Covered(g)'
    BY <2>2, <1>1, <1>2 DEF Succeed, Goto, AfterRun, history, formVars, Covered, Submitting,
       TimingOut, Resuming, Decides, Remembered, RunOver, AtWork, Executing, TaskOK, EngineOK,
       FormOK, RunOK, Finals
  <2>3. ASSUME NEW k \in Workers, SavePaused(k) PROVE Covered(g)'
    BY <2>3, <1>1, <1>2 DEF SavePaused, Goto, history, formVars, Covered, Submitting, TimingOut,
       Resuming, Decides, Remembered, RunOver, AtWork, Executing, TaskOK, EngineOK, FormOK, RunOK,
       Finals
  <2>4. ASSUME NEW k \in Workers, create_workflow_pause(k) PROVE Covered(g)'
    <3>1. \/ Submitting(g) \/ TimingOut(g) \/ queued > 0 \/ Resuming
          \/ Decides(g) \/ Remembered(g) \/ RunOver
      BY <2>4, <1>1, <1>2 DEF Covered, create_workflow_pause, Goto, AfterRun, runVars, history,
         formVars, FormOK
    <3>2. CASE Submitting(g)
      BY <2>4, <1>1, <1>3, <3>2 DEF create_workflow_pause, Goto, AfterRun, runVars, history,
         formVars, UserOK, CountOK, Covered, Submitting
    <3>3. CASE TimingOut(g)
      BY <2>4, <1>1, <1>3, <3>3 DEF create_workflow_pause, Goto, AfterRun, runVars, history,
         formVars, ScanOK, CountOK, Covered, TimingOut
    <3>4. CASE queued > 0
      BY <2>4, <1>1, <1>3, <3>4 DEF create_workflow_pause, Goto, AfterRun, runVars, history,
         formVars, CountOK, TaskOK, Answered, FormOK, Covered, Resuming
    <3>5. CASE Resuming
      BY <2>4, <1>1, <1>3, <3>5 DEF create_workflow_pause, Goto, AfterRun, runVars, history,
         formVars, TaskOK, Answered, FormOK, Covered, Resuming
    <3>6. CASE Decides(g)
      BY <2>4, <1>1, <1>3, <3>6 DEF create_workflow_pause, Goto, AfterRun, runVars, history,
         formVars, TaskOK, EngineOK, AtWork, Executing, Over, Finals, RunOK, NoPause, Covered,
         Decides, RunOver, Remembered, Resuming
    <3>7. CASE Remembered(g)
      BY <2>4, <1>1, <1>3, <3>7 DEF create_workflow_pause, Goto, AfterRun, runVars, history,
         formVars, TaskOK, AtWork, Executing, RunOK, NoPause, Finals, Covered, Remembered, RunOver
    <3>8. CASE RunOver
      BY <2>4, <1>1, <1>3, <3>8 DEF create_workflow_pause, Goto, AfterRun, runVars, history,
         formVars, TaskOK, AtWork, Executing, Finals, Covered, RunOver, Resuming, Decides
    <3> QED
      BY <3>1, <3>2, <3>3, <3>4, <3>5, <3>6, <3>7, <3>8
  <2>5. ASSUME NEW k \in Workers, delete_workflow_pause(k) PROVE Covered(g)'
    BY <2>5, <1>1, <1>2 DEF delete_workflow_pause, Goto, NoPause, history, formVars, Covered,
       Submitting, TimingOut, Resuming, Decides, Remembered, RunOver, AtWork, Executing, TaskOK,
       EngineOK, FormOK, RunOK, Finals
  <2>6. ASSUME NEW k \in Workers, Fetch(k) PROVE Covered(g)'
    <3>1. \/ Submitting(g) \/ TimingOut(g) \/ queued > 0 \/ Resuming
          \/ Decides(g) \/ Remembered(g) \/ RunOver
      BY <2>6, <1>1, <1>2 DEF Covered, Fetch, GiveUp, Goto, runVars, formVars, FormOK
    <3>2. CASE Submitting(g)
      BY <2>6, <1>1, <1>3, <3>2 DEF Fetch, GiveUp, Goto, runVars, formVars, UserOK, CountOK,
         Covered, Submitting
    <3>3. CASE TimingOut(g)
      BY <2>6, <1>1, <1>3, <3>3 DEF Fetch, GiveUp, Goto, runVars, formVars, ScanOK, CountOK,
         Covered, TimingOut
    <3>4. CASE queued > 0
      BY <2>6, <1>1, <1>3, <3>4 DEF Fetch, GiveUp, Goto, runVars, formVars, CountOK, TaskOK,
         Answered, FormOK, Covered, Resuming
    <3>5. CASE Resuming
      BY <2>6, <1>1, <1>3, <3>5 DEF Fetch, GiveUp, Goto, runVars, formVars, TaskOK, Answered,
         FormOK, Covered, Resuming
    <3>6. CASE Decides(g)
      BY <2>6, <1>1, <1>3, <3>6 DEF Fetch, GiveUp, Goto, runVars, formVars, TaskOK, EngineOK,
         AtWork, Executing, Over, Finals, RunOK, NoPause, Covered, Decides, RunOver, Remembered,
         Resuming
    <3>7. CASE Remembered(g)
      BY <2>6, <1>1, <1>3, <3>7 DEF Fetch, GiveUp, Goto, runVars, formVars, TaskOK, AtWork,
         Executing, RunOK, NoPause, Finals, Covered, Remembered, RunOver
    <3>8. CASE RunOver
      BY <2>6, <1>1, <1>3, <3>8 DEF Fetch, GiveUp, Goto, runVars, formVars, TaskOK, AtWork,
         Executing, Finals, Covered, RunOver, Resuming, Decides
    <3> QED
      BY <3>1, <3>2, <3>3, <3>4, <3>5, <3>6, <3>7, <3>8
  <2>7. ASSUME NEW k \in Workers, Load(k) PROVE Covered(g)'
    <3>1. \/ Submitting(g) \/ TimingOut(g) \/ queued > 0 \/ Resuming
          \/ Decides(g) \/ Remembered(g) \/ RunOver
      BY <2>7, <1>1, <1>2 DEF Covered, Load, GiveUp, Goto, runVars, formVars, FormOK
    <3>2. CASE Submitting(g)
      BY <2>7, <1>1, <1>3, <3>2 DEF Load, GiveUp, Goto, runVars, formVars, UserOK, CountOK,
         Covered, Submitting
    <3>3. CASE TimingOut(g)
      BY <2>7, <1>1, <1>3, <3>3 DEF Load, GiveUp, Goto, runVars, formVars, ScanOK, CountOK,
         Covered, TimingOut
    <3>4. CASE queued > 0
      BY <2>7, <1>1, <1>3, <3>4 DEF Load, GiveUp, Goto, runVars, formVars, CountOK, TaskOK,
         Answered, FormOK, Covered, Resuming
    <3>5. CASE Resuming
      BY <2>7, <1>1, <1>3, <3>5 DEF Load, GiveUp, Goto, runVars, formVars, TaskOK, Answered,
         FormOK, Covered, Resuming
    <3>6. CASE Decides(g)
      BY <2>7, <1>1, <1>3, <3>6 DEF Load, GiveUp, Goto, runVars, formVars, TaskOK, EngineOK,
         AtWork, Executing, Over, Finals, RunOK, NoPause, Covered, Decides, RunOver, Remembered,
         Resuming
    <3>7. CASE Remembered(g)
      BY <2>7, <1>1, <1>3, <3>7 DEF Load, GiveUp, Goto, runVars, formVars, TaskOK, AtWork,
         Executing, RunOK, NoPause, Finals, Covered, Remembered, RunOver
    <3>8. CASE RunOver
      BY <2>7, <1>1, <1>3, <3>8 DEF Load, GiveUp, Goto, runVars, formVars, TaskOK, AtWork,
         Executing, Finals, Covered, RunOver, Resuming, Decides
    <3> QED
      BY <3>1, <3>2, <3>3, <3>4, <3>5, <3>6, <3>7, <3>8
  <2>8. ASSUME NEW k \in Workers, resume_workflow_pause(k) PROVE Covered(g)'
    <3>1. \/ Submitting(g) \/ TimingOut(g) \/ queued > 0 \/ Resuming
          \/ Decides(g) \/ Remembered(g) \/ RunOver
      BY <2>8, <1>1, <1>2 DEF Covered, resume_workflow_pause, Resumable, GiveUp, Goto, runVars,
         formVars, FormOK
    <3>2. CASE Submitting(g)
      BY <2>8, <1>1, <1>3, <3>2 DEF resume_workflow_pause, Resumable, GiveUp, Goto, runVars,
         formVars, UserOK, CountOK, Covered, Submitting
    <3>3. CASE TimingOut(g)
      BY <2>8, <1>1, <1>3, <3>3 DEF resume_workflow_pause, Resumable, GiveUp, Goto, runVars,
         formVars, ScanOK, CountOK, Covered, TimingOut
    <3>4. CASE queued > 0
      BY <2>8, <1>1, <1>3, <3>4 DEF resume_workflow_pause, Resumable, GiveUp, Goto, runVars,
         formVars, CountOK, TaskOK, Answered, FormOK, Covered, Resuming
    <3>5. CASE Resuming
      BY <2>8, <1>1, <1>3, <3>5 DEF resume_workflow_pause, Resumable, GiveUp, Goto, runVars,
         formVars, TaskOK, Answered, FormOK, Covered, Resuming
    <3>6. CASE Decides(g)
      BY <2>8, <1>1, <1>3, <3>6 DEF resume_workflow_pause, Resumable, GiveUp, Goto, runVars,
         formVars, TaskOK, EngineOK, AtWork, Executing, Over, Finals, RunOK, NoPause, Covered,
         Decides, RunOver, Remembered, Resuming
    <3>7. CASE Remembered(g)
      BY <2>8, <1>1, <1>3, <3>7 DEF resume_workflow_pause, Resumable, GiveUp, Goto, runVars,
         formVars, TaskOK, AtWork, Executing, RunOK, NoPause, Finals, Covered, Remembered, RunOver
    <3>8. CASE RunOver
      BY <2>8, <1>1, <1>3, <3>8 DEF resume_workflow_pause, Resumable, GiveUp, Goto, runVars,
         formVars, TaskOK, AtWork, Executing, Finals, Covered, RunOver, Resuming, Decides
    <3> QED
      BY <3>1, <3>2, <3>3, <3>4, <3>5, <3>6, <3>7, <3>8
  <2>9. ASSUME NEW k \in Workers, WriteResumed(k) PROVE Covered(g)'
    <3>1. \/ Submitting(g) \/ TimingOut(g) \/ queued > 0 \/ Resuming
          \/ Decides(g) \/ Remembered(g) \/ RunOver
      BY <2>9, <1>1, <1>2 DEF Covered, WriteResumed, GiveUp, Goto, runVars, formVars, FormOK
    <3>2. CASE Submitting(g)
      BY <2>9, <1>1, <1>3, <3>2 DEF WriteResumed, GiveUp, Goto, runVars, formVars, UserOK,
         CountOK, Covered, Submitting
    <3>3. CASE TimingOut(g)
      BY <2>9, <1>1, <1>3, <3>3 DEF WriteResumed, GiveUp, Goto, runVars, formVars, ScanOK,
         CountOK, Covered, TimingOut
    <3>4. CASE queued > 0
      BY <2>9, <1>1, <1>3, <3>4 DEF WriteResumed, GiveUp, Goto, runVars, formVars, CountOK,
         TaskOK, Answered, FormOK, Covered, Resuming
    <3>5. CASE Resuming
      BY <2>9, <1>1, <1>3, <3>5 DEF WriteResumed, GiveUp, Goto, runVars, formVars, TaskOK,
         Answered, FormOK, Covered, Resuming
    <3>6. CASE Decides(g)
      BY <2>9, <1>1, <1>3, <3>6 DEF WriteResumed, GiveUp, Goto, runVars, formVars, TaskOK,
         EngineOK, AtWork, Executing, Over, Finals, RunOK, NoPause, Covered, Decides, RunOver,
         Remembered, Resuming
    <3>7. CASE Remembered(g)
      BY <2>9, <1>1, <1>3, <3>7 DEF WriteResumed, GiveUp, Goto, runVars, formVars, TaskOK, AtWork,
         Executing, RunOK, NoPause, Finals, Covered, Remembered, RunOver, Resuming
    <3>8. CASE RunOver
      BY <2>9, <1>1, <1>3, <3>8 DEF WriteResumed, GiveUp, Goto, runVars, formVars, TaskOK, AtWork,
         Executing, Finals, Covered, RunOver, Resuming, Decides
    <3> QED
      BY <3>1, <3>2, <3>3, <3>4, <3>5, <3>6, <3>7, <3>8
  <2>10. ASSUME NEW k \in Workers, Start(k) PROVE Covered(g)'
    BY <2>10, <1>1, <1>2 DEF Start, Goto, history, formVars, Covered, Submitting, TimingOut,
       Resuming, Decides, Remembered, RunOver, AtWork, Executing, TaskOK, EngineOK, FormOK, RunOK,
       Finals
  <2>11. ASSUME NEW k \in Workers, Crash(k) PROVE Covered(g)'
    BY <2>11, <1>1, <1>2 DEF Crash, Goto, runVars, history, formVars, Covered, Submitting,
       TimingOut, Resuming, Decides, Remembered, RunOver, AtWork, Executing, TaskOK, EngineOK,
       FormOK, RunOK, Finals
  <2>12. ASSUME NEW u \in Users, mark_submitted(u) PROVE Covered(g)'
    <3>1. user[u] \in {"new", "active", "marked", "done"} \X (Forms \union {NoForm}) /\ user[u][1] = "active"
          /\ user[u][2] \in Forms
      BY <2>12, <1>1 DEF mark_submitted, UserOK, Created
    <3>2. CASE g = user[u][2]
      <4>1. user'[u] = <<"marked", g>>
        BY <2>12, <1>1, <3>1, <3>2 DEF mark_submitted, UserOK
      <4> QED
        BY <4>1 DEF Covered, Submitting, TimingOut
    <3>3. CASE g # user[u][2]
      <4>1. Covered(g)
        BY <2>12, <1>1, <1>2, <3>1, <3>3 DEF mark_submitted, FormOK, history
      <4>2. ASSUME NEW v \in Users, user[v] = <<"marked", g>> PROVE user'[v] = <<"marked", g>>
        BY <2>12, <1>1, <3>1, <4>2 DEF mark_submitted, UserOK
      <4> QED
        BY <2>12, <4>1, <4>2 DEF mark_submitted, runVars, history, workerVars, Covered,
           Submitting, TimingOut, Resuming, Decides, Remembered, RunOver
    <3> QED
      BY <3>2, <3>3
  <2>13. ASSUME NEW u \in Users, SubmitResumes(u) PROVE Covered(g)'
    <3>1. \/ Submitting(g) \/ TimingOut(g) \/ queued > 0 \/ Resuming
          \/ Decides(g) \/ Remembered(g) \/ RunOver
      BY <2>13, <1>1, <1>2 DEF Covered, SubmitResumes, enqueue_resume, runVars, history, formVars,
         FormOK
    <3>2. CASE Submitting(g)
      BY <2>13, <1>1, <1>3, <3>2 DEF SubmitResumes, enqueue_resume, runVars, history, formVars,
         UserOK, CountOK, Covered, Submitting, Resuming
    <3>3. CASE TimingOut(g)
      BY <2>13, <1>1, <1>3, <3>3 DEF SubmitResumes, enqueue_resume, runVars, history, formVars,
         ScanOK, CountOK, Covered, TimingOut
    <3>4. CASE queued > 0
      BY <2>13, <1>1, <1>3, <3>4 DEF SubmitResumes, enqueue_resume, runVars, history, formVars,
         CountOK, TaskOK, Answered, FormOK, Covered, Resuming
    <3>5. CASE Resuming
      BY <2>13, <1>1, <1>3, <3>5 DEF SubmitResumes, enqueue_resume, runVars, history, formVars,
         TaskOK, Answered, FormOK, Covered, Resuming
    <3>6. CASE Decides(g)
      BY <2>13, <1>1, <1>3, <3>6 DEF SubmitResumes, enqueue_resume, runVars, history, formVars,
         TaskOK, EngineOK, AtWork, Executing, Over, Finals, RunOK, NoPause, Covered, Decides,
         RunOver, Remembered, Resuming
    <3>7. CASE Remembered(g)
      BY <2>13, <1>1, <1>3, <3>7 DEF SubmitResumes, enqueue_resume, runVars, history, formVars,
         TaskOK, AtWork, Executing, RunOK, NoPause, Finals, Covered, Remembered, RunOver
    <3>8. CASE RunOver
      BY <2>13, <1>1, <1>3, <3>8 DEF SubmitResumes, enqueue_resume, runVars, history, formVars,
         TaskOK, AtWork, Executing, Finals, Covered, RunOver, Resuming, Decides
    <3> QED
      BY <3>1, <3>2, <3>3, <3>4, <3>5, <3>6, <3>7, <3>8
  <2>14. ASSUME NEW u \in Users, NEW f \in Forms, Submit(u, f) PROVE Covered(g)'
    <3>1. \/ Submitting(g) \/ TimingOut(g) \/ queued > 0 \/ Resuming
          \/ Decides(g) \/ Remembered(g) \/ RunOver
      BY <2>14, <1>1, <1>2 DEF Covered, Submit, runVars, history, workerVars, formVars, FormOK
    <3>2. CASE Submitting(g)
      BY <2>14, <1>1, <1>3, <3>2 DEF Submit, runVars, history, workerVars, formVars, UserOK,
         CountOK, Covered, Submitting
    <3>3. CASE TimingOut(g)
      BY <2>14, <1>1, <1>3, <3>3 DEF Submit, runVars, history, workerVars, formVars, ScanOK,
         CountOK, Covered, TimingOut
    <3>4. CASE queued > 0
      BY <2>14, <1>1, <1>3, <3>4 DEF Submit, runVars, history, workerVars, formVars, CountOK,
         TaskOK, Answered, FormOK, Covered, Resuming
    <3>5. CASE Resuming
      BY <2>14, <1>1, <1>3, <3>5 DEF Submit, runVars, history, workerVars, formVars, TaskOK,
         Answered, FormOK, Covered, Resuming
    <3>6. CASE Decides(g)
      BY <2>14, <1>1, <1>3, <3>6 DEF Submit, runVars, history, workerVars, formVars, TaskOK,
         EngineOK, AtWork, Executing, Over, Finals, RunOK, NoPause, Covered, Decides, RunOver,
         Remembered, Resuming
    <3>7. CASE Remembered(g)
      BY <2>14, <1>1, <1>3, <3>7 DEF Submit, runVars, history, workerVars, formVars, TaskOK,
         AtWork, Executing, RunOK, NoPause, Finals, Covered, Remembered, RunOver
    <3>8. CASE RunOver
      BY <2>14, <1>1, <1>3, <3>8 DEF Submit, runVars, history, workerVars, formVars, TaskOK,
         AtWork, Executing, Finals, Covered, RunOver, Resuming, Decides
    <3> QED
      BY <3>1, <3>2, <3>3, <3>4, <3>5, <3>6, <3>7, <3>8
  <2>15. ASSUME NEW f \in Forms, NEW is_global \in BOOLEAN, Scan(f, is_global) PROVE Covered(g)'
    BY <2>15, <1>1, <1>2 DEF Scan, Idle, runVars, history, workerVars, formVars, Covered,
       Submitting, TimingOut, Resuming, Decides, Remembered, RunOver, AtWork, Executing, TaskOK,
       EngineOK, FormOK, RunOK, Finals
  <2>16. CASE mark_timeout
    <3>1. scan \in {"idle", "marking", "marked"} \X (Forms \union {NoForm}) \X BOOLEAN /\ scan[1] = "marking"
          /\ scan[2] \in Forms
      BY <2>16, <1>1 DEF mark_timeout, ScanOK, Created
    <3>2. CASE g = scan[2]
      <4>1. scan[3] = FALSE
        BY <2>16, <1>1, <3>1, <3>2 DEF mark_timeout, FormOK
      <4>2. scan' = <<"marked", scan[2], scan[3]>>
        BY <2>16, <3>1 DEF mark_timeout
      <4>3. scan' = <<"marked", g, FALSE>>
        BY <3>2, <4>1, <4>2
      <4> QED
        BY <4>3 DEF Covered, TimingOut
    <3>3. CASE g # scan[2]
      <4>1. status'[g] = status[g] /\ early' = early
        BY <2>16, <1>1, <3>1, <3>3 DEF mark_timeout, FormOK, history
      <4>2. Covered(g) /\ ~TimingOut(g)
        <5>1. <<"marked", g, FALSE>>[1] = "marked"
          OBVIOUS
        <5>2. ~TimingOut(g)
          BY <3>1, <5>1 DEF TimingOut
        <5> QED
          BY <1>2, <4>1, <5>2
      <4> QED
        BY <2>16, <4>2 DEF mark_timeout, runVars, history, workerVars, Covered, Submitting,
           TimingOut, Resuming, Decides, Remembered, RunOver
    <3> QED
      BY <3>2, <3>3
  <2>17. CASE TimeoutResumes
    <3>1. \/ Submitting(g) \/ TimingOut(g) \/ queued > 0 \/ Resuming
          \/ Decides(g) \/ Remembered(g) \/ RunOver
      BY <2>17, <1>1, <1>2 DEF Covered, TimeoutResumes, enqueue_resume, runVars, history,
         formVars, FormOK
    <3>2. CASE Submitting(g)
      BY <2>17, <1>1, <1>3, <3>2 DEF TimeoutResumes, enqueue_resume, runVars, history, formVars,
         UserOK, CountOK, Covered, Submitting
    <3>3. CASE TimingOut(g)
      <4>1. queued \in Nat /\ failures' = 0 /\ failures = 0
        BY <1>1 DEF CountOK
      <4>2. queued' > 0
        BY <2>17, <4>1 DEF TimeoutResumes, enqueue_resume
      <4> QED
        BY <4>2 DEF Covered
    <3>4. CASE queued > 0
      BY <2>17, <1>1, <1>3, <3>4 DEF TimeoutResumes, enqueue_resume, runVars, history, formVars,
         CountOK, TaskOK, Answered, FormOK, Covered, Resuming
    <3>5. CASE Resuming
      BY <2>17, <1>1, <1>3, <3>5 DEF TimeoutResumes, enqueue_resume, runVars, history, formVars,
         TaskOK, Answered, FormOK, Covered, Resuming
    <3>6. CASE Decides(g)
      BY <2>17, <1>1, <1>3, <3>6 DEF TimeoutResumes, enqueue_resume, runVars, history, formVars,
         TaskOK, EngineOK, AtWork, Executing, Over, Finals, RunOK, NoPause, Covered, Decides,
         RunOver, Remembered, Resuming
    <3>7. CASE Remembered(g)
      BY <2>17, <1>1, <1>3, <3>7 DEF TimeoutResumes, enqueue_resume, runVars, history, formVars,
         TaskOK, AtWork, Executing, RunOK, NoPause, Finals, Covered, Remembered, RunOver
    <3>8. CASE RunOver
      BY <2>17, <1>1, <1>3, <3>8 DEF TimeoutResumes, enqueue_resume, runVars, history, formVars,
         TaskOK, AtWork, Executing, Finals, Covered, RunOver, Resuming, Decides
    <3> QED
      BY <3>1, <3>2, <3>3, <3>4, <3>5, <3>6, <3>7, <3>8
  <2>18. CASE _handle_global_timeout
    <3>1. \/ Submitting(g) \/ TimingOut(g) \/ queued > 0 \/ Resuming
          \/ Decides(g) \/ Remembered(g) \/ RunOver
      BY <2>18, <1>1, <1>2 DEF Covered, _handle_global_timeout, workerVars, formVars, FormOK
    <3>2. CASE Submitting(g)
      BY <2>18, <1>1, <1>3, <3>2 DEF _handle_global_timeout, workerVars, formVars, UserOK,
         CountOK, Covered, Submitting
    <3>3. CASE TimingOut(g)
      BY <2>18, <1>1, <1>3, <3>3 DEF _handle_global_timeout, workerVars, formVars, ScanOK,
         CountOK, Covered, TimingOut
    <3>4. CASE queued > 0
      BY <2>18, <1>1, <1>3, <3>4 DEF _handle_global_timeout, workerVars, formVars, CountOK,
         TaskOK, Answered, FormOK, Covered, Resuming
    <3>5. CASE Resuming
      BY <2>18, <1>1, <1>3, <3>5 DEF _handle_global_timeout, workerVars, formVars, TaskOK,
         Answered, FormOK, Covered, Resuming
    <3>6. CASE Decides(g)
      BY <2>18, <1>1, <1>3, <3>6 DEF _handle_global_timeout, workerVars, formVars, TaskOK,
         EngineOK, AtWork, Executing, Over, Finals, RunOK, NoPause, Covered, Decides, RunOver,
         Remembered, Resuming
    <3>7. CASE Remembered(g)
      BY <2>18, <1>1, <1>3, <3>7 DEF _handle_global_timeout, workerVars, formVars, TaskOK, AtWork,
         Executing, RunOK, NoPause, Finals, Covered, Remembered, RunOver, Resuming
    <3>8. CASE RunOver
      BY <2>18, <1>1, <1>3, <3>8 DEF _handle_global_timeout, workerVars, formVars, TaskOK, AtWork,
         Executing, Finals, Covered, RunOver, Resuming, Decides
    <3> QED
      BY <3>1, <3>2, <3>3, <3>4, <3>5, <3>6, <3>7, <3>8
  <2>19. CASE ScannerCrashes
    BY <2>19, <1>1, <1>2 DEF ScannerCrashes, runVars, history, workerVars, formVars, Covered,
       Submitting, TimingOut, Resuming, Decides, Remembered, RunOver, AtWork, Executing, TaskOK,
       EngineOK, FormOK, RunOK, Finals
  <2>20. CASE GlobalDeadline
    BY <2>20, <1>1, <1>2 DEF GlobalDeadline, runVars, history, workerVars, formVars, Covered,
       Submitting, TimingOut, Resuming, Decides, Remembered, RunOver, AtWork, Executing, TaskOK,
       EngineOK, FormOK, RunOK, Finals
  <2>21. ASSUME NEW f \in Forms, Expire(f) PROVE Covered(g)'
    BY <2>21, <1>1, <1>2 DEF Expire, runVars, history, workerVars, formVars, Covered, Submitting,
       TimingOut, Resuming, Decides, Remembered, RunOver, AtWork, Executing, TaskOK, EngineOK,
       FormOK, RunOK, Finals
  <2>22. CASE UNCHANGED vars
    BY <2>22, <1>2 DEF vars, runVars, formVars, history, workerVars, Covered, Submitting,
       TimingOut, Resuming, Decides, Remembered, RunOver
  <2> QED
    BY <2>1, <2>2, <2>3, <2>4, <2>5, <2>6, <2>7, <2>8, <2>9, <2>10, <2>11, <2>12, <2>13, <2>14,
       <2>15, <2>16, <2>17, <2>18, <2>19, <2>20, <2>21, <2>22 DEF Next, Task, Submission, Scanner

LEMMA AnswersKept == Spec => [](SubmittedAt /\ AnswersCovered)
<1>1. Init => SubmittedAt /\ AnswersCovered
  BY DEF Init, SubmittedAt, AnswersCovered
<1>2. TypeOK /\ Single /\ Resumability /\ SubmittedAt /\ AnswersCovered /\ [Next]_vars
      => (SubmittedAt /\ AnswersCovered)'
  BY TypeParts, SubmittedStep, CoveredStep DEF Resumability
<1> QED
  BY <1>1, <1>2, TypeCorrect, SingleExecution, ResumabilityKept, PTL DEF Spec

(* An answer is lost only if a task gave up after it was there, the broker *)
(* or a process failed, two tasks resumed one pause, or the global timeout *)
(* took it: for any number of forms, workers and users.                    *)
THEOREM LostByEarlyAnswer == Spec => []LostOnlyByEarlyAnswer
<1>1. TypeOK /\ AnswersCovered => LostOnlyByEarlyAnswer
  <2> SUFFICES ASSUME TypeOK, AnswersCovered, NEW f \in Forms, Lost(f), f \notin early, ~raced,
                      status[f] # "expired", ~(failures + crashes > 0)
               PROVE  FALSE
    BY DEF LostOnlyByEarlyAnswer
  <2>1. Undisturbed
    BY TypeParts, PauseResumeConstants DEF Undisturbed, CountOK
  <2>2. Covered(f)
    BY <2>1 DEF AnswersCovered, Lost, Answered
  <2>3. ~Submitting(f)
    <3>1. \A u \in Users : user[u][1] \in {"new", "done"}
      BY DEF Lost, Quiet
    <3> QED
      BY <3>1 DEF Submitting
  <2>4. ~TimingOut(f)
    BY DEF Lost, Quiet, TimingOut, Idle
  <2>5. ~(queued > 0) /\ ~Resuming /\ ~Decides(f) /\ ~RunOver
    BY DEF Lost, Quiet, Resuming, Decides, RunOver, Finals
  <2>6. ~Remembered(f)
    BY DEF Lost, Remembered
  <2> QED
    BY <2>2, <2>3, <2>4, <2>5, <2>6 DEF Covered
<1> QED
  BY <1>1, TypeCorrect, AnswersKept, PTL
=============================================================================
