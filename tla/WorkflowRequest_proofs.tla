----------------------- MODULE WorkflowRequest_proofs -----------------------
(***************************************************************************)
(* The limiter for any number of requests and processes, and the start     *)
(* gate for any number of events.  The limiter's invariants are proved of  *)
(* its own next-state relation; a lemma shows that every step of the       *)
(* composition is one of its steps or leaves its variables alone.          *)
(***************************************************************************)
EXTENDS WorkflowRequest, FiniteSetTheorems, TLAPS

RequestOK ==
    /\ pc \in [Requests -> PC] /\ kind \in [Requests -> Kinds]
    /\ active \in [Requests -> {"none", "fresh", "old", "swept"}]
    /\ charge \in [Requests -> {"none", "charged", "refunded", "unrefunded"}]
    /\ left \in SUBSET Requests

(* What the later stages know: who came to the limiter was charged, only a *)
(* workflow enters it twice, and nobody is counted before entering it.     *)
Stages ==
    \A r \in Requests :
        /\ pc[r] \notin {"new", "refused", "failed"} => charge[r] = "charged"
        /\ pc[r] \in {"check again", "add again", "leave"} => kind[r] = "workflow"
        /\ pc[r] = "new" => active[r] = "none" /\ charge[r] = "none"

(* What the steps with a choice in them do, without the limits: e are the  *)
(* entries a sweep has left, or all of them.                               *)
Begun(r, l, e) ==
    /\ pc[r] = "new" /\ pc' = [pc EXCEPT ![r] = l] /\ charge' = [charge EXCEPT ![r] = "charged"]
    /\ active' = e /\ UNCHANGED <<kind, left>>

Stopped(r, l, e) ==
    /\ pc' = [pc EXCEPT ![r] = l] /\ kind' = kind
    /\ Refund(r) /\ Exit(r, e)

Passed(r, to, e) ==
    /\ pc' = [pc EXCEPT ![r] = to] /\ active' = e
    /\ UNCHANGED <<charge, kind, left>>

LEMMA BeginEffect ==
    ASSUME NEW r, NEW limit, Construct(r, limit) \/ ConstructFails(r, limit)
    PROVE  \E l \in {"check", "unbuilt"}, e \in {active, Swept} : Begun(r, l, e)
<1>1. CASE Construct(r, limit)
  BY <1>1 DEF Construct, Begun, Goto, history
<1>2. CASE ConstructFails(r, limit)
  BY <1>2 DEF ConstructFails, Begun, Goto, history
<1> QED
  BY <1>1, <1>2

LEMMA CheckEffect ==
    ASSUME NEW r, NEW from, NEW to, Check(r, from, to)
    PROVE  pc[r] = from /\ \E e \in {active, Swept} : Stopped(r, "refused", e) \/ Passed(r, to, e)
<1>1. CASE server[r] \in due
  BY <1>1 DEF Check, Stopped, Passed, Goto
<1>2. CASE server[r] \notin due
  BY <1>2 DEF Check, Stopped, Passed, Goto
<1> QED
  BY <1>1, <1>2

Trying == {"check", "add", "check again", "add again", "leave", "generating"}

LEMMA FailEffect ==
    ASSUME NEW r, Fail(r) \/ FlushFails(r)
    PROVE  pc[r] \in Trying /\ \E e \in {active, Swept} : Stopped(r, "failed", e)
<1>1. CASE Fail(r)
  BY <1>1 DEF Fail, Abort, Stopped, Trying, Goto
<1>2. CASE FlushFails(r)
  BY <1>2 DEF FlushFails, Abort, Stopped, Trying, Goto
<1> QED
  BY <1>1, <1>2

(* A sweep only turns old entries into swept ones. *)
Remains(e) ==
    /\ e \in [Requests -> {"none", "fresh", "old", "swept"}]
    /\ \A x \in Requests :
          /\ e[x] \in {"fresh", "old"} => active[x] \in {"fresh", "old"}
          /\ e[x] \notin {"fresh", "old"} => active[x] = e[x] \/ e[x] = "swept"
          /\ active[x] = "none" => e[x] = "none"

LEMMA SweptRemains == RequestOK => \A e \in {active, Swept} : Remains(e)
<1> SUFFICES ASSUME RequestOK PROVE Remains(active) /\ Remains(Swept)
  OBVIOUS
<1>1. Remains(active)
  BY DEF RequestOK, Remains
<1>2. Swept \in [Requests -> {"none", "fresh", "old", "swept"}]
  BY DEF RequestOK, Swept
<1>3. Remains(Swept)
  BY <1>2 DEF RequestOK, Remains, Swept
<1> QED
  BY <1>1, <1>3

(* What the three do to the other requests. *)
Others(r, e) ==
    /\ Remains(e) /\ kind' = kind /\ left \subseteq left'
    /\ \A x \in Requests \ {r} :
          pc'[x] = pc[x] /\ charge'[x] = charge[x] /\ active'[x] = e[x]

Halted(r, l) ==
    /\ pc'[r] = l /\ charge'[r] \in {"refunded", "unrefunded"}
    /\ active'[r] \in {"fresh", "old"} => r \in left'

LEMMA BegunRequest ==
    ASSUME RequestOK, NEW r \in Requests, NEW l \in PC, NEW e, Remains(e), Begun(r, l, e)
    PROVE  /\ RequestOK' /\ Others(r, e)
           /\ pc'[r] = l /\ charge'[r] = "charged" /\ active'[r] = e[r]
BY DEF RequestOK, Remains, Begun, Others

LEMMA PassedRequest ==
    ASSUME RequestOK, NEW r \in Requests, NEW to \in PC, NEW e, Remains(e), Passed(r, to, e)
    PROVE  RequestOK' /\ Others(r, e) /\ pc'[r] = to /\ charge'[r] = charge[r]
BY DEF RequestOK, Remains, Passed, Others

LEMMA StoppedRequest ==
    ASSUME RequestOK, NEW r \in Requests, NEW l \in PC, NEW e, Remains(e), Stopped(r, l, e)
    PROVE  RequestOK' /\ Others(r, e) /\ Halted(r, l)
<1>1. PICK c \in {"refunded", "unrefunded"} : charge' = [charge EXCEPT ![r] = c]
  BY DEF Stopped, Refund
<1>2. CASE active' = [e EXCEPT ![r] = "none"] /\ left' = left
  BY <1>1, <1>2 DEF Stopped, RequestOK, Remains, Others, Halted
<1>3. CASE active' = e /\ left' = left \union {r}
  BY <1>1, <1>3 DEF Stopped, RequestOK, Remains, Others, Halted
<1> QED
  BY <1>2, <1>3 DEF Stopped, Exit

LEMMA BeginRequest ==
    ASSUME RequestOK, NEW r \in Requests, NEW limit \in Limits,
           Construct(r, limit) \/ ConstructFails(r, limit)
    PROVE  /\ RequestOK' /\ pc[r] = "new"
           /\ pc'[r] \in {"check", "unbuilt"} /\ charge'[r] = "charged"
           /\ \E e : Others(r, e) /\ active'[r] = e[r]
<1>1. PICK l \in {"check", "unbuilt"}, e \in {active, Swept} : Begun(r, l, e)
  BY BeginEffect
<1>2. Remains(e) /\ l \in PC
  BY SweptRemains DEF PC, Over
<1> QED
  BY <1>1, <1>2, BegunRequest DEF Begun

LEMMA FailRequest ==
    ASSUME RequestOK, NEW r \in Requests, Fail(r) \/ FlushFails(r)
    PROVE  RequestOK' /\ pc[r] \in Trying /\ Halted(r, "failed") /\ \E e : Others(r, e)
<1>1. PICK e \in {active, Swept} : Stopped(r, "failed", e)
  BY FailEffect
<1>2. Remains(e) /\ "failed" \in PC /\ pc[r] \in Trying
  BY SweptRemains, FailEffect DEF PC, Over
<1> QED
  BY <1>1, <1>2, StoppedRequest

LEMMA CheckRequest ==
    ASSUME RequestOK, NEW r \in Requests, NEW from, NEW to \in PC, Check(r, from, to)
    PROVE  /\ RequestOK' /\ pc[r] = from
           /\ Halted(r, "refused") \/ (pc'[r] = to /\ charge'[r] = charge[r])
           /\ \E e : Others(r, e)
<1>1. PICK e \in {active, Swept} : Stopped(r, "refused", e) \/ Passed(r, to, e)
  BY CheckEffect
<1>2. Remains(e) /\ "refused" \in PC /\ pc[r] = from
  BY SweptRemains, CheckEffect DEF PC, Over
<1>3. CASE Stopped(r, "refused", e)
  BY <1>2, <1>3, StoppedRequest
<1>4. CASE Passed(r, to, e)
  BY <1>2, <1>4, PassedRequest
<1> QED
  BY <1>1, <1>3, <1>4

LEMMA LimiterSteps == [Next]_vars => [RateLimitNext]_rlVars
BY WorkflowRequestConstants
   DEF Next, vars, Limiter, OtherRequest, ReturnStream, AbandonStream, Stream, Background,
       CloseEnded,
       CloseGone, RateLimitNext

(* Type correctness of the requests. *)
LEMMA RequestStep == RequestOK /\ [RateLimitNext]_rlVars => RequestOK'
<1> SUFFICES ASSUME RequestOK, [RateLimitNext]_rlVars PROVE RequestOK'
  OBVIOUS
<1> QED
  <2>1. ASSUME NEW r \in Requests, NEW limit \in Limits,
             Construct(r, limit) \/ ConstructFails(r, limit)
      PROVE RequestOK'
    BY <2>1, BeginRequest
  <2>2. ASSUME NEW r \in Requests, QuotaRefused(r) PROVE RequestOK'
    BY <2>2 DEF QuotaRefused, Goto, history, RequestOK, PC, Entered, Over
  <2>3. ASSUME NEW r \in Requests, Check(r, "check", "add") PROVE RequestOK'
    BY <2>3, CheckRequest DEF PC
  <2>4. ASSUME NEW r \in Requests,
             Add(r, "add", IF kind[r] = "workflow" THEN "check again" ELSE "generating")
      PROVE RequestOK'
    BY <2>4 DEF Add, Goto, history, RequestOK, PC, Entered, Over
  <2>5. ASSUME NEW r \in Requests, Check(r, "check again", "add again") PROVE RequestOK'
    BY <2>5, CheckRequest DEF PC
  <2>6. ASSUME NEW r \in Requests, Add(r, "add again", "leave") PROVE RequestOK'
    BY <2>6 DEF Add, Goto, history, RequestOK, PC, Entered, Over
  <2>7. ASSUME NEW r \in Requests, Leave(r) PROVE RequestOK'
    BY <2>7 DEF Leave, Goto, history, RequestOK, PC, Entered, Over
  <2>8. ASSUME NEW r \in Requests, Fail(r) \/ FlushFails(r) PROVE RequestOK'
    BY <2>8, FailRequest
  <2>9. ASSUME NEW r \in Requests, Answer(r) PROVE RequestOK'
    BY <2>9 DEF Answer, Goto, Exit, history, RequestOK, PC, Entered, Over
  <2>10. ASSUME NEW r \in Requests, Age(r) PROVE RequestOK'
    BY <2>10 DEF Age, history, RequestOK, PC, Entered, Over
  <2>11. ASSUME NEW p \in Servers, FlushDue(p) PROVE RequestOK'
    BY <2>11 DEF FlushDue, history, RequestOK, PC, Entered, Over
  <2>12. ASSUME NEW r \in Requests, Return(r) PROVE RequestOK'
    BY <2>12 DEF Return, Goto, history, RequestOK, PC, Entered, Over
  <2>13. ASSUME NEW r \in Requests, Iterate(r) PROVE RequestOK'
    BY <2>13 DEF Iterate, Goto, history, RequestOK, PC, Entered, Over
  <2>14. ASSUME NEW r \in Requests, Abandon(r) PROVE RequestOK'
    BY <2>14 DEF Abandon, Goto, history, RequestOK, PC, Entered, Over
  <2>15. ASSUME NEW r \in Requests, Close(r) PROVE RequestOK'
    BY <2>15 DEF Close, Goto, Exit, history, RequestOK, PC, Entered, Over
  <2>16. CASE UNCHANGED rlVars
    BY <2>16 DEF rlVars, history, RequestOK, PC, Entered, Over
  <2> QED
    BY <2>1, <2>2, <2>3, <2>4, <2>5, <2>6, <2>7, <2>8, <2>9, <2>10, <2>11, <2>12, <2>13, <2>14,
       <2>15, <2>16
       DEF RateLimitNext, RateLimitStep, Enter, EnterAgain

(* The stages of a request. *)
LEMMA StagesStep == RequestOK /\ Stages /\ [RateLimitNext]_rlVars => Stages'
<1> SUFFICES ASSUME RequestOK, Stages, [RateLimitNext]_rlVars PROVE Stages'
  OBVIOUS
<1> QED
  <2>1. ASSUME NEW r \in Requests, NEW limit \in Limits,
             Construct(r, limit) \/ ConstructFails(r, limit)
      PROVE Stages'
    <3> SUFFICES ASSUME NEW x \in Requests
                 PROVE  /\ pc'[x] \notin {"new", "refused", "failed"} => charge'[x] = "charged"
                        /\ pc'[x] \in {"check again", "add again", "leave"} => kind'[x] = "workflow"
                        /\ pc'[x] = "new" => active'[x] = "none" /\ charge'[x] = "none"
      BY DEF Stages
    <3>1. PICK e : Others(r, e) /\ active'[r] = e[r]
      BY <2>1, BeginRequest DEF PC
    <3>2. pc[r] = "new" /\ pc'[r] \in {"check", "unbuilt"} /\ charge'[r] = "charged"
      BY <2>1, BeginRequest DEF PC
    <3>3. CASE x = r
      BY <3>1, <3>2, <3>3 DEF Stages, Others, Halted
    <3>4. CASE x # r
      BY <3>1, <3>4 DEF Others, Remains, Stages
    <3> QED
      BY <3>3, <3>4
  <2>2. ASSUME NEW r \in Requests, QuotaRefused(r) PROVE Stages'
    BY <2>2 DEF QuotaRefused, Goto, history, RequestOK, Stages
  <2>3. ASSUME NEW r \in Requests, Check(r, "check", "add") PROVE Stages'
    <3> SUFFICES ASSUME NEW x \in Requests
                 PROVE  /\ pc'[x] \notin {"new", "refused", "failed"} => charge'[x] = "charged"
                        /\ pc'[x] \in {"check again", "add again", "leave"} => kind'[x] = "workflow"
                        /\ pc'[x] = "new" => active'[x] = "none" /\ charge'[x] = "none"
      BY DEF Stages
    <3>1. PICK e : Others(r, e)
      BY <2>3, CheckRequest DEF PC
    <3>2. pc[r] = "check" /\ (Halted(r, "refused") \/ (pc'[r] = "add" /\ charge'[r] = charge[r]))
      BY <2>3, CheckRequest DEF PC
    <3>3. CASE x = r
      BY <3>1, <3>2, <3>3 DEF Stages, Others, Halted
    <3>4. CASE x # r
      BY <3>1, <3>4 DEF Others, Remains, Stages
    <3> QED
      BY <3>3, <3>4
  <2>4. ASSUME NEW r \in Requests,
             Add(r, "add", IF kind[r] = "workflow" THEN "check again" ELSE "generating")
      PROVE Stages'
    BY <2>4 DEF Add, Goto, history, RequestOK, Stages
  <2>5. ASSUME NEW r \in Requests, Check(r, "check again", "add again") PROVE Stages'
    <3> SUFFICES ASSUME NEW x \in Requests
                 PROVE  /\ pc'[x] \notin {"new", "refused", "failed"} => charge'[x] = "charged"
                        /\ pc'[x] \in {"check again", "add again", "leave"} => kind'[x] = "workflow"
                        /\ pc'[x] = "new" => active'[x] = "none" /\ charge'[x] = "none"
      BY DEF Stages
    <3>1. PICK e : Others(r, e)
      BY <2>5, CheckRequest DEF PC
    <3>2. pc[r] = "check again" /\ (Halted(r, "refused") \/ (pc'[r] = "add again" /\ charge'[r] = charge[r]))
      BY <2>5, CheckRequest DEF PC
    <3>3. CASE x = r
      BY <3>1, <3>2, <3>3 DEF Stages, Others, Halted
    <3>4. CASE x # r
      BY <3>1, <3>4 DEF Others, Remains, Stages
    <3> QED
      BY <3>3, <3>4
  <2>6. ASSUME NEW r \in Requests, Add(r, "add again", "leave") PROVE Stages'
    BY <2>6 DEF Add, Goto, history, RequestOK, Stages
  <2>7. ASSUME NEW r \in Requests, Leave(r) PROVE Stages'
    BY <2>7 DEF Leave, Goto, history, RequestOK, Stages
  <2>8. ASSUME NEW r \in Requests, Fail(r) \/ FlushFails(r) PROVE Stages'
    <3> SUFFICES ASSUME NEW x \in Requests
                 PROVE  /\ pc'[x] \notin {"new", "refused", "failed"} => charge'[x] = "charged"
                        /\ pc'[x] \in {"check again", "add again", "leave"} => kind'[x] = "workflow"
                        /\ pc'[x] = "new" => active'[x] = "none" /\ charge'[x] = "none"
      BY DEF Stages
    <3>1. PICK e : Others(r, e)
      BY <2>8, FailRequest DEF PC
    <3>2. Halted(r, "failed")
      BY <2>8, FailRequest DEF PC
    <3>3. CASE x = r
      BY <3>1, <3>2, <3>3 DEF Stages, Others, Halted
    <3>4. CASE x # r
      BY <3>1, <3>4 DEF Others, Remains, Stages
    <3> QED
      BY <3>3, <3>4
  <2>9. ASSUME NEW r \in Requests, Answer(r) PROVE Stages'
    BY <2>9 DEF Answer, Goto, Exit, history, RequestOK, Stages
  <2>10. ASSUME NEW r \in Requests, Age(r) PROVE Stages'
    BY <2>10 DEF Age, history, RequestOK, Stages
  <2>11. ASSUME NEW p \in Servers, FlushDue(p) PROVE Stages'
    BY <2>11 DEF FlushDue, history, RequestOK, Stages
  <2>12. ASSUME NEW r \in Requests, Return(r) PROVE Stages'
    BY <2>12 DEF Return, Goto, history, RequestOK, Stages
  <2>13. ASSUME NEW r \in Requests, Iterate(r) PROVE Stages'
    BY <2>13 DEF Iterate, Goto, history, RequestOK, Stages
  <2>14. ASSUME NEW r \in Requests, Abandon(r) PROVE Stages'
    BY <2>14 DEF Abandon, Goto, history, RequestOK, Stages
  <2>15. ASSUME NEW r \in Requests, Close(r) PROVE Stages'
    BY <2>15 DEF Close, Goto, Exit, history, RequestOK, Stages
  <2>16. CASE UNCHANGED rlVars
    BY <2>16 DEF rlVars, history, RequestOK, Stages
  <2> QED
    BY <2>1, <2>2, <2>3, <2>4, <2>5, <2>6, <2>7, <2>8, <2>9, <2>10, <2>11, <2>12, <2>13, <2>14,
       <2>15, <2>16
       DEF RateLimitNext, RateLimitStep, Enter, EnterAgain

(* A request that is over leaves nothing behind. *)
LEMMA OverStep == RequestOK /\ Stages /\ OverLeavesNothing /\ [RateLimitNext]_rlVars => OverLeavesNothing'
<1> SUFFICES ASSUME RequestOK, Stages, OverLeavesNothing, [RateLimitNext]_rlVars PROVE OverLeavesNothing'
  OBVIOUS
<1> QED
  <2>1. ASSUME NEW r \in Requests, NEW limit \in Limits,
             Construct(r, limit) \/ ConstructFails(r, limit)
      PROVE OverLeavesNothing'
    <3> SUFFICES ASSUME NEW x \in Requests, pc'[x] \in Over
                 PROVE  /\ active'[x] \in {"fresh", "old"} => x \in left'
                        /\ charge'[x] = "charged" <=> pc'[x] \in {"done", "unbuilt"}
      BY DEF OverLeavesNothing, Entries
    <3>1. PICK e : Others(r, e) /\ active'[r] = e[r]
      BY <2>1, BeginRequest DEF PC
    <3>2. pc[r] = "new" /\ pc'[r] \in {"check", "unbuilt"} /\ charge'[r] = "charged"
      BY <2>1, BeginRequest DEF PC
    <3>3. CASE x = r
      BY <3>1, <3>2, <3>3 DEF Stages, Others, Remains, Halted, Over
    <3>4. CASE x # r
      BY <3>1, <3>4 DEF Others, Remains, OverLeavesNothing, Entries
    <3> QED
      BY <3>3, <3>4
  <2>2. ASSUME NEW r \in Requests, QuotaRefused(r) PROVE OverLeavesNothing'
    BY <2>2 DEF QuotaRefused, Goto, history, RequestOK, Stages, OverLeavesNothing, Over, Entries
  <2>3. ASSUME NEW r \in Requests, Check(r, "check", "add") PROVE OverLeavesNothing'
    <3> SUFFICES ASSUME NEW x \in Requests, pc'[x] \in Over
                 PROVE  /\ active'[x] \in {"fresh", "old"} => x \in left'
                        /\ charge'[x] = "charged" <=> pc'[x] \in {"done", "unbuilt"}
      BY DEF OverLeavesNothing, Entries
    <3>1. PICK e : Others(r, e)
      BY <2>3, CheckRequest DEF PC
    <3>2. pc[r] = "check" /\ (Halted(r, "refused") \/ (pc'[r] = "add" /\ charge'[r] = charge[r]))
      BY <2>3, CheckRequest DEF PC
    <3>3. CASE x = r
      BY <3>1, <3>2, <3>3 DEF Stages, Others, Remains, Halted, Over
    <3>4. CASE x # r
      BY <3>1, <3>4 DEF Others, Remains, OverLeavesNothing, Entries
    <3> QED
      BY <3>3, <3>4
  <2>4. ASSUME NEW r \in Requests,
             Add(r, "add", IF kind[r] = "workflow" THEN "check again" ELSE "generating")
      PROVE OverLeavesNothing'
    BY <2>4 DEF Add, Goto, history, RequestOK, Stages, OverLeavesNothing, Over, Entries
  <2>5. ASSUME NEW r \in Requests, Check(r, "check again", "add again") PROVE OverLeavesNothing'
    <3> SUFFICES ASSUME NEW x \in Requests, pc'[x] \in Over
                 PROVE  /\ active'[x] \in {"fresh", "old"} => x \in left'
                        /\ charge'[x] = "charged" <=> pc'[x] \in {"done", "unbuilt"}
      BY DEF OverLeavesNothing, Entries
    <3>1. PICK e : Others(r, e)
      BY <2>5, CheckRequest DEF PC
    <3>2. pc[r] = "check again" /\ (Halted(r, "refused") \/ (pc'[r] = "add again" /\ charge'[r] = charge[r]))
      BY <2>5, CheckRequest DEF PC
    <3>3. CASE x = r
      BY <3>1, <3>2, <3>3 DEF Stages, Others, Remains, Halted, Over
    <3>4. CASE x # r
      BY <3>1, <3>4 DEF Others, Remains, OverLeavesNothing, Entries
    <3> QED
      BY <3>3, <3>4
  <2>6. ASSUME NEW r \in Requests, Add(r, "add again", "leave") PROVE OverLeavesNothing'
    BY <2>6 DEF Add, Goto, history, RequestOK, Stages, OverLeavesNothing, Over, Entries
  <2>7. ASSUME NEW r \in Requests, Leave(r) PROVE OverLeavesNothing'
    BY <2>7 DEF Leave, Goto, history, RequestOK, Stages, OverLeavesNothing, Over, Entries
  <2>8. ASSUME NEW r \in Requests, Fail(r) \/ FlushFails(r) PROVE OverLeavesNothing'
    <3> SUFFICES ASSUME NEW x \in Requests, pc'[x] \in Over
                 PROVE  /\ active'[x] \in {"fresh", "old"} => x \in left'
                        /\ charge'[x] = "charged" <=> pc'[x] \in {"done", "unbuilt"}
      BY DEF OverLeavesNothing, Entries
    <3>1. PICK e : Others(r, e)
      BY <2>8, FailRequest DEF PC
    <3>2. Halted(r, "failed")
      BY <2>8, FailRequest DEF PC
    <3>3. CASE x = r
      BY <3>1, <3>2, <3>3 DEF Stages, Others, Remains, Halted, Over
    <3>4. CASE x # r
      BY <3>1, <3>4 DEF Others, Remains, OverLeavesNothing, Entries
    <3> QED
      BY <3>3, <3>4
  <2>9. ASSUME NEW r \in Requests, Answer(r) PROVE OverLeavesNothing'
    BY <2>9 DEF Answer, Goto, Exit, history, RequestOK, Stages, OverLeavesNothing, Over, Entries
  <2>10. ASSUME NEW r \in Requests, Age(r) PROVE OverLeavesNothing'
    BY <2>10 DEF Age, history, RequestOK, Stages, OverLeavesNothing, Over, Entries
  <2>11. ASSUME NEW p \in Servers, FlushDue(p) PROVE OverLeavesNothing'
    BY <2>11 DEF FlushDue, history, RequestOK, Stages, OverLeavesNothing, Over, Entries
  <2>12. ASSUME NEW r \in Requests, Return(r) PROVE OverLeavesNothing'
    BY <2>12 DEF Return, Goto, history, RequestOK, Stages, OverLeavesNothing, Over, Entries
  <2>13. ASSUME NEW r \in Requests, Iterate(r) PROVE OverLeavesNothing'
    BY <2>13 DEF Iterate, Goto, history, RequestOK, Stages, OverLeavesNothing, Over, Entries
  <2>14. ASSUME NEW r \in Requests, Abandon(r) PROVE OverLeavesNothing'
    BY <2>14 DEF Abandon, Goto, history, RequestOK, Stages, OverLeavesNothing, Over, Entries
  <2>15. ASSUME NEW r \in Requests, Close(r) PROVE OverLeavesNothing'
    BY <2>15 DEF Close, Goto, Exit, history, RequestOK, Stages, OverLeavesNothing, Over, Entries
  <2>16. CASE UNCHANGED rlVars
    BY <2>16 DEF rlVars, history, RequestOK, Stages, OverLeavesNothing, Over, Entries
  <2> QED
    BY <2>1, <2>2, <2>3, <2>4, <2>5, <2>6, <2>7, <2>8, <2>9, <2>10, <2>11, <2>12, <2>13, <2>14,
       <2>15, <2>16
       DEF RateLimitNext, RateLimitStep, Enter, EnterAgain

(* A request that is served is counted. *)
LEMMA CountedStep == RequestOK /\ Stages /\ CountedWhileServed /\ [RateLimitNext]_rlVars => CountedWhileServed'
<1> SUFFICES ASSUME RequestOK, Stages, CountedWhileServed, [RateLimitNext]_rlVars PROVE CountedWhileServed'
  OBVIOUS
<1> QED
  <2>1. ASSUME NEW r \in Requests, NEW limit \in Limits,
             Construct(r, limit) \/ ConstructFails(r, limit)
      PROVE CountedWhileServed'
    <3> SUFFICES ASSUME NEW x \in Requests, kind'[x] # "workflow", pc'[x] \in Entered
                 PROVE  active'[x] \in {"fresh", "old", "swept"}
      BY DEF CountedWhileServed, Entries
    <3>1. PICK e : Others(r, e) /\ active'[r] = e[r]
      BY <2>1, BeginRequest DEF PC
    <3>2. pc[r] = "new" /\ pc'[r] \in {"check", "unbuilt"} /\ charge'[r] = "charged"
      BY <2>1, BeginRequest DEF PC
    <3>3. CASE x = r
      BY <3>1, <3>2, <3>3 DEF Halted, Entered
    <3>4. CASE x # r
      BY <3>1, <3>4 DEF Others, Remains, CountedWhileServed, Entries
    <3> QED
      BY <3>3, <3>4
  <2>2. ASSUME NEW r \in Requests, QuotaRefused(r) PROVE CountedWhileServed'
    BY <2>2 DEF QuotaRefused, Goto, history, RequestOK, Stages, CountedWhileServed, Entered, Entries
  <2>3. ASSUME NEW r \in Requests, Check(r, "check", "add") PROVE CountedWhileServed'
    <3> SUFFICES ASSUME NEW x \in Requests, kind'[x] # "workflow", pc'[x] \in Entered
                 PROVE  active'[x] \in {"fresh", "old", "swept"}
      BY DEF CountedWhileServed, Entries
    <3>1. PICK e : Others(r, e)
      BY <2>3, CheckRequest DEF PC
    <3>2. pc[r] = "check" /\ (Halted(r, "refused") \/ (pc'[r] = "add" /\ charge'[r] = charge[r]))
      BY <2>3, CheckRequest DEF PC
    <3>3. CASE x = r
      BY <3>1, <3>2, <3>3 DEF Halted, Entered
    <3>4. CASE x # r
      BY <3>1, <3>4 DEF Others, Remains, CountedWhileServed, Entries
    <3> QED
      BY <3>3, <3>4
  <2>4. ASSUME NEW r \in Requests,
             Add(r, "add", IF kind[r] = "workflow" THEN "check again" ELSE "generating")
      PROVE CountedWhileServed'
    BY <2>4 DEF Add, Goto, history, RequestOK, Stages, CountedWhileServed, Entered, Entries
  <2>5. ASSUME NEW r \in Requests, Check(r, "check again", "add again") PROVE CountedWhileServed'
    <3> SUFFICES ASSUME NEW x \in Requests, kind'[x] # "workflow", pc'[x] \in Entered
                 PROVE  active'[x] \in {"fresh", "old", "swept"}
      BY DEF CountedWhileServed, Entries
    <3>1. PICK e : Others(r, e)
      BY <2>5, CheckRequest DEF PC
    <3>2. pc[r] = "check again" /\ (Halted(r, "refused") \/ (pc'[r] = "add again" /\ charge'[r] = charge[r]))
      BY <2>5, CheckRequest DEF PC
    <3>3. CASE x = r
      BY <3>1, <3>2, <3>3 DEF Halted, Entered
    <3>4. CASE x # r
      BY <3>1, <3>4 DEF Others, Remains, CountedWhileServed, Entries
    <3> QED
      BY <3>3, <3>4
  <2>6. ASSUME NEW r \in Requests, Add(r, "add again", "leave") PROVE CountedWhileServed'
    BY <2>6 DEF Add, Goto, history, RequestOK, Stages, CountedWhileServed, Entered, Entries
  <2>7. ASSUME NEW r \in Requests, Leave(r) PROVE CountedWhileServed'
    BY <2>7 DEF Leave, Goto, history, RequestOK, Stages, CountedWhileServed, Entered, Entries
  <2>8. ASSUME NEW r \in Requests, Fail(r) \/ FlushFails(r) PROVE CountedWhileServed'
    <3> SUFFICES ASSUME NEW x \in Requests, kind'[x] # "workflow", pc'[x] \in Entered
                 PROVE  active'[x] \in {"fresh", "old", "swept"}
      BY DEF CountedWhileServed, Entries
    <3>1. PICK e : Others(r, e)
      BY <2>8, FailRequest DEF PC
    <3>2. Halted(r, "failed")
      BY <2>8, FailRequest DEF PC
    <3>3. CASE x = r
      BY <3>1, <3>2, <3>3 DEF Halted, Entered
    <3>4. CASE x # r
      BY <3>1, <3>4 DEF Others, Remains, CountedWhileServed, Entries
    <3> QED
      BY <3>3, <3>4
  <2>9. ASSUME NEW r \in Requests, Answer(r) PROVE CountedWhileServed'
    BY <2>9 DEF Answer, Goto, Exit, history, RequestOK, Stages, CountedWhileServed, Entered, Entries
  <2>10. ASSUME NEW r \in Requests, Age(r) PROVE CountedWhileServed'
    BY <2>10 DEF Age, history, RequestOK, Stages, CountedWhileServed, Entered, Entries
  <2>11. ASSUME NEW p \in Servers, FlushDue(p) PROVE CountedWhileServed'
    BY <2>11 DEF FlushDue, history, RequestOK, Stages, CountedWhileServed, Entered, Entries
  <2>12. ASSUME NEW r \in Requests, Return(r) PROVE CountedWhileServed'
    BY <2>12 DEF Return, Goto, history, RequestOK, Stages, CountedWhileServed, Entered, Entries
  <2>13. ASSUME NEW r \in Requests, Iterate(r) PROVE CountedWhileServed'
    BY <2>13 DEF Iterate, Goto, history, RequestOK, Stages, CountedWhileServed, Entered, Entries
  <2>14. ASSUME NEW r \in Requests, Abandon(r) PROVE CountedWhileServed'
    BY <2>14 DEF Abandon, Goto, history, RequestOK, Stages, CountedWhileServed, Entered, Entries
  <2>15. ASSUME NEW r \in Requests, Close(r) PROVE CountedWhileServed'
    BY <2>15 DEF Close, Goto, Exit, history, RequestOK, Stages, CountedWhileServed, Entered, Entries
  <2>16. CASE UNCHANGED rlVars
    BY <2>16 DEF rlVars, history, RequestOK, Stages, CountedWhileServed, Entered, Entries
  <2> QED
    BY <2>1, <2>2, <2>3, <2>4, <2>5, <2>6, <2>7, <2>8, <2>9, <2>10, <2>11, <2>12, <2>13, <2>14,
       <2>15, <2>16
       DEF RateLimitNext, RateLimitStep, Enter, EnterAgain

LimiterInv == RequestOK /\ Stages /\ OverLeavesNothing /\ CountedWhileServed

THEOREM LimiterCorrect == Spec => []LimiterInv
<1>1. Init => LimiterInv
  BY DEF Init, RateLimitInit, LimiterInv, RequestOK, Stages, OverLeavesNothing,
      CountedWhileServed, PC, Entered, Over, Entries
<1>2. LimiterInv /\ [Next]_vars => LimiterInv'
  BY LimiterSteps, RequestStep, StagesStep, OverStep, CountedStep DEF LimiterInv
<1> QED
  BY <1>1, <1>2, PTL DEF Spec

(* However a request ends, it is not counted any more, unless exit failed  *)
(* to delete its entry; and unless it was served, or the limiter could not *)
(* be built, it has been refunded, or the billing service failed to.       *)
THEOREM NothingLeft == Spec => []OverLeavesNothing
<1>1. LimiterInv => OverLeavesNothing
  BY DEF LimiterInv
<1> QED
  BY <1>1, LimiterCorrect, PTL

(* A request of a chat, or a blocking one, is counted while it is served,  *)
(* until it is 10 minutes old.                                             *)
THEOREM ServedIsCounted == Spec => []CountedWhileServed
<1>1. LimiterInv => CountedWhileServed
  BY DEF LimiterInv
<1> QED
  BY <1>1, LimiterCorrect, PTL

-----------------------------------------------------------------------------
(* The start gate.  A request that got its generator does not get another. *)
Late == {"returned", "serving", "abandoned", "done"}

LEMMA LateStays == RequestOK /\ pc[w] \in Late /\ [RateLimitNext]_rlVars => pc'[w] \in Late
<1> USE WorkflowRequestConstants
<1> SUFFICES ASSUME RequestOK, pc[w] \in Late, [RateLimitNext]_rlVars PROVE pc'[w] \in Late
  OBVIOUS
<1> QED
  <2>1. ASSUME NEW r \in Requests, NEW limit \in Limits,
             Construct(r, limit) \/ ConstructFails(r, limit)
      PROVE pc'[w] \in Late
    <3>1. r # w /\ \E e : Others(r, e)
      BY <2>1, BeginRequest DEF Late, PC, Trying
    <3> QED
      BY <3>1 DEF Others
  <2>2. ASSUME NEW r \in Requests, QuotaRefused(r) PROVE pc'[w] \in Late
    BY <2>2 DEF QuotaRefused, Goto, history, RequestOK, Late
  <2>3. ASSUME NEW r \in Requests, Check(r, "check", "add") PROVE pc'[w] \in Late
    <3>1. pc[r] = "check" /\ \E e : Others(r, e)
      BY <2>3, CheckRequest DEF PC
    <3> QED
      BY <3>1 DEF Others, Late
  <2>4. ASSUME NEW r \in Requests,
             Add(r, "add", IF kind[r] = "workflow" THEN "check again" ELSE "generating")
      PROVE pc'[w] \in Late
    BY <2>4 DEF Add, Goto, history, RequestOK, Late
  <2>5. ASSUME NEW r \in Requests, Check(r, "check again", "add again") PROVE pc'[w] \in Late
    <3>1. pc[r] = "check again" /\ \E e : Others(r, e)
      BY <2>5, CheckRequest DEF PC
    <3> QED
      BY <3>1 DEF Others, Late
  <2>6. ASSUME NEW r \in Requests, Add(r, "add again", "leave") PROVE pc'[w] \in Late
    BY <2>6 DEF Add, Goto, history, RequestOK, Late
  <2>7. ASSUME NEW r \in Requests, Leave(r) PROVE pc'[w] \in Late
    BY <2>7 DEF Leave, Goto, history, RequestOK, Late
  <2>8. ASSUME NEW r \in Requests, Fail(r) \/ FlushFails(r) PROVE pc'[w] \in Late
    <3>1. r # w /\ \E e : Others(r, e)
      BY <2>8, FailRequest DEF Late, PC, Trying
    <3> QED
      BY <3>1 DEF Others
  <2>9. ASSUME NEW r \in Requests, Answer(r) PROVE pc'[w] \in Late
    BY <2>9 DEF Answer, Goto, Exit, history, RequestOK, Late
  <2>10. ASSUME NEW r \in Requests, Age(r) PROVE pc'[w] \in Late
    BY <2>10 DEF Age, history, RequestOK, Late
  <2>11. ASSUME NEW p \in Servers, FlushDue(p) PROVE pc'[w] \in Late
    BY <2>11 DEF FlushDue, history, RequestOK, Late
  <2>12. ASSUME NEW r \in Requests, Return(r) PROVE pc'[w] \in Late
    BY <2>12 DEF Return, Goto, history, RequestOK, Late
  <2>13. ASSUME NEW r \in Requests, Iterate(r) PROVE pc'[w] \in Late
    BY <2>13 DEF Iterate, Goto, history, RequestOK, Late
  <2>14. ASSUME NEW r \in Requests, Abandon(r) PROVE pc'[w] \in Late
    BY <2>14 DEF Abandon, Goto, history, RequestOK, Late
  <2>15. ASSUME NEW r \in Requests, Close(r) PROVE pc'[w] \in Late
    BY <2>15 DEF Close, Goto, Exit, history, RequestOK, Late
  <2>16. CASE UNCHANGED rlVars
    BY <2>16 DEF rlVars, history, RequestOK, Late
  <2> QED
    BY <2>1, <2>2, <2>3, <2>4, <2>5, <2>6, <2>7, <2>8, <2>9, <2>10, <2>11, <2>12, <2>13, <2>14,
       <2>15, <2>16
       DEF RateLimitNext, RateLimitStep, Enter, EnterAgain

(* The timer is armed once and fires once; the run is started once; events *)
(* are missed only while nobody listens to a run on Pub/Sub, and then the  *)
(* timer started it.                                                       *)
Gate ==
    /\ starts \in {0, 1}
    /\ task = "running" => starts = 1
    /\ timer \in {"none", "armed"} => ~byTimer
    /\ timer = "none" => starts = 0
    /\ pc[w] \notin Late => timer = "none"
    /\ client \in {"subscribing", "receiving"} => listener # "off"
    /\ transport = "pubsub" /\ starts = 1 /\ listener = "off" => byTimer
    /\ missed \in Nat /\ log \in Nat
    /\ missed > 0 => byTimer
    /\ transport = "streams" => missed = 0

LEMMA GateStep == RequestOK /\ Gate /\ [Next]_vars => Gate'
<1> USE WorkflowRequestConstants
<1> SUFFICES ASSUME RequestOK, Gate, [Next]_vars PROVE Gate'
  OBVIOUS
<1>1. pc[w] \in Late => pc'[w] \in Late
  BY LateStays, LimiterSteps
<1>2. CASE UNCHANGED esVars
  BY <1>1, <1>2 DEF Gate, esVars, gateVars, runVars, subVars
<1>3. CASE ReturnStream
  <2>1. PICK ok \in BOOLEAN : Return(w) /\ Build(ok)
    BY <1>3 DEF ReturnStream
  <2>2. pc[w] \notin Late /\ pc'[w] \in Late
    BY <2>1 DEF Return, Goto, RequestOK, Late
  <2> QED
    BY <2>1, <2>2 DEF Gate, Build, TryStart, subVars
<1>4. CASE Stream
  <2>1. ASSUME Subscribe PROVE Gate'
    BY <1>1, <2>1 DEF Gate, Subscribe, gateVars, runVars
  <2>2. ASSUME NEW ok \in BOOLEAN, OnSubscribe(ok) PROVE Gate'
    BY <1>1, <1>4, <2>2 DEF Gate, OnSubscribe, TryStart, subVars, Stream, Late
  <2>3. ASSUME Receive \/ IdleTimeout PROVE Gate'
    BY <1>1, <2>3 DEF Gate, Receive, IdleTimeout, gateVars, runVars, subVars
  <2>4. ASSUME ListenerStep PROVE Gate'
    BY <1>1, <2>4 DEF Gate, ListenerStep, Listen, DropOldest, PutHeld, ListenerDies, gateVars,
        runVars
  <2> QED
    BY <1>4, <2>1, <2>2, <2>3, <2>4 DEF Stream, ClientStep
<1>5. CASE Background
  <2>1. ASSUME NEW ok \in BOOLEAN, TimerFires(ok) PROVE Gate'
    BY <1>1, <2>1 DEF Gate, TimerFires, TryStart, subVars
  <2>2. ASSUME NEW last \in BOOLEAN, Publish(last) PROVE Gate'
    BY <1>1, <2>2 DEF Gate, Publish, gateVars
  <2>3. ASSUME Crash PROVE Gate'
    BY <1>1, <2>3 DEF Gate, Crash, gateVars, subVars
  <2> QED
    BY <1>5, <2>1, <2>2, <2>3 DEF Background
<1>6. CASE CloseGone
  BY <1>1, <1>6 DEF Gate, CloseGone, Disconnect, gateVars, runVars, subVars
<1> QED
  BY <1>2, <1>3, <1>4, <1>5, <1>6 DEF Next, vars, Limiter, AbandonStream, CloseEnded

THEOREM GateCorrect == Spec => []Gate
<1>1. Init => Gate
  BY WorkflowRequestConstants DEF Init, RateLimitInit, EventStreamInit, Gate, Late
<1>2. LimiterInv /\ Gate /\ [Next]_vars => Gate'
  BY GateStep DEF LimiterInv
<1> QED
  BY <1>1, <1>2, LimiterCorrect, PTL DEF Spec

(* However the timer, the subscription and failures of the broker race.    *)
THEOREM OneStart == Spec => []StartedOnce
<1>1. Gate => StartedOnce
  BY DEF Gate, StartedOnce
<1> QED
  BY <1>1, GateCorrect, PTL

(* A client misses events only of a run that the fallback timer started.   *)
THEOREM MissedByTimer == Spec => []MissedOnlyByTimer
<1>1. Gate => MissedOnlyByTimer
  BY DEF Gate, MissedOnlyByTimer
<1> QED
  BY <1>1, GateCorrect, PTL

-----------------------------------------------------------------------------
(* The order of the stream, for any number of events and any queue size *)

(* An event that the listener holds is in the pipeline between queue and   *)
(* wire.                                                                   *)
Holding == IF held = 0 THEN 0 ELSE 1

(* The number of the last event that was passed on or lost. *)
Behind == missed + Len(got) + dropped

StreamTypes ==
    /\ transport \in {"pubsub", "streams"} /\ listener \in {"off", "on", "dead"}
    /\ got \in Seq(Nat) /\ queue \in Seq(Nat) /\ wire \in Seq(Nat) /\ held \in Nat
    /\ log \in Nat /\ missed \in Nat /\ dropped \in Nat /\ terminal \in Nat

(* The queue, the event that is held and the wire hold consecutive events, *)
(* from the first one that is neither passed on nor lost to the last one   *)
(* published; the sentinel can only be the last entry of the queue.        *)
InQueue ==
    \A i \in 1 .. Len(queue) :
        queue[i] = Behind + i \/ (queue[i] = 0 /\ i = Len(queue) /\ listener = "dead")
InHand == held # 0 => held = Behind + Len(queue) + 1 /\ listener = "on" /\ transport = "pubsub"
OnWire ==
    listener # "dead" =>
        /\ \A i \in 1 .. Len(wire) : wire[i] = Behind + Len(queue) + Holding + i
        /\ log = Behind + Len(queue) + Holding + Len(wire)
Consecutive == InQueue /\ InHand /\ OnWire

(* Nothing is read before the subscription, nothing is lost over streams,  *)
(* and what was passed on is in order.                                     *)
StreamOrder ==
    /\ listener = "off" => got = <<>> /\ queue = <<>> /\ held = 0 /\ dropped = 0
    /\ listener = "off" /\ transport = "pubsub" => wire = <<>>
    /\ transport = "streams" => missed = 0 /\ dropped = 0
    /\ \A i \in DOMAIN got : got[i] <= Behind
    /\ \A i, k \in DOMAIN got : i < k => got[i] < got[k]
    /\ client = "idle" => listener = "off"

StreamInv == StreamTypes /\ Consecutive /\ StreamOrder

(* A sequence of numbers after an element is put at its end or taken from  *)
(* its front.                                                              *)
LEMMA PutFacts ==
    ASSUME NEW s \in Seq(Nat), NEW x \in Nat, NEW t, t = Append(s, x)
    PROVE  /\ t \in Seq(Nat) /\ Len(s) \in Nat /\ Len(t) = Len(s) + 1
           /\ DOMAIN s = 1 .. Len(s) /\ DOMAIN t = 1 .. Len(s) + 1
           /\ \A i \in 1 .. Len(s) : t[i] = s[i]
           /\ t[Len(s) + 1] = x
OBVIOUS

LEMMA TakeFacts ==
    ASSUME NEW s \in Seq(Nat), s # <<>>, NEW t, t = Tail(s)
    PROVE  /\ t \in Seq(Nat) /\ Len(s) \in Nat /\ Len(s) > 0 /\ Len(t) = Len(s) - 1
           /\ DOMAIN s = 1 .. Len(s) /\ DOMAIN t = 1 .. Len(s) - 1
           /\ \A i \in 1 .. Len(s) - 1 : t[i] = s[i + 1]
           /\ Head(s) = s[1] /\ Head(s) \in Nat
OBVIOUS

LEMMA LenFacts ==
    ASSUME NEW s \in Seq(Nat)
    PROVE  /\ Len(s) \in Nat /\ DOMAIN s = 1 .. Len(s) /\ (s = <<>> <=> Len(s) = 0)
           /\ \A i \in DOMAIN s : s[i] \in Nat
OBVIOUS

pipeVars == <<transport, log, terminal, subVars, got, missed>>

(* A step that moves no event. *)
LEMMA StreamSame ==
    ASSUME StreamInv, UNCHANGED pipeVars, client' = "idle" => client = "idle"
    PROVE  StreamInv'
BY DEF StreamInv, StreamTypes, Consecutive, InQueue, InHand, OnWire, StreamOrder, Behind, Holding,
   pipeVars, subVars

LEMMA PublishOrder ==
    ASSUME StreamInv, NEW last \in BOOLEAN, Publish(last)
    PROVE  StreamInv'
<1>1. /\ UNCHANGED <<transport, client, listener, held, queue, dropped, got>>
      /\ log' = log + 1 /\ terminal' \in {log + 1, terminal}
      /\ wire' = IF transport = "streams" \/ listener = "on" THEN Append(wire, log + 1) ELSE wire
      /\ missed' = IF transport = "pubsub" /\ listener = "off" THEN log + 1 ELSE missed
  BY DEF Publish
<1>2. /\ got \in Seq(Nat) /\ queue \in Seq(Nat) /\ wire \in Seq(Nat) /\ held \in Nat
      /\ log \in Nat /\ missed \in Nat /\ dropped \in Nat /\ terminal \in Nat
  BY DEF StreamInv, StreamTypes
<1>3. Len(got) \in Nat /\ Len(queue) \in Nat /\ Behind \in Nat /\ Holding \in Nat
  BY <1>2, LenFacts DEF Behind, Holding
<1>4. CASE transport = "streams" \/ listener = "on"
  <2>1. wire' = Append(wire, log + 1) /\ missed' = missed /\ log + 1 \in Nat
    BY <1>1, <1>2, <1>4 DEF StreamInv, StreamTypes
  <2>2. Behind' = Behind /\ Holding' = Holding
    BY <1>1, <2>1 DEF Behind, Holding
  <2>3. /\ wire' \in Seq(Nat) /\ Len(wire) \in Nat /\ Len(wire') = Len(wire) + 1
        /\ DOMAIN wire = 1 .. Len(wire) /\ DOMAIN wire' = 1 .. Len(wire) + 1
        /\ \A i \in 1 .. Len(wire) : wire'[i] = wire[i]
        /\ wire'[Len(wire) + 1] = log + 1
    BY <1>2, <2>1, PutFacts
  <2>4. StreamTypes'
    BY <1>1, <1>2, <2>1, <2>3 DEF StreamInv, StreamTypes
  <2>5. Consecutive'
    <3>1. InQueue' /\ InHand'
      BY <1>1, <2>2 DEF StreamInv, Consecutive, InQueue, InHand
    <3>2. ASSUME listener # "dead" PROVE log = Behind + Len(queue) + Holding + Len(wire)
      BY <3>2 DEF StreamInv, Consecutive, OnWire
    <3>3. ASSUME listener # "dead", NEW i \in 1 .. Len(wire')
          PROVE  wire'[i] = Behind + Len(queue) + Holding + i
      <4>1. CASE i \in 1 .. Len(wire)
        BY <2>3, <3>3, <4>1 DEF StreamInv, Consecutive, OnWire
      <4>2. CASE i = Len(wire) + 1
        BY <1>2, <1>3, <2>3, <3>2, <3>3, <4>2
      <4> QED
        BY <2>3, <3>3, <4>1, <4>2
    <3>4. ASSUME listener # "dead"
          PROVE  log' = Behind + Len(queue) + Holding + Len(wire')
      <4>1. log' = log + 1 /\ Len(wire') = Len(wire) + 1 /\ Len(wire) \in Nat
        BY <1>1, <2>3
      <4> QED
        BY <1>3, <3>2, <3>4, <4>1
    <3>5. OnWire'
      BY <1>1, <2>2, <3>3, <3>4 DEF OnWire
    <3> QED
      BY <3>1, <3>5 DEF Consecutive
  <2>6. StreamOrder'
    BY <1>1, <1>4, <2>1, <2>2 DEF StreamInv, StreamOrder
  <2> QED
    BY <2>4, <2>5, <2>6 DEF StreamInv
<1>5. CASE ~(transport = "streams" \/ listener = "on")
  <2>1. wire' = wire /\ transport = "pubsub" /\ listener \in {"off", "dead"}
    BY <1>1, <1>5 DEF StreamInv, StreamTypes
  <2>2. CASE listener = "off"
    <3>1. /\ got = <<>> /\ queue = <<>> /\ held = 0 /\ dropped = 0 /\ wire = <<>>
          /\ missed' = log + 1
      BY <1>1, <2>1, <2>2 DEF StreamInv, StreamOrder
    <3>2. Len(got) = 0 /\ Len(queue) = 0 /\ Len(wire) = 0 /\ DOMAIN got = {} /\ DOMAIN queue = {}
          /\ DOMAIN wire = {}
      BY <3>1
    <3>3. Behind' = log'
      BY <1>1, <1>2, <3>1, <3>2 DEF Behind
    <3>4. StreamTypes'
      BY <1>1, <1>2, <2>1, <3>1 DEF StreamInv, StreamTypes
    <3>5. Consecutive'
      BY <1>1, <1>2, <2>1, <2>2, <3>1, <3>2, <3>3 DEF Consecutive, InQueue, InHand, OnWire, Holding
    <3>6. StreamOrder'
      BY <1>1, <2>1, <3>1, <3>2 DEF StreamInv, StreamOrder
    <3> QED
      BY <3>4, <3>5, <3>6 DEF StreamInv
  <2>3. CASE listener = "dead"
    <3>1. missed' = missed /\ Behind' = Behind
      BY <1>1, <2>3 DEF Behind
    <3>2. StreamTypes'
      BY <1>1, <1>2, <2>1, <3>1 DEF StreamInv, StreamTypes
    <3>3. Consecutive'
      BY <1>1, <2>3, <3>1 DEF StreamInv, Consecutive, InQueue, InHand, OnWire
    <3>4. StreamOrder'
      BY <1>1, <2>3, <2>1, <3>1 DEF StreamInv, StreamOrder
    <3> QED
      BY <3>2, <3>3, <3>4 DEF StreamInv
  <2> QED
    BY <2>1, <2>2, <2>3
<1> QED
  BY <1>4, <1>5

(* The listener moves an event from the wire towards the queue, or drops   *)
(* the oldest event of the queue.                                          *)
LEMMA ListenerOrder ==
    ASSUME StreamInv, ListenerStep
    PROVE  StreamInv'
<1>1. /\ got \in Seq(Nat) /\ queue \in Seq(Nat) /\ wire \in Seq(Nat) /\ held \in Nat
      /\ log \in Nat /\ missed \in Nat /\ dropped \in Nat /\ terminal \in Nat
  BY DEF StreamInv, StreamTypes
<1>2. /\ Len(got) \in Nat /\ Len(queue) \in Nat /\ Len(wire) \in Nat
      /\ DOMAIN queue = 1 .. Len(queue) /\ DOMAIN wire = 1 .. Len(wire)
      /\ Behind \in Nat /\ Holding \in Nat
  BY <1>1, LenFacts DEF Behind, Holding
<1>3. UNCHANGED <<transport, log, terminal, client, got, missed>> /\ listener # "off"
  BY DEF ListenerStep, Listen, DropOldest, PutHeld, ListenerDies, runVars, StreamInv, StreamOrder
<1>4. CASE Listen
  <2>1. /\ listener = "on" /\ held = 0 /\ wire # <<>> /\ wire' = Tail(wire)
        /\ UNCHANGED <<listener, dropped>>
        /\ \/ queue' = Append(queue, Head(wire)) /\ held' = held
           \/ held' = Head(wire) /\ queue' = queue /\ transport = "pubsub"
    BY <1>4 DEF Listen, StreamInv, StreamTypes
  <2>2. /\ wire' \in Seq(Nat) /\ Len(wire) > 0 /\ Len(wire') = Len(wire) - 1
        /\ DOMAIN wire' = 1 .. Len(wire) - 1
        /\ \A i \in 1 .. Len(wire) - 1 : wire'[i] = wire[i + 1]
        /\ Head(wire) = wire[1] /\ Head(wire) \in Nat
    BY <1>1, <2>1, TakeFacts
  <2>3. /\ Holding = 0 /\ Behind' = Behind
        /\ \A i \in 1 .. Len(wire) : wire[i] = Behind + Len(queue) + i
        /\ log = Behind + Len(queue) + Len(wire)
        /\ \A i \in 1 .. Len(queue) : queue[i] = Behind + i
    <3>1. Holding = 0 /\ Behind' = Behind
      BY <1>3, <2>1 DEF Holding, Behind
    <3>2. \A i \in 1 .. Len(queue) : queue[i] = Behind + i
      BY <2>1 DEF StreamInv, Consecutive, InQueue
    <3>3. /\ \A i \in 1 .. Len(wire) : wire[i] = Behind + Len(queue) + i
          /\ log = Behind + Len(queue) + Len(wire)
      BY <1>2, <2>1, <3>1 DEF StreamInv, Consecutive, OnWire
    <3> QED
      BY <3>1, <3>2, <3>3
  <2>4. Head(wire) = Behind + Len(queue) + 1
    BY <2>2, <2>3, <1>2
  <2>5. CASE queue' = Append(queue, Head(wire)) /\ held' = held
    <3>1. /\ queue' \in Seq(Nat) /\ Len(queue') = Len(queue) + 1
          /\ DOMAIN queue' = 1 .. Len(queue) + 1
          /\ \A i \in 1 .. Len(queue) : queue'[i] = queue[i]
          /\ queue'[Len(queue) + 1] = Head(wire)
      BY <1>1, <2>2, <2>5, PutFacts
    <3>2. Holding' = 0
      BY <2>1, <2>5 DEF Holding
    <3>3. StreamTypes'
      BY <1>1, <1>3, <2>1, <2>2, <2>5, <3>1 DEF StreamInv, StreamTypes
    <3>4. InQueue'
      <4>1. \A i \in 1 .. Len(queue') : i \in 1 .. Len(queue) \/ i = Len(queue) + 1
        BY <1>2, <3>1
      <4>2. \A i \in 1 .. Len(queue') : queue'[i] = Behind' + i
        <5>1. \A i \in 1 .. Len(queue) : queue'[i] = Behind + i
          BY <2>3, <3>1
        <5>2. queue'[Len(queue) + 1] = Behind + (Len(queue) + 1)
          BY <1>2, <2>3, <2>4, <3>1
        <5> QED
          BY <2>3, <4>1, <5>1, <5>2
      <4> QED
        BY <4>2 DEF InQueue
    <3>5. OnWire'
      BY <1>2, <1>3, <2>2, <2>3, <3>1, <3>2 DEF OnWire
    <3>6. Consecutive'
      BY <2>1, <2>5, <3>4, <3>5 DEF Consecutive, InHand
    <3>7. StreamOrder'
      BY <1>3, <2>1, <2>3 DEF StreamInv, StreamOrder
    <3> QED
      BY <3>3, <3>6, <3>7 DEF StreamInv
  <2>6. CASE held' = Head(wire) /\ queue' = queue /\ transport = "pubsub"
    <3>1. Holding' = 1
      BY <1>2, <2>4, <2>6 DEF Holding
    <3>2. StreamTypes'
      BY <1>1, <1>3, <2>1, <2>2, <2>6 DEF StreamInv, StreamTypes
    <3>3. OnWire'
      BY <1>2, <1>3, <2>2, <2>3, <2>6, <3>1 DEF OnWire
    <3>4. InQueue' /\ InHand'
      BY <1>3, <2>1, <2>3, <2>4, <2>6 DEF InQueue, InHand
    <3>6. Consecutive'
      BY <3>3, <3>4 DEF Consecutive
    <3>5. StreamOrder'
      BY <1>3, <2>1, <2>3 DEF StreamInv, StreamOrder
    <3> QED
      BY <3>2, <3>5, <3>6 DEF StreamInv
  <2> QED
    BY <2>1, <2>5, <2>6
<1>5. CASE DropOldest
  <2>1. /\ held # 0 /\ Len(queue) = QueueSize /\ queue' = Tail(queue) /\ dropped' = dropped + 1
        /\ UNCHANGED <<wire, listener, held>>
    BY <1>5 DEF DropOldest
  <2>2. Len(queue) > 0 /\ queue # <<>>
    BY <1>1, <2>1, EventStreamConstants, LenFacts
  <2>3. /\ queue' \in Seq(Nat) /\ Len(queue') = Len(queue) - 1
        /\ DOMAIN queue' = 1 .. Len(queue) - 1
        /\ \A i \in 1 .. Len(queue) - 1 : queue'[i] = queue[i + 1]
    BY <1>1, <2>1, <2>2, TakeFacts
  <2>4. Behind' = Behind + 1 /\ Holding' = Holding
    BY <1>1, <1>2, <1>3, <2>1 DEF Behind, Holding
  <2>5. StreamTypes'
    BY <1>1, <1>3, <2>1, <2>3 DEF StreamInv, StreamTypes
  <2>6. listener = "on" /\ transport = "pubsub" /\ held = Behind + Len(queue) + 1
    BY <2>1 DEF StreamInv, Consecutive, InHand
  <2>7. Consecutive'
    <3>1. \A i \in 1 .. Len(queue) : queue[i] = Behind + i
      BY <2>6 DEF StreamInv, Consecutive, InQueue
    <3>2. \A i \in 1 .. Len(queue') : i + 1 \in 1 .. Len(queue) /\ queue'[i] = queue[i + 1]
      BY <1>2, <2>2, <2>3
    <3>3. \A i \in 1 .. Len(queue') : queue'[i] = Behind' + i
      BY <1>2, <2>3, <2>4, <3>1, <3>2
    <3>4. InQueue' /\ InHand'
      BY <1>2, <1>3, <2>1, <2>3, <2>4, <2>6, <3>3 DEF InQueue, InHand
    <3>5. Behind' + Len(queue') = Behind + Len(queue)
      BY <1>2, <2>3, <2>4
    <3>6. OnWire'
      BY <1>3, <2>1, <2>4, <3>5 DEF StreamInv, Consecutive, OnWire
    <3> QED
      BY <3>4, <3>6 DEF Consecutive
  <2>8. StreamOrder'
    BY <1>2, <1>3, <2>1, <2>4, <2>6 DEF StreamInv, StreamOrder, StreamTypes
  <2> QED
    BY <2>5, <2>7, <2>8 DEF StreamInv
<1>6. CASE PutHeld
  <2>1. /\ held # 0 /\ queue' = Append(queue, held) /\ held' = 0
        /\ UNCHANGED <<wire, listener, dropped>>
    BY <1>6 DEF PutHeld
  <2>2. /\ queue' \in Seq(Nat) /\ Len(queue') = Len(queue) + 1
        /\ DOMAIN queue' = 1 .. Len(queue) + 1
        /\ \A i \in 1 .. Len(queue) : queue'[i] = queue[i]
        /\ queue'[Len(queue) + 1] = held
    BY <1>1, <2>1, PutFacts
  <2>3. listener = "on" /\ held = Behind + Len(queue) + 1 /\ Holding = 1 /\ Holding' = 0
    BY <2>1 DEF StreamInv, Consecutive, InHand, Holding
  <2>4. Behind' = Behind
    BY <1>3, <2>1 DEF Behind
  <2>5. StreamTypes'
    BY <1>1, <1>3, <2>1, <2>2 DEF StreamInv, StreamTypes
  <2>6. Consecutive'
    <3>1. \A i \in 1 .. Len(queue) : queue[i] = Behind + i
      BY <2>3 DEF StreamInv, Consecutive, InQueue
    <3>2. \A i \in 1 .. Len(queue') : i \in 1 .. Len(queue) \/ i = Len(queue) + 1
      BY <1>2, <2>2
    <3>3. \A i \in 1 .. Len(queue') : queue'[i] = Behind' + i
      <4>1. \A i \in 1 .. Len(queue) : queue'[i] = Behind + i
        BY <2>2, <3>1
      <4>2. queue'[Len(queue) + 1] = Behind + (Len(queue) + 1)
        BY <1>2, <2>2, <2>3
      <4> QED
        BY <2>4, <3>2, <4>1, <4>2
    <3>4. InQueue' /\ InHand'
      BY <2>1, <3>3 DEF InQueue, InHand
    <3>5. Behind' + Len(queue') + Holding' = Behind + Len(queue) + Holding
      BY <1>2, <2>2, <2>3, <2>4
    <3>6. OnWire'
      BY <1>3, <2>1, <3>5 DEF StreamInv, Consecutive, OnWire
    <3> QED
      BY <3>4, <3>6 DEF Consecutive
  <2>7. StreamOrder'
    BY <1>3, <2>1, <2>3, <2>4 DEF StreamInv, StreamOrder
  <2> QED
    BY <2>5, <2>6, <2>7 DEF StreamInv
<1>7. CASE ListenerDies
  <2>1. /\ listener = "on" /\ held = 0 /\ listener' = "dead" /\ UNCHANGED <<wire, held, dropped>>
        /\ queue' = queue \/ queue' = Append(queue, 0)
    BY <1>7 DEF ListenerDies
  <2>2. Behind' = Behind
    BY <1>3, <2>1 DEF Behind
  <2>3. CASE queue' = queue
    BY <1>1, <1>2, <1>3, <2>1, <2>2, <2>3 DEF StreamInv, StreamTypes, Consecutive, StreamOrder,
       InQueue, InHand, OnWire
  <2>4. CASE queue' = Append(queue, 0)
    <3>1. /\ queue' \in Seq(Nat) /\ Len(queue') = Len(queue) + 1
          /\ DOMAIN queue' = 1 .. Len(queue) + 1
          /\ \A i \in 1 .. Len(queue) : queue'[i] = queue[i]
          /\ queue'[Len(queue) + 1] = 0
      BY <1>1, <2>4, PutFacts
    <3>2. StreamTypes'
      BY <1>1, <1>3, <2>1, <3>1 DEF StreamInv, StreamTypes
    <3>3. Consecutive'
      BY <1>2, <2>1, <2>2, <3>1 DEF StreamInv, Consecutive, InQueue, InHand, OnWire
    <3>4. StreamOrder'
      BY <1>3, <2>1, <2>2 DEF StreamInv, StreamOrder
    <3> QED
      BY <3>2, <3>3, <3>4 DEF StreamInv
  <2> QED
    BY <2>1, <2>3, <2>4
<1> QED
  BY <1>4, <1>5, <1>6, <1>7 DEF ListenerStep

(* The client takes an event from the front of the queue, which is later   *)
(* than all it has taken; or the sentinel, behind which nothing comes.     *)
LEMMA ReceiveOrder ==
    ASSUME StreamInv, Receive, listener # "off"
    PROVE  StreamInv'
<1>1. /\ queue # <<>> /\ queue' = Tail(queue)
      /\ got' = IF Head(queue) = 0 THEN got ELSE Append(got, Head(queue))
      /\ UNCHANGED <<transport, log, terminal, wire, listener, held, dropped, missed>>
      /\ client' # "idle"
  BY DEF Receive, runVars
<1>2. /\ got \in Seq(Nat) /\ queue \in Seq(Nat) /\ wire \in Seq(Nat) /\ held \in Nat
      /\ log \in Nat /\ missed \in Nat /\ dropped \in Nat /\ terminal \in Nat
  BY DEF StreamInv, StreamTypes
<1>3. /\ Len(got) \in Nat /\ Len(queue) \in Nat /\ Len(wire) \in Nat
      /\ Behind \in Nat /\ Holding \in Nat /\ Holding' = Holding
  BY <1>1, <1>2, LenFacts DEF Behind, Holding
<1>4. /\ queue' \in Seq(Nat) /\ Len(queue) > 0 /\ Len(queue') = Len(queue) - 1
      /\ \A i \in 1 .. Len(queue) - 1 : queue'[i] = queue[i + 1]
      /\ Head(queue) = queue[1] /\ Head(queue) \in Nat
  BY <1>1, <1>2, TakeFacts
<1>5. /\ Head(queue) = Behind + 1 \/ (Head(queue) = 0 /\ Len(queue) = 1 /\ listener = "dead")
  BY <1>3, <1>4 DEF StreamInv, Consecutive, InQueue
<1>6. CASE Head(queue) = 0
  <2>1. Len(queue) = 1 /\ listener = "dead" /\ got' = got /\ Behind' = Behind /\ Len(queue') = 0
    BY <1>1, <1>3, <1>4, <1>5, <1>6 DEF Behind
  <2>2. StreamTypes'
    BY <1>1, <1>2, <1>4, <2>1 DEF StreamInv, StreamTypes
  <2>3. held = 0
    BY <2>1 DEF StreamInv, Consecutive, InHand
  <2>4. Consecutive'
    BY <1>1, <2>1, <2>3 DEF Consecutive, InQueue, InHand, OnWire
  <2>5. StreamOrder'
    BY <1>1, <2>1 DEF StreamInv, StreamOrder
  <2> QED
    BY <2>2, <2>4, <2>5 DEF StreamInv
<1>7. CASE Head(queue) # 0
  <2>1. Head(queue) = Behind + 1 /\ got' = Append(got, Head(queue))
    BY <1>1, <1>5, <1>7
  <2>2. /\ got' \in Seq(Nat) /\ Len(got') = Len(got) + 1
        /\ DOMAIN got = 1 .. Len(got) /\ DOMAIN got' = 1 .. Len(got) + 1
        /\ \A i \in 1 .. Len(got) : got'[i] = got[i]
        /\ got'[Len(got) + 1] = Behind + 1
    BY <1>2, <1>4, <2>1, PutFacts
  <2>3. Behind' = Behind + 1
    BY <1>1, <1>2, <1>3, <2>2 DEF Behind
  <2>4. StreamTypes'
    BY <1>1, <1>2, <1>4, <2>2 DEF StreamInv, StreamTypes
  <2>5. Behind' + Len(queue') = Behind + Len(queue)
    BY <1>3, <1>4, <2>3
  <2>6. InQueue'
    <3>1. SUFFICES ASSUME NEW i \in 1 .. Len(queue')
                   PROVE  \/ queue'[i] = Behind' + i
                          \/ queue'[i] = 0 /\ i = Len(queue') /\ listener' = "dead"
      BY DEF InQueue
    <3>2. i + 1 \in 1 .. Len(queue) /\ queue'[i] = queue[i + 1] /\ i \in Nat
      BY <1>3, <1>4, <3>1
    <3>3. \/ queue[i + 1] = Behind + (i + 1)
          \/ queue[i + 1] = 0 /\ i + 1 = Len(queue) /\ listener = "dead"
      BY <3>2 DEF StreamInv, Consecutive, InQueue
    <3>4. CASE queue[i + 1] = Behind + (i + 1)
      BY <1>3, <2>3, <3>2, <3>4
    <3>5. CASE queue[i + 1] = 0 /\ i + 1 = Len(queue) /\ listener = "dead"
      <4>1. i = Len(queue') /\ queue'[i] = 0
        BY <1>3, <1>4, <3>2, <3>5
      <4>2. listener' = "dead"
        BY <1>1, <3>5
      <4> QED
        BY <4>1, <4>2
    <3> QED
      BY <3>3, <3>4, <3>5
  <2>7. InHand' /\ OnWire'
    BY <1>1, <1>3, <2>5 DEF StreamInv, Consecutive, InHand, OnWire
  <2>8. /\ \A i \in DOMAIN got' : got'[i] <= Behind'
        /\ \A i, k \in DOMAIN got' : i < k => got'[i] < got'[k]
    <3>1. \A i \in DOMAIN got' : i \in DOMAIN got \/ i = Len(got) + 1
      BY <1>3, <2>2
    <3>2. \A i \in DOMAIN got : got'[i] = got[i] /\ got[i] \in Nat /\ got[i] <= Behind
      BY <1>2, <2>2, LenFacts DEF StreamInv, StreamOrder
    <3>3. \A i, k \in DOMAIN got : i < k => got[i] < got[k]
      BY DEF StreamInv, StreamOrder
    <3>4. \A i \in DOMAIN got' : got'[i] <= Behind'
      BY <1>3, <2>2, <2>3, <3>1, <3>2
    <3>5. ASSUME NEW i \in DOMAIN got', NEW k \in DOMAIN got', i < k PROVE got'[i] < got'[k]
      <4>1. i \in DOMAIN got
        BY <1>3, <2>2, <3>5
      <4>2. CASE k \in DOMAIN got
        BY <3>2, <3>3, <3>5, <4>1, <4>2
      <4>3. CASE k = Len(got) + 1
        BY <1>3, <2>2, <3>2, <4>1, <4>3
      <4> QED
        BY <3>1, <3>5, <4>2, <4>3
    <3> QED
      BY <3>4, <3>5
  <2>9. StreamOrder'
    BY <1>1, <2>8 DEF StreamInv, StreamOrder
  <2> QED
    BY <2>4, <2>6, <2>7, <2>9 DEF StreamInv, Consecutive
<1> QED
  BY <1>6, <1>7

(* Before the subscription the pipeline of a Pub/Sub channel is empty, and *)
(* the wire of a streams channel holds every event.                        *)
LEMMA SubscribeOrder ==
    ASSUME StreamInv, Subscribe
    PROVE  StreamInv'
<1>1. /\ client = "idle" /\ client' = "subscribing" /\ listener' = "on"
      /\ UNCHANGED <<transport, log, terminal, wire, held, queue, dropped, got, missed>>
  BY DEF Subscribe, runVars
<1>2. listener = "off"
  BY <1>1 DEF StreamInv, StreamOrder
<1>3. Behind' = Behind /\ Holding' = Holding
  BY <1>1 DEF Behind, Holding
<1>4. StreamTypes'
  BY <1>1 DEF StreamInv, StreamTypes
<1>5. Consecutive'
  BY <1>1, <1>2, <1>3 DEF StreamInv, Consecutive, InQueue, InHand, OnWire
<1>6. StreamOrder'
  BY <1>1, <1>3 DEF StreamInv, StreamOrder
<1> QED
  BY <1>4, <1>5, <1>6 DEF StreamInv

LEMMA StreamStep == Gate /\ StreamInv /\ [Next]_vars => StreamInv'
<1> SUFFICES ASSUME Gate, StreamInv, [Next]_vars PROVE StreamInv'
  OBVIOUS
<1>1. CASE UNCHANGED esVars
  BY <1>1, StreamSame DEF esVars, runVars, pipeVars
<1>2. CASE ReturnStream
  <2>1. PICK ok \in BOOLEAN : Build(ok)
    BY <1>2 DEF ReturnStream
  <2> QED
    BY <2>1, StreamSame DEF Build, pipeVars
<1>3. CASE Stream
  <2>1. ASSUME Subscribe PROVE StreamInv'
    BY <2>1, SubscribeOrder
  <2>2. ASSUME NEW ok \in BOOLEAN, OnSubscribe(ok) PROVE StreamInv'
    BY <2>2, StreamSame DEF OnSubscribe, pipeVars
  <2>3. ASSUME Receive PROVE StreamInv'
    BY <2>3, ReceiveOrder DEF Receive, Gate
  <2>4. ASSUME IdleTimeout PROVE StreamInv'
    BY <2>4, StreamSame DEF IdleTimeout, runVars, pipeVars
  <2>5. ASSUME ListenerStep PROVE StreamInv'
    BY <2>5, ListenerOrder
  <2> QED
    BY <1>3, <2>1, <2>2, <2>3, <2>4, <2>5 DEF Stream, ClientStep
<1>4. CASE Background
  <2>1. ASSUME NEW ok \in BOOLEAN, TimerFires(ok) PROVE StreamInv'
    BY <2>1, StreamSame DEF TimerFires, pipeVars
  <2>2. ASSUME NEW last \in BOOLEAN, Publish(last) PROVE StreamInv'
    BY <2>2, PublishOrder
  <2>3. ASSUME Crash PROVE StreamInv'
    BY <2>3, StreamSame DEF Crash, pipeVars
  <2> QED
    BY <1>4, <2>1, <2>2, <2>3 DEF Background
<1>5. CASE CloseGone
  BY <1>5, StreamSame DEF CloseGone, Disconnect, runVars, pipeVars
<1> QED
  BY <1>1, <1>2, <1>3, <1>4, <1>5 DEF Next, vars, Limiter, AbandonStream, CloseEnded

LEMMA StreamCorrect == Spec => []StreamInv
<1>1. Init => StreamInv
  BY DEF Init, EventStreamInit, StreamInv, StreamTypes, Consecutive, InQueue, InHand, OnWire,
     StreamOrder, Behind, Holding
<1>2. Gate /\ StreamInv /\ [Next]_vars => StreamInv'
  BY StreamStep
<1> QED
  BY <1>1, <1>2, GateCorrect, PTL DEF Spec

(* Events come in order and none twice; what is left out was published     *)
(* before the subscription or dropped from the full queue, and over Redis  *)
(* Streams nothing is: for any number of events and any size of the queue. *)
THEOREM GapsAreExplained == Spec => []GapsExplained
<1>1. StreamInv => GapsExplained
  <2> SUFFICES ASSUME StreamInv PROVE GapsExplained
    OBVIOUS
  <2>1. /\ got \in Seq(Nat) /\ missed \in Nat /\ dropped \in Nat
        /\ \A i \in DOMAIN got : got[i] <= Behind
        /\ \A i, k \in DOMAIN got : i < k => got[i] < got[k]
        /\ transport = "streams" => missed = 0 /\ dropped = 0
    BY DEF StreamInv, StreamTypes, StreamOrder
  <2>2. ASSUME got # <<>> PROVE Last(got) - missed - Len(got) <= dropped
    <3>1. Len(got) \in Nat /\ Len(got) \in DOMAIN got /\ got[Len(got)] \in Nat
      BY <2>1, <2>2, LenFacts
    <3>2. Last(got) = got[Len(got)]
      BY DEF Last
    <3>3. got[Len(got)] <= missed + Len(got) + dropped
      BY <2>1, <3>1 DEF Behind
    <3> QED
      BY <2>1, <3>1, <3>2, <3>3
  <2> QED
    BY <2>1, <2>2 DEF GapsExplained
<1> QED
  BY <1>1, StreamCorrect, PTL

-----------------------------------------------------------------------------
(* The limit, for any number of requests, processes and limits *)

Adding == {"add", "add again"}

LimitTypes ==
    /\ max \in [Servers -> Nat] /\ redisMax \in Nat /\ under \in [Requests -> Nat]
    /\ raced \in BOOLEAN

(* As long as no two requests were between hlen and hset at the same time, *)
(* the one that is there still finds fewer entries than its limit.         *)
RoomLeft ==
    ~raced => \A r \in Requests : pc[r] \in Adding => Cardinality(Entries) < under[r]

LimitInv == LimitTypes /\ RoomLeft

LEMMA Counting ==
    ASSUME NEW S \in SUBSET Requests
    PROVE  /\ Cardinality(S) \in Nat
           /\ \A T \in SUBSET S : Cardinality(T) \in Nat /\ Cardinality(T) <= Cardinality(S)
           /\ \A r \in Requests : Cardinality(S \union {r}) <= Cardinality(S) + 1
<1>1. IsFiniteSet(S)
  BY RateLimitConstants, FS_Subset
<1>2. Cardinality(S) \in Nat
  BY <1>1, FS_CardinalityType
<1>3. ASSUME NEW T \in SUBSET S PROVE Cardinality(T) \in Nat /\ Cardinality(T) <= Cardinality(S)
  BY <1>1, FS_Subset, FS_CardinalityType
<1>4. ASSUME NEW r \in Requests PROVE Cardinality(S \union {r}) <= Cardinality(S) + 1
  BY <1>1, <1>2, FS_AddElement
<1> QED
  BY <1>2, <1>3, <1>4

(* A step that adds no entry and lets nobody pass the check. *)
LEMMA LimitKept ==
    ASSUME LimitInv, LimitTypes', Entries' \subseteq Entries, raced' = raced,
           \A x \in Requests : pc'[x] \in Adding => pc[x] \in Adding /\ under'[x] = under[x]
    PROVE  LimitInv'
<1>1. /\ Cardinality(Entries) \in Nat /\ Cardinality(Entries') \in Nat
      /\ Cardinality(Entries') <= Cardinality(Entries)
  BY Counting DEF Entries
<1>2. ASSUME ~raced', NEW x \in Requests, pc'[x] \in Adding
      PROVE  Cardinality(Entries') < under'[x]
  <2>1. Cardinality(Entries) < under[x] /\ under'[x] = under[x] /\ under[x] \in Nat
    BY <1>2 DEF LimitInv, LimitTypes, RoomLeft
  <2> QED
    BY <1>1, <2>1
<1> QED
  BY <1>2 DEF LimitInv, RoomLeft

(* A sweep drops entries, and adds none. *)
LEMMA SweptShrinks ==
    ASSUME RequestOK
    PROVE  \A x \in Requests : Swept[x] \in {"fresh", "old"} => x \in Entries
BY DEF RequestOK, Swept, Entries

(* A request that is admitted has found fewer entries than its limit.      *)
LEMMA AdmitLimit ==
    ASSUME RequestOK, LimitInv, LimitTypes', raced' = raced, Entries' \subseteq Entries,
           NEW r \in Requests, NEW to, NEW most \in Nat, ~(Cardinality(Entries') >= most),
           pc' = [pc EXCEPT ![r] = to], under' = [under EXCEPT ![r] = most]
    PROVE  LimitInv'
<1>1. /\ Cardinality(Entries') \in Nat /\ Cardinality(Entries) \in Nat
      /\ Cardinality(Entries') <= Cardinality(Entries)
  BY Counting DEF Entries
<1>2. ASSUME ~raced', NEW x \in Requests, pc'[x] \in Adding
      PROVE  Cardinality(Entries') < under'[x]
  <2>1. CASE x = r
    <3>1. under'[x] = most
      BY <2>1 DEF LimitInv, LimitTypes
    <3> QED
      BY <1>1, <3>1
  <2>2. CASE x # r
    <3>1. under'[x] = under[x] /\ under[x] \in Nat /\ pc[x] \in Adding
      BY <1>2, <2>2 DEF LimitInv, LimitTypes, RequestOK
    <3>2. Cardinality(Entries) < under[x]
      BY <1>2, <3>1 DEF LimitInv, RoomLeft
    <3> QED
      BY <1>1, <3>1, <3>2
  <2> QED
    BY <2>1, <2>2
<1> QED
  BY <1>2 DEF LimitInv, RoomLeft

(* enter, up to hlen. *)
LEMMA CheckLimit ==
    ASSUME RequestOK, LimitInv, NEW r \in Requests, NEW from \in {"check", "check again"},
           NEW to \in Adding, Check(r, from, to)
    PROVE  LimitInv' /\ Entries' \subseteq Entries
<1> DEFINE p == server[r]
           most == IF p \in due THEN Flushed(p) ELSE max[p]
           e == IF p \in due THEN Swept ELSE active
           counted == {x \in Requests : e[x] \in {"fresh", "old"}}
<1>1. /\ pc[r] = from /\ max' = [max EXCEPT ![p] = most] /\ raced' = raced
      /\ redisMax' \in {most, redisMax}
      /\ \/ /\ pc' = [pc EXCEPT ![r] = "refused"] /\ active' \in {[e EXCEPT ![r] = "none"], e}
            /\ under' = under
         \/ /\ ~(Cardinality(counted) >= most)
            /\ pc' = [pc EXCEPT ![r] = to] /\ active' = e
            /\ under' = [under EXCEPT ![r] = most]
  BY DEF Check, Goto, Full, Exit
<1>2. p \in Servers /\ most \in Nat
  BY RateLimitConstants DEF LimitInv, LimitTypes, Flushed
<1>3. e \in [Requests -> {"none", "fresh", "old", "swept"}] /\ counted \subseteq Entries
  BY SweptRemains, SweptShrinks DEF RequestOK, Entries, Remains
<1>4. LimitTypes'
  <2> HIDE DEF most, e, p
  <2> QED
    BY <1>1, <1>2 DEF LimitInv, LimitTypes
<1> HIDE DEF most, e, p, counted
<1>5. CASE /\ pc' = [pc EXCEPT ![r] = "refused"] /\ active' \in {[e EXCEPT ![r] = "none"], e}
           /\ under' = under
  <2>1. Entries' \subseteq Entries
    BY <1>3, <1>5 DEF Entries, counted
  <2>2. \A x \in Requests : pc'[x] \in Adding => pc[x] \in Adding /\ under'[x] = under[x]
    BY <1>5 DEF RequestOK, Adding
  <2> QED
    BY <1>1, <1>4, <2>1, <2>2, LimitKept
<1>6. CASE /\ ~(Cardinality(counted) >= most)
           /\ pc' = [pc EXCEPT ![r] = to] /\ active' = e
           /\ under' = [under EXCEPT ![r] = most]
  <2>1. Entries' = counted /\ Entries' \subseteq Entries
    BY <1>3, <1>6 DEF Entries, counted
  <2>2. ~(Cardinality(Entries') >= most)
    BY <1>6, <2>1
  <2> QED
    BY <1>1, <1>2, <1>4, <1>6, <2>1, <2>2, AdmitLimit
<1> QED
  BY <1>1, <1>5, <1>6

(* hset: when nobody else is between hlen and hset, the entry that is      *)
(* added is within the limit of the check before it.                       *)
LEMMA AddLimit ==
    ASSUME RequestOK, LimitInv, NEW r \in Requests, NEW from \in Adding, NEW to \in PC \ Adding,
           Add(r, from, to)
    PROVE  /\ LimitInv'
           /\ \A x \in Requests :
                 x \in Entries' \ Entries /\ ~raced' => Cardinality(Entries') <= under[x]
<1>1. /\ pc[r] = from /\ pc' = [pc EXCEPT ![r] = to]
      /\ active' = [active EXCEPT ![r] = "fresh"] /\ under' = [under EXCEPT ![r] = 0]
      /\ raced' = (raced \/ \E x \in Requests \ {r} : pc[x] \in Adding)
      /\ UNCHANGED <<max, redisMax>>
  BY DEF Add, Goto, object, Adding
<1>2. LimitTypes'
  BY <1>1 DEF LimitInv, LimitTypes
<1>3. ~raced' => \A x \in Requests : pc'[x] \notin Adding
  BY <1>1 DEF RequestOK, Adding
<1>4. Entries' = Entries \union {r}
  BY <1>1 DEF Entries, RequestOK
<1>5. /\ Cardinality(Entries) \in Nat /\ Cardinality(Entries') \in Nat
      /\ Cardinality(Entries') <= Cardinality(Entries) + 1
  BY <1>4, Counting DEF Entries
<1>6. ASSUME NEW x \in Requests, x \in Entries' \ Entries, ~raced'
      PROVE  Cardinality(Entries') <= under[x]
  <2>1. x = r
    BY <1>4, <1>6
  <2>2. ~raced
    BY <1>1, <1>6 DEF LimitInv, LimitTypes
  <2>3. Cardinality(Entries) < under[r] /\ under[r] \in Nat
    BY <1>1, <2>2 DEF LimitInv, LimitTypes, RoomLeft
  <2> QED
    BY <1>5, <2>1, <2>3
<1> QED
  BY <1>2, <1>3, <1>6 DEF LimitInv, RoomLeft

(* What one step of the limiter may do to the entries. *)
Admits ==
    \A r \in Requests :
        r \in Entries' \ Entries /\ ~raced' => Cardinality(Entries') <= under[r]

LEMMA LimitStep == RequestOK /\ LimitInv /\ [RateLimitNext]_rlVars => LimitInv' /\ Admits
<1> SUFFICES ASSUME RequestOK, LimitInv, [RateLimitNext]_rlVars PROVE LimitInv' /\ Admits
  OBVIOUS
<1> DEFINE Quiet ==
             /\ raced' = raced /\ LimitTypes' /\ Entries' \subseteq Entries
             /\ \A x \in Requests : pc'[x] \in Adding => pc[x] \in Adding /\ under'[x] = under[x]
<1>1. ASSUME Quiet PROVE LimitInv' /\ Admits
  BY <1>1, LimitKept DEF Admits
<1>2. ASSUME NEW r \in Requests, NEW limit \in Limits,
             Construct(r, limit) \/ ConstructFails(r, limit)
      PROVE Quiet
  <2>1. LimitTypes'
    BY <1>2, RateLimitConstants DEF Construct, ConstructFails, history, LimitInv, LimitTypes
  <2>2. Entries' \subseteq Entries
    BY <1>2, SweptShrinks DEF Construct, ConstructFails, Entries
  <2> QED
    BY <1>2, <2>1, <2>2 DEF Construct, ConstructFails, Goto, history, RequestOK, Adding
<1>3. ASSUME NEW r \in Requests, QuotaRefused(r) PROVE Quiet
  BY <1>3 DEF QuotaRefused, Goto, history, object, RequestOK, Adding, Entries, LimitInv, LimitTypes
<1>4. ASSUME NEW r \in Requests, Leave(r) PROVE Quiet
  BY <1>4 DEF Leave, Goto, history, object, RequestOK, Adding, Entries, LimitInv, LimitTypes
<1>5. ASSUME NEW r \in Requests, Fail(r) \/ FlushFails(r) PROVE Quiet
  <2>1. PICK e \in {active, Swept} : Abort(r, e)
    BY <1>5 DEF Fail, FlushFails
  <2>2. LimitTypes'
    <3>1. max' \in [Servers -> Nat] /\ redisMax' \in Nat
      <4>1. Flushed(server[r]) \in Nat /\ server[r] \in Servers
        BY RateLimitConstants DEF Flushed, LimitInv, LimitTypes
      <4>2. \/ max' = max /\ redisMax' = redisMax
            \/ /\ max' = [max EXCEPT ![server[r]] = Flushed(server[r])]
               /\ redisMax' = Flushed(server[r])
        BY <1>5 DEF Fail, FlushFails
      <4> QED
        BY <4>1, <4>2 DEF LimitInv, LimitTypes
    <3> QED
      BY <2>1, <3>1 DEF Abort, LimitInv, LimitTypes
  <2>3. Entries' \subseteq Entries
    <3>1. \A x \in Requests : e[x] \in {"fresh", "old"} => x \in Entries
      BY SweptShrinks DEF Entries
    <3>2. active' \in {[e EXCEPT ![r] = "none"], e} /\ e \in [Requests -> {"none", "fresh", "old", "swept"}]
      BY <2>1, SweptRemains DEF Abort, Exit, Remains
    <3> QED
      BY <3>1, <3>2 DEF Entries
  <2> QED
    BY <2>1, <2>2, <2>3 DEF Abort, Goto, RequestOK, Adding, LimitInv, LimitTypes
<1>6. ASSUME NEW r \in Requests, Answer(r) PROVE Quiet
  BY <1>6 DEF Answer, Exit, Goto, history, object, RequestOK, Adding, Entries, LimitInv, LimitTypes
<1>7. ASSUME NEW r \in Requests, Age(r) PROVE Quiet
  BY <1>7 DEF Age, history, object, RequestOK, Adding, Entries, LimitInv, LimitTypes
<1>8. ASSUME NEW p \in Servers, FlushDue(p) PROVE Quiet
  BY <1>8 DEF FlushDue, history, Adding, Entries, LimitInv, LimitTypes
<1>9. ASSUME NEW r \in Requests, Return(r) \/ Iterate(r) \/ Abandon(r) PROVE Quiet
  BY <1>9 DEF Return, Iterate, Abandon, Goto, history, object, RequestOK, Adding, Entries,
     LimitInv, LimitTypes
<1>10. ASSUME NEW r \in Requests, Close(r) PROVE Quiet
  BY <1>10 DEF Close, Exit, Goto, history, object, RequestOK, Adding, Entries, LimitInv, LimitTypes
<1>11. ASSUME UNCHANGED rlVars PROVE Quiet
  BY <1>11 DEF rlVars, history, object, Adding, Entries, LimitInv, LimitTypes
<1>12. ASSUME NEW r \in Requests, Enter(r) \/ EnterAgain(r) PROVE LimitInv' /\ Admits
  <2>1. ASSUME Check(r, "check", "add") \/ Check(r, "check again", "add again")
        PROVE  LimitInv' /\ Admits
    BY <2>1, CheckLimit DEF Adding, Admits
  <2>2. ASSUME Add(r, "add", IF kind[r] = "workflow" THEN "check again" ELSE "generating")
        PROVE  LimitInv' /\ Admits
    BY <2>2, AddLimit DEF Adding, Admits, PC, Entered
  <2>3. ASSUME Add(r, "add again", "leave") PROVE LimitInv' /\ Admits
    BY <2>3, AddLimit DEF Adding, Admits, PC
  <2> QED
    BY <1>12, <2>1, <2>2, <2>3 DEF Enter, EnterAgain
<1> HIDE DEF Quiet
<1> QED
  BY <1>1, <1>2, <1>3, <1>4, <1>5, <1>6, <1>7, <1>8, <1>9, <1>10, <1>11, <1>12
     DEF RateLimitNext, RateLimitStep

LEMMA LimitCorrect == Spec => []LimitInv
<1>1. Init => LimitInv
  <2> SUFFICES ASSUME Init PROVE LimitInv
    OBVIOUS
  <2>1. LimitTypes
    BY DEF Init, RateLimitInit, LimitTypes, NoMax
  <2>2. \A r \in Requests : pc[r] \notin Adding
    BY DEF Init, RateLimitInit, Adding
  <2> QED
    BY <2>1, <2>2 DEF LimitInv, RoomLeft
<1>2. LimiterInv /\ LimitInv /\ [Next]_vars => LimitInv'
  BY LimiterSteps, LimitStep DEF LimiterInv
<1> QED
  BY <1>1, <1>2, LimiterCorrect, PTL DEF Spec

(* A request exceeds the limit it was checked against only if another one  *)
(* was between hlen and hset at the same time: for any number of requests, *)
(* of processes, and any limits that are set meanwhile.                    *)
THEOREM OnlyRacesExceed == Spec => OverLimitOnlyByRace
<1>1. LimiterInv /\ LimitInv /\ [Next]_vars
      => [\A r \in Requests :
             r \in Entries' \ Entries /\ ~raced' => Cardinality(Entries') <= under[r]]_vars
  BY LimiterSteps, LimitStep DEF LimiterInv, Admits
<1> QED
  BY <1>1, LimiterCorrect, LimitCorrect, PTL DEF Spec, OverLimitOnlyByRace
=============================================================================
