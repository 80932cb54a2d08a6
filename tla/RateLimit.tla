----------------------------- MODULE RateLimit -----------------------------
(***************************************************************************)
(* RateLimit (core/app/features/rate_limiting) as AppGenerateService uses  *)
(* it: the requests to one app, handled by the threads of several API      *)
(* processes, which share a Redis hash of active requests.                 *)
(*                                                                         *)
(* A blocking request is answered inside generate(); a streaming one gets  *)
(* a RateLimitGenerator; the streaming request of a workflow enters the    *)
(* limiter a second time, under the same id, to build its payload.         *)
(*                                                                         *)
(* hlen and hset are separate calls, so separate steps.  One RateLimit     *)
(* object per process is shared by its threads; every request assigns its  *)
(* max_active_requests again.  The infinite limit, 0, switches all of it   *)
(* off and is left out.                                                    *)
(*                                                                         *)
(* Any Redis call may fail, and so may the refund of the billing service.  *)
(* A call that fails after it took effect is the call followed by Fail.    *)
(***************************************************************************)
EXTENDS Naturals, FiniteSets

CONSTANTS Requests,
          Servers,    \* API processes
          server,     \* [Requests -> Servers]
          Limits      \* limits an administrator may configure, at any time

ASSUME RateLimitConstants ==
    /\ IsFiniteSet(Requests) /\ server \in [Requests -> Servers]
    /\ Limits \subseteq Nat \ {0}

VARIABLES
    max,      \* process -> max_active_requests of its object
    known,    \* processes whose object is initialized
    redisMax, \* the max_active_requests key, NoMax when it does not exist
    due,      \* processes whose last_recalculate_time is 5 minutes ago
    active,   \* the hash: request -> "none", "fresh", "old" (over 10 minutes);
              \* "swept" for an old entry that flush_cache dropped
    kind,     \* request -> "blocking", "stream", "workflow"
    pc,       \* request -> where its thread is
    charge,   \* request -> "none", "charged" (what consume took, nothing when
              \* billing is off or fails, stands), "refunded", "unrefunded"
    under,    \* request -> limit its check passed under, until it is added (history)
    raced,    \* two requests were between hlen and hset (history)
    left      \* requests whose entry exit could not delete (history)

object == <<max, known, redisMax, due>>
history == <<under, raced, left>>
rlVars == <<object, active, kind, pc, charge, history>>

NoMax == 0
Kinds == {"blocking", "stream", "workflow"}
Entered == {"generating", "returned", "serving"}
Over == {"done", "refused", "failed", "unbuilt"}
PC == {"new", "check", "add", "check again", "add again", "leave", "abandoned"} \union Entered \union Over

Entries == {r \in Requests : active[r] \in {"fresh", "old"}}

RateLimitInit ==
    /\ max = [p \in Servers |-> 0] /\ known = {} /\ redisMax = NoMax /\ due = {}
    /\ active = [r \in Requests |-> "none"]
    /\ kind \in [Requests -> Kinds]
    /\ pc = [r \in Requests |-> "new"]
    /\ charge = [r \in Requests |-> "none"]
    /\ under = [r \in Requests |-> 0] /\ raced = FALSE /\ left = {}

Goto(r, l) == pc' = [pc EXCEPT ![r] = l]

(* exit, when the entries are e: hdel of the request's entry, or an error  *)
(* that leaves it there.                                                   *)
Exit(r, e) ==
    \/ active' = [e EXCEPT ![r] = "none"] /\ UNCHANGED left
    \/ e[r] \in {"fresh", "old"} /\ active' = e /\ left' = left \union {r}

(* refund asks the billing service, if consume got a charge id from it,    *)
(* and is silent about errors.                                             *)
Refund(r) == \E c \in {"refunded", "unrefunded"} : charge' = [charge EXCEPT ![r] = c]

(* Mutant: flush_cache drops every entry. *)
MutantSwept == [r \in Requests |-> IF active[r] = "fresh" THEN "none" ELSE active[r]]

(* flush_cache: entries over 10 minutes old are dropped. *)
Swept == [r \in Requests |-> IF active[r] = "old" THEN "swept" ELSE active[r]]

-----------------------------------------------------------------------------
(* generate: the quota is consumed and RateLimit(app, limit) is called     *)
(* with the limit that _get_max_active_requests finds.  The first call in  *)
(* a process also writes it to Redis and sweeps.                           *)
Construct(r, limit) ==
    /\ pc[r] = "new"
    /\ charge' = [charge EXCEPT ![r] = "charged"]
    /\ max' = [max EXCEPT ![server[r]] = limit]
    /\ IF server[r] \notin known
       THEN known' = known \union {server[r]} /\ redisMax' = limit /\ active' = Swept
       ELSE UNCHANGED <<known, redisMax, active>>
    /\ Goto(r, "check")
    /\ UNCHANGED <<due, kind, history>>

(* An error after consume and before the try: in _get_max_active_requests, *)
(* or in the flush_cache of the first RateLimit(app, limit) of a process,  *)
(* before its setex, after it, or after the sweep.  There is no refund.    *)
ConstructFails(r, limit) ==
    /\ pc[r] = "new"
    /\ charge' = [charge EXCEPT ![r] = "charged"]
    /\ \/ UNCHANGED <<max, known, redisMax, active>>
       \/ /\ server[r] \notin known
          /\ known' = known \union {server[r]}
          /\ max' = [max EXCEPT ![server[r]] = limit]
          /\ \/ UNCHANGED <<redisMax, active>>
             \/ redisMax' = limit /\ active' \in {active, Swept}
    /\ Goto(r, "unbuilt")
    /\ UNCHANGED <<due, kind, history>>

(* QuotaExceededError of consume: the request ends before the limiter. *)
QuotaRefused(r) ==
    /\ pc[r] = "new"
    /\ Goto(r, "failed")
    /\ UNCHANGED <<object, active, kind, charge, history>>

(* Mutant: one request too many is let in. *)
MutantFull(n, most) == n > most

Full(n, most) == n >= most

(* The limit after flush_cache: the one in Redis, or the object's own,     *)
(* which is written there when the key does not exist.                     *)
Flushed(p) == IF redisMax = NoMax THEN max[p] ELSE redisMax

(* enter, up to hlen.  A flush that is due comes first.  AppInvokeQuota-   *)
(* ExceededError is refunded and exits like any other exception.           *)
Check(r, from, admitted) ==
    LET p == server[r]
        flush == p \in due
        most == IF flush THEN Flushed(p) ELSE max[p]
        entries == IF flush THEN Swept ELSE active
        counted == {x \in Requests : entries[x] \in {"fresh", "old"}}
    IN  /\ pc[r] = from
        /\ max' = [max EXCEPT ![p] = most]
        /\ redisMax' = IF flush THEN most ELSE redisMax
        /\ due' = due \ {p}
        /\ IF Full(Cardinality(counted), most)
           THEN /\ Goto(r, "refused")
                /\ Exit(r, entries)
                /\ Refund(r)
                /\ UNCHANGED under
           ELSE /\ Goto(r, admitted)
                /\ active' = entries
                /\ under' = [under EXCEPT ![r] = most]
                /\ UNCHANGED <<charge, left>>
        /\ UNCHANGED <<known, kind, raced>>

(* enter, hset. *)
Add(r, from, to) ==
    /\ pc[r] = from
    /\ active' = [active EXCEPT ![r] = "fresh"]
    /\ under' = [under EXCEPT ![r] = 0]
    /\ raced' = (raced \/ \E x \in Requests \ {r} : pc[x] \in {"add", "add again"})
    /\ Goto(r, to)
    /\ UNCHANGED <<object, kind, charge, left>>

Enter(r) == Check(r, "check", "add") \/ Add(r, "add", IF kind[r] = "workflow" THEN "check again" ELSE "generating")

(* rate_limit_context of a streaming workflow: enter, build, exit. *)
EnterAgain(r) == Check(r, "check again", "add again") \/ Add(r, "add again", "leave")

Leave(r) ==
    /\ pc[r] = "leave"
    /\ active' = [active EXCEPT ![r] = "none"]
    /\ Goto(r, "generating")
    /\ UNCHANGED <<object, kind, charge, history>>

(* Mutant: the except clause does not exit. *)
MutantAbort(r, e) ==
    /\ active' = e /\ UNCHANGED left
    /\ Refund(r)
    /\ Goto(r, "failed")
    /\ under' = [under EXCEPT ![r] = 0]
    /\ UNCHANGED <<known, kind, raced>>

(* The except clause of generate, when the entries are e. *)
Abort(r, e) ==
    /\ Refund(r)
    /\ Exit(r, e)
    /\ Goto(r, "failed")
    /\ under' = [under EXCEPT ![r] = 0]
    /\ UNCHANGED <<known, kind, raced>>

(* An exception inside the try, other than the limiter's own. *)
Fail(r) ==
    /\ \/ pc[r] \in {"add", "check again", "add again", "leave", "generating"}
       \/ pc[r] = "check" /\ server[r] \notin due
    /\ Abort(r, active)
    /\ UNCHANGED <<max, redisMax, due>>

(* One in a flush that is due, or in the hlen after it: before the limit   *)
(* was read or written, after it, or after the sweep.                      *)
FlushFails(r) ==
    LET p == server[r]
    IN  /\ pc[r] \in {"check", "check again"} /\ p \in due
        /\ due' = due \ {p}
        /\ \/ Abort(r, active) /\ UNCHANGED <<max, redisMax>>
           \/ /\ \E e \in {active, Swept} : Abort(r, e)
              /\ max' = [max EXCEPT ![p] = Flushed(p)] /\ redisMax' = Flushed(p)

(* The finally clause of a blocking request. *)
Answer(r) ==
    /\ pc[r] = "generating" /\ kind[r] = "blocking"
    /\ Exit(r, active)
    /\ Goto(r, "done")
    /\ UNCHANGED <<object, kind, charge, under, raced>>

(* A RateLimitGenerator is returned for a streaming request. *)
Return(r) ==
    /\ pc[r] = "generating" /\ kind[r] # "blocking"
    /\ Goto(r, "returned")
    /\ UNCHANGED <<object, active, kind, charge, history>>

Iterate(r) ==
    /\ pc[r] = "returned"
    /\ Goto(r, "serving")
    /\ UNCHANGED <<object, active, kind, charge, history>>

(* The client is gone before the first item: nothing closes a generator    *)
(* that was never started.                                                 *)
Abandon(r) ==
    /\ pc[r] = "returned"
    /\ Goto(r, "abandoned")
    /\ UNCHANGED <<object, active, kind, charge, history>>

(* close: the stream ends, fails or is closed by the server. *)
Close(r) ==
    /\ pc[r] = "serving"
    /\ Exit(r, active)
    /\ Goto(r, "done")
    /\ UNCHANGED <<object, kind, charge, under, raced>>

-----------------------------------------------------------------------------
(* Time passes; it is left out where no request is yet to look at it.      *)
TimeMatters == \E r \in Requests : pc[r] \in {"new", "check", "add", "check again"}

FlushDue(p) ==
    /\ p \in known \ due /\ TimeMatters
    /\ due' = due \union {p}
    /\ UNCHANGED <<max, known, redisMax, active, kind, pc, charge, history>>

(* An entry becomes over 10 minutes old. *)
Age(r) ==
    /\ active[r] = "fresh" /\ TimeMatters
    /\ active' = [active EXCEPT ![r] = "old"]
    /\ UNCHANGED <<object, kind, pc, charge, history>>

RateLimitStep ==
    \/ \E r \in Requests :
          \/ \E limit \in Limits : Construct(r, limit) \/ ConstructFails(r, limit)
          \/ QuotaRefused(r) \/ Enter(r) \/ EnterAgain(r) \/ Leave(r)
          \/ Fail(r) \/ FlushFails(r) \/ Answer(r) \/ Age(r)
    \/ \E p \in Servers : FlushDue(p)

RateLimitNext ==
    \/ RateLimitStep
    \/ \E r \in Requests : Return(r) \/ Iterate(r) \/ Abandon(r) \/ Close(r)

RateLimitSpec == RateLimitInit /\ [][RateLimitNext]_rlVars
=============================================================================
