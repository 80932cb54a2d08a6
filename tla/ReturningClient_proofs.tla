------------------------ MODULE ReturningClient_proofs ------------------------
(* The read-write lock, the event manager that uses it, and the client     *)
(* that comes back to a run, for any number of threads and events and any  *)
(* sizes of the queues.                                                    *)
(*                                                                         *)
(* Part 1: the lock excludes and loses no wakeup.  Part 2: the event       *)
(* manager uses the lock as its specification says, the consumer sees a    *)
(* prefix of what was collected, and all of it when the stream ends.       *)
(* Part 3: what a client that comes back misses, and how its stream ends.  *)
EXTENDS ReturningClient, FiniteSetTheorems, TLAPS


-----------------------------------------------------------------------------
(* Part 1: the lock alone *)

(* The readers are a finite set, whatever the threads do. *)
LEMMA ReadingFinite == IsFiniteSet(Reading)
BY LockAssumption, FS_Subset DEF Reading

(* LockInv holds initially: nobody reads, and the empty set counts zero. *)
LEMMA LockInvInit == LockInit => LockInv
<1> SUFFICES ASSUME LockInit PROVE LockInv
  OBVIOUS
<1>1. Reading = {}
  BY DEF LockInit, Reading
<1>2. readers = Cardinality(Reading)
  BY <1>1, FS_EmptySet DEF LockInit
<1>3. LockTypes
  BY DEF LockInit, LockTypes
<1> QED
  BY <1>2, <1>3, LockAssumption DEF LockInv, LockInit

(* Every step of a thread preserves LockInv. *)
LEMMA LockInvStep == LockInv /\ [LockNext]_lockVars => LockInv'
<1> SUFFICES ASSUME LockInv, [LockNext]_lockVars PROVE LockInv'
  OBVIOUS
<1> USE LockAssumption DEF LockInv, LockTypes
<1>1. ASSUME NEW t \in Threads, acquire_read(t) PROVE LockInv'
  <2>1. Reading' = Reading \union {t} /\ t \notin Reading
    BY <1>1 DEF acquire_read, Reading
  <2>2. Cardinality(Reading') = Cardinality(Reading) + 1
    BY <2>1, ReadingFinite, FS_AddElement
  <2>3. readers' = Cardinality(Reading')
    BY <1>1, <2>2 DEF acquire_read
  <2> QED
    BY <1>1, <2>3 DEF acquire_read
<1>2. ASSUME NEW t \in Threads, release_read(t) PROVE LockInv'
  <2>1. Reading' = Reading \ {t} /\ t \in Reading
    BY <1>2 DEF release_read, Reading
  <2>2. Cardinality(Reading) \in Nat /\ Cardinality(Reading') = Cardinality(Reading) - 1
    BY <2>1, ReadingFinite, FS_RemoveElement, FS_CardinalityType
  <2>3. Reading # {}
    BY <2>1
  <2>4. readers > 0
    BY <2>3, <2>2, ReadingFinite, FS_EmptySet
  <2>5. readers' = Cardinality(Reading') /\ readers' \in Nat
    BY <1>2, <2>2, <2>4 DEF release_read
  <2>6. (\E u \in Threads : pc'[u] = "waiting") => readers' > 0
    BY <1>2, <2>4 DEF release_read
  <2> QED
    BY <1>2, <2>5, <2>6 DEF release_read
<1>3. ASSUME NEW t \in Threads, acquire_write(t) PROVE LockInv'
  <2>1. Reading' = Reading
    BY <1>3 DEF acquire_write, Reading
  <2> QED
    BY <1>3, <2>1 DEF acquire_write
<1>4. ASSUME NEW t \in Threads, release_write(t) PROVE LockInv'
  <2>1. Reading' = Reading
    BY <1>4 DEF release_write, Reading
  <2> QED
    BY <1>4, <2>1 DEF release_write
<1>5. CASE UNCHANGED lockVars
  BY <1>5 DEF lockVars, Reading
<1> QED
  BY <1>1, <1>2, <1>3, <1>4, <1>5 DEF LockNext

(* The inductive invariant of the lock holds for any number of threads:    *)
(* _readers counts exactly the threads in a read section, and the mutex is *)
(* held exactly by the thread in a write section.                          *)
THEOREM LockInvariant == LockSpec => []LockInv
BY LockInvInit, LockInvStep, PTL DEF LockSpec

(* Mutual exclusion: whoever is between acquire_write and release_write is *)
(* alone.                                                                  *)
THEOREM MutualExclusion == LockSpec => []WriterIsAlone
<1>1. LockInv => WriterIsAlone
  <2> SUFFICES ASSUME LockInv, NEW t \in Writing PROVE Writing = {t} /\ Reading = {}
    BY DEF WriterIsAlone
  <2>1. owner = t /\ t \in Threads
    BY DEF LockInv, Writing
  <2>2. Writing = {t}
    BY <2>1 DEF LockInv, Writing
  <2>3. Cardinality(Reading) = 0
    BY <2>1, LockAssumption DEF LockInv
  <2> QED
    BY <2>2, <2>3, ReadingFinite, FS_EmptySet
<1> QED
  BY <1>1, LockInvariant, PTL

(* No lost wakeup: a writer in Condition.wait always has a reader that     *)
(* will notify it.                                                         *)
THEOREM WakeupKept == LockSpec => []NoLostWakeup
<1>1. LockInv => NoLostWakeup
  <2> SUFFICES ASSUME LockInv, \E t \in Threads : pc[t] = "waiting" PROVE Reading # {}
    BY DEF NoLostWakeup
  <2>1. Cardinality(Reading) > 0
    BY DEF LockInv
  <2> QED
    BY <2>1, FS_EmptySet
<1> QED
  BY <1>1, LockInvariant, PTL

-----------------------------------------------------------------------------
(* Part 2: the event manager, which uses it *)

(* The threads of this component are threads of the lock. *)
LEMMA ThreadsKnown == Dispatcher \in Threads /\ Caller \in Threads /\ Dispatcher # Caller
BY EventAssumption

(* Every step of the component is a step of the lock or leaves it alone. *)
LEMMA LockStep == [Next]_vars => [LockNext]_lockVars
<1> USE ThreadsKnown
<1>1. Collecting => [LockNext]_lockVars
  BY DEF Collecting, CollectLocks, collect, mark_complete, LockNext
<1>2. Emitting => [LockNext]_lockVars
  BY DEF Emitting, TestFlag, ReadLocks, TestCount, FetchNew, YieldEvent, BatchDone, LockNext
<1>3. UNCHANGED vars => UNCHANGED lockVars
  BY DEF vars
<1> QED
  BY <1>1, <1>2, <1>3 DEF Next

(* collect, _event_count and _get_new_events use the lock the way its      *)
(* specification allows.                                                   *)
THEOREM UsesLock == Spec => LockSpec
<1>1. Init => LockInit
  BY DEF Init
<1> QED
  BY <1>1, LockStep, PTL DEF Spec, LockSpec

(* So what was proved of the lock holds of the component: the dispatcher   *)
(* never appends while the caller's thread reads the list.                 *)
THEOREM ListIsProtected == Spec => []WriterIsAlone
BY UsesLock, MutualExclusion, PTL

(* The inductive invariant of the stream: what was yielded and what is     *)
(* about to be are the beginning of the list, the caller tests the count   *)
(* only after the dispatcher has gone, and it ends only with everything    *)
(* yielded.                                                                *)
StreamInv ==
    /\ events \in Seq(Nat) /\ batch \in Seq(Nat) /\ yielded \in Seq(Nat)
    /\ Len(yielded) + Len(batch) <= Len(events)
    /\ \A i \in 1..Len(yielded) : yielded[i] = events[i]
    /\ \A i \in 1..Len(batch) : batch[i] = events[Len(yielded) + i]
    /\ complete => pc[Dispatcher] = "out"
    /\ emit \in {"count", "ended"} => complete
    /\ emit # "yield" => batch = <<>>
    /\ emit = "ended" => Len(yielded) = Len(events)

(* StreamInv holds initially. *)
LEMMA StreamInit == Init => StreamInv
<1> SUFFICES ASSUME Init PROVE StreamInv
  OBVIOUS
<1>1. events = <<>> /\ batch = <<>> /\ yielded = <<>> /\ emit = "flag" /\ ~complete
  BY DEF Init
<1> QED
  BY <1>1 DEF StreamInv

(* The step of the invariant, action by action.  The lists grow only at    *)
(* their end, and after the flag is set the dispatcher is out for good.    *)
LEMMA StreamStep == LockInv /\ StreamInv /\ [Next]_vars => StreamInv'
<1> SUFFICES ASSUME LockInv, StreamInv, [Next]_vars PROVE StreamInv'
  OBVIOUS
<1> USE ThreadsKnown DEF StreamInv
<1>0. pc \in [Threads -> {"out", "reading", "waiting", "woken", "writing"}]
  BY DEF LockInv, LockTypes
<1>1. CASE CollectLocks
  <2>1. ~complete /\ UNCHANGED eventVars
    BY <1>1 DEF CollectLocks
  <2> QED
    BY <2>1 DEF eventVars
<1>2. CASE collect
  <2>1. ~complete /\ UNCHANGED <<complete, emit, batch, yielded>>
    BY <1>2 DEF collect, release_write
  <2>2. events' = Append(events, Len(events) + 1)
    BY <1>2 DEF collect
  <2>3. /\ events' \in Seq(Nat) /\ Len(events') = Len(events) + 1
        /\ \A i \in 1..Len(events) : events'[i] = events[i]
    BY <2>2
  <2>4. Len(yielded) \in Nat /\ Len(batch) \in Nat /\ Len(events) \in Nat
    OBVIOUS
  <2>5. ASSUME NEW i \in 1..Len(yielded) PROVE yielded[i] = events'[i]
    <3>1. i \in 1..Len(events)
      BY <2>4
    <3> QED
      BY <3>1, <2>3
  <2>6. ASSUME NEW i \in 1..Len(batch) PROVE batch[i] = events'[Len(yielded) + i]
    <3>1. Len(yielded) + i \in 1..Len(events)
      BY <2>4
    <3> QED
      BY <3>1, <2>3
  <2>7. Len(yielded) + Len(batch) <= Len(events')
    BY <2>3, <2>4
  <2>8. emit \notin {"count", "ended"}
    BY <2>1
  <2> QED
    BY <2>1, <2>3, <2>5, <2>6, <2>7, <2>8
<1>3. CASE mark_complete
  <2>1. pc[Dispatcher] = "out" /\ UNCHANGED <<pc, events, emit, batch, yielded>>
        /\ complete'
    BY <1>3 DEF mark_complete, lockVars
  <2> QED
    BY <2>1
<1>4. CASE TestFlag
  <2>1. UNCHANGED <<pc, events, complete, batch, yielded>>
    BY <1>4 DEF TestFlag, lockVars
  <2>2. batch = <<>> /\ emit' \in {"count", "fetch"} /\ (emit' = "count" => complete)
    BY <1>4 DEF TestFlag
  <2> QED
    BY <2>1, <2>2
<1>5. CASE ReadLocks
  <2>1. UNCHANGED eventVars
    BY <1>5 DEF ReadLocks
  <2>2. pc'[Dispatcher] = pc[Dispatcher]
    BY <1>5, <1>0 DEF ReadLocks, acquire_read
  <2> QED
    BY <2>1, <2>2 DEF eventVars
<1>6. ASSUME release_read(Caller) PROVE pc[Dispatcher] = "out" => pc'[Dispatcher] = "out"
  BY <1>6, <1>0 DEF release_read
<1>7. CASE TestCount
  <2>1. UNCHANGED <<events, complete, batch, yielded>>
    BY <1>7 DEF TestCount
  <2>2. batch = <<>> /\ emit = "count"
    BY <1>7 DEF TestCount
  <2>3. emit' \in {"fetch", "ended"} /\ (emit' = "ended" => ~(Len(yielded) < Len(events)))
    BY <1>7 DEF TestCount
  <2>4. emit' = "ended" => Len(yielded) = Len(events)
    BY <2>3, <2>2
  <2>5. complete => pc'[Dispatcher] = "out"
    BY <1>6, <1>7 DEF TestCount
  <2> QED
    BY <2>1, <2>2, <2>3, <2>4, <2>5
<1>8. CASE FetchNew
  <2>1. UNCHANGED <<events, complete, yielded>> /\ emit' = "yield" /\ batch = <<>>
    BY <1>8 DEF FetchNew
  <2>2. batch' = SubSeq(events, Len(yielded) + 1, Len(events))
    BY <1>8 DEF FetchNew
  <2>3. /\ batch' \in Seq(Nat) /\ Len(batch') = Len(events) - Len(yielded)
        /\ \A i \in 1..Len(batch') : batch'[i] = events[Len(yielded) + i]
    BY <2>1, <2>2
  <2>4. complete => pc'[Dispatcher] = "out"
    BY <1>6, <1>8 DEF FetchNew
  <2> QED
    BY <2>1, <2>3, <2>4
<1>9. CASE YieldEvent
  <2>1. UNCHANGED <<pc, events, complete, emit>> /\ emit = "yield" /\ batch # <<>>
    BY <1>9 DEF YieldEvent, lockVars
  <2>2. yielded' = Append(yielded, Head(batch)) /\ batch' = Tail(batch)
    BY <1>9 DEF YieldEvent
  <2>3. /\ yielded' \in Seq(Nat) /\ Len(yielded') = Len(yielded) + 1
        /\ \A i \in 1..Len(yielded) : yielded'[i] = yielded[i]
        /\ yielded'[Len(yielded) + 1] = batch[1]
    BY <2>1, <2>2
  <2>4. /\ batch' \in Seq(Nat) /\ Len(batch') = Len(batch) - 1
        /\ \A i \in 1..Len(batch') : batch'[i] = batch[i + 1]
    BY <2>1, <2>2
  <2>5. Len(batch) > 0
    BY <2>1
  <2>6. Len(yielded) \in Nat /\ Len(batch) \in Nat
    OBVIOUS
  <2>7. ASSUME NEW i \in 1..Len(yielded') PROVE yielded'[i] = events[i]
    <3>1. CASE i \in 1..Len(yielded)
      BY <3>1, <2>3
    <3>2. CASE i = Len(yielded) + 1
      <4>1. 1 \in 1..Len(batch)
        BY <2>5, <2>6
      <4> QED
        BY <3>2, <4>1, <2>3
    <3> QED
      BY <3>1, <3>2, <2>3, <2>6
  <2>8. ASSUME NEW i \in 1..Len(batch') PROVE batch'[i] = events[Len(yielded') + i]
    <3>1. i + 1 \in 1..Len(batch) /\ Len(yielded) + (i + 1) = Len(yielded') + i
      BY <2>3, <2>4, <2>6
    <3> QED
      BY <3>1, <2>4
  <2> QED
    BY <2>1, <2>3, <2>4, <2>5, <2>6, <2>7, <2>8
<1>10. CASE BatchDone
  <2>1. UNCHANGED <<pc, events, complete, batch, yielded>> /\ batch = <<>> /\ emit' = "flag"
    BY <1>10 DEF BatchDone, lockVars
  <2> QED
    BY <2>1
<1>11. CASE UNCHANGED vars
  <2>1. UNCHANGED <<pc, events, complete, emit, batch, yielded>>
    BY <1>11 DEF vars, lockVars, eventVars
  <2> QED
    BY <2>1
<1> QED
  BY <1>1, <1>2, <1>3, <1>4, <1>5, <1>7, <1>8, <1>9, <1>10, <1>11 DEF Next, Collecting, Emitting

(* Both invariants hold together. *)
LEMMA StreamInvariant == Spec => [](LockInv /\ StreamInv)
<1>1. Spec => []LockInv
  BY UsesLock, LockInvariant, PTL
<1> QED
  BY <1>1, StreamInit, StreamStep, PTL DEF Spec

(* emit_events hands the events over in the order in which collect         *)
(* appended them, none twice and none left out.                            *)
THEOREM OrderKept == Spec => []InOrder
<1>1. StreamInv => InOrder
  <2> SUFFICES ASSUME StreamInv PROVE InOrder
    OBVIOUS
  <2> DEFINE s == yielded \o batch
  <2>1. /\ s \in Seq(Nat) /\ Len(s) = Len(yielded) + Len(batch)
        /\ \A i \in 1..Len(yielded) : s[i] = yielded[i]
        /\ \A i \in 1..Len(batch) : s[Len(yielded) + i] = batch[i]
    BY DEF StreamInv
  <2>2. Len(s) <= Len(events)
    BY <2>1 DEF StreamInv
  <2>3. ASSUME NEW i \in 1..Len(s) PROVE s[i] = events[i]
    <3>1. CASE i <= Len(yielded)
      BY <3>1, <2>1 DEF StreamInv
    <3>2. CASE i > Len(yielded)
      <4>1. i - Len(yielded) \in 1..Len(batch) /\ Len(yielded) + (i - Len(yielded)) = i
        BY <3>2, <2>1 DEF StreamInv
      <4>2. s[i] = batch[i - Len(yielded)]
        BY <4>1, <2>1
      <4>3. batch[i - Len(yielded)] = events[i]
        BY <4>1 DEF StreamInv
      <4> QED
        BY <4>2, <4>3
    <3> QED
      BY <3>1, <3>2, <2>1 DEF StreamInv
  <2>4. events \in Seq(Nat)
    BY DEF StreamInv
  <2> HIDE DEF s
  <2>5. SubSeq(s, 1, Len(s)) = SubSeq(events, 1, Len(s))
    BY <2>1, <2>2, <2>3, <2>4
  <2>6. IsPrefix(s, events)
    BY <2>2, <2>5 DEF IsPrefix
  <2> QED
    BY <2>6 DEF InOrder, s
<1> QED
  BY <1>1, StreamInvariant, PTL

(* When emit_events has returned, the consumer has every event, and no     *)
(* further one is collected.                                               *)
THEOREM StreamComplete == Spec => NothingLost
<1>1. StreamInv => (emit = "ended" => yielded = events)
  BY DEF StreamInv
<1>2. (emit = "ended") /\ [Next]_vars => (emit = "ended")'
  BY DEF Next, Collecting, Emitting, CollectLocks, collect, mark_complete, TestFlag,
         ReadLocks, TestCount, FetchNew, YieldEvent, BatchDone, vars, eventVars
<1> QED
  BY <1>1, <1>2, StreamInvariant, PTL DEF Spec, NothingLost

-----------------------------------------------------------------------------
(* Part 3: the client that comes back *)

(* What is on its way to the client. *)
InHand == IF held = None THEN {} ELSE {held}

Inc(s) == \A i, k \in DOMAIN s : i < k => s[i] < s[k]
Earlier(S, T) == \A a \in S, b \in T : a < b

(* The layers and the pipeline.  An event is saved before the next one is  *)
(* collected, so at most one of those published is not saved.              *)
RunInv ==
    /\ saved \in Nat /\ saved <= Len(events) /\ Len(events) <= saved + 1
    /\ Len(events) <= MaxEvents
    /\ pc[Dispatcher] # "out" => saved = Len(events) /\ Len(events) < MaxEvents
    /\ resumed \in BOOLEAN /\ log \in Seq(Nat) /\ Inc(log)
    /\ resumed => Len(log) > 0
    /\ Published <= Len(yielded) => \A e \in ToSet(log) : e <= Published
    /\ Published > Len(yielded) => Published = Len(yielded) + 1 /\ phase \in {"paused_again", "finished"}
    /\ \A e \in ToSet(log) : (e = 0 => resumed) /\ (e <= Len(yielded) \/ e = TheEnd)

(* What the client has read. *)
ReadInv ==
    /\ snap \in Nat
    /\ \A e \in atRead : e \in 1 .. snap \/ e \in {0, snap + 1, TheEnd}

(* The queues and the client hold published events in the order of their   *)
(* publication.                                                            *)
PipeTypes ==
    /\ transport \in {"pubsub", "streams"}
    /\ got \in Seq(Nat) /\ buffer \in Seq(Nat) /\ sub \in Seq(Nat) /\ held \in Nat
    /\ ToSet(got) \union ToSet(buffer) \union InHand \subseteq ToSet(log)
    /\ ToSet(sub) \subseteq ToSet(log) \union {Sentinel}
    /\ listener = "on" => Sentinel \notin ToSet(sub)
    /\ client \in {"away", "read", "snapshot"} =>
          listener = "off" /\ got = <<>> /\ buffer = <<>> /\ held = None /\ sub = <<>>

PipeOrder ==
    /\ Inc(got) /\ Inc(buffer) /\ Inc(sub)
    /\ Earlier(ToSet(got), ToSet(buffer) \union InHand \union ToSet(sub))
    /\ Earlier(ToSet(buffer), InHand \union ToSet(sub))
    /\ Earlier(InHand, ToSet(sub))

(* Nothing published is missing, but for what was dropped and, over        *)
(* Pub/Sub, what was published before the subscription.                    *)
Covered ==
    client \in Following /\ listener = "on" =>
        \A e \in ToSet(log) :
            \/ e \in ToSet(sub) \union ToSet(buffer) \union InHand \union ToSet(got) \union dropped
            \/ transport = "pubsub" /\ e \in before

(* Over Pub/Sub the subscription holds nothing that was published before.  *)
Apart ==
    /\ before \subseteq ToSet(log)
    /\ transport = "pubsub" =>
          \A e \in before : e \notin ToSet(sub) \union ToSet(buffer) \union InHand \union ToSet(got)

(* Why the stream ended.  A pause of before the resumption reaches the     *)
(* queues over Redis Streams only.                                         *)
EndInv ==
    /\ client # "closed" => why = "none"
    /\ why = "pause" => seen \in Paused
    /\ why = "event" =>
          TheEnd \in ToSet(got) \/ (resumed /\ transport = "streams" /\ got # <<>> /\ Last(got) = 0)
    /\ why = "done" => buffer = <<>> /\ held = None
    /\ client = "test_empty" => done
    /\ done => held = None
    /\ 0 \in ToSet(sub) \union ToSet(buffer) \union InHand => transport = "streams"

ReturnInv == RunInv /\ ReadInv /\ PipeTypes /\ PipeOrder /\ Covered /\ Apart /\ EndInv

LEMMA AppendFacts ==
    ASSUME NEW s \in Seq(Nat), NEW x \in Nat, NEW t, t = Append(s, x)
    PROVE  /\ t \in Seq(Nat) /\ ToSet(t) = ToSet(s) \union {x} /\ t # <<>> /\ Last(t) = x
           /\ Inc(s) /\ (\A a \in ToSet(s) : a < x) => Inc(t)
<1>1. Len(s) \in Nat /\ DOMAIN s = 1 .. Len(s)
  OBVIOUS
<1>2. /\ t \in Seq(Nat) /\ Len(t) = Len(s) + 1 /\ DOMAIN t = 1 .. Len(s) + 1
      /\ t[Len(s) + 1] = x /\ \A i \in 1 .. Len(s) : t[i] = s[i]
  BY <1>1
<1>3. t # <<>> /\ Last(t) = x
  BY <1>1, <1>2 DEF Last
<1>4. ToSet(t) = ToSet(s) \union {x}
  BY <1>1, <1>2 DEF ToSet
<1>5. ASSUME Inc(s), \A a \in ToSet(s) : a < x PROVE Inc(t)
  <2> SUFFICES ASSUME NEW i \in DOMAIN t, NEW k \in DOMAIN t, i < k PROVE t[i] < t[k]
    BY DEF Inc
  <2>1. i \in DOMAIN s /\ t[i] = s[i]
    BY <1>1, <1>2
  <2>2. CASE k \in DOMAIN s
    BY <1>1, <1>2, <1>5, <2>1, <2>2 DEF Inc
  <2>3. CASE k \notin DOMAIN s
    <3>1. t[k] = x
      BY <1>1, <1>2, <2>3
    <3>2. s[i] \in ToSet(s)
      BY <2>1 DEF ToSet
    <3> QED
      BY <1>5, <2>1, <3>1, <3>2
  <2> QED
    BY <2>2, <2>3
<1> QED
  BY <1>2, <1>3, <1>4, <1>5

LEMMA TailFacts ==
    ASSUME NEW s \in Seq(Nat), s # <<>>, NEW t, t = Tail(s)
    PROVE  /\ t \in Seq(Nat) /\ Head(s) \in Nat /\ ToSet(s) = ToSet(t) \union {Head(s)}
           /\ Inc(s) => Inc(t) /\ \A a \in ToSet(t) : Head(s) < a
<1>1. Len(s) \in Nat /\ Len(s) > 0 /\ DOMAIN s = 1 .. Len(s) /\ Head(s) = s[1] /\ s[1] \in Nat
  OBVIOUS
<1>2. /\ t \in Seq(Nat) /\ Len(t) = Len(s) - 1 /\ DOMAIN t = 1 .. Len(s) - 1
      /\ \A i \in 1 .. Len(s) - 1 : t[i] = s[i + 1]
  BY <1>1
<1>3. ToSet(s) = ToSet(t) \union {s[1]}
  <2>1. \A i \in 1 .. Len(s) : i = 1 \/ (i - 1 \in DOMAIN t /\ t[i - 1] = s[i])
    BY <1>1, <1>2
  <2>2. \A i \in DOMAIN t : i + 1 \in DOMAIN s /\ t[i] = s[i + 1]
    BY <1>1, <1>2
  <2>3. ASSUME NEW a \in ToSet(s) PROVE a \in ToSet(t) \union {s[1]}
    BY <1>1, <2>1 DEF ToSet
  <2>4. ASSUME NEW a \in ToSet(t) PROVE a \in ToSet(s)
    BY <2>2 DEF ToSet
  <2>5. s[1] \in ToSet(s)
    BY <1>1 DEF ToSet
  <2> QED
    BY <2>3, <2>4, <2>5
<1>4. ASSUME Inc(s) PROVE Inc(t) /\ \A a \in ToSet(t) : s[1] < a
  <2>1. ASSUME NEW i \in DOMAIN t, NEW k \in DOMAIN t, i < k
        PROVE  t[i] < t[k]
    <3>1. /\ i + 1 \in DOMAIN s /\ k + 1 \in DOMAIN s /\ i + 1 < k + 1
          /\ t[i] = s[i + 1] /\ t[k] = s[k + 1]
      BY <1>1, <1>2, <2>1
    <3> QED
      BY <3>1, <1>4 DEF Inc
  <2>2. ASSUME NEW i \in DOMAIN t
        PROVE  s[1] < t[i]
    <3>1. 1 \in DOMAIN s /\ i + 1 \in DOMAIN s /\ 1 < i + 1 /\ t[i] = s[i + 1]
      BY <1>1, <1>2
    <3> QED
      BY <3>1, <1>4 DEF Inc
  <2> QED
    BY <2>1, <2>2 DEF Inc, ToSet
<1> QED
  BY <1>1, <1>2, <1>3, <1>4

LEMMA EmptyFacts == ToSet(<<>>) = {} /\ Inc(<<>>) /\ <<>> \in Seq(Nat)
BY DEF ToSet, Inc

(* The numbers that are no events. *)
LEMMA MarkFacts ==
    /\ MaxEvents \in Nat /\ TheEnd \in Nat /\ Sentinel \in Nat /\ None \in Nat
    /\ MaxEvents < TheEnd /\ 0 < TheEnd /\ TheEnd < Sentinel /\ Sentinel < None
BY EventAssumption DEF TheEnd, Sentinel, None

LEMMA LogFacts ==
    ASSUME StreamInv, RunInv
    PROVE  /\ ToSet(log) \subseteq 0 .. TheEnd
           /\ Len(yielded) \in Nat /\ Len(events) \in Nat /\ Len(log) \in Nat
           /\ Len(yielded) <= Len(events) /\ Published \in Nat
<1>1. /\ Len(yielded) \in Nat /\ Len(events) \in Nat
      /\ Len(yielded) <= Len(events)
  <2>1. /\ yielded \in Seq(Nat) /\ batch \in Seq(Nat) /\ events \in Seq(Nat)
        /\ Len(yielded) + Len(batch) <= Len(events)
    BY DEF StreamInv
  <2>2. Len(yielded) \in Nat /\ Len(batch) \in Nat /\ Len(events) \in Nat
    BY <2>1
  <2> QED
    BY <2>1, <2>2
<1>2. /\ log \in Seq(Nat) /\ Len(events) <= MaxEvents
      /\ \A e \in ToSet(log) : e <= Len(yielded) \/ e = TheEnd
  BY DEF RunInv
<1>3. Len(log) \in Nat /\ \A e \in ToSet(log) : e \in Nat
  BY <1>2 DEF ToSet
<1>4. \A e \in ToSet(log) : e <= TheEnd
  <2> SUFFICES ASSUME NEW e \in ToSet(log), e <= Len(yielded) PROVE e <= TheEnd
    BY <1>2, MarkFacts
  <2> QED
    BY <1>1, <1>2, <1>3, MarkFacts
<1>5. Published \in Nat
  <2>1. resumed => Len(log) > 0
    BY DEF RunInv
  <2> QED
    BY <1>3, <2>1 DEF Published
<1> QED
  BY <1>1, <1>3, <1>4, <1>5, MarkFacts

-----------------------------------------------------------------------------
(* The run *)

LEMMA RunKept ==
    ASSUME RunInv, UNCHANGED <<vars, saved, log, phase, resumed>>
    PROVE  RunInv'
BY DEF RunInv, Published, vars, lockVars, eventVars

(* What the threads of the manager do to its lists and to the lock. *)
LEMMA ManagerEffect ==
    ASSUME LockInv, StreamInv, ManagerStep
    PROVE  /\ Len(yielded') \in Nat /\ Len(yielded) <= Len(yielded')
           /\ \/ Len(events') = Len(events) /\ (pc'[Dispatcher] # "out" => pc[Dispatcher] # "out")
              \/ Len(events') = Len(events) /\ saved = Len(events) /\ Len(events) < MaxEvents
              \/ /\ Len(events') = Len(events) + 1
                 /\ pc[Dispatcher] # "out" /\ pc'[Dispatcher] = "out"
<1> USE ThreadsKnown
<1>0. /\ pc \in [Threads -> {"out", "reading", "waiting", "woken", "writing"}]
      /\ events \in Seq(Nat) /\ yielded \in Seq(Nat) /\ Len(yielded) \in Nat
  BY DEF LockInv, LockTypes, StreamInv
<1>1. CASE Emitting
  <2>1. events' = events
    BY <1>1 DEF Emitting, TestFlag, ReadLocks, TestCount, FetchNew, YieldEvent, BatchDone, eventVars
  <2>2. pc'[Dispatcher] # "out" => pc[Dispatcher] # "out"
    BY <1>0, <1>1 DEF Emitting, TestFlag, ReadLocks, TestCount, FetchNew, YieldEvent, BatchDone,
                      acquire_read, release_read, lockVars
  <2>3. yielded' = yielded \/ yielded' = Append(yielded, Head(batch))
    BY <1>1 DEF Emitting, TestFlag, ReadLocks, TestCount, FetchNew, YieldEvent, BatchDone, eventVars
  <2>4. Len(yielded') \in Nat /\ Len(yielded) <= Len(yielded')
    <3>1. CASE yielded' = yielded
      BY <1>0, <3>1
    <3>2. CASE yielded' = Append(yielded, Head(batch))
      <4>1. Len(yielded') = Len(yielded) + 1
        BY <1>0, <3>2
      <4> QED
        BY <1>0, <4>1
    <3> QED
      BY <2>3, <3>1, <3>2
  <2> QED
    BY <2>1, <2>2, <2>4
<1>2. CASE collect
  <2>1. yielded' = yielded /\ Len(events') = Len(events) + 1
    BY <1>0, <1>2 DEF collect
  <2>2. pc[Dispatcher] # "out" /\ pc'[Dispatcher] = "out"
    BY <1>0, <1>2 DEF collect, release_write
  <2> QED
    BY <1>0, <2>1, <2>2
<1>3. CASE Notified /\ CollectLocks
  <2>1. yielded' = yielded /\ events' = events /\ saved = Len(events) /\ Len(events) < MaxEvents
    BY <1>3 DEF CollectLocks, Notified, eventVars
  <2> QED
    BY <1>0, <2>1
<1>4. CASE mark_complete
  <2>1. yielded' = yielded /\ events' = events /\ pc' = pc
    BY <1>4 DEF mark_complete, lockVars
  <2> QED
    BY <1>0, <2>1
<1> QED
  BY <1>1, <1>2, <1>3, <1>4 DEF ManagerStep

LEMMA ManagerRun == ASSUME LockInv, StreamInv, RunInv, ManagerStep PROVE RunInv'
<1>1. phase = "running" /\ UNCHANGED <<saved, log, phase, resumed>>
  BY DEF ManagerStep, returnVars, runVars
<1>2. Published' = Published
  BY <1>1 DEF Published
<1>3. /\ Len(yielded) \in Nat /\ Len(events) \in Nat /\ Published \in Nat /\ MaxEvents \in Nat
      /\ saved \in Nat
  BY LogFacts, MarkFacts DEF RunInv
<1>4. Len(yielded') \in Nat /\ Len(yielded) <= Len(yielded')
  BY ManagerEffect
<1>5. Published <= Len(yielded)
  BY <1>1, <1>3 DEF RunInv
<1>6. \A e \in ToSet(log) : e \in Nat
  BY LogFacts, MarkFacts
<1>7. \A e \in ToSet(log) : e <= Published /\ (e = 0 => resumed) /\ e <= Len(yielded')
  <2> SUFFICES ASSUME NEW e \in ToSet(log)
               PROVE  e <= Published /\ (e = 0 => resumed) /\ e <= Len(yielded')
    OBVIOUS
  <2>1. e <= Published /\ (e = 0 => resumed)
    BY <1>5 DEF RunInv
  <2> QED
    BY <1>3, <1>4, <1>5, <1>6, <2>1
<1>8. /\ saved <= Len(events') /\ Len(events') <= saved + 1 /\ Len(events') <= MaxEvents
      /\ pc'[Dispatcher] # "out" => saved = Len(events') /\ Len(events') < MaxEvents
  <2>1. CASE Len(events') = Len(events) /\ (pc'[Dispatcher] # "out" => pc[Dispatcher] # "out")
    BY <1>3, <2>1 DEF RunInv
  <2>2. CASE Len(events') = Len(events) /\ saved = Len(events) /\ Len(events) < MaxEvents
    BY <1>3, <2>2
  <2>3. CASE /\ Len(events') = Len(events) + 1
             /\ pc[Dispatcher] # "out" /\ pc'[Dispatcher] = "out"
    <3>1. saved = Len(events) /\ Len(events) < MaxEvents
      BY <2>3 DEF RunInv
    <3> QED
      BY <1>3, <2>3, <3>1
  <2> QED
    BY <2>1, <2>2, <2>3, ManagerEffect
<1>9. ~(Published' > Len(yielded'))
  BY <1>2, <1>3, <1>4, <1>5
<1> QED
  BY <1>1, <1>2, <1>7, <1>8, <1>9 DEF RunInv

(* Steps that concern neither the topic nor the client. *)
LEMMA ClientSame ==
    ASSUME ReadInv, PipeTypes, PipeOrder, Covered, Apart, EndInv,
           UNCHANGED <<log, transport, resumed, client, readVars, queueVars, got>>
    PROVE  ReadInv' /\ PipeTypes' /\ PipeOrder' /\ Covered' /\ Apart' /\ EndInv'
<1>1. UNCHANGED <<log, transport, resumed, client, why, seen, snap, before, atRead,
                  listener, sub, buffer, held, done, dropped, got>>
  BY DEF readVars, queueVars
<1>2. ReadInv' /\ PipeTypes' /\ PipeOrder'
  BY <1>1 DEF ReadInv, PipeTypes, PipeOrder, InHand
<1>3. Covered' /\ Apart'
  BY <1>1 DEF Covered, Apart, InHand
<1>4. EndInv'
  <2>1. UNCHANGED <<ToSet(got), ToSet(buffer), ToSet(sub), InHand, Last(got)>>
    BY <1>1 DEF InHand
  <2> QED
    BY <1>1, <2>1 DEF EndInv
<1> QED
  BY <1>2, <1>3, <1>4

LEMMA RunSteps ==
    ASSUME LockInv, StreamInv, ReturnInv,
           ResumeRun \/ ManagerStep \/ on_event \/ (\E final \in {"paused_again", "finished"} : Conclude(final))
    PROVE  ReturnInv'
<1>1. UNCHANGED <<log, transport, resumed, client, readVars, queueVars, got>>
  BY DEF ResumeRun, ManagerStep, on_event, Conclude, returnVars, runVars
<1>2. ReadInv' /\ PipeTypes' /\ PipeOrder' /\ Covered' /\ Apart' /\ EndInv'
  BY <1>1, ClientSame DEF ReturnInv
<1>3. Published' = Published
  BY <1>1 DEF Published
<1>4. RunInv'
  <2>1. CASE ManagerStep
    BY <2>1, ManagerRun DEF ReturnInv
  <2>2. CASE ResumeRun
    <3>1. /\ phase = "paused" /\ UNCHANGED <<saved, log, resumed, events, yielded, pc>>
      BY <2>2 DEF ResumeRun, vars, lockVars, eventVars
    <3>2. ~(Published > Len(yielded))
      BY <3>1 DEF ReturnInv, RunInv
    <3> QED
      BY <1>3, <3>1, <3>2 DEF ReturnInv, RunInv
  <2>3. CASE on_event
    <3>1. /\ saved < Len(events) /\ saved' = saved + 1
          /\ UNCHANGED <<phase, log, resumed, events, yielded, pc>>
      BY <2>3 DEF on_event, vars, lockVars, eventVars
    <3>2. /\ saved' \in Nat /\ saved' <= Len(events) /\ Len(events) <= saved' + 1
          /\ ~(pc[Dispatcher] # "out")
      <4>1. Len(events) \in Nat
        BY LogFacts DEF ReturnInv
      <4>2. saved \in Nat /\ Len(events) <= saved + 1 /\ (pc[Dispatcher] # "out" => saved = Len(events))
        BY DEF ReturnInv, RunInv
      <4> QED
        BY <3>1, <4>1, <4>2
    <3> QED
      BY <1>3, <3>1, <3>2 DEF ReturnInv, RunInv
  <2>4. ASSUME NEW final \in {"paused_again", "finished"}, Conclude(final) PROVE RunInv'
    <3>1. /\ phase' = final /\ UNCHANGED <<saved, log, resumed, events, yielded, pc>>
      BY <2>4 DEF Conclude, vars, lockVars, eventVars
    <3> QED
      BY <1>3, <3>1 DEF ReturnInv, RunInv
  <2> QED
    BY <2>1, <2>2, <2>3, <2>4
<1> QED
  BY <1>2, <1>4 DEF ReturnInv

(* What is published comes after everything published before. *)
LEMMA NextFacts ==
    ASSUME StreamInv, RunInv, NextEvent # None
    PROVE  /\ NextEvent \in Nat \ {0} /\ NextEvent <= TheEnd
           /\ \A e \in ToSet(log) : e < NextEvent
           /\ \/ NextEvent = Published + 1 /\ Published < Len(yielded)
              \/ /\ NextEvent = TheEnd /\ Published = Len(yielded)
                 /\ phase \in {"paused_again", "finished"}
<1>1. /\ Len(yielded) \in Nat /\ Published \in Nat /\ MaxEvents \in Nat
      /\ Len(yielded) <= MaxEvents /\ \A e \in ToSet(log) : e \in Nat
  <2>1. /\ Len(yielded) \in Nat /\ Len(events) \in Nat /\ Published \in Nat
        /\ Len(yielded) <= Len(events) /\ ToSet(log) \subseteq 0 .. TheEnd
    BY LogFacts
  <2>2. Len(events) <= MaxEvents
    BY DEF RunInv
  <2> QED
    BY <2>1, <2>2, MarkFacts
<1>2. \A e \in ToSet(log) : Published <= Len(yielded) => e <= Published
  BY DEF RunInv
<1>3. CASE Published < Len(yielded)
  <2>1. NextEvent = Published + 1
    BY <1>3 DEF NextEvent
  <2>2. Published + 1 \in Nat \ {0} /\ Published + 1 <= MaxEvents + 1
    BY <1>1, <1>3
  <2>3. \A e \in ToSet(log) : e < Published + 1
    BY <1>1, <1>2, <1>3
  <2> QED
    BY <1>3, <2>1, <2>2, <2>3 DEF TheEnd
<1>4. CASE ~(Published < Len(yielded))
  <2>1. /\ NextEvent = TheEnd /\ Published = Len(yielded)
        /\ phase \in {"paused_again", "finished"}
    BY <1>4 DEF NextEvent
  <2>2. \A e \in ToSet(log) : e < TheEnd
    BY <1>1, <1>2, <2>1, MarkFacts
  <2> QED
    BY <2>1, <2>2, MarkFacts
<1> QED
  BY <1>3, <1>4

LEMMA PublishRun == ASSUME StreamInv, RunInv, publish PROVE RunInv'
<1>1. /\ NextEvent # None /\ log' = Append(log, NextEvent)
      /\ UNCHANGED <<events, yielded, pc, resumed, phase, saved>>
  BY DEF publish, vars, lockVars, eventVars
<1>2. log \in Seq(Nat) /\ Len(log) \in Nat /\ Len(yielded) \in Nat /\ Published \in Nat
  BY LogFacts DEF RunInv
<1>3. /\ log' \in Seq(Nat) /\ ToSet(log') = ToSet(log) \union {NextEvent} /\ Inc(log')
  BY <1>1, <1>2, AppendFacts, NextFacts DEF RunInv
<1>4. Len(log') = Len(log) + 1
  BY <1>1, <1>2
<1>5. Published' = Published + 1
  BY <1>1, <1>2, <1>4 DEF Published
<1>6. \/ /\ NextEvent = Published' /\ Published' <= Len(yielded)
         /\ \A e \in ToSet(log') : e <= Published'
      \/ /\ NextEvent = TheEnd /\ Published' = Len(yielded) + 1
         /\ phase \in {"paused_again", "finished"}
  <2>1. CASE NextEvent = Published + 1 /\ Published < Len(yielded)
    <3>1. \A e \in ToSet(log) : e \in Nat /\ e < NextEvent
      <4>1. \A e \in ToSet(log) : e < NextEvent
        BY <1>1, NextFacts
      <4>2. \A e \in ToSet(log) : e \in Nat
        BY <1>2 DEF ToSet
      <4> QED
        BY <4>1, <4>2
    <3>2. \A e \in ToSet(log) : e <= Published'
      BY <1>2, <1>5, <2>1, <3>1
    <3>3. NextEvent = Published' /\ Published' <= Len(yielded)
      BY <1>2, <1>5, <2>1
    <3> QED
      BY <1>2, <1>3, <1>5, <3>2, <3>3
  <2>2. CASE /\ NextEvent = TheEnd /\ Published = Len(yielded)
             /\ phase \in {"paused_again", "finished"}
    BY <1>5, <2>2
  <2> QED
    BY <1>1, <2>1, <2>2, NextFacts
<1>7. \A e \in ToSet(log') : (e = 0 => resumed) /\ (e <= Len(yielded) \/ e = TheEnd)
  <2>1. NextEvent # 0 /\ (NextEvent <= Len(yielded) \/ NextEvent = TheEnd)
    BY <1>1, <1>2, <1>6, NextFacts
  <2> QED
    BY <1>3, <2>1 DEF RunInv
<1>8. Len(log') > 0
  BY <1>2, <1>4
<1>9. Published' <= Len(yielded) => \A e \in ToSet(log') : e <= Published'
  <2>1. ~(Len(yielded) + 1 <= Len(yielded))
    BY <1>2
  <2> QED
    BY <1>6, <2>1
<1>10. Published' > Len(yielded) => Published' = Len(yielded) + 1 /\ phase \in {"paused_again", "finished"}
  <2>1. Published' \in Nat
    BY <1>2, <1>5
  <2> QED
    BY <1>2, <1>6, <2>1
<1> QED
  BY <1>1, <1>3, <1>7, <1>8, <1>9, <1>10 DEF RunInv

(* A published event reaches the end of the subscription's queue. *)
LEMMA PublishKeeps == ASSUME LockInv, StreamInv, ReturnInv, publish PROVE ReturnInv'
<1> DEFINE open == listener = "on" /\ client # "closed"
           full == transport = "pubsub" /\ Len(sub) = QueueSize
<1>1. /\ NextEvent # None /\ log' = Append(log, NextEvent)
      /\ sub' = IF ~open THEN sub ELSE Append(IF full THEN Tail(sub) ELSE sub, NextEvent)
      /\ dropped' = IF open /\ full THEN dropped \union {Head(sub)} ELSE dropped
      /\ UNCHANGED <<resumed, transport, client, readVars, listener, buffer, held, done, got>>
  BY DEF publish
<1> HIDE DEF open, full
<1>2. UNCHANGED <<why, seen, snap, before, atRead>>
  BY <1>1 DEF readVars
<1>3. RunInv'
  BY PublishRun DEF ReturnInv
<1>4. NextEvent \in Nat \ {0} /\ NextEvent <= TheEnd /\ \A e \in ToSet(log) : e < NextEvent
  BY <1>1, NextFacts DEF ReturnInv
<1>5. log \in Seq(Nat) /\ sub \in Seq(Nat) /\ InHand' = InHand
  BY <1>1 DEF ReturnInv, RunInv, PipeTypes, InHand
<1>6. ToSet(log') = ToSet(log) \union {NextEvent}
  BY <1>1, <1>4, <1>5, AppendFacts
<1>7. ReadInv'
  BY <1>2 DEF ReturnInv, ReadInv
<1>8. NextEvent # Sentinel /\ NextEvent # None
  BY <1>4, MarkFacts
<1>9. CASE ~open
  <2>1. sub' = sub /\ dropped' = dropped
    BY <1>1, <1>9
  <2>2. PipeTypes' /\ PipeOrder'
    BY <1>1, <1>5, <1>6, <2>1 DEF ReturnInv, PipeTypes, PipeOrder
  <2>3. Covered'
    BY <1>1, <1>9 DEF Covered, Following, open
  <2>4. EndInv'
    BY <1>1, <1>2, <1>5, <2>1 DEF ReturnInv, EndInv
  <2>5. Apart'
    BY <1>1, <1>2, <1>5, <1>6, <2>1 DEF ReturnInv, Apart
  <2> QED
    BY <1>3, <1>7, <2>2, <2>3, <2>4, <2>5 DEF ReturnInv
<1>10. CASE open
  <2> DEFINE rest == IF full THEN Tail(sub) ELSE sub
  <2>1. full => sub # <<>>
    BY <1>5, ReturnAssumption DEF full
  <2>2. /\ rest \in Seq(Nat) /\ (Inc(sub) => Inc(rest)) /\ ToSet(rest) \subseteq ToSet(sub)
        /\ ToSet(sub) \subseteq ToSet(rest) \union dropped'
        /\ dropped \subseteq dropped'
    <3>1. CASE full
      <4>1. rest = Tail(sub) /\ dropped' = dropped \union {Head(sub)}
        BY <1>1, <1>10, <3>1
      <4> HIDE DEF rest
      <4>2. /\ rest \in Seq(Nat) /\ ToSet(sub) = ToSet(rest) \union {Head(sub)}
            /\ Inc(sub) => Inc(rest)
        BY <1>5, <2>1, <3>1, <4>1, TailFacts
      <4> QED
        BY <4>1, <4>2
    <3>2. CASE ~full
      BY <1>1, <1>5, <3>2
    <3> QED
      BY <3>1, <3>2
  <2>3. sub' = Append(rest, NextEvent)
    BY <1>1, <1>10
  <2> HIDE DEF rest
  <2>4. ToSet(sub) \subseteq ToSet(log)
    BY <1>10 DEF ReturnInv, PipeTypes, open
  <2>5. \A e \in ToSet(rest) : e < NextEvent
    BY <1>4, <2>2, <2>4
  <2>6. sub' \in Seq(Nat) /\ ToSet(sub') = ToSet(rest) \union {NextEvent} /\ (Inc(rest) => Inc(sub'))
    BY <1>4, <2>2, <2>3, <2>5, AppendFacts
  <2>7. ToSet(got) \union ToSet(buffer) \union InHand \subseteq ToSet(log)
    BY DEF ReturnInv, PipeTypes
  <2>8. PipeTypes'
    <3>1. client \notin {"away", "read", "snapshot"}
      BY <1>10 DEF ReturnInv, PipeTypes, open
    <3> QED
      BY <1>1, <1>5, <1>6, <1>8, <1>10, <2>2, <2>4, <2>6, <2>7, <3>1 DEF ReturnInv, PipeTypes, open
  <2>9. PipeOrder'
    <3>1. Earlier(ToSet(got) \union ToSet(buffer) \union InHand, ToSet(sub'))
      BY <1>4, <2>2, <2>6, <2>7 DEF ReturnInv, PipeOrder, Earlier
    <3> QED
      BY <1>1, <1>5, <2>2, <2>6, <3>1 DEF ReturnInv, PipeOrder, Earlier
  <2>10. Covered'
    BY <1>1, <1>2, <1>5, <1>6, <2>2, <2>6 DEF ReturnInv, Covered
  <2>11. EndInv'
    BY <1>1, <1>2, <1>4, <1>5, <2>2, <2>6 DEF ReturnInv, EndInv
  <2>12. Apart'
    <3>1. NextEvent \notin before
      BY <1>4 DEF ReturnInv, Apart
    <3> QED
      BY <1>1, <1>2, <1>5, <1>6, <2>2, <2>6, <3>1 DEF ReturnInv, Apart
  <2> QED
    BY <1>3, <1>7, <2>8, <2>9, <2>10, <2>11, <2>12 DEF ReturnInv
<1> QED
  BY <1>9, <1>10

-----------------------------------------------------------------------------
(* The client *)

(* A step of the client that leaves the queues alone. *)
LEMMA ClientStep ==
    ASSUME ReturnInv, UNCHANGED <<vars, runVars, queueVars, got>>, ReadInv',
           client # "closed", before' = before,
           client' \in {"away", "read", "snapshot"} => client \in {"away", "read", "snapshot"},
           client' \in Following => client \in Following,
           client' # "closed" => why' = "none",
           why' = "pause" => seen' \in Paused,
           why' # "event",
           why' = "done" => buffer = <<>> /\ held = None,
           client' = "test_empty" => done
    PROVE  ReturnInv'
<1>1. UNCHANGED <<vars, resumed, transport, phase, saved, log, listener, sub, buffer, held,
                  done, dropped, got>>
  BY DEF runVars, queueVars
<1>2. RunInv'
  BY <1>1, RunKept DEF ReturnInv
<1>3. InHand' = InHand
  BY <1>1 DEF InHand
<1>4. PipeTypes' /\ PipeOrder'
  BY <1>1, <1>3 DEF ReturnInv, PipeTypes, PipeOrder
<1>5. Covered' /\ Apart'
  BY <1>1, <1>3 DEF ReturnInv, Covered, Apart
<1>6. EndInv'
  BY <1>1, <1>3 DEF ReturnInv, EndInv
<1> QED
  BY <1>2, <1>4, <1>5, <1>6 DEF ReturnInv

LEMMA ClientReads ==
    ASSUME StreamInv, ReturnInv, ReadRun \/ \E found \in BOOLEAN : ReadSnapshot(found)
    PROVE  ReturnInv'
<1>1. UNCHANGED <<vars, runVars, queueVars, got, before>>
  BY DEF ReadRun, ReadSnapshot
<1>2. client # "closed" => why = "none"
  BY DEF ReturnInv, EndInv
<1>3. CASE ReadRun
  <2>1. /\ client = "away" /\ UNCHANGED <<snap, atRead>>
        /\ (client' = "closed" /\ why' = "finished") \/ (client' = "read" /\ why' = why)
    BY <1>3 DEF ReadRun, Close
  <2>2. ReadInv'
    BY <2>1 DEF ReturnInv, ReadInv
  <2> QED
    BY <1>1, <1>2, <2>1, <2>2, ClientStep DEF Following
<1>4. ASSUME NEW found \in BOOLEAN, ReadSnapshot(found) PROVE ReturnInv'
  <2>1. /\ client = "read" /\ client' = "snapshot" /\ why' = why
        /\ snap' = saved /\ atRead' = ToSet(log)
    BY <1>4 DEF ReadSnapshot
  <2>2. /\ saved \in Nat /\ Len(events) \in Nat /\ Len(yielded) \in Nat
        /\ Len(yielded) <= Len(events) /\ Len(events) <= saved + 1
    BY LogFacts DEF ReturnInv, RunInv
  <2>3. ASSUME NEW e \in ToSet(log) PROVE e \in 1 .. saved \/ e \in {0, saved + 1, TheEnd}
    <3>1. e \in Nat /\ (e <= Len(yielded) \/ e = TheEnd)
      BY LogFacts, MarkFacts DEF ReturnInv, RunInv
    <3> QED
      BY <2>2, <3>1
  <2>4. ReadInv'
    BY <2>1, <2>2, <2>3 DEF ReadInv
  <2> QED
    BY <1>1, <1>2, <2>1, <2>4, ClientStep DEF Following
<1> QED
  BY <1>3, <1>4

LEMMA ClientTests ==
    ASSUME ReturnInv, SendSnapshot \/ TestDone \/ TestEmpty \/ GetEmpty
    PROVE  ReturnInv'
<1>1. UNCHANGED <<vars, runVars, queueVars, got, before, snap, atRead, seen>>
  BY DEF SendSnapshot, TestDone, TestEmpty, GetEmpty, readVars
<1>2. ReadInv'
  BY <1>1 DEF ReturnInv, ReadInv
<1>3. client \in Following /\ client # "closed"
  BY DEF SendSnapshot, TestDone, TestEmpty, GetEmpty, Following
<1>4. why = "none"
  BY <1>3 DEF ReturnInv, EndInv
<1>5. CASE SendSnapshot
  <2>1. \/ client' = "closed" /\ why' = "pause" /\ seen \in Paused
        \/ client' = "test_done" /\ why' = why
    BY <1>5 DEF SendSnapshot, Close
  <2> QED
    BY <1>1, <1>2, <1>3, <1>4, <2>1, ClientStep DEF Following
<1>6. CASE TestDone
  <2>1. why' = why /\ (client' = "get" \/ (client' = "test_empty" /\ done))
    BY <1>6 DEF TestDone, readVars
  <2> QED
    BY <1>1, <1>2, <1>3, <1>4, <2>1, ClientStep DEF Following
<1>7. CASE TestEmpty
  <2>1. \/ client' = "closed" /\ why' = "done" /\ buffer = <<>>
        \/ client' = "get" /\ why' = why
    BY <1>7 DEF TestEmpty, Close
  <2>2. held = None
    BY <1>7 DEF ReturnInv, EndInv, TestEmpty
  <2> QED
    BY <1>1, <1>2, <1>3, <1>4, <2>1, <2>2, ClientStep DEF Following
<1>8. CASE GetEmpty
  <2>1. \/ client' = "closed" /\ why' = "idle"
        \/ client' = "test_done" /\ why' = why
    BY <1>8 DEF GetEmpty, Close
  <2> QED
    BY <1>1, <1>2, <1>3, <1>4, <2>1, ClientStep DEF Following
<1> QED
  BY <1>5, <1>6, <1>7, <1>8

LEMMA Subscribes == ASSUME StreamInv, ReturnInv, Subscribe PROVE ReturnInv'
<1>1. /\ client = "snapshot" /\ listener' = "on" /\ before' = ToSet(log)
      /\ sub' = (IF transport = "streams" THEN log ELSE <<>>)
      /\ client' = "start"
      /\ UNCHANGED <<vars, resumed, transport, phase, saved, log, why, seen, snap, atRead,
                     buffer, held, done, dropped, got>>
  BY DEF Subscribe, runVars
<1>2. RunInv' /\ ReadInv'
  BY <1>1, RunKept DEF ReturnInv, ReadInv
<1>3. /\ got = <<>> /\ buffer = <<>> /\ held = None /\ InHand = {} /\ InHand' = {}
      /\ ToSet(got) = {} /\ ToSet(buffer) = {}
  BY <1>1, EmptyFacts DEF ReturnInv, PipeTypes, InHand
<1>4. /\ log \in Seq(Nat) /\ Inc(log) /\ ToSet(log) \subseteq 0 .. TheEnd
      /\ resumed \in BOOLEAN
  BY LogFacts DEF ReturnInv, RunInv
<1>5. \/ transport = "streams" /\ sub' = log
      \/ transport # "streams" /\ sub' = <<>>
  BY <1>1
<1>6. /\ sub' \in Seq(Nat) /\ Inc(sub') /\ ToSet(sub') \subseteq ToSet(log)
      /\ transport # "streams" => ToSet(sub') = {}
      /\ transport = "streams" => ToSet(sub') = ToSet(log)
  BY <1>4, <1>5, EmptyFacts
<1>7. PipeTypes'
  BY <1>1, <1>3, <1>4, <1>6, MarkFacts DEF ReturnInv, PipeTypes
<1>8. PipeOrder'
  BY <1>1, <1>3, <1>6 DEF ReturnInv, PipeOrder, Earlier
<1>9. Covered' /\ Apart'
  BY <1>1, <1>3, <1>6 DEF Covered, Apart, ReturnInv, PipeTypes
<1>10. EndInv'
  BY <1>1, <1>3, <1>6 DEF ReturnInv, EndInv
<1> QED
  BY <1>2, <1>7, <1>8, <1>9, <1>10 DEF ReturnInv

LEMMA Gets == ASSUME StreamInv, ReturnInv, Get PROVE ReturnInv'
<1> DEFINE x == Head(buffer)
<1>1. /\ client = "get" /\ buffer # <<>> /\ buffer' = Tail(buffer) /\ got' = Append(got, x)
      /\ \/ x \in {0, TheEnd} /\ client' = "closed" /\ why' = "event"
         \/ x \notin {0, TheEnd} /\ client' = "test_done" /\ why' = why
      /\ UNCHANGED <<vars, resumed, transport, phase, saved, log, seen, snap, before, atRead,
                     listener, sub, held, done, dropped>>
  BY DEF Get, Close, runVars
<1>2. RunInv' /\ ReadInv'
  BY <1>1, RunKept DEF ReturnInv, ReadInv
<1>3. buffer \in Seq(Nat) /\ got \in Seq(Nat) /\ InHand' = InHand /\ Inc(got) /\ Inc(buffer)
  BY <1>1 DEF ReturnInv, PipeTypes, PipeOrder, InHand
<1>4. /\ buffer' \in Seq(Nat) /\ x \in Nat /\ ToSet(buffer) = ToSet(buffer') \union {x}
      /\ Inc(buffer') /\ \A a \in ToSet(buffer') : x < a
  BY <1>1, <1>3, TailFacts
<1> HIDE DEF x
<1>5. \A a \in ToSet(got) : a < x
  BY <1>4 DEF ReturnInv, PipeOrder, Earlier
<1>6. /\ got' \in Seq(Nat) /\ ToSet(got') = ToSet(got) \union {x} /\ got' # <<>> /\ Last(got') = x
      /\ Inc(got')
  BY <1>1, <1>3, <1>4, <1>5, AppendFacts
<1>7. PipeTypes'
  BY <1>1, <1>3, <1>4, <1>6 DEF ReturnInv, PipeTypes
<1>8. PipeOrder'
  <2>1. Earlier(ToSet(got'), ToSet(buffer') \union InHand \union ToSet(sub))
    BY <1>4, <1>6 DEF ReturnInv, PipeOrder, Earlier
  <2>2. Earlier(ToSet(buffer'), InHand \union ToSet(sub))
    BY <1>4 DEF ReturnInv, PipeOrder, Earlier
  <2> QED
    BY <1>1, <1>3, <1>4, <1>6, <2>1, <2>2 DEF ReturnInv, PipeOrder
<1>9. Covered' /\ Apart'
  BY <1>1, <1>3, <1>4, <1>6 DEF ReturnInv, Covered, Apart, Following
<1>10. EndInv'
  <2>1. x = 0 => resumed /\ transport = "streams"
    <3>1. x \in ToSet(buffer) /\ x \in ToSet(log)
      BY <1>4 DEF ReturnInv, PipeTypes
    <3> QED
      BY <3>1 DEF ReturnInv, RunInv, EndInv
  <2>2. why' = "event" => TheEnd \in ToSet(got') \/ (resumed /\ transport = "streams" /\ got' # <<>> /\ Last(got') = 0)
    <3>1. why = "none"
      BY <1>1 DEF ReturnInv, EndInv
    <3> QED
      BY <1>1, <1>6, <2>1, <3>1
  <2>3. why = "none" /\ (done => held = None)
    BY <1>1 DEF ReturnInv, EndInv
  <2>4. 0 \in ToSet(sub) \union ToSet(buffer') \union InHand => transport = "streams"
    BY <1>4 DEF ReturnInv, EndInv
  <2> QED
    BY <1>1, <1>3, <2>2, <2>3, <2>4 DEF EndInv
<1> QED
  BY <1>2, <1>7, <1>8, <1>9, <1>10 DEF ReturnInv

-----------------------------------------------------------------------------
(* The threads behind the client *)

LEMMA ListenerEnds == ASSUME StreamInv, ReturnInv, ListenerDies PROVE ReturnInv'
<1>1. /\ listener = "on" /\ client # "closed" /\ listener' = "dead"
      /\ \/ transport = "streams" /\ sub' = Append(sub, Sentinel)
         \/ sub' = sub
      /\ UNCHANGED <<vars, resumed, transport, phase, saved, log, client, why, seen, snap,
                     before, atRead, buffer, held, done, dropped, got>>
  BY DEF ListenerDies, runVars, readVars
<1>2. RunInv' /\ ReadInv'
  BY <1>1, RunKept DEF ReturnInv, ReadInv
<1>3. /\ sub \in Seq(Nat) /\ Inc(sub) /\ ToSet(sub) \subseteq ToSet(log)
      /\ ToSet(got) \union ToSet(buffer) \union InHand \subseteq ToSet(log)
      /\ InHand' = InHand /\ client \notin {"away", "read", "snapshot"}
  BY <1>1 DEF ReturnInv, PipeTypes, PipeOrder, InHand
<1>4. \A a \in ToSet(log) : a < Sentinel
  <2>1. ToSet(log) \subseteq 0 .. TheEnd
    BY LogFacts DEF ReturnInv
  <2> QED
    BY <2>1, MarkFacts
<1>5. CASE sub' = sub
  BY <1>1, <1>2, <1>3, <1>5 DEF ReturnInv, PipeTypes, PipeOrder, Covered, Apart, EndInv
<1>6. CASE transport = "streams" /\ sub' = Append(sub, Sentinel)
  <2>1. sub' \in Seq(Nat) /\ Inc(sub') /\ ToSet(sub') = ToSet(sub) \union {Sentinel}
    <3>1. Sentinel \in Nat /\ \A a \in ToSet(sub) : a < Sentinel
      BY <1>3, <1>4, MarkFacts
    <3> QED
      BY <1>3, <1>6, <3>1, AppendFacts
  <2>2. PipeTypes'
    BY <1>1, <1>3, <2>1 DEF ReturnInv, PipeTypes
  <2>3. PipeOrder'
    <3>1. Earlier(ToSet(got) \union ToSet(buffer) \union InHand, ToSet(sub'))
      BY <1>3, <1>4, <2>1 DEF ReturnInv, PipeOrder, Earlier
    <3> QED
      BY <1>1, <1>3, <2>1, <3>1 DEF ReturnInv, PipeOrder, Earlier
  <2>4. Covered' /\ Apart'
    BY <1>1, <1>3, <1>6 DEF ReturnInv, Covered, Apart
  <2>5. EndInv'
    BY <1>1, <1>3, <1>6 DEF ReturnInv, EndInv
  <2> QED
    BY <1>2, <2>2, <2>3, <2>4, <2>5 DEF ReturnInv
<1> QED
  BY <1>1, <1>5, <1>6

(* The buffering thread only moves an event from one queue to the next. *)
LEMMA Forwards == ASSUME StreamInv, ReturnInv, Forward PROVE ReturnInv'
<1> DEFINE x == Head(sub)
<1>1. /\ client # "closed" /\ ~done /\ held = None /\ sub # <<>> /\ x # Sentinel
      /\ sub' = Tail(sub)
      /\ \/ buffer' = Append(buffer, x) /\ held' = held
         \/ held' = x /\ buffer' = buffer
      /\ UNCHANGED <<vars, resumed, transport, phase, saved, log, client, why, seen, snap,
                     before, atRead, listener, done, dropped, got>>
  BY DEF Forward, runVars, readVars
<1>2. RunInv' /\ ReadInv'
  BY <1>1, RunKept DEF ReturnInv, ReadInv
<1>3. sub \in Seq(Nat) /\ buffer \in Seq(Nat) /\ Inc(sub) /\ Inc(buffer) /\ InHand = {}
  BY <1>1 DEF ReturnInv, PipeTypes, PipeOrder, InHand
<1>4. /\ sub' \in Seq(Nat) /\ x \in Nat /\ ToSet(sub) = ToSet(sub') \union {x}
      /\ Inc(sub') /\ \A a \in ToSet(sub') : x < a
  BY <1>1, <1>3, TailFacts
<1> HIDE DEF x
<1>5. x \in ToSet(log) /\ x # None
  <2>1. x \in ToSet(log)
    BY <1>1, <1>4 DEF ReturnInv, PipeTypes
  <2>2. ToSet(log) \subseteq 0 .. TheEnd
    BY LogFacts DEF ReturnInv
  <2> QED
    BY <2>1, <2>2, MarkFacts
<1>6. Earlier(ToSet(got) \union ToSet(buffer), {x})
  BY <1>4 DEF ReturnInv, PipeOrder, Earlier
<1>7. /\ buffer' \in Seq(Nat) /\ held' \in Nat /\ Inc(buffer')
      /\ \/ ToSet(buffer') = ToSet(buffer) \union {x} /\ InHand' = {} /\ held' = None
         \/ ToSet(buffer') = ToSet(buffer) /\ InHand' = {x}
  <2>1. CASE buffer' = Append(buffer, x) /\ held' = held
    <3>1. \A a \in ToSet(buffer) : a < x
      BY <1>6 DEF Earlier
    <3>2. buffer' \in Seq(Nat) /\ Inc(buffer') /\ ToSet(buffer') = ToSet(buffer) \union {x}
      BY <1>3, <1>4, <2>1, <3>1, AppendFacts
    <3> QED
      BY <1>1, <2>1, <3>2, MarkFacts DEF InHand
  <2>2. CASE held' = x /\ buffer' = buffer
    BY <1>3, <1>4, <1>5, <2>2 DEF InHand
  <2> QED
    BY <1>1, <2>1, <2>2
<1>8. /\ ToSet(buffer') \union InHand' = ToSet(buffer) \union {x}
      /\ ToSet(sub') \union ToSet(buffer') \union InHand' = ToSet(sub) \union ToSet(buffer)
  BY <1>4, <1>7
<1>9. PipeTypes'
  <2>1. ToSet(got) \union ToSet(buffer') \union InHand' \subseteq ToSet(log)
    BY <1>5, <1>8 DEF ReturnInv, PipeTypes
  <2>2. client \notin {"away", "read", "snapshot"}
    BY <1>1 DEF ReturnInv, PipeTypes
  <2>3. /\ ToSet(sub') \subseteq ToSet(log) \union {Sentinel}
        /\ listener = "on" => Sentinel \notin ToSet(sub')
    BY <1>4 DEF ReturnInv, PipeTypes
  <2> QED
    BY <1>1, <1>4, <1>7, <2>1, <2>2, <2>3 DEF ReturnInv, PipeTypes
<1>10. PipeOrder'
  <2>1. Earlier(ToSet(got), ToSet(buffer') \union InHand' \union ToSet(sub'))
    BY <1>4, <1>8 DEF ReturnInv, PipeOrder, Earlier
  <2>2. Earlier(ToSet(buffer'), InHand' \union ToSet(sub'))
    BY <1>4, <1>6, <1>7 DEF ReturnInv, PipeOrder, Earlier
  <2>3. Earlier(InHand', ToSet(sub'))
    BY <1>4, <1>7 DEF Earlier
  <2> QED
    BY <1>1, <1>4, <1>7, <2>1, <2>2, <2>3 DEF ReturnInv, PipeOrder
<1>11. Covered' /\ Apart'
  BY <1>1, <1>3, <1>8 DEF ReturnInv, Covered, Apart
<1>12. EndInv'
  <2>1. why = "none"
    BY <1>1 DEF ReturnInv, EndInv
  <2>2. 0 \in ToSet(sub') \union ToSet(buffer') \union InHand' => transport = "streams"
    BY <1>8 DEF ReturnInv, EndInv
  <2> QED
    BY <1>1, <2>1, <2>2 DEF ReturnInv, EndInv
<1> QED
  BY <1>2, <1>9, <1>10, <1>11, <1>12 DEF ReturnInv

LEMMA ForwardsHeld == ASSUME StreamInv, ReturnInv, ForwardHeld PROVE ReturnInv'
<1> DEFINE rest == IF buffer = <<>> THEN <<>> ELSE Tail(buffer)
<1>1. /\ client # "closed" /\ held # None /\ buffer' = Append(rest, held) /\ held' = None
      /\ dropped' = IF buffer = <<>> THEN dropped ELSE dropped \union {Head(buffer)}
      /\ UNCHANGED <<vars, resumed, transport, phase, saved, log, client, why, seen, snap,
                     before, atRead, listener, sub, done, got>>
  BY DEF ForwardHeld, runVars, readVars
<1>2. RunInv' /\ ReadInv'
  BY <1>1, RunKept DEF ReturnInv, ReadInv
<1>3. /\ buffer \in Seq(Nat) /\ Inc(buffer) /\ held \in Nat
      /\ InHand = {held} /\ InHand' = {}
  BY <1>1 DEF ReturnInv, PipeTypes, PipeOrder, InHand
<1>4. /\ rest \in Seq(Nat) /\ Inc(rest) /\ ToSet(rest) \subseteq ToSet(buffer)
      /\ ToSet(buffer) \subseteq ToSet(rest) \union dropped' /\ dropped \subseteq dropped'
  <2>1. CASE buffer = <<>>
    BY <1>1, <2>1, EmptyFacts
  <2>2. CASE buffer # <<>>
    <3>1. rest = Tail(buffer) /\ dropped' = dropped \union {Head(buffer)}
      BY <1>1, <2>2
    <3> HIDE DEF rest
    <3>2. rest \in Seq(Nat) /\ Inc(rest) /\ ToSet(buffer) = ToSet(rest) \union {Head(buffer)}
      BY <1>3, <2>2, <3>1, TailFacts
    <3> QED
      BY <3>1, <3>2
  <2> QED
    BY <2>1, <2>2
<1> HIDE DEF rest
<1>5. Earlier(ToSet(got) \union ToSet(buffer), {held})
  BY <1>3 DEF ReturnInv, PipeOrder, Earlier
<1>6. buffer' \in Seq(Nat) /\ Inc(buffer') /\ ToSet(buffer') = ToSet(rest) \union {held}
  <2>1. \A a \in ToSet(rest) : a < held
    BY <1>4, <1>5 DEF Earlier
  <2> QED
    BY <1>1, <1>3, <1>4, <2>1, AppendFacts
<1>7. ToSet(buffer') \subseteq ToSet(buffer) \union InHand
  BY <1>3, <1>4, <1>6
<1>8. PipeTypes'
  <2>1. client \notin {"away", "read", "snapshot"}
    BY <1>1 DEF ReturnInv, PipeTypes
  <2> QED
    BY <1>1, <1>3, <1>6, <1>7, <2>1, MarkFacts DEF ReturnInv, PipeTypes
<1>9. PipeOrder'
  <2>1. Earlier(ToSet(got), ToSet(buffer') \union ToSet(sub))
    BY <1>7 DEF ReturnInv, PipeOrder, Earlier
  <2>2. Earlier(ToSet(buffer'), ToSet(sub))
    BY <1>7 DEF ReturnInv, PipeOrder, Earlier
  <2> QED
    BY <1>1, <1>3, <1>6, <2>1, <2>2 DEF ReturnInv, PipeOrder, Earlier
<1>10. Covered' /\ Apart'
  BY <1>1, <1>3, <1>4, <1>6 DEF ReturnInv, Covered, Apart
<1>11. EndInv'
  <2>1. why = "none"
    BY <1>1 DEF ReturnInv, EndInv
  <2>2. 0 \in ToSet(sub') \union ToSet(buffer') \union InHand' => transport = "streams"
    BY <1>1, <1>3, <1>7 DEF ReturnInv, EndInv
  <2> QED
    BY <1>1, <2>1, <2>2 DEF ReturnInv, EndInv
<1> QED
  BY <1>2, <1>8, <1>9, <1>10, <1>11 DEF ReturnInv

LEMMA BufferingStops == ASSUME ReturnInv, BufferingEnds PROVE ReturnInv'
<1>1. /\ client # "closed" /\ held = None /\ done' = TRUE /\ sub # <<>>
      /\ UNCHANGED <<vars, resumed, transport, phase, saved, log, client, why, seen, snap,
                     before, atRead, listener, sub, buffer, held, dropped, got>>
  BY DEF BufferingEnds, runVars, readVars
<1>2. RunInv' /\ ReadInv'
  BY <1>1, RunKept DEF ReturnInv, ReadInv
<1>3. InHand' = InHand
  BY <1>1 DEF InHand
<1> QED
  BY <1>1, <1>2, <1>3 DEF ReturnInv, PipeTypes, PipeOrder, Covered, Apart, EndInv

-----------------------------------------------------------------------------
LEMMA ReturnInit_ReturnInv == ReturnInit => Init /\ ReturnInv
<1> SUFFICES ASSUME ReturnInit PROVE ReturnInv
  BY DEF ReturnInit
<1>1. /\ Init /\ resumed \in BOOLEAN /\ transport \in {"pubsub", "streams"}
      /\ \/ resumed /\ log = <<0>>
         \/ ~resumed /\ log = <<>>
      /\ saved = 0
      /\ client = "away" /\ why = "none" /\ snap = 0 /\ atRead = {} /\ before = {}
      /\ listener = "off" /\ sub = <<>> /\ buffer = <<>> /\ held = None /\ done = FALSE
      /\ got = <<>>
  BY DEF ReturnInit
<1>2. /\ events = <<>> /\ yielded = <<>> /\ pc[Dispatcher] = "out"
      /\ Len(events) = 0 /\ Len(yielded) = 0
  BY <1>1, ThreadsKnown DEF Init, LockInit
<1>3. /\ ToSet(<<0>>) = {0} /\ Inc(<<0>>) /\ <<0>> \in Seq(Nat) /\ Len(<<0>>) = 1
  BY DEF ToSet, Inc
<1>4. RunInv
  <2>1. CASE resumed /\ log = <<0>>
    <3>1. Published = 0
      BY <1>3, <2>1 DEF Published
    <3> QED
      BY <1>1, <1>2, <1>3, <2>1, <3>1, MarkFacts DEF RunInv
  <2>2. CASE ~resumed /\ log = <<>>
    <3>1. Published = 0
      BY <2>2 DEF Published
    <3> QED
      BY <1>1, <1>2, <2>2, <3>1, EmptyFacts, MarkFacts DEF RunInv
  <2> QED
    BY <1>1, <2>1, <2>2
<1>5. InHand = {}
  BY <1>1 DEF InHand
<1>6. ReadInv /\ Covered /\ Apart
  BY <1>1 DEF ReadInv, Covered, Apart, Following
<1>7. PipeTypes /\ PipeOrder /\ EndInv
  BY <1>1, <1>5, EmptyFacts, MarkFacts DEF PipeTypes, PipeOrder, EndInv, Earlier
<1> QED
  BY <1>4, <1>6, <1>7 DEF ReturnInv

LEMMA ReturnStep ==
    LockInv /\ StreamInv /\ ReturnInv /\ [ReturnNext]_allVars => ReturnInv'
<1> SUFFICES ASSUME LockInv, StreamInv, ReturnInv, [ReturnNext]_allVars PROVE ReturnInv'
  OBVIOUS
<1>1. CASE Run
  BY <1>1, RunSteps, PublishKeeps DEF Run
<1>2. CASE Client
  BY <1>2, ClientReads, Subscribes, ClientTests, Gets DEF Client
<1>3. CASE Buffering
  BY <1>3, Forwards, ForwardsHeld, BufferingStops DEF Buffering
<1>4. CASE ListenerDies
  BY <1>4, ListenerEnds
<1>5. CASE UNCHANGED allVars
  <2>1. UNCHANGED <<vars, saved, log, phase, resumed, transport, client, readVars, queueVars, got>>
    BY <1>5 DEF allVars, returnVars, runVars
  <2> QED
    BY <2>1, RunKept, ClientSame DEF ReturnInv
<1> QED
  BY <1>1, <1>2, <1>3, <1>4, <1>5 DEF ReturnNext

(* The client and the layers take no step of the event manager's threads:  *)
(* the whole behaves, for the manager's part, as its own specification.    *)
LEMMA ManagerInside == [ReturnNext]_allVars => [Next]_vars
<1> SUFFICES ASSUME [ReturnNext]_allVars PROVE [Next]_vars
  OBVIOUS
<1>1. ManagerStep => Next
  BY DEF ManagerStep, Next, Collecting
<1> QED
  BY <1>1 DEF ReturnNext, Run, Client, Buffering, allVars, ResumeRun, on_event, Conclude, publish,
     ReadRun, ReadSnapshot, Subscribe, SendSnapshot, TestDone, TestEmpty, Get, GetEmpty,
     Forward, ForwardHeld, BufferingEnds, ListenerDies

(* The event manager, composed with the layers, the pipeline and a client, *)
(* still behaves as specified: what is proved of it holds here too.        *)
THEOREM ManagerImplemented == ReturnSpec => Spec
BY ManagerInside, ReturnInit_ReturnInv, PTL DEF ReturnSpec, Spec

(* The inductive invariant of the composition: what is saved and published *)
(* of the run, what the client has read, and where each event is on its    *)
(* way through the queues.                                                 *)
THEOREM ReturnCorrect == ReturnSpec => []ReturnInv
<1>1. ReturnSpec => [](LockInv /\ StreamInv)
  BY ManagerImplemented, StreamInvariant, PTL
<1> QED
  BY <1>1, ReturnInit_ReturnInv, ReturnStep, PTL DEF ReturnSpec

(* A client that came back misses only what was dropped from a full queue  *)
(* or published over Pub/Sub before it subscribed, and of what it had      *)
(* missed at its reading of the snapshot at most the first event not yet   *)
(* saved and the final one.  The subscription brings nothing twice or out  *)
(* of order, and over Pub/Sub an event of the snapshot only if it was      *)
(* published after the subscription.                                       *)
THEOREM GapsExplainedOnReturn == ReturnSpec => []GapsOfReturn
<1>1. ReturnInv => GapsOfReturn
  <2> SUFFICES ASSUME ReturnInv PROVE GapsOfReturn
    OBVIOUS
  <2>1. Inc(got)
    BY DEF ReturnInv, PipeOrder
  <2>2. ASSUME transport = "pubsub", NEW e \in before PROVE e \notin Coming \union ToSet(got)
    BY <2>2 DEF ReturnInv, Apart, Coming, InHand
  <2>3. ASSUME client \in Following, listener = "on",
               NEW e \in ToSet(log) \ (Coming \union ToSet(got) \union dropped)
        PROVE  /\ transport = "pubsub" /\ e \in before
               /\ e \in 1 .. snap \/ e \notin atRead \/ e \in {0, snap + 1, TheEnd}
    <3>1. e \notin InHand
      BY DEF Coming, InHand
    <3>2. transport = "pubsub" /\ e \in before
      BY <2>3, <3>1 DEF ReturnInv, Covered, Coming
    <3>3. e \in 1 .. snap \/ e \notin atRead \/ e \in {0, snap + 1, TheEnd}
      BY DEF ReturnInv, ReadInv
    <3> QED
      BY <3>2, <3>3
  <2>4. transport = "pubsub" => before \intersect (Coming \union ToSet(got)) = {}
    BY <2>2
  <2> QED
    BY <2>1, <2>3, <2>4 DEF GapsOfReturn, Inc
<1> QED
  BY <1>1, ReturnCorrect, PTL

(* The stream of a client that came back ends by an event only at the end  *)
(* of the run or at a pause it may rightly be told of, and when it ends    *)
(* because the buffering has ended, nothing is left to be sent.            *)
THEOREM EndsRightly == ReturnSpec => []ReturnEndsRightly
<1>1. ReturnInv => ReturnEndsRightly
  BY DEF ReturnInv, EndInv, ReturnEndsRightly
<1> QED
  BY <1>1, ReturnCorrect, PTL
=============================================================================
