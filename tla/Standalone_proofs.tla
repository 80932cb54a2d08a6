------------------------- MODULE Standalone_proofs -------------------------
(* Four components that stand on their own: the Redis command channel, the  *)
(* worker pool that serves the ready queue, the queue between the worker    *)
(* and the task pipeline of a chat request, and the parallel iteration.     *)
(* Their modules share no variable, each has its own specification.         *)
EXTENDS RedisChannel, WorkerPool, AppQueue, Iteration,
        SequenceTheorems, FiniteSetTheorems, TLAPS

-----------------------------------------------------------------------------
(* The Redis command channel for any number of commands and faults.        *)

(* Type correctness of the channel. *)
THEOREM ChannelTypeCorrect == ChannelSpec => []ChannelTypeOK
<1>1. ChannelInit => ChannelTypeOK
  <2> SUFFICES ASSUME ChannelInit PROVE ChannelTypeOK
    OBVIOUS
  <2>1. list \in Seq(Nat) /\ fetched \in Seq(Nat)
    BY DEF ChannelInit
  <2>2. pending \in BOOLEAN
    BY DEF ChannelInit
  <2> QED
    BY <2>1, <2>2 DEF ChannelInit, ChannelTypeOK
<1>2. ChannelTypeOK /\ [ChannelNext]_channelVars => ChannelTypeOK'
  <2> SUFFICES ASSUME ChannelTypeOK, [ChannelNext]_channelVars PROVE ChannelTypeOK'
    OBVIOUS
  <2> USE DEF ChannelTypeOK
  <2>1. CASE send_command
    BY <2>1, AppendProperties DEF send_command
  <2>2. CASE has_pending_commands
    BY <2>2 DEF has_pending_commands
  <2>3. CASE fetch_commands
    BY <2>3, ConcatProperties DEF fetch_commands
  <2>4. CASE Expire
    <3>1. list' \in Seq(Nat)
      BY <2>4 DEF Expire
    <3>2. pending' \in BOOLEAN
      BY <2>4 DEF Expire
    <3> QED
      BY <2>4, <3>1, <3>2 DEF Expire
  <2>5. CASE RedisError
    <3>1. list' = list \/ list' = <<>>
      BY <2>5 DEF RedisError
    <3>2. list' \in Seq(Nat)
      BY <3>1, EmptySeq, Zenon
    <3>3. pending' = FALSE \/ pending' = pending
      BY <2>5 DEF RedisError
    <3>4. pending' \in BOOLEAN
      BY <3>3
    <3> QED
      BY <2>5, <3>2, <3>4 DEF RedisError
  <2>6. CASE UNCHANGED channelVars
    BY <2>6 DEF channelVars
  <2> QED
    BY <2>1, <2>2, <2>3, <2>4, <2>5, <2>6 DEF ChannelNext
<1> QED
  BY <1>1, <1>2, PTL DEF ChannelSpec

(* No command is stranded: whatever sends fall between the two pipelines   *)
(* of fetch_commands, a stored command is announced or about to be drained *)
(* unless a Redis call has failed.                                         *)
THEOREM NothingStranded == ChannelSpec => []NoStrandedCommand
<1>1. ChannelInit => NoStrandedCommand
  BY DEF ChannelInit, NoStrandedCommand
<1>2. ChannelTypeOK /\ NoStrandedCommand /\ [ChannelNext]_channelVars => NoStrandedCommand'
  <2> SUFFICES ASSUME ChannelTypeOK, NoStrandedCommand, [ChannelNext]_channelVars PROVE NoStrandedCommand'
    OBVIOUS
  <2> USE DEF ChannelTypeOK, NoStrandedCommand
  <2>1. CASE send_command
    BY <2>1 DEF send_command
  <2>2. CASE has_pending_commands
    BY <2>2 DEF has_pending_commands
  <2>3. CASE fetch_commands
    BY <2>3 DEF fetch_commands
  <2>4. CASE Expire
    BY <2>4 DEF Expire
  <2>5. CASE RedisError
    BY <2>5 DEF RedisError
  <2>6. CASE UNCHANGED channelVars
    BY <2>6 DEF channelVars
  <2> QED
    BY <2>1, <2>2, <2>3, <2>4, <2>5, <2>6 DEF ChannelNext
<1> QED
  BY <1>1, <1>2, ChannelTypeCorrect, PTL DEF ChannelSpec

(* Sending: the next number keeps a sequence increasing. *)
LEMMA IncreasingAppend ==
    ASSUME NEW s \in Seq(Nat), NEW n \in Nat, Increasing(s, n)
    PROVE  Increasing(Append(s, n + 1), n + 1)
<1> DEFINE r == Append(s, n + 1)
<1>1. /\ Len(s) \in Nat /\ Len(r) = Len(s) + 1
      /\ \A i \in 1 .. Len(s) : r[i] = s[i]
      /\ r[Len(s) + 1] = n + 1
  BY AppendProperties, LenProperties
<1>2. \A i \in 1 .. Len(s) : s[i] \in Nat
  BY ElementOfSeq
<1>3. /\ \A x, y \in 1 .. Len(s) : x < y => s[x] < s[y]
      /\ \A x \in 1 .. Len(s) : s[x] <= n
  BY DEF Increasing
<1> HIDE DEF r
<1>4. \A x \in 1 .. Len(r) : x \in 1 .. Len(s) \/ x = Len(s) + 1
  BY <1>1
<1>5. \A x \in 1 .. Len(r) : r[x] <= n + 1
  BY <1>1, <1>2, <1>3, <1>4
<1>6. \A x, y \in 1 .. Len(r) : x < y => r[x] < r[y]
  <2> SUFFICES ASSUME NEW x \in 1 .. Len(r), NEW y \in 1 .. Len(r), x < y
               PROVE  r[x] < r[y]
    OBVIOUS
  <2>1. x \in 1 .. Len(s)
    BY <1>1
  <2>2. r[x] = s[x] /\ s[x] \in Nat /\ s[x] <= n
    BY <1>1, <1>2, <1>3, <2>1
  <2>3. CASE y \in 1 .. Len(s)
    BY <1>1, <1>3, <2>1, <2>3
  <2>4. CASE y = Len(s) + 1
    BY <1>1, <2>2, <2>4
  <2> QED
    BY <1>4, <2>3, <2>4
<1>7. Increasing(r, n + 1)
  BY <1>5, <1>6 DEF Increasing
<1> QED
  BY <1>7 DEF r

(* Losing the stored commands leaves a prefix. *)
LEMMA IncreasingPrefix ==
    ASSUME NEW s \in Seq(Nat), NEW t \in Seq(Nat), NEW n \in Nat, Increasing(s \o t, n)
    PROVE  Increasing(s, n)
<1> DEFINE r == s \o t
<1>1. /\ Len(s) \in Nat /\ Len(t) \in Nat /\ Len(r) = Len(s) + Len(t)
      /\ \A i \in 1 .. Len(s) : r[i] = s[i]
  BY ConcatProperties, LenProperties
<1>2. Increasing(r, n)
  OBVIOUS
<1>3. \A i \in 1 .. Len(s) : i \in 1 .. Len(r)
  BY <1>1
<1> HIDE DEF r
<1> QED
  BY <1>1, <1>2, <1>3 DEF Increasing

(* In order, at most once: what the engine has received, followed by what  *)
(* is stored, is strictly increasing in the order of sending, with         *)
(* expirations and failed calls included.                                  *)
THEOREM InOrderAtMostOnce == ChannelSpec => []DeliveredInOrder
<1>1. ChannelInit => DeliveredInOrder
  BY ConcatEmptySeq, EmptySeq DEF ChannelInit, DeliveredInOrder, Increasing
<1>2. ChannelTypeOK /\ ChannelTypeOK' /\ DeliveredInOrder /\ [ChannelNext]_channelVars => DeliveredInOrder'
  <2> SUFFICES ASSUME ChannelTypeOK, ChannelTypeOK', DeliveredInOrder, [ChannelNext]_channelVars PROVE DeliveredInOrder'
    OBVIOUS
  <2>1. CASE send_command
    <3>1. fetched \o list \in Seq(Nat) /\ sends \in Nat
      BY ConcatProperties DEF ChannelTypeOK
    <3>2. fetched \o Append(list, sends + 1) = Append(fetched \o list, sends + 1)
      <4>1. <<sends + 1>> \in Seq(Nat) /\ sends + 1 \in Nat
        BY <3>1
      <4>2. fetched \o Append(list, sends + 1) = fetched \o (list \o <<sends + 1>>)
        BY <4>1, AppendIsConcat DEF ChannelTypeOK
      <4>3. fetched \o (list \o <<sends + 1>>) = (fetched \o list) \o <<sends + 1>>
        <5>1. fetched \in Seq(Nat) /\ list \in Seq(Nat)
          BY DEF ChannelTypeOK
        <5> QED
          BY <4>1, <5>1, ConcatAssociative
      <4>4. Append(fetched \o list, sends + 1) = (fetched \o list) \o <<sends + 1>>
        BY <3>1, <4>1, AppendIsConcat
      <4> QED
        BY <4>2, <4>3, <4>4
    <3>3. Increasing(Append(fetched \o list, sends + 1), sends + 1)
      BY <3>1, IncreasingAppend DEF DeliveredInOrder
    <3> QED
      BY <2>1, <3>2, <3>3 DEF send_command, DeliveredInOrder
  <2>2. CASE has_pending_commands
    BY <2>2 DEF has_pending_commands, DeliveredInOrder
  <2>3. CASE fetch_commands
    <3>1. (fetched \o list)' = fetched \o list
      BY <2>3, ConcatProperties, ConcatEmptySeq DEF fetch_commands, ChannelTypeOK
    <3> QED
      BY <2>3, <3>1 DEF fetch_commands, DeliveredInOrder
  <2>4. ASSUME list' = <<>>, fetched' = fetched, sends' = sends PROVE DeliveredInOrder'
    <3>1. Increasing(fetched, sends)
      BY IncreasingPrefix DEF ChannelTypeOK, DeliveredInOrder
    <3>2. (fetched \o list)' = fetched
      BY <2>4, ConcatEmptySeq DEF ChannelTypeOK
    <3> QED
      BY <2>4, <3>1, <3>2 DEF DeliveredInOrder
  <2>5. CASE Expire \/ RedisError
    <3>1. fetched' = fetched /\ sends' = sends /\ (list' = <<>> \/ list' = list)
      BY <2>5 DEF Expire, RedisError
    <3>2. CASE list' = list
      BY <3>1, <3>2 DEF DeliveredInOrder
    <3> QED
      BY <2>4, <3>1, <3>2
  <2>6. CASE UNCHANGED channelVars
    BY <2>6 DEF channelVars, DeliveredInOrder
  <2> QED
    BY <2>1, <2>2, <2>3, <2>5, <2>6 DEF ChannelNext
<1> QED
  BY <1>1, <1>2, ChannelTypeCorrect, PTL DEF ChannelSpec

(* The two-step fetch over Redis, with its marker, implements the first-in *)
(* first-out queue of the command channel protocol, for any number of      *)
(* commands; it loses commands only if faults are allowed.                 *)
THEOREM ChannelRefinement == ChannelSpec => ImplementsQueue
<1>1. ChannelInit => Queue!Init
  BY DEF ChannelInit, Queue!Init
<1>2. ChannelTypeOK /\ [ChannelNext]_channelVars => [Queue!Next]_<<list, fetched, sends>>
  <2> SUFFICES ASSUME ChannelTypeOK, [ChannelNext]_channelVars PROVE [Queue!Next]_<<list, fetched, sends>>
    OBVIOUS
  <2>1. CASE send_command
    BY <2>1 DEF send_command, Queue!Next, Queue!SendCommand
  <2>2. CASE has_pending_commands
    BY <2>2 DEF has_pending_commands
  <2>3. CASE fetch_commands
    <3>0. list \in Seq(Nat) /\ fetched \in Seq(Nat)
      BY DEF ChannelTypeOK
    <3>1. CASE list = <<>>
      BY <2>3, <3>0, <3>1, ConcatEmptySeq DEF fetch_commands
    <3>2. CASE list # <<>>
      <4>1. Len(list) \in 1 .. Len(list)
        BY <3>0, <3>2, EmptySeq
      <4>2. SubSeq(list, 1, Len(list)) = list
        BY <3>0, SubSeqFull
      <4>3. SubSeq(list, Len(list) + 1, Len(list)) = <<>>
        BY <3>0, LenProperties, SubSeqEmpty
      <4>4. Queue!FetchCommands(Len(list))
        BY <2>3, <4>2, <4>3 DEF fetch_commands, Queue!FetchCommands
      <4> QED
        BY <4>1, <4>4 DEF Queue!Next
    <3> QED
      BY <3>1, <3>2
  <2>4. CASE Expire \/ RedisError
    <3>1. MaxExpiries + MaxErrors > 0
      BY <2>4, ChannelAssumption DEF Expire, RedisError, ChannelTypeOK
    <3>2. fetched' = fetched /\ sends' = sends /\ (list' = <<>> \/ list' = list)
      BY <2>4 DEF Expire, RedisError
    <3> QED
      BY <3>1, <3>2 DEF Queue!Next, Queue!Lose
  <2>5. CASE UNCHANGED channelVars
    BY <2>5 DEF channelVars
  <2> QED
    BY <2>1, <2>2, <2>3, <2>4, <2>5 DEF ChannelNext
<1> QED
  BY <1>1, <1>2, ChannelTypeCorrect, PTL DEF ChannelSpec, ImplementsQueue, Queue!Spec

-----------------------------------------------------------------------------
(* The bounds of the worker pool, for any number of workers and nodes and  *)
(* any configuration.  Besides the bounds themselves the inductive         *)
(* invariant says that the worker that is waited for is in the list, which *)
(* is then above min_workers, and that nobody but it was told to stop.     *)

Phases == {"unborn", "waiting", "busy", "exited"}

PoolTypes ==
    /\ running \in BOOLEAN /\ created \in 0 .. MaxThreads
    /\ pool \subseteq 1 .. created /\ joining \in 0 .. MaxThreads
    /\ phase \in [Threads -> Phases] /\ stop \in [Threads -> BOOLEAN]

(* A thread that was not created yet was not told to stop. *)
Unborn == \A w \in Threads : w > created => ~stop[w]

(* The worker that _remove_worker waits for is in the list, which has      *)
(* others enough; stop waits for the pool's lock meanwhile.                *)
Joining == joining # 0 => running /\ joining \in pool /\ Cardinality(pool) > MinWorkers

Serving == running => \A w \in pool \ {joining} : w \in Live /\ ~stop[w]

Bounded == running => Cardinality(pool) \in MinWorkers .. MaxWorkers

PoolInv == PoolTypes /\ Unborn /\ Joining /\ Serving /\ Bounded

(* The list is finite; a worker more or less changes its length by one. *)
LEMMA PoolFinite ==
    ASSUME PoolTypes
    PROVE  /\ IsFiniteSet(pool) /\ Cardinality(pool) \in Nat
           /\ \A w \in Threads : w \notin pool =>
                 Cardinality(pool \union {w}) = Cardinality(pool) + 1
           /\ \A w \in pool : Cardinality(pool \ {w}) = Cardinality(pool) - 1
<1>1. created \in Nat /\ pool \subseteq 1 .. created
  BY PoolAssumption DEF PoolTypes
<1>2. IsFiniteSet(1 .. created)
  BY <1>1, FS_Interval
<1>3. IsFiniteSet(pool)
  BY <1>1, <1>2, FS_Subset
<1> QED
  BY <1>3, FS_CardinalityType, FS_AddElement, FS_RemoveElement

(* Whom a check removes: one worker at most, of a list above min_workers.  *)
LEMMA RemovedFacts ==
    ASSUME PoolTypes
    PROVE  /\ Removed \subseteq pool
           /\ Removed # {} => Cardinality(pool) > MinWorkers
           /\ \A v, w \in Removed : v = w
<1>1. Cardinality(pool) \in Nat /\ MinWorkers \in Nat
  BY PoolFinite, PoolAssumption
<1>2. ASSUME NEW w \in Removable PROVE w \in pool /\ Cardinality(pool) - 1 >= MinWorkers
  BY DEF Removable
<1>3. Removed \subseteq Removable /\ \A v, w \in Removed : v <= w
  BY DEF Removed
<1>4. \A w \in pool : w \in Nat
  BY PoolAssumption DEF PoolTypes
<1>5. ASSUME Removed # {} PROVE Cardinality(pool) > MinWorkers
  <2>1. PICK w \in Removed : TRUE
    BY <1>5
  <2>2. Cardinality(pool) - 1 >= MinWorkers
    BY <1>2, <1>3, <2>1
  <2> QED
    BY <1>1, <2>2
<1>6. ASSUME NEW v \in Removed, NEW w \in Removed PROVE v = w
  <2>1. v <= w /\ w <= v
    BY <1>3
  <2>2. v \in Nat /\ w \in Nat
    BY <1>2, <1>3, <1>4
  <2> QED
    BY <2>1, <2>2
<1> QED
  BY <1>2, <1>3, <1>5, <1>6

LEMMA PoolStarts == PoolInit => PoolInv
<1> SUFFICES ASSUME PoolInit PROVE PoolInv
  OBVIOUS
<1>1. /\ InitialCount \in Nat /\ MaxThreads \in Nat /\ InitialCount <= MaxThreads
      /\ InitialCount \in MinWorkers .. MaxWorkers /\ MinWorkers \in Nat
  BY PoolAssumption
<1>2. Cardinality(pool) = InitialCount
  BY <1>1, FS_Interval DEF PoolInit
<1>3. PoolTypes
  BY <1>1 DEF PoolInit, PoolTypes, Threads, Phases
<1>4. Unborn /\ Joining /\ Bounded
  BY <1>1, <1>2 DEF PoolInit, Unborn, Joining, Bounded
<1>5. Serving
  BY <1>1 DEF PoolInit, Serving, Live, Threads
<1> QED
  BY <1>3, <1>4, <1>5 DEF PoolInv

(* A worker ends only after it was told to stop. *)
LEMMA WorkerKeeps ==
    ASSUME PoolInv, NEW w \in Threads, PoolWorker(w)
    PROVE  PoolInv'
<1>1. /\ UNCHANGED <<running, pool, created, joining, stop>>
      /\ \/ phase' = [phase EXCEPT ![w] = "busy"]
         \/ phase' = [phase EXCEPT ![w] = "waiting"]
         \/ phase' = [phase EXCEPT ![w] = "exited"] /\ stop[w]
  BY DEF PoolWorker, Take, Finish, Exit
<1>2. PoolTypes'
  BY <1>1 DEF PoolInv, PoolTypes, Phases
<1>3. Serving'
  BY <1>1 DEF PoolInv, PoolTypes, Serving, Live
<1> QED
  BY <1>1, <1>2, <1>3 DEF PoolInv, Unborn, Joining, Bounded

(* A check adds at most one worker, within the bound, and begins to remove *)
(* at most one.                                                            *)
LEMMA CheckKeeps ==
    ASSUME PoolInv, check_and_scale
    PROVE  PoolInv'
<1> DEFINE new == IF ScalesUp THEN {created + 1} ELSE {}
<1>1. /\ running /\ joining = 0 /\ running' = running
      /\ ScalesUp => created < MaxThreads
      /\ pool' = pool \union new /\ created' = created + Cardinality(new)
      /\ phase' = [w \in Threads |-> IF w \in new THEN "waiting" ELSE phase[w]]
      /\ joining' = IF Removed = {} THEN 0 ELSE CHOOSE w \in Removed : TRUE
      /\ stop' = [w \in Threads |-> stop[w] \/ w \in Removed]
  BY DEF check_and_scale
<1>2. /\ created \in Nat /\ MaxThreads \in Nat /\ created <= MaxThreads
      /\ pool \subseteq 1 .. created /\ Cardinality(pool) \in Nat
      /\ MinWorkers \in Nat /\ MaxWorkers \in Nat
  BY PoolFinite, PoolAssumption DEF PoolInv, PoolTypes
<1>3. /\ created' = IF ScalesUp THEN created + 1 ELSE created
      /\ \A w \in new : w = created + 1 /\ w \in Threads /\ w \notin pool
  <2>1. CASE ScalesUp
    <3>1. Cardinality({created + 1}) = 1
      BY FS_Singleton
    <3>2. new = {created + 1}
      BY <2>1
    <3>3. created' = created + 1
      BY <1>1, <3>1, <3>2
    <3>4. created + 1 \in 1 .. MaxThreads /\ created + 1 \notin pool
      BY <1>1, <1>2, <2>1
    <3> QED
      BY <2>1, <3>2, <3>3, <3>4 DEF Threads
  <2>2. CASE ~ScalesUp
    <3>1. Cardinality({}) = 0
      BY FS_EmptySet
    <3>2. new = {}
      BY <2>2
    <3>3. created' = created
      BY <1>1, <1>2, <3>1, <3>2
    <3> QED
      BY <2>2, <3>2, <3>3
  <2> QED
    BY <2>1, <2>2
<1>4. /\ Cardinality(pool') \in MinWorkers .. MaxWorkers
      /\ Cardinality(pool') >= Cardinality(pool)
  <2>1. Cardinality(pool) \in MinWorkers .. MaxWorkers
    BY <1>1 DEF PoolInv, Bounded
  <2>2. CASE ScalesUp
    <3>1. pool' = pool \union {created + 1} /\ created + 1 \in Threads /\ created + 1 \notin pool
      BY <1>1, <1>3, <2>2
    <3>2. Cardinality(pool') = Cardinality(pool) + 1
      BY <3>1, PoolFinite DEF PoolInv
    <3>3. Cardinality(pool) < MaxWorkers
      BY <2>2 DEF ScalesUp
    <3> QED
      BY <1>2, <2>1, <3>2, <3>3
  <2>3. CASE ~ScalesUp
    <3>1. pool' = pool
      BY <1>1, <2>3
    <3> QED
      BY <1>2, <2>1, <3>1
  <2> QED
    BY <2>2, <2>3
<1>5. \A w \in Removed : w \in pool /\ w \in Threads /\ w \in Nat \ {0}
  <2>1. Removed \subseteq pool
    BY RemovedFacts DEF PoolInv
  <2>2. \A w \in pool : w \in 1 .. MaxThreads /\ w \in Nat \ {0}
    BY <1>2
  <2> QED
    BY <2>1, <2>2 DEF Threads
<1>6. joining' # 0 => joining' \in Removed
  BY <1>1
<1>7. \A w \in Removed : w = joining'
  <2>1. SUFFICES ASSUME NEW w \in Removed PROVE w = joining'
    OBVIOUS
  <2>2. joining' \in Removed
    BY <1>1
  <2> QED
    BY <2>2, RemovedFacts DEF PoolInv
<1>8. pool' \subseteq 1 .. created'
  BY <1>1, <1>2, <1>3
<1> HIDE DEF new
<1>9. PoolTypes'
  <2>1. created' \in 0 .. MaxThreads
    BY <1>1, <1>2, <1>3
  <2>2. joining' \in 0 .. MaxThreads
    BY <1>2, <1>5, <1>6 DEF Threads
  <2>3. phase' \in [Threads -> Phases] /\ stop' \in [Threads -> BOOLEAN]
    BY <1>1 DEF PoolInv, PoolTypes, Phases
  <2> QED
    BY <1>1, <1>8, <2>1, <2>2, <2>3 DEF PoolInv, PoolTypes
<1>10. Unborn'
  <2> SUFFICES ASSUME NEW w \in Threads, w > created' PROVE ~stop'[w]
    BY DEF Unborn
  <2>1. w > created /\ w \notin pool
    BY <1>2, <1>3 DEF Threads
  <2> QED
    BY <1>1, <1>5, <2>1 DEF PoolInv, Unborn
<1>11. Joining'
  <2> SUFFICES ASSUME joining' # 0 PROVE joining' \in pool' /\ Cardinality(pool') > MinWorkers
    BY <1>1 DEF Joining
  <2>1. joining' \in pool'
    BY <1>1, <1>5, <1>6
  <2>2. Cardinality(pool) > MinWorkers
    BY <1>6, RemovedFacts DEF PoolInv
  <2> QED
    BY <1>2, <1>4, <2>1, <2>2
<1>12. Serving'
  <2> SUFFICES ASSUME NEW w \in pool', w # joining' PROVE w \in Live' /\ ~stop'[w]
    BY DEF Serving
  <2>1. w \notin Removed
    BY <1>7
  <2>2. CASE w \in new
    <3>1. w \in Threads /\ w > created
      BY <1>2, <1>3, <2>2
    <3>2. phase'[w] = "waiting" /\ ~stop[w]
      BY <1>1, <2>2, <3>1 DEF PoolInv, Unborn
    <3> QED
      BY <1>1, <2>1, <3>1, <3>2 DEF Live
  <2>3. CASE w \notin new
    <3>1. w \in pool /\ w \in Threads /\ w # 0
      BY <1>1, <1>2, <2>3 DEF Threads
    <3>2. w \in Live /\ ~stop[w]
      BY <1>1, <3>1 DEF PoolInv, Serving
    <3> QED
      BY <1>1, <2>1, <2>3, <3>1, <3>2 DEF Live
  <2> QED
    BY <2>2, <2>3
<1> QED
  BY <1>1, <1>4, <1>9, <1>10, <1>11, <1>12 DEF PoolInv, Bounded

LEMMA JoinKeeps ==
    ASSUME PoolInv, JoinEnds
    PROVE  PoolInv'
<1>1. /\ joining # 0 /\ pool' = pool \ {joining} /\ joining' = 0
      /\ UNCHANGED <<running, created, phase, stop>>
  BY DEF JoinEnds
<1>2. running /\ joining \in pool /\ Cardinality(pool) > MinWorkers
  BY <1>1 DEF PoolInv, Joining
<1>3. Cardinality(pool') = Cardinality(pool) - 1 /\ Cardinality(pool) \in Nat
  BY <1>1, <1>2, PoolFinite DEF PoolInv
<1>4. Cardinality(pool') \in MinWorkers .. MaxWorkers
  BY <1>2, <1>3, PoolAssumption DEF PoolInv, Bounded
<1>5. PoolTypes' /\ Unborn' /\ Joining'
  BY <1>1, PoolAssumption DEF PoolInv, PoolTypes, Unborn, Joining
<1>6. Serving'
  BY <1>1 DEF PoolInv, Serving, Live
<1> QED
  BY <1>4, <1>5, <1>6 DEF PoolInv, Bounded

LEMMA StopKeeps ==
    ASSUME PoolInv, Stop
    PROVE  PoolInv'
<1>1. /\ running' = FALSE /\ joining' = 0 /\ pool' = {} /\ created' = created /\ phase' = phase
      /\ stop' = [w \in Threads |-> stop[w] \/ w \in pool]
  BY DEF Stop
<1>2. PoolTypes'
  <2>1. pool' \subseteq 1 .. created' /\ created' \in 0 .. MaxThreads
    BY <1>1 DEF PoolInv, PoolTypes
  <2>2. joining' \in 0 .. MaxThreads
    BY <1>1, PoolAssumption
  <2>4. running' \in BOOLEAN
    BY <1>1
  <2>3. phase' \in [Threads -> Phases] /\ stop' \in [Threads -> BOOLEAN]
    BY <1>1 DEF PoolInv, PoolTypes
  <2> QED
    BY <2>1, <2>2, <2>3, <2>4 DEF PoolTypes
<1>3. Unborn'
  BY <1>1, PoolAssumption DEF PoolInv, PoolTypes, Unborn, Threads
<1> QED
  BY <1>1, <1>2, <1>3 DEF PoolInv, Joining, Serving, Bounded, Stop

THEOREM PoolCorrect == PoolSpec => []PoolInv
<1>1. PoolInv /\ [PoolNext]_poolVars => PoolInv'
  <2> SUFFICES ASSUME PoolInv, [PoolNext]_poolVars PROVE PoolInv'
    OBVIOUS
  <2>1. ASSUME Tick \/ Enqueue \/ UNCHANGED poolVars PROVE PoolInv'
    <3>1. UNCHANGED <<running, pool, created, joining, phase, stop>>
      BY <2>1 DEF Tick, Enqueue, poolVars
    <3>2. PoolTypes' /\ Unborn'
      BY <3>1 DEF PoolInv, PoolTypes, Unborn
    <3>3. Joining' /\ Serving' /\ Bounded'
      BY <3>1 DEF PoolInv, Joining, Serving, Bounded, Live
    <3> QED
      BY <3>2, <3>3 DEF PoolInv
  <2> QED
    BY <2>1, WorkerKeeps, CheckKeeps, JoinKeeps, StopKeeps DEF PoolNext
<1> QED
  BY <1>1, PoolStarts, PTL DEF PoolSpec

(* As long as the pool runs, its list is within min_workers and            *)
(* max_workers, whatever a check adds and removes at the same time, and    *)
(* every worker in it serves the queue, but for the one being removed.     *)
THEOREM PoolBounds == PoolSpec => []PoolWithinBounds
<1>1. PoolInv => PoolWithinBounds
  BY DEF PoolInv, Bounded, Serving, PoolWithinBounds
<1> QED
  BY <1>1, PoolCorrect, PTL

-----------------------------------------------------------------------------
(* How a chat request ends, for any number of chunks.  No publisher knows  *)
(* whether another one has ended the request before; that the end reaches  *)
(* the client, and no kind of end twice, rests on the None that follows    *)
(* every message that ends it: nothing behind the first None is read.      *)

Messages == {"chunk", "replace", "end", "error", "stop", "none"}
Closing == {"end", "stop"}

Reading == listener \notin {"leave", "done"}
Reported == saved # <<>> \/ errored \/ gone
Handling(m) == listener = "handle" /\ message = m
HandlesEnding == \E m \in Ending : Handling(m)
Saved(m) == \E i \in DOMAIN saved : saved[i] = m
Queued(m) == \E k \in DOMAIN q : q[k] = m
NoneBefore(k) == \E j \in 1 .. k - 1 : q[j] = "none"

ListenTypes ==
    /\ q \in Seq(Messages) /\ saved \in Seq(Closing)
    /\ worker \in {"run", "check", "ending", "done"}
    /\ listener \in {"get", "handle", "finally", "leave", "done", "stopping", "replacing"}
    /\ listener = "handle" => message \in Messages \ {"none"}

(* No None without an end before it, in the queue or already handled. *)
EndFirst ==
    /\ ~Reading => Reported
    /\ \A k \in DOMAIN q :
          q[k] = "none" => Reported \/ HandlesEnding \/ \E j \in 1 .. k - 1 : q[j] \in Ending
    /\ worker = "ending" \/ listener \in {"replacing", "stopping"} =>
          Reported \/ HandlesEnding \/ \E k \in DOMAIN q : q[k] \in Ending

(* The worker ends once; behind a stop there is a None before the listener *)
(* tests again whether to stop.                                            *)
EndOnce == worker \in {"run", "check"} => ~Queued("end") /\ ~Handling("end") /\ ~Saved("end")

StopCloses ==
    /\ listener \in {"get", "handle", "finally"}
    /\ Queued("stop") \/ Handling("stop") \/ Saved("stop")
    => Queued("none")

(* What was saved, is handled or will be read: no kind of end is there twice. *)
KindsOnce ==
    /\ \A i, k \in DOMAIN saved : saved[i] = saved[k] => i = k
    /\ \A m \in Closing : Handling(m) => ~Saved(m)
    /\ Reading => \A k \in DOMAIN q :
          /\ q[k] \in Closing
          /\ Saved(q[k]) \/ Handling(q[k]) \/ \E j \in 1 .. k - 1 : q[j] = q[k]
          => NoneBefore(k)

ListenInv == ListenTypes /\ EndFirst /\ EndOnce /\ StopCloses /\ KindsOnce

-----------------------------------------------------------------------------
(* A message is put into the queue *)

(* The queue is longer; what is new in it are chunks and, at the end, m. *)
Grows(m) ==
    /\ q' \in Seq(Messages) /\ Len(q') > Len(q) /\ q'[Len(q')] = m
    /\ \A k \in DOMAIN q : k \in DOMAIN q' /\ q'[k] = q[k]
    /\ \A k \in DOMAIN q' \ DOMAIN q : k > Len(q) /\ (q'[k] = "chunk" \/ (k = Len(q') /\ q'[k] = m))

LEMMA AppendGrows ==
    ASSUME ListenTypes, NEW m \in Messages, q' = Append(q, m)
    PROVE  Grows(m)
<1>1. q \in Seq(Messages) /\ Len(q) \in Nat /\ DOMAIN q = 1 .. Len(q)
  BY DEF ListenTypes
<1>2. q' \in Seq(Messages) /\ Len(q') = Len(q) + 1 /\ DOMAIN q' = 1 .. Len(q) + 1
  BY <1>1
<1>3. q'[Len(q) + 1] = m /\ \A k \in 1 .. Len(q) : q'[k] = q[k]
  BY <1>1
<1> QED
  BY <1>1, <1>2, <1>3 DEF Grows

LEMMA AppendTwiceGrows ==
    ASSUME ListenTypes, NEW m \in Messages, q' = q \o <<"chunk", m>>
    PROVE  Grows(m)
<1>1. q \in Seq(Messages) /\ Len(q) \in Nat /\ DOMAIN q = 1 .. Len(q)
  BY DEF ListenTypes
<1>2. <<"chunk", m>> \in Seq(Messages)
  BY DEF Messages
<1>3. q' \in Seq(Messages) /\ Len(q') = Len(q) + 2 /\ DOMAIN q' = 1 .. Len(q) + 2
  BY <1>1, <1>2
<1>4. /\ q'[Len(q) + 2] = m /\ q'[Len(q) + 1] = "chunk"
      /\ \A k \in 1 .. Len(q) : q'[k] = q[k]
  BY <1>1, <1>2
<1> QED
  BY <1>1, <1>3, <1>4 DEF Grows

(* A None has an end before it, if it is put when one is on the way. *)
LEMMA PutFirst ==
    ASSUME ListenInv, NEW m \in Messages, Grows(m),
           UNCHANGED <<message, saved, errored, gone>>,
           listener' = listener \/ ~HandlesEnding,
           m = "none" => Reported \/ HandlesEnding \/ \E k \in DOMAIN q : q[k] \in Ending,
           listener' \notin {"leave", "done"} \/ Reported,
           (worker' = "ending" \/ listener' \in {"replacing", "stopping"})
             => worker = "ending" \/ listener \in {"replacing", "stopping"} \/ m \in Ending
    PROVE  EndFirst'
<1>1. (Reported \/ HandlesEnding) => (Reported \/ HandlesEnding)'
  BY DEF Reported, HandlesEnding, Handling
<1>2. DOMAIN q = 1 .. Len(q) /\ Len(q) \in Nat /\ DOMAIN q' = 1 .. Len(q') /\ Len(q') \in Nat
  BY DEF ListenInv, ListenTypes, Grows
<1>3. ~Reading' => Reported'
  BY DEF Reading, Reported
<1>4. ASSUME NEW k \in DOMAIN q', q'[k] = "none"
      PROVE  (Reported \/ HandlesEnding)' \/ \E j \in 1 .. k - 1 : q'[j] \in Ending
  <2>1. CASE k \in DOMAIN q
    <3>1. Reported \/ HandlesEnding \/ \E j \in 1 .. k - 1 : q[j] \in Ending
      BY <1>4, <2>1 DEF ListenInv, EndFirst, Grows
    <3> QED
      BY <1>1, <1>2, <2>1, <3>1 DEF Grows
  <2>2. CASE k \notin DOMAIN q
    <3>1. m = "none" /\ k > Len(q)
      BY <1>4, <2>2 DEF Grows
    <3>2. Reported \/ HandlesEnding \/ \E j \in DOMAIN q : q[j] \in Ending
      BY <3>1
    <3> QED
      BY <1>1, <1>2, <3>1, <3>2 DEF Grows
  <2> QED
    BY <2>1, <2>2
<1>5. ASSUME worker' = "ending" \/ listener' \in {"replacing", "stopping"}
      PROVE  (Reported \/ HandlesEnding)' \/ \E k \in DOMAIN q' : q'[k] \in Ending
  <2>1. CASE m \in Ending
    BY <1>2, <2>1 DEF Grows
  <2>2. CASE m \notin Ending
    <3>1. Reported \/ HandlesEnding \/ \E k \in DOMAIN q : q[k] \in Ending
      BY <1>5, <2>2 DEF ListenInv, EndFirst
    <3> QED
      BY <1>1, <3>1 DEF Grows
  <2> QED
    BY <2>1, <2>2
<1> QED
  BY <1>3, <1>4, <1>5 DEF EndFirst

(* A kind of end is put into the queue anew, or behind a None. *)
LEMMA PutKinds ==
    ASSUME ListenInv, NEW m \in Messages, Grows(m), UNCHANGED <<message, saved>>,
           listener' = listener \/ (Reading /\ listener' # "handle"),
           m \in Closing => Queued("none") \/ (~Queued(m) /\ ~Handling(m) /\ ~Saved(m))
    PROVE  KindsOnce'
<1>1. DOMAIN q = 1 .. Len(q) /\ Len(q) \in Nat /\ DOMAIN q' = 1 .. Len(q') /\ Len(q') \in Nat
  BY DEF ListenInv, ListenTypes, Grows
<1>2. \A c \in Closing : (Handling(c)' => Handling(c)) /\ (Saved(c)' <=> Saved(c))
  BY DEF Handling, Saved
<1>3. SUFFICES ASSUME Reading', NEW k \in DOMAIN q', q'[k] \in Closing,
                      Saved(q[k])' \/ Handling(q[k])' \/ \E j \in 1 .. k - 1 : q'[j] = q'[k]
               PROVE  NoneBefore(k)'
  BY <1>2 DEF ListenInv, KindsOnce, Saved, Handling
<1>4. Reading
  BY <1>3 DEF Reading
<1>5. CASE k \in DOMAIN q
  <2>1. q[k] \in Closing /\ q'[k] = q[k] /\ \A j \in 1 .. k - 1 : j \in DOMAIN q /\ q'[j] = q[j]
    BY <1>1, <1>3, <1>5 DEF Grows
  <2>2. Saved(q[k]) \/ Handling(q[k]) \/ \E j \in 1 .. k - 1 : q[j] = q[k]
    BY <1>2, <1>3, <2>1
  <2>3. NoneBefore(k)
    BY <1>4, <1>5, <2>1, <2>2 DEF ListenInv, KindsOnce
  <2> QED
    BY <2>1, <2>3 DEF NoneBefore
<1>6. CASE k \notin DOMAIN q
  <2>1. k = Len(q') /\ q'[k] = m /\ m \in Closing /\ k > Len(q)
    BY <1>3, <1>6 DEF Grows, Closing
  <2>2. ASSUME NEW j \in 1 .. k - 1, q'[j] = m PROVE Queued(m)
    <3>1. j \in DOMAIN q' /\ j # k
      BY <1>1, <1>3
    <3>2. j \in DOMAIN q
      BY <2>1, <2>2, <3>1 DEF Grows, Closing
    <3> QED
      BY <2>2, <3>2 DEF Grows, Queued
  <2>3. Queued("none")
    BY <1>2, <1>3, <2>1, <2>2
  <2> QED
    BY <1>1, <2>1, <2>3 DEF Queued, NoneBefore, Grows
<1> QED
  BY <1>5, <1>6

LEMMA PutOnce ==
    ASSUME ListenInv, NEW m \in Messages, Grows(m), UNCHANGED <<message, saved>>,
           listener' = listener \/ listener' # "handle",
           worker' \in {"run", "check"} => worker \in {"run", "check"} /\ m # "end",
           \/ m = "none" \/ listener' \notin {"get", "handle", "finally"}
           \/ m # "stop" /\ listener' = listener
    PROVE  EndOnce' /\ StopCloses'
<1>1. DOMAIN q' = 1 .. Len(q') /\ Len(q') \in Nat /\ Len(q') # 0
  BY DEF ListenInv, ListenTypes, Grows
<1>2. \A c \in Closing : (Handling(c)' => Handling(c)) /\ (Saved(c)' <=> Saved(c))
  BY DEF Handling, Saved
<1>3. \A c \in Closing : Queued(c)' => Queued(c) \/ m = c
  BY DEF Queued, Grows, Closing
<1>4. Queued("none") \/ m = "none" => Queued("none")'
  BY <1>1 DEF Queued, Grows
<1>5. EndOnce'
  BY <1>2, <1>3 DEF ListenInv, EndOnce, Closing
<1>6. StopCloses'
  BY <1>2, <1>3, <1>4 DEF ListenInv, StopCloses, Closing
<1> QED
  BY <1>5, <1>6

(* The threads that put one message, or the listener two. *)
LEMMA WorkerPuts ==
    ASSUME ListenInv, NEW m \in {"chunk", "end", "error"}, q' = Append(q, m),
           worker = "run", worker' = IF m = "chunk" THEN "check" ELSE "ending",
           UNCHANGED <<listener, message, saved, errored, gone>>
    PROVE  ListenInv'
<1>1. Grows(m) /\ m \in Messages
  BY AppendGrows DEF ListenInv, Messages
<1>2. m \in Closing => ~Queued(m) /\ ~Handling(m) /\ ~Saved(m)
  BY DEF ListenInv, EndOnce, Closing
<1>3. ListenTypes'
  BY <1>1 DEF ListenInv, ListenTypes, Grows
<1>4. EndFirst'
  <2>1. m \in Ending \/ worker' = "check"
    BY DEF Ending
  <2>2. Reading \/ Reported
    BY DEF ListenInv, EndFirst
  <2> QED
    BY <1>1, <2>1, <2>2, PutFirst DEF Reading
<1>5. KindsOnce'
  BY <1>1, <1>2, PutKinds
<1>6. EndOnce' /\ StopCloses'
  BY <1>1, PutOnce
<1> QED
  BY <1>3, <1>4, <1>5, <1>6 DEF ListenInv

LEMMA StopListenKeeps ==
    ASSUME ListenInv, WorkerStopListen \/ ListenerStopListen
    PROVE  ListenInv'
<1>1. /\ q' = Append(q, "none") /\ UNCHANGED <<message, saved, errored, gone>>
      /\ \/ worker = "ending" /\ worker' = "done" /\ listener' = listener
         \/ /\ listener \in {"replacing", "stopping"} /\ listener' \in {"finally", "get"}
            /\ worker' = worker
  BY DEF WorkerStopListen, ListenerStopListen, listenerVars, workerVars
<1>2. Grows("none") /\ "none" \in Messages
  BY <1>1, AppendGrows DEF ListenInv, Messages
<1>3. Reported \/ HandlesEnding \/ \E k \in DOMAIN q : q[k] \in Ending
  BY <1>1 DEF ListenInv, EndFirst
<1>4. Reading \/ Reported
  BY DEF ListenInv, EndFirst
<1>5. listener' = listener \/ (Reading /\ ~HandlesEnding /\ listener' # "handle")
  BY <1>1 DEF HandlesEnding, Handling, Reading
<1>6. ListenTypes'
  BY <1>1, <1>2 DEF ListenInv, ListenTypes, Grows
<1>7. EndFirst'
  BY <1>1, <1>2, <1>3, <1>4, <1>5, PutFirst DEF Reading
<1>8. KindsOnce'
  BY <1>1, <1>2, <1>5, PutKinds DEF Closing
<1>9. EndOnce' /\ StopCloses'
  BY <1>1, <1>2, <1>5, PutOnce
<1> QED
  BY <1>6, <1>7, <1>8, <1>9 DEF ListenInv

LEMMA ReplacementKeeps == ASSUME ListenInv, ModerationPublishes PROVE ListenInv'
<1>1. q' = Append(q, "replace") /\ UNCHANGED <<worker, listener, message, saved, errored, gone>>
  BY DEF ModerationPublishes, listenerVars, workerVars
<1>2. Grows("replace") /\ "replace" \in Messages
  BY <1>1, AppendGrows DEF ListenInv, Messages
<1>3. Reading \/ Reported
  BY DEF ListenInv, EndFirst
<1>4. ListenTypes'
  BY <1>1, <1>2 DEF ListenInv, ListenTypes, Grows
<1>5. EndFirst'
  BY <1>1, <1>2, <1>3, PutFirst DEF Reading
<1>6. KindsOnce'
  BY <1>1, <1>2, PutKinds DEF Closing
<1>7. EndOnce' /\ StopCloses'
  BY <1>1, <1>2, PutOnce
<1> QED
  BY <1>4, <1>5, <1>6, <1>7 DEF ListenInv

(* A stop that the listener publishes: while it handles a chunk, or in the *)
(* finally clause.  If there was one before, a None follows it.            *)
LEMMA StopPut ==
    ASSUME ListenInv, Grows("stop"), listener \in {"handle", "finally"}, ~HandlesEnding,
           listener' \in {"replacing", "stopping"},
           UNCHANGED <<worker, message, saved, errored, gone>>
    PROVE  ListenInv'
<1>1. "stop" \in Messages /\ "stop" \in Ending
  BY DEF Messages, Ending
<1>2. Queued("none") \/ (~Queued("stop") /\ ~Handling("stop") /\ ~Saved("stop"))
  BY DEF ListenInv, StopCloses
<1>3. ListenTypes'
  BY DEF ListenInv, ListenTypes, Grows
<1>4. EndFirst'
  BY <1>1, PutFirst
<1>5. KindsOnce'
  BY <1>1, <1>2, PutKinds DEF Reading
<1>6. EndOnce' /\ StopCloses'
  BY <1>1, PutOnce
<1> QED
  BY <1>3, <1>4, <1>5, <1>6 DEF ListenInv

-----------------------------------------------------------------------------
(* The other steps *)

(* A step that leaves the queue, what is handled and what was saved alone. *)
LEMMA QuietKeeps ==
    ASSUME ListenInv, UNCHANGED <<q, message, saved, errored, gone>>,
           worker' = worker \/ (worker = "check" /\ worker' \in {"run", "done"}),
           listener' = listener \/ (listener \in {"get", "handle", "finally"}
                                      /\ ~HandlesEnding /\ listener' \in {"get", "finally"})
    PROVE  ListenInv'
<1>1. \A m \in Messages : /\ Handling(m)' => Handling(m)
                          /\ Saved(m)' <=> Saved(m)
                          /\ Queued(m)' <=> Queued(m)
  BY DEF Handling, Saved, Queued
<1>2. (HandlesEnding' <=> HandlesEnding) /\ (Reported' <=> Reported) /\ (Reading' <=> Reading)
  BY DEF HandlesEnding, Handling, Reported, Reading
<1>3. ListenTypes'
  BY DEF ListenInv, ListenTypes
<1>4. EndFirst'
  BY <1>2 DEF ListenInv, EndFirst
<1>5. EndOnce' /\ StopCloses'
  BY <1>1 DEF ListenInv, EndOnce, StopCloses, Messages
<1>6. KindsOnce'
  BY <1>2 DEF ListenInv, KindsOnce, Handling, Saved, NoneBefore
<1> QED
  BY <1>3, <1>4, <1>5, <1>6 DEF ListenInv

(* The head of the queue is handled next; a None ends the listening. *)
LEMMA GetKeeps == ASSUME ListenInv, Get PROVE ListenInv'
<1>1. /\ listener = "get" /\ q # <<>> /\ q' = Tail(q) /\ message' = Head(q)
      /\ listener' = IF Head(q) = "none" THEN "leave" ELSE "handle"
      /\ UNCHANGED <<worker, saved, errored, gone>>
  BY DEF Get, workerVars
<1>2. /\ q \in Seq(Messages) /\ Len(q) \in Nat \ {0} /\ DOMAIN q = 1 .. Len(q)
      /\ Head(q) = q[1] /\ q[1] \in Messages
  BY <1>1 DEF ListenInv, ListenTypes
<1>3. /\ q' \in Seq(Messages) /\ Len(q') = Len(q) - 1 /\ DOMAIN q' = 1 .. Len(q) - 1
      /\ \A k \in 1 .. Len(q) - 1 : q'[k] = q[k + 1]
  BY <1>1, <1>2
<1>4. \A m : ~Handling(m) /\ (Saved(m)' <=> Saved(m)) /\ (Queued(m)' => Queued(m))
  BY <1>1, <1>2, <1>3 DEF Handling, Saved, Queued
<1>5. \A m : Handling(m)' <=> m = q[1] /\ m # "none"
  BY <1>1, <1>2 DEF Handling
<1>6. ListenTypes'
  BY <1>1, <1>2, <1>3 DEF ListenInv, ListenTypes
<1>7. CASE q[1] = "none"
  <2>1. Reported
    BY <1>2, <1>4, <1>7 DEF ListenInv, EndFirst, HandlesEnding
  <2>2. Reported' /\ ~Reading' /\ listener' = "leave"
    BY <1>1, <1>2, <1>7, <2>1 DEF Reported, Reading
  <2>3. EndFirst'
    BY <2>2 DEF EndFirst
  <2>4. EndOnce' /\ StopCloses'
    BY <1>1, <1>4, <1>5, <1>7, <2>2 DEF ListenInv, EndOnce, StopCloses
  <2>5. KindsOnce'
    BY <1>1, <1>5, <1>7, <2>2 DEF ListenInv, KindsOnce, Closing
  <2> QED
    BY <1>6, <2>3, <2>4, <2>5 DEF ListenInv
<1>8. CASE q[1] # "none"
  <2>1. listener' = "handle" /\ Reading' /\ Reading /\ (Reported' <=> Reported)
    BY <1>1, <1>2, <1>8 DEF Reading, Reported
  <2>2. HandlesEnding' <=> q[1] \in Ending
    BY <1>5, <1>8 DEF HandlesEnding, Ending
  <2>3. EndFirst'
    <3>1. ASSUME NEW k \in DOMAIN q', q'[k] = "none"
          PROVE  (Reported \/ HandlesEnding)' \/ \E j \in 1 .. k - 1 : q'[j] \in Ending
      <4>1. k + 1 \in DOMAIN q /\ q[k + 1] = "none" /\ k \in Nat
        BY <1>2, <1>3, <3>1
      <4>2. Reported \/ \E j \in 1 .. k : q[j] \in Ending
        BY <1>4, <4>1 DEF ListenInv, EndFirst, HandlesEnding
      <4>3. ASSUME NEW j \in 1 .. k, q[j] \in Ending
            PROVE  HandlesEnding' \/ \E i \in 1 .. k - 1 : q'[i] \in Ending
        <5>1. CASE j = 1
          BY <2>2, <4>3, <5>1
        <5>2. CASE j # 1
          <6>1. j - 1 \in 1 .. k - 1 /\ j - 1 \in 1 .. Len(q) - 1 /\ (j - 1) + 1 = j
            BY <1>2, <4>1, <5>2
          <6>2. q'[j - 1] = q[j]
            BY <1>3, <6>1
          <6> QED
            BY <4>3, <6>1, <6>2
        <5> QED
          BY <5>1, <5>2
      <4> QED
        BY <2>1, <4>2, <4>3
    <3>2. ASSUME worker' = "ending"
          PROVE  (Reported \/ HandlesEnding)' \/ \E k \in DOMAIN q' : q'[k] \in Ending
      <4>1. Reported \/ \E j \in DOMAIN q : q[j] \in Ending
        BY <1>1, <1>4, <3>2 DEF ListenInv, EndFirst, HandlesEnding
      <4>2. ASSUME NEW j \in DOMAIN q, q[j] \in Ending
            PROVE  HandlesEnding' \/ \E i \in DOMAIN q' : q'[i] \in Ending
        <5>1. CASE j = 1
          BY <2>2, <4>2, <5>1
        <5>2. CASE j # 1
          <6>1. j - 1 \in 1 .. Len(q) - 1 /\ (j - 1) + 1 = j
            BY <1>2, <5>2
          <6>2. q'[j - 1] = q[j]
            BY <1>3, <6>1
          <6> QED
            BY <1>3, <4>2, <6>1, <6>2
        <5> QED
          BY <5>1, <5>2
      <4> QED
        BY <2>1, <4>1, <4>2
    <3> QED
      BY <2>1, <3>1, <3>2 DEF EndFirst
  <2>4. EndOnce'
    <3>1. q[1] = "end" => Queued("end")
      BY <1>2 DEF Queued
    <3> QED
      BY <1>1, <1>4, <1>5, <3>1 DEF ListenInv, EndOnce
  <2>5. StopCloses'
    <3>1. q[1] = "stop" => Queued("stop")
      BY <1>2 DEF Queued
    <3>2. Queued("none") => Queued("none")'
      <4> SUFFICES ASSUME NEW j \in DOMAIN q, q[j] = "none" PROVE Queued("none")'
        BY DEF Queued
      <4>1. j - 1 \in 1 .. Len(q) - 1 /\ (j - 1) + 1 = j
        BY <1>2, <1>8
      <4>2. q'[j - 1] = "none" /\ j - 1 \in DOMAIN q'
        BY <1>3, <4>1
      <4> QED
        BY <4>2 DEF Queued
    <3> QED
      BY <1>1, <1>4, <1>5, <3>1, <3>2 DEF ListenInv, StopCloses
  <2>6. KindsOnce'
    <3>1. ASSUME NEW k \in DOMAIN q, q[k] \in Closing,
                 Saved(q[k]) \/ \E j \in 1 .. k - 1 : q[j] = q[k]
          PROVE  NoneBefore(k)
      BY <2>1, <3>1 DEF ListenInv, KindsOnce
    <3>2. \A m \in Closing : Handling(m)' => ~Saved(m)'
      <4> SUFFICES ASSUME NEW m \in Closing, m = q[1] PROVE ~Saved(m)
        BY <1>4, <1>5
      <4>1. ~NoneBefore(1)
        BY DEF NoneBefore
      <4> QED
        BY <1>2, <3>1, <4>1
    <3>3. ASSUME NEW k \in DOMAIN q', q'[k] \in Closing,
                 Saved(q[k])' \/ Handling(q[k])' \/ \E j \in 1 .. k - 1 : q'[j] = q'[k]
          PROVE  NoneBefore(k)'
      <4>1. k + 1 \in DOMAIN q /\ q[k + 1] = q'[k] /\ k \in 1 .. Len(q) - 1
        BY <1>2, <1>3
      <4>2. Saved(q[k + 1]) \/ q[k + 1] = q[1] \/ \E j \in 1 .. k - 1 : q[j + 1] = q[k + 1]
        BY <1>3, <1>4, <1>5, <3>3, <4>1
      <4>3. Saved(q[k + 1]) \/ \E j \in 1 .. (k + 1) - 1 : q[j] = q[k + 1]
        BY <1>2, <4>1, <4>2
      <4>4. NoneBefore(k + 1)
        BY <3>1, <3>3, <4>1, <4>3
      <4>5. PICK j \in 1 .. k : q[j] = "none"
        BY <1>2, <4>1, <4>4 DEF NoneBefore
      <4>6. j - 1 \in 1 .. k - 1 /\ j - 1 \in 1 .. Len(q) - 1 /\ (j - 1) + 1 = j
        BY <1>2, <1>8, <4>1, <4>5
      <4>7. q'[j - 1] = "none"
        BY <1>3, <4>5, <4>6
      <4> QED
        BY <4>6, <4>7 DEF NoneBefore
    <3> QED
      BY <1>1, <3>2, <3>3 DEF ListenInv, KindsOnce, Saved, Handling
  <2> QED
    BY <1>6, <2>3, <2>4, <2>5, <2>6 DEF ListenInv
<1> QED
  BY <1>7, <1>8

(* An end is saved. *)
LEMMA HandleEndKeeps == ASSUME ListenInv, HandleEnd PROVE ListenInv'
<1>1. /\ listener = "handle" /\ message \in Closing /\ saved' = Append(saved, message)
      /\ listener' = "finally" /\ UNCHANGED <<q, worker, message, errored, gone>>
  BY DEF HandleEnd, queueVars, workerVars, Closing
<1>2. saved \in Seq(Closing) /\ Len(saved) \in Nat /\ DOMAIN saved = 1 .. Len(saved)
  BY DEF ListenInv, ListenTypes
<1>3. /\ saved' \in Seq(Closing) /\ Len(saved') = Len(saved) + 1
      /\ DOMAIN saved' = 1 .. Len(saved) + 1 /\ saved'[Len(saved) + 1] = message
      /\ \A i \in 1 .. Len(saved) : saved'[i] = saved[i]
  BY <1>1, <1>2
<1>4. \A m : /\ Saved(m)' <=> Saved(m) \/ m = message
             /\ Handling(m) <=> m = message
             /\ ~Handling(m)'
             /\ Queued(m)' <=> Queued(m)
  BY <1>1, <1>2, <1>3 DEF Saved, Handling, Queued
<1>5. Reported' /\ Reading /\ Reading'
  BY <1>1, <1>2, <1>3 DEF Reported, Reading
<1>6. ListenTypes'
  BY <1>1, <1>3 DEF ListenInv, ListenTypes
<1>7. EndFirst'
  BY <1>1, <1>5 DEF EndFirst
<1>8. EndOnce' /\ StopCloses'
  BY <1>1, <1>4 DEF ListenInv, EndOnce, StopCloses
<1>9. KindsOnce'
  <2>1. ASSUME NEW i \in DOMAIN saved', NEW k \in DOMAIN saved', saved'[i] = saved'[k]
        PROVE  i = k
    <3>1. ~Saved(message)
      BY <1>1, <1>4 DEF ListenInv, KindsOnce
    <3> QED
      BY <1>2, <1>3, <2>1, <3>1 DEF ListenInv, KindsOnce, Saved
  <2>2. \A m \in Closing : ~Handling(m)'
    BY <1>4
  <2>3. ASSUME NEW k \in DOMAIN q, q[k] \in Closing,
               Saved(q[k])' \/ Handling(q[k])' \/ \E j \in 1 .. k - 1 : q[j] = q[k]
        PROVE  NoneBefore(k)
    <3>1. Saved(q[k]) \/ Handling(q[k]) \/ \E j \in 1 .. k - 1 : q[j] = q[k]
      BY <1>1, <1>4, <2>3
    <3> QED
      BY <1>5, <2>3, <3>1 DEF ListenInv, KindsOnce
  <2> QED
    BY <1>1, <2>1, <2>2, <2>3 DEF KindsOnce, NoneBefore
<1> QED
  BY <1>6, <1>7, <1>8, <1>9 DEF ListenInv

(* The listener leaves, or has left: what else is in the queue is not read. *)
LEMMA LeaveKeeps ==
    ASSUME ListenInv, listener' \in {"leave", "done"}, Reported', q' \in Seq(Messages),
           Queued("end")' => Queued("end"), UNCHANGED <<worker, saved>>
    PROVE  ListenInv'
<1>1. ListenTypes'
  BY DEF ListenInv, ListenTypes
<1>2. EndFirst'
  BY DEF EndFirst
<1>3. EndOnce' /\ StopCloses'
  BY DEF ListenInv, EndOnce, StopCloses, Handling, Saved
<1>4. KindsOnce'
  BY DEF ListenInv, KindsOnce, Handling, Saved, Reading
<1> QED
  BY <1>1, <1>2, <1>3, <1>4 DEF ListenInv

LEMMA FinallyKeeps == ASSUME ListenInv, Finally PROVE ListenInv'
<1>1. listener \in {"finally", "leave"} /\ UNCHANGED <<worker, message, saved, errored, gone>>
  BY DEF Finally, workerVars
<1>2. q \in Seq(Messages) /\ DOMAIN q = 1 .. Len(q) /\ Len(q) \in Nat
  BY DEF ListenInv, ListenTypes
<1>3. ~HandlesEnding
  BY <1>1 DEF HandlesEnding, Handling
<1>4. CASE listener = "leave"
  <2>1. listener' = "done" /\ Reported /\ q' \in {q, q \o <<"stop", "none">>}
    BY <1>4 DEF Finally, ListenInv, EndFirst, Reading
  <2>2. Reported'
    BY <1>1, <2>1 DEF Reported
  <2>3. q' \in Seq(Messages) /\ (Queued("end")' => Queued("end"))
    <3>1. CASE q' = q
      BY <1>2, <3>1 DEF Queued
    <3>2. CASE q' = q \o <<"stop", "none">>
      <4>1. <<"stop", "none">> \in Seq(Messages)
        BY DEF Messages
      <4>2. /\ q' \in Seq(Messages) /\ DOMAIN q' = 1 .. Len(q) + 2
            /\ \A k \in 1 .. Len(q) : q'[k] = q[k]
            /\ q'[Len(q) + 1] = "stop" /\ q'[Len(q) + 2] = "none"
        BY <1>2, <3>2, <4>1
      <4> QED
        BY <1>2, <4>2 DEF Queued
    <3> QED
      BY <2>1, <3>1, <3>2
  <2> QED
    BY <1>1, <2>1, <2>2, <2>3, LeaveKeeps
<1>5. CASE listener = "finally" /\ StopDue
  <2>1. q' = Append(q, "stop") /\ listener' = "stopping"
    BY <1>5 DEF Finally
  <2>2. Grows("stop")
    BY <2>1, AppendGrows DEF ListenInv, Messages
  <2> QED
    BY <1>1, <1>3, <1>5, <2>1, <2>2, StopPut
<1>6. CASE listener = "finally" /\ ~StopDue
  <2>1. q' = q /\ listener' = "get"
    BY <1>6 DEF Finally
  <2> QED
    BY <1>1, <1>3, <1>6, <2>1, QuietKeeps
<1> QED
  BY <1>1, <1>4, <1>5, <1>6

LEMMA HandleKeeps ==
    ASSUME ListenInv, HandleChunk \/ HandleEnd \/ HandleError \/ Disconnect
    PROVE  ListenInv'
<1>1. CASE HandleChunk
  <2>1. /\ listener = "handle" /\ UNCHANGED <<worker, message, saved, errored, gone>>
        /\ \/ q' = q \o <<"chunk", "stop">> /\ listener' = "replacing"
           \/ q' = q /\ listener' = "finally"
    BY <1>1 DEF HandleChunk, workerVars
  <2>2. ~HandlesEnding
    BY <1>1 DEF HandleChunk, HandlesEnding, Handling, Ending
  <2>3. CASE q' = q \o <<"chunk", "stop">> /\ listener' = "replacing"
    <3>1. Grows("stop")
      BY <2>3, AppendTwiceGrows DEF ListenInv, Messages
    <3> QED
      BY <2>1, <2>2, <2>3, <3>1, StopPut
  <2>4. CASE q' = q /\ listener' = "finally"
    BY <2>1, <2>2, <2>4, QuietKeeps
  <2> QED
    BY <2>1, <2>3, <2>4
<1>2. CASE HandleError \/ Disconnect
  <2>1. /\ listener' = "leave" /\ (errored' \/ gone')
        /\ UNCHANGED <<q, worker, saved>>
    BY <1>2 DEF HandleError, Disconnect, queueVars, workerVars
  <2>2. q' \in Seq(Messages) /\ (Queued("end")' => Queued("end")) /\ Reported'
    BY <2>1 DEF ListenInv, ListenTypes, Queued, Reported
  <2> QED
    BY <2>1, <2>2, LeaveKeeps
<1> QED
  BY <1>1, <1>2, HandleEndKeeps

THEOREM ListenCorrect == Spec => []ListenInv
<1>1. Init => ListenInv
  BY DEF Init, ListenInv, ListenTypes, EndFirst, EndOnce, StopCloses, KindsOnce,
         Queued, Saved, Handling, Reading
<1>2. ListenInv /\ [Next]_vars => ListenInv'
  <2> SUFFICES ASSUME ListenInv, [Next]_vars PROVE ListenInv'
    OBVIOUS
  <2>1. ASSUME NEW m \in {"chunk", "end", "error"},
               (m = "chunk" /\ WorkerChunk) \/ (m # "chunk" /\ WorkerEnd(m))
        PROVE  ListenInv'
    <3>1. /\ q' = Append(q, m) /\ worker = "run"
          /\ worker' = IF m = "chunk" THEN "check" ELSE "ending"
          /\ UNCHANGED <<listener, message, saved, errored, gone>>
      BY <2>1 DEF WorkerChunk, WorkerEnd, WorkerPut, listenerVars
    <3> QED
      BY <3>1, WorkerPuts
  <2>2. ASSUME \/ CacheExpires \/ TimePasses \/ StopRead \/ StopSet \/ WorkerCheck
               \/ \E action \in {"none", "overridden", "direct_output"} : ModerationLooks(action)
               \/ UNCHANGED vars
        PROVE  ListenInv'
    <3>1. UNCHANGED <<q, listener, message, saved, errored, gone>>
      BY <2>2 DEF CacheExpires, TimePasses, StopRead, StopSet, WorkerCheck, ModerationLooks,
                  vars, queueVars, listenerVars
    <3>2. worker' = worker \/ (worker = "check" /\ worker' \in {"run", "done"})
      BY <2>2 DEF CacheExpires, TimePasses, StopRead, StopSet, WorkerCheck, ModerationLooks,
                  vars, workerVars
    <3> QED
      BY <3>1, <3>2, QuietKeeps
  <2>3. ASSUME GetEmpty PROVE ListenInv'
    <3>1. /\ listener = "get" /\ listener' = "finally"
          /\ UNCHANGED <<q, worker, message, saved, errored, gone>>
      BY <2>3 DEF GetEmpty, queueVars, workerVars
    <3>2. ~HandlesEnding
      BY <3>1 DEF HandlesEnding, Handling
    <3> QED
      BY <3>1, <3>2, QuietKeeps
  <2>4. WorkerChunk \/ (\E m \in {"end", "error"} : WorkerEnd(m)) => ListenInv'
    BY <2>1
  <2> QED
    BY <2>2, <2>3, <2>4, StopListenKeeps, ReplacementKeeps, GetKeeps, FinallyKeeps, HandleKeeps
    DEF Next, Worker, Listener
<1> QED
  BY <1>1, <1>2, PTL DEF Spec

(* A request that is over was saved, or an error was reported, or the      *)
(* client is gone; and it is saved twice at most, for two kinds of end,    *)
(* however often the worker, the stop flag, the time limit and the output  *)
(* moderation end it.                                                      *)
THEOREM EndReported == Spec => []EndIsReported
<1>1. ListenInv => EndIsReported
  <2> SUFFICES ASSUME ListenInv PROVE EndIsReported
    OBVIOUS
  <2>1. listener = "done" => saved # <<>> \/ errored \/ gone
    BY DEF ListenInv, EndFirst, Reading, Reported
  <2>2. ASSUME Len(saved) > 1 PROVE Len(saved) = 2 /\ saved[1] # saved[2]
    <3>1. saved \in Seq(Closing) /\ Len(saved) \in Nat /\ DOMAIN saved = 1 .. Len(saved)
      BY DEF ListenInv, ListenTypes
    <3>2. \A i, k \in 1 .. Len(saved) : saved[i] = saved[k] => i = k
      BY <3>1 DEF ListenInv, KindsOnce
    <3>3. saved[1] # saved[2] /\ saved[1] \in Closing /\ saved[2] \in Closing
      BY <2>2, <3>1, <3>2
    <3>4. ASSUME Len(saved) > 2 PROVE FALSE
      <4>1. saved[3] # saved[1] /\ saved[3] # saved[2] /\ saved[3] \in Closing
        BY <3>1, <3>2, <3>4
      <4> QED
        BY <3>3, <4>1 DEF Closing
    <3> QED
      BY <2>2, <3>1, <3>3, <3>4
  <2> QED
    BY <2>1, <2>2 DEF EndIsReported
<1> QED
  BY <1>1, ListenCorrect, PTL

-----------------------------------------------------------------------------
(* Which updates of conversation variables survive a parallel iteration,   *)
(* for lists, thread pools and sets of variables of any size.              *)

ChildPhases == {"new", "queued", "running", "ended", "taken", "cancelled"}
Collected == {order[x] : x \in DOMAIN order}

(* Another iteration, collected after i, had copied v before i was synced. *)
Overlapped(i, v) ==
    \E x, y \in DOMAIN order : x < y /\ order[x] = i /\ i \notin seen[order[y]][v]

NodeTypes ==
    /\ is_parallel \in BOOLEAN
    /\ main \in {"submit", "collect", "sync", "exit", "over"}
    /\ position \in 0 .. K /\ order \in Seq(Iters)
    /\ parent \in [Names -> SUBSET Iters]
    /\ child \in [Iters -> ChildPhases] /\ wrote \in [Iters -> BOOLEAN]
    /\ copied \in [Iters -> Seq(SUBSET Iters)] /\ seen \in [Iters -> Seq(SUBSET Iters)]
    /\ \A i \in Iters : Len(copied[i]) = Len(seen[i]) /\ Len(copied[i]) \in 0 .. K
    /\ DOMAIN outcome = Iters

(* Iterations are submitted in the order of the list. *)
Submitted == \E c \in 0 .. N : \A i \in Iters : child[i] = "new" <=> i > c

(* What an iteration has done by the phase it is in. *)
ByPhase ==
    \A i \in Iters :
        /\ child[i] \in {"new", "queued"} => Len(copied[i]) = 0
        /\ child[i] \in {"new", "queued", "running", "cancelled"} \/ outcome[i] = "raised" => ~wrote[i]
        /\ child[i] \in {"ended", "taken"} => outcome[i] = "raised" \/ Len(copied[i]) = K
        /\ child[i] = "taken" => i \in Collected \/ outcome[i] = "raised"

(* Each is collected once, has ended before, and is taken once it is       *)
(* synced; the last one collected is the one being synced.                 *)
Collecting ==
    /\ \A x, y \in DOMAIN order : order[x] = order[y] => x = y
    /\ \A i \in Collected : outcome[i] # "raised" /\ (child[i] = "taken" \/ (child[i] = "ended" /\ i = current))
    /\ IF main = "sync" THEN order # <<>> /\ current = order[Len(order)] /\ child[current] = "ended"
       ELSE current = 0 /\ position = 0
    /\ result = "succeeded" => main = "over" /\ \A i \in Iters : child[i] = "taken"

(* The update of a synced iteration is in the parent's pool, and in a copy *)
(* that was made afterwards, unless an overlapping one removed it.         *)
Updates ==
    /\ \A v \in Names : \A i \in Synced(v) :
          wrote[i] => i \in parent[v] \/ Overlapped(i, v)
    /\ \A j \in Iters : \A v \in 1 .. Len(copied[j]) : \A i \in seen[j][v] :
          i \in Collected /\ (wrote[i] => i \in copied[j][v] \/ Overlapped(i, v))
    /\ \A i \in Iters, v \in Names : wrote[i] => i \in copied[i][v]

(* Sequential mode: one iteration at a time, which has seen all others. *)
Alone ==
    ~is_parallel =>
        /\ main = "submit" => \A i \in Iters : child[i] \in {"new", "taken"}
        /\ \A i, j \in Iters :
              child[i] \notin {"new", "taken"} /\ child[j] \notin {"new", "taken"} => i = j
        /\ \A j \in Iters, i \in Collected : child[j] \in {"running", "ended"} =>
              \A v \in 1 .. Len(copied[j]) : i \in seen[j][v] \union {j}
        /\ \A x, y \in DOMAIN order : x < y =>
              \A v \in Names : order[x] \in seen[order[y]][v]

IterInv == NodeTypes /\ Submitted /\ ByPhase /\ Collecting /\ Updates /\ Alone

-----------------------------------------------------------------------------
LEMMA NodeFacts ==
    ASSUME IterInv
    PROVE  /\ N \in Nat /\ K \in Nat /\ Iters = 1 .. N /\ Names = 1 .. K
           /\ order \in Seq(Iters) /\ Len(order) \in Nat /\ DOMAIN order = 1 .. Len(order)
           /\ Collected \subseteq Iters
           /\ \A v \in Names : Synced(v) \subseteq Collected
           /\ main = "sync" => current \in Collected /\ Len(order) \in DOMAIN order
           /\ main # "sync" => current = 0 /\ \A v \in Names : Synced(v) = Collected
           /\ \A i \in Collected : child[i] = "taken" \/ (child[i] = "ended" /\ i = current)
           /\ 0 \notin Iters
<1>1. N \in Nat /\ K \in Nat /\ Iters = 1 .. N /\ Names = 1 .. K
  BY IterationAssumption DEF Iters, Names
<1>2. order \in Seq(Iters)
  BY DEF IterInv, NodeTypes
<1>3. Len(order) \in Nat /\ DOMAIN order = 1 .. Len(order)
  BY <1>2
<1>4. Collected \subseteq Iters
  BY <1>2, <1>3 DEF Collected
<1>5. \A v \in Names : Synced(v) \subseteq Collected
  BY DEF Synced, Collected
<1>6. main = "sync" => current \in Collected /\ Len(order) \in DOMAIN order
  BY <1>2, <1>3 DEF IterInv, Collecting, Collected
<1>7. main # "sync" => current = 0 /\ \A v \in Names : Synced(v) = Collected
  <2>1. main # "sync" => current = 0
    BY DEF IterInv, Collecting
  <2>2. 0 \notin Collected
    BY <1>1, <1>4
  <2> QED
    BY <2>1, <2>2 DEF Synced, Collected
<1> QED
  BY <1>1, <1>2, <1>3, <1>4, <1>5, <1>6, <1>7 DEF IterInv, Collecting

(* Steps that leave the copies, the order and the synced variables alone. *)
LEMMA UpdatesKept ==
    ASSUME Updates, UNCHANGED <<order, position, current, parent, copied, seen, wrote>>
    PROVE  Updates'
BY DEF Updates, Synced, Overlapped, Collected

LEMMA IterInit == IterationInit => IterInv
<1> SUFFICES ASSUME IterationInit PROVE IterInv
  OBVIOUS
<1>1. N \in Nat /\ K \in Nat /\ Iters = 1 .. N
  BY IterationAssumption DEF Iters
<1>2. order = <<>> /\ DOMAIN order = {} /\ Collected = {}
  BY DEF IterationInit, Collected
<1>3. NodeTypes
  <2>1. \A i \in Iters : copied[i] = <<>> /\ seen[i] = <<>>
    BY DEF IterationInit
  <2>2. DOMAIN copied = Iters /\ DOMAIN seen = Iters /\ DOMAIN outcome = Iters
    BY DEF IterationInit
  <2>3. copied \in [Iters -> Seq(SUBSET Iters)] /\ seen \in [Iters -> Seq(SUBSET Iters)]
    BY DEF IterationInit
  <2>4. \A i \in Iters : Len(copied[i]) = Len(seen[i]) /\ Len(copied[i]) \in 0 .. K
    BY <1>1, <2>1
  <2>5. child \in [Iters -> ChildPhases] /\ wrote \in [Iters -> BOOLEAN] /\ parent \in [Names -> SUBSET Iters]
    BY DEF IterationInit, ChildPhases
  <2>6. position \in 0 .. K /\ order \in Seq(Iters) /\ main = "submit" /\ is_parallel \in BOOLEAN
    BY <1>1 DEF IterationInit
  <2> QED
    BY <2>2, <2>3, <2>4, <2>5, <2>6 DEF NodeTypes
<1>4. Submitted
  <2>1. 0 \in 0 .. N /\ \A i \in Iters : child[i] = "new" <=> i > 0
    BY <1>1 DEF IterationInit
  <2> QED
    BY <2>1 DEF Submitted
<1>5. ByPhase
  BY DEF IterationInit, ByPhase
<1>6. Collecting
  BY <1>2 DEF IterationInit, Collecting
<1>7. Updates
  <2>1. \A v : Synced(v) = {}
    BY <1>2 DEF Synced
  <2>2. \A j \in Iters : Len(copied[j]) = 0
    BY DEF IterationInit
  <2> QED
    BY <2>1, <2>2 DEF IterationInit, Updates
<1>8. Alone
  BY <1>2 DEF IterationInit, Alone
<1> QED
  BY <1>3, <1>4, <1>5, <1>6, <1>7, <1>8 DEF IterInv

-----------------------------------------------------------------------------
(* The threads *)

LEMMA StartKeeps ==
    ASSUME IterInv, NEW i \in Iters, Start(i) PROVE IterInv'
<1>1. /\ child[i] = "queued" /\ child' = [child EXCEPT ![i] = "running"]
      /\ UNCHANGED <<nodeVars, mainVars, copied, outcome, wrote, seen>>
  BY DEF Start, In, Become
<1>2. /\ \A j \in Iters : child'[j] = IF j = i THEN "running" ELSE child[j]
      /\ UNCHANGED <<is_parallel, main, current, position, parent, order, result,
                     copied, outcome, wrote, seen>>
  BY <1>1 DEF IterInv, NodeTypes, nodeVars, mainVars
<1>3. NodeTypes'
  BY <1>1, <1>2 DEF IterInv, NodeTypes, ChildPhases
<1>4. Submitted'
  BY <1>1, <1>2 DEF IterInv, Submitted
<1>5. ByPhase'
  BY <1>1, <1>2 DEF IterInv, ByPhase, Collected
<1>6. Collecting'
  BY <1>1, <1>2 DEF IterInv, Collecting, Collected
<1>7. Updates'
  BY <1>2, UpdatesKept DEF IterInv
<1>8. Alone'
  <2>1. Len(copied[i]) = 0
    BY <1>1 DEF IterInv, ByPhase
  <2>2. \A j \in Iters : child'[j] \in {"new", "taken"} <=> child[j] \in {"new", "taken"}
    BY <1>1, <1>2
  <2>3. \A j \in Iters \ {i} : child'[j] = child[j]
    BY <1>2
  <2> QED
    BY <1>2, <2>1, <2>2, <2>3 DEF IterInv, Alone, Collected
<1> QED
  BY <1>3, <1>4, <1>5, <1>6, <1>7, <1>8 DEF IterInv

LEMMA RaisesKeeps ==
    ASSUME IterInv, NEW i \in Iters, Raises(i) PROVE IterInv'
<1>1. /\ child[i] = "running" /\ child' = [child EXCEPT ![i] = "ended"]
      /\ outcome' = [outcome EXCEPT ![i] = "raised"]
      /\ UNCHANGED <<nodeVars, mainVars, copied, wrote, seen>>
  BY DEF Raises, Become
<1>2. /\ \A j \in Iters : child'[j] = IF j = i THEN "ended" ELSE child[j]
      /\ \A j \in Iters : outcome'[j] = IF j = i THEN "raised" ELSE outcome[j]
      /\ UNCHANGED <<is_parallel, main, current, position, parent, order, result,
                     copied, wrote, seen>>
  BY <1>1 DEF IterInv, NodeTypes, nodeVars, mainVars
<1>3. Collected' = Collected /\ i \notin Collected /\ Collected \subseteq Iters
  BY <1>1, <1>2, NodeFacts DEF Collected
<1>4. NodeTypes'
  BY <1>1, <1>2 DEF IterInv, NodeTypes, ChildPhases
<1>5. Submitted'
  BY <1>1, <1>2 DEF IterInv, Submitted
<1>6. ByPhase'
  BY <1>1, <1>2, <1>3 DEF IterInv, ByPhase
<1>7. Collecting'
  <2>1. main = "sync" => current \in Collected
    BY NodeFacts
  <2> QED
    BY <1>1, <1>2, <1>3, <2>1 DEF IterInv, Collecting
<1>8. Updates'
  BY <1>2, UpdatesKept DEF IterInv
<1>9. Alone'
  <2>1. \A j \in Iters : /\ child'[j] \in {"new", "taken"} <=> child[j] \in {"new", "taken"}
                         /\ child'[j] \in {"running", "ended"} <=> child[j] \in {"running", "ended"}
    BY <1>1, <1>2
  <2> QED
    BY <1>2, <1>3, <2>1 DEF IterInv, Alone
<1> QED
  BY <1>4, <1>5, <1>6, <1>7, <1>8, <1>9 DEF IterInv

(* What another thread does leaves the comparison of two collected ones    *)
(* alone.                                                                  *)
LEMMA OverlapKept ==
    ASSUME \A j \in Collected : seen'[j] = seen[j], order' = order
    PROVE  \A i, v : Overlapped(i, v)' <=> Overlapped(i, v)
BY DEF Overlapped, Collected

LEMMA RunEndsKeeps ==
    ASSUME IterInv, NEW i \in Iters, NEW o \in Outcomes, NEW w \in BOOLEAN, RunEnds(i, o, w)
    PROVE  IterInv'
<1>1. /\ child[i] = "running" /\ Len(copied[i]) = K /\ child' = [child EXCEPT ![i] = "ended"]
      /\ outcome' = [outcome EXCEPT ![i] = o] /\ wrote' = [wrote EXCEPT ![i] = w]
      /\ copied' = IF w THEN [copied EXCEPT ![i] = [v \in Names |-> copied[i][v] \union {i}]] ELSE copied
      /\ UNCHANGED <<nodeVars, mainVars, seen>>
  BY DEF RunEnds, Become
<1>2. /\ \A j \in Iters : child'[j] = IF j = i THEN "ended" ELSE child[j]
      /\ \A j \in Iters : outcome'[j] = IF j = i THEN o ELSE outcome[j]
      /\ \A j \in Iters : wrote'[j] = IF j = i THEN w ELSE wrote[j]
      /\ \A j \in Iters \ {i} : copied'[j] = copied[j]
      /\ UNCHANGED <<is_parallel, main, current, position, parent, order, result, seen>>
      /\ o # "raised"
  BY <1>1 DEF IterInv, NodeTypes, nodeVars, mainVars, Outcomes
<1>3. Collected' = Collected /\ i \notin Collected /\ Collected \subseteq Iters
  BY <1>1, <1>2, NodeFacts DEF Collected
<1>4. /\ copied'[i] \in Seq(SUBSET Iters) /\ Len(copied'[i]) = K
      /\ \A v \in Names : copied[i][v] \subseteq copied'[i][v] /\ (w => i \in copied'[i][v])
  <2>1. copied[i] \in Seq(SUBSET Iters) /\ Names = 1 .. K /\ K \in Nat
    BY NodeFacts DEF IterInv, NodeTypes
  <2>2. \A v \in Names : copied[i][v] \in SUBSET Iters
    BY <1>1, <2>1
  <2>3. CASE w = TRUE
    <3>1. copied'[i] = [v \in Names |-> copied[i][v] \union {i}]
      BY <1>1, <2>3 DEF IterInv, NodeTypes
    <3>2. copied'[i] \in Seq(SUBSET Iters) /\ Len(copied'[i]) = K
      BY <2>1, <2>2, <3>1
    <3> QED
      BY <3>1, <3>2
  <2>4. CASE w = FALSE
    <3>1. copied' = copied
      BY <1>1, <2>4
    <3> QED
      BY <1>1, <2>1, <2>4, <3>1
  <2> QED
    BY <2>3, <2>4
<1>5. NodeTypes'
  <2>1. copied' \in [Iters -> Seq(SUBSET Iters)]
    <3>1. DOMAIN copied' = Iters /\ \E f : copied' = [copied EXCEPT ![i] = f]
      BY <1>1 DEF IterInv, NodeTypes
    <3> QED
      BY <1>4, <3>1 DEF IterInv, NodeTypes
  <2>2. \A j \in Iters : Len(copied'[j]) = Len(seen'[j]) /\ Len(copied'[j]) \in 0 .. K
    BY <1>1, <1>2, <1>4 DEF IterInv, NodeTypes
  <2> QED
    BY <1>1, <1>2, <2>1, <2>2 DEF IterInv, NodeTypes, ChildPhases
<1>6. Submitted'
  BY <1>1, <1>2 DEF IterInv, Submitted
<1>7. ByPhase'
  BY <1>1, <1>2, <1>3, <1>4 DEF IterInv, ByPhase
<1>8. Collecting'
  <2>1. main = "sync" => current \in Collected
    BY NodeFacts
  <2> QED
    BY <1>1, <1>2, <1>3, <2>1 DEF IterInv, Collecting
<1>9. Updates'
  <2>1. \A j, v : Overlapped(j, v)' <=> Overlapped(j, v)
    BY <1>2, OverlapKept
  <2>2. \A v \in Names : Synced(v)' = Synced(v) /\ Synced(v) \subseteq Collected
    BY <1>2, NodeFacts DEF Synced
  <2>3. \A v \in Names : \A j \in Synced(v) : wrote'[j] => j \in parent[v] \/ Overlapped(j, v)
    BY <1>2, <1>3, <2>2 DEF IterInv, Updates
  <2>4. ASSUME NEW j \in Iters, NEW v \in 1 .. Len(copied'[j]), NEW h \in seen[j][v]
        PROVE  h \in Collected /\ (wrote'[h] => h \in copied'[j][v] \/ Overlapped(h, v))
    <3>1. v \in 1 .. Len(copied[j]) /\ copied[j][v] \subseteq copied'[j][v]
      BY <1>1, <1>2, <1>4, NodeFacts
    <3>2. h \in Collected /\ (wrote[h] => h \in copied[j][v] \/ Overlapped(h, v))
      BY <3>1 DEF IterInv, Updates
    <3> QED
      BY <1>2, <1>3, <3>1, <3>2
  <2>5. \A j \in Iters, v \in Names : wrote'[j] => j \in copied'[j][v]
    BY <1>2, <1>4 DEF IterInv, Updates
  <2> QED
    BY <1>2, <1>3, <2>1, <2>2, <2>3, <2>4, <2>5 DEF Updates
<1>10. Alone'
  <2>1. \A j \in Iters : /\ child'[j] \in {"new", "taken"} <=> child[j] \in {"new", "taken"}
                         /\ child'[j] \in {"running", "ended"} <=> child[j] \in {"running", "ended"}
                         /\ Len(copied'[j]) = Len(copied[j])
    BY <1>1, <1>2, <1>4
  <2> QED
    BY <1>2, <1>3, <2>1 DEF IterInv, Alone
<1> QED
  BY <1>5, <1>6, <1>7, <1>8, <1>9, <1>10 DEF IterInv

LEMMA CopyKeeps ==
    ASSUME IterInv, NEW i \in Iters, CopyVariable(i) PROVE IterInv'
<1> DEFINE v == Len(copied[i]) + 1
<1>1. /\ child[i] = "running" /\ Len(copied[i]) < K
      /\ copied' = [copied EXCEPT ![i] = Append(copied[i], parent[v])]
      /\ seen' = [seen EXCEPT ![i] = Append(seen[i], Synced(v))]
      /\ UNCHANGED <<nodeVars, mainVars, child, outcome, wrote>>
  BY DEF CopyVariable, v
<1>0. v = Len(copied[i]) + 1
  BY DEF v
<1> HIDE DEF v
<1>2. /\ \A j \in Iters \ {i} : copied'[j] = copied[j] /\ seen'[j] = seen[j]
      /\ copied'[i] = Append(copied[i], parent[v]) /\ seen'[i] = Append(seen[i], Synced(v))
      /\ UNCHANGED <<is_parallel, main, current, position, parent, order, result,
                     child, outcome, wrote>>
  BY <1>1 DEF IterInv, NodeTypes, nodeVars, mainVars
<1>3. Collected' = Collected /\ i \notin Collected /\ Collected \subseteq Iters
  <2>1. Collected' = Collected
    BY <1>2 DEF Collected
  <2>2. i \notin Collected /\ Collected \subseteq Iters
    BY <1>1, NodeFacts
  <2> QED
    BY <2>1, <2>2
<1>4. /\ copied[i] \in Seq(SUBSET Iters) /\ seen[i] \in Seq(SUBSET Iters) /\ K \in Nat
      /\ Len(copied[i]) \in Nat /\ Len(seen[i]) = Len(copied[i])
      /\ v \in Names /\ parent[v] \in SUBSET Iters /\ Synced(v) \in SUBSET Iters
      /\ Synced(v) \subseteq Collected
  <2>1. /\ copied[i] \in Seq(SUBSET Iters) /\ seen[i] \in Seq(SUBSET Iters) /\ K \in Nat
        /\ Len(copied[i]) \in Nat /\ Len(seen[i]) = Len(copied[i]) /\ Names = 1 .. K
    BY NodeFacts DEF IterInv, NodeTypes
  <2>2. v \in Names
    BY <1>0, <1>1, <2>1
  <2>3. parent[v] \in SUBSET Iters /\ Synced(v) \subseteq Collected
    BY <2>2, NodeFacts DEF IterInv, NodeTypes
  <2> QED
    BY <1>3, <2>1, <2>2, <2>3
<1>5. /\ copied'[i] \in Seq(SUBSET Iters) /\ seen'[i] \in Seq(SUBSET Iters)
      /\ Len(copied'[i]) = v /\ Len(seen'[i]) = v /\ v \in 1 .. K
      /\ copied'[i][v] = parent[v] /\ seen'[i][v] = Synced(v)
      /\ \A u \in 1 .. Len(copied[i]) : copied'[i][u] = copied[i][u] /\ seen'[i][u] = seen[i][u]
  BY <1>0, <1>1, <1>2, <1>4
<1>6. 1 .. v = 1 .. Len(copied[i]) \union {v}
  BY <1>0, <1>4
<1>7. NodeTypes'
  <2>1. copied' \in [Iters -> Seq(SUBSET Iters)] /\ seen' \in [Iters -> Seq(SUBSET Iters)]
    BY <1>1, <1>2, <1>5 DEF IterInv, NodeTypes
  <2>2. \A j \in Iters : Len(copied'[j]) = Len(seen'[j]) /\ Len(copied'[j]) \in 0 .. K
    <3>1. \A j \in Iters \ {i} : Len(copied'[j]) = Len(seen'[j]) /\ Len(copied'[j]) \in 0 .. K
      BY <1>2 DEF IterInv, NodeTypes
    <3>2. Len(copied'[i]) = Len(seen'[i]) /\ Len(copied'[i]) \in 0 .. K
      BY <1>4, <1>5
    <3> QED
      BY <3>1, <3>2
  <2> QED
    BY <1>2, <2>1, <2>2 DEF IterInv, NodeTypes
<1>8. Submitted' /\ ByPhase' /\ Collecting'
  BY <1>1, <1>2, <1>3 DEF IterInv, Submitted, ByPhase, Collecting
<1>9. Updates'
  <2>1. \A j, u : Overlapped(j, u)' <=> Overlapped(j, u)
    BY <1>2, <1>3, OverlapKept
  <2>2. \A u \in Names : Synced(u)' = Synced(u)
    BY <1>2 DEF Synced
  <2>3. \A j \in Synced(v) : wrote[j] => j \in parent[v] \/ Overlapped(j, v)
    BY <1>4 DEF IterInv, Updates
  <2>4. ASSUME NEW j \in Iters, NEW u \in 1 .. Len(copied'[j]), NEW h \in seen'[j][u]
        PROVE  h \in Collected /\ (wrote[h] => h \in copied'[j][u] \/ Overlapped(h, u))
    <3>1. CASE j = i /\ u = v
      BY <1>4, <1>5, <2>3, <2>4, <3>1
    <3>2. CASE ~(j = i /\ u = v)
      <4>1. u \in 1 .. Len(copied[j]) /\ copied'[j][u] = copied[j][u] /\ seen'[j][u] = seen[j][u]
        <5>1. CASE j # i
          BY <1>2, <2>4, <5>1
        <5>2. CASE j = i /\ u # v
          BY <1>5, <1>6, <2>4, <5>2
        <5> QED
          BY <3>2, <5>1, <5>2
      <4> QED
        BY <2>4, <4>1 DEF IterInv, Updates
    <3> QED
      BY <3>1, <3>2
  <2>5. \A j \in Iters, u \in Names : wrote[j] => j \in copied'[j][u]
    BY <1>1, <1>2 DEF IterInv, Updates, ByPhase
  <2>6. \A u \in Names : \A j \in Synced(u) : wrote[j] => j \in parent[u] \/ Overlapped(j, u)
    BY DEF IterInv, Updates
  <2> QED
    BY <1>2, <1>3, <2>1, <2>2, <2>4, <2>5, <2>6 DEF Updates
<1>10. Alone'
  <2> SUFFICES ASSUME ~is_parallel PROVE Alone'
    BY <1>2 DEF Alone
  <2>1. main # "sync"
    BY <1>1, <1>3, NodeFacts DEF IterInv, Alone, Collecting
  <2>2. Synced(v) = Collected
    BY <1>4, <2>1, NodeFacts
  <2>3. ASSUME NEW j \in Iters, NEW h \in Collected, child[j] \in {"running", "ended"},
               NEW u \in 1 .. Len(copied'[j])
        PROVE  h \in seen'[j][u] \union {j}
    <3>1. CASE j = i /\ u = v
      BY <1>5, <2>2, <3>1
    <3>2. CASE ~(j = i /\ u = v)
      <4>1. u \in 1 .. Len(copied[j]) /\ seen'[j][u] = seen[j][u]
        <5>1. CASE j # i
          BY <1>2, <5>1
        <5>2. CASE j = i
          <6>1. u \in 1 .. v /\ u # v
            BY <1>5, <3>2, <5>2
          <6> QED
            BY <1>5, <1>6, <5>2, <6>1
        <5> QED
          BY <5>1, <5>2
      <4> QED
        BY <2>3, <4>1 DEF IterInv, Alone
    <3> QED
      BY <3>1, <3>2
  <2>4. \A x \in DOMAIN order : seen'[order[x]] = seen[order[x]]
    BY <1>2, <1>3 DEF Collected
  <2> QED
    BY <1>2, <1>3, <2>3, <2>4 DEF IterInv, Alone
<1> QED
  BY <1>7, <1>8, <1>9, <1>10 DEF IterInv

-----------------------------------------------------------------------------
(* The node *)

LEMMA NextNew ==
    ASSUME IterInv
    PROVE  \E c \in 0 .. N : /\ \A i \in Iters : child[i] = "new" <=> i > c
                            /\ Cardinality(Iters \ In({"new"})) = c
<1>1. PICK c \in 0 .. N : \A i \in Iters : child[i] = "new" <=> i > c
  BY DEF IterInv, Submitted
<1>2. N \in Nat /\ Iters = 1 .. N /\ c \in Nat /\ c <= N
  BY <1>1, NodeFacts
<1>3. Iters \ In({"new"}) = 1 .. c
  BY <1>1, <1>2 DEF In
<1>4. Cardinality(1 .. c) = IF 1 > c THEN 0 ELSE c - 1 + 1
  BY <1>2, FS_Interval
<1>5. Cardinality(1 .. c) = c
  BY <1>2, <1>4
<1> QED
  BY <1>1, <1>3, <1>5

LEMMA SubmitKeeps == ASSUME IterInv, Submit PROVE IterInv'
<1>1. PICK c \in 0 .. N : /\ \A i \in Iters : child[i] = "new" <=> i > c
                         /\ Cardinality(Iters \ In({"new"})) = c
  BY NextNew
<1>2. N \in Nat /\ Iters = 1 .. N /\ c \in Nat /\ c <= N
  BY <1>1, NodeFacts
<1>4. /\ main = "submit" /\ main' \in {"submit", "collect"} /\ (~is_parallel => main' = "collect")
      /\ child' = [child EXCEPT ![c + 1] = "queued"]
      /\ UNCHANGED <<is_parallel, current, position, parent, result, order,
                     copied, outcome, wrote, seen>>
  BY <1>1 DEF Submit, Become, nodeVars
<1>5. \A i \in Iters : child'[i] = IF i = c + 1 THEN "queued" ELSE child[i]
  BY <1>4 DEF IterInv, NodeTypes
<1>6. \A i \in Iters : i = c + 1 => child[i] = "new"
  BY <1>1, <1>2
<1>7. Collected' = Collected /\ Collected \subseteq Iters /\ c + 1 \notin Collected
  <2>1. Collected' = Collected
    BY <1>4 DEF Collected
  <2>2. Collected \subseteq Iters /\ c + 1 \notin Collected
    BY <1>6, NodeFacts
  <2> QED
    BY <2>1, <2>2
<1>8. NodeTypes'
  BY <1>4 DEF IterInv, NodeTypes, ChildPhases
<1>9. Submitted'
  <2>1. CASE c = N
    <3>1. \A i \in Iters : i # c + 1
      BY <1>2, <2>1
    <3> QED
      BY <1>1, <1>5, <3>1 DEF Submitted
  <2>2. CASE c # N
    <3>1. c + 1 \in 0 .. N
      BY <1>2, <2>2
    <3>2. \A i \in Iters : child'[i] = "new" <=> i > c + 1
      BY <1>1, <1>2, <1>5
    <3> QED
      BY <3>1, <3>2 DEF Submitted
  <2> QED
    BY <2>1, <2>2
<1>10. ByPhase'
  BY <1>4, <1>5, <1>6, <1>7 DEF IterInv, ByPhase
<1>11. Collecting'
  BY <1>4, <1>5, <1>7 DEF IterInv, Collecting
<1>12. Updates'
  BY <1>4, UpdatesKept DEF IterInv
<1>13. Alone'
  <2> SUFFICES ASSUME ~is_parallel PROVE Alone'
    BY <1>4 DEF Alone
  <2>1. \A i \in Iters : child[i] \in {"new", "taken"}
    BY <1>4 DEF IterInv, Alone
  <2>2. \A i \in Iters : child'[i] \notin {"new", "taken"} => i = c + 1
    BY <1>5, <2>1
  <2>3. \A i \in Iters : child'[i] \notin {"running", "ended"}
    BY <1>5, <2>1
  <2> QED
    BY <1>4, <1>7, <2>2, <2>3 DEF IterInv, Alone
<1> QED
  BY <1>8, <1>9, <1>10, <1>11, <1>12, <1>13 DEF IterInv

LEMMA CollectKeeps ==
    ASSUME IterInv, NEW i \in Iters, Collect(i) PROVE IterInv'
<1>1. /\ main = "collect" /\ child[i] = "ended" /\ outcome[i] # "raised"
      /\ main' = "sync" /\ current' = i /\ position' = 0 /\ order' = Append(order, i)
      /\ UNCHANGED <<is_parallel, parent, result, child, copied, outcome, wrote, seen>>
  BY DEF Collect, Failed, nodeVars, childVars
<1>2. /\ order \in Seq(Iters) /\ Len(order) \in Nat /\ DOMAIN order = 1 .. Len(order)
      /\ K \in Nat /\ Names = 1 .. K /\ current = 0 /\ 0 \notin Iters
      /\ \A v \in Names : Synced(v) = Collected
      /\ Collected \subseteq Iters
  BY <1>1, NodeFacts
<1>3. /\ order' \in Seq(Iters) /\ Len(order') = Len(order) + 1
      /\ DOMAIN order' = 1 .. Len(order) + 1 /\ order'[Len(order) + 1] = i
      /\ \A x \in 1 .. Len(order) : order'[x] = order[x]
  BY <1>1, <1>2
<1>4. i \notin Collected /\ Len(copied[i]) = K
  BY <1>1, <1>2, NodeFacts DEF IterInv, ByPhase
<1>5. Collected' = Collected \union {i}
  BY <1>2, <1>3 DEF Collected
<1>6. \A h, v : Overlapped(h, v) => Overlapped(h, v)'
  BY <1>1, <1>2, <1>3 DEF Overlapped
<1>7. NodeTypes'
  BY <1>1, <1>2, <1>3 DEF IterInv, NodeTypes
<1>8. Submitted' /\ ByPhase'
  BY <1>1, <1>5 DEF IterInv, Submitted, ByPhase
<1>9. Collecting'
  <2>1. \A x, y \in DOMAIN order' : order'[x] = order'[y] => x = y
    <3>1. \A x \in 1 .. Len(order) : order[x] # i
      BY <1>2, <1>4 DEF Collected
    <3> QED
      BY <1>2, <1>3, <3>1 DEF IterInv, Collecting
  <2>2. \A j \in Collected : outcome[j] # "raised" /\ child[j] = "taken"
    BY <1>2 DEF IterInv, Collecting
  <2>3. order' # <<>> /\ current' = order'[Len(order')]
    BY <1>1, <1>2, <1>3
  <2>4. result # "succeeded"
    BY <1>1 DEF IterInv, Collecting
  <2> QED
    BY <1>1, <1>5, <2>1, <2>2, <2>3, <2>4 DEF Collecting
<1>10. Updates'
  <2>1. \A v \in Names : Synced(v)' = Collected
    <3> SUFFICES ASSUME NEW v \in Names PROVE Synced(v)' = Collected
      OBVIOUS
    <3>1. 0 < v
      BY <1>2
    <3>2. Synced(v)' = Collected' \ {i}
      BY <1>1, <3>1 DEF Synced, Collected
    <3> QED
      BY <1>4, <1>5, <3>2
  <2>2. \A v \in Names : \A h \in Collected : wrote[h] => h \in parent[v] \/ Overlapped(h, v)'
    BY <1>2, <1>6 DEF IterInv, Updates
  <2>3. \A j \in Iters : \A v \in 1 .. Len(copied[j]) : \A h \in seen[j][v] :
           h \in Collected' /\ (wrote[h] => h \in copied[j][v] \/ Overlapped(h, v)')
    BY <1>5, <1>6 DEF IterInv, Updates
  <2> QED
    BY <1>1, <2>1, <2>2, <2>3 DEF IterInv, Updates
<1>11. Alone'
  <2> SUFFICES ASSUME ~is_parallel PROVE Alone'
    BY <1>1 DEF Alone
  <2>1. \A j \in Iters : child[j] \notin {"new", "taken"} => j = i
    BY <1>1 DEF IterInv, Alone
  <2>2. \A h \in Collected : \A v \in Names : h \in seen[i][v]
    BY <1>1, <1>2, <1>4 DEF IterInv, Alone
  <2>3. \A x, y \in DOMAIN order' : x < y =>
           \A v \in Names : order'[x] \in seen[order'[y]][v]
    <3> SUFFICES ASSUME NEW x \in DOMAIN order', NEW y \in DOMAIN order', x < y, NEW v \in Names
                 PROVE  order'[x] \in seen[order'[y]][v]
      OBVIOUS
    <3>1. x \in DOMAIN order /\ order'[x] = order[x] /\ order[x] \in Collected
      BY <1>2, <1>3 DEF Collected
    <3>2. CASE y = Len(order) + 1
      BY <1>3, <2>2, <3>1, <3>2
    <3>3. CASE y # Len(order) + 1
      <4>1. y \in DOMAIN order /\ order'[y] = order[y]
        BY <1>2, <1>3, <3>3
      <4> QED
        BY <3>1, <4>1 DEF IterInv, Alone
    <3> QED
      BY <3>2, <3>3
  <2>4. \A j \in Iters, h \in Collected' : child[j] \in {"running", "ended"} =>
           \A v \in 1 .. Len(copied[j]) : h \in seen[j][v] \union {j}
    BY <1>5, <2>1 DEF IterInv, Alone
  <2> QED
    BY <1>1, <2>1, <2>3, <2>4 DEF Alone
<1> QED
  BY <1>7, <1>8, <1>9, <1>10, <1>11 DEF IterInv

(* An exception is taken; nothing is synced. *)
LEMMA CollectErrorKeeps ==
    ASSUME IterInv, NEW i \in Iters, CollectError(i) PROVE IterInv'
<1>1. /\ main = "collect" /\ child[i] = "ended" /\ is_parallel
      /\ outcome[i] = "raised"
      /\ child' = [child EXCEPT ![i] = "taken"]
      /\ UNCHANGED <<is_parallel, current, position, parent, order, copied, outcome, wrote, seen>>
  BY DEF CollectError, Failed, Become, nodeVars
<1>2. \/ (\A j \in Iters : child'[j] = "taken") /\ main' = "over" /\ result' = "succeeded"
      \/ main' = "collect" /\ result' = result
  BY <1>1 DEF CollectError, Continue
<1>3. \A j \in Iters : child'[j] = IF j = i THEN "taken" ELSE child[j]
  BY <1>1 DEF IterInv, NodeTypes
<1>4. Collected' = Collected /\ i \notin Collected /\ Collected \subseteq Iters
  <2>1. Collected' = Collected
    BY <1>1 DEF Collected
  <2>2. i \notin Collected /\ Collected \subseteq Iters
    BY <1>1, NodeFacts DEF IterInv, Collecting
  <2> QED
    BY <2>1, <2>2
<1>5. current = 0 /\ position = 0 /\ result # "succeeded"
  BY <1>1 DEF IterInv, Collecting
<1>6. NodeTypes'
  BY <1>1, <1>2 DEF IterInv, NodeTypes, ChildPhases
<1>7. Submitted' /\ ByPhase'
  BY <1>1, <1>3, <1>4 DEF IterInv, Submitted, ByPhase
<1>8. Collecting'
  BY <1>1, <1>2, <1>3, <1>4, <1>5 DEF IterInv, Collecting
<1>9. Updates'
  BY <1>1, UpdatesKept DEF IterInv
<1>10. Alone'
  BY <1>1 DEF Alone
<1> QED
  BY <1>6, <1>7, <1>8, <1>9, <1>10 DEF IterInv

(* The node gives up, or has waited for its threads. *)
LEMMA TerminateKeeps ==
    ASSUME IterInv, (\E i \in Iters : Terminate(i)) \/ ExecutorExit PROVE IterInv'
<1>1. /\ main \in {"collect", "exit"} /\ main' \in {"exit", "over"} /\ result' # "succeeded"
      /\ \/ child' = child
         \/ child' = [j \in Iters |-> IF child[j] = "queued" THEN "cancelled" ELSE child[j]]
      /\ UNCHANGED <<is_parallel, current, position, parent, order, copied, outcome, wrote, seen>>
  <2>1. ASSUME NEW i \in Iters, Terminate(i)
        PROVE  /\ main = "collect" /\ main' = "exit" /\ result' = result
               /\ child' = [j \in Iters |-> IF child[j] = "queued" THEN "cancelled" ELSE child[j]]
               /\ UNCHANGED <<is_parallel, current, position, parent, order,
                              copied, outcome, wrote, seen>>
    BY <2>1 DEF Terminate, nodeVars
  <2>2. ASSUME ExecutorExit
        PROVE  /\ main = "exit" /\ main' = "over" /\ result' = "failed" /\ child' = child
               /\ UNCHANGED <<is_parallel, current, position, parent, order,
                              copied, outcome, wrote, seen>>
    BY <2>2 DEF ExecutorExit, nodeVars, childVars
  <2>3. result = "succeeded" => main = "over"
    BY DEF IterInv, Collecting
  <2> QED
    BY <2>1, <2>2, <2>3
<1>2. \A j \in Iters :
         \/ child'[j] = child[j]
         \/ child[j] = "queued" /\ child'[j] = "cancelled"
  BY <1>1
<1>3. Collected' = Collected /\ Collected \subseteq Iters
  <2>1. Collected' = Collected
    BY <1>1 DEF Collected
  <2> QED
    BY <2>1, NodeFacts
<1>4. NodeTypes'
  <2>1. child' \in [Iters -> ChildPhases]
    BY <1>1 DEF IterInv, NodeTypes, ChildPhases
  <2> QED
    BY <1>1, <2>1 DEF IterInv, NodeTypes
<1>5. Submitted'
  BY <1>2 DEF IterInv, Submitted
<1>6. ByPhase'
  BY <1>1, <1>2, <1>3 DEF IterInv, ByPhase
<1>7. Collecting'
  <2>1. \A j \in Collected : child'[j] = child[j]
    BY <1>2, <1>3, NodeFacts
  <2> QED
    BY <1>1, <1>3, <2>1 DEF IterInv, Collecting
<1>8. Updates'
  BY <1>1, UpdatesKept DEF IterInv
<1>9. Alone'
  BY <1>1, <1>2, <1>3 DEF IterInv, Alone
<1> QED
  BY <1>4, <1>5, <1>6, <1>7, <1>8, <1>9 DEF IterInv

(* A variable of the current iteration replaces the parent's: what that    *)
(* had and the copy has not was either not seen by the copy, or gone.      *)
LEMMA SyncKeeps == ASSUME IterInv, SyncVariable PROVE IterInv'
<1> DEFINE v == position + 1
<1>0. v = position + 1
  BY DEF v
<1>1. /\ main = "sync" /\ position < K /\ position' = v
      /\ parent' = [parent EXCEPT ![v] = copied[current][v]]
      /\ UNCHANGED <<is_parallel, main, current, result, order, child, copied, outcome, wrote, seen>>
  BY DEF SyncVariable, nodeVars, childVars
<1> HIDE DEF v
<1>2. /\ order \in Seq(Iters) /\ Len(order) \in Nat /\ DOMAIN order = 1 .. Len(order)
      /\ K \in Nat /\ Names = 1 .. K /\ current \in Collected /\ Collected \subseteq Iters
      /\ Len(order) \in DOMAIN order
  BY <1>1, NodeFacts
<1>3. /\ current = order[Len(order)] /\ child[current] = "ended" /\ outcome[current] # "raised"
      /\ Len(copied[current]) = K
  BY <1>1, <1>2 DEF IterInv, Collecting, ByPhase
<1>4. position \in Nat /\ v \in Names /\ v \in 1 .. Len(copied[current])
  BY <1>0, <1>1, <1>2, <1>3 DEF IterInv, NodeTypes
<1>5. parent'[v] = copied[current][v] /\ \A u \in Names \ {v} : parent'[u] = parent[u]
  BY <1>1, <1>4 DEF IterInv, NodeTypes
<1>6. Collected' = Collected
  BY <1>1 DEF Collected
<1>7. NodeTypes'
  <2>1. copied[current][v] \in SUBSET Iters
    BY <1>2, <1>4 DEF IterInv, NodeTypes
  <2>2. position' \in 0 .. K
    BY <1>0, <1>1, <1>2, <1>4
  <2>3. parent' \in [Names -> SUBSET Iters]
    BY <1>1, <2>1 DEF IterInv, NodeTypes
  <2> QED
    BY <1>1, <2>2, <2>3 DEF IterInv, NodeTypes
<1>8. Submitted' /\ ByPhase' /\ Collecting' /\ Alone'
  BY <1>1, <1>6 DEF IterInv, Submitted, ByPhase, Collecting, Alone
<1>9. Updates'
  <2>1. \A h, u : Overlapped(h, u)' <=> Overlapped(h, u)
    BY <1>1 DEF Overlapped
  <2>2. ASSUME NEW u \in Names, NEW h \in Synced(u)', wrote[h]
        PROVE  h \in parent'[u] \/ Overlapped(h, u)
    <3>1. h \in Collected
      BY <1>6, <2>2 DEF Synced, Collected
    <3>2. CASE u # v
      <4>1. position < u <=> v < u
        BY <1>0, <1>2, <1>4, <3>2
      <4>2. h \in Synced(u)
        BY <1>1, <2>2, <4>1 DEF Synced
      <4> QED
        BY <1>5, <2>2, <3>2, <4>2 DEF IterInv, Updates
    <3>3. CASE u = v
      <4>1. CASE h = current
        BY <1>2, <1>5, <2>2, <3>3, <4>1 DEF IterInv, Updates
      <4>2. CASE h # current /\ h \in seen[current][v]
        <5>1. h \in copied[current][v] \/ Overlapped(h, v)
          BY <1>2, <1>4, <2>2, <4>2 DEF IterInv, Updates
        <5> QED
          BY <1>5, <3>3, <5>1
      <4>3. CASE h # current /\ h \notin seen[current][v]
        <5>1. PICK x \in DOMAIN order : order[x] = h
          BY <3>1 DEF Collected
        <5>2. x < Len(order)
          BY <1>2, <1>3, <4>3, <5>1
        <5> QED
          BY <1>2, <1>3, <3>3, <4>3, <5>1, <5>2 DEF Overlapped
      <4> QED
        BY <4>1, <4>2, <4>3
    <3> QED
      BY <3>2, <3>3
  <2> QED
    BY <1>1, <1>6, <2>1, <2>2 DEF IterInv, Updates
<1> QED
  BY <1>7, <1>8, <1>9 DEF IterInv

LEMMA SyncEndsKeeps == ASSUME IterInv, SyncEnds PROVE IterInv'
<1>1. /\ main = "sync" /\ position = K /\ child' = [child EXCEPT ![current] = "taken"]
      /\ current' = 0 /\ position' = 0
      /\ UNCHANGED <<is_parallel, parent, order, copied, outcome, wrote, seen>>
  BY DEF SyncEnds, Become, nodeVars
<1>2. \/ (\A j \in Iters : child'[j] = "taken") /\ main' = "over" /\ result' = "succeeded"
      \/ main' = (IF is_parallel THEN "collect" ELSE "submit") /\ result' = result
  BY <1>1 DEF SyncEnds, Continue
<1>3. \A j \in Iters : child'[j] = IF j = current THEN "taken" ELSE child[j]
  BY <1>1 DEF IterInv, NodeTypes
<1>4. /\ K \in Nat /\ Names = 1 .. K /\ current \in Collected /\ Collected \subseteq Iters
      /\ 0 \notin Iters /\ child[current] = "ended" /\ outcome[current] # "raised"
      /\ result # "succeeded"
  BY <1>1, NodeFacts DEF IterInv, Collecting
<1>5. Collected' = Collected
  BY <1>1 DEF Collected
<1>6. NodeTypes'
  BY <1>1, <1>2, <1>4 DEF IterInv, NodeTypes, ChildPhases
<1>7. Submitted' /\ ByPhase'
  BY <1>1, <1>3, <1>4, <1>5 DEF IterInv, Submitted, ByPhase
<1>8. Collecting'
  <2>1. \A j \in Collected : child'[j] = "taken"
    BY <1>3, <1>4, NodeFacts
  <2>2. main' # "sync"
    BY <1>2
  <2>3. result' = "succeeded" => main' = "over" /\ \A j \in Iters : child'[j] = "taken"
    BY <1>2, <1>4
  <2> QED
    BY <1>1, <1>5, <2>1, <2>2, <2>3 DEF IterInv, Collecting
<1>9. Updates'
  <2>1. \A v \in Names : Synced(v)' = Synced(v)
    <3> SUFFICES ASSUME NEW v \in Names PROVE Synced(v)' = Synced(v)
      OBVIOUS
    <3>1. ~(position < v)
      BY <1>1, <1>4
    <3>2. Synced(v) = Collected
      BY <3>1 DEF Synced, Collected
    <3>3. Synced(v)' \in {Collected, Collected \ {0}}
      BY <1>1 DEF Synced, Collected
    <3> QED
      BY <1>4, <3>2, <3>3
  <2> QED
    BY <1>1, <1>5, <2>1 DEF IterInv, Updates, Overlapped
<1>10. Alone'
  <2> SUFFICES ASSUME ~is_parallel PROVE Alone'
    BY <1>1 DEF Alone
  <2>1. \A j \in Iters : child'[j] \in {"new", "taken"}
    BY <1>3, <1>4 DEF IterInv, Alone
  <2> QED
    BY <1>1, <2>1 DEF IterInv, Alone
<1> QED
  BY <1>6, <1>7, <1>8, <1>9, <1>10 DEF IterInv

THEOREM NodeCorrect == IterationSpec => []IterInv
<1>1. IterInv /\ [IterationNext]_iterationVars => IterInv'
  <2> SUFFICES ASSUME IterInv, [IterationNext]_iterationVars PROVE IterInv'
    OBVIOUS
  <2>1. ASSUME UNCHANGED iterationVars PROVE IterInv'
    <3>1. UNCHANGED <<is_parallel, main, current, position, parent, result, order,
                      child, copied, outcome, wrote, seen>>
      BY <2>1 DEF iterationVars, nodeVars, mainVars, childVars
    <3>2. NodeTypes' /\ Submitted' /\ ByPhase'
      BY <3>1 DEF IterInv, NodeTypes, Submitted, ByPhase, Collected
    <3>3. Collecting' /\ Alone'
      BY <3>1 DEF IterInv, Collecting, Alone, Collected
    <3>4. Updates'
      BY <3>1, UpdatesKept DEF IterInv
    <3> QED
      BY <3>2, <3>3, <3>4 DEF IterInv
  <2>2. ASSUME NEW i \in Iters, Child(i) PROVE IterInv'
    BY <2>2, StartKeeps, CopyKeeps, RaisesKeeps, RunEndsKeeps DEF Child
  <2>3. ASSUME Main PROVE IterInv'
    BY <2>3, SubmitKeeps, CollectKeeps, CollectErrorKeeps, TerminateKeeps, SyncKeeps, SyncEndsKeeps
    DEF Main
  <2> QED
    BY <2>1, <2>2, <2>3 DEF IterationNext
<1> QED
  BY <1>1, IterInit, PTL DEF IterationSpec

(* An update of a conversation variable is lost only in parallel mode, to  *)
(* an iteration that was collected later and had copied the variable       *)
(* before; for lists, thread pools and sets of variables of any size.      *)
THEOREM LostToOverlap == IterationSpec => []UpdatesLostOnlyByOverlap
<1>1. IterInv => UpdatesLostOnlyByOverlap
  <2> SUFFICES ASSUME IterInv, result = "succeeded",
                      NEW i \in Iters, NEW v \in Names, wrote[i], i \notin parent[v]
               PROVE  is_parallel /\ Overlapped(i, v)
    BY DEF UpdatesLostOnlyByOverlap, Overlapped
  <2>1. main = "over" /\ child[i] = "taken"
    BY DEF IterInv, Collecting
  <2>2. i \in Collected
    BY <2>1 DEF IterInv, ByPhase
  <2>3. i \in Synced(v)
    BY <2>1, <2>2, NodeFacts
  <2>4. Overlapped(i, v)
    BY <2>3 DEF IterInv, Updates
  <2>5. is_parallel
    BY <2>4 DEF IterInv, Alone, Overlapped
  <2> QED
    BY <2>4, <2>5
<1> QED
  BY <1>1, NodeCorrect, PTL

-----------------------------------------------------------------------------
(* Dropping the None values.  The prover has no induction rule it could    *)
(* apply, but the natural numbers are well ordered, which follows from     *)
(* the cardinality of intervals; so a least counterexample stands in for   *)
(* an induction.                                                           *)

LEMMA LeastNumber ==
    ASSUME NEW S \in SUBSET Nat, NEW n \in S
    PROVE  \E m \in S : \A k \in S : m <= k
<1> DEFINE D == {j \in 0 .. n : \A k \in S : j < k}
           c == Cardinality(D)
<1>1. IsFiniteSet(0 .. n)
  BY FS_Interval
<1>2. IsFiniteSet(D) /\ c \in Nat
  BY <1>1, FS_Subset, FS_CardinalityType
<1>3. \A j \in D : \A i \in 0 .. j : i \in D
  OBVIOUS
<1>4. D \subseteq Nat /\ n \notin D
  OBVIOUS
<1> HIDE DEF c
<1>5. c \notin D
  <2> SUFFICES ASSUME c \in D PROVE FALSE
    OBVIOUS
  <2>1. 0 .. c \in SUBSET D
    BY <1>3
  <2>2. Cardinality(0 .. c) = c + 1
    BY <1>2, FS_Interval
  <2>3. Cardinality(0 .. c) <= c
    BY <1>2, <2>1, FS_Subset DEF c
  <2> QED
    BY <1>2, <2>2, <2>3
<1>6. \A i \in 0 .. c - 1 : i \in D
  <2> SUFFICES ASSUME NEW i \in 0 .. c - 1, i \notin D PROVE FALSE
    OBVIOUS
  <2>1. D \in SUBSET (0 .. i - 1)
    BY <1>2, <1>3, <1>4
  <2>2. IsFiniteSet(0 .. i - 1) /\ Cardinality(0 .. i - 1) = i
    BY <1>2, FS_Interval
  <2>3. c <= i
    BY <2>1, <2>2, FS_Subset DEF c
  <2> QED
    BY <1>2, <2>3
<1>7. c <= n
  BY <1>2, <1>4, <1>6
<1>8. \A k \in S : c <= k
  <2> SUFFICES ASSUME NEW k \in S, k < c PROVE FALSE
    BY <1>2
  <2>1. k \in D
    BY <1>2, <1>6
  <2> QED
    BY <2>1
<1>9. c \in S
  <2>1. c \in 0 .. n
    BY <1>2, <1>7
  <2>2. PICK k \in S : ~(c < k)
    BY <1>5, <2>1
  <2> QED
    BY <1>2, <1>8, <2>2
<1> QED
  BY <1>8, <1>9

(* F[k] is what remains of the first k elements of s. *)
Kept(F, s, m) ==
    F = [k \in 0 .. m |->
            IF k = 0 THEN <<>> ELSE IF s[k] = 0 THEN F[k - 1] ELSE Append(F[k - 1], s[k])]

LEMMA KeptExists == ASSUME NEW s, NEW n \in Nat PROVE \E F : Kept(F, s, n)
<1> DEFINE Bad == {m \in Nat : ~\E F : Kept(F, s, m)}
<1>1. Bad \in SUBSET Nat
  OBVIOUS
<1>2. ASSUME NEW m \in Bad, \A k \in Bad : m <= k PROVE FALSE
  <2>1. m \in Nat /\ ~\E F : Kept(F, s, m)
    OBVIOUS
  <2>2. CASE m = 0
    <3>1. Kept([k \in 0 .. 0 |-> <<>>], s, 0)
      BY DEF Kept
    <3> QED
      BY <2>1, <2>2, <3>1
  <2>3. CASE m # 0
    <3>1. m - 1 \in Nat /\ m - 1 \notin Bad
      BY <1>2, <2>1, <2>3
    <3>2. PICK F : Kept(F, s, m - 1)
      BY <3>1
    <3> DEFINE G == [k \in 0 .. m |->
                        IF k = m THEN IF s[m] = 0 THEN F[m - 1] ELSE Append(F[m - 1], s[m])
                        ELSE F[k]]
    <3>3. \A k \in 0 .. m - 1 : G[k] = F[k]
      BY <2>1
    <3>4. \A k \in 0 .. m - 1 :
             F[k] = IF k = 0 THEN <<>>
                    ELSE IF s[k] = 0 THEN F[k - 1] ELSE Append(F[k - 1], s[k])
      BY <3>2 DEF Kept
    <3>5. \A k \in 0 .. m :
             G[k] = IF k = 0 THEN <<>>
                    ELSE IF s[k] = 0 THEN G[k - 1] ELSE Append(G[k - 1], s[k])
      <4> SUFFICES ASSUME NEW k \in 0 .. m
                   PROVE  G[k] = IF k = 0 THEN <<>>
                                 ELSE IF s[k] = 0 THEN G[k - 1] ELSE Append(G[k - 1], s[k])
        OBVIOUS
      <4>1. CASE k = m
        <5>1. G[m] = (IF s[m] = 0 THEN F[m - 1] ELSE Append(F[m - 1], s[m])) /\ G[m - 1] = F[m - 1]
          BY <2>1, <2>3, <3>3
        <5> HIDE DEF G
        <5> QED
          BY <2>3, <4>1, <5>1
      <4>2. CASE k # m /\ k = 0
        BY <2>1, <3>3, <3>4, <4>2
      <4>3. CASE k # m /\ k # 0
        <5>1. G[k] = F[k] /\ G[k - 1] = F[k - 1] /\ k \in 0 .. m - 1
          BY <2>1, <3>3, <4>3
        <5> HIDE DEF G
        <5> QED
          BY <3>4, <4>3, <5>1
      <4> QED
        BY <4>1, <4>2, <4>3
    <3>6. G = [k \in 0 .. m |-> G[k]]
      OBVIOUS
    <3> HIDE DEF G
    <3>7. Kept(G, s, m)
      BY <3>5, <3>6 DEF Kept
    <3> QED
      BY <2>1, <3>7
  <2> QED
    BY <2>2, <2>3
<1> HIDE DEF Bad
<1>3. Bad = {}
  BY <1>1, <1>2, LeastNumber
<1> QED
  BY <1>3 DEF Bad

(* The definition of NotNone, as its reader expects it. *)
LEMMA NotNoneIs ==
    ASSUME NEW s, Len(s) \in Nat
    PROVE  \E F : Kept(F, s, Len(s)) /\ NotNone(s) = F[Len(s)]
<1> DEFINE F == CHOOSE f : f = [k \in 0 .. Len(s) |->
                   IF k = 0 THEN <<>> ELSE IF s[k] = 0 THEN f[k - 1] ELSE Append(f[k - 1], s[k])]
<1>1. NotNone(s) = F[Len(s)]
  BY DEF NotNone
<1>2. \E f : f = [k \in 0 .. Len(s) |->
                   IF k = 0 THEN <<>> ELSE IF s[k] = 0 THEN f[k - 1] ELSE Append(f[k - 1], s[k])]
  BY KeptExists DEF Kept
<1>3. Kept(F, s, Len(s))
  BY <1>2 DEF Kept
<1> QED
  BY <1>1, <1>3

LEMMA KeptSteps ==
    ASSUME NEW s, NEW m \in Nat, NEW F, Kept(F, s, m)
    PROVE  /\ F[0] = <<>>
           /\ \A k \in 1 .. m : F[k] = IF s[k] = 0 THEN F[k - 1] ELSE Append(F[k - 1], s[k])
<1>1. \A k \in 0 .. m : F[k] = IF k = 0 THEN <<>>
                               ELSE IF s[k] = 0 THEN F[k - 1] ELSE Append(F[k - 1], s[k])
  BY DEF Kept
<1>2. F[0] = <<>>
  <2>1. 0 \in 0 .. m
    OBVIOUS
  <2> QED
    BY <1>1, <2>1
<1>3. ASSUME NEW k \in 1 .. m
      PROVE  F[k] = IF s[k] = 0 THEN F[k - 1] ELSE Append(F[k - 1], s[k])
  <2>1. k \in 0 .. m /\ k # 0
    OBVIOUS
  <2> QED
    BY <1>1, <2>1
<1> QED
  BY <1>2, <1>3

(* What remains of a beginning depends on that beginning alone. *)
LEMMA KeptSame ==
    ASSUME NEW s, NEW t, NEW m \in Nat, NEW n \in Nat, NEW F, NEW G, Kept(F, s, m), Kept(G, t, n),
           NEW c \in Nat, c <= m, c <= n, \A k \in 1 .. c : s[k] = t[k]
    PROVE  F[c] = G[c]
<1> DEFINE Bad == {k \in 0 .. c : F[k] # G[k]}
<1>1. Bad \in SUBSET Nat
  OBVIOUS
<1>2. ASSUME NEW k \in Bad, \A j \in Bad : k <= j PROVE FALSE
  <2>1. k \in 0 .. c /\ F[k] # G[k]
    OBVIOUS
  <2>2. k # 0
    BY <2>1, KeptSteps
  <2>3. k - 1 \in 0 .. c /\ k - 1 \notin Bad
    BY <1>2, <2>1, <2>2
  <2>4. F[k - 1] = G[k - 1]
    BY <2>3
  <2>5. /\ F[k] = IF s[k] = 0 THEN F[k - 1] ELSE Append(F[k - 1], s[k])
        /\ G[k] = IF t[k] = 0 THEN G[k - 1] ELSE Append(G[k - 1], t[k])
        /\ s[k] = t[k]
    BY <2>1, <2>2, KeptSteps
  <2> QED
    BY <2>1, <2>4, <2>5
<1> HIDE DEF Bad
<1>3. Bad = {}
  BY <1>1, <1>2, LeastNumber
<1>4. c \notin Bad
  BY <1>3
<1> QED
  BY <1>4 DEF Bad

LEMMA NotNoneAppend ==
    ASSUME NEW s \in Seq(Nat), NEW x \in Nat
    PROVE  NotNone(Append(s, x)) = IF x = 0 THEN NotNone(s) ELSE Append(NotNone(s), x)
<1> DEFINE t == Append(s, x)
           n == Len(s)
<1>1. n \in Nat /\ Len(t) = n + 1 /\ t[n + 1] = x /\ \A k \in 1 .. n : s[k] = t[k]
  OBVIOUS
<1> HIDE DEF t, n
<1>2. PICK F : Kept(F, s, n) /\ NotNone(s) = F[n]
  BY <1>1, NotNoneIs DEF n
<1>3. PICK G : Kept(G, t, n + 1) /\ NotNone(t) = G[n + 1]
  BY <1>1, NotNoneIs
<1>4. F[n] = G[n]
  BY <1>1, <1>2, <1>3, KeptSame
<1>5. G[n + 1] = IF t[n + 1] = 0 THEN G[n] ELSE Append(G[n], t[n + 1])
  <2>1. n + 1 \in Nat /\ n + 1 \in 1 .. n + 1 /\ (n + 1) - 1 = n
    BY <1>1
  <2>2. \A k \in 1 .. n + 1 : G[k] = IF t[k] = 0 THEN G[k - 1] ELSE Append(G[k - 1], t[k])
    BY <1>3, <2>1, KeptSteps
  <2> QED
    BY <2>1, <2>2
<1> QED
  BY <1>1, <1>2, <1>3, <1>4, <1>5 DEF t

LEMMA NotNoneEmpty == NotNone(<<>>) = <<>>
<1>1. PICK F : Kept(F, <<>>, Len(<<>>)) /\ NotNone(<<>>) = F[Len(<<>>)]
  BY NotNoneIs
<1> QED
  BY <1>1, KeptSteps

(* Nothing that remains is None. *)
LEMMA NotNoneClean ==
    ASSUME NEW s \in Seq(Nat)
    PROVE  NotNone(s) \in Seq(Nat \ {0})
<1> DEFINE n == Len(s)
<1>1. n \in Nat /\ \A k \in 1 .. n : s[k] \in Nat
  OBVIOUS
<1>2. PICK F : Kept(F, s, n) /\ NotNone(s) = F[n]
  BY <1>1, NotNoneIs
<1> HIDE DEF n
<1> DEFINE Bad == {k \in 0 .. n : F[k] \notin Seq(Nat \ {0})}
<1>3. Bad \in SUBSET Nat
  OBVIOUS
<1>4. ASSUME NEW k \in Bad, \A j \in Bad : k <= j PROVE FALSE
  <2>1. k \in 0 .. n /\ F[k] \notin Seq(Nat \ {0})
    OBVIOUS
  <2>2. k # 0
    <3>1. F[0] = <<>>
      BY <1>1, <1>2, KeptSteps
    <3>2. <<>> \in Seq(Nat \ {0})
      OBVIOUS
    <3> QED
      BY <2>1, <3>1, <3>2
  <2>3. k - 1 \in 0 .. n /\ k - 1 \notin Bad
    BY <1>1, <1>4, <2>1, <2>2
  <2>4. F[k - 1] \in Seq(Nat \ {0})
    BY <2>3
  <2>5. F[k] = IF s[k] = 0 THEN F[k - 1] ELSE Append(F[k - 1], s[k])
    BY <1>1, <1>2, <2>1, <2>2, KeptSteps
  <2>6. s[k] \in Nat
    BY <1>1, <2>1, <2>2
  <2> QED
    BY <2>1, <2>4, <2>5, <2>6
<1> HIDE DEF Bad
<1>5. Bad = {}
  BY <1>3, <1>4, LeastNumber
<1>6. n \notin Bad
  BY <1>5
<1> QED
  BY <1>1, <1>2, <1>6 DEF Bad

(* Where nothing is None, everything remains. *)
LEMMA NotNoneIdentity ==
    ASSUME NEW s \in Seq(Nat \ {0})
    PROVE  NotNone(s) = s
<1> DEFINE n == Len(s)
<1>1. n \in Nat /\ \A k \in 1 .. n : s[k] # 0
  OBVIOUS
<1>2. PICK F : Kept(F, s, n) /\ NotNone(s) = F[n]
  BY <1>1, NotNoneIs
<1>3. \A k \in 0 .. n : SubSeq(s, 1, k) \in Seq(Nat \ {0})
  OBVIOUS
<1>4. \A k \in 1 .. n : SubSeq(s, 1, k) = Append(SubSeq(s, 1, k - 1), s[k])
  OBVIOUS
<1>5. SubSeq(s, 1, 0) = <<>> /\ SubSeq(s, 1, n) = s
  OBVIOUS
<1> HIDE DEF n
<1> DEFINE Bad == {k \in 0 .. n : F[k] # SubSeq(s, 1, k)}
<1>6. Bad \in SUBSET Nat
  OBVIOUS
<1>7. ASSUME NEW k \in Bad, \A j \in Bad : k <= j PROVE FALSE
  <2>1. k \in 0 .. n /\ F[k] # SubSeq(s, 1, k)
    OBVIOUS
  <2>2. k # 0
    BY <1>1, <1>2, <1>5, <2>1, KeptSteps
  <2>3. k - 1 \in 0 .. n /\ k - 1 \notin Bad
    BY <1>1, <1>7, <2>1, <2>2
  <2>4. F[k - 1] = SubSeq(s, 1, k - 1)
    BY <2>3
  <2>5. F[k] = IF s[k] = 0 THEN F[k - 1] ELSE Append(F[k - 1], s[k])
    BY <1>1, <1>2, <2>1, <2>2, KeptSteps
  <2>6. k \in 1 .. n
    BY <1>1, <2>1, <2>2
  <2> QED
    BY <1>1, <1>4, <2>1, <2>4, <2>5, <2>6
<1> HIDE DEF Bad
<1>8. Bad = {}
  BY <1>6, <1>7, LeastNumber
<1>9. n \notin Bad
  BY <1>8
<1> QED
  BY <1>1, <1>2, <1>5, <1>9 DEF Bad

-----------------------------------------------------------------------------
(* The outputs *)

(* The result of i was taken, so far as the outputs are concerned. *)
Settled(i) == child[i] = "taken" \/ (main = "sync" /\ i = current)
Values(c) == [i \in 1 .. c |-> Value(i)]

OutTypes ==
    /\ error_handle_mode \in {"terminated", "continue-on-error", "remove-abnormal-output"}
    /\ \A i \in Iters : outcome[i] \in {"none", "value", "failed", "stopped", "raised"}

(* In parallel mode each result has the place of its item. *)
Filled ==
    is_parallel /\ main # "over" =>
        /\ outputs \in Seq(Nat) /\ Len(outputs) = N
        /\ \A i \in Iters : Settled(i) => outputs[i] = Value(i)

(* In sequential mode the results of a beginning of the list were appended. *)
Appended ==
    ~is_parallel => \E c \in 0 .. N :
        /\ \A i \in Iters : Settled(i) <=> i <= c
        /\ outputs \in Seq(Nat) /\ NotNone(outputs) = NotNone(Values(c))
        /\ \/ error_handle_mode = "remove-abnormal-output"
           \/ \E i \in 1 .. c : outcome[i] = "stopped"
           \/ outputs = Values(c)

OutInv == OutTypes /\ Filled /\ Appended /\ OutputsInPlace

LEMMA ValuesFacts ==
    /\ \A c \in 0 .. N : Values(c) \in Seq(Nat) /\ Len(Values(c)) = c
    /\ \A c \in 0 .. N - 1 : Values(c + 1) = Append(Values(c), Value(c + 1))
    /\ [i \in Iters |-> Value(i)] = Values(N)
    /\ \A i \in Iters : Value(i) \in Nat
<1>1. N \in Nat
  BY IterationAssumption
<1>2. ASSUME NEW c \in 0 .. N PROVE Values(c) \in Seq(Nat) /\ Len(Values(c)) = c
  BY <1>1 DEF Values, Value
<1>3. ASSUME NEW c \in 0 .. N - 1 PROVE Values(c + 1) = Append(Values(c), Value(c + 1))
  BY <1>1 DEF Values, Value
<1>4. \A i \in Iters : Value(i) \in Nat
  BY <1>1 DEF Value, Iters
<1> QED
  BY <1>2, <1>3, <1>4 DEF Values, Iters

LEMMA OutInit == IterationInit => OutInv
<1> SUFFICES ASSUME IterationInit PROVE OutInv
  OBVIOUS
<1>1. N \in Nat \ {0} /\ Iters = 1 .. N
  BY IterationAssumption DEF Iters
<1>2. /\ is_parallel \in BOOLEAN /\ main = "submit" /\ result = "none"
      /\ error_handle_mode \in {"terminated", "continue-on-error", "remove-abnormal-output"}
      /\ is_parallel => outputs = [i \in Iters |-> 0]
      /\ ~is_parallel => outputs = <<>>
      /\ \A i \in Iters : child[i] = "new" /\ outcome[i] = "none"
  BY DEF IterationInit
<1>3. OutTypes /\ OutputsInPlace
  BY <1>2 DEF OutTypes, OutputsInPlace
<1>4. \A i \in Iters : ~Settled(i)
  BY <1>2 DEF Settled
<1>5. Filled
  BY <1>1, <1>2, <1>4 DEF Filled
<1>6. Appended
  <2> SUFFICES ASSUME ~is_parallel PROVE Appended
    BY DEF Appended
  <2>1. Values(0) = <<>> /\ outputs = <<>> /\ outputs \in Seq(Nat)
    BY <1>2 DEF Values
  <2>2. \A i \in Iters : Settled(i) <=> i <= 0
    BY <1>1, <1>4
  <2>3. 0 \in 0 .. N
    BY <1>1
  <2> QED
    BY <2>1, <2>2, <2>3 DEF Appended
<1> QED
  BY <1>3, <1>5, <1>6 DEF OutInv

(* A step that takes no result; those that were taken stay as they are. *)
LEMMA OutKept ==
    ASSUME OutInv, OutTypes', UNCHANGED <<outputs, is_parallel, error_handle_mode>>,
           main' # "over" => main # "over",
           \A i \in Iters : Settled(i)' <=> Settled(i),
           \A i \in Iters : Settled(i) => outcome'[i] = outcome[i],
           result' = "succeeded" => result = "succeeded" /\ UNCHANGED outcome
    PROVE  OutInv'
<1>1. Filled'
  <2>1. \A i \in Iters : Settled(i) => Value(i)' = Value(i)
    BY DEF Value
  <2> QED
    BY <2>1 DEF OutInv, Filled
<1>2. Appended'
  <2> SUFFICES ASSUME ~is_parallel PROVE Appended'
    BY DEF Appended
  <2>1. PICK c \in 0 .. N :
          /\ \A i \in Iters : Settled(i) <=> i <= c
          /\ outputs \in Seq(Nat) /\ NotNone(outputs) = NotNone(Values(c))
          /\ \/ error_handle_mode = "remove-abnormal-output"
             \/ \E i \in 1 .. c : outcome[i] = "stopped"
             \/ outputs = Values(c)
    BY DEF OutInv, Appended
  <2>2. \A i \in 1 .. c : i \in Iters /\ outcome'[i] = outcome[i]
    BY <2>1, IterationAssumption DEF Iters
  <2>3. Values(c)' = Values(c)
    BY <2>2 DEF Values, Value
  <2> QED
    BY <2>1, <2>2, <2>3 DEF Appended
<1>3. OutputsInPlace'
  <2> SUFFICES ASSUME result' = "succeeded" PROVE OutputsInPlace'
    BY DEF OutputsInPlace
  <2>1. [i \in Iters |-> Value(i)]' = [i \in Iters |-> Value(i)]
    BY DEF Value
  <2> QED
    BY <2>1 DEF OutInv, OutputsInPlace
<1> QED
  BY <1>1, <1>2, <1>3 DEF OutInv

LEMMA OutStays ==
    ASSUME IterInv, OutInv,
           \/ \E i \in Iters : Child(i) \/ Terminate(i)
           \/ Submit \/ SyncVariable \/ ExecutorExit
    PROVE  OutInv'
<1>1. ASSUME NEW i \in Iters, Child(i) PROVE OutInv'
  <2>1. /\ child[i] \in {"queued", "running"}
        /\ \E p \in {"running", "ended"} : child' = child \/ child' = [child EXCEPT ![i] = p]
        /\ \/ outcome' = outcome
           \/ \E o \in {"value", "none", "failed", "stopped", "raised"} :
                 outcome' = [outcome EXCEPT ![i] = o]
        /\ UNCHANGED <<is_parallel, error_handle_mode, main, current, outputs, result>>
    BY <1>1 DEF Child, Start, CopyVariable, RunEnds, Raises, Become, In, Outcomes, nodeVars, mainVars
  <2>2. \A j \in Iters : j = i \/ (child'[j] = child[j] /\ outcome'[j] = outcome[j])
    BY <2>1 DEF IterInv, NodeTypes
  <2>3. child'[i] # "taken" /\ child[i] # "taken"
    BY <2>1 DEF IterInv, NodeTypes
  <2>4. ~(main = "sync" /\ i = current)
    BY <2>1 DEF IterInv, Collecting
  <2>5. \A j \in Iters : Settled(j)' <=> Settled(j)
    BY <2>1, <2>2, <2>3 DEF Settled
  <2>6. \A j \in Iters : Settled(j) => outcome'[j] = outcome[j]
    BY <2>2, <2>3, <2>4 DEF Settled
  <2>7. OutTypes'
    BY <2>1, <2>2 DEF OutInv, OutTypes, IterInv, NodeTypes
  <2>8. result # "succeeded"
    BY <2>3 DEF IterInv, Collecting
  <2> QED
    BY <2>1, <2>5, <2>6, <2>7, <2>8, OutKept
<1>2. ASSUME NEW i \in Iters, Terminate(i) PROVE OutInv'
  <2>1. /\ main = "collect" /\ main' = "exit"
        /\ child' = [j \in Iters |-> IF child[j] = "queued" THEN "cancelled" ELSE child[j]]
        /\ UNCHANGED <<is_parallel, error_handle_mode, outputs, result, outcome>>
    BY <1>2 DEF Terminate, nodeVars
  <2>2. \A j \in Iters : Settled(j)' <=> Settled(j)
    BY <2>1 DEF Settled
  <2>3. OutTypes'
    BY <2>1 DEF OutInv, OutTypes
  <2> QED
    BY <2>1, <2>2, <2>3, OutKept
<1>3. ASSUME Submit PROVE OutInv'
  <2> DEFINE i == Cardinality(Iters \ In({"new"})) + 1
  <2>1. /\ main = "submit" /\ main' \in {"submit", "collect"}
        /\ child' = [child EXCEPT ![i] = "queued"]
        /\ UNCHANGED <<is_parallel, error_handle_mode, outputs, result, outcome>>
    BY <1>3 DEF Submit, Become, nodeVars
  <2>2. i \notin Iters \/ child[i] = "new"
    <3>1. PICK c \in 0 .. N : /\ \A k \in Iters : child[k] = "new" <=> k > c
                             /\ i = c + 1
      BY NextNew
    <3>2. c + 1 > c
      BY <3>1, IterationAssumption
    <3> QED
      BY <3>1, <3>2
  <2> HIDE DEF i
  <2>3. \A j \in Iters : child'[j] = "taken" <=> child[j] = "taken"
    BY <2>1, <2>2 DEF IterInv, NodeTypes
  <2>4. \A j \in Iters : Settled(j)' <=> Settled(j)
    BY <2>1, <2>3 DEF Settled
  <2>5. OutTypes'
    BY <2>1 DEF OutInv, OutTypes
  <2> QED
    BY <2>1, <2>4, <2>5, OutKept
<1>4. ASSUME SyncVariable \/ ExecutorExit PROVE OutInv'
  <2>1. /\ \/ main = "sync" /\ main' = "sync" /\ result' = result
           \/ main = "exit" /\ main' = "over" /\ result' = "failed"
        /\ UNCHANGED <<is_parallel, error_handle_mode, outputs, outcome, child, current>>
    BY <1>4 DEF SyncVariable, ExecutorExit, nodeVars, childVars
  <2>2. \A j \in Iters : Settled(j)' <=> Settled(j)
    BY <2>1 DEF Settled
  <2>3. OutTypes'
    BY <2>1 DEF OutInv, OutTypes
  <2> QED
    BY <2>1, <2>2, <2>3, OutKept
<1> QED
  BY <1>1, <1>2, <1>3, <1>4

(* What Continue does with the outputs, when every result was taken. *)
LEMMA Concludes ==
    ASSUME IterInv, OutInv, NEW out, out \in Seq(Nat),
           NotNone(out) = NotNone(Values(N)'),
           \/ error_handle_mode' = "remove-abnormal-output"
           \/ ~is_parallel' /\ \E i \in Iters : outcome'[i] = "stopped"
           \/ out = Values(N)',
           outputs' = out \/ (/\ error_handle_mode' = "remove-abnormal-output"
                              /\ outputs' = NotNone(out))
    PROVE  OutputsInPlace'
<1>1. [i \in Iters |-> Value(i)]' = Values(N)'
  BY DEF Values, Iters
<1>2. NotNone(out) \in Seq(Nat \ {0})
  BY NotNoneClean
<1>3. NotNone(NotNone(out)) = NotNone(out)
  BY <1>2, NotNoneIdentity
<1>4. NotNone(outputs') = NotNone(out)
  BY <1>3
<1>5. NotNone(outputs)' = NotNone(outputs')
  BY DEF NotNone
<1>6. NotNone([i \in Iters |-> Value(i)])' = NotNone(Values(N)')
  <2>1. NotNone([i \in Iters |-> Value(i)])' = NotNone([i \in Iters |-> Value(i)]')
    BY DEF NotNone
  <2> QED
    BY <1>1, <2>1
<1> QED
  BY <1>1, <1>4, <1>5, <1>6 DEF OutputsInPlace

LEMMA OutCollect ==
    ASSUME IterInv, OutInv, NEW i \in Iters, Collect(i) PROVE OutInv'
<1>1. /\ main = "collect" /\ child[i] = "ended" /\ ~Failed(i)
      /\ outputs' = Placed(i) /\ main' = "sync" /\ current' = i
      /\ UNCHANGED <<is_parallel, error_handle_mode, result, child, outcome>>
  BY DEF Collect, nodeVars, childVars
<1>2. N \in Nat \ {0} /\ Iters = 1 .. N /\ i \in Nat
  BY IterationAssumption DEF Iters
<1>3. OutTypes' /\ result' # "succeeded"
  BY <1>1 DEF OutInv, OutTypes, IterInv, Collecting
<1>4. \A j \in Iters : Value(j)' = Value(j)
  BY <1>1 DEF Value
<1>5. \A j \in Iters : Settled(j)' <=> Settled(j) \/ j = i
  BY <1>1 DEF Settled
<1>6. Filled'
  <2> SUFFICES ASSUME is_parallel PROVE Filled'
    BY <1>1 DEF Filled
  <2>1. outputs' = [outputs EXCEPT ![i] = Value(i)]
    BY <1>1 DEF Placed
  <2>2. /\ outputs \in Seq(Nat) /\ Len(outputs) = N
        /\ \A j \in Iters : Settled(j) => outputs[j] = Value(j)
    BY <1>1 DEF OutInv, Filled
  <2>3. Value(i) \in Nat
    BY ValuesFacts
  <2>4. outputs' \in Seq(Nat) /\ Len(outputs') = N
    BY <1>2, <2>1, <2>2, <2>3
  <2>5. \A j \in Iters : outputs'[j] = IF j = i THEN Value(i) ELSE outputs[j]
    BY <1>2, <2>1, <2>2
  <2> QED
    BY <1>4, <1>5, <2>2, <2>4, <2>5 DEF Filled
<1>7. Appended'
  <2> SUFFICES ASSUME ~is_parallel PROVE Appended'
    BY <1>1 DEF Appended
  <2>1. PICK c \in 0 .. N :
          /\ \A j \in Iters : Settled(j) <=> j <= c
          /\ outputs \in Seq(Nat) /\ NotNone(outputs) = NotNone(Values(c))
          /\ \/ error_handle_mode = "remove-abnormal-output"
             \/ \E j \in 1 .. c : outcome[j] = "stopped"
             \/ outputs = Values(c)
    BY DEF OutInv, Appended
  <2>2. i = c + 1
    <3>1. PICK d \in 0 .. N : \A j \in Iters : child[j] = "new" <=> j > d
      BY DEF IterInv, Submitted
    <3>2. \A j \in Iters : child[j] = "taken" <=> j <= c
      BY <1>1, <2>1 DEF Settled
    <3>3. \A j \in Iters : child[j] \notin {"new", "taken"} => j = i
      BY <1>1 DEF IterInv, Alone
    <3>4. i > c /\ i <= d
      BY <1>1, <1>2, <3>1, <3>2
    <3>5. c + 1 \in Iters /\ child[c + 1] \notin {"new", "taken"}
      BY <1>2, <2>1, <3>1, <3>2, <3>4
    <3> QED
      BY <3>3, <3>5
  <2>3. c \in 0 .. N - 1 /\ c + 1 \in 0 .. N
    BY <1>2, <2>1, <2>2
  <2>4. /\ Values(c) \in Seq(Nat) /\ Value(i) \in Nat
        /\ Values(c + 1) = Append(Values(c), Value(i))
    BY <2>2, <2>3, ValuesFacts
  <2>5. \A j \in Iters : Settled(j)' <=> j <= c + 1
    BY <1>2, <1>5, <2>1, <2>2
  <2>6. Values(c + 1)' = Values(c + 1)
    BY <1>1 DEF Values, Value
  <2>7. CASE outputs' = Append(outputs, Value(i))
    <3>1. outputs' \in Seq(Nat)
      BY <2>1, <2>4, <2>7
    <3>2. NotNone(outputs') = IF Value(i) = 0 THEN NotNone(outputs) ELSE Append(NotNone(outputs), Value(i))
      BY <2>1, <2>4, <2>7, NotNoneAppend
    <3>3. NotNone(Values(c + 1)) = IF Value(i) = 0 THEN NotNone(Values(c))
                                   ELSE Append(NotNone(Values(c)), Value(i))
      BY <2>4, NotNoneAppend
    <3>4. NotNone(outputs)' = NotNone(outputs') /\ NotNone(Values(c + 1))' = NotNone(Values(c + 1)')
      BY DEF NotNone
    <3>5. NotNone(outputs)' = NotNone(Values(c + 1))'
      BY <2>1, <2>6, <3>2, <3>3, <3>4
    <3>6. \/ error_handle_mode = "remove-abnormal-output"
          \/ \E j \in 1 .. c + 1 : outcome[j] = "stopped"
          \/ outputs' = Values(c + 1)
      BY <2>1, <2>3, <2>4, <2>7
    <3> QED
      BY <1>1, <2>3, <2>5, <2>6, <3>1, <3>5, <3>6 DEF Appended
  <2>8. CASE outputs' = outputs /\ outcome[i] \notin {"value", "none"}
             /\ ~(outcome[i] = "failed" /\ error_handle_mode = "continue-on-error")
    <3>1. Value(i) = 0
      BY <2>8 DEF Value
    <3>2. NotNone(Values(c + 1)) = NotNone(Values(c))
      BY <2>4, <3>1, NotNoneAppend
    <3>3. NotNone(outputs)' = NotNone(outputs') /\ NotNone(Values(c + 1))' = NotNone(Values(c + 1)')
      BY DEF NotNone
    <3>4. NotNone(outputs)' = NotNone(Values(c + 1))'
      BY <2>1, <2>6, <2>8, <3>2, <3>3
    <3>5. error_handle_mode = "remove-abnormal-output" \/ outcome[i] = "stopped"
      BY <1>1, <2>8 DEF OutInv, OutTypes, Failed
    <3>6. i \in 1 .. c + 1
      BY <2>2, <2>3
    <3> QED
      BY <1>1, <2>1, <2>3, <2>5, <2>8, <3>4, <3>5, <3>6 DEF Appended
  <2> QED
    BY <1>1, <2>7, <2>8 DEF Placed
<1>8. OutputsInPlace'
  BY <1>3 DEF OutputsInPlace
<1> QED
  BY <1>3, <1>6, <1>7, <1>8 DEF OutInv

LEMMA OutError ==
    ASSUME IterInv, OutInv, NEW i \in Iters, CollectError(i) PROVE OutInv'
<1> DEFINE out == [outputs EXCEPT ![i] = 0]
<1>1. /\ main = "collect" /\ child[i] = "ended" /\ is_parallel /\ outcome[i] = "raised"
      /\ child' = [child EXCEPT ![i] = "taken"]
      /\ UNCHANGED <<is_parallel, error_handle_mode, current, outcome>>
  BY DEF CollectError, Failed, Become, nodeVars
<1>2. N \in Nat \ {0} /\ Iters = 1 .. N
  BY IterationAssumption DEF Iters
<1>3. \/ /\ \A j \in Iters : child'[j] = "taken"
         /\ main' = "over"
         /\ outputs' = IF error_handle_mode = "remove-abnormal-output" THEN NotNone(out) ELSE out
      \/ main' = "collect" /\ outputs' = out /\ result' = result
  BY <1>1 DEF CollectError, Continue
<1>4. \A j \in Iters : child'[j] = IF j = i THEN "taken" ELSE child[j]
  BY <1>1 DEF IterInv, NodeTypes
<1>5. /\ outputs \in Seq(Nat) /\ Len(outputs) = N
      /\ \A j \in Iters : Settled(j) => outputs[j] = Value(j)
  BY <1>1 DEF OutInv, Filled
<1>6. \A j \in Iters : Value(j)' = Value(j)
  BY <1>1 DEF Value
<1>7. /\ out \in Seq(Nat) /\ Len(out) = N
      /\ \A j \in Iters : out[j] = IF j = i THEN 0 ELSE outputs[j]
  BY <1>2, <1>5
<1> HIDE DEF out
<1>8. \A j \in Iters : child'[j] = "taken" => out[j] = Value(j)'
  BY <1>1, <1>4, <1>5, <1>6, <1>7 DEF Settled, Value
<1>9. OutTypes' /\ result # "succeeded"
  BY <1>1 DEF OutInv, OutTypes, IterInv, Collecting
<1>10. Appended'
  BY <1>1 DEF Appended
<1>11. CASE main' = "collect" /\ outputs' = out /\ result' = result
  <2>1. Filled'
    BY <1>7, <1>8, <1>11 DEF Filled, Settled
  <2>2. OutputsInPlace'
    BY <1>9, <1>11 DEF OutputsInPlace
  <2> QED
    BY <1>9, <1>10, <2>1, <2>2 DEF OutInv
<1>12. CASE /\ \A j \in Iters : child'[j] = "taken"
            /\ main' = "over"
            /\ outputs' = IF error_handle_mode = "remove-abnormal-output" THEN NotNone(out) ELSE out
  <2>1. out = Values(N)'
    <3>1. \A j \in 1 .. N : out[j] = Values(N)'[j]
      BY <1>2, <1>8, <1>12 DEF Values
    <3>2. Values(N)' = [j \in 1 .. N |-> Values(N)'[j]]
      BY DEF Values
    <3>3. out = [j \in 1 .. N |-> out[j]]
      BY <1>7
    <3> QED
      BY <3>1, <3>2, <3>3
  <2>2. OutputsInPlace'
    BY <1>1, <1>7, <1>12, <2>1, Concludes
  <2>3. Filled'
    BY <1>12 DEF Filled
  <2> QED
    BY <1>9, <1>10, <2>2, <2>3 DEF OutInv
<1> QED
  BY <1>3, <1>11, <1>12

LEMMA OutSynced == ASSUME IterInv, OutInv, SyncEnds PROVE OutInv'
<1>1. /\ main = "sync" /\ child' = [child EXCEPT ![current] = "taken"]
      /\ UNCHANGED <<is_parallel, error_handle_mode, outcome>>
  BY DEF SyncEnds, Become, nodeVars
<1>2. \/ /\ \A j \in Iters : child'[j] = "taken"
         /\ main' = "over"
         /\ outputs' = IF is_parallel /\ error_handle_mode = "remove-abnormal-output"
                       THEN NotNone(outputs) ELSE outputs
      \/ main' \in {"collect", "submit"} /\ outputs' = outputs /\ result' = result
  BY <1>1 DEF SyncEnds, Continue
<1>3. N \in Nat \ {0} /\ Iters = 1 .. N
  BY IterationAssumption DEF Iters
<1>4. current \in Iters
  BY <1>1, NodeFacts
<1>5. \A j \in Iters : child'[j] = "taken" <=> Settled(j)
  BY <1>1, <1>4 DEF Settled, IterInv, NodeTypes
<1>6. main' # "sync" /\ result # "succeeded"
  BY <1>1, <1>2 DEF IterInv, Collecting
<1>7. \A j \in Iters : Settled(j)' <=> Settled(j)
  BY <1>5, <1>6 DEF Settled
<1>8. OutTypes'
  BY <1>1 DEF OutInv, OutTypes
<1>9. CASE main' \in {"collect", "submit"} /\ outputs' = outputs /\ result' = result
  BY <1>1, <1>6, <1>7, <1>8, <1>9, OutKept
<1>10. CASE /\ \A j \in Iters : child'[j] = "taken"
            /\ main' = "over"
            /\ outputs' = IF is_parallel /\ error_handle_mode = "remove-abnormal-output"
                          THEN NotNone(outputs) ELSE outputs
  <2>1. \A j \in Iters : Settled(j)
    BY <1>5, <1>10
  <2>2. Values(N)' = Values(N)
    BY <1>1 DEF Values, Value
  <2>3. CASE is_parallel
    <3>1. outputs \in Seq(Nat) /\ Len(outputs) = N /\ \A j \in Iters : outputs[j] = Value(j)
      BY <1>1, <2>1, <2>3 DEF OutInv, Filled
    <3>2. outputs = Values(N)
      BY <1>3, <3>1 DEF Values
    <3>3. OutputsInPlace'
      BY <1>1, <1>10, <2>2, <2>3, <3>1, <3>2, Concludes
    <3> QED
      BY <1>1, <1>8, <1>10, <2>3, <3>3 DEF OutInv, Filled, Appended
  <2>4. CASE ~is_parallel
    <3>1. PICK c \in 0 .. N :
            /\ \A j \in Iters : Settled(j) <=> j <= c
            /\ outputs \in Seq(Nat) /\ NotNone(outputs) = NotNone(Values(c))
            /\ \/ error_handle_mode = "remove-abnormal-output"
               \/ \E j \in 1 .. c : outcome[j] = "stopped"
               \/ outputs = Values(c)
      BY <2>4 DEF OutInv, Appended
    <3>2. c = N
      BY <1>3, <2>1, <3>1
    <3>3. outputs' = outputs
      BY <1>10, <2>4
    <3>4. OutputsInPlace'
      BY <1>1, <1>3, <2>2, <2>4, <3>1, <3>2, <3>3, Concludes
    <3>5. Appended'
      <4>1. NotNone(outputs)' = NotNone(outputs') /\ NotNone(Values(N))' = NotNone(Values(N)')
        BY DEF NotNone
      <4>2. N \in 0 .. N
        BY <1>3
      <4> QED
        BY <1>1, <1>7, <2>2, <3>1, <3>2, <3>3, <4>1, <4>2 DEF Appended
    <3> QED
      BY <1>1, <1>8, <2>4, <3>4, <3>5 DEF OutInv, Filled
  <2> QED
    BY <2>3, <2>4
<1> QED
  BY <1>2, <1>9, <1>10

(* The outputs of a node that succeeds are those of its iterations in the  *)
(* order of the items, in whatever order the threads of the executor end;  *)
(* for lists and thread pools of any size.                                 *)
THEOREM ItemsInOrder == IterationSpec => []OutputsInPlace
<1>1. IterInv /\ OutInv /\ [IterationNext]_iterationVars => OutInv'
  <2> SUFFICES ASSUME IterInv, OutInv, [IterationNext]_iterationVars PROVE OutInv'
    OBVIOUS
  <2>1. CASE UNCHANGED iterationVars
    <3>1. UNCHANGED <<is_parallel, error_handle_mode, main, current, outputs, result, child, outcome>>
      BY <2>1 DEF iterationVars, nodeVars, mainVars, childVars
    <3>2. OutTypes' /\ \A i \in Iters : Settled(i)' <=> Settled(i)
      BY <3>1 DEF OutInv, OutTypes, Settled
    <3> QED
      BY <3>1, <3>2, OutKept
  <2>2. CASE \E i \in Iters : Child(i)
    BY <2>2, OutStays
  <2>3. CASE Main
    BY <2>3, OutStays, OutCollect, OutError, OutSynced DEF Main
  <2> QED
    BY <2>1, <2>2, <2>3 DEF IterationNext
<1>2. OutInv => OutputsInPlace
  BY DEF OutInv
<1> QED
  BY <1>1, <1>2, OutInit, NodeCorrect, PTL DEF IterationSpec
=============================================================================
