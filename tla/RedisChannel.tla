---------------------------- MODULE RedisChannel ----------------------------
(***************************************************************************)
(* api/dify_graph/graph_engine/command_channels/redis_channel.py with its  *)
(* sender, GraphEngineManager.                                             *)
(*                                                                         *)
(* The commands of a run are a Redis list; next to it lives a marker key   *)
(* "pending".  Each pipeline is one MULTI/EXEC and therefore atomic, but   *)
(* fetch_commands runs two of them: it reads and deletes the marker, and   *)
(* only if it was set drains the list.  Senders run in other processes,    *)
(* between the two.  Commands are numbered in the order Redis stores them. *)
(*                                                                         *)
(* Faults are explicit: both keys expire together, since they get the same *)
(* time to live in the same transaction; a call may fail before or after   *)
(* Redis executed it.  Senders and the command processor swallow the       *)
(* exception.                                                              *)
(***************************************************************************)
EXTENDS Naturals, Sequences

CONSTANTS MaxSends,    \* bound: commands stored
          MaxExpiries, \* bound: expirations of the keys
          MaxErrors    \* bound: failed Redis calls

ASSUME ChannelAssumption == MaxSends \in Nat /\ MaxExpiries \in Nat /\ MaxErrors \in Nat

VARIABLES
    list,     \* the Redis list
    pending,  \* is the marker key set?
    pc,       \* fetch_commands: "idle", or "drain" between its pipelines
    fetched,  \* commands returned to the command processor, in order
    sends, expiries, errors

channelVars == <<list, pending, pc, fetched, sends, expiries, errors>>

ChannelTypeOK ==
    /\ list \in Seq(Nat) /\ fetched \in Seq(Nat)
    /\ pending \in BOOLEAN
    /\ pc \in {"idle", "drain"}
    /\ sends \in Nat /\ expiries \in Nat /\ errors \in Nat

ChannelInit ==
    /\ list = <<>> /\ fetched = <<>>
    /\ pending = FALSE
    /\ pc = "idle"
    /\ sends = 0 /\ expiries = 0 /\ errors = 0

(* Mutant: LPUSH instead of RPUSH. *)
MutantPushLeft ==
    /\ sends < MaxSends
    /\ list' = <<sends + 1>> \o list
    /\ pending' = TRUE
    /\ sends' = sends + 1
    /\ UNCHANGED <<pc, fetched, expiries, errors>>

(* RPUSH, EXPIRE and SET pending, in one transaction. *)
send_command ==
    /\ sends < MaxSends
    /\ list' = Append(list, sends + 1)
    /\ pending' = TRUE
    /\ sends' = sends + 1
    /\ UNCHANGED <<pc, fetched, expiries, errors>>

(* The marker is read and deleted; without it fetch_commands returns []. *)
has_pending_commands ==
    /\ pc = "idle"
    /\ pending' = FALSE
    /\ pc' = IF pending THEN "drain" ELSE "idle"
    /\ UNCHANGED <<list, fetched, sends, expiries, errors>>

(* Mutant: a fetch takes one command and leaves the others. *)
MutantPopOne ==
    /\ pc = "drain"
    /\ fetched' = IF list = <<>> THEN fetched ELSE Append(fetched, Head(list))
    /\ list' = IF list = <<>> THEN <<>> ELSE Tail(list)
    /\ pc' = "idle"
    /\ UNCHANGED <<pending, sends, expiries, errors>>

(* LRANGE and DEL of the list, in one transaction. *)
fetch_commands ==
    /\ pc = "drain"
    /\ fetched' = fetched \o list
    /\ list' = <<>>
    /\ pc' = "idle"
    /\ UNCHANGED <<pending, sends, expiries, errors>>

(* The time to live of the last send runs out. *)
Expire ==
    /\ expiries < MaxExpiries
    /\ list # <<>>
    /\ list' = <<>> /\ pending' = FALSE
    /\ expiries' = expiries + 1
    /\ UNCHANGED <<pc, fetched, sends, errors>>

(* A pipeline of fetch_commands fails, before or after Redis executed it;  *)
(* process_commands logs the exception and drops the call.                 *)
RedisError ==
    /\ errors < MaxErrors
    /\ errors' = errors + 1
    /\ \/ pc = "idle" /\ pending' = FALSE /\ UNCHANGED list
       \/ pc = "drain" /\ list' \in {list, <<>>} /\ UNCHANGED pending
    /\ pc' = "idle"
    /\ UNCHANGED <<fetched, sends, expiries>>

ChannelNext == send_command \/ has_pending_commands \/ fetch_commands \/ Expire \/ RedisError

ChannelSpec == ChannelInit /\ [][ChannelNext]_channelVars

(* The command processor keeps polling. *)
FairChannelSpec == ChannelSpec /\ WF_channelVars(has_pending_commands) /\ WF_channelVars(fetch_commands)

-----------------------------------------------------------------------------
(* No command is stranded: a stored command is announced by the marker, or *)
(* a fetch that consumed the marker is about to drain the list.  A send    *)
(* that falls between the two pipelines of a fetch is no exception.  Only  *)
(* a failed call can leave a command in the list without a marker.         *)
NoStrandedCommand == list # <<>> => pending \/ pc = "drain" \/ errors > 0

(* The commands of s are in the order of sending, none twice, none above n. *)
Increasing(s, n) ==
    /\ \A x, y \in 1 .. Len(s) : x < y => s[x] < s[y]
    /\ \A x \in 1 .. Len(s) : s[x] <= n

(* Commands reach the engine in the order they were sent, none twice: what *)
(* was returned, followed by what is stored, is strictly increasing, even  *)
(* if keys expire or calls fail.                                           *)
DeliveredInOrder == Increasing(fetched \o list, sends)

(* The channel is the queue its protocol promises; it may lose stored      *)
(* commands only if faults occur.                                          *)
Queue == INSTANCE CommandQueue WITH
            Lossy <- MaxExpiries + MaxErrors > 0,
            queue <- list, delivered <- fetched, sent <- sends
ImplementsQueue == Queue!Spec

(* Every stored command is eventually handed over, however sends and       *)
(* fetches interleave, unless a fault hits the channel.                    *)
EveryCommandFetched ==
    \A c \in 1 .. MaxSends :
        (sends >= c) ~> ((\E x \in DOMAIN fetched : fetched[x] = c) \/ expiries > 0 \/ errors > 0)
=============================================================================
