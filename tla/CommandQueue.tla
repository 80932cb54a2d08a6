---------------------------- MODULE CommandQueue ----------------------------
(***************************************************************************)
(* What a command channel promises its engine (protocols/                  *)
(* command_channel.py): a first-in first-out queue.  Senders append; a     *)
(* fetch hands over some of the oldest commands, each one at most once.  A *)
(* lossy channel may lose what it stores, but nothing else.                *)
(***************************************************************************)
EXTENDS Naturals, Sequences

CONSTANT Lossy

VARIABLES queue,     \* commands sent and not yet handed over
          delivered, \* commands handed over, in order
          sent       \* number of commands sent

Init == queue = <<>> /\ delivered = <<>> /\ sent = 0

SendCommand ==
    /\ sent' = sent + 1
    /\ queue' = Append(queue, sent + 1)
    /\ UNCHANGED delivered

FetchCommands(k) ==
    /\ delivered' = delivered \o SubSeq(queue, 1, k)
    /\ queue' = SubSeq(queue, k + 1, Len(queue))
    /\ UNCHANGED sent

Lose ==
    /\ Lossy
    /\ queue' = <<>>
    /\ UNCHANGED <<delivered, sent>>

Next == SendCommand \/ (\E k \in 1 .. Len(queue) : FetchCommands(k)) \/ Lose

Spec == Init /\ [][Next]_<<queue, delivered, sent>>
=============================================================================
