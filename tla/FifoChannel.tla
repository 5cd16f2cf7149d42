---------------------------- MODULE FifoChannel ----------------------------
(***************************************************************************)
(* What an ordered, loss-free, duplicate-free channel promises, with no     *)
(* word about how it is built.  OutboundQueue (the path from SendPacket to  *)
(* the encoder) and ZdtLink (one ordered reliable ZDT channel) are each     *)
(* shown to implement it.                                                   *)
(***************************************************************************)
EXTENDS Naturals, Sequences

CONSTANTS Message,   \* what may be sent
          Window     \* how far sending may run ahead of delivery

VARIABLES sent,      \* everything accepted from the sender, in order
          received   \* everything handed to the receiver, in order

Init == sent = <<>> /\ received = <<>>

Send(m) ==
  /\ Len(sent) - Len(received) < Window
  /\ sent' = Append(sent, m)
  /\ UNCHANGED received

\* A message that was waiting for an earlier one arrives together with it.
Deliver ==
  /\ \E n \in (Len(received) + 1)..Len(sent) : received' = SubSeq(sent, 1, n)
  /\ UNCHANGED sent

Next == (\E m \in Message : Send(m)) \/ Deliver

Spec == Init /\ [][Next]_<<sent, received>>
=============================================================================
