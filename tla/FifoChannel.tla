---------------------------- MODULE FifoChannel ----------------------------
(***************************************************************************)
(* What a connection promises to the handlers of its messages: they see    *)
(* the messages that were sent, each once, whole, and in their order.      *)
(***************************************************************************)
EXTENDS Naturals, Sequences

CONSTANT Message

VARIABLES sent, received

vars == <<sent, received>>

Init == sent = <<>> /\ received = <<>>

Send(message) == sent' = Append(sent, message) /\ UNCHANGED received

Receive ==
  /\ Len(received) < Len(sent)
  /\ received' = Append(received, sent[Len(received) + 1])
  /\ UNCHANGED sent

Next == Receive \/ \E message \in Message : Send(message)

Spec == Init /\ [][Next]_vars

=============================================================================
