------------------------------ MODULE Channel ------------------------------
(***************************************************************************)
(* What one direction of a connection promises to its users: messages are  *)
(* received whole, in the order in which they were sent, and none that was *)
(* not sent.  Server, Client and System use a connection in this form:     *)
(* "a message is read" is one step.  Either end may stop at any time,      *)
(* which here is a step that does not happen any more.                     *)
(***************************************************************************)
EXTENDS Naturals, Sequences

CONSTANT Contents    \* everything a message may be

VARIABLES sent, received

Init == sent = <<>> /\ received = <<>>

SendMessage ==
  /\ \E m \in Contents : sent' = Append(sent, m)
  /\ UNCHANGED received

ReceiveMessage ==
  /\ Len(received) < Len(sent)
  /\ received' = Append(received, sent[Len(received) + 1])
  /\ UNCHANGED sent

Next == SendMessage \/ ReceiveMessage

Spec == Init /\ [][Next]_<<sent, received>>
=============================================================================
