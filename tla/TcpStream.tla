----------------------------- MODULE TcpStream ------------------------------
(***************************************************************************)
(* One direction of a TCP connection (network/network_handler.cpp): the    *)
(* thread that writes to its TCPHandler, the bytes under way, and the      *)
(* thread at the other end that reads from its TCPHandler.                 *)
(*                                                                         *)
(* The two directions of a connection share nothing: of one TCPHandler the *)
(* writing thread uses send_buff only, the reading thread recv_buff and    *)
(* recv_deque only.  So one is looked at at a time, "up" to the server or  *)
(* "down" to the client, and "direction" never changes.                    *)
(***************************************************************************)
EXTENDS Encoding

CONSTANTS
  WireSize,    \* bound: the bytes that send has taken and recv not returned
  RecvBuff     \* TCP_BUFF_SIZE, the most that one recv returns

ASSUME TcpStreamAssumption == WireSize \in Nat \ {0} /\ RecvBuff \in Nat \ {0}

VARIABLES
  direction,
  sender,       \* "ok", or "thrown": the writing thread has left with TCPError
  todo,         \* the elements of the message that are not written yet
  unsent,       \* the bytes of the element in send_buff that are not sent yet
  wire,         \* the bytes that have been sent and not received
  receiver,     \* "reading", "handling" what it has read, or "thrown"
  recv_deque,
  expect,       \* the fields that the message being read still has
  elements,     \* the elements read of it
  sent,         \* history: the messages written
  received      \* history: the messages read

sending == <<sender, todo, unsent, sent>>
receiving == <<receiver, recv_deque, expect, elements, received>>
streamVars == <<direction, sending, wire, receiving>>

Writer == IF direction = "up" THEN "client" ELSE "server"
Reader == IF direction = "up" THEN "server" ELSE "client"
MessageId == IF direction = "up" THEN "client_message" ELSE "server_message"

StreamInit ==
  /\ direction \in {"up", "down"}
  /\ sender = "ok" /\ todo = <<>> /\ unsent = <<>> /\ sent = <<>>
  /\ wire = <<>>
  /\ receiver = "reading" /\ recv_deque = <<>>
  /\ expect = <<MessageId>> /\ elements = <<>> /\ received = <<>>

-----------------------------------------------------------------------------
(* The writing thread                                                      *)

WriterIdle == sender = "ok" /\ todo = <<>> /\ unsent = <<>>

\* serialize is called on a message.
Write(message) ==
  /\ WriterIdle
  /\ todo' = message
  /\ sent' = Append(sent, message)
  /\ UNCHANGED <<direction, sender, unsent, wire, receiving>>

\* send_element fills send_buff,
SendElement ==
  /\ sender = "ok" /\ unsent = <<>> /\ todo # <<>>
  /\ unsent' = Written(Writer, Head(todo))
  /\ todo' = Tail(todo)
  /\ UNCHANGED <<direction, sender, sent, wire, receiving>>

SendBytes_SkipsRest(k) ==
  /\ sender = "ok" /\ k \in 1 .. Len(unsent)
  /\ Len(wire) + k <= WireSize
  /\ wire' = wire \o SubSeq(unsent, 1, k)
  /\ unsent' = <<>>
  /\ UNCHANGED <<direction, sender, todo, sent, receiving>>

\* of which a send may take k bytes.
SendBytes(k) ==
  /\ sender = "ok" /\ k \in 1 .. Len(unsent)
  /\ Len(wire) + k <= WireSize                  \* bound
  /\ wire' = wire \o SubSeq(unsent, 1, k)
  /\ unsent' = SubSeq(unsent, k + 1, Len(unsent))
  /\ UNCHANGED <<direction, sender, todo, sent, receiving>>

\* send fails, possibly in the middle of a message.
SendFails ==
  /\ sender = "ok" /\ unsent # <<>>
  /\ sender' = "thrown"
  /\ UNCHANGED <<direction, todo, unsent, sent, wire, receiving>>

-----------------------------------------------------------------------------
(* The reading thread                                                      *)

Awaited == SizeOf(Head(expect))

InDeque_OneMore(n) == Len(recv_deque) > n

\* The condition of the loop in return_when_n_bytes_in_deque.
InDeque(n) == Len(recv_deque) >= n

ReceiveBytes_Eager(k) ==
  /\ receiver = "reading"
  /\ k \in 1 .. Len(wire) /\ k <= RecvBuff
  /\ recv_deque' = recv_deque \o SubSeq(wire, 1, k)
  /\ wire' = SubSeq(wire, k + 1, Len(wire))
  /\ UNCHANGED <<direction, sending, receiver, expect, elements, received>>

\* recv returns k bytes.
ReceiveBytes(k) ==
  /\ receiver = "reading" /\ ~InDeque(Awaited)
  /\ k \in 1 .. Len(wire) /\ k <= RecvBuff
  /\ recv_deque' = recv_deque \o SubSeq(wire, 1, k)
  /\ wire' = SubSeq(wire, k + 1, Len(wire))
  /\ UNCHANGED <<direction, sending, receiver, expect, elements, received>>

\* recv fails, or returns 0 because the other end is closed: the message that has
\* been read in part is dropped.
ReceiveFails ==
  /\ receiver = "reading" /\ ~InDeque(Awaited)
  /\ receiver' = "thrown"
  /\ UNCHANGED <<direction, sending, wire, recv_deque, expect, elements, received>>

\* read_element returns, and the message is read on according to what it returned.
ReadElement ==
  /\ receiver = "reading" /\ InDeque(Awaited)
  /\ LET field == Head(expect)
         value == ValueRead(Reader, SubSeq(recv_deque, 1, Awaited))
         all == Append(elements, [field |-> field, value |-> value])
     IN  /\ recv_deque' = SubSeq(recv_deque, Awaited + 1, Len(recv_deque))
         /\ \/ /\ Unknown(field, value)
               /\ receiver' = "thrown"
               /\ UNCHANGED <<expect, elements, received>>
            \/ /\ ~Unknown(field, value)
               /\ LET rest == Then(field, value) \o Tail(expect)
                  IN  IF rest # <<>>
                      THEN /\ expect' = rest /\ elements' = all
                           /\ UNCHANGED <<receiver, received>>
                      ELSE /\ expect' = <<MessageId>> /\ elements' = <<>>
                           /\ receiver' = "handling"
                           /\ received' = Append(received, all)
  /\ UNCHANGED <<direction, sending, wire>>

StreamNext ==
  \/ SendElement \/ SendFails \/ ReceiveFails \/ ReadElement
  \/ \E k \in 1 .. WireSize : SendBytes(k) \/ ReceiveBytes(k)
=============================================================================
