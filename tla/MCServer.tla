------------------------------ MODULE MCServer ------------------------------
(***************************************************************************)
(* Instances of Server for TLC.                                            *)
(*                                                                         *)
(* No writer changes what another thread reads, so the runs that are about *)
(* the readers and the main thread leave the writers unscheduled after     *)
(* Accept, and the runs about the writers schedule those of Watched only.  *)
(***************************************************************************)
EXTENDS Server, TLC

CONSTANTS
  Watched,       \* the connections whose writer is scheduled
  Requests       \* the messages the clients send: "join", "input" or both

ASSUME InstanceAssumption ==
  /\ Watched \subseteq Clients
  /\ Requests \subseteq {"join", "input"}

NextWatched ==
  \/ MainThread
  \/ \E c \in Clients :
       \/ Accept(c)
       \/ \E msg \in Requests : InRead(c, msg)
       \/ InReadFails(c) \/ InHandle(c)
  \/ \E c \in Watched : OutThread(c)

SpecWatched == Init /\ [][NextWatched]_vars

\* Connections are interchangeable.
Symmetry == Permutations(Clients)
=============================================================================
