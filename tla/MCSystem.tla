------------------------------ MODULE MCSystem ------------------------------
(***************************************************************************)
(* Instances of System for TLC.                                            *)
(*                                                                         *)
(* The clients do not know of each other.  Those in Foreign are other      *)
(* programs that speak the protocol: they ask to join whenever they like,  *)
(* and what they are told does not matter.                                 *)
(***************************************************************************)
EXTENDS System

CONSTANT Foreign

ASSUME ForeignAssumption == Foreign \subseteq Clients

ForeignJoins(c) ==
  /\ C!SendToServer(c, "join")
  /\ UNCHANGED <<serviceVars, feed, clientVars, handling>>

NextForeign ==
  \/ PlayRound
  \/ \E c \in Clients : ServerSide(c)
  \/ \E c \in Foreign : ForeignJoins(c)
  \/ \E c \in Clients \ Foreign : Told(c) \/ ClientSteps(c)

SpecForeign == Init /\ [][NextForeign]_vars
=============================================================================
