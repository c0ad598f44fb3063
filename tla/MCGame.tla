------------------------------- MODULE MCGame -------------------------------
(***************************************************************************)
(* Instances of Game for TLC.                                              *)
(*                                                                         *)
(* Server and client share nothing but the channel, so that it is enough   *)
(* for most questions to let the client run between the server's turns.    *)
(***************************************************************************)
EXTENDS Game

Idle == channel = <<>> /\ ~applying

NextInTurns == (Idle /\ ServerSteps) \/ ClientSteps

SpecInTurns == Init /\ [][NextInTurns]_vars
=============================================================================
