-------------------------------- MODULE MCHall --------------------------------
(***************************************************************************)
(* In the lecture hall: the sessions of one lecture and their roll, and    *)
(* the code on the projector.  Each behaviour explores one of the two,     *)
(* chosen at the start, while the other rests: the projector needs of a    *)
(* session only whether it is in progress.                                 *)
(***************************************************************************)
EXTENDS MCAttendance, Projector

VARIABLE desk

HallInit ==
  /\ desk \in {"roll", "projector"}
  /\ Init /\ (desk = "roll" \/ profile = [s \in Students |-> {}])
  /\ ProjectorInit

RollDesk == desk = "roll" /\ Next /\ UNCHANGED <<projectorVars, desk>>
ProjectorDesk == desk = "projector" /\ ProjectorNext /\ UNCHANGED <<vars, desk>>

HallNext == RollDesk \/ ProjectorDesk

HallSpec == HallInit /\ [][HallNext]_<<vars, projectorVars, desk>>
=============================================================================
