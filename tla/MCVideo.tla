------------------------------- MODULE MCVideo -------------------------------
(* Values for VideoView. *)
EXTENDS VideoView

AnyHabit == {"raceEvents", "pauseStopped", "resetInTransit"}
NoHabit == {}
NoFault == {}
AnyFault == {"error", "noSource"}
=============================================================================
