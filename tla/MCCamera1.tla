------------------------------ MODULE MCCamera1 ------------------------------
(* Values for Camera1Activity: two cameras. *)
EXTENDS Camera1Activity

MCCameras == {"back", "head"}
MCBack == "back"
AnyHabit == {"stopWhileBusy", "switchWhileBusy", "fastOpen"}
NoHabit == {}
StopWhileBusy == {"stopWhileBusy"}
FastOpen == {"fastOpen"}
NoFault == {}
OpenFails == {"openFails"}
AnyFault == {"openFails", "reorder"}
FastStops == {"stopWhileBusy", "fastOpen"}
=============================================================================
