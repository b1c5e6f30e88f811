------------------------------ MODULE MCCamera2 ------------------------------
(* Values for Camera2Activity: two cameras, the back one with a size the    *)
(* head one does not have.                                                  *)
EXTENDS Camera2Activity

MCCameras == {"back", "head"}
MCOutputSizes == [k \in MCCameras |-> IF k = "back" THEN {1, 3} ELSE {1, 2}]
MCBack == "back"
AnyHabit == {"stopWhileBusy", "switchWhileBusy", "deviceFirst"}
ColdStart == {"coldStart"}
NoSwitchWhileBusy == {"stopWhileBusy", "deviceFirst"}
NoHabit == {}
StopWhileBusy == {"stopWhileBusy"}
SwitchWhileBusy == {"switchWhileBusy"}
NoFault == {}
OpenThrowsFault == {"openThrows"}
ConfigFault == {"configFails"}
=============================================================================
