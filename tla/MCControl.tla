------------------------------ MODULE MCControl ------------------------------
(* Instances of the device under the control of its plugins for TLC.       *)
EXTENDS DeviceControl

ControlOnly == ControlThreads
WithPlugin == ControlThreads \cup {"otherPlugin"}
AllRequests == ExternalEvents
NoPause == ExternalEvents \ {"PAUSE"}
=============================================================================
