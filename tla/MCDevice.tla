------------------------------ MODULE MCDevice ------------------------------
(* Instances of the device state machine for TLC.                          *)
EXTENDS DeviceStateMachine

AllRequests == ExternalEvents
=============================================================================
