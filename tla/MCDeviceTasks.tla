---------------------------- MODULE MCDeviceTasks ----------------------------
(***************************************************************************)
(* DeviceTasks has no parameter but the value of a free mutex.             *)
(***************************************************************************)
EXTENDS DeviceTasks

=============================================================================
