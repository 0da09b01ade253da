--------------------------- MODULE MCDeviceFaults ---------------------------
(***************************************************************************)
(* DeviceFaults with the guests of MCRunLoop, for TLC.                     *)
(***************************************************************************)
EXTENDS MCRunLoop, DeviceFaults
=============================================================================
