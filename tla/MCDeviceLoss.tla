---------------------------- MODULE MCDeviceLoss ----------------------------
(* A small instance of DeviceLoss.                                         *)
EXTENDS DeviceLoss
=============================================================================
