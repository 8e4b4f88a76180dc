---------------------------- MODULE MCDeviceAuth ----------------------------
(* A small instance of DeviceAuth for TLC. *)
EXTENDS DeviceAuth
=============================================================================
