----------------------------- MODULE MCHidDevice -----------------------------
(* HidDevice for TLC: its constants are given in the configurations.         *)
EXTENDS HidDevice
=============================================================================
