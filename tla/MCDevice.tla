------------------------------ MODULE MCDevice ------------------------------
(* The device for TLC: the constants are given by the configurations.       *)
EXTENDS Device
=============================================================================
