------------------------------ MODULE MCDimmer ------------------------------
(* The dimmer by itself for TLC: the configuration gives the constants.       *)
EXTENDS Dimmer
=============================================================================
