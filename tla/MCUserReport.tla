----------------------------- MODULE MCUserReport -----------------------------
(* The report of the name for TLC: the configurations give the constants.    *)
EXTENDS UserReport
=============================================================================
