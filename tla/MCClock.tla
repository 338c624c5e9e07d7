------------------------------- MODULE MCClock -------------------------------
(* Clock on small instances, and the calendar for every day that a U32     *)
(* second can be in.                                                       *)
EXTENDS Calendar

CONSTANT timer

MCReaders == {timer}
=============================================================================
