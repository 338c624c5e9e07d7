--------------------------- MODULE MCMinuteCheck ---------------------------
(* MinuteCheck on small instances: minutes of four seconds, hours of five  *)
(* minutes.  The app's clock is the board's.                               *)
EXTENDS MinuteCheck

MCStarts == {0, 10}
MCSteps == {-5, 9}
MCDelays == {1, 4}
MCRequests == {1, 7, 20}
=============================================================================
