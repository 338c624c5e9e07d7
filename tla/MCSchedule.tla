----------------------------- MODULE MCSchedule -----------------------------
(* Schedule on small instances.  Day 2 of the mask is day 0 of the week.   *)
EXTENDS Schedule

Info(week, start, stop) ==
  [week |-> week, active |-> TRUE, start |-> start, stop |-> stop]

\* Over midnight into the next week; a one-shot over midnight; an opening
\* without an end.
MCAlarms == {Info({1, 2}, 3, 1), Info({}, 2, 0), Info({}, 1, NoTime)}

\* A whole day round; a one-shot over midnight.
MCAbsences == {Info({0}, 2, 2), Info({}, 3, 1)}
=============================================================================
