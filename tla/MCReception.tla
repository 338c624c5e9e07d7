----------------------------- MODULE MCReception -----------------------------
(* Reception on small instances: two configurations, one of them full, and *)
(* packets of two sizes, with and without encryption.                       *)
EXTENDS Reception

Ask(cmd, index, body, encrypted) ==
  [cmd |-> cmd, index |-> index, body |-> body, encrypted |-> encrypted]

MCRequests ==
  {Ask("set", 0, 24, TRUE), Ask("info", 0, 1, FALSE)}

MCDatagrams ==
  {[cmd |-> c, index |-> 0, body |-> 7, encrypted |-> e, to |-> t, sameType |-> s] :
     c \in {"found", "info", "alarms"}, e \in BOOLEAN,
     t \in {"own", "all", "factory", "other"}, s \in BOOLEAN}

MCContents ==
  {[alarms |-> 1, absences |-> 1, name |-> 9],
   [alarms |-> MAX_ALARM_COUNT, absences |-> MAX_ABSENCE_COUNT, name |-> DEVICE_NAME_LEN - 2]}
=============================================================================
