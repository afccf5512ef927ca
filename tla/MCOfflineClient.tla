--------------------------- MODULE MCOfflineClient ---------------------------
(***************************************************************************)
(* Instances of the service with an offline app small enough for TLC.      *)
(***************************************************************************)
EXTENDS OfflineClient

CONSTANTS h1, h2, b1, b2

Slots == {h1, h2}
TwoBreaks == {b1, b2}
NoSchedule == {NULL}
AppOps == {"clock_in", "start_break", "clock_out_offline"}
BreakOps == AppOps \cup {"end_break"}
=============================================================================
