---------------------------- MODULE MCAttendance ----------------------------
(***************************************************************************)
(* Instances of the attendance service small enough for TLC.               *)
(***************************************************************************)
EXTENDS AttendanceProperties, TLC

CONSTANTS h1, h2, b1, b2

Slots == {h1, h2}
TwoBreaks == {b1, b2}
WestOfServer == {-1}
NoSchedule == {NULL}
Changes == {"clock_in", "start_break", "end_break", "clock_out", "clock_out_offline"}
EveryOp == AllOps
OnlineChanges == Changes \ {"clock_out_offline"}
OfflineChanges == Changes \ {"clock_out"}
ClockOutOps == {"clock_in", "clock_out"}

Symmetry == Permutations(Handlers)
=============================================================================
