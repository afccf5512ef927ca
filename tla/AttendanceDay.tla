---------------------------- MODULE AttendanceDay ----------------------------
(***************************************************************************)
(* What the attendance service promises of each working day of each        *)
(* employee, free of tables, statements and requests: the day is opened    *)
(* once, alternates between work and breaks, and is closed once, with the  *)
(* worked minutes its breaks leave.  Every operation is one step.          *)
(***************************************************************************)
EXTENDS WorkClock

CONSTANTS Days, Times, NULL

VARIABLES
  phase,     \* day -> "idle", "clocked_in", "on_break" or "clocked_out"
  clockIn,   \* day -> when it was opened, NULL before
  since,     \* day -> when the running break started, NULL outside a break
  rest,      \* day -> total length of its ended breaks
  clockOut,  \* day -> when it was closed, NULL before
  worked     \* day -> the worked minutes, NULL until it is closed

vars == <<phase, clockIn, since, rest, clockOut, worked>>

Init ==
  /\ phase = [k \in Days |-> "idle"]
  /\ clockIn = [k \in Days |-> NULL]
  /\ since = [k \in Days |-> NULL]
  /\ rest = [k \in Days |-> 0]
  /\ clockOut = [k \in Days |-> NULL]
  /\ worked = [k \in Days |-> NULL]

Move(k, from, to) == phase[k] = from /\ phase' = [phase EXCEPT ![k] = to]

ClockIn(k, t) ==
  /\ Move(k, "idle", "clocked_in")
  /\ clockIn' = [clockIn EXCEPT ![k] = t]
  /\ UNCHANGED <<since, rest, clockOut, worked>>

StartBreak(k, t) ==
  /\ Move(k, "clocked_in", "on_break")
  /\ since' = [since EXCEPT ![k] = t]
  /\ UNCHANGED <<clockIn, rest, clockOut, worked>>

EndBreak(k, t) ==
  /\ Move(k, "on_break", "clocked_in")
  /\ since' = [since EXCEPT ![k] = NULL]
  /\ rest' = [rest EXCEPT ![k] = @ + (t - since[k])]
  /\ UNCHANGED <<clockIn, clockOut, worked>>

\* A break in progress is ended first.
ClockOut(k, t) ==
  /\ Move(k, "clocked_in", "clocked_out")
  /\ clockOut' = [clockOut EXCEPT ![k] = t]
  /\ worked' = [worked EXCEPT ![k] = WorkedMinutes(clockIn[k], t, Minutes(rest[k]))]
  /\ UNCHANGED <<clockIn, since, rest>>

Next == \E k \in Days, t \in Times :
          ClockIn(k, t) \/ StartBreak(k, t) \/ EndBreak(k, t) \/ ClockOut(k, t)

Spec == Init /\ [][Next]_vars
=============================================================================
