------------------------------ MODULE WorkClock ------------------------------
(***************************************************************************)
(* Time as the attendance code uses it.  An instant is a number of ticks   *)
(* since the midnight that starts day 0 in the server's zone; a duration   *)
(* is a difference of instants and may be negative.  A tick is the         *)
(* resolution of the stored timestamps: it is finer than a minute, so      *)
(* truncation to minutes loses something.                                  *)
(***************************************************************************)
EXTENDS Integers

CONSTANTS
  DayLength,    \* ticks in a calendar day
  MinuteLength  \* ticks in a minute

ASSUME ClockAssumption == /\ DayLength \in Nat \ {0}
                          /\ MinuteLength \in Nat \ {0}

(***************************************************************************)
(* time.Date(t.Year(), t.Month(), t.Day(), 0, 0, 0, 0, t.Location()),      *)
(* formatted as a date: the calendar day of instant t read in a zone that  *)
(* is "zone" ticks ahead of the server's.                                  *)
(***************************************************************************)
DateOf(t, zone) == (t + zone) \div DayLength

(***************************************************************************)
(* int(d.Minutes()): whole minutes, truncated towards zero, so that a      *)
(* negative duration loses its fraction upwards.                           *)
(***************************************************************************)
Minutes(d) == IF d >= 0 THEN d \div MinuteLength ELSE -((-d) \div MinuteLength)

\* if minutes < 0 { minutes = 0 }
NonNegative(m) == IF m < 0 THEN 0 ELSE m

\* Seeded fault: the difference is not clamped.
WorkedMinutesUnclamped(in, out, breakMinutes) == Minutes(out - in) - breakMinutes

(***************************************************************************)
(* The worked minutes of a shift: its length less the minutes of break,    *)
(* each truncated on its own, never below zero.                            *)
(***************************************************************************)
WorkedMinutes(in, out, breakMinutes) ==
  NonNegative(Minutes(out - in) - breakMinutes)

(***************************************************************************)
(* The minutes after the scheduled end of the shift, none when the         *)
(* employee has no schedule that day or leaves before its end.             *)
(***************************************************************************)
MinutesPast(out, scheduled) ==
  IF out > scheduled THEN Minutes(out - scheduled) ELSE 0
=============================================================================
