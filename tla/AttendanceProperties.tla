------------------------- MODULE AttendanceProperties -------------------------
(***************************************************************************)
(* What is asked of the attendance service.  The first group holds however *)
(* requests interleave and wherever handlers die; the second when each     *)
(* employee's app waits for its answers and no statement fails; the last   *)
(* states what comments, documents and tests of the repository say.        *)
(***************************************************************************)
EXTENDS Attendance

\* The tables hold rows of their schema and every handler the locals of its code.
TypeOK ==
  /\ clock \in Times
  /\ records \in [Keys -> Maybe(Rows)]
  /\ breaks \in [BreakIds -> Maybe(BreakRows)]
  /\ pc \in [Handlers -> Labels]
  /\ loc \in [Handlers -> Maybe(Requests)]

KeysInUse == {k \in Keys : records[k] # NULL}
StampsOf(k) ==
  ({records[k].clockInAt, records[k].clockOutAt}
     \cup {breaks[b].start : b \in BreaksOf(k)} \cup {breaks[b].end : b \in BreaksOf(k)})
    \ {NULL}

(***************************************************************************)
(* No row carries a timestamp the server's clock has not reached, although *)
(* clients supply some of them and all are written later than taken.       *)
(***************************************************************************)
NothingFromTheFuture ==
  \A k \in KeysInUse : \A t \in StampsOf(k) : t <= clock

(***************************************************************************)
(* Every timestamp of a row and of its breaks falls on the row's work      *)
(* date, read in the server's zone or in one a client writes in: a handler *)
(* that straddles midnight and an offline submission that arrives the next *)
(* day both end up on the day they belong to.                              *)
(***************************************************************************)
WithinWorkDay ==
  \A k \in KeysInUse : \A t \in StampsOf(k) :
    \E z \in ClientZones \cup {ServerZone} : DateOf(t, z) = k[2]

(***************************************************************************)
(* A break that has ended stays as it was recorded: ending a later break,  *)
(* or clocking out, never rewrites it.                                     *)
(***************************************************************************)
EndedBreaksStay ==
  [][\A b \in BreakIds :
       breaks[b] # NULL /\ breaks[b].end # NULL => breaks'[b] = breaks[b]]_vars

(***************************************************************************)
(* A row is never removed, the clock-in it was created with never moves,   *)
(* and a clock-out once recorded is never erased, even by the status       *)
(* updates of handlers that read the row before it.                        *)
(***************************************************************************)
HistoryStays ==
  [][\A k \in KeysInUse :
       /\ records'[k] # NULL
       /\ records'[k].clockInAt = records[k].clockInAt
       /\ records[k].clockOutAt # NULL => records'[k].clockOutAt # NULL]_vars

-----------------------------------------------------------------------------
(* One request at a time for an employee, no failing statement. *)

\* A handler stands between the two writes of a break or of a clock-out of row k.
MidWrite(k) ==
  \E h \in Handlers : /\ pc[h] \in {"sb_status", "eb_status", "co_sum", "co_write"}
                      /\ KeyOf(h) = k

(***************************************************************************)
(* The status column and the breaks table, written by separate statements, *)
(* tell the same story: a break is open exactly when the status says so,   *)
(* and there is never a second one.                                        *)
(***************************************************************************)
BreakStatusAgree ==
  \A k \in KeysInUse :
    /\ Cardinality(OpenBreaks(k)) <= 1
    /\ MidWrite(k) \/ (records[k].status = "on_break" <=> OpenBreaks(k) # {})

(***************************************************************************)
(* A day that is clocked out is closed: its row and its breaks never       *)
(* change again.                                                           *)
(***************************************************************************)
ClockedOutIsFinal ==
  [][\A k \in KeysInUse :
       records[k].status = "clocked_out" =>
         /\ records'[k] = records[k]
         /\ \A b \in BreakIds :
              breaks'[b] # breaks[b] => breaks'[b].rec # k]_vars

\* The ticks of break of row k if the open ones ended at t.
BreakTicksUntil(k, t) ==
  LET endOf(b) == IF breaks[b].end = NULL THEN t ELSE breaks[b].end
      forth == {p \in BreaksOf(k) \X Times : breaks[p[1]].start <= p[2] /\ p[2] < endOf(p[1])}
      back  == {p \in BreaksOf(k) \X Times : endOf(p[1]) <= p[2] /\ p[2] < breaks[p[1]].start}
  IN  Cardinality(forth) - Cardinality(back)

(***************************************************************************)
(* The minutes stored at clock-out are those the two tables then imply,    *)
(* the break the clock-out had to end included, and the overtime counts    *)
(* from the end of the schedule the day began with.                        *)
(***************************************************************************)
TotalsMatchTables ==
  \A k \in KeysInUse :
    LET row == records[k] IN
      row.status = "clocked_out" =>
        /\ row.working = WorkedMinutes(row.clockInAt, row.clockOutAt,
                                       Minutes(BreakTicksUntil(k, row.clockOutAt)))
        /\ row.overtime = IF row.schedOut = NULL THEN 0
                          ELSE NonNegative(Minutes(row.clockOutAt - row.schedOut))

(***************************************************************************)
(* The preview shows what a clock-out at that instant would store, the     *)
(* overtime exactly.  Once a break has ended it may show one working       *)
(* minute more: the open break's minutes are truncated apart from those of *)
(* the ended ones.                                                         *)
(***************************************************************************)
PreviewIsEstimate ==
  \A h \in Handlers :
    pc[h] = "reply" /\ loc[h].op = "preview" /\ loc[h].answer = "ok" =>
      LET row == records[KeyOf(h)]
          stored == WorkedMinutes(row.clockInAt, loc[h].at,
                                  Minutes(BreakTicksUntil(KeyOf(h), loc[h].at)))
          more == PreviewMinutes(h) - stored IN
        /\ more = 0 \/ (more = 1 /\ ClosedBreaks(KeyOf(h)) # {})
        /\ PreviewOvertime(h) = IF row.schedOut = NULL THEN 0
                                ELSE NonNegative(Minutes(loc[h].at - row.schedOut))

(***************************************************************************)
(* Today's status comes with the start of the open break whenever it is    *)
(* "on_break", as the app needs to show the running break.                 *)
(***************************************************************************)
TodayShowsBreak ==
  \A h \in Handlers :
    pc[h] = "reply" /\ loc[h].op = "today" /\ loc[h].answer = "ok" /\ loc[h].row # NULL =>
      (loc[h].row.status = "on_break" <=> loc[h].open # NULL)

(***************************************************************************)
(* A success that is about to be answered is true of the tables: the row   *)
(* has the status the answer names and the timestamp it returns.           *)
(***************************************************************************)
SuccessIsTrue ==
  \A h \in Handlers :
    pc[h] = "reply" /\ loc[h].answer = "ok" =>
      LET k == KeyOf(h) IN
        CASE loc[h].op = "clock_in" ->
               records[k].status = "clocked_in" /\ records[k].clockInAt = loc[h].at
          [] loc[h].op = "start_break" ->
               /\ records[k].status = "on_break"
               /\ {breaks[b].start : b \in OpenBreaks(k)} = {loc[h].at}
          [] loc[h].op = "end_break" ->
               /\ records[k].status = "clocked_in"
               /\ OpenBreaks(k) = {}
               /\ \E b \in BreaksOf(k) : breaks[b].end = loc[h].at
          [] loc[h].op \in {"clock_out", "clock_out_offline"} ->
               records[k].status = "clocked_out" /\ records[k].clockOutAt = loc[h].at
          [] OTHER -> TRUE

(***************************************************************************)
(* Each day, seen through its tables, goes through the life AttendanceDay  *)
(* promises: the insertion and the closing of a break row are the steps    *)
(* that start and end the break, the write of clock_out_at is the step     *)
(* that ends the day; the status column follows.                           *)
(***************************************************************************)
PhaseOf(k) ==
  IF records[k] = NULL THEN "idle"
  ELSE IF records[k].clockOutAt # NULL THEN "clocked_out"
  ELSE IF OpenBreaks(k) # {} THEN "on_break" ELSE "clocked_in"

ClockInOf(k) == IF records[k] = NULL THEN NULL ELSE records[k].clockInAt
SinceOf(k) == IF OpenBreaks(k) = {} THEN NULL
              ELSE breaks[CHOOSE b \in OpenBreaks(k) : TRUE].start
ClockOutOf(k) == IF records[k] = NULL THEN NULL ELSE records[k].clockOutAt
WorkedOf(k) == IF records[k] = NULL THEN NULL ELSE records[k].working

Day == INSTANCE AttendanceDay WITH
  Days     <- Keys,
  phase    <- [k \in Keys |-> PhaseOf(k)],
  clockIn  <- [k \in Keys |-> ClockInOf(k)],
  since    <- [k \in Keys |-> SinceOf(k)],
  rest     <- [k \in Keys |-> BreakTicks(k)],
  clockOut <- [k \in Keys |-> ClockOutOf(k)],
  worked   <- [k \in Keys |-> WorkedOf(k)]

ImplementsDay == Day!Spec

(***************************************************************************)
(* Breaks fit the day: each lies between the clock-in and the clock-out,   *)
(* ends no earlier than it starts, and no two of a day overlap.  A day     *)
(* closed by an offline submission is left out: its clock-out may lie      *)
(* anywhere before its breaks.                                             *)
(***************************************************************************)
BreaksFitShift ==
  \A k \in KeysInUse : \A b \in BreaksOf(k) :
    LET row == records[k]
        stop(c) == IF breaks[c].end = NULL THEN clock ELSE breaks[c].end IN
      \/ MidWrite(k) \/ row.offline
      \/ /\ row.clockInAt <= breaks[b].start /\ breaks[b].start <= stop(b)
         /\ row.clockOutAt # NULL => breaks[b].end # NULL /\ breaks[b].end <= row.clockOutAt
         /\ \A c \in BreaksOf(k) \ {b} :
              stop(b) <= breaks[c].start \/ stop(c) <= breaks[b].start

(***************************************************************************)
(* As long as clients date their offline clock-outs by the server's time,  *)
(* no crash, retry or late copy makes the stored minutes negative or       *)
(* longer than the shift, although a crash between the two writes of a     *)
(* break lets breaks overlap, which then count twice.  (Each break may     *)
(* seem shorter by what the client's clock lags behind: the lags of all    *)
(* breaks of a day together must stay below a minute.)                     *)
(***************************************************************************)
WorkedWithinShift ==
  \A k \in KeysInUse :
    records[k].status = "clocked_out" =>
      records[k].working \in 0 .. Minutes(records[k].clockOutAt - records[k].clockInAt)

(***************************************************************************)
(* 2026-03-12-offline-clockout-design.md:85: "If notes is provided in the  *)
(* request, persist it. If absent, leave the existing value unchanged."    *)
(* (Notes that overlapping clock-outs write are not safe in this way.)     *)
(***************************************************************************)
AbsentNotesLeaveNotes ==
  [][\A h \in Handlers :
       pc[h] = "co_write" /\ pc'[h] = "reply" /\ loc'[h].answer = "ok" /\ loc[h].notes = NULL
         => records'[KeyOf(h)].notes = records[KeyOf(h)].notes]_vars

-----------------------------------------------------------------------------
(* What the repository says of itself. *)

(***************************************************************************)
(* attendance_uc.go:292: "Use clockOutAt so break_end_at <= clock_out_at   *)
(* is always maintained."                                                  *)
(***************************************************************************)
BreakEndsByClockOut ==
  \A k \in KeysInUse :
    records[k].status = "clocked_out" =>
      \A b \in ClosedBreaks(k) : breaks[b].end <= records[k].clockOutAt

(***************************************************************************)
(* attendance_flow_integration_test.go:218, "N2: clock-out twice -> 409":  *)
(* a row's clock-out is recorded once.                                     *)
(***************************************************************************)
OneClockOut ==
  [][\A k \in KeysInUse :
       records[k].clockOutAt # NULL => records'[k].clockOutAt = records[k].clockOutAt]_vars

(***************************************************************************)
(* attendance_flow_integration_test.go:371, "Verify break was closed in    *)
(* DB": a day that is clocked out has no open break.                       *)
(***************************************************************************)
NoOpenBreakAfterClockOut ==
  \A k \in KeysInUse : records[k].status = "clocked_out" => OpenBreaks(k) = {}

(***************************************************************************)
(* attendance_uc.go:277: "Derive work date from clockOutAt so              *)
(* midnight-spanning offline submissions find the right record": the       *)
(* submission of an employee who is clocked in is not told otherwise.      *)
(***************************************************************************)
OfflineFindsShift ==
  \A h \in Handlers :
    pc[h] = "co_read" /\ loc[h].offline /\ records[KeyOf(h)] = NULL =>
      ~ \E k \in KeysInUse : /\ k[1] = loc[h].emp
                             /\ records[k].status # "clocked_out"
                             /\ records[k].clockInAt <= loc[h].at
=============================================================================
