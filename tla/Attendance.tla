----------------------------- MODULE Attendance -----------------------------
(***************************************************************************)
(* The attendance service: clock-in, breaks, clock-out, the clock-out      *)
(* preview and today's status (internal/usecase/attendance_uc.go), over    *)
(* the tables attendance_records and attendance_breaks.                    *)
(*                                                                         *)
(* Every HTTP request runs its handler in a goroutine of its own.  A       *)
(* handler is a sequence of SQL statements, each committed by itself: the  *)
(* code opens no transaction, so other handlers run between any two of     *)
(* them and a handler that dies between two of them leaves the first one's *)
(* effect behind.  Each statement is one action here.                      *)
(*                                                                         *)
(* A handler looks at the clock once, when it starts, and works with that  *)
(* instant however late its statements run.                                *)
(***************************************************************************)
EXTENDS WorkClock, FiniteSets

CONSTANTS
  Employees,      \* employees of the company
  Handlers,       \* request goroutines that may be in flight together
  BreakIds,       \* bound: primary keys of attendance_breaks
  MaxTime,        \* bound: the last instant of the clock
  ClientZones,    \* offsets of the zones client timestamps are written in
  Schedules,      \* clock-out times of day in employee_schedules; NULL: no active row
  Notes,          \* texts clients may send as notes
  Ops,            \* the requests clients send
  SerialClients,  \* TRUE: an employee's app waits for each answer
  Faults,         \* TRUE: a handler may die between two statements
  NULL            \* SQL NULL, a Go nil pointer

AllOps == {"clock_in", "start_break", "end_break", "clock_out", "clock_out_offline",
           "preview", "today"}

ASSUME AttendanceAssumption ==
  /\ IsFiniteSet(BreakIds)
  /\ MaxTime \in Nat
  /\ ClientZones \subseteq Int
  /\ Schedules \ {NULL} \subseteq Nat
  /\ Ops \subseteq AllOps
  /\ SerialClients \in BOOLEAN
  /\ Faults \in BOOLEAN

ServerZone == 0

\* MaxOfflineDuration = 24 * time.Hour
MaxOfflineDuration == DayLength

Times == 0 .. MaxTime
Dates == {DateOf(t, z) : t \in Times, z \in ClientZones \cup {ServerZone}}

\* attendance_records has UNIQUE (employee_id, work_date): a pair names a row.
Keys == Employees \X Dates

Statuses == {"clocked_in", "on_break", "clocked_out"}

Maybe(S) == S \cup {NULL}

Rows == [status     : Statuses,
         clockInAt  : Times,
         clockOutAt : Maybe(Times),
         schedOut   : Maybe(Int),
         working    : Maybe(Nat),
         overtime   : Maybe(Nat),
         offline    : BOOLEAN,
         notes      : Maybe(Notes)]

BreakRows == [rec : Keys, start : Times, end : Maybe(Times)]

\* What a handler answers: "ok" (200 or 201) or one of the errors of domain/attendance.go.
Answers == {"ok", "already_clocked_in", "not_clocked_in", "already_clocked_out",
            "already_on_break", "not_on_break", "failed"}

\* The local variables of a handler.
Requests == [op      : AllOps,
             emp     : Employees,
             at      : Times,         \* now, or clockOutAt for a clock-out
             date    : Dates,         \* today, or workDate
             offline : BOOLEAN,
             notes   : Maybe(Notes),  \* req.Notes
             row     : Maybe(Rows),   \* the record read from the database
             mins    : Int,           \* breakMinutes
             open    : Maybe(Times),  \* openBreak.BreakStartAt
             answer  : Maybe(Answers)]

\* NULL is none of the values it stands beside.
ASSUME NullAssumption == NULL \notin Int \cup Rows \cup BreakRows \cup Requests

Labels == {"idle", "ci_read", "ci_insert", "sb_read", "sb_insert", "sb_status",
           "eb_read", "eb_open", "eb_close", "eb_status", "co_read", "co_close",
           "co_sum", "co_write", "pv_read", "pv_sum", "pv_open", "ts_read",
           "ts_open", "reply"}

VARIABLES
  clock,    \* the server's clock
  records,  \* attendance_records: key -> row, NULL where there is none
  breaks,   \* attendance_breaks: id -> row, NULL where there is none
  pc,       \* handler -> the statement it is about to execute
  loc       \* handler -> its local variables, NULL when it serves no request

tables == <<records, breaks>>
vars == <<clock, records, breaks, pc, loc>>

Init ==
  /\ clock = 0
  /\ records = [k \in Keys |-> NULL]
  /\ breaks = [b \in BreakIds |-> NULL]
  /\ pc = [h \in Handlers |-> "idle"]
  /\ loc = [h \in Handlers |-> NULL]

-----------------------------------------------------------------------------
(* The statements the repositories send. *)

KeyOf(h) == <<loc[h].emp, loc[h].date>>

BreaksOf(k) == {b \in BreakIds : breaks[b] # NULL /\ breaks[b].rec = k}
OpenBreaks(k) == {b \in BreaksOf(k) : breaks[b].end = NULL}
ClosedBreaks(k) == {b \in BreaksOf(k) : breaks[b].end # NULL}

(***************************************************************************)
(* SUM(break_end_at - break_start_at) over the closed breaks of a record.  *)
(* It is counted tick by tick: a break that ends before it starts counts   *)
(* negatively, as the subtraction of timestamps does.                      *)
(***************************************************************************)
BreakTicks(k) ==
  LET forth == {p \in ClosedBreaks(k) \X Times :
                  breaks[p[1]].start <= p[2] /\ p[2] < breaks[p[1]].end}
      back  == {p \in ClosedBreaks(k) \X Times :
                  breaks[p[1]].end <= p[2] /\ p[2] < breaks[p[1]].start}
  IN  Cardinality(forth) - Cardinality(back)

SumBreakMinutes(k) == Minutes(BreakTicks(k))

\* The id of the next break; which one it is makes no difference.
FreshId == CHOOSE b \in BreakIds : breaks[b] = NULL

\* StartBreak: INSERT under a fresh id.
StartBreak(k, t) ==
  \E b \in BreakIds :
    /\ breaks[b] = NULL
    /\ b = FreshId
    /\ breaks' = [breaks EXCEPT ![b] = [rec |-> k, start |-> t, end |-> NULL]]

\* Seeded fault: the update forgets "break_end_at IS NULL".
EndEveryBreak(k, t) ==
  breaks' = [b \in BreakIds |-> IF b \in BreaksOf(k) THEN [breaks[b] EXCEPT !.end = t]
                                ELSE breaks[b]]

\* EndLatestBreak: UPDATE ... WHERE break_end_at IS NULL closes every open break.
EndLatestBreak(k, t) ==
  breaks' = [b \in BreakIds |-> IF b \in OpenBreaks(k) THEN [breaks[b] EXCEPT !.end = t]
                                ELSE breaks[b]]

\* Seeded fault: the whole row is saved, with the zero value of what was not read.
SaveStatus(k, status) ==
  records' = [records EXCEPT ![k].status = status, ![k].clockOutAt = NULL]

\* UpdateStatus writes one column, whatever the row holds by now.
UpdateStatus(k, status) == records' = [records EXCEPT ![k].status = status]

-----------------------------------------------------------------------------
(* How a handler moves. *)

Goto(h, label) == pc' = [pc EXCEPT ![h] = label] /\ UNCHANGED loc

GotoWith(h, label, request) ==
  /\ pc' = [pc EXCEPT ![h] = label]
  /\ loc' = [loc EXCEPT ![h] = request]

\* An employee's app may send a request.
Busy == {g \in Handlers : pc[g] # "idle"}
MaySend(e) == SerialClients => \A g \in Busy : loc[g].emp # e

Request(op, e, at, date) ==
  [op |-> op, emp |-> e, at |-> at, date |-> date, offline |-> FALSE, notes |-> NULL,
   row |-> NULL, mins |-> 0, open |-> NULL, answer |-> NULL]

\* The answer of a change that was made.
Done(h) == GotoWith(h, "reply", [loc[h] EXCEPT !.answer = "ok", !.row = NULL, !.mins = 0])

\* An error answer carries nothing but the error.
Refuse(h, error) ==
  GotoWith(h, "reply", [Request(loc[h].op, loc[h].emp, 0, DateOf(0, ServerZone))
                          EXCEPT !.answer = error])

Receive(h, request, label) ==
  /\ pc[h] = "idle"
  /\ request.op \in Ops
  /\ MaySend(request.emp)
  /\ GotoWith(h, label, request)
  /\ UNCHANGED <<clock, tables>>

Now(op, e) == Request(op, e, clock, DateOf(clock, ServerZone))

\* A handler at "label" that executes a statement leaving the clock alone.
At(h, label) == pc[h] = label /\ UNCHANGED clock

-----------------------------------------------------------------------------
(* ClockIn *)

ReceiveClockIn(h) ==
  \E e \in Employees, n \in Maybe(Notes) :
    Receive(h, [Now("clock_in", e) EXCEPT !.notes = n], "ci_read")

\* GetTodayRecord
ClockInRead(h) ==
  /\ At(h, "ci_read")
  /\ \/ /\ records[KeyOf(h)] = NULL
        /\ Goto(h, "ci_insert")
     \/ /\ records[KeyOf(h)] # NULL
        /\ Refuse(h, "already_clocked_in")
  /\ UNCHANGED tables

(***************************************************************************)
(* parseHM keeps the hour and the minute and drops the seconds.  A time it *)
(* cannot parse, as the 24:00:00 that the column admits, counts as 00:00.  *)
(***************************************************************************)
ParseHM(s) == IF s < DayLength THEN s - (s % MinuteLength) ELSE 0

\* The record a clock-in inserts; the schedule's end is on the day of the clock-in.
NewRecord(h, schedule) ==
  [status     |-> "clocked_in",
   clockInAt  |-> loc[h].at,
   clockOutAt |-> NULL,
   schedOut   |-> IF schedule = NULL THEN NULL ELSE loc[h].date * DayLength + ParseHM(schedule),
   working    |-> NULL,
   overtime   |-> NULL,
   offline    |-> FALSE,
   notes      |-> loc[h].notes]

(***************************************************************************)
(* GetByDayOfWeek and CreateClockIn: no operation of the program writes a  *)
(* schedule, so that the one read before the insertion is the one there    *)
(* is.  The unique constraint refuses a second row for the day.            *)
(***************************************************************************)
ClockInInsert(h) ==
  /\ At(h, "ci_insert")
  /\ \/ /\ records[KeyOf(h)] = NULL
        /\ \E s \in Schedules : records' = [records EXCEPT ![KeyOf(h)] = NewRecord(h, s)]
        /\ Done(h)
     \/ /\ records[KeyOf(h)] # NULL
        /\ Refuse(h, "failed")
        /\ UNCHANGED records
  /\ UNCHANGED breaks

-----------------------------------------------------------------------------
(* ToggleBreak, action "start" *)

\* The bound BreakIds: a start is sent only while every one under way finds an id.
BreakRoom == Cardinality({b \in BreakIds : breaks[b] = NULL})
               > Cardinality({g \in Handlers : pc[g] \in {"sb_read", "sb_insert"}})

ReceiveStartBreak(h) ==
  /\ BreakRoom
  /\ \E e \in Employees : Receive(h, Now("start_break", e), "sb_read")

\* Seeded fault: a start is accepted during a break.
StartBreakReadUnguarded(h) ==
  /\ At(h, "sb_read")
  /\ records[KeyOf(h)] # NULL
  /\ records[KeyOf(h)].status # "clocked_out"
  /\ Goto(h, "sb_insert")
  /\ UNCHANGED tables

StartBreakRead(h) ==
  /\ At(h, "sb_read")
  /\ LET row == records[KeyOf(h)] IN
       \/ row = NULL /\ Refuse(h, "not_clocked_in")
       \/ row # NULL /\ row.status = "clocked_out" /\ Refuse(h, "already_clocked_out")
       \/ row # NULL /\ row.status = "on_break" /\ Refuse(h, "already_on_break")
       \/ row # NULL /\ row.status = "clocked_in" /\ Goto(h, "sb_insert")
  /\ UNCHANGED tables

StartBreakInsert(h) ==
  /\ At(h, "sb_insert")
  /\ StartBreak(KeyOf(h), loc[h].at)
  /\ Goto(h, "sb_status")
  /\ UNCHANGED records

StartBreakStatus(h) ==
  /\ At(h, "sb_status")
  /\ UpdateStatus(KeyOf(h), "on_break")
  /\ Done(h)
  /\ UNCHANGED breaks

-----------------------------------------------------------------------------
(* ToggleBreak, action "end" *)

ReceiveEndBreak(h) ==
  \E e \in Employees : Receive(h, Now("end_break", e), "eb_read")

\* The status is compared with "clocked_out" only: an open break decides the rest.
EndBreakRead(h) ==
  /\ At(h, "eb_read")
  /\ LET row == records[KeyOf(h)] IN
       \/ row = NULL /\ Refuse(h, "not_clocked_in")
       \/ row # NULL /\ row.status = "clocked_out" /\ Refuse(h, "already_clocked_out")
       \/ row # NULL /\ row.status # "clocked_out" /\ Goto(h, "eb_open")
  /\ UNCHANGED tables

EndBreakOpen(h) ==
  /\ At(h, "eb_open")
  /\ \/ OpenBreaks(KeyOf(h)) = {} /\ Refuse(h, "not_on_break")
     \/ OpenBreaks(KeyOf(h)) # {} /\ Goto(h, "eb_close")
  /\ UNCHANGED tables

\* Seeded fault: the break is closed and the status forgotten.
EndBreakCloseOnly(h) ==
  /\ At(h, "eb_close")
  /\ EndLatestBreak(KeyOf(h), loc[h].at)
  /\ Done(h)
  /\ UNCHANGED records

EndBreakClose(h) ==
  /\ At(h, "eb_close")
  /\ EndLatestBreak(KeyOf(h), loc[h].at)
  /\ Goto(h, "eb_status")
  /\ UNCHANGED records

EndBreakStatus(h) ==
  /\ At(h, "eb_status")
  /\ UpdateStatus(KeyOf(h), "clocked_in")
  /\ Done(h)
  /\ UNCHANGED breaks

-----------------------------------------------------------------------------
(* ClockOut *)

\* Seeded fault: a client timestamp in the future is let through.
NotTooOld(t, now) == now - t <= MaxOfflineDuration

\* t.After(now) and now.Sub(t) > MaxOfflineDuration are refused.
ValidClientTimestamp(t, now) == t <= now /\ now - t <= MaxOfflineDuration

ReceiveClockOut(h) ==
  \E e \in Employees, n \in Maybe(Notes) :
    Receive(h, [Now("clock_out", e) EXCEPT !.notes = n], "co_read")

\* Seeded fault: the work date of an offline submission is that of its arrival.
WorkDateOfArrival(t, zone, now) == DateOf(now, ServerZone)

WorkDate(t, zone, now) == DateOf(t, zone)

(***************************************************************************)
(* An offline submission carries the instant at which the employee left    *)
(* and is looked up under that instant's date, in the zone the timestamp   *)
(* is written in.  One that is refused leaves no trace.                    *)
(***************************************************************************)
ReceiveOfflineClockOut(h) ==
  \E e \in Employees, n \in Maybe(Notes), t \in Times, z \in ClientZones :
    /\ ValidClientTimestamp(t, clock)
    /\ Receive(h, [Request("clock_out_offline", e, t, WorkDate(t, z, clock))
                     EXCEPT !.offline = TRUE, !.notes = n], "co_read")

\* Seeded fault: a second clock-out of the day is accepted.
ClockOutReadTwice(h) ==
  /\ At(h, "co_read")
  /\ records[KeyOf(h)] # NULL
  /\ GotoWith(h, "co_sum", [loc[h] EXCEPT !.row = records[KeyOf(h)]])
  /\ UNCHANGED tables

\* Seeded fault: the open break is not ended.
ClockOutReadNoClose(h) ==
  /\ At(h, "co_read")
  /\ records[KeyOf(h)] # NULL
  /\ records[KeyOf(h)].status # "clocked_out"
  /\ GotoWith(h, "co_sum", [loc[h] EXCEPT !.row = records[KeyOf(h)]])
  /\ UNCHANGED tables

ClockOutRead(h) ==
  /\ At(h, "co_read")
  /\ LET row == records[KeyOf(h)] IN
       \/ row = NULL /\ Refuse(h, "not_clocked_in")
       \/ row # NULL /\ row.status = "clocked_out" /\ Refuse(h, "already_clocked_out")
       \/ /\ row # NULL /\ row.status = "on_break"
          /\ GotoWith(h, "co_close", [loc[h] EXCEPT !.row = row])
       \/ /\ row # NULL /\ row.status = "clocked_in"
          /\ GotoWith(h, "co_sum", [loc[h] EXCEPT !.row = row])
  /\ UNCHANGED tables

ClockOutClose(h) ==
  /\ At(h, "co_close")
  /\ EndLatestBreak(KeyOf(h), loc[h].at)
  /\ Goto(h, "co_sum")
  /\ UNCHANGED records

ClockOutSum(h) ==
  /\ At(h, "co_sum")
  /\ GotoWith(h, "co_write", [loc[h] EXCEPT !.mins = SumBreakMinutes(KeyOf(h))])
  /\ UNCHANGED tables

\* req.Notes if sent, else the notes of the record read at the start.
NotesToWrite(h) == IF loc[h].notes # NULL THEN loc[h].notes ELSE loc[h].row.notes

\* Seeded fault: the notes of the request are written even when there are none.
ClockedOutNotes(row, h) ==
  [row EXCEPT !.status     = "clocked_out",
              !.clockOutAt = loc[h].at,
              !.working    = WorkedMinutes(loc[h].row.clockInAt, loc[h].at, loc[h].mins),
              !.overtime   = 0,
              !.offline    = loc[h].offline,
              !.notes      = loc[h].notes]

\* Seeded fault: the overtime is not computed.
ClockedOutPunctually(row, h) ==
  [row EXCEPT !.status     = "clocked_out",
              !.clockOutAt = loc[h].at,
              !.working    = WorkedMinutes(loc[h].row.clockInAt, loc[h].at, loc[h].mins),
              !.overtime   = 0,
              !.offline    = loc[h].offline,
              !.notes      = IF NotesToWrite(h) # NULL THEN NotesToWrite(h) ELSE @]

\* Seeded fault: the clock is read again when the row is written.
ClockedOutNow(row, h) ==
  [row EXCEPT !.status     = "clocked_out",
              !.clockOutAt = clock,
              !.working    = WorkedMinutes(loc[h].row.clockInAt, clock, loc[h].mins),
              !.overtime   = 0,
              !.offline    = loc[h].offline,
              !.notes      = NotesToWrite(h)]

(***************************************************************************)
(* UpdateClockOut writes the named columns, whatever the row holds by now; *)
(* the notes only when there are some.                                     *)
(***************************************************************************)
ClockedOut(row, h) ==
  [row EXCEPT !.status     = "clocked_out",
              !.clockOutAt = loc[h].at,
              !.working    = WorkedMinutes(loc[h].row.clockInAt, loc[h].at, loc[h].mins),
              !.overtime   = IF loc[h].row.schedOut = NULL THEN 0
                             ELSE MinutesPast(loc[h].at, loc[h].row.schedOut),
              !.offline    = loc[h].offline,
              !.notes      = IF NotesToWrite(h) # NULL THEN NotesToWrite(h) ELSE @]

ClockOutWrite(h) ==
  /\ At(h, "co_write")
  /\ records' = [records EXCEPT ![KeyOf(h)] = ClockedOut(@, h)]
  /\ Done(h)
  /\ UNCHANGED breaks

-----------------------------------------------------------------------------
(* GetClockOutPreview *)

ReceivePreview(h) ==
  \E e \in Employees : Receive(h, Now("preview", e), "pv_read")

PreviewRead(h) ==
  /\ At(h, "pv_read")
  /\ LET row == records[KeyOf(h)] IN
       \/ row = NULL /\ Refuse(h, "not_clocked_in")
       \/ row # NULL /\ row.status = "clocked_out" /\ Refuse(h, "already_clocked_out")
       \/ /\ row # NULL /\ row.status # "clocked_out"
          /\ GotoWith(h, "pv_sum", [loc[h] EXCEPT !.row = row])
  /\ UNCHANGED tables

PreviewSum(h) ==
  /\ At(h, "pv_sum")
  /\ LET summed == [loc[h] EXCEPT !.mins = SumBreakMinutes(KeyOf(h))] IN
       \/ /\ loc[h].row.status = "on_break"
          /\ GotoWith(h, "pv_open", summed)
       \/ /\ loc[h].row.status # "on_break"
          /\ GotoWith(h, "reply", [summed EXCEPT !.answer = "ok"])
  /\ UNCHANGED tables

\* Seeded fault: the open break is left out of the preview.
PreviewOpenIgnored(h) ==
  /\ At(h, "pv_open")
  /\ GotoWith(h, "reply", [loc[h] EXCEPT !.answer = "ok"])
  /\ UNCHANGED tables

\* The open break counts up to now, in minutes truncated on their own.
PreviewOpen(h) ==
  /\ At(h, "pv_open")
  /\ \/ /\ OpenBreaks(KeyOf(h)) = {}
        /\ GotoWith(h, "reply", [loc[h] EXCEPT !.answer = "ok"])
     \/ \E b \in OpenBreaks(KeyOf(h)) :
          GotoWith(h, "reply",
                   [loc[h] EXCEPT !.answer = "ok",
                                  !.mins = @ + Minutes(loc[h].at - breaks[b].start)])
  /\ UNCHANGED tables

\* The working minutes the preview shows.
PreviewMinutes(h) == WorkedMinutes(loc[h].row.clockInAt, loc[h].at, loc[h].mins)

\* The overtime the preview shows.
PreviewOvertime(h) ==
  IF loc[h].row.schedOut = NULL THEN 0 ELSE MinutesPast(loc[h].at, loc[h].row.schedOut)

-----------------------------------------------------------------------------
(* GetTodayStatus *)

ReceiveToday(h) ==
  \E e \in Employees : Receive(h, Now("today", e), "ts_read")

TodayRead(h) ==
  /\ At(h, "ts_read")
  /\ LET row == records[KeyOf(h)]
         read == [loc[h] EXCEPT !.row = row] IN
       \/ row = NULL /\ GotoWith(h, "reply", [read EXCEPT !.answer = "ok"])
       \/ row # NULL /\ row.status = "on_break" /\ GotoWith(h, "ts_open", read)
       \/ /\ row # NULL /\ row.status # "on_break"
          /\ GotoWith(h, "reply", [read EXCEPT !.answer = "ok"])
  /\ UNCHANGED tables

TodayOpen(h) ==
  /\ At(h, "ts_open")
  /\ \/ /\ OpenBreaks(KeyOf(h)) = {}
        /\ GotoWith(h, "reply", [loc[h] EXCEPT !.answer = "ok"])
     \/ \E b \in OpenBreaks(KeyOf(h)) :
          GotoWith(h, "reply", [loc[h] EXCEPT !.answer = "ok", !.open = breaks[b].start])
  /\ UNCHANGED tables

-----------------------------------------------------------------------------
(* The answer reaches the client, or is lost: the service cannot tell. *)
Reply(h) ==
  /\ At(h, "reply")
  /\ GotoWith(h, "idle", NULL)
  /\ UNCHANGED tables

(***************************************************************************)
(* The next statement does not happen: the database refuses it, the client *)
(* hangs up and the request's context is cancelled, or the process dies    *)
(* (every handler then takes this step).  Nothing is rolled back, and the  *)
(* client learns nothing it could rely on.                                 *)
(***************************************************************************)
Abort(h) ==
  /\ Faults
  /\ pc[h] \notin {"idle", "reply"}
  /\ GotoWith(h, "idle", NULL)
  /\ UNCHANGED <<clock, tables>>

Tick ==
  /\ clock < MaxTime
  /\ clock' = clock + 1
  /\ UNCHANGED <<tables, pc, loc>>

ClockInStep(h) == ReceiveClockIn(h) \/ ClockInRead(h) \/ ClockInInsert(h)

BreakStep(h) ==
  \/ ReceiveStartBreak(h) \/ StartBreakRead(h) \/ StartBreakInsert(h) \/ StartBreakStatus(h)
  \/ ReceiveEndBreak(h) \/ EndBreakRead(h) \/ EndBreakOpen(h)
  \/ EndBreakClose(h) \/ EndBreakStatus(h)

ClockOutStep(h) ==
  \/ ReceiveClockOut(h) \/ ReceiveOfflineClockOut(h)
  \/ ClockOutRead(h) \/ ClockOutClose(h) \/ ClockOutSum(h) \/ ClockOutWrite(h)

QueryStep(h) ==
  \/ ReceivePreview(h) \/ PreviewRead(h) \/ PreviewSum(h) \/ PreviewOpen(h)
  \/ ReceiveToday(h) \/ TodayRead(h) \/ TodayOpen(h)

Next ==
  \/ Tick
  \/ \E h \in Handlers :
       ClockInStep(h) \/ BreakStep(h) \/ ClockOutStep(h) \/ QueryStep(h)
         \/ Reply(h) \/ Abort(h)

Spec == Init /\ [][Next]_vars
=============================================================================
