------------------------------ MODULE DayProofs ------------------------------
(***************************************************************************)
(* Proofs about the times of a day, when each employee's app waits for its *)
(* answers and no statement fails: breaks fit the shift; the minutes of    *)
(* break are the lengths of the breaks added up, hence the preview is      *)
(* within a minute of what a clock-out would store; and the service does   *)
(* with its tables what AttendanceDay promises of a day.                   *)
(***************************************************************************)
EXTENDS SerialProofs

-----------------------------------------------------------------------------
(* The inductive invariant about the order of timestamps. *)

\* Nothing on day k happened after instant t.
AllBy(k, t) ==
  records[k] # NULL =>
    /\ records[k].clockInAt <= t
    /\ \A b \in BreaksOf(k) :
         breaks[b].start <= t /\ (breaks[b].end # NULL => breaks[b].end <= t)

\* Break a is over when break b starts.
Before(a, b) == breaks[a].end # NULL /\ breaks[a].end <= breaks[b].start

\* The breaks of day k follow its clock-in, and each other, in time.
FitDay(k) ==
  /\ \A b \in BreaksOf(k) : records[k].clockInAt <= breaks[b].start
  /\ \A b \in ClosedBreaks(k) : breaks[b].start <= breaks[b].end
  /\ \A a, b \in BreaksOf(k) : a = b \/ Before(a, b) \/ Before(b, a)
  /\ records[k].clockOutAt # NULL =>
       \A b \in ClosedBreaks(k) : breaks[b].end <= records[k].clockOutAt

\* Only a day that has been closed late may be out of order.
Fits(k) ==
  records[k] # NULL =>
    /\ records[k].status # "clocked_out" => ~ records[k].offline
    /\ ~ records[k].offline => FitDay(k)

\* Handler h is closing its day at an instant the client supplied.
LateAt(h) == pc[h] \in {"co_sum", "co_write"} /\ loc[h].op = "clock_out_offline"

\* A handler with the locals r works at an instant no earlier than all it finds.
OnTime(p, r) ==
  /\ p # "reply" => (r.offline <=> r.op = "clock_out_offline")
  /\ r.op # "clock_out_offline" /\ (p # "reply" \/ r.answer = "ok") =>
       AllBy(<<r.emp, r.date>>, r.at)

FInv ==
  /\ \A k \in Keys : Fits(k) \/ \E h \in Handlers : LateAt(h) /\ KeyOf(h) = k
  /\ \A h \in Handlers : pc[h] # "idle" => OnTime(pc[h], loc[h])

-----------------------------------------------------------------------------
(* What a step of one handler leaves alone. *)

(* The order of a day's times depends on that day alone. *)
LEMMA SameDayFits ==
  ASSUME NEW j, SameDay(j)
  PROVE  /\ Fits(j) => Fits(j)'
         /\ \A t : AllBy(j, t) => AllBy(j, t)'
  <1>1. /\ OpenBreaks(j)' = OpenBreaks(j) /\ BreaksOf(j)' = BreaksOf(j)
        /\ ClosedBreaks(j)' = ClosedBreaks(j) /\ records'[j] = records[j]
    BY SameBreaks DEF SameDay
  <1>2. \A b \in BreaksOf(j) : breaks'[b] = breaks[b]
    BY DEF SameDay
  <1>3. \A b \in ClosedBreaks(j) : breaks'[b] = breaks[b]
    BY <1>2 DEF ClosedBreaks
  <1>4. FitDay(j) => FitDay(j)'
    BY <1>1, <1>2, <1>3 DEF FitDay, Before
  <1>5. \A t : AllBy(j, t) => AllBy(j, t)'
    BY <1>1, <1>2 DEF AllBy
  <1> QED
    BY <1>1, <1>4, <1>5 DEF Fits

LEMMA SameTimes ==
  ASSUME NEW p, NEW r, OnTime(p, r), SameDay(<<r.emp, r.date>>)
  PROVE  OnTime(p, r)'
  <1>1. \A t : AllBy(<<r.emp, r.date>>, t) => AllBy(<<r.emp, r.date>>, t)'
    BY SameDayFits
  <1> QED
    BY <1>1 DEF OnTime

(* The day of a serving handler is in order, unless the handler itself closes it late. *)
LEMMA OwnShift ==
  ASSUME IInv, SInv, FInv, NEW h \in Handlers, pc[h] # "idle"
  PROVE  /\ OnTime(pc[h], loc[h])
         /\ ~ LateAt(h) => Fits(KeyOf(h))
  <1>1. KeyOf(h) \in Keys
    BY ServingFacts
  <1>2. ASSUME NEW g \in Handlers, LateAt(g), KeyOf(g) = KeyOf(h)
        PROVE  g = h
    BY <1>2 DEF SInv, OneEach, LateAt, KeyOf
  <1> QED
    BY <1>1, <1>2 DEF FInv

(***************************************************************************)
(* A step of handler h keeps the order of times if it touches no day but   *)
(* its own and keeps the order there.                                      *)
(***************************************************************************)
LEMMA TurnFits ==
  ASSUME IInv, SInv, FInv, NEW h \in Handlers, pc[h] # "idle", NEW k, k = KeyOf(h),
         NEW p, NEW r, GotoWith(h, p, r),
         \A j \in Keys \ {k} : SameDay(j),
         Fits(k)' \/ (LateAt(h)' /\ KeyOf(h)' = k),
         p # "idle" => OnTime(p, r)'
  PROVE  FInv'
  <1>1. /\ pc'[h] = p /\ loc'[h] = r
        /\ \A g \in Handlers \ {h} : pc'[g] = pc[g] /\ loc'[g] = loc[g]
    BY DEF IInv, LocalsOK, GotoWith
  <1>2. ASSUME NEW g \in Handlers \ {h}, pc[g] # "idle"
        PROVE  <<loc[g].emp, loc[g].date>> \in Keys \ {k}
    <2>1. loc[g].emp # loc[h].emp
      BY <1>2 DEF SInv, OneEach
    <2> QED
      BY <1>2, <2>1, ServingFacts DEF KeyOf
  <1>3. ASSUME NEW j \in Keys
        PROVE  Fits(j)' \/ \E g \in Handlers : LateAt(g)' /\ KeyOf(g)' = j
    <2>1. CASE j = k
      BY <2>1
    <2>2. CASE j # k
      <3>1. CASE Fits(j)
        BY <2>2, <3>1, SameDayFits
      <3>2. ASSUME NEW g \in Handlers, LateAt(g), KeyOf(g) = j
            PROVE  LateAt(g)' /\ KeyOf(g)' = j
        BY <1>1, <2>2, <3>2 DEF LateAt, KeyOf
      <3> QED
        BY <3>1, <3>2 DEF FInv
    <2> QED
      BY <2>1, <2>2
  <1>4. ASSUME NEW g \in Handlers, pc'[g] # "idle"
        PROVE  OnTime(pc[g], loc[g])'
    <2>1. CASE g = h
      BY <1>1, <1>4, <2>1
    <2>2. CASE g # h
      <3>1. PICK q, s : q = pc[g] /\ s = loc[g]
        OBVIOUS
      <3>2. OnTime(q, s) /\ SameDay(<<s.emp, s.date>>)
        BY <1>1, <1>2, <1>4, <2>2, <3>1 DEF FInv
      <3>3. OnTime(q, s)'
        BY <3>2, SameTimes
      <3> QED
        BY <1>1, <2>2, <3>1, <3>3
    <2> QED
      BY <2>1, <2>2
  <1> QED
    BY <1>3, <1>4 DEF FInv

(* A step that writes no table. *)
LEMMA QuietFits ==
  ASSUME IInv, SInv, FInv, NEW h \in Handlers, pc[h] # "idle", NEW p, NEW r,
         GotoWith(h, p, r), p # "idle" => OnTime(p, r),
         LateAt(h) => p = "co_write" /\ r.op = loc[h].op /\ r.emp = loc[h].emp
                      /\ r.date = loc[h].date,
         UNCHANGED <<records, breaks>>
  PROVE  FInv'
  <1>1. PICK k : k = KeyOf(h)
    OBVIOUS
  <1>2. \A j : SameDay(j)
    BY DEF SameDay, BreaksOf
  <1>3. Fits(k)' \/ (LateAt(h)' /\ KeyOf(h)' = k)
    <2>1. CASE LateAt(h)
      BY <1>1, <2>1 DEF IInv, LocalsOK, GotoWith, LateAt, KeyOf
    <2>2. CASE ~ LateAt(h)
      BY <1>1, <1>2, <2>2, OwnShift, SameDayFits
    <2> QED
      BY <2>1, <2>2
  <1>4. OnTime(p, r) => OnTime(p, r)'
    BY <1>2, SameTimes
  <1> QED
    BY <1>1, <1>2, <1>3, <1>4, TurnFits

\* The locals s are those of the same request as r.
SameErrand(r, s) ==
  s.op = r.op /\ s.emp = r.emp /\ s.at = r.at /\ s.date = r.date /\ s.offline = r.offline

Reads(h) ==
  \/ ClockInRead(h) \/ StartBreakRead(h) \/ EndBreakRead(h) \/ EndBreakOpen(h)
  \/ ClockOutRead(h) \/ ClockOutSum(h)
  \/ PreviewRead(h) \/ PreviewSum(h) \/ PreviewOpen(h) \/ TodayRead(h) \/ TodayOpen(h)

(* A handler that reads goes on with the same request or refuses it. *)
LEMMA ReadShape ==
  ASSUME IInv, NEW h \in Handlers, Reads(h)
  PROVE  /\ UNCHANGED <<clock, records, breaks>> /\ pc[h] \notin {"idle", "reply"}
         /\ \/ \E error \in Answers \ {"ok"} : Refuse(h, error) /\ ~ LateAt(h)
            \/ \E p, r : /\ GotoWith(h, p, r) /\ p # "idle" /\ SameErrand(loc[h], r)
                         /\ LateAt(h) => p = "co_write"
  <1>1. UNCHANGED <<clock, records, breaks>> /\ pc[h] \notin {"idle", "reply"}
        /\ (LateAt(h) => ClockOutSum(h))
    BY DEF Reads, ClockInRead, StartBreakRead, EndBreakRead, EndBreakOpen, ClockOutRead,
           ClockOutSum, PreviewRead, PreviewSum, PreviewOpen, TodayRead, TodayOpen, At,
           tables, LateAt
  <1>2. loc[h] \in Requests
    BY <1>1, ServingFacts
  <1>3. \A p : p # "idle" /\ Goto(h, p) =>
          \E r : GotoWith(h, p, r) /\ SameErrand(loc[h], r)
    BY GotoKeepsLocals DEF IInv, SameErrand
  <1>4. CASE \/ ClockInRead(h) \/ StartBreakRead(h) \/ EndBreakRead(h) \/ EndBreakOpen(h)
    BY <1>1, <1>3, <1>4
       DEF ClockInRead, StartBreakRead, EndBreakRead, EndBreakOpen, Answers, At, LateAt
  <1>5. CASE ClockOutRead(h)
    <2>1. PICK r : r = [loc[h] EXCEPT !.row = records[KeyOf(h)]]
      OBVIOUS
    <2>2. SameErrand(loc[h], r)
      BY <1>2, <2>1, RowSet DEF SameErrand
    <2> QED
      BY <1>1, <1>5, <2>1, <2>2 DEF ClockOutRead, Answers, At, LateAt
  <1>6. CASE ClockOutSum(h)
    <2>1. PICK r : r = [loc[h] EXCEPT !.mins = SumBreakMinutes(KeyOf(h))]
      OBVIOUS
    <2>2. SameErrand(loc[h], r)
      BY <1>2, <2>1, MinsSet DEF SameErrand
    <2> QED
      BY <1>1, <1>6, <2>1, <2>2 DEF ClockOutSum
  <1>7. CASE PreviewRead(h)
    <2>1. PICK r : r = [loc[h] EXCEPT !.row = records[KeyOf(h)]]
      OBVIOUS
    <2>2. SameErrand(loc[h], r)
      BY <1>2, <2>1, RowSet DEF SameErrand
    <2> QED
      BY <1>1, <1>7, <2>1, <2>2 DEF PreviewRead, Answers, At, LateAt
  <1>8. CASE PreviewSum(h)
    <2>1. PICK r, s : /\ r = [loc[h] EXCEPT !.mins = SumBreakMinutes(KeyOf(h))]
                      /\ s = [loc[h] EXCEPT !.mins = SumBreakMinutes(KeyOf(h)), !.answer = "ok"]
      OBVIOUS
    <2>2. SameErrand(loc[h], r) /\ SameErrand(loc[h], s)
      BY <1>2, <2>1, MinsSet, ShownSet DEF SameErrand
    <2>3. GotoWith(h, "pv_open", r) \/ GotoWith(h, "reply", s)
      BY <1>8, <2>1 DEF PreviewSum
    <2> QED
      BY <1>1, <1>8, <2>2, <2>3 DEF PreviewSum, At, LateAt
  <1>9. CASE PreviewOpen(h)
    <2>1. PICK r : /\ GotoWith(h, "reply", r)
                   /\ \/ r = [loc[h] EXCEPT !.answer = "ok"]
                      \/ \E b \in OpenBreaks(KeyOf(h)) :
                           r = [loc[h] EXCEPT !.answer = "ok",
                                              !.mins = @ + Minutes(loc[h].at - breaks[b].start)]
      BY <1>9 DEF PreviewOpen
    <2>2. SameErrand(loc[h], r)
      BY <1>2, <2>1 DEF SameErrand, Requests
    <2> QED
      BY <1>1, <1>9, <2>1, <2>2 DEF PreviewOpen, At, LateAt
  <1>10. CASE TodayRead(h)
    <2>1. PICK r, s : /\ r = [loc[h] EXCEPT !.row = records[KeyOf(h)]]
                      /\ s = [loc[h] EXCEPT !.row = records[KeyOf(h)], !.answer = "ok"]
      OBVIOUS
    <2>2. SameErrand(loc[h], r) /\ SameErrand(loc[h], s)
      BY <1>2, <2>1, RowSet, ReadSet DEF SameErrand
    <2>3. GotoWith(h, "ts_open", r) \/ GotoWith(h, "reply", s)
      BY <1>10, <2>1 DEF TodayRead
    <2> QED
      BY <1>1, <1>10, <2>2, <2>3 DEF TodayRead, At, LateAt
  <1>11. CASE TodayOpen(h)
    <2>1. PICK r : /\ GotoWith(h, "reply", r)
                   /\ \/ r = [loc[h] EXCEPT !.answer = "ok"]
                      \/ \E b \in OpenBreaks(KeyOf(h)) :
                           r = [loc[h] EXCEPT !.answer = "ok", !.open = breaks[b].start]
      BY <1>11 DEF TodayOpen
    <2>2. SameErrand(loc[h], r)
      BY <1>2, <2>1 DEF SameErrand, Requests
    <2> QED
      BY <1>1, <1>11, <2>1, <2>2 DEF TodayOpen, At, LateAt
  <1> QED
    BY <1>4, <1>5, <1>6, <1>7, <1>8, <1>9, <1>10, <1>11 DEF Reads

LEMMA ReadFits ==
  ASSUME IInv, SInv, FInv, NEW h \in Handlers, Reads(h)
  PROVE  FInv'
  <1>1. UNCHANGED <<records, breaks>> /\ pc[h] \notin {"idle", "reply"}
    BY ReadShape
  <1>2. ASSUME NEW error \in Answers \ {"ok"}, Refuse(h, error), ~ LateAt(h)
        PROVE  FInv'
    <2>1. PICK r : r = [Request(loc[h].op, loc[h].emp, 0, DateOf(0, ServerZone))
                          EXCEPT !.answer = error]
      OBVIOUS
    <2>2. GotoWith(h, "reply", r) /\ OnTime("reply", r)
      BY <1>2, <2>1, RefuseSet DEF Refuse, OnTime
    <2> QED
      BY <1>1, <1>2, <2>2, QuietFits
  <1>3. ASSUME NEW p, NEW r, GotoWith(h, p, r), p # "idle", SameErrand(loc[h], r),
               LateAt(h) => p = "co_write"
        PROVE  FInv'
    <2>1. OnTime(p, r)
      BY <1>1, <1>3, OwnShift DEF OnTime, SameErrand
    <2> QED
      BY <1>1, <1>3, <2>1, QuietFits DEF SameErrand
  <1> QED
    BY <1>2, <1>3, ReadShape

-----------------------------------------------------------------------------
(* The actions that do more than read. *)

(* A request takes its instant from the clock, or from the client and says so. *)
LEMMA ReceiveFits ==
  ASSUME SerialClients, IInv, SInv, FInv, NEW h \in Handlers, NEW p, NEW r, Receive(h, r, p),
         r \in Requests, p # "reply",
         r.offline <=> r.op = "clock_out_offline",
         r.op # "clock_out_offline" => r.at = clock
  PROVE  FInv'
  <1>1. /\ pc[h] = "idle" /\ UNCHANGED <<records, breaks>>
        /\ pc'[h] = p /\ loc'[h] = r
        /\ \A g \in Handlers \ {h} : pc'[g] = pc[g] /\ loc'[g] = loc[g]
    BY DEF Receive, tables, IInv, LocalsOK, GotoWith
  <1>2. \A j : SameDay(j)
    BY <1>1 DEF SameDay, BreaksOf
  <1>3. PICK k : k = <<r.emp, r.date>>
    OBVIOUS
  <1>4. ASSUME k \in Keys
        PROVE  AllBy(k, clock)
    <2>1. records[k] # NULL => RowOK(k, records[k])
      BY <1>4 DEF IInv, RecordsOK
    <2>2. \A b \in BreaksOf(k) : BreakOK(breaks[b])
      BY DEF BreaksOf, IInv, BreaksOK
    <2> QED
      BY <2>1, <2>2 DEF AllBy, RowOK, BreakOK, Stamp
  <1>5. k \in Keys
    BY <1>3 DEF Requests, Keys
  <1>6. OnTime(p, r)
    BY <1>3, <1>4, <1>5 DEF OnTime
  <1>7. ASSUME NEW j \in Keys
        PROVE  Fits(j)' \/ \E g \in Handlers : LateAt(g)' /\ KeyOf(g)' = j
    <2>1. CASE Fits(j)
      BY <1>2, <2>1, SameDayFits
    <2>2. ASSUME NEW g \in Handlers, LateAt(g), KeyOf(g) = j
          PROVE  LateAt(g)' /\ KeyOf(g)' = j
      BY <1>1, <2>2 DEF LateAt, KeyOf
    <2> QED
      BY <2>1, <2>2 DEF FInv
  <1>8. ASSUME NEW g \in Handlers, pc'[g] # "idle"
        PROVE  OnTime(pc[g], loc[g])'
    <2>1. PICK q, s : q = pc'[g] /\ s = loc'[g]
      OBVIOUS
    <2>2. OnTime(q, s)
      BY <1>1, <1>6, <1>8, <2>1 DEF FInv
    <2>3. OnTime(q, s)'
      BY <1>2, <2>2, SameTimes
    <2> QED
      BY <2>1, <2>3
  <1> QED
    BY <1>7, <1>8 DEF FInv

LEMMA NowSet ==
  ASSUME NEW op, NEW e
  PROVE  LET r == Now(op, e) IN r.op = op /\ r.at = clock /\ ~ r.offline
  BY DEF Now, Request

LEMMA NowNotesSet ==
  ASSUME NEW op, NEW e, NEW n
  PROVE  LET r == [Now(op, e) EXCEPT !.notes = n] IN
           r.op = op /\ r.at = clock /\ ~ r.offline
  BY DEF Now, Request

Receives(h) ==
  \/ ReceiveClockIn(h) \/ ReceiveStartBreak(h) \/ ReceiveEndBreak(h) \/ ReceiveClockOut(h)
  \/ ReceiveOfflineClockOut(h) \/ ReceivePreview(h) \/ ReceiveToday(h)

LEMMA ReceivesFit ==
  ASSUME SerialClients, IInv, SInv, FInv, NEW h \in Handlers, Receives(h)
  PROVE  FInv'
  <1>1. ASSUME NEW e \in Employees, NEW n \in Maybe(Notes),
               NEW op \in {"clock_in", "clock_out"}, NEW p \in {"ci_read", "co_read"},
               Receive(h, [Now(op, e) EXCEPT !.notes = n], p)
        PROVE  FInv'
    <2>1. PICK r : r = [Now(op, e) EXCEPT !.notes = n]
      OBVIOUS
    <2>2. r \in Requests
      BY <2>1, NowIsGood, SetNotes DEF AllOps
    <2>3. r.op = op /\ r.at = clock /\ ~ r.offline
      BY <2>1, NowNotesSet
    <2>4. Receive(h, r, p)
      BY <1>1, <2>1
    <2> QED
      BY <2>2, <2>3, <2>4, ReceiveFits
  <1>2. ASSUME NEW e \in Employees, NEW op \in {"start_break", "end_break", "preview", "today"},
               NEW p \in {"sb_read", "eb_read", "pv_read", "ts_read"}, Receive(h, Now(op, e), p)
        PROVE  FInv'
    <2>1. PICK r : r = Now(op, e)
      OBVIOUS
    <2>2. r \in Requests
      BY <2>1, NowIsGood DEF AllOps
    <2>3. r.op = op /\ r.at = clock /\ ~ r.offline
      BY <2>1, NowSet
    <2> QED
      BY <1>2, <2>1, <2>2, <2>3, ReceiveFits
  <1>3. CASE ReceiveOfflineClockOut(h)
    <2>1. PICK e \in Employees, n \in Maybe(Notes), t \in Times, z \in ClientZones :
            /\ ValidClientTimestamp(t, clock)
            /\ Receive(h, [Request("clock_out_offline", e, t, WorkDate(t, z, clock))
                             EXCEPT !.offline = TRUE, !.notes = n], "co_read")
      BY <1>3 DEF ReceiveOfflineClockOut
    <2>2. PICK a, b, r : /\ a = Request("clock_out_offline", e, t, WorkDate(t, z, clock))
                         /\ b = [a EXCEPT !.offline = TRUE]
                         /\ r = [b EXCEPT !.notes = n]
      OBVIOUS
    <2>3. a \in Requests
      BY <2>1, <2>2, RequestIsGood DEF AllOps, ValidClientTimestamp, IInv, WorkDate
    <2>4. b \in Requests
      BY <2>2, <2>3, SetOffline
    <2>5. r \in Requests
      BY <2>2, <2>4, SetNotes
    <2>6. r.op = "clock_out_offline" /\ r.offline
      BY <2>2 DEF Request
    <2>7. Receive(h, r, "co_read")
      BY <2>1, <2>2
    <2> QED
      BY <2>5, <2>6, <2>7, ReceiveFits
  <1>4. CASE ReceiveClockIn(h) \/ ReceiveClockOut(h)
    BY <1>1, <1>4 DEF ReceiveClockIn, ReceiveClockOut
  <1>5. CASE \/ ReceiveStartBreak(h) \/ ReceiveEndBreak(h) \/ ReceivePreview(h) \/ ReceiveToday(h)
    BY <1>2, <1>5 DEF ReceiveStartBreak, ReceiveEndBreak, ReceivePreview, ReceiveToday
  <1> QED
    BY <1>3, <1>4, <1>5 DEF Receives

(* The times of a day after its row has been written and its breaks left alone. *)
LEMMA RowFits ==
  ASSUME IInv, NEW k \in Keys, NEW row, records' = [records EXCEPT ![k] = row],
         UNCHANGED breaks, records[k] # NULL, row # NULL,
         row.clockInAt = records[k].clockInAt
  PROVE  /\ \A t : AllBy(k, t) => AllBy(k, t)'
         /\ row.clockOutAt = records[k].clockOutAt /\ FitDay(k) => FitDay(k)'
         /\ \A t : row.clockOutAt = t /\ AllBy(k, t) /\ FitDay(k) => FitDay(k)'
  <1>1. records'[k] = row /\ BreaksOf(k)' = BreaksOf(k)
    BY RowWritten
  <1>2. ClosedBreaks(k)' = ClosedBreaks(k) /\ ClosedBreaks(k) \subseteq BreaksOf(k)
    BY <1>1 DEF ClosedBreaks
  <1>3. \A t : AllBy(k, t) => AllBy(k, t)'
    BY <1>1 DEF AllBy
  <1>4. row.clockOutAt = records[k].clockOutAt /\ FitDay(k) => FitDay(k)'
    BY <1>1, <1>2 DEF FitDay, Before
  <1>5. \A t : row.clockOutAt = t /\ AllBy(k, t) /\ FitDay(k) => FitDay(k)'
    <2> SUFFICES ASSUME NEW t, row.clockOutAt = t, AllBy(k, t), FitDay(k)
                 PROVE  FitDay(k)'
      OBVIOUS
    <2>1. \A b \in ClosedBreaks(k) : breaks[b].end <= t
      BY <1>2 DEF AllBy, ClosedBreaks
    <2> QED
      BY <1>1, <1>2, <2>1 DEF FitDay, Before
  <1> QED
    BY <1>3, <1>4, <1>5

LEMMA ClockInFits ==
  ASSUME IInv, SInv, FInv, NEW h \in Handlers, pc[h] = "ci_insert", records[KeyOf(h)] = NULL,
         NEW s \in Schedules, records' = [records EXCEPT ![KeyOf(h)] = NewRecord(h, s)],
         Done(h), UNCHANGED breaks
  PROVE  FInv'
  <1>1. PICK k, row, r : /\ k = KeyOf(h) /\ row = NewRecord(h, s)
                         /\ r = [loc[h] EXCEPT !.answer = "ok", !.row = NULL, !.mins = 0]
    OBVIOUS
  <1>2. /\ k \in Keys /\ k = <<loc[h].emp, loc[h].date>> /\ BreaksOf(k) = {}
        /\ loc[h] \in Requests /\ loc[h].at \in Int
    BY <1>1, OwnDay, ServingFacts DEF DayOK, KeyOf
  <1>3. /\ records'[k] = row /\ BreaksOf(k)' = {} /\ ClosedBreaks(k)' = {}
        /\ \A j \in Keys \ {k} : SameDay(j)
    <2>1. /\ records'[k] = row /\ BreaksOf(k)' = {}
          /\ \A j \in Keys \ {k} : SameDay(j)
      BY <1>1, <1>2, RowWritten
    <2> QED
      BY <2>1 DEF ClosedBreaks
  <1>4. row.clockInAt = loc[h].at /\ row.clockOutAt = NULL /\ ~ row.offline
    BY <1>1 DEF NewRecord
  <1>5. r.at = loc[h].at /\ <<r.emp, r.date>> = k /\ r.answer = "ok"
    BY <1>1, <1>2, DoneSet
  <1>6. Fits(k)'
    BY <1>3, <1>4 DEF Fits, FitDay
  <1>7. OnTime("reply", r)'
    BY <1>2, <1>3, <1>4, <1>5 DEF OnTime, AllBy
  <1>8. GotoWith(h, "reply", r)
    BY <1>1 DEF Done
  <1> QED
    BY <1>1, <1>3, <1>6, <1>7, <1>8, TurnFits

LEMMA StatusFits ==
  ASSUME IInv, SInv, FInv, NEW h \in Handlers, StartBreakStatus(h) \/ EndBreakStatus(h)
  PROVE  FInv'
  <1>1. PICK s \in Statuses :
          /\ pc[h] \in {"sb_status", "eb_status"}
          /\ UpdateStatus(KeyOf(h), s) /\ Done(h) /\ UNCHANGED breaks
    BY DEF StartBreakStatus, EndBreakStatus, At, Statuses
  <1>2. PICK k, row, r :
          /\ k = KeyOf(h) /\ row = [records[k] EXCEPT !.status = s]
          /\ r = [loc[h] EXCEPT !.answer = "ok", !.row = NULL, !.mins = 0]
    OBVIOUS
  <1>3. /\ k \in Keys /\ k = <<loc[h].emp, loc[h].date>> /\ loc[h] \in Requests
        /\ records[k] \in Rows /\ records[k] # NULL
        /\ OnTime(pc[h], loc[h]) /\ Fits(k) /\ records[k].status # "clocked_out"
    BY <1>1, <1>2, OwnDay, OwnShift, ServingFacts, FoundFacts
       DEF KeyOf, Found, RowOK, LateAt, Knows
  <1>4. /\ row # NULL /\ row.clockInAt = records[k].clockInAt
        /\ row.clockOutAt = records[k].clockOutAt /\ row.offline = records[k].offline
    BY <1>2, <1>3, StatusSet
  <1>5. records' = [records EXCEPT ![k] = row]
    BY <1>1, <1>2 DEF UpdateStatus
  <1>6. /\ \A t : AllBy(k, t) => AllBy(k, t)'
        /\ FitDay(k) => FitDay(k)'
        /\ records'[k] = row /\ \A j \in Keys \ {k} : SameDay(j)
    BY <1>1, <1>3, <1>4, <1>5, RowFits, RowWritten
  <1>7. Fits(k)'
    BY <1>3, <1>4, <1>6 DEF Fits
  <1>8. /\ r.op = loc[h].op /\ r.at = loc[h].at /\ <<r.emp, r.date>> = k
    BY <1>2, <1>3, DoneSet
  <1>9. OnTime("reply", r)'
    BY <1>1, <1>3, <1>6, <1>8 DEF OnTime
  <1>10. GotoWith(h, "reply", r)
    BY <1>1, <1>2 DEF Done
  <1> QED
    BY <1>1, <1>2, <1>6, <1>7, <1>9, <1>10, TurnFits

LEMMA StartBreakFits ==
  ASSUME IInv, SInv, FInv, NEW h \in Handlers, StartBreakInsert(h)
  PROVE  FInv'
  <1>1. PICK k, r : k = KeyOf(h) /\ r = loc[h]
    OBVIOUS
  <1>2. /\ pc[h] = "sb_insert" /\ UNCHANGED records
        /\ StartBreak(k, r.at) /\ GotoWith(h, "sb_status", r)
    BY <1>1, GotoKeepsLocals DEF StartBreakInsert, At, IInv
  <1>3. /\ k \in Keys /\ r.at \in Times /\ r.at \in Int /\ k = <<r.emp, r.date>>
        /\ Knows("sb_insert", r) /\ DayOK(k) /\ records[k] # NULL
        /\ OnTime("sb_insert", r) /\ Fits(k)
    BY <1>1, <1>2, OwnDay, OwnShift, ServingFacts, FoundFacts
       DEF Requests, KeyOf, Found, LateAt
  <1>4. /\ OpenBreaks(k) = {} /\ records[k].clockOutAt = NULL /\ AllBy(k, r.at)
        /\ ~ records[k].offline /\ FitDay(k)
        /\ \A c \in BreaksOf(k) : breaks[c].end # NULL
    BY <1>3 DEF Knows, OpsAt, DayOK, OnTime, Fits, OpenBreaks
  <1>5. PICK b \in BreakIds : /\ BreaksOf(k)' = BreaksOf(k) \cup {b} /\ b \notin BreaksOf(k)
                              /\ OpenBreaks(k)' = {b} /\ ClosedBreaks(k)' = ClosedBreaks(k)
                              /\ breaks'[b].start = r.at
                              /\ \A c \in BreaksOf(k) : breaks'[c] = breaks[c]
                              /\ \A j \in Keys \ {k} : SameDay(j)
    BY <1>2, <1>3, <1>4, BreakStarted
  <1>6. breaks'[b].end = NULL
    BY <1>5 DEF OpenBreaks
  <1>7. ClosedBreaks(k) \subseteq BreaksOf(k)
    BY DEF ClosedBreaks
  <1>8. FitDay(k)'
    BY <1>2, <1>3, <1>4, <1>5, <1>6, <1>7 DEF FitDay, Before, AllBy
  <1>9. Fits(k)'
    BY <1>2, <1>4, <1>8 DEF Fits
  <1>10. AllBy(k, r.at)'
    BY <1>2, <1>3, <1>4, <1>5, <1>6 DEF AllBy
  <1>11. OnTime("sb_status", r)'
    BY <1>3, <1>10 DEF OnTime
  <1> QED
    BY <1>1, <1>2, <1>5, <1>9, <1>11, TurnFits

(* The day of a handler that ends its open breaks at the instant it works at. *)
LEMMA EndFits ==
  ASSUME IInv, NEW k \in Keys, NEW t \in Times, EndLatestBreak(k, t), UNCHANGED records,
         AllBy(k, t), records[k] # NULL, records[k].clockOutAt = NULL, Fits(k)
  PROVE  Fits(k)' /\ AllBy(k, t)'
  <1>1. t \in Int /\ t # NULL
    BY NullAssumption DEF Times
  <1>2. /\ BreaksOf(k)' = BreaksOf(k) /\ OpenBreaks(k)' = {}
        /\ \A b \in OpenBreaks(k) : breaks'[b].end = t /\ breaks'[b].start = breaks[b].start
        /\ \A b \in ClosedBreaks(k) : breaks'[b] = breaks[b]
    BY BreaksEnded
  <1>3. ClosedBreaks(k)' = BreaksOf(k) /\ BreaksOf(k) = OpenBreaks(k) \cup ClosedBreaks(k)
    BY <1>2 DEF ClosedBreaks, OpenBreaks
  <1>4. /\ \A b \in OpenBreaks(k) : breaks[b].end = NULL /\ breaks[b].start <= t
        /\ \A b \in ClosedBreaks(k) : breaks[b].end # NULL
        /\ \A b \in BreaksOf(k) : breaks'[b].start = breaks[b].start
    BY <1>2, <1>3 DEF OpenBreaks, ClosedBreaks, AllBy
  <1>5. AllBy(k, t)'
    BY <1>1, <1>2, <1>3, <1>4 DEF AllBy
  <1>6. FitDay(k) => FitDay(k)'
    <2> HAVE FitDay(k)
    <2>1. \A b \in BreaksOf(k) : records[k].clockInAt <= breaks'[b].start
      BY <1>4 DEF FitDay
    <2>2. \A b \in BreaksOf(k) : breaks'[b].start <= breaks'[b].end
      BY <1>2, <1>3, <1>4 DEF FitDay
    <2>3. ASSUME NEW a \in BreaksOf(k), NEW b \in BreaksOf(k), Before(a, b)
          PROVE  Before(a, b)'
      <3>1. a \in ClosedBreaks(k)
        BY <2>3 DEF Before, ClosedBreaks
      <3> QED
        BY <1>2, <1>4, <2>3, <3>1 DEF Before
    <2> QED
      BY <1>2, <1>3, <2>1, <2>2, <2>3 DEF FitDay
  <1> QED
    BY <1>5, <1>6 DEF Fits

LEMMA EndBreakFits ==
  ASSUME IInv, SInv, FInv, NEW h \in Handlers, EndBreakClose(h)
  PROVE  FInv'
  <1>1. PICK k, r : k = KeyOf(h) /\ r = loc[h]
    OBVIOUS
  <1>2. /\ pc[h] = "eb_close" /\ UNCHANGED records
        /\ EndLatestBreak(k, r.at) /\ GotoWith(h, "eb_status", r)
    BY <1>1, GotoKeepsLocals DEF EndBreakClose, At, IInv
  <1>3. /\ k \in Keys /\ r.at \in Times /\ k = <<r.emp, r.date>>
        /\ Knows("eb_close", r) /\ DayOK(k) /\ records[k] # NULL
        /\ OnTime("eb_close", r) /\ Fits(k)
    BY <1>1, <1>2, OwnDay, OwnShift, ServingFacts, FoundFacts
       DEF Requests, KeyOf, Found, LateAt
  <1>4. r.op = "end_break" /\ records[k].clockOutAt = NULL /\ AllBy(k, r.at)
    BY <1>3 DEF Knows, OpsAt, DayOK, OnTime, Found
  <1>5. Fits(k)' /\ AllBy(k, r.at)' /\ \A j \in Keys \ {k} : SameDay(j)
    BY <1>2, <1>3, <1>4, EndFits, BreaksEnded
  <1>6. OnTime("eb_status", r)'
    BY <1>3, <1>4, <1>5 DEF OnTime
  <1> QED
    BY <1>1, <1>2, <1>5, <1>6, TurnFits

LEMMA ClockOutCloseFits ==
  ASSUME IInv, SInv, FInv, NEW h \in Handlers, ClockOutClose(h)
  PROVE  FInv'
  <1>1. PICK k, r : k = KeyOf(h) /\ r = loc[h]
    OBVIOUS
  <1>2. /\ pc[h] = "co_close" /\ UNCHANGED records
        /\ EndLatestBreak(k, r.at) /\ GotoWith(h, "co_sum", r)
    BY <1>1, GotoKeepsLocals DEF ClockOutClose, At, IInv
  <1>3. /\ k \in Keys /\ r.at \in Times /\ k = <<r.emp, r.date>>
        /\ Knows("co_close", r) /\ DayOK(k) /\ records[k] # NULL
        /\ OnTime("co_close", r) /\ Fits(k)
        /\ \A j \in Keys \ {k} : SameDay(j)
    BY <1>1, <1>2, OwnDay, OwnShift, ServingFacts, FoundFacts, BreaksEnded
       DEF Requests, KeyOf, Found, LateAt
  <1>4. records[k].clockOutAt = NULL
    BY <1>3 DEF Knows, DayOK, Found
  <1>5. CASE r.op = "clock_out_offline"
    <2>1. LateAt(h)' /\ KeyOf(h)' = k
      BY <1>1, <1>2, <1>5 DEF GotoWith, IInv, LocalsOK, LateAt, KeyOf
    <2>2. OnTime("co_sum", r)'
      BY <1>3, <1>5 DEF OnTime
    <2> QED
      BY <1>1, <1>2, <1>3, <2>1, <2>2, TurnFits
  <1>6. CASE r.op # "clock_out_offline"
    <2>1. Fits(k)' /\ AllBy(k, r.at)'
      BY <1>2, <1>3, <1>4, <1>6, EndFits DEF OnTime
    <2>2. OnTime("co_sum", r)'
      BY <1>3, <1>6, <2>1 DEF OnTime
    <2> QED
      BY <1>1, <1>2, <1>3, <2>1, <2>2, TurnFits
  <1> QED
    BY <1>5, <1>6

LEMMA ClockOutWriteFits ==
  ASSUME IInv, SInv, FInv, NEW h \in Handlers, ClockOutWrite(h)
  PROVE  FInv'
  <1>1. PICK k, old, row, r :
          /\ k = KeyOf(h) /\ old = records[k] /\ row = ClockedOut(old, h)
          /\ r = [loc[h] EXCEPT !.answer = "ok", !.row = NULL, !.mins = 0]
    OBVIOUS
  <1>2. /\ pc[h] = "co_write" /\ UNCHANGED breaks /\ GotoWith(h, "reply", r)
        /\ records' = [records EXCEPT ![k] = row]
    BY <1>1 DEF ClockOutWrite, At, Done
  <1>3. /\ k \in Keys /\ k = <<loc[h].emp, loc[h].date>> /\ loc[h] \in Requests
        /\ OnTime("co_write", loc[h]) /\ old # NULL /\ DayOK(k)
        /\ Knows("co_write", loc[h])
        /\ old \in Rows /\ row \in Rows /\ row # NULL
    BY <1>1, <1>2, OwnDay, OwnShift, ServingFacts, FoundFacts, ClockedOutIsRow, NullAssumption
       DEF KeyOf, Found, RowOK
  <1>4. /\ row.clockInAt = old.clockInAt /\ row.clockOutAt = loc[h].at
        /\ row.offline = loc[h].offline /\ row.status = "clocked_out"
    BY <1>1, <1>3, ClockedOutSet
  <1>5. /\ r.op = loc[h].op /\ r.at = loc[h].at /\ <<r.emp, r.date>> = k
    BY <1>1, <1>3, DoneSet
  <1>6. /\ records'[k] = row /\ \A j \in Keys \ {k} : SameDay(j)
        /\ \A t : AllBy(k, t) => AllBy(k, t)'
        /\ \A t : row.clockOutAt = t /\ AllBy(k, t) /\ FitDay(k) => FitDay(k)'
    BY <1>1, <1>2, <1>3, <1>4, RowWritten, RowFits
  <1>7. CASE loc[h].op = "clock_out_offline"
    <2>1. Fits(k)'
      BY <1>3, <1>4, <1>6, <1>7 DEF Fits, OnTime
    <2>2. OnTime("reply", r)'
      BY <1>5, <1>7 DEF OnTime
    <2> QED
      BY <1>1, <1>2, <1>6, <2>1, <2>2, TurnFits
  <1>8. CASE loc[h].op # "clock_out_offline"
    <2>1. AllBy(k, loc[h].at) /\ Fits(k)
      BY <1>1, <1>2, <1>3, <1>8, OwnShift DEF OnTime, LateAt
    <2>2. FitDay(k) => FitDay(k)'
      BY <1>4, <1>6, <2>1
    <2>3. ~ old.offline
      BY <1>1, <1>3, <2>1 DEF Fits, Knows, Found
    <2>4. Fits(k)'
      BY <1>1, <1>3, <1>4, <1>6, <2>1, <2>2, <2>3 DEF Fits
    <2>5. OnTime("reply", r)'
      BY <1>5, <1>6, <2>1 DEF OnTime
    <2> QED
      BY <1>1, <1>2, <1>6, <2>4, <2>5, TurnFits
  <1> QED
    BY <1>7, <1>8

LEMMA ShiftInit == Init => FInv
  BY DEF Init, FInv, Fits

LEMMA ShiftNext ==
  ASSUME SerialClients, ~ Faults, IInv, SInv, FInv, [Next]_vars
  PROVE  FInv'
  <1>1. CASE UNCHANGED <<records, breaks, pc, loc>>
    <2>1. \A j : SameDay(j)
      BY <1>1 DEF SameDay, BreaksOf
    <2>2. \A p, r : OnTime(p, r) => OnTime(p, r)'
      BY <2>1, SameTimes
    <2>3. \A h \in Handlers : pc[h] # "idle" => OnTime(pc[h], loc[h])'
      BY <1>1, <2>2 DEF FInv
    <2> QED
      BY <1>1, <2>1, <2>3, SameDayFits DEF FInv, LateAt, KeyOf
  <1>2. ASSUME NEW h \in Handlers, Reply(h)
        PROVE  FInv'
    <2>1. pc[h] = "reply" /\ GotoWith(h, "idle", NULL) /\ UNCHANGED <<records, breaks>>
      BY <1>2 DEF Reply, At, tables
    <2> QED
      BY <2>1, QuietFits DEF LateAt
  <1>3. ASSUME NEW h \in Handlers, ClockInInsert(h)
        PROVE  FInv'
    <2>1. CASE Refuse(h, "failed") /\ UNCHANGED <<records, breaks>>
      <3>1. PICK r : r = [Request(loc[h].op, loc[h].emp, 0, DateOf(0, ServerZone))
                            EXCEPT !.answer = "failed"]
        OBVIOUS
      <3>2. GotoWith(h, "reply", r) /\ OnTime("reply", r)
        BY <2>1, <3>1, RefuseSet DEF Refuse, OnTime
      <3> QED
        BY <1>3, <2>1, <3>2, QuietFits DEF ClockInInsert, At, LateAt
    <2> QED
      BY <1>3, <2>1, ClockInFits DEF ClockInInsert, At
  <1>4. ASSUME NEW h \in Handlers, ClockInStep(h) \/ BreakStep(h) \/ ClockOutStep(h) \/ QueryStep(h)
        PROVE  FInv'
    BY <1>3, <1>4, ReadFits, ReceivesFit, StatusFits, StartBreakFits, EndBreakFits,
       ClockOutCloseFits, ClockOutWriteFits
       DEF ClockInStep, BreakStep, ClockOutStep, QueryStep, Reads, Receives
  <1> QED
    BY <1>1, <1>2, <1>4 DEF Next, Tick, vars, tables, Abort

(* The times of a day are always in order. *)
THEOREM ShiftInvariance ==
  ASSUME SerialClients, ~ Faults
  PROVE  Spec => [](IInv /\ SInv /\ FInv)
  <1>1. IInv /\ SInv /\ FInv /\ [Next]_vars => FInv'
    BY ShiftNext
  <1> QED
    BY <1>1, ShiftInit, SerialInvariance, PTL DEF Spec

-----------------------------------------------------------------------------
(* Breaks fit the shift. *)

(***************************************************************************)
(* The breaks of a day lie between its clock-in and its clock-out and do   *)
(* not overlap, except while a request is between its two writes and on a  *)
(* day closed by an offline submission.                                    *)
(***************************************************************************)
THEOREM BreaksFit ==
  ASSUME SerialClients, ~ Faults
  PROVE  Spec => []BreaksFitShift
  <1>1. ASSUME IInv, SInv, FInv, NEW k \in KeysInUse, NEW b \in BreaksOf(k),
               ~ MidWrite(k), ~ records[k].offline
        PROVE  LET stop(c) == IF breaks[c].end = NULL THEN clock ELSE breaks[c].end IN
                 /\ records[k].clockInAt <= breaks[b].start /\ breaks[b].start <= stop(b)
                 /\ records[k].clockOutAt # NULL =>
                      breaks[b].end # NULL /\ breaks[b].end <= records[k].clockOutAt
                 /\ \A c \in BreaksOf(k) \ {b} :
                      stop(b) <= breaks[c].start \/ stop(c) <= breaks[b].start
    <2>1. k \in Keys /\ records[k] # NULL
      BY DEF KeysInUse
    <2>2. FitDay(k) /\ DayOK(k)
      BY <1>1, <2>1 DEF FInv, SInv, Fits, LateAt, MidWrite
    <2>3. breaks[b].start <= clock
      BY <1>1 DEF BreaksOf, IInv, BreaksOK, BreakOK, Stamp
    <2>4. breaks[b].end # NULL => b \in ClosedBreaks(k)
      BY <1>1 DEF ClosedBreaks
    <2>5. breaks[b].end = NULL => b \in OpenBreaks(k)
      BY <1>1 DEF OpenBreaks
    <2>6. records[k].clockOutAt # NULL => breaks[b].end # NULL
      BY <2>1, <2>2, <2>5 DEF DayOK
    <2> QED
      BY <1>1, <2>2, <2>3, <2>4, <2>6 DEF FitDay, Before
  <1>2. IInv /\ SInv /\ FInv => BreaksFitShift
    BY <1>1 DEF BreaksFitShift
  <1> QED
    BY <1>2, ShiftInvariance, PTL

-----------------------------------------------------------------------------
(* Counting ticks. *)

\* The ticks of the breaks C with starts f and ends g; one that runs backwards counts negatively.
Ticks(C, f, g) ==
  LET forth == {p \in C \X Times : f[p[1]] <= p[2] /\ p[2] < g[p[1]]}
      back  == {p \in C \X Times : g[p[1]] <= p[2] /\ p[2] < f[p[1]]}
  IN  Cardinality(forth) - Cardinality(back)

(* A break covers as many ticks as it is long. *)
LEMMA TicksBetween ==
  ASSUME NEW b, NEW s \in Times, NEW e \in Times, NEW S,
         \A p : p \in S <=> p \in {b} \X Times /\ s <= p[2] /\ p[2] < e
  PROVE  /\ IsFiniteSet(S)
         /\ Cardinality(S) = IF s <= e THEN e - s ELSE 0
  <1>1. PICK n \in Int : n = e - 1
    BY DEF Times
  <1>2. {t \in Times : s <= t /\ t < e} = s .. n
    BY <1>1, AttendanceAssumption DEF Times
  <1>3. IsFiniteSet(s .. n) /\ Cardinality(s .. n) = IF s > n THEN 0 ELSE n - s + 1
    BY FS_Interval DEF Times
  <1>4. Cardinality(s .. n) = IF s <= e THEN e - s ELSE 0
    BY <1>1, <1>3 DEF Times
  <1>5. IsFiniteSet({b}) /\ Cardinality({b}) = 1
    BY FS_Singleton
  <1>6. IsFiniteSet({b} \X (s .. n)) /\ Cardinality({b} \X (s .. n)) = 1 * Cardinality(s .. n)
    BY <1>3, <1>5, FS_Product
  <1>7. 1 * Cardinality(s .. n) = Cardinality(s .. n)
    BY <1>4 DEF Times
  <1>8. S = {b} \X (s .. n)
    BY <1>2
  <1> QED
    BY <1>4, <1>6, <1>7, <1>8

(* The breaks that go one way and those of one more break. *)
LEMMA OneMore ==
  ASSUME NEW C, IsFiniteSet(C), NEW b, b \notin C, NEW f, NEW g,
         f[b] \in Times, g[b] \in Times
  PROVE  LET way(D) == {p \in D \X Times : f[p[1]] <= p[2] /\ p[2] < g[p[1]]} IN
           /\ Cardinality(way(C)) \in Nat
           /\ Cardinality(way(C \cup {b}))
                = Cardinality(way(C)) + (IF f[b] <= g[b] THEN g[b] - f[b] ELSE 0)
  <1>0. PICK s \in Times, e \in Times : s = f[b] /\ e = g[b]
    OBVIOUS
  <1> DEFINE way(D) == {p \in D \X Times : f[p[1]] <= p[2] /\ p[2] < g[p[1]]}
             one == {p \in {b} \X Times : s <= p[2] /\ p[2] < e}
  <1>1. IsFiniteSet(way(C))
    <2>1. IsFiniteSet(Times)
      BY FS_Interval, AttendanceAssumption DEF Times
    <2>2. IsFiniteSet(C \X Times)
      BY <2>1, FS_Product
    <2> QED
      BY <2>2, FS_Subset
  <1>2. IsFiniteSet(one) /\ Cardinality(one) = IF s <= e THEN e - s ELSE 0
    <2>1. \A p : p \in one <=> p \in {b} \X Times /\ s <= p[2] /\ p[2] < e
      OBVIOUS
    <2> HIDE DEF one, way
    <2> QED
      BY <2>1, TicksBetween
  <1>3. way(C \cup {b}) = way(C) \cup one
    BY <1>0
  <1>4. way(C) \cap one = {}
    OBVIOUS
  <1>5. Cardinality(way(C)) \in Nat /\ Cardinality(one) \in Nat
    BY <1>1, <1>2, FS_CardinalityType
  <1> HIDE DEF way, one
  <1>6. Cardinality(way(C \cup {b})) = Cardinality(way(C)) + Cardinality(one)
    <2>1. Cardinality(way(C) \cup one)
            = Cardinality(way(C)) + Cardinality(one) - Cardinality(way(C) \cap one)
      BY <1>1, <1>2, FS_Union
    <2>2. Cardinality(way(C) \cap one) = 0
      BY <1>4, FS_EmptySet
    <2>3. \A m, n \in Nat : m + n - 0 = m + n
      OBVIOUS
    <2>4. Cardinality(way(C)) + Cardinality(one) - Cardinality(way(C) \cap one)
            = Cardinality(way(C)) + Cardinality(one)
      BY <1>5, <2>2, <2>3
    <2> QED
      BY <1>3, <2>1, <2>4
  <1>7. /\ Cardinality(way(C)) \in Nat
        /\ Cardinality(way(C \cup {b}))
             = Cardinality(way(C)) + (IF f[b] <= g[b] THEN g[b] - f[b] ELSE 0)
    BY <1>0, <1>2, <1>5, <1>6
  <1> QED
    BY <1>7 DEF way

(* One more break adds its length. *)
LEMMA TicksAdd ==
  ASSUME NEW C, IsFiniteSet(C), NEW b, b \notin C, NEW f, NEW g,
         f[b] \in Times, g[b] \in Times
  PROVE  Ticks(C, f, g) \in Int /\ Ticks(C \cup {b}, f, g) = Ticks(C, f, g) + (g[b] - f[b])
  <1> DEFINE forth(D) == {p \in D \X Times : f[p[1]] <= p[2] /\ p[2] < g[p[1]]}
             back(D)  == {p \in D \X Times : g[p[1]] <= p[2] /\ p[2] < f[p[1]]}
  <1>1. /\ Cardinality(forth(C)) \in Nat
        /\ Cardinality(forth(C \cup {b}))
             = Cardinality(forth(C)) + (IF f[b] <= g[b] THEN g[b] - f[b] ELSE 0)
    BY OneMore
  <1>2. /\ Cardinality(back(C)) \in Nat
        /\ Cardinality(back(C \cup {b}))
             = Cardinality(back(C)) + (IF g[b] <= f[b] THEN f[b] - g[b] ELSE 0)
    BY OneMore
  <1>3. \A D : Ticks(D, f, g) = Cardinality(forth(D)) - Cardinality(back(D))
    BY DEF Ticks
  <1>4. f[b] \in Int /\ g[b] \in Int
    BY DEF Times
  <1> HIDE DEF forth, back
  <1> QED
    BY <1>1, <1>2, <1>3, <1>4

(* Only the times of the breaks counted matter. *)
LEMMA TicksSame ==
  ASSUME NEW C, NEW f, NEW g, NEW f2, NEW g2,
         \A c \in C : f[c] = f2[c] /\ g[c] = g2[c]
  PROVE  Ticks(C, f, g) = Ticks(C, f2, g2)
  <1> DEFINE All == C \X Times
  <1>1. \A p \in All : f[p[1]] = f2[p[1]] /\ g[p[1]] = g2[p[1]]
    OBVIOUS
  <1>2. /\ {p \in All : f[p[1]] <= p[2] /\ p[2] < g[p[1]]}
             = {p \in All : f2[p[1]] <= p[2] /\ p[2] < g2[p[1]]}
        /\ {p \in All : g[p[1]] <= p[2] /\ p[2] < f[p[1]]}
             = {p \in All : g2[p[1]] <= p[2] /\ p[2] < f2[p[1]]}
    BY <1>1
  <1> QED
    BY <1>2 DEF Ticks

(* Breaks that run forward count no tick twice over. *)
LEMMA TicksForward ==
  ASSUME NEW C, IsFiniteSet(C), NEW f, NEW g,
         \A c \in C : f[c] \in Times /\ g[c] \in Times /\ f[c] <= g[c]
  PROVE  Ticks(C, f, g) \in Nat
  <1> DEFINE All == C \X Times
             forth == {p \in All : f[p[1]] <= p[2] /\ p[2] < g[p[1]]}
             back  == {p \in All : g[p[1]] <= p[2] /\ p[2] < f[p[1]]}
  <1>1. \A p \in All : /\ p[1] \in C /\ p[2] \in Times
                       /\ f[p[1]] \in Times /\ g[p[1]] \in Times /\ f[p[1]] <= g[p[1]]
    OBVIOUS
  <1>2. back = {}
    BY <1>1 DEF Times
  <1>3. IsFiniteSet(Times)
    BY FS_Interval, AttendanceAssumption DEF Times
  <1>4. IsFiniteSet(forth)
    BY <1>3, FS_Product, FS_Subset
  <1>5. Cardinality(forth) \in Nat /\ Cardinality(back) = 0
    BY <1>2, <1>4, FS_CardinalityType, FS_EmptySet
  <1>6. Ticks(C, f, g) = Cardinality(forth) - Cardinality(back)
    BY DEF Ticks
  <1> HIDE DEF forth, back
  <1> QED
    BY <1>5, <1>6

(* Whole minutes, each part truncated on its own, lose at most one. *)
LEMMA MinutesOfSum ==
  ASSUME NEW s \in Nat, NEW d \in Nat
  PROVE  \/ Minutes(s + d) = Minutes(s) + Minutes(d)
         \/ s # 0 /\ Minutes(s + d) = Minutes(s) + Minutes(d) + 1
  <1>1. PICK M \in Nat \ {0} : M = MinuteLength
    BY ClockAssumption
  <1>2. Minutes(s) = s \div M /\ Minutes(d) = d \div M /\ Minutes(s + d) = (s + d) \div M
    BY <1>1 DEF Minutes
  <1>3. PICK a, b, c \in Int : a = s \div M /\ b = d \div M /\ c = (s + d) \div M
    BY <1>1
  <1>4. PICK i, j, l \in 0 .. M - 1 : s = M * a + i /\ d = M * b + j /\ s + d = M * c + l
    <2>1. \A n \in Nat : n % M \in 0 .. M - 1 /\ n = M * (n \div M) + (n % M)
      BY SMTT(30)
    <2>2. PICK i \in 0 .. M - 1 : s = M * a + i
      BY <1>3, <2>1
    <2>3. PICK j \in 0 .. M - 1 : d = M * b + j
      BY <1>3, <2>1
    <2>4. s + d \in Nat
      OBVIOUS
    <2>5. PICK l \in 0 .. M - 1 : s + d = M * c + l
      BY <1>3, <2>1, <2>4
    <2> QED
      BY <2>2, <2>3, <2>5
  <1>5. M * (c - (a + b)) = i + j - l
    <2>1. M * (c - (a + b)) = M * c - M * a - M * b
      BY SMTT(30)
    <2>2. M * a \in Int /\ M * b \in Int /\ M * c \in Int
      OBVIOUS
    <2> QED
      BY <1>4, <2>1, <2>2
  <1>6. c - (a + b) \in Int /\ i + j - l <= 2 * M - 2 /\ i + j - l >= 1 - M
    BY <1>3, <1>4
  <1>7. c - (a + b) >= 0 /\ c - (a + b) <= 1
    <2>1. \A x \in Int : x >= 2 => M * x >= 2 * M
      BY SMTT(30)
    <2>2. \A x \in Int : x <= -1 => M * x <= - M
      BY SMTT(30)
    <2> QED
      BY <1>5, <1>6, <2>1, <2>2
  <1>8. s = 0 => c = b
    BY <1>3
  <1>9. s = 0 => a = 0
    BY <1>1, <1>3, SMTT(30)
  <1> QED
    BY <1>2, <1>3, <1>7, <1>8, <1>9

-----------------------------------------------------------------------------
(* The ticks of the breaks of a row. *)

\* The columns of attendance_breaks, the open breaks ending at t.
Starts == [b \in BreakIds |-> breaks[b].start]
Ends == [b \in BreakIds |-> breaks[b].end]
EndsUntil(t) == [b \in BreakIds |-> IF breaks[b].end = NULL THEN t ELSE breaks[b].end]

LEMMA BreaksAreIds ==
  ASSUME NEW k
  PROVE  /\ BreaksOf(k) \subseteq BreakIds /\ ClosedBreaks(k) \subseteq BreakIds
         /\ IsFiniteSet(ClosedBreaks(k))
         /\ BreaksOf(k) = ClosedBreaks(k) \cup OpenBreaks(k)
         /\ ClosedBreaks(k) \cap OpenBreaks(k) = {}
  BY FS_Subset, AttendanceAssumption DEF BreaksOf, ClosedBreaks, OpenBreaks

LEMMA TicksOfBreaks ==
  ASSUME NEW k
  PROVE  /\ BreakTicks(k) = Ticks(ClosedBreaks(k), Starts, Ends)
         /\ \A t : BreakTicksUntil(k, t) = Ticks(BreaksOf(k), Starts, EndsUntil(t))
  <1>1. BreakTicks(k) = Ticks(ClosedBreaks(k), Starts, Ends)
    <2> DEFINE All == ClosedBreaks(k) \X Times
    <2>1. \A p \in All : Starts[p[1]] = breaks[p[1]].start /\ Ends[p[1]] = breaks[p[1]].end
      BY BreaksAreIds DEF Starts, Ends
    <2>2. /\ {p \in All : Starts[p[1]] <= p[2] /\ p[2] < Ends[p[1]]}
               = {p \in All : breaks[p[1]].start <= p[2] /\ p[2] < breaks[p[1]].end}
          /\ {p \in All : Ends[p[1]] <= p[2] /\ p[2] < Starts[p[1]]}
               = {p \in All : breaks[p[1]].end <= p[2] /\ p[2] < breaks[p[1]].start}
      BY <2>1
    <2> QED
      BY <2>2 DEF BreakTicks, Ticks
  <1>2. ASSUME NEW t
        PROVE  BreakTicksUntil(k, t) = Ticks(BreaksOf(k), Starts, EndsUntil(t))
    <2> DEFINE All == BreaksOf(k) \X Times
               endOf(b) == IF breaks[b].end = NULL THEN t ELSE breaks[b].end
    <2>1. \A p \in All : Starts[p[1]] = breaks[p[1]].start /\ EndsUntil(t)[p[1]] = endOf(p[1])
      BY BreaksAreIds DEF Starts, EndsUntil
    <2> HIDE DEF endOf
    <2>2. /\ {p \in All : Starts[p[1]] <= p[2] /\ p[2] < EndsUntil(t)[p[1]]}
               = {p \in All : breaks[p[1]].start <= p[2] /\ p[2] < endOf(p[1])}
          /\ {p \in All : EndsUntil(t)[p[1]] <= p[2] /\ p[2] < Starts[p[1]]}
               = {p \in All : endOf(p[1]) <= p[2] /\ p[2] < breaks[p[1]].start}
      BY <2>1
    <2> QED
      BY <2>2 DEF BreakTicksUntil, Ticks, endOf
  <1> QED
    BY <1>1, <1>2

(* The open break counts from its start to the instant asked for. *)
LEMMA OpenBreakCounts ==
  ASSUME IInv, NEW k, NEW b, OpenBreaks(k) = {b}, NEW t \in Times
  PROVE  /\ BreakTicks(k) \in Int
         /\ breaks[b].start \in Times
         /\ BreakTicksUntil(k, t) = BreakTicks(k) + (t - breaks[b].start)
  <1>1. /\ b \in BreakIds /\ b \notin ClosedBreaks(k) /\ breaks[b].end = NULL
        /\ breaks[b].start \in Times
    BY DEF OpenBreaks, ClosedBreaks, BreaksOf, IInv, BreaksOK, BreakOK, BreakRows
  <1>2. PICK C, f, g, g2 : /\ C = ClosedBreaks(k) /\ f = Starts /\ g = Ends /\ g2 = EndsUntil(t)
    OBVIOUS
  <1>3. \A c \in C : g[c] = g2[c]
    BY <1>2 DEF ClosedBreaks, BreaksOf, Ends, EndsUntil
  <1>4. f[b] = breaks[b].start /\ g2[b] = t
    BY <1>1, <1>2 DEF Starts, EndsUntil
  <1>5. /\ BreakTicks(k) = Ticks(C, f, g) /\ BreakTicksUntil(k, t) = Ticks(C \cup {b}, f, g2)
        /\ IsFiniteSet(C) /\ b \notin C
    BY <1>1, <1>2, BreaksAreIds, TicksOfBreaks
  <1>6. Ticks(C, f, g) = Ticks(C, f, g2)
    BY <1>3, TicksSame
  <1>7. Ticks(C, f, g2) \in Int /\ Ticks(C \cup {b}, f, g2) = Ticks(C, f, g2) + (g2[b] - f[b])
    <2>1. f[b] \in Times /\ g2[b] \in Times /\ IsFiniteSet(C) /\ b \notin C
      BY <1>1, <1>4, <1>5
    <2> QED
      BY <2>1, TicksAdd
  <1> QED
    BY <1>1, <1>4, <1>5, <1>6, <1>7

(* Ended breaks of a day in order count forward. *)
LEMMA EndedBreaksCount ==
  ASSUME IInv, NEW k, FitDay(k)
  PROVE  BreakTicks(k) \in Nat /\ (ClosedBreaks(k) = {} => BreakTicks(k) = 0)
  <1>1. PICK C, f, g : C = ClosedBreaks(k) /\ f = Starts /\ g = Ends
    OBVIOUS
  <1>2. ASSUME NEW c \in C
        PROVE  f[c] \in Times /\ g[c] \in Times /\ f[c] <= g[c]
    <2>1. c \in BreakIds /\ breaks[c] \in BreakRows /\ breaks[c].end # NULL
      BY <1>1, <1>2 DEF ClosedBreaks, BreaksOf, IInv, BreaksOK, BreakOK
    <2>2. f[c] = breaks[c].start /\ g[c] = breaks[c].end
      BY <1>1, <2>1 DEF Starts, Ends
    <2>3. breaks[c].start <= breaks[c].end
      BY <1>1 DEF FitDay
    <2> QED
      BY <2>1, <2>2, <2>3 DEF BreakRows, Maybe
  <1>3. BreakTicks(k) = Ticks(C, f, g) /\ IsFiniteSet(C)
    BY <1>1, BreaksAreIds, TicksOfBreaks
  <1>4. Ticks(C, f, g) \in Nat
    BY <1>2, <1>3, TicksForward
  <1>5. C = {} => Ticks(C, f, g) = 0
    <2> SUFFICES ASSUME C = {}
                 PROVE  Ticks(C, f, g) = 0
      OBVIOUS
    <2> QED
      BY FS_EmptySet DEF Ticks
  <1> QED
    BY <1>1, <1>3, <1>4, <1>5

-----------------------------------------------------------------------------
(* The preview. *)

(* What is left of a shift when its break is one minute longer. *)
LEMMA WorkedByMinute ==
  ASSUME NEW in \in Int, NEW out \in Int, NEW m \in Int, NEW n \in Int, n = m \/ n = m + 1
  PROVE  LET more == WorkedMinutes(in, out, m) - WorkedMinutes(in, out, n) IN
           more = 0 \/ (more = 1 /\ n # m)
  <1>1. PICK L \in Int : L = Minutes(out - in)
    BY MinutesIsInt
  <1> QED
    BY <1>1 DEF WorkedMinutes, NonNegative

(***************************************************************************)
(* The preview shows the minutes a clock-out at that instant would store,  *)
(* or one more when an ended break and the open one lose a minute between  *)
(* them.                                                                   *)
(***************************************************************************)
THEOREM PreviewsAreEstimates ==
  ASSUME SerialClients, ~ Faults
  PROVE  Spec => []PreviewIsEstimate
  <1>1. ASSUME IInv, SInv, FInv, NEW h \in Handlers,
               pc[h] = "reply", loc[h].op = "preview", loc[h].answer = "ok"
        PROVE  LET row == records[KeyOf(h)]
                   stored == WorkedMinutes(row.clockInAt, loc[h].at,
                                           Minutes(BreakTicksUntil(KeyOf(h), loc[h].at)))
                   more == PreviewMinutes(h) - stored IN
                 /\ more = 0 \/ (more = 1 /\ ClosedBreaks(KeyOf(h)) # {})
                 /\ PreviewOvertime(h) = IF row.schedOut = NULL THEN 0
                                         ELSE NonNegative(Minutes(loc[h].at - row.schedOut))
    <2>1. PICK k, r, row : k = KeyOf(h) /\ r = loc[h] /\ row = records[k]
      OBVIOUS
    <2>2. /\ k \in Keys /\ k = <<r.emp, r.date>> /\ r \in Requests /\ r.at \in Times
          /\ Knows("reply", r) /\ OnTime("reply", r) /\ DayOK(k) /\ Fits(k)
      BY <1>1, <2>1, OwnDay, OwnShift, ServingFacts DEF Requests, KeyOf, LateAt
    <2>3. /\ row # NULL /\ row.status # "clocked_out" /\ r.row = row
          /\ r.mins \in ShownMinutes(k, r.at) /\ AllBy(k, r.at)
      BY <1>1, <2>1, <2>2 DEF Knows, AnswerOK, OnTime
    <2>4. row.clockInAt \in Int
      BY <1>1, <2>1, <2>2, <2>3 DEF IInv, RecordsOK, RowOK, Rows, Times
    <2>5. FitDay(k)
      BY <2>1, <2>2, <2>3 DEF Fits
    <2>6. BreakTicks(k) \in Nat /\ (ClosedBreaks(k) = {} => BreakTicks(k) = 0)
      BY <1>1, <2>5, EndedBreaksCount
    <2>7. PICK n : n = Minutes(BreakTicksUntil(k, r.at))
      OBVIOUS
    <2>8. r.mins \in Int /\ (n = r.mins \/ (n = r.mins + 1 /\ ClosedBreaks(k) # {}))
      <3>1. CASE OpenBreaks(k) = {}
        BY <2>3, <2>6, <2>7, <3>1, ClosedTicks, MinutesIsInt DEF ShownMinutes, SumBreakMinutes
      <3>2. ASSUME NEW b \in OpenBreaks(k)
            PROVE  r.mins \in Int /\ (n = r.mins \/ (n = r.mins + 1 /\ ClosedBreaks(k) # {}))
        <4>1. OpenBreaks(k) = {b}
          BY <2>2 DEF DayOK
        <4>2. r.mins = Minutes(BreakTicks(k)) + Minutes(r.at - breaks[b].start)
          BY <2>3, <4>1 DEF ShownMinutes, SumBreakMinutes
        <4>3. PICK s, d : s = BreakTicks(k) /\ d = r.at - breaks[b].start
          OBVIOUS
        <4>4. BreakTicksUntil(k, r.at) = s + d
          BY <1>1, <2>2, <4>1, <4>3, OpenBreakCounts
        <4>5. s \in Nat /\ d \in Nat
          <5>1. breaks[b].start <= r.at
            BY <2>1, <2>3 DEF AllBy, OpenBreaks
          <5>2. breaks[b].start \in Times /\ r.at \in Times
            BY <1>1, <2>2, <4>1, OpenBreakCounts
          <5>3. breaks[b].start \in Int /\ r.at \in Int
            BY <5>2 DEF Times
          <5> QED
            BY <2>6, <4>3, <5>1, <5>3
        <4>6. Minutes(s) \in Int /\ Minutes(d) \in Int
          BY <4>5, MinutesIsInt
        <4>7. \/ n = Minutes(s) + Minutes(d)
              \/ s # 0 /\ n = Minutes(s) + Minutes(d) + 1
          BY <2>7, <4>4, <4>5, MinutesOfSum
        <4> QED
          BY <2>6, <4>2, <4>3, <4>6, <4>7
      <3> QED
        BY <3>1, <3>2
    <2>9. LET more == WorkedMinutes(row.clockInAt, r.at, r.mins)
                        - WorkedMinutes(row.clockInAt, r.at, n) IN
            more = 0 \/ (more = 1 /\ n # r.mins)
      BY <2>2, <2>4, <2>8, WorkedByMinute DEF Times
    <2>10. PreviewMinutes(h) = WorkedMinutes(row.clockInAt, r.at, r.mins)
      BY <2>1, <2>3 DEF PreviewMinutes
    <2>11. PreviewOvertime(h) = IF row.schedOut = NULL THEN 0
                                ELSE NonNegative(Minutes(r.at - row.schedOut))
      <3>1. row.schedOut \in Maybe(Int) /\ r.at \in Int
        BY <1>1, <2>1, <2>2, <2>3 DEF IInv, RecordsOK, RowOK, Rows, Times
      <3>2. PreviewOvertime(h) =
              IF row.schedOut = NULL THEN 0 ELSE MinutesPast(r.at, row.schedOut)
        BY <2>1, <2>3 DEF PreviewOvertime
      <3> QED
        BY <3>1, <3>2, PastIsClamped DEF Maybe
    <2> QED
      BY <2>1, <2>3, <2>7, <2>8, <2>9, <2>10, <2>11
  <1>2. IInv /\ SInv /\ FInv => PreviewIsEstimate
    BY <1>1 DEF PreviewIsEstimate
  <1> QED
    BY <1>2, ShiftInvariance, PTL

-----------------------------------------------------------------------------
(* The service implements AttendanceDay. *)

\* A day as AttendanceDay sees it.
View(k) == <<PhaseOf(k), ClockInOf(k), SinceOf(k), BreakTicks(k), ClockOutOf(k), WorkedOf(k)>>

(* A day whose row and breaks stay looks the same. *)
LEMMA SameDaySameView ==
  ASSUME NEW j, SameDay(j)
  PROVE  View(j)' = View(j)
  <1>1. records'[j] = records[j] /\ OpenBreaks(j)' = OpenBreaks(j) /\ BreakTicks(j)' = BreakTicks(j)
    BY SameBreaks, SameTicks DEF SameDay
  <1>2. \A b \in OpenBreaks(j) : breaks'[b] = breaks[b]
    BY DEF SameDay, OpenBreaks
  <1>3. SinceOf(j)' = SinceOf(j)
    <2>1. CASE OpenBreaks(j) = {}
      BY <1>1, <2>1 DEF SinceOf
    <2>2. CASE OpenBreaks(j) # {}
      <3>1. PICK c : c = CHOOSE b \in OpenBreaks(j) : TRUE
        OBVIOUS
      <3>2. c \in OpenBreaks(j)
        BY <2>2, <3>1
      <3>3. (CHOOSE b \in OpenBreaks(j) : TRUE)' = c
        BY <1>1, <3>1
      <3> QED
        BY <1>1, <1>2, <2>2, <3>1, <3>2, <3>3 DEF SinceOf
    <2> QED
      BY <2>1, <2>2
  <1> QED
    BY <1>1, <1>3 DEF View, PhaseOf, ClockInOf, ClockOutOf, WorkedOf

(* The worked minutes are computed alike on both levels. *)
LEMMA DayWorksAlike ==
  ASSUME NEW in, NEW out, NEW m
  PROVE  /\ Day!WorkedMinutes(in, out, m) = WorkedMinutes(in, out, m)
         /\ Day!Minutes(m) = Minutes(m)
  BY DEF Day!WorkedMinutes, Day!NonNegative, Day!Minutes, WorkedMinutes, NonNegative, Minutes

(* A step that changes how one day looks is a step of AttendanceDay. *)
LEMMA DayMoves ==
  ASSUME NEW k \in Keys, NEW t \in Times, \A j \in Keys \ {k} : View(j)' = View(j),
         \/ /\ PhaseOf(k) = "idle" /\ PhaseOf(k)' = "clocked_in" /\ ClockInOf(k)' = t
            /\ UNCHANGED <<SinceOf(k), BreakTicks(k), ClockOutOf(k), WorkedOf(k)>>
         \/ /\ PhaseOf(k) = "clocked_in" /\ PhaseOf(k)' = "on_break" /\ SinceOf(k)' = t
            /\ UNCHANGED <<ClockInOf(k), BreakTicks(k), ClockOutOf(k), WorkedOf(k)>>
         \/ /\ PhaseOf(k) = "on_break" /\ PhaseOf(k)' = "clocked_in" /\ SinceOf(k)' = NULL
            /\ BreakTicks(k)' = BreakTicks(k) + (t - SinceOf(k))
            /\ UNCHANGED <<ClockInOf(k), ClockOutOf(k), WorkedOf(k)>>
         \/ /\ PhaseOf(k) = "clocked_in" /\ PhaseOf(k)' = "clocked_out" /\ ClockOutOf(k)' = t
            /\ WorkedOf(k)' = WorkedMinutes(ClockInOf(k), t, Minutes(BreakTicks(k)))
            /\ UNCHANGED <<ClockInOf(k), SinceOf(k), BreakTicks(k)>>
  PROVE  Day!Next
  <1>1. \A j \in Keys \ {k} :
          /\ PhaseOf(j)' = PhaseOf(j) /\ ClockInOf(j)' = ClockInOf(j)
          /\ SinceOf(j)' = SinceOf(j) /\ BreakTicks(j)' = BreakTicks(j)
          /\ ClockOutOf(j)' = ClockOutOf(j) /\ WorkedOf(j)' = WorkedOf(j)
    BY DEF View
  <1>2. CASE /\ PhaseOf(k) = "idle" /\ PhaseOf(k)' = "clocked_in" /\ ClockInOf(k)' = t
             /\ UNCHANGED <<SinceOf(k), BreakTicks(k), ClockOutOf(k), WorkedOf(k)>>
    <2>1. Day!ClockIn(k, t)
      BY <1>1, <1>2 DEF Day!ClockIn, Day!Move
    <2> QED
      BY <2>1 DEF Day!Next
  <1>3. CASE /\ PhaseOf(k) = "clocked_in" /\ PhaseOf(k)' = "on_break" /\ SinceOf(k)' = t
             /\ UNCHANGED <<ClockInOf(k), BreakTicks(k), ClockOutOf(k), WorkedOf(k)>>
    <2>1. Day!StartBreak(k, t)
      BY <1>1, <1>3 DEF Day!StartBreak, Day!Move
    <2> QED
      BY <2>1 DEF Day!Next
  <1>4. CASE /\ PhaseOf(k) = "on_break" /\ PhaseOf(k)' = "clocked_in" /\ SinceOf(k)' = NULL
             /\ BreakTicks(k)' = BreakTicks(k) + (t - SinceOf(k))
             /\ UNCHANGED <<ClockInOf(k), ClockOutOf(k), WorkedOf(k)>>
    <2>1. Day!EndBreak(k, t)
      BY <1>1, <1>4 DEF Day!EndBreak, Day!Move
    <2> QED
      BY <2>1 DEF Day!Next
  <1>5. CASE /\ PhaseOf(k) = "clocked_in" /\ PhaseOf(k)' = "clocked_out" /\ ClockOutOf(k)' = t
             /\ WorkedOf(k)' = WorkedMinutes(ClockInOf(k), t, Minutes(BreakTicks(k)))
             /\ UNCHANGED <<ClockInOf(k), SinceOf(k), BreakTicks(k)>>
    <2>1. PICK in, m : in = ClockInOf(k) /\ m = BreakTicks(k)
      OBVIOUS
    <2>2. /\ [j \in Keys |-> ClockInOf(j)][k] = in
          /\ [j \in Keys |-> BreakTicks(j)][k] = m
      BY <2>1
    <2>3. /\ Day!WorkedMinutes(in, t, Day!Minutes(m)) = WorkedMinutes(in, t, Minutes(m))
          /\ WorkedOf(k)' = WorkedMinutes(in, t, Minutes(m))
      BY <1>5, <2>1, DayWorksAlike
    <2>4. Day!ClockOut(k, t)
      BY <1>1, <1>5, <2>2, <2>3
         DEF Day!ClockOut, Day!Move
    <2> QED
      BY <2>4 DEF Day!Next
  <1> QED
    BY <1>2, <1>3, <1>4, <1>5

(* A step that changes how no day looks is none of AttendanceDay's. *)
LEMMA DayStays ==
  ASSUME \A j \in Keys : View(j)' = View(j)
  PROVE  UNCHANGED Day!vars
  <1>1. \A j \in Keys :
          /\ PhaseOf(j)' = PhaseOf(j) /\ ClockInOf(j)' = ClockInOf(j)
          /\ SinceOf(j)' = SinceOf(j) /\ BreakTicks(j)' = BreakTicks(j)
          /\ ClockOutOf(j)' = ClockOutOf(j) /\ WorkedOf(j)' = WorkedOf(j)
    BY DEF View
  <1> QED
    BY <1>1 DEF Day!vars

(* The insertion of a row opens the day. *)
LEMMA ClockInOpensDay ==
  ASSUME IInv, SInv, NEW h \in Handlers, ClockInInsert(h)
  PROVE  Day!Next \/ UNCHANGED Day!vars
  <1>1. CASE UNCHANGED records
    <2>1. UNCHANGED breaks
      BY DEF ClockInInsert
    <2>2. \A j : SameDay(j)
      BY <1>1, <2>1 DEF SameDay, BreaksOf
    <2> QED
      BY <2>2, SameDaySameView, DayStays
  <1>2. ASSUME NEW s \in Schedules, records[KeyOf(h)] = NULL,
               records' = [records EXCEPT ![KeyOf(h)] = NewRecord(h, s)]
        PROVE  Day!Next
    <2>1. PICK k, t, row : k = KeyOf(h) /\ t = loc[h].at /\ row = NewRecord(h, s)
      OBVIOUS
    <2>2. pc[h] = "ci_insert" /\ UNCHANGED breaks
      BY DEF ClockInInsert, At
    <2>3. k \in Keys /\ t \in Times /\ BreaksOf(k) = {} /\ row # NULL
      BY <1>2, <2>1, <2>2, OwnDay, ServingFacts, NewRecordIsRow, NullAssumption
         DEF DayOK, Requests, RowOK
    <2>4. /\ records'[k] = row /\ OpenBreaks(k) = {} /\ OpenBreaks(k)' = {}
          /\ \A j \in Keys \ {k} : SameDay(j)
      BY <1>2, <2>1, <2>2, <2>3, RowWritten DEF OpenBreaks
    <2>5. BreakTicks(k)' = BreakTicks(k)
      BY <2>2 DEF BreakTicks, ClosedBreaks, BreaksOf
    <2>6. row.clockInAt = t /\ row.clockOutAt = NULL /\ row.working = NULL
      BY <2>1 DEF NewRecord
    <2>7. records[k] = NULL
      BY <1>2, <2>1
    <2>8. /\ PhaseOf(k) = "idle" /\ PhaseOf(k)' = "clocked_in" /\ ClockInOf(k)' = t
          /\ UNCHANGED <<SinceOf(k), BreakTicks(k), ClockOutOf(k), WorkedOf(k)>>
      BY <2>3, <2>4, <2>5, <2>6, <2>7 DEF PhaseOf, ClockInOf, SinceOf, ClockOutOf, WorkedOf
    <2> QED
      BY <2>3, <2>4, <2>8, SameDaySameView, DayMoves
  <1> QED
    BY <1>1, <1>2 DEF ClockInInsert

(* The insertion of a break row starts the break. *)
LEMMA InsertStartsBreak ==
  ASSUME IInv, SInv, NEW h \in Handlers, StartBreakInsert(h)
  PROVE  Day!Next
  <1>1. PICK k, t : k = KeyOf(h) /\ t = loc[h].at
    OBVIOUS
  <1>2. pc[h] = "sb_insert" /\ UNCHANGED records /\ StartBreak(k, t)
    BY <1>1 DEF StartBreakInsert, At
  <1>3. /\ k \in Keys /\ t \in Times /\ records[k] # NULL
        /\ Knows("sb_insert", loc[h]) /\ DayOK(k) /\ k = <<loc[h].emp, loc[h].date>>
    BY <1>1, <1>2, OwnDay, ServingFacts, FoundFacts DEF Requests, KeyOf, Found
  <1>4. OpenBreaks(k) = {} /\ records[k].clockOutAt = NULL
    BY <1>3 DEF Knows, DayOK
  <1>5. PICK b : /\ OpenBreaks(k)' = {b} /\ breaks'[b].start = t
                 /\ ClosedBreaks(k)' = ClosedBreaks(k)
                 /\ \A c \in BreaksOf(k) : breaks'[c] = breaks[c]
                 /\ \A j \in Keys \ {k} : SameDay(j)
    BY <1>2, <1>3, <1>4, BreakStarted
  <1>6. BreakTicks(k)' = BreakTicks(k)
    <2> DEFINE All == ClosedBreaks(k) \X Times
    <2>1. \A p \in All : breaks'[p[1]] = breaks[p[1]]
      BY <1>5 DEF ClosedBreaks
    <2>2. /\ {p \in All : breaks'[p[1]].start <= p[2] /\ p[2] < breaks'[p[1]].end}
               = {p \in All : breaks[p[1]].start <= p[2] /\ p[2] < breaks[p[1]].end}
          /\ {p \in All : breaks'[p[1]].end <= p[2] /\ p[2] < breaks'[p[1]].start}
               = {p \in All : breaks[p[1]].end <= p[2] /\ p[2] < breaks[p[1]].start}
      BY <2>1
    <2> QED
      BY <1>5, <2>2 DEF BreakTicks
  <1>7. SinceOf(k)' = t
    BY <1>5 DEF SinceOf
  <1>8. /\ PhaseOf(k) = "clocked_in" /\ PhaseOf(k)' = "on_break" /\ SinceOf(k)' = t
        /\ UNCHANGED <<ClockInOf(k), BreakTicks(k), ClockOutOf(k), WorkedOf(k)>>
    BY <1>2, <1>3, <1>4, <1>5, <1>6, <1>7 DEF PhaseOf, ClockInOf, ClockOutOf, WorkedOf
  <1> QED
    BY <1>3, <1>5, <1>8, SameDaySameView, DayMoves

(* The status column is not looked at. *)
LEMMA StatusIsNotSeen ==
  ASSUME IInv, SInv, NEW h \in Handlers, StartBreakStatus(h) \/ EndBreakStatus(h)
  PROVE  UNCHANGED Day!vars
  <1>1. PICK k, row, s : /\ k = KeyOf(h) /\ row = records[k] /\ s \in Statuses
                         /\ UpdateStatus(k, s)
    BY DEF StartBreakStatus, EndBreakStatus, Statuses
  <1>2. pc[h] \in Found /\ UNCHANGED breaks
    BY DEF StartBreakStatus, EndBreakStatus, At, Found
  <1>3. k \in Keys /\ row # NULL /\ row \in Rows
    BY <1>1, <1>2, ServingFacts, FoundFacts DEF Found, RowOK
  <1>4. PICK new : new = [row EXCEPT !.status = s]
    OBVIOUS
  <1>5. /\ new # NULL /\ new.clockInAt = row.clockInAt /\ new.clockOutAt = row.clockOutAt
        /\ new.working = row.working
    BY <1>1, <1>3, <1>4, StatusSet
  <1>6. records' = [records EXCEPT ![k] = new]
    BY <1>1, <1>4 DEF UpdateStatus
  <1>7. /\ records'[k] = new /\ OpenBreaks(k)' = OpenBreaks(k)
        /\ \A j \in Keys \ {k} : SameDay(j)
    BY <1>2, <1>3, <1>6, RowWritten
  <1>8. BreakTicks(k)' = BreakTicks(k) /\ SinceOf(k)' = SinceOf(k)
    <2>1. ClosedBreaks(k)' = ClosedBreaks(k)
      BY <1>2 DEF ClosedBreaks, BreaksOf
    <2> QED
      BY <1>2, <1>7, <2>1 DEF BreakTicks, SinceOf
  <1>9. View(k)' = View(k)
    BY <1>1, <1>3, <1>5, <1>7, <1>8 DEF View, PhaseOf, ClockInOf, ClockOutOf, WorkedOf
  <1> QED
    BY <1>3, <1>7, <1>9, SameDaySameView, DayStays

(* Ending the open breaks of a day makes what they counted so far definite. *)
LEMMA EndedBreaksCountTo ==
  ASSUME IInv, NEW k \in Keys, NEW t \in Times, EndLatestBreak(k, t), UNCHANGED records
  PROVE  BreakTicks(k)' = BreakTicksUntil(k, t)
  <1> DEFINE All == BreaksOf(k) \X Times
             endOf(b) == IF breaks[b].end = NULL THEN t ELSE breaks[b].end
  <1>1. ClosedBreaks(k)' = BreaksOf(k)
    BY BreaksEnded DEF ClosedBreaks, OpenBreaks
  <1>2. ASSUME NEW b \in BreaksOf(k)
        PROVE  breaks'[b].start = breaks[b].start /\ breaks'[b].end = endOf(b)
    BY BreaksEnded DEF OpenBreaks, ClosedBreaks
  <1>3. \A p \in All : breaks'[p[1]].start = breaks[p[1]].start /\ breaks'[p[1]].end = endOf(p[1])
    BY <1>2
  <1> HIDE DEF endOf
  <1>4. /\ {p \in All : breaks'[p[1]].start <= p[2] /\ p[2] < breaks'[p[1]].end}
             = {p \in All : breaks[p[1]].start <= p[2] /\ p[2] < endOf(p[1])}
        /\ {p \in All : breaks'[p[1]].end <= p[2] /\ p[2] < breaks'[p[1]].start}
             = {p \in All : endOf(p[1]) <= p[2] /\ p[2] < breaks[p[1]].start}
    BY <1>3
  <1> QED
    BY <1>1, <1>4 DEF BreakTicks, BreakTicksUntil, endOf

(* The closing of the open break row ends the break. *)
LEMMA CloseEndsBreak ==
  ASSUME IInv, SInv, NEW h \in Handlers, EndBreakClose(h) \/ ClockOutClose(h)
  PROVE  Day!Next \/ UNCHANGED Day!vars
  <1>1. PICK k, t : k = KeyOf(h) /\ t = loc[h].at
    OBVIOUS
  <1>2. pc[h] \in {"eb_close", "co_close"} /\ UNCHANGED records /\ EndLatestBreak(k, t)
    BY <1>1 DEF EndBreakClose, ClockOutClose, At
  <1>3. /\ k \in Keys /\ t \in Times /\ records[k] # NULL
        /\ Knows(pc[h], loc[h]) /\ DayOK(k) /\ k = <<loc[h].emp, loc[h].date>>
    BY <1>1, <1>2, OwnDay, ServingFacts, FoundFacts DEF Requests, KeyOf, Found
  <1>4. records[k].clockOutAt = NULL
    BY <1>2, <1>3 DEF Knows, DayOK, Found
  <1>5. OpenBreaks(k)' = {} /\ \A j \in Keys \ {k} : SameDay(j)
    BY <1>2, <1>3, BreaksEnded
  <1>6. BreakTicks(k)' = BreakTicksUntil(k, t)
    BY <1>2, <1>3, EndedBreaksCountTo
  <1>7. CASE OpenBreaks(k) = {}
    <2>1. BreakTicks(k)' = BreakTicks(k)
      BY <1>6, <1>7, ClosedTicks
    <2>2. View(k)' = View(k)
      BY <1>2, <1>5, <1>7, <2>1 DEF View, PhaseOf, ClockInOf, SinceOf, ClockOutOf, WorkedOf
    <2> QED
      BY <1>5, <2>2, SameDaySameView, DayStays
  <1>8. ASSUME NEW b \in OpenBreaks(k)
        PROVE  Day!Next
    <2>1. OpenBreaks(k) = {b}
      BY <1>3 DEF DayOK
    <2>2. SinceOf(k) = breaks[b].start
      BY <2>1 DEF SinceOf
    <2>3. BreakTicks(k)' = BreakTicks(k) + (t - SinceOf(k))
      <3>1. PICK start : start = breaks[b].start
        OBVIOUS
      <3>2. BreakTicksUntil(k, t) = BreakTicks(k) + (t - start)
        BY <1>3, <2>1, <3>1, OpenBreakCounts
      <3> QED
        BY <1>6, <2>2, <3>1, <3>2
    <2>4. /\ PhaseOf(k) = "on_break" /\ PhaseOf(k)' = "clocked_in" /\ SinceOf(k)' = NULL
          /\ UNCHANGED <<ClockInOf(k), ClockOutOf(k), WorkedOf(k)>>
      BY <1>2, <1>3, <1>4, <1>5, <2>1 DEF PhaseOf, ClockInOf, SinceOf, ClockOutOf, WorkedOf
    <2> QED
      BY <1>3, <1>5, <2>3, <2>4, SameDaySameView, DayMoves
  <1> QED
    BY <1>7, <1>8

(* The write of clock_out_at closes the day. *)
LEMMA WriteClosesDay ==
  ASSUME IInv, SInv, NEW h \in Handlers, ClockOutWrite(h)
  PROVE  Day!Next
  <1>1. PICK k, t, old, row :
          k = KeyOf(h) /\ t = loc[h].at /\ old = records[k] /\ row = ClockedOut(old, h)
    OBVIOUS
  <1>2. pc[h] = "co_write" /\ UNCHANGED breaks /\ records' = [records EXCEPT ![k] = row]
    BY <1>1 DEF ClockOutWrite, At
  <1>3. /\ k \in Keys /\ k = <<loc[h].emp, loc[h].date>> /\ loc[h].at = t /\ t \in Times
        /\ Knows("co_write", loc[h]) /\ DayOK(k)
        /\ old \in Rows /\ row \in Rows /\ old # NULL /\ row # NULL /\ t # NULL
    <2>1. loc[h] \in Requests /\ t \in Times
      BY <1>1, <1>2, ServingFacts DEF Requests
    <2>2. t # NULL
      BY <2>1, NullAssumption DEF Times
    <2> QED
      BY <1>1, <1>2, <2>1, <2>2, OwnDay, ServingFacts, FoundFacts, ClockedOutIsRow,
         NullAssumption DEF KeyOf, Found, RowOK
  <1>4. /\ loc[h].row = old /\ OpenBreaks(k) = {} /\ old.clockOutAt = NULL
        /\ loc[h].mins = Minutes(BreakTicks(k))
    BY <1>1, <1>3 DEF Knows, OpsAt, HoldsRow, Found, SumBreakMinutes, DayOK
  <1>5. /\ row.clockOutAt = t /\ row.clockInAt = old.clockInAt
        /\ row.working = WorkedMinutes(old.clockInAt, t, Minutes(BreakTicks(k)))
    BY <1>1, <1>3, <1>4, ClockedOutSet
  <1>6. /\ records'[k] = row /\ OpenBreaks(k)' = {}
        /\ \A j \in Keys \ {k} : SameDay(j)
    BY <1>2, <1>3, <1>4, RowWritten
  <1>7. BreakTicks(k)' = BreakTicks(k)
    BY <1>2 DEF BreakTicks, ClosedBreaks, BreaksOf
  <1>8. ClockInOf(k) = old.clockInAt /\ WorkedOf(k)' = row.working
    BY <1>1, <1>3, <1>6 DEF ClockInOf, WorkedOf
  <1>9. /\ PhaseOf(k) = "clocked_in" /\ PhaseOf(k)' = "clocked_out" /\ ClockOutOf(k)' = t
        /\ UNCHANGED <<ClockInOf(k), SinceOf(k), BreakTicks(k)>>
    BY <1>1, <1>3, <1>4, <1>5, <1>6, <1>7 DEF PhaseOf, ClockInOf, SinceOf, ClockOutOf
  <1>10. WorkedOf(k)' = WorkedMinutes(ClockInOf(k), t, Minutes(BreakTicks(k)))
    BY <1>5, <1>8
  <1> QED
    BY <1>3, <1>6, <1>9, <1>10, SameDaySameView, DayMoves

LEMMA DayInit == Init => Day!Init
  <1>1. Init => \A k \in Keys : records[k] = NULL /\ BreaksOf(k) = {}
    BY DEF Init, BreaksOf
  <1>2. \A k : BreaksOf(k) = {} => OpenBreaks(k) = {} /\ BreakTicks(k) = 0
    <2> SUFFICES ASSUME NEW k, BreaksOf(k) = {}
                 PROVE  OpenBreaks(k) = {} /\ BreakTicks(k) = 0
      OBVIOUS
    <2>1. ClosedBreaks(k) = {} /\ OpenBreaks(k) = {}
      BY DEF ClosedBreaks, OpenBreaks
    <2> QED
      BY <2>1, FS_EmptySet DEF BreakTicks
  <1> QED
    BY <1>1, <1>2 DEF Day!Init, PhaseOf, ClockInOf, SinceOf, ClockOutOf, WorkedOf

LEMMA DayNext ==
  ASSUME IInv, SInv, [Next]_vars
  PROVE  [Day!Next]_(Day!vars)
  <1>1. CASE UNCHANGED <<records, breaks>>
    <2>1. \A j : SameDay(j)
      BY <1>1 DEF SameDay, BreaksOf
    <2> QED
      BY <2>1, SameDaySameView, DayStays
  <1>2. ASSUME NEW h \in Handlers,
               ClockInStep(h) \/ BreakStep(h) \/ ClockOutStep(h) \/ QueryStep(h)
                 \/ Reply(h) \/ Abort(h)
        PROVE  [Day!Next]_(Day!vars)
    BY <1>1, <1>2, OthersLeaveTables, ClockInOpensDay, InsertStartsBreak, StatusIsNotSeen,
       CloseEndsBreak, WriteClosesDay
       DEF ClockInStep, BreakStep, ClockOutStep
  <1>3. CASE Tick \/ UNCHANGED vars
    BY <1>1, <1>3 DEF Tick, vars, tables
  <1> QED
    BY <1>2, <1>3 DEF Next

(***************************************************************************)
(* Statement by statement, with other handlers in between, the service     *)
(* leads each day through the life AttendanceDay promises.                 *)
(***************************************************************************)
THEOREM ServiceImplementsDay ==
  ASSUME SerialClients, ~ Faults
  PROVE  Spec => ImplementsDay
  <1>1. IInv /\ SInv /\ [Next]_vars => [Day!Next]_(Day!vars)
    BY DayNext
  <1> QED
    BY <1>1, DayInit, SerialInvariance, PTL DEF Spec, ImplementsDay, Day!Spec
=============================================================================
