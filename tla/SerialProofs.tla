----------------------------- MODULE SerialProofs -----------------------------
(***************************************************************************)
(* Proofs about the attendance service when each employee's app waits for  *)
(* its answers and no statement fails, for any number of employees,        *)
(* handlers, breaks and days: the status column, the breaks, the stored    *)
(* totals and the answers tell the same story, although every statement is *)
(* committed by itself.                                                    *)
(***************************************************************************)
EXTENDS AttendanceProofs

-----------------------------------------------------------------------------
(* The inductive invariant. *)

\* An employee has one request under way at most.
OneEach ==
  \A g, h \in Handlers :
    pc[g] # "idle" /\ pc[h] # "idle" /\ loc[g].emp = loc[h].emp => g = h

\* The minutes of row k are those its times and breaks imply.
TotalsOK(k) ==
  LET row == records[k] IN
    /\ row.working = WorkedMinutes(row.clockInAt, row.clockOutAt,
                                   Minutes(BreakTicksUntil(k, row.clockOutAt)))
    /\ row.overtime = IF row.schedOut = NULL THEN 0
                      ELSE NonNegative(Minutes(row.clockOutAt - row.schedOut))

DayOK(k) ==
  /\ records[k] = NULL => BreaksOf(k) = {}
  /\ \A a, b \in OpenBreaks(k) : a = b
  /\ records[k] # NULL =>
       /\ records[k].status = "clocked_out" <=> records[k].clockOutAt # NULL
       /\ records[k].status = "clocked_out" => OpenBreaks(k) = {} /\ TotalsOK(k)

\* The status of row k says whether a break is open.
StatusAgrees(k) ==
  records[k] # NULL => (records[k].status = "on_break" <=> OpenBreaks(k) # {})

\* Handler h stands between two writes of one request.
MidWriteAt(h) == pc[h] \in {"sb_status", "eb_status", "co_sum", "co_write"}

\* The operations that reach a label.
OpsAt(p) ==
  CASE p \in {"ci_read", "ci_insert"} -> {"clock_in"}
    [] p \in {"sb_read", "sb_insert", "sb_status"} -> {"start_break"}
    [] p \in {"eb_read", "eb_open", "eb_close", "eb_status"} -> {"end_break"}
    [] p \in {"co_read", "co_close", "co_sum", "co_write"} -> {"clock_out", "clock_out_offline"}
    [] p \in {"pv_read", "pv_sum", "pv_open"} -> {"preview"}
    [] p \in {"ts_read", "ts_open"} -> {"today"}
    [] OTHER -> AllOps

\* The minutes of break a preview shows at instant t.
ShownMinutes(k, t) ==
  IF OpenBreaks(k) = {} THEN {SumBreakMinutes(k)}
  ELSE {SumBreakMinutes(k) + Minutes(t - breaks[b].start) : b \in OpenBreaks(k)}

\* A success with the locals r is true of the tables.
AnswerOK(r) ==
  LET k == <<r.emp, r.date>> IN
    /\ r.op = "clock_in" =>
         records[k] # NULL /\ records[k].status = "clocked_in" /\ records[k].clockInAt = r.at
    /\ r.op = "start_break" =>
         /\ records[k].status = "on_break"
         /\ OpenBreaks(k) # {} /\ \A b \in OpenBreaks(k) : breaks[b].start = r.at
    /\ r.op = "end_break" =>
         /\ records[k].status = "clocked_in"
         /\ OpenBreaks(k) = {} /\ \E b \in BreaksOf(k) : breaks[b].end = r.at
    /\ r.op \in {"clock_out", "clock_out_offline"} =>
         records[k].status = "clocked_out" /\ records[k].clockOutAt = r.at
    /\ r.op = "preview" =>
         /\ records[k] # NULL /\ records[k].status # "clocked_out" /\ r.row = records[k]
         /\ r.mins \in ShownMinutes(k, r.at)
    /\ r.op = "today" /\ r.row # NULL => (r.row.status = "on_break" <=> r.open # NULL)

\* What a handler with the locals r knows of its day at label p.
Knows(p, r) ==
  LET k == <<r.emp, r.date>> IN
    /\ r.op \in OpsAt(p)
    /\ p \in HoldsRow => r.row = records[k]
    /\ p \in Found => records[k].status # "clocked_out"
    /\ p = "sb_insert" => records[k].status = "clocked_in" /\ OpenBreaks(k) = {}
    /\ p = "sb_status" =>
         /\ records[k].status = "clocked_in"
         /\ OpenBreaks(k) # {} /\ \A b \in OpenBreaks(k) : breaks[b].start = r.at
    /\ p = "eb_close" => OpenBreaks(k) # {}
    /\ p = "eb_status" =>
         /\ records[k].status = "on_break"
         /\ OpenBreaks(k) = {} /\ \E b \in BreaksOf(k) : breaks[b].end = r.at
    /\ p \in {"co_sum", "co_write"} => OpenBreaks(k) = {}
    /\ p \in {"co_write", "pv_open"} => r.mins = SumBreakMinutes(k)
    /\ p \in {"pv_open", "ts_open"} => records[k].status = "on_break"
    /\ p \in {"ts_read", "ts_open"} => r.open = NULL
    /\ p = "reply" /\ r.answer = "ok" => AnswerOK(r)

SInv ==
  /\ OneEach
  /\ \A k \in Keys : DayOK(k)
  /\ \A k \in Keys : StatusAgrees(k) \/ \E h \in Handlers : MidWriteAt(h) /\ KeyOf(h) = k
  /\ \A h \in Handlers : pc[h] # "idle" => Knows(pc[h], loc[h])

-----------------------------------------------------------------------------
(* What a step of one handler leaves alone. *)

\* Row j and its breaks are not touched.
SameDay(j) ==
  /\ records'[j] = records[j]
  /\ BreaksOf(j)' = BreaksOf(j)
  /\ \A b \in BreaksOf(j) : breaks'[b] = breaks[b]

LEMMA SameBreaks ==
  ASSUME NEW j, SameDay(j)
  PROVE  /\ OpenBreaks(j)' = OpenBreaks(j)
         /\ ClosedBreaks(j)' = ClosedBreaks(j)
  BY DEF SameDay, OpenBreaks, ClosedBreaks

LEMMA SameTicks ==
  ASSUME NEW j, SameDay(j)
  PROVE  BreakTicks(j)' = BreakTicks(j)
  <1>1. ClosedBreaks(j)' = ClosedBreaks(j)
    BY SameBreaks
  <1>2. \A b \in ClosedBreaks(j) : breaks'[b] = breaks[b]
    BY DEF SameDay, ClosedBreaks
  <1> DEFINE All == ClosedBreaks(j) \X Times
  <1>3. \A p \in All : breaks'[p[1]] = breaks[p[1]]
    BY <1>2
  <1>4. /\ {p \in All : breaks'[p[1]].start <= p[2] /\ p[2] < breaks'[p[1]].end}
             = {p \in All : breaks[p[1]].start <= p[2] /\ p[2] < breaks[p[1]].end}
        /\ {p \in All : breaks'[p[1]].end <= p[2] /\ p[2] < breaks'[p[1]].start}
             = {p \in All : breaks[p[1]].end <= p[2] /\ p[2] < breaks[p[1]].start}
    BY <1>3
  <1> QED
    BY <1>1, <1>4 DEF BreakTicks

LEMMA SameTicksUntil ==
  ASSUME NEW j, SameDay(j), NEW t
  PROVE  BreakTicksUntil(j, t)' = BreakTicksUntil(j, t)
  <1> DEFINE All == BreaksOf(j) \X Times
             endOf(b) == IF breaks[b].end = NULL THEN t ELSE breaks[b].end
             endNext(b) == IF breaks'[b].end = NULL THEN t ELSE breaks'[b].end
  <1>1. \A p \in All : breaks'[p[1]] = breaks[p[1]]
    BY DEF SameDay
  <1>2. \A p \in All : endNext(p[1]) = endOf(p[1])
    BY <1>1
  <1> HIDE DEF endOf, endNext
  <1>3. /\ {p \in All : breaks'[p[1]].start <= p[2] /\ p[2] < endNext(p[1])}
             = {p \in All : breaks[p[1]].start <= p[2] /\ p[2] < endOf(p[1])}
        /\ {p \in All : endNext(p[1]) <= p[2] /\ p[2] < breaks'[p[1]].start}
             = {p \in All : endOf(p[1]) <= p[2] /\ p[2] < breaks[p[1]].start}
    BY <1>1, <1>2
  <1>4. BreaksOf(j)' = BreaksOf(j)
    BY DEF SameDay
  <1> QED
    BY <1>3, <1>4 DEF BreakTicksUntil, endOf, endNext

(* What the invariant says of a day depends on that day alone. *)
LEMMA SameDayStays ==
  ASSUME NEW j, SameDay(j)
  PROVE  /\ DayOK(j) => DayOK(j)'
         /\ StatusAgrees(j) => StatusAgrees(j)'
  <1>1. /\ OpenBreaks(j)' = OpenBreaks(j) /\ BreaksOf(j)' = BreaksOf(j)
        /\ records'[j] = records[j]
    BY SameBreaks DEF SameDay
  <1>2. \A t : BreakTicksUntil(j, t)' = BreakTicksUntil(j, t)
    BY SameTicksUntil
  <1>3. TotalsOK(j) => TotalsOK(j)'
    BY <1>1, <1>2 DEF TotalsOK
  <1> QED
    BY <1>1, <1>3 DEF DayOK, StatusAgrees

(* What a handler knows rests on its locals and on the day it works on. *)
LEMMA SameKnowledge ==
  ASSUME NEW p, NEW r, Knows(p, r), SameDay(<<r.emp, r.date>>)
  PROVE  Knows(p, r)'
  <1> DEFINE k == <<r.emp, r.date>>
  <1>1. /\ OpenBreaks(k)' = OpenBreaks(k) /\ BreaksOf(k)' = BreaksOf(k)
        /\ records'[k] = records[k] /\ SumBreakMinutes(k)' = SumBreakMinutes(k)
    BY SameBreaks, SameTicks DEF SameDay, SumBreakMinutes
  <1>2. \A b \in BreaksOf(k) : breaks'[b] = breaks[b]
    BY DEF SameDay
  <1>3. \A b \in OpenBreaks(k) : breaks'[b] = breaks[b]
    BY <1>2 DEF OpenBreaks
  <1>4. \A t : ShownMinutes(k, t)' = ShownMinutes(k, t)
    BY <1>1, <1>3 DEF ShownMinutes
  <1>5. AnswerOK(r) => AnswerOK(r)'
    BY <1>1, <1>2, <1>3, <1>4 DEF AnswerOK
  <1> QED
    BY <1>1, <1>2, <1>3, <1>5 DEF Knows

(* The day a serving handler works on. *)
LEMMA OwnDay ==
  ASSUME IInv, SInv, NEW h \in Handlers, pc[h] # "idle"
  PROVE  /\ KeyOf(h) \in Keys /\ Knows(pc[h], loc[h]) /\ DayOK(KeyOf(h))
         /\ ~ MidWriteAt(h) => StatusAgrees(KeyOf(h))
  <1>1. KeyOf(h) \in Keys
    BY ServingFacts
  <1>2. ASSUME NEW g \in Handlers, MidWriteAt(g), KeyOf(g) = KeyOf(h)
        PROVE  g = h
    BY <1>2 DEF SInv, OneEach, MidWriteAt, KeyOf
  <1> QED
    BY <1>1, <1>2 DEF SInv

(***************************************************************************)
(* A step of handler h keeps the invariant if it touches no day but its    *)
(* own, leaves that one in order and leaves h knowing where it stands.     *)
(***************************************************************************)
LEMMA TurnKeeps ==
  ASSUME IInv, SInv, NEW h \in Handlers, pc[h] # "idle", NEW k, k = KeyOf(h),
         NEW p, NEW r, GotoWith(h, p, r), p # "idle" => r.emp = loc[h].emp,
         \A j \in Keys \ {k} : SameDay(j),
         DayOK(k)', StatusAgrees(k)' \/ (MidWriteAt(h)' /\ KeyOf(h)' = k),
         p # "idle" => Knows(p, r)'
  PROVE  SInv'
  <1>1. /\ pc'[h] = p /\ loc'[h] = r
        /\ \A g \in Handlers \ {h} : pc'[g] = pc[g] /\ loc'[g] = loc[g]
    BY DEF IInv, LocalsOK, GotoWith
  <1>2. OneEach'
    BY <1>1 DEF SInv, OneEach
  <1>3. \A j \in Keys : DayOK(j)'
    BY SameDayStays DEF SInv
  <1>4. ASSUME NEW g \in Handlers \ {h}, pc[g] # "idle"
        PROVE  <<loc[g].emp, loc[g].date>> \in Keys \ {k}
    <2>1. loc[g].emp # loc[h].emp
      BY <1>4 DEF SInv, OneEach
    <2> QED
      BY <1>4, <2>1, ServingFacts DEF KeyOf
  <1>5. ASSUME NEW j \in Keys
        PROVE  StatusAgrees(j)' \/ \E g \in Handlers : MidWriteAt(g)' /\ KeyOf(g)' = j
    <2>1. CASE j = k
      BY <2>1
    <2>2. CASE j # k
      <3>1. CASE StatusAgrees(j)
        BY <2>2, <3>1, SameDayStays
      <3>2. ASSUME NEW g \in Handlers, MidWriteAt(g), KeyOf(g) = j
            PROVE  MidWriteAt(g)' /\ KeyOf(g)' = j
        BY <1>1, <2>2, <3>2 DEF MidWriteAt, KeyOf
      <3> QED
        BY <3>1, <3>2 DEF SInv
    <2> QED
      BY <2>1, <2>2
  <1>6. ASSUME NEW g \in Handlers, pc'[g] # "idle"
        PROVE  Knows(pc[g], loc[g])'
    <2>1. CASE g = h
      BY <1>1, <1>6, <2>1
    <2>2. CASE g # h
      <3>1. pc[g] # "idle" /\ Knows(pc[g], loc[g])
        BY <1>1, <1>6, <2>2 DEF SInv
      <3>2. PICK q, s : q = pc[g] /\ s = loc[g]
        OBVIOUS
      <3>3. SameDay(<<s.emp, s.date>>)
        BY <1>4, <2>2, <3>1, <3>2
      <3>4. Knows(q, s)'
        BY <3>1, <3>2, <3>3, SameKnowledge
      <3> QED
        BY <1>1, <2>2, <3>2, <3>4
    <2> QED
      BY <2>1, <2>2
  <1> QED
    BY <1>2, <1>3, <1>5, <1>6 DEF SInv

(* A step that writes no table. *)
LEMMA QuietTurn ==
  ASSUME IInv, SInv, NEW h \in Handlers, pc[h] # "idle", NEW p, NEW r, GotoWith(h, p, r),
         p # "idle" => r.emp = loc[h].emp /\ Knows(p, r),
         MidWriteAt(h) => p = "co_write" /\ r.date = loc[h].date,
         UNCHANGED <<records, breaks>>
  PROVE  SInv'
  <1>1. PICK k : k = KeyOf(h)
    OBVIOUS
  <1>2. \A j : SameDay(j)
    BY DEF SameDay, BreaksOf
  <1>3. DayOK(k)'
    BY <1>1, <1>2, OwnDay, SameDayStays
  <1>4. StatusAgrees(k)' \/ (MidWriteAt(h)' /\ KeyOf(h)' = k)
    <2>1. CASE MidWriteAt(h)
      BY <1>1, <2>1 DEF IInv, LocalsOK, GotoWith, MidWriteAt, KeyOf
    <2>2. CASE ~ MidWriteAt(h)
      BY <1>1, <1>2, <2>2, OwnDay, SameDayStays
    <2> QED
      BY <2>1, <2>2
  <1>5. Knows(p, r) => Knows(p, r)'
    BY <1>2, SameKnowledge
  <1> QED
    BY <1>1, <1>2, <1>3, <1>4, <1>5, TurnKeeps

(* A request arrives from an app that waits for no other. *)
LEMMA ReceiveTurn ==
  ASSUME SerialClients, IInv, SInv, NEW h \in Handlers, NEW p, NEW r, Receive(h, r, p),
         p \in {"ci_read", "sb_read", "eb_read", "co_read", "pv_read", "ts_read"},
         r.op \in OpsAt(p), r.open = NULL
  PROVE  SInv'
  <1>1. /\ pc[h] = "idle" /\ UNCHANGED <<records, breaks>>
        /\ \A g \in Handlers : pc[g] # "idle" => loc[g].emp # r.emp
        /\ pc'[h] = p /\ loc'[h] = r
        /\ \A g \in Handlers \ {h} : pc'[g] = pc[g] /\ loc'[g] = loc[g]
    BY DEF Receive, tables, MaySend, Busy, IInv, LocalsOK, GotoWith
  <1>2. \A j : SameDay(j)
    BY <1>1 DEF SameDay, BreaksOf
  <1>3. OneEach'
    BY <1>1 DEF SInv, OneEach
  <1>4. \A j \in Keys : DayOK(j)'
    BY <1>2, SameDayStays DEF SInv
  <1>5. ASSUME NEW j \in Keys
        PROVE  StatusAgrees(j)' \/ \E g \in Handlers : MidWriteAt(g)' /\ KeyOf(g)' = j
    <2>1. CASE StatusAgrees(j)
      BY <1>2, <2>1, SameDayStays
    <2>2. ASSUME NEW g \in Handlers, MidWriteAt(g), KeyOf(g) = j
          PROVE  MidWriteAt(g)' /\ KeyOf(g)' = j
      BY <1>1, <2>2 DEF MidWriteAt, KeyOf
    <2> QED
      BY <2>1, <2>2 DEF SInv
  <1>6. Knows(p, r)
    BY DEF Knows, HoldsRow, Found
  <1>7. ASSUME NEW g \in Handlers, pc'[g] # "idle"
        PROVE  Knows(pc[g], loc[g])'
    <2>1. CASE g = h
      <3>1. Knows(p, r)'
        BY <1>2, <1>6, SameKnowledge
      <3> QED
        BY <1>1, <2>1, <3>1
    <2>2. CASE g # h
      <3>1. PICK q, s : q = pc[g] /\ s = loc[g]
        OBVIOUS
      <3>2. Knows(q, s)
        BY <1>1, <1>7, <2>2, <3>1 DEF SInv
      <3>3. Knows(q, s)'
        BY <1>2, <3>2, SameKnowledge
      <3> QED
        BY <1>1, <2>2, <3>1, <3>3
    <2> QED
      BY <2>1, <2>2
  <1> QED
    BY <1>3, <1>4, <1>5, <1>7 DEF SInv

-----------------------------------------------------------------------------
(* The local variables an assignment leaves alone. *)

LEMMA AnswerSet ==
  ASSUME NEW r \in Requests, NEW a
  PROVE  LET s == [r EXCEPT !.answer = a] IN
           /\ s.answer = a
           /\ s.op = r.op /\ s.emp = r.emp /\ s.at = r.at /\ s.date = r.date
           /\ s.row = r.row /\ s.mins = r.mins /\ s.open = r.open
  BY DEF Requests

LEMMA RowSet ==
  ASSUME NEW r \in Requests, NEW x
  PROVE  LET s == [r EXCEPT !.row = x] IN
           /\ s.row = x
           /\ s.op = r.op /\ s.emp = r.emp /\ s.at = r.at /\ s.date = r.date
           /\ s.offline = r.offline
           /\ s.mins = r.mins /\ s.open = r.open /\ s.answer = r.answer
  BY DEF Requests

LEMMA MinsSet ==
  ASSUME NEW r \in Requests, NEW m
  PROVE  LET s == [r EXCEPT !.mins = m] IN
           /\ s.mins = m
           /\ s.op = r.op /\ s.emp = r.emp /\ s.at = r.at /\ s.date = r.date
           /\ s.offline = r.offline
           /\ s.row = r.row /\ s.open = r.open /\ s.answer = r.answer
  BY DEF Requests

LEMMA DoneSet ==
  ASSUME NEW r \in Requests
  PROVE  LET s == [r EXCEPT !.answer = "ok", !.row = NULL, !.mins = 0] IN
           /\ s.answer = "ok" /\ s.op = r.op /\ s.emp = r.emp /\ s.at = r.at /\ s.date = r.date
           /\ s.offline = r.offline
  BY DEF Requests

LEMMA ReadSet ==
  ASSUME NEW r \in Requests, NEW x
  PROVE  LET s == [r EXCEPT !.row = x, !.answer = "ok"] IN
           /\ s.row = x /\ s.answer = "ok"
           /\ s.op = r.op /\ s.emp = r.emp /\ s.at = r.at /\ s.date = r.date
           /\ s.offline = r.offline /\ s.open = r.open
  BY DEF Requests

LEMMA OpenSet ==
  ASSUME NEW r \in Requests, NEW t
  PROVE  LET s == [r EXCEPT !.answer = "ok", !.open = t] IN
           /\ s.open = t /\ s.answer = "ok"
           /\ s.op = r.op /\ s.emp = r.emp /\ s.at = r.at /\ s.date = r.date
           /\ s.offline = r.offline /\ s.row = r.row
  BY DEF Requests

LEMMA ShownSet ==
  ASSUME NEW r \in Requests, NEW m
  PROVE  LET s == [r EXCEPT !.mins = m, !.answer = "ok"] IN
           /\ s.mins = m /\ s.answer = "ok"
           /\ s.op = r.op /\ s.emp = r.emp /\ s.at = r.at /\ s.date = r.date
           /\ s.offline = r.offline /\ s.row = r.row
  BY DEF Requests

LEMMA NotesSet ==
  ASSUME NEW op, NEW e, NEW t, NEW d, NEW n
  PROVE  LET s == [Request(op, e, t, d) EXCEPT !.notes = n] IN s.op = op /\ s.open = NULL
  BY DEF Request

LEMMA OfflineSet ==
  ASSUME NEW op, NEW e, NEW t, NEW d, NEW n
  PROVE  LET s == [Request(op, e, t, d) EXCEPT !.offline = TRUE, !.notes = n] IN
           s.op = op /\ s.open = NULL
  BY DEF Request

LEMMA RefuseSet ==
  ASSUME NEW op, NEW e, NEW d, NEW error
  PROVE  LET s == [Request(op, e, 0, d) EXCEPT !.answer = error] IN
           s.op = op /\ s.emp = e /\ s.answer = error
  BY DEF Request

-----------------------------------------------------------------------------
(* Every action keeps the invariant. *)

LEMMA RefuseTurn ==
  ASSUME IInv, SInv, NEW h \in Handlers, pc[h] # "idle", ~ MidWriteAt(h),
         NEW error \in Answers \ {"ok"}, Refuse(h, error), UNCHANGED <<records, breaks>>
  PROVE  SInv'
  <1>1. PICK r : r = [Request(loc[h].op, loc[h].emp, 0, DateOf(0, ServerZone))
                        EXCEPT !.answer = error]
    OBVIOUS
  <1>2. r.op = loc[h].op /\ r.emp = loc[h].emp /\ r.answer # "ok"
    BY <1>1, RefuseSet
  <1>3. GotoWith(h, "reply", r)
    BY <1>1 DEF Refuse
  <1>4. loc[h].op \in AllOps
    BY ServingFacts DEF Requests
  <1>5. Knows("reply", r)
    BY <1>2, <1>4 DEF Knows, OpsAt, HoldsRow, Found
  <1> QED
    BY <1>2, <1>3, <1>5, QuietTurn

LEMMA GoTurn ==
  ASSUME IInv, SInv, NEW h \in Handlers, pc[h] # "idle", ~ MidWriteAt(h), NEW p, p # "idle",
         Goto(h, p), Knows(p, loc[h]), UNCHANGED <<records, breaks>>
  PROVE  SInv'
  <1>1. PICK r : r = loc[h]
    OBVIOUS
  <1>2. GotoWith(h, p, r)
    BY <1>1, GotoKeepsLocals DEF IInv
  <1> QED
    BY <1>1, <1>2, QuietTurn

(* A step that writes one row of attendance_records. *)
LEMMA RowWritten ==
  ASSUME IInv, NEW k \in Keys, NEW row, records' = [records EXCEPT ![k] = row],
         UNCHANGED breaks
  PROVE  /\ records'[k] = row
         /\ BreaksOf(k)' = BreaksOf(k) /\ OpenBreaks(k)' = OpenBreaks(k)
         /\ \A t : BreakTicksUntil(k, t)' = BreakTicksUntil(k, t)
         /\ \A j \in Keys \ {k} : SameDay(j)
  <1>1. /\ records'[k] = row
        /\ \A j \in Keys \ {k} : records'[j] = records[j]
    BY DEF IInv, RecordsOK
  <1>2. \A j : BreaksOf(j)' = BreaksOf(j)
    BY DEF BreaksOf
  <1>3. OpenBreaks(k)' = OpenBreaks(k)
    BY <1>2 DEF OpenBreaks
  <1>4. \A t : BreakTicksUntil(k, t)' = BreakTicksUntil(k, t)
    BY <1>2 DEF BreakTicksUntil
  <1> QED
    BY <1>1, <1>2, <1>3, <1>4 DEF SameDay

LEMMA ClockInInserts ==
  ASSUME IInv, SInv, NEW h \in Handlers, pc[h] = "ci_insert", records[KeyOf(h)] = NULL,
         NEW s \in Schedules, records' = [records EXCEPT ![KeyOf(h)] = NewRecord(h, s)],
         Done(h), UNCHANGED breaks
  PROVE  SInv'
  <1>1. PICK k, row, r : /\ k = KeyOf(h) /\ row = NewRecord(h, s)
                         /\ r = [loc[h] EXCEPT !.answer = "ok", !.row = NULL, !.mins = 0]
    OBVIOUS
  <1>2. k \in Keys /\ Knows("ci_insert", loc[h]) /\ BreaksOf(k) = {} /\ loc[h] \in Requests
    BY <1>1, OwnDay, ServingFacts DEF DayOK
  <1>3. /\ records'[k] = row
        /\ BreaksOf(k)' = {} /\ OpenBreaks(k)' = {}
        /\ \A j \in Keys \ {k} : SameDay(j)
    BY <1>1, <1>2, RowWritten DEF OpenBreaks
  <1>4. /\ r.op = "clock_in" /\ <<r.emp, r.date>> = k /\ r.at = loc[h].at
        /\ r.emp = loc[h].emp
    BY <1>1, <1>2, DoneSet DEF Knows, OpsAt, KeyOf
  <1>5. row.status = "clocked_in" /\ row.clockInAt = r.at /\ row.clockOutAt = NULL
    BY <1>1, <1>4 DEF NewRecord
  <1>6. row # NULL
    BY <1>1, NewRecordIsRow, NullAssumption DEF RowOK
  <1>7. DayOK(k)' /\ StatusAgrees(k)'
    BY <1>3, <1>5, <1>6 DEF DayOK, StatusAgrees
  <1>8. Knows("reply", r)'
    BY <1>3, <1>4, <1>5, <1>6 DEF Knows, OpsAt, AllOps, HoldsRow, Found, AnswerOK
  <1>9. GotoWith(h, "reply", r)
    BY <1>1 DEF Done
  <1> QED
    BY <1>1, <1>3, <1>4, <1>7, <1>8, <1>9, TurnKeeps

LEMMA ClockInTurn ==
  ASSUME SerialClients, IInv, SInv, NEW h \in Handlers, ClockInStep(h)
  PROVE  SInv'
  <1>1. CASE ReceiveClockIn(h)
    <2>1. PICK e \in Employees, n \in Maybe(Notes) :
            Receive(h, [Now("clock_in", e) EXCEPT !.notes = n], "ci_read")
      BY <1>1 DEF ReceiveClockIn
    <2>2. PICK r : r = [Now("clock_in", e) EXCEPT !.notes = n]
      OBVIOUS
    <2>3. r.op \in OpsAt("ci_read") /\ r.open = NULL
      BY <2>2, NotesSet DEF Now, OpsAt
    <2>4. Receive(h, r, "ci_read")
      BY <2>1, <2>2
    <2> QED
      BY <2>3, <2>4, ReceiveTurn
  <1>2. CASE ClockInRead(h)
    <2>1. /\ pc[h] = "ci_read" /\ ~ MidWriteAt(h) /\ UNCHANGED <<records, breaks>>
          /\ Knows("ci_read", loc[h])
      BY <1>2, OwnDay DEF ClockInRead, At, tables, MidWriteAt
    <2>2. CASE Goto(h, "ci_insert")
      <3>1. Knows("ci_insert", loc[h])
        BY <2>1 DEF Knows, OpsAt, HoldsRow, Found
      <3> QED
        BY <2>1, <2>2, <3>1, GoTurn
    <2>3. CASE Refuse(h, "already_clocked_in")
      BY <2>1, <2>3, RefuseTurn DEF Answers
    <2> QED
      BY <1>2, <2>2, <2>3 DEF ClockInRead
  <1>3. CASE ClockInInsert(h)
    <2>1. pc[h] = "ci_insert" /\ ~ MidWriteAt(h) /\ UNCHANGED breaks
      BY <1>3 DEF ClockInInsert, At, MidWriteAt
    <2>2. CASE Refuse(h, "failed") /\ UNCHANGED records
      BY <2>1, <2>2, RefuseTurn DEF Answers
    <2> QED
      BY <1>3, <2>1, <2>2, ClockInInserts DEF ClockInInsert
  <1> QED
    BY <1>1, <1>2, <1>3 DEF ClockInStep

(* The breaks of a row after a break has started. *)
LEMMA BreakStarted ==
  ASSUME IInv, NEW k \in Keys, NEW t \in Times, StartBreak(k, t), UNCHANGED records
  PROVE  \E b \in BreakIds :
           /\ BreaksOf(k)' = BreaksOf(k) \cup {b} /\ b \notin BreaksOf(k)
           /\ OpenBreaks(k)' = OpenBreaks(k) \cup {b}
           /\ ClosedBreaks(k)' = ClosedBreaks(k)
           /\ breaks'[b].start = t
           /\ \A c \in BreaksOf(k) : breaks'[c] = breaks[c]
           /\ \A j \in Keys \ {k} : SameDay(j)
  <1>1. PICK row : row = [rec |-> k, start |-> t, end |-> NULL]
    OBVIOUS
  <1>2. row.rec = k /\ row.start = t /\ row.end = NULL /\ row # NULL
    <2>1. row \in BreakRows
      BY <1>1 DEF BreakRows, Maybe
    <2> QED
      BY <1>1, <2>1, NullAssumption
  <1>3. PICK b \in BreakIds : breaks[b] = NULL /\ breaks' = [breaks EXCEPT ![b] = row]
    BY <1>1 DEF StartBreak
  <1>4. \A c \in BreakIds : breaks'[c] = IF c = b THEN row ELSE breaks[c]
    BY <1>3 DEF IInv, BreaksOK
  <1>5. /\ BreaksOf(k)' = BreaksOf(k) \cup {b} /\ b \notin BreaksOf(k)
        /\ \A c \in BreaksOf(k) : breaks'[c] = breaks[c]
    BY <1>2, <1>3, <1>4 DEF BreaksOf
  <1>6. /\ OpenBreaks(k)' = OpenBreaks(k) \cup {b}
        /\ ClosedBreaks(k)' = ClosedBreaks(k)
    BY <1>2, <1>4, <1>5 DEF OpenBreaks, ClosedBreaks
  <1>7. ASSUME NEW j \in Keys \ {k}
        PROVE  SameDay(j)
    BY <1>2, <1>3, <1>4 DEF SameDay, BreaksOf
  <1> QED
    BY <1>2, <1>4, <1>5, <1>6, <1>7

(* The breaks of a row after its open ones have ended. *)
LEMMA BreaksEnded ==
  ASSUME IInv, NEW k \in Keys, NEW t \in Times, EndLatestBreak(k, t), UNCHANGED records
  PROVE  /\ BreaksOf(k)' = BreaksOf(k)
         /\ OpenBreaks(k)' = {}
         /\ \A b \in OpenBreaks(k) : breaks'[b].end = t /\ breaks'[b].start = breaks[b].start
         /\ \A b \in ClosedBreaks(k) : breaks'[b] = breaks[b]
         /\ \A j \in Keys \ {k} : SameDay(j)
  <1>1. t # NULL
    BY NullAssumption DEF Times
  <1>2. ASSUME NEW b \in OpenBreaks(k)
        PROVE  /\ breaks'[b] # NULL /\ breaks'[b].rec = k
               /\ breaks'[b].end = t /\ breaks'[b].start = breaks[b].start
    <2>1. PICK row : row = breaks[b]
      OBVIOUS
    <2>2. b \in BreakIds /\ row \in BreakRows /\ row.rec = k
      BY <2>1 DEF OpenBreaks, BreaksOf, IInv, BreaksOK, BreakOK
    <2>3. breaks'[b] = [row EXCEPT !.end = t]
      BY <2>1, <2>2 DEF EndLatestBreak
    <2>4. LET new == [row EXCEPT !.end = t] IN
            new \in BreakRows /\ new.rec = row.rec /\ new.end = t /\ new.start = row.start
      BY <2>2 DEF BreakRows, Maybe
    <2> QED
      BY <2>1, <2>2, <2>3, <2>4, NullAssumption
  <1>3. \A b \in BreakIds \ OpenBreaks(k) : breaks'[b] = breaks[b]
    BY DEF EndLatestBreak
  <1>4. \A b \in OpenBreaks(k) : b \in BreakIds /\ breaks[b] # NULL /\ breaks[b].rec = k
    BY DEF OpenBreaks, BreaksOf
  <1>5. BreaksOf(k)' = BreaksOf(k)
    BY <1>2, <1>3, <1>4 DEF BreaksOf
  <1>6. OpenBreaks(k)' = {}
    BY <1>1, <1>2, <1>3, <1>5 DEF OpenBreaks, BreaksOf
  <1>7. \A b \in ClosedBreaks(k) : breaks'[b] = breaks[b]
    BY <1>3 DEF ClosedBreaks, OpenBreaks, BreaksOf
  <1>8. ASSUME NEW j \in Keys \ {k}
        PROVE  SameDay(j)
    BY <1>2, <1>3, <1>4 DEF SameDay, BreaksOf
  <1> QED
    BY <1>2, <1>5, <1>6, <1>7, <1>8

LEMMA StartBreakTurn ==
  ASSUME IInv, SInv, NEW h \in Handlers, StartBreakInsert(h)
  PROVE  SInv'
  <1>1. PICK k, r : k = KeyOf(h) /\ r = loc[h]
    OBVIOUS
  <1>2. /\ pc[h] = "sb_insert" /\ UNCHANGED records
        /\ StartBreak(k, r.at) /\ GotoWith(h, "sb_status", r)
    BY <1>1, GotoKeepsLocals DEF StartBreakInsert, At, IInv
  <1>3. /\ k \in Keys /\ r.at \in Times /\ k = <<r.emp, r.date>>
        /\ Knows("sb_insert", r) /\ DayOK(k) /\ records[k] # NULL
    BY <1>1, <1>2, OwnDay, ServingFacts, FoundFacts DEF Requests, KeyOf, Found
  <1>4. OpenBreaks(k) = {} /\ records[k].status = "clocked_in" /\ r.op = "start_break"
    BY <1>3 DEF Knows, OpsAt
  <1>5. PICK b \in BreakIds : /\ OpenBreaks(k)' = {b} /\ breaks'[b].start = r.at
                              /\ \A j \in Keys \ {k} : SameDay(j)
    BY <1>2, <1>3, <1>4, BreakStarted
  <1>6. DayOK(k)'
    BY <1>2, <1>3, <1>4, <1>5 DEF DayOK
  <1>7. Knows("sb_status", r)'
    BY <1>2, <1>3, <1>4, <1>5 DEF Knows, OpsAt, HoldsRow, Found
  <1>8. MidWriteAt(h)' /\ KeyOf(h)' = k
    BY <1>1, <1>2 DEF GotoWith, IInv, LocalsOK, MidWriteAt, KeyOf
  <1> QED
    BY <1>1, <1>2, <1>5, <1>6, <1>7, <1>8, TurnKeeps

(* A row whose status is written keeps its other columns. *)
LEMMA StatusSet ==
  ASSUME NEW row \in Rows, NEW s \in Statuses
  PROVE  LET new == [row EXCEPT !.status = s] IN
           /\ new \in Rows /\ new # NULL /\ new.status = s
           /\ new.clockInAt = row.clockInAt /\ new.clockOutAt = row.clockOutAt
           /\ new.schedOut = row.schedOut /\ new.working = row.working
           /\ new.overtime = row.overtime /\ new.offline = row.offline
           /\ new.notes = row.notes
  BY NullAssumption DEF Rows

LEMMA StatusTurn ==
  ASSUME IInv, SInv, NEW h \in Handlers, StartBreakStatus(h) \/ EndBreakStatus(h)
  PROVE  SInv'
  <1>1. PICK s \in Statuses :
          /\ \/ pc[h] = "sb_status" /\ s = "on_break"
             \/ pc[h] = "eb_status" /\ s = "clocked_in"
          /\ UpdateStatus(KeyOf(h), s) /\ Done(h) /\ UNCHANGED breaks
    BY DEF StartBreakStatus, EndBreakStatus, At, Statuses
  <1>2. PICK k, row, r :
          /\ k = KeyOf(h) /\ row = [records[k] EXCEPT !.status = s]
          /\ r = [loc[h] EXCEPT !.answer = "ok", !.row = NULL, !.mins = 0]
    OBVIOUS
  <1>3. /\ k \in Keys /\ k = <<loc[h].emp, loc[h].date>> /\ loc[h] \in Requests
        /\ Knows(pc[h], loc[h]) /\ DayOK(k)
        /\ records[k] \in Rows /\ records[k] # NULL
    BY <1>1, <1>2, OwnDay, ServingFacts, FoundFacts DEF KeyOf, Found, RowOK
  <1>4. /\ row # NULL /\ row.status = s /\ row.clockOutAt = records[k].clockOutAt
    BY <1>2, <1>3, StatusSet
  <1>5. /\ r.op = loc[h].op /\ r.at = loc[h].at /\ r.emp = loc[h].emp
        /\ <<r.emp, r.date>> = k
    BY <1>2, <1>3, DoneSet
  <1>6. GotoWith(h, "reply", r)
    BY <1>1, <1>2 DEF Done
  <1>7. /\ records'[k] = row
        /\ BreaksOf(k)' = BreaksOf(k) /\ OpenBreaks(k)' = OpenBreaks(k)
        /\ \A j \in Keys \ {k} : SameDay(j)
    BY <1>1, <1>2, <1>3, RowWritten DEF UpdateStatus
  <1>8. records[k].clockOutAt = NULL
    BY <1>1, <1>3 DEF DayOK, Knows
  <1>9. DayOK(k)'
    BY <1>1, <1>3, <1>4, <1>7, <1>8 DEF DayOK
  <1>10. CASE pc[h] = "sb_status"
    <2>1. /\ r.op = "start_break" /\ OpenBreaks(k) # {} /\ s = "on_break"
          /\ \A b \in OpenBreaks(k) : breaks[b].start = r.at
      BY <1>1, <1>3, <1>5, <1>10 DEF Knows, OpsAt
    <2>2. StatusAgrees(k)'
      BY <1>4, <1>7, <2>1 DEF StatusAgrees
    <2>3. AnswerOK(r)'
      BY <1>1, <1>4, <1>5, <1>7, <2>1 DEF AnswerOK
    <2>4. Knows("reply", r)'
      BY <2>1, <2>3 DEF Knows, OpsAt, AllOps, HoldsRow, Found
    <2> QED
      BY <1>2, <1>5, <1>6, <1>7, <1>9, <1>10, <2>2, <2>4, TurnKeeps
  <1>11. CASE pc[h] = "eb_status"
    <2>1. /\ r.op = "end_break" /\ OpenBreaks(k) = {} /\ s = "clocked_in"
          /\ \E b \in BreaksOf(k) : breaks[b].end = r.at
      BY <1>1, <1>3, <1>5, <1>11 DEF Knows, OpsAt
    <2>2. StatusAgrees(k)'
      BY <1>4, <1>7, <2>1 DEF StatusAgrees
    <2>3. AnswerOK(r)'
      BY <1>1, <1>4, <1>5, <1>7, <2>1 DEF AnswerOK
    <2>4. Knows("reply", r)'
      BY <2>1, <2>3 DEF Knows, OpsAt, AllOps, HoldsRow, Found
    <2> QED
      BY <1>2, <1>5, <1>6, <1>7, <1>9, <1>11, <2>2, <2>4, TurnKeeps
  <1> QED
    BY <1>1, <1>10, <1>11

LEMMA EndBreakTurn ==
  ASSUME IInv, SInv, NEW h \in Handlers, EndBreakClose(h)
  PROVE  SInv'
  <1>1. PICK k, r : k = KeyOf(h) /\ r = loc[h]
    OBVIOUS
  <1>2. /\ pc[h] = "eb_close" /\ ~ MidWriteAt(h) /\ UNCHANGED records
        /\ EndLatestBreak(k, r.at) /\ GotoWith(h, "eb_status", r)
    BY <1>1, GotoKeepsLocals DEF EndBreakClose, At, MidWriteAt, IInv
  <1>3. /\ k \in Keys /\ r.at \in Times /\ k = <<r.emp, r.date>>
        /\ Knows("eb_close", r) /\ DayOK(k) /\ StatusAgrees(k) /\ records[k] # NULL
    BY <1>1, <1>2, OwnDay, ServingFacts, FoundFacts DEF Requests, KeyOf, Found
  <1>4. OpenBreaks(k) # {} /\ records[k].status = "on_break" /\ r.op = "end_break"
    BY <1>3 DEF Knows, OpsAt, StatusAgrees
  <1>5. /\ OpenBreaks(k)' = {} /\ \A j \in Keys \ {k} : SameDay(j)
        /\ \E b \in BreaksOf(k)' : breaks'[b].end = r.at
    BY <1>2, <1>3, <1>4, BreaksEnded DEF OpenBreaks
  <1>6. DayOK(k)'
    BY <1>2, <1>3, <1>4, <1>5 DEF DayOK
  <1>7. Knows("eb_status", r)'
    BY <1>2, <1>3, <1>4, <1>5 DEF Knows, OpsAt, HoldsRow, Found
  <1>8. MidWriteAt(h)' /\ KeyOf(h)' = k
    BY <1>1, <1>2 DEF GotoWith, IInv, LocalsOK, MidWriteAt, KeyOf
  <1> QED
    BY <1>1, <1>2, <1>5, <1>6, <1>7, <1>8, TurnKeeps

LEMMA BreakTurn ==
  ASSUME SerialClients, IInv, SInv, NEW h \in Handlers, BreakStep(h)
  PROVE  SInv'
  <1>1. CASE ReceiveStartBreak(h) \/ ReceiveEndBreak(h)
    <2>1. PICK op, e, p : /\ Receive(h, Now(op, e), p)
                          /\ <<op, p>> \in {<<"start_break", "sb_read">>, <<"end_break", "eb_read">>}
      BY <1>1 DEF ReceiveStartBreak, ReceiveEndBreak
    <2>2. Now(op, e).op \in OpsAt(p) /\ Now(op, e).open = NULL
      BY <2>1 DEF Now, Request, OpsAt
    <2> QED
      BY <2>1, <2>2, ReceiveTurn
  <1>2. CASE StartBreakRead(h)
    <2>1. /\ pc[h] = "sb_read" /\ ~ MidWriteAt(h) /\ UNCHANGED <<records, breaks>>
          /\ Knows("sb_read", loc[h]) /\ StatusAgrees(KeyOf(h))
      BY <1>2, OwnDay DEF StartBreakRead, At, tables, MidWriteAt
    <2>2. CASE \E error \in Answers \ {"ok"} : Refuse(h, error)
      BY <2>1, <2>2, RefuseTurn
    <2>3. CASE /\ records[KeyOf(h)] # NULL /\ records[KeyOf(h)].status = "clocked_in"
               /\ Goto(h, "sb_insert")
      <3>1. Knows("sb_insert", loc[h])
        BY <2>1, <2>3 DEF Knows, OpsAt, HoldsRow, Found, StatusAgrees, KeyOf
      <3> QED
        BY <2>1, <2>3, <3>1, GoTurn
    <2> QED
      BY <1>2, <2>2, <2>3 DEF StartBreakRead, Answers
  <1>3. CASE EndBreakRead(h)
    <2>1. /\ pc[h] = "eb_read" /\ ~ MidWriteAt(h) /\ UNCHANGED <<records, breaks>>
          /\ Knows("eb_read", loc[h])
      BY <1>3, OwnDay DEF EndBreakRead, At, tables, MidWriteAt
    <2>2. CASE \E error \in Answers \ {"ok"} : Refuse(h, error)
      BY <2>1, <2>2, RefuseTurn
    <2>3. CASE records[KeyOf(h)].status # "clocked_out" /\ Goto(h, "eb_open")
      <3>1. Knows("eb_open", loc[h])
        BY <2>1, <2>3 DEF Knows, OpsAt, HoldsRow, Found, KeyOf
      <3> QED
        BY <2>1, <2>3, <3>1, GoTurn
    <2> QED
      BY <1>3, <2>2, <2>3 DEF EndBreakRead, Answers
  <1>4. CASE EndBreakOpen(h)
    <2>1. /\ pc[h] = "eb_open" /\ ~ MidWriteAt(h) /\ UNCHANGED <<records, breaks>>
          /\ Knows("eb_open", loc[h])
      BY <1>4, OwnDay DEF EndBreakOpen, At, tables, MidWriteAt
    <2>2. CASE Refuse(h, "not_on_break")
      BY <2>1, <2>2, RefuseTurn DEF Answers
    <2>3. CASE OpenBreaks(KeyOf(h)) # {} /\ Goto(h, "eb_close")
      <3>1. Knows("eb_close", loc[h])
        BY <2>1, <2>3 DEF Knows, OpsAt, HoldsRow, Found, KeyOf
      <3> QED
        BY <2>1, <2>3, <3>1, GoTurn
    <2> QED
      BY <1>4, <2>2, <2>3 DEF EndBreakOpen
  <1> QED
    BY <1>1, <1>2, <1>3, <1>4, StartBreakTurn, StatusTurn, EndBreakTurn DEF BreakStep

(* Time past the end of the schedule, as the code computes it and as defined. *)
LEMMA PastIsClamped ==
  ASSUME NEW out \in Int, NEW scheduled \in Int
  PROVE  MinutesPast(out, scheduled) = NonNegative(Minutes(out - scheduled))
  <1>1. CASE out > scheduled
    <2>1. Minutes(out - scheduled) >= 0
      BY <1>1, PastIsNat DEF MinutesPast
    <2> QED
      BY <1>1, <2>1, MinutesIsInt DEF MinutesPast, NonNegative
  <1>2. CASE ~ (out > scheduled)
    <2>1. scheduled - out \in Nat
      BY <1>2
    <2>2. (scheduled - out) \div MinuteLength \in Nat
      BY <2>1, ClockAssumption, SMTT(30)
    <2>3. CASE out = scheduled
      <3>1. (out - scheduled) \div MinuteLength = 0
        BY <2>3, ClockAssumption, SMTT(30)
      <3> QED
        BY <1>2, <2>3, <3>1 DEF MinutesPast, Minutes, NonNegative
    <2>4. CASE out # scheduled
      <3>1. Minutes(out - scheduled) = - ((scheduled - out) \div MinuteLength)
        BY <1>2, <2>4 DEF Minutes
      <3> HIDE DEF Minutes
      <3> QED
        BY <1>2, <2>2, <3>1 DEF MinutesPast, NonNegative
    <2> QED
      BY <2>3, <2>4
  <1> QED
    BY <1>1, <1>2

(* Without an open break the breaks count the same whenever they are asked. *)
LEMMA ClosedTicks ==
  ASSUME NEW k, OpenBreaks(k) = {}, NEW t
  PROVE  BreakTicksUntil(k, t) = BreakTicks(k)
  <1>1. ClosedBreaks(k) = BreaksOf(k) /\ \A b \in BreaksOf(k) : breaks[b].end # NULL
    BY DEF OpenBreaks, ClosedBreaks
  <1> DEFINE All == BreaksOf(k) \X Times
             endOf(b) == IF breaks[b].end = NULL THEN t ELSE breaks[b].end
  <1>2. \A p \in All : endOf(p[1]) = breaks[p[1]].end
    BY <1>1
  <1> HIDE DEF endOf
  <1>3. /\ {p \in All : breaks[p[1]].start <= p[2] /\ p[2] < endOf(p[1])}
             = {p \in All : breaks[p[1]].start <= p[2] /\ p[2] < breaks[p[1]].end}
        /\ {p \in All : endOf(p[1]) <= p[2] /\ p[2] < breaks[p[1]].start}
             = {p \in All : breaks[p[1]].end <= p[2] /\ p[2] < breaks[p[1]].start}
    BY <1>2
  <1> QED
    BY <1>1, <1>3 DEF BreakTicksUntil, BreakTicks, endOf

(* The columns a clock-out writes. *)
LEMMA ClockedOutSet ==
  ASSUME IInv, NEW h \in Handlers, NEW row \in Rows
  PROVE  LET new == ClockedOut(row, h) IN
           /\ new.status = "clocked_out" /\ new.clockInAt = row.clockInAt
           /\ new.clockOutAt = loc[h].at /\ new.schedOut = row.schedOut
           /\ new.offline = loc[h].offline
           /\ new.working = WorkedMinutes(loc[h].row.clockInAt, loc[h].at, loc[h].mins)
           /\ new.overtime = IF loc[h].row.schedOut = NULL THEN 0
                             ELSE MinutesPast(loc[h].at, loc[h].row.schedOut)
           /\ new.notes = IF NotesToWrite(h) # NULL THEN NotesToWrite(h) ELSE row.notes
  BY DEF ClockedOut, Rows

LEMMA ClockOutWrites ==
  ASSUME IInv, SInv, NEW h \in Handlers, ClockOutWrite(h)
  PROVE  SInv'
  <1>1. PICK k, old, row, r :
          /\ k = KeyOf(h) /\ old = records[k] /\ row = ClockedOut(old, h)
          /\ r = [loc[h] EXCEPT !.answer = "ok", !.row = NULL, !.mins = 0]
    OBVIOUS
  <1>2. /\ pc[h] = "co_write" /\ UNCHANGED breaks /\ GotoWith(h, "reply", r)
        /\ records' = [records EXCEPT ![k] = row]
    BY <1>1 DEF ClockOutWrite, At, Done
  <1>3. /\ k \in Keys /\ k = <<loc[h].emp, loc[h].date>> /\ loc[h] \in Requests
        /\ Knows("co_write", loc[h]) /\ DayOK(k)
        /\ old \in Rows /\ row \in Rows /\ row # NULL /\ loc[h].at \in Int
    BY <1>1, <1>2, OwnDay, ServingFacts, FoundFacts, ClockedOutIsRow, NullAssumption
       DEF KeyOf, Found, RowOK
  <1>4. /\ loc[h].op \in {"clock_out", "clock_out_offline"}
        /\ loc[h].row = old /\ OpenBreaks(k) = {}
        /\ loc[h].mins = Minutes(BreakTicks(k))
    BY <1>1, <1>3 DEF Knows, OpsAt, HoldsRow, SumBreakMinutes
  <1>5. /\ row.status = "clocked_out" /\ row.clockOutAt = loc[h].at
        /\ row.clockInAt = old.clockInAt /\ row.schedOut = old.schedOut
        /\ row.working = WorkedMinutes(old.clockInAt, loc[h].at, Minutes(BreakTicks(k)))
        /\ row.overtime = IF old.schedOut = NULL THEN 0
                          ELSE MinutesPast(loc[h].at, old.schedOut)
    BY <1>1, <1>3, <1>4, ClockedOutSet
  <1>6. /\ r.op = loc[h].op /\ r.at = loc[h].at /\ r.emp = loc[h].emp
        /\ <<r.emp, r.date>> = k
    BY <1>1, <1>3, DoneSet
  <1>7. /\ records'[k] = row
        /\ BreaksOf(k)' = BreaksOf(k) /\ OpenBreaks(k)' = {}
        /\ \A t : BreakTicksUntil(k, t)' = BreakTicks(k)
        /\ \A j \in Keys \ {k} : SameDay(j)
    BY <1>2, <1>3, <1>4, RowWritten, ClosedTicks
  <1>8. TotalsOK(k)'
    <2>1. old.schedOut \in Maybe(Int)
      BY <1>3 DEF Rows
    <2>2. old.schedOut # NULL =>
            MinutesPast(loc[h].at, old.schedOut) = NonNegative(Minutes(loc[h].at - old.schedOut))
      BY <1>3, <2>1, PastIsClamped DEF Maybe
    <2> QED
      BY <1>5, <1>7, <2>2 DEF TotalsOK
  <1>9. loc[h].at # NULL
    BY <1>3, NullAssumption
  <1>10. DayOK(k)' /\ StatusAgrees(k)'
    BY <1>3, <1>5, <1>7, <1>8, <1>9 DEF DayOK, StatusAgrees
  <1>11. AnswerOK(r)'
    BY <1>4, <1>5, <1>6, <1>7 DEF AnswerOK
  <1>12. Knows("reply", r)'
    BY <1>4, <1>6, <1>11 DEF Knows, OpsAt, AllOps, HoldsRow, Found
  <1> QED
    BY <1>1, <1>2, <1>6, <1>7, <1>10, <1>12, TurnKeeps

LEMMA ClockOutCloses ==
  ASSUME IInv, SInv, NEW h \in Handlers, ClockOutClose(h)
  PROVE  SInv'
  <1>1. PICK k, r : k = KeyOf(h) /\ r = loc[h]
    OBVIOUS
  <1>2. /\ pc[h] = "co_close" /\ UNCHANGED records
        /\ EndLatestBreak(k, r.at) /\ GotoWith(h, "co_sum", r)
    BY <1>1, GotoKeepsLocals DEF ClockOutClose, At, IInv
  <1>3. /\ k \in Keys /\ r.at \in Times /\ k = <<r.emp, r.date>>
        /\ Knows("co_close", r) /\ DayOK(k) /\ records[k] # NULL
    BY <1>1, <1>2, OwnDay, ServingFacts, FoundFacts DEF Requests, KeyOf, Found
  <1>4. OpenBreaks(k)' = {} /\ \A j \in Keys \ {k} : SameDay(j)
    BY <1>2, <1>3, BreaksEnded
  <1>5. DayOK(k)'
    BY <1>2, <1>3, <1>4 DEF DayOK, Knows, Found
  <1>6. Knows("co_sum", r)'
    BY <1>2, <1>3, <1>4 DEF Knows, OpsAt, HoldsRow, Found
  <1>7. MidWriteAt(h)' /\ KeyOf(h)' = k
    BY <1>1, <1>2 DEF GotoWith, IInv, LocalsOK, MidWriteAt, KeyOf
  <1> QED
    BY <1>1, <1>2, <1>4, <1>5, <1>6, <1>7, TurnKeeps

LEMMA ReceiveClockOutTurn ==
  ASSUME SerialClients, IInv, SInv, NEW h \in Handlers,
         ReceiveClockOut(h) \/ ReceiveOfflineClockOut(h)
  PROVE  SInv'
  <1>1. CASE ReceiveClockOut(h)
    <2>1. PICK e, n : Receive(h, [Now("clock_out", e) EXCEPT !.notes = n], "co_read")
      BY <1>1 DEF ReceiveClockOut
    <2>2. PICK r : r = [Now("clock_out", e) EXCEPT !.notes = n]
      OBVIOUS
    <2>3. r.op \in OpsAt("co_read") /\ r.open = NULL
      BY <2>2, NotesSet DEF Now, OpsAt
    <2>4. Receive(h, r, "co_read")
      BY <2>1, <2>2
    <2> QED
      BY <2>3, <2>4, ReceiveTurn
  <1>2. CASE ReceiveOfflineClockOut(h)
    <2>1. PICK e, n, t, z :
            Receive(h, [Request("clock_out_offline", e, t, WorkDate(t, z, clock))
                          EXCEPT !.offline = TRUE, !.notes = n], "co_read")
      BY <1>2 DEF ReceiveOfflineClockOut
    <2>2. PICK r : r = [Request("clock_out_offline", e, t, WorkDate(t, z, clock))
                          EXCEPT !.offline = TRUE, !.notes = n]
      OBVIOUS
    <2>3. r.op \in OpsAt("co_read") /\ r.open = NULL
      BY <2>2, OfflineSet DEF OpsAt
    <2>4. Receive(h, r, "co_read")
      BY <2>1, <2>2
    <2> QED
      BY <2>3, <2>4, ReceiveTurn
  <1> QED
    BY <1>1, <1>2

LEMMA ClockOutTurn ==
  ASSUME SerialClients, IInv, SInv, NEW h \in Handlers, ClockOutStep(h)
  PROVE  SInv'
  <1>1. CASE ClockOutRead(h)
    <2>1. PICK k, r : k = KeyOf(h) /\ r = [loc[h] EXCEPT !.row = records[k]]
      OBVIOUS
    <2>2. /\ pc[h] = "co_read" /\ ~ MidWriteAt(h) /\ UNCHANGED <<records, breaks>>
          /\ Knows("co_read", loc[h]) /\ StatusAgrees(k) /\ loc[h] \in Requests
      BY <1>1, <2>1, OwnDay, ServingFacts DEF ClockOutRead, At, tables, MidWriteAt
    <2>3. /\ r.op = loc[h].op /\ r.emp = loc[h].emp /\ <<r.emp, r.date>> = k
          /\ r.row = records[k]
      BY <2>1, <2>2, RowSet DEF KeyOf
    <2>4. CASE \E error \in Answers \ {"ok"} : Refuse(h, error)
      BY <2>2, <2>4, RefuseTurn
    <2>5. CASE records[k] # NULL /\ records[k].status = "on_break" /\ GotoWith(h, "co_close", r)
      <3>1. Knows("co_close", r)
        BY <2>2, <2>3, <2>5 DEF Knows, OpsAt, HoldsRow, Found
      <3> QED
        BY <2>2, <2>3, <2>5, <3>1, QuietTurn
    <2>6. CASE records[k] # NULL /\ records[k].status = "clocked_in" /\ GotoWith(h, "co_sum", r)
      <3>1. Knows("co_sum", r)
        BY <2>2, <2>3, <2>6 DEF Knows, OpsAt, HoldsRow, Found, StatusAgrees
      <3> QED
        BY <2>2, <2>3, <2>6, <3>1, QuietTurn
    <2> QED
      BY <1>1, <2>1, <2>4, <2>5, <2>6 DEF ClockOutRead, Answers
  <1>2. CASE ClockOutSum(h)
    <2>1. PICK r : r = [loc[h] EXCEPT !.mins = SumBreakMinutes(KeyOf(h))]
      OBVIOUS
    <2>2. /\ pc[h] = "co_sum" /\ UNCHANGED <<records, breaks>>
          /\ GotoWith(h, "co_write", r)
          /\ Knows("co_sum", loc[h]) /\ loc[h] \in Requests
      BY <1>2, <2>1, OwnDay, ServingFacts DEF ClockOutSum, At, tables
    <2>3. /\ r.op = loc[h].op /\ r.emp = loc[h].emp /\ r.date = loc[h].date
          /\ r.row = loc[h].row /\ r.mins = SumBreakMinutes(<<r.emp, r.date>>)
      BY <2>1, <2>2, MinsSet DEF KeyOf
    <2>4. Knows("co_write", r)
      BY <2>2, <2>3 DEF Knows, OpsAt, HoldsRow, Found
    <2> QED
      BY <2>2, <2>3, <2>4, QuietTurn
  <1> QED
    BY <1>1, <1>2, ReceiveClockOutTurn, ClockOutCloses, ClockOutWrites DEF ClockOutStep

LEMMA PreviewTurn ==
  ASSUME IInv, SInv, NEW h \in Handlers, PreviewRead(h) \/ PreviewSum(h) \/ PreviewOpen(h)
  PROVE  SInv'
  <1>1. PICK k : k = KeyOf(h)
    OBVIOUS
  <1>2. /\ pc[h] \in {"pv_read", "pv_sum", "pv_open"} /\ ~ MidWriteAt(h)
        /\ UNCHANGED <<records, breaks>>
        /\ Knows(pc[h], loc[h]) /\ StatusAgrees(k)
        /\ loc[h] \in Requests /\ k = <<loc[h].emp, loc[h].date>>
    BY <1>1, OwnDay, ServingFacts
       DEF PreviewRead, PreviewSum, PreviewOpen, At, tables, MidWriteAt, KeyOf
  <1>3. CASE PreviewRead(h)
    <2>1. pc[h] = "pv_read"
      BY <1>3 DEF PreviewRead, At
    <2>2. CASE \E error \in Answers \ {"ok"} : Refuse(h, error)
      BY <1>2, <2>2, RefuseTurn
    <2>3. CASE /\ records[k].status # "clocked_out"
               /\ GotoWith(h, "pv_sum", [loc[h] EXCEPT !.row = records[k]])
      <3>1. PICK r : r = [loc[h] EXCEPT !.row = records[k]]
        OBVIOUS
      <3>2. /\ r.op = loc[h].op /\ r.emp = loc[h].emp /\ r.date = loc[h].date
            /\ r.row = records[k]
        BY <1>2, <3>1, RowSet
      <3>3. Knows("pv_sum", r)
        BY <1>2, <2>1, <2>3, <3>2 DEF Knows, OpsAt, HoldsRow, Found
      <3>4. GotoWith(h, "pv_sum", r)
        BY <2>3, <3>1
      <3> QED
        BY <1>2, <3>2, <3>3, <3>4, QuietTurn
    <2> QED
      BY <1>1, <1>3, <2>2, <2>3 DEF PreviewRead, Answers
  <1>4. CASE PreviewSum(h)
    <2>1. pc[h] = "pv_sum" /\ loc[h].row = records[k] /\ records[k].status # "clocked_out"
          /\ records[k] # NULL
      BY <1>1, <1>2, <1>4, FoundFacts DEF PreviewSum, At, Knows, HoldsRow, Found
    <2>2. CASE /\ loc[h].row.status = "on_break"
               /\ GotoWith(h, "pv_open", [loc[h] EXCEPT !.mins = SumBreakMinutes(k)])
      <3>1. PICK r : r = [loc[h] EXCEPT !.mins = SumBreakMinutes(k)]
        OBVIOUS
      <3>2. /\ r.op = loc[h].op /\ r.emp = loc[h].emp /\ r.date = loc[h].date
            /\ r.row = loc[h].row /\ r.mins = SumBreakMinutes(k)
        BY <1>2, <3>1, MinsSet
      <3>3. Knows("pv_open", r)
        BY <1>2, <2>1, <2>2, <3>2 DEF Knows, OpsAt, HoldsRow, Found
      <3>4. GotoWith(h, "pv_open", r)
        BY <2>2, <3>1
      <3> QED
        BY <1>2, <3>2, <3>3, <3>4, QuietTurn
    <2>3. CASE /\ loc[h].row.status # "on_break"
               /\ GotoWith(h, "reply", [loc[h] EXCEPT !.mins = SumBreakMinutes(k), !.answer = "ok"])
      <3>1. PICK r : r = [loc[h] EXCEPT !.mins = SumBreakMinutes(k), !.answer = "ok"]
        OBVIOUS
      <3>2. /\ r.op = loc[h].op /\ r.emp = loc[h].emp /\ r.date = loc[h].date
            /\ r.row = loc[h].row /\ r.mins = SumBreakMinutes(k)
        BY <1>2, <3>1, ShownSet
      <3>3. r.op = "preview" /\ OpenBreaks(k) = {}
        BY <1>2, <2>1, <2>3, <3>2 DEF Knows, OpsAt, StatusAgrees
      <3>4. AnswerOK(r)
        BY <1>2, <2>1, <3>2, <3>3 DEF AnswerOK, ShownMinutes
      <3>5. Knows("reply", r)
        BY <3>3, <3>4 DEF Knows, OpsAt, AllOps, HoldsRow, Found
      <3>6. GotoWith(h, "reply", r)
        BY <2>3, <3>1
      <3> QED
        BY <1>2, <3>2, <3>5, <3>6, QuietTurn
    <2> QED
      BY <1>1, <1>4, <2>2, <2>3 DEF PreviewSum
  <1>5. CASE PreviewOpen(h)
    <2>1. /\ pc[h] = "pv_open" /\ loc[h].row = records[k] /\ records[k].status = "on_break"
          /\ records[k] # NULL /\ loc[h].mins = SumBreakMinutes(k) /\ loc[h].op = "preview"
      BY <1>1, <1>2, <1>5, FoundFacts DEF PreviewOpen, At, Knows, HoldsRow, Found, OpsAt
    <2>2. OpenBreaks(k) # {}
      BY <1>2, <2>1 DEF StatusAgrees
    <2>3. PICK b \in OpenBreaks(k) :
            GotoWith(h, "reply", [loc[h] EXCEPT !.answer = "ok",
                                                !.mins = @ + Minutes(loc[h].at - breaks[b].start)])
      BY <1>1, <1>5, <2>2 DEF PreviewOpen
    <2>4. PICK r : r = [loc[h] EXCEPT !.answer = "ok",
                                      !.mins = @ + Minutes(loc[h].at - breaks[b].start)]
      OBVIOUS
    <2>5. /\ r.op = loc[h].op /\ r.emp = loc[h].emp /\ r.date = loc[h].date /\ r.at = loc[h].at
          /\ r.row = loc[h].row
          /\ r.mins = SumBreakMinutes(k) + Minutes(loc[h].at - breaks[b].start)
      BY <1>2, <2>1, <2>4 DEF Requests
    <2>6. AnswerOK(r)
      BY <1>2, <2>1, <2>2, <2>5 DEF AnswerOK, ShownMinutes
    <2>7. Knows("reply", r)
      BY <2>1, <2>5, <2>6 DEF Knows, OpsAt, AllOps, HoldsRow, Found
    <2>8. GotoWith(h, "reply", r)
      BY <2>3, <2>4
    <2> QED
      BY <1>2, <2>5, <2>7, <2>8, QuietTurn
  <1> QED
    BY <1>3, <1>4, <1>5

LEMMA TodayTurn ==
  ASSUME IInv, SInv, NEW h \in Handlers, TodayRead(h) \/ TodayOpen(h)
  PROVE  SInv'
  <1>1. PICK k : k = KeyOf(h)
    OBVIOUS
  <1>2. /\ pc[h] \in {"ts_read", "ts_open"} /\ ~ MidWriteAt(h)
        /\ UNCHANGED <<records, breaks>>
        /\ Knows(pc[h], loc[h]) /\ StatusAgrees(k)
        /\ loc[h] \in Requests /\ k = <<loc[h].emp, loc[h].date>>
        /\ loc[h].op = "today" /\ loc[h].open = NULL
    BY <1>1, OwnDay, ServingFacts
       DEF TodayRead, TodayOpen, At, tables, MidWriteAt, KeyOf, Knows, OpsAt
  <1>3. CASE TodayRead(h)
    <2>1. CASE /\ records[k] # NULL /\ records[k].status = "on_break"
               /\ GotoWith(h, "ts_open", [loc[h] EXCEPT !.row = records[k]])
      <3>1. PICK r : r = [loc[h] EXCEPT !.row = records[k]]
        OBVIOUS
      <3>2. /\ r.op = loc[h].op /\ r.emp = loc[h].emp /\ r.date = loc[h].date
            /\ r.row = records[k] /\ r.open = NULL
        BY <1>2, <3>1, RowSet
      <3>3. Knows("ts_open", r)
        BY <1>2, <2>1, <3>2 DEF Knows, OpsAt, HoldsRow, Found
      <3>4. GotoWith(h, "ts_open", r)
        BY <2>1, <3>1
      <3> QED
        BY <1>2, <3>2, <3>3, <3>4, QuietTurn
    <2>2. CASE /\ records[k] # NULL => records[k].status # "on_break"
               /\ GotoWith(h, "reply", [loc[h] EXCEPT !.row = records[k], !.answer = "ok"])
      <3>1. PICK r : r = [loc[h] EXCEPT !.row = records[k], !.answer = "ok"]
        OBVIOUS
      <3>2. /\ r.op = "today" /\ r.emp = loc[h].emp /\ r.row = records[k] /\ r.open = NULL
        BY <1>2, <3>1, ReadSet
      <3>3. Knows("reply", r)
        BY <2>2, <3>2 DEF Knows, OpsAt, AllOps, HoldsRow, Found, AnswerOK
      <3>4. GotoWith(h, "reply", r)
        BY <2>2, <3>1
      <3> QED
        BY <1>2, <3>2, <3>3, <3>4, QuietTurn
    <2> QED
      BY <1>1, <1>3, <2>1, <2>2 DEF TodayRead
  <1>4. CASE TodayOpen(h)
    <2>1. /\ pc[h] = "ts_open" /\ loc[h].row = records[k] /\ records[k].status = "on_break"
          /\ records[k] # NULL
      BY <1>1, <1>2, <1>4, FoundFacts DEF TodayOpen, At, Knows, HoldsRow, Found
    <2>2. OpenBreaks(k) # {}
      BY <1>2, <2>1 DEF StatusAgrees
    <2>3. PICK b \in OpenBreaks(k) :
            GotoWith(h, "reply", [loc[h] EXCEPT !.answer = "ok", !.open = breaks[b].start])
      BY <1>1, <1>4, <2>2 DEF TodayOpen
    <2>4. PICK r : r = [loc[h] EXCEPT !.answer = "ok", !.open = breaks[b].start]
      OBVIOUS
    <2>5. r.op = "today" /\ r.emp = loc[h].emp /\ r.row = records[k] /\ r.open = breaks[b].start
      BY <1>2, <2>1, <2>4, OpenSet
    <2>6. breaks[b].start # NULL
      BY NullAssumption
         DEF OpenBreaks, BreaksOf, IInv, BreaksOK, BreakOK, BreakRows, Times
    <2>7. Knows("reply", r)
      BY <2>1, <2>5, <2>6 DEF Knows, OpsAt, AllOps, HoldsRow, Found, AnswerOK
    <2>8. GotoWith(h, "reply", r)
      BY <2>3, <2>4
    <2> QED
      BY <1>2, <2>5, <2>7, <2>8, QuietTurn
  <1> QED
    BY <1>3, <1>4

LEMMA QueryTurn ==
  ASSUME SerialClients, IInv, SInv, NEW h \in Handlers, QueryStep(h)
  PROVE  SInv'
  <1>1. CASE ReceivePreview(h) \/ ReceiveToday(h)
    <2>1. PICK op, e, p : /\ Receive(h, Now(op, e), p)
                          /\ <<op, p>> \in {<<"preview", "pv_read">>, <<"today", "ts_read">>}
      BY <1>1 DEF ReceivePreview, ReceiveToday
    <2>2. Now(op, e).op \in OpsAt(p) /\ Now(op, e).open = NULL
      BY <2>1 DEF Now, Request, OpsAt
    <2> QED
      BY <2>1, <2>2, ReceiveTurn
  <1> QED
    BY <1>1, PreviewTurn, TodayTurn DEF QueryStep

LEMMA SerialInit == Init => SInv
  BY DEF Init, SInv, OneEach, DayOK, StatusAgrees, OpenBreaks, BreaksOf

LEMMA SerialNext ==
  ASSUME SerialClients, ~ Faults, IInv, SInv, [Next]_vars
  PROVE  SInv'
  <1>1. CASE UNCHANGED <<records, breaks, pc, loc>>
    <2>1. \A j : SameDay(j)
      BY <1>1 DEF SameDay, BreaksOf
    <2>2. \A p, r : Knows(p, r) => Knows(p, r)'
      BY <2>1, SameKnowledge
    <2>3. \A h \in Handlers : pc[h] # "idle" => Knows(pc[h], loc[h])'
      BY <1>1, <2>2 DEF SInv
    <2> QED
      BY <1>1, <2>1, <2>3, SameDayStays DEF SInv, OneEach, MidWriteAt, KeyOf
  <1>2. ASSUME NEW h \in Handlers, Reply(h)
        PROVE  SInv'
    <2>1. pc[h] = "reply" /\ GotoWith(h, "idle", NULL) /\ UNCHANGED <<records, breaks>>
      BY <1>2 DEF Reply, At, tables
    <2> QED
      BY <2>1, QuietTurn DEF MidWriteAt
  <1>3. ASSUME NEW h \in Handlers, ClockInStep(h) \/ BreakStep(h) \/ ClockOutStep(h) \/ QueryStep(h)
        PROVE  SInv'
    BY <1>3, ClockInTurn, BreakTurn, ClockOutTurn, QueryTurn
  <1> QED
    BY <1>1, <1>2, <1>3 DEF Next, Tick, vars, tables, Abort

(* With apps that wait and statements that succeed, the invariant always holds. *)
THEOREM SerialInvariance ==
  ASSUME SerialClients, ~ Faults
  PROVE  Spec => [](IInv /\ SInv)
  <1>1. IInv /\ SInv /\ [Next]_vars => SInv'
    BY SerialNext
  <1> QED
    BY <1>1, SerialInit, Invariance, PTL DEF Spec

-----------------------------------------------------------------------------
(* What it gives. *)

(***************************************************************************)
(* The status column and the breaks tell the same story, and a day never   *)
(* has a second open break, however the requests of different employees    *)
(* interleave.                                                             *)
(***************************************************************************)
THEOREM StatusTellsBreak ==
  ASSUME SerialClients, ~ Faults
  PROVE  Spec => []BreakStatusAgree
  <1>1. IInv /\ SInv => BreakStatusAgree
    <2> SUFFICES ASSUME SInv, NEW k \in KeysInUse
                 PROVE  /\ Cardinality(OpenBreaks(k)) <= 1
                        /\ \/ MidWrite(k)
                           \/ records[k].status = "on_break" <=> OpenBreaks(k) # {}
      BY DEF BreakStatusAgree
    <2>1. k \in Keys /\ records[k] # NULL
      BY DEF KeysInUse
    <2>2. Cardinality(OpenBreaks(k)) <= 1
      <3>1. \A a, b \in OpenBreaks(k) : a = b
        BY <2>1 DEF SInv, DayOK
      <3>2. CASE OpenBreaks(k) = {}
        BY <3>2, FS_EmptySet
      <3>3. ASSUME NEW b \in OpenBreaks(k)
            PROVE  Cardinality(OpenBreaks(k)) <= 1
        <4>1. OpenBreaks(k) = {b}
          BY <3>1
        <4> QED
          BY <4>1, FS_Singleton
      <3> QED
        BY <3>2, <3>3
    <2>3. \/ MidWrite(k)
          \/ records[k].status = "on_break" <=> OpenBreaks(k) # {}
      BY <2>1 DEF SInv, StatusAgrees, MidWrite, MidWriteAt
    <2> QED
      BY <2>2, <2>3
  <1> QED
    BY <1>1, SerialInvariance, PTL

(***************************************************************************)
(* The minutes and the overtime stored at clock-out are those the row and  *)
(* its breaks imply, and stay so.                                          *)
(***************************************************************************)
THEOREM TotalsAreThoseOfTheTables ==
  ASSUME SerialClients, ~ Faults
  PROVE  Spec => []TotalsMatchTables
  <1>1. IInv /\ SInv => TotalsMatchTables
    BY DEF SInv, DayOK, TotalsOK, TotalsMatchTables, KeysInUse
  <1> QED
    BY <1>1, SerialInvariance, PTL

(* Today's status shows when the running break started. *)
THEOREM TodayIsComplete ==
  ASSUME SerialClients, ~ Faults
  PROVE  Spec => []TodayShowsBreak
  <1>1. IInv /\ SInv => TodayShowsBreak
    BY DEF SInv, Knows, AnswerOK, TodayShowsBreak
  <1> QED
    BY <1>1, SerialInvariance, PTL

(***************************************************************************)
(* A success that is about to be answered is still true of the tables: the *)
(* employee's own app waits and nobody else writes to the day.             *)
(***************************************************************************)
THEOREM SuccessesAreTrue ==
  ASSUME SerialClients, ~ Faults
  PROVE  Spec => []SuccessIsTrue
  <1>1. IInv /\ SInv => SuccessIsTrue
    <2> SUFFICES ASSUME IInv, SInv, NEW h \in Handlers, pc[h] = "reply", loc[h].answer = "ok",
                        NEW k, k = KeyOf(h)
                 PROVE  CASE loc[h].op = "clock_in" ->
                               records[k].status = "clocked_in" /\ records[k].clockInAt = loc[h].at
                          [] loc[h].op = "start_break" ->
                               /\ records[k].status = "on_break"
                               /\ {breaks[b].start : b \in OpenBreaks(k)} = {loc[h].at}
                          [] loc[h].op = "end_break" ->
                               /\ records[k].status = "clocked_in"
                               /\ OpenBreaks(k) = {}
                               /\ \E b \in BreaksOf(k) : breaks[b].end = loc[h].at
                          [] loc[h].op \in {"clock_out", "clock_out_offline"} ->
                               records[k].status = "clocked_out" /\ records[k].clockOutAt = loc[h].at
                          [] OTHER -> TRUE
      BY DEF SuccessIsTrue
    <2>1. AnswerOK(loc[h])
      BY DEF SInv, Knows
    <2>2. loc[h].op = "start_break" => {breaks[b].start : b \in OpenBreaks(k)} = {loc[h].at}
      BY <2>1 DEF AnswerOK, KeyOf
    <2> QED
      BY <2>1, <2>2 DEF AnswerOK, KeyOf
  <1> QED
    BY <1>1, SerialInvariance, PTL

(* A handler that writes does not work on a day that is clocked out. *)
LEMMA FinalDayStep ==
  ASSUME IInv, SInv, [Next]_vars, NEW k \in KeysInUse, records[k].status = "clocked_out"
  PROVE  /\ records'[k] = records[k]
         /\ \A b \in BreakIds : breaks'[b] # breaks[b] => breaks'[b].rec # k
  <1>1. k \in Keys /\ records[k] # NULL
    BY DEF KeysInUse
  <1>2. ASSUME NEW h \in Handlers, pc[h] \in Found
        PROVE  KeyOf(h) \in Keys \ {k}
    <2>1. pc[h] # "idle"
      BY <1>2 DEF Found
    <2> QED
      BY <1>2, <2>1, OwnDay DEF Knows, KeyOf
  <1>3. CASE UNCHANGED <<records, breaks>>
    BY <1>3
  <1>4. ASSUME NEW h \in Handlers, ClockInInsert(h)
        PROVE  records'[k] = records[k] /\ UNCHANGED breaks
    BY <1>1, <1>4 DEF ClockInInsert, IInv, RecordsOK
  <1>5. ASSUME NEW h \in Handlers, pc[h] \in Found, NEW s \in Statuses,
               UpdateStatus(KeyOf(h), s)
        PROVE  records'[k] = records[k]
    BY <1>1, <1>2, <1>5 DEF UpdateStatus, IInv, RecordsOK
  <1>6. ASSUME NEW h \in Handlers, ClockOutWrite(h)
        PROVE  records'[k] = records[k] /\ UNCHANGED breaks
    <2>1. pc[h] \in Found
      BY <1>6 DEF ClockOutWrite, At, Found
    <2> QED
      BY <1>1, <1>2, <1>6, <2>1 DEF ClockOutWrite, IInv, RecordsOK
  <1>7. ASSUME NEW h \in Handlers, pc[h] \in Found, StartBreak(KeyOf(h), loc[h].at),
               UNCHANGED records, NEW b \in BreakIds, breaks'[b] # breaks[b]
        PROVE  breaks'[b].rec # k
    BY <1>2, <1>7 DEF StartBreak, IInv, BreaksOK
  <1>8. ASSUME NEW h \in Handlers, pc[h] \in Found, EndLatestBreak(KeyOf(h), loc[h].at),
               UNCHANGED records, NEW b \in BreakIds, breaks'[b] # breaks[b]
        PROVE  breaks'[b].rec # k
    <2>1. PICK row : row = breaks[b]
      OBVIOUS
    <2>2. row \in BreakRows /\ row.rec = KeyOf(h) /\ breaks'[b] = [row EXCEPT !.end = loc[h].at]
      BY <1>8, <2>1 DEF EndLatestBreak, OpenBreaks, BreaksOf, IInv, BreaksOK, BreakOK
    <2>3. [row EXCEPT !.end = loc[h].at].rec = row.rec
      BY <2>2 DEF BreakRows
    <2> QED
      BY <1>2, <1>8, <2>2, <2>3
  <1> QED
    BY <1>3, <1>4, <1>5, <1>6, <1>7, <1>8, WaysToWrite

(***************************************************************************)
(* A day that is clocked out is closed for good: no handler that found it  *)
(* open before is still at work on it.                                     *)
(***************************************************************************)
THEOREM ClockedOutDaysAreFinal ==
  ASSUME SerialClients, ~ Faults
  PROVE  Spec => ClockedOutIsFinal
  <1>1. IInv /\ SInv /\ [Next]_vars =>
          [\A k \in KeysInUse :
             records[k].status = "clocked_out" =>
               /\ records'[k] = records[k]
               /\ \A b \in BreakIds : breaks'[b] # breaks[b] => breaks'[b].rec # k]_vars
    BY FinalDayStep
  <1> QED
    BY <1>1, SerialInvariance, PTL DEF Spec, ClockedOutIsFinal

(* A handler leaves "co_write" with an answer only by writing the row. *)
LEMMA WritesToAnswer ==
  ASSUME IInv, [Next]_vars, NEW h \in Handlers, pc[h] = "co_write", pc'[h] = "reply"
  PROVE  ClockOutWrite(h)
  <1>1. ASSUME NEW g \in Handlers, NEW p, NEW r, GotoWith(g, p, r)
        PROVE  g = h
    BY <1>1 DEF GotoWith, IInv, LocalsOK
  <1>2. ASSUME NEW g \in Handlers, NEW p, Goto(g, p)
        PROVE  g = h
    BY <1>2 DEF Goto, IInv, LocalsOK
  <1>3. ASSUME NEW g \in Handlers, ClockInStep(g)
        PROVE  FALSE
    BY <1>1, <1>2, <1>3
       DEF ClockInStep, ReceiveClockIn, ClockInRead, ClockInInsert, Receive, Refuse, Done, At
  <1>4. ASSUME NEW g \in Handlers, BreakStep(g)
        PROVE  FALSE
    BY <1>1, <1>2, <1>4
       DEF BreakStep, ReceiveStartBreak, StartBreakRead, StartBreakInsert, StartBreakStatus,
           ReceiveEndBreak, EndBreakRead, EndBreakOpen, EndBreakClose, EndBreakStatus,
           Receive, Refuse, Done, At
  <1>5. ASSUME NEW g \in Handlers, QueryStep(g) \/ Reply(g)
        PROVE  FALSE
    BY <1>1, <1>2, <1>5
       DEF QueryStep, ReceivePreview, PreviewRead, PreviewSum, PreviewOpen, ReceiveToday,
           TodayRead, TodayOpen, Reply, Receive, Refuse, At
  <1>6. ASSUME NEW g \in Handlers, Abort(g)
        PROVE  FALSE
    BY <1>1, <1>6 DEF Abort, GotoWith, IInv, LocalsOK
  <1>7. ASSUME NEW g \in Handlers, ClockOutStep(g)
        PROVE  ClockOutWrite(h)
    BY <1>1, <1>2, <1>7
       DEF ClockOutStep, ReceiveClockOut, ReceiveOfflineClockOut, ClockOutRead, ClockOutClose,
           ClockOutSum, ClockOutWrite, Receive, Refuse, Done, At
  <1>8. ~ UNCHANGED vars /\ ~ Tick
    BY DEF vars, Tick
  <1> QED
    BY <1>3, <1>4, <1>5, <1>6, <1>7, <1>8 DEF Next

(***************************************************************************)
(* A clock-out without notes leaves the notes as they are: those it read   *)
(* and writes back are still the row's.                                    *)
(***************************************************************************)
THEOREM AbsentNotesAreKept ==
  ASSUME SerialClients, ~ Faults
  PROVE  Spec => AbsentNotesLeaveNotes
  <1>1. ASSUME IInv, SInv, [Next]_vars, NEW h \in Handlers,
               pc[h] = "co_write", pc'[h] = "reply", loc[h].notes = NULL
        PROVE  records'[KeyOf(h)].notes = records[KeyOf(h)].notes
    <2>1. PICK k, old : k = KeyOf(h) /\ old = records[k]
      OBVIOUS
    <2>2. /\ k \in Keys /\ old \in Rows /\ loc[h].row = old
      BY <1>1, <2>1, OwnDay, FoundFacts DEF Found, HoldsRow, RowOK, Knows, KeyOf
    <2>3. records'[k] = ClockedOut(old, h)
      BY <1>1, <2>1, <2>2, WritesToAnswer DEF ClockOutWrite, IInv, RecordsOK
    <2>4. ClockedOut(old, h).notes = old.notes
      BY <1>1, <2>2, ClockedOutSet DEF NotesToWrite
    <2> QED
      BY <2>1, <2>3, <2>4
  <1>2. IInv /\ SInv /\ [Next]_vars =>
          [\A h \in Handlers :
             pc[h] = "co_write" /\ pc'[h] = "reply" /\ loc'[h].answer = "ok" /\ loc[h].notes = NULL
               => records'[KeyOf(h)].notes = records[KeyOf(h)].notes]_vars
    BY <1>1
  <1> QED
    BY <1>2, SerialInvariance, PTL DEF Spec, AbsentNotesLeaveNotes
=============================================================================
