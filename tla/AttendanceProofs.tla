--------------------------- MODULE AttendanceProofs ---------------------------
(***************************************************************************)
(* Proofs, for any number of employees, handlers and breaks, any length of *)
(* the day and of the minute, with concurrent requests and with crashes,   *)
(* that the tables stay well formed and that history is never rewritten.   *)
(***************************************************************************)
EXTENDS AttendanceProperties, FiniteSetTheorems, TLAPS

USE DEF ServerZone

-----------------------------------------------------------------------------
(* Facts about the operators the model is built from. *)

LEMMA DateIsInt == ASSUME NEW t \in Int, NEW z \in Int PROVE DateOf(t, z) \in Int
  BY ClockAssumption DEF DateOf

(* A date read off an instant within the bound is one of the dates of the model. *)
LEMMA DateInDates ==
  ASSUME NEW t \in Times, NEW z \in ClientZones \cup {ServerZone}
  PROVE  DateOf(t, z) \in Dates
  BY DEF Dates

LEMMA DatesAreInts == Dates \subseteq Int
  BY DateIsInt, AttendanceAssumption DEF Dates, Times

LEMMA MinutesIsInt == ASSUME NEW d \in Int PROVE Minutes(d) \in Int
  BY ClockAssumption, SMTT(30) DEF Minutes

(* The clamp is what makes the stored minutes natural numbers. *)
LEMMA WorkedIsNat ==
  ASSUME NEW in \in Int, NEW out \in Int, NEW m \in Int
  PROVE  WorkedMinutes(in, out, m) \in Nat
  BY MinutesIsInt DEF WorkedMinutes, NonNegative

LEMMA PastIsNat ==
  ASSUME NEW out \in Int, NEW scheduled \in Int
  PROVE  MinutesPast(out, scheduled) \in Nat
  <1>1. CASE out > scheduled
    <2>1. out - scheduled \in Nat
      BY <1>1
    <2>2. (out - scheduled) \div MinuteLength \in Nat
      BY <2>1, ClockAssumption, SMTT(30)
    <2> QED
      BY <1>1, <2>1, <2>2 DEF MinutesPast, Minutes
  <1>2. CASE ~(out > scheduled)
    BY <1>2 DEF MinutesPast
  <1> QED
    BY <1>1, <1>2

(* The break ticks of a record are a whole number: both tick sets are finite. *)
LEMMA BreakTicksIsInt == ASSUME NEW k PROVE BreakTicks(k) \in Int
  <1> DEFINE All == ClosedBreaks(k) \X Times
  <1>1. IsFiniteSet(ClosedBreaks(k))
    BY FS_Subset, AttendanceAssumption DEF ClosedBreaks, BreaksOf
  <1>2. IsFiniteSet(Times)
    BY FS_Interval, AttendanceAssumption DEF Times
  <1>3. IsFiniteSet(All)
    BY <1>1, <1>2, FS_Product
  <1>4. \A S \in SUBSET All : Cardinality(S) \in Nat
    BY <1>3, FS_Subset, FS_CardinalityType
  <1> HIDE DEF All
  <1> DEFINE forth == {p \in All : breaks[p[1]].start <= p[2] /\ p[2] < breaks[p[1]].end}
             back  == {p \in All : breaks[p[1]].end <= p[2] /\ p[2] < breaks[p[1]].start}
  <1>5. Cardinality(forth) \in Nat /\ Cardinality(back) \in Nat
    BY <1>4
  <1>6. BreakTicks(k) = Cardinality(forth) - Cardinality(back)
    BY DEF BreakTicks, All
  <1> HIDE DEF forth, back
  <1> QED
    BY <1>5, <1>6

-----------------------------------------------------------------------------
(* The inductive invariant. *)

\* Instant t has been reached and falls on date d in some zone in use.
Stamp(t, d) ==
  /\ t \in Times
  /\ t <= clock
  /\ \E z \in ClientZones \cup {ServerZone} : DateOf(t, z) = d

RowOK(k, row) ==
  /\ row \in Rows
  /\ Stamp(row.clockInAt, k[2])
  /\ row.clockOutAt # NULL => Stamp(row.clockOutAt, k[2])

BreakOK(row) ==
  /\ row \in BreakRows
  /\ Stamp(row.start, row.rec[2])
  /\ row.end # NULL => Stamp(row.end, row.rec[2])

RecordsOK ==
  /\ records \in [Keys -> Maybe(Rows)]
  /\ \A k \in Keys : records[k] # NULL => RowOK(k, records[k])

BreaksOK ==
  /\ breaks \in [BreakIds -> Maybe(BreakRows)]
  /\ \A b \in BreakIds : breaks[b] # NULL => BreakOK(breaks[b])

\* The labels at which a handler relies on the record it has read being there ...
Found == {"sb_insert", "sb_status", "eb_open", "eb_close", "eb_status",
          "co_close", "co_sum", "co_write", "pv_sum", "pv_open", "ts_open"}

\* ... and those at which it holds a copy of it.
HoldsRow == {"co_close", "co_sum", "co_write", "pv_sum", "pv_open", "ts_open"}

\* A handler at label p with locals r.
LocalOK(p, r) ==
  /\ p \in Labels
  /\ p = "idle" => r = NULL
  /\ p # "idle" => r \in Requests /\ Stamp(r.at, r.date)
  /\ p \in HoldsRow => r.row \in Rows
  /\ p \in Found => records[<<r.emp, r.date>>] # NULL

LocalsOK ==
  /\ pc \in [Handlers -> Labels]
  /\ loc \in [Handlers -> Maybe(Requests)]
  /\ \A h \in Handlers : LocalOK(pc[h], loc[h])

IInv == clock \in Times /\ RecordsOK /\ BreaksOK /\ LocalsOK

-----------------------------------------------------------------------------
(* How a step may change what the invariant rests on. *)

\* The clock does not go back and no row is removed.
Grows ==
  /\ clock' \in Times
  /\ clock <= clock'
  /\ \A k \in Keys : records[k] # NULL => records'[k] # NULL

LEMMA StampStays ==
  ASSUME clock \in Times, Grows, NEW t, NEW d, Stamp(t, d)
  PROVE  Stamp(t, d)'
  BY DEF Stamp, Grows, Times

(* Locals that were right stay right while the tables grow. *)
LEMMA LocalStays ==
  ASSUME clock \in Times, Grows, NEW p, NEW r, LocalOK(p, r)
  PROVE  LocalOK(p, r)'
  <1>1. p # "idle" => Stamp(r.at, r.date)'
    BY StampStays DEF LocalOK
  <1>2. p \in Found => p # "idle"
    BY DEF Found
  <1>3. p # "idle" => <<r.emp, r.date>> \in Keys
    BY DEF LocalOK, Requests, Keys
  <1> QED
    BY <1>1, <1>2, <1>3 DEF LocalOK, Grows

(* A handler that moves keeps every handler's locals right if its own are. *)
LEMMA MoveKeepsLocals ==
  ASSUME clock \in Times, LocalsOK, Grows, NEW h \in Handlers, NEW p, NEW r,
         GotoWith(h, p, r), LocalOK(p, r)'
  PROVE  LocalsOK'
  <1>1. p \in Labels /\ r \in Maybe(Requests)
    BY DEF LocalOK, Maybe
  <1>2. /\ pc' = [pc EXCEPT ![h] = p]
        /\ loc' = [loc EXCEPT ![h] = r]
    BY DEF GotoWith
  <1>3. /\ pc' \in [Handlers -> Labels]
        /\ loc' \in [Handlers -> Maybe(Requests)]
    BY <1>1, <1>2 DEF LocalsOK
  <1>4. \A g \in Handlers : LocalOK(pc[g], loc[g])'
    <2> TAKE g \in Handlers
    <2>1. CASE g = h
      <3>1. pc'[g] = p /\ loc'[g] = r
        BY <1>2, <2>1 DEF LocalsOK
      <3> QED
        BY <3>1 DEF LocalOK
    <2>2. CASE g # h
      <3>1. pc'[g] = pc[g] /\ loc'[g] = loc[g]
        BY <1>2, <2>2 DEF LocalsOK
      <3>2. LocalOK(pc[g], loc[g])
        BY DEF LocalsOK
      <3>3. \A q, s : LocalOK(q, s) => LocalOK(q, s)'
        BY LocalStays
      <3> QED
        BY <3>1, <3>2, <3>3
    <2> QED
      BY <2>1, <2>2
  <1> QED
    BY <1>3, <1>4 DEF LocalsOK

(* Goto is a move that keeps the locals. *)
LEMMA GotoKeepsLocals ==
  ASSUME LocalsOK, NEW h \in Handlers, NEW p, Goto(h, p)
  PROVE  GotoWith(h, p, loc[h])
  BY DEF Goto, GotoWith, LocalsOK

(* A step that writes neither table. *)
LEMMA QuietStep ==
  ASSUME IInv, NEW h \in Handlers, NEW p, NEW r,
         GotoWith(h, p, r), LocalOK(p, r), UNCHANGED <<clock, records, breaks>>
  PROVE  IInv'
  <1>1. Grows
    BY DEF IInv, Grows, Times
  <1>2. LocalsOK'
    BY <1>1, LocalStays, MoveKeepsLocals DEF IInv
  <1> QED
    BY <1>2 DEF IInv, RecordsOK, BreaksOK, RowOK, BreakOK, Stamp

(* A step that writes one row of attendance_records. *)
LEMMA RecordStep ==
  ASSUME IInv, NEW h \in Handlers, NEW p, NEW r, NEW k \in Keys, NEW row,
         RowOK(k, row), records' = [records EXCEPT ![k] = row],
         GotoWith(h, p, r), LocalOK(p, r), UNCHANGED <<clock, breaks>>
  PROVE  IInv'
  <1>1. row \in Rows /\ row # NULL
    BY NullAssumption DEF RowOK
  <1>2. \A j \in Keys : records'[j] = IF j = k THEN row ELSE records[j]
    BY DEF IInv, RecordsOK
  <1>3. Grows
    BY <1>1, <1>2 DEF IInv, Grows, Times
  <1>4. LocalsOK'
    BY <1>3, LocalStays, MoveKeepsLocals DEF IInv
  <1>5. records' \in [Keys -> Maybe(Rows)]
    BY <1>1 DEF IInv, RecordsOK, Maybe
  <1>6. \A j \in Keys : records'[j] # NULL => RowOK(j, records[j])' \/ j = k
    BY <1>2 DEF IInv, RecordsOK, RowOK, Stamp
  <1>7. RowOK(k, records[k])'
    BY <1>2 DEF RowOK, Stamp
  <1>8. RecordsOK'
    BY <1>5, <1>6, <1>7 DEF RecordsOK
  <1> QED
    BY <1>4, <1>8 DEF IInv, BreaksOK, BreakOK, Stamp

(* A step that writes attendance_breaks. *)
LEMMA BreakWriteStep ==
  ASSUME IInv, NEW h \in Handlers, NEW p, NEW r,
         DOMAIN breaks' = BreakIds, breaks' = [b \in BreakIds |-> breaks'[b]],
         \A b \in BreakIds : breaks'[b] # NULL => BreakOK(breaks'[b]),
         GotoWith(h, p, r), LocalOK(p, r), UNCHANGED <<clock, records>>
  PROVE  IInv'
  <1>1. Grows
    BY DEF IInv, Grows, Times
  <1>2. LocalsOK'
    BY <1>1, LocalStays, MoveKeepsLocals DEF IInv
  <1>3. breaks' \in [BreakIds -> Maybe(BreakRows)]
    BY DEF BreakOK, Maybe
  <1>4. BreaksOK'
    BY <1>3 DEF BreaksOK, BreakOK, Stamp
  <1> QED
    BY <1>2, <1>4 DEF IInv, RecordsOK, RowOK, Stamp

-----------------------------------------------------------------------------
(* The locals a step leaves behind. *)

(* Assigning a local variable a value of its type leaves the rest as it was. *)
LEMMA SetAnswer ==
  ASSUME NEW r \in Requests, NEW a \in Answers
  PROVE  LET s == [r EXCEPT !.answer = a] IN
           /\ s \in Requests
           /\ s.at = r.at /\ s.emp = r.emp /\ s.date = r.date /\ s.row = r.row
  BY DEF Requests, Maybe

LEMMA SetRow ==
  ASSUME NEW r \in Requests, NEW x \in Maybe(Rows)
  PROVE  LET s == [r EXCEPT !.row = x] IN
           /\ s \in Requests
           /\ s.at = r.at /\ s.emp = r.emp /\ s.date = r.date /\ s.row = x
  BY DEF Requests

LEMMA SetMins ==
  ASSUME NEW r \in Requests, NEW m \in Int
  PROVE  LET s == [r EXCEPT !.mins = m] IN
           /\ s \in Requests
           /\ s.at = r.at /\ s.emp = r.emp /\ s.date = r.date /\ s.row = r.row
  BY DEF Requests

LEMMA SetOpen ==
  ASSUME NEW r \in Requests, NEW t \in Times
  PROVE  LET s == [r EXCEPT !.open = t] IN
           /\ s \in Requests
           /\ s.at = r.at /\ s.emp = r.emp /\ s.date = r.date /\ s.row = r.row
  BY DEF Requests, Maybe

LEMMA SetNotes ==
  ASSUME NEW r \in Requests, NEW n \in Maybe(Notes)
  PROVE  LET s == [r EXCEPT !.notes = n] IN
           s \in Requests /\ s.at = r.at /\ s.date = r.date
  BY DEF Requests

LEMMA SetOffline ==
  ASSUME NEW r \in Requests
  PROVE  LET s == [r EXCEPT !.offline = TRUE] IN
           s \in Requests /\ s.at = r.at /\ s.date = r.date
  BY DEF Requests

(* What is known of a handler that serves a request. *)
LEMMA ServingFacts ==
  ASSUME IInv, NEW h \in Handlers, pc[h] # "idle"
  PROVE  /\ loc[h] \in Requests
         /\ Stamp(loc[h].at, loc[h].date)
         /\ KeyOf(h) \in Keys /\ KeyOf(h)[2] = loc[h].date
         /\ loc[h].at \in Int /\ loc[h].date \in Int
  <1>1. loc[h] \in Requests /\ Stamp(loc[h].at, loc[h].date)
    BY DEF IInv, LocalsOK, LocalOK
  <1>2. loc[h].at \in Times /\ loc[h].date \in Dates /\ loc[h].emp \in Employees
    BY <1>1 DEF Requests
  <1>3. KeyOf(h) \in Keys /\ KeyOf(h)[2] = loc[h].date
    BY <1>2 DEF KeyOf, Keys
  <1>4. loc[h].at \in Int
    BY <1>2 DEF Times
  <1>5. loc[h].date \in Int
    BY <1>2, DatesAreInts
  <1> QED
    BY <1>1, <1>3, <1>4, <1>5

LEMMA RequestIsGood ==
  ASSUME clock \in Times, NEW op \in AllOps, NEW e \in Employees, NEW at \in Times,
         NEW z \in ClientZones \cup {ServerZone}, at <= clock
  PROVE  LET r == Request(op, e, at, DateOf(at, z)) IN
           r \in Requests /\ Stamp(r.at, r.date)
  BY DateInDates DEF Request, Requests, Maybe, Stamp

LEMMA ReplyIsGood ==
  ASSUME NEW r \in Requests, NEW a \in Answers, Stamp(r.at, r.date)
  PROVE  LocalOK("reply", [r EXCEPT !.answer = a])
  <1> DEFINE s == [r EXCEPT !.answer = a]
  <1>1. s \in Requests /\ s.at = r.at /\ s.date = r.date
    BY SetAnswer
  <1> HIDE DEF s
  <1>2. LocalOK("reply", s)
    BY <1>1 DEF LocalOK, Labels, HoldsRow, Found
  <1> QED
    BY <1>2 DEF s

LEMMA RefuseKeeps ==
  ASSUME IInv, NEW h \in Handlers, pc[h] # "idle", NEW error \in Answers,
         Refuse(h, error), UNCHANGED <<clock, records, breaks>>
  PROVE  IInv'
  <1> DEFINE r == Request(loc[h].op, loc[h].emp, 0, DateOf(0, ServerZone))
  <1>1. loc[h].op \in AllOps /\ loc[h].emp \in Employees
    BY ServingFacts DEF Requests
  <1>2. 0 \in Times /\ 0 <= clock
    BY AttendanceAssumption DEF IInv, Times
  <1>3. r \in Requests /\ Stamp(r.at, r.date)
    BY <1>1, <1>2, RequestIsGood DEF IInv
  <1>4. GotoWith(h, "reply", [r EXCEPT !.answer = error])
    BY DEF Refuse
  <1> HIDE DEF r
  <1>5. LocalOK("reply", [r EXCEPT !.answer = error])
    BY <1>3, ReplyIsGood
  <1> QED
    BY <1>4, <1>5, QuietStep

LEMMA DoneIsGood ==
  ASSUME IInv, NEW h \in Handlers, pc[h] # "idle"
  PROVE  LocalOK("reply", [loc[h] EXCEPT !.answer = "ok", !.row = NULL, !.mins = 0])
  <1> DEFINE a == [loc[h] EXCEPT !.answer = "ok"]
             b == [a EXCEPT !.row = NULL]
             c == [b EXCEPT !.mins = 0]
  <1>1. "ok" \in Answers /\ NULL \in Maybe(Rows) /\ 0 \in Int
    BY DEF Answers, Maybe
  <1>2. loc[h] \in Requests /\ Stamp(loc[h].at, loc[h].date)
    BY ServingFacts
  <1>3. a \in Requests /\ a.at = loc[h].at /\ a.date = loc[h].date
    BY <1>1, <1>2, SetAnswer
  <1> HIDE DEF a
  <1>4. b \in Requests /\ b.at = a.at /\ b.date = a.date
    BY <1>1, <1>3, SetRow
  <1> HIDE DEF b
  <1>5. c \in Requests /\ c.at = b.at /\ c.date = b.date
    BY <1>1, <1>4, SetMins
  <1> HIDE DEF c
  <1>6. LocalOK("reply", c)
    BY <1>2, <1>3, <1>4, <1>5 DEF LocalOK, Labels, HoldsRow, Found
  <1> QED
    BY <1>6 DEF a, b, c

(* A handler that keeps its employee, instant and date moves on. *)
LEMMA MoveIsGood ==
  ASSUME IInv, NEW h \in Handlers, pc[h] # "idle",
         NEW p \in Labels \ {"idle"}, NEW r \in Requests,
         r.at = loc[h].at, r.emp = loc[h].emp, r.date = loc[h].date,
         p \in Found => records[KeyOf(h)] # NULL,
         p \in HoldsRow => r.row \in Rows
  PROVE  LocalOK(p, r)
  BY ServingFacts DEF LocalOK, KeyOf

LEMMA GoKeeps ==
  ASSUME IInv, NEW h \in Handlers, pc[h] # "idle", NEW p \in Labels \ {"idle"},
         p \in Found => records[KeyOf(h)] # NULL,
         p \in HoldsRow => loc[h].row \in Rows,
         Goto(h, p), UNCHANGED <<clock, records, breaks>>
  PROVE  IInv'
  <1>1. LocalOK(p, loc[h])
    BY ServingFacts, MoveIsGood
  <1>2. GotoWith(h, p, loc[h])
    BY GotoKeepsLocals DEF IInv
  <1> QED
    BY <1>1, <1>2, QuietStep

(* What a handler knows at the label it stands at. *)
LEMMA FoundFacts ==
  ASSUME IInv, NEW h \in Handlers, pc[h] \in Found
  PROVE  /\ pc[h] # "idle"
         /\ records[KeyOf(h)] # NULL
         /\ RowOK(KeyOf(h), records[KeyOf(h)])
  <1>1. pc[h] # "idle"
    BY DEF Found
  <1>2. records[KeyOf(h)] # NULL
    BY DEF IInv, LocalsOK, LocalOK, KeyOf
  <1> QED
    BY <1>1, <1>2, ServingFacts DEF IInv, RecordsOK

LEMMA HeldRow ==
  ASSUME IInv, NEW h \in Handlers, pc[h] \in HoldsRow
  PROVE  loc[h].row \in Rows
  BY DEF IInv, LocalsOK, LocalOK

LEMMA ReadRow ==
  ASSUME IInv, NEW h \in Handlers, pc[h] # "idle", records[KeyOf(h)] # NULL
  PROVE  records[KeyOf(h)] \in Rows
  BY ServingFacts DEF IInv, RecordsOK, RowOK

LEMMA ReceiveKeeps ==
  ASSUME IInv, NEW h \in Handlers, NEW r \in Requests, Stamp(r.at, r.date),
         NEW p \in {"ci_read", "sb_read", "eb_read", "co_read", "pv_read", "ts_read"},
         Receive(h, r, p)
  PROVE  IInv'
  <1>1. LocalOK(p, r)
    BY DEF LocalOK, Labels, Found, HoldsRow
  <1> QED
    BY <1>1, QuietStep DEF Receive, tables

LEMMA NowIsGood ==
  ASSUME IInv, NEW op \in AllOps, NEW e \in Employees
  PROVE  Now(op, e) \in Requests /\ Stamp(Now(op, e).at, Now(op, e).date)
  <1>1. clock \in Times /\ clock <= clock
    BY DEF IInv, Times
  <1> QED
    BY <1>1, RequestIsGood DEF Now

-----------------------------------------------------------------------------
(* Every action keeps the invariant. *)

(* The row a clock-in inserts. *)
LEMMA ParsedIsInt == ASSUME NEW s \in Nat PROVE ParseHM(s) \in Int
  <1>1. s % MinuteLength \in Int /\ s \in Int
    BY ClockAssumption, SMTT(30)
  <1> QED
    BY <1>1 DEF ParseHM

LEMMA NewRecordIsRow ==
  ASSUME IInv, NEW h \in Handlers, pc[h] # "idle", NEW s \in Schedules
  PROVE  RowOK(KeyOf(h), NewRecord(h, s))
  <1>1. /\ loc[h] \in Requests /\ Stamp(loc[h].at, loc[h].date)
        /\ KeyOf(h)[2] = loc[h].date /\ loc[h].date \in Int
    BY ServingFacts
  <1>2. NewRecord(h, s).schedOut \in Maybe(Int)
    <2>1. CASE s = NULL
      BY <2>1 DEF NewRecord, Maybe
    <2>2. CASE s # NULL
      <3>1. ParseHM(s) \in Int /\ DayLength \in Int
        BY <2>2, ParsedIsInt, AttendanceAssumption, ClockAssumption
      <3>2. loc[h].date * DayLength + ParseHM(s) \in Int
        BY <1>1, <3>1
      <3> QED
        BY <2>2, <3>2 DEF NewRecord, Maybe
    <2> QED
      BY <2>1, <2>2
  <1>3. loc[h].at \in Times /\ loc[h].notes \in Maybe(Notes)
    BY <1>1 DEF Requests
  <1>4. NewRecord(h, s) \in Rows
    BY <1>2, <1>3 DEF NewRecord, Rows, Statuses, Maybe
  <1> QED
    BY <1>1, <1>4 DEF RowOK, NewRecord

LEMMA ClockInKeeps ==
  ASSUME IInv, NEW h \in Handlers, ClockInStep(h)
  PROVE  IInv'
  <1>1. CASE ReceiveClockIn(h)
    <2>1. PICK e \in Employees, n \in Maybe(Notes) :
            Receive(h, [Now("clock_in", e) EXCEPT !.notes = n], "ci_read")
      BY <1>1 DEF ReceiveClockIn
    <2>2. "clock_in" \in AllOps
      BY DEF AllOps
    <2>3. Now("clock_in", e) \in Requests
          /\ Stamp(Now("clock_in", e).at, Now("clock_in", e).date)
      BY <2>2, NowIsGood
    <2> DEFINE r == [Now("clock_in", e) EXCEPT !.notes = n]
    <2>4. r \in Requests /\ Stamp(r.at, r.date)
      BY <2>3, SetNotes
    <2> HIDE DEF r
    <2>5. Receive(h, r, "ci_read")
      BY <2>1 DEF r
    <2> QED
      BY <2>4, <2>5, ReceiveKeeps
  <1>2. CASE ClockInRead(h)
    <2>1. pc[h] # "idle" /\ UNCHANGED <<clock, records, breaks>>
      BY <1>2 DEF ClockInRead, At, tables
    <2>2. CASE Goto(h, "ci_insert")
      BY <2>1, <2>2, GoKeeps DEF Labels, Found, HoldsRow
    <2>3. CASE Refuse(h, "already_clocked_in")
      BY <2>1, <2>3, RefuseKeeps DEF Answers
    <2> QED
      BY <1>2, <2>2, <2>3 DEF ClockInRead
  <1>3. CASE ClockInInsert(h)
    <2>1. pc[h] # "idle" /\ UNCHANGED <<clock, breaks>>
      BY <1>3 DEF ClockInInsert, At
    <2>2. CASE Refuse(h, "failed") /\ UNCHANGED records
      BY <2>1, <2>2, RefuseKeeps DEF Answers
    <2>3. CASE /\ \E s \in Schedules : records' = [records EXCEPT ![KeyOf(h)] = NewRecord(h, s)]
               /\ Done(h)
      <3>1. PICK s \in Schedules : records' = [records EXCEPT ![KeyOf(h)] = NewRecord(h, s)]
        BY <2>3
      <3>2. KeyOf(h) \in Keys /\ RowOK(KeyOf(h), NewRecord(h, s))
        BY <2>1, ServingFacts, NewRecordIsRow
      <3>3. GotoWith(h, "reply", [loc[h] EXCEPT !.answer = "ok", !.row = NULL, !.mins = 0])
        BY <2>3 DEF Done
      <3> QED
        BY <2>1, <3>1, <3>2, <3>3, DoneIsGood, RecordStep
    <2> QED
      BY <1>3, <2>2, <2>3 DEF ClockInInsert
  <1> QED
    BY <1>1, <1>2, <1>3 DEF ClockInStep

(* A row whose status changes is still a row. *)
LEMMA StatusKeepsRow ==
  ASSUME NEW k \in Keys, NEW row, RowOK(k, row), NEW status \in Statuses
  PROVE  RowOK(k, [row EXCEPT !.status = status])
  <1> DEFINE s == [row EXCEPT !.status = status]
  <1>1. s \in Rows /\ s.clockInAt = row.clockInAt /\ s.clockOutAt = row.clockOutAt
    BY DEF RowOK, Rows
  <1> HIDE DEF s
  <1>2. RowOK(k, s)
    BY <1>1 DEF RowOK
  <1> QED
    BY <1>2 DEF s

LEMMA UpdateStatusKeeps ==
  ASSUME IInv, NEW h \in Handlers, pc[h] \in Found, NEW status \in Statuses,
         UpdateStatus(KeyOf(h), status), Done(h), UNCHANGED <<clock, breaks>>
  PROVE  IInv'
  <1> DEFINE row == [records[KeyOf(h)] EXCEPT !.status = status]
  <1>1. KeyOf(h) \in Keys /\ pc[h] # "idle"
    BY FoundFacts, ServingFacts
  <1>2. RowOK(KeyOf(h), row)
    BY <1>1, FoundFacts, StatusKeepsRow
  <1>3. records' = [records EXCEPT ![KeyOf(h)] = row]
    BY DEF UpdateStatus
  <1> HIDE DEF row
  <1>4. GotoWith(h, "reply", [loc[h] EXCEPT !.answer = "ok", !.row = NULL, !.mins = 0])
    BY DEF Done
  <1> QED
    BY <1>1, <1>2, <1>3, <1>4, DoneIsGood, RecordStep

(* Ending the open breaks of a handler's row at its instant. *)
LEMMA EndLatestBreakKeeps ==
  ASSUME IInv, NEW h \in Handlers, pc[h] # "idle", NEW p \in Labels \ {"idle"},
         p \in Found => records[KeyOf(h)] # NULL,
         p \in HoldsRow => loc[h].row \in Rows,
         EndLatestBreak(KeyOf(h), loc[h].at), Goto(h, p), UNCHANGED <<clock, records>>
  PROVE  IInv'
  <1>1. Stamp(loc[h].at, loc[h].date) /\ loc[h] \in Requests /\ KeyOf(h)[2] = loc[h].date
    BY ServingFacts
  <1>2. LocalOK(p, loc[h]) /\ GotoWith(h, p, loc[h])
    BY ServingFacts, MoveIsGood, GotoKeepsLocals DEF IInv
  <1>3. DOMAIN breaks' = BreakIds /\ breaks' = [b \in BreakIds |-> breaks'[b]]
    BY DEF EndLatestBreak
  <1>4. ASSUME NEW b \in BreakIds, breaks'[b] # NULL
        PROVE  BreakOK(breaks'[b])
    <2>1. CASE b \in OpenBreaks(KeyOf(h))
      <3> DEFINE row == breaks[b]
                 ended == [row EXCEPT !.end = loc[h].at]
      <3>1. row # NULL /\ row.rec = KeyOf(h) /\ breaks'[b] = ended
        BY <2>1 DEF OpenBreaks, BreaksOf, EndLatestBreak
      <3>2. BreakOK(row)
        BY <3>1 DEF IInv, BreaksOK
      <3> HIDE DEF row
      <3>3. /\ ended \in BreakRows
            /\ ended.rec = row.rec /\ ended.start = row.start /\ ended.end = loc[h].at
        BY <1>1, <3>2 DEF BreakOK, BreakRows, Maybe, Stamp
      <3> HIDE DEF ended
      <3> QED
        BY <1>1, <3>1, <3>2, <3>3 DEF BreakOK
    <2>2. CASE b \notin OpenBreaks(KeyOf(h))
      BY <1>4, <2>2 DEF EndLatestBreak, IInv, BreaksOK
    <2> QED
      BY <2>1, <2>2
  <1> QED
    BY <1>2, <1>3, <1>4, BreakWriteStep

LEMMA StartBreakKeeps ==
  ASSUME IInv, NEW h \in Handlers, pc[h] = "sb_insert",
         StartBreak(KeyOf(h), loc[h].at), Goto(h, "sb_status"), UNCHANGED <<clock, records>>
  PROVE  IInv'
  <1> DEFINE row == [rec |-> KeyOf(h), start |-> loc[h].at, end |-> NULL]
  <1>1. PICK b \in BreakIds : breaks[b] = NULL /\ breaks' = [breaks EXCEPT ![b] = row]
    BY DEF StartBreak
  <1>2. /\ pc[h] # "idle" /\ Stamp(loc[h].at, loc[h].date) /\ loc[h] \in Requests
        /\ KeyOf(h) \in Keys /\ KeyOf(h)[2] = loc[h].date
    BY ServingFacts
  <1>3. records[KeyOf(h)] # NULL
    BY FoundFacts DEF Found
  <1>4. LocalOK("sb_status", loc[h]) /\ GotoWith(h, "sb_status", loc[h])
    <2>1. "sb_status" \in Labels \ {"idle"} /\ "sb_status" \notin HoldsRow
      BY DEF Labels, HoldsRow
    <2> QED
      BY <1>2, <1>3, <2>1, MoveIsGood, GotoKeepsLocals DEF IInv
  <1>5. BreakOK(row)
    BY <1>2 DEF BreakOK, BreakRows, Maybe, Stamp
  <1> HIDE DEF row
  <1>6. /\ DOMAIN breaks' = BreakIds /\ breaks' = [c \in BreakIds |-> breaks'[c]]
        /\ \A c \in BreakIds : breaks'[c] = IF c = b THEN row ELSE breaks[c]
    BY <1>1 DEF IInv, BreaksOK
  <1>7. \A c \in BreakIds : breaks'[c] # NULL => BreakOK(breaks'[c])
    BY <1>5, <1>6 DEF IInv, BreaksOK
  <1> QED
    BY <1>4, <1>6, <1>7, BreakWriteStep

LEMMA BreakStepKeeps ==
  ASSUME IInv, NEW h \in Handlers, BreakStep(h)
  PROVE  IInv'
  <1>1. CASE ReceiveStartBreak(h)
    BY <1>1, NowIsGood, ReceiveKeeps DEF ReceiveStartBreak, AllOps
  <1>2. CASE StartBreakRead(h)
    <2>1. pc[h] # "idle" /\ UNCHANGED <<clock, records, breaks>>
      BY <1>2 DEF StartBreakRead, At, tables
    <2>2. CASE \E error \in Answers : Refuse(h, error)
      BY <2>1, <2>2, RefuseKeeps
    <2>3. CASE records[KeyOf(h)] # NULL /\ Goto(h, "sb_insert")
      BY <2>1, <2>3, GoKeeps DEF Labels, HoldsRow
    <2> QED
      BY <1>2, <2>2, <2>3 DEF StartBreakRead, Answers
  <1>3. CASE StartBreakInsert(h)
    BY <1>3, StartBreakKeeps DEF StartBreakInsert, At
  <1>4. CASE StartBreakStatus(h)
    BY <1>4, UpdateStatusKeeps DEF StartBreakStatus, At, Found, Statuses
  <1>5. CASE ReceiveEndBreak(h)
    BY <1>5, NowIsGood, ReceiveKeeps DEF ReceiveEndBreak, AllOps
  <1>6. CASE EndBreakRead(h)
    <2>1. pc[h] # "idle" /\ UNCHANGED <<clock, records, breaks>>
      BY <1>6 DEF EndBreakRead, At, tables
    <2>2. CASE \E error \in Answers : Refuse(h, error)
      BY <2>1, <2>2, RefuseKeeps
    <2>3. CASE records[KeyOf(h)] # NULL /\ Goto(h, "eb_open")
      BY <2>1, <2>3, GoKeeps DEF Labels, HoldsRow
    <2> QED
      BY <1>6, <2>2, <2>3 DEF EndBreakRead, Answers
  <1>7. CASE EndBreakOpen(h)
    <2>1. pc[h] # "idle" /\ UNCHANGED <<clock, records, breaks>> /\ pc[h] \in Found
      BY <1>7 DEF EndBreakOpen, At, tables, Found
    <2>2. CASE Refuse(h, "not_on_break")
      BY <2>1, <2>2, RefuseKeeps DEF Answers
    <2>3. CASE Goto(h, "eb_close")
      BY <2>1, <2>3, FoundFacts, GoKeeps DEF Labels, HoldsRow
    <2> QED
      BY <1>7, <2>2, <2>3 DEF EndBreakOpen
  <1>8. CASE EndBreakClose(h)
    BY <1>8, FoundFacts, EndLatestBreakKeeps DEF EndBreakClose, At, Found, HoldsRow, Labels
  <1>9. CASE EndBreakStatus(h)
    BY <1>9, UpdateStatusKeeps DEF EndBreakStatus, At, Found, Statuses
  <1> QED
    BY <1>1, <1>2, <1>3, <1>4, <1>5, <1>6, <1>7, <1>8, <1>9 DEF BreakStep

(* The locals of a handler that has read its record, at the label it goes to. *)
LEMMA HoldRowKeeps ==
  ASSUME IInv, NEW h \in Handlers, pc[h] # "idle", NEW p \in Labels \ {"idle"},
         records[KeyOf(h)] # NULL,
         GotoWith(h, p, [loc[h] EXCEPT !.row = records[KeyOf(h)]]),
         UNCHANGED <<clock, records, breaks>>
  PROVE  IInv'
  <1> DEFINE r == [loc[h] EXCEPT !.row = records[KeyOf(h)]]
  <1>1. records[KeyOf(h)] \in Rows /\ loc[h] \in Requests
    BY ReadRow, ServingFacts
  <1>2. /\ r \in Requests /\ r.at = loc[h].at /\ r.emp = loc[h].emp /\ r.date = loc[h].date
        /\ r.row \in Rows
    BY <1>1, SetRow DEF Maybe
  <1>3. GotoWith(h, p, r)
    OBVIOUS
  <1> HIDE DEF r
  <1>4. LocalOK(p, r)
    BY <1>2, MoveIsGood
  <1> QED
    BY <1>3, <1>4, QuietStep

LEMMA ReceiveClockOutKeeps ==
  ASSUME IInv, NEW h \in Handlers, ReceiveClockOut(h)
  PROVE  IInv'
  <1>1. PICK e \in Employees, n \in Maybe(Notes) :
          Receive(h, [Now("clock_out", e) EXCEPT !.notes = n], "co_read")
    BY DEF ReceiveClockOut
  <1>2. "clock_out" \in AllOps
    BY DEF AllOps
  <1>3. Now("clock_out", e) \in Requests
        /\ Stamp(Now("clock_out", e).at, Now("clock_out", e).date)
    BY <1>2, NowIsGood
  <1> DEFINE r == [Now("clock_out", e) EXCEPT !.notes = n]
  <1>4. r \in Requests /\ Stamp(r.at, r.date)
    BY <1>3, SetNotes
  <1> HIDE DEF r
  <1>5. Receive(h, r, "co_read")
    BY <1>1 DEF r
  <1> QED
    BY <1>4, <1>5, ReceiveKeeps

(* The validation of the client's timestamp keeps the future out of the tables. *)
LEMMA ReceiveOfflineKeeps ==
  ASSUME IInv, NEW h \in Handlers, ReceiveOfflineClockOut(h)
  PROVE  IInv'
  <1>1. PICK e \in Employees, n \in Maybe(Notes), t \in Times, z \in ClientZones :
          /\ ValidClientTimestamp(t, clock)
          /\ Receive(h, [Request("clock_out_offline", e, t, WorkDate(t, z, clock))
                           EXCEPT !.offline = TRUE, !.notes = n], "co_read")
    BY DEF ReceiveOfflineClockOut
  <1> DEFINE a == Request("clock_out_offline", e, t, WorkDate(t, z, clock))
             b == [a EXCEPT !.offline = TRUE]
             c == [b EXCEPT !.notes = n]
  <1>2. "clock_out_offline" \in AllOps /\ t <= clock /\ clock \in Times
    BY <1>1 DEF AllOps, ValidClientTimestamp, IInv
  <1>3. a \in Requests /\ Stamp(a.at, a.date)
    BY <1>2, RequestIsGood DEF WorkDate
  <1> HIDE DEF a
  <1>4. b \in Requests /\ Stamp(b.at, b.date)
    BY <1>3, SetOffline
  <1> HIDE DEF b
  <1>5. c \in Requests /\ Stamp(c.at, c.date)
    BY <1>4, SetNotes
  <1> HIDE DEF c
  <1>6. Receive(h, c, "co_read")
    BY <1>1 DEF a, b, c
  <1> QED
    BY <1>5, <1>6, ReceiveKeeps

LEMMA ClockOutSumKeeps ==
  ASSUME IInv, NEW h \in Handlers, ClockOutSum(h)
  PROVE  IInv'
  <1> DEFINE m == SumBreakMinutes(KeyOf(h))
             r == [loc[h] EXCEPT !.mins = m]
  <1>1. m \in Int
    BY BreakTicksIsInt, MinutesIsInt DEF SumBreakMinutes
  <1>2. pc[h] = "co_sum" /\ GotoWith(h, "co_write", r) /\ UNCHANGED <<clock, records, breaks>>
    BY DEF ClockOutSum, At, tables
  <1> HIDE DEF m
  <1>3. loc[h] \in Requests /\ loc[h].row \in Rows /\ records[KeyOf(h)] # NULL
    BY <1>2, ServingFacts, HeldRow, FoundFacts DEF HoldsRow, Found
  <1>4. /\ r \in Requests /\ r.at = loc[h].at /\ r.emp = loc[h].emp /\ r.date = loc[h].date
        /\ r.row = loc[h].row
    BY <1>1, <1>3, SetMins
  <1> HIDE DEF r
  <1>5. LocalOK("co_write", r)
    BY <1>2, <1>3, <1>4, MoveIsGood DEF Labels
  <1> QED
    BY <1>2, <1>5, QuietStep

(* The row a clock-out writes, whatever the row it overwrites holds by then. *)
LEMMA ClockedOutIsRow ==
  ASSUME IInv, NEW h \in Handlers, pc[h] = "co_write",
         NEW row, RowOK(KeyOf(h), row)
  PROVE  RowOK(KeyOf(h), ClockedOut(row, h))
  <1>1. /\ loc[h] \in Requests /\ Stamp(loc[h].at, loc[h].date) /\ loc[h].at \in Int
        /\ KeyOf(h)[2] = loc[h].date /\ loc[h].row \in Rows
    BY ServingFacts, HeldRow DEF HoldsRow
  <1>2. loc[h].mins \in Int /\ loc[h].offline \in BOOLEAN /\ loc[h].notes \in Maybe(Notes)
    BY <1>1 DEF Requests
  <1>3. /\ loc[h].row.clockInAt \in Int /\ loc[h].row.schedOut \in Maybe(Int)
        /\ loc[h].row.notes \in Maybe(Notes)
    BY <1>1 DEF Rows, Times
  <1> DEFINE w == WorkedMinutes(loc[h].row.clockInAt, loc[h].at, loc[h].mins)
             o == IF loc[h].row.schedOut = NULL THEN 0
                  ELSE MinutesPast(loc[h].at, loc[h].row.schedOut)
             n == IF NotesToWrite(h) # NULL THEN NotesToWrite(h) ELSE row.notes
             out == ClockedOut(row, h)
  <1>4. w \in Nat
    BY <1>1, <1>2, <1>3, WorkedIsNat
  <1>5. o \in Nat
    BY <1>1, <1>3, PastIsNat DEF Maybe
  <1>6. row \in Rows /\ row.notes \in Maybe(Notes)
    BY DEF RowOK, Rows
  <1>7. n \in Maybe(Notes)
    BY <1>2, <1>3, <1>6 DEF NotesToWrite
  <1>8. out = [row EXCEPT !.status = "clocked_out", !.clockOutAt = loc[h].at, !.working = w,
                          !.overtime = o, !.offline = loc[h].offline, !.notes = n]
    BY DEF ClockedOut
  <1> HIDE DEF w, o, n, out
  <1>9. loc[h].at \in Times
    BY <1>1 DEF Requests
  <1>10. out \in Rows /\ out.clockInAt = row.clockInAt /\ out.clockOutAt = loc[h].at
    BY <1>2, <1>4, <1>5, <1>6, <1>7, <1>8, <1>9 DEF Rows, Statuses, Maybe
  <1>11. RowOK(KeyOf(h), out)
    BY <1>1, <1>10 DEF RowOK
  <1> QED
    BY <1>11 DEF out

LEMMA ClockOutWriteKeeps ==
  ASSUME IInv, NEW h \in Handlers, ClockOutWrite(h)
  PROVE  IInv'
  <1> DEFINE row == ClockedOut(records[KeyOf(h)], h)
  <1>1. /\ pc[h] = "co_write" /\ UNCHANGED <<clock, breaks>>
        /\ records' = [records EXCEPT ![KeyOf(h)] = row]
        /\ GotoWith(h, "reply", [loc[h] EXCEPT !.answer = "ok", !.row = NULL, !.mins = 0])
    BY DEF ClockOutWrite, At, Done
  <1>2. pc[h] # "idle" /\ KeyOf(h) \in Keys
    BY <1>1, ServingFacts
  <1>3. RowOK(KeyOf(h), row)
    BY <1>1, FoundFacts, ClockedOutIsRow DEF Found
  <1> HIDE DEF row
  <1> QED
    BY <1>1, <1>2, <1>3, DoneIsGood, RecordStep

LEMMA ClockOutKeeps ==
  ASSUME IInv, NEW h \in Handlers, ClockOutStep(h)
  PROVE  IInv'
  <1>1. CASE ReceiveClockOut(h)
    BY <1>1, ReceiveClockOutKeeps
  <1>2. CASE ReceiveOfflineClockOut(h)
    BY <1>2, ReceiveOfflineKeeps
  <1>3. CASE ClockOutRead(h)
    <2>1. pc[h] # "idle" /\ UNCHANGED <<clock, records, breaks>>
      BY <1>3 DEF ClockOutRead, At, tables
    <2>2. CASE \E error \in Answers : Refuse(h, error)
      BY <2>1, <2>2, RefuseKeeps
    <2>3. CASE /\ records[KeyOf(h)] # NULL
               /\ \E p \in {"co_close", "co_sum"} :
                    GotoWith(h, p, [loc[h] EXCEPT !.row = records[KeyOf(h)]])
      BY <2>1, <2>3, HoldRowKeeps DEF Labels
    <2> QED
      BY <1>3, <2>2, <2>3 DEF ClockOutRead, Answers
  <1>4. CASE ClockOutClose(h)
    BY <1>4, FoundFacts, HeldRow, EndLatestBreakKeeps
       DEF ClockOutClose, At, Found, HoldsRow, Labels
  <1>5. CASE ClockOutSum(h)
    BY <1>5, ClockOutSumKeeps
  <1>6. CASE ClockOutWrite(h)
    BY <1>6, ClockOutWriteKeeps
  <1> QED
    BY <1>1, <1>2, <1>3, <1>4, <1>5, <1>6 DEF ClockOutStep

LEMMA SetMinsAndAnswer ==
  ASSUME NEW r \in Requests, NEW m \in Int
  PROVE  LET s == [r EXCEPT !.answer = "ok", !.mins = m] IN
           /\ s \in Requests
           /\ s.at = r.at /\ s.date = r.date
  <1> DEFINE a == [r EXCEPT !.answer = "ok"]
  <1>1. a \in Requests /\ a.at = r.at /\ a.date = r.date
    BY SetAnswer DEF Answers
  <1> DEFINE s == [a EXCEPT !.mins = m]
  <1> HIDE DEF a
  <1>2. s \in Requests /\ s.at = a.at /\ s.date = a.date
    BY <1>1, SetMins
  <1> QED
    BY <1>1, <1>2 DEF a

(* Any answer with good locals. *)
LEMMA ReplyKeeps ==
  ASSUME IInv, NEW h \in Handlers, NEW r \in Requests, Stamp(r.at, r.date),
         GotoWith(h, "reply", r), UNCHANGED <<clock, records, breaks>>
  PROVE  IInv'
  <1>1. LocalOK("reply", r)
    BY DEF LocalOK, Labels, Found, HoldsRow
  <1> QED
    BY <1>1, QuietStep

LEMMA AnswerOkKeeps ==
  ASSUME IInv, NEW h \in Handlers, NEW r \in Requests, Stamp(r.at, r.date),
         GotoWith(h, "reply", [r EXCEPT !.answer = "ok"]),
         UNCHANGED <<clock, records, breaks>>
  PROVE  IInv'
  <1> DEFINE a == [r EXCEPT !.answer = "ok"]
  <1>1. a \in Requests /\ a.at = r.at /\ a.date = r.date
    BY SetAnswer DEF Answers
  <1>2. GotoWith(h, "reply", a)
    OBVIOUS
  <1> HIDE DEF a
  <1> QED
    BY <1>1, <1>2, ReplyKeeps

LEMMA PreviewSumKeeps ==
  ASSUME IInv, NEW h \in Handlers, PreviewSum(h)
  PROVE  IInv'
  <1> DEFINE m == SumBreakMinutes(KeyOf(h))
             r == [loc[h] EXCEPT !.mins = m]
  <1>1. m \in Int
    BY BreakTicksIsInt, MinutesIsInt DEF SumBreakMinutes
  <1>2. pc[h] = "pv_sum" /\ UNCHANGED <<clock, records, breaks>>
    BY DEF PreviewSum, At, tables
  <1>3. GotoWith(h, "pv_open", r) \/ GotoWith(h, "reply", [r EXCEPT !.answer = "ok"])
    BY DEF PreviewSum
  <1> HIDE DEF m
  <1>4. /\ loc[h] \in Requests /\ Stamp(loc[h].at, loc[h].date)
        /\ loc[h].row \in Rows /\ records[KeyOf(h)] # NULL /\ pc[h] # "idle"
    BY <1>2, ServingFacts, HeldRow, FoundFacts DEF HoldsRow, Found
  <1>5. /\ r \in Requests /\ r.at = loc[h].at /\ r.emp = loc[h].emp /\ r.date = loc[h].date
        /\ r.row = loc[h].row
    BY <1>1, <1>4, SetMins
  <1> HIDE DEF r
  <1>6. CASE GotoWith(h, "pv_open", r)
    <2>1. LocalOK("pv_open", r)
      BY <1>4, <1>5, MoveIsGood DEF Labels
    <2> QED
      BY <1>2, <1>6, <2>1, QuietStep
  <1>7. CASE GotoWith(h, "reply", [r EXCEPT !.answer = "ok"])
    BY <1>2, <1>4, <1>5, <1>7, AnswerOkKeeps
  <1> QED
    BY <1>3, <1>6, <1>7

LEMMA PreviewOpenKeeps ==
  ASSUME IInv, NEW h \in Handlers, PreviewOpen(h)
  PROVE  IInv'
  <1>1. /\ pc[h] = "pv_open" /\ UNCHANGED <<clock, records, breaks>>
        /\ loc[h] \in Requests /\ Stamp(loc[h].at, loc[h].date)
    BY ServingFacts DEF PreviewOpen, At, tables
  <1>2. CASE GotoWith(h, "reply", [loc[h] EXCEPT !.answer = "ok"])
    BY <1>1, <1>2, AnswerOkKeeps
  <1>3. CASE \E b \in OpenBreaks(KeyOf(h)) :
               GotoWith(h, "reply",
                        [loc[h] EXCEPT !.answer = "ok",
                                       !.mins = @ + Minutes(loc[h].at - breaks[b].start)])
    <2>1. PICK b \in OpenBreaks(KeyOf(h)) :
               GotoWith(h, "reply",
                        [loc[h] EXCEPT !.answer = "ok",
                                       !.mins = @ + Minutes(loc[h].at - breaks[b].start)])
      BY <1>3
    <2>2. breaks[b].start \in Int /\ loc[h].at \in Int /\ loc[h].mins \in Int
      BY <1>1 DEF OpenBreaks, BreaksOf, IInv, BreaksOK, BreakOK, BreakRows, Requests, Times
    <2> DEFINE m == loc[h].mins + Minutes(loc[h].at - breaks[b].start)
               s == [loc[h] EXCEPT !.answer = "ok", !.mins = m]
    <2>3. m \in Int
      BY <2>2, MinutesIsInt
    <2>4. GotoWith(h, "reply", s)
      BY <2>1
    <2> HIDE DEF m
    <2>5. s \in Requests /\ Stamp(s.at, s.date)
      BY <1>1, <2>3, SetMinsAndAnswer
    <2> HIDE DEF s
    <2> QED
      BY <1>1, <2>4, <2>5, ReplyKeeps
  <1> QED
    BY <1>2, <1>3 DEF PreviewOpen

LEMMA TodayReadKeeps ==
  ASSUME IInv, NEW h \in Handlers, TodayRead(h)
  PROVE  IInv'
  <1> DEFINE r == [loc[h] EXCEPT !.row = records[KeyOf(h)]]
  <1>1. /\ pc[h] # "idle" /\ UNCHANGED <<clock, records, breaks>>
        /\ loc[h] \in Requests /\ Stamp(loc[h].at, loc[h].date)
    BY ServingFacts DEF TodayRead, At, tables
  <1>2. records[KeyOf(h)] \in Maybe(Rows)
    BY <1>1, ServingFacts DEF IInv, RecordsOK
  <1>3. r \in Requests /\ r.at = loc[h].at /\ r.date = loc[h].date
    BY <1>1, <1>2, SetRow
  <1>4. \/ records[KeyOf(h)] # NULL /\ GotoWith(h, "ts_open", r)
        \/ GotoWith(h, "reply", [r EXCEPT !.answer = "ok"])
    BY DEF TodayRead
  <1>5. CASE records[KeyOf(h)] # NULL /\ GotoWith(h, "ts_open", r)
    BY <1>1, <1>5, HoldRowKeeps DEF Labels
  <1>6. CASE GotoWith(h, "reply", [r EXCEPT !.answer = "ok"])
    <2> HIDE DEF r
    <2> QED
      BY <1>1, <1>3, <1>6, AnswerOkKeeps
  <1> QED
    BY <1>4, <1>5, <1>6

LEMMA TodayOpenKeeps ==
  ASSUME IInv, NEW h \in Handlers, TodayOpen(h)
  PROVE  IInv'
  <1>1. /\ pc[h] = "ts_open" /\ UNCHANGED <<clock, records, breaks>>
        /\ loc[h] \in Requests /\ Stamp(loc[h].at, loc[h].date)
    BY ServingFacts DEF TodayOpen, At, tables
  <1>2. CASE GotoWith(h, "reply", [loc[h] EXCEPT !.answer = "ok"])
    BY <1>1, <1>2, AnswerOkKeeps
  <1>3. CASE \E b \in OpenBreaks(KeyOf(h)) :
               GotoWith(h, "reply", [loc[h] EXCEPT !.answer = "ok", !.open = breaks[b].start])
    <2>1. PICK b \in OpenBreaks(KeyOf(h)) :
               GotoWith(h, "reply", [loc[h] EXCEPT !.answer = "ok", !.open = breaks[b].start])
      BY <1>3
    <2>2. breaks[b].start \in Times
      BY DEF OpenBreaks, BreaksOf, IInv, BreaksOK, BreakOK, BreakRows
    <2> DEFINE a == [loc[h] EXCEPT !.answer = "ok"]
               s == [a EXCEPT !.open = breaks[b].start]
    <2>3. a \in Requests /\ a.at = loc[h].at /\ a.date = loc[h].date
      BY <1>1, SetAnswer DEF Answers
    <2>4. GotoWith(h, "reply", s)
      BY <2>1
    <2> HIDE DEF a
    <2>5. s \in Requests /\ s.at = a.at /\ s.date = a.date
      BY <2>2, <2>3, SetOpen
    <2> HIDE DEF s
    <2> QED
      BY <1>1, <2>3, <2>4, <2>5, ReplyKeeps
  <1> QED
    BY <1>2, <1>3 DEF TodayOpen

LEMMA QueryKeeps ==
  ASSUME IInv, NEW h \in Handlers, QueryStep(h)
  PROVE  IInv'
  <1>1. CASE ReceivePreview(h)
    BY <1>1, NowIsGood, ReceiveKeeps DEF ReceivePreview, AllOps
  <1>2. CASE PreviewRead(h)
    <2>1. pc[h] # "idle" /\ UNCHANGED <<clock, records, breaks>>
      BY <1>2 DEF PreviewRead, At, tables
    <2>2. CASE \E error \in Answers : Refuse(h, error)
      BY <2>1, <2>2, RefuseKeeps
    <2>3. CASE /\ records[KeyOf(h)] # NULL
               /\ GotoWith(h, "pv_sum", [loc[h] EXCEPT !.row = records[KeyOf(h)]])
      BY <2>1, <2>3, HoldRowKeeps DEF Labels
    <2> QED
      BY <1>2, <2>2, <2>3 DEF PreviewRead, Answers
  <1>3. CASE PreviewSum(h)
    BY <1>3, PreviewSumKeeps
  <1>4. CASE PreviewOpen(h)
    BY <1>4, PreviewOpenKeeps
  <1>5. CASE ReceiveToday(h)
    BY <1>5, NowIsGood, ReceiveKeeps DEF ReceiveToday, AllOps
  <1>6. CASE TodayRead(h)
    BY <1>6, TodayReadKeeps
  <1>7. CASE TodayOpen(h)
    BY <1>7, TodayOpenKeeps
  <1> QED
    BY <1>1, <1>2, <1>3, <1>4, <1>5, <1>6, <1>7 DEF QueryStep

LEMMA LeaveKeeps ==
  ASSUME IInv, NEW h \in Handlers, Reply(h) \/ Abort(h)
  PROVE  IInv'
  <1>1. GotoWith(h, "idle", NULL) /\ UNCHANGED <<clock, records, breaks>>
    BY DEF Reply, Abort, At, tables
  <1>2. LocalOK("idle", NULL)
    BY DEF LocalOK, Labels, Found, HoldsRow
  <1> QED
    BY <1>1, <1>2, QuietStep

LEMMA TickKeeps ==
  ASSUME IInv, Tick
  PROVE  IInv'
  <1>1. Grows
    BY AttendanceAssumption DEF Tick, tables, IInv, Grows, Times
  <1>2. \A t, d : Stamp(t, d) => Stamp(t, d)'
    BY <1>1, StampStays DEF IInv
  <1>3. LocalsOK'
    <2>1. \A p, r : LocalOK(p, r) => LocalOK(p, r)'
      BY <1>1, LocalStays DEF IInv
    <2>2. UNCHANGED <<pc, loc>>
      BY DEF Tick
    <2>3. \A h \in Handlers : LocalOK(pc[h], loc[h])'
      BY <2>1, <2>2 DEF IInv, LocalsOK
    <2> QED
      BY <2>2, <2>3 DEF IInv, LocalsOK
  <1>4. RecordsOK'
    BY <1>2 DEF IInv, RecordsOK, RowOK, Tick, tables
  <1>5. BreaksOK'
    BY <1>2 DEF IInv, BreaksOK, BreakOK, Tick, tables
  <1> QED
    BY <1>1, <1>3, <1>4, <1>5 DEF IInv, Grows

LEMMA InitGood == Init => IInv
  BY AttendanceAssumption
     DEF Init, IInv, RecordsOK, BreaksOK, LocalsOK, LocalOK, Labels, Found, HoldsRow,
         Maybe, Times

LEMMA NextKeeps == IInv /\ [Next]_vars => IInv'
  <1> SUFFICES ASSUME IInv, [Next]_vars PROVE IInv'
    OBVIOUS
  <1>1. CASE Tick
    BY <1>1, TickKeeps
  <1>2. CASE \E h \in Handlers :
               \/ ClockInStep(h) \/ BreakStep(h) \/ ClockOutStep(h) \/ QueryStep(h)
               \/ Reply(h) \/ Abort(h)
    BY <1>2, ClockInKeeps, BreakStepKeeps, ClockOutKeeps, QueryKeeps, LeaveKeeps
  <1>3. CASE UNCHANGED vars
    BY <1>3 DEF vars, IInv, RecordsOK, BreaksOK, LocalsOK, LocalOK, RowOK, BreakOK, Stamp
  <1> QED
    BY <1>1, <1>2, <1>3 DEF Next

(* The inductive invariant holds of every reachable state. *)
THEOREM Invariance == Spec => []IInv
  BY InitGood, NextKeeps, PTL DEF Spec

-----------------------------------------------------------------------------
(* What it gives. *)

(***************************************************************************)
(* The tables always match their schema: in particular the stored minutes  *)
(* are never negative and no handler writes through a row it did not find. *)
(***************************************************************************)
THEOREM TypeCorrect == Spec => []TypeOK
  <1>1. IInv => TypeOK
    BY DEF IInv, RecordsOK, BreaksOK, LocalsOK, TypeOK
  <1> QED
    BY <1>1, Invariance, PTL

(* Every stored timestamp is a stamp of its row's day. *)
LEMMA StampsAreStamps ==
  ASSUME IInv, NEW k \in KeysInUse, NEW t \in StampsOf(k)
  PROVE  Stamp(t, k[2])
  <1>1. RowOK(k, records[k])
    BY DEF KeysInUse, IInv, RecordsOK
  <1>2. ASSUME NEW b \in BreaksOf(k)
        PROVE  BreakOK(breaks[b]) /\ breaks[b].rec = k
    BY <1>2 DEF BreaksOf, IInv, BreaksOK
  <1> QED
    BY <1>1, <1>2 DEF StampsOf, RowOK, BreakOK

(***************************************************************************)
(* No timestamp of the tables is ahead of the clock, with any interleaving *)
(* and any crash: ClockOut's validation is enough for what clients supply. *)
(***************************************************************************)
THEOREM FutureFree == Spec => []NothingFromTheFuture
  <1>1. IInv => NothingFromTheFuture
    BY StampsAreStamps DEF NothingFromTheFuture, Stamp
  <1> QED
    BY <1>1, Invariance, PTL

(***************************************************************************)
(* Every timestamp lies on the work date of its row, however late the      *)
(* statement that writes it runs and however late a submission arrives.    *)
(***************************************************************************)
THEOREM OwnWorkDay == Spec => []WithinWorkDay
  <1>1. IInv => WithinWorkDay
    BY StampsAreStamps DEF WithinWorkDay, Stamp
  <1> QED
    BY <1>1, Invariance, PTL

-----------------------------------------------------------------------------
(* History is never rewritten. *)

(* The actions that write no table. *)
LEMMA OthersLeaveTables ==
  ASSUME NEW h \in Handlers,
         \/ ReceiveClockIn(h) \/ ClockInRead(h)
         \/ ReceiveStartBreak(h) \/ StartBreakRead(h)
         \/ ReceiveEndBreak(h) \/ EndBreakRead(h) \/ EndBreakOpen(h)
         \/ ReceiveClockOut(h) \/ ReceiveOfflineClockOut(h) \/ ClockOutRead(h) \/ ClockOutSum(h)
         \/ QueryStep(h) \/ Reply(h) \/ Abort(h)
  PROVE  UNCHANGED <<records, breaks>>
  BY DEF ReceiveClockIn, ClockInRead, ReceiveStartBreak, StartBreakRead, ReceiveEndBreak,
         EndBreakRead, EndBreakOpen, ReceiveClockOut, ReceiveOfflineClockOut, ClockOutRead,
         ClockOutSum, QueryStep, ReceivePreview, PreviewRead, PreviewSum, PreviewOpen,
         ReceiveToday, TodayRead, TodayOpen, Reply, Abort, Receive, tables

(* A step writes one table, in one of four ways, or none. *)
LEMMA WaysToWrite ==
  ASSUME [Next]_vars
  PROVE  \/ UNCHANGED <<records, breaks>>
         \/ \E h \in Handlers :
              \/ ClockInInsert(h)
              \/ /\ \E s \in Statuses : UpdateStatus(KeyOf(h), s)
                 /\ pc[h] \in Found /\ UNCHANGED breaks
              \/ ClockOutWrite(h)
              \/ /\ StartBreak(KeyOf(h), loc[h].at) \/ EndLatestBreak(KeyOf(h), loc[h].at)
                 /\ pc[h] \in Found /\ UNCHANGED records
  <1>1. CASE Tick \/ UNCHANGED vars
    BY <1>1 DEF Tick, vars, tables
  <1>2. ASSUME NEW h \in Handlers,
               ClockInStep(h) \/ BreakStep(h) \/ ClockOutStep(h) \/ QueryStep(h)
                 \/ Reply(h) \/ Abort(h)
        PROVE  \/ UNCHANGED <<records, breaks>>
               \/ ClockInInsert(h)
               \/ /\ \E s \in Statuses : UpdateStatus(KeyOf(h), s)
                  /\ pc[h] \in Found /\ UNCHANGED breaks
               \/ ClockOutWrite(h)
               \/ /\ StartBreak(KeyOf(h), loc[h].at) \/ EndLatestBreak(KeyOf(h), loc[h].at)
                  /\ pc[h] \in Found /\ UNCHANGED records
    <2>1. CASE StartBreakStatus(h) \/ EndBreakStatus(h)
      BY <2>1 DEF StartBreakStatus, EndBreakStatus, At, Found, Statuses
    <2>2. CASE StartBreakInsert(h)
      BY <2>2 DEF StartBreakInsert, At, Found
    <2>3. CASE EndBreakClose(h) \/ ClockOutClose(h)
      BY <2>3 DEF EndBreakClose, ClockOutClose, At, Found
    <2> QED
      BY <1>2, <2>1, <2>2, <2>3, OthersLeaveTables
         DEF ClockInStep, BreakStep, ClockOutStep
  <1> QED
    BY <1>1, <1>2 DEF Next

(* A break that has ended is no longer open for EndLatestBreak to find. *)
LEMMA EndedBreakStep ==
  ASSUME IInv, [Next]_vars, NEW b \in BreakIds, breaks[b] # NULL, breaks[b].end # NULL
  PROVE  breaks'[b] = breaks[b]
  <1>1. CASE UNCHANGED breaks
    BY <1>1
  <1>2. ASSUME NEW h \in Handlers, StartBreak(KeyOf(h), loc[h].at)
        PROVE  breaks'[b] = breaks[b]
    BY <1>2 DEF StartBreak, IInv, BreaksOK
  <1>3. ASSUME NEW h \in Handlers, EndLatestBreak(KeyOf(h), loc[h].at)
        PROVE  breaks'[b] = breaks[b]
    BY <1>3 DEF EndLatestBreak, OpenBreaks
  <1> QED
    BY <1>1, <1>2, <1>3, WaysToWrite DEF ClockInInsert, ClockOutWrite

(***************************************************************************)
(* A break that has ended is never rewritten, whoever ends breaks or       *)
(* clocks out beside it.                                                   *)
(***************************************************************************)
THEOREM EndedBreaksAreKept == Spec => EndedBreaksStay
  <1>1. IInv /\ [Next]_vars =>
          [\A b \in BreakIds :
             breaks[b] # NULL /\ breaks[b].end # NULL => breaks'[b] = breaks[b]]_vars
    BY EndedBreakStep
  <1> QED
    BY <1>1, Invariance, PTL DEF Spec, EndedBreaksStay

(* No write takes a row, its clock-in or its clock-out away. *)
LEMMA HistoryStep ==
  ASSUME IInv, [Next]_vars, NEW k \in KeysInUse
  PROVE  /\ records'[k] # NULL
         /\ records'[k].clockInAt = records[k].clockInAt
         /\ records[k].clockOutAt # NULL => records'[k].clockOutAt # NULL
  <1>1. k \in Keys /\ records[k] # NULL /\ records[k] \in Rows
    BY DEF KeysInUse, IInv, RecordsOK, RowOK
  <1>2. \A x : x \in Rows => x # NULL
    BY NullAssumption
  <1>3. CASE UNCHANGED records
    BY <1>1, <1>3
  <1>4. ASSUME NEW h \in Handlers, ClockInInsert(h)
        PROVE  records'[k] = records[k]
    BY <1>1, <1>4 DEF ClockInInsert, IInv, RecordsOK
  <1>5. ASSUME NEW h \in Handlers, NEW s \in Statuses, UpdateStatus(KeyOf(h), s)
        PROVE  /\ records'[k] \in Rows
               /\ records'[k].clockInAt = records[k].clockInAt
               /\ records'[k].clockOutAt = records[k].clockOutAt
    <2>1. CASE k = KeyOf(h)
      <3> DEFINE row == records[k]
                 new == [row EXCEPT !.status = s]
      <3>1. records'[k] = new
        BY <1>1, <1>5, <2>1 DEF UpdateStatus, IInv, RecordsOK
      <3>2. /\ new \in Rows /\ new.clockInAt = row.clockInAt
            /\ new.clockOutAt = row.clockOutAt
        BY <1>1 DEF Rows
      <3> QED
        BY <3>1, <3>2
    <2>2. CASE k # KeyOf(h)
      BY <1>1, <1>5, <2>2 DEF UpdateStatus, IInv, RecordsOK
    <2> QED
      BY <2>1, <2>2
  <1>6. ASSUME NEW h \in Handlers, ClockOutWrite(h)
        PROVE  /\ records'[k] # NULL
               /\ records'[k].clockInAt = records[k].clockInAt
               /\ records[k].clockOutAt # NULL => records'[k].clockOutAt # NULL
    <2>1. pc[h] = "co_write" /\ records' = [records EXCEPT ![KeyOf(h)] = ClockedOut(@, h)]
      BY <1>6 DEF ClockOutWrite, At
    <2>2. CASE k = KeyOf(h)
      <3> DEFINE row == records[k]
                 new == ClockedOut(row, h)
      <3>1. records'[k] = new
        BY <1>1, <2>1, <2>2 DEF IInv, RecordsOK
      <3>2. RowOK(k, row)
        BY <1>1 DEF IInv, RecordsOK
      <3>3. new \in Rows
        BY <2>1, <2>2, <3>2, ClockedOutIsRow DEF RowOK
      <3>4. new.clockInAt = row.clockInAt /\ new.clockOutAt = loc[h].at
        BY <1>1 DEF ClockedOut, Rows
      <3>5. loc[h].at # NULL
        BY <2>1, ServingFacts, NullAssumption
      <3> HIDE DEF row, new
      <3> QED
        BY <1>2, <3>1, <3>3, <3>4, <3>5 DEF row
    <2>3. CASE k # KeyOf(h)
      BY <1>1, <2>1, <2>3 DEF IInv, RecordsOK
    <2> QED
      BY <2>2, <2>3
  <1> QED
    BY <1>1, <1>2, <1>3, <1>4, <1>5, <1>6, WaysToWrite

(***************************************************************************)
(* Rows stay, clock-ins stay as they were, and a recorded clock-out is     *)
(* never erased, even by handlers that read the row long before.           *)
(***************************************************************************)
THEOREM HistoryIsKept == Spec => HistoryStays
  <1>1. IInv /\ [Next]_vars =>
          [\A k \in KeysInUse :
             /\ records'[k] # NULL
             /\ records'[k].clockInAt = records[k].clockInAt
             /\ records[k].clockOutAt # NULL => records'[k].clockOutAt # NULL]_vars
    BY HistoryStep
  <1> QED
    BY <1>1, Invariance, PTL DEF Spec, HistoryStays
=============================================================================
