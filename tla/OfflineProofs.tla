---------------------------- MODULE OfflineProofs ----------------------------
(***************************************************************************)
(* Proofs about the attendance service together with an app that loses its *)
(* connection, for any number of handlers and breaks, any clock and any    *)
(* resolution of the server's time, while handlers die, answers are lost   *)
(* and copies of a submission overlap and arrive late.                     *)
(*                                                                         *)
(* They ask for one thing (those of the stored minutes also that the lags  *)
(* of the app's clock are short): no two submissions that were sent are of *)
(* the same day.  The app offers a clock-out only for a day the server has *)
(* not closed; it could make a second one after the first was refused for  *)
(* its age, while a handler of the first is still about to write.          *)
(***************************************************************************)
EXTENDS OfflineClient, SerialProofs

-----------------------------------------------------------------------------
(* The inductive invariant. *)

\* The row a submission is for.
KeyAt(s) == <<User, DateOf(s.at, ServerZone)>>

OneADay == \A s, t \in sent : KeyAt(s) = KeyAt(t) => s = t

Closed(k) == records[k] # NULL /\ records[k].status = "clocked_out"

\* A submission is of an instant the server has reached, for a row that is there.
Submission(s) ==
  /\ s.at \in Times /\ s.at <= clock
  /\ s.notes \in Maybe(Notes)
  /\ records[KeyAt(s)] # NULL

\* What the app holds; a submission is given up only if its day is closed or it is too old.
AppOK ==
  /\ lag \in Maybe(Nat)
  /\ outbox # NULL => Submission(outbox)
  /\ NULL \notin sent
  /\ \A s \in sent :
       /\ Submission(s)
       /\ s = outbox \/ Closed(KeyAt(s)) \/ clock - s.at > MaxOfflineDuration

OfflineOp == "clock_out_offline"

\* A handler of a submission holds the row it has read, another one has yet to change it.
Holding  == {"co_close", "co_sum", "co_write"}
Changing == Holding \cup {"ci_insert", "sb_insert", "sb_status", "eb_open", "eb_close", "eb_status"}
Reading  == {"ci_read", "sb_read", "eb_read", "co_read"}

\* The locals r are those of a handler of submission s.
Serves(r, s) ==
  /\ r.emp = User /\ r.at = s.at /\ r.date = DateOf(s.at, ServerZone)
  /\ r.notes = s.notes /\ r.offline = TRUE

\* Row k holds what a clock-out with the locals r writes, had it counted the breaks by now.
Wrote(k, r) ==
  LET row == records[k] IN
    /\ row.clockOutAt = r.at
    /\ row.working = WorkedMinutes(r.row.clockInAt, r.at, SumBreakMinutes(k))
    /\ row.overtime = IF r.row.schedOut = NULL THEN 0 ELSE MinutesPast(r.at, r.row.schedOut)
    /\ row.offline = r.offline
    /\ r.notes # NULL => row.notes = r.notes
    /\ r.notes = NULL /\ r.row.notes # NULL => row.notes = r.row.notes

\* A handler of a submission with the locals r, past its read at label p.
HolderKnows(p, r) ==
  LET k == <<r.emp, r.date>> IN
    /\ r.row.status # "clocked_out"
    /\ p = "co_close" => r.row.status = "on_break"
    /\ r.row.status = "on_break" /\ (p # "co_close" \/ Closed(k)) => OpenBreaks(k) = {}
    /\ p = "co_write" => r.mins = SumBreakMinutes(k)
    /\ IF Closed(k) THEN Wrote(k, r) ELSE r.row = records[k]

SubmitterKnows(p, r) ==
  /\ p \in Holding \cup {"co_read", "reply"}
  /\ p # "reply" => \E s \in sent : Serves(r, s)
  /\ p \in Holding => HolderKnows(p, r)

\* A handler of an online request: no submission is of the day it is about to change.
OnlineKnows(p, r) ==
  LET k == <<r.emp, r.date>> IN
    /\ r.offline = FALSE /\ outbox = NULL
    /\ p \in Reading \cup Changing \cup {"reply"}
    /\ p \in Reading => \A s \in sent : KeyAt(s) = k => Closed(k)
    /\ p \in Changing => \A s \in sent : KeyAt(s) # k
    /\ p \in Changing \ {"ci_insert"} => ~ Closed(k)

HandlerKnows(p, r) == IF r.op = OfflineOp THEN SubmitterKnows(p, r) ELSE OnlineKnows(p, r)

Online(h) == pc[h] # "idle" /\ loc[h].op # OfflineOp

\* A handler the app waits for, with the locals r at label p.
AwaitedKnows(p, r) ==
  /\ outbox # NULL /\ outbox \in sent
  /\ p # "idle" /\ r.op = OfflineOp
  /\ p # "reply" => Serves(r, outbox)
  /\ p = "reply" => /\ Closed(KeyAt(outbox))
                    /\ \/ r.answer = "ok" /\ records[KeyAt(outbox)].clockOutAt = outbox.at
                       \/ r.answer = "already_clocked_out"

OInv ==
  /\ AppOK
  /\ \A g, h \in Handlers : Online(g) /\ Online(h) => g = h
  /\ \A h \in Handlers : pc[h] # "idle" => HandlerKnows(pc[h], loc[h])
  /\ awaited \subseteq Handlers
  /\ \A h \in awaited : AwaitedKnows(pc[h], loc[h])

-----------------------------------------------------------------------------
(* The service's own invariant. *)

LEMMA FreshIsIdle ==
  ASSUME Busy # Handlers
  PROVE  Fresh \in Handlers /\ pc[Fresh] = "idle"
  <1>1. \E h \in Handlers : pc[h] = "idle"
    BY DEF Busy
  <1> QED
    BY <1>1 DEF Fresh

(* The app is another client: a step of the composition is one of the service, or a delivery. *)
LEMMA StepsOfService ==
  ASSUME [OfflineNext]_allVars
  PROVE  [Next]_vars \/ \E s \in sent : Deliver(s)
  <1>1. ASSUME SendOnline
        PROVE  Next
    <2>1. Fresh \in Handlers
      BY <1>1, FreshIsIdle DEF SendOnline
    <2> QED
      BY <1>1, <2>1 DEF SendOnline, Next, ClockInStep, BreakStep, ClockOutStep
  <1>2. ASSUME NEW h \in Handlers, Serve(h) \/ Answer(h) \/ Die(h)
        PROVE  Next
    BY <1>2 DEF Serve, Answer, Die, Next, ClockInStep, BreakStep, ClockOutStep
  <1>3. ASSUME Login \/ GetServerTime \/ ClockOutOffline \/ Send \/ Reject
        PROVE  UNCHANGED vars
    BY <1>3 DEF Login, GetServerTime, ClockOutOffline, Send, Reject, vars
  <1> QED
    BY <1>1, <1>2, <1>3 DEF OfflineNext, Next, allVars

(* The request a submission arrives as. *)
LEMMA SubmissionSet ==
  ASSUME NEW s
  PROVE  LET r == SubmissionRequest(s) IN
           /\ r.op = OfflineOp /\ r.emp = User /\ r.at = s.at
           /\ r.date = DateOf(s.at, ServerZone)
           /\ r.notes = s.notes /\ r.offline = TRUE
  BY DEF SubmissionRequest, Request, WorkDate, OfflineOp

LEMMA SubmissionIsGood ==
  ASSUME IInv, NEW s, Submission(s)
  PROVE  LET r == SubmissionRequest(s) IN r \in Requests /\ Stamp(r.at, r.date)
  <1> DEFINE a == Request(OfflineOp, User, s.at, DateOf(s.at, ServerZone))
             b == [a EXCEPT !.offline = TRUE]
             c == [b EXCEPT !.notes = s.notes]
  <1>1. a \in Requests /\ Stamp(a.at, a.date)
    BY RequestIsGood, OfflineAssumption DEF IInv, Submission, OfflineOp, AllOps
  <1> HIDE DEF a
  <1>2. b \in Requests /\ Stamp(b.at, b.date)
    BY <1>1, SetOffline
  <1> HIDE DEF b
  <1>3. c \in Requests /\ Stamp(c.at, c.date)
    BY <1>2, SetNotes DEF Submission
  <1>4. SubmissionRequest(s) = c
    BY DEF SubmissionRequest, WorkDate, OfflineOp, a, b
  <1> QED
    BY <1>3, <1>4

LEMMA DeliverKeeps ==
  ASSUME IInv, AppOK, NEW s \in sent, Deliver(s)
  PROVE  IInv'
  <1>1. PICK r : r = SubmissionRequest(s)
    OBVIOUS
  <1>2. r \in Requests /\ Stamp(r.at, r.date)
    BY <1>1, SubmissionIsGood DEF AppOK
  <1>3. Fresh \in Handlers
    BY FreshIsIdle DEF Deliver
  <1>4. Receive(Fresh, r, "co_read")
    BY <1>1 DEF Deliver
  <1> QED
    BY <1>2, <1>3, <1>4, ReceiveKeeps

LEMMA ServiceKeeps ==
  ASSUME IInv, AppOK, [OfflineNext]_allVars
  PROVE  IInv'
  BY NextKeeps, StepsOfService, DeliverKeeps

-----------------------------------------------------------------------------
(* What a step leaves alone. *)

(* The row of a submission is one of the table. *)
LEMMA KeyOfSubmission ==
  ASSUME NEW s, Submission(s)
  PROVE  KeyAt(s) \in Keys
  BY DateInDates, OfflineAssumption DEF Submission, KeyAt, Keys

(* What a handler knows rests on its locals and on the day it works on. *)
LEMMA SameHandlerKnows ==
  ASSUME NEW p, NEW r, HandlerKnows(p, r), SameDay(<<r.emp, r.date>>),
         sent' = sent, outbox' \in {outbox, NULL}
  PROVE  HandlerKnows(p, r)'
  <1> DEFINE k == <<r.emp, r.date>>
  <1>1. /\ OpenBreaks(k)' = OpenBreaks(k) /\ records'[k] = records[k]
        /\ SumBreakMinutes(k)' = SumBreakMinutes(k)
    BY SameBreaks, SameTicks DEF SameDay, SumBreakMinutes
  <1>2. HolderKnows(p, r) => HolderKnows(p, r)'
    BY <1>1 DEF HolderKnows, Wrote, Closed
  <1>3. OnlineKnows(p, r) => OnlineKnows(p, r)'
    BY <1>1 DEF OnlineKnows, Closed, KeyAt
  <1> QED
    BY <1>2, <1>3 DEF HandlerKnows, SubmitterKnows, Serves

LEMMA AppStays ==
  ASSUME clock \in Times, AppOK, Grows, UNCHANGED <<lag, outbox, sent>>,
         \A j \in Keys : Closed(j) => SameDay(j)
  PROVE  AppOK'
  <1>1. ASSUME NEW s, Submission(s)
        PROVE  Submission(s)'
    <2>1. records'[KeyAt(s)] # NULL
      BY <1>1, KeyOfSubmission DEF Submission, Grows
    <2>2. s.at <= clock'
      BY <1>1 DEF Submission, Grows, Times
    <2> QED
      BY <1>1, <2>1, <2>2 DEF Submission, KeyAt
  <1>2. ASSUME NEW s \in sent, Closed(KeyAt(s))
        PROVE  Closed(KeyAt(s))'
    BY <1>2, KeyOfSubmission DEF AppOK, Closed, SameDay, KeyAt
  <1>3. ASSUME NEW s \in sent, clock - s.at > MaxOfflineDuration
        PROVE  clock' - s.at > MaxOfflineDuration
    <2>1. s.at \in Int /\ clock \in Int /\ clock' \in Int /\ clock <= clock'
          /\ MaxOfflineDuration \in Int
      BY ClockAssumption DEF AppOK, Submission, Grows, Times, MaxOfflineDuration
    <2> QED
      BY <1>3, <2>1
  <1> QED
    BY <1>1, <1>2, <1>3 DEF AppOK, KeyAt

LEMMA AwaitedStays ==
  ASSUME AppOK, NEW p, NEW r, AwaitedKnows(p, r), UNCHANGED <<outbox, sent>>,
         \A j \in Keys : Closed(j) => SameDay(j)
  PROVE  AwaitedKnows(p, r)'
  <1>1. KeyAt(outbox) \in Keys
    BY KeyOfSubmission DEF AppOK, AwaitedKnows
  <1> QED
    BY <1>1 DEF AwaitedKnows, Closed, SameDay, Serves, KeyAt

(***************************************************************************)
(* A step of handler h keeps the invariant if it touches no day but its    *)
(* own, and that only while it is not closed, and leaves h and the others  *)
(* of that day knowing where they stand.                                   *)
(***************************************************************************)
LEMMA HandlerMoves ==
  ASSUME IInv, OInv, Grows, NEW h \in Handlers, pc[h] # "idle", NEW k, k = KeyOf(h),
         NEW p, p # "idle", NEW r, GotoWith(h, p, r), r.op = loc[h].op,
         UNCHANGED <<lag, outbox, sent, awaited>>,
         \A j \in Keys : j # k \/ Closed(j) => SameDay(j),
         HandlerKnows(p, r)', h \in awaited => AwaitedKnows(p, r)',
         \A g \in Handlers \ {h} :
           pc[g] # "idle" /\ KeyOf(g) = k /\ ~ Closed(k) => HandlerKnows(pc[g], loc[g])'
  PROVE  OInv'
  <1>1. /\ pc'[h] = p /\ loc'[h] = r
        /\ \A g \in Handlers \ {h} : pc'[g] = pc[g] /\ loc'[g] = loc[g]
    BY DEF IInv, LocalsOK, GotoWith
  <1>2. AppOK'
    BY AppStays DEF OInv, IInv
  <1>3. \A g \in Handlers : Online(g)' => Online(g)
    BY <1>1 DEF Online
  <1>4. ASSUME NEW g \in Handlers, pc'[g] # "idle"
        PROVE  HandlerKnows(pc[g], loc[g])'
    <2>1. CASE g = h
      BY <1>1, <2>1
    <2>2. CASE g # h
      <3>1. PICK q, s : q = pc[g] /\ s = loc[g]
        OBVIOUS
      <3>2. pc[g] # "idle" /\ HandlerKnows(q, s) /\ <<s.emp, s.date>> = KeyOf(g)
        BY <1>1, <1>4, <2>2, <3>1 DEF OInv, KeyOf
      <3>3. CASE KeyOf(g) = k /\ ~ Closed(k)
        BY <2>2, <3>2, <3>3
      <3>4. CASE ~ (KeyOf(g) = k /\ ~ Closed(k))
        <4>1. KeyOf(g) \in Keys
          BY <3>2, ServingFacts
        <4>2. SameDay(<<s.emp, s.date>>)
          BY <3>2, <3>4, <4>1
        <4>3. HandlerKnows(q, s)'
          BY <3>2, <4>2, SameHandlerKnows
        <4> QED
          BY <1>1, <2>2, <3>1, <4>3
      <3> QED
        BY <3>3, <3>4
    <2> QED
      BY <2>1, <2>2
  <1>5. ASSUME NEW g \in awaited
        PROVE  AwaitedKnows(pc[g], loc[g])'
    <2>1. CASE g = h
      BY <1>1, <1>5, <2>1
    <2>2. CASE g # h
      <3>1. PICK q, s : q = pc[g] /\ s = loc[g]
        OBVIOUS
      <3>2. AwaitedKnows(q, s)'
        BY <1>5, <3>1, AwaitedStays DEF OInv
      <3> QED
        BY <1>1, <1>5, <2>2, <3>1, <3>2 DEF OInv
    <2> QED
      BY <2>1, <2>2
  <1> QED
    BY <1>2, <1>3, <1>4, <1>5 DEF OInv

(* A step that writes no table. *)
LEMMA QuietMove ==
  ASSUME IInv, OInv, NEW h \in Handlers, pc[h] # "idle", NEW p, p # "idle", NEW r,
         GotoWith(h, p, r), r.op = loc[h].op,
         UNCHANGED <<clock, records, breaks, lag, outbox, sent, awaited>>,
         HandlerKnows(p, r), h \in awaited => AwaitedKnows(p, r)
  PROVE  OInv'
  <1>1. PICK k : k = KeyOf(h)
    OBVIOUS
  <1>2. \A j : SameDay(j)
    BY DEF SameDay, BreaksOf
  <1>3. Grows
    BY DEF IInv, Grows, Times
  <1>4. HandlerKnows(p, r)'
    BY <1>2, SameHandlerKnows
  <1>5. h \in awaited => AwaitedKnows(p, r)'
    BY <1>2, AwaitedStays DEF OInv
  <1>6. ASSUME NEW g \in Handlers \ {h}, pc[g] # "idle"
        PROVE  HandlerKnows(pc[g], loc[g])'
    <2>1. PICK q, s : q = pc[g] /\ s = loc[g]
      OBVIOUS
    <2>2. HandlerKnows(q, s)'
      BY <1>2, <1>6, <2>1, SameHandlerKnows DEF OInv
    <2> QED
      BY <2>1, <2>2 DEF IInv, LocalsOK, GotoWith
  <1> QED
    BY <1>1, <1>2, <1>3, <1>4, <1>5, <1>6, HandlerMoves

-----------------------------------------------------------------------------
(* The locals a handler is left with. *)

LEMMA ReadRowSet ==
  ASSUME NEW r \in Requests, NEW x
  PROVE  LET s == [r EXCEPT !.row = x] IN
           /\ s.row = x /\ s.op = r.op /\ s.emp = r.emp /\ s.at = r.at /\ s.date = r.date
           /\ s.offline = r.offline /\ s.notes = r.notes /\ s.mins = r.mins
  BY DEF Requests

LEMMA SumSet ==
  ASSUME NEW r \in Requests, NEW m
  PROVE  LET s == [r EXCEPT !.mins = m] IN
           /\ s.mins = m /\ s.op = r.op /\ s.emp = r.emp /\ s.at = r.at /\ s.date = r.date
           /\ s.offline = r.offline /\ s.notes = r.notes /\ s.row = r.row
  BY DEF Requests

(* What a handler of a submission is known by. *)
LEMMA SubmitterFacts ==
  ASSUME IInv, OInv, NEW h \in Handlers, pc[h] # "idle", loc[h].op = OfflineOp
  PROVE  /\ SubmitterKnows(pc[h], loc[h])
         /\ pc[h] # "reply" =>
              \E s \in sent : Serves(loc[h], s) /\ KeyAt(s) = KeyOf(h) /\ Submission(s)
         /\ h \in awaited => AwaitedKnows(pc[h], loc[h])
  <1>1. SubmitterKnows(pc[h], loc[h])
    BY DEF OInv, HandlerKnows
  <1>2. ASSUME NEW s \in sent, Serves(loc[h], s)
        PROVE  KeyAt(s) = KeyOf(h) /\ Submission(s)
    BY <1>2 DEF OInv, AppOK, Serves, KeyAt, KeyOf
  <1> QED
    BY <1>1, <1>2 DEF SubmitterKnows, OInv

LEMMA OnlineFacts ==
  ASSUME OInv, NEW h \in Handlers, Online(h)
  PROVE  OnlineKnows(pc[h], loc[h]) /\ h \notin awaited
  BY DEF OInv, Online, HandlerKnows, AwaitedKnows

-----------------------------------------------------------------------------
(* Handlers of submissions. *)

(* The day of the submission an awaited handler serves. *)
LEMMA AwaitedDay ==
  ASSUME OInv, NEW h \in awaited, pc[h] # "reply"
  PROVE  KeyOf(h) = KeyAt(outbox) /\ loc[h].at = outbox.at
  BY DEF OInv, AwaitedKnows, Serves, KeyOf, KeyAt

LEMMA SubmitterReads ==
  ASSUME IInv, OInv, NEW h \in Handlers, loc[h].op = OfflineOp, ClockOutRead(h),
         UNCHANGED app
  PROVE  OInv'
  <1>1. PICK k, old : k = KeyOf(h) /\ old = records[k]
    OBVIOUS
  <1>2. pc[h] = "co_read" /\ UNCHANGED <<clock, records, breaks, lag, outbox, sent, awaited>>
    BY DEF ClockOutRead, At, tables, app
  <1>3. /\ loc[h] \in Requests /\ k = <<loc[h].emp, loc[h].date>>
        /\ old # NULL /\ \E s \in sent : Serves(loc[h], s)
        /\ h \in awaited => AwaitedKnows(pc[h], loc[h])
    BY <1>1, <1>2, ServingFacts, SubmitterFacts DEF KeyOf, Submission
  <1>4. CASE old.status = "clocked_out" /\ Refuse(h, "already_clocked_out")
    <2>1. PICK r : r = [Request(loc[h].op, loc[h].emp, 0, DateOf(0, ServerZone))
                          EXCEPT !.answer = "already_clocked_out"]
      OBVIOUS
    <2>2. GotoWith(h, "reply", r) /\ r.op = loc[h].op /\ r.answer = "already_clocked_out"
      <3>1. GotoWith(h, "reply", r)
        BY <1>4, <2>1 DEF Refuse
      <3>2. r.op = loc[h].op /\ r.answer = "already_clocked_out"
        BY <2>1 DEF Request
      <3> QED
        BY <3>1, <3>2
    <2>3. HandlerKnows("reply", r)
      BY <2>2 DEF HandlerKnows, SubmitterKnows, Holding
    <2>4. h \in awaited => AwaitedKnows("reply", r)
      BY <1>1, <1>2, <1>3, <1>4, <2>2, AwaitedDay DEF AwaitedKnows, Closed
    <2> QED
      BY <1>2, <2>2, <2>3, <2>4, QuietMove
  <1>5. ASSUME NEW p, GotoWith(h, p, [loc[h] EXCEPT !.row = old]),
               \/ p = "co_close" /\ old.status = "on_break"
               \/ p = "co_sum" /\ old.status = "clocked_in"
        PROVE  OInv'
    <2>1. PICK r : r = [loc[h] EXCEPT !.row = old]
      OBVIOUS
    <2>2. /\ GotoWith(h, p, r) /\ r.row = old
          /\ r.op = loc[h].op /\ r.emp = loc[h].emp /\ r.at = loc[h].at
          /\ r.date = loc[h].date /\ r.notes = loc[h].notes /\ r.offline = loc[h].offline
      BY <1>3, <1>5, <2>1, ReadRowSet
    <2>3. HolderKnows(p, r)
      BY <1>1, <1>3, <1>5, <2>2 DEF HolderKnows, Closed
    <2>4. HandlerKnows(p, r)
      BY <1>3, <1>5, <2>2, <2>3 DEF HandlerKnows, SubmitterKnows, Holding, Serves
    <2>5. h \in awaited => AwaitedKnows(p, r)
      BY <1>2, <1>3, <1>5, <2>2 DEF AwaitedKnows, Serves
    <2> QED
      BY <1>2, <1>5, <2>2, <2>4, <2>5, QuietMove
  <1> QED
    BY <1>1, <1>3, <1>4, <1>5 DEF ClockOutRead

LEMMA SubmitterSums ==
  ASSUME IInv, OInv, NEW h \in Handlers, loc[h].op = OfflineOp, ClockOutSum(h),
         UNCHANGED app
  PROVE  OInv'
  <1>1. PICK r : r = [loc[h] EXCEPT !.mins = SumBreakMinutes(KeyOf(h))]
    OBVIOUS
  <1>2. /\ pc[h] = "co_sum" /\ GotoWith(h, "co_write", r)
        /\ UNCHANGED <<clock, records, breaks, lag, outbox, sent, awaited>>
    BY <1>1 DEF ClockOutSum, At, tables, app
  <1>3. /\ loc[h] \in Requests /\ SubmitterKnows("co_sum", loc[h])
        /\ h \in awaited => AwaitedKnows("co_sum", loc[h])
    BY <1>2, ServingFacts, SubmitterFacts
  <1>4. /\ r.mins = SumBreakMinutes(<<r.emp, r.date>>) /\ r.row = loc[h].row
        /\ r.op = loc[h].op /\ r.emp = loc[h].emp /\ r.at = loc[h].at
        /\ r.date = loc[h].date /\ r.notes = loc[h].notes /\ r.offline = loc[h].offline
    BY <1>1, <1>3, SumSet DEF KeyOf
  <1>5. HolderKnows("co_write", r)
    BY <1>3, <1>4 DEF SubmitterKnows, Holding, HolderKnows, Wrote
  <1>6. HandlerKnows("co_write", r)
    BY <1>3, <1>4, <1>5 DEF SubmitterKnows, Holding, HandlerKnows, Serves
  <1>7. h \in awaited => AwaitedKnows("co_write", r)
    BY <1>3, <1>4 DEF AwaitedKnows, Serves
  <1> QED
    BY <1>2, <1>4, <1>6, <1>7, QuietMove

(* A clock-out that closes the day in the tables' words. *)
LEMMA ClosingBreaks ==
  ASSUME IInv, NEW k \in Keys, NEW t \in Times, EndLatestBreak(k, t), UNCHANGED records,
         OpenBreaks(k) = {}
  PROVE  \A j : SameDay(j)
  <1>1. \A b \in BreakIds : breaks'[b] = breaks[b]
    BY DEF EndLatestBreak
  <1> QED
    BY <1>1 DEF SameDay, BreaksOf

LEMMA SubmitterCloses ==
  ASSUME IInv, OInv, NEW h \in Handlers, loc[h].op = OfflineOp, ClockOutClose(h),
         UNCHANGED app
  PROVE  OInv' /\ \A j \in Keys : Closed(j) => SameDay(j)
  <1>1. PICK k, r : k = KeyOf(h) /\ r = loc[h]
    OBVIOUS
  <1>2. /\ pc[h] = "co_close" /\ EndLatestBreak(k, r.at) /\ GotoWith(h, "co_sum", r)
        /\ UNCHANGED <<clock, records, lag, outbox, sent, awaited>>
    BY <1>1, GotoKeepsLocals DEF ClockOutClose, At, app, IInv
  <1>3. /\ k \in Keys /\ k = <<r.emp, r.date>> /\ r.at \in Times
        /\ SubmitterKnows("co_close", r) /\ r.op = OfflineOp
        /\ h \in awaited => AwaitedKnows("co_close", r)
    BY <1>1, <1>2, ServingFacts, SubmitterFacts DEF KeyOf, Requests
  <1>4. HolderKnows("co_close", r)
    BY <1>3 DEF SubmitterKnows, Holding
  <1>5. /\ OpenBreaks(k)' = {}
        /\ \A j \in Keys \ {k} : SameDay(j)
    BY <1>2, <1>3, BreaksEnded
  <1>6. Closed(k) \/ OpenBreaks(k) = {} => \A j : SameDay(j)
    BY <1>2, <1>3, <1>4, ClosingBreaks DEF HolderKnows
  <1>7. \A j \in Keys : j # k \/ Closed(j) => SameDay(j)
    BY <1>5, <1>6
  <1>8. HandlerKnows("co_sum", r)'
    <2>1. CASE Closed(k)
      <3>1. HandlerKnows("co_sum", r)
        BY <1>3, <1>4, <2>1
           DEF HandlerKnows, SubmitterKnows, Holding, HolderKnows
      <3> QED
        BY <1>2, <1>6, <2>1, <3>1, SameHandlerKnows
    <2>2. CASE ~ Closed(k)
      <3>1. HolderKnows("co_sum", r)'
        BY <1>2, <1>3, <1>4, <1>5, <2>2 DEF HolderKnows, Closed
      <3> QED
        BY <1>2, <1>3, <3>1 DEF HandlerKnows, SubmitterKnows, Holding, Serves
    <2> QED
      BY <2>1, <2>2
  <1>9. h \in awaited => AwaitedKnows("co_sum", r)'
    BY <1>2, <1>3 DEF AwaitedKnows, Serves
  <1>10. ASSUME NEW g \in Handlers \ {h}, pc[g] # "idle", KeyOf(g) = k, ~ Closed(k)
         PROVE  HandlerKnows(pc[g], loc[g])'
    <2>1. PICK q, x : q = pc[g] /\ x = loc[g]
      OBVIOUS
    <2>2. HandlerKnows(q, x) /\ <<x.emp, x.date>> = k
      BY <1>10, <2>1 DEF OInv, KeyOf
    <2>3. ASSUME x.op = OfflineOp, q \in Holding
          PROVE  HandlerKnows(q, x)'
      <3>1. HolderKnows(q, x) /\ x.row = records[k] /\ r.row = records[k]
        BY <1>3, <1>4, <1>10, <2>2, <2>3 DEF HandlerKnows, SubmitterKnows, HolderKnows
      <3>2. x.row.status = "on_break"
        BY <1>4, <3>1 DEF HolderKnows
      <3>3. CASE q = "co_close"
        <4>1. HolderKnows(q, x)'
          BY <1>2, <1>10, <2>2, <3>1, <3>2, <3>3 DEF HolderKnows, Closed
        <4> QED
          BY <1>2, <2>2, <2>3, <4>1 DEF HandlerKnows, SubmitterKnows, Serves
      <3>4. CASE q # "co_close"
        BY <1>2, <1>6, <2>2, <3>1, <3>2, <3>4, SameHandlerKnows DEF HolderKnows
      <3> QED
        BY <3>3, <3>4
    <2>4. ASSUME ~ (x.op = OfflineOp /\ q \in Holding)
          PROVE  HandlerKnows(q, x)'
      BY <1>2, <2>2, <2>4 DEF HandlerKnows, SubmitterKnows, OnlineKnows, Closed, KeyAt, Serves
    <2>5. HandlerKnows(q, x)'
      BY <2>3, <2>4
    <2> QED
      BY <1>2, <2>1, <2>5 DEF IInv, LocalsOK, GotoWith
  <1>11. Grows
    BY <1>2 DEF IInv, Grows, Times
  <1>12. OInv'
    BY <1>1, <1>2, <1>7, <1>8, <1>9, <1>10, <1>11, HandlerMoves
  <1> QED
    BY <1>7, <1>12

(* Writing a clock-out over the same clock-out changes nothing. *)
LEMMA WritesAgain ==
  ASSUME IInv, NEW h \in Handlers, pc[h] = "co_write", NEW k, k = KeyOf(h),
         Closed(k), Wrote(k, loc[h]), loc[h].mins = SumBreakMinutes(k)
  PROVE  ClockedOut(records[k], h) = records[k]
  <1>1. PICK row, new : row = records[k] /\ new = ClockedOut(row, h)
    OBVIOUS
  <1>2. row \in Rows /\ row.status = "clocked_out"
    BY <1>1, FoundFacts DEF Closed, Found, RowOK
  <1>3. new \in Rows
    BY <1>1, FoundFacts, ClockedOutIsRow DEF Found, RowOK
  <1>4. /\ new.status = row.status /\ new.clockInAt = row.clockInAt
        /\ new.clockOutAt = row.clockOutAt /\ new.schedOut = row.schedOut
        /\ new.working = row.working /\ new.overtime = row.overtime
        /\ new.offline = row.offline /\ new.notes = row.notes
    BY <1>1, <1>2, ClockedOutSet DEF Wrote, NotesToWrite
  <1>5. new = row
    BY <1>2, <1>3, <1>4 DEF Rows
  <1> QED
    BY <1>1, <1>5

LEMMA SubmitterWrites ==
  ASSUME IInv, OInv, OneADay, NEW h \in Handlers, loc[h].op = OfflineOp, ClockOutWrite(h),
         UNCHANGED app
  PROVE  OInv' /\ \A j \in Keys : Closed(j) => SameDay(j)
  <1>1. PICK k, row, r :
          /\ k = KeyOf(h) /\ row = ClockedOut(records[k], h)
          /\ r = [loc[h] EXCEPT !.answer = "ok", !.row = NULL, !.mins = 0]
    OBVIOUS
  <1>2. /\ pc[h] = "co_write" /\ GotoWith(h, "reply", r)
        /\ records' = [records EXCEPT ![k] = row]
        /\ UNCHANGED <<clock, breaks, lag, outbox, sent, awaited>>
    BY <1>1 DEF ClockOutWrite, At, app, Done
  <1>3. /\ k \in Keys /\ k = <<loc[h].emp, loc[h].date>> /\ loc[h] \in Requests
        /\ records[k] \in Rows /\ row \in Rows /\ row # NULL
        /\ SubmitterKnows("co_write", loc[h])
        /\ h \in awaited => AwaitedKnows("co_write", loc[h])
    <2>1. RowOK(k, records[k])
      BY <1>1, <1>2, FoundFacts DEF Found
    <2>2. RowOK(k, row)
      BY <1>1, <1>2, <2>1, ClockedOutIsRow
    <2>3. records[k] \in Rows /\ row \in Rows /\ row # NULL
      BY <2>1, <2>2, NullAssumption DEF RowOK
    <2> QED
      BY <1>1, <1>2, <2>3, ServingFacts, SubmitterFacts DEF KeyOf
  <1>4. HolderKnows("co_write", loc[h])
    BY <1>3 DEF SubmitterKnows, Holding
  <1>5. r.op = OfflineOp /\ r.answer = "ok"
    BY <1>1, <1>3, DoneSet
  <1>6. /\ records'[k] = row
        /\ OpenBreaks(k)' = OpenBreaks(k)
        /\ \A j \in Keys \ {k} : SameDay(j)
    BY <1>2, <1>3, RowWritten
  <1>7. Closed(k) => SameDay(k)
    <2>1. ASSUME Closed(k)
          PROVE  row = records[k]
      BY <1>1, <1>2, <1>3, <1>4, <2>1, WritesAgain DEF HolderKnows
    <2> QED
      BY <1>2, <1>6, <2>1 DEF SameDay, BreaksOf
  <1>8. \A j \in Keys : j # k \/ Closed(j) => SameDay(j)
    BY <1>6, <1>7
  <1>9. /\ row.status = "clocked_out" /\ row.clockOutAt = loc[h].at
        /\ row.offline = loc[h].offline
        /\ row.working = WorkedMinutes(loc[h].row.clockInAt, loc[h].at, loc[h].mins)
        /\ row.overtime = IF loc[h].row.schedOut = NULL THEN 0
                          ELSE MinutesPast(loc[h].at, loc[h].row.schedOut)
        /\ row.notes = IF NotesToWrite(h) # NULL THEN NotesToWrite(h) ELSE records[k].notes
    BY <1>1, <1>3, ClockedOutSet
  <1>10. HandlerKnows("reply", r)'
    BY <1>5 DEF HandlerKnows, SubmitterKnows, Holding
  <1>11. h \in awaited => AwaitedKnows("reply", r)'
    <2>1. ASSUME h \in awaited
          PROVE  KeyAt(outbox) = k /\ loc[h].at = outbox.at
      BY <1>1, <1>2, <2>1, AwaitedDay DEF OInv
    <2> QED
      BY <1>2, <1>3, <1>5, <1>6, <1>9, <2>1 DEF AwaitedKnows, Closed, KeyAt
  <1>12. ASSUME NEW g \in Handlers \ {h}, pc[g] # "idle", KeyOf(g) = k, ~ Closed(k)
         PROVE  HandlerKnows(pc[g], loc[g])'
    <2>1. PICK q, x : q = pc[g] /\ x = loc[g]
      OBVIOUS
    <2>2. HandlerKnows(q, x) /\ <<x.emp, x.date>> = k
      BY <1>12, <2>1 DEF OInv, KeyOf
    <2>3. PICK s \in sent : Serves(loc[h], s) /\ KeyAt(s) = k
      BY <1>1, <1>2, SubmitterFacts
    <2>4. ASSUME x.op = OfflineOp, q \in Holding
          PROVE  HandlerKnows(q, x)'
      <3>1. PICK t \in sent : Serves(x, t) /\ KeyAt(t) = k
        BY <1>12, <2>1, <2>4, SubmitterFacts DEF Holding
      <3>2. s = t
        BY <2>3, <3>1 DEF OneADay
      <3>3. x.at = loc[h].at /\ x.notes = loc[h].notes /\ x.offline = loc[h].offline
        BY <2>3, <3>1, <3>2 DEF Serves
      <3>4. HolderKnows(q, x) /\ x.row = records[k] /\ loc[h].row = records[k]
        BY <1>3, <1>4, <1>12, <2>2, <2>4 DEF HandlerKnows, SubmitterKnows, HolderKnows
      <3>5. loc[h].mins = SumBreakMinutes(k) /\ SumBreakMinutes(k)' = SumBreakMinutes(k)
        BY <1>2, <1>3, <1>4
           DEF HolderKnows, SumBreakMinutes, BreakTicks, ClosedBreaks, BreaksOf
      <3>6. Wrote(k, x)'
        BY <1>6, <1>9, <3>3, <3>4, <3>5 DEF Wrote, NotesToWrite
      <3>7. records[k].status = "on_break" => OpenBreaks(k) = {}
        BY <1>3, <1>4, <3>4 DEF HolderKnows
      <3>8. HolderKnows(q, x)'
        BY <1>3, <1>6, <1>9, <2>2, <3>4, <3>5, <3>6, <3>7 DEF HolderKnows, Closed
      <3> QED
        BY <1>2, <2>2, <2>4, <3>8 DEF HandlerKnows, SubmitterKnows, Serves
    <2>5. ASSUME x.op = OfflineOp, q \notin Holding
          PROVE  HandlerKnows(q, x)'
      BY <1>2, <2>2, <2>5 DEF HandlerKnows, SubmitterKnows, Serves
    <2>6. ASSUME x.op # OfflineOp
          PROVE  HandlerKnows(q, x)'
      BY <1>2, <1>12, <2>2, <2>3, <2>6 DEF HandlerKnows, OnlineKnows, Reading, Changing, Holding
    <2>7. HandlerKnows(q, x)'
      BY <2>4, <2>5, <2>6
    <2> QED
      BY <1>2, <2>1, <2>7 DEF IInv, LocalsOK, GotoWith
  <1>13. Grows
    BY <1>2, <1>3 DEF IInv, RecordsOK, Grows, Times
  <1>14. OInv'
    BY <1>1, <1>2, <1>5, <1>8, <1>10, <1>11, <1>12, <1>13, HandlerMoves
  <1> QED
    BY <1>8, <1>14

-----------------------------------------------------------------------------
(* Handlers of online requests. *)

(* A step that answers an online request without touching the tables. *)
LEMMA OnlineQuiet ==
  ASSUME IInv, OInv, NEW h \in Handlers, Online(h), NEW p, NEW r, GotoWith(h, p, r),
         p # "idle", r.op = loc[h].op, UNCHANGED <<clock, records, breaks, app>>,
         OnlineKnows(p, r)
  PROVE  OInv'
  <1>1. pc[h] # "idle" /\ h \notin awaited /\ HandlerKnows(p, r)
    BY OnlineFacts DEF Online, HandlerKnows
  <1>2. UNCHANGED <<clock, records, breaks, lag, outbox, sent, awaited>>
    BY DEF app
  <1> QED
    BY <1>1, <1>2, QuietMove

LEMMA OnlineRefused ==
  ASSUME IInv, OInv, NEW h \in Handlers, Online(h), NEW error, Refuse(h, error),
         UNCHANGED <<clock, records, breaks, app>>
  PROVE  OInv'
  <1>1. PICK r : r = [Request(loc[h].op, loc[h].emp, 0, DateOf(0, ServerZone))
                        EXCEPT !.answer = error]
    OBVIOUS
  <1>2. GotoWith(h, "reply", r)
    BY <1>1 DEF Refuse
  <1>3. r.op = loc[h].op /\ r.offline = FALSE
    BY <1>1 DEF Request
  <1>4. OnlineKnows("reply", r)
    BY <1>3, OnlineFacts DEF OnlineKnows, Reading, Changing, Holding
  <1> QED
    BY <1>2, <1>3, <1>4, OnlineQuiet

(* An online request goes on to change a day: no submission is of that day. *)
LEMMA OnlineGoesOn ==
  ASSUME IInv, OInv, NEW h \in Handlers, Online(h), NEW p \in Changing, NEW r,
         GotoWith(h, p, r), r.op = loc[h].op, r.emp = loc[h].emp, r.date = loc[h].date,
         r.offline = loc[h].offline, UNCHANGED <<clock, records, breaks, app>>,
         \/ pc[h] \in Reading /\ ~ Closed(KeyOf(h))
         \/ pc[h] \in Changing \ {"ci_insert"}
  PROVE  OInv'
  <1>1. OnlineKnows(pc[h], loc[h])
    BY OnlineFacts
  <1>2. OnlineKnows(p, r)
    BY <1>1 DEF OnlineKnows, KeyOf, Reading, Changing, Holding
  <1>3. p # "idle"
    BY DEF Changing, Holding
  <1> QED
    BY <1>2, <1>3, OnlineQuiet

(* An online request changes its day. *)
LEMMA OnlineChanges ==
  ASSUME IInv, OInv, Grows, NEW h \in Handlers, Online(h), pc[h] \in Changing,
         NEW k, k = KeyOf(h), NEW p, NEW r, GotoWith(h, p, r), r.op = loc[h].op,
         r.offline = loc[h].offline, UNCHANGED app,
         \/ p = "reply"
         \/ /\ p \in Changing /\ r.emp = loc[h].emp /\ r.date = loc[h].date
            /\ ~ Closed(k)',
         \A j \in Keys \ {k} : SameDay(j),
         pc[h] = "ci_insert" /\ Closed(k) => SameDay(k)
  PROVE  OInv' /\ \A j \in Keys : Closed(j) => SameDay(j)
  <1>1. OnlineKnows(pc[h], loc[h]) /\ h \notin awaited /\ pc[h] # "idle" /\ p # "idle"
    BY OnlineFacts DEF Online, Changing, Holding
  <1>2. k = <<loc[h].emp, loc[h].date>> /\ \A s \in sent : KeyAt(s) # k
    BY <1>1 DEF OnlineKnows, KeyOf
  <1>3. \A j \in Keys : j # k \/ Closed(j) => SameDay(j)
    BY <1>1, <1>2 DEF OnlineKnows
  <1>4. UNCHANGED <<lag, outbox, sent, awaited>>
    BY DEF app
  <1>5. HandlerKnows(p, r)'
    BY <1>1, <1>2, <1>4
       DEF HandlerKnows, OnlineKnows, Online, Reading, Changing, Holding, KeyAt
  <1>6. ASSUME NEW g \in Handlers \ {h}, pc[g] # "idle", KeyOf(g) = k
        PROVE  HandlerKnows(pc[g], loc[g])'
    <2>1. PICK q, x : q = pc[g] /\ x = loc[g]
      OBVIOUS
    <2>2. x.op = OfflineOp /\ HandlerKnows(q, x)
      BY <1>6, <2>1 DEF OInv, Online
    <2>3. q = "reply"
      BY <1>2, <1>6, <2>1, <2>2, SubmitterFacts
    <2>4. HandlerKnows(q, x)'
      BY <2>2, <2>3 DEF HandlerKnows, SubmitterKnows, Holding
    <2> QED
      BY <2>1, <2>4 DEF IInv, LocalsOK, GotoWith
  <1>7. OInv'
    BY <1>1, <1>3, <1>4, <1>5, <1>6, HandlerMoves
  <1> QED
    BY <1>3, <1>7

(* Only clock-outs are submitted. *)
LEMMA OthersAreOnline ==
  ASSUME OInv, NEW h \in Handlers, pc[h] # "idle",
         \/ pc[h] \notin Holding \cup {"co_read", "reply"}
         \/ loc[h].op # OfflineOp
  PROVE  Online(h)
  BY DEF OInv, HandlerKnows, SubmitterKnows, Online

LEMMA NothingChanges ==
  ASSUME UNCHANGED <<records, breaks>>
  PROVE  \A j : SameDay(j)
  BY DEF SameDay, BreaksOf

LEMMA ClockInMoves ==
  ASSUME IInv, OInv, NEW h \in Handlers, ClockInRead(h) \/ ClockInInsert(h), UNCHANGED app
  PROVE  OInv' /\ \A j \in Keys : Closed(j) => SameDay(j)
  <1>1. Online(h)
    BY OthersAreOnline DEF ClockInRead, ClockInInsert, At, Holding
  <1>2. CASE ClockInRead(h)
    <2>1. pc[h] = "ci_read" /\ UNCHANGED <<clock, records, breaks>>
      BY <1>2 DEF ClockInRead, At, tables
    <2>2. CASE records[KeyOf(h)] = NULL /\ Goto(h, "ci_insert")
      <3>1. GotoWith(h, "ci_insert", loc[h]) /\ ~ Closed(KeyOf(h))
        BY <2>2, GotoKeepsLocals DEF IInv, Closed
      <3> QED
        BY <1>1, <2>1, <3>1, OnlineGoesOn, NothingChanges DEF Reading, Changing
    <2>3. CASE Refuse(h, "already_clocked_in")
      BY <1>1, <2>1, <2>3, OnlineRefused, NothingChanges
    <2> QED
      BY <1>2, <2>2, <2>3 DEF ClockInRead
  <1>3. CASE ClockInInsert(h)
    <2>1. pc[h] = "ci_insert" /\ UNCHANGED <<clock, breaks>>
      BY <1>3 DEF ClockInInsert, At
    <2>2. ASSUME records[KeyOf(h)] = NULL, NEW s \in Schedules,
                 records' = [records EXCEPT ![KeyOf(h)] = NewRecord(h, s)], Done(h)
          PROVE  OInv' /\ \A j \in Keys : Closed(j) => SameDay(j)
      <3>1. PICK k, row, r : /\ k = KeyOf(h) /\ row = NewRecord(h, s)
                             /\ r = [loc[h] EXCEPT !.answer = "ok", !.row = NULL, !.mins = 0]
        OBVIOUS
      <3>2. /\ k \in Keys /\ loc[h] \in Requests /\ row # NULL /\ ~ Closed(k)
        <4>1. RowOK(k, row)
          BY <2>1, <3>1, NewRecordIsRow
        <4> QED
          BY <2>1, <2>2, <3>1, <4>1, ServingFacts, NullAssumption DEF RowOK, Closed
      <3>3. GotoWith(h, "reply", r) /\ r.op = loc[h].op /\ r.offline = loc[h].offline
        BY <2>2, <3>1, <3>2, DoneSet DEF Done
      <3>4. records'[k] = row /\ \A j \in Keys \ {k} : SameDay(j)
        BY <2>1, <2>2, <3>1, <3>2, RowWritten
      <3>5. Grows
        BY <2>1, <2>2, <3>1, <3>2 DEF IInv, RecordsOK, Grows, Times
      <3> QED
        BY <1>1, <2>1, <3>1, <3>2, <3>3, <3>4, <3>5, OnlineChanges DEF Changing
    <2>3. CASE Refuse(h, "failed") /\ UNCHANGED records
      BY <1>1, <2>1, <2>3, OnlineRefused, NothingChanges
    <2> QED
      BY <1>3, <2>2, <2>3 DEF ClockInInsert
  <1> QED
    BY <1>2, <1>3

LEMMA StatusMoves ==
  ASSUME IInv, OInv, NEW h \in Handlers, StartBreakStatus(h) \/ EndBreakStatus(h),
         UNCHANGED app
  PROVE  OInv' /\ \A j \in Keys : Closed(j) => SameDay(j)
  <1>1. PICK s \in Statuses :
          /\ pc[h] \in {"sb_status", "eb_status"}
          /\ UpdateStatus(KeyOf(h), s) /\ Done(h) /\ UNCHANGED <<clock, breaks>>
    BY DEF StartBreakStatus, EndBreakStatus, At, Statuses
  <1>2. Online(h) /\ pc[h] \in Changing
    BY <1>1, OthersAreOnline DEF Holding, Changing
  <1>3. PICK k, row, r :
          /\ k = KeyOf(h) /\ row = [records[k] EXCEPT !.status = s]
          /\ r = [loc[h] EXCEPT !.answer = "ok", !.row = NULL, !.mins = 0]
    OBVIOUS
  <1>4. k \in Keys /\ loc[h] \in Requests /\ records[k] \in Rows
    BY <1>1, <1>3, ServingFacts, FoundFacts DEF Found, RowOK
  <1>5. row # NULL
    BY <1>3, <1>4, StatusSet
  <1>6. records' = [records EXCEPT ![k] = row]
    BY <1>1, <1>3 DEF UpdateStatus
  <1>7. \A j \in Keys \ {k} : SameDay(j)
    BY <1>1, <1>4, <1>6, RowWritten
  <1>8. GotoWith(h, "reply", r) /\ r.op = loc[h].op /\ r.offline = loc[h].offline
    BY <1>1, <1>3, <1>4, DoneSet DEF Done
  <1>9. Grows
    BY <1>1, <1>5, <1>6 DEF IInv, RecordsOK, Grows, Times
  <1> QED
    BY <1>1, <1>2, <1>3, <1>7, <1>8, <1>9, OnlineChanges

LEMMA BreakMoves ==
  ASSUME IInv, OInv, NEW h \in Handlers,
         \/ StartBreakRead(h) \/ StartBreakInsert(h)
         \/ EndBreakRead(h) \/ EndBreakOpen(h) \/ EndBreakClose(h),
         UNCHANGED app
  PROVE  OInv' /\ \A j \in Keys : Closed(j) => SameDay(j)
  <1>1. Online(h) /\ UNCHANGED <<clock, records>>
    BY OthersAreOnline
       DEF StartBreakRead, StartBreakInsert, EndBreakRead, EndBreakOpen, EndBreakClose,
           At, tables, Holding
  <1>2. ASSUME NEW error, Refuse(h, error), UNCHANGED breaks
        PROVE  OInv' /\ \A j \in Keys : Closed(j) => SameDay(j)
    BY <1>1, <1>2, OnlineRefused, NothingChanges
  <1>3. ASSUME NEW p \in {"sb_insert", "eb_open", "eb_close"}, Goto(h, p), UNCHANGED breaks,
               \/ pc[h] \in Reading /\ records[KeyOf(h)].status # "clocked_out"
               \/ pc[h] = "eb_open"
        PROVE  OInv' /\ \A j \in Keys : Closed(j) => SameDay(j)
    <2>1. GotoWith(h, p, loc[h])
      BY <1>3, GotoKeepsLocals DEF IInv
    <2>2. p \in Changing
      BY DEF Changing
    <2>3. \/ pc[h] \in Reading /\ ~ Closed(KeyOf(h))
          \/ pc[h] \in Changing \ {"ci_insert"}
      BY <1>3 DEF Closed, Changing
    <2> QED
      BY <1>1, <1>3, <2>1, <2>2, <2>3, OnlineGoesOn, NothingChanges
  <1>4. ASSUME NEW p, \/ pc[h] = "sb_insert" /\ p = "sb_status" /\ StartBreak(KeyOf(h), loc[h].at)
                      \/ pc[h] = "eb_close" /\ p = "eb_status" /\ EndLatestBreak(KeyOf(h), loc[h].at),
               Goto(h, p)
        PROVE  OInv' /\ \A j \in Keys : Closed(j) => SameDay(j)
    <2>1. PICK k, r : k = KeyOf(h) /\ r = loc[h]
      OBVIOUS
    <2>2. k \in Keys /\ r.at \in Times /\ GotoWith(h, p, r)
      BY <1>4, <2>1, ServingFacts, GotoKeepsLocals DEF Requests, IInv
    <2>3. \A j \in Keys \ {k} : SameDay(j)
      BY <1>1, <1>4, <2>1, <2>2, BreakStarted, BreaksEnded
    <2>4. ~ Closed(k)'
      BY <1>1, <1>4, <2>1, OnlineFacts DEF OnlineKnows, Changing, KeyOf, Closed
    <2>5. Grows
      BY <1>1 DEF IInv, Grows, Times
    <2>6. pc[h] \in Changing /\ p \in Changing /\ pc[h] # "ci_insert"
      BY <1>4 DEF Changing
    <2> QED
      BY <1>1, <2>1, <2>2, <2>3, <2>4, <2>5, <2>6, OnlineChanges
  <1>5. CASE StartBreakRead(h)
    BY <1>2, <1>3, <1>5 DEF StartBreakRead, At, tables, Reading
  <1>6. CASE StartBreakInsert(h)
    BY <1>4, <1>6 DEF StartBreakInsert, At
  <1>7. CASE EndBreakRead(h)
    BY <1>2, <1>3, <1>7 DEF EndBreakRead, At, tables, Reading
  <1>8. CASE EndBreakOpen(h)
    BY <1>2, <1>3, <1>8 DEF EndBreakOpen, At, tables
  <1>9. CASE EndBreakClose(h)
    BY <1>4, <1>9 DEF EndBreakClose, At
  <1> QED
    BY <1>5, <1>6, <1>7, <1>8, <1>9

LEMMA OnlineClocksOut ==
  ASSUME IInv, OInv, NEW h \in Handlers, loc[h].op # OfflineOp,
         ClockOutRead(h) \/ ClockOutClose(h) \/ ClockOutSum(h) \/ ClockOutWrite(h),
         UNCHANGED app
  PROVE  OInv' /\ \A j \in Keys : Closed(j) => SameDay(j)
  <1>1. Online(h) /\ UNCHANGED clock
    BY OthersAreOnline DEF ClockOutRead, ClockOutClose, ClockOutSum, ClockOutWrite, At
  <1>2. PICK k : k = KeyOf(h)
    OBVIOUS
  <1>3. /\ k \in Keys /\ loc[h] \in Requests /\ loc[h].at \in Times
        /\ pc[h] \in Changing \ {"ci_insert"} => ~ Closed(k)
    BY <1>1, <1>2, ServingFacts, OnlineFacts DEF Online, Requests, OnlineKnows, KeyOf
  <1>4. CASE ClockOutRead(h)
    <2>1. pc[h] \in Reading /\ UNCHANGED <<records, breaks>>
      BY <1>4 DEF ClockOutRead, At, tables, Reading
    <2>2. ASSUME NEW error, Refuse(h, error)
          PROVE  OInv'
      BY <1>1, <2>1, <2>2, OnlineRefused
    <2>3. ASSUME NEW p \in {"co_close", "co_sum"},
                 GotoWith(h, p, [loc[h] EXCEPT !.row = records[k]]),
                 records[k].status # "clocked_out"
          PROVE  OInv'
      <3>1. PICK r : r = [loc[h] EXCEPT !.row = records[k]]
        OBVIOUS
      <3>2. /\ GotoWith(h, p, r) /\ r.op = loc[h].op /\ r.emp = loc[h].emp
            /\ r.date = loc[h].date /\ r.offline = loc[h].offline
        BY <1>3, <2>3, <3>1, ReadRowSet
      <3>3. p \in Changing /\ ~ Closed(KeyOf(h))
        BY <1>2, <2>3 DEF Changing, Holding, Closed
      <3> QED
        BY <1>1, <2>1, <3>2, <3>3, OnlineGoesOn
    <2>4. OInv'
      BY <1>2, <1>4, <2>2, <2>3 DEF ClockOutRead
    <2> QED
      BY <2>1, <2>4, NothingChanges
  <1>5. CASE ClockOutClose(h)
    <2>1. PICK r : r = loc[h]
      OBVIOUS
    <2>2. /\ pc[h] = "co_close" /\ UNCHANGED records
          /\ EndLatestBreak(k, r.at) /\ GotoWith(h, "co_sum", r)
      BY <1>2, <1>5, <2>1, GotoKeepsLocals DEF ClockOutClose, At, IInv
    <2>3. \A j \in Keys \ {k} : SameDay(j)
      BY <1>3, <2>1, <2>2, BreaksEnded
    <2>4. ~ Closed(k)'
      BY <1>3, <2>2 DEF Closed, Changing, Holding
    <2>5. Grows
      BY <1>1, <2>2 DEF IInv, Grows, Times
    <2>6. "co_close" \in Changing /\ "co_sum" \in Changing
      BY DEF Changing, Holding
    <2> QED
      BY <1>1, <1>2, <2>1, <2>2, <2>3, <2>4, <2>5, <2>6, OnlineChanges
  <1>6. CASE ClockOutSum(h)
    <2>1. PICK r : r = [loc[h] EXCEPT !.mins = SumBreakMinutes(KeyOf(h))]
      OBVIOUS
    <2>2. pc[h] = "co_sum" /\ UNCHANGED <<records, breaks>> /\ GotoWith(h, "co_write", r)
      BY <1>6, <2>1 DEF ClockOutSum, At, tables
    <2>3. /\ r.op = loc[h].op /\ r.emp = loc[h].emp
          /\ r.date = loc[h].date /\ r.offline = loc[h].offline
      BY <1>3, <2>1, SumSet
    <2>4. "co_write" \in Changing /\ "co_sum" \in Changing \ {"ci_insert"}
      BY DEF Changing, Holding
    <2>5. OInv'
      BY <1>1, <2>2, <2>3, <2>4, OnlineGoesOn
    <2> QED
      BY <2>2, <2>5, NothingChanges
  <1>7. CASE ClockOutWrite(h)
    <2>1. PICK row, r :
            /\ row = ClockedOut(records[k], h)
            /\ r = [loc[h] EXCEPT !.answer = "ok", !.row = NULL, !.mins = 0]
      OBVIOUS
    <2>2. /\ pc[h] = "co_write" /\ UNCHANGED breaks /\ GotoWith(h, "reply", r)
          /\ records' = [records EXCEPT ![k] = row]
      BY <1>2, <1>7, <2>1 DEF ClockOutWrite, At, Done
    <2>3. row # NULL
      <3>1. RowOK(k, records[k])
        BY <1>2, <2>2, FoundFacts DEF Found
      <3>2. RowOK(k, row)
        BY <1>2, <2>1, <2>2, <3>1, ClockedOutIsRow
      <3> QED
        BY <3>2, NullAssumption DEF RowOK
    <2>4. r.op = loc[h].op /\ r.offline = loc[h].offline
      BY <1>3, <2>1, DoneSet
    <2>5. \A j \in Keys \ {k} : SameDay(j)
      BY <1>3, <2>2, RowWritten
    <2>6. Grows
      BY <1>1, <1>3, <2>2, <2>3 DEF IInv, RecordsOK, Grows, Times
    <2>7. "co_write" \in Changing
      BY DEF Changing, Holding
    <2> QED
      BY <1>1, <1>2, <2>2, <2>4, <2>5, <2>6, <2>7, OnlineChanges
  <1> QED
    BY <1>4, <1>5, <1>6, <1>7

LEMMA ServeMoves ==
  ASSUME IInv, OInv, OneADay, NEW h \in Handlers, Serve(h)
  PROVE  OInv' /\ \A j \in Keys : Closed(j) => SameDay(j)
  <1>1. CASE \/ ClockOutRead(h) \/ ClockOutClose(h) \/ ClockOutSum(h) \/ ClockOutWrite(h)
    <2>1. ASSUME ClockOutRead(h) \/ ClockOutSum(h)
          PROVE  \A j : SameDay(j)
      BY <2>1, NothingChanges DEF ClockOutRead, ClockOutSum, tables
    <2>2. UNCHANGED app
      BY DEF Serve
    <2> QED
      BY <1>1, <2>1, <2>2, OnlineClocksOut, SubmitterReads, SubmitterCloses, SubmitterSums,
         SubmitterWrites
  <1>2. CASE ~ (\/ ClockOutRead(h) \/ ClockOutClose(h) \/ ClockOutSum(h) \/ ClockOutWrite(h))
    BY <1>2, ClockInMoves, BreakMoves, StatusMoves DEF Serve
  <1> QED
    BY <1>1, <1>2

-----------------------------------------------------------------------------
(* Requests begin and end. *)

(* A handler leaves; the app may have its answer, or never hear of it. *)
LEMMA HandlerLeaves ==
  ASSUME IInv, OInv, NEW h \in Handlers, pc[h] # "idle", Answer(h) \/ Die(h)
  PROVE  OInv' /\ UNCHANGED <<records, breaks>>
  <1>1. /\ GotoWith(h, "idle", NULL) /\ UNCHANGED <<clock, records, breaks, lag, sent>>
        /\ \/ UNCHANGED <<outbox, awaited>> /\ h \notin awaited
           \/ outbox' = outbox /\ awaited' = awaited \ {h}
           \/ outbox' = NULL /\ awaited' = {} /\ h \in awaited /\ pc[h] = "reply"
    BY DEF Answer, Die, Reply, Abort, At, tables, app, Settle, Unheard
  <1>2. /\ pc'[h] = "idle"
        /\ \A g \in Handlers \ {h} : pc'[g] = pc[g] /\ loc'[g] = loc[g]
    BY <1>1 DEF IInv, LocalsOK, GotoWith
  <1>3. \A j : SameDay(j)
    BY <1>1, NothingChanges
  <1>4. outbox' \in {outbox, NULL} /\ awaited' \subseteq awaited \ {h}
    BY <1>1 DEF OInv
  <1>5. AppOK'
    <2>1. outbox' = outbox => AppOK'
      BY <1>1 DEF OInv, AppOK, Submission, Closed, KeyAt
    <2>2. ASSUME outbox' = NULL, h \in awaited, pc[h] = "reply"
          PROVE  AppOK'
      <3>1. Closed(KeyAt(outbox))
        BY <2>2 DEF OInv, AwaitedKnows
      <3> QED
        BY <1>1, <2>2, <3>1 DEF OInv, AppOK, Submission, Closed, KeyAt
    <2> QED
      BY <1>1, <2>1, <2>2
  <1>6. \A g \in Handlers : Online(g)' => Online(g)
    BY <1>2 DEF Online
  <1>7. ASSUME NEW g \in Handlers, pc'[g] # "idle"
        PROVE  HandlerKnows(pc[g], loc[g])'
    <2>1. PICK q, x : q = pc[g] /\ x = loc[g]
      OBVIOUS
    <2>2. HandlerKnows(q, x)'
      BY <1>1, <1>2, <1>3, <1>4, <1>7, <2>1, SameHandlerKnows DEF OInv
    <2> QED
      BY <1>2, <1>7, <2>1, <2>2
  <1>8. ASSUME NEW g \in awaited'
        PROVE  AwaitedKnows(pc[g], loc[g])'
    <2>1. g \in awaited /\ g # h /\ outbox' = outbox
      BY <1>1, <1>8
    <2>2. PICK q, x : q = pc[g] /\ x = loc[g]
      OBVIOUS
    <2>3. AwaitedKnows(q, x)'
      BY <1>1, <1>3, <2>1, <2>2, AwaitedStays DEF OInv
    <2> QED
      BY <1>2, <2>1, <2>2, <2>3 DEF OInv
  <1>9. awaited' \subseteq Handlers
    BY <1>4 DEF OInv
  <1> QED
    BY <1>1, <1>5, <1>6, <1>7, <1>8, <1>9 DEF OInv

(* A request begins. *)
LEMMA HandlerBegins ==
  ASSUME IInv, OInv, NEW h \in Handlers, NEW p, p # "idle", NEW r, Receive(h, r, p),
         UNCHANGED <<lag, outbox, sent>>, awaited' \subseteq awaited \cup {h},
         HandlerKnows(p, r), h \in awaited' => AwaitedKnows(p, r),
         r.op # OfflineOp => \A g \in Handlers : ~ Online(g)
  PROVE  OInv' /\ UNCHANGED <<records, breaks>>
  <1>1. /\ GotoWith(h, p, r) /\ pc[h] = "idle" /\ UNCHANGED <<clock, records, breaks>>
    BY DEF Receive, tables
  <1>2. /\ pc'[h] = p /\ loc'[h] = r
        /\ \A g \in Handlers \ {h} : pc'[g] = pc[g] /\ loc'[g] = loc[g]
    BY <1>1 DEF IInv, LocalsOK, GotoWith
  <1>3. \A j : SameDay(j)
    BY <1>1, NothingChanges
  <1>4. AppOK'
    BY <1>1 DEF OInv, AppOK, Submission, Closed, KeyAt
  <1>5. \A f, g \in Handlers : Online(f)' /\ Online(g)' => f = g
    BY <1>2 DEF OInv, Online
  <1>6. ASSUME NEW g \in Handlers, pc'[g] # "idle"
        PROVE  HandlerKnows(pc[g], loc[g])'
    <2>1. CASE g = h
      <3>1. HandlerKnows(p, r)'
        BY <1>3, SameHandlerKnows
      <3> QED
        BY <1>2, <2>1, <3>1
    <2>2. CASE g # h
      <3>1. PICK q, x : q = pc[g] /\ x = loc[g]
        OBVIOUS
      <3>2. HandlerKnows(q, x)'
        BY <1>2, <1>3, <1>6, <2>2, <3>1, SameHandlerKnows DEF OInv
      <3> QED
        BY <1>2, <2>2, <3>1, <3>2
    <2> QED
      BY <2>1, <2>2
  <1>7. ASSUME NEW g \in awaited'
        PROVE  g \in Handlers /\ AwaitedKnows(pc[g], loc[g])'
    <2>1. CASE g = h
      <3>1. AwaitedKnows(p, r)'
        BY <1>3, <1>7, <2>1, AwaitedStays DEF OInv
      <3> QED
        BY <1>2, <2>1, <3>1
    <2>2. CASE g # h
      <3>1. PICK q, x : q = pc[g] /\ x = loc[g]
        OBVIOUS
      <3>2. g \in awaited /\ g \in Handlers
        BY <1>7, <2>2 DEF OInv
      <3>3. AwaitedKnows(q, x)'
        BY <1>3, <3>1, <3>2, AwaitedStays DEF OInv
      <3> QED
        BY <1>2, <2>2, <3>1, <3>2, <3>3
    <2> QED
      BY <2>1, <2>2
  <1> QED
    BY <1>1, <1>4, <1>5, <1>6, <1>7 DEF OInv

(* A copy of a submission arrives. *)
LEMMA DeliverMoves ==
  ASSUME IInv, OInv, NEW s \in sent, Deliver(s)
  PROVE  OInv' /\ UNCHANGED <<records, breaks>>
  <1>1. PICK h, r : h = Fresh /\ r = SubmissionRequest(s)
    OBVIOUS
  <1>2. /\ h \in Handlers /\ Receive(h, r, "co_read")
        /\ awaited' = IF s = outbox THEN awaited \cup {h} ELSE awaited
        /\ UNCHANGED <<lag, outbox, sent>>
    BY <1>1, FreshIsIdle DEF Deliver
  <1>3. pc[h] = "idle"
    BY <1>2 DEF Receive
  <1>4. r.op = OfflineOp /\ Serves(r, s)
    BY <1>1, SubmissionSet DEF Serves
  <1>5. HandlerKnows("co_read", r)
    BY <1>4 DEF HandlerKnows, SubmitterKnows, Holding
  <1>6. h \in awaited' => AwaitedKnows("co_read", r)
    BY <1>2, <1>3, <1>4 DEF OInv, AppOK, AwaitedKnows
  <1>7. awaited' \subseteq awaited \cup {h}
    BY <1>2
  <1> QED
    BY <1>2, <1>4, <1>5, <1>6, <1>7, HandlerBegins

(* Two instants of one day are less than a day apart. *)
LEMMA SameDateIsNear ==
  ASSUME NEW a \in Nat, NEW b \in Nat, DateOf(a, ServerZone) = DateOf(b, ServerZone)
  PROVE  b - a <= DayLength
  <1>1. PICK D \in Nat \ {0} : D = DayLength
    BY ClockAssumption
  <1>2. a \div D = b \div D
    <2>1. a + 0 = a /\ b + 0 = b
      OBVIOUS
    <2>2. (a + 0) \div D = (b + 0) \div D
      BY <1>1 DEF DateOf, ServerZone
    <2> QED
      BY <2>1, <2>2
  <1>3. /\ a = D * (a \div D) + (a % D) /\ (a % D) \in 0 .. D - 1
        /\ b = D * (b \div D) + (b % D) /\ (b % D) \in 0 .. D - 1
    <2>1. \A n \in Nat : n = D * (n \div D) + (n % D) /\ (n % D) \in 0 .. D - 1
      BY Z3T(30)
    <2> QED
      BY <2>1
  <1>4. PICK x \in Int : x = D * (a \div D)
    BY <1>3
  <1> QED
    BY <1>1, <1>2, <1>3, <1>4

(* The app is online: it has its answers, and no submission of today is unanswered. *)
LEMMA OnlineBegins ==
  ASSUME IInv, OInv, Ready, UNCHANGED app, NEW h \in Handlers, NEW p \in Reading, NEW r,
         Receive(h, r, p), r.op # OfflineOp, r.offline = FALSE,
         r.date = DateOf(clock, ServerZone)
  PROVE  OInv' /\ UNCHANGED <<records, breaks>>
  <1>1. outbox = NULL /\ \A g \in Handlers : ~ Online(g)
    BY OnlineFacts DEF Ready, Busy, Online, OnlineKnows
  <1>2. ASSUME NEW s \in sent, KeyAt(s) = <<r.emp, r.date>>
        PROVE  Closed(KeyAt(s))
    <2>1. s.at \in Nat /\ clock \in Nat /\ s # outbox /\ s.at <= clock
      BY <1>1 DEF OInv, AppOK, Submission, IInv, Times
    <2>2. clock - s.at <= DayLength
      BY <1>2, <2>1, SameDateIsNear DEF KeyAt
    <2>3. ~ (clock - s.at > MaxOfflineDuration)
      BY <2>1, <2>2, ClockAssumption DEF MaxOfflineDuration
    <2> QED
      BY <2>1, <2>3 DEF OInv, AppOK
  <1>3. OnlineKnows(p, r)
    BY <1>1, <1>2 DEF OnlineKnows, Reading, Changing, Holding
  <1>4. p # "idle" /\ HandlerKnows(p, r)
    BY <1>3 DEF HandlerKnows, Reading
  <1>5. UNCHANGED <<lag, outbox, sent>> /\ awaited' = awaited
    BY DEF app
  <1>6. h \notin awaited
    BY <1>1 DEF OInv, AwaitedKnows
  <1> QED
    BY <1>1, <1>4, <1>5, <1>6, HandlerBegins

LEMMA SendOnlineMoves ==
  ASSUME IInv, OInv, SendOnline
  PROVE  OInv' /\ UNCHANGED <<records, breaks>>
  <1>1. PICK h : h = Fresh
    OBVIOUS
  <1>2. h \in Handlers /\ Ready /\ UNCHANGED app
    BY <1>1, FreshIsIdle DEF SendOnline
  <1>3. ASSUME NEW op, op # OfflineOp, NEW e, NEW n, NEW p \in Reading,
               Receive(h, [Now(op, e) EXCEPT !.notes = n], p)
        PROVE  OInv' /\ UNCHANGED <<records, breaks>>
    <2>1. PICK r : r = [Now(op, e) EXCEPT !.notes = n]
      OBVIOUS
    <2>2. r.op # OfflineOp /\ r.offline = FALSE /\ r.date = DateOf(clock, ServerZone)
      BY <1>3, <2>1 DEF Now, Request
    <2>3. Receive(h, r, p)
      BY <1>3, <2>1
    <2> QED
      BY <1>2, <2>2, <2>3, OnlineBegins
  <1>4. ASSUME NEW op, op # OfflineOp, NEW e, NEW p \in Reading, Receive(h, Now(op, e), p)
        PROVE  OInv' /\ UNCHANGED <<records, breaks>>
    <2>1. PICK r : r = Now(op, e)
      OBVIOUS
    <2>2. r.op # OfflineOp /\ r.offline = FALSE /\ r.date = DateOf(clock, ServerZone)
      BY <1>4, <2>1 DEF Now, Request
    <2>3. Receive(h, r, p)
      BY <1>4, <2>1
    <2> QED
      BY <1>2, <2>2, <2>3, OnlineBegins
  <1>5. CASE ReceiveClockIn(h)
    BY <1>3, <1>5 DEF ReceiveClockIn, Reading, OfflineOp
  <1>6. CASE ReceiveStartBreak(h)
    BY <1>4, <1>6 DEF ReceiveStartBreak, Reading, OfflineOp
  <1>7. CASE ReceiveEndBreak(h)
    BY <1>4, <1>7 DEF ReceiveEndBreak, Reading, OfflineOp
  <1>8. CASE ReceiveClockOut(h)
    BY <1>3, <1>8 DEF ReceiveClockOut, Reading, OfflineOp
  <1> QED
    BY <1>1, <1>5, <1>6, <1>7, <1>8 DEF SendOnline

-----------------------------------------------------------------------------
(* The app, and time. *)

(* The server's time, in whole seconds, is never ahead of its clock. *)
LEMMA TimeIsBehind ==
  ASSUME NEW t \in Nat
  PROVE  ServerTime(t) \in Nat /\ ServerTime(t) <= t
  <1>1. PICK S \in Nat \ {0} : S = SecondLength
    BY OfflineAssumption
  <1>2. /\ t = S * (t \div S) + (t % S) /\ (t % S) \in 0 .. S - 1
        /\ t \div S \in Nat
    BY Z3T(30)
  <1>3. PICK q \in Nat : q = t \div S
    BY <1>2
  <1>4. q * S = S * q /\ q * S \in Nat
    BY Z3T(30)
  <1>5. ServerTime(t) = q * S
    BY <1>1, <1>3 DEF ServerTime
  <1>6. t = q * S + (t % S) /\ (t % S) \in Nat
    BY <1>2, <1>3, <1>4
  <1>7. PICK x \in Nat, y \in Nat : x = q * S /\ y = t % S
    BY <1>4, <1>6
  <1> QED
    BY <1>5, <1>6, <1>7

(* A step of the app that leaves the service and what was sent alone. *)
LEMMA AppMoves ==
  ASSUME IInv, OInv, UNCHANGED <<records, breaks, pc, loc>>, AppOK', awaited' = awaited,
         \A h \in Handlers : pc[h] # "idle" => HandlerKnows(pc[h], loc[h])',
         \A h \in awaited : AwaitedKnows(pc[h], loc[h])'
  PROVE  OInv'
  BY DEF OInv, Online

LEMMA ClockMoves ==
  ASSUME IInv, OInv, UNCHANGED <<records, breaks, pc, loc, outbox, sent, awaited>>,
         clock' \in Times, clock <= clock', lag' \in Maybe(Nat)
  PROVE  OInv'
  <1>1. \A j : SameDay(j)
    BY NothingChanges
  <1>2. AppOK'
    <2>1. \A s : Submission(s) => Submission(s)'
      BY DEF IInv, Times, Submission, KeyAt
    <2>2. ASSUME NEW s \in sent, clock - s.at > MaxOfflineDuration
          PROVE  clock' - s.at > MaxOfflineDuration
      <3>1. /\ s.at \in Int /\ clock \in Int /\ clock' \in Int
            /\ MaxOfflineDuration \in Int
        BY ClockAssumption DEF OInv, AppOK, Submission, IInv, Times, MaxOfflineDuration
      <3> QED
        BY <2>2, <3>1
    <2> QED
      BY <2>1, <2>2 DEF OInv, AppOK, Closed, KeyAt
  <1>3. ASSUME NEW h \in Handlers, pc[h] # "idle"
        PROVE  HandlerKnows(pc[h], loc[h])'
    <2>1. PICK q, x : q = pc[h] /\ x = loc[h]
      OBVIOUS
    <2>2. HandlerKnows(q, x)'
      BY <1>1, <1>3, <2>1, SameHandlerKnows DEF OInv
    <2> QED
      BY <2>1, <2>2
  <1>4. ASSUME NEW h \in awaited
        PROVE  AwaitedKnows(pc[h], loc[h])'
    <2>1. PICK q, x : q = pc[h] /\ x = loc[h]
      OBVIOUS
    <2>2. AwaitedKnows(q, x)'
      BY <1>1, <1>4, <2>1, AwaitedStays DEF OInv
    <2> QED
      BY <2>1, <2>2
  <1> QED
    BY <1>2, <1>3, <1>4, AppMoves

LEMMA GetServerTimeMoves ==
  ASSUME IInv, OInv, GetServerTime
  PROVE  OInv'
  <1>1. PICK d \in 0 .. MaxLatency : d <= clock /\ lag' = clock - ServerTime(clock - d)
    BY DEF GetServerTime
  <1>2. clock \in Nat /\ d \in Nat /\ clock - d \in Nat
    BY <1>1, OfflineAssumption DEF IInv, Times
  <1>3. ServerTime(clock - d) \in Nat /\ ServerTime(clock - d) <= clock - d
    BY <1>2, TimeIsBehind
  <1>4. lag' \in Nat
    <2>1. PICK x \in Nat : x = ServerTime(clock - d)
      BY <1>3
    <2> QED
      BY <1>1, <1>2, <1>3, <2>1
  <1> QED
    BY <1>4, ClockMoves DEF GetServerTime, vars, tables, Maybe, IInv, Times

(* A handler of a submission needs only that it was sent. *)
LEMMA SubmittersStay ==
  ASSUME NEW p, NEW r, HandlerKnows(p, r), r.op = OfflineOp, UNCHANGED <<records, breaks>>,
         sent \subseteq sent'
  PROVE  HandlerKnows(p, r)'
  <1>1. \A j : SameDay(j)
    BY NothingChanges
  <1>2. PICK k : k = <<r.emp, r.date>>
    OBVIOUS
  <1>3. /\ OpenBreaks(k)' = OpenBreaks(k) /\ records'[k] = records[k]
        /\ SumBreakMinutes(k)' = SumBreakMinutes(k)
    BY <1>1, SameBreaks, SameTicks DEF SameDay, SumBreakMinutes
  <1>4. HolderKnows(p, r) => HolderKnows(p, r)'
    BY <1>2, <1>3 DEF HolderKnows, Wrote, Closed
  <1> QED
    BY <1>4 DEF HandlerKnows, SubmitterKnows, Serves

LEMMA ClockOutOfflineMoves ==
  ASSUME IInv, OInv, ClockOutOffline
  PROVE  OInv'
  <1>1. /\ outbox = NULL /\ lag # NULL /\ \A g \in Busy : loc[g].offline
        /\ UNCHANGED <<clock, records, breaks, pc, loc, lag, sent, awaited>>
    BY DEF ClockOutOffline, Ready, vars, tables
  <1>2. PICK t : t = clock - lag
    OBVIOUS
  <1>3. PICK n \in Maybe(Notes) :
          /\ outbox' = [at |-> t, notes |-> n] /\ lag <= clock
          /\ records[<<User, DateOf(t, ServerZone)>>] # NULL
    BY <1>2 DEF ClockOutOffline, WorkDate
  <1>4. t \in Times /\ t <= clock
    <2>1. lag \in Nat /\ clock \in 0 .. MaxTime /\ MaxTime \in Nat
      BY <1>1, AttendanceAssumption DEF OInv, AppOK, Maybe, IInv, Times
    <2> QED
      BY <1>2, <1>3, <2>1 DEF Times
  <1>5. Submission(outbox)'
    BY <1>1, <1>3, <1>4 DEF Submission, KeyAt
  <1>6. AppOK'
    BY <1>1, <1>5 DEF OInv, AppOK, Submission, Closed, KeyAt
  <1>7. awaited = {}
    BY <1>1 DEF OInv, AwaitedKnows
  <1>8. ASSUME NEW h \in Handlers, pc[h] # "idle"
        PROVE  HandlerKnows(pc[h], loc[h])'
    <2>1. PICK q, x : q = pc[h] /\ x = loc[h]
      OBVIOUS
    <2>2. x.offline /\ HandlerKnows(q, x)
      BY <1>1, <1>8, <2>1 DEF Busy, OInv
    <2>3. x.op = OfflineOp
      BY <2>2 DEF HandlerKnows, OnlineKnows
    <2>4. HandlerKnows(q, x)'
      BY <1>1, <2>2, <2>3, SubmittersStay
    <2> QED
      BY <1>1, <2>1, <2>4
  <1> QED
    BY <1>1, <1>6, <1>7, <1>8, AppMoves

LEMMA SendMoves ==
  ASSUME IInv, OInv, Send
  PROVE  OInv'
  <1>1. /\ outbox # NULL /\ sent' = sent \cup {outbox}
        /\ UNCHANGED <<clock, records, breaks, pc, loc, lag, outbox, awaited>>
    BY DEF Send, vars, tables
  <1>2. AppOK'
    BY <1>1 DEF OInv, AppOK, Submission, Closed, KeyAt
  <1>3. ASSUME NEW h \in Handlers, pc[h] # "idle"
        PROVE  HandlerKnows(pc[h], loc[h])'
    <2>1. PICK q, x : q = pc[h] /\ x = loc[h]
      OBVIOUS
    <2>2. HandlerKnows(q, x) /\ x.op = OfflineOp
      BY <1>1, <1>3, <2>1 DEF OInv, HandlerKnows, OnlineKnows
    <2>3. HandlerKnows(q, x)'
      BY <1>1, <2>2, SubmittersStay
    <2> QED
      BY <1>1, <2>1, <2>3
  <1>4. ASSUME NEW h \in awaited
        PROVE  AwaitedKnows(pc[h], loc[h])'
    BY <1>1, <1>4 DEF OInv, AwaitedKnows, Serves, Closed, KeyAt
  <1> QED
    BY <1>1, <1>2, <1>3, <1>4, AppMoves

(* A submission is given up for its age: the app had it dated no later than the clock. *)
LEMMA RejectMoves ==
  ASSUME IInv, OInv, Reject
  PROVE  OInv'
  <1>1. /\ outbox \in sent /\ ~ ValidClientTimestamp(outbox.at, clock)
        /\ outbox' = NULL /\ awaited' = {}
        /\ UNCHANGED <<clock, records, breaks, pc, loc, lag, sent>>
    BY DEF Reject, Settle, vars, tables
  <1>2. clock - outbox.at > MaxOfflineDuration
    <2>1. /\ outbox.at \in Int /\ clock \in Int /\ outbox.at <= clock
          /\ MaxOfflineDuration \in Int
      BY <1>1, ClockAssumption DEF OInv, AppOK, Submission, IInv, Times, MaxOfflineDuration
    <2> QED
      BY <1>1, <2>1 DEF ValidClientTimestamp
  <1>3. AppOK'
    BY <1>1, <1>2 DEF OInv, AppOK, Submission, Closed, KeyAt
  <1>4. \A j : SameDay(j)
    BY <1>1, NothingChanges
  <1>5. ASSUME NEW h \in Handlers, pc'[h] # "idle"
        PROVE  HandlerKnows(pc[h], loc[h])'
    <2>1. PICK q, x : q = pc[h] /\ x = loc[h]
      OBVIOUS
    <2>2. HandlerKnows(q, x)'
      BY <1>1, <1>4, <1>5, <2>1, SameHandlerKnows DEF OInv
    <2> QED
      BY <1>1, <2>1, <2>2
  <1> QED
    BY <1>1, <1>3, <1>5 DEF OInv, Online

LEMMA TickMoves ==
  ASSUME IInv, OInv, Tick, UNCHANGED app
  PROVE  OInv'
  <1>1. clock' \in Times /\ clock <= clock'
    BY AttendanceAssumption DEF Tick, IInv, Times
  <1> QED
    BY <1>1, ClockMoves DEF Tick, tables, app, OInv, AppOK

LEMMA OfflineStep ==
  ASSUME IInv, OInv, OneADay, [OfflineNext]_allVars
  PROVE  OInv' /\ \A j \in Keys : Closed(j) => SameDay(j)
  <1>1. ASSUME NEW h \in Handlers, Serve(h) \/ Answer(h) \/ Die(h)
        PROVE  OInv' /\ \A j \in Keys : Closed(j) => SameDay(j)
    <2>1. CASE Serve(h)
      BY <2>1, ServeMoves
    <2>2. CASE Answer(h) \/ Die(h)
      <3>1. pc[h] # "idle"
        BY <2>2 DEF Answer, Die, Reply, Abort, At
      <3> QED
        BY <2>2, <3>1, HandlerLeaves, NothingChanges
    <2> QED
      BY <1>1, <2>1, <2>2
  <1>2. ASSUME NEW s \in sent, Deliver(s)
        PROVE  OInv' /\ \A j \in Keys : Closed(j) => SameDay(j)
    BY <1>2, DeliverMoves, NothingChanges
  <1>3. CASE SendOnline
    BY <1>3, SendOnlineMoves, NothingChanges
  <1>4. CASE Login
    <2>1. UNCHANGED <<clock, records, breaks, pc, loc, lag, outbox, sent, awaited>>
      BY <1>4 DEF Login, vars, tables
    <2>2. clock' \in Times /\ clock <= clock' /\ lag' \in Maybe(Nat)
      BY <2>1 DEF IInv, Times, OInv, AppOK
    <2> QED
      BY <2>1, <2>2, ClockMoves, NothingChanges
  <1>5. CASE GetServerTime \/ ClockOutOffline \/ Send \/ Reject
    <2>1. UNCHANGED <<records, breaks>>
      BY <1>5 DEF GetServerTime, ClockOutOffline, Send, Reject, vars, tables
    <2> QED
      BY <1>5, <2>1, GetServerTimeMoves, ClockOutOfflineMoves, SendMoves, RejectMoves,
         NothingChanges
  <1>6. CASE Tick /\ UNCHANGED app
    <2>1. UNCHANGED <<records, breaks>>
      BY <1>6 DEF Tick, tables
    <2> QED
      BY <1>6, <2>1, TickMoves, NothingChanges
  <1>7. CASE UNCHANGED allVars
    <2>1. UNCHANGED <<clock, records, breaks, pc, loc, lag, outbox, sent, awaited>>
      BY <1>7 DEF allVars, vars, app
    <2>2. clock' \in Times /\ clock <= clock' /\ lag' \in Maybe(Nat)
      BY <2>1 DEF IInv, Times, OInv, AppOK
    <2> QED
      BY <2>1, <2>2, ClockMoves, NothingChanges
  <1> QED
    BY <1>1, <1>2, <1>3, <1>4, <1>5, <1>6, <1>7 DEF OfflineNext

LEMMA OfflineStart == OfflineInit => IInv /\ OInv
  <1> SUFFICES ASSUME OfflineInit
               PROVE  IInv /\ OInv
    OBVIOUS
  <1>1. IInv
    BY InitGood DEF OfflineInit
  <1> QED
    BY <1>1 DEF OfflineInit, Init, OInv, AppOK, Online, Maybe

(* The inductive invariant holds as long as no day has two submissions. *)
THEOREM OfflineInvariance ==
  OfflineSpec /\ []OneADay => [](IInv /\ OInv)
  <1>1. IInv /\ OInv /\ OneADay /\ [OfflineNext]_allVars => (IInv /\ OInv)'
    BY ServiceKeeps, OfflineStep DEF OInv
  <1> QED
    BY <1>1, OfflineStart, PTL DEF OfflineSpec

-----------------------------------------------------------------------------
(* What it gives. *)

(***************************************************************************)
(* What the app is about to hear of a clock-out it made offline is so:     *)
(* whichever copy is answered, however late its handler ran and whatever   *)
(* handlers died before, "ok" means that the day ended at the instant the  *)
(* app dated, and 409 that the day is closed.                              *)
(***************************************************************************)
THEOREM HeardAnswersAreTrue ==
  OfflineSpec /\ []OneADay => []AnswersAreTrue
  <1>1. ASSUME IInv, OInv
        PROVE  AnswersAreTrue
    BY <1>1 DEF AnswersAreTrue, OInv, AppOK, Submission, AwaitedKnows, Closed, KeyAt
  <1> QED
    BY <1>1, OfflineInvariance, PTL

(* No break is removed from its row. *)
LEMMA BreaksRemain ==
  ASSUME IInv, AppOK, [OfflineNext]_allVars, NEW b \in BreakIds, breaks[b] # NULL
  PROVE  breaks'[b] # NULL
  <1>1. CASE UNCHANGED <<records, breaks>>
    BY <1>1
  <1>2. ASSUME NEW h \in Handlers, StartBreak(KeyOf(h), loc[h].at)
        PROVE  breaks'[b] # NULL
    BY <1>2 DEF StartBreak, IInv, BreaksOK
  <1>3. ASSUME NEW h \in Handlers, pc[h] \in Found, EndLatestBreak(KeyOf(h), loc[h].at)
        PROVE  breaks'[b] # NULL
    <2>1. PICK row, t : row = breaks[b] /\ t = loc[h].at
      OBVIOUS
    <2>2. row \in BreakRows /\ t \in Times
      BY <1>3, <2>1, ServingFacts, FoundFacts
         DEF IInv, BreaksOK, BreakOK, Requests
    <2>3. breaks'[b] = row \/ breaks'[b] = [row EXCEPT !.end = t]
      BY <1>3, <2>1 DEF EndLatestBreak
    <2>4. [row EXCEPT !.end = t] \in BreakRows
      BY <2>2 DEF BreakRows, Maybe
    <2> QED
      BY <2>2, <2>3, <2>4, NullAssumption
  <1>4. ASSUME NEW s \in sent, Deliver(s)
        PROVE  UNCHANGED <<records, breaks>>
    BY <1>4 DEF Deliver, Receive, tables
  <1>5. ASSUME NEW h \in Handlers, ClockInInsert(h) \/ ClockOutWrite(h)
        PROVE  UNCHANGED breaks
    BY <1>5 DEF ClockInInsert, ClockOutWrite
  <1> QED
    BY <1>1, <1>2, <1>3, <1>4, <1>5, StepsOfService, WaysToWrite

(***************************************************************************)
(* A day that is clocked out stays as it is, although nothing but the      *)
(* app's discipline protects it: a late copy of a submission finds it      *)
(* closed, an overlapping one writes what is written already, and nothing  *)
(* sent online is ever of the day of a submission that may still arrive.   *)
(***************************************************************************)
THEOREM OfflineDaysAreFinal ==
  OfflineSpec /\ []OneADay => ClockedOutIsFinal
  <1>1. ASSUME IInv, OInv, OneADay, [OfflineNext]_allVars,
               NEW k \in KeysInUse, records[k].status = "clocked_out"
        PROVE  /\ records'[k] = records[k]
               /\ \A b \in BreakIds : breaks'[b] # breaks[b] => breaks'[b].rec # k
    <2>1. SameDay(k)
      BY <1>1, OfflineStep DEF KeysInUse, Closed
    <2>2. ASSUME NEW b \in BreakIds, breaks'[b] # breaks[b]
          PROVE  breaks'[b].rec # k
      <3>1. breaks'[b] # NULL
        BY <1>1, <2>2, BreaksRemain DEF OInv
      <3> QED
        BY <2>1, <2>2, <3>1 DEF SameDay, BreaksOf
    <2> QED
      BY <2>1, <2>2 DEF SameDay
  <1>2. IInv /\ OInv /\ OneADay /\ [OfflineNext]_allVars =>
          [\A k \in KeysInUse :
             records[k].status = "clocked_out" =>
               /\ records'[k] = records[k]
               /\ \A b \in BreakIds : breaks'[b] # breaks[b] => breaks'[b].rec # k]_vars
    BY <1>1
  <1> QED
    BY <1>2, OfflineInvariance, PTL DEF OfflineSpec, ClockedOutIsFinal

-----------------------------------------------------------------------------
(* An app that makes one submission makes no two of a day. *)

AtMostOne ==
  /\ IsFiniteSet(sent)
  /\ \A s, t \in sent : s = t
  /\ outbox # NULL => \A s \in sent : s = outbox

LEMMA AtMostOneStep ==
  ASSUME MaxSubmissions = 1, AtMostOne, [OfflineNext]_allVars
  PROVE  AtMostOne'
  <1>1. CASE sent' = sent /\ outbox' \in {outbox, NULL}
    BY <1>1 DEF AtMostOne
  <1>2. CASE ClockOutOffline
    <2>1. sent' = sent /\ Cardinality(sent) < 1
      BY <1>2 DEF ClockOutOffline
    <2>2. sent = {}
      <3>1. Cardinality(sent) \in Nat
        BY FS_CardinalityType DEF AtMostOne
      <3>2. Cardinality(sent) = 0
        BY <2>1, <3>1
      <3> QED
        BY <3>2, FS_EmptySet DEF AtMostOne
    <2> QED
      BY <2>1, <2>2 DEF AtMostOne
  <1>3. CASE Send
    <2>1. sent' = {outbox} /\ outbox' = outbox
      BY <1>3 DEF Send, AtMostOne
    <2>2. IsFiniteSet({outbox})
      BY FS_Singleton
    <2> QED
      BY <2>1, <2>2 DEF AtMostOne
  <1>4. ASSUME NEW h \in Handlers, Serve(h) \/ Answer(h) \/ Die(h)
        PROVE  sent' = sent /\ outbox' \in {outbox, NULL}
    BY <1>4 DEF Serve, Answer, Die, Settle, Unheard, app
  <1>5. ASSUME \/ Tick /\ UNCHANGED app
               \/ Login \/ GetServerTime \/ Reject \/ SendOnline \/ UNCHANGED allVars
               \/ \E s \in sent : Deliver(s)
        PROVE  sent' = sent /\ outbox' \in {outbox, NULL}
    BY <1>5 DEF Login, GetServerTime, Reject, Settle, SendOnline, Deliver, allVars, app
  <1> QED
    BY <1>1, <1>2, <1>3, <1>4, <1>5 DEF OfflineNext

LEMMA OneSubmission ==
  ASSUME MaxSubmissions = 1
  PROVE  OfflineSpec => []OneADay
  <1>1. OfflineInit => AtMostOne
    BY FS_EmptySet DEF OfflineInit, AtMostOne
  <1>2. AtMostOne /\ [OfflineNext]_allVars => AtMostOne'
    BY AtMostOneStep
  <1>3. AtMostOne => OneADay
    BY DEF AtMostOne, OneADay
  <1> QED
    BY <1>1, <1>2, <1>3, PTL DEF OfflineSpec

(***************************************************************************)
(* An app that makes one submission hears the truth, and its days stay     *)
(* closed.                                                                 *)
(***************************************************************************)
THEOREM OneSubmissionIsSafe ==
  ASSUME MaxSubmissions = 1
  PROVE  OfflineSpec => []AnswersAreTrue /\ ClockedOutIsFinal
  BY OneSubmission, HeardAnswersAreTrue, OfflineDaysAreFinal, PTL

-----------------------------------------------------------------------------
(* The app is a client like any other. *)

\* The app's clock and its submissions, when no two need be of different days.
Dated(s) == s.at \in Times /\ s.notes \in Maybe(Notes)

AppDates ==
  /\ clock \in Times
  /\ lag \in Maybe(Nat)
  /\ outbox # NULL => Dated(outbox)
  /\ \A s \in sent : Dated(s)

LEMMA AppDatesStep ==
  ASSUME AppDates, [OfflineNext]_allVars
  PROVE  AppDates'
  <1>1. CASE UNCHANGED <<clock, lag, sent>> /\ outbox' \in {outbox, NULL}
    BY <1>1 DEF AppDates, Dated
  <1>2. CASE Tick /\ UNCHANGED app
    BY <1>2, AttendanceAssumption DEF Tick, app, AppDates, Dated, Times
  <1>3. CASE GetServerTime
    <2>1. PICK d \in 0 .. MaxLatency : d <= clock /\ lag' = clock - ServerTime(clock - d)
      BY <1>3 DEF GetServerTime
    <2>2. clock \in Nat /\ d \in Nat /\ clock - d \in Nat
      BY <2>1, OfflineAssumption DEF AppDates, Times
    <2>3. PICK x \in Nat : x = ServerTime(clock - d) /\ x <= clock - d
      BY <2>2, TimeIsBehind
    <2>4. lag' \in Nat
      BY <2>1, <2>2, <2>3
    <2> QED
      BY <1>3, <2>4 DEF GetServerTime, vars, AppDates, Dated, Maybe
  <1>4. CASE ClockOutOffline
    <2>1. lag # NULL /\ lag <= clock /\ UNCHANGED <<clock, lag, sent>>
      BY <1>4 DEF ClockOutOffline, Ready, vars
    <2>2. PICK t : t = clock - lag
      OBVIOUS
    <2>3. PICK n \in Maybe(Notes) : outbox' = [at |-> t, notes |-> n]
      BY <1>4, <2>2 DEF ClockOutOffline
    <2>4. t \in Times
      BY <2>1, <2>2, AttendanceAssumption DEF AppDates, Maybe, Times
    <2> QED
      BY <2>1, <2>3, <2>4 DEF AppDates, Dated
  <1>5. CASE Send
    BY <1>5 DEF Send, vars, AppDates, Dated
  <1>6. ASSUME NEW h \in Handlers, Serve(h) \/ Answer(h) \/ Die(h)
        PROVE  UNCHANGED <<clock, lag, sent>> /\ outbox' \in {outbox, NULL}
    <2>1. UNCHANGED <<lag, sent>> /\ outbox' \in {outbox, NULL}
      BY <1>6 DEF Serve, Answer, Die, Settle, Unheard, app
    <2>2. UNCHANGED clock
      BY <1>6
         DEF Serve, Answer, Die, Reply, Abort, At, ClockInRead, ClockInInsert, StartBreakRead,
             StartBreakInsert, StartBreakStatus, EndBreakRead, EndBreakOpen, EndBreakClose,
             EndBreakStatus, ClockOutRead, ClockOutClose, ClockOutSum, ClockOutWrite
    <2> QED
      BY <2>1, <2>2
  <1>7. ASSUME \/ Login \/ Reject \/ SendOnline \/ UNCHANGED allVars
               \/ \E s \in sent : Deliver(s)
        PROVE  UNCHANGED <<clock, lag, sent>> /\ outbox' \in {outbox, NULL}
    BY <1>7
       DEF Login, Reject, Settle, SendOnline, Deliver, Receive, ReceiveClockIn,
           ReceiveStartBreak, ReceiveEndBreak, ReceiveClockOut, allVars, vars, app
  <1> QED
    BY <1>1, <1>2, <1>3, <1>4, <1>5, <1>6, <1>7 DEF OfflineNext

(***************************************************************************)
(* Every behaviour of the service with the offline app is one of the       *)
(* service alone: a delivery is an offline clock-out of some client.  So   *)
(* whatever is proved of the service for all clients holds of this one     *)
(* too.  (The app writes its timestamps in the server's zone.)             *)
(***************************************************************************)
THEOREM OfflineAppIsAClient ==
  ASSUME ServerZone \in ClientZones
  PROVE  OfflineSpec => Spec
  <1>1. OfflineInit => Init /\ AppDates
    BY AttendanceAssumption DEF OfflineInit, Init, AppDates, Times, Maybe
  <1>2. AppDates /\ [OfflineNext]_allVars => AppDates'
    BY AppDatesStep
  <1>3. ASSUME AppDates, [OfflineNext]_allVars
        PROVE  [Next]_vars
    <2>1. ASSUME NEW s \in sent, Deliver(s)
          PROVE  Next
      <3>1. Fresh \in Handlers
        BY <2>1, FreshIsIdle DEF Deliver
      <3>2. /\ ValidClientTimestamp(s.at, clock)
            /\ Receive(Fresh, [Request("clock_out_offline", User, s.at,
                                       WorkDate(s.at, ServerZone, clock))
                                 EXCEPT !.offline = TRUE, !.notes = s.notes], "co_read")
        BY <2>1 DEF Deliver, SubmissionRequest
      <3>3. s.at \in Times /\ s.notes \in Maybe(Notes) /\ User \in Employees
        BY <1>3, OfflineAssumption DEF AppDates, Dated
      <3>4. ReceiveOfflineClockOut(Fresh)
        BY <3>2, <3>3 DEF ReceiveOfflineClockOut
      <3> QED
        BY <3>1, <3>4 DEF Next, ClockOutStep
    <2> QED
      BY <1>3, <2>1, StepsOfService
  <1> QED
    BY <1>1, <1>2, <1>3, PTL DEF OfflineSpec, Spec

(***************************************************************************)
(* So the properties of the service that hold for all clients hold with    *)
(* the app, however many submissions it makes: nothing is from the future, *)
(* every timestamp is of its day, and history is not rewritten.            *)
(***************************************************************************)
THEOREM OfflineHistoryIsKept ==
  ASSUME ServerZone \in ClientZones
  PROVE  OfflineSpec => /\ [](TypeOK /\ NothingFromTheFuture /\ WithinWorkDay)
                        /\ EndedBreaksStay /\ HistoryStays
  BY OfflineAppIsAClient, TypeCorrect, FutureFree, OwnWorkDay, EndedBreaksAreKept,
     HistoryIsKept, PTL

-----------------------------------------------------------------------------
(* What the lag of the app's clock takes from the minutes of a day. *)

\* The furthest the app's clock is behind: a late answer, in whole seconds.
MaxLag == MaxLatency + SecondLength - 1

\* Less than a minute, and so are those of the breaks of a day taken together.
LagsFit ==
  /\ MaxLag < MinuteLength
  /\ \A k \in Keys : Cardinality(BreaksOf(k)) * MaxLag < MinuteLength

\* What instant t can be of day k: nothing on it is later by more than a lag.
Near(k, t) ==
  /\ records[k] # NULL => records[k].clockInAt <= t + MaxLag
  /\ \A b \in BreaksOf(k) : breaks[b].start <= t + MaxLag

\* An ended break lasts no less than a lag below zero; a closed day counts within its shift.
DayNear(k) ==
  /\ \A b \in ClosedBreaks(k) : breaks[b].start <= breaks[b].end + MaxLag
  /\ LET row == records[k] IN
       Closed(k) => row.working \in 0 .. Minutes(row.clockOutAt - row.clockInAt)

\* A handler with the locals r at label p.
LocalNear(p, r) ==
  LET k == <<r.emp, r.date>> IN
    /\ p \in Reading \cup Changing => Near(k, r.at)
    /\ p \in Holding => r.row.clockInAt = records[k].clockInAt
    /\ p = "co_write" => r.mins >= 0

AppNear ==
  /\ lag # NULL => lag <= MaxLag
  /\ outbox # NULL => Near(KeyAt(outbox), outbox.at)
  /\ \A s \in sent : Near(KeyAt(s), s.at)

NInv ==
  /\ AppNear
  /\ \A k \in Keys : DayNear(k)
  /\ \A h \in Handlers : pc[h] # "idle" => LocalNear(pc[h], loc[h])

LEMMA MaxLagIsNat == MaxLag \in Nat
  BY OfflineAssumption DEF MaxLag

(* Whole seconds, of an answer that is late, are behind by no more than MaxLag. *)
LEMMA LagIsBounded ==
  ASSUME NEW t \in Nat, NEW d \in 0 .. MaxLatency, d <= t
  PROVE  t - ServerTime(t - d) <= MaxLag
  <1>1. PICK S \in Nat \ {0}, n \in Nat : S = SecondLength /\ n = t - d
    BY OfflineAssumption
  <1>2. n = S * (n \div S) + (n % S) /\ (n % S) \in 0 .. S - 1 /\ n \div S \in Nat
    BY Z3T(30)
  <1>3. PICK q \in Nat : q = n \div S
    BY <1>2
  <1>4. q * S = S * q /\ q * S \in Nat
    BY Z3T(30)
  <1>5. PICK x \in Nat, y \in 0 .. S - 1 : x = q * S /\ y = n % S
    BY <1>2, <1>4
  <1>6. ServerTime(t - d) = x
    BY <1>1, <1>3, <1>5 DEF ServerTime
  <1>7. n = x + y
    BY <1>2, <1>3, <1>4, <1>5
  <1> QED
    BY <1>1, <1>5, <1>6, <1>7, OfflineAssumption DEF MaxLag

(* Less than a minute below zero is no minute below zero. *)
LEMMA MinutesAboveZero ==
  ASSUME NEW d \in Int, - d < MinuteLength
  PROVE  Minutes(d) \in Nat
  <1>1. PICK M \in Nat \ {0} : M = MinuteLength
    BY ClockAssumption
  <1>2. CASE d >= 0
    <2>1. d \div M \in Nat
      BY <1>2, Z3T(30)
    <2> QED
      BY <1>1, <1>2, <2>1 DEF Minutes
  <1>3. CASE ~ (d >= 0)
    <2>1. PICK e \in Nat : e = - d /\ e < M
      BY <1>1, <1>3
    <2>2. e \div M = 0
      BY <2>1, Z3T(30)
    <2> QED
      BY <1>1, <1>3, <2>1, <2>2 DEF Minutes
  <1> QED
    BY <1>2, <1>3

(* Break minutes that are none below zero leave the worked minutes within the shift. *)
LEMMA WorkedFits ==
  ASSUME NEW in \in Int, NEW out \in Int, NEW m \in Int, m >= 0, in - out < MinuteLength
  PROVE  WorkedMinutes(in, out, m) \in 0 .. Minutes(out - in)
  <1>1. Minutes(out - in) \in Nat
    <2>1. - (out - in) < MinuteLength
      BY ClockAssumption
    <2> QED
      BY <2>1, MinutesAboveZero
  <1>2. PICK n \in Nat : n = Minutes(out - in)
    BY <1>1
  <1> QED
    BY <1>2 DEF WorkedMinutes, NonNegative

(* Breaks that end little before they start take little off the sum. *)
LEMMA TicksAboveZero ==
  ASSUME IInv, NEW k, \A b \in ClosedBreaks(k) : breaks[b].start <= breaks[b].end + MaxLag
  PROVE  - BreakTicks(k) <= Cardinality(BreaksOf(k)) * MaxLag
  <1>1. PICK n \in Nat : n = MaxLag
    BY MaxLagIsNat
  <1> DEFINE C == ClosedBreaks(k)
             forth == {p \in C \X Times : breaks[p[1]].start <= p[2] /\ p[2] < breaks[p[1]].end}
             back  == {p \in C \X Times : breaks[p[1]].end <= p[2] /\ p[2] < breaks[p[1]].start}
             T == BreaksOf(k) \X (0 .. (n - 1))
             f == [p \in back |-> <<p[1], p[2] - breaks[p[1]].end>>]
  <1>2. IsFiniteSet(BreaksOf(k)) /\ IsFiniteSet(C) /\ C \subseteq BreaksOf(k)
    BY FS_Subset, AttendanceAssumption DEF BreaksOf, ClosedBreaks
  <1>3. IsFiniteSet(T) /\ Cardinality(T) = Cardinality(BreaksOf(k)) * n
    <2>1. IsFiniteSet(0 .. (n - 1)) /\ Cardinality(0 .. (n - 1)) = n
      BY FS_Interval
    <2> QED
      BY <1>2, <2>1, FS_Product
  <1>4. ASSUME NEW b \in C
        PROVE  /\ b \in BreaksOf(k) /\ breaks[b].start \in Int /\ breaks[b].end \in Int
               /\ breaks[b].start <= breaks[b].end + n
    BY <1>1 DEF ClosedBreaks, BreaksOf, IInv, BreaksOK, BreakOK, BreakRows, Maybe, Times
  <1>5. \A p \in back : /\ p = <<p[1], p[2]>> /\ p[1] \in C /\ p[2] \in Int
                        /\ breaks[p[1]].end <= p[2] /\ p[2] < breaks[p[1]].start
    BY DEF Times
  <1> HIDE DEF C, back
  <1>6. f \in [back -> T]
    <2> SUFFICES ASSUME NEW p \in back
                 PROVE  <<p[1], p[2] - breaks[p[1]].end>> \in T
      OBVIOUS
    <2>1. PICK c, i, e, s : c = p[1] /\ i = p[2] /\ e = breaks[c].end /\ s = breaks[c].start
      OBVIOUS
    <2>2. /\ c \in BreaksOf(k) /\ s \in Int /\ e \in Int /\ s <= e + n
          /\ i \in Int /\ e <= i /\ i < s
      BY <1>4, <1>5, <2>1
    <2>3. i - e \in 0 .. (n - 1)
      BY <2>2
    <2> QED
      BY <2>1, <2>2, <2>3
  <1>7. ASSUME NEW p \in back, NEW q \in back, f[p] = f[q]
        PROVE  p = q
    <2>1. PICK c, i, j, e : c = p[1] /\ i = p[2] /\ j = q[2] /\ e = breaks[c].end
      OBVIOUS
    <2>2. q[1] = c /\ i - e = j - e
      BY <1>7, <2>1
    <2>3. i \in Int /\ j \in Int /\ e \in Int /\ p = <<c, i>> /\ q = <<c, j>>
      BY <1>4, <1>5, <2>1, <2>2
    <2>4. i = j
      BY <2>2, <2>3
    <2> QED
      BY <2>3, <2>4
  <1>8. f \in Injection(back, T)
    BY <1>6, <1>7 DEF Injection, IsInjective
  <1>9. IsFiniteSet(back) /\ Cardinality(back) <= Cardinality(T)
    BY <1>3, <1>8, FS_Injection
  <1>10. Cardinality(forth) \in Nat
    <2>1. IsFiniteSet(Times)
      BY FS_Interval, AttendanceAssumption DEF Times
    <2>2. IsFiniteSet(C \X Times)
      BY <1>2, <2>1, FS_Product
    <2> QED
      BY <2>2, FS_Subset, FS_CardinalityType
  <1>11. BreakTicks(k) = Cardinality(forth) - Cardinality(back)
    BY DEF BreakTicks, C, back
  <1>12. Cardinality(back) \in Nat /\ Cardinality(T) \in Nat
    BY <1>3, <1>9, FS_CardinalityType
  <1> HIDE DEF forth, T
  <1> QED
    BY <1>1, <1>3, <1>9, <1>10, <1>11, <1>12

LEMMA SumAboveZero ==
  ASSUME IInv, LagsFit, NEW k \in Keys, DayNear(k)
  PROVE  SumBreakMinutes(k) \in Nat
  <1>1. PICK n : n = Cardinality(BreaksOf(k)) * MaxLag
    OBVIOUS
  <1>2. n \in Int /\ n < MinuteLength
    <2>1. IsFiniteSet(BreaksOf(k))
      BY FS_Subset, AttendanceAssumption DEF BreaksOf
    <2> QED
      BY <1>1, <2>1, FS_CardinalityType, MaxLagIsNat DEF LagsFit
  <1>3. BreakTicks(k) \in Int /\ - BreakTicks(k) <= n
    BY <1>1, BreakTicksIsInt, TicksAboveZero DEF DayNear
  <1>4. - BreakTicks(k) < MinuteLength
    BY <1>2, <1>3, ClockAssumption
  <1> QED
    BY <1>3, <1>4, MinutesAboveZero DEF SumBreakMinutes

(* A clock-out, however it interleaves, stores no more than the shift. *)
LEMMA WritesWithinShift ==
  ASSUME IInv, OInv, NInv, LagsFit, NEW h \in Handlers, pc[h] = "co_write"
  PROVE  LET row == ClockedOut(records[KeyOf(h)], h) IN
           row.working \in 0 .. Minutes(row.clockOutAt - row.clockInAt)
  <1>1. PICK k, row, r : k = KeyOf(h) /\ row = ClockedOut(records[k], h) /\ r = loc[h]
    OBVIOUS
  <1>2. /\ k \in Keys /\ r \in Requests /\ r.at \in Int
        /\ records[k] \in Rows /\ records[k] # NULL
    BY <1>1, ServingFacts, FoundFacts DEF Found, RowOK
  <1>3. Near(k, r.at) /\ r.row.clockInAt = records[k].clockInAt /\ r.mins >= 0
    BY <1>1 DEF NInv, LocalNear, Reading, Changing, Holding, KeyOf
  <1>4. /\ row.clockInAt = records[k].clockInAt /\ row.clockOutAt = r.at
        /\ row.working = WorkedMinutes(r.row.clockInAt, r.at, r.mins)
    BY <1>1, <1>2, ClockedOutSet
  <1>5. PICK in : in = records[k].clockInAt
    OBVIOUS
  <1>6. in \in Int /\ r.mins \in Int
    BY <1>2, <1>5 DEF Rows, Times, Requests
  <1>7. in - r.at < MinuteLength
    <2>1. in <= r.at + MaxLag /\ MaxLag < MinuteLength
      BY <1>2, <1>3, <1>5 DEF Near, LagsFit
    <2> QED
      BY <1>2, <1>6, <2>1, MaxLagIsNat, ClockAssumption
  <1>8. WorkedMinutes(in, r.at, r.mins) \in 0 .. Minutes(r.at - in)
    BY <1>2, <1>3, <1>6, <1>7, WorkedFits
  <1> QED
    BY <1>1, <1>3, <1>4, <1>5, <1>8

-----------------------------------------------------------------------------
(* What a step leaves near. *)

\* The times at which day k and its breaks began are those they were.
Kept(k) ==
  /\ records'[k].clockInAt = records[k].clockInAt
  /\ records'[k] # NULL => records[k] # NULL
  /\ \A b \in BreaksOf(k)' : b \in BreaksOf(k) /\ breaks'[b].start = breaks[b].start

LEMMA SameDayKept ==
  ASSUME NEW k, SameDay(k)
  PROVE  Kept(k)
  BY DEF SameDay, Kept

LEMMA NearStays ==
  ASSUME NEW k, NEW t, Kept(k), Near(k, t)
  PROVE  Near(k, t)'
  BY DEF Kept, Near

LEMMA LocalStaysNear ==
  ASSUME NEW p, NEW r, LocalNear(p, r), Kept(<<r.emp, r.date>>)
  PROVE  LocalNear(p, r)'
  <1>1. PICK k : k = <<r.emp, r.date>>
    OBVIOUS
  <1> QED
    BY <1>1, NearStays DEF LocalNear, Kept

LEMMA DayStaysNear ==
  ASSUME NEW k, DayNear(k), SameDay(k)
  PROVE  DayNear(k)'
  BY DEF DayNear, SameDay, ClosedBreaks, Closed

\* Nobody but handler h has anything to do with day k.
Alone(h, k) ==
  /\ outbox = NULL /\ \A s \in sent : KeyAt(s) # k
  /\ \A g \in Handlers \ {h} : pc[g] # "idle" /\ KeyOf(g) = k => pc[g] = "reply"

LEMMA OnlineIsAlone ==
  ASSUME IInv, OInv, NEW h \in Handlers, Online(h), pc[h] \in Changing
  PROVE  Alone(h, KeyOf(h))
  <1>1. outbox = NULL /\ \A s \in sent : KeyAt(s) # KeyOf(h)
    BY OnlineFacts DEF OnlineKnows, KeyOf
  <1>2. ASSUME NEW g \in Handlers \ {h}, pc[g] # "idle", KeyOf(g) = KeyOf(h)
        PROVE  pc[g] = "reply"
    <2>1. loc[g].op = OfflineOp
      BY <1>2 DEF OInv, Online
    <2> QED
      BY <1>1, <1>2, <2>1, SubmitterFacts
  <1> QED
    BY <1>1, <1>2 DEF Alone

-----------------------------------------------------------------------------
(* Steps of the service keep everything near. *)

(***************************************************************************)
(* Handler h goes to p with the locals r and changes at most day k: either *)
(* what began on it stays, or nobody else has to do with it.               *)
(***************************************************************************)
LEMMA NearMoves ==
  ASSUME IInv, OInv, NInv, NEW h \in Handlers, NEW p, NEW r, GotoWith(h, p, r),
         p # "idle" => LocalNear(p, r)', UNCHANGED <<lag, sent>>, outbox' \in {outbox, NULL},
         NEW k, \A j \in Keys : j # k => SameDay(j), k \in Keys => DayNear(k)',
         Kept(k) \/ Alone(h, k)
  PROVE  NInv'
  <1>1. /\ pc'[h] = p /\ loc'[h] = r
        /\ \A g \in Handlers \ {h} : pc'[g] = pc[g] /\ loc'[g] = loc[g]
    BY DEF IInv, LocalsOK, GotoWith
  <1>2. ASSUME NEW s, Submission(s), Near(KeyAt(s), s.at), Kept(k) \/ KeyAt(s) # k
        PROVE  Near(KeyAt(s), s.at)'
    <2>1. PICK j : j = KeyAt(s)
      OBVIOUS
    <2>2. Kept(j)
      BY <1>2, <2>1, KeyOfSubmission, SameDayKept
    <2>3. Near(j, s.at)'
      BY <1>2, <2>1, <2>2, NearStays
    <2> QED
      BY <2>1, <2>3 DEF KeyAt
  <1>3. AppNear'
    <2>1. outbox' # NULL => outbox' = outbox /\ Near(KeyAt(outbox), outbox.at)'
      BY <1>2 DEF OInv, AppOK, NInv, AppNear, Alone
    <2>2. \A s \in sent : Near(KeyAt(s), s.at)'
      BY <1>2 DEF OInv, AppOK, NInv, AppNear, Alone
    <2> QED
      BY <2>1, <2>2 DEF NInv, AppNear, KeyAt
  <1>4. \A j \in Keys : DayNear(j)'
    BY DayStaysNear DEF NInv
  <1>5. ASSUME NEW g \in Handlers, pc'[g] # "idle"
        PROVE  LocalNear(pc[g], loc[g])'
    <2>1. CASE g = h
      BY <1>1, <1>5, <2>1
    <2>2. CASE g # h
      <3>1. PICK q, x : q = pc[g] /\ x = loc[g]
        OBVIOUS
      <3>2. LocalNear(q, x) /\ KeyOf(g) \in Keys /\ KeyOf(g) = <<x.emp, x.date>>
        BY <1>1, <1>5, <2>2, <3>1, ServingFacts DEF NInv, KeyOf
      <3>3. CASE Kept(KeyOf(g))
        <4>1. LocalNear(q, x)'
          BY <3>2, <3>3, LocalStaysNear
        <4> QED
          BY <1>1, <2>2, <3>1, <4>1
      <3>4. CASE ~ Kept(KeyOf(g))
        <4>1. KeyOf(g) = k /\ Alone(h, k)
          BY <3>2, <3>4, SameDayKept
        <4>2. q = "reply"
          BY <1>1, <1>5, <2>2, <3>1, <4>1 DEF Alone
        <4>3. LocalNear(q, x)'
          BY <4>2 DEF LocalNear, Reading, Changing, Holding
        <4> QED
          BY <1>1, <2>2, <3>1, <4>3
      <3> QED
        BY <3>3, <3>4
    <2> QED
      BY <2>1, <2>2
  <1> QED
    BY <1>3, <1>4, <1>5 DEF NInv

(* A step that writes no table. *)
LEMMA QuietNear ==
  ASSUME IInv, OInv, NInv, NEW h \in Handlers, NEW p, NEW r, GotoWith(h, p, r),
         p # "idle" => LocalNear(p, r), UNCHANGED <<records, breaks, lag, sent>>,
         outbox' \in {outbox, NULL}
  PROVE  NInv'
  <1>1. \A j : SameDay(j)
    BY NothingChanges
  <1>2. p # "idle" => LocalNear(p, r)'
    BY <1>1, SameDayKept, LocalStaysNear
  <1>3. PICK k : k = KeyOf(h)
    OBVIOUS
  <1>4. Kept(k) /\ (k \in Keys => DayNear(k)')
    BY <1>1, DayStaysNear, SameDayKept DEF NInv
  <1> QED
    BY <1>1, <1>2, <1>4, NearMoves

(* An error answer knows nothing. *)
LEMMA RefusedNear ==
  ASSUME IInv, OInv, NInv, NEW h \in Handlers, NEW error, Refuse(h, error),
         UNCHANGED <<records, breaks, app>>
  PROVE  NInv'
  <1>1. PICK r : GotoWith(h, "reply", r)
    BY DEF Refuse
  <1>2. LocalNear("reply", r)
    BY DEF LocalNear, Reading, Changing, Holding
  <1> QED
    BY <1>1, <1>2, QuietNear DEF app

(* A handler that goes on with what it has. *)
LEMMA GoesOnNear ==
  ASSUME IInv, OInv, NInv, NEW h \in Handlers, pc[h] \in Reading \cup Changing,
         NEW p \in {"ci_insert", "sb_insert", "eb_open", "eb_close"}, Goto(h, p),
         UNCHANGED <<records, breaks, app>>
  PROVE  NInv'
  <1>1. GotoWith(h, p, loc[h]) /\ pc[h] # "idle"
    BY GotoKeepsLocals DEF IInv, Reading, Changing, Holding
  <1>2. LocalNear(p, loc[h])
    BY <1>1 DEF NInv, LocalNear, Changing, Holding
  <1> QED
    BY <1>1, <1>2, QuietNear DEF app

LEMMA ReadsNear ==
  ASSUME IInv, OInv, NInv, NEW h \in Handlers, UNCHANGED app,
         ClockInRead(h) \/ StartBreakRead(h) \/ EndBreakRead(h) \/ EndBreakOpen(h)
  PROVE  NInv'
  <1>1. UNCHANGED <<records, breaks>> /\ pc[h] \in Reading \cup Changing
    BY DEF ClockInRead, StartBreakRead, EndBreakRead, EndBreakOpen, At, tables,
           Reading, Changing
  <1>2. \/ \E error : Refuse(h, error)
        \/ \E p \in {"ci_insert", "sb_insert", "eb_open", "eb_close"} : Goto(h, p)
    BY DEF ClockInRead, StartBreakRead, EndBreakRead, EndBreakOpen
  <1> QED
    BY <1>1, <1>2, RefusedNear, GoesOnNear

LEMMA ClockInInsertNear ==
  ASSUME IInv, OInv, NInv, NEW h \in Handlers, ClockInInsert(h), UNCHANGED app
  PROVE  NInv'
  <1>1. pc[h] = "ci_insert" /\ UNCHANGED breaks
    BY DEF ClockInInsert, At
  <1>2. ASSUME NEW s \in Schedules, records' = [records EXCEPT ![KeyOf(h)] = NewRecord(h, s)],
               Done(h)
        PROVE  NInv'
    <2>1. PICK k, row, r : /\ k = KeyOf(h) /\ row = NewRecord(h, s)
                           /\ r = [loc[h] EXCEPT !.answer = "ok", !.row = NULL, !.mins = 0]
      OBVIOUS
    <2>2. k \in Keys
      BY <1>1, <2>1, ServingFacts
    <2>3. /\ records'[k] = row /\ BreaksOf(k)' = BreaksOf(k)
          /\ \A j \in Keys \ {k} : SameDay(j)
      BY <1>1, <1>2, <2>1, <2>2, RowWritten
    <2>4. row.status = "clocked_in"
      BY <2>1 DEF NewRecord
    <2>5. DayNear(k)'
      BY <1>1, <2>2, <2>3, <2>4 DEF NInv, DayNear, ClosedBreaks, Closed
    <2>6. Alone(h, k)
      BY <1>1, <2>1, OthersAreOnline, OnlineIsAlone DEF Changing, Holding
    <2>7. GotoWith(h, "reply", r)
      BY <1>2, <2>1 DEF Done
    <2>8. LocalNear("reply", r)'
      BY DEF LocalNear, Reading, Changing, Holding
    <2> QED
      BY <2>3, <2>5, <2>6, <2>7, <2>8, NearMoves DEF app
  <1>3. CASE Refuse(h, "failed") /\ UNCHANGED records
    BY <1>1, <1>3, RefusedNear
  <1> QED
    BY <1>2, <1>3 DEF ClockInInsert

(* A break starts at the instant of its handler: that is no later than it. *)
LEMMA StartBreakNear ==
  ASSUME IInv, OInv, NInv, NEW h \in Handlers, StartBreakInsert(h), UNCHANGED app
  PROVE  NInv'
  <1>1. PICK k, r : k = KeyOf(h) /\ r = loc[h]
    OBVIOUS
  <1>2. /\ pc[h] = "sb_insert" /\ UNCHANGED records
        /\ StartBreak(k, r.at) /\ GotoWith(h, "sb_status", r)
    BY <1>1, GotoKeepsLocals DEF StartBreakInsert, At, IInv
  <1>3. k \in Keys /\ r.at \in Times /\ k = <<r.emp, r.date>>
    BY <1>1, <1>2, ServingFacts DEF Requests, KeyOf
  <1>4. PICK b \in BreakIds :
          /\ BreaksOf(k)' = BreaksOf(k) \cup {b}
          /\ ClosedBreaks(k)' = ClosedBreaks(k)
          /\ breaks'[b].start = r.at
          /\ \A c \in BreaksOf(k) : breaks'[c] = breaks[c]
          /\ \A j \in Keys \ {k} : SameDay(j)
    BY <1>2, <1>3, BreakStarted
  <1>5. Near(k, r.at)
    BY <1>1, <1>2, <1>3 DEF NInv, LocalNear, Changing
  <1>6. LocalNear("sb_status", r)'
    <2>1. r.at <= r.at + MaxLag
      BY <1>3, MaxLagIsNat DEF Times
    <2>2. Near(k, r.at)'
      BY <1>2, <1>4, <1>5, <2>1 DEF Near
    <2> QED
      BY <1>3, <2>2 DEF LocalNear, Holding
  <1>7. DayNear(k)'
    BY <1>2, <1>3, <1>4 DEF NInv, DayNear, ClosedBreaks, Closed
  <1>8. Alone(h, k)
    BY <1>1, <1>2, OthersAreOnline, OnlineIsAlone DEF Changing, Holding
  <1> QED
    BY <1>2, <1>4, <1>6, <1>7, <1>8, NearMoves DEF app

(* The open breaks end: they began no later than a lag after the instant they end at. *)
LEMMA EndBreakNear ==
  ASSUME IInv, OInv, NInv, NEW h \in Handlers, EndBreakClose(h) \/ ClockOutClose(h),
         UNCHANGED app
  PROVE  NInv'
  <1>1. PICK k, r : k = KeyOf(h) /\ r = loc[h]
    OBVIOUS
  <1>2. /\ UNCHANGED records /\ EndLatestBreak(k, r.at)
        /\ \/ pc[h] = "eb_close" /\ GotoWith(h, "eb_status", r)
           \/ pc[h] = "co_close" /\ GotoWith(h, "co_sum", r)
    BY <1>1, GotoKeepsLocals DEF EndBreakClose, ClockOutClose, At, IInv
  <1>3. k \in Keys /\ r.at \in Times /\ k = <<r.emp, r.date>>
    BY <1>1, <1>2, ServingFacts DEF Requests, KeyOf
  <1>4. /\ BreaksOf(k)' = BreaksOf(k)
        /\ \A b \in OpenBreaks(k) : breaks'[b].end = r.at /\ breaks'[b].start = breaks[b].start
        /\ \A b \in ClosedBreaks(k) : breaks'[b] = breaks[b]
        /\ \A j \in Keys \ {k} : SameDay(j)
    BY <1>2, <1>3, BreaksEnded
  <1>5. BreaksOf(k) = OpenBreaks(k) \cup ClosedBreaks(k)
    BY DEF OpenBreaks, ClosedBreaks
  <1>6. Near(k, r.at)
    BY <1>1, <1>2, <1>3 DEF NInv, LocalNear, Changing, Holding
  <1>7. Kept(k)
    BY <1>2, <1>4, <1>5 DEF Kept
  <1>8. DayNear(k)'
    <2>1. ASSUME NEW b \in ClosedBreaks(k)'
          PROVE  breaks'[b].start <= breaks'[b].end + MaxLag
      <3>1. CASE b \in OpenBreaks(k)
        BY <1>4, <1>5, <1>6, <3>1 DEF Near
      <3>2. CASE b \in ClosedBreaks(k)
        BY <1>3, <1>4, <3>2 DEF NInv, DayNear
      <3> QED
        BY <1>4, <1>5, <2>1, <3>1, <3>2 DEF ClosedBreaks
    <2> QED
      BY <1>2, <1>3, <2>1 DEF NInv, DayNear, Closed
  <1>9. LocalNear("eb_status", r)' /\ (pc[h] = "co_close" => LocalNear("co_sum", r)')
    <2>1. Near(k, r.at)'
      BY <1>6, <1>7, NearStays
    <2>2. pc[h] = "co_close" => r.row.clockInAt = records[k].clockInAt
      BY <1>1, <1>3 DEF NInv, LocalNear, Holding
    <2> QED
      BY <1>2, <1>3, <2>1, <2>2 DEF LocalNear, Holding
  <1> QED
    BY <1>2, <1>4, <1>7, <1>8, <1>9, NearMoves DEF app

LEMMA StatusNear ==
  ASSUME IInv, OInv, NInv, NEW h \in Handlers, StartBreakStatus(h) \/ EndBreakStatus(h),
         UNCHANGED app
  PROVE  NInv'
  <1>1. PICK s \in Statuses \ {"clocked_out"} :
          /\ pc[h] \in {"sb_status", "eb_status"}
          /\ UpdateStatus(KeyOf(h), s) /\ Done(h) /\ UNCHANGED breaks
    BY DEF StartBreakStatus, EndBreakStatus, At, Statuses
  <1>2. PICK k, row, r :
          /\ k = KeyOf(h) /\ row = [records[k] EXCEPT !.status = s]
          /\ r = [loc[h] EXCEPT !.answer = "ok", !.row = NULL, !.mins = 0]
    OBVIOUS
  <1>3. k \in Keys /\ records[k] \in Rows /\ records[k] # NULL
    BY <1>1, <1>2, ServingFacts, FoundFacts DEF Found, RowOK
  <1>4. row.status = s /\ row.clockInAt = records[k].clockInAt
    BY <1>2, <1>3 DEF Rows
  <1>5. records' = [records EXCEPT ![k] = row]
    BY <1>1, <1>2 DEF UpdateStatus
  <1>6. /\ records'[k] = row /\ BreaksOf(k)' = BreaksOf(k)
        /\ \A j \in Keys \ {k} : SameDay(j)
    BY <1>1, <1>3, <1>5, RowWritten
  <1>7. Kept(k)
    BY <1>1, <1>3, <1>4, <1>6 DEF Kept
  <1>8. DayNear(k)'
    BY <1>1, <1>3, <1>4, <1>6 DEF NInv, DayNear, ClosedBreaks, Closed
  <1>9. GotoWith(h, "reply", r)
    BY <1>1, <1>2 DEF Done
  <1>10. LocalNear("reply", r)'
    BY DEF LocalNear, Reading, Changing, Holding
  <1> QED
    BY <1>6, <1>7, <1>8, <1>9, <1>10, NearMoves DEF app

(* A clock-out, online or not, holds the clock-in of the row and no minutes below zero. *)
LEMMA ClockOutNear ==
  ASSUME IInv, OInv, NInv, LagsFit, NEW h \in Handlers, UNCHANGED app,
         ClockOutRead(h) \/ ClockOutSum(h) \/ ClockOutWrite(h)
  PROVE  NInv'
  <1>1. PICK k : k = KeyOf(h)
    OBVIOUS
  <1>2. /\ pc[h] \in {"co_read", "co_sum", "co_write"} /\ pc[h] # "idle"
        /\ k \in Keys /\ loc[h] \in Requests /\ k = <<loc[h].emp, loc[h].date>>
        /\ Near(k, loc[h].at)
    <2>1. pc[h] \in {"co_read", "co_sum", "co_write"}
      BY DEF ClockOutRead, ClockOutSum, ClockOutWrite, At
    <2>2. k \in Keys /\ loc[h] \in Requests /\ k = <<loc[h].emp, loc[h].date>>
      BY <1>1, <2>1, ServingFacts DEF KeyOf
    <2>3. Near(k, loc[h].at)
      BY <2>1, <2>2 DEF NInv, LocalNear, Reading, Changing, Holding
    <2> QED
      BY <2>1, <2>2, <2>3
  <1>3. CASE ClockOutRead(h)
    <2>1. UNCHANGED <<records, breaks>>
      BY <1>3 DEF ClockOutRead, tables
    <2>2. ASSUME NEW error, Refuse(h, error)
          PROVE  NInv'
      BY <2>1, <2>2, RefusedNear
    <2>3. ASSUME NEW p \in {"co_close", "co_sum"},
                 GotoWith(h, p, [loc[h] EXCEPT !.row = records[k]])
          PROVE  NInv'
      <3>1. PICK r : r = [loc[h] EXCEPT !.row = records[k]]
        OBVIOUS
      <3>2. /\ GotoWith(h, p, r) /\ r.row = records[k]
            /\ r.emp = loc[h].emp /\ r.at = loc[h].at /\ r.date = loc[h].date
        BY <1>2, <2>3, <3>1, ReadRowSet
      <3>3. LocalNear(p, r)
        BY <1>2, <3>2 DEF LocalNear
      <3> QED
        BY <2>1, <3>2, <3>3, QuietNear DEF app
    <2> QED
      BY <1>1, <1>3, <2>2, <2>3 DEF ClockOutRead
  <1>4. CASE ClockOutSum(h)
    <2>1. PICK m, r : m = SumBreakMinutes(k) /\ r = [loc[h] EXCEPT !.mins = m]
      OBVIOUS
    <2>2. /\ pc[h] = "co_sum" /\ UNCHANGED <<records, breaks>>
          /\ GotoWith(h, "co_write", r)
      BY <1>1, <1>4, <2>1 DEF ClockOutSum, At, tables
    <2>3. /\ r.mins = m /\ r.row = loc[h].row
          /\ r.emp = loc[h].emp /\ r.at = loc[h].at /\ r.date = loc[h].date
      BY <1>2, <2>1, SumSet
    <2>4. m >= 0
      BY <1>2, <2>1, SumAboveZero DEF NInv
    <2>5. loc[h].row.clockInAt = records[k].clockInAt
      BY <1>2, <2>2 DEF NInv, LocalNear, Holding
    <2>6. LocalNear("co_write", r)
      BY <1>2, <2>3, <2>4, <2>5 DEF LocalNear
    <2> QED
      BY <2>2, <2>6, QuietNear DEF app
  <1>5. CASE ClockOutWrite(h)
    <2>1. PICK row, r :
            /\ row = ClockedOut(records[k], h)
            /\ r = [loc[h] EXCEPT !.answer = "ok", !.row = NULL, !.mins = 0]
      OBVIOUS
    <2>2. /\ pc[h] = "co_write" /\ UNCHANGED breaks /\ GotoWith(h, "reply", r)
          /\ records' = [records EXCEPT ![k] = row]
      BY <1>1, <1>5, <2>1 DEF ClockOutWrite, At, Done
    <2>3. records[k] \in Rows /\ records[k] # NULL
      BY <1>1, <2>2, FoundFacts DEF Found, RowOK
    <2>4. row.clockInAt = records[k].clockInAt
      BY <2>1, <2>3, ClockedOutSet
    <2>5. /\ records'[k] = row /\ BreaksOf(k)' = BreaksOf(k)
          /\ \A j \in Keys \ {k} : SameDay(j)
      BY <1>2, <2>2, RowWritten
    <2>6. row.working \in 0 .. Minutes(row.clockOutAt - row.clockInAt)
      BY <1>1, <2>1, <2>2, WritesWithinShift
    <2>7. Kept(k)
      BY <2>2, <2>3, <2>4, <2>5 DEF Kept
    <2>8. DayNear(k)'
      BY <1>2, <2>2, <2>5, <2>6 DEF NInv, DayNear, ClosedBreaks, Closed
    <2>9. LocalNear("reply", r)'
      BY DEF LocalNear, Reading, Changing, Holding
    <2> QED
      BY <2>2, <2>5, <2>7, <2>8, <2>9, NearMoves DEF app
  <1> QED
    BY <1>3, <1>4, <1>5

LEMMA ServeNear ==
  ASSUME IInv, OInv, NInv, LagsFit, NEW h \in Handlers, Serve(h)
  PROVE  NInv'
  BY ReadsNear, ClockInInsertNear, StartBreakNear, EndBreakNear, StatusNear, ClockOutNear
     DEF Serve

LEMMA LeaveNear ==
  ASSUME IInv, OInv, NInv, NEW h \in Handlers, Answer(h) \/ Die(h)
  PROVE  NInv'
  <1>1. /\ GotoWith(h, "idle", NULL) /\ UNCHANGED <<records, breaks, lag, sent>>
        /\ outbox' \in {outbox, NULL}
    BY DEF Answer, Die, Reply, Abort, At, tables, app, Settle, Unheard
  <1> QED
    BY <1>1, QuietNear

(* A copy arrives for the day its submission is near to. *)
LEMMA DeliverNear ==
  ASSUME IInv, OInv, NInv, NEW s \in sent, Deliver(s)
  PROVE  NInv'
  <1>1. PICK h, r : h = Fresh /\ r = SubmissionRequest(s)
    OBVIOUS
  <1>2. /\ h \in Handlers /\ GotoWith(h, "co_read", r)
        /\ UNCHANGED <<records, breaks, lag, outbox, sent>>
    BY <1>1, FreshIsIdle DEF Deliver, Receive, tables
  <1>3. r.at = s.at /\ <<r.emp, r.date>> = KeyAt(s)
    BY <1>1, SubmissionSet DEF KeyAt
  <1>4. LocalNear("co_read", r)
    BY <1>3 DEF NInv, AppNear, LocalNear, Holding
  <1> QED
    BY <1>2, <1>4, QuietNear

(* Nothing is later than the clock. *)
LEMMA NowIsNear ==
  ASSUME IInv, NEW k \in Keys, NEW t \in Int, clock <= t + MaxLag
  PROVE  Near(k, t)
  <1>1. clock \in Int /\ MaxLag \in Int
    BY MaxLagIsNat DEF IInv, Times
  <1>2. records[k] # NULL => /\ records[k].clockInAt \in Int
                             /\ records[k].clockInAt <= clock
    BY DEF IInv, RecordsOK, RowOK, Stamp, Times
  <1>3. \A b \in BreaksOf(k) : breaks[b].start \in Int /\ breaks[b].start <= clock
    BY DEF BreaksOf, IInv, BreaksOK, BreakOK, Stamp, Times
  <1> QED
    BY <1>1, <1>2, <1>3 DEF Near

LEMMA SendOnlineNear ==
  ASSUME IInv, OInv, NInv, SendOnline
  PROVE  NInv'
  <1>1. PICK h : h = Fresh
    OBVIOUS
  <1>2. h \in Handlers /\ UNCHANGED app
    BY <1>1, FreshIsIdle DEF SendOnline
  <1>3. ASSUME NEW r, r.at = clock, r.emp \in Employees, r.date = DateOf(clock, ServerZone),
               NEW p \in Reading, Receive(h, r, p)
        PROVE  NInv'
    <2>1. <<r.emp, r.date>> \in Keys
      BY <1>3, DateInDates DEF IInv, Keys
    <2>2. clock \in Int /\ clock <= clock + MaxLag
      BY MaxLagIsNat DEF IInv, Times
    <2>3. Near(<<r.emp, r.date>>, r.at)
      BY <1>3, <2>1, <2>2, NowIsNear
    <2>4. LocalNear(p, r)
      BY <2>3 DEF LocalNear, Reading, Holding
    <2> QED
      BY <1>2, <1>3, <2>4, QuietNear DEF Receive, tables, app
  <1>4. ASSUME NEW op, NEW e \in Employees, NEW n, NEW p \in Reading,
               Receive(h, [Now(op, e) EXCEPT !.notes = n], p) \/ Receive(h, Now(op, e), p)
        PROVE  NInv'
    <2>1. PICK r : /\ Receive(h, r, p)
                   /\ r = Now(op, e) \/ r = [Now(op, e) EXCEPT !.notes = n]
      BY <1>4
    <2>2. r.at = clock /\ r.emp = e /\ r.date = DateOf(clock, ServerZone)
      BY <2>1 DEF Now, Request
    <2> QED
      BY <1>3, <2>1, <2>2
  <1>5. CASE ReceiveClockIn(h)
    BY <1>4, <1>5 DEF ReceiveClockIn, Reading
  <1>6. CASE ReceiveStartBreak(h)
    BY <1>4, <1>6 DEF ReceiveStartBreak, Reading
  <1>7. CASE ReceiveEndBreak(h)
    BY <1>4, <1>7 DEF ReceiveEndBreak, Reading
  <1>8. CASE ReceiveClockOut(h)
    BY <1>4, <1>8 DEF ReceiveClockOut, Reading
  <1> QED
    BY <1>1, <1>5, <1>6, <1>7, <1>8 DEF SendOnline

-----------------------------------------------------------------------------
(* Steps of the app keep everything near. *)

LEMMA AppStaysNear ==
  ASSUME NInv, UNCHANGED <<records, breaks, pc, loc>>, AppNear'
  PROVE  NInv'
  <1>1. ASSUME NEW h \in Handlers, pc[h] # "idle"
        PROVE  LocalNear(pc[h], loc[h])'
    <2>1. PICK q, x : q = pc[h] /\ x = loc[h]
      OBVIOUS
    <2>2. LocalNear(q, x)'
      BY <1>1, <2>1, NothingChanges, SameDayKept, LocalStaysNear DEF NInv
    <2> QED
      BY <2>1, <2>2
  <1>2. \A k \in Keys : DayNear(k)'
    BY NothingChanges, DayStaysNear DEF NInv
  <1> QED
    BY <1>1, <1>2 DEF NInv

LEMMA AppStepNear ==
  ASSUME IInv, OInv, NInv,
         \/ Tick /\ UNCHANGED app
         \/ Login \/ GetServerTime \/ ClockOutOffline \/ Send \/ Reject \/ UNCHANGED allVars
  PROVE  NInv'
  <1>1. UNCHANGED <<records, breaks, pc, loc>>
    BY DEF Tick, Login, GetServerTime, ClockOutOffline, Send, Reject, allVars, vars, tables
  <1>2. /\ lag # NULL => lag <= MaxLag
        /\ outbox # NULL => Near(KeyAt(outbox), outbox.at)
        /\ \A s \in sent : Near(KeyAt(s), s.at)
    BY DEF NInv, AppNear
  <1>3. \A s : Near(KeyAt(s), s.at) => Near(KeyAt(s), s.at)'
    BY <1>1 DEF Near, KeyAt, BreaksOf
  <1>4. CASE \/ Tick /\ UNCHANGED app
             \/ Login \/ Send \/ Reject \/ UNCHANGED allVars
    <2>1. PICK o : o = outbox
      OBVIOUS
    <2>2. \/ lag' = lag /\ outbox' = o /\ sent' = sent
          \/ lag' = lag /\ outbox' = NULL /\ sent' = sent
          \/ lag' = lag /\ outbox' = o /\ sent' = sent \cup {o} /\ o # NULL
      BY <1>4, <2>1 DEF Login, Send, Reject, Settle, allVars, app
    <2>3. o # NULL => Near(KeyAt(o), o.at)'
      BY <1>2, <1>3, <2>1
    <2>4. \A s \in sent' : Near(KeyAt(s), s.at)'
      BY <1>2, <1>3, <2>2, <2>3
    <2>5. outbox' # NULL => Near(KeyAt(outbox), outbox.at)'
      BY <2>2, <2>3 DEF Near, KeyAt, BreaksOf
    <2>6. AppNear'
      BY <1>2, <2>2, <2>4, <2>5 DEF AppNear
    <2> QED
      BY <1>1, <2>6, AppStaysNear
  <1>5. CASE GetServerTime
    <2>1. PICK d \in 0 .. MaxLatency : d <= clock /\ lag' = clock - ServerTime(clock - d)
      BY <1>5 DEF GetServerTime
    <2>2. lag' <= MaxLag
      BY <2>1, LagIsBounded DEF IInv, Times
    <2>3. UNCHANGED <<outbox, sent>>
      BY <1>5 DEF GetServerTime
    <2> QED
      BY <1>1, <1>2, <2>2, <2>3, AppStaysNear DEF AppNear, Near, KeyAt, BreaksOf
  <1>6. CASE ClockOutOffline
    <2>1. PICK t : t = clock - lag
      OBVIOUS
    <2>2. PICK n \in Maybe(Notes) : /\ outbox' = [at |-> t, notes |-> n] /\ lag <= clock
                                    /\ lag # NULL /\ UNCHANGED <<lag, sent>>
      BY <1>6, <2>1 DEF ClockOutOffline, Ready
    <2>3. t \in Times /\ clock <= t + MaxLag
      <3>1. lag \in Nat /\ clock \in 0 .. MaxTime /\ MaxTime \in Nat /\ lag <= MaxLag
        BY <2>2, AttendanceAssumption DEF OInv, AppOK, NInv, AppNear, Maybe, IInv, Times
      <3> QED
        BY <2>1, <2>2, <3>1, MaxLagIsNat DEF Times
    <2>4. PICK k : k = <<User, DateOf(t, ServerZone)>>
      OBVIOUS
    <2>5. k \in Keys
      BY <2>3, <2>4, DateInDates, OfflineAssumption DEF Keys
    <2>6. Near(k, t)
      BY <2>3, <2>5, NowIsNear DEF Times
    <2>7. Near(KeyAt(outbox), outbox.at)'
      BY <1>1, <2>2, <2>4, <2>6 DEF Near, KeyAt, BreaksOf
    <2> QED
      BY <1>1, <1>2, <1>3, <2>2, <2>7, AppStaysNear DEF AppNear
  <1> QED
    BY <1>4, <1>5, <1>6

LEMMA NearStep ==
  ASSUME IInv, OInv, NInv, LagsFit, [OfflineNext]_allVars
  PROVE  NInv'
  BY ServeNear, LeaveNear, DeliverNear, SendOnlineNear, AppStepNear DEF OfflineNext

LEMMA NearStart == OfflineInit => NInv
  BY DEF OfflineInit, Init, NInv, AppNear, DayNear, ClosedBreaks, BreaksOf, Closed

(***************************************************************************)
(* The minutes stored at a clock-out are none below zero and no more than  *)
(* the shift has, whatever dies, is retried or arrives late, as long as    *)
(* one lag of the app's clock, and that of all breaks of a day together,   *)
(* are less than a minute.                                                 *)
(***************************************************************************)
THEOREM MinutesFitShift ==
  OfflineSpec /\ []OneADay /\ []LagsFit => []WorkedWithinShift
  <1>1. IInv /\ OInv /\ NInv /\ LagsFit /\ [OfflineNext]_allVars => NInv'
    BY NearStep
  <1>2. NInv => WorkedWithinShift
    BY DEF NInv, DayNear, WorkedWithinShift, KeysInUse, Closed
  <1> QED
    BY <1>1, <1>2, NearStart, OfflineInvariance, PTL DEF OfflineSpec

LEMMA FewBreaksFit ==
  ASSUME MaxLag < MinuteLength, Cardinality(BreakIds) * MaxLag < MinuteLength
  PROVE  LagsFit
  <1>1. PICK m \in Nat : m = MaxLag
    BY MaxLagIsNat
  <1>2. ASSUME NEW k \in Keys
        PROVE  Cardinality(BreaksOf(k)) * MaxLag < MinuteLength
    <2>1. PICK n \in Nat : n = Cardinality(BreakIds)
      BY AttendanceAssumption, FS_CardinalityType
    <2>2. PICK i \in Nat : i = Cardinality(BreaksOf(k)) /\ i <= n
      BY <2>1, AttendanceAssumption, FS_Subset, FS_CardinalityType DEF BreaksOf
    <2>3. i * m <= n * m
      BY <2>2, <2>1, <1>1, SMT
    <2>4. n * m < MinuteLength
      BY <1>1, <2>1
    <2>5. i * m < MinuteLength
      BY <1>1, <2>1, <2>2, <2>3, <2>4, ClockAssumption
    <2> QED
      BY <1>1, <2>2, <2>5, Zenon
  <1> QED
    BY <1>2 DEF LagsFit

(***************************************************************************)
(* An app that makes one submission stores minutes that fit the shift, if  *)
(* all breaks there can be lag behind by less than a minute together.      *)
(***************************************************************************)
THEOREM OneSubmissionFitsShift ==
  ASSUME MaxSubmissions = 1,
         MaxLag < MinuteLength, Cardinality(BreakIds) * MaxLag < MinuteLength
  PROVE  OfflineSpec => []WorkedWithinShift
  <1>1. LagsFit
    BY FewBreaksFit
  <1> QED
    BY <1>1, OneSubmission, MinutesFitShift, PTL
=============================================================================
