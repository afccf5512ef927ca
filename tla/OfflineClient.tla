---------------------------- MODULE OfflineClient ----------------------------
(***************************************************************************)
(* The attendance service together with the app of one employee, which     *)
(* loses its connection.  The app is not in the repository: it is modelled *)
(* from docs/superpowers/specs/2026-03-12-offline-clockout-design.md.      *)
(*                                                                         *)
(* The app anchors a clock of its own to GET /time and counts on from it.  *)
(* While it is offline it dates a clock-out by that clock, keeps it in its *)
(* outbox and sends it until it is answered.  A submission that was sent   *)
(* may arrive any number of times or never, overlapping its retries and    *)
(* even a day after it was answered.  Otherwise the app sends one request  *)
(* at a time, and only while its outbox is empty.                          *)
(***************************************************************************)
EXTENDS AttendanceProperties

CONSTANTS
  User,           \* the employee
  SecondLength,   \* ticks in a second
  MaxLatency,     \* how late the answer of GET /time may reach the app
  MaxSubmissions, \* bound: clock-outs made offline
  MaxFailures,    \* bound: handlers that die and awaited answers that are lost
  JwtExpiration   \* JWT_EXPIRATION_HOURS in ticks, 0 if it is not set

ASSUME OfflineAssumption ==
  /\ User \in Employees
  /\ SecondLength \in Nat \ {0}
  /\ MaxLatency \in Nat
  /\ JwtExpiration \in Nat
  /\ ~SerialClients  \* the app decides when it sends

VARIABLES
  token,   \* the instant its token expires, NULL before the first login
  lag,     \* how far the app's clock is behind the server's, NULL before GET /time
  outbox,  \* the clock-out that waits for an answer, NULL if there is none
  sent,    \* submissions that were sent: a copy of each may arrive at any time
  awaited,  \* handlers whose answer the app takes for that of its outbox
  failures  \* handlers that have died and awaited answers that were lost

app == <<token, lag, outbox, sent, awaited, failures>>
allVars == <<vars, app>>

OfflineInit ==
  /\ Init
  /\ token = NULL /\ lag = NULL /\ outbox = NULL
  /\ sent = {} /\ awaited = {} /\ failures = 0

-----------------------------------------------------------------------------
(* Tokens and the server's time *)

\* Seeded fault: fractions of a second are rounded up.
ServerTimeRounded(t) == ((t + SecondLength - 1) \div SecondLength) * SecondLength

\* RFC3339 and Unix time are whole seconds.
ServerTime(t) == (t \div SecondLength) * SecondLength

Lifetime == IF JwtExpiration = 0 THEN DayLength ELSE JwtExpiration

\* Seeded fault: "now" is taken once, when the service starts.
ExpiryFromStart == ServerTime(Lifetime)

\* The "exp" of a token generated now, a number of seconds.
Expiry == ServerTime(clock + Lifetime)

\* JWTAuth lets a request through until the "exp" of its token.
Authorized == token # NULL /\ clock < token

Login ==
  /\ ~Authorized
  /\ token' = Expiry
  /\ UNCHANGED <<vars, lag, outbox, sent, awaited, failures>>

\* GET /time when the app comes to the foreground; its answer is d ticks old.
GetServerTime ==
  /\ Authorized
  /\ \E d \in 0 .. MaxLatency :
       /\ d <= clock
       /\ lag' = clock - ServerTime(clock - d)
  /\ UNCHANGED <<vars, token, outbox, sent, awaited, failures>>

-----------------------------------------------------------------------------
(* The app *)

\* The goroutine started for a request; which one it is makes no difference.
Fresh == CHOOSE h \in Handlers : pc[h] = "idle"

Ready == lag # NULL /\ outbox = NULL /\ \A g \in Busy : loc[g].offline

SendOnline ==
  /\ Ready
  /\ Authorized
  /\ Busy # Handlers
  /\ \/ ReceiveClockIn(Fresh) \/ ReceiveStartBreak(Fresh)
     \/ ReceiveEndBreak(Fresh) \/ ReceiveClockOut(Fresh)
  /\ UNCHANGED app

(***************************************************************************)
(* Offline, the app offers a clock-out for a shift that today's status,    *)
(* which it keeps up to date while it is connected, showed as open.  That  *)
(* a shift begun before midnight is offered to no avail is night_shift's   *)
(* finding, and left out here: every answer to it would be "not clocked    *)
(* in".                                                                    *)
(***************************************************************************)
ClockOutOffline ==
  /\ Ready
  /\ Cardinality(sent) < MaxSubmissions
  /\ lag <= clock
  /\ LET t == clock - lag
         row == records[<<User, WorkDate(t, ServerZone, clock)>>] IN
       /\ row # NULL /\ row.status # "clocked_out"
       /\ \E n \in Maybe(Notes) : outbox' = [at |-> t, notes |-> n]
  /\ UNCHANGED <<vars, token, lag, sent, awaited, failures>>

Send ==
  /\ outbox # NULL
  /\ Authorized
  /\ sent' = sent \cup {outbox}
  /\ UNCHANGED <<vars, token, lag, outbox, awaited, failures>>

\* The app has its answer.
Settle == outbox' = NULL /\ awaited' = {} /\ UNCHANGED <<token, lag, sent, failures>>

-----------------------------------------------------------------------------
(* The service *)

SubmissionRequest(s) ==
  [Request("clock_out_offline", User, s.at, WorkDate(s.at, ServerZone, clock))
     EXCEPT !.offline = TRUE, !.notes = s.notes]

\* A copy of s arrives: JWTAuth and the bounds of its timestamp let it through to the tables.
Deliver(s) ==
  /\ Authorized
  /\ ValidClientTimestamp(s.at, clock)
  /\ Busy # Handlers
  /\ Receive(Fresh, SubmissionRequest(s), "co_read")
  /\ awaited' = IF s = outbox THEN awaited \cup {Fresh} ELSE awaited
  /\ UNCHANGED <<token, lag, outbox, sent, failures>>

\* The outbox arrives and is refused for its timestamp.
Reject ==
  /\ outbox \in sent
  /\ Authorized
  /\ ~ValidClientTimestamp(outbox.at, clock)
  /\ Settle
  /\ UNCHANGED vars

\* The app hears of handler h no more.
Unheard(h) ==
  /\ failures < MaxFailures
  /\ failures' = failures + 1
  /\ awaited' = awaited \ {h}
  /\ UNCHANGED <<token, lag, outbox, sent>>

\* The answer the app waits for arrives or is lost; of the others nothing depends on it.
Answer(h) ==
  /\ Reply(h)
  /\ \/ h \in awaited /\ Settle
     \/ h \in awaited /\ Unheard(h)
     \/ h \notin awaited /\ UNCHANGED app

Die(h) == Abort(h) /\ Unheard(h)

Serve(h) ==
  /\ \/ ClockInRead(h) \/ ClockInInsert(h)
     \/ StartBreakRead(h) \/ StartBreakInsert(h) \/ StartBreakStatus(h)
     \/ EndBreakRead(h) \/ EndBreakOpen(h) \/ EndBreakClose(h) \/ EndBreakStatus(h)
     \/ ClockOutRead(h) \/ ClockOutClose(h) \/ ClockOutSum(h) \/ ClockOutWrite(h)
  /\ UNCHANGED app

OfflineNext ==
  \/ Tick /\ UNCHANGED app
  \/ Login \/ GetServerTime \/ ClockOutOffline \/ Send \/ Reject \/ SendOnline
  \/ \E s \in sent : Deliver(s)
  \/ \E h \in Handlers : Serve(h) \/ Answer(h) \/ Die(h)

OfflineSpec == OfflineInit /\ [][OfflineNext]_allVars

\* A step towards the answer of the outbox.
Progress ==
  \/ Login \/ Send \/ Reject
  \/ outbox \in sent /\ Deliver(outbox)
  \/ \E h \in awaited : Serve(h) \/ Answer(h)

(***************************************************************************)
(* The app tries until it has its answer and renews its token when it      *)
(* must, a copy of what it sends again and again arrives, and the handlers *)
(* do not all stand still; they may be busy with late copies, hence the    *)
(* strong fairness.                                                        *)
(***************************************************************************)
OfflineFairness ==
  SF_allVars(Progress) /\ WF_allVars(\E h \in Handlers : Serve(h) \/ Answer(h))

FairOfflineSpec == OfflineSpec /\ OfflineFairness

-----------------------------------------------------------------------------
(* Properties *)

(***************************************************************************)
(* What the app is about to hear of its submission is so, from the first   *)
(* copy as from a retry: "ok" means that the day ended at the instant the  *)
(* app dated, 409 that the day is closed; it is never told that there is   *)
(* no shift, and its clock, read to the second, is never ahead.            *)
(***************************************************************************)
AnswersAreTrue ==
  /\ outbox # NULL => outbox.at <= clock
  /\ \A h \in awaited :
       pc[h] = "reply" =>
         LET row == records[<<User, DateOf(outbox.at, ServerZone)>>] IN
           /\ row.status = "clocked_out"
           /\ \/ loc[h].answer = "ok" /\ row.clockOutAt = outbox.at
              \/ loc[h].answer = "already_clocked_out"

(***************************************************************************)
(* The outbox empties: a clock-out made offline is answered in the end,    *)
(* although tokens expire and copies, statements and answers are lost.     *)
(***************************************************************************)
SubmissionSettles == outbox # NULL ~> outbox = NULL
=============================================================================
