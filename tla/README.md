# Verification of the HRIS backend

TLA+ models of the HRIS backend (Go, PostgreSQL, Redis), the TLC runs that check
them and the TLAPS proofs about them. All paths are relative to the repository.

## 1. The system

One process (`cmd/api/main.go`) serves HTTP and runs the mail worker. Every
request runs its handler in its own goroutine. A handler calls a use case
(`internal/usecase`), which calls repositories (`internal/repository`); every
repository call is one SQL statement or one Redis command, **committed by
itself**: the code never opens a transaction. Handlers share nothing but the two
stores. So between any two calls of a use case every other handler may run, and
a failure between them leaves the first one's effect behind. That is where the
difficulty of this code lies, and what the models are about.

| Component | State | Operations | Talks to |
|---|---|---|---|
| Attendance (`attendance_uc.go`, `attendance_repo.go`, `attendance_break_repo.go`) | `attendance_records` (one row per employee and day), `attendance_breaks` | ClockIn, ToggleBreak start/end, ClockOut online/offline, GetClockOutPreview, GetTodayStatus | PostgreSQL, server clock, client timestamps |
| Registration and ids (`employee_uc.go`, `employee_sequence_repo.go`) | `employees`, `company_employee_sequences` | Register | PostgreSQL, server clock (the year) |
| Selfie (`attendance_uc.go`) | `employees.selfie_url` | RegisterSelfie, GetRegisteredSelfie | PostgreSQL |
| OTP login (`auth_uc.go`, `otp_repo.go`) | Redis keys `otp:<email>` with five minutes to live | RequestOTP, VerifyOTP | Redis, the mail queue |
| Mail queue and worker (`email_task_repo.go`, `internal/worker`, `pkg/mail`) | asynq tasks in Redis | enqueue, attempt, retry, timeout | the mail server |
| Password login, tokens, middleware (`auth_uc.go`, `auth_middleware.go`, `pkg/jwt`) | none; tokens are held by clients | Login, JWTAuth, GetProfile | PostgreSQL (reads), server clock |
| Location validation (`ValidateLocation`, `pkg/geo`) | none | one decision | PostgreSQL (reads) |
| Server time (`utility_handler.go`) and the mobile app of the offline clock-out design | the app's clock, token and outbox | GET /time, clock-out offline, retries | the attendance service |
| Start and shutdown (`main.go`, `worker/server.go`) | the phase of the process | a signal stops the worker, then the server | all |

What makes each part correct:

* **Attendance**: a day is opened once and closed once; breaks and the status
  column tell the same story; ended breaks and recorded times are not rewritten;
  timestamps belong to their day; the stored minutes are those the tables imply.
* **Registration**: no two registrations get the same number, whichever fail; what
  each is told is true when it hears it.
* **Selfie**: registered once.
* **Password login and tokens**: whoever is registered reaches the own account,
  by any identifier, and no other.
* **OTP login**: one token per code; a stored code has a mail of its own.
* **Offline app**: what it hears of its submission is so, and it hears it in the end.
* **Mail queue**: every mail is sent or given up, in a bounded number of copies.

The hazards, each at its line, are listed in `PROJECT.json`.

## 2. The modules

| Module | What it is |
|---|---|
| `WorkClock` | Instants, calendar days in a zone, truncation to minutes, the worked and the overtime minutes. |
| `Attendance` | The attendance service, one action per statement. |
| `AttendanceProperties` | Its properties, and the refinement mapping to `AttendanceDay`. |
| `AttendanceDay` | What the service promises of a day, free of tables and statements. |
| `AttendanceProofs` | Proofs about `Attendance` for all values of the constants, whatever interleaves or dies. |
| `SerialProofs` | Proofs about `Attendance` when an employee's requests come one at a time and no statement fails. |
| `DayProofs` | On top of it: breaks fit the shift, the preview is an estimate, `Attendance` implements `AttendanceDay`. |
| `Registration` | Employee ids, accounts and selfies. |
| `RegistrationProofs` | Proofs about `Registration`. |
| `Access` | Password login, profile, selfie query and location validation, over the tables of `Registration`. |
| `AccessProofs` | Proofs about `Access`. |
| `OfflineClient` | The attendance service composed with GET /time, tokens and an app that loses its connection. |
| `OfflineProofs` | Proofs about `OfflineClient`: what the app hears is true, closed days are final, the stored minutes fit the shift, the app is a client of `Attendance`. |
| `MailQueue` | The queue and the worker; also a component of `OtpLogin`. |
| `MailQueueProofs` | Proofs about `MailQueue`. |
| `OtpLogin` | RequestOTP and VerifyOTP over Redis, composed with `MailQueue` (`INSTANCE ... WITH Tasks <- Issues`) and with the shutdown of the process. |
| `OtpLoginProofs` | Proofs about `OtpLogin`, the promises of the queue inside it included. |
| `MC*` | Values of the constants for TLC. |

### How they correspond to the code

*Attendance.* A handler is a program counter (`pc[h]`, named after the statement
it is about to send) and its locals (`loc[h]`). `Receive...` stands for the
handler up to its first statement: it takes the clock (`now := time.Now()`) and
the date, once; everything later works with that instant however late it runs.
The read of the employee's UUID is part of it: accounts never change. Then one
action per statement:

| Use case | Actions |
|---|---|
| ClockIn | `ClockInRead` (GetTodayRecord), `ClockInInsert` (the schedule and CreateClockIn) |
| ToggleBreak start | `StartBreakRead`, `StartBreakInsert`, `StartBreakStatus` |
| ToggleBreak end | `EndBreakRead`, `EndBreakOpen`, `EndBreakClose`, `EndBreakStatus` |
| ClockOut | `ClockOutRead`, `ClockOutClose` (only if on break), `ClockOutSum`, `ClockOutWrite` |
| GetClockOutPreview | `PreviewRead`, `PreviewSum`, `PreviewOpen`; what it shows is `PreviewMinutes` and `PreviewOvertime` |
| GetTodayStatus | `TodayRead`, `TodayOpen` |

`records` maps an (employee, date) pair to a row: the pair is unique in the
schema. `ClockOutWrite` and the status updates write the columns the SQL names,
onto whatever the row holds by then. `Refuse` answers an error, `Done` a
success, `Reply` ends the request. `Abort` is a statement that does not happen:
an error of the database, a client that hangs up (which cancels the context all
statements use) or the end of the process. A break's length is counted tick by
tick in `BreakTicks`, so that a break that ends before it starts counts
negatively as in SQL. Ids of breaks are random UUIDs that nothing compares except
for equality: `FreshId` takes the next unused one.

*Registration.* `RegisterCompany` (the blocklist of addresses and the company's
code), `RegisterCount` (the upsert), `RegisterCreate` (the insertion, which one of the three
unique constraints may refuse), `RegisterReply` (its answer leaves: until then other
requests run on, and a retry may be among them); `SelfieRead` and `SelfieWrite`. A
request that is refused before it writes anything is answered by the step that refuses
it. A row carries its company beside its id, as in the schema, and `Access` reads the
company from there: that the two agree is proved, not assumed. A password stands for its
hash: the two are taken to compare equal exactly when the secrets are equal.

*Access.* A login, a profile, a selfie query and a location validation read one
row and write nothing. Each is therefore a function from the tables to the
answers it may give, asked in every state `Registration` reaches, whatever
registrations are in the middle of, for every combination of the identifiers a
request may carry.

*OfflineClient.* The service is `Attendance`, action by action. The app is not in
the repository: it is taken from
`docs/superpowers/specs/2026-03-12-offline-clockout-design.md` and marked external
in the map. It anchors its clock to GET /time (`lag` is how far that clock is
behind), dates a clock-out by it while offline, keeps it in its `outbox` and
sends it until it is answered. `sent` holds what was sent: the network may
deliver a copy of it any number of times, at any later time, or never.
`awaited` are the handlers whose answer the app is still waiting for; an answer
may be lost and a handler may die (`failures` counts both). `token` is the
instant its token expires: without a valid one a request stops at the middleware. A
clock-out is offered for a shift that today's status showed as open; one that began
before midnight is not found at all (`night_shift`) and is left out here.

*OtpLogin.* `RequestEmail`, `RequestSet`, `RequestEnqueue`; `VerifyGet`,
`VerifyEmail`, `VerifyDelete`; `Expire` for the time to live. The number of a
stored code (`no`) and the tokens it was exchanged for exist only in the model:
they tell two codes with the same digits apart. `phase` is where the process
stands: a `Signal` makes it "draining" (`workerServer.Shutdown`, the worker takes
no more tasks while requests are still served), `StopServing` "closing"
(`srv.Shutdown` waits for the handlers, five seconds at most), `Exit` starts the
next process. asynq's `Run` hears the signal itself and shuts the worker down, in
which case main's own call returns at once and the process may leave attempts
behind: `Exit` is the queue's `Restart` or its `Crash`.

*MailQueue.* asynq itself is modelled from the options this code gives it. An
attempt given up after 30 seconds is not stopped, since `ProcessTask` never looks
at its context: it goes on as a `lingering` one.

`MaybeAccepted`: the mail server may have accepted a mail whose sender was told
of an error. `Restart` returns running tasks to the queue, `Crash` lets their
leases run out.

Definitions marked *Seeded fault* are plausible bugs of the mapped definition
they precede. They are used only to see that a property notices them
(`PROJECT.json`, `mutants`).

## 3. The runs

| Run | Setting | What it shows |
|---|---|---|
| `races` | two handlers for one employee, any of which may die, clock-outs from a client zone west of the server's (they take the same statements as online ones, of which two overlap in `double_clock_out`) | history is never rewritten, timestamps are of their day and not ahead of the clock, whatever interleaves |
| `serial` | one employee, one request at a time, no failures, all operations, notes, a schedule, two client zones, two days | tables, totals, answers, preview and today's status agree; breaks fit the shift; a closed day is final; a clock-out without notes leaves them; `Attendance` implements `AttendanceDay` |
| `offline` | an app that goes offline: two handlers, retries that overlap, late copies, a lost answer or a handler that dies | every answer the app hears is true, a closed day is final, the stored minutes lie within the shift, and a submission is answered in the end |
| `registrations` | two requests at once (one per account once it exists), two companies, crashes, a new year; logins, profiles, selfies and locations asked in every state | a drawn number is its drawer's alone, a registration is told what is so, accounts are never lost, everyone reaches the own account and no other, a refused login blames the right identifier, selfies are registered once |
| `mails` | two mails, one worker, three retries, timeouts, a restart or a crash | copies bounded, completed means sent, every mail settles |
| `otp_requests` | overlapping requests and verifications, no failing commands, a graceful shutdown and the next process | the stored code has its mail; every code's mail settles |
| `otp_faults` | two addresses, one request at a time each, failing commands, a crash or a shutdown that runs out of time | no mail before its code, none for strangers; a verification removes only its own code |

Runs expected to find a violation, each of something the repository says:

| Run | What it refutes | What happens |
|---|---|---|
| `late_break` | `attendance_uc.go:292` | an app that follows the design reads the server's time in whole seconds, and its offline clock-out predates the end of an ended break |
| `double_clock_out` | flow test `N2` (`:218`) | two overlapping clock-outs both succeed |
| `crashed_break` | flow test (`:371`) | a break whose start died half-way is never ended |
| `night_shift` | `attendance_uc.go:277`, offline design `:71` | a shift across midnight is not found |
| `otp_race` | `auth_handler.go:57` | two overlapping verifications get tokens |

The same causes have further effects that have no run of their own: overlapping
registrations of a selfie both succeed (`SelfieOnce` is checked for apps that
wait), overlapping clock-outs restore each other's notes
(`AbsentNotesLeaveNotes`, likewise), a used code whose deletion fails is
exchanged again, and a client in another zone is looked up under another date.

### Which properties hold when

Properties come in three strengths, and the groups in `AttendanceProperties` say
which is which. Those of `races` hold always. Those of `serial` need that an
employee's requests do not overlap (`SerialClients`) and that no statement fails:
the code has no transaction, no row lock and no condition in its updates, and
the violation runs show what happens otherwise. `offline` lies between: its app
sends one online request at a time, but copies of its submission overlap one
another and everything the app does later, and statements fail. That a
closed day stays closed there rests on the app's own discipline, which the
module states: nothing is sent online while a submission waits, and a submission
is made only for a shift the server has not closed.

### Bounds

* *Time*: in `serial` three ticks are a day and two a minute, so that within five
  instants there are two days, a midnight inside a request, a zone in which the
  date differs and lengths that truncation to minutes changes. Three and two have
  no common divisor: truncation and midnight do not coincide. The shift is scheduled to
  end at tick 1 of a day, whose odd tick `ParseHM` drops like seconds, so that a
  clock-out at the last tick of the first day has a minute of overtime. `races` has three
  instants over two days of two ticks.
* *`offline`*: four ticks are a day, three a minute and two a second, and the clock
  runs to 5, so that a submission of instant 0 meets the end of its 24 hours,
  tokens expire (the default of 24 hours) and the app's clock is behind by zero
  or one tick. That keeps the sum of what the lag takes from the breaks of a day
  below a minute, as in reality, where a lag is below a second:
  `WorkedWithinShift` needs it, and `OneSubmissionFitsShift` assumes no more. One submission, one failure (`MaxSubmissions`,
  `MaxFailures`); the answer of GET /time itself arrives at once (`MaxLatency` 0), a
  later one makes the app's clock lag further.
* *Handlers*: two per employee, which is what every violation by overlapping
  requests needs; the proofs cover any number.
* *Breaks*: two rows, enough for a break joined by another and for the sum of an
  ended one with an open one. `BreakRoom` keeps a start from being sent when none
  is left.
* *Mail queue*: `MaxRetry` 3 as in the code; one worker, so that tasks wait for
  each other (the code has five, which two tasks would never fill); one restart.
  In `OtpLogin` runs, whose questions are not about retries, `MaxRetry` is 1.
* *Registration*: two handlers, two companies, an unknown code, two e-mails and a
  disposable one, two phones, two passwords, two years and three numbers drawn
  in all: two accounts and a number that is burned. One company has an office, of radius 2 on a line of seven
  points; accuracies on both sides of the limit.
* *OTP*: two codes stored per address; two digits-values in `otp_faults` and
  `otp_race`, so that a code can be wrong; one in `otp_requests`, where every
  verification presents the right one and a code always repeats.

Symmetry is used on handlers and on the values that are only compared for equality
(employees' e-mails, phones, passwords, selfies, codes), in runs without
liveness properties only. Deadlock checking is off only in `mails`, which ends
when all mails are settled.

### Fairness

`MailSpec` assumes weak fairness of taking a waiting task and of ending an
attempt. The first is asynq's loop over a queue that outlives the process; the
second is `asynq.Timeout(30s)`: when the mail server does nothing, `SendTimesOut`
is what ends the attempt. Weak fairness of `Fetch` is enough although tasks
compete for the worker, because attempts are finite. `FairSpec` of `OtpLogin`
adds that a handler with a command to send sends it, and that a shutdown that
began comes to its end (`main.go` bounds it by five seconds); it is used without
`Faults`. No fairness is assumed of clients, of expiry, of signals or of crashes.

`FairOfflineSpec` assumes of the app what the design asks of it: it goes on until
it has its answer. A login when the token has expired, a sending, the delivery of a
copy and the handlers it waits for are one action, `Progress`, under strong
fairness: weak would not do, because both handlers may be busy with late copies
over and over. Of the handlers together it assumes that they do not all stand
still. Lost answers and dying handlers are bounded by `MaxFailures`: for ever
lost, a submission is never answered. No fairness of the clock is needed: a
submission that waits for ever with a valid token is delivered, and one whose 24
hours run out is refused.

## 4. The proofs

All theorems hold for every value of the constants that satisfies the named
assumptions (`ClockAssumption`, `AttendanceAssumption`, `NullAssumption`, and
`OfflineAssumption`, `RegistrationAssumption`, `AccessAssumption`, `MailAssumption`,
`OtpAssumption` of the other modules), which TLC evaluates in every run. Where a
theorem asks for more than its specification it says so in its statement:
`SerialClients` and `~Faults` as in the run `serial`, `~Faults` as in
`otp_requests`, `OneADay` and `LagsFit` below. Every inductive invariant was an invariant of a
TLC run before it was proved.

**Attendance** (`AttendanceProofs`). `TypeCorrect`, `FutureFree`, `OwnWorkDay`,
`EndedBreaksAreKept`, `HistoryIsKept`: the properties of `races`, for any number
of employees, handlers and breaks and any length of the day and the minute, with
overlapping requests and crashes. `TypeOK` is not inductive: that an update of a
row keeps it a row needs that there *is* a row, which a handler knows only from
an earlier read. `IInv` adds to it what a handler knows at each label: its
instant is not ahead of the clock and lies on the work date it looks under, and
from the read of the row on, the row exists. Rows are never removed, so what one handler knows, no other can
invalidate: that is the heart of the argument. `HistoryIsKept` then needs only
which columns each statement writes, `EndedBreaksAreKept` the condition
`break_end_at IS NULL`.

**Registration** (`RegistrationProofs`). `NumbersAreUnique`: `NoIdCollision`, for
any number of companies, handlers and years. The invariant says that every number in
use, of an employee or of a registration about to insert, is at most the counter
of its company and year; the upsert draws one above it. That no two
accounts share an id, an e-mail or a phone (`OneAccountPerId`) and that an account's
company is the one its id names are parts of it.

**Access** (`AccessProofs`). `RegisterAnswersAreTrue`, `EveryoneCanLogIn`,
`TokensOpenOwnAccounts`, `RefusalsAreRight` and `AccountsAreKept`, for any number of companies, accounts and
handlers and any offices. `RegisterAnswersAreTrue`: a refusal for the id would mean that a
drawn number collides, and whoever was told of a new account has a row, whose columns
stay, so that nobody else creates one for the same address. The next two rest on
`OneAccountPerId`: a row found by any identifier is the only one. `TokensOpenOwnAccounts` also needs that a selfie's
URL never stands without its time (`SelfiesTimed`), which is an invariant because
one statement writes both. `AccountsAreKept` needs only what a step does to the rows:
it leaves them, adds one or updates selfies.

**Mail queue** (`MailQueueProofs`). `CopiesAreBounded` and `SettledTasksAreHonest`:
for any number of tasks, retries, workers and restarts. The invariant counts
what a task may still have sent: its mails, its lingering attempts and the one
under way never exceed the failed attempts, the restarts and one.

**One request at a time** (`SerialProofs`). `StatusTellsBreak`,
`TotalsAreThoseOfTheTables`, `TodayIsComplete`, `SuccessesAreTrue`,
`ClockedOutDaysAreFinal`, `AbsentNotesAreKept`: the properties of `serial`, for any
number of employees, days and breaks. None of them is inductive, since between two
statements of a request the tables disagree. `SInv` says how: a day is consistent
unless a handler stands between two writes to it, and then `Knows` says what is
missing at each label (at `sb_status` the one open break is the handler's own and
the status is behind; at `co_write` no break is open and `mins` is the sum of the
ended ones). That a handler finds the day as it left it rests on `OneEach`: nobody
else has a request of the same employee. Whether a stored total is right depends on
nothing but the day's own breaks, an offline submission that ends a break before it
started included.

**The day** (`DayProofs`). `BreaksFit`: a handler's instant is not earlier than any
timestamp of its day (`OnTime`), because it was taken when nobody else was working on
that day. `PreviewsAreEstimates`: the minutes of two lengths add up to the minutes
of their sum or to one less, for any length of the minute; the ticks of the open
break are joined to those of the ended ones by counting disjoint sets. The overtime is
that of a clock-out exactly.
`ServiceImplementsDay`: the refinement of `AttendanceDay` under the mapping of
`AttendanceProperties`. Four statements are steps of a day (the insertions of its
row and of a break, the closing of a break, the write of the clock-out), every
other one is a stutter.

**OTP login** (`OtpLoginProofs`). `TypeCorrect`, `MailsFollowCodes`,
`StoredCodesAreMailed`, `OwnCodesRemoved`, for any number of addresses, handlers and
codes, through crashes, shutdowns and new processes. Beside the types the invariant says of
each handler which code it has stored or read, and that numbers are given out
once. `LoginsKeepQueuePromises` composes: every step of the service is a step of
`MailQueue` on the queue's variables or leaves them alone, so the theorems of
`MailQueueProofs` hold inside the service, cited rather than proved again.

**Selfies.** `RegistrationProofs` also proves `SelfieOnce`, for apps that wait:
between the check and the write of one account nobody else touches it.

**The offline app** (`OfflineProofs`). `HeardAnswersAreTrue` and `OfflineDaysAreFinal`,
for any number of handlers, copies and failures, any lifetime of tokens and any
latency of GET /time. The invariant `OInv` describes a race that is harmless: several handlers of
one submission may stand between its read and its write, and one of them may have
finished. They would all write the same, since they have read the same row, the
breaks of the day no longer change (`Wrote`, `HolderKnows`), and no online request is about to change the day.
The theorems have the hypothesis `OneADay`, that no two submissions sent are of one day.
It is needed: TLC finds `AnswersAreTrue` violated with `MaxSubmissions` 2, a day of
two ticks and a clock of the app that lags by two (`MaxLatency` 1). The first
submission is refused for its age while one of its handlers has yet to write; the
app, told nothing of that handler, makes a second one of the same day, and the first
handler then overwrites it. For that a handler has to stand still for 24 hours, and the
first submission to be dated so soon after midnight that 24 hours later the lagging
clock still shows its day: possible in the model, hardly in a running system.
`OneSubmissionIsSafe` discharges the hypothesis for a single submission, as in the
run `offline`. `OfflineAppIsAClient` is a refinement: whatever this app does, and
however its copies arrive, is a behaviour of `Attendance` with clients that
overlap; `OfflineHistoryIsKept` draws from it that the theorems of
`AttendanceProofs` hold here too, without `OneADay`. It asks that timestamps are
written in the server's zone, as the app of the model does.

`MinutesFitShift` is about the stored minutes. The app's clock shows whole seconds of a
late answer, so it lags by up to `MaxLag`, and a submission may be dated before what
happened on its day. `NInv` bounds that: nothing on the day of a submission is later
than its instant by more than `MaxLag`, so an ended break lasts no less than
`-MaxLag`. The theorem has the hypothesis `LagsFit`: one lag, and those of all breaks of a
day together, are less than a minute. Then their sum, cut to minutes towards zero as
Go cuts it, is not negative. Without it, a break that a lagging clock ends a minute or
more before it started would add to the minutes worked.
`OneSubmissionFitsShift` discharges both hypotheses from the constants: one submission, and
`Cardinality(BreakIds) * MaxLag < MinuteLength`, which `offline.cfg` satisfies (2 breaks,
a lag of 1, a minute of 3).

Only model-checked: liveness (`TaskSettles`, `RequestSettles`, `SubmissionSettles`),
which rests on fairness and is out of the prover's reach.

## 5. What is not modelled

* The great-circle formula of `pkg/geo`: floating-point arithmetic. `Access` keeps
  the decisions around it, over distances on a line.
* Hashes and signatures (`bcrypt`, HMAC): a password is accepted exactly when it is
  the one that was hashed, and tokens are not forged. A token's role is carried and
  never read.
* Columns no decision depends on: locations, URLs of clock-ins, scheduled clock-in,
  the bookkeeping timestamps. No operation of this program changes a company or
  its office: they are constants.
* Bodies that do not parse or validate, and `time.Parse` of the client timestamp: a
  malformed one is refused before anything is done; the model starts from a
  parsed instant and its zone.
* Payloads of mails that do not parse: the program enqueues none, so the
  `SkipRetry` branches of the worker are not reached from it.
* PostgreSQL's microseconds and `time.Time`'s nanoseconds: a tick is one stored
  instant.
* Changes of the server's zone and daylight saving: the server's zone is fixed.
* Migrations, seeds, configuration, logging, connections and the wiring of routes:
  set-up that ends before the first request. (The seed of the first administrator
  numbers with `LPAD`, which would cut a five-digit counter that `%04d` does not;
  it runs once, on an empty counter.)
* `docs/docs.go`: a third of the Go lines, generated API text without behaviour.

## 6. Plan

Done: `WorkClock`, `Attendance`, `AttendanceProperties`, `AttendanceDay`,
`AttendanceProofs`, `Registration`, `RegistrationProofs`, `Access`, `AccessProofs`, `MailQueue`,
`MailQueueProofs`, `OtpLogin` with the shutdown, `OfflineClient`.

Also `SerialProofs`, `DayProofs`, `OtpLoginProofs` and `OfflineProofs`: every safety
and action property of a passing run is stated by a theorem. Liveness stays with TLC.

Left to extend: the hypothesis `OneADay` could be replaced by one about how long a
handler may stand still, which would cover an app that submits again after a refusal.
