---------------------------- MODULE Registration ----------------------------
(***************************************************************************)
(* Employee accounts: registration, which draws the employee's number from *)
(* a counter per company and year (internal/usecase/employee_uc.go), and   *)
(* the registration of the employee's selfie                               *)
(* (RegisterSelfie, internal/usecase/attendance_uc.go).                    *)
(*                                                                         *)
(* Handlers interleave statement by statement; the upsert that draws a     *)
(* number is one statement, the insertion of the employee another, and     *)
(* nothing returns the number if the second one fails.                     *)
(***************************************************************************)
EXTENDS Integers, FiniteSets

CONSTANTS
  Companies,      \* the codes in the companies table
  UnknownCodes,   \* codes clients send that are in no table
  Emails,         \* e-mail addresses clients send
  Disposable,     \* those of a disposable domain
  Phones,         \* phone numbers clients send
  Passwords,      \* passwords; the stored hash accepts the one it was made from
  Selfies,        \* selfie URLs
  Handlers,       \* request goroutines that may be in flight together
  Years,          \* years the service lives through
  MaxCount,       \* bound: numbers drawn in all
  SerialClients,  \* TRUE: an employee's app waits for each answer
  Faults,         \* TRUE: a handler may die between two statements
  NULL

ASSUME RegistrationAssumption ==
  /\ Years \subseteq Nat /\ Years # {}
  /\ Disposable \subseteq Emails
  /\ Companies \cap UnknownCodes = {}
  /\ MaxCount \in Nat
  /\ SerialClients \in BOOLEAN
  /\ Faults \in BOOLEAN

Maybe(S) == S \cup {NULL}

\* COMPANY_CODE-YEAR-COUNTER: the three parts can be read back from the text.
Ids == Companies \X Years \X Nat

EmployeeRows == [id : Ids, company : Companies, email : Emails, phone : Phones,
                 password : Passwords, selfie : Maybe(Selfies),
                 selfieAt : BOOLEAN]  \* selfie_registered_at is set

\* The answers to an insertion.
RegisterAnswers == {"created", "email_taken", "phone_taken", "failed"}

\* What the handlers keep: Register a year, a number and an answer once it has them.
RegisterRequests == [op : {"register"}, company : Companies \cup UnknownCodes,
                     email : Emails, phone : Phones, password : Passwords,
                     year : Maybe(Years), id : Maybe(Ids), answer : Maybe(RegisterAnswers)]
SelfieRequests == [op : {"selfie"}, id : Ids, url : Selfies]
Requests == RegisterRequests \cup SelfieRequests

ASSUME NullAssumption ==
  NULL \notin Selfies \cup Years \cup Ids \cup RegisterAnswers \cup Requests

Labels == {"idle", "rg_company", "rg_count", "rg_create", "rg_reply", "sf_read", "sf_write"}

VARIABLES
  year,       \* the current year
  counter,    \* company_employee_sequences: <<company, year>> -> counter, 0 without a row
  employees,  \* employees: its rows
  pc,         \* handler -> the statement it is about to execute
  loc         \* handler -> its local variables, NULL when it serves no request

tables == <<counter, employees>>
vars == <<year, counter, employees, pc, loc>>

Init ==
  /\ year \in {y \in Years : \A z \in Years : y <= z}
  /\ counter = [s \in Companies \X Years |-> 0]
  /\ employees = {}
  /\ pc = [h \in Handlers |-> "idle"]
  /\ loc = [h \in Handlers |-> NULL]

GotoWith(h, label, request) ==
  /\ pc' = [pc EXCEPT ![h] = label]
  /\ loc' = [loc EXCEPT ![h] = request]

At(h, label) == pc[h] = label /\ UNCHANGED year

\* The handler answers: nothing of it remains.
Respond(h) == GotoWith(h, "idle", NULL)

-----------------------------------------------------------------------------
(* Register *)

\* The bound MaxCount: every registration under way finds a number.
Room ==
  Cardinality({n \in (Companies \X Years) \X (1 .. MaxCount) : n[2] <= counter[n[1]]})
    + Cardinality({g \in Handlers : /\ pc[g] \in {"rg_company", "rg_count"}
                                    /\ loc[g].company \in Companies}) < MaxCount

ReceiveRegister(h) ==
  \E c \in Companies \cup UnknownCodes, e \in Emails, p \in Phones, w \in Passwords :
    /\ pc[h] = "idle"
    /\ c \in Companies => Room
    /\ GotoWith(h, "rg_company", [op |-> "register", company |-> c, email |-> e,
                                  phone |-> p, password |-> w, year |-> NULL, id |-> NULL,
                                  answer |-> NULL])
    /\ UNCHANGED <<year, tables>>

\* The domain of the address is on the blocklist.
IsDisposableEmail(e) == e \in Disposable

\* SELECT ... FROM companies WHERE company_code = ?
GetByCode(c) == {c} \cap Companies

\* Seeded fault: the year is not read.
RegisterCompanyOnly(h) ==
  /\ At(h, "rg_company")
  /\ loc[h].company \in Companies
  /\ GotoWith(h, "rg_count", loc[h])
  /\ UNCHANGED tables

(***************************************************************************)
(* The domain of the e-mail and the company code are looked up, then the   *)
(* year is read.  A request refused here has met no other one, so that its *)
(* answer, a 400, leaves with the same step; a lookup that fails is        *)
(* answered in the same way (Abort).                                       *)
(***************************************************************************)
RegisterCompany(h) ==
  /\ At(h, "rg_company")
  /\ \/ /\ IsDisposableEmail(loc[h].email) \/ GetByCode(loc[h].company) = {}
        /\ Respond(h)
     \/ /\ ~IsDisposableEmail(loc[h].email) /\ GetByCode(loc[h].company) # {}
        /\ GotoWith(h, "rg_count", [loc[h] EXCEPT !.year = year])
  /\ UNCHANGED tables

\* Seeded fault: the number is one more than the employees counted so far.
CountRows(h) ==
  /\ At(h, "rg_count")
  /\ LET s == <<loc[h].company, loc[h].year>>
         n == Cardinality({r \in employees : <<r.id[1], r.id[2]>> = s}) + 1 IN
       /\ counter' = [counter EXCEPT ![s] = n]
       /\ GotoWith(h, "rg_create", [loc[h] EXCEPT !.id = <<s[1], s[2], n>>])
  /\ UNCHANGED employees

\* IncrementAndGetCounter: one upsert that inserts 1 or adds 1, and returns the counter.
RegisterCount(h) ==
  /\ At(h, "rg_count")
  /\ LET s == <<loc[h].company, loc[h].year>>
         n == counter[s] + 1 IN
       /\ counter' = [counter EXCEPT ![s] = n]
       /\ GotoWith(h, "rg_create", [loc[h] EXCEPT !.id = <<s[1], s[2], n>>])
  /\ UNCHANGED employees

\* Seeded fault: only the id and the phone are unique.
ViolatedButEmail(h) == {c \in {"id", "phone"} : \E r \in employees : r[c] = loc[h][c]}

\* The unique constraints on employee_id, email and phone_number that refuse the row.
Violated(h) == {c \in {"id", "email", "phone"} : \E r \in employees : r[c] = loc[h][c]}

\* Seeded fault: the constraint on the phone number is not recognised.
MapEmailError(c) == IF c = "email" THEN "email_taken" ELSE "failed"

\* mapCreateEmployeeError, of the constraint the database names.
MapCreateEmployeeError(c) ==
  CASE c = "email" -> "email_taken" [] c = "phone" -> "phone_taken" [] OTHER -> "failed"

\* Seeded fault: the row refers to another company than the one looked up.
NewEmployeeAnywhere(h) ==
  [id |-> loc[h].id, company |-> CHOOSE c \in Companies : TRUE, email |-> loc[h].email,
   phone |-> loc[h].phone, password |-> loc[h].password, selfie |-> NULL, selfieAt |-> FALSE]

NewEmployee(h) ==
  [id |-> loc[h].id, company |-> loc[h].company, email |-> loc[h].email,
   phone |-> loc[h].phone, password |-> loc[h].password, selfie |-> NULL, selfieAt |-> FALSE]

\* The database has answered; the answer of the handler is still to leave.
Answer(h, a) == GotoWith(h, "rg_reply", [loc[h] EXCEPT !.answer = a])

\* Seeded fault: the insertion is an upsert on the e-mail.
CreateOrReplace(h) ==
  /\ At(h, "rg_create")
  /\ employees' = {r \in employees : r.email # loc[h].email} \cup {NewEmployee(h)}
  /\ Answer(h, "created")
  /\ UNCHANGED counter

\* Create: a unique constraint, one of those that are violated, refuses the row.
RegisterCreate(h) ==
  /\ At(h, "rg_create")
  /\ \/ /\ Violated(h) = {}
        /\ employees' = employees \cup {NewEmployee(h)}
        /\ Answer(h, "created")
     \/ \E c \in Violated(h) : Answer(h, MapCreateEmployeeError(c)) /\ UNCHANGED employees
  /\ UNCHANGED counter

\* The answer leaves.
RegisterReply(h) ==
  /\ At(h, "rg_reply")
  /\ Respond(h)
  /\ UNCHANGED tables

-----------------------------------------------------------------------------
(* RegisterSelfie *)

Busy == {g \in Handlers : pc[g] # "idle"}

\* An employee's app may send a request.
MaySend(id) == SerialClients => \A g \in Busy : loc[g].id # id

ReceiveSelfie(h) ==
  \E r \in employees, u \in Selfies :
    /\ pc[h] = "idle"
    /\ MaySend(r.id)
    /\ GotoWith(h, "sf_read", [op |-> "selfie", id |-> r.id, url |-> u])
    /\ UNCHANGED <<year, tables>>

\* Seeded fault: a selfie that is already there is not noticed.
SelfieReadUnchecked(h) ==
  /\ At(h, "sf_read")
  /\ GotoWith(h, "sf_write", loc[h])
  /\ UNCHANGED tables

SelfieRead(h) ==
  /\ At(h, "sf_read")
  /\ \E r \in employees :
       /\ r.id = loc[h].id
       /\ \/ r.selfie # NULL /\ Respond(h)
          \/ r.selfie = NULL /\ GotoWith(h, "sf_write", loc[h])
  /\ UNCHANGED tables

\* Seeded fault: the time of the registration is forgotten.
WithSelfieUrl(r, url) == [r EXCEPT !.selfie = url]

\* UPDATE employees SET selfie_url, selfie_registered_at ... WHERE employee_id = ?
WithSelfie(r, url) == [r EXCEPT !.selfie = url, !.selfieAt = TRUE]

SelfieWrite(h) ==
  /\ At(h, "sf_write")
  /\ employees' = {IF r.id = loc[h].id THEN WithSelfie(r, loc[h].url) ELSE r : r \in employees}
  /\ Respond(h)
  /\ UNCHANGED counter

-----------------------------------------------------------------------------
\* The next statement fails, the client hangs up or the process dies.
Abort(h) ==
  /\ Faults
  /\ pc[h] # "idle"
  /\ Respond(h)
  /\ UNCHANGED <<year, tables>>

NewYear ==
  /\ year' \in {y \in Years : y > year}
  /\ UNCHANGED <<tables, pc, loc>>

RegisterStep(h) ==
  \/ ReceiveRegister(h) \/ RegisterCompany(h) \/ RegisterCount(h)
  \/ RegisterCreate(h) \/ RegisterReply(h)

SelfieStep(h) == ReceiveSelfie(h) \/ SelfieRead(h) \/ SelfieWrite(h)

Next == NewYear \/ \E h \in Handlers : RegisterStep(h) \/ SelfieStep(h) \/ Abort(h)

Spec == Init /\ [][Next]_vars

-----------------------------------------------------------------------------
(* Properties *)

\* The tables and the locals have the types of the code, and no local is used before it is set.
TypeOK ==
  /\ year \in Years
  /\ counter \in [Companies \X Years -> Nat]
  /\ employees \subseteq EmployeeRows
  /\ pc \in [Handlers -> Labels]
  /\ loc \in [Handlers -> Maybe(Requests)]
  /\ \A h \in Handlers : /\ pc[h] = "rg_count" => loc[h].year # NULL
                         /\ pc[h] = "rg_create" => loc[h].id # NULL

(***************************************************************************)
(* README: "Race-Condition Safe IDs".  A number that has been drawn is the *)
(* drawer's alone: no other registration under way holds it and no         *)
(* employee has it, so that no insertion is ever refused because of the    *)
(* employee id, an error the handler has no answer for but a 500.          *)
(***************************************************************************)
NoIdCollision ==
  \A h \in Handlers :
    pc[h] = "rg_create" =>
      /\ \A r \in employees : r.id # loc[h].id
      /\ \A g \in Handlers \ {h} : pc[g] = "rg_create" => loc[g].id # loc[h].id

(***************************************************************************)
(* employee_uc.go:109, "field-specific error responses": what a            *)
(* registration is told is still true when its answer leaves, whatever     *)
(* other registrations did in between and whether or not it is a retry.    *)
(* The account it was told of is there, with all that it sent; of requests *)
(* that overlap, one at most is told that it created the account of an     *)
(* address or a number; a field that is blamed is taken; and nobody is     *)
(* refused for the id, for which there is no answer but a 500.             *)
(***************************************************************************)
RegisterAnswerIsTrue ==
  \A h \in {g \in Handlers : pc[g] = "rg_reply"} :
    /\ loc[h].answer # "failed"
    /\ loc[h].answer = "created" =>
         /\ \E r \in employees : /\ r.id = loc[h].id /\ r.company = loc[h].company
                                /\ r.email = loc[h].email /\ r.phone = loc[h].phone
                                /\ r.password = loc[h].password
         /\ \A g \in Handlers \ {h} :
              pc[g] = "rg_reply" /\ loc[g].answer = "created" =>
                loc[g].email # loc[h].email /\ loc[g].phone # loc[h].phone
    /\ loc[h].answer = "email_taken" => \E r \in employees : r.email = loc[h].email
    /\ loc[h].answer = "phone_taken" => \E r \in employees : r.phone = loc[h].phone

(***************************************************************************)
(* attendance_handler.go:286, "Can only be registered once.": a selfie     *)
(* that has been registered is never replaced.                             *)
(***************************************************************************)
SelfieOnce ==
  [][\A r \in employees : r.selfie # NULL => r \in employees']_vars
=============================================================================
