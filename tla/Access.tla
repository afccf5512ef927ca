-------------------------------- MODULE Access --------------------------------
(***************************************************************************)
(* What an employee reaches through an account: the login with a password  *)
(* (Login, internal/usecase/auth_uc.go), the profile, the registered       *)
(* selfie and the validation of a location.  Each reads one row and writes *)
(* nothing, so it is a function from the tables to the answers it may give *)
(* and is asked of every state that registrations reach, whatever they are *)
(* in the middle of.  Tokens name rows that outlive the requests: how long *)
(* a token is good for is in OfflineClient.                                *)
(***************************************************************************)
EXTENDS Registration

CONSTANTS
  Office,     \* company -> [place, radius] of its office, NULL if it has not been set
  Places,     \* points of a line through the offices, standing for coordinates
  Accuracies  \* GPS accuracies phones report, in metres

ASSUME AccessAssumption ==
  /\ Office \in [Companies -> Maybe([place : Int, radius : Nat])]
  /\ Places \subseteq Int
  /\ Accuracies \subseteq Nat

-----------------------------------------------------------------------------
(* SELECT * FROM employees WHERE ... LIMIT 1: one of these rows, or none. *)

GetByEmail(e) == {r \in employees : r.email = e}
GetByEmployeeID(i) == {r \in employees : r.id = i}
GetByPhoneNumber(p) == {r \in employees : r.phone = p}

-----------------------------------------------------------------------------
(* Login *)

Given(req, field) == req[field] # NULL
Identifiers == {"employee_id", "email", "phone_number"}

\* Seeded fault: the e-mail is looked up before the employee id.
LookupEmailFirst(req) ==
  IF Given(req, "email") THEN GetByEmail(req.email)
  ELSE IF Given(req, "employee_id") THEN GetByEmployeeID(req.employee_id)
  ELSE GetByPhoneNumber(req.phone_number)

\* The first identifier that is given is looked up, whatever the others are.
Lookup(req) ==
  IF Given(req, "employee_id") THEN GetByEmployeeID(req.employee_id)
  ELSE IF Given(req, "email") THEN GetByEmail(req.email)
  ELSE GetByPhoneNumber(req.phone_number)

\* The identifier the answer of a failed lookup blames: a switch of its own.
LoginIdentifierField(req) ==
  IF Given(req, "employee_id") THEN "employee_id"
  ELSE IF Given(req, "email") THEN "email" ELSE "phone_number"

GenerateToken(r) == [employee_id |-> r.id, company_id |-> r.company]

Token(r) == [is |-> "token", token |-> GenerateToken(r)]
NotFound(field) == [is |-> "not_found", field |-> field]

(***************************************************************************)
(* The answers to a login.  A lookup that fails for any other reason is    *)
(* answered like one that finds nothing.                                   *)
(***************************************************************************)
Login(req) ==
  IF \A f \in Identifiers : ~Given(req, f) THEN {[is |-> "identifier_required"]}
  ELSE {IF r.password = req.password THEN Token(r) ELSE [is |-> "wrong_password"] :
          r \in Lookup(req)}
       \cup (IF Lookup(req) = {} \/ Faults THEN {NotFound(LoginIdentifierField(req))} ELSE {})

-----------------------------------------------------------------------------
(* What a request with a token is answered. *)

\* The row together with the company it refers to.
GetProfileByEmployeeID(i) == {[row |-> r, company |-> r.company] : r \in GetByEmployeeID(i)}

GetProfile(token) ==
  {[id |-> p.row.id, email |-> p.row.email, company |-> p.company] :
     p \in GetProfileByEmployeeID(token.employee_id)}

(***************************************************************************)
(* GetRegisteredSelfie: a row with an URL is taken to have a time as well, *)
(* and the handler panics on one that has none.                            *)
(***************************************************************************)
GetRegisteredSelfie(token) ==
  {IF r.selfie = NULL THEN "none" ELSE IF r.selfieAt THEN r.selfie ELSE "panic" :
     r \in GetByEmployeeID(token.employee_id)}

MaxAllowedAccuracyMeters == 50

\* The great-circle distance of two points, here of a line.
Haversine(p, q) == IF p > q THEN p - q ELSE q - p

LocationRequests == [place : Places, accuracy : Accuracies, mock : BOOLEAN]

\* SELECT * FROM companies WHERE id = ?, of which the office matters here.
GetByID(c) == Office[c]

\* ValidateLocation, of the company the token names.
ValidateLocation(token, req) ==
  LET office == GetByID(token.company_id) IN
    IF req.mock THEN "mock"
    ELSE IF req.accuracy > MaxAllowedAccuracyMeters THEN "inaccurate"
    ELSE IF office = NULL THEN "not_configured"
    ELSE IF Haversine(req.place, office.place) <= office.radius THEN "inside" ELSE "outside"

-----------------------------------------------------------------------------
(* Properties *)

\* An id nobody is ever given: numbers start at 1.
NoOne(r) == <<r.id[1], r.id[2], 0>>

\* Logins with the password of row r and some of these identifiers.
Logins(r, ids, emails) ==
  [employee_id : Maybe(ids), email : Maybe(emails), phone_number : {NULL, r.phone},
   password : {r.password}]

(***************************************************************************)
(* Whoever is registered can log in, with any of the three identifiers or  *)
(* several of them, and is given a token for the own account and for none  *)
(* other, whatever registrations have met or failed before.                *)
(***************************************************************************)
OwnLoginWorks ==
  \A r \in employees : \A req \in Logins(r, {r.id}, {r.email}) :
    (\E f \in Identifiers : Given(req, f)) =>
      {a \in Login(req) : a.is = "token"} = {Token(r)} /\ [is |-> "wrong_password"] \notin Login(req)

(***************************************************************************)
(* auth_handler.go:126, "the JSON field name of whichever identifier was   *)
(* provided": when nothing fails, the identifier that a refusal blames is  *)
(* one the request carries and no account has, also when it carries others *)
(* of accounts that exist.                                                 *)
(***************************************************************************)
RefusalBlamesCulprit ==
  \A r \in employees : \A req \in Logins(r, {r.id, NoOne(r)}, {r.email} \cup Disposable) :
    Lookup(req) = {} =>
      \A a \in Login(req) : a.is = "not_found" =>
        /\ Given(req, a.field)
        /\ \A w \in employees :
             req[a.field] # (CASE a.field = "employee_id" -> w.id
                               [] a.field = "email" -> w.email
                               [] a.field = "phone_number" -> w.phone)

(***************************************************************************)
(* A token opens the account it was given for: the profile is its own and  *)
(* shows the company that the employee id names, a registered selfie can   *)
(* always be read back, and a place is inside only near the office of that *)
(* company.                                                                *)
(***************************************************************************)
TokenOpensOwnAccount ==
  \A r \in employees :
    LET token == GenerateToken(r) IN
      /\ GetProfile(token) = {[id |-> r.id, email |-> r.email, company |-> r.id[1]]}
      /\ GetRegisteredSelfie(token) = {IF r.selfie = NULL THEN "none" ELSE r.selfie}
      /\ \A req \in LocationRequests :
           ValidateLocation(token, req) = "inside" =>
             \E d \in 0 .. Office[r.id[1]].radius :
               req.place \in {Office[r.id[1]].place - d, Office[r.id[1]].place + d}

(***************************************************************************)
(* An account is never taken away or given to somebody else: what tokens   *)
(* and the attendance tables refer to stays, with its e-mail, its phone    *)
(* and its password.                                                       *)
(***************************************************************************)
AccountsStay ==
  [][\A r \in employees : \E s \in employees' :
       [s EXCEPT !.selfie = r.selfie, !.selfieAt = r.selfieAt] = r]_vars
=============================================================================
