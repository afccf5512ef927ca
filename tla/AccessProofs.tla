----------------------------- MODULE AccessProofs -----------------------------
(***************************************************************************)
(* Proofs that accounts are kept, that registrations are told the truth    *)
(* and that every account can be reached by its employee, for any number   *)
(* of companies, addresses, handlers and years, with overlapping           *)
(* registrations and crashes.                                              *)
(***************************************************************************)
EXTENDS Access, RegistrationProofs

-----------------------------------------------------------------------------
(* What a step does to the rows. *)

\* Nothing of r but its selfie changes in s.
KeepsAccount(r, s) == [s EXCEPT !.selfie = r.selfie, !.selfieAt = r.selfieAt] = r

LEMMA SameRow == ASSUME NEW r \in EmployeeRows PROVE KeepsAccount(r, r)
  BY DEF KeepsAccount, EmployeeRows

LEMMA UpdatedRow ==
  ASSUME NEW r \in EmployeeRows, NEW url PROVE KeepsAccount(r, WithSelfie(r, url))
  BY DEF KeepsAccount, EmployeeRows, WithSelfie

\* A row with the URL of a selfie has its time.
SelfiesTimed == \A r \in employees : r.selfie # NULL => r.selfieAt

(* A step leaves the rows alone, adds one without a selfie or updates some. *)
LEMMA StepOnRows ==
  ASSUME IInv, Next
  PROVE  \/ UNCHANGED employees
         \/ \E h \in Handlers : employees' = employees \cup {NewEmployee(h)}
         \/ \E h \in Handlers : employees' =
              {IF r.id = loc[h].id THEN WithSelfie(r, loc[h].url) ELSE r : r \in employees}
  <1>1. ASSUME NEW h \in Handlers, RegisterStep(h)
        PROVE  UNCHANGED employees \/ employees' = employees \cup {NewEmployee(h)}
    BY <1>1 DEF RegisterStep, ReceiveRegister, RegisterCompany, RegisterCount, RegisterCreate,
                RegisterReply, tables
  <1>2. ASSUME NEW h \in Handlers, SelfieStep(h)
        PROVE  \/ UNCHANGED employees
               \/ employees' =
                    {IF r.id = loc[h].id THEN WithSelfie(r, loc[h].url) ELSE r : r \in employees}
    BY <1>2 DEF SelfieStep, ReceiveSelfie, SelfieRead, SelfieWrite, tables
  <1>3. ASSUME NEW h \in Handlers, Abort(h) PROVE UNCHANGED employees
    BY <1>3 DEF Abort, tables
  <1>4. NewYear => UNCHANGED employees
    BY DEF NewYear, tables
  <1> QED
    BY <1>1, <1>2, <1>3, <1>4 DEF Next

LEMMA StepKeepsAccounts ==
  ASSUME IInv, [Next]_vars
  PROVE  \A r \in employees : \E s \in employees' : KeepsAccount(r, s)
  <1> SUFFICES ASSUME NEW r \in employees PROVE \E s \in employees' : KeepsAccount(r, s)
    OBVIOUS
  <1>0. r \in EmployeeRows
    BY DEF IInv, TablesOK
  <1>1. CASE r \in employees'
    BY <1>0, <1>1, SameRow
  <1>2. CASE \E h \in Handlers : employees' =
               {IF w.id = loc[h].id THEN WithSelfie(w, loc[h].url) ELSE w : w \in employees}
    <2>1. PICK h \in Handlers : employees' =
               {IF w.id = loc[h].id THEN WithSelfie(w, loc[h].url) ELSE w : w \in employees}
      BY <1>2
    <2>2. WithSelfie(r, loc[h].url) \in employees' \/ r \in employees'
      BY <2>1
    <2> QED
      BY <1>0, <2>2, SameRow, UpdatedRow
  <1> QED
    BY <1>1, <1>2, StepOnRows DEF vars

LEMMA StepKeepsTimes == ASSUME IInv, SelfiesTimed, [Next]_vars PROVE SelfiesTimed'
  <1>1. CASE UNCHANGED employees
    BY <1>1 DEF SelfiesTimed
  <1>2. ASSUME NEW h \in Handlers, employees' = employees \cup {NewEmployee(h)}
        PROVE  SelfiesTimed'
    BY <1>2 DEF SelfiesTimed, NewEmployee
  <1>3. ASSUME NEW h \in Handlers, employees' =
               {IF r.id = loc[h].id THEN WithSelfie(r, loc[h].url) ELSE r : r \in employees}
        PROVE  SelfiesTimed'
    <2>1. \A r \in employees : WithSelfie(r, loc[h].url).selfieAt
      <3> SUFFICES ASSUME NEW r \in employees PROVE WithSelfie(r, loc[h].url).selfieAt
        OBVIOUS
      <3>1. r \in EmployeeRows
        BY DEF IInv, TablesOK
      <3> QED
        BY <3>1 DEF WithSelfie, EmployeeRows
    <2> QED
      BY <1>3, <2>1 DEF SelfiesTimed
  <1> QED
    BY <1>1, <1>2, <1>3, StepOnRows DEF vars

-----------------------------------------------------------------------------
(* Theorems. *)

(* No step takes an account away or gives it to somebody else. *)
THEOREM AccountsAreKept == Spec => AccountsStay
  <1>1. IInv /\ [Next]_vars =>
          [\A r \in employees : \E s \in employees' :
             [s EXCEPT !.selfie = r.selfie, !.selfieAt = r.selfieAt] = r]_vars
    BY StepKeepsAccounts DEF KeepsAccount
  <1> QED
    BY <1>1, Invariance, PTL DEF Spec, AccountsStay

(* A row that stays keeps the columns that a registration is told of. *)
LEMMA KeptColumns ==
  ASSUME IInv, [Next]_vars, NEW r \in employees
  PROVE  \E s \in employees' : /\ s.id = r.id /\ s.company = r.company
                               /\ s.email = r.email /\ s.phone = r.phone
                               /\ s.password = r.password
  <1>1. PICK s \in employees' : KeepsAccount(r, s)
    BY StepKeepsAccounts
  <1>2. employees' \subseteq EmployeeRows /\ r \in EmployeeRows
    BY StepInv DEF IInv, TablesOK
  <1>3. s \in EmployeeRows
    BY <1>2
  <1> QED
    BY <1>1, <1>3 DEF KeepsAccount, EmployeeRows

\* What the answer of a request r says of the rows es.
AnswerHolds(r, es) ==
  /\ r.answer # "failed"
  /\ r.answer = "created" =>
       \E e \in es : /\ e.id = r.id /\ e.company = r.company /\ e.email = r.email
                     /\ e.phone = r.phone /\ e.password = r.password
  /\ r.answer = "email_taken" => \E e \in es : e.email = r.email
  /\ r.answer = "phone_taken" => \E e \in es : e.phone = r.phone

\* Both requests were told that their account was created.
BothCreated(r, s) == r.answer = "created" /\ s.answer = "created"

LEMMA AnswerParts ==
  RegisterAnswerIsTrue <=>
    /\ \A h \in Handlers : pc[h] = "rg_reply" => AnswerHolds(loc[h], employees)
    /\ \A g, h \in Handlers :
         /\ g # h /\ pc[g] = "rg_reply" /\ pc[h] = "rg_reply" /\ BothCreated(loc[g], loc[h])
         => loc[g].email # loc[h].email /\ loc[g].phone # loc[h].phone
  BY DEF RegisterAnswerIsTrue, AnswerHolds, BothCreated

(* An answer that is under way stays true. *)
LEMMA AnswerLasts ==
  ASSUME IInv, [Next]_vars, NEW r, AnswerHolds(r, employees)
  PROVE  AnswerHolds(r, employees')
  <1>1. ASSUME r.answer = "created"
        PROVE  \E e \in employees' : /\ e.id = r.id /\ e.company = r.company
                                     /\ e.email = r.email /\ e.phone = r.phone
                                     /\ e.password = r.password
    BY <1>1, KeptColumns DEF AnswerHolds
  <1>2. ASSUME r.answer = "email_taken" PROVE \E e \in employees' : e.email = r.email
    BY <1>2, KeptColumns DEF AnswerHolds
  <1>3. ASSUME r.answer = "phone_taken" PROVE \E e \in employees' : e.phone = r.phone
    BY <1>3, KeptColumns DEF AnswerHolds
  <1> QED
    BY <1>1, <1>2, <1>3 DEF AnswerHolds

(* No handler gets an answer to send. *)
LEMMA NoNewAnswer ==
  ASSUME IInv, [Next]_vars, RegisterAnswerIsTrue,
         \A g \in Handlers : pc'[g] = "rg_reply" => pc[g] = "rg_reply" /\ loc'[g] = loc[g]
  PROVE  RegisterAnswerIsTrue'
  <1>1. \A g \in Handlers : pc'[g] = "rg_reply" => AnswerHolds(loc'[g], employees')
    BY AnswerParts, AnswerLasts
  <1>2. \A g, h \in Handlers :
          /\ g # h /\ pc'[g] = "rg_reply" /\ pc'[h] = "rg_reply" /\ BothCreated(loc'[g], loc'[h])
          => loc'[g].email # loc'[h].email /\ loc'[g].phone # loc'[h].phone
    BY AnswerParts
  <1> QED
    BY <1>1, <1>2 DEF RegisterAnswerIsTrue, AnswerHolds, BothCreated

(***************************************************************************)
(* The insertion gives an answer that is true.  Whoever else was told of a *)
(* new account has a row by now, so that the constraints let nobody else   *)
(* create one for the same address or number.                              *)
(***************************************************************************)
LEMMA CreateAnswers ==
  ASSUME IInv, [Next]_vars, RegisterAnswerIsTrue, NEW h \in Handlers, RegisterCreate(h)
  PROVE  RegisterAnswerIsTrue'
  <1>1. PICK a \in {"created", "email_taken", "phone_taken"} :
          /\ GotoWith(h, "rg_reply", [loc[h] EXCEPT !.answer = a])
          /\ a = "created" => Violated(h) = {} /\ employees' = employees \cup {NewEmployee(h)}
          /\ a # "created" => employees' = employees
          /\ a = "email_taken" => "email" \in Violated(h)
          /\ a = "phone_taken" => "phone" \in Violated(h)
    BY AnswerOK
  <1> DEFINE r == [loc[h] EXCEPT !.answer = a]
  <1>2. loc[h] \in RegisterRequests
    BY DEF RegisterCreate, At, IInv, LocalsOK, LocalOK
  <1>3. /\ r.answer = a /\ r.id = loc[h].id /\ r.company = loc[h].company
        /\ r.email = loc[h].email /\ r.phone = loc[h].phone /\ r.password = loc[h].password
    BY <1>2 DEF RegisterRequests
  <1>4. /\ pc'[h] = "rg_reply" /\ loc'[h] = r
        /\ \A g \in Handlers \ {h} : pc'[g] = pc[g] /\ loc'[g] = loc[g]
    BY <1>1 DEF IInv, LocalsOK, GotoWith
  <1> HIDE DEF r
  <1>5. AnswerHolds(r, employees')
    <2>1. CASE a = "created"
      <3>1. NewEmployee(h) \in employees'
        BY <1>1, <2>1
      <3>2. /\ NewEmployee(h).id = r.id /\ NewEmployee(h).company = r.company
            /\ NewEmployee(h).email = r.email /\ NewEmployee(h).phone = r.phone
            /\ NewEmployee(h).password = r.password
        BY <1>3 DEF NewEmployee
      <3> QED
        BY <1>3, <2>1, <3>1, <3>2 DEF AnswerHolds
    <2>2. CASE a # "created"
      BY <1>1, <1>3, <2>2, ViolatedIsTaken DEF AnswerHolds
    <2> QED
      BY <2>1, <2>2
  <1>6. ASSUME NEW g \in Handlers \ {h}, pc[g] = "rg_reply", BothCreated(r, loc[g])
        PROVE  loc[g].email # r.email /\ loc[g].phone # r.phone
    <2>1. Violated(h) = {}
      BY <1>1, <1>3, <1>6 DEF BothCreated
    <2>2. \E e \in employees : e.email = loc[g].email /\ e.phone = loc[g].phone
      BY <1>6, AnswerParts DEF AnswerHolds, BothCreated
    <2> QED
      BY <1>3, <2>1, <2>2, ViolatedIsTaken
  <1>7. \A g \in Handlers : pc'[g] = "rg_reply" => AnswerHolds(loc'[g], employees')
    BY <1>4, <1>5, AnswerParts, AnswerLasts
  <1>8. \A f, g \in Handlers :
          /\ f # g /\ pc'[f] = "rg_reply" /\ pc'[g] = "rg_reply" /\ BothCreated(loc'[f], loc'[g])
          => loc'[f].email # loc'[g].email /\ loc'[f].phone # loc'[g].phone
    BY <1>4, <1>6, AnswerParts DEF BothCreated
  <1> QED
    BY <1>7, <1>8 DEF RegisterAnswerIsTrue, AnswerHolds, BothCreated

LEMMA StepAnswers ==
  ASSUME IInv, [Next]_vars, RegisterAnswerIsTrue PROVE RegisterAnswerIsTrue'
  <1>1. ASSUME NEW h \in Handlers,
               \/ ReceiveRegister(h) \/ RegisterCompany(h) \/ RegisterCount(h)
               \/ RegisterReply(h) \/ SelfieStep(h) \/ Abort(h)
        PROVE  RegisterAnswerIsTrue'
    <2>1. \E p, r : p # "rg_reply" /\ GotoWith(h, p, r)
      BY <1>1 DEF ReceiveRegister, RegisterCompany, RegisterCount, RegisterReply, SelfieStep,
                  ReceiveSelfie, SelfieRead, SelfieWrite, Abort, Respond
    <2>2. \A g \in Handlers : pc'[g] = "rg_reply" => pc[g] = "rg_reply" /\ loc'[g] = loc[g]
      BY <2>1 DEF IInv, LocalsOK, GotoWith
    <2> QED
      BY <2>2, NoNewAnswer
  <1>2. CASE NewYear \/ UNCHANGED vars
    BY <1>2, NoNewAnswer DEF NewYear, vars
  <1> QED
    BY <1>1, <1>2, CreateAnswers DEF Next, RegisterStep

(***************************************************************************)
(* Whatever a registration is told is true when its answer leaves, however *)
(* many registrations overlap, die or are sent again, and none is refused  *)
(* for its id.                                                             *)
(***************************************************************************)
THEOREM RegisterAnswersAreTrue == Spec => []RegisterAnswerIsTrue
  <1>1. Init => RegisterAnswerIsTrue
    BY DEF Init, RegisterAnswerIsTrue
  <1> QED
    BY <1>1, StepAnswers, Invariance, PTL DEF Spec

(* A lookup by identifiers of one account finds that account and no other. *)
LEMMA LookupFindsOwn ==
  ASSUME OneAccountPerId, NEW r \in employees, NEW req \in Logins(r, {r.id}, {r.email}),
         \E f \in Identifiers : Given(req, f)
  PROVE  Lookup(req) = {r}
  <1>1. /\ req.employee_id \in {r.id, NULL} /\ req.email \in {r.email, NULL}
        /\ req.phone_number \in {r.phone, NULL}
    BY DEF Logins, Maybe
  <1>2. GetByEmployeeID(r.id) = {r} /\ GetByEmail(r.email) = {r} /\ GetByPhoneNumber(r.phone) = {r}
    BY DEF OneAccountPerId, GetByEmployeeID, GetByEmail, GetByPhoneNumber
  <1>3. \/ req["employee_id"] # NULL \/ req["email"] # NULL \/ req["phone_number"] # NULL
    BY DEF Identifiers, Given
  <1> QED
    BY <1>1, <1>2, <1>3 DEF Lookup, Given

(***************************************************************************)
(* Whoever is registered can log in to the own account and to none other,  *)
(* with any of the identifiers.                                            *)
(***************************************************************************)
THEOREM EveryoneCanLogIn == Spec => []OwnLoginWorks
  <1>1. OneAccountPerId => OwnLoginWorks
    <2> SUFFICES ASSUME OneAccountPerId, NEW r \in employees,
                        NEW req \in Logins(r, {r.id}, {r.email}),
                        \E f \in Identifiers : Given(req, f)
                 PROVE  /\ {a \in Login(req) : a.is = "token"} = {Token(r)}
                        /\ [is |-> "wrong_password"] \notin Login(req)
      BY DEF OwnLoginWorks
    <2> DEFINE refusal == NotFound(LoginIdentifierField(req))
    <2>1. Lookup(req) = {r}
      BY LookupFindsOwn
    <2>2. req.password = r.password
      BY DEF Logins
    <2>3. Token(r) \in Login(req) /\ \A a \in Login(req) : a \in {Token(r), refusal}
      BY <2>1, <2>2 DEF Login
    <2>4. Token(r).is = "token" /\ refusal.is = "not_found"
      BY DEF Token, NotFound
    <2>5. [is |-> "wrong_password"].is = "wrong_password"
      OBVIOUS
    <2> HIDE DEF refusal
    <2>6. [is |-> "wrong_password"] # Token(r) /\ [is |-> "wrong_password"] # refusal
      BY <2>4, <2>5
    <2> QED
      BY <2>3, <2>4, <2>6
  <1> QED
    BY <1>1, AccountsAreUnique, PTL

(***************************************************************************)
(* The identifier a refused login blames is one that it carries and no     *)
(* account has: the two switches agree.                                    *)
(***************************************************************************)
THEOREM RefusalsAreRight == Spec => []RefusalBlamesCulprit
  <1>1. RefusalBlamesCulprit
    <2> SUFFICES ASSUME NEW r \in employees,
                        NEW req \in Logins(r, {r.id, NoOne(r)}, {r.email} \cup Disposable),
                        Lookup(req) = {}, NEW a \in Login(req), a.is = "not_found",
                        NEW w \in employees
                 PROVE  /\ Given(req, a.field)
                        /\ req[a.field] # (CASE a.field = "employee_id" -> w.id
                                             [] a.field = "email" -> w.email
                                             [] a.field = "phone_number" -> w.phone)
      BY DEF RefusalBlamesCulprit
    <2> DEFINE field == LoginIdentifierField(req)
    <2>1. (\E f \in Identifiers : Given(req, f)) /\ a.field = field
      <3>1. [is |-> "identifier_required"].is = "identifier_required"
            /\ NotFound(field).is = "not_found" /\ NotFound(field).field = field
        BY DEF NotFound
      <3> HIDE DEF field
      <3>2. Login(req) \subseteq {NotFound(field)} \/ Login(req) = {[is |-> "identifier_required"]}
        BY DEF Login, field
      <3>3. a = NotFound(field)
        BY <3>1, <3>2
      <3>4. \E f \in Identifiers : Given(req, f)
        BY <3>1, <3>3 DEF Login
      <3> QED
        BY <3>1, <3>3, <3>4
    <2>2. CASE Given(req, "employee_id")
      BY <2>1, <2>2 DEF LoginIdentifierField, Lookup, GetByEmployeeID, Given
    <2>3. CASE ~Given(req, "employee_id") /\ Given(req, "email")
      BY <2>1, <2>3 DEF LoginIdentifierField, Lookup, GetByEmail, Given
    <2>4. CASE ~Given(req, "employee_id") /\ ~Given(req, "email")
      BY <2>1, <2>4 DEF LoginIdentifierField, Lookup, GetByPhoneNumber, Given, Identifiers
    <2> QED
      BY <2>2, <2>3, <2>4
  <1> QED
    BY <1>1, PTL

LEMMA InsideIsNear ==
  ASSUME NEW r \in EmployeeRows, r.id[1] = r.company, NEW req \in LocationRequests,
         ValidateLocation(GenerateToken(r), req) = "inside"
  PROVE  \E d \in 0 .. Office[r.id[1]].radius :
           req.place \in {Office[r.id[1]].place - d, Office[r.id[1]].place + d}
  <1> DEFINE office == Office[r.id[1]]
  <1>1. r.id[1] \in Companies /\ req.place \in Int
    BY AccessAssumption DEF EmployeeRows, Ids, LocationRequests
  <1>2. office # NULL /\ Haversine(req.place, office.place) <= office.radius
    BY DEF ValidateLocation, GenerateToken, GetByID
  <1>3. office.place \in Int /\ office.radius \in Nat
    BY <1>1, <1>2, AccessAssumption DEF Maybe
  <1> HIDE DEF office
  <1>4. \E d \in 0 .. office.radius : req.place \in {office.place - d, office.place + d}
    <2> DEFINE d == Haversine(req.place, office.place)
    <2>1. d \in 0 .. office.radius /\ req.place \in {office.place - d, office.place + d}
      BY <1>1, <1>2, <1>3 DEF Haversine
    <2> HIDE DEF d
    <2> QED
      BY <2>1
  <1> QED
    BY <1>4 DEF office

(***************************************************************************)
(* A token opens the account it was given for: its profile, its selfie and *)
(* the office of its company.                                              *)
(***************************************************************************)
THEOREM TokensOpenOwnAccounts == Spec => []TokenOpensOwnAccount
  <1>1. Init => SelfiesTimed
    BY DEF Init, SelfiesTimed
  <1>2. IInv /\ SelfiesTimed => TokenOpensOwnAccount
    <2> SUFFICES ASSUME IInv, SelfiesTimed, NEW r \in employees
                 PROVE  LET token == GenerateToken(r) IN
                   /\ GetProfile(token) = {[id |-> r.id, email |-> r.email, company |-> r.id[1]]}
                   /\ GetRegisteredSelfie(token) = {IF r.selfie = NULL THEN "none" ELSE r.selfie}
                   /\ \A req \in LocationRequests :
                        ValidateLocation(token, req) = "inside" =>
                          \E d \in 0 .. Office[r.id[1]].radius :
                            req.place \in {Office[r.id[1]].place - d, Office[r.id[1]].place + d}
      BY DEF TokenOpensOwnAccount
    <2>1. GenerateToken(r).employee_id = r.id /\ GetByEmployeeID(r.id) = {r}
      BY DEF IInv, OneAccountPerId, GenerateToken, GetByEmployeeID
    <2>2. GetProfile(GenerateToken(r)) = {[id |-> r.id, email |-> r.email, company |-> r.id[1]]}
      <3> DEFINE p == [row |-> r, company |-> r.company]
      <3>1. GetProfileByEmployeeID(r.id) = {p}
        BY <2>1 DEF GetProfileByEmployeeID
      <3>2. p.row = r /\ p.company = r.id[1]
        BY DEF IInv, TablesOK
      <3> HIDE DEF p
      <3>3. GetProfile(GenerateToken(r)) =
              {[id |-> q.row.id, email |-> q.row.email, company |-> q.company] : q \in {p}}
        BY <2>1, <3>1 DEF GetProfile
      <3> QED
        BY <3>2, <3>3
    <2>3. GetRegisteredSelfie(GenerateToken(r)) = {IF r.selfie = NULL THEN "none" ELSE r.selfie}
      BY <2>1 DEF GetRegisteredSelfie, SelfiesTimed
    <2>4. r \in EmployeeRows /\ r.id[1] = r.company
      BY DEF IInv, TablesOK
    <2> QED
      BY <2>2, <2>3, <2>4, InsideIsNear
  <1>3. Spec => []SelfiesTimed
    BY <1>1, StepKeepsTimes, Invariance, PTL DEF Spec
  <1> QED
    BY <1>2, <1>3, Invariance, PTL
=============================================================================
