-------------------------- MODULE RegistrationProofs --------------------------
(***************************************************************************)
(* Proofs, for any number of companies, addresses, handlers and years,     *)
(* with overlapping requests and crashes, that employee ids never collide. *)
(***************************************************************************)
EXTENDS Registration, TLAPS

-----------------------------------------------------------------------------
(* The inductive invariant. *)

\* A handler at label p with locals r.
LocalOK(p, r) ==
  /\ p \in Labels
  /\ p = "idle" => r = NULL
  /\ p \in {"rg_company", "rg_count", "rg_create", "rg_reply"} => r \in RegisterRequests
  /\ p = "rg_count" => r.company \in Companies /\ r.year \in Years
  /\ p = "rg_create" => r.id \in Ids /\ r.id[1] = r.company
  /\ p \in {"sf_read", "sf_write"} => r \in SelfieRequests

LocalsOK ==
  /\ pc \in [Handlers -> Labels]
  /\ loc \in [Handlers -> Maybe(Requests)]
  /\ \A h \in Handlers : LocalOK(pc[h], loc[h])

\* An account refers to the company that its id names.
TablesOK ==
  /\ year \in Years
  /\ counter \in [Companies \X Years -> Nat]
  /\ employees \subseteq EmployeeRows
  /\ \A r \in employees : r.id[1] = r.company

\* No two accounts share an id, an e-mail or a phone.
OneAccountPerId ==
  \A r, s \in employees : r.id = s.id \/ r.email = s.email \/ r.phone = s.phone => r = s

\* The number of id i has been drawn: the counter of its company and year has reached it.
Drawn(i) == i[3] <= counter[<<i[1], i[2]>>]

NumbersDrawn ==
  /\ \A r \in employees : Drawn(r.id)
  /\ \A h \in Handlers : pc[h] = "rg_create" => Drawn(loc[h].id)

IInv == TablesOK /\ LocalsOK /\ NumbersDrawn /\ NoIdCollision /\ OneAccountPerId

-----------------------------------------------------------------------------
(* A handler moves. *)

LEMMA LocalIsRequest ==
  ASSUME NEW p, NEW r, LocalOK(p, r) PROVE p \in Labels /\ r \in Maybe(Requests)
  BY DEF LocalOK, Labels, Maybe, Requests

LEMMA MoveLocals ==
  ASSUME LocalsOK, NEW h \in Handlers, NEW p, NEW r, GotoWith(h, p, r), LocalOK(p, r)
  PROVE  /\ LocalsOK'
         /\ pc'[h] = p /\ loc'[h] = r
         /\ \A g \in Handlers \ {h} : pc'[g] = pc[g] /\ loc'[g] = loc[g]
  <1>1. p \in Labels /\ r \in Maybe(Requests)
    BY LocalIsRequest
  <1>2. /\ pc' \in [Handlers -> Labels] /\ loc' \in [Handlers -> Maybe(Requests)]
        /\ pc'[h] = p /\ loc'[h] = r
        /\ \A g \in Handlers \ {h} : pc'[g] = pc[g] /\ loc'[g] = loc[g]
    BY <1>1 DEF LocalsOK, GotoWith
  <1>3. \A g \in Handlers : LocalOK(pc'[g], loc'[g])
    BY <1>2 DEF LocalsOK
  <1> QED
    BY <1>2, <1>3 DEF LocalsOK, LocalOK

(* A step that writes no table and draws no number keeps the invariant. *)
LEMMA MoveInv ==
  ASSUME IInv, NEW h \in Handlers, NEW p, NEW r, GotoWith(h, p, r), LocalOK(p, r),
         p # "rg_create", UNCHANGED <<year, tables>>
  PROVE  IInv'
  <1>1. LocalsOK' /\ pc'[h] = p /\ \A g \in Handlers \ {h} : pc'[g] = pc[g] /\ loc'[g] = loc[g]
    BY MoveLocals DEF IInv
  <1>2. \A g \in Handlers : pc'[g] = "rg_create" => pc[g] = "rg_create" /\ loc'[g] = loc[g]
    BY <1>1
  <1>3. TablesOK' /\ OneAccountPerId'
    BY DEF IInv, TablesOK, OneAccountPerId, tables
  <1>4. NumbersDrawn'
    BY <1>2 DEF IInv, NumbersDrawn, Drawn, tables
  <1>5. NoIdCollision'
    BY <1>2 DEF IInv, NoIdCollision, tables
  <1> QED
    BY <1>1, <1>3, <1>4, <1>5 DEF IInv

LEMMA IdleOK == LocalOK("idle", NULL)
  BY DEF LocalOK, Labels

LEMMA RespondInv ==
  ASSUME IInv, NEW h \in Handlers, Respond(h), UNCHANGED <<year, tables>> PROVE IInv'
  BY MoveInv, IdleOK DEF Respond

-----------------------------------------------------------------------------
(* The actions. *)

LEMMA InitInv == Init => IInv
  BY DEF Init, IInv, TablesOK, LocalsOK, LocalOK, Labels, Maybe, NumbersDrawn, NoIdCollision,
         OneAccountPerId

LEMMA ReceiveRegisterInv == ASSUME IInv, NEW h \in Handlers, ReceiveRegister(h) PROVE IInv'
  <1>1. PICK c \in Companies \cup UnknownCodes, e \in Emails, p \in Phones,
               w \in Passwords :
          /\ GotoWith(h, "rg_company", [op |-> "register", company |-> c, email |-> e,
                                        phone |-> p, password |-> w, year |-> NULL,
                                        id |-> NULL, answer |-> NULL])
          /\ UNCHANGED <<year, tables>>
    BY DEF ReceiveRegister
  <1>2. LocalOK("rg_company", [op |-> "register", company |-> c, email |-> e,
                               phone |-> p, password |-> w, year |-> NULL, id |-> NULL,
                               answer |-> NULL])
    BY DEF LocalOK, Labels, RegisterRequests, Maybe
  <1> QED
    BY <1>1, <1>2, MoveInv

LEMMA RegisterCompanyInv == ASSUME IInv, NEW h \in Handlers, RegisterCompany(h) PROVE IInv'
  <1>1. UNCHANGED <<year, tables>> /\ pc[h] = "rg_company"
    BY DEF RegisterCompany, At
  <1>2. CASE Respond(h)
    BY <1>1, <1>2, RespondInv
  <1>3. CASE /\ loc[h].company \in Companies
             /\ GotoWith(h, "rg_count", [loc[h] EXCEPT !.year = year])
    <2>1. loc[h] \in RegisterRequests /\ year \in Years
      BY <1>1 DEF IInv, TablesOK, LocalsOK, LocalOK
    <2>2. LocalOK("rg_count", [loc[h] EXCEPT !.year = year])
      BY <1>3, <2>1 DEF LocalOK, Labels, RegisterRequests, Maybe
    <2> QED
      BY <1>1, <1>3, <2>2, MoveInv
  <1> QED
    BY <1>2, <1>3 DEF RegisterCompany, GetByCode

(***************************************************************************)
(* The upsert draws a number above every one that is in use for its        *)
(* company and year, and leaves the counters of the others alone.          *)
(***************************************************************************)
LEMMA RegisterCountInv == ASSUME IInv, NEW h \in Handlers, RegisterCount(h) PROVE IInv'
  <1> DEFINE c == loc[h].company
             y == loc[h].year
             n == counter[<<c, y>>] + 1
             r == [loc[h] EXCEPT !.id = <<c, y, n>>]
  <1>1. /\ pc[h] = "rg_count" /\ year' = year /\ employees' = employees
        /\ counter' = [counter EXCEPT ![<<c, y>>] = n]
        /\ GotoWith(h, "rg_create", r)
    BY DEF RegisterCount, At
  <1>2. loc[h] \in RegisterRequests /\ c \in Companies /\ y \in Years
    BY <1>1 DEF IInv, LocalsOK, LocalOK
  <1>3. <<c, y>> \in Companies \X Years /\ n \in Nat /\ <<c, y, n>> \in Ids
    BY <1>2 DEF IInv, TablesOK, Ids
  <1>4. r.id = <<c, y, n>> /\ r.company = c /\ r \in RegisterRequests
    BY <1>2, <1>3 DEF RegisterRequests, Maybe
  <1>5. LocalOK("rg_create", r)
    BY <1>3, <1>4 DEF LocalOK, Labels
  <1>6. /\ LocalsOK' /\ pc'[h] = "rg_create" /\ loc'[h] = r
        /\ \A g \in Handlers \ {h} : pc'[g] = pc[g] /\ loc'[g] = loc[g]
    BY <1>1, <1>5, MoveLocals DEF IInv
  <1>7. TablesOK' /\ OneAccountPerId'
    BY <1>1, <1>3 DEF IInv, TablesOK, OneAccountPerId
  <1>8. \A i \in Ids : Drawn(i) => i[3] <= counter'[<<i[1], i[2]>>] /\ i # <<c, y, n>>
    <2> SUFFICES ASSUME NEW i \in Ids, Drawn(i)
                 PROVE  i[3] <= counter'[<<i[1], i[2]>>] /\ i # <<c, y, n>>
      OBVIOUS
    <2>1. /\ <<i[1], i[2]>> \in Companies \X Years /\ i[3] \in Nat
          /\ i[3] <= counter[<<i[1], i[2]>>]
      BY DEF Ids, Drawn
    <2>2. counter[<<i[1], i[2]>>] \in Nat /\ counter[<<c, y>>] \in Nat
      BY <1>3, <2>1 DEF IInv, TablesOK
    <2>3. counter'[<<i[1], i[2]>>] >= counter[<<i[1], i[2]>>] /\ counter'[<<i[1], i[2]>>] \in Nat
      BY <1>1, <1>3, <2>1, <2>2 DEF IInv, TablesOK
    <2>4. i # <<c, y, n>>
      BY <2>1, <2>2
    <2> QED
      BY <2>1, <2>2, <2>3, <2>4 DEF Drawn
  <1>9. n <= counter'[<<c, y>>]
    BY <1>1, <1>3 DEF IInv, TablesOK
  <1>10. /\ \A e \in employees : e.id \in Ids /\ Drawn(e.id)
         /\ \A g \in Handlers : pc[g] = "rg_create" => loc[g].id \in Ids /\ Drawn(loc[g].id)
    BY DEF IInv, TablesOK, EmployeeRows, NumbersDrawn, LocalsOK, LocalOK
  <1> HIDE DEF c, y, n, r
  <1>11. NumbersDrawn'
    <2>1. \A e \in employees : e.id[3] <= counter'[<<e.id[1], e.id[2]>>]
      BY <1>8, <1>10
    <2>2. ASSUME NEW g \in Handlers, pc'[g] = "rg_create"
          PROVE  loc'[g].id[3] <= counter'[<<loc'[g].id[1], loc'[g].id[2]>>]
      <3>1. CASE g = h
        BY <1>4, <1>6, <1>9, <3>1
      <3>2. CASE g # h
        <4>1. loc'[g] = loc[g] /\ pc[g] = "rg_create"
          BY <1>6, <2>2, <3>2
        <4>2. loc[g].id[3] <= counter'[<<loc[g].id[1], loc[g].id[2]>>]
          BY <1>8, <1>10, <4>1 DEF Drawn
        <4> QED
          BY <4>1, <4>2
      <3> QED
        BY <3>1, <3>2
    <2> QED
      BY <1>1, <2>1, <2>2 DEF NumbersDrawn, Drawn
  <1>12. NoIdCollision'
    <2>1. \A e \in employees : e.id # <<c, y, n>>
      BY <1>8, <1>10
    <2>2. \A g \in Handlers \ {h} : pc'[g] = "rg_create" => loc'[g].id # <<c, y, n>>
      BY <1>6, <1>8, <1>10
    <2> QED
      BY <1>1, <1>4, <1>6, <2>1, <2>2 DEF IInv, NoIdCollision
  <1> QED
    BY <1>6, <1>7, <1>11, <1>12 DEF IInv

(* The violated constraints are those on values that some row has. *)
LEMMA ViolatedIsTaken ==
  ASSUME NEW h \in Handlers
  PROVE  /\ Violated(h) \subseteq {"id", "email", "phone"}
         /\ "id" \in Violated(h) <=> \E r \in employees : r.id = loc[h].id
         /\ "email" \in Violated(h) <=> \E r \in employees : r.email = loc[h].email
         /\ "phone" \in Violated(h) <=> \E r \in employees : r.phone = loc[h].phone
  BY DEF Violated

(* The answer to an insertion: no number that was drawn collides, so that none is "failed". *)
LEMMA AnswerOK ==
  ASSUME IInv, NEW h \in Handlers, RegisterCreate(h)
  PROVE  \E a \in {"created", "email_taken", "phone_taken"} :
           /\ GotoWith(h, "rg_reply", [loc[h] EXCEPT !.answer = a])
           /\ LocalOK("rg_reply", [loc[h] EXCEPT !.answer = a])
           /\ a = "created" => /\ Violated(h) = {}
                               /\ employees' = employees \cup {NewEmployee(h)}
           /\ a # "created" => employees' = employees
           /\ a = "email_taken" => "email" \in Violated(h)
           /\ a = "phone_taken" => "phone" \in Violated(h)
  <1>1. pc[h] = "rg_create" /\ loc[h] \in RegisterRequests
    BY DEF RegisterCreate, At, IInv, LocalsOK, LocalOK
  <1>2. ASSUME NEW a \in {"created", "email_taken", "phone_taken"}
        PROVE  LocalOK("rg_reply", [loc[h] EXCEPT !.answer = a])
    BY <1>1 DEF LocalOK, Labels, RegisterRequests, RegisterAnswers, Maybe
  <1>3. CASE /\ Violated(h) = {} /\ employees' = employees \cup {NewEmployee(h)}
             /\ Answer(h, "created")
    BY <1>2, <1>3 DEF Answer
  <1>4. ASSUME NEW c \in Violated(h), Answer(h, MapCreateEmployeeError(c)),
               UNCHANGED employees
        PROVE  \E a \in {"email_taken", "phone_taken"} :
                 /\ GotoWith(h, "rg_reply", [loc[h] EXCEPT !.answer = a])
                 /\ a = "email_taken" => "email" \in Violated(h)
                 /\ a = "phone_taken" => "phone" \in Violated(h)
    <2>1. c \in {"email", "phone"}
      BY <1>1, ViolatedIsTaken DEF IInv, NoIdCollision
    <2> QED
      BY <1>4, <2>1 DEF Answer, MapCreateEmployeeError
  <1>5. CASE \E c \in Violated(h) :
               Answer(h, MapCreateEmployeeError(c)) /\ UNCHANGED employees
    <2>1. PICK a \in {"email_taken", "phone_taken"} :
            /\ GotoWith(h, "rg_reply", [loc[h] EXCEPT !.answer = a])
            /\ a = "email_taken" => "email" \in Violated(h)
            /\ a = "phone_taken" => "phone" \in Violated(h)
      BY <1>4, <1>5
    <2>2. employees' = employees
      BY <1>5
    <2>3. a \in {"created", "email_taken", "phone_taken"} /\ a # "created"
      OBVIOUS
    <2> QED
      BY <1>2, <2>1, <2>2, <2>3
  <1> QED
    BY <1>3, <1>5 DEF RegisterCreate

LEMMA RegisterCreateInv == ASSUME IInv, NEW h \in Handlers, RegisterCreate(h) PROVE IInv'
  <1>1. /\ pc[h] = "rg_create" /\ year' = year /\ counter' = counter
    BY DEF RegisterCreate, At
  <1>2. PICK p, r :
          /\ p = "rg_reply" /\ GotoWith(h, p, r) /\ LocalOK(p, r)
          /\ \/ employees' = employees
             \/ Violated(h) = {} /\ employees' = employees \cup {NewEmployee(h)}
    BY AnswerOK
  <1>3. CASE employees' = employees
    BY <1>1, <1>2, <1>3, MoveInv DEF tables
  <1>4. CASE Violated(h) = {} /\ employees' = employees \cup {NewEmployee(h)}
    <2>1. loc[h] \in RegisterRequests /\ loc[h].id \in Ids /\ loc[h].id[1] = loc[h].company
      BY <1>1 DEF IInv, LocalsOK, LocalOK
    <2>2. /\ NewEmployee(h) \in EmployeeRows /\ NewEmployee(h).id = loc[h].id
          /\ NewEmployee(h).email = loc[h].email /\ NewEmployee(h).phone = loc[h].phone
          /\ NewEmployee(h).company = loc[h].company
      <3>1. loc[h].company \in Companies
        BY <2>1 DEF Ids
      <3> QED
        BY <2>1, <3>1 DEF NewEmployee, EmployeeRows, RegisterRequests, Maybe
    <2>3. /\ LocalsOK' /\ pc'[h] = "rg_reply"
          /\ \A g \in Handlers \ {h} : pc'[g] = pc[g] /\ loc'[g] = loc[g]
      BY <1>2, MoveLocals DEF IInv
    <2>4. TablesOK'
      BY <1>1, <1>4, <2>1, <2>2 DEF IInv, TablesOK
    <2>5. OneAccountPerId'
      BY <1>4, <2>2, ViolatedIsTaken DEF IInv, OneAccountPerId
    <2>6. NumbersDrawn'
      BY <1>1, <1>4, <2>2, <2>3 DEF IInv, NumbersDrawn, Drawn
    <2>7. NoIdCollision'
      BY <1>1, <1>4, <2>2, <2>3 DEF IInv, NoIdCollision
    <2> QED
      BY <2>3, <2>4, <2>5, <2>6, <2>7 DEF IInv
  <1> QED
    BY <1>2, <1>3, <1>4

LEMMA RegisterReplyInv == ASSUME IInv, NEW h \in Handlers, RegisterReply(h) PROVE IInv'
  BY RespondInv DEF RegisterReply, At

LEMMA ReceiveSelfieInv == ASSUME IInv, NEW h \in Handlers, ReceiveSelfie(h) PROVE IInv'
  <1>1. PICK e \in employees, u \in Selfies :
          /\ GotoWith(h, "sf_read", [op |-> "selfie", id |-> e.id, url |-> u])
          /\ UNCHANGED <<year, tables>>
    BY DEF ReceiveSelfie
  <1>2. e.id \in Ids
    BY DEF IInv, TablesOK, EmployeeRows
  <1>3. LocalOK("sf_read", [op |-> "selfie", id |-> e.id, url |-> u])
    BY <1>2 DEF LocalOK, Labels, SelfieRequests
  <1> QED
    BY <1>1, <1>3, MoveInv

LEMMA SelfieReadInv == ASSUME IInv, NEW h \in Handlers, SelfieRead(h) PROVE IInv'
  <1>1. pc[h] = "sf_read" /\ UNCHANGED <<year, tables>>
    BY DEF SelfieRead, At
  <1>2. LocalOK("sf_write", loc[h])
    BY <1>1 DEF IInv, LocalsOK, LocalOK, Labels
  <1>3. Respond(h) \/ GotoWith(h, "sf_write", loc[h])
    BY DEF SelfieRead
  <1> QED
    BY <1>1, <1>2, <1>3, RespondInv, MoveInv

(* The update of a selfie keeps every other column of every row. *)
LEMMA SelfieWriteInv == ASSUME IInv, NEW h \in Handlers, SelfieWrite(h) PROVE IInv'
  <1> DEFINE new(r) == IF r.id = loc[h].id THEN WithSelfie(r, loc[h].url) ELSE r
  <1>1. /\ pc[h] = "sf_write" /\ year' = year /\ counter' = counter /\ Respond(h)
        /\ employees' = {new(r) : r \in employees}
    BY DEF SelfieWrite, At
  <1>2. loc[h] \in SelfieRequests
    BY <1>1 DEF IInv, LocalsOK, LocalOK
  <1>3. \A r \in employees : /\ new(r) \in EmployeeRows /\ new(r).id = r.id
                             /\ new(r).email = r.email /\ new(r).phone = r.phone
                             /\ new(r).company = r.company
    BY <1>2 DEF IInv, TablesOK, EmployeeRows, SelfieRequests, Maybe, WithSelfie
  <1> HIDE DEF new
  <1>4. /\ LocalsOK' /\ pc'[h] = "idle"
        /\ \A g \in Handlers \ {h} : pc'[g] = pc[g] /\ loc'[g] = loc[g]
    BY <1>1, IdleOK, MoveLocals DEF IInv, Respond
  <1>5. TablesOK'
    BY <1>1, <1>3 DEF IInv, TablesOK
  <1>6. OneAccountPerId'
    BY <1>1, <1>3 DEF IInv, OneAccountPerId
  <1>7. NumbersDrawn'
    BY <1>1, <1>3, <1>4 DEF IInv, NumbersDrawn, Drawn
  <1>8. NoIdCollision'
    BY <1>1, <1>3, <1>4 DEF IInv, NoIdCollision
  <1> QED
    BY <1>4, <1>5, <1>6, <1>7, <1>8 DEF IInv

LEMMA StepInv == IInv /\ [Next]_vars => IInv'
  <1> SUFFICES ASSUME IInv, [Next]_vars PROVE IInv'
    OBVIOUS
  <1>1. ASSUME NEW h \in Handlers, RegisterStep(h) PROVE IInv'
    BY <1>1, ReceiveRegisterInv, RegisterCompanyInv, RegisterCountInv, RegisterCreateInv,
       RegisterReplyInv DEF RegisterStep
  <1>2. ASSUME NEW h \in Handlers, SelfieStep(h) PROVE IInv'
    BY <1>2, ReceiveSelfieInv, SelfieReadInv, SelfieWriteInv DEF SelfieStep
  <1>3. ASSUME NEW h \in Handlers, Abort(h) PROVE IInv'
    BY <1>3, RespondInv DEF Abort
  <1>4. CASE NewYear
    BY <1>4 DEF NewYear, IInv, TablesOK, LocalsOK, LocalOK, NumbersDrawn, Drawn, NoIdCollision,
                OneAccountPerId, tables
  <1>5. CASE UNCHANGED vars
    BY <1>5 DEF vars, tables, IInv, TablesOK, LocalsOK, LocalOK, NumbersDrawn, Drawn,
                NoIdCollision, OneAccountPerId
  <1> QED
    BY <1>1, <1>2, <1>3, <1>4, <1>5 DEF Next

(* The inductive invariant holds of every behaviour. *)
THEOREM Invariance == Spec => []IInv
  BY InitInv, StepInv, PTL DEF Spec

(* The tables and the locals keep their types, and no local is used before it is set. *)
THEOREM TypeCorrect == Spec => []TypeOK
  <1>1. IInv => TypeOK
    <2> SUFFICES ASSUME IInv PROVE TypeOK
      OBVIOUS
    <2>1. ASSUME NEW h \in Handlers
          PROVE  /\ pc[h] = "rg_count" => loc[h].year # NULL
                 /\ pc[h] = "rg_create" => loc[h].id # NULL
      BY NullAssumption DEF IInv, LocalsOK, LocalOK
    <2> QED
      BY <2>1 DEF IInv, TypeOK, TablesOK, LocalsOK
  <1> QED
    BY <1>1, Invariance, PTL

(***************************************************************************)
(* "Race-Condition Safe IDs": however many registrations overlap, fail or  *)
(* straddle the new year, no two of them hold the same id and none holds   *)
(* an employee's.                                                          *)
(***************************************************************************)
THEOREM NumbersAreUnique == Spec => []NoIdCollision
  <1>1. IInv => NoIdCollision
    BY DEF IInv
  <1> QED
    BY <1>1, Invariance, PTL

(* No two accounts share an id, an e-mail or a phone, selfie updates included. *)
LEMMA AccountsAreUnique == Spec => []OneAccountPerId
  <1>1. IInv => OneAccountPerId
    BY DEF IInv
  <1> QED
    BY <1>1, Invariance, PTL

-----------------------------------------------------------------------------
(* Selfies, when each employee's app waits for its answers. *)

SelfieLabels == {"sf_read", "sf_write"}

\* An account is at work on one selfie at most, and the selfie written is its first.
SelfieInv ==
  /\ \A g, h \in Handlers :
       pc[g] \in SelfieLabels /\ pc[h] \in SelfieLabels /\ loc[g].id = loc[h].id => g = h
  /\ \A h \in Handlers :
       pc[h] = "sf_write" => \A e \in employees : e.id = loc[h].id => e.selfie = NULL

(* A handler moves and no selfie is written. *)
LEMMA SelfieMove ==
  ASSUME IInv, SelfieInv, NEW h \in Handlers, NEW p, NEW r, GotoWith(h, p, r),
         p \in SelfieLabels =>
           \A g \in Handlers \ {h} : pc[g] \in SelfieLabels => loc[g].id # r.id,
         p = "sf_write" => \A e \in employees : e.id = r.id => e.selfie = NULL,
         \A e \in employees' : e \in employees \/ e.selfie = NULL
  PROVE  SelfieInv'
  <1>1. /\ pc'[h] = p /\ loc'[h] = r
        /\ \A g \in Handlers \ {h} : pc'[g] = pc[g] /\ loc'[g] = loc[g]
    BY DEF IInv, LocalsOK, GotoWith
  <1>2. \A f, g \in Handlers :
          pc'[f] \in SelfieLabels /\ pc'[g] \in SelfieLabels /\ loc'[f].id = loc'[g].id => f = g
    BY <1>1 DEF SelfieInv
  <1>3. \A g \in Handlers :
          pc'[g] = "sf_write" => \A e \in employees' : e.id = loc'[g].id => e.selfie = NULL
    BY <1>1 DEF SelfieInv
  <1> QED
    BY <1>2, <1>3 DEF SelfieInv

LEMMA SelfieLeave ==
  ASSUME IInv, SelfieInv, NEW h \in Handlers, Respond(h),
         \A e \in employees' : e \in employees \/ e.selfie = NULL
  PROVE  SelfieInv'
  BY SelfieMove DEF Respond, SelfieLabels

LEMMA SelfieRegisters ==
  ASSUME IInv, SelfieInv, NEW h \in Handlers, RegisterStep(h)
  PROVE  SelfieInv' /\ employees \subseteq employees'
  <1>1. CASE RegisterCreate(h)
    <2>1. NewEmployee(h).selfie = NULL
      BY DEF NewEmployee
    <2>2. PICK a : /\ GotoWith(h, "rg_reply", [loc[h] EXCEPT !.answer = a])
                   /\ \/ employees' = employees
                      \/ employees' = employees \cup {NewEmployee(h)}
      BY <1>1, AnswerOK
    <2> QED
      BY <2>1, <2>2, SelfieMove DEF SelfieLabels
  <1>2. CASE ReceiveRegister(h) \/ RegisterCompany(h) \/ RegisterCount(h) \/ RegisterReply(h)
    <2>1. employees' = employees
      BY <1>2 DEF ReceiveRegister, RegisterCompany, RegisterCount, RegisterReply, tables
    <2>2. PICK p, r : p \notin SelfieLabels /\ GotoWith(h, p, r)
      BY <1>2 DEF ReceiveRegister, RegisterCompany, RegisterCount, RegisterReply, Respond,
                  SelfieLabels
    <2> QED
      BY <2>1, <2>2, SelfieMove DEF SelfieLabels
  <1> QED
    BY <1>1, <1>2 DEF RegisterStep

LEMMA SelfieReceived ==
  ASSUME SerialClients, IInv, SelfieInv, NEW h \in Handlers, ReceiveSelfie(h)
  PROVE  SelfieInv' /\ employees' = employees
  <1>1. PICK e, u, r :
          /\ e \in employees /\ u \in Selfies
          /\ r = [op |-> "selfie", id |-> e.id, url |-> u]
          /\ MaySend(e.id) /\ GotoWith(h, "sf_read", r) /\ employees' = employees
    BY DEF ReceiveSelfie, tables
  <1>2. \A g \in Handlers : pc[g] \in SelfieLabels => loc[g].id # r.id
    BY <1>1 DEF MaySend, Busy, SelfieLabels
  <1> QED
    BY <1>1, <1>2, SelfieMove

LEMMA SelfieRereads ==
  ASSUME IInv, SelfieInv, NEW h \in Handlers, SelfieRead(h)
  PROVE  SelfieInv' /\ employees' = employees
  <1>1. pc[h] = "sf_read" /\ employees' = employees
    BY DEF SelfieRead, At, tables
  <1>2. CASE Respond(h)
    BY <1>1, <1>2, SelfieLeave
  <1>3. ASSUME NEW e \in employees, e.id = loc[h].id, e.selfie = NULL,
               GotoWith(h, "sf_write", loc[h])
        PROVE  SelfieInv'
    <2>1. \A f \in employees : f.id = loc[h].id => f.selfie = NULL
      BY <1>3 DEF IInv, OneAccountPerId
    <2>2. \A g \in Handlers \ {h} : pc[g] \in SelfieLabels => loc[g].id # loc[h].id
      BY <1>1 DEF SelfieInv, SelfieLabels
    <2> QED
      BY <1>1, <1>3, <2>1, <2>2, SelfieMove
  <1> QED
    BY <1>1, <1>2, <1>3 DEF SelfieRead

(* The write replaces no selfie, and other handlers write to other accounts. *)
LEMMA SelfieWrites ==
  ASSUME IInv, SelfieInv, NEW h \in Handlers, SelfieWrite(h)
  PROVE  SelfieInv' /\ \A e \in employees : e.selfie # NULL => e \in employees'
  <1>1. PICK i, r : i = loc[h].id /\ r = loc[h]
    OBVIOUS
  <1>2. /\ pc[h] = "sf_write" /\ GotoWith(h, "idle", NULL)
        /\ employees' = {IF e.id = i THEN WithSelfie(e, r.url) ELSE e : e \in employees}
    BY <1>1 DEF SelfieWrite, At, Respond
  <1>3. \A e \in employees : WithSelfie(e, r.url).id = e.id
    BY DEF IInv, TablesOK, EmployeeRows, WithSelfie
  <1>4. \A e \in employees' : e \in employees \/ e.id = i
    BY <1>2, <1>3
  <1>5. \A g \in Handlers \ {h} : pc[g] \in SelfieLabels => loc[g].id # i
    BY <1>1, <1>2 DEF SelfieInv, SelfieLabels
  <1>6. /\ pc'[h] = "idle"
        /\ \A g \in Handlers \ {h} : pc'[g] = pc[g] /\ loc'[g] = loc[g]
    BY <1>2 DEF IInv, LocalsOK, GotoWith
  <1>7. \A f, g \in Handlers :
          pc'[f] \in SelfieLabels /\ pc'[g] \in SelfieLabels /\ loc'[f].id = loc'[g].id => f = g
    BY <1>6 DEF SelfieInv, SelfieLabels
  <1>8. \A g \in Handlers :
          pc'[g] = "sf_write" => \A e \in employees' : e.id = loc'[g].id => e.selfie = NULL
    BY <1>4, <1>5, <1>6 DEF SelfieInv, SelfieLabels
  <1>9. \A e \in employees : e.selfie # NULL => e.id # i
    BY <1>1, <1>2 DEF SelfieInv
  <1>10. \A e \in employees : e.selfie # NULL => e \in employees'
    BY <1>2, <1>9
  <1> QED
    BY <1>7, <1>8, <1>10 DEF SelfieInv

LEMMA SelfieNext ==
  ASSUME SerialClients, IInv, SelfieInv, [Next]_vars
  PROVE  SelfieInv' /\ \A e \in employees : e.selfie # NULL => e \in employees'
  <1>1. ASSUME NEW h \in Handlers, RegisterStep(h) \/ SelfieStep(h) \/ Abort(h)
        PROVE  SelfieInv' /\ \A e \in employees : e.selfie # NULL => e \in employees'
    <2>1. CASE Abort(h)
      BY <2>1, SelfieLeave DEF Abort, tables
    <2> QED
      BY <1>1, <2>1, SelfieRegisters, SelfieReceived, SelfieRereads, SelfieWrites DEF SelfieStep
  <1>2. CASE NewYear \/ UNCHANGED vars
    BY <1>2 DEF NewYear, vars, tables, SelfieInv
  <1> QED
    BY <1>1, <1>2 DEF Next

(***************************************************************************)
(* A selfie that is registered is never replaced, as long as the app of    *)
(* its employee waits for its answers: the check and the update are two    *)
(* statements with nobody else at work on the account in between.          *)
(***************************************************************************)
THEOREM SelfiesAreKept ==
  ASSUME SerialClients
  PROVE  Spec => SelfieOnce
  <1>1. Init => SelfieInv
    BY DEF Init, SelfieInv, SelfieLabels
  <1>2. IInv /\ SelfieInv /\ [Next]_vars => SelfieInv'
    BY SelfieNext
  <1>3. IInv /\ SelfieInv /\ [Next]_vars =>
          [\A r \in employees : r.selfie # NULL => r \in employees']_vars
    BY SelfieNext
  <1> QED
    BY <1>1, <1>2, <1>3, Invariance, PTL DEF Spec, SelfieOnce
=============================================================================
