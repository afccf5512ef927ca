---------------------------- MODULE OtpLoginProofs ----------------------------
(***************************************************************************)
(* Proofs about the login with a one-time password, for any number of      *)
(* addresses, codes, handlers, retries and restarts: a mail follows its    *)
(* code, a code that can be used has its mail, and a verification removes  *)
(* no code but its own.                                                    *)
(***************************************************************************)
EXTENDS OtpLogin, FiniteSetTheorems, TLAPS

-----------------------------------------------------------------------------
(* The inductive invariant. *)

\* A handler at label p with locals r.
LocalOK(p, r) ==
  /\ p \in Labels
  /\ p = "idle" => r = NULL
  /\ p # "idle" => r \in Requests
  /\ p \in {"rq_set", "rq_enqueue"} => r.email \in Registered
  /\ p = "rq_enqueue" => r.no \in 1 .. issued[r.email]
  /\ p \in {"vf_email", "vf_delete"} => r.no \in 1 .. MaxIssues

LocalsOK ==
  /\ pc \in [Handlers -> Labels]
  /\ loc \in [Handlers -> Maybe(Requests)]
  /\ \A h \in Handlers : LocalOK(pc[h], loc[h])

\* The code of an address is the last one that was stored.
StoresOK ==
  /\ otp \in [Emails -> Maybe(StoredCodes)]
  /\ issued \in [Emails -> 0 .. MaxIssues]
  /\ tokens \in [Issues -> 0 .. 2]
  /\ phase \in {"serving", "draining", "closing"}
  /\ \A e \in Emails : otp[e] # NULL => otp[e].no = issued[e]

\* Every request under way finds a number below the bound MaxIssues.
Waiting(e) == {g \in Handlers : pc[g] \in {"rq_email", "rq_set"} /\ loc[g].email = e}
RoomOK == \A e \in Emails : issued[e] + Cardinality(Waiting(e)) <= MaxIssues

OInv == StoresOK /\ LocalsOK /\ RoomOK /\ Mail!MailTypeOK /\ MailFollowsCode

-----------------------------------------------------------------------------
(* The mail queue keeps its types, and forgets no task. *)

\* No task appears but one that is enqueued, and none is forgotten.
SameTasks == \A i \in Issues : task'[i] = "none" <=> task[i] = "none"

LEMMA FailedTasks ==
  ASSUME Mail!MailTypeOK, NEW T \in SUBSET Issues, Mail!Fail(T),
         \A i \in T : task[i] = "active"
  PROVE  /\ task' \in [Issues -> Mail!TaskStates]
         /\ retried' \in [Issues -> 0 .. MaxRetry]
         /\ SameTasks
  BY OtpAssumption DEF Mail!MailTypeOK, Mail!Fail, Mail!TaskStates, SameTasks

LEMMA AcceptedMails ==
  ASSUME Mail!MailTypeOK, NEW T \in SUBSET Issues, Mail!MaybeAccepted(T)
  PROVE  mails' \in [Issues -> Nat]
  BY DEF Mail!MailTypeOK, Mail!MaybeAccepted

LEMMA WorkerKeeps ==
  ASSUME Mail!MailTypeOK, NEW i \in Issues,
         Mail!Fetch(i) \/ Mail!Worker(i) \/ Mail!LateSend(i)
  PROVE  Mail!MailTypeOK' /\ SameTasks
  <1>1. CASE Mail!Fetch(i)
    BY <1>1 DEF Mail!Fetch, Mail!MailTypeOK, Mail!TaskStates, SameTasks
  <1>2. CASE Mail!SendSucceeds(i)
    BY <1>2 DEF Mail!SendSucceeds, Mail!MailTypeOK, Mail!TaskStates, SameTasks
  <1>3. CASE Mail!SendFails(i)
    <2>1. {i} \in SUBSET Issues /\ \A t \in {i} : task[t] = "active"
      BY <1>3 DEF Mail!SendFails
    <2> QED
      BY <1>3, <2>1, FailedTasks, AcceptedMails DEF Mail!SendFails, Mail!MailTypeOK
  <1>4. CASE Mail!SendTimesOut(i)
    <2>1. {i} \in SUBSET Issues /\ \A t \in {i} : task[t] = "active"
      BY <1>4 DEF Mail!SendTimesOut
    <2> QED
      BY <1>4, <2>1, FailedTasks DEF Mail!SendTimesOut, Mail!MailTypeOK
  <1>5. CASE Mail!LateSend(i)
    <2>1. mails' \in [Issues -> Nat]
      BY <1>5, AcceptedMails DEF Mail!LateSend
    <2>2. lingering' \in [Issues -> Nat]
      <3>1. lingering \in [Issues -> Nat] /\ lingering[i] > 0
        BY <1>5 DEF Mail!LateSend, Mail!MailTypeOK
      <3>2. lingering' = [lingering EXCEPT ![i] = lingering[i] - 1]
        BY <1>5 DEF Mail!LateSend
      <3> QED
        BY <3>1, <3>2
    <2>3. UNCHANGED <<task, retried, restarts>>
      BY <1>5 DEF Mail!LateSend
    <2> QED
      BY <2>1, <2>2, <2>3 DEF Mail!MailTypeOK, SameTasks
  <1> QED
    BY <1>1, <1>2, <1>3, <1>4, <1>5 DEF Mail!Worker

LEMMA StopKeeps ==
  ASSUME Mail!MailTypeOK, Mail!Restart \/ Mail!Crash
  PROVE  Mail!MailTypeOK' /\ SameTasks
  <1>1. Mail!Active \in SUBSET Issues /\ \A i \in Mail!Active : task[i] = "active"
    BY DEF Mail!Active
  <1>2. /\ restarts' \in 0 .. MaxRestarts /\ lingering' \in [Issues -> Nat]
        /\ mails' \in [Issues -> Nat]
    BY <1>1, AcceptedMails, OtpAssumption
       DEF Mail!Restart, Mail!Crash, Mail!Stop, Mail!MailTypeOK
  <1>3. CASE Mail!Restart
    BY <1>1, <1>2, <1>3 DEF Mail!Restart, Mail!MailTypeOK, Mail!TaskStates, SameTasks
  <1>4. CASE Mail!Crash
    BY <1>1, <1>2, <1>4, FailedTasks DEF Mail!Crash, Mail!MailTypeOK
  <1> QED
    BY <1>3, <1>4

LEMMA EnqueueKeeps ==
  ASSUME Mail!MailTypeOK, NEW i \in Issues, Mail!Enqueue(i)
  PROVE  /\ Mail!MailTypeOK' /\ task'[i] = "pending"
         /\ \A j \in Issues \ {i} : task'[j] = task[j]
  BY DEF Mail!Enqueue, Mail!MailTypeOK, Mail!TaskStates

-----------------------------------------------------------------------------
(* A handler moves. *)

LEMMA LocalIsRequest ==
  ASSUME NEW p, NEW r, LocalOK(p, r)
  PROVE  p \in Labels /\ r \in Maybe(Requests)
  BY DEF LocalOK, Maybe

LEMMA MoveLocals ==
  ASSUME OInv, NEW h \in Handlers, NEW p, NEW r, GotoWith(h, p, r), LocalOK(p, r)',
         \A e \in Emails : issued'[e] \in Int /\ issued'[e] >= issued[e]
  PROVE  /\ LocalsOK'
         /\ pc'[h] = p /\ loc'[h] = r
         /\ \A g \in Handlers \ {h} : pc'[g] = pc[g] /\ loc'[g] = loc[g]
  <1>1. p \in Labels /\ r \in Maybe(Requests)
    BY DEF LocalOK, Maybe
  <1>2. /\ pc' \in [Handlers -> Labels] /\ loc' \in [Handlers -> Maybe(Requests)]
        /\ pc'[h] = p /\ loc'[h] = r
        /\ \A g \in Handlers \ {h} : pc'[g] = pc[g] /\ loc'[g] = loc[g]
    BY <1>1 DEF OInv, LocalsOK, GotoWith
  <1>3. ASSUME NEW g \in Handlers
        PROVE  LocalOK(pc[g], loc[g])'
    <2>1. CASE g = h
      BY <1>2, <2>1
    <2>2. CASE g # h
      <3>1. PICK q, s : q = pc[g] /\ s = loc[g]
        OBVIOUS
      <3>2. LocalOK(q, s)
        BY <3>1 DEF OInv, LocalsOK
      <3>3. LocalOK(q, s)'
        <4>1. q = "rq_enqueue" => s.no \in 1 .. issued[s.email] /\ s.email \in Emails
          BY <3>2, OtpAssumption DEF LocalOK, Requests
        <4>2. q = "rq_enqueue" => s.no \in 1 .. issued'[s.email]
          BY <4>1 DEF OInv, StoresOK
        <4> QED
          BY <3>2, <4>2 DEF LocalOK
      <3> QED
        BY <1>2, <2>2, <3>1, <3>3
    <2> QED
      BY <2>1, <2>2
  <1> QED
    BY <1>2, <1>3 DEF LocalsOK

(* Requests that wait for a number. *)
LEMMA WaitingIsFinite ==
  ASSUME NEW e
  PROVE  IsFiniteSet(Waiting(e)) /\ Cardinality(Waiting(e)) \in Nat
  BY FS_Subset, FS_CardinalityType, OtpAssumption DEF Waiting

LEMMA FewerWait ==
  ASSUME OInv, UNCHANGED issued, \A e \in Emails : Waiting(e)' \subseteq Waiting(e)
  PROVE  RoomOK'
  <1>1. ASSUME NEW e \in Emails
        PROVE  (issued[e] + Cardinality(Waiting(e)) <= MaxIssues)'
    <2>1. PICK V, W : V = Waiting(e)' /\ W = Waiting(e)
      OBVIOUS
    <2>2. V \subseteq W /\ IsFiniteSet(W)
      BY <2>1, WaitingIsFinite
    <2>3. Cardinality(V) <= Cardinality(W) /\ Cardinality(V) \in Nat /\ Cardinality(W) \in Nat
      BY <2>2, FS_Subset, FS_CardinalityType
    <2>4. issued[e] \in Int /\ issued[e] + Cardinality(W) <= MaxIssues
      BY <2>1 DEF OInv, StoresOK, RoomOK
    <2>5. issued'[e] + Cardinality(V) <= MaxIssues
      BY <2>3, <2>4, OtpAssumption
    <2> QED
      BY <2>1, <2>5
  <1> QED
    BY <1>1 DEF RoomOK

(* A step of a handler that touches neither the code nor the queue. *)
LEMMA MoveKeeps ==
  ASSUME OInv, NEW h \in Handlers, NEW p, NEW r, GotoWith(h, p, r), LocalOK(p, r),
         p \in {"rq_email", "rq_set"} =>
           pc[h] \in {"rq_email", "rq_set"} /\ r.email = loc[h].email,
         UNCHANGED <<otp, issued, tokens, phase, queue>>
  PROVE  OInv'
  <1>1. LocalOK(p, r)'
    BY DEF LocalOK
  <1>2. \A e \in Emails : issued'[e] \in Int /\ issued'[e] >= issued[e]
    BY DEF OInv, StoresOK
  <1>3. /\ LocalsOK' /\ pc'[h] = p /\ loc'[h] = r
        /\ \A g \in Handlers \ {h} : pc'[g] = pc[g] /\ loc'[g] = loc[g]
    BY <1>1, <1>2, MoveLocals
  <1>4. RoomOK'
    <2>1. \A e \in Emails : Waiting(e)' \subseteq Waiting(e)
      BY <1>3 DEF Waiting
    <2> QED
      BY <2>1, FewerWait
  <1>5. StoresOK' /\ Mail!MailTypeOK' /\ MailFollowsCode'
    BY DEF OInv, StoresOK, Mail!MailTypeOK, MailFollowsCode, queue
  <1> QED
    BY <1>3, <1>4, <1>5 DEF OInv

LEMMA IdleOK == LocalOK("idle", NULL)
  BY DEF LocalOK, Labels

LEMMA RespondKeeps ==
  ASSUME OInv, NEW h \in Handlers, Respond(h), UNCHANGED <<otp, issued, tokens, phase, queue>>
  PROVE  OInv'
  BY IdleOK, MoveKeeps DEF Respond

-----------------------------------------------------------------------------
(* The actions. *)

\* A serving handler has locals.
LEMMA Serving ==
  ASSUME OInv, NEW h \in Handlers, pc[h] # "idle"
  PROVE  /\ LocalOK(pc[h], loc[h]) /\ loc[h] \in Requests
         /\ loc[h].email \in Emails /\ loc[h].code \in Maybe(Codes)
  BY DEF OInv, LocalsOK, LocalOK, Requests

LEMMA NoSet ==
  ASSUME NEW r \in Requests, NEW n \in 1 .. MaxIssues
  PROVE  LET s == [r EXCEPT !.no = n] IN
           s \in Requests /\ s.email = r.email /\ s.code = r.code /\ s.no = n
  BY DEF Requests, Maybe

LEMMA ReceiveRequestKeeps ==
  ASSUME OInv, NEW h \in Handlers, ReceiveRequest(h)
  PROVE  OInv'
  <1>1. PICK e, r :
          /\ e \in Emails /\ r = [email |-> e, code |-> NULL, no |-> NULL]
          /\ Room(e) /\ pc[h] = "idle" /\ GotoWith(h, "rq_email", r)
          /\ UNCHANGED <<otp, issued, tokens, phase, queue>>
    BY DEF ReceiveRequest, Receive
  <1>2. r \in Requests /\ r.email = e
    BY <1>1 DEF Requests, Maybe
  <1>3. LocalOK("rq_email", r) /\ LocalOK("rq_email", r)'
    BY <1>2 DEF LocalOK, Labels
  <1>4. \A f \in Emails : issued'[f] \in Int /\ issued'[f] >= issued[f]
    BY <1>1 DEF OInv, StoresOK
  <1>5. /\ LocalsOK' /\ pc'[h] = "rq_email" /\ loc'[h] = r
        /\ \A g \in Handlers \ {h} : pc'[g] = pc[g] /\ loc'[g] = loc[g]
    BY <1>1, <1>3, <1>4, MoveLocals
  <1>6. ASSUME NEW f \in Emails
        PROVE  (issued[f] + Cardinality(Waiting(f)) <= MaxIssues)'
    <2>1. PICK V, W : V = Waiting(f)' /\ W = Waiting(f)
      OBVIOUS
    <2>2. V = IF f = e THEN W \cup {h} ELSE W
      BY <1>1, <1>2, <1>5, <2>1 DEF Waiting
    <2>3. IsFiniteSet(W) /\ Cardinality(W) \in Nat /\ h \notin W
      BY <1>1, <2>1, WaitingIsFinite DEF Waiting
    <2>4. Cardinality(W \cup {h}) = Cardinality(W) + 1
      BY <2>3, FS_AddElement
    <2>5. issued'[f] = issued[f] /\ issued[f] \in Int /\ issued[f] + Cardinality(W) <= MaxIssues
      BY <1>1, <2>1 DEF OInv, StoresOK, RoomOK
    <2>6. f = e => issued[f] + Cardinality(W) < MaxIssues
      BY <1>1, <2>1 DEF Room, Waiting
    <2>7. issued'[f] + Cardinality(V) <= MaxIssues
      BY <2>2, <2>3, <2>4, <2>5, <2>6, OtpAssumption
    <2> QED
      BY <2>1, <2>7
  <1>7. StoresOK' /\ Mail!MailTypeOK' /\ MailFollowsCode'
    BY <1>1 DEF OInv, StoresOK, Mail!MailTypeOK, MailFollowsCode, queue
  <1> QED
    BY <1>5, <1>6, <1>7 DEF OInv, RoomOK

LEMMA RequestEmailKeeps ==
  ASSUME OInv, NEW h \in Handlers, RequestEmail(h)
  PROVE  OInv'
  <1>1. pc[h] = "rq_email" /\ UNCHANGED <<otp, issued, tokens, phase, queue>>
    BY DEF RequestEmail
  <1>2. CASE Respond(h)
    BY <1>1, <1>2, RespondKeeps
  <1>3. CASE loc[h].email \in Registered /\ Goto(h, "rq_set")
    <2>1. LocalOK("rq_set", loc[h])
      BY <1>1, <1>3, Serving DEF LocalOK, Labels
    <2> QED
      BY <1>1, <1>3, <2>1, MoveKeeps DEF Goto
  <1> QED
    BY <1>2, <1>3 DEF RequestEmail

(* The number a request waited for is the next one of its address. *)
LEMMA RequestSetKeeps ==
  ASSUME OInv, NEW h \in Handlers, RequestSet(h)
  PROVE  /\ OInv'
         /\ pc'[h] = "rq_enqueue" /\ loc'[h].email = loc[h].email
         /\ loc'[h].no = issued[loc[h].email] + 1
         /\ \A g \in Handlers \ {h} : pc'[g] = pc[g] /\ loc'[g] = loc[g]
         /\ otp'[loc[h].email].no = issued[loc[h].email] + 1
  <1>a. PICK c \in Codes : StoreCode(loc[h].email, c)
    BY DEF RequestSet
  <1>b. PICK e, n, r, row :
          /\ e = loc[h].email /\ n = issued[e] + 1 /\ r = [loc[h] EXCEPT !.no = n]
          /\ row = [no |-> n, code |-> c]
    OBVIOUS
  <1>1. /\ e = loc[h].email /\ n = issued[e] + 1 /\ r = [loc[h] EXCEPT !.no = n]
        /\ row = [no |-> n, code |-> c]
        /\ pc[h] = "rq_set" /\ GotoWith(h, "rq_enqueue", r)
        /\ issued' = [issued EXCEPT ![e] = n] /\ otp' = [otp EXCEPT ![e] = row]
        /\ UNCHANGED <<tokens, phase, queue>>
    BY <1>a, <1>b DEF RequestSet, StoreCode
  <1>2. loc[h] \in Requests /\ e \in Emails /\ e \in Registered
    BY <1>1, Serving DEF LocalOK
  <1>3. PICK W : W = Waiting(e)
    OBVIOUS
  <1>4. h \in W /\ IsFiniteSet(W) /\ Cardinality(W) \in Nat
    BY <1>1, <1>3, WaitingIsFinite DEF Waiting
  <1>5. Cardinality(W \ {h}) = Cardinality(W) - 1 /\ Cardinality(W) >= 1
    <2>1. Cardinality(W \ {h}) = Cardinality(W) - 1 /\ Cardinality(W \ {h}) \in Nat
      BY <1>4, FS_RemoveElement, FS_CardinalityType
    <2> QED
      BY <1>4, <2>1
  <1>6. /\ issued[e] \in 0 .. MaxIssues
        /\ issued[e] + Cardinality(W) <= MaxIssues
    BY <1>2, <1>3 DEF OInv, StoresOK, RoomOK
  <1>7. n \in 1 .. MaxIssues
    BY <1>1, <1>4, <1>5, <1>6, OtpAssumption
  <1>8. /\ \A f \in Emails : issued'[f] = IF f = e THEN n ELSE issued[f]
        /\ \A f \in Emails : otp'[f] = IF f = e THEN row ELSE otp[f]
    BY <1>1 DEF OInv, StoresOK
  <1>9. r \in Requests /\ r.email = e /\ r.no = n
    BY <1>1, <1>2, <1>7, NoSet
  <1>10. LocalOK("rq_enqueue", r)'
    BY <1>2, <1>7, <1>8, <1>9 DEF LocalOK, Labels
  <1>11. \A f \in Emails : issued'[f] \in Int /\ issued'[f] >= issued[f]
    BY <1>1, <1>6, <1>7, <1>8 DEF OInv, StoresOK
  <1>12. /\ LocalsOK' /\ pc'[h] = "rq_enqueue" /\ loc'[h] = r
         /\ \A g \in Handlers \ {h} : pc'[g] = pc[g] /\ loc'[g] = loc[g]
    BY <1>1, <1>10, <1>11, MoveLocals
  <1>13. row \in StoredCodes /\ row.no = n
    BY <1>1, <1>7 DEF StoredCodes
  <1>14. StoresOK'
    <2>1. issued' \in [Emails -> 0 .. MaxIssues]
      <3>1. issued \in [Emails -> 0 .. MaxIssues] /\ n \in 0 .. MaxIssues
        BY <1>7, OtpAssumption DEF OInv, StoresOK
      <3> QED
        BY <1>1, <3>1
    <2>2. otp' \in [Emails -> Maybe(StoredCodes)]
      <3>1. otp \in [Emails -> Maybe(StoredCodes)] /\ row \in Maybe(StoredCodes)
        BY <1>13 DEF OInv, StoresOK, Maybe
      <3> QED
        BY <1>1, <3>1
    <2>3. tokens' \in [Issues -> 0 .. 2] /\ phase' \in {"serving", "draining", "closing"}
      BY <1>1 DEF OInv, StoresOK
    <2>4. \A f \in Emails : otp'[f] # NULL => otp'[f].no = issued'[f]
      BY <1>8, <1>13 DEF OInv, StoresOK
    <2> QED
      BY <2>1, <2>2, <2>3, <2>4 DEF StoresOK
  <1>15. ASSUME NEW f \in Emails
         PROVE  (issued[f] + Cardinality(Waiting(f)) <= MaxIssues)'
    <2>1. PICK V, U : V = Waiting(f)' /\ U = Waiting(f)
      OBVIOUS
    <2>2. V = U \ {h}
      BY <1>12, <2>1 DEF Waiting
    <2>3. CASE f = e
      BY <1>1, <1>3, <1>4, <1>5, <1>6, <1>8, <2>1, <2>2, <2>3, OtpAssumption
    <2>4. CASE f # e
      <3>1. V = U
        BY <1>1, <2>1, <2>2, <2>4 DEF Waiting
      <3> QED
        BY <1>8, <2>1, <2>4, <3>1 DEF OInv, RoomOK
    <2> QED
      BY <2>3, <2>4
  <1>16. Mail!MailTypeOK' /\ MailFollowsCode'
    <2>1. ASSUME NEW i \in Issues, task'[i] # "none"
          PROVE  i[1] \in Registered /\ i[2] <= issued'[i[1]]
      <3>1. i[1] \in Emails /\ i[2] \in Int /\ i[1] \in Registered /\ i[2] <= issued[i[1]]
        BY <1>1, <2>1 DEF OInv, MailFollowsCode, Issues, queue
      <3>2. issued[i[1]] \in Int
        BY <3>1 DEF OInv, StoresOK
      <3> QED
        BY <1>11, <3>1, <3>2
    <2> QED
      BY <1>1, <2>1 DEF OInv, MailFollowsCode, Mail!MailTypeOK, queue
  <1> QED
    BY <1>1, <1>2, <1>8, <1>9, <1>12, <1>13, <1>14, <1>15, <1>16 DEF OInv, RoomOK

\* The mail that is enqueued is one of a code that was stored.
LEMMA EnqueuedIsIssued ==
  ASSUME OInv, NEW h \in Handlers, pc[h] = "rq_enqueue"
  PROVE  <<loc[h].email, loc[h].no>> \in Issues
  <1>1. PICK r : r = loc[h]
    OBVIOUS
  <1>2. r.email \in Emails /\ r.no \in 1 .. issued[r.email]
    BY <1>1, Serving DEF LocalOK
  <1>3. issued[r.email] \in 0 .. MaxIssues
    BY <1>2 DEF OInv, StoresOK
  <1>4. r.no \in 1 .. MaxIssues
    BY <1>2, <1>3, OtpAssumption
  <1> QED
    BY <1>1, <1>2, <1>4 DEF Issues

LEMMA RequestEnqueueKeeps ==
  ASSUME OInv, NEW h \in Handlers, RequestEnqueue(h)
  PROVE  OInv'
  <1>1. PICK r, i : /\ r = loc[h] /\ i = <<r.email, r.no>>
                    /\ pc[h] = "rq_enqueue" /\ Mail!Enqueue(i) /\ Respond(h)
                    /\ UNCHANGED <<otp, issued, tokens, phase>>
    BY DEF RequestEnqueue
  <1>2. r.email \in Emails /\ r.email \in Registered /\ r.no \in 1 .. issued[r.email]
    BY <1>1, Serving DEF LocalOK
  <1>3. i \in Issues
    BY <1>1, EnqueuedIsIssued
  <1>4. Mail!MailTypeOK' /\ \A j \in Issues \ {i} : task'[j] = task[j]
    BY <1>1, <1>3, EnqueueKeeps DEF OInv
  <1>5. MailFollowsCode'
    <2>1. i[1] = r.email /\ i[2] = r.no
      BY <1>1
    <2>2. r.no <= issued[r.email]
      BY <1>2
    <2> QED
      BY <1>1, <1>2, <1>4, <2>1, <2>2 DEF OInv, MailFollowsCode
  <1>6. LocalOK("idle", NULL)' /\ \A e \in Emails : issued'[e] \in Int /\ issued'[e] >= issued[e]
    BY <1>1 DEF LocalOK, Labels, OInv, StoresOK
  <1>7. /\ LocalsOK' /\ pc'[h] = "idle"
        /\ \A g \in Handlers \ {h} : pc'[g] = pc[g] /\ loc'[g] = loc[g]
    BY <1>1, <1>6, MoveLocals DEF Respond
  <1>8. RoomOK'
    <2>1. \A e \in Emails : Waiting(e)' \subseteq Waiting(e)
      BY <1>7 DEF Waiting
    <2> QED
      BY <1>1, <2>1, FewerWait
  <1>9. StoresOK'
    BY <1>1 DEF OInv, StoresOK
  <1> QED
    BY <1>4, <1>5, <1>7, <1>8, <1>9 DEF OInv

LEMMA ReceiveVerifyKeeps ==
  ASSUME OInv, NEW h \in Handlers, ReceiveVerify(h)
  PROVE  OInv'
  <1>1. PICK e, c, r :
          /\ e \in Emails /\ c \in Codes /\ r = [email |-> e, code |-> c, no |-> NULL]
          /\ GotoWith(h, "vf_get", r)
          /\ UNCHANGED <<otp, issued, tokens, phase, queue>>
    BY DEF ReceiveVerify, Receive
  <1>2. r \in Requests
    BY <1>1 DEF Requests, Maybe
  <1>3. LocalOK("vf_get", r)
    BY <1>2 DEF LocalOK, Labels
  <1> QED
    BY <1>1, <1>3, MoveKeeps

LEMMA VerifyGetKeeps ==
  ASSUME OInv, NEW h \in Handlers, VerifyGet(h)
  PROVE  OInv'
  <1>1. /\ pc[h] = "vf_get" /\ UNCHANGED <<otp, issued, tokens, phase, queue>>
        /\ loc[h] \in Requests /\ loc[h].email \in Emails
    BY Serving DEF VerifyGet
  <1>2. CASE Respond(h)
    BY <1>1, <1>2, RespondKeeps
  <1>3. CASE ~ Respond(h)
    <2>1. PICK s, n, r :
            /\ s = otp[loc[h].email] /\ n = s.no /\ r = [loc[h] EXCEPT !.no = n]
      OBVIOUS
    <2>2. s # NULL /\ GotoWith(h, "vf_email", r)
      BY <1>3, <2>1 DEF VerifyGet
    <2>3. n \in 1 .. MaxIssues
      BY <1>1, <2>1, <2>2 DEF OInv, StoresOK, Maybe, StoredCodes
    <2>4. LocalOK("vf_email", r)
      BY <1>1, <2>1, <2>3, NoSet DEF LocalOK, Labels
    <2> QED
      BY <1>1, <2>2, <2>4, MoveKeeps
  <1> QED
    BY <1>2, <1>3

LEMMA VerifyEmailKeeps ==
  ASSUME OInv, NEW h \in Handlers, VerifyEmail(h)
  PROVE  OInv'
  <1>1. /\ pc[h] = "vf_email" /\ GotoWith(h, "vf_delete", loc[h])
        /\ UNCHANGED <<otp, issued, tokens, phase, queue>>
    BY DEF VerifyEmail, Goto
  <1>2. LocalOK("vf_delete", loc[h])
    BY <1>1, Serving DEF LocalOK, Labels
  <1> QED
    BY <1>1, <1>2, MoveKeeps

(* The stored code of an address, if one is left, is the one it was. *)
LEMMA FewerCodes ==
  ASSUME OInv, NEW e \in Emails, DeleteOTP(e) \/ UNCHANGED otp
  PROVE  /\ otp' \in [Emails -> Maybe(StoredCodes)]
         /\ \A f \in Emails : otp'[f] # NULL => otp'[f] = otp[f]
         /\ \A f \in Emails \ {e} : otp'[f] = otp[f]
  BY DEF OInv, StoresOK, DeleteOTP, Maybe

LEMMA VerifyDeleteKeeps ==
  ASSUME OInv, NEW h \in Handlers, VerifyDelete(h)
  PROVE  OInv'
  <1>1. PICK r, i : /\ r = loc[h] /\ i = <<r.email, r.no>>
    OBVIOUS
  <1>2. /\ pc[h] = "vf_delete" /\ Respond(h)
        /\ DeleteOTP(r.email) \/ UNCHANGED otp
        /\ tokens' = [tokens EXCEPT ![i] = IF tokens[i] < 2 THEN tokens[i] + 1 ELSE 2]
        /\ UNCHANGED <<issued, phase, queue>>
    BY <1>1 DEF VerifyDelete, GiveToken
  <1>3. r.email \in Emails /\ r.no \in 1 .. MaxIssues
    BY <1>1, <1>2, Serving DEF LocalOK
  <1>4. i \in Issues
    BY <1>1, <1>3 DEF Issues
  <1>5. tokens' \in [Issues -> 0 .. 2]
    <2>1. tokens \in [Issues -> 0 .. 2] /\ tokens[i] \in 0 .. 2
      BY <1>4 DEF OInv, StoresOK
    <2>2. (IF tokens[i] < 2 THEN tokens[i] + 1 ELSE 2) \in 0 .. 2
      BY <2>1
    <2> QED
      BY <1>2, <2>1, <2>2
  <1>6. StoresOK'
    BY <1>2, <1>3, <1>5, FewerCodes DEF OInv, StoresOK
  <1>7. LocalOK("idle", NULL)' /\ \A e \in Emails : issued'[e] \in Int /\ issued'[e] >= issued[e]
    BY <1>2 DEF LocalOK, Labels, OInv, StoresOK
  <1>8. /\ LocalsOK' /\ pc'[h] = "idle"
        /\ \A g \in Handlers \ {h} : pc'[g] = pc[g] /\ loc'[g] = loc[g]
    BY <1>2, <1>7, MoveLocals DEF Respond
  <1>9. RoomOK'
    <2>1. \A e \in Emails : Waiting(e)' \subseteq Waiting(e)
      BY <1>8 DEF Waiting
    <2> QED
      BY <1>2, <2>1, FewerWait
  <1>10. Mail!MailTypeOK' /\ MailFollowsCode'
    BY <1>2 DEF OInv, MailFollowsCode, Mail!MailTypeOK, queue
  <1> QED
    BY <1>6, <1>8, <1>9, <1>10 DEF OInv

LEMMA ExpireKeeps ==
  ASSUME OInv, NEW e \in Emails, Expire(e)
  PROVE  OInv'
  <1>1. DeleteOTP(e) /\ UNCHANGED <<issued, tokens, handlerVars, phase, queue>>
    BY DEF Expire, DeleteOTP
  <1>2. StoresOK'
    BY <1>1, FewerCodes DEF OInv, StoresOK
  <1>3. LocalsOK' /\ RoomOK' /\ Mail!MailTypeOK' /\ MailFollowsCode'
    BY <1>1 DEF OInv, LocalsOK, LocalOK, RoomOK, Waiting, Mail!MailTypeOK, MailFollowsCode,
                handlerVars, queue
  <1> QED
    BY <1>2, <1>3 DEF OInv

(* The queue moves and the handlers do not. *)
LEMMA QueueKeeps ==
  ASSUME OInv, Mail!MailTypeOK', SameTasks, UNCHANGED <<Elsewhere, handlerVars>>,
         phase' \in {"serving", "draining", "closing"}
  PROVE  OInv'
  <1>1. StoresOK' /\ LocalsOK' /\ RoomOK'
    BY DEF OInv, StoresOK, LocalsOK, LocalOK, RoomOK, Waiting, Elsewhere, handlerVars
  <1>2. MailFollowsCode'
    BY DEF OInv, MailFollowsCode, SameTasks, Elsewhere
  <1> QED
    BY <1>1, <1>2 DEF OInv

\* An unchanged queue.
LEMMA QueueRests ==
  ASSUME OInv, UNCHANGED queue
  PROVE  Mail!MailTypeOK' /\ SameTasks
  BY DEF OInv, queue, SameTasks, Mail!MailTypeOK

(* No handler is left of the process that stopped. *)
LEMMA NewProcessKeeps ==
  ASSUME OInv, Mail!Restart \/ Mail!Crash, NewProcess
  PROVE  OInv' /\ SameTasks
  <1>1. Mail!MailTypeOK' /\ SameTasks
    BY StopKeeps DEF OInv
  <1>2. StoresOK' /\ MailFollowsCode'
    BY <1>1 DEF OInv, StoresOK, MailFollowsCode, SameTasks, NewProcess, Elsewhere
  <1>3. LocalsOK'
    BY IdleOK DEF NewProcess, LocalsOK, LocalOK, Labels, Maybe
  <1>4. RoomOK'
    <2>1. \A e \in Emails : Waiting(e)' \subseteq Waiting(e)
      BY DEF Waiting, NewProcess
    <2> QED
      BY <2>1, FewerWait DEF NewProcess, Elsewhere
  <1> QED
    BY <1>1, <1>2, <1>3, <1>4 DEF OInv

-----------------------------------------------------------------------------
LEMMA InitInv == Init => OInv
  <1> SUFFICES ASSUME Init PROVE OInv
    OBVIOUS
  <1>1. StoresOK /\ MailFollowsCode
    BY OtpAssumption DEF Init, Mail!MailInit, StoresOK, MailFollowsCode, Maybe
  <1>2. LocalsOK
    BY IdleOK DEF Init, LocalsOK, LocalOK, Labels, Maybe
  <1>3. Mail!MailTypeOK
    BY OtpAssumption DEF Init, Mail!MailInit, Mail!MailTypeOK, Mail!TaskStates
  <1>4. RoomOK
    <2>1. ASSUME NEW e \in Emails
          PROVE  issued[e] + Cardinality(Waiting(e)) <= MaxIssues
      <3>1. Waiting(e) = {} /\ issued[e] = 0
        BY DEF Init, Waiting
      <3>2. Cardinality(Waiting(e)) = 0
        BY <3>1, FS_EmptySet
      <3> QED
        BY <3>1, <3>2, OtpAssumption
    <2> QED
      BY <2>1 DEF RoomOK
  <1> QED
    BY <1>1, <1>2, <1>3, <1>4 DEF OInv

\* A step that is not a handler's: of the clock, of the queue, or of the process.
Environment ==
  \/ \E e \in Emails : Expire(e)
  \/ WorkerStep
  \/ \E i \in Issues : Mail!LateSend(i) /\ UNCHANGED <<Elsewhere, handlerVars, phase>>
  \/ Crash \/ Shutdown

LEMMA QueueSteps ==
  ASSUME OInv,
         WorkerStep \/ \E i \in Issues :
                         Mail!LateSend(i) /\ UNCHANGED <<Elsewhere, handlerVars, phase>>
  PROVE  OInv' /\ SameTasks /\ UNCHANGED <<Elsewhere, handlerVars>>
  <1>1. /\ UNCHANGED <<Elsewhere, handlerVars, phase>>
        /\ \E i \in Issues : Mail!Fetch(i) \/ Mail!Worker(i) \/ Mail!LateSend(i)
    BY DEF WorkerStep
  <1>2. Mail!MailTypeOK' /\ SameTasks
    BY <1>1, WorkerKeeps DEF OInv
  <1>3. phase' \in {"serving", "draining", "closing"}
    BY <1>1 DEF OInv, StoresOK
  <1> QED
    BY <1>1, <1>2, <1>3, QueueKeeps

LEMMA EnvironmentKeeps ==
  ASSUME OInv, Environment
  PROVE  OInv'
  <1>1. CASE \E e \in Emails : Expire(e)
    BY <1>1, ExpireKeeps
  <1>2. CASE WorkerStep \/ \E i \in Issues :
                             Mail!LateSend(i) /\ UNCHANGED <<Elsewhere, handlerVars, phase>>
    BY <1>2, QueueSteps
  <1>3. CASE Crash
    BY <1>3, NewProcessKeeps DEF Crash
  <1>4. CASE Signal \/ StopServing
    BY <1>4, QueueKeeps, QueueRests DEF Signal, StopServing
  <1>5. CASE Exit
    BY <1>5, NewProcessKeeps DEF Exit
  <1> QED
    BY <1>1, <1>2, <1>3, <1>4, <1>5 DEF Environment, Shutdown

LEMMA HandlerKeeps ==
  ASSUME OInv, NEW h \in Handlers,
         ReceiveRequest(h) \/ ReceiveVerify(h) \/ Step(h) \/ Abort(h)
  PROVE  OInv'
  <1>1. CASE Abort(h)
    BY <1>1, RespondKeeps DEF Abort
  <1>2. CASE RequestStep(h)
    BY <1>2, RequestEmailKeeps, RequestSetKeeps, RequestEnqueueKeeps DEF RequestStep
  <1>3. CASE VerifyStep(h)
    BY <1>3, VerifyGetKeeps, VerifyEmailKeeps, VerifyDeleteKeeps DEF VerifyStep
  <1> QED
    BY <1>1, <1>2, <1>3, ReceiveRequestKeeps, ReceiveVerifyKeeps DEF Step

LEMMA StutterKeeps ==
  ASSUME OInv, UNCHANGED vars
  PROVE  OInv' /\ SameTasks
  <1>1. phase' \in {"serving", "draining", "closing"}
    BY DEF OInv, StoresOK, vars
  <1> QED
    BY <1>1, QueueKeeps, QueueRests DEF vars, Elsewhere

LEMMA NextInv == OInv /\ [Next]_vars => OInv'
  BY EnvironmentKeeps, HandlerKeeps, StutterKeeps DEF Next, Environment

(* The inductive invariant holds in every state. *)
THEOREM Invariance == Spec => []OInv
  BY InitInv, NextInv, PTL DEF Spec

(***************************************************************************)
(* TypeOK: Redis, the queue and the handlers hold what the code puts       *)
(* there, and no handler uses the number of a code it has not set or read. *)
(***************************************************************************)
THEOREM TypeCorrect == Spec => []TypeOK
  <1>1. OInv => TypeOK
    BY NullAssumption, OtpAssumption DEF OInv, TypeOK, StoresOK, LocalsOK, LocalOK
  <1> QED
    BY <1>1, Invariance, PTL

(***************************************************************************)
(* MailFollowsCode: whatever fails in between, a mail is enqueued only     *)
(* once its code is stored, and only for the address of an employee.       *)
(***************************************************************************)
THEOREM MailsFollowCodes == Spec => []MailFollowsCode
  <1>1. OInv => MailFollowsCode
    BY DEF OInv
  <1> QED
    BY <1>1, Invariance, PTL

-----------------------------------------------------------------------------
(* A code that can be used has its mail. *)

\* A handler is about to enqueue the mail of the n-th code of e.
AboutToMail(e, n) ==
  \E h \in Handlers : pc[h] = "rq_enqueue" /\ loc[h].email = e /\ loc[h].no = n

LEMMA MailedMeans ==
  StoredCodeIsMailed <=>
    \A e \in Emails :
      otp[e] # NULL => task[<<e, otp[e].no>>] # "none" \/ AboutToMail(e, otp[e].no)
  BY DEF StoredCodeIsMailed, AboutToMail

(* No code appears, and no task and no handler about to enqueue one is lost. *)
LEMMA StaysMailed ==
  ASSUME OInv, StoredCodeIsMailed,
         \A e \in Emails : otp'[e] # NULL => otp'[e] = otp[e],
         \A i \in Issues : task[i] # "none" => task'[i] # "none",
         \A h \in Handlers : pc[h] = "rq_enqueue" =>
           \/ pc'[h] = pc[h] /\ loc'[h] = loc[h]
           \/ task'[<<loc[h].email, loc[h].no>>] # "none"
  PROVE  StoredCodeIsMailed'
  <1>1. ASSUME NEW e \in Emails, otp'[e] # NULL
        PROVE  task'[<<e, otp'[e].no>>] # "none" \/ AboutToMail(e, otp[e].no)'
    <2>1. PICK n : n = otp[e].no
      OBVIOUS
    <2>2. otp'[e] = otp[e] /\ n \in 1 .. MaxIssues /\ <<e, n>> \in Issues
      BY <1>1, <2>1 DEF OInv, StoresOK, Maybe, StoredCodes, Issues
    <2>3. CASE task[<<e, n>>] # "none"
      BY <2>1, <2>2, <2>3
    <2>4. CASE AboutToMail(e, n)
      BY <2>1, <2>2, <2>4 DEF AboutToMail
    <2> QED
      BY <1>1, <2>1, <2>2, <2>3, <2>4, MailedMeans
  <1> QED
    BY <1>1 DEF StoredCodeIsMailed, AboutToMail

(* The steps of a handler that does not store or enqueue anything. *)
LEMMA OthersStayMailed ==
  ASSUME OInv, StoredCodeIsMailed, NEW h \in Handlers,
         \/ ReceiveRequest(h) \/ ReceiveVerify(h) \/ RequestEmail(h) \/ VerifyStep(h)
  PROVE  StoredCodeIsMailed'
  <1>1. /\ pc[h] # "rq_enqueue" /\ UNCHANGED queue
        /\ \E p, r : GotoWith(h, p, r)
    BY DEF ReceiveRequest, ReceiveVerify, Receive, RequestEmail, VerifyStep, VerifyGet,
           VerifyEmail,
           VerifyDelete, GiveToken, Goto, Respond
  <1>2. \A g \in Handlers \ {h} : pc'[g] = pc[g] /\ loc'[g] = loc[g]
    BY <1>1 DEF OInv, LocalsOK, GotoWith
  <1>3. \A e \in Emails : otp'[e] # NULL => otp'[e] = otp[e]
    <2>1. CASE VerifyDelete(h)
      <3>1. loc[h].email \in Emails /\ (DeleteOTP(loc[h].email) \/ UNCHANGED otp)
        BY <2>1, Serving DEF VerifyDelete
      <3> QED
        BY <3>1, FewerCodes
    <2>2. CASE ~ VerifyDelete(h)
      BY <2>2 DEF ReceiveRequest, ReceiveVerify, Receive, RequestEmail, VerifyStep, VerifyGet,
                  VerifyEmail
    <2> QED
      BY <2>1, <2>2
  <1>4. \A i \in Issues : task'[i] = task[i]
    BY <1>1 DEF queue
  <1> QED
    BY <1>1, <1>2, <1>3, <1>4, StaysMailed

\* The request that stores a code goes on to its mail.
LEMMA SetStaysMailed ==
  ASSUME OInv, StoredCodeIsMailed, NEW h \in Handlers, RequestSet(h)
  PROVE  StoredCodeIsMailed'
  <1>1. PICK f, n : f = loc[h].email /\ n = issued[f] + 1
    OBVIOUS
  <1>2. /\ pc'[h] = "rq_enqueue" /\ loc'[h].email = f /\ loc'[h].no = n
        /\ \A g \in Handlers \ {h} : pc'[g] = pc[g] /\ loc'[g] = loc[g]
        /\ otp'[f].no = n
    BY <1>1, RequestSetKeeps
  <1>3. /\ pc[h] = "rq_set" /\ UNCHANGED task
        /\ \A e \in Emails \ {f} : otp'[e] = otp[e]
    BY <1>1 DEF RequestSet, StoreCode, OInv, StoresOK, queue
  <1>4. ASSUME NEW e \in Emails, otp'[e] # NULL
        PROVE  task'[<<e, otp'[e].no>>] # "none" \/ AboutToMail(e, otp[e].no)'
    <2>1. CASE e = f
      BY <1>2, <2>1 DEF AboutToMail
    <2>2. CASE e # f
      BY <1>2, <1>3, <1>4, <2>2, MailedMeans DEF AboutToMail
    <2> QED
      BY <2>1, <2>2
  <1> QED
    BY <1>4 DEF StoredCodeIsMailed, AboutToMail

\* A handler that was about to enqueue a mail has.
LEMMA EnqueueStaysMailed ==
  ASSUME OInv, StoredCodeIsMailed, NEW h \in Handlers, RequestEnqueue(h)
  PROVE  StoredCodeIsMailed'
  <1>1. PICK i : i = <<loc[h].email, loc[h].no>>
    OBVIOUS
  <1>2. /\ pc[h] = "rq_enqueue" /\ Mail!Enqueue(i) /\ Respond(h) /\ UNCHANGED otp
    BY <1>1 DEF RequestEnqueue
  <1>3. i \in Issues
    BY <1>1, <1>2, EnqueuedIsIssued
  <1>4. task'[i] # "none" /\ \A j \in Issues \ {i} : task'[j] = task[j]
    BY <1>2, <1>3, EnqueueKeeps DEF OInv
  <1>5. \A g \in Handlers \ {h} : pc'[g] = pc[g] /\ loc'[g] = loc[g]
    BY <1>2 DEF OInv, LocalsOK, Respond, GotoWith
  <1> QED
    BY <1>1, <1>2, <1>4, <1>5, StaysMailed

LEMMA EnvironmentStaysMailed ==
  ASSUME OInv, StoredCodeIsMailed, ~ Faults, Environment
  PROVE  StoredCodeIsMailed'
  <1>1. CASE \E e \in Emails : Expire(e)
    <2>1. PICK e \in Emails : DeleteOTP(e) /\ UNCHANGED <<handlerVars, queue>>
      BY <1>1 DEF Expire, DeleteOTP
    <2> QED
      BY <2>1, FewerCodes, StaysMailed DEF handlerVars, queue
  <1>2. CASE WorkerStep \/ \E i \in Issues :
                             Mail!LateSend(i) /\ UNCHANGED <<Elsewhere, handlerVars, phase>>
    <2>1. SameTasks /\ UNCHANGED <<otp, pc, loc>>
      BY <1>2, QueueSteps DEF Elsewhere, handlerVars
    <2> QED
      BY <2>1, StaysMailed DEF SameTasks
  <1>3. CASE Signal \/ StopServing
    <2>1. UNCHANGED <<otp, pc, loc, task>>
      BY <1>3 DEF Signal, StopServing, Elsewhere, handlerVars, queue
    <2> QED
      BY <2>1, StaysMailed
  <1>4. CASE Exit
    <2>1. SameTasks /\ UNCHANGED otp /\ \A h \in Handlers : pc[h] = "idle"
      BY <1>4, NewProcessKeeps DEF Exit, NewProcess, Elsewhere, Busy
    <2> QED
      BY <2>1, StaysMailed DEF SameTasks
  <1> QED
    BY <1>1, <1>2, <1>3, <1>4 DEF Environment, Shutdown, Crash

(***************************************************************************)
(* StoredCodeIsMailed: while no command fails, a code that can be used has *)
(* its mail in the queue or is about to, however the commands of any       *)
(* number of requests for an address mix, and across orderly shutdowns.    *)
(***************************************************************************)
THEOREM StoredCodesAreMailed ==
  ASSUME ~ Faults
  PROVE  Spec => []StoredCodeIsMailed
  <1>1. Init => StoredCodeIsMailed
    BY DEF Init, StoredCodeIsMailed
  <1>2. OInv /\ StoredCodeIsMailed /\ [Next]_vars => StoredCodeIsMailed'
    <2> SUFFICES ASSUME OInv, StoredCodeIsMailed, [Next]_vars
                 PROVE  StoredCodeIsMailed'
      OBVIOUS
    <2>1. ASSUME NEW h \in Handlers,
                 ReceiveRequest(h) \/ ReceiveVerify(h) \/ Step(h) \/ Abort(h)
          PROVE  StoredCodeIsMailed'
      BY <2>1, OthersStayMailed, SetStaysMailed, EnqueueStaysMailed DEF Step, RequestStep, Abort
    <2>2. CASE UNCHANGED vars
      BY <2>2 DEF StoredCodeIsMailed, vars, handlerVars, queue
    <2> QED
      BY <2>1, <2>2, EnvironmentStaysMailed DEF Next, Environment
  <1> QED
    BY <1>1, <1>2, Invariance, PTL DEF Spec

-----------------------------------------------------------------------------
(* A verification removes its own code. *)

\* An address has one request under way, where apps wait for their answers.
OneEach == \A g, h \in Busy : loc[g].email = loc[h].email => g = h

\* The code a verification has checked is the one that is stored, while one is.
Checked ==
  \A h \in Handlers : pc[h] \in {"vf_email", "vf_delete"} =>
    LET stored == otp[loc[h].email] IN
      stored # NULL => stored.no = loc[h].no /\ stored.code = loc[h].code

OwnCodeInv == OneEach /\ Checked

(* A handler ends, or goes on with its address. *)
LEMMA GoesOnAlone ==
  ASSUME OInv, OneEach, NEW h \in Handlers, NEW p, NEW r, GotoWith(h, p, r),
         p # "idle" => pc[h] # "idle" /\ r.email = loc[h].email
  PROVE  OneEach'
  <1>1. /\ \A g \in Handlers \ {h} : pc'[g] = pc[g] /\ loc'[g] = loc[g]
        /\ pc'[h] = p /\ loc'[h] = r
    BY DEF OInv, LocalsOK, GotoWith
  <1> QED
    BY <1>1 DEF OneEach, Busy

(* No stored code appears, and h does not come to hold a checked code. *)
LEMMA StaysChecked ==
  ASSUME OInv, Checked, NEW h \in Handlers, NEW p, NEW r, GotoWith(h, p, r),
         p \in {"vf_email", "vf_delete"} => pc[h] \in {"vf_email", "vf_delete"} /\ r = loc[h],
         \A e \in Emails : otp'[e] # NULL => otp'[e] = otp[e]
  PROVE  Checked'
  <1>1. /\ \A g \in Handlers \ {h} : pc'[g] = pc[g] /\ loc'[g] = loc[g]
        /\ pc'[h] = p /\ loc'[h] = r
    BY DEF OInv, LocalsOK, GotoWith
  <1>2. ASSUME NEW g \in Handlers, pc'[g] \in {"vf_email", "vf_delete"},
               otp'[loc'[g].email] # NULL
        PROVE  otp'[loc'[g].email].no = loc'[g].no /\ otp'[loc'[g].email].code = loc'[g].code
    <2>1. pc[g] \in {"vf_email", "vf_delete"} /\ loc'[g] = loc[g]
      BY <1>1, <1>2
    <2>2. loc[g].email \in Emails
      BY <2>1, Serving
    <2> QED
      BY <1>2, <2>1, <2>2 DEF Checked
  <1> QED
    BY <1>2 DEF Checked

LEMMA ReceiveOwn ==
  ASSUME OInv, OwnCodeInv, SerialClients, NEW h \in Handlers, NEW e \in Emails, NEW c,
         NEW p \in {"rq_email", "vf_get"}, Receive(h, e, c, p)
  PROVE  OwnCodeInv'
  <1>1. PICK r : r = [email |-> e, code |-> c, no |-> NULL]
    OBVIOUS
  <1>2. GotoWith(h, p, r) /\ UNCHANGED otp /\ r.email = e /\ pc[h] = "idle"
    BY <1>1 DEF Receive
  <1>3. /\ \A g \in Handlers \ {h} : pc'[g] = pc[g] /\ loc'[g] = loc[g]
        /\ pc'[h] = p /\ loc'[h] = r
    BY <1>2 DEF OInv, LocalsOK, GotoWith
  <1>4. \A g \in Busy : loc[g].email # e
    BY DEF Receive, MaySend
  <1>5. OneEach'
    BY <1>2, <1>3, <1>4 DEF OwnCodeInv, OneEach, Busy
  <1>6. Checked'
    BY <1>2, StaysChecked DEF OwnCodeInv
  <1> QED
    BY <1>5, <1>6 DEF OwnCodeInv

(* A code is stored only over the code of an address nobody verifies. *)
LEMMA RequestSetOwn ==
  ASSUME OInv, OwnCodeInv, NEW h \in Handlers, RequestSet(h)
  PROVE  OwnCodeInv'
  <1>1. /\ pc[h] = "rq_set" /\ pc'[h] = "rq_enqueue" /\ loc'[h].email = loc[h].email
        /\ \A g \in Handlers \ {h} : pc'[g] = pc[g] /\ loc'[g] = loc[g]
    BY RequestSetKeeps DEF RequestSet
  <1>2. \A e \in Emails \ {loc[h].email} : otp'[e] = otp[e]
    BY DEF RequestSet, StoreCode, OInv, StoresOK
  <1>3. OneEach'
    BY <1>1 DEF OwnCodeInv, OneEach, Busy
  <1>4. ASSUME NEW g \in Handlers, pc'[g] \in {"vf_email", "vf_delete"}
        PROVE  LET stored == otp'[loc'[g].email] IN
                 stored # NULL => stored.no = loc'[g].no /\ stored.code = loc'[g].code
    <2>1. g # h /\ pc[g] = pc'[g] /\ loc'[g] = loc[g]
      BY <1>1, <1>4
    <2>2. loc[g].email \in Emails \ {loc[h].email}
      BY <1>1, <1>4, <2>1, Serving DEF OwnCodeInv, OneEach, Busy
    <2> QED
      BY <1>2, <1>4, <2>1, <2>2 DEF OwnCodeInv, Checked
  <1> QED
    BY <1>3, <1>4 DEF OwnCodeInv, Checked

(* The comparison makes the code a checked one. *)
LEMMA VerifyGetOwn ==
  ASSUME OInv, OwnCodeInv, NEW h \in Handlers, VerifyGet(h)
  PROVE  OwnCodeInv'
  <1>1. /\ pc[h] = "vf_get" /\ UNCHANGED otp
        /\ loc[h] \in Requests /\ loc[h].email \in Emails
    BY Serving DEF VerifyGet
  <1>2. CASE Respond(h)
    BY <1>1, <1>2, GoesOnAlone, StaysChecked DEF OwnCodeInv, Respond
  <1>3. CASE ~ Respond(h)
    <2>1. PICK s, n, r :
            /\ s = otp[loc[h].email] /\ n = s.no /\ r = [loc[h] EXCEPT !.no = n]
      OBVIOUS
    <2>2. s # NULL /\ s.code = loc[h].code /\ GotoWith(h, "vf_email", r)
      BY <1>3, <2>1 DEF VerifyGet
    <2>3. n \in 1 .. MaxIssues
      BY <1>1, <2>1, <2>2 DEF OInv, StoresOK, Maybe, StoredCodes
    <2>4. r.email = loc[h].email /\ r.no = n /\ r.code = loc[h].code
      BY <1>1, <2>1, <2>3, NoSet
    <2>5. OneEach'
      BY <1>1, <2>2, <2>4, GoesOnAlone DEF OwnCodeInv
    <2>6. /\ \A g \in Handlers \ {h} : pc'[g] = pc[g] /\ loc'[g] = loc[g]
          /\ pc'[h] = "vf_email" /\ loc'[h] = r
      BY <2>2 DEF OInv, LocalsOK, GotoWith
    <2>7. Checked'
      <3>1. ASSUME NEW g \in Handlers, pc'[g] \in {"vf_email", "vf_delete"},
                   otp'[loc'[g].email] # NULL
            PROVE  otp'[loc'[g].email].no = loc'[g].no /\ otp'[loc'[g].email].code = loc'[g].code
        <4>1. CASE g = h
          BY <1>1, <2>1, <2>2, <2>4, <2>6, <4>1
        <4>2. CASE g # h
          BY <1>1, <2>6, <3>1, <4>2 DEF OwnCodeInv, Checked
        <4> QED
          BY <4>1, <4>2
      <3> QED
        BY <3>1 DEF Checked
    <2> QED
      BY <2>5, <2>7 DEF OwnCodeInv
  <1> QED
    BY <1>2, <1>3

\* The other steps of a handler.
LEMMA OthersOwn ==
  ASSUME OInv, OwnCodeInv, NEW h \in Handlers,
         \/ RequestEmail(h) \/ RequestEnqueue(h) \/ VerifyEmail(h) \/ VerifyDelete(h) \/ Abort(h)
  PROVE  OwnCodeInv'
  <1>1. \A e \in Emails : otp'[e] # NULL => otp'[e] = otp[e]
    <2>1. CASE VerifyDelete(h)
      <3>1. loc[h].email \in Emails /\ (DeleteOTP(loc[h].email) \/ UNCHANGED otp)
        BY <2>1, Serving DEF VerifyDelete
      <3> QED
        BY <3>1, FewerCodes
    <2>2. CASE ~ VerifyDelete(h)
      BY <2>2 DEF RequestEmail, RequestEnqueue, VerifyEmail, Abort
    <2> QED
      BY <2>1, <2>2
  <1>2. CASE Respond(h)
    BY <1>1, <1>2, GoesOnAlone, StaysChecked DEF OwnCodeInv, Respond
  <1>3. CASE pc[h] = "rq_email" /\ Goto(h, "rq_set")
    BY <1>1, <1>3, GoesOnAlone, StaysChecked DEF OwnCodeInv, Goto
  <1>4. CASE pc[h] = "vf_email" /\ Goto(h, "vf_delete")
    BY <1>1, <1>4, GoesOnAlone, StaysChecked DEF OwnCodeInv, Goto
  <1> QED
    BY <1>2, <1>3, <1>4
       DEF RequestEmail, RequestEnqueue, VerifyEmail, VerifyDelete, GiveToken, Abort

(* Codes that expire, mails, and the end of the process. *)
LEMMA EnvironmentOwn ==
  ASSUME OInv, OwnCodeInv, Environment
  PROVE  OwnCodeInv'
  <1>1. CASE \E e \in Emails : Expire(e)
    <2>1. PICK e \in Emails : DeleteOTP(e) /\ UNCHANGED handlerVars
      BY <1>1 DEF Expire, DeleteOTP
    <2>2. \A f \in Emails : otp'[f] # NULL => otp'[f] = otp[f]
      BY <2>1, FewerCodes
    <2>3. UNCHANGED <<pc, loc>>
      BY <2>1 DEF handlerVars
    <2>4. OneEach'
      BY <2>3 DEF OwnCodeInv, OneEach, Busy
    <2>5. Checked'
      <3>1. \A g \in Handlers : pc[g] \in {"vf_email", "vf_delete"} => loc[g].email \in Emails
        BY Serving
      <3> QED
        BY <2>2, <2>3, <3>1 DEF OwnCodeInv, Checked
    <2> QED
      BY <2>4, <2>5 DEF OwnCodeInv
  <1>2. CASE UNCHANGED <<otp, pc, loc>>
    BY <1>2 DEF OwnCodeInv, OneEach, Busy, Checked
  <1>3. CASE NewProcess
    BY <1>3 DEF NewProcess, OwnCodeInv, OneEach, Busy, Checked
  <1>4. CASE WorkerStep \/ \E i \in Issues :
                             Mail!LateSend(i) /\ UNCHANGED <<Elsewhere, handlerVars, phase>>
    BY <1>2, <1>4, QueueSteps DEF Elsewhere, handlerVars
  <1> QED
    BY <1>1, <1>2, <1>3, <1>4
       DEF Environment, Shutdown, Crash, Exit, Signal, StopServing, Elsewhere, handlerVars

(***************************************************************************)
(* OwnCodeRemoved: where each app waits for its answers, a verification    *)
(* removes the code it was given and no other, whatever fails: a newer     *)
(* code survives the verification of an older one.                         *)
(***************************************************************************)
THEOREM OwnCodesRemoved ==
  ASSUME SerialClients
  PROVE  Spec => OwnCodeRemoved
  <1>1. Init => OwnCodeInv
    BY DEF Init, OwnCodeInv, OneEach, Busy, Checked
  <1>2. OInv /\ OwnCodeInv /\ [Next]_vars => OwnCodeInv'
    <2> SUFFICES ASSUME OInv, OwnCodeInv, [Next]_vars
                 PROVE  OwnCodeInv'
      OBVIOUS
    <2>1. ASSUME NEW h \in Handlers,
                 ReceiveRequest(h) \/ ReceiveVerify(h) \/ Step(h) \/ Abort(h)
          PROVE  OwnCodeInv'
      BY <2>1, ReceiveOwn, RequestSetOwn, VerifyGetOwn, OthersOwn
         DEF Step, RequestStep, VerifyStep, ReceiveRequest, ReceiveVerify
    <2>2. CASE UNCHANGED vars
      BY <2>2 DEF OwnCodeInv, OneEach, Busy, Checked, vars, handlerVars
    <2> QED
      BY <2>1, <2>2, EnvironmentOwn DEF Next, Environment
  <1>3. OwnCodeInv /\ [Next]_vars =>
          [\A h \in Handlers :
             pc[h] = "vf_delete" /\ pc'[h] = "idle" =>
               LET stored == otp[loc[h].email] IN
                 stored # NULL => stored.no = loc[h].no /\ stored.code = loc[h].code]_vars
    BY DEF OwnCodeInv, Checked
  <1> QED
    BY <1>1, <1>2, <1>3, Invariance, PTL DEF Spec, OwnCodeRemoved

-----------------------------------------------------------------------------
(* The queue of the login service is a mail queue. *)

QueueProofs == INSTANCE MailQueueProofs WITH Tasks <- Issues

\* There are finitely many mails, as MailQueue assumes.
LEMMA FinitelyManyMails == QueueProofs!IsFiniteSet(Issues)
  <1>1. IsFiniteSet(Issues)
    <2>1. IsFiniteSet(1 .. MaxIssues)
      BY FS_Interval, OtpAssumption
    <2> QED
      BY <2>1, FS_Product, OtpAssumption DEF Issues
  <1> QED
    BY <1>1, Zenon DEF IsFiniteSet, QueueProofs!IsFiniteSet

LEMMA SameCardinality == \A S : Mail!Cardinality(S) = QueueProofs!Cardinality(S)
  BY Zenon DEF Mail!Cardinality, QueueProofs!Cardinality

(* Whatever the handlers do, the queue takes steps of MailQueue or none. *)
LEMMA QueueStep ==
  ASSUME OInv, [Next]_vars
  PROVE  [Mail!MailNext]_(Mail!mailVars)
  <1>1. ASSUME NEW h \in Handlers, RequestEnqueue(h)
        PROVE  Mail!MailNext
    BY <1>1, EnqueuedIsIssued DEF RequestEnqueue, Mail!MailNext
  <1>2. ASSUME NEW h \in Handlers, ~ RequestEnqueue(h),
               ReceiveRequest(h) \/ ReceiveVerify(h) \/ Step(h) \/ Abort(h)
        PROVE  UNCHANGED queue
    BY <1>2 DEF ReceiveRequest, ReceiveVerify, Receive, Step, RequestStep, VerifyStep, Abort,
                RequestEmail, RequestSet, VerifyGet, VerifyEmail, VerifyDelete
  <1>3. WorkerStep \/ (\E i \in Issues : Mail!LateSend(i)) \/ Crash \/ Exit => Mail!MailNext
    BY DEF WorkerStep, Crash, Exit, Mail!MailNext, Mail!WorkerNext
  <1>4. (\E e \in Emails : Expire(e)) \/ Signal \/ StopServing \/ UNCHANGED vars =>
          UNCHANGED queue
    BY DEF Expire, Signal, StopServing, vars
  <1>5. UNCHANGED queue => UNCHANGED Mail!mailVars
    BY DEF queue, Mail!mailVars
  <1> QED
    BY <1>1, <1>2, <1>3, <1>4, <1>5 DEF Next, Shutdown

(***************************************************************************)
(* What MailQueue promises holds of the queue inside the login service,    *)
(* whatever its handlers, crashes and shutdowns do: an employee gets no    *)
(* more copies of a code than attempts were made (CopiesBounded), and a    *)
(* task that is completed or archived was sent or tried to the end         *)
(* (SettledHonestly).                                                      *)
(***************************************************************************)
THEOREM LoginsKeepQueuePromises == Spec => [](Mail!CopiesBounded /\ Mail!SettledHonestly)
  <1>1. Mail!MailInit => QueueProofs!MailInit
    BY DEF Mail!MailInit, QueueProofs!MailInit
  <1>2. [Mail!MailNext]_(Mail!mailVars) => [QueueProofs!MailNext]_(QueueProofs!mailVars)
    <2>1. ASSUME NEW t \in Issues
          PROVE  /\ Mail!Enqueue(t) => QueueProofs!Enqueue(t)
                 /\ Mail!Fetch(t) => QueueProofs!Fetch(t)
                 /\ Mail!Worker(t) => QueueProofs!Worker(t)
                 /\ Mail!LateSend(t) => QueueProofs!LateSend(t)
      BY SameCardinality, Zenon
         DEF Mail!Enqueue, QueueProofs!Enqueue, Mail!Fetch, QueueProofs!Fetch, Mail!Worker,
             QueueProofs!Worker, Mail!LateSend, QueueProofs!LateSend, Mail!SendSucceeds,
             QueueProofs!SendSucceeds, Mail!SendFails, QueueProofs!SendFails, Mail!SendTimesOut,
             QueueProofs!SendTimesOut, Mail!Active, QueueProofs!Active, Mail!MaybeAccepted,
             QueueProofs!MaybeAccepted, Mail!Fail, QueueProofs!Fail
    <2>2. (Mail!Restart => QueueProofs!Restart) /\ (Mail!Crash => QueueProofs!Crash)
      BY Zenon
         DEF Mail!Restart, QueueProofs!Restart, Mail!Crash, QueueProofs!Crash, Mail!Stop,
             QueueProofs!Stop, Mail!Active, QueueProofs!Active, Mail!MaybeAccepted,
             QueueProofs!MaybeAccepted, Mail!Fail, QueueProofs!Fail
    <2>3. UNCHANGED Mail!mailVars => UNCHANGED QueueProofs!mailVars
      BY DEF Mail!mailVars, QueueProofs!mailVars
    <2> QED
      BY <2>1, <2>2, <2>3
         DEF Mail!MailNext, Mail!WorkerNext, QueueProofs!MailNext, QueueProofs!WorkerNext
  <1>3. /\ QueueProofs!CopiesBounded => Mail!CopiesBounded
        /\ QueueProofs!SettledHonestly => Mail!SettledHonestly
    BY DEF Mail!CopiesBounded, QueueProofs!CopiesBounded, Mail!SettledHonestly,
           QueueProofs!SettledHonestly
  <1>4. Init => QueueProofs!IInv
    BY <1>1, FinitelyManyMails, OtpAssumption, QueueProofs!InitInv DEF Init
  <1>5. OInv /\ QueueProofs!IInv /\ [Next]_vars => QueueProofs!IInv'
    BY <1>2, QueueStep, FinitelyManyMails, OtpAssumption, QueueProofs!StepInv
  <1>6. QueueProofs!IInv => Mail!CopiesBounded /\ Mail!SettledHonestly
    BY <1>3, FinitelyManyMails, OtpAssumption, QueueProofs!InvBounds DEF QueueProofs!IInv
  <1> QED
    BY <1>4, <1>5, <1>6, Invariance, PTL DEF Spec
=============================================================================
