------------------------------- MODULE OtpLogin -------------------------------
(***************************************************************************)
(* Login with a one-time password (RequestOTP and VerifyOTP of             *)
(* internal/usecase/auth_uc.go): a request stores a random code under the  *)
(* e-mail in Redis, with five minutes to live, and enqueues a mail with    *)
(* it; a verification that presents the stored code deletes it and gets a  *)
(* token.  Reading and deleting the code are two commands, storing it and  *)
(* enqueueing its mail as well, and other handlers run between them.       *)
(*                                                                         *)
(* The mail queue is MailQueue; its tasks are named by what they carry.    *)
(* Both live in the process of cmd/api/main.go, which a signal stops in    *)
(* two steps: first the worker, then, once requests have been answered or  *)
(* five seconds have passed, the server.                                   *)
(***************************************************************************)
EXTENDS Integers, FiniteSets

CONSTANTS
  Emails,         \* addresses clients send
  Registered,     \* those that are an employee's
  Codes,          \* six-digit codes
  Handlers,       \* request goroutines that may be in flight together
  MaxIssues,      \* bound: codes stored for an address
  MaxRetry, Concurrency, MaxRestarts,  \* of the mail queue
  SerialClients,  \* TRUE: an employee's app waits for each answer
  Faults,         \* TRUE: a statement may fail, and handlers die with the process
  NULL

ASSUME OtpAssumption ==
  /\ IsFiniteSet(Emails)
  /\ Registered \subseteq Emails
  /\ IsFiniteSet(Handlers)
  /\ MaxIssues \in Nat
  /\ MaxRetry \in Nat
  /\ Concurrency \in Nat \ {0}
  /\ MaxRestarts \in Nat
  /\ SerialClients \in BOOLEAN
  /\ Faults \in BOOLEAN

Maybe(S) == S \cup {NULL}

(***************************************************************************)
(* The n-th code stored for an address.  The number is not in Redis: it    *)
(* tells two codes with the same digits apart.                             *)
(***************************************************************************)
Issues == Emails \X (1 .. MaxIssues)

StoredCodes == [no : 1 .. MaxIssues, code : Codes]

\* The locals: the code a verification presents, the number of the code set or read.
Requests == [email : Emails, code : Maybe(Codes), no : Maybe(1 .. MaxIssues)]

\* NULL is none of the values it stands beside.
ASSUME NullAssumption == NULL \notin (1 .. MaxIssues) \cup Codes \cup StoredCodes \cup Requests

Labels == {"idle", "rq_email", "rq_set", "rq_enqueue", "vf_get", "vf_email", "vf_delete"}

VARIABLES
  otp,     \* the keys otp:<email>: address -> stored code, NULL without one
  issued,  \* address -> codes stored so far
  tokens,  \* stored code -> tokens it was exchanged for, 2 standing for several
  pc,      \* handler -> the command it is about to send
  loc,     \* handler -> its local variables, NULL when it serves no request
  phase,   \* of the process: "serving", "draining" once the worker is told to stop,
           \* "closing" once the server is
  task, retried, lingering, mails, restarts  \* of the mail queue

Mail == INSTANCE MailQueue WITH Tasks <- Issues

queue == <<task, retried, lingering, mails, restarts>>
handlerVars == <<pc, loc>>
vars == <<otp, issued, tokens, handlerVars, phase, queue>>

Init ==
  /\ otp = [e \in Emails |-> NULL]
  /\ issued = [e \in Emails |-> 0]
  /\ tokens = [i \in Issues |-> 0]
  /\ pc = [h \in Handlers |-> "idle"]
  /\ loc = [h \in Handlers |-> NULL]
  /\ phase = "serving"
  /\ Mail!MailInit

GotoWith(h, label, request) ==
  /\ pc' = [pc EXCEPT ![h] = label]
  /\ loc' = [loc EXCEPT ![h] = request]

Goto(h, label) == GotoWith(h, label, loc[h])

\* The handler answers: nothing of it remains.
Respond(h) == GotoWith(h, "idle", NULL)

Busy == {g \in Handlers : pc[g] # "idle"}
MaySend(e) == SerialClients => \A g \in Busy : loc[g].email # e

Receive(h, e, code, label) ==
  /\ pc[h] = "idle"
  /\ phase # "closing"
  /\ MaySend(e)
  /\ GotoWith(h, label, [email |-> e, code |-> code, no |-> NULL])
  /\ UNCHANGED <<otp, issued, tokens, phase, queue>>

-----------------------------------------------------------------------------
(* RequestOTP *)

\* The bound MaxIssues: every request under way finds a number.
Room(e) ==
  issued[e] + Cardinality({g \in Handlers : pc[g] \in {"rq_email", "rq_set"}
                                              /\ loc[g].email = e}) < MaxIssues

ReceiveRequest(h) ==
  \E e \in Emails : Room(e) /\ Receive(h, e, NULL, "rq_email")

\* Seeded fault: the mail is enqueued before any code is stored.
RequestEmailNoSet(h) ==
  /\ pc[h] = "rq_email"
  /\ loc[h].email \in Registered /\ Goto(h, "rq_enqueue")
  /\ UNCHANGED <<otp, issued, tokens, phase, queue>>

\* Seeded fault: the mail of the code to come is enqueued first.
RequestEmailEarly(h) ==
  /\ pc[h] = "rq_email"
  /\ loc[h].email \in Registered
  /\ GotoWith(h, "rq_enqueue", [loc[h] EXCEPT !.no = issued[loc[h].email] + 1])
  /\ UNCHANGED <<otp, issued, tokens, phase, queue>>

\* GetByEmail
RequestEmail(h) ==
  /\ pc[h] = "rq_email"
  /\ \/ loc[h].email \in Registered /\ Goto(h, "rq_set")
     \/ loc[h].email \notin Registered /\ Respond(h)
  /\ UNCHANGED <<otp, issued, tokens, phase, queue>>

\* A random code is stored, over the one that is there.
StoreCode(e, c) ==
  /\ issued' = [issued EXCEPT ![e] = @ + 1]
  /\ otp' = [otp EXCEPT ![e] = [no |-> issued[e] + 1, code |-> c]]

\* Seeded fault: the mail is forgotten.
RequestSetOnly(h) ==
  /\ pc[h] = "rq_set"
  /\ \E c \in Codes : StoreCode(loc[h].email, c)
  /\ Respond(h)
  /\ UNCHANGED <<tokens, phase, queue>>

\* SetOTP
RequestSet(h) ==
  /\ pc[h] = "rq_set"
  /\ \E c \in Codes : StoreCode(loc[h].email, c)
  /\ GotoWith(h, "rq_enqueue", [loc[h] EXCEPT !.no = issued[loc[h].email] + 1])
  /\ UNCHANGED <<tokens, phase, queue>>

RequestEnqueue(h) ==
  /\ pc[h] = "rq_enqueue"
  /\ Mail!Enqueue(<<loc[h].email, loc[h].no>>)
  /\ Respond(h)
  /\ UNCHANGED <<otp, issued, tokens, phase>>

-----------------------------------------------------------------------------
(* VerifyOTP *)

ReceiveVerify(h) == \E e \in Emails, c \in Codes : Receive(h, e, c, "vf_get")

\* Seeded fault: any code will do while there is one.
VerifyGetAny(h) ==
  /\ pc[h] = "vf_get"
  /\ otp[loc[h].email] # NULL
  /\ GotoWith(h, "vf_email", [loc[h] EXCEPT !.no = otp[loc[h].email].no])
  /\ UNCHANGED <<otp, issued, tokens, phase, queue>>

\* GetOTP, and the comparison with the code presented.
VerifyGet(h) ==
  /\ pc[h] = "vf_get"
  /\ LET stored == otp[loc[h].email] IN
       \/ stored = NULL /\ Respond(h)
       \/ stored # NULL /\ stored.code # loc[h].code /\ Respond(h)
       \/ /\ stored # NULL /\ stored.code = loc[h].code
          /\ GotoWith(h, "vf_email", [loc[h] EXCEPT !.no = stored.no])
  /\ UNCHANGED <<otp, issued, tokens, phase, queue>>

\* GetByEmail finds the employee: accounts are never removed.
VerifyEmail(h) ==
  /\ pc[h] = "vf_email"
  /\ Goto(h, "vf_delete")
  /\ UNCHANGED <<otp, issued, tokens, phase, queue>>

GiveToken(h) ==
  /\ tokens' = [tokens EXCEPT ![<<loc[h].email, loc[h].no>>] = IF @ < 2 THEN @ + 1 ELSE 2]
  /\ Respond(h)

\* Seeded fault: the code stays where it is.
VerifyKeep(h) ==
  /\ pc[h] = "vf_delete"
  /\ GiveToken(h)
  /\ UNCHANGED <<otp, issued, phase, queue>>

\* DEL otp:<email>, whatever code the address has by then.
DeleteOTP(e) == otp' = [otp EXCEPT ![e] = NULL]

\* The error of DeleteOTP is ignored: the token is given either way.
VerifyDelete(h) ==
  /\ pc[h] = "vf_delete"
  /\ \/ DeleteOTP(loc[h].email)
     \/ Faults /\ UNCHANGED otp
  /\ GiveToken(h)
  /\ UNCHANGED <<issued, phase, queue>>

-----------------------------------------------------------------------------
\* Five minutes have passed since the code was stored.
Expire(e) ==
  /\ otp[e] # NULL
  /\ otp' = [otp EXCEPT ![e] = NULL]
  /\ UNCHANGED <<issued, tokens, handlerVars, phase, queue>>

\* The next command fails, or the client hangs up.
Abort(h) ==
  /\ Faults
  /\ pc[h] # "idle"
  /\ Respond(h)
  /\ UNCHANGED <<otp, issued, tokens, phase, queue>>

Elsewhere == <<otp, issued, tokens>>

\* No handler is left; the next process starts.
NewProcess ==
  /\ pc' = [h \in Handlers |-> "idle"]
  /\ loc' = [h \in Handlers |-> NULL]
  /\ phase' = "serving"
  /\ UNCHANGED Elsewhere

\* The process that serves requests is the one that sends mails.
Crash == Faults /\ Mail!Crash /\ NewProcess

\* SIGINT or SIGTERM: the worker takes no more tasks, requests are still served.
Signal ==
  /\ phase = "serving"
  /\ restarts < MaxRestarts
  /\ phase' = "draining"
  /\ UNCHANGED <<Elsewhere, handlerVars, queue>>

(***************************************************************************)
(* workerServer.Shutdown returns and srv.Shutdown begins.  asynq hears the *)
(* signal too and shuts the worker down by itself, in which case main's    *)
(* call returns at once: attempts may still be under way.                  *)
(***************************************************************************)
StopServing ==
  /\ phase = "draining"
  /\ phase' = "closing"
  /\ UNCHANGED <<Elsewhere, handlerVars, queue>>

\* Seeded fault: the process does not wait for its handlers.
ExitAtOnce ==
  /\ phase = "closing"
  /\ Mail!Restart
  /\ NewProcess

(***************************************************************************)
(* srv.Shutdown waits for the handlers, five seconds at most, and main     *)
(* returns.  The worker has put its tasks back, or has had no time to.     *)
(***************************************************************************)
Exit ==
  /\ phase = "closing"
  /\ Busy = {} \/ Faults
  /\ Mail!Restart \/ Mail!Crash
  /\ NewProcess

RequestStep(h) == RequestEmail(h) \/ RequestSet(h) \/ RequestEnqueue(h)
VerifyStep(h) == VerifyGet(h) \/ VerifyEmail(h) \/ VerifyDelete(h)
Step(h) == RequestStep(h) \/ VerifyStep(h)

\* A worker that is told to stop finishes its attempts and takes no other.
WorkerStep ==
  /\ \E i \in Issues : (phase = "serving" /\ Mail!Fetch(i)) \/ Mail!Worker(i)
  /\ UNCHANGED <<Elsewhere, handlerVars, phase>>

Shutdown == Signal \/ StopServing \/ Exit

Next ==
  \/ \E h \in Handlers : ReceiveRequest(h) \/ ReceiveVerify(h) \/ Step(h) \/ Abort(h)
  \/ \E e \in Emails : Expire(e)
  \/ WorkerStep
  \/ \E i \in Issues : Mail!LateSend(i) /\ UNCHANGED <<Elsewhere, handlerVars, phase>>
  \/ Crash \/ Shutdown

Spec == Init /\ [][Next]_vars

(***************************************************************************)
(* A handler that can execute a command does, the workers do not all stand *)
(* still, an attempt lasts 30 seconds at most, and a shutdown that began   *)
(* comes to its end.                                                       *)
(***************************************************************************)
FairSpec ==
  /\ Spec
  /\ \A h \in Handlers : WF_vars(Step(h))
  /\ WF_vars(WorkerStep)
  /\ WF_vars(StopServing \/ Exit)

-----------------------------------------------------------------------------
(* Properties *)

\* Redis and the handlers hold what the code puts there, and no local is used before it is set.
TypeOK ==
  /\ otp \in [Emails -> Maybe(StoredCodes)]
  /\ issued \in [Emails -> 0 .. MaxIssues]
  /\ tokens \in [Issues -> 0 .. 2]
  /\ pc \in [Handlers -> Labels]
  /\ loc \in [Handlers -> Maybe(Requests)]
  /\ phase \in {"serving", "draining", "closing"}
  /\ \A h \in Handlers : pc[h] \in {"rq_enqueue", "vf_email", "vf_delete"} => loc[h].no # NULL
  /\ Mail!MailTypeOK

(***************************************************************************)
(* Whatever fails in between, a mail is enqueued only once its code is     *)
(* stored, and only for the address of an employee.                        *)
(***************************************************************************)
MailFollowsCode ==
  \A i \in Issues : task[i] # "none" => i[1] \in Registered /\ i[2] <= issued[i[1]]

(***************************************************************************)
(* As long as no command fails, a code that can be used has its mail in    *)
(* the queue or is about to: a later request never leaves the stored code  *)
(* without a mail of its own, however the two commands of several requests *)
(* mix, and no shutdown comes between them.                                *)
(***************************************************************************)
StoredCodeIsMailed ==
  \A e \in Emails :
    otp[e] # NULL =>
      \/ task[<<e, otp[e].no>>] # "none"
      \/ \E h \in Handlers : /\ pc[h] = "rq_enqueue"
                             /\ loc[h].email = e /\ loc[h].no = otp[e].no

(***************************************************************************)
(* A request for a registered address ends with the mail of its code sent  *)
(* or given up, be it by the process that comes after a shutdown.          *)
(***************************************************************************)
RequestSettles ==
  \A i \in Issues : issued[i[1]] >= i[2] ~> Mail!Settled(i)

(***************************************************************************)
(* auth_handler.go:57, "OTP is single-use": a stored code is exchanged for *)
(* at most one token.  auth_integration_test.go:217 tries a second time    *)
(* once the first has been answered.                                       *)
(***************************************************************************)
OtpIsSingleUse == \A i \in Issues : tokens[i] <= 1

(***************************************************************************)
(* A verification removes the code it was given and no other: a newer code *)
(* survives the verification of an older one, and a wrong code removes     *)
(* nothing.                                                                *)
(***************************************************************************)
OwnCodeRemoved ==
  [][\A h \in Handlers :
       pc[h] = "vf_delete" /\ pc'[h] = "idle" =>
         LET stored == otp[loc[h].email] IN
           stored # NULL => stored.no = loc[h].no /\ stored.code = loc[h].code]_vars
=============================================================================
