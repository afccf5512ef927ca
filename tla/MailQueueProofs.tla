--------------------------- MODULE MailQueueProofs ---------------------------
(***************************************************************************)
(* Proofs, for any number of tasks, retries, workers and restarts, that    *)
(* the copies of a mail are bounded and that settled tasks are honest.     *)
(***************************************************************************)
EXTENDS MailQueue, TLAPS

(***************************************************************************)
(* What a task has sent or may still send is paid for by an attempt that   *)
(* failed, a restart, or the attempt that settled it.                      *)
(***************************************************************************)
Paid(t) == retried[t] + restarts + (IF Settled(t) THEN 1 ELSE 0)
CopiesPaid == \A t \in Tasks : mails[t] + lingering[t] <= Paid(t)

IInv == MailTypeOK /\ CopiesPaid /\ SettledHonestly

-----------------------------------------------------------------------------
(* Lemmas about the parts the actions are made of. *)

\* Failing moves active tasks only to where MailTypeOK allows, and never back.
LEMMA FailTypes ==
  ASSUME MailTypeOK, NEW T \in SUBSET Tasks, Fail(T)
  PROVE  /\ task' \in [Tasks -> TaskStates]
         /\ retried' \in [Tasks -> 0 .. MaxRetry]
  BY MailAssumption DEF MailTypeOK, Fail, TaskStates

\* A mail more for each task of a subset of T, and none for another.
LEMMA AcceptedTypes ==
  ASSUME MailTypeOK, NEW T \in SUBSET Tasks, MaybeAccepted(T)
  PROVE  /\ mails' \in [Tasks -> Nat]
         /\ \A t \in Tasks : mails'[t] = mails[t] \/ (t \in T /\ mails'[t] = mails[t] + 1)
  BY DEF MailTypeOK, MaybeAccepted

(* A task that fails pays for one copy more, whether it waits or is given up. *)
LEMMA FailPays ==
  ASSUME MailTypeOK, NEW T \in SUBSET Tasks, T \subseteq Active, Fail(T), restarts' \in Nat,
         NEW t \in Tasks
  PROVE  /\ t \in T => Paid(t)' = Paid(t) - restarts + restarts' + 1
         /\ t \notin T => Paid(t)' = Paid(t) - restarts + restarts'
  <1>1. /\ retried[t] \in 0 .. MaxRetry /\ restarts \in Nat
        /\ retried'[t] = IF t \in T /\ retried[t] < MaxRetry THEN retried[t] + 1 ELSE retried[t]
        /\ task'[t] = IF t \notin T THEN task[t]
                      ELSE IF retried[t] < MaxRetry THEN "pending" ELSE "archived"
    BY MailAssumption DEF MailTypeOK, Fail
  <1>2. t \in T => task[t] = "active"
    BY DEF Active
  <1> QED
    BY <1>1, <1>2, MailAssumption DEF Paid, Settled

(* A task that fails is honest: it is given up only without attempts left. *)
LEMMA FailIsHonest ==
  ASSUME MailTypeOK, SettledHonestly, NEW T \in SUBSET Tasks, T \subseteq Active, Fail(T),
         \A t \in Tasks : mails'[t] \in Nat /\ mails'[t] >= mails[t]
  PROVE  SettledHonestly'
  BY MailAssumption DEF MailTypeOK, SettledHonestly, Fail, Active

-----------------------------------------------------------------------------
LEMMA InitInv == MailInit => IInv
  BY MailAssumption
     DEF MailInit, IInv, MailTypeOK, CopiesPaid, SettledHonestly, Paid, Settled, TaskStates

LEMMA EnqueueInv == ASSUME IInv, NEW t \in Tasks, Enqueue(t) PROVE IInv'
  BY DEF IInv, Enqueue, MailTypeOK, CopiesPaid, SettledHonestly, Paid, Settled, TaskStates

LEMMA FetchInv == ASSUME IInv, NEW t \in Tasks, Fetch(t) PROVE IInv'
  BY DEF IInv, Fetch, MailTypeOK, CopiesPaid, SettledHonestly, Paid, Settled, TaskStates

LEMMA SendSucceedsInv == ASSUME IInv, NEW t \in Tasks, SendSucceeds(t) PROVE IInv'
  BY DEF IInv, SendSucceeds, MailTypeOK, CopiesPaid, SettledHonestly, Paid, Settled, TaskStates

LEMMA LateSendInv == ASSUME IInv, NEW t \in Tasks, LateSend(t) PROVE IInv'
  <1>1. /\ mails' \in [Tasks -> Nat]
        /\ \A s \in Tasks : mails'[s] = mails[s] \/ (s = t /\ mails'[s] = mails[s] + 1)
    BY AcceptedTypes DEF IInv, LateSend
  <1>2. /\ lingering[t] > 0 /\ lingering' = [lingering EXCEPT ![t] = @ - 1]
        /\ task' = task /\ retried' = retried /\ restarts' = restarts
    BY DEF LateSend
  <1>3. MailTypeOK'
    BY <1>1, <1>2 DEF IInv, MailTypeOK
  <1>4. CopiesPaid'
    <2> SUFFICES ASSUME NEW s \in Tasks PROVE (mails[s] + lingering[s] <= Paid(s))'
      BY DEF CopiesPaid
    <2>1. Paid(s)' = Paid(s) /\ Paid(s) \in Nat
      BY <1>2, MailAssumption DEF IInv, MailTypeOK, Paid, Settled
    <2>2. /\ mails[s] \in Nat /\ lingering[s] \in Nat /\ mails[s] + lingering[s] <= Paid(s)
          /\ lingering'[s] = IF s = t THEN lingering[s] - 1 ELSE lingering[s]
      BY <1>2 DEF IInv, MailTypeOK, CopiesPaid
    <2> QED
      BY <1>1, <2>1, <2>2
  <1>5. SettledHonestly'
    BY <1>1, <1>2 DEF IInv, MailTypeOK, SettledHonestly
  <1> QED
    BY <1>3, <1>4, <1>5 DEF IInv

LEMMA SendFailsInv == ASSUME IInv, NEW t \in Tasks, SendFails(t) PROVE IInv'
  <1>1. /\ {t} \subseteq Active /\ {t} \in SUBSET Tasks
        /\ restarts' = restarts /\ lingering' = lingering
        /\ Fail({t}) /\ MaybeAccepted({t})
    BY DEF SendFails, Active
  <1>2. /\ mails' \in [Tasks -> Nat]
        /\ \A s \in Tasks : mails'[s] = mails[s] \/ (s = t /\ mails'[s] = mails[s] + 1)
    BY <1>1, AcceptedTypes DEF IInv
  <1>3. MailTypeOK'
    BY <1>1, <1>2, FailTypes DEF IInv, MailTypeOK
  <1>4. CopiesPaid'
    <2> SUFFICES ASSUME NEW s \in Tasks PROVE (mails[s] + lingering[s] <= Paid(s))'
      BY DEF CopiesPaid
    <2>1. restarts \in Nat /\ mails[s] \in Nat /\ lingering[s] \in Nat /\ Paid(s) \in Nat
      BY MailAssumption DEF IInv, MailTypeOK, Paid
    <2>2. /\ s = t => Paid(s)' = Paid(s) - restarts + restarts' + 1
          /\ s # t => Paid(s)' = Paid(s) - restarts + restarts'
      BY <1>1, <2>1, FailPays DEF IInv
    <2> QED
      BY <1>1, <1>2, <2>1, <2>2 DEF IInv, CopiesPaid
  <1>5. \A s \in Tasks : mails'[s] \in Nat /\ mails'[s] >= mails[s]
    BY <1>2 DEF IInv, MailTypeOK
  <1>6. SettledHonestly'
    BY <1>1, <1>5, FailIsHonest DEF IInv
  <1> QED
    BY <1>3, <1>4, <1>6 DEF IInv

LEMMA SendTimesOutInv == ASSUME IInv, NEW t \in Tasks, SendTimesOut(t) PROVE IInv'
  <1>1. /\ {t} \subseteq Active /\ {t} \in SUBSET Tasks
        /\ restarts' = restarts /\ mails' = mails
        /\ lingering' = [lingering EXCEPT ![t] = @ + 1]
        /\ Fail({t})
    BY DEF SendTimesOut, Active
  <1>2. MailTypeOK'
    BY <1>1, FailTypes DEF IInv, MailTypeOK
  <1>3. CopiesPaid'
    <2> SUFFICES ASSUME NEW s \in Tasks PROVE (mails[s] + lingering[s] <= Paid(s))'
      BY DEF CopiesPaid
    <2>1. /\ restarts \in Nat /\ mails[s] \in Nat /\ lingering[s] \in Nat /\ Paid(s) \in Nat
          /\ lingering'[s] = IF s = t THEN lingering[s] + 1 ELSE lingering[s]
      BY <1>1, MailAssumption DEF IInv, MailTypeOK, Paid
    <2>2. /\ s = t => Paid(s)' = Paid(s) - restarts + restarts' + 1
          /\ s # t => Paid(s)' = Paid(s) - restarts + restarts'
      BY <1>1, <2>1, FailPays DEF IInv
    <2> QED
      BY <1>1, <2>1, <2>2 DEF IInv, CopiesPaid
  <1>4. \A s \in Tasks : mails'[s] \in Nat /\ mails'[s] >= mails[s]
    BY <1>1 DEF IInv, MailTypeOK
  <1>5. SettledHonestly'
    BY <1>1, <1>4, FailIsHonest DEF IInv
  <1> QED
    BY <1>2, <1>3, <1>5 DEF IInv

(* What a stop leaves behind, before its tasks are returned or failed. *)
LEMMA StopLeaves ==
  ASSUME IInv, Stop
  PROVE  /\ restarts' \in 0 .. MaxRestarts /\ restarts' = restarts + 1
         /\ lingering' = [t \in Tasks |-> 0]
         /\ mails' \in [Tasks -> Nat]
         /\ \A s \in Tasks : /\ mails'[s] \in Nat /\ mails'[s] >= mails[s]
                             /\ mails'[s] <= mails[s] + 1
  <1>1. /\ mails' \in [Tasks -> Nat]
        /\ \A t \in Tasks : mails'[t] = mails[t] \/ mails'[t] = mails[t] + 1
    BY AcceptedTypes DEF IInv, Stop, Active
  <1> QED
    BY <1>1, MailAssumption DEF IInv, MailTypeOK, Stop

LEMMA RestartInv == ASSUME IInv, Restart PROVE IInv'
  <1>1. /\ task' = [t \in Tasks |-> IF t \in Active THEN "pending" ELSE task[t]]
        /\ retried' = retried /\ Stop
    BY DEF Restart
  <1>2. MailTypeOK'
    BY <1>1, StopLeaves DEF IInv, MailTypeOK, TaskStates
  <1>3. CopiesPaid'
    <2> SUFFICES ASSUME NEW s \in Tasks PROVE (mails[s] + lingering[s] <= Paid(s))'
      BY DEF CopiesPaid
    <2>1. /\ retried[s] \in Nat /\ restarts \in Nat /\ mails[s] \in Nat /\ lingering[s] \in Nat
          /\ mails[s] + lingering[s] <= Paid(s)
      BY MailAssumption DEF IInv, MailTypeOK, CopiesPaid
    <2>2. Paid(s)' = Paid(s) + 1
      BY <1>1, <2>1, StopLeaves DEF Paid, Settled, Active
    <2> QED
      BY <2>1, <2>2, <1>1, StopLeaves DEF Paid
  <1>4. SettledHonestly'
    BY <1>1, StopLeaves DEF IInv, MailTypeOK, SettledHonestly, Active
  <1> QED
    BY <1>2, <1>3, <1>4 DEF IInv

LEMMA CrashInv == ASSUME IInv, Crash PROVE IInv'
  <1>1. Active \in SUBSET Tasks /\ Active \subseteq Active /\ Fail(Active) /\ Stop
    BY DEF Crash, Active
  <1>2. MailTypeOK'
    BY <1>1, FailTypes, StopLeaves DEF IInv, MailTypeOK
  <1>3. CopiesPaid'
    <2> SUFFICES ASSUME NEW s \in Tasks PROVE (mails[s] + lingering[s] <= Paid(s))'
      BY DEF CopiesPaid
    <2>1. /\ retried[s] \in Nat /\ restarts \in Nat /\ mails[s] \in Nat /\ lingering[s] \in Nat
          /\ Paid(s) \in Nat
          /\ mails[s] + lingering[s] <= Paid(s)
      BY MailAssumption DEF IInv, MailTypeOK, CopiesPaid, Paid
    <2>2. restarts' = restarts + 1 /\ restarts' \in Nat
      BY <1>1, <2>1, StopLeaves
    <2>3. Paid(s)' >= Paid(s) + 1
      BY <1>1, <2>1, <2>2, FailPays DEF IInv
    <2>4. Paid(s)' \in Int
      BY <1>1, <2>1, <2>2, FailPays DEF IInv
    <2> QED
      BY <1>1, <2>1, <2>3, <2>4, StopLeaves
  <1>4. SettledHonestly'
    BY <1>1, StopLeaves, FailIsHonest DEF IInv
  <1> QED
    BY <1>2, <1>3, <1>4 DEF IInv

LEMMA StepInv == IInv /\ [MailNext]_mailVars => IInv'
  <1> SUFFICES ASSUME IInv, [MailNext]_mailVars PROVE IInv'
    OBVIOUS
  <1>1. ASSUME NEW t \in Tasks, Enqueue(t) PROVE IInv'
    BY <1>1, EnqueueInv
  <1>2. ASSUME NEW t \in Tasks, Fetch(t) PROVE IInv'
    BY <1>2, FetchInv
  <1>3. ASSUME NEW t \in Tasks, SendSucceeds(t) PROVE IInv'
    BY <1>3, SendSucceedsInv
  <1>4. ASSUME NEW t \in Tasks, SendFails(t) PROVE IInv'
    BY <1>4, SendFailsInv
  <1>5. ASSUME NEW t \in Tasks, SendTimesOut(t) PROVE IInv'
    BY <1>5, SendTimesOutInv
  <1>6. ASSUME NEW t \in Tasks, LateSend(t) PROVE IInv'
    BY <1>6, LateSendInv
  <1>7. CASE Restart
    BY <1>7, RestartInv
  <1>8. CASE Crash
    BY <1>8, CrashInv
  <1>9. CASE UNCHANGED mailVars
    BY <1>9 DEF IInv, mailVars, MailTypeOK, CopiesPaid, SettledHonestly, Paid, Settled
  <1> QED
    BY <1>1, <1>2, <1>3, <1>4, <1>5, <1>6, <1>7, <1>8, <1>9 DEF MailNext, WorkerNext, Worker

(* Attempts that are paid for are bounded. *)
LEMMA InvBounds == IInv => CopiesBounded
  <1> SUFFICES ASSUME IInv, NEW t \in Tasks PROVE mails[t] <= 1 + MaxRetry + restarts
    BY DEF CopiesBounded
  <1>1. /\ mails[t] \in Nat /\ lingering[t] \in Nat
        /\ retried[t] \in 0 .. MaxRetry /\ restarts \in Nat
        /\ mails[t] + lingering[t] <= Paid(t)
    BY MailAssumption DEF IInv, MailTypeOK, CopiesPaid
  <1> QED
    BY <1>1, MailAssumption DEF Paid

(* The inductive invariant holds of every behaviour, fair or not. *)
THEOREM Invariance == MailSpec => []IInv
  BY InitInv, StepInv, PTL DEF MailSpec

(***************************************************************************)
(* The queue, its counters and the worker keep their types: no attempt is  *)
(* made beyond asynq.MaxRetry.                                             *)
(***************************************************************************)
THEOREM TypeCorrect == MailSpec => []MailTypeOK
  <1>1. IInv => MailTypeOK
    BY DEF IInv
  <1> QED
    BY <1>1, Invariance, PTL

(***************************************************************************)
(* An employee gets at most 1 + MaxRetry copies of a mail, and one more    *)
(* for each restart, however attempts overlap after timeouts.              *)
(***************************************************************************)
THEOREM CopiesAreBounded == MailSpec => []CopiesBounded
  BY InvBounds, Invariance, PTL

(***************************************************************************)
(* A completed task has sent its mail; an archived one has used up its     *)
(* attempts.                                                               *)
(***************************************************************************)
THEOREM SettledTasksAreHonest == MailSpec => []SettledHonestly
  <1>1. IInv => SettledHonestly
    BY DEF IInv
  <1> QED
    BY <1>1, Invariance, PTL
=============================================================================
