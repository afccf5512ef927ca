------------------------------ MODULE MailQueue ------------------------------
(***************************************************************************)
(* The mails with one-time passwords: tasks in a queue kept by Redis       *)
(* (asynq), run by a worker pool in the same process as the HTTP server    *)
(* (internal/worker).  A task is one mail to send.                         *)
(*                                                                         *)
(* The worker gives up on an attempt after 30 seconds and tries again, but *)
(* ProcessTask never looks at its context: the goroutine that talks to the *)
(* mail server goes on, and its mail may still leave.                      *)
(***************************************************************************)
EXTENDS Integers, FiniteSets

CONSTANTS
  Tasks,        \* identities of the tasks that may be enqueued
  MaxRetry,     \* asynq.MaxRetry: attempts after the first one
  Concurrency,  \* asynq.Config.Concurrency: attempts under way at a time
  MaxRestarts   \* bound: restarts of the process

ASSUME MailAssumption ==
  /\ IsFiniteSet(Tasks)
  /\ MaxRetry \in Nat
  /\ Concurrency \in Nat \ {0}
  /\ MaxRestarts \in Nat

TaskStates == {"none", "pending", "active", "completed", "archived"}

VARIABLES
  task,       \* task -> its state in the queue; "pending" includes waiting for a retry
  retried,    \* task -> attempts that failed
  lingering,  \* task -> attempts given up whose goroutine still talks to the mail server
  mails,      \* task -> copies the mail server has accepted
  restarts    \* times the process was stopped and started

mailVars == <<task, retried, lingering, mails, restarts>>

MailInit ==
  /\ task = [t \in Tasks |-> "none"]
  /\ retried = [t \in Tasks |-> 0]
  /\ lingering = [t \in Tasks |-> 0]
  /\ mails = [t \in Tasks |-> 0]
  /\ restarts = 0

Active == {t \in Tasks : task[t] = "active"}
Settled(t) == task[t] \in {"completed", "archived"}

\* EnqueueOTPEmail
Enqueue(t) ==
  /\ task[t] = "none"
  /\ task' = [task EXCEPT ![t] = "pending"]
  /\ UNCHANGED <<retried, lingering, mails, restarts>>

\* Seeded fault: a task that waits for a retry is never taken.
FetchNew(t) ==
  /\ task[t] = "pending" /\ retried[t] = 0
  /\ Cardinality(Active) < Concurrency
  /\ task' = [task EXCEPT ![t] = "active"]
  /\ UNCHANGED <<retried, lingering, mails, restarts>>

\* A free worker takes a task and calls ProcessTask, which calls SendOTP.
Fetch(t) ==
  /\ task[t] = "pending"
  /\ Cardinality(Active) < Concurrency
  /\ task' = [task EXCEPT ![t] = "active"]
  /\ UNCHANGED <<retried, lingering, mails, restarts>>

\* Seeded fault: one attempt too many.
FailOnceMore(T) ==
  /\ task' = [t \in Tasks |-> IF t \notin T THEN task[t]
                              ELSE IF retried[t] <= MaxRetry THEN "pending" ELSE "archived"]
  /\ retried' = [t \in Tasks |-> IF t \in T /\ retried[t] <= MaxRetry THEN retried[t] + 1
                                 ELSE retried[t]]

\* An attempt at each task of T has failed: it waits for another, or is given up.
Fail(T) ==
  /\ task' = [t \in Tasks |-> IF t \notin T THEN task[t]
                              ELSE IF retried[t] < MaxRetry THEN "pending" ELSE "archived"]
  /\ retried' = [t \in Tasks |-> IF t \in T /\ retried[t] < MaxRetry THEN retried[t] + 1
                                 ELSE retried[t]]

\* SendOTP returns nil.
SendSucceeds(t) ==
  /\ task[t] = "active"
  /\ mails' = [mails EXCEPT ![t] = @ + 1]
  /\ task' = [task EXCEPT ![t] = "completed"]
  /\ UNCHANGED <<retried, lingering, restarts>>

\* The mail server accepted the mail although its answer was lost, or it did not.
MaybeAccepted(T) ==
  \E S \in SUBSET T : mails' = [t \in Tasks |-> IF t \in S THEN mails[t] + 1 ELSE mails[t]]

\* SendOTP returns an error.
SendFails(t) ==
  /\ task[t] = "active"
  /\ MaybeAccepted({t})
  /\ Fail({t})
  /\ UNCHANGED <<lingering, restarts>>

\* Seeded fault: an attempt that has run out of time counts as done.
TimeoutCompletes(t) ==
  /\ task[t] = "active"
  /\ task' = [task EXCEPT ![t] = "completed"]
  /\ lingering' = [lingering EXCEPT ![t] = @ + 1]
  /\ UNCHANGED <<retried, mails, restarts>>

\* asynq.Timeout(30s): the worker gives the attempt up, its goroutine goes on.
SendTimesOut(t) ==
  /\ task[t] = "active"
  /\ Fail({t})
  /\ lingering' = [lingering EXCEPT ![t] = @ + 1]
  /\ UNCHANGED <<mails, restarts>>

\* A goroutine that was given up ends; nobody waits for its result.
LateSend(t) ==
  /\ lingering[t] > 0
  /\ MaybeAccepted({t})
  /\ lingering' = [lingering EXCEPT ![t] = @ - 1]
  /\ UNCHANGED <<task, retried, restarts>>

Stop ==
  /\ restarts < MaxRestarts
  /\ restarts' = restarts + 1
  /\ MaybeAccepted(Active)
  /\ lingering' = [t \in Tasks |-> 0]

(***************************************************************************)
(* Shutdown and a new start: the tasks whose attempts do not end in time   *)
(* go back to the queue, and the attempt does not count.                   *)
(***************************************************************************)
Restart ==
  /\ Stop
  /\ task' = [t \in Tasks |-> IF t \in Active THEN "pending" ELSE task[t]]
  /\ UNCHANGED retried

(***************************************************************************)
(* The process dies: the leases of its tasks run out, and asynq counts the *)
(* attempts as failed.                                                     *)
(***************************************************************************)
Crash == Stop /\ Fail(Active)

Worker(t) == SendSucceeds(t) \/ SendFails(t) \/ SendTimesOut(t)

WorkerNext == \E t \in Tasks : Fetch(t) \/ Worker(t) \/ LateSend(t)

(***************************************************************************)
(* A worker that is free takes a waiting task, and an attempt does not     *)
(* last for ever: if the mail server neither accepts nor refuses, the      *)
(* 30 seconds end it.                                                      *)
(***************************************************************************)
WorkerFairness == \A t \in Tasks : WF_mailVars(Fetch(t)) /\ WF_mailVars(Worker(t))

MailNext == (\E t \in Tasks : Enqueue(t)) \/ WorkerNext \/ Restart \/ Crash

MailSpec == MailInit /\ [][MailNext]_mailVars /\ WorkerFairness

-----------------------------------------------------------------------------
(* Properties *)

\* The queue and its counters have the types of asynq's task records.
MailTypeOK ==
  /\ task \in [Tasks -> TaskStates]
  /\ retried \in [Tasks -> 0 .. MaxRetry]
  /\ lingering \in [Tasks -> Nat]
  /\ mails \in [Tasks -> Nat]
  /\ restarts \in 0 .. MaxRestarts

(***************************************************************************)
(* However attempts overlap after timeouts, the employee gets at most one  *)
(* copy of a mail per attempt: 1 + MaxRetry, and one more for each restart *)
(* that returned the task to the queue.                                    *)
(***************************************************************************)
CopiesBounded == \A t \in Tasks : mails[t] <= 1 + MaxRetry + restarts

(***************************************************************************)
(* A task that is completed has left the process as a mail; one that is    *)
(* archived has used up its attempts.                                      *)
(***************************************************************************)
SettledHonestly ==
  \A t \in Tasks :
    /\ task[t] = "completed" => mails[t] > 0
    /\ task[t] = "archived" => retried[t] = MaxRetry

(***************************************************************************)
(* Every mail that is enqueued is sent or given up for good, whatever the  *)
(* mail server does, across restarts.                                      *)
(***************************************************************************)
TaskSettles == \A t \in Tasks : task[t] = "pending" ~> Settled(t)
=============================================================================
