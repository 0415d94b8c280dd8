---------------------------- MODULE AlertDelivery -----------------------------
(***************************************************************************)
(* From a notification row to an email: the outbox, the email queue and    *)
(* the workers that send.                                                  *)
(*                                                                         *)
(*   worker/emailJob.ts   deliverAlert, reconcilePendingAlerts             *)
(*   worker/checkJob.ts   the enqueue after the result transaction         *)
(*   queue/queues.ts      enqueueEmail, EMAIL_JOB_OPTIONS                  *)
(*   worker.ts            emailWorker, the outbox pass of the tick         *)
(*                                                                         *)
(* BullMQ is modelled from how this code uses it: adding a job whose id is *)
(* in the queue, in any state, does nothing; a finished job stays under    *)
(* its id until it is trimmed; a job whose lock expires is handed out      *)
(* again, once, while the first worker may still be running it.            *)
(***************************************************************************)
EXTENDS Naturals, FiniteSets

CONSTANTS
  Alerts,       \* rows of "notifications", and the one job id of each
  Workers,      \* concurrent executions of handleEmailJob
  MaxAttempts,  \* MAIL_MAX_ATTEMPTS
  None          \* no worker, no alert

ASSUME MaxAttemptsAssumption == MaxAttempts \in Nat \ {0}
ASSUME NoneAssumption == None \notin Workers /\ None \notin Alerts

MaxStalls == 1  \* BullMQ's maxStalledCount

VARIABLES
  status, attempts,      \* the row; "gone" once deleted with its incident
  queue,                 \* where the job is
  made, stalls,          \* attemptsMade and stall count of the job
  holder,                \* the worker that holds the job's lock
  owed,                  \* enqueue calls about to be made
  stage, alert,          \* where each worker is, and in which job
  number, seen,          \* attempt number of the job, row attempts as read
  sends, delivered,      \* history: SMTP transactions begun, copies accepted
  fault                  \* history: an event after which a copy may be resent

row == <<status, attempts>>
jobs == <<queue, made, stalls, holder>>
runs == <<stage, alert, number, seen>>
history == <<sends, delivered, fault>>
vars == <<row, jobs, owed, runs, history>>

-----------------------------------------------------------------------------
Stages == {"idle", "fetching", "givingUp", "claiming", "sending", "accepted", "refused"}

TypeOK ==
  /\ status \in [Alerts -> {"none", "PENDING", "SENT", "FAILED", "gone"}]
  /\ attempts \in [Alerts -> Nat]
  /\ queue \in [Alerts -> {"absent", "waiting", "active", "kept"}]
  /\ made \in [Alerts -> Nat]
  /\ stalls \in [Alerts -> Nat]
  /\ holder \in [Alerts -> Workers \cup {None}]
  /\ \A a \in Alerts : queue[a] # "active" => holder[a] = None
  /\ owed \in SUBSET Alerts
  /\ stage \in [Workers -> Stages]
  /\ alert \in [Workers -> Alerts \cup {None}]
  /\ \A w \in Workers : stage[w] # "idle" => alert[w] \in Alerts
  /\ number \in [Workers -> Nat]
  /\ seen \in [Workers -> Nat]
  /\ sends \in [Alerts -> Nat]
  /\ delivered \in [Alerts -> Nat]
  /\ fault \in [Alerts -> BOOLEAN]

Init ==
  /\ status = [a \in Alerts |-> "none"]
  /\ attempts = [a \in Alerts |-> 0]
  /\ queue = [a \in Alerts |-> "absent"]
  /\ made = [a \in Alerts |-> 0]
  /\ stalls = [a \in Alerts |-> 0]
  /\ holder = [a \in Alerts |-> None]
  /\ owed = {}
  /\ stage = [w \in Workers |-> "idle"]
  /\ alert = [w \in Workers |-> None]
  /\ number = [w \in Workers |-> 0]
  /\ seen = [w \in Workers |-> 0]
  /\ sends = [a \in Alerts |-> 0]
  /\ delivered = [a \in Alerts |-> 0]
  /\ fault = [a \in Alerts |-> FALSE]

Exists(a) == status[a] \in {"PENDING", "SENT", "FAILED"}
Runs(w, a) == stage[w] # "idle" /\ alert[w] = a

-----------------------------------------------------------------------------
(* The outbox.                                                             *)

\* The result transaction commits the row; the worker that ran it will
\* enqueue the job next.
CreateAlert(a) ==
  /\ status[a] = "none"
  /\ status' = [status EXCEPT ![a] = "PENDING"]
  /\ owed' = owed \cup {a}
  /\ UNCHANGED <<attempts, jobs, runs, history>>

\* reconcilePendingAlerts selects the row; its job is added next.
NeverTried(a) == status[a] = "PENDING" /\ attempts[a] = 0  \* mutant: only fresh rows
Selected(a) == status[a] = "PENDING" /\ attempts[a] < MaxAttempts

SelectPending(a) ==
  /\ Selected(a)
  /\ a \notin owed
  /\ owed' = owed \cup {a}
  /\ UNCHANGED <<row, jobs, runs, history>>

\* enqueueEmail: a no-op while the id is in the queue, in whatever state.
NoJobId(a) == queue[a] # "waiting"  \* mutant: no deterministic job id
JobIdFree(a) == queue[a] = "absent"

EnqueueAlert(a) ==
  /\ a \in owed
  /\ owed' = owed \ {a}
  /\ \/ ~JobIdFree(a) /\ UNCHANGED jobs
     \/ /\ JobIdFree(a)
        /\ queue' = [queue EXCEPT ![a] = "waiting"]
        /\ UNCHANGED <<made, stalls, holder>>
  /\ UNCHANGED <<row, runs, history>>

\* Redis is unreachable or the process dies: the row stays PENDING.
LoseEnqueue(a) ==
  /\ a \in owed
  /\ owed' = owed \ {a}
  /\ UNCHANGED <<row, jobs, runs, history>>

\* The incident is deleted with its monitor, or by retention.
DeleteAlert(a) ==
  /\ Exists(a)
  /\ status' = [status EXCEPT ![a] = "gone"]
  /\ UNCHANGED <<attempts, jobs, owed, runs, history>>

-----------------------------------------------------------------------------
(* The queue.                                                              *)

TakeJob(w, a) ==
  /\ stage[w] = "idle"
  /\ queue[a] = "waiting"
  /\ queue' = [queue EXCEPT ![a] = "active"]
  /\ holder' = [holder EXCEPT ![a] = w]
  /\ stage' = [stage EXCEPT ![w] = "fetching"]
  /\ alert' = [alert EXCEPT ![w] = a]
  /\ number' = [number EXCEPT ![w] = made[a] + 1]
  /\ UNCHANGED <<row, made, stalls, owed, seen, history>>


EndRun(w) ==
  /\ stage' = [stage EXCEPT ![w] = "idle"]
  /\ alert' = [alert EXCEPT ![w] = None]
  /\ number' = [number EXCEPT ![w] = 0]
  /\ seen' = [seen EXCEPT ![w] = 0]

\* The handler returned; a job whose lock was lost is somebody else's.
Complete(w) ==
  LET a == alert[w] IN
  /\ EndRun(w)
  /\ queue' = [queue EXCEPT ![a] = IF holder[a] = w THEN "kept" ELSE @]
  /\ holder' = [holder EXCEPT ![a] = IF @ = w THEN None ELSE @]
  /\ UNCHANGED <<made, stalls>>

\* The handler threw: retried with backoff while the job has attempts left.
Retry(w) ==
  LET a == alert[w] IN
  /\ EndRun(w)
  /\ queue' = [queue EXCEPT ![a] =
       IF holder[a] # w THEN @ ELSE IF made[a] + 1 < MaxAttempts THEN "waiting" ELSE "kept"]
  /\ made' = [made EXCEPT ![a] = IF holder[a] = w THEN @ + 1 ELSE @]
  /\ holder' = [holder EXCEPT ![a] = IF @ = w THEN None ELSE @]
  /\ UNCHANGED stalls

\* The lock of an active job expires.
Stalled(a) ==
  /\ queue[a] = "active"
  /\ holder' = [holder EXCEPT ![a] = None]
  /\ queue' = [queue EXCEPT ![a] = IF stalls[a] < MaxStalls THEN "waiting" ELSE "kept"]
  /\ stalls' = [stalls EXCEPT ![a] = @ + 1]
  /\ UNCHANGED <<row, made, owed, runs, sends, delivered>>

\* ... because its worker died,
ExpireLock(a) ==
  /\ ~ \E w \in Workers : Runs(w, a) /\ holder[a] = w
  /\ Stalled(a)
  /\ UNCHANGED fault

\* ... or because a worker that still runs it could not renew it.
LoseLock(a) ==
  /\ \E w \in Workers : Runs(w, a) /\ holder[a] = w
  /\ Stalled(a)
  /\ fault' = [fault EXCEPT ![a] = TRUE]

\* removeOnComplete and removeOnFail, by count or age.
TrimJob(a) ==
  /\ queue[a] = "kept"
  /\ queue' = [queue EXCEPT ![a] = "absent"]
  /\ made' = [made EXCEPT ![a] = 0]
  /\ stalls' = [stalls EXCEPT ![a] = 0]
  /\ UNCHANGED <<row, holder, owed, runs, history>>

\* Redis loses its data; workers in the middle of a job carry on.
FlushQueue ==
  /\ \E a \in Alerts : queue[a] # "absent"
  /\ queue' = [a \in Alerts |-> "absent"]
  /\ made' = [a \in Alerts |-> 0]
  /\ stalls' = [a \in Alerts |-> 0]
  /\ holder' = [a \in Alerts |-> None]
  /\ fault' = [a \in Alerts |-> fault[a] \/ \E w \in Workers : Runs(w, a)]
  /\ UNCHANGED <<row, owed, runs, sends, delivered>>

-----------------------------------------------------------------------------
(* deliverAlert.                                                           *)

\* effectiveAttempt
JobAttempt(w, n) == number[w]  \* mutant: the budget is judged from the job alone
EffectiveAttempt(w, n) == IF number[w] > n + 1 THEN number[w] ELSE n + 1

\* The row is read.  Verification of the account is never withdrawn, so the
\* branch for an unverified one is not reachable.
FetchAlert(w) ==
  LET a == alert[w] IN
  /\ stage[w] = "fetching"
  /\ \/ status[a] \in {"gone", "SENT"} /\ Complete(w)
     \/ /\ status[a] \in {"PENDING", "FAILED"}
        /\ stage' = [stage EXCEPT ![w] =
             IF EffectiveAttempt(w, attempts[a]) > MaxAttempts THEN "givingUp" ELSE "claiming"]
        /\ seen' = [seen EXCEPT ![w] = attempts[a]]
        /\ UNCHANGED <<jobs, alert, number>>
  /\ UNCHANGED <<row, owed, history>>

\* A statement throws: the read, the claim, or the update that gives up or
\* records a refusal (the row has gone, or the database fails).
FailJob(w) ==
  /\ stage[w] \in {"fetching", "givingUp", "claiming", "refused"}
  /\ Retry(w)
  /\ UNCHANGED <<row, owed, history>>

GiveUp(w) ==
  LET a == alert[w] IN
  /\ stage[w] = "givingUp"
  /\ Exists(a)
  /\ status' = [status EXCEPT ![a] = "FAILED"]
  /\ Complete(w)
  /\ UNCHANGED <<attempts, owed, history>>

\* The claim matches the attempts the worker read; then send() starts.
StillPending(w) == status[alert[w]] = "PENDING"  \* mutant: attempts not compared
RowMatches(w) == status[alert[w]] = "PENDING" /\ attempts[alert[w]] = seen[w]

ClaimAlert(w) ==
  LET a == alert[w] IN
  /\ stage[w] = "claiming"
  /\ RowMatches(w)
  /\ attempts' = [attempts EXCEPT ![a] = seen[w] + 1]
  /\ stage' = [stage EXCEPT ![w] = "sending"]
  /\ sends' = [sends EXCEPT ![a] = @ + 1]
  /\ UNCHANGED <<status, jobs, owed, alert, number, seen, delivered, fault>>

LoseClaim(w) ==
  /\ stage[w] = "claiming"
  /\ ~RowMatches(w)
  /\ Complete(w)
  /\ UNCHANGED <<row, owed, history>>

\* send() resolves; or it rejects, which after DATA proves nothing.
Deliver(w) ==
  LET a == alert[w] IN
  /\ stage[w] = "sending"
  /\ \/ /\ stage' = [stage EXCEPT ![w] = "accepted"]
        /\ delivered' = [delivered EXCEPT ![a] = @ + 1]
        /\ UNCHANGED fault
     \/ /\ stage' = [stage EXCEPT ![w] = "refused"]
        /\ UNCHANGED <<delivered, fault>>
     \/ /\ stage' = [stage EXCEPT ![w] = "refused"]
        /\ delivered' = [delivered EXCEPT ![a] = @ + 1]
        /\ fault' = [fault EXCEPT ![a] = TRUE]
  /\ UNCHANGED <<row, jobs, owed, alert, number, seen, sends>>

MarkSent(w) ==
  LET a == alert[w] IN
  /\ stage[w] = "accepted"
  /\ Exists(a)
  /\ status' = [status EXCEPT ![a] = "SENT"]
  /\ Complete(w)
  /\ UNCHANGED <<attempts, owed, history>>

\* The update that records SENT throws, and lands in the handler of send().
FailMark(w) ==
  LET a == alert[w] IN
  /\ stage[w] = "accepted"
  /\ stage' = [stage EXCEPT ![w] = "refused"]
  /\ fault' = [fault EXCEPT ![a] = @ \/ status[a] # "gone"]
  /\ UNCHANGED <<row, jobs, owed, alert, number, seen, sends, delivered>>

RecordFailure(w) ==
  LET a == alert[w] IN
  /\ stage[w] = "refused"
  /\ Exists(a)
  /\ \/ /\ EffectiveAttempt(w, seen[w]) >= MaxAttempts
        /\ status' = [status EXCEPT ![a] = "FAILED"]
        /\ Complete(w)
     \/ /\ EffectiveAttempt(w, seen[w]) < MaxAttempts
        /\ status' = [status EXCEPT ![a] = "PENDING"]
        /\ Retry(w)
  /\ UNCHANGED <<attempts, owed, history>>

\* The process dies; the job stays locked until the lock expires.
Crash(w) ==
  LET a == alert[w] IN
  /\ stage[w] # "idle"
  /\ EndRun(w)
  /\ fault' = [fault EXCEPT ![a] = @ \/ stage[w] \in {"sending", "accepted", "refused"}]
  /\ UNCHANGED <<row, jobs, owed, sends, delivered>>

-----------------------------------------------------------------------------
AlertStep(a) ==
  \/ CreateAlert(a) \/ SelectPending(a) \/ EnqueueAlert(a) \/ LoseEnqueue(a)
  \/ DeleteAlert(a) \/ ExpireLock(a) \/ LoseLock(a) \/ TrimJob(a)

WorkerStep(w) ==
  \/ \E a \in Alerts : TakeJob(w, a)
  \/ FetchAlert(w) \/ FailJob(w) \/ GiveUp(w) \/ ClaimAlert(w) \/ LoseClaim(w)
  \/ Deliver(w) \/ MarkSent(w) \/ FailMark(w) \/ RecordFailure(w) \/ Crash(w)

Next ==
  \/ \E a \in Alerts : AlertStep(a)
  \/ \E w \in Workers : WorkerStep(w)
  \/ FlushQueue

Spec == Init /\ [][Next]_vars

\* The tick repeats the outbox pass, enqueueing works again and again, BullMQ
\* hands out waiting jobs and expires the locks of dead workers, and neither
\* crashes nor database errors stop every attempt at the same place.
Fairness ==
  /\ \A a \in Alerts :
       /\ WF_vars(SelectPending(a)) /\ SF_vars(EnqueueAlert(a))
       /\ WF_vars(ExpireLock(a))
       /\ SF_vars(\E w \in Workers : TakeJob(w, a))
  /\ \A w \in Workers :
       /\ SF_vars(FetchAlert(w)) /\ SF_vars(ClaimAlert(w) \/ LoseClaim(w))
       /\ WF_vars(FailJob(w)) /\ WF_vars(GiveUp(w))
       /\ WF_vars(Deliver(w)) /\ WF_vars(MarkSent(w)) /\ WF_vars(RecordFailure(w))

FairSpec == Spec /\ Fairness

\* Other mail keeps flowing, so finished jobs are trimmed sooner or later.
TrimmedSpec == FairSpec /\ \A a \in Alerts : WF_vars(TrimJob(a))

-----------------------------------------------------------------------------
(* Properties.                                                             *)

\* docs/DECISIONS.md D17: at most MAIL_MAX_ATTEMPTS SMTP transactions per
\* row, however often its job is recreated, redelivered or lost.
BudgetBoundsSends == \A a \in Alerts : sends[a] <= MaxAttempts

\* Two workers sending the same alert (the lock of one was lost) never spend
\* the same attempt.
OneSenderPerAttempt ==
  \A v, w \in Workers :
    /\ stage[v] \in {"sending", "accepted", "refused"}
    /\ stage[w] \in {"sending", "accepted", "refused"}
    /\ alert[v] = alert[w] /\ seen[v] = seen[w]
    => v = w

\* Ordinary duplicates are impossible: a second copy of an alert is only
\* accepted after a worker died or lost its lock in the middle of a delivery,
\* an ambiguous SMTP failure, or a failed write of SENT.
DuplicateNeedsFault == \A a \in Alerts : delivered[a] > 1 => fault[a]

\* An alert with budget left is not forgotten: it is sent, fails for good,
\* disappears with its incident, or uses its budget up.
NoAlertForgotten ==
  \A a \in Alerts :
    status[a] = "PENDING" /\ attempts[a] < MaxAttempts
      ~> status[a] # "PENDING" \/ attempts[a] = MaxAttempts

(* The inductive invariant.                                                *)

InDelivery(w) == stage[w] \in {"sending", "accepted", "refused"}

\* The attempts of the row count the sends, and a claim is only made below
\* the limit; the delivery in hand has an attempt of its own.
AttemptsCountSends ==
  /\ \A a \in Alerts : sends[a] = attempts[a] /\ attempts[a] <= MaxAttempts
  /\ \A w \in Workers :
       /\ stage[w] = "claiming" => seen[w] < MaxAttempts
       /\ InDelivery(w) => seen[w] < attempts[alert[w]]

\* While nothing went wrong one worker at most runs an alert, with its lock;
\* past the first read it finds the row not SENT, and the one accepted copy
\* is recorded or about to be.
CleanDelivery(a) ==
  /\ \A w \in Workers : Runs(w, a) =>
       /\ queue[a] = "active" /\ holder[a] = w
       /\ stage[w] # "fetching" => status[a] # "SENT"
       /\ stage[w] = "sending" => delivered[a] = 0
  /\ delivered[a] <= 1
  /\ delivered[a] = 1 =>
       \/ status[a] \in {"SENT", "gone"}
       \/ \E w \in Workers : Runs(w, a) /\ stage[w] = "accepted"

DeliveryInvariant ==
  /\ TypeOK
  /\ AttemptsCountSends
  /\ OneSenderPerAttempt
  /\ \A a \in Alerts : ~fault[a] => CleanDelivery(a)

-----------------------------------------------------------------------------
(* What the documentation says and the code does not do.                   *)

\* worker/emailJob.ts:187-189: "A worker that dies mid-send leaves the row
\* PENDING with `attempts` already advanced, which is what we want: the outbox
\* pass picks it up".
OutboxPicksUp == \A a \in Alerts : status[a] = "PENDING" ~> status[a] # "PENDING"
=============================================================================
