--------------------------- MODULE IncidentTracking ---------------------------
(***************************************************************************)
(* How a check result becomes a monitor state and an incident, and how the *)
(* edits of a monitor race with it.                                        *)
(*                                                                         *)
(*   worker/checkJob.ts          handleCheckJob                            *)
(*   monitoring/resultProcessor.ts  processCheckResult, applyResult        *)
(*   domain/monitors.ts          createMonitor, updateMonitor, delete      *)
(*                                                                         *)
(* A WORKER is one BullMQ concurrency slot running one check job.  A       *)
(* CLIENT is one PATCH request being served by the API.  Both talk to      *)
(* Postgres at READ COMMITTED: reads see the last committed row, writers   *)
(* queue on row locks.  The processing transaction locks the monitor row   *)
(* first and the open incident second; the edit transaction takes the same *)
(* two locks in the opposite order, so Postgres may have to abort one.     *)
(***************************************************************************)
EXTENDS Naturals, FiniteSets

CONSTANTS
  Monitors,    \* ids of monitors (a deleted id is never reused)
  Slots,       \* scheduled instants; (monitor, slot) is the idempotency key
  Workers,     \* concurrent executions of handleCheckJob
  Clients,     \* concurrent PATCH /monitors/:id requests
  Urls,        \* targets a monitor may be pointed at
  Threshold,   \* FAILURE_THRESHOLD
  Patches,     \* the request bodies clients send
  None         \* absent value

Pausing == {"absent", "true", "false"}

ASSUME ThresholdAssumption == Threshold \in Nat \ {0}
ASSUME NoneAssumption == None \notin Urls /\ None \notin {"UP", "DOWN"}
ASSUME PatchesAssumption ==
  Patches \subseteq [paused : Pausing, url : Urls \cup {None}]

VARIABLES
  life, paused, url, state, failures,  \* rows of "monitors", by column
  recorded,  \* slots with a row in "checks", per monitor
  incident,  \* rows of "incidents", named by the slot whose result opened them
  notified,  \* kinds of "notifications" rows of each incident
  jobs,      \* slots with a job in the checks queue, not yet acknowledged
  stage,     \* where each worker is in its job
  job,       \* the job, and the URL it read
  answer,    \* the outcome of its check, then the status of its processing
  phase,     \* where each client is in its request
  edit,      \* the request, and the copy of the row it works from
  held,      \* incidents it has closed and not yet committed
  streak     \* history: the failed slots since the last success or reset

row == <<life, paused, url, state, failures>>
rows == <<row, recorded, incident, notified, streak>>
runs == <<stage, job, answer>>
edits == <<phase, edit, held>>
vars == <<rows, jobs, runs, edits>>

-----------------------------------------------------------------------------
Outcomes == {"UP", "DOWN"}
CloseReasons == {"RECOVERED", "MONITOR_PAUSED", "MONITOR_RECONFIGURED"}
Verdicts == {"recorded", "duplicate", "monitor_missing", "monitor_paused"}

Job == [mon : Monitors, slot : Slots, url : Urls]
Edit == [mon : Monitors, paused : Pausing, url : Urls \cup {None},
         wasPaused : BOOLEAN, wasUrl : Urls]

TypeOK ==
  /\ life \in [Monitors -> {"new", "live", "deleted"}]
  /\ paused \in [Monitors -> BOOLEAN]
  /\ url \in [Monitors -> Urls]
  /\ state \in [Monitors -> {"PENDING", "UP", "DOWN"}]
  /\ failures \in [Monitors -> Nat]
  /\ recorded \in [Monitors -> SUBSET Slots]
  /\ incident \in [Monitors -> [Slots -> {"absent", "open"} \cup CloseReasons]]
  /\ notified \in [Monitors -> [Slots -> SUBSET {"DOWN", "RECOVERY"}]]
  /\ jobs \in [Monitors -> SUBSET Slots]
  /\ stage \in [Workers -> {"idle", "probing", "locked", "done"}]
  /\ job \in [Workers -> Job \cup {None}]
  /\ \A w \in Workers : stage[w] # "idle" => job[w] \in Job
  /\ answer \in [Workers -> Outcomes \cup Verdicts \cup {None}]
  /\ phase \in [Clients -> {"idle", "closing", "updating"}]
  /\ edit \in [Clients -> Edit \cup {None}]
  /\ \A c \in Clients : phase[c] # "idle" => edit[c] \in Edit
  /\ held \in [Clients -> SUBSET Slots]
  /\ streak \in [Monitors -> SUBSET Slots]

Init ==
  /\ life = [m \in Monitors |-> "new"]
  /\ paused = [m \in Monitors |-> FALSE]
  /\ url \in [Monitors -> Urls]
  /\ state = [m \in Monitors |-> "PENDING"]
  /\ failures = [m \in Monitors |-> 0]
  /\ recorded = [m \in Monitors |-> {}]
  /\ incident = [m \in Monitors |-> [s \in Slots |-> "absent"]]
  /\ notified = [m \in Monitors |-> [s \in Slots |-> {}]]
  /\ jobs = [m \in Monitors |-> {}]
  /\ stage = [w \in Workers |-> "idle"]
  /\ job = [w \in Workers |-> None]
  /\ answer = [w \in Workers |-> None]
  /\ phase = [c \in Clients |-> "idle"]
  /\ edit = [c \in Clients |-> None]
  /\ held = [c \in Clients |-> {}]
  /\ streak = [m \in Monitors |-> {}]

-----------------------------------------------------------------------------
(* Row visibility and locks.                                               *)

PausedToo(m) == life[m] = "live"  \* mutant: the paused check is missing
Active(m) == life[m] = "live" /\ ~paused[m]

OpenIncidents(m) == {s \in Slots : incident[m][s] = "open"}

\* The index "incidents_one_open_per_monitor" accepts an open incident.
IndexAllows(m) == OpenIncidents(m) = {}

\* SELECT ... FOR UPDATE of a processing transaction that has not committed.
RowLocked(m) == \E w \in Workers : stage[w] = "locked" /\ job[w].mon = m

\* Updated by an edit transaction that has not committed.
IncidentLocked(m, s) ==
  \E c \in Clients : phase[c] = "updating" /\ edit[c].mon = m /\ s \in held[c]

Pauses(e) == e.paused = "true" /\ ~e.wasPaused
Resumes(e) == e.paused = "false" /\ e.wasPaused
Retargets(e) == e.url # None /\ e.url # e.wasUrl
Resets(e) == Pauses(e) \/ Resumes(e) \/ Retargets(e)

-----------------------------------------------------------------------------
(* The scheduler and the queue, as this component sees them.               *)

\* A claimed slot reaches the queue.  The claim and this call are separate
\* steps of the scheduler, so the monitor may have been paused, edited or
\* deleted in between, and a slot may come back after its job was evicted.
Enqueue(m, s) ==
  /\ life[m] # "new"
  /\ s \notin jobs[m]
  /\ jobs' = [jobs EXCEPT ![m] = @ \cup {s}]
  /\ UNCHANGED <<rows, runs, edits>>

-----------------------------------------------------------------------------
(* handleCheckJob                                                          *)

\* Early returns: monitor gone, paused, slot already recorded.  A job may
\* also be dropped because its slot is stale or its owner is unverified,
\* which depends on the clock and the account and so may happen to any job.
DropJob(w, m, s) ==
  /\ stage[w] = "idle"
  /\ s \in jobs[m]
  /\ jobs' = [jobs EXCEPT ![m] = @ \ {s}]
  /\ UNCHANGED <<rows, runs, edits>>

\* The guards pass; the URL is read now and the HTTP request is sent.  The
\* job stays in the queue until it is acknowledged, so a stalled run and its
\* redelivery may execute side by side.
StartJob(w, m, s) ==
  /\ stage[w] = "idle"
  /\ s \in jobs[m]
  /\ Active(m)
  /\ s \notin recorded[m]
  /\ stage' = [stage EXCEPT ![w] = "probing"]
  /\ job' = [job EXCEPT ![w] = [mon |-> m, slot |-> s, url |-> url[m]]]
  /\ UNCHANGED <<rows, jobs, answer, edits>>

Answer(w, verdict) ==
  /\ stage' = [stage EXCEPT ![w] = "done"]
  /\ answer' = [answer EXCEPT ![w] = verdict]
  /\ UNCHANGED job


EndRun(w) ==
  /\ stage' = [stage EXCEPT ![w] = "idle"]
  /\ job' = [job EXCEPT ![w] = None]
  /\ answer' = [answer EXCEPT ![w] = None]

\* The result is in; the transaction locks the monitor row and the insert
\* into "checks" does not conflict.
LockRow(w) ==
  LET m == job[w].mon IN
  /\ stage[w] = "probing"
  /\ ~RowLocked(m)
  /\ Active(m)
  /\ job[w].slot \notin recorded[m]
  /\ \E o \in Outcomes : answer' = [answer EXCEPT ![w] = o]
  /\ stage' = [stage EXCEPT ![w] = "locked"]
  /\ UNCHANGED <<rows, jobs, job, edits>>

\* The transaction rolls back: the row is gone, paused, or the slot is taken.
RefuseResult(w) ==
  LET m == job[w].mon IN
  /\ stage[w] = "probing"
  /\ ~RowLocked(m)
  /\ \/ life[m] # "live" /\ Answer(w, "monitor_missing")
     \/ life[m] = "live" /\ paused[m] /\ Answer(w, "monitor_paused")
     \/ Active(m) /\ job[w].slot \in recorded[m] /\ Answer(w, "duplicate")
  /\ UNCHANGED <<rows, jobs, edits>>

\* mutants: the threshold is ignored; the comparison is off by one.
CrossesAtOnce(w) == answer[w] = "DOWN" /\ state[job[w].mon] # "DOWN"
CrossesLate(w) == CrossesAtOnce(w) /\ failures[job[w].mon] + 1 > Threshold

\* shouldDeclareDown
Crosses(w) ==
  LET m == job[w].mon IN
  answer[w] = "DOWN" /\ failures[m] + 1 >= Threshold /\ state[m] # "DOWN"

\* Closing the open incident, and inserting a second open one, both wait for
\* an edit transaction that has already updated the open incident's row.
NeverWaits(w, c) == FALSE  \* mutant: the closing update ignores the lock
WaitsFor(w, c) ==
  /\ stage[w] = "locked"
  /\ answer[w] = "UP" \/ Crosses(w)
  /\ phase[c] = "updating"
  /\ edit[c].mon = job[w].mon
  /\ OpenIncidents(job[w].mon) \cap held[c] # {}

Committing(w) ==
  /\ stage[w] = "locked"
  /\ \A c \in Clients : ~WaitsFor(w, c)
  /\ UNCHANGED <<life, paused, url, jobs, edits>>

RecordSlot(w) ==
  recorded' = [recorded EXCEPT ![job[w].mon] = @ \cup {job[w].slot}]

\* Success: close the open incident as RECOVERED, with its one notification.
CommitSuccess(w) ==
  LET m == job[w].mon IN
  /\ Committing(w)
  /\ answer[w] = "UP"
  /\ RecordSlot(w)
  /\ \/ /\ OpenIncidents(m) = {}
        /\ UNCHANGED <<incident, notified>>
     \/ \E i \in OpenIncidents(m) :
          /\ incident' = [incident EXCEPT ![m][i] = "RECOVERED"]
          /\ notified' = [notified EXCEPT ![m][i] = @ \cup {"RECOVERY"}]
  /\ state' = [state EXCEPT ![m] = "UP"]
  /\ failures' = [failures EXCEPT ![m] = 0]
  /\ streak' = [streak EXCEPT ![m] = {}]
  /\ Answer(w, "recorded")

\* Failure below the threshold, or of a monitor already DOWN.
CommitFailure(w) ==
  LET m == job[w].mon IN
  /\ Committing(w)
  /\ answer[w] = "DOWN" /\ ~Crosses(w)
  /\ RecordSlot(w)
  /\ failures' = [failures EXCEPT ![m] = @ + 1]
  /\ streak' = [streak EXCEPT ![m] = @ \cup {job[w].slot}]
  /\ Answer(w, "recorded")
  /\ UNCHANGED <<state, incident, notified>>

\* The failure that crosses the threshold opens an incident.
CommitOutage(w) ==
  LET m == job[w].mon
      s == job[w].slot IN
  /\ Committing(w)
  /\ Crosses(w)
  /\ IndexAllows(m)
  /\ RecordSlot(w)
  /\ incident' = [incident EXCEPT ![m][s] = "open"]
  /\ notified' = [notified EXCEPT ![m][s] = @ \cup {"DOWN"}]
  /\ state' = [state EXCEPT ![m] = "DOWN"]
  /\ failures' = [failures EXCEPT ![m] = @ + 1]
  /\ streak' = [streak EXCEPT ![m] = @ \cup {s}]
  /\ Answer(w, "recorded")

\* ... unless one is open already: the partial unique index rejects the
\* insert, the whole transaction rolls back and P2002 reads as "duplicate".
RollBackOutage(w) ==
  /\ Committing(w)
  /\ Crosses(w)
  /\ ~IndexAllows(job[w].mon)
  /\ Answer(w, "duplicate")
  /\ UNCHANGED rows

\* The run returned: BullMQ acknowledges the job.
FinishJob(w) ==
  /\ stage[w] = "done"
  /\ jobs' = [jobs EXCEPT ![job[w].mon] = @ \ {job[w].slot}]
  /\ EndRun(w)
  /\ UNCHANGED <<rows, edits>>

\* The run throws, crashes or stalls; an open transaction rolls back.  The
\* job is redelivered while it has attempts left, and dropped afterwards.
FailJob(w) ==
  /\ stage[w] # "idle"
  /\ \/ UNCHANGED jobs
     \/ jobs' = [jobs EXCEPT ![job[w].mon] = @ \ {job[w].slot}]
  /\ EndRun(w)
  /\ UNCHANGED <<rows, edits>>

-----------------------------------------------------------------------------
(* createMonitor, updateMonitor, deleteMonitor                             *)

CreateMonitor(m) ==
  /\ life[m] = "new"
  /\ life' = [life EXCEPT ![m] = "live"]
  /\ UNCHANGED <<paused, url, state, failures, recorded, incident, notified, streak>>
  /\ UNCHANGED <<jobs, runs, edits>>

\* getOwnedMonitor, outside the transaction.  Everything the transaction
\* decides, it decides from this copy of the row.
ReadMonitor(c, m, p) ==
  LET e == [mon |-> m, paused |-> p.paused, url |-> p.url,
            wasPaused |-> paused[m], wasUrl |-> url[m]] IN
  /\ phase[c] = "idle"
  /\ life[m] = "live"
  /\ edit' = [edit EXCEPT ![c] = e]
  /\ phase' = [phase EXCEPT ![c] =
       IF Pauses(e) \/ Retargets(e) THEN "closing" ELSE "updating"]
  /\ UNCHANGED <<rows, jobs, runs, held>>

\* tx.incident.updateMany: sees the open incident if one is committed.
CloseIncident(c) ==
  LET m == edit[c].mon IN
  /\ phase[c] = "closing"
  /\ \A s \in OpenIncidents(m) : ~IncidentLocked(m, s)
  /\ held' = [held EXCEPT ![c] = OpenIncidents(m)]
  /\ phase' = [phase EXCEPT ![c] = "updating"]
  /\ UNCHANGED <<rows, jobs, runs, edit>>

EndRequest(c) ==
  /\ phase' = [phase EXCEPT ![c] = "idle"]
  /\ edit' = [edit EXCEPT ![c] = None]
  /\ held' = [held EXCEPT ![c] = {}]

\* tx.monitor.update, then commit.
CommitEdit(c) ==
  LET e == edit[c]
      m == e.mon
      reason == IF Pauses(e) THEN "MONITOR_PAUSED" ELSE "MONITOR_RECONFIGURED" IN
  /\ phase[c] = "updating"
  /\ life[m] = "live"
  /\ ~RowLocked(m)
  /\ paused' = [paused EXCEPT ![m] = IF e.paused = "absent" THEN @ ELSE e.paused = "true"]
  /\ url' = [url EXCEPT ![m] = IF e.url = None THEN @ ELSE e.url]
  /\ state' = [state EXCEPT ![m] = IF Resets(e) THEN "PENDING" ELSE @]
  /\ failures' = [failures EXCEPT ![m] = IF Resets(e) THEN 0 ELSE @]
  /\ streak' = [streak EXCEPT ![m] = IF Resets(e) THEN {} ELSE @]
  /\ incident' = [incident EXCEPT ![m] =
       [s \in Slots |-> IF s \in held[c] THEN reason ELSE incident[m][s]]]
  /\ EndRequest(c)
  /\ UNCHANGED <<life, recorded, notified, jobs, runs>>

\* The row was deleted meanwhile: the update throws and the client gets an error.
LoseEdit(c) ==
  /\ phase[c] = "updating"
  /\ life[edit[c].mon] # "live"
  /\ EndRequest(c)
  /\ UNCHANGED <<rows, jobs, runs>>

\* The request fails or times out before its commit; its locks are released.
FailEdit(c) ==
  /\ phase[c] # "idle"
  /\ EndRequest(c)
  /\ UNCHANGED <<rows, jobs, runs>>

\* One statement; checks, incidents and notifications cascade.
DeleteMonitor(m) ==
  /\ life[m] = "live"
  /\ ~RowLocked(m)
  /\ life' = [life EXCEPT ![m] = "deleted"]
  /\ paused' = [paused EXCEPT ![m] = FALSE]
  /\ state' = [state EXCEPT ![m] = "PENDING"]
  /\ failures' = [failures EXCEPT ![m] = 0]
  /\ recorded' = [recorded EXCEPT ![m] = {}]
  /\ incident' = [incident EXCEPT ![m] = [s \in Slots |-> "absent"]]
  /\ notified' = [notified EXCEPT ![m] = [s \in Slots |-> {}]]
  /\ streak' = [streak EXCEPT ![m] = {}]
  /\ held' = [c \in Clients |->
       IF phase[c] # "idle" /\ edit[c].mon = m THEN {} ELSE held[c]]
  /\ UNCHANGED <<url, jobs, runs, phase, edit>>

\* Postgres detects a cycle of lock waits and aborts one of its transactions.
NoDeadlockDetection(w) == FALSE  \* mutant
ResolveDeadlock(w) ==
  \E c \in Clients :
    /\ WaitsFor(w, c)
    /\ FailJob(w) \/ FailEdit(c)

-----------------------------------------------------------------------------
ApplyResult(w) ==
  \/ CommitSuccess(w) \/ CommitFailure(w) \/ CommitOutage(w) \/ RollBackOutage(w)

WorkerStep(w) ==
  \/ \E m \in Monitors, s \in Slots : DropJob(w, m, s) \/ StartJob(w, m, s)
  \/ LockRow(w) \/ RefuseResult(w) \/ ApplyResult(w) \/ FinishJob(w)
  \/ FailJob(w) \/ ResolveDeadlock(w)

ClientStep(c) ==
  \/ \E m \in Monitors, p \in Patches : ReadMonitor(c, m, p)
  \/ CloseIncident(c) \/ CommitEdit(c) \/ LoseEdit(c) \/ FailEdit(c)

MonitorStep(m) ==
  \/ CreateMonitor(m) \/ DeleteMonitor(m)
  \/ \E s \in Slots : Enqueue(m, s)

Next ==
  \/ \E w \in Workers : WorkerStep(w)
  \/ \E c \in Clients : ClientStep(c)
  \/ \E m \in Monitors : MonitorStep(m)

Spec == Init /\ [][Next]_vars

\* A worker and a request keep executing; Postgres hands a row lock to its
\* waiters in request order, hence strong fairness on the steps that need
\* one, and breaks deadlocks.  Nothing makes a client send a request.
Fairness ==
  /\ \A w \in Workers :
       /\ SF_vars(LockRow(w) \/ RefuseResult(w)) /\ SF_vars(ApplyResult(w))
       /\ WF_vars(FinishJob(w))
       /\ WF_vars(ResolveDeadlock(w))
  /\ \A c \in Clients :
       SF_vars(CloseIncident(c)) /\ SF_vars(CommitEdit(c)) /\ WF_vars(LoseEdit(c))

FairSpec == Spec /\ Fairness

-----------------------------------------------------------------------------
(* Safety.                                                                 *)

\* The failure counter of a monitor is the number of distinct scheduled
\* slots that failed since the last success or reset: a redelivered, stalled
\* or retried job never adds to it (resultProcessor.ts, idempotency gate).
CounterCountsSlots ==
  \A m \in Monitors : failures[m] = Cardinality(streak[m])

\* No invented downtime: a monitor is DOWN exactly when at least Threshold
\* distinct recorded slots have failed in a row.
DownMeansThresholdSlots ==
  \A m \in Monitors :
    state[m] = "DOWN" <=> Cardinality(streak[m] \cap recorded[m]) >= Threshold

\* Two racing transactions never leave two open incidents for one monitor.
OneOpenIncident ==
  \A m \in Monitors : \A i, j \in OpenIncidents(m) : i = j

\* A monitor shown DOWN has its outage on record as an open incident,
\* whatever edits and other results commit around the one that declared it.
DownHasIncident ==
  \A m \in Monitors : state[m] = "DOWN" => OpenIncidents(m) # {}

\* Alerts match what happened: a DOWN notification for every incident, a
\* RECOVERY one exactly for those a successful check closed, never for an
\* incident closed by a pause or a change of URL that raced with it.
AlertsMatchIncidents ==
  \A m \in Monitors, s \in Slots :
    notified[m][s] = IF incident[m][s] = "absent" THEN {}
                     ELSE IF incident[m][s] = "RECOVERED" THEN {"DOWN", "RECOVERY"}
                     ELSE {"DOWN"}

\* A worker that holds the monitor row is the only one, and neither a pause
\* nor a delete nor another result of its slot can commit until it is done.
LockProtectsResult ==
  \A w \in Workers : stage[w] = "locked" =>
    /\ Active(job[w].mon) /\ job[w].slot \notin recorded[job[w].mon]
    /\ \A v \in Workers : stage[v] = "locked" /\ job[v].mon = job[w].mon => v = w

\* The inductive invariant.  The counter is right because a result is only
\* counted for a slot outside "checks", which contains the whole streak; the
\* incidents an edit has locked stay open and belong to no other edit until
\* it commits, and an edit that closes one always resets the state with it.
StreakRecorded ==
  \A m \in Monitors : IsFiniteSet(streak[m]) /\ streak[m] \subseteq recorded[m]

DownMeansCounter ==
  \A m \in Monitors : state[m] = "DOWN" <=> failures[m] >= Threshold

IncidentsRecorded ==
  \A m \in Monitors, s \in Slots : incident[m][s] # "absent" => s \in recorded[m]

LocksStayOpen ==
  \A c \in Clients :
    /\ phase[c] = "closing" => Pauses(edit[c]) \/ Retargets(edit[c])
    /\ held[c] # {} =>
         /\ phase[c] = "updating"
         /\ held[c] \subseteq OpenIncidents(edit[c].mon)
         /\ Pauses(edit[c]) \/ Retargets(edit[c])
         /\ \A d \in Clients : held[d] # {} /\ edit[d].mon = edit[c].mon => d = c

TrackingInvariant ==
  /\ TypeOK
  /\ CounterCountsSlots
  /\ StreakRecorded
  /\ DownMeansCounter
  /\ IncidentsRecorded
  /\ OneOpenIncident
  /\ DownHasIncident
  /\ AlertsMatchIncidents
  /\ LockProtectsResult
  /\ LocksStayOpen

(* Action properties.                                                      *)

\* A paused or missing monitor records nothing, even if the pause committed
\* while the HTTP request was in flight.
PausedRecordsNothing ==
  [][\A m \in Monitors :
       paused[m] \/ life[m] # "live" => recorded'[m] \subseteq recorded[m]]_vars

\* A resolved incident stays as it was resolved: of two transactions that
\* both set out to close it only one does (and only deletion removes it).
ResolvedIsFinal ==
  [][\A m \in Monitors, s \in Slots :
       incident[m][s] \in CloseReasons /\ life'[m] = "live"
         => incident'[m][s] = incident[m][s]]_vars

\* One incident per outage: the failure that opens an incident is the
\* Threshold-th in a row, so the failures that follow it, the retries of the
\* same slot and the failures seen before an edit open no other.
OneIncidentPerOutage ==
  [][\A m \in Monitors, s \in Slots :
       incident[m][s] # "open" /\ incident'[m][s] = "open"
         => Cardinality(streak[m]) = Threshold - 1 /\ OpenIncidents(m) = {}]_vars

(* Refinement.                                                             *)

Promise == INSTANCE OutageTracking WITH
  results <- recorded, failed <- streak, outage <- incident, announced <- notified

\* Incident tracking implements its abstract specification: workers, locks,
\* redeliveries and the failure counter are invisible.
KeepsPromise == Promise!OutSpec

(* Liveness.                                                               *)

\* Every run of a job and every edit ends, though they lock the monitor and its
\* incident in opposite orders (resultProcessor.ts:87 and 126, monitors.ts:137
\* and 143): each commits, retries or reports an error.
RunsAndEditsEnd ==
  /\ \A w \in Workers : stage[w] # "idle" ~> stage[w] = "idle"
  /\ \A c \in Clients : phase[c] # "idle" ~> phase[c] = "idle"

-----------------------------------------------------------------------------
(* What the documentation says and the code does not do.                   *)

\* domain/monitors.ts:106-107: pausing "closes an open incident as
\* MONITOR_PAUSED".
PausedHasNoOpenIncident ==
  \A m \in Monitors : paused[m] => OpenIncidents(m) = {}

\* queue/queues.ts:11-13: "an edit, pause or delete that lands after the job
\* was queued is always honoured": no result of the previous URL is applied.
ResultsAreOfTheCurrentUrl ==
  [][\A w \in Workers : stage[w] = "locked" /\ stage'[w] = "done"
       => job[w].url = url[job[w].mon]]_vars
=============================================================================
