------------------------------ MODULE Scheduler ------------------------------
(***************************************************************************)
(* The schedule of the checks: the column "nextCheckAt" and everything     *)
(* that reads or writes it.                                                *)
(*                                                                         *)
(*   monitoring/scheduler.ts   claimDueMonitors, reconcileSchedules,       *)
(*                             dispatchDueChecks                           *)
(*   worker.ts                 start-up and the scheduler tick             *)
(*   domain/monitors.ts        createMonitor, updateMonitor, deleteMonitor,*)
(*                             activateMonitorsForUser                     *)
(*   domain/auth.ts            verifyEmail, resetPassword (confirmation)   *)
(*                                                                         *)
(* The monitors are those of one account.  A PROCESS is one worker         *)
(* process with its tick timer; a CLIENT is one API request.  Times are    *)
(* integers; the unit is a fraction of the check interval.                 *)
(***************************************************************************)
EXTENDS Integers, FiniteSets

CONSTANTS
  Monitors,        \* ids of monitors (a deleted id is never reused)
  Procs,           \* worker processes
  Clients,         \* concurrent API requests
  Interval,        \* intervalSeconds
  MaxLag,          \* DEFAULT_MAX_LAG_INTERVALS
  BatchSize,       \* DEFAULT_BATCH_SIZE
  ReconcileEvery,  \* ALERT_RECONCILE_EVERY_TICKS
  Patches,         \* the request bodies clients send
  MaxTime,         \* bound: the clock stops there
  None             \* absent value

Pausing == {"absent", "true", "false"}

ASSUME TimeAssumption ==
  Interval \in Nat \ {0} /\ MaxLag \in Nat \ {0} /\ MaxTime \in Nat
ASSUME CountAssumption ==
  BatchSize \in Nat \ {0} /\ ReconcileEvery \in Nat \ {0}
ASSUME NoneAssumption == None \notin Int /\ None \notin Monitors
ASSUME PatchesAssumption == Patches \subseteq [paused : Pausing, url : BOOLEAN]

VARIABLES
  clock,       \* the time
  life, paused, next,  \* rows of "monitors": presence, "paused", "nextCheckAt"
  verified,    \* the account's "emailVerifiedAt" is set (it is never cleared)
  activating,  \* a confirmation has set it and not yet activated the monitors
  proc,        \* what each process is doing
  ticks,       \* its tick counter, modulo ReconcileEvery
  now,         \* the instant its claim works with
  batch,       \* the slots it claimed and has not yet offered to the queue
  request,     \* where each client is in its request
  edit,        \* the request, and the copy of the row it works from
  claimed,     \* history: slots claimed
  rewound,     \* history: a row was written with a time not after such a slot
  last, before \* history: the instants of the last two claims since the
               \* schedule was last moved by something else than a claim

rows == <<life, paused, next>>
account == <<verified, activating>>
ticking == <<proc, ticks, now, batch>>
api == <<request, edit>>
history == <<claimed, rewound, last, before>>
vars == <<clock, rows, account, ticking, api, history>>

-----------------------------------------------------------------------------
Never == -Interval   \* earlier than any claim by an interval
Lag == MaxLag * Interval
Slot == Monitors \X Nat
Edit == [mon : Monitors, paused : Pausing, url : BOOLEAN,
         wasPaused : BOOLEAN, wasNext : Nat \cup {None}]

TypeOK ==
  /\ clock \in Nat
  /\ life \in [Monitors -> {"new", "live", "deleted"}]
  /\ paused \in [Monitors -> BOOLEAN]
  /\ next \in [Monitors -> Nat \cup {None}]
  /\ verified \in BOOLEAN /\ activating \in BOOLEAN
  /\ proc \in [Procs -> {"down", "starting", "idle", "claiming", "dispatching", "reconciling"}]
  /\ ticks \in [Procs -> 0 .. ReconcileEvery - 1]
  /\ now \in [Procs -> Nat]
  /\ batch \in [Procs -> SUBSET Slot]
  /\ request \in [Clients -> {"idle", "saving"}]
  /\ edit \in [Clients -> Edit \cup {None}]
  /\ \A c \in Clients : request[c] # "idle" => edit[c] \in Edit
  /\ claimed \in SUBSET Slot
  /\ rewound \in [Monitors -> BOOLEAN]
  /\ last \in [Monitors -> Int]
  /\ before \in [Monitors -> Int]

Init ==
  /\ clock = 0
  /\ life = [m \in Monitors |-> "new"]
  /\ paused = [m \in Monitors |-> FALSE]
  /\ next = [m \in Monitors |-> None]
  /\ verified = FALSE /\ activating = FALSE
  /\ proc = [p \in Procs |-> "down"]
  /\ ticks = [p \in Procs |-> 0]
  /\ now = [p \in Procs |-> 0]
  /\ batch = [p \in Procs |-> {}]
  /\ request = [c \in Clients |-> "idle"]
  /\ edit = [c \in Clients |-> None]
  /\ claimed = {}
  /\ rewound = [m \in Monitors |-> FALSE]
  /\ last = [m \in Monitors |-> Never]
  /\ before = [m \in Monitors |-> Never]

Tick ==
  /\ clock < MaxTime
  /\ clock' = clock + 1
  /\ UNCHANGED <<rows, account, ticking, api, history>>

-----------------------------------------------------------------------------
(* Writing the schedule outside a claim.                                   *)

Active(m) == life[m] = "live" /\ ~paused[m]
Unscheduled(m) == Active(m) /\ next[m] = None

\* The history notes a row that is moved, and one moved onto the past.
Reschedule(schedule) ==
  /\ next' = schedule
  /\ rewound' = [m \in Monitors |->
       rewound[m] \/ (schedule[m] # next[m] /\ schedule[m] # None /\
                       \E s \in claimed : s[1] = m /\ schedule[m] <= s[2])]
  /\ last' = [m \in Monitors |-> IF schedule[m] = next[m] THEN last[m] ELSE Never]
  /\ before' = [m \in Monitors |-> IF schedule[m] = next[m] THEN before[m] ELSE Never]
  /\ UNCHANGED claimed

\* updateMany: every active monitor without a next check gets one at once.
StartUnscheduled ==
  Reschedule([m \in Monitors |-> IF Unscheduled(m) THEN clock ELSE next[m]])

-----------------------------------------------------------------------------
(* Worker processes: start-up and the tick.                                *)

StartProcess(p) ==
  /\ proc[p] = "down"
  /\ proc' = [proc EXCEPT ![p] = "starting"]
  /\ UNCHANGED <<clock, rows, account, ticks, now, batch, api, history>>

\* The timer fires; a tick that is still running suppresses it.
BeginTick(p) ==
  /\ proc[p] = "idle"
  /\ proc' = [proc EXCEPT ![p] = "claiming"]
  /\ ticks' = [ticks EXCEPT ![p] = (@ + 1) % ReconcileEvery]
  /\ now' = [now EXCEPT ![p] = clock]
  /\ UNCHANGED <<clock, rows, account, batch, api, history>>

Due(m, t) == Active(m) /\ verified /\ next[m] # None /\ next[m] <= t

\* mutant: the two staleness limits disagree by one unit.
RebasesLate(due, t) == due < t - Lag - 1
Rebases(due, t) == due < t - Lag

SlotOf(due, t) == IF Rebases(due, t) THEN t ELSE due

\* mutants: GREATEST is missing; a re-based monitor is due at once.
Unclamped(due, t) == IF Rebases(due, t) THEN t + Interval ELSE due + Interval
DueAtOnce(due, t) ==
  IF Rebases(due, t) \/ due + Interval < t THEN t ELSE due + Interval
Following(due, t) ==
  IF Rebases(due, t) THEN t + Interval
  ELSE IF due + Interval < t THEN t ELSE due + Interval

\* mutant: ORDER BY "nextCheckAt" DESC.
TakesNewest(p, locked, taken) ==
  LET due == {m \in Monitors : Due(m, now[p])} \ locked IN
  /\ taken \subseteq due
  /\ Cardinality(taken) <= BatchSize
  /\ taken # due => Cardinality(taken) = BatchSize
  /\ \A m \in taken, n \in due \ taken : next[m] >= next[n]

\* The oldest BatchSize of the due rows, without those another transaction has locked.
Takes(p, locked, taken) ==
  LET due == {m \in Monitors : Due(m, now[p])} \ locked IN
  /\ taken \subseteq due
  /\ Cardinality(taken) <= BatchSize
  /\ taken # due => Cardinality(taken) = BatchSize
  /\ \A m \in taken, n \in due \ taken : next[m] <= next[n]

\* claimDueMonitors: one statement selects, advances and returns.
Claim(p, taken) ==
  LET slots == {<<m, SlotOf(next[m], now[p])>> : m \in taken} IN
  /\ proc[p] = "claiming"
  /\ \E locked \in SUBSET Monitors : Takes(p, locked, taken)
  /\ next' = [m \in Monitors |->
       IF m \in taken THEN Following(next[m], now[p]) ELSE next[m]]
  /\ last' = [m \in Monitors |-> IF m \in taken THEN now[p] ELSE last[m]]
  /\ before' = [m \in Monitors |-> IF m \in taken THEN last[m] ELSE before[m]]
  /\ claimed' = claimed \cup slots
  /\ batch' = [batch EXCEPT ![p] = slots]
  /\ proc' = [proc EXCEPT ![p] = "dispatching"]
  /\ now' = [now EXCEPT ![p] = 0]
  /\ UNCHANGED <<clock, life, paused, account, ticks, api, rewound>>

\* queue.add, for each slot of the batch: it resolves (an id the queue
\* already has is a no-op) or throws; either way the loop goes on.
Enqueue(p, s) ==
  /\ proc[p] = "dispatching"
  /\ s \in batch[p]
  /\ batch' = [batch EXCEPT ![p] = @ \ {s}]
  /\ UNCHANGED <<clock, rows, account, proc, ticks, now, api, history>>

EndTick(p) == proc' = [proc EXCEPT ![p] = "idle"]

\* mutant: the modulus never comes round.
NeverReconciles(p) == FALSE
Reconciles(p) == ticks[p] = 0

\* Every ReconcileEvery-th tick goes on with the reconciliation.
FinishDispatch(p) ==
  /\ proc[p] = "dispatching"
  /\ batch[p] = {}
  /\ \/ Reconciles(p) /\ proc' = [proc EXCEPT ![p] = "reconciling"]
     \/ ~Reconciles(p) /\ EndTick(p)
  /\ UNCHANGED <<clock, rows, account, ticks, now, batch, api, history>>

\* reconcileSchedules, at start-up and in a tick.
ReconcileSchedules(p) ==
  /\ proc[p] \in {"starting", "reconciling"}
  /\ \/ verified /\ StartUnscheduled
     \/ ~verified /\ UNCHANGED <<next, history>>
  /\ EndTick(p)
  /\ UNCHANGED <<clock, life, paused, account, ticks, now, batch, api>>

\* The claim, or the reconciliation of alerts or schedules, throws: the
\* tick is over and nothing was written.
FailTick(p) ==
  /\ proc[p] \in {"claiming", "reconciling"}
  /\ EndTick(p)
  /\ now' = [now EXCEPT ![p] = 0]
  /\ UNCHANGED <<clock, rows, account, ticks, batch, api, history>>

\* A crash, at any point (a start-up that fails exits as well).
Crash(p) ==
  /\ proc[p] # "down"
  /\ proc' = [proc EXCEPT ![p] = "down"]
  /\ ticks' = [ticks EXCEPT ![p] = 0]
  /\ now' = [now EXCEPT ![p] = 0]
  /\ batch' = [batch EXCEPT ![p] = {}]
  /\ UNCHANGED <<clock, rows, account, api, history>>

-----------------------------------------------------------------------------
(* The account: verifyEmail and resetPassword confirm the address.         *)

ConfirmAddress ==
  /\ verified' = TRUE
  /\ activating' = TRUE
  /\ UNCHANGED <<clock, rows, ticking, api, history>>

\* activateMonitorsForUser, a statement of its own.
ActivateMonitors ==
  /\ activating
  /\ StartUnscheduled
  /\ activating' = FALSE
  /\ UNCHANGED <<clock, life, paused, verified, ticking, api>>

\* The API dies between the two.
LoseActivation ==
  /\ activating
  /\ activating' = FALSE
  /\ UNCHANGED <<clock, rows, verified, ticking, api, history>>

-----------------------------------------------------------------------------
(* Requests: createMonitor, updateMonitor, deleteMonitor.                  *)

EndRequest(c) ==
  /\ request' = [request EXCEPT ![c] = "idle"]
  /\ edit' = [edit EXCEPT ![c] = None]

\* The routes that write monitors require a confirmed address, so a monitor
\* exists only once the account is verified, and what createMonitor and
\* updateMonitor read of the account themselves never says otherwise.
CreateMonitor(m) ==
  /\ verified
  /\ life[m] = "new"
  /\ life' = [life EXCEPT ![m] = "live"]
  /\ Reschedule([next EXCEPT ![m] = clock])
  /\ UNCHANGED <<clock, paused, account, ticking, api>>

\* updateMonitor reads the row, then writes it in a transaction.
ReadMonitor(c, m, patch) ==
  /\ request[c] = "idle"
  /\ life[m] = "live"
  /\ request' = [request EXCEPT ![c] = "saving"]
  /\ edit' = [edit EXCEPT ![c] =
       [mon |-> m, paused |-> patch.paused, url |-> patch.url,
        wasPaused |-> paused[m], wasNext |-> next[m]]]
  /\ UNCHANGED <<clock, rows, account, ticking, history>>

NextPaused(e) == IF e.paused = "absent" THEN e.wasPaused ELSE e.paused = "true"
Resumes(e) == e.paused = "false" /\ e.wasPaused

\* The closure "nextCheckAt" of updateMonitor: all from the copy it read.
NextCheckAt(e) ==
  IF NextPaused(e) THEN None
  ELSE IF Resumes(e) \/ e.url \/ e.wasNext = None THEN clock
  ELSE e.wasNext

SaveMonitor(c) ==
  LET e == edit[c]
      m == e.mon IN
  /\ request[c] = "saving"
  /\ life[m] = "live"
  /\ paused' = [paused EXCEPT ![m] = IF e.paused = "absent" THEN @ ELSE e.paused = "true"]
  /\ Reschedule([next EXCEPT ![m] = NextCheckAt(e)])
  /\ EndRequest(c)
  /\ UNCHANGED <<clock, life, account, ticking>>

\* The request fails; updating a deleted row does.
FailRequest(c) ==
  /\ request[c] # "idle"
  /\ EndRequest(c)
  /\ UNCHANGED <<clock, rows, account, ticking, history>>

DeleteMonitor(m) ==
  /\ life[m] = "live"
  /\ life' = [life EXCEPT ![m] = "deleted"]
  /\ paused' = [paused EXCEPT ![m] = FALSE]
  /\ Reschedule([next EXCEPT ![m] = None])
  /\ UNCHANGED <<clock, account, ticking, api>>

-----------------------------------------------------------------------------
ProcessStep(p) ==
  \/ StartProcess(p) \/ BeginTick(p)
  \/ \E taken \in SUBSET Monitors : Claim(p, taken)
  \/ \E s \in batch[p] : Enqueue(p, s)
  \/ FinishDispatch(p) \/ ReconcileSchedules(p) \/ FailTick(p) \/ Crash(p)

AccountStep == ConfirmAddress \/ ActivateMonitors \/ LoseActivation

ClientStep(c) ==
  \/ \E m \in Monitors, patch \in Patches : ReadMonitor(c, m, patch)
  \/ SaveMonitor(c) \/ FailRequest(c)

Next ==
  \/ Tick
  \/ \E p \in Procs : ProcessStep(p)
  \/ AccountStep
  \/ \E c \in Clients : ClientStep(c)
  \/ \E m \in Monitors : CreateMonitor(m) \/ DeleteMonitor(m)

Spec == Init /\ [][Next]_vars

\* A claim that finds the row of m unlocked.  It takes m only if m is due and
\* among the BatchSize oldest.
ClaimPast(p, m) ==
  \E taken \in SUBSET Monitors :
    /\ \E locked \in SUBSET (Monitors \ {m}) : Takes(p, locked, taken)
    /\ Claim(p, taken)

\* A process is restarted when it dies and its timer keeps firing.  Queries
\* may fail, rows may be locked and the process may crash any number of
\* times, but not every time at the same point: strong fairness on each step
\* of a tick, on a claim that finds a given row unlocked and on the claim of
\* a reconciling tick.
Fairness ==
  \A p \in Procs :
    /\ WF_vars(StartProcess(p)) /\ SF_vars(BeginTick(p))
    /\ SF_vars(\E s \in batch[p] : Enqueue(p, s)) /\ SF_vars(FinishDispatch(p))
    /\ SF_vars(ReconcileSchedules(p))
    /\ SF_vars(\E taken \in SUBSET Monitors : Claim(p, taken))
    /\ SF_vars(Reconciles(p) /\ \E taken \in SUBSET Monitors : Claim(p, taken))
    /\ \A m \in Monitors : SF_vars(ClaimPast(p, m))

FairSpec == Spec /\ Fairness

-----------------------------------------------------------------------------
(* Safety.                                                                 *)

Claims(p) == proc[p] = "claiming" /\ proc'[p] = "dispatching"

\* A slot is claimed a second time, by any tick of any process, only if
\* something other than a claim wrote into the row a time that is not after
\* a slot already claimed (scheduler.ts:8-13).
DoubleClaimNeedsRewind ==
  [][\A p \in Procs : Claims(p) =>
       \A s \in batch'[p] : s \in claimed => rewound[s[1]]]_vars

\* No burst: as long as nobody moves its schedule, a monitor is never
\* claimed three times within less than one interval, however long the
\* workers were down, however late a tick runs and however many processes
\* tick.  With FAILURE_THRESHOLD = 3, catching up alone declares no outage
\* (scheduler.ts:15-19).
NoBurst ==
  [][\A p \in Procs : Claims(p) =>
       \A s \in batch'[p] : now[p] >= before[s[1]] + Interval]_vars

\* The limit of the SQL statement and that of handleCheckJob agree: a slot
\* is neither early nor already stale for the worker at its claim.
ClaimedIsFresh ==
  [][\A p \in Procs : Claims(p) =>
       \A s \in batch'[p] : s[2] <= now[p] /\ ~(now[p] - s[2] > Lag)]_vars

\* The inductive invariant: the schedule of a row that was not rewound is
\* after every slot claimed for it, never before the last claim, and an
\* interval after the last but one; a batch exists only while dispatching.
ScheduleAhead ==
  \A m \in Monitors : next[m] # None /\ ~rewound[m] =>
    \A s \in claimed : s[1] = m => s[2] < next[m]

ClaimsSpaced ==
  \A m \in Monitors : next[m] # None =>
    next[m] >= last[m] /\ next[m] >= before[m] + Interval

BatchDispatched ==
  \A p \in Procs : proc[p] # "dispatching" => batch[p] = {}

ScheduleInvariant ==
  /\ TypeOK
  /\ ScheduleAhead
  /\ ClaimsSpaced
  /\ BatchDispatched

(* Liveness.                                                               *)

\* No monitor starves (scheduler.ts:66-68): a row that is overdue is claimed or
\* moved, whatever fails or is locked in between and however often others that
\* fall due again and again fill the batch.  A row due at this very instant may
\* lose to others due at it as long as the clock stands still.
DueIsClaimed ==
  \A m \in Monitors, t \in 0 .. MaxTime :
    next[m] = t /\ t < clock /\ Due(m, clock) ~> ~(next[m] = t /\ Due(m, clock))

\* An active monitor never stays unscheduled: an edit that read the row while
\* it was paused and saves after a resume clears "nextCheckAt", and the
\* reconciliation, or the next confirmation, puts the monitor back
\* (scheduler.ts:103-111).
UnscheduledIsRepaired ==
  \A m \in Monitors : verified /\ Unscheduled(m) ~> ~(verified /\ Unscheduled(m))
=============================================================================
