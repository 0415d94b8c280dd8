---------------------------- MODULE CheckHistory ----------------------------
(***************************************************************************)
(* The times in the rows: results measured at one time and applied at      *)
(* another (monitoring/resultProcessor.ts), edits that reset the tracking  *)
(* of a monitor (domain/monitors.ts), retention (monitoring/retention.ts), *)
(* and what the screens compute from the rows (http/routes/monitors.ts,    *)
(* overview.ts, domain/uptime.ts, activity.ts, serializers.ts).            *)
(*                                                                         *)
(* IncidentTracking has the statements and row locks of a result; here     *)
(* applying one is a single step, as the row lock makes it.  An edit is    *)
(* three: it reads the monitor, closes its incidents, and saves the row.   *)
(* All processes read one clock, and the account is verified.  An answer   *)
(* is computed from one state: what is said of a screen is said of answers *)
(* whose queries no write divides.                                         *)
(***************************************************************************)
EXTENDS Integers, FiniteSets, Sequences, FiniteSetsExt, Functions

CONSTANTS
    Tracked, Slots, Workers,
    Clients,            \* the requests PATCH /monitors/:id that may be under way together
    Patches,            \* what one may ask: [paused : "absent", "true", "false", url : BOOLEAN]
    Threshold,          \* FAILURE_THRESHOLD
    StaleLimit,         \* STALE_INTERVAL_MULTIPLIER * intervalSeconds
    Period,             \* intervalSeconds
    DayWindow,          \* WINDOW_MS['24h']
    WeekWindow,         \* WINDOW_MS['7d']
    BucketCount,        \* BUCKET_COUNT['24h']
    CheckRetention,     \* CHECK_RETENTION_DAYS
    IncidentRetention,  \* INCIDENT_RETENTION_DAYS
    OverviewLimit,      \* the incidents the overview takes (200)
    DetailLimit,        \* the incidents the detail screen takes (50)
    Flight,             \* bound on the time from a measurement to its transaction
    MaxAge              \* bound on the time

ASSUME HistoryAssumption ==
    /\ Threshold \in Nat \ {0} /\ Period \in Nat \ {0}
    /\ StaleLimit \in Nat /\ Flight \in Nat /\ MaxAge \in Nat
    /\ DayWindow \in Nat \ {0} /\ WeekWindow \in Nat /\ DayWindow <= WeekWindow
    /\ BucketCount \in 1..DayWindow
    /\ CheckRetention \in Nat /\ IncidentRetention \in Nat
    /\ CheckRetention > StaleLimit /\ IncidentRetention > Flight
    /\ OverviewLimit \in Nat \ {0} /\ DetailLimit \in Nat \ {0}
    /\ IsFiniteSet(Tracked) /\ Slots \subseteq Nat
    /\ Patches \subseteq [paused : {"absent", "true", "false"}, url : BOOLEAN]

Unset == -1

VARIABLES
    time,
    row,        \* monitors: [state, failures, failingSince, lastCheckedAt, paused, scheduled, resetAt]
    checks,     \* rows of checks: [monitor, slot, at, outcome]
    incidents,  \* rows of incidents: [id, monitor, startedAt, resolvedAt]
    job,        \* per worker, the result it has measured and not applied yet
    cleanup,    \* the retention pass: [pc, now]
    edit,       \* per client, the edit under way
    left        \* history: the monitors with an open incident that an edit, as it
                \* reset or paused them, left open

editVars == <<edit, left>>
chVars == <<time, row, checks, incidents, job, cleanup, edit, left>>

Idle    == [pc |-> "idle"]

OpenOf(m) == { i \in incidents : i.monitor = m /\ i.resolvedAt = Unset }
NextId    == IF incidents = {} THEN 1 ELSE Max({ i.id : i \in incidents }) + 1

\* A row that knows nothing.  scheduled stands for nextCheckAt # null.
Fresh(paused, scheduled, at) ==
    [state |-> "PENDING", failures |-> 0, failingSince |-> Unset, lastCheckedAt |-> Unset,
     paused |-> paused, scheduled |-> scheduled, resetAt |-> at]
FreshRow == Fresh(FALSE, TRUE, 0)

ChInit ==
    /\ time = 0
    /\ row = [m \in Tracked |-> FreshRow]
    /\ checks = {} /\ incidents = {}
    /\ job = [w \in Workers |-> Idle]
    /\ cleanup = Idle
    /\ edit = [c \in Clients |-> Idle] /\ left = {}

-----------------------------------------------------------------------------
(* Results.                                                                 *)

\* A worker finishes the check of a slot: finishedAt is fixed here.  A slot is
\* one job (checkJobId), measured once while its result is on the way.
Measure(w, m, s, outcome) ==
    /\ job[w] = Idle /\ s <= time
    /\ \A v \in Workers : job[v] # Idle => <<job[v].monitor, job[v].slot>> # <<m, s>>
    /\ job' = [job EXCEPT ![w] =
                  [pc |-> "apply", monitor |-> m, slot |-> s, at |-> time, outcome |-> outcome]]
    /\ UNCHANGED <<time, row, checks, incidents, cleanup, editVars>>

Close(i, at) == (incidents \ {i}) \union {[i EXCEPT !.resolvedAt = at]}

\* incidents_resolved_after_started: the transaction aborts otherwise.
MayClose(i, at) == at >= i.startedAt

LastSucceededAt(j, r) == IF j.outcome = "UP" THEN j.at ELSE r.lastCheckedAt  \* mutant: a failure leaves it
LastCheckedAt(j, r) == j.at

\* The row after a result: what it says of the state, the failures and their start.
Told(r, j, state, failures, since) ==
    [state |-> state, failures |-> failures, failingSince |-> since,
     lastCheckedAt |-> LastCheckedAt(j, r), paused |-> r.paused, scheduled |-> r.scheduled,
     resetAt |-> r.resetAt]

\* The incidents that the transaction of an edit has closed and not committed.
Held == UNION { edit[c].closing : c \in { c \in Clients : edit[c] # Idle } }

\* An incident that an edit holds cannot be closed as well: the edit is about to wait
\* for the monitor's row, which this transaction has, and one of the two is aborted.
ApplyUp(w, m) ==
    LET j == job[w] IN
    /\ j.outcome = "UP"
    /\ \/ /\ OpenOf(m) = {} /\ UNCHANGED incidents
       \/ \E i \in OpenOf(m) \ Held :
              /\ MayClose(i, j.at)
              /\ incidents' = Close(i, j.at)
    /\ left' = left \ {m}
    /\ row' = [row EXCEPT ![m] = Told(row[m], j, "UP", 0, Unset)]

ApplyDown(w, m) ==
    LET j        == job[w]
        failures == row[m].failures + 1
        since    == IF row[m].failingSince = Unset THEN j.at ELSE row[m].failingSince
        declare  == failures >= Threshold /\ row[m].state # "DOWN"
    IN
    /\ j.outcome = "DOWN"
    /\ IF declare
       THEN /\ OpenOf(m) = {}
            /\ incidents' = incidents \union
                   {[id |-> NextId, monitor |-> m, startedAt |-> since, resolvedAt |-> Unset]}
       ELSE UNCHANGED incidents
    /\ UNCHANGED left
    /\ row' = [row EXCEPT ![m] = Told(row[m], j, IF declare THEN "DOWN" ELSE row[m].state,
                                      failures, since)]

\* applyResult commits: the slot had no row yet and the monitor is not paused.
Apply(w) ==
    LET j == job[w] IN
    /\ j # Idle
    /\ ~row[j.monitor].paused
    /\ \A c \in checks : ~(c.monitor = j.monitor /\ c.slot = j.slot)
    /\ checks' = checks \union
           {[monitor |-> j.monitor, slot |-> j.slot, at |-> j.at, outcome |-> j.outcome]}
    /\ ApplyUp(w, j.monitor) \/ ApplyDown(w, j.monitor)
    /\ job' = [job EXCEPT ![w] = Idle]
    /\ UNCHANGED <<time, cleanup, edit>>

\* A duplicate, a paused monitor, an aborted transaction or a lost worker.
Discard(w) ==
    /\ job[w] # Idle
    /\ job' = [job EXCEPT ![w] = Idle]
    /\ UNCHANGED <<time, row, checks, incidents, cleanup, editVars>>

-----------------------------------------------------------------------------
(* Edits: updateMonitor.                                                    *)

Pausing(e)  == e.patch.paused = "true" /\ ~e.wasPaused
Resuming(e) == e.patch.paused = "false" /\ e.wasPaused
Closes(e)   == Pausing(e) \/ e.patch.url
Resets(e)   == Closes(e) \/ Resuming(e)

\* args.paused ?? existing.paused
nextPaused(e) == IF e.patch.paused = "absent" THEN e.wasPaused ELSE e.patch.paused = "true"

\* existing: everything below is decided by this copy.
ReadMonitor(c, m, patch) ==
    /\ edit[c] = Idle
    /\ edit' = [edit EXCEPT ![c] = [pc |-> "read", monitor |-> m, patch |-> patch,
                                    wasPaused |-> row[m].paused, at |-> Unset, closing |-> {}]]
    /\ UNCHANGED <<time, row, checks, incidents, job, cleanup, left>>

\* incident.updateMany takes the rows of the open incidents and is not committed; it
\* waits for an edit that holds one.
CloseIncidents(c) ==
    LET e == edit[c] IN
    /\ e # Idle /\ e.pc = "read" /\ Closes(e)
    /\ OpenOf(e.monitor) \intersect Held = {}
    /\ edit' = [edit EXCEPT ![c] = [pc |-> "closed", monitor |-> e.monitor, patch |-> e.patch,
                     wasPaused |-> e.wasPaused, at |-> time, closing |-> OpenOf(e.monitor)]]
    /\ UNCHANGED <<time, row, checks, incidents, job, cleanup, left>>

\* The row that monitor.update leaves of r.
Edited(r, e) ==
    LET paused == IF e.patch.paused = "absent" THEN r.paused ELSE nextPaused(e)
    IN  IF Resets(e) THEN Fresh(paused, ~nextPaused(e), time)
        ELSE [r EXCEPT !.paused = paused, !.scheduled = ~nextPaused(e)]

\* monitor.update and the commit.
SaveMonitor(c) ==
    LET e    == edit[c]
        m    == e.monitor
        open == OpenOf(m) \ e.closing
    IN
    /\ e # Idle /\ e.pc = (IF Closes(e) THEN "closed" ELSE "read")
    /\ row' = [row EXCEPT ![m] = Edited(row[m], e)]
    /\ incidents' = (incidents \ e.closing) \union { [i EXCEPT !.resolvedAt = e.at] : i \in e.closing }
    /\ left' = IF open = {} THEN left \ {m}
               ELSE IF Resets(e) \/ e.patch.paused = "true" THEN left \union {m} ELSE left
    /\ edit' = [edit EXCEPT ![c] = Idle]
    /\ UNCHANGED <<time, checks, job, cleanup>>

\* The transaction is aborted, a deadlock's victim or not, or the process dies.
FailEdit(c) ==
    /\ edit[c] # Idle
    /\ edit' = [edit EXCEPT ![c] = Idle]
    /\ UNCHANGED <<time, row, checks, incidents, job, cleanup, left>>

\* reconcileSchedules, and activateMonitorsForUser.
ReconcileSchedules ==
    /\ row' = [m \in Tracked |-> [row[m] EXCEPT !.scheduled = row[m].scheduled \/ ~row[m].paused]]
    /\ UNCHANGED <<time, checks, incidents, job, cleanup, editVars>>

-----------------------------------------------------------------------------
(* runRetention: the cutoffs are fixed first, then one deleteMany each.     *)

DeleteOldChecks ==
    /\ cleanup = Idle
    /\ checks' = { c \in checks : c.at >= time - CheckRetention }
    /\ cleanup' = [pc |-> "incidents", now |-> time]
    /\ UNCHANGED <<time, row, incidents, job, editVars>>

ExpiredEvenIfOpen(i) == i.startedAt < cleanup.now - IncidentRetention  \* mutant: open ones too
Expired(i) == i.startedAt < cleanup.now - IncidentRetention /\ i.resolvedAt # Unset

\* Notifications go with their incident (ON DELETE CASCADE).
DeleteOldIncidents ==
    /\ cleanup.pc = "incidents"
    /\ incidents' = { i \in incidents : ~Expired(i) }
    /\ cleanup' = Idle
    /\ UNCHANGED <<time, row, checks, job, editVars>>

TimePasses ==
    /\ time < MaxAge
    /\ \A w \in Workers : job[w] # Idle => time < job[w].at + Flight
    /\ time' = time + 1
    /\ UNCHANGED <<row, checks, incidents, job, cleanup, editVars>>

-----------------------------------------------------------------------------
(* The figures.                                                             *)

\* isMonitoringStale.  Every monitor was created at time 0.
isMonitoringStale(r, now) ==
    LET reference == IF r.lastCheckedAt = Unset THEN 0 ELSE r.lastCheckedAt
    IN  ~r.paused /\ r.scheduled /\ now - reference > StaleLimit

displayState(r, now) ==
    IF r.paused THEN "PAUSED" ELSE IF isMonitoringStale(r, now) THEN "STALE" ELSE r.state

InWindow(m, since) == { c \in checks : c.monitor = m /\ c.at >= since }

Count(rows, outcome) == Cardinality({ c \in rows : c.outcome = outcome })

countChecksInWindow(since) ==
    [m \in Tracked |->
        [up |-> Count(InWindow(m, since), "UP"), down |-> Count(InWindow(m, since), "DOWN")]]

\* round2 of a ratio as a percentage, in hundredths of a percent.
Percent(part, whole) == (20000 * part + whole) \div (2 * whole)

computeUptime(window, now, counts) ==
    LET start    == Max({0, now - window})
        expected == (now - start) \div Period
        recorded == counts.up + counts.down
    IN  [windowStart |-> now - window, recorded |-> recorded, expected |-> expected,
         uptime   |-> IF recorded = 0 THEN Unset ELSE Percent(counts.up, recorded),
         coverage |-> IF expected = 0 THEN (IF recorded > 0 THEN 10000 ELSE 0)
                      ELSE Min({10000, Percent(recorded, expected)})]

\* PARTIAL_DATA_COVERAGE_THRESHOLD.
partialData(summary) == summary.coverage < 9000

\* mutant: the edge of the window is left out.
CoversAfter(start, now, c) == c.at > start /\ c.at <= now
Covers(start, now, c) == c.at >= start /\ c.at <= now

\* bucketChecks: the checks that land in each bucket of the window that ends now.
bucketChecks(rows, now) ==
    LET size     == DayWindow \div BucketCount
        start    == now - DayWindow
        shown    == { c \in rows : Covers(start, now, c) }
        index(c) == Min({BucketCount - 1, (c.at - start) \div size})
        In(b)    == { c \in shown : index(c) = b }
    IN  [b \in 0..(BucketCount - 1) |-> [up |-> Count(In(b), "UP"), down |-> Count(In(b), "DOWN")]]

summariseActivity(rows) ==
    [up   |-> Count(rows, "UP"),
     down |-> Count(rows, "DOWN"),
     seen |-> Cardinality({ c.monitor : c \in rows })]

-----------------------------------------------------------------------------
(* The screens.                                                             *)

\* orderBy startedAt desc, take limit.
Newest(limit, rows) ==
    { i \in rows : Cardinality({ k \in rows : \/ k.startedAt > i.startedAt
                                              \/ k.startedAt = i.startedAt /\ k.id > i.id })
                   < limit }

Ongoing(rows) == { i \in rows : i.resolvedAt = Unset }

serialiseMonitor(m, open) ==
    [state |-> row[m].state, shown |-> displayState(row[m], time),
     paused |-> row[m].paused, failures |-> row[m].failures, lastCheckedAt |-> row[m].lastCheckedAt,
     open |-> { i.id : i \in { i \in open : i.monitor = m } },
     uptime24h |-> computeUptime(DayWindow, time, countChecksInWindow(time - DayWindow)[m])]

\* GET /monitors.
MonitorList == [m \in Tracked |-> serialiseMonitor(m, Ongoing(incidents))]

\* GET /monitors/:id.
MonitorDetail(m) ==
    LET listed == Newest(DetailLimit, { i \in incidents : i.monitor = m })
    IN  [monitor   |-> serialiseMonitor(m, Ongoing(listed)),
         day       |-> computeUptime(DayWindow, time, countChecksInWindow(time - DayWindow)[m]),
         week      |-> computeUptime(WeekWindow, time, countChecksInWindow(time - WeekWindow)[m]),
         checks    |-> InWindow(m, time - WeekWindow),
         incidents |-> listed]

\* GET /overview.  RECENT_INCIDENT_LIMIT is more than an instance holds.
Overview ==
    LET listed == Newest(OverviewLimit, { i \in incidents : \/ i.startedAt >= time - WeekWindow
                                                            \/ i.resolvedAt = Unset })
    IN  [monitors  |-> [m \in Tracked |-> serialiseMonitor(m, Ongoing(listed))],
         open      |-> Ongoing(listed),
         recent    |-> { i \in listed : i.startedAt >= time - WeekWindow },
         last24h   |-> summariseActivity({ c \in checks : c.at >= time - DayWindow }),
         timelines |-> [m \in Tracked |-> bucketChecks(InWindow(m, time - DayWindow), time)]]

ChNext ==
    \/ \E w \in Workers, m \in Tracked, s \in Slots, o \in {"UP", "DOWN"} : Measure(w, m, s, o)
    \/ \E w \in Workers : Apply(w) \/ Discard(w)
    \/ \E c \in Clients, m \in Tracked, patch \in Patches : ReadMonitor(c, m, patch)
    \/ \E c \in Clients : CloseIncidents(c) \/ SaveMonitor(c) \/ FailEdit(c)
    \/ ReconcileSchedules
    \/ DeleteOldChecks \/ DeleteOldIncidents
    \/ TimePasses

ChSpec == ChInit /\ [][ChNext]_chVars

-----------------------------------------------------------------------------
(* Properties.                                                              *)

SumOver(f) == FoldFunction(+, 0, f)
Recorded(buckets) == SumOver([b \in DOMAIN buckets |-> buckets[b].up + buckets[b].down])

\* overview.ts:60-140, uptime.ts:86-108, activity.ts:52-95: the figures of one
\* answer come from different queries and different code.  When nothing was
\* written in between they agree: the buckets of a monitor add up to its
\* counts, the counts to the account's activity, and a monitor that is DOWN comes
\* with the open incident that explains it.  The overview lists every incident
\* that is open, but for the one that OverviewLimit newer ones push out.
FiguresAgree ==
    LET overview == Overview IN
    /\ overview.last24h.up + overview.last24h.down
           = SumOver([m \in Tracked |-> Recorded(overview.timelines[m])])
    /\ \A m \in Tracked :
          LET detail == MonitorDetail(m)
              listed == MonitorList[m]
          IN  /\ Recorded(overview.timelines[m]) = listed.uptime24h.recorded
              /\ detail.day.recorded <= detail.week.recorded
              /\ detail.day.expected <= detail.week.expected
              /\ detail.week.recorded = Cardinality(detail.checks)
              /\ detail.day.recorded < 20000 /\ detail.day.uptime = 10000 =>
                     \A c \in detail.checks : c.outcome = "DOWN" => c.at < time - DayWindow
              /\ listed.state = "DOWN" => Cardinality(listed.open) = 1
    /\ \A i \in Ongoing(incidents) \ overview.open :
          Cardinality({ k \in incidents : k.startedAt >= i.startedAt /\ k # i }) >= OverviewLimit

\* uptime.ts:128-135, resultProcessor.ts:159 and 189, monitors.ts:147-150: STALE
\* stands for silence.  A monitor that is shown UP or DOWN had a check in the stale
\* limit, unless it is off the schedule, as overlapping edits may leave an active
\* one until reconcileSchedules runs: that one keeps its state however old it is.
\* One that is shown STALE after a check had none since its last reset, but for the
\* time a result may be on its way.
StaleTracksSilence ==
    \A m \in Tracked :
        LET shown == MonitorList[m].shown
            arrived(from) == \E c \in checks : c.monitor = m /\ c.at >= from
        IN  /\ shown \in {"UP", "DOWN"} => arrived(time - StaleLimit) \/ ~row[m].scheduled
            /\ shown = "STALE" /\ row[m].lastCheckedAt # Unset =>
                   ~arrived(Max({row[m].resetAt, time - StaleLimit + Flight}))

\* retention.ts:31-36: only an incident that is over and began before the cutoff
\* is deleted, so an alert that was never sent is only lost with such a one, and
\* the incident of a monitor that is DOWN stays.
RetentionSparesOpenIncidents ==
    [][\A i \in incidents :
          ~(\E k \in incidents' : k.id = i.id) =>
              /\ i.resolvedAt # Unset
              /\ i.startedAt < time - IncidentRetention
              /\ row[i.monitor].state = "DOWN" => \E k \in OpenOf(i.monitor) : k.id # i.id]_chVars

=============================================================================
