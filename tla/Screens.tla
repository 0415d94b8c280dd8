------------------------------ MODULE Screens ------------------------------
(***************************************************************************)
(* What the reader of a screen is told: the sentences, badges, banners and *)
(* orders that apps/web computes from the answers of CheckHistory, and the *)
(* public status page (http/routes/statusPage.ts) with its screen.  Every  *)
(* monitor is public, and every screen shows an answer of this moment (the *)
(* age of what is shown is the subject of Polling).  Layout and wording    *)
(* are left out; a sentence stands as what it claims.                      *)
(***************************************************************************)
EXTENDS CheckHistory

CONSTANTS
    PublicLimit,      \* the incidents the public page takes (60)
    PublicPerMonitor  \* and shows of one monitor (10)

ASSUME PublicAssumption ==
    PublicLimit \in Nat /\ PublicPerMonitor \in Nat \ {0} /\ PublicPerMonitor <= PublicLimit

-----------------------------------------------------------------------------
(* Sentences (lib/format.ts), for a monitor v as serialiseMonitor gives it. *)

explainState(v) ==
    CASE v.shown = "UP"      -> [claim |-> "lastSucceeded", failed |-> v.failures]
      [] v.shown = "DOWN"    -> [claim |-> "confirmedDown", failed |-> Max({Threshold, v.failures})]
      [] v.shown = "PENDING" -> [claim |-> "noCheckYet",    failed |-> 0]
      [] v.shown = "PAUSED"  -> [claim |-> "notTracked",    failed |-> 0]
      [] v.shown = "STALE"   -> [claim |-> "unknown",       failed |-> 0]

\* At most one notice; none for a monitor that is shown DOWN or is not failing.
failureProgress(v) ==
    { [failed |-> v.failures, remaining |-> Max({0, Threshold - v.failures})] :
          x \in { x \in {v} : v.shown # "DOWN" /\ v.failures > 0 } }

coverageNote(u) ==
    { IF u.recorded = 0 THEN [missing |-> Unset] ELSE [missing |-> Max({0, u.expected - u.recorded})] :
          x \in { x \in {u} : partialData(u) } }

UptimeStat(u) == [value |-> u.uptime, of |-> u.recorded, note |-> coverageNote(u)]

StateBadge(shown) ==
    CASE shown = "UP" -> "up" [] shown = "DOWN" -> "down"
      [] shown = "PENDING" -> "info" [] shown = "PAUSED" -> "neutral" [] shown = "STALE" -> "warn"

-----------------------------------------------------------------------------
(* Parts of screens.                                                        *)

bucketTone(b) == IF b.up + b.down = 0 THEN "gap" ELSE IF b.down > 0 THEN "down" ELSE "up"

summariseTimeline(buckets) ==
    [tone \in {"up", "down", "gap"} |->
        Cardinality({ b \in DOMAIN buckets : bucketTone(buckets[b]) = tone })]

ResponseTimeChart(rows) == [line |-> Count(rows, "UP"), marks |-> Count(rows, "DOWN")]

\* One entry per incident: when it began, and its badge.
IncidentList(rows) ==
    { [id |-> i.id, startedAt |-> i.startedAt,
       badge |-> StateBadge(IF i.resolvedAt = Unset THEN "DOWN" ELSE "UP")] : i \in rows }

-----------------------------------------------------------------------------
(* The overview.                                                            *)

With(views, states) == { m \in DOMAIN views : views[m].shown \in states }
Failing(views)      == { m \in DOMAIN views : views[m].failures > 0 }

\* The position of a group in the list; inside one the answer's order stays.
groupMonitors(views) ==
    LET up == With(views, {"UP", "PENDING"})
    IN  [down     |-> With(views, {"DOWN"}),
         inactive |-> With(views, {"PAUSED", "STALE"}),
         up       |-> up,
         place    |-> [m \in Tracked |->
                          CASE views[m].shown = "DOWN"  -> 1
                            [] m \in up \intersect Failing(views) -> 2
                            [] views[m].shown \in {"PAUSED", "STALE"} -> 3
                            [] m \in up \ Failing(views) -> 4]]

\* mutant: only a monitor that is UP counts as failing.
FailingUp(views) == { m \in Failing(views) : views[m].shown = "UP" }
FailingNotDown(views) == { m \in Failing(views) : views[m].shown # "DOWN" }

AttentionBanner(views) ==
    LET down    == With(views, {"DOWN"})
        stale   == With(views, {"STALE"})
        failing == FailingNotDown(views)
    IN  CASE down # {}  -> [says |-> "down", of |-> down]
          [] down = {} /\ stale # {} -> [says |-> "quiet", of |-> stale]
          [] down = {} /\ stale = {} /\ failing # {} -> [says |-> "failing", of |-> failing]
          [] OTHER -> [says |-> "nothing", of |-> {}]

MetricCards(o, grouped) ==
    [operational |-> Cardinality(grouped.up), attention |-> Cardinality(grouped.down),
     inactive    |-> Cardinality(grouped.inactive), openIncidents |-> Cardinality(o.open)]

Last24Hours(o) ==
    [recorded |-> o.last24h.up + o.last24h.down, failed |-> o.last24h.down, across |-> o.last24h.seen]

OverviewMonitorRow(o, m) ==
    LET v == o.monitors[m]
    IN  [badge    |-> StateBadge(v.shown),       uptime   |-> v.uptime24h.uptime,
         strip    |-> [b \in DOMAIN o.timelines[m] |-> bucketTone(o.timelines[m][b])],
         coverage |-> coverageNote(v.uptime24h), progress |-> failureProgress(v)]

OverviewPage ==
    LET o       == Overview
        grouped == groupMonitors(o.monitors)
    IN  [banner |-> AttentionBanner(o.monitors),
         cards  |-> MetricCards(o, grouped),
         day    |-> Last24Hours(o),
         rows   |-> [m \in Tracked |-> OverviewMonitorRow(o, m)],
         place  |-> grouped.place,
         recent |-> IncidentList(o.recent)]

-----------------------------------------------------------------------------
(* The list of monitors.                                                    *)

FILTER_STATES == [up |-> {"UP"}, down |-> {"DOWN"}, paused |-> {"PAUSED"},
                  pending |-> {"PENDING", "STALE"}]

ATTENTION_RANK == [DOWN |-> 0, STALE |-> 1, PENDING |-> 2, UP |-> 3, PAUSED |-> 4]

\* sort 'attention': whether m stands before n whatever their names are.
Before(views, m, n) ==
    LET rank(x) == ATTENTION_RANK[views[x].shown]
    IN  rank(m) < rank(n) \/ (rank(m) = rank(n) /\ views[m].failures > views[n].failures)

FilterCounts == [f \in DOMAIN FILTER_STATES |-> Cardinality(With(MonitorList, FILTER_STATES[f]))]

MonitorsPage ==
    LET entry(v) == [badge |-> StateBadge(v.shown), openIncident |-> v.open # {},
                     uptime |-> v.uptime24h.uptime]
    IN  [counts |-> FilterCounts, rows |-> [m \in Tracked |-> entry(MonitorList[m])]]

-----------------------------------------------------------------------------
(* The detail of a monitor.                                                 *)

\* The chart's cutoff is the start of the window of the answer's own figure.
\* mutant: the range is ignored.
allChecks(detail, range) == detail.checks
rangedChecks(detail, range) ==
    IF range = "7d" THEN detail.checks
    ELSE { c \in detail.checks : c.at >= detail.day.windowStart }

\* DOWN has its notice only with a failure reason, which a DOWN monitor has.
StateNotices(v) ==
    ({v.shown} \ {"UP"})
        \union { "mostRecentFailed" : p \in failureProgress(v) }

MonitorDetailPage(m) ==
    LET detail == MonitorDetail(m)
    IN  [claims      |-> explainState(detail.monitor).claim,
         badge       |-> StateBadge(detail.monitor.shown),
         notices     |-> StateNotices(detail.monitor),
         day         |-> UptimeStat(detail.day), week |-> UptimeStat(detail.week),
         chart       |-> [range \in {"24h", "7d"} |-> ResponseTimeChart(rangedChecks(detail, range))],
         incidents   |-> IncidentList(detail.incidents)]

-----------------------------------------------------------------------------
(* The public page.                                                         *)

overallState(states) ==
    CASE states = {}     -> "UNKNOWN"
      [] states = {"UP"} -> "OPERATIONAL"
      [] states = {"DOWN"} -> "DOWN"
      [] states \intersect {"UP", "DOWN"} = {} /\ states # {} -> "UNKNOWN"
      [] OTHER -> "DEGRADED"

serialisePublicMonitor(m, listed) ==
    [shown |-> displayState(row[m], time), lastCheckedAt |-> row[m].lastCheckedAt,
     uptime24h |-> computeUptime(DayWindow, time, countChecksInWindow(time - DayWindow)[m]),
     incidents |-> Newest(PublicPerMonitor, { i \in listed : i.monitor = m })]

\* GET /public/status/:slug of a page that is published.
PublicStatus ==
    LET listed     == Newest(PublicLimit, { i \in incidents : i.startedAt >= time - WeekWindow })
        serialised == [m \in Tracked |-> serialisePublicMonitor(m, listed)]
    IN  [overall |-> overallState({ serialised[m].shown : m \in Tracked }), monitors |-> serialised]

PublicStatusPage ==
    LET body == PublicStatus
    IN  [title   |-> body.overall,
         paused  |-> Cardinality(With(body.monitors, {"PAUSED"})),
         unknown |-> Cardinality(With(body.monitors, {"STALE", "PENDING"})),
         rows    |-> [m \in Tracked |->
                         [badge    |-> StateBadge(body.monitors[m].shown),
                          since    |-> { i.startedAt : i \in Ongoing(body.monitors[m].incidents) },
                          coverage |-> coverageNote(body.monitors[m].uptime24h),
                          entries  |-> IncidentList(body.monitors[m].incidents)]]]

-----------------------------------------------------------------------------
(* Properties.                                                              *)

\* The last check of m is kept and succeeded.
LatestSucceeded(m) ==
    \E c \in checks : c.monitor = m /\ c.at = row[m].lastCheckedAt /\ c.outcome = "UP"

\* m is off the schedule, and its last check is so old that it may be deleted.
Forgotten(m) == ~row[m].scheduled /\ row[m].lastCheckedAt < time - CheckRetention

\* OverviewPage.tsx:381-484 and 355-369, CheckStrip.tsx:29-32: a healthy account
\* gets a quiet summary, and only a healthy one.  With no banner every monitor is
\* switched off, new, or passed its last check, in the stale limit unless it is off
\* the schedule (uptime.ts:131: overlapping edits leave an active monitor so until
\* reconcileSchedules runs); below a banner the monitors it does not name are still
\* above the healthy ones; and no bucket of a strip is green that holds a failed
\* check or none.
NothingWrongIsHidden ==
    LET page       == OverviewPage
        timelines  == Overview.timelines
        healthy(m) == page.place[m] = 4
    IN  /\ page.banner.says = "nothing" =>
              \A m \in Tracked : \/ row[m].paused \/ row[m].lastCheckedAt = Unset
                                 \/ /\ LatestSucceeded(m) \/ Forgotten(m)
                                    /\ ~row[m].scheduled \/ time - row[m].lastCheckedAt <= StaleLimit
        /\ \A m \in Tracked :
              healthy(m) /\ row[m].lastCheckedAt # Unset => LatestSucceeded(m) \/ Forgotten(m)
        /\ \A m \in page.banner.of : ~healthy(m)
        /\ \A m \in Tracked, b \in 0..(BucketCount - 1) :
              page.rows[m].strip[b] = "up" =>
                  /\ timelines[m][b].up > 0
                  /\ timelines[m][b].down = 0

\* overview.ts:60-140, statusPage.ts:95-142, MonitorsPage.tsx:47-61, OverviewPage.tsx
\* and MonitorDetailPage.tsx:104-116: five screens tell of the same monitors, each
\* from its own query and with its own rules.  Read at one moment they do not
\* contradict each other: an outage that the owner sees as ongoing is not
\* missing from, or resolved on, the public page (unless it is too old or too
\* far down for it), and a monitor that is DOWN on one is DOWN on each.  What the
\* public page lists as ongoing the owner sees as an open incident, of a monitor
\* whose badge is never up, and tells of no trouble only when an edit left the
\* incident open as it reset or paused the monitor (monitors.ts:134-174).  What
\* explainState (lib/format.ts:135-160) gets wrong of a failing monitor, that its
\* last check succeeded or that none has completed, a notice below it corrects.
ScreensAgree ==
    LET overview == OverviewPage
        list     == MonitorsPage
        public   == PublicStatusPage
        strips   == Overview.timelines
    IN  /\ overview.cards.attention = list.counts.down
        /\ overview.cards.operational + overview.cards.inactive
               = list.counts.up + list.counts.pending + list.counts.paused
        /\ list.counts.pending = public.unknown /\ list.counts.paused = public.paused
        /\ public.title \in {"OPERATIONAL", "UNKNOWN"} => overview.banner.says # "down"
        /\ \A m \in Tracked :
              LET detail == MonitorDetailPage(m)
                  strip  == summariseTimeline(strips[m])
              IN  /\ detail.chart["24h"].marks > 0 <=> strip["down"] > 0
                  /\ detail.chart["24h"].line + detail.chart["24h"].marks = detail.day.of
                  /\ \/ "mostRecentFailed" \in detail.notices
                     \/ CASE detail.claims = "lastSucceeded" -> LatestSucceeded(m) \/ Forgotten(m)
                          [] detail.claims = "noCheckYet" -> row[m].lastCheckedAt = Unset
                          [] OTHER -> TRUE
                  /\ public.rows[m].since # {} =>
                         /\ list.rows[m].openIncident
                         /\ detail.badge # "up"
                         /\ detail.badge \in {"down", "warn"} \/ m \in left
                  /\ \A e \in detail.incidents :
                         e.badge = "down" => \/ public.rows[m].since = {e.startedAt}
                                             \/ e.startedAt < time - WeekWindow
                                             \/ Cardinality({ i \in incidents : i.id # e.id /\ i.startedAt >= e.startedAt })
                                                    >= PublicPerMonitor
=============================================================================
