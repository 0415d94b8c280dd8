# Pingexa verification

TLA+ models of Pingexa's API, worker processes and web client, model-checked with
TLC; every safety property that the runs find to hold is also proved with TLAPS, for
all values of the constants. Pingexa checks up to three URLs per
account every few minutes, declares an outage after `FAILURE_THRESHOLD` failures
in a row, and mails the owner when an outage starts and ends. The properties are
about those promises: no invented downtime, no lost outage, no mail sent more
often than the budget allows, no check forgotten, no link used twice, no request to
a private address, no screen that calls a failing account healthy.

- [The system](#the-system)
- [Modules](#modules)
- [Runs](#runs)
- [Fairness](#fairness)
- [Proofs](#proofs)
- [Where code and documentation disagree](#where-code-and-documentation-disagree)
- [Observations](#observations)
- [Not modelled](#not-modelled)
- [Plan](#plan)

## The system

Paths are relative to `src/apps/api/src` unless they say otherwise.

```
 browser -- HTTP --> API process --+                    +--> target URL
                                   |                    |
                              Postgres   Redis/BullMQ   |
                                   |        |           |
                       worker process(es): tick, check jobs, email jobs --> SMTP
```

| Component | State | Operations | What makes it hard | What makes it correct |
|---|---|---|---|---|
| Result processing (`monitoring/resultProcessor.ts`) | `monitors`, `checks`, `incidents`, `notifications` | `processCheckResult` | a slot runs twice (stall, retry, redelivery); results race with each other and with edits | one slot counts once; DOWN means `FAILURE_THRESHOLD` slots in a row; one open incident per monitor; alerts match incidents |
| Check job (`worker/checkJob.ts`) | none of its own | `handleCheckJob` | the row is read before the request and written after it | a pause or a delete in between leaves no trace |
| Monitor edits (`domain/monitors.ts`) | `monitors`, `incidents` | create, update, delete, activate | read outside the transaction, lock order opposite to result processing, slot races | incidents end with the right reason; the schedule is not corrupted |
| Scheduler (`monitoring/scheduler.ts`) | `monitors.nextCheckAt` | `claimDueMonitors`, `dispatchDueChecks`, `reconcileSchedules` | several processes, skipped locked rows, batch limit, downtime, crash between claim and enqueue | a due check is claimed; catching up never bursts; claimed slots are fresh |
| Worker process (`worker.ts`) | `ticking` flag, tick counter | start-up, tick, shutdown, retention timer | a tick that throws, overlapping ticks | monitoring never stops silently |
| Queues (`queue/queues.ts`) | Redis | add with a deterministic id, retry, trim | lost, repeated, delayed jobs | the database decides, the queue only hints |
| Alerts (`worker/emailJob.ts`) | `notifications.status`, `.attempts` | `deliverAlert`, `reconcilePendingAlerts` | crash around SMTP, lost locks, trimmed jobs | bounded sends, no ordinary duplicates, nothing forgotten |
| Accounts (`domain/auth.ts`) | `users` | sign up, confirm, log in, reset and change the password | no transactions: every statement may be the last | an address is confirmed only by a link |
| Single-use tokens (`domain/authTokens.ts`) | `auth_tokens` | issue, consume, purge | read before compare-and-set | one winner; newer links kill older ones |
| Sessions (`domain/sessions.ts`) | `sessions` | create, resolve, revoke, purge | revocation races with requests in flight | a changed password ends the sessions it displaces |
| Status page (`domain/statusPage.ts`, `http/routes/statusPage.ts`) | `status_pages` | get or create, publish, rotate; the public read | two first openings at once, slug collisions, a revocation during a visit | one page per account; a revoked link is gone at once |
| Figures (`domain/uptime.ts`, `activity.ts`, `serializers.ts`) | none | uptime, coverage, buckets, staleness, display state | edges of windows, several queries behind one answer, bounded lists, results out of order | the figures of an answer agree; STALE stands for silence |
| HTTP check (`monitoring/httpCheck.ts`) | one request | guard, connection, headers, drain, verdict | a timeout races an answer, a body that trickles | a verdict rests on an answer; a check ends |
| Target guard (`monitoring/urlGuard.ts`, `ipRanges.ts`) | the pinned addresses | shape of the URL, resolution, ranges | the resolver changes its answer, one address has many spellings | the socket only reaches a vetted public address |
| Retention (`monitoring/retention.ts`) | deletes rows | `runRetention` | deletes a slot's idempotency key, an incident's pending alert | open incidents survive |
| HTTP API (`http/`) | cookies, limits | routing, guards, double-submit check | a token replaced between reading and sending | a write is refused only for a reason; a sign-out ends the session |
| Web client, session (`src/apps/web/src/state`, `lib/api.ts`) | user on screen, cookies of the browser | load, sign in, sign out, confirm | several tabs, late and lost answers | nobody is signed in on a dead session |
| Web client, polling (`lib/usePolledResource.ts`, pages) | what a page shows | read, poll, write and read back | answers out of order, requests outliving the page | newest data wins in the end |
| Web client, screens (`lib/format.ts`, pages, components) | none | grouping, banners, notices, strips | a failing monitor that is not yet DOWN, five screens on five queries | nothing wrong is hidden; screens agree |

How they interact: the tick claims slots and enqueues check jobs; a check job
probes the URL and hands the outcome to result processing, whose transaction may
create notification rows; the job then enqueues their mails, and the outbox pass
of every n-th tick re-enqueues what was lost. API requests edit the same rows.
Confirming an address activates the monitors of the account. Retention deletes
old rows beside them. The web client reads the same rows through the API, page
by page and on a timer. Processes share only Postgres (at READ COMMITTED) and Redis;
the tabs of a browser share its cookies.

## Modules

| Module | Models | Extends / instantiates |
|---|---|---|
| `OutageTracking` | what incident tracking promises, without workers, locks, queue or counter | |
| `IncidentTracking` | `handleCheckJob`, `processCheckResult`, `createMonitor`, `updateMonitor`, `deleteMonitor` on a monitor's state, checks, incidents, notifications | INSTANCE `OutageTracking` as `Promise` |
| `AlertDelivery` | notification rows, the email queue, `deliverAlert`, `reconcilePendingAlerts` | |
| `Scheduler` | `nextCheckAt`: the tick of each process, reconciliation, confirmation, edits | |
| `Accounts` | links, sessions, confirmation, passwords | |
| `Provisioning` | monitor slots and the status page of an account, request by request | |
| `CheckHistory` | the times in the rows under late results, edits and retention; the figures and three reads of the API | |
| `Screens` | what the web client and the public page say of those figures | EXTENDS `CheckHistory` |
| `IpRanges` | classification of addresses, spellings of IPv6 addresses | |
| `HttpCheck` | one outgoing check behind the target guard | EXTENDS `IpRanges` |
| `WebSession` | tabs, cookies, tokens and sessions | |
| `Polling` | a page that reads, re-reads and writes what it shows | |
| `MCIncidentTracking`, `MCAlertDelivery`, `MCScheduler` | instances for TLC: model values, request bodies, symmetry | the module of that name |
| `MCAccounts` | instance of two modules that share no state; the variable `part` chooses one in the initial state | `Accounts`, `Provisioning` |
| `MCHistory` | instance with three ways to explore, `part` | `Screens` |
| `MCExchanges` | instance of three modules, `part`; inputs of the check (edges of every range) | `HttpCheck`, `WebSession`, `Polling` |
| `IncidentTrackingProofs`, `AlertDeliveryProofs`, `SchedulerProofs`, `AccountsProofs`, `ProvisioningProofs`, `HttpCheckProofs` | theorems and proofs | EXTENDS the module of that name and `TLAPS` |
| `HistoryProofs` | theorems and proofs about the rows, the figures and what is said of them | EXTENDS `Screens` (and so `CheckHistory`), `TLAPS` |
| `ClientProofs` | theorems and proofs about the two halves of the web client | EXTENDS `WebSession`, `Polling`, `TLAPS` |

Each module keeps one aspect of the rows in full and over-approximates the rest:

- *Scheduler to IncidentTracking.* `Scheduler` enqueues the slots it claims.
  `IncidentTracking!Enqueue` allows any slot of any monitor at any time, once the
  monitor exists, which includes every order of claims and every repetition after
  a job was evicted.
- *IncidentTracking to AlertDelivery.* A commit that inserts a notification is
  `CreateAlert`; the enqueue that follows it outside the transaction is
  `EnqueueAlert` or `LoseEnqueue`. Deletion with the incident is `DeleteAlert`.
- *Accounts to Scheduler.* `Accounts!ConfirmAddress` and a reset's `WritePassword`
  are `Scheduler!ConfirmAddress`; the separate statement that activates the
  monitors is `ActivateMonitors`, and `LoseActivation` is a crash before it.

### IncidentTracking

A worker is one BullMQ concurrency slot; a client is one PATCH request. A worker
goes `idle -> probing -> locked -> done -> idle`: `StartJob` is the code up to the
HTTP request, `LockRow` is `SELECT ... FOR UPDATE` and the insert into `checks`,
`Commit...` the rest of the transaction. What the transaction does between lock and
commit is invisible to others except through its locks, so it is one step;
`RefuseResult` and `RollBackOutage` are its early ends. A job stays in `jobs` until
`FinishJob`, so its redelivery may run beside it. A client goes
`idle -> closing -> updating -> idle`: `ReadMonitor` is `getOwnedMonitor`, outside
the transaction, and every later decision uses that copy; `CloseIncident` is
`incident.updateMany`, `CommitEdit` is `monitor.update` and the commit. `held` are
the incident rows locked in between. Processing locks monitor then incident, an
edit the other way round; `ResolveDeadlock` is Postgres aborting one of the two.

An incident is named by the slot whose result opened it. `streak` is a history
variable: the set of failed slots since the last success or reset, against which
`consecutiveFailures` is judged. Timestamps inside rows are left out.
`DropJob` also covers the staleness check and an unverified owner.

### AlertDelivery

`deliverAlert` is `fetching -> claiming -> sending -> accepted/refused`, one step per
statement or SMTP transaction; `EndRun` leaves the job, `Complete` and `Retry` tell
the queue. BullMQ is external and modelled from its use: adding an existing id is
a no-op, a finished job keeps its id until trimmed, a lock that expires hands the
job out once more while its first worker may still be running. `fault` marks events
after which a second copy is unavoidable: a crash or a lost lock during a
delivery, an ambiguous SMTP failure, a failed write of SENT. The branch for an
unverified account (`emailJob.ts:145-151`) is left out: verification is never
withdrawn and no monitor exists before it.

### Scheduler

A tick is `claiming -> dispatching -> (reconciling) -> idle`. `BeginTick` captures
`now` apart from the claim's execution, as the code passes it in. `Claim` is the one
SQL statement; SKIP LOCKED is an arbitrary set of locked rows. `FailTick` is a
statement that throws, `Crash` the end of the process at any point. Edits read
the row (`ReadMonitor`) and write it later (`SaveMonitor`), with `nextCheckAt` computed
from the copy. The routes that write monitors require a confirmed address
(`http/routes/monitors.ts:83-85`), hence the guard of `CreateMonitor`. `claimed`,
`rewound`, `last` and `before` are history.

### Accounts

One account. A request is one API call; no function of `auth.ts` uses a
transaction, so every statement is a step and `FailRequest` may end the request
after any of them. Issuing is `InvalidateLinks` then `InsertLink`; using a link is
`ShowLink` (the read and its guards) then `ClaimLink` or `LoseLink`
(`updateMany ... consumedAt: null`); changing a password is `WritePassword` then
`RevokeSessions`. Session state "ended" stands for revoked, expired and purged, which
`resolveSession` treats alike. Hashing and wording are left out.

### Provisioning

A request of the owner is a sequence of statements: `BeginCreate`, then one `TrySlot` per
insert of `createMonitor`, which takes the slot or meets the unique index and goes to
the next; or `BeginSettings`, the read and insert loop of `getOrCreateStatusPage` (`FindPage`,
`InsertPage`, `ReadAgain`), the handler's own write (`WritePage`, with the retries of a
rotation) and the two reads of `settingsPayload` (`AnswerSettings`). A visit looks the
page up by its slug and then reads the public monitors. The slug of another
account's page stands for every collision; 16 random bytes are taken not to repeat
a slug the page had. `freed`, `before` and `live` are history.

### CheckHistory

A worker fixes the time of a result when the check ends (`Measure`) and applies it later
(`Apply`), so results overtake each other. Applying is one step here, as the row lock
makes it; what interleaves inside it is in `IncidentTracking`. An edit is three steps:
`ReadMonitor`, `CloseIncidents` (its incidents are `Held` until it commits) and
`SaveMonitor`, which decides by the copy that was read; `FailEdit` aborts it. So a result may
commit between the last two and leave a paused or PENDING monitor with an open incident
(finding 1); the history variable `left` holds those monitors. `scheduled` stands for
`nextCheckAt # null`: overlapping edits may clear it on an active monitor, as in `Scheduler`,
until `ReconcileSchedules` runs, and `isMonitoringStale` never speaks of such a monitor.
Retention fixes its cutoffs and then deletes checks (`DeleteOldChecks`) and resolved incidents (`DeleteOldIncidents`). The figures and the
answers (`MonitorList`, `MonitorDetail`, `Overview`) are operators of the rows and the time:
windows, buckets, rounding, limits and orders as in the code. All processes read
one clock, and an answer is computed from one state.

### Screens

Operators from those answers to what a reader is told: a sentence stands as the
claim it makes, a badge as its tone, a list as its members. Nothing here is state;
the properties quantify over every reachable history of `CheckHistory`.

### HttpCheck and IpRanges

`Check` is `checkShape`, whose rules are a list of which the first broken one decides;
`Resolved` judges all answers and arms the budget timer; `Connect` uses the pinned
lookup; `Headers`, `Chunk`, `BodyEnds` are the answer; `RequestFails` any error undici raises,
with its chain of codes; `BudgetSpent` the timer. `seen` is what has been read of the body,
with the chunk that passes the limit. The resolver may answer differently
before every step (`Rebind`). Addresses are sequences of octets or groups; the range
table is the code's, compared bit by bit with the prefix, and judged against an
independent reference (`Between`, lexicographic order on addresses). `expandIPv6` is run on
every spelling of every edge.

### WebSession

One browser. A call of a tab goes through `token -> (bootstrap) -> ready -> sent -> answered`,
reads only starting at `sent`; the cookies are those of the moment of sending, and the
`Set-Cookie` of an answer takes effect when it arrives. `Fail` loses a call before or
after the server. `Serve` is the double-submit check, `attachSession` and the handler; a login
may also fail after its cookies are set (`routes/auth.ts:68-75`). `EndSession` is a reset, a change of password or an expiry elsewhere. `why` and `wasLive` are
history.

### Polling

A page, which is a list, a detail page or the settings, and its target: only the address of
a detail page changes. The read of the effect is aborted by a navigation; polls and
reloads are not, and answers arrive in any order. A write is confirmed, then read
back by `Reload` or replaced by its answer (`SetData`, the settings page). On a list several
writes may be under way, since `MonitorsPage` disables one row (`busyId`), and one reload may
overtake the read of another (`Passed`); the other pages have one write at a time. A version stands
for the state of a target on the server, moved by others too. `late` marks a read
that was under way at a navigation or before a reload and is history, as is `saved`.

## Runs

Nine runs pass; the last three are expected to be violated and are explained under
[Where code and documentation disagree](#where-code-and-documentation-disagree).

| Run | Instance | States | Shows |
|---|---|---|---|
| `incidents` | 1 monitor, 3 slots, 2 workers, 1 client, 2 URLs, threshold 2 | 267,724 | the safety and action properties of `IncidentTracking`, and that it implements `OutageTracking` |
| `incident_liveness` | 2 slots, 2 workers, 1 client, threshold 1 | 25,829 | runs and edits end although they deadlock on row locks |
| `alerts` | 1 alert, 2 workers, 2 attempts | 50,671 | the sending budget, no shared attempt, duplicates only after a fault, no alert forgotten |
| `schedule` | 1 monitor, 2 processes, 1 client, interval 1, lag 2, time to 3 | 449,706 | double claims need a rewind, spacing of claims, freshness, the inductive invariant |
| `schedule_liveness` | 2 monitors, 1 process, 1 client, batch 1, time to 2 | 12,964 | every due check is claimed, although another monitor keeps competing for the batch |
| `schedule_repair` | 1 monitor, 1 process, 2 clients | 47,423 | an active monitor without a schedule is repaired |
| `accounts` | 2 links, 2 sessions, 2 requests; 2 slots, 2 requests of the owner, 1 visitor, 4 slugs | 397,732 | links, confirmation and sessions, slots and the status page under every interleaving of the statements |
| `history` | 2 monitors, 3 slots, 2 workers, 2 clients, time to 3, threshold 2 | 159,484 | figures and screens over every history: they agree, hide nothing, and retention spares what is open |
| `exchanges` | 1 check of 1,044 URLs; 2 tabs, 2 writes; 1 page, 2 targets, 3 navigations, 2 writes, 1 failure | 138,586 | vetted addresses, verdicts, sign-in and sign-out, what a page shows, and that each comes to an end |
| `paused_with_open_incident` | 4 slots, 1 worker, 1 client that pauses and resumes | | finding 1 |
| `result_of_old_url` | 3 slots, 1 worker, 1 client that changes the URL | | finding 2 |
| `outbox_gives_up` | as `alerts`, one worker | | finding 3 |

Why these bounds are enough to meet the interesting cases:

- *IncidentTracking.* Monitors share nothing but workers, so one suffices. Three slots
  with a threshold of two give a crossing failure, a failure after it and a recovery;
  two workers give two results of one slot and of two slots at once; one client
  gives the race of an edit with each of them. Races of two clients are covered by
  the proofs, which put no bound on `Clients`. An outage that finds an incident still
  open needs four failures at a threshold of two, so `incident_liveness` lowers the
  threshold to one, where the roll back by the index is part of what must end.
- *AlertDelivery.* Two attempts give a first and a last one; two workers are what a
  lost lock needs. Alerts share only workers and a flush of Redis.
- *Scheduler.* With an interval of one unit and a lag of two, three units of time reach
  a row that is on time, one that catches up and one that is re-based. `MaxTime` stops
  the clock (guard of `Tick`); nothing else is bounded. Ticks count modulo
  `ReconcileEvery`, as the code's test does. The liveness runs keep one process, so
  that no other makes up for a stuck one. `schedule_liveness` has two monitors and a batch of
  one: at its last time, 2, a client may change the URL of a monitor again and again, which
  makes it due at once every time (`Competing`), so the other is only claimed because the
  oldest row comes first. With the order reversed TLC finds it passed over for ever. There
  every tick reconciles (`ReconcileEvery` 1) and the other edits are left to the other runs.
- *Accounts.* Two links give a link and the one that supersedes it, of either kind; two
  sessions the one that is kept and the one that ends; two requests every pairwise
  race. `Links` and `Sessions` are bounded because ids are not reused.
- *Provisioning.* Two slots give a first and a last one, two requests each pair of a
  creation, an opening and a rotation; a monitor may be there before. Two attempts
  at a slug give a retry and the last one; three slugs are the first of the page and one
  per request.
- *CheckHistory, Screens.* Threshold 2 in three slots gives a crossing failure before or
  after any other result; time 3 passes the stale limit (1), the day (2), both
  retentions (2) and, with a week of 3, its edges. Lists of one and two entries make every
  limit bite. `part` splits the work. "deep" is one monitor with two results in flight until the
  first edit, a pause or change of URL and a resume, each at one time but with a result between
  its statements, and retention at the end of time, with an edit but no result between its
  deletions. "wide" is two monitors, a result applied at once, an edit saved at once, one time
  step less, no retention. "edits" is one monitor beside a paused one and two edits that read
  the row at the start and overlap in every way, so that a schedule is lost, stays lost past
  the stale limit and is repaired. `Flight` bounds how late a result may be by one unit, and
  checks end within one unit of their slot; both are bounds of the instance.
- *HttpCheck.* Every range with its first and last address and the addresses next to
  them, and of those that are reserved every spelling; a budget of one tick and a
  resolution of at most one, two chunk sizes around a cap of two.
- *WebSession.* "tab" is one tab with everything it can do and a session ended elsewhere;
  "tabs" are two tabs that sign in and out with at most two calls under way. Two writes
  are a sign-in and a sign-out, or two of one.
- *Polling.* `MaxMoves` counts the opening: two targets and three moves open a detail page,
  leave it and come back to the first target. One poll beside the read of the effect, and
  two writes of a list, each with its reload. To keep the instance small the first target
  changes twice on a list and once on a detail page, and the other one never
  (`PageStep`): two versions tell the reloads of two writes apart, one tells old from new.
  While two writes overlap no read fails; the proofs put no such bound.

Symmetry is used in safety runs only, over sets whose members no definition
singles out. Deadlock is checked except in the runs of `AlertDelivery`, where an alert
that is sent or gone with its job trimmed leaves nothing to do, in `history`, where the
clock is bounded, and in `exchanges`, where a check ends for good.

Every property has a mutant in `PROJECT.json`: a definition that models code, changed the
way a plausible bug would change it (in the modules the changed forms stand
before the definition and are marked `mutant`), under which TLC finds the property
violated.

## Fairness

- *Scheduler.* A dead process is restarted (weak fairness: the container's restart
  policy). Its timer fires (`setInterval`), so an idle process begins a tick. A query
  may fail, a row may be locked by someone else and a process may crash, any number
  of times but not at every attempt: strong fairness of each step of the tick, of a claim
  that finds the row of a given monitor unlocked, and of the claim in a tick that
  reconciles. The second says that another transaction does not hold one row at
  every claim, not that the claim takes it: that is left to the order and the limit of
  the statement. The last one says that failures do not single out every n-th tick. Clients are not fair.
  `DueIsClaimed` speaks of one value of `nextCheckAt`: a client that keeps saving stale
  copies can keep a monitor due for ever, and does not refute it.
- *IncidentTracking.* A worker and a request keep executing once begun. Postgres
  grants row locks in queue order, hence strong fairness on the steps that wait for
  one, and its deadlock detector fires. Nobody has to send a request or a job.
- *AlertDelivery.* The outbox pass runs on every n-th tick, enqueues do not fail for ever,
  locks expire, workers take waiting jobs. `TrimmedSpec` adds that finished jobs are
  trimmed in the end (`removeOnComplete`, `removeOnFail`); without it the id of a failed
  job could block its alert for ever.

- *HttpCheck.* Time passes, the budget timer fires and a resolution ends (undici and
  getaddrinfo have their own limits). Nothing is assumed of the monitored site.
- *WebSession.* The browser settles every fetch, as an answer or as an error, and runs the
  code that waits for it. Nobody has to open a tab or press a button.
- *Polling.* The interval fires and reads settle. `MaxFailures`, `MaxVersion` and `MaxMoves` say
  that failures, changes and navigations come to an end, which `ShownEventuallyCurrent`
  presupposes.

## Proofs

The constants are arbitrary; the proofs use only the named assumptions of the modules,
which TLC evaluates on every run that extends them:

- the threshold, the budgets, the interval, the lag, the batch and the tick modulus are
  positive integers, and request bodies have the fields of the schema;
- the value that stands for "no incident", "no target" or "no page" is not an id or a slug;
- the day is not longer than the week and has at least as many units as buckets; checks
  are kept for longer than the stale limit (at least a day against the 15 minutes that
  `config/env.ts:95-103` and `:176` make of the interval in production), resolved incidents for
  longer than a result may be in flight; an account has finitely many monitors;
- one monitor's share of the public page's incidents is not above the page's limit
  (10 and 60, `http/routes/statusPage.ts`);
- the URL parser yields the octets of an IPv4 host or a text that is an IPv6 address, and
  the resolver yields addresses.

Sets of monitors, slots, workers, processes, clients, links, sessions, requests, visitors,
tabs, targets, reads and writes may otherwise be infinite; where cardinalities are compared the
invariant carries the finiteness it needs.

Each `...Proofs` module has the same layout: the next-state relation is split into one
disjunct per action (`NextActions`, `SessionActions`, `PollingActions`, or the step lemma
itself); types with one step per action; lemmas for the parts of the inductive
invariant; then the theorems.

- *IncidentTracking.* `CounterCountsSlots` alone is not inductive: a result adds one to the
  counter and one slot to the streak, and only if the slot is not in the streak
  already do they stay equal. `StreakRecorded` says that the streak lies within `checks`, and
  `LockProtectsResult` that the slot of a result about to commit is still outside,
  because nobody else can commit while the row is locked. `DownMeansCounter` ties the
  state to the counter. `DownHasIncident` needs `LocksStayOpen`: an edit holding an
  incident's lock will also reset the state in the same commit, and the incident is
  still open then. The conjunction is `TrackingInvariant`, checked by `incidents` and proved
  as `TrackingCorrect`. From it follow `NoInventedDowntime`, `IncidentsCorrect`, the action
  properties `PauseRespected`, `ResolutionFinal`, `OutageOpensOnce`, and `Refinement`: every
  step is a step of `OutageTracking` or leaves it unchanged. The abstract threshold
  speaks of a set of slots, the code of a counter, so the refinement rests on the
  invariant too.
- *AlertDelivery.* `AttemptsCountSends` says that the row's attempts count the SMTP
  transactions and that a delivery in progress has an attempt of its own, below
  them: `SendsAreBounded`, `AttemptsAreOwned`. `CleanDelivery` says that while nothing went
  wrong one worker, the holder of the lock, runs an alert: `DuplicatesNeedFaults`.
- *Scheduler.* `ScheduleAhead` (the schedule of a row that was not rewound is after every
  slot claimed for it) and `ClaimsSpaced` (it is at least the last claim's instant, and
  an interval after the last but one) are `ScheduleInvariant` with the types. The action
  properties `SlotsClaimedOnce`, `ClaimsAreSpaced` and `ClaimsAreFresh` follow for one step at a
  time.
- *Accounts.* `AccountInvariant`: a link that was ever consumed, or that a request issuing a
  newer one has found, is dead (`SpentIsDead`, `OlderIsDead`); nothing revives a dead link
  (`LinkStep`). A request that will confirm the address has consumed a link
  (`WritersHaveLink`). Sessions seen live when the password is written are live or
  ended when it revokes (`OpenWasLive`), and an ended one stays ended (`SessionStep`).
- *Provisioning.* `WalkOccupied`: a creation that is at slot *n* has found every smaller one
  taken, unless a delete ran meanwhile, so a refusal means a full account
  (`CreationRefusedWhenFull`). `FitsPage`: past `getOrCreateStatusPage` a request has the
  page before it, and the slug it began with is no longer the page's once it has
  rotated it (`SettingsAnswered`). `VisitsLive`: a visit whose lookup would succeed has met
  the page published since it began (`RevokedPageStaysGone`); that needs `PageIssued`, for a
  slug that is generated again would bring an old link back.
- *CheckHistory.* `RowIsFounded` says what a row may rest on: its `lastCheckedAt` is the time
  of a check that is kept, with the outcome that `consecutiveFailures` tells, unless
  retention took it; no check of the monitor is younger by more than the flight of a result. It
  is preserved by a late result only because a result is applied within `Flight` of its
  measurement (`ResultsAreYoung`), and by retention because what it deletes is older than the stale
  limit. `OpenIsDown` says that a monitor has at most one open incident, one if it is DOWN, and
  that any other monitor with an open one is in `left`. Through the steps of an edit that needs
  `EditsHold`: what an edit is closing is open still (`HeldAreOpen`) and held by it alone
  (`HeldByOne`). `IdsAreUnique` makes the newest incident unique. Together with the types they are
  `HistoryInvariant`; `RetentionIsSafe` and `StaleIsSilent` follow from it.
- *The figures.* That a day of buckets adds up to the window and the monitors to the account
  (`FiguresAddUpForAll`) is a statement about folds. It is proved without induction over the
  fold: `SumsExist` takes a smallest set on which a fold is not a sum (`SmallestSet`, by
  well-foundedness of the numbers) and removes one element, and `SumOfParts` takes a smallest
  set on which two ways of adding differ. Every check of the day falls into one
  bucket (`IndexIsABucket`), and a bucket is asked for what the window is.
- *Screens.* `OverviewHidesNothing` and `ScreensTellOneStory` have one lemma per answer
  (`OverviewShows`, `ListShows`, `DetailShows`, `PublicShows`) and one per sentence; what
  remains is that the five screens count the same sets. `ClaimsHold` (a sentence says
  what the checks say) is where the row's foundation is needed, `OngoingIsPublic` where the two
  limits of the public page meet.
- *IpRanges.* `PublicIsUnreserved`: no address of either family that passes lies between the
  first and the last address of a reserved range. TLC compares the edges; the proof rests on
  what a prefix leaves free (`BetweenIsWithin`). `ExpandsToWhatIsWritten`: for every text that
  is an IPv6 address, with or without `::`, `expandIPv6` gives the address the text spells.
- *HttpCheck.* `PeerIsApproved`: what was approved was vetted as a whole, and the peer is one of
  it, so a resolver that changes its mind later changes nothing (`SocketIsVetted`).
  `TimerIsPunctual` bounds the time of a verdict by that of the resolution and the
  budget (`VerdictIsFounded`).
- *WebSession.* `CallFits` ties a call on its way to the jar and the live sessions: a token
  just read is the cookie's, a session that was dead when a call left stays dead, and
  "signed in" names the session that was sent. From `SessionInvariant` follow `CsrfRefusals`,
  `SignInsAreLive` and `SignOutsEndSessions`.
- *Polling.* `ReadsFit`: a read that is not late is of the target of the address, and its answer
  is no older than what was saved there, nor than what a reload under way will save. With
  several writes that holds of the read of each reload too (`WriteFits`): one that another
  reload overtakes becomes late (`PassedWrite`). `OneAtATime` keeps the writes of the other
  pages apart.
  The properties `ShownIsCurrentOrRacing` and `OwnWriteStays` are inductive beside it
  (`PollingInvariant`).

What is only model-checked: the liveness properties (`RunsAndEditsEnd`, `NoAlertForgotten`,
`DueIsClaimed`, `UnscheduledIsRepaired`, `EveryCheckEnds`, `SessionIsEventuallyKnown`,
`ShownEventuallyCurrent`). They rest on strong and weak fairness, and the prover has no rules
for ENABLED. The three properties that are expected to be violated have, of course, no theorem.

## Where code and documentation disagree

Each is a run whose expected outcome is a violation.

1. `paused_with_open_incident`: `updateMonitor` closes the open incident before it locks the
   monitor row. A result that declares an outage between the two leaves an incident
   open on a paused monitor, against `domain/monitors.ts:106-107`. After a resume, the
   next crossing failure hits the partial unique index, and its whole transaction
   rolls back as a "duplicate".
2. `result_of_old_url`: a result obtained from the previous URL is recorded for the new
   one, against `queue/queues.ts:11-13`.
3. `outbox_gives_up`: a worker that dies during the last attempt leaves a row PENDING
   that the outbox never selects again, against `worker/emailJob.ts:187-189`.

## Observations

Met while modelling; each is explained by a property that holds, or is outside what the
properties say.

- `scheduler.ts:10-11` says that two ticks never claim the same slot. An edit that read the
  row before a claim writes the old `nextCheckAt` back (`monitors.ts:150`), and the next tick
  claims the slot again. `DoubleClaimNeedsRewind` says this is the only way, and the
  idempotency key drops the second result.
- `src/docs/DECISIONS.md:145-146` says that simultaneous handlers cannot both send. A worker that
  gets a job whose lock expired reads the attempts its predecessor advanced, claims in
  turn and sends beside it. What holds is `OneSenderPerAttempt`, the budget, and
  `DuplicateNeedsFault`.
- The comment of `reconcileSchedules` (`scheduler.ts:106-110`) names two ways an active monitor
  loses its schedule; a rename overlapping a resume is a third. `UnscheduledIsRepaired`
  shows it is repaired as well.
- The budget of a check does not include the resolution of its host (`httpCheck.ts:170`
  and `196`); `VerdictRestsOnAnswer` therefore bounds the verdict by both.
- The overview takes 200 incidents in all (`overview.ts:80`), newest first, and derives "open
  right now" from them, so an open incident older than 200 others is missing from it,
  although the shared type (`src/packages/shared/src/api.ts:250`) does not call that list
  bounded. `FiguresAgree` states the exception.
- A monitor that was created long enough ago is shown STALE from a resume or a change of URL
  until its first result (`uptime.ts:122-135`): `lastCheckedAt` is cleared and the reference
  falls back to the creation. Of those shown STALE, `StaleTracksSilence` is about the
  monitors that have had a check since.
- `explainState` (`lib/format.ts:141-160`) tells of a failing monitor that is UP that its last check
  succeeded, and of a failing one that is PENDING that no check has completed. The notice
  "The most recent check failed" corrects it on the same page; `ScreensAgree` needs that
  notice. A monitor that is STALE while its state is DOWN is told "0 more failures".
- `MonitorsPage.tsx:54` says its order mirrors the overview's; the ranks differ (STALE comes
  before a failing monitor there, after it here). The overview's card counts failing and
  pending monitors as operational and may say "Every monitor passed its last check"
  (`OverviewPage.tsx:138`), which is false of a failing one; what `NothingWrongIsHidden` is about is
  the banner, which names that monitor above the card.
  The public page says of an operational account that every monitor passed its most
  recent check (`PublicStatusPage.tsx:47`) while one of them is failing.
- An uptime of 100.00 % is exact for fewer than 20,000 checks only: two decimals round one
  failure of 20,000 away (`domain/uptime.ts:81`). A day of checks every five minutes, the interval
  of production (`config/env.ts:176`), has 288 and a week 2,016; a shorter interval, which other
  environments may set, reaches it. `FiguresAgree` states the limit, which the proof showed to be
  needed.
- An open public page keeps showing its last data with an error once its link is revoked,
  and lists an open incident only if it began in the last seven days.
- An active monitor whose schedule overlapping edits have cleared is never STALE
  (`uptime.ts:131`): until the next reconciliation it keeps the state it had, UP or DOWN, however
  old. `StaleTracksSilence` and `NothingWrongIsHidden` state the exception.
- A monitor whose open incident an edit left open (finding 1) is paused or pending, so its
  badge tells of no trouble, while the public page and its own list of incidents show the
  incident as ongoing. `ScreensAgree` states the exception with `left`.
- `togglePause` and `confirmDelete` share one `busyId` (`MonitorsPage.tsx:142`): the first write to end
  enables the row of the other while that is still under way.
- A login that fails after its cookies are set (`routes/auth.ts:68-75`) leaves a live session in a browser
  whose tab shows that nobody is signed in, until it is loaded again.
- A login does not revoke the session the browser had; a sign-out that arrives late clears
  a newer cookie of another tab. `ConfirmedSignOutEndsSession` says what can be relied on.

## Not modelled

`PROJECT.json` lists every component with its status. In short: templates, schemas,
configuration, packaging, seeds and presentation (markup, focus, theme, toasts, forms)
hold no state and no protocol. Left out inside modelled components, because no property
distinguishes it: response times and medians, text and number formatting, search,
titles and names, paging of the two history routes, the counting of rate limiters (a
limiter is a refusal at any time), body validation. The mails of `handleEmailJob` that
belong to no row have no dedupe to model. An answer of the API whose queries a write
divides may contradict itself for one poll; the properties of `CheckHistory` and `Screens`
are about answers of one state. The orderly shutdown of the worker is a crash at any
point. Two requests that issue a link of one kind at once leave two live links; the code
promises nothing else.

## Plan

1. `CheckHistory` as a refinement of `OutageTracking`, so that the times in the rows and the
   slots of `IncidentTracking` are tied to one promise.
2. The converse of `PublicIsUnreserved`: what is refused lies in a reserved range (each
   range begins where its prefix does), so that no public target is turned away.
3. Answers whose queries a write divides; the account mails and the counting of the limiters.
