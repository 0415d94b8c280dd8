--------------------------- MODULE SchedulerProofs ---------------------------
(***************************************************************************)
(* Proofs about Scheduler, for any number of monitors, processes and       *)
(* clients, any interval, lag, batch size and set of patches.              *)
(***************************************************************************)
EXTENDS Scheduler, TLAPS

-----------------------------------------------------------------------------
(* The arithmetic of a claim.                                              *)

LEMMA LagType == Lag \in Nat /\ Interval \in Nat \ {0} /\ Never \in Int
  BY TimeAssumption, SMT DEF Lag, Never

LEMMA ClaimArithmetic ==
  ASSUME NEW due \in Nat, NEW t \in Nat, due <= t
  PROVE  /\ SlotOf(due, t) \in Nat
         /\ Following(due, t) \in Nat
         /\ due <= SlotOf(due, t) /\ SlotOf(due, t) <= t
         /\ ~(t - SlotOf(due, t) > Lag)
         /\ SlotOf(due, t) < Following(due, t)
         /\ t <= Following(due, t)
         /\ due + Interval <= Following(due, t)
<1> DEFINE lag == Lag
<1>1. lag \in Nat /\ Interval \in Nat \ {0}
  BY LagType
<1> HIDE DEF lag
<1>2. Rebases(due, t) <=> due < t - lag
  BY DEF Rebases, lag
<1>3. CASE Rebases(due, t)
  <2>1. SlotOf(due, t) = t /\ Following(due, t) = t + Interval
    BY <1>3 DEF SlotOf, Following
  <2> QED BY <1>1, <1>2, <1>3, <2>1 DEF lag
<1>4. CASE ~Rebases(due, t)
  <2>1. SlotOf(due, t) = due
    BY <1>4 DEF SlotOf
  <2>2. Following(due, t) = IF due + Interval < t THEN t ELSE due + Interval
    BY <1>4 DEF Following
  <2>3. ~(t - due > lag)
    BY <1>1, <1>2, <1>4
  <2> QED BY <1>1, <2>1, <2>2, <2>3 DEF lag
<1> QED BY <1>3, <1>4

\* A claimed row is due at the instant of the claim.
LEMMA TakenIsDue ==
  ASSUME TypeOK, NEW p \in Procs, NEW locked, NEW taken, Takes(p, locked, taken)
  PROVE  /\ taken \subseteq Monitors
         /\ \A m \in taken : next[m] \in Nat /\ next[m] <= now[p]
         /\ now[p] \in Nat
  BY NoneAssumption DEF TypeOK, Takes, Due

-----------------------------------------------------------------------------
(* A row written by something else than a claim.                           *)

LEMMA RescheduleType ==
  ASSUME TypeOK, NEW schedule \in [Monitors -> Nat \cup {None}], Reschedule(schedule)
  PROVE  /\ next' \in [Monitors -> Nat \cup {None}]
         /\ claimed' = claimed
         /\ rewound' \in [Monitors -> BOOLEAN]
         /\ last' \in [Monitors -> Int]
         /\ before' \in [Monitors -> Int]
<1>1. Never \in Int
  BY LagType
<1>2. last' \in [Monitors -> Int] /\ before' \in [Monitors -> Int]
  BY <1>1 DEF TypeOK, Reschedule
<1>3. rewound' \in [Monitors -> BOOLEAN]
  BY DEF Reschedule
<1> QED BY <1>2, <1>3 DEF TypeOK, Reschedule

LEMMA StartType ==
  ASSUME TypeOK, StartUnscheduled
  PROVE  \E schedule \in [Monitors -> Nat \cup {None}] : Reschedule(schedule)
<1> DEFINE schedule == [m \in Monitors |-> IF Unscheduled(m) THEN clock ELSE next[m]]
<1>1. schedule \in [Monitors -> Nat \cup {None}]
  BY DEF TypeOK
<1>2. Reschedule(schedule)
  BY DEF StartUnscheduled
<1> QED BY <1>1, <1>2

LEMMA RescheduleAhead ==
  ASSUME TypeOK, ScheduleAhead, ClaimsSpaced,
         NEW schedule \in [Monitors -> Nat \cup {None}], Reschedule(schedule)
  PROVE  ScheduleAhead' /\ ClaimsSpaced'
<1>1. ScheduleAhead'
  <2> SUFFICES ASSUME NEW m \in Monitors, next'[m] # None, ~rewound'[m],
                      NEW s \in claimed', s[1] = m
               PROVE  s[2] < next'[m]
    BY DEF ScheduleAhead
  <2>1. s \in claimed /\ s \in Monitors \X Nat /\ next'[m] = schedule[m]
    BY DEF Reschedule, TypeOK, Slot
  <2>2. schedule[m] \in Nat /\ s[2] \in Nat
    BY <2>1, NoneAssumption
  <2>3. ~rewound[m] /\ (schedule[m] = next[m] \/ ~(schedule[m] <= s[2]))
    BY <2>1, <2>2 DEF Reschedule
  <2>4. CASE schedule[m] = next[m]
    BY <2>1, <2>3, <2>4 DEF ScheduleAhead
  <2>5. CASE ~(schedule[m] <= s[2])
    BY <2>1, <2>2, <2>5
  <2> QED BY <2>3, <2>4, <2>5
<1>2. ClaimsSpaced'
  <2> SUFFICES ASSUME NEW m \in Monitors, next'[m] # None
               PROVE  next'[m] >= last'[m] /\ next'[m] >= before'[m] + Interval
    BY DEF ClaimsSpaced
  <2>1. next'[m] = schedule[m] /\ schedule[m] \in Nat
    BY DEF Reschedule
  <2>2. CASE schedule[m] = next[m]
    BY <2>1, <2>2 DEF Reschedule, ClaimsSpaced
  <2>3. CASE schedule[m] # next[m]
    <3>1. last'[m] = Never /\ before'[m] = Never
      BY <2>3 DEF Reschedule
    <3>2. Never <= 0 /\ Never + Interval = 0
      BY TimeAssumption DEF Never
    <3> QED BY <2>1, <3>1, <3>2, LagType
  <2> QED BY <2>2, <2>3
<1> QED BY <1>1, <1>2

-----------------------------------------------------------------------------
(* Type correctness.                                                       *)

\* Next, one disjunct per action.
LEMMA NextActions ==
  ASSUME [Next]_vars
  PROVE  \/ Tick
         \/ \E p \in Procs : StartProcess(p)
         \/ \E p \in Procs : BeginTick(p)
         \/ \E p \in Procs : \E taken \in SUBSET Monitors : Claim(p, taken)
         \/ \E p \in Procs : \E s \in batch[p] : Enqueue(p, s)
         \/ \E p \in Procs : FinishDispatch(p)
         \/ \E p \in Procs : ReconcileSchedules(p)
         \/ \E p \in Procs : FailTick(p)
         \/ \E p \in Procs : Crash(p)
         \/ ConfirmAddress
         \/ ActivateMonitors
         \/ LoseActivation
         \/ \E c \in Clients, m \in Monitors, patch \in Patches : ReadMonitor(c, m, patch)
         \/ \E c \in Clients : SaveMonitor(c)
         \/ \E c \in Clients : FailRequest(c)
         \/ \E m \in Monitors : CreateMonitor(m)
         \/ \E m \in Monitors : DeleteMonitor(m)
         \/ UNCHANGED vars
<1>1. ASSUME NEW p \in Procs, ProcessStep(p)
      PROVE  \/ StartProcess(p) \/ BeginTick(p)
             \/ \E taken \in SUBSET Monitors : Claim(p, taken)
             \/ \E s \in batch[p] : Enqueue(p, s)
             \/ FinishDispatch(p) \/ ReconcileSchedules(p) \/ FailTick(p) \/ Crash(p)
  BY <1>1, Zenon DEF ProcessStep
<1>2. ASSUME NEW c \in Clients, ClientStep(c)
      PROVE  \/ \E m \in Monitors, patch \in Patches : ReadMonitor(c, m, patch)
             \/ SaveMonitor(c) \/ FailRequest(c)
  BY <1>2, Zenon DEF ClientStep
<1> QED BY <1>1, <1>2, Zenon DEF Next, AccountStep

LEMMA TypeInit == Init => TypeOK
<1> SUFFICES ASSUME Init PROVE TypeOK
  OBVIOUS
<1>1. ticks \in [Procs -> 0 .. ReconcileEvery - 1]
  BY CountAssumption DEF Init
<1>2. last \in [Monitors -> Int] /\ before \in [Monitors -> Int]
  BY LagType DEF Init
<1> QED BY <1>1, <1>2 DEF Init, TypeOK

\* What every step outside a claim does to the schedule and its history.
Moved ==
  \/ UNCHANGED <<next, history>>
  \/ \E schedule \in [Monitors -> Nat \cup {None}] : Reschedule(schedule)

LEMMA MovedType ==
  ASSUME TypeOK, Moved
  PROVE  /\ next' \in [Monitors -> Nat \cup {None}]
         /\ claimed' \in SUBSET Slot
         /\ rewound' \in [Monitors -> BOOLEAN]
         /\ last' \in [Monitors -> Int]
         /\ before' \in [Monitors -> Int]
<1>1. CASE UNCHANGED <<next, history>>
  BY <1>1 DEF TypeOK, history
<1>2. CASE \E schedule \in [Monitors -> Nat \cup {None}] : Reschedule(schedule)
  <2>1. PICK schedule \in [Monitors -> Nat \cup {None}] : Reschedule(schedule)
    BY <1>2
  <2> QED BY <2>1, RescheduleType DEF TypeOK
<1> QED BY <1>1, <1>2 DEF Moved

\* The requests' own variables.
LEMMA EndRequestType ==
  ASSUME TypeOK, NEW c \in Clients, EndRequest(c)
  PROVE  /\ request' \in [Clients -> {"idle", "saving"}]
         /\ edit' \in [Clients -> Edit \cup {None}]
         /\ \A d \in Clients : request'[d] # "idle" => edit'[d] \in Edit
  BY DEF TypeOK, EndRequest

LEMMA BusyEdit ==
  ASSUME TypeOK, NEW c \in Clients, request[c] # "idle"
  PROVE  /\ edit[c] \in Edit
         /\ edit[c].mon \in Monitors
         /\ edit[c].wasNext \in Nat \cup {None}
  BY DEF TypeOK, Edit

\* The steps that leave processes and requests alone.
LEMMA AccountSteps ==
  ASSUME TypeOK,
         \/ ConfirmAddress \/ ActivateMonitors \/ LoseActivation \/ Tick
         \/ \E m \in Monitors : CreateMonitor(m) \/ DeleteMonitor(m)
  PROVE  TypeOK' /\ Moved
<1>1. CASE ConfirmAddress
  BY <1>1 DEF ConfirmAddress, TypeOK, Moved, rows, ticking, api, history
<1>2. CASE LoseActivation
  BY <1>2 DEF LoseActivation, TypeOK, Moved, rows, ticking, api, history
<1>3. CASE Tick
  BY <1>3 DEF Tick, TypeOK, Moved, rows, account, ticking, api, history
<1>4. CASE ActivateMonitors
  <2>1. Moved
    BY <1>4, StartType DEF ActivateMonitors, Moved
  <2> QED BY <1>4, <2>1, MovedType DEF ActivateMonitors, TypeOK, ticking, api
<1>5. CASE \E m \in Monitors : DeleteMonitor(m)
  <2>1. PICK m \in Monitors : DeleteMonitor(m)
    BY <1>5
  <2>2. [next EXCEPT ![m] = None] \in [Monitors -> Nat \cup {None}]
    BY DEF TypeOK
  <2>3. Moved
    BY <2>1, <2>2 DEF DeleteMonitor, Moved
  <2> QED BY <2>1, <2>3, MovedType DEF DeleteMonitor, TypeOK, account, ticking, api
<1>6. CASE \E m \in Monitors : CreateMonitor(m)
  <2>1. PICK m \in Monitors : CreateMonitor(m)
    BY <1>6
  <2>2. [next EXCEPT ![m] = clock] \in [Monitors -> Nat \cup {None}]
    BY DEF TypeOK
  <2>3. Moved
    BY <2>1, <2>2 DEF CreateMonitor, Moved
  <2> QED BY <2>1, <2>3, MovedType DEF CreateMonitor, TypeOK, account, ticking, api
<1> QED BY <1>1, <1>2, <1>3, <1>4, <1>5, <1>6

\* The steps of a process, except the claim.
LEMMA ProcessSteps ==
  ASSUME TypeOK, NEW p \in Procs,
         \/ StartProcess(p) \/ BeginTick(p) \/ \E s \in batch[p] : Enqueue(p, s)
         \/ FinishDispatch(p) \/ ReconcileSchedules(p) \/ FailTick(p) \/ Crash(p)
  PROVE  TypeOK' /\ Moved
<1>1. CASE StartProcess(p)
  BY <1>1 DEF StartProcess, TypeOK, Moved, rows, account, api, history
<1>2. CASE BeginTick(p)
  <2>1. ticks' \in [Procs -> 0 .. ReconcileEvery - 1]
    <3>1. ticks[p] \in Nat /\ (ticks[p] + 1) % ReconcileEvery \in 0 .. ReconcileEvery - 1
      BY CountAssumption DEF TypeOK
    <3> QED BY <1>2, <3>1 DEF BeginTick, TypeOK
  <2> QED BY <1>2, <2>1 DEF BeginTick, TypeOK, Moved, rows, account, api, history
<1>3. CASE \E s \in batch[p] : Enqueue(p, s)
  BY <1>3 DEF Enqueue, TypeOK, Moved, rows, account, api, history
<1>4. CASE FinishDispatch(p)
  BY <1>4 DEF FinishDispatch, EndTick, TypeOK, Moved, rows, account, api, history
<1>5. CASE ReconcileSchedules(p)
  <2>1. Moved
    BY <1>5, StartType DEF ReconcileSchedules, Moved
  <2> QED BY <1>5, <2>1, MovedType DEF ReconcileSchedules, EndTick, TypeOK, account, api
<1>6. CASE FailTick(p)
  BY <1>6 DEF FailTick, EndTick, TypeOK, Moved, rows, account, api, history
<1>7. CASE Crash(p)
  <2>1. ticks' \in [Procs -> 0 .. ReconcileEvery - 1]
    BY <1>7, CountAssumption DEF Crash, TypeOK
  <2> QED BY <1>7, <2>1 DEF Crash, TypeOK, Moved, rows, account, api, history
<1> QED BY <1>1, <1>2, <1>3, <1>4, <1>5, <1>6, <1>7

\* The steps of a request.
LEMMA ClientSteps ==
  ASSUME TypeOK, NEW c \in Clients,
         \/ \E m \in Monitors, patch \in Patches : ReadMonitor(c, m, patch)
         \/ SaveMonitor(c) \/ FailRequest(c)
  PROVE  TypeOK' /\ Moved
<1>1. CASE \E m \in Monitors, patch \in Patches : ReadMonitor(c, m, patch)
  <2>1. PICK m \in Monitors, patch \in Patches : ReadMonitor(c, m, patch)
    BY <1>1
  <2>2. edit'[c] \in Edit
    <3>1. patch.paused \in Pausing /\ patch.url \in BOOLEAN
      BY PatchesAssumption
    <3>2. paused[m] \in BOOLEAN /\ next[m] \in Nat \cup {None}
      BY DEF TypeOK
    <3> QED BY <2>1, <3>1, <3>2 DEF ReadMonitor, Edit, TypeOK
  <2> QED BY <2>1, <2>2 DEF ReadMonitor, TypeOK, Moved, rows, account, ticking, history
<1>2. CASE SaveMonitor(c)
  <2>1. edit[c].mon \in Monitors /\ edit[c].wasNext \in Nat \cup {None}
    BY <1>2, BusyEdit DEF SaveMonitor
  <2>2. Moved
    <3> DEFINE schedule == [next EXCEPT ![edit[c].mon] = NextCheckAt(edit[c])]
    <3>1. NextCheckAt(edit[c]) \in Nat \cup {None}
      BY <2>1 DEF NextCheckAt, TypeOK
    <3>2. schedule \in [Monitors -> Nat \cup {None}]
      BY <2>1, <3>1 DEF TypeOK
    <3>3. Reschedule(schedule)
      BY <1>2 DEF SaveMonitor
    <3> QED BY <3>2, <3>3 DEF Moved
  <2>3. paused' \in [Monitors -> BOOLEAN]
    BY <1>2, <2>1 DEF SaveMonitor, TypeOK
  <2>4. EndRequest(c)
    BY <1>2 DEF SaveMonitor
  <2> QED BY <1>2, <2>2, <2>3, <2>4, MovedType, EndRequestType
        DEF SaveMonitor, TypeOK, account, ticking
<1>3. CASE FailRequest(c)
  <2>1. EndRequest(c)
    BY <1>3 DEF FailRequest
  <2> QED BY <1>3, <2>1, EndRequestType
        DEF FailRequest, TypeOK, Moved, rows, account, ticking, history
<1> QED BY <1>1, <1>2, <1>3

LEMMA ClaimStep ==
  ASSUME TypeOK, NEW p \in Procs, NEW taken \in SUBSET Monitors, Claim(p, taken)
  PROVE  TypeOK'
<1>1. /\ \A m \in taken : next[m] \in Nat /\ next[m] <= now[p]
      /\ now[p] \in Nat
  BY TakenIsDue DEF Claim
<1>2. \A m \in taken : /\ SlotOf(next[m], now[p]) \in Nat
                       /\ Following(next[m], now[p]) \in Nat
  BY <1>1, ClaimArithmetic
<1>3. next' \in [Monitors -> Nat \cup {None}]
  BY <1>2 DEF Claim, TypeOK
<1>4. {<<m, SlotOf(next[m], now[p])>> : m \in taken} \in SUBSET Slot
  BY <1>2 DEF Slot
<1>5. claimed' \in SUBSET Slot /\ batch' \in [Procs -> SUBSET Slot]
  BY <1>4 DEF Claim, TypeOK
<1>6. last' \in [Monitors -> Int] /\ before' \in [Monitors -> Int]
  BY <1>1 DEF Claim, TypeOK
<1> QED BY <1>3, <1>5, <1>6 DEF Claim, TypeOK, account, api

\* Every step is a claim or moves the schedule otherwise; all keep the types.
LEMMA StepKinds ==
  ASSUME TypeOK, [Next]_vars
  PROVE  /\ TypeOK'
         /\ \/ Moved
            \/ \E p \in Procs : \E taken \in SUBSET Monitors : Claim(p, taken)
<1>1. CASE UNCHANGED vars
  BY <1>1 DEF vars, rows, account, ticking, api, history, TypeOK, Moved
<1> QED BY <1>1, NextActions, AccountSteps, ProcessSteps, ClientSteps, ClaimStep

\* The columns, batches and requests keep their types: in particular every
\* schedule is absent or an instant and every claimed slot names a monitor.
THEOREM TypeCorrect == Spec => []TypeOK
<1>1. Init => TypeOK
  BY TypeInit
<1>2. TypeOK /\ [Next]_vars => TypeOK'
  BY StepKinds
<1> QED BY <1>1, <1>2, PTL DEF Spec

-----------------------------------------------------------------------------
(* The schedule stays ahead of its claims.                                 *)

LEMMA ClaimAhead ==
  ASSUME TypeOK, ScheduleAhead, ClaimsSpaced,
         NEW p \in Procs, NEW taken \in SUBSET Monitors, Claim(p, taken)
  PROVE  ScheduleAhead' /\ ClaimsSpaced'
<1>1. /\ \A m \in taken : next[m] \in Nat /\ next[m] <= now[p]
      /\ now[p] \in Nat
  BY TakenIsDue DEF Claim
<1>2. ASSUME NEW m \in taken
      PROVE  /\ next[m] \in Nat /\ SlotOf(next[m], now[p]) \in Nat
             /\ next'[m] = Following(next[m], now[p]) /\ next'[m] \in Nat
             /\ next[m] <= SlotOf(next[m], now[p])
             /\ SlotOf(next[m], now[p]) < next'[m]
             /\ now[p] <= next'[m] /\ next[m] + Interval <= next'[m]
  BY <1>1, <1>2, ClaimArithmetic DEF Claim
<1>3. ScheduleAhead'
  <2> SUFFICES ASSUME NEW m \in Monitors, next'[m] # None, ~rewound[m],
                      NEW s \in claimed', s[1] = m
               PROVE  s[2] < next'[m]
    BY DEF ScheduleAhead, Claim
  <2>1. CASE s \in claimed /\ m \in taken
    <3>1. s[2] < next[m] /\ s[2] \in Nat /\ next[m] \in Nat
      BY <1>2, <2>1, NoneAssumption DEF ScheduleAhead, TypeOK, Slot
    <3> QED BY <1>2, <2>1, <3>1, LagType
  <2>2. CASE s \in claimed /\ m \notin taken
    BY <2>2 DEF ScheduleAhead, Claim
  <2>3. CASE s \notin claimed
    <3>1. \E n \in taken : s = <<n, SlotOf(next[n], now[p])>>
      BY <2>3 DEF Claim
    <3> QED BY <1>2, <3>1
  <2> QED BY <2>1, <2>2, <2>3
<1>4. ClaimsSpaced'
  <2> SUFFICES ASSUME NEW m \in Monitors, next'[m] # None
               PROVE  next'[m] >= last'[m] /\ next'[m] >= before'[m] + Interval
    BY DEF ClaimsSpaced
  <2>1. CASE m \notin taken
    BY <2>1 DEF ClaimsSpaced, Claim
  <2>2. CASE m \in taken
    <3>1. last'[m] = now[p] /\ before'[m] = last[m] /\ last[m] \in Int
      BY <2>2 DEF Claim, TypeOK
    <3>2. next[m] >= last[m]
      BY <1>2, <2>2, NoneAssumption DEF ClaimsSpaced
    <3>3. /\ next[m] \in Nat /\ next'[m] \in Nat
          /\ now[p] <= next'[m] /\ next[m] + Interval <= next'[m]
      BY <1>2, <2>2
    <3> QED BY <1>1, <3>1, <3>2, <3>3, LagType
  <2> QED BY <2>1, <2>2
<1> QED BY <1>3, <1>4

LEMMA BatchStep ==
  ASSUME TypeOK, BatchDispatched, [Next]_vars
  PROVE  BatchDispatched'
<1>1. ASSUME NEW p \in Procs,
             \/ StartProcess(p) \/ BeginTick(p)
             \/ \E taken \in SUBSET Monitors : Claim(p, taken)
             \/ \E s \in batch[p] : Enqueue(p, s)
             \/ FinishDispatch(p) \/ ReconcileSchedules(p) \/ FailTick(p) \/ Crash(p)
      PROVE  /\ \A q \in Procs \ {p} : proc'[q] = proc[q] /\ batch'[q] = batch[q]
             /\ proc'[p] # "dispatching" => batch'[p] = {}
  <2>1. CASE StartProcess(p) \/ BeginTick(p) \/ FinishDispatch(p)
    BY <2>1 DEF StartProcess, BeginTick, FinishDispatch, EndTick, TypeOK, BatchDispatched
  <2>2. CASE \E taken \in SUBSET Monitors : Claim(p, taken)
    BY <2>2 DEF Claim, TypeOK
  <2>3. CASE \E s \in batch[p] : Enqueue(p, s)
    BY <2>3 DEF Enqueue, TypeOK
  <2>4. CASE ReconcileSchedules(p) \/ FailTick(p) \/ Crash(p)
    BY <2>4 DEF ReconcileSchedules, FailTick, Crash, EndTick, TypeOK, BatchDispatched
  <2> QED BY <1>1, <2>1, <2>2, <2>3, <2>4
<1>2. ASSUME UNCHANGED ticking
      PROVE  BatchDispatched'
  BY <1>2 DEF ticking, BatchDispatched
<1>3. CASE \E p \in Procs :
             \/ StartProcess(p) \/ BeginTick(p)
             \/ \E taken \in SUBSET Monitors : Claim(p, taken)
             \/ \E s \in batch[p] : Enqueue(p, s)
             \/ FinishDispatch(p) \/ ReconcileSchedules(p) \/ FailTick(p) \/ Crash(p)
  BY <1>1, <1>3 DEF BatchDispatched
<1>4. CASE Tick \/ ConfirmAddress \/ ActivateMonitors \/ LoseActivation \/ UNCHANGED vars
  BY <1>2, <1>4 DEF Tick, ConfirmAddress, ActivateMonitors, LoseActivation, vars
<1>5. CASE \E c \in Clients : ClientStep(c)
  BY <1>2, <1>5 DEF ClientStep, ReadMonitor, SaveMonitor, FailRequest
<1>6. CASE \E m \in Monitors : CreateMonitor(m) \/ DeleteMonitor(m)
  BY <1>2, <1>6 DEF CreateMonitor, DeleteMonitor
<1>7. ASSUME NEW p \in Procs, ProcessStep(p)
      PROVE  \/ StartProcess(p) \/ BeginTick(p)
             \/ \E taken \in SUBSET Monitors : Claim(p, taken)
             \/ \E s \in batch[p] : Enqueue(p, s)
             \/ FinishDispatch(p) \/ ReconcileSchedules(p) \/ FailTick(p) \/ Crash(p)
  BY <1>7, Zenon DEF ProcessStep
<1> QED BY <1>3, <1>4, <1>5, <1>6, <1>7, Zenon DEF Next, AccountStep

LEMMA ScheduleStep ==
  ASSUME ScheduleInvariant, [Next]_vars
  PROVE  ScheduleInvariant'
<1> USE DEF ScheduleInvariant
<1>1. TypeOK' /\ (Moved \/ \E p \in Procs : \E taken \in SUBSET Monitors : Claim(p, taken))
  BY StepKinds
<1>2. ScheduleAhead' /\ ClaimsSpaced'
  <2>1. CASE UNCHANGED <<next, history>>
    BY <2>1 DEF history, ScheduleAhead, ClaimsSpaced
  <2>2. CASE \E schedule \in [Monitors -> Nat \cup {None}] : Reschedule(schedule)
    BY <2>2, RescheduleAhead
  <2>3. CASE \E p \in Procs : \E taken \in SUBSET Monitors : Claim(p, taken)
    BY <2>3, ClaimAhead
  <2> QED BY <1>1, <2>1, <2>2, <2>3 DEF Moved
<1> QED BY <1>1, <1>2, BatchStep

\* The inductive invariant of the schedule: a row that nobody rewound is
\* ahead of every slot claimed for it, and its claims are spaced.
THEOREM ScheduleCorrect == Spec => []ScheduleInvariant
<1>1. Init => ScheduleInvariant
  BY TypeInit DEF Init, ScheduleInvariant, ScheduleAhead, ClaimsSpaced, BatchDispatched
<1> QED BY <1>1, ScheduleStep, PTL DEF Spec

-----------------------------------------------------------------------------
(* What a claim returns.                                                   *)

\* A step that looks like a claim of a process is one.
LEMMA ClaimsClaim ==
  ASSUME ScheduleInvariant, [Next]_vars, NEW p \in Procs, Claims(p)
  PROVE  \E taken \in SUBSET Monitors : Claim(p, taken)
<1> USE DEF ScheduleInvariant
<1>1. ASSUME NEW q \in Procs, ProcessStep(q), ~\E taken \in SUBSET Monitors : Claim(q, taken)
      PROVE  proc'[p] = proc[p] \/ proc'[p] # "dispatching"
  BY <1>1 DEF ProcessStep, StartProcess, BeginTick, Enqueue, FinishDispatch,
     ReconcileSchedules, FailTick, Crash, EndTick, TypeOK
<1>2. ASSUME NEW q \in Procs, NEW taken \in SUBSET Monitors, Claim(q, taken), q # p
      PROVE  proc'[p] = proc[p]
  BY <1>2 DEF Claim, TypeOK
<1>3. CASE \E c \in Clients : ClientStep(c)
  BY <1>3 DEF ClientStep, ReadMonitor, SaveMonitor, FailRequest, ticking, Claims
<1>4. CASE Tick \/ AccountStep \/ UNCHANGED vars \/ \E m \in Monitors : CreateMonitor(m) \/ DeleteMonitor(m)
  BY <1>4 DEF Tick, AccountStep, ConfirmAddress, ActivateMonitors, LoseActivation,
     CreateMonitor, DeleteMonitor, vars, ticking, Claims
<1>5. CASE \E q \in Procs : ProcessStep(q)
  BY <1>1, <1>2, <1>5 DEF Claims
<1> QED BY <1>3, <1>4, <1>5 DEF Next

LEMMA SlotFacts ==
  ASSUME ScheduleInvariant, [Next]_vars, NEW p \in Procs, Claims(p), NEW s \in batch'[p]
  PROVE  /\ s[1] \in Monitors /\ next[s[1]] \in Nat /\ now[p] \in Nat /\ s[2] \in Nat
         /\ next[s[1]] <= s[2] /\ s[2] <= now[p] /\ ~(now[p] - s[2] > Lag)
<1> USE DEF ScheduleInvariant
<1>1. PICK taken \in SUBSET Monitors : Claim(p, taken)
  BY ClaimsClaim
<1>2. /\ \A m \in taken : next[m] \in Nat /\ next[m] <= now[p]
      /\ now[p] \in Nat
  BY <1>1, TakenIsDue DEF Claim
<1>3. PICK m \in taken : s = <<m, SlotOf(next[m], now[p])>>
  BY <1>1 DEF Claim, TypeOK
<1> QED BY <1>2, <1>3, ClaimArithmetic

\* No two ticks of any number of processes claim the same slot, unless
\* something else than a claim set the schedule back.
THEOREM SlotsClaimedOnce == Spec => DoubleClaimNeedsRewind
<1>1. ASSUME ScheduleInvariant, [Next]_vars, NEW p \in Procs, Claims(p),
             NEW s \in batch'[p], s \in claimed
      PROVE  rewound[s[1]]
  <2>1. s[1] \in Monitors /\ next[s[1]] \in Nat /\ s[2] \in Nat /\ next[s[1]] <= s[2]
    BY <1>1, SlotFacts
  <2> QED BY <1>1, <2>1, NoneAssumption DEF ScheduleInvariant, ScheduleAhead, TypeOK
<1>2. ScheduleInvariant /\ [Next]_vars =>
        [\A p \in Procs : Claims(p) =>
           \A s \in batch'[p] : s \in claimed => rewound[s[1]]]_vars
  BY <1>1
<1> QED BY <1>2, ScheduleCorrect, PTL DEF Spec, DoubleClaimNeedsRewind

\* No monitor is claimed three times within one interval by catching up.
THEOREM ClaimsAreSpaced == Spec => NoBurst
<1>1. ASSUME ScheduleInvariant, [Next]_vars, NEW p \in Procs, Claims(p), NEW s \in batch'[p]
      PROVE  now[p] >= before[s[1]] + Interval
  <2>1. s[1] \in Monitors /\ next[s[1]] \in Nat /\ next[s[1]] <= now[p] /\ now[p] \in Nat
    BY <1>1, SlotFacts
  <2>2. next[s[1]] >= before[s[1]] + Interval /\ before[s[1]] \in Int
    BY <1>1, <2>1, NoneAssumption DEF ScheduleInvariant, ClaimsSpaced, TypeOK
  <2> QED BY <2>1, <2>2, LagType
<1>2. ScheduleInvariant /\ [Next]_vars =>
        [\A p \in Procs : Claims(p) =>
           \A s \in batch'[p] : now[p] >= before[s[1]] + Interval]_vars
  BY <1>1
<1> QED BY <1>2, ScheduleCorrect, PTL DEF Spec, NoBurst

\* No slot is stale, or early, at the moment it is claimed.
THEOREM ClaimsAreFresh == Spec => ClaimedIsFresh
<1>1. ScheduleInvariant /\ [Next]_vars =>
        [\A p \in Procs : Claims(p) =>
           \A s \in batch'[p] : s[2] <= now[p] /\ ~(now[p] - s[2] > Lag)]_vars
  BY SlotFacts
<1> QED BY <1>1, ScheduleCorrect, PTL DEF Spec, ClaimedIsFresh
=============================================================================
