------------------------ MODULE IncidentTrackingProofs ------------------------
(* Proofs about IncidentTracking, for every value of its constants.        *)
EXTENDS IncidentTracking, FiniteSetTheorems, TLAPS

USE ThresholdAssumption, NoneAssumption, PatchesAssumption

\* Next, one disjunct per action.
LEMMA NextActions ==
  ASSUME [Next]_vars
  PROVE  \/ \E w \in Workers, m \in Monitors, s \in Slots : DropJob(w, m, s)
         \/ \E w \in Workers, m \in Monitors, s \in Slots : StartJob(w, m, s)
         \/ \E w \in Workers : LockRow(w)
         \/ \E w \in Workers : RefuseResult(w)
         \/ \E w \in Workers : CommitSuccess(w)
         \/ \E w \in Workers : CommitFailure(w)
         \/ \E w \in Workers : CommitOutage(w)
         \/ \E w \in Workers : RollBackOutage(w)
         \/ \E w \in Workers : FinishJob(w)
         \/ \E w \in Workers : FailJob(w)
         \/ \E c \in Clients, m \in Monitors, p \in Patches : ReadMonitor(c, m, p)
         \/ \E c \in Clients : CloseIncident(c)
         \/ \E c \in Clients : CommitEdit(c)
         \/ \E c \in Clients : LoseEdit(c)
         \/ \E c \in Clients : FailEdit(c)
         \/ \E m \in Monitors : CreateMonitor(m)
         \/ \E m \in Monitors : DeleteMonitor(m)
         \/ \E m \in Monitors, s \in Slots : Enqueue(m, s)
         \/ UNCHANGED vars
  BY DEF Next, WorkerStep, ClientStep, MonitorStep, ApplyResult, ResolveDeadlock

LEMMA TypeInit == Init => TypeOK
  BY DEF Init, TypeOK

LEMMA JobTyped ==
  ASSUME TypeOK, NEW w \in Workers, stage[w] # "idle"
  PROVE  job[w].mon \in Monitors /\ job[w].slot \in Slots
  BY DEF TypeOK, Job

LEMMA EditTyped ==
  ASSUME TypeOK, NEW c \in Clients, phase[c] # "idle"
  PROVE  /\ edit[c].mon \in Monitors
         /\ edit[c].url \in Urls \cup {None}
  BY DEF TypeOK, Edit

LEMMA TypeStep == TypeOK /\ [Next]_vars => TypeOK'
<1> SUFFICES ASSUME TypeOK, [Next]_vars PROVE TypeOK'
  OBVIOUS
<1> USE DEF TypeOK, vars, rows, row, runs, edits
<1>1. ASSUME NEW w \in Workers, NEW m \in Monitors, NEW s \in Slots, DropJob(w, m, s) PROVE TypeOK'
  BY <1>1 DEF DropJob
<1>2. ASSUME NEW w \in Workers, NEW m \in Monitors, NEW s \in Slots, StartJob(w, m, s) PROVE TypeOK'
  BY <1>2 DEF StartJob, Job
<1>3. ASSUME NEW w \in Workers, LockRow(w) PROVE TypeOK'
  BY <1>3 DEF LockRow, Job, Outcomes
<1>4. ASSUME NEW w \in Workers, RefuseResult(w) PROVE TypeOK'
  BY <1>4 DEF RefuseResult, Answer, Verdicts
<1>5. ASSUME NEW w \in Workers, CommitSuccess(w) PROVE TypeOK'
  <2>1. job[w].mon \in Monitors /\ job[w].slot \in Slots
    BY <1>5, JobTyped DEF CommitSuccess, Committing
  <2> DEFINE m == job[w].mon
  <2>2. /\ incident' \in [Monitors -> [Slots -> {"absent", "open"} \cup CloseReasons]]
        /\ notified' \in [Monitors -> [Slots -> SUBSET {"DOWN", "RECOVERY"}]]
    <3>1. CASE UNCHANGED <<incident, notified>>
      BY <3>1
    <3>2. ASSUME NEW i \in Slots,
                 incident' = [incident EXCEPT ![m][i] = "RECOVERED"],
                 notified' = [notified EXCEPT ![m][i] = @ \cup {"RECOVERY"}]
          PROVE  <2>2!:
      BY <2>1, <3>2 DEF CloseReasons
    <3> QED
      BY <1>5, <3>1, <3>2 DEF CommitSuccess, OpenIncidents
  <2>3. /\ recorded' \in [Monitors -> SUBSET Slots]
        /\ state' \in [Monitors -> {"PENDING", "UP", "DOWN"}]
        /\ failures' \in [Monitors -> Nat]
        /\ streak' \in [Monitors -> SUBSET Slots]
    BY <1>5, <2>1 DEF CommitSuccess, RecordSlot
  <2> QED
    BY <1>5, <2>2, <2>3 DEF CommitSuccess, Committing, Answer, Verdicts
<1>6. ASSUME NEW w \in Workers, CommitFailure(w) PROVE TypeOK'
  <2>1. job[w].mon \in Monitors /\ job[w].slot \in Slots
    BY <1>6, JobTyped DEF CommitFailure, Committing
  <2>2. /\ recorded' \in [Monitors -> SUBSET Slots]
        /\ failures' \in [Monitors -> Nat]
        /\ streak' \in [Monitors -> SUBSET Slots]
    BY <1>6, <2>1 DEF CommitFailure, RecordSlot
  <2> QED
    BY <1>6, <2>2 DEF CommitFailure, Committing, Answer, Verdicts
<1>7. ASSUME NEW w \in Workers, CommitOutage(w) PROVE TypeOK'
  <2>1. job[w].mon \in Monitors /\ job[w].slot \in Slots
    BY <1>7, JobTyped DEF CommitOutage, IndexAllows, Committing
  <2>2. /\ incident' \in [Monitors -> [Slots -> {"absent", "open"} \cup CloseReasons]]
        /\ notified' \in [Monitors -> [Slots -> SUBSET {"DOWN", "RECOVERY"}]]
    BY <1>7, <2>1 DEF CommitOutage, IndexAllows
  <2>3. /\ recorded' \in [Monitors -> SUBSET Slots]
        /\ state' \in [Monitors -> {"PENDING", "UP", "DOWN"}]
        /\ failures' \in [Monitors -> Nat]
        /\ streak' \in [Monitors -> SUBSET Slots]
    BY <1>7, <2>1 DEF CommitOutage, IndexAllows, RecordSlot
  <2> QED
    BY <1>7, <2>2, <2>3 DEF CommitOutage, IndexAllows, Committing, Answer, Verdicts
<1>8. ASSUME NEW w \in Workers, RollBackOutage(w) PROVE TypeOK'
  BY <1>8 DEF RollBackOutage, Committing, Answer, Verdicts
<1>9. ASSUME NEW w \in Workers, FinishJob(w) PROVE TypeOK'
  BY <1>9, JobTyped DEF FinishJob, EndRun
<1>10. ASSUME NEW w \in Workers, FailJob(w) PROVE TypeOK'
  <2>1. job[w].mon \in Monitors /\ job[w].slot \in Slots
    BY <1>10, JobTyped DEF FailJob
  <2>2. jobs' \in [Monitors -> SUBSET Slots]
    <3>1. CASE UNCHANGED jobs
      BY <3>1
    <3>2. CASE jobs' = [jobs EXCEPT ![job[w].mon] = @ \ {job[w].slot}]
      BY <2>1, <3>2
    <3> QED
      BY <1>10, <3>1, <3>2 DEF FailJob
  <2> QED
    BY <1>10, <2>2 DEF FailJob, EndRun
<1>11. ASSUME NEW c \in Clients, NEW m \in Monitors, NEW p \in Patches, ReadMonitor(c, m, p) PROVE TypeOK'
  BY <1>11 DEF ReadMonitor, Edit
<1>12. ASSUME NEW c \in Clients, CloseIncident(c) PROVE TypeOK'
  BY <1>12 DEF CloseIncident, Edit, OpenIncidents
<1>13. ASSUME NEW c \in Clients, CommitEdit(c) PROVE TypeOK'
  <2> DEFINE e == edit[c]
  <2>1. e.mon \in Monitors /\ e.url \in Urls \cup {None}
    BY <1>13, EditTyped DEF CommitEdit
  <2>2. incident' \in [Monitors -> [Slots -> {"absent", "open"} \cup CloseReasons]]
    <3> DEFINE f == [s \in Slots |->
          IF s \in held[c]
          THEN IF Pauses(e) THEN "MONITOR_PAUSED" ELSE "MONITOR_RECONFIGURED"
          ELSE incident[e.mon][s]]
    <3>1. f \in [Slots -> {"absent", "open"} \cup CloseReasons]
      BY <2>1 DEF CloseReasons
    <3>2. incident' = [incident EXCEPT ![e.mon] = f]
      BY <1>13 DEF CommitEdit
    <3> QED
      BY <3>1, <3>2
  <2>3. /\ paused' \in [Monitors -> BOOLEAN]
        /\ url' \in [Monitors -> Urls]
    BY <1>13, <2>1 DEF CommitEdit
  <2>4. /\ state' \in [Monitors -> {"PENDING", "UP", "DOWN"}]
        /\ failures' \in [Monitors -> Nat]
        /\ streak' \in [Monitors -> SUBSET Slots]
    BY <1>13, <2>1 DEF CommitEdit
  <2>5. /\ phase' \in [Clients -> {"idle", "closing", "updating"}]
        /\ edit' \in [Clients -> Edit \cup {None}]
        /\ \A d \in Clients : phase'[d] # "idle" => edit'[d] \in Edit
        /\ held' \in [Clients -> SUBSET Slots]
    BY <1>13 DEF CommitEdit, EndRequest
  <2> QED
    BY <1>13, <2>2, <2>3, <2>4, <2>5 DEF CommitEdit
<1>14. ASSUME NEW c \in Clients, LoseEdit(c) PROVE TypeOK'
  BY <1>14 DEF LoseEdit, EndRequest
<1>15. ASSUME NEW c \in Clients, FailEdit(c) PROVE TypeOK'
  BY <1>15 DEF FailEdit, EndRequest
<1>16. ASSUME NEW m \in Monitors, CreateMonitor(m) PROVE TypeOK'
  BY <1>16 DEF CreateMonitor
<1>17. ASSUME NEW m \in Monitors, DeleteMonitor(m) PROVE TypeOK'
  BY <1>17 DEF DeleteMonitor
<1>18. ASSUME NEW m \in Monitors, NEW s \in Slots, Enqueue(m, s) PROVE TypeOK'
  BY <1>18 DEF Enqueue
<1>19. CASE UNCHANGED vars
  BY <1>19
<1> QED
  BY <1>1, <1>2, <1>3, <1>4, <1>5, <1>6, <1>7, <1>8, <1>9, <1>10, <1>11,
     <1>12, <1>13, <1>14, <1>15, <1>16, <1>17, <1>18, <1>19, NextActions

\* Every variable keeps its type.
THEOREM TypeCorrect == Spec => []TypeOK
  BY TypeInit, TypeStep, PTL DEF Spec

-----------------------------------------------------------------------------
(* The row lock.                                                           *)

LEMMA LockStep ==
  TypeOK /\ LockProtectsResult /\ [Next]_vars => LockProtectsResult'
<1> SUFFICES ASSUME TypeOK, LockProtectsResult, [Next]_vars PROVE LockProtectsResult'
  OBVIOUS
<1> USE DEF LockProtectsResult, Active, TypeOK, vars, rows, row, runs
<1>1. ASSUME NEW w \in Workers, NEW m \in Monitors, NEW s \in Slots, DropJob(w, m, s)
      PROVE  LockProtectsResult'
  BY <1>1 DEF DropJob
<1>2. ASSUME NEW w \in Workers, NEW m \in Monitors, NEW s \in Slots, StartJob(w, m, s)
      PROVE  LockProtectsResult'
  BY <1>2 DEF StartJob
<1>3. ASSUME NEW w \in Workers, LockRow(w) PROVE LockProtectsResult'
  BY <1>3 DEF LockRow, RowLocked
<1>4. ASSUME NEW w \in Workers, RefuseResult(w) PROVE LockProtectsResult'
  BY <1>4 DEF RefuseResult, Answer
<1>5. ASSUME NEW w \in Workers, RecordSlot(w), Answer(w, "recorded"), stage[w] = "locked",
             UNCHANGED <<life, paused>>
      PROVE  LockProtectsResult'
  <2>1. job[w].mon \in Monitors
    BY <1>5, JobTyped
  <2> QED
    BY <1>5, <2>1 DEF RecordSlot, Answer
<1>6. ASSUME NEW w \in Workers, RollBackOutage(w) PROVE LockProtectsResult'
  BY <1>6 DEF RollBackOutage, Committing, Answer
<1>7. ASSUME NEW w \in Workers, FinishJob(w) PROVE LockProtectsResult'
  BY <1>7 DEF FinishJob, EndRun
<1>8. ASSUME NEW w \in Workers, FailJob(w) PROVE LockProtectsResult'
  BY <1>8 DEF FailJob, EndRun
<1>9. ASSUME UNCHANGED <<rows, runs>> PROVE LockProtectsResult'
  BY <1>9
<1>10. ASSUME NEW c \in Clients, CommitEdit(c) PROVE LockProtectsResult'
  <2>1. edit[c].mon \in Monitors
    BY <1>10, EditTyped DEF CommitEdit
  <2>2. \A m \in Monitors \ {edit[c].mon} : paused'[m] = paused[m]
    BY <1>10, <2>1 DEF CommitEdit
  <2>3. UNCHANGED <<life, recorded, stage, job>>
    BY <1>10 DEF CommitEdit
  <2>4. \A w \in Workers : stage[w] = "locked" => job[w].mon \in Monitors \ {edit[c].mon}
    BY <1>10, JobTyped DEF CommitEdit, RowLocked
  <2> QED
    BY <2>2, <2>3, <2>4
<1>11. ASSUME NEW m \in Monitors, CreateMonitor(m) PROVE LockProtectsResult'
  BY <1>11, JobTyped DEF CreateMonitor
<1>12. ASSUME NEW m \in Monitors, DeleteMonitor(m) PROVE LockProtectsResult'
  BY <1>12, JobTyped DEF DeleteMonitor, RowLocked
<1> QED
  <2>1. ASSUME NEW w \in Workers, CommitSuccess(w) \/ CommitFailure(w) \/ CommitOutage(w)
        PROVE  LockProtectsResult'
    BY <1>5, <2>1 DEF CommitSuccess, CommitFailure, CommitOutage, IndexAllows, Committing
  <2>2. ASSUME NEW c \in Clients, NEW m \in Monitors, NEW p \in Patches, ReadMonitor(c, m, p)
        PROVE  LockProtectsResult'
    BY <1>9, <2>2 DEF ReadMonitor
  <2>3. ASSUME NEW c \in Clients, CloseIncident(c) \/ LoseEdit(c) \/ FailEdit(c)
        PROVE  LockProtectsResult'
    BY <1>9, <2>3 DEF CloseIncident, LoseEdit, FailEdit
  <2>4. ASSUME NEW m \in Monitors, NEW s \in Slots, Enqueue(m, s) PROVE LockProtectsResult'
    BY <1>9, <2>4 DEF Enqueue
  <2>5. CASE UNCHANGED vars
    BY <1>9, <2>5
  <2> QED
    BY <1>1, <1>2, <1>3, <1>4, <1>6, <1>7, <1>8, <1>10, <1>11, <1>12,
       <2>1, <2>2, <2>3, <2>4, <2>5, NextActions

-----------------------------------------------------------------------------
(* The failure counter.                                                    *)

Counting == CounterCountsSlots /\ StreakRecorded /\ DownMeansCounter

LEMMA CountingFrame ==
  ASSUME [Next]_vars
  PROVE  \/ UNCHANGED <<state, failures, recorded, streak>>
         \/ \E w \in Workers : CommitSuccess(w) \/ CommitFailure(w) \/ CommitOutage(w)
         \/ \E c \in Clients : CommitEdit(c)
         \/ \E m \in Monitors : DeleteMonitor(m)
<1>1. ASSUME NEW w \in Workers,
             \/ \E m \in Monitors, s \in Slots : DropJob(w, m, s) \/ StartJob(w, m, s)
             \/ LockRow(w) \/ RefuseResult(w) \/ RollBackOutage(w)
             \/ FinishJob(w) \/ FailJob(w)
      PROVE  UNCHANGED rows
  BY <1>1 DEF DropJob, StartJob, LockRow, RefuseResult, RollBackOutage, FinishJob, FailJob
<1>2. ASSUME NEW c \in Clients,
             \/ \E m \in Monitors, p \in Patches : ReadMonitor(c, m, p)
             \/ CloseIncident(c) \/ LoseEdit(c) \/ FailEdit(c)
      PROVE  UNCHANGED rows
  BY <1>2 DEF ReadMonitor, CloseIncident, LoseEdit, FailEdit
<1>3. ASSUME NEW m \in Monitors, CreateMonitor(m)
      PROVE  UNCHANGED <<state, failures, recorded, streak>>
  BY <1>3 DEF CreateMonitor
<1>4. ASSUME NEW m \in Monitors, NEW s \in Slots, Enqueue(m, s)
      PROVE  UNCHANGED rows
  BY <1>4 DEF Enqueue
<1>5. UNCHANGED vars => UNCHANGED rows
  BY DEF vars
<1>6. UNCHANGED rows => UNCHANGED <<state, failures, recorded, streak>>
  BY DEF rows, row
<1> QED
  BY <1>1, <1>2, <1>3, <1>4, <1>5, <1>6, NextActions

\* A reset forgets the streak and the counter together.
LEMMA ResetCounting ==
  ASSUME TypeOK, Counting, NEW m \in Monitors,
         state' = [state EXCEPT ![m] = "PENDING"] \/ state' = [state EXCEPT ![m] = "UP"],
         failures' = [failures EXCEPT ![m] = 0],
         streak' = [streak EXCEPT ![m] = {}],
         \A n \in Monitors : n # m => recorded'[n] = recorded[n]
  PROVE  Counting'
<1>1. IsFiniteSet({}) /\ Cardinality({}) = 0
  BY FS_EmptySet
<1>2. \A n \in Monitors :
        /\ state'[n] = IF n = m THEN state'[m] ELSE state[n]
        /\ state'[m] # "DOWN"
        /\ failures'[n] = IF n = m THEN 0 ELSE failures[n]
        /\ streak'[n] = IF n = m THEN {} ELSE streak[n]
  BY DEF TypeOK
<1> QED
  BY <1>1, <1>2 DEF Counting, CounterCountsSlots, StreakRecorded, DownMeansCounter

\* A failure of a slot not yet recorded adds exactly one to both.
LEMMA FailureCounting ==
  ASSUME TypeOK, Counting, NEW m \in Monitors, NEW s \in Slots, s \notin recorded[m],
         failures' = [failures EXCEPT ![m] = @ + 1],
         streak' = [streak EXCEPT ![m] = @ \cup {s}],
         recorded' = [recorded EXCEPT ![m] = @ \cup {s}],
         \/ /\ UNCHANGED state
            /\ failures[m] + 1 < Threshold \/ state[m] = "DOWN"
         \/ /\ state' = [state EXCEPT ![m] = "DOWN"]
            /\ failures[m] + 1 >= Threshold
  PROVE  Counting'
<1>1. /\ IsFiniteSet(streak[m] \cup {s})
      /\ Cardinality(streak[m] \cup {s}) = Cardinality(streak[m]) + 1
  <2>1. IsFiniteSet(streak[m]) /\ s \notin streak[m]
    BY DEF Counting, StreakRecorded
  <2> QED
    BY <2>1, FS_AddElement
<1>2. \A n \in Monitors :
        /\ failures'[n] = IF n = m THEN failures[m] + 1 ELSE failures[n]
        /\ streak'[n] = IF n = m THEN streak[m] \cup {s} ELSE streak[n]
        /\ recorded'[n] = IF n = m THEN recorded[m] \cup {s} ELSE recorded[n]
        /\ n # m => state'[n] = state[n]
  BY DEF TypeOK
<1>3. state'[m] = "DOWN" <=> failures[m] + 1 >= Threshold
  BY DEF TypeOK, Counting, DownMeansCounter
<1>4. CounterCountsSlots'
  BY <1>1, <1>2 DEF Counting, CounterCountsSlots
<1>5. StreakRecorded'
  BY <1>1, <1>2 DEF Counting, StreakRecorded
<1>6. DownMeansCounter'
  BY <1>2, <1>3 DEF Counting, DownMeansCounter
<1> QED
  BY <1>4, <1>5, <1>6 DEF Counting

LEMMA CountingStep ==
  TypeOK /\ LockProtectsResult /\ Counting /\ [Next]_vars => Counting'
<1> SUFFICES ASSUME TypeOK, LockProtectsResult, Counting, [Next]_vars PROVE Counting'
  OBVIOUS
<1>1. CASE UNCHANGED <<state, failures, recorded, streak>>
  BY <1>1 DEF Counting, CounterCountsSlots, StreakRecorded, DownMeansCounter
<1>2. ASSUME NEW w \in Workers, CommitSuccess(w) PROVE Counting'
  <2>1. job[w].mon \in Monitors
    BY <1>2, JobTyped DEF CommitSuccess, Committing
  <2>2. \A n \in Monitors : n # job[w].mon => recorded'[n] = recorded[n]
    BY <1>2, <2>1 DEF CommitSuccess, RecordSlot, TypeOK
  <2> QED
    BY <1>2, <2>1, <2>2, ResetCounting DEF CommitSuccess
<1>3. ASSUME NEW w \in Workers, CommitFailure(w) PROVE Counting'
  <2> DEFINE m == job[w].mon
             s == job[w].slot
  <2>1. m \in Monitors /\ s \in Slots /\ s \notin recorded[m]
    BY <1>3, JobTyped DEF CommitFailure, Committing, LockProtectsResult
  <2>2. failures[m] + 1 < Threshold \/ state[m] = "DOWN"
    BY <1>3, <2>1 DEF CommitFailure, Crosses, TypeOK
  <2> QED
    BY <1>3, <2>1, <2>2, FailureCounting DEF CommitFailure, RecordSlot
<1>4. ASSUME NEW w \in Workers, CommitOutage(w) PROVE Counting'
  <2> DEFINE m == job[w].mon
             s == job[w].slot
  <2>1. m \in Monitors /\ s \in Slots /\ s \notin recorded[m]
    BY <1>4, JobTyped DEF CommitOutage, IndexAllows, Committing, LockProtectsResult
  <2>2. failures[m] + 1 >= Threshold
    BY <1>4 DEF CommitOutage, IndexAllows, Crosses
  <2> QED
    BY <1>4, <2>1, <2>2, FailureCounting DEF CommitOutage, IndexAllows, RecordSlot
<1>5. ASSUME NEW c \in Clients, CommitEdit(c) PROVE Counting'
  <2> DEFINE e == edit[c]
  <2>1. e.mon \in Monitors
    BY <1>5, EditTyped DEF CommitEdit
  <2>2. CASE Resets(e)
    BY <1>5, <2>1, <2>2, ResetCounting DEF CommitEdit
  <2>3. CASE ~Resets(e)
    <3>1. UNCHANGED <<state, failures, recorded, streak>>
      BY <1>5, <2>1, <2>3 DEF CommitEdit, TypeOK
    <3> QED
      BY <3>1, <1>1 DEF Counting, CounterCountsSlots, StreakRecorded, DownMeansCounter
  <2> QED
    BY <2>2, <2>3
<1>6. ASSUME NEW m \in Monitors, DeleteMonitor(m) PROVE Counting'
  <2>1. \A n \in Monitors : n # m => recorded'[n] = recorded[n]
    BY <1>6 DEF DeleteMonitor, TypeOK
  <2> QED
    BY <1>6, <2>1, ResetCounting DEF DeleteMonitor
<1> QED
  BY <1>1, <1>2, <1>3, <1>4, <1>5, <1>6, CountingFrame

-----------------------------------------------------------------------------
(* Incidents, their alerts, and the edits that hold them.                  *)

Incidents ==
  /\ IncidentsRecorded
  /\ OneOpenIncident
  /\ DownHasIncident
  /\ AlertsMatchIncidents
  /\ LocksStayOpen

LEMMA IncidentsFrame ==
  ASSUME [Next]_vars
  PROVE  \/ UNCHANGED <<state, recorded, incident, notified, edits>>
         \/ \E w \in Workers : CommitSuccess(w) \/ CommitFailure(w) \/ CommitOutage(w)
         \/ \E c \in Clients : CommitEdit(c) \/ CloseIncident(c) \/ LoseEdit(c) \/ FailEdit(c)
         \/ \E c \in Clients, m \in Monitors, p \in Patches : ReadMonitor(c, m, p)
         \/ \E m \in Monitors : DeleteMonitor(m)
<1>1. ASSUME NEW w \in Workers,
             \/ \E m \in Monitors, s \in Slots : DropJob(w, m, s) \/ StartJob(w, m, s)
             \/ LockRow(w) \/ RefuseResult(w) \/ RollBackOutage(w)
             \/ FinishJob(w) \/ FailJob(w)
      PROVE  UNCHANGED <<rows, edits>>
  BY <1>1 DEF DropJob, StartJob, LockRow, RefuseResult, RollBackOutage, Committing,
              FinishJob, FailJob
<1>2. ASSUME NEW m \in Monitors, CreateMonitor(m)
      PROVE  UNCHANGED <<state, recorded, incident, notified, edits>>
  BY <1>2 DEF CreateMonitor
<1>3. ASSUME NEW m \in Monitors, NEW s \in Slots, Enqueue(m, s)
      PROVE  UNCHANGED <<rows, edits>>
  BY <1>3 DEF Enqueue
<1>4. UNCHANGED vars => UNCHANGED <<rows, edits>>
  BY DEF vars
<1>5. UNCHANGED <<rows, edits>> => UNCHANGED <<state, recorded, incident, notified, edits>>
  BY DEF rows, row
<1> QED
  BY <1>1, <1>2, <1>3, <1>4, <1>5, NextActions

\* One success resolves the open incident, which no edit holds.
LEMMA SuccessIncidents ==
  ASSUME TypeOK, LockProtectsResult, Incidents, NEW w \in Workers, CommitSuccess(w)
  PROVE  Incidents'
<1> DEFINE m == job[w].mon
<1>1. m \in Monitors /\ job[w].slot \in Slots
  BY JobTyped DEF CommitSuccess, Committing
<1>2. /\ \A n \in Monitors : recorded[n] \subseteq recorded'[n]
      /\ state' = [state EXCEPT ![m] = "UP"]
      /\ UNCHANGED edits
  BY <1>1 DEF CommitSuccess, Committing, RecordSlot, TypeOK
<1>3. \A c \in Clients : held[c] # {} => edit[c].mon # m
  BY <1>1 DEF CommitSuccess, Committing, WaitsFor, Incidents, LocksStayOpen, TypeOK
<1>4. CASE OpenIncidents(m) = {} /\ UNCHANGED <<incident, notified>>
  <2>1. \A n \in Monitors : state'[n] = "DOWN" => state[n] = "DOWN"
    BY <1>1, <1>2 DEF TypeOK
  <2> QED
    BY <1>2, <1>4, <2>1 DEF Incidents, IncidentsRecorded, OneOpenIncident, DownHasIncident,
          AlertsMatchIncidents, LocksStayOpen, OpenIncidents, edits
<1>5. ASSUME NEW i \in OpenIncidents(m),
             incident' = [incident EXCEPT ![m][i] = "RECOVERED"],
             notified' = [notified EXCEPT ![m][i] = @ \cup {"RECOVERY"}]
      PROVE  Incidents'
  <2>1. i \in Slots /\ incident[m][i] = "open" /\ OpenIncidents(m) = {i}
    BY <1>1, <1>5 DEF OpenIncidents, Incidents, OneOpenIncident
  <2>2. \A n \in Monitors, s \in Slots :
          /\ incident'[n][s] = IF n = m /\ s = i THEN "RECOVERED" ELSE incident[n][s]
          /\ notified'[n][s] = IF n = m /\ s = i THEN notified[m][i] \cup {"RECOVERY"}
                                                ELSE notified[n][s]
    BY <1>1, <1>5, <2>1 DEF TypeOK
  <2>3. \A n \in Monitors : OpenIncidents(n)' = OpenIncidents(n) \ (IF n = m THEN {i} ELSE {})
    BY <2>1, <2>2 DEF OpenIncidents
  <2>4. IncidentsRecorded'
    BY <1>1, <1>2, <2>1, <2>2 DEF Incidents, IncidentsRecorded
  <2>5. OneOpenIncident'
    BY <2>3 DEF Incidents, OneOpenIncident
  <2>6. DownHasIncident'
    BY <1>1, <1>2, <2>3 DEF Incidents, DownHasIncident, TypeOK
  <2>7. AlertsMatchIncidents'
    <3>1. notified[m][i] = {"DOWN"}
      BY <1>1, <2>1 DEF Incidents, AlertsMatchIncidents
    <3>2. notified[m][i] \cup {"RECOVERY"} = {"DOWN", "RECOVERY"}
      BY <3>1
    <3>3. notified'[m][i] = {"DOWN", "RECOVERY"} /\ incident'[m][i] = "RECOVERED"
      BY <1>1, <2>1, <2>2, <3>2
    <3>4. \A n \in Monitors, s \in Slots : ~(n = m /\ s = i) =>
            incident'[n][s] = incident[n][s] /\ notified'[n][s] = notified[n][s]
      BY <2>2
    <3> SUFFICES ASSUME NEW n \in Monitors, NEW s \in Slots
                 PROVE  notified'[n][s] = IF incident'[n][s] = "absent" THEN {}
                          ELSE IF incident'[n][s] = "RECOVERED" THEN {"DOWN", "RECOVERY"}
                          ELSE {"DOWN"}
      BY DEF AlertsMatchIncidents
    <3>5. CASE n = m /\ s = i
      BY <3>3, <3>5
    <3>6. CASE ~(n = m /\ s = i)
      BY <3>4, <3>6 DEF Incidents, AlertsMatchIncidents
    <3> QED
      BY <3>5, <3>6
  <2>8. LocksStayOpen'
    <3>1. \A c \in Clients : held[c] # {} => edit[c].mon \in Monitors \ {m}
      BY <1>3, EditTyped DEF Incidents, LocksStayOpen
    <3> QED
      BY <1>2, <2>2, <3>1 DEF Incidents, LocksStayOpen, edits, Pauses, Retargets, OpenIncidents
  <2> QED
    BY <2>4, <2>5, <2>6, <2>7, <2>8 DEF Incidents
<1> QED
  BY <1>4, <1>5 DEF CommitSuccess

\* A failure below the threshold touches no incident.
LEMMA FailureIncidents ==
  ASSUME TypeOK, Incidents, NEW w \in Workers, CommitFailure(w)
  PROVE  Incidents'
<1>1. job[w].mon \in Monitors
  BY JobTyped DEF CommitFailure, Committing
<1>2. /\ \A n \in Monitors : recorded[n] \subseteq recorded'[n]
      /\ UNCHANGED <<state, incident, notified, edits>>
  BY <1>1 DEF CommitFailure, Committing, RecordSlot, TypeOK
<1> QED
  BY <1>2 DEF Incidents, IncidentsRecorded, OneOpenIncident, DownHasIncident,
        AlertsMatchIncidents, LocksStayOpen, OpenIncidents, edits

\* The crossing failure opens the only open incident, under a fresh name.
LEMMA OutageIncidents ==
  ASSUME TypeOK, LockProtectsResult, Incidents, NEW w \in Workers, CommitOutage(w)
  PROVE  Incidents'
<1> DEFINE m == job[w].mon
           s == job[w].slot
<1>1. m \in Monitors /\ s \in Slots /\ s \notin recorded[m]
  BY JobTyped DEF CommitOutage, IndexAllows, Committing, LockProtectsResult
<1>2. incident[m][s] = "absent" /\ notified[m][s] = {}
  BY <1>1 DEF Incidents, IncidentsRecorded, AlertsMatchIncidents
<1>3. /\ state' = [state EXCEPT ![m] = "DOWN"]
      /\ \A n \in Monitors : recorded'[n] = IF n = m THEN recorded[m] \cup {s} ELSE recorded[n]
      /\ OpenIncidents(m) = {}
      /\ UNCHANGED edits
  BY <1>1 DEF CommitOutage, IndexAllows, Committing, RecordSlot, TypeOK
<1>4. \A n \in Monitors, t \in Slots :
        /\ incident'[n][t] = IF n = m /\ t = s THEN "open" ELSE incident[n][t]
        /\ notified'[n][t] = IF n = m /\ t = s THEN notified[m][s] \cup {"DOWN"}
                                              ELSE notified[n][t]
  BY <1>1 DEF CommitOutage, IndexAllows, TypeOK
<1>5. \A n \in Monitors : OpenIncidents(n)' = IF n = m THEN {s} ELSE OpenIncidents(n)
  BY <1>1, <1>3, <1>4 DEF OpenIncidents
<1>6. IncidentsRecorded'
  BY <1>1, <1>3, <1>4 DEF Incidents, IncidentsRecorded
<1>7. OneOpenIncident'
  BY <1>5 DEF Incidents, OneOpenIncident
<1>8. DownHasIncident'
  <2> SUFFICES ASSUME NEW n \in Monitors, state'[n] = "DOWN"
               PROVE  \E t \in Slots : incident'[n][t] = "open"
    BY DEF DownHasIncident, OpenIncidents
  <2>1. CASE n = m
    BY <1>1, <1>4, <2>1
  <2>2. CASE n # m
    <3>1. PICK t \in Slots : incident[n][t] = "open"
      BY <1>3, <2>2 DEF Incidents, DownHasIncident, OpenIncidents, TypeOK
    <3> QED
      BY <1>4, <2>2, <3>1
  <2> QED
    BY <2>1, <2>2
<1>9. AlertsMatchIncidents'
  BY <1>2, <1>4 DEF Incidents, AlertsMatchIncidents
<1>10. LocksStayOpen'
  <2>1. \A c \in Clients : held[c] # {} => edit[c].mon \in Monitors
    BY EditTyped DEF Incidents, LocksStayOpen
  <2> QED
    BY <1>3, <1>4, <2>1 DEF Incidents, LocksStayOpen, edits, Pauses, Retargets, OpenIncidents
<1> QED
  BY <1>6, <1>7, <1>8, <1>9, <1>10 DEF Incidents


\* An edit resolves what it holds, which is open and which it alone holds.
LEMMA EditIncidents ==
  ASSUME TypeOK, Incidents, NEW c \in Clients, CommitEdit(c)
  PROVE  Incidents'
<1> DEFINE e == edit[c]
           m == edit[c].mon
           reason == IF Pauses(e) THEN "MONITOR_PAUSED" ELSE "MONITOR_RECONFIGURED"
<1>1. m \in Monitors
  BY EditTyped DEF CommitEdit
<1>2. UNCHANGED <<recorded, notified>> /\ EndRequest(c)
  BY DEF CommitEdit
<1>3. \A s \in held[c] : s \in Slots /\ incident[m][s] = "open"
  BY DEF Incidents, LocksStayOpen, OpenIncidents, TypeOK
<1>4. \A n \in Monitors, s \in Slots :
        incident'[n][s] = IF n = m /\ s \in held[c] THEN reason ELSE incident[n][s]
  BY <1>1 DEF CommitEdit, TypeOK
<1>5. reason \notin {"absent", "open", "RECOVERED"}
  OBVIOUS
<1>6. \A n \in Monitors : state'[n] = "DOWN" => state[n] = "DOWN" /\ (n = m => held[c] = {})
  BY <1>1 DEF CommitEdit, Resets, TypeOK, Incidents, LocksStayOpen
<1>7. IncidentsRecorded'
  BY <1>2, <1>3, <1>4, <1>5 DEF Incidents, IncidentsRecorded
<1>8. OneOpenIncident'
  BY <1>4, <1>5 DEF Incidents, OneOpenIncident, OpenIncidents
<1>9. DownHasIncident'
  BY <1>4, <1>6 DEF Incidents, DownHasIncident, OpenIncidents
<1>10. AlertsMatchIncidents'
  <2> SUFFICES ASSUME NEW n \in Monitors, NEW s \in Slots
               PROVE  notified'[n][s] = IF incident'[n][s] = "absent" THEN {}
                        ELSE IF incident'[n][s] = "RECOVERED" THEN {"DOWN", "RECOVERY"}
                        ELSE {"DOWN"}
    BY DEF AlertsMatchIncidents
  <2>1. CASE n = m /\ s \in held[c]
    BY <1>2, <1>3, <1>4, <1>5, <2>1 DEF Incidents, AlertsMatchIncidents
  <2>2. CASE ~(n = m /\ s \in held[c])
    BY <1>2, <1>4, <2>2 DEF Incidents, AlertsMatchIncidents
  <2> QED
    BY <2>1, <2>2
<1>11. LocksStayOpen'
  <2>1. /\ phase' = [phase EXCEPT ![c] = "idle"]
        /\ held' = [held EXCEPT ![c] = {}]
        /\ \A d \in Clients : d # c => edit'[d] = edit[d]
    BY <1>2 DEF EndRequest, TypeOK
  <2> SUFFICES ASSUME NEW d \in Clients
               PROVE  /\ phase'[d] = "closing" => Pauses(edit'[d]) \/ Retargets(edit'[d])
                      /\ held'[d] # {} =>
                           /\ phase'[d] = "updating"
                           /\ \A s \in held'[d] : s \in Slots /\ incident'[edit'[d].mon][s] = "open"
                           /\ Pauses(edit'[d]) \/ Retargets(edit'[d])
                           /\ \A b \in Clients :
                                held'[b] # {} /\ edit'[b].mon = edit'[d].mon => b = d
    BY DEF LocksStayOpen, OpenIncidents, Pauses, Retargets
  <2>2. CASE d = c
    BY <2>1, <2>2 DEF TypeOK
  <2>3. CASE d # c
    <3>1. phase'[d] = phase[d] /\ held'[d] = held[d] /\ edit'[d] = edit[d]
      BY <2>1, <2>3 DEF TypeOK
    <3>2. ASSUME held[d] # {}
          PROVE  \A s \in held[d] : s \in Slots /\ incident'[edit[d].mon][s] = "open"
      <4>1. edit[d].mon \in Monitors /\ (edit[d].mon = m => held[c] = {})
        BY <2>3, <3>2, EditTyped DEF Incidents, LocksStayOpen
      <4> QED
        BY <1>4, <3>2, <4>1 DEF Incidents, LocksStayOpen, OpenIncidents
    <3>3. ASSUME held[d] # {}, NEW b \in Clients, held'[b] # {}, edit'[b].mon = edit'[d].mon
          PROVE  b = d
      BY <2>1, <3>1, <3>3 DEF Incidents, LocksStayOpen, TypeOK
    <3> QED
      BY <3>1, <3>2, <3>3 DEF Incidents, LocksStayOpen
  <2> QED
    BY <2>2, <2>3
<1> QED
  BY <1>7, <1>8, <1>9, <1>10, <1>11 DEF Incidents

\* A client that comes to hold nothing disturbs no other.
LEMMA LetGo ==
  ASSUME LocksStayOpen, NEW c \in Clients, UNCHANGED incident,
         \A d \in Clients : d # c =>
           phase'[d] = phase[d] /\ edit'[d] = edit[d] /\ held'[d] = held[d],
         held'[c] = {},
         phase'[c] = "closing" => Pauses(edit'[c]) \/ Retargets(edit'[c])
  PROVE  LocksStayOpen'
<1> SUFFICES ASSUME NEW d \in Clients
             PROVE  /\ phase'[d] = "closing" => Pauses(edit'[d]) \/ Retargets(edit'[d])
                    /\ held'[d] # {} =>
                         /\ phase'[d] = "updating"
                         /\ \A s \in held'[d] : s \in Slots /\ incident'[edit'[d].mon][s] = "open"
                         /\ Pauses(edit'[d]) \/ Retargets(edit'[d])
                         /\ \A b \in Clients :
                              held'[b] # {} /\ edit'[b].mon = edit'[d].mon => b = d
  BY DEF LocksStayOpen, OpenIncidents, Pauses, Retargets
<1>1. CASE d = c
  BY <1>1
<1>2. CASE d # c
  <2>1. ASSUME NEW b \in Clients, held'[b] # {}, held[d] # {}, edit'[b].mon = edit[d].mon
        PROVE  b = d
    BY <1>2, <2>1 DEF LocksStayOpen
  <2> QED
    BY <1>2, <2>1 DEF LocksStayOpen, OpenIncidents
<1> QED
  BY <1>1, <1>2

\* The steps of a request before its commit move only its own memory.
LEMMA RequestIncidents ==
  ASSUME TypeOK, Incidents, NEW c \in Clients,
         \/ \E m \in Monitors, p \in Patches : ReadMonitor(c, m, p)
         \/ CloseIncident(c) \/ LoseEdit(c) \/ FailEdit(c)
  PROVE  Incidents'
<1>1. UNCHANGED <<state, recorded, incident, notified>>
  BY DEF ReadMonitor, CloseIncident, LoseEdit, FailEdit, rows, row
<1>2. ASSUME LocksStayOpen' PROVE Incidents'
  BY <1>1, <1>2 DEF Incidents, IncidentsRecorded, OneOpenIncident, DownHasIncident,
       AlertsMatchIncidents, OpenIncidents
<1>3. ASSUME NEW m \in Monitors, NEW p \in Patches, ReadMonitor(c, m, p)
      PROVE  LocksStayOpen'
  <2> DEFINE r == [mon |-> m, paused |-> p.paused, url |-> p.url,
                   wasPaused |-> paused[m], wasUrl |-> url[m]]
  <2>1. /\ held[c] = {} /\ UNCHANGED <<held, incident>>
        /\ edit' = [edit EXCEPT ![c] = r]
        /\ phase' = [phase EXCEPT ![c] =
             IF Pauses(r) \/ Retargets(r) THEN "closing" ELSE "updating"]
    BY <1>1, <1>3 DEF ReadMonitor, Incidents, LocksStayOpen
  <2> HIDE DEF r
  <2>2. /\ \A d \in Clients : d # c =>
             edit'[d] = edit[d] /\ phase'[d] = phase[d] /\ held'[d] = held[d]
        /\ edit'[c] = r /\ (phase'[c] = "closing" => Pauses(r) \/ Retargets(r))
    BY <2>1 DEF TypeOK
  <2>3. phase'[c] = "closing" => Pauses(edit'[c]) \/ Retargets(edit'[c])
    BY <2>2
  <2> QED
    BY <2>1, <2>2, <2>3, LetGo DEF Incidents
<1>4. ASSUME CloseIncident(c) PROVE LocksStayOpen'
  <2> DEFINE m == edit[c].mon
  <2>1. /\ phase[c] = "closing" /\ held[c] = {} /\ m \in Monitors
        /\ UNCHANGED <<edit, incident>>
        /\ held' = [held EXCEPT ![c] = OpenIncidents(m)]
        /\ phase' = [phase EXCEPT ![c] = "updating"]
    BY <1>1, <1>4, EditTyped DEF CloseIncident, Incidents, LocksStayOpen
  <2>2. \A d \in Clients : held[d] # {} => edit[d].mon # m
    BY <1>4, <2>1 DEF CloseIncident, IncidentLocked, Incidents, LocksStayOpen
  <2>3. \A d \in Clients :
          /\ held'[d] = IF d = c THEN OpenIncidents(m) ELSE held[d]
          /\ phase'[d] = IF d = c THEN "updating" ELSE phase[d]
    BY <2>1 DEF TypeOK
  <2>4. \A n : OpenIncidents(n)' = OpenIncidents(n)
    BY <2>1 DEF OpenIncidents
  <2> SUFFICES ASSUME NEW d \in Clients
               PROVE  /\ phase'[d] = "closing" => Pauses(edit[d]) \/ Retargets(edit[d])
                      /\ held'[d] # {} =>
                           /\ phase'[d] = "updating"
                           /\ \A s \in held'[d] : s \in OpenIncidents(edit[d].mon)
                           /\ Pauses(edit[d]) \/ Retargets(edit[d])
                           /\ \A b \in Clients :
                                held'[b] # {} /\ edit[b].mon = edit[d].mon => b = d
    BY <2>1 DEF LocksStayOpen, OpenIncidents, Pauses, Retargets
  <2>5. CASE d = c
    BY <2>1, <2>2, <2>3, <2>5 DEF Incidents, LocksStayOpen
  <2>6. CASE d # c
    BY <2>2, <2>3, <2>6 DEF Incidents, LocksStayOpen
  <2> QED
    BY <2>5, <2>6
<1>5. ASSUME LoseEdit(c) \/ FailEdit(c) PROVE LocksStayOpen'
  <2>1. EndRequest(c) /\ UNCHANGED incident
    BY <1>1, <1>5 DEF LoseEdit, FailEdit
  <2>2. /\ \A d \in Clients : d # c =>
             edit'[d] = edit[d] /\ phase'[d] = phase[d] /\ held'[d] = held[d]
        /\ phase'[c] = "idle" /\ held'[c] = {}
    BY <2>1 DEF EndRequest, TypeOK
  <2> QED
    BY <2>1, <2>2, LetGo DEF Incidents
<1> QED
  BY <1>2, <1>3, <1>4, <1>5

LEMMA DeleteIncidents ==
  ASSUME TypeOK, Incidents, NEW m \in Monitors, DeleteMonitor(m)
  PROVE  Incidents'
<1>1. \A n \in Monitors :
        /\ state'[n] = IF n = m THEN "PENDING" ELSE state[n]
        /\ recorded'[n] = IF n = m THEN {} ELSE recorded[n]
        /\ \A s \in Slots :
             /\ incident'[n][s] = IF n = m THEN "absent" ELSE incident[n][s]
             /\ notified'[n][s] = IF n = m THEN {} ELSE notified[n][s]
  BY DEF DeleteMonitor, TypeOK
<1>2. IncidentsRecorded' /\ OneOpenIncident' /\ DownHasIncident'
  BY <1>1 DEF Incidents, IncidentsRecorded, OneOpenIncident, DownHasIncident, OpenIncidents
<1>3. AlertsMatchIncidents'
  BY <1>1 DEF Incidents, AlertsMatchIncidents
<1>4. LocksStayOpen'
  <2>1. UNCHANGED <<phase, edit>>
    BY DEF DeleteMonitor
  <2>2. \A c \in Clients : /\ held'[c] # {} => held'[c] = held[c] /\ edit[c].mon # m
    BY DEF DeleteMonitor, Incidents, LocksStayOpen, TypeOK
  <2>3. \A c \in Clients : held[c] # {} => edit[c].mon \in Monitors
    BY EditTyped DEF Incidents, LocksStayOpen
  <2> QED
    BY <1>1, <2>1, <2>2, <2>3 DEF Incidents, LocksStayOpen, OpenIncidents, Pauses, Retargets
<1> QED
  BY <1>2, <1>3, <1>4 DEF Incidents

LEMMA IncidentsStep ==
  TypeOK /\ LockProtectsResult /\ Incidents /\ [Next]_vars => Incidents'
<1> SUFFICES ASSUME TypeOK, LockProtectsResult, Incidents, [Next]_vars PROVE Incidents'
  OBVIOUS
<1>1. CASE UNCHANGED <<state, recorded, incident, notified, edits>>
  BY <1>1 DEF Incidents, IncidentsRecorded, OneOpenIncident, DownHasIncident,
       AlertsMatchIncidents, LocksStayOpen, OpenIncidents, edits, Pauses, Retargets
<1> QED
  BY <1>1, SuccessIncidents, FailureIncidents, OutageIncidents, EditIncidents,
     RequestIncidents, DeleteIncidents, IncidentsFrame

-----------------------------------------------------------------------------
(* The results.                                                            *)

LEMMA InvariantInit == Init => TrackingInvariant
<1> SUFFICES ASSUME Init PROVE TrackingInvariant
  OBVIOUS
<1>1. IsFiniteSet({}) /\ Cardinality({}) = 0
  BY FS_EmptySet
<1>2. CounterCountsSlots /\ StreakRecorded /\ DownMeansCounter
  BY <1>1 DEF Init, CounterCountsSlots, StreakRecorded, DownMeansCounter
<1>3. IncidentsRecorded /\ OneOpenIncident /\ DownHasIncident /\ AlertsMatchIncidents
  BY DEF Init, IncidentsRecorded, OneOpenIncident, DownHasIncident, AlertsMatchIncidents,
         OpenIncidents
<1>4. LockProtectsResult /\ LocksStayOpen
  BY DEF Init, LockProtectsResult, LocksStayOpen
<1> QED
  BY <1>2, <1>3, <1>4, TypeInit DEF TrackingInvariant

LEMMA InvariantStep == TrackingInvariant /\ [Next]_vars => TrackingInvariant'
  BY TypeStep, LockStep, CountingStep, IncidentsStep
     DEF TrackingInvariant, Counting, Incidents

\* The inductive invariant holds: counters, incidents, alerts and locks agree
\* in every reachable state.
THEOREM TrackingCorrect == Spec => []TrackingInvariant
  BY InvariantInit, InvariantStep, PTL DEF Spec

\* No redelivered, retried or concurrent job invents downtime: a monitor is
\* DOWN exactly when Threshold distinct recorded slots have failed in a row.
THEOREM NoInventedDowntime == Spec => []DownMeansThresholdSlots
<1>1. TrackingInvariant => DownMeansThresholdSlots
  <2> SUFFICES ASSUME TrackingInvariant, NEW m \in Monitors
               PROVE  state[m] = "DOWN" <=> Cardinality(streak[m] \cap recorded[m]) >= Threshold
    BY DEF DownMeansThresholdSlots
  <2>1. streak[m] \cap recorded[m] = streak[m]
    BY DEF TrackingInvariant, StreakRecorded
  <2> QED
    BY <2>1 DEF TrackingInvariant, CounterCountsSlots, DownMeansCounter
<1> QED
  BY <1>1, TrackingCorrect, PTL

\* A DOWN monitor has an open incident, there is never a second one, and the
\* alerts on record are those of what happened.
THEOREM IncidentsCorrect ==
  Spec => [](OneOpenIncident /\ DownHasIncident /\ AlertsMatchIncidents)
<1>1. TrackingInvariant => OneOpenIncident /\ DownHasIncident /\ AlertsMatchIncidents
  BY DEF TrackingInvariant
<1> QED
  BY <1>1, TrackingCorrect, PTL


-----------------------------------------------------------------------------
(* Steps.                                                                  *)

LEMMA RecordedStep ==
  ASSUME TypeOK, LockProtectsResult, [Next]_vars, NEW m \in Monitors, ~Active(m)
  PROVE  recorded'[m] \subseteq recorded[m]
<1>1. CASE UNCHANGED <<state, failures, recorded, streak>>
  BY <1>1
<1>2. ASSUME NEW w \in Workers, CommitSuccess(w) \/ CommitFailure(w) \/ CommitOutage(w)
      PROVE  recorded'[m] \subseteq recorded[m]
  <2>1. stage[w] = "locked" /\ RecordSlot(w)
    BY <1>2 DEF CommitSuccess, CommitFailure, CommitOutage, IndexAllows, Committing
  <2>2. job[w].mon \in Monitors \ {m}
    BY <2>1, JobTyped DEF LockProtectsResult
  <2> QED
    BY <2>1, <2>2 DEF RecordSlot, TypeOK
<1>3. ASSUME NEW c \in Clients, CommitEdit(c) PROVE recorded'[m] \subseteq recorded[m]
  BY <1>3 DEF CommitEdit
<1>4. ASSUME NEW n \in Monitors, DeleteMonitor(n) PROVE recorded'[m] \subseteq recorded[m]
  BY <1>4 DEF DeleteMonitor, TypeOK
<1> QED
  BY <1>1, <1>2, <1>3, <1>4, CountingFrame

\* A pause that commits while the request is in flight is respected: nothing
\* is recorded for a paused or deleted monitor.
THEOREM PauseRespected == Spec => PausedRecordsNothing
<1>1. TrackingInvariant /\ [Next]_vars =>
        [\A m \in Monitors :
           paused[m] \/ life[m] # "live" => recorded'[m] \subseteq recorded[m]]_vars
  BY RecordedStep DEF TrackingInvariant, Active
<1> QED
  BY <1>1, TrackingCorrect, PTL DEF Spec, PausedRecordsNothing

LEMMA ResolvedStep ==
  ASSUME TypeOK, LockProtectsResult, Incidents, [Next]_vars,
         NEW m \in Monitors, NEW s \in Slots,
         incident[m][s] \in CloseReasons, life'[m] = "live"
  PROVE  incident'[m][s] = incident[m][s]
<1>1. incident[m][s] # "open" /\ incident[m][s] # "absent"
  BY DEF CloseReasons
<1>2. ASSUME NEW w \in Workers, CommitSuccess(w) PROVE incident'[m][s] = incident[m][s]
  <2>1. CASE UNCHANGED incident
    BY <2>1
  <2>2. ASSUME NEW i \in OpenIncidents(job[w].mon),
               incident' = [incident EXCEPT ![job[w].mon][i] = "RECOVERED"]
        PROVE  incident'[m][s] = incident[m][s]
    BY <1>1, <2>2 DEF OpenIncidents, TypeOK
  <2> QED
    BY <1>2, <2>1, <2>2 DEF CommitSuccess
<1>3. ASSUME NEW w \in Workers, CommitFailure(w) PROVE incident'[m][s] = incident[m][s]
  BY <1>3 DEF CommitFailure
<1>4. ASSUME NEW w \in Workers, CommitOutage(w) PROVE incident'[m][s] = incident[m][s]
  <2>1. incident[job[w].mon][job[w].slot] = "absent"
    BY <1>4, JobTyped DEF CommitOutage, IndexAllows, Committing, LockProtectsResult, Incidents, IncidentsRecorded
  <2> QED
    BY <1>1, <1>4, <2>1 DEF CommitOutage, IndexAllows, TypeOK
<1>5. ASSUME NEW c \in Clients, CommitEdit(c) PROVE incident'[m][s] = incident[m][s]
  <2>1. m = edit[c].mon => s \notin held[c]
    BY <1>1 DEF Incidents, LocksStayOpen, OpenIncidents
  <2> QED
    BY <1>5, <2>1 DEF CommitEdit, TypeOK
<1>6. ASSUME NEW n \in Monitors, DeleteMonitor(n) PROVE incident'[m][s] = incident[m][s]
  <2>1. n # m
    BY <1>6 DEF DeleteMonitor, TypeOK
  <2> QED
    BY <1>6, <2>1 DEF DeleteMonitor, TypeOK
<1>7. ASSUME NEW c \in Clients,
             \/ \E n \in Monitors, p \in Patches : ReadMonitor(c, n, p)
             \/ CloseIncident(c) \/ LoseEdit(c) \/ FailEdit(c)
      PROVE  incident'[m][s] = incident[m][s]
  BY <1>7 DEF ReadMonitor, CloseIncident, LoseEdit, FailEdit, rows
<1> QED
  BY <1>2, <1>3, <1>4, <1>5, <1>6, <1>7, IncidentsFrame

\* Of the transactions that set out to close an incident one does, and its
\* reason and its alerts stand.
THEOREM ResolutionFinal == Spec => ResolvedIsFinal
<1>1. TrackingInvariant /\ [Next]_vars =>
        [\A m \in Monitors, s \in Slots :
           incident[m][s] \in CloseReasons /\ life'[m] = "live"
             => incident'[m][s] = incident[m][s]]_vars
  BY ResolvedStep DEF TrackingInvariant, Incidents
<1> QED
  BY <1>1, TrackingCorrect, PTL DEF Spec, ResolvedIsFinal

LEMMA OutageStep ==
  ASSUME TypeOK, Counting, [Next]_vars, NEW m \in Monitors, NEW s \in Slots,
         incident[m][s] # "open", incident'[m][s] = "open"
  PROVE  Cardinality(streak[m]) = Threshold - 1 /\ OpenIncidents(m) = {}
<1>1. ASSUME NEW w \in Workers, CommitSuccess(w) PROVE FALSE
  <2>1. incident'[m][s] \in {incident[m][s], "RECOVERED"}
    <3>1. CASE UNCHANGED incident
      BY <3>1
    <3>2. ASSUME NEW i \in OpenIncidents(job[w].mon),
                 incident' = [incident EXCEPT ![job[w].mon][i] = "RECOVERED"]
          PROVE  incident'[m][s] \in {incident[m][s], "RECOVERED"}
      BY <3>2 DEF TypeOK
    <3> QED
      BY <1>1, <3>1, <3>2 DEF CommitSuccess
  <2> QED
    BY <2>1
<1>2. ASSUME NEW w \in Workers, CommitFailure(w) PROVE FALSE
  BY <1>2 DEF CommitFailure
<1>3. ASSUME NEW w \in Workers, CommitOutage(w)
      PROVE  Cardinality(streak[m]) = Threshold - 1 /\ OpenIncidents(m) = {}
  <2>1. m = job[w].mon
    BY <1>3, JobTyped DEF CommitOutage, Committing, TypeOK
  <2>2. OpenIncidents(m) = {} /\ state[m] # "DOWN" /\ failures[m] + 1 >= Threshold
    BY <1>3, <2>1 DEF CommitOutage, IndexAllows, Crosses
  <2>3. failures[m] \in Nat /\ ~(failures[m] >= Threshold) /\ failures[m] = Cardinality(streak[m])
    BY <2>2 DEF TypeOK, Counting, DownMeansCounter, CounterCountsSlots
  <2> QED
    BY <2>2, <2>3
<1>4. ASSUME NEW c \in Clients, CommitEdit(c) PROVE FALSE
  BY <1>4 DEF CommitEdit, TypeOK
<1>5. ASSUME NEW n \in Monitors, DeleteMonitor(n) PROVE FALSE
  BY <1>5 DEF DeleteMonitor, TypeOK
<1>6. ASSUME NEW c \in Clients,
             \/ \E n \in Monitors, p \in Patches : ReadMonitor(c, n, p)
             \/ CloseIncident(c) \/ LoseEdit(c) \/ FailEdit(c)
      PROVE  FALSE
  BY <1>6 DEF ReadMonitor, CloseIncident, LoseEdit, FailEdit, rows
<1> QED
  BY <1>1, <1>2, <1>3, <1>4, <1>5, <1>6, IncidentsFrame

\* An incident opens at the Threshold-th failure in a row and at no other.
THEOREM OutageOpensOnce == Spec => OneIncidentPerOutage
<1>1. TrackingInvariant /\ [Next]_vars =>
        [\A m \in Monitors, s \in Slots :
           incident[m][s] # "open" /\ incident'[m][s] = "open"
             => Cardinality(streak[m]) = Threshold - 1 /\ OpenIncidents(m) = {}]_vars
  BY OutageStep DEF TrackingInvariant, Counting
<1> QED
  BY <1>1, TrackingCorrect, PTL DEF Spec, OneIncidentPerOutage

-----------------------------------------------------------------------------
(* Refinement.                                                             *)

LEMMA PromiseInit == Init => Promise!OutInit
  BY DEF Init, Promise!OutInit

\* The instance counts sets as this module does.
LEMMA PromiseCounts == \A S : Promise!Cardinality(S) = Cardinality(S)
BY Zenon DEF Promise!Cardinality, Cardinality

LEMMA PromiseStep ==
  TrackingInvariant /\ [Next]_vars => [Promise!OutNext]_(Promise!outVars)
<1> SUFFICES ASSUME TrackingInvariant, [Next]_vars
             PROVE  Promise!OutNext \/ UNCHANGED Promise!outVars
  OBVIOUS
<1>a. TypeOK /\ LockProtectsResult /\ Incidents /\ Counting
  BY DEF TrackingInvariant, Incidents, Counting
<1> USE DEF Promise!outVars
<1>1. ASSUME UNCHANGED rows PROVE UNCHANGED Promise!outVars
  BY <1>1 DEF rows, row
<1>2. ASSUME NEW w \in Workers, CommitSuccess(w) PROVE Promise!OutNext
  <2> DEFINE m == job[w].mon
             s == job[w].slot
  <2>1. m \in Monitors /\ s \in Slots /\ Active(m) /\ s \notin recorded[m]
    BY <1>a, <1>2, JobTyped DEF CommitSuccess, Committing, LockProtectsResult
  <2>2. Promise!Accept(m, s)
    BY <1>2, <2>1 DEF Promise!Accept, Active, CommitSuccess, Committing, RecordSlot
  <2>3. Promise!Succeed(m, s)
    BY <1>2, <2>2 DEF Promise!Succeed, CommitSuccess, Promise!Ongoing, OpenIncidents
  <2> QED
    BY <2>1, <2>3 DEF Promise!OutNext
<1>3. ASSUME NEW w \in Workers, CommitFailure(w) \/ CommitOutage(w) PROVE Promise!OutNext
  <2> DEFINE m == job[w].mon
             s == job[w].slot
  <2>1. m \in Monitors /\ s \in Slots /\ Active(m) /\ s \notin recorded[m]
    BY <1>a, <1>3, JobTyped DEF CommitFailure, CommitOutage, IndexAllows, Committing, LockProtectsResult
  <2>2. Promise!Accept(m, s)
    BY <1>3, <2>1 DEF Promise!Accept, Active, CommitFailure, CommitOutage, IndexAllows, Committing, RecordSlot
  <2>3. /\ Cardinality(streak[m] \cup {s}) = failures[m] + 1
        /\ incident[m][s] = "absent" /\ notified[m][s] = {}
    <3>1. IsFiniteSet(streak[m]) /\ s \notin streak[m]
      BY <1>a, <2>1 DEF Counting, StreakRecorded
    <3>2. Cardinality(streak[m] \cup {s}) = Cardinality(streak[m]) + 1
      BY <3>1, FS_AddElement
    <3>3. incident[m][s] = "absent"
      BY <1>a, <2>1 DEF Incidents, IncidentsRecorded
    <3> QED
      BY <1>a, <2>1, <3>2, <3>3 DEF Counting, CounterCountsSlots, Incidents, AlertsMatchIncidents
  <2>4. CASE CommitFailure(w)
    <3>1. state[m] = "DOWN" \/ failures[m] + 1 < Threshold
      BY <1>a, <2>1, <2>4 DEF CommitFailure, Crosses, TypeOK
    <3>2. state[m] = "DOWN" \/ Cardinality(streak[m] \cup {s}) < Threshold
      BY <2>3, <3>1
    <3>3. /\ streak' = [streak EXCEPT ![m] = @ \cup {s}]
          /\ UNCHANGED <<state, incident, notified>>
      BY <2>4 DEF CommitFailure
    <3> HIDE DEF m, s
    <3>4. Promise!Fail(m, s)
      BY <2>2, <3>2, <3>3, PromiseCounts DEF Promise!Fail
    <3> QED
      BY <2>1, <3>4 DEF Promise!OutNext
  <2>5. CASE CommitOutage(w)
    <3>1. state[m] # "DOWN" /\ failures[m] + 1 >= Threshold /\ Promise!Ongoing(m) = {}
      BY <2>5 DEF CommitOutage, IndexAllows, Crosses, Promise!Ongoing, OpenIncidents
    <3>2. Cardinality(streak[m] \cup {s}) >= Threshold
      BY <2>3, <3>1
    <3>3. notified' = [notified EXCEPT ![m][s] = {"DOWN"}]
      BY <1>a, <2>1, <2>3, <2>5 DEF CommitOutage, IndexAllows, TypeOK
    <3>4. /\ streak' = [streak EXCEPT ![m] = @ \cup {s}]
          /\ state' = [state EXCEPT ![m] = "DOWN"]
          /\ incident' = [incident EXCEPT ![m][s] = "open"]
      BY <2>5 DEF CommitOutage, IndexAllows
    <3> HIDE DEF m, s
    <3>5. Promise!Fail(m, s)
      BY <2>2, <3>1, <3>2, <3>3, <3>4, PromiseCounts DEF Promise!Fail
    <3> QED
      BY <2>1, <3>5 DEF Promise!OutNext
  <2> QED
    BY <1>3, <2>4, <2>5
<1>4. ASSUME NEW c \in Clients, CommitEdit(c) PROVE Promise!OutNext
  <2> DEFINE e == edit[c]
             m == edit[c].mon
             p == IF e.paused = "absent" THEN paused[m] ELSE e.paused = "true"
             r == IF Pauses(e) THEN "MONITOR_PAUSED" ELSE "MONITOR_RECONFIGURED"
  <2>1. /\ m \in Monitors /\ life[m] = "live" /\ p \in BOOLEAN
        /\ paused' = [paused EXCEPT ![m] = p]
        /\ UNCHANGED <<life, recorded, notified>>
    BY <1>a, <1>4, EditTyped DEF CommitEdit, TypeOK
  <2>2. incident' = [incident EXCEPT ![m] =
          [s \in Slots |-> IF s \in held[c] THEN r ELSE incident[m][s]]]
    BY <1>4 DEF CommitEdit
  <2>3. CASE Resets(e)
    <3>1. held[c] \in SUBSET Promise!Ongoing(m)
      BY <1>a DEF Incidents, LocksStayOpen, Promise!Ongoing, OpenIncidents, TypeOK
    <3>2. /\ state' = [state EXCEPT ![m] = "PENDING"]
          /\ streak' = [streak EXCEPT ![m] = {}]
      BY <1>4, <2>3 DEF CommitEdit
    <3>3. r \in {"MONITOR_PAUSED", "MONITOR_RECONFIGURED"}
      OBVIOUS
    <3> HIDE DEF p, r
    <3> QED
      BY <2>1, <2>2, <3>1, <3>2, <3>3 DEF Promise!Reset, Promise!OutNext
  <2>4. CASE ~Resets(e)
    <3>1. UNCHANGED <<state, streak>>
      BY <1>a, <1>4, <2>1, <2>4 DEF CommitEdit, TypeOK
    <3>2. held[c] = {}
      BY <1>a, <2>4 DEF Incidents, LocksStayOpen, Resets
    <3>3. UNCHANGED incident
      BY <1>a, <2>1, <2>2, <3>2 DEF TypeOK
    <3> HIDE DEF p
    <3> QED
      BY <2>1, <3>1, <3>3 DEF Promise!Touch, Promise!OutNext
  <2> QED
    BY <2>3, <2>4
<1>5. ASSUME NEW m \in Monitors, CreateMonitor(m) PROVE Promise!OutNext
  BY <1>5 DEF CreateMonitor, Promise!Create, Promise!OutNext
<1>6. ASSUME NEW m \in Monitors, DeleteMonitor(m) PROVE Promise!OutNext
  BY <1>6 DEF DeleteMonitor, Promise!Delete, Promise!OutNext
<1>7. ASSUME NEW w \in Workers,
             \/ \E m \in Monitors, s \in Slots : DropJob(w, m, s) \/ StartJob(w, m, s)
             \/ LockRow(w) \/ RefuseResult(w) \/ RollBackOutage(w)
             \/ FinishJob(w) \/ FailJob(w)
      PROVE  UNCHANGED rows
  BY <1>7 DEF DropJob, StartJob, LockRow, RefuseResult, RollBackOutage, FinishJob, FailJob
<1>8. ASSUME NEW c \in Clients,
             \/ \E m \in Monitors, p \in Patches : ReadMonitor(c, m, p)
             \/ CloseIncident(c) \/ LoseEdit(c) \/ FailEdit(c)
      PROVE  UNCHANGED rows
  BY <1>8 DEF ReadMonitor, CloseIncident, LoseEdit, FailEdit
<1>9. ASSUME NEW m \in Monitors, NEW s \in Slots, Enqueue(m, s) PROVE UNCHANGED rows
  BY <1>9 DEF Enqueue
<1>10. CASE UNCHANGED vars
  BY <1>10 DEF vars, rows, row
<1> QED
  BY <1>1, <1>2, <1>3, <1>4, <1>5, <1>6, <1>7, <1>8, <1>9, <1>10, NextActions

\* Incident tracking implements its abstract specification: with any number
\* of workers and requests the history of every monitor is one in which the
\* results of distinct slots arrive one at a time.
THEOREM Refinement == Spec => KeepsPromise
  BY PromiseInit, PromiseStep, TrackingCorrect, PTL DEF Spec, KeepsPromise, Promise!OutSpec

=============================================================================
