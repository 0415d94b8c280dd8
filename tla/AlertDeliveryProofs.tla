------------------------- MODULE AlertDeliveryProofs --------------------------
(* Proofs about AlertDelivery, for every value of its constants.           *)
EXTENDS AlertDelivery, TLAPS

USE MaxAttemptsAssumption, NoneAssumption

\* Next, one disjunct per action.
LEMMA NextActions ==
  ASSUME [Next]_vars
  PROVE  \/ \E a \in Alerts : CreateAlert(a)
         \/ \E a \in Alerts : SelectPending(a)
         \/ \E a \in Alerts : EnqueueAlert(a)
         \/ \E a \in Alerts : LoseEnqueue(a)
         \/ \E a \in Alerts : DeleteAlert(a)
         \/ \E a \in Alerts : ExpireLock(a)
         \/ \E a \in Alerts : LoseLock(a)
         \/ \E a \in Alerts : TrimJob(a)
         \/ \E w \in Workers, a \in Alerts : TakeJob(w, a)
         \/ \E w \in Workers : FetchAlert(w)
         \/ \E w \in Workers : FailJob(w)
         \/ \E w \in Workers : GiveUp(w)
         \/ \E w \in Workers : ClaimAlert(w)
         \/ \E w \in Workers : LoseClaim(w)
         \/ \E w \in Workers : Deliver(w)
         \/ \E w \in Workers : MarkSent(w)
         \/ \E w \in Workers : FailMark(w)
         \/ \E w \in Workers : RecordFailure(w)
         \/ \E w \in Workers : Crash(w)
         \/ FlushQueue
         \/ UNCHANGED vars
  BY DEF Next, AlertStep, WorkerStep

LEMMA RunTyped ==
  ASSUME TypeOK, NEW w \in Workers, stage[w] # "idle"
  PROVE  alert[w] \in Alerts /\ number[w] \in Nat /\ seen[w] \in Nat
  BY DEF TypeOK

-----------------------------------------------------------------------------
(* Types.                                                                  *)

LEMMA TypeInit == Init => TypeOK
  BY DEF Init, TypeOK, Stages

\* The two ways a run hands its job back keep the types of queue and workers.
LEMMA HandBackTyped ==
  ASSUME TypeOK, NEW w \in Workers, stage[w] # "idle", Complete(w) \/ Retry(w),
         UNCHANGED <<attempts, owed, history>>,
         status' \in [Alerts -> {"none", "PENDING", "SENT", "FAILED", "gone"}]
  PROVE  TypeOK'
<1>1. alert[w] \in Alerts
  BY RunTyped
<1>2. /\ queue' \in [Alerts -> {"absent", "waiting", "active", "kept"}]
      /\ made' \in [Alerts -> Nat]
      /\ stalls' \in [Alerts -> Nat]
      /\ holder' \in [Alerts -> Workers \cup {None}]
  BY <1>1 DEF TypeOK, Complete, Retry
<1>3. \A a \in Alerts : queue'[a] # "active" => holder'[a] = None
  BY <1>1 DEF TypeOK, Complete, Retry
<1>4. /\ stage' \in [Workers -> Stages]
      /\ alert' \in [Workers -> Alerts \cup {None}]
      /\ \A v \in Workers : stage'[v] # "idle" => alert'[v] \in Alerts
      /\ number' \in [Workers -> Nat]
      /\ seen' \in [Workers -> Nat]
  <2>1. EndRun(w)
    BY DEF Complete, Retry
  <2>2. stage' \in [Workers -> Stages] /\ alert' \in [Workers -> Alerts \cup {None}]
    BY <2>1 DEF TypeOK, EndRun, Stages
  <2>3. \A v \in Workers : stage'[v] # "idle" => alert'[v] \in Alerts
    BY <2>1 DEF TypeOK, EndRun
  <2>4. number' \in [Workers -> Nat] /\ seen' \in [Workers -> Nat]
    BY <2>1 DEF TypeOK, EndRun
  <2> QED
    BY <2>2, <2>3, <2>4
<1> QED
  BY <1>2, <1>3, <1>4 DEF TypeOK, history

LEMMA TypeStep == TypeOK /\ [Next]_vars => TypeOK'
<1> SUFFICES ASSUME TypeOK, [Next]_vars PROVE TypeOK'
  OBVIOUS
<1> USE DEF row, jobs, runs, history
<1>1. ASSUME NEW a \in Alerts, CreateAlert(a) PROVE TypeOK'
  BY <1>1 DEF CreateAlert, TypeOK
<1>2. ASSUME NEW a \in Alerts, SelectPending(a) PROVE TypeOK'
  BY <1>2 DEF SelectPending, TypeOK
<1>3. ASSUME NEW a \in Alerts, EnqueueAlert(a) PROVE TypeOK'
  BY <1>3 DEF EnqueueAlert, JobIdFree, TypeOK
<1>4. ASSUME NEW a \in Alerts, LoseEnqueue(a) PROVE TypeOK'
  BY <1>4 DEF LoseEnqueue, TypeOK
<1>5. ASSUME NEW a \in Alerts, DeleteAlert(a) PROVE TypeOK'
  BY <1>5 DEF DeleteAlert, TypeOK
<1>6. ASSUME NEW a \in Alerts, Stalled(a), fault' \in [Alerts -> BOOLEAN] PROVE TypeOK'
  BY <1>6 DEF Stalled, TypeOK
<1>7. ASSUME NEW a \in Alerts, TrimJob(a) PROVE TypeOK'
  BY <1>7 DEF TrimJob, TypeOK
<1>8. ASSUME NEW w \in Workers, NEW a \in Alerts, TakeJob(w, a) PROVE TypeOK'
  <2>1. /\ queue' \in [Alerts -> {"absent", "waiting", "active", "kept"}]
        /\ holder' \in [Alerts -> Workers \cup {None}]
        /\ \A b \in Alerts : queue'[b] # "active" => holder'[b] = None
    BY <1>8 DEF TakeJob, TypeOK
  <2> QED
    BY <1>8, <2>1 DEF TakeJob, TypeOK, Stages
<1>9. ASSUME NEW w \in Workers, FetchAlert(w) PROVE TypeOK'
  <2>1. CASE Complete(w)
    BY <1>9, <2>1, HandBackTyped DEF FetchAlert, TypeOK
  <2>2. CASE ~Complete(w)
    BY <1>9, <2>2, RunTyped DEF FetchAlert, TypeOK, Stages
  <2> QED
    BY <2>1, <2>2
<1>10. ASSUME NEW w \in Workers, FailJob(w) PROVE TypeOK'
  BY <1>10, HandBackTyped DEF FailJob, TypeOK
<1>11. ASSUME NEW w \in Workers, GiveUp(w) PROVE TypeOK'
  BY <1>11, HandBackTyped DEF GiveUp, TypeOK
<1>12. ASSUME NEW w \in Workers, ClaimAlert(w) PROVE TypeOK'
  BY <1>12, RunTyped DEF ClaimAlert, TypeOK, Stages
<1>13. ASSUME NEW w \in Workers, LoseClaim(w) PROVE TypeOK'
  BY <1>13, HandBackTyped DEF LoseClaim, TypeOK
<1>14. ASSUME NEW w \in Workers, Deliver(w) PROVE TypeOK'
  <2>1. /\ stage' \in [Workers -> Stages]
        /\ \A v \in Workers : stage'[v] # "idle" => stage[v] # "idle"
    BY <1>14 DEF Deliver, TypeOK, Stages
  <2>2. delivered' \in [Alerts -> Nat]
    BY <1>14 DEF Deliver, TypeOK
  <2>3. fault' \in [Alerts -> BOOLEAN]
    BY <1>14 DEF Deliver, TypeOK
  <2> QED
    BY <1>14, <2>1, <2>2, <2>3 DEF Deliver, TypeOK
<1>15. ASSUME NEW w \in Workers, MarkSent(w) PROVE TypeOK'
  BY <1>15, HandBackTyped DEF MarkSent, TypeOK
<1>16. ASSUME NEW w \in Workers, FailMark(w) PROVE TypeOK'
  BY <1>16, RunTyped DEF FailMark, TypeOK, Stages
<1>17. ASSUME NEW w \in Workers, RecordFailure(w) PROVE TypeOK'
  BY <1>17, HandBackTyped DEF RecordFailure, TypeOK
<1>18. ASSUME NEW w \in Workers, Crash(w) PROVE TypeOK'
  BY <1>18, RunTyped DEF Crash, EndRun, TypeOK, Stages
<1>19. ASSUME FlushQueue PROVE TypeOK'
  BY <1>19 DEF FlushQueue, TypeOK
<1>20. CASE UNCHANGED vars
  BY <1>20 DEF vars, TypeOK
<1>21. ASSUME NEW a \in Alerts, ExpireLock(a) \/ LoseLock(a) PROVE TypeOK'
  <2>1. fault' \in [Alerts -> BOOLEAN]
    BY <1>21 DEF ExpireLock, LoseLock, TypeOK
  <2> QED
    BY <1>6, <1>21, <2>1 DEF ExpireLock, LoseLock
<1> QED
  BY <1>1, <1>2, <1>3, <1>4, <1>5, <1>7, <1>8, <1>9, <1>10, <1>11, <1>12, <1>13,
     <1>14, <1>15, <1>16, <1>17, <1>18, <1>19, <1>20, <1>21, NextActions

\* Every row, job and worker of the delivery keeps its type.
THEOREM TypeCorrect == Spec => []TypeOK
  BY TypeInit, TypeStep, PTL DEF Spec

-----------------------------------------------------------------------------
(* Counting attempts and sends.                                            *)

Counting == AttemptsCountSends /\ OneSenderPerAttempt

LEMMA CountingInit == Init => Counting
  BY DEF Init, Counting, AttemptsCountSends, OneSenderPerAttempt, InDelivery

\* A step that sends nothing and starts no delivery.
LEMMA CountingFrame ==
  ASSUME TypeOK, Counting, UNCHANGED <<attempts, sends>>,
         \A v \in Workers :
           \/ stage'[v] \in {"idle", "fetching", "givingUp"}
           \/ /\ alert'[v] = alert[v] /\ seen'[v] = seen[v]
              /\ \/ stage'[v] = stage[v]
                 \/ InDelivery(v) /\ stage'[v] \in {"sending", "accepted", "refused"}
  PROVE  Counting'
<1>1. AttemptsCountSends'
  BY DEF Counting, AttemptsCountSends, InDelivery
<1>2. OneSenderPerAttempt'
  BY DEF Counting, OneSenderPerAttempt, InDelivery
<1> QED
  BY <1>1, <1>2 DEF Counting

LEMMA CountingStep == TypeOK /\ Counting /\ [Next]_vars => Counting'
<1> SUFFICES ASSUME TypeOK, Counting, [Next]_vars PROVE Counting'
  OBVIOUS
<1> USE DEF row, jobs, runs, history
<1>1. ASSUME UNCHANGED <<attempts, sends, runs>> PROVE Counting'
  BY <1>1, CountingFrame
<1>2. ASSUME NEW w \in Workers, Complete(w) \/ Retry(w), UNCHANGED <<attempts, sends>>
      PROVE  Counting'
  BY <1>2, CountingFrame DEF Complete, Retry, EndRun, TypeOK
<1>3. ASSUME NEW w \in Workers, NEW a \in Alerts, TakeJob(w, a) PROVE Counting'
  BY <1>3, CountingFrame DEF TakeJob, TypeOK
<1>4. ASSUME NEW w \in Workers, FetchAlert(w) PROVE Counting'
  <2>1. CASE Complete(w)
    BY <1>2, <1>4, <2>1 DEF FetchAlert
  <2>2. CASE ~Complete(w)
    <3>1. alert[w] \in Alerts /\ attempts[alert[w]] \in Nat /\ number[w] \in Nat
      BY <1>4, RunTyped DEF FetchAlert, TypeOK
    <3>2. /\ stage'[w] \in {"givingUp", "claiming"}
          /\ stage'[w] = "claiming" => EffectiveAttempt(w, attempts[alert[w]]) <= MaxAttempts
          /\ seen'[w] = attempts[alert[w]]
          /\ \A v \in Workers \ {w} : stage'[v] = stage[v] /\ seen'[v] = seen[v]
          /\ UNCHANGED <<attempts, sends, alert>>
      BY <1>4, <2>2, <3>1 DEF FetchAlert, EffectiveAttempt, TypeOK
    <3>3. stage'[w] = "claiming" => seen'[w] < MaxAttempts
      BY <3>1, <3>2 DEF EffectiveAttempt
    <3>4. AttemptsCountSends'
      BY <3>2, <3>3 DEF Counting, AttemptsCountSends, InDelivery
    <3>5. OneSenderPerAttempt'
      BY <3>2 DEF Counting, OneSenderPerAttempt
    <3> QED
      BY <3>4, <3>5 DEF Counting
  <2> QED
    BY <2>1, <2>2
<1>5. ASSUME NEW w \in Workers, ClaimAlert(w) PROVE Counting'
  <2> DEFINE a == alert[w]
  <2>1. /\ a \in Alerts /\ attempts[a] = seen[w] /\ seen[w] < MaxAttempts
        /\ attempts[a] \in Nat /\ sends[a] = attempts[a]
    BY <1>5, RunTyped DEF ClaimAlert, RowMatches, TypeOK, Counting, AttemptsCountSends
  <2>2. /\ attempts' = [attempts EXCEPT ![a] = seen[w] + 1]
        /\ sends' = [sends EXCEPT ![a] = @ + 1]
        /\ stage' = [stage EXCEPT ![w] = "sending"]
        /\ UNCHANGED <<alert, seen>>
    BY <1>5 DEF ClaimAlert
  <2>3. \A b \in Alerts : sends'[b] = attempts'[b] /\ attempts'[b] <= MaxAttempts
    BY <2>1, <2>2 DEF TypeOK, Counting, AttemptsCountSends
  <2>4. \A v \in Workers : InDelivery(v)' =>
          IF v = w THEN alert[v] = a /\ seen[v] < attempts'[a] ELSE InDelivery(v)
    BY <2>1, <2>2 DEF InDelivery, TypeOK
  <2>5. \A v \in Workers : InDelivery(v) =>
          /\ alert[v] \in Alerts /\ seen[v] < attempts[alert[v]]
          /\ alert[v] = a => seen[v] < seen[w]
    BY <2>1, RunTyped DEF InDelivery, Counting, AttemptsCountSends
  <2>6. \A v \in Workers : InDelivery(v) => seen[v] < attempts'[alert[v]]
    BY <2>1, <2>2, <2>5 DEF TypeOK
  <2>7. AttemptsCountSends'
    <3>1. \A v \in Workers : stage'[v] = "claiming" => seen'[v] < MaxAttempts
      BY <2>2 DEF TypeOK, Counting, AttemptsCountSends
    <3>2. \A v \in Workers : InDelivery(v)' => seen'[v] < attempts'[alert'[v]]
      BY <2>2, <2>4, <2>6
    <3> QED
      BY <2>3, <3>1, <3>2 DEF AttemptsCountSends
  <2>8. OneSenderPerAttempt'
    <3> SUFFICES ASSUME NEW u \in Workers, NEW v \in Workers,
                        InDelivery(u)', InDelivery(v)',
                        alert[u] = alert[v], seen[u] = seen[v]
                 PROVE  u = v
      BY <2>2 DEF OneSenderPerAttempt, InDelivery
    <3>1. u # w /\ v # w => u = v
      BY <2>4 DEF Counting, OneSenderPerAttempt, InDelivery
    <3>2. u = w /\ v # w => FALSE
      BY <2>1, <2>4, <2>5, RunTyped DEF InDelivery, TypeOK
    <3>3. v = w /\ u # w => FALSE
      BY <2>1, <2>4, <2>5, RunTyped DEF InDelivery, TypeOK
    <3> QED
      BY <3>1, <3>2, <3>3
  <2> QED
    BY <2>7, <2>8 DEF Counting
<1>6. ASSUME NEW w \in Workers, Deliver(w) \/ FailMark(w) PROVE Counting'
  BY <1>6, CountingFrame DEF Deliver, FailMark, InDelivery, TypeOK
<1>7. ASSUME NEW w \in Workers, Crash(w) PROVE Counting'
  BY <1>7, CountingFrame DEF Crash, EndRun, TypeOK
<1>8. ASSUME NEW w \in Workers,
             FailJob(w) \/ GiveUp(w) \/ LoseClaim(w) \/ MarkSent(w) \/ RecordFailure(w)
      PROVE  Counting'
  BY <1>2, <1>8 DEF FailJob, GiveUp, LoseClaim, MarkSent, RecordFailure
<1>9. ASSUME NEW a \in Alerts,
             \/ CreateAlert(a) \/ SelectPending(a) \/ EnqueueAlert(a) \/ LoseEnqueue(a)
             \/ DeleteAlert(a) \/ ExpireLock(a) \/ LoseLock(a) \/ TrimJob(a)
      PROVE  UNCHANGED <<attempts, sends, runs>>
  BY <1>9 DEF CreateAlert, SelectPending, EnqueueAlert, LoseEnqueue, DeleteAlert,
              ExpireLock, LoseLock, Stalled, TrimJob
<1>10. ASSUME FlushQueue PROVE UNCHANGED <<attempts, sends, runs>>
  BY <1>10 DEF FlushQueue
<1>11. CASE UNCHANGED vars
  BY <1>1, <1>11 DEF vars
<1> QED
  BY <1>1, <1>3, <1>4, <1>5, <1>6, <1>7, <1>8, <1>9, <1>10, <1>11, NextActions

LEMMA CountingCorrect == Spec => []Counting
<1>1. Init => TypeOK /\ Counting
  BY TypeInit, CountingInit
<1>2. TypeOK /\ Counting /\ [Next]_vars => (TypeOK /\ Counting)'
  BY TypeStep, CountingStep
<1> QED
  BY <1>1, <1>2, PTL DEF Spec

\* However often the job of an alert is recreated, redelivered or lost, at
\* most MaxAttempts SMTP transactions are begun for its row.
THEOREM SendsAreBounded == Spec => []BudgetBoundsSends
<1>1. Counting => BudgetBoundsSends
  BY DEF Counting, AttemptsCountSends, BudgetBoundsSends
<1> QED
  BY <1>1, CountingCorrect, PTL

\* No two workers ever deliver on the same attempt of the same alert.
THEOREM AttemptsAreOwned == Spec => []OneSenderPerAttempt
<1>1. Counting => OneSenderPerAttempt
  BY DEF Counting
<1> QED
  BY <1>1, CountingCorrect, PTL

-----------------------------------------------------------------------------
(* Copies.                                                                 *)

Clean == \A a \in Alerts : ~fault[a] => CleanDelivery(a)

LEMMA CleanInit == Init => Clean
  BY DEF Init, Clean, CleanDelivery, Runs

LEMMA FaultStays ==
  ASSUME TypeOK, [Next]_vars, NEW a \in Alerts, fault[a]
  PROVE  fault'[a]
<1> USE DEF history, TypeOK
<1>1. ASSUME NEW b \in Alerts, ExpireLock(b) \/ LoseLock(b) PROVE fault'[a]
  BY <1>1 DEF ExpireLock, LoseLock
<1>2. ASSUME NEW w \in Workers, Deliver(w) PROVE fault'[a]
  BY <1>2 DEF Deliver
<1>3. ASSUME NEW w \in Workers, FailMark(w) PROVE fault'[a]
  BY <1>3 DEF FailMark
<1>4. ASSUME NEW w \in Workers, Crash(w) PROVE fault'[a]
  BY <1>4 DEF Crash
<1>5. ASSUME FlushQueue PROVE fault'[a]
  BY <1>5 DEF FlushQueue
<1>6. ASSUME NEW w \in Workers,
             \/ \E b \in Alerts : TakeJob(w, b)
             \/ FetchAlert(w) \/ FailJob(w) \/ GiveUp(w) \/ ClaimAlert(w)
             \/ LoseClaim(w) \/ MarkSent(w) \/ RecordFailure(w)
      PROVE  fault'[a]
  BY <1>6 DEF TakeJob, FetchAlert, FailJob, GiveUp, ClaimAlert, LoseClaim, MarkSent, RecordFailure
<1>7. ASSUME NEW b \in Alerts,
             \/ CreateAlert(b) \/ SelectPending(b) \/ EnqueueAlert(b) \/ LoseEnqueue(b)
             \/ DeleteAlert(b) \/ TrimJob(b)
      PROVE  fault'[a]
  BY <1>7 DEF CreateAlert, SelectPending, EnqueueAlert, LoseEnqueue, DeleteAlert, TrimJob
<1>8. CASE UNCHANGED vars
  BY <1>8 DEF vars
<1> QED
  BY <1>1, <1>2, <1>3, <1>4, <1>5, <1>6, <1>7, <1>8, NextActions

\* A run that ends leaves a clean alert with nobody running it.
LEMMA CleanHandBack ==
  ASSUME TypeOK, NEW a \in Alerts, CleanDelivery(a), NEW w \in Workers, stage[w] # "idle",
         Complete(w) \/ Retry(w), UNCHANGED delivered,
         alert[w] = a => (delivered[a] = 1 => status'[a] \in {"SENT", "gone"}),
         alert[w] # a => status'[a] = status[a]
  PROVE  CleanDelivery(a)'
<1>1. /\ \A v \in Workers : Runs(v, a)' => v # w /\ Runs(v, a)
      /\ \A v \in Workers \ {w} : stage'[v] = stage[v] /\ alert'[v] = alert[v]
  BY DEF Runs, Complete, Retry, EndRun, TypeOK
<1>2. CASE alert[w] = a
  <2>1. \A v \in Workers : Runs(v, a) => v = w
    BY <1>2 DEF CleanDelivery, Runs
  <2>2. \A v \in Workers : ~Runs(v, a)'
    BY <1>1, <2>1
  <2> QED
    BY <1>2, <2>2 DEF CleanDelivery
<1>3. CASE alert[w] # a
  <2>1. queue'[a] = queue[a] /\ holder'[a] = holder[a] /\ status'[a] = status[a]
    BY <1>3, RunTyped DEF Complete, Retry, TypeOK
  <2>2. \A v \in Workers : Runs(v, a) => v # w /\ Runs(v, a)' /\ stage'[v] = stage[v]
    BY <1>1, <1>3 DEF Runs
  <2> QED
    BY <1>1, <2>1, <2>2 DEF CleanDelivery
<1> QED
  BY <1>2, <1>3

LEMMA CleanStep ==
  ASSUME TypeOK, [Next]_vars, NEW a \in Alerts, ~fault'[a], CleanDelivery(a)
  PROVE  CleanDelivery(a)'
<1> USE DEF row, jobs, runs, history
\* The delivery in hand, if any, is the only one and no copy precedes it.
<1>a. ASSUME NEW w \in Workers, Runs(w, a), stage[w] \in {"givingUp", "claiming", "refused"}
      PROVE  delivered[a] = 1 => status[a] = "gone"
  BY <1>a DEF CleanDelivery, Runs
<1>1. ASSUME NEW b \in Alerts, CreateAlert(b) PROVE CleanDelivery(a)'
  BY <1>1 DEF CreateAlert, CleanDelivery, Runs, TypeOK
<1>2. ASSUME NEW b \in Alerts, SelectPending(b) \/ LoseEnqueue(b) PROVE CleanDelivery(a)'
  BY <1>2 DEF SelectPending, LoseEnqueue, CleanDelivery, Runs
<1>3. ASSUME NEW b \in Alerts, EnqueueAlert(b) PROVE CleanDelivery(a)'
  BY <1>3 DEF EnqueueAlert, JobIdFree, CleanDelivery, Runs, TypeOK
<1>4. ASSUME NEW b \in Alerts, DeleteAlert(b) PROVE CleanDelivery(a)'
  BY <1>4 DEF DeleteAlert, CleanDelivery, Runs, TypeOK
<1>5. ASSUME NEW b \in Alerts, ExpireLock(b) PROVE CleanDelivery(a)'
  BY <1>5 DEF ExpireLock, Stalled, CleanDelivery, Runs, TypeOK
<1>6. ASSUME NEW b \in Alerts, LoseLock(b) PROVE CleanDelivery(a)'
  <2>1. b # a
    BY <1>6 DEF LoseLock, TypeOK
  <2> QED
    BY <1>6, <2>1 DEF LoseLock, Stalled, CleanDelivery, Runs, TypeOK
<1>7. ASSUME NEW b \in Alerts, TrimJob(b) PROVE CleanDelivery(a)'
  BY <1>7 DEF TrimJob, CleanDelivery, Runs, TypeOK
<1>8. ASSUME NEW w \in Workers, NEW b \in Alerts, TakeJob(w, b) PROVE CleanDelivery(a)'
  <2>1. \A v \in Workers : Runs(v, a)' =>
          \/ v = w /\ b = a /\ stage'[v] = "fetching"
          \/ v # w /\ b # a /\ Runs(v, a) /\ stage'[v] = stage[v]
    BY <1>8 DEF TakeJob, CleanDelivery, Runs, TypeOK
  <2>2. /\ b = a => queue'[a] = "active" /\ holder'[a] = w
        /\ b # a => queue'[a] = queue[a] /\ holder'[a] = holder[a]
    BY <1>8 DEF TakeJob, TypeOK
  <2>3. \A v \in Workers : Runs(v, a) => Runs(v, a)' /\ stage'[v] = stage[v]
    BY <1>8 DEF TakeJob, Runs, TypeOK
  <2> QED
    BY <1>8, <2>1, <2>2, <2>3 DEF TakeJob, CleanDelivery
<1>9. ASSUME NEW w \in Workers, FetchAlert(w) PROVE CleanDelivery(a)'
  <2>1. CASE Complete(w)
    <3>1. alert[w] = a => (delivered[a] = 1 => status'[a] \in {"SENT", "gone"})
      BY <1>9 DEF FetchAlert, CleanDelivery, Runs
    <3> QED
      BY <1>9, <2>1, <3>1, CleanHandBack DEF FetchAlert
  <2>2. CASE ~Complete(w)
    <3>1. /\ stage[w] = "fetching" /\ status[alert[w]] # "SENT"
          /\ stage'[w] \in {"givingUp", "claiming"}
          /\ \A v \in Workers \ {w} : stage'[v] = stage[v]
          /\ UNCHANGED <<status, queue, holder, alert, delivered>>
      BY <1>9, <2>2 DEF FetchAlert, TypeOK
    <3> QED
      BY <3>1 DEF CleanDelivery, Runs
  <2> QED
    BY <2>1, <2>2
<1>10. ASSUME NEW w \in Workers, FailJob(w) PROVE CleanDelivery(a)'
  <2>1. alert[w] = a => (delivered[a] = 1 => status'[a] \in {"SENT", "gone"})
    BY <1>10 DEF FailJob, CleanDelivery, Runs
  <2> QED
    BY <1>10, <2>1, CleanHandBack DEF FailJob
<1>11. ASSUME NEW w \in Workers, GiveUp(w) PROVE CleanDelivery(a)'
  <2>1. alert[w] = a => delivered[a] # 1
    BY <1>11, <1>a DEF GiveUp, Runs, Exists
  <2> QED
    BY <1>11, <2>1, CleanHandBack, RunTyped DEF GiveUp, TypeOK
<1>12. ASSUME NEW w \in Workers, ClaimAlert(w) PROVE CleanDelivery(a)'
  <2>1. alert[w] = a => delivered[a] = 0
    <3>1. alert[w] = a => delivered[a] # 1
      BY <1>12, <1>a DEF ClaimAlert, RowMatches, Runs
    <3> QED
      BY <3>1 DEF CleanDelivery, TypeOK
  <2>2. /\ stage[w] = "claiming" /\ stage' = [stage EXCEPT ![w] = "sending"]
        /\ status[alert[w]] = "PENDING"
        /\ UNCHANGED <<status, queue, holder, alert, delivered>>
    BY <1>12 DEF ClaimAlert, RowMatches
  <2> QED
    BY <2>1, <2>2 DEF CleanDelivery, Runs, TypeOK
<1>13. ASSUME NEW w \in Workers, LoseClaim(w) PROVE CleanDelivery(a)'
  <2>1. alert[w] = a => (delivered[a] = 1 => status'[a] \in {"SENT", "gone"})
    BY <1>13, <1>a DEF LoseClaim, Runs
  <2> QED
    BY <1>13, <2>1, CleanHandBack DEF LoseClaim
<1>14. ASSUME NEW w \in Workers, Deliver(w) PROVE CleanDelivery(a)'
  <2>1. alert[w] = a => /\ \A v \in Workers : Runs(v, a) => v = w
                        /\ delivered[a] = 0 /\ status[a] # "SENT"
    BY <1>14 DEF Deliver, CleanDelivery, Runs
  <2>2. /\ stage[w] = "sending" /\ \A v \in Workers \ {w} : stage'[v] = stage[v]
        /\ UNCHANGED <<status, queue, holder, alert>>
    BY <1>14 DEF Deliver, TypeOK
  <2>3. CASE alert[w] = a
    <3>1. \/ stage'[w] = "accepted" /\ delivered'[a] = 1
          \/ stage'[w] = "refused" /\ delivered'[a] = 0
      BY <1>14, <2>1, <2>3 DEF Deliver, TypeOK
    <3> QED
      BY <2>1, <2>2, <2>3, <3>1 DEF CleanDelivery, Runs
  <2>4. CASE alert[w] # a
    <3>1. delivered'[a] = delivered[a]
      BY <1>14, <2>4 DEF Deliver, TypeOK
    <3> QED
      BY <2>2, <2>4, <3>1 DEF CleanDelivery, Runs
  <2> QED
    BY <2>3, <2>4
<1>15. ASSUME NEW w \in Workers, MarkSent(w) PROVE CleanDelivery(a)'
  <2>1. /\ alert[w] = a => status'[a] = "SENT"
        /\ alert[w] # a => status'[a] = status[a]
    BY <1>15, RunTyped DEF MarkSent, TypeOK
  <2> QED
    BY <1>15, <2>1, CleanHandBack DEF MarkSent
<1>16. ASSUME NEW w \in Workers, FailMark(w) PROVE CleanDelivery(a)'
  <2>1. /\ stage[w] = "accepted" /\ stage' = [stage EXCEPT ![w] = "refused"]
        /\ UNCHANGED <<status, queue, holder, alert, delivered>>
    BY <1>16 DEF FailMark
  <2>2. alert[w] = a => status[a] = "gone"
    BY <1>16 DEF FailMark, TypeOK
  <2> QED
    BY <2>1, <2>2 DEF CleanDelivery, Runs, TypeOK
<1>17. ASSUME NEW w \in Workers, RecordFailure(w) PROVE CleanDelivery(a)'
  <2>1. alert[w] = a => delivered[a] # 1
    BY <1>17, <1>a DEF RecordFailure, Runs, Exists
  <2> QED
    BY <1>17, <2>1, CleanHandBack, RunTyped DEF RecordFailure, TypeOK
<1>18. ASSUME NEW w \in Workers, Crash(w) PROVE CleanDelivery(a)'
  <2>1. /\ stage[w] # "idle" /\ stage' = [stage EXCEPT ![w] = "idle"]
        /\ \A v \in Workers \ {w} : alert'[v] = alert[v]
        /\ UNCHANGED <<status, queue, holder, delivered>>
    BY <1>18 DEF Crash, EndRun, TypeOK
  <2>2. alert[w] = a => stage[w] # "accepted"
    BY <1>18 DEF Crash, TypeOK
  <2> QED
    BY <2>1, <2>2 DEF CleanDelivery, Runs, TypeOK
<1>19. ASSUME FlushQueue PROVE CleanDelivery(a)'
  BY <1>19 DEF FlushQueue, CleanDelivery, Runs
<1>20. CASE UNCHANGED vars
  BY <1>20 DEF vars, CleanDelivery, Runs
<1> QED
  BY <1>1, <1>2, <1>3, <1>4, <1>5, <1>6, <1>7, <1>8, <1>9, <1>10, <1>11, <1>12, <1>13,
     <1>14, <1>15, <1>16, <1>17, <1>18, <1>19, <1>20, NextActions

LEMMA CleanCorrect == Spec => []Clean
<1>1. TypeOK /\ Clean /\ [Next]_vars => Clean'
  BY FaultStays, CleanStep DEF Clean
<1>2. Init => TypeOK /\ Clean
  BY TypeInit, CleanInit
<1> QED
  BY <1>1, <1>2, TypeStep, PTL DEF Spec

\* As long as no worker dies or loses its lock in the middle of a delivery,
\* no SMTP failure is ambiguous and no write of SENT fails, an alert reaches
\* the mailbox at most once, whatever the queue and the outbox do.
THEOREM DuplicatesNeedFaults == Spec => []DuplicateNeedsFault
<1>1. TypeOK /\ Clean => DuplicateNeedsFault
  BY DEF TypeOK, Clean, CleanDelivery, DuplicateNeedsFault
<1> QED
  BY <1>1, TypeCorrect, CleanCorrect, PTL

\* The invariant that the runs check is inductive and holds.
THEOREM DeliveryCorrect == Spec => []DeliveryInvariant
<1>1. TypeOK /\ Counting /\ Clean => DeliveryInvariant
  BY DEF Counting, Clean, DeliveryInvariant
<1> QED
  BY <1>1, TypeCorrect, CountingCorrect, CleanCorrect, PTL
=============================================================================
