---------------------------- MODULE HistoryProofs ----------------------------
(***************************************************************************)
(* Proofs about CheckHistory and Screens: retention spares what is open,   *)
(* STALE stands for silence, no screen hides what is wrong and the screens *)
(* do not contradict each other, and the figures of one answer add up over *)
(* its buckets, its windows and its monitors.                              *)
(***************************************************************************)
EXTENDS Screens, FiniteSetTheorems, WellFoundedInduction, TLAPS

Times == Nat \union {Unset}

Rows == [state : {"PENDING", "UP", "DOWN"}, failures : Nat, failingSince : Times,
         lastCheckedAt : Times, paused : BOOLEAN, scheduled : BOOLEAN, resetAt : Nat]
CheckRows == [monitor : Tracked, slot : Slots, at : Nat, outcome : {"UP", "DOWN"}]
IncidentRows == [id : Nat, monitor : Tracked, startedAt : Nat, resolvedAt : Times]
Jobs == [pc : {"apply"}, monitor : Tracked, slot : Slots, at : Nat, outcome : {"UP", "DOWN"}]
EditRows == [pc : {"read", "closed"}, monitor : Tracked, patch : Patches, wasPaused : BOOLEAN,
             at : Times, closing : SUBSET IncidentRows]

-----------------------------------------------------------------------------
(* The invariant.                                                          *)

RowTypes       == row \in [Tracked -> Rows]
CheckTypes     == checks \subseteq CheckRows /\ IsFiniteSet(checks) /\ \A c \in checks : c.at <= time
IncidentTypes  == incidents \subseteq IncidentRows /\ IsFiniteSet(incidents)
CleanupTypes   == \/ cleanup = Idle
                  \/ cleanup.pc = "incidents" /\ cleanup.now \in Nat /\ cleanup.now <= time
EditTypes      == edit \in [Clients -> EditRows \union {Idle}] /\ left \subseteq Tracked

\* A result is applied within Flight of its measurement, or never.
ResultsAreYoung ==
  /\ job \in [Workers -> Jobs \union {Idle}]
  /\ \A w \in Workers : job[w] # Idle => job[w].at <= time /\ time <= job[w].at + Flight

\* No two incidents have one id.
IdsAreUnique == \A i, k \in incidents : i.id = k.id => i = k

\* An edit holds incidents of its monitor that are open, and will reset the monitor.
HeldAreOpen(c) ==
  edit[c] # Idle =>
     /\ \A i \in edit[c].closing :
           i \in incidents /\ i.resolvedAt = Unset /\ i.monitor = edit[c].monitor
     /\ edit[c].pc = "closed" => edit[c].at \in Nat
     /\ edit[c].closing # {} => Closes(edit[c])

\* No two edits hold one incident.
HeldByOne ==
  \A c, d \in Clients :
     c # d /\ edit[c] # Idle /\ edit[d] # Idle => edit[c].closing \intersect edit[d].closing = {}

EditsHold == EditTypes /\ HeldByOne /\ \A c \in Clients : HeldAreOpen(c)

\* A monitor that is DOWN is so by an incident that is open, and by one only; what is
\* open is of a monitor that is DOWN and active, or that an edit reset or paused without
\* closing it, and never of one that is UP.
OpenIsDown ==
  /\ \A i \in incidents : i.resolvedAt = Unset =>
        /\ row[i.monitor].state = "DOWN" \/ i.monitor \in left
        /\ row[i.monitor].state # "UP"
        /\ row[i.monitor].paused => i.monitor \in left
  /\ \A m \in Tracked : row[m].state = "DOWN" => \E i \in incidents : i.monitor = m /\ i.resolvedAt = Unset
  /\ \A i, k \in incidents :
        i.resolvedAt = Unset /\ k.resolvedAt = Unset /\ i.monitor = k.monitor => i = k

\* What a row says of monitor m stands on the checks that are kept: the last one is
\* there, unless retention took it, with the outcome the failures tell, and no other
\* one is much younger.
RowIsFounded(m) ==
  LET r == row[m]
      last == r.lastCheckedAt
      kept(succeeded) == \E c \in checks : /\ c.monitor = m /\ c.at = last
                                           /\ succeeded => c.outcome = "UP"
  IN  /\ last = Unset => r.state = "PENDING" /\ r.failures = 0
      /\ r.state = "PENDING" /\ r.failures = 0 => last = Unset
      /\ last # Unset =>
            /\ last <= time
            /\ kept(FALSE) \/ last < time - CheckRetention
            /\ r.failures = 0 => kept(TRUE) \/ last < time - CheckRetention
            /\ \A c \in checks : c.monitor = m => c.at <= last + Flight

HistoryInvariant ==
  /\ time \in Nat /\ RowTypes /\ CheckTypes /\ IncidentTypes /\ CleanupTypes
  /\ ResultsAreYoung /\ IdsAreUnique /\ OpenIsDown /\ EditsHold
  /\ \A m \in Tracked : RowIsFounded(m)

LEMMA HistoryStarts == ChInit => HistoryInvariant
<1> SUFFICES ASSUME ChInit PROVE HistoryInvariant
  OBVIOUS
<1>1. /\ time = 0 /\ row = [m \in Tracked |-> FreshRow] /\ checks = {} /\ incidents = {}
      /\ job = [w \in Workers |-> Idle] /\ cleanup = Idle
      /\ edit = [c \in Clients |-> Idle] /\ left = {}
  BY DEF ChInit
<1>2. FreshRow \in Rows /\ FreshRow.lastCheckedAt = Unset /\ FreshRow.state = "PENDING"
      /\ FreshRow.failures = 0
  BY DEF FreshRow, Fresh, Rows, Times
<1>3. IsFiniteSet({})
  BY FS_EmptySet
<1>4. RowTypes /\ CheckTypes /\ IncidentTypes /\ CleanupTypes /\ ResultsAreYoung /\ IdsAreUnique
  BY <1>1, <1>2, <1>3 DEF RowTypes, CheckTypes, IncidentTypes, CleanupTypes, ResultsAreYoung, IdsAreUnique
<1>5. OpenIsDown
  BY <1>1, <1>2 DEF OpenIsDown
<1>6. \A m \in Tracked : RowIsFounded(m)
  BY <1>1, <1>2 DEF RowIsFounded
<1>7. EditsHold
  BY <1>1 DEF EditsHold, EditTypes, HeldByOne, HeldAreOpen
<1> QED BY <1>1, <1>4, <1>5, <1>6, <1>7 DEF HistoryInvariant

-----------------------------------------------------------------------------
(* Rows.                                                                   *)

LEMMA FreshIs ==
  ASSUME NEW paused \in BOOLEAN, NEW scheduled \in BOOLEAN, NEW at \in Nat
  PROVE  LET r == Fresh(paused, scheduled, at)
         IN  /\ r \in Rows /\ r.state = "PENDING" /\ r.failures = 0
             /\ r.lastCheckedAt = Unset /\ r.paused = paused
  BY DEF Fresh, Rows, Times

LEMMA ToldIs ==
  ASSUME NEW r \in Rows, NEW j \in Jobs, NEW state \in {"PENDING", "UP", "DOWN"},
         NEW failures \in Nat, NEW since \in Times, NEW t, t = Told(r, j, state, failures, since)
  PROVE  /\ t \in Rows /\ t.state = state /\ t.failures = failures
         /\ t.lastCheckedAt = j.at /\ t.paused = r.paused
<1>1. r.paused \in BOOLEAN /\ r.scheduled \in BOOLEAN /\ r.resetAt \in Nat /\ j.at \in Nat
  BY DEF Rows, Jobs
<1> QED BY <1>1 DEF Told, LastCheckedAt, Rows, Times

LEMMA ClosedIs ==
  ASSUME NEW i \in IncidentRows, NEW at \in Nat
  PROVE  LET k == [i EXCEPT !.resolvedAt = at]
         IN  /\ k \in IncidentRows /\ k.id = i.id /\ k.monitor = i.monitor
             /\ k.startedAt = i.startedAt /\ k.resolvedAt = at /\ k.resolvedAt # Unset
  BY DEF IncidentRows, Times, Unset

\* Among finite sets, some that have a property no smaller one has.
LEMMA SmallestSet ==
  ASSUME NEW T, IsFiniteSet(T), NEW bad \in SUBSET (SUBSET T), bad # {}
  PROVE  \E s \in bad : \A u \in SUBSET s : u # s => u \notin bad
<1>1. \A s \in SUBSET T : IsFiniteSet(s)
  BY FS_Subset
<1>2. bad \subseteq FiniteSubsetsOf(T)
  BY <1>1 DEF FiniteSubsetsOf
<1>3. IsWellFoundedOn(StrictSubsetOrdering(T), FiniteSubsetsOf(T))
  BY FS_StrictSubsetOrderingWellFounded
<1>4. \E s \in bad : \A u \in bad : ~(<<u, s>> \in StrictSubsetOrdering(T))
  BY <1>2, <1>3, WFMin, Zenon
<1>5. PICK s \in bad : \A u \in bad : ~(<<u, s>> \in StrictSubsetOrdering(T))
  BY <1>4
<1>6. ASSUME NEW u \in SUBSET s, u # s, u \in bad
      PROVE  FALSE
  <2>1. u \in SUBSET T /\ s \in SUBSET T
    OBVIOUS
  <2>2. <<u, s>> \in StrictSubsetOrdering(T)
    BY <1>6, <2>1 DEF StrictSubsetOrdering
  <2> QED BY <1>5, <1>6, <2>2
<1> QED BY <1>6

\* Of finitely many incidents one has the largest id.
LEMMA LargestId ==
  ASSUME NEW S \in SUBSET IncidentRows, IsFiniteSet(S), S # {}
  PROVE  \E i \in S : \A k \in S : k.id <= i.id
<1> DEFINE above(i) == { k \in S : k.id > i.id }
           T == { above(i) : i \in S }
<1>1. \E x \in T : \A y \in SUBSET x : y # x => y \notin T
  <2>1. T \in SUBSET (SUBSET S) /\ T # {}
    OBVIOUS
  <2> HIDE DEF T
  <2> QED BY <2>1, SmallestSet
<1>2. PICK i \in S : \A y \in SUBSET above(i) : y # above(i) => y \notin T
  BY <1>1
<1>3. ASSUME NEW k \in S, ~(k.id <= i.id)
      PROVE  FALSE
  <2>1. \A x \in S : x.id \in Nat
    BY DEF IncidentRows
  <2>2. k \in above(i) /\ k \notin above(k) /\ above(k) \in SUBSET above(i)
    BY <1>3, <2>1
  <2>3. above(k) \in T
    OBVIOUS
  <2> HIDE DEF above, T
  <2> QED BY <1>2, <2>2, <2>3
<1> QED BY <1>3

LEMMA NextIdIsFresh ==
  ASSUME IncidentTypes
  PROVE  NextId \in Nat /\ \A i \in incidents : i.id # NextId
<1>1. CASE incidents = {}
  BY <1>1 DEF NextId
<1>2. CASE incidents # {}
  <2> DEFINE ids == { i.id : i \in incidents }
  <2>1. PICK i \in incidents : \A k \in incidents : k.id <= i.id
    BY <1>2, LargestId DEF IncidentTypes
  <2>2. ids \subseteq Nat /\ i.id \in ids
    BY DEF IncidentTypes, IncidentRows
  <2>3. i.id \in ids /\ \A y \in ids : i.id >= y
    BY <2>1, <2>2
  <2>4. Max(ids) \in ids /\ \A y \in ids : Max(ids) >= y
    <3> HIDE DEF ids
    <3> QED BY <2>3 DEF Max
  <2>5. NextId = Max(ids) + 1
    BY <1>2 DEF NextId
  <2>6. \A k \in incidents : k.id \in ids
    OBVIOUS
  <2> HIDE DEF ids
  <2>7. \A k \in incidents : k.id \in Nat /\ Max(ids) >= k.id
    BY <2>2, <2>4, <2>6
  <2>8. Max(ids) \in Nat
    BY <2>2, <2>4
  <2>9. \A k \in incidents : k.id # Max(ids) + 1
    BY <2>7, <2>8
  <2> QED BY <2>5, <2>8, <2>9
<1> QED BY <1>1, <1>2

-----------------------------------------------------------------------------
(* Steps that touch the rows of a single monitor, or none.                 *)

\* The rows of the other monitors, whose checks nobody adds to, stay founded.
LEMMA OthersStayFounded ==
  ASSUME HistoryInvariant, NEW n \in Tracked, time' \in Nat, time <= time',
         row'[n].state = row[n].state, row'[n].failures = row[n].failures,
         row'[n].lastCheckedAt = row[n].lastCheckedAt,
         \A c \in checks' : c.monitor = n => c \in checks,
         \A c \in checks : c.monitor = n => c \in checks' \/ c.at < time - CheckRetention
  PROVE  RowIsFounded(n)'
<1> DEFINE r == row[n]
           last == r.lastCheckedAt
<1>1. /\ RowIsFounded(n) /\ time \in Nat /\ r \in Rows
      /\ \A c \in checks : c.at \in Nat
  BY DEF HistoryInvariant, RowTypes, CheckTypes, CheckRows
<1>2. last \in Nat \union {Unset} /\ CheckRetention \in Nat
  BY <1>1, HistoryAssumption DEF Rows, Times
<1>3. ASSUME last # Unset
      PROVE  /\ last <= time'
             /\ (\E c \in checks' : c.monitor = n /\ c.at = last) \/ last < time' - CheckRetention
             /\ r.failures = 0 => (\E c \in checks' : c.monitor = n /\ c.at = last /\ c.outcome = "UP")
                                  \/ last < time' - CheckRetention
             /\ \A c \in checks' : c.monitor = n => c.at <= last + Flight
  <2>1. /\ last <= time
        /\ (\E c \in checks : c.monitor = n /\ c.at = last) \/ last < time - CheckRetention
        /\ r.failures = 0 => (\E c \in checks : c.monitor = n /\ c.at = last /\ c.outcome = "UP")
                             \/ last < time - CheckRetention
        /\ \A c \in checks : c.monitor = n => c.at <= last + Flight
    BY <1>1, <1>3 DEF RowIsFounded
  <2>2. last \in Nat
    BY <1>2, <1>3
  <2>3. last < time - CheckRetention => last < time' - CheckRetention
    BY <1>1, <1>2, <2>2
  <2>4. (\E c \in checks' : c.monitor = n /\ c.at = last) \/ last < time' - CheckRetention
    BY <2>1, <2>3
  <2>5. r.failures = 0 => (\E c \in checks' : c.monitor = n /\ c.at = last /\ c.outcome = "UP")
                          \/ last < time' - CheckRetention
    BY <2>1, <2>3
  <2> QED BY <1>1, <2>1, <2>2, <2>4, <2>5
<1>4. /\ last = Unset => r.state = "PENDING" /\ r.failures = 0
      /\ r.state = "PENDING" /\ r.failures = 0 => last = Unset
  BY <1>1 DEF RowIsFounded
<1> QED BY <1>3, <1>4 DEF RowIsFounded

\* What the edits hold they still hold after a step that is of none of them and closes
\* nothing of theirs.
LEMMA HeldStay ==
  ASSUME HistoryInvariant, edit' = edit, left' \subseteq Tracked,
         \A i \in incidents : i.resolvedAt = Unset /\ i \in Held => i \in incidents'
  PROVE  EditsHold'
<1>1. EditTypes /\ HeldByOne /\ \A c \in Clients : HeldAreOpen(c)
  BY DEF HistoryInvariant, EditsHold
<1>2. EditTypes' /\ HeldByOne'
  BY <1>1 DEF EditTypes, HeldByOne
<1>3. ASSUME NEW c \in Clients
      PROVE  HeldAreOpen(c)'
  <2>1. ASSUME edit[c] # Idle, NEW i \in edit[c].closing
        PROVE  i \in incidents'
    <3>1. i \in incidents /\ i.resolvedAt = Unset
      BY <1>1, <2>1 DEF HeldAreOpen
    <3>2. i \in Held
      BY <2>1 DEF Held
    <3> QED BY <3>1, <3>2
  <2> QED BY <1>1, <2>1 DEF HeldAreOpen, Closes, Pausing
<1> QED BY <1>2, <1>3 DEF EditsHold

\* Steps that leave the rows, the incidents and the checks alone.
LEMMA NothingWritten ==
  ASSUME HistoryInvariant, UNCHANGED <<row, checks, incidents, left>>, time' \in Nat, time <= time',
         CleanupTypes', ResultsAreYoung', EditsHold'
  PROVE  HistoryInvariant'
<1>1. \A n \in Tracked : RowIsFounded(n)'
  BY OthersStayFounded
<1>2. CheckTypes'
  BY DEF HistoryInvariant, CheckTypes, CheckRows
<1> QED BY <1>1, <1>2 DEF HistoryInvariant, RowTypes, IncidentTypes, IdsAreUnique, OpenIsDown

LEMMA MeasureSteps ==
  ASSUME HistoryInvariant, NEW w \in Workers, NEW m \in Tracked, NEW s \in Slots,
         NEW o \in {"UP", "DOWN"}, Measure(w, m, s, o)
  PROVE  HistoryInvariant'
<1> DEFINE j == [pc |-> "apply", monitor |-> m, slot |-> s, at |-> time, outcome |-> o]
<1>1. time \in Nat /\ job' = [job EXCEPT ![w] = j] /\ UNCHANGED <<time, row, checks, incidents, cleanup, edit, left>>
  BY DEF Measure, HistoryInvariant, editVars
<1>2. j \in Jobs /\ j.at = time
  BY <1>1 DEF Jobs
<1>3. Flight \in Nat
  BY HistoryAssumption
<1> HIDE DEF j
<1>4. ResultsAreYoung'
  BY <1>1, <1>2, <1>3 DEF HistoryInvariant, ResultsAreYoung
<1>5. CleanupTypes'
  BY <1>1 DEF HistoryInvariant, CleanupTypes
<1>6. EditsHold'
  BY <1>1, HeldStay DEF HistoryInvariant, EditsHold, EditTypes
<1> QED BY <1>1, <1>4, <1>5, <1>6, NothingWritten

LEMMA DiscardSteps ==
  ASSUME HistoryInvariant, NEW w \in Workers, Discard(w)
  PROVE  HistoryInvariant'
<1>1. job' = [job EXCEPT ![w] = Idle] /\ UNCHANGED <<time, row, checks, incidents, cleanup, edit, left>> /\ time \in Nat
  BY DEF Discard, HistoryInvariant, editVars
<1>2. ResultsAreYoung'
  BY <1>1 DEF HistoryInvariant, ResultsAreYoung
<1>3. CleanupTypes'
  BY <1>1 DEF HistoryInvariant, CleanupTypes
<1>4. EditsHold'
  BY <1>1, HeldStay DEF HistoryInvariant, EditsHold, EditTypes
<1> QED BY <1>1, <1>2, <1>3, <1>4, NothingWritten

LEMMA TimeSteps ==
  ASSUME HistoryInvariant, TimePasses
  PROVE  HistoryInvariant'
<1>1. /\ time \in Nat /\ time' = time + 1 /\ UNCHANGED <<row, checks, incidents, job, cleanup, edit, left>>
      /\ \A w \in Workers : job[w] # Idle => time < job[w].at + Flight
  BY DEF TimePasses, HistoryInvariant, editVars
<1>2. ResultsAreYoung'
  <2>1. \A w \in Workers : job[w] # Idle => job[w].at \in Nat
    BY DEF HistoryInvariant, ResultsAreYoung, Jobs
  <2> QED BY <1>1, <2>1, HistoryAssumption DEF HistoryInvariant, ResultsAreYoung
<1>3. CleanupTypes'
  BY <1>1 DEF HistoryInvariant, CleanupTypes
<1>4. EditsHold'
  BY <1>1, HeldStay DEF HistoryInvariant, EditsHold, EditTypes
<1> QED BY <1>1, <1>2, <1>3, <1>4, NothingWritten

LEMMA OldChecksSteps ==
  ASSUME HistoryInvariant, DeleteOldChecks
  PROVE  HistoryInvariant'
<1>1. /\ time \in Nat /\ checks' = { c \in checks : c.at >= time - CheckRetention }
      /\ cleanup' = [pc |-> "incidents", now |-> time] /\ UNCHANGED <<time, row, incidents, job, edit, left>>
  BY DEF DeleteOldChecks, HistoryInvariant, editVars
<1>2. CheckTypes'
  <2>1. checks' \in SUBSET checks
    BY <1>1
  <2> QED BY <1>1, <2>1, FS_Subset DEF HistoryInvariant, CheckTypes
<1>3. \A c \in checks : c \in checks' \/ c.at < time - CheckRetention
  BY <1>1, HistoryAssumption DEF HistoryInvariant, CheckTypes, CheckRows
<1>4. \A n \in Tracked : RowIsFounded(n)'
  BY <1>1, <1>3, OthersStayFounded
<1>5. CleanupTypes' /\ ResultsAreYoung'
  BY <1>1 DEF HistoryInvariant, CleanupTypes, ResultsAreYoung
<1>6. EditsHold'
  BY <1>1, HeldStay DEF HistoryInvariant, EditsHold, EditTypes
<1> QED BY <1>1, <1>2, <1>4, <1>5, <1>6
     DEF HistoryInvariant, RowTypes, IncidentTypes, IdsAreUnique, OpenIsDown

LEMMA OldIncidentsSteps ==
  ASSUME HistoryInvariant, DeleteOldIncidents
  PROVE  HistoryInvariant'
<1>1. /\ time \in Nat /\ incidents' = { i \in incidents : ~Expired(i) }
      /\ cleanup' = Idle /\ UNCHANGED <<time, row, checks, job, edit, left>>
  BY DEF DeleteOldIncidents, HistoryInvariant, editVars
<1>2. incidents' \in SUBSET incidents /\ \A i \in incidents : i.resolvedAt = Unset => i \in incidents'
  BY <1>1 DEF Expired
<1>3. IncidentTypes'
  BY <1>2, FS_Subset DEF HistoryInvariant, IncidentTypes
<1>4. OpenIsDown' /\ IdsAreUnique'
  BY <1>1, <1>2 DEF HistoryInvariant, OpenIsDown, IdsAreUnique
<1>5. \A n \in Tracked : RowIsFounded(n)'
  BY <1>1, OthersStayFounded
<1>6. CheckTypes' /\ CleanupTypes' /\ ResultsAreYoung' /\ RowTypes'
  BY <1>1 DEF HistoryInvariant, CheckTypes, CleanupTypes, ResultsAreYoung, RowTypes
<1>7. EditsHold'
  BY <1>1, <1>2, HeldStay DEF HistoryInvariant, EditsHold, EditTypes
<1> QED BY <1>1, <1>3, <1>4, <1>5, <1>6, <1>7 DEF HistoryInvariant

-----------------------------------------------------------------------------
(* Edits.                                                                  *)

\* An edit that is under way, and what it holds.
LEMMA EditIs ==
  ASSUME HistoryInvariant, NEW c \in Clients, edit[c] # Idle
  PROVE  LET e == edit[c]
         IN  /\ e \in EditRows /\ e.monitor \in Tracked /\ e.patch \in Patches /\ e.wasPaused \in BOOLEAN
             /\ HeldAreOpen(c)
             /\ edit \in [Clients -> EditRows \union {Idle}] /\ left \subseteq Tracked
  BY DEF HistoryInvariant, EditsHold, EditTypes, EditRows

LEMMA ReadSteps ==
  ASSUME HistoryInvariant, NEW c \in Clients, NEW m \in Tracked, NEW patch \in Patches,
         ReadMonitor(c, m, patch)
  PROVE  HistoryInvariant'
<1> DEFINE e == [pc |-> "read", monitor |-> m, patch |-> patch, wasPaused |-> row[m].paused,
                 at |-> Unset, closing |-> {}]
<1>1. edit' = [edit EXCEPT ![c] = e] /\ UNCHANGED <<time, row, checks, incidents, job, cleanup, left>>
  BY DEF ReadMonitor
<1>2. row[m].paused \in BOOLEAN
  BY DEF HistoryInvariant, RowTypes, Rows
<1>3. e \in EditRows /\ e.closing = {} /\ e.pc = "read"
  BY <1>2 DEF EditRows, Times
<1> HIDE DEF e
<1>4. EditTypes /\ HeldByOne /\ \A d \in Clients : HeldAreOpen(d)
  BY DEF HistoryInvariant, EditsHold
<1>5. edit'[c] = e /\ \A d \in Clients : d # c => edit'[d] = edit[d]
  BY <1>1, <1>4 DEF EditTypes
<1>6. EditTypes'
  BY <1>1, <1>3, <1>4 DEF EditTypes
<1>7. HeldByOne'
  BY <1>3, <1>4, <1>5 DEF HeldByOne
<1>8. ASSUME NEW d \in Clients
      PROVE  HeldAreOpen(d)'
  <2>1. CASE d = c
    BY <1>3, <1>5, <2>1 DEF HeldAreOpen
  <2>2. CASE d # c
    BY <1>1, <1>4, <1>5, <2>2 DEF HeldAreOpen, Closes, Pausing
  <2> QED BY <2>1, <2>2
<1>9. CleanupTypes' /\ ResultsAreYoung' /\ time \in Nat
  BY <1>1 DEF HistoryInvariant, CleanupTypes, ResultsAreYoung
<1> QED BY <1>1, <1>6, <1>7, <1>8, <1>9, NothingWritten DEF EditsHold

LEMMA CloseSteps ==
  ASSUME HistoryInvariant, NEW c \in Clients, CloseIncidents(c)
  PROVE  HistoryInvariant'
<1> DEFINE m == edit[c].monitor
           e == [pc |-> "closed", monitor |-> m, patch |-> edit[c].patch,
                 wasPaused |-> edit[c].wasPaused, at |-> time, closing |-> OpenOf(m)]
<1>1. /\ edit[c] # Idle /\ Closes(edit[c]) /\ OpenOf(m) \intersect Held = {}
      /\ edit' = [edit EXCEPT ![c] = e] /\ UNCHANGED <<time, row, checks, incidents, job, cleanup, left>>
  BY DEF CloseIncidents
<1>2. /\ m \in Tracked /\ edit[c].patch \in Patches /\ edit[c].wasPaused \in BOOLEAN
      /\ time \in Nat /\ OpenOf(m) \subseteq IncidentRows /\ OpenOf(m) \subseteq incidents
      /\ \A i \in OpenOf(m) : i.monitor = m /\ i.resolvedAt = Unset
  BY <1>1, EditIs DEF HistoryInvariant, IncidentTypes, OpenOf
<1>3. e \in EditRows /\ e.closing = OpenOf(m) /\ e.pc = "closed" /\ e.monitor = m /\ e.at \in Nat
      /\ Closes(e)
  <2>1. e \in EditRows
    BY <1>2 DEF EditRows, Times
  <2> QED BY <1>1, <1>2, <2>1 DEF Closes, Pausing
<1> HIDE DEF e, m
<1>4. EditTypes /\ HeldByOne /\ \A d \in Clients : HeldAreOpen(d)
  BY DEF HistoryInvariant, EditsHold
<1>5. edit'[c] = e /\ \A d \in Clients : d # c => edit'[d] = edit[d]
  BY <1>1, <1>4 DEF EditTypes
<1>6. EditTypes'
  BY <1>1, <1>3, <1>4 DEF EditTypes
<1>7. HeldByOne'
  <2>1. ASSUME NEW d \in Clients, d # c, edit[d] # Idle
        PROVE  edit[d].closing \intersect e.closing = {}
    <3>1. edit[d].closing \subseteq Held
      BY <2>1 DEF Held
    <3> QED BY <1>1, <1>3, <3>1
  <2> QED BY <1>4, <1>5, <2>1 DEF HeldByOne
<1>8. ASSUME NEW d \in Clients
      PROVE  HeldAreOpen(d)'
  <2>1. CASE d = c
    BY <1>1, <1>2, <1>3, <1>5, <2>1 DEF HeldAreOpen, Closes, Pausing
  <2>2. CASE d # c
    BY <1>1, <1>4, <1>5, <2>2 DEF HeldAreOpen, Closes, Pausing
  <2> QED BY <2>1, <2>2
<1>9. CleanupTypes' /\ ResultsAreYoung' /\ time \in Nat
  BY <1>1 DEF HistoryInvariant, CleanupTypes, ResultsAreYoung
<1> QED BY <1>1, <1>6, <1>7, <1>8, <1>9, NothingWritten DEF EditsHold

\* An edit that ends leaves what the others hold.
LEMMA OthersHold ==
  ASSUME HistoryInvariant, NEW c \in Clients, edit' = [edit EXCEPT ![c] = Idle], left' \subseteq Tracked,
         \A d \in Clients : d # c /\ edit[d] # Idle => edit[d].closing \subseteq incidents'
  PROVE  EditsHold'
<1>1. EditTypes /\ HeldByOne /\ \A d \in Clients : HeldAreOpen(d)
  BY DEF HistoryInvariant, EditsHold
<1>2. edit'[c] = Idle /\ \A d \in Clients : d # c => edit'[d] = edit[d]
  BY <1>1 DEF EditTypes
<1>3. EditTypes'
  BY <1>1 DEF EditTypes
<1>4. HeldByOne'
  BY <1>1, <1>2 DEF HeldByOne
<1>5. ASSUME NEW d \in Clients
      PROVE  HeldAreOpen(d)'
  <2>1. CASE d = c
    BY <1>2, <2>1 DEF HeldAreOpen
  <2>2. CASE d # c
    BY <1>1, <1>2, <2>2 DEF HeldAreOpen, Closes, Pausing
  <2> QED BY <2>1, <2>2
<1> QED BY <1>3, <1>4, <1>5 DEF EditsHold

LEMMA FailSteps ==
  ASSUME HistoryInvariant, NEW c \in Clients, FailEdit(c)
  PROVE  HistoryInvariant'
<1>1. edit' = [edit EXCEPT ![c] = Idle] /\ UNCHANGED <<time, row, checks, incidents, job, cleanup, left>>
  BY DEF FailEdit
<1>2. left \subseteq Tracked /\ \A d \in Clients : HeldAreOpen(d)
  BY DEF HistoryInvariant, EditsHold, EditTypes
<1>3. EditsHold'
  <2>1. \A d \in Clients : d # c /\ edit[d] # Idle => edit[d].closing \subseteq incidents'
    BY <1>1, <1>2 DEF HeldAreOpen
  <2> QED BY <1>1, <1>2, <2>1, OthersHold
<1>4. CleanupTypes' /\ ResultsAreYoung' /\ time \in Nat
  BY <1>1 DEF HistoryInvariant, CleanupTypes, ResultsAreYoung
<1> QED BY <1>1, <1>3, <1>4, NothingWritten

\* The row an edit leaves: one that knows nothing, or what it was.
LEMMA EditedIs ==
  ASSUME NEW r \in Rows, NEW e \in EditRows, time \in Nat, NEW t, t = Edited(r, e)
  PROVE  /\ t \in Rows
         /\ t.paused => r.paused \/ e.patch.paused = "true"
         /\ Resets(e) => t.state = "PENDING" /\ t.failures = 0 /\ t.lastCheckedAt = Unset
         /\ ~Resets(e) => t.state = r.state /\ t.failures = r.failures /\ t.lastCheckedAt = r.lastCheckedAt
<1> DEFINE paused == IF e.patch.paused = "absent" THEN r.paused ELSE nextPaused(e)
           on     == ~nextPaused(e)
<1>1. /\ paused \in BOOLEAN /\ on \in BOOLEAN
      /\ paused => r.paused \/ e.patch.paused = "true"
  BY DEF nextPaused, EditRows, Rows
<1>2. t = IF Resets(e) THEN Fresh(paused, on, time) ELSE [r EXCEPT !.paused = paused, !.scheduled = on]
  BY DEF Edited
<1> HIDE DEF paused, on
<1>3. CASE Resets(e)
  BY <1>1, <1>2, <1>3, FreshIs
<1>4. CASE ~Resets(e)
  BY <1>1, <1>2, <1>4 DEF Rows
<1> QED BY <1>3, <1>4

\* The incidents that an edit closes as it commits.
LEMMA IncidentsAfterEdit ==
  ASSUME HistoryInvariant, NEW c \in Clients, SaveMonitor(c)
  PROVE  /\ IncidentTypes' /\ IdsAreUnique'
         /\ \A k \in incidents' : k.resolvedAt = Unset => k \in incidents \ edit[c].closing
         /\ incidents \ edit[c].closing \subseteq incidents'
         /\ \A i \in incidents : \E k \in incidents' : k.id = i.id
         /\ edit[c].closing = {} => incidents' = incidents
<1> DEFINE e == edit[c]
           closed(i) == [i EXCEPT !.resolvedAt = e.at]
           new == { closed(i) : i \in e.closing }
<1>1. /\ e # Idle /\ e.pc = (IF Closes(e) THEN "closed" ELSE "read")
      /\ incidents' = (incidents \ e.closing) \union new
  BY DEF SaveMonitor
<1>2. /\ e.closing \subseteq incidents /\ \A i \in e.closing : i.resolvedAt = Unset
      /\ e.closing # {} => e.at \in Nat
  BY <1>1, EditIs DEF HeldAreOpen
<1>3. incidents \subseteq IncidentRows /\ IsFiniteSet(incidents) /\ IdsAreUnique
  BY DEF HistoryInvariant, IncidentTypes
<1>4. ASSUME NEW i \in e.closing
      PROVE  closed(i) \in IncidentRows /\ closed(i).id = i.id /\ closed(i).resolvedAt # Unset
  <2>1. i \in IncidentRows /\ e.at \in Nat
    BY <1>2, <1>3
  <2> HIDE DEF e
  <2> QED BY <2>1, ClosedIs
<1>5. IsFiniteSet(new)
  <2> DEFINE f == [i \in e.closing |-> closed(i)]
  <2>1. f \in Surjection(e.closing, new)
    BY DEF Surjection
  <2>2. IsFiniteSet(e.closing)
    BY <1>2, <1>3, FS_Subset
  <2> HIDE DEF f, new
  <2> QED BY <2>1, <2>2, FS_Surjection
<1>6. \A k \in new : /\ k \in IncidentRows /\ k.resolvedAt # Unset
                      /\ \E i \in e.closing : k = closed(i) /\ k.id = i.id
  BY <1>4
<1>7. \A i \in e.closing : \E k \in new : k.id = i.id
  BY <1>4
<1>8. e.closing = {} => new = {}
  OBVIOUS
<1> HIDE DEF new, closed, e
<1>9. IncidentTypes'
  <2>1. IsFiniteSet(incidents \ e.closing)
    BY <1>3, FS_Subset, incidents \ e.closing \subseteq incidents
  <2>2. IsFiniteSet(incidents')
    BY <1>1, <1>5, <2>1, FS_Union
  <2> QED BY <1>1, <1>3, <1>6, <2>2 DEF IncidentTypes
<1>10. IdsAreUnique'
  BY <1>1, <1>2, <1>3, <1>6 DEF IdsAreUnique
<1>11. \A k \in incidents' : k.resolvedAt = Unset => k \in incidents \ e.closing
  BY <1>1, <1>6
<1>12. \A i \in incidents : \E k \in incidents' : k.id = i.id
  BY <1>1, <1>7
<1> QED BY <1>1, <1>8, <1>9, <1>10, <1>11, <1>12 DEF e

LEMMA SaveSteps ==
  ASSUME HistoryInvariant, NEW c \in Clients, SaveMonitor(c)
  PROVE  HistoryInvariant'
<1> DEFINE e    == edit[c]
           m    == e.monitor
           open == OpenOf(m) \ e.closing
<1>1. /\ e # Idle /\ row' = [row EXCEPT ![m] = Edited(row[m], e)]
      /\ left' = IF open = {} THEN left \ {m}
                 ELSE IF Resets(e) \/ e.patch.paused = "true" THEN left \union {m} ELSE left
      /\ edit' = [edit EXCEPT ![c] = Idle]
      /\ UNCHANGED <<time, checks, job, cleanup>>
  BY DEF SaveMonitor
<1>2. /\ e \in EditRows /\ m \in Tracked /\ left \subseteq Tracked
      /\ \A i \in e.closing : i \in incidents /\ i.monitor = m
      /\ e.closing # {} => Resets(e)
  BY <1>1, EditIs DEF HeldAreOpen, Resets
<1>3. /\ time \in Nat /\ row \in [Tracked -> Rows] /\ incidents \subseteq IncidentRows
      /\ OpenIsDown /\ RowIsFounded(m)
  BY <1>2 DEF HistoryInvariant, RowTypes, IncidentTypes
<1>4. /\ row'[m] \in Rows
      /\ row'[m].paused => row[m].paused \/ e.patch.paused = "true"
      /\ Resets(e) => row'[m].state = "PENDING" /\ row'[m].failures = 0 /\ row'[m].lastCheckedAt = Unset
      /\ ~Resets(e) => /\ row'[m].state = row[m].state /\ row'[m].failures = row[m].failures
                       /\ row'[m].lastCheckedAt = row[m].lastCheckedAt
  <2>1. row'[m] = Edited(row[m], e) /\ row[m] \in Rows
    BY <1>1, <1>2, <1>3
  <2> HIDE DEF e, m
  <2> QED BY <1>2, <1>3, <2>1, EditedIs
<1>12. row'[m].paused \in BOOLEAN /\ row[m].paused \in BOOLEAN
  BY <1>2, <1>3, <1>4 DEF Rows
<1>5. \A n \in Tracked : n # m => row'[n] = row[n]
  BY <1>1, <1>3
<1>6. /\ IncidentTypes' /\ IdsAreUnique'
      /\ \A k \in incidents' : k.resolvedAt = Unset => k \in incidents \ e.closing
      /\ incidents \ e.closing \subseteq incidents'
      /\ e.closing = {} => incidents' = incidents
  BY IncidentsAfterEdit
<1>7. RowTypes'
  <2>1. row' = [row EXCEPT ![m] = row'[m]]
    BY <1>1, <1>2, <1>3
  <2> HIDE DEF e, m
  <2> QED BY <1>2, <1>3, <1>4, <2>1 DEF RowTypes
<1>8. OpenIsDown'
  <2>1. ASSUME NEW i \in incidents', i.resolvedAt = Unset
        PROVE  /\ row'[i.monitor].state = "DOWN" \/ i.monitor \in left'
               /\ row'[i.monitor].state # "UP"
               /\ row'[i.monitor].paused => i.monitor \in left'
    <3>1. /\ i \in incidents \ e.closing /\ i.monitor \in Tracked
          /\ row[i.monitor].state = "DOWN" \/ i.monitor \in left
          /\ row[i.monitor].state # "UP"
          /\ row[i.monitor].paused => i.monitor \in left
      BY <1>3, <1>6, <2>1 DEF OpenIsDown, IncidentRows
    <3>2. CASE i.monitor # m
      <4>1. row'[i.monitor] = row[i.monitor] /\ (i.monitor \in left => i.monitor \in left')
        BY <1>1, <1>5, <3>1, <3>2
      <4> QED BY <3>1, <4>1
    <3>3. CASE i.monitor = m
      <4>1. i \in open
        BY <2>1, <3>1, <3>3 DEF OpenOf
      <4>2. left' = IF Resets(e) \/ e.patch.paused = "true" THEN left \union {m} ELSE left
        BY <1>1, <4>1
      <4> HIDE DEF e, m, open
      <4> QED BY <1>4, <1>12, <3>1, <3>3, <4>2
    <3> QED BY <3>2, <3>3
  <2>2. ASSUME NEW n \in Tracked, row'[n].state = "DOWN"
        PROVE  \E i \in incidents' : i.monitor = n /\ i.resolvedAt = Unset
    <3>1. row[n].state = "DOWN" /\ (n = m => e.closing = {})
      BY <1>2, <1>4, <1>5, <2>2
    <3>2. PICK i \in incidents : i.monitor = n /\ i.resolvedAt = Unset
      BY <1>3, <3>1 DEF OpenIsDown
    <3>3. i \notin e.closing
      BY <1>2, <3>1, <3>2
    <3> QED BY <1>6, <3>2, <3>3
  <2>3. \A i, k \in incidents' :
           i.resolvedAt = Unset /\ k.resolvedAt = Unset /\ i.monitor = k.monitor => i = k
    BY <1>3, <1>6 DEF OpenIsDown
  <2> QED BY <2>1, <2>2, <2>3 DEF OpenIsDown
<1>9. ASSUME NEW n \in Tracked
      PROVE  RowIsFounded(n)'
  <2>1. CASE n = m /\ Resets(e)
    BY <1>4, <2>1 DEF RowIsFounded
  <2>2. CASE ~(n = m /\ Resets(e))
    <3>1. row'[n].state = row[n].state /\ row'[n].failures = row[n].failures
          /\ row'[n].lastCheckedAt = row[n].lastCheckedAt
      BY <1>4, <1>5, <2>2
    <3> HIDE DEF e, m
    <3> QED BY <1>1, <1>3, <3>1, OthersStayFounded
  <2> QED BY <2>1, <2>2
<1>10. EditsHold'
  <2>1. ASSUME NEW d \in Clients, d # c, edit[d] # Idle
        PROVE  edit[d].closing \subseteq incidents'
    <3>1. edit[d].closing \intersect e.closing = {}
      BY <1>1, <2>1 DEF HistoryInvariant, EditsHold, HeldByOne
    <3>2. edit[d].closing \subseteq incidents
      BY <2>1, EditIs DEF HeldAreOpen
    <3> QED BY <1>6, <3>1, <3>2
  <2>2. left' \subseteq Tracked
    BY <1>1, <1>2
  <2> QED BY <1>1, <2>1, <2>2, OthersHold
<1>11. CheckTypes' /\ CleanupTypes' /\ ResultsAreYoung'
  BY <1>1 DEF HistoryInvariant, CheckTypes, CleanupTypes, ResultsAreYoung
<1> QED BY <1>1, <1>3, <1>6, <1>7, <1>8, <1>9, <1>10, <1>11 DEF HistoryInvariant

LEMMA ReconcileSteps ==
  ASSUME HistoryInvariant, ReconcileSchedules
  PROVE  HistoryInvariant'
<1>1. /\ row' = [m \in Tracked |-> [row[m] EXCEPT !.scheduled = row[m].scheduled \/ ~row[m].paused]]
      /\ UNCHANGED <<time, checks, incidents, job, cleanup, edit, left>>
  BY DEF ReconcileSchedules, editVars
<1>2. row \in [Tracked -> Rows] /\ time \in Nat /\ incidents \subseteq IncidentRows
  BY DEF HistoryInvariant, RowTypes, IncidentTypes
<1>3. \A n \in Tracked : /\ row'[n] \in Rows /\ row'[n].state = row[n].state /\ row'[n].paused = row[n].paused
                          /\ row'[n].failures = row[n].failures /\ row'[n].lastCheckedAt = row[n].lastCheckedAt
  <2> SUFFICES ASSUME NEW n \in Tracked
               PROVE  /\ row'[n] \in Rows /\ row'[n].state = row[n].state /\ row'[n].paused = row[n].paused
                      /\ row'[n].failures = row[n].failures /\ row'[n].lastCheckedAt = row[n].lastCheckedAt
    OBVIOUS
  <2> DEFINE r == row[n]
             on == r.scheduled \/ ~r.paused
  <2>1. row'[n] = [r EXCEPT !.scheduled = on] /\ r \in Rows /\ on \in BOOLEAN
    BY <1>1, <1>2
  <2> HIDE DEF r, on
  <2>2. /\ row'[n] \in Rows /\ row'[n].state = r.state /\ row'[n].paused = r.paused
        /\ row'[n].failures = r.failures /\ row'[n].lastCheckedAt = r.lastCheckedAt
    BY <2>1 DEF Rows
  <2> QED BY <2>2 DEF r
<1>4. RowTypes'
  <2> DEFINE after(n) == [row[n] EXCEPT !.scheduled = row[n].scheduled \/ ~row[n].paused]
  <2>1. row' = [n \in Tracked |-> after(n)]
    BY <1>1
  <2> HIDE DEF after
  <2>2. \A n \in Tracked : after(n) \in Rows
    BY <1>3, <2>1
  <2> QED BY <2>1, <2>2 DEF RowTypes
<1>5. ASSUME NEW n \in Tracked
      PROVE  RowIsFounded(n)'
  <2>1. time' = time /\ checks' = checks
    BY <1>1
  <2>2. time' \in Nat /\ time <= time'
    BY <1>2, <2>1
  <2> QED BY <1>3, <2>1, <2>2, OthersStayFounded
<1>6. OpenIsDown'
  <2>1. \A i \in incidents : i.monitor \in Tracked
    BY <1>2 DEF IncidentRows
  <2>2. \A n \in Tracked : row'[n].paused \in BOOLEAN /\ row[n].paused \in BOOLEAN
    BY <1>2, <1>3 DEF Rows
  <2>3. OpenIsDown
    BY DEF HistoryInvariant
  <2>4. \A i \in incidents : i.resolvedAt = Unset =>
           /\ row'[i.monitor].state = "DOWN" \/ i.monitor \in left
           /\ row'[i.monitor].state # "UP"
           /\ row'[i.monitor].paused => i.monitor \in left
    <3> TAKE i \in incidents
    <3> HAVE i.resolvedAt = Unset
    <3> DEFINE n == i.monitor
    <3>1. n \in Tracked /\ row'[n].state = row[n].state /\ row'[n].paused = row[n].paused
      BY <1>3, <2>1
    <3>2. /\ row[n].state = "DOWN" \/ n \in left
          /\ row[n].state # "UP"
          /\ row[n].paused => n \in left
      BY <2>3 DEF OpenIsDown
    <3> HIDE DEF n
    <3> QED BY <2>2, <3>1, <3>2 DEF n
  <2> QED BY <1>1, <1>3, <2>3, <2>4 DEF OpenIsDown
<1>7. EditsHold'
  BY <1>1, HeldStay DEF HistoryInvariant, EditsHold, EditTypes
<1>8. IncidentTypes' /\ IdsAreUnique' /\ CheckTypes' /\ CleanupTypes' /\ ResultsAreYoung'
  BY <1>1 DEF HistoryInvariant, IncidentTypes, IdsAreUnique, CheckTypes, CleanupTypes, ResultsAreYoung
<1> QED BY <1>1, <1>2, <1>4, <1>5, <1>6, <1>7, <1>8 DEF HistoryInvariant

-----------------------------------------------------------------------------
(* Results.                                                                *)

\* What a result does to the row of its monitor: a success clears the failures, a
\* failure counts one.
LEMMA RowAfterResult ==
  ASSUME HistoryInvariant, NEW w \in Workers, Apply(w)
  PROVE  LET j == job[w]
             m == j.monitor
         IN  /\ j \in Jobs /\ j.at <= time /\ time <= j.at + Flight /\ ~row[m].paused
             /\ checks' = checks \union
                   {[monitor |-> m, slot |-> j.slot, at |-> j.at, outcome |-> j.outcome]}
             /\ row' = [row EXCEPT ![m] = row'[m]]
             /\ row'[m] \in Rows /\ row'[m].lastCheckedAt = j.at /\ ~row'[m].paused
             /\ row'[m].failures = 0 => j.outcome = "UP"
             /\ row'[m].state = "PENDING" => row'[m].failures # 0
             /\ job' = [job EXCEPT ![w] = Idle] /\ UNCHANGED <<time, cleanup, edit>>
<1> DEFINE j == job[w]
           m == j.monitor
<1>1. /\ j # Idle /\ ~row[m].paused /\ (ApplyUp(w, m) \/ ApplyDown(w, m))
      /\ checks' = checks \union
            {[monitor |-> m, slot |-> j.slot, at |-> j.at, outcome |-> j.outcome]}
      /\ job' = [job EXCEPT ![w] = Idle] /\ UNCHANGED <<time, cleanup, edit>>
  BY DEF Apply
<1>2. j \in Jobs /\ j.at <= time /\ time <= j.at + Flight
  BY <1>1 DEF HistoryInvariant, ResultsAreYoung
<1>3. m \in Tracked /\ row \in [Tracked -> Rows] /\ row[m] \in Rows /\ j.at \in Nat
  BY <1>2 DEF HistoryInvariant, RowTypes, Jobs
<1>4. row[m].failures \in Nat /\ row[m].failingSince \in Times /\ row[m].state \in {"PENDING", "UP", "DOWN"}
  BY <1>3 DEF Rows
<1>5. ASSUME NEW state \in {"PENDING", "UP", "DOWN"}, NEW failures \in Nat, NEW since \in Times,
             row' = [row EXCEPT ![m] = Told(row[m], j, state, failures, since)],
             failures = 0 => j.outcome = "UP", state = "PENDING" => failures # 0
      PROVE  /\ row' = [row EXCEPT ![m] = row'[m]]
             /\ row'[m] \in Rows /\ row'[m].lastCheckedAt = j.at /\ ~row'[m].paused
             /\ row'[m].failures = 0 => j.outcome = "UP"
             /\ row'[m].state = "PENDING" => row'[m].failures # 0
  <2> DEFINE t == Told(row[m], j, state, failures, since)
  <2> HIDE DEF j, m
  <2>1. t \in Rows /\ t.state = state /\ t.failures = failures /\ t.lastCheckedAt = j.at
        /\ t.paused = row[m].paused
    <3>1. row[m] \in Rows /\ j \in Jobs
      BY <1>2, <1>3
    <3>2. t = Told(row[m], j, state, failures, since)
      OBVIOUS
    <3> HIDE DEF t
    <3> QED BY <3>1, <3>2, ToldIs
  <2> HIDE DEF t
  <2>2. row' = [row EXCEPT ![m] = t]
    BY <1>5 DEF t
  <2>3. row'[m] = t
    BY <1>3, <2>2
  <2> QED BY <1>1, <1>5, <2>1, <2>2, <2>3
<1>6. CASE ApplyUp(w, m)
  <2>1. row' = [row EXCEPT ![m] = Told(row[m], j, "UP", 0, Unset)] /\ j.outcome = "UP"
    BY <1>6 DEF ApplyUp
  <2>2. Unset \in Times /\ 0 \in Nat /\ "UP" \in {"PENDING", "UP", "DOWN"}
    BY DEF Times
  <2> HIDE DEF j, m
  <2> QED BY <1>1, <1>2, <1>5, <2>1, <2>2 DEF j, m
<1>7. CASE ApplyDown(w, m)
  <2> DEFINE failures == row[m].failures + 1
             since    == IF row[m].failingSince = Unset THEN j.at ELSE row[m].failingSince
             declare  == failures >= Threshold /\ row[m].state # "DOWN"
             state    == IF declare THEN "DOWN" ELSE row[m].state
  <2>1. row' = [row EXCEPT ![m] = Told(row[m], j, state, failures, since)] /\ j.outcome = "DOWN"
    BY <1>7 DEF ApplyDown
  <2>2. failures \in Nat /\ failures # 0 /\ since \in Times /\ state \in {"PENDING", "UP", "DOWN"}
    BY <1>3, <1>4 DEF Times
  <2> HIDE DEF failures, since, state, j, m
  <2> QED BY <1>1, <1>2, <1>5, <2>1, <2>2 DEF j, m
<1> QED BY <1>1, <1>6, <1>7

\* The incidents after a result, and what is open.
LEMMA IncidentsAfterResult ==
  ASSUME HistoryInvariant, NEW w \in Workers, Apply(w)
  PROVE  /\ IncidentTypes' /\ IdsAreUnique' /\ OpenIsDown'
         /\ left' \subseteq Tracked
         /\ \A x \in incidents : x.resolvedAt = Unset /\ x \in Held => x \in incidents'
<1> DEFINE j == job[w]
           m == j.monitor
<1>1. /\ j \in Jobs /\ j.at \in Nat /\ m \in Tracked /\ row \in [Tracked -> Rows]
      /\ row' = [row EXCEPT ![m] = row'[m]]
      /\ ~row[m].paused /\ ~row'[m].paused
      /\ ApplyUp(w, m) \/ ApplyDown(w, m)
  BY RowAfterResult DEF Apply, Jobs, HistoryInvariant, RowTypes
<1>2. /\ IncidentTypes /\ IdsAreUnique /\ OpenIsDown
      /\ incidents \subseteq IncidentRows /\ IsFiniteSet(incidents)
      /\ left \subseteq Tracked
  BY DEF HistoryInvariant, IncidentTypes, EditsHold, EditTypes
<1>3. CASE ApplyUp(w, m)
  <2>0. left' = left \ {m}
    BY <1>3 DEF ApplyUp
  <2>1. row'[m].state = "UP"
    <3>1. row' = [row EXCEPT ![m] = Told(row[m], j, "UP", 0, Unset)]
      BY <1>3 DEF ApplyUp
    <3>2. row'[m] = Told(row[m], j, "UP", 0, Unset)
      BY <1>1, <3>1
    <3> QED BY <3>2 DEF Told
  <2> HIDE DEF j, m
  <2>2. CASE OpenOf(m) = {} /\ UNCHANGED incidents
    <3>1. \A i \in incidents : i.resolvedAt = Unset => i.monitor # m
      BY <2>2 DEF OpenOf
    <3>2. OpenIsDown'
      <4>1. \A n \in Tracked : n # m => row'[n] = row[n]
        BY <1>1
      <4>2. \A i \in incidents : i.monitor \in Tracked
        BY <1>2 DEF IncidentRows
      <4>3. \A i \in incidents : i.resolvedAt = Unset =>
               row'[i.monitor] = row[i.monitor] /\ (i.monitor \in left => i.monitor \in left')
        BY <2>0, <3>1, <4>1, <4>2
      <4> QED BY <1>2, <2>1, <2>2, <4>1, <4>3 DEF OpenIsDown
    <3> QED BY <1>2, <2>0, <2>2, <3>2 DEF IncidentTypes, IdsAreUnique
  <2>3. CASE \E i \in OpenOf(m) \ Held : incidents' = Close(i, j.at)
    <3>1. PICK i \in OpenOf(m) \ Held : incidents' = Close(i, j.at)
      BY <2>3
    <3> DEFINE k == [i EXCEPT !.resolvedAt = j.at]
    <3>2. i \in incidents /\ i.monitor = m /\ i.resolvedAt = Unset /\ i \in IncidentRows
      BY <1>2 DEF OpenOf
    <3>3. k \in IncidentRows /\ k.id = i.id /\ k.monitor = m /\ k.resolvedAt # Unset
      BY <1>1, <3>2, ClosedIs
    <3>4. incidents' = (incidents \ {i}) \union {k}
      BY <3>1 DEF Close
    <3> HIDE DEF k
    <3>5. IncidentTypes'
      BY <1>2, <3>3, <3>4, FS_RemoveElement, FS_AddElement DEF IncidentTypes
    <3>6. IdsAreUnique'
      BY <1>2, <3>2, <3>3, <3>4 DEF IdsAreUnique
    <3>7. OpenIsDown'
      <4>1. \A n \in Tracked : n # m => row'[n] = row[n]
        BY <1>1
      <4>2. \A x \in incidents' : x.resolvedAt = Unset => x \in incidents /\ x # i /\ x.monitor \in Tracked
        BY <1>2, <3>3, <3>4 DEF IncidentRows
      <4>3. \A x \in incidents' : x.resolvedAt = Unset => x.monitor # m
        BY <1>2, <3>2, <4>2 DEF OpenIsDown
      <4>4. ASSUME NEW n \in Tracked, row'[n].state = "DOWN"
            PROVE  \E x \in incidents' : x.monitor = n /\ x.resolvedAt = Unset
        <5>1. n # m /\ row[n].state = "DOWN"
          BY <2>1, <4>1, <4>4
        <5>2. PICK x \in incidents : x.monitor = n /\ x.resolvedAt = Unset
          BY <1>2, <5>1 DEF OpenIsDown
        <5> QED BY <3>2, <3>4, <5>1, <5>2
      <4>5. \A x \in incidents' : x.resolvedAt = Unset =>
               row'[x.monitor] = row[x.monitor] /\ (x.monitor \in left => x.monitor \in left')
        BY <2>0, <4>1, <4>2, <4>3
      <4> QED BY <1>2, <4>2, <4>4, <4>5 DEF OpenIsDown
    <3>8. \A x \in incidents : x.resolvedAt = Unset /\ x \in Held => x \in incidents'
      BY <3>1, <3>4
    <3> QED BY <1>2, <2>0, <3>5, <3>6, <3>7, <3>8
  <2> QED BY <1>3, <2>2, <2>3 DEF ApplyUp, j, m
<1>4. CASE ApplyDown(w, m)
  <2> DEFINE failures == row[m].failures + 1
             since    == IF row[m].failingSince = Unset THEN j.at ELSE row[m].failingSince
             declare  == failures >= Threshold /\ row[m].state # "DOWN"
             opened   == [id |-> NextId, monitor |-> m, startedAt |-> since, resolvedAt |-> Unset]
  <2>1. row'[m].state = IF declare THEN "DOWN" ELSE row[m].state
    <3>1. row' = [row EXCEPT ![m] = Told(row[m], j, IF declare THEN "DOWN" ELSE row[m].state,
                                         failures, since)]
      BY <1>4 DEF ApplyDown
    <3>2. row'[m] = Told(row[m], j, IF declare THEN "DOWN" ELSE row[m].state, failures, since)
      BY <1>1, <3>1
    <3> QED BY <3>2 DEF Told
  <2>2. IF declare THEN OpenOf(m) = {} /\ incidents' = incidents \union {opened} ELSE UNCHANGED incidents
    BY <1>4 DEF ApplyDown
  <2>3. since \in Nat
    BY <1>1 DEF Rows, Times
  <2>4. opened \in IncidentRows /\ opened.id = NextId /\ opened.monitor = m /\ opened.resolvedAt = Unset
    BY <1>1, <1>2, <2>3, NextIdIsFresh DEF IncidentRows, Times
  <2>5. \A n \in Tracked : n # m => row'[n] = row[n]
    BY <1>1
  <2>0. left' = left
    BY <1>4 DEF ApplyDown
  <2>8. row'[m].paused \in BOOLEAN /\ row[m].paused \in BOOLEAN
    BY <1>1, RowAfterResult DEF Rows
  <2> HIDE DEF j, m, since, declare, opened
  <2>6. CASE ~declare
    <3>1. UNCHANGED incidents /\ \A n \in Tracked : row'[n].state = row[n].state /\ row'[n].paused = row[n].paused
      BY <1>1, <2>1, <2>2, <2>5, <2>6, <2>8
    <3>2. \A i \in incidents : i.monitor \in Tracked
      BY <1>2 DEF IncidentRows
    <3> QED BY <1>2, <2>0, <3>1, <3>2 DEF IncidentTypes, IdsAreUnique, OpenIsDown
  <2>7. CASE declare
    <3>1. incidents' = incidents \union {opened} /\ \A i \in incidents : i.resolvedAt = Unset => i.monitor # m
      BY <2>2, <2>7 DEF OpenOf
    <3>2. \A i \in incidents : i.id # opened.id
      BY <1>2, <2>4, NextIdIsFresh
    <3>3. IncidentTypes'
      BY <1>2, <2>4, <3>1, FS_AddElement DEF IncidentTypes
    <3>4. IdsAreUnique'
      BY <1>2, <3>1, <3>2 DEF IdsAreUnique
    <3>5. OpenIsDown'
      <4>1. \A i \in incidents : i.monitor \in Tracked
        BY <1>2 DEF IncidentRows
      <4>2. \A i \in incidents' : i.resolvedAt = Unset =>
               /\ row'[i.monitor].state = "DOWN" \/ i.monitor \in left'
               /\ row'[i.monitor].state # "UP"
               /\ row'[i.monitor].paused => i.monitor \in left'
        BY <1>1, <1>2, <2>0, <2>1, <2>4, <2>5, <2>7, <3>1, <4>1 DEF OpenIsDown
      <4>3. \A n \in Tracked : row'[n].state = "DOWN" => \E i \in incidents' : i.monitor = n /\ i.resolvedAt = Unset
        BY <1>2, <2>4, <2>5, <3>1 DEF OpenIsDown
      <4>4. \A i, k \in incidents' :
               i.resolvedAt = Unset /\ k.resolvedAt = Unset /\ i.monitor = k.monitor => i = k
        BY <1>2, <2>4, <3>1 DEF OpenIsDown
      <4> QED BY <4>2, <4>3, <4>4 DEF OpenIsDown
    <3> QED BY <1>2, <2>0, <3>1, <3>3, <3>4, <3>5
  <2> QED BY <2>6, <2>7
<1> QED BY <1>1, <1>3, <1>4

LEMMA ApplySteps ==
  ASSUME HistoryInvariant, NEW w \in Workers, Apply(w)
  PROVE  HistoryInvariant'
<1> DEFINE j == job[w]
           m == j.monitor
           c == [monitor |-> m, slot |-> j.slot, at |-> j.at, outcome |-> j.outcome]
<1>1. /\ j \in Jobs /\ j.at <= time /\ time <= j.at + Flight
      /\ checks' = checks \union {c}
      /\ row' = [row EXCEPT ![m] = row'[m]]
      /\ row'[m] \in Rows /\ row'[m].lastCheckedAt = j.at /\ ~row'[m].paused
      /\ row'[m].failures = 0 => j.outcome = "UP"
      /\ row'[m].state = "PENDING" => row'[m].failures # 0
      /\ job' = [job EXCEPT ![w] = Idle] /\ UNCHANGED <<time, cleanup, edit>>
  BY RowAfterResult
<1>2. /\ time \in Nat /\ row \in [Tracked -> Rows] /\ m \in Tracked /\ j.at \in Nat
      /\ c \in CheckRows /\ c.monitor = m /\ c.at = j.at /\ c.outcome = j.outcome
  BY <1>1 DEF HistoryInvariant, RowTypes, Jobs, CheckRows
<1>3. \A x \in checks : x.at \in Nat /\ x.at <= time
  BY DEF HistoryInvariant, CheckTypes, CheckRows
<1> HIDE DEF j, m, c
<1>4. RowTypes'
  BY <1>1, <1>2 DEF RowTypes
<1>5. CheckTypes'
  BY <1>1, <1>2, FS_AddElement DEF HistoryInvariant, CheckTypes
<1>6. CleanupTypes' /\ ResultsAreYoung'
  BY <1>1 DEF HistoryInvariant, CleanupTypes, ResultsAreYoung
<1>7. ASSUME NEW n \in Tracked
      PROVE  RowIsFounded(n)'
  <2>1. CASE n = m
    <3>1. j.at # Unset /\ j.at <= time'
      BY <1>1, <1>2 DEF Unset
    <3>2. \A x \in checks' : x.at <= j.at + Flight
      BY <1>1, <1>2, <1>3, HistoryAssumption
    <3>3. c \in checks' /\ c.monitor = n /\ c.at = j.at /\ (row'[n].failures = 0 => c.outcome = "UP")
      BY <1>1, <1>2, <2>1
    <3>4. row'[n].lastCheckedAt = j.at /\ (row'[n].state = "PENDING" => row'[n].failures # 0)
      BY <1>1, <2>1
    <3> QED BY <3>1, <3>2, <3>3, <3>4 DEF RowIsFounded
  <2>2. CASE n # m
    BY <1>1, <1>2, <2>2, OthersStayFounded
  <2> QED BY <2>1, <2>2
<1>8. /\ IncidentTypes' /\ IdsAreUnique' /\ OpenIsDown' /\ time' \in Nat /\ left' \subseteq Tracked
      /\ \A x \in incidents : x.resolvedAt = Unset /\ x \in Held => x \in incidents'
  BY <1>1, <1>2, IncidentsAfterResult
<1>9. EditsHold'
  BY <1>1, <1>8, HeldStay
<1> QED BY <1>4, <1>5, <1>6, <1>7, <1>8, <1>9 DEF HistoryInvariant

LEMMA HistoryKept == HistoryInvariant /\ [ChNext]_chVars => HistoryInvariant'
<1> SUFFICES ASSUME HistoryInvariant, [ChNext]_chVars PROVE HistoryInvariant'
  OBVIOUS
<1>1. CASE \E w \in Workers, m \in Tracked, s \in Slots, o \in {"UP", "DOWN"} : Measure(w, m, s, o)
  BY <1>1, MeasureSteps
<1>2. CASE \E w \in Workers : Apply(w)
  BY <1>2, ApplySteps
<1>3. CASE \E w \in Workers : Discard(w)
  BY <1>3, DiscardSteps
<1>4. CASE \E c \in Clients, m \in Tracked, patch \in Patches : ReadMonitor(c, m, patch)
  BY <1>4, ReadSteps
<1>9. CASE \E c \in Clients : CloseIncidents(c)
  BY <1>9, CloseSteps
<1>10. CASE \E c \in Clients : SaveMonitor(c)
  BY <1>10, SaveSteps
<1>11. CASE \E c \in Clients : FailEdit(c)
  BY <1>11, FailSteps
<1>12. CASE ReconcileSchedules
  BY <1>12, ReconcileSteps
<1>5. CASE DeleteOldChecks
  BY <1>5, OldChecksSteps
<1>6. CASE DeleteOldIncidents
  BY <1>6, OldIncidentsSteps
<1>7. CASE TimePasses
  BY <1>7, TimeSteps
<1>8. CASE UNCHANGED chVars
  <2>1. CleanupTypes' /\ ResultsAreYoung' /\ UNCHANGED <<time, row, checks, incidents, edit, left>>
    BY <1>8 DEF chVars, HistoryInvariant, CleanupTypes, ResultsAreYoung
  <2>2. EditsHold'
    BY <2>1, HeldStay DEF HistoryInvariant, EditsHold, EditTypes
  <2> QED BY <2>1, <2>2, NothingWritten DEF HistoryInvariant
<1> QED BY <1>1, <1>2, <1>3, <1>4, <1>5, <1>6, <1>7, <1>8, <1>9, <1>10, <1>11, <1>12 DEF ChNext

\* Over every history of results, overlapping edits and retention: the rows say what the
\* kept checks say; a monitor that is DOWN has one open incident; and what else is open an
\* edit left so as it reset or paused the monitor (monitors.ts:134-174).
THEOREM HistoryInvariantHolds == ChSpec => []HistoryInvariant
  BY HistoryStarts, HistoryKept, PTL DEF ChSpec

-----------------------------------------------------------------------------
(* Retention.                                                              *)

\* Only retention takes an incident away.
LEMMA OthersKeepIncidents ==
  ASSUME HistoryInvariant, ChNext, ~DeleteOldIncidents, NEW i \in incidents
  PROVE  \E k \in incidents' : k.id = i.id
<1>1. CASE UNCHANGED incidents
  BY <1>1
<1>2. ASSUME NEW w \in Workers, Apply(w)
      PROVE  \E k \in incidents' : k.id = i.id
  <2> DEFINE m == job[w].monitor
  <2>1. CASE \E x \in OpenOf(m) \ Held : incidents' = Close(x, job[w].at)
    <3>1. PICK x \in OpenOf(m) \ Held : incidents' = Close(x, job[w].at)
      BY <2>1
    <3>2. job[w].at \in Nat
      BY <1>2 DEF HistoryInvariant, ResultsAreYoung, Jobs, Apply
    <3>3. x \in IncidentRows
      BY DEF OpenOf, HistoryInvariant, IncidentTypes
    <3>4. [x EXCEPT !.resolvedAt = job[w].at].id = x.id
      BY <3>2, <3>3, ClosedIs
    <3> QED BY <3>1, <3>4 DEF Close
  <2>2. CASE incidents \subseteq incidents'
    BY <2>2
  <2>3. ApplyUp(w, m) => UNCHANGED incidents \/ \E x \in OpenOf(m) \ Held : incidents' = Close(x, job[w].at)
    BY DEF ApplyUp
  <2>4. ApplyDown(w, m) => incidents \subseteq incidents'
    BY DEF ApplyDown
  <2> QED BY <1>2, <2>1, <2>2, <2>3, <2>4 DEF Apply
<1>3. ASSUME NEW c \in Clients, SaveMonitor(c)
      PROVE  \E k \in incidents' : k.id = i.id
  BY <1>3, IncidentsAfterEdit
<1> QED BY <1>1, <1>2, <1>3
     DEF ChNext, Measure, Discard, ReadMonitor, CloseIncidents, FailEdit, ReconcileSchedules,
         DeleteOldChecks, TimePasses

\* retention.ts:31-36, for every number of monitors, results and passes: what retention
\* deletes is resolved and began before the cutoff, and it never takes the incident that
\* explains why a monitor is DOWN.
THEOREM RetentionIsSafe == ChSpec => RetentionSparesOpenIncidents
<1> DEFINE Spared == \A i \in incidents :
                        ~(\E k \in incidents' : k.id = i.id) =>
                            /\ i.resolvedAt # Unset
                            /\ i.startedAt < time - IncidentRetention
                            /\ row[i.monitor].state = "DOWN" => \E k \in OpenOf(i.monitor) : k.id # i.id
<1>1. HistoryInvariant /\ ChNext => Spared
  <2> SUFFICES ASSUME HistoryInvariant, ChNext, NEW i \in incidents, ~(\E k \in incidents' : k.id = i.id)
               PROVE  /\ i.resolvedAt # Unset
                      /\ i.startedAt < time - IncidentRetention
                      /\ row[i.monitor].state = "DOWN" => \E k \in OpenOf(i.monitor) : k.id # i.id
    OBVIOUS
  <2>1. DeleteOldIncidents
    BY OthersKeepIncidents
  <2>2. Expired(i)
    BY <2>1 DEF DeleteOldIncidents
  <2>3. cleanup.now \in Nat /\ cleanup.now <= time
    BY <2>1 DEF DeleteOldIncidents, HistoryInvariant, CleanupTypes, Idle
  <2>4. i.startedAt \in Nat /\ i.monitor \in Tracked /\ time \in Nat
    BY DEF HistoryInvariant, IncidentTypes, IncidentRows
  <2>5. i.resolvedAt # Unset /\ i.startedAt < time - IncidentRetention
    BY <2>2, <2>3, <2>4, HistoryAssumption DEF Expired
  <2>6. ASSUME row[i.monitor].state = "DOWN"
        PROVE  \E k \in OpenOf(i.monitor) : k.id # i.id
    <3>1. PICK k \in incidents : k.monitor = i.monitor /\ k.resolvedAt = Unset
      BY <2>4, <2>6 DEF HistoryInvariant, OpenIsDown
    <3>2. k # i
      BY <2>5, <3>1
    <3>3. k \in OpenOf(i.monitor) /\ k.id # i.id
      BY <3>1, <3>2 DEF OpenOf, HistoryInvariant, IdsAreUnique
    <3> QED BY <3>3
  <2> QED BY <2>5, <2>6
<1>2. HistoryInvariant /\ [ChNext]_chVars => [Spared]_chVars
  BY <1>1
<1> QED BY <1>2, HistoryInvariantHolds, PTL DEF ChSpec, RetentionSparesOpenIncidents

-----------------------------------------------------------------------------
(* What a row is shown as.                                                 *)

LEMMA MaxOfTwo ==
  ASSUME NEW x \in Int, NEW y \in Int
  PROVE  Max({x, y}) \in {x, y} /\ Max({x, y}) >= x /\ Max({x, y}) >= y
<1>1. \E z \in {x, y} : \A u \in {x, y} : z >= u
  BY DEF Max
<1> QED BY <1>1 DEF Max

LEMMA Displayed ==
  ASSUME HistoryInvariant, NEW m \in Tracked
  PROVE  LET shown == displayState(row[m], time)
             last  == row[m].lastCheckedAt
         IN  /\ shown \in {"PAUSED", "STALE", "PENDING", "UP", "DOWN"}
             /\ shown = "PAUSED" <=> row[m].paused
             /\ shown \notin {"PAUSED", "STALE"} =>
                   shown = row[m].state /\ (last # Unset /\ row[m].scheduled => time - last <= StaleLimit)
             /\ shown = "STALE" /\ last # Unset => time - last > StaleLimit
<1>1. row[m] \in Rows /\ time \in Nat
  BY DEF HistoryInvariant, RowTypes
<1>2. row[m].state \in {"PENDING", "UP", "DOWN"} /\ row[m].paused \in BOOLEAN
      /\ row[m].scheduled \in BOOLEAN /\ row[m].lastCheckedAt \in Nat \union {Unset}
  BY <1>1 DEF Rows, Times
<1> QED BY <1>1, <1>2, HistoryAssumption DEF displayState, isMonitoringStale

\* The check behind a row that is not stale was not taken by retention.
LEMMA RecentIsKept ==
  ASSUME HistoryInvariant, NEW m \in Tracked, row[m].lastCheckedAt # Unset,
         time - row[m].lastCheckedAt <= StaleLimit
  PROVE  /\ row[m].lastCheckedAt \in Nat
         /\ \E c \in checks : c.monitor = m /\ c.at = row[m].lastCheckedAt
         /\ row[m].failures = 0 => LatestSucceeded(m)
<1>1. row[m].lastCheckedAt \in Nat /\ time \in Nat
  BY DEF HistoryInvariant, RowTypes, Rows, Times
<1>2. ~(row[m].lastCheckedAt < time - CheckRetention)
  BY <1>1, HistoryAssumption
<1>3. RowIsFounded(m)
  BY DEF HistoryInvariant
<1> QED BY <1>1, <1>2, <1>3 DEF RowIsFounded, LatestSucceeded

\* What each screen is given of a monitor, whatever it reads of the incidents.
LEMMA Serialised ==
  ASSUME NEW m, NEW open
  PROVE  LET v == serialiseMonitor(m, open)
         IN  /\ v.state = row[m].state /\ v.shown = displayState(row[m], time)
             /\ v.failures = row[m].failures /\ v.lastCheckedAt = row[m].lastCheckedAt
             /\ v.open = { i.id : i \in { i \in open : i.monitor = m } }
             /\ v.uptime24h = computeUptime(DayWindow, time, countChecksInWindow(time - DayWindow)[m])
  BY DEF serialiseMonitor

LEMMA SilenceIsStale == HistoryInvariant => StaleTracksSilence
<1> SUFFICES ASSUME HistoryInvariant, NEW m \in Tracked
             PROVE  LET shown == MonitorList[m].shown
                        arrived(from) == \E c \in checks : c.monitor = m /\ c.at >= from
                    IN  /\ shown \in {"UP", "DOWN"} => arrived(time - StaleLimit) \/ ~row[m].scheduled
                        /\ shown = "STALE" /\ row[m].lastCheckedAt # Unset =>
                               ~arrived(Max({row[m].resetAt, time - StaleLimit + Flight}))
  BY DEF StaleTracksSilence
<1> DEFINE shown == displayState(row[m], time)
           last  == row[m].lastCheckedAt
<1>1. MonitorList[m].shown = shown
  BY Serialised DEF MonitorList
<1>2. /\ time \in Nat /\ last \in Nat \union {Unset} /\ row[m].resetAt \in Nat
      /\ \A c \in checks : c.at \in Nat
  BY DEF HistoryInvariant, RowTypes, Rows, Times, CheckTypes, CheckRows
<1>3. RowIsFounded(m)
  BY DEF HistoryInvariant
<1>4. StaleLimit \in Nat /\ Flight \in Nat
  BY HistoryAssumption
<1>5. /\ shown \notin {"PAUSED", "STALE"} =>
            shown = row[m].state /\ (last # Unset /\ row[m].scheduled => time - last <= StaleLimit)
      /\ shown = "STALE" /\ last # Unset => time - last > StaleLimit
  BY Displayed
<1> HIDE DEF shown
<1>6. ASSUME shown \in {"UP", "DOWN"}, row[m].scheduled
      PROVE  \E c \in checks : c.monitor = m /\ c.at >= time - StaleLimit
  <2>1. last # Unset /\ time - last <= StaleLimit
    BY <1>3, <1>5, <1>6 DEF RowIsFounded
  <2>2. last \in Nat /\ \E c \in checks : c.monitor = m /\ c.at = last
    BY <2>1, RecentIsKept
  <2> QED BY <1>2, <1>4, <2>1, <2>2
<1>7. ASSUME shown = "STALE", last # Unset, NEW c \in checks, c.monitor = m,
             c.at >= Max({row[m].resetAt, time - StaleLimit + Flight})
      PROVE  FALSE
  <2>1. time - last > StaleLimit
    BY <1>5, <1>7
  <2>2. c.at <= last + Flight
    BY <1>3, <1>7 DEF RowIsFounded
  <2>3. row[m].resetAt \in Int /\ time - StaleLimit + Flight \in Int
    BY <1>2, <1>4
  <2>4. Max({row[m].resetAt, time - StaleLimit + Flight}) \in Int
        /\ Max({row[m].resetAt, time - StaleLimit + Flight}) >= time - StaleLimit + Flight
    BY <2>3, MaxOfTwo
  <2> QED BY <1>2, <1>4, <1>7, <2>1, <2>2, <2>4
<1> QED BY <1>1, <1>6, <1>7

\* uptime.ts:128-135, for every limit, flight time and order of the results and edits: a
\* scheduled monitor shown UP or DOWN was heard of within the limit, and one shown STALE
\* was not.
THEOREM StaleIsSilent == ChSpec => []StaleTracksSilence
  BY HistoryInvariantHolds, SilenceIsStale, PTL

-----------------------------------------------------------------------------
(* The overview.                                                           *)

LEMMA CountIs ==
  ASSUME HistoryInvariant, NEW rows \in SUBSET checks, NEW outcome
  PROVE  /\ Count(rows, outcome) \in Nat
         /\ Count(rows, outcome) > 0 <=> \E c \in rows : c.outcome = outcome
<1> DEFINE S == { c \in rows : c.outcome = outcome }
<1>1. IsFiniteSet(S)
  BY FS_Subset DEF HistoryInvariant, CheckTypes
<1>2. Cardinality(S) \in Nat /\ (Cardinality(S) = 0 <=> S = {})
  BY <1>1, FS_CardinalityType, FS_EmptySet
<1>3. Count(rows, outcome) = Cardinality(S)
  BY DEF Count
<1>4. S = {} <=> ~\E c \in rows : c.outcome = outcome
  OBVIOUS
<1> HIDE DEF S
<1> QED BY <1>2, <1>3, <1>4

\* Each answer has one view of every monitor.
LEMMA ViewsOfAll ==
  /\ DOMAIN Overview.monitors = Tracked
  /\ DOMAIN MonitorList = Tracked
  /\ DOMAIN PublicStatus.monitors = Tracked
  BY DEF Overview, MonitorList, PublicStatus

LEMMA OverviewShows ==
  ASSUME NEW m \in Tracked
  PROVE  /\ Overview.monitors[m].shown = displayState(row[m], time)
         /\ Overview.monitors[m].failures = row[m].failures
         /\ Overview.monitors[m].uptime24h
               = computeUptime(DayWindow, time, countChecksInWindow(time - DayWindow)[m])
         /\ Overview.timelines[m] = bucketChecks(InWindow(m, time - DayWindow), time)
  BY Serialised DEF Overview

\* The bucket a check lands in.
Index(c) == Min({BucketCount - 1, (c.at - (time - DayWindow)) \div (DayWindow \div BucketCount)})
Bucket(m, b) == { c \in InWindow(m, time - DayWindow) : c.at <= time /\ Index(c) = b }

LEMMA TimelineIs ==
  ASSUME NEW m \in Tracked, NEW b \in 0..(BucketCount - 1)
  PROVE  /\ Overview.timelines[m][b].up = Count(Bucket(m, b), "UP")
         /\ Overview.timelines[m][b].down = Count(Bucket(m, b), "DOWN")
         /\ DOMAIN Overview.timelines[m] = 0..(BucketCount - 1)
<1>1. { c \in { c \in InWindow(m, time - DayWindow) : Covers(time - DayWindow, time, c) } : Index(c) = b }
         = Bucket(m, b)
  BY DEF Bucket, Covers, InWindow
<1>2. /\ bucketChecks(InWindow(m, time - DayWindow), time)[b]
            = [up |-> Count(Bucket(m, b), "UP"), down |-> Count(Bucket(m, b), "DOWN")]
      /\ DOMAIN bucketChecks(InWindow(m, time - DayWindow), time) = 0..(BucketCount - 1)
  BY <1>1 DEF bucketChecks, Index
<1> QED BY <1>2, OverviewShows

LEMMA BannerSays ==
  ASSUME NEW views
  PROVE  LET banner == AttentionBanner(views)
         IN  /\ banner.says = "nothing" => /\ With(views, {"DOWN"}) = {} /\ With(views, {"STALE"}) = {}
                                           /\ FailingNotDown(views) = {}
             /\ banner.of \subseteq With(views, {"DOWN"}) \union With(views, {"STALE"})
                                        \union FailingNotDown(views)
             /\ banner.says = "down" <=> With(views, {"DOWN"}) # {}
<1> DEFINE down == With(views, {"DOWN"})
           stale == With(views, {"STALE"})
           failing == FailingNotDown(views)
<1>1. AttentionBanner(views) =
        IF down # {} THEN [says |-> "down", of |-> down]
        ELSE IF stale # {} THEN [says |-> "quiet", of |-> stale]
        ELSE IF failing # {} THEN [says |-> "failing", of |-> failing]
        ELSE [says |-> "nothing", of |-> {}]
  <2> HIDE DEF down, stale, failing
  <2>1. AttentionBanner(views) =
          CASE down # {}  -> [says |-> "down", of |-> down]
            [] down = {} /\ stale # {} -> [says |-> "quiet", of |-> stale]
            [] down = {} /\ stale = {} /\ failing # {} -> [says |-> "failing", of |-> failing]
            [] OTHER -> [says |-> "nothing", of |-> {}]
    BY DEF AttentionBanner, down, stale, failing
  <2> QED BY <2>1
<1> HIDE DEF down, stale, failing
<1> QED BY <1>1 DEF down, stale, failing

LEMMA PlaceIs ==
  ASSUME NEW views, DOMAIN views = Tracked, NEW m \in Tracked,
         views[m].shown \in {"PAUSED", "STALE", "PENDING", "UP", "DOWN"},
         groupMonitors(views).place[m] = 4
  PROVE  views[m].shown \in {"UP", "PENDING"} /\ m \notin Failing(views)
<1>1. groupMonitors(views).place[m] =
        CASE views[m].shown = "DOWN"  -> 1
          [] m \in With(views, {"UP", "PENDING"}) \intersect Failing(views) -> 2
          [] views[m].shown \in {"PAUSED", "STALE"} -> 3
          [] m \in With(views, {"UP", "PENDING"}) \ Failing(views) -> 4
  BY DEF groupMonitors
<1>2. m \in With(views, {"UP", "PENDING"}) <=> views[m].shown \in {"UP", "PENDING"}
  BY DEF With
<1> QED BY <1>1, <1>2


\* What the overview is told of a monitor.
LEMMA OverviewRow ==
  ASSUME HistoryInvariant, NEW m \in Tracked
  PROVE  LET views == Overview.monitors
         IN  /\ views[m].shown \in {"PAUSED", "STALE", "PENDING", "UP", "DOWN"}
             /\ views[m].shown = displayState(row[m], time)
             /\ views[m].failures = row[m].failures
             /\ row[m].failures \in Nat
             /\ OverviewPage.banner = AttentionBanner(views)
             /\ OverviewPage.place = groupMonitors(views).place
             /\ OverviewPage.rows[m] = OverviewMonitorRow(Overview, m)
<1>1. row[m].failures \in Nat
  BY DEF HistoryInvariant, RowTypes, Rows
<1>2. /\ OverviewPage.banner = AttentionBanner(Overview.monitors)
      /\ OverviewPage.place = groupMonitors(Overview.monitors).place
      /\ OverviewPage.rows[m] = OverviewMonitorRow(Overview, m)
  BY DEF OverviewPage
<1>3. displayState(row[m], time) \in {"PAUSED", "STALE", "PENDING", "UP", "DOWN"}
  BY Displayed
<1> QED BY <1>1, <1>2, <1>3, OverviewShows

\* A monitor of the quiet group, or one that no banner could name, is well as far as
\* anything was heard of it.
LEMMA QuietIsWell ==
  ASSUME HistoryInvariant, NEW m \in Tracked, row[m].lastCheckedAt # Unset,
         displayState(row[m], time) \in {"UP", "PENDING"}, row[m].failures = 0
  PROVE  /\ LatestSucceeded(m) \/ Forgotten(m)
         /\ ~row[m].scheduled \/ time - row[m].lastCheckedAt <= StaleLimit
<1>1. row[m].scheduled => time - row[m].lastCheckedAt <= StaleLimit
  BY Displayed
<1>2. RowIsFounded(m)
  BY DEF HistoryInvariant
<1>3. LatestSucceeded(m) \/ row[m].lastCheckedAt < time - CheckRetention
  BY <1>2 DEF RowIsFounded, LatestSucceeded
<1> QED BY <1>1, <1>3, RecentIsKept DEF Forgotten

LEMMA StripIs ==
  ASSUME NEW o, NEW m, NEW b \in DOMAIN o.timelines[m]
  PROVE  OverviewMonitorRow(o, m).strip[b] = bucketTone(o.timelines[m][b])
  BY DEF OverviewMonitorRow

LEMMA NothingHidden == HistoryInvariant => NothingWrongIsHidden
<1> SUFFICES ASSUME HistoryInvariant PROVE NothingWrongIsHidden
  OBVIOUS
<1> DEFINE page == OverviewPage
           views == Overview.monitors
           healthy(m) == page.place[m] = 4
<1>0. DOMAIN views = Tracked
  BY ViewsOfAll
<1>1. ASSUME page.banner.says = "nothing", NEW m \in Tracked, ~row[m].paused, row[m].lastCheckedAt # Unset
      PROVE  /\ LatestSucceeded(m) \/ Forgotten(m)
             /\ ~row[m].scheduled \/ time - row[m].lastCheckedAt <= StaleLimit
  <2>1. With(views, {"DOWN"}) = {} /\ With(views, {"STALE"}) = {} /\ FailingNotDown(views) = {}
    BY <1>1, OverviewRow, BannerSays
  <2>2. views[m].shown \notin {"DOWN", "STALE"} /\ ~(views[m].failures > 0)
    <3> HIDE DEF views
    <3> QED BY <1>0, <2>1 DEF With, FailingNotDown, Failing
  <2>3. views[m].shown # "PAUSED"
    BY <1>1, OverviewRow, Displayed
  <2>4. displayState(row[m], time) \in {"UP", "PENDING"} /\ row[m].failures = 0
    BY <2>2, <2>3, OverviewRow
  <2> QED BY <1>1, <2>4, QuietIsWell
<1>2. ASSUME NEW m \in Tracked, healthy(m)
      PROVE  views[m].shown \in {"UP", "PENDING"} /\ ~(views[m].failures > 0)
  <2>1. groupMonitors(views).place[m] = 4
        /\ views[m].shown \in {"PAUSED", "STALE", "PENDING", "UP", "DOWN"}
    BY <1>2, OverviewRow
  <2>2. views[m].shown \in {"UP", "PENDING"} /\ m \notin Failing(views)
    BY <1>0, <2>1, PlaceIs
  <2> HIDE DEF views
  <2> QED BY <1>0, <2>2 DEF Failing
<1>3. ASSUME NEW m \in Tracked, healthy(m), row[m].lastCheckedAt # Unset
      PROVE  LatestSucceeded(m) \/ Forgotten(m)
  <2>1. displayState(row[m], time) \in {"UP", "PENDING"} /\ row[m].failures = 0
    BY <1>2, <1>3, OverviewRow
  <2> QED BY <1>3, <2>1, QuietIsWell
<1>4. ASSUME NEW m \in page.banner.of, healthy(m)
      PROVE  FALSE
  <2>1. page.banner = AttentionBanner(views)
    BY DEF OverviewPage
  <2>2. m \in With(views, {"DOWN"}) \union With(views, {"STALE"}) \union FailingNotDown(views)
    BY <1>4, <2>1, BannerSays
  <2>3. m \in Tracked /\ (views[m].shown \in {"DOWN", "STALE"} \/ views[m].failures > 0)
    <3> HIDE DEF views
    <3> QED BY <1>0, <2>2 DEF With, FailingNotDown, Failing
  <2> QED BY <1>2, <1>4, <2>3
<1>5. ASSUME NEW m \in Tracked, NEW b \in 0..(BucketCount - 1), page.rows[m].strip[b] = "up"
      PROVE  Overview.timelines[m][b].up > 0 /\ Overview.timelines[m][b].down = 0
  <2> DEFINE bucket == Overview.timelines[m][b]
  <2>1. page.rows[m].strip[b] = bucketTone(bucket)
    <3>1. page.rows[m] = OverviewMonitorRow(Overview, m)
      BY OverviewRow
    <3>2. b \in DOMAIN Overview.timelines[m]
      BY TimelineIs
    <3> HIDE DEF page, bucket
    <3>3. page.rows[m].strip[b] = bucketTone(Overview.timelines[m][b])
      BY <3>1, <3>2, StripIs
    <3> QED BY <3>3 DEF bucket
  <2>2. Bucket(m, b) \in SUBSET checks
    BY DEF Bucket, InWindow
  <2>3. bucket.up \in Nat /\ bucket.down \in Nat
    BY <2>2, TimelineIs, CountIs
  <2> HIDE DEF bucket, page
  <2>4. bucketTone(bucket) = "up"
    BY <1>5, <2>1
  <2>5. bucket.up + bucket.down # 0 /\ ~(bucket.down > 0)
    BY <2>4 DEF bucketTone
  <2> QED BY <2>3, <2>5 DEF bucket
<1> HIDE DEF page
<1>6. page = OverviewPage
  BY DEF page
<1> QED BY <1>1, <1>3, <1>4, <1>5, <1>6 DEF NothingWrongIsHidden

\* OverviewPage.tsx:381-484 and CheckStrip.tsx:29-32, for every number of monitors and
\* every bucket width: the overview that shows no banner has none to show, the quiet group
\* holds no monitor that failed, and none that fell silent but those off the schedule
\* (uptime.ts:131); and a green bucket has no failed check.
THEOREM OverviewHidesNothing == ChSpec => []NothingWrongIsHidden
  BY HistoryInvariantHolds, NothingHidden, PTL


-----------------------------------------------------------------------------
(* The screens together: how many monitors are in which state.             *)

\* The monitors in one of some states, which is what every screen counts.
Displaying(states) == { m \in Tracked : displayState(row[m], time) \in states }

LEMMA OverviewCounts ==
  /\ OverviewPage.cards.attention = Cardinality(Displaying({"DOWN"}))
  /\ OverviewPage.cards.operational = Cardinality(Displaying({"UP", "PENDING"}))
  /\ OverviewPage.cards.inactive = Cardinality(Displaying({"PAUSED", "STALE"}))
<1> DEFINE views == Overview.monitors
           grouped == groupMonitors(views)
<1>1. \A states : With(views, states) = Displaying(states)
  BY ViewsOfAll, OverviewShows DEF With, Displaying
<1>2. grouped.down = With(views, {"DOWN"}) /\ grouped.up = With(views, {"UP", "PENDING"})
      /\ grouped.inactive = With(views, {"PAUSED", "STALE"})
  BY DEF groupMonitors
<1>3. OverviewPage.cards = MetricCards(Overview, grouped)
  BY DEF OverviewPage
<1> HIDE DEF grouped
<1>4. /\ OverviewPage.cards.attention = Cardinality(grouped.down)
      /\ OverviewPage.cards.operational = Cardinality(grouped.up)
      /\ OverviewPage.cards.inactive = Cardinality(grouped.inactive)
  BY <1>3 DEF MetricCards
<1> HIDE DEF views
<1> QED BY <1>1, <1>2, <1>4

LEMMA ListShows ==
  ASSUME NEW m \in Tracked
  PROVE  MonitorList[m] = serialiseMonitor(m, Ongoing(incidents))
  BY DEF MonitorList

LEMMA ListCounts ==
  /\ MonitorsPage.counts.down = Cardinality(Displaying({"DOWN"}))
  /\ MonitorsPage.counts.up = Cardinality(Displaying({"UP"}))
  /\ MonitorsPage.counts.paused = Cardinality(Displaying({"PAUSED"}))
  /\ MonitorsPage.counts.pending = Cardinality(Displaying({"PENDING", "STALE"}))
<1>1. \A states : With(MonitorList, states) = Displaying(states)
  BY ViewsOfAll, ListShows, Serialised DEF With, Displaying
<1>2. MonitorsPage.counts = FilterCounts
  BY DEF MonitorsPage
<1>3. /\ FilterCounts.down = Cardinality(With(MonitorList, {"DOWN"}))
      /\ FilterCounts.up = Cardinality(With(MonitorList, {"UP"}))
      /\ FilterCounts.paused = Cardinality(With(MonitorList, {"PAUSED"}))
      /\ FilterCounts.pending = Cardinality(With(MonitorList, {"PENDING", "STALE"}))
  BY DEF FilterCounts, FILTER_STATES
<1> QED BY <1>1, <1>2, <1>3

LEMMA PublicShows ==
  ASSUME NEW m \in Tracked
  PROVE  PublicStatus.monitors[m].shown = displayState(row[m], time)
  BY DEF PublicStatus, serialisePublicMonitor

LEMMA PublicCounts ==
  /\ PublicStatusPage.paused = Cardinality(Displaying({"PAUSED"}))
  /\ PublicStatusPage.unknown = Cardinality(Displaying({"PENDING", "STALE"}))
  /\ PublicStatusPage.title = overallState({ displayState(row[m], time) : m \in Tracked })
<1>1. \A states : With(PublicStatus.monitors, states) = Displaying(states)
  BY ViewsOfAll, PublicShows DEF With, Displaying
<1>2. /\ PublicStatusPage.paused = Cardinality(With(PublicStatus.monitors, {"PAUSED"}))
      /\ PublicStatusPage.unknown = Cardinality(With(PublicStatus.monitors, {"STALE", "PENDING"}))
      /\ PublicStatusPage.title = PublicStatus.overall
  BY DEF PublicStatusPage
<1>3. Displaying({"STALE", "PENDING"}) = Displaying({"PENDING", "STALE"})
  BY DEF Displaying
<1>4. PublicStatus.overall = overallState({ PublicStatus.monitors[m].shown : m \in Tracked })
  BY DEF PublicStatus
<1>5. { PublicStatus.monitors[m].shown : m \in Tracked } = { displayState(row[m], time) : m \in Tracked }
  BY PublicShows
<1> QED BY <1>1, <1>2, <1>3, <1>4, <1>5

LEMMA CountsAddUp ==
  ASSUME NEW S, NEW T, S \intersect T = {}
  PROVE  /\ Cardinality(Displaying(S \union T)) = Cardinality(Displaying(S)) + Cardinality(Displaying(T))
         /\ Cardinality(Displaying(S)) \in Nat
<1>1. IsFiniteSet(Displaying(S)) /\ IsFiniteSet(Displaying(T))
  <2>1. Displaying(S) \in SUBSET Tracked /\ Displaying(T) \in SUBSET Tracked
    BY DEF Displaying
  <2> QED BY <2>1, FS_Subset, HistoryAssumption
<1>2. Displaying(S \union T) = Displaying(S) \union Displaying(T)
      /\ Displaying(S) \intersect Displaying(T) = {}
  BY DEF Displaying
<1>3. Cardinality(Displaying(S) \union Displaying(T)) =
        Cardinality(Displaying(S)) + Cardinality(Displaying(T)) - Cardinality({})
  BY <1>1, <1>2, FS_Union
<1>4. Cardinality(Displaying(S)) \in Nat /\ Cardinality(Displaying(T)) \in Nat /\ Cardinality({}) = 0
  BY <1>1, FS_CardinalityType, FS_EmptySet
<1>5. Cardinality(Displaying(S)) + Cardinality(Displaying(T)) - Cardinality({})
        = Cardinality(Displaying(S)) + Cardinality(Displaying(T))
  BY <1>4
<1>6. Cardinality(Displaying(S) \union Displaying(T)) =
        Cardinality(Displaying(S)) + Cardinality(Displaying(T))
  BY <1>3, <1>5, Zenon
<1> QED BY <1>2, <1>4, <1>6, Zenon

LEMMA CountsAgree ==
  /\ OverviewPage.cards.attention = MonitorsPage.counts.down
  /\ OverviewPage.cards.operational + OverviewPage.cards.inactive
         = MonitorsPage.counts.up + MonitorsPage.counts.pending + MonitorsPage.counts.paused
  /\ MonitorsPage.counts.pending = PublicStatusPage.unknown
  /\ MonitorsPage.counts.paused = PublicStatusPage.paused
<1> DEFINE n(states) == Cardinality(Displaying(states))
<1>1. {"UP", "PENDING"} = {"UP"} \union {"PENDING"} /\ {"PAUSED", "STALE"} = {"PAUSED"} \union {"STALE"}
      /\ {"PENDING", "STALE"} = {"PENDING"} \union {"STALE"}
  OBVIOUS
<1>2. {"UP"} \intersect {"PENDING"} = {} /\ {"PAUSED"} \intersect {"STALE"} = {}
      /\ {"PENDING"} \intersect {"STALE"} = {}
  OBVIOUS
<1>3. /\ n({"UP", "PENDING"}) = n({"UP"}) + n({"PENDING"})
      /\ n({"PAUSED", "STALE"}) = n({"PAUSED"}) + n({"STALE"})
      /\ n({"PENDING", "STALE"}) = n({"PENDING"}) + n({"STALE"})
  BY <1>1, <1>2, CountsAddUp
<1>4. \A states : n(states) \in Nat
  <2> SUFFICES ASSUME NEW states PROVE n(states) \in Nat
    OBVIOUS
  <2>1. states \intersect {} = {}
    OBVIOUS
  <2> QED BY <2>1, CountsAddUp
<1>5. n({"UP", "PENDING"}) + n({"PAUSED", "STALE"}) = n({"UP"}) + n({"PENDING", "STALE"}) + n({"PAUSED"})
  <2>1. (n({"UP"}) + n({"PENDING"})) + (n({"PAUSED"}) + n({"STALE"}))
          = n({"UP"}) + (n({"PENDING"}) + n({"STALE"})) + n({"PAUSED"})
    <3> HIDE DEF n
    <3>1. n({"UP"}) \in Nat /\ n({"PENDING"}) \in Nat /\ n({"PAUSED"}) \in Nat /\ n({"STALE"}) \in Nat
      BY <1>4
    <3> QED BY <3>1
  <2> HIDE DEF n
  <2> QED BY <1>3, <2>1, Zenon
<1> QED BY <1>5, OverviewCounts, ListCounts, PublicCounts

\* A page of the title OPERATIONAL or UNKNOWN has no monitor that is DOWN.
LEMMA TitleAgrees ==
  ASSUME PublicStatusPage.title \in {"OPERATIONAL", "UNKNOWN"}
  PROVE  OverviewPage.banner.says # "down"
<1> DEFINE states == { displayState(row[m], time) : m \in Tracked }
<1>1. overallState(states) \in {"OPERATIONAL", "UNKNOWN"}
  BY PublicCounts
<1>2. "DOWN" \notin states
  <2> HIDE DEF states
  <2> QED BY <1>1 DEF overallState
<1>3. With(Overview.monitors, {"DOWN"}) = {}
  BY <1>2, ViewsOfAll, OverviewShows DEF With
<1>4. OverviewPage.banner = AttentionBanner(Overview.monitors)
  BY DEF OverviewPage
<1> QED BY <1>3, <1>4, BannerSays


-----------------------------------------------------------------------------
(* The screens together: one monitor.                                      *)

LEMMA DetailShows ==
  ASSUME HistoryInvariant, NEW m \in Tracked
  PROVE  LET listed == Newest(DetailLimit, { i \in incidents : i.monitor = m })
         IN  /\ MonitorDetail(m).monitor = serialiseMonitor(m, Ongoing(listed))
             /\ MonitorDetail(m).day
                   = computeUptime(DayWindow, time, countChecksInWindow(time - DayWindow)[m])
             /\ MonitorDetail(m).checks = InWindow(m, time - WeekWindow)
             /\ MonitorDetail(m).incidents = listed
  BY DEF MonitorDetail

LEMMA UptimeIs ==
  ASSUME NEW window, NEW now, NEW counts
  PROVE  /\ computeUptime(window, now, counts).windowStart = now - window
         /\ computeUptime(window, now, counts).recorded = counts.up + counts.down
  BY DEF computeUptime

LEMMA PageShows ==
  ASSUME NEW m
  PROVE  LET page == MonitorDetailPage(m)
         IN  /\ page.claims = explainState(MonitorDetail(m).monitor).claim
             /\ page.badge = StateBadge(MonitorDetail(m).monitor.shown)
             /\ page.notices = StateNotices(MonitorDetail(m).monitor)
             /\ page.day.of = MonitorDetail(m).day.recorded
             /\ page.chart["24h"] = ResponseTimeChart(rangedChecks(MonitorDetail(m), "24h"))
             /\ page.incidents = IncidentList(MonitorDetail(m).incidents)
<1> DEFINE detail == MonitorDetail(m)
<1>1. UptimeStat(detail.day).of = detail.day.recorded
  BY DEF UptimeStat
<1> HIDE DEF detail
<1>2. MonitorDetailPage(m) =
        [claims      |-> explainState(detail.monitor).claim,
         badge       |-> StateBadge(detail.monitor.shown),
         notices     |-> StateNotices(detail.monitor),
         day         |-> UptimeStat(detail.day), week |-> UptimeStat(detail.week),
         chart       |-> [range \in {"24h", "7d"} |-> ResponseTimeChart(rangedChecks(detail, range))],
         incidents   |-> IncidentList(detail.incidents)]
  BY DEF MonitorDetailPage, detail
<1> QED BY <1>1, <1>2 DEF detail

\* The day's chart draws the checks of the day, and the day's figure is of them.
LEMMA ChartIs ==
  ASSUME HistoryInvariant, NEW m \in Tracked
  PROVE  LET chart == MonitorDetailPage(m).chart["24h"]
             day   == InWindow(m, time - DayWindow)
         IN  /\ chart.line = Count(day, "UP") /\ chart.marks = Count(day, "DOWN")
             /\ chart.line + chart.marks = MonitorDetailPage(m).day.of
<1> DEFINE day == InWindow(m, time - DayWindow)
           counts == countChecksInWindow(time - DayWindow)[m]
           detail == MonitorDetail(m)
<1>1. time \in Nat /\ \A c \in checks : c.at \in Nat
  BY DEF HistoryInvariant, CheckTypes, CheckRows
<1>2. counts.up = Count(day, "UP") /\ counts.down = Count(day, "DOWN")
  BY DEF countChecksInWindow
<1>3. detail.day.windowStart = time - DayWindow /\ detail.day.recorded = counts.up + counts.down
  <2>1. detail.day = computeUptime(DayWindow, time, counts)
    BY DetailShows
  <2> HIDE DEF counts, detail
  <2> QED BY <2>1, UptimeIs
<1>4. rangedChecks(detail, "24h") = day
  <2>1. detail.checks = InWindow(m, time - WeekWindow)
    BY DetailShows
  <2>2. rangedChecks(detail, "24h") = { c \in detail.checks : c.at >= detail.day.windowStart }
    BY DEF rangedChecks
  <2>3. \A c \in checks : c.at >= time - DayWindow => c.at >= time - WeekWindow
    BY <1>1, HistoryAssumption
  <2> HIDE DEF detail
  <2> QED BY <1>3, <2>1, <2>2, <2>3 DEF InWindow
<1>5. MonitorDetailPage(m).chart["24h"] = ResponseTimeChart(day)
  BY <1>4, PageShows
<1>6. MonitorDetailPage(m).day.of = detail.day.recorded
  BY PageShows
<1> HIDE DEF day, detail, counts
<1> QED BY <1>2, <1>3, <1>5, <1>6 DEF ResponseTimeChart, day

LEMMA QuotientIs ==
  ASSUME NEW a \in Nat, NEW b \in Nat \ {0}
  PROVE  a \div b \in Nat /\ (b <= a => a \div b \in Nat \ {0})
  OBVIOUS

LEMMA MinOfTwo ==
  ASSUME NEW x \in Int, NEW y \in Int
  PROVE  Min({x, y}) \in {x, y} /\ Min({x, y}) <= x /\ Min({x, y}) <= y
<1>1. \E z \in {x, y} : \A u \in {x, y} : z <= u
  BY DEF Min
<1> QED BY <1>1 DEF Min

\* Every check of the day lands in a bucket.
LEMMA IndexIsABucket ==
  ASSUME HistoryInvariant, NEW m \in Tracked, NEW c \in InWindow(m, time - DayWindow)
  PROVE  Index(c) \in 0..(BucketCount - 1) /\ c \in Bucket(m, Index(c))
<1>1. /\ c \in checks /\ c.monitor = m /\ c.at >= time - DayWindow
      /\ c.at \in Nat /\ c.at <= time /\ time \in Nat
  BY DEF InWindow, HistoryInvariant, CheckTypes, CheckRows
<1>2. DayWindow \in Nat \ {0} /\ BucketCount \in Nat \ {0} /\ BucketCount <= DayWindow
  BY HistoryAssumption
<1>3. DayWindow \div BucketCount \in Nat \ {0}
  BY <1>2, QuotientIs
<1>4. c.at - (time - DayWindow) \in Nat
  BY <1>1, <1>2
<1>5. (c.at - (time - DayWindow)) \div (DayWindow \div BucketCount) \in Nat
  BY <1>3, <1>4, QuotientIs
<1>6. Index(c) \in 0..(BucketCount - 1)
  <2>1. ASSUME NEW x \in Nat
        PROVE  Min({BucketCount - 1, x}) \in 0..(BucketCount - 1)
    <3>1. BucketCount - 1 \in Nat
      BY <1>2
    <3>2. BucketCount - 1 \in Int /\ x \in Int
      BY <3>1
    <3>3. Min({BucketCount - 1, x}) \in {BucketCount - 1, x} /\ Min({BucketCount - 1, x}) <= BucketCount - 1
      BY <3>2, MinOfTwo
    <3> QED BY <3>1, <3>3
  <2> QED BY <1>5, <2>1 DEF Index
<1> QED BY <1>1, <1>6 DEF Bucket


LEMMA StripsCount ==
  ASSUME NEW buckets, IsFiniteSet(DOMAIN buckets)
  PROVE  summariseTimeline(buckets)["down"] > 0
            <=> \E b \in DOMAIN buckets : bucketTone(buckets[b]) = "down"
<1> DEFINE S == { b \in DOMAIN buckets : bucketTone(buckets[b]) = "down" }
<1>1. summariseTimeline(buckets)["down"] = Cardinality(S)
  BY DEF summariseTimeline
<1>2. S \in SUBSET (DOMAIN buckets)
  OBVIOUS
<1>3. IsFiniteSet(S)
  BY <1>2, FS_Subset
<1>4. Cardinality(S) \in Nat /\ (Cardinality(S) = 0 <=> S = {})
  BY <1>3, FS_CardinalityType, FS_EmptySet
<1>5. S # {} <=> \E b \in DOMAIN buckets : bucketTone(buckets[b]) = "down"
  OBVIOUS
<1> HIDE DEF S
<1> QED BY <1>1, <1>4, <1>5

\* The chart of the day has a mark of failure exactly when the strip has a red bucket.
LEMMA ChartMatchesStrip ==
  ASSUME HistoryInvariant, NEW m \in Tracked
  PROVE  MonitorDetailPage(m).chart["24h"].marks > 0
            <=> summariseTimeline(Overview.timelines[m])["down"] > 0
<1> DEFINE day == InWindow(m, time - DayWindow)
           strip == Overview.timelines[m]
<1>1. day \in SUBSET checks /\ \A b : Bucket(m, b) \in SUBSET day
  BY DEF InWindow, Bucket
<1>2. MonitorDetailPage(m).chart["24h"].marks > 0 <=> \E c \in day : c.outcome = "DOWN"
  <2>1. MonitorDetailPage(m).chart["24h"].marks = Count(day, "DOWN")
    BY ChartIs
  <2> QED BY <1>1, <2>1, CountIs
<1>3. DOMAIN strip = 0..(BucketCount - 1)
  <2>1. 0 \in 0..(BucketCount - 1)
    BY HistoryAssumption
  <2> QED BY <2>1, TimelineIs
<1>4. IsFiniteSet(0..(BucketCount - 1))
  BY FS_Interval, HistoryAssumption
<1>5. ASSUME NEW b \in 0..(BucketCount - 1)
      PROVE  bucketTone(strip[b]) = "down" <=> \E c \in Bucket(m, b) : c.outcome = "DOWN"
  <2>1. Bucket(m, b) \in SUBSET checks
    BY <1>1
  <2>2. strip[b].up = Count(Bucket(m, b), "UP") /\ strip[b].down = Count(Bucket(m, b), "DOWN")
    BY TimelineIs
  <2>3. /\ strip[b].up \in Nat /\ strip[b].down \in Nat
        /\ strip[b].down > 0 <=> \E c \in Bucket(m, b) : c.outcome = "DOWN"
    BY <2>1, <2>2, CountIs
  <2> HIDE DEF strip
  <2>4. bucketTone(strip[b]) = "down" <=> strip[b].down > 0
    BY <2>3 DEF bucketTone
  <2> QED BY <2>3, <2>4
<1>6. (\E b \in 0..(BucketCount - 1) : bucketTone(strip[b]) = "down") <=> \E c \in day : c.outcome = "DOWN"
  <2>1. ASSUME NEW c \in day
        PROVE  \E b \in 0..(BucketCount - 1) : c \in Bucket(m, b)
    BY IndexIsABucket
  <2> HIDE DEF strip, day
  <2> QED BY <1>1, <1>5, <2>1
<1>7. summariseTimeline(strip)["down"] > 0 <=> \E b \in DOMAIN strip : bucketTone(strip[b]) = "down"
  <2> HIDE DEF strip
  <2> QED BY <1>3, <1>4, StripsCount
<1> HIDE DEF strip, day
<1>8. summariseTimeline(strip)["down"] > 0 <=> \E c \in day : c.outcome = "DOWN"
  BY <1>3, <1>6, <1>7
<1> QED BY <1>2, <1>8 DEF strip, day

\* A claim of the detail page that a notice below it does not correct is true.
LEMMA ClaimsHold ==
  ASSUME HistoryInvariant, NEW m \in Tracked, "mostRecentFailed" \notin MonitorDetailPage(m).notices
  PROVE  /\ MonitorDetailPage(m).claims = "lastSucceeded" => LatestSucceeded(m) \/ Forgotten(m)
         /\ MonitorDetailPage(m).claims = "noCheckYet" => row[m].lastCheckedAt = Unset
<1> DEFINE v == MonitorDetail(m).monitor
<1>1. v.shown = displayState(row[m], time) /\ v.failures = row[m].failures
  <2>1. v = serialiseMonitor(m, Ongoing(Newest(DetailLimit, { i \in incidents : i.monitor = m })))
    BY DetailShows
  <2> HIDE DEF v
  <2> QED BY <2>1, Serialised
<1>2. row[m].failures \in Nat
  BY DEF HistoryInvariant, RowTypes, Rows
<1>3. MonitorDetailPage(m).claims = explainState(v).claim /\ MonitorDetailPage(m).notices = StateNotices(v)
  BY PageShows
<1>4. v.shown \in {"PAUSED", "STALE", "PENDING", "UP", "DOWN"}
  BY <1>1, Displayed
<1> HIDE DEF v
<1>5. v.shown = "DOWN" \/ ~(v.failures > 0)
  BY <1>3 DEF StateNotices, failureProgress
<1>6. /\ explainState(v).claim = "lastSucceeded" => v.shown = "UP"
      /\ explainState(v).claim = "noCheckYet" => v.shown = "PENDING"
  BY <1>4 DEF explainState
<1>7. RowIsFounded(m)
  BY DEF HistoryInvariant
<1>8. v.shown \in {"UP", "PENDING"} => row[m].failures = 0 /\ v.shown = row[m].state
  BY <1>1, <1>2, <1>5, Displayed
<1>9. v.shown = "UP" => row[m].lastCheckedAt # Unset
  BY <1>7, <1>8 DEF RowIsFounded
<1>10. v.shown = "UP" => LatestSucceeded(m) \/ Forgotten(m)
  BY <1>1, <1>8, <1>9, QuietIsWell
<1>11. v.shown = "PENDING" => row[m].lastCheckedAt = Unset
  BY <1>7, <1>8 DEF RowIsFounded
<1> QED BY <1>3, <1>6, <1>10, <1>11


-----------------------------------------------------------------------------
(* The screens together: incidents.                                        *)

LEMMA NewestIs ==
  ASSUME NEW limit, NEW rows
  PROVE  Newest(limit, rows) \subseteq rows
  BY DEF Newest

\* An incident that a screen leaves out for its limit has as many others beside it.
LEMMA LeftOut ==
  ASSUME HistoryInvariant, NEW limit \in Nat, NEW rows \in SUBSET incidents,
         NEW i \in rows, i \notin Newest(limit, rows)
  PROVE  Cardinality({ k \in incidents : k.id # i.id /\ k.startedAt >= i.startedAt }) >= limit
<1> DEFINE above == { k \in rows : \/ k.startedAt > i.startedAt
                                   \/ k.startedAt = i.startedAt /\ k.id > i.id }
           others == { k \in incidents : k.id # i.id /\ k.startedAt >= i.startedAt }
<1>1. /\ IsFiniteSet(incidents) /\ IdsAreUnique
      /\ \A k \in incidents : k.id \in Nat /\ k.startedAt \in Nat
  BY DEF HistoryInvariant, IncidentTypes, IncidentRows
<1>2. above \subseteq others
  BY <1>1 DEF IdsAreUnique
<1>3. IsFiniteSet(others)
  BY <1>1, FS_Subset
<1>4. ~(Cardinality(above) < limit)
  BY DEF Newest
<1> HIDE DEF above, others
<1>5. IsFiniteSet(above) /\ Cardinality(above) <= Cardinality(others)
  BY <1>2, <1>3, FS_Subset
<1>6. Cardinality(above) \in Nat /\ Cardinality(others) \in Nat
  BY <1>3, <1>5, FS_CardinalityType
<1> QED BY <1>4, <1>5, <1>6 DEF others

LEMMA Badges ==
  ASSUME NEW rows, NEW e \in IncidentList(rows)
  PROVE  \E i \in rows : /\ e.id = i.id /\ e.startedAt = i.startedAt
                         /\ e.badge = "down" => i.resolvedAt = Unset
<1>1. PICK i \in rows :
        e = [id |-> i.id, startedAt |-> i.startedAt,
             badge |-> StateBadge(IF i.resolvedAt = Unset THEN "DOWN" ELSE "UP")]
  BY DEF IncidentList
<1>2. StateBadge("UP") = "up"
  BY DEF StateBadge
<1>3. e.badge = "down" => i.resolvedAt = Unset
  BY <1>1, <1>2
<1> QED BY <1>1, <1>3

\* The incidents the public page takes, and those it shows of one monitor.
PublicListed == Newest(PublicLimit, { i \in incidents : i.startedAt >= time - WeekWindow })
PublicOf(m)  == Newest(PublicPerMonitor, { i \in PublicListed : i.monitor = m })

LEMMA PublicSince ==
  ASSUME NEW m \in Tracked
  PROVE  PublicStatusPage.rows[m].since = { i.startedAt : i \in Ongoing(PublicOf(m)) }
<1>1. PublicStatus.monitors[m].incidents = PublicOf(m)
  BY DEF PublicStatus, serialisePublicMonitor, PublicListed, PublicOf
<1>2. PublicStatusPage.rows[m].since = { i.startedAt : i \in Ongoing(PublicStatus.monitors[m].incidents) }
  BY DEF PublicStatusPage
<1> QED BY <1>1, <1>2

LEMMA PublicOfIs ==
  ASSUME NEW m
  PROVE  PublicOf(m) \subseteq { i \in incidents : i.monitor = m }
<1>1. PublicListed \subseteq incidents
  BY NewestIs DEF PublicListed
<1> QED BY <1>1, NewestIs DEF PublicOf

\* What the public page calls ongoing is open for the owner, who is not told that the
\* monitor is up, and that it is in trouble unless an edit left the incident so.
LEMMA OngoingForAll ==
  ASSUME HistoryInvariant, NEW m \in Tracked, PublicStatusPage.rows[m].since # {}
  PROVE  /\ MonitorsPage.rows[m].openIncident
         /\ MonitorDetailPage(m).badge # "up"
         /\ MonitorDetailPage(m).badge \in {"down", "warn"} \/ m \in left
<1>1. PICK i \in incidents : i.monitor = m /\ i.resolvedAt = Unset
  BY PublicSince, PublicOfIs DEF Ongoing
<1>2. MonitorsPage.rows[m].openIncident
  <2>1. MonitorList[m].open = { k.id : k \in { k \in Ongoing(incidents) : k.monitor = m } }
    <3>1. MonitorList[m] = serialiseMonitor(m, Ongoing(incidents))
      BY ListShows
    <3> QED BY <3>1, Serialised
  <2>2. i.id \in MonitorList[m].open
    BY <1>1, <2>1 DEF Ongoing
  <2>3. MonitorsPage.rows[m].openIncident = (MonitorList[m].open # {})
    BY DEF MonitorsPage
  <2> QED BY <2>2, <2>3
<1>3. /\ displayState(row[m], time) \in {"PAUSED", "STALE", "PENDING", "DOWN"}
      /\ displayState(row[m], time) \in {"DOWN", "STALE"} \/ m \in left
  <2>1. /\ row[m].state = "DOWN" \/ m \in left
        /\ row[m].state # "UP"
        /\ row[m].paused => m \in left
    BY <1>1 DEF HistoryInvariant, OpenIsDown
  <2> QED BY <2>1, Displayed
<1>4. MonitorDetail(m).monitor.shown = displayState(row[m], time)
  <2>1. MonitorDetail(m).monitor
          = serialiseMonitor(m, Ongoing(Newest(DetailLimit, { k \in incidents : k.monitor = m })))
    BY DetailShows
  <2> QED BY <2>1, Serialised
<1>5. /\ StateBadge("DOWN") = "down" /\ StateBadge("STALE") = "warn"
      /\ StateBadge("PENDING") = "info" /\ StateBadge("PAUSED") = "neutral"
  BY DEF StateBadge
<1> QED BY <1>2, <1>3, <1>4, <1>5, PageShows

\* What the owner sees as ongoing the public page shows too, unless it is too old for
\* the page or too many others are newer.
LEMMA OngoingIsPublic ==
  ASSUME HistoryInvariant, NEW m \in Tracked, NEW e \in MonitorDetailPage(m).incidents,
         e.badge = "down", ~(e.startedAt < time - WeekWindow),
         ~(Cardinality({ i \in incidents : i.id # e.id /\ i.startedAt >= e.startedAt }) >= PublicPerMonitor)
  PROVE  PublicStatusPage.rows[m].since = {e.startedAt}
<1> DEFINE others == { i \in incidents : i.id # e.id /\ i.startedAt >= e.startedAt }
           week   == { i \in incidents : i.startedAt >= time - WeekWindow }
           own    == { i \in PublicListed : i.monitor = m }
<1>1. PICK i \in incidents : /\ e.id = i.id /\ e.startedAt = i.startedAt
                             /\ i.resolvedAt = Unset /\ i.monitor = m
  <2>1. MonitorDetailPage(m).incidents = IncidentList(MonitorDetail(m).incidents)
    BY PageShows
  <2>2. MonitorDetail(m).incidents = Newest(DetailLimit, { k \in incidents : k.monitor = m })
    BY DetailShows
  <2>3. MonitorDetail(m).incidents \subseteq { k \in incidents : k.monitor = m }
    BY <2>2, NewestIs
  <2> QED BY <2>1, <2>3, Badges
<1>2. /\ time \in Nat /\ i.startedAt \in Nat /\ OpenIsDown
      /\ WeekWindow \in Nat /\ PublicLimit \in Nat /\ PublicPerMonitor \in Nat
      /\ PublicPerMonitor <= PublicLimit
  BY HistoryAssumption, PublicAssumption DEF HistoryInvariant, IncidentTypes, IncidentRows
<1>3. others = { k \in incidents : k.id # i.id /\ k.startedAt >= i.startedAt }
  BY <1>1
<1>4. IsFiniteSet(others)
  BY FS_Subset DEF HistoryInvariant, IncidentTypes
<1>5. Cardinality(others) \in Nat
  BY <1>4, FS_CardinalityType
<1>6. ~(Cardinality(others) >= PublicPerMonitor)
  OBVIOUS
<1>7. i \in week
  BY <1>1, <1>2
<1>8. week \in SUBSET incidents /\ PublicListed = Newest(PublicLimit, week)
  BY DEF PublicListed
<1> HIDE DEF others, week
<1>9. ~(Cardinality(others) >= PublicLimit)
  BY <1>2, <1>5, <1>6
<1>10. i \in PublicListed
  BY <1>2, <1>3, <1>7, <1>8, <1>9, LeftOut
<1>11. i \in own /\ own \in SUBSET incidents /\ PublicOf(m) = Newest(PublicPerMonitor, own)
  BY <1>1, <1>8, <1>10, NewestIs DEF PublicOf
<1> HIDE DEF own
<1>12. i \in PublicOf(m)
  BY <1>2, <1>3, <1>6, <1>11, LeftOut
<1>13. i \in Ongoing(PublicOf(m)) /\ \A k \in Ongoing(PublicOf(m)) : k = i
  BY <1>1, <1>2, <1>12, PublicOfIs DEF Ongoing, OpenIsDown
<1>14. PublicStatusPage.rows[m].since = { k.startedAt : k \in Ongoing(PublicOf(m)) }
  BY PublicSince
<1> QED BY <1>1, <1>13, <1>14

LEMMA OneStory == HistoryInvariant => ScreensAgree
<1> SUFFICES ASSUME HistoryInvariant PROVE ScreensAgree
  OBVIOUS
<1>1. ASSUME NEW m \in Tracked
      PROVE  \/ "mostRecentFailed" \in MonitorDetailPage(m).notices
             \/ CASE MonitorDetailPage(m).claims = "lastSucceeded" -> LatestSucceeded(m) \/ Forgotten(m)
                  [] MonitorDetailPage(m).claims = "noCheckYet" -> row[m].lastCheckedAt = Unset
                  [] OTHER -> TRUE
  <2> DEFINE claims == MonitorDetailPage(m).claims
             notices == MonitorDetailPage(m).notices
  <2>1. "mostRecentFailed" \notin notices =>
          /\ claims = "lastSucceeded" => LatestSucceeded(m) \/ Forgotten(m)
          /\ claims = "noCheckYet" => row[m].lastCheckedAt = Unset
    BY ClaimsHold
  <2> HIDE DEF claims, notices
  <2>2. \/ "mostRecentFailed" \in notices
        \/ CASE claims = "lastSucceeded" -> LatestSucceeded(m) \/ Forgotten(m)
             [] claims = "noCheckYet" -> row[m].lastCheckedAt = Unset
             [] OTHER -> TRUE
    BY <2>1
  <2> QED BY <2>2 DEF claims, notices
<1>2. ASSUME NEW m \in Tracked
      PROVE  /\ MonitorDetailPage(m).chart["24h"].marks > 0
                   <=> summariseTimeline(Overview.timelines[m])["down"] > 0
             /\ MonitorDetailPage(m).chart["24h"].line + MonitorDetailPage(m).chart["24h"].marks
                   = MonitorDetailPage(m).day.of
  BY ChartMatchesStrip, ChartIs
<1>3. ASSUME NEW m \in Tracked
      PROVE  PublicStatusPage.rows[m].since # {} =>
               /\ MonitorsPage.rows[m].openIncident
               /\ MonitorDetailPage(m).badge # "up"
               /\ MonitorDetailPage(m).badge \in {"down", "warn"} \/ m \in left
  BY OngoingForAll
<1>4. ASSUME NEW m \in Tracked, NEW e \in MonitorDetailPage(m).incidents, e.badge = "down"
      PROVE  \/ PublicStatusPage.rows[m].since = {e.startedAt}
             \/ e.startedAt < time - WeekWindow
             \/ Cardinality({ i \in incidents : i.id # e.id /\ i.startedAt >= e.startedAt })
                    >= PublicPerMonitor
  BY <1>4, OngoingIsPublic
<1> QED BY <1>1, <1>2, <1>3, <1>4, CountsAgree, TitleAgrees, Zenon DEF ScreensAgree

\* overview.ts:60-140, statusPage.ts:95-142 and the three screens of the owner, for every
\* number of monitors, window, limit and history: read at one moment they contradict each
\* other only on an incident that an edit left open (monitors.ts:134-174).
THEOREM ScreensTellOneStory == ChSpec => []ScreensAgree
  BY HistoryInvariantHolds, OneStory, PTL


-----------------------------------------------------------------------------
(* Sums.  The fold of Functions is a recursive function over the subsets of *)
(* its domain: that it is defined, and what it adds up, is by the smallest  *)
(* subset for which it would not be so.                                     *)

\* The element a fold takes next, and what it adds of a set to what it made of the rest.
Picked(s) == CHOOSE x \in s : TRUE
Added(f, s, sum) == IF s = {} THEN 0 ELSE f[Picked(s)] + sum[s \ {Picked(s)}]

\* sum is what the fold over f computes for every subset of T.
Sums(f, T, sum) == /\ sum = [s \in SUBSET T |-> sum[s]]
                   /\ \A s \in SUBSET T : sum[s] = Added(f, s, sum)

LEMMA PickedIsIn ==
  ASSUME NEW s, s # {}
  PROVE  Picked(s) \in s
  BY DEF Picked

LEMMA SumsAreUnique ==
  ASSUME NEW f, NEW T, NEW U, NEW g, NEW h, IsFiniteSet(T), Sums(f, T, g), Sums(f, U, h),
         NEW s \in SUBSET T, s \in SUBSET U
  PROVE  g[s] = h[s]
<1> DEFINE bad == { v \in SUBSET T : v \in SUBSET U /\ g[v] # h[v] }
<1>1. SUFFICES ASSUME bad # {} PROVE FALSE
  OBVIOUS
<1>2. PICK v \in bad : \A u \in SUBSET v : u # v => u \notin bad
  BY <1>1, SmallestSet
<1>3. v \in SUBSET T /\ v \in SUBSET U /\ g[v] # h[v]
  OBVIOUS
<1>4. g[v] = Added(f, v, g) /\ h[v] = Added(f, v, h)
  BY <1>3 DEF Sums
<1>5. v # {}
  BY <1>3, <1>4 DEF Added
<1> DEFINE u == v \ {Picked(v)}
<1>6. u \in SUBSET v /\ u # v /\ u \in SUBSET T /\ u \in SUBSET U
  BY <1>3, <1>5, PickedIsIn
<1>7. g[u] = h[u]
  BY <1>2, <1>6
<1> QED BY <1>3, <1>4, <1>5, <1>7 DEF Added

LEMMA SumsExist ==
  ASSUME NEW f, NEW T, IsFiniteSet(T)
  PROVE  \E sum : Sums(f, T, sum)
<1> DEFINE bad == { s \in SUBSET T : ~\E sum : Sums(f, s, sum) }
<1>1. SUFFICES ASSUME bad # {} PROVE FALSE
  OBVIOUS
<1>2. PICK s \in bad : \A u \in SUBSET s : u # s => u \notin bad
  <2>1. bad \in SUBSET (SUBSET T)
    OBVIOUS
  <2> HIDE DEF bad
  <2> QED BY <1>1, <2>1, SmallestSet
<1>3. s \in SUBSET T /\ ~\E sum : Sums(f, s, sum)
  OBVIOUS
<1> DEFINE of(u)    == CHOOSE sum : Sums(f, u, sum)
           value(u) == of(u)[u]
           sum      == [u \in SUBSET s |-> IF u = {} THEN 0 ELSE f[Picked(u)] + value(u \ {Picked(u)})]
<1>4. ASSUME NEW u \in SUBSET s, u # s
      PROVE  Sums(f, u, of(u)) /\ IsFiniteSet(u)
  <2>1. \E h : Sums(f, u, h)
    BY <1>2, <1>3, <1>4
  <2>2. IsFiniteSet(u)
    BY <1>3, FS_Subset
  <2> QED BY <2>1, <2>2
<1> HIDE DEF bad, of
<1>5. ASSUME NEW v \in SUBSET s, v # s
      PROVE  sum[v] = value(v)
  <2>1. value(v) = Added(f, v, of(v))
    BY <1>4, <1>5 DEF Sums
  <2>2. CASE v = {}
    BY <2>1, <2>2 DEF Added
  <2>3. CASE v # {}
    <3> DEFINE w == v \ {Picked(v)}
    <3>1. w \in SUBSET v /\ w # v /\ w \in SUBSET s /\ w # s
      BY <1>5, <2>3, PickedIsIn
    <3>2. Sums(f, w, of(w)) /\ IsFiniteSet(w) /\ Sums(f, v, of(v))
      BY <1>4, <1>5, <3>1
    <3>3. w \in SUBSET w
      OBVIOUS
    <3>4. of(w)[w] = of(v)[w]
      <4> HIDE DEF w
      <4> QED BY <3>1, <3>2, <3>3, SumsAreUnique
    <3>5. sum[v] = f[Picked(v)] + value(w)
      BY <2>3
    <3>6. value(v) = f[Picked(v)] + of(v)[w]
      BY <2>1, <2>3 DEF Added
    <3> QED BY <3>4, <3>5, <3>6
  <2> QED BY <2>2, <2>3
<1>6. ASSUME NEW u \in SUBSET s
      PROVE  sum[u] = Added(f, u, sum)
  <2>1. CASE u = {}
    BY <2>1 DEF Added
  <2>2. CASE u # {}
    <3> DEFINE v == u \ {Picked(u)}
    <3>1. v \in SUBSET s /\ v # s
      BY <2>2, PickedIsIn
    <3>2. sum[u] = f[Picked(u)] + value(v)
      BY <2>2
    <3>3. sum[v] = value(v)
      BY <1>5, <3>1
    <3> HIDE DEF sum, value
    <3> QED BY <2>2, <3>2, <3>3 DEF Added
  <2> QED BY <2>1, <2>2
<1>7. sum = [u \in SUBSET s |-> sum[u]]
  BY Zenon
<1> HIDE DEF sum
<1>8. Sums(f, s, sum)
  BY <1>6, <1>7 DEF Sums
<1> QED BY <1>3, <1>8

LEMMA SumOverIs ==
  ASSUME NEW f, IsFiniteSet(DOMAIN f)
  PROVE  \E sum : Sums(f, DOMAIN f, sum) /\ SumOver(f) = sum[DOMAIN f]
<1> DEFINE T == DOMAIN f
           iter(sum) == [s \in SUBSET T |-> IF s = {} THEN 0
                                            ELSE LET x == CHOOSE x \in s : TRUE IN f[x] + sum[s \ {x}]]
           fold == CHOOSE sum : sum = iter(sum)
<1>1. SumOver(f) = fold[T]
  BY DEF SumOver, FoldFunction, FoldFunctionOnSet, MapThenFoldSet
<1>2. PICK sum : Sums(f, T, sum)
  BY SumsExist
<1>3. sum = iter(sum)
  BY <1>2, Zenon DEF Sums, Added, Picked
<1>4. fold = iter(fold)
  <2> HIDE DEF iter
  <2> QED BY <1>3
<1>5. Sums(f, T, fold)
  <2> HIDE DEF fold
  <2> QED BY <1>4, Zenon DEF Sums, Added, Picked
<1> QED BY <1>1, <1>5

\* The sum of the sizes of sets that share no element is the size of their union.
LEMMA SumOfParts ==
  ASSUME NEW f, NEW parts, IsFiniteSet(DOMAIN f),
         \A d \in DOMAIN f : IsFiniteSet(parts[d]) /\ f[d] = Cardinality(parts[d]),
         \A d, e \in DOMAIN f : d # e => parts[d] \intersect parts[e] = {}
  PROVE  SumOver(f) = Cardinality(UNION { parts[d] : d \in DOMAIN f })
<1> DEFINE T      == DOMAIN f
           all(s) == UNION { parts[d] : d \in s }
<1>1. PICK sum : Sums(f, T, sum) /\ SumOver(f) = sum[T]
  BY SumOverIs
<1> DEFINE right(s) == IsFiniteSet(all(s)) /\ sum[s] = Cardinality(all(s))
           bad      == { s \in SUBSET T : ~right(s) }
<1>2. ASSUME bad # {} PROVE FALSE
  <2>1. PICK s \in bad : \A u \in SUBSET s : u # s => u \notin bad
    <3>1. bad \in SUBSET (SUBSET T)
      OBVIOUS
    <3> HIDE DEF bad
    <3> QED BY <1>2, <3>1, SmallestSet
  <2>2. s \in SUBSET T /\ ~right(s)
    OBVIOUS
  <2>3. sum[s] = Added(f, s, sum)
    BY <1>1, <2>2 DEF Sums
  <2>4. s # {}
    <3> SUFFICES ASSUME s = {} PROVE FALSE
      OBVIOUS
    <3>1. all(s) = {}
      OBVIOUS
    <3>2. sum[s] = 0
      BY <2>3 DEF Added
    <3> HIDE DEF all
    <3> QED BY <2>2, <3>1, <3>2, FS_EmptySet
  <2> DEFINE d == Picked(s)
             u == s \ {d}
  <2>5. d \in s /\ d \in T /\ u \in SUBSET s /\ u # s /\ u \in SUBSET T
    BY <2>2, <2>4, PickedIsIn
  <2>6. right(u)
    BY <2>1, <2>5
  <2>7. sum[s] = f[d] + sum[u]
    BY <2>3, <2>4 DEF Added
  <2> HIDE DEF d
  <2>8. all(s) = parts[d] \union all(u) /\ parts[d] \intersect all(u) = {}
    BY <2>2, <2>5
  <2>9. IsFiniteSet(parts[d]) /\ f[d] = Cardinality(parts[d])
    BY <2>5
  <2> HIDE DEF all, u
  <2>10. IsFiniteSet(parts[d] \union all(u)) /\ Cardinality(parts[d] \union all(u))
            = Cardinality(parts[d]) + Cardinality(all(u)) - Cardinality({})
    BY <2>6, <2>8, <2>9, FS_Union
  <2>11. Cardinality(parts[d]) \in Nat /\ Cardinality(all(u)) \in Nat /\ Cardinality({}) = 0
    BY <2>6, <2>9, FS_CardinalityType, FS_EmptySet
  <2>12. Cardinality(parts[d]) + Cardinality(all(u)) - Cardinality({})
            = Cardinality(parts[d]) + Cardinality(all(u))
    BY <2>11
  <2>13. sum[s] = Cardinality(parts[d]) + Cardinality(all(u))
    BY <2>6, <2>7, <2>9
  <2>14. IsFiniteSet(all(s)) /\ sum[s] = Cardinality(all(s))
    BY <2>8, <2>10, <2>12, <2>13, Zenon
  <2> QED BY <2>2, <2>14
<1>3. T \in SUBSET T
  OBVIOUS
<1>4. right(T)
  BY <1>2, <1>3
<1> QED BY <1>1, <1>4

-----------------------------------------------------------------------------
(* The figures.                                                            *)

LEMMA QuotientGrows ==
  ASSUME NEW a \in Nat, NEW b \in Nat, a <= b, NEW d \in Nat \ {0}
  PROVE  a \div d <= b \div d /\ a \div d \in Nat /\ b \div d \in Nat
  OBVIOUS

\* Two decimals of a percentage say "all" of fewer than 20000 only when it is all.
LEMMA AllIsAll ==
  ASSUME NEW up \in Nat, NEW down \in Nat, up + down # 0, up + down < 20000,
         Percent(up, up + down) = 10000
  PROVE  down = 0
<1> DEFINE n == up + down
<1>1. n \in Nat \ {0} /\ n < 20000 /\ up = n - down
  OBVIOUS
<1>2. (20000 * up + n) \div (2 * n) = 10000
  BY DEF Percent
<1> HIDE DEF n
<1>3. ASSUME NEW a \in Nat, NEW d \in Nat \ {0}, a \div d = 10000
      PROVE  a >= 10000 * d
  BY <1>3
<1>4. 20000 * up + n \in Nat /\ 2 * n \in Nat \ {0}
  BY <1>1
<1>5. 20000 * up + n >= 10000 * (2 * n)
  BY <1>2, <1>3, <1>4
<1> QED BY <1>1, <1>5

\* A row of checks is UP or DOWN.
LEMMA CountsAreAll ==
  ASSUME HistoryInvariant, NEW rows \in SUBSET checks
  PROVE  IsFiniteSet(rows) /\ Count(rows, "UP") + Count(rows, "DOWN") = Cardinality(rows)
<1> DEFINE of(outcome) == { c \in rows : c.outcome = outcome }
<1>1. IsFiniteSet(checks) /\ \A c \in checks : c.outcome \in {"UP", "DOWN"}
  BY DEF HistoryInvariant, CheckTypes, CheckRows
<1>2. IsFiniteSet(rows)
  BY <1>1, FS_Subset
<1>3. of("UP") \in SUBSET rows /\ of("DOWN") \in SUBSET rows
  OBVIOUS
<1>4. of("UP") \union of("DOWN") = rows /\ of("UP") \intersect of("DOWN") = {}
  BY <1>1
<1>5. Count(rows, "UP") = Cardinality(of("UP")) /\ Count(rows, "DOWN") = Cardinality(of("DOWN"))
  BY DEF Count
<1> HIDE DEF of
<1>6. IsFiniteSet(of("UP")) /\ IsFiniteSet(of("DOWN"))
  BY <1>2, <1>3, FS_Subset
<1>7. Cardinality(of("UP") \union of("DOWN"))
        = Cardinality(of("UP")) + Cardinality(of("DOWN")) - Cardinality({})
  BY <1>4, <1>6, FS_Union
<1>8. Cardinality(of("UP")) \in Nat /\ Cardinality(of("DOWN")) \in Nat /\ Cardinality({}) = 0
  BY <1>6, FS_CardinalityType, FS_EmptySet
<1>9. Cardinality(of("UP")) + Cardinality(of("DOWN")) - Cardinality({})
        = Cardinality(of("UP")) + Cardinality(of("DOWN"))
  BY <1>8
<1> QED BY <1>2, <1>4, <1>5, <1>7, <1>9, Zenon

LEMMA DayInWeek ==
  ASSUME HistoryInvariant, NEW m \in Tracked
  PROVE  /\ MonitorDetail(m).day.recorded <= MonitorDetail(m).week.recorded
         /\ MonitorDetail(m).week.recorded = Cardinality(MonitorDetail(m).checks)
<1> DEFINE day  == InWindow(m, time - DayWindow)
           week == InWindow(m, time - WeekWindow)
<1>1. time \in Nat /\ \A c \in checks : c.at \in Nat
  BY DEF HistoryInvariant, CheckTypes, CheckRows
<1>2. day \subseteq week /\ day \subseteq checks /\ week \subseteq checks
  BY <1>1, HistoryAssumption DEF InWindow
<1>3. /\ MonitorDetail(m).day.recorded = Count(day, "UP") + Count(day, "DOWN")
      /\ MonitorDetail(m).week.recorded = Count(week, "UP") + Count(week, "DOWN")
      /\ MonitorDetail(m).checks = week
  BY UptimeIs DEF MonitorDetail, countChecksInWindow
<1> HIDE DEF day, week
<1>4. \A rows \in SUBSET checks : IsFiniteSet(rows)
  BY CountsAreAll
<1>5. Cardinality(day) <= Cardinality(week)
  BY <1>2, <1>4, FS_Subset
<1>6. /\ Count(day, "UP") + Count(day, "DOWN") = Cardinality(day)
      /\ Count(week, "UP") + Count(week, "DOWN") = Cardinality(week)
  BY <1>2, CountsAreAll
<1> QED BY <1>3, <1>5, <1>6

LEMMA DayExpectsLess ==
  ASSUME HistoryInvariant, NEW m \in Tracked
  PROVE  MonitorDetail(m).day.expected <= MonitorDetail(m).week.expected
<1> DEFINE start(window) == Max({0, time - window})
<1>1. /\ time \in Nat /\ Period \in Nat \ {0} /\ DayWindow \in Nat /\ WeekWindow \in Nat
      /\ DayWindow <= WeekWindow
  BY HistoryAssumption DEF HistoryInvariant
<1>2. /\ MonitorDetail(m).day.expected = (time - start(DayWindow)) \div Period
      /\ MonitorDetail(m).week.expected = (time - start(WeekWindow)) \div Period
  BY DEF MonitorDetail, computeUptime
<1>3. ASSUME NEW window \in Nat
      PROVE  start(window) \in {0, time - window} /\ start(window) >= 0 /\ start(window) >= time - window
  <2>1. 0 \in Int /\ time - window \in Int
    BY <1>1, <1>3
  <2> QED BY <2>1, MaxOfTwo
<1> HIDE DEF start
<1>4. time - start(DayWindow) \in Nat /\ time - start(WeekWindow) \in Nat
      /\ time - start(DayWindow) <= time - start(WeekWindow)
  <2>1. start(DayWindow) \in {0, time - DayWindow} /\ start(DayWindow) >= time - DayWindow /\ start(DayWindow) >= 0
    BY <1>1, <1>3
  <2>2. start(WeekWindow) \in {0, time - WeekWindow} /\ start(WeekWindow) >= time - WeekWindow
        /\ start(WeekWindow) >= 0
    BY <1>1, <1>3
  <2> QED BY <1>1, <2>1, <2>2
<1>5. (time - start(DayWindow)) \div Period <= (time - start(WeekWindow)) \div Period
  BY <1>1, <1>4, QuotientGrows
<1> QED BY <1>2, <1>5

LEMMA FullDayHasNoFailure ==
  ASSUME HistoryInvariant, NEW m \in Tracked,
         MonitorDetail(m).day.recorded < 20000, MonitorDetail(m).day.uptime = 10000,
         NEW c \in MonitorDetail(m).checks, c.outcome = "DOWN"
  PROVE  c.at < time - DayWindow
<1> DEFINE day == InWindow(m, time - DayWindow)
<1>1. day \in SUBSET checks
  BY DEF InWindow
<1>2. /\ MonitorDetail(m).day.recorded = Count(day, "UP") + Count(day, "DOWN")
      /\ MonitorDetail(m).day.uptime =
            IF Count(day, "UP") + Count(day, "DOWN") = 0 THEN Unset
            ELSE Percent(Count(day, "UP"), Count(day, "UP") + Count(day, "DOWN"))
      /\ MonitorDetail(m).checks = InWindow(m, time - WeekWindow)
  <2> DEFINE counts == countChecksInWindow(time - DayWindow)[m]
  <2>1. counts.up = Count(day, "UP") /\ counts.down = Count(day, "DOWN")
    BY DEF countChecksInWindow
  <2>2. MonitorDetail(m).day = computeUptime(DayWindow, time, counts)
        /\ MonitorDetail(m).checks = InWindow(m, time - WeekWindow)
    BY DEF MonitorDetail
  <2> HIDE DEF counts, day
  <2>3. /\ MonitorDetail(m).day.recorded = counts.up + counts.down
        /\ MonitorDetail(m).day.uptime = IF counts.up + counts.down = 0 THEN Unset
                                         ELSE Percent(counts.up, counts.up + counts.down)
    BY <2>2 DEF computeUptime
  <2> QED BY <2>1, <2>2, <2>3
<1>3. c \in checks /\ c.monitor = m /\ c.at \in Nat /\ time \in Nat /\ DayWindow \in Nat
  BY <1>2, HistoryAssumption DEF InWindow, HistoryInvariant, CheckTypes, CheckRows
<1>4. c \in day <=> c.at >= time - DayWindow
  BY <1>3 DEF InWindow
<1> HIDE DEF day
<1>5. Count(day, "UP") \in Nat /\ Count(day, "DOWN") \in Nat
      /\ (Count(day, "DOWN") > 0 <=> \E x \in day : x.outcome = "DOWN")
  BY <1>1, CountIs
<1>6. Count(day, "DOWN") = 0
  <2>1. Count(day, "UP") + Count(day, "DOWN") # 0
    BY <1>2 DEF Unset
  <2>2. Percent(Count(day, "UP"), Count(day, "UP") + Count(day, "DOWN")) = 10000
    BY <1>2, <2>1
  <2>3. Count(day, "UP") + Count(day, "DOWN") < 20000
    BY <1>2
  <2> QED BY <1>5, <2>1, <2>2, <2>3, AllIsAll
<1>7. c \notin day
  BY <1>5, <1>6
<1> QED BY <1>3, <1>4, <1>7


LEMMA DownIsExplained ==
  ASSUME HistoryInvariant, NEW m \in Tracked, MonitorList[m].state = "DOWN"
  PROVE  Cardinality(MonitorList[m].open) = 1
<1>1. MonitorList[m] = serialiseMonitor(m, Ongoing(incidents))
  BY ListShows
<1>2. /\ row[m].state = "DOWN"
      /\ MonitorList[m].open = { k.id : k \in { k \in Ongoing(incidents) : k.monitor = m } }
  BY <1>1, Serialised
<1>3. PICK i \in incidents : i.monitor = m /\ i.resolvedAt = Unset
  BY <1>2 DEF HistoryInvariant, OpenIsDown
<1>4. { k \in Ongoing(incidents) : k.monitor = m } = {i}
  BY <1>3 DEF Ongoing, HistoryInvariant, OpenIsDown
<1>5. MonitorList[m].open = {i.id}
  BY <1>2, <1>4
<1> QED BY <1>5, FS_Singleton

\* Every open incident is on the overview, but for one that newer ones push out.
LEMMA OpenIsListed ==
  ASSUME HistoryInvariant, NEW i \in Ongoing(incidents) \ Overview.open
  PROVE  Cardinality({ k \in incidents : k.startedAt >= i.startedAt /\ k # i }) >= OverviewLimit
<1> DEFINE rows == { k \in incidents : k.startedAt >= time - WeekWindow \/ k.resolvedAt = Unset }
<1>1. Overview.open = Ongoing(Newest(OverviewLimit, rows))
  BY DEF Overview
<1>2. rows \in SUBSET incidents /\ i \in rows /\ i.resolvedAt = Unset
  BY DEF Ongoing
<1> HIDE DEF rows
<1>3. i \notin Newest(OverviewLimit, rows)
  BY <1>1, <1>2 DEF Ongoing
<1>4. Cardinality({ k \in incidents : k.id # i.id /\ k.startedAt >= i.startedAt }) >= OverviewLimit
  BY <1>2, <1>3, LeftOut, HistoryAssumption
<1>5. { k \in incidents : k.id # i.id /\ k.startedAt >= i.startedAt }
        = { k \in incidents : k.startedAt >= i.startedAt /\ k # i }
  BY <1>2 DEF HistoryInvariant, IdsAreUnique
<1> QED BY <1>4, <1>5

\* What the buckets of a monitor add up to.
LEMMA BucketsAddUp ==
  ASSUME HistoryInvariant, NEW m \in Tracked
  PROVE  Recorded(Overview.timelines[m]) = Cardinality(InWindow(m, time - DayWindow))
<1> DEFINE day    == InWindow(m, time - DayWindow)
           strip  == Overview.timelines[m]
           sizes  == [b \in DOMAIN strip |-> strip[b].up + strip[b].down]
           parts  == [b \in 0..(BucketCount - 1) |-> Bucket(m, b)]
<1>1. DOMAIN strip = 0..(BucketCount - 1)
  <2>1. 0 \in 0..(BucketCount - 1)
    BY HistoryAssumption
  <2> QED BY <2>1, TimelineIs
<1>2. IsFiniteSet(DOMAIN sizes) /\ DOMAIN sizes = 0..(BucketCount - 1)
  <2>1. IsFiniteSet(0..(BucketCount - 1))
    BY FS_Interval, HistoryAssumption
  <2> QED BY <1>1, <2>1
<1>3. ASSUME NEW b \in DOMAIN sizes
      PROVE  IsFiniteSet(parts[b]) /\ sizes[b] = Cardinality(parts[b])
  <2>1. b \in 0..(BucketCount - 1) /\ b \in DOMAIN strip
    BY <1>1, <1>2
  <2>2. Bucket(m, b) \in SUBSET checks
    BY DEF Bucket, InWindow
  <2>3. IsFiniteSet(Bucket(m, b))
        /\ Count(Bucket(m, b), "UP") + Count(Bucket(m, b), "DOWN") = Cardinality(Bucket(m, b))
    BY <2>2, CountsAreAll
  <2>4. strip[b].up = Count(Bucket(m, b), "UP") /\ strip[b].down = Count(Bucket(m, b), "DOWN")
    BY <2>1, TimelineIs
  <2>5. parts[b] = Bucket(m, b)
    BY <2>1
  <2> HIDE DEF strip, parts
  <2>6. sizes[b] = strip[b].up + strip[b].down
    BY <2>1
  <2> HIDE DEF sizes
  <2> QED BY <2>3, <2>4, <2>5, <2>6
<1>4. \A b, d \in DOMAIN sizes : b # d => parts[b] \intersect parts[d] = {}
  BY <1>2 DEF Bucket
<1>5. UNION { parts[b] : b \in DOMAIN sizes } = day
  <2>1. \A b \in DOMAIN sizes : parts[b] = Bucket(m, b)
    BY <1>2
  <2>2. \A c \in day : \E b \in DOMAIN sizes : c \in Bucket(m, b)
    BY <1>2, IndexIsABucket
  <2>3. \A b : Bucket(m, b) \subseteq day
    BY DEF Bucket
  <2> HIDE DEF day, sizes, parts
  <2> QED BY <2>1, <2>2, <2>3
<1>6. Recorded(strip) = SumOver(sizes)
  BY DEF Recorded
<1> HIDE DEF strip, sizes, parts, day
<1>7. SumOver(sizes) = Cardinality(UNION { parts[b] : b \in DOMAIN sizes })
  <2>1. IsFiniteSet(DOMAIN sizes)
    BY <1>2
  <2>2. \A b \in DOMAIN sizes : IsFiniteSet(parts[b]) /\ sizes[b] = Cardinality(parts[b])
    BY <1>3
  <2> QED BY <1>4, <2>1, <2>2, SumOfParts
<1> QED BY <1>5, <1>6, <1>7 DEF day, strip

\* What the monitors add up to.
LEMMA MonitorsAddUp ==
  ASSUME HistoryInvariant
  PROVE  Overview.last24h.up + Overview.last24h.down
            = SumOver([m \in Tracked |-> Recorded(Overview.timelines[m])])
<1> DEFINE rows  == { c \in checks : c.at >= time - DayWindow }
           sizes == [m \in Tracked |-> Recorded(Overview.timelines[m])]
           parts == [m \in Tracked |-> InWindow(m, time - DayWindow)]
<1>1. Overview.last24h.up + Overview.last24h.down = Cardinality(rows)
  <2>1. Overview.last24h.up = Count(rows, "UP") /\ Overview.last24h.down = Count(rows, "DOWN")
    BY DEF Overview, summariseActivity
  <2>2. rows \in SUBSET checks
    OBVIOUS
  <2> HIDE DEF rows
  <2> QED BY <2>1, <2>2, CountsAreAll
<1>2. DOMAIN sizes = Tracked /\ IsFiniteSet(DOMAIN sizes)
  BY HistoryAssumption
<1>3. ASSUME NEW m \in DOMAIN sizes
      PROVE  IsFiniteSet(parts[m]) /\ sizes[m] = Cardinality(parts[m])
  <2>1. parts[m] = InWindow(m, time - DayWindow) /\ sizes[m] = Recorded(Overview.timelines[m])
    BY <1>2
  <2>2. InWindow(m, time - DayWindow) \in SUBSET checks
    BY DEF InWindow
  <2>3. IsFiniteSet(InWindow(m, time - DayWindow))
    BY <2>2, CountsAreAll
  <2> HIDE DEF parts, sizes
  <2> QED BY <1>2, <2>1, <2>3, BucketsAddUp
<1>4. \A m, n \in DOMAIN sizes : m # n => parts[m] \intersect parts[n] = {}
  BY <1>2 DEF InWindow
<1>5. UNION { parts[m] : m \in DOMAIN sizes } = rows
  <2>1. \A c \in checks : c.monitor \in Tracked
    BY DEF HistoryInvariant, CheckTypes, CheckRows
  <2> QED BY <1>2, <2>1 DEF InWindow
<1> HIDE DEF rows, sizes, parts
<1>6. SumOver(sizes) = Cardinality(UNION { parts[m] : m \in DOMAIN sizes })
  BY <1>2, <1>3, <1>4, SumOfParts
<1> QED BY <1>1, <1>5, <1>6 DEF sizes

LEMMA FiguresAddUp == HistoryInvariant => FiguresAgree
<1> SUFFICES ASSUME HistoryInvariant PROVE FiguresAgree
  OBVIOUS
<1>1. ASSUME NEW m \in Tracked
      PROVE  Recorded(Overview.timelines[m]) = MonitorList[m].uptime24h.recorded
  <2> DEFINE counts == countChecksInWindow(time - DayWindow)[m]
             day    == InWindow(m, time - DayWindow)
  <2>1. MonitorList[m].uptime24h = computeUptime(DayWindow, time, counts)
    <3>1. MonitorList[m] = serialiseMonitor(m, Ongoing(incidents))
      BY ListShows
    <3> QED BY <3>1, Serialised
  <2>2. counts.up = Count(day, "UP") /\ counts.down = Count(day, "DOWN")
    BY DEF countChecksInWindow
  <2>3. day \in SUBSET checks
    BY DEF InWindow
  <2> HIDE DEF counts, day
  <2>4. MonitorList[m].uptime24h.recorded = counts.up + counts.down
    BY <2>1, UptimeIs
  <2>5. counts.up + counts.down = Cardinality(day)
    BY <2>2, <2>3, CountsAreAll
  <2>6. Recorded(Overview.timelines[m]) = Cardinality(day)
    BY BucketsAddUp DEF day
  <2> QED BY <2>4, <2>5, <2>6
<1>2. ASSUME NEW m \in Tracked
      PROVE  MonitorDetail(m).day.recorded < 20000 /\ MonitorDetail(m).day.uptime = 10000 =>
               \A c \in MonitorDetail(m).checks : c.outcome = "DOWN" => c.at < time - DayWindow
  BY FullDayHasNoFailure
<1>3. ASSUME NEW m \in Tracked
      PROVE  /\ MonitorDetail(m).day.recorded <= MonitorDetail(m).week.recorded
             /\ MonitorDetail(m).week.recorded = Cardinality(MonitorDetail(m).checks)
  BY DayInWeek
<1>4. ASSUME NEW m \in Tracked
      PROVE  MonitorDetail(m).day.expected <= MonitorDetail(m).week.expected
  BY DayExpectsLess
<1>5. ASSUME NEW m \in Tracked
      PROVE  MonitorList[m].state = "DOWN" => Cardinality(MonitorList[m].open) = 1
  BY DownIsExplained
<1>6. ASSUME NEW i \in Ongoing(incidents) \ Overview.open
      PROVE  Cardinality({ k \in incidents : k.startedAt >= i.startedAt /\ k # i }) >= OverviewLimit
  BY OpenIsListed
<1> QED BY <1>1, <1>2, <1>3, <1>4, <1>5, <1>6, MonitorsAddUp DEF FiguresAgree

\* overview.ts:60-140, uptime.ts:46-72 and activity.ts:52-95, for every window, period,
\* number of buckets and limit: the figures of one answer, which come from different
\* queries and different code, agree; no check is counted twice or in no bucket.
THEOREM FiguresAddUpForAll == ChSpec => []FiguresAgree
  BY HistoryInvariantHolds, FiguresAddUp, PTL
=============================================================================
