---------------------------- MODULE OutageTracking ----------------------------
(***************************************************************************)
(* What incident tracking promises, with no workers, requests, locks,      *)
(* queue or counter: results of distinct slots arrive one at a time, an    *)
(* outage opens when Threshold distinct slots in a row have failed, and    *)
(* ends with a success, a reset (pause, change of URL) or the deletion of  *)
(* the monitor.  IncidentTracking implements it.                           *)
(***************************************************************************)
EXTENDS Naturals, FiniteSets

CONSTANTS Monitors, Slots, Threshold

VARIABLES
  life,      \* "new", "live" or "deleted"
  paused,    \* TRUE while the owner has paused the monitor
  state,     \* what the dashboard shows
  results,   \* slots with a result
  failed,    \* slots that failed since the last success or reset
  outage,    \* outages, named by the slot that revealed them
  announced  \* alerts of each outage

outVars == <<life, paused, state, results, failed, outage, announced>>

OutInit ==
  /\ life = [m \in Monitors |-> "new"]
  /\ paused = [m \in Monitors |-> FALSE]
  /\ state = [m \in Monitors |-> "PENDING"]
  /\ results = [m \in Monitors |-> {}]
  /\ failed = [m \in Monitors |-> {}]
  /\ outage = [m \in Monitors |-> [s \in Slots |-> "absent"]]
  /\ announced = [m \in Monitors |-> [s \in Slots |-> {}]]

Ongoing(m) == {s \in Slots : outage[m][s] = "open"}

\* A slot counts once, and only while the monitor is watched.
Accept(m, s) ==
  /\ life[m] = "live" /\ ~paused[m]
  /\ s \notin results[m]
  /\ results' = [results EXCEPT ![m] = @ \cup {s}]
  /\ UNCHANGED <<life, paused>>

Create(m) ==
  /\ life[m] = "new"
  /\ life' = [life EXCEPT ![m] = "live"]
  /\ UNCHANGED <<paused, state, results, failed, outage, announced>>

Succeed(m, s) ==
  /\ Accept(m, s)
  /\ state' = [state EXCEPT ![m] = "UP"]
  /\ failed' = [failed EXCEPT ![m] = {}]
  /\ \/ Ongoing(m) = {} /\ UNCHANGED <<outage, announced>>
     \/ \E i \in Ongoing(m) :
          /\ outage' = [outage EXCEPT ![m][i] = "RECOVERED"]
          /\ announced' = [announced EXCEPT ![m][i] = @ \cup {"RECOVERY"}]

Fail(m, s) ==
  /\ Accept(m, s)
  /\ failed' = [failed EXCEPT ![m] = @ \cup {s}]
  /\ \/ /\ state[m] = "DOWN" \/ Cardinality(failed[m] \cup {s}) < Threshold
        /\ UNCHANGED <<state, outage, announced>>
     \/ /\ state[m] # "DOWN" /\ Cardinality(failed[m] \cup {s}) >= Threshold
        /\ Ongoing(m) = {}
        /\ state' = [state EXCEPT ![m] = "DOWN"]
        /\ outage' = [outage EXCEPT ![m][s] = "open"]
        /\ announced' = [announced EXCEPT ![m][s] = {"DOWN"}]

\* The owner's edit forgets the streak and ends outages without a recovery.
\* An outage declared while the edit was under way may stay open.
Reset(m) ==
  /\ life[m] = "live"
  /\ \E p \in BOOLEAN : paused' = [paused EXCEPT ![m] = p]
  /\ state' = [state EXCEPT ![m] = "PENDING"]
  /\ failed' = [failed EXCEPT ![m] = {}]
  /\ \E E \in SUBSET Ongoing(m), r \in {"MONITOR_PAUSED", "MONITOR_RECONFIGURED"} :
       outage' = [outage EXCEPT ![m] = [s \in Slots |-> IF s \in E THEN r ELSE @[s]]]
  /\ UNCHANGED <<life, results, announced>>

\* An edit that resets nothing; a racing edit may still flip the flag.
Touch(m) ==
  /\ life[m] = "live"
  /\ \E p \in BOOLEAN : paused' = [paused EXCEPT ![m] = p]
  /\ UNCHANGED <<life, state, results, failed, outage, announced>>

Delete(m) ==
  /\ life[m] = "live"
  /\ life' = [life EXCEPT ![m] = "deleted"]
  /\ paused' = [paused EXCEPT ![m] = FALSE]
  /\ state' = [state EXCEPT ![m] = "PENDING"]
  /\ results' = [results EXCEPT ![m] = {}]
  /\ failed' = [failed EXCEPT ![m] = {}]
  /\ outage' = [outage EXCEPT ![m] = [s \in Slots |-> "absent"]]
  /\ announced' = [announced EXCEPT ![m] = [s \in Slots |-> {}]]

OutNext ==
  \E m \in Monitors :
    \/ Create(m) \/ Reset(m) \/ Touch(m) \/ Delete(m)
    \/ \E s \in Slots : Succeed(m, s) \/ Fail(m, s)

OutSpec == OutInit /\ [][OutNext]_outVars
=============================================================================
