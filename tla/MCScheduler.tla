----------------------------- MODULE MCScheduler -----------------------------
(* Instances of Scheduler for TLC. *)
EXTENDS Scheduler, TLC

\* A rename, a pause, a resume, a change of URL.
AllPatches ==
  [paused : {"absent"}, url : BOOLEAN] \cup [paused : {"true", "false"}, url : {FALSE}]

\* A rename, a pause, a resume.
PausePatches == [paused : {"absent", "true", "false"}, url : {FALSE}]

\* A change of URL, which makes the monitor due at once.
UrlPatches == [paused : {"absent"}, url : {TRUE}]

Symmetry == Permutations(Monitors) \cup Permutations(Procs)

\* Two monitors that compete for a batch of one: the account is confirmed and
\* both exist before the first process starts, neither is deleted, and clients
\* edit them at the last instant.
Competing ==
  /\ \A m \in Monitors : life[m] # "deleted"
  /\ clock > 0 \/ (\E p \in Procs : proc[p] # "down") =>
       ~activating /\ \A m \in Monitors : life[m] = "live"
  /\ clock < MaxTime => request = [c \in Clients |-> "idle"]

CompetingSpec ==
  /\ Init
  /\ [][Next /\ Competing']_vars
  /\ Fairness
=============================================================================
