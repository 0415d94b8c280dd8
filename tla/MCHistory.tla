------------------------------ MODULE MCHistory -------------------------------
(* Instances of CheckHistory and Screens for TLC.                              *)
EXTENDS Screens, TLC

VARIABLE part   \* which histories a behaviour explores: "deep", "wide" or "edits"

Busy    == {w \in Workers : job[w] # Idle}
Editing == {c \in Clients : edit[c] # Idle}
Changed == {m \in Tracked : row[m].paused \/ row[m].resetAt > 0}
Touched == {m \in Tracked : row[m] # FreshRow}
             \cup {c.monitor : c \in checks} \cup {job[w].monitor : w \in Busy}
             \cup {edit[c].monitor : c \in Editing}
PausedRow == Fresh(TRUE, FALSE, 0)
Reads    == edit' # edit /\ Busy' = Busy /\ Cardinality(Editing') > Cardinality(Editing)

MCPatches == {[paused |-> "true", url |-> FALSE], [paused |-> "false", url |-> FALSE],
              [paused |-> "absent", url |-> TRUE], [paused |-> "absent", url |-> FALSE]}

\* One monitor, results in flight together and out of order until the first edit; one
\* pause or change of URL and one resume, each done at one time but with results
\* between its statements; retention at the last time, with an edit inside it and no
\* result.
Deep ==
  /\ Cardinality(Touched') <= 1 /\ Cardinality(Editing') <= 1
  /\ Reads => Changed = {} \/ \E m \in Tracked : row[m].paused
  /\ \A c \in Editing' : Resets(edit'[c])
  /\ Editing # {} => time' = time
  /\ Editing' # {} \/ Changed' # {} => Cardinality(Busy') <= 1
  /\ cleanup' # Idle => time = MaxAge
  /\ cleanup # Idle => Busy' \subseteq Busy

\* Two monitors for one time step less, a result applied as soon as it is measured, an
\* edit saved as soon as it is read.
Wide ==
  /\ time' < MaxAge /\ cleanup' = Idle
  /\ Reads => Changed = {}
  /\ \A w \in Busy' : job'[w].slot + 1 < MaxAge
  /\ Cardinality(Busy') <= 1 /\ (Busy # {} => Busy' = {})
  /\ Cardinality(Editing') <= 1 /\ \A c \in Editing' : Resets(edit'[c])
  /\ Editing # {} => time' = time /\ job' = job

\* One monitor, the other is paused; two edits of any kind at a time that read at the
\* start and end before the last time, a result applied as soon as it is measured.
Edits ==
  /\ \E m \in Tracked : /\ row'[m] = PausedRow
                        /\ \A w \in Busy' : job'[w].monitor # m
                        /\ \A c \in Editing' : edit'[c].monitor # m
  /\ Reads => time = 0
  /\ Cardinality(Busy') <= 1 /\ (Busy # {} => Busy' = {})
  /\ \A w \in Busy' : job'[w].at = job'[w].slot /\ job'[w].slot <= 1
  /\ cleanup' # Idle => time = MaxAge /\ Editing = {}
  /\ Editing' # {} => time' < MaxAge

\* A check ends at most one unit after its slot.
Punctual == \A w \in Busy' : job'[w].at <= job'[w].slot + 1

\* ChInit, and a pause at once.
OnePaused ==
  /\ time = 0 /\ checks = {} /\ incidents = {} /\ left = {} /\ cleanup = Idle
  /\ job = [w \in Workers |-> Idle] /\ edit = [c \in Clients |-> Idle]
  /\ \E m \in Tracked : row = [[n \in Tracked |-> FreshRow] EXCEPT ![m] = PausedRow]

MCInit ==
  \/ part \in {"deep", "wide"} /\ ChInit
  \/ part = "edits" /\ OnePaused

MCNext ==
  /\ UNCHANGED part
  /\ ChNext /\ Punctual
  /\ part = "deep" => Deep
  /\ part = "wide" => Wide
  /\ part = "edits" => Edits

MCSpec == MCInit /\ [][MCNext]_<<part, chVars>>

\* Tracked, workers and clients are interchangeable in every definition.
Symmetry == Permutations(Tracked) \cup Permutations(Workers) \cup Permutations(Clients)
=============================================================================
