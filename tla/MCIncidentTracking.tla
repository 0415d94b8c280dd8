-------------------------- MODULE MCIncidentTracking --------------------------
(* Instances of IncidentTracking for TLC.                                  *)
EXTENDS IncidentTracking, TLC

CONSTANTS m1, s1, s2, s3, s4, w1, w2, c1, u1, u2

OneMonitor == {m1}
TwoSlots == {s1, s2}
ThreeSlots == {s1, s2, s3}
FourSlots == {s1, s2, s3, s4}
OneWorker == {w1}
TwoWorkers == {w1, w2}
OneClient == {c1}
OneUrl == {u1}
TwoUrls == {u1, u2}

Body(p, u) == [paused |-> p, url |-> u]

\* Pause, resume, change of URL, and an edit of other fields only.
AllPatches ==
  {Body("true", None), Body("false", None), Body("absent", u1), Body("absent", u2),
   Body("absent", None)}
PausePatches == {Body("true", None), Body("false", None)}
UrlPatches == {Body("absent", u1), Body("absent", u2)}

\* Slots and workers are interchangeable in every definition.
Symmetry == Permutations(ThreeSlots) \cup Permutations(TwoWorkers)
=============================================================================
