---------------------------- MODULE JobLifecycle ----------------------------
(***************************************************************************)
(* What the job manager promises a client of GET /jobs: the status of a    *)
(* job only moves forward.  It is queued once, runs once, ends once with   *)
(* one outcome, and may be forgotten; a forgotten or refused job does not  *)
(* come back.                                                              *)
(***************************************************************************)
CONSTANT Jobs

VARIABLE status

Outcomes == {"succeeded", "failed"}
Status   == {"new", "queued", "running", "gone"} \cup Outcomes

Moves ==
  {<<"new", "queued">>, <<"queued", "running">>}
    \cup ({"running"} \X Outcomes)
    \cup ((Status \ {"gone"}) \X {"gone"})

Init == status = [j \in Jobs |-> "new"]

\* Several jobs may move at once: a crash refuses every request under way.
Next ==
  /\ status' \in [Jobs -> Status]
  /\ \A j \in Jobs : status'[j] # status[j] => <<status[j], status'[j]>> \in Moves

Spec == Init /\ [][Next]_status
=============================================================================
