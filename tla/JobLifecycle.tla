---------------------------- MODULE JobLifecycle ----------------------------
(***************************************************************************)
(* What the analysis app promises about one AnalysisResult row, whoever    *)
(* writes it: a row is admitted only when its upload has no run in flight, *)
(* it moves pending -> queued -> running -> done, an interrupted or broken *)
(* run ends in failed, and a terminal row is never written a second        *)
(* verdict.  AnalysisJobs implements this with threads, processes, a pool, *)
(* an inference lock, crashes and a recovery sweep.                        *)
(***************************************************************************)
CONSTANTS
  Run,      \* analysis ids
  Media,    \* uploads
  NoMedia   \* the media of a row that does not exist yet

VARIABLES
  status,   \* AnalysisResult.status; "absent" before the INSERT, "deleted" after a DELETE
  mediaOf   \* AnalysisResult.media

vars == <<status, mediaOf>>

Active   == {"pending", "queued", "running"}
Terminal == {"done", "failed"}
Status   == {"absent", "deleted"} \cup Active \cup Terminal

Init ==
  /\ status  = [r \in Run |-> "absent"]
  /\ mediaOf = [r \in Run |-> NoMedia]

Move(r, from, to) ==
  /\ status[r] = from
  /\ status' = [status EXCEPT ![r] = to]
  /\ UNCHANGED mediaOf

(* A new row, only while no other row of the same upload is in flight.     *)
Admit(r, m) ==
  /\ status[r] = "absent"
  /\ \A s \in Run : mediaOf[s] = m => status[s] \notin Active
  /\ status'  = [status EXCEPT ![r] = "pending"]
  /\ mediaOf' = [mediaOf EXCEPT ![r] = m]

Queue(r)  == Move(r, "pending", "queued")
Start(r)  == Move(r, "queued", "running")
Finish(r) == Move(r, "running", "done")

(* A run that broke, or whose process is gone.                             *)
Fail(r) == \E from \in {"queued", "running"} : Move(r, from, "failed")

(* DELETE /api/analysis/{id} of a finished run.                            *)
Delete(r) == \E from \in Terminal : Move(r, from, "deleted")

(* DELETE /api/media/{id}: the cascade takes every row of the upload.      *)
DeleteMedia(m) ==
  /\ status' = [r \in Run |-> IF mediaOf[r] = m THEN "deleted" ELSE status[r]]
  /\ UNCHANGED mediaOf

Next ==
  \/ \E r \in Run : \/ \E m \in Media : Admit(r, m)
                    \/ Queue(r)
                    \/ Start(r)
                    \/ Finish(r)
                    \/ Fail(r)
                    \/ Delete(r)
  \/ \E m \in Media : DeleteMedia(m)

Spec == Init /\ [][Next]_vars
=============================================================================
