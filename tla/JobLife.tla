------------------------------ MODULE JobLife ------------------------------
(***************************************************************************)
(* What the rest of the backend can rely on about a job: the status of the *)
(* registered Job object, whether a thread works on it, its cancel flag,   *)
(* and the status and flag of its last checkpoint.  Each operator gives    *)
(* what one kind of step makes of a job.  JobManager is shown to take no   *)
(* other steps (JobContract); PhasedBuild builds on them.                  *)
(***************************************************************************)

Stopped == {"error", "done"}

Job == [ status        : {"none", "running"} \cup Stopped,   \* "none": not in the registry
         alive         : BOOLEAN,
         cancelled     : BOOLEAN,
         disk          : {"none", "running", "interrupted"} \cup Stopped,
         diskCancelled : BOOLEAN ]

Absent == [ status |-> "none", alive |-> FALSE, cancelled |-> FALSE,
            disk |-> "none", diskCancelled |-> FALSE ]

\* create() registers the job, start() gives it a thread.
Created    == [Absent EXCEPT !.status = "running"]
Started(j) == [j EXCEPT !.alive = TRUE]

\* The thread ends the job: "error" may be for good or not.
Ended(j) == IF j.alive /\ j.status = "running"
            THEN {[j EXCEPT !.status = s] : s \in Stopped} ELSE {}

\* Automatic continuation: the same thread goes on.
Recovered(j) == IF j.alive /\ j.status = "error" THEN {[j EXCEPT !.status = "running"]} ELSE {}

Left(j) == IF j.alive /\ j.status \in Stopped THEN {[j EXCEPT !.alive = FALSE]} ELSE {}

Saved(j) == IF j.alive THEN {[j EXCEPT !.disk = j.status, !.diskCancelled = j.cancelled]} ELSE {}

\* The last checkpoint of a job that raised is also its thread's last step.
SavedAndLeft(j) == UNION {Left(k) : k \in Saved(j)}

Cancelled(j) == IF j.status # "none" THEN {[j EXCEPT !.cancelled = TRUE]} ELSE {}

\* Continue, on the registered job or on the one on disk.
Continued(j) ==
  IF ~j.alive /\ \/ j.status = "error"
                 \/ j.status = "none" /\ j.disk = "error"
  THEN {[j EXCEPT !.status = "running", !.alive = TRUE, !.cancelled = FALSE]} ELSE {}

\* resume: a registered job is left alone, one that ended is only loaded, any
\* other one runs on from its checkpoint.
Resumed(j) ==
  IF j.status # "none" \/ j.disk = "none" THEN {}
  ELSE IF j.disk \in Stopped
       THEN {[j EXCEPT !.status = j.disk, !.cancelled = j.diskCancelled]}
       ELSE {[j EXCEPT !.status = "running", !.alive = TRUE, !.cancelled = j.diskCancelled]}

\* The process died; the next one has marked what was running.
Died(j) == [j EXCEPT !.status = "none", !.alive = FALSE, !.cancelled = FALSE,
                     !.disk = IF @ = "running" THEN "interrupted" ELSE @]

\* The steps a job's own thread takes by itself.
Works(j) == Ended(j) \cup Recovered(j) \cup Left(j) \cup Saved(j) \cup SavedAndLeft(j)

\* What JobManager.get reports: None, the registered job, or the one on disk.
Reported(j) == IF j.status # "none" THEN j.status
               ELSE IF j.disk = "running" THEN "interrupted" ELSE j.disk

=============================================================================
