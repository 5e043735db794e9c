---------------------------- MODULE JobContract ----------------------------
(* One job, as anything outside JobManager may think of it.                  *)
EXTENDS JobLife

VARIABLE job

Init == job = Started(Created)

Next == job' \in Works(job) \cup Cancelled(job) \cup Continued(job) \cup Resumed(job) \cup {Died(job)}

Spec == Init /\ [][Next]_job

=============================================================================
