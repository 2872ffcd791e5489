------------------------------ MODULE Executor ------------------------------
(* What an executor promises the one who posts jobs to it (executor.hpp and *)
(* the header of pool.hpp): a job runs at most once, a job refused or       *)
(* dropped never runs, nothing is taken after the shutdown began, and when  *)
(* a shutdown reports that nothing was left behind, nothing runs any more.  *)
CONSTANT Jobs

VARIABLES
  status,   \* what became of each job
  phase     \* "open", "closing" once a shutdown began, "closed" once one
            \* returned with nothing abandoned

vars == <<status, phase>>

Statuses == {"new", "accepted", "running", "done", "dropped"}

Init ==
  /\ status = [j \in Jobs |-> "new"]
  /\ phase = "open"

Becomes(j, old, new) ==
  /\ status[j] = old
  /\ status' = [status EXCEPT ![j] = new]
  /\ UNCHANGED phase

Accept(j) == phase = "open" /\ Becomes(j, "new", "accepted")
Refuse(j) == phase # "open" /\ Becomes(j, "new", "dropped")
Start(j)  == phase # "closed" /\ Becomes(j, "accepted", "running")
End(j)    == Becomes(j, "running", "done")
Drop(j)   == phase # "open" /\ Becomes(j, "accepted", "dropped")

\* The shutdown begins and drops any of the jobs that wait.
Close ==
  /\ phase = "open" /\ phase' = "closing"
  /\ \E gone \in SUBSET {j \in Jobs : status[j] = "accepted"} :
       status' = [j \in Jobs |-> IF j \in gone THEN "dropped" ELSE status[j]]

\* The shutdown is over for good: no job runs, and none will (Start).
Finish ==
  /\ phase = "closing" /\ phase' = "closed"
  /\ \A j \in Jobs : status[j] # "running"
  /\ UNCHANGED status

Next ==
  \/ \E j \in Jobs : Accept(j) \/ Refuse(j) \/ Start(j) \/ End(j) \/ Drop(j)
  \/ Close \/ Finish

Spec == Init /\ [][Next]_vars
=============================================================================
