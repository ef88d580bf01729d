------------------------------ MODULE JobGraph ------------------------------
(***************************************************************************)
(* What the backend's dependency scheduler promises, without any of the    *)
(* bookkeeping that backend/src/machine.rs does to keep the promise.  A    *)
(* job names the jobs it needs and, for each, the exit status it wants     *)
(* (or none).  A job begins only when all it needs has finished as asked,  *)
(* keeps the status it finishes with, and is refused when it is submitted  *)
(* too late: one of its needs is already known to have gone the other way. *)
(***************************************************************************)
CONSTANTS
    Pid,          \* names of jobs
    Conditions    \* the conditions a submission may carry

VARIABLES
    job,          \* what has become of each job
    needs         \* for a job that was submitted: the condition on each need

vars == <<job, needs>>

ExitStatus == {"Success", "Failure"}

\* Option<ExitStatus>: "None" is met by either exit status.
Meets(cond, status) == cond \in {"None", status}

Finished(p) == job[p] \in ExitStatus

\* Every need of p has finished with a status that p accepts.
Met(p) == \A q \in DOMAIN needs[p] : Finished(q) /\ Meets(needs[p][q], job[q])

Submissions == UNION {[D -> Conditions] : D \in SUBSET Pid}

\* A need of p has gone the other way already.
TooLate(conds) == \E q \in DOMAIN conds : Finished(q) /\ ~Meets(conds[q], job[q])

\* Jobs that were taken in.
Accepted(conds) == \A q \in DOMAIN conds : job[q] \notin {"absent", "refused"}

\* A refusal is due only if it is too late; a job that is too late is never taken in, nor
\* is one that needs a job that was not.
Submit(p) ==
    /\ job[p] = "absent"
    /\ \E conds \in Submissions :
          /\ TooLate(conds) \/ Accepted(conds)
          /\ job' = [job EXCEPT ![p] = IF TooLate(conds) THEN "refused" ELSE "submitted"]
          /\ needs' = [q \in DOMAIN needs \cup {p} |-> IF q = p THEN conds ELSE needs[q]]

Begin(p) ==
    /\ job[p] = "submitted" /\ Met(p)
    /\ job' = [job EXCEPT ![p] = "running"]
    /\ UNCHANGED needs

\* A builtin job finishes in the step that begins it.
Finish(p, status) ==
    /\ job[p] = "running" \/ (job[p] = "submitted" /\ Met(p))
    /\ job' = [job EXCEPT ![p] = status]
    /\ UNCHANGED needs

Init == job = [p \in Pid |-> "absent"] /\ needs = [p \in {} |-> {}]

Next == \E p \in Pid : Submit(p) \/ Begin(p) \/ \E status \in ExitStatus : Finish(p, status)

Spec == Init /\ [][Next]_vars
=============================================================================
