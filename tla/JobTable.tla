------------------------------ MODULE JobTable ------------------------------
(***************************************************************************)
(* The table of background and stopped jobs (src/src/jobs/index.ts): the   *)
(* Map `jobs' and the ids currentJobId and previousJobId, which %+ and %-  *)
(* name and which are 0 when there is no such job.                         *)
(*                                                                         *)
(* "Fault:" marks a plausible mistake in the definition that follows it,   *)
(* for the mutation runs; it is no part of the model.                      *)
(***************************************************************************)
EXTENDS Integers, Sequences

CONSTANTS
    PidOf,      \* process ids
    MaxJobs     \* bound on the jobs in the table at once

ASSUME MaxJobsAssumption == MaxJobs \in Nat \ {0}

JobId  == 1..MaxJobs
Status == {"running", "stopped", "done"}
Job    == [pids : Seq(PidOf), status : Status]

VARIABLES
    jobs,       \* the Map, from the ids in use to their jobs
    current,    \* currentJobId
    previous    \* previousJobId

jobVars == <<jobs, current, previous>>

TableInit == jobs = [id \in {} |-> {}] /\ current = 0 /\ previous = 0

HasRoom == JobId \ DOMAIN jobs # {}

\* nextId: the smallest id not in use.
NextId == CHOOSE id \in JobId \ DOMAIN jobs :
              \A other \in JobId \ DOMAIN jobs : id <= other

AddJob(pids, status) ==
    /\ HasRoom
    /\ jobs' = [id \in DOMAIN jobs \cup {NextId} |->
                   IF id = NextId THEN [pids |-> pids, status |-> status] ELSE jobs[id]]
    /\ previous' = current
    /\ current' = NextId

Without(table, ids) == [id \in DOMAIN table \ ids |-> table[id]]

\* Fault: previousJobId stays behind when the current job takes its place.
RemoveJobKeepsPrevious(id) ==
    /\ jobs' = Without(jobs, {id})
    /\ current' = IF current = id THEN previous ELSE current
    /\ UNCHANGED previous

RemoveJob(id) ==
    /\ jobs' = Without(jobs, {id})
    /\ current' = IF current = id THEN previous ELSE current
    /\ previous' = IF current = id \/ previous = id THEN 0 ELSE previous

Mark(id, status) ==
    /\ jobs' = IF id \in DOMAIN jobs THEN [jobs EXCEPT ![id].status = status] ELSE jobs
    /\ UNCHANGED <<current, previous>>

MarkJobStopped(id) == Mark(id, "stopped")
MarkJobRunning(id) == Mark(id, "running")

\* findJobByPid: the first job of the Map that lists the pid.
JobsWith(pid) == {id \in DOMAIN jobs : \E i \in DOMAIN jobs[id].pids : jobs[id].pids[i] = pid}

-----------------------------------------------------------------------------
(* The table on its own, driven by calls in any order.                     *)

TableNext ==
    \/ \E pid \in PidOf, status \in {"running", "stopped"} : AddJob(<<pid>>, status)
    \/ \E id \in JobId : \/ RemoveJob(id)
                         \/ MarkJobStopped(id)
                         \/ MarkJobRunning(id)

TableSpec == TableInit /\ [][TableNext]_jobVars

\* The table holds jobs under the ids it numbers them with.
TableTypeOK ==
    /\ DOMAIN jobs \subseteq JobId
    /\ jobs \in [DOMAIN jobs -> Job]
    /\ current \in Nat /\ previous \in Nat

\* %+ and %- name two different jobs that are in the table, or none: an id
\* is reused as soon as it is free, so one left behind by removeJob would in
\* time name a job the user never meant.
CurrentNamesAJob ==
    /\ current # 0 => current \in DOMAIN jobs
    /\ previous # 0 => previous \in DOMAIN jobs /\ previous # current
=============================================================================
