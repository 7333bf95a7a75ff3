---------------------------- MODULE JobExecution ----------------------------
(***************************************************************************)
(* What the job queue promises to the handlers of jobs: a job is executed   *)
(* by at most one worker at a time, and it ends, or is given up for good,   *)
(* only while nobody executes it.  A worker executes a job while its        *)
(* handler has neither been told to stop nor handed over a result.          *)
(*                                                                          *)
(* Jobs are independent: a step of the queue is a step, or none, of each.   *)
(***************************************************************************)
CONSTANTS Jobs, Workers

VARIABLES status,      \* absent, waiting (queued or claimed), or ended
          executors    \* the workers that execute the job

vars == <<status, executors>>

Init == /\ status = [j \in Jobs |-> "absent"]
        /\ executors = [j \in Jobs |-> {}]

Moves(j, from, to) == status[j] = from /\ status'[j] = to
Keeps(j) == status'[j] = status[j]
Idle(j) == executors[j] = {} /\ executors'[j] = {}

Take(j) == /\ status[j] = "waiting" /\ Keeps(j)
           /\ executors[j] = {} /\ \E w \in Workers : executors'[j] = {w}

Leave(j) == /\ Keeps(j)
            /\ executors[j] # {} /\ executors'[j] = {}

JobStep(j) ==
    \/ Keeps(j) /\ executors'[j] = executors[j]
    \/ Take(j)
    \/ Leave(j)
    \/ Moves(j, "absent", "waiting") /\ Idle(j)      \* enqueued
    \/ Moves(j, "waiting", "ended") /\ Idle(j)       \* succeeded, failed, abandoned
    \/ Moves(j, "ended", "waiting") /\ Idle(j)       \* retried by the operator
    \/ Moves(j, "ended", "absent") /\ Idle(j)        \* the row is deleted

Next == \A j \in Jobs : JobStep(j)

Spec == Init /\ [][Next]_vars
=============================================================================
