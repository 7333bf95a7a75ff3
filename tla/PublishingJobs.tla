--------------------------- MODULE PublishingJobs ---------------------------
(***************************************************************************)
(* The publishing job table of community-postgres (publishing/jobs.ts and   *)
(* the two job commands of publishing/operator.ts).                         *)
(*                                                                          *)
(* A port function is one database transaction.  Where it is one statement, *)
(* or holds the row locks of all it reads, it is one atomic action here;    *)
(* retryJob reads rows it cannot lock and is an action per statement.  The  *)
(* table is shared by the modules that compose it with workers and media    *)
(* items: they add the actors, this module says what each call does to the  *)
(* rows.                                                                    *)
(*                                                                          *)
(* Timestamps are kept as the time left until them: `lease` counts down     *)
(* lease_expires_at - now and `delay` counts down run_after - now.  A lease *)
(* is over (lease_expires_at < now) when the countdown is Over.             *)
(***************************************************************************)
EXTENDS Integers, FiniteSets

CONSTANTS
    JobIds,        \* ids of the rows that can exist at the same time
    Keys,          \* (kind, subject, payload) triples that are asked for
    Owners,        \* lease owner labels `<worker>.<claim sequence>`
    NoOwner,       \* lease_owner IS NULL
    NoKey,         \* the key of a row that does not exist
    MaxAttempts,   \* max_attempts
    LeaseTime,     \* leaseMs, in ticks
    BackoffMax     \* BACKOFF_MAX_MS, in ticks

ASSUME JobIdsAssumption == IsFiniteSet(JobIds)
ASSUME OwnerAssumption == NoOwner \notin Owners
ASSUME KeyAssumption == NoKey \notin Keys
ASSUME AttemptsAssumption == MaxAttempts \in Nat \ {0}
ASSUME LeaseAssumption == LeaseTime \in Nat \ {0}
ASSUME BackoffAssumption == BackoffMax \in Nat

VARIABLE jobs      \* community.publishing_jobs

-----------------------------------------------------------------------------
(* The rows. *)

Over == -1
Active == {"queued", "running"}
Ended == {"succeeded", "failed", "abandoned"}
JobStates == Active \cup Ended

JobRow == [state : JobStates \cup {"absent"},
           key : Keys \cup {NoKey},
           attempts : 0..MaxAttempts,
           owner : Owners \cup {NoOwner},
           lease : Over..LeaseTime,
           delay : 0..BackoffMax,
           locked : BOOLEAN]       \* by a retryJob that is under way

Absent == [state |-> "absent", key |-> NoKey, attempts |-> 0,
           owner |-> NoOwner, lease |-> Over, delay |-> 0, locked |-> FALSE]

JobsTypeOK == jobs \in [JobIds -> JobRow]
JobsInit == jobs = [j \in JobIds |-> Absent]

IsActive(j, k) == jobs[j].state \in Active /\ jobs[j].key = k

(* The row of lease (j, o) as every lease-guarded statement selects it:     *)
(* WHERE id = j AND state = 'running' AND lease_owner = o.                  *)
Holds(j, o) == jobs[j].state = "running" /\ jobs[j].owner = o

Expired(j) == jobs[j].state = "running" /\ jobs[j].lease = Over

(* jobBackoffMs in units of BACKOFF_BASE_MS. *)
Backoff(n) == LET b == 2^(n - 1) IN IF b \in 0..BackoffMax THEN b ELSE BackoffMax

-----------------------------------------------------------------------------
(* insertJob: an equal queued or running job is reused, else a row is added.*)
QueuedRow(k) == [Absent EXCEPT !.state = "queued", !.key = k]

AddRow(j, k) == /\ jobs[j].state = "absent"
                /\ jobs' = [jobs EXCEPT ![j] = QueuedRow(k)]

InsertJob(k) == \/ (\E j \in JobIds : IsActive(j, k)) /\ UNCHANGED jobs
                \/ /\ ~ \E j \in JobIds : IsActive(j, k)
                   /\ \E j \in JobIds : AddRow(j, k)

(* claimJobs: due rows, at most the limit; rows another transaction has     *)
(* locked are skipped, so any such set of due rows can be the answer.       *)
Due(j) == jobs[j].state = "queued" /\ jobs[j].delay = 0

ClaimJobs(J, o, limit) ==
    /\ J # {} /\ Cardinality(J) <= limit
    /\ \A j \in J : Due(j)
    /\ jobs' = [j \in JobIds |->
                  IF j \in J
                  THEN [jobs[j] EXCEPT !.state = "running", !.attempts = @ + 1,
                                       !.owner = o, !.lease = LeaseTime]
                  ELSE jobs[j]]

(* renewJobLease, with the time `age` that has passed since the caller read *)
(* its clock: the new expiry is that time + leaseMs.                        *)
RenewJobLease(j, o, age) ==
    jobs' = IF Holds(j, o) THEN [jobs EXCEPT ![j].lease = LeaseTime - age] ELSE jobs

CompleteJob(j, o) ==
    jobs' = IF Holds(j, o)
            THEN [jobs EXCEPT ![j].state = "succeeded", ![j].lease = Over]
            ELSE jobs

ReleaseJob(j, o) ==
    jobs' = IF Holds(j, o)
            THEN [jobs EXCEPT ![j].state = "queued", ![j].delay = 0,
                              ![j].attempts = IF @ > 0 THEN @ - 1 ELSE 0,
                              ![j].owner = NoOwner, ![j].lease = Over]
            ELSE jobs

(* failJob: lease_lost, retry_scheduled or failed. *)
FailOutcome(j, o, retryable) ==
    IF ~ Holds(j, o) THEN "lease_lost"
    ELSE IF retryable /\ jobs[j].attempts < MaxAttempts THEN "retry_scheduled"
    ELSE "failed"

FailJob(j, o, retryable) ==
    LET outcome == FailOutcome(j, o, retryable)
        row == CASE outcome = "lease_lost" -> jobs[j]
                 [] outcome = "retry_scheduled" ->
                      [jobs[j] EXCEPT !.state = "queued", !.owner = NoOwner, !.lease = Over,
                                      !.delay = Backoff(jobs[j].attempts)]
                 [] outcome = "failed" ->
                      [jobs[j] EXCEPT !.state = "failed", !.lease = Over]
    IN jobs' = [jobs EXCEPT ![j] = row]

(* Faulty: expired rows are queued again as if they were released. *)
ExpiredRow_released(row) ==
    [row EXCEPT !.state = "queued", !.owner = NoOwner, !.lease = Over, !.delay = 0,
                !.attempts = @ - 1]

(* requeueExpiredJobs: the rows of J whose lease is over are queued again,  *)
(* or fail when no attempt is left.                                         *)
ExpiredRow(row) ==
    IF row.attempts < MaxAttempts
    THEN [row EXCEPT !.state = "queued", !.owner = NoOwner, !.lease = Over, !.delay = 0]
    ELSE [row EXCEPT !.state = "failed", !.owner = NoOwner, !.lease = Over]

RequeueExpiredJobs(J) ==
    /\ J # {} /\ \A j \in J : Expired(j)
    /\ jobs' = [j \in JobIds |-> IF j \in J THEN ExpiredRow(jobs[j]) ELSE jobs[j]]

(* The operator's retryJob: it locks the stopped row, looks for equal work  *)
(* and queues the row.  The lock keeps other operators from the row, but    *)
(* not an insertJob from committing equal work between the two statements.  *)
StoppedStates == {"failed", "abandoned"}
EqualWork(j) == \E o \in JobIds \ {j} : IsActive(o, jobs[j].key)

RetryLooks(j) ==
    /\ jobs[j].state \in StoppedStates /\ ~ jobs[j].locked
    /\ ~ EqualWork(j)
    /\ jobs' = [jobs EXCEPT ![j].locked = TRUE]

(* Faulty: without the index, what the first statement saw is trusted. *)
RetryQueues_unindexed(j) ==
    /\ jobs[j].locked
    /\ jobs' = [jobs EXCEPT ![j] = QueuedRow(@.key)]

(* The unique index publishing_jobs_active_unique refuses the update (23505)*)
(* when equal work is active by then.                                       *)
RetryQueues(j) ==
    /\ jobs[j].locked /\ ~ EqualWork(j)
    /\ jobs' = [jobs EXCEPT ![j] = QueuedRow(@.key)]

(* The update was refused, or the process or connection ended: roll back.   *)
RetryRollsBack(j) ==
    /\ jobs[j].locked
    /\ jobs' = [jobs EXCEPT ![j].locked = FALSE]

RetryJob(j) == RetryLooks(j) \/ RetryQueues(j) \/ RetryRollsBack(j)

AbandonJob(j) ==
    /\ jobs[j].state \in {"queued", "failed"} /\ ~ jobs[j].locked
    /\ jobs' = [jobs EXCEPT ![j].state = "abandoned", ![j].owner = NoOwner, ![j].lease = Over]

(* The retention step of scheduleCleanup: old succeeded rows are deleted.   *)
DeleteSucceeded(j) ==
    /\ jobs[j].state = "succeeded"
    /\ jobs' = [jobs EXCEPT ![j] = Absent]

(* One tick of the clock every `now` is read from. *)
Sooner(t, floor) == IF t > floor THEN t - 1 ELSE floor
TimePasses ==
    jobs' = [j \in JobIds |-> [jobs[j] EXCEPT !.lease = Sooner(@, Over), !.delay = Sooner(@, 0)]]

-----------------------------------------------------------------------------
(* publishing_jobs_active_unique: equal work is queued or running once.  It *)
(* is the index that makes this so (insertJob's ON CONFLICT, and RetryQueues*)
(* above); what follows from it for the runs is stated where they are.      *)
ActiveUnique ==
    \A i, j \in JobIds :
        i # j /\ jobs[i].state \in Active => ~ IsActive(j, jobs[i].key)

(* publishing_jobs_running_leased: a running row has an owner and was       *)
(* claimed at least once, a queued row belongs to nobody, and what an       *)
(* operator retries stays stopped until then.                               *)
LeaseMatchesState ==
    \A j \in JobIds :
        /\ jobs[j].state = "running" => jobs[j].owner # NoOwner /\ jobs[j].attempts > 0
        /\ jobs[j].state = "queued" => jobs[j].owner = NoOwner /\ jobs[j].attempts < MaxAttempts
        /\ jobs[j].state # "running" => jobs[j].lease = Over
        /\ jobs[j].locked => jobs[j].state \in StoppedStates
=============================================================================
