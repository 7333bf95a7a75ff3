-------------------------- MODULE PublishingWorker --------------------------
(***************************************************************************)
(* Publishing worker processes over the job table: claiming, lease renewal, *)
(* the local lease deadline, recording of outcomes, shutdown and crash      *)
(* (backend-production publishing/worker.ts).  A port call is at least two  *)
(* steps, the commit in the database and the reply in the process, and      *)
(* either can be lost.                                                      *)
(*                                                                          *)
(* What a handler does to the subject of its job is the matter of           *)
(* PublishingProcessing; here it runs, may hang, and ends.                  *)
(***************************************************************************)
EXTENDS PublishingJobs

CONSTANTS
    Workers,       \* worker processes sharing the table
    Concurrency,   \* concurrency, the job slots of one worker
    LeaseSafety    \* leaseSafetyMs, in ticks

ASSUME WorkerAssumption == NoOwner \notin Workers
ASSUME ConcurrencyAssumption == Concurrency \in Nat \ {0}
ASSUME SafetyAssumption == LeaseSafety \in 0..(LeaseTime - 1)

VARIABLES
    state,         \* PublishingWorker.state of each process
    inbox,         \* claims committed for the process whose reply is under way
    runs,          \* PublishingWorker.runs: the ActiveRun of each job, if any
    releases       \* release calls under way for leases without a run

vars == <<jobs, state, inbox, runs, releases>>

-----------------------------------------------------------------------------
Lease == [id : JobIds, owner : Owners]
Claim == [id : JobIds, owner : Owners, left : Over..LeaseTime]

Calls == {"none", "complete", "fail_retryable", "fail_final", "release"}
Results == {"complete", "fail_retryable", "fail_final"}

(* Renewal: the state of the renewJobLease call, and the time since the     *)
(* process read its clock for it.                                           *)
Renewal == [phase : {"idle", "sent", "held", "refused"}, age : 0..(LeaseTime + 1)]
NoRenewal == [phase |-> "idle", age |-> 0]

ActiveRun == [owner : Owners \cup {NoOwner},
              left : Over..LeaseTime,       \* leaseExpiresAt - now, locally
              aborted : {"no", "lease_lost", "shutdown"},
              settled : BOOLEAN,
              call : Calls,                 \* the outcome call under way
              renew : Renewal]
NoRun == [owner |-> NoOwner, left |-> Over, aborted |-> "no",
          settled |-> FALSE, call |-> "none", renew |-> NoRenewal]

TypeOK ==
    /\ JobsTypeOK
    /\ state \in [Workers -> {"idle", "running", "stopping", "aborting", "stopped"}]
    /\ inbox \in [Workers -> SUBSET Claim]
    /\ runs \in [Workers -> [JobIds -> ActiveRun]]
    /\ releases \in [Workers -> SUBSET Lease]

Init ==
    /\ JobsInit
    /\ state = [w \in Workers |-> "idle"]
    /\ inbox = [w \in Workers |-> {}]
    /\ runs = [w \in Workers |-> [j \in JobIds |-> NoRun]]
    /\ releases = [w \in Workers |-> {}]

-----------------------------------------------------------------------------
HasRun(w, j) == runs[w][j].owner # NoOwner
Running(w) == {j \in JobIds : HasRun(w, j)}

(* The handler may still have effects: nothing told it to stop and no       *)
(* outcome is being recorded.                                               *)
Live(w, j) == HasRun(w, j) /\ ~ runs[w][j].settled /\ runs[w][j].aborted = "no"

(* Every claim call uses a new label, which nothing refers to yet.          *)
Fresh(o) ==
    /\ \A j \in JobIds : jobs[j].owner # o
    /\ \A w \in Workers :
         /\ \A c \in inbox[w] : c.owner # o
         /\ \A r \in releases[w] : r.owner # o
         /\ \A j \in JobIds : runs[w][j].owner # o

SetRun(w, j, r) == runs' = [runs EXCEPT ![w][j] = r]
UpdateRun(w, j, f, v) == SetRun(w, j, [runs[w][j] EXCEPT ![f] = v])
EndRun(w, j) == SetRun(w, j, NoRun)

-----------------------------------------------------------------------------
(* The table's other clients. *)

(* enqueueJob, insertJob of an author's command, and the maintenance        *)
(* schedules.  The id of a row is new: no process knows it.                 *)
Unknown(j) == \A w \in Workers : /\ ~ HasRun(w, j)
                                 /\ \A c \in inbox[w] : c.id # j
                                 /\ \A r \in releases[w] : r.id # j

Enqueue == \E k \in Keys :
    /\ InsertJob(k)
    /\ \A j \in JobIds : jobs'[j] # jobs[j] => Unknown(j)
    /\ UNCHANGED <<state, inbox, runs, releases>>

OperatorRetries == \E j \in JobIds : RetryJob(j) /\ UNCHANGED <<state, inbox, runs, releases>>
OperatorAbandons == \E j \in JobIds : AbandonJob(j) /\ UNCHANGED <<state, inbox, runs, releases>>

-----------------------------------------------------------------------------
(* tick(): maintenance, then a claim for the free slots. *)

Start(w) ==
    /\ state[w] = "idle"
    /\ state' = [state EXCEPT ![w] = "running"]
    /\ UNCHANGED <<jobs, inbox, runs, releases>>

RequeueExpired(w) ==
    /\ state[w] = "running" /\ inbox[w] = {}
    /\ \E J \in SUBSET JobIds : RequeueExpiredJobs(J)
    /\ UNCHANGED <<state, inbox, runs, releases>>

RetainSucceeded(w) ==
    /\ state[w] = "running" /\ inbox[w] = {}
    /\ \E j \in JobIds : DeleteSucceeded(j)
    /\ UNCHANGED <<state, inbox, runs, releases>>

(* Faulty: the runs that occupy slots are not counted. *)
ClaimSet_all_slots(w, J) ==
    /\ state[w] = "running" /\ inbox[w] = {}
    /\ \E o \in Owners :
         /\ Fresh(o)
         /\ ClaimJobs(J, o, Concurrency)
         /\ inbox' = [inbox EXCEPT ![w] = {[id |-> j, owner |-> o, left |-> LeaseTime] : j \in J}]
    /\ UNCHANGED <<state, runs, releases>>

ClaimSet(w, J) ==
    /\ state[w] = "running" /\ inbox[w] = {}
    /\ \E o \in Owners :
         /\ Fresh(o)
         /\ ClaimJobs(J, o, Concurrency - Cardinality(Running(w)))
         /\ inbox' = [inbox EXCEPT ![w] = {[id |-> j, owner |-> o, left |-> LeaseTime] : j \in J}]
    /\ UNCHANGED <<state, runs, releases>>
ClaimFree(w) == \E J \in SUBSET JobIds : ClaimSet(w, J)

(* The reply: a claim starts a run, or is given back when the worker is     *)
(* stopping or still has a run of that job.  A claim that comes later than  *)
(* its deadline arms a zero-delay timer, which aborts the run before the    *)
(* handler's first reply.                                                   *)
StartedRun(c) == [owner |-> c.owner, left |-> c.left,
                  aborted |-> IF c.left <= LeaseSafety THEN "lease_lost" ELSE "no",
                  settled |-> FALSE, call |-> "none", renew |-> NoRenewal]

(* Faulty: a claim that comes after the stop is started. *)
ReceiveClaims_after_stop(w) ==
    LET taken == {c \in inbox[w] : ~ HasRun(w, c.id)}
    IN /\ inbox[w] # {}
       /\ runs' = [runs EXCEPT ![w] = [j \in JobIds |->
                     IF \E c \in taken : c.id = j
                     THEN StartedRun(CHOOSE c \in taken : c.id = j)
                     ELSE runs[w][j]]]
       /\ releases' = [releases EXCEPT ![w] = @ \cup
                         {[id |-> c.id, owner |-> c.owner] : c \in inbox[w] \ taken}]
       /\ inbox' = [inbox EXCEPT ![w] = {}]
       /\ UNCHANGED <<jobs, state>>

ReceiveClaims(w) ==
    LET taken == {c \in inbox[w] : state[w] = "running" /\ ~ HasRun(w, c.id)}
    IN /\ inbox[w] # {}
       /\ runs' = [runs EXCEPT ![w] = [j \in JobIds |->
                     IF \E c \in taken : c.id = j
                     THEN StartedRun(CHOOSE c \in taken : c.id = j)
                     ELSE runs[w][j]]]
       /\ releases' = [releases EXCEPT ![w] = @ \cup
                         {[id |-> c.id, owner |-> c.owner] : c \in inbox[w] \ taken}]
       /\ inbox' = [inbox EXCEPT ![w] = {}]
       /\ UNCHANGED <<jobs, state>>

LoseClaims(w) ==
    /\ inbox[w] # {}
    /\ inbox' = [inbox EXCEPT ![w] = {}]
    /\ UNCHANGED <<jobs, state, runs, releases>>

ReleaseClaim(w) == \E r \in releases[w] :
    /\ ReleaseJob(r.id, r.owner) \/ UNCHANGED jobs       \* or the call fails
    /\ releases' = [releases EXCEPT ![w] = @ \ {r}]
    /\ UNCHANGED <<state, inbox, runs>>

-----------------------------------------------------------------------------
(* Lease renewal and the local deadline. *)

LoseLease(w, j) == UpdateRun(w, j, "aborted", "lease_lost")

SendRenewal(w, j) ==
    /\ Live(w, j) /\ runs[w][j].renew.phase = "idle"
    /\ UpdateRun(w, j, "renew", [phase |-> "sent", age |-> 0])
    /\ UNCHANGED <<jobs, state, inbox, releases>>

CommitRenewal(w, j) ==
    LET r == runs[w][j]
    IN /\ HasRun(w, j) /\ r.renew.phase = "sent"
       /\ RenewJobLease(j, r.owner, r.renew.age)
       /\ UpdateRun(w, j, "renew",
            [r.renew EXCEPT !.phase = IF Holds(j, r.owner) THEN "held" ELSE "refused"])
       /\ UNCHANGED <<state, inbox, releases>>

(* Faulty: the lease is counted from the reply, not from before the call. *)
ReceiveRenewal_from_reply(w, j) ==
    LET r == runs[w][j]
    IN /\ HasRun(w, j) /\ r.renew.phase \in {"held", "refused"}
       /\ SetRun(w, j,
            IF ~ Live(w, j) THEN [r EXCEPT !.renew = NoRenewal]
            ELSE IF r.renew.phase = "refused"
            THEN [r EXCEPT !.renew = NoRenewal, !.aborted = "lease_lost"]
            ELSE [r EXCEPT !.renew = NoRenewal, !.left = LeaseTime])
       /\ UNCHANGED <<jobs, state, inbox, releases>>

ReceiveRenewal(w, j) ==
    LET r == runs[w][j]
        left == LeaseTime - r.renew.age
    IN /\ HasRun(w, j) /\ r.renew.phase \in {"held", "refused"}
       /\ SetRun(w, j,
            IF ~ Live(w, j) THEN [r EXCEPT !.renew = NoRenewal]
            ELSE IF r.renew.phase = "refused"
            THEN [r EXCEPT !.renew = NoRenewal, !.aborted = "lease_lost"]
            ELSE [r EXCEPT !.renew = NoRenewal, !.left = left,
                           !.aborted = IF left <= LeaseSafety THEN "lease_lost" ELSE "no"])
       /\ UNCHANGED <<jobs, state, inbox, releases>>

(* The call throws, before or after its commit. *)
RenewalThrows(w, j) ==
    /\ HasRun(w, j) /\ runs[w][j].renew.phase # "idle"
    /\ UpdateRun(w, j, "renew", NoRenewal)
    /\ UNCHANGED <<jobs, state, inbox, releases>>

DeadlineFires(w, j) ==
    /\ Live(w, j) /\ runs[w][j].left <= LeaseSafety
    /\ LoseLease(w, j)
    /\ UNCHANGED <<jobs, state, inbox, releases>>

-----------------------------------------------------------------------------
(* execute() and record(): the handler ends, its outcome is recorded. *)

Handling(w, j) == HasRun(w, j) /\ runs[w][j].call = "none"

HandlerReturns(w, j) ==
    /\ Handling(w, j)
    /\ IF runs[w][j].settled THEN EndRun(w, j)
       ELSE \E result \in Results :
              SetRun(w, j, [runs[w][j] EXCEPT !.settled = TRUE, !.call = result])
    /\ UNCHANGED <<jobs, state, inbox, releases>>

(* It throws because it was aborted: a lost lease records nothing. *)
HandlerAborts(w, j) ==
    /\ Handling(w, j) /\ runs[w][j].aborted # "no"
    /\ IF runs[w][j].aborted = "shutdown" /\ ~ runs[w][j].settled
       THEN SetRun(w, j, [runs[w][j] EXCEPT !.settled = TRUE, !.call = "release"])
       ELSE EndRun(w, j)
    /\ UNCHANGED <<jobs, state, inbox, releases>>

CommitOutcome(w, j) ==
    LET r == runs[w][j]
    IN /\ HasRun(w, j) /\ r.call # "none"
       /\ CASE r.call = "complete" -> CompleteJob(j, r.owner)
            [] r.call = "fail_retryable" -> FailJob(j, r.owner, TRUE)
            [] r.call = "fail_final" -> FailJob(j, r.owner, FALSE)
            [] r.call = "release" -> ReleaseJob(j, r.owner)
       /\ EndRun(w, j)
       /\ UNCHANGED <<state, inbox, releases>>

OutcomeNotRecorded(w, j) ==
    /\ HasRun(w, j) /\ runs[w][j].call # "none"
    /\ EndRun(w, j)
    /\ UNCHANGED <<jobs, state, inbox, releases>>

-----------------------------------------------------------------------------
(* stop(): grace, abort, release of what is unsettled, end. *)

Stop(w) ==
    /\ state[w] \in {"idle", "running"}
    /\ state' = [state EXCEPT ![w] = IF @ = "idle" THEN "stopped" ELSE "stopping"]
    /\ UNCHANGED <<jobs, inbox, runs, releases>>

AbortedRun(r) == IF r.aborted = "no" THEN [r EXCEPT !.aborted = "shutdown"] ELSE r

AbortRuns(w) ==
    /\ state[w] = "stopping" /\ Running(w) # {}
    /\ state' = [state EXCEPT ![w] = "aborting"]
    /\ runs' = [runs EXCEPT ![w] =
                  [j \in JobIds |-> IF HasRun(w, j) THEN AbortedRun(runs[w][j]) ELSE NoRun]]
    /\ UNCHANGED <<jobs, inbox, releases>>

(* Handlers that did not end within the abort grace go on, but their leases *)
(* are given back and no outcome of theirs is recorded.                     *)
Unsettled(w) == {j \in Running(w) : ~ runs[w][j].settled}

ReleaseRuns(w) ==
    /\ state[w] = "aborting" /\ Unsettled(w) # {}
    /\ runs' = [runs EXCEPT ![w] =
                  [j \in JobIds |-> IF j \in Unsettled(w)
                                    THEN [runs[w][j] EXCEPT !.settled = TRUE]
                                    ELSE runs[w][j]]]
    /\ releases' = [releases EXCEPT ![w] = @ \cup
                      {[id |-> j, owner |-> runs[w][j].owner] : j \in Unsettled(w)}]
    /\ UNCHANGED <<jobs, state, inbox>>

Stopped(w) ==
    /\ \/ state[w] = "stopping" /\ Running(w) = {}
       \/ state[w] = "aborting" /\ Unsettled(w) = {}
    /\ state' = [state EXCEPT ![w] = "stopped"]
    /\ UNCHANGED <<jobs, inbox, runs, releases>>

(* The process ends, orderly or not, and a new one takes its place. *)
Exit(w) ==
    /\ state[w] # "idle"
    /\ state' = [state EXCEPT ![w] = "idle"]
    /\ inbox' = [inbox EXCEPT ![w] = {}]
    /\ runs' = [runs EXCEPT ![w] = [j \in JobIds |-> NoRun]]
    /\ releases' = [releases EXCEPT ![w] = {}]
    /\ UNCHANGED jobs

-----------------------------------------------------------------------------
(* A tick of the shared clock.  Timers may be late by less than the safety  *)
(* margin: a run still live when its local lease is over stops the clock    *)
(* until its deadline timer has fired.                                      *)
OlderRenewal(n) == IF n.phase = "idle" \/ n.age > LeaseTime THEN n
                   ELSE [n EXCEPT !.age = @ + 1]
OlderRun(r) == IF r.owner = NoOwner THEN r
               ELSE [r EXCEPT !.left = Sooner(@, Over), !.renew = OlderRenewal(@)]

TimersOnTime == \A w \in Workers, j \in JobIds : Live(w, j) => runs[w][j].left > 0

Tick ==
    /\ TimersOnTime
    /\ TimePasses
    /\ inbox' = [w \in Workers |-> {[c EXCEPT !.left = Sooner(@, Over)] : c \in inbox[w]}]
    /\ runs' = [w \in Workers |-> [j \in JobIds |-> OlderRun(runs[w][j])]]
    /\ UNCHANGED <<state, releases>>

-----------------------------------------------------------------------------
RunStep(w, j) ==
    \/ SendRenewal(w, j) \/ CommitRenewal(w, j) \/ ReceiveRenewal(w, j)
    \/ RenewalThrows(w, j) \/ DeadlineFires(w, j)
    \/ HandlerReturns(w, j) \/ HandlerAborts(w, j)
    \/ CommitOutcome(w, j) \/ OutcomeNotRecorded(w, j)

WorkerStep(w) ==
    \/ Start(w) \/ RequeueExpired(w) \/ RetainSucceeded(w)
    \/ ClaimFree(w) \/ ReceiveClaims(w) \/ LoseClaims(w) \/ ReleaseClaim(w)
    \/ Stop(w) \/ AbortRuns(w) \/ ReleaseRuns(w) \/ Stopped(w) \/ Exit(w)
    \/ \E j \in JobIds : RunStep(w, j)

Next ==
    \/ Enqueue \/ OperatorRetries \/ OperatorAbandons \/ Tick
    \/ \E w \in Workers : WorkerStep(w)

Spec == Init /\ [][Next]_vars

(* Scheduling: clocks advance, a process that should start, poll, reply to  *)
(* a timer or continue an awaited call does so unless it ends; some worker  *)
(* requeues and claims again and again, however often workers are replaced  *)
(* (claims take the oldest run_after first, so no due job is passed over    *)
(* for ever); handlers end, since every tool they run has a time limit.     *)
Fairness ==
    /\ WF_vars(Tick)
    /\ \A w \in Workers :
         /\ WF_vars(Start(w))
         /\ WF_vars(ReceiveClaims(w) \/ LoseClaims(w))
         /\ WF_vars(AbortRuns(w) \/ ReleaseRuns(w) \/ Stopped(w))
         /\ WF_vars(state[w] = "stopped" /\ Exit(w))
         /\ WF_vars(ReleaseClaim(w))
    /\ \A w \in Workers, j \in JobIds :
         /\ WF_vars(DeadlineFires(w, j))
         /\ WF_vars(HandlerReturns(w, j) \/ HandlerAborts(w, j))
         /\ WF_vars(CommitOutcome(w, j) \/ OutcomeNotRecorded(w, j))
    /\ \A j \in JobIds :
         /\ SF_vars(\E w \in Workers, J \in SUBSET JobIds : j \in J /\ ClaimSet(w, J))
         /\ SF_vars(\E w \in Workers : RequeueExpired(w) /\ jobs'[j] # jobs[j])

FairSpec == Spec /\ Fairness

-----------------------------------------------------------------------------
(* Two workers never execute one job at the same time: whatever renewals,   *)
(* replies and outcome calls are late or lost, the deadline a run keeps     *)
(* locally comes before the expiry that lets another worker claim the job   *)
(* (armDeadline: "a requeued job is not processed twice at once").          *)
Exclusive ==
    \A v, w \in Workers, j \in JobIds : Live(v, j) /\ Live(w, j) => v = w

(* Nor do they execute equal work under two jobs: the job an operator       *)
(* retries while its work is asked for again, is claimed and runs elsewhere *)
(* is not a second one (retryJob, "an equal job is already active").        *)
EqualWorkOnce ==
    \A v, w \in Workers, i, j \in JobIds :
        Live(v, i) /\ Live(w, j) /\ jobs[i].key = jobs[j].key => v = w /\ i = j

(* A run that was not told to stop owns the lease it runs under, and the    *)
(* lease lasts at least as long as the run believes.                        *)
LiveRunsHoldTheirLease ==
    \A w \in Workers, j \in JobIds :
        Live(w, j) => /\ Holds(j, runs[w][j].owner)
                      /\ 0 <= runs[w][j].left /\ runs[w][j].left <= jobs[j].lease

(* A worker that is stopping or has stopped starts nothing, also when the   *)
(* reply to a claim comes after the stop: what it still runs after          *)
(* stop() resolved was settled, so no outcome will be recorded for it.      *)
StoppedWorkerIsSettled ==
    \A w \in Workers, j \in JobIds :
        state[w] = "stopped" /\ HasRun(w, j) => runs[w][j].settled

(* Claims under way and runs never take more than the worker's slots,       *)
(* although the free slots are counted before the claim call and runs end   *)
(* while it is under way.                                                   *)
SlotsRespected ==
    \A w \in Workers :
        Cardinality({c.id : c \in inbox[w]}) + Cardinality(Running(w)) <= Concurrency

(* A job that is asked for ends, whatever crashes, lost replies and lost    *)
(* leases it meets, because every claim but a released one spends one of    *)
(* its attempts; only deliberate stops, whose releases are attempt-neutral, *)
(* could go on for ever.                                                    *)
StopsEnd == <>[][\A w \in Workers : ~ Stop(w)]_vars
JobsEnd ==
    StopsEnd => \A j \in JobIds :
                   jobs[j].state \in Active ~> jobs[j].state \notin Active

-----------------------------------------------------------------------------
(* Why it is so.  A live run holds its lease, which ends no earlier than    *)
(* the run's own deadline; a renewal under way can only move that end to a  *)
(* time the run's deadline does not pass, and one that was held already     *)
(* moved it there.                                                          *)
RunIsBacked(w, j) ==
    LET r == runs[w][j]
    IN /\ Holds(j, r.owner)
       /\ 0 <= r.left /\ r.left <= jobs[j].lease
       /\ r.renew.phase \in {"sent", "held"} => r.left + r.renew.age <= LeaseTime
       /\ r.renew.phase = "held" => LeaseTime - r.renew.age <= jobs[j].lease

RunsAreBacked == \A w \in Workers, j \in JobIds : Live(w, j) => RunIsBacked(w, j)

(* So does a claim whose reply is still under way. *)
ClaimsAreBacked ==
    \A w \in Workers : \A c \in inbox[w] :
        0 <= c.left => Holds(c.id, c.owner) /\ c.left <= jobs[c.id].lease

(* And nobody else acts under that lease: the label of a lease on a job is  *)
(* known to one run, one claim or one release call.                         *)
RunsOwnTheirLease ==
    \A v, w \in Workers, j \in JobIds :
        HasRun(v, j) /\ HasRun(w, j) /\ runs[v][j].owner = runs[w][j].owner => v = w
ClaimsOwnTheirLease ==
    /\ \A v, w \in Workers : \A c \in inbox[v], d \in inbox[w] :
         c.id = d.id /\ c.owner = d.owner => v = w
    /\ \A w \in Workers : \A c, d \in inbox[w] : c.id = d.id => c = d
    /\ \A v, w \in Workers : \A c \in inbox[v] : runs[w][c.id].owner # c.owner
ReleasesAreAlone ==
    \A v, w \in Workers : \A r \in releases[v] :
        /\ Live(w, r.id) => runs[w][r.id].owner # r.owner
        /\ \A c \in inbox[w] : c.id = r.id => c.owner # r.owner

LeaseInv == /\ RunsAreBacked /\ ClaimsAreBacked
            /\ RunsOwnTheirLease /\ ClaimsOwnTheirLease /\ ReleasesAreAlone

-----------------------------------------------------------------------------
(* The promise of JobExecution, refined by the workers and the table.       *)
Status(j) == CASE jobs[j].state = "absent" -> "absent"
               [] jobs[j].state \in Active -> "waiting"
               [] jobs[j].state \in Ended -> "ended"

Execution == INSTANCE JobExecution WITH
    Jobs <- JobIds,
    status <- [j \in JobIds |-> Status(j)],
    executors <- [j \in JobIds |-> {w \in Workers : Live(w, j)}]

ExecutesOneAtATime == Execution!Spec
=============================================================================
