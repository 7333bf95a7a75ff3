------------------------ MODULE PublishingProcessing ------------------------
(***************************************************************************)
(* Processing of uploaded media items: the author's upload, reset and       *)
(* cancel (publishing/uploads.ts, publishing/media.ts), the `process_item`  *)
(* handler (backend-production publishing/job-handlers.ts) with the worker  *)
(* that runs it, the queue maintenance and the operator's job commands.     *)
(*                                                                          *)
(* The module is about who changes an item when.  Of the transfer of an     *)
(* item's components only the commit of the last one remains, and of the    *)
(* lease only that it is over at some time (PublishingWorker has the        *)
(* clocks): a lease is live until LapseLease.                               *)
(***************************************************************************)
EXTENDS PublishingJobs

CONSTANTS
    Items,         \* media items; `process_item` with the item is the job key
    Runs,          \* job slots of all workers
    MaxUploads,    \* bound: how often one item's bytes are uploaded
    LateCommits    \* whether a database call of a run can take effect after
                   \* the run's lease was over, its process killed or released

ASSUME KeysAreItems == Keys = Items
ASSUME LateCommitsAssumption == LateCommits \in BOOLEAN
ASSUME UploadsAssumption == MaxUploads \in Nat

VARIABLES
    item,          \* media_items, with what its bytes and derivatives are
    run            \* the execution of one claimed job

vars == <<jobs, item, run>>

-----------------------------------------------------------------------------
ItemStates == {"awaiting_upload", "processing", "ready", "failed", "cancelled"}

(* `bytes` numbers the upload whose blobs the components name; `derived`    *)
(* is the upload the recorded derivatives were made from.                   *)
Item == [state : ItemStates, bytes : 0..MaxUploads, derived : 0..MaxUploads]

Steps == {"idle",
          "reading",      \* before readProcessing
          "processing",   \* the processor works on `bytes`
          "committing",   \* discardIfAborted passed; markItemReady under way
          "rejecting",    \* discardIfAborted passed; markItemFailed under way
          "completed",    \* the handler returned COMPLETED
          "throwing",     \* the handler failed, retryable
          "failing",      \* the handler failed for good
          "notifying"}    \* failJob answered `failed`: onJobFailed under way

Run == [at : Steps, job : JobIds \cup {NoKey}, owner : Owners \cup {NoOwner},
        bytes : 0..MaxUploads, aborted : BOOLEAN]
Free == [at |-> "idle", job |-> NoKey, owner |-> NoOwner, bytes |-> 0, aborted |-> FALSE]

TypeOK == /\ JobsTypeOK
          /\ item \in [Items -> Item]
          /\ run \in [Runs -> Run]

Init == /\ JobsInit
        /\ item = [i \in Items |-> [state |-> "awaiting_upload", bytes |-> 0, derived |-> 0]]
        /\ run = [r \in Runs |-> Free]

Busy(r) == run[r].at # "idle"
SubjectOf(r) == jobs[run[r].job].key
Goto(r, step) == run' = [run EXCEPT ![r].at = step]
EndRun(r) == run' = [run EXCEPT ![r] = Free]

SetState(i, s) == item' = [item EXCEPT ![i].state = s]

(* failProcessingItems, and markItemFailed with one item. *)
FailProcessingItems(S) ==
    item' = [i \in Items |-> IF i \in S /\ item[i].state = "processing"
                             THEN [item[i] EXCEPT !.state = "failed"] ELSE item[i]]

-----------------------------------------------------------------------------
(* The author. *)

(* commitComponentUpload of the last component. *)
CommitUpload(i) ==
    /\ item[i].state = "awaiting_upload" /\ item[i].bytes < MaxUploads
    /\ item' = [item EXCEPT ![i].state = "processing", ![i].bytes = @ + 1]
    /\ InsertJob(i)
    /\ UNCHANGED run

(* resetComponent of an item that is not processing or ready. *)
ResetComponent(i) ==
    /\ item[i].state = "failed"
    /\ SetState(i, "awaiting_upload")
    /\ UNCHANGED <<jobs, run>>

CancelItem(i) ==
    /\ item[i].state \in {"awaiting_upload", "processing", "failed"}
    /\ SetState(i, "cancelled")
    /\ UNCHANGED <<jobs, run>>

-----------------------------------------------------------------------------
(* The handler of a claimed job. *)

Fresh(o) == /\ \A j \in JobIds : jobs[j].owner # o
            /\ \A r \in Runs : run[r].owner # o

StartRun(r) == \E j \in JobIds, o \in Owners :
    /\ ~ Busy(r) /\ Fresh(o)
    /\ ClaimJobs({j}, o, 1)
    /\ run' = [run EXCEPT ![r] = [Free EXCEPT !.at = "reading", !.job = j, !.owner = o]]
    /\ UNCHANGED item

(* readProcessing: there is nothing to do unless the item is processing. *)
ReadProcessing(r) ==
    /\ run[r].at = "reading"
    /\ LET i == SubjectOf(r)
       IN run' = [run EXCEPT ![r] = IF item[i].state = "processing"
                    THEN [@ EXCEPT !.at = "processing", !.bytes = item[i].bytes]
                    ELSE [@ EXCEPT !.at = "completed"]]
    /\ UNCHANGED <<jobs, item>>

(* The processor ends.  discardIfAborted: what was done under an aborted    *)
(* signal is thrown away, and a lost lease records nothing.                 *)
ProcessorEnds(r, step) ==
    /\ run[r].at = "processing"
    /\ IF run[r].aborted THEN EndRun(r) ELSE Goto(r, step)
    /\ UNCHANGED <<jobs, item>>

ProcessorAccepts(r) == ProcessorEnds(r, "committing")
ProcessorRejects(r) == ProcessorEnds(r, "rejecting")
ProcessorThrows(r) == ProcessorEnds(r, "throwing")
ProcessorFailsForGood(r) == ProcessorEnds(r, "failing")

(* The watch of runProcessor saw that the item needs no processing.         *)
ProcessorCancelled(r) ==
    /\ run[r].at = "processing" /\ item[SubjectOf(r)].state # "processing"
    /\ IF run[r].aborted THEN EndRun(r) ELSE Goto(r, "completed")
    /\ UNCHANGED <<jobs, item>>

(* Faulty: whatever became of the item. *)
ReadyItem_unchecked(i, bytes) ==
    item' = [item EXCEPT ![i].state = "ready", ![i].derived = bytes]

(* markItemReady: recorded when the item is still processing, else the      *)
(* derivatives are discarded.                                               *)
ReadyItem(i, bytes) ==
    item' = IF item[i].state = "processing"
            THEN [item EXCEPT ![i].state = "ready", ![i].derived = bytes]
            ELSE item

MarkItemReady(r) ==
    /\ run[r].at = "committing"
    /\ ReadyItem(SubjectOf(r), run[r].bytes)
    /\ \E step \in {"completed", "throwing"} : Goto(r, step)   \* or the reply is lost
    /\ UNCHANGED jobs

MarkItemFailed(r) ==
    /\ run[r].at = "rejecting"
    /\ FailProcessingItems({SubjectOf(r)})
    /\ \E step \in {"completed", "throwing"} : Goto(r, step)
    /\ UNCHANGED jobs

(* Either call rolls back. *)
CommitThrows(r) ==
    /\ run[r].at \in {"committing", "rejecting"}
    /\ Goto(r, "throwing")
    /\ UNCHANGED <<jobs, item>>

(* Faulty: only onJobFailed fails the item, not the transaction of failJob. *)
RecordFailed_job_only(r) ==
    LET j == run[r].job
        retryable == run[r].at = "throwing"
    IN /\ run[r].at \in {"throwing", "failing"}
       /\ IF run[r].at = "throwing" /\ run[r].aborted
          THEN UNCHANGED jobs /\ EndRun(r)
          ELSE /\ FailJob(j, run[r].owner, retryable)
               /\ IF FailOutcome(j, run[r].owner, retryable) = "failed"
                  THEN Goto(r, "notifying") ELSE EndRun(r)
       /\ UNCHANGED item

(* record(): completeJob, or failJob with the item in the same transaction. *)
RecordCompleted(r) ==
    /\ run[r].at = "completed"
    /\ CompleteJob(run[r].job, run[r].owner)
    /\ EndRun(r)
    /\ UNCHANGED item

RecordFailed(r) ==
    LET j == run[r].job
        retryable == run[r].at = "throwing"
        outcome == FailOutcome(j, run[r].owner, retryable)
    IN /\ run[r].at \in {"throwing", "failing"}
       /\ IF run[r].at = "throwing" /\ run[r].aborted
          THEN UNCHANGED <<jobs, item>> /\ EndRun(r)      \* the abort is what was thrown
          ELSE /\ FailJob(j, run[r].owner, retryable)
               /\ IF outcome = "failed"
                  THEN FailProcessingItems({SubjectOf(r)}) /\ Goto(r, "notifying")
                  ELSE UNCHANGED item /\ EndRun(r)

(* onJobFailed: markItemFailed once more. *)
OnJobFailed(r) ==
    /\ run[r].at = "notifying"
    /\ FailProcessingItems({SubjectOf(r)})
    /\ EndRun(r)
    /\ UNCHANGED jobs

(* The outcome call fails, or the process ends. *)
RunDies(r) ==
    /\ Busy(r)
    /\ EndRun(r)
    /\ UNCHANGED <<jobs, item>>

-----------------------------------------------------------------------------
(* Lease expiry, maintenance, and the operator. *)

InCall(r) == run[r].at \in {"committing", "rejecting"}

(* The lease of a run ends: its deadline timer fired before (PublishingWorker,
   LiveRunsHoldTheirLease).  Without late commits no call is under way then. *)
LapseLease(j) ==
    /\ jobs[j].state = "running" /\ jobs[j].lease # Over
    /\ LateCommits \/ \A r \in Runs : InCall(r) => run[r].job # j
    /\ jobs' = [jobs EXCEPT ![j].lease = Over]
    /\ run' = [r \in Runs |-> IF Busy(r) /\ run[r].job = j
                              THEN [run[r] EXCEPT !.aborted = TRUE] ELSE run[r]]
    /\ UNCHANGED item

(* Faulty: the item of a job without attempts left is not failed. *)
RequeueExpired_jobs_only == \E J \in SUBSET JobIds :
    RequeueExpiredJobs(J) /\ UNCHANGED <<item, run>>

RequeueExpired == \E J \in SUBSET JobIds :
    /\ RequeueExpiredJobs(J)
    /\ FailProcessingItems({jobs[j].key : j \in {j \in J : jobs'[j].state = "failed"}})
    /\ UNCHANGED run

OperatorRetries == \E j \in JobIds : RetryJob(j) /\ UNCHANGED <<item, run>>

OperatorAbandons == \E j \in JobIds :
    /\ AbandonJob(j)
    /\ FailProcessingItems({jobs[j].key})
    /\ UNCHANGED run

RetainSucceeded == \E j \in JobIds :
    /\ \A r \in Runs : run[r].job # j
    /\ DeleteSucceeded(j)
    /\ UNCHANGED <<item, run>>

-----------------------------------------------------------------------------
AuthorStep(i) == CommitUpload(i) \/ ResetComponent(i) \/ CancelItem(i)

RunStep(r) ==
    \/ StartRun(r) \/ ReadProcessing(r)
    \/ ProcessorAccepts(r) \/ ProcessorRejects(r) \/ ProcessorThrows(r)
    \/ ProcessorFailsForGood(r) \/ ProcessorCancelled(r)
    \/ MarkItemReady(r) \/ MarkItemFailed(r) \/ CommitThrows(r)
    \/ RecordCompleted(r) \/ RecordFailed(r) \/ OnJobFailed(r) \/ RunDies(r)

Next ==
    \/ \E i \in Items : AuthorStep(i)
    \/ \E r \in Runs : RunStep(r)
    \/ \E j \in JobIds : LapseLease(j)
    \/ RequeueExpired \/ OperatorRetries \/ OperatorAbandons \/ RetainSucceeded

Spec == Init /\ [][Next]_vars

(* Calls end, handlers end, leases end, and workers and maintenance go on.  *)
Fairness ==
    /\ \A r \in Runs :
         /\ SF_vars(StartRun(r))
         /\ WF_vars(RunStep(r) /\ ~ StartRun(r))
    /\ \A j \in JobIds : WF_vars(LapseLease(j))
    /\ WF_vars(RequeueExpired)

FairSpec == Spec /\ Fairness

-----------------------------------------------------------------------------
ActiveJob(i) == \E j \in JobIds : IsActive(j, i)

(* An item that is being processed has a job that will process or fail it:  *)
(* the transactions that end its job (failJob, requeueExpiredJobs,          *)
(* abandonJob) also fail the item, so a crash between two calls, a lost     *)
(* lease or an operator never leaves it behind ("the item never stays       *)
(* processing without a job").  It holds of every item's first upload.      *)
ProcessingHasJob == \A i \in Items : item[i].state = "processing" => ActiveJob(i)

First(i) == item[i].bytes <= 1

FirstUploadHasJob ==
    \A i \in Items : item[i].state = "processing" /\ First(i) => ActiveJob(i)

(* An item is never processed by two runs that hold their jobs, although an *)
(* operator's retry queues a job again while the author uploads again, and  *)
(* leases expire and jobs are claimed meanwhile ("an equal job is already    *)
(* active").                                                                *)
Processes(r) == Busy(r) /\ Holds(run[r].job, run[r].owner)

OneRunPerItem == \A q, r \in Runs :
    Processes(q) /\ Processes(r) /\ SubjectOf(q) = SubjectOf(r) => q = r

(* The derivatives of a ready item were made from the bytes it names, not   *)
(* from bytes an earlier run read before the author replaced them.          *)
DerivedFromItsBytes == \A i \in Items : item[i].state = "ready" => item[i].derived = item[i].bytes

(* No late result of a worker brings a cancelled item back, and a ready     *)
(* item is never failed, reset or derived again.                            *)
SettledItemsStay == [][\A i \in Items :
    item[i].state \in {"ready", "cancelled"} => item'[i] = item[i]]_vars

(* A worker is told once that the job failed; the markItemFailed it then    *)
(* calls changes nothing, the item having failed with the job, unless the   *)
(* author uploaded again meanwhile.                                         *)
LateFailureChangesNothing == [][\A r \in Runs : OnJobFailed(r) =>
    \A i \in Items : First(i) => item'[i] = item[i]]_vars

(* Nothing that comes late changes what is settled: a ready or cancelled     *)
(* item under late results, an item whose job failed under the worker's late *)
(* word of it.                                                               *)
LateResultsChangeNothing == SettledItemsStay /\ LateFailureChangesNothing

(* Every first upload is answered: the item leaves processing. *)
FirstUploadEnds == \A i \in Items :
    item[i].state = "processing" /\ First(i) ~> item[i].state # "processing" \/ ~ First(i)
=============================================================================
