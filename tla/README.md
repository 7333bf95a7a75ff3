# Verification of Yoyi: publishing works, and what happens between accounts

This directory holds TLA+ modules about the Yoyi monorepo, the TLC
configurations that check them, and TLAPS proofs. Its subject are the parts in
which several actors meet: the publishing of works, from the editor in the
browser over the background jobs to moderation, and the private channels between
accounts: notifications, direct messages and connected agents.

Paths are relative to `src/`. `publishing/` alone means
`services/community-postgres/src/publishing/`, `web/` means
`apps/web/features/publishing/`.

## 1. The system

### Components, their state and their operations

| Component | State | Operations | What makes it correct |
|---|---|---|---|
| Job queue (`publishing/jobs.ts`, `operator.ts`) | `publishing_jobs` | `insertJob`, `claimJobs`, `renewJobLease`, `completeJob`, `releaseJob`, `failJob`, `requeueExpiredJobs`, `retryJob`, `abandonJob`, retention | equal work active once; every job ends |
| Worker process (`services/backend-production/src/publishing/worker.ts`) | timers, active runs, pending releases | `start`, `tick`, `startRun`, `renew`, `record`, `stop` | one live run per job; a stopped worker records nothing more; slots are respected |
| Item processing (`job-handlers.ts`, `publishing/media.ts`) | `media_items`, `media_components`, `media_derivatives` | `processItem`, `markItemReady`, `markItemFailed`, `onJobFailed` | every upload is answered; final states stay |
| Media, capacity, storage (`publishing/media.ts`, `uploads.ts`, `sessions.ts`, `work-publishing-service.ts`, `publishing-media-store.ts`) | items, components, blobs, refs, sessions, capacity counters, files | register, upload, reset, cancel, heartbeat, expire, purge, reconcile | counters exact; recorded bytes exist; purged bytes are gone; held items survive |
| Drafts (`publishing/drafts.ts`) | `work_drafts`, `work_draft_snapshots` | save, snapshot, restore, resolve, delete | newer content is never overwritten, unchosen content stays recoverable |
| Submissions and works (`publishing/submissions.ts`, `works.ts`, `operator.ts`, `content-operator-adapter.ts`) | `works`, `work_revisions`, receipts | submit, hide, publish, delete, edit draft, policy, moderate | one work per submission; the public sees the newest approved revision; a decision is on what was read |
| Web publishing client (`web/draft-autosave.ts`, `upload-manager.ts`, `submission-reconcile.ts`, `publishing-runtime.ts`) | autosave state, upload queue, local copies, submission controller | save, choose, switch saving off, upload, retry, cancel, submit, reconcile | a confirmation never covers what is not stored; nothing stalls; nothing crosses accounts |
| Notifications (`services/community-postgres/src/notifications/`) | sources, deliveries, versions, read markers | wake up, claim, project, list, mark | nothing unseen is marked read; nothing is lost |
| Direct messages (`direct-message-adapter.ts`, `apps/web/features/messages/`) | conversations, messages, participants, receipts; the page | send, hide, bring back, mark, remove, load, poll | one request until a reply; a request acts once; nothing new stays hidden |
| Agent connections (`agent-connection-store.ts`, `apps/admin/src/agent-connections`, `services/agent-authorization`) | connection, consents, grants | approve, disconnect, resume | a disconnect is final; who is authorized was approved |
| Accounts, comments, catalog import, editorial administration, HTTP routing, UI | sessions, rows with versions, framework state | | section 7 |

### How they interact

The web client creates a session or a draft, registers media items to it and
streams each component through the API process, which opens an *attempt fence*
on the component row, writes a file into the private store and commits the file
as a blob row. The commit of the last component makes the item `processing` and
inserts a `process_item` job in the same transaction. Workers poll the job table,
run handlers under a lease, and record the result on the item and then on the
job. The editor saves drafts on the revision it read last, and submits a holder
and a content under a request id that it repeats when the answer was lost; the
server turns the holder into a revision of a work, which a policy or a moderator
makes public. Actions on works and messages wake up notification sources, which
workers project into inboxes.

Processes share nothing but the database and the store. Everything interesting
therefore happens between two transactions: calls are delayed, replies are lost,
processes die, accounts change in another tab.

### What is hard

* a lease renewed by a call whose reply comes late or never; a run that goes on
  after its lease was lost, a claim that arrives after a stop;
* one request that is two transactions (a job fails, then its item is failed
  once more; a purge is planned, files are removed, the purge is confirmed);
* results that arrive for an item the author has changed meanwhile;
* saves of two devices on revisions that are out of date, repeated and reordered,
  and choices between the copies they leave, while a history is being trimmed;
* a browser that loses an answer and must neither confirm, nor repeat, nor forget
  what it asked for, while the author types, pauses, cancels and signs out;
* a moderator's decision on a revision the author replaces meanwhile;
* projections that commit in another order than they began, under a reader who
  marks what is read;
* statements of two requests on one row with no transaction around them
  (agent connections), and advisory locks that not every writer takes (messages).

`PROJECT.json` lists these hazards with their lines and the properties that
cover them. Two are left without a property: the ages `reconcileStore` compares
(the model has no clock of the store) and the order of row locks (transactions
are atomic here); a third is a flaw that section 5 describes.

## 2. Modules

| Module | Content |
|---|---|
| `PublishingJobs` | the rows of the job table and one operator per table call |
| `JobExecution` | abstract specification: a set of executors per job, which a worker enters only while it is empty; a job ends only while it is empty |
| `PublishingWorker` | worker processes over `PublishingJobs`, with clocks |
| `PublishingProcessing` | media items, their `process_item` jobs and runs over `PublishingJobs` |
| `PublishingMedia` | items, components, blobs, holders, capacity, files, transfers, purges |
| `PublishingDrafts` | one draft saved from several devices: conflict copies, snapshots, choices, references |
| `PublishingWorks` | works of one author: submissions, revisions, visibility, deletion, edit drafts, moderation |
| `PublishingSubmission` | editors that submit to `PublishingWorks` over a network |
| `DraftAutosave` | one editor that saves: controller, chooser, switch of saving, accounts, other devices |
| `UploadManager` | the upload manager of one account, its calls and the account's answers |
| `Editor` | the two controllers of an open editor side by side |
| `Notifications` | sources, projections and the inbox |
| `AgentConnections` | one connection: approvals, disconnects and resumes, statement by statement |
| `DirectMessages` | one conversation, its transactions, and the page that shows it |
| `MC...` | values for TLC, bounds and scenes |
| `PublishingJobsProofs`, `PublishingWorkerProofs`, `PublishingProcessingProofs`, `PublishingMediaProofs` (media and drafts), `PublishingWorksProofs`, `UploadManagerProofs`, `EditorProofs`, `CommunityProofs` | theorems, section 4 |

`PublishingWorker` and `PublishingProcessing` both extend `PublishingJobs`, which
has no next-state relation of its own, and add the actors.
`PublishingSubmission` composes with `PublishingWorks`: every step of an editor
is one of the network or of the works. `Editor` composes `DraftAutosave` and
`UploadManager`, whose steps interleave and share no variable. `MCEditor` (over
`Editor`) and `MCCommunity` instantiate such components one *scene* at a time: a
variable `scene` is chosen in the initial state and selects the component and its
bounds, so a run checks each of its properties in every scene.

Definitions whose comment starts with *Faulty* or *Mutant* are not part of any
specification: they are plausible mistakes in the code that show that a property
can fail. The types are stated by `TypeOK`, `DraftsTypeOK`, `SubmissionTypeOK`,
`AutosaveTypeOK` and `UploadsTypeOK`, and for connections, messages and
notifications by `Shape`, `Typed` and `RowsOK` of their proof modules. They are
proved, as parts of the inductive invariants, but for `DraftsTypeOK`,
`SubmissionTypeOK` and `AutosaveTypeOK`: the invariants of those modules contain
just the parts of them that the proofs need. Types are not among the properties
of the runs, whose number is kept to what says something about the code: add the
name to the `INVARIANT` line of a configuration to check them there.

### PublishingJobs

One row per id. A timestamp is the time left until it, so that a clock tick
decreases it: `lease` for `lease_expires_at`, `delay` for `run_after`. A lease
whose countdown is `Over` is `lease_expires_at < now`. The (kind, subject,
payload) triple is one `key`. `insertJob` is one statement that the unique index
`publishing_jobs_active_unique` decides (`ON CONFLICT`). `retryJob` is several: it
locks the stopped row (`locked`), looks for equal work (`RetryLooks`), and queues the
row (`RetryQueues`). The lock keeps operators off the row, but nothing keeps an
`insertJob` from committing equal work in between. The index then refuses the
update; the author's job stays, and the operator's request ends with the database's
error (23505), not with the "equal job is already active" of the check
(`RetryRollsBack`, which also stands for a connection that ends). `ActiveUnique` is
what the index makes of the rows, and a lemma; what it is for is stated of the runs:
`OneRunPerItem` here and `EqualWorkOnce` in `PublishingWorker`.

### PublishingWorker

| Code | Model |
|---|---|
| `tick`: `claimJobs` and its reply | `ClaimSet` (commit), `ReceiveClaims`, `LoseClaims` |
| `startRun`, `ActiveRun` | `runs[w][j]` |
| `renew`: clock read, commit, reply | `SendRenewal`, `CommitRenewal`, `ReceiveRenewal`, `RenewalThrows` |
| `armDeadline`, `loseLease` | `DeadlineFires` |
| `execute`, `record` | `HandlerReturns`, `HandlerAborts`, `CommitOutcome`, `OutcomeNotRecorded` |
| `stop`, `shutdown`, `releaseClaim` | `Stop`, `AbortRuns`, `ReleaseRuns`, `Stopped`, `ReleaseClaim` |
| a process dies and is replaced | `Exit` |

A call to the database is at least two steps. `runs[w][j].left` is the local
`leaseExpiresAt`, computed from the clock read *before* the call; `renew.age` is
the time since then. A run is *live* while nothing aborted its signal and its
result was not handed to `record`. `TimersOnTime` assumes that a deadline timer
fires within `leaseSafetyMs`. This is the one timing assumption, and mutual
exclusion rests on it: a process whose event loop is blocked for longer than the
safety margin is outside the model.

### PublishingProcessing

| Code | Model |
|---|---|
| `commitComponentUpload` of the last component | `CommitUpload` |
| `resetComponent`, `cancelItem` | `ResetComponent`, `CancelItem` |
| `readProcessing`, processor, `discardIfAborted` | `ReadProcessing`, `Processor...` |
| `markItemReady`, `markItemFailed` and their replies | `MarkItemReady`, `MarkItemFailed`, `CommitThrows` |
| `completeJob`, `failJob` with `failProcessingItems` | `RecordCompleted`, `RecordFailed` |
| `onJobFailed` | `OnJobFailed` |
| lease expiry, `requeueExpiredJobs` | `LapseLease`, `RequeueExpired` |
| `retryJob` (by statement), `abandonJob`, retention | `OperatorRetries`, `OperatorAbandons`, `RetainSucceeded` |

`item.bytes` counts uploads, and `item.derived` says from which of them the
derivatives were made. `LateCommits` says whether a call that passed
`discardIfAborted` can take effect after the lease of its run is over. There is
no statement timeout on the pool, so `TRUE` is what can happen; the violation
runs use `FALSE` to show that they do not depend on it.

### PublishingMedia

| Code | Model |
|---|---|
| `registerItem`, `cancelItem`, `resetComponent` | actions of the same name |
| `attachItems`, `releaseHolderRefs` for drafts | `AttachItem`, `DetachItem` |
| sessions | `LeasePasses`, `HeartbeatSession`, `DiscardSession`, `ExpireSession` |
| `uploadComponent` | `BeginUpload`, `StreamStored`, `StreamEnds`, `StoppedAfterStore`, `CommitUpload`, `CommitUnknown`, `RemoveQuietly`, `AbortUpload`, `TransferDies` |
| derivative results | `ProcessorStores`, `MarkItemReady`, `RecordDerivatives`, `DropOutput`, `MarkItemFailed`, `ReleaseDerivative` |
| purge | `PurgeItem`, `PurgeBlob`, `Unlink`, `ConfirmPurged`, `PurgeDies` |
| `reconcileStore` | `ReconcileStore` |

A blob id stands for the row and for the storage key. Simplifications: one
processing run per item at a time (`PublishingProcessing` is about what happens
when runs overlap); the orphan grace and the schedules of purge jobs are left out,
so a purge may happen whenever the conditions of its transaction hold;
`reconcileStore` removes a file without a row only when no transfer or job in
flight uses it; `size_mismatch` does not occur, because `writeStream` is called
with `requireExactSize`. Holders are sessions and drafts.

### PublishingDrafts

| Code | Model |
|---|---|
| the primary row of `work_drafts`; rows with `conflict_of` | `draft`; `copies` |
| `work_draft_snapshots`; `publishing_media_refs` | `snaps`; `held` of each row |
| `saveDraft`, `snapshotDraft` on the current base | `Save`, `SaveNow` |
| `saveContent` on an outdated base: reuse, replacement, insertion | `StaleRetry`, `StaleReplace`, `StaleNew` |
| `restoreSnapshot`, `resolveConflict`, `deleteDraft` | `Restore`, `ResolveAccount`, `ResolveDevice`, `Delete` |
| `registerItem`, `cancelItem`, purge of an item without refs | `Register`, `Cancel`, `Purge` |

Every port function is one transaction that takes the row of the draft first, so
each is one step. The interleavings are between requests: a device sends the
revision it last read, which is *any* revision the draft had. `now` is the time
the service read before the transaction, so later transactions may carry earlier
times, and any number of them the same millisecond. Rows with equal times are
ordered by random ids in the code; the model takes either order.

A copy has no reference to its pinned snapshot: the code looks for one with the base
and the time of the copy (`PinnedAt`, `SnapshotsOf`). The history variable `shared`
holds each base and time at which a pinned snapshot ever joined another; no action
reads it. `CopiesAreSnapshotted` is what the comment at `drafts.ts:83-87` says, and
does not hold (section 5). `SoleCopiesAreSnapshotted` and `UnchosenStays` say how far
it does: for every copy and snapshot, also in a draft where others collide, that is
not itself at a shared base and time.

### PublishingWorks and PublishingSubmission

| Code | Model |
|---|---|
| `submitInTransaction`: receipt, base, readiness, revision, work, holder, snapshots, refs | `Accepted`, `SubmitTo`, `SubmittedRevisions`, `SubmittedWork`, `TransferSnapshots` |
| `closePendingRevisions`, `applyPublicRevision`, `withholdReplacedPublicRevision` | `ClosePending`, `ApplyPublic`, `Withhold` |
| `setVisibility` to self and to public | `HideWork`, `PublishWork` |
| `deleteWork`, `releaseHolderRefs`, `cancelItems` | `DeleteWork`, `EndHolder`, `CancelUnreferenced` |
| `openEditDraft`, `saveDraft`, sessions | `OpenEditDraft`, `SaveDraft`, `CreateDraft`, `CreateSession` |
| moderation pages, `moderateSubmission`, `moderateWork`, the policy | `ReadSubmission`, `ReadWork`, `Approve`, `Reject`, `ModerateWork`, `SetPolicy` |
| `createSubmissionController` | `SendCommand`, `Retry`, `CheckAgain`, `ResetController`, `Reload` |
| the network and the server | `ServeSubmit`, `ServeLate`, `ServeReceipt`, `AnswerLost`, `Answered`, `Reconciled` |

An author command locks the author's account and then the rows it uses, an
operator command the same work, so each is one action. `Submit` takes any holder,
content and base an editor may have had: it may arrive late, twice, or never.
`ServeSubmit` and `ServeLate` run it for a controller that waits and for one that
does not wait any more.

### DraftAutosave

A call is *sent*, *served* and *answered* in three steps. What follows an answer
up to the next await is one operator (`Created`, `Saved`, `Reconciled`,
`Resumed`), as `finish`, `flush` and `send` are in the code. A lost answer leaves
its write in `late`, from where `ServeLate` may serve it at any later time. The
history variables `seen`, `replayed` and `asked` say which revisions the editor
showed or wrote, which it learned of from a repeated create alone, and the newest
edit the author asked to save.

| Code | Model |
|---|---|
| `edited`, `saveNow`, `flush` | `Type`, `SaveNow`, `Flush` |
| `create`, `save`, `reconcile`, `markSaved` | `SendCreate`, `SendSave`, `Reconcile`, `MarkSaved`, `Continue` |
| conflict chooser, `adoptDraft`, `preserveLaterConflictEdits` | `Choose`, `ServeChoice`, `CheckChoice`, `ChoiceOpen`, `Adopt` |
| `disableSaving` | `DisableSaving`, `ResolveCreated`, `ServeDisabling`, `Disabled`, `AbortDisabling` |
| account changes | `SwitchAccount`, `NoticeAccount` |
| other devices | `OtherDevice`, `OtherChoice` |

Not modelled here: timer mode, `ensureDraft`, restoring from the history, the
variant `openWorkEditDraft`, readiness of items. The account comes back only while
saving is not being switched off. Conflict copies are a set of contents.

### UploadManager

The manager is one record `m`, and each piece of code between two awaits an
operator from it to its successor: `Pause`, `PumpTransfers`, `Restart`,
`CancelItem`, and one continuation for each awaited call (`Registered`,
`TransferSettled`, `Restarted`, `ProcessReset`, `Polled`, ...). A continuation that
waits is a *thread* of `m`; its field `alive` is what `alive(record, epoch)` will
find. `Service` is the account's side: calls are served, refused or lost, streams
begin, commit and stop, items are processed. A command whose answer nobody awaits
any more goes on as an orphan. `cookie`, `confirmed` and `runtimeAccount` are the
account the browser's requests reach, the one `currentAccount()` returns and the
one the runtime works for.

Not modelled: restoring drafts and checkpoints, `dispose`, the `package` role,
rejected components, `size_mismatch`, header errors of `startTransfer`. Nobody
continues or retries while a draft is being deleted (`Switching`).

### Notifications

| Code | Model |
|---|---|
| `enqueueNotification` in the transaction of a change | `ChangeAction`, `Enqueue` |
| blocks and inactive accounts, and their end | `Separate`, `Rejoin` |
| `claim`, the lease | `Claim`, `LeaseExpires`, `Drop` |
| `project` | `BeginProjection`, `Deliver` (one recipient), `CommitProjection`, `RollBack` |
| `fail` | `Fail` |
| `list`, the next page, marking one group or all | `List`, `More`, `MarkGroup`, `MarkAll` |

A projection is one READ COMMITTED transaction, so what it writes shows at its
commit while its row locks keep others waiting before. That the revision of a
recipient is counted in a row that stays locked is what makes the order of
revisions the order of commits; the mutant draws them from a sequence.

### AgentConnections

A request is a sequence of single statements: `ReadToApprove`, `RecordApproval`,
`Provision`, `WriteApproval`; `ReadToRevoke`, `WriteRevocation`; `ReadToResume`,
`CheckConnection`, `BuildGrant`, `PointAtGrant`, `SpendConsent`, `HandOut`. Between
any two, other requests run and the process may die (`Die`). `CompareAndSet` is the
one guard of the row. The history variable `effective` holds the approvals that
moved the connection, `cut` those that a later disconnect has ended.

### DirectMessages

| Code | Model |
|---|---|
| `run`: begin, the actor's checks, before the lock | `Arrive`, `ArriveAgain` |
| `send` under the pair lock: receipt, recipient, count | `Check` |
| the request gate, the inserts, commit | `Gate`, `Send` |
| `participantCommand`: `setHidden`, `markRead` | `ChangeParticipant`, `Changed` |
| refused, rolled back, a limit, a crash | `RollBackCall` |
| `block` (another lock), suspension | `SetBlocked` |
| `operatorRemoveMessage` | `RemoveMessage` |
| `useConversation`: `load`, `poll`, `loadOlder`, `apply`, the marking effect | `Load`, `Poll`, `LoadOlder`, `Apply`, `LoseRead` |

`Check` and `Send` are two steps because blocks, removals and pages do not take
the pair lock. A mark that the page makes is a command like others: it is
delivered whenever, and as often as, the network does it (`ArriveAgain`). Left
out: mute, the limits over several pairs (a refusal covers them), the list of
conversations, the operator's reads and their audit.

## 3. Runs

| Run | Instance | Shows |
|---|---|---|
| `worker_safety` | scenes *workers*: 2 workers, 1 job; *jobs*: 1 worker with 1 slot, 2 jobs, 2 keys; 3 labels, lease 2 ticks, safety 1 | `StoppedWorkerIsSettled`, `SlotsRespected`, and `JobExecution` as `ExecutesOneAtATime`, which implies `Exclusive` |
| `worker_liveness` | 1 worker (replaced at every exit), 1 job, 3 attempts | `JobsEnd` |
| `processing` | 1 item, 2 runs, 2 jobs, 2 uploads, 2 attempts, late commits, one retry under way at a time, fair | `OneRunPerItem`, `FirstUploadHasJob`, `LateResultsChangeNothing` (`SettledItemsStay` and `LateFailureChangesNothing`), `FirstUploadEnds` |
| `media` | scenes *one*: 1 component, 1 session, 1 draft, 2 purges; *pair*: 2 components of different size, 1 session, 1 purge; 2 transfers, 3 blobs, capacity 6; scenes *choices*: 4 contents without media, 5 commands in 2 milliseconds; *contents*: 3 contents over 2 items, 4 commands in one; 2 device classes, history of 2 | `CapacityIsExact`, `BlobsMatchTheStore`, `CommittedBytesStay`, `HeldItemsSurvive`, and of the draft `SoleCopiesAreSnapshotted`, `CopiesAreDistinct`, `RefsCoverContents`, `UnchosenStays`, `RegisteredStays` |
| `works` | scenes *server*: any commands, 2 works, versions up to 5 in all; *editor*: 1 controller, versions up to 2, no moderator's page; 1 draft, 1 session, 2 requests, 2 contents, 1 item | `PublicAndPendingAreCurrent`, `SubmittedOnce`, `StoredInputIsKept`, `MediaStaysWithItsWork`, `NoEditIsOverwritten`, `DecisionsAreOnWhatWasRead`, `ConfirmedIsSubmitted` |
| `editor` | autosave scenes *saving*, *choosing*, *closing*, *accounts*: 3 texts, 2 creates, 2 edits, revisions up to 3; upload scenes *pair* (an item of two components, 3 commands and faults, at most 1 fault), *still* (one component, held by a session, 4), *items* (2 items, 1 command), *switches* (2 commands, 2 switches); 1 slot each | `SavingIsTrue`, `NoVersionIsLost`, `ProcessingIsWatched`, `NothingStalls`, `SlotsCoverTransfers`, `NothingIsLeftBehind`, `CopiesAreWanted`, `CommandsStayInTheirAccount`, `CancelledStillStays` |
| `community` | scenes *reading*, *waking*, *connecting*, *talking*, *viewing*, below | `UnseenStaysUnread`, `NoWakeUpIsLost`, `DisconnectIsFinal`, `AuthorizedByDecision`, `SendsActOnce`, `HiddenUntilSomethingNew`, `MarkersWereGiven` |
| `stuck_processing`, `stale_derivatives`, `shared_moment`, `unseen_replay`, `revived_cancel` | the instances of `processing`, `media` and `editor` | section 5 |

**Bounds.** *Worker.* `Owners` bounds the lease labels that exist at the same time;
a label is used again once nothing refers to it, so runs are not bounded in length.
Three are one per worker and one for a release of an earlier lease under way.
`MaxAttempts` is 2 or 3: one retry and the last attempt are the cases that differ.
*Processing.* `MaxUploads` is two, a replaced upload; `stale_derivatives` has three.
*Media.* `Blobs` bounds rows and files for a whole behaviour (ids are never used
again): a first upload, a replacement and a derivative. The capacity of 6 is met
exactly by two uploads of 2, an allowance of 1 and a derivative of 1, so `Fits`
both succeeds and fails. *Drafts.* An advance, two stale saves, a replacement and a
choice are five commands, and every command may take either of the two milliseconds,
so times agree, follow each other, or run backwards; a history of 2 makes trims
evict. References do not depend on times, so *contents* has one. *Works.* Version 5 over two works lets one be submitted,
hidden, published and decided on, and submitted again on a stale base, while the
other exists and shares media. *Editor.* Two creates are a lost one and the one
after it; a late write is at most one at a time. With one transfer slot every
abort and pause is a contention for it. *Community.*

| Scene | Bound |
|---|---|
| *reading* | two likes of one group and a comment to two readers, 2 workers; reader 1 lists; each action is taken once, batches are of one, at most one projection is tried twice |
| *waking* | one like that changes up to twice, the comment once, nobody reads; at most one recipient is kept from one action, at most one source is claimed twice |
| *connecting* | 2 interactions, 2 grants, 2 requests at once, 3 writes of the connection; one review page is rendered twice |
| *talking* | 3 messages, 4 commands, or 3 and a removal (not together with a block), one of them to hide or bring back, 2 transactions at once |
| *viewing* | pages of one message, the writer's transactions one at a time, one older page at a time, the viewer writes once |

The scenes of *talking* and *viewing* divide what does not interact: the page reads
only committed rows, so it cannot tell how transactions overlapped before.
Deadlock is checked in the worker runs, where a process can always be restarted or
the clock advances; the other modules have bounded counters and may stop.

**Symmetry** is used in safety runs alone, over ids that no property or operator
orders or chooses from.

**Fairness.** `PublishingWorker!Fairness`: clocks advance; a process that awaits a
reply or a timer continues unless it ends; a replaced process starts; handlers
end, since every tool a processor runs has a time limit. Claim and requeue are
strongly fair for the *set* of workers, because a worker polls again and again
while others come and go, and the claim query takes the oldest `run_after` first.
Nothing is assumed about `Enqueue`, the operator, the loss of replies, or the
death of a process; `JobsEnd` needs deliberate stops to cease (`StopsEnd`),
because the release of a lease at shutdown gives the attempt back. The fairness
of `PublishingProcessing` is the same with leases that end at some time. In the
other modules no step is required to happen: browsers are closed, moderators
never look, answers never come. What would be liveness there is stated as the
absence of states nobody can leave (`NothingStalls`, `NoWakeUpIsLost`).

## 4. Proofs

The theorems hold for all sizes of the constants that the named assumptions of
the modules allow.

| Theorem | Module | Statement |
|---|---|---|
| `TypeCorrect`, `UniqueWork` | `PublishingWorkerProofs` | `Spec => [](TypeOK /\ LeaseMatchesState)`, `Spec => []EqualWorkOnce` |
| `LeasesCoverRuns`, `LiveRunsAreLeased`, `MutualExclusion` | `PublishingWorkerProofs` | `[]LeaseInv`, `[]LiveRunsHoldTheirLease`, `[]Exclusive` |
| `Implements`, `StoppedIsSettled`, `SlotsAreRespected` | `PublishingWorkerProofs` | `Spec => ExecutesOneAtATime` (the refinement), `[]StoppedWorkerIsSettled`, `[]SlotsRespected` |
| `ProcessingTypes`, `FirstUploadsAreAnswered` | `PublishingProcessingProofs` | `[]TypeOK`, `[]FirstUploadHasJob` |
| `OneRun` | `PublishingProcessingProofs` | `[]OneRunPerItem` |
| `SettledItems`, `LateFailures`, `LateResults` | `PublishingProcessingProofs` | `SettledItemsStay`, `LateFailureChangesNothing`, and both as `LateResultsChangeNothing` |
| `Invariance`, `FilesMatch`, `BytesAreKept` | `PublishingMediaProofs` | `[]IInv`, `[]BlobsMatchTheStore`, `CommittedBytesStay` |
| `HeldItemsAreSafe`, `CountersAreExact` | `PublishingMediaProofs` | `HeldItemsSurvive`, `[]CapacityIsExact` |
| `DistinctCopies`, `HistoryKeepsLimit`, `RefsFollowContents`, `RegisteredItemsStay` | `PublishingMediaProofs` | of `DraftsSpec`: `[]CopiesAreDistinct`, `[]HistoryBounded`, `[]RefsCoverContents`, `RegisteredStays` |
| `SnapshottedCopies`, `NothingUnchosenGoes` | `PublishingMediaProofs` | of `DraftsSpec`: `[]SoleCopiesAreSnapshotted`, `UnchosenStays` |
| `Invariance`, `PublicIsCurrent`, `SubmitsOnce`, `InputIsKept`, `EditsFollow`, `MediaStays` | `PublishingWorksProofs` | `[]IInv`, `[]PublicAndPendingAreCurrent`, `[]SubmittedOnce`, `[]StoredInputIsKept`, `[]NoEditIsOverwritten`, `[]MediaStaysWithItsWork` |
| `DecidesOnWhatWasRead` | `PublishingWorksProofs` | `Spec => DecisionsAreOnWhatWasRead` |
| `ConfirmationIsTrue`, `ServerWithEditors` | `PublishingWorksProofs` | `SubmissionSpec => []ConfirmedIsSubmitted`, and the invariants of the server under `SubmissionSpec` |
| `AutosaveInvariance`, `SavingInvariance`, `VersionsAreKept`, `CallsStayInTheAccount` | `EditorProofs` | `AutosaveSpec => []AutosaveInv`, `[]SavingIsTrue`, `NoVersionIsLost`, `SentInItsAccount` |
| `UploadsInvariance`, `UploadTypes`, `SlotsCover` | `UploadManagerProofs` | `UploadsSpec => [](UploadsInv /\ AccountOK)`, `[]UploadsTypeOK`, `[]SlotsCoverTransfers` |
| `ProcessingWatched`, `CopiesWanted`, `CommandsStay` | `UploadManagerProofs` | `[]ProcessingIsWatched`, `[]CopiesAreWanted`, `CommandsInTheirAccount` |
| `EachAsAlone`, `AllStayInTheAccount` | `EditorProofs` | `EditorSpec => AutosaveSpec /\ UploadsSpec`, `EditorSpec => CommandsStayInTheirAccount` |
| `Finality`, `Decision` | `CommunityProofs` | `[]DisconnectIsFinal`, `[]AuthorizedByDecision` |
| `SendsOnce`, `NothingNewIsHidden`, `OnlyGivenIsRead` | `CommunityProofs` | `[]SendsActOnce`, `[]HiddenUntilSomethingNew`, `[]MarkersWereGiven` |
| `InboxInvariance`, `MarksAreHonest`, `EveryWakeUpActs` | `CommunityProofs` | `[]InboxInv`, `[]UnseenStaysUnread`, `[]NoWakeUpIsLost` |

Besides sizes and disjointness of values, the assumptions are that the rows and
the components an instance has room for and the items of an editor are finite sets
(`JobIdsAssumption`, `ComponentAssumption`, `UploadConstants`: cardinalities are
compared, sums are taken, sets are folded), that a missing
reference is not a reference (`NullAssumption`, `NobodyAssumption`), that null is
no value (`UnsetAssumption`), and that the recipients of notifications are
numbered.

*Workers.* `Exclusive` is not inductive: that two workers do not both run a job
follows from both holding its lease under different labels, and that a run holds
its lease follows from its local deadline being no later than the row's expiry.
This in turn survives a renewal only because the new expiry is counted from the
clock read before the call, so the invariant has to speak about renewals under
way (`RunIsBacked`), about claims whose reply is under way (`ClaimsAreBacked`),
and about who else could change the row under the same label
(`RunsOwnTheirLease`, `ClaimsOwnTheirLease`, `ReleasesAreAlone`). `LeaseInv` is
their conjunction; together with the types and `CallsAreSettled` it is inductive
(`IInv` in `PublishingWorkerProofs`). The proof splits the actions by what they do
to the table, each citing a lemma of `PublishingJobsProofs` for the row. In the
refinement the executors of a job are the workers with a live run of it. The
mapping chooses none of them, so that there is never more than one is part of what
the refinement shows, and needs `IInv`: a run starts only while nobody else is
live, and a row ends only while nobody is. Every action makes one step of
`JobExecution` for each job or none. `UniqueWork` puts the index and the leases
together: live runs of one key hold rows of one key, which are one row
(`UniqueRows`), and one row is held under one label.
`StoppedIsSettled` needs `StopInv`, which also speaks of the states in between.
`SlotsRespected` is inductive over the types: a reply turns claims into at most as
many runs, and nothing else adds to either.

*Processing.* That a run may complete a job, or fail an item again, rests on what
the run has seen of the item. The invariant adds that a row of the table belongs to
an item that was uploaded, a run to a row, and that the item of a run which is done
with it has left its first processing. Every step goes *forward* (bytes grow, a
settled item stays, a row keeps its key), so a run that only waits stays right.
`OneRun` needs no such thing, but that the rows of active work are unique at every
step of a retry, and that two runs never have one label (`OwnersApart`).
`LateResults` puts the two action properties together.

*Drafts.* The three invariants rest on `Shape`, the types of the rows without the
bounds of times and ids. `CopiesAreDistinct` is inductive over it. `HistoryBounded`
follows from a lemma on trimming (`TrimmedRows`) and from the fact that the steps
which do not trim only touch pinned rows. `RefsCoverContents` is not inductive: a
content could name an item nobody has registered yet, and registering it would
make it live in a row whose holder never attached it. `RefsInv` adds that every
item of a stored content was registered when it was saved (`assertOwnedItems`).
That a copy keeps a snapshot with its content needs `ConflictInv`: two copies of one
base and time are at a shared one (`SoleCopies`), so a choice or a rewritten copy
takes the snapshot of no copy outside of those. One lemma, `ConflictStep`, gives both
theorems, for any times.

*Media.* `IInv` adds to the types and to `BlobsMatchTheStore` that a file of a
transfer or of a job has no row yet (`FilesInFlight`) and that nobody else has it in
hand (`KeysAreOwn`), that no two items use one blob (`UsesAreOwn`), that what a purge
unlinks is tombstoned (`PurgesFollow`), and that a component which receives has no
bytes (`ComponentsFollow`). The two action properties follow from it.
`CapacityIsExact` equates counters with sums over all rows. No induction over sets
can be cited here (see below): the facts about sums are proved on a smallest set
that would refute them.

*Works.* `IInv` consists of the properties themselves and of what they rest on: a
work that does not exist has no revisions (`Begun`), a draft has a content while it
can be submitted and a work afterwards (`DraftsAreFilled`), the holder of a request
that has a receipt submits no more (`Spent`), what has changed since a moderator
read a page has a newer version (`PageIsOld`), and a receipt is that of its command,
whose content its revision has (`ReceiptsAreTrue`). Few actions write revisions, and
their effects share lemmas: `Decided` for decisions, `MovesKeep` for visibility,
`Written` for submissions. An editor's confirmation rests in addition on a request
id standing for one command (`RequestsAreOwn`) and on the command a controller that
waits has (`ControllerOK`).

*Saving editor.* None of the properties of `DraftAutosave` is inductive.
`AutosaveInv` follows a content on its way: what the call, the pending create or
the save in doubt carries is the latest edit, or an older one under a lower number
(`EditIs`), and an answer tells what the row has stored (`Tells`), which stays
stored whatever other devices do in between (`Gain`). Hence an answer that matches
confirms exactly that edit (`SavedOK`), and an edit the author asked to save is
saved, carried by the call, or behind it (`AskedOK`). Every revision that is the
base of a save or a deletion, also of one nobody waits for any more, is one the
editor was told of (`BasisOK`, `GoodWrite`, `LateOK`). `ChoiceOK` and `DisablingOK`
say that the editor does nothing else while a version is chosen or a lost create is
looked up, so that what was read before the call still holds after it. TLC checked
`AutosaveInv` in the four autosave scenes of the `editor` run before it was proved. Most of the
work is in the chain of functions a continuation runs through (`Reconciled`,
`Created`, `Saved`, `Resumed`, `Finish`); each has its own lemma, for any editor that
meets the invariant.

*Upload manager.* Nothing the runs check of it is inductive. `UploadsInv` is `Core`
with nothing owed. `Core(s, d, e, W, C, N, c)` speaks of a manager `s` in the middle
of a step, for one step of the code calls up to a dozen functions, each of which
breaks something that a later one mends: `d` and `e` are slots the step has taken
over and not given back, `W` the items whose timer was stopped while they are still
shown in progress, `C` the items whose copy is still to be dropped, `N` those that
have just been fenced. Every function of the manager has a lemma from `Core` to
`Core`, for any `s`, and the lemma of an action follows the calls it makes;
`Discharge` ends it with nothing owed. What `Core` adds to the properties is why
they hold:

* `RecordOK`: an item that is uploaded or processed has an id, since `schedulePoll`
  polls nothing without one. Hence `ProcessingIsWatched`.
* `DriversOK`, `ThreadOK`: a continuation that sends a reset has read an item of the
  manager's account, and a change of account leaves none of them an answer they
  could act on. Hence `CommandsInTheirAccount`: `restartComponent` checks the account
  before its read only, and what it does after the read is right because
  `confirmAccount` makes that read void.
* `HolderOK`: `saving` and `changing` follow the steps of switching saving off, which
  decides where copies may be and whether reads to detach items are under way.
  Hence `CopiesAreWanted`.
* `SlotsOK`: both counts cover their continuations, with what is owed. Hence
  `SlotsCoverTransfers`. That a count also goes back to zero is not claimed: section 5.

`Suspend`, `Detached` and the account's changes fold an operator over a set of items
or continuations, `PumpTransfers` over the queue. A fold is a recursive function on
subsets, chosen by `CHOOSE`; `FoldIn` shows that it exists and stays within an
invariant when every step does, by choosing a smallest set that would refute it.

*Editor.* The controllers share no variable, so a step of one stutters for the other
(`EachAsAlone`); `AllStayInTheAccount` puts the halves of `CommandsStayInTheirAccount`
together.

*Notifications.* `InboxInv` says that a projection under way projects the newest
generation of its source, under the lock of its recipients' versions, with the next
revision of each (`ProjectionOK`), so what commits after a list has a higher
revision than the list showed; that a page list stands for all groups that are not
older than its cursor (`BoxOK`); and that a read marker covers only deliveries a list
has shown (`MarksOK`). `MarksAreHonest` needs no more. `NoWakeUpIsLost` rests on the
last clause of `ProjectionOK`: whoever a projection is done with has the delivery or
was kept from the action.

*Agent connections.* The invariant says what a request still knows when it writes
(`GoodRequest`: a read is no older than its version says, an approval under way is
recorded at the generation it would reach, a grant carries the generation its
consent froze), that the rows agree (`Ledger`), and that no approval which moved
the connection is ahead of it and each one that a disconnect ended is behind
(`Reached`).

*Direct messages.* `SendsActOnce` is not inductive: that the gate holds when a
message is written rests on what its transaction counted before, which is still
the number of messages because the pair is locked. `Guarded` says so, and that the
request of the transaction that has the lock has not acted. Blocks, removals and
pages, which do not take the lock, keep it. `MarkersWereGiven` follows a mark from
the page that makes it over the network to the receipt (`MarkInv`): each place it
passes holds only what was in a page before.

*Only model-checked.* Of the upload manager, `NothingStalls`, `NothingIsLeftBehind`
and `CancelledStillStays`. Each is bounded by what was spent (faults, switches,
commands), because it fails beyond that (section 5): an inductive invariant would
have to say, continuation by continuation, what the one fault may have left behind
and what it has not. What `NothingStalls` says of items that wait for the account
needs no such bound and is proved as `ProcessingIsWatched`. `JobsEnd` and `FirstUploadEnds`
are liveness, which is beyond the prover, as is `ENABLED`; the five disagreements of
section 5 are counterexamples of TLC. The induction theorems of the library take an
operator as a parameter, which the provers cannot instantiate; what needed induction
(sums, least elements, folds) was proved by choosing a smallest counterexample in a
well-founded set.

## 5. Findings and observations

### Runs that find a disagreement

Five runs state what a comment or a document of the repository says and find it
violated by what the code does. `PROJECT.json` quotes the lines.

* `stuck_processing`: a run commits `markItemFailed`; before it calls
  `completeJob`, the author resets and uploads again. `insertJob` reuses the job
  that is still `running`; `completeJob` ends it; the item stays `processing` and
  no job will ever look at it. (`FirstUploadHasJob`: a first upload is safe.)
* `stale_derivatives`: `failJob` fails job and item; the author resets and
  uploads again; the `onJobFailed` of the first job then fails the new
  processing; after one more upload, a run that read the earlier bytes marks the
  item ready. With late commits two uploads suffice.
* `shared_moment`: two stale saves on one base, from devices of two classes, carry one
  millisecond. Both copies match both pinned snapshots, and the next save of one class
  takes the one with the smaller random id, which may be the other's: that copy's
  content is in no snapshot any more, and choosing the account's version leaves it
  nowhere. The snapshot of an account's version that was not chosen is dated
  `earlier(now)` and can be joined, and then rewritten, in the same way by a stale save
  on that base. (`SoleCopiesAreSnapshotted`, `UnchosenStays`: nothing else loses
  either side.)
* `unseen_replay`: a create whose answer was lost is repeated after another device
  edited the draft. The answer is the draft of now; its revision becomes the base
  of the next save, which replaces content the editor never showed.
  (`NoVersionIsLost` holds for every other way to learn a revision.)
* `revived_cancel`: `cancelItem` frees the slots of the item, which starts its own
  next component under the renewed epoch, before it empties the queue: the removed
  item is shown as processing again. (`CancelledStillStays`: an item of one
  component is safe, as long as neither account nor saving changed.)

### Observations

What the translation showed beside them; no run states these, because no line of
the repository promises the contrary in terms a run could quote, or because they
lie just outside the bounds of one.

*Processing and drafts*

* `LateFailureChangesNothing` (in `LateResultsChangeNothing`) speaks of first
  uploads: a late `onJobFailed` fails the processing of a second one.
  `OperatorAbandons` fails the item of an old failed job whether or not a newer job
  of the item is queued. `retryJob` queues the job and leaves the item as it is: the
  new run of a failed item finds nothing to process.
* `StaleRetry` answers a stale save with any copy of the base that has the same
  content, also one of another class, whose next stale save then replaces it,
  although the comment speaks of a class's own copy.
* A restore adds no snapshot of the current content when an identical one exists,
  then trims the history. The identical one can be the oldest of a full history,
  and then the edit that was replaced is nowhere (comment at `drafts.ts:1016`).

*Autosave*

* A repeated create saves only the edit it was first sent with; in manual mode the
  newer edit that was asked for stays "pending" (`Repeated` in `SavingIsTrue`).
  When the repetition is refused the request id is forgotten, so the next save may
  create a second draft. An editor that was emptied while a create was in doubt
  shows "saved" or "idle" (`Empty`). A save that follows a reconciliation is sent
  although `disableSaving` has suspended the controller meanwhile.
* In a draft that is reopened with a conflict, choosing the device's version shows
  the account's again (`editor-overlay.tsx:860-897`).

*Upload manager*

* A pause during `restartComponent`'s read, followed by Continue, leaves two
  continuations of one epoch. With two transfer slots the second
  `startTransfer` overwrites the entry of the first in `record.transfers`, and the
  slot of the first is never given back: in scene *switches* with
  `TransferConcurrency = 2` the count stays above the transfers. With one slot the
  second waits in the queue. `SlotsCoverTransfers` states the other direction.
* The same continuation outlives a removal: with two switches and three commands a
  restart whose read was under way when the item was paused, and that is continued
  and then cancelled, queues a component of the removed item, of one component too.
  `CancelledStillStays` is therefore stated for `spent.switches = 0`.
* `retryComponent` and `retryProcessing` resume the manager without queueing items
  that wait for preprocessing again, and Continue is not offered any more.
* A restart reads "receiving", the bytes are committed, and the reset purges bytes
  the account had received. When this reset is lost and applied late, the item is
  "received" here and awaited there: `applyServerItem` never goes back, and it is
  polled for ever.
* Reads of items are not bound to the account: after the cookie changed in another
  tab, a 404 marks an item unavailable and forgets its local copy.
* Registrations always go to the editor session (`publishing-runtime.ts:1503`), so
  `storeLocalCopy` never stores anything for a new item of a saved draft. For
  items held by a session, `NothingStalls` fails when a Continue's or a retry's read
  is under way while saving is switched off: the item survives `detachFromHolder` as
  "queued" with nothing driving it. With three switches it fails without a command.
* When the account goes and returns while saving is switched off, the read that
  `detachFromHolder` (`upload-manager.ts:1031-1115`) makes of an item is void and not
  repeated, and its poll was stopped before: an item that the comment at
  1027-1030 would keep is shown as processing and polled no more.
  `ProcessingIsWatched` leaves out items that a session holds.
* With two faults: an item whose registration was lost and whose retry could not
  resolve the holder gets a second request id and a second item on the account
  (`NothingIsLeftBehind` is stated for one fault); a reset whose answer is not
  "awaiting" leaves a component "queued" with nothing driving it (`NothingStalls`,
  one fault). A cancelled item whose registration is in doubt is left to the
  backend's cleanup.
* Reads of one epoch that are answered out of order overwrite newer state until the
  next poll; an item that learns "cancelled" during the switch of saving is skipped
  by `detachFromHolder`.

*Notifications*

* Attempts are counted at the claim, so claims that a stop, a crash, a slow batch
  or an expired lease loses use up the five attempts. The end of a block or a
  restoration from the recycle bin wakes no source up (`everApart` in
  `NoWakeUpIsLost`). When `fail` itself fails, the rest of the batch is dropped
  until its leases expire.

*Agent connections*

* `decide.ts:44-47` says a lost compare-and-set leaves "a generation the
  connection never reached". Another approval that read the same version takes the
  connection to that generation, so both approvals can be resumed; `cut` therefore
  only has approvals that moved the connection.
* Comments on `setCurrentGrant` say a grant is destroyed when the connection moved
  on; `resume.ts` leaves it unreachable, and nothing wires a grant destroyer. A
  second resume at the same time may leave `current_grant_id` at the grant that was
  not handed out.

*Direct messages*

* "oldest first" (`use-direct-messages.ts:171`) fails in scene *paging* of
  `MCCommunity` (`ShownOldestFirst`): `loadOlder` has neither a guard nor an epoch,
  so pressing the button twice shows the page before twice. Polls are fenced by no
  epoch: an earlier answer that is applied later appends older messages after newer
  ones, or shows a removed text until the next poll. A poll reads the newest 30
  messages; a gap that is larger is never loaded, and marked read.
* The comment at the head of the adapter says "a concurrent block" is serialized
  with sends, but `block` takes another advisory lock (`author-adapter.ts:482`): a
  send that passed its check may commit after the block. The limits per minute and
  day are counted under locks of single pairs. The actor's own status is looked at
  before the wait for the lock only.
* An own send moves the read marker over an incoming message that was not shown.
  `setHidden(false)` is unconditional, though the panel's comment says that a newer
  state is never overwritten. Receipts of participant commands keep the last
  message's text after its removal. A send repeated by the author after a lost
  answer carries a new request id and is sent twice in an active conversation.

## 6. Plan and running

Done: the job queue and its workers, item processing, media and capacity, drafts,
works with submissions and moderation, the three controllers of the editor,
notifications, agent connections, direct messages, and the proofs of section 4.

Next, in this order: an invariant for `NothingIsLeftBehind` that names what one lost
answer leaves; `ensureHolderDerivatives` in `PublishingProcessing`; history and restore dialogs in
`DraftAutosave`; session rotation and the last sign-in factor of accounts.

    tlc -config Worker_safety.cfg MCPublishingWorker
    tlapm PublishingWorkerProofs.tla

Each run finishes in one to four minutes on two cores; `community` (1.8 million
distinct states) and `worker_safety` are the largest.

## 7. Not modelled

* *Media processors*: data transformations by external tools; their possible
  endings are all in `PublishingProcessing`.
* *HTTP surface, routing, backend start-up*: parsing and mapping, no state between
  requests.
* *Accounts and sign-in*: separate from what is modelled; an account is given, and
  signed in or not, wherever it matters (`DraftAutosave`, `UploadManager`).
* *Comments, threads, discussion*: short transactions on single rows; what they
  cause in inboxes is in `Notifications`.
* *Media reads*: queries that change nothing.
* *Catalog import, editorial administration (Payload collections), the visual
  product shell, design tokens, generated types, scripts, infrastructure and
  prototypes*: little or no protocol state. They are most of the repository's
  lines, which is why the map covers a small share of them.
* Of the modelled components: the number of drafts and works an account may have and
  daily counts (refusals), transfer of authorship, reports and lists, wrapped tokens
  and the OAuth provider, and what section 2 names per module.

`PROJECT.json` gives the state of each component.
