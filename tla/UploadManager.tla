---------------------------- MODULE UploadManager ----------------------------
(***************************************************************************)
(* The upload manager of one account in one browser                         *)
(* (apps/web features/publishing/upload-manager.ts): bounded preprocessing, *)
(* registration, transfers in slots, polling, pause and Continue, retries,  *)
(* cancellation and local copies, against the account that serves its calls *)
(* (media.ts, uploads.ts) and may lose any of them.                         *)
(*                                                                          *)
(* The manager is one record, `m`, and each piece of code between two       *)
(* awaits an operator from it to its successor.  A continuation that waits  *)
(* is a thread of m; `alive` is what alive(record, epoch) will find.        *)
(***************************************************************************)
EXTENDS Naturals, FiniteSets, FiniteSetsExt, Sequences, SequencesExt

CONSTANTS
    Keys,                    \* the items the author may confirm
    LiveKeys,                \* those of a still and a motion component
    MaxRegistrations,        \* register requests of one behaviour
    PreprocessConcurrency, TransferConcurrency,
    MaxFaults,               \* calls lost or refused
    MaxSwitches,             \* changes of the account, and of saving
    MaxCommands              \* retries, Continues and cancels

ASSUME UploadConstants ==
    /\ IsFiniteSet(Keys) /\ LiveKeys \subseteq Keys
    /\ PreprocessConcurrency \in Nat \ {0} /\ TransferConcurrency \in Nat \ {0}
    /\ MaxRegistrations \in Nat /\ MaxFaults \in Nat /\ MaxSwitches \in Nat
    /\ MaxCommands \in Nat

VARIABLES
    m,            \* the manager, its local recovery copies included
    media,        \* the account's items, by the request that registered them
    confirmed,    \* options.currentAccount(): the manager's account or another
    runtimeAccount,  \* PublishingRuntime.accountId
    cookie,       \* the account the browser's requests reach
    holder,       \* where new items are registered: the draft, then a session
    spent         \* the bounds used up

uploadVars == <<m, media, confirmed, runtimeAccount, cookie, holder, spent>>

-----------------------------------------------------------------------------
Roles == {"still", "motion"}
RolesOf(k) == IF k \in LiveKeys THEN Roles ELSE {"still"}
ForRoles(Op(_, _), s, R) ==
    LET first == IF "still" \in R THEN Op(s, "still") ELSE s
    IN IF "motion" \in R THEN Op(first, "motion") ELSE first
ItemIds == 1..MaxRegistrations

(* The account's view of an item; a "refused" one failed for good.          *)
ItemState == {"absent", "awaiting_upload", "processing", "ready", "failed", "refused",
              "cancelled"}
Item == [state : ItemState, comps : [Roles -> {"awaiting", "receiving", "received", "cancelled"}],
         holder : {"draft", "session"}]
NoItem == [state |-> "absent", comps |-> [r \in Roles |-> "awaiting"], holder |-> "draft"]

(* "interrupted" is a failed component that Continue retries.               *)
ComponentPhase == {"preparing", "queued", "uploading", "received", "failed", "interrupted",
                   "paused", "missing_local", "cancelled"}
ItemPhase == {"absent", "waiting", "preprocessing", "needs_choice", "registering", "queued",
              "uploading", "uploaded", "processing", "ready", "failed", "paused", "cleanup",
              "cancelled", "missing_local"}
Terminal == {"ready", "cancelled", "cleanup"}

Record == [phase : ItemPhase, comps : [Roles -> ComponentPhase],
           original : BOOLEAN,          \* qualityMode
           prepared : BOOLEAN,
           request : 0..MaxRegistrations,   \* registerRequestId
           item : 0..MaxRegistrations,      \* view.itemId
           server : ItemState,              \* view.serverItem
           unknown : BOOLEAN,               \* failure.outcomeUnknown
           timer : BOOLEAN,                 \* pollTimer
           draft : BOOLEAN]                 \* draftId: the draft's, or of no draft
NoRecord == [phase |-> "absent", comps |-> [r \in Roles |-> "preparing"], original |-> FALSE,
             prepared |-> FALSE, request |-> 0, item |-> 0, server |-> "absent",
             unknown |-> FALSE, timer |-> FALSE, draft |-> FALSE]

(* What a call came back with; "under way" it has not, "streaming" the      *)
(* account takes the bytes of a transfer.                                   *)
CallAnswer == [is : {"under way", "streaming", "item", "done", "refused", "lost", "account", "gone",
                 "choice", "mismatch"}, item : Item]
Ans(is) == [is |-> is, item |-> NoItem]
UnderWay == Ans("under way")

Thread == [for : {"prepare", "register", "transfer", "settle", "hash", "restart", "again",
                  "process", "processed", "poll", "detach", "cancel", "store", "nobody"},
           call : {"work", "holder", "register", "upload", "read", "reset", "cancel", "put"},
           key : Keys, role : Roles, item : 0..MaxRegistrations, alive : BOOLEAN,
           note : {"draft", "session", "failed", "interrupted"}, ans : CallAnswer, no : Nat]

UploadsTypeOK ==
    /\ m.status \in {"active", "paused"} /\ m.reason \in {"none", "account", "offline"}
    /\ m.rec \in [Keys -> Record]
    /\ m.preprocessQueue \in Seq(Keys) /\ m.transferQueue \in Seq(Keys \X Roles)
    /\ m.preprocessing \in 0..PreprocessConcurrency
    /\ m.transferring \in 0..TransferConcurrency
    /\ m.threads \subseteq Thread
    /\ m.changing \in BOOLEAN /\ m.saving \in BOOLEAN /\ m.requests \in 0..MaxRegistrations
    /\ m.copies \subseteq Keys
    /\ media \in [ItemIds -> Item]
    /\ {confirmed, runtimeAccount, cookie} \subseteq {"own", "other"}
    /\ holder \in {"draft", "deleting", "cleared", "detaching", "session"}
    /\ spent \in [faults : 0..MaxFaults, switches : 0..MaxSwitches, commands : 0..MaxCommands]


UploadsInit ==
    /\ m = [status |-> "active", reason |-> "none", rec |-> [k \in Keys |-> NoRecord],
            preprocessQueue |-> <<>>, transferQueue |-> <<>>, preprocessing |-> 0,
            transferring |-> 0, threads |-> {}, changing |-> FALSE, saving |-> TRUE,
            requests |-> 0, copies |-> {}]
    /\ media = [i \in ItemIds |-> NoItem]
    /\ confirmed = "own" /\ runtimeAccount = "own" /\ cookie = "own"
    /\ holder = "draft"
    /\ spent = [faults |-> 0, switches |-> 0, commands |-> 0]

-----------------------------------------------------------------------------
(* Records, components and threads of the manager s. *)

Own == confirmed = "own"

Changed(x, change) == [f \in DOMAIN x |-> IF f \in DOMAIN change THEN change[f] ELSE x[f]]
Patch(s, k, change) == [s EXCEPT !.rec[k] = Changed(@, change)]
SetComponents(s, k, P(_)) == [s EXCEPT !.rec[k].comps = [r \in Roles |-> IF r \in RolesOf(k) THEN P(r) ELSE @[r]]]
SetComponent(s, k, r, phase) == [s EXCEPT !.rec[k].comps[r] = phase]

SameName(t, u) == t.for = u.for /\ t.key = u.key /\ t.role = u.role
StartThread(s, t) ==
    LET used == {u.no : u \in {u \in s.threads : SameName(t, u)}}
    IN [s EXCEPT !.threads = @ \cup {[t EXCEPT !.no = CHOOSE n \in 0..Cardinality(used) : n \notin used]}]
EndThread(s, t) == [s EXCEPT !.threads = @ \ {t}]
AwaitNoting(s, why, call, k, r, note) ==
    StartThread(s, [for |-> why, call |-> call, key |-> k, role |-> r, item |-> s.rec[k].item,
                    alive |-> TRUE, note |-> note, ans |-> UnderWay, no |-> 0])
Await(s, why, call, k, r) == AwaitNoting(s, why, call, k, r, "draft")

(* The call goes on without anybody who waits for its answer.               *)
Commands == {"register", "upload", "reset", "cancel"}
Orphan(s, t) ==
    IF t.call \in Commands /\ t.ans.is \in {"under way", "streaming"}
    THEN StartThread(EndThread(s, t), [t EXCEPT !.for = "nobody", !.alive = FALSE])
    ELSE EndThread(s, t)
OrphanAll(s, T) == FoldSet(LAMBDA t, u : Orphan(u, t), s, T)

(* renew.  A stale continuation acts only where its code still does; what   *)
(* is listed as a transfer waits for abortTransfers.                        *)
ActsWhenStale == {"prepare", "register", "store", "detach", "cancel", "nobody"}
Renew(s, k) ==
    LET mine == {t \in s.threads : t.key = k /\ t.for # "transfer"}
        kept == {t \in mine : t.for \in ActsWhenStale /\ ~ (t.for = "register" /\ t.call = "holder")}
        fenced == [s EXCEPT !.threads = (@ \ kept) \cup {[t EXCEPT !.alive = FALSE] : t \in kept}]
    IN OrphanAll(fenced, mine \ kept)

Transfers(s, k) == {t \in s.threads : t.for = "transfer" /\ t.key = k}
AtLeastZero(n) == IF n < 0 THEN 0 ELSE n

(* Faulty: a slot is freed for every component of the item. *)
StopTransfers_frees_all(s, k) ==
    LET stopped == OrphanAll(s, Transfers(s, k))
    IN [stopped EXCEPT !.transferring = AtLeastZero(@ - Cardinality(RolesOf(k)))]

StopTransfers(s, k) ==
    LET stopped == OrphanAll(s, Transfers(s, k))
    IN [stopped EXCEPT !.transferring = AtLeastZero(@ - Cardinality(Transfers(s, k)))]

StopPolling(s, k) == Patch(s, k, [timer |-> FALSE])
SchedulePoll(s, k) ==
    IF s.status = "active" /\ s.rec[k].item # 0 THEN Patch(s, k, [timer |-> TRUE]) ELSE s

ForgetLocalCopy(s, k) == IF s.saving THEN [s EXCEPT !.copies = @ \ {k}] ELSE s

(* derivePhase: the first of these that a component is in names the item's. *)
Settled(x) ==
    \/ x.phase \in Terminal \cup {"needs_choice", "waiting", "preprocessing", "registering",
                                  "processing"}
    \/ x.phase = "failed" /\ x.item = 0
    \/ x.server \in {"failed", "refused"}
ShownFirst == <<"uploading", "queued", "failed", "paused", "missing_local">>
Derived(k, comps) ==
    LET shown(r) == IF comps[r] = "interrupted" THEN "failed" ELSE comps[r]
        here == {i \in 1..5 : \E r \in RolesOf(k) : shown(r) = ShownFirst[i]}
    IN IF here # {} THEN ShownFirst[Min(here)]
       ELSE IF \A r \in RolesOf(k) : comps[r] = "received" THEN "uploaded" ELSE "queued"
DerivePhase(s, k) ==
    LET x == s.rec[k]
        next == Derived(k, x.comps)
        derived == Patch(s, k, [phase |-> next, unknown |-> FALSE])
    IN IF Settled(x) THEN s
       ELSE IF next = "uploaded" THEN SchedulePoll(derived, k) ELSE derived

(* applyServerItem *)
ApplyServerItem(s, k, i, server, keepFailed) ==
    LET merged == SetComponents(Patch(s, k, [item |-> i, server |-> server.state]), k,
                    LAMBDA r : IF server.comps[r] = "received" /\ r \notin keepFailed THEN "received"
                               ELSE IF server.comps[r] = "cancelled" THEN "cancelled"
                               ELSE s.rec[k].comps[r])
        done(phase) == Patch(StopPolling(merged, k), k, [phase |-> phase, unknown |-> FALSE])
    IN CASE server.state = "ready" ->
              ForgetLocalCopy(Patch(done("ready"), k, [prepared |-> FALSE]), k)
         [] server.state = "processing" ->
              SchedulePoll(ForgetLocalCopy(Patch(merged, k, [phase |-> "processing"]), k), k)
         [] server.state \in {"failed", "refused"} -> done("failed")
         [] server.state = "cancelled" -> ForgetLocalCopy(done("cancelled"), k)
         [] OTHER -> DerivePhase(merged, k)

(* pause *)
PauseItem(s, k) ==
    LET x == s.rec[k]
        stopped == StopTransfers(StopPolling(s, k), k)
        waiting == IF x.phase = "preprocessing" THEN Patch(Renew(stopped, k), k, [phase |-> "waiting"])
                   ELSE stopped
        resumable == IF x.item # 0 /\ x.phase \notin Terminal
                     THEN SetComponents(waiting, k,
                            LAMBDA r : IF x.comps[r] \in {"uploading", "queued"} THEN "paused"
                                       ELSE x.comps[r])
                     ELSE waiting
    IN IF x.phase = "absent" THEN s ELSE DerivePhase(resumable, k)
Pause(s, reason) ==
    LET paused == [s EXCEPT !.status = "paused", !.reason = reason]
        items == FoldSet(LAMBDA k, u : PauseItem(u, k), paused, Keys)
    IN [items EXCEPT !.transferQueue = <<>>, !.preprocessQueue = <<>>]

(* pumpTransfers, startTransfer: a transfer of the role that is replaced    *)
(* goes on, but nothing of it is heard any more.                            *)
StartTransfer(s, k, r) ==
    LET replaced == {t \in Transfers(s, k) : t.role = r}
        unlisted == OrphanAll(s, replaced)
        counted == [unlisted EXCEPT !.transferring = @ + 1]
    IN IF s.rec[k].item = 0 \/ ~ s.rec[k].prepared \/ s.rec[k].comps[r] # "queued" THEN s
       ELSE DerivePhase(SetComponent(Await(counted, "transfer", "upload", k, r), k, r, "uploading"), k)

PumpTransfers(s) ==
    IF s.status # "active" \/ s.transferring >= TransferConcurrency \/ s.transferQueue = <<>> THEN s
    ELSE IF ~ Own THEN Pause(s, "account")
    ELSE FoldLeft(LAMBDA u, q : IF u.transferring < TransferConcurrency THEN StartTransfer(u, q[1], q[2])
                                ELSE [u EXCEPT !.transferQueue = Append(@, q)],
                  [s EXCEPT !.transferQueue = <<>>], s.transferQueue)

EnqueueTransfer(s, k, r) ==
    LET queued == DerivePhase(SetComponent(s, k, r, "queued"), k)
    IN IF Contains(s.transferQueue, <<k, r>>) THEN s
       ELSE PumpTransfers([queued EXCEPT !.transferQueue = Append(@, <<k, r>>)])

(* abortTransfers: the slots go to the queue. *)
AbortTransfers(s, k) == PumpTransfers(StopTransfers(s, k))

(* register, up to the holder; `why` is "prepare" while the preprocessing   *)
(* slot waits for it.                                                       *)
AwaitHolder(s, k, why) ==
    Await(Patch(s, k, [phase |-> "registering", unknown |-> FALSE]), why, "holder", k, "still")
WaitForAccount(s, k) == Pause(Patch(s, k, [phase |-> "waiting", unknown |-> FALSE]), "account")
Register(s, k) ==
    IF ~ s.rec[k].prepared THEN s
    ELSE IF ~ Own THEN WaitForAccount(s, k)
    ELSE AwaitHolder(s, k, "register")

(* pumpPreprocess *)
StartPreprocess(s, k) ==
    IF s.rec[k].phase # "waiting" THEN s
    ELSE IF s.rec[k].prepared THEN Register(s, k)
    ELSE Await(Patch([s EXCEPT !.preprocessing = @ + 1], k, [phase |-> "preprocessing"]),
               "prepare", "work", k, "still")
PumpPreprocess(s) ==
    IF s.status # "active" THEN s
    ELSE FoldLeft(LAMBDA u, k : IF u.status = "active" /\ u.preprocessing < PreprocessConcurrency
                                THEN StartPreprocess(u, k)
                                ELSE IF u.status = "active"
                                THEN [u EXCEPT !.preprocessQueue = Append(@, k)] ELSE u,
                  [s EXCEPT !.preprocessQueue = <<>>], s.preprocessQueue)
Enqueue(s, k) == [s EXCEPT !.preprocessQueue = Append(@, k)]

(* Faulty: what waits for the account is not polled again.                  *)
ResumeUploads_without_polls(s) ==
    IF s.status # "paused" THEN s
    ELSE PumpTransfers([s EXCEPT !.status = "active", !.reason = "none"])

(* resume *)
ResumeUploads(s) ==
    LET active == [s EXCEPT !.status = "active", !.reason = "none"]
        polling == FoldSet(LAMBDA k, u : SchedulePoll(u, k), active,
                           {k \in Keys : s.rec[k].phase \in {"uploaded", "processing"}})
    IN IF s.status # "paused" THEN s ELSE PumpTransfers(polling)

(* markUnavailable *)
TransfersWithout(queue, k) ==
    FoldLeft(LAMBDA u, q : IF q[1] # k THEN Append(u, q) ELSE u, <<>>, queue)
ItemsWithout(queue, k) ==
    FoldLeft(LAMBDA u, j : IF j # k THEN Append(u, j) ELSE u, <<>>, queue)
MarkUnavailable(s, k) ==
    LET quiet == AbortTransfers(StopPolling(s, k), k)
        dropped == ForgetLocalCopy([quiet EXCEPT !.transferQueue = TransfersWithout(@, k)], k)
    IN SetComponents(Patch(dropped, k, [phase |-> "failed", unknown |-> FALSE]), k,
                     LAMBDA r : IF dropped.rec[k].comps[r] = "received" THEN "received" ELSE "failed")

-----------------------------------------------------------------------------
(* What a continuation does with its answer.  Its thread has ended.         *)

Fail(s, k, unknown) == Patch(s, k, [phase |-> "failed", unknown |-> unknown])
FailComponent(s, k, r, phase) == DerivePhase(SetComponent(s, k, r, phase), k)
FailureOf(ans) == IF ans.is = "lost" THEN "interrupted" ELSE "failed"

Cancellable(i) == i # 0 /\ Own
CancelOnAccount(s, k, i) ==
    IF ~ Cancellable(i) THEN s
    ELSE StartThread(s, [for |-> "nobody", call |-> "cancel", key |-> k, role |-> "still",
                         item |-> i, alive |-> FALSE, note |-> "draft", ans |-> UnderWay, no |-> 0])

(* abandonRegistration *)
Abandon(s, k) ==
    LET quiet == StopPolling(AbortTransfers(Renew(s, k), k), k)
        dropped == ForgetLocalCopy([quiet EXCEPT !.transferQueue = TransfersWithout(@, k)], k)
        failed == Patch(dropped, k, [item |-> 0, request |-> 0, server |-> "absent", draft |-> FALSE,
                                     phase |-> "failed", unknown |-> FALSE])
    IN CancelOnAccount(SetComponents(failed, k, LAMBDA r : "queued"), k, s.rec[k].item)

(* What a continuation makes of its answer: the next state, or one in which  *)
(* the manager is paused, the item is gone, or the account's item is applied *)
(* (but to the components `keep`) and the components `send` are queued.      *)
Outcome(s, does, keep, send) == [s |-> s, does |-> does, keep |-> keep, send |-> send]
Done(s) == Outcome(s, "nothing", {}, {})
Paused(s) == Outcome(s, "pause", {}, {})
Applies(s) == Outcome(s, "apply", {}, {})
AppliesBut(s, r) == Outcome(s, "apply", {r}, {})
AppliesAndSends(s, R) == Outcome(s, "apply", {}, R)
Sends(s, r) == Outcome(s, "send", {}, {r})
PausedAsWaiting(s, k) == Paused(Patch(s, k, [phase |-> "waiting", unknown |-> FALSE]))

Prepared(s, t) ==
    LET k == t.key
        ready == SetComponents(Patch(s, k, [prepared |-> TRUE]), k, LAMBDA r : "queued")
        choice == SetComponents(Patch(s, k, [phase |-> "needs_choice"]), k, LAMBDA r : "preparing")
    IN CASE ~ t.alive -> Done(s)
         [] t.alive /\ t.ans.is = "choice" -> Done(choice)
         [] t.alive /\ t.ans.is = "refused" -> Done(Fail(s, k, FALSE))
         [] t.alive /\ t.ans.is = "done" -> IF Own THEN Done(AwaitHolder(ready, k, "prepare"))
                                            ELSE PausedAsWaiting(ready, k)

(* register, with the holder, as long as the page has this account. *)
HolderResolved(s, t) ==
    LET k == t.key
        request == IF s.rec[k].request # 0 THEN s.rec[k].request ELSE s.requests + 1
        sent == [Patch(s, k, [request |-> request]) EXCEPT !.requests = IF request > @ THEN request ELSE @]
    IN IF ~ t.alive THEN Done(s)
       ELSE IF t.ans.is = "account" \/ ~ Own THEN PausedAsWaiting(s, k)
       ELSE IF t.ans.is # "done" THEN Done(Fail(s, k, t.ans.is = "lost"))
       ELSE Done(StartThread(sent, [t EXCEPT !.call = "register", !.item = request, !.ans = UnderWay]))

(* storeLocalCopy, up to the write. *)
StoreLocalCopy(s, k) ==
    IF s.changing \/ ~ s.saving \/ ~ s.rec[k].draft THEN s ELSE Await(s, "store", "put", k, "still")

(* A component whose upload an earlier page began waits for Continue. *)
Registered(s, t) ==
    LET k == t.key
        server == t.ans.item
        known == Patch(s, k, [item |-> t.item, draft |-> t.note = "draft", phase |-> "queued"])
        begun == SetComponents(known, k, LAMBDA r : IF server.comps[r] = "receiving" THEN "paused"
                                                    ELSE known.rec[k].comps[r])
    IN AppliesAndSends(StoreLocalCopy(begun, k), {r \in RolesOf(k) : server.comps[r] = "awaiting"})

RegisterSettled(s, t) ==
    CASE t.ans.is = "item" -> Registered(s, t)
      [] t.ans.is = "account" -> PausedAsWaiting(s, t.key)
      [] OTHER -> Done(Fail(s, t.key, t.ans.is = "lost"))

(* Faulty: a late registration of a cancelled item is left on the account. *)
RegisterAnswered_late_ignored(s, t) == IF t.alive THEN RegisterSettled(s, t) ELSE Done(s)

RegisterAnswered(s, t) ==
    LET late == t.ans.is = "item" /\ s.rec[t.key].phase \in {"cancelled", "cleanup"}
    IN IF t.alive THEN RegisterSettled(s, t)
       ELSE Done(IF late THEN CancelOnAccount(s, t.key, t.item) ELSE s)

(* settleTransfer, its slot freed.  The failure waits for a read: the bytes *)
(* may be there.                                                            *)
TransferSettled(s, t) ==
    CASE t.ans.is = "account" \/ ~ Own -> Paused(s)
      [] t.ans.is = "item" /\ Own -> Done(StartThread(s, [t EXCEPT !.for = "hash", !.call = "work"]))
      [] OTHER -> IF s.rec[t.key].item = 0 THEN Done(s)
                  ELSE Done(AwaitNoting(s, "settle", "read", t.key, t.role, FailureOf(t.ans)))

Hashed(s, t) == IF t.ans.is = "mismatch" THEN Done(Abandon(s, t.key)) ELSE Applies(s)

(* fetchItem: what every reader does with an answer that is no item. *)
Unread(s, t) == IF t.ans.is = "account" THEN Paused(s) ELSE Outcome(s, "unavailable", {}, {})

Reread(s, t) ==
    LET noted == SetComponent(s, t.key, t.role, t.note)
    IN CASE t.ans.is \in {"account", "gone"} -> Unread(s, t)
         [] t.ans.is = "lost" -> Done(DerivePhase(noted, t.key))
         [] t.ans.is = "item" -> IF t.ans.item.comps[t.role] = "received" THEN Applies(s)
                                 ELSE AppliesBut(noted, t.role)

(* restartComponent: read, reset what a stale attempt has begun, send.      *)
Restarted(s, t) ==
    LET server == t.ans.item
        decided == server.state # "awaiting_upload" \/ server.comps[t.role] = "received"
    IN CASE t.ans.is \in {"account", "gone"} -> Unread(s, t)
         [] t.ans.is = "lost" -> Done(FailComponent(s, t.key, t.role, "interrupted"))
         [] t.ans.is = "item" /\ decided ->
              Applies(IF server.state \in {"failed", "refused"}
                      THEN SetComponent(s, t.key, t.role, "failed") ELSE s)
         [] t.ans.is = "item" /\ ~ decided ->
              IF server.comps[t.role] = "awaiting" THEN Sends(s, t.role)
              ELSE Done(Await(s, "restart", "reset", t.key, t.role))

(* Faulty: the component that was reset is not sent. *)
RestartReset_not_sent(s, t) ==
    CASE t.ans.is = "account" -> Paused(s)
      [] t.ans.is = "item" -> Applies(s)
      [] OTHER -> Done(AwaitNoting(s, "again", "read", t.key, t.role, FailureOf(t.ans)))

RestartReset(s, t) ==
    CASE t.ans.is = "account" -> Paused(s)
      [] t.ans.is = "item" ->
           AppliesAndSends(s, {r \in {t.role} : t.ans.item.comps[r] = "awaiting"})
      [] OTHER -> Done(AwaitNoting(s, "again", "read", t.key, t.role, FailureOf(t.ans)))

ResetReread(s, t) ==
    LET now == t.ans.item.comps[t.role]
        noted == SetComponent(s, t.key, t.role, t.note)
    IN CASE t.ans.is # "item" -> Done(DerivePhase(noted, t.key))
         [] t.ans.is = "item" /\ now \in {"received", "awaiting"} ->
              AppliesAndSends(s, {r \in {t.role} : now = "awaiting"})
         [] t.ans.is = "item" /\ now \notin {"received", "awaiting"} -> AppliesBut(noted, t.role)

(* retryProcessing: every component is reset, one after the other.          *)
ProcessReset(s, t) ==
    LET k == t.key
        failed == SetComponents(s, k, LAMBDA r : "failed")
    IN CASE t.ans.is = "item" ->
              IF t.role = "still" /\ k \in LiveKeys THEN Done(Await(s, "process", "reset", k, "motion"))
              ELSE AppliesAndSends(s, {r \in RolesOf(k) : t.ans.item.comps[r] = "awaiting"})
         [] t.ans.is = "account" -> Paused(Fail(failed, k, FALSE))
         [] OTHER -> Done(AwaitNoting(s, "processed", "read", k, t.role, FailureOf(t.ans)))

ProcessReread(s, t) ==
    LET k == t.key
        failed == SetComponents(s, k, LAMBDA r : "failed")
    IN Done(Fail(IF t.ans.is = "item" THEN ApplyServerItem(failed, k, t.item, t.ans.item, {}) ELSE failed,
                 k, t.note = "interrupted"))

(* schedulePoll's timer; what still waits for the account is asked for again. *)
Polled(s, t) ==
    CASE t.ans.is \in {"account", "gone"} -> Unread(s, t)
      [] t.ans.is = "lost" -> Done(SchedulePoll(s, t.key))
      [] t.ans.is = "item" -> Applies(s)

(* cancelItem, once the account has answered or has not. *)
Cancelled(s, t) == ForgetLocalCopy(Patch(s, t.key, [phase |-> "cancelled"]), t.key)

(* Faulty: the copy of what the account processes by now is kept.           *)
Stored_once_uploaded(s, t) ==
    LET x == s.rec[t.key]
        wanted == t.alive /\ ~ s.changing /\ s.saving /\ x.draft /\ x.phase \notin Terminal
    IN IF wanted \/ t.ans.is # "done" THEN s ELSE [s EXCEPT !.copies = @ \ {t.key}]

(* storeLocalCopy, after the write: a copy that was written and is wanted   *)
(* no longer is removed, one that could not be written is not.              *)
Stored(s, t) ==
    LET x == s.rec[t.key]
        wanted == /\ t.alive /\ ~ s.changing /\ s.saving /\ x.draft
                  /\ x.phase \notin Terminal \cup {"processing"}
    IN IF wanted \/ t.ans.is # "done" THEN s ELSE [s EXCEPT !.copies = @ \ {t.key}]

Continuation(s, t) ==
    CASE t.for = "prepare" /\ t.call = "work" -> Prepared(s, t)
      [] t.call = "holder" -> HolderResolved(s, t)
      [] t.call = "register" -> RegisterAnswered(s, t)
      [] t.for = "transfer" -> TransferSettled(s, t)
      [] t.for = "hash" -> Hashed(s, t)
      [] t.for = "settle" -> Reread(s, t)
      [] t.for = "restart" /\ t.call = "read" -> Restarted(s, t)
      [] t.for = "restart" /\ t.call = "reset" -> RestartReset(s, t)
      [] t.for = "again" -> ResetReread(s, t)
      [] t.for = "process" -> ProcessReset(s, t)
      [] t.for = "processed" -> ProcessReread(s, t)
      [] t.for = "poll" -> Polled(s, t)
      [] t.for = "cancel" -> Done(Cancelled(s, t))
      [] t.for = "store" -> Done(Stored(s, t))

(* The slot of a transfer is free before its answer is looked at; that of   *)
(* the preprocessing once the item is registered, or is not.                *)
FreeTransfer(s, t) ==
    IF t.for = "transfer" THEN PumpTransfers([s EXCEPT !.transferring = AtLeastZero(@ - 1)]) ELSE s
FreeSlot(s, t) ==
    LET goesOn == \E u \in s.threads \ m.threads : u.for = "prepare" /\ u.key = t.key
    IN IF t.for = "prepare" /\ ~ goesOn THEN PumpPreprocess([s EXCEPT !.preprocessing = @ - 1]) ELSE s

Carry(o, t) ==
    LET k == t.key
        applied == IF o.does = "apply" THEN ApplyServerItem(o.s, k, t.item, t.ans.item, o.keep) ELSE o.s
        polled == IF t.for = "poll" /\ applied.rec[k].phase \in {"uploaded", "processing"}
                  THEN SchedulePoll(applied, k) ELSE applied
    IN CASE o.does = "pause" -> Pause(o.s, "account")
         [] o.does = "unavailable" -> MarkUnavailable(o.s, k)
         [] OTHER -> ForRoles(LAMBDA u, r : EnqueueTransfer(u, k, r), polled, o.send)

-----------------------------------------------------------------------------
(* The manager's steps: a timer, or a continuation whose answer is there.   *)

Fires(k) ==
    /\ m.rec[k].timer
    /\ LET quiet == StopPolling(m, k)
       IN m' = IF m.status = "active" /\ m.rec[k].item # 0 THEN Await(quiet, "poll", "read", k, "still") ELSE quiet
    /\ UNCHANGED <<media, confirmed, runtimeAccount, cookie, holder, spent>>

Continues(t) ==
    /\ t.ans.is \notin {"under way", "streaming"} /\ t.for # "detach"
    /\ t.call = "holder" /\ t.alive /\ m.rec[t.key].request = 0 => m.requests < MaxRegistrations
    /\ m' = FreeSlot(Carry(Continuation(FreeTransfer(EndThread(m, t), t), t), t), t)
    /\ UNCHANGED <<media, confirmed, runtimeAccount, cookie, holder, spent>>

-----------------------------------------------------------------------------
(* The author, in the editor of the manager's account.                      *)
(* Bound: nobody continues or retries while the draft is being deleted; no  *)
(* page of the product offers the switch yet.                               *)

Switching == holder \in {"deleting", "cleared", "detaching"}
Commanded == /\ runtimeAccount = "own" /\ spent.commands < MaxCommands
             /\ spent' = [spent EXCEPT !.commands = @ + 1]
             /\ UNCHANGED <<media, confirmed, runtimeAccount, cookie>>

AddConfirmed(k) ==
    /\ m.rec[k].phase = "absent" /\ runtimeAccount = "own"
    /\ m' = PumpPreprocess(Enqueue(Patch(m, k, [phase |-> "waiting"]), k))
    /\ UNCHANGED <<media, confirmed, runtimeAccount, cookie, holder, spent>>

ChooseOriginal(k) ==
    /\ m.rec[k].phase = "needs_choice" /\ runtimeAccount = "own"
    /\ LET chosen == Patch(Renew(m, k), k, [phase |-> "waiting", original |-> TRUE, prepared |-> FALSE])
       IN m' = PumpPreprocess(Enqueue(chosen, k))
    /\ UNCHANGED <<media, confirmed, runtimeAccount, cookie, holder, spent>>

(* cancelItem, with the item's earlier continuations fenced. *)
Removal(fenced, k) ==
    LET quiet == StopPolling(AbortTransfers(fenced, k), k)
        dropped == [quiet EXCEPT !.transferQueue = TransfersWithout(@, k),
                                 !.preprocessQueue = ItemsWithout(@, k)]
        ended == SetComponents(Patch(dropped, k, [phase |-> "cleanup"]), k,
                    LAMBDA r : IF dropped.rec[k].comps[r] = "received" THEN "received" ELSE "cancelled")
    IN /\ m.rec[k].phase \notin {"absent", "cancelled", "cleanup"}
       /\ Commanded
       /\ m' = IF Cancellable(m.rec[k].item) THEN Await(ended, "cancel", "cancel", k, "still")
               ELSE ForgetLocalCopy(Patch(ended, k, [phase |-> "cancelled"]), k)
       /\ UNCHANGED holder

(* Faulty: the earlier continuations of the item are not fenced. *)
CancelItem_unfenced(k) == Removal(m, k)

CancelItem(k) == Removal(Renew(m, k), k)

(* retryComponent, up to the read; the bytes are there. *)
Interrupted == {"failed", "interrupted", "paused"}
Restartable(x) == x.item # 0 /\ x.server \notin {"failed", "refused"}
Restart(s, k, r) ==
    LET queued == DerivePhase(SetComponent(s, k, r, "queued"), k)
    IN IF s.rec[k].comps[r] \notin Interrupted \/ ~ Restartable(s.rec[k]) THEN s
       ELSE IF ~ s.rec[k].prepared THEN FailComponent(s, k, r, "missing_local")
       ELSE IF ~ Own THEN Pause(s, "account")
       ELSE Await(queued, "restart", "read", k, r)

RetryComponent(k) ==
    LET x == m.rec[k]
        roles == {r \in RolesOf(k) : x.comps[r] \in {"failed", "interrupted"}}
        active == IF Restartable(x) /\ x.prepared /\ Own THEN ResumeUploads(m) ELSE m
    IN /\ ~ Switching
       /\ x.phase = "failed" /\ roles # {}
       /\ Commanded
       /\ m' = ForRoles(LAMBDA u, r : Restart(u, k, r), active, roles)
       /\ UNCHANGED holder

RetryProcessing(k) ==
    LET active == ResumeUploads(m)
        queued == SetComponents(Patch(StopPolling(active, k), k, [phase |-> "queued", unknown |-> FALSE]),
                                k, LAMBDA r : "queued")
    IN /\ ~ Switching
       /\ m.rec[k].phase = "failed" /\ m.rec[k].server = "failed" /\ m.rec[k].prepared
       /\ Commanded
       /\ m' = IF Own THEN Await(queued, "process", "reset", k, "still") ELSE Pause(m, "account")
       /\ UNCHANGED holder

Reregister(s, k) ==
    LET again == IF s.rec[k].unknown THEN s ELSE Patch(s, k, [request |-> 0])
    IN IF s.rec[k].phase # "failed" \/ s.rec[k].item # 0 THEN s
       ELSE IF s.rec[k].prepared THEN Register(again, k)
       ELSE PumpPreprocess(Enqueue(Patch(s, k, [phase |-> "waiting", unknown |-> FALSE]), k))

RetryRegistration(k) ==
    /\ ~ Switching
    /\ m.rec[k].phase = "failed" /\ m.rec[k].item = 0
    /\ Commanded
    /\ m' = Reregister(m, k)
    /\ UNCHANGED holder

(* continueUploads, offered while something is paused. *)
ContinueItem(s, k) ==
    LET x == s.rec[k]
        waiting == IF x.phase = "waiting" /\ ~ Contains(s.preprocessQueue, k) THEN Enqueue(s, k) ELSE s
        registering == IF x.phase = "failed" /\ x.item = 0 /\ x.unknown THEN Reregister(waiting, k)
                       ELSE waiting
    IN ForRoles(LAMBDA u, r : IF x.comps[r] \in {"paused", "interrupted"} THEN Restart(u, k, r) ELSE u,
               registering, RolesOf(k))
ContinueUploads ==
    /\ ~ Switching
    /\ m.status = "paused" \/ \E k \in Keys : m.rec[k].phase = "paused"
    /\ Commanded
    /\ m' = IF Own THEN PumpPreprocess(FoldSet(LAMBDA k, u : ContinueItem(u, k), ResumeUploads(m), Keys))
            ELSE Pause(m, "account")
    /\ UNCHANGED holder

-----------------------------------------------------------------------------
(* disableSaving: the draft that holds the items is deleted. *)

Suspend ==
    LET paused == [Pause(m, "offline") EXCEPT !.changing = TRUE]
        back(s, k) == IF s.rec[k].phase = "registering"
                      THEN Patch(Renew(s, k), k, [phase |-> "waiting"]) ELSE s
    IN /\ holder = "draft" /\ runtimeAccount = "own" /\ spent.switches < MaxSwitches
       /\ spent' = [spent EXCEPT !.switches = @ + 1]
       /\ m' = FoldSet(LAMBDA k, u : back(u, k), paused, Keys)
       /\ holder' = "deleting"
       /\ UNCHANGED <<media, confirmed, runtimeAccount, cookie>>

CancelHolderChange ==
    /\ holder = "deleting"
    /\ holder' = "draft"
    /\ m' = [m EXCEPT !.changing = FALSE]
    /\ UNCHANGED <<media, confirmed, runtimeAccount, cookie, spent>>

(* cancelItems: transfers under way are refused. *)
Live == {"awaiting_upload", "processing", "failed", "refused"}
CancelledItem(x) ==
    IF x.state = "absent" THEN x
    ELSE [x EXCEPT !.state = "cancelled", !.comps = [r \in Roles |-> "cancelled"]]
EndStreams(s, i, R) ==
    FoldSet(LAMBDA t, u : IF t.for = "nobody" THEN EndThread(u, t)
                          ELSE StartThread(EndThread(u, t), [t EXCEPT !.ans = Ans("refused")]),
            s, {t \in s.threads : t.call = "upload" /\ t.item = i /\ t.role \in R
                                  /\ t.ans.is = "streaming"})

DraftDeleted ==
    /\ holder = "deleting"
    /\ \E kept \in SUBSET {i \in ItemIds : media[i].state = "ready"} :
         LET ended == {i \in ItemIds : media[i].holder = "draft"} \ kept
         IN /\ media' = [i \in ItemIds |-> IF i \in ended THEN CancelledItem(media[i]) ELSE media[i]]
            /\ m' = FoldSet(LAMBDA i, u : EndStreams(u, i, Roles), [m EXCEPT !.copies = {}], ended)
    /\ holder' = "cleared"
    /\ UNCHANGED <<confirmed, runtimeAccount, cookie, spent>>

(* detachFromHolder: every item is read, and together they decide.          *)
Tracked == {k \in Keys : m.rec[k].phase \notin {"absent", "cancelled", "cleanup"}}
Detach ==
    LET unbound == [m EXCEPT !.saving = FALSE]
        fenced == FoldSet(LAMBDA k, u : StopPolling(AbortTransfers(Renew(u, k), k), k), unbound, Tracked)
        empty == [fenced EXCEPT !.transferQueue = <<>>, !.preprocessQueue = <<>>]
        ask(s, k) == LET asked == Await(s, "detach", "read", k, "still")
                         mine == CHOOSE t \in asked.threads \ s.threads : TRUE
                     IN IF s.rec[k].item # 0 THEN asked
                        ELSE StartThread(s, [mine EXCEPT !.ans = Ans("done")])
    IN /\ holder = "cleared"
       /\ m' = FoldSet(LAMBDA k, u : ask(u, k), empty, Tracked)
       /\ holder' = "detaching"
       /\ UNCHANGED <<media, confirmed, runtimeAccount, cookie, spent>>

DetachItem(s, t) ==
    LET k == t.key
        x == s.rec[k]
        kept == ApplyServerItem(Patch(s, k, [draft |-> FALSE]), k, t.item, t.ans.item, {})
        anew == Patch(s, k, [item |-> 0, request |-> 0, server |-> "absent", draft |-> FALSE,
                             phase |-> "waiting", unknown |-> FALSE])
    IN IF ~ t.alive \/ t.ans.is \in {"lost", "account"} THEN s
       ELSE IF t.ans.is = "item" /\ t.ans.item.state # "cancelled" THEN kept
       ELSE IF x.item = 0 /\ (x.phase = "needs_choice" \/ (x.phase = "failed" /\ ~ x.prepared)) THEN s
       ELSE Enqueue(SetComponents(anew, k, LAMBDA r : "preparing"), k)

Detached ==
    LET threads == {t \in m.threads : t.for = "detach"}
        ended == [m EXCEPT !.threads = @ \ threads]
        decided == [FoldSet(LAMBDA t, u : DetachItem(u, t), ended, threads) EXCEPT !.changing = FALSE]
        resumed == IF decided.status = "paused" /\ decided.reason = "offline" THEN ResumeUploads(decided) ELSE decided
    IN /\ holder = "detaching"
       /\ \A t \in threads : t.ans.is # "under way"
       /\ m' = PumpPreprocess(resumed)
       /\ holder' = "session"
       /\ UNCHANGED <<media, confirmed, runtimeAccount, cookie, spent>>

-----------------------------------------------------------------------------
(* The account of the browser: a session cookie, its confirmation by the    *)
(* page, and PublishingRuntime.setAccount.                                  *)

CookieChanges ==
    /\ spent.switches < MaxSwitches
    /\ spent' = [spent EXCEPT !.switches = @ + 1]
    /\ cookie' = IF cookie = "own" THEN "other" ELSE "own"
    /\ UNCHANGED <<m, media, confirmed, runtimeAccount, holder>>

(* authorClient.setAccount: no answer of an earlier account is handed over. *)
Requests == {"holder", "register", "read", "reset", "cancel"}
Disown(s, t) == StartThread(Orphan(s, t), [t EXCEPT !.ans = Ans("account")])
Confirm ==
    /\ confirmed # cookie
    /\ confirmed' = cookie
    /\ m' = FoldSet(LAMBDA t, u : Disown(u, t), m,
                    {t \in m.threads : /\ t.call \in Requests /\ t.for # "nobody" /\ t.ans.is # "lost"
                                       /\ ~ (t.for = "detach" /\ t.ans.is = "done")})
    /\ UNCHANGED <<media, runtimeAccount, cookie, holder, spent>>

ResumeIfIdle(s) ==
    LET interrupted == \E k \in Keys : \/ s.rec[k].phase \in {"waiting", "registering"}
                                       \/ \E r \in RolesOf(k) :
                                            s.rec[k].comps[r] \in {"paused", "queued", "uploading"}
    IN IF interrupted THEN s ELSE ResumeUploads(s)

SetAccount ==
    /\ runtimeAccount # confirmed
    /\ runtimeAccount' = confirmed
    /\ m' = IF confirmed = "other" THEN Pause(m, "account") ELSE ResumeIfIdle(m)
    /\ UNCHANGED <<media, confirmed, cookie, holder, spent>>

-----------------------------------------------------------------------------
(* The account and the network.                                             *)

WithAnswer(s, t, ans) ==
    IF t.for = "nobody" THEN EndThread(s, t)
    ELSE StartThread(EndThread(s, t), [t EXCEPT !.ans = ans])
ItemAns(x) == [is |-> "item", item |-> x]

Fault == /\ spent.faults < MaxFaults
         /\ spent' = [spent EXCEPT !.faults = @ + 1]

(* The browser's own work. *)
WorkDone(t) ==
    /\ t.call = "work" /\ t.for = "prepare" /\ t.ans.is = "under way"
    /\ \/ m' = WithAnswer(m, t, Ans("done")) /\ UNCHANGED spent
       \/ Fault /\ m' = WithAnswer(m, t, Ans("refused"))
       \/ Fault /\ ~ m.rec[t.key].original /\ m' = WithAnswer(m, t, Ans("choice"))
    /\ UNCHANGED <<media, confirmed, runtimeAccount, cookie, holder>>

(* The file changed after it was selected. *)
HashDiffers(t) ==
    /\ t.for = "hash" /\ t.ans.is = "item" /\ Fault
    /\ m' = WithAnswer(m, t, [t.ans EXCEPT !.is = "mismatch"])
    /\ UNCHANGED <<media, confirmed, runtimeAccount, cookie, holder>>

(* recovery.save *)
CopyWritten(t) ==
    /\ t.call = "put" /\ t.ans.is = "under way"
    /\ m' = [WithAnswer(m, t, Ans("done")) EXCEPT !.copies = @ \cup {t.key}]
    /\ UNCHANGED <<media, confirmed, runtimeAccount, cookie, holder, spent>>

(* The manager's binding.  The runtime names the editor session, with       *)
(* saving on too; the manager, as its tests show, also takes a saved draft. *)
HolderServed(t) ==
    /\ t.call = "holder" /\ t.ans.is = "under way"
    /\ \E h \in IF m.saving THEN {"draft", "session"} ELSE {"session"} :
         m' = StartThread(EndThread(m, t), [t EXCEPT !.note = h, !.ans = Ans("done")])
    /\ UNCHANGED <<media, confirmed, runtimeAccount, cookie, holder, spent>>

(* readItem: another account does not have the item.  A command names the   *)
(* account that it is for, and is refused under another one.                *)
ReadServed(t) ==
    /\ t.call = "read" /\ t.ans.is = "under way"
    /\ m' = WithAnswer(m, t, IF cookie = "own" THEN ItemAns(media[t.item]) ELSE Ans("gone"))
    /\ UNCHANGED <<media, confirmed, runtimeAccount, cookie, holder, spent>>

OtherAccount(t) ==
    /\ t.call \in Commands /\ t.ans.is = "under way" /\ cookie = "other"
    /\ m' = WithAnswer(m, t, Ans("account"))
    /\ UNCHANGED <<media, confirmed, runtimeAccount, cookie, holder, spent>>

Reached(t, call) == t.call = call /\ t.ans.is = "under way" /\ cookie = "own"

(* registerItem; a repeated request answers with what it registered.        *)
RegisterServed(t) ==
    LET open == t.note = "session" \/ holder \in {"draft", "deleting"}
        new == [NoItem EXCEPT !.state = "awaiting_upload", !.holder = t.note]
        item == IF media[t.item].state = "absent" THEN new ELSE media[t.item]
    IN /\ Reached(t, "register")
       /\ IF media[t.item].state = "absent" /\ ~ open
          THEN m' = WithAnswer(m, t, Ans("refused")) /\ UNCHANGED media
          ELSE m' = WithAnswer(m, t, ItemAns(item)) /\ media' = [media EXCEPT ![t.item] = item]
       /\ UNCHANGED <<confirmed, runtimeAccount, cookie, holder, spent>>

(* resetComponent: bytes that were received are let go. *)
ResetServed(t) ==
    LET x == media[t.item]
        item == [x EXCEPT !.state = "awaiting_upload", !.comps[t.role] = "awaiting"]
    IN /\ Reached(t, "reset")
       /\ IF x.state \in {"awaiting_upload", "failed", "refused"}
          THEN /\ media' = [media EXCEPT ![t.item] = item]
               /\ m' = WithAnswer(EndStreams(m, t.item, {t.role}), t, ItemAns(item))
          ELSE m' = WithAnswer(m, t, Ans("refused")) /\ UNCHANGED media
       /\ UNCHANGED <<confirmed, runtimeAccount, cookie, holder, spent>>

(* cancelItem *)
CancelServed(t) ==
    LET x == media[t.item]
        item == IF x.state \in Live THEN CancelledItem(x) ELSE x
    IN /\ Reached(t, "cancel")
       /\ media' = [media EXCEPT ![t.item] = item]
       /\ m' = WithAnswer(EndStreams(m, t.item, IF x.state \in Live THEN Roles ELSE {}), t, ItemAns(item))
       /\ UNCHANGED <<confirmed, runtimeAccount, cookie, holder, spent>>

(* beginComponentUpload: a stale attempt is taken over, a running one not.  *)
Streaming(i, r) == \E u \in m.threads : /\ u.call = "upload" /\ u.item = i /\ u.role = r
                                        /\ u.ans.is = "streaming"
UploadBegins(t) ==
    LET x == media[t.item]
        free == /\ x.state = "awaiting_upload"
                /\ x.comps[t.role] \in {"awaiting", "receiving"} /\ ~ Streaming(t.item, t.role)
    IN /\ Reached(t, "upload")
       /\ IF free THEN /\ media' = [media EXCEPT ![t.item].comps[t.role] = "receiving"]
                       /\ m' = StartThread(EndThread(m, t), [t EXCEPT !.ans = Ans("streaming")])
          ELSE m' = WithAnswer(m, t, Ans("refused")) /\ UNCHANGED media
       /\ UNCHANGED <<confirmed, runtimeAccount, cookie, holder, spent>>

(* commitComponentUpload: the last component starts the processing. *)
UploadCommits(t) ==
    LET x == media[t.item]
        comps == [x.comps EXCEPT ![t.role] = "received"]
        item == [x EXCEPT !.comps = comps,
                          !.state = IF \A r \in RolesOf(t.key) : comps[r] = "received"
                                    THEN "processing" ELSE @]
    IN /\ t.ans.is = "streaming"
       /\ media' = [media EXCEPT ![t.item] = item]
       /\ m' = WithAnswer(m, t, ItemAns(item))
       /\ UNCHANGED <<confirmed, runtimeAccount, cookie, holder, spent>>

(* abortComponentUpload of a transfer whose client has gone; the process    *)
(* may crash before that.                                                   *)
UploadStops(t) ==
    /\ t.ans.is = "streaming" /\ t.for = "nobody"
    /\ m' = EndThread(m, t)
    /\ \/ media' = [media EXCEPT ![t.item].comps[t.role] = "awaiting"] /\ UNCHANGED spent
       \/ Fault /\ UNCHANGED media
    /\ UNCHANGED <<confirmed, runtimeAccount, cookie, holder>>

(* The item is processed. *)
Processed(i) ==
    /\ media[i].state = "processing"
    /\ \/ media' = [media EXCEPT ![i].state = "ready"] /\ UNCHANGED spent
       \/ Fault /\ \E failed \in {"failed", "refused"} : media' = [media EXCEPT ![i].state = failed]
    /\ UNCHANGED <<m, confirmed, runtimeAccount, cookie, holder>>

(* A call is refused, or it or its answer is lost; one that was on its way  *)
(* may still be served.                                                     *)
CallRefused(t) ==
    /\ t.call \in Commands \cup {"holder", "put"} /\ t.ans.is = "under way" /\ t.for # "nobody"
    /\ Fault
    /\ m' = WithAnswer(m, t, Ans("refused"))
    /\ UNCHANGED <<media, confirmed, runtimeAccount, cookie, holder>>

CallLost(t) ==
    /\ t.call \in Requests \cup {"upload"} /\ t.for # "nobody"
    /\ t.ans.is \in {"under way", "streaming", "item"}
    /\ Fault
    /\ \/ m' = StartThread(Orphan(m, t), [t EXCEPT !.ans = Ans("lost")])
       \/ t.ans.is # "streaming" /\ m' = StartThread(EndThread(m, t), [t EXCEPT !.ans = Ans("lost")])
    /\ UNCHANGED <<media, confirmed, runtimeAccount, cookie, holder>>

-----------------------------------------------------------------------------
Author == \/ \E k \in Keys : \/ AddConfirmed(k) \/ ChooseOriginal(k) \/ CancelItem(k)
                             \/ RetryComponent(k) \/ RetryProcessing(k) \/ RetryRegistration(k)
          \/ ContinueUploads
          \/ Suspend \/ CancelHolderChange \/ DraftDeleted \/ Detach \/ Detached
Account == CookieChanges \/ Confirm \/ SetAccount
Manager == \/ \E k \in Keys : Fires(k)
           \/ \E t \in m.threads : Continues(t)
Service ==
    \/ \E t \in m.threads : \/ WorkDone(t) \/ HashDiffers(t) \/ CopyWritten(t) \/ HolderServed(t)
                            \/ ReadServed(t) \/ OtherAccount(t) \/ RegisterServed(t) \/ ResetServed(t)
                            \/ CancelServed(t) \/ UploadBegins(t) \/ UploadCommits(t) \/ UploadStops(t)
                            \/ CallRefused(t) \/ CallLost(t)
    \/ \E i \in ItemIds : Processed(i)

UploadsNext == Author \/ Account \/ Manager \/ Service
UploadsSpec == UploadsInit /\ [][UploadsNext]_uploadVars

-----------------------------------------------------------------------------
(* Properties *)

Over == {"cleanup", "cancelled"}
Mine(k) == {t \in m.threads : t.key = k /\ t.alive}

(* An item that the author removed stays removed, whatever answers are      *)
(* still on their way (cancelItem: it "fences every later answer").  The    *)
(* account itself removes items only with a deleted draft.                  *)
Removed(k) == m.rec[k].phase \in Over /\ holder = "draft"
CancelledStays == [][\A k \in Keys : Removed(k) => m'.rec[k].phase \in Over]_uploadVars

(* The same of an item of one component, which has no other that            *)
(* cancelItem could start once the slot is free, as long as neither account  *)
(* nor saving changed: a restart that outlived a pause may queue it again.   *)
CancelledStillStays ==
    [][spent.switches = 0 =>
         \A k \in Keys \ LiveKeys : Removed(k) => m'.rec[k].phase \in Over]_uploadVars

(* While the manager is active, an item that waits for the processing of the *)
(* account is polled, or the read of its poll or of its detachment is on its *)
(* way: no pause, retry, Continue or answer leaves it waiting for good.  Not  *)
(* of items that a session holds: a read to detach them that an account       *)
(* change makes void is not repeated.                                        *)
ProcessingIsWatched ==
    m.status = "active" /\ holder # "session" =>
        \A k \in Keys : m.rec[k].phase \in {"uploaded", "processing"} =>
            m.rec[k].timer \/ \E t \in Mine(k) : t.for \in {"poll", "detach"}

(* No item is shown in progress when nothing can move it: it has a           *)
(* continuation, a timer or a place in the queue of transfers.  Up to one     *)
(* fault and two changes of account or saving; not when saving is switched    *)
(* off after a Continue or a retry, whose read may be under way then.        *)
NothingStalls ==
    /\ m.status = "active" /\ ~ Switching /\ (holder = "session" => spent.commands = 0)
    /\ spent.faults <= 1 /\ spent.switches <= 2
    => \A k \in Keys :
          m.rec[k].phase \in {"preprocessing", "registering", "queued", "uploading", "uploaded",
                             "processing", "cleanup"}
          => \/ \E t \in Mine(k) : t.for # "store"
             \/ m.rec[k].timer
             \/ \E r \in Roles : Contains(m.transferQueue, <<k, r>>)

(* The count of slots covers the transfers whose slot it is, through        *)
(* aborts, pauses and late answers: no more than the limit run at a time.   *)
SlotsCoverTransfers ==
    /\ Cardinality({t \in m.threads : t.for = "transfer"}) <= m.transferring
    /\ m.transferring <= TransferConcurrency

(* No command leaves the browser for an account that the page has ceased to *)
(* work for, even when the account changed during the wait before it.       *)
CommandsInTheirAccount ==
    [][\A t \in m'.threads : t.call \in Commands /\ t.ans.is = "under way" =>
           \/ Own
           \/ \E u \in m.threads : u.call = t.call /\ u.key = t.key /\ u.item = t.item
                                    /\ u.role = t.role]_uploadVars

(* Whatever is registered on the account is an item the manager works with,  *)
(* will replay or is cancelling: cancellations, lost answers and repeated    *)
(* registrations leave nothing that only holds capacity (a lost answer may   *)
(* leave the item of a cancelled one; a second fault or a switch, more).     *)
NothingIsLeftBehind ==
    spent.switches = 0 /\ spent.faults <= 1 =>
        \A i \in ItemIds : media[i].state \in Live =>
            \/ \E k \in Keys : \/ m.rec[k].item = i
                               \/ /\ m.rec[k].request = i
                                  /\ m.rec[k].phase \in Over => spent.faults > 0
            \/ \E t \in m.threads : t.item = i /\ t.call \in {"cancel", "register"}

(* A local copy of the author's media outlives neither its upload nor the    *)
(* draft and the saving that permit it, however late its write ends and      *)
(* whatever the item became meanwhile (storeLocalCopy, forgetLocalCopy).     *)
CopiesAreWanted ==
    \A k \in m.copies :
        \/ \E t \in m.threads : t.key = k /\ t.for = "store" /\ t.ans.is = "done"
        \/ /\ holder \in {"draft", "deleting"}
           /\ m.rec[k].phase \notin {"ready", "processing", "cancelled"}
=============================================================================
