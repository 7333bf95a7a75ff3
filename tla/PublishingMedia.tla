--------------------------- MODULE PublishingMedia ---------------------------
(***************************************************************************)
(* Media items of one account: registration against the account's capacity, *)
(* component uploads behind the attempt fence, cancel and reset, sessions,  *)
(* derivative results, purge, and the files of the private media store      *)
(* (community-postgres publishing/media.ts, uploads.ts, sessions.ts and     *)
(* jobs.ts; api work-publishing-service.ts; backend-production              *)
(* publishing/job-handlers.ts and storage/publishing-media-store.ts).       *)
(*                                                                          *)
(* A port function is one transaction and one action; the file of a blob    *)
(* and its row are written, recorded, removed and confirmed in separate     *)
(* steps of transfers and jobs, any of which can be the last before a crash.*)
(* A blob id stands for its row and for its storage key.                    *)
(***************************************************************************)
EXTENDS Integers, FiniteSets, Functions

CONSTANTS
    Items, Components,   \* components are the separately uploaded parts
    ItemOf,              \* the item of a component
    First,               \* the component that carries the item's allowance
    Size,                \* declared_bytes of a component
    Allowance,           \* derivativeAllowance of an item
    DerivedSize,         \* bytes of one recorded derivative
    Capacity,            \* capacityBytes of the account
    Blobs,               \* blob rows and storage keys that can exist
    Transfers,           \* upload requests; also their attempt labels
    Sessions, Drafts,    \* holders whose refs keep an item
    Purgers,             \* purge jobs that run at the same time
    Null

Holders == Sessions \cup Drafts

ASSUME ComponentAssumption == /\ IsFiniteSet(Components)
                              /\ ItemOf \in [Components -> Items]
                              /\ First \in [Items -> Components]
                              /\ \A i \in Items : ItemOf[First[i]] = i
ASSUME SizeAssumption == /\ Size \in [Components -> Nat \ {0}]
                         /\ Allowance \in [Items -> Nat]
                         /\ DerivedSize \in Nat /\ Capacity \in Nat
ASSUME HolderAssumption == Sessions \cap Drafts = {}
ASSUME NullAssumption == Null \notin Blobs \cup Transfers \cup Components

VARIABLES
    item,        \* media_items.state
    comp,        \* media_components
    blob,        \* media_blobs
    derived,     \* media_derivatives: blobs of the base and of the edited variants
    refs,        \* media_item_refs
    holder,      \* publishing_sessions.state and lease, work_drafts.state
    capacity,    \* account_publishing_capacity
    store,       \* files in the private media store
    transfer,    \* uploadComponent calls
    output,      \* derivative files of a running job that are not recorded yet
    purge        \* purge jobs: the plan and what was unlinked of it

vars == <<item, comp, blob, derived, refs, holder, capacity, store, transfer, output, purge>>

-----------------------------------------------------------------------------
ComponentsOf(i) == {c \in Components : ItemOf[c] = i}

ItemStates == {"absent", "awaiting_upload", "processing", "ready", "failed",
               "cancelled", "purged"}
ComponentRow == [state : {"absent", "awaiting", "receiving", "received", "verified", "cancelled"},
                 attempt : Transfers \cup {Null},
                 blob : Blobs \cup {Null},
                 reserved : Nat,
                 fresh : BOOLEAN]   \* receiving, and begun within one lease period
BlobRow == [state : {"absent", "committed", "tombstoned", "purged"}, size : Nat]

Transfer == [at : {"idle", "streaming", "stored", "stopped", "refused", "aborting"},
             comp : Components \cup {Null}, key : Blobs \cup {Null}]
IdleTransfer == [at |-> "idle", comp |-> Null, key |-> Null]

Output == [mode : {"none", "process", "derive"}, key : Blobs \cup {Null}]
NoOutput == [mode |-> "none", key |-> Null]

NoPurge == [plan |-> {}, unlinked |-> {}]

TypeOK ==
    /\ item \in [Items -> ItemStates]
    /\ comp \in [Components -> ComponentRow]
    /\ blob \in [Blobs -> BlobRow]
    /\ derived \in [Items -> [base : SUBSET Blobs, edit : SUBSET Blobs]]
    /\ refs \subseteq Items \X Holders
    /\ holder \in [Holders -> {"active", "lapsed", "ended"}]
    /\ capacity \in [committed : Nat, reserved : Nat]
    /\ store \subseteq Blobs
    /\ transfer \in [Transfers -> Transfer]
    /\ output \in [Items -> Output]
    /\ purge \in [Purgers -> [plan : SUBSET Blobs, unlinked : SUBSET Blobs]]

Init ==
    /\ item = [i \in Items |-> "absent"]
    /\ comp = [c \in Components |-> [state |-> "absent", attempt |-> Null, blob |-> Null,
                                     reserved |-> 0, fresh |-> FALSE]]
    /\ blob = [b \in Blobs |-> [state |-> "absent", size |-> 0]]
    /\ derived = [i \in Items |-> [base |-> {}, edit |-> {}]]
    /\ refs = {}
    /\ holder = [h \in Holders |-> "active"]
    /\ capacity = [committed |-> 0, reserved |-> 0]
    /\ store = {}
    /\ transfer = [t \in Transfers |-> IdleTransfer]
    /\ output = [i \in Items |-> NoOutput]
    /\ purge = [p \in Purgers |-> NoPurge]

-----------------------------------------------------------------------------
(* adjustCapacity: the counters never drop below zero. *)
AtLeastZero(n) == IF n < 0 THEN 0 ELSE n
AdjustCapacity(committed, reserved) ==
    capacity' = [committed |-> AtLeastZero(capacity.committed + committed),
                 reserved |-> AtLeastZero(capacity.reserved + reserved)]

Fits(bytes) == capacity.committed + capacity.reserved + bytes <= Capacity

Reserved(C) == SumFunctionOnSet([c \in C |-> comp[c].reserved], C)

HoldersOf(i) == {h \in Holders : <<i, h>> \in refs}

(* A file name nobody uses: keys are random. *)
Unused(b) == /\ blob[b].state = "absent" /\ b \notin store
             /\ \A t \in Transfers : transfer[t].key # b
             /\ \A i \in Items : output[i].key # b

CommitBlob(b, size) == blob' = [blob EXCEPT ![b] = [state |-> "committed", size |-> size]]

-----------------------------------------------------------------------------
(* registerItem: the declared bytes and the derivative allowance are        *)
(* reserved, the allowance with the first component.                        *)
RegisterItem(i, h) ==
    LET C == ComponentsOf(i)
        bytes(c) == Size[c] + (IF c = First[i] THEN Allowance[i] ELSE 0)
        total == SumFunctionOnSet(Size, C) + Allowance[i]
    IN /\ item[i] = "absent" /\ holder[h] = "active" /\ Fits(total)
       /\ item' = [item EXCEPT ![i] = "awaiting_upload"]
       /\ comp' = [c \in Components |->
                     IF c \in C THEN [comp[c] EXCEPT !.state = "awaiting", !.reserved = bytes(c)]
                     ELSE comp[c]]
       /\ refs' = refs \cup {<<i, h>>}
       /\ AdjustCapacity(0, total)
       /\ UNCHANGED <<blob, derived, holder, store, transfer, output, purge>>

(* cancelItems: components and items cancelled, reservations and the refs   *)
(* of drafts and sessions released.  `kept` are the refs that are left.     *)
CancelItems(I, kept) ==
    LET C == {c \in Components : ItemOf[c] \in I}
    IN /\ item' = [i \in Items |-> IF i \in I THEN "cancelled" ELSE item[i]]
       /\ comp' = [c \in Components |->
                     IF c \in C THEN [comp[c] EXCEPT !.state = "cancelled", !.attempt = Null,
                                                     !.reserved = 0, !.fresh = FALSE]
                     ELSE comp[c]]
       /\ refs' = {r \in kept : r[1] \notin I}
       /\ AdjustCapacity(0, - Reserved(C))

CancelItem(i) ==
    /\ item[i] \in {"awaiting_upload", "processing", "failed"}
    /\ CancelItems({i}, refs)
    /\ UNCHANGED <<blob, derived, holder, store, transfer, output, purge>>

ResetReserve(c) ==
    (IF comp[c].blob # Null THEN Size[c] ELSE 0)
    + (IF item[ItemOf[c]] = "failed" THEN Allowance[ItemOf[c]] ELSE 0)

ResetComponent(c) ==
    LET i == ItemOf[c]
    IN /\ item[i] \in {"awaiting_upload", "failed"}
       /\ ~ (item[i] = "awaiting_upload" /\ comp[c].state = "awaiting")
       /\ ResetReserve(c) > 0 => Fits(ResetReserve(c))
       /\ comp' = [comp EXCEPT ![c] = [state |-> "awaiting", attempt |-> Null, blob |-> Null,
                                       reserved |-> @.reserved + ResetReserve(c),
                                       fresh |-> FALSE]]
       /\ AdjustCapacity(0, ResetReserve(c))
       /\ item' = [item EXCEPT ![i] = "awaiting_upload"]
       /\ UNCHANGED <<blob, derived, refs, holder, store, transfer, output, purge>>

-----------------------------------------------------------------------------
(* Holders.  A draft's content takes and drops items when it is saved       *)
(* (attachItems, releaseHolderRefs); only live items can be taken.          *)
AttachItem(i, h) ==
    /\ item[i] \notin {"absent", "cancelled", "purged"} /\ holder[h] = "active"
    /\ h \in Drafts /\ <<i, h>> \notin refs
    /\ refs' = refs \cup {<<i, h>>}
    /\ UNCHANGED <<item, comp, blob, derived, holder, capacity, store, transfer, output, purge>>

DetachItem(i, h) ==
    /\ h \in Drafts /\ <<i, h>> \in refs
    /\ refs' = refs \ {<<i, h>>}
    /\ UNCHANGED <<item, comp, blob, derived, holder, capacity, store, transfer, output, purge>>

(* A component of the session's items receives under a transfer that        *)
(* started within one lease period.                                         *)
Streaming(s) == \E c \in Components : /\ <<ItemOf[c], s>> \in refs
                                      /\ comp[c].fresh

LeasePasses(s) ==
    /\ holder[s] = "active"
    /\ holder' = [holder EXCEPT ![s] = "lapsed"]
    /\ UNCHANGED <<item, comp, blob, derived, refs, capacity, store, transfer, output, purge>>

TransferAges(c) ==
    /\ comp[c].fresh
    /\ comp' = [comp EXCEPT ![c].fresh = FALSE]
    /\ UNCHANGED <<item, blob, derived, refs, holder, capacity, store, transfer, output, purge>>

HeartbeatSession(s) ==
    /\ holder[s] = "lapsed" /\ Streaming(s)
    /\ holder' = [holder EXCEPT ![s] = "active"]
    /\ UNCHANGED <<item, comp, blob, derived, refs, capacity, store, transfer, output, purge>>

(* Faulty: items that another holder still has are cancelled as well. *)
EndSession_all_items(s) ==
    LET kept == {r \in refs : r[2] # s}
    IN /\ CancelItems({i \in Items : <<i, s>> \in refs}, kept)
       /\ holder' = [holder EXCEPT ![s] = "ended"]
       /\ UNCHANGED <<blob, derived, store, transfer, output, purge>>

(* endSession: items only the session held are cancelled. *)
EndSession(s) ==
    LET kept == {r \in refs : r[2] # s}
        orphans == {i \in Items : <<i, s>> \in refs /\ \A h \in Holders : <<i, h>> \notin kept}
    IN /\ CancelItems({i \in orphans : item[i] # "purged"}, kept)
       /\ holder' = [holder EXCEPT ![s] = "ended"]
       /\ UNCHANGED <<blob, derived, store, transfer, output, purge>>

DiscardSession(s) == holder[s] \in {"active", "lapsed"} /\ EndSession(s)
ExpireSession(s) == holder[s] = "lapsed" /\ ~ Streaming(s) /\ EndSession(s)

-----------------------------------------------------------------------------
(* uploadComponent: open the fence, stream into the store, commit. *)

SetTransfer(t, at) == transfer' = [transfer EXCEPT ![t].at = at]
EndTransfer(t) == transfer' = [transfer EXCEPT ![t] = IdleTransfer]

(* beginComponentUpload.  A component that is already receiving is taken    *)
(* over (`supersede`) when its transfer does not stream in this process.    *)
BeginUpload(t, c) ==
    /\ transfer[t].at = "idle"
    /\ item[ItemOf[c]] = "awaiting_upload" /\ comp[c].state \in {"awaiting", "receiving"}
    /\ \E h \in HoldersOf(ItemOf[c]) : holder[h] = "active"
    /\ comp' = [comp EXCEPT ![c].state = "receiving", ![c].attempt = t, ![c].fresh = TRUE]
    /\ transfer' = [transfer EXCEPT ![t] = [at |-> "streaming", comp |-> c, key |-> Null]]
    /\ UNCHANGED <<item, blob, derived, refs, holder, capacity, store, output, purge>>

StreamStored(t) == \E b \in Blobs :
    /\ transfer[t].at = "streaming" /\ Unused(b)
    /\ store' = store \cup {b}
    /\ transfer' = [transfer EXCEPT ![t].at = "stored", ![t].key = b]
    /\ UNCHANGED <<item, comp, blob, derived, refs, holder, capacity, output, purge>>

(* Client gone, idle timeout, wrong size, or stopped by a cancel. *)
StreamEnds(t) ==
    /\ transfer[t].at = "streaming"
    /\ SetTransfer(t, "aborting")
    /\ UNCHANGED <<item, comp, blob, derived, refs, holder, capacity, store, output, purge>>

FenceHeld(t) == LET c == transfer[t].comp
                IN comp[c].state = "receiving" /\ comp[c].attempt = t

(* Stopped by a cancel of this process between the last byte and the commit.*)
StoppedAfterStore(t) ==
    /\ transfer[t].at = "stored" /\ ~ FenceHeld(t)
    /\ SetTransfer(t, "stopped")
    /\ UNCHANGED <<item, comp, blob, derived, refs, holder, capacity, store, output, purge>>

(* Faulty: the attempt is not compared, as if only one transfer could run. *)
CommitOutcome_any_attempt(t) ==
    LET c == transfer[t].comp
        i == ItemOf[c]
    IN IF item[i] \in {"cancelled", "purged"} \/ comp[c].state = "cancelled" THEN "cancelled"
       ELSE IF ~ \E h \in HoldersOf(i) : holder[h] \in {"active", "lapsed"} THEN "unheld"
       ELSE IF item[i] # "awaiting_upload" THEN "superseded"
       ELSE "committed"

(* commitComponentUpload. *)
CommitOutcome(t) ==
    LET c == transfer[t].comp
        i == ItemOf[c]
    IN IF item[i] \in {"cancelled", "purged"} \/ comp[c].state = "cancelled" THEN "cancelled"
       ELSE IF ~ \E h \in HoldersOf(i) : holder[h] \in {"active", "lapsed"} THEN "unheld"
       ELSE IF item[i] # "awaiting_upload" \/ ~ FenceHeld(t) THEN "superseded"
       ELSE "committed"

AwaitAgain(t) == comp' = [comp EXCEPT ![transfer[t].comp] =
                            IF FenceHeld(t) THEN [@ EXCEPT !.state = "awaiting", !.attempt = Null,
                                                           !.fresh = FALSE]
                            ELSE @]

RecordUpload(t) ==
    LET c == transfer[t].comp
        i == ItemOf[c]
        moved == IF Size[c] < comp[c].reserved THEN Size[c] ELSE comp[c].reserved
        complete == \A d \in ComponentsOf(i) \ {c} : comp[d].state \in {"received", "verified"}
    IN /\ CommitBlob(transfer[t].key, Size[c])
       /\ comp' = [comp EXCEPT ![c].state = "received", ![c].attempt = Null,
                               ![c].blob = transfer[t].key, ![c].reserved = @ - moved,
                               ![c].fresh = FALSE]
       /\ AdjustCapacity(Size[c], - moved)
       /\ item' = [item EXCEPT ![i] = IF complete THEN "processing" ELSE @]

CommitTransaction(t) ==
    CASE CommitOutcome(t) = "committed" -> RecordUpload(t)
      [] CommitOutcome(t) = "unheld" -> AwaitAgain(t) /\ UNCHANGED <<item, blob, capacity>>
      [] OTHER -> UNCHANGED <<item, comp, blob, capacity>>

CommitUpload(t) ==
    /\ transfer[t].at = "stored"
    /\ CommitTransaction(t)
    /\ IF CommitOutcome(t) = "committed" THEN EndTransfer(t) ELSE SetTransfer(t, "refused")
    /\ UNCHANGED <<derived, refs, holder, store, output, purge>>

(* Faulty: a commit that threw is taken for one that did not happen. *)
CommitUnknown_removes(t) ==
    /\ transfer[t].at = "stored"
    /\ CommitTransaction(t) \/ UNCHANGED <<item, comp, blob, capacity>>
    /\ SetTransfer(t, "stopped")
    /\ UNCHANGED <<derived, refs, holder, store, output, purge>>

(* The call throws: the row may exist, so the file stays. *)
CommitUnknown(t) ==
    /\ transfer[t].at = "stored"
    /\ CommitTransaction(t) \/ UNCHANGED <<item, comp, blob, capacity>>
    /\ SetTransfer(t, "aborting")
    /\ UNCHANGED <<derived, refs, holder, store, output, purge>>

RemoveQuietly(t) ==
    /\ transfer[t].at \in {"stopped", "refused"}
    /\ store' \in {store, store \ {transfer[t].key}}
    /\ IF transfer[t].at = "stopped" THEN SetTransfer(t, "aborting") ELSE EndTransfer(t)
    /\ UNCHANGED <<item, comp, blob, derived, refs, holder, capacity, output, purge>>

AbortUpload(t) ==
    /\ transfer[t].at = "aborting"
    /\ AwaitAgain(t)
    /\ EndTransfer(t)
    /\ UNCHANGED <<item, blob, derived, refs, holder, capacity, store, output, purge>>

(* The process ends: the component stays `receiving`, a file stays behind.  *)
TransferDies(t) ==
    /\ transfer[t].at # "idle"
    /\ EndTransfer(t)
    /\ UNCHANGED <<item, comp, blob, derived, refs, holder, capacity, store, output, purge>>

-----------------------------------------------------------------------------
(* Processing results. *)

ProcessorStores(i) == \E b \in Blobs :
    /\ item[i] \in {"processing", "ready"} /\ output[i] = NoOutput /\ Unused(b)
    /\ store' = store \cup {b}
    /\ output' = [output EXCEPT ![i] =
                    [mode |-> IF item[i] = "processing" THEN "process" ELSE "derive", key |-> b]]
    /\ UNCHANGED <<item, comp, blob, derived, refs, holder, capacity, transfer, purge>>

Released(i) == [c \in Components |-> IF ItemOf[c] = i THEN [comp[c] EXCEPT !.reserved = 0] ELSE comp[c]]

(* markItemReady of an item that is still processing. *)
MarkItemReady(i) ==
    /\ output[i].mode = "process" /\ item[i] = "processing"
    /\ CommitBlob(output[i].key, DerivedSize)
    /\ derived' = [derived EXCEPT ![i].base = {output[i].key}]
    /\ item' = [item EXCEPT ![i] = "ready"]
    /\ comp' = [c \in Components |->
                  IF ItemOf[c] = i /\ comp[c].state = "received"
                  THEN [Released(i)[c] EXCEPT !.state = "verified"] ELSE Released(i)[c]]
    /\ AdjustCapacity(DerivedSize, - Reserved(ComponentsOf(i)))
    /\ output' = [output EXCEPT ![i] = NoOutput]
    /\ UNCHANGED <<refs, holder, store, transfer, purge>>

(* recordDerivatives of a ready item: an edit that is recorded already with *)
(* another blob is a duplicate and discarded.                               *)
RecordDerivatives(i) ==
    /\ output[i].mode = "derive" /\ item[i] = "ready" /\ derived[i].edit = {}
    /\ CommitBlob(output[i].key, DerivedSize)
    /\ derived' = [derived EXCEPT ![i].edit = {output[i].key}]
    /\ AdjustCapacity(DerivedSize, 0)
    /\ output' = [output EXCEPT ![i] = NoOutput]
    /\ UNCHANGED <<item, comp, refs, holder, store, transfer, purge>>

(* Discarded by either, thrown away after an abort, or left behind.         *)
DropOutput(i) ==
    /\ output[i] # NoOutput
    /\ store' \in {store, store \ {output[i].key}}
    /\ output' = [output EXCEPT ![i] = NoOutput]
    /\ UNCHANGED <<item, comp, blob, derived, refs, holder, capacity, transfer, purge>>

MarkItemFailed(i) ==
    /\ item[i] = "processing"
    /\ item' = [item EXCEPT ![i] = "failed"]
    /\ comp' = Released(i)
    /\ AdjustCapacity(0, - Reserved(ComponentsOf(i)))
    /\ UNCHANGED <<blob, derived, refs, holder, store, transfer, output, purge>>

(* releaseUnusedDerivatives: an edit no content of a holder needs any more. *)
ReleaseDerivative(i) ==
    /\ item[i] = "ready" /\ derived[i].edit # {}
    /\ \A h \in HoldersOf(i) : h \notin Sessions
    /\ derived' = [derived EXCEPT ![i].edit = {}]
    /\ UNCHANGED <<item, comp, blob, refs, holder, capacity, store, transfer, output, purge>>

-----------------------------------------------------------------------------
(* Purge: tombstone in one transaction, unlink, confirm in another. *)

Uses(i) == derived[i].base \cup derived[i].edit
           \cup {comp[c].blob : c \in {d \in ComponentsOf(i) : comp[d].blob # Null}}

Tombstone(B) == blob' = [b \in Blobs |-> IF b \in B /\ blob[b].state = "committed"
                                         THEN [blob[b] EXCEPT !.state = "tombstoned"] ELSE blob[b]]

PurgeItem(p, i) ==
    LET planned == {b \in Uses(i) : blob[b].state \in {"committed", "tombstoned"}}
    IN /\ purge[p] = NoPurge
       /\ item[i] \notin {"absent", "purged"} /\ HoldersOf(i) = {}
       /\ Tombstone(planned)
       /\ comp' = [c \in Components |->
                     IF ItemOf[c] = i /\ comp[c].state \in {"awaiting", "receiving"}
                     THEN [Released(i)[c] EXCEPT !.state = "cancelled", !.attempt = Null]
                     ELSE Released(i)[c]]
       /\ AdjustCapacity(0, - Reserved(ComponentsOf(i)))
       /\ item' = [item EXCEPT ![i] = "purged"]
       /\ purge' = [purge EXCEPT ![p].plan = planned]
       /\ UNCHANGED <<derived, refs, holder, store, transfer, output>>

PurgeBlob(p, b) ==
    /\ purge[p] = NoPurge
    /\ \/ blob[b].state = "tombstoned"
       \/ blob[b].state = "committed" /\ \A i \in Items : item[i] # "purged" => b \notin Uses(i)
    /\ Tombstone({b})
    /\ purge' = [purge EXCEPT ![p].plan = {b}]
    /\ UNCHANGED <<item, comp, derived, refs, holder, capacity, store, transfer, output>>

(* finishPurge *)
Unlink(p, b) ==
    /\ b \in purge[p].plan \ purge[p].unlinked
    /\ store' = store \ {b}
    /\ purge' = [purge EXCEPT ![p].unlinked = @ \cup {b}]
    /\ UNCHANGED <<item, comp, blob, derived, refs, holder, capacity, transfer, output>>

(* Faulty: a blob another purge confirmed already is confirmed again. *)
ConfirmPurged_twice(p) ==
    LET gone == purge[p].unlinked
    IN /\ gone # {}
       /\ blob' = [b \in Blobs |-> IF b \in gone THEN [blob[b] EXCEPT !.state = "purged"] ELSE blob[b]]
       /\ AdjustCapacity(- SumFunctionOnSet([b \in gone |-> blob[b].size], gone), 0)
       /\ purge' = [purge EXCEPT ![p] = NoPurge]
       /\ UNCHANGED <<item, comp, derived, refs, holder, store, transfer, output>>

ConfirmPurged(p) ==
    LET gone == {b \in purge[p].unlinked : blob[b].state = "tombstoned"}
    IN /\ purge[p].unlinked # {}
       /\ blob' = [b \in Blobs |-> IF b \in gone THEN [blob[b] EXCEPT !.state = "purged"] ELSE blob[b]]
       /\ AdjustCapacity(- SumFunctionOnSet([b \in gone |-> blob[b].size], gone), 0)
       /\ purge' = [purge EXCEPT ![p] = NoPurge]
       /\ UNCHANGED <<item, comp, derived, refs, holder, store, transfer, output>>

PurgeDies(p) ==
    /\ purge[p] # NoPurge
    /\ purge' = [purge EXCEPT ![p] = NoPurge]
    /\ UNCHANGED <<item, comp, blob, derived, refs, holder, capacity, store, transfer, output>>

(* reconcileStore: a file without a row that is older than the orphan grace.*)
(* A transfer or a job that still has a use for it is far younger.          *)
InFlight(b) == \/ \E t \in Transfers : transfer[t].key = b
               \/ \E i \in Items : output[i].key = b

ReconcileStore(b) ==
    /\ b \in store /\ blob[b].state = "absent" /\ ~ InFlight(b)
    /\ store' = store \ {b}
    /\ UNCHANGED <<item, comp, blob, derived, refs, holder, capacity, transfer, output, purge>>

-----------------------------------------------------------------------------
UploadStep(t) ==
    \/ \E c \in Components : BeginUpload(t, c)
    \/ StreamStored(t) \/ StreamEnds(t) \/ StoppedAfterStore(t)
    \/ CommitUpload(t) \/ CommitUnknown(t) \/ RemoveQuietly(t) \/ AbortUpload(t)
    \/ TransferDies(t)

ItemStep(i) ==
    \/ CancelItem(i)
    \/ \E h \in Holders : RegisterItem(i, h) \/ AttachItem(i, h) \/ DetachItem(i, h)
    \/ ProcessorStores(i) \/ MarkItemReady(i) \/ RecordDerivatives(i) \/ DropOutput(i)
    \/ MarkItemFailed(i) \/ ReleaseDerivative(i)

SessionStep(s) == LeasePasses(s) \/ HeartbeatSession(s) \/ DiscardSession(s) \/ ExpireSession(s)

PurgeStep(p) ==
    \/ \E i \in Items : PurgeItem(p, i)
    \/ \E b \in Blobs : PurgeBlob(p, b) \/ Unlink(p, b)
    \/ ConfirmPurged(p) \/ PurgeDies(p)

Next ==
    \/ \E i \in Items : ItemStep(i)
    \/ \E c \in Components : ResetComponent(c) \/ TransferAges(c)
    \/ \E t \in Transfers : UploadStep(t)
    \/ \E s \in Sessions : SessionStep(s)
    \/ \E p \in Purgers : PurgeStep(p)
    \/ \E b \in Blobs : ReconcileStore(b)

Spec == Init /\ [][Next]_vars

-----------------------------------------------------------------------------
(* The counters of the account are what the rows add up to, so clamping at  *)
(* zero never hides a wrong release: committed bytes until the purge is     *)
(* confirmed, exactly once, and the reservations of open components.  A      *)
(* component that can still be uploaded has its bytes reserved, through      *)
(* every failure, reset and replacement, so its commit never exceeds what    *)
(* registration and reset checked.                                          *)
CapacityIsExact ==
    /\ capacity.committed =
         LET B == {b \in Blobs : blob[b].state \in {"committed", "tombstoned"}}
         IN SumFunctionOnSet([b \in B |-> blob[b].size], B)
    /\ capacity.reserved = Reserved(Components)
    /\ \A c \in Components :
          item[ItemOf[c]] = "awaiting_upload" /\ comp[c].state \in {"awaiting", "receiving"}
              => comp[c].reserved >= Size[c]

(* Rows and files agree, however transfers, resets, retried purges and      *)
(* reconciliation interleave.  What an item names can be read: until the    *)
(* item is purged, its source and derivative blobs are committed and their  *)
(* files are in the store.  A confirmed purge left no file behind.          *)
BlobsMatchTheStore ==
    /\ \A i \in Items : item[i] # "purged" =>
          \A b \in Uses(i) : blob[b].state = "committed" /\ b \in store
    /\ \A b \in Blobs : blob[b].state = "purged" => b \notin store

(* The bytes of a component are replaced only through a reset: a superseded *)
(* or repeated transfer never overwrites what another one committed.        *)
CommittedBytesStay == [][\A c \in Components :
    comp[c].blob # Null => comp'[c].blob \in {comp[c].blob, Null}]_vars

(* Work that is finished is not taken away from whoever uses it: no expiry, *)
(* discard or purge touches a ready item that a draft, or a session that    *)
(* stays active, holds.                                                     *)
HeldItemsSurvive == [][\A i \in Items : \A h \in HoldersOf(i) :
    item[i] = "ready" /\ (h \in Drafts \/ (holder[h] # "ended" /\ holder'[h] # "ended"))
        => item'[i] = "ready"]_vars
=============================================================================
