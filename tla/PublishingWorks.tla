--------------------------- MODULE PublishingWorks ---------------------------
(***************************************************************************)
(* The works of one author (community-postgres, publishing/submissions.ts,  *)
(* works.ts, operator.ts, content-operator-adapter.ts): submissions with    *)
(* their receipts, the revisions of a work and the one others see,          *)
(* visibility, deletion, edit drafts, and the moderators' decisions.        *)
(*                                                                          *)
(* An author command locks the author's account and then the rows it uses,  *)
(* an operator command the same work, so each command is one action.  A     *)
(* command that is refused (a conflict, an unknown row, a limit, an item    *)
(* that is not ready) is rolled back without a receipt and is no step.      *)
(*                                                                          *)
(* A submission carries its request id and what the editor knew when it was *)
(* sent; it may arrive late, after any other command, and more than once.   *)
(* A moderator decides on what a page showed earlier.                       *)
(***************************************************************************)
EXTENDS Integers, Sequences, FiniteSets

CONSTANTS
    Works,         \* ids of works
    Drafts,        \* ids of saved drafts
    Sessions,      \* ids of unsaved publishing sessions
    Requests,      \* request ids of submissions
    Contents,      \* submitted or saved contents
    Items,         \* media items
    ItemsOf,       \* the items a content names
    HistoryLimit,  \* settings.historyLimit
    MaxVersion,    \* bound: the version a work may reach
    Null           \* NULL

Holders == Drafts \cup Sessions

ASSUME WorksAssumption ==
    /\ ItemsOf \in [Contents -> SUBSET Items]
    /\ HistoryLimit \in Nat \ {0}
    /\ MaxVersion \in Nat
    /\ Drafts \cap Sessions = {}
    /\ Null \notin Works
    /\ Null \notin Requests

VARIABLES
    works,      \* community.works
    revisions,  \* community.work_revisions of each work, by sequence
    holders,    \* work_drafts and publishing_sessions, with their item refs
    snapshots,  \* work_draft_snapshots of each work's lineage
    items,      \* the state of the media items
    receipts,   \* author_command_receipts of submissions
    policy,     \* settings.policy
    page,       \* what the moderator's page shows
    changes     \* history: author commands that changed a work

vars == <<works, revisions, holders, snapshots, items, receipts, policy, page,
          changes>>

-----------------------------------------------------------------------------
(* The rows. *)

Visibility == {"public", "self"}
Disposition == {"not_required", "pending", "approved", "rejected", "superseded", "withdrawn"}
OperatorState == {"visible", "hidden", "removed"}

WorkRow == [state : {"none", "live", "deleted"}, visibility : Visibility,
            author : Nat, public : Nat, edited : Nat, operator : OperatorState,
            version : Nat]
RevisionRow == [content : Contents, requested : Visibility,
                disposition : Disposition, version : Nat, base : Nat,
                request : Requests]
HolderRow == [state : {"none", "active", "submitted", "ended"},
              work : Works \cup {Null}, base : Nat,
              content : Contents \cup {Null}, held : SUBSET Items]
SnapshotRow == [at : Nat, kind : {"submitted", "conflict"}, content : Contents,
                pinned : BOOLEAN, held : SUBSET Items]
Command == [request : Requests, holder : Holders, content : Contents,
            visibility : Visibility, base : Nat]
ReceiptRow == [command : Command, work : Works, revision : Nat]

NoWork == [state |-> "none", visibility |-> "self", author |-> 0, public |-> 0,
           edited |-> 0, operator |-> "visible", version |-> 0]
NoHolder == [state |-> "none", work |-> Null, base |-> 0, content |-> Null, held |-> {}]

(* Pages a moderator may have read: the revision and version of a pending    *)
(* submission, or the version of a work (revision 0).                       *)
PageRow == [work : Works, revision : Nat, version : Nat, changes : Nat]

ASSUME NullAssumption == Null \notin ReceiptRow /\ Null \notin PageRow /\ Null \notin Command

IsDraft(h) == h \in Drafts
Live(w) == works[w].state = "live"
Editable(w) == Live(w) /\ works[w].operator # "removed"

-----------------------------------------------------------------------------
(* Helpers of the transactions. *)

(* closePendingRevisions: pending ones other than `keep` get `disposition`. *)
ClosePending(revs, disposition, keep) ==
    [n \in DOMAIN revs |->
        IF revs[n].disposition = "pending" /\ n # keep
        THEN [revs[n] EXCEPT !.disposition = disposition, !.version = @ + 1]
        ELSE revs[n]]

(* The disposition of one revision is set and its version counts. *)
Disposed(revs, n, disposition) ==
    [revs EXCEPT ![n].disposition = disposition, ![n].version = @ + 1]

(* The content an approved revision n is compared with: that of another      *)
(* public revision, or of the latest other approved one when none is public.*)
ComparedWith(row, revs, n) ==
    LET approved == {m \in DOMAIN revs \ {n} : revs[m].disposition = "approved"}
    IN IF row.public \notin {0, n} THEN revs[row.public].content
       ELSE IF row.public = 0 /\ approved # {}
       THEN revs[CHOOSE m \in approved : \A k \in approved : k <= m].content
       ELSE revs[n].content

(* Faulty: the revision is approved, and the one others see stays. *)
ApplyPublic_kept(row, revs, n) == [row EXCEPT !.visibility = "public",
                                              !.public = IF @ = 0 THEN n ELSE @]

(* applyPublicRevision: the revision is what others see; `edited` counts the *)
(* times edited_at was set.                                                 *)
ApplyPublic(row, revs, n) ==
    [row EXCEPT !.public = n, !.visibility = "public",
                !.edited = IF revs[n].content = ComparedWith(row, revs, n) THEN @ ELSE @ + 1]

(* withholdReplacedPublicRevision. *)
Withhold(row) == [row EXCEPT !.public = 0]

(* touchWork. *)
Touch(row) == [row EXCEPT !.version = @ + 1]

(* assertOwnedItems: the items exist, in whatever state. *)
Owned(content) == \A i \in ItemsOf[content] : items[i] # "new"

(* attachItems: refs only to items that are not cancelled. *)
Attachable(content) == {i \in ItemsOf[content] : items[i] \in {"uploading", "ready"}}

(* trimHistory: the newest unpinned snapshots stay, with every pinned one. *)
TrimHistory(rows) ==
    {s \in rows : \/ s.pinned
                  \/ Cardinality({t \in rows : ~ t.pinned /\ t.at > s.at}) < HistoryLimit}

(* Faulty: the refs of revisions are not looked at. *)
Referenced_holders(i, hs, rs, ss) ==
    \/ \E h \in Holders : i \in hs[h].held
    \/ \E w \in Works : \E s \in ss[w] : i \in s.held

(* media_item_refs of an item by drafts and sessions, revisions, snapshots. *)
Referenced(i, hs, rs, ss) ==
    \/ \E h \in Holders : i \in hs[h].held
    \/ \E w \in Works : \E n \in DOMAIN rs[w] : i \in ItemsOf[rs[w][n].content]
    \/ \E w \in Works : \E s \in ss[w] : i \in s.held

(* cancelItems with onlyUnreferenced, after the refs were released. *)
CancelUnreferenced(released, hs, rs, ss) ==
    [i \in Items |-> IF i \in released /\ ~ Referenced(i, hs, rs, ss)
                     THEN "gone" ELSE items[i]]

-----------------------------------------------------------------------------
Init == /\ works = [w \in Works |-> NoWork]
        /\ revisions = [w \in Works |-> <<>>]
        /\ holders = [h \in Holders |-> NoHolder]
        /\ snapshots = [w \in Works |-> {}]
        /\ items = [i \in Items |-> "new"]
        /\ receipts = [r \in Requests |-> Null]
        /\ policy \in {"direct", "review"}
        /\ page = Null
        /\ changes = [w \in Works |-> 0]

(* createDraft: a draft of a new work. *)
CreateDraft(h, content) ==
    /\ IsDraft(h) /\ holders[h].state = "none"
    /\ Owned(content)
    /\ holders' = [holders EXCEPT ![h] =
                     [state |-> "active", work |-> Null, base |-> 0,
                      content |-> content, held |-> Attachable(content)]]
    /\ UNCHANGED <<works, revisions, snapshots, items, receipts, policy, page, changes>>

(* createSession: for a new work, or for one that can be edited. *)
CreateSession(h, work) ==
    /\ ~ IsDraft(h) /\ holders[h].state = "none"
    /\ work # Null => Editable(work)
    /\ holders' = [holders EXCEPT ![h] =
                     [NoHolder EXCEPT !.state = "active", !.work = work]]
    /\ UNCHANGED <<works, revisions, snapshots, items, receipts, policy, page, changes>>

(* openEditDraft: the work's active draft if it has one (no change), else a  *)
(* new draft on the author's current revision.                              *)
OpenEditDraft(h, w) ==
    /\ IsDraft(h) /\ holders[h].state = "none"
    /\ Editable(w) /\ works[w].author # 0
    /\ ~ \E d \in Drafts : holders[d].state = "active" /\ holders[d].work = w
    /\ LET content == revisions[w][works[w].author].content
       IN holders' = [holders EXCEPT ![h] =
                        [state |-> "active", work |-> w, base |-> works[w].author,
                         content |-> content, held |-> Attachable(content)]]
    /\ UNCHANGED <<works, revisions, snapshots, items, receipts, policy, page, changes>>

(* saveDraft on the current revision: content and refs follow. *)
SaveDraft(h, content) ==
    /\ IsDraft(h) /\ holders[h].state = "active"
    /\ Owned(content)
    /\ holders' = [holders EXCEPT ![h].content = content,
                                  ![h].held = (@ \cup Attachable(content))
                                                \ (ItemsOf[holders[h].content] \ ItemsOf[content])]
    /\ UNCHANGED <<works, revisions, snapshots, items, receipts, policy, page, changes>>

(* registerItem, and the upload and processing that make it ready. *)
RegisterItem(h, i) ==
    /\ holders[h].state = "active"
    /\ items[i] = "new"
    /\ items' = [items EXCEPT ![i] = "uploading"]
    /\ holders' = [holders EXCEPT ![h].held = @ \cup {i}]
    /\ UNCHANGED <<works, revisions, snapshots, receipts, policy, page, changes>>

SettleItem(i) ==
    /\ items[i] = "uploading"
    /\ items' = [items EXCEPT ![i] = "ready"]
    /\ UNCHANGED <<works, revisions, holders, snapshots, receipts, policy, page, changes>>

(* cancelItem: only an item that is not ready and no revision holds; the     *)
(* refs of drafts and sessions go.                                          *)
CancelItem(i) ==
    /\ items[i] = "uploading"
    /\ ~ \E w \in Works : \E n \in DOMAIN revisions[w] : i \in ItemsOf[revisions[w][n].content]
    /\ items' = [items EXCEPT ![i] = "gone"]
    /\ holders' = [h \in Holders |-> [holders[h] EXCEPT !.held = @ \ {i}]]
    /\ UNCHANGED <<works, revisions, snapshots, receipts, policy, page, changes>>

(* deleteDraft of an unsubmitted draft, discardSession and expireSession:    *)
(* the refs go and what nothing else holds is cancelled.                    *)
EndHolder(h) ==
    /\ holders[h].state = "active"
    /\ LET ended == [holders EXCEPT ![h].state = "ended", ![h].held = {}]
       IN /\ holders' = ended
          /\ items' = CancelUnreferenced(holders[h].held, ended, revisions, snapshots)
    /\ UNCHANGED <<works, revisions, snapshots, receipts, policy, page, changes>>

-----------------------------------------------------------------------------
(* submit. *)

(* Faulty: only a work that can be edited is checked, not its revision. *)
BaseIsCurrent_unchecked(command) ==
    LET holder == holders[command.holder]
    IN holder.work # Null => Editable(holder.work) /\ command.base <= works[holder.work].author

(* The command is not refused: the holder has not moved on, the work has not *)
(* changed since this edit started, and every item is ready.                *)
BaseIsCurrent(command) ==
    LET holder == holders[command.holder]
    IN IF holder.work = Null
       THEN command.base = 0
       ELSE /\ Editable(holder.work)
            /\ command.base = works[holder.work].author
            /\ IsDraft(command.holder) => holder.base = works[holder.work].author

(* Faulty: a request with a receipt, or a submitted holder, is run again. *)
Accepted_again(command) ==
    /\ holders[command.holder].state \in {"active", "submitted"}
    /\ \A i \in ItemsOf[command.content] : items[i] = "ready"
    /\ BaseIsCurrent(command)

ItemsReady(command) == \A i \in ItemsOf[command.content] : items[i] = "ready"

Accepted(command) == /\ receipts[command.request] = Null
                     /\ holders[command.holder].state = "active"
                     /\ BaseIsCurrent(command)
                     /\ ItemsReady(command)

SubmittedDisposition(command) ==
    IF command.visibility = "self" THEN "not_required"
    ELSE IF policy = "direct" THEN "approved" ELSE "pending"

(* What the command closes, and the revision it writes. *)
SubmittedRevisions(command, w) ==
    Append(ClosePending(revisions[w],
                        IF command.visibility = "self" THEN "withdrawn" ELSE "superseded", 0),
           [content |-> command.content, requested |-> command.visibility,
            disposition |-> SubmittedDisposition(command), version |-> 1,
            base |-> command.base, request |-> command.request])

(* The work's row: a new work has version 1, an existing one is touched. *)
SubmittedWork(command, w) ==
    LET n == Len(revisions[w]) + 1
        old == works[w]
        written == [old EXCEPT !.state = "live", !.author = n,
                               !.visibility = command.visibility,
                               !.version = @ + 1]
    IN CASE SubmittedDisposition(command) = "approved" ->
              ApplyPublic(written, SubmittedRevisions(command, w), n)
         [] SubmittedDisposition(command) = "pending" /\ old.visibility = "self" -> Withhold(written)
         [] OTHER -> written

(* Faulty: the conflict snapshot is not pinned. *)
Snapshot_unpinned(n, kind, content) ==
    [at |-> n, kind |-> kind, content |-> content, pinned |-> FALSE,
     held |-> Attachable(content)]

(* transferHolder: a draft leaves a snapshot of what was submitted, and a    *)
(* pinned one of its stored content when that differs.                      *)
Snapshot(n, kind, content) ==
    [at |-> n, kind |-> kind, content |-> content, pinned |-> kind = "conflict",
     held |-> Attachable(content)]

TransferSnapshots(command, w) ==
    LET n == Len(revisions[w]) + 1
        stored == holders[command.holder].content
    IN IF ~ IsDraft(command.holder) THEN snapshots[w]
       ELSE TrimHistory(
              snapshots[w]
                \cup {Snapshot(n, "submitted", command.content)}
                \cup (IF stored = command.content THEN {}
                      ELSE {Snapshot(n, "conflict", stored)}))

(* A submission that is accepted; w is the holder's work or a new one.  A    *)
(* draft's released items are only queued for the orphan check.             *)
SubmitTo(command, w) ==
    /\ Accepted(command)
    /\ IF holders[command.holder].work = Null THEN works[w].state = "none"
       ELSE w = holders[command.holder].work
    /\ works[w].version < MaxVersion
    /\ LET h == command.holder
           n == Len(revisions[w]) + 1
           moved == [holders EXCEPT ![h].state = "submitted", ![h].held = {},
                                    ![h].work = IF IsDraft(h) THEN w ELSE @]
       IN /\ works' = [works EXCEPT ![w] = SubmittedWork(command, w)]
          /\ revisions' = [revisions EXCEPT ![w] = SubmittedRevisions(command, w)]
          /\ holders' = moved
          /\ snapshots' = [snapshots EXCEPT ![w] = TransferSnapshots(command, w)]
          /\ items' = IF IsDraft(h) THEN items
                      ELSE CancelUnreferenced(holders[h].held, moved, revisions', snapshots')
          /\ receipts' = [receipts EXCEPT ![command.request] =
                            [command |-> command, work |-> w, revision |-> n]]
          /\ changes' = [changes EXCEPT ![w] = @ + 1]
    /\ UNCHANGED <<policy, page>>

Submit(command) == \E w \in Works : SubmitTo(command, w)

-----------------------------------------------------------------------------
(* setVisibility. *)

(* To self: what was asked of the moderators is withdrawn. *)
HideWork(w) ==
    /\ Editable(w)
    /\ works[w].version < MaxVersion
    /\ revisions' = [revisions EXCEPT ![w] = ClosePending(@, "withdrawn", 0)]
    /\ IF works[w].visibility = "self" THEN UNCHANGED <<works, changes>>
       ELSE /\ works' = [works EXCEPT ![w] = Touch([@ EXCEPT !.visibility = "self"])]
            /\ changes' = [changes EXCEPT ![w] = @ + 1]
    /\ UNCHANGED <<holders, snapshots, items, receipts, policy, page>>

(* The author's revision asks for publication again. *)
Reopened(revs, n) ==
    IF revs[n].disposition = "pending" THEN revs ELSE Disposed(revs, n, "pending")

(* To public: by the policy of now the author's revision is approved, or     *)
(* asked for again and hidden until it is approved.                         *)
PublishWork(w) ==
    /\ Editable(w)
    /\ works[w].version < MaxVersion
    /\ works[w].visibility = "self"
    /\ works[w].author # 0
    /\ LET n == works[w].author
           closed == ClosePending(revisions[w], "superseded", n)
       IN IF policy = "direct"
          THEN /\ revisions' = [revisions EXCEPT ![w] = Disposed(closed, n, "approved")]
               /\ works' = [works EXCEPT ![w] = Touch(ApplyPublic(@, revisions'[w], n))]
          ELSE /\ revisions' = [revisions EXCEPT ![w] = Reopened(closed, n)]
               /\ works' = [works EXCEPT ![w] = Touch(Withhold([@ EXCEPT !.visibility = "public"]))]
    /\ changes' = [changes EXCEPT ![w] = @ + 1]
    /\ UNCHANGED <<holders, snapshots, items, receipts, policy, page>>

(* deleteWork: a tombstone stays; drafts, history and revisions go, open     *)
(* sessions end, and media nothing else holds is cancelled.  Receipts of    *)
(* submissions hold no content and stay.                                    *)
HoldersOf(w) == {h \in Holders : holders[h].work = w}

DeleteWork(w) ==
    /\ Live(w)
    /\ works[w].version < MaxVersion
    /\ LET ended == [h \in Holders |->
                       IF h \notin HoldersOf(w) THEN holders[h]
                       ELSE IF IsDraft(h)
                       THEN [NoHolder EXCEPT !.state = "ended"]
                       ELSE [holders[h] EXCEPT !.held = {},
                               !.state = IF @ = "active" THEN "ended" ELSE @]]
           released == UNION {holders[h].held : h \in HoldersOf(w)}
                         \cup UNION {ItemsOf[revisions[w][n].content] : n \in DOMAIN revisions[w]}
                         \cup UNION {s.held : s \in snapshots[w]}
       IN /\ holders' = ended
          /\ revisions' = [revisions EXCEPT ![w] = <<>>]
          /\ snapshots' = [snapshots EXCEPT ![w] = {}]
          /\ items' = CancelUnreferenced(released, ended, revisions', snapshots')
    /\ works' = [works EXCEPT ![w] = Touch([@ EXCEPT !.state = "deleted", !.public = 0,
                                            !.author = 0, !.visibility = "self"])]
    /\ changes' = [changes EXCEPT ![w] = @ + 1]
    /\ UNCHANGED <<receipts, policy, page>>

-----------------------------------------------------------------------------
(* The moderators. *)

(* setSettings. *)
SetPolicy(next) ==
    /\ policy # next
    /\ policy' = next
    /\ UNCHANGED <<works, revisions, holders, snapshots, items, receipts, page, changes>>

(* readSubmission of a pending submission, and readWorks. *)
ReadSubmission(w, n) ==
    /\ n \in DOMAIN revisions[w]
    /\ revisions[w][n].disposition = "pending"
    /\ page' = [work |-> w, revision |-> n, version |-> revisions[w][n].version,
                changes |-> changes[w]]
    /\ UNCHANGED <<works, revisions, holders, snapshots, items, receipts, policy, changes>>

ReadWork(w) ==
    /\ works[w].state # "none"
    /\ page' = [work |-> w, revision |-> 0, version |-> works[w].version,
                changes |-> changes[w]]
    /\ UNCHANGED <<works, revisions, holders, snapshots, items, receipts, policy, changes>>

(* Faulty: the version that was read is not compared. *)
Decidable_unversioned(w, n, version) ==
    /\ Live(w)
    /\ n \in DOMAIN revisions[w]
    /\ revisions[w][n].disposition = "pending"
    /\ works[w].author = n

(* moderateSubmission: only the pending latest submission in the version     *)
(* that was read.  A hidden or removed work can be decided on as well.      *)
Decidable(w, n, version) ==
    /\ Live(w)
    /\ n \in DOMAIN revisions[w]
    /\ revisions[w][n].disposition = "pending"
    /\ works[w].author = n
    /\ revisions[w][n].version = version

Approve ==
    /\ page # Null /\ page.revision # 0
    /\ Decidable(page.work, page.revision, page.version)
    /\ works[page.work].version < MaxVersion
    /\ revisions' = [revisions EXCEPT ![page.work] = Disposed(@, page.revision, "approved")]
    /\ works' = [works EXCEPT ![page.work] = Touch(ApplyPublic(@, revisions'[page.work], page.revision))]
    /\ page' = Null
    /\ UNCHANGED <<holders, snapshots, items, receipts, policy, changes>>

Reject ==
    /\ page # Null /\ page.revision # 0
    /\ Decidable(page.work, page.revision, page.version)
    /\ revisions' = [revisions EXCEPT ![page.work] = Disposed(@, page.revision, "rejected")]
    /\ page' = Null
    /\ UNCHANGED <<works, holders, snapshots, items, receipts, policy, changes>>

(* moderateWork: only a work in the version that was read. *)
ModerateWork(state) ==
    /\ page # Null /\ page.revision = 0
    /\ Live(page.work)
    /\ works[page.work].version = page.version
    /\ works[page.work].operator # state
    /\ works[page.work].version < MaxVersion
    /\ works' = [works EXCEPT ![page.work] = Touch([@ EXCEPT !.operator = state])]
    /\ page' = Null
    /\ UNCHANGED <<revisions, holders, snapshots, items, receipts, policy, changes>>

-----------------------------------------------------------------------------
AuthorStep ==
    \/ \E h \in Holders, content \in Contents :
          CreateDraft(h, content) \/ SaveDraft(h, content)
    \/ \E h \in Holders : \E work \in Works \cup {Null} : CreateSession(h, work)
    \/ \E h \in Holders, w \in Works : OpenEditDraft(h, w)
    \/ \E h \in Holders, i \in Items : RegisterItem(h, i)
    \/ \E i \in Items : SettleItem(i) \/ CancelItem(i)
    \/ \E h \in Holders : EndHolder(h)
    \/ \E w \in Works : HideWork(w) \/ PublishWork(w) \/ DeleteWork(w)

OperatorStep ==
    \/ \E next \in {"direct", "review"} : SetPolicy(next)
    \/ \E w \in Works : ReadWork(w) \/ \E n \in DOMAIN revisions[w] : ReadSubmission(w, n)
    \/ Approve \/ Reject
    \/ \E state \in OperatorState : ModerateWork(state)

(* The commands an editor may have sent: its base is some earlier revision.  *)
Bases == 0..MaxVersion
SentCommands == [request : Requests, holder : Holders, content : Contents,
                 visibility : Visibility, base : Bases]

Next == AuthorStep \/ OperatorStep \/ \E command \in SentCommands : Submit(command)

Spec == Init /\ [][Next]_vars

-----------------------------------------------------------------------------
(* Properties. *)

(* Rows keep their types, and every reference of a work names a revision of *)
(* it (community.works, work_revisions and the other tables).               *)
TypeOK ==
    /\ works \in [Works -> WorkRow]
    /\ revisions \in [Works -> Seq(RevisionRow)]
    /\ \A w \in Works : works[w].author = Len(revisions[w]) /\ works[w].public <= works[w].author
    /\ holders \in [Holders -> HolderRow]
    /\ snapshots \in [Works -> SUBSET SnapshotRow]
    /\ items \in [Items -> {"new", "uploading", "ready", "gone"}]
    /\ receipts \in [Requests -> ReceiptRow \cup {Null}]
    /\ policy \in {"direct", "review"}
    /\ page \in PageRow \cup {Null}
    /\ changes \in [Works -> Nat]

(* What others see was approved and is the newest that ever was, however    *)
(* submissions, visibility changes, policy changes and decisions follow one *)
(* another (applyPublicRevision, withholdReplacedPublicRevision); what      *)
(* waits for a moderator is what the author wants published now, the latest *)
(* revision of a public work (closePendingRevisions).                       *)
PublicAndPendingAreCurrent ==
    \A w \in Works :
        /\ works[w].public # 0 => revisions[w][works[w].public].disposition = "approved"
        /\ \A n \in DOMAIN revisions[w] :
              /\ revisions[w][n].disposition = "approved" /\ works[w].public # 0
                    => n <= works[w].public
              /\ revisions[w][n].disposition = "pending"
                    => n = works[w].author /\ works[w].visibility = "public"

(* A holder is submitted once and a request once: each revision is that of  *)
(* one receipt and each receipt that of one revision, unless its work was   *)
(* deleted, whatever is sent again after a lost answer (authorCommand).     *)
SubmittedOnce ==
    /\ \A w \in Works : \A n \in DOMAIN revisions[w] :
          LET receipt == receipts[revisions[w][n].request]
          IN receipt # Null /\ receipt.work = w /\ receipt.revision = n
    /\ \A r \in Requests : receipts[r] # Null =>
          LET receipt == receipts[r]
          IN \/ works[receipt.work].state = "deleted"
             \/ /\ receipt.revision \in DOMAIN revisions[receipt.work]
                /\ revisions[receipt.work][receipt.revision].request = r
    /\ \A r, s \in Requests :
          /\ receipts[r] # Null /\ receipts[s] # Null
          /\ receipts[r].command.holder = receipts[s].command.holder
          => r = s

(* The content a draft held when it was submitted stays reachable: it was   *)
(* submitted, or a pinned snapshot of the work keeps it (transferHolder).   *)
StoredInputIsKept ==
    \A h \in Drafts : holders[h].state = "submitted" =>
        LET w == holders[h].work
        IN \/ \E n \in DOMAIN revisions[w] : revisions[w][n].content = holders[h].content
           \/ \E s \in snapshots[w] : s.pinned /\ s.content = holders[h].content

(* Every revision was written by an editor that had loaded the one before   *)
(* it: no submission overwrites another unseen (submitInTransaction).       *)
NoEditIsOverwritten ==
    \A w \in Works : \A n \in DOMAIN revisions[w] : revisions[w][n].base = n - 1

(* A moderator decides on what the author wants now: since the page was     *)
(* read the author neither submitted, nor withdrew and asked again, nor     *)
(* deleted the work (moderateSubmission and moderateWork, expectedVersion). *)
DecisionsAreOnWhatWasRead ==
    [][Approve \/ Reject \/ (\E state \in OperatorState : ModerateWork(state))
         => changes[page.work] = page.changes]_vars

(* The media of a work's revisions is ready as long as the work exists,     *)
(* whatever sessions end, drafts are deleted or other works are deleted,    *)
(* and nothing of a deleted work is left that somebody could go on editing  *)
(* (releaseHolderRefs, cancelItems and deleteWork against edit drafts,      *)
(* sessions and late submissions).                                          *)
MediaStaysWithItsWork ==
    \A w \in Works :
        /\ \A n \in DOMAIN revisions[w] :
              \A i \in ItemsOf[revisions[w][n].content] : items[i] = "ready"
        /\ works[w].state = "deleted" =>
              /\ revisions[w] = <<>> /\ snapshots[w] = {}
              /\ \A h \in Holders : holders[h].work = w =>
                    h \in Sessions /\ holders[h].state # "active" /\ holders[h].held = {}

=============================================================================
