-------------------------- MODULE PublishingDrafts --------------------------
(***************************************************************************)
(* One draft of one author, edited from several devices                     *)
(* (community-postgres, publishing/drafts.ts): conditional saves, conflict  *)
(* copies of stale saves, the history of snapshots with its limit, restore, *)
(* resolution and deletion, and the references that keep its media items.   *)
(*                                                                          *)
(* Every port function is one transaction that locks the draft's row first, *)
(* so each is one atomic action.  A device sends the revision it last read: *)
(* it may have read any revision the draft ever had, so `base` is any of    *)
(* them, and a save that is repeated after a lost answer, or arrives after  *)
(* others, is a save on an older base.  Restore, resolve, create and delete *)
(* carry a request id: a repetition is answered from its receipt and        *)
(* changes nothing.                                                         *)
(*                                                                          *)
(* `now` is the time the service read before the transaction began, in      *)
(* milliseconds: it need not follow the order of the transactions, and any  *)
(* number of commands may carry the same one.  earlier(now) is now - 1.     *)
(***************************************************************************)
EXTENDS Integers, FiniteSets

CONSTANTS
    Class,         \* device classes (device_class, NULL is one of them)
    Content,       \* contents a device may send
    Item,          \* media items
    ItemsOf,       \* contentItemIds: the items a content names
    HistoryLimit,  \* settings.historyLimit
    MaxMoments,    \* bound: the number of milliseconds
    MaxCommands    \* bound: the number of commands that take a time

ASSUME ItemsAssumption == ItemsOf \in [Content -> SUBSET Item]
ASSUME LimitAssumption == HistoryLimit \in Nat \ {0}
ASSUME MomentsAssumption == MaxMoments \in Nat
ASSUME CommandsAssumption == MaxCommands \in Nat

VARIABLES
    draft,     \* the primary draft's row and the items it refers to
    copies,    \* its unresolved conflict copies
    snaps,     \* the snapshots of its lineage
    items,     \* the state of the media items
    commands,  \* commands that took a time so far
    shared     \* history: what pinned snapshots shared, ever (no action reads it)

draftsVars == <<draft, copies, snaps, items, commands, shared>>

-----------------------------------------------------------------------------
(* The rows. *)

Moments == 1..MaxMoments
Times == 0..MaxMoments
Revisions == 1..(MaxCommands + 1)

DraftRow == [state : {"active", "deleted"}, revision : Revisions,
             content : Content, held : SUBSET Item]
CopyRow == [base : Revisions, content : Content, class : Class, at : Times,
            held : SUBSET Item]
SnapshotRow == [id : Nat, kind : {"saved", "restored", "conflict"},
                content : Content, source : Revisions, pinned : BOOLEAN,
                at : Times, held : SUBSET Item]

Command(now) == /\ draft.state = "active"
                /\ commands < MaxCommands
                /\ now \in Moments
                /\ commands' = commands + 1

-----------------------------------------------------------------------------
(* Helpers of the transactions. *)

(* assertOwnedItems: the items exist, in whatever state. *)
Owned(content) == \A i \in ItemsOf[content] : items[i] # "new"

(* attachItems: only items that are not cancelled or purged get a ref. *)
Attached(content) == {i \in ItemsOf[content] : items[i] = "live"}

(* Faulty: every item that is not in the next content is released. *)
Synced_all(held, previous, next) == Attached(next)

(* Faulty: nothing is attached for the next content. *)
Synced_without_attach(held, previous, next) ==
    held \ (ItemsOf[previous] \ ItemsOf[next])

(* syncRefs: attach the next content's items, release those it dropped. *)
Synced(held, previous, next) ==
    (held \cup Attached(next)) \ (ItemsOf[previous] \ ItemsOf[next])

(* replaceContent followed by syncRefs. *)
Replaced(row, content) ==
    [row EXCEPT !.revision = @ + 1, !.content = content,
                !.held = Synced(@, row.content, content)]

(* insertSnapshot.  Ids are random in the code and order nothing that times *)
(* order already: rows that agree in time are taken in any order below.     *)
FreeId(rows) == CHOOSE n \in 1..(Cardinality(rows) + 1) :
                    /\ \A s \in rows : s.id # n
                    /\ \A m \in 1..(n - 1) : \E s \in rows : s.id = m

InsertSnapshot(rows, kind, content, source, pinned, at) ==
    rows \cup {[id |-> FreeId(rows), kind |-> kind, content |-> content,
                source |-> source, pinned |-> pinned, at |-> at,
                held |-> Attached(content)]}

(* A copy finds its pinned snapshot by the base and the time of both; this  *)
(* is where pinned snapshots are, and where one that is inserted joins      *)
(* another.                                                                 *)
PinnedAt(base, at) == {s \in snaps : /\ s.kind = "conflict" /\ s.pinned
                                     /\ s.source = base /\ s.at = at}
Joined(base, at) == IF PinnedAt(base, at) = {} THEN shared ELSE shared \cup {<<base, at>>}

(* The newest HistoryLimit rows, with the choices among equal times. *)
Unpinned(rows) == {s \in rows : ~ s.pinned}
Newest(rows) ==
    {kept \in SUBSET rows :
        /\ Cardinality(kept) <= HistoryLimit
        /\ Cardinality(kept) = HistoryLimit \/ kept = rows
        /\ \A s \in kept, t \in rows \ kept : t.at <= s.at}

(* Faulty: pinned rows count and go like the others. *)
TrimHistory_pinned(rows) == Newest(rows)

(* trimHistory: the newest unpinned rows stay, with every pinned one; the    *)
(* set of possible results.                                                 *)
TrimHistory(rows) == {kept \cup (rows \ Unpinned(rows)) : kept \in Newest(Unpinned(rows))}

-----------------------------------------------------------------------------
(* createDraft: the draft exists with its first content, which names no     *)
(* item yet.                                                                *)
DraftsInit ==
    /\ \E content \in Content :
          /\ ItemsOf[content] = {}
          /\ draft = [state |-> "active", revision |-> 1, content |-> content, held |-> {}]
    /\ copies = {}
    /\ snaps = {}
    /\ items = [i \in Item |-> "new"]
    /\ commands = 0
    /\ shared = {}

(* registerItem: a new item is held by the draft before any content names it.*)
Register(i) ==
    /\ draft.state = "active"
    /\ items[i] = "new"
    /\ items' = [items EXCEPT ![i] = "live"]
    /\ draft' = [draft EXCEPT !.held = @ \cup {i}]
    /\ UNCHANGED <<copies, snaps, commands, shared>>

(* cancelItem: the refs of drafts and copies go, those of snapshots stay. *)
Cancel(i) ==
    /\ draft.state = "active"
    /\ items[i] = "live"
    /\ items' = [items EXCEPT ![i] = "gone"]
    /\ draft' = [draft EXCEPT !.held = @ \ {i}]
    /\ copies' = {[c EXCEPT !.held = @ \ {i}] : c \in copies}
    /\ UNCHANGED <<snaps, commands, shared>>

(* purge_item of an item that lost its last ref and outlived the orphan     *)
(* grace: nobody refers to it and no stored content names it.               *)
Refers(i) == i \in draft.held \/ \E r \in copies \cup snaps : i \in r.held
Named(i) == \/ draft.state = "active" /\ i \in ItemsOf[draft.content]
            \/ \E r \in copies \cup snaps : i \in ItemsOf[r.content]
Purge(i) ==
    /\ items[i] = "live" /\ ~ Refers(i) /\ ~ Named(i)
    /\ items' = [items EXCEPT ![i] = "gone"]
    /\ UNCHANGED <<draft, copies, snaps, commands, shared>>

-----------------------------------------------------------------------------
(* saveDraft and snapshotDraft on the current base, or with the content the *)
(* draft already has (which saveDraft only answers).                        *)
StoredBy(content, base) == content = draft.content \/ base = draft.revision

AfterSave(content) ==
    IF content = draft.content THEN draft ELSE Replaced(draft, content)

Save(content, base, now) ==
    /\ Command(now)
    /\ content # draft.content /\ base = draft.revision
    /\ Owned(content)
    /\ draft' = AfterSave(content)
    /\ UNCHANGED <<copies, snaps, items, shared>>

(* Save now also records the revision, once. *)
Recorded(row, now) ==
    IF \E s \in snaps : s.kind = "saved" /\ s.source = row.revision THEN {snaps}
    ELSE TrimHistory(InsertSnapshot(snaps, "saved", row.content, row.revision, FALSE, now))

SaveNow(content, base, now) ==
    /\ Command(now)
    /\ StoredBy(content, base)
    /\ Owned(content)
    /\ draft' = AfterSave(content)
    /\ snaps' \in Recorded(draft', now)
    /\ UNCHANGED <<copies, items, shared>>

-----------------------------------------------------------------------------
(* A save, of either kind, on an outdated base: the content is kept in a    *)
(* copy with a pinned snapshot.                                             *)
Stale(content, base, now) ==
    /\ Command(now)
    /\ ~ StoredBy(content, base)
    /\ base < draft.revision
    /\ Owned(content)

SameContent(content, base) == {c \in copies : c.base = base /\ c.content = content}
SameClass(class, base) == {c \in copies : c.base = base /\ c.class = class}

(* A stale save that is repeated, or equal to one of any class, is answered *)
(* with its copy, of which only updated_at changes.                         *)
StaleRetry(content, base, now) ==
    /\ Stale(content, base, now)
    /\ SameContent(content, base) # {}
    /\ UNCHANGED <<draft, copies, snaps, items, shared>>

(* The pinned snapshot of a copy, as both statements look for it. *)
SnapshotsOf(c) == PinnedAt(c.base, c.at)

(* A copy or its snapshot with other content and the references of that. *)
Rewritten(row, content) ==
    [row EXCEPT !.content = content, !.held = Synced(@, row.content, content)]

(* Faulty: the copy changes and its snapshot does not. *)
Resnapshots_none(c, content, now) == {snaps}

Resnapshots(c, content, now) ==
    IF SnapshotsOf(c) = {}
    THEN {InsertSnapshot(snaps, "conflict", content, c.base, TRUE, now)}
    ELSE {(snaps \ {s}) \cup {Rewritten(s, content)} : s \in SnapshotsOf(c)}

(* Faulty: only a copy of the same class is looked for. *)
StaleReplace_by_class(content, base, class, now) ==
    /\ Stale(content, base, now)
    /\ \E c \in SameClass(class, base) :
          /\ copies' = (copies \ {c}) \cup {Rewritten(c, content)}
          /\ snaps' \in Resnapshots(c, content, now)
          /\ shared' = IF SnapshotsOf(c) = {} THEN Joined(base, now) ELSE shared
    /\ UNCHANGED <<draft, items>>

(* Other content of the same class on the same base replaces its copy. *)
StaleReplace(content, base, class, now) ==
    /\ Stale(content, base, now)
    /\ SameContent(content, base) = {}
    /\ \E c \in SameClass(class, base) :
          /\ copies' = (copies \ {c}) \cup {Rewritten(c, content)}
          /\ snaps' \in Resnapshots(c, content, now)
          /\ shared' = IF SnapshotsOf(c) = {} THEN Joined(base, now) ELSE shared
    /\ UNCHANGED <<draft, items>>

StaleNew(content, base, class, now) ==
    /\ Stale(content, base, now)
    /\ SameContent(content, base) = {} /\ SameClass(class, base) = {}
    /\ copies' = copies \cup {[base |-> base, content |-> content, class |-> class,
                               at |-> now, held |-> Attached(content)]}
    /\ snaps' = InsertSnapshot(snaps, "conflict", content, base, TRUE, now)
    /\ shared' = Joined(base, now)
    /\ UNCHANGED <<draft, items>>

-----------------------------------------------------------------------------
(* restoreSnapshot: the current content joins the history unless a snapshot *)
(* of it exists, then the restored content does, then the history is        *)
(* trimmed.                                                                 *)
KeptCurrent(now) ==
    IF \E s \in snaps : s.content = draft.content THEN snaps
    ELSE InsertSnapshot(snaps, "saved", draft.content, draft.revision, FALSE, now - 1)

Restore(s, now) ==
    /\ Command(now)
    /\ draft' = Replaced(draft, s.content)
    /\ snaps' \in TrimHistory(InsertSnapshot(KeptCurrent(now), "restored", s.content,
                                             draft'.revision, FALSE, now))
    /\ UNCHANGED <<copies, items, shared>>

(* resolveConflict with the account's content: the draft stays, and what it *)
(* has becomes a snapshot.                                                  *)
ResolveAccount(c, now) ==
    /\ Command(now)
    /\ snaps' \in TrimHistory(InsertSnapshot(snaps, "saved", draft.content,
                                             draft.revision, FALSE, now))
    /\ copies' = copies \ {c}
    /\ UNCHANGED <<draft, items, shared>>

(* ... with the device's content: the account's is pinned, and the copy's   *)
(* own snapshot becomes the saved snapshot of the new revision.             *)
ChosenSnapshots(c, rows, revision, now) ==
    LET own == {s \in SnapshotsOf(c) : s.content = c.content}
    IN  IF own = {} THEN {rows}
        ELSE {(rows \ {s}) \cup {[s EXCEPT !.kind = "saved", !.pinned = FALSE,
                                           !.source = revision, !.at = now]} : s \in own}

UnchosenAccount(now) ==
    InsertSnapshot(snaps, "conflict", draft.content, draft.revision, TRUE, now - 1)

ResolveDevice(c, now) ==
    /\ Command(now)
    /\ draft' = Replaced(draft, c.content)
    /\ \E rows \in ChosenSnapshots(c, UnchosenAccount(now), draft'.revision, now) :
          snaps' \in TrimHistory(rows)
    /\ copies' = copies \ {c}
    /\ shared' = Joined(draft.revision, now - 1)
    /\ UNCHANGED items

-----------------------------------------------------------------------------
(* deleteDraft: `expected` is the revision the author confirmed, or 0 when  *)
(* the request names none.  Rows and refs go; items nothing refers to any   *)
(* more are cancelled.                                                      *)
Delete(expected) ==
    /\ draft.state = "active"
    /\ expected # 0 => expected = draft.revision /\ copies = {}
    /\ items' = [i \in Item |-> IF items[i] = "live" /\ (Refers(i) \/ Named(i))
                               THEN "gone" ELSE items[i]]
    /\ draft' = [draft EXCEPT !.state = "deleted", !.held = {}]
    /\ copies' = {}
    /\ snaps' = {}
    /\ UNCHANGED <<commands, shared>>

MediaStep == \E i \in Item : Register(i) \/ Cancel(i) \/ Purge(i)

SaveStep == \E content \in Content, base \in 1..draft.revision, now \in Moments :
    \/ Save(content, base, now)
    \/ SaveNow(content, base, now)
    \/ StaleRetry(content, base, now)
    \/ \E class \in Class : \/ StaleReplace(content, base, class, now)
                            \/ StaleNew(content, base, class, now)

ChoiceStep == \E now \in Moments :
    \/ \E s \in snaps : Restore(s, now)
    \/ \E c \in copies : ResolveAccount(c, now) \/ ResolveDevice(c, now)

DeleteStep == \E expected \in {0, draft.revision} : Delete(expected)

DraftsNext == MediaStep \/ SaveStep \/ ChoiceStep \/ DeleteStep

DraftsSpec == DraftsInit /\ [][DraftsNext]_draftsVars

-----------------------------------------------------------------------------
(* Properties. *)

(* The type invariant: rows of drafts.ts and the bounds of this model. *)
DraftsTypeOK ==
    /\ draft \in DraftRow
    /\ copies \subseteq CopyRow
    /\ snaps \subseteq SnapshotRow
    /\ items \in [Item -> {"new", "live", "gone"}]
    /\ commands \in 0..MaxCommands
    /\ shared \subseteq Revisions \X Times

(* Every unresolved conflict copy has its pinned conflict snapshot, with    *)
(* the content the copy has now (drafts.ts:83-87), whatever was saved,      *)
(* replaced, restored, resolved and trimmed in between.  The code breaks it *)
(* when stale saves on one base share a millisecond: a later save of one    *)
(* device rewrites the snapshot of the other's copy.                        *)
HasSnapshot(c) == \E s \in SnapshotsOf(c) : s.content = c.content
CopiesAreSnapshotted == \A c \in copies : HasSnapshot(c)

(* And of every other copy, in the same drafts too, it is true: saves that   *)
(* come in any order of their times, choices and restores leave a copy its   *)
(* snapshot unless another one was pinned to its base in its millisecond.    *)
SoleCopiesAreSnapshotted ==
    \A c \in copies : <<c.base, c.at>> \notin shared => HasSnapshot(c)

(* Two unresolved copies of one base never have the same content, nor come  *)
(* from the same class of device: stale saves are reused or replaced and do *)
(* not pile up (drafts.ts:579-581).                                         *)
CopiesAreDistinct ==
    \A c, d \in copies : /\ c.base = d.base
                         /\ c.content = d.content \/ c.class = d.class
                         => c = d

(* The history of the lineage never exceeds its limit, pinned rows aside    *)
(* (the retention the table's migration promises).                          *)
HistoryBounded == Cardinality(Unpinned(snaps)) <= HistoryLimit

(* A pinned snapshot that belongs to no unresolved copy, the content an     *)
(* author did not choose, is neither evicted, unpinned nor rewritten by any *)
(* later save or choice; only deleting the draft removes it.  Whatever an    *)
(* author chooses, both sides of a conflict can be found again: the content  *)
(* of the draft, and that of the copy that is resolved, are the draft's or a *)
(* snapshot's afterwards.  Of a copy, and of a pinned snapshot, it is true    *)
(* unless another was pinned to the same base in the same millisecond.       *)
Unchosen == {s \in snaps : s.pinned /\ \A c \in copies : s \notin SnapshotsOf(c)}
Recoverable == {draft.content} \cup {s.content : s \in snaps}
Resolved == {c \in copies : \A d \in copies' : <<d.base, d.class>> # <<c.base, c.class>>}
UnchosenStays ==
    /\ [][draft'.state = "active" =>
            {s \in Unchosen : <<s.source, s.at>> \notin shared'} \subseteq Unchosen']_draftsVars
    /\ [][draft'.state = "active" => \A c \in Resolved :
            /\ draft.content \in Recoverable'
            /\ <<c.base, c.at>> \notin shared => c.content \in Recoverable']_draftsVars

(* An item a stored content names, that was not cancelled, is referred to   *)
(* by the holder of that content: purge_item and the deletion of other      *)
(* holders look at the references only (drafts.ts:87-88).                   *)
Covers(row) == Attached(row.content) \subseteq row.held
RefsCoverContents ==
    draft.state = "active" => \A r \in {draft} \cup copies \cup snaps : Covers(r)

(* An item registered to the draft that no content of it named yet keeps    *)
(* its reference through every save, restore and resolution, so an autosave *)
(* racing a registration never releases a transfer (drafts.ts:89-90).       *)
RegisteredStays ==
    [][draft'.state = "active" =>
         \A i \in draft.held \ ItemsOf[draft.content] :
            items'[i] = "live" => i \in draft'.held]_draftsVars

=============================================================================
