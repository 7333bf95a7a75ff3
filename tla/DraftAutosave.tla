---------------------------- MODULE DraftAutosave ----------------------------
(***************************************************************************)
(* One editor that saves a draft to the author's account (web,               *)
(* draft-autosave.ts in the setting publishing-runtime.ts gives it: saves    *)
(* only when the author asks), with the runtime that pauses it when the      *)
(* account changes and that deletes the draft when saving is switched off,   *)
(* the chooser of a conflict's versions (conflict-chooser.tsx), the          *)
(* account's drafts (drafts.ts) and other devices that edit them.            *)
(*                                                                          *)
(* A call is sent, served and answered in three steps.  A call whose answer  *)
(* is lost, or whose account changed meanwhile, may still be served any time *)
(* later, or never.  What follows an answer runs to the next await in one    *)
(* step.  A content is one field: two different ones differ in it.          *)
(***************************************************************************)
EXTENDS Integers, FiniteSets

CONSTANTS
    Texts,        \* contents
    Empty,        \* isEmptyDraftContent: the content that is not worth a draft
    Unset,        \* null
    MaxRequests,  \* bound: drafts this editor may create
    MaxEdits,     \* bound: edits the author makes
    MaxRevision   \* bound: the revision up to which other devices change a draft

ASSUME AutosaveAssumption ==
    /\ Empty \in Texts /\ Unset \notin Texts
    /\ MaxRequests \in Nat \ {0} /\ MaxEdits \in Nat /\ MaxRevision \in Nat

VARIABLES
    editor,       \* the autosave controller and its call
    choice,       \* the chooser and its call
    disabling,    \* disableSaving and its call
    signedIn,     \* services.currentAccount: the editor's account or another
    noticed,      \* the account the runtime works for
    rows,         \* the drafts of the account, by the request that created them
    late,         \* writes that nobody waits for any more
    seen,         \* history: revisions whose content this editor wrote or showed
    replayed,     \* history: revisions learned from a repeated create alone
    asked         \* history: the newest edit the author asked to save

autosaveVars == <<editor, choice, disabling, signedIn, noticed, rows, late, seen,
                  replayed, asked>>

DraftIds == 1..MaxRequests

-----------------------------------------------------------------------------
(* The account: createDraft, saveDraft, readDraft, resolveConflict and       *)
(* deleteDraft (drafts.ts), as PublishingDrafts has them in full.            *)

(* `kept` is what the history holds and `stored` all that ever was saved.    *)
NoRow == [state |-> "none", revision |-> 0, content |-> Empty, copies |-> {},
          kept |-> {}, stored |-> {}]
NewRow(content) == [state |-> "active", revision |-> 1, content |-> content,
                    copies |-> {}, kept |-> {}, stored |-> {content}]

Answer(result, row, conflict) ==
    [result |-> result, revision |-> row.revision, content |-> row.content,
     conflict |-> conflict]
Refused == Answer("refused", NoRow, Unset)

(* What a read of the draft answers; its conflict is the newest copy.        *)
Read(row) == IF row.state # "active" THEN {Refused}
             ELSE IF row.copies = {} THEN {Answer("draft", row, Unset)}
             ELSE {Answer("draft", row, c) : c \in row.copies}

Replaced(row, content) ==
    [row EXCEPT !.content = content, !.revision = @ + 1, !.stored = @ \cup {content}]

AfterSave(row, content, base) ==
    IF row.state # "active" \/ content = row.content THEN row
    ELSE IF base = row.revision THEN Replaced(row, content)
    ELSE [row EXCEPT !.copies = @ \cup {content}, !.stored = @ \cup {content}]

SaveAnswers(row, content, base) ==
    IF row.state # "active" THEN {Refused}
    ELSE IF content = row.content \/ base = row.revision
    THEN {Answer("draft", AfterSave(row, content, base), Unset)}
    ELSE {Answer("conflict", row, content)}

(* Choosing a copy that was chosen on already is refused. *)
AfterChoice(row, copy, side) ==
    IF row.state # "active" \/ copy \notin row.copies THEN row
    ELSE LET kept == [row EXCEPT !.kept = @ \cup {row.content}, !.copies = @ \ {copy}]
         IN IF side = "device" THEN Replaced(kept, copy) ELSE kept

AfterDelete(row, revision) ==
    IF row.state = "active" /\ row.revision = revision /\ row.copies = {}
    THEN [row EXCEPT !.state = "deleted"] ELSE row

(* A write: the row after it, and the answers it may get.                    *)
Writes == [kind : {"create", "save", "resolve", "delete"}, draft : DraftIds,
           content : Texts \cup {Unset}, base : Nat]
Write(kind, draft, content, base) ==
    [kind |-> kind, draft |-> draft, content |-> content, base |-> base]

(* A resolve carries its copy as content; base is 1 for "device". *)
Side(w) == IF w.base = 1 THEN "device" ELSE "account"

RowAfter(w) ==
    LET row == rows[w.draft]
    IN CASE w.kind = "create" -> IF row.state = "none" THEN NewRow(w.content) ELSE row
         [] w.kind = "save" -> AfterSave(row, w.content, w.base)
         [] w.kind = "resolve" -> AfterChoice(row, w.content, Side(w))
         [] w.kind = "delete" -> AfterDelete(row, w.base)

AnswersTo(w) ==
    LET row == rows[w.draft]
    IN CASE w.kind = "create" -> Read(RowAfter(w))
         [] w.kind = "save" -> SaveAnswers(row, w.content, w.base)
         [] w.kind = "resolve" -> IF w.content \in row.copies THEN Read(RowAfter(w)) ELSE {Refused}
         [] w.kind = "delete" -> IF RowAfter(w) = row THEN {Refused}
                                 ELSE {Answer("draft", row, Unset)}

-----------------------------------------------------------------------------
(* Calls. *)

AnswerRow == [result : {"draft", "conflict", "refused"}, revision : Nat,
              content : Texts, conflict : Texts \cup {Unset}]

(* `then` says that a save goes on after the read; `version` is the edit     *)
(* that is sent.                                                            *)
CallRow == [write : Writes \cup {Unset}, at : {"sent", "answered", "dropped", "switched"},
            answer : AnswerRow \cup {Unset}, version : Nat, base : Nat,
            content : Texts, then : BOOLEAN]

NoCall == Unset
Sent(write, content, version, base, then) ==
    [write |-> write, at |-> "sent", answer |-> Unset, version |-> version,
     base |-> base, content |-> content, then |-> then]

(* The answer is lost; a refusal is one whether or not the account changed.  *)
Lost(call, at) ==
    IF call = NoCall THEN NoCall
    ELSE IF \/ call.at = "dropped"
            \/ call.at = "answered" /\ at = "switched" /\ call.answer.result = "refused"
    THEN call ELSE [call EXCEPT !.at = at, !.answer = Unset]

(* Writes that are lost before they were served.                            *)
Underway(call) ==
    IF call = NoCall THEN {}
    ELSE IF call.at = "sent" /\ call.write # Unset THEN {call.write} ELSE {}

-----------------------------------------------------------------------------
(* The controller (createDraftAutosave).                                    *)

Statuses == {"idle", "pending", "saving", "saved", "conflict", "error", "reconciling"}

(* pendingCreate and unreconciled. *)
PendingRow == [request : DraftIds, content : Texts, version : Nat]
LostRow == [content : Texts, version : Nat, base : Nat]

EditorRow == [status : Statuses, draft : DraftIds \cup {Unset}, revision : Nat,
              edits : Nat, saved : Nat, latest : Texts \cup {Unset},
              conflict : Texts \cup {Unset}, queued : BOOLEAN, suspended : BOOLEAN,
              pending : PendingRow \cup {Unset}, lost : LostRow \cup {Unset},
              requests : Nat, call : CallRow \cup {Unset}]

NewEditor == [status |-> "idle", draft |-> Unset, revision |-> 0, edits |-> 0, saved |-> 0,
              latest |-> Unset, conflict |-> Unset, queued |-> FALSE, suspended |-> FALSE,
              pending |-> Unset, lost |-> Unset, requests |-> 0, call |-> NoCall]

(* null is no value. *)
ASSUME UnsetAssumption ==
    /\ Unset \notin DraftIds /\ Unset \notin Writes /\ Unset \notin CallRow
    /\ Unset \notin PendingRow /\ Unset \notin LostRow

Unsaved(e) == e.edits > e.saved

(* accountConfirmed, and what it does when the account is another one.       *)
Confirmed(e) == ~ e.suspended /\ signedIn = "own"
Checked(e) == [e EXCEPT !.suspended = @ \/ signedIn # "own"]

Larger(m, n) == IF m > n THEN m ELSE n

(* Faulty: everything typed so far counts as saved. *)
MarkSaved_all(e, draft, answer, version) ==
    [e EXCEPT !.draft = draft, !.revision = answer.revision, !.saved = e.edits,
              !.conflict = Unset, !.status = "saved"]

(* markSaved: the edit the save carried is saved, a newer one is not. *)
MarkSaved(e, draft, answer, version) ==
    LET saved == Larger(e.saved, version)
    IN [e EXCEPT !.draft = draft, !.revision = answer.revision, !.saved = saved,
                 !.conflict = Unset,
                 !.status = IF e.edits > saved THEN "pending" ELSE "saved"]

(* reconcile: the draft is read, or later when the account is back. *)
Reconcile(e, content, version, base, then) ==
    IF ~ Confirmed(e)
    THEN [Checked(e) EXCEPT !.status = "error", !.call = NoCall,
            !.lost = [content |-> content, version |-> version, base |-> base]]
    ELSE [e EXCEPT !.status = "reconciling", !.lost = Unset,
            !.call = Sent(Unset, content, version, base, then)]

(* The create that is repeated exactly, or a new one. *)
Creation(e) == IF e.pending # Unset THEN e.pending
               ELSE [request |-> e.requests + 1, content |-> e.latest, version |-> e.edits]

SendCreate(e) ==
    LET pending == Creation(e)
    IN [e EXCEPT !.status = "saving", !.pending = pending,
                 !.requests = Larger(@, pending.request),
                 !.call = Sent(Write("create", pending.request, pending.content, 0),
                               pending.content, pending.version, 0, FALSE)]

SendSave(e) ==
    [e EXCEPT !.status = "saving",
              !.call = Sent(Write("save", e.draft, e.latest, e.revision),
                            e.latest, e.edits, e.revision, FALSE)]

(* save, once the account is confirmed and no earlier save is in doubt. *)
Send(e) ==
    IF e.latest = Unset \/ e.status = "conflict" THEN e
    ELSE IF e.draft = Unset
    THEN IF e.latest = Empty THEN [e EXCEPT !.status = "idle", !.saved = e.edits]
         ELSE SendCreate(e)
    ELSE IF ~ Unsaved(e) THEN [e EXCEPT !.status = "saved"]
    ELSE SendSave(e)

(* Faulty: the account is not looked at. *)
Start_unchecked(e) ==
    IF e.lost # Unset THEN Reconcile(e, e.lost.content, e.lost.version, e.lost.base, TRUE)
    ELSE Send(e)

(* save up to its first await. *)
Start(e) ==
    IF ~ Confirmed(e) THEN Checked(e)
    ELSE IF e.lost # Unset
    THEN Reconcile(e, e.lost.content, e.lost.version, e.lost.base, TRUE)
    ELSE Send(e)

(* flush: one follow-up for all that is asked during a save. *)
Flush(e) == IF e.call # NoCall THEN [e EXCEPT !.queued = TRUE] ELSE Start(e)

(* The end of a save, with its follow-up. *)
Finish(e) ==
    LET next == [e EXCEPT !.queued = FALSE]
    IN IF e.call # NoCall THEN e
       ELSE IF e.queued /\ ~ e.suspended /\ e.status \notin {"error", "conflict", "reconciling"}
       THEN Start(next) ELSE next

(* An error, or an edit that waits for its account to come back. *)
Failed(e, accountError) ==
    IF accountError /\ ~ Confirmed(e)
    THEN [Checked(e) EXCEPT !.status = "pending"]
    ELSE [e EXCEPT !.status = "error"]

(* What create does with its answer. *)
Created(e, call) ==
    LET answer == call.answer
        known == [e EXCEPT !.pending = Unset]
    IN IF call.at # "answered" THEN Failed(e, call.at = "switched")
       ELSE IF answer.result = "refused" THEN Failed(known, signedIn # "own")
       ELSE IF answer.conflict # Unset
       THEN [known EXCEPT !.draft = call.write.draft, !.revision = answer.revision,
                          !.status = "conflict", !.conflict = answer.conflict]
       ELSE MarkSaved(known, call.write.draft, answer,
                      IF answer.content = call.content THEN call.version ELSE e.saved)

(* What save does with its answer. *)
Saved(e, call) ==
    LET answer == call.answer
    IN IF call.at # "answered"
       THEN Reconcile(e, call.content, call.version, call.base, FALSE)
       ELSE IF answer.result = "refused" THEN Failed(e, signedIn # "own")
       ELSE IF answer.result = "conflict"
       THEN [e EXCEPT !.status = "conflict", !.revision = answer.revision,
                      !.conflict = answer.conflict]
       ELSE MarkSaved(e, e.draft, answer, call.version)

(* Faulty: the draft that was read is the base of the next save. *)
Reconciled_rebased(e, call) ==
    LET answer == call.answer
    IN IF call.at # "answered" \/ answer.result = "refused" THEN [e EXCEPT !.status = "error"]
       ELSE IF answer.content = call.content
       THEN MarkSaved(e, e.draft, answer, call.version)
       ELSE [e EXCEPT !.revision = answer.revision, !.conflict = answer.conflict,
                      !.status = IF answer.conflict = Unset THEN "error" ELSE "conflict"]

(* What reconcile does with its answer: the save took place when the draft   *)
(* has its content in another revision.                                     *)
Reconciled(e, call) ==
    LET answer == call.answer
    IN IF call.at # "answered" \/ answer.result = "refused" THEN [e EXCEPT !.status = "error"]
       ELSE IF answer.content = call.content /\ answer.revision # call.base
       THEN MarkSaved(e, e.draft, answer, call.version)
       ELSE [e EXCEPT !.conflict = answer.conflict,
                      !.status = IF answer.conflict = Unset THEN "error" ELSE "conflict"]

(* A save goes on after a read that left nothing in doubt. *)
Resumed(e, call) == IF call.then /\ e.status \in {"saved", "pending"} THEN Send(e) ELSE e

(* The continuation of the editor's call, to its next await or its end. *)
Continued(e) ==
    LET call == e.call
        idle == [e EXCEPT !.call = NoCall]
    IN Finish(IF call.write = Unset THEN Resumed(Reconciled(idle, call), call)
              ELSE IF call.write.kind = "create" THEN Created(idle, call)
              ELSE Saved(idle, call))

(* edit: a content other than the latest. *)
Edited(e, content) ==
    LET next == [e EXCEPT !.latest = content, !.edits = @ + 1]
    IN IF e.draft = Unset /\ e.pending = Unset /\ content = Empty
       THEN [next EXCEPT !.saved = next.edits, !.status = "idle"]
       ELSE IF e.status \in {"conflict", "saving", "reconciling"} THEN next
       ELSE [next EXCEPT !.status = "pending"]

(* preserveLaterConflictEdits: what differs from the device's version was    *)
(* typed later.                                                             *)
PreserveLaterEdits(chosen, device, screen) == IF screen # device THEN screen ELSE chosen

(* adoptDraft of the controller, with what the editor shows from now on. *)
Adopted(e, answer, content) ==
    LET saved == IF answer.content = content THEN e.edits ELSE e.saved
    IN [e EXCEPT !.latest = content, !.revision = answer.revision, !.saved = saved,
                 !.conflict = answer.conflict,
                 !.status = IF answer.conflict # Unset THEN "conflict"
                            ELSE IF e.edits > saved THEN "pending" ELSE "saved"]

(* resume, in the account that is confirmed again. *)
Resume(e) ==
    LET back == Checked([e EXCEPT !.suspended = FALSE])
    IN IF back.suspended \/ back.lost # Unset \/ e.status \in {"conflict", "error"} \/ ~ Unsaved(e)
       THEN back ELSE [back EXCEPT !.status = "pending"]

-----------------------------------------------------------------------------
(* A session on a new work, or on a saved draft, with its newest conflict.   *)
NoDisabling == [step |-> "off", call |-> NoCall]
NoChoice == [step |-> "none", side |-> "device", copy |-> Empty, call |-> NoCall]

Opened(row, answer) ==
    [NewEditor EXCEPT !.draft = 1, !.requests = 1, !.revision = 1, !.latest = row.content,
                      !.conflict = answer.conflict,
                      !.status = IF answer.conflict = Unset THEN "saved" ELSE "conflict"]

AutosaveInit ==
    /\ \/ rows = [d \in DraftIds |-> NoRow] /\ editor = NewEditor /\ seen = {}
       \/ \E content \in Texts \ {Empty}, copies \in {{}} \cup {{t} : t \in Texts \ {Empty}} :
            LET row == [NewRow(content) EXCEPT !.copies = copies, !.stored = {content} \cup copies]
            IN /\ content \notin copies
               /\ rows = [d \in DraftIds |-> IF d = 1 THEN row ELSE NoRow]
               /\ \E answer \in Read(row) : editor = Opened(row, answer)
               /\ seen = {<<1, 1>>}
    /\ choice = NoChoice
    /\ disabling = NoDisabling
    /\ signedIn = "own"
    /\ noticed = "own"
    /\ late = {}
    /\ replayed = {}
    /\ asked = 0

(* The author uses the editor: the runtime works for its account, and the    *)
(* session saves.                                                           *)
InUse == noticed = "own" /\ disabling.step # "done"

(* What was asked is settled when the author is told otherwise, or when the  *)
(* account goes away.                                                       *)
StillAsked(edits, e) ==
    IF e.suspended \/ e.status \in {"error", "conflict"} THEN 0 ELSE edits

(* The runtime's edit. *)
Type(content) ==
    /\ InUse
    /\ editor.edits < MaxEdits
    /\ content # editor.latest
    /\ editor' = Edited(editor, content)
    /\ UNCHANGED <<choice, disabling, signedIn, noticed, rows, late, seen, replayed, asked>>

(* saveNow, also what retries after an error. *)
SaveNow ==
    /\ InUse
    /\ editor.pending = Unset => editor.requests < MaxRequests \/ editor.draft # Unset
    /\ editor' = Flush(editor)
    /\ asked' = StillAsked(editor.edits, editor')
    /\ UNCHANGED <<choice, disabling, signedIn, noticed, rows, late, seen, replayed>>

-----------------------------------------------------------------------------
(* The account serves the editor's call.  It may refuse any write (a limit,  *)
(* a length, an item, its own unavailability) and never one of another       *)
(* account's, which it does not find.                                       *)
Serve(write, answer) ==
    \/ answer = Refused /\ UNCHANGED rows
    \/ /\ answer \in AnswersTo(write)
       /\ rows' = [rows EXCEPT ![write.draft] = RowAfter(write)]

Answered(call, answer) == [call EXCEPT !.at = "answered", !.answer = answer]

(* The revisions an answer shows: its content is the editor's own, or the    *)
(* conflict shows it.                                                       *)
Shows(call, answer) ==
    answer.result # "refused" /\ (answer.conflict # Unset \/ answer.content = call.content)

ServeCall ==
    /\ editor.call # NoCall /\ editor.call.at = "sent"
    /\ LET call == editor.call
       IN \E answer \in IF call.write = Unset THEN {Refused} \cup Read(rows[editor.draft])
                        ELSE {Refused} \cup AnswersTo(call.write) :
            /\ editor' = [editor EXCEPT !.call = Answered(call, answer)]
            /\ IF call.write = Unset THEN UNCHANGED rows ELSE Serve(call.write, answer)
    /\ UNCHANGED <<choice, disabling, signedIn, noticed, late, seen, replayed, asked>>

(* The answer of the editor's call is lost. *)
LoseAnswer ==
    /\ editor.call # NoCall /\ editor.call.at \in {"sent", "answered"}
    /\ editor' = [editor EXCEPT !.call = Lost(@, "dropped")]
    /\ late' = late \cup Underway(editor.call)
    /\ UNCHANGED <<choice, disabling, signedIn, noticed, rows, seen, replayed, asked>>

(* A create with no save to follow it. *)
Repeated(e) == e.call.write # Unset /\ e.call.write.kind = "create" /\ ~ e.queued

(* The editor goes on after its call. *)
Continue ==
    /\ editor.call # NoCall /\ editor.call.at # "sent"
    /\ editor' = Continued(editor)
    /\ LET call == editor.call
           draft == IF call.write = Unset THEN editor.draft ELSE call.write.draft
       IN IF call.at # "answered" \/ call.answer.result = "refused"
          THEN UNCHANGED <<seen, replayed>>
          ELSE IF Shows(call, call.answer)
          THEN seen' = seen \cup {<<draft, call.answer.revision>>} /\ UNCHANGED replayed
          ELSE /\ replayed' = IF call.write = Unset THEN replayed
                              ELSE replayed \cup {<<draft, call.answer.revision>>}
               /\ UNCHANGED seen
    /\ asked' = StillAsked(IF Repeated(editor) THEN 0 ELSE asked, editor')
    /\ UNCHANGED <<choice, disabling, signedIn, noticed, rows, late>>

(* A write nobody waits for is served, or never.                            *)
ServeLate ==
    /\ \E write \in late :
         /\ rows' = [rows EXCEPT ![write.draft] = RowAfter(write)]
         /\ late' = late \ {write}
    /\ UNCHANGED <<editor, choice, disabling, signedIn, noticed, seen, replayed, asked>>

-----------------------------------------------------------------------------
(* The conflict chooser. *)

ChoiceWrite(side, copy) == Write("resolve", editor.draft, copy, IF side = "device" THEN 1 ELSE 0)

(* choose: a choice in doubt can only be repeated. *)
Choose(side) ==
    /\ InUse
    /\ editor.status = "conflict" /\ editor.conflict # Unset
    /\ \/ choice.step = "none"
       \/ choice.step = "unknown" /\ choice.side = side
    /\ LET copy == IF choice.step = "none" THEN editor.conflict ELSE choice.copy
       IN choice' = [step |-> "choosing", side |-> side, copy |-> copy,
                     call |-> Sent(ChoiceWrite(side, copy), Empty, 0, 0, FALSE)]
    /\ UNCHANGED <<editor, disabling, signedIn, noticed, rows, late, seen, replayed, asked>>

(* A repeated choice that was served is answered with the draft of now; here *)
(* it is refused and the draft is read, as when another device chose.       *)
ServeChoice ==
    /\ choice.call # NoCall /\ choice.call.at = "sent"
    /\ LET write == choice.call.write
       IN \E answer \in {Refused} \cup
             (IF choice.step = "checking" THEN Read(rows[editor.draft]) ELSE AnswersTo(write)) :
            /\ choice' = [choice EXCEPT !.call = Answered(@, answer)]
            /\ IF choice.step = "checking" THEN UNCHANGED rows ELSE Serve(write, answer)
    /\ UNCHANGED <<editor, disabling, signedIn, noticed, late, seen, replayed, asked>>

LoseChoice ==
    /\ choice.call # NoCall /\ choice.call.at \in {"sent", "answered"}
    /\ choice' = [choice EXCEPT !.call = Lost(@, "dropped")]
    /\ late' = late \cup Underway(choice.call)
    /\ UNCHANGED <<editor, disabling, signedIn, noticed, rows, seen, replayed, asked>>

(* check: the draft is read again after a choice that failed or got lost     *)
(* (base is 1), or when the author asks for it.                             *)
Checking(inDoubt) ==
    choice' = [choice EXCEPT !.step = "checking",
                             !.call = Sent(Unset, Empty, 0, IF inDoubt THEN 1 ELSE 0, FALSE)]

CheckChoice ==
    /\ \/ /\ choice.step = "choosing" /\ choice.call.at # "sent"
          /\ choice.call.at = "answered" => choice.call.answer.result = "refused"
          /\ Checking(choice.call.at # "answered")
       \/ choice.step = "unknown" /\ Checking(TRUE)
    /\ UNCHANGED <<editor, disabling, signedIn, noticed, rows, late, seen, replayed, asked>>

(* The check found the conflict open, or nothing. *)
ChoiceOpen ==
    /\ choice.step = "checking" /\ choice.call.at # "sent"
    /\ choice.call.at = "answered" => \/ choice.call.answer.result = "refused"
                                      \/ choice.call.answer.conflict = choice.copy
    /\ choice' = IF choice.call.base = 1
                 THEN [choice EXCEPT !.step = "unknown", !.call = NoCall] ELSE NoChoice
    /\ UNCHANGED <<editor, disabling, signedIn, noticed, rows, late, seen, replayed, asked>>

(* The draft after the choice, or the one that was settled elsewhere, is      *)
(* adopted with what was typed since (chooseVersion, adoptDraft).           *)
Adopt ==
    /\ choice.step \in {"choosing", "checking"} /\ choice.call.at = "answered"
    /\ choice.call.answer.result # "refused"
    /\ choice.step = "checking" => choice.call.answer.conflict # choice.copy
    /\ choice' = NoChoice
    /\ LET answer == choice.call.answer
           content == PreserveLaterEdits(answer.content, choice.copy, editor.latest)
       IN IF InUse /\ signedIn = "own"
          THEN /\ editor' = Adopted(editor, answer, content)
               /\ seen' = seen \cup {<<editor.draft, answer.revision>>}
          ELSE UNCHANGED <<editor, seen>>
    /\ UNCHANGED <<disabling, signedIn, noticed, rows, late, replayed, asked>>

-----------------------------------------------------------------------------
(* disableSaving: saving stops, the draft of a create in doubt is looked up, *)
(* and the draft is deleted in the revision the author saw.                 *)
DisableSaving ==
    /\ InUse /\ disabling.step = "off"
    /\ disabling' = [NoDisabling EXCEPT !.step = "idle"]
    /\ editor' = [editor EXCEPT !.suspended = TRUE]
    /\ asked' = 0
    /\ UNCHANGED <<choice, signedIn, noticed, rows, late, seen, replayed>>

(* abortHolderChange. *)
Aborted(e) == IF noticed = "own" THEN Resume(e) ELSE e

DeleteCall(e) == Sent(Write("delete", e.draft, Unset, e.revision), Empty, 0, e.revision, FALSE)

(* resolveCreatedDraft once no save is under way. *)
ResolveCreated ==
    /\ disabling.step = "idle" /\ editor.call = NoCall
    /\ IF editor.draft # Unset
       THEN disabling' = [step |-> "deleting", call |-> DeleteCall(editor)] /\ UNCHANGED editor
       ELSE IF editor.pending = Unset
       THEN disabling' = [NoDisabling EXCEPT !.step = "done"] /\ UNCHANGED editor
       ELSE IF signedIn # "own" THEN disabling' = NoDisabling /\ editor' = Aborted(editor)
       ELSE /\ disabling' = [step |-> "creating",
                             call |-> SendCreate(editor).call]
            /\ UNCHANGED editor
    /\ UNCHANGED <<choice, signedIn, noticed, rows, late, seen, replayed, asked>>

ServeDisabling ==
    /\ disabling.call # NoCall /\ disabling.call.at = "sent"
    /\ LET write == disabling.call.write
       IN \E answer \in {Refused} \cup AnswersTo(write) :
            /\ disabling' = [disabling EXCEPT !.call = Answered(@, answer)]
            /\ Serve(write, answer)
    /\ UNCHANGED <<editor, choice, signedIn, noticed, late, seen, replayed, asked>>

LoseDisabling ==
    /\ disabling.call # NoCall /\ disabling.call.at \in {"sent", "answered"}
    /\ disabling' = [disabling EXCEPT !.call = Lost(@, "dropped")]
    /\ late' = late \cup Underway(disabling.call)
    /\ UNCHANGED <<editor, choice, signedIn, noticed, rows, seen, replayed, asked>>

Succeeded(call) == call.at = "answered" /\ call.answer.result # "refused"

(* The draft of the create in doubt is known, in the revision of now. *)
CreatedResolved ==
    /\ disabling.step = "creating" /\ Succeeded(disabling.call)
    /\ LET call == disabling.call
           draft == call.write.draft
           version == IF call.answer.content = call.content THEN call.version ELSE editor.saved
           next == MarkSaved([editor EXCEPT !.pending = Unset], draft, call.answer, version)
       IN /\ editor' = next
          /\ disabling' = [step |-> "deleting", call |-> DeleteCall(next)]
          /\ IF call.answer.content = call.content
             THEN seen' = seen \cup {<<draft, call.answer.revision>>} /\ UNCHANGED replayed
             ELSE replayed' = replayed \cup {<<draft, call.answer.revision>>} /\ UNCHANGED seen
    /\ UNCHANGED <<choice, signedIn, noticed, rows, late, asked>>

(* The draft is gone: the content stays in the editor, unsaved. *)
Disabled ==
    /\ disabling.step = "deleting" /\ Succeeded(disabling.call)
    /\ disabling' = [NoDisabling EXCEPT !.step = "done"]
    /\ UNCHANGED <<editor, choice, signedIn, noticed, rows, late, seen, replayed, asked>>

AbortDisabling ==
    /\ disabling.call # NoCall /\ disabling.call.at # "sent" /\ ~ Succeeded(disabling.call)
    /\ disabling' = NoDisabling
    /\ editor' = Aborted(editor)
    /\ UNCHANGED <<choice, signedIn, noticed, rows, late, seen, replayed, asked>>

-----------------------------------------------------------------------------
(* The account of this browser changes: no answer of an earlier one is       *)
(* handed over.  It comes back only when saving is not being switched off.  *)
SwitchAccount ==
    /\ signedIn = "other" => disabling.step \in {"off", "done"}
    /\ signedIn' = IF signedIn = "own" THEN "other" ELSE "own"
    /\ editor' = [editor EXCEPT !.call = Lost(@, "switched")]
    /\ choice' = [choice EXCEPT !.call = Lost(@, "switched")]
    /\ disabling' = [disabling EXCEPT !.call = Lost(@, "switched")]
    /\ late' = late \cup Underway(editor.call) \cup Underway(choice.call)
                    \cup Underway(disabling.call)
    /\ UNCHANGED <<noticed, rows, seen, replayed, asked>>

(* setAccount of the runtime. *)
NoticeAccount ==
    /\ noticed # signedIn
    /\ noticed' = signedIn
    /\ editor' = IF signedIn = "other" THEN [editor EXCEPT !.suspended = TRUE]
                 ELSE Resume(editor)
    /\ asked' = StillAsked(asked, editor')
    /\ UNCHANGED <<choice, disabling, signedIn, rows, late, seen, replayed>>

(* Another device saves, or chooses. *)
OtherDevice ==
    /\ \E d \in DraftIds : \E text \in Texts \ {Empty} :
         /\ rows[d].state = "active" /\ rows[d].revision < MaxRevision
         /\ rows' = [rows EXCEPT ![d] = AfterSave(@, text, rows[d].revision)]
         /\ rows' # rows
    /\ UNCHANGED <<editor, choice, disabling, signedIn, noticed, late, seen, replayed, asked>>

OtherChoice ==
    /\ \E d \in DraftIds : \E copy \in rows[d].copies, side \in {"device", "account"} :
         /\ rows[d].revision < MaxRevision
         /\ rows' = [rows EXCEPT ![d] = AfterChoice(@, copy, side)]
    /\ UNCHANGED <<editor, choice, disabling, signedIn, noticed, late, seen, replayed, asked>>

-----------------------------------------------------------------------------
AuthorSteps == \/ \E content \in Texts : Type(content)
               \/ SaveNow
               \/ \E side \in {"device", "account"} : Choose(side)
               \/ DisableSaving

ChooserSteps == LoseChoice \/ CheckChoice \/ ChoiceOpen \/ Adopt
DisablingSteps == ResolveCreated \/ LoseDisabling \/ CreatedResolved \/ Disabled \/ AbortDisabling
OthersStep == OtherDevice \/ OtherChoice
AccountSteps == ServeCall \/ ServeChoice \/ ServeDisabling \/ ServeLate \/ OthersStep

AutosaveNext == \/ AuthorSteps \/ ChooserSteps \/ DisablingSteps \/ AccountSteps
                \/ LoseAnswer \/ Continue
                \/ SwitchAccount \/ NoticeAccount

AutosaveSpec == AutosaveInit /\ [][AutosaveNext]_autosaveVars

-----------------------------------------------------------------------------
(* Properties. *)

ChoiceRow == [step : {"none", "choosing", "checking", "unknown"},
              side : {"device", "account"}, copy : Texts, call : CallRow \cup {Unset}]

(* Every record keeps its type. *)
AutosaveTypeOK ==
    /\ editor \in EditorRow
    /\ choice \in ChoiceRow
    /\ disabling \in [step : {"off", "idle", "creating", "deleting", "done"},
                      call : CallRow \cup {Unset}]
    /\ signedIn \in {"own", "other"} /\ noticed \in {"own", "other"}
    /\ \A d \in DraftIds : rows[d].revision \in Nat /\ rows[d].content \in Texts
    /\ late \subseteq Writes
    /\ asked \in Nat

(* "Saved" is shown only when the account stored what the editor shows, and  *)
(* no newer input is covered by it (markSaved, reconcile, adoptDraft); an     *)
(* editor that is empty has nothing to lose.  Once no save runs, every edit  *)
(* the author asked to save is saved or the author was told that it is not,  *)
(* also when it was asked for during a save (flush); a repeated create saves *)
(* the edit it was first sent with.                                         *)
SavingIsTrue ==
    /\ editor.status = "saved" /\ editor.draft # Unset =>
          /\ ~ Unsaved(editor)
          /\ editor.latest \in rows[editor.draft].stored \cup {Empty}
    /\ editor.call = NoCall => asked <= editor.saved

(* The steps that serve a write of this editor, and the revisions they       *)
(* replace or delete.                                                       *)
OwnWrite == ServeCall \/ ServeLate \/ ServeChoice \/ ServeDisabling

ReplacedRevisions ==
    {d \in DraftIds : /\ rows[d].state = "active"
                      /\ \/ rows'[d].content # rows[d].content
                         \/ rows'[d].state = "deleted"}

(* A write of this editor never replaces, without a trace in the history, or *)
(* deletes content of another device that the editor was never told of      *)
(* (baseRevision of every save, expectedRevision of the deletion); and only *)
(* the author replaces input that the account has not stored: adopting a    *)
(* version keeps what was typed since the conflict was found (adoptDraft,   *)
(* preserveLaterConflictEdits).                                             *)
NoVersionIsLost ==
    /\ [][OwnWrite => \A d \in ReplacedRevisions :
             \/ <<d, rows[d].revision>> \in seen \cup replayed
             \/ rows'[d].state = "active" /\ rows[d].content \in rows'[d].kept]_autosaveVars
    /\ [][editor'.latest # editor.latest =>
             \/ editor'.edits > editor.edits
             \/ editor.latest \in rows[editor.draft].stored]_autosaveVars

(* A write of this editor replaces or deletes no content of another device  *)
(* that the editor never showed, unless the history keeps it (comment at    *)
(* the head of createDraftAutosave).                                        *)
ConflictIsNeverOverwritten ==
    [][OwnWrite => \A d \in ReplacedRevisions :
          \/ <<d, rows[d].revision>> \in seen
          \/ rows'[d].state = "active" /\ rows[d].content \in rows'[d].kept]_autosaveVars

(* A request is sent only in the editor's own account, whatever follow-up a  *)
(* late answer starts (accountConfirmed).                                   *)
SentInItsAccount ==
    [][editor'.call # NoCall /\ editor'.call # editor.call /\ editor'.call.at = "sent"
          => signedIn = "own"]_autosaveVars

=============================================================================
