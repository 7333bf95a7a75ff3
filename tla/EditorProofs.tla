----------------------------- MODULE EditorProofs -----------------------------
(***************************************************************************)
(* Theorems about the editor that saves a draft (DraftAutosave), for any     *)
(* contents and bounds.                                                      *)
(*                                                                           *)
(* None of its properties is inductive.  That "saved" is true rests on what  *)
(* is under way: the edit a call, a pending create or a save in doubt        *)
(* carries is the editor's latest one, or an older one with another number   *)
(* (EditIs), so an answer that confirms it confirms exactly that edit; and   *)
(* an answer tells what the draft's row once stored (Tells), which only      *)
(* grows (Gain).  That no version is lost rests on the revision a write      *)
(* names: each one the editor holds, sends or has left behind is a revision  *)
(* it was told of (BasisOK, GoodWrite, LateOK).  Around a conflict and the   *)
(* switching off of saving the editor is still (ChoiceOK, DisablingOK), so   *)
(* that what they read of it stays true until they are done.                 *)
(*                                                                           *)
(* The lemmas follow the code: what a row becomes, what each part of the     *)
(* controller does to an editor, what a whole continuation does, and then    *)
(* one lemma per action.  At the end the editor is put together with the     *)
(* upload manager.                                                           *)
(***************************************************************************)
EXTENDS Editor, UploadManagerProofs, TLAPS

-----------------------------------------------------------------------------
(* The inductive invariant.                                                 *)

(* The revisions the editor knows, and what was ever stored, by draft.      *)
Known == seen \cup replayed
StoredTexts == [d \in DraftIds |-> rows[d].stored]

(* What a draft has, and its copies, was stored.                            *)
RowRow == [state : {"none", "active", "deleted"}, revision : Nat, content : Texts,
           copies : SUBSET Texts, kept : SUBSET Texts, stored : SUBSET Texts]
RowOK(row) == /\ row.copies \subseteq row.stored
              /\ row.state = "none" => row.stored = {}
              /\ row.state # "none" => row.content \in row.stored
RowsOK == rows \in [DraftIds -> RowRow] /\ \A d \in DraftIds : RowOK(rows[d])

(* What is saved over or deleted is a revision the editor knows.            *)
GoodWrite(w, K) == /\ w \in Writes
                   /\ w.kind # "delete" => w.content \in Texts
                   /\ w.kind \in {"save", "delete"} => <<w.draft, w.base>> \in K

(* An answer other than a refusal tells what was stored in the draft.       *)
Tells(answer, stored) ==
    answer.result # "refused" =>
        answer.content \in stored /\ answer.conflict \in stored \cup {Unset}

CallOK(c, K) == /\ c \in CallRow
                /\ c.write # Unset => GoodWrite(c.write, K)
                /\ c.at = "answered" => c.answer \in AnswerRow

(* The edit with a number has this content, if it is the latest.            *)
EditIs(e, version, content) == version <= e.edits /\ (version = e.edits => content = e.latest)

(* The editor without its call.                                             *)
NothingUnsaved(e, S) == \/ e.latest = Empty
                        \/ e.draft = Unset /\ e.latest = Unset
                        \/ e.draft # Unset /\ e.latest \in S[e.draft]

SavedOK(e, S) == /\ e.saved <= e.edits
                 /\ e.saved = e.edits => NothingUnsaved(e, S)
                 /\ e.status = "saved" => e.saved = e.edits
                 /\ e.latest = Unset => e.edits = 0

BasisOK(e, K) == e.draft # Unset => <<e.draft, e.revision>> \in K

ConflictOK(e, S) == e.status = "conflict" =>
    /\ e.draft # Unset /\ e.lost = Unset
    /\ e.conflict \in S[e.draft] \cup {Unset}

DoubtsOK(e) ==
    /\ e.lost # Unset => e.draft # Unset /\ EditIs(e, e.lost.version, e.lost.content)
    /\ e.pending # Unset => /\ e.draft = Unset /\ e.latest # Unset
                            /\ EditIs(e, e.pending.version, e.pending.content)

RestOK(e, K, S) == /\ e \in EditorRow
                   /\ SavedOK(e, S) /\ BasisOK(e, K) /\ ConflictOK(e, S) /\ DoubtsOK(e)

(* The editor's call: a read or a save of its draft, or the create of it.   *)
ReadOK(e, S) == LET c == e.call IN
    /\ c.write = Unset /\ e.draft # Unset
    /\ c.at = "answered" => Tells(c.answer, S[e.draft])
SaveOK(e, S) == LET c == e.call IN
    /\ c.write # Unset /\ c.write.kind = "save" /\ ~ c.then
    /\ c.write.draft = e.draft /\ c.write.content = c.content
    /\ c.at = "answered" => Tells(c.answer, S[e.draft])
    /\ c.at = "answered" /\ c.answer.result = "draft" => c.answer.content = c.content
CreateOK(e, S) == LET c == e.call IN
    /\ c.write # Unset /\ c.write.kind = "create" /\ ~ c.then
    /\ e.draft = Unset /\ e.pending # Unset
    /\ c.at = "answered" => Tells(c.answer, S[c.write.draft])

SavingOK(e, K, S) == e.call # NoCall =>
    /\ e.status # "conflict" /\ e.lost = Unset
    /\ CallOK(e.call, K)
    /\ EditIs(e, e.call.version, e.call.content)
    /\ ReadOK(e, S) \/ SaveOK(e, S) \/ CreateOK(e, S)

EditorOK(e, K, S) == RestOK(e, K, S) /\ SavingOK(e, K, S)

(* A call is sent, and answered with more than a refusal, in the account.   *)
InAccount(e, account) == e.call # NoCall =>
    \/ e.call.at \in {"dropped", "switched"}
    \/ e.call.at = "answered" /\ e.call.answer.result = "refused"
    \/ account = "own"

(* What the author asked for is saved, or will be by the call or after it.  *)
AskedOK(e, n) ==
    \/ n <= e.saved
    \/ /\ e.call # NoCall
       /\ \/ n <= e.call.version \/ e.queued \/ e.call.then
          \/ e.call.write # Unset /\ e.call.write.kind = "create"

(* The chooser: its version was stored, and the conflict is open.           *)
ChoosingOK(K, S) == choice.call # NoCall =>
    /\ CallOK(choice.call, K)
    /\ choice.call.at = "answered" => Tells(choice.call.answer, S[editor.draft])
    /\ \/ choice.step = "checking" /\ choice.call.write = Unset
       \/ /\ choice.step = "choosing" /\ choice.call.write # Unset
          /\ choice.call.write.kind = "resolve" /\ choice.call.write.draft = editor.draft
ChoiceOK(K, S) ==
    /\ choice \in ChoiceRow
    /\ choice.step # "none" =>
          editor.status = "conflict" /\ editor.call = NoCall /\ choice.copy \in S[editor.draft]
    /\ choice.step \in {"choosing", "checking"} => choice.call # NoCall
    /\ ChoosingOK(K, S)

(* Switching off: the editor waits, and the create that is repeated is its. *)
LookingUp(c, S) ==
    /\ c.write.kind = "create"
    /\ c.at = "answered" => Tells(c.answer, S[c.write.draft])
    /\ editor.call = NoCall /\ editor.draft = Unset /\ editor.pending # Unset
    /\ c.version = editor.pending.version /\ c.content = editor.pending.content
DisablingRow == [step : {"off", "idle", "creating", "deleting", "done"},
                 call : CallRow \cup {Unset}]
DisablingOK(K, S) ==
    /\ disabling \in DisablingRow
    /\ disabling.step \in {"idle", "creating"} =>
         editor.suspended /\ (signedIn = "own" => noticed = "own")
    /\ disabling.step = "creating" => LookingUp(disabling.call, S)
    /\ disabling.step \in {"creating", "deleting"} => disabling.call # NoCall
    /\ disabling.call # NoCall =>
         /\ disabling.step \in {"creating", "deleting"}
         /\ CallOK(disabling.call, K) /\ disabling.call.write # Unset

LateOK(K) == \A w \in late : GoodWrite(w, K)

AutosaveInv ==
    /\ RowsOK
    /\ signedIn \in {"own", "other"} /\ noticed \in {"own", "other"}
    /\ EditorOK(editor, Known, StoredTexts)
    /\ InAccount(editor, signedIn)
    /\ ChoiceOK(Known, StoredTexts)
    /\ DisablingOK(Known, StoredTexts)
    /\ LateOK(Known)
    /\ asked \in Nat /\ asked <= editor.edits /\ AskedOK(editor, asked)
-----------------------------------------------------------------------------
(* The account's rows.                                                      *)

LEMMA UnsetIsNoValue ==
    /\ Unset \notin Texts /\ Empty \in Texts
  BY AutosaveAssumption

LEMMA RowFields ==
    ASSUME NEW r \in RowRow
    PROVE  /\ r.state \in {"none", "active", "deleted"} /\ r.revision \in Nat
           /\ r.content \in Texts /\ r.copies \subseteq Texts
           /\ r.kept \subseteq Texts /\ r.stored \subseteq Texts
  BY DEF RowRow

LEMMA RowUpdates ==
    ASSUME NEW r \in RowRow, NEW content \in Texts, NEW n \in Nat,
           NEW s \in {"none", "active", "deleted"}, NEW stored \in SUBSET Texts,
           NEW copies \in SUBSET Texts, NEW kept \in SUBSET Texts
    PROVE  /\ [r EXCEPT !.state = s] \in RowRow
           /\ [r EXCEPT !.content = content, !.revision = n, !.stored = stored] \in RowRow
           /\ [r EXCEPT !.copies = copies, !.stored = stored] \in RowRow
           /\ [r EXCEPT !.kept = kept, !.copies = copies] \in RowRow
  BY DEF RowRow

LEMMA ReplacedRow ==
    ASSUME NEW r \in RowRow, NEW content \in Texts
    PROVE  LET t == Replaced(r, content) IN
           /\ t \in RowRow
           /\ t.state = r.state /\ t.content = content /\ t.revision = r.revision + 1
           /\ t.copies = r.copies /\ t.kept = r.kept /\ t.stored = r.stored \cup {content}
<1>1. r.revision + 1 \in Nat /\ r.stored \cup {content} \in SUBSET Texts
  BY RowFields
<1>2. Replaced(r, content) \in RowRow
  BY <1>1, RowUpdates DEF Replaced
<1> QED  BY <1>2 DEF Replaced, RowRow

(* A save keeps the row's type and its laws, adds to what was stored, and    *)
(* replaces only the revision it names.                                     *)
LEMMA SavedRow ==
    ASSUME NEW r \in RowRow, RowOK(r), NEW content \in Texts, NEW base \in Nat
    PROVE  LET t == AfterSave(r, content, base) IN
           /\ t \in RowRow /\ RowOK(t)
           /\ r.stored \subseteq t.stored
           /\ t.state = r.state
           /\ t.content # r.content => base = r.revision
           /\ r.state = "active" => content \in t.stored
           /\ r.state = "active" /\ (content = r.content \/ base = r.revision)
                => t.content = content
<1>1. CASE r.state # "active" \/ content = r.content
  BY <1>1 DEF AfterSave, RowOK
<1>2. CASE r.state = "active" /\ content # r.content /\ base = r.revision
  <2>1. PICK t : t = AfterSave(r, content, base)
    OBVIOUS
  <2>2. /\ t \in RowRow /\ t.state = r.state /\ t.content = content
        /\ t.copies = r.copies /\ t.stored = r.stored \cup {content}
    BY <1>2, <2>1, ReplacedRow DEF AfterSave
  <2>3. RowOK(t)
    BY <1>2, <2>2 DEF RowOK
  <2> QED  BY <1>2, <2>1, <2>2, <2>3
<1>3. CASE r.state = "active" /\ content # r.content /\ base # r.revision
  <2> DEFINE copies == r.copies \cup {content}
             stored == r.stored \cup {content}
             t == [r EXCEPT !.copies = copies, !.stored = stored]
  <2>1. copies \in SUBSET Texts /\ stored \in SUBSET Texts
    BY RowFields
  <2>2. t \in RowRow
    BY <2>1, RowUpdates
  <2>3. /\ t.copies = copies /\ t.stored = stored /\ t.state = r.state
        /\ t.content = r.content
    BY DEF RowRow
  <2>4. AfterSave(r, content, base) = t
    BY <1>3 DEF AfterSave
  <2>5. RowOK(t)
    BY <1>3, <2>3 DEF RowOK
  <2> QED  BY <1>3, <2>2, <2>3, <2>4, <2>5
<1> QED  BY <1>1, <1>2, <1>3

(* A choice keeps what it replaces.                                         *)
LEMMA ChosenRow ==
    ASSUME NEW r \in RowRow, RowOK(r), NEW copy \in Texts, NEW side \in {"device", "account"}
    PROVE  LET t == AfterChoice(r, copy, side) IN
           /\ t \in RowRow /\ RowOK(t)
           /\ r.stored \subseteq t.stored
           /\ t.state = r.state
           /\ t.content # r.content => r.content \in t.kept
<1>1. CASE r.state # "active" \/ copy \notin r.copies
  BY <1>1 DEF AfterChoice
<1>2. CASE r.state = "active" /\ copy \in r.copies
  <2> DEFINE kept == r.kept \cup {r.content}
             copies == r.copies \ {copy}
             u == [r EXCEPT !.kept = kept, !.copies = copies]
  <2>1. kept \in SUBSET Texts /\ copies \in SUBSET Texts
    BY RowFields
  <2>2. u \in RowRow
    BY <2>1, RowUpdates
  <2>3. /\ u.copies = copies /\ u.kept = kept /\ u.state = r.state
        /\ u.content = r.content /\ u.stored = r.stored
    BY DEF RowRow
  <2>4. AfterChoice(r, copy, side) = IF side = "device" THEN Replaced(u, copy) ELSE u
    BY <1>2 DEF AfterChoice
  <2> HIDE DEF u
  <2>5. RowOK(u)
    BY <1>2, <2>3 DEF RowOK
  <2>6. CASE side = "device"
    BY <1>2, <2>2, <2>3, <2>4, <2>6, ReplacedRow DEF RowOK
  <2>7. CASE side # "device"
    BY <1>2, <2>2, <2>3, <2>4, <2>5, <2>7
  <2> QED  BY <2>6, <2>7
<1> QED  BY <1>1, <1>2

LEMMA DeletedRow ==
    ASSUME NEW r \in RowRow, RowOK(r), NEW revision \in Nat
    PROVE  LET t == AfterDelete(r, revision) IN
           /\ t \in RowRow /\ RowOK(t)
           /\ t.stored = r.stored
           /\ t.content = r.content
           /\ t # r => r.state = "active" /\ revision = r.revision
<1>1. CASE r.state = "active" /\ r.revision = revision /\ r.copies = {}
  <2> DEFINE t == [r EXCEPT !.state = "deleted"]
  <2>1. t \in RowRow /\ t.stored = r.stored /\ t.content = r.content /\ t.copies = r.copies
        /\ t.state = "deleted"
    BY RowUpdates DEF RowRow
  <2>2. AfterDelete(r, revision) = t
    BY <1>1 DEF AfterDelete
  <2>3. RowOK(t)
    BY <1>1, <2>1 DEF RowOK
  <2> QED  BY <1>1, <2>1, <2>2, <2>3
<1>2. CASE ~ (r.state = "active" /\ r.revision = revision /\ r.copies = {})
  BY <1>2 DEF AfterDelete
<1> QED  BY <1>1, <1>2

LEMMA CreatedRow ==
    ASSUME NEW content \in Texts
    PROVE  LET t == NewRow(content) IN
           /\ t \in RowRow /\ RowOK(t)
           /\ t.state = "active"
  BY DEF NewRow, RowRow, RowOK

-----------------------------------------------------------------------------
(* Answers. *)

LEMMA AnswerFields ==
    ASSUME NEW result \in {"draft", "conflict", "refused"}, NEW r \in RowRow,
           NEW conflict \in Texts \cup {Unset}
    PROVE  LET answer == Answer(result, r, conflict) IN
           /\ answer \in AnswerRow
           /\ answer.result = result /\ answer.content = r.content
           /\ answer.revision = r.revision /\ answer.conflict = conflict
  BY RowFields DEF Answer, AnswerRow

LEMMA Refusal == Refused \in AnswerRow /\ Refused.result = "refused"
<1>1. NoRow \in RowRow
  BY UnsetIsNoValue DEF NoRow, RowRow
<1> QED  BY <1>1, AnswerFields DEF Refused

LEMMA RefusalTells == \A stored : Tells(Refused, stored)
  BY Refusal DEF Tells

LEMMA ReadAnswers ==
    ASSUME NEW r \in RowRow, RowOK(r), NEW answer \in Read(r)
    PROVE  answer \in AnswerRow /\ Tells(answer, r.stored)
<1>1. CASE r.state # "active"
  BY <1>1, Refusal, RefusalTells DEF Read
<1>2. CASE r.state = "active" /\ r.copies = {}
  BY <1>2, AnswerFields DEF Read, Tells, RowOK
<1>3. CASE r.state = "active" /\ r.copies # {}
  <2>1. PICK c \in r.copies : answer = Answer("draft", r, c)
    BY <1>3 DEF Read
  <2>2. c \in Texts /\ c \in r.stored /\ r.content \in r.stored
    BY <1>3, RowFields DEF RowOK
  <2> QED  BY <2>1, <2>2, AnswerFields DEF Tells
<1> QED  BY <1>1, <1>2, <1>3

LEMMA SaveAnswered ==
    ASSUME NEW r \in RowRow, RowOK(r), NEW content \in Texts, NEW base \in Nat,
           NEW answer \in SaveAnswers(r, content, base)
    PROVE  /\ answer \in AnswerRow
           /\ Tells(answer, AfterSave(r, content, base).stored)
           /\ answer.result = "draft" => answer.content = content
<1> DEFINE t == AfterSave(r, content, base)
<1>0. /\ t \in RowRow /\ RowOK(t) /\ r.stored \subseteq t.stored /\ t.state = r.state
      /\ r.state = "active" => content \in t.stored
      /\ r.state = "active" /\ (content = r.content \/ base = r.revision) => t.content = content
  BY SavedRow
<1> HIDE DEF t
<1>1. CASE r.state # "active"
  BY <1>1, Refusal, RefusalTells DEF SaveAnswers
<1>2. CASE r.state = "active" /\ (content = r.content \/ base = r.revision)
  <2>1. answer = Answer("draft", t, Unset)
    BY <1>2 DEF SaveAnswers, t
  <2>2. t.content = content /\ content \in t.stored
    BY <1>0, <1>2
  <2> QED  BY <1>0, <2>1, <2>2, AnswerFields DEF Tells, t
<1>3. CASE r.state = "active" /\ ~ (content = r.content \/ base = r.revision)
  <2>1. answer = Answer("conflict", r, content)
    BY <1>3 DEF SaveAnswers
  <2>2. r.content \in t.stored /\ content \in t.stored
    BY <1>0, <1>3 DEF RowOK
  <2> QED  BY <2>1, <2>2, AnswerFields DEF Tells, t
<1> QED  BY <1>1, <1>2, <1>3

-----------------------------------------------------------------------------
(* A write that is served. *)

LEMMA WriteFields ==
    ASSUME NEW w \in Writes
    PROVE  /\ w.kind \in {"create", "save", "resolve", "delete"} /\ w.draft \in DraftIds
           /\ w.base \in Nat
  BY DEF Writes

Content(w) == w.kind # "delete" => w.content \in Texts

(* What is replaced without a trace or deleted is the revision the write     *)
(* names, when it is a save or a deletion.                                  *)
NamesWhatItReplaces(w, row, next) ==
    row.state = "active" /\ (next.content # row.content \/ next.state = "deleted") =>
        \/ w.kind \in {"save", "delete"} /\ w.base = row.revision
        \/ next.state = "active" /\ row.content \in next.kept

LEMMA ServedRow ==
    ASSUME RowsOK, NEW w \in Writes, Content(w)
    PROVE  LET row == rows[w.draft]
               next == RowAfter(w)
           IN /\ next \in RowRow /\ RowOK(next)
              /\ row.stored \subseteq next.stored
              /\ NamesWhatItReplaces(w, row, next)
<1> DEFINE row == rows[w.draft]
           next == RowAfter(w)
<1>0. /\ row \in RowRow /\ RowOK(row)
      /\ w.kind \in {"create", "save", "resolve", "delete"} /\ w.base \in Nat
  BY WriteFields DEF RowsOK
<1>1. CASE w.kind = "create"
  <2>1. next = IF row.state = "none" THEN NewRow(w.content) ELSE row
    BY <1>1 DEF RowAfter
  <2>2. row.state = "none" => row.stored = {}
    BY <1>0 DEF RowOK
  <2> HIDE DEF row, next
  <2>3. NewRow(w.content) \in RowRow /\ RowOK(NewRow(w.content)) /\ NewRow(w.content).state = "active"
    BY <1>1, CreatedRow DEF Content
  <2>4. next \in RowRow /\ RowOK(next) /\ row.stored \subseteq next.stored
    BY <1>0, <2>1, <2>2, <2>3
  <2>5. NamesWhatItReplaces(w, row, next)
    BY <2>1 DEF NamesWhatItReplaces
  <2> QED  BY <2>4, <2>5 DEF row, next
<1>2. CASE w.kind = "save"
  <2>1. next = AfterSave(row, w.content, w.base)
    BY <1>2 DEF RowAfter
  <2> HIDE DEF row, next
  <2>2. /\ next \in RowRow /\ RowOK(next) /\ row.stored \subseteq next.stored
        /\ next.state = row.state
        /\ next.content # row.content => w.base = row.revision
    BY <1>0, <1>2, <2>1, SavedRow DEF Content
  <2>3. NamesWhatItReplaces(w, row, next)
    BY <1>2, <2>2 DEF NamesWhatItReplaces
  <2> QED  BY <2>2, <2>3 DEF row, next
<1>3. CASE w.kind = "resolve"
  <2>1. next = AfterChoice(row, w.content, Side(w))
    BY <1>3 DEF RowAfter
  <2>2. Side(w) \in {"device", "account"}
    BY DEF Side
  <2> HIDE DEF row, next
  <2>3. /\ next \in RowRow /\ RowOK(next) /\ row.stored \subseteq next.stored
        /\ next.state = row.state
        /\ next.content # row.content => row.content \in next.kept
    BY <1>0, <1>3, <2>1, <2>2, ChosenRow DEF Content
  <2>4. NamesWhatItReplaces(w, row, next)
    BY <2>3 DEF NamesWhatItReplaces
  <2> QED  BY <2>3, <2>4 DEF row, next
<1>4. CASE w.kind = "delete"
  <2>1. next = AfterDelete(row, w.base)
    BY <1>4 DEF RowAfter
  <2> HIDE DEF row, next
  <2>2. /\ next \in RowRow /\ RowOK(next) /\ row.stored \subseteq next.stored
        /\ next # row => w.base = row.revision
    BY <1>0, <1>4, <2>1, DeletedRow
  <2>3. NamesWhatItReplaces(w, row, next)
    BY <1>4, <2>2 DEF NamesWhatItReplaces
  <2> QED  BY <2>2, <2>3 DEF row, next
<1> QED  BY <1>0, <1>1, <1>2, <1>3, <1>4

(* What the account answers is true of the row after the write.             *)
LEMMA ServedAnswer ==
    ASSUME RowsOK, NEW w \in Writes, Content(w), NEW answer \in AnswersTo(w)
    PROVE  /\ answer \in AnswerRow
           /\ Tells(answer, RowAfter(w).stored)
           /\ w.kind = "save" /\ answer.result = "draft" => answer.content = w.content
<1> DEFINE row == rows[w.draft]
           next == RowAfter(w)
<1>0. /\ row \in RowRow /\ RowOK(row)
      /\ w.kind \in {"create", "save", "resolve", "delete"} /\ w.base \in Nat
  BY WriteFields DEF RowsOK
<1>1. next \in RowRow /\ RowOK(next) /\ row.stored \subseteq next.stored
  BY ServedRow
<1>2. CASE w.kind = "create"
  <2>1. answer \in Read(next)
    BY <1>2 DEF AnswersTo
  <2> HIDE DEF next
  <2> QED  BY <1>1, <1>2, <2>1, ReadAnswers DEF next
<1>3. CASE w.kind = "save"
  <2>1. answer \in SaveAnswers(row, w.content, w.base) /\ next = AfterSave(row, w.content, w.base)
    BY <1>3 DEF AnswersTo, RowAfter
  <2> HIDE DEF next, row
  <2> QED  BY <1>0, <1>3, <2>1, SaveAnswered DEF next, Content
<1>4. CASE w.kind = "resolve"
  <2>1. answer \in Read(next) \/ answer = Refused
    BY <1>4 DEF AnswersTo
  <2> HIDE DEF next
  <2> QED  BY <1>1, <1>4, <2>1, ReadAnswers, Refusal, RefusalTells DEF next
<1>5. CASE w.kind = "delete"
  <2>1. answer = Refused \/ (answer = Answer("draft", row, Unset) /\ next # row)
    BY <1>5 DEF AnswersTo
  <2>2. next = AfterDelete(row, w.base)
    BY <1>5 DEF RowAfter
  <2> HIDE DEF next, row
  <2>3. next # row => row.state = "active"
    BY <1>0, <2>2, DeletedRow
  <2>4. row.state = "active" => row.content \in next.stored
    BY <1>0, <1>1 DEF RowOK
  <2> QED  BY <1>0, <1>5, <2>1, <2>3, <2>4, AnswerFields, Refusal, RefusalTells DEF Tells, next
<1> QED  BY <1>0, <1>2, <1>3, <1>4, <1>5

(* Rows only gain: what was stored stays so.                                *)
Gain(S, T) == \A d \in DraftIds : S[d] \subseteq T[d]

LEMMA RowReplaced ==
    ASSUME RowsOK, NEW d \in DraftIds, NEW r \in RowRow, RowOK(r),
           rows[d].stored \subseteq r.stored, rows' = [rows EXCEPT ![d] = r]
    PROVE  /\ RowsOK' /\ Gain(StoredTexts, StoredTexts')
           /\ StoredTexts'[d] = r.stored
<1>1. rows' \in [DraftIds -> RowRow]
  BY DEF RowsOK
<1>2. \A c \in DraftIds : rows'[c] = IF c = d THEN r ELSE rows[c]
  BY DEF RowsOK
<1>3. RowsOK'
  BY <1>1, <1>2 DEF RowsOK
<1> QED  BY <1>2, <1>3 DEF Gain, StoredTexts

LEMMA RowsSame ==
    ASSUME RowsOK, UNCHANGED rows
    PROVE  RowsOK' /\ StoredTexts' = StoredTexts /\ Gain(StoredTexts, StoredTexts')
  BY DEF RowsOK, StoredTexts, Gain

LEMMA Served ==
    ASSUME RowsOK, NEW w \in Writes, Content(w), NEW answer, Serve(w, answer)
    PROVE  /\ RowsOK' /\ Gain(StoredTexts, StoredTexts')
           /\ answer \in AnswerRow /\ Tells(answer, StoredTexts'[w.draft])
           /\ w.kind = "save" /\ answer.result = "draft" => answer.content = w.content
<1>1. CASE answer = Refused /\ UNCHANGED rows
  BY <1>1, RowsSame, Refusal, RefusalTells
<1>2. CASE answer \in AnswersTo(w) /\ rows' = [rows EXCEPT ![w.draft] = RowAfter(w)]
  <2>1. /\ RowAfter(w) \in RowRow /\ RowOK(RowAfter(w))
        /\ rows[w.draft].stored \subseteq RowAfter(w).stored /\ w.draft \in DraftIds
    BY ServedRow, WriteFields
  <2>2. RowsOK' /\ Gain(StoredTexts, StoredTexts') /\ StoredTexts'[w.draft] = RowAfter(w).stored
    BY <1>2, <2>1, RowReplaced
  <2> QED  BY <1>2, <2>2, ServedAnswer
<1> QED  BY <1>1, <1>2 DEF Serve

-----------------------------------------------------------------------------
(* The editor's record. *)

Calls == CallRow \cup {Unset}
Pendings == PendingRow \cup {Unset}
Losts == LostRow \cup {Unset}
Values == Texts \cup {Unset}
Drafts == DraftIds \cup {Unset}

LEMMA EditorFields ==
    ASSUME NEW e \in EditorRow
    PROVE  /\ e.status \in Statuses /\ e.draft \in Drafts /\ e.revision \in Nat
           /\ e.edits \in Nat /\ e.saved \in Nat /\ e.latest \in Values
           /\ e.conflict \in Values /\ e.queued \in BOOLEAN /\ e.suspended \in BOOLEAN
           /\ e.pending \in Pendings /\ e.lost \in Losts /\ e.requests \in Nat
           /\ e.call \in Calls
  BY DEF EditorRow, Drafts, Values, Pendings, Losts, Calls

LEMMA EditorRecord ==
    EditorRow = [status : Statuses, draft : Drafts, revision : Nat, edits : Nat, saved : Nat,
                 latest : Values, conflict : Values, queued : BOOLEAN, suspended : BOOLEAN,
                 pending : Pendings, lost : Losts, requests : Nat, call : Calls]
  BY DEF EditorRow, Drafts, Values, Pendings, Losts, Calls

(* What a step leaves alone. *)
SameText(e, f) == f.latest = e.latest /\ f.edits = e.edits
SameDoubts(e, f) == f.pending = e.pending /\ f.lost = e.lost /\ f.requests = e.requests
SameFlags(e, f) == f.queued = e.queued /\ f.suspended = e.suspended

LEMMA CheckedEditor ==
    ASSUME NEW e \in EditorRow
    PROVE  /\ Checked(e) \in EditorRow
           /\ SameText(e, Checked(e)) /\ SameDoubts(e, Checked(e))
           /\ Checked(e).status = e.status /\ Checked(e).draft = e.draft
           /\ Checked(e).revision = e.revision /\ Checked(e).saved = e.saved
           /\ Checked(e).conflict = e.conflict /\ Checked(e).queued = e.queued
           /\ Checked(e).call = e.call
           /\ Checked(e).suspended = (e.suspended \/ signedIn # "own")
<1>1. PICK suspended \in BOOLEAN : suspended = (e.suspended \/ signedIn # "own")
  OBVIOUS
<1>2. Checked(e) = [e EXCEPT !.suspended = suspended]
  BY <1>1 DEF Checked
<1>3. Checked(e) \in EditorRow
  BY <1>2, EditorRecord
<1> QED  BY <1>1, <1>2, <1>3, EditorRecord DEF SameText, SameDoubts

LEMMA MarkedSaved ==
    ASSUME NEW e \in EditorRow, NEW draft \in DraftIds, NEW answer \in AnswerRow,
           NEW version \in Nat
    PROVE  LET f == MarkSaved(e, draft, answer, version)
               saved == Larger(e.saved, version)
           IN /\ f \in EditorRow
              /\ SameText(e, f) /\ SameDoubts(e, f) /\ SameFlags(e, f)
              /\ f.call = e.call /\ f.draft = draft /\ f.revision = answer.revision
              /\ f.saved = saved /\ saved \in Nat /\ f.conflict = Unset
              /\ f.status = IF e.edits > saved THEN "pending" ELSE "saved"
<1> DEFINE f == MarkSaved(e, draft, answer, version)
<1>1. PICK saved \in Nat : saved = Larger(e.saved, version)
  BY EditorFields DEF Larger
<1>2. PICK status \in Statuses : status = IF e.edits > saved THEN "pending" ELSE "saved"
  BY DEF Statuses
<1>3. answer.revision \in Nat /\ Unset \in Values /\ draft \in Drafts
  BY DEF AnswerRow, Values, Drafts
<1>4. f = [e EXCEPT !.draft = draft, !.revision = answer.revision, !.saved = saved,
                    !.conflict = Unset, !.status = status]
  BY <1>1, <1>2 DEF MarkSaved
<1>5. f \in EditorRow
  BY <1>3, <1>4, EditorRecord
<1>6. /\ f.call = e.call /\ f.draft = draft /\ f.revision = answer.revision
      /\ f.saved = saved /\ f.conflict = Unset /\ f.status = status
      /\ SameText(e, f) /\ SameDoubts(e, f) /\ SameFlags(e, f)
  BY <1>4, EditorRecord DEF SameText, SameDoubts, SameFlags
<1> HIDE DEF f
<1> QED  BY <1>1, <1>2, <1>5, <1>6 DEF f

LEMMA SentCall ==
    ASSUME NEW write \in Writes \cup {Unset}, NEW version \in Nat, NEW base \in Nat,
           NEW content \in Texts, NEW then \in BOOLEAN
    PROVE  LET c == Sent(write, content, version, base, then) IN
           /\ c \in CallRow /\ c # NoCall
           /\ c.write = write /\ c.at = "sent" /\ c.version = version
           /\ c.base = base /\ c.content = content /\ c.then = then
<1>1. Sent(write, content, version, base, then) \in CallRow
  BY DEF Sent, CallRow
<1> QED  BY <1>1, UnsetAssumption DEF Sent, NoCall

LEMMA CallFields ==
    ASSUME NEW c \in CallRow
    PROVE  /\ c.write \in Writes \cup {Unset}
           /\ c.at \in {"sent", "answered", "dropped", "switched"}
           /\ c.answer \in AnswerRow \cup {Unset} /\ c.version \in Nat /\ c.base \in Nat
           /\ c.content \in Texts /\ c.then \in BOOLEAN
  BY DEF CallRow

LEMMA WriteMade ==
    ASSUME NEW kind \in {"create", "save", "resolve", "delete"}, NEW d \in DraftIds,
           NEW content \in Texts \cup {Unset}, NEW base \in Nat
    PROVE  LET w == Write(kind, d, content, base) IN
           /\ w \in Writes /\ w # Unset
           /\ w.kind = kind /\ w.draft = d /\ w.content = content /\ w.base = base
<1>1. Write(kind, d, content, base) \in Writes
  BY DEF Write, Writes
<1> QED  BY <1>1, UnsetAssumption DEF Write

LEMMA PendingFields ==
    /\ \A p \in PendingRow : p.request \in DraftIds /\ p.content \in Texts /\ p.version \in Nat
    /\ \A p \in LostRow : p.content \in Texts /\ p.version \in Nat /\ p.base \in Nat
  BY DEF PendingRow, LostRow

(* What only the call, the status and the doubts of a save change.          *)
SameDraft(e, f) == /\ f.draft = e.draft /\ f.revision = e.revision /\ f.saved = e.saved
                   /\ f.conflict = e.conflict

(* A read is sent, or waits for the account.                                *)
LEMMA ReconcileEditor ==
    ASSUME NEW e \in EditorRow, NEW content \in Texts, NEW version \in Nat, NEW base \in Nat,
           NEW then \in BOOLEAN
    PROVE  LET f == Reconcile(e, content, version, base, then) IN
           /\ f \in EditorRow
           /\ SameText(e, f) /\ SameDraft(e, f)
           /\ f.pending = e.pending /\ f.requests = e.requests /\ f.queued = e.queued
           /\ Confirmed(e) =>
                /\ f.suspended = e.suspended /\ f.status = "reconciling" /\ f.lost = Unset
                /\ f.call = Sent(Unset, content, version, base, then)
           /\ ~ Confirmed(e) =>
                /\ f.suspended /\ f.status = "error" /\ f.call = NoCall
                /\ f.lost # Unset /\ f.lost.content = content /\ f.lost.version = version
<1> DEFINE f == Reconcile(e, content, version, base, then)
<1>0. Unset \in Calls /\ Unset \in Losts /\ "error" \in Statuses /\ "reconciling" \in Statuses
  BY DEF Calls, Losts, Statuses
<1>1. CASE ~ Confirmed(e)
  <2>1. PICK lost \in LostRow : lost = [content |-> content, version |-> version, base |-> base]
    BY DEF LostRow
  <2>2. PICK g \in EditorRow : g = Checked(e)
    BY CheckedEditor
  <2>3. /\ SameText(e, g) /\ SameDoubts(e, g) /\ SameDraft(e, g)
        /\ g.queued = e.queued /\ g.suspended
    BY <1>1, <2>2, CheckedEditor, EditorFields DEF Confirmed, SameDraft
  <2>4. f = [g EXCEPT !.status = "error", !.call = NoCall, !.lost = lost]
    BY <1>1, <2>1, <2>2 DEF Reconcile
  <2>5. lost \in Losts /\ NoCall \in Calls /\ lost # Unset
    BY <1>0, UnsetAssumption DEF Losts, NoCall
  <2>6. f \in EditorRow
    BY <1>0, <2>4, <2>5, EditorRecord
  <2>7. /\ SameText(g, f) /\ SameDraft(g, f) /\ f.pending = g.pending
        /\ f.requests = g.requests /\ f.queued = g.queued /\ f.suspended = g.suspended
        /\ f.status = "error" /\ f.call = NoCall /\ f.lost = lost
    BY <2>4, EditorRecord DEF SameText, SameDraft
  <2> HIDE DEF f
  <2>8. lost.content = content /\ lost.version = version
    BY <2>1
  <2>9. /\ f.suspended /\ f.lost # Unset
        /\ f.lost.content = content /\ f.lost.version = version
    BY <2>3, <2>5, <2>7, <2>8
  <2>10. SameText(e, f) /\ SameDraft(e, f) /\ f.pending = e.pending
         /\ f.requests = e.requests /\ f.queued = e.queued
    BY <2>3, <2>7 DEF SameText, SameDraft, SameDoubts
  <2> QED  BY <1>1, <2>6, <2>7, <2>9, <2>10 DEF f
<1>2. CASE Confirmed(e)
  <2>1. PICK c \in CallRow : c = Sent(Unset, content, version, base, then)
    BY SentCall
  <2>2. f = [e EXCEPT !.status = "reconciling", !.lost = Unset, !.call = c]
    BY <1>2, <2>1 DEF Reconcile
  <2>3. f \in EditorRow
    BY <1>0, <2>2, EditorRecord DEF Calls
  <2>4. /\ SameText(e, f) /\ SameDraft(e, f) /\ f.pending = e.pending
        /\ f.requests = e.requests /\ f.queued = e.queued /\ f.suspended = e.suspended
        /\ f.status = "reconciling" /\ f.lost = Unset /\ f.call = c
    BY <2>2, EditorRecord DEF SameText, SameDraft
  <2> QED  BY <1>2, <2>1, <2>3, <2>4
<1> QED  BY <1>1, <1>2

LEMMA SavingEditor ==
    ASSUME NEW e \in EditorRow, e.draft # Unset, e.latest # Unset
    PROVE  LET f == SendSave(e)
               w == Write("save", e.draft, e.latest, e.revision)
           IN /\ f \in EditorRow
              /\ SameText(e, f) /\ SameDraft(e, f) /\ SameDoubts(e, f) /\ SameFlags(e, f)
              /\ f.status = "saving"
              /\ f.call = Sent(w, e.latest, e.edits, e.revision, FALSE)
              /\ f.call \in CallRow
<1> DEFINE f == SendSave(e)
<1>1. /\ e.draft \in DraftIds /\ e.latest \in Texts /\ e.edits \in Nat /\ e.revision \in Nat
  BY EditorFields DEF Drafts, Values
<1>2. PICK w \in Writes : w = Write("save", e.draft, e.latest, e.revision)
  BY <1>1, WriteMade
<1>3. PICK c \in CallRow : c = Sent(w, e.latest, e.edits, e.revision, FALSE)
  BY <1>1, SentCall
<1>4. f = [e EXCEPT !.status = "saving", !.call = c]
  BY <1>2, <1>3 DEF SendSave
<1>5. f \in EditorRow
  BY <1>4, EditorRecord DEF Calls, Statuses
<1>6. /\ SameText(e, f) /\ SameDraft(e, f) /\ SameDoubts(e, f) /\ SameFlags(e, f)
      /\ f.status = "saving" /\ f.call = c
  BY <1>4, EditorRecord DEF SameText, SameDraft, SameDoubts, SameFlags
<1> QED  BY <1>2, <1>3, <1>5, <1>6

(* The create is the one that is in doubt, or of all that is typed.         *)
LEMMA CreatingEditor ==
    ASSUME NEW e \in EditorRow, e.latest # Unset,
           e.pending = Unset => e.requests < MaxRequests
    PROVE  LET f == SendCreate(e) IN
           /\ f \in EditorRow
           /\ SameText(e, f) /\ SameDraft(e, f) /\ SameFlags(e, f)
           /\ f.lost = e.lost /\ f.status = "saving"
           /\ f.pending \in PendingRow
           /\ e.pending # Unset => f.pending = e.pending
           /\ e.pending = Unset => f.pending.version = e.edits /\ f.pending.content = e.latest
           /\ f.call = Sent(Write("create", f.pending.request, f.pending.content, 0),
                            f.pending.content, f.pending.version, 0, FALSE)
           /\ f.call \in CallRow
<1> DEFINE f == SendCreate(e)
<1>0. e.latest \in Texts /\ e.edits \in Nat /\ e.requests \in Nat
  BY EditorFields DEF Values
<1>1. PICK p \in PendingRow : /\ p = Creation(e)
                              /\ e.pending # Unset => p = e.pending
                              /\ e.pending = Unset => p.version = e.edits /\ p.content = e.latest
  <2>1. CASE e.pending # Unset
    <3>1. e.pending \in PendingRow
      BY <2>1, EditorFields DEF Pendings
    <3> QED  BY <2>1, <3>1 DEF Creation
  <2>2. CASE e.pending = Unset
    <3>1. e.requests + 1 \in DraftIds
      BY <1>0, <2>2, AutosaveAssumption DEF DraftIds
    <3>2. PICK p \in PendingRow :
            p = [request |-> e.requests + 1, content |-> e.latest, version |-> e.edits]
      BY <1>0, <3>1 DEF PendingRow
    <3>3. p.version = e.edits /\ p.content = e.latest
      BY <3>2
    <3>4. p = Creation(e)
      BY <2>2, <3>2 DEF Creation
    <3> QED  BY <2>2, <3>3, <3>4
  <2> QED  BY <2>1, <2>2
<1>2. p.request \in DraftIds /\ p.content \in Texts /\ p.version \in Nat
  BY PendingFields
<1>3. PICK w \in Writes : w = Write("create", p.request, p.content, 0)
  BY <1>2, WriteMade
<1>4. PICK c \in CallRow : c = Sent(w, p.content, p.version, 0, FALSE)
  BY <1>2, SentCall
<1>5. PICK n \in Nat : n = Larger(e.requests, p.request)
  BY <1>0, <1>2, AutosaveAssumption DEF Larger, DraftIds
<1>6. f = [e EXCEPT !.status = "saving", !.pending = p, !.requests = n, !.call = c]
  BY <1>1, <1>3, <1>4, <1>5 DEF SendCreate
<1>7. f \in EditorRow
  BY <1>6, EditorRecord DEF Calls, Statuses, Pendings
<1>8. /\ SameText(e, f) /\ SameDraft(e, f) /\ SameFlags(e, f)
      /\ f.status = "saving" /\ f.call = c /\ f.pending = p /\ f.lost = e.lost
  BY <1>6, EditorRecord DEF SameText, SameDraft, SameFlags
<1> QED  BY <1>1, <1>3, <1>4, <1>7, <1>8

-----------------------------------------------------------------------------
(* Each operator of the controller keeps what the invariant says.           *)

LEMMA RestKept ==
    ASSUME NEW K, NEW S, NEW e, RestOK(e, K, S), NEW f \in EditorRow,
           SameText(e, f), f.draft = e.draft, f.revision = e.revision, f.saved = e.saved,
           DoubtsOK(f), f.status \notin {"saved", "conflict"}
    PROVE  RestOK(f, K, S)
  BY DEF RestOK, SavedOK, NothingUnsaved, BasisOK, ConflictOK, SameText

LEMMA DoubtsKept ==
    ASSUME NEW e, DoubtsOK(e), NEW f, SameText(e, f), f.draft = e.draft,
           f.pending = e.pending, f.lost = e.lost
    PROVE  DoubtsOK(f)
  BY DEF DoubtsOK, EditIs, SameText

(* All that is asked is settled by what is sent, or there is a conflict.    *)
Settles(f) == \A n \in Nat : n <= f.edits => AskedOK(f, n) \/ f.status = "conflict"

LEMMA SendOK ==
    ASSUME NEW K, NEW S, NEW e, RestOK(e, K, S), e.call = NoCall, e.lost = Unset,
           e.draft = Unset /\ e.pending = Unset => e.requests < MaxRequests
    PROVE  LET f == Send(e) IN
           /\ EditorOK(f, K, S)
           /\ SameText(e, f) /\ f.draft = e.draft /\ f.suspended = e.suspended
           /\ e.status = "conflict" => f = e
           /\ f.status = "reconciling" => e.status = "reconciling"
           /\ Settles(f)
<1> DEFINE f == Send(e)
<1>0. /\ e \in EditorRow /\ SavedOK(e, S) /\ BasisOK(e, K) /\ ConflictOK(e, S) /\ DoubtsOK(e)
      /\ e.edits \in Nat /\ e.saved \in Nat
  BY EditorFields DEF RestOK
<1>1. CASE e.latest = Unset \/ e.status = "conflict"
  <2>1. f = e
    BY <1>1 DEF Send
  <2>2. EditorOK(e, K, S)
    BY DEF EditorOK, SavingOK
  <2>3. Settles(e)
    BY <1>0, <1>1 DEF Settles, SavedOK, AskedOK
  <2> QED  BY <1>1, <2>1, <2>2, <2>3 DEF SameText
<1>2. CASE e.latest = Empty /\ e.draft = Unset /\ e.status # "conflict" /\ e.latest # Unset
  <2>1. f = [e EXCEPT !.status = "idle", !.saved = e.edits]
    BY <1>2 DEF Send
  <2>2. f \in EditorRow
    BY <1>0, <2>1, EditorRecord DEF Statuses
  <2>3. /\ SameText(e, f) /\ SameDoubts(e, f) /\ SameFlags(e, f) /\ f.call = e.call
        /\ f.draft = e.draft /\ f.revision = e.revision /\ f.saved = f.edits /\ f.status = "idle"
    BY <1>0, <2>1, EditorRecord DEF SameText, SameDoubts, SameFlags
  <2> HIDE DEF f
  <2>4. DoubtsOK(f)
    BY <1>0, <2>3, DoubtsKept DEF SameDoubts
  <2>5. SavedOK(f, S) /\ BasisOK(f, K) /\ ConflictOK(f, S)
    BY <1>0, <1>2, <2>3 DEF SavedOK, NothingUnsaved, BasisOK, ConflictOK, SameText
  <2>6. EditorOK(f, K, S)
    BY <2>2, <2>3, <2>4, <2>5 DEF EditorOK, RestOK, SavingOK
  <2>7. Settles(f)
    BY <2>3 DEF Settles, AskedOK
  <2> QED  BY <1>2, <2>3, <2>6, <2>7 DEF f, SameFlags
<1>3. CASE e.latest # Empty /\ e.draft = Unset /\ e.status # "conflict" /\ e.latest # Unset
  <2>1. f = SendCreate(e)
    BY <1>3 DEF Send
  <2>2. PICK p \in PendingRow : p = f.pending
    BY <1>0, <1>3, <2>1, CreatingEditor
  <2>3. PICK w \in Writes : w = Write("create", p.request, p.content, 0)
    BY PendingFields, WriteMade
  <2>4. PICK c \in CallRow : c = Sent(w, p.content, p.version, 0, FALSE)
    BY PendingFields, SentCall
  <2>5. /\ f \in EditorRow
        /\ SameText(e, f) /\ SameDraft(e, f) /\ SameFlags(e, f)
        /\ f.lost = Unset /\ f.status = "saving" /\ f.call = c
        /\ e.pending # Unset => p = e.pending
        /\ e.pending = Unset => p.version = e.edits /\ p.content = e.latest
    BY <1>0, <1>3, <2>1, <2>2, <2>3, <2>4, CreatingEditor
  <2> HIDE DEF f
  <2>6. EditIs(f, p.version, p.content)
    BY <1>0, <2>5 DEF DoubtsOK, EditIs, SameText
  <2>7. p.request \in DraftIds /\ p.content \in Texts /\ p.version \in Nat /\ p # Unset
    BY PendingFields, UnsetAssumption
  <2>8. /\ w # Unset /\ w.kind = "create" /\ w.content = p.content
    BY <2>3, <2>7, WriteMade
  <2>9. /\ c.write = w /\ c.at = "sent" /\ c.version = p.version
        /\ c.content = p.content /\ ~ c.then
    BY <2>4 DEF Sent
  <2>10. DoubtsOK(f)
    BY <1>3, <2>2, <2>5, <2>6 DEF DoubtsOK, SameDraft, SameText
  <2>11. RestOK(f, K, S)
    BY <2>5, <2>10, RestKept DEF SameDraft
  <2>12. CreateOK(f, S) /\ CallOK(c, K)
    BY <1>3, <2>2, <2>5, <2>7, <2>8, <2>9 DEF CreateOK, CallOK, GoodWrite, SameDraft
  <2>13. EditorOK(f, K, S)
    BY <2>5, <2>6, <2>9, <2>11, <2>12 DEF EditorOK, SavingOK
  <2>14. Settles(f)
    BY <2>5, <2>8, <2>9, UnsetAssumption DEF Settles, AskedOK, NoCall
  <2> QED  BY <1>3, <2>5, <2>13, <2>14 DEF f, SameDraft, SameFlags
<1>4. CASE e.draft # Unset /\ e.status # "conflict" /\ e.latest # Unset /\ ~ Unsaved(e)
  <2>1. f = [e EXCEPT !.status = "saved"]
    BY <1>4 DEF Send
  <2>2. f \in EditorRow
    BY <1>0, <2>1, EditorRecord DEF Statuses
  <2>3. /\ SameText(e, f) /\ SameDoubts(e, f) /\ SameFlags(e, f) /\ f.call = e.call
        /\ f.draft = e.draft /\ f.revision = e.revision /\ f.saved = e.saved
        /\ f.status = "saved"
    BY <1>0, <2>1, EditorRecord DEF SameText, SameDoubts, SameFlags
  <2> HIDE DEF f
  <2>4. DoubtsOK(f)
    BY <1>0, <2>3, DoubtsKept DEF SameDoubts
  <2>5. e.saved = e.edits
    BY <1>0, <1>4 DEF Unsaved, SavedOK
  <2>6. SavedOK(f, S) /\ BasisOK(f, K) /\ ConflictOK(f, S)
    BY <1>0, <2>3, <2>5 DEF SavedOK, NothingUnsaved, BasisOK, ConflictOK, SameText
  <2>7. EditorOK(f, K, S)
    BY <2>2, <2>3, <2>4, <2>6 DEF EditorOK, RestOK, SavingOK
  <2>8. Settles(f)
    BY <1>0, <2>3, <2>5 DEF Settles, AskedOK, SameText
  <2> QED  BY <1>4, <2>3, <2>7, <2>8 DEF f, SameFlags
<1>5. CASE e.draft # Unset /\ e.status # "conflict" /\ e.latest # Unset /\ Unsaved(e)
  <2>1. f = SendSave(e)
    BY <1>5 DEF Send
  <2>2. e.draft \in DraftIds /\ e.latest \in Texts /\ e.revision \in Nat
    BY <1>0, <1>5, EditorFields DEF Drafts, Values
  <2>3. PICK w \in Writes : w = Write("save", e.draft, e.latest, e.revision)
    BY <2>2, WriteMade
  <2>4. PICK c \in CallRow : c = Sent(w, e.latest, e.edits, e.revision, FALSE)
    BY <1>0, <2>2, SentCall
  <2>5. /\ f \in EditorRow
        /\ SameText(e, f) /\ SameDraft(e, f) /\ SameDoubts(e, f) /\ SameFlags(e, f)
        /\ f.status = "saving" /\ f.call = c
    BY <1>0, <1>5, <2>1, <2>3, <2>4, SavingEditor
  <2> HIDE DEF f
  <2>6. /\ w # Unset /\ w.kind = "save" /\ w.content = e.latest /\ w.draft = e.draft
        /\ w.base = e.revision
    BY <2>2, <2>3, WriteMade
  <2>7. /\ c.write = w /\ c.at = "sent" /\ c.version = e.edits
        /\ c.content = e.latest /\ ~ c.then
    BY <2>4 DEF Sent
  <2>8. DoubtsOK(f)
    BY <1>0, <2>5, DoubtsKept DEF SameDoubts, SameDraft
  <2>9. RestOK(f, K, S)
    BY <2>5, <2>8, RestKept DEF SameDraft
  <2>10. SaveOK(f, S) /\ CallOK(c, K)
    BY <1>0, <1>5, <2>2, <2>5, <2>6, <2>7 DEF SaveOK, CallOK, GoodWrite, SameDraft, BasisOK
  <2>11. EditorOK(f, K, S)
    BY <1>0, <2>5, <2>7, <2>9, <2>10 DEF EditorOK, SavingOK, EditIs, SameText, SameDoubts
  <2>12. Settles(f)
    BY <2>5, <2>7, UnsetAssumption DEF Settles, AskedOK, NoCall, SameText
  <2> QED  BY <1>5, <2>5, <2>11, <2>12 DEF f, SameDraft, SameFlags
<1> QED  BY <1>1, <1>2, <1>3, <1>4, <1>5

LEMMA StartOK ==
    ASSUME NEW K, NEW S, NEW e, RestOK(e, K, S), e.call = NoCall,
           e.draft = Unset /\ e.pending = Unset => e.requests < MaxRequests
    PROVE  LET f == Start(e) IN
           /\ EditorOK(f, K, S)
           /\ InAccount(f, signedIn)
           /\ SameText(e, f) /\ f.draft = e.draft /\ (e.suspended => f.suspended)
           /\ e.suspended => f.pending = e.pending /\ f.call = NoCall
           /\ e.status = "conflict" => f.status = "conflict" /\ f.call = NoCall
           /\ Settles(f) \/ f.suspended
<1> DEFINE f == Start(e)
<1>0. /\ e \in EditorRow /\ SavedOK(e, S) /\ BasisOK(e, K) /\ ConflictOK(e, S) /\ DoubtsOK(e)
  BY DEF RestOK
<1>1. CASE ~ Confirmed(e)
  <2>1. f = Checked(e)
    BY <1>1 DEF Start
  <2>2. /\ f \in EditorRow /\ SameText(e, f) /\ SameDoubts(e, f)
        /\ f.status = e.status /\ f.draft = e.draft /\ f.revision = e.revision
        /\ f.saved = e.saved /\ f.conflict = e.conflict /\ f.call = NoCall
        /\ f.suspended
    BY <1>0, <1>1, <2>1, CheckedEditor DEF Confirmed
  <2> HIDE DEF f
  <2>3. DoubtsOK(f)
    BY <1>0, <2>2, DoubtsKept DEF SameDoubts
  <2>4. SavedOK(f, S) /\ BasisOK(f, K) /\ ConflictOK(f, S)
    BY <1>0, <2>2 DEF SavedOK, NothingUnsaved, BasisOK, ConflictOK, SameText, SameDoubts
  <2>5. EditorOK(f, K, S) /\ InAccount(f, signedIn)
    BY <2>2, <2>3, <2>4 DEF EditorOK, RestOK, SavingOK, InAccount
  <2> QED  BY <2>2, <2>5 DEF f, SameDoubts
<1>2. CASE Confirmed(e) /\ e.lost # Unset
  <2>1. e.lost \in LostRow
    BY <1>0, <1>2, EditorFields DEF Losts
  <2>2. PICK content \in Texts, version \in Nat, base \in Nat :
          content = e.lost.content /\ version = e.lost.version /\ base = e.lost.base
    BY <2>1, PendingFields
  <2>t. PICK then \in BOOLEAN : then = TRUE
    OBVIOUS
  <2>3. f = Reconcile(e, content, version, base, then)
    BY <1>2, <2>2, <2>t DEF Start
  <2>4. PICK c \in CallRow : c = Sent(Unset, content, version, base, then)
    BY SentCall
  <2>5. /\ c.write = Unset /\ c.at = "sent" /\ c.version = version /\ c.content = content
        /\ c.then
    BY <2>t, <2>4 DEF Sent
  <2>6. /\ f \in EditorRow /\ SameText(e, f) /\ SameDraft(e, f)
        /\ f.pending = e.pending /\ f.requests = e.requests
        /\ f.suspended = e.suspended /\ f.status = "reconciling" /\ f.lost = Unset
        /\ f.call = c
    BY <1>0, <1>2, <2>3, <2>4, ReconcileEditor
  <2> HIDE DEF f
  <2>7. e.draft # Unset /\ EditIs(f, version, content)
    BY <1>0, <1>2, <2>2, <2>6 DEF DoubtsOK, EditIs, SameText
  <2>8. DoubtsOK(f)
    BY <1>0, <2>6, <2>7 DEF DoubtsOK, EditIs, SameText, SameDraft
  <2>9. RestOK(f, K, S)
    BY <2>6, <2>8, RestKept DEF SameDraft
  <2>10. ReadOK(f, S) /\ CallOK(c, K)
    BY <2>5, <2>6, <2>7 DEF ReadOK, CallOK, SameDraft
  <2>11. EditorOK(f, K, S)
    BY <2>5, <2>6, <2>7, <2>9, <2>10 DEF EditorOK, SavingOK
  <2>12. Settles(f)
    BY <2>5, <2>6, UnsetAssumption DEF Settles, AskedOK, NoCall
  <2>13. e.status # "conflict" /\ ~ e.suspended /\ signedIn = "own"
    BY <1>0, <1>2 DEF ConflictOK, Confirmed
  <2> QED  BY <2>6, <2>11, <2>12, <2>13 DEF f, SameDraft, InAccount
<1>3. CASE Confirmed(e) /\ e.lost = Unset
  <2>1. f = Send(e)
    BY <1>3 DEF Start
  <2>2. /\ EditorOK(f, K, S) /\ SameText(e, f) /\ f.draft = e.draft
        /\ e.status = "conflict" => f = e
        /\ Settles(f)
    BY <1>3, <2>1, SendOK
  <2>3. ~ e.suspended /\ signedIn = "own"
    BY <1>3 DEF Confirmed
  <2> QED  BY <2>2, <2>3 DEF InAccount
<1> QED  BY <1>1, <1>2, <1>3

(* What the author waits for when a call has ended.                         *)
Waits(e, n) == n <= e.saved \/ e.queued \/ e.suspended \/ e.status \in {"error", "conflict"}

(* What the author is told, or what is settled when the step is over.       *)
Told(f, n) == AskedOK(f, n) \/ f.suspended \/ f.status \in {"error", "conflict"}

LEMMA QueuedEditor ==
    ASSUME NEW e \in EditorRow, NEW queued \in BOOLEAN
    PROVE  LET f == [e EXCEPT !.queued = queued] IN
           /\ f \in EditorRow
           /\ SameText(e, f) /\ SameDraft(e, f) /\ SameDoubts(e, f)
           /\ f.suspended = e.suspended /\ f.status = e.status /\ f.call = e.call
           /\ f.queued = queued
<1>1. [e EXCEPT !.queued = queued] \in EditorRow
  BY EditorRecord
<1> QED  BY <1>1, EditorRecord DEF SameText, SameDraft, SameDoubts

LEMMA SameRest ==
    ASSUME NEW K, NEW S, NEW e, RestOK(e, K, S), NEW f \in EditorRow,
           SameText(e, f), SameDraft(e, f), SameDoubts(e, f), f.status = e.status
    PROVE  RestOK(f, K, S)
<1>1. DoubtsOK(f)
  BY DoubtsKept DEF SameDoubts, SameDraft, RestOK
<1> QED  BY <1>1 DEF RestOK, SavedOK, NothingUnsaved, BasisOK, ConflictOK, SameText,
                     SameDraft, SameDoubts

LEMMA FinishOK ==
    ASSUME NEW K, NEW S, NEW e, EditorOK(e, K, S), InAccount(e, signedIn),
           e.call = NoCall => /\ e.status # "reconciling"
                              /\ e.draft = Unset => e.suspended \/ e.status = "error"
    PROVE  LET f == Finish(e) IN
           /\ EditorOK(f, K, S) /\ InAccount(f, signedIn)
           /\ SameText(e, f) /\ f.draft = e.draft /\ (e.suspended => f.suspended)
           /\ \A n \in Nat : /\ n <= e.edits
                             /\ e.call = NoCall => Waits(e, n)
                             /\ e.call # NoCall => AskedOK(e, n)
                => Told(f, n)
<1> DEFINE f == Finish(e)
           next == [e EXCEPT !.queued = FALSE]
<1>0. RestOK(e, K, S) /\ e \in EditorRow
  BY DEF EditorOK, RestOK
<1>1. CASE e.call # NoCall
  <2>1. f = e
    BY <1>1 DEF Finish
  <2> QED  BY <1>1, <2>1 DEF Told, SameText
<1>2. CASE e.call = NoCall
  <2>1. /\ next \in EditorRow
        /\ SameText(e, next) /\ SameDraft(e, next) /\ SameDoubts(e, next)
        /\ next.suspended = e.suspended /\ next.status = e.status /\ next.call = NoCall
    BY <1>0, <1>2, QueuedEditor
  <2>2. f = IF e.queued /\ ~ e.suspended /\ e.status \notin {"error", "conflict", "reconciling"}
            THEN Start(next) ELSE next
    BY <1>2 DEF Finish
  <2> HIDE DEF f, next
  <2>3. RestOK(next, K, S)
    BY <1>0, <2>1, SameRest
  <2>4. CASE e.queued /\ ~ e.suspended /\ e.status \notin {"error", "conflict", "reconciling"}
    <3>1. next.draft # Unset
      BY <1>2, <2>1, <2>4 DEF SameDraft
    <3>2. /\ EditorOK(f, K, S) /\ InAccount(f, signedIn)
          /\ SameText(next, f) /\ f.draft = next.draft
          /\ Settles(f) \/ f.suspended
      BY <2>1, <2>2, <2>3, <2>4, <3>1, StartOK
    <3>3. \A n \in Nat : n <= e.edits => Told(f, n)
      BY <2>1, <3>2 DEF Settles, Told, SameText
    <3> QED  BY <1>2, <2>1, <2>4, <3>2, <3>3 DEF f, SameText, SameDraft
  <2>5. CASE ~ (e.queued /\ ~ e.suspended /\ e.status \notin {"error", "conflict", "reconciling"})
    <3>1. f = next
      BY <2>2, <2>5
    <3>2. EditorOK(f, K, S) /\ InAccount(f, signedIn)
      BY <2>1, <2>3, <3>1 DEF EditorOK, SavingOK, InAccount
    <3>3. \A n \in Nat : Waits(e, n) => Told(f, n)
      BY <1>2, <2>1, <2>5, <3>1 DEF Waits, Told, AskedOK, SameDraft
    <3> QED  BY <1>2, <2>1, <3>1, <3>2, <3>3 DEF f, SameDraft
  <2> QED  BY <2>4, <2>5
<1> QED  BY <1>1, <1>2

LEMMA FailedEditor ==
    ASSUME NEW e \in EditorRow, NEW accountError
    PROVE  LET f == Failed(e, accountError) IN
           /\ f \in EditorRow
           /\ SameText(e, f) /\ SameDraft(e, f) /\ SameDoubts(e, f)
           /\ f.queued = e.queued /\ f.call = e.call /\ (e.suspended => f.suspended)
           /\ f.status = "error" \/ (f.status = "pending" /\ f.suspended)
<1> DEFINE f == Failed(e, accountError)
<1>1. CASE accountError /\ ~ Confirmed(e)
  <2>1. PICK g \in EditorRow : g = Checked(e)
    BY CheckedEditor
  <2>2. /\ SameText(e, g) /\ SameDoubts(e, g) /\ SameDraft(e, g)
        /\ g.queued = e.queued /\ g.suspended /\ g.call = e.call
    BY <1>1, <2>1, CheckedEditor, EditorFields DEF Confirmed, SameDraft
  <2>3. f = [g EXCEPT !.status = "pending"]
    BY <1>1, <2>1 DEF Failed
  <2>4. f \in EditorRow
    BY <2>3, EditorRecord DEF Statuses
  <2>5. /\ SameText(g, f) /\ SameDraft(g, f) /\ SameDoubts(g, f) /\ SameFlags(g, f)
        /\ f.call = g.call /\ f.status = "pending"
    BY <2>3, EditorRecord DEF SameText, SameDraft, SameDoubts, SameFlags
  <2> HIDE DEF f
  <2> QED  BY <2>2, <2>4, <2>5 DEF f, SameText, SameDraft, SameDoubts, SameFlags
<1>2. CASE ~ (accountError /\ ~ Confirmed(e))
  <2>1. f = [e EXCEPT !.status = "error"]
    BY <1>2 DEF Failed
  <2>2. f \in EditorRow
    BY <2>1, EditorRecord DEF Statuses
  <2>3. /\ SameText(e, f) /\ SameDraft(e, f) /\ SameDoubts(e, f) /\ SameFlags(e, f)
        /\ f.call = e.call /\ f.status = "error"
    BY <2>1, EditorRecord DEF SameText, SameDraft, SameDoubts, SameFlags
  <2>4. f.queued = e.queued /\ f.suspended = e.suspended
    BY <2>3 DEF SameFlags
  <2>5. e.suspended => f.suspended
    BY <2>4
  <2> QED  BY <2>2, <2>3, <2>4, <2>5
<1> QED  BY <1>1, <1>2

(* The content of an edit that is marked saved is stored.                   *)
LEMMA MarkSavedOK ==
    ASSUME NEW K, NEW S, NEW e, RestOK(e, K, S), e.lost = Unset, e.pending = Unset,
           NEW draft \in DraftIds, e.draft \in {Unset, draft}, e.latest # Unset \/ e.draft # Unset,
           NEW answer \in AnswerRow, NEW version \in Nat, version <= e.edits,
           <<draft, answer.revision>> \in K,
           version = e.edits => e.saved = e.edits \/ e.latest \in S[draft]
    PROVE  LET f == MarkSaved(e, draft, answer, version) IN
           /\ RestOK(f, K, S)
           /\ SameText(e, f) /\ SameFlags(e, f) /\ f.call = e.call
           /\ f.draft = draft /\ f.pending = Unset /\ f.lost = Unset
           /\ f.status \in {"saved", "pending"}
           /\ e.saved <= f.saved /\ version <= f.saved
<1> DEFINE f == MarkSaved(e, draft, answer, version)
<1>0. /\ e \in EditorRow /\ SavedOK(e, S) /\ e.edits \in Nat /\ e.saved \in Nat
      /\ e.latest = Unset => e.edits = 0
  BY EditorFields DEF RestOK, SavedOK
<1>1. PICK saved \in Nat : saved = Larger(e.saved, version)
  BY <1>0 DEF Larger
<1>m. e \in EditorRow
  BY <1>0
<1>2. /\ f \in EditorRow
      /\ SameText(e, f) /\ SameDoubts(e, f) /\ SameFlags(e, f)
      /\ f.call = e.call /\ f.draft = draft /\ f.revision = answer.revision
      /\ f.saved = saved /\ f.conflict = Unset
      /\ f.status = IF e.edits > saved THEN "pending" ELSE "saved"
  <2>1. /\ f \in EditorRow
        /\ SameText(e, f) /\ SameDoubts(e, f) /\ SameFlags(e, f)
        /\ f.call = e.call /\ f.draft = draft /\ f.revision = answer.revision
        /\ f.saved = Larger(e.saved, version) /\ f.conflict = Unset
    BY <1>m, MarkedSaved
  <2>2. f.status = IF e.edits > Larger(e.saved, version) THEN "pending" ELSE "saved"
    BY <1>m, EditorRecord DEF MarkSaved
  <2> QED  BY <1>1, <2>1, <2>2
<1> HIDE DEF f
<1>3. /\ e.saved <= saved /\ version <= saved /\ saved <= e.edits
      /\ saved = e.edits => e.saved = e.edits \/ version = e.edits
  BY <1>0, <1>1 DEF Larger, SavedOK
<1>4. saved = e.edits => e.latest = Empty \/ e.latest \in S[draft]
  BY <1>0, <1>3, UnsetAssumption DEF SavedOK, NothingUnsaved
<1>5. SavedOK(f, S)
  BY <1>0, <1>2, <1>3, <1>4, UnsetAssumption DEF SavedOK, NothingUnsaved, SameText
<1>6. BasisOK(f, K) /\ ConflictOK(f, S) /\ DoubtsOK(f)
  BY <1>2 DEF BasisOK, ConflictOK, DoubtsOK, SameDoubts
<1> QED  BY <1>2, <1>3, <1>5, <1>6 DEF f, RestOK, SameDoubts

LEMMA SettledEditor ==
    ASSUME NEW e \in EditorRow
    PROVE  LET f == [e EXCEPT !.pending = Unset] IN
           /\ f \in EditorRow
           /\ SameText(e, f) /\ SameDraft(e, f) /\ SameFlags(e, f)
           /\ f.lost = e.lost /\ f.call = e.call /\ f.status = e.status /\ f.pending = Unset
<1>1. [e EXCEPT !.pending = Unset] \in EditorRow
  BY EditorRecord DEF Pendings
<1> QED  BY <1>1, EditorRecord DEF SameText, SameDraft, SameFlags

(* What the end of a call leaves, before a follow-up.                       *)
Ended(e, f) ==
    /\ SameText(e, f) /\ f.queued = e.queued /\ (e.suspended => f.suspended)
    /\ e.saved <= f.saved
    /\ f.call = NoCall => f.status # "reconciling"
    /\ f.draft = Unset => f.suspended \/ f.status = "error"

LEMMA CreatedOK ==
    ASSUME NEW K, NEW S, NEW e, RestOK(e, K, S), e.call = NoCall, e.lost = Unset,
           e.draft = Unset, e.pending # Unset, e.status # "conflict",
           NEW c \in CallRow, c.write \in Writes, EditIs(e, c.version, c.content),
           c.at = "answered" =>
               /\ c.answer \in AnswerRow /\ Tells(c.answer, S[c.write.draft])
               /\ c.answer.result # "refused" => <<c.write.draft, c.answer.revision>> \in K
    PROVE  LET f == Created(e, c) IN
           RestOK(f, K, S) /\ f.call = NoCall /\ Ended(e, f)
<1> DEFINE f == Created(e, c)
           known == [e EXCEPT !.pending = Unset]
<1>0. /\ e \in EditorRow /\ SavedOK(e, S) /\ DoubtsOK(e) /\ e.latest # Unset
      /\ e.saved \in Nat /\ e.edits \in Nat
  BY EditorFields DEF RestOK, DoubtsOK
<1>1. /\ known \in EditorRow
      /\ SameText(e, known) /\ SameDraft(e, known) /\ SameFlags(e, known)
      /\ known.lost = Unset /\ known.call = NoCall /\ known.status = e.status
      /\ known.pending = Unset
  BY <1>0, SettledEditor
<1> HIDE DEF known
<1>2. RestOK(known, K, S)
  <2>1. SavedOK(known, S)
    BY <1>0, <1>1 DEF SavedOK, NothingUnsaved, SameText, SameDraft
  <2> QED  BY <1>1, <2>1 DEF RestOK, BasisOK, ConflictOK, DoubtsOK, SameDraft
<1>3. CASE c.at # "answered"
  <2>1. f = Failed(e, c.at = "switched")
    BY <1>3 DEF Created
  <2>2. PICK accountError : accountError = (c.at = "switched")
    OBVIOUS
  <2>3. /\ f \in EditorRow
        /\ SameText(e, f) /\ SameDraft(e, f) /\ SameDoubts(e, f)
        /\ f.queued = e.queued /\ f.call = e.call /\ (e.suspended => f.suspended)
        /\ f.status = "error" \/ (f.status = "pending" /\ f.suspended)
    BY <1>0, <2>1, FailedEditor
  <2> HIDE DEF f
  <2>4. DoubtsOK(f)
    BY <1>0, <2>3, DoubtsKept DEF SameDoubts, SameDraft
  <2>5. RestOK(f, K, S)
    BY <2>3, <2>4, RestKept DEF SameDraft
  <2> QED  BY <1>0, <2>3, <2>5 DEF f, Ended, SameDraft
<1>4. CASE c.at = "answered" /\ c.answer.result = "refused"
  <2>1. f = Failed(known, signedIn # "own")
    BY <1>4 DEF Created, known
  <2>2. /\ f \in EditorRow
        /\ SameText(known, f) /\ SameDraft(known, f) /\ SameDoubts(known, f)
        /\ f.queued = known.queued /\ f.call = known.call /\ (known.suspended => f.suspended)
        /\ f.status = "error" \/ (f.status = "pending" /\ f.suspended)
    BY <1>1, <2>1, FailedEditor
  <2> HIDE DEF f
  <2>3. DoubtsOK(f)
    BY <1>1, <2>2 DEF DoubtsOK, SameDoubts
  <2>4. RestOK(f, K, S)
    BY <1>2, <2>2, <2>3, RestKept DEF SameDraft
  <2>5. Ended(e, f)
    BY <1>0, <1>1, <2>2 DEF Ended, SameDraft, SameText, SameFlags
  <2> QED  BY <1>1, <2>2, <2>4, <2>5 DEF f
<1>5. CASE c.at = "answered" /\ c.answer.result # "refused"
  <2>1. /\ c.answer \in AnswerRow /\ <<c.write.draft, c.answer.revision>> \in K
        /\ c.answer.content \in S[c.write.draft]
        /\ c.answer.conflict \in S[c.write.draft] \cup {Unset}
    BY <1>5 DEF Tells
  <2>2. PICK draft \in DraftIds : draft = c.write.draft
    BY WriteFields
  <2>3. PICK revision \in Nat, conflict \in Values :
          revision = c.answer.revision /\ conflict = c.answer.conflict
    BY <2>1 DEF AnswerRow, Values
  <2>4. CASE conflict # Unset
    <3>1. f = [known EXCEPT !.draft = draft, !.revision = revision,
                            !.status = "conflict", !.conflict = conflict]
      BY <1>5, <2>2, <2>3, <2>4 DEF Created, known
    <3>2. f \in EditorRow
      BY <1>1, <3>1, EditorRecord DEF Drafts, Statuses
    <3>3. /\ SameText(known, f) /\ SameFlags(known, f) /\ SameDoubts(known, f)
          /\ f.call = known.call /\ f.saved = known.saved /\ f.draft = draft
          /\ f.revision = revision /\ f.status = "conflict" /\ f.conflict = conflict
      BY <1>1, <3>1, EditorRecord DEF SameText, SameFlags, SameDoubts
    <3> HIDE DEF f
    <3>4. /\ SameText(e, f) /\ SameFlags(e, f) /\ f.saved = e.saved
          /\ f.pending = Unset /\ f.lost = Unset /\ f.call = NoCall
      BY <1>1, <3>3 DEF SameText, SameFlags, SameDraft, SameDoubts
    <3>5. SavedOK(f, S)
      BY <1>0, <3>3, <3>4 DEF SavedOK, NothingUnsaved, SameText
    <3>6. ConflictOK(f, S) /\ BasisOK(f, K) /\ DoubtsOK(f)
      BY <2>1, <2>2, <2>3, <3>3, <3>4, UnsetAssumption DEF ConflictOK, BasisOK, DoubtsOK
    <3> QED  BY <1>0, <2>2, <3>2, <3>3, <3>4, <3>5, <3>6, UnsetAssumption
             DEF f, RestOK, Ended, SameFlags
  <2>5. CASE conflict = Unset
    <3>1. PICK version \in Nat :
            version = IF c.answer.content = c.content THEN c.version ELSE e.saved
      BY <1>0, CallFields
    <3>2. f = MarkSaved(known, draft, c.answer, version)
      BY <1>5, <2>2, <2>3, <2>5, <3>1 DEF Created, known
    <3>3. /\ version <= e.edits
          /\ version = e.edits => e.saved = e.edits \/ e.latest \in S[draft]
      BY <1>0, <2>1, <2>2, <3>1 DEF EditIs, SavedOK
    <3>4. /\ RestOK(f, K, S)
          /\ SameText(known, f) /\ SameFlags(known, f) /\ f.call = known.call
          /\ f.draft = draft /\ f.status \in {"saved", "pending"} /\ known.saved <= f.saved
      BY <1>0, <1>1, <1>2, <2>1, <2>2, <3>2, <3>3, MarkSavedOK DEF SameText, SameDraft
    <3> HIDE DEF f
    <3>5. Ended(e, f)
      BY <1>1, <2>2, <3>4, UnsetAssumption DEF Ended, SameText, SameFlags, SameDraft
    <3> QED  BY <1>1, <3>4, <3>5 DEF f
  <2> QED  BY <2>4, <2>5
<1> QED  BY <1>3, <1>4, <1>5

LEMMA SavedCallOK ==
    ASSUME NEW K, NEW S, NEW e, RestOK(e, K, S), e.call = NoCall, e.lost = Unset,
           e.draft \in DraftIds, e.status # "conflict",
           NEW c \in CallRow, EditIs(e, c.version, c.content),
           c.at = "answered" =>
               /\ c.answer \in AnswerRow /\ Tells(c.answer, S[e.draft])
               /\ c.answer.result # "refused" => <<e.draft, c.answer.revision>> \in K
               /\ c.answer.result = "draft" => c.answer.content = c.content
    PROVE  LET f == Saved(e, c) IN
           /\ EditorOK(f, K, S) /\ InAccount(f, signedIn)
           /\ Ended(e, f)
           /\ f.call # NoCall => f.call.version = c.version
           /\ f.call = NoCall => c.version <= f.saved \/ f.status \in {"error", "conflict"}
                                                      \/ f.suspended
<1> DEFINE f == Saved(e, c)
<1>0. /\ e \in EditorRow /\ SavedOK(e, S) /\ BasisOK(e, K) /\ DoubtsOK(e)
      /\ e.saved \in Nat /\ e.edits \in Nat /\ e.draft # Unset
      /\ e.pending = Unset
  BY EditorFields, UnsetAssumption DEF RestOK, DoubtsOK
<1>1. CASE c.at # "answered"
  <2>1. PICK content \in Texts, version \in Nat, base \in Nat, then \in BOOLEAN :
          content = c.content /\ version = c.version /\ base = c.base /\ then = FALSE
    BY CallFields
  <2>2. f = Reconcile(e, content, version, base, then)
    BY <1>1, <2>1 DEF Saved
  <2>3. PICK d \in CallRow : d = Sent(Unset, content, version, base, then)
    BY SentCall
  <2>4. d.write = Unset /\ d.at = "sent" /\ d.version = version /\ d.content = content
    BY <2>3 DEF Sent
  <2>5. /\ f \in EditorRow /\ SameText(e, f) /\ SameDraft(e, f)
        /\ f.pending = e.pending /\ f.requests = e.requests /\ f.queued = e.queued
        /\ Confirmed(e) =>
             /\ f.suspended = e.suspended /\ f.status = "reconciling" /\ f.lost = Unset
             /\ f.call = d
        /\ ~ Confirmed(e) =>
             /\ f.suspended /\ f.status = "error" /\ f.call = NoCall
             /\ f.lost # Unset /\ f.lost.content = content /\ f.lost.version = version
    <3>1. e \in EditorRow
      BY <1>0
    <3>2. /\ f \in EditorRow /\ SameText(e, f) /\ SameDraft(e, f)
          /\ f.pending = e.pending /\ f.requests = e.requests /\ f.queued = e.queued
      BY <2>2, <3>1, ReconcileEditor
    <3>3. ASSUME Confirmed(e)
          PROVE  /\ f.suspended = e.suspended /\ f.status = "reconciling" /\ f.lost = Unset
                 /\ f.call = d
      BY <2>2, <2>3, <3>1, <3>3, ReconcileEditor
    <3>4. ASSUME ~ Confirmed(e)
          PROVE  /\ f.suspended /\ f.status = "error" /\ f.call = NoCall
                 /\ f.lost # Unset /\ f.lost.content = content /\ f.lost.version = version
      BY <2>2, <3>1, <3>4, ReconcileEditor
    <3> QED  BY <3>2, <3>3, <3>4
  <2> HIDE DEF f
  <2>6. EditIs(f, version, content)
    BY <2>1, <2>5 DEF EditIs, SameText
  <2>7. DoubtsOK(f)
    BY <1>0, <2>5, <2>6 DEF DoubtsOK, SameDraft
  <2>8. RestOK(f, K, S)
    BY <2>5, <2>7, RestKept DEF SameDraft
  <2>9. CASE Confirmed(e)
    <3>1. ReadOK(f, S) /\ CallOK(d, K)
      BY <1>0, <2>4, <2>5, <2>9 DEF ReadOK, CallOK, SameDraft
    <3>2. EditorOK(f, K, S)
      BY <2>4, <2>5, <2>6, <2>8, <2>9, <3>1 DEF EditorOK, SavingOK
    <3>3. InAccount(f, signedIn)
      BY <2>9 DEF Confirmed, InAccount
    <3>4. Ended(e, f)
      BY <1>0, <2>5, <2>9, UnsetAssumption DEF Ended, SameDraft, NoCall
    <3> QED  BY <2>1, <2>4, <2>5, <2>9, <3>2, <3>3, <3>4, UnsetAssumption DEF f, NoCall
  <2>10. CASE ~ Confirmed(e)
    <3>1. EditorOK(f, K, S) /\ InAccount(f, signedIn)
      BY <2>5, <2>8, <2>10 DEF EditorOK, SavingOK, InAccount
    <3>2. Ended(e, f)
      BY <1>0, <2>5, <2>10 DEF Ended, SameDraft
    <3> QED  BY <2>5, <2>10, <3>1, <3>2 DEF f
  <2> QED  BY <2>9, <2>10
<1>2. CASE c.at = "answered" /\ c.answer.result = "refused"
  <2>1. f = Failed(e, signedIn # "own")
    BY <1>2 DEF Saved
  <2>2. /\ f \in EditorRow
        /\ SameText(e, f) /\ SameDraft(e, f) /\ SameDoubts(e, f)
        /\ f.queued = e.queued /\ f.call = e.call /\ (e.suspended => f.suspended)
        /\ f.status = "error" \/ (f.status = "pending" /\ f.suspended)
    BY <1>0, <2>1, FailedEditor
  <2> HIDE DEF f
  <2>3. DoubtsOK(f)
    BY <1>0, <2>2, DoubtsKept DEF SameDoubts, SameDraft
  <2>4. RestOK(f, K, S)
    BY <2>2, <2>3, RestKept DEF SameDraft
  <2>5. EditorOK(f, K, S) /\ InAccount(f, signedIn) /\ f.call = NoCall
    BY <2>2, <2>4 DEF EditorOK, SavingOK, InAccount
  <2>6. Ended(e, f)
    BY <1>0, <2>2 DEF Ended, SameDraft
  <2> QED  BY <2>2, <2>5, <2>6 DEF f
<1>3. CASE c.at = "answered" /\ c.answer.result = "conflict"
  <2>1. PICK revision \in Nat, conflict \in Values :
          revision = c.answer.revision /\ conflict = c.answer.conflict
    BY <1>3 DEF AnswerRow, Values
  <2>2. f = [e EXCEPT !.status = "conflict", !.revision = revision, !.conflict = conflict]
    BY <1>3, <2>1 DEF Saved
  <2>3. f \in EditorRow
    BY <1>0, <2>2, EditorRecord DEF Statuses
  <2>4. /\ SameText(e, f) /\ SameFlags(e, f) /\ SameDoubts(e, f)
        /\ f.call = e.call /\ f.saved = e.saved /\ f.draft = e.draft
        /\ f.revision = revision /\ f.status = "conflict" /\ f.conflict = conflict
    BY <1>0, <2>2, EditorRecord DEF SameText, SameFlags, SameDoubts
  <2> HIDE DEF f
  <2>5. SavedOK(f, S)
    BY <1>0, <2>4 DEF SavedOK, NothingUnsaved, SameText
  <2>6. ConflictOK(f, S) /\ BasisOK(f, K) /\ DoubtsOK(f)
    BY <1>0, <1>3, <2>1, <2>4 DEF ConflictOK, BasisOK, DoubtsOK, Tells, SameDoubts
  <2>7. EditorOK(f, K, S) /\ InAccount(f, signedIn)
    BY <2>3, <2>4, <2>5, <2>6 DEF EditorOK, RestOK, SavingOK, InAccount
  <2>8. Ended(e, f)
    BY <1>0, <2>4 DEF Ended, SameFlags
  <2> QED  BY <2>4, <2>7, <2>8 DEF f
<1>4. CASE c.at = "answered" /\ c.answer.result = "draft"
  <2>1. PICK draft \in DraftIds, version \in Nat : draft = e.draft /\ version = c.version
    BY CallFields
  <2>2. f = MarkSaved(e, draft, c.answer, version)
    BY <1>4, <2>1 DEF Saved
  <2>3. version <= e.edits /\ (version = e.edits => e.latest \in S[draft])
    BY <1>4, <2>1 DEF EditIs, Tells
  <2>4. /\ RestOK(f, K, S)
        /\ SameText(e, f) /\ SameFlags(e, f) /\ f.call = e.call
        /\ f.draft = draft /\ f.status \in {"saved", "pending"}
        /\ e.saved <= f.saved /\ version <= f.saved
    BY <1>0, <1>4, <2>1, <2>2, <2>3, MarkSavedOK
  <2> HIDE DEF f
  <2>5. EditorOK(f, K, S) /\ InAccount(f, signedIn)
    BY <2>4 DEF EditorOK, SavingOK, InAccount
  <2>6. Ended(e, f)
    BY <1>0, <2>1, <2>4 DEF Ended, SameFlags
  <2> QED  BY <2>1, <2>4, <2>5, <2>6 DEF f
<1>5. c.at = "answered" => c.answer.result \in {"draft", "conflict", "refused"}
  BY DEF AnswerRow
<1> QED  BY <1>1, <1>2, <1>3, <1>4, <1>5
LEMMA ReconciledOK ==
    ASSUME NEW K, NEW S, NEW e, RestOK(e, K, S), e.call = NoCall, e.lost = Unset,
           e.draft \in DraftIds, e.status # "conflict",
           NEW c \in CallRow, EditIs(e, c.version, c.content),
           c.at = "answered" =>
               /\ c.answer \in AnswerRow /\ Tells(c.answer, S[e.draft])
               /\ c.answer.result # "refused" /\ c.answer.content = c.content
                    => <<e.draft, c.answer.revision>> \in K
    PROVE  LET f == Reconciled(e, c) IN
           /\ RestOK(f, K, S) /\ f.call = NoCall /\ f.lost = Unset /\ f.draft = e.draft
           /\ Ended(e, f)
           /\ \/ f.status \in {"error", "conflict"}
              \/ /\ f.status \in {"saved", "pending"} /\ c.version <= f.saved
                 /\ c.at = "answered" /\ c.answer.result # "refused"
<1> DEFINE f == Reconciled(e, c)
<1>0. /\ e \in EditorRow /\ SavedOK(e, S) /\ BasisOK(e, K) /\ DoubtsOK(e)
      /\ e.saved \in Nat /\ e.edits \in Nat /\ e.draft # Unset
      /\ e.pending = Unset
  BY EditorFields, UnsetAssumption DEF RestOK, DoubtsOK
<1>1. CASE c.at # "answered" \/ c.answer.result = "refused"
  <2>1. f = [e EXCEPT !.status = "error"]
    BY <1>1 DEF Reconciled
  <2>2. f \in EditorRow
    BY <1>0, <2>1, EditorRecord DEF Statuses
  <2>3. /\ SameText(e, f) /\ SameDraft(e, f) /\ SameDoubts(e, f) /\ SameFlags(e, f)
        /\ f.call = e.call /\ f.status = "error"
    BY <1>0, <2>1, EditorRecord DEF SameText, SameDraft, SameDoubts, SameFlags
  <2> HIDE DEF f
  <2>4. DoubtsOK(f)
    BY <1>0, <2>3, DoubtsKept DEF SameDoubts, SameDraft
  <2>5. RestOK(f, K, S)
    BY <2>2, <2>3, <2>4, RestKept DEF SameDraft
  <2>6. Ended(e, f)
    BY <1>0, <2>3 DEF Ended, SameDraft, SameFlags
  <2> QED  BY <2>3, <2>5, <2>6 DEF f, SameDoubts, SameDraft
<1>2. CASE /\ c.at = "answered" /\ c.answer.result # "refused"
           /\ c.answer.content = c.content /\ c.answer.revision # c.base
  <2>1. PICK draft \in DraftIds, version \in Nat : draft = e.draft /\ version = c.version
    BY CallFields
  <2>2. f = MarkSaved(e, draft, c.answer, version)
    BY <1>2, <2>1 DEF Reconciled
  <2>3. /\ version <= e.edits /\ (version = e.edits => e.latest \in S[draft])
        /\ c.answer \in AnswerRow /\ <<draft, c.answer.revision>> \in K
    BY <1>2, <2>1 DEF EditIs, Tells
  <2>4. /\ RestOK(f, K, S)
        /\ SameText(e, f) /\ SameFlags(e, f) /\ f.call = e.call /\ f.lost = Unset
        /\ f.draft = draft /\ f.status \in {"saved", "pending"}
        /\ e.saved <= f.saved /\ version <= f.saved
    BY <1>0, <2>1, <2>2, <2>3, MarkSavedOK
  <2> HIDE DEF f
  <2>5. Ended(e, f)
    BY <1>0, <2>1, <2>4 DEF Ended, SameFlags
  <2> QED  BY <1>2, <2>1, <2>4, <2>5 DEF f
<1>3. CASE /\ c.at = "answered" /\ c.answer.result # "refused"
           /\ ~ (c.answer.content = c.content /\ c.answer.revision # c.base)
  <2>1. PICK conflict \in Values : conflict = c.answer.conflict
    BY <1>3 DEF AnswerRow, Values
  <2>2. PICK status \in Statuses : status = IF conflict = Unset THEN "error" ELSE "conflict"
    BY DEF Statuses
  <2>3. f = [e EXCEPT !.conflict = conflict, !.status = status]
    BY <1>3, <2>1, <2>2 DEF Reconciled
  <2>4. f \in EditorRow
    BY <1>0, <2>3, EditorRecord
  <2>5. /\ SameText(e, f) /\ SameFlags(e, f) /\ SameDoubts(e, f)
        /\ f.call = e.call /\ f.saved = e.saved /\ f.draft = e.draft
        /\ f.revision = e.revision /\ f.status = status /\ f.conflict = conflict
    BY <1>0, <2>3, EditorRecord DEF SameText, SameFlags, SameDoubts
  <2> HIDE DEF f
  <2>6. status \in {"error", "conflict"}
    BY <2>2
  <2>7. SavedOK(f, S)
    BY <1>0, <2>5, <2>6 DEF SavedOK, NothingUnsaved, SameText
  <2>8. ConflictOK(f, S) /\ BasisOK(f, K) /\ DoubtsOK(f)
    BY <1>0, <1>3, <2>1, <2>5 DEF ConflictOK, BasisOK, DoubtsOK, Tells, SameDoubts
  <2>9. RestOK(f, K, S)
    BY <2>4, <2>7, <2>8 DEF RestOK
  <2>10. Ended(e, f)
    BY <1>0, <2>5, <2>6 DEF Ended, SameFlags
  <2> QED  BY <2>5, <2>6, <2>9, <2>10 DEF f, SameDoubts
<1> QED  BY <1>1, <1>2, <1>3

(* A read that is over, with the save that goes on after it.                *)
LEMMA ReadEndedOK ==
    ASSUME NEW K, NEW S, NEW e, RestOK(e, K, S), e.call = NoCall, e.lost = Unset,
           e.draft \in DraftIds, e.status # "conflict",
           NEW c \in CallRow, EditIs(e, c.version, c.content),
           c.at = "answered" =>
               /\ c.answer \in AnswerRow /\ Tells(c.answer, S[e.draft])
               /\ c.answer.result # "refused" /\ c.answer.content = c.content
                    => <<e.draft, c.answer.revision>> \in K
               /\ c.answer.result # "refused" => signedIn = "own"
    PROVE  LET f == Resumed(Reconciled(e, c), c) IN
           /\ EditorOK(f, K, S) /\ InAccount(f, signedIn)
           /\ SameText(e, f) /\ f.draft = e.draft /\ (e.suspended => f.suspended)
           /\ f.call = NoCall => f.status # "reconciling"
           /\ \A n \in Nat :
                n <= e.edits /\ (n <= e.saved \/ n <= c.version \/ e.queued \/ c.then)
                  => /\ f.call = NoCall => Waits(f, n)
                     /\ f.call # NoCall => AskedOK(f, n)
<1> DEFINE g == Reconciled(e, c)
           f == Resumed(g, c)
<1>1. /\ RestOK(g, K, S) /\ g.call = NoCall /\ g.lost = Unset /\ g.draft = e.draft
      /\ Ended(e, g)
      /\ \/ g.status \in {"error", "conflict"}
         \/ /\ g.status \in {"saved", "pending"} /\ c.version <= g.saved
            /\ c.at = "answered" /\ c.answer.result # "refused"
  BY ReconciledOK
<1>2. /\ f = IF c.then /\ g.status \in {"saved", "pending"} THEN Send(g) ELSE g
  BY DEF Resumed
<1>3. g.edits \in Nat /\ g.saved \in Nat /\ e.saved \in Nat /\ c.version \in Nat
      /\ e.draft # Unset
  BY <1>1, EditorFields, CallFields, UnsetAssumption DEF RestOK
<1> HIDE DEF f, g
<1>4. CASE c.then /\ g.status \in {"saved", "pending"}
  <2>1. /\ EditorOK(f, K, S) /\ SameText(g, f) /\ f.draft = g.draft /\ Settles(f)
        /\ f.suspended = g.suspended
        /\ f.status = "reconciling" => g.status = "reconciling"
    BY <1>1, <1>2, <1>3, <1>4, SendOK
  <2>2. InAccount(f, signedIn)
    BY <1>1, <1>4 DEF InAccount
  <2>3. f.call = NoCall => f.status # "reconciling"
    BY <1>4, <2>1
  <2>4. ASSUME NEW n \in Nat, n <= e.edits
        PROVE  /\ f.call = NoCall => Waits(f, n)
               /\ f.call # NoCall => AskedOK(f, n)
    <3>1. f.edits = e.edits
      BY <1>1, <2>1 DEF Ended, SameText
    <3>2. AskedOK(f, n) \/ f.status = "conflict"
      BY <2>1, <2>4, <3>1 DEF Settles
    <3>3. f.call # NoCall => f.status # "conflict"
      BY <2>1 DEF EditorOK, SavingOK
    <3> QED  BY <3>2, <3>3 DEF Waits, AskedOK
  <2> QED  BY <1>1, <2>1, <2>2, <2>3, <2>4 DEF f, g, Ended, SameText
<1>5. CASE ~ (c.then /\ g.status \in {"saved", "pending"})
  <2>1. f = g
    BY <1>2, <1>5
  <2>2. EditorOK(f, K, S) /\ InAccount(f, signedIn)
    BY <1>1, <2>1 DEF EditorOK, SavingOK, InAccount
  <2>3. ASSUME NEW n \in Nat, n <= e.saved \/ n <= c.version \/ e.queued \/ c.then
        PROVE  Waits(f, n)
    BY <1>1, <1>3, <1>5, <2>1, <2>3 DEF Waits, Ended
  <2> QED  BY <1>1, <2>1, <2>2, <2>3 DEF f, g, Ended
<1> QED  BY <1>4, <1>5

LEMMA IdleEditor ==
    ASSUME NEW e \in EditorRow
    PROVE  LET f == [e EXCEPT !.call = NoCall] IN
           /\ f \in EditorRow
           /\ SameText(e, f) /\ SameDraft(e, f) /\ SameDoubts(e, f) /\ SameFlags(e, f)
           /\ f.status = e.status /\ f.call = NoCall
<1>1. [e EXCEPT !.call = NoCall] \in EditorRow
  BY EditorRecord DEF Calls, NoCall
<1> QED  BY <1>1, EditorRecord DEF SameText, SameDraft, SameDoubts, SameFlags

(* The revisions of an answer are known when the editor goes on with it.    *)
Learns(e, K) ==
    e.call.at = "answered" /\ e.call.answer.result # "refused" =>
        /\ e.call.write = Unset /\ e.call.answer.content = e.call.content
             => <<e.draft, e.call.answer.revision>> \in K
        /\ e.call.write # Unset => <<e.call.write.draft, e.call.answer.revision>> \in K

LEMMA ContinuedOK ==
    ASSUME NEW K, NEW S, NEW e, EditorOK(e, K, S), InAccount(e, signedIn),
           e.call # NoCall, e.call.at # "sent", Learns(e, K)
    PROVE  LET f == Continued(e) IN
           /\ EditorOK(f, K, S) /\ InAccount(f, signedIn)
           /\ SameText(e, f) /\ (e.suspended => f.suspended)
           /\ \A n \in Nat : n <= e.edits /\ AskedOK(e, n)
                             /\ (Repeated(e) => n = 0)
                => Told(f, n)
<1> DEFINE f == Continued(e)
           c == e.call
           idle == [e EXCEPT !.call = NoCall]
<1>0. /\ RestOK(e, K, S) /\ e \in EditorRow
      /\ c \in CallRow /\ e.status # "conflict" /\ e.lost = Unset /\ CallOK(c, K)
      /\ EditIs(e, c.version, c.content)
      /\ ReadOK(e, S) \/ SaveOK(e, S) \/ CreateOK(e, S)
      /\ e.saved \in Nat /\ e.draft \in Drafts
  BY EditorFields DEF EditorOK, RestOK, SavingOK, CallOK
<1>1. /\ idle \in EditorRow
      /\ SameText(e, idle) /\ SameDraft(e, idle) /\ SameDoubts(e, idle) /\ SameFlags(e, idle)
      /\ idle.status = e.status /\ idle.call = NoCall
  BY <1>0, IdleEditor
<1>2. f = Finish(IF c.write = Unset THEN Resumed(Reconciled(idle, c), c)
                 ELSE IF c.write.kind = "create" THEN Created(idle, c) ELSE Saved(idle, c))
  BY DEF Continued
<1>3. PICK g : g = idle
  OBVIOUS
<1> HIDE DEF f, idle
<1>4. /\ RestOK(g, K, S) /\ g.call = NoCall /\ g.lost = Unset /\ g.draft = e.draft
      /\ g.status # "conflict" /\ g.pending = e.pending /\ SameText(e, g)
      /\ g.queued = e.queued /\ g.saved = e.saved /\ g.suspended = e.suspended
      /\ EditIs(g, c.version, c.content)
  <2>1. RestOK(g, K, S)
    BY <1>0, <1>1, <1>3, SameRest
  <2>2. EditIs(g, c.version, c.content)
    BY <1>0, <1>1, <1>3 DEF EditIs, SameText
  <2> QED  BY <1>0, <1>1, <1>3, <2>1, <2>2 DEF SameDraft, SameDoubts, SameFlags
<1>5. c.at = "answered" => c.answer \in AnswerRow
  BY <1>0 DEF CallOK
<1>6. CASE ReadOK(e, S)
  <2>1. /\ c.write = Unset /\ g.draft \in DraftIds
        /\ c.at = "answered" => /\ Tells(c.answer, S[g.draft])
                                /\ c.answer.result # "refused" /\ c.answer.content = c.content
                                     => <<g.draft, c.answer.revision>> \in K
                                /\ c.answer.result # "refused" => signedIn = "own"
    BY <1>0, <1>4, <1>6 DEF ReadOK, Learns, InAccount, Drafts
  <2> DEFINE h == Resumed(Reconciled(g, c), c)
  <2>2. /\ EditorOK(h, K, S) /\ InAccount(h, signedIn)
        /\ SameText(g, h) /\ h.draft = g.draft /\ (g.suspended => h.suspended)
        /\ h.call = NoCall => h.status # "reconciling"
        /\ \A n \in Nat :
             n <= g.edits /\ (n <= g.saved \/ n <= c.version \/ g.queued \/ c.then)
               => /\ h.call = NoCall => Waits(h, n)
                  /\ h.call # NoCall => AskedOK(h, n)
    BY <1>0, <1>4, <1>5, <2>1, ReadEndedOK
  <2>3. f = Finish(h)
    BY <1>2, <1>3, <2>1
  <2> HIDE DEF h
  <2>4. g.draft # Unset
    BY <2>1, UnsetAssumption
  <2>5. /\ EditorOK(f, K, S) /\ InAccount(f, signedIn) /\ SameText(h, f)
        /\ h.suspended => f.suspended
        /\ \A n \in Nat : /\ n <= h.edits
                          /\ h.call = NoCall => Waits(h, n)
                          /\ h.call # NoCall => AskedOK(h, n)
             => Told(f, n)
    BY <2>2, <2>3, <2>4, FinishOK
  <2>6. ASSUME NEW n \in Nat, n <= e.edits, AskedOK(e, n)
        PROVE  Told(f, n)
    <3>1. n <= g.saved \/ n <= c.version \/ g.queued \/ c.then
      BY <1>4, <2>1, <2>6 DEF AskedOK
    <3>2. n <= g.edits /\ n <= h.edits
      BY <1>4, <2>2, <2>6 DEF SameText
    <3> QED  BY <2>2, <2>5, <3>1, <3>2
  <2> QED  BY <1>4, <2>2, <2>5, <2>6 DEF f, SameText
<1>7. CASE SaveOK(e, S)
  <2>1. c.write \in Writes /\ c.write.draft \in DraftIds /\ c.write # Unset /\ c.write.kind = "save"
    BY <1>0, <1>7, WriteFields DEF SaveOK, CallOK, GoodWrite
  <2>2. /\ g.draft \in DraftIds /\ ~ c.then
        /\ c.at = "answered" => /\ Tells(c.answer, S[g.draft])
                                /\ c.answer.result # "refused"
                                     => <<g.draft, c.answer.revision>> \in K
                                /\ c.answer.result = "draft" => c.answer.content = c.content
    BY <1>0, <1>4, <1>7, <2>1 DEF SaveOK, Learns
  <2> DEFINE h == Saved(g, c)
  <2>3. /\ EditorOK(h, K, S) /\ InAccount(h, signedIn) /\ Ended(g, h)
        /\ h.call # NoCall => h.call.version = c.version
        /\ h.call = NoCall => c.version <= h.saved \/ h.status \in {"error", "conflict"}
                                                   \/ h.suspended
    BY <1>0, <1>4, <1>5, <2>2, SavedCallOK
  <2>4. f = Finish(h)
    BY <1>2, <1>3, <2>1
  <2>5. c.version \in Nat /\ h.saved \in Nat /\ (h.call # NoCall => h.call.version \in Nat)
    BY <1>0, <2>3, CallFields, EditorFields DEF EditorOK, RestOK, SavingOK, CallOK
  <2> HIDE DEF h
  <2>6. /\ EditorOK(f, K, S) /\ InAccount(f, signedIn) /\ SameText(h, f)
        /\ h.suspended => f.suspended
        /\ \A n \in Nat : /\ n <= h.edits
                          /\ h.call = NoCall => Waits(h, n)
                          /\ h.call # NoCall => AskedOK(h, n)
             => Told(f, n)
    BY <2>3, <2>4, FinishOK DEF Ended
  <2>7. ASSUME NEW n \in Nat, n <= e.edits, AskedOK(e, n)
        PROVE  Told(f, n)
    <3>1. n <= e.saved \/ n <= c.version \/ e.queued
      BY <2>1, <2>2, <2>7 DEF AskedOK
    <3>2. n <= h.edits /\ e.saved <= h.saved /\ h.queued = e.queued
      BY <1>4, <2>3, <2>7 DEF Ended, SameText
    <3>3. h.call = NoCall => Waits(h, n)
      BY <1>0, <2>3, <2>5, <3>1, <3>2 DEF Waits
    <3>4. h.call # NoCall => AskedOK(h, n)
      BY <1>0, <2>3, <2>5, <3>1, <3>2 DEF AskedOK
    <3> QED  BY <2>6, <3>2, <3>3, <3>4
  <2> QED  BY <1>4, <2>3, <2>6, <2>7 DEF f, Ended, SameText
<1>8. CASE CreateOK(e, S)
  <2>1. c.write \in Writes /\ c.write # Unset /\ c.write.kind = "create"
    BY <1>0, <1>8 DEF CreateOK, CallOK, GoodWrite
  <2>2. /\ g.draft = Unset /\ g.pending # Unset /\ ~ c.then
        /\ c.at = "answered" => /\ Tells(c.answer, S[c.write.draft])
                                /\ c.answer.result # "refused"
                                     => <<c.write.draft, c.answer.revision>> \in K
    BY <1>0, <1>4, <1>8, <2>1 DEF CreateOK, Learns
  <2> DEFINE h == Created(g, c)
  <2>3. RestOK(h, K, S) /\ h.call = NoCall /\ Ended(g, h)
    BY <1>0, <1>4, <1>5, <2>1, <2>2, CreatedOK
  <2>4. f = Finish(h)
    BY <1>2, <1>3, <2>1
  <2>5. h.saved \in Nat
    BY <2>3, EditorFields DEF RestOK
  <2> HIDE DEF h
  <2>6. EditorOK(h, K, S) /\ InAccount(h, signedIn)
    BY <2>3 DEF EditorOK, SavingOK, InAccount
  <2>7. /\ EditorOK(f, K, S) /\ InAccount(f, signedIn) /\ SameText(h, f)
        /\ h.suspended => f.suspended
        /\ \A n \in Nat : n <= h.edits /\ Waits(h, n) => Told(f, n)
    BY <2>3, <2>4, <2>6, FinishOK DEF Ended
  <2>8. ASSUME NEW n \in Nat, n <= e.edits, AskedOK(e, n), Repeated(e) => n = 0
        PROVE  Told(f, n)
    <3>1. n = 0 \/ e.queued
      BY <2>1, <2>8 DEF Repeated
    <3>2. n <= h.edits /\ h.queued = e.queued
      BY <1>4, <2>3, <2>8 DEF Ended, SameText
    <3>3. Waits(h, n)
      BY <2>5, <3>1, <3>2 DEF Waits
    <3> QED  BY <2>7, <3>2, <3>3
  <2> QED  BY <1>4, <2>3, <2>7, <2>8 DEF f, Ended, SameText
<1> QED  BY <1>0, <1>6, <1>7, <1>8

LEMMA FlushOK ==
    ASSUME NEW K, NEW S, NEW e, EditorOK(e, K, S), InAccount(e, signedIn),
           e.draft = Unset /\ e.pending = Unset => e.requests < MaxRequests
    PROVE  LET f == Flush(e) IN
           /\ EditorOK(f, K, S) /\ InAccount(f, signedIn)
           /\ SameText(e, f) /\ f.draft = e.draft /\ (e.suspended => f.suspended)
           /\ e.suspended /\ e.call = NoCall => f.pending = e.pending /\ f.call = NoCall
           /\ e.status = "conflict" => f.status = "conflict" /\ f.call = NoCall
           /\ Told(f, e.edits)
<1> DEFINE f == Flush(e)
<1>0. /\ RestOK(e, K, S) /\ e \in EditorRow /\ e.edits \in Nat
  BY EditorFields DEF EditorOK, RestOK
<1>1. CASE e.call = NoCall
  <2>1. f = Start(e)
    BY <1>1 DEF Flush
  <2>2. /\ EditorOK(f, K, S) /\ InAccount(f, signedIn)
        /\ SameText(e, f) /\ f.draft = e.draft /\ (e.suspended => f.suspended)
        /\ e.suspended => f.pending = e.pending /\ f.call = NoCall
        /\ e.status = "conflict" => f.status = "conflict" /\ f.call = NoCall
        /\ Settles(f) \/ f.suspended
    BY <1>0, <1>1, <2>1, StartOK
  <2> HIDE DEF f
  <2>3. Told(f, e.edits)
    BY <1>0, <2>2 DEF Told, Settles, SameText
  <2> QED  BY <2>2, <2>3 DEF f
<1>2. CASE e.call # NoCall
  <2>1. f = [e EXCEPT !.queued = TRUE]
    BY <1>2 DEF Flush
  <2>2. /\ f \in EditorRow
        /\ SameText(e, f) /\ SameDraft(e, f) /\ SameDoubts(e, f)
        /\ f.suspended = e.suspended /\ f.status = e.status /\ f.call = e.call
    BY <1>0, <2>1, EditorRecord DEF SameText, SameDraft, SameDoubts
  <2>3. f.queued
    BY <1>0, <2>1, EditorRecord
  <2> HIDE DEF f
  <2>4. RestOK(f, K, S)
    BY <1>0, <2>2, SameRest
  <2>5. e.status # "conflict"
    BY <1>2 DEF EditorOK, SavingOK
  <2>6. EditorOK(f, K, S)
    BY <1>2, <2>2, <2>4, <2>5 DEF EditorOK, SavingOK, EditIs, ReadOK, SaveOK, CreateOK,
                                  SameText, SameDraft, SameDoubts
  <2>7. InAccount(f, signedIn) /\ Told(f, e.edits)
    BY <1>2, <2>2, <2>3 DEF InAccount, Told, AskedOK
  <2> QED  BY <1>2, <2>2, <2>5, <2>6, <2>7 DEF f, SameDraft
<1> QED  BY <1>1, <1>2

-----------------------------------------------------------------------------
(* The invariant of the editor as what is known and stored grows.           *)

LEMMA CallGrows ==
    ASSUME NEW K, NEW K2, K \subseteq K2, NEW c, CallOK(c, K)
    PROVE  CallOK(c, K2)
  BY DEF CallOK, GoodWrite

LEMMA TellsMore ==
    ASSUME NEW s, NEW t, s \subseteq t, NEW answer, Tells(answer, s)
    PROVE  Tells(answer, t)
  BY DEF Tells

LEMMA EditorGrows ==
    ASSUME NEW K, NEW K2, K \subseteq K2, NEW S, NEW T, Gain(S, T),
           NEW e, EditorOK(e, K, S)
    PROVE  EditorOK(e, K2, T)
<1>0. /\ e \in EditorRow /\ SavedOK(e, S) /\ BasisOK(e, K) /\ ConflictOK(e, S) /\ DoubtsOK(e)
      /\ e.draft \in Drafts
  BY EditorFields DEF EditorOK, RestOK
<1>1. e.draft # Unset => S[e.draft] \subseteq T[e.draft]
  BY <1>0 DEF Gain, Drafts
<1>2. RestOK(e, K2, T)
  BY <1>0, <1>1 DEF RestOK, SavedOK, NothingUnsaved, BasisOK, ConflictOK
<1>3. ASSUME e.call # NoCall  PROVE SavingOK(e, K2, T)
  <2>1. /\ e.status # "conflict" /\ e.lost = Unset /\ CallOK(e.call, K)
        /\ EditIs(e, e.call.version, e.call.content)
        /\ ReadOK(e, S) \/ SaveOK(e, S) \/ CreateOK(e, S)
    BY <1>3 DEF EditorOK, SavingOK
  <2>2. CallOK(e.call, K2)
    BY <2>1, CallGrows
  <2>3. CASE ReadOK(e, S)
    <3>1. ReadOK(e, T)
      BY <1>1, <2>3, TellsMore DEF ReadOK
    <3> QED  BY <2>1, <2>2, <3>1 DEF SavingOK
  <2>4. CASE SaveOK(e, S)
    <3>1. e.draft # Unset
      BY <2>1, <2>4, WriteFields, UnsetAssumption DEF SaveOK, CallOK, GoodWrite
    <3>2. SaveOK(e, T)
      BY <1>1, <2>4, <3>1, TellsMore DEF SaveOK
    <3> QED  BY <2>1, <2>2, <3>2 DEF SavingOK
  <2>5. CASE CreateOK(e, S)
    <3>1. e.call.write.draft \in DraftIds
      BY <2>1, <2>5, WriteFields DEF CreateOK, CallOK, GoodWrite
    <3>2. CreateOK(e, T)
      BY <2>5, <3>1, TellsMore DEF CreateOK, Gain
    <3> QED  BY <2>1, <2>2, <3>2 DEF SavingOK
  <2> QED  BY <2>1, <2>3, <2>4, <2>5
<1> QED  BY <1>2, <1>3 DEF EditorOK, SavingOK

-----------------------------------------------------------------------------
(* Calls that are answered or lost.                                         *)

SameCall(c, d) == /\ d.write = c.write /\ d.version = c.version /\ d.base = c.base
                  /\ d.content = c.content /\ d.then = c.then

LEMMA AnsweredCall ==
    ASSUME NEW c \in CallRow, NEW answer \in AnswerRow
    PROVE  LET d == Answered(c, answer) IN
           /\ d \in CallRow /\ d # NoCall
           /\ SameCall(c, d) /\ d.at = "answered" /\ d.answer = answer
<1>1. Answered(c, answer) \in CallRow
  BY DEF Answered, CallRow
<1> QED  BY <1>1, UnsetAssumption DEF Answered, CallRow, SameCall, NoCall

LEMMA LostCall ==
    ASSUME NEW c \in CallRow, NEW at \in {"dropped", "switched"}
    PROVE  LET d == Lost(c, at) IN
           /\ d \in CallRow /\ d # NoCall
           /\ SameCall(c, d)
           /\ \/ d.at \in {"dropped", "switched"}
              \/ /\ d = c /\ at = "switched"
                 /\ c.at = "answered" /\ c.answer.result = "refused"
<1>0. c # NoCall
  BY UnsetAssumption DEF NoCall
<1>1. CASE c.at = "dropped"
  BY <1>0, <1>1 DEF Lost, SameCall
<1>2. CASE c.at = "answered" /\ at = "switched" /\ c.answer.result = "refused"
  BY <1>0, <1>2 DEF Lost, SameCall
<1>3. CASE ~ (\/ c.at = "dropped"
              \/ c.at = "answered" /\ at = "switched" /\ c.answer.result = "refused")
  <2>1. Lost(c, at) = [c EXCEPT !.at = at, !.answer = Unset]
    BY <1>0, <1>3 DEF Lost
  <2>2. Lost(c, at) \in CallRow
    BY <2>1 DEF CallRow
  <2>3. SameCall(c, Lost(c, at)) /\ Lost(c, at).at = at
    BY <2>1 DEF CallRow, SameCall
  <2> QED  BY <2>2, <2>3, UnsetAssumption DEF NoCall
<1> QED  BY <1>1, <1>2, <1>3

LEMMA NoCallLost == \A at : Lost(NoCall, at) = NoCall /\ Underway(NoCall) = {}
  BY DEF Lost, Underway

(* A call that nobody waits for any more leaves a write of its own.         *)
LEMMA UnderwayOK ==
    ASSUME NEW K, NEW c, c # NoCall => CallOK(c, K)
    PROVE  \A w \in Underway(c) : GoodWrite(w, K)
  BY DEF Underway, CallOK

LEMMA LostCallOK ==
    ASSUME NEW K, NEW c, CallOK(c, K), NEW at \in {"dropped", "switched"}
    PROVE  /\ Lost(c, at) # NoCall
           /\ CallOK(Lost(c, at), K) /\ SameCall(c, Lost(c, at))
           /\ Lost(c, at).at = "answered" => Lost(c, at) = c /\ c.answer.result = "refused"
           /\ Lost(c, at).at # "sent"
<1>1. c \in CallRow
  BY DEF CallOK
<1>2. /\ Lost(c, at) \in CallRow /\ Lost(c, at) # NoCall
      /\ SameCall(c, Lost(c, at))
      /\ \/ Lost(c, at).at \in {"dropped", "switched"}
         \/ Lost(c, at) = c /\ c.at = "answered" /\ c.answer.result = "refused"
  BY <1>1, LostCall
<1> QED  BY <1>2 DEF CallOK, SameCall

LEMMA AnsweredCallOK ==
    ASSUME NEW K, NEW c, CallOK(c, K), NEW answer \in AnswerRow
    PROVE  /\ Answered(c, answer) # NoCall
           /\ CallOK(Answered(c, answer), K) /\ SameCall(c, Answered(c, answer))
           /\ Answered(c, answer).at = "answered" /\ Answered(c, answer).answer = answer
<1>1. c \in CallRow
  BY DEF CallOK
<1>2. /\ Answered(c, answer) \in CallRow /\ Answered(c, answer) # NoCall
      /\ SameCall(c, Answered(c, answer))
      /\ Answered(c, answer).at = "answered" /\ Answered(c, answer).answer = answer
  BY <1>1, AnsweredCall
<1> QED  BY <1>2 DEF CallOK, SameCall

(* The editor with another state of its call.                               *)
LEMMA CallChanged ==
    ASSUME NEW K, NEW S, NEW e, EditorOK(e, K, S), e.call # NoCall,
           NEW d \in CallRow, d # NoCall, CallOK(d, K), SameCall(e.call, d),
           d.at = "answered" =>
               /\ e.call.write = Unset => Tells(d.answer, S[e.draft])
               /\ e.call.write # Unset => Tells(d.answer, S[e.call.write.draft])
               /\ e.call.write # Unset /\ e.call.write.kind = "save"
                  /\ d.answer.result = "draft" => d.answer.content = e.call.content
    PROVE  LET f == [e EXCEPT !.call = d] IN
           /\ EditorOK(f, K, S)
           /\ SameText(e, f) /\ SameDraft(e, f) /\ SameDoubts(e, f) /\ SameFlags(e, f)
           /\ f.status = e.status /\ f.call = d
<1> DEFINE f == [e EXCEPT !.call = d]
<1>0. /\ RestOK(e, K, S) /\ e \in EditorRow /\ e.status # "conflict" /\ e.lost = Unset
      /\ EditIs(e, e.call.version, e.call.content)
      /\ ReadOK(e, S) \/ SaveOK(e, S) \/ CreateOK(e, S)
  BY DEF EditorOK, RestOK, SavingOK
<1>1. f \in EditorRow
  BY <1>0, EditorRecord DEF Calls
<1>2. /\ SameText(e, f) /\ SameDraft(e, f) /\ SameDoubts(e, f) /\ SameFlags(e, f)
      /\ f.status = e.status /\ f.call = d
  BY <1>0, EditorRecord DEF SameText, SameDraft, SameDoubts, SameFlags
<1> HIDE DEF f
<1>3. RestOK(f, K, S)
  BY <1>0, <1>1, <1>2, SameRest
<1>4. EditIs(f, d.version, d.content) /\ f.lost = Unset /\ f.status # "conflict"
  BY <1>0, <1>2 DEF EditIs, SameText, SameCall, SameDoubts
<1>5. ReadOK(f, S) \/ SaveOK(f, S) \/ CreateOK(f, S)
  <2>1. ReadOK(e, S) => ReadOK(f, S)
    BY <1>2 DEF ReadOK, SameCall, SameDraft
  <2>2. SaveOK(e, S) => SaveOK(f, S)
    BY <1>2 DEF SaveOK, SameCall, SameDraft
  <2>3. CreateOK(e, S) => CreateOK(f, S)
    BY <1>2 DEF CreateOK, SameCall, SameDraft, SameDoubts
  <2> QED  BY <1>0, <2>1, <2>2, <2>3
<1> QED  BY <1>2, <1>3, <1>4, <1>5 DEF f, EditorOK, SavingOK

-----------------------------------------------------------------------------
(* Edits, adopted versions and accounts that come back.                     *)

LEMMA EditedOK ==
    ASSUME NEW K, NEW S, NEW e, EditorOK(e, K, S), NEW content \in Texts
    PROVE  LET f == Edited(e, content) IN
           /\ EditorOK(f, K, S)
           /\ f.edits = e.edits + 1 /\ f.draft = e.draft /\ e.saved <= f.saved
           /\ SameDoubts(e, f) /\ SameFlags(e, f) /\ f.call = e.call
           /\ e.status = "conflict" => f.status = "conflict"
<1> DEFINE f == Edited(e, content)
           next == [e EXCEPT !.latest = content, !.edits = @ + 1]
<1>0. /\ RestOK(e, K, S) /\ e \in EditorRow /\ SavedOK(e, S) /\ BasisOK(e, K)
      /\ ConflictOK(e, S) /\ DoubtsOK(e)
      /\ e.edits \in Nat /\ e.saved \in Nat
  BY EditorFields DEF EditorOK, RestOK
<1>1. PICK n \in Nat : n = e.edits + 1
  BY <1>0
<1>2. next = [e EXCEPT !.latest = content, !.edits = n]
  BY <1>1, <1>0, EditorRecord
<1>3. next \in EditorRow
  BY <1>0, <1>2, EditorRecord DEF Values
<1>4. /\ next.latest = content /\ next.edits = n /\ next.status = e.status
      /\ SameDraft(e, next) /\ SameDoubts(e, next) /\ SameFlags(e, next) /\ next.call = e.call
  BY <1>0, <1>2, EditorRecord DEF SameDraft, SameDoubts, SameFlags
<1>5. PICK g \in EditorRow : g = next
  BY <1>3
<1>6. f = IF e.draft = Unset /\ e.pending = Unset /\ content = Empty
          THEN [g EXCEPT !.saved = g.edits, !.status = "idle"]
          ELSE IF e.status \in {"conflict", "saving", "reconciling"} THEN g
          ELSE [g EXCEPT !.status = "pending"]
  BY <1>5 DEF Edited
<1>7. /\ g.latest = content /\ g.edits = n /\ g.status = e.status
      /\ SameDraft(e, g) /\ SameDoubts(e, g) /\ SameFlags(e, g) /\ g.call = e.call
  BY <1>4, <1>5
<1> HIDE DEF f, next
<1>8. /\ f \in EditorRow /\ f.latest = content /\ f.edits = n
      /\ f.draft = e.draft /\ f.revision = e.revision /\ f.conflict = e.conflict
      /\ SameDoubts(e, f) /\ SameFlags(e, f) /\ f.call = e.call
      /\ \/ f.saved = n /\ f.status = "idle" /\ content = Empty /\ e.draft = Unset
         \/ /\ f.saved = e.saved
            /\ f.status = e.status \/ f.status = "pending"
            /\ f.status # "saved"
            /\ e.status = "conflict" => f.status = "conflict"
  <2>1. CASE e.draft = Unset /\ e.pending = Unset /\ content = Empty
    <3>1. f = [g EXCEPT !.saved = n, !.status = "idle"]
      BY <1>6, <1>7, <2>1
    <3>2. f \in EditorRow
      BY <3>1, EditorRecord DEF Statuses
    <3>3. /\ SameText(g, f) /\ f.draft = g.draft /\ f.revision = g.revision
          /\ f.conflict = g.conflict
          /\ SameDoubts(g, f) /\ SameFlags(g, f) /\ f.call = g.call
          /\ f.saved = n /\ f.status = "idle"
      BY <3>1, EditorRecord DEF SameText, SameDoubts, SameFlags
    <3> QED  BY <1>7, <2>1, <3>2, <3>3 DEF SameText, SameDraft, SameDoubts, SameFlags
  <2>2. CASE /\ ~ (e.draft = Unset /\ e.pending = Unset /\ content = Empty)
             /\ e.status \in {"conflict", "saving", "reconciling"}
    BY <1>6, <1>7, <2>2 DEF SameDraft
  <2>3. CASE /\ ~ (e.draft = Unset /\ e.pending = Unset /\ content = Empty)
             /\ e.status \notin {"conflict", "saving", "reconciling"}
    <3>1. f = [g EXCEPT !.status = "pending"]
      BY <1>6, <2>3
    <3>2. f \in EditorRow
      BY <3>1, EditorRecord DEF Statuses
    <3>3. /\ SameText(g, f) /\ SameDraft(g, f)
          /\ SameDoubts(g, f) /\ SameFlags(g, f) /\ f.call = g.call /\ f.status = "pending"
      BY <3>1, EditorRecord DEF SameText, SameDraft, SameDoubts, SameFlags
    <3> QED  BY <1>7, <2>3, <3>2, <3>3 DEF SameText, SameDraft, SameDoubts, SameFlags
  <2> QED  BY <2>1, <2>2, <2>3
<1>9. ASSUME NEW version, NEW text, version \in Nat, EditIs(e, version, text)
      PROVE  EditIs(f, version, text)
  BY <1>0, <1>1, <1>8, <1>9 DEF EditIs
<1>10. SavedOK(f, S)
  BY <1>0, <1>1, <1>8, UnsetAssumption, AutosaveAssumption DEF SavedOK, NothingUnsaved
<1>11. e.draft = Unset => e.status # "conflict"
  BY <1>0 DEF ConflictOK
<1>12. BasisOK(f, K) /\ ConflictOK(f, S)
  BY <1>0, <1>8, <1>11 DEF BasisOK, ConflictOK, SameDoubts
<1>13. DoubtsOK(f)
  <2>1. e.lost # Unset => EditIs(f, e.lost.version, e.lost.content)
    BY <1>0, <1>9, EditorFields, PendingFields DEF DoubtsOK, Losts
  <2>2. e.pending # Unset => EditIs(f, e.pending.version, e.pending.content)
    BY <1>0, <1>9, EditorFields, PendingFields DEF DoubtsOK, Pendings
  <2>3. f.latest # Unset
    BY <1>8, AutosaveAssumption
  <2> QED  BY <1>0, <1>8, <2>1, <2>2, <2>3 DEF DoubtsOK, SameDoubts
<1>14. SavingOK(f, K, S)
  <2> SUFFICES ASSUME e.call # NoCall  PROVE SavingOK(f, K, S)
    BY <1>8 DEF SavingOK
  <2>1. /\ e.status # "conflict" /\ e.lost = Unset /\ CallOK(e.call, K)
        /\ EditIs(e, e.call.version, e.call.content)
        /\ ReadOK(e, S) \/ SaveOK(e, S) \/ CreateOK(e, S)
    BY DEF EditorOK, SavingOK
  <2>2. EditIs(f, e.call.version, e.call.content)
    BY <1>9, <2>1, CallFields DEF CallOK
  <2>3. ReadOK(f, S) \/ SaveOK(f, S) \/ CreateOK(f, S)
    BY <1>8, <2>1 DEF ReadOK, SaveOK, CreateOK, SameDoubts
  <2>4. f.status # "conflict" /\ f.lost = Unset
    BY <1>8, <2>1 DEF SameDoubts
  <2> QED  BY <1>8, <2>1, <2>2, <2>3, <2>4 DEF SavingOK
<1>15. e.saved <= f.saved
  BY <1>0, <1>1, <1>8 DEF SavedOK
<1> QED  BY <1>1, <1>8, <1>10, <1>11, <1>12, <1>13, <1>14, <1>15 DEF f, EditorOK, RestOK

(* What was typed since the conflict was found is kept; what is replaced is *)
(* the version the chooser showed, which is stored.                         *)
LEMMA AdoptedOK ==
    ASSUME NEW K, NEW S, NEW e, EditorOK(e, K, S), e.status = "conflict", e.call = NoCall,
           NEW answer \in AnswerRow, answer.result # "refused", Tells(answer, S[e.draft]),
           <<e.draft, answer.revision>> \in K, NEW copy \in Texts
    PROVE  LET content == PreserveLaterEdits(answer.content, copy, e.latest)
               f == Adopted(e, answer, content)
           IN /\ EditorOK(f, K, S)
              /\ f.latest # e.latest => e.latest = copy
              /\ f.edits = e.edits /\ f.draft = e.draft /\ e.saved <= f.saved
              /\ SameDoubts(e, f) /\ SameFlags(e, f) /\ f.call = NoCall
<1>0. /\ RestOK(e, K, S) /\ e \in EditorRow /\ SavedOK(e, S) /\ DoubtsOK(e)
      /\ e.edits \in Nat /\ e.saved \in Nat /\ e.latest \in Values
      /\ e.draft # Unset /\ e.lost = Unset /\ e.pending = Unset
      /\ answer.content \in Texts /\ answer.conflict \in Values /\ answer.revision \in Nat
      /\ answer.content \in S[e.draft] /\ answer.conflict \in S[e.draft] \cup {Unset}
  BY EditorFields DEF EditorOK, RestOK, ConflictOK, DoubtsOK, AnswerRow, Values, Tells
<1>1. PICK content \in Values :
        /\ content = PreserveLaterEdits(answer.content, copy, e.latest)
        /\ content = e.latest \/ (content = answer.content /\ e.latest = copy)
  BY <1>0 DEF PreserveLaterEdits, Values
<1>2. PICK saved \in Nat : saved = IF answer.content = content THEN e.edits ELSE e.saved
  BY <1>0
<1>3. PICK status \in Statuses :
        status = IF answer.conflict # Unset THEN "conflict"
                 ELSE IF e.edits > saved THEN "pending" ELSE "saved"
  BY DEF Statuses
<1>4. PICK conflict \in Values, revision \in Nat :
        conflict = answer.conflict /\ revision = answer.revision
  BY <1>0
<1> DEFINE f == Adopted(e, answer, content)
<1>5. f = [e EXCEPT !.latest = content, !.revision = revision, !.saved = saved,
                    !.conflict = conflict, !.status = status]
  BY <1>2, <1>3, <1>4 DEF Adopted
<1>6. f \in EditorRow
  BY <1>0, <1>5, EditorRecord
<1>7. /\ f.latest = content /\ f.revision = revision /\ f.saved = saved
      /\ f.conflict = conflict /\ f.status = status
      /\ f.edits = e.edits /\ f.draft = e.draft
      /\ SameDoubts(e, f) /\ SameFlags(e, f) /\ f.call = e.call
  BY <1>0, <1>5, EditorRecord DEF SameDoubts, SameFlags
<1> HIDE DEF f
<1>8. e.saved <= saved /\ saved <= e.edits
  BY <1>0, <1>2 DEF SavedOK
<1>9. SavedOK(f, S)
  <2>1. saved = e.edits => NothingUnsaved(f, S)
    <3>1. CASE answer.content = content
      BY <1>0, <1>7, <3>1 DEF NothingUnsaved
    <3>2. CASE answer.content # content
      BY <1>0, <1>1, <1>2, <1>7, <3>2 DEF NothingUnsaved, SavedOK
    <3> QED  BY <3>1, <3>2
  <2>2. status = "saved" => saved = e.edits
    BY <1>0, <1>3, <1>8
  <2>3. content = Unset => e.edits = 0
    BY <1>0, <1>1, AutosaveAssumption DEF SavedOK
  <2> QED  BY <1>7, <1>8, <2>1, <2>2, <2>3 DEF SavedOK
<1>10. BasisOK(f, K) /\ ConflictOK(f, S) /\ DoubtsOK(f)
  BY <1>0, <1>4, <1>7 DEF BasisOK, ConflictOK, DoubtsOK, SameDoubts
<1>11. EditorOK(f, K, S)
  BY <1>6, <1>7, <1>9, <1>10 DEF EditorOK, RestOK, SavingOK
<1>12. f.latest # e.latest => e.latest = copy
  BY <1>1, <1>7
<1> QED  BY <1>1, <1>7, <1>8, <1>11, <1>12 DEF f

LEMMA SuspendedEditor ==
    ASSUME NEW K, NEW S, NEW e, EditorOK(e, K, S), NEW suspended \in BOOLEAN
    PROVE  LET f == [e EXCEPT !.suspended = suspended] IN
           /\ EditorOK(f, K, S)
           /\ SameText(e, f) /\ SameDraft(e, f) /\ SameDoubts(e, f)
           /\ f.status = e.status /\ f.queued = e.queued /\ f.call = e.call
           /\ f.suspended = suspended
<1> DEFINE f == [e EXCEPT !.suspended = suspended]
<1>0. RestOK(e, K, S) /\ e \in EditorRow
  BY DEF EditorOK, RestOK
<1>1. f \in EditorRow
  BY <1>0, EditorRecord
<1>2. /\ SameText(e, f) /\ SameDraft(e, f) /\ SameDoubts(e, f)
      /\ f.status = e.status /\ f.queued = e.queued /\ f.call = e.call
      /\ f.suspended = suspended
  BY <1>0, EditorRecord DEF SameText, SameDraft, SameDoubts
<1> HIDE DEF f
<1>3. RestOK(f, K, S)
  BY <1>0, <1>1, <1>2, SameRest
<1>4. SavingOK(f, K, S)
  BY <1>2 DEF EditorOK, SavingOK, EditIs, ReadOK, SaveOK, CreateOK,
              SameText, SameDraft, SameDoubts
<1> QED  BY <1>2, <1>3, <1>4 DEF f, EditorOK

LEMMA ResumeOK ==
    ASSUME NEW K, NEW S, NEW e, EditorOK(e, K, S)
    PROVE  LET f == Resume(e) IN
           /\ EditorOK(f, K, S)
           /\ SameText(e, f) /\ SameDraft(e, f) /\ SameDoubts(e, f)
           /\ f.queued = e.queued /\ f.call = e.call
           /\ f.status = e.status \/ (f.status = "pending" /\ e.status # "conflict")
<1> DEFINE f == Resume(e)
<1>1. PICK g : g = [e EXCEPT !.suspended = FALSE]
  OBVIOUS
<1>2. /\ EditorOK(g, K, S)
      /\ SameText(e, g) /\ SameDraft(e, g) /\ SameDoubts(e, g)
      /\ g.status = e.status /\ g.queued = e.queued /\ g.call = e.call
  BY <1>1, SuspendedEditor
<1>3. PICK suspended \in BOOLEAN : suspended = (g.suspended \/ signedIn # "own")
  OBVIOUS
<1>4. PICK back : back = Checked(g)
  OBVIOUS
<1>5. back = [g EXCEPT !.suspended = suspended]
  BY <1>3, <1>4 DEF Checked
<1>6. /\ EditorOK(back, K, S)
      /\ SameText(g, back) /\ SameDraft(g, back) /\ SameDoubts(g, back)
      /\ back.status = g.status /\ back.queued = g.queued /\ back.call = g.call
  BY <1>2, <1>5, SuspendedEditor
<1>7. /\ SameText(e, back) /\ SameDraft(e, back) /\ SameDoubts(e, back)
      /\ back.status = e.status /\ back.queued = e.queued /\ back.call = e.call
  BY <1>2, <1>6 DEF SameText, SameDraft, SameDoubts
<1>8. f = IF \/ back.suspended \/ back.lost # Unset
             \/ e.status \in {"conflict", "error"} \/ ~ Unsaved(e)
          THEN back ELSE [back EXCEPT !.status = "pending"]
  BY <1>1, <1>4 DEF Resume
<1> HIDE DEF f
<1>9. CASE f = back
  BY <1>6, <1>7, <1>9 DEF f
<1>10. CASE f # back
  <2>1. f = [back EXCEPT !.status = "pending"] /\ e.status # "conflict"
    BY <1>8, <1>10
  <2>2. back \in EditorRow /\ RestOK(back, K, S)
    BY <1>6 DEF EditorOK, RestOK
  <2>3. f \in EditorRow
    BY <2>1, <2>2, EditorRecord DEF Statuses
  <2>4. /\ SameText(back, f) /\ SameDraft(back, f) /\ SameDoubts(back, f)
        /\ f.queued = back.queued /\ f.call = back.call /\ f.status = "pending"
    BY <2>1, <2>2, EditorRecord DEF SameText, SameDraft, SameDoubts
  <2>5. DoubtsOK(f)
    BY <2>2, <2>4, DoubtsKept DEF RestOK, SameDoubts, SameDraft
  <2>6. RestOK(f, K, S)
    BY <2>2, <2>3, <2>4, <2>5, RestKept DEF SameDraft
  <2>7. SavingOK(f, K, S)
    BY <1>6, <2>4 DEF EditorOK, SavingOK, EditIs, ReadOK, SaveOK, CreateOK,
                      SameText, SameDraft, SameDoubts
  <2>8. SameText(e, f) /\ SameDraft(e, f) /\ SameDoubts(e, f)
    BY <1>7, <2>4 DEF SameText, SameDraft, SameDoubts
  <2> QED  BY <1>7, <2>1, <2>4, <2>6, <2>7, <2>8 DEF f, EditorOK
<1> QED  BY <1>9, <1>10

-----------------------------------------------------------------------------
(* What the invariant says of what a step leaves alone.                     *)

LEMMA HistoryKept ==
    ASSUME UNCHANGED <<seen, replayed>>
    PROVE  Known' = Known
  BY DEF Known

LEMMA HistoryGrows ==
    ASSUME seen \subseteq seen', replayed \subseteq replayed'
    PROVE  Known \subseteq Known'
  BY DEF Known

LEMMA RowsKept ==
    ASSUME UNCHANGED rows, RowsOK
    PROVE  RowsOK' /\ StoredTexts' = StoredTexts
  BY RowsSame

LEMMA GainSame == \A S : Gain(S, S)
  BY DEF Gain

LEMMA EditorIs ==
    ASSUME NEW f, NEW K, NEW S, EditorOK(f, K, S),
           editor' = f, Known' = K, StoredTexts' = S
    PROVE  EditorOK(editor, Known, StoredTexts)'
  OBVIOUS

LEMMA ChoiceKept ==
    ASSUME ChoiceOK(Known, StoredTexts), editor \in EditorRow,
           Known \subseteq Known', Gain(StoredTexts, StoredTexts'), UNCHANGED choice,
           EditorOK(editor, Known, StoredTexts),
           choice.step # "none" =>
               editor'.status = "conflict" /\ editor'.call = NoCall /\ editor'.draft = editor.draft
    PROVE  ChoiceOK(Known, StoredTexts)'
<1>1. choice.step # "none" => StoredTexts[editor.draft] \subseteq StoredTexts'[editor.draft]
  BY EditorFields DEF ChoiceOK, EditorOK, RestOK, ConflictOK, Gain, Drafts
<1>2. choice.call # NoCall => choice.step # "none"
  BY DEF ChoiceOK, ChoosingOK
<1>3. choice.call # NoCall => CallOK(choice.call, Known)'
  BY CallGrows DEF ChoiceOK, ChoosingOK
<1>4. choice.call # NoCall /\ choice.call.at = "answered"
        => Tells(choice.call.answer, StoredTexts'[editor.draft])
  BY <1>1, <1>2, TellsMore DEF ChoiceOK, ChoosingOK
<1>5. ChoosingOK(Known, StoredTexts)'
  BY <1>2, <1>3, <1>4 DEF ChoiceOK, ChoosingOK
<1> QED  BY <1>1, <1>5 DEF ChoiceOK

LEMMA LateKept ==
    ASSUME LateOK(Known), Known \subseteq Known',
           \A w \in late' : w \in late \/ GoodWrite(w, Known)
    PROVE  LateOK(Known)'
  BY DEF LateOK, GoodWrite

LEMMA DisablingKept ==
    ASSUME DisablingOK(Known, StoredTexts),
           Known \subseteq Known', Gain(StoredTexts, StoredTexts'), UNCHANGED disabling,
           disabling.step \in {"idle", "creating"} =>
               editor'.suspended /\ (signedIn' = "own" => noticed' = "own"),
           disabling.step = "creating" =>
               editor'.call = NoCall /\ editor'.draft = Unset /\ editor'.pending = editor.pending
    PROVE  DisablingOK(Known, StoredTexts)'
<1>1. disabling.call # NoCall => CallOK(disabling.call, Known)'
  BY CallGrows DEF DisablingOK
<1>2. disabling.step = "creating" =>
        /\ CallOK(disabling.call, Known) /\ disabling.call.write # Unset
        /\ disabling.call.write.draft \in DraftIds
  BY WriteFields DEF DisablingOK, CallOK, GoodWrite
<1>3. disabling.step = "creating" => LookingUp(disabling.call, StoredTexts)'
  BY <1>2, TellsMore DEF DisablingOK, LookingUp, Gain
<1> QED  BY <1>1, <1>3 DEF DisablingOK

LEMMA StillAskedOK ==
    ASSUME NEW f \in EditorRow, NEW n \in Nat, n <= f.edits, Told(f, n)
    PROVE  /\ StillAsked(n, f) \in Nat /\ StillAsked(n, f) <= f.edits
           /\ AskedOK(f, StillAsked(n, f))
<1>1. f.edits \in Nat /\ f.saved \in Nat
  BY EditorFields
<1> QED  BY <1>1 DEF StillAsked, Told, AskedOK

LEMMA InvFields ==
    ASSUME AutosaveInv
    PROVE  /\ RowsOK /\ EditorOK(editor, Known, StoredTexts) /\ InAccount(editor, signedIn)
           /\ ChoiceOK(Known, StoredTexts) /\ DisablingOK(Known, StoredTexts) /\ LateOK(Known)
           /\ editor \in EditorRow /\ RestOK(editor, Known, StoredTexts)
           /\ editor.edits \in Nat /\ editor.saved \in Nat /\ editor.call \in Calls
           /\ editor.draft \in Drafts
           /\ asked \in Nat /\ asked <= editor.edits /\ AskedOK(editor, asked)
           /\ signedIn \in {"own", "other"} /\ noticed \in {"own", "other"}
  BY EditorFields DEF AutosaveInv, EditorOK, RestOK

-----------------------------------------------------------------------------
(* Each action keeps the invariant. *)

LEMMA TypeKeeps ==
    ASSUME AutosaveInv, NEW content \in Texts, Type(content)
    PROVE  AutosaveInv'
<1>1. /\ editor' = Edited(editor, content)
      /\ UNCHANGED <<choice, disabling, signedIn, noticed, rows, late, seen, replayed, asked>>
  BY DEF Type
<1>2. Known' = Known /\ RowsOK' /\ StoredTexts' = StoredTexts
  BY <1>1, HistoryKept, RowsKept, InvFields
<1>3. PICK f : f = Edited(editor, content)
  OBVIOUS
<1>4. /\ EditorOK(f, Known, StoredTexts)
      /\ f.edits = editor.edits + 1 /\ f.draft = editor.draft /\ editor.saved <= f.saved
      /\ SameDoubts(editor, f) /\ SameFlags(editor, f) /\ f.call = editor.call
      /\ editor.status = "conflict" => f.status = "conflict"
  BY <1>3, InvFields, EditedOK
<1>5. EditorOK(editor, Known, StoredTexts)'
  BY <1>1, <1>2, <1>3, <1>4, EditorIs
<1>6. InAccount(editor, signedIn)'
  BY <1>1, <1>3, <1>4, InvFields DEF InAccount
<1>7. ChoiceOK(Known, StoredTexts)'
  BY <1>1, <1>2, <1>3, <1>4, InvFields, ChoiceKept, GainSame DEF ChoiceOK
<1>8. DisablingOK(Known, StoredTexts)'
  BY <1>1, <1>2, <1>3, <1>4, InvFields, DisablingKept, GainSame
     DEF DisablingOK, LookingUp, SameDoubts, SameFlags
<1>9. LateOK(Known)'
  BY <1>1, <1>2, InvFields, LateKept
<1>10. f.saved \in Nat /\ f.edits \in Nat
  BY <1>4, EditorFields DEF EditorOK, RestOK
<1>11. asked' <= f.edits /\ AskedOK(f, asked)
  BY <1>1, <1>4, <1>10, InvFields DEF AskedOK, SameFlags
<1> QED  BY <1>1, <1>2, <1>3, <1>5, <1>6, <1>7, <1>8, <1>9, <1>11, InvFields DEF AutosaveInv

LEMMA EditorKept ==
    ASSUME AutosaveInv, UNCHANGED <<editor, signedIn, asked>>,
           Known \subseteq Known', Gain(StoredTexts, StoredTexts')
    PROVE  /\ EditorOK(editor, Known, StoredTexts)' /\ InAccount(editor, signedIn)'
           /\ (asked \in Nat /\ asked <= editor.edits /\ AskedOK(editor, asked))'
<1>1. PICK K, S : K = Known' /\ S = StoredTexts'
  OBVIOUS
<1>2. EditorOK(editor, K, S)
  BY <1>1, InvFields, EditorGrows
<1> QED  BY <1>1, <1>2, InvFields DEF InAccount, AskedOK

LEMMA SaveNowKeeps ==
    ASSUME AutosaveInv, SaveNow
    PROVE  AutosaveInv'
<1>1. /\ editor' = Flush(editor)
      /\ asked' = StillAsked(editor.edits, editor')
      /\ UNCHANGED <<choice, disabling, signedIn, noticed, rows, late, seen, replayed>>
      /\ editor.draft = Unset /\ editor.pending = Unset => editor.requests < MaxRequests
  BY DEF SaveNow
<1>2. Known' = Known /\ RowsOK' /\ StoredTexts' = StoredTexts
  BY <1>1, HistoryKept, RowsKept, InvFields
<1>3. PICK f : f = Flush(editor)
  OBVIOUS
<1>4. /\ EditorOK(f, Known, StoredTexts) /\ InAccount(f, signedIn)
      /\ SameText(editor, f) /\ f.draft = editor.draft /\ (editor.suspended => f.suspended)
      /\ editor.suspended /\ editor.call = NoCall => f.pending = editor.pending /\ f.call = NoCall
      /\ editor.status = "conflict" => f.status = "conflict" /\ f.call = NoCall
      /\ Told(f, editor.edits)
  BY <1>1, <1>3, InvFields, FlushOK
<1>5. EditorOK(editor, Known, StoredTexts)'
  BY <1>1, <1>2, <1>3, <1>4, EditorIs
<1>6. InAccount(editor, signedIn)'
  BY <1>1, <1>3, <1>4
<1>7. ChoiceOK(Known, StoredTexts)'
  BY <1>1, <1>2, <1>3, <1>4, InvFields, ChoiceKept, GainSame DEF ChoiceOK
<1>8. DisablingOK(Known, StoredTexts)'
  BY <1>1, <1>2, <1>3, <1>4, InvFields, DisablingKept, GainSame DEF DisablingOK, LookingUp
<1>9. LateOK(Known)'
  BY <1>1, <1>2, InvFields, LateKept
<1>10. f \in EditorRow /\ editor.edits <= f.edits
  BY <1>4, InvFields DEF EditorOK, RestOK, SameText
<1>11. asked' \in Nat /\ asked' <= f.edits /\ AskedOK(f, StillAsked(editor.edits, f))
  BY <1>1, <1>3, <1>4, <1>10, InvFields, StillAskedOK
<1> QED  BY <1>1, <1>2, <1>3, <1>5, <1>6, <1>7, <1>8, <1>9, <1>11, InvFields DEF AutosaveInv

(* A call of the editor is under way: no conflict is open and no create is   *)
(* looked up.                                                               *)
LEMMA WhileSaving ==
    ASSUME AutosaveInv, editor.call # NoCall
    PROVE  /\ choice.step = "none" /\ disabling.step # "creating"
           /\ CallOK(editor.call, Known) /\ editor.call \in CallRow
           /\ editor.lost = Unset /\ editor.status # "conflict"
           /\ \/ ReadOK(editor, StoredTexts) \/ SaveOK(editor, StoredTexts)
              \/ CreateOK(editor, StoredTexts)
  BY DEF AutosaveInv, EditorOK, SavingOK, CallOK, ChoiceOK, DisablingOK, LookingUp

(* What a served call answers.                                              *)
LEMMA CallServed ==
    ASSUME AutosaveInv, NEW c, CallOK(c, Known), NEW d \in DraftIds,
           NEW answer,
           IF c.write = Unset THEN answer \in {Refused} \cup Read(rows[d]) /\ UNCHANGED rows
           ELSE c.write.draft = d /\ Serve(c.write, answer)
    PROVE  /\ RowsOK' /\ Gain(StoredTexts, StoredTexts')
           /\ answer \in AnswerRow /\ Tells(answer, StoredTexts'[d])
           /\ c.write # Unset /\ c.write.kind = "save" /\ answer.result = "draft"
                => answer.content = c.write.content
<1>1. CASE c.write = Unset
  <2>1. RowsOK' /\ StoredTexts' = StoredTexts /\ Gain(StoredTexts, StoredTexts')
    BY <1>1, RowsSame, InvFields
  <2>2. rows[d] \in RowRow /\ RowOK(rows[d]) /\ StoredTexts[d] = rows[d].stored
    BY InvFields DEF RowsOK, StoredTexts
  <2>3. answer = Refused \/ answer \in Read(rows[d])
    BY <1>1
  <2>4. answer \in AnswerRow /\ Tells(answer, StoredTexts[d])
    BY <2>2, <2>3, ReadAnswers, Refusal, RefusalTells
  <2> QED  BY <1>1, <2>1, <2>4
<1>2. CASE c.write # Unset
  <2>1. c.write \in Writes /\ Content(c.write)
    BY <1>2 DEF CallOK, GoodWrite, Content
  <2>2. PICK w \in Writes : w = c.write
    BY <2>1
  <2> QED  BY <1>2, <2>1, <2>2, InvFields, Served
<1> QED  BY <1>1, <1>2

LEMMA ServeCallKeeps ==
    ASSUME AutosaveInv, ServeCall
    PROVE  AutosaveInv'
<1> DEFINE c == editor.call
<1>1. /\ c # NoCall /\ c.at = "sent"
      /\ UNCHANGED <<choice, disabling, signedIn, noticed, late, seen, replayed, asked>>
  BY DEF ServeCall
<1>2. PICK answer \in IF c.write = Unset THEN {Refused} \cup Read(rows[editor.draft])
                      ELSE {Refused} \cup AnswersTo(c.write) :
        /\ editor' = [editor EXCEPT !.call = Answered(c, answer)]
        /\ IF c.write = Unset THEN UNCHANGED rows ELSE Serve(c.write, answer)
  BY DEF ServeCall
<1>3. /\ choice.step = "none" /\ disabling.step # "creating"
      /\ CallOK(c, Known)
      /\ \/ ReadOK(editor, StoredTexts) \/ SaveOK(editor, StoredTexts)
         \/ CreateOK(editor, StoredTexts)
  BY <1>1, WhileSaving
<1> HIDE DEF c
<1>4. PICK d \in DraftIds : /\ c.write = Unset => d = editor.draft
                            /\ c.write # Unset => d = c.write.draft
                            /\ c.write # Unset /\ c.write.kind = "save" => c.write.content = c.content
  <2>1. c.write # Unset => c.write.draft \in DraftIds
    BY <1>3, WriteFields DEF CallOK, GoodWrite
  <2>2. c.write = Unset => editor.draft \in DraftIds
    BY <1>3, InvFields DEF ReadOK, SaveOK, CreateOK, Drafts, c
  <2>3. c.write # Unset /\ c.write.kind = "save" => c.write.content = c.content
    BY <1>3 DEF ReadOK, SaveOK, CreateOK, c
  <2> QED  BY <2>1, <2>2, <2>3
<1>5. IF c.write = Unset THEN answer \in {Refused} \cup Read(rows[d]) /\ UNCHANGED rows
      ELSE c.write.draft = d /\ Serve(c.write, answer)
  BY <1>2, <1>4
<1>6. /\ RowsOK' /\ Gain(StoredTexts, StoredTexts')
      /\ answer \in AnswerRow /\ Tells(answer, StoredTexts'[d])
      /\ c.write # Unset /\ c.write.kind = "save" /\ answer.result = "draft"
           => answer.content = c.write.content
  BY <1>3, <1>5, CallServed
<1>7. PICK S : S = StoredTexts'
  OBVIOUS
<1>8. Known' = Known /\ EditorOK(editor, Known, S)
  BY <1>1, <1>6, <1>7, HistoryKept, InvFields, EditorGrows
<1>9. PICK a : a = Answered(c, answer)
  OBVIOUS
<1>10. /\ a # NoCall /\ CallOK(a, Known) /\ SameCall(c, a) /\ a.at = "answered"
       /\ a.answer = answer /\ a \in CallRow
  BY <1>3, <1>6, <1>9, AnsweredCallOK DEF CallOK
<1>11. PICK f : f = [editor EXCEPT !.call = a]
  OBVIOUS
<1>12. /\ EditorOK(f, Known, S)
       /\ SameText(editor, f) /\ SameDraft(editor, f) /\ SameDoubts(editor, f)
       /\ SameFlags(editor, f) /\ f.status = editor.status /\ f.call = a
  <2>1. /\ c.write = Unset => Tells(answer, S[editor.draft])
        /\ c.write # Unset => Tells(answer, S[c.write.draft])
        /\ c.write # Unset /\ c.write.kind = "save" /\ answer.result = "draft"
             => answer.content = c.content
    BY <1>4, <1>6, <1>7
  <2> QED  BY <1>1, <1>8, <1>10, <1>11, <2>1, CallChanged DEF c
<1>13. editor' = f
  BY <1>2, <1>9, <1>11
<1>14. EditorOK(editor, Known, StoredTexts)'
  BY <1>7, <1>8, <1>12, <1>13, EditorIs
<1>15. InAccount(editor, signedIn)'
  BY <1>1, <1>13, InvFields DEF InAccount, c
<1>16. ChoiceOK(Known, StoredTexts)'
  BY <1>1, <1>3, <1>6, <1>8, InvFields, ChoiceKept
<1>17. DisablingOK(Known, StoredTexts)'
  BY <1>1, <1>3, <1>6, <1>8, <1>12, <1>13, InvFields, DisablingKept DEF DisablingOK, SameFlags
<1>18. LateOK(Known)'
  BY <1>1, <1>8, InvFields, LateKept
<1>19. asked <= f.edits /\ AskedOK(f, asked)
  BY <1>1, <1>10, <1>12, InvFields
     DEF AskedOK, SameText, SameDraft, SameFlags, SameCall, c
<1> QED  BY <1>1, <1>6, <1>13, <1>14, <1>15, <1>16, <1>17, <1>18, <1>19, InvFields DEF AutosaveInv

LEMMA LoseAnswerKeeps ==
    ASSUME AutosaveInv, LoseAnswer
    PROVE  AutosaveInv'
<1> DEFINE c == editor.call
<1>1. /\ c # NoCall
      /\ editor' = [editor EXCEPT !.call = Lost(c, "dropped")]
      /\ late' = late \cup Underway(c)
      /\ UNCHANGED <<choice, disabling, signedIn, noticed, rows, seen, replayed, asked>>
  BY DEF LoseAnswer
<1>2. Known' = Known /\ RowsOK' /\ StoredTexts' = StoredTexts
  BY <1>1, HistoryKept, RowsKept, InvFields
<1>3. choice.step = "none" /\ disabling.step # "creating" /\ CallOK(c, Known)
  BY <1>1, WhileSaving
<1>4. PICK a : a = Lost(c, "dropped")
  OBVIOUS
<1>5. /\ a # NoCall /\ CallOK(a, Known) /\ SameCall(c, a) /\ a.at # "sent" /\ a \in CallRow
      /\ a.at = "answered" => a = c /\ c.answer.result = "refused"
  BY <1>3, <1>4, LostCallOK DEF CallOK
<1>6. a.at = "answered" => /\ c.write = Unset => Tells(a.answer, StoredTexts[editor.draft])
                           /\ c.write # Unset => Tells(a.answer, StoredTexts[c.write.draft])
                           /\ c.write # Unset /\ c.write.kind = "save"
                              /\ a.answer.result = "draft" => a.answer.content = c.content
  BY <1>5 DEF Tells
<1> HIDE DEF c
<1>7. PICK f : f = [editor EXCEPT !.call = a]
  OBVIOUS
<1>8. /\ EditorOK(f, Known, StoredTexts)
      /\ SameText(editor, f) /\ SameDraft(editor, f) /\ SameDoubts(editor, f)
      /\ SameFlags(editor, f) /\ f.status = editor.status /\ f.call = a
  BY <1>1, <1>5, <1>6, <1>7, InvFields, CallChanged DEF c
<1>9. editor' = f
  BY <1>1, <1>4, <1>7
<1>10. EditorOK(editor, Known, StoredTexts)'
  BY <1>2, <1>8, <1>9, EditorIs
<1>11. a.at \in {"sent", "answered", "dropped", "switched"}
  BY <1>5, CallFields
<1>12. InAccount(editor, signedIn)'
  BY <1>1, <1>5, <1>8, <1>9, <1>11, InvFields DEF InAccount
<1>13. ChoiceOK(Known, StoredTexts)'
  BY <1>1, <1>2, <1>3, InvFields, ChoiceKept, GainSame
<1>14. DisablingOK(Known, StoredTexts)'
  BY <1>1, <1>2, <1>3, <1>8, <1>9, InvFields, DisablingKept, GainSame DEF DisablingOK, SameFlags
<1>15. LateOK(Known)'
  BY <1>1, <1>2, <1>3, InvFields, LateKept, UnderwayOK
<1>16. asked <= f.edits /\ AskedOK(f, asked)
  BY <1>1, <1>5, <1>8, InvFields
     DEF AskedOK, SameText, SameDraft, SameFlags, SameCall, c
<1> QED  BY <1>1, <1>2, <1>9, <1>10, <1>12, <1>13, <1>14, <1>15, <1>16, InvFields DEF AutosaveInv

(* What the editor learns from an answer is known when it goes on.          *)
LEMMA ContinueLearns ==
    ASSUME AutosaveInv, Continue
    PROVE  /\ Known \subseteq Known'
           /\ Learns(editor, Known')
<1> DEFINE c == editor.call
           draft == IF c.write = Unset THEN editor.draft ELSE c.write.draft
<1>1. CASE c.at # "answered" \/ c.answer.result = "refused"
  BY <1>1 DEF Continue, Known, Learns
<1>2. CASE /\ c.at = "answered" /\ c.answer.result # "refused" /\ Shows(c, c.answer)
  <2>1. seen' = seen \cup {<<draft, c.answer.revision>>} /\ UNCHANGED replayed
    BY <1>2 DEF Continue
  <2> QED  BY <2>1 DEF Known, Learns
<1>3. CASE /\ c.at = "answered" /\ c.answer.result # "refused" /\ ~ Shows(c, c.answer)
  <2>1. /\ replayed' = IF c.write = Unset THEN replayed
                       ELSE replayed \cup {<<draft, c.answer.revision>>}
        /\ UNCHANGED seen
    BY <1>3 DEF Continue
  <2>2. c.answer.content # c.content
    BY <1>3 DEF Shows
  <2> QED  BY <2>1, <2>2 DEF Known, Learns
<1> QED  BY <1>1, <1>2, <1>3

LEMMA ContinueKeeps ==
    ASSUME AutosaveInv, Continue
    PROVE  AutosaveInv'
<1>1. /\ editor.call # NoCall /\ editor.call.at # "sent"
      /\ editor' = Continued(editor)
      /\ asked' = StillAsked(IF Repeated(editor) THEN 0 ELSE asked, editor')
      /\ UNCHANGED <<choice, disabling, signedIn, noticed, rows, late>>
  BY DEF Continue
<1>2. Known \subseteq Known' /\ Learns(editor, Known')
  BY ContinueLearns
<1>3. RowsOK' /\ StoredTexts' = StoredTexts
  BY <1>1, RowsKept, InvFields
<1>4. choice.step = "none" /\ disabling.step # "creating"
  BY <1>1, WhileSaving
<1>5. PICK K : K = Known'
  OBVIOUS
<1>6. EditorOK(editor, K, StoredTexts) /\ Learns(editor, K)
  BY <1>2, <1>5, InvFields, EditorGrows, GainSame
<1>7. PICK f : f = Continued(editor)
  OBVIOUS
<1>8. /\ EditorOK(f, K, StoredTexts) /\ InAccount(f, signedIn)
      /\ SameText(editor, f) /\ (editor.suspended => f.suspended)
      /\ \A n \in Nat : n <= editor.edits /\ AskedOK(editor, n) /\ (Repeated(editor) => n = 0)
           => Told(f, n)
  BY <1>1, <1>6, <1>7, InvFields, ContinuedOK
<1>9. EditorOK(editor, Known, StoredTexts)' /\ InAccount(editor, signedIn)'
  BY <1>1, <1>3, <1>5, <1>7, <1>8, EditorIs
<1>10. ChoiceOK(Known, StoredTexts)'
  BY <1>1, <1>2, <1>3, <1>4, InvFields, ChoiceKept, GainSame
<1>11. DisablingOK(Known, StoredTexts)'
  BY <1>1, <1>2, <1>3, <1>4, <1>7, <1>8, InvFields, DisablingKept, GainSame DEF DisablingOK
<1>12. LateOK(Known)'
  BY <1>1, <1>2, InvFields, LateKept
<1>13. PICK n \in Nat : n = IF Repeated(editor) THEN 0 ELSE asked
  BY InvFields
<1>14. /\ n <= editor.edits /\ AskedOK(editor, n) /\ (Repeated(editor) => n = 0)
       /\ f \in EditorRow /\ n <= f.edits
  BY <1>8, <1>13, InvFields DEF AskedOK, EditorOK, RestOK, SameText
<1>15. asked' = StillAsked(n, f)
  BY <1>1, <1>7, <1>13
<1>16. asked' \in Nat /\ asked' <= f.edits /\ AskedOK(f, StillAsked(n, f))
  BY <1>8, <1>14, <1>15, StillAskedOK
<1> QED  BY <1>1, <1>3, <1>7, <1>9, <1>10, <1>11, <1>12, <1>15, <1>16, InvFields DEF AutosaveInv

(* Steps of others in the account. *)
LEMMA RowsStepKeeps ==
    ASSUME AutosaveInv, RowsOK', Gain(StoredTexts, StoredTexts'), late' \subseteq late,
           UNCHANGED <<editor, choice, disabling, signedIn, noticed, seen, replayed, asked>>
    PROVE  AutosaveInv'
<1>1. Known' = Known
  BY HistoryKept
<1>2. /\ EditorOK(editor, Known, StoredTexts)' /\ InAccount(editor, signedIn)'
      /\ (asked \in Nat /\ asked <= editor.edits /\ AskedOK(editor, asked))'
  BY <1>1, EditorKept
<1>3. ChoiceOK(Known, StoredTexts)'
  BY <1>1, InvFields, ChoiceKept DEF ChoiceOK
<1>4. DisablingOK(Known, StoredTexts)'
  BY <1>1, InvFields, DisablingKept DEF DisablingOK, LookingUp
<1>5. LateOK(Known)'
  BY <1>1, InvFields, LateKept
<1> QED  BY <1>2, <1>3, <1>4, <1>5, InvFields DEF AutosaveInv

LEMMA ServeLateKeeps ==
    ASSUME AutosaveInv, ServeLate
    PROVE  AutosaveInv'
<1>1. PICK w \in late : /\ rows' = [rows EXCEPT ![w.draft] = RowAfter(w)]
                        /\ late' = late \ {w}
  BY DEF ServeLate
<1>2. UNCHANGED <<editor, choice, disabling, signedIn, noticed, seen, replayed, asked>>
  BY DEF ServeLate
<1>3. w \in Writes /\ Content(w) /\ w.draft \in DraftIds
  BY InvFields, WriteFields DEF LateOK, GoodWrite, Content
<1>4. PICK r : r = RowAfter(w)
  OBVIOUS
<1>5. r \in RowRow /\ RowOK(r) /\ rows[w.draft].stored \subseteq r.stored
  BY <1>3, <1>4, InvFields, ServedRow
<1>6. RowsOK' /\ Gain(StoredTexts, StoredTexts')
  BY <1>1, <1>3, <1>4, <1>5, InvFields, RowReplaced
<1> QED  BY <1>1, <1>2, <1>6, RowsStepKeeps

LEMMA OthersKeep ==
    ASSUME AutosaveInv, OthersStep
    PROVE  AutosaveInv'
<1>0. UNCHANGED <<editor, choice, disabling, signedIn, noticed, late, seen, replayed, asked>>
  BY DEF OthersStep, OtherDevice, OtherChoice
<1>1. CASE OtherDevice
  <2>1. PICK d \in DraftIds, text \in Texts :
          rows' = [rows EXCEPT ![d] = AfterSave(rows[d], text, rows[d].revision)]
    BY <1>1 DEF OtherDevice
  <2>2. rows[d] \in RowRow /\ RowOK(rows[d]) /\ rows[d].revision \in Nat
    BY InvFields, RowFields DEF RowsOK
  <2>3. PICK r : r = AfterSave(rows[d], text, rows[d].revision)
    OBVIOUS
  <2>4. r \in RowRow /\ RowOK(r) /\ rows[d].stored \subseteq r.stored
    BY <2>2, <2>3, SavedRow
  <2>5. RowsOK' /\ Gain(StoredTexts, StoredTexts')
    BY <2>1, <2>3, <2>4, InvFields, RowReplaced
  <2> QED  BY <1>0, <2>5, RowsStepKeeps
<1>2. CASE OtherChoice
  <2>1. PICK d \in DraftIds :
          \E copy \in rows[d].copies, side \in {"device", "account"} :
            /\ rows[d].revision < MaxRevision
            /\ rows' = [rows EXCEPT ![d] = AfterChoice(@, copy, side)]
    BY <1>2 DEF OtherChoice
  <2>2. PICK copy \in rows[d].copies, side \in {"device", "account"} :
          rows' = [rows EXCEPT ![d] = AfterChoice(rows[d], copy, side)]
    BY <2>1
  <2>3. rows[d] \in RowRow /\ RowOK(rows[d])
    BY InvFields DEF RowsOK
  <2>4. PICK r : r = AfterChoice(rows[d], copy, side)
    OBVIOUS
  <2>5. copy \in Texts
    BY <2>3, RowFields
  <2>6. r \in RowRow /\ RowOK(r) /\ rows[d].stored \subseteq r.stored
    BY <2>3, <2>4, <2>5, ChosenRow
  <2>7. RowsOK' /\ Gain(StoredTexts, StoredTexts')
    BY <2>2, <2>4, <2>6, InvFields, RowReplaced
  <2> QED  BY <1>0, <2>7, RowsStepKeeps
<1> QED  BY <1>1, <1>2 DEF OthersStep

-----------------------------------------------------------------------------
(* The chooser. *)

LEMMA ChoiceFields ==
    ASSUME NEW c \in ChoiceRow
    PROVE  /\ c.step \in {"none", "choosing", "checking", "unknown"}
           /\ c.side \in {"device", "account"} /\ c.copy \in Texts /\ c.call \in Calls
  BY DEF ChoiceRow, Calls

LEMMA ChoiceRecord ==
    ChoiceRow = [step : {"none", "choosing", "checking", "unknown"},
                 side : {"device", "account"}, copy : Texts, call : Calls]
  BY DEF ChoiceRow, Calls

(* A step of the chooser alone.                                             *)
LEMMA ChoiceStepKeeps ==
    ASSUME AutosaveInv, RowsOK', Gain(StoredTexts, StoredTexts'),
           UNCHANGED <<editor, disabling, signedIn, noticed, seen, replayed, asked>>,
           ChoiceOK(Known, StoredTexts)',
           \A w \in late' : w \in late \/ GoodWrite(w, Known)
    PROVE  AutosaveInv'
<1>1. Known' = Known
  BY HistoryKept
<1>2. /\ EditorOK(editor, Known, StoredTexts)' /\ InAccount(editor, signedIn)'
      /\ (asked \in Nat /\ asked <= editor.edits /\ AskedOK(editor, asked))'
  BY <1>1, EditorKept
<1>3. DisablingOK(Known, StoredTexts)'
  BY <1>1, InvFields, DisablingKept DEF DisablingOK, LookingUp
<1>4. LateOK(Known)'
  BY <1>1, InvFields, LateKept
<1> QED  BY <1>2, <1>3, <1>4, InvFields DEF AutosaveInv

LEMMA ConflictOpen ==
    ASSUME AutosaveInv, editor.status = "conflict"
    PROVE  /\ editor.call = NoCall /\ editor.draft \in DraftIds /\ editor.lost = Unset
           /\ editor.conflict \in StoredTexts[editor.draft] \cup {Unset}
           /\ StoredTexts[editor.draft] \subseteq Texts
<1>1. /\ editor.call = NoCall /\ editor.draft # Unset /\ editor.lost = Unset
      /\ editor.conflict \in StoredTexts[editor.draft] \cup {Unset}
  BY InvFields DEF EditorOK, RestOK, SavingOK, ConflictOK
<1>2. editor.draft \in DraftIds
  BY <1>1, InvFields DEF Drafts
<1>3. rows[editor.draft] \in RowRow
  BY <1>2, InvFields DEF RowsOK
<1> QED  BY <1>1, <1>2, <1>3, RowFields DEF StoredTexts

LEMMA ChoosingNow ==
    ASSUME AutosaveInv, choice.step # "none"
    PROVE  /\ editor.status = "conflict" /\ editor.call = NoCall /\ editor.draft \in DraftIds
           /\ choice.copy \in StoredTexts[editor.draft] /\ choice.copy \in Texts
           /\ choice \in ChoiceRow
  BY ConflictOpen, InvFields, ChoiceFields DEF ChoiceOK

LEMMA ChooseKeeps ==
    ASSUME AutosaveInv, NEW side \in {"device", "account"}, Choose(side)
    PROVE  AutosaveInv'
<1>1. /\ editor.status = "conflict" /\ editor.conflict # Unset
      /\ UNCHANGED <<editor, disabling, signedIn, noticed, rows, late, seen, replayed, asked>>
  BY DEF Choose
<1>2. PICK copy \in Texts :
        /\ copy = IF choice.step = "none" THEN editor.conflict ELSE choice.copy
        /\ copy \in StoredTexts[editor.draft]
  BY <1>1, ConflictOpen, ChoosingNow
<1>3. PICK w \in Writes : /\ w = ChoiceWrite(side, copy) /\ w.kind = "resolve"
                          /\ w.draft = editor.draft /\ w.content = copy /\ w # Unset
  BY <1>1, ConflictOpen, WriteMade DEF ChoiceWrite
<1>4. PICK c \in CallRow : c = Sent(w, Empty, 0, 0, FALSE)
  BY AutosaveAssumption, SentCall
<1>5. c.write = w /\ c.at = "sent" /\ c # NoCall
  BY <1>4, UnsetAssumption DEF Sent, NoCall
<1>6. PICK ch \in ChoiceRow :
        ch = [step |-> "choosing", side |-> side, copy |-> copy, call |-> c]
  BY <1>2 DEF ChoiceRow
<1>7. choice' = ch
  BY <1>2, <1>3, <1>4, <1>6 DEF Choose
<1>8. ch.step = "choosing" /\ ch.copy = copy /\ ch.call = c
  BY <1>6
<1>9. Known' = Known /\ StoredTexts' = StoredTexts /\ RowsOK'
  BY <1>1, HistoryKept, RowsKept, InvFields
<1>10. CallOK(c, Known)
  BY <1>2, <1>3, <1>5 DEF CallOK, GoodWrite
<1>11. ChoiceOK(Known, StoredTexts)'
  BY <1>1, <1>2, <1>3, <1>5, <1>7, <1>8, <1>9, <1>10, ConflictOpen DEF ChoiceOK, ChoosingOK
<1> QED  BY <1>1, <1>9, <1>11, ChoiceStepKeeps, GainSame

(* The chooser's call under way. *)
LEMMA WhileChoosing ==
    ASSUME AutosaveInv, choice.call # NoCall
    PROVE  /\ CallOK(choice.call, Known) /\ choice.call \in CallRow
           /\ choice.step # "none"
           /\ choice.call.at = "answered" => Tells(choice.call.answer, StoredTexts[editor.draft])
           /\ \/ choice.step = "checking" /\ choice.call.write = Unset
              \/ /\ choice.step = "choosing" /\ choice.call.write # Unset
                 /\ choice.call.write.kind = "resolve"
                 /\ choice.call.write.draft = editor.draft
  BY InvFields DEF ChoiceOK, ChoosingOK, CallOK

(* The chooser with another state of its call.                              *)
LEMMA ChoiceCallChanged ==
    ASSUME AutosaveInv, choice.call # NoCall, NEW a, a # NoCall, CallOK(a, Known),
           SameCall(choice.call, a), UNCHANGED <<editor, seen, replayed>>,
           Gain(StoredTexts, StoredTexts'),
           choice' = [choice EXCEPT !.call = a],
           a.at = "answered" => Tells(a.answer, StoredTexts'[editor.draft])
    PROVE  ChoiceOK(Known, StoredTexts)'
<1>1. /\ choice \in ChoiceRow /\ choice.step # "none" /\ a \in Calls
      /\ editor.status = "conflict" /\ editor.call = NoCall /\ editor.draft \in DraftIds
      /\ choice.copy \in StoredTexts[editor.draft]
  BY WhileChoosing, ChoosingNow DEF CallOK, Calls
<1>2. choice' \in ChoiceRow /\ choice'.step = choice.step /\ choice'.copy = choice.copy
      /\ choice'.call = a
  BY <1>1, ChoiceRecord
<1>3. Known' = Known
  BY HistoryKept
<1>4. choice'.copy \in StoredTexts'[editor.draft]
  BY <1>1, <1>2 DEF Gain
<1>5. ChoosingOK(Known, StoredTexts)'
  BY <1>2, <1>3, WhileChoosing DEF ChoosingOK, SameCall
<1> QED  BY <1>1, <1>2, <1>4, <1>5 DEF ChoiceOK

LEMMA ServeChoiceKeeps ==
    ASSUME AutosaveInv, ServeChoice
    PROVE  AutosaveInv'
<1> DEFINE c == choice.call
<1>1. /\ c # NoCall
      /\ UNCHANGED <<editor, disabling, signedIn, noticed, late, seen, replayed, asked>>
  BY DEF ServeChoice
<1>2. PICK answer \in {Refused} \cup (IF choice.step = "checking" THEN Read(rows[editor.draft])
                                      ELSE AnswersTo(c.write)) :
        /\ choice' = [choice EXCEPT !.call = Answered(c, answer)]
        /\ IF choice.step = "checking" THEN UNCHANGED rows ELSE Serve(c.write, answer)
  BY DEF ServeChoice
<1>3. /\ CallOK(c, Known) /\ c \in CallRow /\ choice.step # "none"
      /\ \/ choice.step = "checking" /\ c.write = Unset
         \/ /\ choice.step = "choosing" /\ c.write # Unset /\ c.write.kind = "resolve"
            /\ c.write.draft = editor.draft
  BY <1>1, WhileChoosing
<1>4. PICK d \in DraftIds : d = editor.draft
  BY <1>3, ChoosingNow
<1> HIDE DEF c
<1>5. IF c.write = Unset THEN answer \in {Refused} \cup Read(rows[d]) /\ UNCHANGED rows
      ELSE c.write.draft = d /\ Serve(c.write, answer)
  BY <1>2, <1>3, <1>4
<1>6. /\ RowsOK' /\ Gain(StoredTexts, StoredTexts')
      /\ answer \in AnswerRow /\ Tells(answer, StoredTexts'[d])
  BY <1>3, <1>5, CallServed
<1>7. PICK a : a = Answered(c, answer)
  OBVIOUS
<1>8. /\ a # NoCall /\ CallOK(a, Known) /\ SameCall(c, a) /\ a.at = "answered"
      /\ a.answer = answer
  BY <1>3, <1>6, <1>7, AnsweredCallOK
<1>9. ChoiceOK(Known, StoredTexts)'
  BY <1>1, <1>2, <1>4, <1>6, <1>7, <1>8, ChoiceCallChanged DEF c
<1> QED  BY <1>1, <1>6, <1>9, ChoiceStepKeeps

LEMMA LoseChoiceKeeps ==
    ASSUME AutosaveInv, LoseChoice
    PROVE  AutosaveInv'
<1> DEFINE c == choice.call
<1>1. /\ c # NoCall
      /\ choice' = [choice EXCEPT !.call = Lost(c, "dropped")]
      /\ late' = late \cup Underway(c)
      /\ UNCHANGED <<editor, disabling, signedIn, noticed, rows, seen, replayed, asked>>
  BY DEF LoseChoice
<1>2. CallOK(c, Known)
  BY <1>1, WhileChoosing
<1>3. PICK a : a = Lost(c, "dropped")
  OBVIOUS
<1>4. /\ a # NoCall /\ CallOK(a, Known) /\ SameCall(c, a)
      /\ a.at = "answered" => a = c /\ c.answer.result = "refused"
  BY <1>2, <1>3, LostCallOK
<1>5. RowsOK' /\ StoredTexts' = StoredTexts /\ Gain(StoredTexts, StoredTexts')
  BY <1>1, RowsSame, InvFields
<1> HIDE DEF c
<1>6. ChoiceOK(Known, StoredTexts)'
  BY <1>1, <1>3, <1>4, <1>5, ChoiceCallChanged DEF c, Tells
<1>7. \A w \in late' : w \in late \/ GoodWrite(w, Known)
  BY <1>1, <1>2, UnderwayOK
<1> QED  BY <1>1, <1>5, <1>6, <1>7, ChoiceStepKeeps

LEMMA CheckingOK ==
    ASSUME AutosaveInv, choice.step # "none", NEW inDoubt \in BOOLEAN, Checking(inDoubt),
           UNCHANGED <<editor, disabling, signedIn, noticed, rows, late, seen, replayed, asked>>
    PROVE  AutosaveInv'
<1>1. PICK base \in Nat : base = IF inDoubt THEN 1 ELSE 0
  OBVIOUS
<1>2. PICK c \in CallRow : c = Sent(Unset, Empty, 0, base, FALSE)
  BY AutosaveAssumption, SentCall
<1>3. c.write = Unset /\ c.at = "sent" /\ c # NoCall
  BY <1>2, UnsetAssumption DEF Sent, NoCall
<1>4. choice' = [choice EXCEPT !.step = "checking", !.call = c]
  BY <1>1, <1>2 DEF Checking
<1>5. /\ choice' \in ChoiceRow /\ choice'.step = "checking" /\ choice'.copy = choice.copy
      /\ choice'.call = c
  BY <1>2, <1>4, ChoosingNow, ChoiceRecord DEF Calls
<1>6. Known' = Known /\ StoredTexts' = StoredTexts /\ RowsOK'
  BY HistoryKept, RowsKept, InvFields
<1>7. CallOK(c, Known)
  BY <1>3 DEF CallOK
<1>8. ChoiceOK(Known, StoredTexts)'
  BY <1>3, <1>5, <1>6, <1>7, ChoosingNow DEF ChoiceOK, ChoosingOK
<1> QED  BY <1>6, <1>8, ChoiceStepKeeps, GainSame

LEMMA CheckChoiceKeeps ==
    ASSUME AutosaveInv, CheckChoice
    PROVE  AutosaveInv'
<1>1. UNCHANGED <<editor, disabling, signedIn, noticed, rows, late, seen, replayed, asked>>
  BY DEF CheckChoice
<1>2. choice.step # "none"
  BY DEF CheckChoice
<1>3. PICK inDoubt \in BOOLEAN : Checking(inDoubt)
  BY DEF CheckChoice
<1> QED  BY <1>1, <1>2, <1>3, CheckingOK

LEMMA ChoiceOpenKeeps ==
    ASSUME AutosaveInv, ChoiceOpen
    PROVE  AutosaveInv'
<1>1. /\ choice.step = "checking"
      /\ UNCHANGED <<editor, disabling, signedIn, noticed, rows, late, seen, replayed, asked>>
      /\ \/ choice' = [choice EXCEPT !.step = "unknown", !.call = NoCall]
         \/ choice' = NoChoice
  BY DEF ChoiceOpen
<1>2. Known' = Known /\ StoredTexts' = StoredTexts /\ RowsOK'
  BY <1>1, HistoryKept, RowsKept, InvFields
<1>3. NoCall \in Calls
  BY DEF NoCall, Calls
<1>4. CASE choice' = NoChoice
  <2>1. choice' \in ChoiceRow /\ choice'.step = "none" /\ choice'.call = NoCall
    BY <1>4, AutosaveAssumption DEF NoChoice, ChoiceRow, NoCall
  <2>2. ChoiceOK(Known, StoredTexts)'
    BY <2>1 DEF ChoiceOK, ChoosingOK
  <2> QED  BY <1>1, <1>2, <2>2, ChoiceStepKeeps, GainSame
<1>5. CASE choice' = [choice EXCEPT !.step = "unknown", !.call = NoCall]
  <2>1. /\ choice' \in ChoiceRow /\ choice'.step = "unknown" /\ choice'.copy = choice.copy
        /\ choice'.call = NoCall
    BY <1>1, <1>3, <1>5, ChoosingNow, ChoiceRecord
  <2>2. ChoiceOK(Known, StoredTexts)'
    BY <1>1, <1>2, <2>1, ChoosingNow DEF ChoiceOK, ChoosingOK
  <2> QED  BY <1>1, <1>2, <2>2, ChoiceStepKeeps, GainSame
<1> QED  BY <1>1, <1>4, <1>5

LEMMA AdoptKeeps ==
    ASSUME AutosaveInv, Adopt
    PROVE  AutosaveInv' /\ (editor'.latest # editor.latest => editor.latest = choice.copy)
<1> DEFINE answer == choice.call.answer
           content == PreserveLaterEdits(answer.content, choice.copy, editor.latest)
<1>1. /\ choice.step \in {"choosing", "checking"} /\ choice.call.at = "answered"
      /\ answer.result # "refused" /\ choice' = NoChoice
      /\ UNCHANGED <<disabling, signedIn, noticed, rows, late, replayed, asked>>
      /\ \/ /\ editor' = Adopted(editor, answer, content)
            /\ seen' = seen \cup {<<editor.draft, answer.revision>>}
         \/ UNCHANGED <<editor, seen>>
  BY DEF Adopt
<1>2. RowsOK' /\ StoredTexts' = StoredTexts
  BY <1>1, RowsKept, InvFields
<1>3. choice.call # NoCall
  BY <1>1, InvFields DEF ChoiceOK
<1>4. /\ answer \in AnswerRow /\ Tells(answer, StoredTexts[editor.draft])
      /\ editor.status = "conflict" /\ editor.call = NoCall /\ choice.copy \in Texts
  BY <1>1, <1>3, WhileChoosing, ChoosingNow DEF CallOK
<1>5. choice' \in ChoiceRow /\ choice'.step = "none" /\ choice'.call = NoCall
  BY <1>1, AutosaveAssumption DEF NoChoice, ChoiceRow, NoCall
<1>6. ChoiceOK(Known, StoredTexts)'
  BY <1>5 DEF ChoiceOK, ChoosingOK
<1> HIDE DEF answer, content
<1>7. CASE UNCHANGED <<editor, seen>>
  BY <1>1, <1>2, <1>6, <1>7, ChoiceStepKeeps, GainSame
<1>8. CASE /\ editor' = Adopted(editor, answer, content)
           /\ seen' = seen \cup {<<editor.draft, answer.revision>>}
  <2>1. PICK K : K = Known'
    OBVIOUS
  <2>2. Known \subseteq K /\ <<editor.draft, answer.revision>> \in K
    BY <1>1, <1>8, <2>1 DEF Known
  <2>3. EditorOK(editor, K, StoredTexts)
    BY <2>2, InvFields, EditorGrows, GainSame
  <2>4. PICK f : f = Adopted(editor, answer, content)
    OBVIOUS
  <2>5. /\ EditorOK(f, K, StoredTexts)
        /\ f.latest # editor.latest => editor.latest = choice.copy
        /\ f.edits = editor.edits /\ f.draft = editor.draft /\ editor.saved <= f.saved
        /\ SameDoubts(editor, f) /\ SameFlags(editor, f) /\ f.call = NoCall
    BY <1>1, <1>4, <2>2, <2>3, <2>4, AdoptedOK DEF content
  <2>6. EditorOK(editor, Known, StoredTexts)'
    BY <1>2, <1>8, <2>1, <2>4, <2>5, EditorIs
  <2>7. InAccount(editor, signedIn)'
    BY <1>8, <2>4, <2>5 DEF InAccount
  <2>8. DisablingOK(Known, StoredTexts)'
    BY <1>1, <1>2, <1>4, <1>8, <2>1, <2>2, <2>4, <2>5, InvFields, DisablingKept, GainSame
       DEF DisablingOK, LookingUp, SameDoubts, SameFlags
  <2>9. LateOK(Known)'
    BY <1>1, <2>1, <2>2, InvFields, LateKept
  <2>10. f.saved \in Nat
    BY <2>5, EditorFields DEF EditorOK, RestOK
  <2>11. asked <= f.edits /\ AskedOK(f, asked)
    BY <1>4, <2>5, <2>10, InvFields DEF AskedOK
  <2> QED  BY <1>1, <1>2, <1>6, <1>8, <2>4, <2>5, <2>6, <2>7, <2>8, <2>9, <2>11, InvFields
           DEF AutosaveInv
<1> QED  BY <1>1, <1>7, <1>8

-----------------------------------------------------------------------------
(* Saving is switched off. *)

LEMMA DisablingRecord ==
    DisablingRow = [step : {"off", "idle", "creating", "deleting", "done"}, call : Calls]
  BY DEF DisablingRow, Calls

LEMMA NoDisablingOK ==
    ASSUME NEW step \in {"off", "done"}, disabling' = [NoDisabling EXCEPT !.step = step]
    PROVE  DisablingOK(Known, StoredTexts)'
<1>1. disabling' \in DisablingRow /\ disabling'.step = step /\ disabling'.call = NoCall
  BY DEF NoDisabling, DisablingRow, NoCall
<1> QED  BY <1>1 DEF DisablingOK

LEMMA DisablingEnded ==
    ASSUME disabling' = NoDisabling
    PROVE  DisablingOK(Known, StoredTexts)'
<1>1. disabling' \in DisablingRow /\ disabling'.step = "off" /\ disabling'.call = NoCall
  BY DEF NoDisabling, DisablingRow, NoCall
<1> QED  BY <1>1 DEF DisablingOK

LEMMA DisableSavingKeeps ==
    ASSUME AutosaveInv, DisableSaving
    PROVE  AutosaveInv'
<1>1. /\ noticed = "own"
      /\ disabling' = [NoDisabling EXCEPT !.step = "idle"]
      /\ editor' = [editor EXCEPT !.suspended = TRUE]
      /\ asked' = 0
      /\ UNCHANGED <<choice, signedIn, noticed, rows, late, seen, replayed>>
  BY DEF DisableSaving, InUse
<1>2. Known' = Known /\ RowsOK' /\ StoredTexts' = StoredTexts
  BY <1>1, HistoryKept, RowsKept, InvFields
<1>3. PICK suspended \in BOOLEAN : suspended = TRUE
  OBVIOUS
<1>4. PICK f : f = [editor EXCEPT !.suspended = suspended]
  OBVIOUS
<1>5. /\ EditorOK(f, Known, StoredTexts)
      /\ SameText(editor, f) /\ SameDraft(editor, f) /\ SameDoubts(editor, f)
      /\ f.status = editor.status /\ f.queued = editor.queued /\ f.call = editor.call
      /\ f.suspended = suspended
  BY <1>4, InvFields, SuspendedEditor
<1>6. editor' = f /\ f.suspended
  BY <1>1, <1>3, <1>4, <1>5
<1>7. EditorOK(editor, Known, StoredTexts)' /\ InAccount(editor, signedIn)'
  BY <1>1, <1>2, <1>5, <1>6, EditorIs, InvFields DEF InAccount
<1>8. ChoiceOK(Known, StoredTexts)'
  BY <1>1, <1>2, <1>5, <1>6, InvFields, ChoiceKept, GainSame DEF ChoiceOK, SameDraft
<1>9. disabling' \in DisablingRow /\ disabling'.step = "idle" /\ disabling'.call = NoCall
  BY <1>1 DEF NoDisabling, DisablingRow, NoCall
<1>10. DisablingOK(Known, StoredTexts)'
  BY <1>1, <1>6, <1>9 DEF DisablingOK
<1>11. LateOK(Known)'
  BY <1>1, <1>2, InvFields, LateKept
<1>12. f.saved \in Nat /\ f.edits \in Nat
  BY <1>5, EditorFields DEF EditorOK, RestOK
<1>13. asked' <= f.edits /\ AskedOK(f, 0)
  BY <1>1, <1>12 DEF AskedOK
<1> QED  BY <1>1, <1>2, <1>6, <1>7, <1>8, <1>10, <1>11, <1>13, InvFields DEF AutosaveInv

(* A step of disableSaving alone.                                           *)
LEMMA DisablingStepKeeps ==
    ASSUME AutosaveInv, RowsOK', Gain(StoredTexts, StoredTexts'),
           UNCHANGED <<editor, choice, signedIn, noticed, seen, replayed, asked>>,
           DisablingOK(Known, StoredTexts)',
           \A w \in late' : w \in late \/ GoodWrite(w, Known)
    PROVE  AutosaveInv'
<1>1. Known' = Known
  BY HistoryKept
<1>2. /\ EditorOK(editor, Known, StoredTexts)' /\ InAccount(editor, signedIn)'
      /\ (asked \in Nat /\ asked <= editor.edits /\ AskedOK(editor, asked))'
  BY <1>1, EditorKept
<1>3. ChoiceOK(Known, StoredTexts)'
  BY <1>1, InvFields, ChoiceKept DEF ChoiceOK
<1>4. LateOK(Known)'
  BY <1>1, InvFields, LateKept
<1> QED  BY <1>2, <1>3, <1>4, InvFields DEF AutosaveInv

(* disableSaving gives up: the editor may save again.                       *)
LEMMA AbortedKeeps ==
    ASSUME AutosaveInv, disabling' = NoDisabling, editor' = Aborted(editor),
           UNCHANGED <<choice, signedIn, noticed, rows, late, seen, replayed, asked>>
    PROVE  AutosaveInv'
<1>1. Known' = Known /\ RowsOK' /\ StoredTexts' = StoredTexts
  BY HistoryKept, RowsKept, InvFields
<1>2. DisablingOK(Known, StoredTexts)'
  BY DisablingEnded
<1>3. CASE editor' = editor
  BY <1>1, <1>2, <1>3, DisablingStepKeeps, GainSame
<1>4. CASE editor' = Resume(editor)
  <2>1. PICK f : f = Resume(editor)
    OBVIOUS
  <2>2. /\ EditorOK(f, Known, StoredTexts)
        /\ SameText(editor, f) /\ SameDraft(editor, f) /\ SameDoubts(editor, f)
        /\ f.queued = editor.queued /\ f.call = editor.call
        /\ f.status = editor.status \/ (f.status = "pending" /\ editor.status # "conflict")
    BY <2>1, InvFields, ResumeOK
  <2>3. EditorOK(editor, Known, StoredTexts)' /\ InAccount(editor, signedIn)'
    BY <1>1, <1>4, <2>1, <2>2, EditorIs, InvFields DEF InAccount
  <2>4. ChoiceOK(Known, StoredTexts)'
    BY <1>1, <1>4, <2>1, <2>2, InvFields, ChoiceKept, GainSame DEF ChoiceOK, SameDraft
  <2>5. LateOK(Known)'
    BY <1>1, InvFields, LateKept
  <2>6. asked <= f.edits /\ AskedOK(f, asked)
    BY <2>2, InvFields DEF AskedOK, SameText, SameDraft
  <2> QED  BY <1>1, <1>2, <1>4, <2>1, <2>3, <2>4, <2>5, <2>6, InvFields DEF AutosaveInv
<1> QED  BY <1>3, <1>4 DEF Aborted

LEMMA DeleteCallOK ==
    ASSUME NEW K, NEW e \in EditorRow, BasisOK(e, K), e.draft # Unset
    PROVE  LET c == DeleteCall(e) IN
           c # NoCall /\ CallOK(c, K) /\ c.write # Unset /\ c.write.kind = "delete"
<1>1. e.draft \in DraftIds /\ e.revision \in Nat
  BY EditorFields DEF Drafts
<1>2. PICK w : w = Write("delete", e.draft, Unset, e.revision)
  OBVIOUS
<1>w. /\ w \in Writes /\ w.kind = "delete" /\ w.draft = e.draft
      /\ w.base = e.revision
  BY <1>1, <1>2 DEF Write, Writes
<1>u. w # Unset
  BY <1>w, UnsetAssumption
<1>3. PICK c \in CallRow : c = Sent(w, Empty, 0, e.revision, FALSE)
  BY <1>1, <1>w, AutosaveAssumption, SentCall
<1>4. c.write = w /\ c.at = "sent" /\ c # NoCall
  BY <1>3, UnsetAssumption DEF Sent, NoCall
<1>5. CallOK(c, K)
  BY <1>w, <1>3, <1>4 DEF CallOK, GoodWrite, BasisOK
<1> QED  BY <1>2, <1>w, <1>u, <1>3, <1>4, <1>5 DEF DeleteCall

LEMMA DeletingOK ==
    ASSUME NEW c, c # NoCall, CallOK(c, Known'), c.write # Unset,
           disabling' = [step |-> "deleting", call |-> c]
    PROVE  DisablingOK(Known, StoredTexts)'
<1>1. disabling' \in DisablingRow /\ disabling'.step = "deleting" /\ disabling'.call = c
  BY DEF DisablingRow, CallOK
<1> QED  BY <1>1 DEF DisablingOK

LEMMA ResolveCreatedKeeps ==
    ASSUME AutosaveInv, ResolveCreated
    PROVE  AutosaveInv'
<1>1. /\ disabling.step = "idle" /\ editor.call = NoCall
      /\ UNCHANGED <<choice, signedIn, noticed, rows, late, seen, replayed, asked>>
  BY DEF ResolveCreated
<1>2. Known' = Known /\ RowsOK' /\ StoredTexts' = StoredTexts /\ Gain(StoredTexts, StoredTexts')
  BY <1>1, HistoryKept, RowsSame, InvFields
<1>3. CASE editor.draft # Unset
  <2>1. disabling' = [step |-> "deleting", call |-> DeleteCall(editor)] /\ UNCHANGED editor
    BY <1>3 DEF ResolveCreated
  <2>2. PICK c : c = DeleteCall(editor)
    OBVIOUS
  <2>3. c # NoCall /\ CallOK(c, Known) /\ c.write # Unset
    BY <1>3, <2>2, InvFields, DeleteCallOK DEF RestOK
  <2>4. DisablingOK(Known, StoredTexts)'
    BY <1>2, <2>1, <2>2, <2>3, DeletingOK
  <2> QED  BY <1>1, <1>2, <2>1, <2>4, DisablingStepKeeps
<1>4. CASE editor.draft = Unset /\ editor.pending = Unset
  <2>1. disabling' = [NoDisabling EXCEPT !.step = "done"] /\ UNCHANGED editor
    BY <1>4 DEF ResolveCreated
  <2>2. DisablingOK(Known, StoredTexts)'
    BY <2>1, NoDisablingOK
  <2> QED  BY <1>1, <1>2, <2>1, <2>2, DisablingStepKeeps
<1>5. CASE editor.draft = Unset /\ editor.pending # Unset /\ signedIn # "own"
  <2>1. disabling' = NoDisabling /\ editor' = Aborted(editor)
    BY <1>5 DEF ResolveCreated
  <2> QED  BY <1>1, <2>1, AbortedKeeps
<1>6. CASE editor.draft = Unset /\ editor.pending # Unset /\ signedIn = "own"
  <2>1. disabling' = [step |-> "creating", call |-> SendCreate(editor).call] /\ UNCHANGED editor
    BY <1>6 DEF ResolveCreated
  <2>2. PICK p \in PendingRow : p = editor.pending
    BY <1>6, InvFields, EditorFields DEF Pendings
  <2>3. PICK w \in Writes : /\ w = Write("create", p.request, p.content, 0)
                            /\ w # Unset /\ w.kind = "create" /\ w.content = p.content
    BY PendingFields, WriteMade
  <2>4. PICK c \in CallRow : c = Sent(w, p.content, p.version, 0, FALSE)
    BY PendingFields, SentCall
  <2>5. /\ c.write = w /\ c.at = "sent" /\ c # NoCall
        /\ c.version = p.version /\ c.content = p.content
    BY <2>4, UnsetAssumption DEF Sent, NoCall
  <2>6. SendCreate(editor).call = c
    <3>1. editor.latest # Unset
      BY <1>6, InvFields DEF RestOK, DoubtsOK
    <3>2. editor \in EditorRow
      BY InvFields
    <3>3. PICK e : e = editor
      OBVIOUS
    <3>4. PICK f : f = SendCreate(e)
      OBVIOUS
    <3>5. /\ f.pending = p
          /\ f.call = Sent(Write("create", f.pending.request, f.pending.content, 0),
                           f.pending.content, f.pending.version, 0, FALSE)
      BY <1>6, <2>2, <3>1, <3>2, <3>3, <3>4, CreatingEditor
    <3> QED  BY <2>3, <2>4, <3>3, <3>4, <3>5
  <2>7. disabling' \in DisablingRow /\ disabling'.step = "creating" /\ disabling'.call = c
    BY <2>1, <2>6 DEF DisablingRow
  <2>8. CallOK(c, Known)
    BY <2>3, <2>5, PendingFields DEF CallOK, GoodWrite
  <2>9. LookingUp(c, StoredTexts)'
    BY <1>1, <1>6, <2>1, <2>2, <2>3, <2>5 DEF LookingUp
  <2>10. (editor.suspended /\ (signedIn = "own" => noticed = "own"))'
    BY <1>1, <2>1, InvFields DEF DisablingOK
  <2>11. DisablingOK(Known, StoredTexts)'
    BY <1>2, <2>3, <2>5, <2>7, <2>8, <2>9, <2>10 DEF DisablingOK
  <2> QED  BY <1>1, <1>2, <2>1, <2>11, DisablingStepKeeps
<1> QED  BY <1>3, <1>4, <1>5, <1>6

LEMMA WhileDisabling ==
    ASSUME AutosaveInv, disabling.call # NoCall
    PROVE  /\ CallOK(disabling.call, Known) /\ disabling.call \in CallRow
           /\ disabling.call.write # Unset /\ disabling.call.write \in Writes
           /\ disabling.call.write.draft \in DraftIds
           /\ disabling.step \in {"creating", "deleting"}
           /\ disabling.step = "creating" => LookingUp(disabling.call, StoredTexts)
<1>1. /\ CallOK(disabling.call, Known)
      /\ disabling.call.write # Unset
      /\ disabling.step \in {"creating", "deleting"}
      /\ disabling.step = "creating" => LookingUp(disabling.call, StoredTexts)
  BY InvFields DEF DisablingOK
<1> QED  BY <1>1, WriteFields DEF CallOK, GoodWrite

LEMMA DisablingCallChanged ==
    ASSUME AutosaveInv, disabling.call # NoCall, NEW a, a # NoCall, CallOK(a, Known),
           SameCall(disabling.call, a), UNCHANGED <<editor, seen, replayed, signedIn, noticed>>,
           disabling' = [disabling EXCEPT !.call = a],
           a.at = "answered" => Tells(a.answer, StoredTexts'[disabling.call.write.draft])
    PROVE  DisablingOK(Known, StoredTexts)'
<1>1. /\ disabling.call.write # Unset /\ disabling.step \in {"creating", "deleting"}
      /\ disabling.step = "creating" => LookingUp(disabling.call, StoredTexts)
      /\ disabling \in DisablingRow /\ a \in Calls
      /\ disabling.step = "creating" =>
           editor.suspended /\ (signedIn = "own" => noticed = "own")
  BY WhileDisabling, InvFields DEF DisablingOK, CallOK, Calls
<1>2. disabling' \in DisablingRow /\ disabling'.step = disabling.step /\ disabling'.call = a
  BY <1>1, DisablingRecord
<1>3. Known' = Known
  BY HistoryKept
<1>4. disabling.step = "creating" => LookingUp(a, StoredTexts)'
  BY <1>1 DEF LookingUp, SameCall
<1> QED  BY <1>1, <1>2, <1>3, <1>4 DEF DisablingOK, SameCall

LEMMA ServeDisablingKeeps ==
    ASSUME AutosaveInv, ServeDisabling
    PROVE  AutosaveInv'
<1> DEFINE c == disabling.call
<1>1. /\ c # NoCall
      /\ UNCHANGED <<editor, choice, signedIn, noticed, late, seen, replayed, asked>>
  BY DEF ServeDisabling
<1>2. PICK answer \in {Refused} \cup AnswersTo(c.write) :
        /\ disabling' = [disabling EXCEPT !.call = Answered(c, answer)]
        /\ Serve(c.write, answer)
  BY DEF ServeDisabling
<1>3. CallOK(c, Known) /\ c.write # Unset
  BY <1>1, WhileDisabling
<1>4. PICK d \in DraftIds : d = c.write.draft
  BY <1>1, WhileDisabling
<1> HIDE DEF c
<1>5. IF c.write = Unset THEN answer \in {Refused} \cup Read(rows[d]) /\ UNCHANGED rows
      ELSE c.write.draft = d /\ Serve(c.write, answer)
  BY <1>2, <1>3, <1>4
<1>6. /\ RowsOK' /\ Gain(StoredTexts, StoredTexts')
      /\ answer \in AnswerRow /\ Tells(answer, StoredTexts'[d])
  BY <1>3, <1>5, CallServed
<1>7. PICK a : a = Answered(c, answer)
  OBVIOUS
<1>8. /\ a # NoCall /\ CallOK(a, Known) /\ SameCall(c, a) /\ a.answer = answer
  BY <1>3, <1>6, <1>7, AnsweredCallOK
<1>9. DisablingOK(Known, StoredTexts)'
  BY <1>1, <1>2, <1>4, <1>6, <1>7, <1>8, DisablingCallChanged DEF c
<1> QED  BY <1>1, <1>6, <1>9, DisablingStepKeeps

LEMMA LoseDisablingKeeps ==
    ASSUME AutosaveInv, LoseDisabling
    PROVE  AutosaveInv'
<1> DEFINE c == disabling.call
<1>1. /\ c # NoCall
      /\ disabling' = [disabling EXCEPT !.call = Lost(c, "dropped")]
      /\ late' = late \cup Underway(c)
      /\ UNCHANGED <<editor, choice, signedIn, noticed, rows, seen, replayed, asked>>
  BY DEF LoseDisabling
<1>2. CallOK(c, Known)
  BY <1>1, WhileDisabling
<1>3. PICK a : a = Lost(c, "dropped")
  OBVIOUS
<1>4. /\ a # NoCall /\ CallOK(a, Known) /\ SameCall(c, a)
      /\ a.at = "answered" => a = c /\ c.answer.result = "refused"
  BY <1>2, <1>3, LostCallOK
<1>5. RowsOK' /\ StoredTexts' = StoredTexts /\ Gain(StoredTexts, StoredTexts')
  BY <1>1, RowsSame, InvFields
<1> HIDE DEF c
<1>6. DisablingOK(Known, StoredTexts)'
  BY <1>1, <1>3, <1>4, DisablingCallChanged DEF c, Tells
<1>7. \A w \in late' : w \in late \/ GoodWrite(w, Known)
  BY <1>1, <1>2, UnderwayOK
<1> QED  BY <1>1, <1>5, <1>6, <1>7, DisablingStepKeeps

LEMMA DisabledKeeps ==
    ASSUME AutosaveInv, Disabled
    PROVE  AutosaveInv'
<1>1. /\ disabling' = [NoDisabling EXCEPT !.step = "done"]
      /\ UNCHANGED <<editor, choice, signedIn, noticed, rows, late, seen, replayed, asked>>
  BY DEF Disabled
<1>2. RowsOK' /\ Gain(StoredTexts, StoredTexts')
  BY <1>1, RowsSame, InvFields
<1>3. DisablingOK(Known, StoredTexts)'
  BY <1>1, NoDisablingOK
<1> QED  BY <1>1, <1>2, <1>3, DisablingStepKeeps

LEMMA AbortDisablingKeeps ==
    ASSUME AutosaveInv, AbortDisabling
    PROVE  AutosaveInv'
  BY AbortedKeeps DEF AbortDisabling

(* The revision of a draft that was looked up is known from then on.        *)
LEMMA CreatedResolvedLearns ==
    ASSUME AutosaveInv, CreatedResolved
    PROVE  /\ Known \subseteq Known'
           /\ <<disabling.call.write.draft, disabling.call.answer.revision>> \in Known'
<1>1. CASE disabling.call.answer.content = disabling.call.content
  <2>1. /\ seen' = seen \cup {<<disabling.call.write.draft, disabling.call.answer.revision>>}
        /\ UNCHANGED replayed
    BY <1>1 DEF CreatedResolved
  <2> QED  BY <2>1 DEF Known
<1>2. CASE disabling.call.answer.content # disabling.call.content
  <2>1. /\ replayed' = replayed \cup {<<disabling.call.write.draft, disabling.call.answer.revision>>}
        /\ UNCHANGED seen
    BY <1>2 DEF CreatedResolved
  <2> QED  BY <2>1 DEF Known
<1> QED  BY <1>1, <1>2

LEMMA CreatedResolvedKeeps ==
    ASSUME AutosaveInv, CreatedResolved
    PROVE  AutosaveInv'
<1> DEFINE c == disabling.call
           known == [editor EXCEPT !.pending = Unset]
           said == IF c.answer.content = c.content THEN c.version ELSE editor.saved
<1>1. /\ disabling.step = "creating" /\ c.at = "answered" /\ c.answer.result # "refused"
      /\ editor' = MarkSaved(known, c.write.draft, c.answer, said)
      /\ disabling' = [step |-> "deleting",
                       call |-> DeleteCall(MarkSaved(known, c.write.draft, c.answer, said))]
      /\ UNCHANGED <<choice, signedIn, noticed, rows, late, asked>>
  BY DEF CreatedResolved, Succeeded
<1>2. RowsOK' /\ StoredTexts' = StoredTexts
  BY <1>1, RowsKept, InvFields
<1>3. PICK K : K = Known'
  OBVIOUS
<1>4. Known \subseteq K /\ <<c.write.draft, c.answer.revision>> \in K
  BY <1>3, CreatedResolvedLearns
<1>5. c # NoCall
  BY <1>1, InvFields DEF DisablingOK
<1>6. /\ c \in CallRow /\ c.write.draft \in DraftIds /\ c.answer \in AnswerRow
      /\ LookingUp(c, StoredTexts)
  BY <1>1, <1>5, WhileDisabling DEF CallOK
<1>7. /\ Tells(c.answer, StoredTexts[c.write.draft])
      /\ editor.call = NoCall /\ editor.draft = Unset /\ editor.pending # Unset
      /\ c.version = editor.pending.version /\ c.content = editor.pending.content
  BY <1>1, <1>6 DEF LookingUp
<1>8. EditorOK(editor, K, StoredTexts)
  BY <1>4, InvFields, EditorGrows, GainSame
<1>9. /\ editor \in EditorRow /\ SavedOK(editor, StoredTexts) /\ DoubtsOK(editor)
      /\ ConflictOK(editor, StoredTexts)
      /\ editor.latest # Unset /\ editor.lost = Unset /\ editor.status # "conflict"
      /\ EditIs(editor, c.version, c.content)
      /\ editor.saved \in Nat /\ editor.edits \in Nat
  BY <1>7, <1>8, EditorFields DEF EditorOK, RestOK, DoubtsOK, ConflictOK
<1>10. PICK g : g = known
  OBVIOUS
<1>11. /\ g \in EditorRow
       /\ SameText(editor, g) /\ SameDraft(editor, g) /\ SameFlags(editor, g)
       /\ g.lost = Unset /\ g.call = NoCall /\ g.status = editor.status /\ g.pending = Unset
  BY <1>7, <1>9, <1>10, SettledEditor
<1>12. RestOK(g, K, StoredTexts)
  <2>1. SavedOK(g, StoredTexts)
    BY <1>9, <1>11 DEF SavedOK, NothingUnsaved, SameText, SameDraft
  <2> QED  BY <1>7, <1>9, <1>11, <2>1 DEF RestOK, BasisOK, ConflictOK, DoubtsOK, SameDraft
<1>13. PICK draft \in DraftIds, answer \in AnswerRow :
          draft = c.write.draft /\ answer = c.answer
  BY <1>6
<1>14. PICK version \in Nat : version = said
  BY <1>6, <1>9, CallFields
<1>15. /\ version <= g.edits
       /\ version = g.edits => g.saved = g.edits \/ g.latest \in StoredTexts[draft]
  <2>1. CASE c.answer.content = c.content
    BY <1>1, <1>7, <1>9, <1>11, <1>13, <1>14, <2>1 DEF EditIs, SameText, Tells
  <2>2. CASE c.answer.content # c.content
    BY <1>9, <1>11, <1>14, <2>2 DEF SavedOK, SameText, SameDraft
  <2> QED  BY <2>1, <2>2
<1> HIDE DEF c, known, said
<1>16. PICK f : f = MarkSaved(g, draft, answer, version)
  OBVIOUS
<1>17. g.draft \in {Unset, draft} /\ g.latest # Unset /\ <<draft, answer.revision>> \in K
  BY <1>4, <1>7, <1>9, <1>11, <1>13 DEF SameDraft, SameText
<1>18. /\ RestOK(f, K, StoredTexts)
       /\ SameText(g, f) /\ SameFlags(g, f) /\ f.call = g.call
       /\ f.draft = draft /\ g.saved <= f.saved /\ f.status \in {"saved", "pending"}
  BY <1>11, <1>12, <1>15, <1>16, <1>17, MarkSavedOK
<1>19. f.call = NoCall /\ f.draft # Unset /\ f.saved \in Nat /\ f \in EditorRow
  BY <1>11, <1>18, EditorFields, UnsetAssumption DEF RestOK
<1>20. editor' = f /\ disabling' = [step |-> "deleting", call |-> DeleteCall(f)]
  BY <1>1, <1>10, <1>13, <1>14, <1>16
<1>21. EditorOK(editor, Known, StoredTexts)' /\ InAccount(editor, signedIn)'
  BY <1>2, <1>3, <1>18, <1>19, <1>20 DEF EditorOK, SavingOK, InAccount
<1>22. ChoiceOK(Known, StoredTexts)'
  <2>1. choice.step = "none"
    BY <1>9, InvFields DEF ChoiceOK
  <2> QED  BY <1>1, <1>2, <1>3, <1>4, <2>1, InvFields, ChoiceKept, GainSame
<1>23. DisablingOK(Known, StoredTexts)'
  <2>1. PICK d : d = DeleteCall(f)
    OBVIOUS
  <2>2. d # NoCall /\ CallOK(d, K) /\ d.write # Unset
    BY <1>18, <1>19, <2>1, DeleteCallOK DEF RestOK
  <2> QED  BY <1>3, <1>20, <2>1, <2>2, DeletingOK
<1>24. LateOK(Known)'
  BY <1>1, <1>3, <1>4, InvFields, LateKept
<1>25. asked <= f.edits /\ AskedOK(f, asked)
  <2>1. asked <= editor.saved
    BY <1>7, InvFields DEF AskedOK
  <2> QED  BY <1>9, <1>11, <1>18, <1>19, <2>1, InvFields DEF AskedOK, SameText, SameDraft
<1> QED  BY <1>1, <1>2, <1>20, <1>21, <1>22, <1>23, <1>24, <1>25, InvFields DEF AutosaveInv

-----------------------------------------------------------------------------
(* The account changes, and the runtime notices it. *)

LEMMA SwitchedCall ==
    ASSUME NEW K, NEW c \in Calls, c # NoCall => CallOK(c, K)
    PROVE  LET a == Lost(c, "switched") IN
           /\ a \in Calls /\ (a = NoCall <=> c = NoCall)
           /\ c # NoCall =>
                /\ CallOK(a, K) /\ SameCall(c, a)
                /\ a.at \in {"dropped", "switched"} \/ (a.at = "answered" /\ a.answer.result = "refused")
<1>1. PICK at \in {"dropped", "switched"} : at = "switched"
  OBVIOUS
<1>2. CASE c = NoCall
  BY <1>2, NoCallLost DEF Calls, NoCall
<1>3. CASE c # NoCall
  <2>1. PICK a : a = Lost(c, at)
    OBVIOUS
  <2>2. /\ a # NoCall /\ CallOK(a, K) /\ SameCall(c, a) /\ a.at # "sent"
        /\ a.at = "answered" => a = c /\ c.answer.result = "refused"
    BY <1>3, <2>1, LostCallOK
  <2>3. a \in CallRow
    BY <2>2 DEF CallOK
  <2>4. a.at \in {"sent", "answered", "dropped", "switched"}
    BY <2>3, CallFields
  <2> QED  BY <1>1, <1>3, <2>1, <2>2, <2>3, <2>4 DEF Calls
<1> QED  BY <1>2, <1>3

LEMMA SwitchedEditor ==
    ASSUME NEW K, NEW S, NEW e, EditorOK(e, K, S), NEW a, a = Lost(e.call, "switched"),
           NEW account
    PROVE  LET f == [e EXCEPT !.call = a] IN
           /\ EditorOK(f, K, S) /\ InAccount(f, account)
           /\ SameText(e, f) /\ SameDraft(e, f) /\ SameDoubts(e, f) /\ SameFlags(e, f)
           /\ f.status = e.status /\ f.call = a
           /\ a = NoCall <=> e.call = NoCall
           /\ e.call # NoCall => SameCall(e.call, a)
<1> DEFINE f == [e EXCEPT !.call = a]
<1>1. e \in EditorRow /\ e.call \in Calls /\ (e.call # NoCall => CallOK(e.call, K))
  BY EditorFields DEF EditorOK, RestOK, SavingOK
<1>2. /\ a \in Calls /\ (a = NoCall <=> e.call = NoCall)
      /\ e.call # NoCall =>
           /\ CallOK(a, K) /\ SameCall(e.call, a)
           /\ a.at \in {"dropped", "switched"} \/ (a.at = "answered" /\ a.answer.result = "refused")
  BY <1>1, SwitchedCall
<1>3. CASE e.call = NoCall
  <2>1. /\ f \in EditorRow
        /\ SameText(e, f) /\ SameDraft(e, f) /\ SameDoubts(e, f) /\ SameFlags(e, f)
        /\ f.status = e.status /\ f.call = NoCall
    BY <1>1, <1>2, <1>3, IdleEditor
  <2> HIDE DEF f
  <2>2. EditorOK(f, K, S) /\ InAccount(f, account)
    BY <2>1, SameRest DEF EditorOK, SavingOK, InAccount
  <2> QED  BY <1>2, <1>3, <2>1, <2>2 DEF f
<1>4. CASE e.call # NoCall
  <2>1. a \in CallRow
    BY <1>2, <1>4 DEF CallOK
  <2>2. a.at = "answered" =>
          /\ e.call.write = Unset => Tells(a.answer, S[e.draft])
          /\ e.call.write # Unset => Tells(a.answer, S[e.call.write.draft])
          /\ e.call.write # Unset /\ e.call.write.kind = "save"
             /\ a.answer.result = "draft" => a.answer.content = e.call.content
    BY <1>2, <1>4 DEF Tells
  <2>3. /\ EditorOK(f, K, S)
        /\ SameText(e, f) /\ SameDraft(e, f) /\ SameDoubts(e, f) /\ SameFlags(e, f)
        /\ f.status = e.status /\ f.call = a
    BY <1>2, <1>4, <2>1, <2>2, CallChanged
  <2> HIDE DEF f
  <2>4. InAccount(f, account)
    BY <1>2, <1>4, <2>3 DEF InAccount
  <2> QED  BY <1>2, <1>4, <2>3, <2>4 DEF f
<1> QED  BY <1>3, <1>4

LEMMA SwitchAccountKeeps ==
    ASSUME AutosaveInv, SwitchAccount
    PROVE  AutosaveInv'
<1>1. /\ signedIn = "other" => disabling.step \in {"off", "done"}
      /\ signedIn' = IF signedIn = "own" THEN "other" ELSE "own"
      /\ editor' = [editor EXCEPT !.call = Lost(editor.call, "switched")]
      /\ choice' = [choice EXCEPT !.call = Lost(choice.call, "switched")]
      /\ disabling' = [disabling EXCEPT !.call = Lost(disabling.call, "switched")]
      /\ late' = late \cup Underway(editor.call) \cup Underway(choice.call)
                      \cup Underway(disabling.call)
      /\ UNCHANGED <<noticed, rows, seen, replayed, asked>>
  BY DEF SwitchAccount
<1>2. Known' = Known /\ RowsOK' /\ StoredTexts' = StoredTexts
  BY <1>1, HistoryKept, RowsKept, InvFields
<1>3. PICK a : a = Lost(editor.call, "switched")
  OBVIOUS
<1>4. PICK f : f = [editor EXCEPT !.call = a]
  OBVIOUS
<1>5. PICK account : account = signedIn'
  OBVIOUS
<1>6. /\ EditorOK(f, Known, StoredTexts) /\ InAccount(f, account)
      /\ SameText(editor, f) /\ SameDraft(editor, f) /\ SameDoubts(editor, f)
      /\ SameFlags(editor, f) /\ f.status = editor.status /\ f.call = a
      /\ a = NoCall <=> editor.call = NoCall
      /\ editor.call # NoCall => SameCall(editor.call, a)
  BY <1>3, <1>4, InvFields, SwitchedEditor
<1>7. editor' = f
  BY <1>1, <1>3, <1>4
<1>8. EditorOK(editor, Known, StoredTexts)' /\ InAccount(editor, signedIn)'
  BY <1>2, <1>5, <1>6, <1>7, EditorIs
<1>9. editor.call # NoCall => CallOK(editor.call, Known)
  BY WhileSaving
<1>10. choice.call # NoCall => CallOK(choice.call, Known)
  BY WhileChoosing
<1>11. disabling.call # NoCall => CallOK(disabling.call, Known)
  BY WhileDisabling
<1>12. ChoiceOK(Known, StoredTexts)'
  <2>1. choice \in ChoiceRow /\ choice.call \in Calls
    BY InvFields, ChoiceFields DEF ChoiceOK
  <2>2. PICK b : b = Lost(choice.call, "switched")
    OBVIOUS
  <2>3. /\ b \in Calls /\ (b = NoCall <=> choice.call = NoCall)
        /\ choice.call # NoCall =>
             /\ CallOK(b, Known) /\ SameCall(choice.call, b)
             /\ b.at = "answered" => b.answer.result = "refused"
    BY <1>10, <2>1, <2>2, SwitchedCall
  <2>4. /\ choice' \in ChoiceRow /\ choice'.step = choice.step /\ choice'.copy = choice.copy
        /\ choice'.call = b
    BY <1>1, <2>1, <2>2, <2>3, ChoiceRecord
  <2>5. ChoosingOK(Known, StoredTexts)'
    BY <1>2, <1>6, <1>7, <2>3, <2>4, WhileChoosing DEF ChoosingOK, SameCall, SameDraft, Tells
  <2>6. choice.step # "none" => editor.call = NoCall
    BY InvFields DEF ChoiceOK
  <2> QED  BY <1>2, <1>6, <1>7, <2>3, <2>4, <2>5, <2>6, InvFields DEF ChoiceOK, SameDraft
<1>13. DisablingOK(Known, StoredTexts)'
  <2>1. disabling \in DisablingRow /\ disabling.call \in Calls
    BY InvFields DEF DisablingOK, DisablingRow, Calls
  <2>2. PICK b : b = Lost(disabling.call, "switched")
    OBVIOUS
  <2>3. /\ b \in Calls /\ (b = NoCall <=> disabling.call = NoCall)
        /\ disabling.call # NoCall =>
             /\ CallOK(b, Known) /\ SameCall(disabling.call, b)
             /\ b.at = "answered" => b.answer.result = "refused"
    BY <1>11, <2>1, <2>2, SwitchedCall
  <2>4. /\ disabling' \in DisablingRow /\ disabling'.step = disabling.step
        /\ disabling'.call = b
    BY <1>1, <2>1, <2>2, <2>3, DisablingRecord
  <2>5. disabling.step \in {"idle", "creating"} =>
          editor'.suspended /\ (signedIn' = "own" => noticed' = "own")
    BY <1>1, <1>6, <1>7, InvFields DEF DisablingOK, SameFlags
  <2>6. disabling.step = "creating" => LookingUp(b, StoredTexts)'
    <3>1. disabling.step = "creating" =>
            disabling.call # NoCall /\ LookingUp(disabling.call, StoredTexts)
      BY InvFields DEF DisablingOK
    <3> QED  BY <1>2, <1>6, <1>7, <2>3, <3>1
             DEF LookingUp, SameCall, SameDraft, SameDoubts, Tells
  <2>7. disabling.call # NoCall =>
          disabling.step \in {"creating", "deleting"} /\ disabling.call.write # Unset
    BY WhileDisabling
  <2>8. disabling.step \in {"creating", "deleting"} => disabling.call # NoCall
    BY InvFields DEF DisablingOK
  <2> QED  BY <1>2, <2>3, <2>4, <2>5, <2>6, <2>7, <2>8 DEF DisablingOK, SameCall
<1>14. LateOK(Known)'
  <2>1. /\ \A w \in Underway(editor.call) : GoodWrite(w, Known)
        /\ \A w \in Underway(choice.call) : GoodWrite(w, Known)
        /\ \A w \in Underway(disabling.call) : GoodWrite(w, Known)
    BY <1>9, <1>10, <1>11, UnderwayOK
  <2> QED  BY <1>1, <1>2, <2>1, InvFields, LateKept
<1>15. asked <= f.edits /\ AskedOK(f, asked)
  BY <1>6, InvFields DEF AskedOK, SameText, SameDraft, SameFlags, SameCall
<1> QED  BY <1>1, <1>2, <1>7, <1>8, <1>12, <1>13, <1>14, <1>15, InvFields DEF AutosaveInv

LEMMA NoticeAccountKeeps ==
    ASSUME AutosaveInv, NoticeAccount
    PROVE  AutosaveInv'
<1>1. /\ noticed # signedIn /\ noticed' = signedIn
      /\ editor' = IF signedIn = "other" THEN [editor EXCEPT !.suspended = TRUE]
                   ELSE Resume(editor)
      /\ asked' = StillAsked(asked, editor')
      /\ UNCHANGED <<choice, disabling, signedIn, rows, late, seen, replayed>>
  BY DEF NoticeAccount
<1>2. Known' = Known /\ RowsOK' /\ StoredTexts' = StoredTexts
  BY <1>1, HistoryKept, RowsKept, InvFields
<1>3. PICK suspended \in BOOLEAN : suspended = TRUE
  OBVIOUS
<1>4. PICK f : f = IF signedIn = "other" THEN [editor EXCEPT !.suspended = suspended]
                   ELSE Resume(editor)
  OBVIOUS
<1>5. /\ EditorOK(f, Known, StoredTexts)
      /\ SameText(editor, f) /\ SameDraft(editor, f) /\ SameDoubts(editor, f)
      /\ f.queued = editor.queued /\ f.call = editor.call
      /\ f.status = editor.status \/ (f.status = "pending" /\ editor.status # "conflict")
      /\ signedIn = "other" => f.suspended
  <2>1. CASE signedIn = "other"
    <3>1. f = [editor EXCEPT !.suspended = suspended]
      BY <1>4, <2>1
    <3>2. /\ EditorOK(f, Known, StoredTexts)
          /\ SameText(editor, f) /\ SameDraft(editor, f) /\ SameDoubts(editor, f)
          /\ f.status = editor.status /\ f.queued = editor.queued /\ f.call = editor.call
          /\ f.suspended = suspended
      BY <3>1, InvFields, SuspendedEditor
    <3> QED  BY <1>3, <3>2
  <2>2. CASE signedIn # "other"
    BY <1>4, <2>2, InvFields, ResumeOK
  <2> QED  BY <2>1, <2>2
<1>6. editor' = f
  BY <1>1, <1>3, <1>4
<1>7. EditorOK(editor, Known, StoredTexts)' /\ InAccount(editor, signedIn)'
  BY <1>1, <1>2, <1>5, <1>6, EditorIs, InvFields DEF InAccount
<1>8. ChoiceOK(Known, StoredTexts)'
  BY <1>1, <1>2, <1>5, <1>6, InvFields, ChoiceKept, GainSame DEF ChoiceOK, SameDraft
<1>9. DisablingOK(Known, StoredTexts)'
  <2>1. disabling.step \in {"idle", "creating"} => signedIn = "other"
    BY <1>1, InvFields DEF DisablingOK
  <2>2. disabling.step = "creating" =>
          editor'.call = NoCall /\ editor'.draft = Unset /\ editor'.pending = editor.pending
    BY <1>5, <1>6, InvFields DEF DisablingOK, LookingUp, SameDraft, SameDoubts
  <2> QED  BY <1>1, <1>2, <1>5, <1>6, <2>1, <2>2, InvFields, DisablingKept, GainSame
<1>10. LateOK(Known)'
  BY <1>1, <1>2, InvFields, LateKept
<1>11. /\ f \in EditorRow /\ asked \in Nat /\ asked <= f.edits /\ Told(f, asked)
  BY <1>5, InvFields DEF EditorOK, RestOK, Told, AskedOK, SameText, SameDraft
<1>12. /\ asked' \in Nat /\ asked' <= f.edits /\ AskedOK(f, asked')
  BY <1>1, <1>6, <1>11, StillAskedOK
<1> QED  BY <1>1, <1>2, <1>6, <1>7, <1>8, <1>9, <1>10, <1>12, InvFields DEF AutosaveInv

-----------------------------------------------------------------------------
(* The start. *)

LEMMA NewEditorTyped == NewEditor \in EditorRow
  BY DEF NewEditor, EditorRow, Statuses, NoCall

LEMMA NewAutosave ==
    ASSUME rows = [d \in DraftIds |-> NoRow], editor = NewEditor
    PROVE  RowsOK /\ EditorOK(editor, Known, StoredTexts) /\ editor.status = "idle"
           /\ editor.call = NoCall /\ editor.edits = 0 /\ editor.saved = 0
<1>1. NoRow \in RowRow /\ RowOK(NoRow)
  BY AutosaveAssumption DEF NoRow, RowRow, RowOK
<1>2. RowsOK
  BY <1>1 DEF RowsOK
<1>3. /\ editor.status = "idle" /\ editor.draft = Unset /\ editor.revision = 0
      /\ editor.edits = 0 /\ editor.saved = 0 /\ editor.latest = Unset
      /\ editor.pending = Unset /\ editor.lost = Unset /\ editor.call = NoCall
  BY DEF NewEditor
<1>4. editor \in EditorRow
  BY NewEditorTyped
<1>5. SavedOK(editor, StoredTexts) /\ BasisOK(editor, Known) /\ ConflictOK(editor, StoredTexts)
      /\ DoubtsOK(editor)
  BY <1>3 DEF SavedOK, NothingUnsaved, BasisOK, ConflictOK, DoubtsOK
<1> QED  BY <1>2, <1>3, <1>4, <1>5 DEF EditorOK, RestOK, SavingOK

LEMMA OpenedAutosave ==
    ASSUME NEW content \in Texts, NEW copies \in SUBSET Texts,
           NEW row, row = [NewRow(content) EXCEPT !.copies = copies,
                                                  !.stored = {content} \cup copies],
           rows = [d \in DraftIds |-> IF d = 1 THEN row ELSE NoRow],
           NEW answer \in Read(row), editor = Opened(row, answer), seen = {<<1, 1>>}
    PROVE  RowsOK /\ EditorOK(editor, Known, StoredTexts)
           /\ editor.call = NoCall /\ editor.edits = 0 /\ editor.saved = 0
<1>1. NoRow \in RowRow /\ RowOK(NoRow)
  BY AutosaveAssumption DEF NoRow, RowRow, RowOK
<1>2. /\ row.state = "active" /\ row.revision = 1 /\ row.content = content
      /\ row.copies = copies /\ row.kept = {} /\ row.stored = {content} \cup copies
  BY DEF NewRow
<1>3. row \in RowRow /\ RowOK(row)
  BY <1>2 DEF NewRow, RowRow, RowOK
<1>4. RowsOK
  BY <1>1, <1>3 DEF RowsOK
<1>5. 1 \in DraftIds
  BY AutosaveAssumption DEF DraftIds
<1>6. StoredTexts[1] = {content} \cup copies
  BY <1>2, <1>5 DEF StoredTexts
<1>7. answer \in AnswerRow /\ Tells(answer, row.stored) /\ answer.result # "refused"
  <2>1. answer.result # "refused"
    BY <1>2 DEF Read, Answer
  <2> QED  BY <1>3, <2>1, ReadAnswers
<1>8. answer.conflict \in Texts \cup {Unset}
      /\ answer.conflict \in StoredTexts[1] \cup {Unset}
  BY <1>2, <1>6, <1>7 DEF Tells, AnswerRow
<1>9. PICK conflict \in Texts \cup {Unset} : conflict = answer.conflict
  BY <1>8
<1>10. PICK status \in {"saved", "conflict"} :
          status = IF conflict = Unset THEN "saved" ELSE "conflict"
  OBVIOUS
<1>11. editor = [NewEditor EXCEPT !.draft = 1, !.requests = 1, !.revision = 1,
                    !.latest = content, !.conflict = conflict, !.status = status]
  BY <1>2, <1>9, <1>10 DEF Opened
<1>12. /\ editor.status = status /\ editor.draft = 1 /\ editor.revision = 1
       /\ editor.edits = 0 /\ editor.saved = 0 /\ editor.latest = content
       /\ editor.conflict = conflict
       /\ editor.pending = Unset /\ editor.lost = Unset /\ editor.call = NoCall
  BY <1>11 DEF NewEditor
<1>13. editor \in EditorRow
  <2>1. PICK e \in EditorRow : e = NewEditor
    BY NewEditorTyped
  <2>2. PICK draft \in Drafts, requests \in Nat, revision \in Nat, latest \in Values :
          draft = 1 /\ requests = 1 /\ revision = 1 /\ latest = content
    BY <1>5 DEF Drafts, Values
  <2>3. editor = [e EXCEPT !.draft = draft, !.requests = requests, !.revision = revision,
                     !.latest = latest, !.conflict = conflict, !.status = status]
    BY <1>11, <2>1, <2>2
  <2>4. PICK c \in Values, s \in Statuses : c = conflict /\ s = status
    BY DEF Values, Statuses
  <2>5. PICK f : f = [e EXCEPT !.draft = draft, !.requests = requests, !.revision = revision,
                       !.latest = latest, !.conflict = c, !.status = s]
    OBVIOUS
  <2>6. f \in EditorRow
    BY <2>5, EditorRecord
  <2> QED  BY <2>3, <2>4, <2>5, <2>6
<1>14. SavedOK(editor, StoredTexts)
  BY <1>5, <1>6, <1>12, UnsetIsNoValue, UnsetAssumption DEF SavedOK, NothingUnsaved
<1>15. BasisOK(editor, Known) /\ ConflictOK(editor, StoredTexts) /\ DoubtsOK(editor)
  BY <1>5, <1>8, <1>9, <1>12, UnsetAssumption DEF BasisOK, ConflictOK, DoubtsOK, Known
<1> QED  BY <1>4, <1>12, <1>13, <1>14, <1>15 DEF EditorOK, RestOK, SavingOK

LEMMA InitOK ==
    ASSUME AutosaveInit
    PROVE  AutosaveInv
<1>1. /\ choice = NoChoice /\ disabling = NoDisabling /\ signedIn = "own" /\ noticed = "own"
      /\ late = {} /\ replayed = {} /\ asked = 0
  BY DEF AutosaveInit
<1>2. /\ RowsOK /\ EditorOK(editor, Known, StoredTexts)
      /\ editor.call = NoCall /\ editor.edits = 0 /\ editor.saved = 0
  <2>1. CASE rows = [d \in DraftIds |-> NoRow] /\ editor = NewEditor
    BY <2>1, NewAutosave
  <2>2. CASE \E content \in Texts \ {Empty}, copies \in {{}} \cup {{t} : t \in Texts \ {Empty}} :
            LET row == [NewRow(content) EXCEPT !.copies = copies, !.stored = {content} \cup copies]
            IN /\ content \notin copies
               /\ rows = [d \in DraftIds |-> IF d = 1 THEN row ELSE NoRow]
               /\ \E answer \in Read(row) : editor = Opened(row, answer)
               /\ seen = {<<1, 1>>}
    <3>1. PICK content \in Texts \ {Empty}, copies \in {{}} \cup {{t} : t \in Texts \ {Empty}} :
            LET row == [NewRow(content) EXCEPT !.copies = copies, !.stored = {content} \cup copies]
            IN /\ content \notin copies
               /\ rows = [d \in DraftIds |-> IF d = 1 THEN row ELSE NoRow]
               /\ \E answer \in Read(row) : editor = Opened(row, answer)
               /\ seen = {<<1, 1>>}
      BY <2>2
    <3>4. content \in Texts /\ copies \in SUBSET Texts
      OBVIOUS
    <3>2. PICK row : row = [NewRow(content) EXCEPT !.copies = copies,
                                                   !.stored = {content} \cup copies]
      OBVIOUS
    <3>3. PICK answer \in Read(row) : editor = Opened(row, answer)
      BY <3>1, <3>2
    <3> QED  BY <3>1, <3>2, <3>3, <3>4, OpenedAutosave
  <2> QED  BY <2>1, <2>2 DEF AutosaveInit
<1>3. InAccount(editor, signedIn) /\ AskedOK(editor, asked)
  BY <1>1, <1>2 DEF InAccount, AskedOK
<1>4. ChoiceOK(Known, StoredTexts)
  <2>1. choice \in ChoiceRow /\ choice.step = "none" /\ choice.call = NoCall
    BY <1>1, AutosaveAssumption DEF NoChoice, ChoiceRow, NoCall
  <2> QED  BY <2>1 DEF ChoiceOK, ChoosingOK
<1>5. DisablingOK(Known, StoredTexts)
  <2>1. disabling \in DisablingRow /\ disabling.step = "off" /\ disabling.call = NoCall
    BY <1>1 DEF NoDisabling, DisablingRow, NoCall
  <2> QED  BY <2>1 DEF DisablingOK
<1>6. LateOK(Known)
  BY <1>1 DEF LateOK
<1> QED  BY <1>1, <1>2, <1>3, <1>4, <1>5, <1>6 DEF AutosaveInv

LEMMA StutterKeeps ==
    ASSUME AutosaveInv, UNCHANGED autosaveVars
    PROVE  AutosaveInv'
<1>1. /\ UNCHANGED <<editor, choice, disabling, signedIn, noticed, rows, late, seen,
                     replayed, asked>>
  BY DEF autosaveVars
<1>2. RowsOK' /\ Gain(StoredTexts, StoredTexts')
  BY <1>1, RowsSame, InvFields
<1> QED  BY <1>1, <1>2, RowsStepKeeps

(* No step leaves the invariant. *)
LEMMA AutosaveStep ==
    ASSUME AutosaveInv, [AutosaveNext]_autosaveVars
    PROVE  AutosaveInv'
<1>1. CASE AuthorSteps
  BY <1>1, TypeKeeps, SaveNowKeeps, ChooseKeeps, DisableSavingKeeps DEF AuthorSteps
<1>2. CASE ChooserSteps
  BY <1>2, LoseChoiceKeeps, CheckChoiceKeeps, ChoiceOpenKeeps, AdoptKeeps DEF ChooserSteps
<1>3. CASE DisablingSteps
  BY <1>3, ResolveCreatedKeeps, LoseDisablingKeeps, CreatedResolvedKeeps, DisabledKeeps,
     AbortDisablingKeeps DEF DisablingSteps
<1>4. CASE AccountSteps
  BY <1>4, ServeCallKeeps, ServeChoiceKeeps, ServeDisablingKeeps, ServeLateKeeps, OthersKeep
     DEF AccountSteps
<1>5. CASE LoseAnswer
  BY <1>5, LoseAnswerKeeps
<1>6. CASE Continue
  BY <1>6, ContinueKeeps
<1>7. CASE SwitchAccount
  BY <1>7, SwitchAccountKeeps
<1>8. CASE NoticeAccount
  BY <1>8, NoticeAccountKeeps
<1>9. CASE UNCHANGED autosaveVars
  BY <1>9, StutterKeeps
<1> QED  BY <1>1, <1>2, <1>3, <1>4, <1>5, <1>6, <1>7, <1>8, <1>9 DEF AutosaveNext

(* In every state the account's rows, the editor, its calls, the chooser,    *)
(* the switching off and what the author asked for agree with each other     *)
(* (AutosaveInv).                                                            *)
THEOREM AutosaveInvariance == AutosaveSpec => []AutosaveInv
<1>1. AutosaveInit => AutosaveInv
  BY InitOK
<1>2. AutosaveInv /\ [AutosaveNext]_autosaveVars => AutosaveInv'
  BY AutosaveStep
<1> QED  BY <1>1, <1>2, PTL DEF AutosaveSpec

(* "Saved" is shown only when the account stored what the editor shows and   *)
(* nothing newer was typed; and once no save runs, what the author asked to  *)
(* save is saved, or the author was told (markSaved, reconcile, flush).      *)
THEOREM SavingInvariance == AutosaveSpec => []SavingIsTrue
<1>1. ASSUME AutosaveInv
      PROVE  SavingIsTrue
  <2>1. /\ SavedOK(editor, StoredTexts) /\ AskedOK(editor, asked)
        /\ editor.draft \in Drafts /\ editor.saved \in Nat /\ editor.edits \in Nat
    BY <1>1, InvFields DEF RestOK
  <2>2. ASSUME editor.status = "saved", editor.draft # Unset
        PROVE  ~ Unsaved(editor) /\ editor.latest \in rows[editor.draft].stored \cup {Empty}
    <3>1. editor.saved = editor.edits /\ NothingUnsaved(editor, StoredTexts)
      BY <2>1, <2>2 DEF SavedOK
    <3>2. StoredTexts[editor.draft] = rows[editor.draft].stored
      BY <2>1, <2>2 DEF StoredTexts, Drafts
    <3> QED  BY <2>1, <2>2, <3>1, <3>2 DEF Unsaved, NothingUnsaved
  <2>3. editor.call = NoCall => asked <= editor.saved
    BY <2>1 DEF AskedOK
  <2> QED  BY <2>2, <2>3 DEF SavingIsTrue
<1> QED  BY <1>1, AutosaveInvariance, PTL

-----------------------------------------------------------------------------
(* What a write of the editor replaces. *)

Traced(d) == \/ <<d, rows[d].revision>> \in seen \cup replayed
             \/ rows'[d].state = "active" /\ rows[d].content \in rows'[d].kept

LEMMA OwnRowWrite ==
    ASSUME AutosaveInv, NEW w, GoodWrite(w, Known),
           UNCHANGED rows \/ rows' = [rows EXCEPT ![w.draft] = RowAfter(w)]
    PROVE  \A d \in ReplacedRevisions : Traced(d)
<1>1. ASSUME NEW d \in ReplacedRevisions
      PROVE  Traced(d)
  <2>1. /\ d \in DraftIds /\ rows[d].state = "active" /\ rows \in [DraftIds -> RowRow]
        /\ rows'[d].content # rows[d].content \/ rows'[d].state = "deleted"
    BY <1>1, InvFields DEF ReplacedRevisions, RowsOK
  <2>2. w \in Writes /\ w.draft \in DraftIds /\ Content(w)
    BY WriteFields DEF GoodWrite, Content
  <2>3. rows' = [rows EXCEPT ![w.draft] = RowAfter(w)]
    BY <2>1
  <2>4. d = w.draft /\ rows'[d] = RowAfter(w)
    BY <2>1, <2>2, <2>3
  <2>5. NamesWhatItReplaces(w, rows[d], rows'[d])
    BY <2>2, <2>4, InvFields, ServedRow
  <2>6. CASE w.kind \in {"save", "delete"} /\ w.base = rows[d].revision
    BY <2>4, <2>6 DEF GoodWrite, Known, Traced
  <2> QED  BY <2>1, <2>5, <2>6 DEF NamesWhatItReplaces, Traced
<1> QED  BY <1>1

LEMMA OwnWritesAreTraced ==
    ASSUME AutosaveInv, OwnWrite
    PROVE  \A d \in ReplacedRevisions : Traced(d)
<1>1. CASE UNCHANGED rows
  BY <1>1, InvFields DEF ReplacedRevisions, RowsOK
<1>2. CASE ServeCall /\ rows' # rows
  <2>1. /\ editor.call # NoCall /\ editor.call.write # Unset
        /\ \E answer : Serve(editor.call.write, answer)
    BY <1>2 DEF ServeCall
  <2>2. GoodWrite(editor.call.write, Known)
    BY <2>1, WhileSaving DEF CallOK
  <2> QED  BY <1>2, <2>1, <2>2, OwnRowWrite DEF Serve
<1>3. CASE ServeLate
  BY <1>3, InvFields, OwnRowWrite DEF ServeLate, LateOK
<1>4. CASE ServeChoice /\ rows' # rows
  <2>1. /\ choice.call # NoCall /\ choice.step # "checking"
        /\ \E answer : Serve(choice.call.write, answer)
    BY <1>4 DEF ServeChoice
  <2>2. GoodWrite(choice.call.write, Known)
    BY <2>1, WhileChoosing DEF CallOK
  <2> QED  BY <1>4, <2>1, <2>2, OwnRowWrite DEF Serve
<1>5. CASE ServeDisabling
  <2>1. /\ disabling.call # NoCall
        /\ \E answer : Serve(disabling.call.write, answer)
    BY <1>5 DEF ServeDisabling
  <2>2. GoodWrite(disabling.call.write, Known)
    BY <2>1, WhileDisabling DEF CallOK
  <2> QED  BY <2>1, <2>2, OwnRowWrite DEF Serve
<1> QED  BY <1>1, <1>2, <1>3, <1>4, <1>5 DEF OwnWrite

-----------------------------------------------------------------------------
(* What changes the content of the editor. *)

LEMMA OneFieldChanged ==
    ASSUME NEW e \in EditorRow, NEW a
    PROVE  /\ [e EXCEPT !.call = a].latest = e.latest
           /\ [e EXCEPT !.suspended = a].latest = e.latest
  BY EditorRecord

LEMMA AbortedText ==
    ASSUME AutosaveInv
    PROVE  Resume(editor).latest = editor.latest /\ Aborted(editor).latest = editor.latest
<1>1. Resume(editor).latest = editor.latest
  BY InvFields, ResumeOK DEF SameText
<1> QED  BY <1>1 DEF Aborted

LEMMA SaveNowText ==
    ASSUME AutosaveInv, SaveNow
    PROVE  editor'.latest = editor.latest
<1>1. /\ editor' = Flush(editor)
      /\ editor.draft = Unset /\ editor.pending = Unset => editor.requests < MaxRequests
  BY DEF SaveNow
<1> QED  BY <1>1, InvFields, FlushOK DEF SameText

LEMMA ContinueText ==
    ASSUME AutosaveInv, Continue
    PROVE  editor'.latest = editor.latest
<1>1. editor' = Continued(editor) /\ editor.call # NoCall /\ editor.call.at # "sent"
  BY DEF Continue
<1>2. PICK K : K = Known'
  OBVIOUS
<1>3. EditorOK(editor, K, StoredTexts) /\ Learns(editor, K)
  BY <1>2, InvFields, ContinueLearns, EditorGrows, GainSame
<1> QED  BY <1>1, <1>3, InvFields, ContinuedOK DEF SameText

LEMMA CreatedResolvedText ==
    ASSUME AutosaveInv, CreatedResolved
    PROVE  editor'.latest = editor.latest
<1>1. PICK draft, answer, version :
         editor' = MarkSaved([editor EXCEPT !.pending = Unset], draft, answer, version)
  BY DEF CreatedResolved
<1>2. PICK g : g = [editor EXCEPT !.pending = Unset]
  OBVIOUS
<1>3. g \in EditorRow /\ g.latest = editor.latest
  BY <1>2, InvFields, SettledEditor DEF SameText
<1>4. MarkSaved(g, draft, answer, version).latest = g.latest
  BY <1>3, EditorRecord DEF MarkSaved
<1> QED  BY <1>1, <1>2, <1>3, <1>4

LEMMA ContentIsStored ==
    ASSUME AutosaveInv, [AutosaveNext]_autosaveVars, editor'.latest # editor.latest
    PROVE  editor'.edits > editor.edits \/ editor.latest \in rows[editor.draft].stored
<1>1. editor' # editor /\ editor \in EditorRow /\ editor.edits \in Nat
  BY InvFields
<1>2. CASE \E content \in Texts : Type(content)
  BY <1>1, <1>2, InvFields, EditedOK DEF Type
<1>3. CASE Adopt
  <2>1. editor.latest = choice.copy /\ choice.step # "none"
    BY <1>3, AdoptKeeps DEF Adopt
  <2>2. choice.copy \in StoredTexts[editor.draft] /\ editor.draft \in DraftIds
    BY <2>1, ChoosingNow
  <2> QED  BY <2>1, <2>2 DEF StoredTexts
<1>4. CASE SaveNow \/ Continue \/ CreatedResolved
  BY <1>4, SaveNowText, ContinueText, CreatedResolvedText
<1>5. CASE ServeCall \/ LoseAnswer \/ SwitchAccount \/ DisableSaving
  <2>1. \E a : editor' = [editor EXCEPT !.call = a] \/ editor' = [editor EXCEPT !.suspended = a]
    <3>1. CASE ServeCall
      <4>1. PICK answer : editor' = [editor EXCEPT !.call = Answered(editor.call, answer)]
        BY <3>1 DEF ServeCall
      <4> QED  BY <4>1
    <3>2. CASE LoseAnswer
      <4>1. editor' = [editor EXCEPT !.call = Lost(editor.call, "dropped")]
        BY <3>2 DEF LoseAnswer
      <4> QED  BY <4>1
    <3>3. CASE SwitchAccount
      <4>1. editor' = [editor EXCEPT !.call = Lost(editor.call, "switched")]
        BY <3>3 DEF SwitchAccount
      <4> QED  BY <4>1
    <3>4. CASE DisableSaving
      BY <3>4 DEF DisableSaving
    <3> QED  BY <1>5, <3>1, <3>2, <3>3, <3>4
  <2>2. PICK a : editor' = [editor EXCEPT !.call = a] \/ editor' = [editor EXCEPT !.suspended = a]
    BY <2>1
  <2>3. /\ [editor EXCEPT !.call = a].latest = editor.latest
        /\ [editor EXCEPT !.suspended = a].latest = editor.latest
    BY <1>1, OneFieldChanged
  <2>4. editor'.latest = editor.latest
    BY <2>2, <2>3
  <2> QED  BY <1>1, <2>4
<1>6. CASE ResolveCreated \/ AbortDisabling
  BY <1>1, <1>6, AbortedText DEF ResolveCreated, AbortDisabling
<1>7. CASE NoticeAccount
  BY <1>1, <1>7, AbortedText, OneFieldChanged DEF NoticeAccount
<1>8. CASE \/ \E side \in {"device", "account"} : Choose(side)
           \/ LoseChoice \/ CheckChoice \/ ChoiceOpen \/ LoseDisabling \/ Disabled
           \/ ServeChoice \/ ServeDisabling \/ ServeLate \/ OtherDevice \/ OtherChoice
  BY <1>1, <1>8 DEF Choose, LoseChoice, CheckChoice, ChoiceOpen, LoseDisabling, Disabled,
     ServeChoice, ServeDisabling, ServeLate, OtherDevice, OtherChoice
<1>9. CASE UNCHANGED autosaveVars
  BY <1>1, <1>9 DEF autosaveVars
<1> QED  BY <1>2, <1>3, <1>4, <1>5, <1>6, <1>7, <1>8, <1>9
         DEF AutosaveNext, AuthorSteps, ChooserSteps, DisablingSteps, AccountSteps, OthersStep

(* A write of the editor replaces or deletes a revision only if the editor   *)
(* was told of it or the history keeps its content, also a write whose       *)
(* answer nobody waits for; and the editor gives up input of the author that *)
(* was not stored only for newer input (saveDraft's baseRevision, adoptDraft).*)
THEOREM VersionsAreKept == AutosaveSpec => NoVersionIsLost
<1> DEFINE Replaces == OwnWrite => \A d \in ReplacedRevisions :
             \/ <<d, rows[d].revision>> \in seen \cup replayed
             \/ rows'[d].state = "active" /\ rows[d].content \in rows'[d].kept
           Rewrites == editor'.latest # editor.latest =>
             \/ editor'.edits > editor.edits
             \/ editor.latest \in rows[editor.draft].stored
<1>1. AutosaveInv /\ [AutosaveNext]_autosaveVars => [Replaces]_autosaveVars
  BY OwnWritesAreTraced DEF Traced
<1>2. AutosaveInv /\ [AutosaveNext]_autosaveVars => [Rewrites]_autosaveVars
  BY ContentIsStored
<1> HIDE DEF Replaces, Rewrites
<1>3. AutosaveSpec => [][Replaces]_autosaveVars /\ [][Rewrites]_autosaveVars
  BY <1>1, <1>2, AutosaveInvariance, PTL DEF AutosaveSpec
<1> QED  BY <1>3 DEF NoVersionIsLost, Replaces, Rewrites

-----------------------------------------------------------------------------
(* A call is sent in the account. *)

LEMMA SentInTheAccount ==
    ASSUME AutosaveInv, [AutosaveNext]_autosaveVars,
           editor'.call # NoCall, editor'.call # editor.call, editor'.call.at = "sent"
    PROVE  signedIn = "own"
<1>1. InAccount(editor, signedIn)'
  BY AutosaveStep DEF AutosaveInv
<1>2. signedIn' = "own"
  BY <1>1 DEF InAccount
<1>3. CASE SwitchAccount
  <2>1. editor' = [editor EXCEPT !.call = Lost(editor.call, "switched")]
    BY <1>3 DEF SwitchAccount
  <2>2. PICK a : a = Lost(editor.call, "switched")
    OBVIOUS
  <2>3. editor'.call = a
    BY <2>1, <2>2, InvFields, EditorRecord
  <2>4. editor.call # NoCall => CallOK(editor.call, Known)
    BY WhileSaving
  <2>5. a = NoCall \/ a.at # "sent"
    BY <2>2, <2>4, InvFields, SwitchedCall
  <2> QED  BY <2>3, <2>5
<1>4. CASE ~ SwitchAccount
  <2>1. UNCHANGED signedIn
    BY <1>4 DEF AutosaveNext, AuthorSteps, ChooserSteps, DisablingSteps, AccountSteps, OthersStep,
       Type, SaveNow, Choose, DisableSaving, LoseChoice, CheckChoice, ChoiceOpen, Adopt,
       ResolveCreated, LoseDisabling, CreatedResolved, Disabled, AbortDisabling, ServeCall,
       ServeChoice, ServeDisabling, ServeLate, OtherDevice, OtherChoice, LoseAnswer, Continue,
       NoticeAccount, autosaveVars
  <2> QED  BY <1>2, <2>1
<1> QED  BY <1>3, <1>4

(* Whatever account the browser is switched to, and whenever, the editor     *)
(* sends nothing in another account than its own (accountConfirmed).         *)
THEOREM CallsStayInTheAccount == AutosaveSpec => SentInItsAccount
<1> DEFINE InOwn == editor'.call # NoCall /\ editor'.call # editor.call /\ editor'.call.at = "sent"
                      => signedIn = "own"
<1>1. AutosaveInv /\ [AutosaveNext]_autosaveVars => [InOwn]_autosaveVars
  BY SentInTheAccount
<1> HIDE DEF InOwn
<1>2. AutosaveSpec => [][InOwn]_autosaveVars
  BY <1>1, AutosaveInvariance, PTL DEF AutosaveSpec
<1> QED  BY <1>2 DEF SentInItsAccount, InOwn

-----------------------------------------------------------------------------
(* Both controllers of an open editor. *)

(* Each controller behaves in the editor as it does alone. *)
THEOREM EachAsAlone == EditorSpec => AutosaveSpec /\ UploadsSpec
<1>1. EditorInit => AutosaveInit /\ UploadsInit
  BY DEF EditorInit
<1>2. [EditorNext]_<<autosaveVars, uploadVars>> => [AutosaveNext]_autosaveVars /\ [UploadsNext]_uploadVars
  BY DEF EditorNext
<1> QED BY <1>1, <1>2, PTL DEF EditorSpec, AutosaveSpec, UploadsSpec

(* Neither a save nor a command for media is sent in an account the editor  *)
(* does not belong to, however the account changes during a wait            *)
(* (accountConfirmed, the fences of the upload manager).                    *)
THEOREM AllStayInTheAccount == EditorSpec => CommandsStayInTheirAccount
BY EachAsAlone, CallsStayInTheAccount, CommandsStay DEF CommandsStayInTheirAccount
===============================================================================
