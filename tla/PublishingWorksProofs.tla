------------------------ MODULE PublishingWorksProofs ------------------------
(***************************************************************************)
(* The works of an author, for any number of works, drafts, sessions,       *)
(* requests and editors, any history limit and any contents: the invariants *)
(* of PublishingWorks, what a moderator decides on, and that a confirmed    *)
(* submission is one the account has (PublishingSubmission).                *)
(*                                                                          *)
(* IInv adds to the properties what they need of each other: what a page    *)
(* may still know (PageIsOld), who can submit no more (Spent) and what a    *)
(* receipt says (ReceiptsAreTrue).  Commands that at most dispose of        *)
(* revisions anew are instances of Decided, those of drafts and items of    *)
(* MovesKeep, and a submission of Written.                                  *)
(***************************************************************************)
EXTENDS PublishingSubmission, SequenceTheorems, TLAPS

(* A work that does not exist yet has no revision. *)
Begun == \A w \in Works : works[w].state = "none" => works[w].author = 0

(* A draft has a content while it can be submitted and a work afterwards.    *)
DraftsAreFilled ==
    \A h \in Drafts : /\ holders[h].state = "active" => holders[h].content \in Contents
                      /\ holders[h].state = "submitted" => holders[h].work \in Works

(* Whoever has a receipt submits no more. *)
Spent == \A r \in Requests : receipts[r] # Null =>
            holders[receipts[r].command.holder].state \in {"submitted", "ended"}

(* What has been decided or closed since the page was read has a newer       *)
(* version, and what the author has changed can no longer be decided on.     *)
SubmissionPage(w, n) ==
    Live(w) =>
      /\ n <= works[w].author
      /\ page.version <= revisions[w][n].version
      /\ n = works[w].author /\ page.version = revisions[w][n].version =>
            revisions[w][n].disposition = "pending" /\ page.changes = changes[w]

WorkPage(w) ==
    /\ page.version <= works[w].version
    /\ page.version = works[w].version => page.changes = changes[w]

PageIsOld == page # Null =>
    /\ works[page.work].state # "none"
    /\ IF page.revision = 0 THEN WorkPage(page.work)
       ELSE SubmissionPage(page.work, page.revision)

(* The receipt of a request is that of its command, and its revision has the *)
(* command's content.                                                        *)
ReceiptsAreTrue ==
    \A r \in Requests : receipts[r] # Null =>
        LET receipt == receipts[r]
        IN /\ receipt.command.request = r
           /\ works[receipt.work].state # "deleted" =>
                revisions[receipt.work][receipt.revision].content = receipt.command.content

IInv == /\ TypeOK /\ Begun /\ DraftsAreFilled /\ Spent /\ PageIsOld /\ ReceiptsAreTrue
        /\ PublicAndPendingAreCurrent /\ SubmittedOnce /\ StoredInputIsKept
        /\ NoEditIsOverwritten /\ MediaStaysWithItsWork

-----------------------------------------------------------------------------
(* Revisions keep what was submitted; only their dispositions change, and    *)
(* with them their versions.                                                 *)
Redisposed(old, new) ==
    /\ new \in Seq(RevisionRow) /\ Len(new) = Len(old)
    /\ \A n \in 1..Len(old) :
         /\ new[n].content = old[n].content /\ new[n].base = old[n].base
         /\ new[n].request = old[n].request
         /\ new[n] = old[n] \/ new[n].version > old[n].version

Moved(row, disposition) == [row EXCEPT !.disposition = disposition, !.version = @ + 1]

LEMMA MovedRevision ==
    ASSUME NEW row \in RevisionRow, NEW disposition \in Disposition
    PROVE  /\ Moved(row, disposition) \in RevisionRow
           /\ Moved(row, disposition).content = row.content
           /\ Moved(row, disposition).base = row.base
           /\ Moved(row, disposition).request = row.request
           /\ Moved(row, disposition).version = row.version + 1
           /\ Moved(row, disposition).disposition = disposition
<1> DEFINE disposed == [row EXCEPT !.disposition = disposition]
<1>1. disposed \in RevisionRow /\ disposed.version = row.version
  BY DEF RevisionRow
<1>2. [disposed EXCEPT !.version = @ + 1] \in RevisionRow
  <2> HIDE DEF disposed
  <2> QED  BY <1>1 DEF RevisionRow
<1>3. Moved(row, disposition) = [disposed EXCEPT !.version = @ + 1]
  BY <1>1 DEF Moved
<1> QED  BY <1>2, <1>3 DEF RevisionRow

LEMMA ClosingRedisposes ==
    ASSUME NEW revs \in Seq(RevisionRow), NEW disposition \in Disposition, NEW keep
    PROVE  LET closed == ClosePending(revs, disposition, keep)
           IN /\ Redisposed(revs, closed)
              /\ \A n \in 1..Len(revs) :
                   closed[n].disposition = IF revs[n].disposition = "pending" /\ n # keep
                                           THEN disposition ELSE revs[n].disposition
              /\ \A n \in 1..Len(revs) :
                   (revs[n].disposition = "pending" /\ n # keep) \/ closed[n] = revs[n]
<1> DEFINE closed == ClosePending(revs, disposition, keep)
<1>1. DOMAIN revs = 1..Len(revs) /\ \A n \in 1..Len(revs) : revs[n] \in RevisionRow
  OBVIOUS
<1>2. \A n \in 1..Len(revs) :
         closed[n] = IF revs[n].disposition = "pending" /\ n # keep
                     THEN Moved(revs[n], disposition)
                     ELSE revs[n]
  BY <1>1 DEF ClosePending, Moved
<1>3. \A n \in 1..Len(revs) : closed[n] \in RevisionRow
  BY <1>1, <1>2, MovedRevision
<1>4. closed = [n \in 1..Len(revs) |-> closed[n]]
  BY <1>1 DEF ClosePending
<1>5. closed \in Seq(RevisionRow) /\ Len(closed) = Len(revs)
  <2> HIDE DEF closed
  <2>1. closed \in [1..Len(revs) -> RevisionRow]
    BY <1>3, <1>4
  <2> QED  BY <2>1, LenProperties
<1>6. \A n \in 1..Len(revs) : revs[n].version \in Nat
  BY <1>1 DEF RevisionRow
<1> HIDE DEF closed
<1>7. Redisposed(revs, closed)
  BY <1>1, <1>2, <1>5, <1>6, MovedRevision DEF Redisposed
<1>8. \A n \in 1..Len(revs) :
         closed[n].disposition = IF revs[n].disposition = "pending" /\ n # keep
                                 THEN disposition ELSE revs[n].disposition
  BY <1>1, <1>2, MovedRevision
<1> QED  BY <1>2, <1>7, <1>8 DEF closed

LEMMA DisposedRedisposes ==
    ASSUME NEW revs \in Seq(RevisionRow), NEW n \in 1..Len(revs), NEW disposition \in Disposition
    PROVE  /\ Redisposed(revs, Disposed(revs, n, disposition))
           /\ Disposed(revs, n, disposition)[n].disposition = disposition
           /\ Disposed(revs, n, disposition)[n].version = revs[n].version + 1
           /\ \A m \in 1..Len(revs) : m # n => Disposed(revs, n, disposition)[m] = revs[m]
<1> DEFINE new == Moved(revs[n], disposition)
<1>1. DOMAIN revs = 1..Len(revs) /\ \A m \in 1..Len(revs) : revs[m] \in RevisionRow
  OBVIOUS
<1>2. /\ new \in RevisionRow
      /\ new.content = revs[n].content /\ new.base = revs[n].base
      /\ new.request = revs[n].request /\ new.version = revs[n].version + 1
      /\ new.disposition = disposition
  BY <1>1, MovedRevision
<1>3. Disposed(revs, n, disposition) = [revs EXCEPT ![n] = new]
  BY <1>1 DEF Disposed, Moved
<1>4. revs[n].version \in Nat
  BY <1>1 DEF RevisionRow
<1> HIDE DEF new
<1>5. /\ [revs EXCEPT ![n] = new] \in Seq(RevisionRow)
      /\ Len([revs EXCEPT ![n] = new]) = Len(revs)
  BY <1>2
<1> QED  BY <1>1, <1>2, <1>3, <1>4, <1>5 DEF Redisposed

LEMMA RedisposedTwice ==
    ASSUME NEW a, NEW b, NEW c, a \in Seq(RevisionRow), Redisposed(a, b), Redisposed(b, c)
    PROVE  Redisposed(a, c)
<1>1. /\ DOMAIN a = 1..Len(a) /\ DOMAIN b = 1..Len(a) /\ DOMAIN c = 1..Len(a)
      /\ \A n \in 1..Len(a) : a[n] \in RevisionRow /\ b[n] \in RevisionRow /\ c[n] \in RevisionRow
  BY DEF Redisposed
<1>2. \A n \in 1..Len(a) : a[n].version \in Nat /\ b[n].version \in Nat /\ c[n].version \in Nat
  BY <1>1 DEF RevisionRow
<1> QED  BY <1>1, <1>2 DEF Redisposed

LEMMA RedisposedSelf ==
    ASSUME NEW a, a \in Seq(RevisionRow)
    PROVE  Redisposed(a, a)
  BY DEF Redisposed

-----------------------------------------------------------------------------
(* The rows of a typed state. *)
LEMMA Rows ==
    ASSUME TypeOK, NEW w \in Works
    PROVE  /\ works[w] \in WorkRow
           /\ works[w].author = Len(revisions[w]) /\ works[w].public <= works[w].author
           /\ works[w].author \in Nat /\ works[w].public \in Nat /\ works[w].version \in Nat
           /\ works[w].visibility \in Visibility
           /\ works[w].state \in {"none", "live", "deleted"}
           /\ revisions[w] \in Seq(RevisionRow)
           /\ DOMAIN revisions[w] = 1..Len(revisions[w])
           /\ \A n \in 1..Len(revisions[w]) : /\ revisions[w][n] \in RevisionRow
                                             /\ revisions[w][n].version \in Nat
                                             /\ revisions[w][n].disposition \in Disposition
                                             /\ revisions[w][n].content \in Contents
                                             /\ revisions[w][n].request \in Requests
           /\ changes[w] \in Nat
<1>1. /\ works[w] \in WorkRow /\ revisions[w] \in Seq(RevisionRow) /\ changes[w] \in Nat
      /\ works[w].author = Len(revisions[w]) /\ works[w].public <= works[w].author
  BY DEF TypeOK
<1>2. /\ works[w].author \in Nat /\ works[w].public \in Nat /\ works[w].version \in Nat
      /\ works[w].state \in {"none", "live", "deleted"} /\ works[w].visibility \in Visibility
  BY <1>1 DEF WorkRow
<1>3. \A n \in 1..Len(revisions[w]) : revisions[w][n] \in RevisionRow
  BY <1>1
<1> QED  BY <1>1, <1>2, <1>3 DEF RevisionRow

(* One work is written and its revisions are at most disposed of anew.       *)
Decided(w, row, revs) ==
    /\ row \in WorkRow /\ Redisposed(revisions[w], revs)
    /\ row.state = works[w].state /\ row.author = works[w].author /\ row.public <= row.author
    /\ works' = [works EXCEPT ![w] = row]
    /\ revisions' = [revisions EXCEPT ![w] = revs]
    /\ UNCHANGED <<holders, snapshots, items, receipts, policy>>

LEMMA DecidedTypes ==
    ASSUME TypeOK, NEW w \in Works, NEW row, NEW revs, Decided(w, row, revs),
           page' \in PageRow \cup {Null}, changes' \in [Works -> Nat]
    PROVE  TypeOK'
<1> USE DEF Decided
<1>1. revs \in Seq(RevisionRow) /\ Len(revs) = Len(revisions[w])
  BY DEF Redisposed
<1>2. works' \in [Works -> WorkRow] /\ revisions' \in [Works -> Seq(RevisionRow)]
  BY <1>1 DEF TypeOK
<1>3. \A v \in Works : works'[v].author = Len(revisions'[v]) /\ works'[v].public <= works'[v].author
  BY <1>1 DEF TypeOK
<1> QED  BY <1>2, <1>3 DEF TypeOK

LEMMA DecidedSame ==
    ASSUME TypeOK, NEW w \in Works, NEW row, NEW revs, Decided(w, row, revs), NEW v \in Works
    PROVE  /\ works'[v].state = works[v].state /\ works'[v].author = works[v].author
           /\ DOMAIN revisions'[v] = DOMAIN revisions[v]
           /\ revisions[v] = <<>> => revisions'[v] = <<>>
           /\ \A n \in DOMAIN revisions[v] :
                /\ revisions'[v][n].content = revisions[v][n].content
                /\ revisions'[v][n].base = revisions[v][n].base
                /\ revisions'[v][n].request = revisions[v][n].request
           /\ v # w => works'[v] = works[v] /\ revisions'[v] = revisions[v]
           /\ works'[w] = row /\ revisions'[w] = revs
<1>1. DOMAIN works = Works /\ DOMAIN revisions = Works
  BY DEF TypeOK
<1>2. revs \in Seq(RevisionRow) /\ Len(revs) = Len(revisions[w])
      /\ DOMAIN revs = 1..Len(revs) /\ DOMAIN revisions[w] = 1..Len(revisions[w])
  BY Rows DEF Decided, Redisposed
<1>3. /\ works'[w] = row /\ revisions'[w] = revs
      /\ v # w => works'[v] = works[v] /\ revisions'[v] = revisions[v]
  BY <1>1 DEF Decided
<1>4. CASE v = w
  <2>1. revisions[v] = <<>> => revs = <<>>
    BY <1>2, <1>4
  <2> QED  BY <1>2, <1>3, <1>4, <2>1 DEF Decided, Redisposed
<1> QED  BY <1>3, <1>4

(* What a decision cannot disturb. *)
LEMMA DecidedKeeps ==
    ASSUME IInv, NEW w \in Works, NEW row, NEW revs, Decided(w, row, revs)
    PROVE  /\ Begun' /\ DraftsAreFilled' /\ Spent' /\ ReceiptsAreTrue'
           /\ SubmittedOnce' /\ StoredInputIsKept' /\ NoEditIsOverwritten'
           /\ MediaStaysWithItsWork'
<1> USE DEF IInv
<1>1. Begun' /\ DraftsAreFilled' /\ Spent'
  BY DecidedSame DEF Begun, DraftsAreFilled, Spent, Decided
<1>2. UNCHANGED <<holders, snapshots, items, receipts>>
  BY DEF Decided
<1>3. SubmittedOnce'
  <2>1. \A v \in Works : \A n \in DOMAIN revisions'[v] :
          LET receipt == receipts[revisions[v][n].request]
          IN receipt # Null /\ receipt.work = v /\ receipt.revision = n
    BY DecidedSame DEF SubmittedOnce
  <2>2. \A r \in Requests : receipts[r] # Null => receipts[r].work \in Works
    BY DEF TypeOK, ReceiptRow
  <2> QED  BY <1>2, <2>1, <2>2, DecidedSame DEF SubmittedOnce
<1>4. StoredInputIsKept'
  <2>1. \A h \in Drafts : holders[h].state = "submitted" => holders[h].work \in Works
    BY DEF DraftsAreFilled
  <2> QED  BY <1>2, <2>1, DecidedSame DEF StoredInputIsKept
<1>5. NoEditIsOverwritten'
  BY DecidedSame DEF NoEditIsOverwritten
<1>6. MediaStaysWithItsWork'
  BY <1>2, DecidedSame DEF MediaStaysWithItsWork
<1>7. ReceiptsAreTrue'
  <2> SUFFICES ASSUME NEW r \in Requests, receipts[r] # Null
               PROVE  LET receipt == receipts[r]
                      IN /\ receipt.command.request = r
                         /\ works'[receipt.work].state # "deleted" =>
                              revisions'[receipt.work][receipt.revision].content
                                = receipt.command.content
    BY <1>2 DEF ReceiptsAreTrue
  <2> DEFINE v == receipts[r].work  n == receipts[r].revision
  <2>1. v \in Works
    BY DEF TypeOK, ReceiptRow
  <2>2. works[v].state = "deleted" \/ n \in DOMAIN revisions[v]
    BY DEF SubmittedOnce
  <2> QED  BY <2>1, <2>2, DecidedSame DEF ReceiptsAreTrue
<1> QED  BY <1>1, <1>3, <1>4, <1>5, <1>6, <1>7

(* PublicAndPendingAreCurrent of one work. *)
Current(row, revs) ==
    /\ row.public # 0 => revs[row.public].disposition = "approved"
    /\ \A n \in DOMAIN revs :
          /\ revs[n].disposition = "approved" /\ row.public # 0 => n <= row.public
          /\ revs[n].disposition = "pending" => n = row.author /\ row.visibility = "public"

LEMMA CurrentWorks == PublicAndPendingAreCurrent <=> \A w \in Works : Current(works[w], revisions[w])
  BY DEF PublicAndPendingAreCurrent, Current

LEMMA DecidedCurrent ==
    ASSUME IInv, NEW w \in Works, NEW row, NEW revs, Decided(w, row, revs), Current(row, revs)
    PROVE  PublicAndPendingAreCurrent'
<1>1. \A v \in Works : Current(works[v], revisions[v])'
  BY DecidedSame, CurrentWorks DEF IInv
<1> QED  BY <1>1 DEF PublicAndPendingAreCurrent, Current

(* A change of the author shows in every version a moderator may have read.   *)
ChangeShows(w, row, revs) ==
    \/ changes'[w] = changes[w]
    \/ /\ row.version > works[w].version
       /\ \A n \in 1..Len(revisions[w]) :
            revisions[w][n].disposition = "pending" => revs[n].version > revisions[w][n].version

LEMMA DecidedPage ==
    ASSUME IInv, NEW w \in Works, NEW row, NEW revs, Decided(w, row, revs),
           page' = page, changes' \in [Works -> Nat],
           \A v \in Works : v # w => changes'[v] = changes[v],
           row.version >= works[w].version, ChangeShows(w, row, revs)
    PROVE  PageIsOld'
<1> SUFFICES ASSUME page # Null
             PROVE  (IF page.revision = 0 THEN WorkPage(page.work)
                     ELSE SubmissionPage(page.work, page.revision))'
  <2>1. page # Null => page.work \in Works /\ works'[page.work].state = works[page.work].state
    BY DecidedSame DEF IInv, TypeOK, PageRow
  <2> QED  BY <2>1 DEF PageIsOld, IInv
<1> DEFINE v == page.work  n == page.revision
<1>1. /\ page \in PageRow /\ v \in Works /\ n \in Nat
      /\ page.version \in Nat
  BY DEF IInv, TypeOK, PageRow
<1>2. CASE v # w
  <2>1. works'[v] = works[v] /\ revisions'[v] = revisions[v] /\ changes'[v] = changes[v]
    BY <1>1, <1>2, DecidedSame DEF IInv
  <2> QED  BY <2>1 DEF IInv, PageIsOld, WorkPage, SubmissionPage, Live
<1>3. CASE v = w /\ n = 0
  <2>0. TypeOK /\ works[w].version \in Nat
    BY Rows DEF IInv
  <2>1. works'[w] = row /\ row.version \in Nat /\ works[w].version \in Nat
    <3>1. works' = [works EXCEPT ![w] = row] /\ row.version \in Nat
      BY DEF Decided, WorkRow
    <3> QED  BY <2>0, <3>1 DEF TypeOK
  <2>2. WorkPage(v)
    BY <1>3 DEF IInv, PageIsOld
  <2>3. WorkPage(v)'
    BY <1>1, <1>3, <2>1, <2>2 DEF WorkPage, ChangeShows
  <2> QED  BY <1>3, <2>3
<1>4. CASE v = w /\ n # 0
  <2> SUFFICES ASSUME Live(v)'  PROVE SubmissionPage(v, n)'
    BY <1>4 DEF SubmissionPage
  <2>1. /\ works'[w].state = works[w].state /\ works'[w].author = works[w].author
        /\ revisions'[w] = revs
    BY <1>1, DecidedSame DEF IInv
  <2>2. Live(v) /\ SubmissionPage(v, n)
    BY <1>4, <2>1 DEF Live, IInv, PageIsOld
  <2>3. n \in 1..Len(revisions[w])
    BY <1>1, <1>4, <2>2, Rows DEF IInv, SubmissionPage
  <2>4. revisions[w][n].version \in Nat /\ revs[n].version \in Nat
    <3>1. revs[n] \in RevisionRow
      BY <2>3 DEF Decided, Redisposed
    <3> QED  BY <2>3, <3>1, Rows DEF IInv, RevisionRow
  <2>5. revs[n] = revisions[w][n] \/ revs[n].version > revisions[w][n].version
    BY <2>3 DEF Decided, Redisposed
  <2> QED  BY <1>1, <1>4, <2>1, <2>2, <2>3, <2>4, <2>5 DEF SubmissionPage, Live, ChangeShows
<1> QED  BY <1>1, <1>2, <1>3, <1>4

LEMMA DecidedInv ==
    ASSUME IInv, NEW w \in Works, NEW row, NEW revs, Decided(w, row, revs), Current(row, revs),
           page' \in PageRow \cup {Null}, changes' \in [Works -> Nat], PageIsOld'
    PROVE  IInv'
<1>1. TypeOK'
  BY DecidedTypes DEF IInv
<1>2. PublicAndPendingAreCurrent'
  BY DecidedCurrent
<1> QED  BY <1>1, <1>2, DecidedKeeps DEF IInv

(* The rows that the commands write. *)
LEMMA TouchedRow ==
    ASSUME NEW row \in WorkRow
    PROVE  /\ Touch(row) \in WorkRow /\ Touch(row).version = row.version + 1
           /\ Touch(row).state = row.state /\ Touch(row).author = row.author
           /\ Touch(row).public = row.public /\ Touch(row).visibility = row.visibility
  BY DEF Touch, WorkRow

LEMMA VisibleRow ==
    ASSUME NEW row \in WorkRow, NEW visibility \in Visibility
    PROVE  LET new == [row EXCEPT !.visibility = visibility]
           IN /\ new \in WorkRow /\ new.version = row.version
              /\ new.state = row.state /\ new.author = row.author
              /\ new.public = row.public /\ new.visibility = visibility
  BY DEF WorkRow

LEMMA WithheldRow ==
    ASSUME NEW row \in WorkRow
    PROVE  /\ Withhold(row) \in WorkRow /\ Withhold(row).version = row.version
           /\ Withhold(row).state = row.state /\ Withhold(row).author = row.author
           /\ Withhold(row).public = 0 /\ Withhold(row).visibility = row.visibility
  BY DEF Withhold, WorkRow

LEMMA ModeratedRow ==
    ASSUME NEW row \in WorkRow, NEW state \in OperatorState
    PROVE  LET new == [row EXCEPT !.operator = state]
           IN /\ new \in WorkRow /\ new.version = row.version
              /\ new.state = row.state /\ new.author = row.author
              /\ new.public = row.public /\ new.visibility = row.visibility
  BY DEF WorkRow

LEMMA PublicRow ==
    ASSUME NEW row \in WorkRow, NEW revs, NEW n \in Nat
    PROVE  LET new == ApplyPublic(row, revs, n)
           IN /\ new \in WorkRow /\ new.version = row.version
              /\ new.state = row.state /\ new.author = row.author
              /\ new.public = n /\ new.visibility = "public"
<1> DEFINE shown == [row EXCEPT !.public = n]
           visible == [shown EXCEPT !.visibility = "public"]
           edited == IF revs[n].content = ComparedWith(row, revs, n) THEN row.edited
                     ELSE row.edited + 1
<1>1. /\ shown \in WorkRow /\ shown.version = row.version /\ shown.state = row.state
      /\ shown.author = row.author /\ shown.public = n
  BY DEF WorkRow
<1>2. /\ visible \in WorkRow /\ visible.version = row.version /\ visible.state = row.state
      /\ visible.author = row.author /\ visible.public = n /\ visible.visibility = "public"
  <2> HIDE DEF shown
  <2> QED  BY <1>1 DEF WorkRow, Visibility
<1>3. edited \in Nat
  BY DEF WorkRow
<1>4. ApplyPublic(row, revs, n) = [visible EXCEPT !.edited = edited]
  BY DEF ApplyPublic, WorkRow
<1> HIDE DEF edited, visible
<1> QED  BY <1>2, <1>3, <1>4 DEF WorkRow

-----------------------------------------------------------------------------
(* The commands that write one work. *)

LEMMA HideWorkKeeps ==
    ASSUME IInv, NEW w \in Works, HideWork(w)
    PROVE  IInv'
<1> DEFINE revs == ClosePending(revisions[w], "withdrawn", 0)
           hidden == [works[w] EXCEPT !.visibility = "self"]
           row == IF works[w].visibility = "self" THEN works[w] ELSE Touch(hidden)
<1>1. works[w] \in WorkRow /\ revisions[w] \in Seq(RevisionRow) /\ works[w].version \in Nat
      /\ works[w].public <= works[w].author
  BY Rows DEF IInv
<1>2. "withdrawn" \in Disposition /\ "self" \in Visibility
  BY DEF Disposition, Visibility
<1>3. /\ Redisposed(revisions[w], revs)
      /\ \A n \in 1..Len(revisions[w]) :
            revs[n].disposition = IF revisions[w][n].disposition = "pending" /\ n # 0
                                  THEN "withdrawn" ELSE revisions[w][n].disposition
  BY <1>1, <1>2, ClosingRedisposes
<1>4. /\ hidden \in WorkRow /\ hidden.version = works[w].version
      /\ hidden.state = works[w].state /\ hidden.author = works[w].author
      /\ hidden.public = works[w].public /\ hidden.visibility = "self"
  BY <1>1, <1>2, VisibleRow
<1>5. /\ row \in WorkRow /\ row.state = works[w].state /\ row.author = works[w].author
      /\ row.public = works[w].public /\ row.visibility = "self"
      /\ row.version = IF works[w].visibility = "self" THEN works[w].version
                       ELSE works[w].version + 1
  <2> HIDE DEF hidden
  <2> QED  BY <1>1, <1>4, TouchedRow
<1>6. works' = [works EXCEPT ![w] = row]
  BY DEF HideWork, IInv, TypeOK
<1>7. Decided(w, row, revs)
  <2>1. revisions' = [revisions EXCEPT ![w] = revs]
    BY DEF HideWork, IInv, TypeOK
  <2> HIDE DEF row, revs
  <2> QED  BY <1>1, <1>3, <1>5, <1>6, <2>1 DEF Decided, HideWork
<1> HIDE DEF row, revs, hidden
<1>8. Current(row, revs)
  <2>1. Current(works[w], revisions[w])
    BY CurrentWorks DEF IInv
  <2>2. DOMAIN revs = DOMAIN revisions[w] /\ DOMAIN revs = 1..Len(revisions[w])
    BY <1>3, Rows DEF IInv, Redisposed
  <2>3. works[w].public \in Nat /\ works[w].author = Len(revisions[w]) /\ works[w].author \in Nat
    BY Rows DEF IInv
  <2> QED  BY <1>1, <1>3, <1>5, <2>1, <2>2, <2>3 DEF Current
<1>9. /\ changes' \in [Works -> Nat] /\ page' = page
      /\ \A v \in Works : v # w => changes'[v] = changes[v]
      /\ works[w].visibility = "self" => changes' = changes
  <2>1. changes \in [Works -> Nat]
    BY DEF IInv, TypeOK
  <2>2. changes' = IF works[w].visibility = "self" THEN changes
                   ELSE [changes EXCEPT ![w] = @ + 1]
    BY DEF HideWork
  <2>3. page' = page
    BY DEF HideWork
  <2> QED  BY <2>1, <2>2, <2>3
<1>10. \A n \in 1..Len(revisions[w]) :
         revisions[w][n].disposition = "pending" => revs[n].version > revisions[w][n].version
  BY <1>3 DEF Redisposed
<1>11. PageIsOld'
  <2>1. row.version >= works[w].version
    BY <1>1, <1>5
  <2>2. CASE works[w].visibility = "self"
    <3>1. ChangeShows(w, row, revs)
      BY <1>9, <2>2 DEF ChangeShows
    <3> QED  BY <1>7, <1>9, <2>1, <3>1, DecidedPage
  <2>3. CASE works[w].visibility # "self"
    <3>1. row.version > works[w].version
      BY <1>1, <1>5, <2>3
    <3>2. ChangeShows(w, row, revs)
      BY <1>10, <3>1 DEF ChangeShows
    <3> QED  BY <1>7, <1>9, <2>1, <3>2, DecidedPage
  <2> QED  BY <2>2, <2>3
<1> QED  BY <1>7, <1>8, <1>9, <1>11, DecidedInv DEF IInv, TypeOK

LEMMA PublishWorkKeeps ==
    ASSUME IInv, NEW w \in Works, PublishWork(w)
    PROVE  IInv'
<1> DEFINE n == works[w].author
           closed == ClosePending(revisions[w], "superseded", n)
           revs == IF policy = "direct" THEN Disposed(closed, n, "approved")
                   ELSE Reopened(closed, n)
           public == [works[w] EXCEPT !.visibility = "public"]
           shown == IF policy = "direct" THEN ApplyPublic(works[w], revs, n) ELSE Withhold(public)
           row == Touch(shown)
<1>1. /\ works[w] \in WorkRow /\ revisions[w] \in Seq(RevisionRow)
      /\ works[w].version \in Nat /\ n \in 1..Len(revisions[w]) /\ n \in Nat
      /\ Len(revisions[w]) = n
  BY Rows DEF IInv, PublishWork
<1>2. /\ {"superseded", "approved", "pending"} \subseteq Disposition
      /\ "public" \in Visibility
  BY DEF Disposition, Visibility
<1>3. \A m \in 1..Len(revisions[w]) : revisions[w][m].disposition # "pending"
  BY CurrentWorks, Rows DEF IInv, PublishWork, Current
<1>4. /\ Redisposed(revisions[w], closed)
      /\ \A m \in 1..Len(revisions[w]) : closed[m] = revisions[w][m]
  BY <1>1, <1>2, <1>3, ClosingRedisposes
<1>5. closed \in Seq(RevisionRow) /\ Len(closed) = n
  BY <1>1, <1>4 DEF Redisposed
<1>6. /\ Redisposed(closed, revs)
      /\ \A m \in 1..n : m # n => revs[m] = closed[m]
      /\ revs[n].disposition = IF policy = "direct" THEN "approved" ELSE "pending"
  <2> HIDE DEF closed
  <2>1. CASE policy = "direct"
    BY <1>1, <1>2, <1>5, <2>1, DisposedRedisposes
  <2>2. CASE policy # "direct" /\ closed[n].disposition = "pending"
    BY <1>1, <1>5, <2>2, RedisposedSelf DEF Reopened
  <2>3. CASE policy # "direct" /\ closed[n].disposition # "pending"
    BY <1>1, <1>2, <1>5, <2>3, DisposedRedisposes DEF Reopened
  <2> QED  BY <2>1, <2>2, <2>3
<1>7. Redisposed(revisions[w], revs)
  <2> HIDE DEF closed, revs
  <2> QED  BY <1>1, <1>4, <1>6, RedisposedTwice
<1>8. /\ public \in WorkRow /\ public.version = works[w].version
      /\ public.state = works[w].state /\ public.author = works[w].author
      /\ public.visibility = "public"
  BY <1>1, <1>2, VisibleRow
<1>9. /\ shown \in WorkRow /\ shown.version = works[w].version
      /\ shown.state = works[w].state /\ shown.author = works[w].author
      /\ shown.visibility = "public"
      /\ shown.public = IF policy = "direct" THEN n ELSE 0
  <2> HIDE DEF revs, public
  <2> QED  BY <1>1, <1>8, PublicRow, WithheldRow
<1>10. /\ row \in WorkRow /\ row.version = works[w].version + 1
       /\ row.state = works[w].state /\ row.author = works[w].author
       /\ row.visibility = "public"
       /\ row.public = IF policy = "direct" THEN n ELSE 0
  <2> HIDE DEF shown
  <2> QED  BY <1>1, <1>9, TouchedRow
<1>11. revisions' = [revisions EXCEPT ![w] = revs]
  BY DEF PublishWork
<1>12. revisions'[w] = revs
  BY <1>11 DEF IInv, TypeOK
<1>13. works' = [works EXCEPT ![w] = row]
  <2> HIDE DEF revs
  <2>1. CASE policy = "direct"
    BY <1>12, <2>1 DEF PublishWork
  <2>2. CASE policy # "direct"
    BY <2>2 DEF PublishWork
  <2> QED  BY <2>1, <2>2
<1>14. UNCHANGED <<holders, snapshots, items, receipts, policy, page>>
  BY DEF PublishWork
<1>15. Decided(w, row, revs)
  <2> HIDE DEF row, revs
  <2> QED  BY <1>1, <1>7, <1>10, <1>11, <1>13, <1>14 DEF Decided
<1>16. Current(row, revs)
  <2> HIDE DEF row, revs, closed
  <2>1. DOMAIN revs = 1..n
    BY <1>1, <1>7 DEF Redisposed
  <2> QED  BY <1>1, <1>3, <1>4, <1>6, <1>10, <2>1 DEF Current
<1>17. /\ changes' \in [Works -> Nat]
       /\ \A v \in Works : v # w => changes'[v] = changes[v]
  <2>1. changes \in [Works -> Nat] /\ changes' = [changes EXCEPT ![w] = @ + 1]
    BY DEF IInv, TypeOK, PublishWork
  <2> QED  BY <2>1
<1>18. PageIsOld'
  <2> HIDE DEF row, revs
  <2>1. row.version >= works[w].version /\ row.version > works[w].version
    BY <1>1, <1>10
  <2>2. ChangeShows(w, row, revs)
    BY <1>3, <2>1 DEF ChangeShows
  <2> QED  BY <1>14, <1>15, <1>17, <2>1, <2>2, DecidedPage
<1>19. page' \in PageRow \cup {Null}
  BY <1>14 DEF IInv, TypeOK
<1> HIDE DEF row, revs
<1> QED  BY <1>15, <1>16, <1>17, <1>18, <1>19, DecidedInv

(* The moderator's page is gone after the decision. *)
LEMMA DecisionKeeps ==
    ASSUME IInv, NEW w \in Works, NEW row, NEW revs, Decided(w, row, revs), Current(row, revs),
           page' = Null, changes' = changes
    PROVE  IInv'
  BY DecidedInv DEF IInv, TypeOK, PageIsOld

LEMMA DecidedOn ==
    ASSUME IInv, page # Null, page.revision # 0,
           Decidable(page.work, page.revision, page.version)
    PROVE  /\ page.work \in Works /\ page.revision = works[page.work].author
           /\ page.revision \in 1..Len(revisions[page.work])
           /\ changes[page.work] = page.changes
<1>1. page \in PageRow
  BY DEF IInv, TypeOK
<1>2. page.work \in Works /\ SubmissionPage(page.work, page.revision)
  BY <1>1 DEF IInv, PageIsOld, PageRow
<1>3. page.revision \in 1..Len(revisions[page.work])
  BY <1>2, Rows DEF Decidable, IInv
<1> QED  BY <1>2, <1>3 DEF SubmissionPage, Decidable

LEMMA ApproveKeeps ==
    ASSUME IInv, Approve
    PROVE  IInv'
<1> DEFINE w == page.work  n == page.revision
           revs == Disposed(revisions[w], n, "approved")
           shown == ApplyPublic(works[w], revs, n)
           row == Touch(shown)
<1>1. w \in Works /\ n = works[w].author /\ n \in 1..Len(revisions[w])
  BY DecidedOn DEF Approve
<1>2. /\ works[w] \in WorkRow /\ revisions[w] \in Seq(RevisionRow) /\ n \in Nat
      /\ Len(revisions[w]) = n
  BY <1>1, Rows DEF IInv
<1>3. "approved" \in Disposition
  BY DEF Disposition
<1>4. /\ Redisposed(revisions[w], revs)
      /\ revs[n].disposition = "approved"
      /\ \A m \in 1..n : m # n => revs[m] = revisions[w][m]
  BY <1>1, <1>2, <1>3, DisposedRedisposes
<1>5. /\ row \in WorkRow /\ row.state = works[w].state /\ row.author = works[w].author
      /\ row.public = n /\ row.visibility = "public"
  <2>1. /\ shown \in WorkRow /\ shown.state = works[w].state /\ shown.author = works[w].author
        /\ shown.public = n /\ shown.visibility = "public"
    <3> HIDE DEF revs
    <3> QED  BY <1>2, PublicRow
  <2> HIDE DEF shown
  <2> QED  BY <2>1, TouchedRow
<1>6. revisions' = [revisions EXCEPT ![w] = revs]
  BY DEF Approve
<1>7. revisions'[w] = revs
  BY <1>1, <1>6 DEF IInv, TypeOK
<1>8. works' = [works EXCEPT ![w] = row]
  <2> HIDE DEF revs
  <2> QED  BY <1>7 DEF Approve
<1>9. UNCHANGED <<holders, snapshots, items, receipts, policy, changes>> /\ page' = Null
  BY DEF Approve
<1> HIDE DEF row, revs
<1>10. Decided(w, row, revs)
  BY <1>1, <1>2, <1>4, <1>5, <1>6, <1>8, <1>9 DEF Decided
<1>11. Current(row, revs)
  <2>1. DOMAIN revs = 1..n
    BY <1>2, <1>4 DEF Redisposed
  <2>2. \A m \in 1..n : revisions[w][m].disposition = "pending" => m = n
    BY <1>1, <1>2, CurrentWorks, Rows DEF IInv, Current
  <2> QED  BY <1>1, <1>2, <1>4, <1>5, <2>1, <2>2 DEF Current
<1> QED  BY <1>1, <1>9, <1>10, <1>11, DecisionKeeps

LEMMA RejectKeeps ==
    ASSUME IInv, Reject
    PROVE  IInv'
<1> DEFINE w == page.work  n == page.revision
           revs == Disposed(revisions[w], n, "rejected")
<1>1. w \in Works /\ n = works[w].author /\ n \in 1..Len(revisions[w])
  BY DecidedOn DEF Reject
<1>2. /\ works[w] \in WorkRow /\ revisions[w] \in Seq(RevisionRow) /\ n \in Nat
      /\ Len(revisions[w]) = n /\ works[w].public \in Nat /\ works[w].public <= n
  BY <1>1, Rows DEF IInv
<1>3. "rejected" \in Disposition
  BY DEF Disposition
<1>4. /\ Redisposed(revisions[w], revs)
      /\ revs[n].disposition = "rejected"
      /\ \A m \in 1..n : m # n => revs[m] = revisions[w][m]
  BY <1>1, <1>2, <1>3, DisposedRedisposes
<1>5. /\ works' = [works EXCEPT ![w] = works[w]]
      /\ revisions' = [revisions EXCEPT ![w] = revs]
      /\ UNCHANGED <<holders, snapshots, items, receipts, policy, changes>> /\ page' = Null
  BY <1>1 DEF Reject, IInv, TypeOK
<1>6. revisions[w][n].disposition = "pending"
  BY DEF Reject, Decidable
<1> HIDE DEF revs
<1>7. Decided(w, works[w], revs)
  BY <1>1, <1>2, <1>4, <1>5 DEF Decided
<1>8. Current(works[w], revs)
  <2>1. DOMAIN revs = 1..n /\ DOMAIN revisions[w] = 1..n
    BY <1>1, <1>2, <1>4, Rows DEF Redisposed, IInv
  <2>2. Current(works[w], revisions[w])
    BY <1>1, CurrentWorks DEF IInv
  <2> QED  BY <1>2, <1>4, <1>6, <2>1, <2>2 DEF Current
<1> QED  BY <1>1, <1>5, <1>7, <1>8, DecisionKeeps

LEMMA ModerateWorkKeeps ==
    ASSUME IInv, NEW state \in OperatorState, ModerateWork(state)
    PROVE  IInv'
<1> DEFINE w == page.work
           marked == [works[w] EXCEPT !.operator = state]
           row == Touch(marked)
<1>1. w \in Works
  BY DEF ModerateWork, IInv, TypeOK, PageRow
<1>2. works[w] \in WorkRow /\ works[w].public <= works[w].author /\ revisions[w] \in Seq(RevisionRow)
  BY <1>1, Rows DEF IInv
<1>3. /\ row \in WorkRow /\ row.state = works[w].state /\ row.author = works[w].author
      /\ row.public = works[w].public /\ row.visibility = works[w].visibility
  <2>1. /\ marked \in WorkRow /\ marked.state = works[w].state
        /\ marked.author = works[w].author /\ marked.public = works[w].public
        /\ marked.visibility = works[w].visibility
    BY <1>2, ModeratedRow
  <2> HIDE DEF marked
  <2> QED  BY <2>1, TouchedRow
<1>4. /\ works' = [works EXCEPT ![w] = row]
      /\ UNCHANGED <<holders, snapshots, items, receipts, policy, changes>> /\ page' = Null
  BY DEF ModerateWork
<1>5. revisions' = [revisions EXCEPT ![w] = revisions[w]]
  BY <1>1 DEF ModerateWork, IInv, TypeOK
<1> HIDE DEF row
<1>6. Decided(w, row, revisions[w])
  BY <1>2, <1>3, <1>4, <1>5, RedisposedSelf DEF Decided
<1>7. Current(row, revisions[w])
  BY <1>1, <1>3, CurrentWorks DEF Current, IInv
<1> QED  BY <1>1, <1>4, <1>6, <1>7, DecisionKeeps

-----------------------------------------------------------------------------
(* The steps of holders and items, and of the policy. *)

(* A draft or session lives on, ends, or begins on a work that is not gone.  *)
HolderKept(h) ==
    /\ holders'[h].work = holders[h].work
    /\ holders[h].state = "active" => holders'[h].state \in {"active", "ended"}
    /\ holders[h].state # "active" => /\ holders'[h].state = holders[h].state
                                      /\ holders'[h].content = holders[h].content
                                      /\ holders'[h].held \subseteq holders[h].held

HolderBegun(h) ==
    /\ holders[h].state = "none" /\ holders'[h].state = "active"
    /\ \/ holders'[h].work = Null
       \/ holders'[h].work \in Works /\ Live(holders'[h].work)

HoldersMoved ==
    /\ holders' \in [Holders -> HolderRow]
    /\ \A h \in Holders : HolderKept(h) \/ HolderBegun(h)
    /\ \A h \in Drafts : holders'[h].state = "active" => holders'[h].content \in Contents

(* No item that a revision names is taken away. *)
ItemsMoved ==
    /\ items' \in [Items -> {"new", "uploading", "ready", "gone"}]
    /\ \A w \in Works : \A n \in DOMAIN revisions[w] :
          \A i \in ItemsOf[revisions[w][n].content] : items[i] = "ready" => items'[i] = "ready"

LEMMA RevisionItems ==
    ASSUME TypeOK, NEW w \in Works, NEW n \in DOMAIN revisions[w],
           NEW i \in ItemsOf[revisions[w][n].content]
    PROVE  i \in Items
  BY Rows, WorksAssumption

LEMMA MovesKeep ==
    ASSUME IInv, HoldersMoved, ItemsMoved, policy' \in {"direct", "review"},
           UNCHANGED <<works, revisions, snapshots, receipts, page, changes>>
    PROVE  IInv'
<1> USE DEF IInv
<1>1. TypeOK'
  BY DEF TypeOK, HoldersMoved, ItemsMoved
<1>2. /\ Begun' /\ PageIsOld' /\ PublicAndPendingAreCurrent' /\ SubmittedOnce'
      /\ NoEditIsOverwritten' /\ ReceiptsAreTrue'
  BY DEF Begun, PageIsOld, WorkPage, SubmissionPage, Live, PublicAndPendingAreCurrent,
         SubmittedOnce, NoEditIsOverwritten, ReceiptsAreTrue
<1>3. \A h \in Holders : holders'[h].state = "submitted" =>
        /\ holders[h].state = "submitted"
        /\ holders'[h].work = holders[h].work /\ holders'[h].content = holders[h].content
  BY DEF HoldersMoved, HolderKept, HolderBegun
<1>4. DraftsAreFilled'
  BY <1>3 DEF DraftsAreFilled, HoldersMoved, Holders
<1>5. Spent'
  <2>1. \A r \in Requests : receipts[r] # Null => receipts[r].command.holder \in Holders
    BY DEF TypeOK, ReceiptRow, Command
  <2> QED  BY <2>1 DEF Spent, HoldersMoved, HolderKept, HolderBegun
<1>6. StoredInputIsKept'
  BY <1>3 DEF StoredInputIsKept, Holders
<1>7. MediaStaysWithItsWork'
  <2>1. \A w \in Works : \A h \in Holders :
           works[w].state = "deleted" /\ holders'[h].work = w =>
             h \in Sessions /\ holders'[h].state # "active" /\ holders'[h].held = {}
    <3> SUFFICES ASSUME NEW w \in Works, NEW h \in Holders, works[w].state = "deleted",
                        holders'[h].work = w
                 PROVE  h \in Sessions /\ holders'[h].state # "active" /\ holders'[h].held = {}
      OBVIOUS
    <3>1. HolderKept(h)
      BY WorksAssumption DEF HoldersMoved, HolderBegun, Live
    <3>2. holders[h].work = w
      BY <3>1 DEF HolderKept
    <3>3. h \in Sessions /\ holders[h].state # "active" /\ holders[h].held = {}
      BY <3>2 DEF MediaStaysWithItsWork
    <3> QED  BY <3>1, <3>3 DEF HolderKept
  <2> QED  BY <2>1 DEF MediaStaysWithItsWork, ItemsMoved
<1> QED  BY <1>1, <1>2, <1>4, <1>5, <1>6, <1>7

(* The rows of holders. *)
LEMMA HolderRows ==
    ASSUME TypeOK, NEW h \in Holders
    PROVE  /\ holders[h] \in HolderRow /\ holders[h].held \subseteq Items
           /\ holders[h].work \in Works \cup {Null}
           /\ DOMAIN holders = Holders
  BY DEF TypeOK, HolderRow

LEMMA AttachableItems ==
    ASSUME NEW content \in Contents
    PROVE  Attachable(content) \subseteq Items
  BY WorksAssumption DEF Attachable

LEMMA NewRow ==
    ASSUME NEW state \in {"none", "active", "submitted", "ended"}, NEW work \in Works \cup {Null}
    PROVE  [NoHolder EXCEPT !.state = state, !.work = work] \in HolderRow
  BY DEF NoHolder, HolderRow

(* One holder is written. *)
LEMMA OneHolderMoves ==
    ASSUME IInv, NEW h \in Holders, NEW row \in HolderRow,
           holders' = [holders EXCEPT ![h] = row],
           row.state = "active" /\ h \in Drafts => row.content \in Contents,
           HolderKept(h) \/ HolderBegun(h)
    PROVE  HoldersMoved
<1>1. holders \in [Holders -> HolderRow]
  BY DEF IInv, TypeOK
<1>2. /\ holders' \in [Holders -> HolderRow] /\ holders'[h] = row
      /\ \A g \in Holders : g # h => holders'[g] = holders[g]
  BY <1>1
<1>3. \A g \in Holders : g # h => HolderKept(g)
  BY <1>2 DEF HolderKept
<1>4. \A g \in Drafts : holders'[g].state = "active" => holders'[g].content \in Contents
  BY <1>2 DEF IInv, DraftsAreFilled, Holders
<1> QED  BY <1>2, <1>3, <1>4 DEF HoldersMoved

LEMMA SameItems ==
    ASSUME IInv, items' = items
    PROVE  ItemsMoved
  BY DEF ItemsMoved, IInv, TypeOK

LEMMA CreateDraftKeeps ==
    ASSUME IInv, NEW h \in Holders, NEW content \in Contents, CreateDraft(h, content)
    PROVE  IInv'
<1> DEFINE row == [state |-> "active", work |-> Null, base |-> 0,
                   content |-> content, held |-> Attachable(content)]
<1>1. row \in HolderRow
  BY AttachableItems DEF HolderRow
<1>2. /\ holders' = [holders EXCEPT ![h] = row] /\ items' = items /\ policy' = policy
      /\ UNCHANGED <<works, revisions, snapshots, receipts, page, changes>>
      /\ holders[h].state = "none"
  BY DEF CreateDraft
<1>3. HolderBegun(h)
  BY <1>2, HolderRows DEF HolderBegun, IInv
<1>4. HoldersMoved
  BY <1>1, <1>2, <1>3, OneHolderMoves
<1> QED  BY <1>2, <1>4, MovesKeep, SameItems DEF IInv, TypeOK

LEMMA CreateSessionKeeps ==
    ASSUME IInv, NEW h \in Holders, NEW work \in Works \cup {Null}, CreateSession(h, work)
    PROVE  IInv'
<1> DEFINE row == [NoHolder EXCEPT !.state = "active", !.work = work]
<1>1. /\ row \in HolderRow /\ row.state = "active" /\ row.work = work
      /\ h \notin Drafts
  BY NewRow DEF NoHolder, CreateSession, IsDraft
<1>2. /\ holders' = [holders EXCEPT ![h] = row] /\ items' = items /\ policy' = policy
      /\ UNCHANGED <<works, revisions, snapshots, receipts, page, changes>>
      /\ holders[h].state = "none" /\ (work # Null => Live(work))
  BY DEF CreateSession, Editable
<1> HIDE DEF row
<1>3. HolderBegun(h)
  BY <1>1, <1>2, HolderRows DEF HolderBegun, IInv
<1>4. HoldersMoved
  BY <1>1, <1>2, <1>3, OneHolderMoves
<1> QED  BY <1>2, <1>4, MovesKeep, SameItems DEF IInv, TypeOK

LEMMA OpenEditDraftKeeps ==
    ASSUME IInv, NEW h \in Holders, NEW w \in Works, OpenEditDraft(h, w)
    PROVE  IInv'
<1> DEFINE content == revisions[w][works[w].author].content
           row == [state |-> "active", work |-> w, base |-> works[w].author,
                   content |-> content, held |-> Attachable(content)]
<1>1. content \in Contents /\ works[w].author \in Nat
  BY Rows DEF IInv, OpenEditDraft
<1>2. row \in HolderRow
  <2> HIDE DEF content
  <2> QED  BY <1>1, AttachableItems DEF HolderRow
<1>3. /\ holders' = [holders EXCEPT ![h] = row] /\ items' = items /\ policy' = policy
      /\ UNCHANGED <<works, revisions, snapshots, receipts, page, changes>>
      /\ holders[h].state = "none" /\ Live(w)
  BY DEF OpenEditDraft, Editable
<1>4. row.state = "active" /\ row.work = w /\ row.content = content
  OBVIOUS
<1> HIDE DEF row, content
<1>5. HolderBegun(h)
  BY <1>3, <1>4, HolderRows DEF HolderBegun, IInv
<1>6. HoldersMoved
  BY <1>1, <1>2, <1>3, <1>4, <1>5, OneHolderMoves
<1> QED  BY <1>3, <1>6, MovesKeep, SameItems DEF IInv, TypeOK

(* What saves, registrations and cancellations write into a row. *)
LEMMA HeldRow ==
    ASSUME NEW row \in HolderRow, NEW held \in SUBSET Items
    PROVE  LET new == [row EXCEPT !.held = held]
           IN /\ new \in HolderRow /\ new.held = held /\ new.state = row.state
              /\ new.work = row.work /\ new.content = row.content /\ new.base = row.base
  BY DEF HolderRow

LEMMA FilledRow ==
    ASSUME NEW row \in HolderRow, NEW content \in Contents
    PROVE  LET new == [row EXCEPT !.content = content]
           IN /\ new \in HolderRow /\ new.held = row.held /\ new.state = row.state
              /\ new.work = row.work /\ new.content = content
  BY DEF HolderRow

LEMMA StateRow ==
    ASSUME NEW row \in HolderRow, NEW state \in {"none", "active", "submitted", "ended"}
    PROVE  LET new == [row EXCEPT !.state = state]
           IN /\ new \in HolderRow /\ new.held = row.held /\ new.state = state
              /\ new.work = row.work /\ new.content = row.content
  BY DEF HolderRow

LEMMA SaveDraftKeeps ==
    ASSUME IInv, NEW h \in Holders, NEW content \in Contents, SaveDraft(h, content)
    PROVE  IInv'
<1> DEFINE filled == [holders[h] EXCEPT !.content = content]
           held == (holders[h].held \cup Attachable(content))
                      \ (ItemsOf[holders[h].content] \ ItemsOf[content])
           row == [filled EXCEPT !.held = held]
<1>1. /\ filled \in HolderRow /\ filled.held = holders[h].held
      /\ filled.state = holders[h].state /\ filled.work = holders[h].work
      /\ filled.content = content
  BY HolderRows, FilledRow DEF IInv
<1>2. held \in SUBSET Items
  BY HolderRows, AttachableItems DEF IInv
<1>3. holders' = [holders EXCEPT ![h] = row]
  BY <1>1 DEF SaveDraft
<1> HIDE DEF filled, held
<1>4. /\ row \in HolderRow /\ row.state = holders[h].state /\ row.work = holders[h].work
      /\ row.content = content
  BY <1>1, <1>2, HeldRow
<1>5. /\ items' = items /\ policy' = policy /\ holders[h].state = "active"
      /\ UNCHANGED <<works, revisions, snapshots, receipts, page, changes>>
  BY DEF SaveDraft
<1> HIDE DEF row
<1>6. HolderKept(h)
  BY <1>3, <1>4, <1>5, HolderRows DEF HolderKept, IInv
<1>7. HoldersMoved
  BY <1>3, <1>4, <1>6, OneHolderMoves
<1> QED  BY <1>5, <1>7, MovesKeep, SameItems DEF IInv, TypeOK

LEMMA RegisterItemKeeps ==
    ASSUME IInv, NEW h \in Holders, NEW i \in Items, RegisterItem(h, i)
    PROVE  IInv'
<1> DEFINE row == [holders[h] EXCEPT !.held = @ \cup {i}]
<1>1. /\ row \in HolderRow /\ row.state = holders[h].state /\ row.work = holders[h].work
      /\ row.content = holders[h].content
  BY HolderRows, HeldRow DEF IInv
<1>2. /\ holders' = [holders EXCEPT ![h] = row] /\ policy' = policy
      /\ items' = [items EXCEPT ![i] = "uploading"]
      /\ holders[h].state = "active" /\ items[i] = "new"
      /\ UNCHANGED <<works, revisions, snapshots, receipts, page, changes>>
  BY DEF RegisterItem
<1> HIDE DEF row
<1>3. HolderKept(h)
  BY <1>1, <1>2, HolderRows DEF HolderKept, IInv
<1>4. h \in Drafts => row.content \in Contents
  BY <1>1, <1>2 DEF IInv, DraftsAreFilled
<1>5. HoldersMoved
  BY <1>1, <1>2, <1>3, <1>4, OneHolderMoves
<1>6. ItemsMoved
  BY <1>2, RevisionItems DEF ItemsMoved, IInv, TypeOK
<1> QED  BY <1>2, <1>5, <1>6, MovesKeep DEF IInv, TypeOK

LEMMA SameHolders ==
    ASSUME IInv, holders' = holders
    PROVE  HoldersMoved
<1>1. \A h \in Holders : holders[h].state \in {"none", "active", "submitted", "ended"}
  BY DEF IInv, TypeOK, HolderRow
<1> QED  BY <1>1 DEF HoldersMoved, HolderKept, IInv, TypeOK, DraftsAreFilled

LEMMA SettleItemKeeps ==
    ASSUME IInv, NEW i \in Items, SettleItem(i)
    PROVE  IInv'
<1>1. /\ items' = [items EXCEPT ![i] = "ready"] /\ holders' = holders /\ policy' = policy
      /\ UNCHANGED <<works, revisions, snapshots, receipts, page, changes>>
  BY DEF SettleItem
<1>2. ItemsMoved
  BY <1>1, RevisionItems DEF ItemsMoved, IInv, TypeOK
<1> QED  BY <1>1, <1>2, MovesKeep, SameHolders DEF IInv, TypeOK

LEMMA CancelItemKeeps ==
    ASSUME IInv, NEW i \in Items, CancelItem(i)
    PROVE  IInv'
<1>1. /\ items' = [items EXCEPT ![i] = "gone"] /\ policy' = policy
      /\ holders' = [h \in Holders |-> [holders[h] EXCEPT !.held = @ \ {i}]]
      /\ items[i] = "uploading"
      /\ UNCHANGED <<works, revisions, snapshots, receipts, page, changes>>
  BY DEF CancelItem
<1>2. ItemsMoved
  BY <1>1, RevisionItems DEF ItemsMoved, IInv, TypeOK
<1>3. \A h \in Holders : /\ holders'[h] \in HolderRow
                         /\ holders'[h].state = holders[h].state
                         /\ holders'[h].work = holders[h].work
                         /\ holders'[h].content = holders[h].content
                         /\ holders'[h].held \subseteq holders[h].held
  <2> SUFFICES ASSUME NEW h \in Holders
               PROVE  /\ holders'[h] \in HolderRow
                      /\ holders'[h].state = holders[h].state
                      /\ holders'[h].work = holders[h].work
                      /\ holders'[h].content = holders[h].content
                      /\ holders'[h].held \subseteq holders[h].held
    OBVIOUS
  <2> DEFINE row == [holders[h] EXCEPT !.held = @ \ {i}]
  <2>1. /\ row \in HolderRow /\ row.held = holders[h].held \ {i}
        /\ row.state = holders[h].state
        /\ row.work = holders[h].work /\ row.content = holders[h].content
    BY HolderRows, HeldRow DEF IInv
  <2>2. holders'[h] = row
    BY <1>1
  <2> QED  BY <2>1, <2>2
<1>4. holders' \in [Holders -> HolderRow]
  BY <1>1, <1>3
<1>5. HoldersMoved
  BY <1>3, <1>4 DEF HoldersMoved, HolderKept, IInv, DraftsAreFilled, Holders
<1> QED  BY <1>1, <1>2, <1>5, MovesKeep DEF IInv, TypeOK

LEMMA Cancelled ==
    ASSUME TypeOK, NEW released, NEW hs, NEW rs, NEW ss
    PROVE  /\ CancelUnreferenced(released, hs, rs, ss)
                \in [Items -> {"new", "uploading", "ready", "gone"}]
           /\ \A w \in Works : \A n \in DOMAIN rs[w] : \A i \in ItemsOf[rs[w][n].content] :
                i \in Items => CancelUnreferenced(released, hs, rs, ss)[i] = items[i]
<1>1. items \in [Items -> {"new", "uploading", "ready", "gone"}]
  BY DEF TypeOK
<1> QED  BY <1>1 DEF CancelUnreferenced, Referenced

LEMMA EndHolderKeeps ==
    ASSUME IInv, NEW h \in Holders, EndHolder(h)
    PROVE  IInv'
<1> DEFINE over == [holders[h] EXCEPT !.state = "ended"]
           row == [over EXCEPT !.held = {}]
<1>1. /\ over \in HolderRow /\ over.state = "ended" /\ over.work = holders[h].work
      /\ over.content = holders[h].content
  BY HolderRows, StateRow DEF IInv
<1>2. /\ holders' = [holders EXCEPT ![h] = row] /\ policy' = policy
      /\ items' = CancelUnreferenced(holders[h].held, holders', revisions, snapshots)
      /\ holders[h].state = "active"
      /\ UNCHANGED <<works, revisions, snapshots, receipts, page, changes>>
  BY DEF EndHolder
<1> HIDE DEF over
<1>3. row \in HolderRow /\ row.state = "ended" /\ row.work = holders[h].work
  BY <1>1, HeldRow
<1> HIDE DEF row
<1>4. HolderKept(h)
  BY <1>2, <1>3, HolderRows DEF HolderKept, IInv
<1>5. HoldersMoved
  BY <1>2, <1>3, <1>4, OneHolderMoves
<1>6. ItemsMoved
  BY <1>2, Cancelled, RevisionItems DEF ItemsMoved, IInv
<1> QED  BY <1>2, <1>5, <1>6, MovesKeep DEF IInv, TypeOK

LEMMA SetPolicyKeeps ==
    ASSUME IInv, NEW next \in {"direct", "review"}, SetPolicy(next)
    PROVE  IInv'
  BY MovesKeep, SameHolders, SameItems DEF SetPolicy

(* A page shows the row of now. *)
LEMMA PageKeeps ==
    ASSUME IInv, page' \in PageRow \cup {Null}, PageIsOld',
           UNCHANGED <<works, revisions, holders, snapshots, items, receipts, policy, changes>>
    PROVE  IInv'
  BY DEF IInv, TypeOK, Begun, DraftsAreFilled, Spent, PublicAndPendingAreCurrent, SubmittedOnce,
         StoredInputIsKept, NoEditIsOverwritten, MediaStaysWithItsWork, ReceiptsAreTrue

LEMMA ReadSubmissionKeeps ==
    ASSUME IInv, NEW w \in Works, NEW n \in DOMAIN revisions[w], ReadSubmission(w, n)
    PROVE  IInv'
<1>1. /\ n \in Nat \ {0} /\ n <= works[w].author /\ revisions[w][n].version \in Nat
      /\ changes[w] \in Nat
  BY Rows DEF IInv
<1>2. page' = [work |-> w, revision |-> n, version |-> revisions[w][n].version,
               changes |-> changes[w]]
      /\ UNCHANGED <<works, revisions, holders, snapshots, items, receipts, policy, changes>>
      /\ revisions[w][n].disposition = "pending"
  BY DEF ReadSubmission
<1>3. page' \in PageRow
  BY <1>1, <1>2 DEF PageRow
<1>4. PageIsOld'
  BY <1>1, <1>2 DEF PageIsOld, SubmissionPage, IInv, Begun
<1> QED  BY <1>2, <1>3, <1>4, PageKeeps

LEMMA ReadWorkKeeps ==
    ASSUME IInv, NEW w \in Works, ReadWork(w)
    PROVE  IInv'
<1>1. works[w].version \in Nat /\ changes[w] \in Nat
  BY Rows DEF IInv
<1>2. page' = [work |-> w, revision |-> 0, version |-> works[w].version,
               changes |-> changes[w]]
      /\ UNCHANGED <<works, revisions, holders, snapshots, items, receipts, policy, changes>>
  BY DEF ReadWork
<1>3. page' \in PageRow
  BY <1>1, <1>2 DEF PageRow
<1>4. PageIsOld'
  BY <1>1, <1>2 DEF PageIsOld, WorkPage, ReadWork
<1> QED  BY <1>2, <1>3, <1>4, PageKeeps

-----------------------------------------------------------------------------
(* deleteWork. *)

LEMMA TombstoneRow ==
    ASSUME NEW row \in WorkRow
    PROVE  LET new == [row EXCEPT !.state = "deleted", !.public = 0,
                                  !.author = 0, !.visibility = "self"]
           IN /\ new \in WorkRow /\ new.state = "deleted" /\ new.author = 0
              /\ new.public = 0 /\ new.version = row.version
<1> DEFINE a == [row EXCEPT !.state = "deleted"]
           b == [a EXCEPT !.public = 0]
           c == [b EXCEPT !.author = 0]
           d == [c EXCEPT !.visibility = "self"]
<1>1. a \in WorkRow /\ a.state = "deleted" /\ a.version = row.version
  BY DEF WorkRow
<1>2. b \in WorkRow /\ b.state = "deleted" /\ b.version = row.version /\ b.public = 0
  <2> HIDE DEF a
  <2> QED  BY <1>1 DEF WorkRow
<1>3. /\ c \in WorkRow /\ c.state = "deleted" /\ c.version = row.version /\ c.public = 0
      /\ c.author = 0
  <2> HIDE DEF b
  <2> QED  BY <1>2 DEF WorkRow
<1>4. /\ d \in WorkRow /\ d.state = "deleted" /\ d.version = row.version /\ d.public = 0
      /\ d.author = 0
  <2> HIDE DEF c
  <2> QED  BY <1>3 DEF WorkRow, Visibility
<1>5. d = [row EXCEPT !.state = "deleted", !.public = 0, !.author = 0, !.visibility = "self"]
  OBVIOUS
<1> QED  BY <1>4, <1>5

(* What deleteWork does to a draft or session of the work. *)
EndedRow(h) == IF IsDraft(h) THEN [NoHolder EXCEPT !.state = "ended"]
               ELSE [holders[h] EXCEPT !.held = {}, !.state = IF @ = "active" THEN "ended" ELSE @]

LEMMA EndedRows ==
    ASSUME TypeOK, NEW h \in Holders
    PROVE  /\ EndedRow(h) \in HolderRow
           /\ EndedRow(h).state \notin {"active"}
           /\ holders[h].state \in {"submitted", "ended"} =>
                EndedRow(h).state \in {"submitted", "ended"}
           /\ IsDraft(h) => EndedRow(h).state = "ended" /\ EndedRow(h).work = Null
           /\ ~ IsDraft(h) => EndedRow(h).held = {} /\ EndedRow(h).work = holders[h].work
<1>1. CASE IsDraft(h)
  <2>1. EndedRow(h) = [state |-> "ended", work |-> Null, base |-> 0, content |-> Null, held |-> {}]
    BY <1>1 DEF EndedRow, NoHolder
  <2> QED  BY <1>1, <2>1 DEF HolderRow
<1>2. CASE ~ IsDraft(h)
  <2> DEFINE bare == [holders[h] EXCEPT !.held = {}]
             state == IF bare.state = "active" THEN "ended" ELSE bare.state
             row == [bare EXCEPT !.state = state]
  <2>1. /\ bare \in HolderRow /\ bare.held = {} /\ bare.state = holders[h].state
        /\ bare.work = holders[h].work
    BY HolderRows, HeldRow
  <2>2. state \in {"none", "active", "submitted", "ended"} /\ state # "active"
    BY <2>1 DEF HolderRow
  <2>3. EndedRow(h) = row
    BY <1>2 DEF EndedRow
  <2>4. holders[h].state \in {"submitted", "ended"} => state \in {"submitted", "ended"}
    BY <2>1
  <2> HIDE DEF bare, state
  <2>5. row \in HolderRow /\ row.held = {} /\ row.state = state /\ row.work = holders[h].work
    BY <2>1, <2>2, StateRow
  <2> HIDE DEF row
  <2> QED  BY <1>2, <2>2, <2>3, <2>4, <2>5
<1> QED  BY <1>1, <1>2

LEMMA DeleteWorkKeeps ==
    ASSUME IInv, NEW w \in Works, DeleteWork(w)
    PROVE  IInv'
<1> USE DEF IInv
<1> DEFINE tomb == [works[w] EXCEPT !.state = "deleted", !.public = 0,
                                    !.author = 0, !.visibility = "self"]
           row == Touch(tomb)
           released == UNION {holders[h].held : h \in HoldersOf(w)}
                         \cup UNION {ItemsOf[revisions[w][n].content] : n \in DOMAIN revisions[w]}
                         \cup UNION {s.held : s \in snapshots[w]}
<1>1. /\ row \in WorkRow /\ row.state = "deleted" /\ row.author = 0 /\ row.public = 0
      /\ row.version = works[w].version + 1 /\ works[w].version \in Nat
  <2>1. /\ tomb \in WorkRow /\ tomb.state = "deleted" /\ tomb.author = 0
        /\ tomb.public = 0 /\ tomb.version = works[w].version
    BY Rows, TombstoneRow
  <2> HIDE DEF tomb
  <2> QED  BY <2>1, Rows, TouchedRow
<1>2. /\ works' = [works EXCEPT ![w] = row]
      /\ revisions' = [revisions EXCEPT ![w] = <<>>]
      /\ snapshots' = [snapshots EXCEPT ![w] = {}]
      /\ holders' = [h \in Holders |-> IF h \notin HoldersOf(w) THEN holders[h] ELSE EndedRow(h)]
      /\ changes' = [changes EXCEPT ![w] = @ + 1]
      /\ UNCHANGED <<receipts, policy, page>>
  BY DEF DeleteWork, EndedRow
<1>3. items' = CancelUnreferenced(released, holders', revisions', snapshots')
  BY DEF DeleteWork
<1> HIDE DEF row, released
<1>4. /\ works'[w] = row /\ revisions'[w] = <<>> /\ snapshots'[w] = {}
      /\ \A v \in Works : v # w => /\ works'[v] = works[v] /\ revisions'[v] = revisions[v]
                                   /\ snapshots'[v] = snapshots[v] /\ changes'[v] = changes[v]
  BY <1>2 DEF TypeOK
<1>5. /\ \A h \in Holders : holders[h].work # w => holders'[h] = holders[h]
      /\ \A h \in Holders : holders[h].work = w => holders'[h] = EndedRow(h)
  BY <1>2 DEF HoldersOf
<1>6. TypeOK'
  <2>1. works' \in [Works -> WorkRow] /\ revisions' \in [Works -> Seq(RevisionRow)]
        /\ snapshots' \in [Works -> SUBSET SnapshotRow]
    <3>1. /\ works \in [Works -> WorkRow] /\ revisions \in [Works -> Seq(RevisionRow)]
          /\ snapshots \in [Works -> SUBSET SnapshotRow] /\ <<>> \in Seq(RevisionRow)
      BY EmptySeq DEF TypeOK
    <3> QED  BY <1>1, <1>2, <3>1
  <2>2. \A v \in Works : works'[v].author = Len(revisions'[v]) /\ works'[v].public <= works'[v].author
    <3>1. Len(<<>>) = 0
      OBVIOUS
    <3>2. \A v \in Works : v # w => works'[v] = works[v] /\ revisions'[v] = revisions[v]
      BY <1>4
    <3>3. works'[w].author = Len(revisions'[w]) /\ works'[w].public <= works'[w].author
      BY <1>1, <1>4, <3>1
    <3> QED  BY <3>2, <3>3 DEF TypeOK
  <2>3. holders' \in [Holders -> HolderRow]
    BY <1>2, EndedRows, HolderRows
  <2>4. items' \in [Items -> {"new", "uploading", "ready", "gone"}]
    BY <1>3, Cancelled
  <2>5. changes' \in [Works -> Nat]
    <3>1. changes \in [Works -> Nat]
      BY DEF TypeOK
    <3> QED  BY <1>2, <3>1
  <2> QED  BY <1>2, <2>1, <2>2, <2>3, <2>4, <2>5 DEF TypeOK
<1>7. Begun'
  BY <1>1, <1>4 DEF Begun
<1>8. DraftsAreFilled'
  <2>1. \A h \in Drafts : holders[h].work = w => holders'[h].state = "ended"
    BY <1>5, EndedRows DEF Holders, IsDraft
  <2> QED  BY <1>5, <2>1 DEF DraftsAreFilled, Holders
<1>9. Spent'
  <2>1. \A r \in Requests : receipts[r] # Null => receipts[r].command.holder \in Holders
    BY DEF TypeOK, ReceiptRow, Command
  <2> QED  BY <1>2, <1>5, <2>1, EndedRows DEF Spent
<1>10. PageIsOld'
  <2>1. page # Null => page.work \in Works /\ page.version \in Nat
    BY DEF TypeOK, PageRow
  <2>2. CASE page # Null /\ page.work = w
    BY <1>1, <1>2, <1>4, <2>1, <2>2 DEF PageIsOld, WorkPage, SubmissionPage, Live
  <2>3. CASE page # Null /\ page.work # w
    BY <1>2, <1>4, <2>1, <2>3 DEF PageIsOld, WorkPage, SubmissionPage, Live
  <2>4. CASE page = Null
    BY <1>2, <2>4 DEF PageIsOld
  <2> QED  BY <2>2, <2>3, <2>4
<1>11. PublicAndPendingAreCurrent'
  BY <1>1, <1>4 DEF PublicAndPendingAreCurrent
<1>12. SubmittedOnce'
  <2>1. \A v \in Works : \A n \in DOMAIN revisions'[v] : v # w
    BY <1>4
  <2>2. \A v \in Works : \A n \in DOMAIN revisions'[v] :
          LET receipt == receipts[revisions'[v][n].request]
          IN receipt # Null /\ receipt.work = v /\ receipt.revision = n
    BY <1>4, <2>1 DEF SubmittedOnce
  <2>3. \A r \in Requests : receipts[r] # Null => receipts[r].work \in Works
    BY DEF TypeOK, ReceiptRow
  <2> QED  BY <1>1, <1>2, <1>4, <2>2, <2>3 DEF SubmittedOnce
<1>13. StoredInputIsKept'
  <2>1. \A h \in Drafts : holders'[h].state = "submitted" =>
           /\ holders'[h] = holders[h] /\ holders[h].work # w /\ holders[h].work \in Works
    BY <1>5, EndedRows DEF DraftsAreFilled, Holders, IsDraft
  <2> QED  BY <1>4, <2>1 DEF StoredInputIsKept
<1>14. NoEditIsOverwritten'
  <2>1. \A v \in Works : \A n \in DOMAIN revisions'[v] : v # w
    BY <1>4
  <2> QED  BY <1>4, <2>1 DEF NoEditIsOverwritten
<1>15. MediaStaysWithItsWork'
  <2>1. \A v \in Works : \A n \in DOMAIN revisions'[v] : v # w
    BY <1>4
  <2>2. \A v \in Works : \A n \in DOMAIN revisions'[v] :
           \A i \in ItemsOf[revisions'[v][n].content] : items'[i] = "ready"
    <3> SUFFICES ASSUME NEW v \in Works, NEW n \in DOMAIN revisions'[v],
                        NEW i \in ItemsOf[revisions'[v][n].content]
                 PROVE  items'[i] = "ready"
      OBVIOUS
    <3>1. v # w /\ revisions'[v] = revisions[v]
      BY <1>4, <2>1
    <3>2. i \in Items /\ items[i] = "ready"
      BY <3>1, RevisionItems DEF MediaStaysWithItsWork
    <3> QED  BY <1>3, <3>2, Cancelled
  <2>3. \A v \in Works : works'[v].state = "deleted" =>
           revisions'[v] = <<>> /\ snapshots'[v] = {}
    BY <1>4 DEF MediaStaysWithItsWork
  <2>4. ASSUME NEW v \in Works, works'[v].state = "deleted", NEW h \in Holders, holders'[h].work = v
        PROVE  h \in Sessions /\ holders'[h].state # "active" /\ holders'[h].held = {}
    <3>1. CASE holders[h].work = w
      BY <1>5, <2>4, <3>1, EndedRows, WorksAssumption DEF Holders, IsDraft
    <3>2. CASE holders[h].work # w
      BY <1>4, <1>5, <2>4, <3>2 DEF MediaStaysWithItsWork
    <3> QED  BY <3>1, <3>2
  <2> QED  BY <2>2, <2>3, <2>4 DEF MediaStaysWithItsWork
<1>16. ReceiptsAreTrue'
  <2>1. \A r \in Requests : receipts[r] # Null => receipts[r].work \in Works
    BY DEF TypeOK, ReceiptRow
  <2> QED  BY <1>1, <1>2, <1>4, <2>1 DEF ReceiptsAreTrue
<1> QED  BY <1>6, <1>7, <1>8, <1>9, <1>10, <1>11, <1>12, <1>13, <1>14, <1>15, <1>16

-----------------------------------------------------------------------------
(* submit. *)

LEMMA Trimmed ==
    ASSUME NEW rows
    PROVE  TrimHistory(rows) \subseteq rows /\ \A s \in rows : s.pinned => s \in TrimHistory(rows)
  BY DEF TrimHistory

LEMMA SnapshotTypes ==
    ASSUME NEW n \in Nat, NEW kind \in {"submitted", "conflict"}, NEW content \in Contents
    PROVE  /\ Snapshot(n, kind, content) \in SnapshotRow
           /\ Snapshot(n, kind, content).content = content
           /\ Snapshot(n, kind, content).pinned <=> kind = "conflict"
  BY AttachableItems DEF Snapshot, SnapshotRow

(* A submission adds a revision and writes the rows of one work and one      *)
(* holder.                                                                  *)
WrittenRevisions(command, w, revs) ==
    /\ revs \in Seq(RevisionRow) /\ Len(revs) = Len(revisions[w]) + 1
    /\ \A n \in 1..Len(revisions[w]) :
         /\ revs[n].content = revisions[w][n].content /\ revs[n].base = revisions[w][n].base
         /\ revs[n].request = revisions[w][n].request
         /\ revs[n].version >= revisions[w][n].version
    /\ LET new == revs[Len(revisions[w]) + 1]
       IN /\ new.content = command.content /\ new.request = command.request
          /\ new.base = Len(revisions[w])

WrittenWork(w, row, revs) ==
    /\ row \in WorkRow /\ row.state = "live" /\ row.author = Len(revisions[w]) + 1
    /\ row.version = works[w].version + 1 /\ row.public <= row.author
    /\ Current(row, revs)

WrittenHolder(h, w, row) ==
    /\ row \in HolderRow /\ row.state = "submitted" /\ row.content = holders[h].content
    /\ row.work = IF h \in Drafts THEN w ELSE holders[h].work

WrittenSnapshots(command, w, rows) ==
    /\ rows \in SUBSET SnapshotRow
    /\ \A s \in snapshots[w] : s.pinned => s \in rows
    /\ command.holder \in Drafts =>
         \/ holders[command.holder].content = command.content
         \/ \E s \in rows : s.pinned /\ s.content = holders[command.holder].content

Allowed(command, w) ==
    /\ receipts[command.request] = Null
    /\ holders[command.holder].state = "active" /\ holders[command.holder].work \in {Null, w}
    /\ works[w].state \in {"none", "live"}
    /\ ItemsReady(command)

LEMMA SubmitAllowed ==
    ASSUME IInv, NEW command \in Command, NEW w \in Works, SubmitTo(command, w)
    PROVE  Allowed(command, w) /\ command.base = Len(revisions[w])
<1>1. Accepted(command)
  BY DEF SubmitTo
<1>2. works[w].author = Len(revisions[w]) /\ (works[w].state = "none" => works[w].author = 0)
  BY Rows DEF IInv, Begun
<1>3. CASE holders[command.holder].work = Null
  BY <1>1, <1>2, <1>3 DEF SubmitTo, Accepted, Allowed, BaseIsCurrent
<1>4. CASE holders[command.holder].work # Null
  BY <1>1, <1>2, <1>4 DEF SubmitTo, Accepted, Allowed, BaseIsCurrent, Editable, Live
<1> QED  BY <1>3, <1>4

LEMMA SubmitWritesRevisions ==
    ASSUME IInv, NEW command \in Command, NEW w \in Works, command.base = Len(revisions[w])
    PROVE  /\ WrittenRevisions(command, w, SubmittedRevisions(command, w))
           /\ SubmittedRevisions(command, w)[Len(revisions[w]) + 1].disposition
                = SubmittedDisposition(command)
           /\ \A n \in 1..Len(revisions[w]) :
                /\ SubmittedRevisions(command, w)[n].disposition # "pending"
                /\ \/ revisions[w][n].disposition = "pending"
                      /\ SubmittedRevisions(command, w)[n].disposition \in {"withdrawn", "superseded"}
                   \/ SubmittedRevisions(command, w)[n].disposition = revisions[w][n].disposition
<1> DEFINE disposition == IF command.visibility = "self" THEN "withdrawn" ELSE "superseded"
           closed == ClosePending(revisions[w], disposition, 0)
           new == [content |-> command.content, requested |-> command.visibility,
                   disposition |-> SubmittedDisposition(command), version |-> 1,
                   base |-> command.base, request |-> command.request]
           revs == Append(closed, new)
<1>1. SubmittedRevisions(command, w) = revs
  BY DEF SubmittedRevisions
<1>2. disposition \in Disposition /\ disposition \in {"withdrawn", "superseded"}
  BY DEF Disposition
<1>3. SubmittedDisposition(command) \in Disposition
  BY DEF SubmittedDisposition, Disposition
<1>4. new \in RevisionRow
  BY <1>3 DEF RevisionRow, Command
<1>5. /\ new.content = command.content /\ new.base = command.base
      /\ new.request = command.request /\ new.disposition = SubmittedDisposition(command)
  OBVIOUS
<1>6. revisions[w] \in Seq(RevisionRow) /\ Len(revisions[w]) \in Nat
      /\ \A n \in 1..Len(revisions[w]) : revisions[w][n].version \in Nat
  BY Rows DEF IInv
<1> HIDE DEF new, disposition
<1>7. /\ Redisposed(revisions[w], closed)
      /\ \A n \in 1..Len(revisions[w]) :
           closed[n].disposition = IF revisions[w][n].disposition = "pending" /\ n # 0
                                   THEN disposition ELSE revisions[w][n].disposition
  BY <1>2, <1>6, ClosingRedisposes
<1> HIDE DEF closed
<1>8. closed \in Seq(RevisionRow) /\ Len(closed) = Len(revisions[w])
  BY <1>7 DEF Redisposed
<1>9. /\ revs \in Seq(RevisionRow) /\ Len(revs) = Len(revisions[w]) + 1
      /\ \A n \in 1..Len(revisions[w]) : revs[n] = closed[n]
      /\ revs[Len(revisions[w]) + 1] = new
  BY <1>4, <1>8, AppendProperties
<1> HIDE DEF revs
<1>10. WrittenRevisions(command, w, revs)
  <2>1. ASSUME NEW n \in 1..Len(revisions[w])
        PROVE  closed[n].version >= revisions[w][n].version
    <3>1. revisions[w][n].version \in Nat /\ closed[n].version \in Nat
      <4>1. closed[n] \in RevisionRow
        BY <1>8
      <4> QED  BY <1>6, <4>1 DEF RevisionRow
    <3>2. closed[n] = revisions[w][n] \/ closed[n].version > revisions[w][n].version
      BY <1>7 DEF Redisposed
    <3> QED  BY <3>1, <3>2
  <2> QED  BY <1>5, <1>7, <1>9, <2>1 DEF WrittenRevisions, Redisposed
<1>11. \A n \in 1..Len(revisions[w]) :
         /\ revs[n].disposition # "pending"
         /\ \/ revisions[w][n].disposition = "pending"
               /\ revs[n].disposition \in {"withdrawn", "superseded"}
            \/ revs[n].disposition = revisions[w][n].disposition
  BY <1>2, <1>6, <1>7, <1>9
<1> QED  BY <1>1, <1>5, <1>9, <1>10, <1>11

SubmittedRow(row, n, visibility) ==
    [row EXCEPT !.state = "live", !.author = n, !.visibility = visibility, !.version = @ + 1]

LEMMA WrittenRow ==
    ASSUME NEW row \in WorkRow, NEW n \in Nat, NEW visibility \in Visibility
    PROVE  /\ SubmittedRow(row, n, visibility) \in WorkRow
           /\ SubmittedRow(row, n, visibility).state = "live"
           /\ SubmittedRow(row, n, visibility).author = n
           /\ SubmittedRow(row, n, visibility).public = row.public
           /\ SubmittedRow(row, n, visibility).visibility = visibility
           /\ SubmittedRow(row, n, visibility).version = row.version + 1
<1> DEFINE a == [row EXCEPT !.state = "live"]
           b == [a EXCEPT !.author = n]
           c == [b EXCEPT !.visibility = visibility]
           d == [c EXCEPT !.version = @ + 1]
<1>1. a \in WorkRow /\ a.state = "live" /\ a.version = row.version /\ a.public = row.public
  BY DEF WorkRow
<1>2. /\ b \in WorkRow /\ b.state = "live" /\ b.version = row.version
      /\ b.public = row.public /\ b.author = n
  <2> HIDE DEF a
  <2> QED  BY <1>1 DEF WorkRow
<1>3. /\ c \in WorkRow /\ c.state = "live" /\ c.version = row.version
      /\ c.public = row.public /\ c.author = n /\ c.visibility = visibility
  <2> HIDE DEF b
  <2> QED  BY <1>2 DEF WorkRow
<1>4. /\ d \in WorkRow /\ d.state = "live" /\ d.version = row.version + 1
      /\ d.public = row.public /\ d.author = n /\ d.visibility = visibility
  <2> HIDE DEF c
  <2> QED  BY <1>3 DEF WorkRow
<1>5. d = SubmittedRow(row, n, visibility)
  BY DEF SubmittedRow
<1> QED  BY <1>4, <1>5

LEMMA SubmitWritesWork ==
    ASSUME IInv, NEW command \in Command, NEW w \in Works, command.base = Len(revisions[w])
    PROVE  WrittenWork(w, SubmittedWork(command, w), SubmittedRevisions(command, w))
<1> DEFINE n == Len(revisions[w]) + 1
           revs == SubmittedRevisions(command, w)
           written == SubmittedRow(works[w], n, command.visibility)
           disposition == SubmittedDisposition(command)
           row == SubmittedWork(command, w)
<1>1. /\ works[w] \in WorkRow /\ works[w].public \in Nat /\ n \in Nat
      /\ works[w].public <= Len(revisions[w]) /\ works[w].version \in Nat
      /\ command.visibility \in Visibility /\ Len(revisions[w]) \in Nat
      /\ DOMAIN revisions[w] = 1..Len(revisions[w])
  BY Rows DEF IInv, Command
<1>2. /\ written \in WorkRow /\ written.state = "live" /\ written.author = n
      /\ written.public = works[w].public /\ written.visibility = command.visibility
      /\ written.version = works[w].version + 1
  <2> DEFINE visibility == command.visibility
  <2>1. visibility \in Visibility
    BY <1>1
  <2> HIDE DEF n, visibility
  <2>2. SubmittedRow(works[w], n, visibility) \in WorkRow
    BY <1>1, <2>1, WrittenRow
  <2>3. /\ SubmittedRow(works[w], n, visibility).state = "live"
        /\ SubmittedRow(works[w], n, visibility).author = n
        /\ SubmittedRow(works[w], n, visibility).public = works[w].public
        /\ SubmittedRow(works[w], n, visibility).visibility = visibility
        /\ SubmittedRow(works[w], n, visibility).version = works[w].version + 1
    <3>1. works[w] \in WorkRow /\ n \in Nat
      BY <1>1
    <3>2. SubmittedRow(works[w], n, visibility).state = "live"
      BY <2>1, <3>1, WrittenRow
    <3>3. SubmittedRow(works[w], n, visibility).author = n
      BY <2>1, <3>1, WrittenRow
    <3>4. SubmittedRow(works[w], n, visibility).public = works[w].public
      BY <2>1, <3>1, WrittenRow
    <3>5. SubmittedRow(works[w], n, visibility).visibility = visibility
      BY <2>1, <3>1, WrittenRow
    <3>6. SubmittedRow(works[w], n, visibility).version = works[w].version + 1
      BY <2>1, <3>1, WrittenRow
    <3> QED  BY <3>2, <3>3, <3>4, <3>5, <3>6
  <2> QED  BY <2>2, <2>3 DEF visibility
<1>3. row = IF disposition = "approved" THEN ApplyPublic(written, revs, n)
            ELSE IF disposition = "pending" /\ works[w].visibility = "self" THEN Withhold(written)
            ELSE written
  BY DEF SubmittedWork, SubmittedRow
<1>4. disposition = "pending" => command.visibility = "public"
  BY <1>1 DEF SubmittedDisposition, Visibility
<1>5. /\ revs \in Seq(RevisionRow) /\ Len(revs) = n /\ revs[n].disposition = disposition
      /\ \A m \in 1..Len(revisions[w]) :
           /\ revs[m].disposition # "pending"
           /\ \/ revisions[w][m].disposition = "pending"
                 /\ revs[m].disposition \in {"withdrawn", "superseded"}
              \/ revs[m].disposition = revisions[w][m].disposition
  BY SubmitWritesRevisions DEF WrittenRevisions
<1> HIDE DEF written, disposition, revs
<1>6. /\ row \in WorkRow /\ row.state = "live" /\ row.author = n
      /\ row.version = works[w].version + 1
      /\ row.public = IF disposition = "approved" THEN n
                      ELSE IF disposition = "pending" /\ works[w].visibility = "self" THEN 0
                      ELSE works[w].public
      /\ disposition = "pending" => row.visibility = "public"
  <2>1. CASE disposition = "approved"
    BY <1>1, <1>2, <1>3, <2>1, PublicRow
  <2>2. CASE disposition = "pending" /\ works[w].visibility = "self"
    BY <1>1, <1>2, <1>3, <1>4, <2>2, WithheldRow
  <2>3. CASE disposition # "approved" /\ ~ (disposition = "pending" /\ works[w].visibility = "self")
    BY <1>1, <1>2, <1>3, <1>4, <2>3
  <2> QED  BY <2>1, <2>2, <2>3
<1> HIDE DEF row
<1>7. Current(row, revs)
  <2>1. Current(works[w], revisions[w])
    BY CurrentWorks DEF IInv
  <2>2. DOMAIN revs = 1..n
    BY <1>1, <1>5
  <2>3. \A m \in 1..n : m = n \/ m \in 1..Len(revisions[w])
    BY <1>1
  <2>4. \A m \in DOMAIN revs : revs[m].disposition = "pending" =>
           m = row.author /\ row.visibility = "public"
    BY <1>5, <1>6, <2>2, <2>3
  <2>5. \A m \in 1..Len(revisions[w]) : revs[m].disposition = "approved" =>
           revisions[w][m].disposition = "approved"
    BY <1>5
  <2>6. CASE disposition = "approved"
    <3>1. row.public = n
      BY <1>6, <2>6
    <3> QED  BY <1>1, <1>5, <2>2, <2>4, <2>6, <3>1 DEF Current
  <2>7. CASE disposition # "approved" /\ row.public = 0
    BY <2>4, <2>7 DEF Current
  <2>8. CASE disposition # "approved" /\ row.public # 0
    <3>1. row.public = works[w].public /\ row.public \in 1..Len(revisions[w])
      BY <1>1, <1>6, <2>8
    <3>2. revs[row.public].disposition = "approved"
      BY <1>5, <2>1, <2>8, <3>1 DEF Current
    <3>3. \A m \in 1..n : revs[m].disposition = "approved" => m \in 1..Len(revisions[w])
      BY <1>5, <2>3, <2>8
    <3>4. \A m \in DOMAIN revs : revs[m].disposition = "approved" => m <= row.public
      BY <1>1, <2>1, <2>2, <2>5, <2>8, <3>1, <3>3 DEF Current
    <3> QED  BY <2>4, <3>2, <3>4 DEF Current
  <2> QED  BY <2>6, <2>7, <2>8
<1>8. row.public <= row.author
  BY <1>1, <1>6
<1> QED  BY <1>6, <1>7, <1>8 DEF WrittenWork, row, revs

LEMMA SubmitWritesHolder ==
    ASSUME IInv, NEW h \in Holders, NEW w \in Works
    PROVE  LET row == [holders[h] EXCEPT !.state = "submitted", !.held = {},
                                         !.work = IF IsDraft(h) THEN w ELSE @]
           IN WrittenHolder(h, w, row)
<1> DEFINE a == [holders[h] EXCEPT !.state = "submitted"]
           b == [a EXCEPT !.held = {}]
           work == IF h \in Drafts THEN w ELSE b.work
           c == [b EXCEPT !.work = work]
<1>1. /\ a \in HolderRow /\ a.state = "submitted" /\ a.work = holders[h].work
      /\ a.content = holders[h].content
  BY HolderRows, StateRow DEF IInv
<1>2. /\ b \in HolderRow /\ b.state = "submitted" /\ b.work = holders[h].work
      /\ b.content = holders[h].content
  <2> HIDE DEF a
  <2> QED  BY <1>1, HeldRow
<1>3. work \in Works \cup {Null}
  BY <1>2, HolderRows DEF IInv
<1>4. c = [holders[h] EXCEPT !.state = "submitted", !.held = {},
                             !.work = IF IsDraft(h) THEN w ELSE @]
  BY HolderRows DEF IInv, IsDraft, HolderRow
<1>5. work = IF h \in Drafts THEN w ELSE holders[h].work
  BY <1>2
<1> HIDE DEF b, work
<1>6. /\ c \in HolderRow /\ c.state = "submitted" /\ c.work = work
      /\ c.content = holders[h].content
  BY <1>2, <1>3 DEF HolderRow
<1> QED  BY <1>4, <1>5, <1>6 DEF WrittenHolder

LEMMA SubmitWritesSnapshots ==
    ASSUME IInv, NEW command \in Command, NEW w \in Works, Allowed(command, w)
    PROVE  WrittenSnapshots(command, w, TransferSnapshots(command, w))
<1> DEFINE n == Len(revisions[w]) + 1
           stored == holders[command.holder].content
           rows == snapshots[w]
                     \cup {Snapshot(n, "submitted", command.content)}
                     \cup (IF stored = command.content THEN {}
                           ELSE {Snapshot(n, "conflict", stored)})
<1>1. snapshots[w] \in SUBSET SnapshotRow /\ n \in Nat /\ command.content \in Contents
      /\ command.holder \in Holders
  BY Rows DEF IInv, TypeOK, Command
<1>2. CASE command.holder \notin Drafts
  BY <1>1, <1>2 DEF TransferSnapshots, WrittenSnapshots, IsDraft
<1>3. CASE command.holder \in Drafts
  <2>1. stored \in Contents
    BY <1>3 DEF IInv, DraftsAreFilled, Allowed
  <2>2. TransferSnapshots(command, w) = TrimHistory(rows)
    BY <1>3 DEF TransferSnapshots, IsDraft
  <2>3. rows \in SUBSET SnapshotRow
    <3>1. Snapshot(n, "submitted", command.content) \in SnapshotRow
      BY <1>1, SnapshotTypes
    <3>2. Snapshot(n, "conflict", stored) \in SnapshotRow
      BY <1>1, <2>1, SnapshotTypes
    <3> QED  BY <1>1, <3>1, <3>2
  <2>4. stored # command.content => \E s \in rows : s.pinned /\ s.content = stored
    <3>1. /\ Snapshot(n, "conflict", stored).pinned
          /\ Snapshot(n, "conflict", stored).content = stored
      BY <1>1, <2>1, SnapshotTypes
    <3> QED  BY <3>1
  <2>5. snapshots[w] \subseteq rows
    OBVIOUS
  <2> HIDE DEF rows, stored
  <2>6. TrimHistory(rows) \subseteq rows /\ \A s \in rows : s.pinned => s \in TrimHistory(rows)
    BY Trimmed
  <2>7. WrittenSnapshots(command, w, TrimHistory(rows))
    BY <2>3, <2>4, <2>5, <2>6 DEF WrittenSnapshots, stored
  <2> QED  BY <2>2, <2>7
<1> QED  BY <1>2, <1>3

Written(command, w, row, revs, holder, rows) ==
    /\ Allowed(command, w)
    /\ WrittenRevisions(command, w, revs) /\ WrittenWork(w, row, revs)
    /\ WrittenHolder(command.holder, w, holder) /\ WrittenSnapshots(command, w, rows)
    /\ works' = [works EXCEPT ![w] = row]
    /\ revisions' = [revisions EXCEPT ![w] = revs]
    /\ holders' = [holders EXCEPT ![command.holder] = holder]
    /\ snapshots' = [snapshots EXCEPT ![w] = rows]
    /\ receipts' = [receipts EXCEPT ![command.request] =
                       [command |-> command, work |-> w, revision |-> Len(revisions[w]) + 1]]
    /\ changes' = [changes EXCEPT ![w] = @ + 1]
    /\ UNCHANGED <<policy, page>>
    /\ items' \in [Items -> {"new", "uploading", "ready", "gone"}]
    /\ \A v \in Works : \A n \in DOMAIN revisions'[v] :
         \A i \in ItemsOf[revisions'[v][n].content] : i \in Items => items'[i] = items[i]

LEMMA SubmitWrites ==
    ASSUME IInv, NEW command \in Command, NEW w \in Works, SubmitTo(command, w)
    PROVE  \E row, revs, holder, rows : Written(command, w, row, revs, holder, rows)
<1> DEFINE h == command.holder
           row == SubmittedWork(command, w)
           revs == SubmittedRevisions(command, w)
           holder == [holders[h] EXCEPT !.state = "submitted", !.held = {},
                                        !.work = IF IsDraft(h) THEN w ELSE @]
           rows == TransferSnapshots(command, w)
           moved == [holders EXCEPT ![h].state = "submitted", ![h].held = {},
                                    ![h].work = IF IsDraft(h) THEN w ELSE @]
<1>1. h \in Holders /\ Allowed(command, w) /\ command.base = Len(revisions[w])
  BY SubmitAllowed DEF Command
<1>2. /\ WrittenRevisions(command, w, revs) /\ WrittenWork(w, row, revs)
      /\ WrittenHolder(h, w, holder) /\ WrittenSnapshots(command, w, rows)
  BY <1>1, SubmitWritesRevisions, SubmitWritesWork, SubmitWritesHolder, SubmitWritesSnapshots
<1>3. moved = [holders EXCEPT ![h] = holder]
  BY <1>1, HolderRows DEF IInv
<1>4. /\ works' = [works EXCEPT ![w] = row] /\ revisions' = [revisions EXCEPT ![w] = revs]
      /\ holders' = moved /\ snapshots' = [snapshots EXCEPT ![w] = rows]
      /\ items' = IF IsDraft(h) THEN items
                  ELSE CancelUnreferenced(holders[h].held, moved, revisions', snapshots')
      /\ receipts' = [receipts EXCEPT ![command.request] =
                       [command |-> command, work |-> w, revision |-> Len(revisions[w]) + 1]]
      /\ changes' = [changes EXCEPT ![w] = @ + 1]
      /\ UNCHANGED <<policy, page>>
  BY DEF SubmitTo
<1> HIDE DEF row, revs, holder, rows, moved
<1>5. /\ items' \in [Items -> {"new", "uploading", "ready", "gone"}]
      /\ \A v \in Works : \A n \in DOMAIN revisions'[v] :
           \A i \in ItemsOf[revisions'[v][n].content] : i \in Items => items'[i] = items[i]
  <2>1. CASE IsDraft(h)
    BY <1>4, <2>1 DEF IInv, TypeOK
  <2>2. CASE ~ IsDraft(h)
    <3> DEFINE left == CancelUnreferenced(holders[h].held, moved, revisions', snapshots')
    <3>1. TypeOK
      BY DEF IInv
    <3>2. /\ left \in [Items -> {"new", "uploading", "ready", "gone"}]
          /\ \A v \in Works : \A n \in DOMAIN revisions'[v] :
               \A i \in ItemsOf[revisions'[v][n].content] : i \in Items => left[i] = items[i]
      BY <3>1, Cancelled
    <3>3. items' = left
      BY <1>4, <2>2
    <3> HIDE DEF left
    <3> QED  BY <3>2, <3>3
  <2> QED  BY <2>1, <2>2
<1>6. Written(command, w, row, revs, holder, rows)
  BY <1>1, <1>2, <1>3, <1>4, <1>5 DEF Written
<1> QED  BY <1>6

(* The rows after a submission. *)
RowsAfter(command, w, row, revs, holder, rows) ==
    /\ works'[w] = row /\ revisions'[w] = revs /\ snapshots'[w] = rows
    /\ \A v \in Works : v # w => /\ works'[v] = works[v] /\ revisions'[v] = revisions[v]
                                 /\ snapshots'[v] = snapshots[v] /\ changes'[v] = changes[v]
    /\ holders'[command.holder] = holder
    /\ \A h \in Holders : h # command.holder => holders'[h] = holders[h]
    /\ receipts'[command.request] =
          [command |-> command, work |-> w, revision |-> Len(revisions[w]) + 1]
    /\ \A r \in Requests : r # command.request => receipts'[r] = receipts[r]
    /\ command.holder \in Holders /\ command.request \in Requests

LEMMA WrittenRows ==
    ASSUME IInv, NEW command \in Command, NEW w \in Works, NEW row, NEW revs, NEW holder, NEW rows,
           Written(command, w, row, revs, holder, rows)
    PROVE  RowsAfter(command, w, row, revs, holder, rows)
  BY DEF Written, IInv, TypeOK, Command, RowsAfter

LEMMA WrittenTypes ==
    ASSUME IInv, NEW command \in Command, NEW w \in Works, NEW row, NEW revs, NEW holder, NEW rows,
           Written(command, w, row, revs, holder, rows)
    PROVE  TypeOK'
<1>0. RowsAfter(command, w, row, revs, holder, rows)
  BY WrittenRows
<1> USE DEF RowsAfter
<1>1. works' \in [Works -> WorkRow] /\ revisions' \in [Works -> Seq(RevisionRow)]
      /\ snapshots' \in [Works -> SUBSET SnapshotRow]
  BY DEF IInv, TypeOK, Written, WrittenWork, WrittenRevisions, WrittenSnapshots
<1>2. holders' \in [Holders -> HolderRow]
  BY DEF IInv, TypeOK, Written, WrittenHolder, Command
<1>3. receipts' \in [Requests -> ReceiptRow \cup {Null}]
  <2>1. [command |-> command, work |-> w, revision |-> Len(revisions[w]) + 1] \in ReceiptRow
    BY Rows DEF ReceiptRow, IInv
  <2> QED  BY <2>1 DEF IInv, TypeOK, Written
<1>4. changes' \in [Works -> Nat]
  <2>1. changes \in [Works -> Nat] /\ changes' = [changes EXCEPT ![w] = @ + 1]
    BY DEF IInv, TypeOK, Written
  <2> QED  BY <2>1
<1>5. \A v \in Works : works'[v].author = Len(revisions'[v]) /\ works'[v].public <= works'[v].author
  <2>1. row.author = Len(revs) /\ row.public <= row.author
    BY DEF Written, WrittenWork, WrittenRevisions
  <2> QED  BY <2>1, <1>0 DEF IInv, TypeOK
<1> QED  BY <1>1, <1>2, <1>3, <1>4, <1>5 DEF IInv, TypeOK, Written

LEMMA WrittenPage ==
    ASSUME IInv, NEW command \in Command, NEW w \in Works, NEW row, NEW revs, NEW holder, NEW rows,
           Written(command, w, row, revs, holder, rows)
    PROVE  PageIsOld'
<1>0. RowsAfter(command, w, row, revs, holder, rows)
  BY WrittenRows
<1> USE DEF RowsAfter
<1>1. page' = page
  BY DEF Written
<1>2. page # Null => page.work \in Works /\ page.version \in Nat /\ page.revision \in Nat
  BY DEF IInv, TypeOK, PageRow
<1>3. CASE page # Null /\ page.work # w
  BY <1>1, <1>2, <1>3, <1>0 DEF IInv, PageIsOld, WorkPage, SubmissionPage, Live
<1>4. CASE page # Null /\ page.work = w
  <2> DEFINE n == page.revision
  <2>1. /\ works'[w] = row /\ revisions'[w] = revs /\ row.state = "live"
        /\ row.author = Len(revisions[w]) + 1 /\ row.version = works[w].version + 1
        /\ works[w].version \in Nat /\ Len(revisions[w]) \in Nat
        /\ works[w].author = Len(revisions[w])
    BY <1>0, Rows DEF IInv, Written, WrittenWork
  <2>2. Live(w)
    BY <1>4 DEF IInv, PageIsOld, Written, Allowed, Live
  <2>3. CASE n = 0
    BY <1>1, <1>2, <1>4, <2>1, <2>3 DEF IInv, PageIsOld, WorkPage
  <2>4. CASE n # 0
    <3>1. n <= works[w].author /\ page.version <= revisions[w][n].version
      BY <1>4, <2>2, <2>4 DEF IInv, PageIsOld, SubmissionPage
    <3>2. n \in 1..Len(revisions[w])
      BY <1>2, <1>4, <2>1, <2>4, <3>1
    <3>3. /\ revisions[w][n].version \in Nat /\ revs[n].version \in Nat
          /\ revs[n].version >= revisions[w][n].version
      <4>1. revs[n] \in RevisionRow /\ revs[n].version >= revisions[w][n].version
        BY <2>1, <3>2 DEF Written, WrittenRevisions
      <4> QED  BY <3>2, <4>1, Rows DEF IInv, RevisionRow
    <3>4. n <= row.author /\ n # row.author /\ page.version <= revs[n].version
      <4>1. n <= row.author /\ n # row.author
        BY <1>2, <1>4, <2>1, <3>1
      <4>2. page.version <= revs[n].version
        <5> DEFINE a == page.version  b == revisions[w][n].version  c == revs[n].version
        <5>1. a \in Nat /\ b \in Nat /\ c \in Nat /\ a <= b /\ b <= c
          BY <1>2, <1>4, <3>1, <3>3
        <5> HIDE DEF a, b, c
        <5>2. a <= c
          BY <5>1
        <5> QED  BY <5>2 DEF a, c
      <4> QED  BY <4>1, <4>2
    <3> QED  BY <1>1, <1>4, <2>1, <2>4, <3>4 DEF PageIsOld, SubmissionPage
  <2> QED  BY <2>3, <2>4
<1>5. CASE page = Null
  BY <1>1, <1>5 DEF PageIsOld
<1> QED  BY <1>3, <1>4, <1>5

LEMMA WrittenReceipts ==
    ASSUME IInv, NEW command \in Command, NEW w \in Works, NEW row, NEW revs, NEW holder, NEW rows,
           Written(command, w, row, revs, holder, rows)
    PROVE  Spent' /\ SubmittedOnce' /\ ReceiptsAreTrue'
<1>0. RowsAfter(command, w, row, revs, holder, rows)
  BY WrittenRows
<1> USE DEF RowsAfter
<1> DEFINE r == command.request  n == Len(revisions[w]) + 1
           receipt == [command |-> command, work |-> w, revision |-> n]
<1>1. /\ receipts'[r] = receipt /\ receipt # Null /\ receipts[r] = Null
      /\ holders[command.holder].state = "active" /\ r \in Requests
      /\ receipt.command = command /\ receipt.work = w /\ receipt.revision = n
      /\ command.holder \in Holders
  <2>1. receipt \in ReceiptRow
    BY Rows DEF IInv, ReceiptRow
  <2> QED  BY <2>1, NullAssumption, <1>0 DEF Written, Allowed
<1>2. /\ n \in Nat /\ DOMAIN revs = 1..n /\ DOMAIN revisions[w] = 1..Len(revisions[w])
      /\ \A m \in 1..n : m = n \/ m \in 1..Len(revisions[w])
      /\ n \in 1..n
  <2>1. Len(revisions[w]) \in Nat /\ DOMAIN revisions[w] = 1..Len(revisions[w])
    BY Rows DEF IInv
  <2>2. revs \in Seq(RevisionRow) /\ Len(revs) = n
    BY DEF Written, WrittenRevisions
  <2> QED  BY <2>1, <2>2
<1> HIDE DEF receipt, n, r
<1>3. Spent'
  <2>1. \A s \in Requests : receipts[s] # Null => receipts[s].command.holder \in Holders
    BY DEF IInv, TypeOK, ReceiptRow, Command
  <2>2. holders'[command.holder].state = "submitted"
    BY <1>0 DEF Written, WrittenHolder
  <2> QED  BY <1>1, <2>1, <2>2, <1>0 DEF IInv, Spent, r
<1>4. /\ revs[n].request = r
      /\ \A m \in 1..Len(revisions[w]) : revs[m].request = revisions[w][m].request
  BY DEF Written, WrittenRevisions, r, n
<1>5. \A s \in Requests : s # r => receipts'[s] = receipts[s]
  BY <1>0 DEF r
<1>6. \A v \in Works : \A m \in DOMAIN revisions[v] :
         /\ revisions[v][m].request \in Requests /\ revisions[v][m].request # r
         /\ receipts[revisions[v][m].request] # Null
         /\ receipts[revisions[v][m].request].work = v
         /\ receipts[revisions[v][m].request].revision = m
  BY <1>1, Rows DEF IInv, SubmittedOnce
<1>7. ASSUME NEW v \in Works, NEW m \in DOMAIN revisions'[v]
      PROVE  LET known == receipts'[revisions'[v][m].request]
             IN known # Null /\ known.work = v /\ known.revision = m
  <2>1. CASE v # w
    BY <1>5, <1>6, <2>1, <1>0
  <2>2. CASE v = w /\ m = n
    BY <1>1, <1>4, <2>2, <1>0
  <2>3. CASE v = w /\ m # n
    <3>1. revisions'[v] = revs
      BY <2>3, <1>0
    <3>2. m \in DOMAIN revisions[w] /\ revs[m].request = revisions[w][m].request
      BY <1>2, <1>4, <2>3, <3>1
    <3> QED  BY <1>5, <1>6, <2>3, <3>1, <3>2
  <2> QED  BY <2>1, <2>2, <2>3
<1>8. ASSUME NEW s \in Requests, receipts'[s] # Null
      PROVE  LET known == receipts'[s]
             IN \/ works'[known.work].state = "deleted"
                \/ /\ known.revision \in DOMAIN revisions'[known.work]
                   /\ revisions'[known.work][known.revision].request = s
  <2>1. CASE s = r
    BY <1>1, <1>2, <1>4, <2>1, <1>0
  <2>2. CASE s # r
    <3> DEFINE v == receipts[s].work  m == receipts[s].revision
    <3>1. receipts'[s] = receipts[s] /\ v \in Works
      BY <1>5, <1>8, <2>2 DEF IInv, TypeOK, ReceiptRow
    <3>2. works[v].state = "deleted" \/ (m \in DOMAIN revisions[v] /\ revisions[v][m].request = s)
      BY <1>8, <3>1 DEF IInv, SubmittedOnce
    <3>3. CASE v # w
      BY <3>1, <3>2, <3>3, <1>0
    <3>4. CASE v = w
      <4>1. m \in DOMAIN revisions[w] /\ revisions[w][m].request = s
        BY <3>2, <3>4 DEF Written, Allowed
      <4>2. m \in DOMAIN revs /\ revs[m].request = s
        <5>1. m \in 1..Len(revisions[w])
          BY <1>2, <4>1
        <5>2. n = Len(revisions[w]) + 1 /\ Len(revisions[w]) \in Nat
          BY Rows DEF IInv, n
        <5> HIDE DEF m
        <5>3. m \in 1..n
          BY <5>1, <5>2
        <5> QED  BY <1>2, <1>4, <4>1, <5>1, <5>3
      <4> QED  BY <3>1, <3>4, <4>2, <1>0
    <3> QED  BY <3>3, <3>4
  <2> QED  BY <2>1, <2>2
<1>9. ASSUME NEW s \in Requests, NEW t \in Requests, receipts'[s] # Null, receipts'[t] # Null,
             receipts'[s].command.holder = receipts'[t].command.holder
      PROVE  s = t
  <2>1. \A u \in Requests : receipts[u] # Null => receipts[u].command.holder # command.holder
    BY <1>1 DEF IInv, Spent
  <2>2. CASE s # r /\ t # r
    BY <1>5, <1>9, <2>2 DEF IInv, SubmittedOnce
  <2> QED  BY <1>1, <1>5, <1>9, <2>1, <2>2
<1>10. ReceiptsAreTrue'
  <2>1. /\ receipt.command.request = r /\ revs[n].content = command.content
        /\ \A m \in 1..Len(revisions[w]) : revs[m].content = revisions[w][m].content
    BY <1>1 DEF Written, WrittenRevisions, r, n
  <2>2. ASSUME NEW s \in Requests, receipts'[s] # Null
        PROVE  LET known == receipts'[s]
               IN /\ known.command.request = s
                  /\ works'[known.work].state # "deleted" =>
                       revisions'[known.work][known.revision].content = known.command.content
    <3>1. CASE s = r
      BY <1>0, <1>1, <2>1, <3>1
    <3>2. CASE s # r
      <4> DEFINE v == receipts[s].work  m == receipts[s].revision
      <4>1. /\ receipts'[s] = receipts[s] /\ v \in Works /\ receipts[s].command.request = s
            /\ works[v].state # "deleted" =>
                  m \in DOMAIN revisions[v] /\ revisions[v][m].content = receipts[s].command.content
        BY <1>5, <2>2, <3>2 DEF IInv, TypeOK, ReceiptRow, ReceiptsAreTrue, SubmittedOnce
      <4>2. CASE v # w
        BY <1>0, <4>1, <4>2
      <4>3. CASE v = w
        <5>1. m \in 1..Len(revisions[w]) /\ revisions[w][m].content = receipts[s].command.content
          BY <1>2, <4>1, <4>3 DEF Written, Allowed
        <5>2. revs[m].content = revisions[w][m].content
          BY <2>1, <5>1
        <5> QED  BY <1>0, <4>1, <4>3, <5>1, <5>2
      <4> QED  BY <4>2, <4>3
    <3> QED  BY <3>1, <3>2
  <2> QED  BY <2>2 DEF ReceiptsAreTrue
<1> QED  BY <1>3, <1>7, <1>8, <1>9, <1>10 DEF SubmittedOnce

LEMMA WrittenContents ==
    ASSUME IInv, NEW command \in Command, NEW w \in Works, NEW row, NEW revs, NEW holder, NEW rows,
           Written(command, w, row, revs, holder, rows)
    PROVE  Begun' /\ DraftsAreFilled' /\ StoredInputIsKept' /\ NoEditIsOverwritten'
<1>0. RowsAfter(command, w, row, revs, holder, rows)
  BY WrittenRows
<1> USE DEF RowsAfter
<1> DEFINE n == Len(revisions[w]) + 1
<1>1. /\ n \in Nat /\ DOMAIN revs = 1..n /\ DOMAIN revisions[w] = 1..(n - 1)
      /\ \A m \in 1..n : m = n \/ m \in 1..(n - 1)
      /\ n \in 1..n /\ 1..(n - 1) \subseteq 1..n
  <2>1. Len(revisions[w]) \in Nat /\ DOMAIN revisions[w] = 1..Len(revisions[w])
    BY Rows DEF IInv
  <2>2. revs \in Seq(RevisionRow) /\ Len(revs) = n
    BY DEF Written, WrittenRevisions
  <2> QED  BY <2>1, <2>2
<1>2. /\ revs[n].content = command.content /\ revs[n].base = n - 1
      /\ \A m \in 1..(n - 1) : /\ revs[m].content = revisions[w][m].content
                               /\ revs[m].base = revisions[w][m].base
  <2>1. Len(revisions[w]) \in Nat
    BY Rows DEF IInv
  <2> QED  BY <2>1 DEF Written, WrittenRevisions
<1> HIDE DEF n
<1>3. Begun'
  BY <1>0 DEF IInv, Begun, Written, WrittenWork
<1>4. DraftsAreFilled'
  BY <1>0 DEF IInv, DraftsAreFilled, Written, WrittenHolder, Holders
<1>5. NoEditIsOverwritten'
  <2> SUFFICES ASSUME NEW v \in Works, NEW m \in DOMAIN revisions'[v]
               PROVE  revisions'[v][m].base = m - 1
    BY DEF NoEditIsOverwritten
  <2>1. CASE v # w
    BY <2>1, <1>0 DEF IInv, NoEditIsOverwritten
  <2>2. CASE v = w
    BY <1>1, <1>2, <2>2, <1>0 DEF IInv, NoEditIsOverwritten
  <2> QED  BY <2>1, <2>2
<1>6. StoredInputIsKept'
  <2> SUFFICES ASSUME NEW h \in Drafts, holders'[h].state = "submitted"
               PROVE  \/ \E m \in DOMAIN revisions'[holders'[h].work] :
                            revisions'[holders'[h].work][m].content = holders'[h].content
                      \/ \E s \in snapshots'[holders'[h].work] :
                            s.pinned /\ s.content = holders'[h].content
    BY DEF StoredInputIsKept
  <2>1. CASE h = command.holder
    <3>1. holders'[h].work = w /\ holders'[h].content = holders[h].content
      BY <2>1, <1>0 DEF Written, WrittenHolder
    <3>2. \/ holders[h].content = command.content
          \/ \E s \in rows : s.pinned /\ s.content = holders[h].content
      BY <2>1 DEF Written, WrittenSnapshots
    <3> QED  BY <1>1, <1>2, <3>1, <3>2, <1>0
  <2>2. CASE h # command.holder
    <3> DEFINE v == holders[h].work
    <3>1. holders'[h] = holders[h] /\ v \in Works
      BY <2>2, <1>0 DEF IInv, DraftsAreFilled, Holders
    <3>2. \/ \E m \in DOMAIN revisions[v] : revisions[v][m].content = holders[h].content
          \/ \E s \in snapshots[v] : s.pinned /\ s.content = holders[h].content
      BY <3>1 DEF IInv, StoredInputIsKept
    <3>3. CASE v # w
      BY <3>1, <3>2, <3>3, <1>0
    <3>4. CASE v = w /\ \E m \in DOMAIN revisions[w] : revisions[w][m].content = holders[h].content
      BY <1>1, <1>2, <3>1, <3>4, <1>0
    <3>5. CASE v = w /\ \E s \in snapshots[w] : s.pinned /\ s.content = holders[h].content
      <4>1. \A s \in snapshots[w] : s.pinned => s \in rows
        BY DEF Written, WrittenSnapshots
      <4> QED  BY <3>1, <3>5, <4>1, <1>0
    <3> QED  BY <3>2, <3>3, <3>4, <3>5
  <2> QED  BY <2>1, <2>2
<1> QED  BY <1>3, <1>4, <1>5, <1>6

LEMMA WrittenMedia ==
    ASSUME IInv, NEW command \in Command, NEW w \in Works, NEW row, NEW revs, NEW holder, NEW rows,
           Written(command, w, row, revs, holder, rows)
    PROVE  MediaStaysWithItsWork'
<1>0. RowsAfter(command, w, row, revs, holder, rows)
  BY WrittenRows
<1> USE DEF RowsAfter
<1>1. ASSUME NEW v \in Works, NEW m \in DOMAIN revisions'[v],
             NEW i \in ItemsOf[revisions'[v][m].content]
      PROVE  items'[i] = "ready"
  <2>1. i \in Items /\ items[i] = "ready"
    <3>1. CASE v # w
      <4>1. revisions'[v] = revisions[v]
        BY <3>1, <1>0
      <4> QED  BY <4>1, RevisionItems DEF IInv, MediaStaysWithItsWork
    <3>2. CASE v = w
      <4>1. /\ revisions'[v] = revs /\ revs \in Seq(RevisionRow)
            /\ Len(revs) = Len(revisions[w]) + 1 /\ DOMAIN revs = 1..Len(revs)
            /\ Len(revisions[w]) \in Nat /\ DOMAIN revisions[w] = 1..Len(revisions[w])
        BY <3>2, <1>0, Rows DEF IInv, Written, WrittenRevisions
      <4>2. CASE m \in 1..Len(revisions[w])
        <5>1. revs[m].content = revisions[w][m].content /\ m \in DOMAIN revisions[w]
          BY <4>1, <4>2 DEF Written, WrittenRevisions
        <5> QED  BY <4>1, <5>1, RevisionItems DEF IInv, MediaStaysWithItsWork
      <4>3. CASE m = Len(revisions[w]) + 1
        <5>1. revs[m].content = command.content
          BY <4>3 DEF Written, WrittenRevisions
        <5>2. command.content \in Contents
          BY DEF Command
        <5> QED  BY <4>1, <5>1, <5>2, WorksAssumption DEF Written, Allowed, ItemsReady
      <4> QED  BY <4>1, <4>2, <4>3
    <3> QED  BY <3>1, <3>2
  <2> QED  BY <2>1 DEF Written
<1>2. \A v \in Works : works'[v].state = "deleted" =>
        v # w /\ works[v].state = "deleted" /\ revisions'[v] = <<>> /\ snapshots'[v] = {}
  <2>1. works'[w].state = "live"
    BY <1>0 DEF Written, WrittenWork
  <2> QED  BY <2>1, <1>0 DEF IInv, MediaStaysWithItsWork
<1>3. ASSUME NEW v \in Works, works'[v].state = "deleted", NEW h \in Holders, holders'[h].work = v
      PROVE  h \in Sessions /\ holders'[h].state # "active" /\ holders'[h].held = {}
  <2>1. h # command.holder
    BY <1>2, <1>3, <1>0, WorksAssumption DEF Written, WrittenHolder, Allowed
  <2> QED  BY <1>2, <1>3, <2>1, <1>0 DEF IInv, MediaStaysWithItsWork
<1> QED  BY <1>1, <1>2, <1>3 DEF MediaStaysWithItsWork

LEMMA SubmitKeeps ==
    ASSUME IInv, NEW command \in Command, Submit(command)
    PROVE  IInv'
<1>1. PICK w \in Works : SubmitTo(command, w)
  BY DEF Submit
<1>2. PICK row, revs, holder, rows : Written(command, w, row, revs, holder, rows)
  BY <1>1, SubmitWrites
<1>3. TypeOK' /\ PageIsOld' /\ MediaStaysWithItsWork'
  BY <1>2, WrittenTypes, WrittenPage, WrittenMedia
<1>4. Spent' /\ SubmittedOnce' /\ ReceiptsAreTrue'
  BY <1>2, WrittenReceipts
<1>5. Begun' /\ DraftsAreFilled' /\ StoredInputIsKept' /\ NoEditIsOverwritten'
  BY <1>2, WrittenContents
<1>6. PublicAndPendingAreCurrent'
  <2>1. Current(row, revs)
    BY <1>2 DEF Written, WrittenWork
  <2>2. RowsAfter(command, w, row, revs, holder, rows)
    BY <1>2, WrittenRows
  <2>3. \A v \in Works : Current(works[v], revisions[v])'
    BY <2>1, <2>2, CurrentWorks DEF IInv, RowsAfter
  <2> QED  BY <2>3 DEF PublicAndPendingAreCurrent, Current
<1> QED  BY <1>3, <1>4, <1>5, <1>6 DEF IInv

-----------------------------------------------------------------------------
(* The specification. *)

LEMMA InitInv == Init => IInv
<1> SUFFICES ASSUME Init  PROVE IInv
  OBVIOUS
<1> USE DEF Init
<1>1. TypeOK
  <2>1. NoWork \in WorkRow
    BY DEF NoWork, WorkRow, Visibility, OperatorState
  <2>2. NoHolder \in HolderRow
    BY DEF NoHolder, HolderRow
  <2>3. \A w \in Works : works[w].author = Len(revisions[w]) /\ works[w].public <= works[w].author
    BY EmptySeq DEF NoWork
  <2>4. revisions \in [Works -> Seq(RevisionRow)] /\ changes \in [Works -> Nat]
    BY EmptySeq
  <2> QED  BY <2>1, <2>2, <2>3, <2>4 DEF TypeOK
<1>2. Begun /\ DraftsAreFilled /\ Spent /\ PageIsOld /\ ReceiptsAreTrue
  BY DEF Begun, DraftsAreFilled, Spent, PageIsOld, ReceiptsAreTrue, NoWork, NoHolder, Holders
<1>3. PublicAndPendingAreCurrent /\ SubmittedOnce /\ StoredInputIsKept /\ NoEditIsOverwritten
  BY DEF PublicAndPendingAreCurrent, SubmittedOnce, StoredInputIsKept, NoEditIsOverwritten,
         NoWork, NoHolder, Holders
<1>4. MediaStaysWithItsWork
  BY DEF MediaStaysWithItsWork, NoWork
<1> QED  BY <1>1, <1>2, <1>3, <1>4 DEF IInv

LEMMA AuthorStepKeeps ==
    ASSUME IInv, AuthorStep
    PROVE  IInv'
<1>1. CASE \E h \in Holders, content \in Contents : CreateDraft(h, content) \/ SaveDraft(h, content)
  BY <1>1, CreateDraftKeeps, SaveDraftKeeps
<1>2. CASE \E h \in Holders : \E work \in Works \cup {Null} : CreateSession(h, work)
  BY <1>2, CreateSessionKeeps
<1>3. CASE \E h \in Holders, w \in Works : OpenEditDraft(h, w)
  BY <1>3, OpenEditDraftKeeps
<1>4. CASE \E h \in Holders, i \in Items : RegisterItem(h, i)
  BY <1>4, RegisterItemKeeps
<1>5. CASE \E i \in Items : SettleItem(i) \/ CancelItem(i)
  BY <1>5, SettleItemKeeps, CancelItemKeeps
<1>6. CASE \E h \in Holders : EndHolder(h)
  BY <1>6, EndHolderKeeps
<1>7. CASE \E w \in Works : HideWork(w) \/ PublishWork(w) \/ DeleteWork(w)
  BY <1>7, HideWorkKeeps, PublishWorkKeeps, DeleteWorkKeeps
<1> QED  BY <1>1, <1>2, <1>3, <1>4, <1>5, <1>6, <1>7 DEF AuthorStep

LEMMA OperatorStepKeeps ==
    ASSUME IInv, OperatorStep
    PROVE  IInv'
<1>1. CASE \E next \in {"direct", "review"} : SetPolicy(next)
  BY <1>1, SetPolicyKeeps
<1>2. CASE \E w \in Works : ReadWork(w) \/ \E n \in DOMAIN revisions[w] : ReadSubmission(w, n)
  BY <1>2, ReadWorkKeeps, ReadSubmissionKeeps
<1>3. CASE Approve \/ Reject
  BY <1>3, ApproveKeeps, RejectKeeps
<1>4. CASE \E state \in OperatorState : ModerateWork(state)
  BY <1>4, ModerateWorkKeeps
<1> QED  BY <1>1, <1>2, <1>3, <1>4 DEF OperatorStep

LEMMA StutterKeeps ==
    ASSUME IInv, UNCHANGED vars
    PROVE  IInv'
<1>1. page' \in PageRow \cup {Null} /\ PageIsOld'
  BY DEF IInv, TypeOK, PageIsOld, WorkPage, SubmissionPage, Live, vars
<1> QED  BY <1>1, PageKeeps DEF vars

LEMMA SentCommandsAre == SentCommands \subseteq Command
  BY WorksAssumption DEF SentCommands, Command, Bases

LEMMA Step == IInv /\ [Next]_vars => IInv'
<1> SUFFICES ASSUME IInv, [Next]_vars  PROVE IInv'
  OBVIOUS
<1>1. CASE AuthorStep
  BY <1>1, AuthorStepKeeps
<1>2. CASE OperatorStep
  BY <1>2, OperatorStepKeeps
<1>3. CASE \E command \in SentCommands : Submit(command)
  BY <1>3, SubmitKeeps, SentCommandsAre
<1>4. CASE UNCHANGED vars
  BY <1>4, StutterKeeps
<1> QED  BY <1>1, <1>2, <1>3, <1>4 DEF Next

(* For every number of works, drafts, sessions and requests, and any history *)
(* limit: rows keep their types, and the properties of the server's state    *)
(* hold whatever authors and moderators do.                                  *)
THEOREM Invariance == Spec => []IInv
<1>1. Init => IInv
  BY InitInv
<1>2. IInv /\ [Next]_vars => IInv'
  BY Step
<1> QED  BY <1>1, <1>2, PTL DEF Spec

(* What others see is approved and the newest that ever was; what waits for  *)
(* a moderator is what the author wants published now (applyPublicRevision,  *)
(* closePendingRevisions).                                                   *)
THEOREM PublicIsCurrent == Spec => []PublicAndPendingAreCurrent
<1>1. IInv => PublicAndPendingAreCurrent
  BY DEF IInv
<1> QED  BY <1>1, Invariance, PTL

(* Each revision has one receipt and each receipt one revision, and a holder *)
(* is submitted by one request (submitInTransaction, authorCommand).         *)
THEOREM SubmitsOnce == Spec => []SubmittedOnce
<1>1. IInv => SubmittedOnce
  BY DEF IInv
<1> QED  BY <1>1, Invariance, PTL

(* What a draft held when it was submitted is a revision or a pinned         *)
(* snapshot as long as the work lives (transferHolder).                      *)
THEOREM InputIsKept == Spec => []StoredInputIsKept
<1>1. IInv => StoredInputIsKept
  BY DEF IInv
<1> QED  BY <1>1, Invariance, PTL

(* Each revision was written over the one before it (submitInTransaction).   *)
THEOREM EditsFollow == Spec => []NoEditIsOverwritten
<1>1. IInv => NoEditIsOverwritten
  BY DEF IInv
<1> QED  BY <1>1, Invariance, PTL

(* The media of a work's revisions stays ready, and nothing of a deleted     *)
(* work is left to edit (cancelItems, deleteWork).                           *)
THEOREM MediaStays == Spec => []MediaStaysWithItsWork
<1>1. IInv => MediaStaysWithItsWork
  BY DEF IInv
<1> QED  BY <1>1, Invariance, PTL

(* A moderator decides only on what the page showed: the author has not      *)
(* changed the work since (moderateSubmission and moderateWork).             *)
THEOREM DecidesOnWhatWasRead == Spec => DecisionsAreOnWhatWasRead
<1>1. IInv /\ [Next]_vars =>
        [Approve \/ Reject \/ (\E state \in OperatorState : ModerateWork(state))
           => changes[page.work] = page.changes]_vars
  <2> SUFFICES ASSUME IInv,
                      Approve \/ Reject \/ \E state \in OperatorState : ModerateWork(state)
               PROVE  changes[page.work] = page.changes
    OBVIOUS
  <2>1. CASE Approve \/ Reject
    BY <2>1, DecidedOn DEF Approve, Reject
  <2>2. CASE \E state \in OperatorState : ModerateWork(state)
    BY <2>2 DEF ModerateWork, IInv, PageIsOld, WorkPage
  <2> QED  BY <2>1, <2>2
<1> QED  BY <1>1, Invariance, PTL DEF Spec, DecisionsAreOnWhatWasRead

-----------------------------------------------------------------------------
(* The editors. *)

(* A command of a controller, on its way, or with a receipt. *)
Sent(command) ==
    \/ command \in underway
    \/ \E e \in Editors : controller[e].command = command
    \/ \E r \in Requests : receipts[r] # Null /\ receipts[r].command = command

(* A request id stands for one command. *)
RequestsAreOwn == \A c, d \in Command : Sent(c) /\ Sent(d) /\ c.request = d.request => c = d

Has(command) == receipts[command.request] # Null /\ receipts[command.request].command = command

(* Whoever waits has a command; who was told that it is confirmed was told   *)
(* the truth.                                                                *)
ControllerOK(e) ==
    /\ controller[e].status \in {"submitting", "reconciling", "unconfirmed", "confirmed"} =>
          controller[e].command \in Command
    /\ controller[e].status \in {"submitting", "reconciling"} /\ controller[e].call = "confirmed" =>
          Has(controller[e].command)
    /\ controller[e].status = "confirmed" => Has(controller[e].command)

EditorTypes == controller \in [Editors -> ControllerState] /\ underway \subseteq Command

SInv == IInv /\ EditorTypes /\ RequestsAreOwn /\ \A e \in Editors : ControllerOK(e)

LEMMA ReceiptRows ==
    ASSUME IInv, NEW r \in Requests, receipts[r] # Null
    PROVE  receipts[r].command \in Command /\ receipts[r].command.request = r
  BY DEF IInv, TypeOK, ReceiptRow, ReceiptsAreTrue

(* Receipts stay. *)
ReceiptsGrow == \A r \in Requests : receipts[r] # Null => receipts'[r] = receipts[r]

LEMMA SubmitReceipt ==
    ASSUME IInv, NEW command \in Command, Submit(command)
    PROVE  /\ ReceiptsGrow /\ Has(command)'
           /\ \A r \in Requests : r # command.request => receipts'[r] = receipts[r]
<1>1. PICK w \in Works : SubmitTo(command, w)
  BY DEF Submit
<1>2. PICK row, revs, holder, rows : Written(command, w, row, revs, holder, rows)
  BY <1>1, SubmitWrites
<1>3. RowsAfter(command, w, row, revs, holder, rows)
  BY <1>2, WrittenRows
<1>4. [command |-> command, work |-> w, revision |-> Len(revisions[w]) + 1] \in ReceiptRow
  BY Rows DEF IInv, ReceiptRow
<1>5. receipts[command.request] = Null
  BY <1>2 DEF Written, Allowed
<1> QED  BY <1>3, <1>4, <1>5, NullAssumption DEF RowsAfter, Has, ReceiptsGrow

LEMMA OthersKeepReceipts ==
    ASSUME AuthorStep \/ OperatorStep
    PROVE  receipts' = receipts
  BY DEF AuthorStep, OperatorStep, CreateDraft, CreateSession, OpenEditDraft, SaveDraft, RegisterItem,
         SettleItem, CancelItem, EndHolder, HideWork, PublishWork, DeleteWork, SetPolicy, ReadWork,
         ReadSubmission, Approve, Reject, ModerateWork

(* Nothing new is sent. *)
LEMMA NoneSent ==
    ASSUME SInv, \A c \in Command : Sent(c)' => Sent(c)
    PROVE  RequestsAreOwn'
  BY DEF SInv, RequestsAreOwn

(* One controller moves. *)
LEMMA ControllerMoves ==
    ASSUME SInv, ReceiptsGrow, NEW e \in Editors, NEW row \in ControllerState,
           controller' = [controller EXCEPT ![e] = row], ControllerOK(e)'
    PROVE  /\ controller' \in [Editors -> ControllerState]
           /\ \A f \in Editors : ControllerOK(f)'
<1>1. controller \in [Editors -> ControllerState]
  BY DEF SInv, EditorTypes
<1>2. \A f \in Editors : f # e => controller'[f] = controller[f]
  BY <1>1
<1>3. \A c \in Command : Has(c) => Has(c)'
  BY DEF Has, ReceiptsGrow, Command
<1>4. \A f \in Editors : f # e => ControllerOK(f)'
  <2> SUFFICES ASSUME NEW f \in Editors, f # e  PROVE ControllerOK(f)'
    OBVIOUS
  <2>1. controller'[f] = controller[f] /\ ControllerOK(f)
    BY <1>2 DEF SInv
  <2> QED  BY <1>3, <2>1 DEF ControllerOK
<1> QED  BY <1>1, <1>4

LEMMA ControllersStay ==
    ASSUME SInv, ReceiptsGrow, controller' = controller
    PROVE  \A f \in Editors : ControllerOK(f)'
<1>1. \A c \in Command : Has(c) => Has(c)'
  BY DEF Has, ReceiptsGrow, Command
<1> SUFFICES ASSUME NEW f \in Editors  PROVE ControllerOK(f)'
  OBVIOUS
<1> QED  BY <1>1 DEF SInv, ControllerOK

LEMMA ControllerRow ==
    ASSUME SInv, NEW e \in Editors
    PROVE  /\ controller[e] \in ControllerState /\ controller[e].status \in Statuses
           /\ controller[e].command \in Command \cup {Null}
           /\ controller[e].call \in {Null, "sent"} \cup Answers
  BY DEF SInv, EditorTypes, ControllerState

(* A call, or its end: the command stays the same. *)
LEMMA SameCommand ==
    ASSUME SInv, IInv', receipts' = receipts, NEW e \in Editors,
           NEW status \in Statuses, NEW call \in {Null, "sent"} \cup Answers,
           controller' = [controller EXCEPT ![e] = [status |-> status, call |-> call,
                                                    command |-> controller[e].command]],
           underway' \subseteq underway \cup ({controller[e].command} \cap Command),
           ControllerOK(e)'
    PROVE  SInv'
<1> DEFINE row == [status |-> status, call |-> call, command |-> controller[e].command]
<1>1. row \in ControllerState
  BY ControllerRow DEF ControllerState
<1>2. ReceiptsGrow
  BY DEF ReceiptsGrow
<1>3. controller' \in [Editors -> ControllerState] /\ \A f \in Editors : ControllerOK(f)'
  <2> HIDE DEF row
  <2> QED  BY <1>1, <1>2, ControllerMoves DEF row
<1>4. \A f \in Editors : controller'[f].command = controller[f].command
  BY DEF SInv, EditorTypes
<1>5. \A c \in Command : Sent(c)' => Sent(c)
  BY <1>4 DEF Sent
<1> QED  BY <1>3, <1>5, NoneSent DEF SInv, EditorTypes

(* The controller forgets its command. *)
LEMMA Forgets ==
    ASSUME SInv, IInv', receipts' = receipts, NEW e \in Editors,
           NEW status \in {"idle", "failed"},
           controller' = [controller EXCEPT ![e] = [status |-> status, command |-> Null, call |-> Null]],
           underway' \subseteq underway \cup ({controller[e].command} \cap Command)
    PROVE  SInv'
<1> DEFINE row == [status |-> status, command |-> Null, call |-> Null]
<1>1. row \in ControllerState
  BY DEF ControllerState, Statuses
<1>2. ReceiptsGrow
  BY DEF ReceiptsGrow
<1>3. controller'[e] = row
  BY DEF SInv, EditorTypes
<1>4. ControllerOK(e)'
  BY <1>3 DEF ControllerOK
<1>5. controller' \in [Editors -> ControllerState] /\ \A f \in Editors : ControllerOK(f)'
  <2> HIDE DEF row
  <2> QED  BY <1>1, <1>2, <1>4, ControllerMoves DEF row
<1>6. \A f \in Editors : controller'[f].command = controller[f].command \/ controller'[f].command = Null
  BY DEF SInv, EditorTypes
<1>7. \A c \in Command : Sent(c)' => Sent(c)
  BY <1>6, NullAssumption DEF Sent
<1> QED  BY <1>5, <1>7, NoneSent DEF SInv, EditorTypes

LEMMA ControllerIs ==
    ASSUME SInv, NEW e \in Editors
    PROVE  /\ \A status : Settled(e, status) =>
                controller' = [controller EXCEPT ![e] = [status |-> status, call |-> Null,
                                                         command |-> controller[e].command]]
           /\ \A call : [controller EXCEPT ![e].call = call]
                = [controller EXCEPT ![e] = [status |-> controller[e].status, call |-> call,
                                             command |-> controller[e].command]]
<1> DEFINE a == controller[e].status  b == controller[e].call  c == controller[e].command
<1>1. controller \in [Editors -> ControllerState]
      /\ controller[e] = [status |-> a, call |-> b, command |-> c]
  BY DEF SInv, EditorTypes, ControllerState
<1> HIDE DEF a, b, c
<1>2. ASSUME NEW status, Settled(e, status)
      PROVE  controller' = [controller EXCEPT ![e] = [status |-> status, call |-> Null, command |-> c]]
  <2> DEFINE row == [controller[e] EXCEPT !.status = status]
             over == [controller EXCEPT ![e] = row]
  <2>1. row = [status |-> status, call |-> b, command |-> c]
    BY <1>1
  <2>2. controller' = [over EXCEPT ![e] = [row EXCEPT !.call = Null]]
    BY <1>1, <1>2 DEF Settled
  <2>3. [row EXCEPT !.call = Null] = [status |-> status, call |-> Null, command |-> c]
    <3> HIDE DEF row
    <3> QED  BY <2>1
  <2> HIDE DEF row
  <2> QED  BY <1>1, <2>2, <2>3
<1>3. \A call : [controller[e] EXCEPT !.call = call] = [status |-> a, call |-> call, command |-> c]
  BY <1>1
<1> QED  BY <1>2, <1>3 DEF a, c

LEMMA Unchanged ==
    ASSUME SInv, UNCHANGED vars
    PROVE  IInv' /\ receipts' = receipts
  BY StutterKeeps DEF SInv, vars

LEMMA SendCommandKeeps ==
    ASSUME SInv, NEW e \in Editors, NEW h \in Holders, NEW content \in Contents,
           NEW visibility \in Visibility, SendCommand(e, h, content, visibility)
    PROVE  SInv'
<1>1. IInv' /\ receipts' = receipts /\ underway' = underway
  BY Unchanged DEF SendCommand
<1>2. PICK r \in Requests \ UsedRequests, base \in LoadedBases(h) :
        /\ receipts[r] = Null
        /\ Started(e, "submitting", [request |-> r, holder |-> h, content |-> content,
                                     visibility |-> visibility, base |-> base])
  BY DEF SendCommand
<1> DEFINE command == [request |-> r, holder |-> h, content |-> content,
                       visibility |-> visibility, base |-> base]
           row == [status |-> "submitting", command |-> command, call |-> "sent"]
<1>3. base \in Nat
  <2>1. holders[h].base \in Nat
    BY DEF SInv, IInv, TypeOK, HolderRow
  <2>2. holders[h].work # Null => works[holders[h].work].author \in Nat
    BY HolderRows, Rows DEF SInv, IInv
  <2> QED  BY <2>1, <2>2 DEF LoadedBases
<1>4. command \in Command /\ command.request = r
  BY <1>3 DEF Command
<1>5. controller' = [controller EXCEPT ![e] = row]
  BY <1>2 DEF Started
<1> HIDE DEF command
<1>6. row \in ControllerState
  BY <1>4 DEF ControllerState, Statuses
<1>7. controller'[e] = row /\ \A f \in Editors : f # e => controller'[f] = controller[f]
  BY <1>5 DEF SInv, EditorTypes
<1>8. ControllerOK(e)'
  BY <1>4, <1>7 DEF ControllerOK
<1>9. controller' \in [Editors -> ControllerState] /\ \A f \in Editors : ControllerOK(f)'
  <2>1. ReceiptsGrow
    BY <1>1 DEF ReceiptsGrow
  <2> HIDE DEF row
  <2> QED  BY <1>5, <1>6, <1>8, <2>1, ControllerMoves
<1>10. \A c \in Command : Sent(c)' => c = command \/ Sent(c)
  BY <1>1, <1>7 DEF Sent
<1>11. \A c \in Command : Sent(c) => c.request # r
  <2> SUFFICES ASSUME NEW c \in Command, Sent(c), c.request = r  PROVE FALSE
    OBVIOUS
  <2>1. c # Null
    BY NullAssumption
  <2>2. c.request \notin UsedRequests
    BY <1>2
  <2>3. CASE c \in underway
    BY <2>2, <2>3 DEF UsedRequests
  <2>4. CASE \E f \in Editors : controller[f].command = c
    BY <2>1, <2>2, <2>4 DEF UsedRequests
  <2>5. CASE \E q \in Requests : receipts[q] # Null /\ receipts[q].command = c
    BY <1>2, <2>5, ReceiptRows DEF SInv
  <2> QED  BY <2>3, <2>4, <2>5 DEF Sent
<1>12. RequestsAreOwn'
  BY <1>4, <1>10, <1>11 DEF RequestsAreOwn, SInv
<1> QED  BY <1>1, <1>9, <1>12 DEF SInv, EditorTypes

(* The steps of a controller alone. *)
LEMMA ControllerStepKeeps ==
    ASSUME SInv, NEW e \in Editors,
           \/ Retry(e) \/ CheckAgain(e) \/ ResetController(e) \/ ReportFailure(e) \/ Reload(e)
           \/ Answered(e) \/ AnswerLost(e) \/ Reconciled(e)
    PROVE  SInv'
<1> DEFINE row(status, call) == [status |-> status, call |-> call,
                                 command |-> controller[e].command]
<1>1. IInv' /\ receipts' = receipts
  BY Unchanged DEF Retry, CheckAgain, ResetController, ReportFailure, Reload, Answered, AnswerLost,
                   Reconciled
<1>2. ControllerOK(e) /\ controller \in [Editors -> ControllerState]
  BY DEF SInv, EditorTypes
<1>3. \A status, call : row(status, call) = [status |-> status, command |-> controller[e].command,
                                             call |-> call]
  OBVIOUS
<1>4. Abandoned(e) \subseteq underway \cup ({controller[e].command} \cap Command)
  BY <1>2 DEF Abandoned, ControllerOK
<1>5. CASE Retry(e)
  <2>1. controller' = [controller EXCEPT ![e] = row("submitting", "sent")] /\ underway' = underway
    BY <1>3, <1>5 DEF Retry, Started
  <2>2. ControllerOK(e)'
    BY <1>2, <1>5, <2>1 DEF Retry, ControllerOK
  <2> QED  BY <1>1, <2>1, <2>2, SameCommand DEF Statuses
<1>6. CASE CheckAgain(e)
  <2>1. controller' = [controller EXCEPT ![e] = row("reconciling", "sent")] /\ underway' = underway
    BY <1>3, <1>6 DEF CheckAgain, Started
  <2>2. ControllerOK(e)'
    BY <1>2, <1>6, <2>1 DEF CheckAgain, ControllerOK
  <2> QED  BY <1>1, <2>1, <2>2, SameCommand DEF Statuses
<1>7. CASE AnswerLost(e)
  <2>1. controller' = [controller EXCEPT ![e] = row("reconciling", "sent")]
        /\ underway' = Abandoned(e)
    BY <1>3, <1>7 DEF AnswerLost, Started
  <2>2. ControllerOK(e)'
    BY <1>2, <1>7, <2>1 DEF AnswerLost, ControllerOK
  <2> QED  BY <1>1, <1>4, <2>1, <2>2, SameCommand DEF Statuses
<1>8. CASE Answered(e)
  <2> DEFINE status == CASE controller[e].call = "confirmed" -> "confirmed"
                         [] controller[e].call = "not_ready" -> "not_ready"
                         [] OTHER -> "failed"
  <2>1. controller' = [controller EXCEPT ![e] = row(status, Null)] /\ underway' = underway
    BY <1>8, ControllerIs DEF Answered
  <2>2. status \in {"confirmed", "not_ready", "failed"}
        /\ (status = "confirmed" => controller[e].call = "confirmed")
    OBVIOUS
  <2> HIDE DEF status
  <2>3. controller'[e] = row(status, Null)
    BY <1>2, <2>1
  <2>4. ControllerOK(e)'
    BY <1>1, <1>2, <1>8, <2>2, <2>3 DEF Answered, ControllerOK, Has
  <2> QED  BY <1>1, <2>1, <2>2, <2>4, SameCommand DEF Statuses
<1>9. CASE Reconciled(e)
  <2>1. PICK status \in {"confirmed", "unconfirmed"} :
          /\ controller' = [controller EXCEPT ![e] = row(status, Null)]
          /\ status = "confirmed" => controller[e].call = "confirmed"
    BY <1>9, ControllerIs DEF Reconciled
  <2>2. controller'[e] = row(status, Null) /\ underway' = underway
    BY <1>2, <1>9, <2>1 DEF Reconciled
  <2>3. ControllerOK(e)'
    BY <1>1, <1>2, <1>9, <2>1, <2>2 DEF Reconciled, ControllerOK, Has
  <2> QED  BY <1>1, <2>1, <2>2, <2>3, SameCommand DEF Statuses
<1>10. CASE ResetController(e) \/ Reload(e)
  <2>1. controller' = [controller EXCEPT ![e] = [status |-> "idle", command |-> Null, call |-> Null]]
        /\ underway' \in {underway, Abandoned(e)}
    BY <1>10 DEF ResetController, Reload, Idle
  <2> QED  BY <1>1, <1>4, <2>1, Forgets
<1>11. CASE ReportFailure(e)
  <2>1. [Idle EXCEPT !.status = "failed"] = [status |-> "failed", command |-> Null, call |-> Null]
    BY DEF Idle
  <2>2. controller' = [controller EXCEPT ![e] = [status |-> "failed", command |-> Null, call |-> Null]]
        /\ underway' = underway
    BY <1>11, <2>1 DEF ReportFailure
  <2> QED  BY <1>1, <2>2, Forgets
<1> QED  BY <1>5, <1>6, <1>7, <1>8, <1>9, <1>10, <1>11

LEMMA ServeReceiptKeeps ==
    ASSUME SInv, NEW e \in Editors, ServeReceipt(e)
    PROVE  SInv'
<1> DEFINE command == controller[e].command
           call == IF Known(command) THEN "confirmed" ELSE "no_receipt"
<1>1. IInv' /\ receipts' = receipts /\ underway' = underway
  BY Unchanged DEF ServeReceipt
<1>2. controller' = [controller EXCEPT ![e] = [status |-> controller[e].status, call |-> call,
                                               command |-> controller[e].command]]
  BY ControllerIs DEF ServeReceipt
<1>3. command \in Command /\ controller[e].status = "reconciling"
  BY DEF ServeReceipt, SInv, ControllerOK
<1>4. Known(command) => Has(command)
  <2> SUFFICES ASSUME Known(command)  PROVE Has(command)
    OBVIOUS
  <2> DEFINE other == receipts[command.request].command
  <2>1. command.request \in Requests /\ receipts[command.request] # Null
    BY <1>3 DEF Known, Command
  <2>2. other \in Command /\ other.request = command.request
    BY <2>1, ReceiptRows DEF SInv
  <2>3. Sent(other) /\ Sent(command)
    BY <2>1 DEF Sent
  <2>4. other = command
    BY <1>3, <2>2, <2>3 DEF SInv, RequestsAreOwn
  <2> QED  BY <2>1, <2>4 DEF Has
<1>5. call \in Answers /\ (call = "confirmed" => Known(command))
  BY DEF Answers
<1> HIDE DEF call
<1>6. controller'[e] = [status |-> controller[e].status, call |-> call, command |-> command]
  BY <1>2 DEF SInv, EditorTypes
<1>7. ControllerOK(e)'
  BY <1>1, <1>3, <1>4, <1>5, <1>6 DEF ControllerOK, Has
<1> QED  BY <1>1, <1>2, <1>3, <1>5, <1>7, SameCommand DEF Statuses

(* The server executes a command that was sent. *)
LEMMA Executes ==
    ASSUME SInv, NEW command \in Command, NEW answer \in Answers, Execute(command, answer)
    PROVE  /\ IInv' /\ ReceiptsGrow /\ (answer = "confirmed" => Has(command)')
           /\ \A r \in Requests : r # command.request => receipts'[r] = receipts[r]
           /\ receipts'[command.request] = receipts[command.request] \/ Has(command)'
<1>1. CASE Submit(command)
  BY <1>1, SubmitKeeps, SubmitReceipt DEF SInv
<1>2. CASE UNCHANGED vars /\ (answer = "confirmed" => Replayed(command))
  BY <1>2, Unchanged DEF Replayed, Known, Has, ReceiptsGrow
<1> QED  BY <1>1, <1>2 DEF Execute

LEMMA ExecutesSent ==
    ASSUME SInv, NEW command \in Command, NEW answer \in Answers, Execute(command, answer),
           Sent(command), underway' \subseteq underway,
           \A e \in Editors : controller'[e].command = controller[e].command
    PROVE  RequestsAreOwn'
<1>1. \A r \in Requests : receipts'[r] = receipts[r] \/ receipts'[r].command = command
  BY Executes DEF Has
<1>2. \A c \in Command : Sent(c)' => Sent(c)
  BY <1>1 DEF Sent
<1> QED  BY <1>2, NoneSent

LEMMA ServeSubmitKeeps ==
    ASSUME SInv, NEW e \in Editors, NEW answer \in Answers, ServeSubmit(e, answer)
    PROVE  SInv'
<1>1. PICK command \in Command :
        /\ controller[e].command = command /\ controller[e].status = "submitting"
        /\ Execute(command, answer) /\ underway' = underway
  BY DEF ServeSubmit, SInv, ControllerOK
<1> DEFINE row == [status |-> controller[e].status, call |-> answer, command |-> command]
<1>2. controller' = [controller EXCEPT ![e] = row]
  BY <1>1, ControllerIs DEF ServeSubmit
<1>3. IInv' /\ ReceiptsGrow /\ (answer = "confirmed" => Has(command)')
  BY <1>1, Executes
<1>4. controller'[e] = row /\ \A f \in Editors : controller'[f].command = controller[f].command
  BY <1>1, <1>2 DEF SInv, EditorTypes
<1>5. ControllerOK(e)'
  BY <1>1, <1>3, <1>4 DEF ControllerOK, Has
<1>6. row \in ControllerState
  BY <1>1, ControllerRow DEF ControllerState
<1>7. controller' \in [Editors -> ControllerState] /\ \A f \in Editors : ControllerOK(f)'
  <2> HIDE DEF row
  <2> QED  BY <1>2, <1>3, <1>5, <1>6, ControllerMoves
<1>8. RequestsAreOwn'
  <2>1. Sent(command)
    BY <1>1 DEF Sent
  <2> QED  BY <1>1, <1>4, <2>1, ExecutesSent
<1> QED  BY <1>1, <1>3, <1>7, <1>8 DEF SInv, EditorTypes

LEMMA ServeLateKeeps ==
    ASSUME SInv, NEW command \in underway, ServeLate(command)
    PROVE  SInv'
<1>1. PICK answer \in Answers : Execute(command, answer)
  BY DEF ServeLate
<1>2. command \in Command /\ underway' \subseteq underway /\ controller' = controller
  BY DEF ServeLate, SInv, EditorTypes
<1>3. IInv' /\ ReceiptsGrow
  BY <1>1, <1>2, Executes
<1>4. Sent(command)
  BY DEF Sent
<1>5. RequestsAreOwn'
  BY <1>1, <1>2, <1>4, ExecutesSent
<1>6. \A f \in Editors : ControllerOK(f)'
  BY <1>2, <1>3, ControllersStay
<1> QED  BY <1>2, <1>3, <1>5, <1>6 DEF SInv, EditorTypes

LEMMA SubmissionStep == SInv /\ [SubmissionNext]_allVars => SInv'
<1> SUFFICES ASSUME SInv, [SubmissionNext]_allVars  PROVE SInv'
  OBVIOUS
<1>1. CASE EditorStep
  <2>1. PICK e \in Editors :
          \/ \E h \in Holders, content \in Contents, visibility \in Visibility :
               SendCommand(e, h, content, visibility)
          \/ Retry(e) \/ CheckAgain(e) \/ ResetController(e) \/ ReportFailure(e)
          \/ Reload(e)
          \/ Answered(e) \/ AnswerLost(e) \/ Reconciled(e)
    BY <1>1 DEF EditorStep
  <2> QED  BY <2>1, SendCommandKeeps, ControllerStepKeeps
<1>2. CASE ServerStep
  BY <1>2, ServeReceiptKeeps, ServeSubmitKeeps, ServeLateKeeps DEF ServerStep
<1>3. CASE (AuthorStep \/ OperatorStep) /\ UNCHANGED submissionVars
  <2>1. IInv' /\ receipts' = receipts /\ controller' = controller /\ underway' = underway
    BY <1>3, AuthorStepKeeps, OperatorStepKeeps, OthersKeepReceipts DEF SInv, submissionVars
  <2>2. ReceiptsGrow
    BY <2>1 DEF ReceiptsGrow
  <2>3. RequestsAreOwn'
    BY <2>1, NoneSent DEF Sent
  <2>4. \A f \in Editors : ControllerOK(f)'
    BY <2>1, <2>2, ControllersStay
  <2> QED  BY <2>1, <2>3, <2>4 DEF SInv, EditorTypes
<1>4. CASE UNCHANGED allVars
  <2>1. UNCHANGED vars /\ controller' = controller /\ underway' = underway
    BY <1>4 DEF allVars, vars
  <2>2. IInv' /\ receipts' = receipts
    BY <2>1, Unchanged
  <2>3. ReceiptsGrow
    BY <2>2 DEF ReceiptsGrow
  <2>4. RequestsAreOwn'
    BY <2>1, <2>2, NoneSent DEF Sent
  <2>5. \A f \in Editors : ControllerOK(f)'
    BY <2>1, <2>3, ControllersStay
  <2> QED  BY <2>1, <2>2, <2>4, <2>5 DEF SInv, EditorTypes
<1> QED  BY <1>1, <1>2, <1>3, <1>4 DEF SubmissionNext

LEMMA SubmissionInitInv == SubmissionInit => SInv
<1> SUFFICES ASSUME SubmissionInit  PROVE SInv
  OBVIOUS
<1>1. IInv
  BY InitInv DEF SubmissionInit
<1>2. EditorTypes
  BY DEF SubmissionInit, EditorTypes, ControllerState, Idle, Statuses
<1>3. \A c \in Command : ~ Sent(c)
  BY NullAssumption DEF Sent, SubmissionInit, Init, Idle
<1>4. \A e \in Editors : ControllerOK(e)
  BY DEF ControllerOK, SubmissionInit, Idle
<1> QED  BY <1>1, <1>2, <1>3, <1>4 DEF SInv, RequestsAreOwn

(* For any number of editors, and however submissions, answers and receipt   *)
(* queries are lost, late or repeated: an editor that says "confirmed" has   *)
(* the receipt of its own command, and the work, while it lives, has the     *)
(* content (createSubmissionController, authorCommand).                      *)
THEOREM ConfirmationIsTrue == SubmissionSpec => []ConfirmedIsSubmitted
<1>1. SubmissionInit => SInv
  BY SubmissionInitInv
<1>2. SInv /\ [SubmissionNext]_allVars => SInv'
  BY SubmissionStep
<1>3. SInv => ConfirmedIsSubmitted
  <2> SUFFICES ASSUME SInv, NEW e \in Editors, controller[e].status = "confirmed"
               PROVE  LET command == controller[e].command
                          receipt == receipts[command.request]
                      IN /\ receipt # Null
                         /\ receipt.command = command
                         /\ works[receipt.work].state = "live" =>
                              revisions[receipt.work][receipt.revision].content = command.content
    BY DEF ConfirmedIsSubmitted
  <2>1. controller[e].command \in Command /\ Has(controller[e].command)
    BY DEF SInv, ControllerOK
  <2>2. controller[e].command.request \in Requests
    BY <2>1 DEF Command
  <2> QED  BY <2>1, <2>2 DEF Has, SInv, IInv, ReceiptsAreTrue
<1> QED  BY <1>1, <1>2, <1>3, PTL DEF SubmissionSpec

(* The same for the server's own properties: with editors over a network     *)
(* they hold as well.                                                        *)
THEOREM ServerWithEditors ==
    SubmissionSpec => [](TypeOK /\ PublicAndPendingAreCurrent /\ SubmittedOnce
                         /\ StoredInputIsKept /\ NoEditIsOverwritten /\ MediaStaysWithItsWork)
<1>1. SInv => /\ TypeOK /\ PublicAndPendingAreCurrent /\ SubmittedOnce
              /\ StoredInputIsKept /\ NoEditIsOverwritten /\ MediaStaysWithItsWork
  BY DEF SInv, IInv
<1> QED  BY <1>1, SubmissionInitInv, SubmissionStep, PTL DEF SubmissionSpec
=============================================================================
