---------------------- MODULE PublishingProcessingProofs ----------------------
(***************************************************************************)
(* The processing of uploaded items, for any items, jobs, worker slots,     *)
(* owners, numbers of attempts and of uploads, whether or not database      *)
(* calls take effect after their lease: types, that an item's first upload  *)
(* always has a job that will answer it, and that settled items stay.       *)
(*                                                                          *)
(* FirstUploadHasJob is not inductive: that a run may complete a job, or    *)
(* fail an item again, rests on what the run has seen of the item.  IInv    *)
(* adds it: a row of the table belongs to an item that was uploaded, a run  *)
(* to a row, and the item of a run that is done with it has left its first  *)
(* processing (Passed).  Every step goes Forward, so a run that only waits  *)
(* stays right.                                                             *)
(***************************************************************************)
EXTENDS PublishingProcessing, PublishingJobsProofs

Typed == TableOK /\ item \in [Items -> Item] /\ run \in [Runs -> Run]

LEMMA TypedIs == Typed => TypeOK
  BY TableOKIs DEF Typed, TypeOK

Passed(i) == item[i].state # "processing" \/ item[i].bytes >= 2

RowsAreUploads ==
    \A j \in JobIds : jobs[j].state # "absent" =>
        jobs[j].key \in Items /\ item[jobs[j].key].bytes >= 1

RunGood(r) ==
    /\ Busy(r) => run[r].job \in JobIds /\ jobs[run[r].job].state # "absent"
    /\ run[r].at \in {"completed", "notifying"} => Passed(SubjectOf(r))

IInv == /\ Typed
        /\ RowsAreUploads
        /\ \A r \in Runs : RunGood(r)
        /\ FirstUploadHasJob

-----------------------------------------------------------------------------
(* What no step takes back: bytes are only added, an item comes to be       *)
(* processed only by an upload, and a row keeps its item while a run has it. *)
ItemsForward ==
    \A i \in Items :
        /\ item[i].bytes <= item'[i].bytes
        /\ item'[i].state = "processing" =>
              item'[i] = item[i] \/ item'[i].bytes = item[i].bytes + 1

RowsForward ==
    \A j \in JobIds :
        /\ (\E r \in Runs : run[r].job = j /\ Busy(r)) /\ jobs[j].state # "absent" =>
              jobs'[j].state # "absent" /\ jobs'[j].key = jobs[j].key
        /\ jobs'[j].state # "absent" =>
              \/ jobs[j].state # "absent" /\ jobs'[j].key = jobs[j].key
              \/ jobs'[j].key \in Items /\ item'[jobs'[j].key].bytes >= 1

LEMMA Bytes ==
    ASSUME Typed
    PROVE  \A i \in Items : item[i] \in Item /\ item[i].bytes \in Nat
  BY UploadsAssumption DEF Typed, Item

LEMMA BytesThen ==
    ASSUME Typed'
    PROVE  \A i \in Items : item'[i] \in Item /\ item'[i].bytes \in Nat
  BY UploadsAssumption DEF Typed, Item

LEMMA PassedStays ==
    ASSUME Typed, Typed', ItemsForward
    PROVE  \A i \in Items : item[i].bytes >= 1 /\ Passed(i) => Passed(i)'
  BY Bytes, BytesThen DEF ItemsForward, Passed

LEMMA RowsStay ==
    ASSUME IInv, Typed', ItemsForward, RowsForward
    PROVE  RowsAreUploads'
<1> SUFFICES ASSUME NEW j \in JobIds, jobs'[j].state # "absent"
             PROVE  jobs'[j].key \in Items /\ item'[jobs'[j].key].bytes >= 1
  BY DEF RowsAreUploads
<1>1. CASE jobs[j].state # "absent" /\ jobs'[j].key = jobs[j].key
  <2>1. jobs[j].key \in Items /\ item[jobs[j].key].bytes >= 1
    BY <1>1 DEF IInv, RowsAreUploads
  <2> QED  BY <1>1, <2>1, Bytes, BytesThen DEF IInv, ItemsForward
<1> QED  BY <1>1 DEF RowsForward

(* A run that waits, whether or not it is told that its lease is over. *)
LEMMA WaitingRun ==
    ASSUME IInv, Typed', ItemsForward, RowsForward, NEW r \in Runs,
           run'[r].at = run[r].at, run'[r].job = run[r].job
    PROVE  RunGood(r)'
<1>1. CASE ~ Busy(r)
  BY <1>1 DEF RunGood, Busy
<1>2. CASE Busy(r)
  <2> DEFINE j == run[r].job
             i == jobs[j].key
  <2>1. j \in JobIds /\ jobs[j].state # "absent"
    BY <1>2 DEF IInv, RunGood
  <2>2. jobs'[j].state # "absent" /\ jobs'[j].key = i
    BY <1>2, <2>1 DEF RowsForward
  <2>3. i \in Items /\ item[i].bytes >= 1
    BY <2>1 DEF IInv, RowsAreUploads
  <2>4. ASSUME run[r].at \in {"completed", "notifying"}
        PROVE  item'[i].state # "processing" \/ item'[i].bytes >= 2
    <3>1. Passed(i)
      BY <2>4 DEF IInv, RunGood, SubjectOf
    <3>2. item[i].state # "processing" \/ item[i].bytes >= 2
      BY <3>1 DEF Passed
    <3> QED  BY <2>3, <3>2, Bytes, BytesThen DEF IInv, ItemsForward
  <2> QED  BY <2>1, <2>2, <2>4 DEF RunGood, Busy, SubjectOf, Passed
<1> QED  BY <1>1, <1>2

(* One run steps, to one that is good; the others wait. *)
LEMMA OneRuns ==
    ASSUME IInv, Typed', ItemsForward, RowsForward, NEW r \in Runs, RunGood(r)',
           \A p \in Runs \ {r} : run'[p] = run[p]
    PROVE  \A p \in Runs : RunGood(p)'
<1> TAKE p \in Runs
<1>1. CASE p = r  BY <1>1
<1>2. CASE p # r  BY <1>2, WaitingRun
<1> QED  BY <1>1, <1>2

(* Steps that leave the items, or the rows, alone. *)
LEMMA SameItems == Typed /\ UNCHANGED item => ItemsForward
  BY Bytes DEF ItemsForward

LEMMA SameRows == UNCHANGED jobs => RowsForward
  BY DEF RowsForward

(* No job that answers an item ends. *)
LEMMA JobsGoOn ==
    ASSUME FirstUploadHasJob, UNCHANGED item,
           \A j \in JobIds : jobs[j].state \in Active =>
               jobs'[j].state \in Active /\ jobs'[j].key = jobs[j].key
    PROVE  FirstUploadHasJob'
  BY DEF FirstUploadHasJob, First, ActiveJob, IsActive

(* Items settle, and no job ends but of an item that did. *)
LEMMA ItemsSettle ==
    ASSUME IInv, NEW S \in SUBSET Items, FailProcessingItems(S),
           \A j \in JobIds : jobs[j].state \in Active /\ jobs[j].key \notin S =>
               jobs'[j].state \in Active /\ jobs'[j].key = jobs[j].key
    PROVE  /\ item' \in [Items -> Item]
           /\ ItemsForward
           /\ FirstUploadHasJob'
           /\ \A i \in S : item'[i].state # "processing"
           /\ \A i \in Items \ S : item'[i] = item[i]
           /\ \A i \in Items : item[i].state # "processing" => item'[i] = item[i]
<1>1. \A i \in Items : item[i] \in Item /\ [item[i] EXCEPT !.state = "failed"] \in Item
                       /\ [item[i] EXCEPT !.state = "failed"].state = "failed"
                       /\ [item[i] EXCEPT !.state = "failed"].bytes = item[i].bytes
  BY Bytes DEF IInv, Item, ItemStates
<1>2. \A i \in Items : item'[i] = IF i \in S /\ item[i].state = "processing"
                                  THEN [item[i] EXCEPT !.state = "failed"] ELSE item[i]
  BY DEF FailProcessingItems
<1>3. item' \in [Items -> Item]
  BY <1>1 DEF FailProcessingItems
<1>4. ItemsForward
  <2>1. \A i \in Items : item'[i].bytes = item[i].bytes
    BY <1>1, <1>2
  <2>2. \A i \in Items : item'[i].state = "processing" => item'[i] = item[i]
    BY <1>1, <1>2
  <2>3. \A i \in Items : item[i].bytes <= item'[i].bytes
    BY <2>1, Bytes DEF IInv
  <2> QED  BY <2>2, <2>3 DEF ItemsForward
<1>5. \A i \in S : item'[i].state # "processing"
  BY <1>1, <1>2
<1>6. \A i \in Items : item'[i].state = "processing" => i \notin S /\ item'[i] = item[i]
  BY <1>1, <1>2
<1>7. FirstUploadHasJob'
  BY <1>6 DEF IInv, FirstUploadHasJob, First, ActiveJob, IsActive
<1> QED  BY <1>2, <1>3, <1>4, <1>5, <1>7

-----------------------------------------------------------------------------
(* The author. *)

LEMMA CommitUploadKeeps ==
    ASSUME IInv, NEW i \in Items, CommitUpload(i)
    PROVE  IInv'
<1>0. item[i] \in Item /\ item[i].bytes \in Nat /\ item[i].bytes < MaxUploads
  BY Bytes DEF IInv, CommitUpload
<1> PICK more \in 0..MaxUploads : more = item[i].bytes + 1
  BY <1>0, UploadsAssumption
<1> DEFINE row == [item[i] EXCEPT !.state = "processing", !.bytes = more]
<1>1. /\ item[i].state = "awaiting_upload" /\ InsertJob(i) /\ UNCHANGED run
      /\ item' = [item EXCEPT ![i] = row]
  BY <1>0 DEF IInv, Typed, CommitUpload, Item
<1>2. row \in Item /\ row.state = "processing" /\ row.bytes = item[i].bytes + 1
  BY <1>0 DEF Item, ItemStates
<1>3. i \in Keys
  BY KeysAreItems
<1>4. TableOK'
  BY <1>1, <1>3, InsertTable DEF IInv, Typed
<1>5. Typed'
  BY <1>1, <1>2, <1>4 DEF IInv, Typed
<1>6. item'[i] = row /\ \A k \in Items \ {i} : item'[k] = item[k]
  BY <1>1 DEF IInv, Typed
<1>7. ItemsForward
  BY <1>0, <1>1, <1>2, <1>6, Bytes DEF IInv, ItemsForward
<1>8. \A j \in JobIds : jobs'[j] = jobs[j] \/ (jobs[j].state = "absent" /\ jobs'[j].key = i)
  <2>1. QueuedRow(i).key = i
    BY DEF QueuedRow, Absent
  <2>2. ASSUME NEW a \in JobIds, AddRow(a, i)
        PROVE  \A j \in JobIds : jobs'[j] = jobs[j] \/ (jobs[j].state = "absent" /\ jobs'[j].key = i)
    <3>1. jobs \in [JobIds -> JobRow]
      BY DEF IInv, Typed, TableOK
    <3>2. jobs[a].state = "absent" /\ jobs' = [jobs EXCEPT ![a] = QueuedRow(i)]
      BY <2>2 DEF AddRow
    <3>3. jobs'[a] = QueuedRow(i) /\ \A j \in JobIds \ {a} : jobs'[j] = jobs[j]
      BY <3>1, <3>2
    <3>4. jobs'[a].key = i
      BY <2>1, <3>3
    <3> TAKE j \in JobIds
    <3>5. CASE j = a
      BY <3>2, <3>4, <3>5
    <3>6. CASE j # a
      BY <3>3, <3>6
    <3> QED  BY <3>5, <3>6
  <2>3. UNCHANGED jobs \/ \E a \in JobIds : AddRow(a, i)
    BY <1>1 DEF InsertJob
  <2>4. CASE UNCHANGED jobs
    BY <2>4
  <2>5. CASE \E a \in JobIds : AddRow(a, i)
    <3> PICK a \in JobIds : AddRow(a, i)
      BY <2>5
    <3> QED  BY <2>2
  <2> QED  BY <2>3, <2>4, <2>5
<1>9. RowsForward
  <2>1. item'[i].bytes >= 1
    BY <1>0, <1>2, <1>6
  <2> QED  BY <1>8, <2>1 DEF RowsForward
<1>10. \A r \in Runs : RunGood(r)'
  BY <1>1, <1>5, <1>7, <1>9, WaitingRun
<1>11. ActiveJob(i)'
  BY <1>1 DEF InsertJob, AddRow, QueuedRow, Absent, ActiveJob, IsActive, Active, IInv, Typed, TableOK
<1>12. \A k \in Items : ActiveJob(k) => ActiveJob(k)'
  BY <1>8 DEF ActiveJob, IsActive, Active
<1>13. FirstUploadHasJob'
  BY <1>6, <1>11, <1>12 DEF IInv, FirstUploadHasJob, First
<1> QED  BY <1>5, <1>7, <1>9, <1>10, <1>13, RowsStay DEF IInv

LEMMA ItemLeavesKeeps ==
    ASSUME IInv, NEW i \in Items, ResetComponent(i) \/ CancelItem(i)
    PROVE  IInv'
<1>1. PICK s \in ItemStates \ {"processing"} : SetState(i, s) /\ UNCHANGED <<jobs, run>>
  BY DEF ResetComponent, CancelItem, ItemStates
<1> DEFINE row == [item[i] EXCEPT !.state = s]
<1>2. row \in Item /\ row.state # "processing" /\ row.bytes = item[i].bytes
  BY <1>1, Bytes DEF IInv, Item
<1>3. item' = [item EXCEPT ![i] = row] /\ item'[i] = row /\ \A k \in Items \ {i} : item'[k] = item[k]
  BY <1>1 DEF SetState, IInv, Typed
<1>4. Typed'
  BY <1>1, <1>2, <1>3 DEF IInv, Typed, TableOK, RowOK
<1>5. ItemsForward
  BY <1>2, <1>3, Bytes DEF IInv, ItemsForward
<1>6. RowsForward
  BY <1>1, SameRows
<1>7. \A r \in Runs : RunGood(r)'
  BY <1>1, <1>4, <1>5, <1>6, WaitingRun
<1>8. FirstUploadHasJob'
  BY <1>1, <1>2, <1>3 DEF IInv, FirstUploadHasJob, First, ActiveJob, IsActive
<1> QED  BY <1>4, <1>5, <1>6, <1>7, <1>8, RowsStay DEF IInv

-----------------------------------------------------------------------------
(* Runs. *)

LEMMA FreeIsRun == Free \in Run
  BY UploadsAssumption DEF Free, Run, Steps

LEMMA EndSets ==
    ASSUME Typed, NEW r \in Runs, EndRun(r)
    PROVE  /\ run' \in [Runs -> Run] /\ run'[r] = Free
           /\ \A p \in Runs \ {r} : run'[p] = run[p]
  BY FreeIsRun DEF Typed, EndRun

LEMMA GotoSets ==
    ASSUME Typed, NEW r \in Runs, NEW step \in Steps, Goto(r, step)
    PROVE  /\ run' \in [Runs -> Run]
           /\ run'[r].at = step /\ run'[r].job = run[r].job
           /\ \A p \in Runs \ {r} : run'[p] = run[p]
<1>1. run[r] \in Run
  BY DEF Typed
<1>2. [run[r] EXCEPT !.at = step] \in Run
  BY <1>1 DEF Run
<1> QED  BY <1>1, <1>2 DEF Typed, Goto, Run

LEMMA FreeIsGood ==
    ASSUME NEW r \in Runs, run'[r] = Free
    PROVE  RunGood(r)'
  BY DEF RunGood, Busy, Free

(* A run that ends and changes no item. *)
LEMMA EndingKeeps ==
    ASSUME IInv, NEW r \in Runs, EndRun(r), UNCHANGED item, TableOK', RowsForward,
           FirstUploadHasJob'
    PROVE  IInv'
<1>1. Typed'
  BY EndSets DEF IInv, Typed
<1>2. ItemsForward
  BY SameItems DEF IInv
<1>3. \A p \in Runs : RunGood(p)'
  BY <1>1, <1>2, EndSets, FreeIsGood, OneRuns DEF IInv
<1> QED  BY <1>1, <1>2, <1>3, RowsStay DEF IInv

LEMMA SameJobsKeep ==
    ASSUME IInv, UNCHANGED <<jobs, item>>
    PROVE  TableOK' /\ RowsForward /\ FirstUploadHasJob'
  BY SameRows DEF IInv, Typed, TableOK, RowOK, FirstUploadHasJob, First, ActiveJob, IsActive

(* A run that goes on and changes no row. *)
LEMMA GoingOnKeeps ==
    ASSUME IInv, NEW r \in Runs, NEW step \in Steps, Goto(r, step), Busy(r),
           UNCHANGED jobs, item' \in [Items -> Item], ItemsForward, FirstUploadHasJob',
           step \in {"completed", "notifying"} => item'[SubjectOf(r)].state # "processing"
    PROVE  IInv'
<1>1. Typed'
  BY GotoSets DEF IInv, Typed, TableOK, RowOK
<1>2. RowsForward
  BY SameRows
<1>3. run'[r].at = step /\ run'[r].job = run[r].job /\ \A p \in Runs \ {r} : run'[p] = run[p]
  BY GotoSets DEF IInv
<1>4. RunGood(r)'
  BY <1>3 DEF IInv, RunGood, Busy, SubjectOf, Passed
<1>5. \A p \in Runs : RunGood(p)'
  BY <1>1, <1>2, <1>3, <1>4, OneRuns
<1> QED  BY <1>1, <1>2, <1>5, RowsStay DEF IInv

LEMMA GoingOnQuietlyKeeps ==
    ASSUME IInv, NEW r \in Runs, NEW step \in Steps, Goto(r, step), Busy(r),
           UNCHANGED <<jobs, item>>,
           step \in {"completed", "notifying"} => item[SubjectOf(r)].state # "processing"
    PROVE  IInv'
<1>1. ItemsForward /\ item' \in [Items -> Item]
  BY SameItems DEF IInv, Typed
<1> QED  BY <1>1, SameJobsKeep, GoingOnKeeps

LEMMA StartRunKeeps ==
    ASSUME IInv, NEW r \in Runs, StartRun(r)
    PROVE  IInv'
<1>1. PICK j \in JobIds, o \in Owners :
         /\ ClaimJobs({j}, o, 1) /\ UNCHANGED item
         /\ run' = [run EXCEPT ![r] = [Free EXCEPT !.at = "reading", !.job = j, !.owner = o]]
  BY DEF StartRun
<1> DEFINE new == [Free EXCEPT !.at = "reading", !.job = j, !.owner = o]
<1>2. new \in Run /\ new.at = "reading" /\ new.job = j
  <2>1. "reading" \in Steps /\ Free \in Run
    BY FreeIsRun DEF Steps
  <2> QED  BY <2>1 DEF Free, Run
<1>3. run' \in [Runs -> Run] /\ run'[r] = new /\ \A p \in Runs \ {r} : run'[p] = run[p]
  BY <1>1, <1>2 DEF IInv, Typed
<1>4. TableOK'
  BY <1>1, ClaimTable DEF IInv, Typed
<1>5. Typed'
  BY <1>1, <1>3, <1>4 DEF IInv, Typed
<1>6. /\ \A k \in JobIds \ {j} : jobs'[k] = jobs[k]
      /\ jobs[j].state = "queued" /\ jobs'[j].state = "running" /\ jobs'[j].key = jobs[j].key
  BY <1>1 DEF ClaimJobs, Due, IInv, Typed, TableOK, JobRow
<1>7. RowsForward
  BY <1>6 DEF RowsForward
<1>8. ItemsForward
  BY <1>1, SameItems DEF IInv
<1>9. FirstUploadHasJob'
  <2>1. \A k \in JobIds : jobs[k].state \in Active =>
            jobs'[k].state \in Active /\ jobs'[k].key = jobs[k].key
    BY <1>6 DEF Active
  <2> QED  BY <1>1, <2>1, JobsGoOn DEF IInv
<1>10. RunGood(r)'
  BY <1>2, <1>3, <1>6 DEF RunGood, Busy
<1>11. \A p \in Runs : RunGood(p)'
  BY <1>3, <1>5, <1>7, <1>8, <1>10, OneRuns
<1> QED  BY <1>5, <1>7, <1>8, <1>9, <1>11, RowsStay DEF IInv

LEMMA ReadProcessingKeeps ==
    ASSUME IInv, NEW r \in Runs, ReadProcessing(r)
    PROVE  IInv'
<1> DEFINE i == SubjectOf(r)
<1>1. Busy(r) /\ run[r] \in Run /\ UNCHANGED <<jobs, item>>
  BY DEF ReadProcessing, Busy, IInv, Typed
<1>2. i \in Items
  BY <1>1 DEF IInv, RunGood, RowsAreUploads, SubjectOf
<1>3. CASE item[i].state # "processing"
  BY <1>1, <1>3, GoingOnQuietlyKeeps DEF ReadProcessing, Goto, Steps
<1>4. CASE item[i].state = "processing"
  <2> DEFINE next == [run[r] EXCEPT !.at = "processing", !.bytes = item[i].bytes]
  <2>1. next \in Run /\ next.at = "processing" /\ next.job = run[r].job
    BY <1>1, <1>2, Bytes DEF IInv, Run, Steps, Item
  <2>2. run' \in [Runs -> Run] /\ run'[r] = next /\ \A p \in Runs \ {r} : run'[p] = run[p]
    BY <1>4, <2>1 DEF ReadProcessing, IInv, Typed
  <2>3. TableOK' /\ RowsForward /\ FirstUploadHasJob' /\ ItemsForward
    BY <1>1, SameJobsKeep, SameItems DEF IInv
  <2>4. Typed'
    BY <1>1, <2>2, <2>3 DEF IInv, Typed
  <2>5. RunGood(r)'
    BY <1>1, <2>1, <2>2 DEF IInv, RunGood, Busy
  <2>6. \A p \in Runs : RunGood(p)'
    BY <2>2, <2>3, <2>4, <2>5, OneRuns
  <2> QED  BY <2>3, <2>4, <2>6, RowsStay DEF IInv
<1> QED  BY <1>3, <1>4

LEMMA ProcessorKeeps ==
    ASSUME IInv, NEW r \in Runs,
           \/ ProcessorAccepts(r) \/ ProcessorRejects(r) \/ ProcessorThrows(r)
           \/ ProcessorFailsForGood(r) \/ ProcessorCancelled(r)
    PROVE  IInv'
<1>1. Busy(r) /\ UNCHANGED <<jobs, item>>
  BY DEF Busy, ProcessorAccepts, ProcessorRejects, ProcessorThrows, ProcessorFailsForGood,
         ProcessorCancelled, ProcessorEnds
<1>2. CASE EndRun(r)
  BY <1>1, <1>2, EndingKeeps, SameJobsKeep
<1>3. CASE \E step \in {"committing", "rejecting", "throwing", "failing"} : Goto(r, step)
  BY <1>1, <1>3, GoingOnQuietlyKeeps DEF Steps
<1>4. CASE Goto(r, "completed") /\ item[SubjectOf(r)].state # "processing"
  BY <1>1, <1>4, GoingOnQuietlyKeeps DEF Steps
<1> QED
  BY <1>2, <1>3, <1>4 DEF ProcessorAccepts, ProcessorRejects, ProcessorThrows,
     ProcessorFailsForGood, ProcessorCancelled, ProcessorEnds

LEMMA MarkItemReadyKeeps ==
    ASSUME IInv, NEW r \in Runs, MarkItemReady(r)
    PROVE  IInv'
<1> DEFINE i == SubjectOf(r)
           row == [item[i] EXCEPT !.state = "ready", !.derived = run[r].bytes]
<1>1. Busy(r) /\ run[r] \in Run /\ UNCHANGED jobs /\ ReadyItem(i, run[r].bytes)
  BY DEF MarkItemReady, Busy, IInv, Typed
<1>2. i \in Items
  BY <1>1 DEF IInv, RunGood, RowsAreUploads, SubjectOf
<1>3. row \in Item /\ row.state = "ready" /\ row.bytes = item[i].bytes
  BY <1>1, <1>2, Bytes DEF IInv, Item, ItemStates, Run
<1>4. /\ item' \in [Items -> Item]
      /\ item'[i] = IF item[i].state = "processing" THEN row ELSE item[i]
      /\ \A k \in Items \ {i} : item'[k] = item[k]
  BY <1>1, <1>2, <1>3 DEF ReadyItem, IInv, Typed
<1>5. ItemsForward
  <2>1. \A k \in Items : item'[k].bytes = item[k].bytes
    BY <1>3, <1>4
  <2>2. \A k \in Items : item'[k].state = "processing" => item'[k] = item[k]
    BY <1>3, <1>4
  <2> QED  BY <2>1, <2>2, Bytes DEF IInv, ItemsForward
<1>6. item'[i].state # "processing"
  BY <1>3, <1>4
<1>7. FirstUploadHasJob'
  BY <1>1, <1>2, <1>4, <1>6 DEF IInv, FirstUploadHasJob, First, ActiveJob, IsActive
<1> QED  BY <1>1, <1>4, <1>5, <1>6, <1>7, GoingOnKeeps DEF MarkItemReady, Steps

LEMMA MarkItemFailedKeeps ==
    ASSUME IInv, NEW r \in Runs, MarkItemFailed(r)
    PROVE  IInv'
<1>1. Busy(r) /\ UNCHANGED jobs /\ FailProcessingItems({SubjectOf(r)})
  BY DEF MarkItemFailed, Busy
<1>2. SubjectOf(r) \in Items
  BY <1>1 DEF IInv, RunGood, RowsAreUploads, SubjectOf
<1>3. PICK S \in SUBSET Items : S = {SubjectOf(r)}
  BY <1>2
<1>4. /\ item' \in [Items -> Item] /\ ItemsForward /\ FirstUploadHasJob'
      /\ item'[SubjectOf(r)].state # "processing"
  BY <1>1, <1>3, ItemsSettle
<1> QED  BY <1>1, <1>4, GoingOnKeeps DEF MarkItemFailed, Steps

LEMMA CommitThrowsKeeps ==
    ASSUME IInv, NEW r \in Runs, CommitThrows(r)
    PROVE  IInv'
  BY GoingOnQuietlyKeeps DEF CommitThrows, Busy, Steps

LEMMA RunDiesKeeps ==
    ASSUME IInv, NEW r \in Runs, RunDies(r)
    PROVE  IInv'
  BY EndingKeeps, SameJobsKeep DEF RunDies

-----------------------------------------------------------------------------
(* Outcomes, with the item of a job that failed. *)

LEMMA RowKept ==
    ASSUME IInv, NEW j \in JobIds, NEW row, jobs' = [jobs EXCEPT ![j] = row],
           row.key = jobs[j].key, row.state # "absent", jobs[j].state # "absent"
    PROVE  /\ RowsForward /\ jobs'[j] = row
           /\ \A k \in JobIds \ {j} : jobs'[k] = jobs[k]
<1>1. jobs \in [JobIds -> JobRow]
  BY DEF IInv, Typed, TableOK
<1>2. jobs'[j] = row /\ \A k \in JobIds \ {j} : jobs'[k] = jobs[k]
  BY <1>1
<1> QED  BY <1>2 DEF RowsForward

LEMMA RecordCompletedKeeps ==
    ASSUME IInv, NEW r \in Runs, RecordCompleted(r)
    PROVE  IInv'
<1> DEFINE j == run[r].job
           row == [jobs[j] EXCEPT !.state = "succeeded", !.lease = Over]
<1>1. /\ run[r].at = "completed" /\ CompleteJob(j, run[r].owner) /\ EndRun(r) /\ UNCHANGED item
  BY DEF RecordCompleted
<1>2. j \in JobIds /\ jobs[j].state # "absent" /\ Passed(SubjectOf(r)) /\ jobs[j] \in JobRow
  BY <1>1 DEF IInv, RunGood, Busy, Typed, TableOK
<1>3. TableOK'
  BY <1>1, <1>2, CompleteTable DEF IInv, Typed
<1>4. CASE ~ Holds(j, run[r].owner)
  BY <1>1, <1>4, EndingKeeps, SameJobsKeep DEF CompleteJob
<1>5. CASE Holds(j, run[r].owner)
  <2>1. jobs' = [jobs EXCEPT ![j] = row] /\ row.key = jobs[j].key /\ row.state = "succeeded"
    BY <1>1, <1>2, <1>5 DEF CompleteJob, JobRow, IInv, Typed, TableOK
  <2>2. RowsForward /\ \A k \in JobIds \ {j} : jobs'[k] = jobs[k]
    BY <1>2, <2>1, RowKept
  <2>3. FirstUploadHasJob'
    <3> SUFFICES ASSUME NEW i \in Items, item[i].state = "processing", First(i)
                 PROVE  ActiveJob(i)'
      BY <1>1 DEF FirstUploadHasJob, First
    <3>1. i # jobs[j].key
      BY <1>2, Bytes DEF Passed, SubjectOf, First, IInv
    <3>2. PICK k \in JobIds : IsActive(k, i)
      BY DEF IInv, FirstUploadHasJob, ActiveJob
    <3>3. k # j
      BY <3>1, <3>2 DEF IsActive
    <3> QED  BY <2>2, <3>2, <3>3 DEF ActiveJob, IsActive
  <2> QED  BY <1>1, <1>3, <2>2, <2>3, EndingKeeps
<1> QED  BY <1>4, <1>5

LEMMA RecordFailedKeeps ==
    ASSUME IInv, NEW r \in Runs, RecordFailed(r)
    PROVE  IInv'
<1> DEFINE j == run[r].job
           retryable == run[r].at = "throwing"
           outcome == FailOutcome(j, run[r].owner, retryable)
           i == SubjectOf(r)
<1>1. /\ j \in JobIds /\ jobs[j].state # "absent" /\ jobs[j] \in JobRow
      /\ Busy(r) /\ retryable \in BOOLEAN
  BY DEF RecordFailed, IInv, RunGood, Busy, Typed, TableOK
<1>2. i \in Items /\ i = jobs[j].key
  BY <1>1 DEF IInv, RowsAreUploads, SubjectOf
<1>3. CASE EndRun(r) /\ UNCHANGED <<jobs, item>>
  BY <1>3, EndingKeeps, SameJobsKeep
<1>4. CASE FailJob(j, run[r].owner, retryable)
  <2>1. TableOK'
    BY <1>1, <1>4, FailTable DEF IInv, Typed
  <2>2. CASE outcome = "lease_lost"
    <3>1. UNCHANGED jobs
      BY <1>1, <1>4, <2>2 DEF FailJob, IInv, Typed, TableOK
    <3>2. CASE EndRun(r) /\ UNCHANGED item
      BY <3>1, <3>2, EndingKeeps, SameJobsKeep
    <3> QED  BY <2>2, <3>1, <3>2, <1>3 DEF RecordFailed
  <2>3. CASE outcome = "retry_scheduled"
    <3> DEFINE row == [jobs[j] EXCEPT !.state = "queued", !.owner = NoOwner, !.lease = Over,
                                      !.delay = Backoff(jobs[j].attempts)]
    <3>1. jobs' = [jobs EXCEPT ![j] = row] /\ row.key = jobs[j].key /\ row.state = "queued"
      BY <1>1, <1>4, <2>3 DEF FailJob, JobRow
    <3>2. RowsForward /\ jobs'[j] = row /\ \A k \in JobIds \ {j} : jobs'[k] = jobs[k]
      BY <1>1, <3>1, RowKept
    <3>3. CASE EndRun(r) /\ UNCHANGED item
      <4>1. FirstUploadHasJob'
        BY <3>1, <3>2, <3>3, JobsGoOn DEF Active, IInv
      <4> QED  BY <2>1, <3>2, <3>3, <4>1, EndingKeeps
    <3> QED  BY <2>3, <3>3, <1>3 DEF RecordFailed
  <2>4. CASE outcome = "failed"
    <3> DEFINE row == [jobs[j] EXCEPT !.state = "failed", !.lease = Over]
    <3>1. jobs' = [jobs EXCEPT ![j] = row] /\ row.key = jobs[j].key /\ row.state = "failed"
      BY <1>1, <1>4, <2>4 DEF FailJob, JobRow
    <3>2. RowsForward /\ jobs'[j] = row /\ \A k \in JobIds \ {j} : jobs'[k] = jobs[k]
      BY <1>1, <3>1, RowKept
    <3>3. CASE FailProcessingItems({i}) /\ Goto(r, "notifying")
      <4>1. PICK S \in SUBSET Items : S = {i}
        BY <1>2
      <4>2. \A k \in JobIds : jobs[k].state \in Active /\ jobs[k].key \notin S =>
                jobs'[k].state \in Active /\ jobs'[k].key = jobs[k].key
        BY <1>2, <3>2, <4>1
      <4>3. /\ item' \in [Items -> Item] /\ ItemsForward /\ FirstUploadHasJob'
            /\ item'[i].state # "processing"
        BY <3>3, <4>1, <4>2, ItemsSettle
      <4>4. /\ run' \in [Runs -> Run] /\ run'[r].at = "notifying" /\ run'[r].job = j
            /\ \A p \in Runs \ {r} : run'[p] = run[p]
        BY <3>3, GotoSets DEF IInv, Steps
      <4>5. Typed'
        BY <2>1, <4>3, <4>4 DEF Typed
      <4>6. jobs'[j].state # "absent" /\ jobs'[j].key = i
        BY <1>2, <3>1, <3>2
      <4>7. RunGood(r)'
        BY <1>1, <4>3, <4>4, <4>6 DEF RunGood, Busy, SubjectOf, Passed
      <4>8. \A p \in Runs : RunGood(p)'
        BY <3>2, <4>3, <4>4, <4>5, <4>7, OneRuns
      <4> QED  BY <3>2, <4>3, <4>5, <4>8, RowsStay DEF IInv
    <3> QED  BY <2>4, <3>3, <1>3 DEF RecordFailed
  <2> QED  BY <2>2, <2>3, <2>4 DEF FailOutcome
<1> QED  BY <1>3, <1>4 DEF RecordFailed

LEMMA OnJobFailedKeeps ==
    ASSUME IInv, NEW r \in Runs, OnJobFailed(r)
    PROVE  IInv'
<1>1. /\ run[r].at = "notifying" /\ Busy(r) /\ UNCHANGED jobs /\ EndRun(r)
      /\ FailProcessingItems({SubjectOf(r)})
  BY DEF OnJobFailed, Busy
<1>2. SubjectOf(r) \in Items
  BY <1>1 DEF IInv, RunGood, RowsAreUploads, SubjectOf
<1>3. PICK S \in SUBSET Items : S = {SubjectOf(r)}
  BY <1>2
<1>4. item' \in [Items -> Item] /\ ItemsForward /\ FirstUploadHasJob'
  BY <1>1, <1>3, ItemsSettle
<1>5. Typed'
  BY <1>1, <1>4, EndSets DEF IInv, Typed, TableOK, RowOK
<1>6. RowsForward
  BY <1>1, SameRows
<1>7. \A p \in Runs : RunGood(p)'
  BY <1>1, <1>4, <1>5, <1>6, EndSets, FreeIsGood, OneRuns DEF IInv
<1> QED  BY <1>4, <1>5, <1>6, <1>7, RowsStay DEF IInv

-----------------------------------------------------------------------------
(* The queue. *)

LEMMA QueueKeeps ==
    ASSUME IInv, TableOK', UNCHANGED run, RowsForward,
           item' \in [Items -> Item], ItemsForward, FirstUploadHasJob'
    PROVE  IInv'
<1>1. Typed'
  BY DEF IInv, Typed
<1>2. \A p \in Runs : RunGood(p)'
  BY <1>1, WaitingRun
<1> QED  BY <1>1, <1>2, RowsStay DEF IInv

LEMMA LapseLeaseKeeps ==
    ASSUME IInv, NEW j \in JobIds, LapseLease(j)
    PROVE  IInv'
<1> DEFINE row == [jobs[j] EXCEPT !.lease = Over]
<1>1. /\ jobs[j].state = "running" /\ jobs' = [jobs EXCEPT ![j] = row] /\ UNCHANGED item
      /\ RowOK(jobs[j]) /\ jobs[j] \in JobRow
  BY DEF LapseLease, IInv, Typed, TableOK
<1>2. row.state = "running" /\ row.key = jobs[j].key
  BY <1>1 DEF JobRow
<1>3. RowOK(row)
  <2>1. row \in JobRow
    BY <1>1, FieldTypes, RowUpdates, Fields
  <2> QED  BY <1>1, <2>1 DEF RowOK, JobRow
<1>4. TableOK'
  BY <1>1, <1>3, OneRow DEF IInv, Typed
<1>5. RowsForward /\ jobs'[j] = row /\ \A k \in JobIds \ {j} : jobs'[k] = jobs[k]
  BY <1>1, <1>2, RowKept
<1>6. FirstUploadHasJob'
  BY <1>1, <1>2, <1>5, JobsGoOn DEF IInv, Active
<1>7. ASSUME NEW p \in Runs
      PROVE  run'[p] \in Run /\ run'[p].at = run[p].at /\ run'[p].job = run[p].job
  <2>1. run[p] \in Run
    BY DEF IInv, Typed
  <2>2. [run[p] EXCEPT !.aborted = TRUE] \in Run
    BY <2>1 DEF Run
  <2> QED  BY <2>1, <2>2 DEF LapseLease, Run
<1>8. run' \in [Runs -> Run]
  BY <1>7 DEF LapseLease
<1>9. Typed' /\ ItemsForward
  BY <1>1, <1>4, <1>8, SameItems DEF IInv, Typed
<1>10. \A p \in Runs : RunGood(p)'
  BY <1>5, <1>7, <1>9, WaitingRun
<1> QED  BY <1>5, <1>6, <1>9, <1>10, RowsStay DEF IInv

LEMMA RequeueExpiredKeeps ==
    ASSUME IInv, RequeueExpired
    PROVE  IInv'
<1>1. PICK J \in SUBSET JobIds :
         /\ RequeueExpiredJobs(J) /\ UNCHANGED run
         /\ FailProcessingItems({jobs[j].key : j \in {j \in J : jobs'[j].state = "failed"}})
  BY DEF RequeueExpired
<1> DEFINE S == {jobs[j].key : j \in {j \in J : jobs'[j].state = "failed"}}
<1>2. TableOK'
  BY <1>1, RequeueTable DEF IInv, Typed
<1>3. /\ \A j \in JobIds \ J : jobs'[j] = jobs[j]
      /\ \A j \in J : /\ jobs[j].state = "running" /\ jobs'[j].key = jobs[j].key
                      /\ jobs'[j].state \in {"queued", "failed"}
  BY <1>1 DEF RequeueExpiredJobs, ExpiredRow, Expired, IInv, Typed, TableOK, JobRow
<1>4. RowsForward
  BY <1>3 DEF RowsForward
<1>5. S \in SUBSET Items
  BY <1>3 DEF IInv, RowsAreUploads
<1>6. \A j \in JobIds : jobs[j].state \in Active /\ jobs[j].key \notin S =>
          jobs'[j].state \in Active /\ jobs'[j].key = jobs[j].key
  BY <1>3 DEF Active
<1>7. item' \in [Items -> Item] /\ ItemsForward /\ FirstUploadHasJob'
  BY <1>1, <1>5, <1>6, ItemsSettle
<1> QED  BY <1>1, <1>2, <1>4, <1>7, QueueKeeps

LEMMA OperatorRetriesKeeps ==
    ASSUME IInv, OperatorRetries
    PROVE  IInv'
<1>1. PICK j \in JobIds : RetryJob(j) /\ UNCHANGED <<item, run>>
  BY DEF OperatorRetries
<1>2. /\ jobs[j].state \in StoppedStates /\ jobs'[j].state \in StoppedStates \cup {"queued"}
      /\ jobs'[j].key = jobs[j].key /\ \A k \in JobIds \ {j} : jobs'[k] = jobs[k]
      /\ TableOK'
  BY <1>1, RetryTable DEF IInv, Typed
<1>3. RowsForward
  BY <1>2 DEF RowsForward, StoppedStates
<1>4. FirstUploadHasJob'
  BY <1>1, <1>2, JobsGoOn DEF IInv, Active, StoppedStates
<1> QED  BY <1>1, <1>2, <1>3, <1>4, SameItems, QueueKeeps DEF IInv, Typed

LEMMA OperatorAbandonsKeeps ==
    ASSUME IInv, OperatorAbandons
    PROVE  IInv'
<1>1. PICK j \in JobIds : /\ AbandonJob(j) /\ UNCHANGED run
                          /\ FailProcessingItems({jobs[j].key})
  BY DEF OperatorAbandons
<1>2. /\ jobs[j].state \in {"queued", "failed"} /\ jobs'[j].state = "abandoned"
      /\ jobs'[j].key = jobs[j].key /\ \A k \in JobIds \ {j} : jobs'[k] = jobs[k]
  BY <1>1 DEF AbandonJob, IInv, Typed, TableOK, JobRow
<1>3. TableOK' /\ RowsForward
  BY <1>1, <1>2, OperatorTable DEF IInv, Typed, RowsForward
<1>4. PICK S \in SUBSET Items : S = {jobs[j].key}
  BY <1>2 DEF IInv, RowsAreUploads
<1>5. item' \in [Items -> Item] /\ ItemsForward /\ FirstUploadHasJob'
  BY <1>1, <1>2, <1>4, ItemsSettle
<1> QED  BY <1>1, <1>3, <1>5, QueueKeeps

LEMMA RetainSucceededKeeps ==
    ASSUME IInv, RetainSucceeded
    PROVE  IInv'
<1>1. PICK j \in JobIds : /\ \A r \in Runs : run[r].job # j
                          /\ DeleteSucceeded(j) /\ UNCHANGED <<item, run>>
  BY DEF RetainSucceeded
<1>2. /\ jobs[j].state = "succeeded" /\ jobs'[j].state = "absent"
      /\ \A k \in JobIds \ {j} : jobs'[k] = jobs[k]
  BY <1>1 DEF DeleteSucceeded, Absent, IInv, Typed, TableOK
<1>3. TableOK' /\ RowsForward
  BY <1>1, <1>2, OperatorTable DEF IInv, Typed, RowsForward
<1>4. FirstUploadHasJob'
  BY <1>1, <1>2, JobsGoOn DEF IInv, Active
<1> QED  BY <1>1, <1>3, <1>4, SameItems, QueueKeeps DEF IInv, Typed

-----------------------------------------------------------------------------
(* The invariant. *)

LEMMA InitGivesIInv == Init => IInv
<1> SUFFICES ASSUME Init  PROVE IInv
  OBVIOUS
<1>1. TableOK
  BY InitTable DEF Init
<1>2. item \in [Items -> Item]
  BY UploadsAssumption DEF Init, Item, ItemStates
<1>3. run \in [Runs -> Run]
  BY FreeIsRun DEF Init
<1>4. RowsAreUploads
  BY DEF Init, JobsInit, Absent, RowsAreUploads
<1>5. \A r \in Runs : RunGood(r)
  BY DEF Init, RunGood, Busy, Free
<1>6. FirstUploadHasJob
  BY DEF Init, FirstUploadHasJob
<1> QED  BY <1>1, <1>2, <1>3, <1>4, <1>5, <1>6 DEF IInv, Typed

LEMMA StepKeepsIInv == IInv /\ [Next]_vars => IInv'
<1> SUFFICES ASSUME IInv, [Next]_vars  PROVE IInv'
  OBVIOUS
<1>1. CASE UNCHANGED vars
  <2>1. UNCHANGED <<jobs, item, run>>
    BY <1>1 DEF vars
  <2> QED  BY <2>1, SameJobsKeep, SameItems, QueueKeeps DEF IInv, Typed
<1>2. ASSUME NEW i \in Items, AuthorStep(i)  PROVE IInv'
  BY <1>2, CommitUploadKeeps, ItemLeavesKeeps DEF AuthorStep
<1>3. ASSUME NEW r \in Runs, RunStep(r)  PROVE IInv'
  BY <1>3, StartRunKeeps, ReadProcessingKeeps, ProcessorKeeps, MarkItemReadyKeeps,
     MarkItemFailedKeeps, CommitThrowsKeeps, RecordCompletedKeeps, RecordFailedKeeps,
     OnJobFailedKeeps, RunDiesKeeps DEF RunStep
<1>4. ASSUME NEW j \in JobIds, LapseLease(j)  PROVE IInv'
  BY <1>4, LapseLeaseKeeps
<1>5. CASE RequeueExpired \/ OperatorRetries \/ OperatorAbandons \/ RetainSucceeded
  BY <1>5, RequeueExpiredKeeps, OperatorRetriesKeeps, OperatorAbandonsKeeps, RetainSucceededKeeps
<1> QED  BY <1>1, <1>2, <1>3, <1>4, <1>5 DEF Next

THEOREM Invariance == Spec => []IInv
<1>1. Init => IInv
  BY InitGivesIInv
<1>2. IInv /\ [Next]_vars => IInv'
  BY StepKeepsIInv
<1> QED  BY <1>1, <1>2, PTL DEF Spec

(* The rows, the items and the runs keep their types. *)
THEOREM ProcessingTypes == Spec => []TypeOK
<1>1. IInv => TypeOK
  BY TypedIs DEF IInv
<1> QED  BY <1>1, Invariance, PTL

(* The first upload of an item never waits for a job that nobody has:       *)
(* completeJob, failJob, requeueExpiredJobs and the operator's commands end *)
(* its job only with an answer, through any crash and lost lease.           *)
THEOREM FirstUploadsAreAnswered == Spec => []FirstUploadHasJob
<1>1. IInv => FirstUploadHasJob
  BY DEF IInv
<1> QED  BY <1>1, Invariance, PTL

-----------------------------------------------------------------------------
(* What a step may do to an item. *)

LEMMA FailingSpares ==
    ASSUME NEW S, NEW i \in Items, FailProcessingItems(S), item[i].state # "processing"
    PROVE  item'[i] = item[i]
  BY DEF FailProcessingItems

LEMMA StepSparesSettled ==
    ASSUME Typed, [Next]_vars, NEW i \in Items, item[i].state \in {"ready", "cancelled"}
    PROVE  item'[i] = item[i]
<1> USE DEF Typed
<1>1. CASE UNCHANGED vars
  BY <1>1 DEF vars
<1>2. ASSUME NEW k \in Items, AuthorStep(k)  PROVE item'[i] = item[i]
  BY <1>2 DEF AuthorStep, CommitUpload, ResetComponent, CancelItem, SetState
<1>3. ASSUME NEW r \in Runs, RunStep(r)  PROVE item'[i] = item[i]
  <2>1. CASE UNCHANGED item
    BY <2>1
  <2>2. CASE \E S : FailProcessingItems(S)
    BY <2>2, FailingSpares
  <2>3. CASE MarkItemReady(r)
    BY <2>3 DEF MarkItemReady, ReadyItem
  <2> QED
    BY <1>3, <2>1, <2>2, <2>3 DEF RunStep, StartRun, ReadProcessing, ProcessorAccepts,
       ProcessorRejects, ProcessorThrows, ProcessorFailsForGood, ProcessorCancelled,
       ProcessorEnds, MarkItemFailed, CommitThrows, RecordCompleted, RecordFailed,
       OnJobFailed, RunDies
<1>4. ASSUME NEW j \in JobIds, LapseLease(j)  PROVE item'[i] = item[i]
  BY <1>4 DEF LapseLease
<1>5. CASE RequeueExpired \/ OperatorRetries \/ OperatorAbandons \/ RetainSucceeded
  BY <1>5, FailingSpares DEF RequeueExpired, OperatorRetries, OperatorAbandons, RetainSucceeded
<1> QED  BY <1>1, <1>2, <1>3, <1>4, <1>5 DEF Next

(* A ready item is never failed or derived again, a cancelled one stays so  *)
(* (the state conditions of markItemReady, markItemFailed and of the        *)
(* author's commands), whatever late calls of dead runs take effect.        *)
THEOREM SettledItems == Spec => SettledItemsStay
<1>1. ASSUME IInv, [Next]_vars
      PROVE  \A i \in Items : item[i].state \in {"ready", "cancelled"} => item'[i] = item[i]
  BY <1>1, StepSparesSettled DEF IInv
<1> QED  BY <1>1, Invariance, PTL DEF Spec, SettledItemsStay

(* onJobFailed fails no item that failJob has not failed, but for one that  *)
(* was uploaded again.                                                      *)
THEOREM LateFailures == Spec => LateFailureChangesNothing
<1>1. ASSUME IInv, NEW r \in Runs, OnJobFailed(r), NEW i \in Items, First(i)
      PROVE  item'[i] = item[i]
  <2>1. Passed(SubjectOf(r)) /\ FailProcessingItems({SubjectOf(r)})
    BY <1>1 DEF OnJobFailed, IInv, RunGood
  <2>2. CASE item[i].state # "processing"
    BY <2>1, <2>2, FailingSpares
  <2>3. CASE item[i].state = "processing"
    <3>1. i # SubjectOf(r)
      BY <1>1, <2>1, <2>3, Bytes DEF Passed, First, IInv
    <3> QED  BY <2>1, <3>1 DEF FailProcessingItems
  <2> QED  BY <2>2, <2>3
<1>2. ASSUME IInv
      PROVE  \A r \in Runs : OnJobFailed(r) =>
                 \A i \in Items : First(i) => item'[i] = item[i]
  BY <1>1, <1>2
<1> QED  BY <1>2, Invariance, PTL DEF LateFailureChangesNothing

(* Both: what is settled stays as it is, whatever comes late. *)
THEOREM LateResults == Spec => LateResultsChangeNothing
BY SettledItems, LateFailures DEF LateResultsChangeNothing


-----------------------------------------------------------------------------
(* One run per item.  The index keeps equal work unique and an owner label  *)
(* names one claim, so two runs that hold jobs of one item are the same.    *)
OwnersApart == \A q, r \in Runs : Busy(q) /\ Busy(r) /\ run[q].owner = run[r].owner => q = r

LEMMA StartRunApart ==
    ASSUME Typed, OwnersApart, NEW r \in Runs, StartRun(r)
    PROVE  OwnersApart'
<1>1. PICK j \in JobIds, o \in Owners :
        /\ Fresh(o)
        /\ run' = [run EXCEPT ![r] = [Free EXCEPT !.at = "reading", !.job = j, !.owner = o]]
  BY DEF StartRun
<1>2. run'[r].owner = o /\ \A p \in Runs \ {r} : run'[p] = run[p] /\ run[p].owner # o
  BY <1>1 DEF Typed, Free, Fresh
<1> QED  BY <1>2 DEF OwnersApart, Busy

(* No step but StartRun gives a run an owner. *)
LEMMA OwnersStayApart ==
    ASSUME OwnersApart,
           \A p \in Runs : run'[p].at # "idle" =>
               run[p].at # "idle" /\ run'[p].owner = run[p].owner
    PROVE  OwnersApart'
  BY DEF OwnersApart, Busy

LEMMA StepKeepsApart == Typed /\ OwnersApart /\ [Next]_vars => OwnersApart'
<1> SUFFICES ASSUME Typed, OwnersApart, [Next]_vars  PROVE OwnersApart'
  OBVIOUS
<1>1. CASE UNCHANGED run
  BY <1>1, OwnersStayApart
<1>2. ASSUME NEW r \in Runs, RunStep(r)  PROVE OwnersApart'
  <2>1. CASE StartRun(r)
    BY <2>1, StartRunApart
  <2>2. CASE EndRun(r)
    <3>1. run'[r].at = "idle" /\ \A p \in Runs \ {r} : run'[p] = run[p]
      BY <2>2 DEF EndRun, Free, Typed
    <3> QED  BY <3>1, OwnersStayApart
  <2>3. ASSUME NEW step, run[r].at # "idle", Goto(r, step)  PROVE OwnersApart'
    <3>1. run'[r].owner = run[r].owner /\ \A p \in Runs \ {r} : run'[p] = run[p]
      BY <2>3 DEF Goto, Typed, Run
    <3> QED  BY <2>3, <3>1, OwnersStayApart
  <2>4. CASE ReadProcessing(r)
    <3>1. /\ run[r].at # "idle" /\ run'[r].owner = run[r].owner
          /\ \A p \in Runs \ {r} : run'[p] = run[p]
      BY <2>4 DEF ReadProcessing, Typed, Run
    <3> QED  BY <3>1, OwnersStayApart
  <2>5. CASE \/ ProcessorAccepts(r) \/ ProcessorRejects(r) \/ ProcessorThrows(r)
             \/ ProcessorFailsForGood(r) \/ ProcessorCancelled(r)
    BY <2>5, <2>2, <2>3 DEF ProcessorAccepts, ProcessorRejects, ProcessorThrows,
       ProcessorFailsForGood, ProcessorEnds, ProcessorCancelled
  <2>6. CASE MarkItemReady(r) \/ MarkItemFailed(r) \/ CommitThrows(r)
    BY <2>6, <2>3 DEF MarkItemReady, MarkItemFailed, CommitThrows
  <2>7. CASE RecordCompleted(r) \/ RecordFailed(r) \/ OnJobFailed(r) \/ RunDies(r)
    BY <2>7, <2>2, <2>3 DEF RecordCompleted, RecordFailed, OnJobFailed, RunDies
  <2> QED  BY <1>2, <2>1, <2>4, <2>5, <2>6, <2>7 DEF RunStep
<1>3. ASSUME NEW j \in JobIds, LapseLease(j)  PROVE OwnersApart'
  <2>1. \A p \in Runs : run'[p].at = run[p].at /\ run'[p].owner = run[p].owner
    BY <1>3 DEF LapseLease, Typed, Run
  <2> QED  BY <2>1, OwnersStayApart
<1> QED  BY <1>1, <1>2, <1>3 DEF Next, vars, AuthorStep, CommitUpload, ResetComponent,
            CancelItem, RequeueExpired, OperatorRetries, OperatorAbandons, RetainSucceeded

LEMMA StepKeepsUnique == IInv /\ ActiveUnique /\ [Next]_vars => ActiveUnique'
<1> SUFFICES ASSUME IInv, ActiveUnique, [Next]_vars  PROVE ActiveUnique'
  OBVIOUS
<1>0. TableOK
  BY DEF IInv, Typed
<1>1. CASE UNCHANGED jobs
  BY <1>1, NothingActivated
<1>2. ASSUME NEW i \in Items, CommitUpload(i)  PROVE ActiveUnique'
  BY <1>0, <1>2, InsertUnique, KeysAreItems DEF CommitUpload
<1>3. ASSUME NEW r \in Runs, RunStep(r)  PROVE ActiveUnique'
  <2>1. CASE StartRun(r)
    <3>1. PICK j \in JobIds, o \in Owners : ClaimJobs({j}, o, 1)
      BY <2>1 DEF StartRun
    <3> QED  BY <1>0, <3>1, ClaimUnique
  <2>2. CASE UNCHANGED jobs
    BY <2>2, <1>1
  <2>3. CASE RecordCompleted(r) \/ RecordFailed(r)
    <3>1. run[r].job \in JobIds
      BY <2>3 DEF RecordCompleted, RecordFailed, IInv, RunGood, Busy
    <3> DEFINE j == run[r].job  o == run[r].owner  retryable == run[r].at = "throwing"
    <3>2. UNCHANGED jobs \/ CompleteJob(j, o) \/ FailJob(j, o, retryable)
      BY <2>3 DEF RecordCompleted, RecordFailed
    <3> QED  BY <1>0, <2>2, <3>1, <3>2, LeaseCallsUnique
  <2> QED  BY <1>3, <2>1, <2>2, <2>3 DEF RunStep, ReadProcessing, ProcessorAccepts,
      ProcessorRejects, ProcessorThrows, ProcessorFailsForGood, ProcessorEnds,
      ProcessorCancelled, MarkItemReady, MarkItemFailed, CommitThrows, OnJobFailed, RunDies
<1>4. ASSUME NEW j \in JobIds, LapseLease(j)  PROVE ActiveUnique'
  <2>1. \A i \in JobIds : jobs'[i].state = jobs[i].state /\ jobs'[i].key = jobs[i].key
    BY <1>0, <1>4 DEF LapseLease, TableOK, JobRow
  <2> QED  BY <2>1, NothingActivated
<1>5. CASE RequeueExpired
  BY <1>0, <1>5, ClaimUnique DEF RequeueExpired
<1>6. CASE OperatorRetries \/ OperatorAbandons \/ RetainSucceeded
  BY <1>0, <1>6, OperatorUnique DEF OperatorRetries, OperatorAbandons, RetainSucceeded
<1> QED  BY <1>1, <1>2, <1>3, <1>4, <1>5, <1>6 DEF Next, vars, AuthorStep, ResetComponent,
            CancelItem

(* No item is processed by two runs at once that may record what came of it: *)
(* a retryJob that overlaps the author's next upload, an expired lease or a  *)
(* second claim never lets two of them hold jobs of the item.                *)
THEOREM OneRun == Spec => []OneRunPerItem
<1>1. Init => OwnersApart /\ ActiveUnique
  BY DEF Init, JobsInit, Absent, Active, ActiveUnique, OwnersApart, Busy, Free
<1>2. IInv /\ OwnersApart /\ ActiveUnique /\ [Next]_vars => (OwnersApart /\ ActiveUnique)'
  BY StepKeepsApart, StepKeepsUnique DEF IInv
<1>3. IInv /\ OwnersApart /\ ActiveUnique => OneRunPerItem
  <2> SUFFICES ASSUME IInv, OwnersApart, ActiveUnique, NEW q \in Runs, NEW r \in Runs,
                      Processes(q), Processes(r), SubjectOf(q) = SubjectOf(r)
               PROVE  q = r
    BY DEF OneRunPerItem
  <2>1. run[q].job \in JobIds /\ run[r].job \in JobIds
    BY DEF Processes, IInv, RunGood
  <2>2. run[q].job = run[r].job
    BY <2>1 DEF Processes, Holds, SubjectOf, ActiveUnique, IsActive, Active
  <2> QED  BY <2>1, <2>2 DEF Processes, Holds, OwnersApart
<1> QED  BY <1>1, <1>2, <1>3, Invariance, PTL DEF Spec
=============================================================================
