------------------------- MODULE PublishingJobsProofs -------------------------
(***************************************************************************)
(* What every call on the publishing job table preserves, whoever makes it: *)
(* the rows keep their type, a running row has an owner and an attempt, a   *)
(* queued row has neither an owner nor all its attempts, a row that is being *)
(* retried is stopped, and equal work is active once.                       *)
(***************************************************************************)
EXTENDS PublishingJobs, TLAPS

RowOK(row) ==
    /\ row \in JobRow
    /\ row.state = "running" => row.owner # NoOwner /\ row.attempts > 0
    /\ row.state = "queued" => row.owner = NoOwner /\ row.attempts < MaxAttempts
    /\ row.state # "running" => row.lease = Over
    /\ row.locked => row.state \in StoppedStates

TableOK == jobs \in [JobIds -> JobRow] /\ \A j \in JobIds : RowOK(jobs[j])

(* The table invariant is the conjunction of the two checked ones. *)
LEMMA TableOKIs == TableOK <=> JobsTypeOK /\ LeaseMatchesState
  BY DEF TableOK, RowOK, JobsTypeOK, LeaseMatchesState

LEMMA ConstantsType ==
    /\ NoOwner \notin Owners /\ NoKey \notin Keys
    /\ MaxAttempts \in Nat /\ MaxAttempts > 0
    /\ LeaseTime \in Nat /\ LeaseTime > 0 /\ BackoffMax \in Nat
  BY OwnerAssumption, KeyAssumption, AttemptsAssumption, LeaseAssumption, BackoffAssumption

LEMMA BackoffType == \A n : Backoff(n) \in 0..BackoffMax
  BY ConstantsType DEF Backoff

(* The provers take a row apart field by field: the types of the fields are *)
(* named, and a row with some fields replaced by values of their types is a *)
(* row.                                                                     *)
States == JobStates \cup {"absent"}
Leases == Over..LeaseTime
Attempts == 0..MaxAttempts
Delays == 0..BackoffMax

LEMMA FieldTypes ==
    /\ {"absent", "queued", "running", "succeeded", "failed", "abandoned"} \subseteq States
    /\ Over \in Leases /\ LeaseTime \in Leases
    /\ 0 \in Delays /\ 0 \in Attempts
    /\ \A n \in Attempts : (n < MaxAttempts => n + 1 \in Attempts)
                          /\ (n > 0 => n - 1 \in Attempts /\ n - 1 < MaxAttempts)
    /\ \A t \in Leases : Sooner(t, Over) \in Leases
    /\ \A t \in Delays : Sooner(t, 0) \in Delays
    /\ \A age \in 0..(LeaseTime + 1) : LeaseTime - age \in Leases
  BY ConstantsType DEF States, JobStates, Active, Ended, Leases, Attempts, Delays, Over, Sooner

LEMMA Fields ==
    ASSUME NEW r \in JobRow
    PROVE  /\ r.state \in States /\ r.key \in Keys \cup {NoKey} /\ r.attempts \in Attempts
           /\ r.owner \in Owners \cup {NoOwner} /\ r.lease \in Leases /\ r.delay \in Delays
           /\ r.attempts \in Int /\ r.locked \in BOOLEAN
  BY ConstantsType DEF JobRow, States, Leases, Attempts, Delays

LEMMA RowUpdates ==
    ASSUME NEW r \in JobRow, NEW s \in States, NEW a \in Attempts,
           NEW o \in Owners \cup {NoOwner}, NEW l \in Leases, NEW d \in Delays,
           NEW k \in Keys \cup {NoKey}
    PROVE  /\ [r EXCEPT !.state = s, !.key = k] \in JobRow
           /\ [r EXCEPT !.lease = l] \in JobRow
           /\ [r EXCEPT !.state = s, !.lease = l] \in JobRow
           /\ [r EXCEPT !.state = s, !.owner = o, !.lease = l] \in JobRow
           /\ [r EXCEPT !.state = s, !.owner = o, !.lease = l, !.delay = d] \in JobRow
           /\ [r EXCEPT !.state = s, !.attempts = a, !.owner = o, !.lease = l] \in JobRow
           /\ [r EXCEPT !.state = s, !.attempts = a, !.delay = d, !.owner = o, !.lease = l]
                 \in JobRow
           /\ [r EXCEPT !.state = s, !.delay = d, !.attempts = a, !.owner = o, !.lease = l]
                 \in JobRow
  BY DEF JobRow, States, Leases, Attempts, Delays

LEMMA RowLocks ==
    ASSUME NEW r \in JobRow, NEW locked \in BOOLEAN
    PROVE  [r EXCEPT !.locked = locked] \in JobRow
  BY DEF JobRow

LEMMA RowTimes ==
    ASSUME NEW r \in JobRow, NEW l \in Leases, NEW d \in Delays
    PROVE  [r EXCEPT !.lease = l, !.delay = d] \in JobRow
  BY DEF JobRow, States, Leases, Attempts, Delays

LEMMA AbsentRow == RowOK(Absent)
<1>1. Absent \in JobRow
  BY FieldTypes DEF Absent, JobRow, States, Leases, Attempts, Delays
<1> QED  BY <1>1 DEF RowOK, Absent

LEMMA QueuedRowOK ==
    ASSUME NEW k \in Keys \cup {NoKey}
    PROVE  RowOK(QueuedRow(k)) /\ QueuedRow(k).state = "queued" /\ QueuedRow(k).key = k
<1>1. QueuedRow(k) \in JobRow
  BY AbsentRow, RowUpdates, FieldTypes, ConstantsType DEF QueuedRow, RowOK
<1> QED  BY <1>1, ConstantsType DEF RowOK, QueuedRow, Absent

LEMMA ActiveUnlocked ==
    ASSUME TableOK, NEW j \in JobIds, jobs[j].state \in {"queued", "running"}
    PROVE  ~ jobs[j].locked
  BY DEF TableOK, RowOK, StoppedStates

(* Replacing one row, or every row, by a good one. *)
LEMMA OneRow ==
    ASSUME TableOK, NEW j \in JobIds, NEW row, RowOK(row), jobs' = [jobs EXCEPT ![j] = row]
    PROVE  TableOK'
  BY DEF TableOK, RowOK

LEMMA InitTable == JobsInit => TableOK
  BY AbsentRow DEF JobsInit, TableOK, RowOK

LEMMA InsertTable ==
    ASSUME TableOK, NEW k \in Keys, InsertJob(k)
    PROVE  TableOK'
<1>1. CASE UNCHANGED jobs
  BY <1>1 DEF TableOK, RowOK
<1>2. ASSUME NEW j \in JobIds, AddRow(j, k)  PROVE TableOK'
  BY <1>2, QueuedRowOK, OneRow DEF AddRow
<1> QED  BY <1>1, <1>2 DEF InsertJob

LEMMA ClaimTable ==
    ASSUME TableOK, NEW J \in SUBSET JobIds, NEW o \in Owners, NEW limit, ClaimJobs(J, o, limit)
    PROVE  TableOK'
<1> DEFINE Claimed(j) == [jobs[j] EXCEPT !.state = "running", !.attempts = @ + 1,
                                         !.owner = o, !.lease = LeaseTime]
<1>1. ASSUME NEW j \in J  PROVE RowOK(Claimed(j))
  <2>1. jobs[j] \in JobRow /\ jobs[j].state = "queued" /\ jobs[j].attempts < MaxAttempts
    BY <1>1 DEF ClaimJobs, Due, TableOK, RowOK
  <2>2. o # NoOwner /\ o \in Owners \cup {NoOwner} /\ jobs[j].attempts + 1 > 0
        /\ jobs[j].attempts + 1 \in Attempts
    BY <2>1, Fields, FieldTypes, ConstantsType DEF Attempts
  <2>3. Claimed(j) \in JobRow
    BY <2>1, <2>2, RowUpdates, FieldTypes
  <2> QED  BY <2>1, <2>2, <2>3, ActiveUnlocked DEF RowOK, JobRow
<1>2. ASSUME NEW j \in JobIds  PROVE RowOK(jobs'[j])
  <2>1. CASE j \in J
    BY <1>1, <2>1 DEF ClaimJobs
  <2>2. CASE j \notin J
    BY <2>2 DEF ClaimJobs, TableOK
  <2> QED  BY <2>1, <2>2
<1> QED  BY <1>2 DEF ClaimJobs, TableOK, RowOK

LEMMA RenewTable ==
    ASSUME TableOK, NEW j \in JobIds, NEW o, NEW age \in 0..(LeaseTime + 1),
           RenewJobLease(j, o, age)
    PROVE  TableOK'
<1>1. CASE Holds(j, o)
  <2> DEFINE row == [jobs[j] EXCEPT !.lease = LeaseTime - age]
  <2>1. jobs[j] \in JobRow /\ RowOK(jobs[j])
    BY DEF TableOK
  <2>2. row \in JobRow
    BY <2>1, RowUpdates, FieldTypes
  <2>4. RowOK(row)
    BY <1>1, <2>1, <2>2 DEF Holds, RowOK, JobRow
  <2>3. jobs' = [jobs EXCEPT ![j] = row]
    BY <1>1 DEF RenewJobLease, TableOK
  <2> QED  BY <2>3, <2>4, OneRow
<1>2. CASE ~ Holds(j, o)
  BY <1>2 DEF RenewJobLease, TableOK, RowOK
<1> QED  BY <1>1, <1>2

LEMMA CompleteTable ==
    ASSUME TableOK, NEW j \in JobIds, NEW o, CompleteJob(j, o)
    PROVE  TableOK'
<1>1. CASE Holds(j, o)
  <2> DEFINE row == [jobs[j] EXCEPT !.state = "succeeded", !.lease = Over]
  <2>1. jobs[j] \in JobRow
    BY DEF TableOK
  <2>2. RowOK(row)
    <3>1. row \in JobRow
      BY <2>1, Fields, RowUpdates, FieldTypes, ConstantsType
    <3> QED  BY <1>1, <2>1, <3>1, ConstantsType, ActiveUnlocked DEF Holds, RowOK, JobRow
  <2>3. jobs' = [jobs EXCEPT ![j] = row]
    BY <1>1 DEF CompleteJob, TableOK
  <2> QED  BY <2>2, <2>3, OneRow
<1>2. CASE ~ Holds(j, o)
  BY <1>2 DEF CompleteJob, TableOK, RowOK
<1> QED  BY <1>1, <1>2

LEMMA ReleaseTable ==
    ASSUME TableOK, NEW j \in JobIds, NEW o, ReleaseJob(j, o)
    PROVE  TableOK'
<1>1. CASE Holds(j, o)
  <2> DEFINE row == [jobs[j] EXCEPT !.state = "queued", !.delay = 0,
                                    !.attempts = IF @ > 0 THEN @ - 1 ELSE 0,
                                    !.owner = NoOwner, !.lease = Over]
  <2>1. jobs[j] \in JobRow /\ jobs[j].attempts > 0
    BY <1>1 DEF TableOK, RowOK, Holds
  <2>2. RowOK(row)
    <3>1. row \in JobRow
      <4> DEFINE n == IF jobs[j].attempts > 0 THEN jobs[j].attempts - 1 ELSE 0
      <4>1. n \in Attempts
        BY <2>1, Fields, FieldTypes
      <4> QED  BY <2>1, <4>1, RowUpdates, FieldTypes, ConstantsType
    <3> QED  BY <1>1, <2>1, <3>1, ConstantsType, ActiveUnlocked DEF Holds, RowOK, JobRow
  <2>3. jobs' = [jobs EXCEPT ![j] = row]
    BY <1>1 DEF ReleaseJob, TableOK
  <2> QED  BY <2>2, <2>3, OneRow
<1>2. CASE ~ Holds(j, o)
  BY <1>2 DEF ReleaseJob, TableOK, RowOK
<1> QED  BY <1>1, <1>2

LEMMA FailTable ==
    ASSUME TableOK, NEW j \in JobIds, NEW o, NEW retryable \in BOOLEAN, FailJob(j, o, retryable)
    PROVE  TableOK'
<1>1. jobs[j] \in JobRow /\ RowOK(jobs[j])
  BY DEF TableOK
<1>2. CASE FailOutcome(j, o, retryable) = "lease_lost"
  <2>1. jobs' = [jobs EXCEPT ![j] = jobs[j]]
    BY <1>2 DEF FailJob
  <2> QED  BY <1>1, <2>1, OneRow
<1>3. CASE FailOutcome(j, o, retryable) = "retry_scheduled"
  <2> DEFINE row == [jobs[j] EXCEPT !.state = "queued", !.owner = NoOwner, !.lease = Over,
                                    !.delay = Backoff(jobs[j].attempts)]
  <2>0. ~ jobs[j].locked
    BY <1>3, ActiveUnlocked DEF FailOutcome, Holds
  <2>1. jobs[j].attempts < MaxAttempts
    BY <1>3 DEF FailOutcome
  <2>2. RowOK(row)
    <3>1. row \in JobRow
      <4>1. Backoff(jobs[j].attempts) \in Delays
        BY BackoffType DEF Delays
      <4> QED  BY <1>1, <4>1, RowUpdates, FieldTypes
    <3> QED  BY <1>1, <2>0, <2>1, BackoffType, <3>1, ConstantsType DEF RowOK, JobRow
  <2>3. jobs' = [jobs EXCEPT ![j] = row]
    BY <1>3 DEF FailJob
  <2> QED  BY <2>2, <2>3, OneRow
<1>4. CASE FailOutcome(j, o, retryable) = "failed"
  <2> DEFINE row == [jobs[j] EXCEPT !.state = "failed", !.lease = Over]
  <2>1. RowOK(row)
    <3>1. row \in JobRow
      BY <1>1, Fields, RowUpdates, FieldTypes, ConstantsType
    <3> QED  BY <1>1, <3>1, ConstantsType DEF StoppedStates, RowOK, JobRow
  <2>2. jobs' = [jobs EXCEPT ![j] = row]
    BY <1>4 DEF FailJob
  <2> QED  BY <2>1, <2>2, OneRow
<1> QED  BY <1>2, <1>3, <1>4 DEF FailOutcome

LEMMA RequeueTable ==
    ASSUME TableOK, NEW J \in SUBSET JobIds, RequeueExpiredJobs(J)
    PROVE  TableOK'
<1>1. ASSUME NEW j \in J  PROVE RowOK(ExpiredRow(jobs[j]))
  <2>0. ~ jobs[j].locked
    BY ActiveUnlocked DEF RequeueExpiredJobs, Expired
  <2>1. jobs[j] \in JobRow
    BY DEF TableOK
  <2>2. CASE jobs[j].attempts < MaxAttempts
    <3> DEFINE row == [jobs[j] EXCEPT !.state = "queued", !.owner = NoOwner, !.lease = Over,
                                      !.delay = 0]
    <3>1. row \in JobRow
      BY <2>1, RowUpdates, FieldTypes
    <3> QED  BY <2>1, <2>2, <3>1, <2>0 DEF ExpiredRow, RowOK, JobRow
  <2>3. CASE ~ (jobs[j].attempts < MaxAttempts)
    <3> DEFINE row == [jobs[j] EXCEPT !.state = "failed", !.owner = NoOwner, !.lease = Over]
    <3>1. row \in JobRow
      BY <2>1, RowUpdates, FieldTypes
    <3> QED  BY <2>1, <2>3, <3>1 DEF StoppedStates, ExpiredRow, RowOK, JobRow
  <2> QED  BY <2>2, <2>3
<1>2. ASSUME NEW j \in JobIds  PROVE RowOK(jobs'[j])
  BY <1>1 DEF RequeueExpiredJobs, TableOK
<1> QED  BY <1>2 DEF RequeueExpiredJobs, TableOK, RowOK

(* The statements of retryJob. *)
LEMMA RetryTable ==
    ASSUME TableOK, NEW j \in JobIds, RetryJob(j)
    PROVE  /\ TableOK'
           /\ jobs[j].state \in StoppedStates
           /\ jobs'[j].key = jobs[j].key /\ jobs'[j].lease = Over
           /\ \/ jobs'[j].state = jobs[j].state /\ jobs'[j].owner = jobs[j].owner
              \/ jobs'[j].state = "queued" /\ jobs'[j].owner = NoOwner /\ ~ EqualWork(j)
           /\ \A i \in JobIds \ {j} : jobs'[i] = jobs[i]
<1>1. RowOK(jobs[j]) /\ jobs[j] \in JobRow /\ jobs[j].lease \in Leases
  BY Fields DEF TableOK, RowOK
<1>2. jobs[j].state \in StoppedStates
  BY <1>1 DEF RetryJob, RetryLooks, RetryQueues, RetryRollsBack, RowOK
<1>3. CASE RetryLooks(j) \/ RetryRollsBack(j)
  <2>1. PICK locked \in BOOLEAN : jobs' = [jobs EXCEPT ![j].locked = locked]
    BY <1>3 DEF RetryLooks, RetryRollsBack
  <2> DEFINE row == [jobs[j] EXCEPT !.locked = locked]
  <2>2. row \in JobRow
    BY <1>1, RowLocks
  <2>3. /\ row.key = jobs[j].key /\ row.state = jobs[j].state /\ row.lease = jobs[j].lease
        /\ row.owner = jobs[j].owner /\ row.attempts = jobs[j].attempts
    BY <1>1 DEF JobRow
  <2>4. RowOK(row) /\ row.lease = Over
    BY <1>1, <1>2, <2>2, <2>3 DEF RowOK, StoppedStates
  <2>5. jobs' = [jobs EXCEPT ![j] = row]
    BY <2>1 DEF TableOK
  <2> HIDE DEF row
  <2>6. jobs'[j] = row /\ \A i \in JobIds \ {j} : jobs'[i] = jobs[i]
    BY <2>5 DEF TableOK
  <2>7. TableOK'
    BY <2>4, <2>5, OneRow
  <2>8. /\ jobs'[j].key = jobs[j].key /\ jobs'[j].lease = Over
        /\ jobs'[j].state = jobs[j].state /\ jobs'[j].owner = jobs[j].owner
    BY <2>3, <2>4, <2>6
  <2> QED  BY <1>2, <2>6, <2>7, <2>8
<1>4. CASE RetryQueues(j)
  <2>1. jobs' = [jobs EXCEPT ![j] = QueuedRow(jobs[j].key)] /\ ~ EqualWork(j)
    BY <1>4 DEF RetryQueues
  <2>2. jobs[j].key \in Keys \cup {NoKey}
    BY <1>1, Fields
  <2>3. jobs'[j] = QueuedRow(jobs[j].key) /\ \A i \in JobIds \ {j} : jobs'[i] = jobs[i]
    BY <2>1 DEF TableOK
  <2>4. QueuedRow(jobs[j].key).owner = NoOwner /\ QueuedRow(jobs[j].key).lease = Over
    BY DEF QueuedRow, Absent
  <2> QED  BY <1>2, <2>1, <2>2, <2>3, <2>4, QueuedRowOK, OneRow
<1> QED  BY <1>3, <1>4 DEF RetryJob

LEMMA OperatorTable ==
    ASSUME TableOK, NEW j \in JobIds, RetryJob(j) \/ AbandonJob(j) \/ DeleteSucceeded(j)
    PROVE  TableOK'
<1>1. jobs[j] \in JobRow
  BY DEF TableOK
<1>2. CASE RetryJob(j)
  BY <1>2, RetryTable
<1>3. CASE AbandonJob(j)
  <2> DEFINE row == [jobs[j] EXCEPT !.state = "abandoned", !.owner = NoOwner, !.lease = Over]
  <2>1. RowOK(row)
    <3>1. row \in JobRow
      BY <1>1, Fields, RowUpdates, FieldTypes, ConstantsType
    <3> QED  BY <1>1, <3>1, ConstantsType DEF StoppedStates, RowOK, JobRow
  <2>2. jobs' = [jobs EXCEPT ![j] = row]
    BY <1>3 DEF AbandonJob, TableOK
  <2> QED  BY <2>1, <2>2, OneRow
<1>4. CASE DeleteSucceeded(j)
  BY <1>4, AbsentRow, OneRow DEF DeleteSucceeded
<1> QED  BY <1>2, <1>3, <1>4

LEMMA TimeTable == TableOK /\ TimePasses => TableOK'
<1> SUFFICES ASSUME TableOK, TimePasses  PROVE TableOK'
  OBVIOUS
<1>1. ASSUME NEW j \in JobIds  PROVE RowOK(jobs'[j])
  <2>1. jobs[j] \in JobRow /\ RowOK(jobs[j])
    BY DEF TableOK
  <2>2. jobs'[j] = [jobs[j] EXCEPT !.lease = Sooner(@, Over), !.delay = Sooner(@, 0)]
    BY DEF TimePasses
  <2>3. jobs'[j] \in JobRow
    <3>1. Sooner(jobs[j].lease, Over) \in Leases /\ Sooner(jobs[j].delay, 0) \in Delays
      BY <2>1, Fields, FieldTypes
    <3>2. PICK l \in Leases, d \in Delays : jobs'[j] = [jobs[j] EXCEPT !.lease = l, !.delay = d]
      BY <2>2, <3>1
    <3> QED  BY <2>1, <3>2, RowTimes
  <2> QED  BY <2>1, <2>2, <2>3 DEF RowOK, JobRow, Sooner, Over
<1> QED  BY <1>1 DEF TimePasses, TableOK, RowOK

-----------------------------------------------------------------------------
(* Equal work stays unique when no row becomes active, or changes its key,  *)
(* and when the one row that does has no active equal.                      *)
LEMMA NothingActivated ==
    ASSUME ActiveUnique,
           \A j \in JobIds : jobs'[j].state \in Active =>
               jobs[j].state \in Active /\ jobs'[j].key = jobs[j].key
    PROVE  ActiveUnique'
  BY DEF ActiveUnique, IsActive

LEMMA OneActivated ==
    ASSUME ActiveUnique, NEW a \in JobIds, NEW k, jobs'[a].key = k,
           \A j \in JobIds \ {a} : jobs'[j] = jobs[j] /\ ~ IsActive(j, k)
    PROVE  ActiveUnique'
  BY DEF ActiveUnique, IsActive

LEMMA InsertUnique ==
    ASSUME TableOK, ActiveUnique, NEW k \in Keys, InsertJob(k)
    PROVE  ActiveUnique'
<1>1. CASE UNCHANGED jobs
  BY <1>1, NothingActivated
<1>2. ASSUME NEW a \in JobIds, AddRow(a, k), ~ \E j \in JobIds : IsActive(j, k)
      PROVE  ActiveUnique'
  <2>1. jobs'[a].key = k
    BY <1>2 DEF AddRow, QueuedRow, Absent, TableOK
  <2>2. \A j \in JobIds \ {a} : jobs'[j] = jobs[j]
    BY <1>2 DEF AddRow, TableOK
  <2> QED  BY <1>2, <2>1, <2>2, OneActivated
<1> QED  BY <1>1, <1>2 DEF InsertJob

LEMMA LeaseCallsUnique ==
    ASSUME TableOK, ActiveUnique, NEW j \in JobIds, NEW o, NEW retryable \in BOOLEAN, NEW age,
           \/ RenewJobLease(j, o, age) \/ CompleteJob(j, o)
           \/ ReleaseJob(j, o) \/ FailJob(j, o, retryable)
    PROVE  ActiveUnique'
<1> USE DEF TableOK, JobRow, Holds, Active
<1>1. CASE RenewJobLease(j, o, age)
  BY <1>1, NothingActivated DEF RenewJobLease
<1>2. CASE CompleteJob(j, o)
  BY <1>2, NothingActivated DEF CompleteJob
<1>3. CASE ReleaseJob(j, o)
  BY <1>3, NothingActivated DEF ReleaseJob
<1>4. CASE FailJob(j, o, retryable)
  BY <1>4, NothingActivated DEF FailJob, FailOutcome
<1> QED  BY <1>1, <1>2, <1>3, <1>4

LEMMA ClaimUnique ==
    ASSUME TableOK, ActiveUnique, NEW J \in SUBSET JobIds, NEW o, NEW limit,
           ClaimJobs(J, o, limit) \/ RequeueExpiredJobs(J)
    PROVE  ActiveUnique'
<1> USE DEF TableOK, JobRow, Active
<1>1. CASE ClaimJobs(J, o, limit)
  BY <1>1, NothingActivated DEF ClaimJobs, Due
<1>2. CASE RequeueExpiredJobs(J)
  BY <1>2, NothingActivated DEF RequeueExpiredJobs, ExpiredRow, Expired
<1> QED  BY <1>1, <1>2

LEMMA OperatorUnique ==
    ASSUME TableOK, ActiveUnique, NEW j \in JobIds,
           RetryJob(j) \/ AbandonJob(j) \/ DeleteSucceeded(j)
    PROVE  ActiveUnique'
<1>1. CASE RetryJob(j)
  <2>1. /\ jobs'[j].key = jobs[j].key /\ \A i \in JobIds \ {j} : jobs'[i] = jobs[i]
        /\ jobs'[j].state = jobs[j].state \/ ~ EqualWork(j)
    BY <1>1, RetryTable
  <2>2. CASE ~ EqualWork(j)
    BY <2>1, <2>2, OneActivated DEF EqualWork
  <2>3. CASE jobs'[j].state = jobs[j].state
    BY <2>1, <2>3, NothingActivated
  <2> QED  BY <2>1, <2>2, <2>3
<1>2. CASE AbandonJob(j)
  BY <1>2, NothingActivated DEF AbandonJob, TableOK, JobRow, Active
<1>3. CASE DeleteSucceeded(j)
  BY <1>3, NothingActivated DEF DeleteSucceeded, Absent, TableOK, JobRow, Active
<1> QED  BY <1>1, <1>2, <1>3

LEMMA TimeUnique ==
    ASSUME TableOK, ActiveUnique, TimePasses
    PROVE  ActiveUnique'
  BY NothingActivated DEF TimePasses, TableOK, JobRow
=============================================================================
