------------------------ MODULE PublishingWorkerProofs ------------------------
(***************************************************************************)
(* The workers and the job table for any number of workers, jobs, attempts  *)
(* and any lease: types, settled stops, that two workers never execute one  *)
(* job, or two jobs of equal work, at the same time, that workers and table *)
(* implement JobExecution, and that no worker takes more jobs than it has   *)
(* slots.                                                                   *)
(*                                                                          *)
(*   1. the types, and unique active work                                   *)
(*   2. the lease: LeaseInv is inductive together with the types and with   *)
(*      "an outcome is recorded only by a settled run"                      *)
(*   3. the refinement: every step maps to steps of the abstract jobs, or   *)
(*      to none; and a stopped worker leaves no outcome to record           *)
(*   4. the slots                                                           *)
(***************************************************************************)
EXTENDS PublishingWorker, PublishingJobsProofs, FiniteSetTheorems

(* The table, and the processes around it. *)
Processes ==
    /\ state \in [Workers -> {"idle", "running", "stopping", "aborting", "stopped"}]
    /\ inbox \in [Workers -> SUBSET Claim]
    /\ runs \in [Workers -> [JobIds -> ActiveRun]]
    /\ releases \in [Workers -> SUBSET Lease]

TypeInv == TableOK /\ Processes

LEMMA TypeInvIs == TypeInv <=> TypeOK /\ LeaseMatchesState
  BY TableOKIs DEF TypeInv, Processes, TypeOK

LEMMA WorkerConstants ==
    /\ Concurrency \in Nat /\ LeaseSafety \in Nat /\ LeaseSafety < LeaseTime
  BY ConcurrencyAssumption, SafetyAssumption, ConstantsType

-----------------------------------------------------------------------------
(* Runs, field by field. *)
RunOwners == Owners \cup {NoOwner}
Aborts == {"no", "lease_lost", "shutdown"}
Ages == 0..(LeaseTime + 1)
Phases == {"idle", "sent", "held", "refused"}

LEMMA RunUpdates ==
    ASSUME NEW r \in ActiveRun, NEW l \in Leases, NEW a \in Aborts, NEW b \in BOOLEAN,
           NEW c \in Calls, NEW n \in Renewal
    PROVE  /\ [r EXCEPT !.aborted = a] \in ActiveRun
           /\ [r EXCEPT !.settled = b] \in ActiveRun
           /\ [r EXCEPT !.settled = b, !.call = c] \in ActiveRun
           /\ [r EXCEPT !.renew = n] \in ActiveRun
           /\ [r EXCEPT !.renew = n, !.aborted = a] \in ActiveRun
           /\ [r EXCEPT !.renew = n, !.left = l, !.aborted = a] \in ActiveRun
  BY DEF ActiveRun, Leases, Aborts

LEMMA RunFields ==
    ASSUME NEW r \in ActiveRun
    PROVE  /\ r.owner \in RunOwners /\ r.left \in Leases /\ r.aborted \in Aborts
           /\ r.settled \in BOOLEAN /\ r.call \in Calls /\ r.renew \in Renewal
           /\ r.renew.phase \in Phases /\ r.renew.age \in Ages
  BY DEF ActiveRun, RunOwners, Leases, Aborts, Renewal, Phases, Ages

LEMMA Renewals ==
    /\ NoRenewal \in Renewal
    /\ [phase |-> "sent", age |-> 0] \in Renewal
    /\ \A n \in Renewal, p \in Phases : [n EXCEPT !.phase = p] \in Renewal
    /\ \A n \in Renewal : OlderRenewal(n) \in Renewal
<1>1. NoRenewal \in Renewal /\ [phase |-> "sent", age |-> 0] \in Renewal
  BY ConstantsType DEF NoRenewal, Renewal
<1>2. \A n \in Renewal, p \in Phases : [n EXCEPT !.phase = p] \in Renewal
  BY DEF Renewal, Phases
<1>3. ASSUME NEW n \in Renewal  PROVE OlderRenewal(n) \in Renewal
  <2>1. CASE n.phase = "idle" \/ n.age > LeaseTime
    BY <2>1 DEF OlderRenewal
  <2>2. CASE ~ (n.phase = "idle" \/ n.age > LeaseTime)
    <3>1. n.age + 1 \in 0..(LeaseTime + 1)
      BY <2>2, ConstantsType DEF Renewal
    <3> QED  BY <2>2, <3>1 DEF OlderRenewal, Renewal
  <2> QED  BY <2>1, <2>2
<1> QED  BY <1>1, <1>2, <1>3

LEMMA NoRunType == NoRun \in ActiveRun
  BY Renewals, FieldTypes DEF NoRun, ActiveRun, Leases, Calls

LEMMA StartedRunType == \A c \in Claim : StartedRun(c) \in ActiveRun
<1> SUFFICES ASSUME NEW c \in Claim  PROVE StartedRun(c) \in ActiveRun
  OBVIOUS
<1> DEFINE a == IF c.left <= LeaseSafety THEN "lease_lost" ELSE "no"
<1>1. a \in {"no", "lease_lost", "shutdown"}
  OBVIOUS
<1>2. c.owner \in Owners \cup {NoOwner} /\ c.left \in Over..LeaseTime
  BY DEF Claim
<1> HIDE DEF a
<1>3. [owner |-> c.owner, left |-> c.left, aborted |-> a,
       settled |-> FALSE, call |-> "none", renew |-> NoRenewal] \in ActiveRun
  BY <1>1, <1>2, Renewals DEF ActiveRun, Calls
<1> QED  BY <1>3 DEF StartedRun, a

LEMMA RunTimes ==
    ASSUME NEW r \in ActiveRun, NEW l \in Leases, NEW n \in Renewal
    PROVE  [r EXCEPT !.left = l, !.renew = n] \in ActiveRun
  BY DEF ActiveRun, Leases

LEMMA OlderRunType == \A r \in ActiveRun : OlderRun(r) \in ActiveRun
<1> SUFFICES ASSUME NEW r \in ActiveRun  PROVE OlderRun(r) \in ActiveRun
  OBVIOUS
<1>1. Sooner(r.left, Over) \in Leases /\ OlderRenewal(r.renew) \in Renewal
  BY RunFields, FieldTypes, Renewals
<1>2. PICK l \in Leases, n \in Renewal : l = Sooner(r.left, Over) /\ n = OlderRenewal(r.renew)
  BY <1>1
<1> QED  BY <1>2, RunTimes DEF OlderRun

LEMMA OneRun ==
    ASSUME Processes, NEW w \in Workers, NEW j \in JobIds, NEW r \in ActiveRun, SetRun(w, j, r)
    PROVE  runs' \in [Workers -> [JobIds -> ActiveRun]]
  BY DEF Processes, SetRun

-----------------------------------------------------------------------------
(* Types are kept, action by action. *)

LEMMA InitType == Init => TypeInv
  BY InitTable, NoRunType DEF Init, TypeInv, Processes

LEMMA ClientType ==
    ASSUME TypeInv, Enqueue \/ OperatorRetries \/ OperatorAbandons
    PROVE  TypeInv'
<1>1. CASE Enqueue
  BY <1>1, InsertTable DEF Enqueue, TypeInv, Processes
<1>2. CASE OperatorRetries
  BY <1>2, OperatorTable DEF OperatorRetries, TypeInv, Processes
<1>3. CASE OperatorAbandons
  BY <1>3, OperatorTable DEF OperatorAbandons, TypeInv, Processes
<1> QED  BY <1>1, <1>2, <1>3

LEMMA MaintenanceType ==
    ASSUME TypeInv, NEW w \in Workers, Start(w) \/ RequeueExpired(w) \/ RetainSucceeded(w)
    PROVE  TypeInv'
<1>1. CASE Start(w)
  BY <1>1 DEF Start, TypeInv, Processes, TableOK, RowOK
<1>2. CASE RequeueExpired(w)
  BY <1>2, RequeueTable DEF RequeueExpired, TypeInv, Processes
<1>3. CASE RetainSucceeded(w)
  BY <1>3, OperatorTable DEF RetainSucceeded, TypeInv, Processes
<1> QED  BY <1>1, <1>2, <1>3

LEMMA ClaimType ==
    ASSUME TypeInv, NEW w \in Workers, ClaimFree(w)
    PROVE  TypeInv'
<1> PICK J \in SUBSET JobIds : ClaimSet(w, J)
  BY DEF ClaimFree
<1> PICK o \in Owners :
      /\ ClaimJobs(J, o, Concurrency - Cardinality(Running(w)))
      /\ inbox' = [inbox EXCEPT ![w] = {[id |-> j, owner |-> o, left |-> LeaseTime] : j \in J}]
  BY DEF ClaimSet
<1>1. TableOK'
  BY ClaimTable DEF TypeInv
<1>2. {[id |-> j, owner |-> o, left |-> LeaseTime] : j \in J} \in SUBSET Claim
  BY FieldTypes DEF Claim, Leases
<1> QED  BY <1>1, <1>2 DEF ClaimSet, TypeInv, Processes

LEMMA ReceiveType ==
    ASSUME TypeInv, NEW w \in Workers, ReceiveClaims(w)
    PROVE  TypeInv'
<1> DEFINE taken == {c \in inbox[w] : state[w] = "running" /\ ~ HasRun(w, c.id)}
           R == [j \in JobIds |-> IF \E c \in taken : c.id = j
                                  THEN StartedRun(CHOOSE c \in taken : c.id = j)
                                  ELSE runs[w][j]]
           B == {[id |-> c.id, owner |-> c.owner] : c \in inbox[w] \ taken}
<1>1. inbox[w] \subseteq Claim /\ taken \subseteq Claim /\ taken \subseteq inbox[w]
  BY DEF TypeInv, Processes
<1> HIDE DEF taken
<1>2. ASSUME NEW j \in JobIds  PROVE R[j] \in ActiveRun
  <2>1. CASE \E c \in taken : c.id = j
    <3>1. (CHOOSE c \in taken : c.id = j) \in Claim
      BY <1>1, <2>1
    <3> QED  BY <2>1, <3>1, StartedRunType
  <2>2. CASE ~ \E c \in taken : c.id = j
    BY <2>2 DEF TypeInv, Processes
  <2> QED  BY <2>1, <2>2
<1>3. R \in [JobIds -> ActiveRun]
  BY <1>2
<1>4. B \in SUBSET Lease
  BY <1>1 DEF Lease, Claim
<1>5. /\ runs' = [runs EXCEPT ![w] = R]
      /\ releases' = [releases EXCEPT ![w] = @ \cup B]
      /\ inbox' = [inbox EXCEPT ![w] = {}] /\ UNCHANGED <<jobs, state>>
  BY DEF ReceiveClaims, taken
<1> HIDE DEF R, B
<1>6. Processes'
  BY <1>3, <1>4, <1>5 DEF TypeInv, Processes
<1>7. TableOK'
  BY <1>5 DEF TypeInv, TableOK, RowOK
<1> QED  BY <1>6, <1>7 DEF TypeInv

LEMMA LoseType ==
    ASSUME TypeInv, NEW w \in Workers, LoseClaims(w)
    PROVE  TypeInv'
  BY DEF LoseClaims, TypeInv, Processes, TableOK, RowOK

LEMMA ReleaseClaimType ==
    ASSUME TypeInv, NEW w \in Workers, ReleaseClaim(w)
    PROVE  TypeInv'
<1> PICK r \in releases[w] :
      /\ ReleaseJob(r.id, r.owner) \/ UNCHANGED jobs
      /\ releases' = [releases EXCEPT ![w] = @ \ {r}]
  BY DEF ReleaseClaim
<1>1. r.id \in JobIds
  BY DEF TypeInv, Processes, Lease
<1>2. TableOK'
  BY <1>1, ReleaseTable DEF TypeInv, TableOK, RowOK
<1> QED  BY <1>2 DEF ReleaseClaim, TypeInv, Processes

(* Steps of one run that leave the table alone. *)
LEMMA RunOnlyType ==
    ASSUME TypeInv, NEW w \in Workers, NEW j \in JobIds,
           \/ SendRenewal(w, j) \/ ReceiveRenewal(w, j) \/ RenewalThrows(w, j)
           \/ DeadlineFires(w, j) \/ HandlerReturns(w, j) \/ HandlerAborts(w, j)
           \/ OutcomeNotRecorded(w, j)
    PROVE  TypeInv'
<1> DEFINE r == runs[w][j]
<1>0. r \in ActiveRun /\ Processes
  BY DEF TypeInv, Processes
<1>1. UNCHANGED <<jobs, state, inbox, releases>>
  BY DEF SendRenewal, ReceiveRenewal, RenewalThrows, DeadlineFires, HandlerReturns,
         HandlerAborts, OutcomeNotRecorded
<1>2. \E q \in ActiveRun : SetRun(w, j, q)
  <2>1. CASE SendRenewal(w, j)
    BY <1>0, <2>1, RunUpdates, Renewals, RunFields DEF SendRenewal, UpdateRun
  <2>2. CASE ReceiveRenewal(w, j)
    <3>1. LeaseTime - r.renew.age \in Leases
      BY <1>0, RunFields, FieldTypes DEF Ages
    <3>2. {"no", "lease_lost"} \subseteq Aborts
      BY DEF Aborts
    <3> QED  BY <1>0, <2>2, <3>1, <3>2, RunUpdates, RunFields, Renewals DEF ReceiveRenewal
  <2>3. CASE RenewalThrows(w, j)
    BY <1>0, <2>3, RunUpdates, Renewals, RunFields DEF RenewalThrows, UpdateRun
  <2>4. CASE DeadlineFires(w, j)
    BY <1>0, <2>4, RunUpdates, RunFields DEF DeadlineFires, LoseLease, UpdateRun, Aborts
  <2>5. CASE HandlerReturns(w, j)
    BY <1>0, <2>5, RunUpdates, RunFields, NoRunType DEF HandlerReturns, EndRun, Results, Calls
  <2>6. CASE HandlerAborts(w, j)
    BY <1>0, <2>6, RunUpdates, RunFields, NoRunType DEF HandlerAborts, EndRun, Calls
  <2>7. CASE OutcomeNotRecorded(w, j)
    BY <2>7, NoRunType DEF OutcomeNotRecorded, EndRun
  <2> QED  BY <2>1, <2>2, <2>3, <2>4, <2>5, <2>6, <2>7
<1>3. runs' \in [Workers -> [JobIds -> ActiveRun]]
  BY <1>0, <1>2, OneRun
<1> QED  BY <1>1, <1>3 DEF TypeInv, TableOK, RowOK, Processes

LEMMA RunAndTableType ==
    ASSUME TypeInv, NEW w \in Workers, NEW j \in JobIds,
           CommitRenewal(w, j) \/ CommitOutcome(w, j)
    PROVE  TypeInv'
<1> DEFINE r == runs[w][j]
<1>0. r \in ActiveRun /\ Processes /\ TableOK
  BY DEF TypeInv, Processes
<1>1. UNCHANGED <<state, inbox, releases>>
  BY DEF CommitRenewal, CommitOutcome
<1>2. CASE CommitRenewal(w, j)
  <2>1. TableOK'
    BY <1>0, <1>2, RunFields, RenewTable DEF CommitRenewal, Ages
  <2>2. [r.renew EXCEPT !.phase = IF Holds(j, r.owner) THEN "held" ELSE "refused"] \in Renewal
    BY <1>0, RunFields, Renewals DEF Phases
  <2>3. \E q \in ActiveRun : SetRun(w, j, q)
    <3>1. PICK n \in Renewal :
             n = [r.renew EXCEPT !.phase = IF Holds(j, r.owner) THEN "held" ELSE "refused"]
      BY <2>2
    <3>2. [r EXCEPT !.renew = n] \in ActiveRun
      BY <1>0, RunUpdates, RunFields
    <3> QED  BY <1>2, <3>1, <3>2 DEF CommitRenewal, UpdateRun
  <2> QED  BY <1>0, <1>1, <2>1, <2>3, OneRun DEF TypeInv, Processes
<1>3. CASE CommitOutcome(w, j)
  <2>1. TableOK'
    BY <1>0, <1>3, CompleteTable, FailTable, ReleaseTable, RunFields DEF CommitOutcome, Calls
  <2>2. \E q \in ActiveRun : SetRun(w, j, q)
    BY <1>3, NoRunType DEF CommitOutcome, EndRun
  <2> QED  BY <1>0, <1>1, <2>1, <2>2, OneRun DEF TypeInv, Processes
<1> QED  BY <1>2, <1>3

LEMMA StopType ==
    ASSUME TypeInv, NEW w \in Workers,
           Stop(w) \/ AbortRuns(w) \/ ReleaseRuns(w) \/ Stopped(w) \/ Exit(w)
    PROVE  TypeInv'
<1>0. TableOK'
  BY DEF Stop, AbortRuns, ReleaseRuns, Stopped, Exit, TypeInv, TableOK, RowOK
<1>1. CASE Stop(w)
  BY <1>0, <1>1 DEF Stop, TypeInv, Processes
<1>2. CASE AbortRuns(w)
  <2>1. ASSUME NEW j \in JobIds
        PROVE  (IF HasRun(w, j) THEN AbortedRun(runs[w][j]) ELSE NoRun) \in ActiveRun
    <3>1. runs[w][j] \in ActiveRun /\ "shutdown" \in Aborts
      BY DEF TypeInv, Processes, Aborts
    <3>2. AbortedRun(runs[w][j]) \in ActiveRun
      BY <3>1, RunUpdates, RunFields DEF AbortedRun
    <3> QED  BY <3>2, NoRunType
  <2> QED  BY <1>0, <1>2, <2>1 DEF AbortRuns, TypeInv, Processes
<1>3. CASE ReleaseRuns(w)
  <2>1. ASSUME NEW j \in JobIds
        PROVE  (IF j \in Unsettled(w) THEN [runs[w][j] EXCEPT !.settled = TRUE]
                ELSE runs[w][j]) \in ActiveRun
    <3>1. runs[w][j] \in ActiveRun /\ TRUE \in BOOLEAN
      BY DEF TypeInv, Processes
    <3> QED  BY <3>1, RunUpdates, RunFields
  <2>2. {[id |-> j, owner |-> runs[w][j].owner] : j \in Unsettled(w)} \subseteq Lease
    <3>1. ASSUME NEW j \in Unsettled(w)  PROVE j \in JobIds /\ runs[w][j].owner \in Owners
      BY DEF Unsettled, Running, HasRun, TypeInv, Processes, ActiveRun
    <3> QED  BY <3>1 DEF Lease
  <2> QED  BY <1>0, <1>3, <2>1, <2>2 DEF ReleaseRuns, TypeInv, Processes
<1>4. CASE Stopped(w)
  BY <1>0, <1>4 DEF Stopped, TypeInv, Processes
<1>5. CASE Exit(w)
  BY <1>0, <1>5, NoRunType DEF Exit, TypeInv, Processes
<1> QED  BY <1>1, <1>2, <1>3, <1>4, <1>5

LEMMA TickType == TypeInv /\ Tick => TypeInv'
<1> SUFFICES ASSUME TypeInv, Tick  PROVE TypeInv'
  OBVIOUS
<1>1. TableOK'
  BY TimeTable DEF Tick, TypeInv
<1>2. ASSUME NEW w \in Workers, NEW j \in JobIds  PROVE OlderRun(runs[w][j]) \in ActiveRun
  BY OlderRunType DEF TypeInv, Processes
<1>3. ASSUME NEW w \in Workers, NEW c \in inbox[w]
      PROVE  [c EXCEPT !.left = Sooner(@, Over)] \in Claim
  <2>1. c \in Claim
    BY DEF TypeInv, Processes
  <2>2. Sooner(c.left, Over) \in Over..LeaseTime
    BY <2>1, FieldTypes DEF Claim, Leases
  <2> QED  BY <2>1, <2>2 DEF Claim
<1> QED  BY <1>1, <1>2, <1>3 DEF Tick, TypeInv, Processes

LEMMA TypeStep == TypeInv /\ [Next]_vars => TypeInv'
<1> SUFFICES ASSUME TypeInv, [Next]_vars  PROVE TypeInv'
  OBVIOUS
<1>1. CASE UNCHANGED vars
  BY <1>1 DEF vars, TypeInv, Processes, TableOK, RowOK
<1>2. ASSUME NEW w \in Workers, WorkerStep(w)  PROVE TypeInv'
  <2>1. ASSUME NEW j \in JobIds, RunStep(w, j)  PROVE TypeInv'
    BY <2>1, RunOnlyType, RunAndTableType DEF RunStep
  <2> QED  BY <1>2, <2>1, MaintenanceType, ClaimType, ReceiveType, LoseType, ReleaseClaimType,
              StopType DEF WorkerStep
<1> QED  BY <1>1, <1>2, ClientType, TickType DEF Next

(* The rows, the processes, their runs and their calls keep their types, a  *)
(* running row is leased by a named claim and a queued row by nobody.       *)
THEOREM TypeCorrect == Spec => [](TypeOK /\ LeaseMatchesState)
<1>1. Spec => []TypeInv
  BY InitType, TypeStep, PTL DEF Spec
<1> QED  BY <1>1, TypeInvIs, PTL

-----------------------------------------------------------------------------
(* Active work is unique through every step of the processes. *)

LEMMA UniqueStep == TypeInv /\ ActiveUnique /\ [Next]_vars => ActiveUnique'
<1> SUFFICES ASSUME TypeInv, ActiveUnique, [Next]_vars  PROVE ActiveUnique'
  OBVIOUS
<1>0. TableOK /\ Processes
  BY DEF TypeInv
<1>1. CASE UNCHANGED jobs
  BY <1>1 DEF ActiveUnique, IsActive
<1>2. CASE Enqueue \/ OperatorRetries \/ OperatorAbandons \/ Tick
  BY <1>0, <1>2, InsertUnique, OperatorUnique, TimeUnique
  DEF Enqueue, OperatorRetries, OperatorAbandons, Tick
<1>3. ASSUME NEW w \in Workers, RequeueExpired(w) \/ RetainSucceeded(w) \/ ClaimFree(w)
      PROVE  ActiveUnique'
  BY <1>0, <1>3, ClaimUnique, OperatorUnique
  DEF RequeueExpired, RetainSucceeded, ClaimFree, ClaimSet
<1>4. ASSUME NEW w \in Workers, ReleaseClaim(w)  PROVE ActiveUnique'
  <2> PICK r \in releases[w] : ReleaseJob(r.id, r.owner) \/ UNCHANGED jobs
    BY <1>4 DEF ReleaseClaim
  <2>1. r.id \in JobIds
    BY <1>0 DEF Processes, Lease
  <2> QED  BY <1>0, <1>1, <2>1, LeaseCallsUnique
<1>5. ASSUME NEW w \in Workers, NEW j \in JobIds, CommitRenewal(w, j) \/ CommitOutcome(w, j)
      PROVE  ActiveUnique'
  <2>1. runs[w][j].call \in Calls /\ TRUE \in BOOLEAN /\ FALSE \in BOOLEAN
    BY <1>0 DEF Processes, ActiveRun
  <2> QED  BY <1>0, <1>5, <2>1, LeaseCallsUnique DEF CommitRenewal, CommitOutcome, Calls
<1>6. ASSUME NEW w \in Workers, NEW j \in JobIds, RunStep(w, j)
      PROVE  UNCHANGED jobs \/ CommitRenewal(w, j) \/ CommitOutcome(w, j)
  BY <1>6 DEF RunStep, SendRenewal, ReceiveRenewal, RenewalThrows, DeadlineFires,
              HandlerReturns, HandlerAborts, OutcomeNotRecorded
<1>7. ASSUME NEW w \in Workers, WorkerStep(w)
      PROVE  \/ UNCHANGED jobs \/ RequeueExpired(w) \/ RetainSucceeded(w) \/ ClaimFree(w)
             \/ ReleaseClaim(w) \/ \E j \in JobIds : RunStep(w, j)
  BY <1>7 DEF WorkerStep, Start, ReceiveClaims, LoseClaims, Stop, AbortRuns, ReleaseRuns,
              Stopped, Exit
<1> QED  BY <1>1, <1>2, <1>3, <1>4, <1>5, <1>6, <1>7 DEF Next, vars

LEMMA UniqueRows == Spec => []ActiveUnique
<1>1. Init => ActiveUnique
  BY DEF Init, JobsInit, Absent, ActiveUnique, Active
<1>2. Spec => []TypeInv
  BY InitType, TypeStep, PTL DEF Spec
<1> QED  BY <1>1, <1>2, UniqueStep, PTL DEF Spec

-----------------------------------------------------------------------------
(* 2. The lease. *)

(* A call that records an outcome is under way only for a settled run. *)
CallsAreSettled ==
    \A w \in Workers, j \in JobIds : runs[w][j].call # "none" => runs[w][j].settled

(* Somebody relies on the row of the job. *)
Relied(j) == \/ \E w \in Workers : Live(w, j)
             \/ \E w \in Workers : \E c \in inbox[w] : c.id = j /\ 0 <= c.left

(* A step after which no process knows or does more than before. *)
Narrower ==
    /\ \A w \in Workers : inbox'[w] \subseteq inbox[w] /\ releases'[w] \subseteq releases[w]
    /\ \A w \in Workers, j \in JobIds :
         /\ runs'[w][j].owner \in {runs[w][j].owner, NoOwner}
         /\ Live(w, j)' => Live(w, j)

(* And every run that is still live goes on as it was, or forgets a renewal.*)
SameLive ==
    \A w \in Workers, j \in JobIds :
        Live(w, j)' => /\ Live(w, j) /\ runs'[w][j].owner = runs[w][j].owner
                       /\ runs'[w][j].left = runs[w][j].left
                       /\ runs'[w][j].renew \in {runs[w][j].renew, NoRenewal}

KeepsRelied == \A j \in JobIds : Relied(j) => jobs'[j] = jobs[j]

Owned == RunsOwnTheirLease /\ ClaimsOwnTheirLease /\ ReleasesAreAlone
Backed == RunsAreBacked /\ ClaimsAreBacked
IInv == TypeInv /\ CallsAreSettled /\ LeaseInv

LEMMA LeaseInvIs == LeaseInv <=> Owned /\ Backed
  BY DEF LeaseInv, Owned, Backed

LEMMA ProcessTypes ==
    ASSUME TypeInv, NEW w \in Workers
    PROVE  /\ inbox[w] \subseteq Claim /\ releases[w] \subseteq Lease
           /\ \A j \in JobIds : runs[w][j] \in ActiveRun
  BY DEF TypeInv, Processes

LEMMA ClaimFields ==
    ASSUME NEW c \in Claim
    PROVE  c.id \in JobIds /\ c.owner \in Owners /\ c.owner # NoOwner /\ c.left \in Int
  BY ConstantsType DEF Claim, Over

LEMMA OwnedKept ==
    ASSUME TypeInv, Owned, Narrower  PROVE Owned'
<1>1. RunsOwnTheirLease'
  BY DEF Owned, Narrower, RunsOwnTheirLease, HasRun
<1>2. ClaimsOwnTheirLease'
  BY ProcessTypes, ClaimFields DEF Owned, Narrower, ClaimsOwnTheirLease
<1>3. ReleasesAreAlone'
  <2>1. \A w \in Workers : \A r \in releases[w] : r.id \in JobIds
    BY ProcessTypes DEF Lease
  <2>2. \A w \in Workers, j \in JobIds : Live(w, j)' => runs'[w][j].owner = runs[w][j].owner
    BY DEF Narrower, Live, HasRun
  <2> QED  BY <2>1, <2>2 DEF Owned, Narrower, ReleasesAreAlone
<1> QED  BY <1>1, <1>2, <1>3 DEF Owned

LEMMA BackedKept ==
    ASSUME TypeInv, Backed, SameLive, KeepsRelied, \A w \in Workers : inbox'[w] \subseteq inbox[w]
    PROVE  Backed'
<1>1. RunsAreBacked'
  <2> SUFFICES ASSUME NEW w \in Workers, NEW j \in JobIds, Live(w, j)'
               PROVE  RunIsBacked(w, j)'
    BY DEF RunsAreBacked
  <2>1. Live(w, j) /\ RunIsBacked(w, j) /\ jobs'[j] = jobs[j]
    BY DEF SameLive, KeepsRelied, Relied, Backed, RunsAreBacked
  <2>2. CASE runs'[w][j].renew = runs[w][j].renew
    BY <2>1, <2>2 DEF SameLive, RunIsBacked, Holds
  <2>3. CASE runs'[w][j].renew = NoRenewal
    BY <2>1, <2>3 DEF SameLive, RunIsBacked, Holds, NoRenewal
  <2> QED  BY <2>2, <2>3 DEF SameLive
<1>2. ClaimsAreBacked'
  <2> SUFFICES ASSUME NEW w \in Workers, NEW c \in inbox'[w], 0 <= c.left
               PROVE  Holds(c.id, c.owner)' /\ c.left <= jobs'[c.id].lease
    BY DEF ClaimsAreBacked
  <2>1. c \in inbox[w] /\ c.id \in JobIds
    BY ProcessTypes, ClaimFields
  <2>2. jobs'[c.id] = jobs[c.id]
    BY <2>1 DEF KeepsRelied, Relied
  <2> QED  BY <2>1, <2>2 DEF Backed, ClaimsAreBacked, Holds
<1> QED  BY <1>1, <1>2 DEF Backed

(* A row somebody relies on is running under that lease, which is not over. *)
LEMMA ReliedIsRunning ==
    ASSUME TypeInv, Backed, NEW j \in JobIds, Relied(j)
    PROVE  jobs[j].state = "running" /\ jobs[j].lease # Over
<1>1. jobs[j] \in JobRow
  BY DEF TypeInv, TableOK, RowOK
<1>2. CASE \E w \in Workers : Live(w, j)
  <2> PICK w \in Workers : Live(w, j)
    BY <1>2
  <2>1. RunIsBacked(w, j) /\ runs[w][j].left \in Int
    BY ProcessTypes, RunFields, ConstantsType DEF Backed, RunsAreBacked, Leases, Over
  <2> QED  BY <1>1, <2>1, Fields, ConstantsType DEF RunIsBacked, Holds, Leases, Over
<1>3. CASE \E w \in Workers : \E c \in inbox[w] : c.id = j /\ 0 <= c.left
  <2> PICK w \in Workers : \E c \in inbox[w] : c.id = j /\ 0 <= c.left
    BY <1>3
  <2> PICK c \in inbox[w] : c.id = j /\ 0 <= c.left
    OBVIOUS
  <2>1. c.left \in Int
    BY ProcessTypes, ClaimFields
  <2> QED  BY <1>1, <2>1, Fields, ConstantsType DEF Backed, ClaimsAreBacked, Holds, Leases, Over
<1> QED  BY <1>2, <1>3 DEF Relied

(* A call under lease (i, o) leaves the row of every relied job alone, when *)
(* nobody relies on that lease.                                             *)
LEMMA OthersLease ==
    ASSUME TypeInv, Backed, NEW i \in JobIds, NEW o,
           \A w \in Workers : Live(w, i) => runs[w][i].owner # o,
           \A w \in Workers : \A c \in inbox[w] : c.id = i => c.owner # o
    PROVE  Relied(i) => ~ Holds(i, o)
<1> SUFFICES ASSUME Relied(i), Holds(i, o)  PROVE FALSE
  OBVIOUS
<1>1. CASE \E w \in Workers : Live(w, i)
  BY <1>1 DEF Backed, RunsAreBacked, RunIsBacked, Holds
<1>2. CASE \E w \in Workers : \E c \in inbox[w] : c.id = i /\ 0 <= c.left
  BY <1>2 DEF Backed, ClaimsAreBacked, Holds
<1> QED  BY <1>1, <1>2 DEF Relied

LEMMA OneRunAfter ==
    ASSUME TypeInv, NEW w \in Workers, NEW j \in JobIds, NEW q, SetRun(w, j, q)
    PROVE  /\ runs'[w][j] = q
           /\ \A v \in Workers, i \in JobIds : v # w \/ i # j => runs'[v][i] = runs[v][i]
  BY DEF TypeInv, Processes, SetRun

-----------------------------------------------------------------------------
(* Steps that only narrow what the processes do, row by row. *)

LEMMA SameRuns ==
    ASSUME UNCHANGED <<runs, inbox, releases>>
    PROVE  Narrower /\ SameLive
  BY DEF Narrower, SameLive, Live, HasRun

LEMMA NarrowStep ==
    ASSUME TypeInv, LeaseInv, Narrower, SameLive, KeepsRelied
    PROVE  LeaseInv'
<1>1. Owned /\ Backed
  BY LeaseInvIs
<1>2. Owned' /\ Backed'
  BY <1>1, OwnedKept, BackedKept DEF Narrower
<1> QED  BY <1>2 DEF LeaseInv, Owned, Backed

(* Rows nobody runs, or whose lease is over, are rows nobody relies on. *)
LEMMA ClientKeeps ==
    ASSUME TypeInv, LeaseInv, NEW w \in Workers,
           \/ Enqueue \/ OperatorRetries \/ OperatorAbandons
           \/ Start(w) \/ RequeueExpired(w) \/ RetainSucceeded(w) \/ LoseClaims(w)
    PROVE  KeepsRelied
<1>1. ASSUME NEW j \in JobIds, Relied(j)  PROVE jobs'[j] = jobs[j]
  <2>1. jobs[j].state = "running" /\ jobs[j].lease # Over
    BY <1>1, LeaseInvIs, ReliedIsRunning
  <2> USE <2>1 DEF TypeInv, TableOK
  <2>2. CASE Enqueue
    BY <2>2 DEF Enqueue, InsertJob, AddRow
  <2>3. CASE OperatorRetries \/ OperatorAbandons
    BY <2>3, RetryTable DEF OperatorRetries, OperatorAbandons, AbandonJob, StoppedStates
  <2>4. CASE Start(w) \/ LoseClaims(w)
    BY <2>4 DEF Start, LoseClaims
  <2>5. CASE RequeueExpired(w)
    BY <2>5 DEF RequeueExpired, RequeueExpiredJobs, Expired
  <2>6. CASE RetainSucceeded(w)
    BY <2>6 DEF RetainSucceeded, DeleteSucceeded
  <2> QED  BY <2>2, <2>3, <2>4, <2>5, <2>6
<1> QED  BY <1>1 DEF KeepsRelied

LEMMA ClientLease ==
    ASSUME TypeInv, LeaseInv, NEW w \in Workers,
           \/ Enqueue \/ OperatorRetries \/ OperatorAbandons
           \/ Start(w) \/ RequeueExpired(w) \/ RetainSucceeded(w) \/ LoseClaims(w)
    PROVE  LeaseInv'
<1>2. KeepsRelied
  BY ClientKeeps
<1>3. Narrower /\ SameLive
  <2>1. CASE LoseClaims(w)
    BY <2>1 DEF LoseClaims, TypeInv, Processes, Narrower, SameLive, Live, HasRun
  <2>2. CASE ~ LoseClaims(w)
    BY <2>2, SameRuns DEF Enqueue, OperatorRetries, OperatorAbandons, Start, RequeueExpired,
                          RetainSucceeded
  <2> QED  BY <2>1, <2>2
<1> QED  BY <1>2, <1>3, NarrowStep

LEMMA ReleaseClaimKeeps ==
    ASSUME TypeInv, LeaseInv, NEW w \in Workers, ReleaseClaim(w)
    PROVE  KeepsRelied
<1> PICK r \in releases[w] : ReleaseJob(r.id, r.owner) \/ UNCHANGED jobs
  BY DEF ReleaseClaim
<1>1. r.id \in JobIds
  BY ProcessTypes DEF Lease
<1>2. Relied(r.id) => ~ Holds(r.id, r.owner)
  BY <1>1, LeaseInvIs, OthersLease DEF Owned, ReleasesAreAlone
<1> QED  BY <1>1, <1>2 DEF KeepsRelied, ReleaseJob, TypeInv, TableOK

LEMMA ReleaseClaimLease ==
    ASSUME TypeInv, LeaseInv, NEW w \in Workers, ReleaseClaim(w)
    PROVE  LeaseInv'
<1>1. \E r \in releases[w] : /\ releases' = [releases EXCEPT ![w] = @ \ {r}]
                             /\ UNCHANGED <<state, inbox, runs>>
  BY DEF ReleaseClaim
<1>2. Narrower /\ SameLive
  BY <1>1 DEF TypeInv, Processes, Narrower, SameLive, Live, HasRun
<1> QED  BY <1>2, ReleaseClaimKeeps, NarrowStep

LEMMA StopLease ==
    ASSUME TypeInv, LeaseInv, NEW w \in Workers,
           Stop(w) \/ AbortRuns(w) \/ Stopped(w) \/ Exit(w)
    PROVE  LeaseInv'
<1>1. KeepsRelied
  BY DEF Stop, AbortRuns, Stopped, Exit, KeepsRelied
<1>2. CASE Stop(w) \/ Stopped(w)
  BY <1>1, <1>2, SameRuns, NarrowStep DEF Stop, Stopped
<1>3. CASE AbortRuns(w)
  <2>1. /\ UNCHANGED <<inbox, releases>>
        /\ \A v \in Workers, j \in JobIds : v # w => runs'[v][j] = runs[v][j]
        /\ \A j \in JobIds : runs'[w][j] = IF HasRun(w, j) THEN AbortedRun(runs[w][j]) ELSE NoRun
    BY <1>3 DEF AbortRuns, TypeInv, Processes
  <2>2. ASSUME NEW j \in JobIds
        PROVE  runs'[w][j].owner \in {runs[w][j].owner, NoOwner} /\ ~ Live(w, j)'
    <3>1. runs[w][j] \in ActiveRun
      BY ProcessTypes
    <3>2. CASE HasRun(w, j)
      BY <2>1, <3>1, <3>2 DEF AbortedRun, ActiveRun, Live
    <3>3. CASE ~ HasRun(w, j)
      BY <2>1, <3>3 DEF NoRun, Live, HasRun
    <3> QED  BY <3>2, <3>3
  <2>3. Narrower /\ SameLive
    BY <2>1, <2>2 DEF Narrower, SameLive, Live, HasRun
  <2> QED  BY <1>1, <2>3, NarrowStep
<1>4. CASE Exit(w)
  <2>1. /\ \A v \in Workers, j \in JobIds : v # w => runs'[v][j] = runs[v][j]
        /\ \A j \in JobIds : runs'[w][j] = NoRun
        /\ \A v \in Workers : inbox'[v] \subseteq inbox[v] /\ releases'[v] \subseteq releases[v]
    BY <1>4 DEF Exit, TypeInv, Processes
  <2>2. Narrower /\ SameLive
    BY <2>1 DEF Narrower, SameLive, Live, HasRun, NoRun
  <2> QED  BY <1>1, <2>2, NarrowStep
<1> QED  BY <1>2, <1>3, <1>4

(* Steps of one run that do not renew its lease. *)
LEMMA RunKeeps ==
    ASSUME TypeInv, LeaseInv, CallsAreSettled, NEW w \in Workers, NEW j \in JobIds,
           \/ RenewalThrows(w, j) \/ DeadlineFires(w, j) \/ HandlerReturns(w, j)
           \/ HandlerAborts(w, j) \/ CommitOutcome(w, j) \/ OutcomeNotRecorded(w, j)
    PROVE  KeepsRelied
<1> DEFINE r == runs[w][j]
<1>0. r \in ActiveRun
  BY ProcessTypes
<1>1. CASE UNCHANGED jobs
  BY <1>1 DEF KeepsRelied
<1>2. CASE CommitOutcome(w, j)
  <2>1. HasRun(w, j) /\ ~ Live(w, j)
    BY <1>2 DEF CommitOutcome, CallsAreSettled, Live
  <2>2. Relied(j) => ~ Holds(j, r.owner)
    BY <2>1, LeaseInvIs, OthersLease DEF Owned, RunsOwnTheirLease, ClaimsOwnTheirLease, Live
  <2>3. \A i \in JobIds : i # j \/ ~ Holds(j, r.owner) => jobs'[i] = jobs[i]
    <3>1. \/ CompleteJob(j, r.owner) \/ ReleaseJob(j, r.owner)
          \/ \E retryable \in BOOLEAN : FailJob(j, r.owner, retryable)
      BY <1>0, <1>2 DEF CommitOutcome, ActiveRun, Calls
    <3>2. CASE CompleteJob(j, r.owner) \/ ReleaseJob(j, r.owner)
      BY <3>2 DEF CompleteJob, ReleaseJob, TypeInv, TableOK
    <3>3. CASE \E retryable \in BOOLEAN : FailJob(j, r.owner, retryable)
      BY <3>3 DEF FailJob, FailOutcome, TypeInv, TableOK
    <3> QED  BY <3>1, <3>2, <3>3
  <2> QED  BY <2>2, <2>3 DEF KeepsRelied
<1> QED  BY <1>1, <1>2 DEF RenewalThrows, DeadlineFires, HandlerReturns, HandlerAborts,
                           OutcomeNotRecorded

LEMMA RunLease ==
    ASSUME TypeInv, LeaseInv, CallsAreSettled, NEW w \in Workers, NEW j \in JobIds,
           \/ RenewalThrows(w, j) \/ DeadlineFires(w, j) \/ HandlerReturns(w, j)
           \/ HandlerAborts(w, j) \/ CommitOutcome(w, j) \/ OutcomeNotRecorded(w, j)
    PROVE  LeaseInv'
<1> DEFINE r == runs[w][j]
<1>1. r \in ActiveRun
  BY ProcessTypes
<1>2. PICK q : SetRun(w, j, q) /\ q.owner \in {r.owner, NoOwner}
               /\ (q.owner # NoOwner /\ ~ q.settled /\ q.aborted = "no" =>
                     /\ Live(w, j) /\ q.owner = r.owner /\ q.left = r.left
                     /\ q.renew \in {r.renew, NoRenewal})
  <2>1. CASE RenewalThrows(w, j)
    <3> DEFINE q == [r EXCEPT !.renew = NoRenewal]
    <3>1. SetRun(w, j, q) /\ HasRun(w, j)
      BY <2>1 DEF RenewalThrows, UpdateRun
    <3>2. /\ q.owner = r.owner /\ q.left = r.left /\ q.settled = r.settled
          /\ q.aborted = r.aborted /\ q.renew = NoRenewal
      BY <1>1 DEF ActiveRun
    <3> QED  BY <3>1, <3>2 DEF Live
  <2>2. CASE DeadlineFires(w, j)
    <3> DEFINE q == [r EXCEPT !.aborted = "lease_lost"]
    <3>1. SetRun(w, j, q)
      BY <2>2 DEF DeadlineFires, LoseLease, UpdateRun
    <3>2. q.owner = r.owner /\ q.aborted # "no"
      BY <1>1 DEF ActiveRun
    <3> QED  BY <3>1, <3>2
  <2>3. CASE HandlerReturns(w, j)
    <3>1. CASE r.settled
      BY <2>3, <3>1 DEF HandlerReturns, EndRun, NoRun
    <3>2. CASE ~ r.settled
      <4> PICK c \in Results : SetRun(w, j, [r EXCEPT !.settled = TRUE, !.call = c])
        BY <2>3, <3>2 DEF HandlerReturns
      <4> DEFINE q == [r EXCEPT !.settled = TRUE, !.call = c]
      <4>1. q.owner = r.owner /\ q.settled
        BY <1>1 DEF ActiveRun
      <4> QED  BY <4>1
    <3> QED  BY <3>1, <3>2
  <2>4. CASE HandlerAborts(w, j)
    <3> DEFINE q == [r EXCEPT !.settled = TRUE, !.call = "release"]
    <3>1. SetRun(w, j, q) \/ SetRun(w, j, NoRun)
      BY <2>4 DEF HandlerAborts, EndRun
    <3>2. q.owner = r.owner /\ q.settled /\ NoRun.owner = NoOwner
      BY <1>1 DEF ActiveRun, NoRun
    <3> HIDE DEF q
    <3> QED  BY <3>1, <3>2
  <2>5. CASE CommitOutcome(w, j) \/ OutcomeNotRecorded(w, j)
    <3>1. SetRun(w, j, NoRun)
      BY <2>5 DEF CommitOutcome, OutcomeNotRecorded, EndRun
    <3>2. NoRun.owner = NoOwner
      BY DEF NoRun
    <3> QED  BY <3>1, <3>2
  <2> QED  BY <2>1, <2>2, <2>3, <2>4, <2>5
<1>3. UNCHANGED <<inbox, releases>>
  BY DEF RenewalThrows, DeadlineFires, HandlerReturns, HandlerAborts, CommitOutcome,
         OutcomeNotRecorded
<1>4. Narrower /\ SameLive
  BY <1>2, <1>3, OneRunAfter DEF Narrower, SameLive, Live, HasRun
<1>5. KeepsRelied
  BY RunKeeps
<1> QED  BY <1>4, <1>5, NarrowStep

-----------------------------------------------------------------------------
(* Renewal: the lease ends no earlier than the run's own deadline. *)

LEMMA RenewalLease ==
    ASSUME TypeInv, LeaseInv, NEW w \in Workers, NEW j \in JobIds,
           SendRenewal(w, j) \/ CommitRenewal(w, j) \/ ReceiveRenewal(w, j)
    PROVE  LeaseInv'
<1> DEFINE r == runs[w][j]
<1>1. /\ r \in ActiveRun /\ r.left \in Int /\ r.left <= LeaseTime
      /\ r.renew.age \in Int /\ r.renew.age >= 0
      /\ jobs[j].lease \in Int /\ jobs[j] \in JobRow
  <2>1. r \in ActiveRun /\ jobs[j] \in JobRow
    BY ProcessTypes DEF TypeInv, TableOK, RowOK
  <2> QED  BY <2>1, RunFields, Fields, ConstantsType DEF Leases, Ages, Over
<1>2. UNCHANGED <<inbox, releases>>
  BY DEF SendRenewal, CommitRenewal, ReceiveRenewal
<1>3. PICK q : /\ SetRun(w, j, q) /\ q.owner = r.owner
               /\ q.owner # NoOwner /\ ~ q.settled /\ q.aborted = "no" => Live(w, j)
               /\ q.left = r.left \/ ReceiveRenewal(w, j)
               /\ SendRenewal(w, j) => q.renew = [phase |-> "sent", age |-> 0]
               /\ CommitRenewal(w, j) =>
                    q.renew.age = r.renew.age
                    /\ q.renew.phase = IF Holds(j, r.owner) THEN "held" ELSE "refused"
               /\ ReceiveRenewal(w, j) =>
                    q.renew = NoRenewal
                    /\ (q.owner # NoOwner /\ ~ q.settled /\ q.aborted = "no" =>
                           /\ r.renew.phase = "held" /\ q.left = LeaseTime - r.renew.age
                           /\ q.left > LeaseSafety)
  <2>1. CASE SendRenewal(w, j)
    <3> DEFINE q == [r EXCEPT !.renew = [phase |-> "sent", age |-> 0]]
    <3>1. SetRun(w, j, q) /\ Live(w, j) /\ r.renew.phase = "idle"
      BY <2>1 DEF SendRenewal, UpdateRun
    <3>2. /\ q.owner = r.owner /\ q.left = r.left
          /\ q.renew = [phase |-> "sent", age |-> 0]
      BY <1>1 DEF ActiveRun
    <3>3. ~ CommitRenewal(w, j) /\ ~ ReceiveRenewal(w, j)
      BY <3>1 DEF CommitRenewal, ReceiveRenewal
    <3> HIDE DEF q
    <3> QED  BY <3>1, <3>2, <3>3
  <2>2. CASE CommitRenewal(w, j)
    <3> DEFINE n == [r.renew EXCEPT !.phase = IF Holds(j, r.owner) THEN "held" ELSE "refused"]
               q == [r EXCEPT !.renew = n]
    <3>1. SetRun(w, j, q) /\ HasRun(w, j) /\ r.renew.phase = "sent"
      BY <2>2 DEF CommitRenewal, UpdateRun
    <3>2. /\ q.owner = r.owner /\ q.left = r.left /\ q.settled = r.settled
          /\ q.aborted = r.aborted /\ q.renew = n
      BY <1>1 DEF ActiveRun
    <3>3. n.age = r.renew.age /\ n.phase = IF Holds(j, r.owner) THEN "held" ELSE "refused"
      BY <1>1 DEF ActiveRun, Renewal
    <3>4. ~ SendRenewal(w, j) /\ ~ ReceiveRenewal(w, j)
      BY <3>1 DEF SendRenewal, ReceiveRenewal
    <3> HIDE DEF q, n
    <3> QED  BY <3>1, <3>2, <3>3, <3>4 DEF Live
  <2>3. CASE ReceiveRenewal(w, j)
    <3>1. HasRun(w, j) /\ r.renew.phase \in {"held", "refused"}
      BY <2>3 DEF ReceiveRenewal
    <3>2. ~ SendRenewal(w, j) /\ ~ CommitRenewal(w, j)
      BY <3>1 DEF SendRenewal, CommitRenewal
    <3>3. CASE ~ Live(w, j)
      <4> DEFINE q == [r EXCEPT !.renew = NoRenewal]
      <4>1. SetRun(w, j, q)
        BY <2>3, <3>3 DEF ReceiveRenewal
      <4>2. /\ q.owner = r.owner /\ q.settled = r.settled
            /\ q.aborted = r.aborted /\ q.renew = NoRenewal
        BY <1>1 DEF ActiveRun
      <4> HIDE DEF q
      <4> QED  BY <2>3, <3>1, <3>2, <3>3, <4>1, <4>2 DEF Live
    <3>4. CASE Live(w, j) /\ r.renew.phase = "refused"
      <4> DEFINE q == [r EXCEPT !.renew = NoRenewal, !.aborted = "lease_lost"]
      <4>1. SetRun(w, j, q)
        BY <2>3, <3>4 DEF ReceiveRenewal
      <4>2. q.owner = r.owner /\ q.aborted # "no" /\ q.renew = NoRenewal
        BY <1>1 DEF ActiveRun
      <4> HIDE DEF q
      <4> QED  BY <2>3, <3>2, <4>1, <4>2
    <3>5. CASE Live(w, j) /\ r.renew.phase = "held"
      <4> DEFINE left == LeaseTime - r.renew.age
                 a == IF left <= LeaseSafety THEN "lease_lost" ELSE "no"
                 q == [r EXCEPT !.renew = NoRenewal, !.left = left, !.aborted = a]
      <4>1. SetRun(w, j, q)
        BY <2>3, <3>5 DEF ReceiveRenewal
      <4>2. q.owner = r.owner /\ q.aborted = a /\ q.renew = NoRenewal /\ q.left = left
        BY <1>1 DEF ActiveRun
      <4>3. a = "no" => left > LeaseSafety
        BY <1>1, WorkerConstants, ConstantsType
      <4> HIDE DEF q, a
      <4> QED  BY <2>3, <3>2, <3>5, <4>1, <4>2, <4>3
    <3> QED  BY <3>1, <3>3, <3>4, <3>5
  <2> QED  BY <2>1, <2>2, <2>3
<1>4. /\ runs'[w][j] = q
      /\ \A v \in Workers, i \in JobIds : v # w \/ i # j => runs'[v][i] = runs[v][i]
  BY <1>3, OneRunAfter
<1>5. Narrower
  BY <1>2, <1>3, <1>4 DEF Narrower, Live, HasRun
<1>6. Owned /\ Backed /\ Owned'
  BY <1>5, LeaseInvIs, OwnedKept
<1>7. /\ \A i \in JobIds \ {j} : jobs'[i] = jobs[i]
      /\ jobs'[j].state = jobs[j].state /\ jobs'[j].owner = jobs[j].owner
      /\ jobs'[j].lease = IF CommitRenewal(w, j) /\ Holds(j, r.owner)
                          THEN LeaseTime - r.renew.age ELSE jobs[j].lease
  <2>1. CASE CommitRenewal(w, j)
    BY <1>1, <2>1 DEF CommitRenewal, RenewJobLease, TypeInv, TableOK, JobRow
  <2>2. CASE ~ CommitRenewal(w, j)
    BY <2>2 DEF SendRenewal, ReceiveRenewal
  <2> QED  BY <2>1, <2>2
<1>8. RunsAreBacked'
  <2> SUFFICES ASSUME NEW v \in Workers, NEW i \in JobIds, Live(v, i)'
               PROVE  RunIsBacked(v, i)'
    BY DEF RunsAreBacked
  <2>1. Live(v, i) /\ RunIsBacked(v, i)
    BY <1>5, <1>6 DEF Narrower, Backed, RunsAreBacked
  <2>2. CASE i # j
    BY <1>4, <1>7, <2>1, <2>2 DEF RunIsBacked, Holds
  <2>3. CASE i = j /\ v # w
    <3>1. runs'[v][i] = runs[v][i]
      BY <1>4, <2>3
    <3>2. ~ (CommitRenewal(w, j) /\ Holds(j, r.owner))
      BY <1>6, <2>1, <2>3 DEF Owned, RunsOwnTheirLease, RunIsBacked, Holds, Live, HasRun,
                              CommitRenewal
    <3> QED  BY <1>7, <2>1, <2>3, <3>1, <3>2 DEF RunIsBacked, Holds
  <2>4. CASE i = j /\ v = w
    <3>0. q.owner # NoOwner /\ ~ q.settled /\ q.aborted = "no"
      BY <1>4, <2>4 DEF Live, HasRun
    <3>1. /\ Holds(j, r.owner) /\ 0 <= r.left /\ r.left <= jobs[j].lease
          /\ r.renew.phase \in {"sent", "held"} => r.left + r.renew.age <= LeaseTime
          /\ r.renew.phase = "held" => LeaseTime - r.renew.age <= jobs[j].lease
      BY <2>1, <2>4 DEF RunIsBacked
    <3>2. Holds(j, q.owner)'
      BY <1>3, <1>7, <3>1 DEF Holds
    <3>3. CASE SendRenewal(w, j)
      <4>1. q.left = r.left /\ q.renew = [phase |-> "sent", age |-> 0]
            /\ jobs'[j].lease = jobs[j].lease
        BY <1>3, <1>7, <3>3 DEF SendRenewal, CommitRenewal, ReceiveRenewal
      <4> QED  BY <1>1, <1>4, <2>4, <3>1, <3>2, <4>1, ConstantsType DEF RunIsBacked
    <3>4. CASE CommitRenewal(w, j)
      <4>1. /\ q.left = r.left /\ q.renew.age = r.renew.age /\ q.renew.phase = "held"
            /\ jobs'[j].lease = LeaseTime - r.renew.age /\ r.renew.phase = "sent"
        BY <1>3, <1>7, <3>1, <3>4 DEF CommitRenewal, ReceiveRenewal
      <4> QED  BY <1>1, <1>4, <2>4, <3>1, <3>2, <4>1, ConstantsType DEF RunIsBacked
    <3>5. CASE ReceiveRenewal(w, j)
      <4>1. /\ q.renew = NoRenewal /\ r.renew.phase = "held" /\ q.left = LeaseTime - r.renew.age
            /\ q.left > LeaseSafety /\ jobs'[j].lease = jobs[j].lease
        BY <1>3, <1>7, <3>0, <3>5 DEF CommitRenewal, ReceiveRenewal
      <4> QED  BY <1>1, <1>4, <2>4, <3>1, <3>2, <4>1, ConstantsType, WorkerConstants
               DEF RunIsBacked, NoRenewal
    <3> QED  BY <3>3, <3>4, <3>5
  <2> QED  BY <2>2, <2>3, <2>4
<1>9. ClaimsAreBacked'
  <2> SUFFICES ASSUME NEW v \in Workers, NEW c \in inbox[v], 0 <= c.left
               PROVE  Holds(c.id, c.owner)' /\ c.left <= jobs'[c.id].lease
    BY <1>2 DEF ClaimsAreBacked
  <2>1. c.id \in JobIds /\ Holds(c.id, c.owner) /\ c.left <= jobs[c.id].lease
    BY <1>6, ProcessTypes, ClaimFields DEF Backed, ClaimsAreBacked
  <2>2. ~ (c.id = j /\ CommitRenewal(w, j) /\ Holds(j, r.owner))
    BY <1>6, <2>1 DEF Owned, ClaimsOwnTheirLease, Holds
  <2> QED  BY <1>7, <2>1, <2>2 DEF Holds
<1> QED  BY <1>6, <1>8, <1>9 DEF LeaseInv, Owned, Backed

-----------------------------------------------------------------------------
(* Steps that hand a lease on: to a claim, to a run, to a release call. *)

LEMMA ClaimKeeps ==
    ASSUME TypeInv, LeaseInv, NEW w \in Workers, ClaimFree(w)
    PROVE  KeepsRelied
  BY LeaseInvIs, ReliedIsRunning DEF ClaimFree, ClaimSet, ClaimJobs, Due, KeepsRelied

LEMMA ClaimLease ==
    ASSUME TypeInv, LeaseInv, NEW w \in Workers, ClaimFree(w)
    PROVE  LeaseInv'
<1> PICK J \in SUBSET JobIds : ClaimSet(w, J)
  BY DEF ClaimFree
<1> PICK o \in Owners :
      /\ Fresh(o)
      /\ ClaimJobs(J, o, Concurrency - Cardinality(Running(w)))
      /\ inbox' = [inbox EXCEPT ![w] = {[id |-> j, owner |-> o, left |-> LeaseTime] : j \in J}]
  BY DEF ClaimSet
<1>1. /\ inbox[w] = {} /\ UNCHANGED <<state, runs, releases>>
      /\ \A v \in Workers : v # w => inbox'[v] = inbox[v]
      /\ inbox'[w] = {[id |-> j, owner |-> o, left |-> LeaseTime] : j \in J}
  BY DEF ClaimSet, TypeInv, Processes
<1>2. /\ \A j \in JobIds \ J : jobs'[j] = jobs[j]
      /\ \A j \in J : jobs[j].state = "queued" /\ Holds(j, o)' /\ jobs'[j].lease = LeaseTime
  BY DEF ClaimJobs, Due, Holds, TypeInv, TableOK, JobRow
<1>3. KeepsRelied
  BY ClaimKeeps
<1>4. Owned /\ Backed
  BY LeaseInvIs
<1>5. ASSUME NEW v \in Workers, NEW c \in inbox'[v]
      PROVE  \/ c \in inbox[v] /\ c.owner # o
             \/ v = w /\ c.id \in J /\ c.owner = o /\ c.left = LeaseTime
                /\ c = [id |-> c.id, owner |-> o, left |-> LeaseTime]
  BY <1>1 DEF Fresh
<1>6. RunsAreBacked'
  BY <1>1, <1>3, <1>4 DEF Backed, RunsAreBacked, RunIsBacked, Holds, Live, HasRun, KeepsRelied,
                          Relied
<1>7. ClaimsAreBacked'
  <2> SUFFICES ASSUME NEW v \in Workers, NEW c \in inbox'[v], 0 <= c.left
               PROVE  Holds(c.id, c.owner)' /\ c.left <= jobs'[c.id].lease
    BY DEF ClaimsAreBacked
  <2>1. CASE c \in inbox[v]
    <3>1. c.id \in JobIds
      BY <2>1, ProcessTypes, ClaimFields
    <3> QED  BY <1>3, <1>4, <2>1, <3>1 DEF Backed, ClaimsAreBacked, KeepsRelied, Relied, Holds
  <2>2. CASE c.id \in J /\ c.owner = o /\ c.left = LeaseTime
    BY <1>2, <2>2, ConstantsType
  <2> QED  BY <1>5, <2>1, <2>2
<1>8. RunsOwnTheirLease'
  BY <1>1, <1>4 DEF Owned, RunsOwnTheirLease, HasRun
<1>9. ClaimsOwnTheirLease'
  <2>1. ASSUME NEW u \in Workers, NEW v \in Workers, NEW c \in inbox'[u], NEW d \in inbox'[v],
               c.id = d.id, c.owner = d.owner
        PROVE  u = v
    BY <1>4, <1>5, <2>1 DEF Owned, ClaimsOwnTheirLease
  <2>2. ASSUME NEW v \in Workers, NEW c \in inbox'[v], NEW d \in inbox'[v], c.id = d.id
        PROVE  c = d
    <3>1. CASE v = w
      BY <1>1, <1>5, <2>2, <3>1
    <3>2. CASE v # w
      BY <1>1, <1>4, <2>2, <3>2 DEF Owned, ClaimsOwnTheirLease
    <3> QED  BY <3>1, <3>2
  <2>3. ASSUME NEW u \in Workers, NEW v \in Workers, NEW c \in inbox'[u]
        PROVE  runs'[v][c.id].owner # c.owner
    BY <1>1, <1>4, <1>5, <2>3 DEF Owned, ClaimsOwnTheirLease, Fresh
  <2> QED  BY <2>1, <2>2, <2>3 DEF ClaimsOwnTheirLease
<1>10. ReleasesAreAlone'
  <2> SUFFICES ASSUME NEW u \in Workers, NEW v \in Workers, NEW r \in releases[u]
               PROVE  /\ Live(v, r.id)' => runs'[v][r.id].owner # r.owner
                      /\ \A c \in inbox'[v] : c.id = r.id => c.owner # r.owner
    BY <1>1 DEF ReleasesAreAlone
  <2>1. r.owner # o
    BY DEF Fresh
  <2> QED  BY <1>1, <1>4, <1>5, <2>1 DEF Owned, ReleasesAreAlone, Live, HasRun
<1> QED  BY <1>6, <1>7, <1>8, <1>9, <1>10 DEF LeaseInv

LEMMA ReceiveLease ==
    ASSUME TypeInv, LeaseInv, NEW w \in Workers, ReceiveClaims(w)
    PROVE  LeaseInv'
<1> DEFINE taken == {c \in inbox[w] : state[w] = "running" /\ ~ HasRun(w, c.id)}
<1>0. Owned /\ Backed
  BY LeaseInvIs
<1>1. /\ UNCHANGED jobs
      /\ \A v \in Workers : v # w => inbox'[v] = inbox[v] /\ releases'[v] = releases[v]
                                     /\ runs'[v] = runs[v]
      /\ inbox'[w] = {}
      /\ releases'[w] = releases[w] \cup {[id |-> c.id, owner |-> c.owner] : c \in inbox[w] \ taken}
      /\ \A j \in JobIds :
           runs'[w][j] = IF \E c \in taken : c.id = j
                         THEN StartedRun(CHOOSE c \in taken : c.id = j) ELSE runs[w][j]
  BY DEF ReceiveClaims, TypeInv, Processes
<1>2. /\ taken \subseteq inbox[w] /\ \A c \in taken : ~ HasRun(w, c.id)
      /\ \A c \in inbox[w] : c \in Claim /\ c.id \in JobIds /\ c.owner \in Owners
  BY ProcessTypes, ClaimFields
<1> HIDE DEF taken
<1>3. ASSUME NEW j \in JobIds, runs'[w][j] # runs[w][j]
      PROVE  \E c \in taken : c.id = j /\ runs'[w][j] = StartedRun(c)
  BY <1>1, <1>3
<1>4. ASSUME NEW c \in Claim
      PROVE  /\ StartedRun(c).owner = c.owner /\ StartedRun(c).left = c.left
             /\ StartedRun(c).renew = NoRenewal
             /\ StartedRun(c).aborted = "no" => 0 <= c.left
  BY ClaimFields, WorkerConstants DEF StartedRun
<1>5. RunsAreBacked'
  <2> SUFFICES ASSUME NEW v \in Workers, NEW j \in JobIds, Live(v, j)'
               PROVE  RunIsBacked(v, j)'
    BY DEF RunsAreBacked
  <2>1. CASE runs'[v][j] = runs[v][j]
    BY <1>0, <1>1, <2>1 DEF Backed, RunsAreBacked, RunIsBacked, Holds, Live, HasRun
  <2>2. CASE runs'[v][j] # runs[v][j]
    <3>1. v = w
      BY <1>1, <2>2
    <3> PICK c \in taken : c.id = j /\ runs'[w][j] = StartedRun(c)
      BY <1>3, <2>2, <3>1
    <3>2. c \in inbox[w] /\ c \in Claim /\ 0 <= c.left
      BY <1>2, <1>4, <3>1 DEF Live
    <3>3. Holds(j, c.owner) /\ c.left <= jobs[j].lease
      BY <1>0, <3>2 DEF Backed, ClaimsAreBacked
    <3> QED  BY <1>1, <1>4, <3>1, <3>2, <3>3 DEF RunIsBacked, Holds, NoRenewal
  <2> QED  BY <2>1, <2>2
<1>6. ClaimsAreBacked'
  BY <1>0, <1>1 DEF Backed, ClaimsAreBacked, Holds
<1>7. RunsOwnTheirLease'
  <2>1. ASSUME NEW v \in Workers, NEW j \in JobIds, v # w, HasRun(v, j)', HasRun(w, j)',
               runs'[v][j].owner = runs'[w][j].owner
        PROVE  FALSE
    <3>1. runs'[v][j] = runs[v][j]
      BY <1>1, <2>1
    <3>2. CASE runs'[w][j] = runs[w][j]
      BY <1>0, <2>1, <3>1, <3>2 DEF Owned, RunsOwnTheirLease, HasRun
    <3>3. CASE runs'[w][j] # runs[w][j]
      <4> PICK c \in taken : c.id = j /\ runs'[w][j] = StartedRun(c)
        BY <1>3, <3>3
      <4> QED  BY <1>0, <1>2, <1>4, <2>1, <3>1 DEF Owned, ClaimsOwnTheirLease
    <3> QED  BY <3>2, <3>3
  <2> SUFFICES ASSUME NEW u \in Workers, NEW v \in Workers, NEW j \in JobIds,
                      HasRun(u, j)', HasRun(v, j)', runs'[u][j].owner = runs'[v][j].owner
               PROVE  u = v
    BY DEF RunsOwnTheirLease
  <2>2. CASE u = w \/ v = w
    BY <2>1, <2>2
  <2>3. CASE u # w /\ v # w
    BY <1>0, <1>1, <2>3 DEF Owned, RunsOwnTheirLease, HasRun
  <2> QED  BY <2>2, <2>3
<1>8. ClaimsOwnTheirLease'
  <2>1. \A v \in Workers : inbox'[v] \subseteq inbox[v]
    BY <1>1
  <2>2. ASSUME NEW u \in Workers, NEW v \in Workers, NEW d \in inbox'[u]
        PROVE  runs'[v][d.id].owner # d.owner
    <3>1. d \in inbox[u] /\ u # w /\ d.id \in JobIds
      BY <1>1, <2>2, ProcessTypes, ClaimFields
    <3>2. CASE runs'[v][d.id] = runs[v][d.id]
      BY <1>0, <3>1, <3>2 DEF Owned, ClaimsOwnTheirLease
    <3>3. CASE runs'[v][d.id] # runs[v][d.id]
      <4>1. v = w
        BY <1>1, <3>3
      <4> PICK c \in taken : c.id = d.id /\ runs'[w][d.id] = StartedRun(c)
        BY <1>3, <3>1, <3>3, <4>1
      <4> QED  BY <1>0, <1>2, <1>4, <3>1, <4>1 DEF Owned, ClaimsOwnTheirLease
    <3> QED  BY <3>2, <3>3
  <2> QED  BY <1>0, <2>1, <2>2 DEF Owned, ClaimsOwnTheirLease
<1>9. ReleasesAreAlone'
  <2> SUFFICES ASSUME NEW u \in Workers, NEW v \in Workers, NEW r \in releases'[u]
               PROVE  /\ Live(v, r.id)' => runs'[v][r.id].owner # r.owner
                      /\ \A c \in inbox'[v] : c.id = r.id => c.owner # r.owner
    BY DEF ReleasesAreAlone
  <2>1. CASE r \in releases[u]
    <3>0. r.id \in JobIds
      BY <2>1, ProcessTypes DEF Lease
    <3>1. CASE runs'[v][r.id] = runs[v][r.id]
      BY <1>0, <1>1, <2>1, <3>1 DEF Owned, ReleasesAreAlone, Live, HasRun
    <3>2. CASE runs'[v][r.id] # runs[v][r.id]
      <4>1. v = w
        BY <1>1, <3>2
      <4> PICK c \in taken : c.id = r.id /\ runs'[w][r.id] = StartedRun(c)
        BY <1>3, <3>0, <3>2, <4>1
      <4> QED  BY <1>0, <1>1, <1>2, <1>4, <2>1, <4>1 DEF Owned, ReleasesAreAlone
    <3> QED  BY <3>1, <3>2
  <2>2. CASE r \notin releases[u]
    <3> PICK c \in inbox[w] \ taken : r = [id |-> c.id, owner |-> c.owner] /\ u = w
      BY <1>1, <2>2
    <3>1. c \in inbox[w] /\ r.id = c.id /\ r.owner = c.owner /\ c.id \in JobIds
      BY <1>2
    <3>2. \A d \in inbox'[v] : d.id = c.id => d.owner # c.owner
      BY <1>0, <1>1, <3>1 DEF Owned, ClaimsOwnTheirLease
    <3>3. CASE runs'[v][c.id] = runs[v][c.id]
      BY <1>0, <3>1, <3>2, <3>3 DEF Owned, ClaimsOwnTheirLease
    <3>4. CASE runs'[v][c.id] # runs[v][c.id]
      <4>1. v = w
        BY <1>1, <3>4
      <4> PICK d \in taken : d.id = c.id /\ runs'[w][c.id] = StartedRun(d)
        BY <1>3, <3>1, <3>4, <4>1
      <4>2. d = c
        BY <1>0, <1>2, <3>1 DEF Owned, ClaimsOwnTheirLease
      <4> QED  BY <4>2
    <3> QED  BY <3>1, <3>2, <3>3, <3>4
  <2> QED  BY <2>1, <2>2
<1> QED  BY <1>5, <1>6, <1>7, <1>8, <1>9 DEF LeaseInv

LEMMA ReleaseRunsLease ==
    ASSUME TypeInv, LeaseInv, NEW w \in Workers, ReleaseRuns(w)
    PROVE  LeaseInv'
<1> DEFINE B == {[id |-> j, owner |-> runs[w][j].owner] : j \in Unsettled(w)}
<1>0. Owned /\ Backed
  BY LeaseInvIs
<1>1. /\ UNCHANGED <<jobs, inbox>>
      /\ \A v \in Workers : v # w => runs'[v] = runs[v] /\ releases'[v] = releases[v]
      /\ releases'[w] = releases[w] \cup B
      /\ \A j \in JobIds : runs'[w][j] = IF j \in Unsettled(w)
                                         THEN [runs[w][j] EXCEPT !.settled = TRUE] ELSE runs[w][j]
  BY DEF ReleaseRuns, TypeInv, Processes
<1>2. ASSUME NEW v \in Workers, NEW j \in JobIds
      PROVE  /\ runs'[v][j].owner = runs[v][j].owner
             /\ Live(v, j)' => Live(v, j) /\ runs'[v][j] = runs[v][j]
             /\ v = w /\ j \in Unsettled(w) => ~ Live(v, j)'
  <2>1. runs[v][j] \in ActiveRun
    BY ProcessTypes
  <2>2. CASE v = w /\ j \in Unsettled(w)
    BY <1>1, <2>1, <2>2 DEF ActiveRun, Live
  <2>3. CASE ~ (v = w /\ j \in Unsettled(w))
    BY <1>1, <2>3 DEF Live, HasRun
  <2> QED  BY <2>2, <2>3
<1>3. Backed'
  BY <1>0, <1>1, <1>2, BackedKept DEF SameLive, KeepsRelied
<1>4. RunsOwnTheirLease' /\ ClaimsOwnTheirLease'
  <2>1. RunsOwnTheirLease'
    BY <1>0, <1>2 DEF Owned, RunsOwnTheirLease, HasRun
  <2>2. \A v \in Workers : \A c \in inbox[v] : c.id \in JobIds
    BY ProcessTypes, ClaimFields
  <2> QED  BY <1>0, <1>1, <1>2, <2>1, <2>2 DEF Owned, ClaimsOwnTheirLease
<1>5. ReleasesAreAlone'
  <2> SUFFICES ASSUME NEW u \in Workers, NEW v \in Workers, NEW r \in releases'[u]
               PROVE  /\ Live(v, r.id)' => runs'[v][r.id].owner # r.owner
                      /\ \A c \in inbox[v] : c.id = r.id => c.owner # r.owner
    BY <1>1 DEF ReleasesAreAlone
  <2>1. CASE r \in releases[u]
    <3>1. r.id \in JobIds
      BY <2>1, ProcessTypes DEF Lease
    <3> QED  BY <1>0, <1>2, <2>1, <3>1 DEF Owned, ReleasesAreAlone
  <2>2. CASE r \notin releases[u]
    <3> PICK j \in Unsettled(w) : r = [id |-> j, owner |-> runs[w][j].owner]
      BY <1>1, <2>2
    <3>1. j \in JobIds /\ HasRun(w, j) /\ r.id = j /\ r.owner = runs[w][j].owner
      BY DEF Unsettled, Running
    <3>2. Live(v, j)' => runs'[v][j].owner # r.owner
      BY <1>0, <1>2, <3>1 DEF Owned, RunsOwnTheirLease, Live
    <3> QED  BY <1>0, <3>1, <3>2 DEF Owned, ClaimsOwnTheirLease
  <2> QED  BY <2>1, <2>2
<1> QED  BY <1>3, <1>4, <1>5 DEF LeaseInv, Backed

(* A tick takes as much from the row's lease as from the run's deadline, and*)
(* from a live run's deadline nothing below zero.                           *)
LEMMA TickLease ==
    ASSUME TypeInv, LeaseInv, Tick
    PROVE  LeaseInv'
<1>0. Owned /\ Backed
  BY LeaseInvIs
<1>1. ASSUME NEW j \in JobIds
      PROVE  /\ jobs'[j].state = jobs[j].state /\ jobs'[j].owner = jobs[j].owner
             /\ jobs'[j].lease = Sooner(jobs[j].lease, Over) /\ jobs[j].lease \in Int
  <2>1. jobs[j] \in JobRow
    BY DEF TypeInv, TableOK, RowOK
  <2>2. jobs'[j] = [jobs[j] EXCEPT !.lease = Sooner(@, Over), !.delay = Sooner(@, 0)]
    BY DEF Tick, TimePasses
  <2> QED  BY <2>1, <2>2, Fields, ConstantsType DEF JobRow, Leases, Over
<1>2. ASSUME NEW w \in Workers, NEW j \in JobIds
      PROVE  /\ runs'[w][j].owner = runs[w][j].owner /\ Live(w, j)' = Live(w, j)
             /\ Live(w, j) => /\ runs'[w][j].left = Sooner(runs[w][j].left, Over)
                              /\ runs'[w][j].renew = OlderRenewal(runs[w][j].renew)
  <2>1. runs[w][j] \in ActiveRun /\ runs'[w][j] = OlderRun(runs[w][j])
    BY ProcessTypes DEF Tick
  <2>2. CASE runs[w][j].owner = NoOwner
    BY <2>1, <2>2 DEF OlderRun, Live, HasRun
  <2>3. CASE runs[w][j].owner # NoOwner
    BY <2>1, <2>3 DEF OlderRun, Live, HasRun, ActiveRun
  <2> QED  BY <2>2, <2>3
<1>3. ASSUME NEW w \in Workers, NEW c \in inbox'[w]
      PROVE  \E d \in inbox[w] : /\ c = [d EXCEPT !.left = Sooner(@, Over)]
                                 /\ c.id = d.id /\ c.owner = d.owner
                                 /\ c.left = Sooner(d.left, Over)
  <2>1. \E d \in inbox[w] : c = [d EXCEPT !.left = Sooner(@, Over)]
    BY <1>3 DEF Tick
  <2> PICK d \in inbox[w] : c = [d EXCEPT !.left = Sooner(@, Over)]
    BY <2>1
  <2>2. d \in Claim
    BY ProcessTypes
  <2> QED  BY <2>2 DEF Claim
<1>4. RunsAreBacked'
  <2> SUFFICES ASSUME NEW w \in Workers, NEW j \in JobIds, Live(w, j)'
               PROVE  RunIsBacked(w, j)'
    BY DEF RunsAreBacked
  <2> DEFINE r == runs[w][j]
             n == r.renew
             l == jobs[j].lease
  <2>1. /\ Live(w, j) /\ RunIsBacked(w, j) /\ r.left > 0
    BY <1>0, <1>2 DEF Backed, RunsAreBacked, Tick, TimersOnTime
  <2>2. /\ r.left \in Int /\ n.age \in Int /\ n.age >= 0 /\ n \in Renewal
    BY ProcessTypes, RunFields, ConstantsType DEF Leases, Ages, Over
  <2>3. runs'[w][j].left = r.left - 1 /\ jobs'[j].lease = l - 1
    BY <1>1, <1>2, <2>1, <2>2 DEF RunIsBacked, Sooner, Over
  <2>4. CASE n.phase \in {"sent", "held"}
    <3>1. r.left + n.age <= LeaseTime
      BY <2>1, <2>4 DEF RunIsBacked
    <3>2. ~ (n.phase = "idle" \/ n.age > LeaseTime)
      BY <2>1, <2>2, <2>4, <3>1, ConstantsType
    <3>3. runs'[w][j].renew.age = n.age + 1 /\ runs'[w][j].renew.phase = n.phase
      BY <1>2, <2>1, <2>2, <3>2 DEF OlderRenewal, Renewal
    <3> QED  BY <1>1, <1>2, <2>1, <2>2, <2>3, <3>1, <3>3, ConstantsType DEF RunIsBacked, Holds
  <2>5. CASE n.phase \notin {"sent", "held"}
    <3>1. runs'[w][j].renew.phase = n.phase
      BY <1>2, <2>1, <2>2 DEF OlderRenewal, Renewal
    <3> QED  BY <1>1, <1>2, <2>1, <2>2, <2>3, <2>5, <3>1 DEF RunIsBacked, Holds
  <2> QED  BY <2>4, <2>5
<1>5. ClaimsAreBacked'
  <2> SUFFICES ASSUME NEW w \in Workers, NEW c \in inbox'[w], 0 <= c.left
               PROVE  Holds(c.id, c.owner)' /\ c.left <= jobs'[c.id].lease
    BY DEF ClaimsAreBacked
  <2> PICK d \in inbox[w] : c.id = d.id /\ c.owner = d.owner /\ c.left = Sooner(d.left, Over)
    BY <1>3
  <2>1. d.id \in JobIds /\ d.left \in Int
    BY ProcessTypes, ClaimFields
  <2>2. c.left = d.left - 1 /\ d.left > 0
    BY <2>1 DEF Sooner, Over
  <2>3. Holds(d.id, d.owner) /\ d.left <= jobs[d.id].lease
    BY <1>0, <2>1, <2>2 DEF Backed, ClaimsAreBacked
  <2> QED  BY <1>1, <2>1, <2>2, <2>3 DEF Holds, Sooner, Over
<1>6. RunsOwnTheirLease'
  BY <1>0, <1>2 DEF Owned, RunsOwnTheirLease, HasRun
<1>7. ClaimsOwnTheirLease'
  <2>1. ASSUME NEW u \in Workers, NEW v \in Workers, NEW c \in inbox'[u], NEW d \in inbox'[v],
               c.id = d.id, c.owner = d.owner
        PROVE  u = v
    BY <1>0, <1>3, <2>1 DEF Owned, ClaimsOwnTheirLease
  <2>2. ASSUME NEW v \in Workers, NEW c \in inbox'[v], NEW d \in inbox'[v], c.id = d.id
        PROVE  c = d
    BY <1>0, <1>3, <2>2 DEF Owned, ClaimsOwnTheirLease
  <2>3. ASSUME NEW u \in Workers, NEW v \in Workers, NEW c \in inbox'[u]
        PROVE  runs'[v][c.id].owner # c.owner
    <3> PICK d \in inbox[u] : c.id = d.id /\ c.owner = d.owner
      BY <1>3, <2>3
    <3>1. d.id \in JobIds
      BY ProcessTypes, ClaimFields
    <3> QED  BY <1>0, <1>2, <3>1 DEF Owned, ClaimsOwnTheirLease
  <2> QED  BY <2>1, <2>2, <2>3 DEF ClaimsOwnTheirLease
<1>8. ReleasesAreAlone'
  <2> SUFFICES ASSUME NEW u \in Workers, NEW v \in Workers, NEW r \in releases[u]
               PROVE  /\ Live(v, r.id)' => runs'[v][r.id].owner # r.owner
                      /\ \A c \in inbox'[v] : c.id = r.id => c.owner # r.owner
    BY DEF ReleasesAreAlone, Tick
  <2>1. r.id \in JobIds
    BY ProcessTypes DEF Lease
  <2> QED  BY <1>0, <1>2, <1>3, <2>1 DEF Owned, ReleasesAreAlone
<1> QED  BY <1>4, <1>5, <1>6, <1>7, <1>8 DEF LeaseInv

-----------------------------------------------------------------------------
(* The invariant, and what follows from it. *)

LEMMA LeaseStep == IInv /\ [Next]_vars => LeaseInv'
<1> SUFFICES ASSUME TypeInv, CallsAreSettled, LeaseInv, [Next]_vars  PROVE LeaseInv'
  BY DEF IInv
<1>1. CASE UNCHANGED vars
  BY <1>1, SameRuns, NarrowStep DEF vars, KeepsRelied
<1>2. ASSUME NEW w \in Workers, WorkerStep(w)  PROVE LeaseInv'
  <2>1. ASSUME NEW j \in JobIds, RunStep(w, j)  PROVE LeaseInv'
    BY <2>1, RenewalLease, RunLease DEF RunStep
  <2> QED  BY <1>2, <2>1, ClientLease, ClaimLease, ReceiveLease, ReleaseClaimLease, StopLease,
              ReleaseRunsLease DEF WorkerStep
<1>3. CASE Enqueue \/ OperatorRetries \/ OperatorAbandons
  <2>1. UNCHANGED <<runs, inbox, releases>>
    BY <1>3 DEF Enqueue, OperatorRetries, OperatorAbandons
  <2>2. CASE \E w \in Workers : TRUE
    BY <1>3, <2>2, ClientLease
  <2>3. CASE ~ \E w \in Workers : TRUE
    BY <2>3 DEF LeaseInv, RunsAreBacked, ClaimsAreBacked, RunsOwnTheirLease, ClaimsOwnTheirLease,
                ReleasesAreAlone
  <2> QED  BY <2>2, <2>3
<1> QED  BY <1>1, <1>2, <1>3, TickLease DEF Next

(* A step of one run ends it, or keeps its lease label and never takes a    *)
(* settlement or an abort back; an outcome call comes with the settlement.  *)
LEMMA RunStepShape ==
    ASSUME TypeInv, NEW w \in Workers, NEW j \in JobIds, RunStep(w, j)
    PROVE  LET r == runs[w][j]
           IN \E q : /\ SetRun(w, j, q)
                    /\ \/ q = NoRun
                       \/ /\ q.owner = r.owner /\ (r.settled => q.settled)
                          /\ q.call = r.call \/ q.settled
                          /\ q.aborted = "no" => r.aborted = "no"
<1> DEFINE r == runs[w][j]
<1>1. r \in ActiveRun
  BY ProcessTypes
<1>2. CASE SendRenewal(w, j) \/ RenewalThrows(w, j) \/ CommitRenewal(w, j)
  <2>1. \E n : SetRun(w, j, [r EXCEPT !.renew = n])
    BY <1>2 DEF SendRenewal, RenewalThrows, CommitRenewal, UpdateRun
  <2> QED  BY <1>1, <2>1 DEF ActiveRun
<1>3. CASE DeadlineFires(w, j)
  <2>1. SetRun(w, j, [r EXCEPT !.aborted = "lease_lost"])
    BY <1>3 DEF DeadlineFires, LoseLease, UpdateRun
  <2> QED  BY <1>1, <2>1 DEF ActiveRun
<1>4. CASE ReceiveRenewal(w, j)
  <2>1. CASE ~ Live(w, j)
    <3>1. SetRun(w, j, [r EXCEPT !.renew = NoRenewal])
      BY <1>4, <2>1 DEF ReceiveRenewal
    <3> QED  BY <1>1, <3>1 DEF ActiveRun
  <2>2. CASE Live(w, j)
    <3>1. \E l, a : \/ SetRun(w, j, [r EXCEPT !.renew = NoRenewal, !.aborted = a])
                   \/ SetRun(w, j, [r EXCEPT !.renew = NoRenewal, !.left = l, !.aborted = a])
      BY <1>4, <2>2 DEF ReceiveRenewal
    <3> PICK l, a : \/ SetRun(w, j, [r EXCEPT !.renew = NoRenewal, !.aborted = a])
                    \/ SetRun(w, j, [r EXCEPT !.renew = NoRenewal, !.left = l, !.aborted = a])
      BY <3>1
    <3> DEFINE q == [r EXCEPT !.renew = NoRenewal, !.aborted = a]
               p == [r EXCEPT !.renew = NoRenewal, !.left = l, !.aborted = a]
    <3>2. /\ q.owner = r.owner /\ q.settled = r.settled /\ q.call = r.call
          /\ p.owner = r.owner /\ p.settled = r.settled /\ p.call = r.call
          /\ r.aborted = "no"
      BY <1>1, <2>2 DEF ActiveRun, Live
    <3>3. SetRun(w, j, q) \/ SetRun(w, j, p)
      OBVIOUS
    <3> HIDE DEF q, p
    <3> QED  BY <3>2, <3>3
  <2> QED  BY <2>1, <2>2
<1>5. CASE HandlerReturns(w, j) \/ HandlerAborts(w, j)
  <2>1. \/ SetRun(w, j, NoRun)
        \/ \E c : SetRun(w, j, [r EXCEPT !.settled = TRUE, !.call = c])
    BY <1>5 DEF HandlerReturns, HandlerAborts, EndRun
  <2>2. ASSUME NEW c  PROVE LET q == [r EXCEPT !.settled = TRUE, !.call = c]
                            IN q.owner = r.owner /\ q.settled /\ q.aborted = r.aborted
    BY <1>1 DEF ActiveRun
  <2> QED  BY <2>1, <2>2
<1>6. CASE CommitOutcome(w, j) \/ OutcomeNotRecorded(w, j)
  BY <1>6 DEF CommitOutcome, OutcomeNotRecorded, EndRun
<1> QED  BY <1>2, <1>3, <1>4, <1>5, <1>6 DEF RunStep

LEMMA SettledStep == TypeInv /\ CallsAreSettled /\ [Next]_vars => CallsAreSettled'
<1> SUFFICES ASSUME TypeInv, CallsAreSettled, [Next]_vars, NEW v \in Workers, NEW i \in JobIds
             PROVE  runs'[v][i].call # "none" => runs'[v][i].settled
  BY DEF CallsAreSettled
<1>0. runs[v][i] \in ActiveRun /\ (runs[v][i].call # "none" => runs[v][i].settled)
  BY ProcessTypes DEF CallsAreSettled
<1>1. CASE runs'[v][i] = runs[v][i]
  BY <1>0, <1>1
<1>2. CASE Tick
  <2>1. runs'[v][i] = OlderRun(runs[v][i])
    BY <1>2 DEF Tick
  <2> QED  BY <1>0, <2>1 DEF OlderRun, ActiveRun
<1>3. ASSUME NEW w \in Workers, NEW j \in JobIds, RunStep(w, j), runs'[v][i] # runs[v][i]
      PROVE  runs'[v][i].call # "none" => runs'[v][i].settled
  <2>1. \A q : SetRun(w, j, q) => v = w /\ i = j /\ runs'[v][i] = q
    BY <1>3, OneRunAfter
  <2> QED  BY <1>0, <1>3, <2>1, RunStepShape DEF NoRun
<1>4. ASSUME NEW w \in Workers, ReceiveClaims(w) \/ AbortRuns(w) \/ ReleaseRuns(w) \/ Exit(w)
      PROVE  runs'[v][i].call # "none" => runs'[v][i].settled
  <2>1. CASE v # w
    <3>1. runs'[v] = runs[v]
      BY <1>4, <2>1 DEF ReceiveClaims, AbortRuns, ReleaseRuns, Exit, TypeInv, Processes
    <3> QED  BY <1>1, <3>1
  <2>2. CASE v = w /\ ReceiveClaims(w)
    <3>1. runs'[v][i] = runs[v][i] \/ \E c : runs'[v][i] = StartedRun(c)
      BY <2>2 DEF ReceiveClaims, TypeInv, Processes
    <3>2. \A c : StartedRun(c).call = "none"
      BY DEF StartedRun
    <3> QED  BY <1>0, <3>1, <3>2
  <2>3. CASE v = w /\ AbortRuns(w)
    <3>1. runs'[v][i] \in {AbortedRun(runs[v][i]), NoRun}
      BY <2>3 DEF AbortRuns, TypeInv, Processes
    <3> QED  BY <1>0, <3>1 DEF AbortedRun, ActiveRun, NoRun
  <2>4. CASE v = w /\ ReleaseRuns(w)
    <3>1. runs'[v][i] \in {[runs[v][i] EXCEPT !.settled = TRUE], runs[v][i]}
      BY <2>4 DEF ReleaseRuns, TypeInv, Processes
    <3> QED  BY <1>0, <3>1 DEF ActiveRun
  <2>5. CASE v = w /\ Exit(w)
    <3>1. runs'[v][i] = NoRun
      BY <2>5 DEF Exit, TypeInv, Processes
    <3> QED  BY <3>1 DEF NoRun
  <2> QED  BY <1>4, <2>1, <2>2, <2>3, <2>4, <2>5
<1>5. \/ UNCHANGED runs \/ Tick
      \/ \E w \in Workers : \/ ReceiveClaims(w) \/ AbortRuns(w) \/ ReleaseRuns(w) \/ Exit(w)
                            \/ \E j \in JobIds : RunStep(w, j)
  BY DEF Next, vars, WorkerStep, Enqueue, OperatorRetries, OperatorAbandons, Start,
         RequeueExpired, RetainSucceeded, ClaimFree, ClaimSet, LoseClaims, ReleaseClaim, Stop,
         Stopped
<1> QED  BY <1>1, <1>2, <1>3, <1>4, <1>5

LEMMA InitIInv == Init => IInv
<1> SUFFICES ASSUME Init  PROVE IInv
  OBVIOUS
<1>1. \A w \in Workers : inbox[w] = {} /\ releases[w] = {}
                         /\ \A j \in JobIds : runs[w][j] = NoRun
  BY DEF Init
<1>2. LeaseInv
  BY <1>1 DEF LeaseInv, RunsAreBacked, ClaimsAreBacked, RunsOwnTheirLease, ClaimsOwnTheirLease,
              ReleasesAreAlone, Live, HasRun, NoRun
<1>3. CallsAreSettled
  BY <1>1 DEF CallsAreSettled, NoRun
<1> QED  BY <1>2, <1>3, InitType DEF IInv

LEMMA Invariance == Spec => []IInv
<1>1. IInv /\ [Next]_vars => IInv'
  BY TypeStep, LeaseStep, SettledStep DEF IInv
<1> QED  BY InitIInv, <1>1, PTL DEF Spec

(* The lease discipline of LeaseInv: runs and claims are covered by the row *)
(* they were claimed from, and the label of a lease is known to one of them.*)
THEOREM LeasesCoverRuns == Spec => []LeaseInv
<1>1. IInv => LeaseInv
  BY DEF IInv
<1> QED  BY <1>1, Invariance, PTL

(* A run that nothing told to stop holds its lease, for at least as long as *)
(* it believes (armDeadline and renew of worker.ts).                        *)
THEOREM LiveRunsAreLeased == Spec => []LiveRunsHoldTheirLease
<1>1. IInv => LiveRunsHoldTheirLease
  BY DEF IInv, LeaseInv, RunsAreBacked, RunIsBacked, LiveRunsHoldTheirLease
<1> QED  BY <1>1, Invariance, PTL

(* "A requeued job is not processed twice at once": no two processes have a *)
(* live run of the same job, whatever replies, timers and crashes do.       *)
THEOREM MutualExclusion == Spec => []Exclusive
<1>1. IInv => Exclusive
  BY DEF IInv, LeaseInv, RunsAreBacked, RunIsBacked, RunsOwnTheirLease, Exclusive, Holds, Live
<1> QED  BY <1>1, Invariance, PTL

(* Equal work is executed once: between them the index, which refuses the   *)
(* retry of a job whose work was asked for again, and the leases let no two *)
(* processes, and no process twice, work for the same key.                  *)
THEOREM UniqueWork == Spec => []EqualWorkOnce
<1>1. IInv /\ ActiveUnique => EqualWorkOnce
  <2> SUFFICES ASSUME IInv, ActiveUnique, NEW v \in Workers, NEW w \in Workers,
                      NEW i \in JobIds, NEW j \in JobIds,
                      Live(v, i), Live(w, j), jobs[i].key = jobs[j].key
               PROVE  v = w /\ i = j
    BY DEF EqualWorkOnce
  <2>1. Holds(i, runs[v][i].owner) /\ Holds(j, runs[w][j].owner)
    BY DEF IInv, LeaseInv, RunsAreBacked, RunIsBacked
  <2>2. i = j
    BY <2>1 DEF ActiveUnique, IsActive, Holds, Active
  <2> QED  BY <2>1, <2>2 DEF IInv, LeaseInv, RunsOwnTheirLease, Holds, Live
<1> QED  BY <1>1, Invariance, UniqueRows, PTL

-----------------------------------------------------------------------------
(* 3. The refinement. *)

(* What a step may do to the row of a job, seen as JobExecution sees it. *)
StatusStep(j) ==
    \/ Status(j)' = Status(j)
    \/ Status(j) = "absent" /\ Status(j)' = "waiting"
    \/ Status(j) = "waiting" /\ Status(j)' = "ended"
    \/ Status(j) = "ended" /\ Status(j)' \in {"waiting", "absent"}

LEMMA StatusIs ==
    ASSUME TypeInv, NEW j \in JobIds
    PROVE  /\ jobs[j].state = "absent" => Status(j) = "absent"
           /\ jobs[j].state \in Active => Status(j) = "waiting"
           /\ jobs[j].state \in Ended => Status(j) = "ended"
           /\ jobs[j].state \in Active \cup Ended \cup {"absent"}
  BY DEF Status, Active, Ended, TypeInv, TableOK, RowOK, JobRow, JobStates

LEMMA RowStep ==
    ASSUME TypeInv, TypeInv', NEW j \in JobIds,
           \/ jobs'[j].state = jobs[j].state
           \/ jobs[j].state = "absent" /\ jobs'[j].state \in Active
           \/ jobs[j].state \in Active
              /\ jobs'[j].state \in Active \cup Ended
           \/ jobs[j].state \in Ended
    PROVE  StatusStep(j)
<1>1. /\ jobs[j].state \in Active \cup Ended \cup {"absent"}
      /\ jobs'[j].state \in Active \cup Ended \cup {"absent"}
  BY DEF Active, Ended, TypeInv, TableOK, RowOK, JobRow, JobStates
<1> QED  BY <1>1 DEF StatusStep, Status, Active, Ended

(* The calls on the table. *)
LEMMA CallStep ==
    ASSUME TypeInv, TypeInv', NEW i \in JobIds, NEW o, NEW age, NEW retryable \in BOOLEAN,
           \/ RenewJobLease(i, o, age) \/ CompleteJob(i, o) \/ ReleaseJob(i, o)
           \/ FailJob(i, o, retryable)
           \/ RetryJob(i) \/ AbandonJob(i) \/ DeleteSucceeded(i)
    PROVE  \A j \in JobIds : StatusStep(j)
<1> SUFFICES ASSUME NEW j \in JobIds  PROVE StatusStep(j)
  OBVIOUS
<1> USE DEF TypeInv, TableOK, JobRow, Holds, Active, Ended
<1>1. CASE RenewJobLease(i, o, age)
  BY <1>1, RowStep DEF RenewJobLease
<1>2. CASE CompleteJob(i, o)
  BY <1>2, RowStep DEF CompleteJob
<1>3. CASE ReleaseJob(i, o)
  BY <1>3, RowStep DEF ReleaseJob
<1>4. CASE FailJob(i, o, retryable)
  BY <1>4, RowStep DEF FailJob, FailOutcome
<1>5. CASE RetryJob(i)
  <2>1. jobs[i].state \in {"failed", "abandoned"} /\ \A k \in JobIds \ {i} : jobs'[k] = jobs[k]
    BY <1>5, RetryTable DEF StoppedStates
  <2> QED  BY <2>1, RowStep
<1>6. CASE AbandonJob(i)
  BY <1>6, RowStep DEF AbandonJob
<1>7. CASE DeleteSucceeded(i)
  BY <1>7, RowStep DEF DeleteSucceeded
<1> QED  BY <1>1, <1>2, <1>3, <1>4, <1>5, <1>6, <1>7

LEMMA InsertStep ==
    ASSUME TypeInv, TypeInv', NEW k \in Keys, InsertJob(k)
    PROVE  \A j \in JobIds : StatusStep(j)
<1> SUFFICES ASSUME NEW j \in JobIds  PROVE StatusStep(j)
  OBVIOUS
<1>1. CASE UNCHANGED jobs
  BY <1>1, RowStep
<1>2. ASSUME NEW i \in JobIds, AddRow(i, k)  PROVE StatusStep(j)
  <2>1. jobs[i].state = "absent" /\ jobs'[i].state = "queued"
    BY <1>2 DEF AddRow, QueuedRow, Absent, TypeInv, TableOK
  <2>2. i # j => jobs'[j] = jobs[j]
    BY <1>2 DEF AddRow, TypeInv, TableOK
  <2> QED  BY <2>1, <2>2, RowStep DEF Active
<1> QED  BY <1>1, <1>2 DEF InsertJob

LEMMA BatchStep ==
    ASSUME TypeInv, TypeInv', NEW J \in SUBSET JobIds, NEW o, NEW limit,
           ClaimJobs(J, o, limit) \/ RequeueExpiredJobs(J)
    PROVE  \A j \in JobIds : StatusStep(j)
<1> SUFFICES ASSUME NEW j \in JobIds  PROVE StatusStep(j)
  OBVIOUS
<1>1. jobs[j] \in JobRow
  BY DEF TypeInv, TableOK
<1>2. j \notin J /\ (ClaimJobs(J, o, limit) \/ RequeueExpiredJobs(J)) => jobs'[j] = jobs[j]
  BY DEF ClaimJobs, RequeueExpiredJobs
<1>3. j \in J /\ ClaimJobs(J, o, limit) =>
          jobs[j].state = "queued" /\ jobs'[j].state = "running"
  BY <1>1 DEF ClaimJobs, Due, JobRow
<1>4. j \in J /\ RequeueExpiredJobs(J) =>
          jobs[j].state = "running" /\ jobs'[j].state \in {"queued", "failed"}
  <2>1. ExpiredRow(jobs[j]).state \in {"queued", "failed"}
    BY <1>1 DEF ExpiredRow, JobRow
  <2> QED  BY <2>1 DEF RequeueExpiredJobs, Expired
<1> QED  BY <1>2, <1>3, <1>4, RowStep DEF Active, Ended

LEMMA EveryStatusStep ==
    ASSUME TypeInv, TypeInv', [Next]_vars
    PROVE  \A j \in JobIds : StatusStep(j)
<1>1. CASE UNCHANGED jobs
  BY <1>1, RowStep
<1>2. CASE Enqueue \/ OperatorRetries \/ OperatorAbandons \/ Tick
  <2>1. CASE Enqueue
    BY <2>1, InsertStep DEF Enqueue
  <2>2. CASE Tick
    <3> SUFFICES ASSUME NEW j \in JobIds  PROVE StatusStep(j)
      OBVIOUS
    <3>1. jobs'[j].state = jobs[j].state
      BY <2>2 DEF Tick, TimePasses, TypeInv, TableOK, JobRow
    <3> QED  BY <3>1, RowStep
  <2>3. CASE OperatorRetries \/ OperatorAbandons
    BY <2>3, CallStep DEF OperatorRetries, OperatorAbandons
  <2> QED  BY <1>2, <2>1, <2>2, <2>3
<1>3. ASSUME NEW w \in Workers, RequeueExpired(w) \/ ClaimFree(w)
      PROVE  \A j \in JobIds : StatusStep(j)
  BY <1>3, BatchStep DEF RequeueExpired, ClaimFree, ClaimSet
<1>4. ASSUME NEW w \in Workers, RetainSucceeded(w) \/ ReleaseClaim(w)
      PROVE  \A j \in JobIds : StatusStep(j)
  <2>1. CASE RetainSucceeded(w)
    BY <2>1, CallStep DEF RetainSucceeded
  <2>2. CASE ReleaseClaim(w)
    <3> PICK r \in releases[w] : ReleaseJob(r.id, r.owner) \/ UNCHANGED jobs
      BY <2>2 DEF ReleaseClaim
    <3>1. r.id \in JobIds
      BY ProcessTypes DEF Lease
    <3> QED  BY <1>1, <3>1, CallStep
  <2> QED  BY <1>4, <2>1, <2>2
<1>5. ASSUME NEW w \in Workers, NEW i \in JobIds, CommitRenewal(w, i) \/ CommitOutcome(w, i)
      PROVE  \A j \in JobIds : StatusStep(j)
  <2>1. runs[w][i].call \in Calls /\ TRUE \in BOOLEAN /\ FALSE \in BOOLEAN
    BY DEF TypeInv, Processes, ActiveRun
  <2> QED  BY <1>5, <2>1, CallStep DEF CommitRenewal, CommitOutcome, Calls
<1>6. ASSUME NEW w \in Workers, NEW j \in JobIds, RunStep(w, j)
      PROVE  UNCHANGED jobs \/ CommitRenewal(w, j) \/ CommitOutcome(w, j)
  BY <1>6 DEF RunStep, SendRenewal, ReceiveRenewal, RenewalThrows, DeadlineFires,
              HandlerReturns, HandlerAborts, OutcomeNotRecorded
<1>7. ASSUME NEW w \in Workers, WorkerStep(w)
      PROVE  \/ UNCHANGED jobs \/ RequeueExpired(w) \/ RetainSucceeded(w) \/ ClaimFree(w)
             \/ ReleaseClaim(w) \/ \E j \in JobIds : RunStep(w, j)
  BY <1>7 DEF WorkerStep, Start, ReceiveClaims, LoseClaims, Stop, AbortRuns, ReleaseRuns,
              Stopped, Exit
<1> QED  BY <1>1, <1>2, <1>3, <1>4, <1>5, <1>6, <1>7 DEF Next, vars

-----------------------------------------------------------------------------
(* Who executes. *)

(* A run goes live only when its claim arrives, which changes nothing else. *)
LEMMA GoesLive ==
    ASSUME TypeInv, [Next]_vars, NEW w \in Workers, NEW j \in JobIds,
           Live(w, j)', ~ Live(w, j)
    PROVE  /\ ~ HasRun(w, j) /\ UNCHANGED jobs
           /\ \A v \in Workers \ {w} : runs'[v] = runs[v]
<1>0. runs[w][j] \in ActiveRun
  BY ProcessTypes
<1>1. runs'[w][j] # runs[w][j]
  BY DEF Live, HasRun
<1>2. ASSUME Tick  PROVE FALSE
  <2>1. runs'[w][j] = OlderRun(runs[w][j])
    BY <1>2 DEF Tick
  <2> QED  BY <1>0, <2>1 DEF OlderRun, ActiveRun, Live, HasRun
<1>3. ASSUME NEW v \in Workers, NEW i \in JobIds, RunStep(v, i)  PROVE FALSE
  <2>1. \A q : SetRun(v, i, q) => v = w /\ i = j /\ runs'[w][j] = q
    BY <1>1, <1>3, OneRunAfter
  <2> QED  BY <1>3, <2>1, RunStepShape DEF Live, HasRun, NoRun
<1>4. ASSUME NEW v \in Workers, AbortRuns(v) \/ ReleaseRuns(v) \/ Exit(v)  PROVE FALSE
  <2>1. v = w
    BY <1>1, <1>4 DEF AbortRuns, ReleaseRuns, Exit, TypeInv, Processes
  <2>2. CASE AbortRuns(v)
    <3>1. runs'[w][j] \in {AbortedRun(runs[w][j]), NoRun}
      BY <2>1, <2>2 DEF AbortRuns, TypeInv, Processes
    <3> QED  BY <1>0, <3>1 DEF AbortedRun, ActiveRun, NoRun, Live, HasRun
  <2>3. CASE ReleaseRuns(v)
    <3>1. runs'[w][j] = [runs[w][j] EXCEPT !.settled = TRUE]
      BY <1>1, <2>1, <2>3 DEF ReleaseRuns, TypeInv, Processes
    <3> QED  BY <1>0, <3>1 DEF ActiveRun, Live
  <2>4. CASE Exit(v)
    <3>1. runs'[w][j] = NoRun
      BY <2>1, <2>4 DEF Exit, TypeInv, Processes
    <3> QED  BY <3>1 DEF NoRun, Live, HasRun
  <2> QED  BY <1>4, <2>2, <2>3, <2>4
<1>5. \E v \in Workers : WorkerStep(v)
  BY <1>1, <1>2 DEF Next, vars, Enqueue, OperatorRetries, OperatorAbandons
<1>6. ReceiveClaims(w)
  <2> PICK v \in Workers : WorkerStep(v)
    BY <1>5
  <2>1. ReceiveClaims(v)
    BY <1>1, <1>3, <1>4 DEF WorkerStep, Start, RequeueExpired, RetainSucceeded, ClaimFree,
       ClaimSet, LoseClaims, ReleaseClaim, Stop, Stopped
  <2>2. v # w => runs'[w] = runs[w]
    BY <2>1 DEF ReceiveClaims, TypeInv, Processes
  <2> QED  BY <1>1, <2>1, <2>2
<1>7. UNCHANGED jobs /\ \A v \in Workers \ {w} : runs'[v] = runs[v]
  BY <1>6 DEF ReceiveClaims, TypeInv, Processes
<1>8. ~ HasRun(w, j)
  BY <1>1, <1>6 DEF ReceiveClaims, TypeInv, Processes
<1> QED  BY <1>7, <1>8

(* The row of a job somebody executes keeps its state. *)
LEMMA ExecutedRow ==
    ASSUME IInv, [Next]_vars, NEW w \in Workers, NEW j \in JobIds, Live(w, j)
    PROVE  jobs[j].state = "running" /\ jobs'[j].state = "running"
<1>0. TypeInv /\ LeaseInv /\ CallsAreSettled /\ Relied(j)
  BY DEF IInv, Relied
<1>1. jobs[j].state = "running"
  BY <1>0, LeaseInvIs, ReliedIsRunning
<1>2. CASE KeepsRelied
  BY <1>0, <1>1, <1>2 DEF KeepsRelied
<1>3. CASE UNCHANGED jobs
  BY <1>1, <1>3
<1>4. CASE Tick
  BY <1>0, <1>1, <1>4 DEF Tick, TimePasses, TypeInv, TableOK, JobRow
<1>5. ASSUME NEW v \in Workers, NEW i \in JobIds, CommitRenewal(v, i)
      PROVE  jobs'[j].state = "running"
  BY <1>0, <1>1, <1>5 DEF CommitRenewal, RenewJobLease, TypeInv, TableOK, JobRow
<1>6. ASSUME NEW v \in Workers, WorkerStep(v)
      PROVE  \/ UNCHANGED jobs \/ KeepsRelied \/ \E i \in JobIds : CommitRenewal(v, i)
  <2>1. ASSUME NEW i \in JobIds, RunStep(v, i)
        PROVE  UNCHANGED jobs \/ KeepsRelied \/ CommitRenewal(v, i)
    BY <1>0, <2>1, RunKeeps DEF RunStep, SendRenewal, ReceiveRenewal
  <2>2. CASE RequeueExpired(v) \/ RetainSucceeded(v) \/ ClaimFree(v) \/ ReleaseClaim(v)
    BY <1>0, <2>2, ClientKeeps, ClaimKeeps, ReleaseClaimKeeps
  <2> QED  BY <1>6, <2>1, <2>2 DEF WorkerStep, Start, ReceiveClaims, LoseClaims, Stop, AbortRuns,
              ReleaseRuns, Stopped, Exit
<1>7. CASE Enqueue \/ OperatorRetries \/ OperatorAbandons
  BY <1>0, <1>2, <1>7, ClientKeeps
<1>8. CASE UNCHANGED vars
  BY <1>3, <1>8 DEF vars
<1>9. ASSUME NEW v \in Workers, WorkerStep(v)  PROVE jobs'[j].state = "running"
  BY <1>2, <1>3, <1>5, <1>6, <1>9
<1> QED  BY <1>1, <1>4, <1>7, <1>8, <1>9 DEF Next

Executors(j) == {w \in Workers : Live(w, j)}

LEMMA ExecutionStep ==
    ASSUME IInv, IInv', [Next]_vars, NEW j \in JobIds
    PROVE  \/ StatusStep(j) /\ Executors(j) = {} /\ Executors(j)' = {}
           \/ Status(j)' = Status(j) /\ Executors(j)' = Executors(j)
           \/ /\ Status(j)' = Status(j) /\ Status(j) = "waiting"
              /\ Executors(j) = {} /\ \E w \in Workers : Executors(j)' = {w}
           \/ /\ Status(j)' = Status(j)
              /\ Executors(j) # {} /\ Executors(j)' = {}
<1>0. TypeInv /\ TypeInv'
  BY DEF IInv
<1>1. Exclusive /\ Exclusive'
  BY DEF IInv, LeaseInv, RunsAreBacked, RunIsBacked, RunsOwnTheirLease, Exclusive, Holds, Live
<1>2. ASSUME NEW w \in Workers, Live(w, j)  PROVE Status(j) = "waiting" /\ Status(j)' = "waiting"
  <2>1. jobs[j].state = "running" /\ jobs'[j].state = "running"
    BY <1>2, ExecutedRow
  <2> QED  BY <2>1 DEF Status, Active, Ended
<1>3. CASE \E w \in Workers : Live(w, j)' /\ ~ Live(w, j)
  <2> PICK w \in Workers : Live(w, j)' /\ ~ Live(w, j)
    BY <1>3
  <2>1. UNCHANGED jobs /\ \A v \in Workers \ {w} : Live(v, j) => Live(v, j)'
    BY <1>0, GoesLive DEF Live, HasRun
  <2>2. ~ \E v \in Workers : Live(v, j)
    BY <1>1, <2>1 DEF Exclusive
  <2>3. Executors(j) = {} /\ Executors(j)' = {w}
    BY <1>1, <2>2 DEF Exclusive, Executors
  <2>4. jobs'[j].state = "running"
    BY DEF IInv, LeaseInv, RunsAreBacked, RunIsBacked, Holds
  <2>5. Status(j)' = Status(j) /\ Status(j) = "waiting"
    BY <2>1, <2>4 DEF Status, Active, Ended
  <2> QED  BY <2>3, <2>5
<1>4. CASE \A w \in Workers : Live(w, j)' => Live(w, j)
  <2>1. CASE Executors(j) = {}
    <3>1. Executors(j)' = {}
      BY <1>4, <2>1 DEF Executors
    <3> QED  BY <1>0, <2>1, <3>1, EveryStatusStep
  <2>2. ASSUME NEW w \in Workers, Live(w, j)
        PROVE  Executors(j) = {w} /\ Executors(j)' \in {{}, {w}}
    <3>1. \A v \in Workers : Live(v, j) => v = w
      BY <1>1, <2>2 DEF Exclusive
    <3> QED  BY <1>4, <2>2, <3>1 DEF Executors
  <2>3. Executors(j) # {} => \E w \in Workers : Live(w, j)
    BY DEF Executors
  <2> QED  BY <1>2, <2>1, <2>2, <2>3
<1> QED  BY <1>3, <1>4

(* The workers over the job table implement JobExecution, in which a job is *)
(* executed by one worker at a time and ends only while nobody executes it. *)
THEOREM Implements == Spec => ExecutesOneAtATime
<1>1. Init => Execution!Init
  <2> SUFFICES ASSUME Init  PROVE Execution!Init
    OBVIOUS
  <2>1. \A j \in JobIds : Status(j) = "absent" /\ ~ \E w \in Workers : Live(w, j)
    BY DEF Init, JobsInit, Absent, Status, Active, Ended, Live, HasRun, NoRun
  <2> QED  BY <2>1 DEF Execution!Init
<1>2. IInv /\ IInv' /\ [Next]_vars => [Execution!Next]_(Execution!vars)
  <2> SUFFICES ASSUME IInv, IInv', [Next]_vars, NEW j \in JobIds
               PROVE  Execution!JobStep(j)
    BY DEF Execution!Next
  <2> QED  BY ExecutionStep DEF StatusStep, Executors, Execution!JobStep, Execution!Keeps,
              Execution!Take, Execution!Leave, Execution!Moves, Execution!Idle
<1> QED  BY <1>1, <1>2, Invariance, PTL DEF Spec, ExecutesOneAtATime, Execution!Spec

-----------------------------------------------------------------------------
(* Stopping. *)

(* A process that has not started runs nothing. *)
IdleRunsNothing == \A w \in Workers, j \in JobIds : state[w] = "idle" => ~ HasRun(w, j)
StopInv == IdleRunsNothing /\ StoppedWorkerIsSettled

LEMMA StopStep == TypeInv /\ StopInv /\ [Next]_vars => StopInv'
<1> SUFFICES ASSUME TypeInv, StopInv, [Next]_vars, NEW w \in Workers, NEW j \in JobIds,
                    HasRun(w, j)'
             PROVE  state'[w] # "idle" /\ (state'[w] = "stopped" => runs'[w][j].settled)
  BY DEF StopInv, IdleRunsNothing, StoppedWorkerIsSettled
<1>0. /\ runs[w][j] \in ActiveRun
      /\ HasRun(w, j) => /\ state[w] # "idle"
                         /\ state[w] = "stopped" => runs[w][j].settled
  BY ProcessTypes DEF StopInv, IdleRunsNothing, StoppedWorkerIsSettled
<1>1. CASE state'[w] = state[w] /\ runs'[w][j] = runs[w][j]
  BY <1>0, <1>1 DEF HasRun
<1>2. CASE Tick
  <2>1. runs'[w][j] = OlderRun(runs[w][j]) /\ state' = state
    BY <1>2 DEF Tick
  <2> QED  BY <1>0, <2>1 DEF OlderRun, ActiveRun, HasRun
<1>3. ASSUME NEW v \in Workers, NEW i \in JobIds, RunStep(v, i)
      PROVE  state'[w] # "idle" /\ (state'[w] = "stopped" => runs'[w][j].settled)
  <2>1. \A q : SetRun(v, i, q) =>
               IF v = w /\ i = j THEN runs'[w][j] = q ELSE runs'[w][j] = runs[w][j]
    BY OneRunAfter
  <2>2. state' = state
    BY <1>3 DEF RunStep, SendRenewal, CommitRenewal, ReceiveRenewal, RenewalThrows, DeadlineFires,
                HandlerReturns, HandlerAborts, CommitOutcome, OutcomeNotRecorded
  <2>3. NoRun.owner = NoOwner
    BY DEF NoRun
  <2> QED  BY <1>0, <1>1, <1>3, <2>1, <2>2, <2>3, RunStepShape DEF HasRun
<1>4. ASSUME NEW v \in Workers, v # w, WorkerStep(v), ~ \E i \in JobIds : RunStep(v, i)
      PROVE  state'[w] = state[w] /\ runs'[w][j] = runs[w][j]
  BY <1>4 DEF WorkerStep, Start, RequeueExpired, RetainSucceeded, ClaimFree, ClaimSet,
     ReceiveClaims, LoseClaims, ReleaseClaim, Stop, AbortRuns, ReleaseRuns, Stopped, Exit,
     TypeInv, Processes
<1>5. ASSUME WorkerStep(w), ~ \E i \in JobIds : RunStep(w, i)
      PROVE  state'[w] # "idle" /\ (state'[w] = "stopped" => runs'[w][j].settled)
  <2> USE DEF TypeInv, Processes
  <2>1. CASE RequeueExpired(w) \/ RetainSucceeded(w) \/ ClaimFree(w) \/ LoseClaims(w)
             \/ ReleaseClaim(w)
    BY <1>1, <2>1 DEF RequeueExpired, RetainSucceeded, ClaimFree, ClaimSet, LoseClaims,
                      ReleaseClaim
  <2>2. CASE Start(w)
    BY <1>0, <2>2 DEF Start
  <2>3. CASE ReceiveClaims(w)
    <3>1. CASE state[w] = "running"
      BY <2>3, <3>1 DEF ReceiveClaims
    <3>2. CASE state[w] # "running"
      <4>1. runs'[w][j] = runs[w][j] /\ state' = state
        BY <2>3, <3>2 DEF ReceiveClaims
      <4> QED  BY <1>1, <4>1
    <3> QED  BY <3>1, <3>2
  <2>4. CASE Stop(w)
    BY <1>0, <2>4 DEF Stop, HasRun
  <2>5. CASE AbortRuns(w)
    BY <2>5 DEF AbortRuns
  <2>6. CASE ReleaseRuns(w)
    BY <2>6 DEF ReleaseRuns
  <2>7. CASE Stopped(w)
    BY <1>0, <2>7 DEF Stopped, Unsettled, Running, HasRun
  <2>8. CASE Exit(w)
    <3>1. runs'[w][j] = NoRun
      BY <2>8 DEF Exit
    <3> QED  BY <3>1 DEF HasRun, NoRun
  <2> QED  BY <1>5, <2>1, <2>2, <2>3, <2>4, <2>5, <2>6, <2>7, <2>8 DEF WorkerStep
<1> QED  BY <1>1, <1>2, <1>3, <1>4, <1>5 DEF Next, vars, Enqueue, OperatorRetries,
            OperatorAbandons

(* After stop() has resolved, whatever is still running in the process is   *)
(* settled: no outcome of it is recorded, and a claim whose reply comes     *)
(* later starts nothing.                                                    *)
THEOREM StoppedIsSettled == Spec => []StoppedWorkerIsSettled
<1>1. Init => StopInv
  BY DEF Init, StopInv, IdleRunsNothing, StoppedWorkerIsSettled, HasRun, NoRun
<1>2. Spec => []TypeInv
  BY InitType, TypeStep, PTL DEF Spec
<1>3. StopInv => StoppedWorkerIsSettled
  BY DEF StopInv
<1> QED  BY <1>1, <1>2, <1>3, StopStep, PTL DEF Spec

-----------------------------------------------------------------------------
(* 4. Slots. *)

Claimed(w) == {c.id : c \in inbox[w]}

LEMMA JobSets ==
    ASSUME NEW J \in SUBSET JobIds
    PROVE  IsFiniteSet(J) /\ Cardinality(J) \in Nat
  BY JobIdsAssumption, FS_Subset, FS_CardinalityType

LEMMA SlotSets ==
    ASSUME TypeInv, NEW w \in Workers
    PROVE  /\ Claimed(w) \subseteq JobIds /\ Running(w) \subseteq JobIds
           /\ IsFiniteSet(Claimed(w)) /\ IsFiniteSet(Running(w))
           /\ Cardinality(Claimed(w)) \in Nat /\ Cardinality(Running(w)) \in Nat
<1>1. Claimed(w) \subseteq JobIds /\ Running(w) \subseteq JobIds
  BY DEF Claimed, Running, TypeInv, Processes, Claim
<1> QED  BY <1>1, JobSets

(* A worker that holds no more claims and no more runs than before. *)
LEMMA FewerSlots ==
    ASSUME TypeInv, SlotsRespected, NEW w \in Workers,
           Claimed(w)' \subseteq Claimed(w), Running(w)' \subseteq Running(w)
    PROVE  Cardinality(Claimed(w)') + Cardinality(Running(w)') <= Concurrency
<1>1. /\ Cardinality(Claimed(w)') <= Cardinality(Claimed(w))
      /\ Cardinality(Running(w)') <= Cardinality(Running(w))
  BY SlotSets, FS_Subset
<1>2. Cardinality(Claimed(w)) + Cardinality(Running(w)) <= Concurrency
  BY DEF SlotsRespected, Claimed
<1>3. Cardinality(Claimed(w)') \in Nat /\ Cardinality(Running(w)') \in Nat
  <2>1. Claimed(w)' \subseteq JobIds /\ Running(w)' \subseteq JobIds
    BY SlotSets
  <2> QED  BY <2>1, JobSets
<1> QED  BY <1>1, <1>2, <1>3, SlotSets, WorkerConstants

(* The claim takes at most the slots that are free. *)
LEMMA ClaimSlots ==
    ASSUME TypeInv, NEW w \in Workers, ClaimFree(w)
    PROVE  Cardinality(Claimed(w)') + Cardinality(Running(w)') <= Concurrency
<1>1. PICK J \in SUBSET JobIds, o \in Owners :
        /\ Cardinality(J) <= Concurrency - Cardinality(Running(w))
        /\ inbox' = [inbox EXCEPT ![w] = {[id |-> j, owner |-> o, left |-> LeaseTime] : j \in J}]
        /\ runs' = runs
  BY DEF ClaimFree, ClaimSet, ClaimJobs
<1>2. inbox'[w] = {[id |-> j, owner |-> o, left |-> LeaseTime] : j \in J}
  BY <1>1 DEF TypeInv, Processes
<1>3. Claimed(w)' = J
  <2> DEFINE C(j) == [id |-> j, owner |-> o, left |-> LeaseTime]
  <2>1. \A j \in J : C(j).id = j  OBVIOUS
  <2>2. inbox'[w] = {C(j) : j \in J}  BY <1>2
  <2> HIDE DEF C
  <2> QED  BY <2>1, <2>2 DEF Claimed
<1>4. Running(w)' = Running(w)  BY <1>1 DEF Running, HasRun
<1>5. Cardinality(J) \in Nat /\ Cardinality(Running(w)) \in Nat
  BY JobSets, SlotSets
<1> QED  BY <1>1, <1>3, <1>4, <1>5, WorkerConstants

(* The reply makes runs of claims. *)
LEMMA ReceiveSlots ==
    ASSUME TypeInv, SlotsRespected, NEW w \in Workers, ReceiveClaims(w)
    PROVE  Cardinality(Claimed(w)') + Cardinality(Running(w)') <= Concurrency
<1>1. inbox'[w] = {}  BY DEF ReceiveClaims, TypeInv, Processes
<1>2. Claimed(w)' = {}  BY <1>1 DEF Claimed
<1>3. \A j \in JobIds : j \notin Claimed(w) => runs'[w][j] = runs[w][j]
  BY DEF ReceiveClaims, TypeInv, Processes, Claimed
<1>4. Running(w)' \subseteq Claimed(w) \cup Running(w)  BY <1>3 DEF Running, HasRun
<1>5. /\ IsFiniteSet(Claimed(w) \cup Running(w))
      /\ Cardinality(Claimed(w) \cup Running(w)) <= Cardinality(Claimed(w)) + Cardinality(Running(w))
  <2>1. Cardinality(Claimed(w) \cap Running(w)) \in Nat
    BY SlotSets, FS_Intersection, FS_CardinalityType
  <2>2. /\ IsFiniteSet(Claimed(w) \cup Running(w))
        /\ Cardinality(Claimed(w) \cup Running(w)) =
             Cardinality(Claimed(w)) + Cardinality(Running(w))
             - Cardinality(Claimed(w) \cap Running(w))
    BY SlotSets, FS_Union
  <2> QED  BY <2>1, <2>2, SlotSets
<1>6. Cardinality(Running(w)') <= Cardinality(Claimed(w) \cup Running(w))
  BY <1>4, <1>5, FS_Subset
<1>7. Cardinality(Claimed(w)) + Cardinality(Running(w)) <= Concurrency
  BY DEF SlotsRespected, Claimed
<1>8. /\ Cardinality(Claimed(w)') = 0 /\ Cardinality(Running(w)') \in Nat
      /\ Cardinality(Claimed(w) \cup Running(w)) \in Nat
  <2>1. Claimed(w) \cup Running(w) \subseteq JobIds /\ Running(w)' \subseteq JobIds
    BY <1>4, SlotSets
  <2> QED  BY <1>2, <2>1, FS_EmptySet, JobSets
<1> QED  BY <1>5, <1>6, <1>7, <1>8, SlotSets, WorkerConstants

LEMMA SlotStep == TypeInv /\ SlotsRespected /\ [Next]_vars => SlotsRespected'
<1> SUFFICES ASSUME TypeInv, SlotsRespected, [Next]_vars, NEW v \in Workers
             PROVE  Cardinality(Claimed(v)') + Cardinality(Running(v)') <= Concurrency
  BY DEF SlotsRespected, Claimed
<1>0. Processes  BY DEF TypeInv
<1>1. CASE UNCHANGED <<inbox, runs>>
  BY <1>0, <1>1, FewerSlots DEF Claimed, Running, HasRun
<1>2. ASSUME NEW w \in Workers, w # v, WorkerStep(w)
      PROVE  Claimed(v)' = Claimed(v) /\ Running(v)' = Running(v)
  <2>1. inbox'[v] = inbox[v] /\ runs'[v] = runs[v]
    <3>1. ASSUME NEW j \in JobIds, RunStep(w, j)  PROVE inbox' = inbox /\ runs'[v] = runs[v]
      BY <1>0, <1>2, <3>1
      DEF RunStep, SendRenewal, CommitRenewal, ReceiveRenewal, RenewalThrows, DeadlineFires,
          LoseLease, HandlerReturns, HandlerAborts, CommitOutcome, OutcomeNotRecorded,
          UpdateRun, EndRun, SetRun, Processes
    <3> QED
      BY <1>0, <1>2, <3>1
      DEF WorkerStep, Start, RequeueExpired, RetainSucceeded, ClaimFree, ClaimSet,
          ReceiveClaims, LoseClaims, ReleaseClaim, Stop, AbortRuns, ReleaseRuns, Stopped, Exit,
          Processes
  <2> QED  BY <2>1 DEF Claimed, Running, HasRun
<1>3. CASE LoseClaims(v) \/ Exit(v)
  <2>1. inbox'[v] = {}  BY <1>0, <1>3 DEF LoseClaims, Exit, Processes
  <2>2. Claimed(v)' \subseteq Claimed(v)  BY <2>1 DEF Claimed
  <2>3. Running(v)' \subseteq Running(v)
    BY <1>0, <1>3 DEF LoseClaims, Exit, Processes, Running, HasRun, NoRun
  <2> QED  BY <1>0, <2>2, <2>3, FewerSlots
<1>4. ASSUME inbox' = inbox, \A j \in JobIds : runs'[v][j].owner \in {runs[v][j].owner, NoOwner}
      PROVE  Cardinality(Claimed(v)') + Cardinality(Running(v)') <= Concurrency
  BY <1>0, <1>4, FewerSlots DEF Claimed, Running, HasRun
<1>5. CASE Tick
  <2>1. Claimed(v)' \subseteq Claimed(v)
    <3>1. inbox'[v] = {[c EXCEPT !.left = Sooner(@, Over)] : c \in inbox[v]}
      BY <1>5 DEF Tick
    <3>2. \A c \in inbox[v] : [c EXCEPT !.left = Sooner(@, Over)].id = c.id
      BY <1>0 DEF Processes, Claim
    <3> QED  BY <3>1, <3>2 DEF Claimed
  <2>2. \A j \in JobIds : runs'[v][j].owner = runs[v][j].owner
    <3>1. ASSUME NEW r \in ActiveRun  PROVE OlderRun(r).owner = r.owner
      <4>1. \A l, n : [r EXCEPT !.left = l, !.renew = n].owner = r.owner  BY DEF ActiveRun
      <4> QED  BY <4>1 DEF OlderRun
    <3>2. \A j \in JobIds : runs[v][j] \in ActiveRun /\ runs'[v][j] = OlderRun(runs[v][j])
      BY <1>0, <1>5 DEF Tick, Processes
    <3> QED  BY <3>1, <3>2
  <2>3. Running(v)' \subseteq Running(v)  BY <2>2 DEF Running, HasRun
  <2> QED  BY <1>0, <2>1, <2>3, FewerSlots
<1>6. CASE AbortRuns(v)
  <2>1. \A j \in JobIds : runs'[v][j].owner \in {runs[v][j].owner, NoOwner}
    <3>1. \A j \in JobIds : AbortedRun(runs[v][j]).owner = runs[v][j].owner
      BY <1>0 DEF AbortedRun, Processes, ActiveRun
    <3> QED  BY <1>0, <1>6, <3>1 DEF AbortRuns, Processes, NoRun
  <2> QED  BY <1>4, <1>6, <2>1 DEF AbortRuns
<1>7. CASE ReleaseRuns(v)
  <2>1. \A j \in JobIds : runs'[v][j].owner = runs[v][j].owner
    BY <1>0, <1>7 DEF ReleaseRuns, Processes, ActiveRun
  <2> QED  BY <1>4, <1>7, <2>1 DEF ReleaseRuns
<1>8. ASSUME NEW j \in JobIds, RunStep(v, j)
      PROVE  Cardinality(Claimed(v)') + Cardinality(Running(v)') <= Concurrency
  <2>1. inbox' = inbox
    BY <1>8 DEF RunStep, SendRenewal, CommitRenewal, ReceiveRenewal, RenewalThrows,
                DeadlineFires, HandlerReturns, HandlerAborts, CommitOutcome, OutcomeNotRecorded
  <2> DEFINE Same(r) == r.owner \in {runs[v][j].owner, NoOwner}
  <2>2. PICK r : SetRun(v, j, r) /\ Same(r)
    <3>1. runs[v][j] \in ActiveRun  BY <1>0 DEF Processes
    <3>2. \A x, y, z : /\ Same([runs[v][j] EXCEPT !.renew = x])
                       /\ Same([runs[v][j] EXCEPT !.aborted = x])
                       /\ Same([runs[v][j] EXCEPT !.settled = x, !.call = y])
                       /\ Same([runs[v][j] EXCEPT !.renew = x, !.aborted = y])
                       /\ Same([runs[v][j] EXCEPT !.renew = x, !.left = y, !.aborted = z])
      BY <3>1 DEF ActiveRun
    <3>3. Same(NoRun)  BY DEF NoRun
    <3> HIDE DEF Same
    <3>4. CASE ReceiveRenewal(v, j)
      <4> DEFINE r == runs[v][j]
      <4>1. \/ SetRun(v, j, [r EXCEPT !.renew = NoRenewal])
            \/ SetRun(v, j, [r EXCEPT !.renew = NoRenewal, !.aborted = "lease_lost"])
            \/ \E x, y : SetRun(v, j, [r EXCEPT !.renew = NoRenewal, !.left = x, !.aborted = y])
        BY <3>4 DEF ReceiveRenewal
      <4> QED  BY <3>2, <4>1
    <3>5. CASE HandlerReturns(v, j) \/ HandlerAborts(v, j)
      <4>1. \/ SetRun(v, j, NoRun)
            \/ \E x : SetRun(v, j, [runs[v][j] EXCEPT !.settled = TRUE, !.call = x])
        BY <3>5 DEF HandlerReturns, HandlerAborts, EndRun
      <4> QED  BY <3>2, <3>3, <4>1
    <3>6. CASE CommitOutcome(v, j) \/ OutcomeNotRecorded(v, j)
      BY <3>3, <3>6 DEF CommitOutcome, OutcomeNotRecorded, EndRun
    <3>7. CASE SendRenewal(v, j) \/ CommitRenewal(v, j) \/ RenewalThrows(v, j) \/ DeadlineFires(v, j)
      BY <3>2, <3>7 DEF SendRenewal, CommitRenewal, RenewalThrows, DeadlineFires, LoseLease, UpdateRun
    <3> QED  BY <1>8, <3>4, <3>5, <3>6, <3>7 DEF RunStep
  <2>3. \A i \in JobIds : runs'[v][i].owner \in {runs[v][i].owner, NoOwner}
    BY <1>0, <2>2 DEF SetRun, Processes
  <2> QED  BY <1>4, <2>1, <2>3
<1>9. CASE WorkerStep(v)
  BY <1>0, <1>1, <1>3, <1>6, <1>7, <1>8, <1>9, ClaimSlots, ReceiveSlots
  DEF WorkerStep, Start, RequeueExpired, RetainSucceeded, ReleaseClaim, Stop, Stopped
<1>10. ASSUME NEW w \in Workers, w # v, WorkerStep(w)
       PROVE  Cardinality(Claimed(v)') + Cardinality(Running(v)') <= Concurrency
  BY <1>0, <1>2, <1>10, FewerSlots
<1> QED
  BY <1>1, <1>5, <1>9, <1>10 DEF Next, vars, Enqueue, OperatorRetries, OperatorAbandons

(* Claims under way and runs never exceed a worker's slots, although runs   *)
(* end and leases are lost between the count and the reply (tick,           *)
(* ReceiveClaims).                                                          *)
THEOREM SlotsAreRespected == Spec => []SlotsRespected
<1>1. Init => SlotsRespected
  <2> SUFFICES ASSUME Init, NEW w \in Workers
               PROVE  Cardinality({c.id : c \in inbox[w]}) + Cardinality(Running(w)) <= Concurrency
    BY DEF SlotsRespected
  <2>1. inbox[w] = {} /\ Running(w) = {}  BY DEF Init, Running, HasRun, NoRun
  <2>2. {c.id : c \in inbox[w]} = {}  BY <2>1
  <2> QED  BY <2>1, <2>2, FS_EmptySet, WorkerConstants
<1> QED  BY <1>1, InitType, TypeStep, SlotStep, PTL DEF Spec

=============================================================================
