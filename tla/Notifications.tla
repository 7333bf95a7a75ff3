---------------------------- MODULE Notifications ----------------------------
(***************************************************************************)
(* The private inbox (community-postgres, notifications/) and its worker.   *)
(* A source is one action somebody took (a like, a comment, a mention).     *)
(* Changing the action wakes its source up in the same transaction; a       *)
(* worker claims it, and projects it into one delivery per recipient, each  *)
(* with the next revision of the recipient's version row.  A reader lists   *)
(* the inbox page by page under one observation and marks what it observed. *)
(*                                                                          *)
(* A projection is one READ COMMITTED transaction: what it writes shows at  *)
(* its commit, the row locks it takes keep others waiting until then.       *)
(***************************************************************************)
EXTENDS Integers, FiniteSets, FiniteSetsExt

CONSTANTS
    Actions,          \* actions that somebody can take and take back
    Readers,          \* recipients, a set of numbers: the order of their ids
    To,               \* To[a]: the recipients of an action
    GroupOf,          \* GroupOf[a]: the group it is shown in (likes share one)
    Workers,          \* backend processes with a notification worker
    PageSize,         \* groups on a page
    MaxAttempts,      \* claims of one generation (5 in the code)
    MaxGenerations,   \* bound: changes of an action
    Nobody            \* no worker, no inbox, no action

ASSUME NotificationsAssumption ==
    /\ Readers \subseteq Nat
    /\ To \in [Actions -> SUBSET Readers]
    /\ PageSize \in Nat \ {0} /\ MaxAttempts \in Nat /\ MaxGenerations \in Nat

VARIABLES
    source,       \* notification_sources
    stands,       \* the actions that stand: not unliked, deleted or hidden
    apart,        \* <<a, r>>: r may not see a (a block, an inactive account)
    everApart,    \* <<a, r>> that were apart since a last changed
    version,      \* notification_recipient_versions, committed
    deliveries,   \* notification_deliveries, committed
    through,      \* read_through of each recipient's groups
    worker,       \* each worker's batch and its transaction
    inbox,        \* the pages a reader has loaded, and their observation
    observed      \* deliveries in a list that the reader was given

notificationVars == <<source, stands, apart, everApart, version, deliveries, through,
                      worker, inbox, observed>>

GroupKeys == {GroupOf[a] : a \in Actions}
Claims == [action : Actions, generation : Nat]
ASSUME NobodyAssumption == Nobody \notin Claims

Resting == [claims |-> {}, job |-> Nobody, failing |-> FALSE, todo |-> {}, held |-> {},
            wrote |-> {}]

NotificationsInit ==
    /\ source = [a \in Actions |-> [generation |-> 0, completed |-> 0, attempts |-> 0,
                                    owner |-> Nobody, live |-> FALSE]]
    /\ stands = {} /\ apart = {} /\ everApart = {}
    /\ version = [r \in Readers |-> 0]
    /\ deliveries = {}
    /\ through = [r \in Readers |-> [g \in GroupKeys |-> 0]]
    /\ worker = [w \in Workers |-> Resting]
    /\ inbox = [r \in Readers |-> Nobody]
    /\ observed = {}

Projecting(w) == worker[w].job # Nobody /\ ~ worker[w].failing
SourceLocked(a) == \E w \in Workers : Projecting(w) /\ worker[w].job.action = a
VersionLocked(r) == \E w \in Workers : r \in worker[w].held

-----------------------------------------------------------------------------
(* Actions and recipients. *)

(* Mutant: an action that was projected before is not woken up again. *)
EnqueueNew(a) ==
    [source EXCEPT ![a].generation = IF @ = 0 THEN 1 ELSE @, ![a].attempts = 0]

(* enqueueNotification: a lease that somebody holds is left as it is. *)
Enqueue(a) == [source EXCEPT ![a].generation = @ + 1, ![a].attempts = 0]

(* A like is set or removed, a comment is hidden or restored. *)
ChangeAction(a) ==
    /\ ~ SourceLocked(a)
    /\ source[a].generation < MaxGenerations
    /\ stands' = IF a \in stands THEN stands \ {a} ELSE stands \cup {a}
    /\ source' = Enqueue(a)
    /\ everApart' = {x \in everApart : x[1] # a} \cup {x \in apart : x[1] = a}
    /\ UNCHANGED <<apart, version, deliveries, through, worker, inbox, observed>>

(* What recipientEligibleSql reads changes without waking the source up. *)
Separate(a, r) ==
    /\ r \in To[a] /\ <<a, r>> \notin apart
    /\ apart' = apart \cup {<<a, r>>}
    /\ everApart' = everApart \cup {<<a, r>>}
    /\ UNCHANGED <<source, stands, version, deliveries, through, worker, inbox, observed>>

Rejoin(a, r) ==
    /\ <<a, r>> \in apart
    /\ apart' = apart \ {<<a, r>>}
    /\ UNCHANGED <<source, stands, everApart, version, deliveries, through, worker, inbox,
                   observed>>

-----------------------------------------------------------------------------
(* The worker. *)

(* claim: the sources that are due, but not those another transaction holds; *)
(* run_after of a failed one may lie ahead.                                  *)
Due(a) == /\ source[a].completed < source[a].generation
          /\ source[a].attempts < MaxAttempts
          /\ ~ source[a].live
          /\ ~ SourceLocked(a)

Claim(w) ==
    /\ worker[w] = Resting
    /\ \E batch \in SUBSET {a \in Actions : Due(a)} \ {{}} :
         /\ source' = [a \in Actions |->
                         IF a \in batch
                         THEN [source[a] EXCEPT !.owner = w, !.live = TRUE, !.attempts = @ + 1]
                         ELSE source[a]]
         /\ worker' = [worker EXCEPT ![w].claims =
                         {[action |-> a, generation |-> source[a].generation] : a \in batch}]
    /\ UNCHANGED <<stands, apart, everApart, version, deliveries, through, inbox, observed>>

Holds(w, c) == /\ source[c.action].owner = w
               /\ source[c.action].generation = c.generation

(* project: the source is locked and its facts are read; a claim that has     *)
(* been overtaken projects nothing.                                           *)
BeginProjection(w, c) ==
    /\ worker[w].job = Nobody /\ c \in worker[w].claims
    /\ ~ SourceLocked(c.action)
    /\ worker' = [worker EXCEPT
         ![w].claims = @ \ {c},
         ![w].job = IF Holds(w, c) /\ source[c.action].live THEN c ELSE Nobody,
         ![w].todo = IF Holds(w, c) /\ source[c.action].live /\ c.action \in stands
                     THEN To[c.action] ELSE {}]
    /\ UNCHANGED <<source, stands, apart, everApart, version, deliveries, through, inbox,
                   observed>>

Delivered(a, r) == \E d \in deliveries : d.action = a /\ d.reader = r

Delivery(a, r, revision) ==
    [action |-> a, reader |-> r, group |-> GroupOf[a], revision |-> revision]

(* Mutant: revisions come from a sequence, drawn before the commit. *)
DeliverFromSequence(w) ==
    /\ Projecting(w) /\ worker[w].todo # {}
    /\ LET r == Min(worker[w].todo)  a == worker[w].job.action IN
       IF <<a, r>> \in apart \/ Delivered(a, r)
       THEN worker' = [worker EXCEPT ![w].todo = @ \ {r}] /\ version' = version
       ELSE /\ version' = [version EXCEPT ![r] = @ + 1]
            /\ worker' = [worker EXCEPT ![w].todo = @ \ {r},
                            ![w].wrote = @ \cup {Delivery(a, r, version[r] + 1)}]
    /\ UNCHANGED <<source, stands, apart, everApart, deliveries, through, inbox, observed>>

(* One recipient, in the order of the ids: looked at again, then its version  *)
(* row is locked, and a delivery it does not have yet takes the next revision. *)
Deliver(w) ==
    /\ Projecting(w) /\ worker[w].todo # {}
    /\ LET r == Min(worker[w].todo)  a == worker[w].job.action IN
       \/ /\ <<a, r>> \in apart
          /\ worker' = [worker EXCEPT ![w].todo = @ \ {r}]
       \/ /\ <<a, r>> \notin apart
          /\ ~ VersionLocked(r)
          /\ worker' = [worker EXCEPT
               ![w].todo = @ \ {r},
               ![w].held = @ \cup {r},
               ![w].wrote = IF Delivered(a, r) THEN @
                            ELSE @ \cup {Delivery(a, r, version[r] + 1)}]
    /\ UNCHANGED <<source, stands, apart, everApart, version, deliveries, through, inbox,
                   observed>>

(* The source is completed and the transaction commits. *)
CommitProjection(w) ==
    /\ Projecting(w) /\ worker[w].todo = {}
    /\ deliveries' = deliveries \cup worker[w].wrote
    /\ version' = [r \in Readers |-> Max({version[r]} \cup
                     {d.revision : d \in {x \in worker[w].wrote : x.reader = r}})]
    /\ source' = [source EXCEPT ![worker[w].job.action].completed = worker[w].job.generation,
                                ![worker[w].job.action].owner = Nobody,
                                ![worker[w].job.action].live = FALSE]
    /\ worker' = [worker EXCEPT ![w] = [Resting EXCEPT !.claims = worker[w].claims]]
    /\ UNCHANGED <<stands, apart, everApart, through, inbox, observed>>

(* A query fails and the transaction is rolled back. *)
RollBack(w) ==
    /\ Projecting(w)
    /\ worker' = [worker EXCEPT ![w] = [Resting EXCEPT !.claims = worker[w].claims,
                                          !.job = worker[w].job, !.failing = TRUE]]
    /\ UNCHANGED <<source, stands, apart, everApart, version, deliveries, through, inbox,
                   observed>>

(* fail. *)
Fail(w) ==
    LET c == worker[w].job IN
    /\ worker[w].failing
    /\ source' = IF Holds(w, c)
                 THEN [source EXCEPT ![c.action].owner = Nobody, ![c.action].live = FALSE]
                 ELSE source
    /\ worker' = [worker EXCEPT ![w] = [Resting EXCEPT !.claims = worker[w].claims]]
    /\ UNCHANGED <<stands, apart, everApart, version, deliveries, through, inbox, observed>>

(* The worker stops or crashes, or `fail` fails too: the batch is dropped. *)
Drop(w) ==
    /\ worker[w] # Resting
    /\ worker' = [worker EXCEPT ![w] = Resting]
    /\ UNCHANGED <<source, stands, apart, everApart, version, deliveries, through, inbox,
                   observed>>

LeaseExpires(a) ==
    /\ source[a].live
    /\ source' = [source EXCEPT ![a].live = FALSE]
    /\ UNCHANGED <<stands, apart, everApart, version, deliveries, through, worker, inbox,
                   observed>>

-----------------------------------------------------------------------------
(* The reader. *)

Shown(r, high) == {d \in deliveries : d.reader = r /\ d.revision <= high}
GroupsOf(ds) == {d.group : d \in ds}
GroupRevision(ds, g) == Max({d.revision : d \in {x \in ds : x.group = g}})

(* The groups of a page: the newest ones older than `before`. *)
Page(ds, before) ==
    LET older == {g \in GroupsOf(ds) : GroupRevision(ds, g) < before}
    IN {g \in older : Cardinality({h \in older : GroupRevision(ds, h) > GroupRevision(ds, g)})
                        < PageSize}

(* `list` and the adapter's `read`: one snapshot, limited to the revisions up *)
(* to the observation's; the cursor carries both the observation and the last *)
(* group's revision.                                                          *)
Listed(r, high, before, shown) ==
    LET ds == Shown(r, high)  page == Page(ds, before)
        older == {g \in GroupsOf(ds) : GroupRevision(ds, g) < before}
    IN [high |-> high, shown |-> shown \cup page, more |-> page # older,
        before |-> IF page = {} THEN before ELSE Min({GroupRevision(ds, g) : g \in page})]

List(r) ==
    /\ inbox' = [inbox EXCEPT ![r] = Listed(r, version[r], version[r] + 1, {})]
    /\ observed' = observed \cup Shown(r, version[r])
    /\ UNCHANGED <<source, stands, apart, everApart, version, deliveries, through, worker>>

More(r) ==
    /\ inbox[r] # Nobody /\ inbox[r].more
    /\ inbox' = [inbox EXCEPT ![r] = Listed(r, inbox[r].high, inbox[r].before, inbox[r].shown)]
    /\ UNCHANGED <<source, stands, apart, everApart, version, deliveries, through, worker,
                   observed>>

(* markRead through an observed revision: the groups there are by then. *)
Mark(r, revision, groups) ==
    /\ ~ VersionLocked(r)
    /\ revision <= version[r]
    /\ through' = [through EXCEPT ![r] = [g \in GroupKeys |->
                     IF g \in groups /\ g \in GroupsOf(Shown(r, version[r]))
                     THEN Max({@[g], revision}) ELSE @[g]]]
    /\ UNCHANGED <<source, stands, apart, everApart, version, deliveries, worker, inbox,
                   observed>>

MarkAll(r) == inbox[r] # Nobody /\ Mark(r, inbox[r].high, GroupKeys)

MarkGroup(r, g) ==
    /\ inbox[r] # Nobody /\ g \in inbox[r].shown
    /\ Mark(r, GroupRevision(Shown(r, inbox[r].high), g), {g})

-----------------------------------------------------------------------------
NotificationsNext ==
    \/ \E a \in Actions : ChangeAction(a) \/ LeaseExpires(a)
    \/ \E a \in Actions, r \in Readers : Separate(a, r) \/ Rejoin(a, r)
    \/ \E w \in Workers : \/ Claim(w) \/ Deliver(w) \/ CommitProjection(w)
                          \/ RollBack(w) \/ Fail(w) \/ Drop(w)
    \/ \E w \in Workers : \E c \in worker[w].claims : BeginProjection(w, c)
    \/ \E r \in Readers : List(r) \/ More(r) \/ MarkAll(r)
    \/ \E r \in Readers, g \in GroupKeys : MarkGroup(r, g)

NotificationsSpec == NotificationsInit /\ [][NotificationsNext]_notificationVars

-----------------------------------------------------------------------------
(* Reading is honest.  No delivery is marked read that no list given to its  *)
(* reader covered: a projection that commits late cannot slip in under a     *)
(* marker (adapter.ts: "serializes delivery versions in COMMIT order").      *)
(* And the pages of one observation together show every group it covers,     *)
(* whatever is delivered or marked between two pages.                        *)
UnseenStaysUnread ==
    /\ \A d \in deliveries : d.revision <= through[d.reader][d.group] => d \in observed
    /\ \A r \in Readers : inbox[r] # Nobody /\ ~ inbox[r].more =>
         inbox[r].shown = GroupsOf(Shown(r, inbox[r].high))

(* A source that is completed owes nothing: an action that stands has been    *)
(* delivered to every recipient it was never kept from since it last changed, *)
(* however changes, claims, expired leases and failures interleave.           *)
NoWakeUpIsLost ==
    \A a \in stands : source[a].completed = source[a].generation =>
      \A r \in To[a] : <<a, r>> \in everApart \/ Delivered(a, r)
=============================================================================
