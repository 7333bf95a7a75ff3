--------------------------- MODULE CommunityProofs ---------------------------
(***************************************************************************)
(* Theorems about the inbox, a conversation and an agent's connection, for   *)
(* any actions, readers, workers, accounts, request ids, transactions, pages,*)
(* interactions, grants, requests and bounds.                                *)
(*                                                                           *)
(* The inbox.  Neither property is inductive as it stands.  That no wake-up  *)
(* is lost rests on what a projection under way has done so far: under the   *)
(* lock of its source it holds the newest generation, and each recipient it  *)
(* is done with has the delivery, will have it at the commit or was kept     *)
(* from the action (ProjectionOK).  That marks are honest rests on what a    *)
(* commit can add: only revisions above the version row, which its           *)
(* projection alone has locked, so none at or below a mark or inside an      *)
(* observation (BoxOK, DeliveriesOK).  InboxInv is all of it.                *)
(*                                                                           *)
(* The conversation.  SendsActOnce: that the gate holds when a message is    *)
(* written rests on what its transaction has counted before, which is still  *)
(* the number of messages because the pair is locked (Guarded).  DirectInv   *)
(* adds this and the types it needs.  MarkersWereGiven: a mark travels from  *)
(* a page to a screen to a request to the row, and all of them name messages *)
(* that were given to the account (MarksFollow); MarkInv is all of it.       *)
(*                                                                           *)
(* The connection.  ConnectionInv says what a request still knows when it    *)
(* writes.  GoodRequest: a read of the connection is no older than its       *)
(* version says, an approval under way is recorded at the generation it      *)
(* would reach, a grant under way carries the generation its consent froze.  *)
(* Ledger: the rows agree with each other.  Reached: no approval that moved  *)
(* the connection is ahead of it, and one that a disconnect ended is behind. *)
(* Every step goes Forward, which is all that requests other than the one    *)
(* that steps depend on.                                                     *)
(***************************************************************************)
EXTENDS Notifications, AgentConnections, DirectMessages, FiniteSetTheorems,
        WellFoundedInduction, TLAPS

(* Every set of numbers has a least one. *)
Less == {ss \in Nat \X Nat : ss[1] < ss[2]}

LEMMA LeastNat ==
    ASSUME NEW T \in SUBSET Nat, T # {}
    PROVE  \E n \in T : \A m \in T : ~ (m < n)
<1>1. IsWellFoundedOn(Less, Nat)
  BY NatLessThanWellFounded DEF OpToRel, Less
<1>2. \A x, y \in Nat : <<x, y>> \in Less <=> x < y
  BY DEF Less
<1>3. \E x \in T : \A y \in T : ~ (<<y, x>> \in Less)
  BY <1>1, WFMin, Zenon
<1> QED  BY <1>2, <1>3


-----------------------------------------------------------------------------
LEMMA MinIsIn ==
    ASSUME NEW S \in SUBSET Nat, S # {}
    PROVE  Min(S) \in S /\ \A x \in S : Min(S) <= x
<1>1. PICK n \in S : \A m \in S : ~ (m < n)
  BY LeastNat
<1>2. \A x \in S : n <= x
  BY <1>1
<1> QED  BY <1>2 DEF Min

LEMMA MaxIsIn ==
    ASSUME NEW S \in SUBSET Nat, S # {}, NEW bound \in Nat, \A x \in S : x <= bound
    PROVE  Max(S) \in S /\ \A x \in S : x <= Max(S)
<1> DEFINE T == {n \in Nat : \A x \in S : x <= n}
<1>1. PICK n \in T : \A m \in T : ~ (m < n)
  <2>1. T \in SUBSET Nat /\ bound \in T
    OBVIOUS
  <2> HIDE DEF T
  <2> QED  BY <2>1, LeastNat
<1>2. n \in S
  <2> SUFFICES ASSUME n \notin S  PROVE FALSE
    OBVIOUS
  <2>1. \A x \in S : x <= n /\ x # n
    BY <1>1
  <2>2. PICK x \in S : x <= n /\ x # n
    BY <2>1
  <2>3. n - 1 \in Nat /\ n - 1 < n
    BY <2>2, <1>1
  <2>4. n - 1 \in T
    BY <2>1, <2>3
  <2> QED  BY <1>1, <2>3, <2>4
<1>3. \A x \in S : n >= x
  BY <1>1
<1> QED  BY <1>2, <1>3 DEF Max

(* Of two numbers. *)
LEMMA MaxOfTwo ==
    ASSUME NEW x \in Nat, NEW y \in Nat
    PROVE  /\ Max({x, y}) \in {x, y}
           /\ Max({x, y}) >= x /\ Max({x, y}) >= y
<1>1. \E bound \in Nat : \A z \in {x, y} : z <= bound
  <2>1. \A z \in {x, y} : z <= x + y
    OBVIOUS
  <2> QED  BY <2>1
<1>2. {x, y} \in SUBSET Nat /\ {x, y} # {}
  OBVIOUS
<1> QED  BY <1>1, <1>2, MaxIsIn

-----------------------------------------------------------------------------
(* Deliveries, the rows of one reader and their groups.                      *)
DeliveryOK(d) == /\ d.action \in Actions /\ d.reader \in Readers
                 /\ d.group = GroupOf[d.action]
                 /\ d.revision \in 1..version[d.reader]

DeliveriesOK == /\ version \in [Readers -> Nat]
                /\ IsFiniteSet(deliveries) /\ \A d \in deliveries : DeliveryOK(d)

(* A page list stands for the groups not older than its cursor, the last one *)
(* for all groups of its observation.                                        *)
BoxOK(r) ==
    LET box == inbox[r]  ds == Shown(r, box.high)
    IN  /\ box.high \in 0..version[r] /\ box.before \in Nat
        /\ ds \subseteq observed
        /\ box.shown = {g \in GroupsOf(ds) : GroupRevision(ds, g) >= box.before}
        /\ ~ box.more => box.shown = GroupsOf(ds)

MarksOK == \A d \in deliveries : d.revision <= through[d.reader][d.group] => d \in observed

ReadersOK ==
    /\ DOMAIN inbox = Readers /\ \A r \in Readers : inbox[r] # Nobody => BoxOK(r)
    /\ through \in [Readers -> [GroupKeys -> Nat]]
    /\ \A r \in Readers, g \in GroupKeys : through[r][g] <= version[r]
    /\ MarksOK

LEMMA ShownRows ==
    ASSUME DeliveriesOK, NEW r \in Readers, NEW high \in 0..version[r], NEW g,
           g \in GroupsOf(Shown(r, high))
    PROVE  /\ GroupRevision(Shown(r, high), g) \in Nat
           /\ GroupRevision(Shown(r, high), g) <= high
           /\ \A d \in Shown(r, high) :
                 d.group = g => d.revision <= GroupRevision(Shown(r, high), g)
<1> DEFINE S == {d.revision : d \in {x \in Shown(r, high) : x.group = g}}
<1>1. high \in Nat /\ version[r] \in Nat
  BY DEF DeliveriesOK
<1>2. S \in SUBSET Nat /\ S # {} /\ \A n \in S : n <= high
  BY <1>1 DEF DeliveriesOK, DeliveryOK, Shown, GroupsOf
<1>3. GroupRevision(Shown(r, high), g) = Max(S)
  BY DEF GroupRevision
<1>4. \A d \in Shown(r, high) : d.group = g => d.revision \in S
  OBVIOUS
<1> HIDE DEF S
<1>5. Max(S) \in S /\ \A x \in S : x <= Max(S)
  BY <1>1, <1>2, MaxIsIn
<1> QED  BY <1>2, <1>3, <1>4, <1>5

LEMMA FiniteGroups ==
    ASSUME DeliveriesOK, NEW ds \in SUBSET deliveries
    PROVE  IsFiniteSet(GroupsOf(ds))
<1>1. IsFiniteSet(ds)
  BY FS_Subset DEF DeliveriesOK
<1> DEFINE f == [d \in ds |-> d.group]
<1>2. f \in Surjection(ds, GroupsOf(ds))
  BY DEF Surjection, GroupsOf
<1> QED  BY <1>1, <1>2, FS_Surjection

(* Groups that are as new as one of the page are on the page. *)
LEMMA PageIsNewest ==
    ASSUME DeliveriesOK, NEW r \in Readers, NEW high \in 0..version[r], NEW before \in Nat,
           NEW ds, ds = Shown(r, high),
           NEW g \in Page(ds, before), NEW h \in GroupsOf(ds),
           GroupRevision(ds, h) < before, GroupRevision(ds, h) >= GroupRevision(ds, g)
    PROVE  h \in Page(ds, before)
<1> DEFINE older == {k \in GroupsOf(ds) : GroupRevision(ds, k) < before}
           newer(x) == {k \in older : GroupRevision(ds, k) > GroupRevision(ds, x)}
<1>1. g \in older /\ h \in older /\ Cardinality(newer(g)) < PageSize
  BY DEF Page
<1>2. \A k \in older : GroupRevision(ds, k) \in Nat
  BY ShownRows
<1>3. IsFiniteSet(older)
  <2>1. ds \in SUBSET deliveries
    BY DEF Shown
  <2>2. IsFiniteSet(GroupsOf(ds))
    BY <2>1, FiniteGroups
  <2> QED  BY <2>2, FS_Subset
<1>4. newer(h) \subseteq newer(g) /\ newer(g) \subseteq older
  BY <1>1, <1>2
<1>5. IsFiniteSet(newer(g))
  <2> HIDE DEF newer, older
  <2> QED  BY <1>3, <1>4, FS_Subset
<1>6. /\ Cardinality(newer(h)) <= Cardinality(newer(g))
      /\ Cardinality(newer(h)) \in Nat /\ Cardinality(newer(g)) \in Nat
  <2> HIDE DEF newer, older
  <2> QED  BY <1>4, <1>5, FS_Subset, FS_CardinalityType
<1>7. Cardinality(newer(h)) < PageSize
  <2> HIDE DEF newer, older
  <2> QED  BY <1>1, <1>6, NotificationsAssumption
<1> QED  BY <1>1, <1>7 DEF Page

(* A page adds the groups from its oldest one on. *)
LEMMA ListedBox ==
    ASSUME DeliveriesOK, NEW r \in Readers, NEW high \in 0..version[r], NEW before \in Nat,
           NEW shown,
           LET ds == Shown(r, high)
           IN  shown = {g \in GroupsOf(ds) : GroupRevision(ds, g) >= before}
    PROVE  LET ds == Shown(r, high)  box == Listed(r, high, before, shown)
           IN  /\ box.high = high /\ box.before \in Nat
               /\ box.shown = {g \in GroupsOf(ds) : GroupRevision(ds, g) >= box.before}
               /\ ~ box.more => box.shown = GroupsOf(ds)
<1> DEFINE ds == Shown(r, high)
           box == Listed(r, high, before, shown)
           page == Page(ds, before)
           older == {g \in GroupsOf(ds) : GroupRevision(ds, g) < before}
           M == {GroupRevision(ds, g) : g \in page}
<1>1. /\ box.high = high /\ box.shown = shown \cup page /\ box.more = (page # older)
      /\ box.before = IF page = {} THEN before ELSE Min(M)
  BY DEF Listed
<1>2. \A g \in GroupsOf(ds) : GroupRevision(ds, g) \in Nat
  BY ShownRows
<1>3. page \subseteq older
  BY DEF Page
<1>4. \A g \in GroupsOf(ds) : g \in shown \/ g \in older
  BY <1>2
<1>5. shown \subseteq GroupsOf(ds) /\ older \subseteq GroupsOf(ds)
  OBVIOUS
<1>6. ~ box.more => box.shown = GroupsOf(ds)
  <2> HIDE DEF box, page, older, ds
  <2> QED  BY <1>1, <1>4, <1>5
<1>7. CASE page = {}
  <2>1. box.before = before /\ box.shown = shown
    BY <1>1, <1>7
  <2> HIDE DEF page, older, M
  <2> QED  BY <1>1, <1>6, <2>1
<1>8. CASE page # {}
  <2>1. M \in SUBSET Nat /\ M # {}
    BY <1>2, <1>3, <1>8
  <2>2. Min(M) \in M /\ \A x \in M : Min(M) <= x
    <3> HIDE DEF M
    <3> QED  BY <2>1, MinIsIn
  <2>3. PICK k \in page : Min(M) = GroupRevision(ds, k)
    BY <2>2
  <2>4. Min(M) \in Nat /\ Min(M) < before
    BY <1>2, <1>3, <2>3
  <2>5. ASSUME NEW g \in GroupsOf(ds)
        PROVE  g \in shown \cup page <=> GroupRevision(ds, g) >= Min(M)
    <3>1. CASE g \in shown
      BY <1>2, <2>4, <3>1
    <3>2. CASE g \notin shown
      <4>1. GroupRevision(ds, g) < before
        BY <1>4, <3>2
      <4>2. GroupRevision(ds, g) >= Min(M) => g \in page
        BY <4>1, <2>3, PageIsNewest
      <4>3. g \in page => GroupRevision(ds, g) \in M
        OBVIOUS
      <4>4. g \in page => GroupRevision(ds, g) >= Min(M)
        BY <2>2, <2>4, <4>3, <1>2
      <4> QED  BY <3>2, <4>2, <4>4
    <3> QED  BY <3>1, <3>2
  <2>6. shown \cup page = {g \in GroupsOf(ds) : GroupRevision(ds, g) >= Min(M)}
    <3>1. page \subseteq GroupsOf(ds)
      BY <1>3
    <3> HIDE DEF page, M, ds, older
    <3> QED  BY <1>5, <2>5, <3>1
  <2>7. box.before = Min(M) /\ box.shown = shown \cup page
    BY <1>1, <1>8
  <2> HIDE DEF page, older, M
  <2> QED  BY <1>1, <1>6, <2>4, <2>6, <2>7
<1> QED  BY <1>7, <1>8

-----------------------------------------------------------------------------
(* Sources and workers. *)
SourceRow == [generation : Nat, completed : Nat, attempts : Nat,
              owner : Workers \cup {Nobody}, live : BOOLEAN]
WorkerRow == [claims : SUBSET Claims, job : Claims \cup {Nobody}, failing : BOOLEAN,
              todo : SUBSET Readers, held : SUBSET Readers, wrote : SUBSET [action : Actions,
              reader : Readers, group : GroupKeys, revision : Nat]]

RowsOK == /\ source \in [Actions -> SourceRow] /\ worker \in [Workers -> WorkerRow]
          /\ stands \subseteq Actions /\ apart \subseteq everApart

(* A projection writes under the lock of its source and of the versions it   *)
(* has read: the generation it completes is the newest, its revisions are    *)
(* the next ones, and whoever it is done with has the delivery or was kept   *)
(* from the action.                                                          *)
Written(w, r) == \E d \in worker[w].wrote : d.reader = r
ProjectionOK(w) ==
    LET a == worker[w].job.action
    IN  /\ worker[w].job.generation = source[a].generation
        /\ IsFiniteSet(worker[w].wrote)
        /\ \A d \in worker[w].wrote : /\ d.reader \in worker[w].held
                                      /\ d = Delivery(a, d.reader, version[d.reader] + 1)
        /\ a \in stands => \A r \in To[a] :
              r \in worker[w].todo \/ <<a, r>> \in everApart \/ Delivered(a, r) \/ Written(w, r)

Empty(w) == worker[w].todo = {} /\ worker[w].held = {} /\ worker[w].wrote = {}

WorkersOK ==
    /\ \A w \in Workers : Projecting(w) => ProjectionOK(w)
    /\ \A w \in Workers : ~ Projecting(w) => Empty(w)
    /\ \A w \in Workers : worker[w].failing => worker[w].job # Nobody
    /\ \A w, u \in Workers : w # u => worker[w].held \cap worker[u].held = {}

SourcesOK == \A a \in Actions : source[a].completed <= source[a].generation

InboxInv ==
    /\ RowsOK /\ DeliveriesOK /\ ReadersOK /\ WorkersOK /\ SourcesOK
    /\ NoWakeUpIsLost

(* What lists and marks see. *)
inboxVars == <<version, deliveries, through, inbox, observed>>

LEMMA InboxStays ==
    ASSUME DeliveriesOK, ReadersOK, UNCHANGED inboxVars
    PROVE  DeliveriesOK' /\ ReadersOK'
<1>1. DeliveriesOK'
  BY DEF inboxVars, DeliveriesOK, DeliveryOK
<1>2. \A r \in Readers : BoxOK(r) => BoxOK(r)'
  BY DEF inboxVars, BoxOK, Shown, GroupsOf, GroupRevision
<1> QED  BY <1>1, <1>2 DEF inboxVars, ReadersOK, MarksOK

(* A step that leaves the sources, their locks and the deliveries alone.      *)
LEMMA QuietStep ==
    ASSUME InboxInv, UNCHANGED <<source, stands, everApart, worker, version, deliveries>>,
           apart' \subseteq everApart'
    PROVE  RowsOK' /\ WorkersOK' /\ SourcesOK' /\ NoWakeUpIsLost'
<1>1. \A w \in Workers : ProjectionOK(w) => ProjectionOK(w)'
  BY DEF ProjectionOK, Delivery, Delivered, Written
<1>2. \A w \in Workers : Projecting(w)' <=> Projecting(w)
  BY DEF Projecting
<1>3. RowsOK' /\ SourcesOK'
  BY DEF InboxInv, RowsOK, SourcesOK
<1>4. WorkersOK'
  BY <1>1, <1>2 DEF InboxInv, WorkersOK, Empty
<1>5. NoWakeUpIsLost'
  BY DEF InboxInv, NoWakeUpIsLost, Delivered
<1> QED  BY <1>3, <1>4, <1>5

LEMMA InboxInit == NotificationsInit => InboxInv
<1> SUFFICES ASSUME NotificationsInit  PROVE InboxInv
  OBVIOUS
<1> USE DEF NotificationsInit
<1>1. RowsOK
  BY DEF RowsOK, SourceRow, WorkerRow, Resting
<1>2. DeliveriesOK
  BY FS_EmptySet DEF DeliveriesOK
<1>3. ReadersOK
  BY DEF ReadersOK, MarksOK
<1>4. WorkersOK
  BY DEF WorkersOK, Projecting, Resting, Empty
<1>5. SourcesOK /\ NoWakeUpIsLost
  BY DEF SourcesOK, NoWakeUpIsLost
<1> QED  BY <1>1, <1>2, <1>3, <1>4, <1>5 DEF InboxInv

-----------------------------------------------------------------------------
(* Lists and marks. *)
LEMMA ListKeeps ==
    ASSUME InboxInv, NEW r \in Readers, List(r)
    PROVE  InboxInv'
<1> DEFINE ds == Shown(r, version[r])
           box == Listed(r, version[r], version[r] + 1, {})
<1>1. /\ inbox' = [inbox EXCEPT ![r] = box] /\ observed' = observed \cup ds
      /\ UNCHANGED <<source, stands, apart, everApart, version, deliveries, through, worker>>
  BY DEF List
<1>2. DeliveriesOK /\ version[r] \in Nat /\ version[r] \in 0..version[r]
  BY DEF InboxInv, DeliveriesOK
<1>3. {} = {g \in GroupsOf(ds) : GroupRevision(ds, g) >= version[r] + 1}
  <2>1. \A g \in GroupsOf(ds) : /\ GroupRevision(ds, g) \in Nat
                                /\ GroupRevision(ds, g) <= version[r]
    BY <1>2, ShownRows
  <2> HIDE DEF ds
  <2> QED  BY <1>2, <2>1
<1>4. /\ box.high = version[r] /\ box.before \in Nat
      /\ box.shown = {g \in GroupsOf(ds) : GroupRevision(ds, g) >= box.before}
      /\ ~ box.more => box.shown = GroupsOf(ds)
  <2>1. version[r] + 1 \in Nat
    BY <1>2
  <2> HIDE DEF box
  <2> QED  BY <1>2, <1>3, <2>1, ListedBox DEF box
<1>5. inbox'[r] = box /\ \A s \in Readers : s # r => inbox'[s] = inbox[s]
  BY <1>1 DEF InboxInv, ReadersOK
<1>7. BoxOK(r)'
  <2> HIDE DEF box
  <2>1. inbox'[r].high = version[r] /\ Shown(r, inbox[r].high)' = ds
    BY <1>1, <1>4, <1>5 DEF Shown
  <2> HIDE DEF ds
  <2> QED  BY <1>1, <1>2, <1>4, <1>5, <2>1 DEF BoxOK, GroupsOf, GroupRevision
<1>8. ASSUME NEW s \in Readers, s # r, inbox'[s] # Nobody  PROVE BoxOK(s)'
  <2>1. BoxOK(s)
    BY <1>5, <1>8 DEF InboxInv, ReadersOK
  <2>2. Shown(s, inbox[s].high)' = Shown(s, inbox[s].high)
    BY <1>1, <1>5, <1>8 DEF Shown
  <2> HIDE DEF ds, box
  <2> QED  BY <1>1, <1>5, <1>8, <2>1, <2>2 DEF BoxOK, GroupsOf, GroupRevision
<1>9. MarksOK'
  BY <1>1 DEF InboxInv, ReadersOK, MarksOK
<1>10. ReadersOK'
  BY <1>1, <1>7, <1>8, <1>9 DEF InboxInv, ReadersOK
<1>11. DeliveriesOK'
  BY <1>1 DEF InboxInv, DeliveriesOK, DeliveryOK
<1>12. apart' \subseteq everApart'
  BY <1>1 DEF InboxInv, RowsOK
<1> QED  BY <1>1, <1>10, <1>11, <1>12, QuietStep DEF InboxInv

LEMMA MoreKeeps ==
    ASSUME InboxInv, NEW r \in Readers, More(r)
    PROVE  InboxInv'
<1> DEFINE ds == Shown(r, inbox[r].high)
           box == Listed(r, inbox[r].high, inbox[r].before, inbox[r].shown)
<1>1. /\ inbox' = [inbox EXCEPT ![r] = box]
      /\ UNCHANGED <<source, stands, apart, everApart, version, deliveries, through, worker,
                     observed>>
  BY DEF More
<1>2. DeliveriesOK /\ BoxOK(r)
  BY DEF More, InboxInv, ReadersOK
<1>3. /\ box.high = inbox[r].high /\ box.before \in Nat
      /\ box.shown = {g \in GroupsOf(ds) : GroupRevision(ds, g) >= box.before}
      /\ ~ box.more => box.shown = GroupsOf(ds)
  <2> HIDE DEF box
  <2> QED  BY <1>2, ListedBox DEF box, BoxOK
<1>4. inbox'[r] = box /\ \A s \in Readers : s # r => inbox'[s] = inbox[s]
  BY <1>1 DEF InboxInv, ReadersOK
<1>5. BoxOK(r)'
  <2> HIDE DEF box
  <2>1. Shown(r, inbox[r].high)' = ds
    BY <1>1, <1>3, <1>4 DEF Shown
  <2>2. ds \subseteq observed /\ inbox[r].high \in 0..version[r]
    BY <1>2 DEF BoxOK
  <2> HIDE DEF ds
  <2> QED  BY <1>1, <1>3, <1>4, <2>1, <2>2 DEF BoxOK, GroupsOf, GroupRevision
<1>6. ASSUME NEW s \in Readers, s # r, inbox'[s] # Nobody  PROVE BoxOK(s)'
  <2>1. BoxOK(s)
    BY <1>4, <1>6 DEF InboxInv, ReadersOK
  <2>2. Shown(s, inbox[s].high)' = Shown(s, inbox[s].high)
    BY <1>1, <1>4, <1>6 DEF Shown
  <2> HIDE DEF ds, box
  <2> QED  BY <1>1, <1>4, <1>6, <2>1, <2>2 DEF BoxOK, GroupsOf, GroupRevision
<1>7. MarksOK'
  BY <1>1 DEF InboxInv, ReadersOK, MarksOK
<1>8. ReadersOK'
  BY <1>1, <1>5, <1>6, <1>7 DEF InboxInv, ReadersOK
<1>9. DeliveriesOK'
  BY <1>1 DEF InboxInv, DeliveriesOK, DeliveryOK
<1>10. apart' \subseteq everApart'
  BY <1>1 DEF InboxInv, RowsOK
<1> QED  BY <1>1, <1>8, <1>9, <1>10, QuietStep DEF InboxInv

(* A mark goes up to a revision whose deliveries were all in a list. *)
LEMMA MarkKeeps ==
    ASSUME InboxInv, NEW r \in Readers, NEW revision \in Nat, NEW groups,
           Mark(r, revision, groups),
           \A d \in deliveries : d.reader = r /\ d.group \in groups /\ d.revision <= revision
                                   => d \in observed
    PROVE  InboxInv'
<1> DEFINE new(g) == IF g \in groups /\ g \in GroupsOf(Shown(r, version[r]))
                     THEN Max({through[r][g], revision}) ELSE through[r][g]
<1>1. /\ through' = [through EXCEPT ![r] = [g \in GroupKeys |-> new(g)]]
      /\ revision <= version[r]
      /\ UNCHANGED <<source, stands, apart, everApart, version, deliveries, worker, inbox,
                     observed>>
  BY DEF Mark
<1>2. through \in [Readers -> [GroupKeys -> Nat]] /\ version[r] \in Nat
  BY DEF InboxInv, ReadersOK, DeliveriesOK
<1>3. \A g \in GroupKeys : through'[r][g] = new(g)
  BY <1>1, <1>2
<1>4. \A s \in Readers : s # r => through'[s] = through[s]
  BY <1>1, <1>2
<1>5. ASSUME NEW g \in GroupKeys
      PROVE  \/ new(g) = through[r][g]
             \/ new(g) = revision /\ g \in groups
  <2>1. through[r][g] \in Nat
    BY <1>2
  <2>2. Max({through[r][g], revision}) \in {through[r][g], revision}
    BY <2>1, MaxOfTwo
  <2> QED  BY <2>2
<1> HIDE DEF new
<1>6. through' \in [Readers -> [GroupKeys -> Nat]]
  <2>1. [g \in GroupKeys |-> new(g)] \in [GroupKeys -> Nat]
    BY <1>2, <1>5
  <2> QED  BY <1>1, <1>2, <2>1
<1>7. \A s \in Readers, g \in GroupKeys : through'[s][g] <= version'[s]
  BY <1>1, <1>2, <1>3, <1>4, <1>5 DEF InboxInv, ReadersOK
<1>8. ASSUME NEW d \in deliveries, d.revision <= through'[d.reader][d.group]
      PROVE  d \in observed
  <2>1. d.reader \in Readers /\ d.group \in GroupKeys
    BY DEF InboxInv, DeliveriesOK, DeliveryOK, GroupKeys
  <2>2. CASE d.reader = r
    BY <1>3, <1>5, <1>8, <2>1, <2>2 DEF InboxInv, ReadersOK, MarksOK
  <2>3. CASE d.reader # r
    BY <1>4, <1>8, <2>1, <2>3 DEF InboxInv, ReadersOK, MarksOK
  <2> QED  BY <2>2, <2>3
<1>9. MarksOK'
  BY <1>1, <1>8 DEF MarksOK
<1>10. \A s \in Readers : BoxOK(s) => BoxOK(s)'
  BY <1>1 DEF BoxOK, Shown, GroupsOf, GroupRevision
<1>11. ReadersOK'
  BY <1>1, <1>6, <1>7, <1>9, <1>10 DEF InboxInv, ReadersOK
<1>12. DeliveriesOK'
  BY <1>1 DEF InboxInv, DeliveriesOK, DeliveryOK
<1>13. apart' \subseteq everApart'
  BY <1>1 DEF InboxInv, RowsOK
<1> QED  BY <1>1, <1>11, <1>12, <1>13, QuietStep DEF InboxInv

LEMMA ReaderSteps ==
    ASSUME InboxInv, NEW r \in Readers,
           List(r) \/ More(r) \/ MarkAll(r) \/ \E g \in GroupKeys : MarkGroup(r, g)
    PROVE  InboxInv'
<1>1. CASE inbox[r] # Nobody
  <2> DEFINE high == inbox[r].high  ds == Shown(r, high)
  <2>1. BoxOK(r) /\ DeliveriesOK
    BY <1>1 DEF InboxInv, ReadersOK
  <2>2. /\ high \in 0..version[r] /\ high \in Nat /\ ds \subseteq observed
        /\ inbox[r].shown \subseteq GroupsOf(ds) /\ version[r] \in Nat
    BY <2>1 DEF BoxOK, DeliveriesOK
  <2>3. ASSUME NEW n \in Nat, n <= high, NEW d \in deliveries, d.reader = r, d.revision <= n
        PROVE  d \in observed
    <3>1. d.revision \in Nat
      BY <2>1 DEF DeliveriesOK, DeliveryOK
    <3>2. d \in ds
      BY <2>2, <2>3, <3>1 DEF Shown
    <3> QED  BY <2>2, <3>2
  <2>4. ASSUME MarkAll(r)  PROVE InboxInv'
    <3>1. Mark(r, high, GroupKeys)
      BY <2>4 DEF MarkAll
    <3> HIDE DEF high
    <3> QED  BY <2>2, <2>3, <3>1, MarkKeeps
  <2>5. ASSUME NEW g \in GroupKeys, MarkGroup(r, g)  PROVE InboxInv'
    <3>1. Mark(r, GroupRevision(ds, g), {g}) /\ g \in GroupsOf(ds)
      BY <2>2, <2>5 DEF MarkGroup
    <3>2. GroupRevision(ds, g) \in Nat /\ GroupRevision(ds, g) <= high
      BY <2>1, <2>2, <3>1, ShownRows
    <3> HIDE DEF high, ds
    <3> QED  BY <2>2, <2>3, <3>1, <3>2, MarkKeeps
  <2> QED  BY <2>4, <2>5, ListKeeps, MoreKeeps
<1>2. CASE inbox[r] = Nobody
  BY <1>2, ListKeeps DEF More, MarkAll, MarkGroup
<1> QED  BY <1>1, <1>2

-----------------------------------------------------------------------------
(* Workers. *)

(* A worker's row after a step: idle, or with a projection as it should be. *)
RowFits(w) == /\ Projecting(w) => ProjectionOK(w)
              /\ ~ Projecting(w) => Empty(w)
              /\ worker[w].failing => worker[w].job # Nobody

(* What a worker's step has to keep that commits nothing. *)
LEMMA WorkerStep ==
    ASSUME InboxInv, RowsOK', UNCHANGED <<inboxVars, stands>>, everApart \subseteq everApart',
           \A a \in Actions : /\ source'[a].generation = source[a].generation
                              /\ source'[a].completed = source[a].completed,
           \A u \in Workers : worker'[u] = worker[u] \/ RowFits(u)',
           \A u, v \in Workers : u # v => worker'[u].held \cap worker'[v].held = {}
    PROVE  InboxInv'
<1>1. DeliveriesOK' /\ ReadersOK'
  BY InboxStays DEF InboxInv
<1>2. SourcesOK'
  BY DEF InboxInv, SourcesOK
<1>3. NoWakeUpIsLost'
  <2>1. \A a, r : Delivered(a, r)' <=> Delivered(a, r)
    BY DEF Delivered, inboxVars
  <2>2. \A a \in stands : source[a].completed = source[a].generation =>
           \A r \in To[a] : <<a, r>> \in everApart \/ Delivered(a, r)
    BY DEF InboxInv, NoWakeUpIsLost
  <2>3. ASSUME NEW a \in stands, source'[a].completed = source'[a].generation
        PROVE  source[a].completed = source[a].generation
    BY <2>3 DEF InboxInv, RowsOK
  <2> QED  BY <2>1, <2>2, <2>3 DEF NoWakeUpIsLost
<1>4. ASSUME NEW u \in Workers  PROVE RowFits(u)'
  <2>1. CASE worker'[u] = worker[u]
    <3>1. Projecting(u)' = Projecting(u)
      BY <2>1 DEF Projecting
    <3>2. Projecting(u) => worker[u].job.action \in Actions
      BY DEF InboxInv, RowsOK, WorkerRow, Claims, Projecting
    <3>3. Projecting(u) => ProjectionOK(u)
      BY DEF InboxInv, WorkersOK
    <3>4. Projecting(u) => ProjectionOK(u)'
      BY <2>1, <3>2, <3>3 DEF ProjectionOK, Delivery, Delivered, Written, inboxVars
    <3> QED  BY <2>1, <3>1, <3>4 DEF RowFits, InboxInv, WorkersOK, Empty
  <2> QED  BY <2>1
<1>5. WorkersOK'
  BY <1>4 DEF WorkersOK, RowFits
<1> QED  BY <1>1, <1>2, <1>3, <1>5 DEF InboxInv

(* Rows keep their types when one or two fields change. *)
LEMMA WorkerFields ==
    ASSUME NEW f \in [Workers -> WorkerRow], NEW w \in Workers
    PROVE  /\ \A x \in SUBSET Claims : [f EXCEPT ![w].claims = x] \in [Workers -> WorkerRow]
           /\ \A x \in Claims \cup {Nobody} : [f EXCEPT ![w].job = x] \in [Workers -> WorkerRow]
           /\ \A x \in SUBSET Readers : /\ [f EXCEPT ![w].todo = x] \in [Workers -> WorkerRow]
                                        /\ [f EXCEPT ![w].held = x] \in [Workers -> WorkerRow]
           /\ \A x \in SUBSET [action : Actions, reader : Readers, group : GroupKeys,
                               revision : Nat] :
                 [f EXCEPT ![w].wrote = x] \in [Workers -> WorkerRow]
<1>1. f[w] \in WorkerRow
  OBVIOUS
<1>2. \A x \in SUBSET Claims : [f[w] EXCEPT !.claims = x] \in WorkerRow
  BY <1>1 DEF WorkerRow
<1>3. \A x \in Claims \cup {Nobody} : [f[w] EXCEPT !.job = x] \in WorkerRow
  BY <1>1 DEF WorkerRow
<1>4. \A x \in SUBSET Readers : /\ [f[w] EXCEPT !.todo = x] \in WorkerRow
                                /\ [f[w] EXCEPT !.held = x] \in WorkerRow
  BY <1>1 DEF WorkerRow
<1>5. \A x \in SUBSET [action : Actions, reader : Readers, group : GroupKeys, revision : Nat] :
         [f[w] EXCEPT !.wrote = x] \in WorkerRow
  BY <1>1 DEF WorkerRow
<1> QED  BY <1>2, <1>3, <1>4, <1>5

LEMMA RestingRow ==
    ASSUME NEW claims \in SUBSET Claims
    PROVE  Resting \in WorkerRow /\ [Resting EXCEPT !.claims = claims] \in WorkerRow
  BY DEF Resting, WorkerRow

LEMMA SourceFields ==
    ASSUME NEW f \in [Actions -> SourceRow], NEW a \in Actions, NEW n \in Nat,
           NEW owner \in Workers \cup {Nobody}, NEW live \in BOOLEAN
    PROVE  /\ [f EXCEPT ![a].generation = n] \in [Actions -> SourceRow]
           /\ [f EXCEPT ![a].completed = n] \in [Actions -> SourceRow]
           /\ [f EXCEPT ![a].attempts = n] \in [Actions -> SourceRow]
           /\ [f EXCEPT ![a].owner = owner] \in [Actions -> SourceRow]
           /\ [f EXCEPT ![a].live = live] \in [Actions -> SourceRow]
<1>1. f[a] \in SourceRow
  OBVIOUS
<1>2. /\ [f[a] EXCEPT !.generation = n] \in SourceRow
      /\ [f[a] EXCEPT !.completed = n] \in SourceRow
      /\ [f[a] EXCEPT !.attempts = n] \in SourceRow
      /\ [f[a] EXCEPT !.owner = owner] \in SourceRow
      /\ [f[a] EXCEPT !.live = live] \in SourceRow
  BY <1>1 DEF SourceRow
<1> QED  BY <1>2

(* A worker that lets go of its projection. *)
LEMMA Rests ==
    ASSUME InboxInv, NEW w \in Workers, NEW row \in WorkerRow,
           worker' = [worker EXCEPT ![w] = row], row.job = Nobody \/ row.failing,
           row.todo = {}, row.held = {}, row.wrote = {}, row.failing => row.job # Nobody,
           source' \in [Actions -> SourceRow],
           \A a \in Actions : /\ source'[a].generation = source[a].generation
                              /\ source'[a].completed = source[a].completed,
           UNCHANGED <<inboxVars, stands, apart, everApart>>
    PROVE  InboxInv'
<1>1. worker'[w] = row /\ \A u \in Workers : u # w => worker'[u] = worker[u]
  BY DEF InboxInv, RowsOK
<1>2. RowsOK'
  BY DEF InboxInv, RowsOK
<1>3. RowFits(w)'
  BY <1>1 DEF RowFits, Projecting, Empty
<1>4. \A u, v \in Workers : u # v => worker'[u].held \cap worker'[v].held = {}
  BY <1>1 DEF InboxInv, WorkersOK
<1>5. \A u \in Workers : worker'[u] = worker[u] \/ RowFits(u)'
  BY <1>1, <1>3
<1> QED  BY <1>2, <1>4, <1>5, WorkerStep

LEMMA LettingGo ==
    ASSUME InboxInv, NEW w \in Workers, RollBack(w) \/ Fail(w) \/ Drop(w)
    PROVE  InboxInv'
<1>1. source \in [Actions -> SourceRow] /\ worker[w] \in WorkerRow
  BY DEF InboxInv, RowsOK
<1>2. worker[w].claims \in SUBSET Claims /\ worker[w].job \in Claims \cup {Nobody}
  BY <1>1 DEF WorkerRow
<1>3. CASE RollBack(w)
  <2> DEFINE row == [Resting EXCEPT !.claims = worker[w].claims, !.job = worker[w].job,
                                    !.failing = TRUE]
  <2>1. /\ worker' = [worker EXCEPT ![w] = row] /\ worker[w].job # Nobody
        /\ UNCHANGED <<source, stands, apart, everApart, inboxVars>>
    BY <1>3 DEF RollBack, Projecting, inboxVars
  <2>2. /\ row \in WorkerRow /\ row.job = worker[w].job /\ row.failing
        /\ row.todo = {} /\ row.held = {} /\ row.wrote = {}
    <3> DEFINE r1 == [Resting EXCEPT !.claims = worker[w].claims]
               r2 == [r1 EXCEPT !.job = worker[w].job]
               r3 == [r2 EXCEPT !.failing = TRUE]
    <3>1. r1 \in WorkerRow /\ r1.todo = {} /\ r1.held = {} /\ r1.wrote = {}
      BY <1>2, RestingRow DEF Resting
    <3>2. row = r3
      OBVIOUS
    <3> HIDE DEF row, r1
    <3>3. r2 \in WorkerRow
      BY <1>2, <3>1 DEF WorkerRow
    <3>4. r2.job = worker[w].job /\ r2.todo = {} /\ r2.held = {} /\ r2.wrote = {}
      BY <3>1 DEF WorkerRow
    <3> HIDE DEF r2
    <3>5. r3 \in WorkerRow
      BY <3>3 DEF WorkerRow
    <3>6. r3.job = worker[w].job /\ r3.failing /\ r3.todo = {} /\ r3.held = {} /\ r3.wrote = {}
      BY <3>3, <3>4 DEF WorkerRow
    <3> QED  BY <3>2, <3>5, <3>6
  <2> HIDE DEF row
  <2> QED  BY <1>1, <2>1, <2>2, Rests
<1>4. CASE Fail(w)
  <2> DEFINE row == [Resting EXCEPT !.claims = worker[w].claims]
             a == worker[w].job.action
  <2>1. /\ worker' = [worker EXCEPT ![w] = row]
        /\ worker[w].failing
        /\ UNCHANGED <<stands, apart, everApart, inboxVars>>
    BY <1>4 DEF Fail, inboxVars
  <2>2. worker[w].job \in Claims /\ a \in Actions
    BY <1>2, <2>1 DEF InboxInv, WorkersOK, Claims
  <2>3. /\ source' \in [Actions -> SourceRow]
        /\ \A b \in Actions : /\ source'[b].generation = source[b].generation
                              /\ source'[b].completed = source[b].completed
    <3>1. \/ source' = source
          \/ source' = [source EXCEPT ![a].owner = Nobody, ![a].live = FALSE]
      BY <1>4 DEF Fail
    <3> DEFINE s == [source EXCEPT ![a].owner = Nobody]
    <3>2. s \in [Actions -> SourceRow]
      BY <1>1, <2>2, SourceFields
    <3>3. \A b \in Actions : /\ s[b].generation = source[b].generation
                             /\ s[b].completed = source[b].completed
      BY <1>1, <2>2 DEF SourceRow
    <3> DEFINE z == [s EXCEPT ![a].live = FALSE]
    <3>4. source' = source \/ source' = z
      BY <3>1
    <3> HIDE DEF s
    <3>5. z \in [Actions -> SourceRow]
      BY <3>2, <2>2, SourceFields
    <3>6. \A b \in Actions : /\ z[b].generation = s[b].generation
                             /\ z[b].completed = s[b].completed
      BY <3>2, <2>2 DEF SourceRow
    <3> QED  BY <1>1, <3>3, <3>4, <3>5, <3>6
  <2>4. row \in WorkerRow /\ row.job = Nobody /\ row.todo = {} /\ row.held = {}
        /\ row.wrote = {} /\ ~ row.failing
    BY <1>2, RestingRow DEF Resting
  <2> HIDE DEF row
  <2> QED  BY <2>1, <2>3, <2>4, Rests
<1>5. CASE Drop(w)
  <2>1. /\ worker' = [worker EXCEPT ![w] = Resting]
        /\ UNCHANGED <<source, stands, apart, everApart, inboxVars>>
    BY <1>5 DEF Drop, inboxVars
  <2>2. Resting \in WorkerRow /\ Resting.job = Nobody /\ Resting.todo = {} /\ Resting.held = {}
        /\ Resting.wrote = {} /\ ~ Resting.failing
    BY <1>2, RestingRow DEF Resting
  <2> QED  BY <1>1, <2>1, <2>2, Rests
<1> QED  BY <1>3, <1>4, <1>5

LEMMA ClaimKeeps ==
    ASSUME InboxInv, NEW w \in Workers, Claim(w)
    PROVE  InboxInv'
<1>1. PICK batch \in SUBSET Actions :
        /\ source' = [a \in Actions |->
                         IF a \in batch
                         THEN [source[a] EXCEPT !.owner = w, !.live = TRUE, !.attempts = @ + 1]
                         ELSE source[a]]
        /\ worker' = [worker EXCEPT ![w].claims =
                         {[action |-> a, generation |-> source[a].generation] : a \in batch}]
  BY DEF Claim
<1>2. worker[w] = Resting /\ UNCHANGED <<stands, apart, everApart, inboxVars>>
  BY DEF Claim, inboxVars
<1>3. source \in [Actions -> SourceRow] /\ worker \in [Workers -> WorkerRow]
  BY DEF InboxInv, RowsOK
<1> DEFINE new(a) == [source[a] EXCEPT !.owner = w, !.live = TRUE, !.attempts = @ + 1]
<1>4. ASSUME NEW a \in Actions
      PROVE  /\ new(a) \in SourceRow /\ new(a).generation = source[a].generation
             /\ new(a).completed = source[a].completed
  <2> DEFINE r1 == [source[a] EXCEPT !.owner = w]
             r2 == [r1 EXCEPT !.live = TRUE]
             r3 == [r2 EXCEPT !.attempts = @ + 1]
  <2>1. source[a] \in SourceRow
    BY <1>3
  <2>2. new(a) = r3
    OBVIOUS
  <2> HIDE DEF new
  <2>3. r1 \in SourceRow
    BY <2>1 DEF SourceRow
  <2>4. r1.generation = source[a].generation /\ r1.completed = source[a].completed
    BY <2>1 DEF SourceRow
  <2> HIDE DEF r1
  <2>5. r2 \in SourceRow
    BY <2>3 DEF SourceRow
  <2>6. r2.generation = source[a].generation /\ r2.completed = source[a].completed
    BY <2>3, <2>4 DEF SourceRow
  <2> HIDE DEF r2
  <2>7. r3 \in SourceRow
    BY <2>5 DEF SourceRow
  <2>8. r3.generation = source[a].generation /\ r3.completed = source[a].completed
    BY <2>5, <2>6 DEF SourceRow
  <2> QED  BY <2>2, <2>7, <2>8
<1>5. /\ source' \in [Actions -> SourceRow]
      /\ \A a \in Actions : /\ source'[a].generation = source[a].generation
                            /\ source'[a].completed = source[a].completed
  <2>1. \A a \in Actions : source[a] \in SourceRow
    BY <1>3
  <2>2. source' = [a \in Actions |-> IF a \in batch THEN new(a) ELSE source[a]]
    BY <1>1
  <2> HIDE DEF new
  <2> QED  BY <1>4, <2>1, <2>2
<1> DEFINE claims == {[action |-> a, generation |-> source[a].generation] : a \in batch}
<1>6. claims \in SUBSET Claims
  BY <1>3 DEF Claims, SourceRow
<1>7. worker' = [worker EXCEPT ![w].claims = claims]
  BY <1>1
<1> HIDE DEF claims
<1> DEFINE row == [Resting EXCEPT !.claims = claims]
<1>8. worker' = [worker EXCEPT ![w] = row]
  BY <1>2, <1>7
<1>9. row \in WorkerRow /\ row.job = Nobody /\ row.todo = {} /\ row.held = {}
      /\ row.wrote = {} /\ ~ row.failing
  BY <1>6, RestingRow DEF Resting
<1> HIDE DEF row
<1> QED  BY <1>2, <1>5, <1>8, <1>9, Rests

LEMMA ExpiryKeeps ==
    ASSUME InboxInv, NEW a \in Actions, LeaseExpires(a)
    PROVE  InboxInv'
<1>1. source \in [Actions -> SourceRow]
  BY DEF InboxInv, RowsOK
<1>2. /\ source' = [source EXCEPT ![a].live = FALSE]
      /\ UNCHANGED <<worker, stands, apart, everApart, inboxVars>>
  BY DEF LeaseExpires, inboxVars
<1>3. /\ source' \in [Actions -> SourceRow]
      /\ \A b \in Actions : /\ source'[b].generation = source[b].generation
                            /\ source'[b].completed = source[b].completed
  <2>1. source' \in [Actions -> SourceRow]
    BY <1>1, <1>2, SourceFields, Zenon
  <2> QED  BY <1>1, <1>2, <2>1 DEF SourceRow
<1>4. RowsOK' /\ \A u, v \in Workers : u # v => worker'[u].held \cap worker'[v].held = {}
  BY <1>2, <1>3 DEF InboxInv, RowsOK, WorkersOK
<1> QED  BY <1>2, <1>3, <1>4, WorkerStep

(* Whoever is kept from an action or no longer is. *)
LEMMA ApartKeeps ==
    ASSUME InboxInv, NEW a \in Actions, NEW r \in Readers, Separate(a, r) \/ Rejoin(a, r)
    PROVE  InboxInv'
<1>1. /\ everApart \subseteq everApart' /\ apart' \subseteq everApart'
      /\ UNCHANGED <<source, worker, stands, inboxVars>>
  BY DEF Separate, Rejoin, inboxVars, InboxInv, RowsOK
<1>2. RowsOK' /\ \A u, v \in Workers : u # v => worker'[u].held \cap worker'[v].held = {}
  BY <1>1 DEF InboxInv, RowsOK, WorkersOK
<1> QED  BY <1>1, <1>2, WorkerStep

LEMMA BeginKeeps ==
    ASSUME InboxInv, NEW w \in Workers, NEW c \in worker[w].claims, BeginProjection(w, c)
    PROVE  InboxInv'
<1> DEFINE a == c.action
           claimed == worker[w].claims \ {c}
           holds == Holds(w, c) /\ source[a].live
           job == IF holds THEN c ELSE Nobody
           todo == IF holds /\ a \in stands THEN To[a] ELSE {}
           f1 == [worker EXCEPT ![w].claims = claimed]
           f2 == [f1 EXCEPT ![w].job = job]
           f3 == [f2 EXCEPT ![w].todo = todo]
<1>1. /\ source \in [Actions -> SourceRow] /\ worker \in [Workers -> WorkerRow]
      /\ worker[w] \in WorkerRow
  BY DEF InboxInv, RowsOK
<1>2. c \in Claims /\ c # Nobody /\ a \in Actions
  BY <1>1, NobodyAssumption DEF WorkerRow, Claims
<1>3. claimed \in SUBSET Claims /\ job \in Claims \cup {Nobody} /\ todo \in SUBSET Readers
  BY <1>1, <1>2, NotificationsAssumption DEF WorkerRow
<1>4. /\ worker[w].job = Nobody /\ ~ worker[w].failing
      /\ worker[w].held = {} /\ worker[w].wrote = {}
  BY DEF BeginProjection, InboxInv, WorkersOK, Projecting, Empty
<1>5. worker' = f3 /\ UNCHANGED <<source, stands, apart, everApart, inboxVars>>
  BY DEF BeginProjection, inboxVars
<1>6. \A r : holds /\ a \in stands /\ r \in To[a] => r \in todo
  OBVIOUS
<1>7. ~ holds => todo = {} /\ job = Nobody
  OBVIOUS
<1>8. holds => job = c /\ c.generation = source[a].generation
  BY DEF Holds
<1> HIDE DEF claimed, job, todo, holds
<1>9. f1 \in [Workers -> WorkerRow] /\ f1[w].held = {} /\ f1[w].wrote = {} /\ ~ f1[w].failing
  <2>1. f1 \in [Workers -> WorkerRow]
    BY <1>1, <1>3, WorkerFields
  <2> QED  BY <2>1, <1>1, <1>4 DEF WorkerRow
<1>10. \A u \in Workers : u # w => f1[u] = worker[u]
  BY <1>1
<1> HIDE DEF f1
<1>11. f2 \in [Workers -> WorkerRow] /\ f2[w].held = {} /\ f2[w].wrote = {} /\ ~ f2[w].failing
       /\ f2[w].job = job
  <2>1. f2 \in [Workers -> WorkerRow]
    BY <1>3, <1>9, WorkerFields
  <2> QED  BY <2>1, <1>9 DEF WorkerRow
<1>12. \A u \in Workers : u # w => f2[u] = f1[u]
  BY <1>9
<1> HIDE DEF f2
<1>13. f3 \in [Workers -> WorkerRow] /\ f3[w].held = {} /\ f3[w].wrote = {} /\ ~ f3[w].failing
       /\ f3[w].job = job /\ f3[w].todo = todo
  <2>1. f3 \in [Workers -> WorkerRow]
    BY <1>3, <1>11, WorkerFields
  <2> QED  BY <2>1, <1>11 DEF WorkerRow
<1>14. \A u \in Workers : u # w => f3[u] = f2[u]
  BY <1>11
<1> HIDE DEF f3
<1>15. RowsOK'
  BY <1>5, <1>13 DEF InboxInv, RowsOK
<1>16. \A u \in Workers : u # w => worker'[u] = worker[u]
  BY <1>5, <1>10, <1>12, <1>14
<1>17. RowFits(w)'
  <2>1. CASE holds
    <3>1. worker'[w].job = c /\ worker'[w].wrote = {} /\ worker'[w].todo = todo
      BY <1>5, <1>8, <1>13, <2>1
    <3>2. Projecting(w)'
      BY <1>2, <1>5, <1>13, <3>1 DEF Projecting
    <3>3. c.generation = source'[c.action].generation
      BY <1>5, <1>8, <2>1
    <3>4. c.action \in stands' => \A r \in To[c.action] : r \in todo
      BY <1>5, <1>6, <2>1
    <3> HIDE DEF a
    <3>5. ProjectionOK(w)'
      BY <3>1, <3>3, <3>4, FS_EmptySet DEF ProjectionOK
    <3> QED  BY <1>5, <1>13, <3>2, <3>5 DEF RowFits
  <2>2. CASE ~ holds
    <3>1. worker'[w].job = Nobody /\ worker'[w].todo = {} /\ worker'[w].held = {}
          /\ worker'[w].wrote = {} /\ ~ worker'[w].failing
      BY <1>5, <1>7, <1>13, <2>2
    <3> QED  BY <3>1 DEF RowFits, Projecting, Empty
  <2> QED  BY <2>1, <2>2
<1>18. \A u, v \in Workers : u # v => worker'[u].held \cap worker'[v].held = {}
  BY <1>5, <1>13, <1>16 DEF InboxInv, WorkersOK
<1> QED  BY <1>1, <1>5, <1>15, <1>16, <1>17, <1>18, WorkerStep

(* A recipient is done with: kept from the action, delivered before or now. *)
LEMMA DeliverKeeps ==
    ASSUME InboxInv, NEW w \in Workers, Deliver(w)
    PROVE  InboxInv'
<1> DEFINE a == worker[w].job.action
           r == Min(worker[w].todo)
<1>1. /\ source \in [Actions -> SourceRow] /\ worker \in [Workers -> WorkerRow]
      /\ worker[w] \in WorkerRow /\ apart \subseteq everApart
  BY DEF InboxInv, RowsOK
<1>2. /\ Projecting(w) /\ worker[w].todo # {} /\ ProjectionOK(w)
      /\ UNCHANGED <<source, stands, apart, everApart, inboxVars>>
  BY DEF Deliver, inboxVars, InboxInv, WorkersOK
<1>3. worker[w].job \in Claims /\ a \in Actions
  BY <1>1, <1>2 DEF Projecting, WorkerRow, Claims
<1>4. r \in worker[w].todo /\ r \in Readers
  <2>1. worker[w].todo \in SUBSET Nat /\ worker[w].todo \subseteq Readers
    BY <1>1, NotificationsAssumption DEF WorkerRow
  <2> QED  BY <1>2, <2>1, MinIsIn
<1> DEFINE todo == worker[w].todo \ {r}
           f1 == [worker EXCEPT ![w].todo = todo]
<1>5. todo \in SUBSET Readers
  BY <1>1 DEF WorkerRow
<1>6. /\ f1 \in [Workers -> WorkerRow]
      /\ f1[w].todo = todo /\ f1[w].held = worker[w].held /\ f1[w].wrote = worker[w].wrote
      /\ f1[w].job = worker[w].job /\ f1[w].failing = worker[w].failing
  <2> HIDE DEF todo
  <2>1. f1 \in [Workers -> WorkerRow]
    BY <1>1, <1>5, WorkerFields
  <2> QED  BY <2>1, <1>1 DEF WorkerRow
<1>7. \A u \in Workers : u # w => f1[u] = worker[u]
  BY <1>1
<1>8. \A s : s \in worker[w].todo => s \in todo \/ s = r
  OBVIOUS
<1>9. CASE <<a, r>> \in apart /\ worker' = f1
  <2> HIDE DEF f1, todo, r, a
  <2>1. \A u \in Workers : u # w => worker'[u] = worker[u]
    BY <1>7, <1>9
  <2>2. Projecting(w)' /\ ~ worker'[w].failing
    BY <1>2, <1>6, <1>9 DEF Projecting
  <2>3. ProjectionOK(w)'
    <3>1. <<a, r>> \in everApart'
      BY <1>1, <1>2, <1>9
    <3>2. worker'[w].job = worker[w].job /\ worker'[w].wrote = worker[w].wrote
          /\ worker'[w].todo = todo
      BY <1>6, <1>9
    <3>3. a \in stands => \A s \in To[a] : \/ s \in todo \/ <<a, s>> \in everApart
                                           \/ Delivered(a, s) \/ Written(w, s)
      BY <1>2, <1>8, <3>1 DEF ProjectionOK, a
    <3>5. worker'[w].job.generation = source'[a].generation /\ worker'[w].job.action = a
      BY <1>2, <3>2 DEF ProjectionOK, a
    <3>6. version' = version /\ stands' = stands /\ everApart' = everApart
      BY <1>2 DEF inboxVars
    <3>7. \A s : (\E d \in deliveries' : d.action = a /\ d.reader = s) <=> Delivered(a, s)
      BY <1>2 DEF Delivered, inboxVars
    <3>8. \A s : Written(w, s)' <=> Written(w, s)
      BY <3>2 DEF Written
    <3>9. /\ IsFiniteSet(worker[w].wrote)
          /\ \A d \in worker[w].wrote : /\ d.reader \in worker[w].held
                                        /\ d = Delivery(a, d.reader, version[d.reader] + 1)
      BY <1>2 DEF ProjectionOK, a
    <3>10. worker'[w].held = worker[w].held
      BY <1>6, <1>9
    <3> QED  BY <3>2, <3>3, <3>5, <3>6, <3>7, <3>8, <3>9, <3>10
               DEF ProjectionOK, Delivered, Delivery
  <2>4. \A u, v \in Workers : u # v => worker'[u].held \cap worker'[v].held = {}
    BY <1>6, <1>9, <2>1 DEF InboxInv, WorkersOK
  <2>5. RowsOK'
    BY <1>2, <1>6, <1>9 DEF InboxInv, RowsOK
  <2>6. RowFits(w)'
    BY <2>2, <2>3 DEF RowFits
  <2> QED  BY <1>1, <1>2, <2>1, <2>4, <2>5, <2>6, WorkerStep
<1> DEFINE held == worker[w].held \cup {r}
           new == Delivery(a, r, version[r] + 1)
           wrote == IF Delivered(a, r) THEN worker[w].wrote ELSE worker[w].wrote \cup {new}
           f2 == [f1 EXCEPT ![w].held = held]
           f3 == [f2 EXCEPT ![w].wrote = wrote]
<1>10. CASE ~ VersionLocked(r) /\ worker' = f3
  <2>1. held \in SUBSET Readers
    BY <1>1, <1>4 DEF WorkerRow
  <2>2. new \in [action : Actions, reader : Readers, group : GroupKeys, revision : Nat]
    BY <1>3, <1>4 DEF Delivery, GroupKeys, InboxInv, DeliveriesOK
  <2>3. wrote \in SUBSET [action : Actions, reader : Readers, group : GroupKeys,
                          revision : Nat]
    BY <1>1, <2>2 DEF WorkerRow
  <2>4. IsFiniteSet(wrote)
    <3>1. IsFiniteSet(worker[w].wrote)
      BY <1>2 DEF ProjectionOK
    <3> HIDE DEF new
    <3> QED  BY <3>1, FS_AddElement
  <2>5. \A d \in wrote : d.reader \in held /\ d = Delivery(a, d.reader, version[d.reader] + 1)
    <3>1. \A d \in worker[w].wrote :
             d.reader \in held /\ d = Delivery(a, d.reader, version[d.reader] + 1)
      BY <1>2 DEF ProjectionOK
    <3>2. new.reader = r /\ new = Delivery(a, r, version[r] + 1)
      BY DEF Delivery
    <3>3. new.reader \in held /\ new = Delivery(a, new.reader, version[new.reader] + 1)
      BY <3>2
    <3> HIDE DEF new, held, r, a
    <3> QED  BY <3>1, <3>3
  <2>6. Delivered(a, r) \/ \E d \in wrote : d.reader = r
    <3>1. new.reader = r
      BY DEF Delivery
    <3>2. ~ Delivered(a, r) => new \in wrote
      OBVIOUS
    <3> HIDE DEF new, wrote, r, a
    <3> QED  BY <3>1, <3>2
  <2>7. worker[w].wrote \subseteq wrote
    OBVIOUS
  <2> HIDE DEF f1, todo, held, new, wrote
  <2>8. /\ f2 \in [Workers -> WorkerRow] /\ f2[w].held = held
        /\ f2[w].todo = todo /\ f2[w].wrote = worker[w].wrote
        /\ f2[w].job = worker[w].job /\ f2[w].failing = worker[w].failing
    <3>1. f2 \in [Workers -> WorkerRow]
      BY <1>6, <2>1, WorkerFields
    <3> QED  BY <3>1, <1>6 DEF WorkerRow
  <2>9. \A u \in Workers : u # w => f2[u] = f1[u]
    BY <1>6
  <2> HIDE DEF f2
  <2>10. /\ f3 \in [Workers -> WorkerRow] /\ f3[w].held = held
         /\ f3[w].todo = todo /\ f3[w].wrote = wrote
         /\ f3[w].job = worker[w].job /\ f3[w].failing = worker[w].failing
    <3>1. f3 \in [Workers -> WorkerRow]
      BY <2>3, <2>8, WorkerFields
    <3> QED  BY <3>1, <2>8 DEF WorkerRow
  <2>11. \A u \in Workers : u # w => f3[u] = f2[u]
    BY <2>8
  <2> HIDE DEF f3
  <2>12. \A u \in Workers : u # w => worker'[u] = worker[u]
    BY <1>7, <1>10, <2>9, <2>11
  <2>13. Projecting(w)' /\ ~ worker'[w].failing
    BY <1>2, <1>10, <2>10 DEF Projecting
  <2>14. ProjectionOK(w)'
    <3> HIDE DEF r
    <3>1. worker'[w].job = worker[w].job /\ worker'[w].wrote = wrote
          /\ worker'[w].todo = todo /\ worker'[w].held = held
      BY <1>10, <2>10
    <3>2. a \in stands => \A s \in To[a] : \/ s \in todo \/ <<a, s>> \in everApart
                                           \/ Delivered(a, s) \/ \E d \in wrote : d.reader = s
      BY <1>2, <1>8, <2>6, <2>7 DEF ProjectionOK, Written
    <3>3. worker'[w].job.generation = source'[a].generation /\ worker'[w].job.action = a
      BY <1>2, <3>1 DEF ProjectionOK
    <3>5. \A s : Written(w, s)' <=> \E d \in wrote : d.reader = s
      BY <3>1 DEF Written
    <3>6. version' = version /\ stands' = stands /\ everApart' = everApart
      BY <1>2 DEF inboxVars
    <3>7. \A s : (\E d \in deliveries' : d.action = a /\ d.reader = s) <=> Delivered(a, s)
      BY <1>2 DEF Delivered, inboxVars
    <3> HIDE DEF a
    <3> QED  BY <2>4, <2>5, <3>1, <3>2, <3>3, <3>5, <3>6, <3>7
               DEF ProjectionOK, Delivered, Delivery
  <2>15. \A u, v \in Workers : u # v => worker'[u].held \cap worker'[v].held = {}
    <3>1. \A u \in Workers : u # w => held \cap worker[u].held = {}
      BY <1>10 DEF held, VersionLocked, InboxInv, WorkersOK
    <3> QED  BY <1>10, <2>10, <2>12, <3>1 DEF InboxInv, WorkersOK
  <2>16. RowsOK'
    BY <1>2, <1>10, <2>10 DEF InboxInv, RowsOK
  <2>17. RowFits(w)'
    BY <2>13, <2>14 DEF RowFits
  <2> HIDE DEF r, a
  <2> QED  BY <1>1, <1>2, <2>12, <2>15, <2>16, <2>17, WorkerStep
<1>11. \/ <<a, r>> \in apart /\ worker' = f1
       \/ ~ VersionLocked(r) /\ worker' = f3
  BY DEF Deliver
<1> QED  BY <1>9, <1>10, <1>11

(* A change reopens its source; no projection of it is under way.           *)
LEMMA ChangeKeeps ==
    ASSUME InboxInv, NEW a \in Actions, ChangeAction(a)
    PROVE  InboxInv'
<1> DEFINE f1 == [source EXCEPT ![a].generation = source[a].generation + 1]
           f2 == [f1 EXCEPT ![a].attempts = 0]
<1>1. /\ source' = f2 /\ ~ SourceLocked(a)
      /\ stands' = (IF a \in stands THEN stands \ {a} ELSE stands \cup {a})
      /\ everApart' = {x \in everApart : x[1] # a} \cup {x \in apart : x[1] = a}
      /\ UNCHANGED <<apart, worker, inboxVars>>
  BY DEF ChangeAction, Enqueue, inboxVars
<1>2. /\ source \in [Actions -> SourceRow] /\ worker \in [Workers -> WorkerRow]
      /\ stands \subseteq Actions /\ apart \subseteq everApart /\ source[a].generation \in Nat
      /\ source[a].completed \in Nat
  BY DEF InboxInv, RowsOK, SourceRow
<1>3. /\ f1 \in [Actions -> SourceRow] /\ f1[a].generation = source[a].generation + 1
      /\ f1[a].completed = source[a].completed
  <2>1. f1 \in [Actions -> SourceRow]
    <3>1. source[a].generation + 1 \in Nat
      BY <1>2
    <3> QED  BY <1>2, <3>1, SourceFields, Zenon
  <2> QED  BY <2>1, <1>2 DEF SourceRow
<1>4. \A b \in Actions : b # a => f1[b] = source[b]
  BY <1>2
<1> HIDE DEF f1
<1>5. /\ f2 \in [Actions -> SourceRow] /\ f2[a].generation = f1[a].generation
      /\ f2[a].completed = f1[a].completed
  <2>1. f2 \in [Actions -> SourceRow]
    BY <1>3, SourceFields, Zenon
  <2> QED  BY <2>1, <1>3 DEF SourceRow
<1>6. \A b \in Actions : b # a => f2[b] = f1[b]
  BY <1>3
<1> HIDE DEF f2
<1>7. \A b \in Actions : b # a => source'[b] = source[b]
  BY <1>1, <1>4, <1>6
<1>8. source'[a].completed < source'[a].generation
  <2>1. source[a].completed <= source[a].generation
    BY DEF InboxInv, SourcesOK
  <2> QED  BY <1>1, <1>2, <1>3, <1>5, <2>1
<1>9. RowsOK'
  <2>1. apart \subseteq {x \in everApart : x[1] # a} \cup {x \in apart : x[1] = a}
    BY <1>2
  <2>2. stands' \subseteq Actions
    BY <1>1, <1>2
  <2> QED  BY <1>1, <1>2, <1>5, <2>1, <2>2 DEF RowsOK
<1>10. DeliveriesOK' /\ ReadersOK'
  BY <1>1, InboxStays DEF InboxInv
<1>11. SourcesOK'
  BY <1>2, <1>1, <1>5, <1>7, <1>8 DEF InboxInv, SourcesOK, SourceRow
<1>12. ASSUME NEW b \in Actions, b # a
       PROVE  /\ b \in stands' <=> b \in stands
              /\ \A r : <<b, r>> \in everApart => <<b, r>> \in everApart'
              /\ \A r : Delivered(b, r)' <=> Delivered(b, r)
  BY <1>1, <1>12 DEF Delivered, inboxVars
<1>13. NoWakeUpIsLost'
  <2>1. ASSUME NEW b \in stands', source'[b].completed = source'[b].generation
        PROVE  \A r \in To[b] : <<b, r>> \in everApart' \/ Delivered(b, r)'
    <3>1. b \in Actions
      BY <1>9 DEF RowsOK
    <3>2. b # a
      BY <1>1, <1>2, <1>3, <1>5, <1>8, <2>1 DEF SourceRow
    <3> QED  BY <1>7, <1>12, <2>1, <3>1, <3>2 DEF InboxInv, NoWakeUpIsLost
  <2> QED  BY <2>1 DEF NoWakeUpIsLost
<1>14. ASSUME NEW u \in Workers, Projecting(u)  PROVE ProjectionOK(u)'
  <2>1. worker[u].job.action \in Actions /\ worker[u].job.action # a
    BY <1>1, <1>2, <1>14 DEF Projecting, SourceLocked, WorkerRow, Claims
  <2>2. PICK b \in Actions : b = worker[u].job.action
    BY <2>1
  <2>3. ProjectionOK(u)
    BY <1>14 DEF InboxInv, WorkersOK
  <2>4. worker'[u] = worker[u] /\ version' = version /\ source'[b] = source[b]
    BY <1>1, <1>7, <2>1, <2>2 DEF inboxVars
  <2>5. worker'[u].job.generation = source'[b].generation /\ worker'[u].job.action = b
    BY <2>2, <2>3, <2>4 DEF ProjectionOK
  <2>6. /\ IsFiniteSet(worker[u].wrote)
        /\ \A d \in worker[u].wrote : /\ d.reader \in worker[u].held
                                      /\ d = Delivery(b, d.reader, version[d.reader] + 1)
    BY <2>2, <2>3 DEF ProjectionOK
  <2>7. b \in stands' => \A r \in To[b] : \/ r \in worker[u].todo \/ <<b, r>> \in everApart'
                                          \/ Delivered(b, r)' \/ Written(u, r)
    BY <1>12, <2>1, <2>2, <2>3 DEF ProjectionOK
  <2>8. \A r : Written(u, r)' <=> Written(u, r)
    BY <2>4 DEF Written
  <2>9. \A r : (\E d \in deliveries' : d.action = b /\ d.reader = r) <=> Delivered(b, r)'
    BY DEF Delivered
  <2> QED  BY <2>4, <2>5, <2>6, <2>7, <2>8, <2>9 DEF ProjectionOK, Delivered, Delivery
<1>15. WorkersOK'
  <2>1. \A u \in Workers : worker'[u] = worker[u] /\ (Projecting(u)' <=> Projecting(u))
    BY <1>1 DEF Projecting
  <2> QED  BY <1>14, <2>1 DEF InboxInv, WorkersOK, Empty
<1> QED  BY <1>9, <1>10, <1>11, <1>13, <1>15 DEF InboxInv

-----------------------------------------------------------------------------
(* The commit. *)

(* Versions only grow, by one for whoever is written to.                     *)
LEMMA CommittedVersions ==
    ASSUME InboxInv, NEW w \in Workers, CommitProjection(w)
    PROVE  /\ version' \in [Readers -> Nat]
           /\ \A r \in Readers : version'[r] >= version[r]
           /\ \A r \in Readers : (\E d \in worker[w].wrote : d.reader = r)
                                    => version'[r] = version[r] + 1
           /\ \A r \in Readers : ~ (\E d \in worker[w].wrote : d.reader = r)
                                    => version'[r] = version[r]
<1> DEFINE wrote == worker[w].wrote
           new(r) == {version[r]} \cup {d.revision : d \in {x \in wrote : x.reader = r}}
<1>1. version' = [r \in Readers |-> Max(new(r))]
  BY DEF CommitProjection
<1>2. \A d \in wrote : d.revision = version[d.reader] + 1
  <2>1. ProjectionOK(w)
    BY DEF CommitProjection, InboxInv, WorkersOK
  <2>2. ASSUME NEW d \in wrote  PROVE d.revision = version[d.reader] + 1
    <3>1. d = Delivery(worker[w].job.action, d.reader, version[d.reader] + 1)
      BY <2>1 DEF ProjectionOK
    <3> QED  BY <3>1 DEF Delivery
  <2> QED  BY <2>2
<1>3. \A r \in Readers : version[r] \in Nat
  BY DEF InboxInv, DeliveriesOK
<1>4. ASSUME NEW r \in Readers
      PROVE  /\ Max(new(r)) \in {version[r], version[r] + 1}
             /\ (\E d \in wrote : d.reader = r) => Max(new(r)) = version[r] + 1
             /\ ~ (\E d \in wrote : d.reader = r) => Max(new(r)) = version[r]
  <2> DEFINE S == new(r)
  <2>1. version[r] \in S /\ \A n \in S : n = version[r] \/ n = version[r] + 1
    BY <1>2
  <2>2. (\E d \in wrote : d.reader = r) => version[r] + 1 \in S
    BY <1>2
  <2>3. ~ (\E d \in wrote : d.reader = r) => S = {version[r]}
    OBVIOUS
  <2> HIDE DEF S, wrote
  <2>4. S \in SUBSET Nat /\ S # {} /\ version[r] + 1 \in Nat
        /\ \A n \in S : n <= version[r] + 1
    BY <1>3, <2>1
  <2>5. Max(S) \in S /\ \A n \in S : n <= Max(S)
    BY <2>4, MaxIsIn
  <2>6. Max(S) = version[r] \/ Max(S) = version[r] + 1
    BY <2>1, <2>5
  <2>7. Max(S) # version[r] + 1 => version[r] + 1 \notin S
    BY <1>3, <2>5, <2>6
  <2>8. S = {version[r]} => Max(S) = version[r]
    BY <2>5
  <2> HIDE DEF new
  <2> QED  BY <2>2, <2>3, <2>6, <2>7, <2>8 DEF S
<1> HIDE DEF new, wrote
<1>5. \A r \in Readers : version'[r] = Max(new(r))
  BY <1>1
<1>6. version' \in [Readers -> Nat]
  BY <1>1, <1>3, <1>4
<1> QED  BY <1>3, <1>4, <1>5, <1>6 DEF wrote

LEMMA CommitKeeps ==
    ASSUME InboxInv, NEW w \in Workers, CommitProjection(w)
    PROVE  InboxInv'
<1> DEFINE a == worker[w].job.action
           wrote == worker[w].wrote
           row == [Resting EXCEPT !.claims = worker[w].claims]
           f1 == [source EXCEPT ![a].completed = worker[w].job.generation]
           f2 == [f1 EXCEPT ![a].owner = Nobody]
           f3 == [f2 EXCEPT ![a].live = FALSE]
<1>1. /\ source \in [Actions -> SourceRow] /\ worker \in [Workers -> WorkerRow]
      /\ worker[w] \in WorkerRow /\ stands \subseteq Actions /\ apart \subseteq everApart
  BY DEF InboxInv, RowsOK
<1>2. /\ Projecting(w) /\ worker[w].todo = {} /\ ProjectionOK(w)
      /\ deliveries' = deliveries \cup wrote /\ source' = f3
      /\ worker' = [worker EXCEPT ![w] = row]
      /\ UNCHANGED <<stands, apart, everApart, through, inbox, observed>>
  BY DEF CommitProjection, InboxInv, WorkersOK
<1>3. /\ worker[w].job \in Claims /\ a \in Actions
      /\ worker[w].job.generation = source[a].generation /\ source[a].generation \in Nat
  BY <1>1, <1>2 DEF Projecting, WorkerRow, Claims, SourceRow, ProjectionOK
<1>4. row \in WorkerRow /\ row.job = Nobody /\ row.todo = {} /\ row.held = {}
      /\ row.wrote = {} /\ ~ row.failing
  BY <1>1, RestingRow DEF Resting, WorkerRow
<1> HIDE DEF row
<1>5. worker'[w] = row /\ \A u \in Workers : u # w => worker'[u] = worker[u]
  BY <1>1, <1>2
<1>6. /\ f1 \in [Actions -> SourceRow]
      /\ f1[a].completed = source[a].generation /\ f1[a].generation = source[a].generation
      /\ \A b \in Actions : b # a => f1[b] = source[b]
  <2>1. f1 \in [Actions -> SourceRow]
    BY <1>1, <1>3, SourceFields, Zenon
  <2> QED  BY <2>1, <1>1, <1>3 DEF SourceRow
<1> HIDE DEF f1
<1>7. /\ f2 \in [Actions -> SourceRow]
      /\ f2[a].completed = f1[a].completed /\ f2[a].generation = f1[a].generation
      /\ \A b \in Actions : b # a => f2[b] = f1[b]
  <2>1. f2 \in [Actions -> SourceRow]
    BY <1>3, <1>6, SourceFields, Zenon
  <2> QED  BY <2>1, <1>3, <1>6 DEF SourceRow
<1> HIDE DEF f2
<1>8. /\ f3 \in [Actions -> SourceRow]
      /\ f3[a].completed = f2[a].completed /\ f3[a].generation = f2[a].generation
      /\ \A b \in Actions : b # a => f3[b] = f2[b]
  <2>1. f3 \in [Actions -> SourceRow]
    BY <1>3, <1>7, SourceFields, Zenon
  <2> QED  BY <2>1, <1>3, <1>7 DEF SourceRow
<1> HIDE DEF f3
<1>9. /\ source'[a].completed = source[a].generation
      /\ \A b \in Actions : b # a => source'[b] = source[b]
      /\ \A b \in Actions : source'[b].generation = source[b].generation
  BY <1>2, <1>6, <1>7, <1>8
<1>10. ASSUME NEW d \in wrote
       PROVE  /\ d.reader \in Readers /\ d.reader \in worker[w].held /\ d.action = a
              /\ d.group = GroupOf[a] /\ d.revision = version[d.reader] + 1
              /\ version'[d.reader] = version[d.reader] + 1 /\ version[d.reader] \in Nat
  <2>1. d.reader \in Readers /\ d.reader \in worker[w].held
        /\ d = Delivery(a, d.reader, version[d.reader] + 1)
    BY <1>1, <1>2 DEF ProjectionOK, WorkerRow
  <2>2. version[d.reader] \in Nat
    BY <2>1 DEF InboxInv, DeliveriesOK
  <2> QED  BY <2>1, <2>2, CommittedVersions DEF Delivery
<1>11. DeliveriesOK'
  <2>1. IsFiniteSet(deliveries \cup wrote)
    <3>1. IsFiniteSet(wrote) /\ IsFiniteSet(deliveries)
      BY <1>2 DEF ProjectionOK, InboxInv, DeliveriesOK
    <3> HIDE DEF wrote
    <3> QED  BY <3>1, FS_Union
  <2>2. ASSUME NEW d \in deliveries  PROVE DeliveryOK(d)'
    <3>1. DeliveryOK(d) /\ version[d.reader] \in Nat
      BY DEF InboxInv, DeliveriesOK, DeliveryOK
    <3>2. version'[d.reader] \in Nat /\ version'[d.reader] >= version[d.reader]
      BY <3>1, CommittedVersions DEF DeliveryOK
    <3> QED  BY <3>1, <3>2 DEF DeliveryOK
  <2>3. ASSUME NEW d \in wrote  PROVE DeliveryOK(d)'
    BY <1>3, <1>10 DEF DeliveryOK
  <2> QED  BY <1>2, <2>1, <2>2, <2>3, CommittedVersions DEF DeliveriesOK
<1>12. ASSUME NEW r \in Readers, NEW high \in 0..version[r]
       PROVE  Shown(r, high)' = Shown(r, high)
  <2>1. \A d \in wrote : d.reader = r => ~ (d.revision <= high)
    BY <1>10
  <2> QED  BY <1>2, <2>1 DEF Shown
<1>13. ReadersOK'
  <2>1. ASSUME NEW r \in Readers, inbox'[r] # Nobody  PROVE BoxOK(r)'
    <3>1. BoxOK(r)
      BY <1>2, <2>1 DEF InboxInv, ReadersOK
    <3>2. inbox[r].high \in 0..version[r] /\ version[r] \in Nat
      BY <3>1 DEF BoxOK, InboxInv, DeliveriesOK
    <3>3. version'[r] \in Nat /\ version'[r] >= version[r]
      BY CommittedVersions
    <3>4. PICK high : high = inbox[r].high
      OBVIOUS
    <3>5. Shown(r, high)' = Shown(r, high)
      BY <1>12, <3>2, <3>4
    <3>6. Shown(r, inbox[r].high)' = Shown(r, inbox[r].high)
      BY <1>2, <3>4, <3>5 DEF Shown
    <3>7. inbox'[r].high \in 0..version'[r]
      BY <1>2, <3>2, <3>3
    <3> QED  BY <1>2, <3>1, <3>6, <3>7 DEF BoxOK, GroupsOf, GroupRevision
  <2>2. ASSUME NEW r \in Readers, NEW g \in GroupKeys  PROVE through'[r][g] <= version'[r]
    <3>1. /\ through[r][g] \in Nat /\ version[r] \in Nat /\ through[r][g] <= version[r]
          /\ through' = through
      BY <1>2 DEF InboxInv, ReadersOK, DeliveriesOK
    <3>2. version'[r] \in Nat /\ version'[r] >= version[r]
      BY CommittedVersions
    <3> QED  BY <3>1, <3>2
  <2>3. MarksOK'
    <3>1. ASSUME NEW d \in wrote  PROVE ~ (d.revision <= through[d.reader][d.group])
      <4>1. d.group \in GroupKeys
        BY <1>3, <1>10 DEF GroupKeys
      <4>2. /\ through[d.reader][d.group] \in Nat
            /\ through[d.reader][d.group] <= version[d.reader]
        BY <1>10, <4>1 DEF InboxInv, ReadersOK
      <4> QED  BY <1>10, <4>2
    <3> QED  BY <1>2, <3>1 DEF InboxInv, ReadersOK, MarksOK
  <2> QED  BY <1>2, <2>1, <2>2, <2>3 DEF InboxInv, ReadersOK
<1>14. RowsOK'
  <2>1. worker' \in [Workers -> WorkerRow]
    BY <1>1, <1>2, <1>4
  <2> QED  BY <1>1, <1>2, <1>8, <2>1 DEF RowsOK
<1>15. SourcesOK'
  <2>1. ASSUME NEW b \in Actions  PROVE source'[b].completed <= source'[b].generation
    <3>1. CASE b = a
      BY <1>3, <1>9, <3>1
    <3>2. CASE b # a
      BY <1>9, <3>2 DEF InboxInv, SourcesOK
    <3> QED  BY <3>1, <3>2
  <2> QED  BY <2>1 DEF SourcesOK
<1>16. \A b, r : Delivered(b, r) => Delivered(b, r)'
  BY <1>2 DEF Delivered
<1>17. NoWakeUpIsLost'
  <2>1. ASSUME NEW b \in stands, source'[b].completed = source'[b].generation, NEW r \in To[b]
        PROVE  <<b, r>> \in everApart \/ Delivered(b, r)'
    <3>1. CASE b = a
      <4>1. <<a, r>> \in everApart \/ Delivered(a, r) \/ Written(w, r)
        BY <1>2, <2>1, <3>1 DEF ProjectionOK
      <4>2. Written(w, r) => \E d \in wrote : d.reader = r /\ d.action = a
        BY <1>10 DEF Written
      <4>3. Written(w, r) => \E d \in deliveries' : d.reader = r /\ d.action = a
        BY <1>2, <4>2
      <4> HIDE DEF a
      <4> QED  BY <1>16, <3>1, <4>1, <4>3 DEF Delivered
    <3>2. CASE b # a
      BY <1>1, <1>9, <1>16, <2>1, <3>2 DEF InboxInv, NoWakeUpIsLost
    <3> QED  BY <3>1, <3>2
  <2> QED  BY <1>2, <2>1 DEF NoWakeUpIsLost
<1>18. ASSUME NEW u \in Workers, u # w, Projecting(u)  PROVE ProjectionOK(u)'
  <2>1. ProjectionOK(u) /\ worker[u].job.action \in Actions
    BY <1>1, <1>18 DEF InboxInv, WorkersOK, Projecting, WorkerRow, Claims
  <2>2. PICK b \in Actions : b = worker[u].job.action
    BY <2>1
  <2>3. worker'[u] = worker[u] /\ stands' = stands /\ everApart' = everApart
    BY <1>2, <1>5, <1>18
  <2>4. worker'[u].job.generation = source'[b].generation /\ worker'[u].job.action = b
    BY <1>9, <2>1, <2>2, <2>3 DEF ProjectionOK
  <2>5. ASSUME NEW d \in worker[u].wrote
        PROVE  /\ d.reader \in worker[u].held
               /\ d = Delivery(b, d.reader, version'[d.reader] + 1)
    <3>1. d.reader \in worker[u].held /\ d = Delivery(b, d.reader, version[d.reader] + 1)
      BY <2>1, <2>2 DEF ProjectionOK
    <3>2. d.reader \in Readers /\ d.reader \notin worker[w].held
      BY <1>1, <1>18, <3>1 DEF InboxInv, WorkersOK, WorkerRow
    <3>3. ~ \E x \in wrote : x.reader = d.reader
      BY <1>10, <3>2
    <3>4. version'[d.reader] = version[d.reader]
      BY <3>2, <3>3, CommittedVersions
    <3> QED  BY <3>1, <3>4
  <2>6. IsFiniteSet(worker[u].wrote)
    BY <2>1 DEF ProjectionOK
  <2>7. b \in stands => \A r \in To[b] : \/ r \in worker[u].todo \/ <<b, r>> \in everApart
                                         \/ Delivered(b, r)' \/ Written(u, r)
    BY <1>16, <2>1, <2>2 DEF ProjectionOK
  <2>8. \A r : Written(u, r)' <=> Written(u, r)
    BY <2>3 DEF Written
  <2>9. \A r : (\E d \in deliveries' : d.action = b /\ d.reader = r) <=> Delivered(b, r)'
    BY DEF Delivered
  <2> QED  BY <2>3, <2>4, <2>5, <2>6, <2>7, <2>8, <2>9 DEF ProjectionOK, Delivered, Delivery
<1>19. WorkersOK'
  <2>1. ~ Projecting(w)' /\ Empty(w)' /\ ~ worker'[w].failing
    BY <1>4, <1>5 DEF Projecting, Empty
  <2>2. \A u \in Workers : u # w => (Projecting(u)' <=> Projecting(u)) /\ (Empty(u)' <=> Empty(u))
    BY <1>5 DEF Projecting, Empty
  <2>3. \A u, v \in Workers : u # v => worker'[u].held \cap worker'[v].held = {}
    BY <1>4, <1>5 DEF InboxInv, WorkersOK
  <2> QED  BY <1>5, <1>18, <2>1, <2>2, <2>3 DEF InboxInv, WorkersOK
<1> QED  BY <1>11, <1>13, <1>14, <1>15, <1>17, <1>19 DEF InboxInv

-----------------------------------------------------------------------------
LEMMA InboxNext == InboxInv /\ [NotificationsNext]_notificationVars => InboxInv'
<1> SUFFICES ASSUME InboxInv, [NotificationsNext]_notificationVars  PROVE InboxInv'
  OBVIOUS
<1>1. CASE \E a \in Actions : ChangeAction(a) \/ LeaseExpires(a)
  BY <1>1, ChangeKeeps, ExpiryKeeps
<1>2. CASE \E a \in Actions, r \in Readers : Separate(a, r) \/ Rejoin(a, r)
  BY <1>2, ApartKeeps
<1>3. CASE \E w \in Workers : \/ Claim(w) \/ Deliver(w) \/ CommitProjection(w)
                              \/ RollBack(w) \/ Fail(w) \/ Drop(w)
  BY <1>3, ClaimKeeps, DeliverKeeps, CommitKeeps, LettingGo
<1>4. CASE \E w \in Workers : \E c \in worker[w].claims : BeginProjection(w, c)
  BY <1>4, BeginKeeps
<1>5. CASE \E r \in Readers : List(r) \/ More(r) \/ MarkAll(r)
  BY <1>5, ReaderSteps
<1>6. CASE \E r \in Readers, g \in GroupKeys : MarkGroup(r, g)
  BY <1>6, ReaderSteps
<1>7. CASE UNCHANGED notificationVars
  <2>1. UNCHANGED <<source, stands, apart, everApart, worker, version, deliveries>>
        /\ UNCHANGED inboxVars /\ apart' \subseteq everApart'
    BY <1>7 DEF notificationVars, inboxVars, InboxInv, RowsOK
  <2> QED  BY <2>1, InboxStays, QuietStep DEF InboxInv
<1> QED  BY <1>1, <1>2, <1>3, <1>4, <1>5, <1>6, <1>7 DEF NotificationsNext

THEOREM InboxInvariance == NotificationsSpec => []InboxInv
<1> QED  BY InboxInit, InboxNext, PTL DEF NotificationsSpec

(* Nothing is marked read that its reader was not shown, and the pages of an *)
(* observation together show all of it.                                      *)
THEOREM MarksAreHonest == NotificationsSpec => []UnseenStaysUnread
<1>1. InboxInv => UnseenStaysUnread
  BY DEF InboxInv, ReadersOK, MarksOK, BoxOK, UnseenStaysUnread
<1> QED  BY <1>1, InboxInvariance, PTL

(* A completed source owes nothing to anybody.                               *)
THEOREM EveryWakeUpActs == NotificationsSpec => []NoWakeUpIsLost
<1>1. InboxInv => NoWakeUpIsLost
  BY DEF InboxInv
<1> QED  BY <1>1, InboxInvariance, PTL

-----------------------------------------------------------------------------
(* A conversation. *)

Message == [sender : Accounts, request : RequestIds, removed : BOOLEAN]
Receipt == [sequence : Nat, text : BOOLEAN]
Transaction == [request : RequestIds, permitted : BOOLEAN, count : Nat]

Typed ==
    /\ messages \in Seq(Message)
    /\ receipts \in [RequestIds -> Receipt \cup {NoCommand}]
    /\ tx \in [Calls -> Transaction \cup {NoCommand}]
    /\ DOMAIN asked = RequestIds /\ DOMAIN participant = Accounts /\ DOMAIN pages = Reads

IsRow(row) == row = [hidden |-> row.hidden, before |-> row.before, read |-> row.read]

(* Every command has one of the accounts as its actor, also those that the   *)
(* answer of a page will make.                                               *)
OwnActors ==
    /\ \A q \in RequestIds : asked[q] # NoCommand => asked[q].actor \in Accounts
    /\ \A r \in Reads : pages[r] # NoCommand => pages[r].reader \in Accounts
    /\ \A t \in Calls : tx[t] # NoCommand => asked[tx[t].request] # NoCommand

Permitted(t) == tx[t] # NoCommand /\ tx[t].permitted

(* Who has the lock has counted all messages, and its request has not acted. *)
Guarded ==
    /\ \A t, u \in Calls : Permitted(t) /\ Permitted(u) => t = u
    /\ \A t \in Calls : Permitted(t) => /\ tx[t].count = Len(messages)
                                        /\ receipts[tx[t].request] = NoCommand

Opened == /\ conversation = [state |-> conversation.state, initiator |-> conversation.initiator]
          /\ conversation.state = "none" => messages = <<>>
          /\ conversation.state \in {"none", "requested", "active"}

DirectInv ==
    /\ Typed /\ OwnActors /\ Guarded /\ Opened
    /\ \A a \in Accounts : IsRow(participant[a])
    /\ SendsActOnce /\ HiddenUntilSomethingNew

-----------------------------------------------------------------------------
LEMMA DirectInitInv == DirectInit => DirectInv
<1> SUFFICES ASSUME DirectInit  PROVE DirectInv
  OBVIOUS
<1> USE DEF DirectInit
<1>1. Typed
  BY DEF Typed
<1>2. OwnActors /\ Guarded /\ Opened
  BY DEF OwnActors, Guarded, Permitted, Opened
<1>3. \A a \in Accounts : IsRow(participant[a])
  BY DEF IsRow
<1>4. SendsActOnce /\ HiddenUntilSomethingNew
  BY DEF SendsActOnce, HiddenUntilSomethingNew
<1> QED  BY <1>1, <1>2, <1>3, <1>4 DEF DirectInv

(* What a step that writes neither messages nor rows has to keep. *)
LEMMA OnlyCalls ==
    ASSUME DirectInv, Typed', OwnActors', Guarded',
           UNCHANGED <<conversation, messages, participant, receipts>>
    PROVE  DirectInv'
  BY DEF DirectInv, Opened, IsRow, SendsActOnce, HiddenUntilSomethingNew

(* A page that is opened, read or left. *)
LEMMA OnlyPages ==
    ASSUME DirectInv, UNCHANGED <<conversation, messages, participant, receipts, asked, tx>>,
           DOMAIN pages' = Reads,
           \A r \in Reads : pages'[r] # NoCommand => pages'[r].reader \in Accounts
    PROVE  DirectInv'
<1>1. Typed'
  BY DEF DirectInv, Typed
<1>2. OwnActors'
  BY DEF DirectInv, OwnActors
<1>3. Guarded'
  BY DEF DirectInv, Guarded, Permitted
<1> QED  BY <1>1, <1>2, <1>3, OnlyCalls

LEMMA Transactions ==
    ASSUME NEW x \in Transaction
    PROVE  x # NoCommand
  BY NoCommandAssumption DEF Transaction

LEMMA ReceiptsAreSome ==
    ASSUME NEW i \in Nat, NEW m \in Message
    PROVE  [sequence |-> i, text |-> ~ m.removed] # NoCommand
<1>1. (~ m.removed) \in BOOLEAN
  BY DEF Message
<1>2. [sequence |-> i, text |-> ~ m.removed] \in [sequence : Nat, text : BOOLEAN]
  BY <1>1, Zenon
<1> QED  BY <1>2, NoCommandAssumption, Zenon

(* A request arrives: it has checked nothing yet. *)
LEMMA ArrivalKeeps ==
    ASSUME DirectInv, NEW t \in Calls, NEW q \in RequestIds, tx[t] = NoCommand, Under(t, q),
           asked'[q] # NoCommand, DOMAIN asked' = RequestIds,
           \A p \in RequestIds : asked'[p] # NoCommand => asked'[p].actor \in Accounts,
           \A p \in RequestIds : asked[p] # NoCommand => asked'[p] # NoCommand,
           UNCHANGED <<conversation, messages, participant, receipts, pages>>
    PROVE  DirectInv'
<1> DEFINE x == [request |-> q, permitted |-> FALSE, count |-> Len(messages)]
<1>1. x \in Transaction
  BY DEF DirectInv, Typed, Transaction
<1>2. tx' = [tx EXCEPT ![t] = x]
  BY DEF Under
<1> HIDE DEF x
<1>3. Typed'
  BY <1>1, <1>2 DEF DirectInv, Typed
<1>4. x.request = q /\ ~ x.permitted
  BY DEF x
<1>5. OwnActors'
  BY <1>2, <1>4 DEF DirectInv, Typed, OwnActors, Transaction
<1>6. \A u \in Calls : Permitted(u)' => Permitted(u) /\ tx'[u] = tx[u]
  BY <1>2, <1>4 DEF DirectInv, Typed, Permitted
<1>7. Guarded'
  BY <1>6 DEF DirectInv, Guarded
<1> QED  BY <1>3, <1>5, <1>7, OnlyCalls

(* A transaction ends. *)
LEMMA EndKeeps ==
    ASSUME DirectInv, NEW t \in Calls, tx' = [tx EXCEPT ![t] = NoCommand]
    PROVE  /\ tx' \in [Calls -> Transaction \cup {NoCommand}]
           /\ \A u \in Calls : tx'[u] # NoCommand => tx'[u] = tx[u] /\ u # t
  BY DEF DirectInv, Typed

LEMMA RollBackKeeps ==
    ASSUME DirectInv, NEW t \in Calls, tx' = [tx EXCEPT ![t] = NoCommand],
           UNCHANGED <<conversation, messages, participant, receipts, asked, pages>>
    PROVE  DirectInv'
<1>1. Typed'
  BY EndKeeps DEF DirectInv, Typed
<1>2. OwnActors'
  BY EndKeeps DEF DirectInv, OwnActors
<1>3. Guarded'
  BY EndKeeps DEF DirectInv, Guarded, Permitted
<1> QED  BY <1>1, <1>2, <1>3, OnlyCalls

(* The check of a send, by the only transaction that then has the lock. *)
LEMMA CheckKeeps ==
    ASSUME DirectInv, NEW t \in Calls, Check(t)
    PROVE  DirectInv'
<1> DEFINE y == [tx[t] EXCEPT !.permitted = TRUE, !.count = Len(messages)]
<1>1. CASE receipts[tx[t].request] # NoCommand \/ blocked
  BY <1>1, RollBackKeeps DEF Check
<1>2. CASE ~ (receipts[tx[t].request] # NoCommand \/ blocked)
  <2>1. tx' = [tx EXCEPT ![t] = y]
    BY <1>2 DEF Check
  <2>2. tx[t] \in Transaction /\ Len(messages) \in Nat
    BY DEF Check, DirectInv, Typed
  <2>3. y \in Transaction /\ y.request = tx[t].request /\ y.permitted /\ y.count = Len(messages)
    BY <2>2 DEF Transaction
  <2> HIDE DEF y
  <2>4. UNCHANGED <<conversation, messages, participant, receipts, asked, pages>>
    BY DEF Check
  <2>5. Typed'
    BY <2>1, <2>3, <2>4 DEF DirectInv, Typed
  <2>6. OwnActors'
    BY <2>1, <2>3, <2>4 DEF DirectInv, Typed, OwnActors, Check
  <2>7. \A u \in Calls : Permitted(u)' => u = t
    BY <2>1 DEF DirectInv, Typed, Permitted, Check, Locked
  <2>8. tx'[t] = y
    BY <2>1 DEF DirectInv, Typed
  <2>9. Guarded'
    BY <1>2, <2>3, <2>4, <2>7, <2>8 DEF Guarded
  <2> QED  BY <2>4, <2>5, <2>6, <2>9, OnlyCalls
<1> QED  BY <1>1, <1>2

(* A message is written: by the only transaction that has the lock, with a    *)
(* request that has not acted, in a conversation whose gate is open to it.    *)
LEMMA SendKeeps ==
    ASSUME DirectInv, NEW t \in Calls, Send(t)
    PROVE  DirectInv'
<1> DEFINE q == tx[t].request
           a == asked[q].actor
           n == Len(messages) + 1
           m == [sender |-> a, request |-> q, removed |-> FALSE]
           x == [sequence |-> n, text |-> TRUE]
<1>1. tx[t] \in Transaction /\ Len(messages) \in Nat /\ Permitted(t)
  <2>1. Permitted(t)
    BY DEF Send, Permitted
  <2> QED  BY <2>1 DEF DirectInv, Typed, Permitted
<1>2. q \in RequestIds /\ a \in Accounts
  BY <1>1 DEF DirectInv, OwnActors, Permitted, Transaction
<1>3. receipts[q] = NoCommand /\ tx[t].count = Len(messages)
  BY <1>1 DEF DirectInv, Guarded
<1>4. messages' = Append(messages, m) /\ m \in Message /\ messages \in Seq(Message)
  BY <1>2 DEF Send, Message, DirectInv, Typed
<1>5. /\ messages' \in Seq(Message) /\ Len(messages') = n /\ messages'[n] = m
      /\ DOMAIN messages' = 1..n /\ DOMAIN messages = 1..Len(messages)
      /\ \A i \in DOMAIN messages : messages'[i] = messages[i] /\ messages[i] \in Message
  BY <1>1, <1>4
<1>6. /\ receipts' = [receipts EXCEPT ![q] = x] /\ x \in Receipt
      /\ tx' = [tx EXCEPT ![t] = NoCommand]
      /\ UNCHANGED <<asked, pages>>
  <2>1. x \in Receipt
    BY <1>1 DEF Receipt
  <2> QED  BY <2>1 DEF Send
<1>7. m.sender = a /\ m.request = q /\ ~ m.removed
  OBVIOUS
<1>8. x = [sequence |-> n, text |-> ~ m.removed]
  OBVIOUS
<1>9. \A i \in DOMAIN messages : messages[i].request # q
  <2> SUFFICES ASSUME NEW i \in DOMAIN messages, messages[i].request = q  PROVE FALSE
    OBVIOUS
  <2>1. receipts[q] = [sequence |-> i, text |-> ~ messages[i].removed]
    BY DEF DirectInv, SendsActOnce
  <2>2. i \in Nat /\ messages[i] \in Message
    BY <1>1, <1>5
  <2>3. [sequence |-> i, text |-> ~ messages[i].removed] # NoCommand
    BY <2>2, ReceiptsAreSome
  <2> QED  BY <1>3, <2>1, <2>3
<1>10. UNCHANGED blocked /\ participant' = [b \in Accounts |-> [participant[b] EXCEPT
                         !.hidden = FALSE, !.read = IF a = b THEN n ELSE @]]
  BY DEF Send
<1>11. conversation' =
         CASE conversation.state = "none" -> [state |-> "requested", initiator |-> a]
           [] conversation.state = "requested" /\ conversation.initiator # a ->
                [conversation EXCEPT !.state = "active"]
           [] OTHER -> conversation
  BY DEF Send
<1>12. ~ (conversation.state = "requested" /\ conversation.initiator = a)
  <2> SUFFICES ASSUME conversation.state = "requested", conversation.initiator = a
               PROVE  FALSE
    OBVIOUS
  <2>1. Len(messages) = 1
    BY DEF DirectInv, SendsActOnce
  <2>2. ~ Gate(a, tx[t].count)
    BY DEF Send
  <2> QED  BY <1>3, <2>1, <2>2 DEF Gate
<1> HIDE DEF q, a, n, m, x
<1>13. Typed'
  <2>1. tx' \in [Calls -> Transaction \cup {NoCommand}]
    BY <1>6, EndKeeps
  <2>2. receipts' \in [RequestIds -> Receipt \cup {NoCommand}]
    BY <1>2, <1>6 DEF DirectInv, Typed
  <2>3. DOMAIN participant' = Accounts
    BY <1>10
  <2> QED  BY <1>5, <1>6, <2>1, <2>2, <2>3 DEF DirectInv, Typed
<1>14. OwnActors'
  BY <1>6, EndKeeps DEF DirectInv, OwnActors
<1>15. Guarded'
  BY <1>1, <1>6, EndKeeps DEF DirectInv, Guarded, Permitted
<1>16. Opened'
  BY <1>11 DEF DirectInv, Opened
<1>17. \A b \in Accounts : IsRow(participant[b])' /\ ~ participant'[b].hidden
  <2> SUFFICES ASSUME NEW b \in Accounts
               PROVE  IsRow(participant[b])' /\ ~ participant'[b].hidden
    OBVIOUS
  <2>1. IsRow(participant[b])
    BY DEF DirectInv
  <2>2. participant'[b] = [participant[b] EXCEPT
                             !.hidden = FALSE, !.read = IF a = b THEN n ELSE @]
    BY <1>10
  <2> QED  BY <2>1, <2>2 DEF IsRow
<1>18. conversation'.state = "requested" =>
          Len(messages') = 1 /\ \A i \in DOMAIN messages' :
                                   messages'[i].sender = conversation'.initiator
  <2> SUFFICES ASSUME conversation'.state = "requested"
               PROVE  Len(messages') = 1 /\ \A i \in DOMAIN messages' :
                                   messages'[i].sender = conversation'.initiator
    OBVIOUS
  <2>1. conversation.state = "none" /\ conversation'.initiator = a
    BY <1>11, <1>12 DEF DirectInv, Opened
  <2>2. n = 1
    BY <2>1 DEF DirectInv, Opened, n
  <2> QED  BY <1>5, <1>7, <2>1, <2>2
<1>19. conversation'.state = "active" =>
          \E i \in DOMAIN messages' : messages'[i].sender # conversation'.initiator
  <2> SUFFICES ASSUME conversation'.state = "active"
               PROVE  \E i \in DOMAIN messages' :
                         messages'[i].sender # conversation'.initiator
    OBVIOUS
  <2>1. CASE conversation.state = "active"
    <3>1. conversation' = conversation
      BY <2>1, <1>11
    <3>2. PICK i \in DOMAIN messages : messages[i].sender # conversation.initiator
      BY <2>1 DEF DirectInv, SendsActOnce
    <3>3. i \in DOMAIN messages'
      BY <1>1, <1>5 DEF n
    <3> QED  BY <1>5, <3>1, <3>2, <3>3
  <2>2. CASE conversation.state # "active"
    <3>1. conversation.initiator # a /\ conversation'.initiator = conversation.initiator
      BY <2>2, <1>11, <1>12 DEF DirectInv, Opened
    <3>2. n \in DOMAIN messages'
      BY <1>1, <1>5 DEF n
    <3> QED  BY <1>5, <1>7, <3>1, <3>2
  <2> QED  BY <2>1, <2>2
<1>20. \A i \in DOMAIN messages' : i = n \/ i \in DOMAIN messages
  BY <1>1, <1>5 DEF n
<1>21. ASSUME NEW i \in DOMAIN messages', NEW j \in DOMAIN messages',
              messages'[i].request = messages'[j].request
       PROVE  i = j
  BY <1>5, <1>7, <1>9, <1>20, <1>21 DEF DirectInv, SendsActOnce
<1>22. ASSUME NEW i \in DOMAIN messages'
       PROVE  receipts'[messages'[i].request]
                = [sequence |-> i, text |-> ~ messages'[i].removed]
  <2>1. CASE i = n
    BY <2>1, <1>2, <1>5, <1>6, <1>7, <1>8 DEF DirectInv, Typed
  <2>2. CASE i \in DOMAIN messages
    <3>1. messages'[i] = messages[i] /\ messages[i].request \in RequestIds
      BY <2>2, <1>5 DEF Message
    <3>2. receipts'[messages[i].request] = receipts[messages[i].request]
      BY <2>2, <3>1, <1>6, <1>9 DEF DirectInv, Typed
    <3> QED  BY <2>2, <3>1, <3>2 DEF DirectInv, SendsActOnce
  <2> QED  BY <2>1, <2>2, <1>20
<1>23. SendsActOnce'
  BY <1>18, <1>19, <1>21, <1>22 DEF SendsActOnce
<1>24. HiddenUntilSomethingNew'
  BY <1>17 DEF HiddenUntilSomethingNew
<1> QED  BY <1>13, <1>14, <1>15, <1>16, <1>17, <1>23, <1>24 DEF DirectInv

(* A participant's command: while nobody has the lock, and its receipt is     *)
(* that of no message.                                                        *)
LEMMA ChangeParticipantKeeps ==
    ASSUME DirectInv, NEW t \in Calls, ChangeParticipant(t)
    PROVE  DirectInv'
<1> DEFINE q == tx[t].request
           a == asked[q].actor
           x == [sequence |-> 0, text |-> FALSE]
<1>1. tx[t] \in Transaction /\ tx[t] # NoCommand /\ q \in RequestIds /\ a \in Accounts
  BY DEF ChangeParticipant, DirectInv, Typed, OwnActors, Transaction
<1>2. /\ tx' = [tx EXCEPT ![t] = NoCommand]
      /\ UNCHANGED <<conversation, messages, asked, pages>>
  BY DEF ChangeParticipant
<1>3. CASE receipts[q] # NoCommand
  BY <1>2, <1>3, RollBackKeeps DEF ChangeParticipant
<1>4. CASE receipts[q] = NoCommand
  <2>1. /\ participant' = [participant EXCEPT ![a] = Changed(t, participant[a])]
        /\ receipts' = [receipts EXCEPT ![q] = x] /\ x \in Receipt
    BY <1>4 DEF ChangeParticipant, CommandOf, Receipt
  <2>2. IsRow(participant[a]) /\ Len(messages) \in Nat
    BY <1>1 DEF DirectInv, Typed
  <2>3. LET row == Changed(t, participant[a])
        IN  /\ IsRow(row)
            /\ row.hidden => \/ row.before = Len(messages)
                             \/ participant[a].hidden /\ row.before = participant[a].before
    BY <2>2 DEF Changed, CommandOf, IsRow
  <2> HIDE DEF q, a, x
  <2>4. \A b \in Accounts : participant'[b] = IF b = a THEN Changed(t, participant[a])
                                              ELSE participant[b]
    BY <2>1 DEF DirectInv, Typed
  <2>5. Typed'
    BY <1>1, <1>2, <2>1, EndKeeps DEF DirectInv, Typed
  <2>6. OwnActors'
    BY <1>2, EndKeeps DEF DirectInv, OwnActors
  <2>7. Guarded'
    BY <1>2, EndKeeps DEF Guarded, Permitted, ChangeParticipant, Locked
  <2>8. Opened'
    BY <1>2 DEF DirectInv, Opened
  <2>9. \A b \in Accounts : IsRow(participant[b])'
    BY <2>3, <2>4 DEF DirectInv
  <2>10. HiddenUntilSomethingNew'
    BY <1>2, <2>3, <2>4 DEF DirectInv, HiddenUntilSomethingNew
  <2>11. ASSUME NEW i \in DOMAIN messages
         PROVE  receipts'[messages[i].request]
                  = [sequence |-> i, text |-> ~ messages[i].removed]
    <3>1. i \in Nat /\ messages[i] \in Message
      BY DEF DirectInv, Typed
    <3>2. receipts[messages[i].request] = [sequence |-> i, text |-> ~ messages[i].removed]
      BY DEF DirectInv, SendsActOnce
    <3>3. [sequence |-> i, text |-> ~ messages[i].removed] # NoCommand
      BY <3>1, ReceiptsAreSome
    <3>4. messages[i].request # q /\ messages[i].request \in RequestIds
      BY <1>4, <3>1, <3>2, <3>3 DEF Message, q
    <3> QED  BY <2>1, <3>2, <3>4 DEF DirectInv, Typed
  <2>12. SendsActOnce'
    BY <1>2, <2>11 DEF DirectInv, SendsActOnce
  <2> QED  BY <2>5, <2>6, <2>7, <2>8, <2>9, <2>10, <2>12 DEF DirectInv
<1> QED  BY <1>3, <1>4

(* A message is removed: its receipt loses the text, and no other receipt.    *)
LEMMA RemoveKeeps ==
    ASSUME DirectInv, NEW k \in 1..MaxMessages, RemoveMessage(k)
    PROVE  DirectInv'
<1> DEFINE m == [messages[k] EXCEPT !.removed = TRUE]
<1>1. messages \in Seq(Message) /\ k \in DOMAIN messages
  BY DEF RemoveMessage, DirectInv, Typed
<1>2. messages' = [messages EXCEPT ![k] = m]
  BY DEF RemoveMessage
<1>3. messages[k] \in Message
  BY <1>1
<1>4. m \in Message /\ m.sender = messages[k].sender /\ m.request = messages[k].request
      /\ m.removed
  BY <1>3 DEF Message
<1> HIDE DEF m
<1>5. /\ messages' \in Seq(Message) /\ Len(messages') = Len(messages)
      /\ DOMAIN messages' = DOMAIN messages
      /\ \A i \in DOMAIN messages : messages'[i] = IF i = k THEN m ELSE messages[i]
  BY <1>1, <1>2, <1>4
<1>6. /\ receipts' = [q \in RequestIds |->
                      IF receipts[q] # NoCommand /\ receipts[q].sequence = k
                      THEN [receipts[q] EXCEPT !.text = FALSE] ELSE receipts[q]]
      /\ UNCHANGED <<conversation, participant, asked, tx, pages>>
  BY DEF RemoveMessage
<1>7. \A q \in RequestIds : receipts[q] # NoCommand =>
         /\ receipts[q] \in Receipt
         /\ [receipts[q] EXCEPT !.text = FALSE] = [sequence |-> receipts[q].sequence,
                                                   text |-> FALSE]
  <2> SUFFICES ASSUME NEW q \in RequestIds, receipts[q] # NoCommand
               PROVE  /\ receipts[q] \in Receipt
                      /\ [receipts[q] EXCEPT !.text = FALSE]
                            = [sequence |-> receipts[q].sequence, text |-> FALSE]
    OBVIOUS
  <2>1. receipts[q] \in Receipt
    BY DEF DirectInv, Typed
  <2> DEFINE x == [receipts[q] EXCEPT !.text = FALSE]
  <2>2. x \in Receipt /\ x.sequence = receipts[q].sequence /\ x.text = FALSE
    BY <2>1 DEF Receipt
  <2> HIDE DEF x
  <2>3. PICK i \in Nat, b \in BOOLEAN : x = [sequence |-> i, text |-> b]
    BY <2>2 DEF Receipt
  <2>4. x = [sequence |-> receipts[q].sequence, text |-> FALSE]
    BY <2>2, <2>3
  <2> QED  BY <2>1, <2>4 DEF x
<1>8. receipts' \in [RequestIds -> Receipt \cup {NoCommand}]
  BY <1>6, <1>7 DEF DirectInv, Typed, Receipt
<1>9. Typed'
  BY <1>5, <1>6, <1>8 DEF DirectInv, Typed
<1>10. OwnActors' /\ Opened'
  <2>1. messages = <<>> => messages' = <<>>
    BY <1>1
  <2> QED  BY <1>6, <2>1 DEF DirectInv, OwnActors, Opened
<1>11. Guarded'
  <2>1. \A q \in RequestIds : receipts[q] = NoCommand => receipts'[q] = NoCommand
    BY <1>6
  <2>2. \A t \in Calls : Permitted(t) => tx[t].request \in RequestIds
    BY DEF DirectInv, Typed, Permitted, Transaction
  <2> QED  BY <1>5, <1>6, <2>1, <2>2 DEF DirectInv, Guarded, Permitted
<1>12. \A i \in DOMAIN messages : /\ messages'[i].sender = messages[i].sender
                                  /\ messages'[i].request = messages[i].request
  BY <1>4, <1>5
<1>13. ASSUME NEW i \in DOMAIN messages
       PROVE  receipts'[messages'[i].request]
                = [sequence |-> i, text |-> ~ messages'[i].removed]
  <2> DEFINE q == messages[i].request
  <2>0. i \in Nat /\ messages[i] \in Message
    BY <1>1
  <2>1. i \in Nat /\ messages[i] \in Message /\ q \in RequestIds
    BY <2>0 DEF Message
  <2>2. receipts[q] = [sequence |-> i, text |-> ~ messages[i].removed]
    BY DEF DirectInv, SendsActOnce
  <2>3. [sequence |-> i, text |-> ~ messages[i].removed] # NoCommand
    BY <2>1, ReceiptsAreSome
  <2>4. messages'[i].request = q
    BY <1>12
  <2>5. receipts[q] # NoCommand /\ receipts[q].sequence = i
    BY <2>2, <2>3
  <2> HIDE DEF q
  <2>6. CASE i = k
    <3>1. receipts'[q] = [sequence |-> i, text |-> FALSE]
      BY <2>1, <2>5, <2>6, <1>6, <1>7
    <3>2. messages'[i].removed
      BY <2>6, <1>4, <1>5
    <3> QED  BY <2>4, <3>1, <3>2
  <2>7. CASE i # k
    BY <2>1, <2>2, <2>4, <2>5, <2>7, <1>5, <1>6
  <2> QED  BY <2>6, <2>7
<1>14. SendsActOnce'
  BY <1>5, <1>6, <1>12, <1>13 DEF DirectInv, SendsActOnce
<1>15. HiddenUntilSomethingNew' /\ \A a \in Accounts : IsRow(participant[a])'
  BY <1>5, <1>6 DEF DirectInv, HiddenUntilSomethingNew
<1> QED  BY <1>9, <1>10, <1>11, <1>14, <1>15 DEF DirectInv

(* The answer of a page, and the mark that it may make.                       *)
LEMMA ApplyKeeps ==
    ASSUME DirectInv, NEW r \in Reads, Apply(r)
    PROVE  DirectInv'
<1>1. /\ pages' = [pages EXCEPT ![r] = NoCommand]
      /\ UNCHANGED <<conversation, messages, participant, receipts, blocked, tx>>
  BY DEF Apply
<1>2. pages[r].reader \in Accounts
  BY DEF Apply, DirectInv, OwnActors
<1>3. \/ asked' = asked
      \/ \E q \in RequestIds : \E latest : asked' = [asked EXCEPT
             ![q] = Command(pages[r].reader, "read", latest)] /\ asked[q] = NoCommand
  BY DEF Apply
<1>4. Typed'
  BY <1>1, <1>3 DEF DirectInv, Typed
<1>5. \A q \in RequestIds : /\ asked'[q] # NoCommand => asked'[q].actor \in Accounts
                            /\ asked[q] # NoCommand => asked'[q] # NoCommand
  BY <1>2, <1>3 DEF DirectInv, Typed, OwnActors, Command
<1>6. OwnActors'
  BY <1>1, <1>5 DEF DirectInv, OwnActors, Typed, Transaction
<1>7. Guarded'
  BY <1>1 DEF DirectInv, Guarded, Permitted
<1> QED  BY <1>1, <1>4, <1>6, <1>7, OnlyCalls

-----------------------------------------------------------------------------
LEMMA WriteKeeps ==
    ASSUME DirectInv, WriteNext
    PROVE  DirectInv'
<1>1. ASSUME NEW t \in Calls, NEW q \in RequestIds, ArriveAgain(t, q)  PROVE DirectInv'
  BY <1>1, ArrivalKeeps DEF ArriveAgain, DirectInv, Typed, OwnActors
<1>2. ASSUME NEW t \in Calls, NEW q \in RequestIds, NEW a \in Accounts, NEW kind \in Kinds,
             Arrive(t, q, a, kind)
      PROVE  DirectInv'
  <2>1. Command(a, kind, 0) # NoCommand /\ Command(a, kind, 0).actor = a
    BY NoCommandAssumption DEF Command
  <2>2. \A p \in RequestIds : asked'[p] = IF p = q THEN Command(a, kind, 0) ELSE asked[p]
    BY <1>2 DEF Arrive, DirectInv, Typed
  <2>3. DOMAIN asked' = RequestIds
    BY <1>2 DEF Arrive, DirectInv, Typed
  <2>4. \A p \in RequestIds : asked'[p] # NoCommand => asked'[p].actor \in Accounts
    BY <2>1, <2>2 DEF DirectInv, OwnActors
  <2> QED  BY <1>2, <2>1, <2>2, <2>3, <2>4, ArrivalKeeps DEF Arrive
<1>3. ASSUME NEW t \in Calls, RollBackCall(t)  PROVE DirectInv'
  BY <1>3, RollBackKeeps DEF RollBackCall
<1>4. ASSUME SetBlocked  PROVE DirectInv'
  <2>1. UNCHANGED <<conversation, messages, participant, receipts, asked, tx, pages>>
    BY <1>4 DEF SetBlocked
  <2>2. Typed' /\ OwnActors' /\ Guarded'
    BY <2>1 DEF DirectInv, Typed, OwnActors, Guarded, Permitted
  <2> QED  BY <2>1, <2>2, OnlyCalls
<1> QED  BY <1>1, <1>2, <1>3, <1>4, CheckKeeps, SendKeeps, ChangeParticipantKeeps,
            RemoveKeeps DEF WriteNext

LEMMA PageKeeps ==
    ASSUME DirectInv, PageNext
    PROVE  DirectInv'
<1>1. ASSUME NEW a \in Accounts, OpenPage(a)  PROVE DirectInv'
  BY <1>1, OnlyPages DEF OpenPage, DirectInv, Typed, OwnActors
<1>2. ASSUME NEW a \in Accounts, ClosePage(a)  PROVE DirectInv'
  BY <1>2, OnlyPages DEF ClosePage, DirectInv, Typed, OwnActors
<1>3. ASSUME NEW r \in Reads, NEW a \in Accounts, NEW mode, NEW before,
             Read(r, a, mode, before)
      PROVE  DirectInv'
  <2>1. DOMAIN pages' = Reads /\ pages'[r].reader = a
    BY <1>3 DEF Read, DirectInv, Typed
  <2>2. \A s \in Reads : s # r => pages'[s] = pages[s]
    BY <1>3 DEF Read, DirectInv, Typed
  <2>3. \A s \in Reads : pages'[s] # NoCommand => pages'[s].reader \in Accounts
    BY <2>1, <2>2 DEF DirectInv, OwnActors
  <2> QED  BY <1>3, <2>1, <2>3, OnlyPages DEF Read
<1>4. ASSUME NEW r \in Reads, LoseRead(r)  PROVE DirectInv'
  BY <1>4, OnlyPages DEF LoseRead, DirectInv, Typed, OwnActors
<1> QED  BY <1>1, <1>2, <1>3, <1>4, ApplyKeeps DEF PageNext, Load, Poll, LoadOlder

LEMMA DirectInvariance == DirectSpec => []DirectInv
<1>1. ASSUME DirectInv, [DirectNext]_directVars  PROVE DirectInv'
  <2>1. CASE UNCHANGED directVars
    BY <1>1, <2>1 DEF directVars, DirectInv, Typed, OwnActors, Guarded, Permitted, Opened,
                      IsRow, SendsActOnce, HiddenUntilSomethingNew
  <2> QED  BY <1>1, <2>1, WriteKeeps, PageKeeps DEF DirectNext
<1> QED  BY <1>1, DirectInitInv, PTL DEF DirectSpec

(* For any two accounts and any number of repeated, concurrent and refused   *)
(* requests, a request sends at most one message, who opened the pair sends  *)
(* one before a reply, and a receipt answers with its message as it now is.  *)
THEOREM SendsOnce == DirectSpec => []SendsActOnce
  BY DirectInvariance, PTL DEF DirectInv

(* However hides, sends and their repetitions interleave, a conversation is  *)
(* hidden only while it has no message that its account did not hide.        *)
THEOREM NothingNewIsHidden == DirectSpec => []HiddenUntilSomethingNew
  BY DirectInvariance, PTL DEF DirectInv

-----------------------------------------------------------------------------
(* Read markers. *)

Step(shown, items, f, i) ==
    IF i = 0 THEN <<>>
    ELSE IF Known(shown, items[i].sequence) THEN f[i - 1] ELSE Append(f[i - 1], items[i])
IsFilter(shown, items, n, f) == f = [i \in 0..n |-> Step(shown, items, f, i)]
Filter(shown, items) == CHOOSE f : IsFilter(shown, items, Len(items), f)

LEMMA UnknownIsFilter ==
    ASSUME NEW shown, NEW items
    PROVE  Unknown(shown, items) = Filter(shown, items)[Len(items)]
  BY DEF Unknown, Filter, IsFilter, Step

LEMMA FilterExists ==
    ASSUME NEW shown, NEW items, NEW k \in Nat
    PROVE  \E f : IsFilter(shown, items, k, f)
<1> DEFINE T == {n \in Nat : ~ \E f : IsFilter(shown, items, n, f)}
<1>1. SUFFICES ASSUME T # {}  PROVE FALSE
  OBVIOUS
<1>2. PICK n \in T : \A m \in T : ~ (m < n)
  BY <1>1, LeastNat
<1>3. CASE n = 0
  <2> DEFINE f == [i \in 0..0 |-> <<>>]
  <2>1. \A i \in 0..0 : Step(shown, items, f, i) = <<>>
    BY DEF Step
  <2>2. IsFilter(shown, items, 0, f)
    BY <2>1 DEF IsFilter
  <2> QED  BY <1>3, <2>2
<1>4. CASE n # 0
  <2>1. n - 1 \in Nat /\ n - 1 \notin T
    BY <1>2, <1>4
  <2>2. PICK g : IsFilter(shown, items, n - 1, g)
    BY <2>1
  <2> DEFINE f == [i \in 0..n |-> IF i = n THEN Step(shown, items, g, n) ELSE g[i]]
  <2>3. ASSUME NEW i \in 0..n  PROVE f[i] = Step(shown, items, f, i)
    <3>1. i # 0 => f[i - 1] = g[i - 1]
      BY <2>1
    <3>2. Step(shown, items, f, i) = Step(shown, items, g, i)
      BY <3>1 DEF Step
    <3>3. CASE i = n
      BY <3>2, <3>3
    <3>4. CASE i # n
      <4>1. i \in 0..(n - 1)
        BY <3>4
      <4>2. g[i] = Step(shown, items, g, i)
        BY <4>1, <2>2 DEF IsFilter
      <4> QED  BY <3>2, <3>4, <4>2
    <3> QED  BY <3>3, <3>4
  <2>4. IsFilter(shown, items, n, f)
    <3> DEFINE s(i) == Step(shown, items, f, i)
    <3>1. f = [i \in 0..n |-> f[i]]
      OBVIOUS
    <3>2. \A i \in 0..n : f[i] = s(i)
      BY <2>3
    <3> HIDE DEF f, s
    <3>3. f = [i \in 0..n |-> s(i)]
      BY <3>1, <3>2
    <3> QED  BY <3>3 DEF IsFilter, s
  <2> QED  BY <2>4
<1> QED  BY <1>3, <1>4

(* What is not known yet is some of the items. *)
LEMMA UnknownItems ==
    ASSUME NEW S, NEW items \in Seq(S), NEW shown
    PROVE  Unknown(shown, items) \in Seq(S)
<1> DEFINE f == Filter(shown, items)
           T == {n \in 0..Len(items) : f[n] \notin Seq(S)}
<1>1. IsFilter(shown, items, Len(items), f)
  BY FilterExists DEF Filter
<1> HIDE DEF f
<1>2. SUFFICES ASSUME T # {}  PROVE FALSE
  BY UnknownIsFilter DEF f
<1>3. PICK n \in T : \A m \in T : ~ (m < n)
  <2>1. T \in SUBSET Nat
    OBVIOUS
  <2> HIDE DEF T
  <2> QED  BY <1>2, <2>1, LeastNat
<1>4. n \in 0..Len(items) /\ f[n] \notin Seq(S)
  OBVIOUS
<1>5. f[n] = Step(shown, items, f, n)
  BY <1>1, <1>4 DEF IsFilter
<1>6. n # 0
  <2>1. <<>> \in Seq(S)
    OBVIOUS
  <2> QED  BY <1>4, <1>5, <2>1, Zenon DEF Step
<1>7. n - 1 \in 0..Len(items) /\ n - 1 < n
  BY <1>4, <1>6
<1>8. f[n - 1] \in Seq(S) /\ items[n] \in S
  BY <1>3, <1>4, <1>6, <1>7
<1>9. Append(f[n - 1], items[n]) \in Seq(S)
  BY <1>8
<1> QED  BY <1>4, <1>5, <1>6, <1>8, <1>9, Zenon DEF Step

-----------------------------------------------------------------------------
ItemsOf(S) == [sequence : S, removed : BOOLEAN]

(* What is shown to an account was given to it. *)
Shows(a) == /\ screen[a].shown \in Seq(ItemsOf(given[a]))
            /\ screen[a].oldest \in 0..Len(messages)

PageOK(p) == /\ p.page.items \in Seq(ItemsOf(1..Len(messages)))
             /\ p.page.oldest \in 0..Len(messages)
             /\ p.read \in Nat /\ p.mode \in {"reset", "older", "newer"}

(* What is given, marked or on its way to a page are messages of the         *)
(* conversation, and a mark on its way names one that was given.             *)
MarksFollow ==
    /\ DOMAIN given = Accounts /\ DOMAIN screen = Accounts
    /\ \A a \in Accounts : given[a] \subseteq 1..Len(messages)
    /\ \A a \in Accounts : participant[a].read \in 0..Len(messages)
    /\ \A q \in RequestIds : asked[q] # NoCommand /\ asked[q].kind = "read" =>
                                asked[q].sequence \in given[asked[q].actor]
    /\ \A a \in Accounts : screen[a] # NoCommand => Shows(a)
    /\ \A r \in Reads : pages[r] # NoCommand => Shows(pages[r].reader) /\ PageOK(pages[r])

MarkInv == DirectInv /\ MarksFollow /\ MarkersWereGiven

LEMMA MoreItems ==
    ASSUME NEW S, NEW T, S \subseteq T, NEW s \in Seq(ItemsOf(S))
    PROVE  s \in Seq(ItemsOf(T))
<1>1. ItemsOf(S) \subseteq ItemsOf(T)
  BY DEF ItemsOf
<1> QED  BY <1>1

LEMMA InitMarks == DirectInit => MarkInv
<1> SUFFICES ASSUME DirectInit  PROVE MarkInv
  OBVIOUS
<1>1. MarksFollow /\ MarkersWereGiven
  BY DEF DirectInit, MarksFollow, MarkersWereGiven
<1> QED  BY <1>1, DirectInitInv DEF MarkInv

(* What a step that leaves the pages alone has to keep. *)
LEMMA SamePages ==
    ASSUME MarkInv, DirectInv', Len(messages) <= Len(messages'),
           \A a \in Accounts : participant'[a].read \in 0..Len(messages'),
           \A q \in RequestIds : asked'[q] = asked[q] \/ asked'[q].kind # "read",
           UNCHANGED <<screen, pages, given>>
    PROVE  MarksFollow'
<1>1. Len(messages) \in Nat /\ Len(messages') \in Nat
  BY DEF MarkInv, DirectInv, Typed
<1>2. 0..Len(messages) \subseteq 0..Len(messages') /\ 1..Len(messages) \subseteq 1..Len(messages')
  BY <1>1
<1>3. \A a \in Accounts : given'[a] \subseteq 1..Len(messages')
  BY <1>2 DEF MarkInv, MarksFollow
<1>4. ASSUME NEW a, Shows(a)  PROVE Shows(a)'
  BY <1>2, <1>4 DEF Shows
<1>5. ASSUME NEW r \in Reads, PageOK(pages[r])  PROVE PageOK(pages[r])'
  <2>1. pages[r].page.items \in Seq(ItemsOf(1..Len(messages')))
    BY <1>2, <1>5, MoreItems DEF PageOK
  <2> QED  BY <1>2, <1>5, <2>1 DEF PageOK
<1> QED  BY <1>3, <1>4, <1>5 DEF MarkInv, MarksFollow

LEMMA SendMarks ==
    ASSUME MarkInv, NEW t \in Calls, Send(t), DirectInv'
    PROVE  MarkInv'
<1> DEFINE q == tx[t].request
           a == asked[q].actor
           n == Len(messages) + 1
           m == [sender |-> a, request |-> q, removed |-> FALSE]
<1>1. /\ messages' = Append(messages, m) /\ messages \in Seq(Message)
      /\ \A b \in Accounts : participant'[b].read = IF a = b THEN n ELSE participant[b].read
      /\ UNCHANGED <<blocked, asked, screen, pages, given>>
  <2>1. /\ messages' = Append(messages, m) /\ UNCHANGED <<blocked, asked, screen, pages, given>>
        /\ participant' = [b \in Accounts |-> [participant[b] EXCEPT
                             !.hidden = FALSE, !.read = IF a = b THEN n ELSE @]]
    BY DEF Send
  <2>2. ASSUME NEW b \in Accounts
        PROVE  participant'[b].read = IF a = b THEN n ELSE participant[b].read
    <3>1. IsRow(participant[b])
      BY DEF MarkInv, DirectInv
    <3> HIDE DEF a, n
    <3> QED  BY <2>1, <3>1 DEF IsRow
  <2> QED  BY <2>1, <2>2 DEF MarkInv, DirectInv, Typed
<1>2. a \in Accounts /\ q \in RequestIds
  BY DEF Send, MarkInv, DirectInv, OwnActors, Typed, Transaction
<1>3. m \in Message
  BY <1>2 DEF Message
<1>4. /\ Len(messages) \in Nat /\ Len(messages') = n /\ messages'[n].sender = a
      /\ \A i \in 1..Len(messages) : messages'[i] = messages[i]
  BY <1>1, <1>3
<1>5. \A b \in Accounts : participant[b].read \in 0..Len(messages)
  BY DEF MarkInv, MarksFollow
<1>6. MarkersWereGiven'
  <2>1. ASSUME NEW b \in Accounts
        PROVE  \/ participant'[b].read = 0
               \/ messages'[participant'[b].read].sender = b
               \/ participant'[b].read \in given'[b]
    <3>1. CASE a = b
      BY <1>1, <1>4, <3>1
    <3>2. CASE a # b
      BY <1>1, <1>4, <1>5, <3>2 DEF MarkInv, MarkersWereGiven
    <3> QED  BY <3>1, <3>2
  <2> QED  BY <2>1 DEF MarkersWereGiven
<1>7. \A b \in Accounts : participant'[b].read \in 0..Len(messages')
  BY <1>1, <1>4, <1>5
<1>8. MarksFollow'
  BY <1>1, <1>4, <1>7, SamePages
<1> QED  BY <1>6, <1>8 DEF MarkInv

LEMMA ParticipantMarks ==
    ASSUME MarkInv, NEW t \in Calls, ChangeParticipant(t), DirectInv'
    PROVE  MarkInv'
<1> DEFINE c == CommandOf(t)
           a == c.actor
<1>1. UNCHANGED <<messages, asked, screen, pages, given>>
  BY DEF ChangeParticipant
<1>2. a \in Accounts /\ Len(messages) \in Nat
  BY DEF ChangeParticipant, CommandOf, MarkInv, DirectInv, OwnActors, Typed, Transaction
<1>3. c.kind = "read" => c.sequence \in given[a] /\ given[a] \subseteq 1..Len(messages)
  BY <1>2 DEF ChangeParticipant, CommandOf, MarkInv, DirectInv, MarksFollow, OwnActors, Typed, Transaction
<1>4. \A b \in Accounts : /\ b # a => participant'[b] = participant[b]
                          /\ b = a => \/ participant'[b] = participant[b]
                                      \/ participant'[b] = Changed(t, participant[a])
  BY DEF ChangeParticipant, MarkInv, DirectInv, Typed
<1>5. LET row == participant[a]
      IN  \/ Changed(t, row).read = row.read
          \/ c.kind = "read" /\ Changed(t, row).read = c.sequence
  <2>1. IsRow(participant[a])
    BY <1>2 DEF MarkInv, DirectInv
  <2> QED  BY <1>2, <1>3, <2>1 DEF Changed, IsRow
<1>6. \A b \in Accounts : \/ participant'[b].read = participant[b].read
                          \/ participant'[b].read \in given[b]
  BY <1>3, <1>4, <1>5
<1>7. \A b \in Accounts : participant'[b].read \in 0..Len(messages')
  BY <1>1, <1>2, <1>6 DEF MarkInv, MarksFollow
<1>8. MarksFollow'
  BY <1>1, <1>2, <1>7, SamePages
<1>9. MarkersWereGiven'
  BY <1>1, <1>6 DEF MarkInv, MarkersWereGiven
<1> QED  BY <1>8, <1>9 DEF MarkInv

LEMMA RemovalMarks ==
    ASSUME MarkInv, NEW n, RemoveMessage(n), DirectInv'
    PROVE  MarkInv'
<1>1. /\ messages' = [messages EXCEPT ![n].removed = TRUE] /\ messages \in Seq(Message)
      /\ UNCHANGED <<participant, asked, screen, pages, given>>
  BY DEF RemoveMessage, MarkInv, DirectInv, Typed
<1>2. Len(messages') = Len(messages) /\ Len(messages) \in Nat
  BY <1>1
<1>3. \A i \in 1..Len(messages) : messages'[i].sender = messages[i].sender
  BY <1>1 DEF Message
<1>4. \A b \in Accounts : participant[b].read \in 0..Len(messages)
  BY DEF MarkInv, MarksFollow
<1>5. MarksFollow'
  BY <1>1, <1>2, <1>4, SamePages
<1>6. MarkersWereGiven'
  BY <1>1, <1>2, <1>3, <1>4 DEF MarkInv, MarkersWereGiven
<1> QED  BY <1>5, <1>6 DEF MarkInv

-----------------------------------------------------------------------------
LEMMA OpenMarks ==
    ASSUME MarkInv, NEW a \in Accounts, OpenPage(a), DirectInv'
    PROVE  MarkInv'
<1>1. /\ screen' = [screen EXCEPT ![a] = NoMessages]
      /\ UNCHANGED <<messages, participant, asked, pages, given>>
  BY DEF OpenPage
<1>2. Len(messages) \in Nat
  BY DEF MarkInv, DirectInv, Typed
<1>3. screen'[a] = NoMessages /\ \A b \in Accounts : b # a => screen'[b] = screen[b]
  BY <1>1 DEF MarkInv, MarksFollow
<1>4. Shows(a)'
  <2>1. screen'[a].shown = <<>> /\ screen'[a].oldest = 0
    BY <1>3 DEF NoMessages
  <2>2. <<>> \in Seq(ItemsOf(given[a]))
    OBVIOUS
  <2>3. screen'[a].oldest \in 0..Len(messages')
    BY <1>1, <1>2, <2>1
  <2> QED  BY <1>1, <2>1, <2>2, <2>3 DEF Shows
<1>5. \A b \in Accounts : b # a /\ Shows(b) => Shows(b)'
  BY <1>1, <1>3 DEF Shows
<1>6. \A r \in Reads : pages'[r] # NoCommand => pages'[r].reader \in Accounts
  BY DEF DirectInv, OwnActors
<1>7. ASSUME NEW r \in Reads, pages'[r] # NoCommand
      PROVE  Shows(pages[r].reader)' /\ PageOK(pages[r])'
  <2>1. Shows(pages[r].reader) /\ PageOK(pages[r])
    BY <1>1, <1>7 DEF MarkInv, MarksFollow
  <2>2. PICK b : b = pages[r].reader
    OBVIOUS
  <2>3. Shows(b)'
    BY <1>1, <1>4, <1>5, <1>6, <1>7, <2>1, <2>2
  <2>4. Shows(pages[r].reader)'
    BY <1>1, <2>2, <2>3 DEF Shows
  <2> QED  BY <1>1, <2>1, <2>4 DEF PageOK
<1>8. MarksFollow'
  BY <1>1, <1>3, <1>4, <1>5, <1>7 DEF MarkInv, MarksFollow
<1>9. MarkersWereGiven'
  BY <1>1 DEF MarkInv, MarkersWereGiven
<1> QED  BY <1>8, <1>9 DEF MarkInv

LEMMA CloseMarks ==
    ASSUME MarkInv, NEW a \in Accounts, ClosePage(a), DirectInv'
    PROVE  MarkInv'
<1>1. /\ screen' = [screen EXCEPT ![a] = NoCommand]
      /\ UNCHANGED <<messages, participant, asked, given>>
  BY DEF ClosePage
<1>2. \A r \in Reads : pages'[r] # NoCommand =>
          pages[r] # NoCommand /\ pages[r].reader # a /\ pages'[r] = pages[r]
  BY DEF ClosePage
<1>3. screen'[a] = NoCommand /\ \A b \in Accounts : b # a => screen'[b] = screen[b]
  BY <1>1 DEF MarkInv, MarksFollow
<1>4. \A b \in Accounts : b # a /\ Shows(b) => Shows(b)'
  BY <1>1, <1>3 DEF Shows
<1>5. ASSUME NEW r \in Reads, pages'[r] # NoCommand
      PROVE  Shows(pages[r].reader)' /\ PageOK(pages[r])'
  <2>1. pages[r].reader # a /\ pages'[r] = pages[r] /\ pages[r].reader \in Accounts
    BY <1>2, <1>5 DEF MarkInv, DirectInv, OwnActors
  <2>2. Shows(pages[r].reader) /\ PageOK(pages[r])
    BY <1>2, <1>5 DEF MarkInv, MarksFollow
  <2> QED  BY <1>1, <1>3, <2>1, <2>2 DEF Shows, PageOK
<1>6. MarksFollow'
  BY <1>1, <1>3, <1>4, <1>5 DEF MarkInv, MarksFollow
<1>7. MarkersWereGiven'
  BY <1>1 DEF MarkInv, MarkersWereGiven
<1> QED  BY <1>6, <1>7 DEF MarkInv

(* A read of a page answers with messages of the conversation.               *)
LEMMA PagesAreTyped ==
    ASSUME MarkInv, NEW before \in 1..(Len(messages) + 1)
    PROVE  /\ PageBefore(before).items \in Seq(ItemsOf(1..Len(messages)))
           /\ PageBefore(before).oldest \in 0..Len(messages)
<1> DEFINE first == IF before > Window THEN before - Window ELSE 1
           item(i) == [sequence |-> first + i - 1, removed |-> messages[first + i - 1].removed]
<1>1. messages \in Seq(Message) /\ Len(messages) \in Nat /\ Window \in Nat \ {0}
  BY DirectMessagesAssumption DEF MarkInv, DirectInv, Typed
<1>2. first \in Nat /\ 1 <= first /\ first <= before /\ (first > 1 => first < before)
  BY <1>1
<1>3. ASSUME NEW i \in 1..(before - first)  PROVE item(i) \in ItemsOf(1..Len(messages))
  <2>1. first + i - 1 \in 1..Len(messages)
    BY <1>1, <1>2
  <2>2. \A k \in 1..Len(messages) : messages[k].removed \in BOOLEAN
    <3>1. \A k \in 1..Len(messages) : messages[k] \in Message
      BY <1>1
    <3> QED  BY <3>1 DEF Message
  <2> DEFINE k == first + i - 1
  <2>3. k \in 1..Len(messages) /\ messages[k].removed \in BOOLEAN
    <3> HIDE DEF first
    <3> QED  BY <2>1, <2>2
  <2>4. item(i) = [sequence |-> k, removed |-> messages[k].removed]
    OBVIOUS
  <2> HIDE DEF first, k, item
  <2> QED  BY <2>3, <2>4 DEF ItemsOf
<1>4. PageBefore(before).items = [i \in 1..(before - first) |-> item(i)]
  BY DEF PageBefore
<1>5. PageBefore(before).oldest = IF first > 1 THEN first ELSE 0
  BY DEF PageBefore
<1>6. before - first \in Nat
  BY <1>2
<1> HIDE DEF first, item
<1>7. [i \in 1..(before - first) |-> item(i)] \in Seq(ItemsOf(1..Len(messages)))
  BY <1>3, <1>6
<1> QED  BY <1>1, <1>2, <1>4, <1>5, <1>7

LEMMA ReadMarks ==
    ASSUME MarkInv, NEW r \in Reads, NEW a \in Accounts, NEW mode \in {"reset", "older", "newer"},
           NEW before \in 1..(Len(messages) + 1), screen[a] # NoCommand,
           Read(r, a, mode, before), DirectInv'
    PROVE  MarkInv'
<1>1. /\ UNCHANGED <<messages, participant, asked, screen, given>>
      /\ pages' = [pages EXCEPT ![r] = [reader |-> a, mode |-> mode,
                      page |-> PageBefore(before), read |-> participant[a].read]]
  BY DEF Read
<1>2. \A s \in Reads : s # r => pages'[s] = pages[s]
  BY <1>1
<1>3. pages'[r].reader = a /\ pages'[r].page = PageBefore(before)
      /\ pages'[r].read = participant[a].read /\ pages'[r].mode = mode
  BY <1>1 DEF MarkInv, DirectInv, Typed
<1>4. participant[a].read \in Nat
  BY DEF MarkInv, MarksFollow
<1>5. Shows(a)
  BY DEF MarkInv, MarksFollow
<1>6. PageOK(pages[r])' /\ Shows(pages[r].reader)'
  BY <1>1, <1>3, <1>4, <1>5, PagesAreTyped DEF PageOK, Shows
<1>7. \A s \in Reads : s # r /\ PageOK(pages[s]) => PageOK(pages[s])'
  BY <1>1, <1>2 DEF PageOK
<1>8. \A s \in Reads : s # r /\ Shows(pages[s].reader) => Shows(pages[s].reader)'
  BY <1>1, <1>2 DEF Shows
<1>9. \A b \in Accounts : Shows(b) => Shows(b)'
  BY <1>1 DEF Shows
<1>10. MarksFollow'
  BY <1>1, <1>2, <1>6, <1>7, <1>8, <1>9 DEF MarkInv, MarksFollow
<1>11. MarkersWereGiven'
  BY <1>1 DEF MarkInv, MarkersWereGiven
<1> QED  BY <1>10, <1>11 DEF MarkInv

LEMMA LoseMarks ==
    ASSUME MarkInv, NEW r \in Reads, LoseRead(r), DirectInv'
    PROVE  MarkInv'
<1>1. /\ UNCHANGED <<messages, participant, asked, screen, given>>
      /\ \A s \in Reads : pages'[s] # NoCommand => pages'[s] = pages[s]
  BY DEF LoseRead, MarkInv, DirectInv, Typed
<1>2. \A a \in Accounts : Shows(a) => Shows(a)'
  BY <1>1 DEF Shows
<1>3. \A s \in Reads : pages'[s] # NoCommand => Shows(pages[s].reader)' /\ PageOK(pages[s])'
  BY <1>1 DEF MarkInv, MarksFollow, Shows, PageOK
<1> QED  BY <1>1, <1>2, <1>3 DEF MarkInv, MarksFollow, MarkersWereGiven

(* What the answer of a page makes of what is shown. *)
LEMMA MergedItems ==
    ASSUME NEW S, NEW shown \in Seq(ItemsOf(S)), NEW items \in Seq(ItemsOf(S)),
           NEW mode \in {"reset", "older", "newer"}
    PROVE  Merged(mode, shown, items) \in Seq(ItemsOf(S))
<1> DEFINE now == [i \in DOMAIN shown |-> IF Known(items, shown[i].sequence)
                                          THEN ItemOf(items, shown[i].sequence) ELSE shown[i]]
<1>1. ASSUME NEW n, Known(items, n)  PROVE ItemOf(items, n) \in ItemsOf(S)
  <2>1. (CHOOSE i \in DOMAIN items : items[i].sequence = n) \in DOMAIN items
    BY <1>1 DEF Known
  <2> QED  BY <2>1 DEF ItemOf
<1>2. \A i \in 1..Len(shown) : now[i] \in ItemsOf(S)
  BY <1>1
<1>3. now = [i \in 1..Len(shown) |-> now[i]] /\ Len(shown) \in Nat
  OBVIOUS
<1>4. Unknown(shown, items) \in Seq(ItemsOf(S))
  BY UnknownItems
<1>5. mode = "newer" => Merged(mode, shown, items) = now \o Unknown(shown, items)
  BY DEF Merged
<1> HIDE DEF now
<1>6. now \in Seq(ItemsOf(S))
  BY <1>2, <1>3
<1>7. now \o Unknown(shown, items) \in Seq(ItemsOf(S))
  BY <1>4, <1>6
<1>8. items \o shown \in Seq(ItemsOf(S))
  OBVIOUS
<1>9. mode # "newer" => Merged(mode, shown, items) \in Seq(ItemsOf(S))
  BY <1>8 DEF Merged
<1> QED  BY <1>5, <1>7, <1>9

LEMMA LastIsThere ==
    ASSUME NEW S, NEW s \in Seq(ItemsOf(S)), s # <<>>
    PROVE  Last(s).sequence \in S
<1>1. Len(s) \in 1..Len(s)
  OBVIOUS
<1>2. s[Len(s)] \in ItemsOf(S)
  BY <1>1
<1> QED  BY <1>2 DEF Last, ItemsOf

LEMMA ApplyMarks ==
    ASSUME MarkInv, NEW r \in Reads, Apply(r), DirectInv'
    PROVE  MarkInv'
<1>1. PICK p, a : p = pages[r] /\ a = pages[r].reader
  OBVIOUS
<1>2. a \in Accounts /\ p # NoCommand /\ Shows(a) /\ PageOK(p)
  BY <1>1 DEF Apply, MarkInv, DirectInv, OwnActors, MarksFollow
<1> DEFINE shown == Merged(p.mode, screen[a].shown, p.page.items)
           latest == IF shown = <<>> THEN 0 ELSE Last(shown).sequence
           now == given[a] \cup {m.sequence : m \in ToSet(p.page.items)}
           marks == latest > screen[a].marked /\ latest > p.read
           row == [shown |-> shown,
                   oldest |-> IF p.mode = "newer" THEN screen[a].oldest ELSE p.page.oldest,
                   populated |-> TRUE,
                   marked |-> IF marks THEN latest ELSE screen[a].marked]
<1>3. /\ screen' = [screen EXCEPT ![a] = row] /\ given' = [given EXCEPT ![a] = now]
      /\ pages' = [pages EXCEPT ![r] = NoCommand]
      /\ UNCHANGED <<messages, participant>>
  BY <1>1 DEF Apply
<1>4. \/ asked' = asked
      \/ latest > p.read /\ \E q \in RequestIds :
                              asked' = [asked EXCEPT ![q] = Command(a, "read", latest)]
  BY <1>1 DEF Apply
<1>5. screen'[a] = row /\ \A b \in Accounts : b # a => screen'[b] = screen[b]
  BY <1>2, <1>3 DEF MarkInv, MarksFollow
<1>6. given'[a] = now /\ \A b \in Accounts : b # a => given'[b] = given[b]
  BY <1>2, <1>3 DEF MarkInv, MarksFollow
<1>7. now \subseteq 1..Len(messages) /\ given[a] \subseteq now
  <2>1. \A m \in ToSet(p.page.items) : m \in ItemsOf(1..Len(messages))
    BY <1>2 DEF PageOK, ToSet
  <2>2. \A m \in ToSet(p.page.items) : m.sequence \in 1..Len(messages)
    BY <2>1 DEF ItemsOf
  <2> QED  BY <1>2, <2>2 DEF MarkInv, MarksFollow
<1>8. shown \in Seq(ItemsOf(now))
  <2>1. screen[a].shown \in Seq(ItemsOf(now))
    BY <1>2, <1>7, MoreItems DEF Shows
  <2>2. p.page.items \in Seq(ItemsOf(now))
    <3>1. p.page.items \in Seq(ItemsOf(1..Len(messages)))
      BY <1>2 DEF PageOK
    <3>2. \A i \in 1..Len(p.page.items) : p.page.items[i] \in ItemsOf(now)
      <4>1. ASSUME NEW i \in 1..Len(p.page.items)  PROVE p.page.items[i] \in ItemsOf(now)
        <5>1. p.page.items[i] \in ItemsOf(1..Len(messages))
          BY <3>1
        <5>2. p.page.items[i] \in ToSet(p.page.items)
          BY <3>1 DEF ToSet
        <5>3. p.page.items[i].sequence \in now
          BY <5>2
        <5> HIDE DEF now
        <5> QED  BY <5>1, <5>3 DEF ItemsOf
      <4> QED  BY <4>1
    <3> HIDE DEF now
    <3> QED  BY <3>1, <3>2
  <2>3. p.mode \in {"reset", "older", "newer"}
    BY <1>1, <1>2 DEF MarkInv, MarksFollow, PageOK
  <2> HIDE DEF now
  <2> QED  BY <2>1, <2>2, <2>3, MergedItems
<1>9. Shows(a)'
  <2>1. screen'[a].shown = shown
    BY <1>5
  <2>2. screen'[a].oldest \in 0..Len(messages')
    BY <1>2, <1>3, <1>5 DEF Shows, PageOK
  <2> HIDE DEF shown, now, row
  <2> QED  BY <1>6, <1>8, <2>1, <2>2 DEF Shows
<1>10. latest > p.read => latest \in now
  <2>1. shown # <<>> => Last(shown).sequence \in now
    <3> HIDE DEF shown, now
    <3> QED  BY <1>8, LastIsThere
  <2>2. p.read \in Nat
    BY <1>2 DEF PageOK
  <2> HIDE DEF shown, now
  <2> QED  BY <2>1, <2>2
<1> HIDE DEF shown, latest, now, row
<1>11. \A b \in Accounts : b # a /\ Shows(b) => Shows(b)'
  BY <1>3, <1>5, <1>6 DEF Shows
<1>12. \A b \in Accounts : given[b] \subseteq given'[b] /\ given'[b] \subseteq 1..Len(messages')
  BY <1>3, <1>6, <1>7 DEF MarkInv, MarksFollow
<1>13. ASSUME NEW q \in RequestIds, asked'[q] # NoCommand, asked'[q].kind = "read"
       PROVE  asked'[q].sequence \in given'[asked'[q].actor]
  <2>1. CASE asked'[q] = asked[q]
    BY <2>1, <1>12, <1>13 DEF MarkInv, MarksFollow, DirectInv, OwnActors
  <2>2. CASE asked'[q] # asked[q]
    <3>1. latest > p.read /\ asked'[q] = Command(a, "read", latest)
      BY <2>2, <1>4 DEF MarkInv, DirectInv, Typed
    <3> QED  BY <3>1, <1>6, <1>10 DEF Command
  <2> QED  BY <2>1, <2>2
<1>14. ASSUME NEW s \in Reads, pages'[s] # NoCommand
       PROVE  Shows(pages[s].reader)' /\ PageOK(pages[s])'
  <2>1. pages'[s] = pages[s]
    BY <1>3, <1>14 DEF MarkInv, DirectInv, Typed
  <2>2. PICK b \in Accounts : b = pages[s].reader
    BY <1>14, <2>1 DEF MarkInv, DirectInv, OwnActors
  <2>3. Shows(b) /\ PageOK(pages[s])
    BY <1>14, <2>1, <2>2 DEF MarkInv, MarksFollow
  <2>4. Shows(b)'
    BY <1>9, <1>11, <2>3
  <2>5. Shows(pages[s].reader)'
    BY <2>1, <2>2, <2>4 DEF Shows
  <2> QED  BY <1>3, <2>1, <2>3, <2>5 DEF PageOK
<1>15. \A b \in Accounts : screen'[b] # NoCommand => Shows(b)'
  BY <1>5, <1>9, <1>11 DEF MarkInv, MarksFollow
<1>16. MarksFollow'
  BY <1>3, <1>12, <1>13, <1>14, <1>15 DEF MarkInv, MarksFollow
<1>17. MarkersWereGiven'
  BY <1>3, <1>12 DEF MarkInv, MarkersWereGiven
<1> QED  BY <1>16, <1>17 DEF MarkInv

LEMMA MarksStep ==
    ASSUME MarkInv, [DirectNext]_directVars
    PROVE  MarkInv'
<1>1. DirectInv'
  <2>1. CASE UNCHANGED directVars
    BY <2>1 DEF MarkInv, directVars, DirectInv, Typed, OwnActors, Guarded, Permitted, Opened,
                IsRow, SendsActOnce, HiddenUntilSomethingNew
  <2> QED  BY <2>1, WriteKeeps, PageKeeps DEF MarkInv, DirectNext
<1>2. \A a \in Accounts : participant[a].read \in 0..Len(messages)
  BY DEF MarkInv, MarksFollow
<1>3. ASSUME UNCHANGED <<messages, participant, screen, pages, given>>,
             \A q \in RequestIds : asked'[q] = asked[q] \/ asked'[q].kind # "read"
      PROVE  MarkInv'
  <2>1. Len(messages) \in Nat
    BY DEF MarkInv, DirectInv, Typed
  <2>2. MarksFollow'
    BY <1>1, <1>2, <1>3, <2>1, SamePages
  <2> QED  BY <1>1, <1>3, <2>2 DEF MarkInv, MarkersWereGiven
<1>4. CASE UNCHANGED directVars
  BY <1>3, <1>4 DEF directVars
<1>5. CASE WriteNext
  <2>1. ASSUME NEW t \in Calls, NEW q \in RequestIds, NEW a \in Accounts, NEW kind \in Kinds,
               Arrive(t, q, a, kind)
        PROVE  MarkInv'
    BY <1>3, <2>1 DEF Arrive, Command, Kinds, MarkInv, DirectInv, Typed
  <2>2. ASSUME NEW t \in Calls, NEW q \in RequestIds, ArriveAgain(t, q)  PROVE MarkInv'
    BY <1>3, <2>2 DEF ArriveAgain
  <2>3. ASSUME NEW t \in Calls, Check(t) \/ RollBackCall(t)  PROVE MarkInv'
    BY <1>3, <2>3 DEF Check, RollBackCall
  <2>4. CASE SetBlocked
    BY <1>3, <2>4 DEF SetBlocked
  <2> QED  BY <1>1, <1>5, <2>1, <2>2, <2>3, <2>4, SendMarks, ParticipantMarks, RemovalMarks
              DEF WriteNext
<1>6. CASE PageNext
  <2>1. Len(messages) \in Nat
    BY DEF MarkInv, DirectInv, Typed
  <2>2. ASSUME NEW r \in Reads, NEW a \in Accounts, Load(r, a) \/ Poll(r, a)
        PROVE  MarkInv'
    BY <1>1, <2>1, <2>2, ReadMarks DEF Load, Poll
  <2>3. ASSUME NEW r \in Reads, NEW a \in Accounts, LoadOlder(r, a)
        PROVE  MarkInv'
    <3>1. screen[a] # NoCommand /\ screen[a].oldest \in 1..(Len(messages) + 1)
      BY <2>1, <2>3 DEF LoadOlder, MarkInv, MarksFollow, Shows
    <3> QED  BY <1>1, <2>3, <3>1, ReadMarks DEF LoadOlder
  <2> QED  BY <1>1, <1>6, <2>2, <2>3, OpenMarks, CloseMarks, ApplyMarks, LoseMarks
              DEF PageNext
<1> QED  BY <1>4, <1>5, <1>6 DEF DirectNext

(* However late, repeated or reordered the marks of pages arrive, and        *)
(* whatever is sent, hidden or removed meanwhile, the read marker of an      *)
(* account ends at a message that it was shown or sent itself.               *)
THEOREM OnlyGivenIsRead == DirectSpec => []MarkersWereGiven
<1>1. MarkInv => MarkersWereGiven
  BY DEF MarkInv
<1> QED  BY <1>1, InitMarks, MarksStep, PTL DEF DirectSpec

-----------------------------------------------------------------------------
(* The agent's connection, its interactions and grants.                     *)

ConnectionShape ==
    /\ connection \in ConnectionRow
    /\ principal \in BOOLEAN
    /\ consents \in [Interactions -> Consent]
    /\ grants \subseteq GrantRow
    /\ requests \in [Requests -> Request]
    /\ handedOut \subseteq grants
    /\ effective \subseteq Interactions
    /\ cut \subseteq effective

Approving == {"record", "provision", "write"}
Resuming == {"check", "build", "point", "spend", "finish"}

FrozenAt(i, generation) == /\ consents[i].decision = "approved"
                           /\ consents[i].granted = generation

GoodRequest(r) ==
    /\ r.step \in Approving \cup Resuming => r.interaction \in Interactions
    /\ r.step \in Approving =>
         /\ connection.version = r.version => connection.generation + 1 = r.generation
    /\ r.step \in {"provision", "write"} \cup Resuming => FrozenAt(r.interaction, r.generation)
    /\ r.step = "write" => principal
    /\ r.step = "revoke" =>
         /\ connection.status # "absent"
         /\ connection.version = r.version =>
              connection.generation = r.generation /\ connection.status = r.status
    /\ r.step \in {"point", "spend", "finish"} =>
         [id |-> r.grant, interaction |-> r.interaction, generation |-> r.generation] \in grants
    /\ r.step = "finish" => /\ consents[r.interaction].resumed
                            /\ consents[r.interaction].grant = r.grant
    /\ r.version <= connection.version

Ledger ==
    /\ \A g \in grants : FrozenAt(g.interaction, g.generation)
    /\ \A g, h \in grants : g.id = h.id => g = h
    /\ \A g \in handedOut : /\ consents[g.interaction].resumed
                            /\ consents[g.interaction].grant = g.id

Reached ==
    /\ \A i \in effective : /\ consents[i].decision = "approved"
                            /\ consents[i].granted <= connection.generation
                            /\ ~ Authorized => consents[i].granted < connection.generation
    /\ \A i \in cut : consents[i].granted < connection.generation
    /\ Authorized => /\ principal
                     /\ \E i \in effective : consents[i].granted = connection.generation

ConnectionInv ==
    /\ ConnectionShape
    /\ \A q \in Requests : GoodRequest(requests[q])
    /\ Ledger
    /\ Reached

-----------------------------------------------------------------------------
(* What follows from the invariant. *)

LEMMA InvGivesFinality == ConnectionInv => DisconnectIsFinal
<1> SUFFICES ASSUME ConnectionInv, NEW g \in handedOut, Admitted(g), g.interaction \in cut
             PROVE  FALSE
    BY DEF DisconnectIsFinal
<1>1. g \in GrantRow /\ FrozenAt(g.interaction, g.generation)
    BY DEF ConnectionInv, ConnectionShape, Ledger
<1>2. g.generation = connection.generation BY DEF Admitted
<1>3. consents[g.interaction].granted < connection.generation BY DEF ConnectionInv, Reached
<1>4. connection.generation \in Nat BY DEF ConnectionInv, ConnectionShape, ConnectionRow
<1>5. QED BY <1>1, <1>2, <1>3, <1>4 DEF FrozenAt

LEMMA InvGivesDecision == ConnectionInv => AuthorizedByDecision
<1> SUFFICES ASSUME ConnectionInv PROVE AuthorizedByDecision
    OBVIOUS
<1>1. ASSUME Authorized
      PROVE  principal /\ \E i \in effective : /\ consents[i].decision = "approved"
                                               /\ consents[i].granted = connection.generation
    BY <1>1 DEF ConnectionInv, Reached
<1>2. ASSUME NEW g \in handedOut, NEW h \in handedOut, g.interaction = h.interaction
      PROVE  g = h
    <2>1. g \in grants /\ h \in grants BY DEF ConnectionInv, ConnectionShape
    <2>2. g.id = h.id BY <1>2 DEF ConnectionInv, Ledger
    <2>3. QED BY <2>1, <2>2 DEF ConnectionInv, Ledger
<1>3. ASSUME NEW g \in handedOut
      PROVE  /\ consents[g.interaction].decision = "approved"
             /\ g.generation = consents[g.interaction].granted
    BY DEF ConnectionInv, ConnectionShape, Ledger, FrozenAt
<1>4. QED BY <1>1, <1>2, <1>3 DEF AuthorizedByDecision

-----------------------------------------------------------------------------
(* What no step takes back. *)
Forward ==
    /\ connection.version <= connection'.version
    /\ connection'.version = connection.version =>
         /\ connection'.generation = connection.generation
         /\ connection.status # "absent" => connection'.status = connection.status
    /\ connection.status # "absent" => connection'.status # "absent"
    /\ principal => principal'
    /\ \A i \in Interactions :
         /\ consents[i].decision = "approved" =>
              /\ consents'[i].decision = "approved"
              /\ consents'[i].granted = consents[i].granted
         /\ consents[i].resumed => /\ consents'[i].resumed
                                   /\ consents'[i].grant = consents[i].grant
    /\ grants \subseteq grants'

SameRows == UNCHANGED <<connection, principal, consents, grants>>

LEMMA SameRowsAreForward == ConnectionShape /\ SameRows => Forward
BY DEF ConnectionShape, ConnectionRow, SameRows, Forward

LEMMA IdleIsRequest == Idle \in Request
BY AgentConnectionsAssumption DEF Idle, Request, Steps

(* The request that steps, in the three ways of stepping. *)
LEMMA BeginSets ==
    ASSUME ConnectionShape, NEW q \in Requests, NEW r \in Request, Begin(q, r)
    PROVE  /\ requests' \in [Requests -> Request]
           /\ requests'[q] = r
           /\ \A p \in Requests \ {q} : requests'[p] = requests[p]
BY DEF ConnectionShape, Begin

LEMMA EndSets ==
    ASSUME ConnectionShape, NEW q \in Requests, End(q)
    PROVE  /\ requests' \in [Requests -> Request]
           /\ requests'[q] = Idle
           /\ \A p \in Requests \ {q} : requests'[p] = requests[p]
BY IdleIsRequest DEF ConnectionShape, End

LEMMA ContinueSets ==
    ASSUME ConnectionShape, NEW q \in Requests, NEW step \in Steps, Continue(q, step)
    PROVE  /\ requests' \in [Requests -> Request]
           /\ requests'[q] = [requests[q] EXCEPT !.step = step]
           /\ \A p \in Requests \ {q} : requests'[p] = requests[p]
<1>1. requests[q] \in Request BY DEF ConnectionShape
<1>2. [requests[q] EXCEPT !.step = step] \in Request BY <1>1 DEF Request
<1>3. QED BY <1>2 DEF ConnectionShape, Continue

LEMMA IdleIsGood ==
    ASSUME ConnectionShape', NEW p \in Requests, requests'[p] = Idle
    PROVE  GoodRequest(requests[p])'
BY DEF ConnectionShape, ConnectionRow, GoodRequest, Idle, Approving, Resuming

LEMMA WaitingIsGood ==
    ASSUME ConnectionInv, ConnectionShape', Forward, NEW p \in Requests, requests'[p] = requests[p]
    PROVE  GoodRequest(requests[p])'
<1> DEFINE r == requests[p]
<1>1. r \in Request /\ GoodRequest(r) BY DEF ConnectionInv, ConnectionShape
<1>2. /\ r.version \in Nat /\ connection.version \in Nat /\ connection'.version \in Nat
      /\ connection.generation \in Nat /\ r.generation \in Nat
    BY <1>1 DEF ConnectionInv, ConnectionShape, ConnectionRow, Request
<1>3. connection'.version = r.version => connection.version = r.version
    BY <1>1, <1>2 DEF GoodRequest, Forward
<1>4. r.version <= connection'.version BY <1>1, <1>2 DEF GoodRequest, Forward
<1>5. ASSUME r.step \in Approving \cup Resuming PROVE r.interaction \in Interactions
    BY <1>1, <1>5 DEF GoodRequest
<1>6. ASSUME r.step \in Approving, connection'.version = r.version
      PROVE  connection'.generation + 1 = r.generation
    BY <1>1, <1>2, <1>3, <1>6 DEF GoodRequest, Forward
<1>7. ASSUME r.step \in {"provision", "write"} \cup Resuming
      PROVE  FrozenAt(r.interaction, r.generation)'
    <2>1. r.interaction \in Interactions BY <1>5, <1>7 DEF Approving
    <2>2. FrozenAt(r.interaction, r.generation) BY <1>1, <1>7 DEF GoodRequest
    <2>3. /\ consents'[r.interaction].decision = "approved"
          /\ consents'[r.interaction].granted = r.generation
        BY <2>1, <2>2 DEF FrozenAt, Forward
    <2>4. requests'[p].interaction = r.interaction /\ requests'[p].generation = r.generation
        OBVIOUS
    <2>5. QED BY <2>3, <2>4 DEF FrozenAt
<1>8. ASSUME r.step = "write" PROVE principal'
    BY <1>1, <1>8 DEF GoodRequest, Forward
<1>9. ASSUME r.step = "revoke"
      PROVE  /\ connection'.status # "absent"
             /\ connection'.version = r.version =>
                  connection'.generation = r.generation /\ connection'.status = r.status
    BY <1>1, <1>2, <1>3, <1>9 DEF GoodRequest, Forward
<1>10. ASSUME r.step \in {"point", "spend", "finish"}
       PROVE  [id |-> r.grant, interaction |-> r.interaction, generation |-> r.generation] \in grants'
    BY <1>1, <1>10 DEF GoodRequest, Forward
<1>11. ASSUME r.step = "finish"
       PROVE  consents'[r.interaction].resumed /\ consents'[r.interaction].grant = r.grant
    <2>1. r.interaction \in Interactions BY <1>5, <1>11 DEF Resuming
    <2>2. consents[r.interaction].resumed /\ consents[r.interaction].grant = r.grant
        BY <1>1, <1>11 DEF GoodRequest
    <2>3. QED BY <2>1, <2>2 DEF Forward
<1>12. QED BY <1>4, <1>5, <1>6, <1>7, <1>8, <1>9, <1>10, <1>11 DEF GoodRequest, FrozenAt

LEMMA LedgerStays ==
    ASSUME ConnectionInv, Forward, UNCHANGED <<grants, handedOut>>
    PROVE  Ledger'
<1>1. \A g \in grants : g.interaction \in Interactions BY DEF ConnectionInv, ConnectionShape, GrantRow
<1>2. handedOut \subseteq grants BY DEF ConnectionInv, ConnectionShape
<1>3. \A g \in grants : FrozenAt(g.interaction, g.generation)'
    BY <1>1 DEF ConnectionInv, Ledger, FrozenAt, Forward
<1>4. \A g \in handedOut : consents'[g.interaction].resumed /\ consents'[g.interaction].grant = g.id
    BY <1>1, <1>2 DEF ConnectionInv, Ledger, Forward
<1>5. QED BY <1>3, <1>4 DEF ConnectionInv, Ledger, FrozenAt

LEMMA ReachedStays ==
    ASSUME ConnectionInv, Forward, UNCHANGED <<effective, cut>>,
           connection'.generation = connection.generation, Authorized' <=> Authorized
    PROVE  Reached'
<1>1. effective \subseteq Interactions /\ cut \subseteq effective BY DEF ConnectionInv, ConnectionShape
<1>2. \A i \in effective : consents[i].decision = "approved" BY DEF ConnectionInv, Reached
<1>3. \A i \in effective : /\ consents'[i].decision = "approved"
                           /\ consents'[i].granted = consents[i].granted
    BY <1>1, <1>2 DEF Forward
<1>4. \A i \in effective : /\ consents'[i].granted <= connection'.generation
                           /\ ~ Authorized' => consents'[i].granted < connection'.generation
    BY <1>3 DEF ConnectionInv, Reached
<1>5. \A i \in cut : consents'[i].granted < connection'.generation
    BY <1>1, <1>3 DEF ConnectionInv, Reached
<1>6. Authorized' => /\ principal'
                     /\ \E i \in effective : consents'[i].granted = connection'.generation
    BY <1>3 DEF ConnectionInv, Reached, Forward
<1>7. QED BY <1>3, <1>4, <1>5, <1>6 DEF Reached

(* The rest of a step of one request. *)
LEMMA OthersAreGood ==
    ASSUME ConnectionInv, ConnectionShape', Forward, NEW q \in Requests,
           \A p \in Requests \ {q} : requests'[p] = requests[p],
           GoodRequest(requests[q])'
    PROVE  \A p \in Requests : GoodRequest(requests[p])'
<1> TAKE p \in Requests
<1>1. CASE p = q BY <1>1
<1>2. CASE p # q BY <1>2, WaitingIsGood
<1>3. QED BY <1>1, <1>2

LEMMA EndsWell ==
    ASSUME ConnectionInv, ConnectionShape', Forward, NEW q \in Requests, End(q)
    PROVE  \A p \in Requests : GoodRequest(requests[p])'
<1>1. requests'[q] = Idle /\ \A p \in Requests \ {q} : requests'[p] = requests[p]
    BY EndSets DEF ConnectionInv
<1>2. GoodRequest(requests[q])' BY <1>1, IdleIsGood
<1>3. QED BY <1>1, <1>2, OthersAreGood

(* A request that only ends disturbs nothing. *)
LEMMA EndingKeeps ==
    ASSUME ConnectionInv, NEW q \in Requests, End(q),
           UNCHANGED <<connection, principal, consents, grants, handedOut, effective, cut>>
    PROVE  ConnectionInv'
<1>1. ConnectionShape' BY EndSets DEF ConnectionInv, ConnectionShape
<1>2. Forward BY SameRowsAreForward DEF ConnectionInv, SameRows
<1>3. Ledger' BY <1>2, LedgerStays
<1>4. Reached' BY <1>2, ReachedStays DEF Authorized
<1>5. QED BY <1>1, <1>2, <1>3, <1>4, EndsWell DEF ConnectionInv

-----------------------------------------------------------------------------
(* Interactions and review pages. *)

LEMMA ConsentsChange ==
    ASSUME ConnectionInv, ConnectionShape', Forward, connection'.generation = connection.generation,
           Authorized' <=> Authorized,
           UNCHANGED <<grants, requests, handedOut, effective, cut>>
    PROVE  ConnectionInv'
<1>1. \A p \in Requests : GoodRequest(requests[p])' BY WaitingIsGood
<1>2. QED BY <1>1, LedgerStays, ReachedStays DEF ConnectionInv

LEMMA OpenKeeps ==
    ASSUME ConnectionInv, NEW i \in Interactions, Open(i)
    PROVE  ConnectionInv'
<1>1. consents[i] \in Consent BY DEF ConnectionInv, ConnectionShape
<1>2. [consents[i] EXCEPT !.opened = TRUE] \in Consent BY <1>1 DEF Consent
<1>3. ConnectionShape' BY <1>2 DEF ConnectionInv, ConnectionShape, Open
<1>4. Forward BY <1>1 DEF ConnectionInv, ConnectionShape, ConnectionRow, Consent, Open, Forward
<1>5. QED BY <1>3, <1>4, ConsentsChange DEF Open, Authorized

LEMMA ArmKeeps ==
    ASSUME ConnectionInv, NEW i \in Interactions, Arm(i)
    PROVE  ConnectionInv'
<1>1. consents[i] \in Consent /\ connection \in ConnectionRow BY DEF ConnectionInv, ConnectionShape
<1>2. [consents[i] EXCEPT !.ticket = @ + 1] \in Consent BY <1>1 DEF Consent
<1>3. connection' \in ConnectionRow BY <1>1 DEF ConnectionRow, Arm
<1>4. ConnectionShape' BY <1>2, <1>3 DEF ConnectionInv, ConnectionShape, Arm
<1>5. Forward BY <1>1 DEF ConnectionInv, ConnectionShape, ConnectionRow, Consent, Arm, Forward
<1>6. connection'.generation = connection.generation /\ (Authorized' <=> Authorized)
    BY <1>1 DEF ConnectionRow, Arm, Authorized
<1>7. QED BY <1>4, <1>5, <1>6, ConsentsChange DEF Arm

LEMMA ExpireKeeps ==
    ASSUME ConnectionInv, NEW i \in Interactions, Expire(i)
    PROVE  ConnectionInv'
<1>1. consents[i] \in Consent BY DEF ConnectionInv, ConnectionShape
<1>2. [consents[i] EXCEPT !.expired = TRUE] \in Consent BY <1>1 DEF Consent
<1>3. ConnectionShape' BY <1>2 DEF ConnectionInv, ConnectionShape, Expire
<1>4. Forward BY <1>1 DEF ConnectionInv, ConnectionShape, ConnectionRow, Consent, Expire, Forward
<1>5. QED BY <1>3, <1>4, ConsentsChange DEF Expire, Authorized

LEMMA DenyKeeps ==
    ASSUME ConnectionInv, NEW i \in Interactions, NEW ticket \in Nat, Deny(i, ticket)
    PROVE  ConnectionInv'
<1>1. consents[i] \in Consent BY DEF ConnectionInv, ConnectionShape
<1>2. [consents[i] EXCEPT !.decision = "denied"] \in Consent BY <1>1 DEF Consent
<1>3. consents[i].decision # "approved" BY AgentConnectionsAssumption DEF Deny, Decidable
<1>4. ConnectionShape' BY <1>2 DEF ConnectionInv, ConnectionShape, Deny
<1>5. Forward BY <1>1, <1>3 DEF ConnectionInv, ConnectionShape, ConnectionRow, Consent, Deny, Forward
<1>6. QED BY <1>4, <1>5, ConsentsChange DEF Deny, Authorized

-----------------------------------------------------------------------------
(* Requests that read and write nothing but what they know. *)

LEMMA ReadingKeeps ==
    ASSUME ConnectionInv, NEW q \in Requests, requests' \in [Requests -> Request],
           \A p \in Requests \ {q} : requests'[p] = requests[p],
           GoodRequest(requests[q])',
           UNCHANGED <<connection, principal, consents, grants, handedOut, effective, cut>>
    PROVE  ConnectionInv'
<1>1. ConnectionShape' BY DEF ConnectionInv, ConnectionShape
<1>2. Forward BY SameRowsAreForward DEF ConnectionInv, SameRows
<1>3. \A p \in Requests : GoodRequest(requests[p])' BY <1>1, <1>2, OthersAreGood
<1>4. Ledger' BY <1>2, LedgerStays
<1>5. Reached' BY <1>2, ReachedStays DEF Authorized
<1>6. QED BY <1>1, <1>3, <1>4, <1>5 DEF ConnectionInv

LEMMA ReadToApproveKeeps ==
    ASSUME ConnectionInv, NEW q \in Requests, NEW i \in Interactions, NEW ticket \in Nat,
           ReadToApprove(q, i, ticket)
    PROVE  ConnectionInv'
<1>1. connection.version \in Nat /\ connection.generation \in Nat
    BY DEF ConnectionInv, ConnectionShape, ConnectionRow
<1>2. PICK next \in Nat : next = connection.generation + 1 BY <1>1
<1> DEFINE r == [Idle EXCEPT !.step = "record", !.interaction = i, !.ticket = ticket,
                             !.version = connection.version, !.generation = next]
<1>3. r \in Request BY <1>1, AgentConnectionsAssumption DEF Idle, Request, Steps
<1>4. Begin(q, r) /\ UNCHANGED <<connection, principal, consents, grants, handedOut, effective, cut>>
    BY <1>2 DEF ReadToApprove
<1>5. /\ requests' \in [Requests -> Request] /\ requests'[q] = r
      /\ \A p \in Requests \ {q} : requests'[p] = requests[p]
    BY <1>3, <1>4 DEF ConnectionInv, ConnectionShape, Begin
<1>6. GoodRequest(requests[q])'
    BY <1>1, <1>2, <1>4, <1>5 DEF GoodRequest, Idle, Approving, Resuming
<1>7. QED BY <1>4, <1>5, <1>6, ReadingKeeps

LEMMA ReadToRevokeKeeps ==
    ASSUME ConnectionInv, NEW q \in Requests, ReadToRevoke(q)
    PROVE  ConnectionInv'
<1> DEFINE r == [Idle EXCEPT !.step = "revoke", !.version = connection.version,
                             !.status = connection.status,
                             !.generation = connection.generation, !.tries = 1]
<1>1. connection \in ConnectionRow BY DEF ConnectionInv, ConnectionShape
<1>2. r \in Request
    BY <1>1, AgentConnectionsAssumption DEF Idle, Request, ConnectionRow, Steps
<1>3. /\ Begin(q, r) /\ connection.status # "absent"
      /\ UNCHANGED <<connection, principal, consents, grants, handedOut, effective, cut>>
    BY DEF ReadToRevoke
<1>4. /\ requests' \in [Requests -> Request] /\ requests'[q] = r
      /\ \A p \in Requests \ {q} : requests'[p] = requests[p]
    BY <1>2, <1>3 DEF ConnectionInv, ConnectionShape, Begin
<1>5. GoodRequest(requests[q])'
    BY <1>1, <1>3, <1>4 DEF GoodRequest, ConnectionRow, Idle, Approving, Resuming
<1>6. QED BY <1>3, <1>4, <1>5, ReadingKeeps

LEMMA ReadToResumeKeeps ==
    ASSUME ConnectionInv, NEW q \in Requests, NEW i \in Interactions, ReadToResume(q, i)
    PROVE  ConnectionInv'
<1> DEFINE r == [Idle EXCEPT !.step = "check", !.interaction = i,
                             !.generation = consents[i].granted]
<1>1. consents[i] \in Consent /\ connection \in ConnectionRow BY DEF ConnectionInv, ConnectionShape
<1>2. r \in Request
    BY <1>1, AgentConnectionsAssumption DEF Idle, Request, Consent, Steps
<1>3. /\ Begin(q, r) /\ consents[i].decision = "approved"
      /\ UNCHANGED <<connection, principal, consents, grants, handedOut, effective, cut>>
    BY DEF ReadToResume
<1>4. /\ requests' \in [Requests -> Request] /\ requests'[q] = r
      /\ \A p \in Requests \ {q} : requests'[p] = requests[p]
    BY <1>2, <1>3 DEF ConnectionInv, ConnectionShape, Begin
<1>5. GoodRequest(requests[q])'
    BY <1>1, <1>3, <1>4 DEF GoodRequest, FrozenAt, ConnectionRow, Idle, Approving, Resuming
<1>6. QED BY <1>3, <1>4, <1>5, ReadingKeeps

LEMMA CheckConnectionKeeps ==
    ASSUME ConnectionInv, NEW q \in Requests, CheckConnection(q)
    PROVE  ConnectionInv'
<1> USE DEF CheckConnection
<1>1. CASE End(q) BY <1>1, EndingKeeps
<1>2. CASE Continue(q, "build")
    <2>1. /\ requests' \in [Requests -> Request]
          /\ requests'[q] = [requests[q] EXCEPT !.step = "build"]
          /\ \A p \in Requests \ {q} : requests'[p] = requests[p]
        BY <1>2, ContinueSets DEF ConnectionInv, Steps
    <2>2. requests[q] \in Request /\ GoodRequest(requests[q]) /\ requests[q].step = "check"
        BY DEF ConnectionInv, ConnectionShape
    <2>3. GoodRequest(requests[q])'
        BY <2>1, <2>2 DEF GoodRequest, FrozenAt, Request, Approving, Resuming
    <2>4. QED BY <2>1, <2>3, ReadingKeeps
<1>3. QED BY <1>1, <1>2

LEMMA DieKeeps ==
    ASSUME ConnectionInv, NEW q \in Requests, Die(q)
    PROVE  ConnectionInv'
BY EndingKeeps DEF Die

-----------------------------------------------------------------------------
(* Requests that approve. *)

LEMMA RecordApprovalKeeps ==
    ASSUME ConnectionInv, NEW q \in Requests, RecordApproval(q)
    PROVE  ConnectionInv'
<1> DEFINE r == requests[q]
<1>1. r \in Request /\ GoodRequest(r) /\ r.step = "record" BY DEF ConnectionInv, ConnectionShape, RecordApproval
<1>2. CASE consents' = consents /\ End(q) BY <1>2, EndingKeeps DEF RecordApproval
<1>3. CASE /\ Decidable(r.interaction, r.ticket) /\ consents' = Approved(q)
           /\ Continue(q, "provision")
    <2>1. r.interaction \in Interactions BY <1>1 DEF GoodRequest, Approving
    <2>2. consents[r.interaction] \in Consent /\ consents[r.interaction].decision = None
        BY <1>3, <2>1 DEF ConnectionInv, ConnectionShape, Decidable
    <2>3. consents' = [consents EXCEPT ![r.interaction] =
                         [@ EXCEPT !.decision = "approved", !.granted = r.generation]]
        BY <1>3, <2>1, <2>2 DEF Approved, ConnectionInv, ConnectionShape, Consent
    <2>4. [consents[r.interaction] EXCEPT !.decision = "approved", !.granted = r.generation] \in Consent
        BY <1>1, <2>2 DEF Consent, Request
    <2>5. /\ requests' \in [Requests -> Request]
          /\ requests'[q] = [r EXCEPT !.step = "provision"]
          /\ \A p \in Requests \ {q} : requests'[p] = requests[p]
        BY <1>3, ContinueSets DEF ConnectionInv, Steps
    <2>6. UNCHANGED <<connection, principal, grants, handedOut, effective, cut>>
        BY DEF RecordApproval
    <2>7. ConnectionShape' BY <2>3, <2>4, <2>5, <2>6 DEF ConnectionInv, ConnectionShape
    <2>8. Forward
        <3>1. \A i \in Interactions :
                 /\ consents[i].decision = "approved" =>
                      /\ consents'[i].decision = "approved"
                      /\ consents'[i].granted = consents[i].granted
                 /\ consents[i].resumed => /\ consents'[i].resumed
                                           /\ consents'[i].grant = consents[i].grant
            BY <2>1, <2>2, <2>3, AgentConnectionsAssumption DEF ConnectionInv, ConnectionShape, Consent
        <3>2. QED BY <2>6, <3>1 DEF ConnectionInv, ConnectionShape, ConnectionRow, Forward
    <2>9. FrozenAt(r.interaction, r.generation)'
        <3>1. consents'[r.interaction].decision = "approved"
            BY <2>1, <2>2, <2>3 DEF ConnectionInv, ConnectionShape, Consent
        <3>2. consents'[r.interaction].granted = r.generation
            BY <2>1, <2>2, <2>3 DEF ConnectionInv, ConnectionShape, Consent
        <3>3. requests'[q].interaction = r.interaction /\ requests'[q].generation = r.generation
            BY <1>1, <2>5 DEF Request
        <3>4. consents'[requests'[q].interaction].decision = "approved"
              /\ consents'[requests'[q].interaction].granted = requests'[q].generation
            BY <3>1, <3>2, <3>3
        <3>5. QED BY <3>1, <3>2, <3>3, <3>4 DEF FrozenAt
    <2>10. GoodRequest(requests[q])'
        BY <1>1, <2>1, <2>5, <2>6, <2>9 DEF GoodRequest, FrozenAt, Request, Approving, Resuming
    <2>11. \A p \in Requests : GoodRequest(requests[p])' BY <2>5, <2>7, <2>8, <2>10, OthersAreGood
    <2>12. QED BY <2>6, <2>7, <2>8, <2>11, LedgerStays, ReachedStays DEF ConnectionInv, Authorized
<1>4. QED BY <1>2, <1>3 DEF RecordApproval

LEMMA ProvisionKeeps ==
    ASSUME ConnectionInv, NEW q \in Requests, Provision(q)
    PROVE  ConnectionInv'
<1>1. CASE principal' = principal /\ End(q) BY <1>1, EndingKeeps DEF Provision
<1>2. CASE principal' = TRUE /\ Continue(q, "write")
    <2>1. /\ requests' \in [Requests -> Request]
          /\ requests'[q] = [requests[q] EXCEPT !.step = "write"]
          /\ \A p \in Requests \ {q} : requests'[p] = requests[p]
        BY <1>2, ContinueSets DEF ConnectionInv, Steps
    <2>2. UNCHANGED <<connection, consents, grants, handedOut, effective, cut>> BY DEF Provision
    <2>3. ConnectionShape' BY <1>2, <2>1, <2>2 DEF ConnectionInv, ConnectionShape
    <2>4. Forward BY <1>2, <2>2 DEF ConnectionInv, ConnectionShape, ConnectionRow, Forward
    <2>5. requests[q] \in Request /\ GoodRequest(requests[q]) /\ requests[q].step = "provision"
        BY DEF ConnectionInv, ConnectionShape, Provision
    <2>6. GoodRequest(requests[q])'
        BY <1>2, <2>1, <2>2, <2>5 DEF GoodRequest, FrozenAt, Request, Approving, Resuming
    <2>7. \A p \in Requests : GoodRequest(requests[p])' BY <2>1, <2>3, <2>4, <2>6, OthersAreGood
    <2>8. QED BY <2>2, <2>3, <2>4, <2>7, LedgerStays, ReachedStays DEF ConnectionInv, Authorized
<1>3. QED BY <1>1, <1>2 DEF Provision

LEMMA WriteApprovalKeeps ==
    ASSUME ConnectionInv, NEW q \in Requests, WriteApproval(q)
    PROVE  ConnectionInv'
<1> DEFINE r == requests[q]
           i == r.interaction
<1>1. /\ r \in Request /\ GoodRequest(r) /\ r.step = "write" /\ End(q)
      /\ UNCHANGED <<principal, consents, grants, handedOut, cut>>
    BY DEF ConnectionInv, ConnectionShape, WriteApproval
<1>2. CASE UNCHANGED <<connection, effective>> BY <1>1, <1>2, EndingKeeps
<1>3. CASE /\ CompareAndSet(r.version, "authorized", r.generation)
           /\ effective' = effective \cup {i}
    <2>1. i \in Interactions /\ FrozenAt(i, r.generation) /\ principal
        BY <1>1 DEF GoodRequest, Approving
    <2>2. /\ connection \in ConnectionRow /\ r.generation \in Nat
          /\ connection.generation + 1 = r.generation
        BY <1>1, <1>3 DEF ConnectionInv, ConnectionShape, Request, GoodRequest, Approving, CompareAndSet
    <2>3. /\ connection' \in ConnectionRow /\ connection'.status = "authorized"
          /\ connection'.generation = r.generation
          /\ connection'.version = connection.version + 1
        <3>1. connection' = [connection EXCEPT !.status = "authorized",
                               !.generation = r.generation, !.version = @ + 1]
            BY <1>3 DEF CompareAndSet
        <3>2. connection' = [status |-> "authorized", generation |-> r.generation,
                             version |-> connection.version + 1, current |-> connection.current]
            BY <2>2, <3>1 DEF ConnectionRow
        <3>3. QED BY <2>2, <3>2 DEF ConnectionRow
    <2>4. requests' \in [Requests -> Request] BY <1>1, EndSets DEF ConnectionInv
    <2>5. ConnectionShape' BY <1>1, <1>3, <2>1, <2>3, <2>4 DEF ConnectionInv, ConnectionShape
    <2>6. Forward BY <1>1, <2>2, <2>3 DEF ConnectionRow, Forward
    <2>7. Reached'
        <3>1. \A j \in effective \cup {i} : /\ consents[j].decision = "approved"
                                           /\ consents[j].granted <= r.generation
            <4>1. \A j \in effective : consents[j] \in Consent BY DEF ConnectionInv, ConnectionShape
            <4>2. QED BY <2>1, <2>2, <4>1 DEF ConnectionInv, Reached, FrozenAt, ConnectionRow, Consent
        <3>2. \A j \in cut : consents[j].granted < r.generation
            <4>1. \A j \in cut : consents[j] \in Consent BY DEF ConnectionInv, ConnectionShape
            <4>2. QED BY <2>2, <4>1 DEF ConnectionInv, Reached, ConnectionRow, Consent
        <3>3. Authorized' BY <2>3 DEF Authorized
        <3>4. \E j \in effective' : consents'[j].granted = connection'.generation
            BY <1>1, <1>3, <2>1, <2>3 DEF FrozenAt
        <3>5. QED BY <1>1, <1>3, <2>1, <2>3, <3>1, <3>2, <3>3, <3>4 DEF Reached
    <2>8. QED BY <1>1, <2>5, <2>6, <2>7, EndsWell, LedgerStays DEF ConnectionInv
<1>4. QED BY <1>2, <1>3 DEF WriteApproval

-----------------------------------------------------------------------------
(* Disconnects. *)

LEMMA WriteRevocationKeeps ==
    ASSUME ConnectionInv, NEW q \in Requests, WriteRevocation(q)
    PROVE  ConnectionInv'
<1> DEFINE r == requests[q]
<1>1. /\ r \in Request /\ GoodRequest(r) /\ r.step = "revoke" /\ connection \in ConnectionRow
      /\ UNCHANGED <<principal, consents, grants, handedOut, effective>>
    BY DEF ConnectionInv, ConnectionShape, WriteRevocation
<1>2. CASE End(q) /\ UNCHANGED <<connection, cut>> BY <1>1, <1>2, EndingKeeps
<1>3. CASE /\ requests' = [requests EXCEPT ![q].version = connection.version,
                                           ![q].status = connection.status,
                                           ![q].generation = connection.generation,
                                           ![q].tries = @ + 1]
           /\ UNCHANGED <<connection, cut>>
    <2> PICK more \in Nat : more = r.tries + 1 BY <1>1 DEF Request
    <2> DEFINE again == [r EXCEPT !.version = connection.version, !.status = connection.status,
                                  !.generation = connection.generation, !.tries = more]
    <2>1. again \in Request BY <1>1 DEF Request, ConnectionRow
    <2>2. requests' = [requests EXCEPT ![q] = again] BY <1>1, <1>3 DEF ConnectionInv, ConnectionShape, Request
    <2>3. /\ requests' \in [Requests -> Request] /\ requests'[q] = again
          /\ \A p \in Requests \ {q} : requests'[p] = requests[p]
        BY <2>1, <2>2 DEF ConnectionInv, ConnectionShape
    <2>4. /\ again.step = "revoke" /\ again.version = connection.version
          /\ again.status = connection.status /\ again.generation = connection.generation
        BY <1>1 DEF Request
    <2>5. connection.status # "absent" BY <1>1 DEF GoodRequest
    <2>6. GoodRequest(requests[q])'
        BY <1>1, <1>3, <2>3, <2>4, <2>5 DEF GoodRequest, ConnectionRow, Approving, Resuming
    <2>7. QED BY <1>1, <1>3, <2>3, <2>6, ReadingKeeps
<1>4. CASE /\ CompareAndSet(r.version, "revoked",
                            IF r.status = "revoked" THEN r.generation ELSE r.generation + 1)
           /\ cut' = effective /\ End(q)
    <2>1. /\ connection.version = r.version /\ connection.generation = r.generation
          /\ connection.status = r.status /\ connection.status # "absent"
        BY <1>1, <1>4 DEF GoodRequest, CompareAndSet
    <2>2. /\ connection' \in ConnectionRow /\ connection'.status = "revoked"
          /\ connection'.version = connection.version + 1
          /\ connection'.generation = IF connection.status = "revoked" THEN connection.generation
                                      ELSE connection.generation + 1
        <3> DEFINE next == IF connection.status = "revoked" THEN connection.generation
                           ELSE connection.generation + 1
        <3>1. next \in Nat BY <1>1 DEF ConnectionRow
        <3>2. connection' = [connection EXCEPT !.status = "revoked", !.generation = next,
                                               !.version = @ + 1]
            BY <1>4, <2>1 DEF CompareAndSet
        <3>3. connection' = [status |-> "revoked", generation |-> next,
                             version |-> connection.version + 1, current |-> connection.current]
            BY <1>1, <3>2 DEF ConnectionRow
        <3>4. QED BY <1>1, <3>1, <3>3 DEF ConnectionRow
    <2>3. ConnectionShape' BY <1>1, <1>4, <2>2, EndSets DEF ConnectionInv, ConnectionShape
    <2>4. Forward BY <1>1, <2>1, <2>2 DEF ConnectionRow, Forward
    <2>5. \A j \in effective : consents[j].granted < connection'.generation
        <3>1. \A j \in effective : consents[j].granted \in Nat BY DEF ConnectionInv, ConnectionShape, Consent
        <3>2. \A j \in effective : consents[j].granted <= connection.generation
            BY DEF ConnectionInv, Reached
        <3>3. CASE connection.status = "revoked"
            <4>1. ~ Authorized BY <3>3 DEF Authorized
            <4>2. QED BY <2>2, <3>3, <4>1 DEF ConnectionInv, Reached
        <3>4. CASE connection.status # "revoked"
            BY <1>1, <2>2, <3>1, <3>2, <3>4 DEF ConnectionRow
        <3>5. QED BY <3>3, <3>4
    <2>6. Reached'
        <3>1. ~ Authorized' BY <2>2 DEF Authorized
        <3>2. \A j \in effective : consents[j].granted \in Nat /\ consents[j].decision = "approved"
            BY DEF ConnectionInv, ConnectionShape, Consent, Reached
        <3>3. \A j \in effective : consents[j].granted <= connection'.generation
            BY <2>2, <2>5, <3>2 DEF ConnectionRow
        <3>4. QED BY <1>1, <1>4, <2>5, <3>1, <3>2, <3>3 DEF Reached
    <2>7. QED BY <1>1, <1>4, <2>3, <2>4, <2>6, EndsWell, LedgerStays DEF ConnectionInv
<1>5. QED BY <1>2, <1>3, <1>4 DEF WriteRevocation

-----------------------------------------------------------------------------
(* Requests that resume. *)

LEMMA BuildGrantKeeps ==
    ASSUME ConnectionInv, NEW q \in Requests, BuildGrant(q)
    PROVE  ConnectionInv'
<1> DEFINE r == requests[q]
<1>1. /\ r \in Request /\ GoodRequest(r) /\ r.step = "build"
      /\ UNCHANGED <<connection, principal, consents, handedOut, effective, cut>>
    BY DEF ConnectionInv, ConnectionShape, BuildGrant
<1>2. PICK g \in Grants \ {x.id : x \in grants} :
         /\ grants' = grants \cup {[id |-> g, interaction |-> r.interaction,
                                    generation |-> r.generation]}
         /\ requests' = [requests EXCEPT ![q].step = "point", ![q].grant = g]
    BY DEF BuildGrant
<1> DEFINE new == [id |-> g, interaction |-> r.interaction, generation |-> r.generation]
           next == [r EXCEPT !.step = "point", !.grant = g]
<1>3. r.interaction \in Interactions /\ FrozenAt(r.interaction, r.generation)
    BY <1>1 DEF GoodRequest, Resuming
<1>4. new \in GrantRow BY <1>1, <1>3 DEF GrantRow, Request
<1>5. next \in Request BY <1>1 DEF Request, Steps
<1>6. requests' = [requests EXCEPT ![q] = next] BY <1>1, <1>2 DEF ConnectionInv, ConnectionShape, Request
<1>7. /\ requests' \in [Requests -> Request] /\ requests'[q] = next
      /\ \A p \in Requests \ {q} : requests'[p] = requests[p]
    BY <1>5, <1>6 DEF ConnectionInv, ConnectionShape
<1>8. ConnectionShape' BY <1>1, <1>2, <1>4, <1>7 DEF ConnectionInv, ConnectionShape
<1>9. Forward BY <1>1, <1>2 DEF ConnectionInv, ConnectionShape, ConnectionRow, Forward
<1>10. GoodRequest(requests[q])'
    <2>1. /\ next.step = "point" /\ next.grant = g /\ next.interaction = r.interaction
          /\ next.generation = r.generation /\ next.version = r.version
        BY <1>1 DEF Request
    <2>2. new \in grants' BY <1>2
    <2>3. QED BY <1>1, <1>3, <1>7, <2>1, <2>2 DEF GoodRequest, FrozenAt, Approving, Resuming
<1>11. Ledger'
    <2>1. \A x \in grants' : FrozenAt(x.interaction, x.generation)
        BY <1>2, <1>3 DEF ConnectionInv, Ledger
    <2>2. \A x \in grants : x.id # g BY <1>2
    <2>3. \A x, y \in grants' : x.id = y.id => x = y
        BY <1>2, <2>2 DEF ConnectionInv, Ledger
    <2>4. QED BY <1>1, <2>1, <2>3 DEF ConnectionInv, Ledger, FrozenAt
<1>12. QED BY <1>1, <1>7, <1>8, <1>9, <1>10, <1>11, OthersAreGood, ReachedStays DEF ConnectionInv, Authorized

LEMMA PointAtGrantKeeps ==
    ASSUME ConnectionInv, NEW q \in Requests, PointAtGrant(q)
    PROVE  ConnectionInv'
<1> DEFINE r == requests[q]
<1>1. CASE connection' = connection /\ End(q) BY <1>1, EndingKeeps DEF PointAtGrant
<1>2. CASE /\ connection' = [connection EXCEPT !.current = r.grant]
           /\ Continue(q, "spend")
    <2>1. /\ r \in Request /\ GoodRequest(r) /\ r.step = "point"
          /\ UNCHANGED <<principal, consents, grants, handedOut, effective, cut>>
        BY DEF ConnectionInv, ConnectionShape, PointAtGrant
    <2>2. /\ requests' \in [Requests -> Request]
          /\ requests'[q] = [r EXCEPT !.step = "spend"]
          /\ \A p \in Requests \ {q} : requests'[p] = requests[p]
        BY <1>2, ContinueSets DEF ConnectionInv, Steps
    <2>3. /\ connection' \in ConnectionRow /\ connection'.version = connection.version
          /\ connection'.generation = connection.generation
          /\ connection'.status = connection.status
        BY <1>2, <2>1 DEF ConnectionInv, ConnectionShape, ConnectionRow, Request
    <2>4. ConnectionShape' BY <2>1, <2>2, <2>3 DEF ConnectionInv, ConnectionShape
    <2>5. Forward BY <2>1, <2>3 DEF ConnectionInv, ConnectionShape, ConnectionRow, Forward
    <2>6. GoodRequest(requests[q])'
        BY <2>1, <2>2, <2>3 DEF GoodRequest, FrozenAt, Request, Approving, Resuming
    <2>7. \A p \in Requests : GoodRequest(requests[p])' BY <2>2, <2>4, <2>5, <2>6, OthersAreGood
    <2>8. QED BY <2>1, <2>3, <2>4, <2>5, <2>7, LedgerStays, ReachedStays DEF ConnectionInv, Authorized
<1>3. QED BY <1>1, <1>2 DEF PointAtGrant

LEMMA SpendConsentKeeps ==
    ASSUME ConnectionInv, NEW q \in Requests, SpendConsent(q)
    PROVE  ConnectionInv'
<1> DEFINE r == requests[q]
           i == r.interaction
<1>1. /\ r \in Request /\ GoodRequest(r) /\ r.step = "spend"
      /\ UNCHANGED <<connection, principal, grants, handedOut, effective, cut>>
    BY DEF ConnectionInv, ConnectionShape, SpendConsent
<1>2. CASE consents' = consents /\ End(q) BY <1>1, <1>2, EndingKeeps
<1>3. CASE ~ consents[i].resumed /\ consents' = Spent(q) /\ Continue(q, "finish")
    <2>1. i \in Interactions /\ FrozenAt(i, r.generation) BY <1>1 DEF GoodRequest, Resuming
    <2>2. consents[i] \in Consent BY <2>1 DEF ConnectionInv, ConnectionShape
    <2>3. consents' = [consents EXCEPT ![i] = [@ EXCEPT !.resumed = TRUE, !.grant = r.grant]]
        BY <1>3, <2>1, <2>2 DEF Spent, ConnectionInv, ConnectionShape, Consent
    <2>4. [consents[i] EXCEPT !.resumed = TRUE, !.grant = r.grant] \in Consent
        BY <1>1, <2>2 DEF Consent, Request
    <2>5. /\ requests' \in [Requests -> Request]
          /\ requests'[q] = [r EXCEPT !.step = "finish"]
          /\ \A p \in Requests \ {q} : requests'[p] = requests[p]
        BY <1>3, ContinueSets DEF ConnectionInv, Steps
    <2>6. ConnectionShape' BY <1>1, <2>3, <2>4, <2>5 DEF ConnectionInv, ConnectionShape
    <2>7. /\ \A j \in Interactions : /\ consents'[j].decision = consents[j].decision
                                     /\ consents'[j].granted = consents[j].granted
                                     /\ j # i => consents'[j] = consents[j]
          /\ consents'[i].resumed /\ consents'[i].grant = r.grant
        BY <2>1, <2>2, <2>3 DEF ConnectionInv, ConnectionShape, Consent
    <2>8. Forward BY <1>1, <1>3, <2>7 DEF ConnectionInv, ConnectionShape, ConnectionRow, Forward
    <2>9. GoodRequest(requests[q])'
        <3>1. /\ requests'[q].step = "finish" /\ requests'[q].interaction = i
              /\ requests'[q].generation = r.generation /\ requests'[q].grant = r.grant
              /\ requests'[q].version = r.version
            BY <1>1, <2>5 DEF Request
        <3>2. consents'[i].decision = "approved" /\ consents'[i].granted = r.generation
            BY <2>1, <2>7 DEF FrozenAt
        <3>3. QED
            BY <1>1, <2>1, <2>7, <3>1, <3>2 DEF GoodRequest, FrozenAt, Approving, Resuming
    <2>10. \A p \in Requests : GoodRequest(requests[p])' BY <2>5, <2>6, <2>8, <2>9, OthersAreGood
    <2>11. QED BY <1>1, <2>6, <2>8, <2>10, LedgerStays, ReachedStays DEF ConnectionInv, Authorized
<1>4. QED BY <1>2, <1>3 DEF SpendConsent

LEMMA HandOutKeeps ==
    ASSUME ConnectionInv, NEW q \in Requests, HandOut(q)
    PROVE  ConnectionInv'
<1> DEFINE r == requests[q]
<1>1. /\ r \in Request /\ GoodRequest(r) /\ r.step = "finish" /\ End(q)
      /\ handedOut' = handedOut \cup {g \in grants : g.id = r.grant}
      /\ UNCHANGED <<connection, principal, consents, grants, effective, cut>>
    BY DEF ConnectionInv, ConnectionShape, HandOut
<1>2. ConnectionShape' BY <1>1, EndSets DEF ConnectionInv, ConnectionShape
<1>3. Forward BY <1>1, SameRowsAreForward DEF ConnectionInv, SameRows
<1>4. Ledger'
    <2> DEFINE mine == [id |-> r.grant, interaction |-> r.interaction, generation |-> r.generation]
    <2>1. mine \in grants BY <1>1 DEF GoodRequest
    <2>2. consents[r.interaction].resumed /\ consents[r.interaction].grant = r.grant
        BY <1>1 DEF GoodRequest
    <2>3. \A g \in grants : g.id = r.grant => g = mine BY <2>1 DEF ConnectionInv, Ledger
    <2>4. \A g \in handedOut' : consents[g.interaction].resumed /\ consents[g.interaction].grant = g.id
        BY <1>1, <2>2, <2>3 DEF ConnectionInv, Ledger
    <2>5. QED BY <1>1, <2>4 DEF ConnectionInv, Ledger, FrozenAt
<1>5. QED BY <1>1, <1>2, <1>3, <1>4, EndsWell, ReachedStays DEF ConnectionInv, Authorized

-----------------------------------------------------------------------------
(* The invariant. *)

LEMMA InitGivesInv == AgentConnectionsInit => ConnectionInv
<1> SUFFICES ASSUME AgentConnectionsInit PROVE ConnectionInv
    OBVIOUS
<1>1. ConnectionShape
    BY IdleIsRequest, AgentConnectionsAssumption
       DEF AgentConnectionsInit, ConnectionShape, ConnectionRow, Consent
<1>2. ASSUME NEW q \in Requests PROVE GoodRequest(requests[q])
    BY DEF AgentConnectionsInit, GoodRequest, Idle, Approving, Resuming
<1>3. Ledger BY DEF AgentConnectionsInit, Ledger
<1>4. Reached BY DEF AgentConnectionsInit, Reached, Authorized
<1>5. QED BY <1>1, <1>2, <1>3, <1>4 DEF ConnectionInv

LEMMA StepKeepsInv == ConnectionInv /\ [AgentConnectionsNext]_connectionVars => ConnectionInv'
<1> SUFFICES ASSUME ConnectionInv, [AgentConnectionsNext]_connectionVars PROVE ConnectionInv'
    OBVIOUS
<1>1. CASE UNCHANGED connectionVars
    <2>1. UNCHANGED <<connection, principal, consents, grants, requests, handedOut, effective, cut>>
        BY <1>1 DEF connectionVars
    <2>2. ConnectionShape' BY <2>1 DEF ConnectionInv, ConnectionShape
    <2>3. Forward BY <2>1, SameRowsAreForward DEF ConnectionInv, SameRows
    <2>4. QED BY <2>1, <2>2, <2>3, ConsentsChange DEF Authorized
<1>2. ASSUME NEW i \in Interactions, Open(i) \/ Arm(i) \/ Expire(i) PROVE ConnectionInv'
    BY <1>2, OpenKeeps, ArmKeeps, ExpireKeeps
<1>3. ASSUME NEW i \in Interactions, NEW ticket \in 1..MaxTickets, Deny(i, ticket) PROVE ConnectionInv'
    BY <1>3, DenyKeeps, AgentConnectionsAssumption
<1>4. ASSUME NEW q \in Requests, NEW i \in Interactions, ReadToResume(q, i) PROVE ConnectionInv'
    BY <1>4, ReadToResumeKeeps
<1>5. ASSUME NEW q \in Requests, NEW i \in Interactions, NEW ticket \in 1..MaxTickets,
             ReadToApprove(q, i, ticket)
      PROVE  ConnectionInv'
    BY <1>5, ReadToApproveKeeps, AgentConnectionsAssumption
<1>6. ASSUME NEW q \in Requests, RequestStep(q) PROVE ConnectionInv'
    BY <1>6, RecordApprovalKeeps, ProvisionKeeps, WriteApprovalKeeps, ReadToRevokeKeeps,
       WriteRevocationKeeps, CheckConnectionKeeps, BuildGrantKeeps, PointAtGrantKeeps,
       SpendConsentKeeps, HandOutKeeps, DieKeeps DEF RequestStep
<1>7. QED BY <1>1, <1>2, <1>3, <1>4, <1>5, <1>6 DEF AgentConnectionsNext

(* The invariant holds in every state a behaviour reaches. *)
THEOREM ConnectionInvariance == AgentConnectionsSpec => []ConnectionInv
<1>1. AgentConnectionsInit => ConnectionInv BY InitGivesInv
<1>2. ConnectionInv /\ [AgentConnectionsNext]_connectionVars => ConnectionInv' BY StepKeepsInv
<1>3. QED BY <1>1, <1>2, PTL DEF AgentConnectionsSpec

(* A disconnect is final: no grant of an approval that had moved the          *)
(* connection before it is admitted after it (ConnectionAuthority.revoke,     *)
(* admitGrant), for any number of requests under way.                         *)
THEOREM Finality == AgentConnectionsSpec => []DisconnectIsFinal
<1>1. ConnectionInv => DisconnectIsFinal BY InvGivesFinality
<1>2. QED BY <1>1, ConnectionInvariance, PTL

(* An authorized connection is one that an approval of just its generation    *)
(* authorized, and an approval becomes one grant at most (decideConsent,      *)
(* resumeInteraction).                                                        *)
THEOREM Decision == AgentConnectionsSpec => []AuthorizedByDecision
<1>1. ConnectionInv => AuthorizedByDecision BY InvGivesDecision
<1>2. QED BY <1>1, ConnectionInvariance, PTL
=============================================================================
