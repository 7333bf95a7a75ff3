------------------------- MODULE UploadManagerProofs -------------------------
(***************************************************************************)
(* The upload manager, for any items, slots, registrations, faults, changes *)
(* of account and saving, and commands.                                     *)
(*                                                                          *)
(* UploadsInv says of the manager between its steps what Core says of it    *)
(* while one of them is taken, when something may be owed or exempted for   *)
(* a moment: slots that are taken over, a timer that is stopped before the  *)
(* phase changes, a copy that is dropped after it.  Each function of the    *)
(* manager has its lemma, for any manager that meets Core; the lemma of an  *)
(* action follows the calls that the action makes.                          *)
(*                                                                          *)
(* No property of the runs is inductive.  That commands stay in their       *)
(* account rests on what the continuations are that send one: each of them  *)
(* has read an item in that account, and a change of account leaves none of *)
(* them with an answer (ThreadOK, DriversOK).  That an item is watched      *)
(* rests on its having an id (RecordOK): nothing polls an item without one. *)
(* Where copies are wanted, and where the reads to detach are, follows the  *)
(* holder (HolderOK).  Slots are counted for the preprocessing too: the     *)
(* counts are part of the types (SlotsOK).                                  *)
(***************************************************************************)
EXTENDS UploadManager, FiniteSetTheorems, WellFoundedInduction, TLAPS

-----------------------------------------------------------------------------
(***************************************************************************)
(* Folds: g is what a fold over S makes of each subset of it, taking c[X]   *)
(* of the set X last.  It exists when every step has a result, in Inv[X],   *)
(* and an invariant of the steps holds of the whole.                        *)
(***************************************************************************)
Less == {ss \in Nat \X Nat : ss[1] < ss[2]}

(* Every set of numbers has a least one. *)
LEMMA LeastNumber ==
  ASSUME NEW T \in SUBSET Nat, T # {}
  PROVE  \E n \in T : \A i \in T : ~ (i < n)
<1>1. IsWellFoundedOn(Less, Nat)
  BY NatLessThanWellFounded DEF OpToRel, Less
<1>2. \A x, y \in Nat : <<x, y>> \in Less <=> x < y
  BY DEF Less
<1>3. \E x \in T : \A y \in T : ~ (<<y, x>> \in Less)
  BY <1>1, WFMin, Zenon
<1> QED BY <1>2, <1>3

(* Among subsets of a finite set one has no proper subset among them. *)
LEMMA SmallestSet ==
  ASSUME NEW S, IsFiniteSet(S), NEW X, X \subseteq SUBSET S, X # {}
  PROVE  \E U \in X : IsFiniteSet(U) /\ \A V \in SUBSET U : V # U => V \notin X
<1> DEFINE sizes == {Cardinality(U) : U \in X}
<1>1. \A U \in X : IsFiniteSet(U) /\ Cardinality(U) \in Nat
  BY FS_Subset, FS_CardinalityType
<1>2. PICK n \in sizes : \A i \in sizes : ~ (i < n)
  <2>1. sizes \in SUBSET Nat /\ sizes # {}
    BY <1>1
  <2> QED BY <2>1, LeastNumber, Zenon
<1>3. PICK U \in X : Cardinality(U) = n
  OBVIOUS
<1>4. ASSUME NEW V \in SUBSET U, V # U, V \in X PROVE FALSE
  <2>1. Cardinality(V) <= Cardinality(U) /\ Cardinality(U) # Cardinality(V)
    BY <1>1, <1>4, FS_Subset
  <2>2. ~ (Cardinality(V) < n)
    BY <1>2, <1>4
  <2> QED BY <2>1, <2>2, <1>1, <1>3, <1>4
<1> QED BY <1>1, <1>4

Rest(X, c) == X \ {c[X]}
StepOf(F, X, c, v) == F[<<c[X], v>>]
Follows(g, S, F, base, c) ==
    g = [X \in SUBSET S |-> IF X = {} THEN base ELSE StepOf(F, X, c, g[Rest(X, c)])]
Chooses(c, S) == \A X \in SUBSET S : X # {} => c[X] \in X

(* What each step keeps, the fold keeps. *)
LEMMA FoldKeeps ==
  ASSUME NEW S, IsFiniteSet(S), NEW c, Chooses(c, S), NEW g, NEW Inv,
         g[{}] \in Inv[{}],
         \A X \in SUBSET S : X # {} /\ g[Rest(X, c)] \in Inv[Rest(X, c)] => g[X] \in Inv[X]
  PROVE  \A X \in SUBSET S : g[X] \in Inv[X]
<1> DEFINE Bad == {V \in SUBSET S : g[V] \notin Inv[V]}
<1>1. SUFFICES ASSUME Bad # {} PROVE FALSE
  OBVIOUS
<1>2. PICK V \in Bad : IsFiniteSet(V) /\ \A W \in SUBSET V : W # V => W \notin Bad
  <2>1. Bad \subseteq SUBSET S
    OBVIOUS
  <2> HIDE DEF Bad
  <2> QED BY <1>1, <2>1, SmallestSet, Zenon
<1>3. V \in SUBSET S /\ V # {}
  OBVIOUS
<1>4. c[V] \in V
  BY <1>3 DEF Chooses
<1>5. Rest(V, c) \in SUBSET V /\ Rest(V, c) # V
  BY <1>4 DEF Rest
<1>6. g[Rest(V, c)] \in Inv[Rest(V, c)]
  BY <1>2, <1>3, <1>5
<1> QED BY <1>2, <1>3, <1>6

(* The recursion on S \ {c[S]} gives that on S. *)
Solved(S, F, base, c) == \E g : Follows(g, S, F, base, c)

LEMMA FoldsAgreeOn ==
  ASSUME NEW S, IsFiniteSet(S), NEW c, NEW F, NEW base, NEW T, NEW a, NEW b,
         Follows(a, S, F, base, c), Follows(b, T, F, base, c), T \subseteq S, Chooses(c, S)
  PROVE  \A X \in SUBSET T : a[X] = b[X]
<1> DEFINE Bad == {V \in SUBSET T : a[V] # b[V]}
<1>1. SUFFICES ASSUME Bad # {} PROVE FALSE
  OBVIOUS
<1>2. PICK V \in Bad : IsFiniteSet(V) /\ \A W \in SUBSET V : W # V => W \notin Bad
  <2>1. Bad \subseteq SUBSET S
    OBVIOUS
  <2> HIDE DEF Bad
  <2> QED BY <1>1, <2>1, SmallestSet, Zenon
<1>3. V \in SUBSET S /\ V \in SUBSET T
  OBVIOUS
<1>4. /\ a[V] = IF V = {} THEN base ELSE StepOf(F, V, c, a[Rest(V, c)])
      /\ b[V] = IF V = {} THEN base ELSE StepOf(F, V, c, b[Rest(V, c)])
  BY <1>3 DEF Follows
<1>5. V # {}
  BY <1>4
<1>6. Rest(V, c) \in SUBSET V /\ Rest(V, c) # V
  BY <1>3, <1>5 DEF Chooses, Rest
<1>7. a[Rest(V, c)] = b[Rest(V, c)]
  BY <1>2, <1>3, <1>6
<1> QED BY <1>4, <1>7

LEMMA FoldSolved ==
  ASSUME NEW S, IsFiniteSet(S), NEW c, Chooses(c, S), NEW F, NEW base
  PROVE  Solved(S, F, base, c)
<1> DEFINE Bad == {V \in SUBSET S : ~ Solved(V, F, base, c)}
<1>1. SUFFICES ASSUME Bad # {} PROVE FALSE
  OBVIOUS
<1>2. PICK V \in Bad : IsFiniteSet(V) /\ \A W \in SUBSET V : W # V => W \notin Bad
  <2>1. Bad \subseteq SUBSET S
    OBVIOUS
  <2> HIDE DEF Bad
  <2> QED BY <1>1, <2>1, SmallestSet, Zenon
<1> DEFINE part(W) == CHOOSE g : Follows(g, W, F, base, c)
<1>3. ASSUME NEW W \in SUBSET V, W # V
      PROVE  Follows(part(W), W, F, base, c) /\ IsFiniteSet(W)
  <2>1. Solved(W, F, base, c)
    BY <1>2, <1>3
  <2> QED BY <2>1, <1>2, FS_Subset DEF Solved
<1> HIDE DEF part
<1> DEFINE R == Rest(V, c)
           all == [X \in SUBSET V |->
                     IF X = {} THEN base
                     ELSE IF X = V THEN StepOf(F, V, c, part(R)[R]) ELSE part(X)[X]]
<1>4. ASSUME NEW X \in SUBSET V
      PROVE  all[X] = IF X = {} THEN base ELSE StepOf(F, X, c, all[Rest(X, c)])
  <2>1. CASE X = {}
    BY <2>1
  <2>2. CASE X # {}
    <3> DEFINE r == Rest(X, c)
    <3>1. c[X] \in X
      BY <2>2, <1>2 DEF Chooses
    <3>2. r \in SUBSET V /\ r # V /\ r # X /\ r \subseteq X
      BY <3>1 DEF Rest
    <3>3. Follows(part(r), r, F, base, c) /\ IsFiniteSet(r)
      BY <1>3, <3>2
    <3>4. all[r] = part(r)[r]
      <4>1. CASE r = {}
        <5>1. part(r)[r] = base
          BY <3>3, <4>1 DEF Follows
        <5> QED BY <4>1, <5>1, <3>2
      <4>2. CASE r # {}
        BY <4>2, <3>2
      <4> QED BY <4>1, <4>2
    <3>5. CASE X = V
      BY <3>5, <3>4, <2>2, <3>2
    <3>6. CASE X # V
      <4>1. Follows(part(X), X, F, base, c) /\ IsFiniteSet(X)
        BY <1>3, <3>6
      <4>2. part(X)[X] = StepOf(F, X, c, part(X)[r])
        BY <4>1, <2>2 DEF Follows
      <4>3. part(X)[r] = part(r)[r]
        <5>1. Chooses(c, X)
          BY <1>2 DEF Chooses
        <5> QED BY <5>1, <4>1, <3>3, <3>2, FoldsAgreeOn
      <4>4. all[X] = part(X)[X]
        BY <2>2, <3>6
      <4> QED BY <4>2, <4>3, <4>4, <3>4, <2>2
    <3> QED BY <3>5, <3>6
  <2> QED BY <2>1, <2>2
<1>5. all = [X \in SUBSET V |-> IF X = {} THEN base ELSE StepOf(F, X, c, all[Rest(X, c)])]
  <2> DEFINE step(X) == IF X = {} THEN base ELSE StepOf(F, X, c, all[Rest(X, c)])
  <2>1. \A X \in SUBSET V : all[X] = step(X)
    BY <1>4
  <2> HIDE DEF step
  <2>2. all = [X \in SUBSET V |-> step(X)]
    BY <2>1
  <2> QED BY <2>2 DEF step
<1>6. Follows(all, V, F, base, c)
  <2> HIDE DEF all
  <2> QED BY <1>5 DEF Follows
<1>7. Solved(V, F, base, c)
  <2> HIDE DEF all
  <2> QED BY <1>6 DEF Solved
<1> QED BY <1>7, <1>2

(* A fold whose every step stays in Inv has a value there, whatever is      *)
(* chosen first.                                                            *)
Within(g, S, Inv) == \A X \in SUBSET S : g[X] \in Inv[X]
Steps(F, S, Inv) == \A X \in SUBSET S : \A x \in X : \A v \in Inv[X \ {x}] : F[<<x, v>>] \in Inv[X]
LEMMA FoldIn ==
  ASSUME NEW S, IsFiniteSet(S), NEW c, Chooses(c, S), NEW F, NEW base, NEW Inv,
         base \in Inv[{}], Steps(F, S, Inv)
  PROVE  \E g : Follows(g, S, F, base, c) /\ Within(g, S, Inv)
<1>1. PICK g : Follows(g, S, F, base, c)
  BY FoldSolved DEF Solved
<1>2. g = [X \in SUBSET S |-> IF X = {} THEN base ELSE F[<<c[X], g[X \ {c[X]}]>>]]
  BY <1>1 DEF Follows, StepOf, Rest
<1>3. g[{}] = base /\ \A X \in SUBSET S : X # {} => g[X] = F[<<c[X], g[X \ {c[X]}]>>]
  BY <1>2
<1>4. \A X \in SUBSET S : X # {} /\ g[Rest(X, c)] \in Inv[Rest(X, c)] => g[X] \in Inv[X]
  BY <1>3 DEF Steps, Chooses, Rest
<1>5. \A X \in SUBSET S : g[X] \in Inv[X]
  BY <1>3, <1>4, FoldKeeps
<1> QED BY <1>1, <1>5 DEF Within

(* What FoldSet and FoldLeft choose. *)
Firsts(S) == [X \in SUBSET S |-> CHOOSE x \in X : TRUE]
LEMMA FirstsChoose == ASSUME NEW S PROVE Chooses(Firsts(S), S)
BY DEF Chooses, Firsts

Lasts(S) == [X \in SUBSET S |-> Max(X)]
LEMMA LastsChoose ==
  ASSUME NEW n \in Nat
  PROVE  Chooses(Lasts(1..n), 1..n) /\ IsFiniteSet(1..n)
<1>1. IsFiniteSet(1..n)
  BY FS_Interval
<1>2. ASSUME NEW X \in SUBSET (1..n), X # {} PROVE Max(X) \in X
  <2> DEFINE up == {i \in 0..n : \A x \in X : x <= i}
  <2>1. PICK i \in up : \A j \in up : ~ (j < i)
    <3>1. n \in up /\ up \in SUBSET Nat
      OBVIOUS
    <3> HIDE DEF up
    <3> QED BY <3>1, LeastNumber
  <2>2. i \in X
    <3>1. SUFFICES ASSUME i \notin X PROVE FALSE
      OBVIOUS
    <3>2. \A x \in X : x \in Nat /\ x <= i /\ x # i
      BY <2>1, <3>1
    <3>3. PICK x \in X : x \in 1..n
      BY <1>2
    <3>4. i # 0
      BY <3>2, <3>3
    <3>5. i - 1 \in up
      BY <2>1, <3>2, <3>4
    <3> HIDE DEF up
    <3>6. i - 1 < i
      BY <2>1, <3>4 DEF up
    <3> QED BY <3>5, <3>6, <2>1
  <2>3. \A y \in X : i >= y
    BY <2>1
  <2> QED BY <2>2, <2>3 DEF Max
<1> QED BY <1>1, <1>2 DEF Chooses, Lasts

-----------------------------------------------------------------------------
(***************************************************************************)
(* What holds of a manager s while one of its steps is being taken.  The    *)
(* step may owe d slots of the preprocessing and e of the transfers; the    *)
(* items W need not be watched, nor the copies C be wanted, just then; the  *)
(* items N have no continuation that sends commands.  The context c tells   *)
(* where items are registered, whether they are being read to be detached,  *)
(* the threads before the step, and items that keep their id.               *)
(***************************************************************************)
State == [status : {"active", "paused"}, reason : {"none", "account", "offline"},
          rec : [Keys -> Record],
          preprocessQueue : Seq(Keys), transferQueue : Seq(Keys \X Roles),
          preprocessing : Nat, transferring : Nat, threads : SUBSET Thread,
          changing : BOOLEAN, saving : BOOLEAN, requests : 0..MaxRegistrations,
          copies : SUBSET Keys]
Typed(s) == s \in State /\ IsFiniteSet(s.threads)

(* Who waits for which call, and the answers there may be.                  *)
Pairs == {<<"prepare", "work">>, <<"prepare", "holder">>, <<"prepare", "register">>,
          <<"register", "holder">>, <<"register", "register">>,
          <<"transfer", "upload">>, <<"settle", "read">>, <<"hash", "work">>,
          <<"restart", "read">>, <<"restart", "reset">>, <<"again", "read">>,
          <<"process", "reset">>, <<"processed", "read">>, <<"poll", "read">>,
          <<"detach", "read">>, <<"cancel", "cancel">>, <<"store", "put">>}
Failures == {"refused", "account", "lost"}
Answers(t) ==
    CASE t.for = "prepare" /\ t.call = "work" -> {"done", "refused", "choice"}
      [] t.for = "hash" -> {"item", "mismatch"}
      [] t.call = "holder" -> {"done"} \cup Failures
      [] t.call = "put" -> {"done", "refused"}
      [] t.for = "detach" -> {"done", "item", "gone", "account", "lost"}
      [] t.call = "read" /\ t.for # "detach" -> {"item", "gone", "account", "lost"}
      [] t.call = "upload" -> {"streaming", "item"} \cup Failures
      [] t.call \in {"register", "reset", "cancel"} -> {"item"} \cup Failures
(* All other calls name an item. *)
Nameless(t) == \/ t.call \in {"holder", "put"}
               \/ t.for = "prepare" /\ t.call = "work"
               \/ t.for = "detach" /\ t.ans.is = "done"
(* A read that looks for what a lost answer left notes the failure; a       *)
(* registration, its holder.                                                *)
Rereads == {"settle", "again", "processed"}
NotesFor(why) == IF why \in Rereads THEN {"failed", "interrupted"} ELSE {"draft", "session"}
Shape(t) ==
    /\ \/ /\ t.for = "nobody" /\ t.call \in Commands /\ ~ t.alive
          /\ t.ans.is \in {"under way", "streaming"}
       \/ <<t.for, t.call>> \in Pairs /\ t.ans.is \in {"under way"} \cup Answers(t)
    /\ t.item = 0 => Nameless(t)
    /\ t.for \notin ActsWhenStale => t.alive
    /\ t.ans.is = "streaming" => t.call = "upload"
    /\ t.for = "hash" => t.ans.is # "under way"
    /\ t.note \in NotesFor(t.for)

(* restart and process send their commands for the account that they read. *)
Drives(t) == t.for \in {"restart", "process"}
IsSent(t) == t.call \in Commands /\ t.ans.is = "under way"
Similar(u, t) == u.call = t.call /\ u.key = t.key /\ u.item = t.item /\ u.role = t.role
ThreadOK(t, N, c) ==
    /\ Shape(t)
    /\ Drives(t) => t.key \notin N /\ (t.ans.is \in {"under way", "item"} => Own)
    /\ t.for = "detach" => c.detaching
    /\ IsSent(t) => Own \/ \E u \in c.sent : Similar(u, t)
ThreadsOK(s, N, c) == \A t \in s.threads : ThreadOK(t, N, c)

Of(s, why) == {t \in s.threads : t.for = why}
SlotsOK(s, d, e) ==
    /\ s.transferring <= TransferConcurrency
    /\ Cardinality(Of(s, "transfer")) + e <= s.transferring
    /\ s.preprocessing <= PreprocessConcurrency
    /\ Cardinality(Of(s, "prepare")) + d <= s.preprocessing

(* An item with such a continuation has an id and keeps it. *)
DriversOK(s) ==
    \A t \in s.threads : Drives(t) =>
        s.rec[t.key].item # 0 /\ \A u \in s.threads : ~ (u.for = "detach" /\ u.key = t.key)

(* Only what is registered has been received, is processed or has failed.   *)
RecordOK(k, x) ==
    /\ (\E r \in RolesOf(k) : x.comps[r] = "received") => x.item # 0
    /\ x.phase \in {"uploaded", "processing"} => x.item # 0
    /\ x.server # "absent" => x.item # 0
RecordsOK(s, c) == \A k \in Keys : RecordOK(k, s.rec[k]) /\ (k \in c.named => s.rec[k].item # 0)

Watched(s, k, c) ==
    s.status = "active" /\ c.holder # "session" /\ s.rec[k].phase \in {"uploaded", "processing"} =>
        \/ s.rec[k].timer
        \/ \E t \in s.threads : t.key = k /\ t.alive /\ t.for \in {"poll", "detach"}
WatchOK(s, W, c) == \A k \in Keys \ W : Watched(s, k, c)

Wanted(s, k, c) ==
    k \in s.copies =>
        \/ \E t \in s.threads : t.key = k /\ t.for = "store" /\ t.ans.is = "done"
        \/ /\ c.holder \in {"draft", "deleting"}
           /\ s.rec[k].phase \notin {"ready", "processing", "cancelled"}
CopiesOK(s, C, c) == \A k \in Keys \ C : Wanted(s, k, c)

HolderOK(s, c) == /\ s.saving <=> c.holder \in {"draft", "deleting", "cleared"}
                  /\ s.changing <=> c.holder \in {"deleting", "cleared", "detaching"}

Core(s, d, e, W, C, N, c) ==
    /\ Typed(s) /\ SlotsOK(s, d, e) /\ ThreadsOK(s, N, c) /\ DriversOK(s) /\ RecordsOK(s, c)
    /\ WatchOK(s, W, c) /\ CopiesOK(s, C, c) /\ HolderOK(s, c)

-----------------------------------------------------------------------------
(* Fields of the manager. *)

LEMMA StateFields ==
  ASSUME NEW s, Typed(s)
  PROVE  /\ s \in State /\ IsFiniteSet(s.threads) /\ s.threads \subseteq Thread
         /\ s.rec \in [Keys -> Record]
         /\ s.transferring \in Nat /\ s.preprocessing \in Nat /\ s.copies \subseteq Keys
         /\ s.preprocessQueue \in Seq(Keys) /\ s.transferQueue \in Seq(Keys \X Roles)
         /\ s.requests \in 0..MaxRegistrations /\ s.status \in {"active", "paused"}
         /\ s.saving \in BOOLEAN /\ s.changing \in BOOLEAN
BY DEF State, Typed

LEMMA ThreadFields ==
  ASSUME NEW t \in Thread
  PROVE  /\ t.key \in Keys /\ t.role \in Roles /\ t.item \in 0..MaxRegistrations
         /\ t.ans \in CallAnswer /\ t.ans.item \in Item /\ t.alive \in BOOLEAN
         /\ t.note \in {"draft", "session", "failed", "interrupted"}
BY DEF Thread, CallAnswer

(* A record replaced, the threads replaced. *)
With(s, k, y) == [s EXCEPT !.rec[k] = y]
Threads(s, T) == [s EXCEPT !.threads = T]

LEMMA WithState ==
  ASSUME NEW s, Typed(s), NEW k \in Keys, NEW y \in Record
  PROVE  Typed(With(s, k, y)) /\ With(s, k, y).rec = [s.rec EXCEPT ![k] = y]
<1> DEFINE rec == [s.rec EXCEPT ![k] = y]
<1>1. s \in State /\ s.rec \in [Keys -> Record]
  BY DEF State, Typed
<1>2. rec \in [Keys -> Record]
  BY <1>1
<1>3. With(s, k, y) = [s EXCEPT !.rec = rec]
  BY DEF With
<1> HIDE DEF rec
<1>4. [s EXCEPT !.rec = rec] \in State
  BY <1>1, <1>2 DEF State
<1>5. [s EXCEPT !.rec = rec].threads = s.threads
  BY <1>1 DEF State
<1>6. [s EXCEPT !.rec = rec].rec = rec
  BY <1>1 DEF State
<1> QED BY <1>3, <1>4, <1>5, <1>6 DEF Typed, rec

LEMMA WithSame ==
  ASSUME NEW s, NEW k, NEW y
  PROVE  LET u == With(s, k, y)
         IN /\ u.status = s.status /\ u.threads = s.threads /\ u.copies = s.copies
            /\ u.saving = s.saving /\ u.changing = s.changing /\ u.requests = s.requests
            /\ u.transferring = s.transferring /\ u.preprocessing = s.preprocessing
            /\ u.transferQueue = s.transferQueue /\ u.preprocessQueue = s.preprocessQueue
            /\ u.reason = s.reason
BY DEF With

LEMMA ThreadsState ==
  ASSUME NEW s, Typed(s), NEW T, IsFiniteSet(T), T \subseteq Thread
  PROVE  Typed(Threads(s, T)) /\ Threads(s, T).threads = T
<1>1. s \in State
  BY DEF Typed
<1>2. Threads(s, T) \in State
  BY <1>1 DEF State, Threads
<1>3. Threads(s, T).threads = T
  BY <1>1 DEF State, Threads
<1> QED BY <1>2, <1>3 DEF Typed

LEMMA ThreadsSame ==
  ASSUME NEW s, NEW T
  PROVE  LET u == Threads(s, T)
         IN /\ u.status = s.status /\ u.rec = s.rec /\ u.copies = s.copies
            /\ u.saving = s.saving /\ u.changing = s.changing /\ u.requests = s.requests
            /\ u.transferring = s.transferring /\ u.preprocessing = s.preprocessing
            /\ u.transferQueue = s.transferQueue /\ u.preprocessQueue = s.preprocessQueue
BY DEF Threads

-----------------------------------------------------------------------------
(* Steps on what holds, one kind of change at a time. *)

(* Less may be owed, more exempted. *)
LEMMA Weaken ==
  ASSUME NEW s, NEW d, NEW e, NEW W, NEW C, NEW N, NEW c, Core(s, d, e, W, C, N, c),
         NEW d2 \in Nat, NEW e2 \in Nat, d \in Nat, e \in Nat, d2 <= d, e2 <= e,
         NEW W2, NEW C2, NEW N2, Keys \ W2 \subseteq Keys \ W, Keys \ C2 \subseteq Keys \ C,
         N2 \subseteq N
  PROVE  Core(s, d2, e2, W2, C2, N2, c)
<1>1. Typed(s) /\ SlotsOK(s, d, e) /\ ThreadsOK(s, N, c) /\ DriversOK(s) /\ RecordsOK(s, c)
      /\ WatchOK(s, W, c) /\ CopiesOK(s, C, c) /\ HolderOK(s, c)
  BY DEF Core
<1>2. SlotsOK(s, d2, e2)
  <2>1. \A why : IsFiniteSet(Of(s, why)) /\ Cardinality(Of(s, why)) \in Nat
    <3>1. \A why : Of(s, why) \subseteq s.threads
      BY DEF Of
    <3> QED BY <3>1, <1>1, FS_Subset, FS_CardinalityType DEF Typed
  <2> QED BY <1>1, <2>1, StateFields, UploadConstants DEF SlotsOK
<1>3. ThreadsOK(s, N2, c)
  BY <1>1 DEF ThreadsOK, ThreadOK
<1>4. WatchOK(s, W2, c) /\ CopiesOK(s, C2, c)
  BY <1>1 DEF WatchOK, CopiesOK
<1> QED BY <1>1, <1>2, <1>3, <1>4 DEF Core

LEMMA Discharge ==
  ASSUME NEW s, NEW d, NEW e, NEW W, NEW C, NEW N, NEW c, Core(s, d, e, W, C, N, c),
         NEW W2, NEW C2,
         \A k \in Keys \ W2 : k \notin W \/ Watched(s, k, c),
         \A k \in Keys \ C2 : k \notin C \/ Wanted(s, k, c)
  PROVE  Core(s, d, e, W2, C2, N, c)
BY DEF Core, WatchOK, CopiesOK

(* What depends on other fields is not affected. *)
LEMMA SameCore ==
  ASSUME NEW s, NEW d, NEW e, NEW W, NEW C, NEW N, NEW c, Core(s, d, e, W, C, N, c),
         NEW u \in State, u.threads = s.threads, u.rec = s.rec, u.status = s.status,
         u.transferring = s.transferring, u.preprocessing = s.preprocessing,
         u.copies = s.copies, u.saving = s.saving, u.changing = s.changing
  PROVE  Core(u, d, e, W, C, N, c)
<1>1. Typed(s) /\ SlotsOK(s, d, e) /\ ThreadsOK(s, N, c) /\ DriversOK(s) /\ RecordsOK(s, c)
      /\ WatchOK(s, W, c) /\ CopiesOK(s, C, c) /\ HolderOK(s, c)
  BY DEF Core
<1>2. Typed(u)
  BY <1>1 DEF Typed
<1>3. SlotsOK(u, d, e)
  BY <1>1 DEF SlotsOK, Of
<1>4. ThreadsOK(u, N, c) /\ DriversOK(u) /\ RecordsOK(u, c)
  BY <1>1 DEF ThreadsOK, DriversOK, RecordsOK
<1>5. WatchOK(u, W, c)
  BY <1>1 DEF WatchOK, Watched
<1>6. CopiesOK(u, C, c) /\ HolderOK(u, c)
  BY <1>1 DEF CopiesOK, Wanted, HolderOK
<1> QED BY <1>1, <1>2, <1>3, <1>4, <1>5, <1>6 DEF Core

LEMMA QueuesCore ==
  ASSUME NEW s, NEW d, NEW e, NEW W, NEW C, NEW N, NEW c, Core(s, d, e, W, C, N, c)
  PROVE  /\ \A q \in Seq(Keys \X Roles) : Core([s EXCEPT !.transferQueue = q], d, e, W, C, N, c)
         /\ \A q \in Seq(Keys) : Core([s EXCEPT !.preprocessQueue = q], d, e, W, C, N, c)
         /\ \A n \in 0..MaxRegistrations : Core([s EXCEPT !.requests = n], d, e, W, C, N, c)
<1>1. s \in State
  BY DEF Core, Typed
<1>2. ASSUME NEW q \in Seq(Keys \X Roles) PROVE Core([s EXCEPT !.transferQueue = q], d, e, W, C, N, c)
  <2> DEFINE u == [s EXCEPT !.transferQueue = q]
  <2>1. u \in State
    BY <1>1 DEF State
  <2>2. /\ u.threads = s.threads /\ u.rec = s.rec /\ u.status = s.status
        /\ u.transferring = s.transferring /\ u.preprocessing = s.preprocessing
        /\ u.copies = s.copies /\ u.saving = s.saving /\ u.changing = s.changing
    OBVIOUS
  <2> HIDE DEF u
  <2>3. Core(u, d, e, W, C, N, c)
    BY <2>1, <2>2, SameCore
  <2> QED BY <2>3 DEF u
<1>3. ASSUME NEW q \in Seq(Keys) PROVE Core([s EXCEPT !.preprocessQueue = q], d, e, W, C, N, c)
  <2> DEFINE u == [s EXCEPT !.preprocessQueue = q]
  <2>1. u \in State
    BY <1>1 DEF State
  <2>2. /\ u.threads = s.threads /\ u.rec = s.rec /\ u.status = s.status
        /\ u.transferring = s.transferring /\ u.preprocessing = s.preprocessing
        /\ u.copies = s.copies /\ u.saving = s.saving /\ u.changing = s.changing
    OBVIOUS
  <2> HIDE DEF u
  <2>3. Core(u, d, e, W, C, N, c)
    BY <2>1, <2>2, SameCore
  <2> QED BY <2>3 DEF u
<1>4. ASSUME NEW n \in 0..MaxRegistrations PROVE Core([s EXCEPT !.requests = n], d, e, W, C, N, c)
  <2> DEFINE u == [s EXCEPT !.requests = n]
  <2>1. u \in State
    BY <1>1 DEF State
  <2>2. /\ u.threads = s.threads /\ u.rec = s.rec /\ u.status = s.status
        /\ u.transferring = s.transferring /\ u.preprocessing = s.preprocessing
        /\ u.copies = s.copies /\ u.saving = s.saving /\ u.changing = s.changing
    OBVIOUS
  <2> HIDE DEF u
  <2>3. Core(u, d, e, W, C, N, c)
    BY <2>1, <2>2, SameCore
  <2> QED BY <2>3 DEF u
<1> QED BY <1>2, <1>3, <1>4

(* A record is replaced. *)
LEMMA PutCore ==
  ASSUME NEW s, NEW d, NEW e, NEW W, NEW C, NEW N, NEW c, Core(s, d, e, W, C, N, c),
         NEW k \in Keys, NEW y \in Record, RecordOK(k, y),
         y.item # 0 \/ ((s.rec[k].item = 0 \/ k \in N) /\ k \notin c.named),
         NEW W2, NEW C2, W \ {k} \subseteq W2, C \ {k} \subseteq C2,
         k \in W2 \/ Watched(With(s, k, y), k, c), k \in C2 \/ Wanted(With(s, k, y), k, c)
  PROVE  Core(With(s, k, y), d, e, W2, C2, N, c)
<1> DEFINE u == With(s, k, y)
<1>1. Typed(s) /\ SlotsOK(s, d, e) /\ ThreadsOK(s, N, c) /\ DriversOK(s) /\ RecordsOK(s, c)
      /\ WatchOK(s, W, c) /\ CopiesOK(s, C, c) /\ HolderOK(s, c)
  BY DEF Core
<1>2. Typed(u) /\ u.rec = [s.rec EXCEPT ![k] = y]
  BY <1>1, WithState
<1>3. /\ u.status = s.status /\ u.threads = s.threads /\ u.copies = s.copies
      /\ u.saving = s.saving /\ u.changing = s.changing
      /\ u.transferring = s.transferring /\ u.preprocessing = s.preprocessing
  BY WithSame
<1> HIDE DEF u
<1>4. s.rec \in [Keys -> Record] /\ s.threads \subseteq Thread
  BY <1>1, StateFields
<1>5. u.rec[k] = y /\ \A j \in Keys : j # k => u.rec[j] = s.rec[j]
  BY <1>2, <1>4
<1>6. SlotsOK(u, d, e) /\ ThreadsOK(u, N, c) /\ HolderOK(u, c)
  BY <1>1, <1>3 DEF SlotsOK, Of, ThreadsOK, HolderOK
<1>7. DriversOK(u)
  <2> SUFFICES ASSUME NEW t \in u.threads, Drives(t)
               PROVE  u.rec[t.key].item # 0 /\ \A v \in u.threads : ~ (v.for = "detach" /\ v.key = t.key)
    BY DEF DriversOK
  <2>1. t \in s.threads /\ t.key \in Keys
    BY <1>3, <1>4, ThreadFields
  <2>3. t.key \notin N
    BY <1>1, <2>1 DEF ThreadsOK, ThreadOK
  <2>2. s.rec[t.key].item # 0 /\ \A v \in u.threads : ~ (v.for = "detach" /\ v.key = t.key)
    BY <1>1, <1>3, <2>1 DEF DriversOK
  <2> QED BY <1>5, <2>1, <2>2, <2>3
<1>8. RecordsOK(u, c)
  BY <1>1, <1>5 DEF RecordsOK
<1>9. WatchOK(u, W2, c)
  <2> SUFFICES ASSUME NEW j \in Keys \ W2, j # k PROVE Watched(u, j, c)
    BY DEF WatchOK, u
  <2>1. Watched(s, j, c) /\ u.rec[j] = s.rec[j]
    BY <1>1, <1>5 DEF WatchOK
  <2> QED BY <2>1, <1>3 DEF Watched
<1>10. CopiesOK(u, C2, c)
  <2> SUFFICES ASSUME NEW j \in Keys \ C2, j # k PROVE Wanted(u, j, c)
    BY DEF CopiesOK, u
  <2>1. Wanted(s, j, c) /\ u.rec[j] = s.rec[j]
    BY <1>1, <1>5 DEF CopiesOK
  <2> QED BY <2>1, <1>3 DEF Wanted
<1> QED BY <1>2, <1>6, <1>7, <1>8, <1>9, <1>10 DEF Core, u

LEMMA OfFinite ==
  ASSUME NEW s, Typed(s), NEW why
  PROVE  IsFiniteSet(Of(s, why)) /\ Cardinality(Of(s, why)) \in Nat
<1>1. Of(s, why) \subseteq s.threads
  BY DEF Of
<1> QED BY <1>1, FS_Subset, FS_CardinalityType DEF Typed

Owed(n, t, why) == IF t.for = why THEN n + 1 ELSE n

(* A thread more. *)
LEMMA AddCore ==
  ASSUME NEW s, NEW d \in Nat, NEW e \in Nat, NEW W, NEW C, NEW N, NEW c, NEW t \in Thread,
         Core(s, Owed(d, t, "prepare"), Owed(e, t, "transfer"), W, C, N, c),
         ThreadOK(t, N, c),
         Drives(t) => /\ s.rec[t.key].item # 0
                      /\ \A u \in s.threads : ~ (u.for = "detach" /\ u.key = t.key),
         t.for = "detach" => t.key \in N
  PROVE  Core(Threads(s, s.threads \cup {t}), d, e, W, C, N, c)
<1> DEFINE T == s.threads \cup {t}
           u == Threads(s, T)
<1>1. /\ Typed(s) /\ SlotsOK(s, Owed(d, t, "prepare"), Owed(e, t, "transfer"))
      /\ ThreadsOK(s, N, c) /\ DriversOK(s) /\ RecordsOK(s, c)
      /\ WatchOK(s, W, c) /\ CopiesOK(s, C, c) /\ HolderOK(s, c)
  BY DEF Core
<1>2. IsFiniteSet(T) /\ T \subseteq Thread
  BY <1>1, StateFields, FS_AddElement
<1>3. Typed(u) /\ u.threads = T
  BY <1>1, <1>2, ThreadsState
<1>4. /\ u.status = s.status /\ u.rec = s.rec /\ u.copies = s.copies
      /\ u.saving = s.saving /\ u.changing = s.changing
      /\ u.transferring = s.transferring /\ u.preprocessing = s.preprocessing
  BY ThreadsSame
<1> HIDE DEF u
<1>5. SlotsOK(u, d, e)
  <2>1. ASSUME NEW why
        PROVE  Cardinality(Of(u, why)) <= Owed(Cardinality(Of(s, why)), t, why)
    <3>1. t.for = why => Of(u, why) = Of(s, why) \cup {t}
      BY <1>3 DEF Of
    <3>2. t.for # why => Of(u, why) = Of(s, why)
      BY <1>3 DEF Of
    <3> QED BY <3>1, <3>2, <1>1, OfFinite, FS_AddElement DEF Owed
  <2>2. /\ Cardinality(Of(u, "transfer")) <= Owed(Cardinality(Of(s, "transfer")), t, "transfer")
        /\ Cardinality(Of(u, "prepare")) <= Owed(Cardinality(Of(s, "prepare")), t, "prepare")
    BY <2>1
  <2>3. \A why : Cardinality(Of(s, why)) \in Nat /\ Cardinality(Of(u, why)) \in Nat
    BY <1>1, <1>3, OfFinite
  <2>4. /\ Owed(Cardinality(Of(s, "transfer")), t, "transfer") + e
             = Cardinality(Of(s, "transfer")) + Owed(e, t, "transfer")
        /\ Owed(Cardinality(Of(s, "prepare")), t, "prepare") + d
             = Cardinality(Of(s, "prepare")) + Owed(d, t, "prepare")
    BY <2>3 DEF Owed
  <2>5. /\ s.transferring <= TransferConcurrency
        /\ Cardinality(Of(s, "transfer")) + Owed(e, t, "transfer") <= s.transferring
        /\ s.preprocessing <= PreprocessConcurrency
        /\ Cardinality(Of(s, "prepare")) + Owed(d, t, "prepare") <= s.preprocessing
    BY <1>1 DEF SlotsOK
  <2>6. s.transferring \in Nat /\ s.preprocessing \in Nat
    BY <1>1, StateFields
  <2>7. Cardinality(Of(u, "transfer")) + e <= s.transferring
    <3> DEFINE a == Cardinality(Of(u, "transfer"))
               b == Owed(Cardinality(Of(s, "transfer")), t, "transfer")
    <3>1. a \in Nat /\ b \in Nat /\ a <= b
      BY <2>2, <2>3 DEF Owed
    <3>2. b + e <= s.transferring
      BY <2>4, <2>5
    <3> HIDE DEF a, b
    <3>3. a + e <= s.transferring
      BY <3>1, <3>2, <2>6
    <3> QED BY <3>3 DEF a
  <2>8. Cardinality(Of(u, "prepare")) + d <= s.preprocessing
    <3> DEFINE a == Cardinality(Of(u, "prepare"))
               b == Owed(Cardinality(Of(s, "prepare")), t, "prepare")
    <3>1. a \in Nat /\ b \in Nat /\ a <= b
      BY <2>2, <2>3 DEF Owed
    <3>2. b + d <= s.preprocessing
      BY <2>4, <2>5
    <3> HIDE DEF a, b
    <3>3. a + d <= s.preprocessing
      BY <3>1, <3>2, <2>6
    <3> QED BY <3>3 DEF a
  <2> QED BY <2>5, <2>7, <2>8, <1>4 DEF SlotsOK
<1>6. ThreadsOK(u, N, c)
  BY <1>1, <1>3 DEF ThreadsOK
<1>7. DriversOK(u)
  <2> SUFFICES ASSUME NEW v \in T, Drives(v)
               PROVE  u.rec[v.key].item # 0 /\ \A w \in T : ~ (w.for = "detach" /\ w.key = v.key)
    BY <1>3 DEF DriversOK
  <2>1. CASE v \in s.threads
    <3>1. v.key \notin N
      BY <1>1, <2>1 DEF ThreadsOK, ThreadOK
    <3>2. s.rec[v.key].item # 0 /\ \A w \in s.threads : ~ (w.for = "detach" /\ w.key = v.key)
      BY <1>1, <2>1 DEF DriversOK
    <3>3. t.for = "detach" => t.key # v.key
      BY <3>1
    <3> QED BY <3>2, <3>3, <1>4
  <2>2. CASE v = t
    <3>1. t.for # "detach"
      BY <2>2 DEF Drives
    <3> QED BY <2>2, <3>1, <1>4
  <2> QED BY <2>1, <2>2
<1>8. RecordsOK(u, c) /\ HolderOK(u, c)
  BY <1>1, <1>4 DEF RecordsOK, HolderOK
<1>9. WatchOK(u, W, c)
  BY <1>1, <1>3, <1>4 DEF WatchOK, Watched
<1>10. CopiesOK(u, C, c)
  BY <1>1, <1>3, <1>4 DEF CopiesOK, Wanted
<1> QED BY <1>3, <1>5, <1>6, <1>7, <1>8, <1>9, <1>10 DEF Core, u

(* A thread less. *)
LEMMA DropCore ==
  ASSUME NEW s, NEW d \in Nat, NEW e \in Nat, NEW W, NEW C, NEW N, NEW c, Core(s, d, e, W, C, N, c),
         NEW t \in s.threads,
         t.for \in {"poll", "detach"} => t.key \in W,
         t.for = "store" /\ t.ans.is = "done" => t.key \in C
  PROVE  Core(Threads(s, s.threads \ {t}), Owed(d, t, "prepare"), Owed(e, t, "transfer"), W, C, N, c)
<1> DEFINE T == s.threads \ {t}
           u == Threads(s, T)
<1>1. Typed(s) /\ SlotsOK(s, d, e) /\ ThreadsOK(s, N, c) /\ DriversOK(s) /\ RecordsOK(s, c)
      /\ WatchOK(s, W, c) /\ CopiesOK(s, C, c) /\ HolderOK(s, c)
  BY DEF Core
<1>2. IsFiniteSet(T) /\ T \subseteq Thread
  BY <1>1, StateFields, FS_RemoveElement
<1>3. Typed(u) /\ u.threads = T
  BY <1>1, <1>2, ThreadsState
<1>4. /\ u.status = s.status /\ u.rec = s.rec /\ u.copies = s.copies
      /\ u.saving = s.saving /\ u.changing = s.changing
      /\ u.transferring = s.transferring /\ u.preprocessing = s.preprocessing
  BY ThreadsSame
<1> HIDE DEF u
<1>5. SlotsOK(u, Owed(d, t, "prepare"), Owed(e, t, "transfer"))
  <2>1. ASSUME NEW why
        PROVE  Owed(Cardinality(Of(u, why)), t, why) = Cardinality(Of(s, why))
    <3>1. t.for = why => Of(u, why) = Of(s, why) \ {t} /\ t \in Of(s, why)
      BY <1>3 DEF Of
    <3>2. t.for # why => Of(u, why) = Of(s, why)
      BY <1>3 DEF Of
    <3>3. IsFiniteSet(Of(s, why)) /\ Cardinality(Of(s, why)) \in Nat
      BY <1>1, OfFinite
    <3>4. t.for = why => Cardinality(Of(u, why)) = Cardinality(Of(s, why)) - 1
      BY <3>1, <3>3, FS_RemoveElement
    <3> QED BY <3>2, <3>3, <3>4 DEF Owed
  <2>2. /\ Owed(Cardinality(Of(u, "transfer")), t, "transfer") = Cardinality(Of(s, "transfer"))
        /\ Owed(Cardinality(Of(u, "prepare")), t, "prepare") = Cardinality(Of(s, "prepare"))
    BY <2>1
  <2>3. \A why : Cardinality(Of(s, why)) \in Nat /\ Cardinality(Of(u, why)) \in Nat
    BY <1>1, <1>3, OfFinite
  <2> QED BY <2>2, <2>3, <1>1, <1>4, StateFields, UploadConstants DEF SlotsOK, Owed
<1>6. ThreadsOK(u, N, c) /\ DriversOK(u)
  BY <1>1, <1>3, <1>4 DEF ThreadsOK, DriversOK
<1>8. RecordsOK(u, c) /\ HolderOK(u, c)
  BY <1>1, <1>4 DEF RecordsOK, HolderOK
<1>9. WatchOK(u, W, c)
  <2> SUFFICES ASSUME NEW k \in Keys \ W PROVE Watched(u, k, c)
    BY DEF WatchOK
  <2>1. Watched(s, k, c)
    BY <1>1 DEF WatchOK
  <2> QED BY <2>1, <1>3, <1>4 DEF Watched
<1>10. CopiesOK(u, C, c)
  <2> SUFFICES ASSUME NEW k \in Keys \ C PROVE Wanted(u, k, c)
    BY DEF CopiesOK
  <2>1. Wanted(s, k, c)
    BY <1>1 DEF CopiesOK
  <2> QED BY <2>1, <1>3, <1>4 DEF Wanted
<1> QED BY <1>3, <1>5, <1>6, <1>8, <1>9, <1>10 DEF Core, u

(* StartThread: there is a number that no thread of the name has. *)
LEMMA Started ==
  ASSUME NEW s, Typed(s), NEW t \in Thread
  PROVE  \E n \in Nat : LET new == [t EXCEPT !.no = n]
                        IN /\ StartThread(s, t) = Threads(s, s.threads \cup {new})
                           /\ new \in Thread /\ new \notin s.threads
<1> DEFINE named == {u \in s.threads : SameName(t, u)}
           used == {u.no : u \in named}
           n == CHOOSE i \in 0..Cardinality(used) : i \notin used
<1>1. IsFiniteSet(used)
  <2>1. IsFiniteSet(named)
    BY FS_Subset DEF Typed
  <2> DEFINE f == [u \in named |-> u.no]
  <2>2. f \in Surjection(named, used)
    BY DEF Surjection, ExistsSurjection
  <2> QED BY <2>1, <2>2, FS_Surjection
<1>2. n \in 0..Cardinality(used) /\ n \notin used
  <2>1. Cardinality(used) \in Nat
    BY <1>1, FS_CardinalityType
  <2> HIDE DEF used
  <2>2. Cardinality(0..Cardinality(used)) = Cardinality(used) + 1
    BY <2>1, FS_Interval
  <2>3. ~ (0..Cardinality(used) \subseteq used)
    <3>1. SUFFICES ASSUME 0..Cardinality(used) \subseteq used PROVE FALSE
      OBVIOUS
    <3>2. Cardinality(0..Cardinality(used)) <= Cardinality(used)
      BY <1>1, <3>1, FS_Subset
    <3> QED BY <2>1, <2>2, <3>2
  <2> QED BY <2>3
<1>3. n \in Nat
  BY <1>1, <1>2, FS_CardinalityType
<1> DEFINE new == [t EXCEPT !.no = n]
<1>4. StartThread(s, t) = Threads(s, s.threads \cup {new})
  BY DEF StartThread, Threads
<1> HIDE DEF n
<1>5. new \in Thread /\ new.no = n /\ SameName(t, new)
  BY <1>3 DEF Thread, SameName
<1>6. new \notin s.threads
  BY <1>2, <1>5
<1> QED BY <1>3, <1>4, <1>5, <1>6

Renumbers(new, t) ==
    /\ new.for = t.for /\ new.call = t.call /\ new.key = t.key /\ new.role = t.role
    /\ new.item = t.item /\ new.alive = t.alive /\ new.note = t.note /\ new.ans = t.ans
LEMMA Renumbered ==
  ASSUME NEW t \in Thread, NEW n \in Nat, NEW N, NEW c
  PROVE  LET new == [t EXCEPT !.no = n]
         IN new \in Thread /\ Renumbers(new, t) /\ (ThreadOK(t, N, c) => ThreadOK(new, N, c))
<1> DEFINE new == [t EXCEPT !.no = n]
<1>1. new \in Thread /\ new.no = n
  BY DEF Thread
<1>2. /\ new.for = t.for /\ new.call = t.call /\ new.key = t.key /\ new.role = t.role
      /\ new.item = t.item /\ new.alive = t.alive /\ new.note = t.note /\ new.ans = t.ans
  BY DEF Thread
<1> HIDE DEF new
<1>3. Shape(t) => Shape(new)
  BY <1>2 DEF Shape, Answers, Nameless
<1>4. ThreadOK(t, N, c) => ThreadOK(new, N, c)
  BY <1>2, <1>3 DEF ThreadOK, Drives, IsSent, Similar
<1> QED BY <1>1, <1>2, <1>4 DEF new, Renumbers

LEMMA ThreadsTwice ==
  ASSUME NEW s, NEW S, NEW T
  PROVE  Threads(Threads(s, S), T) = Threads(s, T)
BY DEF Threads

LEMMA ThreadsItself ==
  ASSUME NEW s, Typed(s)
  PROVE  Threads(s, s.threads) = s
BY DEF Threads, Typed, State

LEMMA EndThreads ==
  ASSUME NEW s, NEW t
  PROVE  EndThread(s, t) = Threads(s, s.threads \ {t})
BY DEF EndThread, Threads

-----------------------------------------------------------------------------
(* What a thread t needs of s to begin, and what s is with it. *)
MayStart(s, t, N, c) ==
    /\ ThreadOK(t, N, c)
    /\ Drives(t) => /\ s.rec[t.key].item # 0
                    /\ \A u \in s.threads : ~ (u.for = "detach" /\ u.key = t.key)
    /\ t.for = "detach" => t.key \in N
Adds(s, t, u) == \E new \in Thread : /\ Renumbers(new, t) /\ new \notin s.threads
                                     /\ u = Threads(s, s.threads \cup {new})
                                     /\ u.threads = s.threads \cup {new}
LEMMA StartCore ==
  ASSUME NEW s, NEW d \in Nat, NEW e \in Nat, NEW W, NEW C, NEW N, NEW c, NEW t \in Thread,
         NEW d1, NEW e1, Core(s, d1, e1, W, C, N, c),
         d1 = Owed(d, t, "prepare"), e1 = Owed(e, t, "transfer"),
         MayStart(s, t, N, c)
  PROVE  Core(StartThread(s, t), d, e, W, C, N, c) /\ Adds(s, t, StartThread(s, t))
<1>1. Typed(s)
  BY DEF Core
<1>2. PICK n \in Nat : LET new == [t EXCEPT !.no = n]
                       IN /\ StartThread(s, t) = Threads(s, s.threads \cup {new})
                          /\ new \in Thread /\ new \notin s.threads
  BY <1>1, Started
<1> DEFINE new == [t EXCEPT !.no = n]
<1>3. Renumbers(new, t) /\ new.for = t.for /\ new.key = t.key /\ ThreadOK(new, N, c)
  BY Renumbered DEF Renumbers, MayStart
<1>4. new \in Thread /\ StartThread(s, t) = Threads(s, s.threads \cup {new}) /\ new \notin s.threads
  BY <1>2
<1>5. IsFiniteSet(s.threads \cup {new}) /\ s.threads \cup {new} \subseteq Thread
  BY <1>1, <1>4, StateFields, FS_AddElement
<1>6. StartThread(s, t).threads = s.threads \cup {new}
  BY <1>1, <1>4, <1>5, ThreadsState
<1> HIDE DEF new
<1>7. Owed(d, new, "prepare") = Owed(d, t, "prepare") /\ Owed(e, new, "transfer") = Owed(e, t, "transfer")
  BY <1>3 DEF Owed
<1>8. Core(Threads(s, s.threads \cup {new}), d, e, W, C, N, c)
  <2>1. Core(s, Owed(d, new, "prepare"), Owed(e, new, "transfer"), W, C, N, c)
    BY <1>7
  <2>2. /\ Drives(new) => /\ s.rec[new.key].item # 0
                          /\ \A u \in s.threads : ~ (u.for = "detach" /\ u.key = new.key)
        /\ new.for = "detach" => new.key \in N
    BY <1>3 DEF MayStart, Drives
  <2> QED BY <1>3, <1>4, <2>1, <2>2, AddCore
<1> QED BY <1>3, <1>4, <1>6, <1>8 DEF Adds

(* A continuation that begins to wait. *)
Waiting(s, why, call, k, r, note) ==
    [for |-> why, call |-> call, key |-> k, role |-> r, item |-> s.rec[k].item,
     alive |-> TRUE, note |-> note, ans |-> UnderWay, no |-> 0]

LEMMA RolesAre == \A k \in Keys : RolesOf(k) \subseteq Roles /\ "still" \in RolesOf(k)
BY DEF RolesOf, Roles

LEMMA RecordFields ==
  ASSUME NEW x \in Record
  PROVE  /\ x.phase \in ItemPhase /\ x.comps \in [Roles -> ComponentPhase] /\ x.original \in BOOLEAN
         /\ x.prepared \in BOOLEAN /\ x.request \in 0..MaxRegistrations
         /\ x.item \in 0..MaxRegistrations /\ x.server \in ItemState /\ x.unknown \in BOOLEAN
         /\ x.timer \in BOOLEAN /\ x.draft \in BOOLEAN
BY DEF Record

LEMMA NoItemIsItem == NoItem \in Item
BY DEF NoItem, Item, ItemState

LEMMA AnsFields ==
  \A is \in {"under way", "streaming", "item", "done", "refused", "lost", "account", "gone",
             "choice", "mismatch"} : Ans(is) \in CallAnswer /\ Ans(is).is = is
BY NoItemIsItem DEF Ans, CallAnswer

MayAwait(s, why, call, k, N, c) ==
    /\ <<why, call>> \in Pairs /\ why \notin {"hash", "nobody"}
    /\ s.rec[k].item # 0 \/ call \in {"holder", "put"} \/ (why = "prepare" /\ call = "work")
    /\ why = "detach" => k \in N /\ c.detaching
    /\ call \in Commands => Own
    /\ why \in {"restart", "process"} =>
           Own /\ k \notin N /\ \A u \in s.threads : ~ (u.for = "detach" /\ u.key = k)
NowAwaits(s, u, why, call, k) ==
    /\ u = Threads(s, u.threads) /\ s.threads \subseteq u.threads
    /\ \E t \in u.threads : /\ t.for = why /\ t.key = k /\ t.alive /\ t.call = call
                            /\ u.threads = s.threads \cup {t} /\ t \notin s.threads
LEMMA AwaitCore ==
  ASSUME NEW s, NEW d \in Nat, NEW e \in Nat, NEW W, NEW C, NEW N, NEW c,
         NEW why, NEW call, NEW k \in Keys, NEW r \in Roles, NEW note \in NotesFor(why),
         NEW d1, NEW e1, Core(s, d1, e1, W, C, N, c),
         d1 = IF why = "prepare" THEN d + 1 ELSE d, e1 = IF why = "transfer" THEN e + 1 ELSE e,
         MayAwait(s, why, call, k, N, c)
  PROVE  /\ Core(AwaitNoting(s, why, call, k, r, note), d, e, W, C, N, c)
         /\ NowAwaits(s, AwaitNoting(s, why, call, k, r, note), why, call, k)
<1>may. /\ <<why, call>> \in Pairs /\ why \notin {"hash", "nobody"}
        /\ s.rec[k].item # 0 \/ call \in {"holder", "put"} \/ (why = "prepare" /\ call = "work")
        /\ why = "detach" => k \in N /\ c.detaching
        /\ call \in Commands => Own
        /\ why \in {"restart", "process"} =>
               Own /\ k \notin N /\ \A u \in s.threads : ~ (u.for = "detach" /\ u.key = k)
  BY DEF MayAwait
<1> DEFINE t == Waiting(s, why, call, k, r, note)
<1>1. AwaitNoting(s, why, call, k, r, note) = StartThread(s, t)
  BY DEF AwaitNoting, Waiting
<1>2. Typed(s) /\ s.rec[k] \in Record /\ s.rec[k].item \in 0..MaxRegistrations
  <2>1. Typed(s)
    BY DEF Core
  <2>2. s.rec[k] \in Record
    BY <2>1, StateFields
  <2> QED BY <2>1, <2>2, RecordFields
<1>3. UnderWay \in CallAnswer /\ UnderWay.is = "under way"
  BY AnsFields DEF UnderWay
<1>4. /\ t.for = why /\ t.call = call /\ t.key = k /\ t.role = r /\ t.item = s.rec[k].item
      /\ t.alive = TRUE /\ t.note = note /\ t.ans = UnderWay /\ t.no = 0
  BY DEF Waiting
<1>5. t \in Thread
  BY <1>may, <1>2, <1>3, RolesAre DEF Thread, Waiting, Pairs, NotesFor, Rereads
<1> HIDE DEF t
<1>6. Shape(t)
  BY <1>may, <1>3, <1>4 DEF Shape, Nameless, Pairs, NotesFor
<1>7. ThreadOK(t, N, c)
  BY <1>may, <1>3, <1>4, <1>6 DEF ThreadOK, Drives, IsSent
<1>8. d1 = Owed(d, t, "prepare") /\ e1 = Owed(e, t, "transfer")
  BY <1>4 DEF Owed
<1>9. Core(StartThread(s, t), d, e, W, C, N, c) /\ Adds(s, t, StartThread(s, t))
  <2>1. MayStart(s, t, N, c)
    BY <1>may, <1>4, <1>7 DEF MayStart, Drives, Pairs
  <2> QED BY <2>1, <1>5, <1>8, StartCore
<1>10. PICK new \in Thread : /\ Renumbers(new, t) /\ new \notin s.threads
                             /\ StartThread(s, t) = Threads(s, s.threads \cup {new})
                             /\ StartThread(s, t).threads = s.threads \cup {new}
  BY <1>9 DEF Adds
<1>11. new.for = why /\ new.key = k /\ new.alive /\ new.call = call
  BY <1>4, <1>10 DEF Renumbers
<1>12. NowAwaits(s, StartThread(s, t), why, call, k)
  <2>1. s.threads \cup {new} = StartThread(s, t).threads /\ new \in StartThread(s, t).threads
    BY <1>10
  <2> QED BY <2>1, <1>10, <1>11 DEF NowAwaits
<1> QED BY <1>1, <1>9, <1>12

(* What may end without notice, and what is left without the threads T. *)
MayEnd(t, W, C) == /\ t.for \in {"poll", "detach"} => t.key \in W
                   /\ t.for = "store" /\ t.ans.is = "done" => t.key \in C
Leaves(s, T, u) == /\ u = Threads(s, u.threads) /\ s.threads \ T \subseteq u.threads
                   /\ \A v \in u.threads : v \in s.threads \ T \/ v.for = "nobody"

(* Orphan *)
LEMMA OrphanCore ==
  ASSUME NEW s, NEW d \in Nat, NEW e \in Nat, NEW W, NEW C, NEW N, NEW c, Core(s, d, e, W, C, N, c),
         NEW t \in s.threads,
         MayEnd(t, W, C)
  PROVE  /\ Core(Orphan(s, t), Owed(d, t, "prepare"), Owed(e, t, "transfer"), W, C, N, c)
         /\ Leaves(s, {t}, Orphan(s, t))
<1> DEFINE ended == EndThread(s, t)
           left == [t EXCEPT !.for = "nobody", !.alive = FALSE]
           d2 == Owed(d, t, "prepare")
           e2 == Owed(e, t, "transfer")
<1>1. /\ Typed(s) /\ t \in Thread /\ ThreadOK(t, N, c)
  <2>1. Typed(s) /\ ThreadsOK(s, N, c)
    BY DEF Core
  <2> QED BY <2>1, StateFields DEF ThreadsOK
<1>2. ended = Threads(s, s.threads \ {t}) /\ ended.threads = s.threads \ {t}
  <2>1. IsFiniteSet(s.threads \ {t}) /\ s.threads \ {t} \subseteq Thread
    BY <1>1, StateFields, FS_RemoveElement
  <2> QED BY <2>1, <1>1, EndThreads, ThreadsState
<1>3. Core(ended, d2, e2, W, C, N, c)
  <2>1. Core(Threads(s, s.threads \ {t}), d2, e2, W, C, N, c)
    BY DropCore DEF MayEnd
  <2> QED BY <1>2, <2>1
<1>4. d2 \in Nat /\ e2 \in Nat
  BY DEF Owed
<1> HIDE DEF ended, d2, e2
<1>5. CASE t.call \in Commands /\ t.ans.is \in {"under way", "streaming"}
  <2>1. Orphan(s, t) = StartThread(ended, left)
    BY <1>5 DEF Orphan, ended
  <2>2. left \in Thread
    BY <1>1 DEF Thread
  <2>3. /\ left.for = "nobody" /\ left.alive = FALSE /\ left.call = t.call /\ left.key = t.key
        /\ left.role = t.role /\ left.item = t.item /\ left.ans = t.ans /\ left.note = t.note
    BY <1>1 DEF Thread
  <2> HIDE DEF left
  <2>4. Shape(left)
    <3>1. t.item # 0
      BY <1>1, <1>5 DEF ThreadOK, Shape, Nameless, Commands, Pairs, NotesFor, Rereads
    <3>2. t.for \notin Rereads
      BY <1>1, <1>5 DEF ThreadOK, Shape, Commands, Pairs, Rereads
    <3>3. t.note \in {"draft", "session"} /\ left.note = t.note
      BY <1>1, <2>3, <3>2 DEF ThreadOK, Shape, NotesFor
    <3>4. left.note \in NotesFor(left.for)
      BY <2>3, <3>3 DEF NotesFor, Rereads
    <3> QED BY <2>3, <3>1, <3>4, <1>1, <1>5 DEF ThreadOK, Shape, ActsWhenStale
  <2>5. ThreadOK(left, N, c)
    BY <1>1, <2>3, <2>4 DEF ThreadOK, Drives, IsSent, Similar
  <2>6. Owed(d2, left, "prepare") = d2 /\ Owed(e2, left, "transfer") = e2 /\ ~ Drives(left)
    BY <2>3 DEF Owed, Drives
  <2>7. Core(StartThread(ended, left), d2, e2, W, C, N, c) /\ Adds(ended, left, StartThread(ended, left))
    <3>1. MayStart(ended, left, N, c)
      BY <2>3, <2>5, <2>6 DEF MayStart
    <3> HIDE DEF left
    <3> QED BY <1>3, <1>4, <2>2, <2>6, <3>1, StartCore
  <2>8. PICK new : /\ StartThread(ended, left) = Threads(ended, ended.threads \cup {new})
                   /\ StartThread(ended, left).threads = ended.threads \cup {new}
                   /\ new.for = "nobody"
    BY <2>3, <2>7 DEF Adds, Renumbers
  <2>9. Threads(ended, ended.threads \cup {new}) = Threads(s, ended.threads \cup {new})
    BY <1>2, ThreadsTwice
  <2> QED BY <1>2, <2>1, <2>7, <2>8, <2>9 DEF d2, e2, Leaves
<1>6. CASE ~ (t.call \in Commands /\ t.ans.is \in {"under way", "streaming"})
  <2>1. Orphan(s, t) = ended
    BY <1>6 DEF Orphan, ended
  <2> QED BY <2>1, <1>2, <1>3 DEF d2, e2, Leaves
<1> QED BY <1>5, <1>6

(* OrphanAll *)
LEMMA OrphanAllCore ==
  ASSUME NEW s, NEW d \in Nat, NEW e \in Nat, NEW W, NEW C, NEW N, NEW c, Core(s, d, e, W, C, N, c),
         NEW T, T \subseteq s.threads, \A t \in T : t.for # "prepare",
         \A t \in T : MayEnd(t, W, C)
  PROVE  /\ Core(OrphanAll(s, T), d, e + Cardinality(T \cap Of(s, "transfer")), W, C, N, c)
         /\ Leaves(s, T, OrphanAll(s, T))
<1> DEFINE slots == Of(s, "transfer")
           op(t, u) == Orphan(u, t)
           Inv == [X \in SUBSET T |->
                     {u \in State : /\ Core(u, d, e + Cardinality(X \cap slots), W, C, N, c)
                                    /\ Leaves(s, X, u)}]
<1>typed. Typed(s)
  BY DEF Core
<1>finite. IsFiniteSet(T)
  BY <1>typed, FS_Subset DEF Typed
<1>base. s \in Inv[{}]
  <2>1. Cardinality({} \cap slots) = 0
    <3>1. {} \cap slots = {}
      OBVIOUS
    <3> QED BY <3>1, FS_EmptySet
  <2>2. Core(s, d, e + 0, W, C, N, c)
    OBVIOUS
  <2>3. s = Threads(s, s.threads) /\ s \in State
    BY <1>typed, ThreadsItself DEF Typed
  <2> HIDE DEF slots
  <2> QED BY <2>1, <2>2, <2>3 DEF Leaves
<1>step. \A X \in SUBSET T : \A x \in X : \A v \in Inv[X \ {x}] : op(x, v) \in Inv[X]
  <2> SUFFICES ASSUME NEW X \in SUBSET T, NEW x \in X, NEW v \in Inv[X \ {x}]
               PROVE  op(x, v) \in Inv[X]
    OBVIOUS
  <2> DEFINE Y == X \ {x}
             n == e + Cardinality(Y \cap slots)
  <2>1. Core(v, d, n, W, C, N, c) /\ Leaves(s, Y, v)
    OBVIOUS
  <2>2. x \in v.threads /\ x \in s.threads /\ x.for # "prepare"
    BY <2>1 DEF Leaves
  <2>3. Cardinality(Y \cap slots) \in Nat
        /\ Cardinality(X \cap slots) = Owed(Cardinality(Y \cap slots), x, "transfer")
    <3>1. IsFiniteSet(Y \cap slots) /\ Y \cap slots \subseteq s.threads
      BY <1>finite, FS_Subset
    <3>2. x.for = "transfer" => X \cap slots = (Y \cap slots) \cup {x} /\ x \notin Y \cap slots
      BY <2>2 DEF Of
    <3>3. x.for # "transfer" => X \cap slots = Y \cap slots
      BY <2>2 DEF Of
    <3> HIDE DEF Y, slots
    <3> QED BY <3>1, <3>2, <3>3, FS_AddElement, FS_CardinalityType DEF Owed
  <2>4. n \in Nat /\ Owed(n, x, "transfer") = e + Cardinality(X \cap slots) /\ Owed(d, x, "prepare") = d
    BY <2>2, <2>3 DEF Owed
  <2>5. Core(Orphan(v, x), d, e + Cardinality(X \cap slots), W, C, N, c) /\ Leaves(v, {x}, Orphan(v, x))
    <3>1. MayEnd(x, W, C)
      OBVIOUS
    <3> HIDE DEF n, slots, Inv
    <3>2. /\ Core(Orphan(v, x), Owed(d, x, "prepare"), Owed(n, x, "transfer"), W, C, N, c)
          /\ Leaves(v, {x}, Orphan(v, x))
      BY <2>1, <2>2, <2>4, <3>1, OrphanCore
    <3> QED BY <2>4, <3>2
  <2>6. Orphan(v, x) \in State
    BY <2>5 DEF Core, Typed
  <2>7. Leaves(s, X, Orphan(v, x))
    <3>1. Orphan(v, x) = Threads(s, Orphan(v, x).threads)
      BY <2>1, <2>5, ThreadsTwice DEF Leaves
    <3> QED BY <3>1, <2>1, <2>5 DEF Leaves
  <2> HIDE DEF slots
  <2> QED BY <2>5, <2>6, <2>7
<1>full. Inv[T] = {u \in State : /\ Core(u, d, e + Cardinality(T \cap slots), W, C, N, c)
                                /\ Leaves(s, T, u)}
  OBVIOUS
<1> HIDE DEF op, Inv
<1> DEFINE dom == UNION {Inv[X] : X \in SUBSET T}
           F == [p \in T \X dom |-> op(p[1], p[2])]
           ch == Firsts(T)
           it(g) == g = [X \in SUBSET T |-> IF X = {} THEN s
                           ELSE op(CHOOSE x \in X : TRUE, g[X \ {CHOOSE x \in X : TRUE}])]
           h == CHOOSE g : it(g)
<1>f1. \A X \in SUBSET T : \A x \in X : \A v \in Inv[X \ {x}] : F[<<x, v>>] = op(x, v)
  OBVIOUS
<1>f2. \A X \in SUBSET T : X # {} => ch[X] = (CHOOSE x \in X : TRUE) /\ ch[X] \in X
  BY DEF Firsts
<1> HIDE DEF F, ch
<1>f3. Chooses(ch, T) /\ Steps(F, T, Inv)
  BY <1>step, <1>f1, FirstsChoose DEF Steps, ch
<1>f4. PICK g : Follows(g, T, F, s, ch) /\ Within(g, T, Inv)
  <2> HIDE DEF dom, it, h
  <2> QED BY <1>finite, <1>base, <1>f3, FoldIn
<1>f5. ASSUME NEW X \in SUBSET T
      PROVE  g[X] = IF X = {} THEN s ELSE op(CHOOSE x \in X : TRUE, g[X \ {CHOOSE x \in X : TRUE}])
  <2>1. g[X] = IF X = {} THEN s ELSE F[<<ch[X], g[X \ {ch[X]}]>>]
    BY <1>f4 DEF Follows, StepOf, Rest
  <2>2. CASE X # {}
    <3>1. X \ {ch[X]} \in SUBSET T /\ g[X \ {ch[X]}] \in Inv[X \ {ch[X]}]
      BY <1>f4 DEF Within
    <3>2. F[<<ch[X], g[X \ {ch[X]}]>>] = op(ch[X], g[X \ {ch[X]}])
      BY <1>f1, <1>f2, <2>2, <3>1
    <3> QED BY <1>f2, <2>1, <2>2, <3>2
  <2> QED BY <2>1, <2>2
<1>f6. it(h)
  <2>1. it(g)
    <3>1. g = [X \in SUBSET T |-> g[X]]
      BY <1>f4 DEF Follows
    <3> QED BY <1>f5, <3>1
  <2> HIDE DEF it
  <2> QED BY <2>1
<1> HIDE DEF h
<1>f7. h[{}] = s /\ \A X \in SUBSET T : X # {} => h[X] = op(ch[X], h[X \ {ch[X]}])
  BY <1>f2, <1>f6
<1>f8. h[T] \in Inv[T]
  <2>1. ASSUME NEW X \in SUBSET T, X # {}, h[Rest(X, ch)] \in Inv[Rest(X, ch)] PROVE h[X] \in Inv[X]
    <3>1. op(ch[X], h[X \ {ch[X]}]) \in Inv[X]
      BY <1>step, <1>f2, <2>1 DEF Rest
    <3> QED BY <1>f7, <2>1, <3>1
  <2> QED BY <1>finite, <1>base, <1>f3, <1>f7, <2>1, FoldKeeps
<1>value. OrphanAll(s, T) \in Inv[T]
  <2>1. OrphanAll(s, T) = h[T]
    BY Zenon DEF OrphanAll, FoldSet, MapThenFoldSet, h, it, op
  <2> QED BY <1>f8, <2>1
<1> QED BY <1>full, <1>value

LEMMA MoreFenced ==
  ASSUME NEW s, NEW d, NEW e, NEW W, NEW C, NEW N, NEW c, Core(s, d, e, W, C, N, c),
         NEW k, \A t \in s.threads : Drives(t) => t.key # k
  PROVE  Core(s, d, e, W, C, N \cup {k}, c)
<1>1. ThreadsOK(s, N \cup {k}, c)
  BY DEF Core, ThreadsOK, ThreadOK
<1> QED BY <1>1 DEF Core

Stale(t) == [t EXCEPT !.alive = FALSE]
LEMMA StaleOK ==
  ASSUME NEW t \in Thread, NEW N, NEW c, ThreadOK(t, N, c), t.for \in ActsWhenStale
  PROVE  /\ Stale(t) \in Thread /\ ThreadOK(Stale(t), N, c) /\ ~ Drives(Stale(t))
         /\ Stale(t).for = t.for /\ Stale(t).key = t.key /\ Stale(t).call = t.call
         /\ Stale(t).ans = t.ans
<1>1. Stale(t) \in Thread
  BY DEF Stale, Thread
<1>2. /\ Stale(t).for = t.for /\ Stale(t).call = t.call /\ Stale(t).key = t.key
      /\ Stale(t).role = t.role /\ Stale(t).item = t.item /\ Stale(t).ans = t.ans
      /\ Stale(t).alive = FALSE
  BY DEF Thread, Stale
<1>3. Shape(Stale(t))
  <2> DEFINE u == Stale(t)
  <2>1. Answers(u) = Answers(t) /\ (Nameless(u) <=> Nameless(t))
    BY <1>2 DEF Answers, Nameless
  <2>2. Shape(t)
    BY DEF ThreadOK
  <2>3. u.for = t.for /\ u.call = t.call /\ u.item = t.item /\ u.ans = t.ans /\ ~ u.alive
        /\ u.note = t.note
    BY <1>2 DEF Thread, Stale
  <2> HIDE DEF u
  <2>4. Shape(u)
    BY <2>1, <2>2, <2>3 DEF Shape
  <2> QED BY <2>4 DEF u
<1>4. ThreadOK(Stale(t), N, c) /\ ~ Drives(Stale(t))
  BY <1>2, <1>3 DEF ThreadOK, Drives, IsSent, Similar, ActsWhenStale
<1> QED BY <1>1, <1>2, <1>4

(* Renew: what it fences, and what nobody waits for any more. *)
LEMMA RenewCore ==
  ASSUME NEW s, NEW d \in Nat, NEW e \in Nat, NEW W, NEW C, NEW N, NEW c, Core(s, d, e, W, C, N, c),
         NEW k \in Keys, k \in W
  PROVE  LET u == Renew(s, k)
         IN Core(u, d, e, W, C, N \cup {k}, c) /\ u = Threads(s, u.threads)
<1> DEFINE mine == {t \in s.threads : t.key = k /\ t.for # "transfer"}
           kept == {t \in mine : t.for \in ActsWhenStale /\ ~ (t.for = "register" /\ t.call = "holder")}
           T == (s.threads \ kept) \cup {Stale(t) : t \in kept}
           f == Threads(s, T)
<1>1. /\ Typed(s) /\ SlotsOK(s, d, e) /\ ThreadsOK(s, N, c) /\ DriversOK(s) /\ RecordsOK(s, c)
      /\ WatchOK(s, W, c) /\ CopiesOK(s, C, c) /\ HolderOK(s, c)
  BY DEF Core
<1>2. s.threads \subseteq Thread /\ IsFiniteSet(s.threads)
  BY <1>1, StateFields
<1>3. \A t \in kept : /\ t \in s.threads /\ t.key = k /\ t.for # "transfer"
                      /\ Stale(t) \in Thread /\ ThreadOK(Stale(t), N, c) /\ ~ Drives(Stale(t))
                      /\ Stale(t).for = t.for /\ Stale(t).key = t.key /\ Stale(t).call = t.call
                      /\ Stale(t).ans = t.ans
  BY <1>1, <1>2, StaleOK DEF ThreadsOK
<1> HIDE DEF kept
<1> DEFINE move == [t \in s.threads |-> IF t \in kept THEN Stale(t) ELSE t]
<1>4. IsFiniteSet(T) /\ T \subseteq Thread
  <2>1. move \in Surjection(s.threads, T)
    BY <1>3 DEF Surjection
  <2>2. IsFiniteSet(T)
    BY <2>1, <1>2, FS_Surjection
  <2> QED BY <2>2, <1>2, <1>3
<1>5. Typed(f) /\ f.threads = T
  BY <1>1, <1>4, ThreadsState
<1>6. /\ f.status = s.status /\ f.rec = s.rec /\ f.copies = s.copies
      /\ f.saving = s.saving /\ f.changing = s.changing
      /\ f.transferring = s.transferring /\ f.preprocessing = s.preprocessing
  BY ThreadsSame
<1>7. \A why : Cardinality(Of(f, why)) <= Cardinality(Of(s, why))
  <2> TAKE why
  <2> DEFINE part == [t \in Of(s, why) |-> move[t]]
  <2>1. part \in Surjection(Of(s, why), Of(f, why))
    <3>1. \A t \in Of(s, why) : part[t] \in Of(f, why)
      BY <1>3, <1>5 DEF Of
    <3>2. \A v \in Of(f, why) : \E t \in Of(s, why) : part[t] = v
      <4> SUFFICES ASSUME NEW v \in T, v.for = why PROVE \E t \in Of(s, why) : part[t] = v
        BY <1>5 DEF Of
      <4>1. CASE v \in s.threads \ kept
        BY <4>1 DEF Of
      <4>2. CASE v \notin s.threads \ kept
        <5>1. PICK t \in kept : v = Stale(t)
          BY <4>2
        <5> QED BY <5>1, <1>3 DEF Of
      <4> QED BY <4>1, <4>2
    <3> HIDE DEF move, f
    <3> QED BY <3>1, <3>2 DEF Surjection
  <2>2. IsFiniteSet(Of(s, why))
    BY <1>1, OfFinite
  <2> HIDE DEF part, f
  <2> QED BY <2>1, <2>2, FS_Surjection
<1> HIDE DEF f
<1>8. SlotsOK(f, d, e)
  <2>1. \A why : Cardinality(Of(f, why)) \in Nat /\ Cardinality(Of(s, why)) \in Nat
    BY <1>1, <1>5, OfFinite
  <2>2. /\ Cardinality(Of(f, "transfer")) <= Cardinality(Of(s, "transfer"))
        /\ Cardinality(Of(f, "prepare")) <= Cardinality(Of(s, "prepare"))
    BY <1>7
  <2> QED BY <2>1, <2>2, <1>1, <1>6, StateFields DEF SlotsOK
<1>9. ThreadsOK(f, N, c)
  BY <1>1, <1>3, <1>5 DEF ThreadsOK
<1>10. DriversOK(f)
  <2> SUFFICES ASSUME NEW t \in T, Drives(t)
               PROVE  f.rec[t.key].item # 0 /\ \A v \in T : ~ (v.for = "detach" /\ v.key = t.key)
    BY <1>5 DEF DriversOK
  <2>1. t \in s.threads
    BY <1>3
  <2>2. s.rec[t.key].item # 0 /\ \A v \in s.threads : ~ (v.for = "detach" /\ v.key = t.key)
    BY <1>1, <2>1 DEF DriversOK
  <2> QED BY <2>2, <1>3, <1>6
<1>11. RecordsOK(f, c) /\ HolderOK(f, c)
  BY <1>1, <1>6 DEF RecordsOK, HolderOK
<1>12. WatchOK(f, W, c)
  <2> SUFFICES ASSUME NEW j \in Keys \ W PROVE Watched(f, j, c)
    BY DEF WatchOK
  <2>1. Watched(s, j, c) /\ j # k
    BY <1>1 DEF WatchOK
  <2>2. \A t \in s.threads : t.key = j => t \in T
    BY <1>3, <2>1
  <2> QED BY <2>1, <2>2, <1>5, <1>6 DEF Watched
<1>13. CopiesOK(f, C, c)
  <2> SUFFICES ASSUME NEW j \in Keys \ C PROVE Wanted(f, j, c)
    BY DEF CopiesOK
  <2>1. Wanted(s, j, c)
    BY <1>1 DEF CopiesOK
  <2>2. \A t \in s.threads : \E v \in T : v.key = t.key /\ v.for = t.for /\ v.ans = t.ans
    BY <1>3
  <2> HIDE DEF T
  <2> QED BY <2>1, <2>2, <1>5, <1>6 DEF Wanted
<1>14. Core(f, d, e, W, C, N, c)
  BY <1>5, <1>8, <1>9, <1>10, <1>11, <1>12, <1>13 DEF Core
<1>15. Renew(s, k) = OrphanAll(f, mine \ kept)
  BY DEF Renew, f, Threads, kept, Stale
<1> DEFINE dead == mine \ kept
           u == OrphanAll(f, dead)
<1>16. /\ dead \subseteq f.threads
       /\ \A t \in dead : t.for \notin {"prepare", "store", "detach", "transfer"} /\ t.key = k
       /\ \A t \in dead : t.for # "prepare" /\ MayEnd(t, W, C)
  BY <1>5 DEF kept, ActsWhenStale, MayEnd
<1>17. dead \cap Of(f, "transfer") = {}
  BY <1>16 DEF Of
<1> HIDE DEF dead
<1>18. /\ Core(u, d, e + Cardinality(dead \cap Of(f, "transfer")), W, C, N, c)
       /\ Leaves(f, dead, u)
  BY <1>14, <1>16, OrphanAllCore
<1> HIDE DEF u
<1>19. Core(u, d, e, W, C, N, c)
  BY <1>17, <1>18, FS_EmptySet
<1>20. \A t \in u.threads : Drives(t) => t.key # k
  <2> SUFFICES ASSUME NEW t \in u.threads, Drives(t), t.key = k PROVE FALSE
    OBVIOUS
  <2>1. t \in T \ dead
    BY <1>5, <1>18 DEF Drives, Leaves
  <2>2. t \in s.threads \ kept
    BY <1>3, <2>1
  <2>3. t \in mine
    BY <2>2 DEF Drives
  <2> QED BY <2>1, <2>2, <2>3 DEF dead
<1>21. u = Threads(s, u.threads)
  BY <1>18, ThreadsTwice DEF f, Leaves
<1> QED BY <1>15, <1>19, <1>20, <1>21, MoreFenced DEF u, dead

LEMMA Rebuilt ==
  ASSUME NEW s, NEW d, NEW e, NEW W, NEW C, NEW N, NEW c, Core(s, d, e, W, C, N, c),
         NEW u \in State, u.threads = s.threads, u.rec = s.rec,
         NEW d2, NEW e2, NEW W2, NEW C2,
         SlotsOK(u, d2, e2), WatchOK(u, W2, c), CopiesOK(u, C2, c), HolderOK(u, c)
  PROVE  Core(u, d2, e2, W2, C2, N, c)
<1>1. Typed(u)
  BY DEF Core, Typed
<1>2. ThreadsOK(u, N, c) /\ DriversOK(u) /\ RecordsOK(u, c)
  BY DEF Core, ThreadsOK, DriversOK, RecordsOK
<1> QED BY <1>1, <1>2 DEF Core

(* Slots are taken or freed. *)
LEMMA SlotsCore ==
  ASSUME NEW s, NEW d, NEW e, NEW W, NEW C, NEW N, NEW c, Core(s, d, e, W, C, N, c),
         NEW n \in Nat
  PROVE  /\ \A e2 : n <= TransferConcurrency /\ Cardinality(Of(s, "transfer")) + e2 <= n
                    => Core([s EXCEPT !.transferring = n], d, e2, W, C, N, c)
         /\ \A d2 : n <= PreprocessConcurrency /\ Cardinality(Of(s, "prepare")) + d2 <= n
                    => Core([s EXCEPT !.preprocessing = n], d2, e, W, C, N, c)
<1>1. Typed(s) /\ s \in State /\ SlotsOK(s, d, e) /\ WatchOK(s, W, c) /\ CopiesOK(s, C, c) /\ HolderOK(s, c)
  BY DEF Core, Typed
<1>2. ASSUME NEW e2, n <= TransferConcurrency, Cardinality(Of(s, "transfer")) + e2 <= n
      PROVE  Core([s EXCEPT !.transferring = n], d, e2, W, C, N, c)
  <2> DEFINE u == [s EXCEPT !.transferring = n]
  <2>1. u \in State
    BY <1>1 DEF State
  <2>2. /\ u.threads = s.threads /\ u.rec = s.rec /\ u.status = s.status
        /\ u.preprocessing = s.preprocessing
        /\ u.copies = s.copies /\ u.saving = s.saving /\ u.changing = s.changing
    OBVIOUS
  <2>3. u.transferring = n
    BY <1>1 DEF State
  <2> HIDE DEF u
  <2>4. SlotsOK(u, d, e2)
    BY <1>1, <1>2, <2>2, <2>3 DEF SlotsOK, Of
  <2>5. WatchOK(u, W, c) /\ CopiesOK(u, C, c) /\ HolderOK(u, c)
    BY <1>1, <2>2 DEF WatchOK, Watched, CopiesOK, Wanted, HolderOK
  <2>6. Core(u, d, e2, W, C, N, c)
    BY <2>1, <2>2, <2>4, <2>5, Rebuilt
  <2> QED BY <2>6 DEF u
<1>3. ASSUME NEW d2, n <= PreprocessConcurrency, Cardinality(Of(s, "prepare")) + d2 <= n
      PROVE  Core([s EXCEPT !.preprocessing = n], d2, e, W, C, N, c)
  <2> DEFINE u == [s EXCEPT !.preprocessing = n]
  <2>1. u \in State
    BY <1>1 DEF State
  <2>2. /\ u.threads = s.threads /\ u.rec = s.rec /\ u.status = s.status
        /\ u.transferring = s.transferring
        /\ u.copies = s.copies /\ u.saving = s.saving /\ u.changing = s.changing
    OBVIOUS
  <2>3. u.preprocessing = n
    BY <1>1 DEF State
  <2> HIDE DEF u
  <2>4. SlotsOK(u, d2, e)
    BY <1>1, <1>3, <2>2, <2>3 DEF SlotsOK, Of
  <2>5. WatchOK(u, W, c) /\ CopiesOK(u, C, c) /\ HolderOK(u, c)
    BY <1>1, <2>2 DEF WatchOK, Watched, CopiesOK, Wanted, HolderOK
  <2>6. Core(u, d2, e, W, C, N, c)
    BY <2>1, <2>2, <2>4, <2>5, Rebuilt
  <2> QED BY <2>6 DEF u
<1> QED BY <1>2, <1>3

LEMMA CopiesCore ==
  ASSUME NEW s, NEW d, NEW e, NEW W, NEW C, NEW N, NEW c, Core(s, d, e, W, C, N, c),
         NEW k
  PROVE  Core([s EXCEPT !.copies = @ \ {k}], d, e, W, C \ {k}, N, c)
<1>1. Typed(s) /\ s \in State /\ SlotsOK(s, d, e) /\ WatchOK(s, W, c) /\ CopiesOK(s, C, c) /\ HolderOK(s, c)
  BY DEF Core, Typed
<1> DEFINE u == [s EXCEPT !.copies = s.copies \ {k}]
<1>2. u \in State
  BY <1>1 DEF State
<1>3. /\ u.threads = s.threads /\ u.rec = s.rec /\ u.status = s.status
      /\ u.transferring = s.transferring /\ u.preprocessing = s.preprocessing
      /\ u.saving = s.saving /\ u.changing = s.changing
  OBVIOUS
<1>4. u.copies = s.copies \ {k}
  BY <1>1 DEF State
<1>u. u = [s EXCEPT !.copies = @ \ {k}]
  OBVIOUS
<1> HIDE DEF u
<1>5. SlotsOK(u, d, e) /\ WatchOK(u, W, c) /\ HolderOK(u, c)
  BY <1>1, <1>3 DEF SlotsOK, Of, WatchOK, Watched, HolderOK
<1>6. CopiesOK(u, C \ {k}, c)
  BY <1>1, <1>3, <1>4 DEF CopiesOK, Wanted
<1>7. Core(u, d, e, W, C \ {k}, N, c)
  BY <1>2, <1>3, <1>5, <1>6, Rebuilt
<1> QED BY <1>7, <1>u

(* The manager is paused, or active again. *)
LEMMA StatusCore ==
  ASSUME NEW s, NEW d, NEW e, NEW W, NEW C, NEW N, NEW c, Core(s, d, e, W, C, N, c),
         NEW reason \in {"none", "account", "offline"}
  PROVE  /\ Core([s EXCEPT !.status = "paused", !.reason = reason], d, e, {}, C, N, c)
         /\ Core([s EXCEPT !.status = "active", !.reason = reason], d, e, Keys, C, N, c)
<1>1. Typed(s) /\ s \in State /\ SlotsOK(s, d, e) /\ WatchOK(s, W, c) /\ CopiesOK(s, C, c) /\ HolderOK(s, c)
  BY DEF Core, Typed
<1>2. ASSUME NEW status \in {"active", "paused"}, NEW W2, W2 = IF status = "active" THEN Keys ELSE {}
      PROVE  Core([s EXCEPT !.status = status, !.reason = reason], d, e, W2, C, N, c)
  <2> DEFINE u == [s EXCEPT !.status = status, !.reason = reason]
  <2>1. u \in State
    BY <1>1 DEF State
  <2>2. /\ u.threads = s.threads /\ u.rec = s.rec
        /\ u.transferring = s.transferring /\ u.preprocessing = s.preprocessing
        /\ u.copies = s.copies /\ u.saving = s.saving /\ u.changing = s.changing
    OBVIOUS
  <2>3. u.status = status
    BY <1>1 DEF State
  <2> HIDE DEF u
  <2>4. SlotsOK(u, d, e) /\ CopiesOK(u, C, c) /\ HolderOK(u, c)
    BY <1>1, <2>2 DEF SlotsOK, Of, CopiesOK, Wanted, HolderOK
  <2>5. WatchOK(u, W2, c)
    BY <1>2, <2>3 DEF WatchOK, Watched
  <2>6. Core(u, d, e, W2, C, N, c)
    BY <2>1, <2>2, <2>4, <2>5, Rebuilt
  <2> QED BY <2>6 DEF u
<1> QED BY <1>2

LEMMA StopTransfersCore ==
  ASSUME NEW s, NEW d \in Nat, NEW e \in Nat, NEW W, NEW C, NEW N, NEW c, Core(s, d, e, W, C, N, c),
         NEW k \in Keys
  PROVE  /\ Core(StopTransfers(s, k), d, e, W, C, N, c)
         /\ StopTransfers(s, k).rec = s.rec /\ StopTransfers(s, k).status = s.status
<1> DEFINE T == Transfers(s, k)
           u == OrphanAll(s, T)
           n == Cardinality(T)
<1>1. Typed(s)
  BY DEF Core
<1>2. T \subseteq s.threads /\ T \cap Of(s, "transfer") = T /\ \A t \in T : t.for # "prepare" /\ MayEnd(t, W, C)
  BY DEF Transfers, Of, MayEnd
<1>3. n \in Nat
  BY <1>1, <1>2, FS_Subset, FS_CardinalityType DEF Typed
<1> HIDE DEF T
<1>4. Core(u, d, e + Cardinality(T \cap Of(s, "transfer")), W, C, N, c) /\ Leaves(s, T, u)
  BY <1>2, OrphanAllCore
<1>5. Core(u, d, e + n, W, C, N, c)
  BY <1>2, <1>4
<1>6. StopTransfers(s, k) = [u EXCEPT !.transferring = AtLeastZero(u.transferring - n)]
  BY DEF StopTransfers, T
<1> HIDE DEF u, n
<1>7. Typed(u) /\ SlotsOK(u, d, e + n)
  BY <1>5 DEF Core
<1>8. u.transferring \in Nat /\ Cardinality(Of(u, "transfer")) \in Nat
  BY <1>7, StateFields, OfFinite
<1>9. /\ AtLeastZero(u.transferring - n) \in Nat /\ AtLeastZero(u.transferring - n) <= TransferConcurrency
      /\ Cardinality(Of(u, "transfer")) + e <= AtLeastZero(u.transferring - n)
  BY <1>3, <1>7, <1>8, UploadConstants DEF SlotsOK, AtLeastZero
<1> DEFINE z == AtLeastZero(u.transferring - n)
<1> HIDE DEF z
<1>10. Core([u EXCEPT !.transferring = z], d, e, W, C, N, c)
  BY <1>5, <1>9, SlotsCore DEF z
<1>11. [u EXCEPT !.transferring = z].rec = u.rec /\ [u EXCEPT !.transferring = z].status = u.status
  OBVIOUS
<1>12. u.rec = s.rec /\ u.status = s.status
  BY <1>4, ThreadsSame DEF Leaves
<1> QED BY <1>6, <1>10, <1>11, <1>12 DEF z

-----------------------------------------------------------------------------
(* What may replace the record of k: it keeps its id, or is free to lose it. *)
MayPut(s, k, y, N, c) ==
    /\ y \in Record /\ RecordOK(k, y)
    /\ y.item # 0 \/ ((s.rec[k].item = 0 \/ k \in N) /\ k \notin c.named)
InProgress == {"uploaded", "processing"}
Unwanted == {"ready", "processing", "cancelled"}

LEMMA WithRecord ==
  ASSUME NEW s, Typed(s), NEW k \in Keys, NEW y \in Record
  PROVE  With(s, k, y).rec[k] = y /\ s.rec[k] \in Record
<1>1. s.rec \in [Keys -> Record]
  BY StateFields
<1>2. With(s, k, y).rec = [s.rec EXCEPT ![k] = y]
  BY WithState
<1>3. [s.rec EXCEPT ![k] = y][k] = y
  BY <1>1
<1>4. s.rec[k] \in Record
  BY <1>1
<1> QED BY <1>2, <1>3, <1>4

LEMMA WithTwice ==
  ASSUME NEW s, Typed(s), NEW k \in Keys, NEW y \in Record, NEW z \in Record
  PROVE  With(With(s, k, y), k, z) = With(s, k, z)
<1>1. s.rec \in [Keys -> Record]
  BY StateFields
<1>2. With(s, k, y).rec = [s.rec EXCEPT ![k] = y]
  BY WithState
<1>3. With(With(s, k, y), k, z) = [With(s, k, y) EXCEPT !.rec = [With(s, k, y).rec EXCEPT ![k] = z]]
  BY DEF With
<1>4. [[s.rec EXCEPT ![k] = y] EXCEPT ![k] = z] = [s.rec EXCEPT ![k] = z]
  BY <1>1
<1>5. With(s, k, z) = [s EXCEPT !.rec = [s.rec EXCEPT ![k] = z]]
  BY DEF With
<1>6. With(s, k, y) = [s EXCEPT !.rec = [s.rec EXCEPT ![k] = y]]
  BY DEF With
<1> DEFINE a == [s.rec EXCEPT ![k] = y]
           b == [s.rec EXCEPT ![k] = z]
<1> HIDE DEF a, b
<1>7. [[s EXCEPT !.rec = a] EXCEPT !.rec = b] = [s EXCEPT !.rec = b]
  OBVIOUS
<1> QED BY <1>2, <1>3, <1>4, <1>5, <1>6, <1>7 DEF a, b

LEMMA PatchIsWith ==
  ASSUME NEW s, NEW k, NEW change
  PROVE  Patch(s, k, change) = With(s, k, Changed(s.rec[k], change))
BY DEF Patch, With

(* Its phase and its timer stay. *)
LEMMA PutSame ==
  ASSUME NEW s, NEW d, NEW e, NEW W, NEW C, NEW N, NEW c, Core(s, d, e, W, C, N, c),
         NEW k \in Keys, NEW y, MayPut(s, k, y, N, c),
         y.phase = s.rec[k].phase, y.timer = s.rec[k].timer
  PROVE  Core(With(s, k, y), d, e, W, C, N, c)
<1>1. Typed(s) /\ WatchOK(s, W, c) /\ CopiesOK(s, C, c)
  BY DEF Core
<1> DEFINE u == With(s, k, y)
<1>2. u.rec[k] = y
  BY <1>1, WithRecord DEF MayPut
<1>3. u.status = s.status /\ u.threads = s.threads /\ u.copies = s.copies
  BY WithSame
<1> HIDE DEF u
<1>4. k \in W \/ Watched(u, k, c)
  <2>1. k \in W \/ Watched(s, k, c)
    BY <1>1 DEF WatchOK
  <2> QED BY <2>1, <1>2, <1>3 DEF Watched
<1>5. k \in C \/ Wanted(u, k, c)
  <2>1. k \in C \/ Wanted(s, k, c)
    BY <1>1 DEF CopiesOK
  <2> QED BY <2>1, <1>2, <1>3 DEF Wanted
<1> QED BY <1>4, <1>5, PutCore DEF u, MayPut

(* A phase in which nothing need be watched. *)
LEMMA PutQuiet ==
  ASSUME NEW s, NEW d, NEW e, NEW W, NEW C, NEW N, NEW c, Core(s, d, e, W, C, N, c),
         NEW k \in Keys, NEW y, MayPut(s, k, y, N, c), y.phase \notin InProgress \cup Unwanted
  PROVE  Core(With(s, k, y), d, e, W \ {k}, C, N, c)
<1>1. Typed(s) /\ WatchOK(s, W, c) /\ CopiesOK(s, C, c)
  BY DEF Core
<1> DEFINE u == With(s, k, y)
<1>2. u.rec[k] = y
  BY <1>1, WithRecord DEF MayPut
<1>3. u.status = s.status /\ u.threads = s.threads /\ u.copies = s.copies
  BY WithSame
<1> HIDE DEF u
<1>4. Watched(u, k, c)
  BY <1>2 DEF Watched, InProgress
<1>5. k \in C \/ Wanted(u, k, c)
  <2>1. k \in C \/ Wanted(s, k, c)
    BY <1>1 DEF CopiesOK
  <2> QED BY <2>1, <1>2, <1>3 DEF Wanted, Unwanted
<1> QED BY <1>4, <1>5, PutCore DEF u, MayPut

(* A phase in which there is, or need be, a timer. *)
LEMMA PutWatched ==
  ASSUME NEW s, NEW d, NEW e, NEW W, NEW C, NEW N, NEW c, Core(s, d, e, W, C, N, c),
         NEW k \in Keys, NEW y, MayPut(s, k, y, N, c),
         s.status = "active" /\ y.phase \in InProgress => y.timer,
         y.phase \notin Unwanted \/ y.phase = s.rec[k].phase
  PROVE  Core(With(s, k, y), d, e, W \ {k}, C, N, c)
<1>1. Typed(s) /\ WatchOK(s, W, c) /\ CopiesOK(s, C, c)
  BY DEF Core
<1> DEFINE u == With(s, k, y)
<1>2. u.rec[k] = y
  BY <1>1, WithRecord DEF MayPut
<1>3. u.status = s.status /\ u.threads = s.threads /\ u.copies = s.copies
  BY WithSame
<1> HIDE DEF u
<1>4. Watched(u, k, c)
  BY <1>2, <1>3 DEF Watched, InProgress
<1>5. k \in C \/ Wanted(u, k, c)
  <2>1. k \in C \/ Wanted(s, k, c)
    BY <1>1 DEF CopiesOK
  <2> QED BY <2>1, <1>2, <1>3 DEF Wanted, Unwanted
<1> QED BY <1>4, <1>5, PutCore DEF u, MayPut

(* Any record, to be watched and its copy dropped afterwards. *)
LEMMA PutAny ==
  ASSUME NEW s, NEW d, NEW e, NEW W, NEW C, NEW N, NEW c, Core(s, d, e, W, C, N, c),
         NEW k \in Keys, NEW y, MayPut(s, k, y, N, c)
  PROVE  Core(With(s, k, y), d, e, W \cup {k}, C \cup {k}, N, c)
BY PutCore DEF MayPut

LEMMA ForgetCore ==
  ASSUME NEW s, NEW d, NEW e, NEW W, NEW C, NEW N, NEW c, Core(s, d, e, W, C, N, c),
         NEW k \in Keys
  PROVE  /\ Core(ForgetLocalCopy(s, k), d, e, W, C, N, c)
         /\ ForgetLocalCopy(s, k).rec = s.rec /\ ForgetLocalCopy(s, k).status = s.status
         /\ ForgetLocalCopy(s, k).threads = s.threads
<1> DEFINE u == [s EXCEPT !.copies = @ \ {k}]
<1>1. Core(u, d, e, W, C \ {k}, N, c)
  BY CopiesCore
<1>2. u.rec = s.rec /\ u.status = s.status /\ u.threads = s.threads
  OBVIOUS
<1> HIDE DEF u
<1>3. Core(u, d, e, W, C, N, c)
  BY <1>1, Discharge
<1> QED BY <1>2, <1>3 DEF ForgetLocalCopy, u

LEMMA PutForgotten ==
  ASSUME NEW s, NEW d, NEW e, NEW W, NEW C, NEW N, NEW c, Core(s, d, e, W, C, N, c),
         NEW k \in Keys, NEW y, MayPut(s, k, y, N, c)
  PROVE  LET u == ForgetLocalCopy(With(s, k, y), k)
         IN /\ Core(u, d, e, W \cup {k}, C, N, c)
            /\ y.phase \notin InProgress => Core(u, d, e, W \ {k}, C, N, c)
            /\ u.rec[k] = y /\ u.status = s.status
<1> DEFINE v == With(s, k, y)
           w == [v EXCEPT !.copies = @ \ {k}]
           u == ForgetLocalCopy(v, k)
<1>1. Typed(s) /\ CopiesOK(s, C, c) /\ HolderOK(s, c) /\ s.saving \in BOOLEAN
  BY StateFields DEF Core
<1>2. v.rec[k] = y
  BY <1>1, WithRecord DEF MayPut
<1>3. v.status = s.status /\ v.threads = s.threads /\ v.copies = s.copies /\ v.saving = s.saving
  BY WithSame
<1>4. Core(v, d, e, W \cup {k}, C \cup {k}, N, c)
  BY PutAny
<1> HIDE DEF v
<1>5. Core(w, d, e, W \cup {k}, (C \cup {k}) \ {k}, N, c)
  BY <1>4, CopiesCore
<1>6. w.rec = v.rec /\ w.status = v.status
  OBVIOUS
<1> HIDE DEF w
<1>7. Core(u, d, e, W \cup {k}, C, N, c) /\ u.rec[k] = y /\ u.status = s.status
  <2>1. CASE v.saving
    <3>1. u = w
      BY <2>1 DEF ForgetLocalCopy, w
    <3>2. Core(w, d, e, W \cup {k}, C, N, c)
      BY <1>5, Discharge
    <3> QED BY <3>1, <3>2, <1>2, <1>3, <1>6
  <2>2. CASE ~ v.saving
    <3>1. u = v
      BY <2>2 DEF ForgetLocalCopy
    <3>2. c.holder \notin {"draft", "deleting"}
      BY <2>2, <1>1, <1>3 DEF HolderOK
    <3>3. k \in C \/ Wanted(v, k, c)
      <4>1. k \in C \/ Wanted(s, k, c)
        BY <1>1 DEF CopiesOK
      <4> QED BY <4>1, <3>2, <1>3 DEF Wanted
    <3>4. Core(v, d, e, W \cup {k}, C, N, c)
      BY <1>4, <3>3, Discharge
    <3> QED BY <3>1, <3>4, <1>2, <1>3
  <2> QED BY <2>1, <2>2, <1>1, <1>3
<1> HIDE DEF u
<1>8. ASSUME y.phase \notin InProgress PROVE Core(u, d, e, W \ {k}, C, N, c)
  <2>1. Watched(u, k, c)
    BY <1>7, <1>8 DEF Watched, InProgress
  <2> QED BY <1>7, <2>1, Discharge
<1> QED BY <1>7, <1>8 DEF u, v

(* A record of the same item, and one that is the same but for its timer.   *)
Keeps(y, x) == /\ y \in Record /\ y.item = x.item /\ y.comps = x.comps /\ y.server = x.server
               /\ y.prepared = x.prepared
Alike(y, x) == Keeps(y, x) /\ y.phase = x.phase

LEMMA TimerChanged ==
  ASSUME NEW x \in Record, NEW b \in BOOLEAN
  PROVE  Alike(Changed(x, [timer |-> b]), x) /\ Changed(x, [timer |-> b]).timer = b
BY DEF Changed, Record, Alike, Keeps

LEMMA PhaseChanged ==
  ASSUME NEW x \in Record, NEW p \in ItemPhase, NEW b \in BOOLEAN
  PROVE  /\ Keeps(Changed(x, [phase |-> p]), x) /\ Changed(x, [phase |-> p]).phase = p
         /\ Changed(x, [phase |-> p]).timer = x.timer
         /\ Keeps(Changed(x, [phase |-> p, unknown |-> b]), x)
         /\ Changed(x, [phase |-> p, unknown |-> b]).phase = p
         /\ Changed(x, [phase |-> p, unknown |-> b]).timer = x.timer
BY DEF Changed, Record, Keeps

LEMMA KeepsMayPut ==
  ASSUME NEW s, NEW d, NEW e, NEW W, NEW C, NEW N, NEW c, Core(s, d, e, W, C, N, c),
         NEW k \in Keys, NEW y, Keeps(y, s.rec[k]),
         y.phase \in InProgress => y.item # 0
  PROVE  MayPut(s, k, y, N, c)
<1>1. RecordOK(k, s.rec[k]) /\ (k \in c.named => s.rec[k].item # 0)
  BY DEF Core, RecordsOK
<1>2. RecordOK(k, y)
  BY <1>1 DEF RecordOK, Keeps, InProgress
<1> QED BY <1>1, <1>2 DEF MayPut, Keeps

(* schedulePoll, stopPolling *)
LEMMA PollCore ==
  ASSUME NEW s, NEW d, NEW e, NEW W, NEW C, NEW N, NEW c, Core(s, d, e, W, C, N, c),
         NEW k \in Keys
  PROVE  /\ Core(SchedulePoll(s, k), d, e, W \ {k}, C, N, c)
         /\ \E y : SchedulePoll(s, k) = With(s, k, y) /\ Alike(y, s.rec[k])
<1>1. Typed(s) /\ s.rec[k] \in Record /\ RecordOK(k, s.rec[k])
  BY StateFields DEF Core, RecordsOK
<1>2. CASE s.status = "active" /\ s.rec[k].item # 0
  <2> DEFINE y == Changed(s.rec[k], [timer |-> TRUE])
  <2>1. Alike(y, s.rec[k]) /\ y.timer
    BY <1>1, TimerChanged
  <2>2. SchedulePoll(s, k) = With(s, k, y)
    BY <1>2, PatchIsWith DEF SchedulePoll
  <2> HIDE DEF y
  <2>3. MayPut(s, k, y, N, c)
    BY <2>1, <1>2, KeepsMayPut DEF Alike, Keeps
  <2>4. Core(With(s, k, y), d, e, W \ {k}, C, N, c)
    BY <2>1, <2>3, PutWatched DEF Alike
  <2> QED BY <2>1, <2>2, <2>4
<1>3. CASE ~ (s.status = "active" /\ s.rec[k].item # 0)
  <2>1. SchedulePoll(s, k) = s
    BY <1>3 DEF SchedulePoll
  <2>2. Watched(s, k, c)
    BY <1>1, <1>3 DEF Watched, RecordOK
  <2>3. Core(s, d, e, W \ {k}, C, N, c)
    BY <2>2, Discharge
  <2>4. s = With(s, k, s.rec[k])
    <3>1. s.rec = [s.rec EXCEPT ![k] = s.rec[k]]
      BY <1>1, StateFields
    <3>2. s = [s EXCEPT !.rec = s.rec]
      BY <1>1 DEF Typed, State
    <3> QED BY <3>1, <3>2 DEF With
  <2>5. Alike(s.rec[k], s.rec[k])
    BY <1>1 DEF Alike, Keeps
  <2> QED BY <2>1, <2>3, <2>4, <2>5
<1> QED BY <1>2, <1>3

LEMMA StopPollingCore ==
  ASSUME NEW s, NEW d, NEW e, NEW W, NEW C, NEW N, NEW c, Core(s, d, e, W, C, N, c),
         NEW k \in Keys
  PROVE  /\ Core(StopPolling(s, k), d, e, W \cup {k}, C, N, c)
         /\ \E y : StopPolling(s, k) = With(s, k, y) /\ Alike(y, s.rec[k])
<1>1. Typed(s) /\ s.rec[k] \in Record /\ RecordOK(k, s.rec[k]) /\ CopiesOK(s, C, c)
  BY StateFields DEF Core, RecordsOK
<1> DEFINE y == Changed(s.rec[k], [timer |-> FALSE])
           u == With(s, k, y)
<1>2. Alike(y, s.rec[k])
  BY <1>1, TimerChanged
<1>3. StopPolling(s, k) = u
  BY PatchIsWith DEF StopPolling
<1>4. MayPut(s, k, y, N, c)
  <2> HIDE DEF y
  <2> QED BY <1>1, <1>2, KeepsMayPut DEF Alike, Keeps, RecordOK, InProgress
<1> HIDE DEF y
<1>5. u.rec[k] = y /\ u.threads = s.threads /\ u.copies = s.copies
  BY <1>1, <1>4, WithRecord, WithSame DEF MayPut
<1>6. Core(u, d, e, W \cup {k}, C \cup {k}, N, c)
  BY <1>4, PutAny
<1> HIDE DEF u
<1>7. k \in C \/ Wanted(u, k, c)
  <2>1. k \in C \/ Wanted(s, k, c)
    BY <1>1 DEF CopiesOK
  <2> QED BY <2>1, <1>2, <1>5 DEF Wanted, Alike
<1>8. Core(u, d, e, W \cup {k}, C, N, c)
  BY <1>6, <1>7, Discharge
<1> QED BY <1>2, <1>3, <1>8 DEF u

(* The phase, in which nothing is to be watched. *)
LEMMA PhaseCore ==
  ASSUME NEW s, NEW d, NEW e, NEW W, NEW C, NEW N, NEW c, Core(s, d, e, W, C, N, c),
         NEW k \in Keys, NEW p \in ItemPhase, p \notin InProgress \cup Unwanted
  PROVE  /\ Core(Patch(s, k, [phase |-> p]), d, e, W \ {k}, C, N, c)
         /\ \E y : Patch(s, k, [phase |-> p]) = With(s, k, y) /\ Keeps(y, s.rec[k]) /\ y.phase = p
<1>1. s.rec[k] \in Record
  BY StateFields DEF Core
<1> DEFINE y == Changed(s.rec[k], [phase |-> p])
<1>2. Keeps(y, s.rec[k]) /\ y.phase = p
  BY <1>1, PhaseChanged
<1>3. Patch(s, k, [phase |-> p]) = With(s, k, y)
  BY PatchIsWith
<1> HIDE DEF y
<1>4. MayPut(s, k, y, N, c)
  BY <1>2, KeepsMayPut
<1>5. Core(With(s, k, y), d, e, W \ {k}, C, N, c)
  BY <1>2, <1>4, PutQuiet
<1> QED BY <1>2, <1>3, <1>5

(* The record of k is replaced by one of the same item. *)
Puts(s, k, u) == \E y : u = With(s, k, y) /\ Keeps(y, s.rec[k])
LEMMA PutsSame ==
  ASSUME NEW s, Typed(s), NEW k \in Keys, NEW u, Puts(s, k, u)
  PROVE  /\ u.rec[k] \in Record /\ Keeps(u.rec[k], s.rec[k])
         /\ u.status = s.status /\ u.threads = s.threads
<1>1. PICK y : u = With(s, k, y) /\ Keeps(y, s.rec[k])
  BY DEF Puts
<1>2. With(s, k, y).rec[k] = y /\ y \in Record
  BY <1>1, WithRecord DEF Keeps
<1>3. With(s, k, y).status = s.status /\ With(s, k, y).threads = s.threads
  BY WithSame
<1> QED BY <1>1, <1>2, <1>3

LEMMA FailCore ==
  ASSUME NEW s, NEW d, NEW e, NEW W, NEW C, NEW N, NEW c, Core(s, d, e, W, C, N, c),
         NEW k \in Keys, NEW p \in ItemPhase, p \notin InProgress \cup Unwanted, NEW b \in BOOLEAN
  PROVE  /\ Core(Patch(s, k, [phase |-> p, unknown |-> b]), d, e, W \ {k}, C, N, c)
         /\ Puts(s, k, Patch(s, k, [phase |-> p, unknown |-> b]))
<1>1. s.rec[k] \in Record
  BY StateFields DEF Core
<1> DEFINE y == Changed(s.rec[k], [phase |-> p, unknown |-> b])
<1>2. Keeps(y, s.rec[k]) /\ y.phase = p
  BY <1>1, PhaseChanged
<1>3. Patch(s, k, [phase |-> p, unknown |-> b]) = With(s, k, y)
  BY PatchIsWith
<1> HIDE DEF y
<1>4. MayPut(s, k, y, N, c)
  BY <1>2, KeepsMayPut
<1>5. Core(With(s, k, y), d, e, W \ {k}, C, N, c)
  BY <1>2, <1>4, PutQuiet
<1> QED BY <1>2, <1>3, <1>5 DEF Puts

(* The components of a record. *)
Comps(x, f) == [x EXCEPT !.comps = f]
LEMMA CompsFields ==
  ASSUME NEW x \in Record, NEW f \in [Roles -> ComponentPhase]
  PROVE  LET y == Comps(x, f)
         IN /\ y \in Record /\ y.comps = f /\ y.item = x.item /\ y.server = x.server
            /\ y.prepared = x.prepared /\ y.phase = x.phase /\ y.timer = x.timer
            /\ y.request = x.request
BY DEF Comps, Record

LEMMA CompsCore ==
  ASSUME NEW s, NEW d, NEW e, NEW W, NEW C, NEW N, NEW c, Core(s, d, e, W, C, N, c),
         NEW k \in Keys, NEW f \in [Roles -> ComponentPhase],
         (\E r \in RolesOf(k) : f[r] = "received") => s.rec[k].item # 0
  PROVE  Core(With(s, k, Comps(s.rec[k], f)), d, e, W, C, N, c)
<1>1. s.rec[k] \in Record /\ RecordOK(k, s.rec[k]) /\ (k \in c.named => s.rec[k].item # 0)
  BY StateFields DEF Core, RecordsOK
<1> DEFINE y == Comps(s.rec[k], f)
<1>2. /\ y \in Record /\ y.comps = f /\ y.item = s.rec[k].item /\ y.server = s.rec[k].server
      /\ y.phase = s.rec[k].phase /\ y.timer = s.rec[k].timer
  BY <1>1, CompsFields
<1> HIDE DEF y
<1>3. MayPut(s, k, y, N, c)
  BY <1>1, <1>2 DEF MayPut, RecordOK
<1> QED BY <1>2, <1>3, PutSame DEF y

LEMMA ComponentCore ==
  ASSUME NEW s, NEW d, NEW e, NEW W, NEW C, NEW N, NEW c, Core(s, d, e, W, C, N, c),
         NEW k \in Keys, NEW r \in Roles, NEW p \in ComponentPhase, p # "received"
  PROVE  /\ Core(SetComponent(s, k, r, p), d, e, W, C, N, c)
         /\ \E f \in [Roles -> ComponentPhase] : SetComponent(s, k, r, p) = With(s, k, Comps(s.rec[k], f))
<1> DEFINE g == s.rec[k].comps
           f == [g EXCEPT ![r] = p]
<1>1. g \in [Roles -> ComponentPhase] /\ RecordOK(k, s.rec[k])
  BY StateFields, RecordFields DEF Core, RecordsOK
<1>2. f \in [Roles -> ComponentPhase] /\ \A q \in Roles : f[q] = IF q = r THEN p ELSE g[q]
  BY <1>1
<1>3. SetComponent(s, k, r, p) = With(s, k, Comps(s.rec[k], f))
  BY DEF SetComponent, With, Comps
<1>4. (\E q \in RolesOf(k) : f[q] = "received") => s.rec[k].item # 0
  BY <1>1, <1>2, RolesAre DEF RecordOK
<1> HIDE DEF f, g
<1> QED BY <1>2, <1>3, <1>4, CompsCore

(* derivePhase *)
LEMMA DerivedIs ==
  ASSUME NEW k \in Keys, NEW comps \in [Roles -> ComponentPhase]
  PROVE  /\ Derived(k, comps) \in {"uploading", "queued", "failed", "paused", "missing_local", "uploaded"}
         /\ Derived(k, comps) = "uploaded" => \A r \in RolesOf(k) : comps[r] = "received"
<1> DEFINE here == {i \in 1..5 : \E r \in RolesOf(k) :
                      (IF comps[r] = "interrupted" THEN "failed" ELSE comps[r]) = ShownFirst[i]}
<1>1. Derived(k, comps) = IF here # {} THEN ShownFirst[Min(here)]
                          ELSE IF \A r \in RolesOf(k) : comps[r] = "received" THEN "uploaded" ELSE "queued"
  BY DEF Derived
<1>2. here \subseteq 1..5
  OBVIOUS
<1> HIDE DEF here
<1>3. CASE here # {}
  <2>1. here \in SUBSET Nat
    BY <1>2
  <2>2. PICK n \in here : \A i \in here : ~ (i < n)
    BY <1>3, <2>1, LeastNumber
  <2>3. \A i \in here : n <= i
    BY <1>2, <2>2
  <2>4. Min(here) \in here
    BY <2>3 DEF Min
  <2>5. Min(here) \in 1..5
    BY <1>2, <2>4
  <2>6. \A i \in 1..5 : ShownFirst[i] \in {"uploading", "queued", "failed", "paused", "missing_local"}
    BY DEF ShownFirst
  <2> QED BY <1>1, <1>3, <2>5, <2>6
<1>4. CASE here = {}
  BY <1>1, <1>4
<1> QED BY <1>3, <1>4

LEMMA Itself ==
  ASSUME NEW s, Typed(s), NEW k \in Keys
  PROVE  s = With(s, k, s.rec[k]) /\ Alike(s.rec[k], s.rec[k])
<1>1. s.rec \in [Keys -> Record]
  BY StateFields
<1>2. s.rec = [s.rec EXCEPT ![k] = s.rec[k]]
  BY <1>1
<1>3. s = [s EXCEPT !.rec = s.rec]
  BY DEF Typed, State
<1>4. s.rec[k] \in Record
  BY <1>1
<1> QED BY <1>2, <1>3, <1>4 DEF With, Alike, Keeps

LEMMA KeepsTwice ==
  ASSUME NEW s, Typed(s), NEW k \in Keys, NEW y, NEW z, Keeps(y, s.rec[k]), Keeps(z, y)
  PROVE  With(With(s, k, y), k, z) = With(s, k, z) /\ Keeps(z, s.rec[k])
BY WithTwice DEF Keeps

LEMMA DeriveCore ==
  ASSUME NEW s, NEW d, NEW e, NEW W, NEW C, NEW N, NEW c, Core(s, d, e, W, C, N, c),
         NEW k \in Keys
  PROVE  /\ Core(DerivePhase(s, k), d, e, W, C, N, c)
         /\ \E y : DerivePhase(s, k) = With(s, k, y) /\ Keeps(y, s.rec[k])
<1> DEFINE x == s.rec[k]
           next == Derived(k, x.comps)
           y == Changed(x, [phase |-> next, unknown |-> FALSE])
           u == With(s, k, y)
<1>1. Typed(s) /\ x \in Record /\ RecordOK(k, x) /\ x.comps \in [Roles -> ComponentPhase]
  BY StateFields, RecordFields DEF Core, RecordsOK
<1>2. CASE Settled(x)
  <2>1. DerivePhase(s, k) = s
    BY <1>2 DEF DerivePhase
  <2> HIDE DEF x
  <2> QED BY <2>1, <1>1, Itself DEF Alike, x
<1>3. CASE ~ Settled(x)
  <2>1. /\ next \in {"uploading", "queued", "failed", "paused", "missing_local", "uploaded"}
        /\ next = "uploaded" => \A r \in RolesOf(k) : x.comps[r] = "received"
    BY <1>1, DerivedIs
  <2>2. next \in ItemPhase /\ next \notin Unwanted /\ (next \in InProgress => next = "uploaded")
    BY <2>1 DEF ItemPhase, Unwanted, InProgress
  <2>3. DerivePhase(s, k) = IF next = "uploaded" THEN SchedulePoll(u, k) ELSE u
    <3>1. Patch(s, k, [phase |-> next, unknown |-> FALSE]) = u
      BY PatchIsWith
    <3> HIDE DEF u, next
    <3> QED BY <1>3, <3>1 DEF DerivePhase, next, x
  <2> HIDE DEF next
  <2>4. Keeps(y, x) /\ y.phase = next
    BY <1>1, <2>2, PhaseChanged
  <2> HIDE DEF y
  <2>5. y.phase \in InProgress => y.item # 0
    BY <2>1, <2>2, <2>4, <1>1, RolesAre DEF RecordOK, Keeps
  <2>6. MayPut(s, k, y, N, c)
    BY <2>4, <2>5, KeepsMayPut
  <2>7. y \in Record
    BY <2>4 DEF Keeps
  <2>8. CASE next = "uploaded"
    <3>1. Core(u, d, e, W \cup {k}, C \cup {k}, N, c)
      BY <2>6, PutAny
    <3>2. u.rec[k] = y /\ u.threads = s.threads /\ u.copies = s.copies
      BY <1>1, <2>7, WithRecord, WithSame
    <3> HIDE DEF u
    <3>3. k \in C \/ Wanted(u, k, c)
      <4>1. k \in C \/ Wanted(s, k, c)
        BY DEF Core, CopiesOK
      <4> QED BY <4>1, <2>2, <2>4, <3>2 DEF Wanted, Unwanted
    <3>4. Core(u, d, e, W \cup {k}, C, N, c)
      BY <3>1, <3>3, Discharge
    <3>5. /\ Core(SchedulePoll(u, k), d, e, (W \cup {k}) \ {k}, C, N, c)
          /\ \E z : SchedulePoll(u, k) = With(u, k, z) /\ Alike(z, u.rec[k])
      BY <3>4, PollCore
    <3>6. PICK z : SchedulePoll(u, k) = With(u, k, z) /\ Keeps(z, y)
      BY <3>5, <3>2 DEF Alike
    <3>7. Core(SchedulePoll(u, k), d, e, W, C, N, c)
      BY <3>5, Discharge
    <3>8. With(u, k, z) = With(s, k, z) /\ Keeps(z, x)
      BY <1>1, <2>4, <3>6, KeepsTwice DEF u, x
    <3> QED BY <2>3, <2>8, <3>6, <3>7, <3>8 DEF x
  <2>9. CASE next # "uploaded"
    <3>1. Core(u, d, e, W \ {k}, C, N, c)
      BY <2>9, <2>2, <2>4, <2>6, PutQuiet
    <3> HIDE DEF u
    <3>2. Core(u, d, e, W, C, N, c)
      BY <3>1, Discharge
    <3> QED BY <2>3, <2>4, <2>9, <3>2 DEF u, x
  <2> QED BY <2>8, <2>9
<1> QED BY <1>2, <1>3

LEMMA PatchWith ==
  ASSUME NEW s, Typed(s), NEW k \in Keys, NEW y \in Record, NEW change, Changed(y, change) \in Record
  PROVE  Patch(With(s, k, y), k, change) = With(s, k, Changed(y, change))
<1>1. With(s, k, y).rec[k] = y
  BY WithRecord
<1>2. Patch(With(s, k, y), k, change) = With(With(s, k, y), k, Changed(y, change))
  BY <1>1, PatchIsWith
<1> QED BY <1>2, WithTwice

-----------------------------------------------------------------------------
(* What of a record an account's answer settles. *)
Holds(y, i, server) == y \in Record /\ y.item = i /\ y.server = server.state
LEMMA HoldsAfter ==
  ASSUME NEW x \in Record, NEW i \in 1..MaxRegistrations, NEW server \in Item, Holds(x, i, server),
         NEW p \in ItemPhase
  PROVE  /\ Holds(Changed(x, [timer |-> FALSE]), i, server)
         /\ Holds(Changed(x, [phase |-> p]), i, server) /\ Changed(x, [phase |-> p]).phase = p
         /\ Holds(Changed(x, [phase |-> p, unknown |-> FALSE]), i, server)
         /\ Changed(x, [phase |-> p, unknown |-> FALSE]).phase = p
         /\ Holds(Changed(x, [prepared |-> FALSE]), i, server)
         /\ Changed(x, [prepared |-> FALSE]).phase = x.phase
BY DEF Changed, Record, Holds

LEMMA HoldsMayPut ==
  ASSUME NEW s, NEW N, NEW c, NEW k, NEW y, NEW i \in 1..MaxRegistrations, NEW server \in Item,
         Holds(y, i, server)
  PROVE  MayPut(s, k, y, N, c)
<1>1. y.item # 0
  BY UploadConstants DEF Holds
<1> QED BY <1>1 DEF MayPut, RecordOK, Holds

(* applyServerItem *)
LEMMA ApplyCore ==
  ASSUME NEW s, NEW d, NEW e, NEW W, NEW C, NEW N, NEW c, Core(s, d, e, W, C, N, c),
         NEW k \in Keys, NEW i \in 1..MaxRegistrations, NEW server \in Item, NEW keep
  PROVE  Core(ApplyServerItem(s, k, i, server, keep), d, e, W, C, N, c)
<1> DEFINE x == s.rec[k]
           x1 == Changed(x, [item |-> i, server |-> server.state])
           f == [r \in Roles |->
                   IF r \in RolesOf(k)
                   THEN IF server.comps[r] = "received" /\ r \notin keep THEN "received"
                        ELSE IF server.comps[r] = "cancelled" THEN "cancelled" ELSE x.comps[r]
                   ELSE x.comps[r]]
           y == Comps(x1, f)
           merged == With(s, k, y)
           done(p) == Changed(Changed(y, [timer |-> FALSE]), [phase |-> p, unknown |-> FALSE])
           u == ApplyServerItem(s, k, i, server, keep)
<1>1. Typed(s) /\ x \in Record /\ x.comps \in [Roles -> ComponentPhase]
  BY StateFields, RecordFields DEF Core
<1>2. i \in 0..MaxRegistrations /\ server.state \in ItemState /\ server.comps \in [Roles -> {"awaiting", "receiving", "received", "cancelled"}]
  BY UploadConstants DEF Item
<1>3. /\ x1 \in Record /\ x1.item = i /\ x1.server = server.state /\ x1.comps = x.comps
      /\ x1.phase = x.phase /\ x1.timer = x.timer
  <2> HIDE DEF x
  <2> QED BY <1>1, <1>2 DEF Changed, Record
<1>4. f \in [Roles -> ComponentPhase]
  <2>1. "received" \in ComponentPhase /\ "cancelled" \in ComponentPhase
    BY DEF ComponentPhase
  <2> HIDE DEF x
  <2> QED BY <1>1, <2>1
<1>5. SetComponents(Patch(s, k, [item |-> i, server |-> server.state]), k,
                    LAMBDA r : IF server.comps[r] = "received" /\ r \notin keep THEN "received"
                               ELSE IF server.comps[r] = "cancelled" THEN "cancelled"
                               ELSE s.rec[k].comps[r]) = merged
  <2> DEFINE v == With(s, k, x1)
  <2>1. Patch(s, k, [item |-> i, server |-> server.state]) = v
    BY PatchIsWith
  <2>2. v.rec[k] = x1
    BY <1>1, <1>3, WithRecord
  <2>3. y \in Record
    BY <1>3, <1>4, CompsFields
  <2>4. With(v, k, y) = merged
    BY <1>1, <1>3, <2>3, WithTwice
  <2> HIDE DEF v, x1
  <2>5. SetComponents(v, k, LAMBDA r : IF server.comps[r] = "received" /\ r \notin keep THEN "received"
                               ELSE IF server.comps[r] = "cancelled" THEN "cancelled"
                               ELSE s.rec[k].comps[r])
        = [v EXCEPT !.rec[k].comps = f]
    BY <2>2, <1>3 DEF SetComponents
  <2>6. [v EXCEPT !.rec[k].comps = f] = With(v, k, y)
    BY <2>2 DEF With, Comps
  <2> QED BY <2>1, <2>4, <2>5, <2>6
<1>6. Holds(y, i, server) /\ y.phase = x.phase /\ y.timer = x.timer
  BY <1>3, <1>4, CompsFields DEF Holds
<1> HIDE DEF f, x1, y
<1>7. y \in Record
  BY <1>6 DEF Holds
<1>8. \A p \in ItemPhase : /\ Holds(done(p), i, server) /\ done(p).phase = p
                           /\ Patch(StopPolling(merged, k), k, [phase |-> p, unknown |-> FALSE]) = With(s, k, done(p))
  <2> TAKE p \in ItemPhase
  <2> DEFINE z == Changed(y, [timer |-> FALSE])
  <2>1. Holds(z, i, server)
    BY <1>6, <1>7, HoldsAfter
  <2>2. z \in Record
    BY <2>1 DEF Holds
  <2>3. StopPolling(merged, k) = With(s, k, z)
    BY <1>1, <1>7, <2>2, PatchWith DEF StopPolling
  <2> HIDE DEF z
  <2>4. /\ Holds(Changed(z, [phase |-> p, unknown |-> FALSE]), i, server)
        /\ Changed(z, [phase |-> p, unknown |-> FALSE]).phase = p
    BY <2>1, <2>2, HoldsAfter
  <2>5. Changed(z, [phase |-> p, unknown |-> FALSE]) \in Record
    BY <2>4 DEF Holds
  <2>6. Patch(With(s, k, z), k, [phase |-> p, unknown |-> FALSE])
          = With(s, k, Changed(z, [phase |-> p, unknown |-> FALSE]))
    BY <1>1, <2>2, <2>5, PatchWith
  <2> QED BY <2>3, <2>4, <2>6 DEF z
<1>9. {"ready", "processing", "failed", "cancelled"} \subseteq ItemPhase
  BY DEF ItemPhase
<1>10. u = CASE server.state = "ready" ->
                 ForgetLocalCopy(Patch(With(s, k, done("ready")), k, [prepared |-> FALSE]), k)
            [] server.state = "processing" ->
                 SchedulePoll(ForgetLocalCopy(Patch(merged, k, [phase |-> "processing"]), k), k)
            [] server.state \in {"failed", "refused"} -> With(s, k, done("failed"))
            [] server.state = "cancelled" -> ForgetLocalCopy(With(s, k, done("cancelled")), k)
            [] OTHER -> DerivePhase(merged, k)
  <2>1. u = CASE server.state = "ready" ->
                 ForgetLocalCopy(Patch(Patch(StopPolling(merged, k), k, [phase |-> "ready", unknown |-> FALSE]), k, [prepared |-> FALSE]), k)
            [] server.state = "processing" ->
                 SchedulePoll(ForgetLocalCopy(Patch(merged, k, [phase |-> "processing"]), k), k)
            [] server.state \in {"failed", "refused"} -> Patch(StopPolling(merged, k), k, [phase |-> "failed", unknown |-> FALSE])
            [] server.state = "cancelled" -> ForgetLocalCopy(Patch(StopPolling(merged, k), k, [phase |-> "cancelled", unknown |-> FALSE]), k)
            [] OTHER -> DerivePhase(merged, k)
    <3> HIDE DEF merged
    <3> QED BY Zenon, <1>5 DEF ApplyServerItem
  <2>2. /\ Patch(StopPolling(merged, k), k, [phase |-> "ready", unknown |-> FALSE]) = With(s, k, done("ready"))
        /\ Patch(StopPolling(merged, k), k, [phase |-> "failed", unknown |-> FALSE]) = With(s, k, done("failed"))
        /\ Patch(StopPolling(merged, k), k, [phase |-> "cancelled", unknown |-> FALSE]) = With(s, k, done("cancelled"))
    BY <1>8, <1>9
  <2> HIDE DEF done, merged, u
  <2> QED BY <2>1, <2>2
<1>11. \A p \in ItemPhase : done(p) \in Record /\ MayPut(s, k, done(p), N, c)
  <2> HIDE DEF done
  <2> QED BY <1>8, HoldsMayPut DEF Holds
<1>12. CASE server.state = "ready"
  <2> DEFINE z == Changed(done("ready"), [prepared |-> FALSE])
  <2>1. Holds(z, i, server) /\ z.phase = "ready"
    <3> HIDE DEF done
    <3> QED BY <1>8, <1>9, <1>11, HoldsAfter
  <2>2. Patch(With(s, k, done("ready")), k, [prepared |-> FALSE]) = With(s, k, z)
    <3>1. z \in Record
      BY <2>1 DEF Holds
    <3> HIDE DEF done
    <3> QED BY <3>1, <1>1, <1>9, <1>11, PatchWith
  <2> HIDE DEF z, done
  <2>3. u = ForgetLocalCopy(With(s, k, z), k)
    BY <1>10, <1>12, <2>2
  <2>4. MayPut(s, k, z, N, c)
    BY <2>1, HoldsMayPut
  <2>5. Core(ForgetLocalCopy(With(s, k, z), k), d, e, W \ {k}, C, N, c)
    BY <2>1, <2>4, PutForgotten DEF InProgress
  <2>6. Core(ForgetLocalCopy(With(s, k, z), k), d, e, W, C, N, c)
    BY <2>5, Discharge
  <2> QED BY <2>3, <2>6
<1>13. CASE server.state = "processing"
  <2> DEFINE z == Changed(y, [phase |-> "processing"])
             v == ForgetLocalCopy(With(s, k, z), k)
  <2>1. Holds(z, i, server)
    BY <1>6, <1>7, <1>9, HoldsAfter
  <2>2. Patch(merged, k, [phase |-> "processing"]) = With(s, k, z)
    <3>1. z \in Record
      BY <2>1 DEF Holds
    <3> QED BY <3>1, <1>1, <1>7, PatchWith
  <2> HIDE DEF z
  <2>3. u = SchedulePoll(v, k)
    <3> HIDE DEF u, merged, done
    <3> QED BY <1>10, <1>13, <2>2
  <2>4. MayPut(s, k, z, N, c)
    BY <2>1, HoldsMayPut
  <2>5. Core(v, d, e, W \cup {k}, C, N, c)
    BY <2>4, PutForgotten
  <2> HIDE DEF v
  <2>6. Core(SchedulePoll(v, k), d, e, (W \cup {k}) \ {k}, C, N, c)
    BY <2>5, PollCore
  <2>7. Core(SchedulePoll(v, k), d, e, W, C, N, c)
    BY <2>6, Discharge
  <2> QED BY <2>3, <2>7
<1>14. CASE server.state \in {"failed", "refused"}
  <2>1. MayPut(s, k, done("failed"), N, c) /\ done("failed").phase = "failed"
    <3> HIDE DEF done
    <3> QED BY <1>8, <1>9, <1>11
  <2> HIDE DEF done
  <2>2. u = With(s, k, done("failed"))
    <3> HIDE DEF u
    <3> QED BY <1>10, <1>14
  <2>3. Core(With(s, k, done("failed")), d, e, W \ {k}, C, N, c)
    BY <2>1, PutQuiet DEF InProgress, Unwanted
  <2>4. Core(With(s, k, done("failed")), d, e, W, C, N, c)
    BY <2>3, Discharge
  <2> QED BY <2>2, <2>4
<1>15. CASE server.state = "cancelled"
  <2>1. MayPut(s, k, done("cancelled"), N, c) /\ done("cancelled").phase = "cancelled"
    <3> HIDE DEF done
    <3> QED BY <1>8, <1>9, <1>11
  <2> HIDE DEF done
  <2>2. u = ForgetLocalCopy(With(s, k, done("cancelled")), k)
    <3> HIDE DEF u
    <3> QED BY <1>10, <1>15
  <2>3. Core(ForgetLocalCopy(With(s, k, done("cancelled")), k), d, e, W \ {k}, C, N, c)
    BY <2>1, PutForgotten DEF InProgress
  <2>4. Core(ForgetLocalCopy(With(s, k, done("cancelled")), k), d, e, W, C, N, c)
    BY <2>3, Discharge
  <2> QED BY <2>2, <2>4
<1>16. CASE server.state \notin {"ready", "processing", "failed", "refused", "cancelled"}
  <2>1. u = DerivePhase(merged, k)
    <3> HIDE DEF u, done, merged
    <3> QED BY <1>10, <1>16
  <2>2. MayPut(s, k, y, N, c)
    BY <1>6, HoldsMayPut
  <2>3. Core(merged, d, e, W, C, N, c)
    BY <1>6, <2>2, PutSame
  <2> HIDE DEF merged
  <2>4. Core(DerivePhase(merged, k), d, e, W, C, N, c)
    BY <2>3, DeriveCore
  <2> QED BY <2>1, <2>4
<1> QED BY <1>12, <1>13, <1>14, <1>15, <1>16

-----------------------------------------------------------------------------
(* While the manager is paused nothing need be watched. *)
LEMMA PausedCore ==
  ASSUME NEW s, NEW d, NEW e, NEW W, NEW C, NEW N, NEW c, Core(s, d, e, W, C, N, c),
         s.status = "paused"
  PROVE  Core(s, d, e, {}, C, N, c)
BY Discharge DEF Watched

LEMMA FencedCore ==
  ASSUME NEW s, NEW d \in Nat, NEW e \in Nat, NEW W, NEW C, NEW N, NEW c, Core(s, d, e, W, C, N, c),
         NEW k \in Keys
  PROVE  Core(Renew(s, k), d, e, W \cup {k}, C, N, c)
<1>1. Core(s, d, e, W \cup {k}, C, N, c)
  BY Discharge
<1> DEFINE u == Renew(s, k)
<1>2. Core(u, d, e, W \cup {k}, C, N \cup {k}, c)
  BY <1>1, RenewCore
<1> HIDE DEF u
<1>3. Core(u, d, e, W \cup {k}, C, N, c)
  BY <1>2, Weaken
<1> QED BY <1>3 DEF u

LEMMA RenewSame ==
  ASSUME NEW s, NEW d \in Nat, NEW e \in Nat, NEW W, NEW C, NEW N, NEW c, Core(s, d, e, W, C, N, c),
         NEW k \in Keys
  PROVE  Renew(s, k).rec = s.rec /\ Renew(s, k).status = s.status
<1>1. Core(s, d, e, W \cup {k}, C, N, c)
  BY Discharge
<1> DEFINE u == Renew(s, k)
           T == u.threads
<1>2. u = Threads(s, T)
  <2>1. k \in W \cup {k}
    OBVIOUS
  <2>2. Core(Renew(s, k), d, e, W \cup {k}, C, N \cup {k}, c) /\ Renew(s, k) = Threads(s, Renew(s, k).threads)
    BY <1>1, <2>1, RenewCore
  <2> QED BY <2>2
<1>3. Threads(s, T).rec = s.rec /\ Threads(s, T).status = s.status
  BY ThreadsSame
<1> HIDE DEF u, T
<1>4. u.rec = s.rec /\ u.status = s.status
  BY <1>2, <1>3
<1> QED BY <1>4 DEF u

(* pause, of one item *)
LEMMA PauseItemCore ==
  ASSUME NEW s, NEW d \in Nat, NEW e \in Nat, NEW C, NEW N, NEW c, Core(s, d, e, {}, C, N, c),
         NEW k \in Keys, s.status = "paused"
  PROVE  Core(PauseItem(s, k), d, e, {}, C, N, c) /\ PauseItem(s, k).status = "paused"
<1> DEFINE x == s.rec[k]
           quiet == StopPolling(s, k)
           stopped == StopTransfers(quiet, k)
           renewed == Renew(stopped, k)
           waiting == IF x.phase = "preprocessing" THEN Patch(renewed, k, [phase |-> "waiting"]) ELSE stopped
           g == waiting.rec[k].comps
           f == [r \in Roles |-> IF r \in RolesOf(k)
                                 THEN IF x.comps[r] \in {"uploading", "queued"} THEN "paused" ELSE x.comps[r]
                                 ELSE g[r]]
           resumable == IF x.item # 0 /\ x.phase \notin Terminal
                        THEN With(waiting, k, Comps(waiting.rec[k], f)) ELSE waiting
<1>1. Typed(s) /\ x \in Record /\ x.comps \in [Roles -> ComponentPhase]
  BY StateFields, RecordFields DEF Core
<1>2. Core(quiet, d, e, {k}, C, N, c) /\ quiet.status = "paused" /\ quiet.rec[k].item = x.item
  <2>1. /\ Core(quiet, d, e, {} \cup {k}, C, N, c)
        /\ \E y : quiet = With(s, k, y) /\ Alike(y, x)
    BY StopPollingCore
  <2>2. PICK y : quiet = With(s, k, y) /\ Alike(y, x)
    BY <2>1
  <2>3. With(s, k, y).rec[k] = y /\ With(s, k, y).status = s.status
    BY <1>1, <2>2, WithRecord, WithSame DEF Alike, Keeps
  <2>4. {} \cup {k} = {k}
    OBVIOUS
  <2> HIDE DEF quiet, x
  <2> QED BY <2>1, <2>2, <2>3, <2>4 DEF Alike, Keeps
<1> HIDE DEF quiet
<1>3. Core(stopped, d, e, {}, C, N, c) /\ stopped.status = "paused" /\ stopped.rec[k].item = x.item
  <2>1. /\ Core(stopped, d, e, {k}, C, N, c)
        /\ stopped.rec = quiet.rec /\ stopped.status = quiet.status
    BY <1>2, StopTransfersCore
  <2> HIDE DEF stopped, x
  <2> QED BY <1>2, <2>1, PausedCore
<1> HIDE DEF stopped
<1>4. Core(waiting, d, e, {}, C, N, c) /\ waiting.status = "paused" /\ waiting.rec[k].item = x.item
  <2>1. CASE x.phase = "preprocessing"
    <3>1. /\ Core(renewed, d, e, {} \cup {k}, C, N, c)
          /\ renewed.rec = stopped.rec /\ renewed.status = stopped.status
      BY <1>3, FencedCore, RenewSame
    <3> HIDE DEF renewed
    <3>2. Core(renewed, d, e, {}, C, N, c) /\ Typed(renewed)
      BY <3>1, <1>3, PausedCore DEF Core
    <3> DEFINE v == Patch(renewed, k, [phase |-> "waiting"])
    <3>3. "waiting" \in ItemPhase \ (InProgress \cup Unwanted)
      BY DEF ItemPhase, InProgress, Unwanted
    <3>4. /\ Core(v, d, e, {} \ {k}, C, N, c)
          /\ \E y : v = With(renewed, k, y) /\ Keeps(y, renewed.rec[k]) /\ y.phase = "waiting"
      BY <3>2, <3>3, PhaseCore
    <3>5. PICK y : v = With(renewed, k, y) /\ Keeps(y, renewed.rec[k])
      BY <3>4
    <3>6. With(renewed, k, y).rec[k] = y /\ With(renewed, k, y).status = renewed.status
      BY <3>2, <3>5, WithRecord, WithSame DEF Keeps
    <3> HIDE DEF v
    <3>7. Core(v, d, e, {}, C, N, c)
      BY <3>4, Discharge
    <3>8. v.status = "paused" /\ v.rec[k].item = x.item
      <4> HIDE DEF x
      <4> QED BY <3>1, <3>5, <3>6, <1>3 DEF Keeps
    <3>9. waiting = v
      BY <2>1 DEF v
    <3> HIDE DEF waiting
    <3> QED BY <3>7, <3>8, <3>9
  <2>2. CASE x.phase # "preprocessing"
    <3>1. waiting = stopped
      BY <2>2
    <3> HIDE DEF waiting
    <3> QED BY <3>1, <1>3
  <2> QED BY <2>1, <2>2
<1> HIDE DEF waiting
<1>5. Core(resumable, d, e, {}, C, N, c) /\ resumable.status = "paused"
  <2>1. CASE x.item # 0 /\ x.phase \notin Terminal
    <3>1. Typed(waiting) /\ g \in [Roles -> ComponentPhase]
      BY <1>4, StateFields, RecordFields DEF Core
    <3>2. f \in [Roles -> ComponentPhase]
      <4>1. "paused" \in ComponentPhase
        BY DEF ComponentPhase
      <4> HIDE DEF x, g
      <4> QED BY <4>1, <1>1, <3>1
    <3> HIDE DEF f
    <3>3. Core(With(waiting, k, Comps(waiting.rec[k], f)), d, e, {}, C, N, c)
      BY <2>1, <1>4, <3>2, CompsCore
    <3>4. With(waiting, k, Comps(waiting.rec[k], f)).status = waiting.status
      BY WithSame
    <3>5. resumable = With(waiting, k, Comps(waiting.rec[k], f))
      BY <2>1
    <3> HIDE DEF resumable
    <3> QED BY <3>3, <3>4, <3>5, <1>4
  <2>2. CASE ~ (x.item # 0 /\ x.phase \notin Terminal)
    <3>1. resumable = waiting
      BY <2>2
    <3> HIDE DEF resumable
    <3> QED BY <3>1, <1>4
  <2> QED BY <2>1, <2>2
<1>6. PauseItem(s, k) = IF x.phase = "absent" THEN s ELSE DerivePhase(resumable, k)
  <2>1. SetComponents(waiting, k, LAMBDA r : IF x.comps[r] \in {"uploading", "queued"} THEN "paused" ELSE x.comps[r])
        = With(waiting, k, Comps(waiting.rec[k], f))
    <3> HIDE DEF x
    <3> QED BY DEF SetComponents, With, Comps
  <2> HIDE DEF f
  <2> QED BY <2>1 DEF PauseItem, waiting, stopped, quiet
<1> HIDE DEF resumable
<1>7. Core(DerivePhase(resumable, k), d, e, {}, C, N, c) /\ DerivePhase(resumable, k).status = "paused"
  <2>1. PICK y : DerivePhase(resumable, k) = With(resumable, k, y)
    BY <1>5, DeriveCore
  <2>2. With(resumable, k, y).status = resumable.status
    BY WithSame
  <2> QED BY <2>1, <2>2, <1>5, DeriveCore
<1> QED BY <1>6, <1>7

(* pause *)
LEMMA PauseCore ==
  ASSUME NEW s, NEW d \in Nat, NEW e \in Nat, NEW W, NEW C, NEW N, NEW c, Core(s, d, e, W, C, N, c),
         NEW reason \in {"none", "account", "offline"}
  PROVE  Core(Pause(s, reason), d, e, {}, C, N, c) /\ Pause(s, reason).status = "paused"
<1> DEFINE paused == [s EXCEPT !.status = "paused", !.reason = reason]
           items == FoldSet(LAMBDA k, u : PauseItem(u, k), paused, Keys)
           op(k, u) == PauseItem(u, k)
           Inv == [X \in SUBSET Keys |->
                     {u \in State : Core(u, d, e, {}, C, N, c) /\ u.status = "paused"}]
<1>finite. IsFiniteSet(Keys)
  BY UploadConstants
<1>base. paused \in Inv[{}]
  <2>1. Core(paused, d, e, {}, C, N, c)
    BY StatusCore
  <2>2. paused.status = "paused"
    <3>1. s \in State
      BY DEF Core, Typed
    <3> QED BY <3>1 DEF State
  <2> HIDE DEF paused
  <2>3. paused \in State
    BY <2>1 DEF Core, Typed
  <2> QED BY <2>1, <2>2, <2>3
<1>step. \A X \in SUBSET Keys : \A x \in X : \A v \in Inv[X \ {x}] : op(x, v) \in Inv[X]
  <2> SUFFICES ASSUME NEW X \in SUBSET Keys, NEW x \in X, NEW v \in Inv[X \ {x}]
               PROVE  op(x, v) \in Inv[X]
    OBVIOUS
  <2>1. Core(v, d, e, {}, C, N, c) /\ v.status = "paused" /\ x \in Keys
    OBVIOUS
  <2>2. Core(PauseItem(v, x), d, e, {}, C, N, c) /\ PauseItem(v, x).status = "paused"
    <3> HIDE DEF Inv
    <3> QED BY <2>1, PauseItemCore
  <2>3. PauseItem(v, x) \in State
    BY <2>2 DEF Core, Typed
  <2> QED BY <2>2, <2>3
<1>full. Inv[Keys] = {u \in State : Core(u, d, e, {}, C, N, c) /\ u.status = "paused"}
  OBVIOUS
<1> HIDE DEF paused
<1> HIDE DEF op, Inv
<1> DEFINE dom == UNION {Inv[X] : X \in SUBSET Keys}
           F == [p \in Keys \X dom |-> op(p[1], p[2])]
           ch == Firsts(Keys)
           it(g) == g = [X \in SUBSET Keys |-> IF X = {} THEN paused
                           ELSE op(CHOOSE x \in X : TRUE, g[X \ {CHOOSE x \in X : TRUE}])]
           h == CHOOSE g : it(g)
<1>f1. \A X \in SUBSET Keys : \A x \in X : \A v \in Inv[X \ {x}] : F[<<x, v>>] = op(x, v)
  OBVIOUS
<1>f2. \A X \in SUBSET Keys : X # {} => ch[X] = (CHOOSE x \in X : TRUE) /\ ch[X] \in X
  BY DEF Firsts
<1> HIDE DEF F, ch
<1>f3. Chooses(ch, Keys) /\ Steps(F, Keys, Inv)
  BY <1>step, <1>f1, FirstsChoose DEF Steps, ch
<1>f4. PICK g : Follows(g, Keys, F, paused, ch) /\ Within(g, Keys, Inv)
  <2> HIDE DEF dom, it, h
  <2> QED BY <1>finite, <1>base, <1>f3, FoldIn
<1>f5. ASSUME NEW X \in SUBSET Keys
      PROVE  g[X] = IF X = {} THEN paused ELSE op(CHOOSE x \in X : TRUE, g[X \ {CHOOSE x \in X : TRUE}])
  <2>1. g[X] = IF X = {} THEN paused ELSE F[<<ch[X], g[X \ {ch[X]}]>>]
    BY <1>f4 DEF Follows, StepOf, Rest
  <2>2. CASE X # {}
    <3>1. X \ {ch[X]} \in SUBSET Keys /\ g[X \ {ch[X]}] \in Inv[X \ {ch[X]}]
      BY <1>f4 DEF Within
    <3>2. F[<<ch[X], g[X \ {ch[X]}]>>] = op(ch[X], g[X \ {ch[X]}])
      BY <1>f1, <1>f2, <2>2, <3>1
    <3> QED BY <1>f2, <2>1, <2>2, <3>2
  <2> QED BY <2>1, <2>2
<1>f6. it(h)
  <2>1. it(g)
    <3>1. g = [X \in SUBSET Keys |-> g[X]]
      BY <1>f4 DEF Follows
    <3> QED BY <1>f5, <3>1
  <2> HIDE DEF it
  <2> QED BY <2>1
<1> HIDE DEF h
<1>f7. h[{}] = paused /\ \A X \in SUBSET Keys : X # {} => h[X] = op(ch[X], h[X \ {ch[X]}])
  BY <1>f2, <1>f6
<1>f8. h[Keys] \in Inv[Keys]
  <2>1. ASSUME NEW X \in SUBSET Keys, X # {}, h[Rest(X, ch)] \in Inv[Rest(X, ch)] PROVE h[X] \in Inv[X]
    <3>1. op(ch[X], h[X \ {ch[X]}]) \in Inv[X]
      BY <1>step, <1>f2, <2>1 DEF Rest
    <3> QED BY <1>f7, <2>1, <3>1
  <2> QED BY <1>finite, <1>base, <1>f3, <1>f7, <2>1, FoldKeeps
<1>value. items \in Inv[Keys]
  <2>1. items = h[Keys]
    BY Zenon DEF items, FoldSet, MapThenFoldSet, h, it, op
  <2> QED BY <1>f8, <2>1
<1> HIDE DEF items
<1>1. Core(items, d, e, {}, C, N, c) /\ items.status = "paused"
  BY <1>full, <1>value
<1> DEFINE v == [items EXCEPT !.transferQueue = <<>>]
<1>2. Core(v, d, e, {}, C, N, c) /\ v.status = "paused"
  <2>1. <<>> \in Seq(Keys \X Roles)
    OBVIOUS
  <2>2. v.status = items.status
    OBVIOUS
  <2> QED BY <1>1, <2>1, <2>2, QueuesCore
<1> HIDE DEF v
<1> DEFINE w == [v EXCEPT !.preprocessQueue = <<>>]
<1>3. Core(w, d, e, {}, C, N, c) /\ w.status = "paused"
  <2>1. <<>> \in Seq(Keys)
    OBVIOUS
  <2>2. w.status = v.status
    OBVIOUS
  <2> QED BY <1>2, <2>1, <2>2, QueuesCore
<1>4. Pause(s, reason) = w
  BY DEF Pause, v, items, paused
<1> HIDE DEF w
<1> QED BY <1>3, <1>4

(* startTransfer *)
LEMMA StartTransferCore ==
  ASSUME NEW s, NEW d \in Nat, NEW e \in Nat, NEW W, NEW C, NEW N, NEW c, Core(s, d, e, W, C, N, c),
         NEW k \in Keys, NEW r \in Roles, Own, s.transferring < TransferConcurrency
  PROVE  Core(StartTransfer(s, k, r), d, e, W, C, N, c)
<1> DEFINE replaced == {t \in Transfers(s, k) : t.role = r}
           unlisted == OrphanAll(s, replaced)
           n == Cardinality(replaced)
           counted == [unlisted EXCEPT !.transferring = @ + 1]
           awaits == Await(counted, "transfer", "upload", k, r)
           sent == SetComponent(awaits, k, r, "uploading")
<1>1. CASE s.rec[k].item = 0 \/ ~ s.rec[k].prepared \/ s.rec[k].comps[r] # "queued"
  <2>1. StartTransfer(s, k, r) = s
    BY <1>1 DEF StartTransfer
  <2> QED BY <2>1
<1>2. CASE ~ (s.rec[k].item = 0 \/ ~ s.rec[k].prepared \/ s.rec[k].comps[r] # "queued")
  <2>1. StartTransfer(s, k, r) = DerivePhase(sent, k)
    BY <1>2 DEF StartTransfer
  <2>2. /\ replaced \subseteq s.threads /\ replaced \cap Of(s, "transfer") = replaced
        /\ \A t \in replaced : t.for # "prepare" /\ MayEnd(t, W, C)
    BY DEF Transfers, Of, MayEnd
  <2>3. n \in Nat
    <3>1. IsFiniteSet(replaced)
      BY <2>2, FS_Subset DEF Core, Typed
    <3> QED BY <3>1, FS_CardinalityType
  <2> HIDE DEF replaced
  <2>4. Core(unlisted, d, e + Cardinality(replaced \cap Of(s, "transfer")), W, C, N, c)
        /\ Leaves(s, replaced, unlisted)
    BY <2>2, OrphanAllCore
  <2>5. Core(unlisted, d, e + n, W, C, N, c)
    BY <2>2, <2>4
  <2>6. unlisted.rec = s.rec /\ unlisted.transferring = s.transferring
    BY <2>4, ThreadsSame DEF Leaves
  <2> HIDE DEF unlisted, n
  <2> DEFINE z == unlisted.transferring + 1
  <2>7. counted = [unlisted EXCEPT !.transferring = z]
    OBVIOUS
  <2>8. /\ z \in Nat /\ z <= TransferConcurrency
        /\ Cardinality(Of(unlisted, "transfer")) + (e + n + 1) <= z
    <3>1. Typed(unlisted) /\ SlotsOK(unlisted, d, e + n)
      BY <2>5 DEF Core
    <3>2. unlisted.transferring \in Nat /\ Cardinality(Of(unlisted, "transfer")) \in Nat
      BY <3>1, StateFields, OfFinite
    <3> QED BY <2>3, <2>6, <3>1, <3>2, UploadConstants DEF SlotsOK
  <2> HIDE DEF z
  <2>9. Core([unlisted EXCEPT !.transferring = z], d, e + n + 1, W, C, N, c)
    BY <2>5, <2>8, SlotsCore
  <2>10. [unlisted EXCEPT !.transferring = z].rec = unlisted.rec
    OBVIOUS
  <2> HIDE DEF counted
  <2>11. Core(counted, d, e + n + 1, W, C, N, c) /\ counted.rec[k].item # 0
    BY <1>2, <2>6, <2>7, <2>9, <2>10
  <2>12. Core(awaits, d, e + n, W, C, N, c)
    <3> DEFINE why == "transfer"
               call == "upload"
               note == "draft"
               e1 == e + n + 1
               e0 == e + n
    <3>1. /\ <<why, call>> \in Pairs /\ why \notin {"hash", "nobody"} /\ note \in NotesFor(why)
          /\ why \notin {"detach", "restart", "process", "prepare"}
      BY DEF Pairs, NotesFor, Rereads
    <3>7. MayAwait(counted, why, call, k, N, c)
      BY <2>11, <3>1 DEF MayAwait
    <3>2. e0 \in Nat /\ e1 = (IF why = "transfer" THEN e0 + 1 ELSE e0)
      BY <2>3
    <3>3. d = (IF why = "prepare" THEN d + 1 ELSE d)
      BY <3>1
    <3>4. Core(counted, d, e1, W, C, N, c) /\ counted.rec[k].item # 0
      BY <2>11
    <3>6. awaits = AwaitNoting(counted, why, call, k, r, note)
      BY DEF Await
    <3> HIDE DEF e1, e0, why, call, note, awaits
    <3>5. Core(AwaitNoting(counted, why, call, k, r, note), d, e0, W, C, N, c)
      BY <3>1, <3>2, <3>3, <3>4, <3>7, AwaitCore
    <3> QED BY <3>5, <3>6 DEF e0
  <2> HIDE DEF awaits
  <2>13. Core(awaits, d, e, W, C, N, c)
    <3>1. e + n \in Nat /\ e <= e + n
      BY <2>3
    <3> QED BY <2>12, <3>1, Weaken
  <2>14. Core(sent, d, e, W, C, N, c)
    <3>1. "uploading" \in ComponentPhase
      BY DEF ComponentPhase
    <3> QED BY <2>13, <3>1, ComponentCore
  <2> HIDE DEF sent
  <2>15. Core(DerivePhase(sent, k), d, e, W, C, N, c)
    BY <2>14, DeriveCore
  <2> QED BY <2>1, <2>15
<1> QED BY <1>1, <1>2

(* pumpTransfers, over the queue that waits *)
LEMMA PumpedCore ==
  ASSUME NEW s, NEW d \in Nat, NEW e \in Nat, NEW W, NEW C, NEW N, NEW c, Core(s, d, e, W, C, N, c),
         NEW q \in Seq(Keys \X Roles), Own
  PROVE  Core(FoldLeft(LAMBDA u, p : IF u.transferring < TransferConcurrency THEN StartTransfer(u, p[1], p[2])
                                     ELSE [u EXCEPT !.transferQueue = Append(@, p)], s, q), d, e, W, C, N, c)
<1> DEFINE dm == DOMAIN q
           pumped == FoldLeft(LAMBDA u, p : IF u.transferring < TransferConcurrency THEN StartTransfer(u, p[1], p[2])
                                            ELSE [u EXCEPT !.transferQueue = Append(@, p)], s, q)
           op(i, u) == IF u.transferring < TransferConcurrency THEN StartTransfer(u, q[i][1], q[i][2])
                       ELSE [u EXCEPT !.transferQueue = Append(@, q[i])]
           Inv == [X \in SUBSET dm |-> {u \in State : Core(u, d, e, W, C, N, c)}]
<1>dom. Chooses(Lasts(dm), dm) /\ IsFiniteSet(dm)
  <2>1. dm = 1..Len(q) /\ Len(q) \in Nat
    OBVIOUS
  <2> QED BY <2>1, LastsChoose
<1>base. s \in Inv[{}]
  BY DEF Core, Typed
<1>step. \A X \in SUBSET dm : \A x \in X : \A v \in Inv[X \ {x}] : op(x, v) \in Inv[X]
  <2> SUFFICES ASSUME NEW X \in SUBSET dm, NEW x \in X, NEW v \in Inv[X \ {x}]
               PROVE  op(x, v) \in Inv[X]
    OBVIOUS
  <2>1. Core(v, d, e, W, C, N, c) /\ x \in dm
    OBVIOUS
  <2>2. q[x] \in Keys \X Roles
    OBVIOUS
  <2>3. Core(op(x, v), d, e, W, C, N, c)
    <3> HIDE DEF Inv, dm
    <3>1. CASE v.transferring < TransferConcurrency
      <4>1. q[x][1] \in Keys /\ q[x][2] \in Roles
        BY <2>2
      <4>2. Core(StartTransfer(v, q[x][1], q[x][2]), d, e, W, C, N, c)
        BY <2>1, <3>1, <4>1, StartTransferCore
      <4> QED BY <3>1, <4>2
    <3>2. CASE ~ (v.transferring < TransferConcurrency)
      <4> DEFINE z == Append(v.transferQueue, q[x])
      <4>1. z \in Seq(Keys \X Roles)
        BY <2>1, <2>2, StateFields DEF Core
      <4>2. op(x, v) = [v EXCEPT !.transferQueue = z]
        BY <3>2
      <4> HIDE DEF z, op
      <4>3. Core([v EXCEPT !.transferQueue = z], d, e, W, C, N, c)
        BY <2>1, <4>1, QueuesCore
      <4> QED BY <4>2, <4>3
    <3> QED BY <3>1, <3>2
  <2> HIDE DEF op
  <2>4. op(x, v) \in State
    BY <2>3 DEF Core, Typed
  <2> QED BY <2>3, <2>4
<1>full. Inv[dm] = {u \in State : Core(u, d, e, W, C, N, c)}
  OBVIOUS
<1> HIDE DEF op, Inv
<1> DEFINE dom == UNION {Inv[X] : X \in SUBSET dm}
           F == [p \in dm \X dom |-> op(p[1], p[2])]
           ch == Lasts(dm)
           it(g) == g = [X \in SUBSET dm |-> IF X = {} THEN s
                           ELSE op(Max(X), g[X \ {Max(X)}])]
           h == CHOOSE g : it(g)
<1>f1. \A X \in SUBSET dm : \A x \in X : \A v \in Inv[X \ {x}] : F[<<x, v>>] = op(x, v)
  OBVIOUS
<1>f2. \A X \in SUBSET dm : X # {} => ch[X] = Max(X) /\ ch[X] \in X
  BY <1>dom DEF Chooses, Lasts
<1> HIDE DEF F, ch
<1>f3. Chooses(ch, dm) /\ Steps(F, dm, Inv)
  BY <1>step, <1>f1, <1>dom DEF Steps, ch
<1>f4. PICK g : Follows(g, dm, F, s, ch) /\ Within(g, dm, Inv)
  <2> HIDE DEF dom, it, h
  <2> QED BY <1>dom, <1>base, <1>f3, FoldIn
<1>f5. ASSUME NEW X \in SUBSET dm
      PROVE  g[X] = IF X = {} THEN s ELSE op(Max(X), g[X \ {Max(X)}])
  <2>1. g[X] = IF X = {} THEN s ELSE F[<<ch[X], g[X \ {ch[X]}]>>]
    BY <1>f4 DEF Follows, StepOf, Rest
  <2>2. CASE X # {}
    <3>1. X \ {ch[X]} \in SUBSET dm /\ g[X \ {ch[X]}] \in Inv[X \ {ch[X]}]
      BY <1>f4 DEF Within
    <3>2. F[<<ch[X], g[X \ {ch[X]}]>>] = op(ch[X], g[X \ {ch[X]}])
      BY <1>f1, <1>f2, <2>2, <3>1
    <3> QED BY <1>f2, <2>1, <2>2, <3>2
  <2> QED BY <2>1, <2>2
<1>f6. it(h)
  <2>1. it(g)
    <3>1. g = [X \in SUBSET dm |-> g[X]]
      BY <1>f4 DEF Follows
    <3> QED BY <1>f5, <3>1
  <2> HIDE DEF it
  <2> QED BY <2>1
<1> HIDE DEF h
<1>f7. h[{}] = s /\ \A X \in SUBSET dm : X # {} => h[X] = op(ch[X], h[X \ {ch[X]}])
  BY <1>f2, <1>f6
<1>f8. h[dm] \in Inv[dm]
  <2>1. ASSUME NEW X \in SUBSET dm, X # {}, h[Rest(X, ch)] \in Inv[Rest(X, ch)] PROVE h[X] \in Inv[X]
    <3>1. op(ch[X], h[X \ {ch[X]}]) \in Inv[X]
      BY <1>step, <1>f2, <2>1 DEF Rest
    <3> QED BY <1>f7, <2>1, <3>1
  <2> QED BY <1>dom, <1>base, <1>f3, <1>f7, <2>1, FoldKeeps
<1>value. pumped \in Inv[dm]
  <2>1. pumped = h[dm]
    BY Zenon DEF pumped, FoldLeft, MapThenFoldSet, h, it, op, dm
  <2> QED BY <1>f8, <2>1
<1>result. Core(pumped, d, e, W, C, N, c)
  <2> HIDE DEF pumped
  <2> QED BY <1>full, <1>value
<1> QED BY <1>result

(* pumpTransfers *)
LEMMA PumpTransfersCore ==
  ASSUME NEW s, NEW d \in Nat, NEW e \in Nat, NEW W, NEW C, NEW N, NEW c, Core(s, d, e, W, C, N, c)
  PROVE  Core(PumpTransfers(s), d, e, W, C, N, c)
<1> DEFINE q == s.transferQueue
           empty == [s EXCEPT !.transferQueue = <<>>]
           pumped == FoldLeft(LAMBDA u, p : IF u.transferring < TransferConcurrency THEN StartTransfer(u, p[1], p[2])
                                            ELSE [u EXCEPT !.transferQueue = Append(@, p)], empty, q)
           idle == s.status # "active" \/ s.transferring >= TransferConcurrency \/ s.transferQueue = <<>>
<1>1. PumpTransfers(s) = IF idle THEN s ELSE IF ~ Own THEN Pause(s, "account") ELSE pumped
  BY Zenon DEF PumpTransfers
<1> HIDE DEF idle
<1>2. CASE ~ Own
  <2>1. Core(Pause(s, "account"), d, e, {}, C, N, c)
    BY PauseCore
  <2>2. Core(Pause(s, "account"), d, e, W, C, N, c)
    BY <2>1, Discharge
  <2> HIDE DEF pumped
  <2> QED BY <1>1, <1>2, <2>2
<1>3. CASE Own
  <2>1. Core(empty, d, e, W, C, N, c)
    <3>1. <<>> \in Seq(Keys \X Roles)
      OBVIOUS
    <3> QED BY <3>1, QueuesCore
  <2>2. q \in Seq(Keys \X Roles)
    BY StateFields DEF Core
  <2> HIDE DEF empty, q
  <2>3. Core(pumped, d, e, W, C, N, c)
    BY <1>3, <2>1, <2>2, PumpedCore
  <2> HIDE DEF pumped
  <2> QED BY <1>1, <1>3, <2>3
<1> QED BY <1>2, <1>3

(* enqueueTransfer, abortTransfers *)
LEMMA EnqueueCore ==
  ASSUME NEW s, NEW d \in Nat, NEW e \in Nat, NEW W, NEW C, NEW N, NEW c, Core(s, d, e, W, C, N, c),
         NEW k \in Keys, NEW r \in Roles
  PROVE  Core(EnqueueTransfer(s, k, r), d, e, W, C, N, c)
<1> DEFINE queued == SetComponent(s, k, r, "queued")
           derived == DerivePhase(queued, k)
           z == Append(derived.transferQueue, <<k, r>>)
           u == [derived EXCEPT !.transferQueue = z]
<1>1. Core(queued, d, e, W, C, N, c)
  BY ComponentCore DEF ComponentPhase
<1> HIDE DEF queued
<1>2. Core(derived, d, e, W, C, N, c)
  BY <1>1, DeriveCore
<1> HIDE DEF derived
<1>3. z \in Seq(Keys \X Roles)
  BY <1>2, StateFields DEF Core
<1> HIDE DEF z
<1>4. Core(u, d, e, W, C, N, c)
  BY <1>2, <1>3, QueuesCore
<1> HIDE DEF u
<1>5. Core(PumpTransfers(u), d, e, W, C, N, c)
  BY <1>4, PumpTransfersCore
<1>6. EnqueueTransfer(s, k, r) = IF Contains(s.transferQueue, <<k, r>>) THEN s ELSE PumpTransfers(u)
  BY DEF EnqueueTransfer, u, z, derived, queued
<1> QED BY <1>5, <1>6

LEMMA AbortCore ==
  ASSUME NEW s, NEW d \in Nat, NEW e \in Nat, NEW W, NEW C, NEW N, NEW c, Core(s, d, e, W, C, N, c),
         NEW k \in Keys
  PROVE  Core(AbortTransfers(s, k), d, e, W, C, N, c)
<1>1. Core(StopTransfers(s, k), d, e, W, C, N, c)
  BY StopTransfersCore
<1> QED BY <1>1, PumpTransfersCore DEF AbortTransfers

(* A continuation that begins to wait and holds no slot; one with that of   *)
(* the preprocessing.                                                       *)
LEMMA AwaitQuiet ==
  ASSUME NEW s, NEW d \in Nat, NEW e \in Nat, NEW W, NEW C, NEW N, NEW c, Core(s, d, e, W, C, N, c),
         NEW why, NEW call, NEW k \in Keys, NEW r \in Roles, NEW note \in NotesFor(why),
         why \notin {"prepare", "transfer"}, MayAwait(s, why, call, k, N, c)
  PROVE  /\ Core(AwaitNoting(s, why, call, k, r, note), d, e, W, C, N, c)
         /\ NowAwaits(s, AwaitNoting(s, why, call, k, r, note), why, call, k)
<1> DEFINE d1 == d
           e1 == e
<1>1. /\ d1 = (IF why = "prepare" THEN d + 1 ELSE d) /\ e1 = (IF why = "transfer" THEN e + 1 ELSE e)
      /\ Core(s, d1, e1, W, C, N, c)
  OBVIOUS
<1> HIDE DEF d1, e1
<1> QED BY <1>1, AwaitCore

LEMMA AwaitPrepare ==
  ASSUME NEW s, NEW d \in Nat, NEW e \in Nat, NEW W, NEW C, NEW N, NEW c, NEW d1 \in Nat,
         Core(s, d1, e, W, C, N, c), d1 = d + 1, NEW call \in {"work", "holder"}, NEW k \in Keys
  PROVE  /\ Core(Await(s, "prepare", call, k, "still"), d, e, W, C, N, c)
         /\ NowAwaits(s, Await(s, "prepare", call, k, "still"), "prepare", call, k)
<1> DEFINE why == "prepare"
           note == "draft"
           r == "still"
           e1 == e
<1>1. MayAwait(s, why, call, k, N, c) /\ note \in NotesFor(why) /\ r \in Roles
  BY DEF MayAwait, Pairs, NotesFor, Rereads, Roles, Commands
<1>2. /\ d1 = (IF why = "prepare" THEN d + 1 ELSE d) /\ e1 = (IF why = "transfer" THEN e + 1 ELSE e)
      /\ Core(s, d1, e1, W, C, N, c)
  OBVIOUS
<1>3. Await(s, "prepare", call, k, "still") = AwaitNoting(s, why, call, k, r, note)
  BY DEF Await
<1>4. why = "prepare"
  OBVIOUS
<1> HIDE DEF why, note, r, e1
<1>5. /\ Core(AwaitNoting(s, why, call, k, r, note), d, e, W, C, N, c)
      /\ NowAwaits(s, AwaitNoting(s, why, call, k, r, note), why, call, k)
  BY <1>1, <1>2, AwaitCore
<1> QED BY <1>3, <1>4, <1>5

(* register *)
LEMMA RegisterCore ==
  ASSUME NEW s, NEW d \in Nat, NEW e \in Nat, NEW W, NEW C, NEW N, NEW c, Core(s, d, e, W, C, N, c),
         NEW k \in Keys
  PROVE  Core(Register(s, k), d, e, W, C, N, c)
<1> DEFINE waits == Patch(s, k, [phase |-> "waiting", unknown |-> FALSE])
           goes == Patch(s, k, [phase |-> "registering", unknown |-> FALSE])
<1>1. /\ "waiting" \in ItemPhase \ (InProgress \cup Unwanted)
      /\ "registering" \in ItemPhase \ (InProgress \cup Unwanted)
  BY DEF ItemPhase, InProgress, Unwanted
<1>2. Core(waits, d, e, W \ {k}, C, N, c)
  BY <1>1, FailCore
<1>3. Core(goes, d, e, W \ {k}, C, N, c)
  BY <1>1, FailCore
<1>4. Register(s, k) = IF ~ s.rec[k].prepared THEN s ELSE IF ~ Own THEN Pause(waits, "account")
                       ELSE AwaitNoting(goes, "register", "holder", k, "still", "draft")
  BY DEF Register, WaitForAccount, AwaitHolder, Await
<1> HIDE DEF waits, goes
<1>5. Core(Pause(waits, "account"), d, e, {}, C, N, c)
  BY <1>2, PauseCore
<1>6. Core(Pause(waits, "account"), d, e, W, C, N, c)
  BY <1>5, Discharge
<1>7. Core(goes, d, e, W, C, N, c)
  BY <1>3, Discharge
<1>8. Core(AwaitNoting(goes, "register", "holder", k, "still", "draft"), d, e, W, C, N, c)
  <2> DEFINE why == "register"
             call == "holder"
             note == "draft"
             r == "still"
  <2>1. /\ MayAwait(goes, why, call, k, N, c) /\ why \notin {"prepare", "transfer"}
        /\ note \in NotesFor(why) /\ r \in Roles
    BY DEF MayAwait, Pairs, NotesFor, Rereads, Roles, Commands
  <2> HIDE DEF why, call, note, r
  <2>2. Core(AwaitNoting(goes, why, call, k, r, note), d, e, W, C, N, c)
    BY <1>7, <2>1, AwaitQuiet
  <2> QED BY <2>2 DEF why, call, note, r
<1> QED BY <1>4, <1>6, <1>8

-----------------------------------------------------------------------------
(* pumpPreprocess: one item *)
LEMMA StartPreprocessCore ==
  ASSUME NEW s, NEW d \in Nat, NEW e \in Nat, NEW W, NEW C, NEW N, NEW c, Core(s, d, e, W, C, N, c),
         NEW k \in Keys, s.preprocessing < PreprocessConcurrency
  PROVE  Core(StartPreprocess(s, k), d, e, W, C, N, c)
<1> DEFINE z == s.preprocessing + 1
           counted == [s EXCEPT !.preprocessing = z]
           marked == Patch(counted, k, [phase |-> "preprocessing"])
           d1 == d + 1
           awaits == Await(marked, "prepare", "work", k, "still")
<1>1. StartPreprocess(s, k) = IF s.rec[k].phase # "waiting" THEN s
                              ELSE IF s.rec[k].prepared THEN Register(s, k) ELSE awaits
  BY DEF StartPreprocess
<1>2. z \in Nat /\ z <= PreprocessConcurrency /\ Cardinality(Of(s, "prepare")) + d1 <= z /\ d1 \in Nat
  <2>1. Typed(s) /\ SlotsOK(s, d, e)
    BY DEF Core
  <2>2. s.preprocessing \in Nat /\ Cardinality(Of(s, "prepare")) \in Nat
    BY <2>1, StateFields, OfFinite
  <2> QED BY <2>1, <2>2, UploadConstants DEF SlotsOK
<1>3. d1 = d + 1
  OBVIOUS
<1> HIDE DEF z, d1
<1>4. Core(counted, d1, e, W, C, N, c)
  BY <1>2, SlotsCore
<1> HIDE DEF counted
<1>5. Core(marked, d1, e, W \ {k}, C, N, c)
  <2>1. "preprocessing" \in ItemPhase \ (InProgress \cup Unwanted)
    BY DEF ItemPhase, InProgress, Unwanted
  <2> QED BY <1>4, <2>1, PhaseCore
<1> HIDE DEF marked
<1>6. Core(marked, d1, e, W, C, N, c)
  BY <1>5, Discharge
<1>7. Core(awaits, d, e, W, C, N, c)
  BY <1>2, <1>3, <1>6, AwaitPrepare
<1> HIDE DEF awaits
<1>8. Core(Register(s, k), d, e, W, C, N, c)
  BY RegisterCore
<1> QED BY <1>1, <1>7, <1>8

LEMMA PumpedPreprocessCore ==
  ASSUME NEW s, NEW d \in Nat, NEW e \in Nat, NEW W, NEW C, NEW N, NEW c, Core(s, d, e, W, C, N, c),
         NEW q \in Seq(Keys)
  PROVE  Core(FoldLeft(LAMBDA u, k : IF u.status = "active" /\ u.preprocessing < PreprocessConcurrency
                                     THEN StartPreprocess(u, k)
                                     ELSE IF u.status = "active"
                                     THEN [u EXCEPT !.preprocessQueue = Append(@, k)] ELSE u, s, q),
              d, e, W, C, N, c)
<1> DEFINE dm == DOMAIN q
           pumped == FoldLeft(LAMBDA u, k : IF u.status = "active" /\ u.preprocessing < PreprocessConcurrency
                                            THEN StartPreprocess(u, k)
                                            ELSE IF u.status = "active"
                                            THEN [u EXCEPT !.preprocessQueue = Append(@, k)] ELSE u, s, q)
           op(i, u) == IF u.status = "active" /\ u.preprocessing < PreprocessConcurrency
                       THEN StartPreprocess(u, q[i])
                       ELSE IF u.status = "active"
                       THEN [u EXCEPT !.preprocessQueue = Append(@, q[i])] ELSE u
           Inv == [X \in SUBSET dm |-> {u \in State : Core(u, d, e, W, C, N, c)}]
<1>dom. Chooses(Lasts(dm), dm) /\ IsFiniteSet(dm)
  <2>1. dm = 1..Len(q) /\ Len(q) \in Nat
    OBVIOUS
  <2> QED BY <2>1, LastsChoose
<1>base. s \in Inv[{}]
  BY DEF Core, Typed
<1>step. \A X \in SUBSET dm : \A x \in X : \A v \in Inv[X \ {x}] : op(x, v) \in Inv[X]
  <2> SUFFICES ASSUME NEW X \in SUBSET dm, NEW x \in X, NEW v \in Inv[X \ {x}]
               PROVE  op(x, v) \in Inv[X]
    OBVIOUS
  <2>1. Core(v, d, e, W, C, N, c) /\ x \in dm
    OBVIOUS
  <2>2. q[x] \in Keys
    OBVIOUS
  <2>3. Core(op(x, v), d, e, W, C, N, c)
    <3> HIDE DEF Inv, dm
    <3>1. CASE v.status = "active" /\ v.preprocessing < PreprocessConcurrency
      <4>1. Core(StartPreprocess(v, q[x]), d, e, W, C, N, c)
        BY <2>1, <2>2, <3>1, StartPreprocessCore
      <4> QED BY <3>1, <4>1
    <3>2. CASE ~ (v.status = "active" /\ v.preprocessing < PreprocessConcurrency) /\ v.status = "active"
      <4> DEFINE z == Append(v.preprocessQueue, q[x])
      <4>1. z \in Seq(Keys)
        BY <2>1, <2>2, StateFields DEF Core
      <4>2. op(x, v) = [v EXCEPT !.preprocessQueue = z]
        BY <3>2
      <4> HIDE DEF z, op
      <4>3. Core([v EXCEPT !.preprocessQueue = z], d, e, W, C, N, c)
        BY <2>1, <4>1, QueuesCore
      <4> QED BY <4>2, <4>3
    <3>3. CASE v.status # "active"
      BY <2>1, <3>3
    <3> QED BY <3>1, <3>2, <3>3
  <2> HIDE DEF op
  <2>4. op(x, v) \in State
    BY <2>3 DEF Core, Typed
  <2> QED BY <2>3, <2>4
<1>full. Inv[dm] = {u \in State : Core(u, d, e, W, C, N, c)}
  OBVIOUS
<1> HIDE DEF op, Inv
<1> DEFINE dom == UNION {Inv[X] : X \in SUBSET dm}
           F == [p \in dm \X dom |-> op(p[1], p[2])]
           ch == Lasts(dm)
           it(g) == g = [X \in SUBSET dm |-> IF X = {} THEN s
                           ELSE op(Max(X), g[X \ {Max(X)}])]
           h == CHOOSE g : it(g)
<1>f1. \A X \in SUBSET dm : \A x \in X : \A v \in Inv[X \ {x}] : F[<<x, v>>] = op(x, v)
  OBVIOUS
<1>f2. \A X \in SUBSET dm : X # {} => ch[X] = Max(X) /\ ch[X] \in X
  BY <1>dom DEF Chooses, Lasts
<1> HIDE DEF F, ch
<1>f3. Chooses(ch, dm) /\ Steps(F, dm, Inv)
  BY <1>step, <1>f1, <1>dom DEF Steps, ch
<1>f4. PICK g : Follows(g, dm, F, s, ch) /\ Within(g, dm, Inv)
  <2> HIDE DEF dom, it, h
  <2> QED BY <1>dom, <1>base, <1>f3, FoldIn
<1>f5. ASSUME NEW X \in SUBSET dm
      PROVE  g[X] = IF X = {} THEN s ELSE op(Max(X), g[X \ {Max(X)}])
  <2>1. g[X] = IF X = {} THEN s ELSE F[<<ch[X], g[X \ {ch[X]}]>>]
    BY <1>f4 DEF Follows, StepOf, Rest
  <2>2. CASE X # {}
    <3>1. X \ {ch[X]} \in SUBSET dm /\ g[X \ {ch[X]}] \in Inv[X \ {ch[X]}]
      BY <1>f4 DEF Within
    <3>2. F[<<ch[X], g[X \ {ch[X]}]>>] = op(ch[X], g[X \ {ch[X]}])
      BY <1>f1, <1>f2, <2>2, <3>1
    <3> QED BY <1>f2, <2>1, <2>2, <3>2
  <2> QED BY <2>1, <2>2
<1>f6. it(h)
  <2>1. it(g)
    <3>1. g = [X \in SUBSET dm |-> g[X]]
      BY <1>f4 DEF Follows
    <3> QED BY <1>f5, <3>1
  <2> HIDE DEF it
  <2> QED BY <2>1
<1> HIDE DEF h
<1>f7. h[{}] = s /\ \A X \in SUBSET dm : X # {} => h[X] = op(ch[X], h[X \ {ch[X]}])
  BY <1>f2, <1>f6
<1>f8. h[dm] \in Inv[dm]
  <2>1. ASSUME NEW X \in SUBSET dm, X # {}, h[Rest(X, ch)] \in Inv[Rest(X, ch)] PROVE h[X] \in Inv[X]
    <3>1. op(ch[X], h[X \ {ch[X]}]) \in Inv[X]
      BY <1>step, <1>f2, <2>1 DEF Rest
    <3> QED BY <1>f7, <2>1, <3>1
  <2> QED BY <1>dom, <1>base, <1>f3, <1>f7, <2>1, FoldKeeps
<1>value. pumped \in Inv[dm]
  <2>1. pumped = h[dm]
    BY Zenon DEF pumped, FoldLeft, MapThenFoldSet, h, it, op, dm
  <2> QED BY <1>f8, <2>1
<1>result. Core(pumped, d, e, W, C, N, c)
  <2> HIDE DEF pumped
  <2> QED BY <1>full, <1>value
<1> QED BY <1>result

(* pumpPreprocess *)
LEMMA PumpPreprocessCore ==
  ASSUME NEW s, NEW d \in Nat, NEW e \in Nat, NEW W, NEW C, NEW N, NEW c, Core(s, d, e, W, C, N, c)
  PROVE  Core(PumpPreprocess(s), d, e, W, C, N, c)
<1> DEFINE q == s.preprocessQueue
           empty == [s EXCEPT !.preprocessQueue = <<>>]
           pumped == FoldLeft(LAMBDA u, k : IF u.status = "active" /\ u.preprocessing < PreprocessConcurrency
                                            THEN StartPreprocess(u, k)
                                            ELSE IF u.status = "active"
                                            THEN [u EXCEPT !.preprocessQueue = Append(@, k)] ELSE u, empty, q)
<1>1. PumpPreprocess(s) = IF s.status # "active" THEN s ELSE pumped
  BY Zenon DEF PumpPreprocess
<1>2. Core(empty, d, e, W, C, N, c)
  <2>1. <<>> \in Seq(Keys)
    OBVIOUS
  <2> QED BY <2>1, QueuesCore
<1>3. q \in Seq(Keys)
  BY StateFields DEF Core
<1> HIDE DEF empty, q
<1>4. Core(pumped, d, e, W, C, N, c)
  BY <1>2, <1>3, PumpedPreprocessCore
<1> HIDE DEF pumped
<1> QED BY <1>1, <1>4

LEMMA AppendCore ==
  ASSUME NEW s, NEW d \in Nat, NEW e \in Nat, NEW W, NEW C, NEW N, NEW c, Core(s, d, e, W, C, N, c),
         NEW k \in Keys
  PROVE  Core(Enqueue(s, k), d, e, W, C, N, c)
<1> DEFINE z == Append(s.preprocessQueue, k)
<1>1. z \in Seq(Keys)
  BY StateFields DEF Core
<1>2. Enqueue(s, k) = [s EXCEPT !.preprocessQueue = z]
  BY DEF Enqueue
<1> HIDE DEF z
<1> QED BY <1>1, <1>2, QueuesCore

LEMMA NamedCore ==
  ASSUME NEW s, NEW d, NEW e, NEW W, NEW C, NEW N, NEW c, Core(s, d, e, W, C, N, c),
         NEW c2, c2.holder = c.holder, c2.detaching = c.detaching, c2.sent = c.sent,
         \A k \in Keys : k \in c2.named => s.rec[k].item # 0
  PROVE  Core(s, d, e, W, C, N, c2)
<1>1. Typed(s) /\ SlotsOK(s, d, e) /\ ThreadsOK(s, N, c) /\ DriversOK(s) /\ RecordsOK(s, c)
      /\ WatchOK(s, W, c) /\ CopiesOK(s, C, c) /\ HolderOK(s, c)
  BY DEF Core
<1>2. ThreadsOK(s, N, c2)
  BY <1>1 DEF ThreadsOK, ThreadOK
<1>3. RecordsOK(s, c2)
  BY <1>1 DEF RecordsOK
<1>4. WatchOK(s, W, c2) /\ CopiesOK(s, C, c2) /\ HolderOK(s, c2)
  BY <1>1 DEF WatchOK, Watched, CopiesOK, Wanted, HolderOK
<1> QED BY <1>1, <1>2, <1>3, <1>4 DEF Core

(* resume *)
LEMMA ResumeCore ==
  ASSUME NEW s, NEW d \in Nat, NEW e \in Nat, NEW W, NEW C, NEW N, NEW c, Core(s, d, e, W, C, N, c)
  PROVE  Core(ResumeUploads(s), d, e, W, C, N, c)
<1> DEFINE active == [s EXCEPT !.status = "active", !.reason = "none"]
           waits == {k \in Keys : s.rec[k].phase \in InProgress}
           polling == FoldSet(LAMBDA k, u : SchedulePoll(u, k), active, waits)
           op(k, u) == SchedulePoll(u, k)
           Inv == [X \in SUBSET waits |-> {u \in State : Core(u, d, e, waits \ X, C, N, c)}]
<1>finite. IsFiniteSet(waits)
  BY UploadConstants, FS_Subset
<1>base. active \in Inv[{}]
  <2>1. Core(active, d, e, Keys, C, N, c)
    BY StatusCore
  <2>2. active.rec = s.rec
    OBVIOUS
  <2> HIDE DEF active
  <2>3. Core(active, d, e, waits, C, N, c)
    BY <2>1, <2>2, Discharge DEF Watched, InProgress
  <2>4. Core(active, d, e, waits \ {}, C, N, c)
    BY <2>3
  <2> QED BY <2>4 DEF Core, Typed
<1>step. \A X \in SUBSET waits : \A x \in X : \A v \in Inv[X \ {x}] : op(x, v) \in Inv[X]
  <2> SUFFICES ASSUME NEW X \in SUBSET waits, NEW x \in X, NEW v \in Inv[X \ {x}]
               PROVE  op(x, v) \in Inv[X]
    OBVIOUS
  <2>1. Core(v, d, e, waits \ (X \ {x}), C, N, c) /\ x \in Keys
    OBVIOUS
  <2> HIDE DEF waits
  <2>2. Core(SchedulePoll(v, x), d, e, (waits \ (X \ {x})) \ {x}, C, N, c)
    <3> HIDE DEF Inv
    <3> QED BY <2>1, PollCore
  <2>3. Core(SchedulePoll(v, x), d, e, waits \ X, C, N, c)
    <3> HIDE DEF Inv
    <3> QED BY <2>2, Discharge
  <2>4. SchedulePoll(v, x) \in State
    BY <2>3 DEF Core, Typed
  <2> QED BY <2>3, <2>4
<1>full. Inv[waits] = {u \in State : Core(u, d, e, waits \ waits, C, N, c)}
  OBVIOUS
<1> HIDE DEF active, waits
<1> HIDE DEF op, Inv
<1> DEFINE dom == UNION {Inv[X] : X \in SUBSET waits}
           F == [p \in waits \X dom |-> op(p[1], p[2])]
           ch == Firsts(waits)
           it(g) == g = [X \in SUBSET waits |-> IF X = {} THEN active
                           ELSE op(CHOOSE x \in X : TRUE, g[X \ {CHOOSE x \in X : TRUE}])]
           h == CHOOSE g : it(g)
<1>f1. \A X \in SUBSET waits : \A x \in X : \A v \in Inv[X \ {x}] : F[<<x, v>>] = op(x, v)
  OBVIOUS
<1>f2. \A X \in SUBSET waits : X # {} => ch[X] = (CHOOSE x \in X : TRUE) /\ ch[X] \in X
  BY DEF Firsts
<1> HIDE DEF F, ch
<1>f3. Chooses(ch, waits) /\ Steps(F, waits, Inv)
  BY <1>step, <1>f1, FirstsChoose DEF Steps, ch
<1>f4. PICK g : Follows(g, waits, F, active, ch) /\ Within(g, waits, Inv)
  <2> HIDE DEF dom, it, h
  <2> QED BY <1>finite, <1>base, <1>f3, FoldIn
<1>f5. ASSUME NEW X \in SUBSET waits
      PROVE  g[X] = IF X = {} THEN active ELSE op(CHOOSE x \in X : TRUE, g[X \ {CHOOSE x \in X : TRUE}])
  <2>1. g[X] = IF X = {} THEN active ELSE F[<<ch[X], g[X \ {ch[X]}]>>]
    BY <1>f4 DEF Follows, StepOf, Rest
  <2>2. CASE X # {}
    <3>1. X \ {ch[X]} \in SUBSET waits /\ g[X \ {ch[X]}] \in Inv[X \ {ch[X]}]
      BY <1>f4 DEF Within
    <3>2. F[<<ch[X], g[X \ {ch[X]}]>>] = op(ch[X], g[X \ {ch[X]}])
      BY <1>f1, <1>f2, <2>2, <3>1
    <3> QED BY <1>f2, <2>1, <2>2, <3>2
  <2> QED BY <2>1, <2>2
<1>f6. it(h)
  <2>1. it(g)
    <3>1. g = [X \in SUBSET waits |-> g[X]]
      BY <1>f4 DEF Follows
    <3> QED BY <1>f5, <3>1
  <2> HIDE DEF it
  <2> QED BY <2>1
<1> HIDE DEF h
<1>f7. h[{}] = active /\ \A X \in SUBSET waits : X # {} => h[X] = op(ch[X], h[X \ {ch[X]}])
  BY <1>f2, <1>f6
<1>f8. h[waits] \in Inv[waits]
  <2>1. ASSUME NEW X \in SUBSET waits, X # {}, h[Rest(X, ch)] \in Inv[Rest(X, ch)] PROVE h[X] \in Inv[X]
    <3>1. op(ch[X], h[X \ {ch[X]}]) \in Inv[X]
      BY <1>step, <1>f2, <2>1 DEF Rest
    <3> QED BY <1>f7, <2>1, <3>1
  <2> QED BY <1>finite, <1>base, <1>f3, <1>f7, <2>1, FoldKeeps
<1>value. polling \in Inv[waits]
  <2>1. polling = h[waits]
    BY Zenon DEF polling, FoldSet, MapThenFoldSet, h, it, op
  <2> QED BY <1>f8, <2>1
<1> HIDE DEF polling
<1>1. Core(polling, d, e, waits \ waits, C, N, c)
  BY <1>full, <1>value
<1>2. Core(polling, d, e, W, C, N, c)
  BY <1>1, Discharge
<1>3. Core(PumpTransfers(polling), d, e, W, C, N, c)
  BY <1>2, PumpTransfersCore
<1>4. ResumeUploads(s) = IF s.status # "paused" THEN s ELSE PumpTransfers(polling)
  BY DEF ResumeUploads, polling, active, waits, InProgress
<1> QED BY <1>3, <1>4

-----------------------------------------------------------------------------
(* What is left of the queues without an item. *)
LEMMA TransfersKept ==
  ASSUME NEW q \in Seq(Keys \X Roles), NEW k
  PROVE  TransfersWithout(q, k) \in Seq(Keys \X Roles)
<1> DEFINE dm == DOMAIN q
           rest == TransfersWithout(q, k)
           op(i, u) == IF q[i][1] # k THEN Append(u, q[i]) ELSE u
           Inv == [X \in SUBSET dm |-> Seq(Keys \X Roles)]
<1>dom. Chooses(Lasts(dm), dm) /\ IsFiniteSet(dm)
  <2>1. dm = 1..Len(q) /\ Len(q) \in Nat
    OBVIOUS
  <2> QED BY <2>1, LastsChoose
<1>base. <<>> \in Inv[{}]
  OBVIOUS
<1>step. \A X \in SUBSET dm : \A x \in X : \A v \in Inv[X \ {x}] : op(x, v) \in Inv[X]
  <2> SUFFICES ASSUME NEW X \in SUBSET dm, NEW x \in X, NEW v \in Inv[X \ {x}]
               PROVE  op(x, v) \in Inv[X]
    OBVIOUS
  <2>1. v \in Seq(Keys \X Roles) /\ q[x] \in Keys \X Roles
    OBVIOUS
  <2> QED BY <2>1
<1>full. Inv[dm] = Seq(Keys \X Roles)
  OBVIOUS
<1> HIDE DEF op, Inv
<1> DEFINE dom == UNION {Inv[X] : X \in SUBSET dm}
           F == [p \in dm \X dom |-> op(p[1], p[2])]
           ch == Lasts(dm)
           it(g) == g = [X \in SUBSET dm |-> IF X = {} THEN <<>>
                           ELSE op(Max(X), g[X \ {Max(X)}])]
           h == CHOOSE g : it(g)
<1>f1. \A X \in SUBSET dm : \A x \in X : \A v \in Inv[X \ {x}] : F[<<x, v>>] = op(x, v)
  OBVIOUS
<1>f2. \A X \in SUBSET dm : X # {} => ch[X] = Max(X) /\ ch[X] \in X
  BY <1>dom DEF Chooses, Lasts
<1> HIDE DEF F, ch
<1>f3. Chooses(ch, dm) /\ Steps(F, dm, Inv)
  BY <1>step, <1>f1, <1>dom DEF Steps, ch
<1>f4. PICK g : Follows(g, dm, F, <<>>, ch) /\ Within(g, dm, Inv)
  <2> HIDE DEF dom, it, h
  <2> QED BY <1>dom, <1>base, <1>f3, FoldIn
<1>f5. ASSUME NEW X \in SUBSET dm
      PROVE  g[X] = IF X = {} THEN <<>> ELSE op(Max(X), g[X \ {Max(X)}])
  <2>1. g[X] = IF X = {} THEN <<>> ELSE F[<<ch[X], g[X \ {ch[X]}]>>]
    BY <1>f4 DEF Follows, StepOf, Rest
  <2>2. CASE X # {}
    <3>1. X \ {ch[X]} \in SUBSET dm /\ g[X \ {ch[X]}] \in Inv[X \ {ch[X]}]
      BY <1>f4 DEF Within
    <3>2. F[<<ch[X], g[X \ {ch[X]}]>>] = op(ch[X], g[X \ {ch[X]}])
      BY <1>f1, <1>f2, <2>2, <3>1
    <3> QED BY <1>f2, <2>1, <2>2, <3>2
  <2> QED BY <2>1, <2>2
<1>f6. it(h)
  <2>1. it(g)
    <3>1. g = [X \in SUBSET dm |-> g[X]]
      BY <1>f4 DEF Follows
    <3> QED BY <1>f5, <3>1
  <2> HIDE DEF it
  <2> QED BY <2>1
<1> HIDE DEF h
<1>f7. h[{}] = <<>> /\ \A X \in SUBSET dm : X # {} => h[X] = op(ch[X], h[X \ {ch[X]}])
  BY <1>f2, <1>f6
<1>f8. h[dm] \in Inv[dm]
  <2>1. ASSUME NEW X \in SUBSET dm, X # {}, h[Rest(X, ch)] \in Inv[Rest(X, ch)] PROVE h[X] \in Inv[X]
    <3>1. op(ch[X], h[X \ {ch[X]}]) \in Inv[X]
      BY <1>step, <1>f2, <2>1 DEF Rest
    <3> QED BY <1>f7, <2>1, <3>1
  <2> QED BY <1>dom, <1>base, <1>f3, <1>f7, <2>1, FoldKeeps
<1>value. rest \in Inv[dm]
  <2>1. rest = h[dm]
    BY Zenon DEF rest, TransfersWithout, FoldLeft, MapThenFoldSet, h, it, op, dm
  <2> QED BY <1>f8, <2>1
<1>result. rest \in Seq(Keys \X Roles)
  <2> HIDE DEF rest
  <2> QED BY <1>full, <1>value
<1> QED BY <1>result

LEMMA KeysKept ==
  ASSUME NEW q \in Seq(Keys), NEW k
  PROVE  ItemsWithout(q, k) \in Seq(Keys)
<1> DEFINE dm == DOMAIN q
           rest == ItemsWithout(q, k)
           op(i, u) == IF q[i] # k THEN Append(u, q[i]) ELSE u
           Inv == [X \in SUBSET dm |-> Seq(Keys)]
<1>dom. Chooses(Lasts(dm), dm) /\ IsFiniteSet(dm)
  <2>1. dm = 1..Len(q) /\ Len(q) \in Nat
    OBVIOUS
  <2> QED BY <2>1, LastsChoose
<1>base. <<>> \in Inv[{}]
  OBVIOUS
<1>step. \A X \in SUBSET dm : \A x \in X : \A v \in Inv[X \ {x}] : op(x, v) \in Inv[X]
  <2> SUFFICES ASSUME NEW X \in SUBSET dm, NEW x \in X, NEW v \in Inv[X \ {x}]
               PROVE  op(x, v) \in Inv[X]
    OBVIOUS
  <2>1. v \in Seq(Keys) /\ q[x] \in Keys
    OBVIOUS
  <2> QED BY <2>1
<1>full. Inv[dm] = Seq(Keys)
  OBVIOUS
<1> HIDE DEF op, Inv
<1> DEFINE dom == UNION {Inv[X] : X \in SUBSET dm}
           F == [p \in dm \X dom |-> op(p[1], p[2])]
           ch == Lasts(dm)
           it(g) == g = [X \in SUBSET dm |-> IF X = {} THEN <<>>
                           ELSE op(Max(X), g[X \ {Max(X)}])]
           h == CHOOSE g : it(g)
<1>f1. \A X \in SUBSET dm : \A x \in X : \A v \in Inv[X \ {x}] : F[<<x, v>>] = op(x, v)
  OBVIOUS
<1>f2. \A X \in SUBSET dm : X # {} => ch[X] = Max(X) /\ ch[X] \in X
  BY <1>dom DEF Chooses, Lasts
<1> HIDE DEF F, ch
<1>f3. Chooses(ch, dm) /\ Steps(F, dm, Inv)
  BY <1>step, <1>f1, <1>dom DEF Steps, ch
<1>f4. PICK g : Follows(g, dm, F, <<>>, ch) /\ Within(g, dm, Inv)
  <2> HIDE DEF dom, it, h
  <2> QED BY <1>dom, <1>base, <1>f3, FoldIn
<1>f5. ASSUME NEW X \in SUBSET dm
      PROVE  g[X] = IF X = {} THEN <<>> ELSE op(Max(X), g[X \ {Max(X)}])
  <2>1. g[X] = IF X = {} THEN <<>> ELSE F[<<ch[X], g[X \ {ch[X]}]>>]
    BY <1>f4 DEF Follows, StepOf, Rest
  <2>2. CASE X # {}
    <3>1. X \ {ch[X]} \in SUBSET dm /\ g[X \ {ch[X]}] \in Inv[X \ {ch[X]}]
      BY <1>f4 DEF Within
    <3>2. F[<<ch[X], g[X \ {ch[X]}]>>] = op(ch[X], g[X \ {ch[X]}])
      BY <1>f1, <1>f2, <2>2, <3>1
    <3> QED BY <1>f2, <2>1, <2>2, <3>2
  <2> QED BY <2>1, <2>2
<1>f6. it(h)
  <2>1. it(g)
    <3>1. g = [X \in SUBSET dm |-> g[X]]
      BY <1>f4 DEF Follows
    <3> QED BY <1>f5, <3>1
  <2> HIDE DEF it
  <2> QED BY <2>1
<1> HIDE DEF h
<1>f7. h[{}] = <<>> /\ \A X \in SUBSET dm : X # {} => h[X] = op(ch[X], h[X \ {ch[X]}])
  BY <1>f2, <1>f6
<1>f8. h[dm] \in Inv[dm]
  <2>1. ASSUME NEW X \in SUBSET dm, X # {}, h[Rest(X, ch)] \in Inv[Rest(X, ch)] PROVE h[X] \in Inv[X]
    <3>1. op(ch[X], h[X \ {ch[X]}]) \in Inv[X]
      BY <1>step, <1>f2, <2>1 DEF Rest
    <3> QED BY <1>f7, <2>1, <3>1
  <2> QED BY <1>dom, <1>base, <1>f3, <1>f7, <2>1, FoldKeeps
<1>value. rest \in Inv[dm]
  <2>1. rest = h[dm]
    BY Zenon DEF rest, ItemsWithout, FoldLeft, MapThenFoldSet, h, it, op, dm
  <2> QED BY <1>f8, <2>1
<1>result. rest \in Seq(Keys)
  <2> HIDE DEF rest
  <2> QED BY <1>full, <1>value
<1> QED BY <1>result

(* markUnavailable *)
LEMMA UnavailableCore ==
  ASSUME NEW s, NEW d \in Nat, NEW e \in Nat, NEW W, NEW C, NEW N, NEW c, Core(s, d, e, W, C, N, c),
         NEW k \in Keys
  PROVE  Core(MarkUnavailable(s, k), d, e, W \ {k}, C, N, c)
<1> DEFINE unpolled == StopPolling(s, k)
           quiet == AbortTransfers(unpolled, k)
           z == TransfersWithout(quiet.transferQueue, k)
           less == [quiet EXCEPT !.transferQueue = z]
           dropped == ForgetLocalCopy(less, k)
           x == dropped.rec[k]
           failed == Patch(dropped, k, [phase |-> "failed", unknown |-> FALSE])
           f == [r \in Roles |-> IF r \in RolesOf(k)
                                 THEN IF x.comps[r] = "received" THEN "received" ELSE "failed"
                                 ELSE failed.rec[k].comps[r]]
<1>1. Core(unpolled, d, e, W \cup {k}, C, N, c)
  BY StopPollingCore
<1> HIDE DEF unpolled
<1>2. Core(quiet, d, e, W \cup {k}, C, N, c)
  BY <1>1, AbortCore
<1> HIDE DEF quiet
<1>3. z \in Seq(Keys \X Roles)
  <2>1. quiet.transferQueue \in Seq(Keys \X Roles)
    BY <1>2, StateFields DEF Core
  <2> QED BY <2>1, TransfersKept
<1>4. MarkUnavailable(s, k) = With(failed, k, Comps(failed.rec[k], f))
  <2>1. MarkUnavailable(s, k)
        = SetComponents(failed, k, LAMBDA r : IF dropped.rec[k].comps[r] = "received" THEN "received" ELSE "failed")
    BY DEF MarkUnavailable, quiet, unpolled
  <2> HIDE DEF dropped, failed
  <2>2. SetComponents(failed, k, LAMBDA r : IF dropped.rec[k].comps[r] = "received" THEN "received" ELSE "failed")
        = With(failed, k, Comps(failed.rec[k], f))
    BY DEF SetComponents, With, Comps
  <2> QED BY <2>1, <2>2
<1> HIDE DEF z
<1>5. Core(less, d, e, W \cup {k}, C, N, c)
  BY <1>2, <1>3, QueuesCore
<1> HIDE DEF less
<1>6. Core(dropped, d, e, W \cup {k}, C, N, c)
  BY <1>5, ForgetCore
<1> HIDE DEF dropped
<1>7. /\ Core(failed, d, e, (W \cup {k}) \ {k}, C, N, c)
      /\ \E y : failed = With(dropped, k, y) /\ Keeps(y, x)
  <2>1. "failed" \in ItemPhase \ (InProgress \cup Unwanted)
    BY DEF ItemPhase, InProgress, Unwanted
  <2>2. /\ Core(failed, d, e, (W \cup {k}) \ {k}, C, N, c)
        /\ Puts(dropped, k, failed)
    BY <1>6, <2>1, FailCore
  <2> QED BY <2>2 DEF Puts
<1>8. failed.rec[k].item = x.item /\ failed.rec[k].comps \in [Roles -> ComponentPhase]
  <2>1. Typed(dropped)
    BY <1>6 DEF Core
  <2>2. PICK y : failed = With(dropped, k, y) /\ Keeps(y, x)
    BY <1>7
  <2> HIDE DEF failed, x
  <2>3. failed.rec[k] = y /\ y \in Record
    BY <2>1, <2>2, WithRecord DEF Keeps
  <2> QED BY <2>2, <2>3, RecordFields DEF Keeps
<1>9. (\E r \in RolesOf(k) : x.comps[r] = "received") => x.item # 0
  BY <1>6 DEF Core, RecordsOK, RecordOK
<1> HIDE DEF failed, x
<1>10. Core(failed, d, e, W \ {k}, C, N, c)
  BY <1>7, Discharge
<1>11. f \in [Roles -> ComponentPhase]
  <2>1. "failed" \in ComponentPhase /\ "received" \in ComponentPhase
    BY DEF ComponentPhase
  <2> QED BY <2>1, <1>8
<1>12. (\E r \in RolesOf(k) : f[r] = "received") => failed.rec[k].item # 0
  BY <1>8, <1>9, RolesAre
<1> HIDE DEF f
<1>13. Core(With(failed, k, Comps(failed.rec[k], f)), d, e, W \ {k}, C, N, c)
  BY <1>10, <1>11, <1>12, CompsCore
<1> QED BY <1>4, <1>13

LEMMA CancelCore ==
  ASSUME NEW s, NEW d \in Nat, NEW e \in Nat, NEW W, NEW C, NEW N, NEW c, Core(s, d, e, W, C, N, c),
         NEW k \in Keys, NEW i \in 0..MaxRegistrations
  PROVE  Core(CancelOnAccount(s, k, i), d, e, W, C, N, c)
<1> DEFINE t == [for |-> "nobody", call |-> "cancel", key |-> k, role |-> "still",
                 item |-> i, alive |-> FALSE, note |-> "draft", ans |-> UnderWay, no |-> 0]
           d1 == d
           e1 == e
<1>1. CancelOnAccount(s, k, i) = IF ~ Cancellable(i) THEN s ELSE StartThread(s, t)
  BY DEF CancelOnAccount
<1>2. CASE Cancellable(i)
  <2>1. UnderWay \in CallAnswer /\ UnderWay.is = "under way"
    BY AnsFields DEF UnderWay
  <2>2. t \in Thread
    BY <2>1 DEF Thread, Roles
  <2>3. Shape(t)
    BY <2>1, <1>2 DEF Shape, Nameless, Commands, ActsWhenStale, Cancellable, NotesFor, Rereads
  <2>4. MayStart(s, t, N, c)
    BY <2>1, <2>3, <1>2 DEF MayStart, ThreadOK, Drives, IsSent, Cancellable
  <2>5. d1 = Owed(d, t, "prepare") /\ e1 = Owed(e, t, "transfer") /\ Core(s, d1, e1, W, C, N, c)
    BY DEF Owed
  <2> HIDE DEF t, d1, e1
  <2>6. Core(StartThread(s, t), d, e, W, C, N, c)
    BY <2>2, <2>4, <2>5, StartCore
  <2> QED BY <1>1, <1>2, <2>6
<1>3. CASE ~ Cancellable(i)
  BY <1>1, <1>3
<1> QED BY <1>2, <1>3

(* storeLocalCopy *)
LEMMA StoreCore ==
  ASSUME NEW s, NEW d \in Nat, NEW e \in Nat, NEW W, NEW C, NEW N, NEW c, Core(s, d, e, W, C, N, c),
         NEW k \in Keys
  PROVE  Core(StoreLocalCopy(s, k), d, e, W, C, N, c)
<1> DEFINE why == "store"
           call == "put"
           note == "draft"
           r == "still"
<1>1. /\ MayAwait(s, why, call, k, N, c) /\ why \notin {"prepare", "transfer"}
      /\ note \in NotesFor(why) /\ r \in Roles
  BY DEF MayAwait, Pairs, NotesFor, Rereads, Roles, Commands
<1>2. StoreLocalCopy(s, k) = s \/ StoreLocalCopy(s, k) = AwaitNoting(s, why, call, k, r, note)
  BY DEF StoreLocalCopy, Await
<1> HIDE DEF why, call, note, r
<1>3. Core(AwaitNoting(s, why, call, k, r, note), d, e, W, C, N, c)
  BY <1>1, AwaitQuiet
<1> QED BY <1>2, <1>3

(* Every component of k in one phase. *)
AllIn(x, k, p) == [r \in Roles |-> IF r \in RolesOf(k) THEN p ELSE x.comps[r]]
AllTo(s, k, p) == With(s, k, Comps(s.rec[k], AllIn(s.rec[k], k, p)))
LEMMA AllAre ==
  ASSUME NEW x \in Record, NEW k \in Keys, NEW p \in ComponentPhase, p # "received"
  PROVE  LET y == Comps(x, AllIn(x, k, p))
         IN /\ y \in Record /\ y.item = x.item /\ y.server = x.server
            /\ y.prepared = x.prepared /\ y.phase = x.phase /\ y.timer = x.timer
            /\ \A r \in RolesOf(k) : y.comps[r] # "received"
<1> DEFINE f == AllIn(x, k, p)
<1>1. x.comps \in [Roles -> ComponentPhase]
  BY RecordFields
<1>2. f \in [Roles -> ComponentPhase] /\ \A r \in RolesOf(k) : f[r] # "received"
  BY <1>1, RolesAre DEF AllIn
<1> HIDE DEF f
<1>3. LET y == Comps(x, f)
      IN /\ y \in Record /\ y.item = x.item /\ y.server = x.server
         /\ y.prepared = x.prepared /\ y.phase = x.phase /\ y.timer = x.timer
         /\ \A r \in RolesOf(k) : y.comps[r] # "received"
  BY <1>2, CompsFields
<1> QED BY <1>3 DEF f

LEMMA AllCore ==
  ASSUME NEW s, NEW d \in Nat, NEW e \in Nat, NEW W, NEW C, NEW N, NEW c, Core(s, d, e, W, C, N, c),
         NEW k \in Keys, NEW p \in ComponentPhase, p # "received"
  PROVE  /\ Core(AllTo(s, k, p), d, e, W, C, N, c)
         /\ AllTo(s, k, p).rec[k].item = s.rec[k].item /\ AllTo(s, k, p).threads = s.threads
<1> DEFINE f == AllIn(s.rec[k], k, p)
           y == Comps(s.rec[k], f)
<1>1. s.rec[k] \in Record /\ s.rec[k].comps \in [Roles -> ComponentPhase] /\ Typed(s)
  BY StateFields, RecordFields DEF Core
<1>2. f \in [Roles -> ComponentPhase] /\ \A r \in RolesOf(k) : f[r] # "received"
  BY <1>1, RolesAre DEF AllIn
<1>3. AllTo(s, k, p) = With(s, k, y)
  BY DEF AllTo
<1> HIDE DEF f
<1>4. Core(With(s, k, Comps(s.rec[k], f)), d, e, W, C, N, c)
  BY <1>2, CompsCore
<1>5. y \in Record /\ y.item = s.rec[k].item
  BY <1>1, <1>2, CompsFields
<1> HIDE DEF y
<1>6. With(s, k, y).rec[k] = y /\ With(s, k, y).threads = s.threads
  BY <1>1, <1>5, WithRecord, WithSame
<1> QED BY <1>3, <1>4, <1>5, <1>6 DEF y

(* A record forgets its item, and everything that it knew of it. *)
Forgets(x) == Changed(x, [item |-> 0, request |-> 0, server |-> "absent", draft |-> FALSE,
                          phase |-> "failed", unknown |-> FALSE])
Renews(x) == Changed(x, [item |-> 0, request |-> 0, server |-> "absent", draft |-> FALSE,
                         phase |-> "waiting", unknown |-> FALSE])
LEMMA ForgetsFields ==
  ASSUME NEW x \in Record
  PROVE  /\ Forgets(x) \in Record /\ Forgets(x).item = 0 /\ Forgets(x).server = "absent"
         /\ Forgets(x).phase = "failed"
         /\ Renews(x) \in Record /\ Renews(x).item = 0 /\ Renews(x).server = "absent"
         /\ Renews(x).phase = "waiting"
<1>1. 0 \in 0..MaxRegistrations /\ {"failed", "waiting"} \subseteq ItemPhase /\ "absent" \in ItemState
  BY UploadConstants DEF ItemPhase, ItemState
<1> QED BY <1>1 DEF Forgets, Renews, Changed, Record

LEMMA LoseCore ==
  ASSUME NEW s, NEW d \in Nat, NEW e \in Nat, NEW W, NEW C, NEW N, NEW c, Core(s, d, e, W, C, N, c),
         NEW k \in Keys, k \in N, k \notin c.named, NEW p \in ComponentPhase, p # "received"
  PROVE  /\ Core(AllTo(With(s, k, Forgets(s.rec[k])), k, p), d, e, W \ {k}, C, N, c)
         /\ Core(AllTo(With(s, k, Renews(s.rec[k])), k, p), d, e, W \ {k}, C, N, c)
<1>1. s.rec[k] \in Record /\ Typed(s)
  BY StateFields DEF Core
<1>2. ASSUME NEW x \in Record, x.item = 0, x.server = "absent", x.phase \notin InProgress \cup Unwanted
      PROVE  Core(AllTo(With(s, k, x), k, p), d, e, W \ {k}, C, N, c)
  <2> DEFINE y == Comps(x, AllIn(x, k, p))
  <2>1. /\ y \in Record /\ y.item = x.item /\ y.server = x.server /\ y.phase = x.phase
        /\ \A r \in RolesOf(k) : y.comps[r] # "received"
    BY <1>2, AllAre
  <2>2. AllTo(With(s, k, x), k, p) = With(With(s, k, x), k, y)
    BY <1>1, <1>2, WithRecord DEF AllTo
  <2> HIDE DEF y
  <2>3. AllTo(With(s, k, x), k, p) = With(s, k, y)
    BY <1>1, <1>2, <2>1, <2>2, WithTwice
  <2>4. MayPut(s, k, y, N, c)
    BY <1>2, <2>1 DEF MayPut, RecordOK, InProgress
  <2>5. Core(With(s, k, y), d, e, W \ {k}, C, N, c)
    BY <1>2, <2>1, <2>4, PutQuiet
  <2> QED BY <2>3, <2>5
<1>3. "failed" \notin InProgress \cup Unwanted /\ "waiting" \notin InProgress \cup Unwanted
  BY DEF InProgress, Unwanted
<1>4. Core(AllTo(With(s, k, Forgets(s.rec[k])), k, p), d, e, W \ {k}, C, N, c)
  BY <1>1, <1>2, <1>3, ForgetsFields
<1>5. Core(AllTo(With(s, k, Renews(s.rec[k])), k, p), d, e, W \ {k}, C, N, c)
  BY <1>1, <1>2, <1>3, ForgetsFields
<1> QED BY <1>4, <1>5

(* abandonRegistration *)
LEMMA AbandonCore ==
  ASSUME NEW s, NEW d \in Nat, NEW e \in Nat, NEW W, NEW C, NEW N, NEW c, Core(s, d, e, W, C, N, c),
         NEW k \in Keys, k \notin c.named
  PROVE  Core(Abandon(s, k), d, e, W, C, N, c)
<1> DEFINE W1 == W \cup {k}
           N1 == N \cup {k}
           renewed == Renew(s, k)
           stopped == AbortTransfers(renewed, k)
           quiet == StopPolling(stopped, k)
           z == TransfersWithout(quiet.transferQueue, k)
           less == [quiet EXCEPT !.transferQueue = z]
           dropped == ForgetLocalCopy(less, k)
           failed == With(dropped, k, Forgets(dropped.rec[k]))
           all == AllTo(failed, k, "queued")
           i == s.rec[k].item
<1>1. i \in 0..MaxRegistrations
  BY StateFields, RecordFields DEF Core
<1>2. Core(renewed, d, e, W1, C, N1, c)
  <2>1. Core(s, d, e, W1, C, N, c) /\ k \in W1
    BY Discharge
  <2> HIDE DEF W1
  <2> QED BY <2>1, RenewCore
<1>3. Abandon(s, k) = CancelOnAccount(all, k, i)
  <2>1. Patch(dropped, k, [item |-> 0, request |-> 0, server |-> "absent", draft |-> FALSE,
                           phase |-> "failed", unknown |-> FALSE]) = failed
    BY PatchIsWith DEF Forgets
  <2>2. Abandon(s, k) = CancelOnAccount(SetComponents(failed, k, LAMBDA r : "queued"), k, i)
    BY <2>1 DEF Abandon
  <2> HIDE DEF failed
  <2>3. SetComponents(failed, k, LAMBDA r : "queued") = AllTo(failed, k, "queued")
    BY DEF SetComponents, AllTo, AllIn, With, Comps
  <2> QED BY <2>2, <2>3
<1> HIDE DEF renewed, W1, i
<1>4. Core(stopped, d, e, W1, C, N1, c)
  BY <1>2, AbortCore
<1> HIDE DEF stopped
<1>5. Core(quiet, d, e, W1 \cup {k}, C, N1, c)
  BY <1>4, StopPollingCore
<1> HIDE DEF quiet
<1>6. z \in Seq(Keys \X Roles)
  <2>1. quiet.transferQueue \in Seq(Keys \X Roles)
    BY <1>5, StateFields DEF Core
  <2> QED BY <2>1, TransfersKept
<1> HIDE DEF z
<1>7. Core(less, d, e, W1 \cup {k}, C, N1, c)
  BY <1>5, <1>6, QueuesCore
<1> HIDE DEF less
<1>8. Core(dropped, d, e, W1 \cup {k}, C, N1, c)
  BY <1>7, ForgetCore
<1> HIDE DEF dropped
<1>9. Core(all, d, e, (W1 \cup {k}) \ {k}, C, N1, c)
  <2>1. k \in N1 /\ "queued" \in ComponentPhase
    BY DEF ComponentPhase
  <2> HIDE DEF N1
  <2> QED BY <1>8, <2>1, LoseCore
<1> HIDE DEF all
<1>10. Core(all, d, e, W, C, N1, c)
  BY <1>9, Discharge DEF W1
<1>11. Core(all, d, e, W, C, N, c)
  BY <1>10, Weaken
<1>12. Core(CancelOnAccount(all, k, i), d, e, W, C, N, c)
  BY <1>1, <1>11, CancelCore
<1> QED BY <1>3, <1>12

(* Nothing but slots of the preprocessing is owed. *)
Fine(s, d, c) == Core(s, d, 0, {}, {}, {}, c)

LEMMA FineSteps ==
  ASSUME NEW s, NEW d \in Nat, NEW c, Fine(s, d, c), NEW k \in Keys
  PROVE  /\ \A b \in BOOLEAN : Fine(Fail(s, k, b), d, c)
         /\ Fine(Patch(s, k, [phase |-> "waiting", unknown |-> FALSE]), d, c)
         /\ Fine(DerivePhase(s, k), d, c)
         /\ \A r \in Roles : \A p \in ComponentPhase \ {"received"} : Fine(SetComponent(s, k, r, p), d, c)
         /\ \A p \in ComponentPhase \ {"received"} : Fine(AllTo(s, k, p), d, c)
<1>0. 0 \in Nat /\ {} \ {k} = {}
  OBVIOUS
<1>1. Core(s, d, 0, {}, {}, {}, c)
  BY DEF Fine
<1>2. ASSUME NEW p \in {"failed", "waiting"}, NEW b \in BOOLEAN
      PROVE  Core(Patch(s, k, [phase |-> p, unknown |-> b]), d, 0, {}, {}, {}, c)
  <2>1. p \in ItemPhase /\ p \notin InProgress \cup Unwanted
    BY DEF ItemPhase, InProgress, Unwanted
  <2>2. Core(Patch(s, k, [phase |-> p, unknown |-> b]), d, 0, {} \ {k}, {}, {}, c)
    BY <1>0, <1>1, <2>1, FailCore
  <2> QED BY <1>0, <2>2
<1>3. \A b \in BOOLEAN : Fine(Fail(s, k, b), d, c)
  BY <1>2 DEF Fail, Fine
<1>4. Fine(Patch(s, k, [phase |-> "waiting", unknown |-> FALSE]), d, c)
  BY <1>2 DEF Fine
<1>5. Fine(DerivePhase(s, k), d, c)
  BY <1>1, DeriveCore DEF Fine
<1>6. \A r \in Roles : \A p \in ComponentPhase \ {"received"} : Fine(SetComponent(s, k, r, p), d, c)
  BY <1>1, ComponentCore DEF Fine
<1>7. \A p \in ComponentPhase \ {"received"} : Fine(AllTo(s, k, p), d, c)
  BY <1>0, <1>1, AllCore DEF Fine
<1> QED BY <1>3, <1>4, <1>5, <1>6, <1>7

-----------------------------------------------------------------------------
(* What a continuation comes to. *)
Ready(o, t, d, W, c) ==
    /\ Core(o.s, d, 0, W, {}, {}, c)
    /\ o.send \subseteq Roles
    /\ o.does = "apply" => t.item \in 1..MaxRegistrations /\ t.ans.item \in Item

LEMMA ReadyOutcomes ==
  ASSUME NEW s, NEW d, NEW c, NEW W, NEW t \in Thread, Core(s, d, 0, W, {}, {}, c)
  PROVE  /\ Ready(Done(s), t, d, W, c) /\ Ready(Paused(s), t, d, W, c)
         /\ Ready(Outcome(s, "unavailable", {}, {}), t, d, W, c)
         /\ t.item # 0 => /\ Ready(Applies(s), t, d, W, c)
                          /\ \A r : Ready(AppliesBut(s, r), t, d, W, c)
                          /\ \A R \in SUBSET Roles : Ready(AppliesAndSends(s, R), t, d, W, c)
         /\ \A r \in Roles : Ready(Sends(s, r), t, d, W, c)
<1>1. t.item # 0 => t.item \in 1..MaxRegistrations /\ t.ans.item \in Item
  <2>1. t.item \in 0..MaxRegistrations /\ t.ans.item \in Item
    BY ThreadFields
  <2> QED BY <2>1, UploadConstants
<1> QED BY <1>1 DEF Ready, Done, Paused, Outcome, Applies, AppliesBut, AppliesAndSends, Sends

LEMMA EnqueuesCore ==
  ASSUME NEW s, NEW d \in Nat, NEW c, Fine(s, d, c), NEW k \in Keys, NEW R, R \subseteq Roles
  PROVE  Fine(ForRoles(LAMBDA u, r : EnqueueTransfer(u, k, r), s, R), d, c)
<1> DEFINE first == IF "still" \in R THEN EnqueueTransfer(s, k, "still") ELSE s
           then == IF "motion" \in R THEN EnqueueTransfer(first, k, "motion") ELSE first
<1>0. 0 \in Nat /\ "still" \in Roles /\ "motion" \in Roles
  BY DEF Roles
<1>1. Core(s, d, 0, {}, {}, {}, c)
  BY DEF Fine
<1>2. Core(first, d, 0, {}, {}, {}, c)
  BY <1>0, <1>1, EnqueueCore
<1> HIDE DEF first
<1>3. Core(then, d, 0, {}, {}, {}, c)
  BY <1>0, <1>2, EnqueueCore
<1>4. ForRoles(LAMBDA u, r : EnqueueTransfer(u, k, r), s, R) = then
  BY DEF ForRoles, first
<1> QED BY <1>3, <1>4 DEF Fine

LEMMA CarryCore ==
  ASSUME NEW o, NEW t \in Thread, NEW d \in Nat, NEW W, NEW c, Ready(o, t, d, W, c),
         W = IF t.for = "poll" THEN {t.key} ELSE {}
  PROVE  Fine(Carry(o, t), d, c)
<1> DEFINE k == t.key
           applied == IF o.does = "apply" THEN ApplyServerItem(o.s, k, t.item, t.ans.item, o.keep) ELSE o.s
           polled == IF t.for = "poll" /\ applied.rec[k].phase \in {"uploaded", "processing"}
                     THEN SchedulePoll(applied, k) ELSE applied
<1>0. k \in Keys /\ 0 \in Nat /\ W \ {k} = {}
  BY ThreadFields
<1>1. Core(o.s, d, 0, W, {}, {}, c) /\ o.send \subseteq Roles
  BY DEF Ready
<1>2. Core(applied, d, 0, W, {}, {}, c)
  BY <1>0, <1>1, ApplyCore DEF Ready
<1>3. CASE o.does = "pause"
  <2>1. Fine(Pause(o.s, "account"), d, c)
    BY <1>0, <1>1, PauseCore DEF Fine
  <2> QED BY <1>3, <2>1 DEF Carry
<1>4. CASE o.does = "unavailable"
  <2>1. Core(MarkUnavailable(o.s, k), d, 0, W \ {k}, {}, {}, c)
    BY <1>0, <1>1, UnavailableCore
  <2>2. Fine(MarkUnavailable(o.s, k), d, c)
    BY <1>0, <2>1 DEF Fine
  <2> QED BY <1>4, <2>2 DEF Carry
<1>5. CASE o.does \notin {"pause", "unavailable"}
  <2> HIDE DEF applied
  <2>1. Fine(polled, d, c)
    <3>1. CASE t.for = "poll" /\ applied.rec[k].phase \in {"uploaded", "processing"}
      <4>1. Core(SchedulePoll(applied, k), d, 0, W \ {k}, {}, {}, c)
        BY <1>0, <1>2, PollCore
      <4> QED BY <1>0, <3>1, <4>1 DEF Fine
    <3>2. CASE t.for = "poll" /\ applied.rec[k].phase \notin {"uploaded", "processing"}
      <4>1. Watched(applied, k, c)
        BY <3>2 DEF Watched
      <4>2. Core(applied, d, 0, {}, {}, {}, c)
        BY <1>2, <4>1, <3>2, Discharge
      <4> QED BY <3>2, <4>2 DEF Fine
    <3>3. CASE t.for # "poll"
      BY <1>2, <3>3 DEF Fine
    <3> QED BY <3>1, <3>2, <3>3
  <2> HIDE DEF polled
  <2>2. Fine(ForRoles(LAMBDA u, r : EnqueueTransfer(u, k, r), polled, o.send), d, c)
    BY <1>0, <1>1, <2>1, EnqueuesCore
  <2>3. Carry(o, t) = ForRoles(LAMBDA u, r : EnqueueTransfer(u, k, r), polled, o.send)
    BY <1>5 DEF Carry, applied, polled
  <2> QED BY <2>2, <2>3
<1> QED BY <1>3, <1>4, <1>5

(* A continuation t that goes on, in the manager s that it has left. *)
Heard(s, t) ==
    /\ t \in Thread /\ Shape(t) /\ t.ans.is \notin {"under way", "streaming"} /\ t.for # "detach"
    /\ Drives(t) => /\ s.rec[t.key].item # 0 /\ (t.ans.is = "item" => Own)
                    /\ \A u \in s.threads : ~ (u.for = "detach" /\ u.key = t.key)

LEMMA HeardIs ==
  ASSUME NEW s, NEW t, Heard(s, t)
  PROVE  /\ t \in Thread /\ t.key \in Keys /\ t.role \in Roles /\ t.item \in 0..MaxRegistrations
         /\ <<t.for, t.call>> \in Pairs /\ t.ans.is \in Answers(t) /\ t.for # "nobody"
         /\ t.call \notin {"holder", "put"} /\ ~ (t.for = "prepare" /\ t.call = "work") => t.item # 0
         /\ t.note \in NotesFor(t.for)
<1>1. t \in Thread /\ Shape(t) /\ t.ans.is \notin {"under way", "streaming"} /\ t.for # "detach"
  BY DEF Heard
<1>2. t.key \in Keys /\ t.role \in Roles /\ t.item \in 0..MaxRegistrations
  BY <1>1, ThreadFields
<1>3. <<t.for, t.call>> \in Pairs /\ t.ans.is \in Answers(t)
  BY <1>1 DEF Shape
<1>4. t.for # "nobody"
  BY <1>3 DEF Pairs
<1> QED BY <1>1, <1>2, <1>3, <1>4 DEF Shape, Nameless

(* Settled transfers, hashes and what reads the account after a failure.    *)
LEMMA TransferSettledReady ==
  ASSUME NEW s, NEW t, NEW c, Heard(s, t), Fine(s, 0, c), t.for = "transfer"
  PROVE  Ready(TransferSettled(s, t), t, 0, {}, c)
<1> DEFINE why == "settle"  call == "read"  k == t.key  note == FailureOf(t.ans)
           hash == [t EXCEPT !.for = "hash", !.call = "work"]
<1>0. /\ t \in Thread /\ k \in Keys /\ t.role \in Roles /\ t.call = "upload" /\ t.item # 0
      /\ t.alive /\ t.note \in {"draft", "session"}
  BY HeardIs DEF Pairs, Heard, Shape, ActsWhenStale, NotesFor, Rereads
<1>1. 0 \in Nat /\ Core(s, 0, 0, {}, {}, {}, c)
  BY DEF Fine
<1>2. Ready(Paused(s), t, 0, {}, c) /\ Ready(Done(s), t, 0, {}, c)
  BY <1>0, <1>1, ReadyOutcomes
<1>3. ASSUME t.ans.is = "item" PROVE Ready(Done(StartThread(s, hash)), t, 0, {}, c)
  <2>1. /\ hash.for = "hash" /\ hash.call = "work" /\ hash.key = k /\ hash.item = t.item
        /\ hash.alive = t.alive /\ hash.ans = t.ans /\ hash.note = t.note /\ hash \in Thread
    BY <1>0 DEF Thread
  <2> HIDE DEF hash
  <2>2. Shape(hash)
    BY <1>0, <1>3, <2>1 DEF Shape, Pairs, Answers, Nameless, NotesFor, Rereads
  <2>3. ThreadOK(hash, {}, c) /\ MayStart(s, hash, {}, c)
    BY <2>1, <2>2 DEF ThreadOK, MayStart, Drives, IsSent, Commands
  <2>4. 0 = Owed(0, hash, "prepare") /\ 0 = Owed(0, hash, "transfer")
    BY <2>1 DEF Owed
  <2>5. Core(StartThread(s, hash), 0, 0, {}, {}, {}, c)
    BY <1>1, <2>1, <2>3, <2>4, StartCore
  <2> QED BY <1>0, <2>5, ReadyOutcomes
<1>4. ASSUME s.rec[k].item # 0
      PROVE  Ready(Done(AwaitNoting(s, "settle", "read", k, t.role, FailureOf(t.ans))), t, 0, {}, c)
  <2>1. MayAwait(s, why, call, k, {}, c) /\ note \in NotesFor(why) /\ why \notin {"prepare", "transfer"}
    BY <1>4 DEF MayAwait, Pairs, Commands, FailureOf, NotesFor, Rereads
  <2> HIDE DEF why, call, note
  <2>2. Core(AwaitNoting(s, why, call, k, t.role, note), 0, 0, {}, {}, {}, c)
    BY <1>0, <1>1, <2>1, AwaitQuiet
  <2>3. Ready(Done(AwaitNoting(s, why, call, k, t.role, note)), t, 0, {}, c)
    BY <1>0, <2>2, ReadyOutcomes
  <2> QED BY <2>3 DEF why, call, note
<1> QED BY <1>2, <1>3, <1>4 DEF TransferSettled

LEMMA HashedReady ==
  ASSUME NEW s, NEW t, NEW c, Heard(s, t), Fine(s, 0, c), t.for = "hash", c.named = {}
  PROVE  Ready(Hashed(s, t), t, 0, {}, c)
<1>0. t \in Thread /\ t.key \in Keys /\ t.item # 0
  BY HeardIs DEF Pairs
<1>1. 0 \in Nat /\ Core(s, 0, 0, {}, {}, {}, c)
  BY DEF Fine
<1>2. Core(Abandon(s, t.key), 0, 0, {}, {}, {}, c)
  BY <1>0, <1>1, AbandonCore
<1>3. Ready(Applies(s), t, 0, {}, c) /\ Ready(Done(Abandon(s, t.key)), t, 0, {}, c)
  BY <1>0, <1>1, <1>2, ReadyOutcomes
<1> QED BY <1>3 DEF Hashed

LEMMA UnreadReady ==
  ASSUME NEW s, NEW t \in Thread, NEW c, NEW W, Core(s, 0, 0, W, {}, {}, c)
  PROVE  Ready(Unread(s, t), t, 0, W, c)
BY ReadyOutcomes DEF Unread

LEMMA RereadReady ==
  ASSUME NEW s, NEW t, NEW c, Heard(s, t), Fine(s, 0, c), t.for \in {"settle", "again"}
  PROVE  /\ t.for = "settle" => Ready(Reread(s, t), t, 0, {}, c)
         /\ t.for = "again" => Ready(ResetReread(s, t), t, 0, {}, c)
<1> DEFINE noted == SetComponent(s, t.key, t.role, t.note)
<1>0. /\ t \in Thread /\ t.key \in Keys /\ t.role \in Roles /\ t.item # 0
      /\ t.note \in ComponentPhase \ {"received"} /\ t.ans.is \in {"item", "gone", "account", "lost"}
  BY HeardIs DEF Pairs, NotesFor, Rereads, ComponentPhase, Answers
<1>1. 0 \in Nat /\ Core(s, 0, 0, {}, {}, {}, c)
  BY DEF Fine
<1>2. Fine(noted, 0, c)
  BY <1>0, FineSteps
<1> HIDE DEF noted
<1>3. Fine(DerivePhase(noted, t.key), 0, c)
  BY <1>0, <1>2, FineSteps
<1>4. Ready(Done(DerivePhase(noted, t.key)), t, 0, {}, c)
  BY <1>0, <1>3, ReadyOutcomes DEF Fine
<1>5. Ready(AppliesBut(noted, t.role), t, 0, {}, c)
  BY <1>0, <1>2, ReadyOutcomes DEF Fine
<1>6. /\ Ready(Applies(s), t, 0, {}, c)
      /\ Ready(Unread(s, t), t, 0, {}, c)
  BY <1>0, <1>1, ReadyOutcomes, UnreadReady
<1>7. t.for = "settle" => Ready(Reread(s, t), t, 0, {}, c)
  BY <1>0, <1>4, <1>5, <1>6 DEF Reread, noted
<1>8. Ready(ResetReread(s, t), t, 0, {}, c)
  <2> DEFINE now == t.ans.item.comps[t.role]
             R == {r \in {t.role} : now = "awaiting"}
  <2>1. R \in SUBSET Roles
    BY <1>0
  <2>2. Ready(AppliesAndSends(s, R), t, 0, {}, c)
    <3> HIDE DEF R
    <3> QED BY <1>0, <1>1, <2>1, ReadyOutcomes
  <2>3. ResetReread(s, t) \in {Done(DerivePhase(noted, t.key)), AppliesBut(noted, t.role), AppliesAndSends(s, R)}
    BY DEF ResetReread, noted
  <2> HIDE DEF R
  <2> QED BY <1>4, <1>5, <2>2, <2>3
<1> QED BY <1>7, <1>8

(* A command or a read of a continuation that goes on. *)
LEMMA NextCall ==
  ASSUME NEW s, NEW t, NEW c, Heard(s, t), Fine(s, 0, c),
         NEW why, NEW call, NEW r \in Roles, NEW note \in NotesFor(why),
         <<why, call>> \in {<<"restart", "reset">>, <<"process", "reset">>, <<"again", "read">>,
                            <<"processed", "read">>},
         Drives(t), t.ans.is = "item" \/ why \notin {"restart", "process"}
  PROVE  Ready(Done(AwaitNoting(s, why, call, t.key, r, note)), t, 0, {}, c)
<1>0. t \in Thread /\ t.key \in Keys
  BY HeardIs
<1>1. 0 \in Nat /\ Core(s, 0, 0, {}, {}, {}, c)
  BY DEF Fine
<1>2. /\ s.rec[t.key].item # 0 /\ (t.ans.is = "item" => Own)
      /\ \A u \in s.threads : ~ (u.for = "detach" /\ u.key = t.key)
  BY DEF Heard
<1>3. why \notin {"prepare", "transfer", "hash", "nobody", "detach"} /\ <<why, call>> \in Pairs
      /\ (call \in Commands => why \in {"restart", "process"})
  BY DEF Pairs, Commands
<1>4. MayAwait(s, why, call, t.key, {}, c)
  BY <1>2, <1>3 DEF MayAwait
<1>5. Core(AwaitNoting(s, why, call, t.key, r, note), 0, 0, {}, {}, {}, c)
  BY <1>0, <1>1, <1>3, <1>4, AwaitQuiet
<1> QED BY <1>0, <1>5, ReadyOutcomes

LEMMA RestartedReady ==
  ASSUME NEW s, NEW t, NEW c, Heard(s, t), Fine(s, 0, c), t.for = "restart", t.call = "read"
  PROVE  Ready(Restarted(s, t), t, 0, {}, c)
<1> DEFINE failing == SetComponent(s, t.key, t.role, "failed")
           why == "restart"  call == "reset"  note == "draft"
<1>0. /\ t \in Thread /\ t.key \in Keys /\ t.role \in Roles /\ t.item # 0 /\ Drives(t)
      /\ t.ans.is \in {"item", "gone", "account", "lost"}
      /\ {"failed", "interrupted"} \subseteq ComponentPhase \ {"received"}
  BY HeardIs DEF Pairs, ComponentPhase, Answers, Drives
<1>1. 0 \in Nat /\ Core(s, 0, 0, {}, {}, {}, c)
  BY DEF Fine
<1>2. Ready(Applies(s), t, 0, {}, c) /\ Ready(Unread(s, t), t, 0, {}, c)
      /\ Ready(Sends(s, t.role), t, 0, {}, c)
  BY <1>0, <1>1, ReadyOutcomes, UnreadReady
<1>3. Ready(Applies(failing), t, 0, {}, c)
  <2>1. Fine(failing, 0, c)
    BY <1>0, FineSteps
  <2> HIDE DEF failing
  <2> QED BY <1>0, <2>1, ReadyOutcomes DEF Fine
<1>4. Ready(Done(FailComponent(s, t.key, t.role, "interrupted")), t, 0, {}, c)
  <2>1. Fine(SetComponent(s, t.key, t.role, "interrupted"), 0, c)
    BY <1>0, FineSteps
  <2>2. Fine(FailComponent(s, t.key, t.role, "interrupted"), 0, c)
    BY <1>0, <1>1, <2>1, FineSteps DEF FailComponent
  <2> QED BY <1>0, <2>2, ReadyOutcomes DEF Fine
<1>5. ASSUME t.ans.is = "item" PROVE Ready(Done(Await(s, "restart", "reset", t.key, t.role)), t, 0, {}, c)
  <2>1. note \in NotesFor(why) /\ <<why, call>> = <<"restart", "reset">>
    BY DEF NotesFor, Rereads
  <2> HIDE DEF why, call, note
  <2>2. Ready(Done(AwaitNoting(s, why, call, t.key, t.role, note)), t, 0, {}, c)
    BY <1>0, <1>5, <2>1, NextCall
  <2> QED BY <2>2 DEF why, call, note, Await
<1>6. \/ Restarted(s, t) \in {Applies(s), Applies(failing), Unread(s, t), Sends(s, t.role)}
      \/ Restarted(s, t) = Done(FailComponent(s, t.key, t.role, "interrupted"))
      \/ (t.ans.is = "item" /\ Restarted(s, t) = Done(Await(s, "restart", "reset", t.key, t.role)))
  <2> HIDE DEF failing
  <2>1. CASE t.ans.is \in {"gone", "account"}
    BY <2>1 DEF Restarted
  <2>2. CASE t.ans.is = "lost"
    BY <2>2 DEF Restarted
  <2>3. CASE t.ans.is = "item"
    BY <2>3 DEF Restarted, failing
  <2> QED BY <1>0, <2>1, <2>2, <2>3
<1> HIDE DEF failing
<1> QED BY <1>2, <1>3, <1>4, <1>5, <1>6

LEMMA RestartResetReady ==
  ASSUME NEW s, NEW t, NEW c, Heard(s, t), Fine(s, 0, c), t.for = "restart", t.call = "reset"
  PROVE  Ready(RestartReset(s, t), t, 0, {}, c)
<1> DEFINE why == "again"  call == "read"  note == FailureOf(t.ans)
           R == {r \in {t.role} : t.ans.item.comps[r] = "awaiting"}
<1>0. /\ t \in Thread /\ t.key \in Keys /\ t.role \in Roles /\ t.item # 0 /\ Drives(t)
  BY HeardIs DEF Pairs, Drives
<1>1. 0 \in Nat /\ Core(s, 0, 0, {}, {}, {}, c) /\ R \in SUBSET Roles
  BY <1>0 DEF Fine
<1> HIDE DEF R
<1>2. Ready(Paused(s), t, 0, {}, c) /\ Ready(AppliesAndSends(s, R), t, 0, {}, c)
  BY <1>0, <1>1, ReadyOutcomes
<1>3. Ready(Done(AwaitNoting(s, "again", "read", t.key, t.role, FailureOf(t.ans))), t, 0, {}, c)
  <2>1. note \in NotesFor(why) /\ <<why, call>> = <<"again", "read">> /\ why \notin {"restart", "process"}
    BY DEF NotesFor, Rereads, FailureOf
  <2> HIDE DEF why, call, note
  <2>2. Ready(Done(AwaitNoting(s, why, call, t.key, t.role, note)), t, 0, {}, c)
    BY <1>0, <2>1, NextCall
  <2> QED BY <2>2 DEF why, call, note
<1>4. RestartReset(s, t) \in {Paused(s), AppliesAndSends(s, R),
                              Done(AwaitNoting(s, "again", "read", t.key, t.role, FailureOf(t.ans)))}
  BY DEF RestartReset, R
<1> QED BY <1>2, <1>3, <1>4

LEMMA FailedComponents ==
  ASSUME NEW s, NEW k
  PROVE  SetComponents(s, k, LAMBDA r : "failed") = AllTo(s, k, "failed")
BY DEF SetComponents, AllTo, AllIn, With, Comps

LEMMA ProcessResetReady ==
  ASSUME NEW s, NEW t, NEW c, Heard(s, t), Fine(s, 0, c), t.for = "process"
  PROVE  Ready(ProcessReset(s, t), t, 0, {}, c)
<1> DEFINE why == "processed"  call == "read"  note == FailureOf(t.ans)
           again == "process"  reset == "reset"  plain == "draft"
           R == {r \in RolesOf(t.key) : t.ans.item.comps[r] = "awaiting"}
           failed == AllTo(s, t.key, "failed")
<1>0. /\ t \in Thread /\ t.key \in Keys /\ t.role \in Roles /\ t.item # 0 /\ Drives(t)
      /\ "motion" \in Roles /\ "failed" \in ComponentPhase \ {"received"} /\ FALSE \in BOOLEAN
  BY HeardIs DEF Pairs, Drives, Roles, ComponentPhase
<1>1. 0 \in Nat /\ Core(s, 0, 0, {}, {}, {}, c) /\ R \in SUBSET Roles
  BY <1>0, RolesAre DEF Fine
<1> HIDE DEF R
<1>2. Ready(AppliesAndSends(s, R), t, 0, {}, c)
  BY <1>0, <1>1, ReadyOutcomes
<1>3. Ready(Done(AwaitNoting(s, "processed", "read", t.key, t.role, FailureOf(t.ans))), t, 0, {}, c)
  <2>1. note \in NotesFor(why) /\ <<why, call>> = <<"processed", "read">> /\ why \notin {"restart", "process"}
    BY DEF NotesFor, Rereads, FailureOf
  <2> HIDE DEF why, call, note
  <2>2. Ready(Done(AwaitNoting(s, why, call, t.key, t.role, note)), t, 0, {}, c)
    BY <1>0, <2>1, NextCall
  <2> QED BY <2>2 DEF why, call, note
<1>4. ASSUME t.ans.is = "item" PROVE Ready(Done(Await(s, "process", "reset", t.key, "motion")), t, 0, {}, c)
  <2>1. plain \in NotesFor(again) /\ <<again, reset>> = <<"process", "reset">>
    BY DEF NotesFor, Rereads
  <2> HIDE DEF again, reset, plain
  <2>2. Ready(Done(AwaitNoting(s, again, reset, t.key, "motion", plain)), t, 0, {}, c)
    BY <1>0, <1>4, <2>1, NextCall
  <2> QED BY <2>2 DEF again, reset, plain, Await
<1>5. Ready(Paused(Fail(failed, t.key, FALSE)), t, 0, {}, c)
  <2>1. Fine(failed, 0, c)
    BY <1>0, <1>1, FineSteps
  <2> HIDE DEF failed
  <2>2. Fine(Fail(failed, t.key, FALSE), 0, c)
    BY <1>0, <1>1, <2>1, FineSteps
  <2> QED BY <1>0, <2>2, ReadyOutcomes DEF Fine
<1>6. \/ ProcessReset(s, t) \in {AppliesAndSends(s, R), Paused(Fail(failed, t.key, FALSE)),
                                 Done(AwaitNoting(s, "processed", "read", t.key, t.role, FailureOf(t.ans)))}
      \/ (t.ans.is = "item" /\ ProcessReset(s, t) = Done(Await(s, "process", "reset", t.key, "motion")))
  <2>1. CASE t.ans.is = "item"
    BY <2>1 DEF ProcessReset, R
  <2>2. CASE t.ans.is = "account"
    <3>1. SetComponents(s, t.key, LAMBDA r : "failed") = failed
      BY FailedComponents
    <3> HIDE DEF failed
    <3> QED BY <2>2, <3>1 DEF ProcessReset
  <2>3. CASE t.ans.is \notin {"item", "account"}
    BY <2>3 DEF ProcessReset
  <2> QED BY <2>1, <2>2, <2>3
<1> HIDE DEF failed
<1> QED BY <1>2, <1>3, <1>4, <1>5, <1>6

LEMMA ProcessRereadReady ==
  ASSUME NEW s, NEW t, NEW c, Heard(s, t), Fine(s, 0, c), t.for = "processed"
  PROVE  Ready(ProcessReread(s, t), t, 0, {}, c)
<1> DEFINE failed == AllTo(s, t.key, "failed")
           read == IF t.ans.is = "item" THEN ApplyServerItem(failed, t.key, t.item, t.ans.item, {}) ELSE failed
<1>0. /\ t \in Thread /\ t.key \in Keys /\ t.role \in Roles /\ t.item \in 1..MaxRegistrations
      /\ t.ans.item \in Item /\ "failed" \in ComponentPhase \ {"received"}
  <2>1. t.item # 0 /\ t.item \in 0..MaxRegistrations /\ t \in Thread /\ t.key \in Keys /\ t.role \in Roles
    BY HeardIs DEF Pairs
  <2>2. t.ans.item \in Item
    BY <2>1, ThreadFields
  <2> QED BY <2>1, <2>2, UploadConstants DEF ComponentPhase
<1>1. 0 \in Nat /\ Core(s, 0, 0, {}, {}, {}, c)
  BY DEF Fine
<1>2. Fine(failed, 0, c)
  BY <1>0, <1>1, FineSteps
<1> HIDE DEF failed
<1>3. Fine(read, 0, c)
  BY <1>0, <1>2, ApplyCore DEF Fine
<1> HIDE DEF read
<1>4. Fine(Fail(read, t.key, t.note = "interrupted"), 0, c)
  BY <1>0, <1>1, <1>3, FineSteps
<1>5. Ready(Done(Fail(read, t.key, t.note = "interrupted")), t, 0, {}, c)
  BY <1>0, <1>4, ReadyOutcomes DEF Fine
<1> QED BY <1>5, FailedComponents DEF ProcessReread, read, failed

Found(s, t) == Patch(s, t.key, [item |-> t.item, draft |-> t.note = "draft", phase |-> "queued"])
Begun(s, t) == With(Found(s, t), t.key, Comps(Found(s, t).rec[t.key],
                    [r \in Roles |-> IF r \in RolesOf(t.key)
                                     THEN IF t.ans.item.comps[r] = "receiving" THEN "paused"
                                          ELSE Found(s, t).rec[t.key].comps[r]
                                     ELSE Found(s, t).rec[t.key].comps[r]]))

LEMMA RegisteredIs ==
  ASSUME NEW s, NEW t
  PROVE  Registered(s, t) = AppliesAndSends(StoreLocalCopy(Begun(s, t), t.key),
                                            {r \in RolesOf(t.key) : t.ans.item.comps[r] = "awaiting"})
BY DEF Registered, SetComponents, Begun, Found, With, Comps

LEMMA KnownFields ==
  ASSUME NEW x \in Record, NEW i \in 0..MaxRegistrations, NEW b \in BOOLEAN
  PROVE  LET y == Changed(x, [item |-> i, draft |-> b, phase |-> "queued"])
         IN y \in Record /\ y.item = i /\ y.phase = "queued"
<1>1. "queued" \in ItemPhase
  BY DEF ItemPhase
<1> QED BY <1>1 DEF Changed, Record

LEMMA KnownFine ==
  ASSUME NEW s, NEW t, NEW d \in Nat, NEW c, Heard(s, t), Fine(s, d, c), t.call = "register"
  PROVE  Fine(Found(s, t), d, c) /\ Found(s, t).rec[t.key].item # 0
<1> DEFINE k == t.key
           x == s.rec[k]
           y == Changed(x, [item |-> t.item, draft |-> t.note = "draft", phase |-> "queued"])
<1>0. k \in Keys /\ t.item \in 1..MaxRegistrations /\ {} \ {k} = {}
  <2>1. t.item # 0 /\ t.item \in 0..MaxRegistrations /\ k \in Keys
    BY HeardIs DEF Pairs
  <2> QED BY <2>1, UploadConstants
<1>1. Core(s, d, 0, {}, {}, {}, c) /\ Typed(s)
  BY DEF Fine, Core
<1>2. x \in Record
  BY <1>0, <1>1, StateFields
<1>3. y \in Record /\ y.item = t.item /\ y.phase = "queued"
  <2> DEFINE b == (t.note = "draft")
  <2>1. b \in BOOLEAN /\ t.item \in 0..MaxRegistrations
    BY <1>0
  <2>2. y = Changed(x, [item |-> t.item, draft |-> b, phase |-> "queued"])
    OBVIOUS
  <2> HIDE DEF y, b
  <2> QED BY <1>2, <2>1, <2>2, KnownFields
<1>4. Found(s, t) = With(s, k, y)
  BY PatchIsWith DEF Found
<1> HIDE DEF y
<1>5. RecordOK(k, y)
  BY <1>0, <1>3 DEF RecordOK
<1>6. MayPut(s, k, y, {}, c)
  BY <1>0, <1>3, <1>5 DEF MayPut
<1>7. Core(With(s, k, y), d, 0, {} \ {k}, {}, {}, c)
  BY <1>0, <1>1, <1>3, <1>6, PutQuiet DEF InProgress, Unwanted
<1>8. With(s, k, y).rec[k] = y
  BY <1>0, <1>1, <1>3, WithRecord
<1> QED BY <1>0, <1>3, <1>4, <1>7, <1>8 DEF Fine

LEMMA RegisteredReady ==
  ASSUME NEW s, NEW t, NEW d \in Nat, NEW c, Heard(s, t), Fine(s, d, c), t.call = "register"
  PROVE  Ready(Registered(s, t), t, d, {}, c)
<1> DEFINE k == t.key
           x == Found(s, t).rec[k]
           f == [r \in Roles |-> IF r \in RolesOf(k)
                                 THEN IF t.ans.item.comps[r] = "receiving" THEN "paused" ELSE x.comps[r]
                                 ELSE x.comps[r]]
           R == {r \in RolesOf(k) : t.ans.item.comps[r] = "awaiting"}
<1>0. k \in Keys /\ t.item # 0 /\ t \in Thread /\ R \in SUBSET Roles /\ 0 \in Nat
  BY HeardIs, RolesAre DEF Pairs
<1>1. Core(Found(s, t), d, 0, {}, {}, {}, c) /\ Typed(Found(s, t)) /\ x.item # 0
  BY KnownFine DEF Fine, Core
<1>2. x \in Record
  BY <1>0, <1>1, StateFields
<1> HIDE DEF x
<1>3. f \in [Roles -> ComponentPhase]
  <2>1. x.comps \in [Roles -> ComponentPhase] /\ "paused" \in ComponentPhase
    BY <1>2, RecordFields DEF ComponentPhase
  <2> QED BY <2>1
<1>4. Begun(s, t) = With(Found(s, t), k, Comps(x, f))
  BY DEF Begun, x
<1> HIDE DEF f
<1>5. Core(Begun(s, t), d, 0, {}, {}, {}, c)
  BY <1>0, <1>1, <1>3, <1>4, CompsCore DEF x
<1>6. Core(StoreLocalCopy(Begun(s, t), k), d, 0, {}, {}, {}, c)
  BY <1>0, <1>5, StoreCore
<1> HIDE DEF R
<1>7. Ready(AppliesAndSends(StoreLocalCopy(Begun(s, t), k), R), t, d, {}, c)
  BY <1>0, <1>6, ReadyOutcomes
<1> QED BY <1>7, RegisteredIs DEF R

LEMMA RegisterReady ==
  ASSUME NEW s, NEW t, NEW d \in Nat, NEW c, Heard(s, t), Fine(s, d, c), t.call = "register"
  PROVE  Ready(RegisterAnswered(s, t), t, d, {}, c)
<1> DEFINE lost == (t.ans.is = "lost")
<1>0. t.key \in Keys /\ t.item \in 0..MaxRegistrations /\ t \in Thread /\ 0 \in Nat /\ lost \in BOOLEAN
  BY HeardIs DEF Pairs
<1>1. Core(s, d, 0, {}, {}, {}, c)
  BY DEF Fine
<1>2. Ready(Registered(s, t), t, d, {}, c)
  BY RegisteredReady
<1>3. Ready(PausedAsWaiting(s, t.key), t, d, {}, c)
  <2>1. Fine(Patch(s, t.key, [phase |-> "waiting", unknown |-> FALSE]), d, c)
    BY <1>0, FineSteps
  <2> QED BY <1>0, <2>1, ReadyOutcomes DEF Fine, PausedAsWaiting
<1>4. Ready(Done(Fail(s, t.key, t.ans.is = "lost")), t, d, {}, c)
  <2>1. Fine(Fail(s, t.key, lost), d, c)
    BY <1>0, FineSteps
  <2> QED BY <1>0, <2>1, ReadyOutcomes DEF Fine
<1>5. Ready(Done(s), t, d, {}, c) /\ Ready(Done(CancelOnAccount(s, t.key, t.item)), t, d, {}, c)
  <2>1. Core(CancelOnAccount(s, t.key, t.item), d, 0, {}, {}, {}, c)
    BY <1>0, <1>1, CancelCore
  <2> QED BY <1>0, <1>1, <2>1, ReadyOutcomes
<1>6. RegisterSettled(s, t) \in {Registered(s, t), PausedAsWaiting(s, t.key), Done(Fail(s, t.key, t.ans.is = "lost"))}
  BY DEF RegisterSettled
<1> HIDE DEF lost
<1> QED BY <1>2, <1>3, <1>4, <1>5, <1>6 DEF RegisterAnswered

LEMMA PolledReady ==
  ASSUME NEW s, NEW t, NEW c, Heard(s, t), Core(s, 0, 0, {t.key}, {}, {}, c), t.for = "poll"
  PROVE  Ready(Polled(s, t), t, 0, {t.key}, c)
<1>0. /\ t \in Thread /\ t.key \in Keys /\ t.item # 0 /\ 0 \in Nat
      /\ t.ans.is \in {"item", "gone", "account", "lost"} /\ {t.key} \ {t.key} = {}
      /\ {t.key} \subseteq Keys
  BY HeardIs DEF Pairs, Answers
<1>1. Ready(Applies(s), t, 0, {t.key}, c) /\ Ready(Unread(s, t), t, 0, {t.key}, c)
  BY <1>0, ReadyOutcomes, UnreadReady
<1>2. Ready(Done(SchedulePoll(s, t.key)), t, 0, {t.key}, c)
  <2>1. Core(SchedulePoll(s, t.key), 0, 0, {t.key} \ {t.key}, {}, {}, c)
    BY <1>0, PollCore
  <2>2. Core(SchedulePoll(s, t.key), 0, 0, {t.key}, {}, {}, c)
    BY <1>0, <2>1, Weaken
  <2> QED BY <1>0, <2>2, ReadyOutcomes
<1> QED BY <1>0, <1>1, <1>2 DEF Polled

LEMMA CancelledReady ==
  ASSUME NEW s, NEW t, NEW c, Heard(s, t), Fine(s, 0, c), t.for = "cancel"
  PROVE  Ready(Done(Cancelled(s, t)), t, 0, {}, c)
<1> DEFINE k == t.key
           y == Changed(s.rec[k], [phase |-> "cancelled"])
<1>0. t \in Thread /\ k \in Keys /\ 0 \in Nat /\ {} \ {k} = {} /\ "cancelled" \in ItemPhase
  BY HeardIs DEF ItemPhase
<1>1. Core(s, 0, 0, {}, {}, {}, c) /\ Typed(s)
  BY DEF Fine, Core
<1>2. s.rec[k] \in Record
  BY <1>0, <1>1, StateFields
<1>3. Keeps(y, s.rec[k]) /\ y.phase = "cancelled"
  BY <1>0, <1>2, PhaseChanged
<1>4. Patch(s, k, [phase |-> "cancelled"]) = With(s, k, y)
  BY PatchIsWith
<1> HIDE DEF y
<1>5. MayPut(s, k, y, {}, c)
  BY <1>0, <1>1, <1>3, KeepsMayPut DEF InProgress
<1>6. y.phase \notin InProgress
  BY <1>3 DEF InProgress
<1>7. Core(ForgetLocalCopy(With(s, k, y), k), 0, 0, {} \ {k}, {}, {}, c)
  BY <1>0, <1>1, <1>5, <1>6, PutForgotten
<1> QED BY <1>0, <1>4, <1>7, ReadyOutcomes DEF Cancelled

LEMMA StoredReady ==
  ASSUME NEW s, NEW t, NEW C, NEW c, Heard(s, t), Core(s, 0, 0, {}, C, {}, c), t.for = "store",
         C = IF t.ans.is = "done" THEN {t.key} ELSE {}
  PROVE  Ready(Done(Stored(s, t)), t, 0, {}, c)
<1> DEFINE k == t.key
           x == s.rec[k]
           wanted == /\ t.alive /\ ~ s.changing /\ s.saving /\ x.draft
                     /\ x.phase \notin Terminal \cup {"processing"}
<1>0. t \in Thread /\ k \in Keys /\ 0 \in Nat /\ {k} \ {k} = {}
  BY HeardIs
<1>1. ASSUME wanted, t.ans.is = "done" PROVE Core(s, 0, 0, {}, {}, {}, c)
  <2>1. HolderOK(s, c)
    BY DEF Core
  <2>2. c.holder \in {"draft", "deleting"} /\ x.phase \notin {"ready", "processing", "cancelled"}
    BY <1>1, <2>1 DEF HolderOK, Terminal
  <2>3. Wanted(s, k, c)
    BY <2>2 DEF Wanted
  <2>4. Core(s, 0, 0, {}, {k}, {}, c)
    BY <1>1
  <2> QED BY <2>3, <2>4, Discharge
<1>2. ASSUME t.ans.is = "done" PROVE Core([s EXCEPT !.copies = @ \ {k}], 0, 0, {}, {k} \ {k}, {}, c)
  <2>1. Core(s, 0, 0, {}, {k}, {}, c)
    BY <1>2
  <2> QED BY <1>0, <2>1, CopiesCore
<1>3. Stored(s, t) = IF wanted \/ t.ans.is # "done" THEN s ELSE [s EXCEPT !.copies = @ \ {k}]
  BY DEF Stored
<1> HIDE DEF wanted
<1>4. Core(Stored(s, t), 0, 0, {}, {}, {}, c)
  BY <1>0, <1>1, <1>2, <1>3
<1> QED BY <1>0, <1>4, ReadyOutcomes

-----------------------------------------------------------------------------
(* A preprocessing slot goes over to the registration's thread. *)
Goes(u, t) == \E v \in u.threads \ m.threads : v.for = "prepare" /\ v.key = t.key
Hands(o, t, c) ==
    \/ Ready(o, t, IF t.for = "prepare" THEN 1 ELSE 0, {}, c)
    \/ /\ t.for = "prepare" /\ Fine(o.s, 0, c) /\ Goes(o.s, t)
       /\ o.does = "nothing" /\ o.send = {}

LEMMA HandsReady ==
  ASSUME NEW s, NEW t, NEW d, NEW c, d = IF t.for = "prepare" THEN 1 ELSE 0,
         Heard(s, t), Fine(s, d, c)
  PROVE  /\ Hands(Done(s), t, c)
         /\ \A b \in BOOLEAN : Hands(Done(Fail(s, t.key, b)), t, c)
         /\ Hands(PausedAsWaiting(s, t.key), t, c)
<1>0. t.key \in Keys /\ t \in Thread /\ 0 \in Nat /\ d \in Nat
  BY HeardIs
<1>1. Core(s, d, 0, {}, {}, {}, c)
  BY DEF Fine
<1>2. Fine(Patch(s, t.key, [phase |-> "waiting", unknown |-> FALSE]), d, c)
      /\ \A b \in BOOLEAN : Fine(Fail(s, t.key, b), d, c)
  BY <1>0, FineSteps
<1>3. Ready(Done(s), t, d, {}, c) /\ Ready(PausedAsWaiting(s, t.key), t, d, {}, c)
      /\ \A b \in BOOLEAN : Ready(Done(Fail(s, t.key, b)), t, d, {}, c)
  BY <1>0, <1>1, <1>2, ReadyOutcomes DEF Fine, PausedAsWaiting
<1> QED BY <1>3 DEF Hands

ReadyFor(s, k) == AllTo(Patch(s, k, [prepared |-> TRUE]), k, "queued")
ChoiceFor(s, k) == AllTo(Patch(s, k, [phase |-> "needs_choice"]), k, "preparing")
LEMMA PreparedIs ==
  ASSUME NEW s, NEW t
  PROVE  Prepared(s, t) =
           CASE ~ t.alive -> Done(s)
             [] t.alive /\ t.ans.is = "choice" -> Done(ChoiceFor(s, t.key))
             [] t.alive /\ t.ans.is = "refused" -> Done(Fail(s, t.key, FALSE))
             [] t.alive /\ t.ans.is = "done" -> IF Own THEN Done(AwaitHolder(ReadyFor(s, t.key), t.key, "prepare"))
                                                ELSE PausedAsWaiting(ReadyFor(s, t.key), t.key)
BY DEF Prepared, ReadyFor, ChoiceFor, SetComponents, AllTo, AllIn, With, Comps

LEMMA PreparedHands ==
  ASSUME NEW s, NEW t \in m.threads, NEW c, t.for = "prepare", t.call = "work",
         s.threads = m.threads \ {t}, Heard(s, t), Fine(s, 1, c)
  PROVE  Hands(Prepared(s, t), t, c)
<1> DEFINE k == t.key
           ready == ReadyFor(s, k)
           choice == ChoiceFor(s, k)
           y == Changed(s.rec[k], [prepared |-> TRUE])
           goes == Patch(ready, k, [phase |-> "registering", unknown |-> FALSE])
           call == "holder"
           one == 1
<1>0. /\ k \in Keys /\ t \in Thread /\ 0 \in Nat /\ one \in Nat /\ one = 0 + 1 /\ {} \ {k} = {} /\ t.ans.is \in {"done", "refused", "choice"}
      /\ t.alive \in BOOLEAN /\ FALSE \in BOOLEAN
  <2>1. k \in Keys /\ t \in Thread /\ t.ans.is \in Answers(t)
    BY HeardIs
  <2>2. t.ans.is \in {"done", "refused", "choice"}
    BY <2>1 DEF Answers
  <2> QED BY <2>1, <2>2, ThreadFields
<1>1. Core(s, one, 0, {}, {}, {}, c) /\ Typed(s)
  BY DEF Fine, Core
<1>2. s.rec[k] \in Record
  BY <1>0, <1>1, StateFields
<1>3. /\ y \in Record /\ y.phase = s.rec[k].phase /\ y.timer = s.rec[k].timer
      /\ y.item = s.rec[k].item /\ y.comps = s.rec[k].comps /\ y.server = s.rec[k].server
  BY <1>2 DEF Record, Changed
<1>4. Patch(s, k, [prepared |-> TRUE]) = With(s, k, y)
  BY PatchIsWith
<1> HIDE DEF y, one
<1>5. MayPut(s, k, y, {}, c)
  BY <1>0, <1>1, <1>3 DEF MayPut, Core, RecordsOK, RecordOK
<1>6. Core(With(s, k, y), one, 0, {}, {}, {}, c)
  BY <1>0, <1>1, <1>3, <1>5, PutSame
<1>7. Core(ready, one, 0, {}, {}, {}, c) /\ ready.threads = s.threads
  <2>1. With(s, k, y).threads = s.threads
    BY WithSame
  <2>2. "queued" \in ComponentPhase /\ "queued" # "received"
    BY DEF ComponentPhase
  <2>3. /\ Core(AllTo(With(s, k, y), k, "queued"), one, 0, {}, {}, {}, c)
        /\ AllTo(With(s, k, y), k, "queued").threads = With(s, k, y).threads
    BY <1>0, <1>6, <2>2, AllCore
  <2> QED BY <1>4, <2>1, <2>3 DEF ReadyFor
<1>8. Core(choice, one, 0, {}, {}, {}, c)
  <2> DEFINE asks == Patch(s, k, [phase |-> "needs_choice"])
  <2>1. Core(asks, one, 0, {} \ {k}, {}, {}, c)
    BY <1>0, <1>1, PhaseCore DEF ItemPhase, InProgress, Unwanted
  <2>2. "preparing" \in ComponentPhase /\ "preparing" # "received"
    BY DEF ComponentPhase
  <2> HIDE DEF asks
  <2>3. Core(AllTo(asks, k, "preparing"), one, 0, {}, {}, {}, c)
    BY <1>0, <2>1, <2>2, AllCore
  <2> QED BY <2>3 DEF asks, ChoiceFor
<1> HIDE DEF ready, choice
<1>9. Hands(Done(s), t, c) /\ Hands(Done(Fail(s, k, FALSE)), t, c)
  BY <1>0, HandsReady
<1>10. Hands(Done(choice), t, c)
  BY <1>0, <1>8, ReadyOutcomes DEF Hands, one
<1>11. Hands(PausedAsWaiting(ready, k), t, c)
  <2>1. Fine(Patch(ready, k, [phase |-> "waiting", unknown |-> FALSE]), 1, c)
    BY <1>0, <1>7, FineSteps DEF Fine, one
  <2>2. Ready(PausedAsWaiting(ready, k), t, 1, {}, c)
    BY <1>0, <2>1, ReadyOutcomes DEF Fine, PausedAsWaiting
  <2> QED BY <2>2 DEF Hands
<1>12. Hands(Done(AwaitHolder(ready, k, "prepare")), t, c)
  <2>1. Core(goes, one, 0, {} \ {k}, {}, {}, c) /\ Puts(ready, k, goes)
    BY <1>0, <1>7, FailCore DEF ItemPhase, InProgress, Unwanted
  <2>2. goes.threads = s.threads
    BY <1>0, <1>7, <2>1, PutsSame DEF Core
  <2>3. call \in {"work", "holder"}
    OBVIOUS
  <2> HIDE DEF goes, call
  <2>4. /\ Core(Await(goes, "prepare", call, k, "still"), 0, 0, {}, {}, {}, c)
        /\ NowAwaits(goes, Await(goes, "prepare", call, k, "still"), "prepare", call, k)
    BY <1>0, <2>1, <2>3, AwaitPrepare
  <2> DEFINE u == Await(goes, "prepare", call, k, "still")
  <2>5. Goes(u, t)
    <3> HIDE DEF u
    <3>1. PICK v \in u.threads : v.for = "prepare" /\ v.key = k /\ v.call = call /\ v \notin goes.threads
      BY <2>4 DEF NowAwaits, u
    <3>2. v # t
      BY <3>1 DEF call
    <3> QED BY <2>2, <3>1, <3>2 DEF Goes
  <2>6. u = AwaitHolder(ready, k, "prepare")
    BY DEF AwaitHolder, goes, call
  <2>7. Fine(u, 0, c)
    BY <2>4 DEF Fine
  <2> HIDE DEF u
  <2> QED BY <2>5, <2>6, <2>7 DEF Hands, Done, Outcome
<1> QED BY <1>0, <1>9, <1>10, <1>11, <1>12, PreparedIs DEF ready, choice

LEMMA RequestFields ==
  ASSUME NEW x \in Record, NEW i \in 0..MaxRegistrations
  PROVE  LET y == Changed(x, [request |-> i])
         IN Alike(y, x) /\ y.timer = x.timer
BY DEF Changed, Record, Alike, Keeps

LEMMA HolderHands ==
  ASSUME NEW s, NEW t \in m.threads, NEW d, NEW c, t.call = "holder",
         d = IF t.for = "prepare" THEN 1 ELSE 0,
         s.threads = m.threads \ {t}, Heard(s, t), Fine(s, d, c),
         t.alive /\ s.rec[t.key].request = 0 => s.requests < MaxRegistrations
  PROVE  Hands(HolderResolved(s, t), t, c)
<1> DEFINE k == t.key
           request == IF s.rec[k].request # 0 THEN s.rec[k].request ELSE s.requests + 1
           y == Changed(s.rec[k], [request |-> request])
           asks == Patch(s, k, [request |-> request])
           sent == [asks EXCEPT !.requests = IF request > @ THEN request ELSE @]
           call == "register"
           new == [t EXCEPT !.call = call, !.item = request, !.ans = UnderWay]
           lost == (t.ans.is = "lost")
<1>0. /\ k \in Keys /\ t \in Thread /\ 0 \in Nat /\ d \in Nat /\ {} \ {k} = {} /\ t.for \in {"prepare", "register"}
      /\ t.for \notin {"nobody", "store"} /\ lost \in BOOLEAN /\ MaxRegistrations \in Nat
      /\ t.note \in {"draft", "session"}
  <2>1. <<t.for, t.call>> \in Pairs /\ k \in Keys /\ t \in Thread
    BY HeardIs
  <2>2. t.for \in {"prepare", "register"}
    BY <2>1 DEF Pairs
  <2>3. t.note \in {"draft", "session"}
    BY <2>2, HeardIs DEF NotesFor, Rereads
  <2> QED BY <2>1, <2>2, <2>3, UploadConstants
<1>1. Core(s, d, 0, {}, {}, {}, c) /\ Typed(s)
  BY DEF Fine, Core
<1>2. s.rec[k] \in Record /\ s.requests \in 0..MaxRegistrations /\ s.rec[k].request \in 0..MaxRegistrations
  <2>1. s.rec[k] \in Record /\ s.requests \in 0..MaxRegistrations
    BY <1>0, <1>1, StateFields
  <2> QED BY <2>1, RecordFields
<1>3. /\ Hands(Done(s), t, c) /\ Hands(PausedAsWaiting(s, k), t, c)
      /\ Hands(Done(Fail(s, k, t.ans.is = "lost")), t, c)
  <2> HIDE DEF lost
  <2>1. Hands(Done(s), t, c) /\ Hands(PausedAsWaiting(s, k), t, c) /\ Hands(Done(Fail(s, k, lost)), t, c)
    BY <1>0, HandsReady
  <2> QED BY <2>1 DEF lost
<1>4. ASSUME t.alive, Own PROVE Hands(Done(StartThread(sent, new)), t, c)
  <2>1. request \in 1..MaxRegistrations /\ request \in 0..MaxRegistrations /\ request # 0
    BY <1>0, <1>2, <1>4
  <2> HIDE DEF request
  <2>2. Alike(y, s.rec[k]) /\ y.timer = s.rec[k].timer
    BY <1>2, <2>1, RequestFields
  <2>3. asks = With(s, k, y)
    BY PatchIsWith
  <2> HIDE DEF y
  <2>4. MayPut(s, k, y, {}, c)
    <3>1. y.phase \in InProgress => y.item # 0
      BY <1>0, <1>1, <2>2 DEF Core, RecordsOK, RecordOK, Alike, Keeps, InProgress
    <3> QED BY <1>0, <1>1, <2>2, <3>1, KeepsMayPut DEF Alike
  <2>5. Core(asks, d, 0, {}, {}, {}, c) /\ asks.threads = s.threads /\ asks.requests = s.requests
    <3>1. Core(With(s, k, y), d, 0, {}, {}, {}, c)
      BY <1>0, <1>1, <2>2, <2>4, PutSame DEF Alike
    <3> QED BY <2>3, <3>1, WithSame
  <2> HIDE DEF asks
  <2>6. Core(sent, d, 0, {}, {}, {}, c) /\ sent.threads = s.threads
    <3> DEFINE n == IF request > asks.requests THEN request ELSE asks.requests
    <3>1. n \in 0..MaxRegistrations
      BY <1>2, <2>1, <2>5
    <3>2. sent = [asks EXCEPT !.requests = n]
      OBVIOUS
    <3> HIDE DEF n, sent
    <3>3. Core(sent, d, 0, {}, {}, {}, c)
      BY <2>5, <3>1, <3>2, QueuesCore
    <3> QED BY <2>5, <3>2, <3>3
  <2> HIDE DEF sent
  <2>7. /\ new.for = t.for /\ new.call = "register" /\ new.key = k /\ new.item = request
        /\ new.alive = t.alive /\ new.ans = UnderWay /\ new.note = t.note /\ new \in Thread
        /\ new.ans.is = "under way"
    <3>1. UnderWay \in CallAnswer /\ UnderWay.is = "under way"
      BY AnsFields DEF UnderWay
    <3> QED BY <1>0, <2>1, <3>1 DEF Thread
  <2> HIDE DEF new
  <2>8. Shape(new)
    BY <1>0, <1>4, <2>1, <2>7 DEF Shape, Pairs, Nameless, NotesFor, Rereads
  <2>9. MayStart(sent, new, {}, c)
    BY <1>0, <1>4, <2>7, <2>8 DEF ThreadOK, MayStart, Drives, IsSent
  <2>10. d = Owed(0, new, "prepare") /\ 0 = Owed(0, new, "transfer")
    <3>1. new.for = t.for /\ new.for # "transfer"
      BY <1>0, <2>7
    <3>2. Owed(0, new, "prepare") = (IF t.for = "prepare" THEN 0 + 1 ELSE 0) /\ Owed(0, new, "transfer") = 0
      BY <3>1 DEF Owed
    <3> QED BY <3>2
  <2>11. Core(StartThread(sent, new), 0, 0, {}, {}, {}, c) /\ Adds(sent, new, StartThread(sent, new))
    BY <1>0, <2>6, <2>7, <2>9, <2>10, StartCore
  <2> DEFINE u == StartThread(sent, new)
  <2> HIDE DEF u
  <2>12. ASSUME t.for = "prepare" PROVE Goes(u, t)
    <3>1. PICK v \in Thread : Renumbers(v, new) /\ v \notin sent.threads /\ u.threads = sent.threads \cup {v}
      BY <2>11 DEF Adds, u
    <3>2. v.for = "prepare" /\ v.key = k /\ v.call = "register"
      BY <2>7, <2>12, <3>1 DEF Renumbers
    <3>3. v # t
      BY <3>2
    <3> QED BY <2>6, <3>1, <3>2, <3>3 DEF Goes
  <2>13. Fine(u, 0, c)
    BY <2>11 DEF Fine, u
  <2>14. CASE t.for = "prepare"
    BY <2>12, <2>13, <2>14 DEF Hands, Done, Outcome, u
  <2>15. CASE t.for # "prepare"
    <3>1. Ready(Done(u), t, 0, {}, c)
      BY <1>0, <2>13, ReadyOutcomes DEF Fine
    <3> QED BY <2>15, <3>1 DEF Hands, u
  <2> QED BY <2>14, <2>15
<1>5. HolderResolved(s, t) \in {Done(s), PausedAsWaiting(s, k), Done(Fail(s, k, t.ans.is = "lost"))}
      \/ (t.alive /\ Own /\ HolderResolved(s, t) = Done(StartThread(sent, new)))
  BY DEF HolderResolved
<1> HIDE DEF sent, new
<1> QED BY <1>3, <1>4, <1>5

(* What is owed is paid back once the outcome has been carried out. *)
LEMMA FreeSlotCore ==
  ASSUME NEW s, NEW t, NEW d, NEW c, d = IF t.for = "prepare" THEN 1 ELSE 0, Fine(s, d, c)
  PROVE  Fine(FreeSlot(s, t), 0, c)
<1> DEFINE n == s.preprocessing - 1
           freed == [s EXCEPT !.preprocessing = @ - 1]
<1>0. 0 \in Nat /\ d \in Nat /\ 0 <= d /\ 0 <= 0
  OBVIOUS
<1>1. Core(s, d, 0, {}, {}, {}, c) /\ Typed(s) /\ SlotsOK(s, d, 0)
  BY DEF Fine, Core
<1>2. Fine(s, 0, c)
  BY <1>0, <1>1, Weaken DEF Fine
<1>3. ASSUME t.for = "prepare" PROVE Fine(PumpPreprocess(freed), 0, c)
  <2>1. /\ s.preprocessing \in Nat /\ s.preprocessing <= PreprocessConcurrency
        /\ Cardinality(Of(s, "prepare")) + 1 <= s.preprocessing /\ Cardinality(Of(s, "prepare")) \in Nat
    BY <1>1, <1>3, StateFields, OfFinite DEF SlotsOK
  <2>2. n \in Nat /\ n <= PreprocessConcurrency /\ Cardinality(Of(s, "prepare")) + 0 <= n
    BY <2>1, UploadConstants
  <2>3. freed = [s EXCEPT !.preprocessing = n]
    OBVIOUS
  <2> HIDE DEF n, freed
  <2>4. Core(freed, 0, 0, {}, {}, {}, c)
    BY <1>1, <2>2, <2>3, SlotsCore
  <2> QED BY <1>0, <2>4, PumpPreprocessCore DEF Fine
<1>4. FreeSlot(s, t) = s \/ (t.for = "prepare" /\ FreeSlot(s, t) = PumpPreprocess(freed))
  BY DEF FreeSlot
<1> HIDE DEF freed
<1> QED BY <1>2, <1>3, <1>4

LEMMA FreeTransferCore ==
  ASSUME NEW s, NEW t, NEW d \in Nat, NEW e, NEW W, NEW C, NEW c, e = IF t.for = "transfer" THEN 1 ELSE 0,
         Core(s, d, e, W, C, {}, c)
  PROVE  /\ Core(FreeTransfer(s, t), d, 0, W, C, {}, c)
         /\ t.for # "transfer" => FreeTransfer(s, t) = s
<1> DEFINE n == AtLeastZero(s.transferring - 1)
           freed == [s EXCEPT !.transferring = AtLeastZero(@ - 1)]
<1>1. Typed(s) /\ SlotsOK(s, d, e)
  BY DEF Core
<1>2. ASSUME t.for = "transfer" PROVE Core(PumpTransfers(freed), d, 0, W, C, {}, c)
  <2>1. /\ s.transferring \in Nat /\ s.transferring <= TransferConcurrency
        /\ Cardinality(Of(s, "transfer")) + 1 <= s.transferring /\ Cardinality(Of(s, "transfer")) \in Nat
    BY <1>1, <1>2, StateFields, OfFinite DEF SlotsOK
  <2>2. n \in Nat /\ n <= TransferConcurrency /\ Cardinality(Of(s, "transfer")) + 0 <= n
    BY <2>1, UploadConstants DEF AtLeastZero
  <2>3. freed = [s EXCEPT !.transferring = n]
    OBVIOUS
  <2> HIDE DEF n, freed
  <2>4. Core(freed, d, 0, W, C, {}, c)
    BY <1>1, <2>2, <2>3, SlotsCore
  <2>5. 0 \in Nat
    OBVIOUS
  <2> QED BY <2>4, <2>5, PumpTransfersCore
<1> HIDE DEF freed
<1> QED BY <1>2 DEF FreeTransfer, freed

-----------------------------------------------------------------------------
(* Where the items are registered now, and the threads now. *)
Now == [holder |-> holder, detaching |-> holder = "detaching", sent |-> m.threads, named |-> {}]
UploadsInv == Fine(m, 0, Now)
(* What every step comes to: the invariant again, and no command that is    *)
(* sent for another account than the confirmed one.                         *)
SentHere == \A t \in m'.threads : IsSent(t) => Own \/ \E u \in m.threads : Similar(u, t)

LEMMA Arrives ==
  ASSUME NEW c, Fine(m', 0, c), c.holder = holder', c.detaching = (holder' = "detaching"),
         c.sent = m.threads, confirmed' = confirmed
  PROVE  UploadsInv' /\ SentHere
<1>1. Core(m', 0, 0, {}, {}, {}, c)
  BY DEF Fine
<1>2. /\ Typed(m') /\ SlotsOK(m', 0, 0) /\ ThreadsOK(m', {}, c) /\ DriversOK(m') /\ RecordsOK(m', c)
      /\ WatchOK(m', {}, c) /\ CopiesOK(m', {}, c) /\ HolderOK(m', c)
  BY <1>1 DEF Core
<1>3. SentHere
  BY <1>2 DEF ThreadsOK, ThreadOK, SentHere
<1>4. Core(m', 0, 0, {}, {}, {}, Now')
  <2>1. /\ Now'.holder = c.holder /\ Now'.detaching = c.detaching /\ Now'.sent = m'.threads
        /\ Now'.named = {}
    BY DEF Now
  <2>2. ThreadsOK(m', {}, Now')
    <3> SUFFICES ASSUME NEW t \in m'.threads PROVE ThreadOK(t, {}, Now')
      BY DEF ThreadsOK
    <3>1. ThreadOK(t, {}, c)
      BY <1>2 DEF ThreadsOK
    <3>2. Similar(t, t)
      BY DEF Similar
    <3> QED BY <2>1, <3>1, <3>2 DEF ThreadOK
  <2>3. RecordsOK(m', Now')
    BY <1>2, <2>1 DEF RecordsOK
  <2>4. WatchOK(m', {}, Now') /\ CopiesOK(m', {}, Now') /\ HolderOK(m', Now')
    BY <1>2, <2>1 DEF WatchOK, Watched, CopiesOK, Wanted, HolderOK
  <2> QED BY <1>2, <2>2, <2>3, <2>4 DEF Core
<1>5. UploadsInv'
  <2>1. Own' <=> Own
    BY DEF Own
  <2>2. UploadsInv' <=> Core(m', 0, 0, {}, {}, {}, Now')
    BY <2>1 DEF UploadsInv, Fine, Core, ThreadsOK, ThreadOK, Own
  <2> QED BY <1>4, <2>2
<1> QED BY <1>3, <1>5

(* The two cases of what a continuation hands over. *)
LEMMA HandsCore ==
  ASSUME NEW o, NEW t \in Thread, NEW c, Hands(o, t, c), t.for # "poll"
  PROVE  Fine(FreeSlot(Carry(o, t), t), 0, c)
<1> DEFINE d == IF t.for = "prepare" THEN 1 ELSE 0
           W == IF t.for = "poll" THEN {t.key} ELSE {}
<1>0. d \in Nat /\ W = {}
  OBVIOUS
<1>1. CASE Ready(o, t, IF t.for = "prepare" THEN 1 ELSE 0, {}, c)
  <2>1. Ready(o, t, d, W, c)
    BY <1>0, <1>1
  <2> HIDE DEF d, W
  <2>2. W = IF t.for = "poll" THEN {t.key} ELSE {}
    BY DEF W
  <2>3. Fine(Carry(o, t), d, c)
    BY <1>0, <2>1, <2>2, CarryCore
  <2>4. d = IF t.for = "prepare" THEN 1 ELSE 0
    BY DEF d
  <2> QED BY <2>3, <2>4, FreeSlotCore
<1>2. CASE /\ t.for = "prepare" /\ Fine(o.s, 0, c) /\ Goes(o.s, t)
           /\ o.does = "nothing" /\ o.send = {}
  <2>1. Carry(o, t) = o.s
    BY <1>2 DEF Carry, ForRoles
  <2>2. FreeSlot(o.s, t) = o.s
    BY <1>2 DEF FreeSlot, Goes
  <2> QED BY <1>2, <2>1, <2>2
<1> QED BY <1>1, <1>2 DEF Hands

LEMMA ContinuationIs ==
  ASSUME NEW s, NEW t, <<t.for, t.call>> \in Pairs, t.for # "detach"
  PROVE  \/ /\ t.for = "prepare" /\ t.call = "work" /\ Continuation(s, t) = Prepared(s, t)
         \/ t.call = "holder" /\ Continuation(s, t) = HolderResolved(s, t)
         \/ t.call = "register" /\ Continuation(s, t) = RegisterAnswered(s, t)
         \/ t.for = "transfer" /\ Continuation(s, t) = TransferSettled(s, t)
         \/ t.for = "hash" /\ Continuation(s, t) = Hashed(s, t)
         \/ t.for = "settle" /\ Continuation(s, t) = Reread(s, t)
         \/ t.for = "restart" /\ t.call = "read" /\ Continuation(s, t) = Restarted(s, t)
         \/ t.for = "restart" /\ t.call = "reset" /\ Continuation(s, t) = RestartReset(s, t)
         \/ t.for = "again" /\ Continuation(s, t) = ResetReread(s, t)
         \/ t.for = "process" /\ Continuation(s, t) = ProcessReset(s, t)
         \/ t.for = "processed" /\ Continuation(s, t) = ProcessReread(s, t)
         \/ t.for = "poll" /\ Continuation(s, t) = Polled(s, t)
         \/ t.for = "cancel" /\ Continuation(s, t) = Done(Cancelled(s, t))
         \/ t.for = "store" /\ Continuation(s, t) = Done(Stored(s, t))
<1>1. CASE t.call = "work"
  <2>1. t.for \in {"prepare", "hash"}
    BY <1>1 DEF Pairs
  <2> QED BY <1>1, <2>1 DEF Continuation
<1>2. CASE t.call = "holder"
  <2>1. t.for \in {"prepare", "register"}
    BY <1>2 DEF Pairs
  <2> QED BY <1>2, <2>1 DEF Continuation
<1>3. CASE t.call = "register"
  <2>1. t.for \in {"prepare", "register"}
    BY <1>3 DEF Pairs
  <2> QED BY <1>3, <2>1 DEF Continuation
<1>4. CASE t.call = "upload" \/ t.call = "cancel" \/ t.call = "put"
  <2>1. t.for \in {"transfer", "cancel", "store"}
    BY <1>4 DEF Pairs
  <2> QED BY <1>4, <2>1 DEF Continuation
<1>5. CASE t.call = "read"
  <2>1. t.for \in {"settle", "restart", "again", "processed", "poll"}
    BY <1>5 DEF Pairs
  <2> QED BY <1>5, <2>1 DEF Continuation
<1>6. CASE t.call = "reset"
  <2>1. t.for \in {"restart", "process"}
    BY <1>6 DEF Pairs
  <2> QED BY <1>6, <2>1 DEF Continuation
<1>7. t.call \in {"work", "holder", "register", "upload", "cancel", "put", "read", "reset"}
  BY DEF Pairs
<1> QED BY <1>1, <1>2, <1>3, <1>4, <1>5, <1>6, <1>7

LEMMA ContinuedCore ==
  ASSUME NEW s, NEW t \in m.threads, NEW d, NEW W, NEW C, NEW c, c.named = {}, Heard(s, t),
         Core(s, d, 0, W, C, {}, c), d = IF t.for = "prepare" THEN 1 ELSE 0,
         W = IF t.for = "poll" THEN {t.key} ELSE {}, C = IF t.for = "store" /\ t.ans.is = "done" THEN {t.key} ELSE {},
         t.for # "transfer" => s.threads = m.threads \ {t},
         t.call = "holder" /\ t.alive /\ s.rec[t.key].request = 0 => s.requests < MaxRegistrations
  PROVE  Fine(FreeSlot(Carry(Continuation(s, t), t), t), 0, c)
<1> DEFINE o == Continuation(s, t)
<1>0. t \in Thread /\ <<t.for, t.call>> \in Pairs /\ t.for # "detach" /\ d \in Nat
  BY HeardIs DEF Heard
<1>1. CASE t.for = "poll"
  <2>1. Core(s, 0, 0, {t.key}, {}, {}, c)
    BY <1>1
  <2>2. Ready(Polled(s, t), t, 0, {t.key}, c)
    BY <1>1, <2>1, PolledReady
  <2>3. o = Polled(s, t)
    BY <1>0, <1>1, ContinuationIs DEF Pairs
  <2> HIDE DEF o
  <2>4. Ready(o, t, d, W, c)
    BY <1>1, <2>2, <2>3
  <2>5. Fine(Carry(o, t), d, c)
    BY <1>0, <2>4, CarryCore
  <2>6. Fine(FreeSlot(Carry(o, t), t), 0, c)
    BY <2>5, FreeSlotCore
  <2> QED BY <2>6 DEF o
<1>2. CASE t.for = "store"
  <2>1. Core(s, 0, 0, {}, C, {}, c) /\ C = IF t.ans.is = "done" THEN {t.key} ELSE {}
    BY <1>2
  <2>2. Ready(Done(Stored(s, t)), t, 0, {}, c)
    BY <1>2, <2>1, StoredReady
  <2>3. o = Done(Stored(s, t))
    BY <1>0, <1>2, ContinuationIs DEF Pairs
  <2> HIDE DEF o
  <2>4. Hands(o, t, c)
    BY <1>2, <2>2, <2>3 DEF Hands
  <2>5. Fine(FreeSlot(Carry(o, t), t), 0, c)
    BY <1>0, <1>2, <2>4, HandsCore
  <2> QED BY <2>5 DEF o
<1>3. CASE t.for \notin {"poll", "store"}
  <2>1. Fine(s, d, c)
    BY <1>3 DEF Fine
  <2>2. Hands(o, t, c)
    <3>1. CASE t.for = "prepare" /\ t.call = "work" /\ o = Prepared(s, t)
      <4>1. Fine(s, 1, c) /\ s.threads = m.threads \ {t}
        BY <2>1, <3>1
      <4> QED BY <3>1, <4>1, PreparedHands
    <3>2. CASE t.call = "holder" /\ o = HolderResolved(s, t)
      <4>1. s.threads = m.threads \ {t}
        BY <1>0, <3>2 DEF Pairs
      <4> QED BY <2>1, <3>2, <4>1, HolderHands
    <3>3. CASE t.call = "register" /\ o = RegisterAnswered(s, t)
      <4>1. Ready(RegisterAnswered(s, t), t, d, {}, c)
        BY <1>0, <2>1, <3>3, RegisterReady
      <4> QED BY <3>3, <4>1 DEF Hands
    <3>4. ASSUME t.for # "prepare", Ready(o, t, 0, {}, c) PROVE Hands(o, t, c)
      BY <3>4 DEF Hands
    <3>5. t.for # "prepare" => Fine(s, 0, c)
      BY <2>1
    <3>6. CASE t.for = "transfer" /\ o = TransferSettled(s, t)
      BY <3>4, <3>5, <3>6, TransferSettledReady
    <3>7. CASE t.for = "hash" /\ o = Hashed(s, t)
      BY <3>4, <3>5, <3>7, HashedReady
    <3>8. CASE t.for = "settle" /\ o = Reread(s, t)
      BY <3>4, <3>5, <3>8, RereadReady
    <3>9. CASE t.for = "restart" /\ t.call = "read" /\ o = Restarted(s, t)
      BY <3>4, <3>5, <3>9, RestartedReady
    <3>10. CASE t.for = "restart" /\ t.call = "reset" /\ o = RestartReset(s, t)
      BY <3>4, <3>5, <3>10, RestartResetReady
    <3>11. CASE t.for = "again" /\ o = ResetReread(s, t)
      BY <3>4, <3>5, <3>11, RereadReady
    <3>12. CASE t.for = "process" /\ o = ProcessReset(s, t)
      BY <3>4, <3>5, <3>12, ProcessResetReady
    <3>13. CASE t.for = "processed" /\ o = ProcessReread(s, t)
      BY <3>4, <3>5, <3>13, ProcessRereadReady
    <3>14. CASE t.for = "cancel" /\ o = Done(Cancelled(s, t))
      BY <3>4, <3>5, <3>14, CancelledReady
    <3> HIDE DEF o
    <3> QED BY <1>0, <1>3, <3>1, <3>2, <3>3, <3>6, <3>7, <3>8, <3>9, <3>10, <3>11, <3>12,
               <3>13, <3>14, ContinuationIs DEF o
  <2> HIDE DEF o
  <2>3. Fine(FreeSlot(Carry(o, t), t), 0, c)
    BY <1>0, <1>3, <2>2, HandsCore
  <2> QED BY <2>3 DEF o
<1> QED BY <1>1, <1>2, <1>3

LEMMA InvCore ==
  ASSUME UploadsInv
  PROVE  /\ Core(m, 0, 0, {}, {}, {}, Now) /\ Typed(m)
         /\ Now.holder = holder /\ Now.detaching = (holder = "detaching")
         /\ Now.sent = m.threads /\ Now.named = {}
         /\ \A t \in m.threads : t \in Thread /\ t.key \in Keys /\ ThreadOK(t, {}, Now)
<1>1. Core(m, 0, 0, {}, {}, {}, Now) /\ Typed(m)
  BY DEF UploadsInv, Fine, Core
<1>2. ThreadsOK(m, {}, Now) /\ m.threads \subseteq Thread
  BY <1>1, StateFields DEF Core
<1>3. \A t \in m.threads : t \in Thread /\ t.key \in Keys /\ ThreadOK(t, {}, Now)
  BY <1>2, ThreadFields DEF ThreadsOK
<1> QED BY <1>1, <1>3 DEF Now

LEMMA ContinuesStep ==
  ASSUME UploadsInv, NEW t \in m.threads, Continues(t)
  PROVE  UploadsInv' /\ SentHere
<1> DEFINE W == IF t.for = "poll" THEN {t.key} ELSE {}
           C == IF t.for = "store" /\ t.ans.is = "done" THEN {t.key} ELSE {}
           d == IF t.for = "prepare" THEN 1 ELSE 0
           e == IF t.for = "transfer" THEN 1 ELSE 0
           left == EndThread(m, t)
           s == FreeTransfer(left, t)
<1>0. /\ t \in Thread /\ t.key \in Keys /\ ThreadOK(t, {}, Now) /\ 0 \in Nat /\ d \in Nat /\ e \in Nat
      /\ 0 <= 0 /\ Keys \ W \subseteq Keys \ {} /\ Keys \ C \subseteq Keys \ {} /\ {} \subseteq {}
  BY InvCore
<1>1. /\ t.ans.is \notin {"under way", "streaming"} /\ t.for # "detach"
      /\ t.call = "holder" /\ t.alive /\ m.rec[t.key].request = 0 => m.requests < MaxRegistrations
      /\ m' = FreeSlot(Carry(Continuation(s, t), t), t)
      /\ holder' = holder /\ confirmed' = confirmed
  BY DEF Continues
<1> HIDE DEF W, C
<1>2. Core(m, 0, 0, W, C, {}, Now)
  BY <1>0, InvCore, Weaken
<1>3. Core(left, d, e, W, C, {}, Now) /\ left.threads = m.threads \ {t} /\ left.rec = m.rec
      /\ left.requests = m.requests
  <2>1. left = Threads(m, m.threads \ {t})
    BY EndThreads
  <2>2. d = Owed(0, t, "prepare") /\ e = Owed(0, t, "transfer")
    BY DEF Owed
  <2>3. /\ t.for \in {"poll", "detach"} => t.key \in W
        /\ t.for = "store" /\ t.ans.is = "done" => t.key \in C
    BY <1>1 DEF W, C
  <2> HIDE DEF d, e
  <2>4. Core(Threads(m, m.threads \ {t}), d, e, W, C, {}, Now)
    BY <1>0, <1>2, <2>2, <2>3, DropCore
  <2>5. m.threads \ {t} \subseteq Thread /\ IsFiniteSet(m.threads \ {t})
    BY InvCore, StateFields, FS_RemoveElement
  <2>6. Threads(m, m.threads \ {t}).threads = m.threads \ {t}
    BY <2>5, InvCore, ThreadsState
  <2> HIDE DEF left
  <2> QED BY <2>1, <2>4, <2>6, ThreadsSame
<1> HIDE DEF left
<1>4. Core(s, d, 0, W, C, {}, Now) /\ (t.for # "transfer" => s = left)
  <2>1. e = IF t.for = "transfer" THEN 1 ELSE 0
    OBVIOUS
  <2> HIDE DEF e, d
  <2> QED BY <1>0, <1>3, <2>1, FreeTransferCore
<1> HIDE DEF s
<1>5. Heard(s, t)
  <2>1. Shape(t)
    BY <1>0 DEF ThreadOK
  <2>2. ASSUME Drives(t)
        PROVE  /\ s.rec[t.key].item # 0 /\ (t.ans.is = "item" => Own)
               /\ \A u \in s.threads : ~ (u.for = "detach" /\ u.key = t.key)
    <3>1. s = left /\ s.rec = m.rec /\ s.threads \subseteq m.threads
      BY <1>3, <1>4, <2>2 DEF Drives
    <3>2. DriversOK(m)
      BY InvCore DEF Core
    <3>3. m.rec[t.key].item # 0 /\ \A u \in m.threads : ~ (u.for = "detach" /\ u.key = t.key)
      BY <2>2, <3>2 DEF DriversOK
    <3>4. t.ans.is = "item" => Own
      BY <1>0, <2>2 DEF ThreadOK
    <3> QED BY <3>1, <3>3, <3>4
  <2> QED BY <1>0, <1>1, <2>1, <2>2 DEF Heard
<1>6. Fine(m', 0, Now)
  <2>1. W = IF t.for = "poll" THEN {t.key} ELSE {}
    BY DEF W
  <2>2. C = IF t.for = "store" /\ t.ans.is = "done" THEN {t.key} ELSE {}
    BY DEF C
  <2>3. d = IF t.for = "prepare" THEN 1 ELSE 0
    OBVIOUS
  <2>4. Now.named = {}
    BY InvCore
  <2>5. t.for # "transfer" => s.threads = m.threads \ {t}
    BY <1>3, <1>4
  <2>6. t.call = "holder" /\ t.alive /\ s.rec[t.key].request = 0 => s.requests < MaxRegistrations
    <3>1. t.call = "holder" => t.for # "transfer"
      BY <1>0 DEF ThreadOK, Shape, Pairs, Commands
    <3> QED BY <1>1, <1>3, <1>4, <3>1
  <2> HIDE DEF d
  <2>7. Fine(FreeSlot(Carry(Continuation(s, t), t), t), 0, Now)
    BY <1>4, <1>5, <2>1, <2>2, <2>3, <2>4, <2>5, <2>6, ContinuedCore
  <2> QED BY <1>1, <2>7
<1> QED BY <1>1, <1>6, InvCore, Arrives

LEMMA EndedThreads ==
  ASSUME NEW s, Typed(s), NEW t
  PROVE  /\ EndThread(s, t) = Threads(s, s.threads \ {t}) /\ Typed(EndThread(s, t))
         /\ EndThread(s, t).threads = s.threads \ {t} /\ EndThread(s, t).rec = s.rec
         /\ EndThread(s, t).status = s.status /\ EndThread(s, t).copies = s.copies
<1>1. EndThread(s, t) = Threads(s, s.threads \ {t})
  BY EndThreads
<1>2. s.threads \ {t} \subseteq Thread /\ IsFiniteSet(s.threads \ {t})
  BY StateFields, FS_RemoveElement
<1>3. Typed(Threads(s, s.threads \ {t})) /\ Threads(s, s.threads \ {t}).threads = s.threads \ {t}
  BY <1>2, ThreadsState
<1> QED BY <1>1, <1>3, ThreadsSame

LEMMA Fenced ==
  ASSUME NEW s, NEW d, NEW e, NEW W, NEW C, NEW N, NEW c, Core(s, d, e, W, C, N, c),
         NEW t \in s.threads, t.for = "detach"
  PROVE  Core(s, d, e, W, C, N \cup {t.key}, c)
<1>1. DriversOK(s)
  BY DEF Core
<1>2. \A u \in s.threads : Drives(u) => u.key # t.key
  BY <1>1 DEF DriversOK
<1> QED BY <1>2, MoreFenced

-----------------------------------------------------------------------------
(* A thread that takes the place of another. *)
LEMMA ReplaceCore ==
  ASSUME NEW s, NEW d \in Nat, NEW e \in Nat, NEW W, NEW C, NEW N, NEW c, Core(s, d, e, W, C, N, c),
         NEW t \in s.threads, NEW u \in Thread, u.for = t.for, u.key = t.key, u.alive = t.alive,
         t.for = "store" /\ t.ans.is = "done" => u.ans.is = "done", ThreadOK(u, N, c)
  PROVE  /\ Core(StartThread(EndThread(s, t), u), d, e, W, C, N, c)
         /\ Adds(EndThread(s, t), u, StartThread(EndThread(s, t), u))
<1> DEFINE k == t.key
           W2 == W \cup {k}
           C2 == C \cup {k}
           N2 == IF t.for = "detach" THEN N \cup {k} ELSE N
           d1 == Owed(d, t, "prepare")
           e1 == Owed(e, t, "transfer")
           left == EndThread(s, t)
           next == StartThread(left, u)
<1>0. Typed(s) /\ t \in Thread /\ k \in Keys /\ d <= d /\ e <= e
  BY StateFields, ThreadFields DEF Core
<1>1. Core(s, d, e, W, C, N2, c)
  BY Fenced
<1>2. ThreadOK(u, N2, c)
  <2>1. t.for = "detach" => ~ Drives(u)
    BY DEF Drives
  <2> QED BY <2>1 DEF ThreadOK
<1>3. Keys \ W2 \subseteq Keys \ W /\ Keys \ C2 \subseteq Keys \ C /\ N \subseteq N2 /\ N2 \subseteq N2
      /\ k \in W2 /\ k \in C2 /\ (t.for = "detach" => k \in N2)
  OBVIOUS
<1>4. d1 \in Nat /\ e1 \in Nat /\ d1 = Owed(d, u, "prepare") /\ e1 = Owed(e, u, "transfer")
  BY DEF Owed
<1> HIDE DEF W2, C2, N2
<1>5. Core(s, d, e, W2, C2, N2, c)
  BY <1>0, <1>1, <1>3, Weaken
<1>6. /\ left = Threads(s, s.threads \ {t}) /\ left.threads = s.threads \ {t} /\ left.rec = s.rec
      /\ left.status = s.status /\ left.copies = s.copies
  BY <1>0, EndedThreads
<1>7. Core(left, d1, e1, W2, C2, N2, c)
  BY <1>3, <1>5, <1>6, DropCore
<1> HIDE DEF left
<1>8. MayStart(left, u, N2, c)
  <2>1. DriversOK(s)
    BY DEF Core
  <2>2. Drives(u) => /\ left.rec[u.key].item # 0
                     /\ \A v \in left.threads : ~ (v.for = "detach" /\ v.key = u.key)
    <3>1. Drives(u) => Drives(t)
      BY DEF Drives
    <3> QED BY <1>6, <2>1, <3>1 DEF DriversOK
  <2> QED BY <1>2, <1>3, <2>2 DEF MayStart
<1> HIDE DEF d1, e1
<1>9. Core(next, d, e, W2, C2, N2, c) /\ Adds(left, u, next)
  BY <1>4, <1>7, <1>8, StartCore
<1>10. Core(next, d, e, W2, C2, N, c)
  BY <1>0, <1>3, <1>9, Weaken
<1>11. PICK v \in Thread : /\ Renumbers(v, u) /\ next = Threads(left, left.threads \cup {v})
                           /\ next.threads = left.threads \cup {v}
  BY <1>9 DEF Adds
<1> HIDE DEF next
<1>12. /\ next.rec = s.rec /\ next.status = s.status /\ next.copies = s.copies
       /\ next.threads = (s.threads \ {t}) \cup {v} /\ v.for = t.for /\ v.key = t.key /\ v.alive = t.alive
       /\ v.ans = u.ans
  <2>1. next.rec = left.rec /\ next.status = left.status /\ next.copies = left.copies
    BY <1>11, ThreadsSame
  <2>2. v.for = t.for /\ v.key = t.key /\ v.alive = t.alive /\ v.ans = u.ans
    BY <1>11 DEF Renumbers
  <2> QED BY <1>6, <1>11, <2>1, <2>2
<1>13. \A j \in Keys \ W : j \notin W2 \/ Watched(next, j, c)
  <2> SUFFICES ASSUME NEW j \in Keys \ W PROVE Watched(next, j, c)
    OBVIOUS
  <2>1. Watched(s, j, c)
    BY DEF Core, WatchOK
  <2>2. ASSUME NEW w \in s.threads, w.key = j, w.alive, w.for \in {"poll", "detach"}
        PROVE  \E x \in next.threads : x.key = j /\ x.alive /\ x.for \in {"poll", "detach"}
    <3>1. CASE w = t
      BY <1>12, <2>2, <3>1
    <3>2. CASE w # t
      BY <1>12, <2>2, <3>2
    <3> QED BY <3>1, <3>2
  <2> QED BY <1>12, <2>1, <2>2 DEF Watched
<1>14. \A j \in Keys \ C : j \notin C2 \/ Wanted(next, j, c)
  <2> SUFFICES ASSUME NEW j \in Keys \ C PROVE Wanted(next, j, c)
    OBVIOUS
  <2>1. Wanted(s, j, c)
    BY DEF Core, CopiesOK
  <2>2. ASSUME NEW w \in s.threads, w.key = j, w.for = "store", w.ans.is = "done"
        PROVE  \E x \in next.threads : x.key = j /\ x.for = "store" /\ x.ans.is = "done"
    <3>1. CASE w = t
      BY <1>12, <2>2, <3>1
    <3>2. CASE w # t
      BY <1>12, <2>2, <3>2
    <3> QED BY <3>1, <3>2
  <2> QED BY <1>12, <2>1, <2>2 DEF Wanted
<1>15. Core(next, d, e, W, C, N, c)
  BY <1>10, <1>13, <1>14, Discharge
<1> QED BY <1>9, <1>15 DEF next, left

(* What a call may come back with, and the thread that has it. *)
MayAnswer(t, ans) ==
    /\ t.for # "nobody" /\ ans \in CallAnswer /\ ans.is \in Answers(t)
    /\ ans.is = "item" /\ Drives(t) => Own
    /\ t.for \in {"detach", "store"} => t.ans.is # "done"
Returned(t, ans) == [t EXCEPT !.ans = ans]

LEMMA AnsweredOK ==
  ASSUME NEW t \in Thread, NEW N, NEW c, ThreadOK(t, N, c), NEW ans, MayAnswer(t, ans)
  PROVE  /\ Returned(t, ans) \in Thread /\ ThreadOK(Returned(t, ans), N, c)
         /\ Returned(t, ans).for = t.for /\ Returned(t, ans).key = t.key
         /\ Returned(t, ans).alive = t.alive /\ Returned(t, ans).ans = ans
         /\ ans.is # "under way"
<1> DEFINE u == Returned(t, ans)
<1>1. u \in Thread
  BY DEF MayAnswer, Returned, Thread
<1>2. /\ u.for = t.for /\ u.call = t.call /\ u.key = t.key /\ u.role = t.role /\ u.item = t.item
      /\ u.alive = t.alive /\ u.note = t.note /\ u.ans = ans
  BY DEF Returned, Thread
<1> HIDE DEF u
<1>3. Answers(u) = Answers(t) /\ (Nameless(t) => Nameless(u))
  BY <1>2 DEF Answers, Nameless, MayAnswer
<1>4. /\ <<t.for, t.call>> \in Pairs /\ ans.is \in Answers(t) /\ (t.item = 0 => Nameless(t))
      /\ (t.for \notin ActsWhenStale => t.alive)
      /\ t.note \in NotesFor(t.for)
  BY DEF ThreadOK, Shape, MayAnswer
<1>5. ans.is # "under way" /\ (ans.is = "streaming" => t.call = "upload")
  <2>1. CASE t.call = "work"
    <3>1. t.for \in {"prepare", "hash"}
      BY <1>4, <2>1 DEF Pairs
    <3> QED BY <1>4, <2>1, <3>1 DEF Answers
  <2>2. CASE t.call \in {"holder", "put"}
    <3>1. t.for \in {"prepare", "register", "store"}
      BY <1>4, <2>2 DEF Pairs
    <3> QED BY <1>4, <2>2, <3>1 DEF Answers, Failures
  <2>3. CASE t.call = "read"
    <3>1. t.for \in {"settle", "restart", "again", "processed", "poll", "detach"}
      BY <1>4, <2>3 DEF Pairs
    <3> QED BY <1>4, <2>3, <3>1 DEF Answers
  <2>4. CASE t.call \in {"register", "upload", "cancel", "reset"}
    <3>1. t.for \in {"prepare", "register", "transfer", "restart", "process", "cancel"}
      BY <1>4, <2>4 DEF Pairs
    <3> QED BY <1>4, <2>4, <3>1 DEF Answers, Failures
  <2>5. t.call \in {"work", "holder", "register", "upload", "cancel", "put", "read", "reset"}
    BY <1>4 DEF Pairs
  <2> QED BY <2>1, <2>2, <2>3, <2>4, <2>5
<1>6. Shape(u)
  BY <1>2, <1>3, <1>4, <1>5 DEF Shape
<1>7. ThreadOK(u, N, c)
  BY <1>2, <1>5, <1>6 DEF ThreadOK, Drives, IsSent, MayAnswer
<1> QED BY <1>1, <1>2, <1>5, <1>7 DEF u

LEMMA AnsweredCore ==
  ASSUME NEW s, NEW d \in Nat, NEW e \in Nat, NEW W, NEW C, NEW N, NEW c, Core(s, d, e, W, C, N, c),
         NEW t \in s.threads, NEW ans, MayAnswer(t, ans)
  PROVE  /\ Core(StartThread(EndThread(s, t), Returned(t, ans)), d, e, W, C, N, c)
         /\ Adds(EndThread(s, t), Returned(t, ans), StartThread(EndThread(s, t), Returned(t, ans)))
<1>1. t \in Thread /\ ThreadOK(t, N, c)
  BY StateFields DEF Core, ThreadsOK
<1> DEFINE u == Returned(t, ans)
<1>2. /\ u \in Thread /\ ThreadOK(u, N, c) /\ u.for = t.for /\ u.key = t.key /\ u.alive = t.alive
      /\ ~ (t.for = "store" /\ t.ans.is = "done")
  BY <1>1, AnsweredOK DEF MayAnswer
<1> HIDE DEF u
<1>3. Core(StartThread(EndThread(s, t), u), d, e, W, C, N, c)
      /\ Adds(EndThread(s, t), u, StartThread(EndThread(s, t), u))
  BY <1>2, ReplaceCore
<1> QED BY <1>3 DEF u

(* The thread t is gone, but for its call or for what has its answer. *)
Yields(s, t, ans, u) ==
    /\ s.threads \ {t} \subseteq u.threads
    /\ \A v \in u.threads : v \in s.threads \ {t} \/ v.for = "nobody" \/ v.ans = ans

LEMMA WithAnswerCore ==
  ASSUME NEW s, NEW d \in Nat, NEW e \in Nat, NEW W, NEW C, NEW N, NEW c, Core(s, d, e, W, C, N, c),
         NEW t \in s.threads, NEW ans, t.for # "nobody" => MayAnswer(t, ans)
  PROVE  /\ Core(WithAnswer(s, t, ans), d, e, W, C, N, c) /\ Yields(s, t, ans, WithAnswer(s, t, ans))
         /\ t.for # "nobody" =>
                WithAnswer(s, t, ans) = StartThread(EndThread(s, t), Returned(t, ans))
<1>0. Typed(s) /\ t \in Thread /\ ThreadOK(t, N, c)
  BY StateFields DEF Core, ThreadsOK
<1>1. EndThread(s, t) = Threads(s, s.threads \ {t}) /\ EndThread(s, t).threads = s.threads \ {t}
  BY <1>0, EndedThreads
<1>2. CASE t.for = "nobody"
  <2>1. Owed(d, t, "prepare") = d /\ Owed(e, t, "transfer") = e
    BY <1>2 DEF Owed
  <2>2. Core(Threads(s, s.threads \ {t}), Owed(d, t, "prepare"), Owed(e, t, "transfer"), W, C, N, c)
    BY <1>2, DropCore
  <2>3. WithAnswer(s, t, ans) = EndThread(s, t)
    BY <1>2 DEF WithAnswer
  <2> QED BY <1>1, <1>2, <2>1, <2>2, <2>3 DEF Yields
<1>3. CASE t.for # "nobody"
  <2> DEFINE u == Returned(t, ans)
             next == StartThread(EndThread(s, t), u)
  <2>1. Core(next, d, e, W, C, N, c) /\ Adds(EndThread(s, t), u, next)
    BY <1>3, AnsweredCore
  <2>2. u.ans = ans
    BY <1>0, <1>3, AnsweredOK
  <2>3. WithAnswer(s, t, ans) = next
    BY <1>3 DEF WithAnswer, Returned
  <2> HIDE DEF u, next
  <2>4. PICK v \in Thread : Renumbers(v, u) /\ next.threads = (s.threads \ {t}) \cup {v}
    BY <1>1, <2>1 DEF Adds
  <2>5. v.ans = ans
    BY <2>2, <2>4 DEF Renumbers
  <2>6. Yields(s, t, ans, next)
    BY <2>4, <2>5 DEF Yields
  <2> QED BY <2>1, <2>3, <2>6 DEF next, u
<1> QED BY <1>2, <1>3

LEMMA LostCore ==
  ASSUME NEW s, NEW d \in Nat, NEW e \in Nat, NEW W, NEW C, NEW N, NEW c, Core(s, d, e, W, C, N, c),
         NEW t \in s.threads, NEW ans, MayAnswer(t, ans)
  PROVE  /\ Core(StartThread(Orphan(s, t), Returned(t, ans)), d, e, W, C, N, c)
         /\ Yields(s, t, ans, StartThread(Orphan(s, t), Returned(t, ans)))
<1> DEFINE u == Returned(t, ans)
           left == Orphan(s, t)
           next == StartThread(left, u)
<1>0. Typed(s) /\ t \in Thread /\ ThreadOK(t, N, c)
  BY StateFields DEF Core, ThreadsOK
<1>1. CASE ~ (t.call \in Commands /\ t.ans.is \in {"under way", "streaming"})
  <2>1. left = EndThread(s, t)
    BY <1>1 DEF Orphan
  <2>2. t.for # "nobody"
    BY DEF MayAnswer
  <2>3. /\ Core(WithAnswer(s, t, ans), d, e, W, C, N, c) /\ Yields(s, t, ans, WithAnswer(s, t, ans))
        /\ WithAnswer(s, t, ans) = StartThread(EndThread(s, t), Returned(t, ans))
    BY <2>2, WithAnswerCore
  <2> QED BY <2>1, <2>3
<1>2. CASE t.call \in Commands /\ t.ans.is \in {"under way", "streaming"}
  <2> DEFINE d1 == Owed(d, t, "prepare")
             e1 == Owed(e, t, "transfer")
  <2>1. t.for \notin {"poll", "detach", "store", "nobody"} /\ <<t.for, t.call>> \in Pairs
    <3>1. <<t.for, t.call>> \in Pairs /\ t.for # "nobody"
      BY <1>0 DEF ThreadOK, Shape, MayAnswer
    <3> QED BY <1>2, <3>1 DEF Pairs, Commands
  <2>2. Core(left, d1, e1, W, C, N, c) /\ Leaves(s, {t}, left)
    BY <2>1, OrphanCore DEF MayEnd
  <2>3. /\ u \in Thread /\ ThreadOK(u, N, c) /\ u.for = t.for /\ u.key = t.key /\ u.ans = ans
    BY <1>0, AnsweredOK
  <2> HIDE DEF left, u
  <2>4. d1 = Owed(d, u, "prepare") /\ e1 = Owed(e, u, "transfer")
    BY <2>3 DEF Owed
  <2>5. MayStart(left, u, N, c)
    <3>1. DriversOK(s)
      BY DEF Core
    <3>2. left.rec = s.rec /\ \A v \in left.threads : v \in s.threads \/ v.for = "nobody"
      BY <2>2, ThreadsSame DEF Leaves
    <3>3. Drives(u) => Drives(t)
      BY <2>3 DEF Drives
    <3>4. Drives(u) => /\ left.rec[u.key].item # 0
                       /\ \A v \in left.threads : ~ (v.for = "detach" /\ v.key = u.key)
      BY <2>3, <3>1, <3>2, <3>3 DEF DriversOK
    <3> QED BY <2>1, <2>3, <3>4 DEF MayStart
  <2> HIDE DEF d1, e1
  <2>6. Core(next, d, e, W, C, N, c) /\ Adds(left, u, next)
    BY <2>2, <2>3, <2>4, <2>5, StartCore
  <2>7. PICK v \in Thread : Renumbers(v, u) /\ next.threads = left.threads \cup {v}
    BY <2>6 DEF Adds
  <2>8. v.ans = ans
    BY <2>3, <2>7 DEF Renumbers
  <2>9. s.threads \ {t} \subseteq left.threads /\ \A x \in left.threads : x \in s.threads \ {t} \/ x.for = "nobody"
    BY <2>2 DEF Leaves
  <2> HIDE DEF next
  <2>10. Yields(s, t, ans, next)
    BY <2>7, <2>8, <2>9 DEF Yields
  <2> QED BY <2>6, <2>10 DEF next, left, u
<1> QED BY <1>1, <1>2

-----------------------------------------------------------------------------
(* The steps of the account that answer one call. *)

LEMMA ServedStep ==
  ASSUME UploadsInv, NEW t \in m.threads, NEW ans, t.for # "nobody" => MayAnswer(t, ans),
         m' = WithAnswer(m, t, ans), holder' = holder, confirmed' = confirmed
  PROVE  UploadsInv' /\ SentHere
<1>0. 0 \in Nat
  OBVIOUS
<1>1. Core(WithAnswer(m, t, ans), 0, 0, {}, {}, {}, Now)
  BY <1>0, InvCore, WithAnswerCore
<1> QED BY <1>1, InvCore, Arrives DEF Fine

LEMMA PairsNobody == \A call : <<"nobody", call>> \notin Pairs
BY DEF Pairs

(* A thread whose call is under way is one that somebody waits for.         *)
LEMMA UnderWayIs ==
  ASSUME UploadsInv, NEW t \in m.threads
  PROVE  /\ t \in Thread /\ t.item \in 0..MaxRegistrations
         /\ t.for # "nobody" => <<t.for, t.call>> \in Pairs
         /\ t.call \notin Commands => t.for # "nobody"
         /\ Drives(t) /\ t.ans.is \in {"under way", "item"} => Own
         /\ t.call \notin {"holder", "put", "work"} /\ ~ (t.for = "detach" /\ t.ans.is = "done") => t.item # 0
<1>1. t \in Thread /\ ThreadOK(t, {}, Now)
  BY InvCore
<1>2. t.item \in 0..MaxRegistrations
  BY <1>1, ThreadFields
<1>3. Shape(t) /\ (Drives(t) => (t.ans.is \in {"under way", "item"} => Own))
  BY <1>1 DEF ThreadOK
<1>4. t.for # "nobody" => <<t.for, t.call>> \in Pairs
  BY <1>3 DEF Shape
<1>5. t.call \notin Commands => t.for # "nobody"
  BY <1>3, PairsNobody DEF Shape
<1>6. (t.call \notin {"holder", "put", "work"} /\ ~ (t.for = "detach" /\ t.ans.is = "done")) => t.item # 0
  <2>1. t.item = 0 => Nameless(t)
    BY <1>3 DEF Shape
  <2> QED BY <2>1 DEF Nameless
<1> QED BY <1>1, <1>2, <1>3, <1>4, <1>5, <1>6

LEMMA AnsAnswers ==
  ASSUME NEW t, t.for # "nobody", t.for \notin {"detach", "store"} \/ t.ans.is # "done",
         NEW is \in {"under way", "streaming", "item", "done", "refused", "lost", "account", "gone",
                     "choice", "mismatch"}, is # "item", is \in Answers(t)
  PROVE  MayAnswer(t, Ans(is))
<1>1. Ans(is) \in CallAnswer /\ Ans(is).is = is
  BY AnsFields
<1> QED BY <1>1 DEF MayAnswer

LEMMA ItemAnswers ==
  ASSUME NEW t, t.for # "nobody", t.for \notin {"detach", "store"} \/ t.ans.is # "done",
         NEW x \in Item, Drives(t) => Own, "item" \in Answers(t)
  PROVE  MayAnswer(t, ItemAns(x))
<1>1. ItemAns(x) \in CallAnswer /\ ItemAns(x).is = "item"
  BY DEF ItemAns, CallAnswer
<1> QED BY <1>1 DEF MayAnswer

LEMMA AnswersOf ==
  ASSUME NEW t, <<t.for, t.call>> \in Pairs
  PROVE  /\ t.call \in {"register", "reset", "cancel", "upload"} => {"item"} \cup Failures \subseteq Answers(t)
         /\ t.call = "upload" => "streaming" \in Answers(t)
         /\ t.call = "read" => {"item", "gone", "account", "lost"} \subseteq Answers(t)
         /\ t.call = "holder" => {"done"} \cup Failures \subseteq Answers(t)
         /\ t.call = "put" => {"done", "refused"} \subseteq Answers(t)
         /\ t.for = "prepare" /\ t.call = "work" => {"done", "refused", "choice"} \subseteq Answers(t)
         /\ t.for = "hash" => "mismatch" \in Answers(t)
<1>1. CASE t.call \in {"register", "reset", "cancel", "upload"}
  <2>1. t.for \in {"prepare", "register", "restart", "process", "cancel", "transfer"}
    BY <1>1 DEF Pairs
  <2> QED BY <1>1, <2>1 DEF Answers
<1>2. CASE t.call = "read"
  BY <1>2 DEF Answers, Pairs
<1>3. CASE t.call \in {"holder", "put"}
  <2>1. t.for \in {"prepare", "register", "store"}
    BY <1>3 DEF Pairs
  <2> QED BY <1>3, <2>1 DEF Answers
<1>4. CASE t.call = "work"
  <2>1. t.for \in {"prepare", "hash"}
    BY <1>4 DEF Pairs
  <2> QED BY <1>4, <2>1 DEF Answers
<1>5. t.call \in {"work", "holder", "register", "upload", "cancel", "put", "read", "reset"}
  BY DEF Pairs
<1>6. t.for = "hash" => t.call = "work"
  BY DEF Pairs
<1> QED BY <1>1, <1>2, <1>3, <1>4, <1>5, <1>6

(* The account's items, and who is signed in where. *)
AccountOK ==
    /\ media \in [ItemIds -> Item] /\ confirmed \in {"own", "other"}
    /\ runtimeAccount \in {"own", "other"} /\ cookie \in {"own", "other"}
    /\ holder \in {"draft", "deleting", "cleared", "detaching", "session"}
    /\ spent \in [faults : 0..MaxFaults, switches : 0..MaxSwitches, commands : 0..MaxCommands]

LEMMA ItemFields ==
  ASSUME NEW x \in Item
  PROVE  x.state \in ItemState /\ x.comps \in [Roles -> {"awaiting", "receiving", "received", "cancelled"}]
         /\ x.holder \in {"draft", "session"}
BY DEF Item

LEMMA AnswerSame ==
  ASSUME NEW s, Typed(s), NEW t, NEW ans
  PROVE  /\ WithAnswer(s, t, ans).copies = s.copies /\ WithAnswer(s, t, ans).rec = s.rec
         /\ WithAnswer(s, t, ans).status = s.status
BY DEF WithAnswer, StartThread, EndThread

(* Streams that end are answered, or nobody's. *)
LEMMA EndStreamsCore ==
  ASSUME NEW s, NEW d \in Nat, NEW e \in Nat, NEW W, NEW C, NEW N, NEW c, Core(s, d, e, W, C, N, c),
         NEW i, NEW R
  PROVE  /\ Core(EndStreams(s, i, R), d, e, W, C, N, c)
         /\ \A t \in s.threads : t.call # "upload" => t \in EndStreams(s, i, R).threads
         /\ EndStreams(s, i, R).copies = s.copies
<1> DEFINE T == {t \in s.threads : t.call = "upload" /\ t.item = i /\ t.role \in R
                                   /\ t.ans.is = "streaming"}
           op(t, u) == IF t.for = "nobody" THEN EndThread(u, t)
                       ELSE StartThread(EndThread(u, t), [t EXCEPT !.ans = Ans("refused")])
           Inv == [X \in SUBSET T |->
                     {u \in State : /\ Core(u, d, e, W, C, N, c) /\ s.threads \ X \subseteq u.threads
                                    /\ u.copies = s.copies}]
           refused == Ans("refused")
<1>typed. Typed(s)
  BY DEF Core
<1>finite. IsFiniteSet(T)
  BY <1>typed, FS_Subset DEF Typed
<1>base. s \in Inv[{}]
  BY <1>typed DEF Typed
<1>step. \A X \in SUBSET T : \A x \in X : \A v \in Inv[X \ {x}] : op(x, v) \in Inv[X]
  <2> SUFFICES ASSUME NEW X \in SUBSET T, NEW x \in X, NEW v \in Inv[X \ {x}]
               PROVE  op(x, v) \in Inv[X]
    OBVIOUS
  <2>1. Core(v, d, e, W, C, N, c) /\ s.threads \ (X \ {x}) \subseteq v.threads /\ v.copies = s.copies
    OBVIOUS
  <2>2. x \in s.threads /\ x \in v.threads /\ x.call = "upload"
    BY <2>1
  <2>3. x \in Thread /\ (x.for # "nobody" => x.for = "transfer" /\ <<x.for, x.call>> \in Pairs)
    <3>1. ThreadOK(x, N, c) /\ x \in Thread
      BY <1>typed, <2>2, StateFields DEF Core, ThreadsOK
    <3>2. x.for # "nobody" => <<x.for, x.call>> \in Pairs
      BY <3>1 DEF ThreadOK, Shape
    <3> QED BY <2>2, <3>1, <3>2 DEF Pairs
  <2>4. x.for # "nobody" => MayAnswer(x, refused)
    <3>1. x.for # "nobody" => "refused" \in Answers(x)
      BY <2>2, <2>3, AnswersOf DEF Failures
    <3> QED BY <2>3, <3>1, AnsAnswers
  <2> HIDE DEF refused, T, Inv
  <2> DEFINE next == WithAnswer(v, x, refused)
  <2>5. Core(next, d, e, W, C, N, c) /\ Yields(v, x, refused, next)
    BY <2>1, <2>2, <2>4, WithAnswerCore
  <2>6. op(x, v) = next
    BY DEF WithAnswer, refused
  <2>7. next.copies = v.copies
    BY <2>1, AnswerSame DEF Core
  <2> HIDE DEF op, next
  <2>8. s.threads \ X \subseteq next.threads
    BY <2>1, <2>5 DEF Yields
  <2>9. next \in State
    BY <2>5 DEF Core, Typed
  <2> QED BY <2>1, <2>5, <2>6, <2>7, <2>8, <2>9 DEF Inv
<1>full. Inv[T] = {u \in State : /\ Core(u, d, e, W, C, N, c) /\ s.threads \ T \subseteq u.threads
                                /\ u.copies = s.copies}
  OBVIOUS
<1> HIDE DEF refused, T
<1> HIDE DEF op, Inv
<1> DEFINE dom == UNION {Inv[X] : X \in SUBSET T}
           F == [p \in T \X dom |-> op(p[1], p[2])]
           ch == Firsts(T)
           it(g) == g = [X \in SUBSET T |-> IF X = {} THEN s
                           ELSE op(CHOOSE x \in X : TRUE, g[X \ {CHOOSE x \in X : TRUE}])]
           h == CHOOSE g : it(g)
<1>f1. \A X \in SUBSET T : \A x \in X : \A v \in Inv[X \ {x}] : F[<<x, v>>] = op(x, v)
  OBVIOUS
<1>f2. \A X \in SUBSET T : X # {} => ch[X] = (CHOOSE x \in X : TRUE) /\ ch[X] \in X
  BY DEF Firsts
<1> HIDE DEF F, ch
<1>f3. Chooses(ch, T) /\ Steps(F, T, Inv)
  BY <1>step, <1>f1, FirstsChoose DEF Steps, ch
<1>f4. PICK g : Follows(g, T, F, s, ch) /\ Within(g, T, Inv)
  <2> HIDE DEF dom, it, h
  <2> QED BY <1>finite, <1>base, <1>f3, FoldIn
<1>f5. ASSUME NEW X \in SUBSET T
      PROVE  g[X] = IF X = {} THEN s ELSE op(CHOOSE x \in X : TRUE, g[X \ {CHOOSE x \in X : TRUE}])
  <2>1. g[X] = IF X = {} THEN s ELSE F[<<ch[X], g[X \ {ch[X]}]>>]
    BY <1>f4 DEF Follows, StepOf, Rest
  <2>2. CASE X # {}
    <3>1. X \ {ch[X]} \in SUBSET T /\ g[X \ {ch[X]}] \in Inv[X \ {ch[X]}]
      BY <1>f4 DEF Within
    <3>2. F[<<ch[X], g[X \ {ch[X]}]>>] = op(ch[X], g[X \ {ch[X]}])
      BY <1>f1, <1>f2, <2>2, <3>1
    <3> QED BY <1>f2, <2>1, <2>2, <3>2
  <2> QED BY <2>1, <2>2
<1>f6. it(h)
  <2>1. it(g)
    <3>1. g = [X \in SUBSET T |-> g[X]]
      BY <1>f4 DEF Follows
    <3> QED BY <1>f5, <3>1
  <2> HIDE DEF it
  <2> QED BY <2>1
<1> HIDE DEF h
<1>f7. h[{}] = s /\ \A X \in SUBSET T : X # {} => h[X] = op(ch[X], h[X \ {ch[X]}])
  BY <1>f2, <1>f6
<1>f8. h[T] \in Inv[T]
  <2>1. ASSUME NEW X \in SUBSET T, X # {}, h[Rest(X, ch)] \in Inv[Rest(X, ch)] PROVE h[X] \in Inv[X]
    <3>1. op(ch[X], h[X \ {ch[X]}]) \in Inv[X]
      BY <1>step, <1>f2, <2>1 DEF Rest
    <3> QED BY <1>f7, <2>1, <3>1
  <2> QED BY <1>finite, <1>base, <1>f3, <1>f7, <2>1, FoldKeeps
<1>value. EndStreams(s, i, R) \in Inv[T]
  <2>1. EndStreams(s, i, R) = h[T]
    BY Zenon DEF EndStreams, FoldSet, MapThenFoldSet, h, it, op, T
  <2> QED BY <1>f8, <2>1
<1> HIDE DEF F, ch, it, h, dom
<1>1. Core(EndStreams(s, i, R), d, e, W, C, N, c) /\ s.threads \ T \subseteq EndStreams(s, i, R).threads
      /\ EndStreams(s, i, R).copies = s.copies
  BY <1>full, <1>value
<1> QED BY <1>1 DEF T

LEMMA FaultOK ==
  ASSUME AccountOK, Fault
  PROVE  spent' \in [faults : 0..MaxFaults, switches : 0..MaxSwitches, commands : 0..MaxCommands]
<1>1. spent.faults + 1 \in 0..MaxFaults
  BY UploadConstants DEF AccountOK, Fault
<1> QED BY <1>1 DEF AccountOK, Fault

LEMMA AccountKept ==
  ASSUME AccountOK, media' \in [ItemIds -> Item], UNCHANGED <<confirmed, runtimeAccount, cookie, holder>>,
         Fault \/ UNCHANGED spent
  PROVE  AccountOK'
BY FaultOK DEF AccountOK

LEMMA ItemIdIs ==
  ASSUME NEW i \in 0..MaxRegistrations, i # 0
  PROVE  i \in ItemIds
BY UploadConstants DEF ItemIds

LEMMA AnswersStep ==
  ASSUME UploadsInv, NEW t \in m.threads,
         NEW is \in {"streaming", "done", "refused", "lost", "account", "gone", "choice", "mismatch"},
         t.for # "nobody" => is \in Answers(t), t.for \notin {"detach", "store"} \/ t.ans.is # "done",
         m' = WithAnswer(m, t, Ans(is)), holder' = holder, confirmed' = confirmed
  PROVE  UploadsInv' /\ SentHere
<1>1. t.for # "nobody" => MayAnswer(t, Ans(is))
  BY AnsAnswers
<1> QED BY <1>1, ServedStep

(* The browser's own work, and calls that are refused. *)
LEMMA WorkDoneStep ==
  ASSUME UploadsInv, AccountOK, NEW t \in m.threads, WorkDone(t)
  PROVE  UploadsInv' /\ SentHere /\ AccountOK'
<1>1. t.for = "prepare" /\ t.call = "work" /\ <<t.for, t.call>> \in Pairs
      /\ UNCHANGED <<media, confirmed, runtimeAccount, cookie, holder>>
  BY UnderWayIs DEF WorkDone
<1>2. {"done", "refused", "choice"} \subseteq Answers(t)
  BY <1>1, AnswersOf
<1>3. PICK is \in {"done", "refused", "choice"} : m' = WithAnswer(m, t, Ans(is)) /\ (Fault \/ UNCHANGED spent)
  BY DEF WorkDone
<1> QED BY <1>1, <1>2, <1>3, AnswersStep, AccountKept DEF AccountOK

LEMMA CallRefusedStep ==
  ASSUME UploadsInv, AccountOK, NEW t \in m.threads, CallRefused(t)
  PROVE  UploadsInv' /\ SentHere /\ AccountOK'
<1>1. /\ t.call \in Commands \cup {"holder", "put"} /\ t.for # "nobody" /\ t.ans.is = "under way"
      /\ UNCHANGED <<media, confirmed, runtimeAccount, cookie, holder>>
      /\ m' = WithAnswer(m, t, Ans("refused")) /\ Fault
  BY DEF CallRefused
<1>2. <<t.for, t.call>> \in Pairs
  BY <1>1, UnderWayIs
<1>3. "refused" \in Answers(t)
  BY <1>1, <1>2, AnswersOf DEF Commands, Failures
<1> QED BY <1>1, <1>3, AnswersStep, AccountKept DEF AccountOK

LEMMA OtherAccountStep ==
  ASSUME UploadsInv, AccountOK, NEW t \in m.threads, OtherAccount(t)
  PROVE  UploadsInv' /\ SentHere /\ AccountOK'
<1>1. /\ t.call \in Commands /\ t.ans.is = "under way"
      /\ UNCHANGED <<media, confirmed, runtimeAccount, cookie, holder, spent>>
      /\ m' = WithAnswer(m, t, Ans("account"))
  BY DEF OtherAccount
<1>2. t.for # "nobody" => <<t.for, t.call>> \in Pairs
  BY <1>1, UnderWayIs
<1>3. t.for # "nobody" => "account" \in Answers(t)
  BY <1>1, <1>2, AnswersOf DEF Commands, Failures
<1> QED BY <1>1, <1>3, AnswersStep, AccountKept DEF AccountOK

(* A hash that differs is still of the item that the account answered with. *)
LEMMA HashDiffersStep ==
  ASSUME UploadsInv, AccountOK, NEW t \in m.threads, HashDiffers(t)
  PROVE  UploadsInv' /\ SentHere /\ AccountOK'
<1> DEFINE ans == [t.ans EXCEPT !.is = "mismatch"]
<1>1. /\ t.for = "hash" /\ m' = WithAnswer(m, t, ans) /\ Fault
      /\ UNCHANGED <<media, confirmed, runtimeAccount, cookie, holder>>
  BY DEF HashDiffers
<1>2. <<t.for, t.call>> \in Pairs /\ t.ans \in CallAnswer
  BY <1>1, UnderWayIs, ThreadFields
<1>3. "mismatch" \in Answers(t)
  BY <1>1, <1>2, AnswersOf
<1>4. ans \in CallAnswer /\ ans.is = "mismatch"
  BY <1>2 DEF CallAnswer
<1> HIDE DEF ans
<1>5. MayAnswer(t, ans)
  BY <1>1, <1>3, <1>4 DEF MayAnswer
<1> QED BY <1>1, <1>5, ServedStep, AccountKept DEF AccountOK

(* Calls that the account answers with an item. *)
LEMMA ItemServed ==
  ASSUME UploadsInv, NEW t \in m.threads, t.ans.is \in {"under way", "streaming"}, NEW x \in Item,
         t.call \in {"read", "register", "reset", "cancel", "upload"},
         NEW s, Fine(s, 0, Now), t \in s.threads
  PROVE  Fine(WithAnswer(s, t, ItemAns(x)), 0, Now)
<1>0. 0 \in Nat
  OBVIOUS
<1>1. t.for # "nobody" => <<t.for, t.call>> \in Pairs
  BY UnderWayIs
<1>2. t.for # "nobody" => "item" \in Answers(t)
  BY <1>1, AnswersOf
<1>3. Drives(t) => Own
  <2>1. t.ans.is = "under way" => (Drives(t) => Own)
    BY UnderWayIs
  <2>2. t.ans.is = "streaming" => ~ Drives(t)
    <3>1. Shape(t)
      BY InvCore DEF ThreadOK
    <3>2. t.ans.is = "streaming" => t.call = "upload"
      BY <3>1 DEF Shape
    <3>3. t.call = "upload" => t.for \in {"transfer", "nobody"}
      BY <1>1 DEF Pairs
    <3> QED BY <3>2, <3>3 DEF Drives
  <2> QED BY <2>1, <2>2
<1>4. t.for # "nobody" => MayAnswer(t, ItemAns(x))
  BY <1>2, <1>3, ItemAnswers
<1> QED BY <1>0, <1>4, WithAnswerCore DEF Fine

LEMMA ReadServedStep ==
  ASSUME UploadsInv, AccountOK, NEW t \in m.threads, ReadServed(t)
  PROVE  UploadsInv' /\ SentHere /\ AccountOK'
<1>1. /\ t.call = "read" /\ t.ans.is = "under way" /\ t.for # "nobody" /\ <<t.for, t.call>> \in Pairs
      /\ t.item \in ItemIds
      /\ UNCHANGED <<media, confirmed, runtimeAccount, cookie, holder, spent>>
      /\ m' \in {WithAnswer(m, t, ItemAns(media[t.item])), WithAnswer(m, t, Ans("gone"))}
  <2>1. t.call = "read" /\ t.ans.is = "under way" /\ t.for # "nobody" /\ <<t.for, t.call>> \in Pairs
        /\ t.item # 0 /\ t.item \in 0..MaxRegistrations
    BY UnderWayIs DEF ReadServed, Commands
  <2>2. t.item \in ItemIds
    BY <2>1, ItemIdIs
  <2>3. m' \in {WithAnswer(m, t, ItemAns(media[t.item])), WithAnswer(m, t, Ans("gone"))}
    BY DEF ReadServed
  <2>4. UNCHANGED <<media, confirmed, runtimeAccount, cookie, holder, spent>>
    BY DEF ReadServed
  <2> QED BY <2>1, <2>2, <2>3, <2>4
<1>2. AccountOK'
  BY <1>1, AccountKept DEF AccountOK
<1>3. CASE m' = WithAnswer(m, t, ItemAns(media[t.item]))
  <2>1. media[t.item] \in Item
    BY <1>1 DEF AccountOK
  <2>2. Fine(m', 0, Now)
    BY <1>1, <1>3, <2>1, ItemServed DEF UploadsInv
  <2> QED BY <1>1, <1>2, <2>2, InvCore, Arrives
<1>4. CASE m' = WithAnswer(m, t, Ans("gone"))
  <2>1. "gone" \in Answers(t)
    BY <1>1, AnswersOf
  <2> QED BY <1>1, <1>2, <1>4, <2>1, AnswersStep
<1> QED BY <1>1, <1>3, <1>4

LEMMA NoteOfRegister ==
  ASSUME UploadsInv, NEW t \in m.threads, t.call = "register"
  PROVE  t.note \in {"draft", "session"}
<1>1. Shape(t)
  BY InvCore DEF ThreadOK
<1>2. t.for \notin Rereads
  <2>1. t.for = "nobody" \/ <<t.for, "register">> \in Pairs
    BY <1>1 DEF Shape
  <2> QED BY <2>1 DEF Pairs, Rereads
<1> QED BY <1>1, <1>2 DEF Shape, NotesFor

LEMMA RegisterServedStep ==
  ASSUME UploadsInv, AccountOK, NEW t \in m.threads, RegisterServed(t)
  PROVE  UploadsInv' /\ SentHere /\ AccountOK'
<1> DEFINE new == [NoItem EXCEPT !.state = "awaiting_upload", !.holder = t.note]
           item == IF media[t.item].state = "absent" THEN new ELSE media[t.item]
<1>1. /\ t.call = "register" /\ t.ans.is = "under way" /\ t.item \in ItemIds
      /\ t.for # "nobody" => <<t.for, t.call>> \in Pairs
      /\ UNCHANGED <<confirmed, runtimeAccount, cookie, holder, spent>>
  <2>1. t.call = "register" /\ t.ans.is = "under way" /\ t.item # 0 /\ t.item \in 0..MaxRegistrations
        /\ (t.for # "nobody" => <<t.for, t.call>> \in Pairs)
    BY UnderWayIs DEF RegisterServed, Reached
  <2>2. t.item \in ItemIds
    BY <2>1, ItemIdIs
  <2>3. UNCHANGED <<confirmed, runtimeAccount, cookie, holder, spent>>
    BY DEF RegisterServed
  <2> QED BY <2>1, <2>2, <2>3
<1>2. \/ m' = WithAnswer(m, t, Ans("refused")) /\ UNCHANGED media
      \/ m' = WithAnswer(m, t, ItemAns(item)) /\ media' = [media EXCEPT ![t.item] = item]
  BY DEF RegisterServed
<1>3. CASE m' = WithAnswer(m, t, Ans("refused")) /\ UNCHANGED media
  <2>1. t.for # "nobody" => "refused" \in Answers(t)
    BY <1>1, AnswersOf DEF Failures
  <2> QED BY <1>1, <1>3, <2>1, AnswersStep, AccountKept DEF AccountOK
<1>4. CASE m' = WithAnswer(m, t, ItemAns(item)) /\ media' = [media EXCEPT ![t.item] = item]
  <2>1. media \in [ItemIds -> Item]
    BY DEF AccountOK
  <2>2. item \in Item
    <3>1. t.note \in {"draft", "session"}
      BY <1>1, NoteOfRegister
    <3>2. new \in Item
      BY <3>1, NoItemIsItem DEF Item, ItemState
    <3> QED BY <1>1, <2>1, <3>2
  <2> HIDE DEF item
  <2>3. media' \in [ItemIds -> Item]
    BY <1>4, <2>1, <2>2
  <2>4. Fine(m', 0, Now)
    BY <1>1, <1>4, <2>2, ItemServed DEF UploadsInv
  <2> QED BY <1>1, <2>3, <2>4, InvCore, Arrives, AccountKept
<1> QED BY <1>2, <1>3, <1>4

LEMMA CancelledItemIs ==
  ASSUME NEW x \in Item
  PROVE  CancelledItem(x) \in Item
BY DEF CancelledItem, Item, ItemState

(* resetComponent, cancelItem: what streams into the item ends. *)
LEMMA EndedStreamsServed ==
  ASSUME UploadsInv, AccountOK, NEW t \in m.threads, t.call \in {"reset", "cancel"},
         t.ans.is = "under way", NEW R, NEW x \in Item,
         media' = [media EXCEPT ![t.item] = x],
         m' = WithAnswer(EndStreams(m, t.item, R), t, ItemAns(x)),
         UNCHANGED <<confirmed, runtimeAccount, cookie, holder, spent>>
  PROVE  UploadsInv' /\ SentHere /\ AccountOK'
<1> DEFINE s == EndStreams(m, t.item, R)
<1>0. 0 \in Nat
  OBVIOUS
<1>1. Core(s, 0, 0, {}, {}, {}, Now) /\ t \in s.threads
  BY <1>0, InvCore, EndStreamsCore
<1> HIDE DEF s
<1>2. Fine(s, 0, Now)
  BY <1>1 DEF Fine
<1>3. Fine(WithAnswer(s, t, ItemAns(x)), 0, Now)
  BY <1>1, <1>2, ItemServed
<1>4. UploadsInv' /\ SentHere
  BY <1>3, InvCore, Arrives DEF s
<1>5. media' \in [ItemIds -> Item]
  BY DEF AccountOK
<1> QED BY <1>4, <1>5, AccountKept

LEMMA ResetServedStep ==
  ASSUME UploadsInv, AccountOK, NEW t \in m.threads, ResetServed(t)
  PROVE  UploadsInv' /\ SentHere /\ AccountOK'
<1> DEFINE x == media[t.item]
           item == [x EXCEPT !.state = "awaiting_upload", !.comps[t.role] = "awaiting"]
<1>1. /\ t.call = "reset" /\ t.ans.is = "under way" /\ t.item \in ItemIds /\ t \in Thread
      /\ t.for # "nobody" => <<t.for, t.call>> \in Pairs
  <2>1. t.call = "reset" /\ t.ans.is = "under way"
    BY DEF ResetServed, Reached
  <2>2. t.item # 0 /\ t.item \in 0..MaxRegistrations /\ (t.for # "nobody" => <<t.for, t.call>> \in Pairs)
        /\ t \in Thread
    BY <2>1, UnderWayIs
  <2> QED BY <2>1, <2>2, ItemIdIs
<1>2. UNCHANGED <<confirmed, runtimeAccount, cookie, holder, spent>>
  BY DEF ResetServed
<1>3. \/ m' = WithAnswer(m, t, Ans("refused")) /\ UNCHANGED media
      \/ /\ m' = WithAnswer(EndStreams(m, t.item, {t.role}), t, ItemAns(item))
         /\ media' = [media EXCEPT ![t.item] = item]
  BY DEF ResetServed
<1>4. CASE m' = WithAnswer(m, t, Ans("refused")) /\ UNCHANGED media
  <2>1. t.for # "nobody" => "refused" \in Answers(t)
    BY <1>1, AnswersOf DEF Failures
  <2>2. t.for \notin {"detach", "store"}
    BY <1>1 DEF Pairs
  <2> QED BY <1>2, <1>4, <2>1, <2>2, AnswersStep, AccountKept DEF AccountOK
<1>5. CASE /\ m' = WithAnswer(EndStreams(m, t.item, {t.role}), t, ItemAns(item))
           /\ media' = [media EXCEPT ![t.item] = item]
  <2>1. x \in Item /\ t.role \in Roles
    BY <1>1, ThreadFields DEF AccountOK
  <2>2. item \in Item
    BY <2>1 DEF Item, ItemState
  <2> HIDE DEF item
  <2> QED BY <1>1, <1>2, <1>5, <2>2, EndedStreamsServed
<1> QED BY <1>3, <1>4, <1>5

LEMMA CancelServedStep ==
  ASSUME UploadsInv, AccountOK, NEW t \in m.threads, CancelServed(t)
  PROVE  UploadsInv' /\ SentHere /\ AccountOK'
<1> DEFINE x == media[t.item]
           item == IF x.state \in Live THEN CancelledItem(x) ELSE x
           R == IF x.state \in Live THEN Roles ELSE {}
<1>1. t.call = "cancel" /\ t.ans.is = "under way" /\ t.item \in ItemIds
  <2>1. t.call = "cancel" /\ t.ans.is = "under way"
    BY DEF CancelServed, Reached
  <2>2. t.item # 0 /\ t.item \in 0..MaxRegistrations
    BY <2>1, UnderWayIs
  <2> QED BY <2>1, <2>2, ItemIdIs
<1>2. UNCHANGED <<confirmed, runtimeAccount, cookie, holder, spent>>
      /\ m' = WithAnswer(EndStreams(m, t.item, R), t, ItemAns(item))
      /\ media' = [media EXCEPT ![t.item] = item]
  BY DEF CancelServed
<1>3. item \in Item
  <2>1. x \in Item
    BY <1>1 DEF AccountOK
  <2> QED BY <2>1, CancelledItemIs
<1> HIDE DEF item, R
<1> QED BY <1>1, <1>2, <1>3, EndedStreamsServed

(* A copy that is being written. *)
LEMMA CopyCore ==
  ASSUME NEW s, NEW d, NEW e, NEW W, NEW C, NEW N, NEW c, Core(s, d, e, W, C, N, c),
         NEW k \in Keys, \E t \in s.threads : t.key = k /\ t.for = "store" /\ t.ans.is = "done"
  PROVE  Core([s EXCEPT !.copies = @ \cup {k}], d, e, W, C, N, c)
<1> DEFINE u == [s EXCEPT !.copies = @ \cup {k}]
<1>1. /\ Typed(s) /\ SlotsOK(s, d, e) /\ WatchOK(s, W, c) /\ CopiesOK(s, C, c) /\ HolderOK(s, c)
      /\ s \in State
  BY DEF Core, Typed
<1>2. u \in State /\ u.copies = s.copies \cup {k}
  BY <1>1 DEF State
<1>3. /\ u.threads = s.threads /\ u.rec = s.rec /\ u.status = s.status
      /\ u.transferring = s.transferring /\ u.preprocessing = s.preprocessing
      /\ u.saving = s.saving /\ u.changing = s.changing
  OBVIOUS
<1> HIDE DEF u
<1>4. SlotsOK(u, d, e) /\ WatchOK(u, W, c) /\ HolderOK(u, c)
  BY <1>1, <1>3 DEF SlotsOK, Of, WatchOK, Watched, HolderOK
<1>5. CopiesOK(u, C, c)
  BY <1>1, <1>2, <1>3 DEF CopiesOK, Wanted
<1>6. Core(u, d, e, W, C, N, c)
  BY <1>2, <1>3, <1>4, <1>5, Rebuilt
<1> QED BY <1>6 DEF u

LEMMA CopyWrittenStep ==
  ASSUME UploadsInv, AccountOK, NEW t \in m.threads, CopyWritten(t)
  PROVE  UploadsInv' /\ SentHere /\ AccountOK'
<1> DEFINE s == WithAnswer(m, t, Ans("done"))
           u == Returned(t, Ans("done"))
<1>1. /\ t.call = "put" /\ t.ans.is = "under way"
      /\ UNCHANGED <<media, confirmed, runtimeAccount, cookie, holder, spent>>
      /\ m' = [s EXCEPT !.copies = @ \cup {t.key}]
  BY DEF CopyWritten
<1>2. <<t.for, t.call>> \in Pairs /\ t.for # "nobody" /\ t \in Thread /\ t.key \in Keys /\ 0 \in Nat
      /\ ThreadOK(t, {}, Now)
  <2>1. t.for # "nobody" => <<t.for, t.call>> \in Pairs
    BY UnderWayIs
  <2>2. t.call \notin Commands => t.for # "nobody"
    BY UnderWayIs
  <2> QED BY <1>1, <2>1, <2>2, InvCore DEF Commands
<1>3. t.for = "store"
  BY <1>1, <1>2 DEF Pairs
<1>4. MayAnswer(t, Ans("done"))
  <2>1. "done" \in Answers(t)
    BY <1>1, <1>2, AnswersOf
  <2> QED BY <1>1, <1>2, <1>3, <2>1, AnsAnswers
<1>5. /\ Core(s, 0, 0, {}, {}, {}, Now)
      /\ s = StartThread(EndThread(m, t), u)
  BY <1>2, <1>4, InvCore, WithAnswerCore
<1>6. Adds(EndThread(m, t), u, s)
  BY <1>2, <1>4, <1>5, InvCore, AnsweredCore
<1>7. u.for = "store" /\ u.key = t.key /\ u.ans.is = "done"
  <2>1. u.for = "store" /\ u.key = t.key
    BY <1>2, <1>3, <1>4, AnsweredOK
  <2>2. u.ans.is = "done"
    BY <1>2, AnsFields DEF Returned, Thread
  <2> QED BY <2>1, <2>2
<1>8. \E v \in s.threads : v.key = t.key /\ v.for = "store" /\ v.ans.is = "done"
  BY <1>6, <1>7 DEF Adds, Renumbers
<1> HIDE DEF s, u
<1>9. Core(m', 0, 0, {}, {}, {}, Now)
  BY <1>1, <1>2, <1>5, <1>8, CopyCore
<1> QED BY <1>1, <1>9, InvCore, Arrives, AccountKept DEF AccountOK, Fine

LEMMA HolderServedStep ==
  ASSUME UploadsInv, AccountOK, NEW t \in m.threads, HolderServed(t)
  PROVE  UploadsInv' /\ SentHere /\ AccountOK'
<1>1. PICK h \in {"draft", "session"} :
        m' = StartThread(EndThread(m, t), [t EXCEPT !.note = h, !.ans = Ans("done")])
  BY DEF HolderServed
<1>2. /\ t.call = "holder" /\ t.ans.is = "under way"
      /\ UNCHANGED <<media, confirmed, runtimeAccount, cookie, holder, spent>>
  BY DEF HolderServed
<1>3. <<t.for, t.call>> \in Pairs /\ t.for # "nobody" /\ t \in Thread /\ 0 \in Nat /\ ThreadOK(t, {}, Now)
  <2>1. t.for # "nobody" => <<t.for, t.call>> \in Pairs
    BY UnderWayIs
  <2>2. t.call \notin Commands => t.for # "nobody"
    BY UnderWayIs
  <2> QED BY <1>2, <2>1, <2>2, InvCore DEF Commands
<1>4. t.for \in {"prepare", "register"}
  BY <1>2, <1>3 DEF Pairs
<1> DEFINE u == [t EXCEPT !.note = h, !.ans = Ans("done")]
<1>5. u \in Thread /\ u.for = t.for /\ u.key = t.key /\ u.alive = t.alive /\ u.call = t.call
      /\ u.note = h /\ u.ans.is = "done" /\ u.item = t.item
  BY <1>3, AnsFields DEF Thread
<1> HIDE DEF u
<1>6. "done" \in Answers(u)
  BY <1>2, <1>3, <1>5, AnswersOf
<1>7. Shape(u)
  BY <1>2, <1>3, <1>4, <1>5, <1>6 DEF ThreadOK, Shape, Nameless, NotesFor, Rereads, ActsWhenStale
<1>8. ThreadOK(u, {}, Now)
  BY <1>2, <1>4, <1>5, <1>7 DEF ThreadOK, Drives, IsSent, Commands
<1>9. Core(StartThread(EndThread(m, t), u), 0, 0, {}, {}, {}, Now)
  BY <1>3, <1>5, <1>8, InvCore, ReplaceCore
<1>10. Fine(m', 0, Now)
  BY <1>1, <1>9 DEF Fine, u
<1> QED BY <1>2, <1>10, InvCore, Arrives, AccountKept DEF AccountOK

LEMMA StreamingIs ==
  ASSUME UploadsInv, AccountOK, NEW t \in m.threads, t.ans.is = "streaming" \/ t.call = "upload"
  PROVE  /\ t \in Thread /\ t.call = "upload" /\ t.item \in ItemIds /\ t.for \in {"transfer", "nobody"}
         /\ t.for # "nobody" => <<t.for, t.call>> \in Pairs
         /\ media[t.item] \in Item /\ t.role \in Roles /\ t.key \in Keys
<1>1. Shape(t) /\ t \in Thread /\ t.key \in Keys
  BY InvCore DEF ThreadOK
<1>2. t.call = "upload"
  BY <1>1 DEF Shape
<1>3. t.item # 0 /\ t.item \in 0..MaxRegistrations /\ (t.for # "nobody" => <<t.for, t.call>> \in Pairs)
  <2>1. t.for # "nobody" => <<t.for, t.call>> \in Pairs
    BY UnderWayIs
  <2>2. t.for # "detach"
    BY <1>2, <2>1 DEF Pairs
  <2> QED BY <1>2, <2>1, <2>2, UnderWayIs
<1>4. t.for \in {"transfer", "nobody"}
  BY <1>2, <1>3 DEF Pairs
<1>5. t.item \in ItemIds
  BY <1>3, ItemIdIs
<1> QED BY <1>1, <1>2, <1>3, <1>4, <1>5, ThreadFields DEF AccountOK

(* The bytes of a component are sent, received or let go. *)
LEMMA UploadBeginsStep ==
  ASSUME UploadsInv, AccountOK, NEW t \in m.threads, UploadBegins(t)
  PROVE  UploadsInv' /\ SentHere /\ AccountOK'
<1>1. /\ t.call = "upload" /\ t.ans.is = "under way"
      /\ UNCHANGED <<confirmed, runtimeAccount, cookie, holder, spent>>
      /\ \/ /\ media' = [media EXCEPT ![t.item].comps[t.role] = "receiving"]
            /\ m' = StartThread(EndThread(m, t), [t EXCEPT !.ans = Ans("streaming")])
         \/ m' = WithAnswer(m, t, Ans("refused")) /\ UNCHANGED media
  BY DEF UploadBegins, Reached
<1>2. /\ t \in Thread /\ t.item \in ItemIds /\ t.for \in {"transfer", "nobody"}
      /\ t.for # "nobody" => <<t.for, t.call>> \in Pairs
      /\ media[t.item] \in Item /\ t.role \in Roles /\ 0 \in Nat /\ ThreadOK(t, {}, Now)
  BY <1>1, StreamingIs, InvCore
<1>3. CASE m' = WithAnswer(m, t, Ans("refused")) /\ UNCHANGED media
  <2>1. t.for # "nobody" => "refused" \in Answers(t)
    BY <1>1, <1>2, AnswersOf DEF Failures
  <2> QED BY <1>1, <1>2, <1>3, <2>1, AnswersStep, AccountKept DEF AccountOK
<1>4. CASE /\ media' = [media EXCEPT ![t.item].comps[t.role] = "receiving"]
           /\ m' = StartThread(EndThread(m, t), [t EXCEPT !.ans = Ans("streaming")])
  <2> DEFINE u == [t EXCEPT !.ans = Ans("streaming")]
             x == media[t.item]
             y == [x EXCEPT !.comps[t.role] = "receiving"]
  <2>1. u \in Thread /\ u.for = t.for /\ u.key = t.key /\ u.alive = t.alive /\ u.call = t.call
        /\ u.note = t.note /\ u.ans.is = "streaming" /\ u.item = t.item
    BY <1>2, AnsFields DEF Thread
  <2> HIDE DEF u
  <2>2. t.for # "nobody" => "streaming" \in Answers(u)
    BY <1>1, <1>2, <2>1, AnswersOf
  <2>3. Shape(u)
    <3>1. /\ t.item = 0 => Nameless(t)
          /\ t.for \notin ActsWhenStale => t.alive
          /\ t.note \in NotesFor(t.for) /\ (t.for = "nobody" => ~ t.alive)
      BY <1>2, PairsNobody DEF ThreadOK, Shape
    <3>2. u.item # 0 /\ u.for # "hash"
      BY <1>1, <1>2, <2>1, UnderWayIs
    <3> QED BY <1>1, <1>2, <2>1, <2>2, <3>1, <3>2 DEF Shape, Commands
  <2>4. ThreadOK(u, {}, Now)
    BY <1>2, <2>1, <2>3 DEF ThreadOK, Drives, IsSent
  <2>5. Core(StartThread(EndThread(m, t), u), 0, 0, {}, {}, {}, Now)
    BY <1>2, <2>1, <2>4, InvCore, ReplaceCore
  <2>6. Fine(m', 0, Now)
    BY <1>4, <2>5 DEF Fine, u
  <2>7. y \in Item
    BY <1>2 DEF Item
  <2>8. media' = [media EXCEPT ![t.item] = y]
    BY <1>4
  <2> HIDE DEF y
  <2>9. media' \in [ItemIds -> Item]
    BY <2>7, <2>8 DEF AccountOK
  <2> QED BY <1>1, <2>6, <2>9, InvCore, Arrives, AccountKept
<1> QED BY <1>1, <1>3, <1>4

LEMMA UploadCommitsStep ==
  ASSUME UploadsInv, AccountOK, NEW t \in m.threads, UploadCommits(t)
  PROVE  UploadsInv' /\ SentHere /\ AccountOK'
<1> DEFINE x == media[t.item]
           comps == [x.comps EXCEPT ![t.role] = "received"]
           item == [x EXCEPT !.comps = comps,
                             !.state = IF \A r \in RolesOf(t.key) : comps[r] = "received"
                                       THEN "processing" ELSE @]
<1>1. /\ t.ans.is = "streaming" /\ UNCHANGED <<confirmed, runtimeAccount, cookie, holder, spent>>
      /\ media' = [media EXCEPT ![t.item] = item] /\ m' = WithAnswer(m, t, ItemAns(item))
  BY DEF UploadCommits
<1>2. t.call = "upload" /\ x \in Item /\ t.role \in Roles
  BY <1>1, StreamingIs
<1>3. item \in Item
  <2>1. comps \in [Roles -> {"awaiting", "receiving", "received", "cancelled"}]
    BY <1>2 DEF Item
  <2> HIDE DEF comps
  <2> QED BY <1>2, <2>1 DEF Item, ItemState
<1> HIDE DEF item
<1>4. Fine(m', 0, Now)
  BY <1>1, <1>2, <1>3, ItemServed DEF UploadsInv
<1>5. media' \in [ItemIds -> Item]
  BY <1>1, <1>3 DEF AccountOK
<1> QED BY <1>1, <1>4, <1>5, InvCore, Arrives, AccountKept

LEMMA UploadStopsStep ==
  ASSUME UploadsInv, AccountOK, NEW t \in m.threads, UploadStops(t)
  PROVE  UploadsInv' /\ SentHere /\ AccountOK'
<1> DEFINE x == media[t.item]
           y == [x EXCEPT !.comps[t.role] = "awaiting"]
<1>1. /\ t.ans.is = "streaming" /\ t.for = "nobody" /\ m' = EndThread(m, t)
      /\ \/ media' = [media EXCEPT ![t.item].comps[t.role] = "awaiting"] /\ UNCHANGED spent
         \/ Fault /\ UNCHANGED media
      /\ UNCHANGED <<confirmed, runtimeAccount, cookie, holder>>
  BY DEF UploadStops
<1>2. x \in Item /\ t.role \in Roles
  BY <1>1, StreamingIs
<1>3. m' = WithAnswer(m, t, UnderWay)
  BY <1>1 DEF WithAnswer
<1>4. UploadsInv' /\ SentHere
  BY <1>1, <1>3, ServedStep
<1>5. y \in Item
  BY <1>2 DEF Item
<1>6. media' = [media EXCEPT ![t.item] = y] \/ UNCHANGED media
  BY <1>1
<1> HIDE DEF y
<1>7. media' \in [ItemIds -> Item]
  BY <1>5, <1>6 DEF AccountOK
<1> QED BY <1>1, <1>4, <1>7, AccountKept

(* What changes nothing of the manager. *)
LEMMA ManagerSame ==
  ASSUME UploadsInv, UNCHANGED <<m, confirmed, holder>>
  PROVE  UploadsInv' /\ SentHere
BY InvCore, Arrives DEF UploadsInv

LEMMA ProcessedStep ==
  ASSUME UploadsInv, AccountOK, NEW i \in ItemIds, Processed(i)
  PROVE  UploadsInv' /\ SentHere /\ AccountOK'
<1>1. PICK state \in {"ready", "failed", "refused"} :
        media' = [media EXCEPT ![i].state = state] /\ (Fault \/ UNCHANGED spent)
  BY DEF Processed
<1>2. UNCHANGED <<m, confirmed, runtimeAccount, cookie, holder>>
  BY DEF Processed
<1> DEFINE x == media[i]
           y == [x EXCEPT !.state = state]
<1>3. y \in Item
  BY DEF AccountOK, Item, ItemState
<1>4. media' = [media EXCEPT ![i] = y]
  BY <1>1
<1> HIDE DEF y
<1>5. media' \in [ItemIds -> Item]
  BY <1>3, <1>4 DEF AccountOK
<1> QED BY <1>1, <1>2, <1>5, ManagerSame, AccountKept

LEMMA CallLostStep ==
  ASSUME UploadsInv, AccountOK, NEW t \in m.threads, CallLost(t)
  PROVE  UploadsInv' /\ SentHere /\ AccountOK'
<1>1. /\ t.call \in Requests \cup {"upload"} /\ t.for # "nobody"
      /\ t.ans.is \in {"under way", "streaming", "item"} /\ Fault
      /\ UNCHANGED <<media, confirmed, runtimeAccount, cookie, holder>>
      /\ \/ m' = StartThread(Orphan(m, t), [t EXCEPT !.ans = Ans("lost")])
         \/ m' = StartThread(EndThread(m, t), [t EXCEPT !.ans = Ans("lost")])
  BY DEF CallLost
<1>2. <<t.for, t.call>> \in Pairs /\ 0 \in Nat
  BY <1>1, UnderWayIs
<1>3. "lost" \in Answers(t) /\ t.ans.is # "done"
  BY <1>1, <1>2, AnswersOf DEF Requests, Failures
<1>4. CASE m' = StartThread(Orphan(m, t), [t EXCEPT !.ans = Ans("lost")])
  <2>1. MayAnswer(t, Ans("lost"))
    BY <1>1, <1>3, AnsAnswers
  <2>2. Core(StartThread(Orphan(m, t), Returned(t, Ans("lost"))), 0, 0, {}, {}, {}, Now)
    BY <1>2, <2>1, InvCore, LostCore
  <2>3. Fine(m', 0, Now)
    BY <1>4, <2>2 DEF Fine, Returned
  <2> QED BY <1>1, <2>3, InvCore, Arrives, AccountKept DEF AccountOK
<1>5. CASE m' = StartThread(EndThread(m, t), [t EXCEPT !.ans = Ans("lost")])
  <2>1. m' = WithAnswer(m, t, Ans("lost"))
    BY <1>1, <1>5 DEF WithAnswer
  <2> QED BY <1>1, <1>3, <2>1, AnswersStep, AccountKept DEF AccountOK
<1> QED BY <1>1, <1>4, <1>5

LEMMA ServiceStep ==
  ASSUME UploadsInv, AccountOK, Service
  PROVE  UploadsInv' /\ SentHere /\ AccountOK'
<1>1. ASSUME NEW t \in m.threads,
             \/ WorkDone(t) \/ HashDiffers(t) \/ CopyWritten(t) \/ HolderServed(t)
             \/ ReadServed(t) \/ OtherAccount(t) \/ RegisterServed(t)
      PROVE  UploadsInv' /\ SentHere /\ AccountOK'
  BY <1>1, WorkDoneStep, HashDiffersStep, CopyWrittenStep, HolderServedStep, ReadServedStep,
     OtherAccountStep, RegisterServedStep
<1>2. ASSUME NEW t \in m.threads,
             \/ ResetServed(t) \/ CancelServed(t) \/ UploadBegins(t) \/ UploadCommits(t)
             \/ UploadStops(t) \/ CallRefused(t) \/ CallLost(t)
      PROVE  UploadsInv' /\ SentHere /\ AccountOK'
  BY <1>2, ResetServedStep, CancelServedStep, UploadBeginsStep, UploadCommitsStep, UploadStopsStep,
     CallRefusedStep, CallLostStep
<1>3. ASSUME NEW i \in ItemIds, Processed(i) PROVE UploadsInv' /\ SentHere /\ AccountOK'
  BY <1>3, ProcessedStep
<1> QED BY <1>1, <1>2, <1>3 DEF Service

LEMMA SpentOK ==
  ASSUME AccountOK
  PROVE  /\ spent.switches < MaxSwitches /\ spent' = [spent EXCEPT !.switches = @ + 1]
            => spent' \in [faults : 0..MaxFaults, switches : 0..MaxSwitches, commands : 0..MaxCommands]
         /\ spent.commands < MaxCommands /\ spent' = [spent EXCEPT !.commands = @ + 1]
            => spent' \in [faults : 0..MaxFaults, switches : 0..MaxSwitches, commands : 0..MaxCommands]
<1>1. spent.switches \in 0..MaxSwitches /\ spent.commands \in 0..MaxCommands
  BY DEF AccountOK
<1>2. spent.switches < MaxSwitches => spent.switches + 1 \in 0..MaxSwitches
  BY <1>1, UploadConstants
<1>3. spent.commands < MaxCommands => spent.commands + 1 \in 0..MaxCommands
  BY <1>1, UploadConstants
<1> QED BY <1>2, <1>3 DEF AccountOK

(* The timer of a poll. *)
LEMMA FiresStep ==
  ASSUME UploadsInv, AccountOK, NEW k \in Keys, Fires(k)
  PROVE  UploadsInv' /\ SentHere /\ AccountOK'
<1> DEFINE quiet == StopPolling(m, k)
           why == "poll"
           call == "read"
           note == "draft"
<1>1. UNCHANGED <<media, confirmed, runtimeAccount, cookie, holder, spent>>
      /\ m' = IF m.status = "active" /\ m.rec[k].item # 0 THEN Await(quiet, why, call, k, "still") ELSE quiet
  BY DEF Fires
<1>2. Core(quiet, 0, 0, {k}, {}, {}, Now)
  <2>1. {} \cup {k} = {k}
    OBVIOUS
  <2> QED BY <2>1, InvCore, StopPollingCore
<1>3. PICK y : quiet = With(m, k, y) /\ Alike(y, m.rec[k])
  BY InvCore, StopPollingCore
<1>4. /\ quiet.rec[k] = y /\ y.item = m.rec[k].item /\ y.phase = m.rec[k].phase
      /\ quiet.status = m.status /\ Typed(quiet) /\ RecordsOK(quiet, Now)
  <2>1. y \in Record
    BY <1>3 DEF Alike, Keeps
  <2>2. quiet.rec[k] = y
    BY <1>3, <2>1, InvCore, WithRecord
  <2>3. quiet.status = m.status
    BY <1>3, WithSame
  <2> QED BY <1>2, <1>3, <2>2, <2>3 DEF Alike, Keeps, Core
<1>5. 0 \in Nat /\ note \in NotesFor(why) /\ "still" \in Roles /\ why \notin {"prepare", "transfer"}
  BY DEF NotesFor, Rereads, Roles
<1>6. m.rec[k].item # 0 => MayAwait(quiet, why, call, k, {}, Now)
  BY <1>4 DEF MayAwait, Pairs, Commands
<1> HIDE DEF quiet
<1>7. CASE m.status = "active" /\ m.rec[k].item # 0
  <2> DEFINE u == AwaitNoting(quiet, why, call, k, "still", note)
  <2>1. m' = u
    BY <1>1, <1>7 DEF Await
  <2>3. why \in {"poll", "detach"}
    OBVIOUS
  <2> HIDE DEF why, call, note
  <2>2. Core(u, 0, 0, {k}, {}, {}, Now) /\ NowAwaits(quiet, u, why, call, k)
    BY <1>2, <1>5, <1>6, <1>7, AwaitQuiet
  <2> HIDE DEF u
  <2>4. Watched(u, k, Now)
    BY <2>2, <2>3 DEF NowAwaits, Watched
  <2>5. Core(u, 0, 0, {}, {}, {}, Now)
    BY <2>2, <2>4, Discharge
  <2> QED BY <1>1, <2>1, <2>5, InvCore, Arrives, AccountKept DEF AccountOK, Fine
<1>8. CASE ~ (m.status = "active" /\ m.rec[k].item # 0)
  <2>1. m' = quiet
    BY <1>1, <1>8
  <2>2. Watched(quiet, k, Now)
    BY <1>4, <1>8 DEF Watched, RecordsOK, RecordOK
  <2>3. Core(quiet, 0, 0, {}, {}, {}, Now)
    BY <1>2, <2>2, Discharge
  <2> QED BY <1>1, <2>1, <2>3, InvCore, Arrives, AccountKept DEF AccountOK, Fine
<1> QED BY <1>7, <1>8

LEMMA ManagerStep ==
  ASSUME UploadsInv, AccountOK, Manager
  PROVE  UploadsInv' /\ SentHere /\ AccountOK'
<1>1. ASSUME NEW t \in m.threads, Continues(t) PROVE UploadsInv' /\ SentHere /\ AccountOK'
  <2>1. UNCHANGED <<media, confirmed, runtimeAccount, cookie, holder, spent>>
    BY <1>1 DEF Continues
  <2> QED BY <1>1, <2>1, ContinuesStep, AccountKept DEF AccountOK
<1> QED BY <1>1, FiresStep DEF Manager

-----------------------------------------------------------------------------
(* The account of the browser. *)

LEMMA CookieChangesStep ==
  ASSUME UploadsInv, AccountOK, CookieChanges
  PROVE  UploadsInv' /\ SentHere /\ AccountOK'
BY ManagerSame, SpentOK DEF CookieChanges, AccountOK

LEMMA SetAccountStep ==
  ASSUME UploadsInv, AccountOK, SetAccount
  PROVE  UploadsInv' /\ SentHere /\ AccountOK'
<1>1. /\ runtimeAccount' = confirmed /\ UNCHANGED <<media, confirmed, cookie, holder, spent>>
      /\ m' \in {Pause(m, "account"), ResumeUploads(m), m}
  BY DEF SetAccount, ResumeIfIdle
<1>2. 0 \in Nat /\ "account" \in {"none", "account", "offline"}
  OBVIOUS
<1>3. Fine(Pause(m, "account"), 0, Now)
  BY <1>2, InvCore, PauseCore DEF Fine
<1>4. Fine(ResumeUploads(m), 0, Now)
  BY <1>2, InvCore, ResumeCore DEF Fine
<1>5. Fine(m', 0, Now)
  BY <1>1, <1>3, <1>4 DEF UploadsInv
<1> QED BY <1>1, <1>5, InvCore, Arrives DEF AccountOK

(* When the account changes, nothing is left that would go on with a        *)
(* command for the account before.                                          *)
LEMMA ArrivesElsewhere ==
  ASSUME NEW c, Fine(m', 0, c), c.holder = holder', c.detaching = (holder' = "detaching"),
         c.sent = m.threads,
         \A t \in m'.threads : Drives(t) => t.ans.is \notin {"under way", "item"}
  PROVE  UploadsInv' /\ SentHere
<1>1. Core(m', 0, 0, {}, {}, {}, c)
  BY DEF Fine
<1>2. /\ Typed(m') /\ SlotsOK(m', 0, 0) /\ ThreadsOK(m', {}, c) /\ DriversOK(m') /\ RecordsOK(m', c)
      /\ WatchOK(m', {}, c) /\ CopiesOK(m', {}, c) /\ HolderOK(m', c)
  BY <1>1 DEF Core
<1>3. SentHere
  BY <1>2 DEF ThreadsOK, ThreadOK, SentHere
<1>4. /\ Now'.holder = c.holder /\ Now'.detaching = c.detaching /\ Now'.sent = m'.threads
      /\ Now'.named = {}
  BY DEF Now
<1>5. \A t \in m'.threads : Shape(t) /\ (Drives(t) => t.ans.is \notin {"under way", "item"})
                            /\ (t.for = "detach" => c.detaching)
  BY <1>2 DEF ThreadsOK, ThreadOK
<1>6. \A t \in m'.threads : IsSent(t) => \E u \in m'.threads : Similar(u, t)
  BY DEF Similar
<1>7. /\ \A t \in m'.threads : /\ Shape(t) /\ (Drives(t) => t.key \notin {} /\ (t.ans.is \in {"under way", "item"} => Own'))
                               /\ (t.for = "detach" => Now'.detaching)
                               /\ (IsSent(t) => Own' \/ \E u \in Now'.sent : Similar(u, t))
  BY <1>4, <1>5, <1>6
<1>8. RecordsOK(m', Now')
  BY <1>2, <1>4 DEF RecordsOK
<1>9. WatchOK(m', {}, Now') /\ CopiesOK(m', {}, Now') /\ HolderOK(m', Now')
  BY <1>2, <1>4 DEF WatchOK, Watched, CopiesOK, Wanted, HolderOK
<1>10. UploadsInv'
  BY <1>2, <1>7, <1>8, <1>9 DEF UploadsInv, Fine, Core, ThreadsOK, ThreadOK
<1> QED BY <1>3, <1>10

LEMMA DisownedCore ==
  ASSUME NEW s, NEW d \in Nat, NEW e \in Nat, NEW W, NEW C, NEW N, NEW c, Core(s, d, e, W, C, N, c),
         NEW T, T \subseteq s.threads, \A t \in T : MayAnswer(t, Ans("account"))
  PROVE  LET u == FoldSet(LAMBDA t, v : Disown(v, t), s, T)
         IN /\ Core(u, d, e, W, C, N, c)
            /\ \A v \in u.threads : v \in s.threads \ T \/ v.for = "nobody" \/ v.ans = Ans("account")
<1> DEFINE op(t, u) == Disown(u, t)
           ans == Ans("account")
           Inv == [X \in SUBSET T |->
                     {u \in State : /\ Core(u, d, e, W, C, N, c) /\ s.threads \ X \subseteq u.threads
                                    /\ \A v \in u.threads : v \in s.threads \ X \/ v.for = "nobody" \/ v.ans = ans}]
<1>typed. Typed(s)
  BY DEF Core
<1>finite. IsFiniteSet(T)
  BY <1>typed, FS_Subset DEF Typed
<1>base. s \in Inv[{}]
  BY <1>typed DEF Typed
<1>step. \A X \in SUBSET T : \A x \in X : \A v \in Inv[X \ {x}] : op(x, v) \in Inv[X]
  <2> SUFFICES ASSUME NEW X \in SUBSET T, NEW x \in X, NEW v \in Inv[X \ {x}]
               PROVE  op(x, v) \in Inv[X]
    OBVIOUS
  <2> HIDE DEF ans
  <2>1. Core(v, d, e, W, C, N, c) /\ s.threads \ (X \ {x}) \subseteq v.threads
        /\ \A w \in v.threads : w \in s.threads \ (X \ {x}) \/ w.for = "nobody" \/ w.ans = ans
    OBVIOUS
  <2>2. x \in v.threads
    BY <2>1
  <2>3. MayAnswer(x, ans)
    BY DEF ans
  <2> DEFINE next == StartThread(Orphan(v, x), Returned(x, ans))
  <2> HIDE DEF Inv
  <2>4. Core(next, d, e, W, C, N, c) /\ Yields(v, x, ans, next)
    BY <2>1, <2>2, <2>3, LostCore
  <2>5. op(x, v) = next
    BY DEF Disown, Returned, ans
  <2> HIDE DEF op, next
  <2>6. s.threads \ X \subseteq next.threads
    BY <2>1, <2>4 DEF Yields
  <2>7. \A w \in next.threads : w \in s.threads \ X \/ w.for = "nobody" \/ w.ans = ans
    BY <2>1, <2>4 DEF Yields
  <2>8. next \in State
    BY <2>4 DEF Core, Typed
  <2> QED BY <2>4, <2>5, <2>6, <2>7, <2>8 DEF Inv
<1>full. Inv[T] = {u \in State : /\ Core(u, d, e, W, C, N, c) /\ s.threads \ T \subseteq u.threads
                                /\ \A v \in u.threads : v \in s.threads \ T \/ v.for = "nobody" \/ v.ans = ans}
  OBVIOUS
<1> HIDE DEF ans
<1> HIDE DEF op, Inv
<1> DEFINE dom == UNION {Inv[X] : X \in SUBSET T}
           F == [p \in T \X dom |-> op(p[1], p[2])]
           ch == Firsts(T)
           it(g) == g = [X \in SUBSET T |-> IF X = {} THEN s
                           ELSE op(CHOOSE x \in X : TRUE, g[X \ {CHOOSE x \in X : TRUE}])]
           h == CHOOSE g : it(g)
<1>f1. \A X \in SUBSET T : \A x \in X : \A v \in Inv[X \ {x}] : F[<<x, v>>] = op(x, v)
  OBVIOUS
<1>f2. \A X \in SUBSET T : X # {} => ch[X] = (CHOOSE x \in X : TRUE) /\ ch[X] \in X
  BY DEF Firsts
<1> HIDE DEF F, ch
<1>f3. Chooses(ch, T) /\ Steps(F, T, Inv)
  BY <1>step, <1>f1, FirstsChoose DEF Steps, ch
<1>f4. PICK g : Follows(g, T, F, s, ch) /\ Within(g, T, Inv)
  <2> HIDE DEF dom, it, h
  <2> QED BY <1>finite, <1>base, <1>f3, FoldIn
<1>f5. ASSUME NEW X \in SUBSET T
      PROVE  g[X] = IF X = {} THEN s ELSE op(CHOOSE x \in X : TRUE, g[X \ {CHOOSE x \in X : TRUE}])
  <2>1. g[X] = IF X = {} THEN s ELSE F[<<ch[X], g[X \ {ch[X]}]>>]
    BY <1>f4 DEF Follows, StepOf, Rest
  <2>2. CASE X # {}
    <3>1. X \ {ch[X]} \in SUBSET T /\ g[X \ {ch[X]}] \in Inv[X \ {ch[X]}]
      BY <1>f4 DEF Within
    <3>2. F[<<ch[X], g[X \ {ch[X]}]>>] = op(ch[X], g[X \ {ch[X]}])
      BY <1>f1, <1>f2, <2>2, <3>1
    <3> QED BY <1>f2, <2>1, <2>2, <3>2
  <2> QED BY <2>1, <2>2
<1>f6. it(h)
  <2>1. it(g)
    <3>1. g = [X \in SUBSET T |-> g[X]]
      BY <1>f4 DEF Follows
    <3> QED BY <1>f5, <3>1
  <2> HIDE DEF it
  <2> QED BY <2>1
<1> HIDE DEF h
<1>f7. h[{}] = s /\ \A X \in SUBSET T : X # {} => h[X] = op(ch[X], h[X \ {ch[X]}])
  BY <1>f2, <1>f6
<1>f8. h[T] \in Inv[T]
  <2>1. ASSUME NEW X \in SUBSET T, X # {}, h[Rest(X, ch)] \in Inv[Rest(X, ch)] PROVE h[X] \in Inv[X]
    <3>1. op(ch[X], h[X \ {ch[X]}]) \in Inv[X]
      BY <1>step, <1>f2, <2>1 DEF Rest
    <3> QED BY <1>f7, <2>1, <3>1
  <2> QED BY <1>finite, <1>base, <1>f3, <1>f7, <2>1, FoldKeeps
<1>value. FoldSet(LAMBDA t, v : Disown(v, t), s, T) \in Inv[T]
  <2>1. FoldSet(LAMBDA t, v : Disown(v, t), s, T) = h[T]
    BY Zenon DEF FoldSet, MapThenFoldSet, h, it, op
  <2> QED BY <1>f8, <2>1
<1> HIDE DEF F, ch, it, h, dom
<1> QED BY <1>full, <1>value DEF ans

LEMMA ConfirmStep ==
  ASSUME UploadsInv, AccountOK, Confirm
  PROVE  UploadsInv' /\ SentHere /\ AccountOK'
<1> DEFINE T == {t \in m.threads : /\ t.call \in Requests /\ t.for # "nobody" /\ t.ans.is # "lost"
                                   /\ ~ (t.for = "detach" /\ t.ans.is = "done")}
           ans == Ans("account")
<1>1. /\ confirmed' = cookie /\ UNCHANGED <<media, runtimeAccount, cookie, holder, spent>>
      /\ m' = FoldSet(LAMBDA t, u : Disown(u, t), m, T)
  BY DEF Confirm
<1>2. ans.is = "account" /\ 0 \in Nat
  BY AnsFields
<1>3. \A t \in T : MayAnswer(t, ans)
  <2> SUFFICES ASSUME NEW t \in T PROVE MayAnswer(t, ans)
    OBVIOUS
  <2>1. <<t.for, t.call>> \in Pairs /\ t.call \in Requests /\ t.for # "nobody"
        /\ ~ (t.for = "detach" /\ t.ans.is = "done")
    BY UnderWayIs
  <2>3. t.for # "store"
    BY <2>1 DEF Pairs, Requests
  <2>2. "account" \in Answers(t)
    BY <2>1, AnswersOf DEF Requests, Failures
  <2> QED BY <2>1, <2>2, <2>3, AnsAnswers
<1>4. T \subseteq m.threads
  OBVIOUS
<1> DEFINE u == FoldSet(LAMBDA t, v : Disown(v, t), m, T)
<1>5. m' = u
  BY <1>1
<1>6. ASSUME NEW t \in m.threads, t \notin T, Drives(t) PROVE t.ans.is \notin {"under way", "item"}
  <2>1. t.for # "nobody" /\ t.for # "detach" /\ <<t.for, t.call>> \in Pairs
    BY <1>6, UnderWayIs DEF Drives
  <2>2. t.call \in Requests
    BY <1>6, <2>1 DEF Drives, Pairs, Requests
  <2> QED BY <1>6, <2>1, <2>2
<1> HIDE DEF T, ans
<1>7. Core(u, 0, 0, {}, {}, {}, Now)
      /\ \A v \in u.threads : v \in m.threads \ T \/ v.for = "nobody" \/ v.ans = ans
  BY <1>2, <1>3, <1>4, InvCore, DisownedCore DEF ans
<1> HIDE DEF u
<1>8. \A t \in m'.threads : Drives(t) => t.ans.is \notin {"under way", "item"}
  BY <1>2, <1>5, <1>6, <1>7 DEF Drives
<1>9. Fine(m', 0, Now)
  BY <1>5, <1>7 DEF Fine
<1>10. UploadsInv' /\ SentHere
  BY <1>1, <1>8, <1>9, InvCore, ArrivesElsewhere
<1> QED BY <1>1, <1>10 DEF AccountOK

LEMMA AccountStep ==
  ASSUME UploadsInv, AccountOK, Account
  PROVE  UploadsInv' /\ SentHere /\ AccountOK'
BY CookieChangesStep, ConfirmStep, SetAccountStep DEF Account

(* With the names of the items that keep their id, and what that gives. *)
Naming(c, k) == [holder |-> c.holder, detaching |-> c.detaching, sent |-> c.sent, named |-> {k}]
LEMMA NamingFine ==
  ASSUME NEW s, NEW d, NEW c, NEW k, Fine(s, d, c), s.rec[k].item # 0
  PROVE  /\ Fine(s, d, Naming(c, k))
         /\ Naming(c, k).holder = c.holder /\ Naming(c, k).detaching = c.detaching
         /\ Naming(c, k).sent = c.sent
BY NamedCore DEF Fine, Naming

LEMMA NamedFine ==
  ASSUME NEW s, NEW d, NEW c, NEW k \in Keys, Fine(s, d, Naming(c, k)), c.named = {}
  PROVE  s.rec[k].item # 0 /\ Fine(s, d, c)
<1>1. Core(s, d, 0, {}, {}, {}, Naming(c, k))
  BY DEF Fine
<1>2. s.rec[k].item # 0
  BY <1>1 DEF Core, RecordsOK, Naming
<1>3. Core(s, d, 0, {}, {}, {}, c)
  BY <1>1, NamedCore DEF Naming
<1> QED BY <1>2, <1>3 DEF Fine

LEMMA FineSame ==
  ASSUME NEW s, NEW d \in Nat, NEW c, Fine(s, d, c), NEW k \in Keys
  PROVE  /\ Fine(Enqueue(s, k), d, c) /\ Fine(PumpPreprocess(s), d, c) /\ Fine(ResumeUploads(s), d, c)
         /\ Fine(Register(s, k), d, c)
         /\ \A reason \in {"none", "account", "offline"} : Fine(Pause(s, reason), d, c)
         /\ Typed(s) /\ s.rec[k] \in Record
         /\ s.rec[k].server # "absent" => s.rec[k].item # 0
<1>1. Core(s, d, 0, {}, {}, {}, c) /\ 0 \in Nat /\ Typed(s) /\ RecordsOK(s, c)
  BY DEF Fine, Core
<1>2. s.rec[k] \in Record
  BY <1>1, StateFields
<1>3. Fine(Enqueue(s, k), d, c) /\ Fine(PumpPreprocess(s), d, c) /\ Fine(ResumeUploads(s), d, c)
      /\ Fine(Register(s, k), d, c)
  BY <1>1, AppendCore, PumpPreprocessCore, ResumeCore, RegisterCore DEF Fine
<1>4. \A reason \in {"none", "account", "offline"} : Fine(Pause(s, reason), d, c)
  BY <1>1, PauseCore DEF Fine
<1> QED BY <1>1, <1>2, <1>3, <1>4 DEF RecordsOK, RecordOK

(* restartComponent, up to the read *)
LEMMA RestartFine ==
  ASSUME NEW s, NEW d \in Nat, NEW c, Fine(s, d, c), c.named = {}, ~ c.detaching,
         NEW k \in Keys, NEW r \in Roles
  PROVE  Fine(Restart(s, k, r), d, c)
<1> DEFINE c1 == Naming(c, k)
           sent == SetComponent(s, k, r, "queued")
           queued == DerivePhase(sent, k)
           lost == SetComponent(s, k, r, "missing_local")
           why == "restart"
           call == "read"
           note == "draft"
           next == AwaitNoting(queued, why, call, k, r, note)
<1>0. 0 \in Nat /\ "queued" \in ComponentPhase \ {"received"}
      /\ "missing_local" \in ComponentPhase \ {"received"} /\ "account" \in {"none", "account", "offline"}
  BY DEF ComponentPhase
<1>1. Restart(s, k, r) \in {s, DerivePhase(lost, k), Pause(s, "account")}
      \/ (s.rec[k].item # 0 /\ Own /\ Restart(s, k, r) = next)
  BY DEF Restart, Restartable, FailComponent, Await
<1>2. Fine(DerivePhase(lost, k), d, c)
  <2>1. Fine(lost, d, c)
    BY <1>0, FineSteps
  <2> HIDE DEF lost
  <2> QED BY <2>1, FineSteps
<1>3. Fine(Pause(s, "account"), d, c)
  BY <1>0, FineSame
<1>4. ASSUME s.rec[k].item # 0, Own PROVE Fine(next, d, c)
  <2>1. Fine(s, d, c1) /\ c1.holder = c.holder /\ c1.detaching = c.detaching
    BY <1>4, NamingFine
  <2> HIDE DEF c1
  <2>2. Fine(sent, d, c1)
    BY <1>0, <2>1, FineSteps
  <2> HIDE DEF sent
  <2>3. Fine(queued, d, c1)
    BY <2>2, FineSteps
  <2> HIDE DEF queued
  <2>4. queued.rec[k].item # 0 /\ Fine(queued, d, c)
    BY <2>3, NamedFine DEF c1
  <2>5. Core(queued, d, 0, {}, {}, {}, c)
    BY <2>4 DEF Fine
  <2>6. \A u \in queued.threads : u.for # "detach"
    BY <2>5 DEF Core, ThreadsOK, ThreadOK
  <2>7. MayAwait(queued, why, call, k, {}, c) /\ note \in NotesFor(why) /\ why \notin {"prepare", "transfer"}
    BY <1>4, <2>4, <2>6 DEF MayAwait, Pairs, Commands, NotesFor, Rereads
  <2> HIDE DEF why, call, note
  <2>8. Core(next, d, 0, {}, {}, {}, c)
    BY <1>0, <2>5, <2>7, AwaitQuiet
  <2> QED BY <2>8 DEF Fine
<1> HIDE DEF next, lost
<1> QED BY <1>1, <1>2, <1>3, <1>4

LEMMA RestartsFine ==
  ASSUME NEW s, NEW d \in Nat, NEW c, Fine(s, d, c), c.named = {}, ~ c.detaching,
         NEW k \in Keys, NEW R
  PROVE  Fine(ForRoles(LAMBDA u, r : Restart(u, k, r), s, R), d, c)
<1> DEFINE first == IF "still" \in R THEN Restart(s, k, "still") ELSE s
           then == IF "motion" \in R THEN Restart(first, k, "motion") ELSE first
<1>0. "still" \in Roles /\ "motion" \in Roles
  BY DEF Roles
<1>1. Fine(first, d, c)
  BY <1>0, RestartFine
<1> HIDE DEF first
<1>2. Fine(then, d, c)
  BY <1>0, <1>1, RestartFine
<1>3. ForRoles(LAMBDA u, r : Restart(u, k, r), s, R) = then
  BY DEF ForRoles, first
<1> QED BY <1>2, <1>3

LEMMA ReregisterFine ==
  ASSUME NEW s, NEW d \in Nat, NEW c, Fine(s, d, c), NEW k \in Keys
  PROVE  Fine(Reregister(s, k), d, c)
<1> DEFINE y == Changed(s.rec[k], [request |-> 0])
           forgot == Patch(s, k, [request |-> 0])
           waits == Patch(s, k, [phase |-> "waiting", unknown |-> FALSE])
<1>0. Core(s, d, 0, {}, {}, {}, c) /\ s.rec[k] \in Record /\ RecordsOK(s, c) /\ 0 \in 0..MaxRegistrations
  BY FineSame, UploadConstants DEF Fine, Core
<1>1. Fine(forgot, d, c)
  <2>1. Alike(y, s.rec[k]) /\ y.timer = s.rec[k].timer
    BY <1>0, RequestFields
  <2>2. forgot = With(s, k, y)
    BY PatchIsWith
  <2> HIDE DEF y
  <2>3. MayPut(s, k, y, {}, c)
    <3>1. y.phase \in InProgress => y.item # 0
      BY <1>0, <2>1 DEF RecordsOK, RecordOK, Alike, Keeps, InProgress
    <3> QED BY <1>0, <2>1, <3>1, KeepsMayPut DEF Alike
  <2>4. Core(With(s, k, y), d, 0, {}, {}, {}, c)
    BY <1>0, <2>1, <2>3, PutSame DEF Alike
  <2> QED BY <2>2, <2>4 DEF Fine
<1>2. Fine(waits, d, c)
  BY FineSteps
<1>3. Reregister(s, k) \in {s, Register(s, k), Register(forgot, k), PumpPreprocess(Enqueue(waits, k))}
  BY DEF Reregister
<1> HIDE DEF forgot, waits
<1>4. Fine(Enqueue(waits, k), d, c) /\ Fine(Register(forgot, k), d, c) /\ Fine(Register(s, k), d, c)
  BY <1>1, <1>2, FineSame
<1>5. Fine(PumpPreprocess(Enqueue(waits, k)), d, c)
  BY <1>4, FineSame
<1> QED BY <1>3, <1>4, <1>5

LEMMA ContinueItemFine ==
  ASSUME NEW s, NEW d \in Nat, NEW c, Fine(s, d, c), c.named = {}, ~ c.detaching, NEW k \in Keys
  PROVE  Fine(ContinueItem(s, k), d, c)
<1> DEFINE x == s.rec[k]
           waiting == IF x.phase = "waiting" /\ ~ Contains(s.preprocessQueue, k) THEN Enqueue(s, k) ELSE s
           registering == IF x.phase = "failed" /\ x.item = 0 /\ x.unknown THEN Reregister(waiting, k)
                          ELSE waiting
           goesOn(r) == x.comps[r] \in {"paused", "interrupted"}
           first == IF "still" \in RolesOf(k) THEN IF goesOn("still") THEN Restart(registering, k, "still")
                                                   ELSE registering
                    ELSE registering
           then == IF "motion" \in RolesOf(k) THEN IF goesOn("motion") THEN Restart(first, k, "motion")
                                                   ELSE first
                   ELSE first
<1>0. "still" \in Roles /\ "motion" \in Roles
  BY DEF Roles
<1>1. Fine(waiting, d, c)
  BY FineSame
<1>2. ContinueItem(s, k) = then
  BY DEF ContinueItem, ForRoles
<1> HIDE DEF waiting, goesOn
<1>3. Fine(registering, d, c)
  BY <1>1, ReregisterFine
<1> HIDE DEF registering
<1>4. Fine(first, d, c)
  BY <1>0, <1>3, RestartFine
<1> HIDE DEF first
<1>5. Fine(then, d, c)
  BY <1>0, <1>4, RestartFine
<1> QED BY <1>2, <1>5

LEMMA ContinuedFine ==
  ASSUME NEW s, NEW c, Fine(s, 0, c), c.named = {}, ~ c.detaching
  PROVE  Fine(FoldSet(LAMBDA k, u : ContinueItem(u, k), s, Keys), 0, c)
<1> DEFINE op(k, u) == ContinueItem(u, k)
           Inv == [X \in SUBSET Keys |-> {u \in State : Fine(u, 0, c)}]
<1>0. 0 \in Nat /\ \A u : Fine(u, 0, c) => u \in State
  BY DEF Fine, Core, Typed
<1>finite. IsFiniteSet(Keys)
  BY UploadConstants
<1>base. s \in Inv[{}]
  BY <1>0
<1>step. \A X \in SUBSET Keys : \A x \in X : \A v \in Inv[X \ {x}] : op(x, v) \in Inv[X]
  <2> SUFFICES ASSUME NEW X \in SUBSET Keys, NEW x \in X, NEW v \in Inv[X \ {x}]
               PROVE  op(x, v) \in Inv[X]
    OBVIOUS
  <2>1. Fine(v, 0, c) /\ x \in Keys
    OBVIOUS
  <2>2. Fine(op(x, v), 0, c)
    BY <1>0, <2>1, ContinueItemFine
  <2> QED BY <1>0, <2>2
<1>full. \A v \in Inv[Keys] : Fine(v, 0, c)
  OBVIOUS
<1> HIDE DEF op, Inv
<1> DEFINE dom == UNION {Inv[X] : X \in SUBSET Keys}
           F == [p \in Keys \X dom |-> op(p[1], p[2])]
           ch == Firsts(Keys)
           it(g) == g = [X \in SUBSET Keys |-> IF X = {} THEN s
                           ELSE op(CHOOSE x \in X : TRUE, g[X \ {CHOOSE x \in X : TRUE}])]
           h == CHOOSE g : it(g)
<1>f1. \A X \in SUBSET Keys : \A x \in X : \A v \in Inv[X \ {x}] : F[<<x, v>>] = op(x, v)
  OBVIOUS
<1>f2. \A X \in SUBSET Keys : X # {} => ch[X] = (CHOOSE x \in X : TRUE) /\ ch[X] \in X
  BY DEF Firsts
<1> HIDE DEF F, ch
<1>f3. Chooses(ch, Keys) /\ Steps(F, Keys, Inv)
  BY <1>step, <1>f1, FirstsChoose DEF Steps, ch
<1>f4. PICK g : Follows(g, Keys, F, s, ch) /\ Within(g, Keys, Inv)
  <2> HIDE DEF dom, it, h
  <2> QED BY <1>finite, <1>base, <1>f3, FoldIn
<1>f5. ASSUME NEW X \in SUBSET Keys
      PROVE  g[X] = IF X = {} THEN s ELSE op(CHOOSE x \in X : TRUE, g[X \ {CHOOSE x \in X : TRUE}])
  <2>1. g[X] = IF X = {} THEN s ELSE F[<<ch[X], g[X \ {ch[X]}]>>]
    BY <1>f4 DEF Follows, StepOf, Rest
  <2>2. CASE X # {}
    <3>1. X \ {ch[X]} \in SUBSET Keys /\ g[X \ {ch[X]}] \in Inv[X \ {ch[X]}]
      BY <1>f4 DEF Within
    <3>2. F[<<ch[X], g[X \ {ch[X]}]>>] = op(ch[X], g[X \ {ch[X]}])
      BY <1>f1, <1>f2, <2>2, <3>1
    <3> QED BY <1>f2, <2>1, <2>2, <3>2
  <2> QED BY <2>1, <2>2
<1>f6. it(h)
  <2>1. it(g)
    <3>1. g = [X \in SUBSET Keys |-> g[X]]
      BY <1>f4 DEF Follows
    <3> QED BY <1>f5, <3>1
  <2> HIDE DEF it
  <2> QED BY <2>1
<1> HIDE DEF h
<1>f7. h[{}] = s /\ \A X \in SUBSET Keys : X # {} => h[X] = op(ch[X], h[X \ {ch[X]}])
  BY <1>f2, <1>f6
<1>f8. h[Keys] \in Inv[Keys]
  <2>1. ASSUME NEW X \in SUBSET Keys, X # {}, h[Rest(X, ch)] \in Inv[Rest(X, ch)] PROVE h[X] \in Inv[X]
    <3>1. op(ch[X], h[X \ {ch[X]}]) \in Inv[X]
      BY <1>step, <1>f2, <2>1 DEF Rest
    <3> QED BY <1>f7, <2>1, <3>1
  <2> QED BY <1>finite, <1>base, <1>f3, <1>f7, <2>1, FoldKeeps
<1>value. FoldSet(LAMBDA k, u : ContinueItem(u, k), s, Keys) \in Inv[Keys]
  <2>1. FoldSet(LAMBDA k, u : ContinueItem(u, k), s, Keys) = h[Keys]
    BY Zenon DEF FoldSet, MapThenFoldSet, h, it, op
  <2> QED BY <1>f8, <2>1
<1> HIDE DEF F, ch, it, h, dom
<1> QED BY <1>full, <1>value

-----------------------------------------------------------------------------
(* A command of the author. *)
LEMMA CommandedOK ==
  ASSUME AccountOK, Commanded, holder' = holder
  PROVE  AccountOK' /\ confirmed' = confirmed
<1>1. spent' \in [faults : 0..MaxFaults, switches : 0..MaxSwitches, commands : 0..MaxCommands]
  BY SpentOK DEF Commanded
<1> QED BY <1>1 DEF Commanded, AccountOK

LEMMA CommandStep ==
  ASSUME AccountOK, Commanded, holder' = holder, NEW c, Fine(m', 0, c), c.holder = holder,
         c.detaching = (holder = "detaching"), c.sent = m.threads
  PROVE  UploadsInv' /\ SentHere /\ AccountOK'
BY CommandedOK, Arrives

LEMMA AddConfirmedStep ==
  ASSUME UploadsInv, AccountOK, NEW k \in Keys, AddConfirmed(k)
  PROVE  UploadsInv' /\ SentHere /\ AccountOK'
<1> DEFINE waits == Patch(m, k, [phase |-> "waiting"])
<1>1. UNCHANGED <<media, confirmed, runtimeAccount, cookie, holder, spent>>
      /\ m' = PumpPreprocess(Enqueue(waits, k))
  BY DEF AddConfirmed
<1>2. "waiting" \in ItemPhase \ (InProgress \cup Unwanted) /\ {} \ {k} = {} /\ 0 \in Nat
  BY DEF ItemPhase, InProgress, Unwanted
<1>3. Core(waits, 0, 0, {} \ {k}, {}, {}, Now)
  BY <1>2, InvCore, PhaseCore
<1>4. Fine(waits, 0, Now)
  BY <1>2, <1>3 DEF Fine
<1> HIDE DEF waits
<1>5. Fine(Enqueue(waits, k), 0, Now)
  BY <1>2, <1>4, FineSame
<1>6. Fine(m', 0, Now)
  BY <1>1, <1>2, <1>5, FineSame
<1> QED BY <1>1, <1>6, InvCore, Arrives, AccountKept DEF AccountOK

LEMMA ChosenFields ==
  ASSUME NEW x \in Record
  PROVE  LET y == Changed(x, [phase |-> "waiting", original |-> TRUE, prepared |-> FALSE])
         IN y \in Record /\ y.item = x.item /\ y.comps = x.comps /\ y.server = x.server /\ y.phase = "waiting"
BY DEF Changed, Record, ItemPhase

LEMMA ChooseOriginalStep ==
  ASSUME UploadsInv, AccountOK, NEW k \in Keys, ChooseOriginal(k)
  PROVE  UploadsInv' /\ SentHere /\ AccountOK'
<1> DEFINE s == Renew(m, k)
           y == Changed(s.rec[k], [phase |-> "waiting", original |-> TRUE, prepared |-> FALSE])
           chosen == Patch(s, k, [phase |-> "waiting", original |-> TRUE, prepared |-> FALSE])
<1>1. UNCHANGED <<media, confirmed, runtimeAccount, cookie, holder, spent>>
      /\ m' = PumpPreprocess(Enqueue(chosen, k))
  BY DEF ChooseOriginal
<1>2. 0 \in Nat /\ {} \cup {k} = {k} /\ {k} \ {k} = {}
  OBVIOUS
<1>3. Core(s, 0, 0, {} \cup {k}, {}, {}, Now)
  BY <1>2, InvCore, FencedCore
<1> HIDE DEF s
<1>4. Core(s, 0, 0, {k}, {}, {}, Now) /\ s.rec[k] \in Record /\ RecordsOK(s, Now)
  BY <1>2, <1>3, StateFields DEF Core
<1>5. chosen = With(s, k, y)
  BY PatchIsWith
<1>6. /\ y \in Record /\ y.item = s.rec[k].item /\ y.comps = s.rec[k].comps
      /\ y.server = s.rec[k].server /\ y.phase = "waiting"
  BY <1>4, ChosenFields
<1> HIDE DEF y
<1>7. MayPut(s, k, y, {}, Now)
  BY <1>4, <1>6, InvCore DEF MayPut, RecordsOK, RecordOK
<1>8. Core(With(s, k, y), 0, 0, {k} \ {k}, {}, {}, Now)
  BY <1>4, <1>6, <1>7, PutQuiet DEF InProgress, Unwanted
<1>9. Fine(chosen, 0, Now)
  BY <1>2, <1>5, <1>8 DEF Fine
<1> HIDE DEF chosen
<1>10. Fine(Enqueue(chosen, k), 0, Now)
  BY <1>2, <1>9, FineSame
<1>11. Fine(m', 0, Now)
  BY <1>1, <1>2, <1>10, FineSame
<1> QED BY <1>1, <1>11, InvCore, Arrives, AccountKept DEF AccountOK

(* Retries. *)
LEMMA NotSwitching ==
  ASSUME UploadsInv, ~ Switching
  PROVE  ~ Now.detaching /\ Now.named = {}
BY DEF Now, Switching

LEMMA RetryComponentStep ==
  ASSUME UploadsInv, AccountOK, NEW k \in Keys, RetryComponent(k)
  PROVE  UploadsInv' /\ SentHere /\ AccountOK'
<1> DEFINE x == m.rec[k]
           roles == {r \in RolesOf(k) : x.comps[r] \in {"failed", "interrupted"}}
           active == IF Restartable(x) /\ x.prepared /\ Own THEN ResumeUploads(m) ELSE m
<1>1. /\ ~ Switching /\ Commanded /\ holder' = holder
      /\ m' = ForRoles(LAMBDA u, r : Restart(u, k, r), active, roles)
  BY DEF RetryComponent
<1>2. 0 \in Nat /\ Fine(m, 0, Now)
  BY DEF UploadsInv
<1>3. Fine(active, 0, Now)
  BY <1>2, FineSame
<1> HIDE DEF active, roles
<1>4. Fine(m', 0, Now)
  BY <1>1, <1>2, <1>3, NotSwitching, RestartsFine
<1> QED BY <1>1, <1>4, InvCore, CommandStep

LEMMA RetryRegistrationStep ==
  ASSUME UploadsInv, AccountOK, NEW k \in Keys, RetryRegistration(k)
  PROVE  UploadsInv' /\ SentHere /\ AccountOK'
<1>1. Commanded /\ holder' = holder /\ m' = Reregister(m, k)
  BY DEF RetryRegistration
<1>2. Fine(m', 0, Now)
  BY <1>1, ReregisterFine DEF UploadsInv
<1> QED BY <1>1, <1>2, InvCore, CommandStep

LEMMA ContinueUploadsStep ==
  ASSUME UploadsInv, AccountOK, ContinueUploads
  PROVE  UploadsInv' /\ SentHere /\ AccountOK'
<1> DEFINE active == ResumeUploads(m)
           continued == FoldSet(LAMBDA k, u : ContinueItem(u, k), active, Keys)
<1>1. /\ ~ Switching /\ Commanded /\ holder' = holder
      /\ m' = IF Own THEN PumpPreprocess(continued) ELSE Pause(m, "account")
  BY DEF ContinueUploads
<1>2. Core(m, 0, 0, {}, {}, {}, Now) /\ 0 \in Nat /\ "account" \in {"none", "account", "offline"}
  BY InvCore
<1>3. Fine(active, 0, Now)
  BY <1>2, ResumeCore DEF Fine
<1> HIDE DEF active
<1>4. Fine(continued, 0, Now)
  BY <1>1, <1>3, NotSwitching, ContinuedFine
<1> HIDE DEF continued
<1>5. Fine(PumpPreprocess(continued), 0, Now)
  BY <1>2, <1>4, PumpPreprocessCore DEF Fine
<1>6. Fine(Pause(m, "account"), 0, Now)
  BY <1>2, PauseCore DEF Fine
<1>7. Fine(m', 0, Now)
  BY <1>1, <1>5, <1>6
<1> QED BY <1>1, <1>7, InvCore, CommandStep

LEMMA RetryProcessingStep ==
  ASSUME UploadsInv, AccountOK, NEW k \in Keys, RetryProcessing(k)
  PROVE  UploadsInv' /\ SentHere /\ AccountOK'
<1> DEFINE c == Naming(Now, k)
           active == ResumeUploads(m)
           unpolled == StopPolling(active, k)
           goes == Patch(unpolled, k, [phase |-> "queued", unknown |-> FALSE])
           queued == AllTo(goes, k, "queued")
           why == "process"
           call == "reset"
           note == "draft"
           next == AwaitNoting(queued, why, call, k, "still", note)
<1>1. /\ ~ Switching /\ Commanded /\ holder' = holder /\ m.rec[k].server = "failed"
      /\ m' = IF Own THEN Await(SetComponents(goes, k, LAMBDA r : "queued"), why, call, k, "still")
              ELSE Pause(m, "account")
  BY DEF RetryProcessing
<1>2. SetComponents(goes, k, LAMBDA r : "queued") = queued
  <2> HIDE DEF goes
  <2> QED BY DEF SetComponents, AllTo, With, Comps, AllIn
<1>3. m' = IF Own THEN next ELSE Pause(m, "account")
  BY <1>1, <1>2 DEF Await
<1>4. /\ 0 \in Nat /\ Fine(m, 0, Now) /\ {} \cup {k} = {k} /\ {k} \ {k} = {} /\ "still" \in Roles
      /\ "account" \in {"none", "account", "offline"} /\ "queued" \in ComponentPhase \ {"received"}
      /\ "queued" \in ItemPhase \ (InProgress \cup Unwanted)
  BY DEF UploadsInv, ComponentPhase, ItemPhase, InProgress, Unwanted, Roles
<1>5. m.rec[k].item # 0
  BY <1>1, <1>4, FineSame
<1>6. Fine(m, 0, c)
  BY <1>4, <1>5, NamingFine
<1> HIDE DEF c
<1>7. Fine(active, 0, c)
  BY <1>4, <1>6, FineSame
<1> HIDE DEF active
<1>8. Core(unpolled, 0, 0, {} \cup {k}, {}, {}, c)
  BY <1>7, StopPollingCore DEF Fine
<1> HIDE DEF unpolled
<1>9. Core(goes, 0, 0, {k} \ {k}, {}, {}, c)
  <2>1. Core(unpolled, 0, 0, {k}, {}, {}, c)
    BY <1>4, <1>8
  <2> QED BY <1>4, <2>1, FailCore
<1> HIDE DEF goes
<1>10. Fine(queued, 0, c)
  <2>1. Fine(goes, 0, c)
    BY <1>4, <1>9 DEF Fine
  <2> QED BY <1>4, <2>1, FineSteps
<1> HIDE DEF queued
<1>11. queued.rec[k].item # 0 /\ Core(queued, 0, 0, {}, {}, {}, Now)
  <2>1. queued.rec[k].item # 0 /\ Fine(queued, 0, Now)
    BY <1>10, InvCore, NamedFine DEF c
  <2> QED BY <2>1 DEF Fine
<1>12. \A u \in queued.threads : u.for # "detach"
  BY <1>1, <1>11, NotSwitching DEF Core, ThreadsOK, ThreadOK
<1>13. Own => MayAwait(queued, why, call, k, {}, Now)
  BY <1>11, <1>12 DEF MayAwait, Pairs, Commands
<1>14. note \in NotesFor(why) /\ why \notin {"prepare", "transfer"}
  BY DEF NotesFor, Rereads
<1> HIDE DEF why, call, note
<1>15. Own => Core(next, 0, 0, {}, {}, {}, Now)
  BY <1>4, <1>11, <1>13, <1>14, AwaitQuiet
<1> HIDE DEF next
<1>16. Fine(Pause(m, "account"), 0, Now)
  BY <1>4, FineSame
<1>17. Fine(m', 0, Now)
  BY <1>3, <1>15, <1>16 DEF Fine
<1> QED BY <1>1, <1>17, InvCore, CommandStep

(* cancelItem: the item is out of the queues, and shown as being removed.   *)
Unqueued(s, k) ==
    LET quiet == StopPolling(AbortTransfers(Renew(s, k), k), k)
    IN [quiet EXCEPT !.transferQueue = TransfersWithout(@, k), !.preprocessQueue = ItemsWithout(@, k)]
Wiped(s, k) ==
    SetComponents(Patch(Unqueued(s, k), k, [phase |-> "cleanup"]), k,
                  LAMBDA r : IF Unqueued(s, k).rec[k].comps[r] = "received" THEN "received" ELSE "cancelled")

LEMMA UnqueuedCore ==
  ASSUME NEW s, NEW c, Fine(s, 0, c), NEW k \in Keys
  PROVE  Core(Unqueued(s, k), 0, 0, {k}, {}, {}, c)
<1> DEFINE fenced == Renew(s, k)
           aborted == AbortTransfers(fenced, k)
           quiet == StopPolling(aborted, k)
           q == TransfersWithout(quiet.transferQueue, k)
           less == [quiet EXCEPT !.transferQueue = q]
           p == ItemsWithout(less.preprocessQueue, k)
           least == [less EXCEPT !.preprocessQueue = p]
<1>0. 0 \in Nat /\ {} \cup {k} = {k} /\ {k} \cup {k} = {k} /\ Core(s, 0, 0, {}, {}, {}, c)
  BY DEF Fine
<1>1. Core(fenced, 0, 0, {} \cup {k}, {}, {}, c)
  BY <1>0, FencedCore
<1>2. Core(fenced, 0, 0, {k}, {}, {}, c)
  BY <1>0, <1>1
<1> HIDE DEF fenced
<1>3. Core(aborted, 0, 0, {k}, {}, {}, c)
  BY <1>0, <1>2, AbortCore
<1> HIDE DEF aborted
<1>4. Core(quiet, 0, 0, {k} \cup {k}, {}, {}, c)
  BY <1>3, StopPollingCore
<1> HIDE DEF quiet
<1>5. Core(quiet, 0, 0, {k}, {}, {}, c) /\ Typed(quiet)
  BY <1>0, <1>4 DEF Core
<1>6. q \in Seq(Keys \X Roles)
  BY <1>5, StateFields, TransfersKept
<1> HIDE DEF q
<1>7. less.preprocessQueue = quiet.preprocessQueue
  OBVIOUS
<1>12. Core(less, 0, 0, {k}, {}, {}, c)
  BY <1>5, <1>6, QueuesCore
<1>8. less.preprocessQueue \in Seq(Keys)
  BY <1>5, <1>7, StateFields
<1> HIDE DEF less
<1>9. p \in Seq(Keys)
  BY <1>8, KeysKept
<1>10. [quiet EXCEPT !.transferQueue = TransfersWithout(@, k), !.preprocessQueue = ItemsWithout(@, k)] = least
  BY DEF least, less, p, q
<1> HIDE DEF p
<1>11. Core(least, 0, 0, {k}, {}, {}, c)
  BY <1>12, <1>9, QueuesCore
<1> QED BY <1>10, <1>11 DEF Unqueued, quiet, aborted, fenced

LEMMA EndedFine ==
  ASSUME NEW s, NEW c, Fine(s, 0, c), NEW k \in Keys
  PROVE  Fine(Wiped(s, k), 0, c)
<1> DEFINE dropped == Unqueued(s, k)
           x == dropped.rec[k]
           gone == Patch(dropped, k, [phase |-> "cleanup"])
           f == [r \in Roles |-> IF r \in RolesOf(k)
                                 THEN IF x.comps[r] = "received" THEN "received" ELSE "cancelled"
                                 ELSE gone.rec[k].comps[r]]
<1>0. 0 \in Nat /\ {k} \ {k} = {} /\ "cleanup" \in ItemPhase \ (InProgress \cup Unwanted)
  BY DEF ItemPhase, InProgress, Unwanted
<1>1. Core(dropped, 0, 0, {k}, {}, {}, c)
  BY UnqueuedCore
<1>2. Wiped(s, k) = With(gone, k, Comps(gone.rec[k], f))
  <2> HIDE DEF gone
  <2> QED BY DEF Wiped, SetComponents, With, Comps, gone
<1> HIDE DEF dropped
<1>3. Core(gone, 0, 0, {k} \ {k}, {}, {}, c)
      /\ \E y : gone = With(dropped, k, y) /\ Keeps(y, dropped.rec[k]) /\ y.phase = "cleanup"
  BY <1>0, <1>1, PhaseCore
<1>4. gone.rec[k].item = x.item /\ gone.rec[k].comps \in [Roles -> ComponentPhase]
  <2>1. Typed(dropped)
    BY <1>1 DEF Core
  <2>2. PICK y : gone = With(dropped, k, y) /\ Keeps(y, x)
    BY <1>3
  <2> HIDE DEF gone, x
  <2>3. gone.rec[k] = y /\ y \in Record
    BY <2>1, <2>2, WithRecord DEF Keeps
  <2> QED BY <2>2, <2>3, RecordFields DEF Keeps
<1>5. (\E r \in RolesOf(k) : x.comps[r] = "received") => x.item # 0
  BY <1>1 DEF Core, RecordsOK, RecordOK
<1> HIDE DEF gone, x
<1>6. Core(gone, 0, 0, {}, {}, {}, c)
  BY <1>0, <1>3
<1>7. f \in [Roles -> ComponentPhase]
  <2>1. "cancelled" \in ComponentPhase /\ "received" \in ComponentPhase
    BY DEF ComponentPhase
  <2> QED BY <2>1, <1>4
<1>8. (\E r \in RolesOf(k) : f[r] = "received") => gone.rec[k].item # 0
  BY <1>4, <1>5, RolesAre
<1> HIDE DEF f
<1>9. Core(With(gone, k, Comps(gone.rec[k], f)), 0, 0, {}, {}, {}, c)
  BY <1>6, <1>7, <1>8, CompsCore
<1> QED BY <1>2, <1>9 DEF Fine

LEMMA CancelItemStep ==
  ASSUME UploadsInv, AccountOK, NEW k \in Keys, CancelItem(k)
  PROVE  UploadsInv' /\ SentHere /\ AccountOK'
<1> DEFINE s == Wiped(m, k)
           why == "cancel"
           call == "cancel"
           note == "draft"
           asks == AwaitNoting(s, why, call, k, "still", note)
           y == Changed(s.rec[k], [phase |-> "cancelled"])
           gone == ForgetLocalCopy(Patch(s, k, [phase |-> "cancelled"]), k)
<1>1. Commanded /\ holder' = holder /\ m' = IF Cancellable(m.rec[k].item) THEN asks ELSE gone
  BY DEF CancelItem, Removal, Wiped, Unqueued, Await
<1>2. 0 \in Nat /\ "still" \in Roles /\ Fine(m, 0, Now) /\ {} \ {k} = {} /\ "cancelled" \in ItemPhase
      /\ "cancelled" \notin InProgress
  BY DEF Roles, UploadsInv, ItemPhase, InProgress
<1>3. Fine(s, 0, Now)
  BY <1>2, EndedFine
<1>4. m.rec[k].item # 0 => s.rec[k].item # 0
  <2> SUFFICES ASSUME m.rec[k].item # 0 PROVE s.rec[k].item # 0
    OBVIOUS
  <2>1. Fine(s, 0, Naming(Now, k))
    BY <1>2, NamingFine, EndedFine
  <2> HIDE DEF s
  <2> QED BY <2>1, InvCore, NamedFine
<1> HIDE DEF s
<1>5. ASSUME Cancellable(m.rec[k].item) PROVE Fine(asks, 0, Now)
  <2>1. MayAwait(s, why, call, k, {}, Now) /\ note \in NotesFor(why) /\ why \notin {"prepare", "transfer"}
    BY <1>4, <1>5 DEF Cancellable, MayAwait, Pairs, NotesFor, Rereads
  <2>2. Core(s, 0, 0, {}, {}, {}, Now)
    BY <1>3 DEF Fine
  <2> HIDE DEF why, call, note
  <2>3. Core(asks, 0, 0, {}, {}, {}, Now)
    BY <1>2, <2>1, <2>2, AwaitQuiet
  <2> QED BY <2>3 DEF Fine
<1>6. Fine(gone, 0, Now)
  <2>1. Core(s, 0, 0, {}, {}, {}, Now) /\ s.rec[k] \in Record
    BY <1>2, <1>3, FineSame DEF Fine
  <2>2. Patch(s, k, [phase |-> "cancelled"]) = With(s, k, y)
    BY PatchIsWith
  <2>3. Keeps(y, s.rec[k]) /\ y.phase = "cancelled"
    BY <1>2, <2>1, PhaseChanged
  <2> HIDE DEF y
  <2>4. MayPut(s, k, y, {}, Now)
    BY <1>2, <2>1, <2>3, KeepsMayPut
  <2>6. y.phase \notin InProgress
    BY <1>2, <2>3
  <2> HIDE DEF gone, asks
  <2>5. Core(ForgetLocalCopy(With(s, k, y), k), 0, 0, {} \ {k}, {}, {}, Now)
    BY <1>2, <2>1, <2>4, <2>6, PutForgotten
  <2> USE DEF gone
  <2> QED BY <1>2, <2>2, <2>5 DEF Fine
<1> HIDE DEF asks, gone
<1>7. Fine(m', 0, Now)
  BY <1>1, <1>5, <1>6
<1> QED BY <1>1, <1>7, InvCore, CommandStep

-----------------------------------------------------------------------------
(* Where the items are registered changes, and with it what is saved.       *)
Bound(s, saves, changes) == [s EXCEPT !.saving = saves, !.changing = changes]
LEMMA BoundCore ==
  ASSUME NEW s, NEW d, NEW e, NEW W, NEW C, NEW N, NEW c, Core(s, d, e, W, C, N, c),
         NEW c2, c2.sent = c.sent, c2.named = c.named,
         (\E t \in s.threads : t.for = "detach") => c2.detaching,
         c2.holder # "session" => c.holder # "session",
         c.holder \in {"draft", "deleting"} => c2.holder \in {"draft", "deleting"} \/ s.copies = {},
         NEW saves \in BOOLEAN, NEW changes \in BOOLEAN,
         saves <=> c2.holder \in {"draft", "deleting", "cleared"},
         changes <=> c2.holder \in {"deleting", "cleared", "detaching"}
  PROVE  Core(Bound(s, saves, changes), d, e, W, C, N, c2)
<1> DEFINE u == Bound(s, saves, changes)
<1>1. Typed(s) /\ s \in State
  BY DEF Core, Typed
<1>2. /\ u.threads = s.threads /\ u.rec = s.rec /\ u.status = s.status /\ u.copies = s.copies
      /\ u.transferring = s.transferring /\ u.preprocessing = s.preprocessing
  BY DEF Bound
<1>3. u.saving = saves /\ u.changing = changes
  BY <1>1 DEF Bound, State
<1>4. u \in State
  BY <1>1 DEF Bound, State
<1>5. Typed(u)
  BY <1>1, <1>2, <1>4 DEF Typed
<1> HIDE DEF u
<1>6. SlotsOK(u, d, e)
  <2>1. SlotsOK(s, d, e)
    BY DEF Core
  <2> QED BY <1>2, <2>1 DEF SlotsOK, Of
<1>7. ThreadsOK(u, N, c2)
  <2> SUFFICES ASSUME NEW t \in s.threads PROVE ThreadOK(t, N, c2)
    BY <1>2 DEF ThreadsOK
  <2>1. ThreadOK(t, N, c)
    BY DEF Core, ThreadsOK
  <2> QED BY <2>1 DEF ThreadOK
<1>8. DriversOK(u)
  <2>1. DriversOK(s)
    BY DEF Core
  <2> QED BY <1>2, <2>1 DEF DriversOK
<1>9. RecordsOK(u, c2)
  <2>1. RecordsOK(s, c)
    BY DEF Core
  <2> QED BY <1>2, <2>1 DEF RecordsOK
<1>10. WatchOK(u, W, c2)
  <2> SUFFICES ASSUME NEW k \in Keys \ W PROVE Watched(u, k, c2)
    BY DEF WatchOK
  <2>1. Watched(s, k, c)
    BY DEF Core, WatchOK
  <2> QED BY <1>2, <2>1 DEF Watched
<1>11. CopiesOK(u, C, c2)
  <2> SUFFICES ASSUME NEW k \in Keys \ C PROVE Wanted(u, k, c2)
    BY DEF CopiesOK
  <2>1. Wanted(s, k, c)
    BY DEF Core, CopiesOK
  <2> QED BY <1>2, <2>1 DEF Wanted
<1>12. HolderOK(u, c2)
  BY <1>3 DEF HolderOK
<1> QED BY <1>5, <1>6, <1>7, <1>8, <1>9, <1>10, <1>11, <1>12 DEF Core, u

At(h) == [holder |-> h, detaching |-> h = "detaching", sent |-> m.threads, named |-> {}]
LEMMA AtIs ==
  ASSUME NEW h
  PROVE  At(h).holder = h /\ At(h).detaching = (h = "detaching") /\ At(h).sent = m.threads
         /\ At(h).named = {}
BY DEF At

(* disableSaving: everything is paused. *)
Back(s, k) == IF s.rec[k].phase = "registering" THEN Patch(Renew(s, k), k, [phase |-> "waiting"]) ELSE s
LEMMA BackCore ==
  ASSUME NEW s, NEW c, Fine(s, 0, c), NEW k \in Keys
  PROVE  Fine(Back(s, k), 0, c)
<1> DEFINE fenced == Renew(s, k)
<1>1. 0 \in Nat /\ {} \cup {k} = {k} /\ {k} \ {k} = {} /\ "waiting" \in ItemPhase \ (InProgress \cup Unwanted)
  BY DEF ItemPhase, InProgress, Unwanted
<1>2. Core(s, 0, 0, {}, {}, {}, c)
  BY DEF Fine
<1>3. Core(fenced, 0, 0, {} \cup {k}, {}, {}, c)
  BY <1>1, <1>2, FencedCore
<1>4. Core(fenced, 0, 0, {k}, {}, {}, c)
  BY <1>1, <1>3
<1> HIDE DEF fenced
<1>5. Core(Patch(fenced, k, [phase |-> "waiting"]), 0, 0, {k} \ {k}, {}, {}, c)
  BY <1>1, <1>4, PhaseCore
<1> QED BY <1>1, <1>2, <1>5 DEF Back, Fine, fenced

LEMMA BackAllCore ==
  ASSUME NEW s, NEW c, Fine(s, 0, c)
  PROVE  Fine(FoldSet(LAMBDA k, u : Back(u, k), s, Keys), 0, c)
<1> DEFINE op(k, u) == Back(u, k)
           Inv == [X \in SUBSET Keys |-> {u \in State : Fine(u, 0, c)}]
<1>0. 0 \in Nat /\ \A u : Fine(u, 0, c) => u \in State
  BY DEF Fine, Core, Typed
<1>finite. IsFiniteSet(Keys)
  BY UploadConstants
<1>base. s \in Inv[{}]
  BY <1>0
<1>step. \A X \in SUBSET Keys : \A x \in X : \A v \in Inv[X \ {x}] : op(x, v) \in Inv[X]
  <2> SUFFICES ASSUME NEW X \in SUBSET Keys, NEW x \in X, NEW v \in Inv[X \ {x}]
               PROVE  op(x, v) \in Inv[X]
    OBVIOUS
  <2>1. Fine(v, 0, c) /\ x \in Keys
    OBVIOUS
  <2>2. Fine(op(x, v), 0, c)
    BY <1>0, <2>1, BackCore
  <2> QED BY <1>0, <2>2
<1>full. \A v \in Inv[Keys] : Fine(v, 0, c)
  OBVIOUS
<1> HIDE DEF op, Inv
<1> DEFINE dom == UNION {Inv[X] : X \in SUBSET Keys}
           F == [p \in Keys \X dom |-> op(p[1], p[2])]
           ch == Firsts(Keys)
           it(g) == g = [X \in SUBSET Keys |-> IF X = {} THEN s
                           ELSE op(CHOOSE x \in X : TRUE, g[X \ {CHOOSE x \in X : TRUE}])]
           h == CHOOSE g : it(g)
<1>f1. \A X \in SUBSET Keys : \A x \in X : \A v \in Inv[X \ {x}] : F[<<x, v>>] = op(x, v)
  OBVIOUS
<1>f2. \A X \in SUBSET Keys : X # {} => ch[X] = (CHOOSE x \in X : TRUE) /\ ch[X] \in X
  BY DEF Firsts
<1> HIDE DEF F, ch
<1>f3. Chooses(ch, Keys) /\ Steps(F, Keys, Inv)
  BY <1>step, <1>f1, FirstsChoose DEF Steps, ch
<1>f4. PICK g : Follows(g, Keys, F, s, ch) /\ Within(g, Keys, Inv)
  <2> HIDE DEF dom, it, h
  <2> QED BY <1>finite, <1>base, <1>f3, FoldIn
<1>f5. ASSUME NEW X \in SUBSET Keys
      PROVE  g[X] = IF X = {} THEN s ELSE op(CHOOSE x \in X : TRUE, g[X \ {CHOOSE x \in X : TRUE}])
  <2>1. g[X] = IF X = {} THEN s ELSE F[<<ch[X], g[X \ {ch[X]}]>>]
    BY <1>f4 DEF Follows, StepOf, Rest
  <2>2. CASE X # {}
    <3>1. X \ {ch[X]} \in SUBSET Keys /\ g[X \ {ch[X]}] \in Inv[X \ {ch[X]}]
      BY <1>f4 DEF Within
    <3>2. F[<<ch[X], g[X \ {ch[X]}]>>] = op(ch[X], g[X \ {ch[X]}])
      BY <1>f1, <1>f2, <2>2, <3>1
    <3> QED BY <1>f2, <2>1, <2>2, <3>2
  <2> QED BY <2>1, <2>2
<1>f6. it(h)
  <2>1. it(g)
    <3>1. g = [X \in SUBSET Keys |-> g[X]]
      BY <1>f4 DEF Follows
    <3> QED BY <1>f5, <3>1
  <2> HIDE DEF it
  <2> QED BY <2>1
<1> HIDE DEF h
<1>f7. h[{}] = s /\ \A X \in SUBSET Keys : X # {} => h[X] = op(ch[X], h[X \ {ch[X]}])
  BY <1>f2, <1>f6
<1>f8. h[Keys] \in Inv[Keys]
  <2>1. ASSUME NEW X \in SUBSET Keys, X # {}, h[Rest(X, ch)] \in Inv[Rest(X, ch)] PROVE h[X] \in Inv[X]
    <3>1. op(ch[X], h[X \ {ch[X]}]) \in Inv[X]
      BY <1>step, <1>f2, <2>1 DEF Rest
    <3> QED BY <1>f7, <2>1, <3>1
  <2> QED BY <1>finite, <1>base, <1>f3, <1>f7, <2>1, FoldKeeps
<1>value. FoldSet(LAMBDA k, u : Back(u, k), s, Keys) \in Inv[Keys]
  <2>1. FoldSet(LAMBDA k, u : Back(u, k), s, Keys) = h[Keys]
    BY Zenon DEF FoldSet, MapThenFoldSet, h, it, op
  <2> QED BY <1>f8, <2>1
<1> HIDE DEF F, ch, it, h, dom
<1> QED BY <1>full, <1>value

LEMMA BoundIs ==
  ASSUME NEW s, Typed(s), NEW b \in BOOLEAN
  PROVE  /\ [s EXCEPT !.changing = b] = Bound(s, s.saving, b)
         /\ [s EXCEPT !.saving = b] = Bound(s, b, s.changing)
BY DEF Bound, Typed, State

(* What is saved, by where the items are registered. *)
LEMMA BoundNow ==
  ASSUME NEW s, NEW d, NEW e, NEW W, NEW C, NEW N, NEW h, Core(s, d, e, W, C, N, At(h))
  PROVE  /\ s.saving \in BOOLEAN /\ s.changing \in BOOLEAN /\ Typed(s)
         /\ s.saving <=> h \in {"draft", "deleting", "cleared"}
         /\ s.changing <=> h \in {"deleting", "cleared", "detaching"}
BY StateFields, AtIs DEF Core, HolderOK

LEMMA InvAt ==
  ASSUME UploadsInv
  PROVE  Now = At(holder) /\ Fine(m, 0, At(holder)) /\ Core(m, 0, 0, {}, {}, {}, At(holder))
<1>1. Now = At(holder)
  BY DEF Now, At
<1> QED BY <1>1 DEF UploadsInv, Fine

(* The step ends where its holder is. *)
LEMMA ArrivesAt ==
  ASSUME Fine(m', 0, At(holder')), confirmed' = confirmed
  PROVE  UploadsInv' /\ SentHere
<1> DEFINE c == At(holder')
<1>1. c.holder = holder' /\ c.detaching = (holder' = "detaching") /\ c.sent = m.threads
  BY AtIs
<1>2. Fine(m', 0, c)
  OBVIOUS
<1> HIDE DEF c
<1> QED BY <1>1, <1>2, Arrives

LEMMA SuspendStep ==
  ASSUME UploadsInv, AccountOK, Suspend
  PROVE  UploadsInv' /\ SentHere /\ AccountOK'
<1> DEFINE stopped == Pause(m, "offline")
           paused == [stopped EXCEPT !.changing = TRUE]
           back(s, k) == IF s.rec[k].phase = "registering"
                         THEN Patch(Renew(s, k), k, [phase |-> "waiting"]) ELSE s
<1>1. /\ holder = "draft" /\ holder' = "deleting"
      /\ m' = FoldSet(LAMBDA k, u : back(u, k), paused, Keys)
      /\ spent.switches < MaxSwitches /\ spent' = [spent EXCEPT !.switches = @ + 1]
      /\ UNCHANGED <<media, confirmed, runtimeAccount, cookie>>
  BY DEF Suspend
<1>2. FoldSet(LAMBDA k, u : back(u, k), paused, Keys) = FoldSet(LAMBDA k, u : Back(u, k), paused, Keys)
  BY DEF Back
<1>3. AccountOK'
  <2>1. spent' \in [faults : 0..MaxFaults, switches : 0..MaxSwitches, commands : 0..MaxCommands]
    BY <1>1, SpentOK
  <2> QED BY <1>1, <2>1 DEF AccountOK
<1>4. Core(m, 0, 0, {}, {}, {}, At("draft"))
  BY <1>1, InvAt
<1>5. Core(stopped, 0, 0, {}, {}, {}, At("draft"))
  BY <1>4, PauseCore
<1> HIDE DEF stopped
<1>6. Typed(stopped) /\ stopped.saving \in BOOLEAN /\ (stopped.saving <=> "draft" \in {"draft", "deleting", "cleared"})
  BY <1>5, BoundNow
<1>7. paused = Bound(stopped, stopped.saving, TRUE)
  BY <1>6, BoundIs
<1>8. \A t \in stopped.threads : t.for # "detach"
  BY <1>5, AtIs DEF Core, ThreadsOK, ThreadOK
<1> DEFINE c1 == At("draft")
           c2 == At("deleting")
           saves == stopped.saving
<1>9. /\ c1.holder = "draft" /\ c2.holder = "deleting" /\ c2.sent = c1.sent /\ c2.named = c1.named
      /\ Core(stopped, 0, 0, {}, {}, {}, c1) /\ saves \in BOOLEAN /\ saves
      /\ paused = Bound(stopped, saves, TRUE)
  BY <1>5, <1>6, <1>7, AtIs
<1> HIDE DEF c1, c2, saves, paused
<1>10. Core(paused, 0, 0, {}, {}, {}, c2)
  BY <1>8, <1>9, BoundCore
<1>11. Fine(FoldSet(LAMBDA k, u : Back(u, k), paused, Keys), 0, c2)
  BY <1>10, BackAllCore DEF Fine
<1>12. Fine(m', 0, At(holder'))
  BY <1>1, <1>2, <1>11 DEF c2
<1> QED BY <1>1, <1>3, <1>12, ArrivesAt

LEMMA CancelHolderChangeStep ==
  ASSUME UploadsInv, AccountOK, CancelHolderChange
  PROVE  UploadsInv' /\ SentHere /\ AccountOK'
<1> DEFINE kept == [m EXCEPT !.changing = FALSE]
           c1 == At("deleting")
           c2 == At("draft")
           saves == m.saving
<1>1. /\ holder = "deleting" /\ holder' = "draft" /\ m' = kept
      /\ UNCHANGED <<media, confirmed, runtimeAccount, cookie, spent>>
  BY DEF CancelHolderChange
<1>2. Core(m, 0, 0, {}, {}, {}, c1)
  BY <1>1, InvAt
<1>3. Typed(m) /\ saves \in BOOLEAN /\ (saves <=> "deleting" \in {"draft", "deleting", "cleared"})
  BY <1>2, BoundNow
<1>4. kept = Bound(m, saves, FALSE)
  BY <1>3, BoundIs
<1>5. \A t \in m.threads : t.for # "detach"
  BY <1>2, AtIs DEF Core, ThreadsOK, ThreadOK
<1>6. c1.holder = "deleting" /\ c2.holder = "draft" /\ c2.sent = c1.sent /\ c2.named = c1.named /\ saves
  BY <1>3, AtIs
<1> HIDE DEF c1, c2, saves, kept
<1>7. Core(kept, 0, 0, {}, {}, {}, c2)
  BY <1>2, <1>3, <1>4, <1>5, <1>6, BoundCore
<1>8. Fine(m', 0, At(holder'))
  BY <1>1, <1>7 DEF Fine, c2
<1>9. AccountOK'
  BY <1>1 DEF AccountOK
<1> QED BY <1>1, <1>8, <1>9, ArrivesAt

(* Every copy is dropped with its draft. *)
LEMMA NoCopiesCore ==
  ASSUME NEW s, NEW d, NEW e, NEW W, NEW C, NEW N, NEW c, Core(s, d, e, W, C, N, c)
  PROVE  Core([s EXCEPT !.copies = {}], d, e, W, C, N, c) /\ [s EXCEPT !.copies = {}].copies = {}
<1> DEFINE u == [s EXCEPT !.copies = {}]
<1>1. s \in State /\ {} \in SUBSET Keys
  BY DEF Core, Typed
<1>2. u \in State /\ u.copies = {}
  BY <1>1 DEF State
<1>3. /\ u.threads = s.threads /\ u.rec = s.rec /\ u.status = s.status /\ u.saving = s.saving
      /\ u.changing = s.changing /\ u.transferring = s.transferring /\ u.preprocessing = s.preprocessing
  OBVIOUS
<1> HIDE DEF u
<1>4. SlotsOK(u, d, e) /\ WatchOK(u, W, c) /\ HolderOK(u, c)
  BY <1>3 DEF Core, SlotsOK, Of, WatchOK, Watched, HolderOK
<1>5. CopiesOK(u, C, c)
  BY <1>2 DEF CopiesOK, Wanted
<1>6. Core(u, d, e, W, C, N, c)
  BY <1>2, <1>3, <1>4, <1>5, Rebuilt
<1> QED BY <1>2, <1>6 DEF u

LEMMA EndedItemsCore ==
  ASSUME NEW s, NEW c, Fine(s, 0, c), NEW I, I \subseteq ItemIds, s.copies = {}
  PROVE  LET u == FoldSet(LAMBDA i, v : EndStreams(v, i, Roles), s, I)
         IN Fine(u, 0, c) /\ u.copies = {}
<1> DEFINE op(i, u) == EndStreams(u, i, Roles)
           Inv == [X \in SUBSET I |-> {u \in State : Fine(u, 0, c) /\ u.copies = {}}]
<1>0. 0 \in Nat /\ \A u : Fine(u, 0, c) => u \in State
  BY DEF Fine, Core, Typed
<1>finite. IsFiniteSet(I)
  <2>1. MaxRegistrations \in Nat
    BY UploadConstants
  <2>2. IsFiniteSet(ItemIds)
    BY <2>1, FS_Interval DEF ItemIds
  <2> QED BY <2>2, FS_Subset
<1>base. s \in Inv[{}]
  BY <1>0
<1>step. \A X \in SUBSET I : \A x \in X : \A v \in Inv[X \ {x}] : op(x, v) \in Inv[X]
  <2> SUFFICES ASSUME NEW X \in SUBSET I, NEW x \in X, NEW v \in Inv[X \ {x}]
               PROVE  op(x, v) \in Inv[X]
    OBVIOUS
  <2>1. Core(v, 0, 0, {}, {}, {}, c) /\ v.copies = {}
    BY DEF Fine
  <2>2. Core(op(x, v), 0, 0, {}, {}, {}, c) /\ op(x, v).copies = v.copies
    BY <1>0, <2>1, EndStreamsCore
  <2> HIDE DEF op
  <2>3. Fine(op(x, v), 0, c) /\ op(x, v).copies = {}
    BY <2>1, <2>2 DEF Fine
  <2> QED BY <1>0, <2>3
<1>full. \A v \in Inv[I] : Fine(v, 0, c) /\ v.copies = {}
  OBVIOUS
<1> HIDE DEF op, Inv
<1> DEFINE dom == UNION {Inv[X] : X \in SUBSET I}
           F == [p \in I \X dom |-> op(p[1], p[2])]
           ch == Firsts(I)
           it(g) == g = [X \in SUBSET I |-> IF X = {} THEN s
                           ELSE op(CHOOSE x \in X : TRUE, g[X \ {CHOOSE x \in X : TRUE}])]
           h == CHOOSE g : it(g)
<1>f1. \A X \in SUBSET I : \A x \in X : \A v \in Inv[X \ {x}] : F[<<x, v>>] = op(x, v)
  OBVIOUS
<1>f2. \A X \in SUBSET I : X # {} => ch[X] = (CHOOSE x \in X : TRUE) /\ ch[X] \in X
  BY DEF Firsts
<1> HIDE DEF F, ch
<1>f3. Chooses(ch, I) /\ Steps(F, I, Inv)
  BY <1>step, <1>f1, FirstsChoose DEF Steps, ch
<1>f4. PICK g : Follows(g, I, F, s, ch) /\ Within(g, I, Inv)
  <2> HIDE DEF dom, it, h
  <2> QED BY <1>finite, <1>base, <1>f3, FoldIn
<1>f5. ASSUME NEW X \in SUBSET I
      PROVE  g[X] = IF X = {} THEN s ELSE op(CHOOSE x \in X : TRUE, g[X \ {CHOOSE x \in X : TRUE}])
  <2>1. g[X] = IF X = {} THEN s ELSE F[<<ch[X], g[X \ {ch[X]}]>>]
    BY <1>f4 DEF Follows, StepOf, Rest
  <2>2. CASE X # {}
    <3>1. X \ {ch[X]} \in SUBSET I /\ g[X \ {ch[X]}] \in Inv[X \ {ch[X]}]
      BY <1>f4 DEF Within
    <3>2. F[<<ch[X], g[X \ {ch[X]}]>>] = op(ch[X], g[X \ {ch[X]}])
      BY <1>f1, <1>f2, <2>2, <3>1
    <3> QED BY <1>f2, <2>1, <2>2, <3>2
  <2> QED BY <2>1, <2>2
<1>f6. it(h)
  <2>1. it(g)
    <3>1. g = [X \in SUBSET I |-> g[X]]
      BY <1>f4 DEF Follows
    <3> QED BY <1>f5, <3>1
  <2> HIDE DEF it
  <2> QED BY <2>1
<1> HIDE DEF h
<1>f7. h[{}] = s /\ \A X \in SUBSET I : X # {} => h[X] = op(ch[X], h[X \ {ch[X]}])
  BY <1>f2, <1>f6
<1>f8. h[I] \in Inv[I]
  <2>1. ASSUME NEW X \in SUBSET I, X # {}, h[Rest(X, ch)] \in Inv[Rest(X, ch)] PROVE h[X] \in Inv[X]
    <3>1. op(ch[X], h[X \ {ch[X]}]) \in Inv[X]
      BY <1>step, <1>f2, <2>1 DEF Rest
    <3> QED BY <1>f7, <2>1, <3>1
  <2> QED BY <1>finite, <1>base, <1>f3, <1>f7, <2>1, FoldKeeps
<1>value. FoldSet(LAMBDA i, v : EndStreams(v, i, Roles), s, I) \in Inv[I]
  <2>1. FoldSet(LAMBDA i, v : EndStreams(v, i, Roles), s, I) = h[I]
    BY Zenon DEF FoldSet, MapThenFoldSet, h, it, op
  <2> QED BY <1>f8, <2>1
<1> HIDE DEF F, ch, it, h, dom
<1> QED BY <1>full, <1>value

LEMMA DraftDeletedStep ==
  ASSUME UploadsInv, AccountOK, DraftDeleted
  PROVE  UploadsInv' /\ SentHere /\ AccountOK'
<1> DEFINE bare == [m EXCEPT !.copies = {}]
<1>0. PICK kept \in SUBSET {i \in ItemIds : media[i].state = "ready"} :
        LET ended == {i \in ItemIds : media[i].holder = "draft"} \ kept
        IN /\ media' = [i \in ItemIds |-> IF i \in ended THEN CancelledItem(media[i]) ELSE media[i]]
           /\ m' = FoldSet(LAMBDA i, u : EndStreams(u, i, Roles), bare, ended)
  BY DEF DraftDeleted
<1> DEFINE ended == {i \in ItemIds : media[i].holder = "draft"} \ kept
<1>1. /\ holder = "deleting" /\ holder' = "cleared" /\ UNCHANGED <<confirmed, runtimeAccount, cookie, spent>>
      /\ media' = [i \in ItemIds |-> IF i \in ended THEN CancelledItem(media[i]) ELSE media[i]]
      /\ m' = FoldSet(LAMBDA i, u : EndStreams(u, i, Roles), bare, ended)
  BY <1>0 DEF DraftDeleted
<1>2. media' \in [ItemIds -> Item]
  <2>1. \A i \in ItemIds : media[i] \in Item /\ CancelledItem(media[i]) \in Item
    BY CancelledItemIs DEF AccountOK
  <2> QED BY <1>1, <2>1
<1>3. ended \subseteq ItemIds
  OBVIOUS
<1> HIDE DEF ended
<1>4. AccountOK'
  BY <1>1, <1>2 DEF AccountOK
<1>5. Core(m, 0, 0, {}, {}, {}, At("deleting"))
  BY <1>1, InvAt
<1>6. Core(bare, 0, 0, {}, {}, {}, At("deleting")) /\ bare.copies = {}
  BY <1>5, NoCopiesCore
<1> HIDE DEF bare
<1>7. /\ bare.saving \in BOOLEAN /\ (bare.saving <=> "deleting" \in {"draft", "deleting", "cleared"})
      /\ bare.changing \in BOOLEAN /\ (bare.changing <=> "deleting" \in {"deleting", "cleared", "detaching"})
      /\ Typed(bare)
  BY <1>6, BoundNow
<1> DEFINE c1 == At("deleting")
           c2 == At("cleared")
           saves == bare.saving
           changes == bare.changing
<1>8. bare = Bound(bare, saves, changes)
  <2>1. bare \in State
    BY <1>7 DEF Typed
  <2> QED BY <2>1 DEF Bound, State
<1>9. c1.holder = "deleting" /\ c2.holder = "cleared" /\ c2.sent = c1.sent /\ c2.named = c1.named
      /\ Core(bare, 0, 0, {}, {}, {}, c1) /\ saves \in BOOLEAN /\ saves /\ changes \in BOOLEAN /\ changes
  BY <1>6, <1>7, AtIs
<1>10. \A t \in bare.threads : t.for # "detach"
  BY <1>6, AtIs DEF Core, ThreadsOK, ThreadOK
<1> HIDE DEF c1, c2, saves, changes
<1>11. Core(Bound(bare, saves, changes), 0, 0, {}, {}, {}, c2)
  BY <1>6, <1>9, <1>10, BoundCore
<1>12. Fine(bare, 0, c2)
  BY <1>8, <1>11 DEF Fine
<1>13. Fine(FoldSet(LAMBDA i, v : EndStreams(v, i, Roles), bare, ended), 0, c2)
  BY <1>3, <1>6, <1>12, EndedItemsCore
<1>14. Fine(m', 0, At(holder'))
  BY <1>1, <1>13 DEF c2
<1> QED BY <1>1, <1>4, <1>14, ArrivesAt

-----------------------------------------------------------------------------
(* detachFromHolder: everything of an item is fenced. *)
Quieted(s, k) == StopPolling(AbortTransfers(Renew(s, k), k), k)
LEMMA QuietedCore ==
  ASSUME NEW s, NEW W, NEW N, NEW c, Core(s, 0, 0, W, {}, N, c), NEW k \in Keys
  PROVE  Core(Quieted(s, k), 0, 0, W \cup {k}, {}, N \cup {k}, c)
<1> DEFINE fenced == Renew(s, k)
           aborted == AbortTransfers(fenced, k)
           W2 == W \cup {k}
           N2 == N \cup {k}
<1>1. 0 \in Nat /\ Keys \ W2 \subseteq Keys \ W /\ k \in W2 /\ W2 \cup {k} = W2 /\ 0 <= 0
  OBVIOUS
<1> HIDE DEF W2
<1>2. Core(s, 0, 0, W2, {}, N, c)
  BY <1>1, Weaken
<1>3. Core(fenced, 0, 0, W2, {}, N2, c)
  BY <1>1, <1>2, RenewCore
<1> HIDE DEF fenced, N2
<1>4. Core(aborted, 0, 0, W2, {}, N2, c)
  BY <1>1, <1>3, AbortCore
<1> HIDE DEF aborted
<1>5. Core(StopPolling(aborted, k), 0, 0, W2 \cup {k}, {}, N2, c)
  BY <1>4, StopPollingCore
<1> QED BY <1>1, <1>5 DEF Quieted, aborted, fenced, W2, N2

LEMMA QuietedAllCore ==
  ASSUME NEW s, NEW c, Fine(s, 0, c), NEW K, K \subseteq Keys
  PROVE  Core(FoldSet(LAMBDA k, u : Quieted(u, k), s, K), 0, 0, K, {}, K, c)
<1> DEFINE op(k, u) == Quieted(u, k)
           Inv == [X \in SUBSET K |-> {u \in State : Core(u, 0, 0, X, {}, X, c)}]
<1>0. \A u : \A X : Core(u, 0, 0, X, {}, X, c) => u \in State
  BY DEF Core, Typed
<1>finite. IsFiniteSet(K)
  BY UploadConstants, FS_Subset
<1>base. s \in Inv[{}]
  BY <1>0 DEF Fine
<1>step. \A X \in SUBSET K : \A x \in X : \A v \in Inv[X \ {x}] : op(x, v) \in Inv[X]
  <2> SUFFICES ASSUME NEW X \in SUBSET K, NEW x \in X, NEW v \in Inv[X \ {x}]
               PROVE  op(x, v) \in Inv[X]
    OBVIOUS
  <2> DEFINE Y == X \ {x}
  <2>1. Core(v, 0, 0, Y, {}, Y, c) /\ x \in Keys /\ Y \cup {x} = X
    OBVIOUS
  <2> HIDE DEF Y
  <2>2. Core(op(x, v), 0, 0, Y \cup {x}, {}, Y \cup {x}, c)
    BY <2>1, QuietedCore
  <2> QED BY <1>0, <2>1, <2>2
<1>full. \A v \in Inv[K] : Core(v, 0, 0, K, {}, K, c)
  OBVIOUS
<1> HIDE DEF op, Inv
<1> DEFINE dom == UNION {Inv[X] : X \in SUBSET K}
           F == [p \in K \X dom |-> op(p[1], p[2])]
           ch == Firsts(K)
           it(g) == g = [X \in SUBSET K |-> IF X = {} THEN s
                           ELSE op(CHOOSE x \in X : TRUE, g[X \ {CHOOSE x \in X : TRUE}])]
           h == CHOOSE g : it(g)
<1>f1. \A X \in SUBSET K : \A x \in X : \A v \in Inv[X \ {x}] : F[<<x, v>>] = op(x, v)
  OBVIOUS
<1>f2. \A X \in SUBSET K : X # {} => ch[X] = (CHOOSE x \in X : TRUE) /\ ch[X] \in X
  BY DEF Firsts
<1> HIDE DEF F, ch
<1>f3. Chooses(ch, K) /\ Steps(F, K, Inv)
  BY <1>step, <1>f1, FirstsChoose DEF Steps, ch
<1>f4. PICK g : Follows(g, K, F, s, ch) /\ Within(g, K, Inv)
  <2> HIDE DEF dom, it, h
  <2> QED BY <1>finite, <1>base, <1>f3, FoldIn
<1>f5. ASSUME NEW X \in SUBSET K
      PROVE  g[X] = IF X = {} THEN s ELSE op(CHOOSE x \in X : TRUE, g[X \ {CHOOSE x \in X : TRUE}])
  <2>1. g[X] = IF X = {} THEN s ELSE F[<<ch[X], g[X \ {ch[X]}]>>]
    BY <1>f4 DEF Follows, StepOf, Rest
  <2>2. CASE X # {}
    <3>1. X \ {ch[X]} \in SUBSET K /\ g[X \ {ch[X]}] \in Inv[X \ {ch[X]}]
      BY <1>f4 DEF Within
    <3>2. F[<<ch[X], g[X \ {ch[X]}]>>] = op(ch[X], g[X \ {ch[X]}])
      BY <1>f1, <1>f2, <2>2, <3>1
    <3> QED BY <1>f2, <2>1, <2>2, <3>2
  <2> QED BY <2>1, <2>2
<1>f6. it(h)
  <2>1. it(g)
    <3>1. g = [X \in SUBSET K |-> g[X]]
      BY <1>f4 DEF Follows
    <3> QED BY <1>f5, <3>1
  <2> HIDE DEF it
  <2> QED BY <2>1
<1> HIDE DEF h
<1>f7. h[{}] = s /\ \A X \in SUBSET K : X # {} => h[X] = op(ch[X], h[X \ {ch[X]}])
  BY <1>f2, <1>f6
<1>f8. h[K] \in Inv[K]
  <2>1. ASSUME NEW X \in SUBSET K, X # {}, h[Rest(X, ch)] \in Inv[Rest(X, ch)] PROVE h[X] \in Inv[X]
    <3>1. op(ch[X], h[X \ {ch[X]}]) \in Inv[X]
      BY <1>step, <1>f2, <2>1 DEF Rest
    <3> QED BY <1>f7, <2>1, <3>1
  <2> QED BY <1>finite, <1>base, <1>f3, <1>f7, <2>1, FoldKeeps
<1>value. FoldSet(LAMBDA k, u : Quieted(u, k), s, K) \in Inv[K]
  <2>1. FoldSet(LAMBDA k, u : Quieted(u, k), s, K) = h[K]
    BY Zenon DEF FoldSet, MapThenFoldSet, h, it, op
  <2> QED BY <1>f8, <2>1
<1> HIDE DEF F, ch, it, h, dom
<1> QED BY <1>full, <1>value

(* The item is read; one that was never registered needs no answer.         *)
Asking(s, k) == [for |-> "detach", call |-> "read", key |-> k, role |-> "still", item |-> s.rec[k].item,
                 alive |-> TRUE, note |-> "draft", ans |-> UnderWay, no |-> 0]
Asked(s, k) == LET asked == Await(s, "detach", "read", k, "still")
                   mine == CHOOSE t \in asked.threads \ s.threads : TRUE
               IN IF s.rec[k].item # 0 THEN asked
                  ELSE StartThread(s, [mine EXCEPT !.ans = Ans("done")])
Reading(s, k) == \E t \in s.threads : t.key = k /\ t.alive /\ t.for = "detach"
LEMMA ReadingCore ==
  ASSUME NEW s, NEW W, NEW N, NEW c, Core(s, 0, 0, W, {}, N, c), NEW k \in Keys, Reading(s, k)
  PROVE  Core(s, 0, 0, W \ {k}, {}, N, c)
<1>1. Watched(s, k, c)
  BY DEF Watched, Reading
<1>2. \A j \in Keys \ (W \ {k}) : j \notin W \/ Watched(s, j, c)
  BY <1>1
<1>3. \A j \in Keys \ {} : j \notin {} \/ Wanted(s, j, c)
  OBVIOUS
<1> QED BY <1>2, <1>3, Discharge

LEMMA PseudoCore ==
  ASSUME NEW s, NEW W, NEW N, NEW c, Core(s, 0, 0, W, {}, N, c), c.detaching, NEW k \in Keys, k \in N,
         s.rec[k].item = 0
  PROVE  Core(Asked(s, k), 0, 0, W, {}, N, c) /\ Reading(Asked(s, k), k)
<1> DEFINE t0 == Asking(s, k)
           asked == Await(s, "detach", "read", k, "still")
           mine == CHOOSE t \in asked.threads \ s.threads : TRUE
           done == [mine EXCEPT !.ans = Ans("done")]
<1>0. 0 \in Nat /\ Typed(s) /\ Asked(s, k) = StartThread(s, done)
  BY DEF Core, Asked
<1>1. asked = StartThread(s, t0)
  BY DEF Await, AwaitNoting, Asking
<1>2. UnderWay \in CallAnswer /\ Ans("done") \in CallAnswer /\ Ans("done").is = "done"
  BY AnsFields DEF UnderWay
<1>3. /\ t0.for = "detach" /\ t0.call = "read" /\ t0.key = k /\ t0.role = "still" /\ t0.item = s.rec[k].item
      /\ t0.alive = TRUE /\ t0.note = "draft"
  BY DEF Asking
<1>4. t0 \in Thread
  <2>1. "still" \in Roles
    BY RolesAre
  <2>2. s.rec[k].item \in 0..MaxRegistrations
    BY <1>0, StateFields, RecordFields
  <2> QED BY <1>2, <2>1, <2>2 DEF Asking, Thread
<1> HIDE DEF t0
<1>5. PICK n \in Nat : LET new == [t0 EXCEPT !.no = n]
                       IN /\ StartThread(s, t0) = Threads(s, s.threads \cup {new})
                          /\ new \in Thread /\ new \notin s.threads
  BY <1>0, <1>4, Started
<1> DEFINE new == [t0 EXCEPT !.no = n]
<1>6. asked = Threads(s, s.threads \cup {new}) /\ new \in Thread /\ new \notin s.threads
  BY <1>1, <1>5
<1>7. /\ new.for = "detach" /\ new.call = "read" /\ new.key = k /\ new.item = 0
      /\ new.alive = TRUE /\ new.note = "draft"
  BY <1>3, <1>4 DEF Thread
<1> HIDE DEF new, asked
<1>8. mine = new
  <2>1. asked.threads = s.threads \cup {new}
    BY <1>0, <1>6, StateFields DEF Threads, State
  <2>2. asked.threads \ s.threads = {new}
    BY <1>6, <2>1
  <2> QED BY <2>2
<1> HIDE DEF mine
<1>9. /\ done \in Thread /\ done.for = "detach" /\ done.call = "read" /\ done.key = k /\ done.item = 0
      /\ done.alive = TRUE /\ done.note = "draft" /\ done.ans.is = "done"
  BY <1>2, <1>6, <1>7, <1>8 DEF Thread
<1> HIDE DEF done
<1>10. Shape(done)
  <2>1. "done" \in Answers(done)
    BY <1>9 DEF Answers
  <2>2. <<done.for, done.call>> \in Pairs
    BY <1>9 DEF Pairs
  <2>3. done.note \in NotesFor(done.for) /\ Nameless(done) /\ done.for \in ActsWhenStale
    BY <1>9 DEF NotesFor, Rereads, Nameless, ActsWhenStale
  <2> QED BY <1>9, <2>1, <2>2, <2>3 DEF Shape
<1>11. MayStart(s, done, N, c)
  <2>1. ~ Drives(done) /\ ~ IsSent(done)
    BY <1>9 DEF Drives, IsSent, Commands
  <2> QED BY <1>9, <1>10, <2>1 DEF MayStart, ThreadOK
<1>12. 0 = Owed(0, done, "prepare") /\ 0 = Owed(0, done, "transfer")
  BY <1>9 DEF Owed
<1>13. Core(StartThread(s, done), 0, 0, W, {}, N, c) /\ Adds(s, done, StartThread(s, done))
  BY <1>0, <1>9, <1>11, <1>12, StartCore
<1>14. Reading(StartThread(s, done), k)
  BY <1>9, <1>13 DEF Adds, Renumbers, Reading
<1> QED BY <1>0, <1>13, <1>14

LEMMA AskedCore ==
  ASSUME NEW s, NEW W, NEW N, NEW c, Core(s, 0, 0, W, {}, N, c), c.detaching, NEW k \in Keys, k \in N
  PROVE  Core(Asked(s, k), 0, 0, W \ {k}, {}, N, c)
<1>1. ASSUME s.rec[k].item # 0
      PROVE  Core(Asked(s, k), 0, 0, W, {}, N, c) /\ Reading(Asked(s, k), k)
  <2> DEFINE why == "detach"
             call == "read"
             note == "draft"
  <2>1. 0 \in Nat /\ note \in NotesFor(why) /\ why \notin {"prepare", "transfer"} /\ "still" \in Roles
    BY RolesAre DEF NotesFor, Rereads
  <2>2. MayAwait(s, why, call, k, N, c)
    BY <1>1 DEF MayAwait, Pairs, Commands
  <2>3. Asked(s, k) = AwaitNoting(s, why, call, k, "still", note)
    BY <1>1 DEF Asked, Await
  <2>4. why = "detach"
    OBVIOUS
  <2> HIDE DEF why, call, note
  <2>5. /\ Core(AwaitNoting(s, why, call, k, "still", note), 0, 0, W, {}, N, c)
        /\ NowAwaits(s, AwaitNoting(s, why, call, k, "still", note), why, call, k)
    BY <2>1, <2>2, AwaitQuiet
  <2>6. Reading(AwaitNoting(s, why, call, k, "still", note), k)
    BY <2>4, <2>5 DEF NowAwaits, Reading
  <2> QED BY <2>3, <2>5, <2>6
<1>2. ASSUME s.rec[k].item = 0
      PROVE  Core(Asked(s, k), 0, 0, W, {}, N, c) /\ Reading(Asked(s, k), k)
  BY <1>2, PseudoCore
<1> QED BY <1>1, <1>2, ReadingCore

LEMMA AskedAllCore ==
  ASSUME NEW s, NEW K, K \subseteq Keys, NEW c, Core(s, 0, 0, K, {}, K, c), c.detaching
  PROVE  Core(FoldSet(LAMBDA k, u : Asked(u, k), s, K), 0, 0, {}, {}, {}, c)
<1> DEFINE op(k, u) == Asked(u, k)
           Inv == [X \in SUBSET K |-> {u \in State : Core(u, 0, 0, K \ X, {}, K, c)}]
<1>0. \A u : \A X : Core(u, 0, 0, X, {}, K, c) => u \in State
  BY DEF Core, Typed
<1>finite. IsFiniteSet(K)
  BY UploadConstants, FS_Subset
<1>base. s \in Inv[{}]
  <2>1. K \ {} = K
    OBVIOUS
  <2> QED BY <1>0, <2>1
<1>step. \A X \in SUBSET K : \A x \in X : \A v \in Inv[X \ {x}] : op(x, v) \in Inv[X]
  <2> SUFFICES ASSUME NEW X \in SUBSET K, NEW x \in X, NEW v \in Inv[X \ {x}]
               PROVE  op(x, v) \in Inv[X]
    OBVIOUS
  <2> DEFINE Y == K \ (X \ {x})
  <2>1. Core(v, 0, 0, Y, {}, K, c) /\ x \in Keys /\ x \in K /\ Y \ {x} = K \ X
    OBVIOUS
  <2> HIDE DEF Y
  <2>2. Core(op(x, v), 0, 0, Y \ {x}, {}, K, c)
    BY <2>1, AskedCore
  <2> QED BY <1>0, <2>1, <2>2
<1>full. \A v \in Inv[K] : Core(v, 0, 0, {}, {}, K, c)
  <2>1. K \ K = {}
    OBVIOUS
  <2> QED BY <2>1
<1> HIDE DEF op, Inv
<1> DEFINE dom == UNION {Inv[X] : X \in SUBSET K}
           F == [p \in K \X dom |-> op(p[1], p[2])]
           ch == Firsts(K)
           it(g) == g = [X \in SUBSET K |-> IF X = {} THEN s
                           ELSE op(CHOOSE x \in X : TRUE, g[X \ {CHOOSE x \in X : TRUE}])]
           h == CHOOSE g : it(g)
<1>f1. \A X \in SUBSET K : \A x \in X : \A v \in Inv[X \ {x}] : F[<<x, v>>] = op(x, v)
  OBVIOUS
<1>f2. \A X \in SUBSET K : X # {} => ch[X] = (CHOOSE x \in X : TRUE) /\ ch[X] \in X
  BY DEF Firsts
<1> HIDE DEF F, ch
<1>f3. Chooses(ch, K) /\ Steps(F, K, Inv)
  BY <1>step, <1>f1, FirstsChoose DEF Steps, ch
<1>f4. PICK g : Follows(g, K, F, s, ch) /\ Within(g, K, Inv)
  <2> HIDE DEF dom, it, h
  <2> QED BY <1>finite, <1>base, <1>f3, FoldIn
<1>f5. ASSUME NEW X \in SUBSET K
      PROVE  g[X] = IF X = {} THEN s ELSE op(CHOOSE x \in X : TRUE, g[X \ {CHOOSE x \in X : TRUE}])
  <2>1. g[X] = IF X = {} THEN s ELSE F[<<ch[X], g[X \ {ch[X]}]>>]
    BY <1>f4 DEF Follows, StepOf, Rest
  <2>2. CASE X # {}
    <3>1. X \ {ch[X]} \in SUBSET K /\ g[X \ {ch[X]}] \in Inv[X \ {ch[X]}]
      BY <1>f4 DEF Within
    <3>2. F[<<ch[X], g[X \ {ch[X]}]>>] = op(ch[X], g[X \ {ch[X]}])
      BY <1>f1, <1>f2, <2>2, <3>1
    <3> QED BY <1>f2, <2>1, <2>2, <3>2
  <2> QED BY <2>1, <2>2
<1>f6. it(h)
  <2>1. it(g)
    <3>1. g = [X \in SUBSET K |-> g[X]]
      BY <1>f4 DEF Follows
    <3> QED BY <1>f5, <3>1
  <2> HIDE DEF it
  <2> QED BY <2>1
<1> HIDE DEF h
<1>f7. h[{}] = s /\ \A X \in SUBSET K : X # {} => h[X] = op(ch[X], h[X \ {ch[X]}])
  BY <1>f2, <1>f6
<1>f8. h[K] \in Inv[K]
  <2>1. ASSUME NEW X \in SUBSET K, X # {}, h[Rest(X, ch)] \in Inv[Rest(X, ch)] PROVE h[X] \in Inv[X]
    <3>1. op(ch[X], h[X \ {ch[X]}]) \in Inv[X]
      BY <1>step, <1>f2, <2>1 DEF Rest
    <3> QED BY <1>f7, <2>1, <3>1
  <2> QED BY <1>finite, <1>base, <1>f3, <1>f7, <2>1, FoldKeeps
<1>value. FoldSet(LAMBDA k, u : Asked(u, k), s, K) \in Inv[K]
  <2>1. FoldSet(LAMBDA k, u : Asked(u, k), s, K) = h[K]
    BY Zenon DEF FoldSet, MapThenFoldSet, h, it, op
  <2> QED BY <1>f8, <2>1
<1> HIDE DEF F, ch, it, h, dom
<1> DEFINE all == FoldSet(LAMBDA k, u : Asked(u, k), s, K)
<1>last. Core(all, 0, 0, {}, {}, K, c)
  BY <1>full, <1>value
<1> HIDE DEF all
<1>less. 0 \in Nat /\ 0 <= 0 /\ {} \subseteq K /\ Keys \ {} \subseteq Keys \ {}
  OBVIOUS
<1>all. Core(all, 0, 0, {}, {}, {}, c)
  BY <1>last, <1>less, Weaken
<1> QED BY <1>all DEF all

LEMMA DetachStep ==
  ASSUME UploadsInv, AccountOK, Detach
  PROVE  UploadsInv' /\ SentHere /\ AccountOK'
<1> DEFINE unbound == [m EXCEPT !.saving = FALSE]
           fenced == FoldSet(LAMBDA k, u : Quieted(u, k), unbound, Tracked)
           empty == [fenced EXCEPT !.transferQueue = <<>>, !.preprocessQueue = <<>>]
           half == [fenced EXCEPT !.transferQueue = <<>>]
<1>1. /\ holder = "cleared" /\ holder' = "detaching"
      /\ m' = FoldSet(LAMBDA k, u : Asked(u, k), empty, Tracked)
      /\ UNCHANGED <<media, confirmed, runtimeAccount, cookie, spent>>
  BY DEF Detach, Quieted, Asked
<1>2. AccountOK'
  BY <1>1 DEF AccountOK
<1> DEFINE c1 == At("cleared")
           c2 == At("detaching")
           changes == m.changing
<1>3. Core(m, 0, 0, {}, {}, {}, c1)
  BY <1>1, InvAt
<1>4. Typed(m) /\ changes \in BOOLEAN /\ (changes <=> "cleared" \in {"deleting", "cleared", "detaching"})
  BY <1>3, BoundNow
<1>5. unbound = Bound(m, FALSE, changes)
  BY <1>4, BoundIs
<1>6. c1.holder = "cleared" /\ c2.holder = "detaching" /\ c2.sent = c1.sent /\ c2.named = c1.named
      /\ changes /\ c2.detaching
  BY <1>4, AtIs
<1>7. Tracked \subseteq Keys
  BY DEF Tracked
<1> HIDE DEF c1, c2, changes, unbound
<1>8. Core(unbound, 0, 0, {}, {}, {}, c2)
  BY <1>3, <1>4, <1>5, <1>6, BoundCore
<1>9. Core(fenced, 0, 0, Tracked, {}, Tracked, c2)
  BY <1>7, <1>8, QuietedAllCore DEF Fine
<1> HIDE DEF fenced
<1>10. empty = [half EXCEPT !.preprocessQueue = <<>>]
  OBVIOUS
<1>11. Core(half, 0, 0, Tracked, {}, Tracked, c2)
  <2>1. <<>> \in Seq(Keys \X Roles)
    OBVIOUS
  <2> QED BY <1>9, <2>1, QueuesCore
<1> HIDE DEF half
<1>12. Core(empty, 0, 0, Tracked, {}, Tracked, c2)
  <2>1. <<>> \in Seq(Keys)
    OBVIOUS
  <2> QED BY <1>10, <1>11, <2>1, QueuesCore
<1> HIDE DEF empty
<1>13. Core(FoldSet(LAMBDA k, u : Asked(u, k), empty, Tracked), 0, 0, {}, {}, {}, c2)
  BY <1>6, <1>7, <1>12, AskedAllCore
<1>14. Fine(m', 0, At(holder'))
  BY <1>1, <1>13 DEF c2, Fine
<1> QED BY <1>1, <1>2, <1>14, ArrivesAt

(* The reads to detach have all been answered. *)
Without(s, T) == [s EXCEPT !.threads = @ \ T]
LEMMA WithoutCore ==
  ASSUME NEW s, NEW c, Fine(s, 0, c), NEW T, T = Of(s, "detach"), NEW N, N = {t.key : t \in T},
         NEW c2, c2.holder = c.holder, c2.sent = c.sent, c2.named = c.named
  PROVE  Core(Without(s, T), 0, 0, Keys, {}, N, c2)
<1> DEFINE S == s.threads \ T
           u == Without(s, T)
<1>1. Core(s, 0, 0, {}, {}, {}, c) /\ Typed(s) /\ IsFiniteSet(s.threads) /\ s.threads \subseteq Thread
  BY StateFields DEF Fine, Core
<1>2. u = Threads(s, S)
  BY DEF Without, Threads
<1>3. IsFiniteSet(S) /\ S \subseteq Thread /\ \A t \in S : t \in s.threads /\ t.for # "detach"
  BY <1>1, FS_Subset DEF Of
<1>4. Typed(u) /\ u.threads = S
  BY <1>1, <1>2, <1>3, ThreadsState
<1>5. /\ u.status = s.status /\ u.rec = s.rec /\ u.copies = s.copies /\ u.saving = s.saving
      /\ u.changing = s.changing /\ u.transferring = s.transferring /\ u.preprocessing = s.preprocessing
  BY <1>2, ThreadsSame
<1>6. SlotsOK(u, 0, 0)
  <2>1. SlotsOK(s, 0, 0)
    BY <1>1 DEF Core
  <2>2. Of(u, "transfer") = Of(s, "transfer") /\ Of(u, "prepare") = Of(s, "prepare")
    BY <1>4 DEF Of
  <2> QED BY <1>5, <2>1, <2>2 DEF SlotsOK
<1>7. ThreadsOK(u, N, c2)
  <2> SUFFICES ASSUME NEW t \in S PROVE ThreadOK(t, N, c2)
    BY <1>4 DEF ThreadsOK
  <2>1. ThreadOK(t, {}, c)
    BY <1>1, <1>3 DEF Core, ThreadsOK
  <2>2. Drives(t) => t.key \notin N
    BY <1>1, <1>3 DEF Core, DriversOK, Of
  <2> QED BY <1>3, <2>1, <2>2 DEF ThreadOK
<1>8. DriversOK(u)
  BY <1>1, <1>3, <1>4, <1>5 DEF Core, DriversOK
<1>9. RecordsOK(u, c2) /\ HolderOK(u, c2)
  BY <1>1, <1>5 DEF Core, RecordsOK, HolderOK
<1>10. CopiesOK(u, {}, c2)
  <2> SUFFICES ASSUME NEW k \in Keys, k \in s.copies PROVE Wanted(u, k, c2)
    BY <1>5 DEF CopiesOK, Wanted
  <2>1. Wanted(s, k, c)
    BY <1>1 DEF Core, CopiesOK
  <2>2. \A t \in s.threads : t.for = "store" => t \in u.threads
    BY <1>4 DEF Of
  <2> QED BY <1>5, <2>1, <2>2 DEF Wanted
<1>11. WatchOK(u, Keys, c2)
  BY DEF WatchOK
<1> QED BY <1>4, <1>6, <1>7, <1>8, <1>9, <1>10, <1>11 DEF Core

LEMMA DraftMayPut ==
  ASSUME NEW s, NEW d, NEW e, NEW W, NEW C, NEW N, NEW c, Core(s, d, e, W, C, N, c),
         NEW k \in Keys, NEW y, Alike(y, s.rec[k])
  PROVE  MayPut(s, k, y, N, c)
<1>1. Keeps(y, s.rec[k]) /\ y.phase = s.rec[k].phase /\ y.item = s.rec[k].item
  BY DEF Alike, Keeps
<1>2. RecordOK(k, s.rec[k])
  BY DEF Core, RecordsOK
<1>3. y.phase \in InProgress => y.item # 0
  BY <1>1, <1>2 DEF RecordOK, InProgress
<1> QED BY <1>1, <1>3, KeepsMayPut

LEMMA DetachItemCore ==
  ASSUME NEW s, NEW N, NEW c, Core(s, 0, 0, Keys, {}, N, c), NEW t \in Thread, Shape(t),
         t.for = "detach", t.key \in N, c.named = {}
  PROVE  Core(DetachItem(s, t), 0, 0, Keys, {}, N, c)
<1> DEFINE k == t.key
           y == Changed(s.rec[k], [draft |-> FALSE])
           bare == Patch(s, k, [draft |-> FALSE])
           anew == Patch(s, k, [item |-> 0, request |-> 0, server |-> "absent", draft |-> FALSE,
                                phase |-> "waiting", unknown |-> FALSE])
           again == SetComponents(anew, k, LAMBDA r : "preparing")
           kept == ApplyServerItem(bare, k, t.item, t.ans.item, {})
<1>0. 0 \in Nat /\ k \in Keys /\ t.item \in 0..MaxRegistrations /\ t.ans.item \in Item /\ k \notin c.named
      /\ "preparing" \in ComponentPhase /\ "preparing" # "received" /\ Typed(s) /\ s.rec[k] \in Record
  BY ThreadFields, StateFields DEF ComponentPhase, Core
<1>1. ASSUME t.ans.is = "item" PROVE Core(kept, 0, 0, Keys, {}, N, c)
  <2>1. t.item \in 1..MaxRegistrations
    <3>1. t.item # 0
      BY <1>1 DEF Shape, Nameless, Pairs
    <3>2. MaxRegistrations \in Nat
      BY UploadConstants
    <3> QED BY <1>0, <3>1, <3>2
  <2>2. bare = With(s, k, y)
    BY PatchIsWith
  <2>3. Alike(y, s.rec[k]) /\ y.timer = s.rec[k].timer
    BY <1>0 DEF Alike, Keeps, Changed, Record
  <2> HIDE DEF y
  <2>4. MayPut(s, k, y, N, c)
    BY <1>0, <2>3, DraftMayPut
  <2>5. Core(bare, 0, 0, Keys, {}, N, c)
    BY <1>0, <2>2, <2>3, <2>4, PutSame DEF Alike
  <2> HIDE DEF bare
  <2> QED BY <1>0, <2>1, <2>5, ApplyCore
<1>2. Core(Enqueue(again, k), 0, 0, Keys, {}, N, c)
  <2>1. anew = With(s, k, Renews(s.rec[k]))
    BY PatchIsWith DEF Renews
  <2> HIDE DEF anew
  <2>2. again = AllTo(anew, k, "preparing")
    BY DEF SetComponents, AllTo, With, Comps, AllIn
  <2> HIDE DEF again, kept, bare, y, k
  <2>6. Core(AllTo(With(s, k, Renews(s.rec[k])), k, "preparing"), 0, 0, Keys \ {k}, {}, N, c)
    <3> DEFINE p == "preparing"
    <3>1. p \in ComponentPhase /\ p # "received"
      BY <1>0
    <3>2. k \in N
      BY DEF k
    <3> HIDE DEF p
    <3>3. Core(AllTo(With(s, k, Renews(s.rec[k])), k, p), 0, 0, Keys \ {k}, {}, N, c)
      BY <1>0, <3>1, <3>2, LoseCore
    <3> QED BY <3>3 DEF p
  <2>3. Core(again, 0, 0, Keys \ {k}, {}, N, c)
    BY <2>1, <2>2, <2>6
  <2>4. 0 <= 0 /\ Keys \ Keys \subseteq Keys \ (Keys \ {k}) /\ Keys \ {} \subseteq Keys \ {} /\ N \subseteq N
    OBVIOUS
  <2>5. Core(again, 0, 0, Keys, {}, N, c)
    BY <1>0, <2>3, <2>4, Weaken
  <2> QED BY <1>0, <2>5, AppendCore
<1>3. \/ DetachItem(s, t) = s
      \/ t.ans.is = "item" /\ DetachItem(s, t) = kept
      \/ DetachItem(s, t) = Enqueue(again, k)
  BY DEF DetachItem
<1> QED BY <1>1, <1>2, <1>3

LEMMA DetachItemsCore ==
  ASSUME NEW s, NEW N, NEW c, Core(s, 0, 0, Keys, {}, N, c), c.named = {}, NEW T, IsFiniteSet(T),
         \A t \in T : t \in Thread /\ Shape(t) /\ t.for = "detach" /\ t.key \in N
  PROVE  Core(FoldSet(LAMBDA t, u : DetachItem(u, t), s, T), 0, 0, Keys, {}, N, c)
<1> DEFINE op(t, u) == DetachItem(u, t)
           Inv == [X \in SUBSET T |-> {u \in State : Core(u, 0, 0, Keys, {}, N, c)}]
<1>0. \A u : Core(u, 0, 0, Keys, {}, N, c) => u \in State
  BY DEF Core, Typed
<1>finite. IsFiniteSet(T)
  OBVIOUS
<1>base. s \in Inv[{}]
  BY <1>0
<1>step. \A X \in SUBSET T : \A x \in X : \A v \in Inv[X \ {x}] : op(x, v) \in Inv[X]
  <2> SUFFICES ASSUME NEW X \in SUBSET T, NEW x \in X, NEW v \in Inv[X \ {x}]
               PROVE  op(x, v) \in Inv[X]
    OBVIOUS
  <2>1. Core(v, 0, 0, Keys, {}, N, c) /\ x \in T
    OBVIOUS
  <2>2. Core(op(x, v), 0, 0, Keys, {}, N, c)
    BY <2>1, DetachItemCore
  <2> QED BY <1>0, <2>2
<1>full. \A v \in Inv[T] : Core(v, 0, 0, Keys, {}, N, c)
  OBVIOUS
<1> HIDE DEF op, Inv
<1> DEFINE dom == UNION {Inv[X] : X \in SUBSET T}
           F == [p \in T \X dom |-> op(p[1], p[2])]
           ch == Firsts(T)
           it(g) == g = [X \in SUBSET T |-> IF X = {} THEN s
                           ELSE op(CHOOSE x \in X : TRUE, g[X \ {CHOOSE x \in X : TRUE}])]
           h == CHOOSE g : it(g)
<1>f1. \A X \in SUBSET T : \A x \in X : \A v \in Inv[X \ {x}] : F[<<x, v>>] = op(x, v)
  OBVIOUS
<1>f2. \A X \in SUBSET T : X # {} => ch[X] = (CHOOSE x \in X : TRUE) /\ ch[X] \in X
  BY DEF Firsts
<1> HIDE DEF F, ch
<1>f3. Chooses(ch, T) /\ Steps(F, T, Inv)
  BY <1>step, <1>f1, FirstsChoose DEF Steps, ch
<1>f4. PICK g : Follows(g, T, F, s, ch) /\ Within(g, T, Inv)
  <2> HIDE DEF dom, it, h
  <2> QED BY <1>finite, <1>base, <1>f3, FoldIn
<1>f5. ASSUME NEW X \in SUBSET T
      PROVE  g[X] = IF X = {} THEN s ELSE op(CHOOSE x \in X : TRUE, g[X \ {CHOOSE x \in X : TRUE}])
  <2>1. g[X] = IF X = {} THEN s ELSE F[<<ch[X], g[X \ {ch[X]}]>>]
    BY <1>f4 DEF Follows, StepOf, Rest
  <2>2. CASE X # {}
    <3>1. X \ {ch[X]} \in SUBSET T /\ g[X \ {ch[X]}] \in Inv[X \ {ch[X]}]
      BY <1>f4 DEF Within
    <3>2. F[<<ch[X], g[X \ {ch[X]}]>>] = op(ch[X], g[X \ {ch[X]}])
      BY <1>f1, <1>f2, <2>2, <3>1
    <3> QED BY <1>f2, <2>1, <2>2, <3>2
  <2> QED BY <2>1, <2>2
<1>f6. it(h)
  <2>1. it(g)
    <3>1. g = [X \in SUBSET T |-> g[X]]
      BY <1>f4 DEF Follows
    <3> QED BY <1>f5, <3>1
  <2> HIDE DEF it
  <2> QED BY <2>1
<1> HIDE DEF h
<1>f7. h[{}] = s /\ \A X \in SUBSET T : X # {} => h[X] = op(ch[X], h[X \ {ch[X]}])
  BY <1>f2, <1>f6
<1>f8. h[T] \in Inv[T]
  <2>1. ASSUME NEW X \in SUBSET T, X # {}, h[Rest(X, ch)] \in Inv[Rest(X, ch)] PROVE h[X] \in Inv[X]
    <3>1. op(ch[X], h[X \ {ch[X]}]) \in Inv[X]
      BY <1>step, <1>f2, <2>1 DEF Rest
    <3> QED BY <1>f7, <2>1, <3>1
  <2> QED BY <1>finite, <1>base, <1>f3, <1>f7, <2>1, FoldKeeps
<1>value. FoldSet(LAMBDA t, u : DetachItem(u, t), s, T) \in Inv[T]
  <2>1. FoldSet(LAMBDA t, u : DetachItem(u, t), s, T) = h[T]
    BY Zenon DEF FoldSet, MapThenFoldSet, h, it, op
  <2> QED BY <1>f8, <2>1
<1> HIDE DEF F, ch, it, h, dom
<1> QED BY <1>full, <1>value

LEMMA DetachedStep ==
  ASSUME UploadsInv, AccountOK, Detached
  PROVE  UploadsInv' /\ SentHere /\ AccountOK'
<1> DEFINE threads == {t \in m.threads : t.for = "detach"}
           ended == [m EXCEPT !.threads = @ \ threads]
           read == FoldSet(LAMBDA t, u : DetachItem(u, t), ended, threads)
           decided == [read EXCEPT !.changing = FALSE]
           resumed == IF decided.status = "paused" /\ decided.reason = "offline" THEN ResumeUploads(decided) ELSE decided
           c0 == At("detaching")
           c1 == [holder |-> "detaching", detaching |-> FALSE, sent |-> m.threads, named |-> {}]
           c2 == At("session")
           N == {t.key : t \in threads}
<1>1. /\ holder = "detaching" /\ holder' = "session" /\ m' = PumpPreprocess(resumed)
      /\ UNCHANGED <<media, confirmed, runtimeAccount, cookie, spent>>
  BY DEF Detached
<1>2. AccountOK'
  BY <1>1 DEF AccountOK
<1>3. threads = Of(m, "detach") /\ ended = Without(m, threads)
  BY DEF Of, Without
<1>4. Fine(m, 0, c0)
  BY <1>1, InvAt
<1>5. /\ c0.holder = "detaching" /\ c0.sent = m.threads /\ c0.named = {}
      /\ c1.holder = "detaching" /\ ~ c1.detaching /\ c1.sent = m.threads /\ c1.named = {}
      /\ c2.holder = "session" /\ c2.sent = m.threads /\ c2.named = {}
  BY AtIs
<1>6. IsFiniteSet(threads) /\ \A t \in threads : t \in Thread /\ Shape(t) /\ t.for = "detach" /\ t.key \in N
  <2>1. IsFiniteSet(m.threads)
    BY InvCore, StateFields
  <2>2. \A t \in m.threads : t \in Thread /\ Shape(t)
    BY InvCore DEF ThreadOK
  <2>3. IsFiniteSet(threads)
    BY <2>1, FS_Subset
  <2> QED BY <2>2, <2>3
<1>7. N = {t.key : t \in threads}
  OBVIOUS
<1> HIDE DEF threads, ended, c0, c1, c2, N
<1>8. Core(ended, 0, 0, Keys, {}, N, c1)
  BY <1>3, <1>4, <1>5, <1>7, WithoutCore
<1>9. Core(read, 0, 0, Keys, {}, N, c1)
  BY <1>5, <1>6, <1>8, DetachItemsCore
<1> HIDE DEF read
<1>10. Typed(read) /\ read.saving \in BOOLEAN /\ ~ read.saving
  BY <1>5, <1>9, StateFields DEF Core, HolderOK
<1> DEFINE saves == read.saving
<1>11. decided = Bound(read, saves, FALSE)
  BY <1>10, BoundIs
<1>12. \A t \in read.threads : t.for # "detach"
  BY <1>5, <1>9 DEF Core, ThreadsOK, ThreadOK
<1>13. saves \in BOOLEAN /\ ~ saves
  BY <1>10
<1> HIDE DEF decided, saves
<1>14. Core(decided, 0, 0, Keys, {}, N, c2)
  BY <1>5, <1>9, <1>11, <1>12, <1>13, BoundCore
<1>15. 0 \in Nat /\ 0 <= 0 /\ {} \subseteq N /\ Keys \ {} \subseteq Keys \ {} /\ Keys \ Keys \subseteq Keys \ Keys
  OBVIOUS
<1>16. Core(decided, 0, 0, Keys, {}, {}, c2)
  BY <1>14, <1>15, Weaken
<1>17. Core(resumed, 0, 0, Keys, {}, {}, c2)
  BY <1>15, <1>16, ResumeCore
<1> HIDE DEF resumed
<1>18. Core(PumpPreprocess(resumed), 0, 0, Keys, {}, {}, c2)
  BY <1>15, <1>17, PumpPreprocessCore
<1> DEFINE next == PumpPreprocess(resumed)
<1>19. m' = next
  BY <1>1
<1> HIDE DEF next
<1>20. \A k \in Keys \ {} : k \notin Keys \/ Watched(next, k, c2)
  BY <1>5 DEF Watched
<1>21. \A k \in Keys \ {} : k \notin {} \/ Wanted(next, k, c2)
  OBVIOUS
<1>22. Core(next, 0, 0, Keys, {}, {}, c2)
  BY <1>18 DEF next
<1>23. Core(next, 0, 0, {}, {}, {}, c2)
  BY <1>20, <1>21, <1>22, Discharge
<1>24. Fine(m', 0, At(holder'))
  BY <1>1, <1>19, <1>23 DEF c2, Fine
<1> QED BY <1>1, <1>2, <1>24, ArrivesAt

LEMMA AuthorStep ==
  ASSUME UploadsInv, AccountOK, Author
  PROVE  UploadsInv' /\ SentHere /\ AccountOK'
<1>1. \/ \E k \in Keys : \/ AddConfirmed(k) \/ ChooseOriginal(k) \/ CancelItem(k)
                         \/ RetryComponent(k) \/ RetryProcessing(k) \/ RetryRegistration(k)
      \/ ContinueUploads
      \/ Suspend \/ CancelHolderChange \/ DraftDeleted \/ Detach \/ Detached
  BY DEF Author
<1>2. ASSUME NEW k \in Keys, \/ AddConfirmed(k) \/ ChooseOriginal(k) \/ CancelItem(k)
                             \/ RetryComponent(k) \/ RetryProcessing(k) \/ RetryRegistration(k)
      PROVE  UploadsInv' /\ SentHere /\ AccountOK'
  BY <1>2, AddConfirmedStep, ChooseOriginalStep, CancelItemStep, RetryComponentStep,
     RetryProcessingStep, RetryRegistrationStep
<1> QED BY <1>1, <1>2, ContinueUploadsStep, SuspendStep, CancelHolderChangeStep,
           DraftDeletedStep, DetachStep, DetachedStep

LEMMA NextStep ==
  ASSUME UploadsInv, AccountOK, [UploadsNext]_uploadVars
  PROVE  UploadsInv' /\ SentHere /\ AccountOK'
<1>1. CASE UNCHANGED uploadVars
  <2>1. UploadsInv' /\ SentHere
    BY <1>1, ManagerSame DEF uploadVars
  <2>2. AccountOK'
    BY <1>1 DEF uploadVars, AccountOK
  <2> QED BY <2>1, <2>2
<1>2. CASE UploadsNext
  BY <1>2, AuthorStep, AccountStep, ManagerStep, ServiceStep DEF UploadsNext
<1> QED BY <1>1, <1>2

LEMMA InitInv ==
  ASSUME UploadsInit
  PROVE  UploadsInv /\ AccountOK
<1>1. AccountOK
  <2>1. 0 \in 0..MaxFaults /\ 0 \in 0..MaxSwitches /\ 0 \in 0..MaxCommands
    BY UploadConstants
  <2> QED BY <2>1, NoItemIsItem DEF UploadsInit, AccountOK
<1>2. NoRecord \in Record /\ NoRecord.phase = "absent" /\ NoRecord.server = "absent"
      /\ NoRecord.comps = [r \in Roles |-> "preparing"]
  <2>1. 0 \in 0..MaxRegistrations
    BY UploadConstants
  <2> QED BY <2>1 DEF NoRecord, Record, ItemPhase, ComponentPhase, ItemState, Roles
<1>3. /\ m.status = "active" /\ m.reason = "none" /\ m.rec = [k \in Keys |-> NoRecord]
      /\ m.preprocessQueue = <<>> /\ m.transferQueue = <<>> /\ m.preprocessing = 0
      /\ m.transferring = 0 /\ m.threads = {} /\ m.changing = FALSE /\ m.saving = TRUE
      /\ m.requests = 0 /\ m.copies = {} /\ holder = "draft"
  BY DEF UploadsInit
<1>4. m \in State
  <2>1. 0 \in 0..MaxRegistrations /\ <<>> \in Seq(Keys) /\ <<>> \in Seq(Keys \X Roles) /\ 0 \in Nat
    BY UploadConstants
  <2>2. m = [status |-> "active", reason |-> "none", rec |-> [k \in Keys |-> NoRecord],
             preprocessQueue |-> <<>>, transferQueue |-> <<>>, preprocessing |-> 0,
             transferring |-> 0, threads |-> {}, changing |-> FALSE, saving |-> TRUE,
             requests |-> 0, copies |-> {}]
    BY DEF UploadsInit
  <2>3. [k \in Keys |-> NoRecord] \in [Keys -> Record]
    BY <1>2
  <2>4. TRUE \in BOOLEAN /\ FALSE \in BOOLEAN /\ {} \in SUBSET Thread /\ {} \in SUBSET Keys
    OBVIOUS
  <2> QED BY <2>1, <2>2, <2>3, <2>4 DEF State
<1>5. Typed(m)
  BY <1>3, <1>4, FS_EmptySet DEF Typed
<1>6. SlotsOK(m, 0, 0)
  <2>1. Of(m, "transfer") = {} /\ Of(m, "prepare") = {}
    BY <1>3 DEF Of
  <2>2. Cardinality(Of(m, "transfer")) = 0 /\ Cardinality(Of(m, "prepare")) = 0
    BY <2>1, FS_EmptySet
  <2>3. 0 <= TransferConcurrency /\ 0 <= PreprocessConcurrency /\ 0 + 0 = 0
    BY UploadConstants
  <2> QED BY <1>3, <2>2, <2>3 DEF SlotsOK
<1>7. ThreadsOK(m, {}, Now) /\ DriversOK(m)
  BY <1>3 DEF ThreadsOK, DriversOK
<1>8. RecordsOK(m, Now)
  <2> SUFFICES ASSUME NEW k \in Keys PROVE RecordOK(k, NoRecord)
    BY <1>3 DEF RecordsOK, Now
  <2>1. \A r \in RolesOf(k) : r \in Roles /\ NoRecord.comps[r] = "preparing"
    BY <1>2, RolesAre
  <2> QED BY <1>2, <2>1 DEF RecordOK
<1>9. WatchOK(m, {}, Now)
  BY <1>2, <1>3 DEF WatchOK, Watched
<1>10. CopiesOK(m, {}, Now) /\ HolderOK(m, Now)
  BY <1>3 DEF CopiesOK, Wanted, HolderOK, Now
<1> QED BY <1>1, <1>5, <1>6, <1>7, <1>8, <1>9, <1>10 DEF UploadsInv, Fine, Core

(* Every behaviour of the manager, the account and the author keeps the     *)
(* invariant.                                                               *)
THEOREM UploadsInvariance == UploadsSpec => [](UploadsInv /\ AccountOK)
<1>1. UploadsInit => UploadsInv /\ AccountOK
  BY InitInv
<1>2. (UploadsInv /\ AccountOK) /\ [UploadsNext]_uploadVars => (UploadsInv /\ AccountOK)'
  BY NextStep
<1> QED BY <1>1, <1>2, PTL DEF UploadsSpec

-----------------------------------------------------------------------------
(* What the invariant says of the manager as it is seen between its steps.  *)
LEMMA InvFacts ==
  ASSUME UploadsInv, AccountOK
  PROVE  UploadsTypeOK /\ SlotsCoverTransfers /\ ProcessingIsWatched /\ CopiesAreWanted
<1>1. /\ Typed(m) /\ SlotsOK(m, 0, 0) /\ WatchOK(m, {}, Now) /\ CopiesOK(m, {}, Now)
      /\ Now.holder = holder
  BY InvCore DEF Core
<1>2. m \in State
  BY <1>1 DEF Typed
<1>3. Cardinality(Of(m, "transfer")) \in Nat /\ Cardinality(Of(m, "prepare")) \in Nat
  BY <1>1, OfFinite
<1>4. /\ m.transferring \in Nat /\ m.preprocessing \in Nat
      /\ m.transferring <= TransferConcurrency /\ m.preprocessing <= PreprocessConcurrency
      /\ Cardinality(Of(m, "transfer")) <= m.transferring
  <2>1. m.transferring \in Nat /\ m.preprocessing \in Nat
    BY <1>2 DEF State
  <2> QED BY <1>1, <1>3, <2>1 DEF SlotsOK
<1>5. m.transferring \in 0..TransferConcurrency /\ m.preprocessing \in 0..PreprocessConcurrency
  BY <1>4, UploadConstants
<1>6. UploadsTypeOK
  BY <1>2, <1>5 DEF UploadsTypeOK, State, AccountOK
<1>7. SlotsCoverTransfers
  BY <1>4 DEF SlotsCoverTransfers, Of
<1>8. ProcessingIsWatched
  <2> SUFFICES ASSUME m.status = "active", holder # "session", NEW k \in Keys,
                      m.rec[k].phase \in {"uploaded", "processing"}
               PROVE  m.rec[k].timer \/ \E t \in Mine(k) : t.for \in {"poll", "detach"}
    BY DEF ProcessingIsWatched
  <2>1. Watched(m, k, Now)
    BY <1>1 DEF WatchOK
  <2> QED BY <1>1, <2>1 DEF Watched, Mine
<1>9. CopiesAreWanted
  <2> SUFFICES ASSUME NEW k \in m.copies
               PROVE  \/ \E t \in m.threads : t.key = k /\ t.for = "store" /\ t.ans.is = "done"
                      \/ /\ holder \in {"draft", "deleting"}
                         /\ m.rec[k].phase \notin {"ready", "processing", "cancelled"}
    BY DEF CopiesAreWanted
  <2>1. k \in Keys
    BY <1>2 DEF State
  <2>2. Wanted(m, k, Now)
    BY <1>1, <2>1 DEF CopiesOK
  <2> QED BY <1>1, <2>2 DEF Wanted
<1> QED BY <1>6, <1>7, <1>8, <1>9

(* The records, threads and counts keep their types: no more preprocessings *)
(* or transfers are counted than there are slots.                           *)
THEOREM UploadTypes == UploadsSpec => []UploadsTypeOK
BY UploadsInvariance, InvFacts, PTL

(* Whatever is aborted, paused, replaced or answered late, a transfer runs   *)
(* in a slot that is counted (startTransfer, abortTransfers, settleTransfer).*)
THEOREM SlotsCover == UploadsSpec => []SlotsCoverTransfers
BY UploadsInvariance, InvFacts, PTL

(* What waits for the account's processing is polled, or being read, while   *)
(* the manager is active (schedulePoll, resume, applyServerItem).            *)
THEOREM ProcessingWatched == UploadsSpec => []ProcessingIsWatched
BY UploadsInvariance, InvFacts, PTL

(* A local copy is of an item that still needs it, or its write will drop it *)
(* (storeLocalCopy, forgetLocalCopy).                                       *)
THEOREM CopiesWanted == UploadsSpec => []CopiesAreWanted
BY UploadsInvariance, InvFacts, PTL

(* The step of an action says what the property asks of it. *)
LEMMA StaysHere ==
  ASSUME SentHere
  PROVE  \A t \in m'.threads : t.call \in Commands /\ t.ans.is = "under way" =>
           \/ Own
           \/ \E u \in m.threads : u.call = t.call /\ u.key = t.key /\ u.item = t.item
                                    /\ u.role = t.role
BY DEF SentHere, IsSent, Similar

(* A command is sent while the page works for the manager's account; one for *)
(* another account was on its way before the account changed.                *)
THEOREM CommandsStay == UploadsSpec => CommandsInTheirAccount
<1> DEFINE Here == \A t \in m'.threads : t.call \in Commands /\ t.ans.is = "under way" =>
           \/ Own
           \/ \E u \in m.threads : u.call = t.call /\ u.key = t.key /\ u.item = t.item
                                    /\ u.role = t.role
<1>1. (UploadsInv /\ AccountOK) /\ [UploadsNext]_uploadVars => Here
  BY NextStep, StaysHere
<1>2. (UploadsInv /\ AccountOK) /\ [UploadsNext]_uploadVars => [Here]_uploadVars
  BY <1>1
<1> HIDE DEF Here
<1>3. UploadsSpec => [][Here]_uploadVars
  BY <1>2, UploadsInvariance, PTL DEF UploadsSpec
<1> QED BY <1>3 DEF CommandsInTheirAccount, Here
==============================================================================
