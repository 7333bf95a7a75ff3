------------------------ MODULE PublishingMediaProofs ------------------------
(***************************************************************************)
(* What an account keeps: its media (PublishingMedia) and, in the second    *)
(* half, the draft that names them (PublishingDrafts).                      *)
(*                                                                          *)
(* The media of an account, for any number of items, components, blobs,     *)
(* transfers, holders and purges, and any sizes: rows and files agree, the  *)
(* capacity counters are the sums of the rows, committed bytes stay and     *)
(* held items survive.                                                      *)
(*                                                                          *)
(* IInv adds to BlobsMatchTheStore what it needs: a file of a transfer or   *)
(* of a job has no row yet (FilesInFlight) and nobody else has it in hand   *)
(* (KeysAreOwn), no two items use one blob (UsesAreOwn), what a purge       *)
(* unlinks is tombstoned and is gone from the store (PurgesFollow), and a   *)
(* component that receives has no bytes (ComponentsFollow).                 *)
(* CapacityIsExact follows it, with lemmas about sums over finite sets:     *)
(* each is proved on a smallest set that would refute it.                   *)
(***************************************************************************)
EXTENDS PublishingMedia, PublishingDrafts, FiniteSetTheorems, WellFoundedInduction, TLAPS

-----------------------------------------------------------------------------
(* Smallest numbers and sets. *)
Less == {ss \in Nat \X Nat : ss[1] < ss[2]}

(* Every set of numbers has a least one. *)
LEMMA LeastNat ==
  ASSUME NEW T \in SUBSET Nat, T # {}
  PROVE  \E n \in T : \A m \in T : ~ (m < n)
<1>1. IsWellFoundedOn(Less, Nat)
  BY NatLessThanWellFounded DEF OpToRel, Less
<1>2. \A x, y \in Nat : <<x, y>> \in Less <=> x < y
  BY DEF Less
<1>3. \E x \in T : \A y \in T : ~ (<<y, x>> \in Less)
  BY <1>1, WFMin, Zenon
<1> QED BY <1>2, <1>3

(* Among subsets of a finite set one has no proper subset among them. *)
LEMMA Smallest ==
  ASSUME NEW S, IsFiniteSet(S), NEW X, X \subseteq SUBSET S, X # {}
  PROVE  \E U \in X : IsFiniteSet(U) /\ \A V \in SUBSET U : V # U => V \notin X
<1> DEFINE sizes == {Cardinality(U) : U \in X}
<1>1. \A U \in X : IsFiniteSet(U) /\ Cardinality(U) \in Nat
  BY FS_Subset, FS_CardinalityType
<1>2. PICK n \in sizes : \A m \in sizes : ~ (m < n)
  <2>1. sizes \in SUBSET Nat /\ sizes # {}
    BY <1>1
  <2> QED BY <2>1, LeastNat, Zenon
<1>3. PICK U \in X : Cardinality(U) = n
  OBVIOUS
<1>4. ASSUME NEW V \in SUBSET U, V # U, V \in X PROVE FALSE
  <2>1. Cardinality(V) <= Cardinality(U) /\ Cardinality(U) # Cardinality(V)
    BY <1>1, <1>4, FS_Subset
  <2>2. ~ (Cardinality(V) < n)
    BY <1>2, <1>4
  <2> QED BY <2>1, <2>2, <1>1, <1>3, <1>4
<1> QED BY <1>1, <1>4

-----------------------------------------------------------------------------
(* Sums over a finite set take one element after the other. *)
One(s) == CHOOSE x \in s : TRUE
IsFold(f, S, it) == it = [s \in SUBSET S |-> IF s = {} THEN 0 ELSE f[One(s)] + it[s \ {One(s)}]]
Iter(f, S) == CHOOSE it : IsFold(f, S, it)

LEMMA SumIsFold ==
  ASSUME NEW f, NEW S
  PROVE  SumFunctionOnSet(f, S) = Iter(f, S)[S]
BY DEF SumFunctionOnSet, FoldFunctionOnSet, MapThenFoldSet, Iter, IsFold, One

LEMMA OneIsIn ==
  ASSUME NEW s, s # {}
  PROVE  One(s) \in s
BY DEF One

(* Two sums agree on what they have in common. *)
LEMMA FoldsAgree ==
  ASSUME NEW f, NEW S, NEW a, IsFold(f, S, a), NEW g, NEW T, NEW b, IsFold(g, T, b),
         NEW U, IsFiniteSet(U), U \subseteq S, U \subseteq T, \A x \in U : f[x] = g[x]
  PROVE  a[U] = b[U]
<1> DEFINE X == {V \in SUBSET U : a[V] # b[V]}
<1>1. SUFFICES ASSUME X # {} PROVE FALSE
  OBVIOUS
<1>2. PICK V \in X : IsFiniteSet(V) /\ \A W \in SUBSET V : W # V => W \notin X
  <2>1. X \subseteq SUBSET U
    OBVIOUS
  <2> HIDE DEF X
  <2> QED BY <1>1, <2>1, Smallest, Zenon
<1>3. V \in SUBSET S /\ V \in SUBSET T /\ V \subseteq U
  OBVIOUS
<1>4. /\ a[V] = IF V = {} THEN 0 ELSE f[One(V)] + a[V \ {One(V)}]
      /\ b[V] = IF V = {} THEN 0 ELSE g[One(V)] + b[V \ {One(V)}]
  BY <1>3 DEF IsFold
<1>5. V # {}
  BY <1>4
<1>6. One(V) \in V
  BY <1>5, OneIsIn
<1>7. a[V \ {One(V)}] = b[V \ {One(V)}]
  BY <1>2, <1>3, <1>6
<1> QED BY <1>3, <1>4, <1>5, <1>6, <1>7

(* The recursion that defines a sum has a solution. *)
LEMMA FoldExists ==
  ASSUME NEW f, NEW S, IsFiniteSet(S)
  PROVE  IsFold(f, S, Iter(f, S))
<1> DEFINE X == {V \in SUBSET S : ~ IsFold(f, V, Iter(f, V))}
<1>1. SUFFICES ASSUME X # {} PROVE FALSE
  OBVIOUS
<1>2. PICK V \in X : IsFiniteSet(V) /\ \A W \in SUBSET V : W # V => W \notin X
  <2>1. X \subseteq SUBSET S
    OBVIOUS
  <2> HIDE DEF X
  <2> QED BY <1>1, <2>1, Smallest, Zenon
<1>3. \A W \in SUBSET V : W # V => IsFold(f, W, Iter(f, W)) /\ IsFiniteSet(W)
  BY <1>2, FS_Subset
<1> DEFINE it == [s \in SUBSET V |-> IF s = V /\ V # {}
                                     THEN f[One(V)] + Iter(f, V \ {One(V)})[V \ {One(V)}]
                                     ELSE IF s = {} THEN 0 ELSE Iter(f, s)[s]]
           step(s) == IF s = {} THEN 0 ELSE f[One(s)] + it[s \ {One(s)}]
<1>4. ASSUME NEW s \in SUBSET V PROVE it[s] = step(s)
  <2>1. CASE s = {}
    BY <2>1
  <2>2. CASE s # {}
    <3> DEFINE r == s \ {One(s)}
    <3>1. One(s) \in s
      BY <2>2, OneIsIn
    <3>2. r \in SUBSET V /\ r # V /\ r # s /\ r \subseteq s
      BY <3>1
    <3>3. IsFold(f, r, Iter(f, r)) /\ IsFiniteSet(r)
      BY <1>3, <3>2
    <3>4. it[r] = Iter(f, r)[r]
      <4>1. CASE r = {}
        <5>1. Iter(f, r)[r] = 0
          BY <3>3, <4>1 DEF IsFold
        <5> QED BY <4>1, <5>1, <3>2
      <4>2. CASE r # {}
        BY <4>2, <3>2
      <4> QED BY <4>1, <4>2
    <3>5. CASE s = V
      BY <3>5, <3>4, <2>2, <3>2
    <3>6. CASE s # V
      <4>1. IsFold(f, s, Iter(f, s))
        BY <1>3, <3>6
      <4>2. Iter(f, s)[s] = f[One(s)] + Iter(f, s)[r]
        BY <4>1, <2>2 DEF IsFold
      <4>3. Iter(f, s)[r] = Iter(f, r)[r]
        BY <4>1, <3>3, <3>2, FoldsAgree
      <4> QED BY <4>2, <4>3, <3>4, <3>6, <2>2
    <3> QED BY <3>5, <3>6
  <2> QED BY <2>1, <2>2
<1>5. it = [s \in SUBSET V |-> step(s)]
  <2> HIDE DEF step
  <2> QED BY <1>4
<1>6. IsFold(f, V, it)
  <2> HIDE DEF it
  <2> QED BY <1>5 DEF IsFold
<1>7. IsFold(f, V, Iter(f, V))
  <2> HIDE DEF it
  <2> QED BY <1>6 DEF Iter
<1> QED BY <1>7, <1>2

-----------------------------------------------------------------------------
LEMMA SumSame ==
  ASSUME NEW S, IsFiniteSet(S), NEW f, NEW g, \A x \in S : f[x] = g[x]
  PROVE  SumFunctionOnSet(f, S) = SumFunctionOnSet(g, S)
BY FoldExists, FoldsAgree, SumIsFold

LEMMA SumOne ==
  ASSUME NEW S, IsFiniteSet(S), NEW f
  PROVE  SumFunctionOnSet(f, S) =
           IF S = {} THEN 0 ELSE f[One(S)] + SumFunctionOnSet(f, S \ {One(S)})
<1> DEFINE R == S \ {One(S)}
<1>1. IsFiniteSet(R)
  BY FS_RemoveElement
<1>2. IsFold(f, S, Iter(f, S)) /\ IsFold(f, R, Iter(f, R))
  BY <1>1, FoldExists
<1>3. Iter(f, S)[S] = IF S = {} THEN 0 ELSE f[One(S)] + Iter(f, S)[R]
  BY <1>2 DEF IsFold
<1>4. Iter(f, S)[R] = Iter(f, R)[R]
  BY <1>1, <1>2, FoldsAgree
<1> QED BY <1>3, <1>4, SumIsFold

LEMMA SumType ==
  ASSUME NEW S, IsFiniteSet(S), NEW f, \A x \in S : f[x] \in Nat
  PROVE  SumFunctionOnSet(f, S) \in Nat
<1> DEFINE X == {V \in SUBSET S : SumFunctionOnSet(f, V) \notin Nat}
<1>1. SUFFICES ASSUME X # {} PROVE FALSE
  OBVIOUS
<1>2. PICK V \in X : IsFiniteSet(V) /\ \A W \in SUBSET V : W # V => W \notin X
  <2>1. X \subseteq SUBSET S
    OBVIOUS
  <2> HIDE DEF X
  <2> QED BY <1>1, <2>1, Smallest, Zenon
<1>3. SumFunctionOnSet(f, V) =
        IF V = {} THEN 0 ELSE f[One(V)] + SumFunctionOnSet(f, V \ {One(V)})
  BY <1>2, SumOne
<1>4. V # {} /\ One(V) \in V
  BY <1>3, OneIsIn
<1>5. SumFunctionOnSet(f, V \ {One(V)}) \in Nat /\ f[One(V)] \in Nat
  BY <1>2, <1>4
<1> QED BY <1>3, <1>4, <1>5

(* Any element can be taken first. *)
LEMMA SumRemove ==
  ASSUME NEW S, IsFiniteSet(S), NEW f, \A x \in S : f[x] \in Nat, NEW y \in S
  PROVE  SumFunctionOnSet(f, S) = f[y] + SumFunctionOnSet(f, S \ {y})
<1> DEFINE wrong(V, x) == SumFunctionOnSet(f, V) # f[x] + SumFunctionOnSet(f, V \ {x})
           X == {V \in SUBSET S : \E x \in V : wrong(V, x)}
<1>1. SUFFICES ASSUME X # {} PROVE FALSE
  OBVIOUS
<1>2. PICK V \in X : IsFiniteSet(V) /\ \A W \in SUBSET V : W # V => W \notin X
  <2>1. X \subseteq SUBSET S
    OBVIOUS
  <2> HIDE DEF X
  <2> QED BY <1>1, <2>1, Smallest, Zenon
<1>3. PICK x \in V : wrong(V, x)
  OBVIOUS
<1> DEFINE o == One(V)
<1>4. o \in V /\ V # {}
  BY OneIsIn
<1>5. SumFunctionOnSet(f, V) = f[o] + SumFunctionOnSet(f, V \ {o})
  BY <1>2, <1>4, SumOne
<1>6. x # o
  BY <1>3, <1>5
<1>7. SumFunctionOnSet(f, V \ {o}) = f[x] + SumFunctionOnSet(f, (V \ {o}) \ {x})
  BY <1>2, <1>4, <1>6
<1>8. SumFunctionOnSet(f, V \ {x}) = f[o] + SumFunctionOnSet(f, (V \ {x}) \ {o})
  BY <1>2, <1>4, <1>6
<1>9. (V \ {x}) \ {o} = (V \ {o}) \ {x}
  OBVIOUS
<1>10. SumFunctionOnSet(f, (V \ {o}) \ {x}) \in Nat
  <2>1. IsFiniteSet((V \ {o}) \ {x})
    BY <1>2, FS_RemoveElement
  <2> QED BY <2>1, SumType
<1>11. f[x] \in Nat /\ f[o] \in Nat
  BY <1>4
<1> DEFINE rest == SumFunctionOnSet(f, (V \ {o}) \ {x})
<1>12. /\ SumFunctionOnSet(f, V) = f[o] + (f[x] + rest)
       /\ SumFunctionOnSet(f, V \ {x}) = f[o] + rest
  BY <1>5, <1>7, <1>8, <1>9
<1>13. f[o] + (f[x] + rest) = f[x] + (f[o] + rest)
  <2>1. rest \in Nat /\ f[x] \in Nat /\ f[o] \in Nat
    BY <1>10, <1>11
  <2> HIDE DEF o, rest
  <2> QED BY <2>1
<1> QED BY <1>3, <1>12, <1>13

(* A sum is that of a part and that of the rest. *)
LEMMA SumSplit ==
  ASSUME NEW S, IsFiniteSet(S), NEW f, \A x \in S : f[x] \in Nat, NEW C \in SUBSET S
  PROVE  SumFunctionOnSet(f, S) = SumFunctionOnSet(f, C) + SumFunctionOnSet(f, S \ C)
<1> DEFINE T(V) == S \ (C \ V)
           add(V) == SumFunctionOnSet(f, V) + SumFunctionOnSet(f, S \ C)
           X == {V \in SUBSET C : SumFunctionOnSet(f, T(V)) # add(V)}
<1>1. SUFFICES ASSUME X # {} PROVE FALSE
  <2>1. C \in SUBSET C /\ T(C) = S
    OBVIOUS
  <2> QED BY <2>1
<1>2. PICK V \in X : IsFiniteSet(V) /\ \A W \in SUBSET V : W # V => W \notin X
  <2>1. X \subseteq SUBSET C /\ IsFiniteSet(C)
    BY FS_Subset
  <2> HIDE DEF X
  <2> QED BY <1>1, <2>1, Smallest, Zenon
<1>3. \A W \in SUBSET S : IsFiniteSet(W) /\ SumFunctionOnSet(f, W) \in Nat
  BY FS_Subset, SumType
<1>4. V # {}
  <2>1. ASSUME V = {} PROVE FALSE
    <3>1. SumFunctionOnSet(f, V) = 0
      BY <1>2, <2>1, SumOne
    <3>2. T(V) = S \ C
      BY <2>1
    <3>3. SumFunctionOnSet(f, S \ C) \in Nat
      BY <1>3
    <3>4. add(V) = SumFunctionOnSet(f, S \ C)
      BY <3>1, <3>3
    <3>5. SumFunctionOnSet(f, T(V)) = SumFunctionOnSet(f, S \ C)
      <4> HIDE DEF T
      <4> QED BY <3>2
    <3> QED BY <1>2, <3>4, <3>5
  <2> QED BY <2>1
<1>5. PICK x \in V : TRUE
  BY <1>4
<1>6. x \in T(V) /\ T(V) \in SUBSET S /\ V \in SUBSET S
  OBVIOUS
<1>7. T(V \ {x}) = T(V) \ {x}
  OBVIOUS
<1>8. SumFunctionOnSet(f, T(V)) = f[x] + SumFunctionOnSet(f, T(V) \ {x})
  <2> HIDE DEF T
  <2> QED BY <1>3, <1>6, SumRemove
<1>9. SumFunctionOnSet(f, V) = f[x] + SumFunctionOnSet(f, V \ {x})
  BY <1>3, <1>6, SumRemove
<1>10. SumFunctionOnSet(f, T(V) \ {x}) = add(V \ {x})
  BY <1>2, <1>7
<1>11. /\ f[x] \in Nat /\ SumFunctionOnSet(f, V \ {x}) \in Nat
       /\ SumFunctionOnSet(f, S \ C) \in Nat
  BY <1>3, <1>6
<1>12. SumFunctionOnSet(f, T(V)) = add(V)
  BY <1>8, <1>9, <1>10, <1>11
<1> QED BY <1>2, <1>12

(* What one summand changes changes the sum. *)
LEMMA SumChange ==
  ASSUME NEW S, IsFiniteSet(S), NEW f, NEW g, NEW y \in S,
         \A x \in S : f[x] \in Nat, \A x \in S : g[x] \in Nat, \A x \in S \ {y} : f[x] = g[x]
  PROVE  SumFunctionOnSet(g, S) = SumFunctionOnSet(f, S) - f[y] + g[y]
<1>1. /\ SumFunctionOnSet(f, S) = f[y] + SumFunctionOnSet(f, S \ {y})
      /\ SumFunctionOnSet(g, S) = g[y] + SumFunctionOnSet(g, S \ {y})
  BY SumRemove
<1>2. IsFiniteSet(S \ {y})
  BY FS_RemoveElement
<1>3. SumFunctionOnSet(f, S \ {y}) = SumFunctionOnSet(g, S \ {y})
  BY <1>2, SumSame
<1>4. SumFunctionOnSet(f, S \ {y}) \in Nat
  BY <1>2, SumType
<1> QED BY <1>1, <1>3, <1>4

(* Nothing adds up to nothing. *)
LEMMA SumNone ==
  ASSUME NEW S, IsFiniteSet(S), NEW f, \A x \in S : f[x] = 0
  PROVE  SumFunctionOnSet(f, S) = 0
<1> DEFINE X == {V \in SUBSET S : SumFunctionOnSet(f, V) # 0}
<1>1. SUFFICES ASSUME X # {} PROVE FALSE
  OBVIOUS
<1>2. PICK V \in X : IsFiniteSet(V) /\ \A W \in SUBSET V : W # V => W \notin X
  <2>1. X \subseteq SUBSET S
    OBVIOUS
  <2> HIDE DEF X
  <2> QED BY <1>1, <2>1, Smallest, Zenon
<1>3. SumFunctionOnSet(f, V) =
        IF V = {} THEN 0 ELSE f[One(V)] + SumFunctionOnSet(f, V \ {One(V)})
  BY <1>2, SumOne
<1>4. V # {} /\ One(V) \in V
  BY <1>2, <1>3, OneIsIn
<1> QED BY <1>2, <1>3, <1>4

-----------------------------------------------------------------------------
(* Blobs whose bytes count for the account. *)
Counted == {b \in Blobs : blob[b].state \in {"committed", "tombstoned"}}

(* A stored file of a transfer or of a job has no row, and is still there    *)
(* while its transfer or job has a use for it.                               *)
FilesInFlight ==
    /\ \A t \in Transfers :
         /\ transfer[t].at # "idle" => transfer[t].comp \in Components
         /\ transfer[t].at \in {"idle", "streaming"} => transfer[t].key = Null
         /\ transfer[t].at \in {"stored", "stopped", "refused"} =>
              transfer[t].key \in Blobs /\ blob[transfer[t].key].state = "absent"
         /\ transfer[t].at = "stored" => transfer[t].key \in store
    /\ \A i \in Items :
         /\ output[i].mode = "none" => output[i].key = Null
         /\ output[i].mode # "none" =>
              /\ output[i].key \in Blobs /\ blob[output[i].key].state = "absent"
              /\ output[i].key \in store

(* No file is in the hands of two transfers or jobs. *)
KeysAreOwn ==
    /\ \A t, u \in Transfers : transfer[t].key # Null /\ transfer[t].key = transfer[u].key => t = u
    /\ \A i, j \in Items : output[i].key # Null /\ output[i].key = output[j].key => i = j
    /\ \A t \in Transfers, i \in Items : transfer[t].key # Null => transfer[t].key # output[i].key

(* No two items use the same blob. *)
UsesAreOwn ==
    /\ \A i \in Items : \A b \in Uses(i) : blob[b].state # "absent"
    /\ \A i, j \in Items : i # j => Uses(i) \cap Uses(j) = {}

(* What a purge has in its plan is tombstoned, what it unlinked is gone. *)
PurgesFollow ==
    \A p \in Purgers : /\ purge[p].unlinked \subseteq purge[p].plan
                       /\ \A b \in purge[p].plan : blob[b].state \in {"tombstoned", "purged"}
                       /\ purge[p].unlinked \cap store = {}

(* A component's state follows its item's, and its blob follows its state. *)
ComponentFollows(c) ==
    /\ comp[c].state \in {"absent", "awaiting", "receiving"} => comp[c].blob = Null
    /\ comp[c].state \in {"received", "verified"} => comp[c].blob # Null
    /\ item[ItemOf[c]] = "absent" => comp[c].state = "absent" /\ comp[c].reserved = 0
    /\ item[ItemOf[c]] = "awaiting_upload" =>
         comp[c].state \in {"awaiting", "receiving", "received", "verified"}
    /\ item[ItemOf[c]] \in {"processing", "ready", "failed"} =>
         comp[c].state \in {"received", "verified"}
ComponentsFollow == \A c \in Components : ComponentFollows(c)

(* Bytes of finitely many blobs count. *)
FinitelyMany == IsFiniteSet(Counted)

IInv == /\ TypeOK /\ FilesInFlight /\ KeysAreOwn /\ UsesAreOwn /\ PurgesFollow
        /\ ComponentsFollow /\ BlobsMatchTheStore /\ FinitelyMany

-----------------------------------------------------------------------------
LEMMA SomeComponents ==
  ASSUME TypeOK, NEW C \in SUBSET Components
  PROVE  /\ IsFiniteSet(C) /\ Reserved(C) \in Nat
         /\ SumFunctionOnSet(Size, C) \in Nat
<1>1. IsFiniteSet(C)
  BY ComponentAssumption, FS_Subset
<1>2. \A c \in C : [d \in C |-> comp[d].reserved][c] \in Nat /\ Size[c] \in Nat
  BY SizeAssumption DEF TypeOK, ComponentRow
<1>3. SumFunctionOnSet([d \in C |-> comp[d].reserved], C) \in Nat
  <2> DEFINE f == [d \in C |-> comp[d].reserved]
  <2>1. \A c \in C : f[c] \in Nat
    BY <1>2
  <2> HIDE DEF f
  <2>2. SumFunctionOnSet(f, C) \in Nat
    BY <1>1, <2>1, SumType
  <2> QED BY <2>2 DEF f
<1> QED BY <1>1, <1>2, <1>3, SumType DEF Reserved

LEMMA SomeBlobs ==
  ASSUME TypeOK, FinitelyMany, NEW B \in SUBSET Counted
  PROVE  IsFiniteSet(B) /\ SumFunctionOnSet([b \in B |-> blob[b].size], B) \in Nat
<1>1. IsFiniteSet(B)
  BY FS_Subset DEF FinitelyMany
<1> DEFINE f == [b \in B |-> blob[b].size]
<1>2. \A b \in B : f[b] \in Nat
  BY DEF TypeOK, BlobRow, Counted
<1> HIDE DEF f
<1>3. SumFunctionOnSet(f, B) \in Nat
  BY <1>1, <1>2, SumType
<1> QED BY <1>1, <1>3 DEF f

LEMMA CapacityType ==
  ASSUME TypeOK, NEW n \in Int, NEW m \in Int, AdjustCapacity(n, m)
  PROVE  capacity' \in [committed : Nat, reserved : Nat]
BY DEF TypeOK, AdjustCapacity, AtLeastZero

(* What an item uses is named by it or by one of its components. *)
LEMMA UsesShrink ==
  ASSUME \A c \in Components : comp'[c].blob \in {comp[c].blob, Null},
         \A i \in Items : /\ derived'[i].base \subseteq derived[i].base
                          /\ derived'[i].edit \subseteq derived[i].edit
  PROVE  \A i \in Items : Uses(i)' \subseteq Uses(i)
BY DEF Uses, ComponentsOf

LEMMA UsesAreBlobs ==
  ASSUME TypeOK
  PROVE  \A i \in Items : Uses(i) \subseteq Blobs
BY NullAssumption DEF Uses, ComponentsOf, TypeOK, ComponentRow

LEMMA UsesStayOwn ==
  ASSUME UsesAreOwn, \A i \in Items : Uses(i)' \subseteq Uses(i),
         \A i \in Items : \A b \in Uses(i) :
            blob[b].state # "absent" => blob'[b].state # "absent"
  PROVE  UsesAreOwn'
<1> USE DEF UsesAreOwn
<1>1. \A i \in Items : \A b \in Uses(i)' : blob'[b].state # "absent"
  OBVIOUS
<1>2. \A i, j \in Items : i # j => Uses(i)' \cap Uses(j)' = {}
  OBVIOUS
<1> QED BY <1>1, <1>2

(* Files of rows stay while the rows do. *)
LEMMA BlobsStillMatch ==
  ASSUME TypeOK, BlobsMatchTheStore, UNCHANGED blob,
         \A i \in Items : Uses(i)' \subseteq Uses(i),
         \A i \in Items : item[i] = "purged" => item'[i] = "purged",
         \A b \in store : blob[b].state # "absent" => b \in store',
         \A b \in store' \ store : blob[b].state # "purged"
  PROVE  BlobsMatchTheStore'
<1>1. \A i \in Items : item'[i] # "purged" =>
         \A b \in Uses(i)' : blob'[b].state = "committed" /\ b \in store'
  BY DEF BlobsMatchTheStore
<1>2. \A b \in Blobs : blob'[b].state = "purged" => b \notin store'
  BY DEF BlobsMatchTheStore
<1> QED BY <1>1, <1>2 DEF BlobsMatchTheStore

(* The row of a file that is complete, and that nobody else has in hand. *)
LEMMA CommittedFits ==
  ASSUME IInv, NEW i \in Items, NEW b \in Blobs, NEW n \in Nat,
         blob[b].state = "absent", b \in store, CommitBlob(b, n), UNCHANGED <<store, purge>>,
         Uses(i)' \subseteq Uses(i) \cup {b}, item[i] # "purged",
         \A j \in Items \ {i} : Uses(j)' \subseteq Uses(j) /\ item'[j] = item[j]
  PROVE  /\ UsesAreOwn' /\ BlobsMatchTheStore' /\ PurgesFollow' /\ FinitelyMany'
         /\ blob' \in [Blobs -> BlobRow]
<1> USE DEF IInv
<1>1. /\ blob'[b].state = "committed"
      /\ \A d \in Blobs \ {b} : blob'[d] = blob[d]
      /\ blob' \in [Blobs -> BlobRow]
  BY DEF CommitBlob, TypeOK, BlobRow
<1>2. \A j \in Items : Uses(j) \subseteq Blobs \ {b}
  BY UsesAreBlobs DEF UsesAreOwn
<1>3. UsesAreOwn'
  <2>1. \A j \in Items : \A d \in Uses(j)' : blob'[d].state # "absent"
    BY <1>1, <1>2 DEF UsesAreOwn
  <2>2. \A j, k \in Items : j # k => Uses(j)' \cap Uses(k)' = {}
    BY <1>2 DEF UsesAreOwn
  <2> QED BY <2>1, <2>2 DEF UsesAreOwn
<1>4. BlobsMatchTheStore'
  <2>1. \A j \in Items : item'[j] # "purged" =>
           \A d \in Uses(j)' : blob'[d].state = "committed" /\ d \in store'
    BY <1>1, <1>2 DEF BlobsMatchTheStore
  <2>2. \A d \in Blobs : blob'[d].state = "purged" => d \notin store'
    BY <1>1 DEF BlobsMatchTheStore
  <2> QED BY <2>1, <2>2 DEF BlobsMatchTheStore
<1>5. PurgesFollow'
  BY <1>1 DEF PurgesFollow, TypeOK
<1>6. FinitelyMany'
  <2>1. Counted' \subseteq Counted \cup {b}
    BY <1>1 DEF Counted
  <2>2. IsFiniteSet(Counted \cup {b})
    BY FS_AddElement DEF FinitelyMany
  <2> QED BY <2>1, <2>2, FS_Subset DEF FinitelyMany
<1> QED BY <1>1, <1>3, <1>4, <1>5, <1>6

-----------------------------------------------------------------------------
(* Updates of a component's row. *)
ComponentStates == {"absent", "awaiting", "receiving", "received", "verified", "cancelled"}

LEMMA RowSteps ==
  ASSUME NEW r \in ComponentRow
  PROVE  /\ \A s \in ComponentStates : [r EXCEPT !.state = s] \in ComponentRow
         /\ \A a \in Transfers \cup {Null} : [r EXCEPT !.attempt = a] \in ComponentRow
         /\ \A b \in Blobs \cup {Null} : [r EXCEPT !.blob = b] \in ComponentRow
         /\ \A n \in Nat : [r EXCEPT !.reserved = n] \in ComponentRow
         /\ \A f \in BOOLEAN : [r EXCEPT !.fresh = f] \in ComponentRow
BY DEF ComponentRow, ComponentStates

(* A row that is registered, cancelled, awaited again or received. *)
LEMMA Rows ==
  ASSUME NEW r \in ComponentRow, NEW s \in ComponentStates
  PROVE  /\ \A n \in Nat : [r EXCEPT !.state = s, !.reserved = n] \in ComponentRow
         /\ \A a \in Transfers \cup {Null} :
              [r EXCEPT !.state = s, !.attempt = a] \in ComponentRow
         /\ \A a \in Transfers \cup {Null}, f \in BOOLEAN :
              [r EXCEPT !.state = s, !.attempt = a, !.fresh = f] \in ComponentRow
         /\ \A a \in Transfers \cup {Null}, n \in Nat, f \in BOOLEAN :
              [r EXCEPT !.state = s, !.attempt = a, !.reserved = n, !.fresh = f] \in ComponentRow
         /\ \A a \in Transfers \cup {Null}, b \in Blobs \cup {Null}, n \in Nat, f \in BOOLEAN :
              [r EXCEPT !.state = s, !.attempt = a, !.blob = b, !.reserved = n, !.fresh = f]
                 \in ComponentRow
<1> SUFFICES ASSUME NEW n \in Nat, NEW f \in BOOLEAN,
                    NEW a \in Transfers \cup {Null}, NEW b \in Blobs \cup {Null}
             PROVE  /\ [r EXCEPT !.state = s, !.reserved = n] \in ComponentRow
                    /\ [r EXCEPT !.state = s, !.attempt = a] \in ComponentRow
                    /\ [r EXCEPT !.state = s, !.attempt = a, !.fresh = f] \in ComponentRow
                    /\ [r EXCEPT !.state = s, !.attempt = a, !.reserved = n, !.fresh = f]
                          \in ComponentRow
                    /\ [r EXCEPT !.state = s, !.attempt = a, !.blob = b, !.reserved = n,
                                 !.fresh = f] \in ComponentRow
  <2>1. 0 \in Nat /\ TRUE \in BOOLEAN /\ Null \in Transfers \cup {Null} /\ Null \in Blobs \cup {Null}
    OBVIOUS
  <2> QED BY <2>1, ZenonT(60)
<1> DEFINE r1 == [r EXCEPT !.state = s]
           r2 == [r1 EXCEPT !.attempt = a]
           r3 == [r2 EXCEPT !.blob = b]
           r4 == [r3 EXCEPT !.reserved = n]
           r5 == [r2 EXCEPT !.reserved = n]
<1>1. r1 \in ComponentRow
  BY RowSteps
<1> HIDE DEF r1
<1>2. [r1 EXCEPT !.reserved = n] \in ComponentRow /\ r2 \in ComponentRow
  BY <1>1, RowSteps
<1> HIDE DEF r2
<1>3. /\ [r2 EXCEPT !.fresh = f] \in ComponentRow
      /\ r3 \in ComponentRow /\ r5 \in ComponentRow
  BY <1>2, RowSteps
<1> HIDE DEF r3, r5
<1>4. [r5 EXCEPT !.fresh = f] \in ComponentRow /\ r4 \in ComponentRow
  BY <1>3, RowSteps
<1> HIDE DEF r4
<1>5. [r4 EXCEPT !.fresh = f] \in ComponentRow
  BY <1>4, RowSteps
<1> QED BY <1>1, <1>2, <1>3, <1>4, <1>5 DEF r1, r2, r3, r4, r5

-----------------------------------------------------------------------------
(* What moves neither a blob, a file nor a job. *)
LEMMA Bookkeeping ==
  ASSUME IInv, UNCHANGED <<blob, derived, store, transfer, output, purge>>,
         TypeOK', ComponentsFollow',
         \A c \in Components : comp'[c].blob \in {comp[c].blob, Null},
         \A i \in Items : item[i] = "purged" => item'[i] = "purged"
  PROVE  IInv'
<1> USE DEF IInv
<1>1. \A i \in Items : Uses(i)' \subseteq Uses(i)
  BY UsesShrink
<1>2. UsesAreOwn'
  BY <1>1, UsesStayOwn
<1>3. BlobsMatchTheStore'
  BY <1>1, BlobsStillMatch
<1>4. FilesInFlight' /\ KeysAreOwn'
  BY DEF FilesInFlight, KeysAreOwn
<1>5. PurgesFollow' /\ FinitelyMany'
  BY DEF PurgesFollow, FinitelyMany, Counted
<1> QED BY <1>2, <1>3, <1>4, <1>5

LEMMA RegisterRows ==
  ASSUME IInv, NEW i \in Items, NEW h \in Holders, RegisterItem(i, h)
  PROVE  /\ comp' \in [Components -> ComponentRow]
         /\ \A c \in Components :
              /\ comp'[c].blob = comp[c].blob
              /\ ItemOf[c] # i => comp'[c] = comp[c]
              /\ ItemOf[c] = i =>
                   /\ comp'[c].state = "awaiting"
                   /\ comp'[c].reserved = Size[c] + (IF c = First[i] THEN Allowance[i] ELSE 0)
<1> USE DEF IInv
<1> DEFINE bytes(c) == Size[c] + (IF c = First[i] THEN Allowance[i] ELSE 0)
<1>1. comp' = [c \in Components |->
                 IF c \in ComponentsOf(i)
                 THEN [comp[c] EXCEPT !.state = "awaiting", !.reserved = bytes(c)] ELSE comp[c]]
  BY DEF RegisterItem
<1>2. ASSUME NEW c \in Components
      PROVE  /\ comp'[c] \in ComponentRow /\ comp'[c].blob = comp[c].blob
             /\ ItemOf[c] # i => comp'[c] = comp[c]
             /\ ItemOf[c] = i => comp'[c].state = "awaiting" /\ comp'[c].reserved = bytes(c)
  <2> DEFINE row == [comp[c] EXCEPT !.state = "awaiting", !.reserved = bytes(c)]
  <2>1. comp[c] \in ComponentRow /\ "awaiting" \in ComponentStates /\ bytes(c) \in Nat
    BY SizeAssumption DEF TypeOK, ComponentStates
  <2>2. comp'[c] = IF ItemOf[c] = i THEN row ELSE comp[c]
    BY <1>1 DEF ComponentsOf
  <2> HIDE DEF bytes
  <2>3. row \in ComponentRow
    BY <2>1, Rows
  <2>4. row.state = "awaiting" /\ row.blob = comp[c].blob /\ row.reserved = bytes(c)
    BY <2>1 DEF ComponentRow
  <2> HIDE DEF row
  <2> QED BY <2>1, <2>2, <2>3, <2>4
<1>3. comp' \in [Components -> ComponentRow]
  <2>1. comp' = [c \in Components |-> comp'[c]]
    BY <1>1
  <2> QED BY <1>2, <2>1
<1> QED BY <1>2, <1>3

LEMMA RegisterFits ==
  ASSUME IInv, NEW i \in Items, NEW h \in Holders, RegisterItem(i, h)
  PROVE  IInv'
<1> USE DEF IInv
<1> DEFINE total == SumFunctionOnSet(Size, ComponentsOf(i)) + Allowance[i]
<1>1. /\ item' = [item EXCEPT ![i] = "awaiting_upload"] /\ item[i] = "absent"
      /\ refs' = refs \cup {<<i, h>>} /\ AdjustCapacity(0, total)
      /\ UNCHANGED <<blob, derived, holder, store, transfer, output, purge>>
  BY DEF RegisterItem
<1>2. capacity' \in [committed : Nat, reserved : Nat]
  <2>1. total \in Int
    BY SomeComponents, SizeAssumption DEF ComponentsOf
  <2>2. AdjustCapacity(0, total)
    BY <1>1
  <2> HIDE DEF total
  <2> QED BY <2>1, <2>2, CapacityType
<1>3. TypeOK'
  <2>1. item' \in [Items -> ItemStates]
    BY <1>1 DEF TypeOK, ItemStates
  <2>2. refs' \subseteq Items \X Holders
    <3>1. refs \subseteq Items \X Holders
      BY DEF TypeOK
    <3> QED BY <1>1, <3>1
  <2>3. comp' \in [Components -> ComponentRow]
    BY RegisterRows
  <2>4. UNCHANGED <<blob, derived, holder, store, transfer, output, purge>>
    BY <1>1
  <2> QED BY <1>2, <2>1, <2>2, <2>3, <2>4 DEF TypeOK
<1>4. ComponentsFollow'
  <2> SUFFICES ASSUME NEW c \in Components PROVE ComponentFollows(c)'
    BY DEF ComponentsFollow
  <2>1. ComponentFollows(c) /\ ItemOf[c] \in Items
    BY ComponentAssumption DEF ComponentsFollow
  <2>2. CASE ItemOf[c] = i
    <3>1. comp'[c].state = "awaiting" /\ item'[ItemOf[c]] = "awaiting_upload"
      BY <1>1, <2>2, RegisterRows DEF TypeOK
    <3>2. comp'[c].blob = Null
      BY <1>1, <2>1, <2>2, RegisterRows DEF ComponentFollows
    <3> QED BY <3>1, <3>2 DEF ComponentFollows
  <2>3. CASE ItemOf[c] # i
    <3>1. comp'[c] = comp[c] /\ item'[ItemOf[c]] = item[ItemOf[c]]
      BY <1>1, <2>1, <2>3, RegisterRows DEF TypeOK
    <3> QED BY <2>1, <3>1 DEF ComponentFollows
  <2> QED BY <2>2, <2>3
<1>5. \A j \in Items : item[j] = "purged" => item'[j] = "purged"
  BY <1>1 DEF TypeOK
<1>6. \A c \in Components : comp'[c].blob = comp[c].blob
  BY RegisterRows
<1> QED BY <1>1, <1>3, <1>4, <1>5, <1>6, Bookkeeping

LEMMA CancelRows ==
  ASSUME TypeOK, NEW I \in SUBSET Items, NEW kept, CancelItems(I, kept)
  PROVE  /\ comp' \in [Components -> ComponentRow]
         /\ \A c \in Components :
              /\ comp'[c].blob = comp[c].blob
              /\ ItemOf[c] \notin I => comp'[c] = comp[c]
              /\ ItemOf[c] \in I => comp'[c].state = "cancelled" /\ comp'[c].reserved = 0
<1>1. comp' = [c \in Components |->
                 IF c \in {d \in Components : ItemOf[d] \in I}
                 THEN [comp[c] EXCEPT !.state = "cancelled", !.attempt = Null,
                                      !.reserved = 0, !.fresh = FALSE]
                 ELSE comp[c]]
  BY DEF CancelItems
<1>2. ASSUME NEW c \in Components
      PROVE  /\ comp'[c] \in ComponentRow /\ comp'[c].blob = comp[c].blob
             /\ ItemOf[c] \notin I => comp'[c] = comp[c]
             /\ ItemOf[c] \in I => comp'[c].state = "cancelled" /\ comp'[c].reserved = 0
  <2> DEFINE row == [comp[c] EXCEPT !.state = "cancelled", !.attempt = Null,
                                    !.reserved = 0, !.fresh = FALSE]
  <2>1. comp[c] \in ComponentRow /\ "cancelled" \in ComponentStates
    BY DEF TypeOK, ComponentStates
  <2>2. comp'[c] = IF ItemOf[c] \in I THEN row ELSE comp[c]
    BY <1>1
  <2>3. row \in ComponentRow
    BY <2>1, Rows
  <2>4. row.state = "cancelled" /\ row.blob = comp[c].blob /\ row.reserved = 0
    BY <2>1 DEF ComponentRow
  <2> HIDE DEF row
  <2> QED BY <2>1, <2>2, <2>3, <2>4
<1>3. comp' \in [Components -> ComponentRow]
  <2>1. comp' = [c \in Components |-> comp'[c]]
    BY <1>1
  <2> QED BY <1>2, <2>1
<1> QED BY <1>2, <1>3

(* Cancelled items are not purged yet. *)
LEMMA CancelFits ==
  ASSUME IInv, NEW I \in SUBSET Items, \A i \in I : item[i] # "purged",
         NEW kept, kept \subseteq refs, CancelItems(I, kept),
         holder' \in [Holders -> {"active", "lapsed", "ended"}],
         UNCHANGED <<blob, derived, store, transfer, output, purge>>
  PROVE  IInv'
<1> USE DEF IInv
<1> DEFINE C == {c \in Components : ItemOf[c] \in I}
<1>1. /\ item' = [i \in Items |-> IF i \in I THEN "cancelled" ELSE item[i]]
      /\ refs' = {r \in kept : r[1] \notin I}
      /\ AdjustCapacity(0, - Reserved(C))
  BY DEF CancelItems
<1>2. capacity' \in [committed : Nat, reserved : Nat]
  <2>1. - Reserved(C) \in Int
    BY SomeComponents
  <2>2. AdjustCapacity(0, - Reserved(C))
    BY <1>1
  <2> HIDE DEF C
  <2> QED BY <2>1, <2>2, CapacityType
<1>3. /\ comp' \in [Components -> ComponentRow]
      /\ \A c \in Components : comp'[c].blob = comp[c].blob
  BY CancelRows
<1>4. TypeOK'
  <2>1. item' \in [Items -> ItemStates]
    BY <1>1 DEF TypeOK, ItemStates
  <2>2. refs' \subseteq Items \X Holders
    BY <1>1 DEF TypeOK
  <2> QED BY <1>2, <1>3, <2>1, <2>2 DEF TypeOK
<1>5. ComponentsFollow'
  <2> SUFFICES ASSUME NEW c \in Components PROVE ComponentFollows(c)'
    BY DEF ComponentsFollow
  <2>1. ComponentFollows(c) /\ ItemOf[c] \in Items
    BY ComponentAssumption DEF ComponentsFollow
  <2>2. CASE ItemOf[c] \in I
    <3>1. comp'[c].state = "cancelled" /\ item'[ItemOf[c]] = "cancelled"
      BY <1>1, <2>1, <2>2, CancelRows
    <3> QED BY <3>1 DEF ComponentFollows
  <2>3. CASE ItemOf[c] \notin I
    <3>1. comp'[c] = comp[c] /\ item'[ItemOf[c]] = item[ItemOf[c]]
      BY <1>1, <2>1, <2>3, CancelRows
    <3> QED BY <2>1, <3>1 DEF ComponentFollows
  <2> QED BY <2>2, <2>3
<1>6. \A j \in Items : item[j] = "purged" => item'[j] = "purged"
  BY <1>1
<1> QED BY <1>3, <1>4, <1>5, <1>6, Bookkeeping

LEMMA ResetFits ==
  ASSUME IInv, NEW c \in Components, ResetComponent(c)
  PROVE  IInv'
<1> USE DEF IInv
<1> DEFINE i == ItemOf[c]
<1>1. i \in Items /\ ResetReserve(c) \in Nat
  BY ComponentAssumption, SizeAssumption DEF ResetReserve
<1>2. /\ item[i] \in {"awaiting_upload", "failed"}
      /\ item' = [item EXCEPT ![i] = "awaiting_upload"]
      /\ comp' = [comp EXCEPT ![c] = [state |-> "awaiting", attempt |-> Null, blob |-> Null,
                                      reserved |-> @.reserved + ResetReserve(c),
                                      fresh |-> FALSE]]
      /\ AdjustCapacity(0, ResetReserve(c))
      /\ UNCHANGED <<blob, derived, refs, holder, store, transfer, output, purge>>
  BY DEF ResetComponent
<1>3. capacity' \in [committed : Nat, reserved : Nat]
  BY <1>1, <1>2, CapacityType
<1>4. comp' \in [Components -> ComponentRow]
  BY <1>1, <1>2 DEF TypeOK, ComponentRow
<1>5. TypeOK'
  <2> HIDE DEF i
  <2> QED BY <1>1, <1>2, <1>3, <1>4 DEF TypeOK, ItemStates
<1>6. \A d \in Components : comp'[d].blob \in {comp[d].blob, Null}
  BY <1>2 DEF TypeOK, ComponentRow
<1>7. ComponentsFollow'
  <2> SUFFICES ASSUME NEW d \in Components PROVE ComponentFollows(d)'
    BY DEF ComponentsFollow
  <2>1. ComponentFollows(d) /\ ItemOf[d] \in Items
    BY ComponentAssumption DEF ComponentsFollow
  <2>2. CASE d = c
    <3>1. /\ comp'[d].state = "awaiting" /\ comp'[d].blob = Null
          /\ item'[ItemOf[d]] = "awaiting_upload"
      BY <1>1, <1>2, <2>2 DEF TypeOK, ComponentRow
    <3> QED BY <3>1 DEF ComponentFollows
  <2>3. CASE d # c
    <3>1. comp'[d] = comp[d]
      BY <1>2, <2>3 DEF TypeOK
    <3>2. \/ item'[ItemOf[d]] = item[ItemOf[d]]
          \/ item[ItemOf[d]] = "failed" /\ item'[ItemOf[d]] = "awaiting_upload"
      BY <1>1, <1>2, <2>1 DEF TypeOK
    <3> QED BY <2>1, <3>1, <3>2 DEF ComponentFollows
  <2> QED BY <2>2, <2>3
<1>8. \A j \in Items : item[j] = "purged" => item'[j] = "purged"
  BY <1>1, <1>2 DEF TypeOK
<1> QED BY <1>2, <1>5, <1>6, <1>7, <1>8, Bookkeeping

LEMMA ReleasedRows ==
  ASSUME TypeOK, NEW i \in Items
  PROVE  /\ Released(i) \in [Components -> ComponentRow]
         /\ \A c \in Components :
              /\ Released(i)[c].state = comp[c].state /\ Released(i)[c].blob = comp[c].blob
              /\ ItemOf[c] # i => Released(i)[c] = comp[c]
              /\ ItemOf[c] = i => Released(i)[c].reserved = 0
<1>1. \A c \in Components : comp[c] \in ComponentRow
  BY DEF TypeOK
<1>2. \A c \in Components :
         Released(i)[c] = IF ItemOf[c] = i THEN [comp[c] EXCEPT !.reserved = 0] ELSE comp[c]
  BY DEF Released
<1>3. \A c \in Components : Released(i)[c] \in ComponentRow
  <2> TAKE c \in Components
  <2>1. [comp[c] EXCEPT !.reserved = 0] \in ComponentRow
    BY <1>1, RowSteps
  <2> QED BY <1>1, <1>2, <2>1
<1>4. Released(i) = [c \in Components |-> Released(i)[c]]
  BY DEF Released
<1>5. \A c \in Components :
        /\ Released(i)[c].state = comp[c].state /\ Released(i)[c].blob = comp[c].blob
        /\ ItemOf[c] # i => Released(i)[c] = comp[c]
        /\ ItemOf[c] = i => Released(i)[c].reserved = 0
  BY <1>1, <1>2 DEF ComponentRow
<1> QED BY <1>3, <1>4, <1>5

LEMMA FailFits ==
  ASSUME IInv, NEW i \in Items, MarkItemFailed(i)
  PROVE  IInv'
<1> USE DEF IInv
<1>1. /\ item[i] = "processing" /\ item' = [item EXCEPT ![i] = "failed"]
      /\ comp' = Released(i) /\ AdjustCapacity(0, - Reserved(ComponentsOf(i)))
      /\ UNCHANGED <<blob, derived, refs, holder, store, transfer, output, purge>>
  BY DEF MarkItemFailed
<1>2. capacity' \in [committed : Nat, reserved : Nat]
  <2>1. - Reserved(ComponentsOf(i)) \in Int
    BY SomeComponents DEF ComponentsOf
  <2> QED BY <1>1, <2>1, CapacityType
<1>3. TypeOK'
  BY <1>1, <1>2, ReleasedRows DEF TypeOK, ItemStates
<1>4. \A c \in Components : comp'[c].blob = comp[c].blob
  BY <1>1, ReleasedRows
<1>5. ComponentsFollow'
  <2> SUFFICES ASSUME NEW c \in Components PROVE ComponentFollows(c)'
    BY DEF ComponentsFollow
  <2>1. ComponentFollows(c) /\ ItemOf[c] \in Items
    BY ComponentAssumption DEF ComponentsFollow
  <2>2. comp'[c].state = comp[c].state
    BY <1>1, ReleasedRows
  <2>3. CASE ItemOf[c] = i
    <3>1. item'[ItemOf[c]] = "failed" /\ comp[c].state \in {"received", "verified"}
      BY <1>1, <2>1, <2>3 DEF TypeOK, ComponentFollows
    <3> QED BY <2>1, <2>2, <3>1, <1>4 DEF ComponentFollows
  <2>4. CASE ItemOf[c] # i
    <3>1. item'[ItemOf[c]] = item[ItemOf[c]] /\ comp'[c] = comp[c]
      BY <1>1, <2>1, <2>4, ReleasedRows DEF TypeOK
    <3> QED BY <2>1, <3>1 DEF ComponentFollows
  <2> QED BY <2>3, <2>4
<1>6. \A j \in Items : item[j] = "purged" => item'[j] = "purged"
  BY <1>1 DEF TypeOK
<1> QED BY <1>1, <1>3, <1>4, <1>5, <1>6, Bookkeeping

(* Holders, their refs and the age of a transfer. *)
LEMMA HolderFits ==
  ASSUME IInv, UNCHANGED <<item, blob, derived, capacity, store, transfer, output, purge>>,
         refs' \subseteq Items \X Holders,
         holder' \in [Holders -> {"active", "lapsed", "ended"}],
         \/ UNCHANGED comp
         \/ \E c \in Components : comp' = [comp EXCEPT ![c].fresh = FALSE]
  PROVE  IInv'
<1> USE DEF IInv
<1>1. /\ comp' \in [Components -> ComponentRow]
      /\ \A c \in Components : /\ comp'[c].blob = comp[c].blob
                               /\ comp'[c].state = comp[c].state
                               /\ comp'[c].reserved = comp[c].reserved
  <2>1. CASE UNCHANGED comp
    BY <2>1 DEF TypeOK
  <2>2. ASSUME NEW c \in Components, comp' = [comp EXCEPT ![c].fresh = FALSE] PROVE <1>1
    <3>1. comp[c] \in ComponentRow /\ [comp[c] EXCEPT !.fresh = FALSE] \in ComponentRow
      BY RowSteps DEF TypeOK
    <3> QED BY <2>2, <3>1 DEF TypeOK, ComponentRow
  <2> QED BY <2>1, <2>2
<1>2. TypeOK'
  BY <1>1 DEF TypeOK
<1>3. ComponentsFollow'
  BY <1>1 DEF ComponentsFollow, ComponentFollows
<1> QED BY <1>1, <1>2, <1>3, Bookkeeping

-----------------------------------------------------------------------------
(* Transfers that begin, end or give up, with or without their file. *)
LEMMA TransferFits ==
  ASSUME IInv, NEW t \in Transfers, NEW row \in Transfer,
         transfer' = [transfer EXCEPT ![t] = row],
         row.at # "stored", row.key \in {transfer[t].key, Null},
         row.at # "idle" => row.comp \in Components,
         row.at \in {"idle", "streaming"} => row.key = Null,
         row.at \in {"stopped", "refused"} =>
            row.key \in Blobs /\ blob[row.key].state = "absent",
         \/ store' = store
         \/ /\ store' = store \ {transfer[t].key}
            /\ transfer[t].key \in Blobs /\ blob[transfer[t].key].state = "absent",
         comp' \in [Components -> ComponentRow], ComponentsFollow',
         \A c \in Components : comp'[c].blob = comp[c].blob,
         UNCHANGED <<item, blob, derived, refs, holder, capacity, output, purge>>
  PROVE  IInv'
<1> USE DEF IInv
<1>1. /\ transfer' \in [Transfers -> Transfer] /\ transfer'[t] = row
      /\ \A u \in Transfers \ {t} : transfer'[u] = transfer[u]
  BY DEF TypeOK
<1>2. store' \subseteq store
  OBVIOUS
<1>3. TypeOK'
  BY <1>1, <1>2 DEF TypeOK
<1>4. KeysAreOwn'
  <2>1. \A u \in Transfers : transfer'[u].key # Null => transfer'[u].key = transfer[u].key
    BY <1>1
  <2> QED BY <2>1 DEF KeysAreOwn
<1>5. FilesInFlight'
  <2>1. ASSUME NEW u \in Transfers
        PROVE  /\ transfer'[u].at # "idle" => transfer'[u].comp \in Components
               /\ transfer'[u].at \in {"idle", "streaming"} => transfer'[u].key = Null
               /\ transfer'[u].at \in {"stored", "stopped", "refused"} =>
                    transfer'[u].key \in Blobs /\ blob'[transfer'[u].key].state = "absent"
               /\ transfer'[u].at = "stored" => transfer'[u].key \in store'
    <3>1. CASE u = t
      BY <1>1, <3>1
    <3>2. CASE u # t
      <4>1. transfer'[u] = transfer[u]
        BY <1>1, <3>2
      <4>2. transfer[u].at = "stored" => /\ transfer[u].key \in store
                                         /\ transfer[u].key \in Blobs
        BY DEF FilesInFlight
      <4>3. transfer[u].at = "stored" => transfer[u].key # transfer[t].key
        BY <4>2, <3>2, NullAssumption DEF KeysAreOwn
      <4> QED BY <4>1, <4>2, <4>3 DEF FilesInFlight
    <3> QED BY <3>1, <3>2
  <2>2. ASSUME NEW i \in Items
        PROVE  /\ output'[i].mode = "none" => output'[i].key = Null
               /\ output'[i].mode # "none" =>
                    /\ output'[i].key \in Blobs /\ blob'[output'[i].key].state = "absent"
                    /\ output'[i].key \in store'
    <3>1. output[i].mode # "none" => output[i].key \in Blobs /\ output[i].key \in store
      BY DEF FilesInFlight
    <3>2. output[i].mode # "none" /\ transfer[t].key \in Blobs => output[i].key # transfer[t].key
      BY <3>1, NullAssumption DEF KeysAreOwn
    <3> QED BY <3>1, <3>2 DEF FilesInFlight
  <2> QED BY <2>1, <2>2 DEF FilesInFlight
<1>6. \A i \in Items : Uses(i)' \subseteq Uses(i)
  BY UsesShrink
<1>7. UsesAreOwn'
  BY <1>6, UsesStayOwn
<1>8. BlobsMatchTheStore'
  <2>1. \A b \in store : blob[b].state # "absent" => b \in store'
    OBVIOUS
  <2>2. \A b \in store' \ store : blob[b].state # "purged"
    BY <1>2
  <2>3. \A i \in Items : item[i] = "purged" => item'[i] = "purged"
    OBVIOUS
  <2> QED BY <1>6, <2>1, <2>2, <2>3, BlobsStillMatch
<1>9. PurgesFollow' /\ FinitelyMany'
  BY <1>2 DEF PurgesFollow, FinitelyMany, Counted
<1> QED BY <1>3, <1>4, <1>5, <1>7, <1>8, <1>9

LEMMA TransferRows ==
  ASSUME TypeOK, NEW t \in Transfers
  PROVE  /\ IdleTransfer \in Transfer /\ transfer[t] \in Transfer
         /\ IdleTransfer.at = "idle" /\ IdleTransfer.key = Null
         /\ \A at \in {"streaming", "stopped", "refused", "aborting"} :
              /\ [transfer[t] EXCEPT !.at = at] \in Transfer
              /\ [transfer[t] EXCEPT !.at = at].at = at
              /\ [transfer[t] EXCEPT !.at = at].key = transfer[t].key
              /\ [transfer[t] EXCEPT !.at = at].comp = transfer[t].comp
              /\ SetTransfer(t, at) <=>
                   transfer' = [transfer EXCEPT ![t] = [transfer[t] EXCEPT !.at = at]]
<1>1. transfer[t] \in Transfer
  BY DEF TypeOK
<1>2. \A at \in {"streaming", "stopped", "refused", "aborting"} :
              /\ [transfer[t] EXCEPT !.at = at] \in Transfer
              /\ [transfer[t] EXCEPT !.at = at].at = at
              /\ [transfer[t] EXCEPT !.at = at].key = transfer[t].key
              /\ [transfer[t] EXCEPT !.at = at].comp = transfer[t].comp
  BY <1>1 DEF Transfer
<1>3. \A at \in {"streaming", "stopped", "refused", "aborting"} :
         SetTransfer(t, at) <=>
           transfer' = [transfer EXCEPT ![t] = [transfer[t] EXCEPT !.at = at]]
  BY DEF SetTransfer, TypeOK
<1>4. IdleTransfer \in Transfer /\ IdleTransfer.at = "idle" /\ IdleTransfer.key = Null
  BY DEF IdleTransfer, Transfer
<1> QED BY <1>1, <1>2, <1>3, <1>4

(* A component that is awaited again was receiving. *)
LEMMA AwaitFits ==
  ASSUME IInv, NEW t \in Transfers, transfer[t].comp \in Components,
         AwaitAgain(t), UNCHANGED item
  PROVE  /\ comp' \in [Components -> ComponentRow] /\ ComponentsFollow'
         /\ \A c \in Components : /\ comp'[c].blob = comp[c].blob
                                  /\ comp'[c].reserved = comp[c].reserved
                                  /\ comp'[c].state \in {"awaiting", "receiving"} =>
                                       comp[c].state \in {"awaiting", "receiving"}
<1> USE DEF IInv
<1> DEFINE c == transfer[t].comp
           row == [comp[c] EXCEPT !.state = "awaiting", !.attempt = Null, !.fresh = FALSE]
<1>1. CASE FenceHeld(t)
  <2>1. comp' = [comp EXCEPT ![c] = row]
    BY <1>1 DEF AwaitAgain
  <2>2. comp[c] \in ComponentRow /\ "awaiting" \in ComponentStates
    BY DEF TypeOK, ComponentStates
  <2>3. row \in ComponentRow
    BY <2>2, Rows
  <2>4. row.state = "awaiting" /\ row.blob = comp[c].blob /\ row.reserved = comp[c].reserved
    BY <2>2 DEF ComponentRow
  <2>5. comp[c].state = "receiving"
    BY <1>1 DEF FenceHeld
  <2> HIDE DEF row
  <2>6. comp' \in [Components -> ComponentRow]
    BY <2>1, <2>3 DEF TypeOK
  <2>7. comp'[c] = row /\ \A d \in Components \ {c} : comp'[d] = comp[d]
    BY <2>1 DEF TypeOK
  <2>8. ComponentsFollow'
    <3> SUFFICES ASSUME NEW d \in Components PROVE ComponentFollows(d)'
      BY DEF ComponentsFollow
    <3>1. ComponentFollows(d)
      BY DEF ComponentsFollow
    <3>2. CASE d = c
      BY <2>4, <2>5, <2>7, <3>1, <3>2 DEF ComponentFollows
    <3>3. CASE d # c
      BY <2>7, <3>1, <3>3 DEF ComponentFollows
    <3> QED BY <3>2, <3>3
  <2> QED BY <2>4, <2>5, <2>6, <2>7, <2>8
<1>2. CASE ~ FenceHeld(t)
  <2>1. comp' = comp
    BY <1>2 DEF AwaitAgain, TypeOK
  <2> QED BY <2>1 DEF TypeOK, ComponentsFollow, ComponentFollows
<1> QED BY <1>1, <1>2

LEMMA BeginFits ==
  ASSUME IInv, NEW t \in Transfers, NEW c \in Components, BeginUpload(t, c)
  PROVE  IInv'
<1> USE DEF IInv
<1> DEFINE row == [comp[c] EXCEPT !.state = "receiving", !.attempt = t, !.fresh = TRUE]
           streaming == [at |-> "streaming", comp |-> c, key |-> Null]
<1>1. /\ item[ItemOf[c]] = "awaiting_upload" /\ comp[c].state \in {"awaiting", "receiving"}
      /\ comp' = [comp EXCEPT ![c].state = "receiving", ![c].attempt = t, ![c].fresh = TRUE]
      /\ transfer' = [transfer EXCEPT ![t] = streaming]
      /\ UNCHANGED <<item, blob, derived, refs, holder, capacity, store, output, purge>>
  BY DEF BeginUpload
<1>2. comp[c] \in ComponentRow /\ "receiving" \in ComponentStates
  BY DEF TypeOK, ComponentStates
<1>3. row \in ComponentRow /\ row.state = "receiving" /\ row.blob = comp[c].blob
  <2>1. row \in ComponentRow
    BY <1>2, Rows
  <2>2. row.state = "receiving" /\ row.blob = comp[c].blob
    BY <1>2 DEF ComponentRow
  <2> QED BY <2>1, <2>2
<1>4. comp' = [comp EXCEPT ![c] = row]
  BY <1>1 DEF TypeOK
<1> HIDE DEF row
<1>5. /\ comp' \in [Components -> ComponentRow] /\ comp'[c] = row
      /\ \A d \in Components \ {c} : comp'[d] = comp[d]
  BY <1>3, <1>4 DEF TypeOK
<1>6. ComponentsFollow'
  <2> SUFFICES ASSUME NEW d \in Components PROVE ComponentFollows(d)'
    BY DEF ComponentsFollow
  <2>1. ComponentFollows(d)
    BY DEF ComponentsFollow
  <2>2. CASE d = c
    BY <1>1, <1>3, <1>5, <2>1, <2>2 DEF ComponentFollows
  <2>3. CASE d # c
    BY <1>1, <1>5, <2>1, <2>3 DEF ComponentFollows
  <2> QED BY <2>2, <2>3
<1>7. streaming \in Transfer /\ streaming.at = "streaming" /\ streaming.key = Null
      /\ streaming.comp = c
  BY DEF Transfer
<1>8. \A d \in Components : comp'[d].blob = comp[d].blob
  BY <1>3, <1>5
<1> HIDE DEF streaming
<1> QED BY <1>1, <1>5, <1>6, <1>7, <1>8, TransferFits

(* A new file in the store. *)
LEMMA NewFileFits ==
  ASSUME IInv, NEW b \in Blobs, Unused(b), store' = store \cup {b},
         UNCHANGED <<item, comp, blob, derived, purge>>
  PROVE  /\ UsesAreOwn' /\ BlobsMatchTheStore' /\ PurgesFollow' /\ FinitelyMany'
         /\ ComponentsFollow'
<1> USE DEF IInv
<1>1. \A i \in Items : Uses(i)' \subseteq Uses(i)
  BY UsesShrink
<1>2. UsesAreOwn'
  BY <1>1, UsesStayOwn
<1>3. BlobsMatchTheStore'
  <2>1. \A i \in Items : item[i] = "purged" => item'[i] = "purged"
    OBVIOUS
  <2>2. \A d \in store' \ store : blob[d].state # "purged"
    BY DEF Unused
  <2> QED BY <1>1, <2>1, <2>2, BlobsStillMatch
<1>4. PurgesFollow' /\ FinitelyMany' /\ ComponentsFollow'
  BY DEF PurgesFollow, FinitelyMany, Counted, ComponentsFollow, ComponentFollows, Unused
<1> QED BY <1>2, <1>3, <1>4

LEMMA StreamStoredFits ==
  ASSUME IInv, NEW t \in Transfers, StreamStored(t)
  PROVE  IInv'
<1> USE DEF IInv
<1>1. PICK b \in Blobs :
        /\ transfer[t].at = "streaming" /\ Unused(b) /\ store' = store \cup {b}
        /\ transfer' = [transfer EXCEPT ![t].at = "stored", ![t].key = b]
        /\ UNCHANGED <<item, comp, blob, derived, refs, holder, capacity, output, purge>>
  BY DEF StreamStored
<1>2. /\ transfer'[t] = [transfer[t] EXCEPT !.at = "stored", !.key = b]
      /\ \A u \in Transfers \ {t} : transfer'[u] = transfer[u]
      /\ transfer' = [u \in Transfers |-> transfer'[u]]
  BY <1>1 DEF TypeOK
<1>3. transfer[t] \in Transfer /\ transfer[t].comp \in Components
  BY <1>1 DEF TypeOK, FilesInFlight
<1>4. /\ transfer'[t] \in Transfer /\ transfer'[t].at = "stored" /\ transfer'[t].key = b
      /\ transfer'[t].comp = transfer[t].comp
  BY <1>2, <1>3 DEF Transfer
<1>5. transfer' \in [Transfers -> Transfer]
  BY <1>2, <1>4 DEF TypeOK
<1>6. TypeOK'
  BY <1>1, <1>5 DEF TypeOK
<1>7. FilesInFlight'
  <2>0. blob[b].state = "absent" /\ b \in store'
    BY <1>1 DEF Unused
  <2>1. ASSUME NEW u \in Transfers
        PROVE  /\ transfer'[u].at # "idle" => transfer'[u].comp \in Components
               /\ transfer'[u].at \in {"idle", "streaming"} => transfer'[u].key = Null
               /\ transfer'[u].at \in {"stored", "stopped", "refused"} =>
                    transfer'[u].key \in Blobs /\ blob'[transfer'[u].key].state = "absent"
               /\ transfer'[u].at = "stored" => transfer'[u].key \in store'
    <3>1. CASE u = t
      BY <1>1, <1>3, <1>4, <2>0, <3>1
    <3>2. CASE u # t
      BY <1>1, <1>2, <3>2 DEF FilesInFlight
    <3> QED BY <3>1, <3>2
  <2>2. ASSUME NEW i \in Items
        PROVE  /\ output'[i].mode = "none" => output'[i].key = Null
               /\ output'[i].mode # "none" =>
                    /\ output'[i].key \in Blobs /\ blob'[output'[i].key].state = "absent"
                    /\ output'[i].key \in store'
    BY <1>1 DEF FilesInFlight
  <2> QED BY <2>1, <2>2 DEF FilesInFlight
<1>8. KeysAreOwn'
  <2>1. /\ \A u \in Transfers \ {t} : transfer[u].key # b
        /\ \A i \in Items : output[i].key # b
    BY <1>1 DEF Unused
  <2>2. \A u, v \in Transfers :
           transfer'[u].key # Null /\ transfer'[u].key = transfer'[v].key => u = v
    <3>1. TAKE u, v \in Transfers
    <3>2. transfer[u].key # Null /\ transfer[u].key = transfer[v].key => u = v
      BY DEF KeysAreOwn
    <3>3. u # t => transfer'[u] = transfer[u] /\ transfer[u].key # b
      BY <1>2, <2>1
    <3>4. v # t => transfer'[v] = transfer[v] /\ transfer[v].key # b
      BY <1>2, <2>1
    <3> QED BY <1>4, <3>2, <3>3, <3>4
  <2>3. \A i, j \in Items : output'[i].key # Null /\ output'[i].key = output'[j].key => i = j
    BY <1>1 DEF KeysAreOwn
  <2>4. \A u \in Transfers, i \in Items :
           transfer'[u].key # Null => transfer'[u].key # output'[i].key
    <3>1. TAKE u \in Transfers, i \in Items
    <3>2. transfer[u].key # Null => transfer[u].key # output[i].key
      BY DEF KeysAreOwn
    <3>3. u # t => transfer'[u] = transfer[u]
      BY <1>2
    <3> QED BY <1>1, <1>4, <2>1, <3>2, <3>3
  <2> QED BY <2>2, <2>3, <2>4 DEF KeysAreOwn
<1> QED BY <1>1, <1>6, <1>7, <1>8, NewFileFits

LEMMA ProcessorStoresFits ==
  ASSUME IInv, NEW i \in Items, ProcessorStores(i)
  PROVE  IInv'
<1> USE DEF IInv
<1>1. PICK b \in Blobs :
        /\ Unused(b) /\ store' = store \cup {b}
        /\ output' = [output EXCEPT ![i] =
              [mode |-> IF item[i] = "processing" THEN "process" ELSE "derive", key |-> b]]
        /\ UNCHANGED <<item, comp, blob, derived, refs, holder, capacity, transfer, purge>>
  BY DEF ProcessorStores
<1>2. /\ output' \in [Items -> Output] /\ output'[i].key = b /\ output'[i].mode # "none"
      /\ \A j \in Items \ {i} : output'[j] = output[j]
  BY <1>1 DEF TypeOK, Output
<1>3. TypeOK'
  BY <1>1, <1>2 DEF TypeOK
<1>4. FilesInFlight'
  BY <1>1, <1>2 DEF FilesInFlight, Unused
<1>5. KeysAreOwn'
  BY <1>1, <1>2 DEF KeysAreOwn, Unused
<1> QED BY <1>1, <1>3, <1>4, <1>5, NewFileFits

-----------------------------------------------------------------------------
(* The component whose upload is recorded was receiving without a blob. *)
LEMMA RecordRows ==
  ASSUME IInv, NEW t \in Transfers, transfer[t].at = "stored",
         CommitOutcome(t) = "committed", RecordUpload(t)
  PROVE  LET c == transfer[t].comp
             moved == IF Size[c] < comp[c].reserved THEN Size[c] ELSE comp[c].reserved
         IN /\ c \in Components /\ moved \in Nat /\ moved <= comp[c].reserved
            /\ comp[c].state = "receiving" /\ comp[c].blob = Null
            /\ item[ItemOf[c]] = "awaiting_upload"
            /\ comp' \in [Components -> ComponentRow]
            /\ comp'[c].state = "received" /\ comp'[c].blob = transfer[t].key
            /\ comp'[c].reserved = comp[c].reserved - moved
            /\ \A d \in Components \ {c} : comp'[d] = comp[d]
            /\ item' = [item EXCEPT ![ItemOf[c]] =
                  IF \A d \in ComponentsOf(ItemOf[c]) \ {c} : comp[d].state \in {"received", "verified"}
                  THEN "processing" ELSE @]
            /\ CommitBlob(transfer[t].key, Size[c]) /\ AdjustCapacity(Size[c], - moved)
<1> USE DEF IInv
<1> DEFINE c == transfer[t].comp
           moved == IF Size[c] < comp[c].reserved THEN Size[c] ELSE comp[c].reserved
           row == [comp[c] EXCEPT !.state = "received", !.attempt = Null,
                                  !.blob = transfer[t].key,
                                  !.reserved = comp[c].reserved - moved, !.fresh = FALSE]
<1>1. c \in Components /\ transfer[t].key \in Blobs
  BY DEF FilesInFlight
<1>2. /\ item[ItemOf[c]] = "awaiting_upload" /\ comp[c].state = "receiving"
  BY DEF CommitOutcome, FenceHeld
<1>3. comp[c] \in ComponentRow /\ "received" \in ComponentStates /\ comp[c].reserved \in Nat
  BY <1>1 DEF TypeOK, ComponentStates, ComponentRow
<1>4. moved \in Nat /\ moved <= comp[c].reserved /\ comp[c].reserved - moved \in Nat
  BY <1>1, <1>3, SizeAssumption
<1>5. comp[c].blob = Null
  BY <1>1, <1>2 DEF ComponentsFollow, ComponentFollows
<1>6. /\ comp' = [comp EXCEPT ![c].state = "received", ![c].attempt = Null,
                              ![c].blob = transfer[t].key, ![c].reserved = @ - moved,
                              ![c].fresh = FALSE]
      /\ item' = [item EXCEPT ![ItemOf[c]] =
                  IF \A d \in ComponentsOf(ItemOf[c]) \ {c} : comp[d].state \in {"received", "verified"}
                  THEN "processing" ELSE @]
      /\ CommitBlob(transfer[t].key, Size[c]) /\ AdjustCapacity(Size[c], - moved)
  BY DEF RecordUpload
<1>7. comp' = [comp EXCEPT ![c] = row]
  <2> HIDE DEF moved
  <2> QED BY <1>1, <1>6 DEF TypeOK
<1>8. /\ row \in ComponentRow /\ row.state = "received" /\ row.blob = transfer[t].key
      /\ row.reserved = comp[c].reserved - moved
  <2>1. /\ row.state = "received" /\ row.blob = transfer[t].key
        /\ row.reserved = comp[c].reserved - moved
    BY <1>3 DEF ComponentRow
  <2> DEFINE n == comp[c].reserved - moved
  <2>2. n \in Nat
    BY <1>4
  <2> HIDE DEF n
  <2>3. [comp[c] EXCEPT !.state = "received", !.attempt = Null, !.blob = transfer[t].key,
                        !.reserved = n, !.fresh = FALSE] \in ComponentRow
    BY <1>1, <1>3, <2>2, Rows
  <2> QED BY <2>1, <2>3 DEF n
<1> HIDE DEF row
<1>9. /\ comp' \in [Components -> ComponentRow] /\ comp'[c] = row
      /\ \A d \in Components \ {c} : comp'[d] = comp[d]
  BY <1>1, <1>7, <1>8 DEF TypeOK
<1> QED BY <1>1, <1>2, <1>4, <1>5, <1>6, <1>8, <1>9

LEMMA RecordFits ==
  ASSUME IInv, NEW t \in Transfers, transfer[t].at = "stored",
         CommitOutcome(t) = "committed", RecordUpload(t),
         NEW row \in Transfer, row.at \in {"idle", "aborting"}, row.key \in {transfer[t].key, Null},
         row.at = "idle" => row.key = Null, row.at # "idle" => row.comp \in Components,
         transfer' = [transfer EXCEPT ![t] = row],
         UNCHANGED <<derived, refs, holder, store, output, purge>>
  PROVE  IInv'
<1> USE DEF IInv
<1>0. PICK c \in Components, b \in Blobs, i \in Items :
        c = transfer[t].comp /\ b = transfer[t].key /\ i = ItemOf[c]
  BY ComponentAssumption DEF FilesInFlight
<1> DEFINE moved == IF Size[c] < comp[c].reserved THEN Size[c] ELSE comp[c].reserved
           complete == \A d \in ComponentsOf(i) \ {c} : comp[d].state \in {"received", "verified"}
<1>1. /\ c \in Components /\ moved \in Nat
      /\ comp[c].blob = Null /\ item[i] = "awaiting_upload"
      /\ comp' \in [Components -> ComponentRow]
      /\ comp'[c].state = "received" /\ comp'[c].blob = b
      /\ \A d \in Components \ {c} : comp'[d] = comp[d]
      /\ item' = [item EXCEPT ![i] = IF complete THEN "processing" ELSE @]
      /\ CommitBlob(b, Size[c]) /\ AdjustCapacity(Size[c], - moved)
  BY <1>0, RecordRows
<1> HIDE DEF moved
<1>2. b \in Blobs /\ blob[b].state = "absent" /\ b \in store /\ b # Null
  BY <1>0, NullAssumption DEF FilesInFlight
<1>3. i \in Items /\ Size[c] \in Nat /\ - moved \in Int
  BY <1>1, SizeAssumption
<1>4. capacity' \in [committed : Nat, reserved : Nat]
  BY <1>1, <1>3, CapacityType
<1>5. /\ item' \in [Items -> ItemStates] /\ \A j \in Items \ {i} : item'[j] = item[j]
      /\ item'[i] = IF complete THEN "processing" ELSE "awaiting_upload"
  <2> HIDE DEF complete
  <2> QED BY <1>1, <1>3 DEF TypeOK, ItemStates
<1>6. Uses(i)' \subseteq Uses(i) \cup {b} /\ \A j \in Items \ {i} : Uses(j)' \subseteq Uses(j)
  <2>1. ASSUME NEW j \in Items, NEW d \in Uses(j)', d \notin Uses(j) PROVE j = i /\ d = b
    <3>1. PICK e \in Components : ItemOf[e] = j /\ comp'[e].blob # Null /\ d = comp'[e].blob
      BY <2>1 DEF Uses, ComponentsOf
    <3>2. comp'[e].blob # comp[e].blob
      BY <2>1, <3>1 DEF Uses, ComponentsOf
    <3> QED BY <1>0, <1>1, <3>1, <3>2
  <2> QED BY <1>3, <2>1
<1>7. /\ UsesAreOwn' /\ BlobsMatchTheStore' /\ PurgesFollow' /\ FinitelyMany'
      /\ blob' \in [Blobs -> BlobRow]
  <2>1. item[i] # "purged" /\ CommitBlob(b, Size[c]) /\ UNCHANGED <<store, purge>>
    BY <1>1
  <2>2. \A j \in Items \ {i} : Uses(j)' \subseteq Uses(j) /\ item'[j] = item[j]
    BY <1>5, <1>6
  <2> HIDE DEF complete
  <2> QED BY <1>2, <1>3, <1>6, <2>1, <2>2, CommittedFits
<1>8. /\ transfer' \in [Transfers -> Transfer] /\ transfer'[t] = row
      /\ \A u \in Transfers \ {t} : transfer'[u] = transfer[u]
  BY DEF TypeOK
<1>9. TypeOK'
  BY <1>1, <1>4, <1>5, <1>7, <1>8 DEF TypeOK
<1>10. KeysAreOwn'
  <2>1. \A u \in Transfers : transfer'[u].key # Null => transfer'[u].key = transfer[u].key
    BY <1>8
  <2> QED BY <2>1 DEF KeysAreOwn
<1>11. FilesInFlight'
  <2>0. \A d \in Blobs \ {b} : blob'[d] = blob[d]
    BY <1>1 DEF CommitBlob, TypeOK
  <2>1. ASSUME NEW u \in Transfers
        PROVE  /\ transfer'[u].at # "idle" => transfer'[u].comp \in Components
               /\ transfer'[u].at \in {"idle", "streaming"} => transfer'[u].key = Null
               /\ transfer'[u].at \in {"stored", "stopped", "refused"} =>
                    transfer'[u].key \in Blobs /\ blob'[transfer'[u].key].state = "absent"
               /\ transfer'[u].at = "stored" => transfer'[u].key \in store'
    <3>1. CASE u = t
      BY <1>8, <3>1
    <3>2. CASE u # t
      <4>1. transfer[u].key # b
        BY <1>0, <1>2, <3>2 DEF KeysAreOwn
      <4> QED BY <1>8, <2>0, <3>2, <4>1 DEF FilesInFlight
    <3> QED BY <3>1, <3>2
  <2>2. ASSUME NEW j \in Items
        PROVE  /\ output'[j].mode = "none" => output'[j].key = Null
               /\ output'[j].mode # "none" =>
                    /\ output'[j].key \in Blobs /\ blob'[output'[j].key].state = "absent"
                    /\ output'[j].key \in store'
    <3>1. output[j].key # b
      BY <1>0, <1>2 DEF KeysAreOwn
    <3> QED BY <2>0, <3>1 DEF FilesInFlight
  <2> QED BY <2>1, <2>2 DEF FilesInFlight
<1>12. ComponentsFollow'
  <2> SUFFICES ASSUME NEW d \in Components PROVE ComponentFollows(d)'
    BY DEF ComponentsFollow
  <2>1. ComponentFollows(d) /\ ItemOf[d] \in Items
    BY ComponentAssumption DEF ComponentsFollow
  <2>2. CASE d = c
    BY <1>0, <1>1, <1>2, <1>5, <2>2 DEF ComponentFollows
  <2>3. CASE d # c
    <3>1. comp'[d] = comp[d]
      BY <1>1, <2>3
    <3>2. CASE ItemOf[d] = i
      <4>1. complete => comp[d].state \in {"received", "verified"}
        BY <1>0, <2>3, <3>2 DEF ComponentsOf
      <4> QED BY <1>1, <1>5, <2>1, <3>1, <3>2, <4>1 DEF ComponentFollows
    <3>3. CASE ItemOf[d] # i
      <4>1. item'[ItemOf[d]] = item[ItemOf[d]]
        BY <1>5, <2>1, <3>3
      <4> QED BY <2>1, <3>1, <4>1 DEF ComponentFollows
    <3> QED BY <3>2, <3>3
  <2> QED BY <2>2, <2>3
<1> QED BY <1>7, <1>9, <1>10, <1>11, <1>12

(* A commit, whether its answer arrives or not. *)
LEMMA CommitFits ==
  ASSUME IInv, NEW t \in Transfers, CommitUpload(t) \/ CommitUnknown(t)
  PROVE  IInv'
<1> USE DEF IInv
<1>1. /\ transfer[t].at = "stored" /\ transfer[t].comp \in Components
      /\ transfer[t].key \in Blobs /\ blob[transfer[t].key].state = "absent"
      /\ UNCHANGED <<derived, refs, holder, store, output, purge>>
      /\ CommitTransaction(t) \/ UNCHANGED <<item, comp, blob, capacity>>
  BY DEF CommitUpload, CommitUnknown, FilesInFlight
<1> DEFINE row == IF CommitUpload(t) THEN IF CommitOutcome(t) = "committed" THEN IdleTransfer
                                          ELSE [transfer[t] EXCEPT !.at = "refused"]
                  ELSE [transfer[t] EXCEPT !.at = "aborting"]
<1>2. /\ transfer' = [transfer EXCEPT ![t] = row] /\ row \in Transfer
      /\ row.at \in {"idle", "refused", "aborting"} /\ row.key \in {transfer[t].key, Null}
      /\ row.at = "idle" => row.key = Null
      /\ row.at # "idle" => row.key = transfer[t].key /\ row.comp = transfer[t].comp
      /\ CommitOutcome(t) = "committed" => row.at # "refused"
  <2>1. CASE CommitUpload(t) /\ CommitOutcome(t) = "committed"
    <3>1. transfer' = [transfer EXCEPT ![t] = IdleTransfer]
      BY <2>1 DEF CommitUpload, EndTransfer
    <3> QED BY <2>1, <3>1, TransferRows
  <2>2. CASE CommitUpload(t) /\ CommitOutcome(t) # "committed"
    <3>1. SetTransfer(t, "refused")
      BY <2>2 DEF CommitUpload
    <3> QED BY <2>2, <3>1, TransferRows
  <2>3. CASE ~ CommitUpload(t)
    <3>1. SetTransfer(t, "aborting")
      BY <2>3 DEF CommitUnknown
    <3> QED BY <2>3, <3>1, TransferRows
  <2> QED BY <2>1, <2>2, <2>3
<1> HIDE DEF row
<1>3. CASE CommitOutcome(t) = "committed" /\ CommitTransaction(t)
  <2>1. RecordUpload(t)
    BY <1>3 DEF CommitTransaction
  <2> QED BY <1>1, <1>2, <1>3, <2>1, RecordFits
<1>4. CASE ~ (CommitOutcome(t) = "committed" /\ CommitTransaction(t))
  <2>1. \/ AwaitAgain(t) /\ UNCHANGED <<item, blob, capacity>>
        \/ UNCHANGED <<item, comp, blob, capacity>>
    BY <1>1, <1>4 DEF CommitTransaction
  <2>2. /\ comp' \in [Components -> ComponentRow] /\ ComponentsFollow'
        /\ \A c \in Components : comp'[c].blob = comp[c].blob
        /\ UNCHANGED <<item, blob, capacity>>
    <3>1. CASE AwaitAgain(t) /\ UNCHANGED <<item, blob, capacity>>
      BY <1>1, <3>1, AwaitFits
    <3>2. CASE UNCHANGED <<item, comp, blob, capacity>>
      BY <3>2 DEF TypeOK, ComponentsFollow, ComponentFollows
    <3> QED BY <2>1, <3>1, <3>2
  <2> QED BY <1>1, <1>2, <2>2, TransferFits
<1> QED BY <1>3, <1>4

LEMMA UploadFits ==
  ASSUME IInv, NEW t \in Transfers, UploadStep(t)
  PROVE  IInv'
<1> USE DEF IInv
<1>0. /\ transfer[t].at # "idle" => transfer[t].comp \in Components
      /\ transfer[t].at \in {"stored", "stopped", "refused"} =>
            transfer[t].key \in Blobs /\ blob[transfer[t].key].state = "absent"
  BY DEF FilesInFlight
<1>1. comp \in [Components -> ComponentRow]
  BY DEF TypeOK
<1>2. ASSUME NEW c \in Components, BeginUpload(t, c) PROVE IInv'
  BY <1>2, BeginFits
<1>3. CASE StreamStored(t)
  BY <1>3, StreamStoredFits
<1>4. CASE CommitUpload(t) \/ CommitUnknown(t)
  BY <1>4, CommitFits
<1>5. ASSUME NEW row \in Transfer,
             transfer' = [transfer EXCEPT ![t] = row],
             row.at # "stored", row.key \in {transfer[t].key, Null},
             row.at # "idle" => row.comp \in Components,
             row.at \in {"idle", "streaming"} => row.key = Null,
             row.at \in {"stopped", "refused"} =>
                row.key \in Blobs /\ blob[row.key].state = "absent",
             \/ store' = store
             \/ /\ store' = store \ {transfer[t].key}
                /\ transfer[t].key \in Blobs /\ blob[transfer[t].key].state = "absent",
             UNCHANGED <<item, comp, blob, derived, refs, holder, capacity, output, purge>>
      PROVE  IInv'
  <2>1. comp' \in [Components -> ComponentRow] /\ ComponentsFollow'
    BY <1>1, <1>5 DEF ComponentsFollow, ComponentFollows
  <2>2. \A c \in Components : comp'[c].blob = comp[c].blob
    BY <1>5
  <2> QED BY <1>5, <2>1, <2>2, TransferFits
<1>6. CASE StreamEnds(t)
  <2>1. /\ transfer[t].at = "streaming" /\ SetTransfer(t, "aborting")
        /\ UNCHANGED <<item, comp, blob, derived, refs, holder, capacity, store, output, purge>>
    BY <1>6 DEF StreamEnds
  <2> QED BY <1>0, <1>5, <2>1, TransferRows
<1>7. CASE StoppedAfterStore(t)
  <2>1. /\ transfer[t].at = "stored" /\ SetTransfer(t, "stopped")
        /\ UNCHANGED <<item, comp, blob, derived, refs, holder, capacity, store, output, purge>>
    BY <1>7 DEF StoppedAfterStore
  <2> DEFINE row == [transfer[t] EXCEPT !.at = "stopped"]
  <2>2. /\ row \in Transfer /\ row.at = "stopped" /\ row.key = transfer[t].key
        /\ row.comp = transfer[t].comp /\ transfer' = [transfer EXCEPT ![t] = row]
    BY <2>1, TransferRows
  <2> HIDE DEF row
  <2> QED BY <1>0, <1>5, <2>1, <2>2
<1>8. CASE RemoveQuietly(t)
  <2>1. /\ transfer[t].at \in {"stopped", "refused"}
        /\ store' \in {store, store \ {transfer[t].key}}
        /\ \/ SetTransfer(t, "aborting")
           \/ transfer' = [transfer EXCEPT ![t] = IdleTransfer]
        /\ UNCHANGED <<item, comp, blob, derived, refs, holder, capacity, output, purge>>
    BY <1>8 DEF RemoveQuietly, EndTransfer
  <2>2. CASE SetTransfer(t, "aborting")
    <3> DEFINE row == [transfer[t] EXCEPT !.at = "aborting"]
    <3>1. /\ row \in Transfer /\ row.at = "aborting" /\ row.key = transfer[t].key
          /\ row.comp = transfer[t].comp /\ transfer' = [transfer EXCEPT ![t] = row]
      BY <2>2, TransferRows
    <3> HIDE DEF row
    <3> QED BY <1>0, <1>5, <2>1, <3>1
  <2>3. CASE transfer' = [transfer EXCEPT ![t] = IdleTransfer]
    <3>1. IdleTransfer \in Transfer /\ IdleTransfer.at = "idle" /\ IdleTransfer.key = Null
      BY TransferRows
    <3> QED BY <1>0, <1>5, <2>1, <2>3, <3>1
  <2> QED BY <2>1, <2>2, <2>3
<1>9. CASE AbortUpload(t)
  <2>1. /\ transfer[t].at = "aborting" /\ AwaitAgain(t)
        /\ transfer' = [transfer EXCEPT ![t] = IdleTransfer]
        /\ UNCHANGED <<item, blob, derived, refs, holder, capacity, store, output, purge>>
    BY <1>9 DEF AbortUpload, EndTransfer
  <2>2. /\ comp' \in [Components -> ComponentRow] /\ ComponentsFollow'
        /\ \A c \in Components : comp'[c].blob = comp[c].blob
    BY <1>0, <2>1, AwaitFits
  <2>3. IdleTransfer \in Transfer /\ IdleTransfer.at = "idle" /\ IdleTransfer.key = Null
    BY TransferRows
  <2> QED BY <2>1, <2>2, <2>3, TransferFits
<1>10. CASE TransferDies(t)
  <2>1. /\ transfer' = [transfer EXCEPT ![t] = IdleTransfer]
        /\ UNCHANGED <<item, comp, blob, derived, refs, holder, capacity, store, output, purge>>
    BY <1>10 DEF TransferDies, EndTransfer
  <2> QED BY <1>5, <2>1, TransferRows
<1> QED BY <1>2, <1>3, <1>4, <1>6, <1>7, <1>8, <1>9, <1>10 DEF UploadStep

-----------------------------------------------------------------------------
(* Derivative files: recorded, dropped, or released. *)
LEMMA DerivedFits ==
  ASSUME IInv, NEW i \in Items, NEW b \in Blobs, output[i].mode # "none", output[i].key = b,
         item[i] # "purged", CommitBlob(b, DerivedSize),
         \/ derived' = [derived EXCEPT ![i].base = {b}]
         \/ derived' = [derived EXCEPT ![i].edit = {b}],
         output' = [output EXCEPT ![i] = NoOutput],
         item' \in [Items -> ItemStates], \A j \in Items \ {i} : item'[j] = item[j],
         comp' \in [Components -> ComponentRow], ComponentsFollow',
         \A c \in Components : comp'[c].blob = comp[c].blob,
         capacity' \in [committed : Nat, reserved : Nat],
         UNCHANGED <<refs, holder, store, transfer, purge>>
  PROVE  IInv'
<1> USE DEF IInv
<1>1. b # Null /\ blob[b].state = "absent" /\ b \in store
  BY NullAssumption DEF FilesInFlight
<1>2. DerivedSize \in Nat
  BY SizeAssumption
<1>3. /\ derived' \in [Items -> [base : SUBSET Blobs, edit : SUBSET Blobs]]
      /\ \A j \in Items \ {i} : derived'[j] = derived[j]
      /\ derived'[i].base \subseteq derived[i].base \cup {b}
      /\ derived'[i].edit \subseteq derived[i].edit \cup {b}
  <2>0. derived \in [Items -> [base : SUBSET Blobs, edit : SUBSET Blobs]]
    BY DEF TypeOK
  <2> HIDE DEF IInv
  <2>1. CASE derived' = [derived EXCEPT ![i].base = {b}]
    BY <2>0, <2>1
  <2>2. CASE derived' = [derived EXCEPT ![i].edit = {b}]
    BY <2>0, <2>2
  <2> QED BY <2>1, <2>2
<1>4. Uses(i)' \subseteq Uses(i) \cup {b} /\ \A j \in Items \ {i} : Uses(j)' \subseteq Uses(j)
  BY <1>3 DEF Uses, ComponentsOf
<1>5. /\ UsesAreOwn' /\ BlobsMatchTheStore' /\ PurgesFollow' /\ FinitelyMany'
      /\ blob' \in [Blobs -> BlobRow]
  <2>1. \A j \in Items \ {i} : Uses(j)' \subseteq Uses(j) /\ item'[j] = item[j]
    BY <1>4
  <2> QED BY <1>1, <1>2, <1>4, <2>1, CommittedFits
<1>6. /\ output' \in [Items -> Output] /\ output'[i].mode = "none" /\ output'[i].key = Null
      /\ \A j \in Items \ {i} : output'[j] = output[j]
  BY DEF TypeOK, Output, NoOutput
<1>7. TypeOK'
  BY <1>3, <1>5, <1>6 DEF TypeOK
<1>8. KeysAreOwn'
  <2>1. \A j \in Items : output'[j].key # Null => output'[j].key = output[j].key
    BY <1>6
  <2> QED BY <2>1 DEF KeysAreOwn
<1>9. FilesInFlight'
  <2>0. \A d \in Blobs \ {b} : blob'[d] = blob[d]
    BY DEF CommitBlob, TypeOK
  <2>1. ASSUME NEW u \in Transfers
        PROVE  /\ transfer'[u].at # "idle" => transfer'[u].comp \in Components
               /\ transfer'[u].at \in {"idle", "streaming"} => transfer'[u].key = Null
               /\ transfer'[u].at \in {"stored", "stopped", "refused"} =>
                    transfer'[u].key \in Blobs /\ blob'[transfer'[u].key].state = "absent"
               /\ transfer'[u].at = "stored" => transfer'[u].key \in store'
    <3>1. transfer[u].key # b
      BY <1>1 DEF KeysAreOwn
    <3> QED BY <2>0, <3>1 DEF FilesInFlight
  <2>2. ASSUME NEW j \in Items
        PROVE  /\ output'[j].mode = "none" => output'[j].key = Null
               /\ output'[j].mode # "none" =>
                    /\ output'[j].key \in Blobs /\ blob'[output'[j].key].state = "absent"
                    /\ output'[j].key \in store'
    <3>1. CASE j = i
      BY <1>6, <3>1
    <3>2. CASE j # i
      <4>1. output[j].key # b
        BY <1>1, <3>2 DEF KeysAreOwn
      <4> QED BY <1>6, <2>0, <3>2, <4>1 DEF FilesInFlight
    <3> QED BY <3>1, <3>2
  <2> QED BY <2>1, <2>2 DEF FilesInFlight
<1> QED BY <1>5, <1>7, <1>8, <1>9

LEMMA ReadyRows ==
  ASSUME IInv, NEW i \in Items, MarkItemReady(i)
  PROVE  /\ item[i] = "processing" /\ item' = [item EXCEPT ![i] = "ready"]
         /\ comp' \in [Components -> ComponentRow]
         /\ \A c \in Components :
              /\ comp'[c].blob = comp[c].blob
              /\ ItemOf[c] # i => comp'[c] = comp[c]
              /\ ItemOf[c] = i => /\ comp'[c].reserved = 0
                                  /\ comp'[c].state = "verified" /\ comp'[c].blob # Null
<1> USE DEF IInv
<1>1. /\ item[i] = "processing" /\ item' = [item EXCEPT ![i] = "ready"]
      /\ comp' = [c \in Components |->
                    IF ItemOf[c] = i /\ comp[c].state = "received"
                    THEN [Released(i)[c] EXCEPT !.state = "verified"] ELSE Released(i)[c]]
  BY DEF MarkItemReady
<1>2. ASSUME NEW c \in Components
      PROVE  /\ comp'[c] \in ComponentRow /\ comp'[c].blob = comp[c].blob
             /\ ItemOf[c] # i => comp'[c] = comp[c]
             /\ ItemOf[c] = i => comp'[c].reserved = 0 /\ comp'[c].state = "verified"
                                 /\ comp'[c].blob # Null
  <2> DEFINE row == Released(i)[c]
             verified == [row EXCEPT !.state = "verified"]
  <2>1. /\ row \in ComponentRow /\ row.state = comp[c].state /\ row.blob = comp[c].blob
        /\ ItemOf[c] # i => row = comp[c]
        /\ ItemOf[c] = i => row.reserved = 0
    BY ReleasedRows
  <2>2. ItemOf[c] = i => comp[c].state \in {"received", "verified"} /\ comp[c].blob # Null
    BY <1>1 DEF ComponentsFollow, ComponentFollows
  <2>3. comp'[c] = IF ItemOf[c] = i /\ comp[c].state = "received" THEN verified ELSE row
    BY <1>1
  <2> HIDE DEF row
  <2>4. /\ verified \in ComponentRow /\ verified.state = "verified" /\ verified.blob = row.blob
        /\ verified.reserved = row.reserved
    <3>1. verified \in ComponentRow
      BY <2>1, RowSteps DEF ComponentStates
    <3> QED BY <2>1, <3>1 DEF ComponentRow
  <2> HIDE DEF verified
  <2> QED BY <2>1, <2>2, <2>3, <2>4
<1>3. comp' = [c \in Components |-> comp'[c]]
  BY <1>1
<1>4. comp' \in [Components -> ComponentRow]
  BY <1>2, <1>3
<1> QED BY <1>1, <1>2, <1>4

LEMMA ReadyFits ==
  ASSUME IInv, NEW i \in Items, MarkItemReady(i)
  PROVE  IInv'
<1> USE DEF IInv
<1>1. /\ output[i].mode = "process" /\ CommitBlob(output[i].key, DerivedSize)
      /\ derived' = [derived EXCEPT ![i].base = {output[i].key}]
      /\ AdjustCapacity(DerivedSize, - Reserved(ComponentsOf(i)))
      /\ output' = [output EXCEPT ![i] = NoOutput]
      /\ UNCHANGED <<refs, holder, store, transfer, purge>>
  BY DEF MarkItemReady
<1>2. PICK b \in Blobs : b = output[i].key
  BY <1>1 DEF FilesInFlight
<1>3. capacity' \in [committed : Nat, reserved : Nat]
  <2>1. - Reserved(ComponentsOf(i)) \in Int /\ DerivedSize \in Int
    BY SomeComponents, SizeAssumption DEF ComponentsOf
  <2> QED BY <1>1, <2>1, CapacityType
<1>4. item' \in [Items -> ItemStates] /\ item'[i] = "ready"
      /\ \A j \in Items \ {i} : item'[j] = item[j]
  BY ReadyRows DEF TypeOK, ItemStates
<1>5. ComponentsFollow'
  <2> SUFFICES ASSUME NEW c \in Components PROVE ComponentFollows(c)'
    BY DEF ComponentsFollow
  <2>1. ComponentFollows(c) /\ ItemOf[c] \in Items
    BY ComponentAssumption DEF ComponentsFollow
  <2>2. CASE ItemOf[c] = i
    BY <1>4, <2>2, ReadyRows DEF ComponentFollows
  <2>3. CASE ItemOf[c] # i
    <3>1. item'[ItemOf[c]] = item[ItemOf[c]] /\ comp'[c] = comp[c]
      BY <1>4, <2>1, <2>3, ReadyRows
    <3> QED BY <2>1, <3>1 DEF ComponentFollows
  <2> QED BY <2>2, <2>3
<1>6. /\ item[i] # "purged" /\ comp' \in [Components -> ComponentRow]
      /\ \A c \in Components : comp'[c].blob = comp[c].blob
  BY ReadyRows
<1> QED BY <1>1, <1>2, <1>3, <1>4, <1>5, <1>6, DerivedFits

LEMMA RecordDerivativesFits ==
  ASSUME IInv, NEW i \in Items, RecordDerivatives(i)
  PROVE  IInv'
<1> USE DEF IInv
<1>1. /\ output[i].mode = "derive" /\ item[i] = "ready" /\ CommitBlob(output[i].key, DerivedSize)
      /\ derived' = [derived EXCEPT ![i].edit = {output[i].key}]
      /\ AdjustCapacity(DerivedSize, 0)
      /\ output' = [output EXCEPT ![i] = NoOutput]
      /\ UNCHANGED <<item, comp, refs, holder, store, transfer, purge>>
  BY DEF RecordDerivatives
<1>2. PICK b \in Blobs : b = output[i].key
  BY <1>1 DEF FilesInFlight
<1>3. capacity' \in [committed : Nat, reserved : Nat]
  <2>1. 0 \in Int /\ DerivedSize \in Int
    BY SizeAssumption
  <2> QED BY <1>1, <2>1, CapacityType
<1>4. /\ item' \in [Items -> ItemStates] /\ \A j \in Items \ {i} : item'[j] = item[j]
      /\ comp' \in [Components -> ComponentRow] /\ ComponentsFollow'
      /\ \A c \in Components : comp'[c].blob = comp[c].blob
  BY <1>1 DEF TypeOK, ComponentsFollow, ComponentFollows
<1> QED BY <1>1, <1>2, <1>3, <1>4, DerivedFits

(* A file without a row that leaves the store. *)
LEMMA FileGone ==
  ASSUME IInv, NEW b \in Blobs, blob[b].state = "absent", store' \in {store, store \ {b}},
         UNCHANGED <<item, comp, blob, derived, purge>>
  PROVE  /\ UsesAreOwn' /\ BlobsMatchTheStore' /\ PurgesFollow' /\ FinitelyMany'
         /\ ComponentsFollow' /\ store' \subseteq Blobs
<1> USE DEF IInv
<1>1. \A i \in Items : Uses(i)' \subseteq Uses(i)
  BY UsesShrink
<1>2. UsesAreOwn'
  BY <1>1, UsesStayOwn
<1>3. BlobsMatchTheStore'
  <2>1. /\ \A d \in store : blob[d].state # "absent" => d \in store'
        /\ \A d \in store' \ store : blob[d].state # "purged"
        /\ \A i \in Items : item[i] = "purged" => item'[i] = "purged"
    OBVIOUS
  <2> QED BY <1>1, <2>1, BlobsStillMatch
<1>4. PurgesFollow' /\ FinitelyMany' /\ ComponentsFollow' /\ store' \subseteq Blobs
  BY DEF PurgesFollow, FinitelyMany, Counted, ComponentsFollow, ComponentFollows, TypeOK
<1> QED BY <1>2, <1>3, <1>4

LEMMA DropFits ==
  ASSUME IInv, NEW i \in Items, DropOutput(i)
  PROVE  IInv'
<1> USE DEF IInv
<1>1. /\ output[i] # NoOutput /\ store' \in {store, store \ {output[i].key}}
      /\ output' = [output EXCEPT ![i] = NoOutput]
      /\ UNCHANGED <<item, comp, blob, derived, refs, holder, capacity, transfer, purge>>
  BY DEF DropOutput
<1>2. output[i].mode # "none"
  <2>1. output[i] \in Output
    BY DEF TypeOK
  <2>2. output[i] = [mode |-> output[i].mode, key |-> output[i].key]
    BY <2>1 DEF Output
  <2> QED BY <1>1, <2>2 DEF FilesInFlight, NoOutput
<1>3. PICK b \in Blobs : b = output[i].key
  BY <1>2 DEF FilesInFlight
<1>4. b # Null /\ blob[b].state = "absent"
  BY <1>2, <1>3, NullAssumption DEF FilesInFlight
<1>5. /\ UsesAreOwn' /\ BlobsMatchTheStore' /\ PurgesFollow' /\ FinitelyMany'
      /\ ComponentsFollow' /\ store' \subseteq Blobs
  BY <1>1, <1>3, <1>4, FileGone
<1>6. /\ output' \in [Items -> Output] /\ output'[i].mode = "none" /\ output'[i].key = Null
      /\ \A j \in Items \ {i} : output'[j] = output[j]
  BY <1>1 DEF TypeOK, Output, NoOutput
<1>7. TypeOK'
  BY <1>1, <1>5, <1>6 DEF TypeOK
<1>8. KeysAreOwn'
  <2>1. \A j \in Items : output'[j].key # Null => output'[j].key = output[j].key
    BY <1>6
  <2> QED BY <1>1, <2>1 DEF KeysAreOwn
<1>9. FilesInFlight'
  <2>1. ASSUME NEW u \in Transfers
        PROVE  /\ transfer'[u].at # "idle" => transfer'[u].comp \in Components
               /\ transfer'[u].at \in {"idle", "streaming"} => transfer'[u].key = Null
               /\ transfer'[u].at \in {"stored", "stopped", "refused"} =>
                    transfer'[u].key \in Blobs /\ blob'[transfer'[u].key].state = "absent"
               /\ transfer'[u].at = "stored" => transfer'[u].key \in store'
    <3>1. transfer[u].key # b
      BY <1>3, <1>4 DEF KeysAreOwn
    <3> QED BY <1>1, <1>3, <3>1 DEF FilesInFlight
  <2>2. ASSUME NEW j \in Items
        PROVE  /\ output'[j].mode = "none" => output'[j].key = Null
               /\ output'[j].mode # "none" =>
                    /\ output'[j].key \in Blobs /\ blob'[output'[j].key].state = "absent"
                    /\ output'[j].key \in store'
    <3>1. CASE j = i
      BY <1>6, <3>1
    <3>2. CASE j # i
      <4>1. output[j].key # b
        BY <1>3, <1>4, <3>2 DEF KeysAreOwn
      <4> QED BY <1>1, <1>3, <1>6, <3>2, <4>1 DEF FilesInFlight
    <3> QED BY <3>1, <3>2
  <2> QED BY <2>1, <2>2 DEF FilesInFlight
<1> QED BY <1>5, <1>7, <1>8, <1>9

LEMMA ReleaseFits ==
  ASSUME IInv, NEW i \in Items, ReleaseDerivative(i)
  PROVE  IInv'
<1> USE DEF IInv
<1>1. /\ derived' = [derived EXCEPT ![i].edit = {}]
      /\ UNCHANGED <<item, comp, blob, refs, holder, capacity, store, transfer, output, purge>>
  BY DEF ReleaseDerivative
<1>2. /\ derived' \in [Items -> [base : SUBSET Blobs, edit : SUBSET Blobs]]
      /\ \A j \in Items : /\ derived'[j].base \subseteq derived[j].base
                          /\ derived'[j].edit \subseteq derived[j].edit
  BY <1>1 DEF TypeOK
<1>3. \A j \in Items : Uses(j)' \subseteq Uses(j)
  BY <1>1, <1>2, UsesShrink
<1>4. UsesAreOwn'
  BY <1>1, <1>3, UsesStayOwn
<1>5. BlobsMatchTheStore'
  <2>1. \A j \in Items : item[j] = "purged" => item'[j] = "purged"
    BY <1>1
  <2> QED BY <1>1, <1>3, <2>1, BlobsStillMatch
<1>6. TypeOK'
  BY <1>1, <1>2 DEF TypeOK
<1>7. FilesInFlight' /\ KeysAreOwn' /\ PurgesFollow' /\ ComponentsFollow' /\ FinitelyMany'
  BY <1>1 DEF FilesInFlight, KeysAreOwn, PurgesFollow, ComponentsFollow, ComponentFollows,
              FinitelyMany, Counted
<1> QED BY <1>4, <1>5, <1>6, <1>7

LEMMA ReconcileFits ==
  ASSUME IInv, NEW b \in Blobs, ReconcileStore(b)
  PROVE  IInv'
<1> USE DEF IInv
<1>1. /\ blob[b].state = "absent" /\ ~ InFlight(b) /\ store' = store \ {b}
      /\ UNCHANGED <<item, comp, blob, derived, refs, holder, capacity, transfer, output, purge>>
  BY DEF ReconcileStore
<1>2. /\ UsesAreOwn' /\ BlobsMatchTheStore' /\ PurgesFollow' /\ FinitelyMany'
      /\ ComponentsFollow' /\ store' \subseteq Blobs
  BY <1>1, FileGone
<1>3. TypeOK' /\ KeysAreOwn'
  BY <1>1, <1>2 DEF TypeOK, KeysAreOwn
<1>4. FilesInFlight'
  BY <1>1 DEF FilesInFlight, InFlight
<1> QED BY <1>2, <1>3, <1>4

-----------------------------------------------------------------------------
(* Purges. *)
LEMMA TombstoneFits ==
  ASSUME IInv, NEW p \in Purgers, NEW B \in SUBSET Blobs,
         \A b \in B : blob[b].state \in {"committed", "tombstoned"},
         Tombstone(B), purge[p] = NoPurge, purge' = [purge EXCEPT ![p].plan = B],
         item' \in [Items -> ItemStates], \A i \in Items : item[i] = "purged" => item'[i] = "purged",
         \A i \in Items : item'[i] # "purged" => Uses(i) \cap B \subseteq
                                                 {b \in B : blob[b].state = "tombstoned"},
         comp' \in [Components -> ComponentRow], ComponentsFollow',
         \A c \in Components : comp'[c].blob = comp[c].blob,
         capacity' \in [committed : Nat, reserved : Nat],
         UNCHANGED <<derived, refs, holder, store, transfer, output>>
  PROVE  IInv' /\ Counted' = Counted /\ \A b \in Blobs : blob'[b].size = blob[b].size
<1> USE DEF IInv
<1>1. ASSUME NEW b \in Blobs
      PROVE  /\ blob'[b] \in BlobRow /\ blob'[b].size = blob[b].size
             /\ blob'[b].state = IF b \in B THEN "tombstoned" ELSE blob[b].state
  <2>1. blob[b] \in BlobRow
    BY DEF TypeOK
  <2>2. blob'[b] = IF b \in B /\ blob[b].state = "committed"
                   THEN [blob[b] EXCEPT !.state = "tombstoned"] ELSE blob[b]
    BY DEF Tombstone
  <2>3. b \in B => blob[b].state \in {"committed", "tombstoned"}
    OBVIOUS
  <2> QED BY <2>1, <2>2, <2>3 DEF BlobRow
<1>2. blob' \in [Blobs -> BlobRow]
  <2>1. blob' = [b \in Blobs |-> blob'[b]]
    BY DEF Tombstone
  <2> QED BY <1>1, <2>1
<1>3. Counted' = Counted
  BY <1>1 DEF Counted
<1>4. /\ purge' \in [Purgers -> [plan : SUBSET Blobs, unlinked : SUBSET Blobs]]
      /\ purge'[p].plan = B /\ purge'[p].unlinked = {}
      /\ \A q \in Purgers \ {p} : purge'[q] = purge[q]
  <2>1. purge[p].unlinked = {}
    BY DEF NoPurge
  <2> QED BY <2>1 DEF TypeOK
<1>5. TypeOK'
  BY <1>2, <1>4 DEF TypeOK
<1>6. \A i \in Items : Uses(i)' \subseteq Uses(i)
  BY UsesShrink
<1>7. \A i \in Items : Uses(i) \subseteq Blobs
  BY UsesAreBlobs
<1>8. UsesAreOwn'
  <2>1. \A i \in Items : \A b \in Uses(i) :
           blob[b].state # "absent" => blob'[b].state # "absent"
    BY <1>1, <1>7
  <2> QED BY <1>6, <2>1, UsesStayOwn
<1>9. BlobsMatchTheStore'
  <2>1. ASSUME NEW i \in Items, item'[i] # "purged", NEW b \in Uses(i)'
        PROVE  blob'[b].state = "committed" /\ b \in store'
    <3>1. b \in Uses(i) /\ b \in Blobs
      BY <1>6, <1>7
    <3>2. blob[b].state = "committed" /\ b \in store
      BY <2>1, <3>1 DEF BlobsMatchTheStore
    <3>3. b \notin B
      BY <2>1, <3>1, <3>2
    <3> QED BY <1>1, <3>1, <3>2, <3>3
  <2>2. \A b \in Blobs : blob'[b].state = "purged" => b \notin store'
    BY <1>1 DEF BlobsMatchTheStore
  <2> QED BY <2>1, <2>2 DEF BlobsMatchTheStore
<1>10. FilesInFlight'
  <2>1. \A b \in Blobs : blob[b].state = "absent" => blob'[b].state = "absent"
    BY <1>1
  <2> QED BY <2>1 DEF FilesInFlight
<1>11. KeysAreOwn' /\ FinitelyMany'
  BY <1>3 DEF KeysAreOwn, FinitelyMany
<1>12. PurgesFollow'
  <2> SUFFICES ASSUME NEW q \in Purgers
               PROVE  /\ purge'[q].unlinked \subseteq purge'[q].plan
                      /\ \A b \in purge'[q].plan : blob'[b].state \in {"tombstoned", "purged"}
                      /\ purge'[q].unlinked \cap store' = {}
    BY DEF PurgesFollow
  <2>1. CASE q = p
    BY <1>1, <1>4, <2>1
  <2>2. CASE q # p
    <3>1. /\ purge'[q] = purge[q] /\ purge[q].plan \subseteq Blobs
      BY <1>4, <2>2 DEF TypeOK
    <3> QED BY <1>1, <3>1 DEF PurgesFollow
  <2> QED BY <2>1, <2>2
<1> QED BY <1>1, <1>3, <1>5, <1>8, <1>9, <1>10, <1>11, <1>12

LEMMA PurgeItemRows ==
  ASSUME IInv, NEW p \in Purgers, NEW i \in Items, PurgeItem(p, i)
  PROVE  /\ comp' \in [Components -> ComponentRow]
         /\ \A c \in Components :
              /\ comp'[c].blob = comp[c].blob
              /\ ItemOf[c] # i => comp'[c] = comp[c]
              /\ ItemOf[c] = i => /\ comp'[c].reserved = 0
                                  /\ comp'[c].state \in {comp[c].state, "cancelled"}
<1> USE DEF IInv
<1>1. comp' = [c \in Components |->
                 IF ItemOf[c] = i /\ comp[c].state \in {"awaiting", "receiving"}
                 THEN [Released(i)[c] EXCEPT !.state = "cancelled", !.attempt = Null]
                 ELSE Released(i)[c]]
  BY DEF PurgeItem
<1>2. ASSUME NEW c \in Components
      PROVE  /\ comp'[c] \in ComponentRow /\ comp'[c].blob = comp[c].blob
             /\ ItemOf[c] # i => comp'[c] = comp[c]
             /\ ItemOf[c] = i => /\ comp'[c].reserved = 0
                                 /\ comp'[c].state \in {comp[c].state, "cancelled"}
  <2> DEFINE row == Released(i)[c]
             cancelled == [row EXCEPT !.state = "cancelled", !.attempt = Null]
  <2>1. /\ row \in ComponentRow /\ row.state = comp[c].state /\ row.blob = comp[c].blob
        /\ ItemOf[c] # i => row = comp[c]
        /\ ItemOf[c] = i => row.reserved = 0
    BY ReleasedRows
  <2>2. comp'[c] = IF ItemOf[c] = i /\ comp[c].state \in {"awaiting", "receiving"}
                   THEN cancelled ELSE row
    BY <1>1
  <2> HIDE DEF row
  <2>3. cancelled \in ComponentRow
    <3>1. "cancelled" \in ComponentStates
      BY DEF ComponentStates
    <3> QED BY <2>1, <3>1, Rows
  <2>4. /\ cancelled.state = "cancelled" /\ cancelled.blob = row.blob
        /\ cancelled.reserved = row.reserved
    BY <2>1 DEF ComponentRow
  <2> HIDE DEF cancelled
  <2> QED BY <2>1, <2>2, <2>3, <2>4
<1>3. comp' = [c \in Components |-> comp'[c]]
  BY <1>1
<1>4. comp' \in [Components -> ComponentRow]
  BY <1>2, <1>3
<1> QED BY <1>2, <1>4

LEMMA PurgeItemFits ==
  ASSUME IInv, NEW p \in Purgers, NEW i \in Items, PurgeItem(p, i)
  PROVE  IInv' /\ Counted' = Counted /\ \A b \in Blobs : blob'[b].size = blob[b].size
<1> USE DEF IInv
<1>1. PICK B \in SUBSET Blobs :
        /\ B = {b \in Uses(i) : blob[b].state \in {"committed", "tombstoned"}}
        /\ purge[p] = NoPurge /\ item[i] # "absent" /\ Tombstone(B)
        /\ AdjustCapacity(0, - Reserved(ComponentsOf(i)))
        /\ item' = [item EXCEPT ![i] = "purged"] /\ purge' = [purge EXCEPT ![p].plan = B]
        /\ UNCHANGED <<derived, refs, holder, store, transfer, output>>
  <2>1. {b \in Uses(i) : blob[b].state \in {"committed", "tombstoned"}} \in SUBSET Blobs
    BY UsesAreBlobs
  <2> QED BY <2>1 DEF PurgeItem
<1>2. capacity' \in [committed : Nat, reserved : Nat]
  <2>1. - Reserved(ComponentsOf(i)) \in Int
    BY SomeComponents DEF ComponentsOf
  <2> QED BY <1>1, <2>1, CapacityType
<1>3. /\ item' \in [Items -> ItemStates] /\ item'[i] = "purged"
      /\ \A j \in Items \ {i} : item'[j] = item[j]
  BY <1>1 DEF TypeOK, ItemStates
<1>4. \A j \in Items : item'[j] # "purged" => Uses(j) \cap B = {}
  BY <1>1, <1>3 DEF UsesAreOwn
<1>5. ComponentsFollow'
  <2> SUFFICES ASSUME NEW c \in Components PROVE ComponentFollows(c)'
    BY DEF ComponentsFollow
  <2>1. ComponentFollows(c) /\ ItemOf[c] \in Items
    BY ComponentAssumption DEF ComponentsFollow
  <2>2. CASE ItemOf[c] = i
    <3>1. comp'[c].state \in {comp[c].state, "cancelled"} /\ comp'[c].blob = comp[c].blob
      BY <2>2, PurgeItemRows
    <3> QED BY <1>3, <2>1, <2>2, <3>1 DEF ComponentFollows
  <2>3. CASE ItemOf[c] # i
    <3>1. item'[ItemOf[c]] = item[ItemOf[c]] /\ comp'[c] = comp[c]
      BY <1>3, <2>1, <2>3, PurgeItemRows
    <3> QED BY <2>1, <3>1 DEF ComponentFollows
  <2> QED BY <2>2, <2>3
<1>6. /\ comp' \in [Components -> ComponentRow]
      /\ \A c \in Components : comp'[c].blob = comp[c].blob
  BY PurgeItemRows
<1>7. /\ \A j \in Items : item[j] = "purged" => item'[j] = "purged"
      /\ \A b \in B : blob[b].state \in {"committed", "tombstoned"}
      /\ \A j \in Items : item'[j] # "purged" =>
            Uses(j) \cap B \subseteq {b \in B : blob[b].state = "tombstoned"}
  BY <1>1, <1>3, <1>4
<1> QED BY <1>1, <1>2, <1>3, <1>5, <1>6, <1>7, TombstoneFits

LEMMA PurgeBlobFits ==
  ASSUME IInv, NEW p \in Purgers, NEW b \in Blobs, PurgeBlob(p, b)
  PROVE  IInv' /\ Counted' = Counted /\ \A d \in Blobs : blob'[d].size = blob[d].size
<1> USE DEF IInv
<1>1. PICK B \in SUBSET Blobs :
        /\ B = {b} /\ Tombstone(B)
        /\ purge[p] = NoPurge /\ purge' = [purge EXCEPT ![p].plan = B]
        /\ UNCHANGED <<item, comp, derived, refs, holder, capacity, store, transfer, output>>
        /\ \/ blob[b].state = "tombstoned"
           \/ blob[b].state = "committed" /\ \A i \in Items : item[i] # "purged" => b \notin Uses(i)
  BY DEF PurgeBlob
<1>2. /\ \A d \in B : blob[d].state \in {"committed", "tombstoned"}
      /\ \A i \in Items : item'[i] # "purged" =>
            Uses(i) \cap B \subseteq {d \in B : blob[d].state = "tombstoned"}
  BY <1>1
<1>3. /\ item' \in [Items -> ItemStates] /\ comp' \in [Components -> ComponentRow]
      /\ capacity' \in [committed : Nat, reserved : Nat] /\ ComponentsFollow'
      /\ \A i \in Items : item[i] = "purged" => item'[i] = "purged"
      /\ \A c \in Components : comp'[c].blob = comp[c].blob
  BY <1>1 DEF TypeOK, ComponentsFollow, ComponentFollows
<1> QED BY <1>1, <1>2, <1>3, TombstoneFits

LEMMA UnlinkFits ==
  ASSUME IInv, NEW p \in Purgers, NEW b \in Blobs, Unlink(p, b)
  PROVE  IInv'
<1> USE DEF IInv
<1>1. /\ b \in purge[p].plan /\ store' = store \ {b}
      /\ purge' = [purge EXCEPT ![p].unlinked = @ \cup {b}]
      /\ UNCHANGED <<item, comp, blob, derived, refs, holder, capacity, transfer, output>>
  BY DEF Unlink
<1>2. blob[b].state \in {"tombstoned", "purged"}
  BY <1>1 DEF PurgesFollow
<1>3. /\ purge' \in [Purgers -> [plan : SUBSET Blobs, unlinked : SUBSET Blobs]]
      /\ purge'[p].plan = purge[p].plan /\ purge'[p].unlinked = purge[p].unlinked \cup {b}
      /\ \A q \in Purgers \ {p} : purge'[q] = purge[q]
  BY <1>1 DEF TypeOK
<1>4. TypeOK'
  BY <1>1, <1>3 DEF TypeOK
<1>5. PurgesFollow'
  <2> SUFFICES ASSUME NEW q \in Purgers
               PROVE  /\ purge'[q].unlinked \subseteq purge'[q].plan
                      /\ \A d \in purge'[q].plan : blob'[d].state \in {"tombstoned", "purged"}
                      /\ purge'[q].unlinked \cap store' = {}
    BY DEF PurgesFollow
  <2>1. CASE q = p
    BY <1>1, <1>3, <2>1 DEF PurgesFollow
  <2>2. CASE q # p
    BY <1>1, <1>3, <2>2 DEF PurgesFollow
  <2> QED BY <2>1, <2>2
<1>6. FilesInFlight'
  BY <1>1, <1>2 DEF FilesInFlight
<1>7. BlobsMatchTheStore'
  <2>1. \A i \in Items : Uses(i)' = Uses(i)
    BY <1>1 DEF Uses, ComponentsOf
  <2> QED BY <1>1, <1>2, <2>1 DEF BlobsMatchTheStore
<1>8. UsesAreOwn'
  <2>1. \A i \in Items : Uses(i)' = Uses(i)
    BY <1>1 DEF Uses, ComponentsOf
  <2> QED BY <1>1, <2>1 DEF UsesAreOwn
<1>9. KeysAreOwn' /\ ComponentsFollow' /\ FinitelyMany'
  BY <1>1 DEF KeysAreOwn, ComponentsFollow, ComponentFollows, FinitelyMany, Counted
<1> QED BY <1>4, <1>5, <1>6, <1>7, <1>8, <1>9

LEMMA ConfirmRows ==
  ASSUME IInv, NEW p \in Purgers, NEW gone \in SUBSET Blobs,
         gone = {b \in purge[p].unlinked : blob[b].state = "tombstoned"}, ConfirmPurged(p)
  PROVE  /\ blob' \in [Blobs -> BlobRow] /\ gone \subseteq Counted
         /\ \A b \in Blobs : /\ blob'[b].size = blob[b].size
                             /\ blob'[b].state = IF b \in gone THEN "purged" ELSE blob[b].state
         /\ Counted' = Counted \ gone
         /\ AdjustCapacity(- SumFunctionOnSet([b \in gone |-> blob[b].size], gone), 0)
<1> USE DEF IInv
<1>1. /\ blob' = [b \in Blobs |-> IF b \in gone THEN [blob[b] EXCEPT !.state = "purged"] ELSE blob[b]]
      /\ AdjustCapacity(- SumFunctionOnSet([b \in gone |-> blob[b].size], gone), 0)
  BY DEF ConfirmPurged
<1>2. ASSUME NEW b \in Blobs
      PROVE  /\ blob'[b] \in BlobRow /\ blob'[b].size = blob[b].size
             /\ blob'[b].state = IF b \in gone THEN "purged" ELSE blob[b].state
  <2>1. blob[b] \in BlobRow
    BY DEF TypeOK
  <2>2. blob'[b] = IF b \in gone THEN [blob[b] EXCEPT !.state = "purged"] ELSE blob[b]
    BY <1>1
  <2> QED BY <2>1, <2>2 DEF BlobRow
<1>3. blob' \in [Blobs -> BlobRow]
  <2>1. blob' = [b \in Blobs |-> blob'[b]]
    BY <1>1
  <2> QED BY <1>2, <2>1
<1>4. gone \subseteq Counted
  BY DEF Counted
<1>5. Counted' = Counted \ gone
  BY <1>2 DEF Counted
<1> QED BY <1>1, <1>2, <1>3, <1>4, <1>5

LEMMA ConfirmFits ==
  ASSUME IInv, NEW p \in Purgers, ConfirmPurged(p)
  PROVE  IInv'
<1> USE DEF IInv
<1>1. PICK gone \in SUBSET Blobs : gone = {b \in purge[p].unlinked : blob[b].state = "tombstoned"}
  BY DEF TypeOK
<1>2. /\ blob' \in [Blobs -> BlobRow] /\ gone \subseteq Counted
      /\ \A b \in Blobs : blob'[b].state = IF b \in gone THEN "purged" ELSE blob[b].state
      /\ Counted' = Counted \ gone
      /\ AdjustCapacity(- SumFunctionOnSet([b \in gone |-> blob[b].size], gone), 0)
  BY <1>1, ConfirmRows
<1>3. /\ purge' = [purge EXCEPT ![p] = NoPurge]
      /\ UNCHANGED <<item, comp, derived, refs, holder, store, transfer, output>>
  BY DEF ConfirmPurged
<1>4. capacity' \in [committed : Nat, reserved : Nat]
  <2>1. - SumFunctionOnSet([b \in gone |-> blob[b].size], gone) \in Int /\ 0 \in Int
    BY <1>2, SomeBlobs
  <2> QED BY <1>2, <2>1, CapacityType
<1>5. TypeOK'
  <2>1. purge' \in [Purgers -> [plan : SUBSET Blobs, unlinked : SUBSET Blobs]]
    BY <1>3 DEF TypeOK, NoPurge
  <2> QED BY <1>2, <1>3, <1>4, <2>1 DEF TypeOK
<1>6. gone \cap store = {}
  BY <1>1 DEF PurgesFollow
<1>7. \A i \in Items : Uses(i)' = Uses(i) /\ Uses(i) \subseteq Blobs
  BY <1>3, UsesAreBlobs DEF Uses, ComponentsOf
<1>8. UsesAreOwn'
  <2>1. \A i \in Items : Uses(i)' \subseteq Uses(i)
    BY <1>7
  <2>2. \A i \in Items : \A b \in Uses(i) :
           blob[b].state # "absent" => blob'[b].state # "absent"
    BY <1>2, <1>7
  <2> QED BY <2>1, <2>2, UsesStayOwn
<1>9. BlobsMatchTheStore'
  <2>1. ASSUME NEW i \in Items, item'[i] # "purged", NEW b \in Uses(i)'
        PROVE  blob'[b].state = "committed" /\ b \in store'
    <3>1. b \in Uses(i) /\ b \in Blobs /\ item[i] # "purged"
      BY <1>3, <1>7, <2>1
    <3>2. blob[b].state = "committed" /\ b \in store
      BY <3>1 DEF BlobsMatchTheStore
    <3> QED BY <1>1, <1>2, <1>3, <3>1, <3>2
  <2>2. \A b \in Blobs : blob'[b].state = "purged" => b \notin store'
    BY <1>2, <1>3, <1>6 DEF BlobsMatchTheStore
  <2> QED BY <2>1, <2>2 DEF BlobsMatchTheStore
<1>10. FilesInFlight'
  <2>1. \A b \in Blobs : blob[b].state = "absent" => blob'[b].state = "absent"
    BY <1>1, <1>2
  <2> QED BY <1>3, <2>1 DEF FilesInFlight
<1>11. PurgesFollow'
  <2> SUFFICES ASSUME NEW q \in Purgers
               PROVE  /\ purge'[q].unlinked \subseteq purge'[q].plan
                      /\ \A b \in purge'[q].plan : blob'[b].state \in {"tombstoned", "purged"}
                      /\ purge'[q].unlinked \cap store' = {}
    BY DEF PurgesFollow
  <2>1. CASE q = p
    <3>1. purge'[q].unlinked = {} /\ purge'[q].plan = {}
      BY <1>3, <2>1 DEF TypeOK, NoPurge
    <3> QED BY <3>1
  <2>2. CASE q # p
    <3>1. /\ purge'[q] = purge[q] /\ purge[q].plan \subseteq Blobs
      BY <1>3, <2>2 DEF TypeOK
    <3> QED BY <1>2, <1>3, <3>1 DEF PurgesFollow
  <2> QED BY <2>1, <2>2
<1>12. FinitelyMany'
  BY <1>2, FS_Subset DEF FinitelyMany
<1>13. KeysAreOwn' /\ ComponentsFollow'
  BY <1>3 DEF KeysAreOwn, ComponentsFollow, ComponentFollows
<1> QED BY <1>5, <1>8, <1>9, <1>10, <1>11, <1>12, <1>13

LEMMA PurgeDiesFits ==
  ASSUME IInv, NEW p \in Purgers, PurgeDies(p)
  PROVE  IInv'
<1> USE DEF IInv
<1>1. /\ purge' = [purge EXCEPT ![p] = NoPurge]
      /\ UNCHANGED <<item, comp, blob, derived, refs, holder, capacity, store, transfer, output>>
  BY DEF PurgeDies
<1>2. /\ purge' \in [Purgers -> [plan : SUBSET Blobs, unlinked : SUBSET Blobs]]
      /\ purge'[p].plan = {} /\ purge'[p].unlinked = {}
      /\ \A q \in Purgers \ {p} : purge'[q] = purge[q]
  BY <1>1 DEF TypeOK, NoPurge
<1>3. TypeOK'
  BY <1>1, <1>2 DEF TypeOK
<1>4. PurgesFollow'
  <2> SUFFICES ASSUME NEW q \in Purgers
               PROVE  /\ purge'[q].unlinked \subseteq purge'[q].plan
                      /\ \A b \in purge'[q].plan : blob'[b].state \in {"tombstoned", "purged"}
                      /\ purge'[q].unlinked \cap store' = {}
    BY DEF PurgesFollow
  <2>1. CASE q = p
    BY <1>2, <2>1
  <2>2. CASE q # p
    BY <1>1, <1>2, <2>2 DEF PurgesFollow
  <2> QED BY <2>1, <2>2
<1>5. \A i \in Items : Uses(i)' = Uses(i)
  BY <1>1 DEF Uses, ComponentsOf
<1>6. UsesAreOwn' /\ BlobsMatchTheStore'
  BY <1>1, <1>5 DEF UsesAreOwn, BlobsMatchTheStore
<1>7. FilesInFlight' /\ KeysAreOwn' /\ ComponentsFollow' /\ FinitelyMany'
  BY <1>1 DEF FilesInFlight, KeysAreOwn, ComponentsFollow, ComponentFollows, FinitelyMany, Counted
<1> QED BY <1>3, <1>4, <1>6, <1>7

-----------------------------------------------------------------------------
LEMMA InitFits == Init => IInv
<1> SUFFICES ASSUME Init PROVE IInv
  OBVIOUS
<1>1. TypeOK
  <2>1. comp \in [Components -> ComponentRow]
    BY DEF Init, ComponentRow
  <2>2. transfer \in [Transfers -> Transfer] /\ output \in [Items -> Output]
    BY DEF Init, Transfer, IdleTransfer, Output, NoOutput
  <2>3. purge \in [Purgers -> [plan : SUBSET Blobs, unlinked : SUBSET Blobs]]
    BY DEF Init, NoPurge
  <2>4. blob \in [Blobs -> BlobRow] /\ item \in [Items -> ItemStates]
    BY DEF Init, BlobRow, ItemStates
  <2>5. derived \in [Items -> [base : SUBSET Blobs, edit : SUBSET Blobs]]
    BY DEF Init
  <2> QED BY <2>1, <2>2, <2>3, <2>4, <2>5 DEF Init, TypeOK
<1>2. FilesInFlight /\ KeysAreOwn
  BY DEF Init, FilesInFlight, KeysAreOwn, IdleTransfer, NoOutput
<1>3. \A i \in Items : Uses(i) = {}
  BY DEF Init, Uses, ComponentsOf
<1>4. UsesAreOwn /\ BlobsMatchTheStore
  BY <1>3 DEF Init, UsesAreOwn, BlobsMatchTheStore
<1>5. PurgesFollow /\ ComponentsFollow
  BY ComponentAssumption DEF Init, PurgesFollow, NoPurge, ComponentsFollow, ComponentFollows
<1>6. FinitelyMany
  <2>1. Counted = {}
    BY DEF Init, Counted
  <2> QED BY <2>1, FS_EmptySet DEF FinitelyMany
<1> QED BY <1>1, <1>2, <1>4, <1>5, <1>6 DEF IInv

(* The items a session ends with, and what is left of the refs. *)
LEMMA EndingSession ==
  ASSUME NEW s \in Sessions, DiscardSession(s) \/ ExpireSession(s)
  PROVE  \E I \in SUBSET Items, kept \in SUBSET refs :
            /\ \A i \in I : item[i] # "purged" /\ \A h \in Holders : <<i, h>> \notin kept
            /\ kept = {r \in refs : r[2] # s} /\ CancelItems(I, kept)
            /\ holder' = [holder EXCEPT ![s] = "ended"]
            /\ UNCHANGED <<blob, derived, store, transfer, output, purge>>
<1>1. EndSession(s)
  BY DEF DiscardSession, ExpireSession
<1> DEFINE kept == {r \in refs : r[2] # s}
           orphans == {i \in Items : <<i, s>> \in refs /\ \A h \in Holders : <<i, h>> \notin kept}
           I == {i \in orphans : item[i] # "purged"}
<1>2. /\ CancelItems(I, kept) /\ holder' = [holder EXCEPT ![s] = "ended"]
      /\ UNCHANGED <<blob, derived, store, transfer, output, purge>>
  BY <1>1 DEF EndSession
<1>3. I \in SUBSET Items /\ kept \in SUBSET refs
  OBVIOUS
<1>4. \A i \in I : item[i] # "purged" /\ \A h \in Holders : <<i, h>> \notin kept
  OBVIOUS
<1> HIDE DEF I
<1> QED BY <1>2, <1>3, <1>4

LEMMA ItemStepFits ==
  ASSUME IInv, NEW i \in Items, ItemStep(i)
  PROVE  IInv'
<1> USE DEF IInv
<1>1. CASE CancelItem(i)
  <2>1. /\ {i} \in SUBSET Items /\ item[i] # "purged" /\ CancelItems({i}, refs)
        /\ UNCHANGED <<blob, derived, holder, store, transfer, output, purge>>
    BY <1>1 DEF CancelItem
  <2>2. holder' \in [Holders -> {"active", "lapsed", "ended"}]
    BY <2>1 DEF TypeOK
  <2>3. \A j \in {i} : item[j] # "purged"
    BY <2>1
  <2> QED BY <2>1, <2>2, <2>3, CancelFits
<1>2. ASSUME NEW h \in Holders, RegisterItem(i, h) PROVE IInv'
  BY <1>2, RegisterFits
<1>3. ASSUME NEW h \in Holders, AttachItem(i, h) \/ DetachItem(i, h) PROVE IInv'
  <2>1. /\ refs' \subseteq Items \X Holders
        /\ UNCHANGED <<item, comp, blob, derived, holder, capacity, store, transfer, output, purge>>
    BY <1>3 DEF AttachItem, DetachItem, TypeOK
  <2>2. holder' \in [Holders -> {"active", "lapsed", "ended"}]
    BY <2>1 DEF TypeOK
  <2> QED BY <2>1, <2>2, HolderFits
<1>4. CASE ProcessorStores(i)
  BY <1>4, ProcessorStoresFits
<1>5. CASE MarkItemReady(i)
  BY <1>5, ReadyFits
<1>6. CASE RecordDerivatives(i)
  BY <1>6, RecordDerivativesFits
<1>7. CASE DropOutput(i)
  BY <1>7, DropFits
<1>8. CASE MarkItemFailed(i)
  BY <1>8, FailFits
<1>9. CASE ReleaseDerivative(i)
  BY <1>9, ReleaseFits
<1> QED BY <1>1, <1>2, <1>3, <1>4, <1>5, <1>6, <1>7, <1>8, <1>9 DEF ItemStep

LEMMA SessionFits ==
  ASSUME IInv, NEW s \in Sessions, SessionStep(s)
  PROVE  IInv'
<1> USE DEF IInv
<1>0. s \in Holders /\ holder \in [Holders -> {"active", "lapsed", "ended"}]
  BY DEF Holders, TypeOK
<1>1. CASE LeasePasses(s) \/ HeartbeatSession(s)
  <2>1. /\ holder' \in [Holders -> {"active", "lapsed", "ended"}] /\ refs' \subseteq Items \X Holders
        /\ UNCHANGED <<item, comp, blob, derived, capacity, store, transfer, output, purge>>
    BY <1>0, <1>1 DEF LeasePasses, HeartbeatSession, TypeOK
  <2> QED BY <2>1, HolderFits
<1>2. CASE DiscardSession(s) \/ ExpireSession(s)
  <2>1. PICK I \in SUBSET Items, kept \in SUBSET refs :
            /\ \A i \in I : item[i] # "purged"
            /\ CancelItems(I, kept) /\ holder' = [holder EXCEPT ![s] = "ended"]
            /\ UNCHANGED <<blob, derived, store, transfer, output, purge>>
    BY <1>2, EndingSession
  <2>2. holder' \in [Holders -> {"active", "lapsed", "ended"}]
    BY <1>0, <2>1
  <2> QED BY <2>1, <2>2, CancelFits
<1> QED BY <1>1, <1>2 DEF SessionStep

LEMMA NextFits == IInv /\ [Next]_vars => IInv'
<1> SUFFICES ASSUME IInv, [Next]_vars PROVE IInv'
  OBVIOUS
<1>1. ASSUME NEW i \in Items, ItemStep(i) PROVE IInv'
  BY <1>1, ItemStepFits
<1>2. ASSUME NEW c \in Components, ResetComponent(c) PROVE IInv'
  BY <1>2, ResetFits
<1>3. ASSUME NEW c \in Components, TransferAges(c) PROVE IInv'
  <2>1. /\ comp' = [comp EXCEPT ![c].fresh = FALSE]
        /\ UNCHANGED <<item, blob, derived, refs, holder, capacity, store, transfer, output, purge>>
    BY <1>3 DEF TransferAges
  <2>2. /\ refs' \subseteq Items \X Holders
        /\ holder' \in [Holders -> {"active", "lapsed", "ended"}]
    BY <2>1 DEF IInv, TypeOK
  <2> QED BY <2>1, <2>2, HolderFits
<1>4. ASSUME NEW t \in Transfers, UploadStep(t) PROVE IInv'
  BY <1>4, UploadFits
<1>5. ASSUME NEW s \in Sessions, SessionStep(s) PROVE IInv'
  BY <1>5, SessionFits
<1>6. ASSUME NEW p \in Purgers, PurgeStep(p) PROVE IInv'
  BY <1>6, PurgeItemFits, PurgeBlobFits, UnlinkFits, ConfirmFits, PurgeDiesFits DEF PurgeStep
<1>7. ASSUME NEW b \in Blobs, ReconcileStore(b) PROVE IInv'
  BY <1>7, ReconcileFits
<1>8. CASE UNCHANGED vars
  <2>1. \A i \in Items : Uses(i)' = Uses(i)
    BY <1>8 DEF vars, Uses, ComponentsOf
  <2>2. UsesAreOwn' /\ BlobsMatchTheStore'
    BY <1>8, <2>1 DEF IInv, vars, UsesAreOwn, BlobsMatchTheStore
  <2>3. TypeOK' /\ FilesInFlight' /\ KeysAreOwn'
    BY <1>8 DEF IInv, vars, TypeOK, FilesInFlight, KeysAreOwn
  <2>4. PurgesFollow' /\ ComponentsFollow' /\ FinitelyMany'
    BY <1>8 DEF IInv, vars, PurgesFollow, ComponentsFollow, ComponentFollows, FinitelyMany, Counted
  <2> QED BY <2>2, <2>3, <2>4 DEF IInv
<1> QED BY <1>1, <1>2, <1>3, <1>4, <1>5, <1>6, <1>7, <1>8 DEF Next

(* Rows, files, uploads in flight and purges fit each other in every        *)
(* reachable state, for any items, blobs, transfers, holders and purges.    *)
THEOREM Invariance == Spec => []IInv
<1>1. Init => IInv
  BY InitFits
<1>2. IInv /\ [Next]_vars => IInv'
  BY NextFits
<1> QED BY <1>1, <1>2, PTL DEF Spec

(* What an item names can be read, and a confirmed purge left no file. *)
THEOREM FilesMatch == Spec => []BlobsMatchTheStore
<1>1. IInv => BlobsMatchTheStore
  BY DEF IInv
<1> QED BY <1>1, Invariance, PTL

-----------------------------------------------------------------------------
(* A step either leaves the bytes of a component, resets them, or records    *)
(* the first ones.                                                          *)
LEMMA BytesStay ==
  ASSUME IInv, [Next]_vars, NEW c \in Components, comp[c].blob # Null
  PROVE  comp'[c].blob \in {comp[c].blob, Null}
<1> USE DEF IInv
<1>0. comp \in [Components -> ComponentRow]
  BY DEF TypeOK
<1>1. ASSUME NEW i \in Items, ItemStep(i) PROVE comp'[c].blob = comp[c].blob
  <2>1. CASE CancelItem(i)
    <3>1. {i} \in SUBSET Items /\ CancelItems({i}, refs)
      BY <2>1 DEF CancelItem
    <3> QED BY <3>1, CancelRows
  <2>2. ASSUME NEW h \in Holders, RegisterItem(i, h) PROVE comp'[c].blob = comp[c].blob
    BY <2>2, RegisterRows
  <2>3. CASE MarkItemReady(i)
    BY <2>3, ReadyRows
  <2>4. CASE MarkItemFailed(i)
    BY <2>4, ReleasedRows DEF MarkItemFailed
  <2>5. CASE UNCHANGED comp
    BY <2>5
  <2> QED BY <1>1, <2>1, <2>2, <2>3, <2>4, <2>5
          DEF ItemStep, AttachItem, DetachItem, ProcessorStores, RecordDerivatives, DropOutput,
              ReleaseDerivative
<1>2. ASSUME NEW d \in Components, ResetComponent(d) \/ TransferAges(d)
      PROVE  comp'[c].blob \in {comp[c].blob, Null}
  <2>1. CASE c = d
    <3>1. comp[c] \in ComponentRow
      BY <1>0
    <3> QED BY <1>0, <1>2, <2>1, <3>1 DEF ResetComponent, TransferAges, ComponentRow
  <2>2. CASE c # d
    BY <1>0, <1>2, <2>2 DEF ResetComponent, TransferAges
  <2> QED BY <2>1, <2>2
<1>3. ASSUME NEW t \in Transfers, UploadStep(t) PROVE comp'[c].blob = comp[c].blob
  <2>1. ASSUME NEW d \in Components, BeginUpload(t, d) PROVE comp'[c].blob = comp[c].blob
    BY <1>0, <2>1 DEF BeginUpload, ComponentRow
  <2>2. transfer[t].at # "idle" => transfer[t].comp \in Components
    BY DEF FilesInFlight
  <2>3. ASSUME transfer[t].at = "stored", CommitTransaction(t) PROVE comp'[c].blob = comp[c].blob
    <3>1. CASE CommitOutcome(t) = "committed"
      <4>1. RecordUpload(t)
        BY <2>3, <3>1 DEF CommitTransaction
      <4>2. /\ comp[transfer[t].comp].blob = Null
            /\ \A d \in Components \ {transfer[t].comp} : comp'[d] = comp[d]
        BY <2>3, <3>1, <4>1, RecordRows
      <4> QED BY <4>2
    <3>2. CASE CommitOutcome(t) # "committed"
      <4>1. UNCHANGED comp \/ (AwaitAgain(t) /\ UNCHANGED item)
        BY <2>3, <3>2 DEF CommitTransaction
      <4> QED BY <2>2, <2>3, <4>1, AwaitFits
    <3> QED BY <3>1, <3>2
  <2>4. CASE CommitUpload(t) \/ CommitUnknown(t)
    BY <2>3, <2>4 DEF CommitUpload, CommitUnknown
  <2>5. CASE AbortUpload(t)
    <3>1. transfer[t].comp \in Components /\ AwaitAgain(t) /\ UNCHANGED item
      BY <2>2, <2>5 DEF AbortUpload
    <3> QED BY <3>1, AwaitFits
  <2>6. CASE UNCHANGED comp
    BY <2>6
  <2> QED BY <1>3, <2>1, <2>4, <2>5, <2>6
          DEF UploadStep, StreamStored, StreamEnds, StoppedAfterStore, RemoveQuietly, TransferDies
<1>4. ASSUME NEW s \in Sessions, SessionStep(s) PROVE comp'[c].blob = comp[c].blob
  <2>1. CASE DiscardSession(s) \/ ExpireSession(s)
    <3>1. PICK I \in SUBSET Items, kept \in SUBSET refs : CancelItems(I, kept)
      BY <2>1, EndingSession
    <3> QED BY <3>1, CancelRows
  <2>2. CASE UNCHANGED comp
    BY <2>2
  <2> QED BY <1>4, <2>1, <2>2 DEF SessionStep, LeasePasses, HeartbeatSession
<1>5. ASSUME NEW p \in Purgers, PurgeStep(p) PROVE comp'[c].blob = comp[c].blob
  <2>1. ASSUME NEW i \in Items, PurgeItem(p, i) PROVE comp'[c].blob = comp[c].blob
    BY <2>1, PurgeItemRows
  <2>2. CASE UNCHANGED comp
    BY <2>2
  <2> QED BY <1>5, <2>1, <2>2 DEF PurgeStep, PurgeBlob, Unlink, ConfirmPurged, PurgeDies
<1>6. ASSUME NEW b \in Blobs, ReconcileStore(b) PROVE comp'[c].blob = comp[c].blob
  BY <1>6 DEF ReconcileStore
<1>7. CASE UNCHANGED vars
  BY <1>7 DEF vars
<1> QED BY <1>1, <1>2, <1>3, <1>4, <1>5, <1>6, <1>7 DEF Next

(* Committed bytes are replaced only through a reset: whatever transfers,    *)
(* commits with a lost answer and takeovers do, the first commit stays.      *)
THEOREM BytesAreKept == Spec => CommittedBytesStay
<1>1. IInv /\ [Next]_vars =>
        [\A c \in Components : comp[c].blob # Null => comp'[c].blob \in {comp[c].blob, Null}]_vars
  BY BytesStay
<1> QED BY <1>1, Invariance, PTL DEF Spec, CommittedBytesStay

(* Only the end of the last session or draft takes a ready item away. *)
LEMMA ReadyStays ==
  ASSUME IInv, [Next]_vars, NEW i \in Items, NEW h \in HoldersOf(i), item[i] = "ready",
         h \in Drafts \/ (holder[h] # "ended" /\ holder'[h] # "ended")
  PROVE  item'[i] = "ready"
<1> USE DEF IInv
<1>0. item \in [Items -> ItemStates] /\ h \in Holders /\ <<i, h>> \in refs
  BY DEF TypeOK, HoldersOf
<1>1. ASSUME NEW j \in Items, ItemStep(j) PROVE item'[i] = "ready"
  <2>1. CASE CancelItem(j)
    BY <1>0, <2>1 DEF CancelItem, CancelItems
  <2>2. ASSUME NEW k \in Holders, RegisterItem(j, k) PROVE item'[i] = "ready"
    BY <1>0, <2>2 DEF RegisterItem
  <2>3. CASE MarkItemReady(j) \/ MarkItemFailed(j)
    BY <1>0, <2>3 DEF MarkItemReady, MarkItemFailed
  <2>4. CASE UNCHANGED item
    BY <2>4
  <2> QED BY <1>1, <2>1, <2>2, <2>3, <2>4
          DEF ItemStep, AttachItem, DetachItem, ProcessorStores, RecordDerivatives, DropOutput,
              ReleaseDerivative
<1>2. ASSUME NEW d \in Components, ResetComponent(d) \/ TransferAges(d) PROVE item'[i] = "ready"
  BY <1>0, <1>2 DEF ResetComponent, TransferAges
<1>3. ASSUME NEW t \in Transfers, UploadStep(t) PROVE item'[i] = "ready"
  <2>1. ASSUME transfer[t].at = "stored", CommitTransaction(t) PROVE item'[i] = "ready"
    <3>1. CASE CommitOutcome(t) = "committed"
      <4>1. RecordUpload(t)
        BY <2>1, <3>1 DEF CommitTransaction
      <4>2. PICK j \in Items, new \in {"processing", "awaiting_upload"} :
               item[j] = "awaiting_upload" /\ item' = [item EXCEPT ![j] = new]
        <5>1. transfer[t].comp \in Components /\ item[ItemOf[transfer[t].comp]] = "awaiting_upload"
          BY <2>1, <3>1, <4>1, RecordRows
        <5>2. ItemOf[transfer[t].comp] \in Items
          BY <5>1, ComponentAssumption
        <5> QED BY <4>1, <5>1, <5>2 DEF RecordUpload
      <4> QED BY <1>0, <4>2
    <3>2. CASE CommitOutcome(t) # "committed"
      BY <2>1, <3>2 DEF CommitTransaction
    <3> QED BY <3>1, <3>2
  <2>2. CASE CommitUpload(t) \/ CommitUnknown(t)
    BY <2>1, <2>2 DEF CommitUpload, CommitUnknown
  <2>3. CASE UNCHANGED item
    BY <2>3
  <2> QED BY <1>3, <2>2, <2>3
          DEF UploadStep, BeginUpload, StreamStored, StreamEnds, StoppedAfterStore, RemoveQuietly,
              AbortUpload, TransferDies
<1>4. ASSUME NEW s \in Sessions, SessionStep(s) PROVE item'[i] = "ready"
  <2>1. CASE DiscardSession(s) \/ ExpireSession(s)
    <3>1. PICK I \in SUBSET Items, kept \in SUBSET refs :
              /\ \A j \in I : \A k \in Holders : <<j, k>> \notin kept
              /\ kept = {r \in refs : r[2] # s} /\ CancelItems(I, kept)
              /\ holder' = [holder EXCEPT ![s] = "ended"]
      BY <2>1, EndingSession
    <3>2. h # s
      BY <3>1, HolderAssumption DEF TypeOK, Holders
    <3>3. i \notin I
      BY <1>0, <3>1, <3>2
    <3> QED BY <3>1, <3>3 DEF CancelItems
  <2>2. CASE UNCHANGED item
    BY <2>2
  <2> QED BY <1>4, <2>1, <2>2 DEF SessionStep, LeasePasses, HeartbeatSession
<1>5. ASSUME NEW p \in Purgers, PurgeStep(p) PROVE item'[i] = "ready"
  <2>1. ASSUME NEW j \in Items, PurgeItem(p, j) PROVE item'[i] = "ready"
    <3>1. HoldersOf(j) = {} /\ item' = [item EXCEPT ![j] = "purged"]
      BY <2>1 DEF PurgeItem
    <3> QED BY <1>0, <3>1
  <2>2. CASE UNCHANGED item
    BY <2>2
  <2> QED BY <1>5, <2>1, <2>2 DEF PurgeStep, PurgeBlob, Unlink, ConfirmPurged, PurgeDies
<1>6. ASSUME NEW b \in Blobs, ReconcileStore(b) PROVE item'[i] = "ready"
  BY <1>6 DEF ReconcileStore
<1>7. CASE UNCHANGED vars
  BY <1>7 DEF vars
<1> QED BY <1>1, <1>2, <1>3, <1>4, <1>5, <1>6, <1>7 DEF Next

(* No expiry, discard or purge touches a ready item that a draft, or a       *)
(* session that stays, holds.                                                *)
THEOREM HeldItemsAreSafe == Spec => HeldItemsSurvive
<1>1. IInv /\ [Next]_vars =>
        [\A i \in Items : \A h \in HoldersOf(i) :
           item[i] = "ready" /\ (h \in Drafts \/ (holder[h] # "ended" /\ holder'[h] # "ended"))
             => item'[i] = "ready"]_vars
  BY ReadyStays
<1> QED BY <1>1, Invariance, PTL DEF Spec, HeldItemsSurvive

-----------------------------------------------------------------------------
(* The capacity of the account. *)
CommittedBytes == SumFunctionOnSet([b \in Counted |-> blob[b].size], Counted)

OpenFits(c) == item[ItemOf[c]] = "awaiting_upload" /\ comp[c].state \in {"awaiting", "receiving"}
                 => comp[c].reserved >= Size[c]

Exact == /\ capacity.committed = CommittedBytes /\ capacity.reserved = Reserved(Components)
         /\ \A c \in Components : OpenFits(c)

LEMMA ExactIsExact == Exact <=> CapacityIsExact
BY DEF Exact, CapacityIsExact, CommittedBytes, Counted, OpenFits

(* Releases of what is held are never cut off at zero. *)
LEMMA Adjusted ==
  ASSUME TypeOK, NEW n \in Int, NEW m \in Int, AdjustCapacity(n, m),
         capacity.committed + n >= 0, capacity.reserved + m >= 0
  PROVE  /\ capacity'.committed = capacity.committed + n
         /\ capacity'.reserved = capacity.reserved + m
BY DEF TypeOK, AdjustCapacity, AtLeastZero

LEMMA BytesType ==
  ASSUME TypeOK, FinitelyMany
  PROVE  CommittedBytes \in Nat /\ Reserved(Components) \in Nat
<1>1. Counted \in SUBSET Counted /\ Components \in SUBSET Components
  OBVIOUS
<1> QED BY <1>1, SomeBlobs, SomeComponents DEF CommittedBytes

LEMMA BytesSame ==
  ASSUME Counted' = Counted, \A b \in Counted : blob'[b].size = blob[b].size
  PROVE  CommittedBytes' = CommittedBytes
<1>1. [b \in Counted' |-> blob'[b].size] = [b \in Counted |-> blob[b].size]
  OBVIOUS
<1> QED BY <1>1 DEF CommittedBytes

(* A new row adds its bytes. *)
LEMMA BytesAdd ==
  ASSUME TypeOK, FinitelyMany, NEW b \in Blobs, NEW n \in Nat,
         blob[b].state = "absent", CommitBlob(b, n)
  PROVE  CommittedBytes' = CommittedBytes + n
<1>1. /\ \A d \in Blobs \ {b} : blob'[d] = blob[d]
      /\ blob'[b].state = "committed" /\ blob'[b].size = n
  BY DEF CommitBlob, TypeOK
<1>2. PICK S : S = Counted \cup {b}
  OBVIOUS
<1>3. Counted' = S /\ b \notin Counted /\ b \in S /\ S \ {b} = Counted
  BY <1>1, <1>2 DEF Counted
<1>4. IsFiniteSet(Counted) /\ IsFiniteSet(S)
  BY <1>2, FS_AddElement DEF FinitelyMany
<1> DEFINE f == [d \in Counted |-> blob[d].size]
           g == [d \in S |-> blob'[d].size]
<1>5. \A d \in S : g[d] \in Nat
  BY <1>1, <1>2 DEF TypeOK, BlobRow, Counted
<1>6. g[b] = n /\ \A d \in Counted : g[d] = f[d]
  BY <1>1, <1>2, <1>3 DEF Counted
<1>7. CommittedBytes' = SumFunctionOnSet(g, S) /\ CommittedBytes = SumFunctionOnSet(f, Counted)
  BY <1>3 DEF CommittedBytes
<1> HIDE DEF f, g
<1>8. SumFunctionOnSet(g, S) = g[b] + SumFunctionOnSet(g, S \ {b})
  BY <1>3, <1>4, <1>5, SumRemove
<1>9. SumFunctionOnSet(g, Counted) = SumFunctionOnSet(f, Counted)
  BY <1>4, <1>6, SumSame
<1>10. CommittedBytes \in Nat
  BY BytesType
<1>11. SumFunctionOnSet(g, S) = n + SumFunctionOnSet(g, Counted)
  BY <1>3, <1>6, <1>8
<1>12. CommittedBytes' = n + CommittedBytes
  BY <1>7, <1>9, <1>11
<1> QED BY <1>10, <1>12

(* Blobs that no longer count take their bytes with them. *)
LEMMA BytesGo ==
  ASSUME TypeOK, FinitelyMany, NEW B \in SUBSET Counted, Counted' = Counted \ B,
         \A b \in Counted : blob'[b].size = blob[b].size
  PROVE  /\ SumFunctionOnSet([b \in B |-> blob[b].size], B) \in Nat
         /\ CommittedBytes = CommittedBytes' + SumFunctionOnSet([b \in B |-> blob[b].size], B)
         /\ CommittedBytes' \in Nat
<1> DEFINE f == [b \in Counted |-> blob[b].size]
           g == [b \in Counted' |-> blob'[b].size]
           h == [b \in B |-> blob[b].size]
<1>1. IsFiniteSet(Counted) /\ IsFiniteSet(B) /\ IsFiniteSet(Counted \ B)
  BY FS_Subset DEF FinitelyMany
<1>2. \A b \in Counted : f[b] \in Nat
  BY DEF TypeOK, BlobRow, Counted
<1>3. (\A b \in B : f[b] = h[b]) /\ (\A b \in Counted \ B : f[b] = g[b])
  OBVIOUS
<1>4. /\ CommittedBytes = SumFunctionOnSet(f, Counted)
      /\ CommittedBytes' = SumFunctionOnSet(g, Counted \ B)
  BY DEF CommittedBytes
<1> HIDE DEF f, g, h
<1>5. SumFunctionOnSet(f, Counted) = SumFunctionOnSet(f, B) + SumFunctionOnSet(f, Counted \ B)
  BY <1>1, <1>2, SumSplit
<1>6. SumFunctionOnSet(f, B) = SumFunctionOnSet(h, B)
  BY <1>1, <1>3, SumSame
<1>7. SumFunctionOnSet(f, Counted \ B) = SumFunctionOnSet(g, Counted \ B)
  BY <1>1, <1>3, SumSame
<1>8. SumFunctionOnSet(f, B) \in Nat /\ SumFunctionOnSet(f, Counted \ B) \in Nat
  BY <1>1, <1>2, SumType
<1>9. /\ SumFunctionOnSet(h, B) \in Nat /\ CommittedBytes' \in Nat
      /\ CommittedBytes = CommittedBytes' + SumFunctionOnSet(h, B)
  BY <1>4, <1>5, <1>6, <1>7, <1>8
<1> QED BY <1>9 DEF h

LEMMA ReservedSame ==
  ASSUME \A c \in Components : comp'[c].reserved = comp[c].reserved
  PROVE  Reserved(Components)' = Reserved(Components)
<1>1. [c \in Components |-> comp'[c].reserved] = [c \in Components |-> comp[c].reserved]
  OBVIOUS
<1> QED BY <1>1 DEF Reserved

(* One component's reservation. *)
LEMMA ReservedMoves ==
  ASSUME TypeOK, TypeOK', NEW c \in Components,
         \A d \in Components \ {c} : comp'[d].reserved = comp[d].reserved
  PROVE  /\ Reserved(Components)' =
              Reserved(Components) - comp[c].reserved + comp'[c].reserved
         /\ Reserved(Components) >= comp[c].reserved
<1> DEFINE f == [d \in Components |-> comp[d].reserved]
           g == [d \in Components |-> comp'[d].reserved]
<1>1. \A d \in Components : f[d] \in Nat /\ g[d] \in Nat
  BY DEF TypeOK, ComponentRow
<1>2. \A d \in Components \ {c} : f[d] = g[d]
  OBVIOUS
<1>3. f[c] = comp[c].reserved /\ g[c] = comp'[c].reserved
  OBVIOUS
<1>4. /\ Reserved(Components) = SumFunctionOnSet(f, Components)
      /\ Reserved(Components)' = SumFunctionOnSet(g, Components)
  BY DEF Reserved
<1>5. IsFiniteSet(Components) /\ IsFiniteSet(Components \ {c})
  BY ComponentAssumption, FS_RemoveElement
<1> HIDE DEF f, g
<1>6. SumFunctionOnSet(g, Components) = SumFunctionOnSet(f, Components) - f[c] + g[c]
  <2>1. (\A d \in Components : f[d] \in Nat) /\ (\A d \in Components : g[d] \in Nat)
    BY <1>1
  <2> QED BY <1>2, <1>5, <2>1, SumChange
<1>7. SumFunctionOnSet(f, Components) = f[c] + SumFunctionOnSet(f, Components \ {c})
  BY <1>1, <1>5, SumRemove
<1>8. SumFunctionOnSet(f, Components \ {c}) \in Nat
  BY <1>1, <1>5, SumType
<1> QED BY <1>1, <1>3, <1>4, <1>6, <1>7, <1>8

(* The reservations of some components that are released. *)
LEMMA ReservedGo ==
  ASSUME TypeOK, NEW C \in SUBSET Components,
         \A c \in C : comp'[c].reserved = 0,
         \A c \in Components \ C : comp'[c].reserved = comp[c].reserved
  PROVE  /\ Reserved(C) \in Nat /\ Reserved(Components) >= Reserved(C)
         /\ Reserved(Components)' = Reserved(Components) - Reserved(C)
<1> DEFINE f == [d \in Components |-> comp[d].reserved]
           g == [d \in Components |-> comp'[d].reserved]
           h == [d \in C |-> comp[d].reserved]
           R == Components \ C
<1>1. \A d \in Components : f[d] \in Nat /\ g[d] \in Nat
  BY DEF TypeOK, ComponentRow
<1>2. /\ \A d \in C : f[d] = h[d] /\ g[d] = 0
      /\ \A d \in R : f[d] = g[d]
  OBVIOUS
<1>3. IsFiniteSet(Components) /\ IsFiniteSet(C) /\ IsFiniteSet(R)
  BY ComponentAssumption, FS_Subset
<1>4. /\ Reserved(Components) = SumFunctionOnSet(f, Components)
      /\ Reserved(Components)' = SumFunctionOnSet(g, Components)
      /\ Reserved(C) = SumFunctionOnSet(h, C)
  BY DEF Reserved
<1> HIDE DEF f, g, h
<1>5. /\ SumFunctionOnSet(f, Components) = SumFunctionOnSet(f, C) + SumFunctionOnSet(f, R)
      /\ SumFunctionOnSet(g, Components) = SumFunctionOnSet(g, C) + SumFunctionOnSet(g, R)
  BY <1>1, <1>3, SumSplit
<1>6. SumFunctionOnSet(g, C) = 0
  BY <1>2, <1>3, SumNone
<1>7. /\ SumFunctionOnSet(f, C) = SumFunctionOnSet(h, C)
      /\ SumFunctionOnSet(f, R) = SumFunctionOnSet(g, R)
  BY <1>2, <1>3, SumSame
<1>8. SumFunctionOnSet(f, C) \in Nat /\ SumFunctionOnSet(f, R) \in Nat
  BY <1>1, <1>3, SumType
<1> QED BY <1>4, <1>5, <1>6, <1>7, <1>8

(* A registered item reserves its bytes and its allowance once. *)
LEMMA ReservedComes ==
  ASSUME IInv, NEW i \in Items, NEW h \in Holders, RegisterItem(i, h)
  PROVE  Reserved(Components)' =
            Reserved(Components) + (SumFunctionOnSet(Size, ComponentsOf(i)) + Allowance[i])
<1> DEFINE C == ComponentsOf(i)
           R == Components \ C
           bytes == [c \in C |-> Size[c] + (IF c = First[i] THEN Allowance[i] ELSE 0)]
           f == [d \in Components |-> comp[d].reserved]
           g == [d \in Components |-> comp'[d].reserved]
<1>0. item[i] = "absent"
  BY DEF RegisterItem
<1>1. \A d \in Components : f[d] \in Nat /\ g[d] \in Nat
  BY RegisterRows DEF IInv, TypeOK, ComponentRow
<1>2. \A d \in C : f[d] = 0
  BY <1>0 DEF IInv, ComponentsFollow, ComponentFollows, ComponentsOf
<1>3. (\A d \in C : g[d] = bytes[d]) /\ (\A d \in R : f[d] = g[d])
  BY RegisterRows DEF ComponentsOf
<1>4. IsFiniteSet(Components) /\ C \subseteq Components /\ IsFiniteSet(C) /\ IsFiniteSet(R)
  BY ComponentAssumption, FS_Subset DEF ComponentsOf
<1>5. /\ Reserved(Components) = SumFunctionOnSet(f, Components)
      /\ Reserved(Components)' = SumFunctionOnSet(g, Components)
  BY DEF Reserved
<1>6. First[i] \in C /\ Allowance[i] \in Nat
  BY ComponentAssumption, SizeAssumption DEF ComponentsOf
<1>7. /\ \A c \in C : Size[c] \in Nat /\ bytes[c] \in Nat
      /\ \A c \in C \ {First[i]} : Size[c] = bytes[c]
      /\ bytes[First[i]] = Size[First[i]] + Allowance[i]
  BY <1>4, <1>6, SizeAssumption
<1>8. SumFunctionOnSet(Size, C) \in Nat
  BY <1>4, <1>7, SumType
<1> HIDE DEF bytes, f, g, C
<1>9. SumFunctionOnSet(bytes, C) = SumFunctionOnSet(Size, C) + Allowance[i]
  <2>1. SumFunctionOnSet(bytes, C) =
          SumFunctionOnSet(Size, C) - Size[First[i]] + bytes[First[i]]
    <3>1. /\ First[i] \in C /\ IsFiniteSet(C)
          /\ \A c \in C : Size[c] \in Nat
          /\ \A c \in C : bytes[c] \in Nat
          /\ \A c \in C \ {First[i]} : Size[c] = bytes[c]
      BY <1>4, <1>6, <1>7
    <3> QED BY <3>1, SumChange
  <2> QED BY <1>6, <1>7, <1>8, <2>1
<1>10. /\ SumFunctionOnSet(f, Components) = SumFunctionOnSet(f, C) + SumFunctionOnSet(f, R)
       /\ SumFunctionOnSet(g, Components) = SumFunctionOnSet(g, C) + SumFunctionOnSet(g, R)
  BY <1>1, <1>4, SumSplit
<1>11. SumFunctionOnSet(f, C) = 0
  BY <1>2, <1>4, SumNone
<1>12. /\ SumFunctionOnSet(g, C) = SumFunctionOnSet(bytes, C)
       /\ SumFunctionOnSet(f, R) = SumFunctionOnSet(g, R)
  BY <1>3, <1>4, SumSame
<1>13. SumFunctionOnSet(f, R) \in Nat
  BY <1>1, <1>4, SumType
<1>14. Reserved(Components)' = Reserved(Components) + (SumFunctionOnSet(Size, C) + Allowance[i])
  BY <1>5, <1>6, <1>8, <1>9, <1>10, <1>11, <1>12, <1>13
<1> QED BY <1>14 DEF C

-----------------------------------------------------------------------------
(* What neither counts nor reserves. *)
LEMMA Unmoved ==
  ASSUME Exact, UNCHANGED <<item, capacity>>, Counted' = Counted,
         \A b \in Counted : blob'[b].size = blob[b].size,
         \A c \in Components : /\ comp'[c].reserved = comp[c].reserved
                               /\ comp'[c].state \in {"awaiting", "receiving"} =>
                                    comp[c].state \in {"awaiting", "receiving"}
  PROVE  Exact'
<1>1. CommittedBytes' = CommittedBytes /\ Reserved(Components)' = Reserved(Components)
  BY BytesSame, ReservedSame
<1>2. \A c \in Components : OpenFits(c)'
  BY DEF Exact, OpenFits
<1> QED BY <1>1, <1>2 DEF Exact

(* The same when the rows of blobs and components are not touched. *)
LEMMA Untouched ==
  ASSUME Exact, UNCHANGED <<item, capacity, blob, comp>>
  PROVE  Exact'
<1>1. Counted' = Counted
  BY DEF Counted
<1> QED BY <1>1, Unmoved

(* Items that end: their components hold nothing any more. *)
LEMMA EndsExactly ==
  ASSUME IInv, Exact, NEW C \in SUBSET Components, AdjustCapacity(0, - Reserved(C)),
         Counted' = Counted, \A b \in Counted : blob'[b].size = blob[b].size,
         \A c \in C : /\ comp'[c].reserved = 0
                      /\ item'[ItemOf[c]] # "awaiting_upload",
         \A c \in Components \ C : /\ comp'[c] = comp[c]
                                   /\ item'[ItemOf[c]] = item[ItemOf[c]]
  PROVE  Exact'
<1> USE DEF IInv
<1>1. /\ Reserved(C) \in Nat /\ Reserved(Components) >= Reserved(C)
      /\ Reserved(Components)' = Reserved(Components) - Reserved(C)
  BY ReservedGo
<1>2. CommittedBytes' = CommittedBytes
  BY BytesSame
<1>3. CommittedBytes \in Nat /\ Reserved(Components) \in Nat
  BY BytesType
<1>4. /\ capacity.committed = CommittedBytes /\ capacity.reserved = Reserved(Components)
  BY DEF Exact
<1>5. /\ capacity'.committed = capacity.committed + 0
      /\ capacity'.reserved = capacity.reserved + (- Reserved(C))
  <2>1. /\ 0 \in Int /\ - Reserved(C) \in Int
        /\ capacity.committed + 0 >= 0 /\ capacity.reserved + (- Reserved(C)) >= 0
    BY <1>1, <1>3, <1>4
  <2> QED BY <2>1, Adjusted
<1>6. /\ capacity'.committed = CommittedBytes' /\ capacity'.reserved = Reserved(Components)'
  BY <1>1, <1>2, <1>3, <1>4, <1>5
<1>7. \A c \in Components : OpenFits(c)'
  BY DEF Exact, OpenFits
<1> QED BY <1>6, <1>7 DEF Exact

LEMMA CancelExactly ==
  ASSUME IInv, Exact, NEW I \in SUBSET Items, NEW kept, CancelItems(I, kept), UNCHANGED blob
  PROVE  Exact'
<1> USE DEF IInv
<1>1. PICK C \in SUBSET Components : C = {c \in Components : ItemOf[c] \in I}
  OBVIOUS
<1>2. AdjustCapacity(0, - Reserved(C))
  BY <1>1 DEF CancelItems
<1>3. item' = [i \in Items |-> IF i \in I THEN "cancelled" ELSE item[i]]
  BY DEF CancelItems
<1>4. \A c \in C : comp'[c].reserved = 0 /\ item'[ItemOf[c]] # "awaiting_upload"
  BY <1>1, <1>3, CancelRows
<1>5. \A c \in Components \ C : comp'[c] = comp[c] /\ item'[ItemOf[c]] = item[ItemOf[c]]
  BY <1>1, <1>3, CancelRows, ComponentAssumption
<1>6. Counted' = Counted
  BY DEF Counted
<1> QED BY <1>2, <1>4, <1>5, <1>6, EndsExactly

LEMMA RegisterExactly ==
  ASSUME IInv, Exact, NEW i \in Items, NEW h \in Holders, RegisterItem(i, h)
  PROVE  Exact'
<1> USE DEF IInv
<1>1. PICK total \in Nat : total = SumFunctionOnSet(Size, ComponentsOf(i)) + Allowance[i]
  <2>1. SumFunctionOnSet(Size, ComponentsOf(i)) \in Nat /\ Allowance[i] \in Nat
    BY SomeComponents, SizeAssumption DEF ComponentsOf
  <2> QED BY <2>1
<1>2. /\ item' = [item EXCEPT ![i] = "awaiting_upload"]
      /\ AdjustCapacity(0, total) /\ UNCHANGED blob
  BY <1>1 DEF RegisterItem
<1>3. Reserved(Components)' = Reserved(Components) + total
  BY <1>1, ReservedComes
<1>4. CommittedBytes' = CommittedBytes
  BY <1>2, BytesSame DEF Counted
<1>5. CommittedBytes \in Nat /\ Reserved(Components) \in Nat
  BY BytesType
<1>6. /\ capacity.committed = CommittedBytes /\ capacity.reserved = Reserved(Components)
  BY DEF Exact
<1>7. /\ capacity'.committed = capacity.committed + 0
      /\ capacity'.reserved = capacity.reserved + total
  <2>1. /\ 0 \in Int /\ total \in Int
        /\ capacity.committed + 0 >= 0 /\ capacity.reserved + total >= 0
    BY <1>5, <1>6
  <2> QED BY <1>2, <2>1, Adjusted
<1>8. \A c \in Components : OpenFits(c)'
  <2> SUFFICES ASSUME NEW c \in Components PROVE OpenFits(c)'
    OBVIOUS
  <2>1. CASE ItemOf[c] = i
    <3>1. /\ comp'[c].reserved = Size[c] + (IF c = First[i] THEN Allowance[i] ELSE 0)
          /\ Size[c] \in Nat /\ Allowance[i] \in Nat
      BY <2>1, RegisterRows, SizeAssumption
    <3>2. comp'[c].reserved >= Size[c]
      BY <3>1
    <3> QED BY <3>2 DEF OpenFits
  <2>2. CASE ItemOf[c] # i
    <3>1. comp'[c] = comp[c] /\ item'[ItemOf[c]] = item[ItemOf[c]]
      BY <1>2, <2>2, RegisterRows, ComponentAssumption DEF TypeOK
    <3> QED BY <3>1 DEF Exact, OpenFits
  <2> QED BY <2>1, <2>2
<1> QED BY <1>3, <1>4, <1>5, <1>6, <1>7, <1>8 DEF Exact

LEMMA ResetExactly ==
  ASSUME IInv, Exact, IInv', NEW c \in Components, ResetComponent(c)
  PROVE  Exact'
<1> USE DEF IInv
<1>1. ItemOf[c] \in Items /\ Size[c] \in Nat /\ Allowance[ItemOf[c]] \in Nat
  BY ComponentAssumption, SizeAssumption
<1>2. PICK n \in Nat : n = ResetReserve(c)
  BY <1>1 DEF ResetReserve
<1>3. /\ item[ItemOf[c]] \in {"awaiting_upload", "failed"}
      /\ item' = [item EXCEPT ![ItemOf[c]] = "awaiting_upload"]
      /\ comp' = [comp EXCEPT ![c] = [state |-> "awaiting", attempt |-> Null, blob |-> Null,
                                      reserved |-> @.reserved + n, fresh |-> FALSE]]
      /\ AdjustCapacity(0, n) /\ UNCHANGED blob
  BY <1>2 DEF ResetComponent
<1>4. /\ comp'[c].reserved = comp[c].reserved + n /\ comp[c].reserved \in Nat
      /\ \A d \in Components \ {c} : comp'[d] = comp[d]
  BY <1>3 DEF TypeOK, ComponentRow
<1>5. Reserved(Components)' = Reserved(Components) + n
  <2>1. Reserved(Components)' = Reserved(Components) - comp[c].reserved + comp'[c].reserved
    BY <1>4, ReservedMoves
  <2>2. Reserved(Components) \in Nat
    BY BytesType
  <2> QED BY <1>4, <2>1, <2>2
<1>6. CommittedBytes' = CommittedBytes
  BY <1>3, BytesSame DEF Counted
<1>7. CommittedBytes \in Nat /\ Reserved(Components) \in Nat
  BY BytesType
<1>8. /\ capacity.committed = CommittedBytes /\ capacity.reserved = Reserved(Components)
  BY DEF Exact
<1>9. /\ capacity'.committed = capacity.committed + 0
      /\ capacity'.reserved = capacity.reserved + n
  <2>1. /\ 0 \in Int /\ n \in Int
        /\ capacity.committed + 0 >= 0 /\ capacity.reserved + n >= 0
    BY <1>7, <1>8
  <2> QED BY <1>3, <2>1, Adjusted
<1>10. \A d \in Components : OpenFits(d)'
  <2> SUFFICES ASSUME NEW d \in Components PROVE OpenFits(d)'
    OBVIOUS
  <2>0. ComponentFollows(d)
    BY DEF ComponentsFollow
  <2>1. CASE d = c
    <3>1. CASE comp[c].blob # Null
      <4>1. n >= Size[c]
        BY <1>1, <1>2, <3>1 DEF ResetReserve
      <4>2. comp'[c].reserved >= Size[c]
        BY <1>1, <1>4, <4>1
      <4> QED BY <2>1, <4>2 DEF OpenFits
    <3>2. CASE comp[c].blob = Null
      <4>1. /\ item[ItemOf[c]] = "awaiting_upload"
            /\ comp[c].state \in {"awaiting", "receiving"}
        BY <1>3, <2>0, <2>1, <3>2 DEF ComponentFollows
      <4>2. comp[c].reserved >= Size[c]
        BY <4>1 DEF Exact, OpenFits
      <4>3. comp'[c].reserved >= Size[c]
        BY <1>1, <1>4, <4>2
      <4> QED BY <2>1, <4>3 DEF OpenFits
    <3> QED BY <3>1, <3>2
  <2>2. CASE d # c
    <3>1. comp'[d] = comp[d]
      BY <1>4, <2>2
    <3>2. ItemOf[d] \in Items
      BY ComponentAssumption
    <3>3. \/ item'[ItemOf[d]] = item[ItemOf[d]]
          \/ item[ItemOf[d]] = "failed"
      BY <1>3, <3>2 DEF TypeOK
    <3>4. item[ItemOf[d]] = "failed" => comp[d].state \notin {"awaiting", "receiving"}
      BY <2>0 DEF ComponentFollows
    <3> QED BY <3>1, <3>3, <3>4 DEF Exact, OpenFits
  <2> QED BY <2>1, <2>2
<1> QED BY <1>5, <1>6, <1>7, <1>8, <1>9, <1>10 DEF Exact

(* The reserved bytes of an upload become committed ones. *)
LEMMA RecordExactly ==
  ASSUME IInv, Exact, IInv', NEW t \in Transfers, transfer[t].at = "stored",
         CommitOutcome(t) = "committed", RecordUpload(t)
  PROVE  Exact'
<1> USE DEF IInv
<1>1. PICK c \in Components, b \in Blobs, i \in Items :
        c = transfer[t].comp /\ b = transfer[t].key /\ i = ItemOf[c]
  BY ComponentAssumption DEF FilesInFlight
<1>2. PICK moved : moved = IF Size[c] < comp[c].reserved THEN Size[c] ELSE comp[c].reserved
  OBVIOUS
<1>3. /\ moved \in Nat /\ moved <= comp[c].reserved /\ item[i] = "awaiting_upload"
      /\ comp'[c].state = "received" /\ comp'[c].reserved = comp[c].reserved - moved
      /\ \A d \in Components \ {c} : comp'[d] = comp[d]
      /\ CommitBlob(b, Size[c]) /\ AdjustCapacity(Size[c], - moved)
  BY <1>1, <1>2, RecordRows
<1>4. /\ Size[c] \in Nat /\ comp[c].reserved \in Nat /\ blob[b].state = "absent"
  BY <1>1, SizeAssumption DEF TypeOK, ComponentRow, FilesInFlight
<1>5. CommittedBytes' = CommittedBytes + Size[c]
  BY <1>3, <1>4, BytesAdd
<1>6. /\ Reserved(Components)' = Reserved(Components) - comp[c].reserved + comp'[c].reserved
      /\ Reserved(Components) >= comp[c].reserved
  BY <1>3, ReservedMoves
<1>7. CommittedBytes \in Nat /\ Reserved(Components) \in Nat
  BY BytesType
<1>8. /\ capacity.committed = CommittedBytes /\ capacity.reserved = Reserved(Components)
  BY DEF Exact
<1>9. /\ capacity'.committed = capacity.committed + Size[c]
      /\ capacity'.reserved = capacity.reserved + (- moved)
  <2>1. /\ Size[c] \in Int /\ - moved \in Int
        /\ capacity.committed + Size[c] >= 0 /\ capacity.reserved + (- moved) >= 0
    BY <1>3, <1>4, <1>6, <1>7, <1>8
  <2> QED BY <1>3, <2>1, Adjusted
<1>10. capacity'.committed = CommittedBytes' /\ capacity'.reserved = Reserved(Components)'
  BY <1>3, <1>4, <1>5, <1>6, <1>7, <1>8, <1>9
<1>11. \A d \in Components : OpenFits(d)'
  <2> SUFFICES ASSUME NEW d \in Components PROVE OpenFits(d)'
    OBVIOUS
  <2>1. CASE d = c
    BY <1>3, <2>1 DEF OpenFits
  <2>2. CASE d # c
    <3>1. comp'[d] = comp[d]
      BY <1>3, <2>2
    <3>2. item'[ItemOf[d]] = "awaiting_upload" => item[ItemOf[d]] = "awaiting_upload"
      <4>1. \E new : item' = [item EXCEPT ![i] = new]
        BY <1>1 DEF RecordUpload
      <4> QED BY <1>3, <4>1, ComponentAssumption DEF TypeOK
    <3> QED BY <3>1, <3>2 DEF Exact, OpenFits
  <2> QED BY <2>1, <2>2
<1> QED BY <1>10, <1>11 DEF Exact

LEMMA UploadsExactly ==
  ASSUME IInv, Exact, IInv', NEW t \in Transfers, UploadStep(t)
  PROVE  Exact'
<1> USE DEF IInv
<1>0. transfer[t].at # "idle" => transfer[t].comp \in Components
  BY DEF FilesInFlight
<1>1. ASSUME AwaitAgain(t), transfer[t].comp \in Components, UNCHANGED <<item, blob, capacity>>
      PROVE  Exact'
  <2>1. Counted' = Counted
    BY <1>1 DEF Counted
  <2> QED BY <1>1, <2>1, AwaitFits, Unmoved
<1>2. ASSUME NEW c \in Components, BeginUpload(t, c) PROVE Exact'
  <2>1. /\ comp[c].state \in {"awaiting", "receiving"} /\ UNCHANGED <<item, blob, capacity>>
        /\ comp' = [comp EXCEPT ![c].state = "receiving", ![c].attempt = t, ![c].fresh = TRUE]
    BY <1>2 DEF BeginUpload
  <2>2. \A d \in Components : /\ comp'[d].reserved = comp[d].reserved
                              /\ d # c => comp'[d].state = comp[d].state
    BY <2>1 DEF TypeOK, ComponentRow
  <2>3. Counted' = Counted
    BY <2>1 DEF Counted
  <2> QED BY <2>1, <2>2, <2>3, Unmoved
<1>3. CASE CommitUpload(t) \/ CommitUnknown(t)
  <2>1. /\ transfer[t].at = "stored" /\ transfer[t].comp \in Components
        /\ CommitTransaction(t) \/ UNCHANGED <<item, comp, blob, capacity>>
    BY <1>0, <1>3 DEF CommitUpload, CommitUnknown
  <2>2. CASE CommitTransaction(t) /\ CommitOutcome(t) = "committed"
    <3>1. RecordUpload(t)
      BY <2>2 DEF CommitTransaction
    <3> QED BY <2>1, <2>2, <3>1, RecordExactly
  <2>3. CASE AwaitAgain(t) /\ UNCHANGED <<item, blob, capacity>>
    BY <1>1, <2>1, <2>3
  <2>4. CASE UNCHANGED <<item, comp, blob, capacity>>
    BY <2>4, Untouched
  <2> QED BY <2>1, <2>2, <2>3, <2>4 DEF CommitTransaction
<1>4. CASE AbortUpload(t)
  BY <1>0, <1>1, <1>4 DEF AbortUpload
<1>5. CASE UNCHANGED <<item, comp, blob, capacity>>
  BY <1>5, Untouched
<1> QED BY <1>2, <1>3, <1>4, <1>5
        DEF UploadStep, StreamStored, StreamEnds, StoppedAfterStore, RemoveQuietly, TransferDies

LEMMA ReadyExactly ==
  ASSUME IInv, Exact, NEW i \in Items, MarkItemReady(i)
  PROVE  Exact'
<1> USE DEF IInv
<1>1. PICK b \in Blobs : b = output[i].key /\ blob[b].state = "absent"
  BY DEF FilesInFlight, MarkItemReady
<1>2. PICK C \in SUBSET Components : C = ComponentsOf(i)
  BY DEF ComponentsOf
<1>3. CommitBlob(b, DerivedSize) /\ AdjustCapacity(DerivedSize, - Reserved(C))
  BY <1>1, <1>2 DEF MarkItemReady
<1>4. DerivedSize \in Nat
  BY SizeAssumption
<1>5. CommittedBytes' = CommittedBytes + DerivedSize
  BY <1>1, <1>3, <1>4, BytesAdd
<1>6. /\ \A c \in C : comp'[c].reserved = 0 /\ comp'[c].state = "verified"
      /\ \A c \in Components \ C : comp'[c] = comp[c]
  BY <1>2, ReadyRows DEF ComponentsOf
<1>7. /\ Reserved(C) \in Nat /\ Reserved(Components) >= Reserved(C)
      /\ Reserved(Components)' = Reserved(Components) - Reserved(C)
  BY <1>6, ReservedGo
<1>8. CommittedBytes \in Nat /\ Reserved(Components) \in Nat
  BY BytesType
<1>9. /\ capacity.committed = CommittedBytes /\ capacity.reserved = Reserved(Components)
  BY DEF Exact
<1>10. /\ capacity'.committed = capacity.committed + DerivedSize
       /\ capacity'.reserved = capacity.reserved + (- Reserved(C))
  <2>1. /\ DerivedSize \in Int /\ - Reserved(C) \in Int
        /\ capacity.committed + DerivedSize >= 0 /\ capacity.reserved + (- Reserved(C)) >= 0
    BY <1>4, <1>7, <1>8, <1>9
  <2> QED BY <1>3, <2>1, Adjusted
<1>11. capacity'.committed = CommittedBytes' /\ capacity'.reserved = Reserved(Components)'
  BY <1>5, <1>7, <1>8, <1>9, <1>10
<1>12. \A c \in Components : OpenFits(c)'
  <2>1. \A c \in Components : item'[ItemOf[c]] = "awaiting_upload" =>
                                 item[ItemOf[c]] = "awaiting_upload"
    BY ReadyRows, ComponentAssumption DEF TypeOK
  <2> QED BY <1>6, <2>1 DEF Exact, OpenFits
<1> QED BY <1>11, <1>12 DEF Exact

LEMMA DerivedExactly ==
  ASSUME IInv, Exact, NEW i \in Items, RecordDerivatives(i)
  PROVE  Exact'
<1> USE DEF IInv
<1>1. PICK b \in Blobs : b = output[i].key /\ blob[b].state = "absent"
  BY DEF FilesInFlight, RecordDerivatives
<1>2. /\ CommitBlob(b, DerivedSize) /\ AdjustCapacity(DerivedSize, 0)
      /\ UNCHANGED <<item, comp>>
  BY <1>1 DEF RecordDerivatives
<1>3. DerivedSize \in Nat
  BY SizeAssumption
<1>4. CommittedBytes' = CommittedBytes + DerivedSize
  BY <1>1, <1>2, <1>3, BytesAdd
<1>5. Reserved(Components)' = Reserved(Components)
  BY <1>2, ReservedSame
<1>6. CommittedBytes \in Nat /\ Reserved(Components) \in Nat
  BY BytesType
<1>7. /\ capacity.committed = CommittedBytes /\ capacity.reserved = Reserved(Components)
  BY DEF Exact
<1>8. /\ capacity'.committed = capacity.committed + DerivedSize
      /\ capacity'.reserved = capacity.reserved + 0
  <2>1. /\ DerivedSize \in Int /\ 0 \in Int
        /\ capacity.committed + DerivedSize >= 0 /\ capacity.reserved + 0 >= 0
    BY <1>3, <1>6, <1>7
  <2> QED BY <1>2, <2>1, Adjusted
<1>9. \A c \in Components : OpenFits(c)'
  BY <1>2 DEF Exact, OpenFits
<1> QED BY <1>4, <1>5, <1>6, <1>7, <1>8, <1>9 DEF Exact

LEMMA FailExactly ==
  ASSUME IInv, Exact, NEW i \in Items, MarkItemFailed(i)
  PROVE  Exact'
<1> USE DEF IInv
<1>1. PICK C \in SUBSET Components : C = ComponentsOf(i)
  BY DEF ComponentsOf
<1>2. /\ AdjustCapacity(0, - Reserved(C)) /\ comp' = Released(i)
      /\ item' = [item EXCEPT ![i] = "failed"] /\ UNCHANGED blob
  BY <1>1 DEF MarkItemFailed
<1>3. \A c \in C : comp'[c].reserved = 0 /\ item'[ItemOf[c]] # "awaiting_upload"
  BY <1>1, <1>2, ReleasedRows DEF ComponentsOf, TypeOK
<1>4. \A c \in Components \ C : comp'[c] = comp[c] /\ item'[ItemOf[c]] = item[ItemOf[c]]
  BY <1>1, <1>2, ReleasedRows, ComponentAssumption DEF ComponentsOf, TypeOK
<1>5. Counted' = Counted
  BY <1>2 DEF Counted
<1> QED BY <1>2, <1>3, <1>4, <1>5, EndsExactly

LEMMA PurgeExactly ==
  ASSUME IInv, Exact, NEW p \in Purgers, NEW i \in Items, PurgeItem(p, i)
  PROVE  Exact'
<1> USE DEF IInv
<1>1. PICK C \in SUBSET Components : C = ComponentsOf(i)
  BY DEF ComponentsOf
<1>2. /\ AdjustCapacity(0, - Reserved(C)) /\ item' = [item EXCEPT ![i] = "purged"]
  BY <1>1 DEF PurgeItem
<1>3. Counted' = Counted /\ \A b \in Blobs : blob'[b].size = blob[b].size
  BY PurgeItemFits
<1>4. \A c \in C : comp'[c].reserved = 0 /\ item'[ItemOf[c]] # "awaiting_upload"
  BY <1>1, <1>2, PurgeItemRows DEF ComponentsOf, TypeOK
<1>5. \A c \in Components \ C : comp'[c] = comp[c] /\ item'[ItemOf[c]] = item[ItemOf[c]]
  BY <1>1, <1>2, PurgeItemRows, ComponentAssumption DEF ComponentsOf, TypeOK
<1>6. \A b \in Counted : blob'[b].size = blob[b].size
  BY <1>3 DEF Counted
<1> QED BY <1>2, <1>3, <1>4, <1>5, <1>6, EndsExactly

(* A confirmed purge takes off what it purged, and nothing twice. *)
LEMMA ConfirmExactly ==
  ASSUME IInv, Exact, NEW p \in Purgers, ConfirmPurged(p)
  PROVE  Exact'
<1> USE DEF IInv
<1>1. PICK gone \in SUBSET Blobs : gone = {b \in purge[p].unlinked : blob[b].state = "tombstoned"}
  BY DEF TypeOK
<1>2. PICK n : n = SumFunctionOnSet([b \in gone |-> blob[b].size], gone)
  OBVIOUS
<1>3. /\ gone \in SUBSET Counted /\ \A b \in Counted : blob'[b].size = blob[b].size
      /\ Counted' = Counted \ gone /\ AdjustCapacity(- n, 0)
  BY <1>1, <1>2, ConfirmRows DEF Counted
<1>4. n \in Nat /\ CommittedBytes = CommittedBytes' + n /\ CommittedBytes' \in Nat
  BY <1>2, <1>3, BytesGo
<1>5. UNCHANGED <<item, comp>>
  BY DEF ConfirmPurged
<1>6. Reserved(Components)' = Reserved(Components)
  BY <1>5, ReservedSame
<1>7. CommittedBytes \in Nat /\ Reserved(Components) \in Nat
  BY BytesType
<1>8. /\ capacity.committed = CommittedBytes /\ capacity.reserved = Reserved(Components)
  BY DEF Exact
<1>9. /\ capacity'.committed = capacity.committed + (- n)
      /\ capacity'.reserved = capacity.reserved + 0
  <2>1. /\ - n \in Int /\ 0 \in Int
        /\ capacity.committed + (- n) >= 0 /\ capacity.reserved + 0 >= 0
    <3> DEFINE later == CommittedBytes'
    <3>1. later \in Nat /\ capacity.committed = later + n
      BY <1>4, <1>8
    <3>2. capacity.reserved \in Nat
      BY <1>7, <1>8
    <3> HIDE DEF later
    <3> QED BY <1>4, <3>1, <3>2
  <2> QED BY <1>3, <2>1, Adjusted
<1>10. capacity'.committed = CommittedBytes' /\ capacity'.reserved = Reserved(Components)'
  <2> DEFINE later == CommittedBytes'
  <2>1. /\ n \in Nat /\ later \in Nat /\ capacity.committed = later + n
        /\ capacity.reserved \in Nat /\ capacity.reserved = Reserved(Components)'
    BY <1>4, <1>6, <1>7, <1>8
  <2>2. capacity'.committed = later
    <3> HIDE DEF later
    <3> QED BY <1>9, <2>1
  <2>3. capacity'.reserved = Reserved(Components)'
    BY <1>9, <2>1
  <2> QED BY <2>2, <2>3
<1>11. \A c \in Components : OpenFits(c)'
  BY <1>5 DEF Exact, OpenFits
<1> QED BY <1>10, <1>11 DEF Exact

LEMMA ExactStep == IInv /\ Exact /\ [Next]_vars => Exact'
<1> SUFFICES ASSUME IInv, Exact, [Next]_vars PROVE Exact'
  OBVIOUS
<1>0. IInv'
  BY NextFits
<1>1. ASSUME NEW i \in Items, ItemStep(i) PROVE Exact'
  <2>1. CASE CancelItem(i)
    <3>1. {i} \in SUBSET Items /\ CancelItems({i}, refs) /\ UNCHANGED blob
      BY <2>1 DEF CancelItem
    <3> QED BY <3>1, CancelExactly
  <2>2. ASSUME NEW h \in Holders, RegisterItem(i, h) PROVE Exact'
    BY <2>2, RegisterExactly
  <2>3. CASE MarkItemReady(i)
    BY <2>3, ReadyExactly
  <2>4. CASE RecordDerivatives(i)
    BY <2>4, DerivedExactly
  <2>5. CASE MarkItemFailed(i)
    BY <2>5, FailExactly
  <2>6. CASE UNCHANGED <<item, comp, blob, capacity>>
    BY <2>6, Untouched
  <2> QED BY <1>1, <2>1, <2>2, <2>3, <2>4, <2>5, <2>6
          DEF ItemStep, AttachItem, DetachItem, ProcessorStores, DropOutput, ReleaseDerivative
<1>2. ASSUME NEW c \in Components, ResetComponent(c) PROVE Exact'
  BY <1>0, <1>2, ResetExactly
<1>3. ASSUME NEW c \in Components, TransferAges(c) PROVE Exact'
  <2>1. /\ comp' = [comp EXCEPT ![c].fresh = FALSE] /\ UNCHANGED <<item, capacity, blob>>
    BY <1>3 DEF TransferAges
  <2>2. \A d \in Components : comp'[d].reserved = comp[d].reserved /\ comp'[d].state = comp[d].state
    BY <2>1 DEF IInv, TypeOK, ComponentRow
  <2>3. Counted' = Counted
    BY <2>1 DEF Counted
  <2> QED BY <2>1, <2>2, <2>3, Unmoved
<1>4. ASSUME NEW t \in Transfers, UploadStep(t) PROVE Exact'
  BY <1>0, <1>4, UploadsExactly
<1>5. ASSUME NEW s \in Sessions, SessionStep(s) PROVE Exact'
  <2>1. CASE DiscardSession(s) \/ ExpireSession(s)
    <3>1. PICK I \in SUBSET Items, kept \in SUBSET refs : CancelItems(I, kept) /\ UNCHANGED blob
      BY <2>1, EndingSession
    <3> QED BY <3>1, CancelExactly
  <2>2. CASE UNCHANGED <<item, comp, blob, capacity>>
    BY <2>2, Untouched
  <2> QED BY <1>5, <2>1, <2>2 DEF SessionStep, LeasePasses, HeartbeatSession
<1>6. ASSUME NEW p \in Purgers, PurgeStep(p) PROVE Exact'
  <2>1. ASSUME NEW i \in Items, PurgeItem(p, i) PROVE Exact'
    BY <2>1, PurgeExactly
  <2>2. ASSUME NEW b \in Blobs, PurgeBlob(p, b) PROVE Exact'
    <3>1. Counted' = Counted /\ \A d \in Counted : blob'[d].size = blob[d].size
      BY <2>2, PurgeBlobFits DEF Counted
    <3>2. UNCHANGED <<item, comp, capacity>>
      BY <2>2 DEF PurgeBlob
    <3> QED BY <3>1, <3>2, Unmoved
  <2>3. CASE ConfirmPurged(p)
    BY <2>3, ConfirmExactly
  <2>4. CASE UNCHANGED <<item, comp, blob, capacity>>
    BY <2>4, Untouched
  <2> QED BY <1>6, <2>1, <2>2, <2>3, <2>4 DEF PurgeStep, Unlink, PurgeDies
<1>7. ASSUME NEW b \in Blobs, ReconcileStore(b) PROVE Exact'
  BY <1>7, Untouched DEF ReconcileStore
<1>8. CASE UNCHANGED vars
  BY <1>8, Untouched DEF vars
<1> QED BY <1>1, <1>2, <1>3, <1>4, <1>5, <1>6, <1>7, <1>8 DEF Next

LEMMA ExactAtFirst == Init => Exact
<1> SUFFICES ASSUME Init PROVE Exact
  OBVIOUS
<1>1. Counted = {}
  BY DEF Init, Counted
<1>2. CommittedBytes = 0
  BY <1>1, FS_EmptySet, SumOne DEF CommittedBytes
<1>3. Reserved(Components) = 0
  <2> DEFINE f == [c \in Components |-> comp[c].reserved]
  <2>1. \A c \in Components : f[c] = 0
    BY DEF Init
  <2> HIDE DEF f
  <2>2. SumFunctionOnSet(f, Components) = 0
    BY <2>1, ComponentAssumption, SumNone
  <2> QED BY <2>2 DEF f, Reserved
<1>4. \A c \in Components : OpenFits(c)
  BY ComponentAssumption DEF Init, OpenFits
<1> QED BY <1>2, <1>3, <1>4 DEF Init, Exact

(* The counters of the account are the sums of its rows in every reachable   *)
(* state, so no release is ever cut off at zero, and every component that    *)
(* can still be uploaded has its bytes reserved.                             *)
THEOREM CountersAreExact == Spec => []CapacityIsExact
<1>1. Init => Exact
  BY ExactAtFirst
<1>2. IInv /\ Exact /\ [Next]_vars => Exact'
  BY ExactStep
<1>3. Exact => CapacityIsExact
  BY ExactIsExact
<1> QED BY <1>1, <1>2, <1>3, Invariance, PTL DEF Spec

-----------------------------------------------------------------------------
(***************************************************************************)
(* Drafts and snapshots, for any devices, contents, items, history limit,   *)
(* number of commands and times, in any order and as often the same.        *)
(*                                                                          *)
(* Shape types the rows, except that nothing is said of the ids of          *)
(* snapshots, which no statement about them needs.  RefsInv adds to         *)
(* RefsCoverContents that stored contents name only registered items: else  *)
(* registering an item could put a live item into a content whose holder    *)
(* never attached it.  ConflictInv adds to SoleCopiesAreSnapshotted that two *)
(* copies of one base and one time have shared it: else a save of the one   *)
(* could rewrite, and the choice of the one unpin, what the other one has.  *)
(***************************************************************************)
Draft == [state : {"active", "deleted"}, revision : Nat, content : Content,
          held : SUBSET Item]
Copy == [base : Nat, content : Content, class : Class, at : Int,
         held : SUBSET Item]
IsSnapshot(s) ==
    s \in [id : {s.id}, kind : {"saved", "restored", "conflict"}, content : Content,
           source : Nat, pinned : BOOLEAN, at : Int, held : SUBSET Item]

Shape ==
    /\ draft \in Draft
    /\ copies \subseteq Copy
    /\ \A s \in snaps : IsSnapshot(s)
    /\ items \in [Item -> {"new", "live", "gone"}]
    /\ commands \in Nat

-----------------------------------------------------------------------------
(* The helpers of the transactions. *)

(* Every time a command can carry is a number. *)
LEMMA MomentsAreNumbers ==
    ASSUME NEW now \in Moments
    PROVE  now \in Int
BY MomentsAssumption DEF Moments

(* syncRefs leaves the holder with what the next content needs, and keeps   *)
(* what no content involved names.                                          *)
LEMMA SyncedCovers ==
    ASSUME NEW held \in SUBSET Item, NEW previous \in Content, NEW next \in Content
    PROVE  /\ Synced(held, previous, next) \in SUBSET Item
           /\ Attached(next) \subseteq Synced(held, previous, next)
           /\ held \ ItemsOf[previous] \subseteq Synced(held, previous, next)
BY ItemsAssumption DEF Synced, Attached

LEMMA AttachedAreItems ==
    ASSUME NEW content \in Content
    PROVE  Attached(content) \in SUBSET Item
BY ItemsAssumption DEF Attached

(* replaceContent and syncRefs keep the type of the draft's row. *)
LEMMA ReplacedShape ==
    ASSUME Shape, NEW content \in Content
    PROVE  /\ Replaced(draft, content) \in Draft
           /\ Replaced(draft, content).state = draft.state
           /\ Replaced(draft, content).content = content
           /\ Replaced(draft, content).held = Synced(draft.held, draft.content, content)
<1>1. draft \in Draft /\ draft.content \in Content /\ draft.held \in SUBSET Item
  BY DEF Shape, Draft
<1>2. Synced(draft.held, draft.content, content) \in SUBSET Item
  BY <1>1, SyncedCovers
<1> DEFINE held == Synced(draft.held, draft.content, content)
           revision == draft.revision + 1
<1>3. revision \in Nat BY DEF Shape, Draft
<1>4. Replaced(draft, content) =
        [draft EXCEPT !.revision = revision, !.content = content, !.held = held]
  BY DEF Replaced
<1>5. held \in SUBSET Item BY <1>2
<1> HIDE DEF held, revision
<1>6. Replaced(draft, content) =
        [state |-> draft.state, revision |-> revision, content |-> content, held |-> held]
  BY <1>1, <1>4 DEF Draft
<1>7. Replaced(draft, content) \in Draft
  BY <1>1, <1>3, <1>5, <1>6 DEF Draft
<1>8. QED BY <1>6, <1>7 DEF held

(* The row insertSnapshot adds. *)
LEMMA InsertedRows ==
    ASSUME NEW rows, NEW kind \in {"saved", "restored", "conflict"},
           NEW content \in Content, NEW source \in Nat, NEW pinned \in BOOLEAN,
           NEW at \in Int, NEW s \in InsertSnapshot(rows, kind, content, source, pinned, at)
    PROVE  \/ s \in rows
           \/ IsSnapshot(s) /\ s.content = content /\ s.held = Attached(content)
<1>1. CASE s \in rows BY <1>1
<1>2. CASE s = [id |-> FreeId(rows), kind |-> kind, content |-> content,
                source |-> source, pinned |-> pinned, at |-> at,
                held |-> Attached(content)]
  BY <1>2, AttachedAreItems DEF IsSnapshot
<1>3. QED BY <1>1, <1>2 DEF InsertSnapshot

LEMMA TrimmedRows ==
    ASSUME NEW rows, NEW result \in TrimHistory(rows)
    PROVE  /\ result \subseteq rows
           /\ Cardinality(Unpinned(result)) <= HistoryLimit
<1>1. PICK kept \in Newest(Unpinned(rows)) : result = kept \cup (rows \ Unpinned(rows))
  BY DEF TrimHistory
<1>2. kept \subseteq Unpinned(rows) /\ Cardinality(kept) <= HistoryLimit
  BY <1>1 DEF Newest
<1>3. Unpinned(result) = kept
  BY <1>1, <1>2 DEF Unpinned
<1>4. QED BY <1>1, <1>2, <1>3 DEF Unpinned

-----------------------------------------------------------------------------
(* Types. *)

(* The copy a stale save replaces. *)
LEMMA ReplacedCopy ==
    ASSUME NEW c \in Copy, NEW content \in Content
    PROVE  LET d == Rewritten(c, content)
           IN  /\ d \in Copy /\ d.base = c.base /\ d.content = content
               /\ d.class = c.class /\ d.held = Synced(c.held, c.content, content)
<1> DEFINE held == Synced(c.held, c.content, content)
<1>1. held \in SUBSET Item BY SyncedCovers DEF Copy
<1>2. Rewritten(c, content) = [c EXCEPT !.content = content, !.held = held]
  BY DEF Rewritten
<1> HIDE DEF held
<1>3. Rewritten(c, content) =
        [base |-> c.base, content |-> content, class |-> c.class, at |-> c.at, held |-> held]
  BY <1>2 DEF Copy
<1>4. QED BY <1>1, <1>3 DEF Copy, held

(* What may happen to a snapshot in place. *)
LEMMA RewrittenSnapshot ==
    ASSUME NEW s, IsSnapshot(s), NEW content \in Content
    PROVE  /\ IsSnapshot(Rewritten(s, content))
           /\ Rewritten(s, content).content = content
           /\ Rewritten(s, content).held = Synced(s.held, s.content, content)
<1> DEFINE held == Synced(s.held, s.content, content)
<1>1. held \in SUBSET Item BY SyncedCovers DEF IsSnapshot
<1>2. Rewritten(s, content) = [s EXCEPT !.content = content, !.held = held]
  BY DEF Rewritten
<1> HIDE DEF held
<1>3. Rewritten(s, content) =
        [id |-> s.id, kind |-> s.kind, content |-> content, source |-> s.source,
         pinned |-> s.pinned, at |-> s.at, held |-> held]
  BY <1>2 DEF IsSnapshot
<1>4. QED BY <1>1, <1>3 DEF IsSnapshot, held

LEMMA ResnapshotRows ==
    ASSUME \A s \in snaps : IsSnapshot(s), NEW c \in Copy, NEW content \in Content,
           NEW now \in Int, NEW result \in Resnapshots(c, content, now), NEW s \in result
    PROVE  \/ s \in snaps
           \/ IsSnapshot(s) /\ s.content = content /\ Attached(content) \subseteq s.held
<1>1. CASE SnapshotsOf(c) = {}
  <2>1. s \in InsertSnapshot(snaps, "conflict", content, c.base, TRUE, now)
    BY <1>1 DEF Resnapshots
  <2>2. c.base \in Nat BY DEF Copy
  <2>3. CASE s \notin snaps
    <3>1. s = [id |-> FreeId(snaps), kind |-> "conflict", content |-> content,
               source |-> c.base, pinned |-> TRUE, at |-> now, held |-> Attached(content)]
      BY <2>1, <2>3 DEF InsertSnapshot
    <3>2. s.content = content /\ s.held = Attached(content) BY <3>1
    <3>3. IsSnapshot(s) BY <2>2, <3>1, AttachedAreItems DEF IsSnapshot
    <3>4. QED BY <3>2, <3>3
  <2>4. QED BY <2>3
<1>2. CASE SnapshotsOf(c) # {}
  <2>1. PICK r \in SnapshotsOf(c) : result = (snaps \ {r}) \cup {Rewritten(r, content)}
    BY <1>2 DEF Resnapshots
  <2>2. IsSnapshot(r) BY DEF SnapshotsOf, PinnedAt
  <2>3. r.content \in Content /\ r.held \in SUBSET Item BY <2>2 DEF IsSnapshot
  <2>4. CASE s = Rewritten(r, content)
    BY <2>2, <2>3, <2>4, RewrittenSnapshot, SyncedCovers
  <2>5. QED BY <2>1, <2>4
<1>3. QED BY <1>1, <1>2

LEMMA ChosenRows ==
    ASSUME \A s \in snaps : IsSnapshot(s), NEW c, NEW rows, NEW revision \in Nat,
           NEW now \in Int, NEW result \in ChosenSnapshots(c, rows, revision, now),
           NEW s \in result
    PROVE  \/ s \in rows
           \/ /\ IsSnapshot(s)
              /\ \E r \in snaps : s.content = r.content /\ s.held = r.held
<1>1. CASE s \notin rows
  <2>1. PICK r \in SnapshotsOf(c) :
            s = [r EXCEPT !.kind = "saved", !.pinned = FALSE, !.source = revision, !.at = now]
    BY <1>1 DEF ChosenSnapshots
  <2>2. r \in snaps /\ IsSnapshot(r) BY DEF SnapshotsOf, PinnedAt
  <2>3. s = [id |-> r.id, kind |-> "saved", content |-> r.content, source |-> revision,
             pinned |-> FALSE, at |-> now, held |-> r.held]
    BY <2>1, <2>2 DEF IsSnapshot
  <2>4. QED BY <2>2, <2>3 DEF IsSnapshot
<1>2. QED BY <1>1

(* Every step keeps the types of the rows. *)
LEMMA ShapeStep == Shape /\ [DraftsNext]_draftsVars => Shape'
<1> SUFFICES ASSUME Shape, [DraftsNext]_draftsVars PROVE Shape' OBVIOUS
<1> USE DEF Shape
<1>1. ASSUME NEW i \in Item, Register(i) PROVE Shape'
  BY <1>1 DEF Register, Draft
<1>2. ASSUME NEW i \in Item, Cancel(i) PROVE Shape'
  <2>1. draft' \in Draft /\ items' \in [Item -> {"new", "live", "gone"}]
    BY <1>2 DEF Cancel, Draft
  <2>2. ASSUME NEW c \in copies PROVE [c EXCEPT !.held = @ \ {i}] \in Copy
    BY DEF Copy
  <2>3. copies' \subseteq Copy BY <1>2, <2>2 DEF Cancel
  <2>4. QED BY <1>2, <2>1, <2>3 DEF Cancel
<1>3. ASSUME NEW i \in Item, Purge(i) PROVE Shape'
  BY <1>3 DEF Purge
<1>4. ASSUME NEW content \in Content, NEW base \in 1..draft.revision,
             NEW now \in Moments, Command(now)
      PROVE  /\ base \in Nat /\ now \in Int /\ now - 1 \in Int /\ commands' \in Nat
             /\ AfterSave(content) \in Draft
             /\ draft.revision \in Nat
  <2>1. draft.revision \in Nat BY DEF Draft
  <2>2. now \in Int BY MomentsAreNumbers
  <2>3. AfterSave(content) \in Draft BY ReplacedShape DEF AfterSave
  <2>4. QED BY <1>4, <2>1, <2>2, <2>3 DEF Command
<1>5. ASSUME NEW content \in Content, NEW base \in 1..draft.revision,
             NEW now \in Moments, Save(content, base, now)
      PROVE  Shape'
  BY <1>4, <1>5 DEF Save
<1>6. ASSUME NEW content \in Content, NEW base \in 1..draft.revision,
             NEW now \in Moments, SaveNow(content, base, now)
      PROVE  Shape'
  <2>1. draft' \in Draft /\ commands' \in Nat /\ now \in Int
    BY <1>4, <1>6 DEF SaveNow
  <2>2. draft'.content \in Content /\ draft'.revision \in Nat BY <2>1 DEF Draft
  <2>3. ASSUME NEW s \in snaps' PROVE IsSnapshot(s)
    <3>1. CASE s \in snaps BY <3>1
    <3>2. CASE s \notin snaps
      <4>1. snaps' \in TrimHistory(InsertSnapshot(snaps, "saved", draft'.content,
                                                 draft'.revision, FALSE, now))
        BY <1>6, <3>2 DEF SaveNow, Recorded
      <4>2. s \in InsertSnapshot(snaps, "saved", draft'.content, draft'.revision, FALSE, now)
        BY <4>1, TrimmedRows
      <4>3. QED BY <2>1, <2>2, <3>2, <4>2, InsertedRows
    <3>3. QED BY <3>1, <3>2
  <2>4. QED BY <1>6, <2>1, <2>3 DEF SaveNow, IsSnapshot
<1>7. ASSUME NEW content \in Content, NEW base \in 1..draft.revision,
             NEW now \in Moments, StaleRetry(content, base, now)
      PROVE  Shape'
  <2>1. commands' \in Nat BY <1>4, <1>7 DEF StaleRetry, Stale
  <2>2. draft' = draft /\ copies' = copies /\ snaps' = snaps /\ items' = items
    BY <1>7 DEF StaleRetry
  <2>3. QED BY <2>1, <2>2 DEF IsSnapshot
<1>8. ASSUME NEW content \in Content, NEW base \in 1..draft.revision,
             NEW now \in Moments, NEW class \in Class, StaleReplace(content, base, class, now)
      PROVE  Shape'
  <2>1. PICK c \in SameClass(class, base) :
          /\ copies' = (copies \ {c}) \cup {Rewritten(c, content)}
          /\ snaps' \in Resnapshots(c, content, now)
    BY <1>8 DEF StaleReplace
  <2>2. c \in Copy BY DEF SameClass
  <2>3. Rewritten(c, content) \in Copy BY <2>2, ReplacedCopy
  <2>4. copies' \subseteq Copy BY <2>1, <2>3
  <2>5. now \in Int BY MomentsAreNumbers
  <2>6. \A s \in snaps' : IsSnapshot(s)
    BY <2>1, <2>2, <2>5, ResnapshotRows
  <2>7. QED BY <1>4, <1>8, <2>4, <2>6 DEF StaleReplace, Stale, IsSnapshot
<1>9. ASSUME NEW content \in Content, NEW base \in 1..draft.revision,
             NEW now \in Moments, NEW class \in Class, StaleNew(content, base, class, now)
      PROVE  Shape'
  <2>1. now \in Int /\ base \in Nat /\ commands' \in Nat
    BY <1>4, <1>9 DEF StaleNew, Stale
  <2>2. copies' \subseteq Copy
    BY <1>9, <2>1, AttachedAreItems DEF StaleNew, Copy
  <2>3. \A s \in snaps' : IsSnapshot(s)
    BY <1>9, <2>1, InsertedRows DEF StaleNew
  <2>4. QED BY <1>9, <2>1, <2>2, <2>3 DEF StaleNew, IsSnapshot
<1>10. ASSUME NEW s \in snaps, NEW now \in Moments, Restore(s, now) PROVE Shape'
  <2>1. now \in Int /\ now - 1 \in Int /\ commands' \in Nat
    BY <1>10, MomentsAreNumbers DEF Restore, Command
  <2>2. s.content \in Content /\ draft.content \in Content /\ draft.revision \in Nat
    BY DEF IsSnapshot, Draft
  <2>3. draft' \in Draft BY <1>10, <2>2, ReplacedShape DEF Restore
  <2>4. draft'.revision \in Nat BY <2>3 DEF Draft
  <2>5. \A r \in KeptCurrent(now) : IsSnapshot(r)
    <3>1. CASE KeptCurrent(now) = snaps BY <3>1
    <3> DEFINE rows == InsertSnapshot(snaps, "saved", draft.content,
                                      draft.revision, FALSE, now - 1)
    <3>2. ASSUME NEW r \in rows PROVE IsSnapshot(r)
      <4>1. r \in snaps \/ IsSnapshot(r) BY <2>1, <2>2, InsertedRows, ZenonT(30)
      <4>2. QED BY <4>1
    <3>3. KeptCurrent(now) \in {snaps, rows} BY DEF KeptCurrent
    <3> HIDE DEF rows
    <3>4. QED BY <3>1, <3>2, <3>3
  <2>6. \A r \in snaps' : IsSnapshot(r)
    <3> DEFINE rows == InsertSnapshot(KeptCurrent(now), "restored", s.content,
                                      draft'.revision, FALSE, now)
    <3>1. \A r \in rows : IsSnapshot(r)
      BY <2>1, <2>2, <2>4, <2>5, InsertedRows
    <3>2. snaps' \in TrimHistory(rows) BY <1>10 DEF Restore
    <3> HIDE DEF rows
    <3>3. QED BY <3>1, <3>2, TrimmedRows
  <2>7. QED BY <1>10, <2>1, <2>3, <2>6 DEF Restore, IsSnapshot
<1>11. ASSUME NEW c \in copies, NEW now \in Moments, ResolveAccount(c, now) PROVE Shape'
  <2>1. now \in Int /\ commands' \in Nat
    BY <1>11, MomentsAreNumbers DEF ResolveAccount, Command
  <2>2. draft.content \in Content /\ draft.revision \in Nat BY DEF Draft
  <2>3. \A r \in snaps' : IsSnapshot(r)
    <3> DEFINE rows == InsertSnapshot(snaps, "saved", draft.content, draft.revision, FALSE, now)
    <3>1. \A r \in rows : IsSnapshot(r) BY <2>1, <2>2, InsertedRows
    <3>2. snaps' \in TrimHistory(rows) BY <1>11 DEF ResolveAccount
    <3> HIDE DEF rows
    <3>3. QED BY <3>1, <3>2, TrimmedRows
  <2>4. QED BY <1>11, <2>1, <2>3 DEF ResolveAccount, IsSnapshot
<1>12. ASSUME NEW c \in copies, NEW now \in Moments, ResolveDevice(c, now) PROVE Shape'
  <2>1. now \in Int /\ now - 1 \in Int /\ commands' \in Nat
    BY <1>12, MomentsAreNumbers DEF ResolveDevice, Command
  <2>2. c.content \in Content /\ draft.content \in Content /\ draft.revision \in Nat
    BY DEF Copy, Draft
  <2>3. draft' \in Draft BY <1>12, <2>2, ReplacedShape DEF ResolveDevice
  <2>4. draft'.revision \in Nat BY <2>3 DEF Draft
  <2>5. \A r \in UnchosenAccount(now) : IsSnapshot(r)
    BY <2>1, <2>2, InsertedRows DEF UnchosenAccount
  <2>6. PICK rows \in ChosenSnapshots(c, UnchosenAccount(now), draft'.revision, now) :
          snaps' \in TrimHistory(rows)
    BY <1>12 DEF ResolveDevice
  <2>7. \A r \in rows : IsSnapshot(r) BY <2>1, <2>4, <2>5, <2>6, ChosenRows
  <2>8. \A r \in snaps' : IsSnapshot(r) BY <2>6, <2>7, TrimmedRows
  <2>9. QED BY <1>12, <2>1, <2>3, <2>8 DEF ResolveDevice, IsSnapshot
<1>13. ASSUME NEW expected, Delete(expected) PROVE Shape'
  <2>1. draft' \in Draft BY <1>13 DEF Delete, Draft
  <2>2. items' \in [Item -> {"new", "live", "gone"}] BY <1>13 DEF Delete
  <2>3. QED BY <1>13, <2>1, <2>2 DEF Delete
<1>14. CASE UNCHANGED draftsVars BY <1>14 DEF draftsVars, IsSnapshot
<1>15. QED
  BY <1>1, <1>2, <1>3, <1>5, <1>6, <1>7, <1>8, <1>9, <1>10, <1>11, <1>12, <1>13, <1>14
     DEF DraftsNext, MediaStep, SaveStep, ChoiceStep, DeleteStep

(* The rows have their types in every state. *)
THEOREM ShapeCorrect == DraftsSpec => []Shape
<1>1. DraftsInit => Shape BY DEF DraftsInit, Shape, Draft
<1>2. QED BY <1>1, ShapeStep, PTL DEF DraftsSpec

-----------------------------------------------------------------------------
(* Copies. *)

LEMMA DistinctStep == Shape /\ CopiesAreDistinct /\ [DraftsNext]_draftsVars => CopiesAreDistinct'
<1> SUFFICES ASSUME Shape, CopiesAreDistinct, [DraftsNext]_draftsVars PROVE CopiesAreDistinct' OBVIOUS
<1>1. copies \subseteq Copy BY DEF Shape
<1>2. \A c, d \in copies : c.base = d.base /\ (c.content = d.content \/ c.class = d.class)
                             => c = d
  BY DEF CopiesAreDistinct
<1>3. CASE copies' \subseteq copies BY <1>2, <1>3 DEF CopiesAreDistinct
<1>4. ASSUME NEW i \in Item, Cancel(i) PROVE CopiesAreDistinct'
  <2> DEFINE H(r) == [r EXCEPT !.held = @ \ {i}]
  <2>1. copies' = {H(r) : r \in copies} BY <1>4 DEF Cancel
  <2>2. ASSUME NEW r \in copies
        PROVE  H(r).base = r.base /\ H(r).content = r.content /\ H(r).class = r.class
    <3>1. r \in Copy BY <1>1
    <3>2. QED BY <3>1 DEF Copy
  <2> HIDE DEF H
  <2>3. QED BY <1>2, <2>1, <2>2 DEF CopiesAreDistinct
<1>5. ASSUME NEW content, NEW base, NEW now, StaleRetry(content, base, now)
      PROVE  CopiesAreDistinct'
  BY <1>2, <1>5 DEF StaleRetry, CopiesAreDistinct
<1>6. ASSUME NEW content \in Content, NEW base, NEW now, NEW class \in Class,
             StaleReplace(content, base, class, now)
      PROVE  CopiesAreDistinct'
  <2>1. PICK c \in SameClass(class, base) :
          copies' = (copies \ {c}) \cup {Rewritten(c, content)}
    BY <1>6 DEF StaleReplace
  <2>2. c \in copies /\ c \in Copy /\ c.base = base BY <1>1 DEF SameClass
  <2>3. /\ Rewritten(c, content).base = c.base
        /\ Rewritten(c, content).content = content
        /\ Rewritten(c, content).class = c.class
    BY <2>2, ReplacedCopy
  <2>4. ASSUME NEW r \in copies \ {c}
        PROVE  ~ (r.base = c.base /\ (r.content = content \/ r.class = c.class))
    <3>1. ~ (r.base = base /\ r.content = content)
      BY <1>6 DEF StaleReplace, SameContent
    <3>2. QED BY <1>2, <2>2, <3>1
  <2>5. QED BY <1>2, <2>1, <2>3, <2>4 DEF CopiesAreDistinct
<1>7. ASSUME NEW content \in Content, NEW base, NEW now, NEW class \in Class,
             StaleNew(content, base, class, now)
      PROVE  CopiesAreDistinct'
  <2> DEFINE d == [base |-> base, content |-> content, class |-> class,
                   at |-> now, held |-> Attached(content)]
  <2>1. copies' = copies \cup {d} BY <1>7 DEF StaleNew
  <2>2. d.base = base /\ d.content = content /\ d.class = class OBVIOUS
  <2> HIDE DEF d
  <2>3. \A c \in copies : ~ (c.base = base /\ (c.content = content \/ c.class = class))
    BY <1>7 DEF StaleNew, SameContent, SameClass
  <2>4. QED BY <1>2, <2>1, <2>2, <2>3 DEF CopiesAreDistinct
<1>8. QED
  BY <1>3, <1>4, <1>5, <1>6, <1>7
     DEF DraftsNext, MediaStep, SaveStep, ChoiceStep, DeleteStep, draftsVars, Register, Purge, Save,
         SaveNow, Restore, ResolveAccount, ResolveDevice, Delete

(* However saves of any classes repeat, agree and interleave with choices,  *)
(* a base has at most one copy per content and per class.                   *)
THEOREM DistinctCopies == DraftsSpec => []CopiesAreDistinct
<1>1. DraftsInit => Shape /\ CopiesAreDistinct BY DEF DraftsInit, Shape, Draft, CopiesAreDistinct
<1>2. Shape /\ CopiesAreDistinct /\ [DraftsNext]_draftsVars => (Shape /\ CopiesAreDistinct)'
  BY ShapeStep, DistinctStep
<1>3. QED BY <1>1, <1>2, PTL DEF DraftsSpec

-----------------------------------------------------------------------------
(* The history. *)

(* Pinned rows come and change without touching the history. *)
LEMMA PinnedRowsApart ==
    ASSUME \A s \in snaps : IsSnapshot(s), NEW c, NEW content, NEW now,
           NEW result \in Resnapshots(c, content, now)
    PROVE  Unpinned(result) = Unpinned(snaps)
<1>1. CASE result = InsertSnapshot(snaps, "conflict", content, c.base, TRUE, now)
  BY <1>1 DEF Unpinned, InsertSnapshot
<1>2. ASSUME NEW r \in SnapshotsOf(c), result = (snaps \ {r}) \cup {Rewritten(r, content)}
      PROVE  Unpinned(result) = Unpinned(snaps)
  <2>1. r.pinned /\ IsSnapshot(r) BY DEF SnapshotsOf, PinnedAt
  <2>2. Rewritten(r, content).pinned BY <2>1 DEF Rewritten, IsSnapshot
  <2>3. QED BY <1>2, <2>1, <2>2 DEF Unpinned
<1>3. QED BY <1>1, <1>2 DEF Resnapshots

LEMMA HistoryStep == Shape /\ HistoryBounded /\ [DraftsNext]_draftsVars => HistoryBounded'
<1> SUFFICES ASSUME Shape, HistoryBounded, [DraftsNext]_draftsVars PROVE HistoryBounded' OBVIOUS
<1>1. \A s \in snaps : IsSnapshot(s) BY DEF Shape
<1>2. CASE Unpinned(snaps') = Unpinned(snaps)
  BY <1>2 DEF HistoryBounded, Unpinned
<1>3. CASE \E rows : snaps' \in TrimHistory(rows)
  BY <1>3, TrimmedRows DEF HistoryBounded, Unpinned
<1>4. CASE snaps' = {}
  <2>1. Unpinned(snaps') = {} BY <1>4 DEF Unpinned
  <2>2. QED BY <2>1, FS_EmptySet, LimitAssumption DEF HistoryBounded, Unpinned
<1>5. ASSUME NEW content, NEW base, NEW now, SaveNow(content, base, now) PROVE HistoryBounded'
  <2>1. snaps' = snaps \/ \E rows : snaps' \in TrimHistory(rows)
    BY <1>5 DEF SaveNow, Recorded
  <2>2. QED BY <1>2, <1>3, <2>1
<1>6. ASSUME NEW content, NEW base, NEW now, NEW class, StaleReplace(content, base, class, now)
      PROVE  HistoryBounded'
  <2>1. PICK c : snaps' \in Resnapshots(c, content, now) BY <1>6 DEF StaleReplace
  <2>2. QED BY <1>1, <1>2, <2>1, PinnedRowsApart
<1>7. ASSUME NEW content, NEW base, NEW now, NEW class, StaleNew(content, base, class, now)
      PROVE  HistoryBounded'
  <2>1. Unpinned(snaps') = Unpinned(snaps)
    BY <1>7 DEF StaleNew, InsertSnapshot, Unpinned
  <2>2. QED BY <1>2, <2>1
<1>8. ASSUME NEW s, NEW now, Restore(s, now) PROVE HistoryBounded'
  BY <1>3, <1>8 DEF Restore
<1>9. ASSUME NEW c, NEW now, ResolveAccount(c, now) PROVE HistoryBounded'
  BY <1>3, <1>9 DEF ResolveAccount
<1>10. ASSUME NEW c, NEW now, ResolveDevice(c, now) PROVE HistoryBounded'
  BY <1>3, <1>10 DEF ResolveDevice
<1>11. CASE snaps' = snaps BY <1>2, <1>11
<1>12. QED
  BY <1>4, <1>5, <1>6, <1>7, <1>8, <1>9, <1>10, <1>11
     DEF DraftsNext, MediaStep, SaveStep, ChoiceStep, DeleteStep, draftsVars, Register, Cancel, Purge,
         Save, StaleRetry, Delete

(* The unpinned history never exceeds its limit, whatever commands ran at   *)
(* whatever times.                                                          *)
THEOREM HistoryKeepsLimit == DraftsSpec => []HistoryBounded
<1>1. DraftsInit => Shape /\ HistoryBounded
  <2>1. DraftsInit => Unpinned(snaps) = {} BY DEF DraftsInit, Unpinned
  <2>2. DraftsInit => HistoryBounded BY <2>1, FS_EmptySet, LimitAssumption DEF HistoryBounded
  <2>3. DraftsInit => Shape BY DEF DraftsInit, Shape, Draft
  <2>4. QED BY <2>2, <2>3
<1>2. Shape /\ HistoryBounded /\ [DraftsNext]_draftsVars => (Shape /\ HistoryBounded)'
  BY ShapeStep, HistoryStep
<1>3. QED BY <1>1, <1>2, PTL DEF DraftsSpec

-----------------------------------------------------------------------------
(* References. *)

Kept(r) == Owned(r.content) /\ Covers(r)

RefsInv ==
    draft.state = "active" =>
        /\ Kept(draft)
        /\ \A c \in copies : Kept(c)
        /\ \A s \in snaps : Kept(s)

(* A step that only removes items. *)
NoneAppears ==
    \A j \in Item : /\ items'[j] = "live" => items[j] = "live"
                    /\ items[j] # "new" => items'[j] # "new"

(* A kept row, item by item. *)
LEMMA KeptItems ==
    ASSUME NEW r, Kept(r), NEW j \in ItemsOf[r.content]
    PROVE  items[j] # "new" /\ (items[j] = "live" => j \in r.held)
<1>1. items[j] # "new" BY DEF Kept, Owned
<1>2. Attached(r.content) \subseteq r.held BY DEF Kept, Covers
<1>3. items[j] = "live" => j \in Attached(r.content) BY DEF Attached
<1>4. QED BY <1>1, <1>2, <1>3

(* A row with the content's live items at least is kept. *)
LEMMA KeptRow ==
    ASSUME NEW r, NEW content, Owned(content), r.content = content,
           Attached(content) \subseteq r.held
    PROVE  Kept(r)
BY DEF Kept, Covers

(* Nothing else of a row matters. *)
LEMMA KeptLike ==
    ASSUME NEW r, NEW r0, Kept(r0), r.content = r0.content, r.held = r0.held
    PROVE  Kept(r)
BY DEF Kept, Covers

LEMMA RefsStep == Shape /\ RefsInv /\ [DraftsNext]_draftsVars => RefsInv'
<1> SUFFICES ASSUME Shape, RefsInv, [DraftsNext]_draftsVars, draft'.state = "active" PROVE RefsInv'
  BY DEF RefsInv
<1> USE DEF NoneAppears
<1>1. /\ draft \in Draft /\ draft.content \in Content /\ draft.held \in SUBSET Item
      /\ copies \subseteq Copy
      /\ \A s \in snaps : IsSnapshot(s)
      /\ items \in [Item -> {"new", "live", "gone"}]
  BY DEF Shape, Draft
<1>2. ASSUME NEW i \in Item, Register(i) PROVE RefsInv'
  <2>1. /\ items[i] = "new" /\ items' = [items EXCEPT ![i] = "live"]
        /\ copies' = copies /\ snaps' = snaps
        /\ draft' = [draft EXCEPT !.held = @ \cup {i}] /\ draft.state = "active"
    BY <1>2 DEF Register
  <2>2. ASSUME NEW r, r.content \in Content, Kept(r) PROVE Kept(r)'
    <3>1. i \notin ItemsOf[r.content] BY <2>1, <2>2 DEF Kept, Owned
    <3>2. ItemsOf[r.content] \subseteq Item BY <2>2, ItemsAssumption
    <3>3. \A j \in ItemsOf[r.content] : items'[j] = items[j] BY <1>1, <2>1, <3>1, <3>2
    <3>4. QED BY <2>2, <3>3 DEF Kept, Owned, Covers, Attached
  <2>3. Kept(draft) /\ (\A c \in copies : Kept(c)) /\ (\A s \in snaps : Kept(s))
    BY <2>1 DEF RefsInv
  <2>4. \A c \in copies' : Kept(c)' BY <1>1, <2>1, <2>2, <2>3 DEF Copy
  <2>5. \A s \in snaps' : Kept(s)' BY <1>1, <2>1, <2>2, <2>3 DEF IsSnapshot
  <2>6. Kept(draft)'
    <3>1. draft'.content = draft.content /\ draft.held \subseteq draft'.held
      BY <1>1, <2>1 DEF Draft
    <3>2. i \notin ItemsOf[draft.content] BY <2>1, <2>3 DEF Kept, Owned
    <3>3. ItemsOf[draft.content] \subseteq Item BY <1>1, ItemsAssumption
    <3>4. \A j \in ItemsOf[draft.content] : items'[j] = items[j] BY <1>1, <2>1, <3>2, <3>3
    <3>5. QED BY <2>3, <3>1, <3>4 DEF Kept, Owned, Covers, Attached
  <2>7. QED BY <2>4, <2>5, <2>6 DEF RefsInv
<1>3. ASSUME NoneAppears,
             NEW r, r.content \in Content, Kept(r)
      PROVE  Kept(r)'
  <2>1. ItemsOf[r.content] \subseteq Item BY <1>3, ItemsAssumption
  <2>2. \A j \in ItemsOf[r.content] : items'[j] # "new" BY <1>3, <2>1 DEF Kept, Owned
  <2>3. \A j \in ItemsOf[r.content] : items'[j] = "live" => j \in r.held
    BY <1>3, <2>1, KeptItems
  <2>4. Owned(r.content)' BY <2>2 DEF Owned
  <2>5. Covers(r)' BY <2>3 DEF Covers, Attached
  <2>6. QED BY <2>4, <2>5 DEF Kept
<1>4. ASSUME NEW i \in Item, Purge(i) PROVE RefsInv'
  <2>1. NoneAppears BY <1>1, <1>4 DEF Purge
  <2>2. draft' = draft /\ copies' = copies /\ snaps' = snaps BY <1>4 DEF Purge
  <2>3. Kept(draft) /\ (\A c \in copies : Kept(c)) /\ (\A s \in snaps : Kept(s))
    BY <2>2 DEF RefsInv
  <2>4. \A c \in copies : Kept(c)' BY <1>1, <1>3, <2>1, <2>3 DEF Copy
  <2>5. \A s \in snaps : Kept(s)' BY <1>1, <1>3, <2>1, <2>3 DEF IsSnapshot
  <2>6. Kept(draft)'
    <3>1. ItemsOf[draft.content] \subseteq Item BY <1>1, ItemsAssumption
    <3>2. \A j \in ItemsOf[draft.content] : items'[j] # "new"
      BY <2>1, <2>3, <3>1 DEF Kept, Owned
    <3>3. \A j \in ItemsOf[draft.content] : items'[j] = "live" => j \in draft.held
      BY <2>1, <2>3, <3>1, KeptItems
    <3>4. QED BY <2>2, <3>2, <3>3 DEF Kept, Owned, Covers, Attached
  <2>7. QED BY <2>2, <2>4, <2>5, <2>6 DEF RefsInv
<1>5. ASSUME NEW i \in Item, Cancel(i) PROVE RefsInv'
  <2>1. /\ items' = [items EXCEPT ![i] = "gone"] /\ snaps' = snaps
        /\ draft' = [draft EXCEPT !.held = @ \ {i}] /\ draft.state = "active"
        /\ copies' = {[c EXCEPT !.held = @ \ {i}] : c \in copies}
    BY <1>5 DEF Cancel
  <2>2. NoneAppears /\ items'[i] # "live" BY <1>1, <2>1
  <2>3. Kept(draft) /\ (\A c \in copies : Kept(c)) /\ (\A s \in snaps : Kept(s))
    BY <2>1 DEF RefsInv
  <2>4. \A s \in snaps' : Kept(s)' BY <1>1, <1>3, <2>1, <2>2, <2>3 DEF IsSnapshot
  <2>5. ASSUME NEW c \in copies' PROVE Kept(c)'
    <3>1. PICK c0 \in copies : c = [c0 EXCEPT !.held = @ \ {i}] BY <2>1
    <3>2. c0 \in Copy BY <1>1
    <3>3. c.content = c0.content /\ c.held = c0.held \ {i} BY <3>1, <3>2 DEF Copy
    <3>4. ItemsOf[c0.content] \subseteq Item BY <3>2, ItemsAssumption DEF Copy
    <3>5. Kept(c0) BY <2>3
    <3>6. \A j \in ItemsOf[c.content] : items'[j] # "new"
      BY <2>2, <3>3, <3>4, <3>5 DEF Kept, Owned
    <3>7. \A j \in ItemsOf[c.content] : items'[j] = "live" => j \in c.held
      BY <2>2, <3>3, <3>4, <3>5, KeptItems
    <3>8. QED BY <3>6, <3>7 DEF Kept, Owned, Covers, Attached
  <2>6. Kept(draft)'
    <3>1. draft'.content = draft.content /\ draft'.held = draft.held \ {i}
      BY <1>1, <2>1 DEF Draft
    <3>2. ItemsOf[draft.content] \subseteq Item BY <1>1, ItemsAssumption
    <3>3. \A j \in ItemsOf[draft.content] : items'[j] # "new"
      BY <2>2, <2>3, <3>2 DEF Kept, Owned
    <3>4. \A j \in ItemsOf[draft.content] : items'[j] = "live" => j \in draft.held \ {i}
      BY <2>2, <2>3, <3>2, KeptItems
    <3>5. QED BY <3>1, <3>3, <3>4 DEF Kept, Owned, Covers, Attached
  <2>7. QED BY <2>4, <2>5, <2>6 DEF RefsInv
<1>6. ASSUME items' = items, NEW d, draft' = d, Kept(d),
             \A c \in copies' : Kept(c), \A s \in snaps' : Kept(s)
      PROVE  RefsInv'
  BY <1>6 DEF RefsInv, Kept, Owned, Covers, Attached
<1>7. ASSUME draft.state = "active"
      PROVE  /\ Kept(draft) /\ (\A c \in copies : Kept(c)) /\ (\A s \in snaps : Kept(s))
             /\ Owned(draft.content) /\ (\A c \in copies : Owned(c.content))
             /\ (\A s \in snaps : Owned(s.content))
  BY <1>7 DEF RefsInv, Kept
<1>8. ASSUME NEW content \in Content, Owned(content) PROVE Kept(Replaced(draft, content))
  BY <1>1, <1>8, ReplacedShape, SyncedCovers, KeptRow
<1>9. ASSUME NEW content \in Content, Owned(content), draft.state = "active"
      PROVE  Kept(AfterSave(content)) /\ AfterSave(content).content = content
  BY <1>7, <1>8, <1>9, ReplacedShape DEF AfterSave
<1>10. ASSUME NEW content \in Content, NEW base, NEW now, Save(content, base, now)
       PROVE  RefsInv'
  <2>1. Owned(content) /\ draft.state = "active" BY <1>10 DEF Save, Command
  <2>2. Kept(AfterSave(content)) BY <1>9, <2>1
  <2>3. QED BY <1>6, <1>7, <1>10, <2>1, <2>2 DEF Save
<1>11. ASSUME NEW content \in Content, NEW base \in 1..draft.revision, NEW now \in Moments,
              SaveNow(content, base, now)
       PROVE  RefsInv'
  <2>1. Owned(content) /\ draft.state = "active" /\ draft' = AfterSave(content)
    BY <1>11 DEF SaveNow, Command
  <2>2. Kept(AfterSave(content)) /\ draft'.content = content BY <1>9, <2>1
  <2>3. ASSUME NEW s \in snaps' PROVE Kept(s)
    <3>1. CASE s \in snaps BY <1>7, <2>1, <3>1
    <3>2. CASE s \notin snaps
      <4>1. snaps' \in TrimHistory(InsertSnapshot(snaps, "saved", draft'.content,
                                                 draft'.revision, FALSE, now))
        BY <1>11, <3>2 DEF SaveNow, Recorded
      <4>2. s \in InsertSnapshot(snaps, "saved", draft'.content, draft'.revision, FALSE, now)
        BY <4>1, TrimmedRows
      <4>3. s.content = content /\ s.held = Attached(content)
        BY <2>2, <3>2, <4>2 DEF InsertSnapshot
      <4>4. QED BY <2>1, <4>3, KeptRow
    <3>3. QED BY <3>1, <3>2
  <2>4. QED BY <1>6, <1>7, <1>11, <2>1, <2>2, <2>3 DEF SaveNow
<1>12. ASSUME NEW content \in Content, NEW base, NEW now, StaleRetry(content, base, now)
       PROVE  RefsInv'
  <2>1. draft.state = "active" BY <1>12 DEF StaleRetry, Stale, Command
  <2>2. QED BY <1>6, <1>7, <1>12, <2>1 DEF StaleRetry
<1>13. ASSUME NEW content \in Content, NEW base, NEW now \in Moments, NEW class \in Class,
              StaleReplace(content, base, class, now)
       PROVE  RefsInv'
  <2>1. PICK c \in SameClass(class, base) :
          /\ copies' = (copies \ {c}) \cup {Rewritten(c, content)}
          /\ snaps' \in Resnapshots(c, content, now)
    BY <1>13 DEF StaleReplace
  <2>2. c \in copies /\ c \in Copy BY <1>1 DEF SameClass
  <2>3. /\ Rewritten(c, content).content = content
        /\ Rewritten(c, content).held = Synced(c.held, c.content, content)
    BY <2>2, ReplacedCopy
  <2>5. draft.state = "active" /\ Owned(content)
    BY <1>13 DEF StaleReplace, Stale, Command
  <2>6. \A r \in copies : Kept(r) BY <1>7, <2>5
  <2>7. Kept(Rewritten(c, content))
    <3>1. c.held \in SUBSET Item /\ c.content \in Content BY <2>2 DEF Copy
    <3>2. QED BY <2>3, <2>5, <3>1, SyncedCovers, KeptRow
  <2>8. now \in Int BY MomentsAreNumbers DEF Shape
  <2>9. \A s \in snaps' : Kept(s)
    <3>1. \A s \in snaps' : s \in snaps \/ (s.content = content /\ Attached(content) \subseteq s.held)
      BY <1>1, <2>1, <2>2, <2>8, ResnapshotRows
    <3>2. QED BY <1>7, <2>5, <3>1, KeptRow
  <2>10. QED BY <1>6, <1>7, <1>13, <2>1, <2>5, <2>6, <2>7, <2>9 DEF StaleReplace
<1>14. ASSUME NEW content \in Content, NEW base, NEW now, NEW class,
              StaleNew(content, base, class, now)
       PROVE  RefsInv'
  <2>1. draft.state = "active" /\ Owned(content) BY <1>14 DEF StaleNew, Stale, Command
  <2>2. \A c \in copies' : c \in copies \/ (c.content = content /\ c.held = Attached(content))
    BY <1>14 DEF StaleNew
  <2>3. \A s \in snaps' : s \in snaps \/ (s.content = content /\ s.held = Attached(content))
    BY <1>14 DEF StaleNew, InsertSnapshot
  <2>4. (\A c \in copies' : Kept(c)) /\ (\A s \in snaps' : Kept(s))
    BY <1>7, <2>1, <2>2, <2>3, KeptRow
  <2>5. QED BY <1>6, <1>7, <1>14, <2>1, <2>4 DEF StaleNew
<1>15. ASSUME NEW s \in snaps, NEW now, Restore(s, now) PROVE RefsInv'
  <2>1. draft.state = "active" /\ Owned(s.content) /\ s.content \in Content
    BY <1>1, <1>7, <1>15 DEF Restore, Command, IsSnapshot
  <2>2. Kept(Replaced(draft, s.content)) BY <1>8, <2>1
  <2>3. \A r \in KeptCurrent(now) :
          r \in snaps \/ (r.content = draft.content /\ r.held = Attached(draft.content))
    BY DEF KeptCurrent, InsertSnapshot
  <2>4. \A r \in snaps' : r \in KeptCurrent(now) \/ (r.content = s.content /\ r.held = Attached(s.content))
    <3> DEFINE rows == InsertSnapshot(KeptCurrent(now), "restored", s.content,
                                      draft'.revision, FALSE, now)
    <3>1. \A r \in rows : r \in KeptCurrent(now) \/ (r.content = s.content /\ r.held = Attached(s.content))
      BY DEF InsertSnapshot
    <3>2. snaps' \in TrimHistory(rows) BY <1>15 DEF Restore
    <3> HIDE DEF rows
    <3>3. QED BY <3>1, <3>2, TrimmedRows
  <2>5. \A r \in snaps' : Kept(r) BY <1>7, <2>1, <2>3, <2>4, KeptRow
  <2>6. QED BY <1>6, <1>7, <1>15, <2>1, <2>2, <2>5 DEF Restore
<1>16. ASSUME NEW c \in copies, NEW now, ResolveAccount(c, now) PROVE RefsInv'
  <2>1. draft.state = "active" BY <1>16 DEF ResolveAccount, Command
  <2>2. \A r \in snaps' : r \in snaps \/ (r.content = draft.content /\ r.held = Attached(draft.content))
    <3> DEFINE rows == InsertSnapshot(snaps, "saved", draft.content, draft.revision, FALSE, now)
    <3>1. \A r \in rows : r \in snaps \/ (r.content = draft.content /\ r.held = Attached(draft.content))
      BY DEF InsertSnapshot
    <3>2. snaps' \in TrimHistory(rows) BY <1>16 DEF ResolveAccount
    <3> HIDE DEF rows
    <3>3. QED BY <3>1, <3>2, TrimmedRows
  <2>3. \A r \in snaps' : Kept(r) BY <1>7, <2>1, <2>2, KeptRow
  <2>4. QED BY <1>6, <1>7, <1>16, <2>1, <2>3 DEF ResolveAccount
<1>17. ASSUME NEW c \in copies, NEW now \in Moments, ResolveDevice(c, now) PROVE RefsInv'
  <2>1. draft.state = "active" /\ Owned(c.content) /\ c.content \in Content
    BY <1>1, <1>7, <1>17 DEF ResolveDevice, Command, Copy
  <2>2. Kept(Replaced(draft, c.content)) BY <1>8, <2>1
  <2>3. \A r \in UnchosenAccount(now) :
          r \in snaps \/ (r.content = draft.content /\ r.held = Attached(draft.content))
    BY DEF UnchosenAccount, InsertSnapshot
  <2>4. \A r \in UnchosenAccount(now) : Kept(r) BY <1>7, <2>1, <2>3, KeptRow
  <2>5. PICK rows \in ChosenSnapshots(c, UnchosenAccount(now), draft'.revision, now) :
          snaps' \in TrimHistory(rows)
    BY <1>17 DEF ResolveDevice
  <2>6. now \in Int BY MomentsAreNumbers DEF Shape
  <2>7. draft'.revision \in Nat BY <1>17, <2>1, ReplacedShape DEF ResolveDevice, Draft
  <2>8. \A r \in rows : Kept(r)
    BY <1>1, <1>7, <2>1, <2>4, <2>5, <2>6, <2>7, KeptLike, ChosenRows
  <2>9. \A r \in snaps' : Kept(r) BY <2>5, <2>8, TrimmedRows
  <2>10. QED BY <1>6, <1>7, <1>17, <2>1, <2>2, <2>9 DEF ResolveDevice
<1>18. ASSUME NEW expected, Delete(expected) PROVE FALSE
  <2>1. draft'.state = "deleted" BY <1>1, <1>18 DEF Delete, Draft
  <2>2. QED BY <2>1
<1>19. CASE UNCHANGED draftsVars
  BY <1>19 DEF draftsVars, RefsInv, Kept, Owned, Covers, Attached
<1>20. CASE MediaStep BY <1>2, <1>4, <1>5, <1>20 DEF MediaStep
<1>21. CASE SaveStep BY <1>10, <1>11, <1>12, <1>13, <1>14, <1>21 DEF SaveStep
<1>22. CASE ChoiceStep BY <1>15, <1>16, <1>17, <1>22 DEF ChoiceStep
<1>23. CASE DeleteStep BY <1>18, <1>23 DEF DeleteStep
<1>24. QED BY <1>19, <1>20, <1>21, <1>22, <1>23 DEF DraftsNext

(* Whatever is registered, cancelled, purged, saved, restored and resolved, *)
(* the holder of a content refers to every live item the content names.     *)
THEOREM RefsFollowContents == DraftsSpec => []RefsCoverContents
<1>1. DraftsInit => Shape /\ RefsInv
  BY DEF DraftsInit, Shape, Draft, RefsInv, Kept, Owned, Covers, Attached
<1>2. Shape /\ RefsInv /\ [DraftsNext]_draftsVars => (Shape /\ RefsInv)'
  BY ShapeStep, RefsStep
<1>3. RefsInv => RefsCoverContents BY DEF RefsInv, Kept, RefsCoverContents
<1>4. QED BY <1>1, <1>2, <1>3, PTL DEF DraftsSpec

-----------------------------------------------------------------------------
(* Conflicts. *)

(* What a copy, or a pinned snapshot, has for itself. *)
Sole(c) == <<c.base, c.at>> \notin shared
SoleCopies == \A c, d \in copies : c.base = d.base /\ c.at = d.at /\ Sole(c) => c = d
SoleUnchosen == {s \in Unchosen : <<s.source, s.at>> \notin shared'}

ConflictInv == Shape /\ SoleCopiesAreSnapshotted /\ SoleCopies

LEMMA SoleCopyHas ==
    ASSUME ConflictInv, NEW c \in copies, Sole(c)
    PROVE  \E s \in SnapshotsOf(c) : s.content = c.content
BY DEF ConflictInv, SoleCopiesAreSnapshotted, HasSnapshot, Sole

LEMMA PinnedStay ==
    ASSUME NEW rows, NEW result \in TrimHistory(rows), NEW s \in rows, s.pinned
    PROVE  s \in result
BY DEF TrimHistory, Unpinned

(* A snapshot belongs to whatever looks like its copy. *)
LEMMA SnapshotStays ==
    ASSUME NEW c, NEW d, d.base = c.base, d.at = c.at, NEW s
    PROVE  /\ s \in SnapshotsOf(c) /\ s \in snaps' => s \in SnapshotsOf(d)'
           /\ s \in SnapshotsOf(d)' /\ s \in snaps => s \in SnapshotsOf(c)
BY DEF SnapshotsOf, PinnedAt

(* What is shared stays so. *)
LEMMA SharedStays ==
    ASSUME shared \subseteq shared', NEW c, NEW d, d.base = c.base, d.at = c.at, Sole(d)'
    PROVE  Sole(c)
BY DEF Sole

(* Where a pinned snapshot is inserted, the place of another is shared. *)
LEMMA JoinedIs ==
    ASSUME NEW base, NEW at, shared' = Joined(base, at)
    PROVE  /\ shared \subseteq shared'
           /\ PinnedAt(base, at) # {} => <<base, at>> \in shared'
BY DEF Joined

(* A step that leaves all pinned rows where they are, but for some that     *)
(* belong to copies which are gone.                                         *)
LEMMA PinnedStep ==
    ASSUME ConflictInv, Shape', copies' \subseteq copies, shared \subseteq shared',
           NEW gone, \A s \in snaps \ gone : s.pinned => s \in snaps',
           \A d \in copies' : Sole(d) => SnapshotsOf(d) \cap gone = {},
           Unchosen \cap gone = {}
    PROVE  ConflictInv' /\ SoleUnchosen \subseteq Unchosen'
<1>1. ASSUME NEW d \in copies', Sole(d)' PROVE HasSnapshot(d)'
  <2>1. Sole(d) BY <1>1, SharedStays
  <2>2. PICK s \in SnapshotsOf(d) : s.content = d.content BY <2>1, SoleCopyHas
  <2>3. s \in snaps /\ s.pinned /\ s \notin gone BY <2>1 DEF SnapshotsOf, PinnedAt
  <2>4. QED BY <2>2, <2>3, SnapshotStays DEF HasSnapshot
<1>2. SoleCopiesAreSnapshotted' BY <1>1 DEF SoleCopiesAreSnapshotted, Sole
<1>3. SoleCopies' BY DEF ConflictInv, SoleCopies, Sole
<1>4. ASSUME NEW s \in Unchosen PROVE s \in Unchosen'
  <2>1. s \in snaps /\ s.pinned /\ s \notin gone /\ \A c \in copies : s \notin SnapshotsOf(c)
    BY DEF Unchosen
  <2>2. s \in snaps' BY <2>1
  <2>3. \A d \in copies' : s \notin SnapshotsOf(d)' BY <2>1, SnapshotStays
  <2>4. QED BY <2>1, <2>2, <2>3 DEF Unchosen
<1>5. QED BY <1>2, <1>3, <1>4 DEF ConflictInv, SoleUnchosen

(* What the author did not choose after a step, and what a resolved copy    *)
(* leaves.                                                                  *)
ConflictsKept ==
    /\ ConflictInv'
    /\ draft'.state = "active" => SoleUnchosen \subseteq Unchosen'
    /\ draft'.state = "active" => \A c \in Resolved :
         /\ draft.content \in Recoverable'
         /\ Sole(c) => c.content \in Recoverable'

LEMMA QuietConflicts ==
    ASSUME ConflictInv, Shape', copies' = copies, snaps' = snaps, shared' = shared
    PROVE  ConflictsKept
<1>1. ConflictInv' /\ SoleUnchosen \subseteq Unchosen' BY PinnedStep
<1>2. Resolved = {} BY DEF Resolved
<1>3. QED BY <1>1, <1>2 DEF ConflictsKept

(* A cancelled item leaves the copies as they are but for their references. *)
LEMMA CancelConflicts ==
    ASSUME ConflictInv, Shape', NEW i \in Item, Cancel(i)
    PROVE  ConflictsKept
<1> DEFINE H(r) == [r EXCEPT !.held = @ \ {i}]
<1>1. copies' = {H(r) : r \in copies} /\ snaps' = snaps /\ shared' = shared
  BY DEF Cancel
<1>2. ASSUME NEW r \in copies
      PROVE  H(r).base = r.base /\ H(r).content = r.content /\ H(r).class = r.class
             /\ H(r).at = r.at
  <2>1. r \in Copy BY DEF ConflictInv, Shape
  <2>2. QED BY <2>1 DEF Copy
<1> HIDE DEF H
<1>3. ASSUME NEW d \in copies', Sole(d)' PROVE HasSnapshot(d)'
  <2>1. PICK c \in copies : d = H(c) BY <1>1
  <2>2. d.base = c.base /\ d.at = c.at /\ d.content = c.content BY <1>2, <2>1
  <2>3. Sole(c) BY <1>1, <1>3, <2>2, SharedStays
  <2>4. PICK s \in SnapshotsOf(c) : s.content = c.content BY <2>3, SoleCopyHas
  <2>5. s \in snaps' BY <1>1 DEF SnapshotsOf, PinnedAt
  <2>6. QED BY <2>2, <2>4, <2>5, SnapshotStays DEF HasSnapshot
<1>4. SoleCopiesAreSnapshotted' BY <1>3 DEF SoleCopiesAreSnapshotted, Sole
<1>5. SoleCopies'
  <2> SUFFICES ASSUME NEW c \in copies', NEW d \in copies', c.base = d.base, c.at = d.at, Sole(c)'
               PROVE  c = d
    BY DEF SoleCopies
  <2>1. PICK q \in copies, r \in copies : c = H(q) /\ d = H(r) BY <1>1
  <2>2. q.base = r.base /\ q.at = r.at BY <1>2, <2>1
  <2>3. Sole(q) BY <1>1, <1>2, <2>1, SharedStays
  <2>4. QED BY <2>1, <2>2, <2>3 DEF ConflictInv, SoleCopies
<1>6. ConflictInv' BY <1>4, <1>5 DEF ConflictInv
<1>7. ASSUME NEW s \in Unchosen PROVE s \in Unchosen'
  <2>1. s \in snaps /\ s \in snaps' /\ s.pinned /\ \A c \in copies : s \notin SnapshotsOf(c)
    BY <1>1 DEF Unchosen
  <2>2. ASSUME NEW d \in copies' PROVE s \notin SnapshotsOf(d)'
    <3>1. PICK c \in copies : d = H(c) BY <1>1
    <3>2. d.base = c.base /\ d.at = c.at BY <1>2, <3>1
    <3>3. QED BY <2>1, <3>2, SnapshotStays
  <2>3. QED BY <2>1, <2>2 DEF Unchosen
<1>8. Resolved = {} BY <1>1, <1>2 DEF Resolved
<1>9. QED BY <1>6, <1>7, <1>8 DEF ConflictsKept, SoleUnchosen

LEMMA SaveNowConflicts ==
    ASSUME ConflictInv, Shape', NEW content, NEW base, NEW now \in Moments,
           SaveNow(content, base, now)
    PROVE  ConflictsKept
<1> DEFINE rows == InsertSnapshot(snaps, "saved", draft'.content, draft'.revision, FALSE, now)
<1>1. copies' = copies /\ shared' = shared
  BY DEF SaveNow
<1>2. CASE snaps' = snaps BY <1>1, <1>2, QuietConflicts
<1>3. CASE snaps' \in TrimHistory(rows)
  <2>1. snaps \subseteq rows BY DEF InsertSnapshot
  <2> HIDE DEF rows
  <2>2. \A s \in snaps : s.pinned => s \in snaps' BY <1>3, <2>1, PinnedStay
  <2>3. ConflictInv' /\ SoleUnchosen \subseteq Unchosen' BY <1>1, <2>2, PinnedStep
  <2>4. Resolved = {} BY <1>1 DEF Resolved
  <2>5. QED BY <2>3, <2>4 DEF ConflictsKept
<1>4. QED BY <1>2, <1>3 DEF SaveNow, Recorded

LEMMA RestoreConflicts ==
    ASSUME ConflictInv, Shape', NEW s \in snaps, NEW now \in Moments, Restore(s, now)
    PROVE  ConflictsKept
<1> DEFINE rows == InsertSnapshot(KeptCurrent(now), "restored", s.content,
                                  draft'.revision, FALSE, now)
<1>1. copies' = copies /\ shared' = shared /\ snaps' \in TrimHistory(rows)
  BY DEF Restore
<1>2. snaps \subseteq KeptCurrent(now) /\ KeptCurrent(now) \subseteq rows
  BY DEF InsertSnapshot, KeptCurrent
<1> HIDE DEF rows
<1>3. \A r \in snaps : r.pinned => r \in snaps' BY <1>1, <1>2, PinnedStay
<1>4. ConflictInv' /\ SoleUnchosen \subseteq Unchosen' BY <1>1, <1>3, PinnedStep
<1>5. Resolved = {} BY <1>1 DEF Resolved
<1>6. QED BY <1>4, <1>5 DEF ConflictsKept

(* The copy of a choice is gone, and nobody else had its snapshots. *)
LEMMA OthersSnapshots ==
    ASSUME ConflictInv, NEW c \in copies
    PROVE  /\ \A d \in copies \ {c} : Sole(d) => SnapshotsOf(d) \cap SnapshotsOf(c) = {}
           /\ Unchosen \cap SnapshotsOf(c) = {}
BY DEF ConflictInv, SoleCopies, SnapshotsOf, PinnedAt, Unchosen

LEMMA ResolvedIs ==
    ASSUME NEW c, copies' = copies \ {c}, NEW d \in Resolved
    PROVE  d = c
BY DEF Resolved

LEMMA AccountConflicts ==
    ASSUME ConflictInv, Shape', NEW c \in copies, NEW now \in Moments, ResolveAccount(c, now)
    PROVE  ConflictsKept
<1> DEFINE rows == InsertSnapshot(snaps, "saved", draft.content, draft.revision, FALSE, now)
<1>1. /\ copies' = copies \ {c} /\ snaps' \in TrimHistory(rows)
      /\ draft' = draft /\ shared' = shared
  BY DEF ResolveAccount
<1>2. snaps \subseteq rows BY DEF InsertSnapshot
<1> HIDE DEF rows
<1>3. \A r \in snaps : r.pinned => r \in snaps' BY <1>1, <1>2, PinnedStay
<1>4. ConflictInv' /\ SoleUnchosen \subseteq Unchosen'
  <2> DEFINE gone == {}
  <2>1. copies' \subseteq copies /\ shared \subseteq shared' BY <1>1
  <2>2. /\ \A r \in snaps \ gone : r.pinned => r \in snaps'
        /\ \A d \in copies' : SnapshotsOf(d) \cap gone = {}
        /\ Unchosen \cap gone = {}
    BY <1>3
  <2> HIDE DEF gone
  <2>3. QED BY <2>1, <2>2, PinnedStep
<1>5. draft.content \in Recoverable' BY <1>1 DEF Recoverable
<1>6. ASSUME Sole(c) PROVE c.content \in Recoverable'
  <2>1. PICK s \in SnapshotsOf(c) : s.content = c.content BY <1>6, SoleCopyHas
  <2>2. s \in snaps' BY <1>3 DEF SnapshotsOf, PinnedAt
  <2>3. QED BY <2>1, <2>2 DEF Recoverable
<1>7. QED BY <1>1, <1>4, <1>5, <1>6, ResolvedIs DEF ConflictsKept

LEMMA DeviceConflicts ==
    ASSUME ConflictInv, Shape', NEW c \in copies, NEW now \in Moments, ResolveDevice(c, now)
    PROVE  ConflictsKept
<1> DEFINE both == UnchosenAccount(now)
<1>1. /\ copies' = copies \ {c} /\ draft' = Replaced(draft, c.content)
      /\ shared \subseteq shared'
  BY JoinedIs DEF ResolveDevice
<1>2. PICK rows \in ChosenSnapshots(c, both, draft'.revision, now) : snaps' \in TrimHistory(rows)
  BY DEF ResolveDevice
<1>3. snaps \subseteq both /\ \E r \in both : r.content = draft.content /\ r.pinned = TRUE
  <2> DEFINE t == [id |-> FreeId(snaps), kind |-> "conflict", content |-> draft.content,
                   source |-> draft.revision, pinned |-> TRUE, at |-> now - 1,
                   held |-> Attached(draft.content)]
  <2>1. both = snaps \cup {t} BY DEF UnchosenAccount, InsertSnapshot
  <2>2. t.content = draft.content /\ t.pinned = TRUE OBVIOUS
  <2> HIDE DEF t, both
  <2>3. QED BY <2>1, <2>2
<1> HIDE DEF both
<1>4. /\ \A r \in both \ SnapshotsOf(c) : r \in rows
      /\ \A r \in both : r \in rows \/ r.content = c.content
  BY <1>2 DEF ChosenSnapshots
<1>5. \A r \in snaps \ SnapshotsOf(c) : r.pinned => r \in snaps'
  BY <1>2, <1>3, <1>4, PinnedStay
<1>6. ConflictInv' /\ SoleUnchosen \subseteq Unchosen'
  <2>1. copies' \subseteq copies BY <1>1
  <2>2. /\ \A d \in copies' : Sole(d) => SnapshotsOf(d) \cap SnapshotsOf(c) = {}
        /\ Unchosen \cap SnapshotsOf(c) = {}
    BY <1>1, OthersSnapshots
  <2>3. QED BY <1>1, <1>5, <2>1, <2>2, PinnedStep
<1>7. c.content \in Recoverable' /\ draft'.content = c.content
  <2>1. c.content \in Content BY DEF ConflictInv, Shape, Copy
  <2>2. draft'.content = c.content BY <1>1, <2>1, ReplacedShape DEF ConflictInv
  <2>3. QED BY <2>2 DEF Recoverable
<1>8. draft.content \in Recoverable'
  <2>1. PICK r \in both : r.content = draft.content /\ r.pinned BY <1>3
  <2>2. CASE r \in rows
    <3>1. r \in snaps' BY <1>2, <2>1, <2>2, PinnedStay
    <3>2. QED BY <2>1, <3>1 DEF Recoverable
  <2>3. CASE r \notin rows BY <1>4, <1>7, <2>1, <2>3
  <2>4. QED BY <2>2, <2>3
<1>9. QED BY <1>1, <1>6, <1>7, <1>8, ResolvedIs DEF ConflictsKept

(* A copy that comes is alone with its snapshot, or its place is shared. *)
LEMMA NewCopyConflicts ==
    ASSUME ConflictInv, Shape', NEW content, NEW base, NEW class,
           NEW now \in Moments, StaleNew(content, base, class, now)
    PROVE  ConflictsKept
<1>0. PICK d : d = [base |-> base, content |-> content, class |-> class,
                    at |-> now, held |-> Attached(content)]
  OBVIOUS
<1>1. /\ copies' = copies \cup {d} /\ shared' = Joined(base, now)
      /\ snaps' = InsertSnapshot(snaps, "conflict", content, base, TRUE, now)
  BY <1>0 DEF StaleNew
<1>2. d.base = base /\ d.content = content /\ d.at = now BY <1>0
<1>3. /\ snaps \subseteq snaps'
      /\ \E s \in snaps' : s.kind = "conflict" /\ s.content = content /\ s.source = base
                           /\ s.pinned = TRUE /\ s.at = now
  <2> DEFINE t == [id |-> FreeId(snaps), kind |-> "conflict", content |-> content,
                   source |-> base, pinned |-> TRUE, at |-> now, held |-> Attached(content)]
  <2>1. snaps' = snaps \cup {t} BY <1>1 DEF InsertSnapshot
  <2>2. /\ t.kind = "conflict" /\ t.content = content /\ t.source = base
        /\ t.pinned = TRUE /\ t.at = now
    OBVIOUS
  <2> HIDE DEF t
  <2>3. QED BY <2>1, <2>2
<1>4. shared \subseteq shared' /\ (PinnedAt(base, now) # {} => <<base, now>> \in shared')
  BY <1>1, JoinedIs
<1>5. ASSUME NEW c \in copies', Sole(c)' PROVE HasSnapshot(c)'
  <2>1. CASE c = d
    <3>1. PICK s \in snaps' : s.kind = "conflict" /\ s.content = content /\ s.source = base
                              /\ s.pinned /\ s.at = now
      BY <1>3
    <3>2. s \in SnapshotsOf(c)' BY <1>2, <2>1, <3>1 DEF SnapshotsOf, PinnedAt
    <3>3. QED BY <1>2, <2>1, <3>1, <3>2 DEF HasSnapshot
  <2>2. CASE c # d
    <3>1. c \in copies /\ Sole(c) BY <1>1, <1>4, <1>5, <2>2, SharedStays
    <3>2. PICK s \in SnapshotsOf(c) : s.content = c.content BY <3>1, SoleCopyHas
    <3>3. s \in snaps' BY <1>3 DEF SnapshotsOf, PinnedAt
    <3>4. QED BY <3>2, <3>3, SnapshotStays DEF HasSnapshot
  <2>3. QED BY <2>1, <2>2
<1>6. SoleCopiesAreSnapshotted' BY <1>5 DEF SoleCopiesAreSnapshotted, Sole
<1>7. ASSUME NEW c \in copies, c.base = base, c.at = now PROVE <<base, now>> \in shared'
  <2>1. CASE Sole(c)
    <3>1. PICK s \in SnapshotsOf(c) : s.content = c.content BY <2>1, SoleCopyHas
    <3>2. PinnedAt(base, now) # {} BY <1>7 DEF SnapshotsOf
    <3>3. QED BY <1>4, <3>2
  <2>2. CASE ~ Sole(c) BY <1>4, <1>7, <2>2 DEF Sole
  <2>3. QED BY <2>1, <2>2
<1>8. SoleCopies'
  <2> SUFFICES ASSUME NEW c \in copies', NEW e \in copies', c.base = e.base, c.at = e.at, Sole(c)'
               PROVE  c = e
    BY DEF SoleCopies
  <2>1. <<c.base, c.at>> \notin shared' BY DEF Sole
  <2>2. CASE c \in copies /\ e \in copies
    <3>1. Sole(c) BY <1>4, SharedStays
    <3>2. QED BY <2>2, <3>1 DEF ConflictInv, SoleCopies
  <2>3. CASE c = d \/ e = d BY <1>1, <1>2, <1>7, <2>1, <2>3
  <2>4. QED BY <1>1, <2>2, <2>3
<1>9. ConflictInv' BY <1>6, <1>8 DEF ConflictInv
<1>10. ASSUME NEW s \in SoleUnchosen PROVE s \in Unchosen'
  <2>1. /\ s \in snaps /\ s \in snaps' /\ s.pinned /\ \A c \in copies : s \notin SnapshotsOf(c)
        /\ <<s.source, s.at>> \notin shared'
    BY <1>3 DEF Unchosen, SoleUnchosen
  <2>2. ASSUME s \in SnapshotsOf(d)' PROVE FALSE
    <3>1. s \in PinnedAt(base, now) BY <1>2, <2>1, <2>2 DEF SnapshotsOf, PinnedAt
    <3>2. s.source = base /\ s.at = now BY <3>1 DEF PinnedAt
    <3>3. QED BY <1>4, <2>1, <3>1, <3>2
  <2>3. \A c \in copies : s \notin SnapshotsOf(c)' BY <2>1, SnapshotStays
  <2>4. QED BY <1>1, <2>1, <2>2, <2>3 DEF Unchosen
<1>11. Resolved = {} BY <1>1 DEF Resolved
<1>12. QED BY <1>9, <1>10, <1>11 DEF ConflictsKept

(* A replaced copy takes its snapshot along; the snapshot of another it can *)
(* only take where the two share their place.                               *)
LEMMA ReplaceConflicts ==
    ASSUME ConflictInv, Shape', NEW content \in Content, NEW base, NEW class,
           NEW now \in Moments, StaleReplace(content, base, class, now)
    PROVE  ConflictsKept
<1>1. PICK c \in copies :
        /\ copies' = (copies \ {c}) \cup {Rewritten(c, content)}
        /\ snaps' \in Resnapshots(c, content, now)
        /\ shared' = IF SnapshotsOf(c) = {} THEN Joined(base, now) ELSE shared
  BY DEF StaleReplace, SameClass
<1> PICK d : d = Rewritten(c, content) OBVIOUS
<1>2. c \in Copy BY DEF ConflictInv, Shape
<1>3. d.base = c.base /\ d.content = content /\ d.class = c.class /\ d.at = c.at
  <2>1. d.base = c.base /\ d.content = content /\ d.class = c.class BY <1>2, ReplacedCopy
  <2>2. d.at = c.at BY <1>2 DEF Rewritten, Copy
  <2>3. QED BY <2>1, <2>2
<1>4. copies' = (copies \ {c}) \cup {d} /\ shared \subseteq shared' BY <1>1, JoinedIs
<1>5. /\ \A s \in snaps : s \in snaps' \/ s \in SnapshotsOf(c)
      /\ SnapshotsOf(c) = {} => snaps \subseteq snaps'
      /\ SnapshotsOf(c) # {} => \E t \in SnapshotsOf(d)' : t.content = content
  <2>1. CASE SnapshotsOf(c) = {}
    BY <1>1, <2>1 DEF Resnapshots, InsertSnapshot
  <2>2. CASE SnapshotsOf(c) # {}
    <3>1. PICK r \in SnapshotsOf(c) : snaps' = (snaps \ {r}) \cup {Rewritten(r, content)}
      BY <1>1, <2>2 DEF Resnapshots
    <3> PICK t : t = Rewritten(r, content) OBVIOUS
    <3>2. IsSnapshot(r) BY DEF SnapshotsOf, PinnedAt, ConflictInv, Shape
    <3>3. t.content = content BY <3>2, RewrittenSnapshot
    <3>4. t.at = r.at /\ t.kind = r.kind /\ t.pinned = r.pinned /\ t.source = r.source
      BY <3>2 DEF Rewritten, IsSnapshot
    <3>5. snaps' = (snaps \ {r}) \cup {t} BY <3>1
    <3>6. r \in snaps /\ r.kind = "conflict" /\ r.pinned /\ r.source = c.base /\ r.at = c.at
      BY DEF SnapshotsOf, PinnedAt
    <3>7. t \in SnapshotsOf(d)' BY <1>3, <3>4, <3>5, <3>6 DEF SnapshotsOf, PinnedAt
    <3>8. QED BY <2>2, <3>3, <3>5, <3>7
  <2>3. QED BY <2>1, <2>2
<1>6. ASSUME NEW e \in copies', Sole(e)' PROVE HasSnapshot(e)'
  <2>1. CASE e = d
    <3>1. Sole(c) BY <1>3, <1>4, <1>6, <2>1, SharedStays
    <3>2. SnapshotsOf(c) # {} BY <3>1, SoleCopyHas
    <3>3. QED BY <1>3, <1>5, <2>1, <3>2 DEF HasSnapshot
  <2>2. CASE e # d
    <3>1. e \in copies \ {c} /\ Sole(e) BY <1>4, <1>6, <2>2, SharedStays
    <3>2. PICK s \in SnapshotsOf(e) : s.content = e.content BY <3>1, SoleCopyHas
    <3>3. s \in snaps /\ s \notin SnapshotsOf(c)
      BY <3>1, OthersSnapshots DEF SnapshotsOf, PinnedAt
    <3>4. QED BY <1>5, <3>2, <3>3, SnapshotStays DEF HasSnapshot
  <2>3. QED BY <2>1, <2>2
<1>7. SoleCopiesAreSnapshotted' BY <1>6 DEF SoleCopiesAreSnapshotted, Sole
<1>8. SoleCopies'
  <2> SUFFICES ASSUME NEW e \in copies', NEW f \in copies', e.base = f.base, e.at = f.at, Sole(e)'
               PROVE  e = f
    BY DEF SoleCopies
  <2>1. PICK q \in copies : q.base = e.base /\ q.at = e.at /\ (q = e \/ (q = c /\ e = d))
    BY <1>3, <1>4
  <2>2. PICK r \in copies : r.base = f.base /\ r.at = f.at /\ (r = f \/ (r = c /\ f = d))
    BY <1>3, <1>4
  <2>3. Sole(q) BY <1>4, <2>1, SharedStays
  <2>4. q = r BY <2>1, <2>2, <2>3 DEF ConflictInv, SoleCopies
  <2>5. QED BY <1>3, <1>4, <2>1, <2>2, <2>4
<1>9. ConflictInv' BY <1>7, <1>8 DEF ConflictInv
<1>10. ASSUME NEW s \in Unchosen PROVE s \in Unchosen'
  <2>1. s \in snaps /\ s.pinned /\ \A e \in copies : s \notin SnapshotsOf(e) BY DEF Unchosen
  <2>2. s \in snaps' BY <1>5, <2>1
  <2>3. s \notin SnapshotsOf(d)' BY <1>3, <2>1, SnapshotStays
  <2>4. \A e \in copies : s \notin SnapshotsOf(e)' BY <2>1, SnapshotStays
  <2>5. QED BY <1>4, <2>1, <2>2, <2>3, <2>4 DEF Unchosen
<1>11. Resolved = {} BY <1>3, <1>4 DEF Resolved
<1>12. QED BY <1>9, <1>10, <1>11 DEF ConflictsKept, SoleUnchosen

LEMMA ConflictStep ==
    ASSUME ConflictInv, [DraftsNext]_draftsVars
    PROVE  ConflictsKept
<1>1. Shape' BY ShapeStep DEF ConflictInv
<1>2. CASE MediaStep
  BY <1>1, <1>2, QuietConflicts, CancelConflicts DEF MediaStep, Register, Purge
<1>3. ASSUME NEW content \in Content, NEW base, NEW now \in Moments,
             Save(content, base, now) \/ StaleRetry(content, base, now)
      PROVE  ConflictsKept
  BY <1>1, <1>3, QuietConflicts DEF Save, StaleRetry
<1>4. CASE SaveStep
  BY <1>1, <1>3, <1>4, SaveNowConflicts, ReplaceConflicts, NewCopyConflicts DEF SaveStep
<1>5. CASE ChoiceStep
  BY <1>1, <1>5, RestoreConflicts, AccountConflicts, DeviceConflicts DEF ChoiceStep
<1>6. CASE DeleteStep
  <2>1. /\ copies' = {} /\ draft' = [draft EXCEPT !.state = "deleted", !.held = {}]
    BY <1>6 DEF DeleteStep, Delete
  <2>2. draft'.state = "deleted" BY <2>1 DEF ConflictInv, Shape, Draft
  <2>3. ConflictInv' BY <1>1, <2>1 DEF ConflictInv, SoleCopiesAreSnapshotted, SoleCopies
  <2>4. QED BY <2>2, <2>3 DEF ConflictsKept
<1>7. CASE UNCHANGED draftsVars BY <1>1, <1>7, QuietConflicts DEF draftsVars
<1>8. QED BY <1>2, <1>4, <1>5, <1>6, <1>7 DEF DraftsNext

LEMMA ConflictFirst == DraftsInit => ConflictInv
BY DEF DraftsInit, ConflictInv, Shape, Draft, SoleCopiesAreSnapshotted, SoleCopies

(* Whatever times the commands carry, in any order: each unresolved copy has *)
(* its pinned snapshot with the content it has now, unless another snapshot  *)
(* was pinned to its base in its millisecond (saveContent, trimHistory).     *)
THEOREM SnapshottedCopies == DraftsSpec => []SoleCopiesAreSnapshotted
<1>1. ConflictInv /\ [DraftsNext]_draftsVars => ConflictInv' BY ConflictStep DEF ConflictsKept
<1>2. ConflictInv => SoleCopiesAreSnapshotted BY DEF ConflictInv
<1>3. QED BY <1>1, <1>2, ConflictFirst, PTL DEF DraftsSpec

(* Whatever times the commands carry, in any order: what an author did not   *)
(* choose stays as it was until the draft is deleted, and both contents of a *)
(* conflict can be found after the choice, but for what shared its place     *)
(* (resolveConflict, trimHistory).                                           *)
THEOREM NothingUnchosenGoes == DraftsSpec => UnchosenStays
<1>1. ConflictInv /\ [DraftsNext]_draftsVars => ConflictInv' BY ConflictStep DEF ConflictsKept
<1>2. ConflictInv /\ [DraftsNext]_draftsVars
        => [draft'.state = "active" =>
              {s \in Unchosen : <<s.source, s.at>> \notin shared'} \subseteq Unchosen']_draftsVars
  BY ConflictStep DEF ConflictsKept, SoleUnchosen
<1>3. ConflictInv /\ [DraftsNext]_draftsVars
        => [draft'.state = "active" => \A c \in Resolved :
              /\ draft.content \in Recoverable'
              /\ <<c.base, c.at>> \notin shared => c.content \in Recoverable']_draftsVars
  BY ConflictStep DEF ConflictsKept, Sole
<1>4. QED BY <1>1, <1>2, <1>3, ConflictFirst, PTL DEF DraftsSpec, UnchosenStays

-----------------------------------------------------------------------------
(* An item that waits for its content. *)
LEMMA SyncedKeeps ==
    ASSUME NEW held, NEW previous, NEW next, NEW i \in held \ ItemsOf[previous]
    PROVE  i \in Synced(held, previous, next)
BY DEF Synced

(* No save, restore or choice releases an item of the draft that no content *)
(* named yet (registerItem, syncRefs).                                      *)
THEOREM RegisteredItemsStay == DraftsSpec => RegisteredStays
<1>1. Shape /\ [DraftsNext]_draftsVars
        => [draft'.state = "active" =>
              \A i \in draft.held \ ItemsOf[draft.content] :
                 items'[i] = "live" => i \in draft'.held]_draftsVars
  <2> SUFFICES ASSUME Shape, DraftsNext, draft'.state = "active",
                      NEW i \in draft.held \ ItemsOf[draft.content], items'[i] = "live"
               PROVE  i \in draft'.held
    OBVIOUS
  <2>1. draft \in Draft /\ draft.content \in Content /\ draft.held \in SUBSET Item
        /\ items \in [Item -> {"new", "live", "gone"}]
    BY DEF Shape, Draft
  <2>2. ASSUME NEW content \in Content, draft' = Replaced(draft, content)
        PROVE  i \in draft'.held
    BY <2>2, ReplacedShape, SyncedKeeps
  <2>3. CASE draft' = draft BY <2>3
  <2>4. CASE MediaStep
    <3>1. ASSUME NEW j \in Item, Register(j) PROVE i \in draft'.held
      BY <2>1, <3>1 DEF Register, Draft
    <3>2. ASSUME NEW j \in Item, Cancel(j) PROVE i \in draft'.held
      BY <2>1, <3>2 DEF Cancel, Draft
    <3>3. QED BY <2>3, <2>4, <3>1, <3>2 DEF MediaStep, Purge
  <2>5. CASE SaveStep
    <3>1. \A content \in Content :
            AfterSave(content) = draft \/ AfterSave(content) = Replaced(draft, content)
      BY DEF AfterSave
    <3>2. draft' = draft \/ \E content \in Content : draft' = AfterSave(content)
      <4>1. ASSUME NEW content \in Content, NEW base, NEW now,
                   Save(content, base, now) \/ SaveNow(content, base, now)
            PROVE  draft' = AfterSave(content)
        BY <4>1 DEF Save, SaveNow
      <4>2. ASSUME NEW content, NEW base, NEW now, NEW class,
                   \/ StaleRetry(content, base, now)
                   \/ StaleReplace(content, base, class, now)
                   \/ StaleNew(content, base, class, now)
            PROVE  draft' = draft
        BY <4>2 DEF StaleRetry, StaleReplace, StaleNew
      <4>3. QED BY <2>5, <4>1, <4>2 DEF SaveStep
    <3>3. QED BY <2>2, <2>3, <3>1, <3>2
  <2>6. CASE ChoiceStep
    <3>1. ASSUME NEW s \in snaps, NEW now, Restore(s, now) PROVE i \in draft'.held
      <4>1. s.content \in Content BY DEF Shape, IsSnapshot
      <4>2. QED BY <2>2, <3>1, <4>1 DEF Restore
    <3>2. ASSUME NEW c \in copies, NEW now, ResolveDevice(c, now) PROVE i \in draft'.held
      <4>1. c.content \in Content BY DEF Shape, Copy
      <4>2. QED BY <2>2, <3>2, <4>1 DEF ResolveDevice
    <3>3. QED BY <2>3, <2>6, <3>1, <3>2 DEF ChoiceStep, ResolveAccount
  <2>7. CASE DeleteStep
    <3>1. draft'.state = "deleted" BY <2>1, <2>7 DEF DeleteStep, Delete, Draft
    <3>2. QED BY <3>1
  <2>8. QED BY <2>4, <2>5, <2>6, <2>7 DEF DraftsNext
<1>2. QED BY <1>1, ShapeCorrect, PTL DEF DraftsSpec, RegisteredStays
=============================================================================
