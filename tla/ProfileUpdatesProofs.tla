------------------------ MODULE ProfileUpdatesProofs ------------------------
(***************************************************************************)
(* Theorems about ProfileUpdates for every finite set of requests and of   *)
(* events.                                                                 *)
(*                                                                         *)
(* The first part is about array_remove: the positions that it keeps are   *)
(* ranked by Cardinality, and a finite set of c positions has one of each  *)
(* rank from 1 to c.  The second is the inductive invariant.               *)
(***************************************************************************)
EXTENDS ProfileUpdates, FiniteSetTheorems, SequenceTheorems, TLAPS

-----------------------------------------------------------------------------
(* array_remove and array_append                                           *)

Kept(s, e) == {i \in DOMAIN s : s[i] # e}

Rank(kept, i) == Cardinality({j \in kept : j <= i})

Nth(kept, n) == CHOOSE i \in kept : Rank(kept, i) = n

LEMMA WithoutDef ==
  ASSUME NEW s, NEW e
  PROVE  Without(s, e) = [n \in 1..Cardinality(Kept(s, e)) |-> s[Nth(Kept(s, e), n)]]
  BY DEF Without, Kept, Nth, Rank

LEMMA RankBounds ==
  ASSUME NEW kept \in SUBSET Nat, IsFiniteSet(kept), NEW i \in kept
  PROVE  Rank(kept, i) \in 1..Cardinality(kept)
  <1> DEFINE below == {j \in kept : j <= i}
  <1>1. IsFiniteSet(below) /\ Cardinality(below) <= Cardinality(kept) /\ i \in below
    BY FS_Subset
  <1>2. Cardinality(below) # 0
    BY <1>1, FS_EmptySet
  <1>3. Cardinality(below) \in Nat /\ Cardinality(kept) \in Nat
    BY <1>1, FS_CardinalityType
  <1> QED
    BY <1>1, <1>2, <1>3 DEF Rank

LEMMA RankGrows ==
  ASSUME NEW kept \in SUBSET Nat, IsFiniteSet(kept), NEW i \in kept, NEW k \in kept, i < k
  PROVE  Rank(kept, i) < Rank(kept, k)
  <1> DEFINE below(x) == {j \in kept : j <= x}
  <1>1. IsFiniteSet(below(i)) /\ IsFiniteSet(below(k))
    BY FS_Subset
  <1>2. below(i) \in SUBSET below(k) /\ k \in below(k) /\ k \notin below(i)
    <2>1. \A j \in kept : j \in Nat
      OBVIOUS
    <2>2. \A j \in kept : j <= i => j <= k
      BY <2>1
    <2>3. k <= k /\ ~(k <= i)
      BY <2>1
    <2> QED
      BY <2>2, <2>3
  <1>3. /\ Cardinality(below(i)) <= Cardinality(below(k))
        /\ Cardinality(below(i)) # Cardinality(below(k))
    <2>1. PICK A : A = below(i)
      OBVIOUS
    <2>2. PICK B : B = below(k)
      OBVIOUS
    <2>3. A \in SUBSET B /\ A # B /\ IsFiniteSet(B)
      BY <1>1, <1>2, <2>1, <2>2
    <2> QED
      BY <2>1, <2>2, <2>3, FS_Subset
  <1>4. Cardinality(below(i)) \in Nat /\ Cardinality(below(k)) \in Nat
    BY <1>1, FS_CardinalityType
  <1> QED
    BY <1>3, <1>4 DEF Rank

\* There is one position of each rank, and Nth finds it.
LEMMA NthFacts ==
  ASSUME NEW kept \in SUBSET Nat, IsFiniteSet(kept)
  PROVE  /\ \A n \in 1..Cardinality(kept) : Nth(kept, n) \in kept /\ Rank(kept, Nth(kept, n)) = n
         /\ \A i \in kept : Nth(kept, Rank(kept, i)) = i
  <1> DEFINE c == Cardinality(kept)
             rank == [i \in kept |-> Rank(kept, i)]
  <1>1. c \in Nat /\ IsFiniteSet(1..c) /\ Cardinality(1..c) = c
    BY FS_CardinalityType, FS_Interval
  <1>2. rank \in [kept -> 1..c]
    BY RankBounds
  <1>3. \A i, k \in kept : Rank(kept, i) = Rank(kept, k) => i = k
    <2> SUFFICES ASSUME NEW i \in kept, NEW k \in kept, i # k
                 PROVE  Rank(kept, i) # Rank(kept, k)
      OBVIOUS
    <2>1. Rank(kept, i) \in Nat /\ Rank(kept, k) \in Nat
      BY RankBounds, <1>1
    <2>2. i < k \/ k < i
      OBVIOUS
    <2> QED
      BY <2>1, <2>2, RankGrows
  <1>4. rank \in Injection(kept, 1..c)
    BY <1>2, <1>3 DEF Injection, IsInjective
  <1> HIDE DEF rank
  <1>5. rank \in Surjection(kept, 1..c)
    BY <1>1, <1>4, FS_Injection
  <1>6. \A n \in 1..c : \E i \in kept : Rank(kept, i) = n
    BY <1>5 DEF rank, Surjection
  <1>7. \A n \in 1..c : Nth(kept, n) \in kept /\ Rank(kept, Nth(kept, n)) = n
    BY <1>6 DEF Nth
  <1>8. \A i \in kept : Nth(kept, Rank(kept, i)) = i
    BY <1>3, <1>7, RankBounds
  <1> QED
    BY <1>7, <1>8

LEMMA KeptFacts ==
  ASSUME NEW n \in Nat, NEW s, DOMAIN s = 1..n, NEW e
  PROVE  /\ Kept(s, e) \in SUBSET Nat /\ IsFiniteSet(Kept(s, e))
         /\ Cardinality(Kept(s, e)) \in 0..n
  <1>1. Kept(s, e) \subseteq 1..n
    BY DEF Kept
  <1>2. IsFiniteSet(1..n) /\ Cardinality(1..n) = n
    BY FS_Interval
  <1>3. IsFiniteSet(Kept(s, e)) /\ Cardinality(Kept(s, e)) <= n
    BY <1>1, <1>2, FS_Subset
  <1> QED
    BY <1>1, <1>3, FS_CardinalityType

LEMMA KeptOfSequence ==
  ASSUME NEW X, NEW s \in Seq(X), NEW e
  PROVE  /\ Kept(s, e) = {i \in 1..Len(s) : s[i] # e}
         /\ Kept(s, e) \in SUBSET Nat /\ IsFiniteSet(Kept(s, e))
         /\ Cardinality(Kept(s, e)) \in 0..Len(s)
  <1>1. Len(s) \in Nat /\ DOMAIN s = 1..Len(s)
    OBVIOUS
  <1> QED
    BY <1>1, KeptFacts DEF Kept

\* array_remove takes out the element and keeps the others, none of them twice
\* if none was there twice.
LEMMA WithoutFacts ==
  ASSUME NEW X, NEW s \in Seq(X), NEW e
  PROVE  /\ Without(s, e) \in Seq(X) /\ Len(Without(s, e)) <= Len(s)
         /\ Range(Without(s, e)) = Range(s) \ {e}
         /\ IsInjective(s) => IsInjective(Without(s, e))
  <1> DEFINE K == Kept(s, e)
             c == Cardinality(K)
             t == Without(s, e)
  <1>1. K \in SUBSET Nat /\ IsFiniteSet(K) /\ c \in 0..Len(s)
    BY KeptOfSequence
  <1>2. K = {i \in 1..Len(s) : s[i] # e}
    BY KeptOfSequence
  <1> HIDE DEF K
  <1>3. /\ \A k \in 1..c : Nth(K, k) \in K /\ Rank(K, Nth(K, k)) = k
        /\ \A i \in K : Nth(K, Rank(K, i)) = i /\ Rank(K, i) \in 1..c
    BY <1>1, NthFacts, RankBounds
  <1>4. t = [k \in 1..c |-> s[Nth(K, k)]]
    BY WithoutDef DEF K
  <1> HIDE DEF t, c
  <1>5. t \in [1..c -> X]
    BY <1>2, <1>3, <1>4
  <1>6. Range(t) = Range(s) \ {e}
    <2>1. ASSUME NEW x \in Range(t)
          PROVE  x \in Range(s) \ {e}
      <3>1. PICK k \in 1..c : x = s[Nth(K, k)]
        BY <1>4, <1>5 DEF Range
      <3> QED
        BY <3>1, <1>2, <1>3 DEF Range
    <2>2. ASSUME NEW x \in Range(s) \ {e}
          PROVE  x \in Range(t)
      <3>1. PICK i \in K : x = s[i]
        BY <1>2 DEF Range
      <3>2. Rank(K, i) \in DOMAIN t /\ t[Rank(K, i)] = x
        BY <3>1, <1>3, <1>4
      <3> QED
        BY <3>2 DEF Range
    <2> QED
      BY <2>1, <2>2
  <1>7. ASSUME IsInjective(s)
        PROVE  IsInjective(t)
    <2> SUFFICES ASSUME NEW j \in 1..c, NEW k \in 1..c, t[j] = t[k]
                 PROVE  j = k
      BY <1>5 DEF IsInjective
    <2>1. Nth(K, j) \in DOMAIN s /\ Nth(K, k) \in DOMAIN s /\ s[Nth(K, j)] = s[Nth(K, k)]
      BY <1>2, <1>3, <1>4
    <2>2. Nth(K, j) = Nth(K, k)
      BY <1>7, <2>1 DEF IsInjective
    <2> QED
      BY <2>2, <1>3
  <1>8. t \in Seq(X) /\ Len(t) <= Len(s)
    BY <1>1, <1>5
  <1> QED
    BY <1>6, <1>7, <1>8 DEF t

LEMMA WithoutTwice ==
  ASSUME NEW X, NEW s \in Seq(X), NEW e
  PROVE  Without(Without(s, e), e) = Without(s, e)
  <1>1. PICK t : t = Without(s, e)
    OBVIOUS
  <1>2. t \in Seq(X) /\ Range(t) = Range(s) \ {e}
    BY <1>1, WithoutFacts
  <1>3. PICK m \in Nat : m = Len(t) /\ DOMAIN t = 1..m /\ t \in [1..m -> X]
    BY <1>2
  <1>4. \A k \in 1..m : t[k] # e
    BY <1>2, <1>3 DEF Range
  <1>5. Kept(t, e) = 1..m
    BY <1>3, <1>4 DEF Kept
  <1>6. Cardinality(1..m) = m /\ IsFiniteSet(1..m)
    BY FS_Interval
  <1>7. \A k \in 1..m : Rank(1..m, k) = k
    <2> SUFFICES ASSUME NEW k \in 1..m
                 PROVE  Rank(1..m, k) = k
      OBVIOUS
    <2>1. {j \in 1..m : j <= k} = 1..k
      OBVIOUS
    <2>2. Cardinality(1..k) = k
      BY FS_Interval
    <2> QED
      BY <2>1, <2>2 DEF Rank
  <1>8. \A k \in 1..m : Nth(1..m, k) = k
    <2>1. 1..m \in SUBSET Nat
      OBVIOUS
    <2> QED
      BY <1>6, <1>7, <2>1, NthFacts
  <1>9. Without(t, e) = [k \in 1..m |-> t[Nth(1..m, k)]]
    BY <1>5, <1>6, WithoutDef
  <1>10. Without(t, e) = t
    BY <1>3, <1>8, <1>9
  <1> QED
    BY <1>1, <1>10

\* array_append
LEMMA AppendFacts ==
  ASSUME NEW X, NEW s \in Seq(X), NEW e \in X
  PROVE  /\ Append(s, e) \in Seq(X) /\ Len(Append(s, e)) = Len(s) + 1
         /\ Range(Append(s, e)) = Range(s) \union {e}
         /\ IsInjective(s) /\ e \notin Range(s) => IsInjective(Append(s, e))
         /\ Without(Append(s, e), e) = Without(s, e)
  <1>1. /\ Append(s, e) \in Seq(X) /\ Len(Append(s, e)) = Len(s) + 1
        /\ \A i \in 1..Len(s) : Append(s, e)[i] = s[i]
        /\ Append(s, e)[Len(s) + 1] = e
    BY AppendProperties
  <1>2. PICK t : t = Append(s, e)
    OBVIOUS
  <1>3. PICK n \in Nat : n = Len(s)
    OBVIOUS
  <1>4. /\ DOMAIN t = 1..(n + 1) /\ t[n + 1] = e /\ \A i \in 1..n : t[i] = s[i]
        /\ DOMAIN s = 1..n
    BY <1>1, <1>2, <1>3, LenProperties
  <1>5. Range(t) = Range(s) \union {e}
    BY <1>4 DEF Range
  <1>6. ASSUME IsInjective(s), e \notin Range(s)
        PROVE  IsInjective(t)
    BY <1>4, <1>6 DEF IsInjective, Range
  <1>7. Without(t, e) = Without(s, e)
    <2>1. PICK K : K = Kept(s, e)
      OBVIOUS
    <2>2. Kept(t, e) = K
      BY <1>4, <2>1 DEF Kept
    <2>3. K \in SUBSET Nat /\ IsFiniteSet(K) /\ K \subseteq 1..n
      BY <1>3, <2>1, KeptOfSequence
    <2>4. \A k \in 1..Cardinality(K) : t[Nth(K, k)] = s[Nth(K, k)]
      BY <1>4, <2>3, NthFacts
    <2>5. /\ Without(t, e) = [k \in 1..Cardinality(K) |-> t[Nth(K, k)]]
          /\ Without(s, e) = [k \in 1..Cardinality(K) |-> s[Nth(K, k)]]
      BY <2>1, <2>2, WithoutDef
    <2> QED
      BY <2>4, <2>5
  <1> QED
    BY <1>1, <1>2, <1>5, <1>6, <1>7

-----------------------------------------------------------------------------
(* The inductive invariant                                                 *)

Label == {"new", "loaded", "updated", "committed", "ok", "missing", "error", "aborted"}

\* TypeOK leaves out the inputs and local variables.
LocalTypes ==
    /\ op \in [Request -> Operation \union {NULL}]
    /\ pc \in [Request -> Label]
    /\ event \in [Request -> Event \union {NULL}]
    /\ wish \in [Request -> Wish]
    /\ loaded = [r \in Request |-> loaded[r]]

Serving(r) == pc[r] \in {"loaded", "updated", "committed"}

KnowsItsRow(r) ==
    Serving(r) => /\ op[r] \in Operation
                  /\ pc[r] = "committed" => op[r] # "view"
                  /\ op[r] \in {"add", "view"} => event[r] \in Known
                  /\ op[r] = "consent" => loaded[r] \in Row

\* From its UPDATE to its commit a request holds the lock of the row, which is
\* as the WHERE clause found it.
HoldsItsRow(r) ==
    /\ pc[r] = "updated" /\ op[r] # "view" => userLock = r /\ Applies(r)
    /\ pc[r] = "updated" /\ op[r] = "view" => eventLock[event[r]] = r

\* What a request will not write it has met, and once it has committed it has
\* met everything, or the account is gone.
HasMet(r) ==
    /\ Serving(r) /\ op[r] = "consent" =>
          \A c \in Channel : wish[r][c] = loaded[r].consent[c] => c \in met[r]
    /\ pc[r] = "committed" => user = NULL \/ Asked(r) \subseteq met[r]

InPlace(r) == KnowsItsRow(r) /\ HoldsItsRow(r) /\ HasMet(r)

EachInPlace == \A r \in Request : InPlace(r)

Inv ==
    /\ Consistent
    /\ EveryViewCounted
    /\ LocalTypes
    /\ EachInPlace

-----------------------------------------------------------------------------
USE DEF rows, locks, inputs

LEMMA Names ==
  /\ NULL \notin Row /\ NULL \notin Request /\ NULL \notin BOOLEAN /\ NULL \notin Operation
  /\ Known \subseteq Event /\ First \notin Request
  /\ IsFiniteSet(Request) /\ IsFiniteSet(Known)
  BY NullAssumption, CatalogueAssumption, FinitenessAssumption

USE Names

\* Favorites without duplicates fit into the row.
LEMMA Favorites ==
  ASSUME NEW s
  PROVE  /\ s \in Seq(Known) /\ IsInjective(s) =>
              s \in UNION {[1..n -> Known] : n \in 0..Cardinality(Known)}
         /\ s \in UNION {[1..n -> Known] : n \in 0..Cardinality(Known)} => s \in Seq(Known)
  <1>1. ASSUME s \in Seq(Known), IsInjective(s)
        PROVE  s \in UNION {[1..n -> Known] : n \in 0..Cardinality(Known)}
    <2>1. PICK n \in Nat : n = Len(s) /\ s \in [1..n -> Known]
      BY <1>1
    <2>2. s \in Injection(1..n, Known)
      BY <1>1, <2>1 DEF Injection
    <2>3. Cardinality(1..n) <= Cardinality(Known)
      BY <2>2, FS_Injection
    <2>4. n \in 0..Cardinality(Known)
      BY <2>3, FS_Interval, FS_CardinalityType
    <2> QED
      BY <2>1, <2>4
  <1>2. ASSUME s \in UNION {[1..n -> Known] : n \in 0..Cardinality(Known)}
        PROVE  s \in Seq(Known)
    <2>1. PICK n \in 0..Cardinality(Known) : s \in [1..n -> Known]
      BY <1>2
    <2>2. n \in Nat
      BY FS_CardinalityType
    <2> QED
      BY <2>1, <2>2
  <1> QED
    BY <1>1, <1>2

-----------------------------------------------------------------------------
(* What a step leaves to a request that does not take it.                  *)

Undisturbed(q) ==
    /\ pc'[q] = pc[q] /\ op'[q] = op[q] /\ event'[q] = event[q]
    /\ wish'[q] = wish[q] /\ loaded'[q] = loaded[q]
    /\ userLock = q => userLock' = q /\ user' = user
    /\ \A e \in Known : eventLock[e] = q => eventLock'[e] = q
    /\ user = NULL => user' = NULL

LEMMA UndisturbedInPlace ==
  ASSUME Inv, NEW q \in Request, Undisturbed(q), Remember
  PROVE  InPlace(q)'
  <1>1. InPlace(q)
    BY DEF Inv, EachInPlace
  <1>2. met'[q] = IF pc'[q] \in {"loaded", "updated", "committed"}
                  THEN met[q] \union Met(q)' ELSE {}
    BY DEF Remember
  <1>3. Asked(q)' = Asked(q)
    BY DEF Undisturbed, Asked
  <1>4. KnowsItsRow(q)'
    BY <1>1 DEF InPlace, KnowsItsRow, Undisturbed, Serving
  <1>5. HoldsItsRow(q)'
    BY <1>1 DEF InPlace, HoldsItsRow, KnowsItsRow, Serving, Undisturbed, Applies
  <1>6. HasMet(q)'
    BY <1>1, <1>2, <1>3 DEF InPlace, HasMet, Undisturbed, Serving
  <1> QED
    BY <1>4, <1>5, <1>6 DEF InPlace

Views(e) == {r \in Request : op[r] = "view" /\ event[r] = e /\ pc[r] = "ok"}

\* A step of r, or of the deletion, keeps the invariant if it leaves the others
\* and the rows are right.
LEMMA Preservation ==
  ASSUME Inv, Remember, \A q \in Request : Undisturbed(q) \/ InPlace(q)',
         LocalTypes', NoDuplicateFavorites', user' \in Row \union {NULL},
         DOMAIN popularity' = Known, popularity' = [e \in Known |-> popularity'[e]],
         EveryViewCounted',
         userLock' \in Request \union {NULL}, eventLock' \in [Known -> Request \union {NULL}]
  PROVE  Inv'
  <1>1. EachInPlace'
    BY UndisturbedInPlace DEF EachInPlace
  <1>2. \A e \in Known : popularity'[e] \in 0..Cardinality(Request)
    <2> SUFFICES ASSUME NEW e \in Known
                 PROVE  popularity'[e] \in 0..Cardinality(Request)
      OBVIOUS
    <2>1. PICK V : V = Views(e)'
      OBVIOUS
    <2>2. V \in SUBSET Request /\ popularity'[e] = Cardinality(V)
      BY <2>1 DEF Views, EveryViewCounted
    <2>3. IsFiniteSet(V) /\ Cardinality(V) <= Cardinality(Request)
      BY <2>2, FS_Subset
    <2> QED
      BY <2>2, <2>3, FS_CardinalityType
  <1>3. popularity' \in [Known -> 0..Cardinality(Request)]
    BY <1>2
  <1>4. \A r \in Request : Met(r)' \subseteq Channel \union {"favorite"}
    BY DEF Met, Asked, LocalTypes, Operation
  <1>5. met' \in [Request -> SUBSET (Channel \union {"favorite"})]
    <2>1. met \in [Request -> SUBSET (Channel \union {"favorite"})]
      BY DEF Inv, Consistent, TypeOK
    <2> QED
      BY <1>4, <2>1 DEF Remember
  <1>6. TypeOK'
    BY <1>3, <1>5 DEF TypeOK, LocalTypes, Label
  <1> QED
    BY <1>1, <1>6 DEF Inv, Consistent

\* A step of r that writes no row and does not end a view.
LEMMA QuietPreservation ==
  ASSUME Inv, Remember, NEW r \in Request, UNCHANGED rows,
         \A q \in Request \ {r} : Undisturbed(q), InPlace(r)', LocalTypes',
         pc[r] # "ok", pc'[r] = "ok" => op'[r] # "view",
         userLock' \in Request \union {NULL}, eventLock' \in [Known -> Request \union {NULL}]
  PROVE  Inv'
  <1>1. TypeOK /\ NoDuplicateFavorites /\ EveryViewCounted
    BY DEF Inv, Consistent
  <1>2. \A e \in Known : Views(e)' = Views(e)
    BY DEF Views, Undisturbed
  <1>3. EveryViewCounted'
    BY <1>1, <1>2 DEF EveryViewCounted, Views
  <1>4. NoDuplicateFavorites' /\ user' \in Row \union {NULL}
        /\ DOMAIN popularity' = Known /\ popularity' = [e \in Known |-> popularity'[e]]
    BY <1>1 DEF TypeOK, NoDuplicateFavorites
  <1> QED
    BY <1>3, <1>4, Preservation

\* What r changes when it arrives, goes on, or answers.
LEMMA ArriveFacts ==
  ASSUME LocalTypes, NEW r \in Request, NEW operation \in Operation,
         NEW e \in Event \union {NULL}, NEW w \in Wish, NEW row, NEW label \in Label,
         Arrive(r, operation, e, w, row), Goto(r, label)
  PROVE  /\ LocalTypes' /\ \A q \in Request \ {r} : Undisturbed(q)
         /\ pc[r] = "new" /\ pc'[r] = label /\ op'[r] = operation /\ event'[r] = e /\ wish'[r] = w
         /\ loaded'[r] = row
  BY DEF LocalTypes, Arrive, Goto, Undisturbed

LEMMA GotoFacts ==
  ASSUME LocalTypes, NEW r \in Request, NEW label \in Label, Goto(r, label),
         UNCHANGED <<inputs, loaded>>
  PROVE  /\ LocalTypes' /\ pc'[r] = label
         /\ \A q \in Request \ {r} : pc'[q] = pc[q]
  BY DEF LocalTypes, Goto

LEMMA NoWishTypes == NoWish \in Wish
  BY DEF NoWish, Wish

LEMMA AnswerFacts ==
  ASSUME LocalTypes, NEW r \in Request, NEW label \in Label, Answer(r, label)
  PROVE  /\ LocalTypes' /\ pc'[r] = label /\ UNCHANGED <<op, event>>
         /\ \A q \in Request \ {r} : pc'[q] = pc[q] /\ wish'[q] = wish[q] /\ loaded'[q] = loaded[q]
  BY NoWishTypes DEF LocalTypes, Goto, Answer

LEMMA ReleaseFacts ==
  ASSUME TypeOK, NEW r \in Request, Release(r)
  PROVE  /\ userLock' \in Request \union {NULL} /\ eventLock' \in [Known -> Request \union {NULL}]
         /\ \A q \in Request \ {r} : /\ userLock = q => userLock' = q
                                     /\ \A e \in Known : eventLock[e] = q => eventLock'[e] = q
  BY DEF TypeOK, Release

\* A request that has been answered has no place to keep.
LEMMA AnsweredInPlace ==
  ASSUME NEW r \in Request, pc'[r] \notin {"loaded", "updated", "committed"}
  PROVE  InPlace(r)'
  BY DEF InPlace, KnowsItsRow, HoldsItsRow, HasMet, Serving

-----------------------------------------------------------------------------
(* Each step keeps the invariant.                                          *)

LEMMA MissingInv ==
  ASSUME Inv, Remember, NEW r \in Request, NEW e \in Event, NEW operation \in {"add", "view"},
         Missing(r, operation, e)
  PROVE  Inv'
  <1>1. TypeOK /\ LocalTypes
    BY DEF Inv, Consistent
  <1>2. Arrive(r, operation, e, NoWish, NULL) /\ Goto(r, "missing") /\ UNCHANGED <<rows, locks>>
    BY DEF Missing, Arrive
  <1>3. /\ LocalTypes' /\ \A q \in Request \ {r} : Undisturbed(q)
        /\ pc[r] = "new" /\ pc'[r] = "missing"
    BY <1>1, <1>2, ArriveFacts, NoWishTypes DEF Operation, Label
  <1> QED
    BY <1>1, <1>2, <1>3, AnsweredInPlace, QuietPreservation DEF TypeOK

LEMMA FindInv ==
  ASSUME Inv, Remember, NEW r \in Request, NEW operation \in Operation,
         NEW e \in Event \union {NULL}, NEW w \in Wish, NEW row,
         Arrive(r, operation, e, w, row), Goto(r, "loaded"),
         operation \in {"add", "view"} => e \in Known,
         operation = "consent" => user # NULL /\ row = user
  PROVE  Inv'
  <1>1. TypeOK /\ LocalTypes /\ UNCHANGED <<rows, locks>>
    BY DEF Inv, Consistent, Arrive
  <1>2. /\ LocalTypes' /\ \A q \in Request \ {r} : Undisturbed(q)
        /\ pc[r] = "new" /\ pc'[r] = "loaded" /\ op'[r] = operation /\ event'[r] = e
        /\ wish'[r] = w /\ loaded'[r] = row
    BY <1>1, ArriveFacts DEF Label
  <1>3. KnowsItsRow(r)' /\ HoldsItsRow(r)'
    BY <1>1, <1>2 DEF KnowsItsRow, HoldsItsRow, Serving, TypeOK, Operation
  <1>4. HasMet(r)'
    <2> SUFFICES ASSUME operation = "consent", NEW c \in Channel, w[c] = user.consent[c]
                 PROVE  c \in met'[r]
      BY <1>1, <1>2 DEF HasMet, Serving
    <2>1. w[c] # NULL
      BY <1>1 DEF TypeOK, Row
    <2>2. c # "favorite"
      BY DEF Channel
    <2>3. c \in Met(r)'
      BY <1>1, <1>2, <2>1, <2>2 DEF Met, Asked, Operation
    <2> QED
      BY <1>2, <2>3 DEF Remember
  <1> QED
    BY <1>1, <1>2, <1>3, <1>4, QuietPreservation DEF InPlace, TypeOK

LEMMA ArrivalInv ==
  ASSUME Inv, Remember, NEW r \in Request, Arrival(r)
  PROVE  Inv'
  <1>1. ASSUME NEW e \in Event, AddFind(r, e)
        PROVE  Inv'
    BY <1>1, FindInv, NoWishTypes DEF AddFind, Operation
  <1>2. ASSUME NEW e \in Event, RemoveFind(r, e)
        PROVE  Inv'
    BY <1>2, FindInv, NoWishTypes DEF RemoveFind, Operation
  <1>3. ASSUME NEW e \in Event, ViewFind(r, e)
        PROVE  Inv'
    BY <1>3, FindInv, NoWishTypes DEF ViewFind, Operation
  <1>4. ASSUME NEW w \in Consents, ConsentFind(r, w)
        PROVE  Inv'
    BY <1>4, FindInv DEF ConsentFind, Consents, Operation
  <1> QED
    BY <1>1, <1>2, <1>3, <1>4, MissingInv DEF Arrival

\* An answer that changes no row.
LEMMA QuietAnswerInv ==
  ASSUME Inv, Remember, NEW r \in Request, pc[r] \in {"loaded", "updated", "committed"},
         NEW label \in {"ok", "error", "aborted"}, Answer(r, label), UNCHANGED rows,
         Release(r) \/ UNCHANGED locks, label = "ok" => op[r] # "view"
  PROVE  Inv'
  <1>1. TypeOK /\ LocalTypes
    BY DEF Inv, Consistent
  <1>2. /\ LocalTypes' /\ pc'[r] = label /\ UNCHANGED <<op, event>>
        /\ \A q \in Request \ {r} : pc'[q] = pc[q] /\ wish'[q] = wish[q] /\ loaded'[q] = loaded[q]
    BY <1>1, AnswerFacts DEF Label
  <1>3. /\ userLock' \in Request \union {NULL} /\ eventLock' \in [Known -> Request \union {NULL}]
        /\ \A q \in Request \ {r} : /\ userLock = q => userLock' = q
                                    /\ \A e \in Known : eventLock[e] = q => eventLock'[e] = q
    BY <1>1, ReleaseFacts DEF TypeOK
  <1>4. \A q \in Request \ {r} : Undisturbed(q)
    BY <1>2, <1>3 DEF Undisturbed
  <1>5. InPlace(r)'
    BY <1>2, AnsweredInPlace
  <1> QED
    BY <1>2, <1>3, <1>4, <1>5, QuietPreservation

LEMMA ConsentUnchangedInv ==
  ASSUME Inv, Remember, NEW r \in Request, ConsentUnchanged(r)
  PROVE  Inv'
  BY QuietAnswerInv DEF ConsentUnchanged

LEMMA AbortInv ==
  ASSUME Inv, Remember, NEW r \in Request, Abort(r)
  PROVE  Inv'
  BY QuietAnswerInv DEF Abort

\* Views are over before an answer is refreshed.
LEMMA RefreshInv ==
  ASSUME Inv, Remember, NEW r \in Request, Refresh(r)
  PROVE  Inv'
  <1>1. PICK label \in {"ok", "error", "aborted"} : Answer(r, label)
    BY DEF Refresh
  <1>2. op[r] # "view"
    BY DEF Refresh, Inv, EachInPlace, InPlace, KnowsItsRow, Serving
  <1> QED
    BY <1>1, <1>2, QuietAnswerInv DEF Refresh

LEMMA UpdateInv ==
  ASSUME Inv, Remember, NEW r \in Request, Update(r)
  PROVE  Inv'
  <1>1. /\ TypeOK /\ LocalTypes /\ InPlace(r) /\ pc[r] = "loaded" /\ op[r] # "view"
        /\ userLock = NULL /\ UNCHANGED <<rows, eventLock, inputs, loaded>>
    BY DEF Inv, Consistent, EachInPlace, Update
  <1>2. PICK label \in {"updated", "committed"} :
           /\ Goto(r, label)
           /\ IF label = "updated" THEN Applies(r) /\ userLock' = r
              ELSE ~Applies(r) /\ userLock' = userLock
    BY DEF Update
  <1>3. LocalTypes' /\ pc'[r] = label /\ \A q \in Request \ {r} : pc'[q] = pc[q]
    BY <1>1, <1>2, GotoFacts DEF Label
  <1>4. \A q \in Request \ {r} : Undisturbed(q)
    BY <1>1, <1>2, <1>3 DEF Undisturbed
  <1>5. met'[r] = met[r] \union Met(r)' /\ Asked(r)' = Asked(r)
    BY <1>1, <1>2, <1>3 DEF Remember, Asked
  <1>6. KnowsItsRow(r)' /\ HoldsItsRow(r)'
    BY <1>1, <1>2, <1>3 DEF InPlace, KnowsItsRow, HoldsItsRow, Serving, Applies
  <1>7. HasMet(r)'
    <2>1. op[r] = "consent" =>
             \A c \in Channel : wish'[r][c] = loaded'[r].consent[c] => c \in met'[r]
      BY <1>1, <1>5 DEF InPlace, HasMet, Serving
    <2>2. ASSUME label = "committed", user # NULL
          PROVE  Asked(r) \subseteq met'[r]
      <3>1. op[r] = "add" /\ event[r] \in Range(user.favorites)
        BY <1>2, <2>2 DEF Applies
      <3>2. Asked(r) = {"favorite"}
        BY <3>1 DEF Asked, Operation
      <3>3. "favorite" \in Met(r)'
        BY <1>1, <1>5, <2>2, <3>1, <3>2 DEF Met
      <3> QED
        BY <1>5, <3>2, <3>3
    <2> QED
      BY <1>1, <1>2, <1>3, <1>5, <2>1, <2>2 DEF HasMet, Serving
  <1>8. userLock' \in Request \union {NULL} /\ eventLock' \in [Known -> Request \union {NULL}]
    BY <1>1, <1>2 DEF TypeOK
  <1>9. pc[r] # "ok" /\ pc'[r] # "ok"
    BY <1>1, <1>3
  <1> QED
    BY <1>1, <1>3, <1>4, <1>6, <1>7, <1>8, <1>9, QuietPreservation DEF InPlace

LEMMA IncrementInv ==
  ASSUME Inv, Remember, NEW r \in Request, Increment(r)
  PROVE  Inv'
  <1>1. /\ TypeOK /\ LocalTypes /\ InPlace(r) /\ pc[r] = "loaded" /\ op[r] = "view"
        /\ event[r] \in Known /\ eventLock[event[r]] = NULL
        /\ eventLock' = [eventLock EXCEPT ![event[r]] = r]
        /\ Goto(r, "updated") /\ UNCHANGED <<rows, userLock, inputs, loaded>>
    BY DEF Inv, Consistent, EachInPlace, Increment, InPlace, KnowsItsRow, Serving
  <1>2. LocalTypes' /\ pc'[r] = "updated" /\ \A q \in Request \ {r} : pc'[q] = pc[q]
    BY <1>1, GotoFacts DEF Label
  <1>3. eventLock' \in [Known -> Request \union {NULL}] /\ eventLock'[event[r]] = r
    BY <1>1 DEF TypeOK
  <1>4. \A q \in Request \ {r} : Undisturbed(q)
    BY <1>1, <1>2 DEF Undisturbed, TypeOK
  <1>5. InPlace(r)'
    BY <1>1, <1>2, <1>3 DEF InPlace, KnowsItsRow, HoldsItsRow, HasMet, Serving
  <1>6. pc[r] # "ok" /\ pc'[r] # "ok" /\ userLock' \in Request \union {NULL}
    BY <1>1, <1>2 DEF TypeOK
  <1> QED
    BY <1>1, <1>2, <1>3, <1>4, <1>5, <1>6, QuietPreservation

LEMMA IncrementCommitInv ==
  ASSUME Inv, Remember, NEW r \in Request, IncrementCommit(r)
  PROVE  Inv'
  <1>1. PICK e \in Known : e = event[r]
    BY DEF Inv, EachInPlace, InPlace, KnowsItsRow, Serving, IncrementCommit
  <1>2. /\ TypeOK /\ LocalTypes /\ EveryViewCounted /\ NoDuplicateFavorites
        /\ pc[r] = "updated" /\ op[r] = "view"
        /\ popularity' = [popularity EXCEPT ![e] = popularity[e] + 1]
        /\ Release(r) /\ Answer(r, "ok") /\ UNCHANGED user
    BY <1>1 DEF Inv, Consistent, IncrementCommit, PlusOne
  <1>3. /\ LocalTypes' /\ pc'[r] = "ok" /\ UNCHANGED <<op, event>>
        /\ \A q \in Request \ {r} : pc'[q] = pc[q] /\ wish'[q] = wish[q] /\ loaded'[q] = loaded[q]
    BY <1>2, AnswerFacts DEF Label
  <1>4. /\ userLock' \in Request \union {NULL} /\ eventLock' \in [Known -> Request \union {NULL}]
        /\ \A q \in Request \ {r} : /\ userLock = q => userLock' = q
                                    /\ \A d \in Known : eventLock[d] = q => eventLock'[d] = q
    BY <1>2, ReleaseFacts
  <1>5. \A q \in Request \ {r} : Undisturbed(q)
    BY <1>2, <1>3, <1>4 DEF Undisturbed
  <1>6. InPlace(r)'
    BY <1>3, AnsweredInPlace
  <1>7. EveryViewCounted'
    <2> SUFFICES ASSUME NEW d \in Known
                 PROVE  popularity'[d] = Cardinality(Views(d)')
      BY DEF EveryViewCounted, Views
    <2>1. popularity[d] = Cardinality(Views(d)) /\ IsFiniteSet(Views(d))
      BY <1>2, FS_Subset DEF EveryViewCounted, Views
    <2>2. CASE d = e
      <3>1. Views(d)' = Views(d) \union {r} /\ r \notin Views(d)
        BY <1>1, <1>2, <1>3, <2>2 DEF Views
      <3>2. popularity'[d] = popularity[d] + 1
        BY <1>2, <2>2 DEF TypeOK
      <3>3. Cardinality(Views(d) \union {r}) = Cardinality(Views(d)) + 1
        BY <2>1, <3>1, FS_AddElement
      <3> QED
        BY <2>1, <3>1, <3>2, <3>3
    <2>3. CASE d # e
      <3>1. Views(d)' = Views(d)
        BY <1>1, <1>2, <1>3, <2>3 DEF Views
      <3> QED
        BY <1>2, <2>1, <2>3, <3>1 DEF TypeOK
    <2> QED
      BY <2>2, <2>3
  <1>8. /\ NoDuplicateFavorites' /\ user' \in Row \union {NULL}
        /\ DOMAIN popularity' = Known /\ popularity' = [d \in Known |-> popularity'[d]]
    BY <1>2 DEF TypeOK, NoDuplicateFavorites
  <1> QED
    BY <1>3, <1>4, <1>5, <1>6, <1>7, <1>8, Preservation

-----------------------------------------------------------------------------
(* The commit of an UPDATE of the user's row.                              *)

LEMMA RowFields ==
  ASSUME NEW row
  PROVE  row \in Row <=> /\ row = [favorites |-> row.favorites, consent |-> row.consent,
                                   updated |-> row.updated]
                         /\ row.favorites \in UNION {[1..n -> Known] : n \in 0..Cardinality(Known)}
                         /\ row.consent \in [Channel -> BOOLEAN]
                         /\ row.updated \in [Channel -> Request \union {First}]
  BY DEF Row

LEMMA TwoFields ==
  ASSUME NEW f, NEW c, NEW u, NEW d, NEW v, NEW row, row = [favorites |-> f, consent |-> c, updated |-> u],
         NEW new, new = [row EXCEPT !.consent = d, !.updated = v]
  PROVE  new = [favorites |-> f, consent |-> d, updated |-> v]
  OBVIOUS

\* What the UPDATE makes of the row.
LEMMA UpdatedRow ==
  ASSUME Inv, NEW r \in Request, UpdateCommit(r)
  PROVE  /\ user \in Row /\ user # NULL /\ user' \in Row /\ IsInjective(user'.favorites)
         /\ op[r] = "add" =>
              /\ Range(user'.favorites) = Range(user.favorites) \union {event[r]}
              /\ Without(user'.favorites, event[r]) = Without(user.favorites, event[r])
              /\ user'.consent = user.consent /\ user'.updated = user.updated
         /\ op[r] = "remove" =>
              /\ Range(user'.favorites) = Range(user.favorites) \ {event[r]}
              /\ Without(user'.favorites, event[r]) = Without(user.favorites, event[r])
              /\ user'.consent = user.consent /\ user'.updated = user.updated
         /\ op[r] = "consent" =>
              /\ user'.favorites = user.favorites
              /\ \A c \in Channel :
                    IF c \in Changes(r) THEN user'.consent[c] = wish[r][c]
                    ELSE user'.consent[c] = user.consent[c] /\ user'.updated[c] = user.updated[c]
         /\ op[r] \in {"add", "remove", "consent"}
  <1>1. /\ TypeOK /\ LocalTypes /\ NoDuplicateFavorites /\ InPlace(r)
        /\ pc[r] = "updated" /\ op[r] # "view"
    BY DEF Inv, Consistent, EachInPlace, UpdateCommit
  <1>2. /\ user # NULL /\ user \in Row /\ IsInjective(user.favorites)
        /\ op[r] \in {"add", "remove", "consent"}
        /\ op[r] = "add" => event[r] \in Known /\ event[r] \notin Range(user.favorites)
    BY <1>1 DEF InPlace, HoldsItsRow, KnowsItsRow, Serving, Applies, TypeOK, NoDuplicateFavorites,
       LocalTypes, Operation
  <1>3. PICK s \in Seq(Known) : s = user.favorites
    BY <1>2, Favorites, RowFields
  <1>4. CASE op[r] = "add"
    <2>1. PICK t : t = Append(s, event[r])
      OBVIOUS
    <2>2. /\ t \in Seq(Known) /\ IsInjective(t) /\ Range(t) = Range(s) \union {event[r]}
          /\ Without(t, event[r]) = Without(s, event[r])
      BY <1>2, <1>3, <1>4, <2>1, AppendFacts
    <2>3. user' = [user EXCEPT !.favorites = t]
      BY <1>3, <1>4, <2>1 DEF UpdateCommit, WithFavorite
    <2>4. user' = [favorites |-> t, consent |-> user.consent, updated |-> user.updated]
      BY <1>2, <2>3, RowFields
    <2>5. user'.favorites = t /\ user'.consent = user.consent /\ user'.updated = user.updated
      BY <2>4
    <2>6. user' \in Row
      BY <1>2, <2>2, <2>4, Favorites DEF Row
    <2> QED
      BY <1>2, <1>3, <1>4, <2>2, <2>5, <2>6
  <1>5. CASE op[r] = "remove"
    <2>1. PICK t : t = Without(s, event[r])
      OBVIOUS
    <2>2. t \in Seq(Known) /\ IsInjective(t) /\ Range(t) = Range(s) \ {event[r]}
      BY <1>2, <1>3, <2>1, WithoutFacts
    <2>a. Without(t, event[r]) = Without(s, event[r])
      BY <2>1, WithoutTwice
    <2>3. user' = [user EXCEPT !.favorites = t]
      BY <1>3, <1>5, <2>1 DEF UpdateCommit, WithoutFavorite
    <2>4. user' = [favorites |-> t, consent |-> user.consent, updated |-> user.updated]
      BY <1>2, <2>3, RowFields
    <2>5. user'.favorites = t /\ user'.consent = user.consent /\ user'.updated = user.updated
      BY <2>4
    <2>6. user' \in Row
      BY <1>2, <2>2, <2>4, Favorites DEF Row
    <2> QED
      BY <1>2, <1>3, <1>5, <2>2, <2>a, <2>5, <2>6
  <1>6. CASE op[r] = "consent"
    <2>1. PICK consent : consent = [c \in Channel |-> IF c \in Changes(r) THEN wish[r][c]
                                                      ELSE user.consent[c]]
      OBVIOUS
    <2>2. PICK updated : updated = [c \in Channel |-> IF c \in Changes(r) THEN r
                                                      ELSE user.updated[c]]
      OBVIOUS
    <2>3. /\ consent \in [Channel -> BOOLEAN] /\ updated \in [Channel -> Request \union {First}]
      <3>1. wish[r] \in Wish
        BY <1>1 DEF LocalTypes
      <3>2. \A c \in Changes(r) : wish[r][c] \in BOOLEAN
        BY <3>1 DEF Changes, Wish
      <3> QED
        BY <1>2, <2>1, <2>2, <3>2, RowFields
    <2>4. user' = [user EXCEPT !.consent = consent, !.updated = updated]
      BY <1>6, <2>1, <2>2 DEF UpdateCommit, WithConsents
    <2>5. user' = [favorites |-> user.favorites, consent |-> consent, updated |-> updated]
      <3>1. user = [favorites |-> user.favorites, consent |-> user.consent, updated |-> user.updated]
        BY <1>2, RowFields
      <3>2. PICK f, c, u : f = user.favorites /\ c = user.consent /\ u = user.updated
        OBVIOUS
      <3>3. user = [favorites |-> f, consent |-> c, updated |-> u]
        BY <3>1, <3>2
      <3>4. user' = [favorites |-> f, consent |-> consent, updated |-> updated]
        BY <2>4, <3>3
      <3> QED
        BY <3>2, <3>4
    <2>6. user'.favorites = user.favorites /\ user'.consent = consent /\ user'.updated = updated
      BY <2>5
    <2>7. user' \in Row
      BY <1>2, <2>3, <2>5, RowFields DEF Row
    <2> QED
      BY <1>2, <1>6, <2>1, <2>2, <2>6, <2>7
  <1> QED
    BY <1>2, <1>4, <1>5, <1>6

LEMMA UpdateCommitInv ==
  ASSUME Inv, Remember, NEW r \in Request, UpdateCommit(r)
  PROVE  Inv'
  <1>1. /\ TypeOK /\ LocalTypes /\ EveryViewCounted /\ InPlace(r) /\ userLock = r
        /\ pc[r] = "updated" /\ op[r] # "view" /\ Release(r) /\ Goto(r, "committed")
        /\ UNCHANGED <<popularity, inputs, loaded>>
    BY DEF Inv, Consistent, EachInPlace, InPlace, HoldsItsRow, UpdateCommit
  <1>2. LocalTypes' /\ pc'[r] = "committed" /\ \A q \in Request \ {r} : pc'[q] = pc[q]
    BY <1>1, GotoFacts DEF Label
  <1>3. /\ userLock' \in Request \union {NULL} /\ eventLock' \in [Known -> Request \union {NULL}]
        /\ \A q \in Request \ {r} : /\ userLock = q => userLock' = q
                                    /\ \A e \in Known : eventLock[e] = q => eventLock'[e] = q
    BY <1>1, ReleaseFacts
  <1>4. user # NULL /\ user' \in Row /\ IsInjective(user'.favorites)
    BY UpdatedRow
  <1>5. \A q \in Request \ {r} : Undisturbed(q)
    BY <1>1, <1>2, <1>3, <1>4 DEF Undisturbed
  <1>6. met'[r] = met[r] \union Met(r)' /\ Asked(r)' = Asked(r)
    BY <1>1, <1>2 DEF Remember, Asked
  <1>7. KnowsItsRow(r)' /\ HoldsItsRow(r)'
    BY <1>1, <1>2 DEF InPlace, KnowsItsRow, HoldsItsRow, Serving
  <1>8. op[r] = "consent" =>
           \A c \in Channel : wish'[r][c] = loaded'[r].consent[c] => c \in met'[r]
    BY <1>1, <1>6 DEF InPlace, HasMet, Serving
  <1>9. Asked(r) \subseteq met'[r]
    <2>1. user' # NULL
      BY <1>4
    <2>2. CASE op[r] = "consent"
      <3> SUFFICES ASSUME NEW c \in Channel, wish[r][c] # NULL
                   PROVE  c \in met'[r]
        BY <2>2 DEF Asked
      <3>1. CASE wish[r][c] = loaded[r].consent[c]
        BY <1>1, <1>8, <2>2, <3>1
      <3>2. CASE wish[r][c] # loaded[r].consent[c]
        <4>1. user'.consent[c] = wish[r][c]
          BY <2>2, <3>2, UpdatedRow DEF Changes
        <4>2. c \in Asked(r) /\ c # "favorite"
          BY <2>2 DEF Asked, Channel, Operation
        <4>3. c \in Met(r)'
          BY <1>1, <1>6, <2>1, <4>1, <4>2 DEF Met
        <4> QED
          BY <1>6, <4>3
      <3> QED
        BY <3>1, <3>2
    <2>3. CASE op[r] \in {"add", "remove"}
      <3>1. Asked(r) = {"favorite"}
        BY <2>3 DEF Asked, Operation
      <3>2. event[r] \in Range(user'.favorites) <=> op[r] = "add"
        <4>1. CASE op[r] = "add"
          BY <4>1, UpdatedRow
        <4>2. CASE op[r] = "remove"
          BY <4>2, UpdatedRow
        <4> QED
          BY <2>3, <4>1, <4>2
      <3>3. "favorite" \in Met(r)'
        BY <1>1, <1>6, <2>1, <3>1, <3>2 DEF Met
      <3> QED
        BY <1>6, <3>1, <3>3
    <2> QED
      BY <2>2, <2>3, UpdatedRow
  <1>10. InPlace(r)'
    BY <1>1, <1>2, <1>6, <1>7, <1>8, <1>9 DEF InPlace, HasMet, Serving
  <1>11. EveryViewCounted'
    <2>1. \A e \in Known : Views(e)' = Views(e)
      BY <1>1, <1>2 DEF Views
    <2> QED
      BY <1>1, <2>1 DEF EveryViewCounted, Views
  <1>12. /\ NoDuplicateFavorites' /\ user' \in Row \union {NULL}
         /\ DOMAIN popularity' = Known /\ popularity' = [e \in Known |-> popularity'[e]]
    BY <1>1, <1>4 DEF NoDuplicateFavorites, TypeOK
  <1> QED
    BY <1>2, <1>3, <1>5, <1>10, <1>11, <1>12, Preservation

LEMMA AccountDeletedInv ==
  ASSUME Inv, Remember, AccountDeleted
  PROVE  Inv'
  <1>1. /\ TypeOK /\ LocalTypes /\ EveryViewCounted /\ userLock = NULL /\ user' = NULL
        /\ UNCHANGED <<popularity, locks, inputs, pc, loaded>>
    BY DEF Inv, Consistent, AccountDeleted
  <1>2. \A q \in Request : Undisturbed(q)
    BY <1>1 DEF Undisturbed
  <1>3. LocalTypes'
    BY <1>1 DEF LocalTypes
  <1>4. EveryViewCounted' /\ NoDuplicateFavorites'
    BY <1>1 DEF EveryViewCounted, NoDuplicateFavorites
  <1>5. /\ user' \in Row \union {NULL}
        /\ DOMAIN popularity' = Known /\ popularity' = [e \in Known |-> popularity'[e]]
        /\ userLock' \in Request \union {NULL} /\ eventLock' \in [Known -> Request \union {NULL}]
    BY <1>1 DEF TypeOK
  <1> QED
    BY <1>2, <1>3, <1>4, <1>5, Preservation

-----------------------------------------------------------------------------
LEMMA InitInv == Init => Inv
  <1> SUFFICES ASSUME Init PROVE Inv
    OBVIOUS
  <1> USE DEF Init
  <1>1. PICK consent \in [Channel -> BOOLEAN] :
          user = [favorites |-> <<>>, consent |-> consent, updated |-> [c \in Channel |-> First]]
    OBVIOUS
  <1>2. <<>> \in Seq(Known) /\ IsInjective(<<>>)
    BY DEF IsInjective
  <1>3. user \in Row /\ user.favorites = <<>>
    <2>1. <<>> \in UNION {[1..n -> Known] : n \in 0..Cardinality(Known)}
      BY <1>2, Favorites
    <2> QED
      BY <1>1, <2>1 DEF Row
  <1>4. \A e \in Known : Views(e) = {}
    BY DEF Views
  <1>5. EveryViewCounted
    BY <1>4, FS_EmptySet DEF EveryViewCounted, Views
  <1>6. popularity \in [Known -> 0..Cardinality(Request)]
    BY FS_CardinalityType
  <1>7. met \in [Request -> SUBSET (Channel \union {"favorite"})]
    OBVIOUS
  <1>8. TypeOK
    BY <1>3, <1>6, <1>7 DEF TypeOK
  <1>9. LocalTypes
    BY NoWishTypes DEF LocalTypes, Label
  <1>10. EachInPlace
    BY DEF EachInPlace, InPlace, KnowsItsRow, HoldsItsRow, HasMet, Serving
  <1> QED
    BY <1>2, <1>3, <1>5, <1>8, <1>9, <1>10 DEF Inv, Consistent, NoDuplicateFavorites

LEMMA StutterInv == Inv /\ UNCHANGED vars => Inv'
  <1> SUFFICES ASSUME Inv, UNCHANGED vars PROVE Inv'
    OBVIOUS
  <1>1. TypeOK' /\ NoDuplicateFavorites'
    BY DEF Inv, Consistent, vars, TypeOK, NoDuplicateFavorites
  <1>2. EveryViewCounted' /\ LocalTypes'
    BY DEF Inv, vars, EveryViewCounted, LocalTypes
  <1>3. EachInPlace'
    BY DEF Inv, vars, EachInPlace, InPlace, KnowsItsRow, HoldsItsRow, HasMet, Serving, Applies,
       Asked
  <1> QED
    BY <1>1, <1>2, <1>3 DEF Inv, Consistent

LEMMA StepInv == Inv /\ [Next]_vars => Inv'
  <1> SUFFICES ASSUME Inv, [Next]_vars PROVE Inv'
    OBVIOUS
  <1>1. CASE UNCHANGED vars
    BY <1>1, StutterInv
  <1>2. CASE Next
    <2>1. Remember
      BY <1>2 DEF Next
    <2>2. ASSUME NEW r \in Request, Arrival(r)
          PROVE  Inv'
      BY <2>1, <2>2, ArrivalInv
    <2>3. ASSUME NEW r \in Request, Abort(r)
          PROVE  Inv'
      BY <2>1, <2>3, AbortInv
    <2>4. ASSUME NEW r \in Request, ConsentUnchanged(r)
          PROVE  Inv'
      BY <2>1, <2>4, ConsentUnchangedInv
    <2>5. ASSUME NEW r \in Request, Update(r)
          PROVE  Inv'
      BY <2>1, <2>5, UpdateInv
    <2>6. ASSUME NEW r \in Request, UpdateCommit(r)
          PROVE  Inv'
      BY <2>1, <2>6, UpdateCommitInv
    <2>7. ASSUME NEW r \in Request, Refresh(r)
          PROVE  Inv'
      BY <2>1, <2>7, RefreshInv
    <2>8. ASSUME NEW r \in Request, Increment(r)
          PROVE  Inv'
      BY <2>1, <2>8, IncrementInv
    <2>9. ASSUME NEW r \in Request, IncrementCommit(r)
          PROVE  Inv'
      BY <2>1, <2>9, IncrementCommitInv
    <2>10. CASE AccountDeleted
      BY <2>1, <2>10, AccountDeletedInv
    <2> QED
      BY <1>2, <2>2, <2>3, <2>4, <2>5, <2>6, <2>7, <2>8, <2>9, <2>10 DEF Next
  <1> QED
    BY <1>1, <1>2

\* The inductive invariant holds in every reachable state.
THEOREM Invariance == Spec => []Inv
  BY InitInv, StepInv, PTL DEF Spec

-----------------------------------------------------------------------------
(* The properties                                                          *)

\* The row and the counters keep their types and no favorite is there twice,
\* whatever requests add, remove and delete in between (users/repository.py,
\* add_favorite: the WHERE clause is looked at again under the row's lock).
THEOREM RowsConsistent == Spec => []Consistent
  <1>1. Inv => Consistent
    BY DEF Inv
  <1> QED
    BY <1>1, Invariance, PTL

\* A popularity counter is the number of views of its event that were answered
\* (events/repository.py, increment_popularity): none is lost to another one
\* and none is counted twice.
THEOREM ViewsCounted == Spec => []EveryViewCounted
  <1>1. Inv => EveryViewCounted
    BY DEF Inv
  <1> QED
    BY <1>1, Invariance, PTL

\* Only the commit of an UPDATE changes the row of an account that stays.
LEMMA RowChanges ==
  ASSUME [Next]_vars, user # NULL, user' # NULL, user' # user
  PROVE  \E r \in Request : UpdateCommit(r)
  BY DEF Next, Arrival, AddFind, RemoveFind, ViewFind, Missing, ConsentFind, Arrive, Abort,
     ConsentUnchanged, Update, Refresh, Increment, IncrementCommit, AccountDeleted, vars

\* Two concurrent requests cannot overwrite each other's favorites: a step
\* changes them in the event of the request that commits and in no other
\* (users/repository.py, add_favorite and remove_favorite: array_append and
\* array_remove are computed by the database).
THEOREM NoFavoriteLost == Spec => FavoritesDoNotOverwrite
  <1>1. Inv /\ [Next]_vars =>
          [user # NULL /\ user' # NULL =>
             \/ user'.favorites = user.favorites
             \/ \E r \in Request :
                   /\ op[r] \in {"add", "remove"} /\ pc'[r] = "committed"
                   /\ Without(user'.favorites, event[r]) = Without(user.favorites, event[r])]_vars
    <2> SUFFICES ASSUME Inv, [Next]_vars, user # NULL, user' # NULL, user' # user
                 PROVE  \/ user'.favorites = user.favorites
                        \/ \E r \in Request :
                              /\ op[r] \in {"add", "remove"} /\ pc'[r] = "committed"
                              /\ Without(user'.favorites, event[r]) = Without(user.favorites, event[r])
      OBVIOUS
    <2>1. PICK r \in Request : UpdateCommit(r)
      BY RowChanges
    <2>2. pc'[r] = "committed"
      BY <2>1 DEF UpdateCommit, Goto, Inv, LocalTypes
    <2> QED
      BY <2>1, <2>2, UpdatedRow
  <1> QED
    BY <1>1, Invariance, PTL DEF Spec, FavoritesDoNotOverwrite

\* The consents to email and to push are independent: one changes, or its time
\* does, only by the commit of a request that supplied that channel
\* (users/repository.py, update_marketing_consents).
THEOREM ConsentsIndependent == Spec => ChannelsIndependent
  <1>1. Inv /\ [Next]_vars =>
          [user # NULL /\ user' # NULL =>
             \A c \in Channel :
                 \/ user'.consent[c] = user.consent[c] /\ user'.updated[c] = user.updated[c]
                 \/ \E r \in Request : /\ pc[r] = "updated" /\ pc'[r] = "committed"
                                       /\ wish[r][c] # NULL /\ user'.consent[c] = wish[r][c]]_vars
    <2> SUFFICES ASSUME Inv, [Next]_vars, user # NULL, user' # NULL, user' # user, NEW c \in Channel
                 PROVE  \/ user'.consent[c] = user.consent[c] /\ user'.updated[c] = user.updated[c]
                        \/ \E r \in Request : /\ pc[r] = "updated" /\ pc'[r] = "committed"
                                              /\ wish[r][c] # NULL /\ user'.consent[c] = wish[r][c]
      OBVIOUS
    <2>1. PICK r \in Request : UpdateCommit(r)
      BY RowChanges
    <2>2. pc[r] = "updated" /\ pc'[r] = "committed"
      BY <2>1 DEF UpdateCommit, Goto, Inv, LocalTypes
    <2>3. c \in Changes(r) => wish[r][c] # NULL
      BY DEF Changes
    <2> QED
      BY <2>1, <2>2, <2>3, UpdatedRow
  <1> QED
    BY <1>1, Invariance, PTL DEF Spec, ChannelsIndependent

\* A request that answers with success has had its effect at some time between
\* its load and its answer (users/repository.py, add_favorite, remove_favorite,
\* update_marketing_consents): also the one that changes nothing.
THEOREM SuccessIsTrue == Spec => AnsweredAsAsked
  <1>1. Inv /\ [Next]_vars =>
          [\A r \in Request :
             pc[r] \in {"loaded", "committed"} /\ pc'[r] = "ok" => Asked(r) \subseteq met[r]]_vars
    <2> SUFFICES ASSUME Inv, Next, NEW r \in Request,
                        pc[r] \in {"loaded", "committed"}, pc'[r] = "ok"
                 PROVE  Asked(r) \subseteq met[r]
      OBVIOUS
    <2>1. LocalTypes /\ InPlace(r)
      BY DEF Inv, EachInPlace
    <2>2. ConsentUnchanged(r) \/ Refresh(r)
      BY <2>1 DEF Next, Arrival, AddFind, RemoveFind, ViewFind, Missing, ConsentFind, Arrive, Abort,
         ConsentUnchanged, Update, UpdateCommit, Refresh, Increment, IncrementCommit,
         AccountDeleted, Answer, Goto, LocalTypes
    <2>3. CASE ConsentUnchanged(r)
      <3>1. pc[r] = "loaded" /\ op[r] = "consent" /\ Changes(r) = {}
        BY <2>3 DEF ConsentUnchanged
      <3>2. \A c \in Channel : wish[r][c] # NULL => wish[r][c] = loaded[r].consent[c]
        BY <3>1 DEF Changes
      <3> QED
        BY <2>1, <3>1, <3>2 DEF InPlace, HasMet, Serving, Asked
    <2>4. CASE Refresh(r)
      <3>1. pc[r] = "committed" /\ user # NULL
        BY <2>1, <2>4 DEF Refresh, Answer, Goto, LocalTypes
      <3> QED
        BY <2>1, <3>1 DEF InPlace, HasMet
    <2> QED
      BY <2>2, <2>3, <2>4
  <1> QED
    BY <1>1, Invariance, PTL DEF Spec, AnsweredAsAsked

=============================================================================
