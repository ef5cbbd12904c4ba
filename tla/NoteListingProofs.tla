------------------------- MODULE NoteListingProofs -------------------------
(***************************************************************************)
(* Proofs about NoteListing, for any number of notes and any page sizes:   *)
(* what a walk over pages by offset can miss, what it can be shown twice,  *)
(* and that it never asks for an offset beyond 32 bits.                    *)
(*                                                                         *)
(* The first part is about ranks in any finite set L that a function p     *)
(* puts in order; the second about the listing and what a write does to it;*)
(* the third about the walk.                                               *)
(***************************************************************************)
EXTENDS NoteListing, FiniteSetTheorems, SequenceTheorems, TLAPS

-----------------------------------------------------------------------------
(* Ranks *)

Before(L, p, n) == {m \in L : p[m] < p[n]}

RankIn(L, p, n) == Cardinality(Before(L, p, n))

Ordered(L, p) ==
  /\ IsFiniteSet(L)
  /\ \A m \in L : p[m] \in Int
  /\ \A m, n \in L : p[m] = p[n] => m = n

LEMMA RankRange ==
  ASSUME NEW L, NEW p, NEW n \in L, Ordered(L, p)
  PROVE  /\ Cardinality(L) \in Nat
         /\ RankIn(L, p, n) \in 0..(Cardinality(L) - 1)
<1>1. IsFiniteSet(L) /\ Cardinality(L) \in Nat
  BY FS_CardinalityType DEF Ordered
<1>2. Before(L, p, n) \subseteq L \ {n}
  BY DEF Before, Ordered
<1>3. IsFiniteSet(L \ {n}) /\ Cardinality(L \ {n}) = Cardinality(L) - 1
  BY <1>1, FS_RemoveElement
<1>4. /\ IsFiniteSet(Before(L, p, n))
      /\ Cardinality(Before(L, p, n)) <= Cardinality(L \ {n})
  BY <1>2, <1>3, FS_Subset
<1>5. Cardinality(Before(L, p, n)) \in Nat
  BY <1>4, FS_CardinalityType
<1>6. QED
  BY <1>1, <1>3, <1>4, <1>5 DEF RankIn

LEMMA RankIncreases ==
  ASSUME NEW L, NEW p, NEW m \in L, NEW n \in L, Ordered(L, p), p[m] < p[n]
  PROVE  RankIn(L, p, m) < RankIn(L, p, n)
<1>1. /\ RankIn(L, p, m) \in Nat /\ RankIn(L, p, n) \in Nat
      /\ p[m] \in Int /\ p[n] \in Int
  BY RankRange DEF Ordered
<1>2. m \notin Before(L, p, m) /\ Before(L, p, m) \cup {m} \subseteq Before(L, p, n)
  BY <1>1 DEF Before, Ordered
<1>3. IsFiniteSet(Before(L, p, m)) /\ IsFiniteSet(Before(L, p, n))
  <2>1. Before(L, p, m) \subseteq L /\ Before(L, p, n) \subseteq L
    BY DEF Before
  <2>2. QED
    BY <2>1, FS_Subset DEF Ordered
<1>4. Cardinality(Before(L, p, m) \cup {m}) = RankIn(L, p, m) + 1
  BY <1>2, <1>3, FS_AddElement DEF RankIn
<1>5. Cardinality(Before(L, p, m) \cup {m}) <= RankIn(L, p, n)
  BY <1>2, <1>3, FS_Subset DEF RankIn
<1>6. QED
  BY <1>1, <1>4, <1>5

LEMMA RankDistinct ==
  ASSUME NEW L, NEW p, NEW m \in L, NEW n \in L, Ordered(L, p),
         RankIn(L, p, m) = RankIn(L, p, n)
  PROVE  m = n
<1>1. p[m] \in Int /\ p[n] \in Int
  BY DEF Ordered
<1>2. ~(p[m] < p[n]) /\ ~(p[n] < p[m])
  <2>1. RankIn(L, p, m) \in Nat /\ RankIn(L, p, n) \in Nat
    BY RankRange
  <2>2. QED
    BY <2>1, RankIncreases
<1>3. p[m] = p[n]
  BY <1>1, <1>2
<1>4. QED
  BY <1>3 DEF Ordered

(* No rank is left out. *)
LEMMA RankOnto ==
  ASSUME NEW L, NEW p, Ordered(L, p), NEW i \in 0..(Cardinality(L) - 1)
  PROVE  \E n \in L : RankIn(L, p, n) = i
<1> DEFINE R == 0..(Cardinality(L) - 1)
           f == [n \in L |-> RankIn(L, p, n)]
<1>1. IsFiniteSet(L) /\ Cardinality(L) \in Nat
  BY FS_CardinalityType DEF Ordered
<1>2. IsFiniteSet(R) /\ Cardinality(R) = Cardinality(L)
  <2>1. 0 \in Int /\ Cardinality(L) - 1 \in Int
    BY <1>1
  <2>2. IsFiniteSet(R)
    BY <2>1, FS_Interval
  <2>3. Cardinality(R) = IF 0 > Cardinality(L) - 1 THEN 0 ELSE (Cardinality(L) - 1) - 0 + 1
    BY <2>1, FS_Interval, Zenon
  <2>4. QED
    BY <1>1, <2>2, <2>3
<1>3. f \in Injection(L, R)
  <2>1. f \in [L -> R]
    BY RankRange
  <2>2. \A m, n \in L : f[m] = f[n] => m = n
    BY RankDistinct
  <2>3. QED
    BY <2>1, <2>2 DEF Injection, IsInjective
<1>4. f \in Surjection(L, R)
  BY <1>1, <1>2, <1>3, FS_Injection
<1>5. PICK n \in L : f[n] = i
  BY <1>4 DEF Surjection
<1>6. QED
  BY <1>5

(* Only the order counts, not the places. *)
LEMMA RankSame ==
  ASSUME NEW L, NEW p, NEW q, NEW n \in L,
         \A m, k \in L : p[m] < p[k] <=> q[m] < q[k]
  PROVE  RankIn(L, p, n) = RankIn(L, q, n)
<1>1. Before(L, p, n) = Before(L, q, n)
  BY DEF Before
<1>2. QED
  BY <1>1 DEF RankIn

(* One more note moves another down by a place at most. *)
LEMMA RankOfMore ==
  ASSUME NEW L, NEW p, NEW x, x \notin L, Ordered(L \cup {x}, p), NEW n \in L
  PROVE  /\ Ordered(L, p)
         /\ RankIn(L \cup {x}, p, n) \in {RankIn(L, p, n), RankIn(L, p, n) + 1}
<1>1. Ordered(L, p)
  <2>1. IsFiniteSet(L)
    BY FS_Subset DEF Ordered
  <2>2. QED
    BY <2>1 DEF Ordered
<1>2. IsFiniteSet(Before(L, p, n))
  <2>1. Before(L, p, n) \subseteq L
    BY DEF Before
  <2>2. QED
    BY <1>1, <2>1, FS_Subset DEF Ordered
<1>3. x \notin Before(L, p, n)
  BY DEF Before
<1>4. \/ Before(L \cup {x}, p, n) = Before(L, p, n)
      \/ Before(L \cup {x}, p, n) = Before(L, p, n) \cup {x}
  BY DEF Before
<1>5. Cardinality(Before(L, p, n) \cup {x}) = RankIn(L, p, n) + 1
  BY <1>2, <1>3, FS_AddElement DEF RankIn
<1>6. QED
  BY <1>1, <1>4, <1>5 DEF RankIn

-----------------------------------------------------------------------------
(* What a change of L by one note does to those below an offset, and to    *)
(* those from it on.                                                       *)

Change(L, p, M, q) ==
  /\ Ordered(L, p) /\ Ordered(M, q)
  /\ \/ M = L
     \/ \E x : x \notin L /\ M = L \cup {x}
     \/ \E x : x \notin M /\ L = M \cup {x}
  /\ \A m, n \in L \cap M : p[m] < p[n] <=> q[m] < q[n]

(* Of S, what has not been seen though its turn has come. *)
Unseen(L, p, S, seen, offset) == {n \in S \ seen : RankIn(L, p, n) < offset}

(* What has been seen, and its turn is to come again. *)
Returning(L, p, seen, offset) == {n \in seen \cap L : RankIn(L, p, n) >= offset}

(* ids is the page of limit notes from offset on. *)
PageOf(L, p, ids, offset, limit) ==
  \A n : n \in ids <=> n \in L /\ RankIn(L, p, n) \in offset..(offset + limit - 1)

LEMMA AtMostOneMore ==
  ASSUME NEW A, NEW B, NEW T, IsFiniteSet(A), B \subseteq A \cup T,
         \A s, t \in T : s = t
  PROVE  /\ IsFiniteSet(B)
         /\ Cardinality(A) \in Nat /\ Cardinality(B) \in Nat
         /\ Cardinality(B) <= Cardinality(A) + 1
<1>1. PICK C : /\ B \subseteq C /\ IsFiniteSet(C) /\ Cardinality(A) \in Nat
               /\ Cardinality(C) <= Cardinality(A) + 1
  <2>1. Cardinality(A) \in Nat
    BY FS_CardinalityType
  <2>2. CASE T = {}
    BY <2>1, <2>2
  <2>3. ASSUME NEW t \in T
        PROVE  B \subseteq A \cup {t}
    BY <2>3
  <2>4. \A t : IsFiniteSet(A \cup {t}) /\ Cardinality(A \cup {t}) <= Cardinality(A) + 1
    BY <2>1, FS_AddElement
  <2>5. QED
    BY <2>1, <2>2, <2>3, <2>4
<1>2. IsFiniteSet(B) /\ Cardinality(B) <= Cardinality(C)
  BY <1>1, FS_Subset
<1>3. Cardinality(B) \in Nat /\ Cardinality(C) \in Nat
  BY <1>1, <1>2, FS_CardinalityType
<1>4. QED
  BY <1>1, <1>2, <1>3

LEMMA SubsetCounts ==
  ASSUME NEW A, NEW B \in SUBSET A, IsFiniteSet(A)
  PROVE  /\ IsFiniteSet(B)
         /\ Cardinality(A) \in Nat /\ Cardinality(B) \in Nat
         /\ Cardinality(B) <= Cardinality(A)
<1>1. IsFiniteSet(B) /\ Cardinality(B) <= Cardinality(A)
  BY FS_Subset
<1>2. QED
  BY <1>1, FS_CardinalityType

(* Ranks before and after. *)
LEMMA RankAfter ==
  ASSUME NEW L, NEW p, NEW M, NEW q, Change(L, p, M, q), NEW n \in L \cap M
  PROVE  /\ RankIn(L, p, n) \in Nat /\ RankIn(M, q, n) \in Nat
         /\ M = L => RankIn(M, q, n) = RankIn(L, p, n)
         /\ \A x : x \notin L /\ M = L \cup {x} =>
              RankIn(M, q, n) \in {RankIn(L, p, n), RankIn(L, p, n) + 1}
         /\ \A x : x \notin M /\ L = M \cup {x} =>
              RankIn(L, p, n) \in {RankIn(M, q, n), RankIn(M, q, n) + 1}
<1>1. RankIn(L, p, n) \in Nat /\ RankIn(M, q, n) \in Nat
  BY RankRange DEF Change
<1>2. CASE M = L
  BY <1>1, <1>2, RankSame DEF Change
<1>3. ASSUME NEW x, x \notin L, M = L \cup {x}
      PROVE  RankIn(M, q, n) \in {RankIn(L, p, n), RankIn(L, p, n) + 1}
  <2>1. RankIn(M, q, n) \in {RankIn(L, q, n), RankIn(L, q, n) + 1}
    BY <1>3, RankOfMore DEF Change
  <2>2. RankIn(L, p, n) = RankIn(L, q, n)
    BY <1>3, RankSame DEF Change
  <2>3. QED
    BY <2>1, <2>2
<1>4. ASSUME NEW x, x \notin M, L = M \cup {x}
      PROVE  RankIn(L, p, n) \in {RankIn(M, q, n), RankIn(M, q, n) + 1}
  <2>1. RankIn(L, p, n) \in {RankIn(M, p, n), RankIn(M, p, n) + 1}
    BY <1>4, RankOfMore DEF Change
  <2>2. RankIn(M, p, n) = RankIn(M, q, n)
    BY <1>4, RankSame DEF Change
  <2>3. QED
    BY <2>1, <2>2
<1>5. \A x : x \notin L /\ M = L \cup {x} =>
        RankIn(M, q, n) \in {RankIn(L, p, n), RankIn(L, p, n) + 1}
  BY <1>3
<1>6. \A x : x \notin M /\ L = M \cup {x} =>
        RankIn(L, p, n) \in {RankIn(M, q, n), RankIn(M, q, n) + 1}
  BY <1>4
<1>7. M = L => RankIn(M, q, n) = RankIn(L, p, n)
  BY <1>2
<1>8. QED
  BY <1>1, <1>5, <1>6, <1>7, Zenon

(* How much changes. *)
LEMMA ChangeCounts ==
  ASSUME NEW L, NEW p, NEW M, NEW q, Change(L, p, M, q)
  PROVE  /\ Cardinality(L \ M) \in Nat /\ Cardinality(M \ L) \in Nat
         /\ M # L => Cardinality(L \ M) + Cardinality(M \ L) = 1
         /\ \A x : x \notin L /\ M = L \cup {x} => Cardinality(M \ L) = 1
         /\ \A x : x \notin M /\ L = M \cup {x} => Cardinality(L \ M) = 1
<1>1. Cardinality({}) = 0 /\ \A x : Cardinality({x}) = 1
  BY FS_EmptySet, FS_Singleton
<1>2. CASE M = L
  <2>1. L \ M = {} /\ M \ L = {}
    BY <1>2
  <2>2. QED
    BY <1>1, <1>2, <2>1
<1>3. ASSUME NEW x, x \notin L, M = L \cup {x}
      PROVE  Cardinality(L \ M) = 0 /\ Cardinality(M \ L) = 1
  <2>1. L \ M = {} /\ M \ L = {x}
    BY <1>3
  <2>2. QED
    BY <1>1, <2>1
<1>4. ASSUME NEW x, x \notin M, L = M \cup {x}
      PROVE  Cardinality(L \ M) = 1 /\ Cardinality(M \ L) = 0
  <2>1. L \ M = {x} /\ M \ L = {}
    BY <1>4
  <2>2. QED
    BY <1>1, <2>1
<1>5. CASE \E x : x \notin L /\ M = L \cup {x}
  <2>1. Cardinality(L \ M) = 0 /\ Cardinality(M \ L) = 1
    BY <1>3, <1>5
  <2>2. QED
    BY <2>1, <1>4
<1>6. CASE \E x : x \notin M /\ L = M \cup {x}
  <2>1. Cardinality(L \ M) = 1 /\ Cardinality(M \ L) = 0
    BY <1>4, <1>6
  <2>2. QED
    BY <2>1, <1>3
<1>7. QED
  BY <1>2, <1>5, <1>6 DEF Change

(* A walk misses at most as many more as leave. *)
LEMMA MissedByLeaving ==
  ASSUME NEW L, NEW p, NEW M, NEW q, Change(L, p, M, q),
         NEW S \in SUBSET L, NEW seen, NEW offset \in Nat
  PROVE  /\ Cardinality(Unseen(L, p, S, seen, offset)) \in Nat
         /\ Cardinality(Unseen(M, q, S \cap M, seen, offset)) \in Nat
         /\ Cardinality(Unseen(M, q, S \cap M, seen, offset))
              <= Cardinality(Unseen(L, p, S, seen, offset)) + Cardinality(L \ M)
<1> DEFINE A == Unseen(L, p, S, seen, offset)
           B == Unseen(M, q, S \cap M, seen, offset)
           T == {n \in L : RankIn(L, p, n) = offset}
<1>1. IsFiniteSet(A)
  <2>1. A \subseteq L
    BY DEF Unseen
  <2>2. QED
    BY <2>1, SubsetCounts DEF Change, Ordered
<1>2. ASSUME NEW n \in B
      PROVE  n \in S \ seen /\ n \in L \cap M /\ RankIn(M, q, n) < offset
  BY <1>2 DEF Unseen
<1>3. CASE \E x : x \notin M /\ L = M \cup {x}
  <2>1. PICK x : x \notin M /\ L = M \cup {x}
    BY <1>3
  <2>2. B \subseteq A \cup T
    <3>1. ASSUME NEW n \in B PROVE n \in A \cup T
      <4>1. /\ RankIn(L, p, n) \in Nat /\ RankIn(M, q, n) \in Nat
            /\ RankIn(L, p, n) \in {RankIn(M, q, n), RankIn(M, q, n) + 1}
        BY <1>2, <2>1, RankAfter
      <4>2. RankIn(L, p, n) < offset \/ RankIn(L, p, n) = offset
        BY <1>2, <4>1
      <4>3. QED
        BY <1>2, <4>2 DEF Unseen
    <3>2. QED
      BY <3>1
  <2>3. \A s, t \in T : s = t
    BY RankDistinct DEF Change
  <2>4. Cardinality(L \ M) = 1
    BY <2>1, ChangeCounts
  <2> HIDE DEF A, B, T
  <2>5. /\ Cardinality(A) \in Nat /\ Cardinality(B) \in Nat
        /\ Cardinality(B) <= Cardinality(A) + 1
    BY <1>1, <2>2, <2>3, AtMostOneMore
  <2>6. QED
    BY <2>4, <2>5 DEF A, B
<1>4. CASE M = L \/ \E x : x \notin L /\ M = L \cup {x}
  <2>1. B \subseteq A
    <3>1. ASSUME NEW n \in B PROVE n \in A
      <4>1. /\ RankIn(L, p, n) \in Nat /\ RankIn(M, q, n) \in Nat
            /\ RankIn(L, p, n) <= RankIn(M, q, n)
        <5>1. /\ RankIn(L, p, n) \in Nat /\ RankIn(M, q, n) \in Nat
              /\ RankIn(M, q, n) \in {RankIn(L, p, n), RankIn(L, p, n) + 1}
          BY <1>2, <1>4, RankAfter
        <5>2. QED
          BY <5>1
      <4>2. RankIn(L, p, n) < offset
        BY <1>2, <4>1
      <4>3. QED
        BY <1>2, <4>2 DEF Unseen
    <3>2. QED
      BY <3>1
  <2> HIDE DEF A, B, T
  <2>2. /\ Cardinality(A) \in Nat /\ Cardinality(B) \in Nat
        /\ Cardinality(B) <= Cardinality(A)
    BY <1>1, <2>1, SubsetCounts
  <2>3. Cardinality(L \ M) \in Nat
    BY ChangeCounts
  <2>4. QED
    BY <2>2, <2>3 DEF A, B
<1>5. QED
  BY <1>3, <1>4 DEF Change

(* It is shown at most as many again as come, if those are new to it. *)
LEMMA RepeatedByComing ==
  ASSUME NEW L, NEW p, NEW M, NEW q, Change(L, p, M, q),
         NEW seen, seen \cap (M \ L) = {}, NEW offset \in Nat
  PROVE  /\ Cardinality(Returning(L, p, seen, offset)) \in Nat
         /\ Cardinality(Returning(M, q, seen, offset)) \in Nat
         /\ Cardinality(Returning(M, q, seen, offset))
              <= Cardinality(Returning(L, p, seen, offset)) + Cardinality(M \ L)
<1> DEFINE A == Returning(L, p, seen, offset)
           B == Returning(M, q, seen, offset)
           T == {n \in L : RankIn(L, p, n) = offset - 1}
<1>1. IsFiniteSet(A)
  <2>1. A \subseteq L
    BY DEF Returning
  <2>2. QED
    BY <2>1, SubsetCounts DEF Change, Ordered
<1>2. ASSUME NEW n \in B
      PROVE  n \in seen /\ n \in L \cap M /\ RankIn(M, q, n) >= offset
  BY <1>2 DEF Returning
<1>3. CASE \E x : x \notin L /\ M = L \cup {x}
  <2>1. PICK x : x \notin L /\ M = L \cup {x}
    BY <1>3
  <2>2. B \subseteq A \cup T
    <3>1. ASSUME NEW n \in B PROVE n \in A \cup T
      <4>1. /\ RankIn(L, p, n) \in Nat /\ RankIn(M, q, n) \in Nat
            /\ RankIn(M, q, n) \in {RankIn(L, p, n), RankIn(L, p, n) + 1}
        BY <1>2, <2>1, RankAfter
      <4>2. RankIn(L, p, n) >= offset \/ RankIn(L, p, n) = offset - 1
        BY <1>2, <4>1
      <4>3. QED
        BY <1>2, <4>2 DEF Returning
    <3>2. QED
      BY <3>1
  <2>3. \A s, t \in T : s = t
    BY RankDistinct DEF Change
  <2>4. Cardinality(M \ L) = 1
    BY <2>1, ChangeCounts
  <2> HIDE DEF A, B, T
  <2>5. /\ Cardinality(A) \in Nat /\ Cardinality(B) \in Nat
        /\ Cardinality(B) <= Cardinality(A) + 1
    BY <1>1, <2>2, <2>3, AtMostOneMore
  <2>6. QED
    BY <2>4, <2>5 DEF A, B
<1>4. CASE M = L \/ \E x : x \notin M /\ L = M \cup {x}
  <2>1. B \subseteq A
    <3>1. ASSUME NEW n \in B PROVE n \in A
      <4>1. /\ RankIn(L, p, n) \in Nat /\ RankIn(M, q, n) \in Nat
            /\ RankIn(L, p, n) >= RankIn(M, q, n)
        BY <1>2, <1>4, RankAfter
      <4>2. RankIn(L, p, n) >= offset
        BY <1>2, <4>1
      <4>3. QED
        BY <1>2, <4>2 DEF Returning
    <3>2. QED
      BY <3>1
  <2> HIDE DEF A, B, T
  <2>2. /\ Cardinality(A) \in Nat /\ Cardinality(B) \in Nat
        /\ Cardinality(B) <= Cardinality(A)
    BY <1>1, <2>1, SubsetCounts
  <2>3. Cardinality(M \ L) \in Nat
    BY ChangeCounts
  <2>4. QED
    BY <2>2, <2>3 DEF A, B
<1>5. QED
  BY <1>3, <1>4 DEF Change

-----------------------------------------------------------------------------
(* The places in a sequence without repetitions, and what an insertion     *)
(* does to them. *)

LEMMA PlacesOf ==
  ASSUME NEW S, NEW s \in Seq(S), IsInjective(s)
  PROVE  /\ \A i \in 1..Len(s) : s[i] \in ToSet(s) /\ AntiFunction(s)[s[i]] = i
         /\ \A n \in ToSet(s) : /\ AntiFunction(s)[n] \in 1..Len(s)
                                /\ s[AntiFunction(s)[n]] = n
<1>1. DOMAIN s = 1..Len(s) /\ Len(s) \in Nat
  BY LenProperties
<1>2. Range(s) = ToSet(s)
  BY DEF Range, ToSet
<1>3. ASSUME NEW n \in ToSet(s)
      PROVE  AntiFunction(s)[n] \in 1..Len(s) /\ s[AntiFunction(s)[n]] = n
  <2>1. AntiFunction(s)[n] = CHOOSE i \in DOMAIN s : n \in Range(s) => s[i] = n
    BY <1>2 DEF AntiFunction, Inverse
  <2>2. \E i \in DOMAIN s : n \in Range(s) => s[i] = n
    BY DEF ToSet
  <2>3. QED
    BY <1>1, <1>2, <2>1, <2>2
<1>4. ASSUME NEW i \in 1..Len(s)
      PROVE  s[i] \in ToSet(s) /\ AntiFunction(s)[s[i]] = i
  <2>1. s[i] \in ToSet(s)
    BY <1>1 DEF ToSet
  <2>2. QED
    BY <1>1, <1>3, <2>1 DEF IsInjective
<1>5. QED
  BY <1>3, <1>4

LEMMA Inserted ==
  ASSUME NEW S, NEW s \in Seq(S), NEW i \in 1..(Len(s) + 1), NEW x \in S
  PROVE  /\ InsertAt(s, i, x) \in Seq(S)
         /\ Len(InsertAt(s, i, x)) = Len(s) + 1
         /\ \A j \in 1..(Len(s) + 1) :
              InsertAt(s, i, x)[j] = IF j < i THEN s[j] ELSE IF j = i THEN x ELSE s[j - 1]
<1> DEFINE a == SubSeq(s, 1, i - 1)
           b == SubSeq(s, i, Len(s))
<1>1. Len(s) \in Nat /\ i \in Int
  BY LenProperties
<1>2. a \in Seq(S) /\ Len(a) = i - 1 /\ \A j \in 1..(i - 1) : a[j] = s[j]
  <2>1. \A j \in 1..(i - 1) : s[j] \in S
    BY <1>1, ElementOfSeq
  <2>2. /\ a \in Seq(S)
        /\ Len(a) = IF 1 <= i - 1 THEN (i - 1) - 1 + 1 ELSE 0
        /\ \A j \in 1..((i - 1) - 1 + 1) : a[j] = s[1 + j - 1]
    BY <1>1, <2>1, SubSeqProperties
  <2> HIDE DEF a
  <2>3. QED
    BY <1>1, <2>2
<1>3. b \in Seq(S) /\ Len(b) = Len(s) - i + 1 /\ \A j \in 1..(Len(s) - i + 1) : b[j] = s[i + j - 1]
  <2>1. \A j \in i..Len(s) : s[j] \in S
    BY <1>1, ElementOfSeq
  <2>2. /\ b \in Seq(S)
        /\ Len(b) = IF i <= Len(s) THEN Len(s) - i + 1 ELSE 0
        /\ \A j \in 1..(Len(s) - i + 1) : b[j] = s[i + j - 1]
    BY <1>1, <2>1, SubSeqProperties
  <2> HIDE DEF b
  <2>3. QED
    BY <1>1, <2>2
<1> HIDE DEF a, b
<1>4. <<x>> \in Seq(S) /\ Len(<<x>>) = 1 /\ <<x>>[1] = x
  OBVIOUS
<1> DEFINE c == a \o <<x>>
<1>5. c \in Seq(S) /\ Len(c) = i /\ \A j \in 1..i : c[j] = IF j < i THEN s[j] ELSE x
  <2>1. /\ c \in Seq(S) /\ Len(c) = Len(a) + 1
        /\ \A j \in 1..(Len(a) + 1) : c[j] = IF j <= Len(a) THEN a[j] ELSE <<x>>[j - Len(a)]
    BY <1>2, <1>4, ConcatProperties
  <2> HIDE DEF c
  <2>2. ASSUME NEW j \in 1..i
        PROVE  c[j] = IF j < i THEN s[j] ELSE x
    <3>1. CASE j < i
      BY <1>1, <1>2, <2>1, <3>1
    <3>2. CASE j = i
      <4>1. j - Len(a) = 1 /\ ~(j <= Len(a)) /\ j \in 1..(Len(a) + 1)
        BY <1>1, <1>2, <3>2
      <4>2. c[j] = <<x>>[j - Len(a)]
        BY <2>1, <4>1
      <4>3. c[j] = x
        BY <1>4, <4>1, <4>2
      <4>4. QED
        BY <3>2, <4>3
    <3>3. QED
      BY <1>1, <3>1, <3>2
  <2>3. QED
    BY <1>1, <1>2, <2>1, <2>2
<1> HIDE DEF c
<1>6. /\ c \o b \in Seq(S) /\ Len(c \o b) = Len(s) + 1
      /\ \A j \in 1..(Len(s) + 1) : (c \o b)[j] = IF j <= i THEN c[j] ELSE b[j - i]
  <2>1. /\ c \o b \in Seq(S)
        /\ Len(c \o b) = Len(c) + Len(b)
        /\ \A j \in 1..(Len(c) + Len(b)) :
             (c \o b)[j] = IF j <= Len(c) THEN c[j] ELSE b[j - Len(c)]
    <3>1. c \in Seq(S) /\ b \in Seq(S)
      BY <1>3, <1>5
    <3> HIDE DEF a, b, c
    <3>2. QED
      BY <3>1, ConcatProperties
  <2>2. i + (Len(s) - i + 1) = Len(s) + 1
    BY <1>1
  <2>3. QED
    BY <1>3, <1>5, <2>1, <2>2
<1>7. InsertAt(s, i, x) = c \o b
  BY DEF InsertAt, a, b, c
<1>8. ASSUME NEW j \in 1..(Len(s) + 1)
      PROVE  (c \o b)[j] = IF j < i THEN s[j] ELSE IF j = i THEN x ELSE s[j - 1]
  <2>1. CASE j <= i
    BY <1>1, <1>5, <1>6, <2>1
  <2>2. CASE j > i
    <3>1. /\ j - i \in 1..(Len(s) - i + 1) /\ i + (j - i) - 1 = j - 1
          /\ ~(j <= i) /\ ~(j < i) /\ j # i
      BY <1>1, <2>2
    <3>2. b[j - i] = s[j - 1]
      BY <1>3, <3>1
    <3>3. (c \o b)[j] = b[j - i]
      BY <1>6, <3>1
    <3>4. QED
      BY <3>1, <3>2, <3>3
  <2>3. j <= i \/ j > i
    BY <1>1
  <2>4. QED
    BY <2>1, <2>2, <2>3, Zenon
<1> DEFINE t == c \o b
<1>9. t = InsertAt(s, i, x) /\ t \in Seq(S) /\ Len(t) = Len(s) + 1
  BY <1>6, <1>7
<1>10. \A j \in 1..(Len(s) + 1) : t[j] = IF j < i THEN s[j] ELSE IF j = i THEN x ELSE s[j - 1]
  BY <1>8
<1> HIDE DEF t
<1>11. QED
  BY <1>9, <1>10

LEMMA InsertionKeepsOrder ==
  ASSUME NEW S, NEW s \in Seq(S), IsInjective(s),
         NEW i \in 1..(Len(s) + 1), NEW x \in S, x \notin ToSet(s)
  PROVE  LET t == InsertAt(s, i, x) IN
         /\ t \in Seq(S) /\ IsInjective(t) /\ ToSet(t) = ToSet(s) \cup {x}
         /\ \A m, n \in ToSet(s) :
              AntiFunction(s)[m] < AntiFunction(s)[n] <=> AntiFunction(t)[m] < AntiFunction(t)[n]
<1> DEFINE t == InsertAt(s, i, x)
<1>1. /\ t \in Seq(S) /\ Len(t) = Len(s) + 1
      /\ \A j \in 1..(Len(s) + 1) : t[j] = IF j < i THEN s[j] ELSE IF j = i THEN x ELSE s[j - 1]
  BY Inserted
<1> HIDE DEF t
<1>2. /\ Len(s) \in Nat /\ i \in Int
      /\ DOMAIN s = 1..Len(s) /\ DOMAIN t = 1..(Len(s) + 1)
  BY <1>1, LenProperties
<1>3. \A j \in 1..Len(s) : s[j] # x
  BY <1>2 DEF ToSet
<1>4. IsInjective(t)
  <2>1. ASSUME NEW j \in DOMAIN t, NEW k \in DOMAIN t, t[j] = t[k]
        PROVE  j = k
    <3> DEFINE f(l) == IF l < i THEN l ELSE l - 1
    <3>1. \A l \in DOMAIN t : l # i => f(l) \in 1..Len(s) /\ t[l] = s[f(l)]
      BY <1>1, <1>2
    <3>2. t[i] = x
      BY <1>1, <1>2
    <3>3. j = i <=> k = i
      BY <1>3, <2>1, <3>1, <3>2
    <3>4. CASE j # i
      <4>1. f(j) = f(k)
        BY <1>2, <2>1, <3>1, <3>3, <3>4 DEF IsInjective
      <4>2. QED
        BY <1>2, <3>3, <3>4, <4>1
    <3>5. QED
      BY <3>3, <3>4
  <2>2. QED
    BY <2>1 DEF IsInjective
<1>5. ToSet(t) = ToSet(s) \cup {x}
  <2>1. \A n \in ToSet(t) : n \in ToSet(s) \cup {x}
    BY <1>1, <1>2 DEF ToSet
  <2>2. x \in ToSet(t)
    BY <1>1, <1>2 DEF ToSet
  <2>3. ASSUME NEW n \in ToSet(s)
        PROVE  n \in ToSet(t)
    <3>1. PICK j \in 1..Len(s) : s[j] = n
      BY <1>2 DEF ToSet
    <3>2. CASE j < i
      BY <1>1, <1>2, <3>1, <3>2 DEF ToSet
    <3>3. CASE j >= i
      <4>1. j + 1 \in 1..(Len(s) + 1) /\ ~(j + 1 < i) /\ j + 1 # i /\ (j + 1) - 1 = j
        BY <1>2, <3>3
      <4>2. t[j + 1] = n
        BY <1>1, <3>1, <4>1
      <4>3. QED
        BY <1>2, <4>1, <4>2 DEF ToSet
    <3>4. QED
      BY <1>2, <3>2, <3>3
  <2>4. QED
    BY <2>1, <2>2, <2>3
<1>6. ASSUME NEW n \in ToSet(s)
      PROVE  /\ AntiFunction(s)[n] \in 1..Len(s)
             /\ AntiFunction(t)[n] = IF AntiFunction(s)[n] < i THEN AntiFunction(s)[n]
                                                              ELSE AntiFunction(s)[n] + 1
  <2> DEFINE j == AntiFunction(s)[n]
  <2>1. j \in 1..Len(s) /\ s[j] = n
    BY PlacesOf
  <2> HIDE DEF j
  <2>2. CASE j < i
    <3>1. j \in 1..Len(t) /\ t[j] = n
      BY <1>1, <1>2, <2>1, <2>2
    <3>2. AntiFunction(t)[n] = j
      BY <1>1, <1>4, <3>1, PlacesOf
    <3>3. QED
      BY <2>1, <2>2, <3>2 DEF j
  <2>3. CASE j >= i
    <3>1. j + 1 \in 1..Len(t) /\ ~(j + 1 < i) /\ j + 1 # i /\ (j + 1) - 1 = j
      BY <1>1, <1>2, <2>1, <2>3
    <3>2. t[j + 1] = n
      BY <1>1, <2>1, <3>1
    <3>3. AntiFunction(t)[n] = j + 1
      BY <1>1, <1>4, <3>1, <3>2, PlacesOf
    <3>4. ~(j < i)
      BY <1>2, <2>1, <2>3
    <3>5. QED
      BY <2>1, <3>3, <3>4 DEF j
  <2>4. QED
    BY <1>2, <2>1, <2>2, <2>3
<1>7. \A m, n \in ToSet(s) :
        AntiFunction(s)[m] < AntiFunction(s)[n] <=> AntiFunction(t)[m] < AntiFunction(t)[n]
  BY <1>2, <1>6
<1>8. QED
  BY <1>1, <1>4, <1>5, <1>7 DEF t

-----------------------------------------------------------------------------
(* The listing and its pages *)

(* The notes listed have an order: their places in the feed. *)
LEMMA ListedOrdered ==
  ASSUME TypeOK, NEW view
  PROVE  /\ Ordered(ListedNotes(view), Place)
         /\ ListedNotes(view) \subseteq Store!Created
         /\ Cardinality(ListedNotes(view)) <= Cardinality(NoteIDs)
         /\ Cardinality(ListedNotes(view)) \in Nat /\ Cardinality(NoteIDs) \in Nat
<1>1. ListedNotes(view) \subseteq Store!Created /\ ListedNotes(view) \in SUBSET NoteIDs
  BY DEF ListedNotes, Listed, Store!Present
<1>2. /\ IsFiniteSet(ListedNotes(view))
      /\ Cardinality(ListedNotes(view)) <= Cardinality(NoteIDs)
      /\ Cardinality(ListedNotes(view)) \in Nat /\ Cardinality(NoteIDs) \in Nat
  BY <1>1, SubsetCounts, ListingAssumption
<1>3. feed \in Seq(NoteIDs) /\ IsInjective(feed) /\ ToSet(feed) = Store!Created
  BY DEF TypeOK
<1>4. \A n \in ListedNotes(view) : Place[n] \in 1..Len(feed) /\ feed[Place[n]] = n
  BY <1>1, <1>3, PlacesOf DEF Place
<1>5. QED
  BY <1>1, <1>2, <1>4 DEF Ordered

LEMMA RankIsRankIn ==
  \A view, n : Rank(view, n) = RankIn(ListedNotes(view), Place, n)
  BY DEF Rank, RankIn, Before

(* Row i of the listing is the note with i - 1 others before it. *)
LEMMA ListingRanks ==
  ASSUME TypeOK, NEW view
  PROVE  /\ Listing(view) \in Seq(ListedNotes(view))
         /\ Len(Listing(view)) = Cardinality(ListedNotes(view))
         /\ \A i \in 1..Cardinality(ListedNotes(view)) :
              Listing(view)[i] \in ListedNotes(view) /\ Rank(view, Listing(view)[i]) = i - 1
         /\ \A n \in ListedNotes(view) :
              /\ Rank(view, n) \in 0..(Cardinality(ListedNotes(view)) - 1)
              /\ Listing(view)[Rank(view, n) + 1] = n
<1> DEFINE L == ListedNotes(view)
           c == Cardinality(L)
           s == Listing(view)
<1>1. Ordered(L, Place) /\ c \in Nat
  BY ListedOrdered
<1>2. s = [i \in 1..c |-> CHOOSE n \in L : Rank(view, n) = i - 1]
  BY DEF Listing
<1>3. \A n : Rank(view, n) = RankIn(L, Place, n)
  BY RankIsRankIn
<1> HIDE DEF L, c, s
<1>4. ASSUME NEW i \in 1..c
      PROVE  s[i] \in L /\ Rank(view, s[i]) = i - 1
  <2>1. i - 1 \in 0..(Cardinality(L) - 1)
    BY <1>1 DEF c
  <2>2. \E n \in L : Rank(view, n) = i - 1
    BY <1>1, <1>3, <2>1, RankOnto
  <2>3. s[i] = CHOOSE n \in L : Rank(view, n) = i - 1
    BY <1>2
  <2>4. QED
    BY <2>2, <2>3
<1>5. s \in [1..c -> L]
  BY <1>2, <1>4
<1>6. s \in Seq(L) /\ Len(s) = c
  BY <1>1, <1>5
<1>7. ASSUME NEW n \in L
      PROVE  Rank(view, n) \in 0..(c - 1) /\ s[Rank(view, n) + 1] = n
  <2>1. Rank(view, n) \in 0..(c - 1)
    BY <1>1, <1>3, RankRange DEF c
  <2>2. Rank(view, n) + 1 \in 1..c /\ (Rank(view, n) + 1) - 1 = Rank(view, n)
    BY <1>1, <2>1
  <2>3. s[Rank(view, n) + 1] \in L /\ Rank(view, s[Rank(view, n) + 1]) = Rank(view, n)
    BY <1>4, <2>2
  <2>4. QED
    BY <1>1, <1>3, <2>1, <2>3, RankDistinct
<1>8. QED
  BY <1>4, <1>6, <1>7 DEF L, c, s

PageAt(page, view, offset, limit) ==
  page = MapNoteRows(Slice(Listing(view), offset, limit))

(* What a page shows, and what its length tells. *)
PageFits(page, view, offset, limit) ==
  /\ page \in Seq(NoteRow)
  /\ Len(page) \in 0..limit
  /\ Len(page) = limit => offset + limit <= Cardinality(ListedNotes(view)) \/ limit = 0
  /\ Len(page) < limit => Cardinality(ListedNotes(view)) < offset + limit
  /\ [i \in DOMAIN page |-> page[i].id] = Slice(Listing(view), offset, limit)
  /\ PageOf(ListedNotes(view), Place, Ids(page), offset, limit)

(* A page holds the notes whose rank is in its range. *)
LEMMA PageHolds ==
  ASSUME TypeOK, NEW view, NEW offset \in Nat, NEW limit \in Nat, NEW page,
         PageAt(page, view, offset, limit)
  PROVE  PageFits(page, view, offset, limit)
<1> DEFINE L == ListedNotes(view)
           c == Cardinality(L)
           s == Listing(view)
           end == IF offset + limit < c THEN offset + limit ELSE c
           slice == Slice(s, offset, limit)
<1>0. page = MapNoteRows(slice)
  BY DEF PageAt
<1>1. /\ s \in Seq(L) /\ Len(s) = c /\ c \in Nat
      /\ \A i \in 1..c : s[i] \in L /\ Rank(view, s[i]) = i - 1
      /\ \A n \in L : Rank(view, n) \in 0..(c - 1) /\ s[Rank(view, n) + 1] = n
  BY ListingRanks, ListedOrdered
<1>2. end \in Nat /\ end <= c /\ end <= offset + limit /\ (end < offset + limit => end = c)
  BY <1>1
<1> HIDE DEF L, c, s
<1>3. slice = SubSeq(s, offset + 1, end)
  BY <1>1 DEF Slice
<1> HIDE DEF end, slice
<1> DEFINE k == IF offset + 1 <= end THEN end - offset ELSE 0
<1>4. /\ slice \in Seq(L) /\ Len(slice) = k /\ k \in Nat
      /\ \A i \in 1..k : slice[i] = s[offset + i]
  <2>1. \A i \in (offset + 1)..end : s[i] \in L
    BY <1>1, <1>2
  <2>2. /\ SubSeq(s, offset + 1, end) \in Seq(L)
        /\ Len(SubSeq(s, offset + 1, end))
             = IF offset + 1 <= end THEN end - (offset + 1) + 1 ELSE 0
        /\ \A i \in 1..(end - (offset + 1) + 1) :
             SubSeq(s, offset + 1, end)[i] = s[(offset + 1) + i - 1]
    BY <1>2, <2>1, SubSeqProperties
  <2>3. end - (offset + 1) + 1 = end - offset
    BY <1>2
  <2>4. \A i \in 1..(end - offset) : (offset + 1) + i - 1 = offset + i
    BY <1>2
  <2>5. QED
    BY <1>2, <1>3, <2>2, <2>3, <2>4
<1>5. k \in 0..limit /\ (k = limit => offset + limit <= c \/ limit = 0)
      /\ (k < limit => c < offset + limit) /\ (k > 0 => offset + k <= c)
  BY <1>1, <1>2
<1> HIDE DEF k
<1>6. DOMAIN slice = 1..k
  BY <1>4, LenProperties
<1>7. page = [i \in 1..k |-> BuildNote(slice[i])]
  BY <1>0, <1>6 DEF MapNoteRows
<1>8. ASSUME NEW i \in 1..k
      PROVE  slice[i] \in L /\ BuildNote(slice[i]) \in NoteRow /\ BuildNote(slice[i]).id = slice[i]
  <2>1. slice[i] \in L
    BY <1>4, ElementOfSeq
  <2>2. slice[i] \in NoteIDs /\ notes[slice[i]] \in Store!Row
    BY <2>1 DEF L, ListedNotes, Listed, Store!Present, Store!Created, TypeOK
  <2>3. BuildNote(slice[i]) \in NoteRow
    BY <2>2 DEF BuildNote, NoteRow, Store!Row
  <2>4. QED
    BY <2>1, <2>3 DEF BuildNote
<1>9. page \in Seq(NoteRow) /\ Len(page) = k /\ DOMAIN page = 1..k
  <2>1. page \in [1..k -> NoteRow]
    BY <1>7, <1>8
  <2>2. QED
    BY <1>4, <2>1
<1>10. \A i \in 1..k : page[i].id = slice[i]
  BY <1>7, <1>8
<1>11. [i \in DOMAIN page |-> page[i].id] = slice
  BY <1>4, <1>6, <1>9, <1>10
<1>12. \A n : n \in Ids(page) <=> n \in L /\ Rank(view, n) \in offset..(offset + limit - 1)
  <2>1. ASSUME NEW n \in Ids(page)
        PROVE  n \in L /\ Rank(view, n) \in offset..(offset + limit - 1)
    <3>1. PICK i \in 1..k : n = page[i].id
      BY <1>9, <2>1 DEF Ids
    <3>2. n = slice[i] /\ slice[i] = s[offset + i]
      BY <1>4, <1>10, <3>1
    <3>3. offset + i \in 1..c /\ (offset + i) - 1 \in offset..(offset + limit - 1)
      <4>1. c \in Nat
        BY <1>1
      <4>2. QED
        BY <1>5, <3>1, <4>1
    <3>4. QED
      BY <1>1, <3>2, <3>3
  <2>2. ASSUME NEW n \in L, Rank(view, n) \in offset..(offset + limit - 1)
        PROVE  n \in Ids(page)
    <3> DEFINE i == Rank(view, n) + 1 - offset
    <3>1. Rank(view, n) \in 0..(c - 1) /\ s[Rank(view, n) + 1] = n
      BY <1>1
    <3> DEFINE r == Rank(view, n)
    <3> HIDE DEF r
    <3>2. i \in 1..k /\ offset + i = r + 1
      <4>1. r \in Nat /\ r <= c - 1 /\ offset <= r /\ r <= offset + limit - 1
        BY <1>1, <2>2, <3>1 DEF r
      <4>2. r + 1 <= end
        BY <1>1, <4>1 DEF end
      <4>3. i = r + 1 - offset
        BY DEF r
      <4> HIDE DEF i
      <4>4. QED
        BY <1>2, <4>1, <4>2, <4>3 DEF k
    <3> HIDE DEF i
    <3>3. slice[i] = n
      BY <1>4, <3>1, <3>2 DEF r
    <3>4. QED
      BY <1>9, <1>10, <3>2, <3>3 DEF Ids
  <2>3. QED
    BY <2>1, <2>2
<1>13. QED
  <2>1. PageOf(L, Place, Ids(page), offset, limit)
    BY <1>12, RankIsRankIn DEF L, PageOf
  <2>2. QED
    BY <1>5, <1>9, <1>11, <2>1 DEF L, c, s, slice, PageFits

-----------------------------------------------------------------------------
(* The inductive invariant *)

(* Rows are held between the two statements only. *)
RowsInBetween == at # "CountNotes" => rows = <<>>

(* A client that is idle has been shown nothing. *)
NothingYet == client = "idle" => shown = {} /\ repeats = 0

StayedIsListed == client = "walking" => stayed \subseteq ListedNotes(req.view)

(* The rows are the page asked for, unless somebody wrote since. *)
RowsAreSnapshot ==
  at = "CountNotes" /\ ~disturbed /\ TrueOffset <= Int32Max =>
    [i \in DOMAIN rows |-> rows[i].id] = Slice(Listing(req.view), TrueOffset, req.size)

(* Where a walk stands that has seen the notes of seen, again of which will*)
(* count as repeated, and reads on from offset: what it has missed so far  *)
(* has been left behind by others that went, what it will see again pushed *)
(* ahead of it by others that came.                                        *)
Standing(offset, seen, again) ==
  /\ seen \subseteq Store!Created /\ again \in Nat
  /\ Cardinality(Unseen(ListedNotes(req.view), Place, stayed, seen, offset)) <= went
  /\ repeats + again + Cardinality(Returning(ListedNotes(req.view), Place, seen, offset)) <= came

PageEnd == req.page * req.size

Complete(page) == Cardinality(stayed \ (shown \cup Ids(page))) <= went

(* ... when it has been given a page that it has not looked at yet. *)
Given(page) ==
  /\ Standing(PageEnd, shown \cup Ids(page), Cardinality(Ids(page) \cap shown))
  /\ Len(page) = req.size => PageEnd <= Cardinality(NoteIDs)
  /\ Len(page) < req.size => Complete(page)

Walking == client = "walking" =>
  /\ TrueOffset <= Cardinality(NoteIDs)
  /\ at = "ListNotes" => Standing(TrueOffset, shown, 0)
  /\ at = "CountNotes" => Given(rows)
  /\ at = "idle" /\ reply.status = "ok" =>
       /\ reply.page = req.page /\ reply.size = req.size
       /\ Given(reply.notes)
       /\ PageEnd >= reply.total => Complete(reply.notes)

IInv ==
  /\ TypeOK
  /\ RowsInBetween /\ NothingYet /\ StayedIsListed /\ RowsAreSnapshot /\ Walking

-----------------------------------------------------------------------------
(* What a write does to the listing *)

LEMMA RowsAreNotes ==
  /\ Store!NoNote \notin Store!Row
  /\ TypeOK => \A n : n \in Store!Created <=> n \in NoteIDs /\ notes[n] \in Store!Row
<1>1. Store!NoNote \notin Store!Row
  BY DEF Store!NoNote, Store!Row
<1>2. QED
  BY <1>1 DEF TypeOK, Store!Created

(* A note that is edited, archived or deleted leaves the listing or stays  *)
(* in it, and no note changes its place. *)
LEMMA TouchedChange ==
  ASSUME TypeOK, NEW n \in Store!Created, feed' = feed,
         notes' \in [NoteIDs -> Store!Row \cup {Store!NoNote}],
         \A m \in NoteIDs : m # n => notes'[m] = notes[m],
         notes'[n] \in Store!Row, notes'[n].user = notes[n].user,
         notes'[n].status = "inbox" => notes[n].status = "inbox",
         notes[n].deleted => notes'[n].deleted,
         NEW view
  PROVE  /\ Store!Created' = Store!Created
         /\ Change(ListedNotes(view), Place, ListedNotes(view)', Place')
<1> DEFINE L == ListedNotes(view)
<1>1. n \in NoteIDs /\ notes'[n] # Store!NoNote
  BY RowsAreNotes
<1>2. Store!Created' = Store!Created
  BY <1>1, RowsAreNotes DEF Store!Created
<1>3. \A m \in NoteIDs : m # n => (m \in L' <=> m \in L)
  BY <1>2 DEF ListedNotes, Listed, Store!Present
<1>4. n \in L' => n \in L
  BY <1>1, <1>2 DEF ListedNotes, Listed, Store!Present
<1>5. L \subseteq NoteIDs /\ L' \subseteq NoteIDs
  BY DEF ListedNotes
<1>6. L' = L \/ (n \notin L' /\ L = L' \cup {n})
  BY <1>1, <1>3, <1>4, <1>5
<1>7. Ordered(L, Place) /\ Place' = Place
  BY ListedOrdered DEF Place
<1>8. Ordered(L', Place)
  <2>1. IsFiniteSet(L')
    BY <1>6, <1>7, FS_Subset DEF Ordered
  <2>2. QED
    BY <1>6, <1>7, <2>1 DEF Ordered
<1>9. QED
  BY <1>2, <1>6, <1>7, <1>8 DEF Change

(* The writes that touch a note. *)
LEMMA TouchingWrites ==
  ASSUME TypeOK, NEW u \in Users, NEW n \in NoteIDs, NEW view,
         \/ \E c \in Contents : UpdateNote(u, n, c)
         \/ ArchiveNote(u, n)
         \/ SoftDeleteNote(u, n)
  PROVE  /\ notes' \in [NoteIDs -> Store!Row \cup {Store!NoNote}]
         /\ feed' = feed /\ Store!Created' = Store!Created
         /\ Change(ListedNotes(view), Place, ListedNotes(view)', Place')
<1>1. n \in Store!Created /\ notes[n] \in Store!Row
      /\ notes \in [NoteIDs -> Store!Row \cup {Store!NoNote}]
  BY RowsAreNotes DEF UpdateNote, ArchiveNote, SoftDeleteNote, Store!Edit, Store!Archive,
     Store!Delete, Store!Present, TypeOK
<1>2. PICK row \in Store!Row :
        /\ notes' = [notes EXCEPT ![n] = row] /\ feed' = feed
        /\ row.user = notes[n].user
        /\ row.status = "inbox" => notes[n].status = "inbox"
        /\ notes[n].deleted => row.deleted
  <2>1. ASSUME NEW c \in Contents, UpdateNote(u, n, c)
        PROVE  \E row \in Store!Row :
                 /\ notes' = [notes EXCEPT ![n] = row] /\ feed' = feed
                 /\ row.user = notes[n].user
                 /\ row.status = "inbox" => notes[n].status = "inbox"
                 /\ notes[n].deleted => row.deleted
    <3> DEFINE row == [notes[n] EXCEPT !.content = c]
    <3>1. notes' = [notes EXCEPT ![n] = row] /\ feed' = feed
      BY <2>1 DEF UpdateNote, Store!Edit
    <3>2. row \in Store!Row /\ row.user = notes[n].user /\ row.status = notes[n].status
          /\ row.deleted = notes[n].deleted
      BY <1>1 DEF Store!Row
    <3> HIDE DEF row
    <3>3. QED
      BY <3>1, <3>2
  <2>2. ASSUME ArchiveNote(u, n)
        PROVE  \E row \in Store!Row :
                 /\ notes' = [notes EXCEPT ![n] = row] /\ feed' = feed
                 /\ row.user = notes[n].user
                 /\ row.status = "inbox" => notes[n].status = "inbox"
                 /\ notes[n].deleted => row.deleted
    <3> DEFINE row == [notes[n] EXCEPT !.status = "archived", !.archived = TRUE]
    <3>1. notes' = [notes EXCEPT ![n] = row] /\ feed' = feed
      BY <2>2 DEF ArchiveNote, Store!Archive
    <3>2. row \in Store!Row /\ row.user = notes[n].user /\ row.status = "archived"
          /\ row.deleted = notes[n].deleted
      BY <1>1 DEF Store!Row
    <3> HIDE DEF row
    <3>3. QED
      BY <3>1, <3>2
  <2>3. ASSUME SoftDeleteNote(u, n)
        PROVE  \E row \in Store!Row :
                 /\ notes' = [notes EXCEPT ![n] = row] /\ feed' = feed
                 /\ row.user = notes[n].user
                 /\ row.status = "inbox" => notes[n].status = "inbox"
                 /\ notes[n].deleted => row.deleted
    <3> DEFINE row == [notes[n] EXCEPT !.deleted = TRUE]
    <3>1. notes' = [notes EXCEPT ![n] = row] /\ feed' = feed
      BY <2>3 DEF SoftDeleteNote, Store!Delete
    <3>2. row \in Store!Row /\ row.user = notes[n].user /\ row.status = notes[n].status
          /\ row.deleted
      BY <1>1 DEF Store!Row
    <3> HIDE DEF row
    <3>3. QED
      BY <3>1, <3>2
  <2>4. QED
    BY <2>1, <2>2, <2>3, Zenon
<1>3. notes' \in [NoteIDs -> Store!Row \cup {Store!NoNote}] /\ notes'[n] = row
  BY <1>1, <1>2
<1>4. \A m \in NoteIDs : m # n => notes'[m] = notes[m]
  BY <1>1, <1>2
<1>5. QED
  BY <1>1, <1>2, <1>3, <1>4, TouchedChange

(* A note that is created comes anywhere in the feed, and may be listed. *)
LEMMA CreatingWrites ==
  ASSUME TypeOK, NEW u \in Users, NEW c \in Contents, CreateNote(u, c), NEW view
  PROVE  /\ notes' \in [NoteIDs -> Store!Row \cup {Store!NoNote}]
         /\ feed' \in Seq(NoteIDs) /\ ToSet(feed') = Store!Created' /\ IsInjective(feed')
         /\ Store!Created \subseteq Store!Created'
         /\ Change(ListedNotes(view), Place, ListedNotes(view)', Place')
         /\ Store!Created \cap (ListedNotes(view)' \ ListedNotes(view)) = {}
<1> DEFINE L == ListedNotes(view)
           n == CHOOSE m \in NoteIDs : m \notin Store!Created
           row == [user |-> u, content |-> c, status |-> "inbox",
                   archived |-> FALSE, deleted |-> FALSE]
<1>1. n \in NoteIDs /\ n \notin Store!Created
  <2>1. \E m \in NoteIDs : m \notin Store!Created
    BY DEF CreateNote, Store!Created
  <2>2. QED
    BY <2>1
<1>2. notes' = [notes EXCEPT ![n] = row]
  BY DEF CreateNote, Store!Create
<1>3. PICK i \in 0..Overtaking : i <= Len(feed) /\ feed' = InsertAt(feed, i + 1, n)
  BY DEF CreateNote
<1>4. row \in Store!Row
  BY DEF Store!Row
<1> HIDE DEF n, row
<1>5. /\ notes \in [NoteIDs -> Store!Row \cup {Store!NoNote}]
      /\ feed \in Seq(NoteIDs) /\ ToSet(feed) = Store!Created /\ IsInjective(feed)
  BY DEF TypeOK
<1>6. /\ notes' \in [NoteIDs -> Store!Row \cup {Store!NoNote}] /\ notes'[n] = row
      /\ \A m \in NoteIDs : m # n => notes'[m] = notes[m]
  BY <1>1, <1>2, <1>4, <1>5
<1>7. Store!Created' = Store!Created \cup {n}
  BY <1>1, <1>4, <1>6, RowsAreNotes DEF Store!Created
<1>8. i + 1 \in 1..(Len(feed) + 1)
  BY <1>3, <1>5, LenProperties, ListingAssumption
<1>9. /\ feed' \in Seq(NoteIDs) /\ IsInjective(feed') /\ ToSet(feed') = ToSet(feed) \cup {n}
      /\ \A m, k \in Store!Created : Place[m] < Place[k] <=> Place'[m] < Place'[k]
  BY <1>1, <1>3, <1>5, <1>8, InsertionKeepsOrder DEF Place
<1>10. ToSet(feed') = Store!Created'
  BY <1>5, <1>7, <1>9
<1>11. \A m \in NoteIDs : m # n => (m \in L' <=> m \in L)
  BY <1>6, <1>7 DEF ListedNotes, Listed, Store!Present
<1>12. L \subseteq Store!Created /\ L' \subseteq Store!Created' /\ L' \subseteq NoteIDs
  BY DEF ListedNotes, Listed, Store!Present
<1>13. L \subseteq NoteIDs /\ n \notin L
  BY <1>1, <1>12 DEF ListedNotes
<1>14. L' = L \/ (n \notin L /\ L' = L \cup {n})
  BY <1>11, <1>12, <1>13
<1>15. Ordered(L, Place)
  BY ListedOrdered
<1>16. Ordered(L', Place')
  <2>1. IsFiniteSet(L')
    BY <1>12, FS_Subset, ListingAssumption
  <2>2. \A m \in L' : Place'[m] \in 1..Len(feed') /\ feed'[Place'[m]] = m
    BY <1>9, <1>10, <1>12, PlacesOf DEF Place
  <2>3. QED
    BY <2>1, <2>2 DEF Ordered
<1>17. Change(L, Place, L', Place')
  BY <1>9, <1>12, <1>14, <1>15, <1>16 DEF Change
<1>18. Store!Created \cap (L' \ L) = {}
  BY <1>1, <1>14
<1>19. QED
  BY <1>6, <1>7, <1>9, <1>10, <1>17, <1>18

-----------------------------------------------------------------------------
(* A write preserves the invariant *)

LEMMA WriteEffect ==
  ASSUME TypeOK, Write, NEW view
  PROVE  /\ notes' \in [NoteIDs -> Store!Row \cup {Store!NoNote}]
         /\ feed' \in Seq(NoteIDs) /\ ToSet(feed') = Store!Created' /\ IsInjective(feed')
         /\ Store!Created \subseteq Store!Created'
         /\ Change(ListedNotes(view), Place, ListedNotes(view)', Place')
         /\ Store!Created \cap (ListedNotes(view)' \ ListedNotes(view)) = {}
<1>1. CASE \E u \in Users, c \in Contents : CreateNote(u, c)
  BY <1>1, CreatingWrites
<1>2. CASE \E u \in Users, n \in NoteIDs :
             \/ \E c \in Contents : UpdateNote(u, n, c)
             \/ ArchiveNote(u, n)
             \/ SoftDeleteNote(u, n)
  <2>1. /\ notes' \in [NoteIDs -> Store!Row \cup {Store!NoNote}]
        /\ feed' = feed /\ Store!Created' = Store!Created
        /\ Change(ListedNotes(view), Place, ListedNotes(view)', Place')
    BY <1>2, TouchingWrites
  <2>2. feed \in Seq(NoteIDs) /\ ToSet(feed) = Store!Created /\ IsInjective(feed)
    BY DEF TypeOK
  <2>3. ListedNotes(view)' \subseteq Store!Created'
    BY DEF ListedNotes, Listed, Store!Present
  <2>4. Store!Created \cap (ListedNotes(view)' \ ListedNotes(view)) = {}
    <3> DEFINE L == ListedNotes(view)
    <3>1. \/ L' = L \/ (\E x : x \notin L' /\ L = L' \cup {x})
          \/ \E x : x \notin L /\ L' = L \cup {x}
      BY <2>1 DEF Change
    <3>2. \A n \in L' : n \in L
      <4>1. PICK u \in Users, n \in NoteIDs : \/ \E c \in Contents : UpdateNote(u, n, c)
                                              \/ ArchiveNote(u, n)
                                              \/ SoftDeleteNote(u, n)
        BY <1>2
      <4>2. QED
        BY <4>1, <2>1, RowsAreNotes DEF UpdateNote, ArchiveNote, SoftDeleteNote, Store!Edit,
           Store!Archive, Store!Delete, ListedNotes, Listed, Store!Present, TypeOK, Store!Row
    <3>3. QED
      BY <3>2
  <2>5. QED
    BY <2>1, <2>2, <2>4
<1>3. QED
  BY <1>1, <1>2 DEF Write

(* What the histories record of it. *)
LEMMA WriteObserved ==
  ASSUME TypeOK, Write
  PROVE  LET L == ListedNotes(req.view) IN
         /\ Cardinality(L' \ L) \in Nat /\ Cardinality(L \ L') \in Nat
         /\ client = "walking" => /\ stayed' = stayed \cap L'
                                  /\ came' = came + Cardinality(L' \ L)
                                  /\ went' = went + Cardinality(L \ L')
         /\ client # "walking" => stayed' = stayed /\ came' = came /\ went' = went
         /\ disturbed' = (disturbed \/ (at = "CountNotes" /\ L # L'))
         /\ at' = at /\ req' = req /\ rows' = rows /\ reply' = reply
         /\ client' = client /\ shown' = shown /\ repeats' = repeats
<1> DEFINE L == ListedNotes(req.view)
<1>1. req' = req
  BY DEF Write, serverVars
<1>2. Change(L, Place, L', Place')
  <2>1. PICK view : view = req.view
    OBVIOUS
  <2>2. L = ListedNotes(view) /\ L' = ListedNotes(view)'
    BY <1>1, <2>1
  <2>3. Change(ListedNotes(view), Place, ListedNotes(view)', Place')
    BY WriteEffect
  <2>4. QED
    BY <2>2, <2>3
<1>3. Cardinality(L' \ L) \in Nat /\ Cardinality(L \ L') \in Nat
  BY <1>2, ChangeCounts
<1>4. QED
  BY <1>1, <1>3 DEF Write, Observe, serverVars, clientVars

LEMMA StandingKept ==
  ASSUME TypeOK, StayedIsListed, client = "walking", Write,
         NEW offset \in Nat, NEW seen, NEW again, Standing(offset, seen, again)
  PROVE  Standing(offset, seen, again)'
<1>1. PICK view : view = req.view
  OBVIOUS
<1> DEFINE L == ListedNotes(view)
<1>2. /\ req' = req /\ repeats' = repeats
      /\ stayed' = stayed \cap L'
      /\ came' = came + Cardinality(L' \ L) /\ went' = went + Cardinality(L \ L')
      /\ Cardinality(L' \ L) \in Nat /\ Cardinality(L \ L') \in Nat
  BY <1>1, WriteObserved
<1>3. /\ Change(L, Place, L', Place') /\ Store!Created \subseteq Store!Created'
      /\ Store!Created \cap (L' \ L) = {}
  BY WriteEffect
<1>4. /\ seen \subseteq Store!Created /\ again \in Nat
      /\ Cardinality(Unseen(L, Place, stayed, seen, offset)) <= went
      /\ repeats + again + Cardinality(Returning(L, Place, seen, offset)) <= came
  BY <1>1 DEF Standing
<1>5. came \in Nat /\ went \in Nat /\ repeats \in Nat
  BY DEF TypeOK
<1>6. stayed \in SUBSET L
  BY <1>1 DEF StayedIsListed
<1>7. /\ Cardinality(Unseen(L, Place, stayed, seen, offset)) \in Nat
      /\ Cardinality(Unseen(L', Place', stayed', seen, offset)) \in Nat
      /\ Cardinality(Unseen(L', Place', stayed', seen, offset))
           <= Cardinality(Unseen(L, Place, stayed, seen, offset)) + Cardinality(L \ L')
  BY <1>2, <1>3, <1>6, MissedByLeaving
<1>8. /\ Cardinality(Returning(L, Place, seen, offset)) \in Nat
      /\ Cardinality(Returning(L', Place', seen, offset)) \in Nat
      /\ Cardinality(Returning(L', Place', seen, offset))
           <= Cardinality(Returning(L, Place, seen, offset)) + Cardinality(L' \ L)
  <2>1. seen \cap (L' \ L) = {}
    BY <1>3, <1>4
  <2>2. QED
    BY <1>3, <2>1, RepeatedByComing
<1>9. Cardinality(Unseen(L', Place', stayed', seen, offset)) <= went'
  BY <1>2, <1>4, <1>5, <1>7
<1>10. repeats' + again + Cardinality(Returning(L', Place', seen, offset)) <= came'
  BY <1>2, <1>4, <1>5, <1>8
<1>11. seen \subseteq Store!Created' /\ req'.view = view
  BY <1>1, <1>2, <1>3, <1>4
<1>12. QED
  BY <1>4, <1>9, <1>10, <1>11 DEF Standing

(* What is complete stays so, and what has been given too. *)
LEMMA GivenKept ==
  ASSUME TypeOK, StayedIsListed, client = "walking", Write, NEW page
  PROVE  /\ Complete(page) => Complete(page)'
         /\ Given(page) => Given(page)'
<1>1. /\ req' = req /\ shown' = shown
      /\ stayed' \subseteq stayed /\ went' >= went /\ went \in Nat /\ went' \in Nat
  BY WriteObserved DEF TypeOK
<1>2. ASSUME Complete(page)
      PROVE  Complete(page)'
  <2> DEFINE seen == shown \cup Ids(page)
  <2>1. Ids(page)' = Ids(page)
    BY DEF Ids
  <2>2. IsFiniteSet(stayed \ seen)
    <3>1. stayed \ seen \in SUBSET NoteIDs
      BY DEF TypeOK, Store!Created
    <3>2. QED
      BY <3>1, FS_Subset, ListingAssumption
  <2>3. stayed' \ seen \in SUBSET (stayed \ seen)
    BY <1>1
  <2> HIDE DEF seen
  <2>4. /\ Cardinality(stayed \ seen) \in Nat /\ Cardinality(stayed' \ seen) \in Nat
        /\ Cardinality(stayed' \ seen) <= Cardinality(stayed \ seen)
    BY <2>2, <2>3, SubsetCounts
  <2>5. Cardinality(stayed \ seen) <= went
    BY <1>2 DEF Complete, seen
  <2>6. Cardinality(stayed' \ seen) <= went'
    BY <1>1, <2>4, <2>5
  <2>7. QED
    BY <1>1, <2>1, <2>6 DEF Complete, seen
<1>3. ASSUME Given(page)
      PROVE  Given(page)'
  <2> DEFINE end == PageEnd
             seen == shown \cup Ids(page)
             again == Cardinality(Ids(page) \cap shown)
  <2>1. Ids(page)' = Ids(page) /\ PageEnd' = PageEnd /\ PageEnd \in Nat
    BY <1>1 DEF Ids, PageEnd, TypeOK, Request
  <2>2. seen' = seen /\ again' = again
    BY <1>1, <2>1
  <2> HIDE DEF end, seen, again
  <2>3. Standing(end, seen, again) /\ end \in Nat
    BY <1>3, <2>1 DEF Given, end, seen, again
  <2>4. Standing(end, seen, again)'
    <3>1. PICK e, s, a : e \in Nat /\ e = end /\ s = seen /\ a = again
      BY <2>3
    <3>2. Standing(e, s, a)'
      BY <2>3, <3>1, StandingKept
    <3>3. end' = e /\ seen' = s /\ again' = a
      BY <2>1, <2>2, <3>1 DEF end
    <3>4. QED
      BY <3>2, <3>3
  <2>5. Len(page) = req.size => PageEnd <= Cardinality(NoteIDs)
    BY <1>3 DEF Given
  <2>6. Len(page) < req.size => Complete(page)'
    BY <1>2, <1>3 DEF Given
  <2>7. QED
    BY <1>1, <2>1, <2>4, <2>5, <2>6 DEF Given, end, seen, again
<1>4. QED
  BY <1>2, <1>3

(* Where the notes listed stay the same, so does the listing. *)
LEMMA ListingSame ==
  ASSUME TypeOK, NEW view, ListedNotes(view)' = ListedNotes(view),
         Change(ListedNotes(view), Place, ListedNotes(view)', Place')
  PROVE  Listing(view)' = Listing(view)
<1> DEFINE L == ListedNotes(view)
<1>1. \A n \in L : Rank(view, n)' = Rank(view, n)
  <2>1. \A n \in L : RankIn(L, Place, n) = RankIn(L, Place', n)
    BY RankSame DEF Change
  <2>2. \A n : Rank(view, n) = RankIn(L, Place, n)
    BY RankIsRankIn
  <2>3. \A n : Rank(view, n)' = RankIn(L', Place', n)
    BY DEF Rank, RankIn, Before
  <2>4. QED
    BY <2>1, <2>2, <2>3
<1>2. ASSUME NEW i \in 1..Cardinality(L)
      PROVE  Listing(view)'[i] = Listing(view)[i]
  <2>1. Listing(view)[i] \in L /\ Rank(view, Listing(view)[i]) = i - 1
    BY ListingRanks
  <2>2. \E n \in L' : Rank(view, n)' = i - 1
    BY <1>1, <2>1
  <2>3. Listing(view)'[i] = CHOOSE n \in L' : Rank(view, n)' = i - 1
    BY DEF Listing
  <2>4. Listing(view)'[i] \in L /\ Rank(view, Listing(view)'[i]) = i - 1
    BY <1>1, <2>2, <2>3
  <2>5. QED
    BY <2>1, <2>4, RankDistinct, RankIsRankIn DEF Change
<1>3. QED
  BY <1>2 DEF Listing

LEMMA SnapshotKept ==
  ASSUME TypeOK, RowsAreSnapshot, Write
  PROVE  RowsAreSnapshot'
<1> SUFFICES ASSUME at' = "CountNotes", ~disturbed', TrueOffset' <= Int32Max
             PROVE  ([i \in DOMAIN rows |-> rows[i].id]
                       = Slice(Listing(req.view), TrueOffset, req.size))'
  BY DEF RowsAreSnapshot
<1>1. PICK view : view = req.view
  OBVIOUS
<1>2. /\ req' = req /\ rows' = rows /\ ~disturbed /\ at = "CountNotes"
      /\ ListedNotes(view)' = ListedNotes(view)
  BY <1>1, WriteObserved
<1>3. Listing(view)' = Listing(view)
  <2>1. Change(ListedNotes(view), Place, ListedNotes(view)', Place')
    BY WriteEffect
  <2>2. QED
    BY <1>2, <2>1, ListingSame
<1>4. TrueOffset' = TrueOffset
  BY <1>2 DEF TrueOffset
<1>5. [i \in DOMAIN rows |-> rows[i].id] = Slice(Listing(view), TrueOffset, req.size)
  BY <1>1, <1>2, <1>4 DEF RowsAreSnapshot
<1>6. Slice(Listing(view), TrueOffset, req.size)'
        = Slice(Listing(view), TrueOffset, req.size)
  BY <1>2, <1>3, <1>4 DEF Slice
<1>7. QED
  BY <1>1, <1>2, <1>3, <1>4, <1>5, <1>6 DEF Slice

LEMMA WriteInv ==
  ASSUME IInv, Write
  PROVE  IInv'
<1> USE DEF IInv
<1>1. /\ at' = at /\ req' = req /\ rows' = rows /\ reply' = reply
      /\ client' = client /\ shown' = shown /\ repeats' = repeats
  BY WriteObserved
<1>2. TypeOK'
  <2>1. stayed' \subseteq Store!Created' /\ shown' \subseteq Store!Created'
        /\ came' \in Nat /\ went' \in Nat /\ disturbed' \in BOOLEAN
    <3>1. Store!Created \subseteq Store!Created'
      BY WriteEffect
    <3>2. /\ stayed \subseteq Store!Created /\ shown \subseteq Store!Created
          /\ came \in Nat /\ went \in Nat /\ disturbed \in BOOLEAN
      BY DEF TypeOK
    <3>3. CASE client = "walking"
      <4>1. stayed' \subseteq stayed /\ came' \in Nat /\ went' \in Nat
        BY <3>2, <3>3, WriteObserved
      <4>2. disturbed' \in BOOLEAN
        BY <3>2, WriteObserved
      <4>3. QED
        BY <1>1, <3>1, <3>2, <4>1, <4>2
    <3>4. CASE client # "walking"
      BY <1>1, <3>1, <3>2, <3>4, WriteObserved
    <3>5. QED
      BY <3>3, <3>4
  <2>2. /\ notes' \in [NoteIDs -> Store!Row \cup {Store!NoNote}]
        /\ feed' \in Seq(NoteIDs) /\ ToSet(feed') = Store!Created' /\ IsInjective(feed')
    BY WriteEffect
  <2>3. at' \in {"idle", "ListNotes", "CountNotes"} /\ client' \in {"idle", "asking", "walking"}
    BY <1>1 DEF TypeOK
  <2>4. req' \in Request /\ reply' \in Answer
    BY <1>1 DEF TypeOK
  <2>5. rows' \in Seq(NoteRow) /\ Len(rows') <= req'.size
    BY <1>1 DEF TypeOK
  <2>6. repeats' \in Nat
    BY <1>1 DEF TypeOK
  <2>7. QED
    BY <2>1, <2>2, <2>3, <2>4, <2>5, <2>6 DEF TypeOK
<1>3. RowsInBetween' /\ NothingYet'
  BY <1>1 DEF RowsInBetween, NothingYet
<1>4. StayedIsListed'
  BY <1>1, WriteObserved DEF StayedIsListed
<1>5. RowsAreSnapshot'
  BY SnapshotKept
<1>6. ASSUME client = "walking"
      PROVE  Walking'
  <2>1. /\ TrueOffset' = TrueOffset /\ PageEnd' = PageEnd
        /\ TrueOffset \in Nat
    BY <1>1 DEF TrueOffset, PageEnd, TypeOK, Request
  <2>2. at = "ListNotes" => Standing(TrueOffset, shown, 0)'
    <3>1. PICK offset, seen : offset \in Nat /\ offset = TrueOffset /\ seen = shown
      BY <2>1
    <3>2. Standing(offset, seen, 0) => Standing(offset, seen, 0)'
      BY <1>6, <3>1, StandingKept
    <3>3. QED
      BY <1>1, <1>6, <2>1, <3>1, <3>2 DEF Walking
  <2>3. at = "CountNotes" => Given(rows)'
    <3>1. PICK page : page = rows
      OBVIOUS
    <3>2. Given(page) => Given(page)'
      BY <1>6, GivenKept
    <3>3. QED
      BY <1>1, <1>6, <3>1, <3>2 DEF Walking
  <2>4. at = "idle" /\ reply.status = "ok" =>
          Given(reply.notes)' /\ (PageEnd >= reply.total => Complete(reply.notes)')
    <3>1. PICK page : page = reply.notes
      OBVIOUS
    <3>2. /\ Given(page) => Given(page)'
          /\ Complete(page) => Complete(page)'
      BY <1>6, GivenKept
    <3>3. QED
      BY <1>1, <1>6, <3>1, <3>2 DEF Walking
  <2>5. QED
    BY <1>1, <1>6, <2>1, <2>2, <2>3, <2>4 DEF Walking
<1>7. Walking'
  BY <1>1, <1>6 DEF Walking
<1>8. QED
  BY <1>2, <1>3, <1>4, <1>5, <1>7

-----------------------------------------------------------------------------
(* The other steps leave the store alone. *)

LEMMA StoreSame ==
  ASSUME TypeOK, UNCHANGED storeVars, NEW view
  PROVE  /\ ListedNotes(view)' = ListedNotes(view) /\ Place' = Place
         /\ Store!Created' = Store!Created /\ Listing(view)' = Listing(view)
<1>1. /\ ListedNotes(view)' = ListedNotes(view) /\ Place' = Place
      /\ Store!Created' = Store!Created
  BY DEF storeVars, ListedNotes, Listed, Store!Present, Store!Created, Place
<1>2. Change(ListedNotes(view), Place, ListedNotes(view)', Place')
  BY <1>1, ListedOrdered DEF Change
<1>3. QED
  BY <1>1, <1>2, ListingSame

(* The parts of TypeOK that are about the store. *)
LEMMA StoreTypes ==
  ASSUME TypeOK, UNCHANGED storeVars
  PROVE  /\ notes' \in [NoteIDs -> Store!Row \cup {Store!NoNote}]
         /\ feed' \in Seq(NoteIDs) /\ ToSet(feed') = Store!Created' /\ IsInjective(feed')
         /\ Store!Created' = Store!Created
  BY DEF TypeOK, storeVars, Store!Created

LEMMA SettledRange ==
  ASSUME NEW page \in Int, NEW size \in Int
  PROVE  LET q == Settled(ParsePagination(page, size)) IN
         /\ q.page \in Nat \ {0} /\ q.size \in 1..MaxPageSize
         /\ page >= 1 => q.page = page
         /\ size \in 1..MaxPageSize => q.size = size
<1>1. /\ ParsePagination(page, size).page \in Nat \ {0}
      /\ ParsePagination(page, size).size \in 1..MaxPageSize
      /\ page >= 1 => ParsePagination(page, size).page = page
      /\ size \in 1..MaxPageSize => ParsePagination(page, size).size = size
  BY ListingAssumption DEF ParsePagination
<1>2. \A q : q.page \in Nat \ {0} /\ q.size \in 1..MaxPageSize =>
        Settled(q).page = q.page /\ Settled(q).size = q.size
  BY DEF Settled, ParsePagination
<1>3. QED
  BY <1>1, <1>2

LEMMA AskTypes ==
  ASSUME NEW view \in Views, NEW page \in Int, NEW size \in Int, Ask(view, page, size)
  PROVE  /\ req' \in Request /\ req'.view = view
         /\ page >= 1 => req'.page = page
         /\ size \in 1..MaxPageSize => req'.size = size
         /\ at = "idle" /\ at' = "ListNotes" /\ reply' = NoReply /\ rows' = rows
         /\ UNCHANGED storeVars
<1> DEFINE q == Settled(ParsePagination(page, size))
<1>1. /\ q.page \in Nat \ {0} /\ q.size \in 1..MaxPageSize
      /\ page >= 1 => q.page = page
      /\ size \in 1..MaxPageSize => q.size = size
  BY SettledRange
<1>2. req' = [view |-> view, page |-> q.page, size |-> q.size]
  BY DEF Ask
<1> HIDE DEF q
<1>3. QED
  BY <1>1, <1>2 DEF Ask, Request

(* An offset that fits in 32 bits is the one meant. *)
LEMMA OffsetInRange ==
  ASSUME TypeOK, TrueOffset <= Int32Max
  PROVE  Offset = TrueOffset /\ TrueOffset \in Nat
<1>1. TrueOffset \in Nat
  <2>1. req.page - 1 \in Nat /\ req.size \in Nat
    BY ListingAssumption DEF TypeOK, Request
  <2>2. \A a, b \in Nat : a * b \in Nat
    OBVIOUS
  <2>3. QED
    BY <2>1, <2>2 DEF TrueOffset
<1>2. \A x, b \in Nat : x < b => x % b = x
  OBVIOUS
<1>3. Int32(TrueOffset) = TrueOffset
  <2>1. /\ TrueOffset + Int32Max + 1 \in Nat /\ 2 * (Int32Max + 1) \in Nat
        /\ TrueOffset + Int32Max + 1 < 2 * (Int32Max + 1)
    BY <1>1, ListingAssumption
  <2>2. (TrueOffset + Int32Max + 1) % (2 * (Int32Max + 1)) = TrueOffset + Int32Max + 1
    BY <1>2, <2>1
  <2>3. Int32(TrueOffset) = (TrueOffset + Int32Max + 1) - (Int32Max + 1)
    BY <2>2 DEF Int32
  <2>4. QED
    BY <1>1, <2>3, ListingAssumption
<1>4. QED
  BY <1>1, <1>3 DEF Offset, TrueOffset

LEMMA InitInv == Init => IInv
<1> SUFFICES ASSUME Init PROVE IInv
  OBVIOUS
<1>1. Store!Created = {}
  BY DEF Init, Store!Init, Store!Created
<1>2. TypeOK
  <2>1. notes \in [NoteIDs -> Store!Row \cup {Store!NoNote}]
    BY DEF Init, Store!Init
  <2>2. feed \in Seq(NoteIDs) /\ ToSet(feed) = Store!Created /\ IsInjective(feed)
    BY <1>1 DEF Init, ToSet, IsInjective
  <2>3. req \in Request /\ rows \in Seq(NoteRow) /\ Len(rows) <= req.size
    BY ListingAssumption DEF Init, NoRequest, Request, Views
  <2>4. QED
    BY <2>1, <2>2, <2>3 DEF Init, TypeOK, Answer
<1>3. QED
  BY <1>2 DEF Init, IInv, RowsInBetween, NothingYet, StayedIsListed, RowsAreSnapshot, Walking

LEMMA AskOnceInv ==
  ASSUME IInv, NEW view \in Views, AskOnce(view)
  PROVE  IInv'
<1>1. PICK page \in Int, size \in Int : Ask(view, page, size)
  BY ListingAssumption DEF AskOnce
<1>2. /\ req' \in Request /\ at = "idle" /\ at' = "ListNotes" /\ reply' = NoReply
      /\ rows' = rows /\ UNCHANGED storeVars /\ client' = "asking"
      /\ UNCHANGED <<shown, repeats, history>>
  BY <1>1, AskTypes DEF AskOnce
<1>3. rows' = <<>>
  BY <1>2 DEF IInv, RowsInBetween
<1>4. TypeOK'
  <2>1. rows' \in Seq(NoteRow) /\ Len(rows') <= req'.size
    BY <1>2, <1>3 DEF Request
  <2>2. reply' \in Answer
    BY <1>2 DEF Answer
  <2>3. QED
    BY <1>2, <2>1, <2>2, StoreTypes DEF IInv, TypeOK, history
<1>5. QED
  BY <1>2, <1>3, <1>4
     DEF IInv, RowsInBetween, NothingYet, StayedIsListed, RowsAreSnapshot, Walking

(* A walk that starts has nothing behind it. *)
LEMMA StartWalkInv ==
  ASSUME IInv, NEW view \in Views, StartWalk(view)
  PROVE  IInv'
<1>1. PICK size \in Int : Ask(view, 1, size)
  BY ListingAssumption DEF StartWalk
<1>2. /\ req' \in Request /\ req'.view = view /\ req'.page = 1
      /\ at = "idle" /\ at' = "ListNotes" /\ reply' = NoReply
      /\ rows' = rows /\ UNCHANGED storeVars
  BY <1>1, AskTypes
<1>3. /\ client = "idle" /\ client' = "walking"
      /\ stayed' = ListedNotes(view) /\ UNCHANGED <<shown, repeats, came, went, disturbed>>
  BY DEF StartWalk
<1>4. rows' = <<>> /\ shown' = {} /\ repeats' = 0
  BY <1>2, <1>3 DEF IInv, RowsInBetween, NothingYet
<1>5. /\ ListedNotes(view)' = ListedNotes(view) /\ Store!Created' = Store!Created
      /\ ListedNotes(view) \subseteq Store!Created /\ Cardinality(NoteIDs) \in Nat
      /\ Ordered(ListedNotes(view), Place) /\ Place' = Place
  BY <1>2, StoreSame, ListedOrdered DEF IInv
<1>6. TypeOK'
  <2>1. rows' \in Seq(NoteRow) /\ Len(rows') <= req'.size
    BY <1>2, <1>4 DEF Request
  <2>2. reply' \in Answer
    BY <1>2 DEF Answer
  <2>3. QED
    BY <1>2, <1>3, <1>4, <1>5, <2>1, <2>2, StoreTypes DEF IInv, TypeOK
<1>7. TrueOffset' = 0
  BY <1>2 DEF TrueOffset, Request
<1>8. Standing(TrueOffset, shown, 0)'
  <2> DEFINE L == ListedNotes(view)
  <2>1. \A n \in L : RankIn(L, Place, n) \in Nat
    BY <1>5, RankRange
  <2>2. Unseen(L, Place, L, {}, 0) = {}
    BY <2>1 DEF Unseen
  <2>3. Returning(L, Place, {}, 0) = {}
    BY DEF Returning
  <2>4. Cardinality({}) = 0 /\ came' \in Nat /\ went' \in Nat
    BY <1>3, FS_EmptySet DEF IInv, TypeOK
  <2>5. ListedNotes(req.view)' = L /\ Place' = Place /\ stayed' = L
    BY <1>2, <1>3, <1>5
  <2> HIDE DEF L
  <2>6. /\ Cardinality(Unseen(ListedNotes(req.view)', Place', stayed', shown', TrueOffset')) = 0
        /\ Cardinality(Returning(ListedNotes(req.view)', Place', shown', TrueOffset')) = 0
    BY <1>4, <1>5, <1>7, <2>2, <2>3, <2>4, <2>5
  <2>7. QED
    BY <1>4, <2>4, <2>6 DEF Standing
<1>9. Walking'
  BY <1>2, <1>5, <1>7, <1>8 DEF Walking
<1>10. StayedIsListed'
  BY <1>2, <1>3, <1>5 DEF StayedIsListed
<1>11. QED
  BY <1>2, <1>3, <1>4, <1>6, <1>9, <1>10
     DEF IInv, RowsInBetween, NothingYet, RowsAreSnapshot

(* The end of a walk, or of a single request, forgets it. *)
LEMMA FinishInv ==
  ASSUME IInv, at = "idle", Finish
  PROVE  IInv'
<1>1. /\ client' = "idle" /\ shown' = {} /\ repeats' = 0 /\ req' = NoRequest /\ reply' = NoReply
      /\ stayed' = {} /\ came' = 0 /\ went' = 0 /\ disturbed' = FALSE
      /\ UNCHANGED storeVars /\ at' = "idle" /\ rows' = <<>>
  BY DEF Finish, IInv, RowsInBetween
<1>2. TypeOK'
  <2>1. req' \in Request /\ Len(rows') <= req'.size /\ rows' \in Seq(NoteRow)
    BY <1>1, ListingAssumption DEF NoRequest, Request, Views
  <2>2. reply' \in Answer
    BY <1>1 DEF Answer
  <2>3. QED
    BY <1>1, <2>1, <2>2, StoreTypes DEF IInv, TypeOK
<1>3. QED
  BY <1>1, <1>2 DEF IInv, RowsInBetween, NothingYet, StayedIsListed, RowsAreSnapshot, Walking

(* A request that fails ends without a page. *)
LEMMA FailedInv ==
  ASSUME IInv, Reply([status |-> "internal"]), UNCHANGED <<storeVars, clientVars>>,
         UNCHANGED <<stayed, came, went>>, disturbed' \in BOOLEAN
  PROVE  IInv'
<1>1. /\ at' = "idle" /\ rows' = <<>> /\ reply' = [status |-> "internal"] /\ req' = req
      /\ client' = client /\ shown' = shown /\ repeats' = repeats
      /\ stayed' = stayed /\ came' = came /\ went' = went
  BY DEF Reply, clientVars
<1>2. TypeOK'
  <2>1. Len(rows') <= req'.size /\ rows' \in Seq(NoteRow)
    BY <1>1 DEF IInv, TypeOK, Request
  <2>2. reply' \in Answer
    BY <1>1 DEF Answer
  <2>3. QED
    BY <1>1, <2>1, <2>2, StoreTypes DEF IInv, TypeOK
<1>3. StayedIsListed'
  <2>1. PICK view : view = req.view
    OBVIOUS
  <2>2. ListedNotes(view)' = ListedNotes(view)
    BY StoreSame DEF IInv
  <2>3. QED
    BY <1>1, <2>1, <2>2 DEF IInv, StayedIsListed
<1>4. TrueOffset' = TrueOffset
  BY <1>1 DEF TrueOffset
<1>5. QED
  BY <1>1, <1>2, <1>3, <1>4 DEF IInv, RowsInBetween, NothingYet, RowsAreSnapshot, Walking

-----------------------------------------------------------------------------
(* Reading a page *)

PageCounts(L, p, S, seen, offset, limit, ids) ==
  /\ Cardinality(ids \cap seen) \in Nat
  /\ Cardinality(Unseen(L, p, S, seen \cup ids, offset + limit)) \in Nat
  /\ Cardinality(Unseen(L, p, S, seen, offset)) \in Nat
  /\ Cardinality(Unseen(L, p, S, seen \cup ids, offset + limit))
       <= Cardinality(Unseen(L, p, S, seen, offset))
  /\ Cardinality(Returning(L, p, seen \cup ids, offset + limit)) \in Nat
  /\ Cardinality(ids \cap seen)
       + Cardinality(Returning(L, p, seen \cup ids, offset + limit))
       = Cardinality(Returning(L, p, seen, offset))

(* What a page gives is no longer to come, nor to come again: the notes of *)
(* it that had been seen are the ones that were. *)
LEMMA PageTurns ==
  ASSUME NEW L, NEW p, Ordered(L, p), NEW S, S \subseteq L, NEW seen,
         NEW offset \in Nat, NEW limit \in Nat, NEW ids,
         PageOf(L, p, ids, offset, limit)
  PROVE  PageCounts(L, p, S, seen, offset, limit, ids)
<1> DEFINE A == Unseen(L, p, S, seen, offset)
           B == Unseen(L, p, S, seen \cup ids, offset + limit)
           C == Returning(L, p, seen, offset)
           D == Returning(L, p, seen \cup ids, offset + limit)
<1>1. \A n \in L : RankIn(L, p, n) \in Nat
  BY RankRange
<1>2. IsFiniteSet(L)
  BY DEF Ordered
<1>3. B \in SUBSET A
  BY <1>1 DEF Unseen, PageOf
<1>4. A \in SUBSET L /\ C \in SUBSET L
  BY DEF Unseen, Returning
<1>5. C = (ids \cap seen) \cup D /\ (ids \cap seen) \cap D = {}
  BY <1>1 DEF Returning, PageOf
<1> HIDE DEF A, B, C, D
<1>6. IsFiniteSet(A) /\ IsFiniteSet(C)
  BY <1>2, <1>4, FS_Subset
<1>7. /\ Cardinality(A) \in Nat /\ Cardinality(B) \in Nat
      /\ Cardinality(B) <= Cardinality(A)
  BY <1>3, <1>6, SubsetCounts
<1>8. IsFiniteSet(ids \cap seen) /\ IsFiniteSet(D)
  BY <1>5, <1>6, FS_Subset
<1>9. Cardinality(ids \cap seen) \in Nat /\ Cardinality(D) \in Nat
  BY <1>8, FS_CardinalityType
<1>10. Cardinality((ids \cap seen) \cup D)
         = Cardinality(ids \cap seen) + Cardinality(D) - Cardinality((ids \cap seen) \cap D)
  BY <1>8, FS_Union
<1>11. Cardinality(C) = Cardinality(ids \cap seen) + Cardinality(D)
  <2>1. Cardinality((ids \cap seen) \cap D) = 0
    BY <1>5, FS_EmptySet
  <2>2. Cardinality((ids \cap seen) \cup D) = Cardinality(ids \cap seen) + Cardinality(D)
    BY <1>9, <1>10, <2>1
  <2>3. QED
    BY <1>5, <2>2
<1>12. QED
  BY <1>7, <1>9, <1>11 DEF A, B, C, D, PageCounts

(* Beyond the last rank nothing is unseen but what is missed. *)
LEMMA AllBelow ==
  ASSUME NEW L, NEW p, Ordered(L, p), NEW S \in SUBSET L, NEW seen,
         NEW offset \in Nat, Cardinality(L) <= offset
  PROVE  S \ seen = Unseen(L, p, S, seen, offset)
<1>1. \A n \in L : RankIn(L, p, n) \in Nat /\ RankIn(L, p, n) < offset
  BY RankRange
<1>2. QED
  BY <1>1 DEF Unseen

LEMMA FetchedInv ==
  ASSUME IInv, NEW view \in Views, Fetch(view), at' = "CountNotes"
  PROVE  IInv'
<1> DEFINE L == ListedNotes(view)
           ids == Ids(rows')
<1>1. /\ at = "ListNotes" /\ req.view = view /\ Offset >= 0
      /\ rows' = MapNoteRows(Slice(Listing(view), Offset, req.size))
      /\ req' = req /\ reply' = reply /\ disturbed' = FALSE
      /\ UNCHANGED storeVars /\ client' = client /\ shown' = shown /\ repeats' = repeats
      /\ stayed' = stayed /\ came' = came /\ went' = went
  BY DEF Fetch, Reply, clientVars
<1>2. TypeOK /\ req.page \in Nat \ {0} /\ req.size \in Nat \ {0} /\ Offset \in Nat
  <2>1. TypeOK /\ req.page \in Nat \ {0} /\ req.size \in Nat \ {0}
    BY ListingAssumption DEF IInv, TypeOK, Request
  <2>2. Int32Max \in Nat
    BY ListingAssumption
  <2>3. \A x \in Int, b \in Nat \ {0} : x % b \in Int
    OBVIOUS
  <2>4. \A x \in Int : Int32(x) \in Int
    BY <2>2, <2>3 DEF Int32
  <2>5. (req.page - 1) * req.size \in Int
    BY <2>1
  <2>6. Offset \in Int
    BY <2>4, <2>5 DEF Offset
  <2>7. QED
    BY <1>1, <2>1, <2>6
<1>3. /\ rows' \in Seq(NoteRow) /\ Len(rows') \in 0..req.size
      /\ Len(rows') = req.size => Offset + req.size <= Cardinality(L)
      /\ Len(rows') < req.size => Cardinality(L) < Offset + req.size
      /\ [i \in DOMAIN rows' |-> rows'[i].id] = Slice(Listing(view), Offset, req.size)
      /\ PageOf(L, Place, ids, Offset, req.size)
  <2> DEFINE page == MapNoteRows(Slice(Listing(view), Offset, req.size))
  <2>1. Offset \in Nat /\ req.size \in Nat /\ req.size # 0
    BY <1>2
  <2>2. /\ page \in Seq(NoteRow)
        /\ Len(page) \in 0..req.size
        /\ Len(page) = req.size => Offset + req.size <= Cardinality(L) \/ req.size = 0
        /\ Len(page) < req.size => Cardinality(L) < Offset + req.size
        /\ [i \in DOMAIN page |-> page[i].id] = Slice(Listing(view), Offset, req.size)
        /\ PageOf(L, Place, Ids(page), Offset, req.size)
    <3>1. PICK o \in Nat, l \in Nat : o = Offset /\ l = req.size
      BY <2>1
    <3>2. PageAt(page, view, o, l)
      BY <3>1 DEF PageAt
    <3> HIDE DEF page
    <3>3. PageFits(page, view, o, l)
      BY <1>2, <3>2, PageHolds
    <3>4. QED
      BY <3>1, <3>3 DEF PageFits
  <2>3. rows' = page
    BY <1>1
  <2> HIDE DEF page
  <2>4. QED
    BY <2>1, <2>2, <2>3
<1>4. /\ L' = L /\ Place' = Place /\ Store!Created' = Store!Created
      /\ Listing(view)' = Listing(view)
  BY <1>1, <1>2, StoreSame
<1>5. TypeOK'
  <2>1. rows' \in Seq(NoteRow) /\ Len(rows') <= req'.size
    BY <1>1, <1>2, <1>3
  <2>2. QED
    BY <1>1, <1>4, <2>1, StoreTypes DEF IInv, TypeOK
<1>6. TrueOffset' = TrueOffset
  BY <1>1 DEF TrueOffset
<1>7. RowsAreSnapshot'
  <2>1. TrueOffset <= Int32Max => Offset = TrueOffset
    BY <1>2, OffsetInRange
  <2>2. Slice(Listing(req.view), TrueOffset, req.size)'
          = Slice(Listing(view), TrueOffset, req.size)
    BY <1>1, <1>4, <1>6 DEF Slice
  <2>3. QED
    BY <1>3, <1>6, <2>1, <2>2 DEF RowsAreSnapshot
<1>8. StayedIsListed'
  BY <1>1, <1>4 DEF IInv, StayedIsListed
<1>9. ASSUME client = "walking"
      PROVE  /\ TrueOffset <= Cardinality(NoteIDs)
             /\ Given(rows)'
  <2> DEFINE o == TrueOffset
             again == Cardinality(ids \cap shown)
  <2>1. /\ TrueOffset <= Cardinality(NoteIDs) /\ Standing(o, shown, 0)
        /\ stayed \in SUBSET L
    BY <1>1, <1>9 DEF IInv, Walking, StayedIsListed
  <2>2. /\ Ordered(L, Place) /\ L \subseteq Store!Created
        /\ Cardinality(L) <= Cardinality(NoteIDs)
        /\ Cardinality(L) \in Nat /\ Cardinality(NoteIDs) \in Nat
    BY <1>2, ListedOrdered
  <2>3. Offset = o /\ o \in Nat
    <3>1. (req.page - 1) * req.size \in Int
      BY <1>2
    <3>2. TrueOffset <= Int32Max
      BY <2>1, <2>2, <3>1, ListingAssumption DEF TrueOffset
    <3>3. QED
      BY <1>2, <3>2, OffsetInRange
  <2>4. PageEnd' = o + req.size
    <3>1. \A a, b \in Int : (a - 1) * b + b = a * b
      OBVIOUS
    <3>2. QED
      BY <1>1, <1>2, <3>1 DEF PageEnd, TrueOffset
  <2>5. PageOf(L, Place, ids, o, req.size)
    BY <1>3, <2>3
  <2> HIDE DEF o, L, ids, again
  <2>6. req.size \in Nat
    BY <1>2
  <2>7. /\ again \in Nat
        /\ Cardinality(Unseen(L, Place, stayed, shown \cup ids, o + req.size)) \in Nat
        /\ Cardinality(Unseen(L, Place, stayed, shown, o)) \in Nat
        /\ Cardinality(Unseen(L, Place, stayed, shown \cup ids, o + req.size))
             <= Cardinality(Unseen(L, Place, stayed, shown, o))
        /\ Cardinality(Returning(L, Place, shown \cup ids, o + req.size)) \in Nat
        /\ again + Cardinality(Returning(L, Place, shown \cup ids, o + req.size))
             = Cardinality(Returning(L, Place, shown, o))
    <3>1. PICK limit \in Nat : limit = req.size
      BY <2>6
    <3>2. /\ Ordered(L, Place) /\ stayed \subseteq L /\ o \in Nat
          /\ PageOf(L, Place, ids, o, limit)
      BY <2>1, <2>2, <2>3, <2>5, <3>1
    <3>3. PageCounts(L, Place, stayed, shown, o, limit, ids)
      BY <3>2, PageTurns
    <3>4. QED
      BY <3>1, <3>3 DEF again, PageCounts
  <2>8. /\ shown \subseteq Store!Created
        /\ Cardinality(Unseen(L, Place, stayed, shown, o)) <= went
        /\ repeats + 0 + Cardinality(Returning(L, Place, shown, o)) <= came
        /\ went \in Nat /\ came \in Nat /\ repeats \in Nat
    BY <1>1, <1>2, <2>1 DEF Standing, TypeOK, L
  <2>9. /\ Cardinality(Unseen(L, Place, stayed, shown \cup ids, o + req.size)) <= went
        /\ repeats + again + Cardinality(Returning(L, Place, shown \cup ids, o + req.size)) <= came
    BY <2>7, <2>8
  <2>10. Ids(rows)' = ids
    BY DEF Ids, ids
  <2>11. ids \subseteq Store!Created
    BY <2>2, <2>5 DEF PageOf
  <2>12. ListedNotes(req.view)' = L
    BY <1>1, <1>4 DEF L
  <2>13. Standing(PageEnd, shown \cup Ids(rows), Cardinality(Ids(rows) \cap shown))'
    <3>1. /\ (shown \cup Ids(rows))' = shown \cup ids
          /\ Cardinality(Ids(rows) \cap shown)' = again
      BY <1>1, <2>10 DEF again
    <3>2. Unseen(ListedNotes(req.view), Place, stayed, shown \cup Ids(rows), PageEnd)'
            = Unseen(L, Place, stayed, shown \cup ids, o + req.size)
      BY <1>1, <1>4, <2>4, <2>12, <3>1 DEF Unseen
    <3>3. Returning(ListedNotes(req.view), Place, shown \cup Ids(rows), PageEnd)'
            = Returning(L, Place, shown \cup ids, o + req.size)
      BY <1>1, <1>4, <2>4, <2>12, <3>1 DEF Returning
    <3>4. shown \cup ids \subseteq Store!Created'
      BY <1>4, <2>8, <2>11
    <3>5. QED
      BY <1>1, <2>7, <2>9, <3>1, <3>2, <3>3, <3>4 DEF Standing
  <2>14. Len(rows') = req'.size => PageEnd' <= Cardinality(NoteIDs)
    BY <1>1, <1>2, <1>3, <2>2, <2>3, <2>4 DEF L
  <2>15. ASSUME Len(rows') < req'.size
         PROVE  Complete(rows)'
    <3>1. Cardinality(L) <= o + req.size /\ o + req.size \in Nat
      BY <1>1, <1>2, <1>3, <2>2, <2>3, <2>15 DEF L
    <3>2. stayed \ (shown \cup ids)
            = Unseen(L, Place, stayed, shown \cup ids, o + req.size)
      BY <2>1, <2>2, <3>1, AllBelow
    <3>3. Cardinality(stayed \ (shown \cup ids)) <= went
      BY <2>9, <3>2
    <3>4. QED
      BY <1>1, <2>10, <3>3 DEF Complete
  <2>16. QED
    BY <2>1, <2>13, <2>14, <2>15 DEF Given
<1>10. Walking'
  BY <1>1, <1>6, <1>9 DEF Walking
<1>11. QED
  BY <1>1, <1>5, <1>7, <1>8, <1>10 DEF IInv, RowsInBetween, NothingYet

LEMMA FetchInv ==
  ASSUME IInv, NEW view \in Views, Fetch(view)
  PROVE  IInv'
<1>1. CASE at' = "CountNotes"
  BY <1>1, FetchedInv
<1>2. CASE at' # "CountNotes"
  BY <1>2, FailedInv DEF Fetch
<1>3. QED
  BY <1>1, <1>2

(* A walk stands where it stood while the store is left alone, also when   *)
(* it counts what it was shown again.                                      *)
LEMMA StandingSame ==
  ASSUME TypeOK, UNCHANGED storeVars, req'.view = req.view,
         stayed' = stayed, came' = came, went' = went,
         NEW offset, NEW seen, NEW again, Standing(offset, seen, again),
         NEW still \in Nat, repeats' + still = repeats + again
  PROVE  Standing(offset, seen, still)'
<1>1. PICK view : view = req.view
  OBVIOUS
<1>2. /\ ListedNotes(view)' = ListedNotes(view) /\ Place' = Place
      /\ Store!Created' = Store!Created
  BY StoreSame
<1>3. /\ Unseen(ListedNotes(view)', Place', stayed', seen, offset)
           = Unseen(ListedNotes(view), Place, stayed, seen, offset)
      /\ Returning(ListedNotes(view)', Place', seen, offset)
           = Returning(ListedNotes(view), Place, seen, offset)
  BY <1>2
<1>4. QED
  BY <1>1, <1>2, <1>3 DEF Standing

LEMMA CountInv ==
  ASSUME IInv, NEW view \in Views, Count(view)
  PROVE  IInv'
<1>1. /\ at = "CountNotes" /\ req.view = view /\ at' = "idle" /\ rows' = <<>>
      /\ reply' = [status |-> "ok", notes |-> rows, total |-> Len(Listing(view)),
                   page |-> req.page, size |-> req.size]
      /\ req' = req /\ UNCHANGED storeVars
      /\ client' = client /\ shown' = shown /\ repeats' = repeats
      /\ stayed' = stayed /\ came' = came /\ went' = went /\ disturbed' = disturbed
  BY DEF Count, Reply, clientVars, history
<1>2. TypeOK
  BY DEF IInv
<1>3. /\ Ordered(ListedNotes(view), Place) /\ Cardinality(ListedNotes(view)) \in Nat
      /\ Len(Listing(view)) = Cardinality(ListedNotes(view))
  BY <1>2, ListedOrdered, ListingRanks
<1>4. TypeOK'
  <2>1. reply' \in Answer
    <3>1. /\ rows \in Seq(NoteRow) /\ req.page \in Nat \ {0} /\ req.size \in 1..MaxPageSize
          /\ Len(Listing(view)) \in Nat
      BY <1>2, <1>3 DEF TypeOK, Request
    <3>2. QED
      BY <1>1, <3>1 DEF Answer
  <2>2. Len(rows') <= req'.size /\ rows' \in Seq(NoteRow)
    BY <1>1, <1>2 DEF TypeOK, Request
  <2>3. QED
    BY <1>1, <1>2, <2>1, <2>2, StoreTypes DEF TypeOK
<1>5. TrueOffset' = TrueOffset /\ PageEnd' = PageEnd /\ PageEnd \in Nat
  <2>1. \A a, b \in Nat : a * b \in Nat
    OBVIOUS
  <2>2. req.page \in Nat /\ req.size \in Nat
    BY <1>2, ListingAssumption DEF TypeOK, Request
  <2>3. QED
    BY <1>1, <2>1, <2>2 DEF TrueOffset, PageEnd
<1>6. StayedIsListed'
  <2>1. ListedNotes(view)' = ListedNotes(view)
    BY <1>1, <1>2, StoreSame
  <2>2. QED
    BY <1>1, <2>1 DEF IInv, StayedIsListed
<1>7. PICK page : page = rows
  OBVIOUS
<1>8. ASSUME client = "walking"
      PROVE  /\ Given(page)'
             /\ PageEnd >= Len(Listing(view)) => Complete(page)'
  <2>1. Given(rows) /\ stayed \subseteq ListedNotes(view)
    BY <1>1, <1>8 DEF IInv, Walking, StayedIsListed
  <2> DEFINE seen == shown \cup Ids(rows)
             again == Cardinality(Ids(rows) \cap shown)
  <2>2. PICK end, s, a : end \in Nat /\ end = PageEnd /\ s = seen /\ a = again
    BY <1>5
  <2> HIDE DEF seen, again
  <2>3. Standing(end, s, a)
    BY <2>1, <2>2 DEF Given, seen, again
  <2>4. Standing(end, s, a)'
    <3>1. a \in Nat /\ repeats' + a = repeats + a
      BY <1>1, <2>3 DEF Standing
    <3>2. QED
      BY <1>1, <1>2, <2>3, <3>1, StandingSame
  <2>5. /\ Ids(page) = Ids(rows) /\ s = shown \cup Ids(page)
        /\ a = Cardinality(Ids(page) \cap shown)
    BY <1>7, <2>2 DEF seen, again
  <2>6. Complete(page) => Complete(page)'
    BY <1>1 DEF Complete, Ids
  <2>7. Given(page)'
    <3>1. Given(page)
      BY <1>7, <2>1
    <3>2. Ids(page)' = Ids(page)
      BY DEF Ids
    <3>3. Standing(PageEnd, shown \cup Ids(page), Cardinality(Ids(page) \cap shown))'
      BY <1>1, <1>5, <2>2, <2>4, <2>5, <3>2
    <3>4. QED
      BY <1>1, <1>5, <2>6, <3>1, <3>3 DEF Given
  <2>8. ASSUME PageEnd >= Len(Listing(view))
        PROVE  Complete(page)
    <3>1. end \in Nat /\ Cardinality(ListedNotes(view)) <= end
      BY <1>3, <2>2, <2>8
    <3>2. stayed \ s = Unseen(ListedNotes(view), Place, stayed, s, end)
      BY <1>3, <2>1, <3>1, AllBelow
    <3>3. Cardinality(stayed \ s) <= went
      BY <1>1, <2>3, <3>2 DEF Standing
    <3>4. QED
      BY <2>5, <3>3 DEF Complete
  <2>9. QED
    BY <2>6, <2>7, <2>8
<1>9. Walking'
  <2>1. reply'.notes = page
    BY <1>1, <1>7
  <2>2. client = "walking" => TrueOffset <= Cardinality(NoteIDs)
    BY DEF IInv, Walking
  <2>3. QED
    BY <1>1, <1>5, <1>8, <2>1, <2>2 DEF Walking
<1>10. QED
  BY <1>1, <1>4, <1>6, <1>9 DEF IInv, RowsInBetween, NothingYet, RowsAreSnapshot

(* The next page of a walk begins where the one it was given ended. *)
LEMMA NextPageInv ==
  ASSUME IInv, NextPage
  PROVE  IInv'
<1>1. TypeOK
  BY DEF IInv
<1>2. PICK page, size : page = reply.notes /\ size = req.size
  OBVIOUS
<1>3. /\ client = "walking" /\ at = "idle" /\ rows = <<>>
      /\ reply.page = req.page /\ reply.size = req.size
      /\ Given(page) /\ Len(page) = size
  BY <1>2 DEF NextPage, IInv, Walking, RowsInBetween
<1>4. req.view \in Views /\ req.page \in Nat \ {0} /\ req.size \in 1..MaxPageSize
  BY <1>1 DEF TypeOK, Request
<1>5. /\ req' \in Request /\ req'.view = req.view
      /\ req'.page = req.page + 1 /\ req'.size = size
      /\ at' = "ListNotes" /\ reply' = NoReply /\ rows' = rows /\ UNCHANGED storeVars
  <2>1. PICK v \in Views, n \in Nat \ {0} : v = req.view /\ n = req.page
    BY <1>4
  <2>2. Ask(v, n + 1, size) /\ size \in 1..MaxPageSize
    BY <1>2, <1>3, <1>4, <2>1 DEF NextPage
  <2>3. QED
    BY <2>1, <2>2, AskTypes
<1>6. /\ shown' = shown \cup Ids(page)
      /\ repeats' = repeats + Cardinality(Ids(page) \cap shown)
      /\ client' = client /\ stayed' = stayed /\ came' = came /\ went' = went
      /\ disturbed' = disturbed
  BY <1>2 DEF NextPage, history
<1>7. /\ Standing(PageEnd, shown', Cardinality(Ids(page) \cap shown))
      /\ PageEnd <= Cardinality(NoteIDs)
  BY <1>2, <1>3, <1>6 DEF Given
<1>8. TrueOffset' = PageEnd /\ PageEnd \in Nat
  <2>1. \A a, b \in Nat : a * b \in Nat /\ (a + 1) - 1 = a
    OBVIOUS
  <2>2. req.page \in Nat /\ req.size \in Nat
    BY <1>4, ListingAssumption
  <2>3. QED
    BY <1>2, <1>5, <2>1, <2>2 DEF TrueOffset, PageEnd
<1>9. TypeOK'
  <2>1. shown' \subseteq Store!Created' /\ repeats' \in Nat
    <3>1. shown' \subseteq Store!Created /\ Cardinality(Ids(page) \cap shown) \in Nat
      BY <1>7 DEF Standing
    <3>2. QED
      BY <1>1, <1>5, <1>6, <3>1, StoreTypes DEF TypeOK
  <2>2. Len(rows') <= req'.size /\ rows' \in Seq(NoteRow)
    BY <1>3, <1>5, ListingAssumption DEF Request
  <2>3. reply' \in Answer
    BY <1>5 DEF Answer
  <2>4. QED
    BY <1>1, <1>5, <1>6, <2>1, <2>2, <2>3, StoreTypes DEF TypeOK
<1>10. Standing(TrueOffset, shown, 0)'
  <2>1. PICK end, s, a :
          end \in Nat /\ end = PageEnd /\ s = shown' /\ a = Cardinality(Ids(page) \cap shown)
    BY <1>8
  <2>2. Standing(end, s, a)
    BY <1>7, <2>1
  <2>3. 0 \in Nat /\ repeats' + 0 = repeats + a
    BY <1>1, <1>6, <2>1, <2>2 DEF Standing, TypeOK
  <2>4. Standing(end, s, 0)'
    BY <1>1, <1>5, <1>6, <2>2, <2>3, StandingSame
  <2>5. QED
    BY <1>8, <2>1, <2>4
<1>11. StayedIsListed'
  <2>1. PICK view : view = req.view
    OBVIOUS
  <2>2. ListedNotes(view)' = ListedNotes(view)
    BY <1>1, <1>5, StoreSame
  <2>3. QED
    BY <1>3, <1>5, <1>6, <2>1, <2>2 DEF IInv, StayedIsListed
<1>12. Walking'
  BY <1>5, <1>7, <1>8, <1>10 DEF Walking
<1>13. QED
  BY <1>3, <1>5, <1>6, <1>9, <1>11, <1>12
     DEF IInv, RowsInBetween, NothingYet, RowsAreSnapshot

LEMMA FailInv == IInv /\ Fail => IInv'
<1> SUFFICES ASSUME IInv, Fail PROVE IInv'
  OBVIOUS
<1>1. disturbed' \in BOOLEAN /\ UNCHANGED <<stayed, came, went>>
  BY DEF Fail, history, IInv, TypeOK
<1>2. QED
  BY <1>1, FailedInv DEF Fail

LEMMA StutterInv == IInv /\ UNCHANGED vars => IInv'
<1> SUFFICES ASSUME IInv, UNCHANGED vars PROVE IInv'
  OBVIOUS
<1> USE DEF vars, storeVars, serverVars, clientVars, history
<1>1. TypeOK
  BY DEF IInv
<1>2. TypeOK'
  BY <1>1, StoreTypes DEF TypeOK
<1>3. StayedIsListed' /\ RowsAreSnapshot'
  <2>1. PICK view : view = req.view
    OBVIOUS
  <2>2. ListedNotes(view)' = ListedNotes(view) /\ Listing(view)' = Listing(view)
    BY <1>1, StoreSame
  <2>3. Slice(Listing(req.view), TrueOffset, req.size)'
          = Slice(Listing(req.view), TrueOffset, req.size)
    BY <2>1, <2>2 DEF Slice, TrueOffset
  <2>4. StayedIsListed'
    BY <2>1, <2>2 DEF IInv, StayedIsListed
  <2>5. QED
    BY <2>3, <2>4 DEF IInv, RowsAreSnapshot, TrueOffset
<1>4. Walking'
  BY DEF IInv, Walking, Given, Complete, Standing, TrueOffset, PageEnd, Ids,
         Unseen, Returning, RankIn, Before, Place, ListedNotes, Listed,
         Store!Present, Store!Created
<1>5. QED
  BY <1>2, <1>3, <1>4 DEF IInv, RowsInBetween, NothingYet

LEMMA StepInv == IInv /\ [Next]_vars => IInv'
<1> SUFFICES ASSUME IInv, [Next]_vars PROVE IInv'
  OBVIOUS
<1>1. CASE \E view \in Views : AskOnce(view) \/ StartWalk(view)
  BY <1>1, AskOnceInv, StartWalkInv
<1>2. CASE ReadOn
  <2>1. ASSUME LastPage \/ TakeAnswer
        PROVE  IInv'
    BY <2>1, FinishInv DEF LastPage, TakeAnswer
  <2>2. QED
    BY <1>2, <2>1, NextPageInv DEF ReadOn
<1>3. CASE Serve
  <2>1. "List" \in Views /\ "Inbox" \in Views
    BY DEF Views
  <2>2. QED
    BY <1>3, <2>1, FetchInv, CountInv
       DEF Serve, ListNotes, CountNotes, ListInboxNotes, CountInboxNotes
<1>4. CASE Fail
  BY <1>4, FailInv
<1>5. CASE Write
  BY <1>5, WriteInv
<1>6. CASE UNCHANGED vars
  BY <1>6, StutterInv
<1>7. QED
  BY <1>1, <1>2, <1>3, <1>4, <1>5, <1>6 DEF Next

-----------------------------------------------------------------------------
(* The theorems *)

(* The invariant the others follow from: at every moment of a walk (the    *)
(* client of internal/capture/handler.go asking for page 1, 2, 3, ...) no  *)
(* more notes have been missed than left the listing, and no more were, or *)
(* will be, shown again than came into it; the rows between the two        *)
(* statements of List or ListInbox are the page asked for unless somebody  *)
(* wrote since.                                                            *)
THEOREM InvHolds == Spec => []IInv
<1>1. Init => IInv
  BY InitInv
<1>2. IInv /\ [Next]_vars => IInv'
  BY StepInv
<1>3. QED
  BY <1>1, <1>2, PTL DEF Spec

(* Every variable keeps its type; in particular the rows the repository    *)
(* builds (buildNote) are notes, no page is longer than its size, and the  *)
(* page and the size of every reply are the settled ones.                  *)
THEOREM TypeCorrect == Spec => []TypeOK
<1>1. IInv => TypeOK
  BY DEF IInv
<1>2. QED
  BY <1>1, InvHolds, PTL

(* A walk never asks for an offset that int32 would change                 *)
(* (int32((page-1)*pageSize) in repository_pg.go), as long as there are    *)
(* fewer notes than 2^31: the page after a full page begins within them.   *)
THEOREM WalksInRange == Spec => []WalksStayInRange
<1>1. ASSUME IInv, client = "walking"
      PROVE  Offset = TrueOffset
  <2>1. TypeOK /\ TrueOffset <= Cardinality(NoteIDs)
    BY <1>1 DEF IInv, Walking
  <2>2. TrueOffset \in Int
    <3>1. \A a, b \in Int : (a - 1) * b \in Int
      OBVIOUS
    <3>2. req.page \in Int /\ req.size \in Int
      BY <2>1, ListingAssumption DEF TypeOK, Request
    <3>3. QED
      BY <3>1, <3>2 DEF TrueOffset
  <2>3. Cardinality(NoteIDs) \in Nat
    BY FS_CardinalityType, ListingAssumption
  <2>4. TrueOffset <= Int32Max
    BY <2>1, <2>2, <2>3, ListingAssumption
  <2>5. QED
    BY <2>1, <2>4, OffsetInRange
<1>2. IInv => WalksStayInRange
  BY <1>1 DEF WalksStayInRange
<1>3. QED
  BY <1>2, InvHolds, PTL

(* A walk that read the last page (ORDER BY created_at DESC, id DESC, with *)
(* LIMIT and OFFSET) has missed no more of the notes listed all the while  *)
(* than others were deleted, or left the inbox, meanwhile; if none left,   *)
(* it has seen them all.                                                   *)
THEOREM SkipsBounded == Spec => SkippedBounded
<1>1. ASSUME IInv, LastPage
      PROVE  Cardinality(stayed \ (shown \cup Ids(reply.notes))) <= went
  <2>1. /\ client = "walking" /\ at = "idle" /\ reply.status = "ok"
        /\ reply.page = req.page /\ reply.size = req.size
        /\ Given(reply.notes)
        /\ PageEnd >= reply.total => Complete(reply.notes)
    BY <1>1 DEF LastPage, IInv, Walking
  <2>2. Complete(reply.notes)
    BY <1>1, <2>1 DEF LastPage, Given, PageEnd
  <2>3. QED
    BY <2>2 DEF Complete
<1>2. IInv /\ [Next]_vars =>
        [LastPage => Cardinality(stayed \ (shown \cup Ids(reply.notes))) <= went]_vars
  BY <1>1
<1>3. QED
  BY <1>2, InvHolds, PTL DEF Spec, SkippedBounded

(* A walk that read the last page was shown no more notes a second time    *)
(* than were created, or came into the inbox, meanwhile.                   *)
THEOREM RepeatsBounded == Spec => RepeatedBounded
<1>1. ASSUME IInv, LastPage
      PROVE  repeats + Cardinality(Ids(reply.notes) \cap shown) <= came
  <2> DEFINE again == Cardinality(Ids(reply.notes) \cap shown)
             back == Returning(ListedNotes(req.view), Place, shown \cup Ids(reply.notes), PageEnd)
  <2>1. Given(reply.notes)
    BY <1>1 DEF LastPage, IInv, Walking
  <2>2. repeats + again + Cardinality(back) <= came /\ again \in Nat
    BY <2>1 DEF Given, Standing
  <2>3. Cardinality(back) \in Nat
    <3>1. PICK view : view = req.view
      OBVIOUS
    <3>2. IsFiniteSet(ListedNotes(view))
      BY <1>1, ListedOrdered DEF IInv, Ordered
    <3>3. back \in SUBSET ListedNotes(view)
      BY <3>1 DEF Returning
    <3>4. QED
      BY <3>2, <3>3, SubsetCounts
  <2>4. repeats \in Nat /\ came \in Nat
    BY <1>1 DEF IInv, TypeOK
  <2> HIDE DEF again, back
  <2>5. repeats + again <= came
    BY <2>2, <2>3, <2>4
  <2>6. QED
    BY <2>5 DEF again
<1>2. IInv /\ [Next]_vars =>
        [LastPage => repeats + Cardinality(Ids(reply.notes) \cap shown) <= came]_vars
  BY <1>1
<1>3. QED
  BY <1>2, InvHolds, PTL DEF Spec, RepeatedBounded

(* A page whose two statements no write separated is the listing's, of one *)
(* moment, from the offset that was asked for, and so is its total.        *)
THEOREM Snapshots == Spec => UndisturbedIsSnapshot
<1> DEFINE Snapshot ==
             /\ [i \in DOMAIN reply'.notes |-> reply'.notes[i].id]
                  = Slice(Listing(req.view), TrueOffset, req.size)
             /\ reply'.total = Len(Listing(req.view))
           Undisturbed ==
             reply' # reply /\ reply'.status = "ok" /\ ~disturbed /\ TrueOffset <= Int32Max
<1>1. ASSUME IInv, Next, Undisturbed
      PROVE  \E view \in Views : Count(view)
  <2>1. reply'.status # "none" /\ reply'.status # "internal"
    BY <1>1
  <2>2. ASSUME NEW view, NEW page, NEW size, Ask(view, page, size)
        PROVE  reply'.status = "none"
    BY <2>2 DEF Ask, NoReply
  <2>3. ~ \E view \in Views : AskOnce(view) \/ StartWalk(view)
    BY <2>1, <2>2 DEF AskOnce, StartWalk
  <2>4. ~NextPage
    BY <2>1, <2>2 DEF NextPage
  <2>5. ~LastPage /\ ~TakeAnswer
    BY <2>1 DEF LastPage, TakeAnswer, Finish, NoReply
  <2>6. ~Fail
    BY <2>1 DEF Fail, Reply
  <2>7. ~Write
    BY <1>1 DEF Write, serverVars
  <2>8. \A view : ~Fetch(view)
    BY <1>1, <2>1 DEF Fetch, Reply
  <2>9. QED
    BY <1>1, <2>3, <2>4, <2>5, <2>6, <2>7, <2>8
       DEF Next, ReadOn, Serve, ListNotes, CountNotes, ListInboxNotes, CountInboxNotes, Views
<1>2. ASSUME IInv, NEW view \in Views, Count(view), Undisturbed
      PROVE  Snapshot
  <2>1. /\ at = "CountNotes" /\ req.view = view
        /\ reply'.notes = rows /\ reply'.total = Len(Listing(view))
    BY <1>2 DEF Count, Reply
  <2>2. [i \in DOMAIN rows |-> rows[i].id] = Slice(Listing(req.view), TrueOffset, req.size)
    BY <1>2, <2>1 DEF IInv, RowsAreSnapshot
  <2>3. QED
    BY <2>1, <2>2
<1>3. IInv /\ [Next]_vars => [Undisturbed => Snapshot]_vars
  BY <1>1, <1>2
<1>4. QED
  BY <1>3, InvHolds, PTL DEF Spec, UndisturbedIsSnapshot

=============================================================================
