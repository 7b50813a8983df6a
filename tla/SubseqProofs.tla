---------------------------- MODULE SubseqProofs ----------------------------
(***************************************************************************)
(* Facts about Pick and Drop, for every sequence and every set of          *)
(* positions: they are sequences, and they hold exactly the elements       *)
(* selected.  The argument is by counting: Rank maps K injectively into    *)
(* 1 .. |K|, a set of the same size, hence onto it.                        *)
(***************************************************************************)
EXTENDS Subseq, Integers, Sequences, FiniteSets, Functions,
        FiniteSetTheorems, SequenceTheorems, TLAPS

(* The size of a finite set of integers, and of what is at or below one.    *)
LEMMA FiniteCounts ==
  ASSUME NEW K, IsFiniteSet(K), K \subseteq Int
  PROVE  /\ Cardinality(K) \in Nat
         /\ \A i \in K : IsFiniteSet({j \in K : j <= i})
<1>1. ASSUME NEW i \in K
      PROVE  IsFiniteSet({j \in K : j <= i})
  <2>1. {j \in K : j <= i} \in SUBSET K
    OBVIOUS
  <2> QED
    BY <2>1, FS_Subset
<1> QED
  BY <1>1, FS_CardinalityType

(* The positions of a sequence are a finite set of integers.                *)
LEMMA Positions ==
  ASSUME NEW n \in Nat, NEW K \in SUBSET (1 .. n)
  PROVE  IsFiniteSet(K) /\ K \subseteq Int /\ Cardinality(K) \in Nat
<1>1. IsFiniteSet(1 .. n)
  BY FS_Interval
<1>2. IsFiniteSet(K)
  BY <1>1, FS_Subset
<1>3. K \subseteq Int
  OBVIOUS
<1> QED
  BY <1>2, <1>3, FiniteCounts

(* Places of K are between 1 and the size of K.                             *)
LEMMA RankBound ==
  ASSUME NEW K, IsFiniteSet(K), K \subseteq Int, NEW i \in K
  PROVE  Rank(K, i) \in 1 .. Cardinality(K)
<1> DEFINE B == {j \in K : j <= i}
<1>1. IsFiniteSet(K) /\ K \subseteq Int /\ Cardinality(K) \in Nat
  BY FiniteCounts
<1>2. IsFiniteSet(B) /\ Cardinality(B) <= Cardinality(K)
  <2>1. B \in SUBSET K
    OBVIOUS
  <2> QED
    BY <1>1, <2>1, FS_Subset
<1>3. Cardinality(B) \in Nat
  BY <1>2, FS_CardinalityType
<1>4. i \in B
  BY <1>1
<1>5. Cardinality(B) # 0
  BY <1>2, <1>4, FS_EmptySet
<1>6. Rank(K, i) = Cardinality(B)
  BY DEF Rank
<1> HIDE DEF B
<1> QED
  BY <1>1, <1>2, <1>3, <1>5, <1>6

(* A later position has a higher place.                                     *)
LEMMA RankMonotonic ==
  ASSUME NEW K, IsFiniteSet(K), K \subseteq Int,
         NEW i \in K, NEW k \in K, i < k
  PROVE  Rank(K, i) < Rank(K, k)
<1> DEFINE A == {j \in K : j <= i}
           B == {j \in K : j <= k}
<1>1. K \subseteq Int
  BY FiniteCounts
<1>2. IsFiniteSet(B)
  BY FiniteCounts
<1>3. A \in SUBSET B
  <2>1. ASSUME NEW j \in A
        PROVE  j \in B
    <3>1. j \in Int /\ i \in Int /\ k \in Int /\ j <= i
      BY <1>1
    <3>2. j <= k
      BY <3>1
    <3> QED
      BY <3>2
  <2> QED
    BY <2>1
<1>4. k \in B /\ k \notin A
  BY <1>1
<1>5. IsFiniteSet(A) /\ Cardinality(A) <= Cardinality(B)
  BY <1>2, <1>3, FS_Subset
<1>6. Cardinality(A) # Cardinality(B)
  BY <1>2, <1>3, <1>4, FS_Subset
<1>7. Cardinality(A) \in Nat /\ Cardinality(B) \in Nat
  BY <1>2, <1>5, FS_CardinalityType
<1>8. Rank(K, i) = Cardinality(A) /\ Rank(K, k) = Cardinality(B)
  BY DEF Rank
<1> HIDE DEF A, B
<1> QED
  BY <1>5, <1>6, <1>7, <1>8

(* So no two positions share a place.                                       *)
LEMMA RankInjective ==
  ASSUME NEW K, IsFiniteSet(K), K \subseteq Int,
         NEW i \in K, NEW k \in K, Rank(K, i) = Rank(K, k)
  PROVE  i = k
<1>1. K \subseteq Int /\ Cardinality(K) \in Nat
  BY FiniteCounts
<1>2. Rank(K, i) \in 1 .. Cardinality(K)
  BY RankBound
<1>3. Rank(K, i) \in Int
  BY <1>1, <1>2
<1>4. CASE i < k
  <2>1. Rank(K, i) < Rank(K, k)
    BY <1>4, RankMonotonic
  <2> QED
    BY <2>1, <1>3
<1>5. CASE k < i
  <2>1. Rank(K, k) < Rank(K, i)
    BY <1>5, RankMonotonic
  <2> QED
    BY <2>1, <1>3
<1> QED
  BY <1>1, <1>4, <1>5

(* Every place from 1 to the size of K is the place of one position of K.   *)
LEMMA RankOnto ==
  ASSUME NEW K, IsFiniteSet(K), K \subseteq Int
  PROVE  \A i \in 1 .. Cardinality(K) : \E k \in K : Rank(K, k) = i
<1> DEFINE T == 1 .. Cardinality(K)
           f == [k \in K |-> Rank(K, k)]
<1>1. IsFiniteSet(K) /\ K \subseteq Int /\ Cardinality(K) \in Nat
  BY FiniteCounts
<1>2. IsFiniteSet(T) /\ Cardinality(T) = Cardinality(K)
  BY <1>1, FS_Interval
<1>3. f \in [K -> T]
  BY RankBound
<1>4. ASSUME NEW i \in K, NEW k \in K, f[i] = f[k]
      PROVE  i = k
  <2>1. Rank(K, i) = Rank(K, k)
    BY <1>4
  <2> QED
    BY <2>1, RankInjective
<1>5. f \in Injection(K, T)
  <2>1. IsInjective(f)
    BY <1>3, <1>4 DEF IsInjective
  <2> QED
    BY <1>3, <2>1 DEF Injection
<1>6. f \in Surjection(K, T)
  BY <1>2, <1>5, FS_Injection
<1>7. \A i \in T : \E k \in K : f[k] = i
  BY <1>6 DEF Surjection
<1> QED
  BY <1>7

(* A finite set of numbers that is not empty has a least and a greatest     *)
(* member: those of the first and of the last rank.                         *)
LEMMA Extremes ==
  ASSUME NEW K, IsFiniteSet(K), K \subseteq Int, K # {}
  PROVE  /\ \E k \in K : \A j \in K : k <= j
         /\ \E k \in K : \A j \in K : j <= k
<1> DEFINE c == Cardinality(K)
<1>1. c \in Nat /\ c # 0
  BY FiniteCounts, FS_EmptySet
<1>2. \A j \in K : Rank(K, j) \in 1 .. c
  BY RankBound
<1>3. \A i, k \in K : i < k => Rank(K, i) < Rank(K, k)
  BY RankMonotonic
<1>4. PICK k \in K : Rank(K, k) = 1
  <2>1. 1 \in 1 .. c
    BY <1>1
  <2> QED
    BY <2>1, RankOnto
<1>5. PICK m \in K : Rank(K, m) = c
  <2>1. c \in 1 .. c
    BY <1>1
  <2> QED
    BY <2>1, RankOnto
<1> HIDE DEF c
<1>6. \A j \in K : k <= j
  <2> TAKE j \in K
  <2>1. SUFFICES ASSUME j < k PROVE FALSE
    OBVIOUS
  <2>2. Rank(K, j) < Rank(K, k) /\ Rank(K, j) \in 1 .. c
    BY <2>1, <1>2, <1>3
  <2> QED
    BY <2>2, <1>1, <1>4
<1>7. \A j \in K : j <= m
  <2> TAKE j \in K
  <2>1. SUFFICES ASSUME m < j PROVE FALSE
    OBVIOUS
  <2>2. Rank(K, m) < Rank(K, j) /\ Rank(K, j) \in 1 .. c
    BY <2>1, <1>2, <1>3
  <2> QED
    BY <2>2, <1>1, <1>5
<1> QED
  BY <1>6, <1>7

(* Pick(s, K) is a sequence with one element for each position of K, and    *)
(* holds the elements of s at K, no others.                                 *)
THEOREM PickProperties ==
  ASSUME NEW S, NEW s \in Seq(S), NEW K \in SUBSET (1 .. Len(s))
  PROVE  /\ Pick(s, K) \in Seq(S)
         /\ Len(Pick(s, K)) = Cardinality(K)
         /\ Range(Pick(s, K)) = {s[k] : k \in K}
<1> DEFINE at(i) == CHOOSE k \in K : Rank(K, k) = i
           c == Cardinality(K)
<1>0. Len(s) \in Nat
  OBVIOUS
<1>1. c \in Nat /\ IsFiniteSet(K) /\ K \subseteq Int
  BY <1>0, Positions
<1>2. ASSUME NEW i \in 1 .. c
      PROVE  at(i) \in K /\ Rank(K, at(i)) = i
  <2>1. \E k \in K : Rank(K, k) = i
    BY <1>1, RankOnto
  <2> QED
    BY <2>1
<1>3. Pick(s, K) = [i \in 1 .. c |-> s[at(i)]]
  BY DEF Pick
<1>4. \A i \in 1 .. c : s[at(i)] \in S
  <2> TAKE i \in 1 .. c
  <2>1. at(i) \in 1 .. Len(s)
    BY <1>2
  <2> HIDE DEF at
  <2> QED
    BY <2>1
<1>5. Pick(s, K) \in [1 .. c -> S]
  <2> HIDE DEF at
  <2> QED
    BY <1>3, <1>4
<1>6. Pick(s, K) \in Seq(S) /\ Len(Pick(s, K)) = c
  <2> HIDE DEF c
  <2> QED
    BY <1>1, <1>5
<1>7. Range(Pick(s, K)) = {s[at(i)] : i \in 1 .. c}
  <2> HIDE DEF at, c
  <2> QED
    BY <1>3 DEF Range
<1>8. \A k \in K : k = at(Rank(K, k)) /\ Rank(K, k) \in 1 .. c
  <2> TAKE k \in K
  <2>1. Rank(K, k) \in 1 .. c
    BY <1>1, RankBound
  <2>2. at(Rank(K, k)) \in K /\ Rank(K, at(Rank(K, k))) = Rank(K, k)
    BY <1>2, <2>1
  <2>3. at(Rank(K, k)) = k
    <3> HIDE DEF at
    <3> QED
      BY <1>1, <2>2, RankInjective
  <2> HIDE DEF at
  <2> QED
    BY <2>1, <2>3
<1>9. {s[at(i)] : i \in 1 .. c} = {s[k] : k \in K}
  <2> HIDE DEF at, c
  <2> QED
    BY <1>2, <1>8
<1> QED
  BY <1>6, <1>7, <1>9

(* What Drop keeps and what Pick takes are together the elements of s.      *)
THEOREM DropProperties ==
  ASSUME NEW S, NEW s \in Seq(S), NEW K \in SUBSET (1 .. Len(s))
  PROVE  /\ Drop(s, K) \in Seq(S)
         /\ Range(s) = Range(Pick(s, K)) \union Range(Drop(s, K))
<1> DEFINE R == (1 .. Len(s)) \ K
<1>1. R \in SUBSET (1 .. Len(s))
  OBVIOUS
<1>2. /\ Pick(s, R) \in Seq(S)
      /\ Range(Pick(s, R)) = {s[k] : k \in R}
  BY <1>1, PickProperties
<1>3. Range(Pick(s, K)) = {s[k] : k \in K}
  BY PickProperties
<1>4. Range(s) = {s[k] : k \in 1 .. Len(s)}
  BY DEF Range
<1>5. Drop(s, K) = Pick(s, R)
  BY DEF Drop
<1> QED
  BY <1>2, <1>3, <1>4, <1>5

(* Only an empty selection gives the empty sequence.                        *)
THEOREM PickEmpty ==
  ASSUME NEW S, NEW s \in Seq(S), NEW K \in SUBSET (1 .. Len(s))
  PROVE  Pick(s, K) = <<>> <=> K = {}
<1>1. Len(s) \in Nat
  OBVIOUS
<1>2. IsFiniteSet(K) /\ Cardinality(K) \in Nat
  BY <1>1, Positions
<1>3. Pick(s, K) \in Seq(S) /\ Len(Pick(s, K)) = Cardinality(K)
  BY PickProperties
<1>4. Cardinality(K) = 0 <=> K = {}
  BY <1>2, FS_EmptySet
<1>5. Pick(s, K) = <<>> <=> Len(Pick(s, K)) = 0
  BY <1>3, EmptySeq
<1> QED
  BY <1>3, <1>4, <1>5

(* No element is taken twice if it stands at one of the positions only.     *)
LEMMA PickInjectiveOn ==
  ASSUME NEW S, NEW s \in Seq(S), NEW K \in SUBSET (1 .. Len(s)),
         \A i, j \in K : s[i] = s[j] => i = j
  PROVE  IsInjective(Pick(s, K))
<1> DEFINE at(i) == CHOOSE k \in K : Rank(K, k) = i
           c == Cardinality(K)
<1>0. IsFiniteSet(K) /\ K \subseteq Int
  <2>1. Len(s) \in Nat
    OBVIOUS
  <2> QED
    BY <2>1, Positions
<1>1. ASSUME NEW i \in 1 .. c
      PROVE  at(i) \in K /\ Rank(K, at(i)) = i
  <2>1. \E k \in K : Rank(K, k) = i
    BY <1>0, RankOnto
  <2> QED
    BY <2>1
<1>2. Pick(s, K) = [i \in 1 .. c |-> s[at(i)]]
  BY DEF Pick
<1>3. \A i, j \in 1 .. c : s[at(i)] = s[at(j)] => i = j
  <2> TAKE i, j \in 1 .. c
  <2> HAVE s[at(i)] = s[at(j)]
  <2>1. at(i) \in K /\ at(j) \in K /\ Rank(K, at(i)) = i /\ Rank(K, at(j)) = j
    BY <1>1
  <2> HIDE DEF at
  <2>3. at(i) = at(j)
    BY <2>1, s[at(i)] = s[at(j)]
  <2> QED
    BY <2>1, <2>3
<1> HIDE DEF at, c
<1> QED
  BY <1>2, <1>3 DEF IsInjective

(* What Pick takes keeps its order: an element that comes before another in *)
(* the selection stands before it in the sequence.                          *)
LEMMA PickOrdered ==
  ASSUME NEW S, NEW s \in Seq(S), NEW K \in SUBSET (1 .. Len(s)),
         NEW i \in 1 .. Cardinality(K), NEW j \in 1 .. Cardinality(K), i < j
  PROVE  \E k, m \in K : k < m /\ Pick(s, K)[i] = s[k] /\ Pick(s, K)[j] = s[m]
<1> DEFINE at(a) == CHOOSE k \in K : Rank(K, k) = a
           c == Cardinality(K)
<1>0. IsFiniteSet(K) /\ K \subseteq Int
  <2>1. Len(s) \in Nat
    OBVIOUS
  <2> QED
    BY <2>1, Positions
<1>1. ASSUME NEW a \in 1 .. c
      PROVE  at(a) \in K /\ Rank(K, at(a)) = a
  <2>1. \E k \in K : Rank(K, k) = a
    BY <1>0, RankOnto
  <2> QED
    BY <2>1
<1>2. Pick(s, K) = [a \in 1 .. c |-> s[at(a)]]
  BY DEF Pick
<1>3. /\ at(i) \in K /\ Rank(K, at(i)) = i /\ at(j) \in K /\ Rank(K, at(j)) = j
      /\ Pick(s, K)[i] = s[at(i)] /\ Pick(s, K)[j] = s[at(j)]
  BY <1>1, <1>2
<1> HIDE DEF at, c
<1>4. ~(at(j) < at(i)) /\ at(i) # at(j)
  <2>1. SUFFICES ASSUME at(j) < at(i) PROVE FALSE
    BY <1>3
  <2>2. Rank(K, at(j)) < Rank(K, at(i))
    BY <2>1, <1>0, <1>3, RankMonotonic
  <2> QED
    BY <2>2, <1>3
<1>5. at(i) \in Int /\ at(j) \in Int
  BY <1>0, <1>3
<1> QED
  BY <1>3, <1>4, <1>5

(* No element of an injective sequence is taken twice, nor both taken and   *)
(* kept.                                                                    *)
LEMMA PickInjective ==
  ASSUME NEW S, NEW s \in Seq(S), IsInjective(s), NEW K \in SUBSET (1 .. Len(s))
  PROVE  IsInjective(Pick(s, K))
<1>1. \A i, j \in K : s[i] = s[j] => i = j
  BY DOMAIN s = 1 .. Len(s) DEF IsInjective
<1> QED
  BY <1>1, PickInjectiveOn

(* And of Drop: a wakeup that leaves messages behind leaves each once.      *)
LEMMA DropInjective ==
  ASSUME NEW S, NEW s \in Seq(S), IsInjective(s), NEW K \in SUBSET (1 .. Len(s))
  PROVE  /\ IsInjective(Drop(s, K))
         /\ Range(Pick(s, K)) \intersect Range(Drop(s, K)) = {}
<1> DEFINE R == (1 .. Len(s)) \ K
<1>1. R \in SUBSET (1 .. Len(s)) /\ Drop(s, K) = Pick(s, R)
  BY DEF Drop
<1>2. IsInjective(Pick(s, R))
  BY <1>1, PickInjective
<1>3. Range(Pick(s, K)) = {s[k] : k \in K} /\ Range(Pick(s, R)) = {s[k] : k \in R}
  BY <1>1, PickProperties
<1>4. {s[k] : k \in K} \intersect {s[k] : k \in R} = {}
  BY DEF IsInjective
<1> QED
  BY <1>1, <1>2, <1>3, <1>4

(* The elements of a longer, a shorter and a joined sequence.               *)
LEMMA AppendRange ==
  ASSUME NEW S, NEW s \in Seq(S), NEW e \in S
  PROVE  /\ Append(s, e) \in Seq(S) /\ Append(s, e) # <<>>
         /\ Range(Append(s, e)) = Range(s) \union {e}
         /\ IsInjective(s) /\ e \notin Range(s) => IsInjective(Append(s, e))
<1> DEFINE t == Append(s, e)
<1>1. /\ t \in Seq(S) /\ t # <<>> /\ Len(t) = Len(s) + 1
      /\ \A i \in 1 .. Len(s) : t[i] = s[i]
      /\ t[Len(s) + 1] = e
  BY AppendProperties
<1>2. /\ Len(s) \in Nat /\ DOMAIN s = 1 .. Len(s)
      /\ DOMAIN t = 1 .. Len(t)
  BY <1>1, LenProperties
<1> HIDE DEF t
<1>3. DOMAIN t = DOMAIN s \union {Len(s) + 1} /\ Len(s) + 1 \notin DOMAIN s
  BY <1>1, <1>2
<1>4. \A i \in DOMAIN s : t[i] = s[i]
  BY <1>1, <1>2
<1>5. Range(t) = Range(s) \union {e}
  BY <1>1, <1>3, <1>4 DEF Range
<1>6. IsInjective(s) /\ e \notin Range(s) => IsInjective(t)
  BY <1>1, <1>3, <1>4 DEF Range, IsInjective
<1> QED
  BY <1>1, <1>5, <1>6 DEF t

(* A service takes the head and no other message.                           *)
LEMMA TailRange ==
  ASSUME NEW S, NEW s \in Seq(S), s # <<>>
  PROVE  /\ Head(s) \in S /\ Tail(s) \in Seq(S)
         /\ Range(s) = Range(Tail(s)) \union {Head(s)}
         /\ IsInjective(s) => IsInjective(Tail(s)) /\ Head(s) \notin Range(Tail(s))
<1> DEFINE t == Tail(s)
<1>1. /\ Head(s) \in S /\ Head(s) = s[1] /\ t \in Seq(S)
      /\ Len(t) = Len(s) - 1
      /\ \A i \in 1 .. Len(t) : t[i] = s[i + 1]
  BY HeadTailProperties
<1>2. /\ Len(s) \in Nat \ {0} /\ DOMAIN s = 1 .. Len(s)
      /\ DOMAIN t = 1 .. Len(t)
  BY <1>1, LenProperties, EmptySeq
<1> HIDE DEF t
<1>3. \A i \in DOMAIN t : i + 1 \in DOMAIN s /\ i + 1 # 1 /\ t[i] = s[i + 1]
  BY <1>1, <1>2
<1>4. \A i \in DOMAIN s : i = 1 \/ \E j \in DOMAIN t : i = j + 1
  <2> TAKE i \in DOMAIN s
  <2>1. i = 1 \/ i - 1 \in DOMAIN t
    BY <1>1, <1>2
  <2>2. i = (i - 1) + 1
    BY <1>2
  <2> QED
    BY <2>1, <2>2
<1>5. 1 \in DOMAIN s
  BY <1>2
<1>6. Range(s) = Range(t) \union {Head(s)}
  <2>1. ASSUME NEW i \in DOMAIN s
        PROVE  s[i] \in Range(t) \union {Head(s)}
    <3>1. CASE i = 1
      BY <1>1, <3>1
    <3>2. CASE \E j \in DOMAIN t : i = j + 1
      <4>1. PICK j \in DOMAIN t : i = j + 1
        BY <3>2
      <4>2. s[i] = t[j]
        BY <1>3, <4>1
      <4> QED
        BY <4>2 DEF Range
    <3> QED
      BY <1>4, <3>1, <3>2
  <2>2. ASSUME NEW j \in DOMAIN t
        PROVE  t[j] \in Range(s)
    BY <1>3 DEF Range
  <2>3. Head(s) \in Range(s)
    BY <1>1, <1>5 DEF Range
  <2> QED
    BY <2>1, <2>2, <2>3 DEF Range
<1>7. ASSUME IsInjective(s)
      PROVE  IsInjective(t) /\ Head(s) \notin Range(t)
  <2>1. \A i, j \in DOMAIN t : i + 1 = j + 1 => i = j
    BY <1>1, <1>2
  <2>2. IsInjective(t)
    BY <1>3, <1>7, <2>1 DEF IsInjective
  <2>3. Head(s) \notin Range(t)
    BY <1>1, <1>3, <1>5, <1>7 DEF IsInjective, Range
  <2> QED
    BY <2>2, <2>3
<1> QED
  BY <1>1, <1>6, <1>7 DEF t

(* Two lists joined hold the messages of both.                             *)
LEMMA ConcatRange ==
  ASSUME NEW S, NEW s \in Seq(S), NEW t \in Seq(S)
  PROVE  /\ s \o t \in Seq(S)
         /\ Range(s \o t) = Range(s) \union Range(t)
         /\ s \o t = <<>> <=> s = <<>> /\ t = <<>>
         /\ IsInjective(s) /\ IsInjective(t) /\ Range(s) \intersect Range(t) = {}
              => IsInjective(s \o t)
<1> DEFINE u == s \o t
           n == Len(s)
<1>1. /\ u \in Seq(S) /\ Len(u) = n + Len(t)
      /\ \A i \in 1 .. n + Len(t) : u[i] = IF i <= n THEN s[i] ELSE t[i - n]
  BY ConcatProperties
<1>2. Range(u) = Range(s) \union Range(t)
  BY RangeConcatenation
<1>3. u = <<>> <=> s = <<>> /\ t = <<>>
  BY ConcatEqualIffEmpty
<1>4. /\ n \in Nat /\ Len(t) \in Nat
      /\ DOMAIN u = 1 .. n + Len(t) /\ DOMAIN s = 1 .. n /\ DOMAIN t = 1 .. Len(t)
  BY <1>1, LenProperties
<1>5. ASSUME IsInjective(s), IsInjective(t), Range(s) \intersect Range(t) = {}
      PROVE  IsInjective(u)
  <2> HIDE DEF u, n
  <2>1. \A i \in DOMAIN u :
          \/ i \in DOMAIN s /\ i <= n /\ u[i] = s[i]
          \/ i - n \in DOMAIN t /\ i > n /\ u[i] = t[i - n]
    BY <1>1, <1>4
  <2>2. \A i \in DOMAIN s, j \in DOMAIN t : s[i] # t[j]
    BY <1>5 DEF Range
  <2>3. ASSUME NEW i \in DOMAIN u, NEW j \in DOMAIN u, u[i] = u[j]
        PROVE  i = j
    <3>1. CASE i <= n /\ j <= n
      <4>1. u[i] = s[i] /\ u[j] = s[j] /\ i \in DOMAIN s /\ j \in DOMAIN s
        BY <1>4, <2>1, <3>1
      <4> QED
        BY <1>5, <2>3, <4>1 DEF IsInjective
    <3>2. CASE i > n /\ j > n
      <4>1. /\ u[i] = t[i - n] /\ u[j] = t[j - n]
            /\ i - n \in DOMAIN t /\ j - n \in DOMAIN t
        BY <1>4, <2>1, <3>2
      <4>2. i - n = j - n
        BY <1>5, <2>3, <4>1 DEF IsInjective
      <4> QED
        BY <1>4, <4>2
    <3>3. ~(i <= n /\ j > n) /\ ~(j <= n /\ i > n)
      BY <1>4, <2>1, <2>2, <2>3
    <3> QED
      BY <1>4, <3>1, <3>2, <3>3
  <2> QED
    BY <2>3 DEF IsInjective
<1> QED
  BY <1>1, <1>2, <1>3, <1>5
=============================================================================
