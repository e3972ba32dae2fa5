--------------------------- MODULE HistoryProofs ---------------------------
(***************************************************************************)
(* Facts about positions and lists in order, for the proofs about every    *)
(* component that keeps a history.                                         *)
(***************************************************************************)
EXTENDS History, SequenceTheorems, FiniteSetTheorems, WellFoundedInduction, TLAPS

(* Induction over the naturals, for a set.                                  *)
LEMMA NaturalsByInduction ==
    ASSUME NEW n \in Nat, NEW S \in SUBSET (0..n), 0 \in S,
           \A i \in 0..n : i \in S /\ i < n => i + 1 \in S
    PROVE  S = 0..n
<1> DEFINE Less == OpToRel(<, Nat)
           T == (0..n) \ S
<1>1. Less = {xy \in Nat \X Nat : xy[1] < xy[2]}
  BY DEF OpToRel
<1>2. \A x, y \in Nat : y < x => <<y, x>> \in Less
  BY <1>1
<1>3. SUFFICES ASSUME T # {} PROVE FALSE
  OBVIOUS
<1>4. T \subseteq Nat
  OBVIOUS
<1>5. IsWellFoundedOn(Less, Nat)
  BY NatLessThanWellFounded
<1>6. \E x \in T : \A y \in T : <<y, x>> \notin Less
  <2> HIDE DEF T, Less
  <2> QED BY <1>3, <1>4, <1>5, WFMin
<1>7. PICK x \in T : \A y \in T : ~(y < x)
  BY <1>2, <1>4, <1>6
<1>8. x \in 1..n /\ x \notin S
  OBVIOUS
<1>9. x - 1 \in S
  BY <1>7, <1>8
<1> QED BY <1>8, <1>9

(* A sequence of one element.                                               *)
LEMMA OneElement ==
    ASSUME NEW S, NEW c \in S
    PROVE  <<c>> \in Seq(S) /\ Len(<<c>>) = 1 /\ <<c>>[1] = c
OBVIOUS

(* A sequence with one element more, and with two.                          *)
LEMMA OneMore ==
    ASSUME NEW T, NEW seq \in Seq(T), NEW x \in T
    PROVE  /\ Append(seq, x) \in Seq(T) /\ Len(Append(seq, x)) = Len(seq) + 1
           /\ Append(seq, x)[Len(seq) + 1] = x
           /\ \A i \in 1..Len(seq) : Append(seq, x)[i] = seq[i]
OBVIOUS

(* Two elements are appended one after the other.                           *)
LEMMA TwoMore ==
    ASSUME NEW T, NEW seq \in Seq(T), NEW x \in T, NEW y \in T
    PROVE  seq \o <<x, y>> = Append(Append(seq, x), y)
OBVIOUS

(* A function on 1..n is a sequence of length n.                            *)
LEMMA FunctionIsSeq ==
    ASSUME NEW S, NEW n \in Nat, NEW f \in [1..n -> S]
    PROVE  f \in Seq(S) /\ Len(f) = n
<1>1. f \in Seq(S)
  BY SeqDef
<1>2. Len(f) \in Nat /\ DOMAIN f = 1..Len(f)
  BY <1>1, LenProperties
<1>3. 1..Len(f) = 1..n
  BY <1>2
<1> QED BY <1>1, <1>2, <1>3

(* A new position is above the old ones.                                    *)
LEMMA BelowNext ==
    ASSUME NEW m \in Nat, NEW S, S \subseteq 1..m
    PROVE  S \in SUBSET Nat /\ m + 1 \in Nat /\ \A j \in S : j < m + 1
OBVIOUS

(* Only the listed values matter.                                           *)
LEMMA InOrderKept ==
    ASSUME NEW seq, NEW S, NEW val, NEW val2, InOrder(seq, S, val),
           \A j \in S : val2[j] = val[j]
    PROVE  InOrder(seq, S, val2)
<1>1. PICK at \in [DOMAIN seq -> S] :
          /\ \A k, l \in DOMAIN seq : k < l => at[k] < at[l]
          /\ {at[k] : k \in DOMAIN seq} = S
          /\ \A k \in DOMAIN seq : seq[k] = val[at[k]]
  BY DEF InOrder
<1>2. \A k \in DOMAIN seq : seq[k] = val2[at[k]]
  BY <1>1
<1> QED BY <1>1, <1>2 DEF InOrder

(* The empty sequence lists nothing.                                        *)
LEMMA InOrderEmpty == ASSUME NEW val PROVE InOrder(<<>>, {}, val)
<1>1. DOMAIN <<>> = {}
  OBVIOUS
<1>2. [k \in {} |-> 0] \in [DOMAIN <<>> -> {}]
  BY <1>1
<1>3. {[k \in {} |-> 0][l] : l \in DOMAIN <<>>} = {}
  BY <1>1
<1> QED BY <1>1, <1>2, <1>3 DEF InOrder

(* A later element is listed by appending its value.                        *)
LEMMA InOrderAppend ==
    ASSUME NEW T, NEW seq \in Seq(T), NEW x \in T,
           NEW S \in SUBSET Nat, NEW n \in Nat, \A j \in S : j < n,
           NEW val, NEW val2, InOrder(seq, S, val), \A j \in S : val2[j] = val[j], val2[n] = x
    PROVE  InOrder(Append(seq, x), S \cup {n}, val2)
<1>1. PICK at \in [DOMAIN seq -> S] :
          /\ \A k, l \in DOMAIN seq : k < l => at[k] < at[l]
          /\ {at[k] : k \in DOMAIN seq} = S
          /\ \A k \in DOMAIN seq : seq[k] = val[at[k]]
  BY DEF InOrder
<1>2. PICK m \in Nat : m = Len(seq) /\ DOMAIN seq = 1..m
  BY LenProperties
<1> DEFINE longer == Append(seq, x)
<1>3. /\ longer \in Seq(T) /\ Len(longer) = m + 1
      /\ \A k \in 1..m : longer[k] = seq[k]
      /\ longer[m + 1] = x
  BY <1>2, AppendProperties
<1>4. DOMAIN longer = 1..(m + 1)
  BY <1>3, LenProperties
<1> HIDE DEF longer
<1>5. \A k \in 1..m : at[k] \in S
  BY <1>1, <1>2
<1>6. PICK new \in [1..(m + 1) -> S \cup {n}] :
          new = [k \in 1..(m + 1) |-> IF k \in 1..m THEN at[k] ELSE n]
  <2>1. [k \in 1..(m + 1) |-> IF k \in 1..m THEN at[k] ELSE n] \in [1..(m + 1) -> S \cup {n}]
    BY <1>5
  <2> QED BY <2>1
<1>7. (\A k \in 1..m : new[k] = at[k]) /\ new[m + 1] = n
  BY <1>2, <1>6
<1>8. ASSUME NEW k \in 1..(m + 1), NEW l \in 1..(m + 1), k < l
      PROVE  new[k] < new[l]
  <2>1. k \in 1..m
    BY <1>2, <1>8
  <2>2. CASE l = m + 1
    BY <1>5, <1>7, <2>1, <2>2
  <2>3. CASE l \in 1..m
    BY <1>1, <1>2, <1>7, <1>8, <2>1, <2>3
  <2> QED BY <1>2, <2>2, <2>3
<1>9. {new[k] : k \in 1..(m + 1)} = S \cup {n}
  <2>1. {new[k] : k \in 1..(m + 1)} = {at[k] : k \in 1..m} \cup {n}
    BY <1>2, <1>7
  <2> QED BY <1>1, <1>2, <2>1
<1>10. ASSUME NEW k \in 1..(m + 1)
       PROVE  longer[k] = val2[new[k]]
  <2>1. CASE k = m + 1
    BY <1>3, <1>7, <2>1
  <2>2. CASE k \in 1..m
    <3>1. longer[k] = val[at[k]]
      BY <1>1, <1>2, <1>3, <2>2
    <3>2. at[k] \in S /\ new[k] = at[k]
      BY <1>5, <1>7, <2>2
    <3> QED BY <3>1, <3>2
  <2> QED BY <1>2, <2>1, <2>2
<1>11. InOrder(longer, S \cup {n}, val2)
  <2>1. \A k, l \in DOMAIN longer : k < l => new[k] < new[l]
    BY <1>4, <1>8
  <2>2. {new[k] : k \in DOMAIN longer} = S \cup {n}
    BY <1>4, <1>9
  <2>3. \A k \in DOMAIN longer : longer[k] = val2[new[k]]
    BY <1>4, <1>10
  <2>4. new \in [DOMAIN longer -> S \cup {n}]
    BY <1>4, <1>6
  <2> QED BY <2>1, <2>2, <2>3, <2>4 DEF InOrder
<1> QED BY <1>11 DEF longer

(* A list in order has no more elements than positions.                     *)
LEMMA InOrderBounded ==
    ASSUME NEW T, NEW seq \in Seq(T), NEW n \in Nat, NEW S \in SUBSET (1..n), NEW val,
           InOrder(seq, S, val)
    PROVE  Len(seq) <= n
<1>1. PICK m \in Nat : m = Len(seq) /\ DOMAIN seq = 1..m
  BY LenProperties
<1>2. PICK at \in [1..m -> S] : \A k, l \in 1..m : k < l => at[k] < at[l]
  BY <1>1 DEF InOrder
<1>3. \A k \in 1..m : at[k] \in 1..n
  BY <1>2
<1>4. at \in [1..m -> 1..n]
  BY <1>2, <1>3
<1>5. ASSUME NEW k \in 1..m, NEW l \in 1..m, at[k] = at[l] PROVE k = l
  BY <1>2, <1>3, <1>5
<1>6. at \in Injection(1..m, 1..n)
  BY <1>4, <1>5 DEF Injection, IsInjective
<1>7. /\ IsFiniteSet(1..m) /\ Cardinality(1..m) = m
      /\ IsFiniteSet(1..n) /\ Cardinality(1..n) = n
  BY FS_Interval
<1>8. Cardinality(1..m) <= Cardinality(1..n)
  BY <1>6, <1>7, FS_Injection
<1> QED BY <1>1, <1>7, <1>8

(* A set of numbers has one last element.                                   *)
LEMMA LastIsUnique ==
    ASSUME NEW S \in SUBSET Nat, NEW i, NEW j, IsLast(i, S), IsLast(j, S)
    PROVE  i = j
BY DEF IsLast

(* The newest position comes last.                                          *)
LEMMA NewestIsLast ==
    ASSUME NEW n \in Nat, NEW S, S \subseteq 1..n
    PROVE  IsLast(n + 1, S \cup {n + 1})
BY DEF IsLast

(* The elements of a finite set of positions are numbered from 1 on, by how *)
(* many of them come no later.                                              *)
LEMMA PositionsAreNumbered ==
    ASSUME NEW m \in Nat, NEW S \in SUBSET (1..m)
    PROVE  /\ IsFiniteSet(S) /\ Cardinality(S) \in Nat
           /\ \A k \in 1..Cardinality(S) :
                 Position(k, S) \in S /\ Cardinality({j \in S : j <= Position(k, S)}) = k
           /\ \A k, l \in 1..Cardinality(S) : Position(k, S) = Position(l, S) => k = l
           /\ \A i \in S : \E k \in 1..Cardinality(S) : Position(k, S) = i
<1> DEFINE n == Cardinality(S)
           UpTo(i) == {j \in S : j <= i}
           rank == [i \in S |-> Cardinality(UpTo(i))]
<1>1. IsFiniteSet(S) /\ n \in Nat
  <2>1. IsFiniteSet(1..m)
    BY FS_Interval
  <2>2. IsFiniteSet(S)
    BY <2>1, FS_Subset
  <2>3. QED
    BY <2>2, FS_CardinalityType
<1>2. ASSUME NEW i \in S
      PROVE  IsFiniteSet(UpTo(i)) /\ Cardinality(UpTo(i)) \in 1..n
  <2>1. UpTo(i) \in SUBSET S /\ {i} \in SUBSET UpTo(i)
    OBVIOUS
  <2>2. IsFiniteSet(UpTo(i)) /\ Cardinality(UpTo(i)) <= n
    BY <1>1, <2>1, FS_Subset
  <2>3. Cardinality({i}) = 1
    BY FS_Singleton
  <2>4. 1 <= Cardinality(UpTo(i))
    BY <2>1, <2>2, <2>3, FS_Subset
  <2>5. Cardinality(UpTo(i)) \in Nat
    BY <2>2, FS_CardinalityType
  <2>6. QED
    BY <1>1, <2>2, <2>4, <2>5
<1>3. ASSUME NEW i \in S, NEW j \in S, rank[i] = rank[j]
      PROVE  i = j
  <2>1. Cardinality(UpTo(i)) = Cardinality(UpTo(j))
    BY <1>3
  <2>2. IsFiniteSet(UpTo(i)) /\ IsFiniteSet(UpTo(j))
    BY <1>2
  <2>3. UpTo(i) \in SUBSET UpTo(j) \/ UpTo(j) \in SUBSET UpTo(i)
    <3>1. i \in Nat /\ j \in Nat /\ \A h \in S : h \in Nat
      OBVIOUS
    <3>2. i <= j \/ j <= i
      BY <3>1
    <3>3. CASE i <= j
      <4>1. \A h \in S : h <= i => h <= j
        BY <3>1, <3>3
      <4>2. QED
        BY <4>1
    <3>4. CASE j <= i
      <4>1. \A h \in S : h <= j => h <= i
        BY <3>1, <3>4
      <4>2. QED
        BY <4>1
    <3>5. QED
      BY <3>2, <3>3, <3>4
  <2>4. UpTo(i) = UpTo(j)
    BY <2>1, <2>2, <2>3, FS_Subset
  <2>5. i \in UpTo(j) /\ j \in UpTo(i)
    BY <2>4
  <2>6. QED
    BY <2>5
<1>4. rank \in Injection(S, 1..n)
  <2>1. rank \in [S -> 1..n]
    BY <1>2
  <2>2. QED
    BY <2>1, <1>3 DEF Injection, IsInjective
<1>5. rank \in Surjection(S, 1..n)
  <2>1. IsFiniteSet(1..n) /\ Cardinality(1..n) = n
    BY <1>1, FS_Interval
  <2>2. QED
    BY <1>4, <2>1, FS_Injection
<1>6. ASSUME NEW k \in 1..n
      PROVE  Position(k, S) \in S /\ rank[Position(k, S)] = k
  <2>1. \E i \in S : rank[i] = k
    BY <1>5 DEF Surjection
  <2>2. \E i \in S : Cardinality({j \in S : j <= i}) = k
    BY <2>1
  <2>3. QED
    BY <2>2 DEF Position
<1>7. ASSUME NEW i \in S
      PROVE  \E k \in 1..n : Position(k, S) = i
  <2>1. rank[i] \in 1..n
    BY <1>2
  <2>2. Position(rank[i], S) \in S /\ rank[Position(rank[i], S)] = rank[i]
    BY <2>1, <1>6
  <2>3. QED
    BY <2>1, <2>2, <1>3
<1>8. ASSUME NEW k \in 1..n, NEW l \in 1..n, Position(k, S) = Position(l, S)
      PROVE  k = l
  BY <1>8, <1>6
<1>9. \A k \in 1..n : Cardinality({j \in S : j <= Position(k, S)}) = k
  BY <1>6
<1>10. QED
  BY <1>1, <1>6, <1>7, <1>8, <1>9

(* A loop that copies some elements loses none of them, doubles none and    *)
(* adds no others.                                                          *)
LEMMA KeptIsTheSelection ==
    ASSUME NEW T, NEW seq \in Seq(T), NEW S \in SUBSET DOMAIN seq
    PROVE  /\ Kept(seq, S) \in Seq(T) /\ Len(Kept(seq, S)) = Cardinality(S)
           /\ Cardinality(S) \in Nat /\ (S # {} => Cardinality(S) > 0)
           /\ DOMAIN Kept(seq, S) = 1..Cardinality(S)
           /\ \A k \in 1..Cardinality(S) : Position(k, S) \in S /\ Kept(seq, S)[k] = seq[Position(k, S)]
           /\ \A i \in S : \E k \in 1..Cardinality(S) : Position(k, S) = i
           /\ \A k, l \in 1..Cardinality(S) : Position(k, S) = Position(l, S) => k = l
<1>1. PICK m \in Nat : DOMAIN seq = 1..m
  BY LenProperties
<1>2. /\ IsFiniteSet(S) /\ Cardinality(S) \in Nat
      /\ \A k \in 1..Cardinality(S) : Position(k, S) \in S
      /\ \A k, l \in 1..Cardinality(S) : Position(k, S) = Position(l, S) => k = l
      /\ \A i \in S : \E k \in 1..Cardinality(S) : Position(k, S) = i
  BY <1>1, PositionsAreNumbered
<1>3. Kept(seq, S) \in [1..Cardinality(S) -> T]
  BY <1>1, <1>2, ElementOfSeq DEF Kept
<1>4. Kept(seq, S) \in Seq(T) /\ Len(Kept(seq, S)) = Cardinality(S)
      /\ DOMAIN Kept(seq, S) = 1..Cardinality(S)
  BY <1>2, <1>3, FunctionIsSeq, LenProperties
<1>5. S # {} => Cardinality(S) > 0
  BY <1>2, FS_EmptySet
<1>6. \A k \in 1..Cardinality(S) : Kept(seq, S)[k] = seq[Position(k, S)]
  BY DEF Kept
<1>7. QED
  BY <1>2, <1>4, <1>5, <1>6

(* Only what is kept matters.                                               *)
LEMMA KeptStays ==
    ASSUME NEW m \in Nat, NEW S \in SUBSET (1..m), NEW seq, NEW seq2, \A i \in S : seq2[i] = seq[i]
    PROVE  Kept(seq2, S) = Kept(seq, S)
<1>1. \A k \in 1..Cardinality(S) : seq2[Position(k, S)] = seq[Position(k, S)]
  BY PositionsAreNumbered
<1>2. QED
  BY <1>1 DEF Kept

(* Of nothing, nothing is kept.                                             *)
LEMMA NothingKept == ASSUME NEW seq PROVE Kept(seq, {}) = <<>>
<1>1. Cardinality({}) = 0
  BY FS_EmptySet
<1>2. Kept(seq, {}) = [k \in 1..0 |-> seq[Position(k, {})]]
  BY <1>1 DEF Kept
<1>3. QED
  BY <1>2

(* One more that is kept comes last.                                        *)
LEMMA KeptGrows ==
    ASSUME NEW T, NEW seq \in Seq(T), NEW S \in SUBSET DOMAIN seq, NEW seq2,
           \A i \in S : seq2[i] = seq[i], seq2[Len(seq) + 1] \in T
    PROVE  Kept(seq2, S \cup {Len(seq) + 1}) = Append(Kept(seq, S), seq2[Len(seq) + 1])
<1>0. PICK m \in Nat, n \in Nat \ {0}, x \in T :
         DOMAIN seq = 1..m /\ m = Len(seq) /\ n = m + 1 /\ x = seq2[n]
  BY LenProperties
<1>b. \A i \in S : i < n
  BY <1>0
<1>1. PICK c, R : c = Cardinality(S) /\ R = S \cup {n}
  OBVIOUS
<1>2. S \in SUBSET (1..m) /\ IsFiniteSet(S) /\ c \in Nat
  BY <1>0, <1>1, PositionsAreNumbered
<1>3. \A k \in 1..c : Position(k, S) \in S /\ Cardinality({j \in S : j <= Position(k, S)}) = k
  BY <1>1, <1>2, PositionsAreNumbered
<1>4. n \notin S /\ IsFiniteSet(R) /\ Cardinality(R) = c + 1
  BY <1>b, <1>1, <1>2, FS_AddElement
<1>5. PICK b \in Nat : b >= n /\ b >= m
  OBVIOUS
<1>6. R \in SUBSET (1..b)
  BY <1>b, <1>1, <1>2, <1>5
<1>7. /\ \A k \in 1..(c + 1) :
            Position(k, R) \in R /\ Cardinality({j \in R : j <= Position(k, R)}) = k
      /\ \A i \in R : \E k \in 1..(c + 1) : Position(k, R) = i
  BY <1>4, <1>6, PositionsAreNumbered
<1>8. Position(c + 1, R) = n
  <2>1. PICK k \in 1..(c + 1) : Position(k, R) = n
    BY <1>1, <1>7
  <2>2. {j \in R : j <= n} = R
    BY <1>b, <1>1, <1>2
  <2>3. k = c + 1
    BY <1>4, <1>7, <2>1, <2>2
  <2>4. QED
    BY <2>1, <2>3
<1>9. ASSUME NEW l \in 1..c PROVE Position(l, R) = Position(l, S)
  <2>1. PICK i \in S : i = Position(l, S) /\ Cardinality({j \in S : j <= i}) = l
    BY <1>3
  <2>2. PICK k \in 1..(c + 1) : Position(k, R) = i
    BY <1>1, <1>7
  <2>3. {j \in R : j <= i} = {j \in S : j <= i}
    BY <1>b, <1>1, <1>2
  <2>4. k = l
    BY <1>7, <2>1, <2>2, <2>3
  <2>5. QED
    BY <2>1, <2>2, <2>4
<1>10. PICK old : /\ old = Kept(seq, S) /\ old \in Seq(T) /\ Len(old) = c
                  /\ \A k \in 1..c : old[k] = seq[Position(k, S)]
  BY <1>1, KeptIsTheSelection
<1>11. PICK new : new = Append(old, x)
  OBVIOUS
<1>12. new \in Seq(T) /\ Len(new) = c + 1 /\ new[c + 1] = x /\ \A k \in 1..c : new[k] = old[k]
  BY <1>2, <1>10, <1>11
<1>13. ASSUME NEW k \in 1..(c + 1) PROVE new[k] = seq2[Position(k, R)]
  <2>1. CASE k = c + 1
    BY <1>0, <1>8, <1>12, <2>1
  <2>2. CASE k # c + 1
    <3>1. k \in 1..c
      BY <1>2, <2>2
    <3>2. new[k] = seq[Position(k, S)] /\ Position(k, S) \in S
      BY <1>3, <1>10, <1>12, <3>1
    <3>3. QED
      BY <1>9, <3>1, <3>2
  <2>3. QED
    BY <2>1, <2>2
<1>14. PICK kept : kept = Kept(seq2, R)
  OBVIOUS
<1>15. kept = [k \in 1..(c + 1) |-> seq2[Position(k, R)]]
  BY <1>4, <1>14 DEF Kept
<1>16. /\ kept \in [1..(c + 1) -> T] /\ c + 1 \in Nat
       /\ \A k \in 1..(c + 1) : kept[k] = new[k]
  <2>1. \A k \in 1..(c + 1) : new[k] \in T
    BY <1>12, ElementOfSeq
  <2>2. QED
    BY <1>2, <1>13, <1>15, <2>1
<1>17. kept \in Seq(T) /\ Len(kept) = c + 1
  BY <1>16, FunctionIsSeq
<1>18. kept = new
  BY <1>12, <1>16, <1>17, SeqEqual
<1>19. QED
  BY <1>0, <1>1, <1>10, <1>11, <1>14, <1>18

(* What is kept stands in the order of its positions.                       *)
LEMMA PositionsRise ==
    ASSUME NEW m \in Nat, NEW S \in SUBSET (1..m),
           NEW k \in 1..Cardinality(S), NEW l \in 1..Cardinality(S), k < l
    PROVE  Position(k, S) < Position(l, S)
<1>0. /\ \A h \in 1..Cardinality(S) :
            Position(h, S) \in S /\ Cardinality({j \in S : j <= Position(h, S)}) = h
      /\ IsFiniteSet(S) /\ Cardinality(S) \in Nat
  BY PositionsAreNumbered
<1>1. PICK p \in S : p = Position(k, S) /\ Cardinality({j \in S : j <= p}) = k
  BY <1>0
<1>2. PICK q \in S : q = Position(l, S) /\ Cardinality({j \in S : j <= q}) = l
  BY <1>0
<1>3. p \in Nat /\ q \in Nat /\ \A j \in S : j \in Nat
  OBVIOUS
<1>4. CASE q <= p
  <2>1. PICK A : A = {j \in S : j <= p} /\ Cardinality(A) = k
    BY <1>1
  <2>2. PICK B : B = {j \in S : j <= q} /\ Cardinality(B) = l
    BY <1>2
  <2>3. A \in SUBSET S
    BY <2>1
  <2>4. B \in SUBSET A
    <3>1. \A j \in S : j <= q => j <= p
      BY <1>3, <1>4
    <3>2. QED
      BY <2>1, <2>2, <3>1
  <2>5. IsFiniteSet(A)
    BY <1>0, <2>3, FS_Subset
  <2>6. Cardinality(B) <= Cardinality(A)
    BY <2>4, <2>5, FS_Subset
  <2>7. l <= k /\ k \in Nat /\ l \in Nat
    BY <1>0, <2>1, <2>2, <2>6
  <2>8. QED
    BY <2>7
<1>5. QED
  BY <1>1, <1>2, <1>3, <1>4

(* Of one position, its element is kept.                                    *)
LEMMA KeptOne ==
    ASSUME NEW m \in Nat, NEW i \in 1..m, NEW seq
    PROVE  Kept(seq, {i}) = <<seq[i]>>
<1>1. Cardinality({i}) = 1
  BY FS_Singleton
<1>2. {i} \in SUBSET (1..m) /\ 1 \in 1..Cardinality({i})
  BY <1>1
<1>3. Position(1, {i}) \in {i}
  BY <1>2, PositionsAreNumbered
<1>4. Kept(seq, {i}) = [k \in 1..1 |-> seq[Position(k, {i})]]
  BY <1>1 DEF Kept
<1>5. \A k \in 1..1 : seq[Position(k, {i})] = seq[i]
  BY <1>3
<1>6. [k \in 1..1 |-> seq[Position(k, {i})]] = [k \in 1..1 |-> seq[i]]
  BY <1>5
<1>7. QED
  BY <1>4, <1>6

(* A loop that copies some elements copies them in their order.             *)
LEMMA KeptInOrder ==
    ASSUME NEW T, NEW seq \in Seq(T), NEW S \in SUBSET DOMAIN seq
    PROVE  InOrder(Kept(seq, S), S, seq)
<1>1. PICK c, N : c = Cardinality(S) /\ N = Kept(seq, S)
  OBVIOUS
<1>2. /\ DOMAIN N = 1..c
      /\ \A k \in 1..c : Position(k, S) \in S /\ N[k] = seq[Position(k, S)]
      /\ \A i \in S : \E k \in 1..c : Position(k, S) = i
  BY <1>1, KeptIsTheSelection
<1>3. \A k, l \in 1..c : k < l => Position(k, S) < Position(l, S)
  <2>1. Len(seq) \in Nat /\ S \in SUBSET (1..Len(seq))
    BY LenProperties
  <2>2. ASSUME NEW k \in 1..c, NEW l \in 1..c, k < l PROVE Position(k, S) < Position(l, S)
    BY <1>1, <2>1, <2>2, PositionsRise
  <2>3. QED
    BY <2>2
<1>4. PICK at : at = [k \in 1..c |-> Position(k, S)]
  OBVIOUS
<1>5. at \in [DOMAIN N -> S] /\ \A k \in DOMAIN N : at[k] = Position(k, S)
  BY <1>2, <1>4
<1>6. \A k, l \in DOMAIN N : k < l => at[k] < at[l]
  BY <1>2, <1>3, <1>5
<1>7. {at[k] : k \in DOMAIN N} = S
  BY <1>2, <1>5
<1>8. \A k \in DOMAIN N : N[k] = seq[at[k]]
  BY <1>2, <1>5
<1>9. InOrder(N, S, seq)
  BY <1>5, <1>6, <1>7, <1>8 DEF InOrder
<1>10. QED
  BY <1>1, <1>9
=============================================================================
