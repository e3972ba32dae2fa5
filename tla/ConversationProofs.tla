-------------------------- MODULE ConversationProofs --------------------------
(***************************************************************************)
(* Theorems about Conversation, for requests and sessions of any length:   *)
(* what the Proxy and the Pi Adapter make of a conversation.               *)
(***************************************************************************)
EXTENDS Conversation, HistoryProofs

-----------------------------------------------------------------------------
(* Lists.  A list is read by induction over its length: FlattenSeq of the   *)
(* community modules is a recursive function, and that it has values is     *)
(* proved first. Sequences and their operators stand under names of their   *)
(* own, which the proofs leave folded: only the lemmas below are used.      *)

(* The values of the recursion by which FlattenSeq is defined.              *)
Flattening(g, seqs) == g = [i \in 1..Len(seqs) |-> IF i = 1 THEN seqs[i] ELSE g[i - 1] \o seqs[i]]
Flattened(seqs) == CHOOSE g : Flattening(g, seqs)

(* There are such values, for a sequence of sequences.                      *)
LEMMA FlatteningExists ==
    ASSUME NEW T, NEW seqs \in Seq(Seq(T))
    PROVE  Flattening(Flattened(seqs), seqs)
<1>0. PICK n \in Nat : n = Len(seqs)
  OBVIOUS
<1> DEFINE Upto(g, i) == \A k \in 1..i : g[k] = IF k = 1 THEN seqs[k] ELSE g[k - 1] \o seqs[k]
           S == {i \in 0..n : \E g \in [1..i -> Seq(T)] : Upto(g, i)}
<1>1. \A i \in 1..n : seqs[i] \in Seq(T)
  BY <1>0
<1>2. 0 \in S
  <2>1. PICK g \in [1..0 -> Seq(T)] : TRUE
    <3>1. [k \in 1..0 |-> <<>>] \in [1..0 -> Seq(T)]
      OBVIOUS
    <3> QED BY <3>1
  <2>2. Upto(g, 0) /\ 0 \in 0..n
    OBVIOUS
  <2> HIDE DEF Upto
  <2> QED BY <2>1, <2>2
<1>3. ASSUME NEW i \in 0..n, i \in S, i < n PROVE i + 1 \in S
  <2>1. PICK g \in [1..i -> Seq(T)] : Upto(g, i)
    BY <1>3
  <2> DEFINE x == IF i = 0 THEN seqs[1] ELSE g[i] \o seqs[i + 1]
             h == [k \in 1..(i + 1) |-> IF k = i + 1 THEN x ELSE g[k]]
  <2>2. x \in Seq(T)
    BY <1>1, <1>3
  <2>3. h \in [1..(i + 1) -> Seq(T)]
    BY <2>2
  <2>4. ASSUME NEW k \in 1..(i + 1)
        PROVE  h[k] = IF k = 1 THEN seqs[k] ELSE h[k - 1] \o seqs[k]
    <3>1. CASE k = i + 1
      BY <3>1
    <3>2. CASE k # i + 1
      <4>1. k \in 1..i /\ (k # 1 => k - 1 \in 1..i)
        BY <3>2
      <4>2. \A l \in 1..i : l \in 1..(i + 1) /\ l # i + 1
        OBVIOUS
      <4>3. \A l \in 1..i : h[l] = g[l]
        BY <4>2
      <4>4. h[k] = g[k] /\ (k # 1 => h[k - 1] = g[k - 1])
        BY <4>1, <4>3
      <4>5. g[k] = IF k = 1 THEN seqs[k] ELSE g[k - 1] \o seqs[k]
        BY <2>1, <4>1
      <4> QED BY <4>4, <4>5
    <3> QED BY <3>1, <3>2
  <2>5. i + 1 \in 0..n
    BY <1>3
  <2> QED BY <2>3, <2>4, <2>5
<1>4. S = 0..n
  <2> HIDE DEF S
  <2> S \in SUBSET (0..n)
    BY DEF S
  <2> QED BY <1>1, <1>2, <1>3, NaturalsByInduction
<1>a. n \in S
  <2> HIDE DEF S
  <2> QED BY <1>4
<1>5. PICK g \in [1..n -> Seq(T)] : Upto(g, n)
  BY <1>a
<1>6. g = [i \in 1..n |-> IF i = 1 THEN seqs[i] ELSE g[i - 1] \o seqs[i]]
  BY <1>5
<1>7. Flattening(g, seqs)
  BY <1>0, <1>6 DEF Flattening
<1> QED BY <1>7 DEF Flattened

(* What FlattenSeq gives: the last of these values.                         *)
LEMMA FlattenIsTheLast ==
    ASSUME NEW T, NEW seqs \in Seq(Seq(T))
    PROVE  /\ Len(seqs) = 0 => FlattenSeq(seqs) = seqs
           /\ Len(seqs) # 0 => FlattenSeq(seqs) = Flattened(seqs)[Len(seqs)]
           /\ \A i \in 1..Len(seqs) :
                Flattened(seqs)[i] = IF i = 1 THEN seqs[i] ELSE Flattened(seqs)[i - 1] \o seqs[i]
<1>1. Len(seqs) # 0 => FlattenSeq(seqs) = Flattened(seqs)[Len(seqs)]
  BY DEF FlattenSeq, Flattened, Flattening
<1>2. Len(seqs) = 0 => FlattenSeq(seqs) = seqs
  BY DEF FlattenSeq
<1>3. PICK g : g = Flattened(seqs) /\ Flattening(g, seqs)
  BY FlatteningExists
<1>4. \A i \in 1..Len(seqs) : g[i] = IF i = 1 THEN seqs[i] ELSE g[i - 1] \o seqs[i]
  BY <1>3 DEF Flattening
<1> QED BY <1>1, <1>2, <1>3, <1>4

(* Flattened, no list is the empty list.                                    *)
LEMMA FlattenNothing == FlattenSeq(<<>>) = <<>>
BY DEF FlattenSeq

(* Flattened, one list more comes behind the others.                        *)
LEMMA FlattenGrows ==
    ASSUME NEW T, NEW seqs \in Seq(Seq(T)), NEW seqs2 \in Seq(Seq(T)),
           Len(seqs2) = Len(seqs) + 1, \A i \in 1..Len(seqs) : seqs2[i] = seqs[i]
    PROVE  FlattenSeq(seqs2) = FlattenSeq(seqs) \o seqs2[Len(seqs) + 1]
<1>0. PICK n \in Nat : n = Len(seqs)
  OBVIOUS
<1>1. PICK g, h : n = Len(seqs) /\ g = Flattened(seqs) /\ h = Flattened(seqs2)
  BY <1>0
<1>2. \A i \in 1..n : g[i] = IF i = 1 THEN seqs[i] ELSE g[i - 1] \o seqs[i]
  BY <1>1, FlattenIsTheLast
<1>3. /\ \A i \in 1..(n + 1) : h[i] = IF i = 1 THEN seqs2[i] ELSE h[i - 1] \o seqs2[i]
      /\ FlattenSeq(seqs2) = h[n + 1]
  BY <1>1, FlattenIsTheLast, SMTT(30)
<1>a. n + 1 \in 1..(n + 1) /\ seqs2[n + 1] \in Seq(T)
  BY <1>1
<1>b. h[n + 1] = IF n + 1 = 1 THEN seqs2[n + 1] ELSE h[(n + 1) - 1] \o seqs2[n + 1]
  BY <1>a, <1>3
<1>4. CASE n = 0
  <2>1. FlattenSeq(seqs2) = seqs2[1] /\ seqs2[1] \in Seq(T)
    BY <1>a, <1>b, <1>3, <1>4
  <2>2. FlattenSeq(seqs) = <<>>
    <3>1. FlattenSeq(seqs) = seqs
      BY <1>1, <1>4, FlattenIsTheLast
    <3>2. seqs = <<>>
      BY <1>1, <1>4, EmptySeq
    <3> QED BY <3>1, <3>2
  <2> QED BY <1>1, <1>4, <2>1, <2>2
<1>5. CASE n # 0
  <2> DEFINE S == {i \in 0..n : i = 0 \/ g[i] = h[i]}
  <2>1. 0 \in S
    OBVIOUS
  <2>2. ASSUME NEW i \in 0..n, i \in S, i < n PROVE i + 1 \in S
    <3>1. g[i + 1] = (IF i + 1 = 1 THEN seqs[i + 1] ELSE g[i] \o seqs[i + 1])
      BY <1>2, <2>2
    <3>2. h[i + 1] = (IF i + 1 = 1 THEN seqs2[i + 1] ELSE h[i] \o seqs2[i + 1])
      BY <1>3, <2>2
    <3>0. i + 1 \in 1..n
      BY <2>2
    <3>3. seqs2[i + 1] = seqs[i + 1]
      BY <1>1, <3>0
    <3> QED BY <2>2, <3>1, <3>2, <3>3
  <2>3. S = 0..n
    <3> HIDE DEF S
    <3> S \in SUBSET (0..n)
      BY DEF S
    <3> QED BY <2>1, <2>2, NaturalsByInduction
  <2>4. n \in S
    <3> HIDE DEF S
    <3> QED BY <2>3
  <2>5. g[n] = h[n]
    BY <1>5, <2>4
  <2>6. h[n + 1] = h[n] \o seqs2[n + 1]
    <3>1. n + 1 # 1 /\ (n + 1) - 1 = n
      BY <1>5
    <3> QED BY <1>b, <3>1
  <2>7. FlattenSeq(seqs) = g[n]
    BY <1>1, <1>5, FlattenIsTheLast
  <2> QED BY <1>1, <1>3, <2>5, <2>6, <2>7
<1> QED BY <1>4, <1>5

(* Induction over sequences that grow at their end, for a set.              *)
LEMMA SequencesByInduction ==
    ASSUME NEW U, NEW P, <<>> \in P, \A s \in Seq(U), x \in U : s \in P => Append(s, x) \in P
    PROVE  Seq(U) \subseteq P
<1> SUFFICES ASSUME NEW s \in Seq(U) PROVE s \in P
  OBVIOUS
<1>1. PICK n \in Nat : n = Len(s)
  OBVIOUS
<1> DEFINE Prefix(i) == SubSeq(s, 1, i)
           S == {i \in 0..n : Prefix(i) \in P}
<1>2. 0 \in S
  <2>1. Prefix(0) = <<>>
    OBVIOUS
  <2> HIDE DEF Prefix
  <2> QED BY <2>1
<1>3. ASSUME NEW i \in 0..n, i \in S, i < n PROVE i + 1 \in S
  <2>1. i + 1 \in 1..n /\ s[i + 1] \in U
    BY <1>1, <1>3
  <2>2. SubSeq(s, 1, i) \in Seq(U)
    BY <1>1
  <2>3. Prefix(i + 1) = Append(Prefix(i), s[i + 1])
    BY <1>1, <2>1
  <2> HIDE DEF Prefix
  <2>4. Prefix(i) \in P /\ Prefix(i) \in Seq(U)
    BY <1>3, <2>2 DEF Prefix
  <2>5. Append(Prefix(i), s[i + 1]) \in P
    BY <2>1, <2>4
  <2>6. i + 1 \in 0..n
    BY <1>3
  <2> QED BY <2>3, <2>5, <2>6
<1>4. S = 0..n
  <2> HIDE DEF S
  <2> S \in SUBSET (0..n)
    BY DEF S
  <2> QED BY <1>2, <1>3, NaturalsByInduction
<1>5. n \in S
  <2> HIDE DEF S
  <2> QED BY <1>4
<1>6. SubSeq(s, 1, n) = s
  BY <1>1
<1> QED BY <1>5, <1>6

(* The sequences, under names that keep them folded: the lemmas below only  *)
(* need that lists grow at their end and are joined.                        *)
Lists(T) == Seq(T)
More(s, x) == Append(s, x)
Joined(s, t) == s \o t

(* Lists are closed under More and Joined.                                  *)
LEMMA ListTypes ==
    ASSUME NEW T, NEW s \in Lists(T)
    PROVE  /\ <<>> \in Lists(T) /\ Joined(s, <<>>) = s /\ Joined(<<>>, s) = s
           /\ \A x \in T : More(s, x) \in Lists(T) /\ More(s, x) = Joined(s, <<x>>)
           /\ \A t \in Lists(T) : Joined(s, t) \in Lists(T)
BY DEF Lists, More, Joined

(* The empty list is a list of anything.                                    *)
LEMMA NothingIsAList == \A T : <<>> \in Lists(T)
BY EmptySeq DEF Lists

(* Joining is associative.                                                  *)
LEMMA JoinedAssociates ==
    ASSUME NEW T, NEW s \in Lists(T), NEW t \in Lists(T), NEW u \in Lists(T)
    PROVE  Joined(Joined(s, t), u) = Joined(s, Joined(t, u))
BY DEF Joined, Lists

(* An element may be added before or after the joining.                     *)
LEMMA JoinedMore ==
    ASSUME NEW T, NEW s \in Lists(T), NEW t \in Lists(T), NEW x \in T
    PROVE  Joined(s, More(t, x)) = More(Joined(s, t), x)
BY DEF Joined, More, Lists

Inductive(P, T) == <<>> \in P /\ \A s \in Lists(T), x \in T : s \in P => More(s, x) \in P

(* Induction over lists: what the empty list has, and a list has with one   *)
(* element more when it has it without, every list has.                     *)
LEMMA ListsByInduction ==
    ASSUME NEW T, NEW P, Inductive(P, T)
    PROVE  Lists(T) \subseteq P
BY SequencesByInduction DEF Inductive, Lists, More

(* FlattenGrows, for folded lists.                                          *)
LEMMA FlattenMore ==
    ASSUME NEW T, NEW seqs \in Lists(Lists(T)), NEW x \in Lists(T)
    PROVE  FlattenSeq(More(seqs, x)) = Joined(FlattenSeq(seqs), x)
<1>0. PICK U : U = Seq(T)
  OBVIOUS
<1>a. seqs \in Seq(U) /\ x \in U
  BY <1>0 DEF Lists
<1>1. PICK more : more = Append(seqs, x)
  OBVIOUS
<1>2. /\ more \in Seq(U) /\ Len(more) = Len(seqs) + 1 /\ more[Len(seqs) + 1] = x
      /\ \A i \in 1..Len(seqs) : more[i] = seqs[i]
  BY <1>a, <1>1, OneMore
<1>4. FlattenSeq(more) = FlattenSeq(seqs) \o more[Len(seqs) + 1]
  BY <1>0, <1>a, <1>2, FlattenGrows
<1> QED BY <1>1, <1>2, <1>4 DEF Joined, More

(* A flattened list of lists is a list.                                     *)
LEMMA FlattenType ==
    ASSUME NEW T, NEW seqs \in Lists(Lists(T))
    PROVE  FlattenSeq(seqs) \in Lists(T)
<1> DEFINE P == {s \in Lists(Lists(T)) : FlattenSeq(s) \in Lists(T)}
<1>0. \A s : s \in P <=> s \in Lists(Lists(T)) /\ FlattenSeq(s) \in Lists(T)
  OBVIOUS
<1> HIDE DEF P
<1>1. <<>> \in P
  BY <1>0, NothingIsAList, FlattenNothing
<1>2. ASSUME NEW s \in Lists(Lists(T)), NEW x \in Lists(T), s \in P PROVE More(s, x) \in P
  <2>1. PICK y \in Lists(T) : y = FlattenSeq(s)
    BY <1>0, <1>2
  <2>2. FlattenSeq(More(s, x)) = Joined(y, x)
    BY <2>1, FlattenMore
  <2>3. Joined(y, x) \in Lists(T) /\ More(s, x) \in Lists(Lists(T))
    BY ListTypes
  <2> QED BY <1>0, <2>2, <2>3
<1>3. Inductive(P, Lists(T))
  BY <1>1, <1>2 DEF Inductive
<1> QED BY <1>0, <1>3, ListsByInduction

(* A list of one list.                                                      *)
LEMMA FlattenOne ==
    ASSUME NEW T, NEW x \in Lists(T)
    PROVE  FlattenSeq(<<x>>) = x
<1>1. <<>> \in Lists(Lists(T))
  BY NothingIsAList
<1>2. More(<<>>, x) = <<x>>
  BY DEF More
<1> QED BY <1>1, <1>2, FlattenMore, FlattenNothing, ListTypes

Maps(T, U) == [T -> U]

(* A map gives a value of its range.                                        *)
LEMMA MapsGive == \A T, U, f, x : f \in Maps(T, U) /\ x \in T => f[x] \in U
BY DEF Maps

(* What f gives for every element of seq, one after the other.              *)
Each(f, seq) == [k \in DOMAIN seq |-> f[seq[k]]]
Collected(f, seq) == FlattenSeq(Each(f, seq))

(* Each gives a list.                                                       *)
LEMMA EachType ==
    ASSUME NEW T, NEW U, NEW f \in Maps(T, U), NEW seq \in Lists(T)
    PROVE  Each(f, seq) \in Lists(U)
<1>1. PICK n \in Nat : n = Len(seq) /\ DOMAIN seq = 1..n
  BY LenProperties DEF Lists
<1>2. \A k \in 1..n : seq[k] \in T
  BY <1>1 DEF Lists
<1>3. Each(f, seq) \in [1..n -> U]
  BY <1>1, <1>2, MapsGive DEF Each
<1> QED BY <1>3, FunctionIsSeq DEF Lists

(* Each keeps the places.                                                   *)
LEMMA EachElement ==
    \A f, seq : DOMAIN Each(f, seq) = DOMAIN seq /\ \A k \in DOMAIN seq : Each(f, seq)[k] = f[seq[k]]
BY DEF Each

(* Lists are the same that have the same elements.                          *)
LEMMA SameList ==
    ASSUME NEW T, NEW s \in Lists(T), NEW t \in Lists(T), DOMAIN s = DOMAIN t,
           \A k \in DOMAIN s : s[k] = t[k]
    PROVE  s = t
<1>1. PICK n \in Nat : DOMAIN s = 1..n /\ DOMAIN t = 1..n
  BY LenProperties DEF Lists
<1>2. PICK u, v : u = s /\ v = t /\ u \in [1..n -> T] /\ v \in [1..n -> T] /\ \A k \in 1..n : u[k] = v[k]
  BY <1>1, LenProperties DEF Lists
<1>3. u = v
  BY <1>2
<1> QED BY <1>2, <1>3

After(s) == Len(s) + 1

(* Lists with the same places are as long as each other.                    *)
LEMMA AfterEnd ==
    \A S, T, s, t : s \in Lists(S) /\ t \in Lists(T) /\ DOMAIN s = DOMAIN t => After(s) = After(t)
<1> SUFFICES ASSUME NEW S, NEW T, NEW s \in Lists(S), NEW t \in Lists(T), DOMAIN s = DOMAIN t
             PROVE  After(s) = After(t)
  OBVIOUS
<1>1. PICK l \in Nat, m \in Nat : l = Len(s) /\ DOMAIN s = 1..l /\ m = Len(t) /\ DOMAIN t = 1..m
  BY LenProperties DEF Lists
<1>2. l = m
  <2>1. \A k : k \in 1..l <=> k \in 1..m
    BY <1>1
  <2>2. (l # 0 => l \in 1..m) /\ (m # 0 => m \in 1..l)
    BY <2>1
  <2> QED BY <2>2
<1> QED BY <1>1, <1>2 DEF After

Grows(more, s, n, x) ==
    /\ DOMAIN more = DOMAIN s \cup {n} /\ n \notin DOMAIN s /\ more[n] = x
    /\ \A k \in DOMAIN s : more[k] = s[k]

(* The elements of a list with one element more.                            *)
LEMMA MoreElements == \A T : \A s \in Lists(T), x \in T : Grows(More(s, x), s, After(s), x)
<1> SUFFICES ASSUME NEW T, NEW s \in Lists(T), NEW x \in T
             PROVE  Grows(More(s, x), s, After(s), x)
  OBVIOUS
<1>1. PICK n \in Nat : n = Len(s) /\ DOMAIN s = 1..n
  BY LenProperties DEF Lists
<1>2. PICK more \in Seq(T) : more = Append(s, x)
  BY OneMore DEF Lists
<1>3. Len(more) = n + 1 /\ more[n + 1] = x /\ \A i \in 1..n : more[i] = s[i]
  BY <1>1, <1>2, OneMore DEF Lists
<1>4. DOMAIN more = 1..(n + 1)
  BY <1>3
<1>5. 1..(n + 1) = 1..n \cup {n + 1} /\ n + 1 \notin 1..n
  OBVIOUS
<1>6. After(s) = n + 1 /\ More(s, x) = more
  BY <1>1, <1>2 DEF More, After
<1>7. Grows(more, s, n + 1, x)
  BY <1>1, <1>3, <1>4, <1>5 DEF Grows
<1> QED BY <1>6, <1>7

(* Each, for one element more.                                              *)
LEMMA EachMore ==
    ASSUME NEW T, NEW U, NEW f \in Maps(T, U), NEW seq \in Lists(T), NEW x \in T
    PROVE  Each(f, More(seq, x)) = More(Each(f, seq), f[x])
<1>1. PICK more \in Lists(T) : more = More(seq, x)
  BY ListTypes
<1>2. PICK g \in Lists(U), e \in Lists(U), y \in U : g = Each(f, seq) /\ e = Each(f, more) /\ y = f[x]
  BY EachType, MapsGive
<1>3. PICK h \in Lists(U) : h = More(g, y)
  BY ListTypes
<1>4. PICK n : n = After(seq)
  OBVIOUS
<1>5. DOMAIN more = DOMAIN seq \cup {n} /\ n \notin DOMAIN seq /\ more[n] = x /\ \A k \in DOMAIN seq : more[k] = seq[k]
  <2>1. Grows(More(seq, x), seq, After(seq), x)
    BY MoreElements
  <2> QED BY <1>1, <1>4, <2>1 DEF Grows
<1>7. DOMAIN g = DOMAIN seq /\ \A k \in DOMAIN seq : g[k] = f[seq[k]]
  BY <1>2, EachElement
<1>a. n = After(g)
  BY <1>4, <1>7, AfterEnd
<1>6. DOMAIN h = DOMAIN g \cup {n} /\ h[n] = y /\ \A k \in DOMAIN g : h[k] = g[k]
  <2>1. Grows(More(g, y), g, After(g), y)
    BY MoreElements
  <2> QED BY <1>3, <1>a, <2>1 DEF Grows
<1>8. DOMAIN e = DOMAIN more /\ \A k \in DOMAIN more : e[k] = f[more[k]]
  BY <1>2, EachElement
<1>9. DOMAIN e = DOMAIN h /\ \A k \in DOMAIN e : e[k] = h[k]
  BY <1>2, <1>5, <1>6, <1>7, <1>8
<1>10. e = h
  BY <1>9, SameList
<1> QED BY <1>1, <1>2, <1>3, <1>10

(* From nothing, nothing is collected.                                      *)
LEMMA CollectedNothing == \A f : Collected(f, <<>>) = <<>>
<1> SUFFICES ASSUME NEW f PROVE Collected(f, <<>>) = <<>>
  OBVIOUS
<1>1. Each(f, <<>>) = <<>>
  BY DEF Each
<1> QED BY <1>1, FlattenNothing DEF Collected

(* What is collected is a list.                                             *)
LEMMA CollectedType ==
    ASSUME NEW T, NEW V, NEW f \in Maps(T, Lists(V)), NEW seq \in Lists(T)
    PROVE  Collected(f, seq) \in Lists(V)
BY EachType, FlattenType DEF Collected

(* What one element more gives comes last.                                  *)
LEMMA CollectedMore ==
    ASSUME NEW T, NEW V, NEW f \in Maps(T, Lists(V)), NEW seq \in Lists(T), NEW x \in T
    PROVE  Collected(f, More(seq, x)) = Joined(Collected(f, seq), f[x])
<1>1. Each(f, seq) \in Lists(Lists(V)) /\ f[x] \in Lists(V)
  BY EachType, MapsGive
<1>2. Each(f, More(seq, x)) = More(Each(f, seq), f[x])
  BY EachMore
<1>3. FlattenSeq(More(Each(f, seq), f[x])) = Joined(FlattenSeq(Each(f, seq)), f[x])
  BY <1>1, FlattenMore
<1> QED BY <1>2, <1>3 DEF Collected

(* From one element, what it gives is collected.                            *)
LEMMA CollectedOne ==
    ASSUME NEW T, NEW V, NEW f \in Maps(T, Lists(V)), NEW x \in T
    PROVE  Collected(f, <<x>>) = f[x]
<1>1. <<>> \in Lists(T) /\ f[x] \in Lists(V)
  BY NothingIsAList, MapsGive
<1>2. More(<<>>, x) = <<x>>
  BY DEF More
<1> QED BY <1>1, <1>2, CollectedMore, CollectedNothing, ListTypes

(* From joined lists, what they give is joined.                             *)
LEMMA CollectedJoined ==
    ASSUME NEW T, NEW V, NEW f \in Maps(T, Lists(V)), NEW seq \in Lists(T), NEW more \in Lists(T)
    PROVE  Collected(f, Joined(seq, more)) = Joined(Collected(f, seq), Collected(f, more))
<1> DEFINE P == {s \in Lists(T) : Collected(f, Joined(seq, s)) = Joined(Collected(f, seq), Collected(f, s))}
<1>0. \A s : s \in P <=> s \in Lists(T) /\ Collected(f, Joined(seq, s)) = Joined(Collected(f, seq), Collected(f, s))
  OBVIOUS
<1> HIDE DEF P
<1>a. PICK g \in Lists(V) : g = Collected(f, seq)
  BY CollectedType
<1>1. <<>> \in P
  BY <1>0, <1>a, NothingIsAList, ListTypes, CollectedNothing
<1>2. ASSUME NEW s \in Lists(T), NEW x \in T, s \in P PROVE More(s, x) \in P
  <2>1. PICK all \in Lists(T) : all = Joined(seq, s)
    BY ListTypes
  <2>a. More(s, x) \in Lists(T)
    BY ListTypes
  <2>b. Joined(seq, More(s, x)) = More(all, x)
    BY <2>1, JoinedMore
  <2>2. Joined(seq, More(s, x)) = More(all, x) /\ More(s, x) \in Lists(T)
    BY <2>a, <2>b
  <2>3. PICK y \in Lists(V), h \in Lists(V) : y = f[x] /\ h = Collected(f, s)
    BY CollectedType, MapsGive
  <2>5. Collected(f, More(s, x)) = Joined(h, y)
    BY <2>3, CollectedMore
  <2>6. Collected(f, More(all, x)) = Joined(Collected(f, all), y)
    BY <2>3, CollectedMore
  <2>7. Collected(f, all) = Joined(g, h)
    BY <1>0, <1>2, <1>a, <2>1, <2>3
  <2>8. Joined(Joined(g, h), y) = Joined(g, Joined(h, y))
    BY JoinedAssociates
  <2>9. Collected(f, Joined(seq, More(s, x))) = Joined(Collected(f, seq), Collected(f, More(s, x)))
    BY <1>a, <2>2, <2>5, <2>6, <2>7, <2>8
  <2> QED BY <1>0, <2>2, <2>9
<1>3. Inductive(P, T)
  BY <1>1, <1>2 DEF Inductive
<1> QED BY <1>0, <1>3, ListsByInduction

(* What is collected from a flattened list is collected from its members.   *)
Collects(c, f, S) == \A s \in S : c[s] = Collected(f, s)

(* Collecting from a flattened list is flattening what is collected from    *)
(* each of its members.                                                     *)
LEMMA CollectedThroughEach ==
    ASSUME NEW T, NEW V, NEW f \in Maps(T, Lists(V)),
           NEW c \in Maps(Lists(T), Lists(V)), Collects(c, f, Lists(T)), NEW seqs \in Lists(Lists(T))
    PROVE  Collected(f, FlattenSeq(seqs)) = FlattenSeq(Each(c, seqs))
<1> DEFINE U == Lists(T)
           P == {s \in Lists(U) : Collected(f, FlattenSeq(s)) = FlattenSeq(Each(c, s))}
<1>0. \A s : s \in P <=> s \in Lists(U) /\ Collected(f, FlattenSeq(s)) = FlattenSeq(Each(c, s))
  OBVIOUS
<1> HIDE DEF P
<1>1. <<>> \in P
  <2>1. Each(c, <<>>) = <<>>
    BY DEF Each
  <2> QED BY <1>0, <2>1, NothingIsAList, FlattenNothing, CollectedNothing
<1>2. ASSUME NEW s \in Lists(U), NEW x \in U, s \in P PROVE More(s, x) \in P
  <2>1. PICK y \in U : y = FlattenSeq(s)
    BY FlattenType
  <2>2. FlattenSeq(More(s, x)) = Joined(y, x)
    BY <2>1, FlattenMore
  <2>3. Collected(f, Joined(y, x)) = Joined(Collected(f, y), Collected(f, x))
    BY CollectedJoined
  <2>4. PICK g \in Lists(Lists(V)), z \in Lists(V) : g = Each(c, s) /\ z = c[x]
    BY EachType, MapsGive
  <2>5. Each(c, More(s, x)) = More(g, z)
    BY <2>4, EachMore
  <2>6. FlattenSeq(More(g, z)) = Joined(FlattenSeq(g), z)
    BY FlattenMore
  <2>7. Collected(f, y) = FlattenSeq(g)
    BY <1>0, <1>2, <2>1, <2>4
  <2>8. Collected(f, x) = z
    BY <2>4 DEF Collects
  <2>9. Collected(f, FlattenSeq(More(s, x))) = FlattenSeq(Each(c, More(s, x)))
    BY <2>2, <2>3, <2>5, <2>6, <2>7, <2>8
  <2> QED BY <1>0, <2>9, ListTypes
<1>3. Inductive(P, U)
  BY <1>1, <1>2 DEF Inductive
<1> QED BY <1>0, <1>3, ListsByInduction

(* The same, for what is collected given as a list.                         *)
LEMMA CollectedThrough ==
    ASSUME NEW T, NEW V, NEW f \in Maps(T, Lists(V)), NEW seqs \in Lists(Lists(T)),
           NEW all \in Lists(Lists(V)), DOMAIN all = DOMAIN seqs,
           \A k \in DOMAIN seqs : all[k] = Collected(f, seqs[k])
    PROVE  Collected(f, FlattenSeq(seqs)) = FlattenSeq(all)
<1>2. \A s \in Lists(T) : Collected(f, s) \in Lists(V)
  BY CollectedType
<1>3. PICK c \in Maps(Lists(T), Lists(V)) : \A s \in Lists(T) : c[s] = Collected(f, s)
  <2>1. [s \in Lists(T) |-> Collected(f, s)] \in Maps(Lists(T), Lists(V))
    BY <1>2 DEF Maps
  <2> QED BY <2>1
<1>4. Collected(f, FlattenSeq(seqs)) = FlattenSeq(Each(c, seqs))
  BY <1>3, CollectedThroughEach DEF Collects
<1>5. PICK e \in Lists(Lists(V)) : e = Each(c, seqs)
  BY EachType
<1>6. DOMAIN e = DOMAIN seqs /\ \A k \in DOMAIN seqs : e[k] = c[seqs[k]]
  BY <1>5, EachElement
<1>7. \A k \in DOMAIN seqs : seqs[k] \in Lists(T)
  BY DEF Lists
<1>8. e = all
  BY <1>3, <1>6, <1>7, SameList
<1> QED BY <1>4, <1>5, <1>8

(* Collecting from what was collected is collecting at once.                *)
LEMMA CollectedComposes ==
    ASSUME NEW S, NEW T, NEW V, NEW u \in Maps(S, Lists(T)), NEW f \in Maps(T, Lists(V)),
           NEW h \in Maps(S, Lists(V)), \A s \in S : h[s] = Collected(f, u[s]), NEW seq \in Lists(S)
    PROVE  Collected(f, Collected(u, seq)) = Collected(h, seq)
<1>1. PICK e \in Lists(Lists(T)), all \in Lists(Lists(V)) : e = Each(u, seq) /\ all = Each(h, seq)
  BY EachType
<1>2. /\ DOMAIN e = DOMAIN seq /\ DOMAIN all = DOMAIN seq
      /\ \A k \in DOMAIN seq : e[k] = u[seq[k]] /\ all[k] = h[seq[k]]
  BY <1>1, EachElement
<1>3. \A k \in DOMAIN seq : seq[k] \in S
  BY DEF Lists
<1>4. DOMAIN all = DOMAIN e /\ \A k \in DOMAIN e : all[k] = Collected(f, e[k])
  BY <1>2, <1>3
<1>5. Collected(f, FlattenSeq(e)) = FlattenSeq(all)
  BY <1>4, CollectedThrough
<1> QED BY <1>1, <1>5 DEF Collected

(* Only what f gives for the elements matters.                              *)
LEMMA CollectedSame ==
    ASSUME NEW S, NEW V, NEW f \in Maps(S, Lists(V)), NEW seq \in Lists(S),
           NEW T, NEW h \in Maps(T, Lists(V)), NEW other \in Lists(T),
           DOMAIN other = DOMAIN seq, \A k \in DOMAIN seq : f[seq[k]] = h[other[k]]
    PROVE  Collected(f, seq) = Collected(h, other)
<1>1. PICK d \in Lists(Lists(V)), e \in Lists(Lists(V)) : d = Each(f, seq) /\ e = Each(h, other)
  BY EachType
<1>2. /\ DOMAIN d = DOMAIN seq /\ DOMAIN e = DOMAIN seq
      /\ \A k \in DOMAIN seq : d[k] = f[seq[k]] /\ e[k] = h[other[k]]
  BY <1>1, EachElement
<1>3. d = e
  BY <1>2, SameList
<1> QED BY <1>1, <1>3 DEF Collected

Single(x) == <<x>>

(* Joining one element is adding it.                                        *)
LEMMA JoinedSingle == \A T : \A s \in Lists(T), x \in T : Joined(s, Single(x)) = More(s, x)
BY DEF Single, Lists, More, Joined

(* One element each.                                                        *)
LEMMA CollectedSingly ==
    ASSUME NEW S, NEW V, NEW f \in Maps(S, Lists(V)), NEW g \in Maps(S, V),
           \A x \in S : f[x] = Single(g[x]), NEW seq \in Lists(S)
    PROVE  Collected(f, seq) = Each(g, seq)
<1> DEFINE P == {s \in Lists(S) : Collected(f, s) = Each(g, s)}
<1>0. \A s : s \in P <=> s \in Lists(S) /\ Collected(f, s) = Each(g, s)
  OBVIOUS
<1> HIDE DEF P
<1>1. <<>> \in P
  <2>1. Each(g, <<>>) = <<>>
    BY DEF Each
  <2> QED BY <1>0, <2>1, NothingIsAList, CollectedNothing
<1>2. ASSUME NEW s \in Lists(S), NEW x \in S, s \in P PROVE More(s, x) \in P
  <2>1. PICK e \in Lists(V), y \in V : e = Each(g, s) /\ y = g[x]
    BY EachType, MapsGive
  <2>2. Each(g, More(s, x)) = More(e, y)
    BY <2>1, EachMore
  <2>3. Collected(f, More(s, x)) = Joined(Collected(f, s), f[x])
    BY CollectedMore
  <2>4. f[x] = Single(y) /\ Collected(f, s) = e
    BY <1>0, <1>2, <2>1
  <2>7. More(e, y) = Joined(e, Single(y))
    BY JoinedSingle
  <2>5. More(e, y) = Joined(e, Single(y)) /\ More(s, x) \in Lists(S)
    BY <2>7, ListTypes
  <2>6. Collected(f, More(s, x)) = Each(g, More(s, x))
    BY <2>2, <2>3, <2>4, <2>5
  <2> QED BY <1>0, <2>5, <2>6
<1>3. Inductive(P, S)
  BY <1>1, <1>2 DEF Inductive
<1> QED BY <1>0, <1>3, ListsByInduction

(* The elements of a list.                                                  *)
Members(s) == {s[k] : k \in DOMAIN s}

(* The elements with one more.                                              *)
LEMMA MembersMore ==
    ASSUME NEW T, NEW s \in Lists(T), NEW x \in T
    PROVE  Members(More(s, x)) = Members(s) \cup {x}
<1>1. PICK more, n : more = More(s, x) /\ n = After(s)
  OBVIOUS
<1>2. Grows(more, s, n, x)
  BY <1>1, MoreElements
<1> QED BY <1>1, <1>2 DEF Grows, Members

(* The empty list has none.                                                 *)
LEMMA MembersNothing == Members(<<>>) = {}
BY DEF Members

(* They are what the list is a list of.                                     *)
LEMMA MembersType == \A T : \A s \in Lists(T) : Members(s) \subseteq T
BY DEF Members, Lists

(* Those of joined lists.                                                   *)
LEMMA MembersJoined ==
    ASSUME NEW T, NEW s \in Lists(T), NEW t \in Lists(T)
    PROVE  Members(Joined(s, t)) = Members(s) \cup Members(t)
<1> DEFINE P == {u \in Lists(T) : Members(Joined(s, u)) = Members(s) \cup Members(u)}
<1>0. \A u : u \in P <=> u \in Lists(T) /\ Members(Joined(s, u)) = Members(s) \cup Members(u)
  OBVIOUS
<1> HIDE DEF P
<1>1. <<>> \in P
  BY <1>0, NothingIsAList, ListTypes, MembersNothing
<1>2. ASSUME NEW u \in Lists(T), NEW x \in T, u \in P PROVE More(u, x) \in P
  <2>1. PICK j \in Lists(T), m \in Lists(T) : j = Joined(s, u) /\ m = More(u, x)
    BY ListTypes
  <2>2. Joined(s, m) = More(j, x)
    BY <2>1, JoinedMore
  <2>3. Members(More(j, x)) = Members(j) \cup {x} /\ Members(m) = Members(u) \cup {x}
    BY <2>1, MembersMore
  <2>4. Members(j) = Members(s) \cup Members(u)
    BY <1>0, <1>2, <2>1
  <2> QED BY <1>0, <2>1, <2>2, <2>3, <2>4
<1>3. Inductive(P, T)
  BY <1>1, <1>2 DEF Inductive
<1> QED BY <1>0, <1>3, ListsByInduction

(* Those of what is collected.                                              *)
LEMMA MembersCollected ==
    ASSUME NEW T, NEW V, NEW f \in Maps(T, Lists(V)), NEW seq \in Lists(T)
    PROVE  Members(Collected(f, seq)) = UNION {Members(f[x]) : x \in Members(seq)}
<1> DEFINE P == {s \in Lists(T) : Members(Collected(f, s)) = UNION {Members(f[x]) : x \in Members(s)}}
<1>0. \A s : s \in P <=> s \in Lists(T) /\ Members(Collected(f, s)) = UNION {Members(f[x]) : x \in Members(s)}
  OBVIOUS
<1> HIDE DEF P
<1>1. <<>> \in P
  BY <1>0, NothingIsAList, CollectedNothing, MembersNothing
<1>2. ASSUME NEW s \in Lists(T), NEW x \in T, s \in P PROVE More(s, x) \in P
  <2>1. PICK j \in Lists(V), y \in Lists(V), m \in Lists(T) : j = Collected(f, s) /\ y = f[x] /\ m = More(s, x)
    BY ListTypes, CollectedType, MapsGive
  <2>2. Collected(f, m) = Joined(j, y)
    BY <2>1, CollectedMore
  <2>3. Members(Joined(j, y)) = Members(j) \cup Members(y)
    BY MembersJoined
  <2>a. Members(m) = Members(s) \cup {x}
    BY <2>1, MembersMore
  <2>4. Members(j) = UNION {Members(f[z]) : z \in Members(s)}
    BY <1>0, <1>2, <2>1
  <2>5. Members(Collected(f, m)) = UNION {Members(f[z]) : z \in Members(m)}
    BY <2>1, <2>2, <2>3, <2>4, <2>a
  <2> QED BY <1>0, <2>1, <2>5
<1>3. Inductive(P, T)
  BY <1>1, <1>2 DEF Inductive
<1> QED BY <1>0, <1>3, ListsByInduction

-----------------------------------------------------------------------------
(* What the conversions read and write.                                     *)

(* A list of some is a list of more.                                        *)
LEMMA ListsGrow == \A S, T : S \subseteq T => Lists(S) \subseteq Lists(T)
<1> SUFFICES ASSUME NEW S, NEW T, S \subseteq T, NEW s \in Lists(S) PROVE s \in Lists(T)
  OBVIOUS
<1>1. PICK n \in Nat : s \in [1..n -> S]
  BY LenProperties DEF Lists
<1>2. s \in [1..n -> T]
  BY <1>1
<1> QED BY <1>2, FunctionIsSeq DEF Lists

(* The parts that the conversions write, and the messages.                  *)
Text == Lists(Pieces)
TextParts == {TextPart(t) : t \in Text}
ImageParts == {ImagePart(u) : u \in Url}
Inputs == Objects \cup {"null", "array", "scalar", "malformed"}
CallNames == Names \cup {""}
ResultNames == Names \cup {"", "unknown", Missing}
CallsMade == {CallPart(i, n, x) : i \in Ids, n \in CallNames, x \in Inputs}
ResultParts == {ResultPart(i, n, k, t) : i \in Ids, n \in ResultNames, k \in {"text", "error-text"}, t \in Text}
AnyPart == TextParts \cup ImageParts \cup CallsMade \cup ResultParts

(* What a part of text is and holds.                                        *)
LEMMA TextPartFacts == \A t \in Text : TextPart(t) \in TextParts /\ TextPart(t).type = "text" /\ TextPart(t).text = t
BY DEF TextParts, TextPart

(* What an image is and holds.                                              *)
LEMMA ImagePartFacts == \A u \in Url : ImagePart(u) \in ImageParts /\ ImagePart(u).type = "image" /\ ImagePart(u).image = u
BY DEF ImageParts, ImagePart

(* What a call is and holds.                                                *)
LEMMA CallPartFacts ==
    \A i \in Ids, n \in CallNames, x \in Inputs :
        /\ CallPart(i, n, x) \in CallsMade /\ CallPart(i, n, x).type = "tool-call"
        /\ CallPart(i, n, x).toolCallId = i /\ CallPart(i, n, x).toolName = n
BY DEF CallsMade, CallPart

(* What a result is and holds.                                              *)
LEMMA ResultPartFacts ==
    \A i \in Ids, n \in ResultNames, k \in {"text", "error-text"}, t \in Text :
        LET p == ResultPart(i, n, k, t)
        IN  /\ p \in ResultParts /\ p.type = "tool-result"
            /\ p.toolCallId = i /\ p.toolName = n /\ p.output.value = t
BY DEF ResultParts, ResultPart

(* The fields of the parts, by type.                                        *)
LEMMA PartTypes ==
    /\ \A p \in TextParts : p.type = "text" /\ p.text \in Text
    /\ \A p \in ImageParts : p.type = "image" /\ p.image \in Url
    /\ \A p \in CallsMade : p.type = "tool-call" /\ p.toolCallId \in Ids /\ p.toolName \in CallNames
    /\ \A p \in ResultParts : p.type = "tool-result" /\ p.toolCallId \in Ids /\ p.toolName \in ResultNames
                              /\ p.output.value \in Text
BY DEF TextParts, ImageParts, CallsMade, ResultParts, TextPart, ImagePart, CallPart, ResultPart

PartsBy(role) ==
    IF role = "user" THEN TextParts \cup ImageParts
    ELSE IF role = "assistant" THEN TextParts \cup CallsMade ELSE ResultParts

Roles == {"user", "assistant", "tool"}
OutMessages ==
    UNION {{Message(role, content) : content \in {c \in Lists(PartsBy(role)) : role # "user" => c # <<>>}} : role \in Roles}

(* A message with such parts is one of OutMessages, unless it is empty and  *)
(* not of the user.                                                         *)
LEMMA OutMessageIs ==
    \A role \in Roles : \A content \in Lists(PartsBy(role)) :
        (role # "user" => content # <<>>) => Message(role, content) \in OutMessages
BY DEF OutMessages

(* The two fields of a message.                                             *)
LEMMA MessageHas == \A role, content : Message(role, content).role = role /\ Message(role, content).content = content
BY DEF Message

(* The parts of any role are parts.                                         *)
LEMMA PartsByAny == \A role : PartsBy(role) \subseteq AnyPart
BY DEF PartsBy, AnyPart

(* What the messages that are written hold.                                 *)
LEMMA OutMessageHas ==
    \A m \in OutMessages :
        /\ m.role \in Roles /\ m.content \in Lists(PartsBy(m.role)) /\ m.content \in Lists(AnyPart)
        /\ m.role # "user" => m.content # <<>>
        /\ m = Message(m.role, m.content)
<1> SUFFICES ASSUME NEW m \in OutMessages
             PROVE  /\ m.role \in Roles /\ m.content \in Lists(PartsBy(m.role)) /\ m.content \in Lists(AnyPart)
                    /\ m.role # "user" => m.content # <<>>
                    /\ m = Message(m.role, m.content)
  OBVIOUS
<1>0. PICK role \in Roles :
         \E content \in Lists(PartsBy(role)) : (role # "user" => content # <<>>) /\ m = Message(role, content)
  BY DEF OutMessages
<1>1. PICK content :
         /\ content \in Lists(PartsBy(role)) /\ (role # "user" => content # <<>>)
         /\ m = Message(role, content)
  BY <1>0
<1>2. m.role = role /\ m.content = content
  BY <1>1, MessageHas
<1>3. content \in Lists(AnyPart)
  BY <1>1, ListsGrow, PartsByAny
<1> QED BY <1>1, <1>2, <1>3

(* What a client or a session may give.                                     *)
Valid(content) == content \in Content /\ content.kind # "invalid"

(* The fields of a part of a request.                                       *)
LEMMA PartHas ==
    \A p \in Part :
        /\ p.type \in {"text", "output_text", "image", "other"}
        /\ p.type \in {"text", "output_text"} => p.text \in Text
        /\ "text" \in DOMAIN p <=> p.type \in {"text", "output_text"}
        /\ p.type = "image" => p.url \in Url \cup {NoUrl}
BY DEF Part, Text, Lists

(* The fields of the content of a request.                                  *)
LEMMA ContentHas ==
    \A content : Valid(content) =>
        /\ content.kind \in {"absent", "string", "parts"}
        /\ content.kind = "string" => content.text \in Text
        /\ content.kind = "parts" => content.parts \in Lists(Part)
BY DEF Content, Valid, Text, Lists

(* The fields of a call of a request.                                       *)
LEMMA CallHas ==
    \A c \in Call : c.id \in Ids /\ c.name \in CallNames
                    /\ c.arguments \in Objects \cup {"", "null"} \cup NotArguments
BY DEF Call, CallNames

(* The fields of a message of a request.                                    *)
LEMMA ChatMessageHas ==
    \A m \in ChatMessage :
        /\ m.role \in {"system", "user", "assistant", "tool", "other"} /\ m.content \in Content
        /\ m.role = "assistant" => m.calls \in Lists(Call) /\ "calls" \in DOMAIN m
        /\ m.role = "tool" => m.id \in Ids /\ m.name \in CallNames
BY DEF ChatMessage, CallNames, Lists

(* The fields of a tool of a request.                                       *)
LEMMA ChatToolHas ==
    \A t \in ChatTool :
        t.type \in {"", "function", "other"} /\ t.name \in CallNames
        /\ t.parameters \in Objects \cup {"absent", "null", "invalid"}
BY DEF ChatTool, CallNames

(* The fields of a block of a user of Pi.                                   *)
LEMMA UserBlockHas ==
    \A b \in UserBlock : /\ b.type \in {"text", "image"}
                         /\ b.type = "text" => b.text \in Text
                         /\ b.type = "image" => b.mediaType \in MediaTypes
BY DEF UserBlock, Text, Lists

(* The fields of a block of an assistant of Pi.                             *)
LEMMA AssistantBlockHas ==
    \A b \in AssistantBlock :
        /\ b.type \in {"text", "thinking", "toolCall"}
        /\ b.type = "text" => b.text \in Text
        /\ b.type = "toolCall" => b.id \in Ids /\ b.name \in CallNames /\ b.arguments \in Values
BY DEF AssistantBlock, Text, Lists, CallNames

(* The fields of a message of Pi.                                           *)
LEMMA PiMessageHas ==
    \A m \in PiMessage :
        /\ m.role \in {"user", "assistant", "toolResult"}
        /\ m.role = "user" => IF "text" \in DOMAIN m THEN m.text \in Text ELSE m.blocks \in Lists(UserBlock)
        /\ m.role = "assistant" => m.blocks \in Lists(AssistantBlock) /\ "calls" \notin DOMAIN m
        /\ m.role = "toolResult" => m.id \in Ids /\ m.toolName \in Names \cup {"", Missing}
                                    /\ m.texts \in Lists(Text) /\ m.isError \in BOOLEAN
BY DEF PiMessage, Text, Lists

(* Their texts.                                                             *)
TextOfPart == [p \in Part |-> IF p.type \in {"text", "output_text"} THEN p.text ELSE <<>>]

(* The text of a part is a text.                                            *)
LEMMA TextOfPartType == TextOfPart \in Maps(Part, Text)
BY PartHas, NothingIsAList DEF TextOfPart, Maps, Text

(* textOf of convert.go, of the three kinds of content.                     *)
LEMMA TextOfIs ==
    \A content : Valid(content) =>
        /\ content.kind = "absent" => TextOf(content) = <<>>
        /\ content.kind = "string" => TextOf(content) = content.text
        /\ content.kind = "parts" => TextOf(content) = Collected(TextOfPart, content.parts)
<1> SUFFICES ASSUME NEW content, Valid(content)
             PROVE  /\ content.kind = "absent" => TextOf(content) = <<>>
                    /\ content.kind = "string" => TextOf(content) = content.text
                    /\ content.kind = "parts" => TextOf(content) = Collected(TextOfPart, content.parts)
  OBVIOUS
<1>1. CASE content.kind = "parts"
  <2>1. PICK seq \in Lists(Part) : seq = content.parts
    BY <1>1, ContentHas
  <2>2. \A k \in DOMAIN seq : seq[k] \in Part
    BY DEF Lists
  <2>3. [k \in DOMAIN seq |-> IF seq[k].type \in {"text", "output_text"} THEN seq[k].text ELSE <<>>] = Each(TextOfPart, seq)
    BY <2>2 DEF Each, TextOfPart
  <2>4. TextOf(content) = FlattenSeq([k \in DOMAIN seq |-> IF seq[k].type \in {"text", "output_text"} THEN seq[k].text ELSE <<>>])
    BY <1>1, <2>1 DEF TextOf, OfEach
  <2> QED BY <1>1, <2>1, <2>3, <2>4 DEF Collected
<1>2. CASE content.kind # "parts"
  BY <1>2 DEF TextOf
<1> QED BY <1>1, <1>2

(* It gives a text.                                                         *)
LEMMA TextOfType == \A content : Valid(content) => TextOf(content) \in Text
<1> SUFFICES ASSUME NEW content, Valid(content) PROVE TextOf(content) \in Text
  OBVIOUS
<1>1. CASE content.kind = "parts"
  BY <1>1, ContentHas, TextOfIs, TextOfPartType, CollectedType DEF Text
<1>2. CASE content.kind # "parts"
  BY <1>2, ContentHas, TextOfIs, NothingIsAList DEF Text
<1> QED BY <1>1, <1>2

(* A text that is empty makes no part.                                      *)
LEMMA NonEmptyIs ==
    \A text \in Text : IF text = <<>> THEN NonEmpty(text) = <<>> ELSE NonEmpty(text) = Single(TextPart(text))
BY DEF NonEmpty, Single

(* One element is a list, and not the empty one.                            *)
LEMMA SingleType == \A T : \A x \in T : Single(x) \in Lists(T) /\ Single(x) # <<>>
BY DEF Single, Lists

(* A text makes a list of parts.                                            *)
LEMMA NonEmptyType == \A text \in Text : NonEmpty(text) \in Lists(TextParts)
BY NonEmptyIs, NothingIsAList, SingleType, TextPartFacts

UserPartOf == [p \in Part |-> UserPart(p)]

(* What a part of a request becomes.                                        *)
LEMMA UserPartIs ==
    \A p \in Part :
        /\ p.type = "text" => UserPart(p) = NonEmpty(p.text)
        /\ p.type = "image" /\ p.url # NoUrl => UserPart(p) = Single(ImagePart(p.url)) /\ p.url \in Url
        /\ p.type # "text" /\ ~(p.type = "image" /\ p.url # NoUrl) => UserPart(p) = <<>>
BY PartHas DEF UserPart, Single

(* It becomes parts of a user.                                              *)
LEMMA UserPartType == \A p \in Part : UserPart(p) \in Lists(PartsBy("user"))
<1> SUFFICES ASSUME NEW p \in Part PROVE UserPart(p) \in Lists(PartsBy("user"))
  OBVIOUS
<1>1. TextParts \subseteq PartsBy("user") /\ ImageParts \subseteq PartsBy("user")
  BY DEF PartsBy
<1>2. CASE p.type = "text"
  <2>1. UserPart(p) \in Lists(TextParts)
    BY <1>2, UserPartIs, PartHas, NonEmptyType
  <2> QED BY <1>1, <2>1, ListsGrow
<1>3. CASE p.type = "image" /\ p.url # NoUrl
  <2>1. UserPart(p) \in Lists(ImageParts)
    BY <1>3, UserPartIs, ImagePartFacts, SingleType
  <2> QED BY <1>1, <2>1, ListsGrow
<1>4. CASE p.type # "text" /\ ~(p.type = "image" /\ p.url # NoUrl)
  BY <1>4, UserPartIs, NothingIsAList
<1> QED BY <1>2, <1>3, <1>4

(* The same, for all parts.                                                 *)
LEMMA UserPartOfType == UserPartOf \in Maps(Part, Lists(PartsBy("user")))
BY UserPartType DEF UserPartOf, Maps

(* What the content of a user becomes, by kind.                             *)
LEMMA UserContentIs ==
    \A content : Valid(content) =>
        /\ content.kind = "absent" => UserContent(content) = <<>>
        /\ content.kind = "string" => UserContent(content) = Single(TextPart(content.text))
        /\ content.kind = "parts" => UserContent(content) = Collected(UserPartOf, content.parts)
<1> SUFFICES ASSUME NEW content, Valid(content)
             PROVE  /\ content.kind = "absent" => UserContent(content) = <<>>
                    /\ content.kind = "string" => UserContent(content) = Single(TextPart(content.text))
                    /\ content.kind = "parts" => UserContent(content) = Collected(UserPartOf, content.parts)
  OBVIOUS
<1>1. CASE content.kind = "parts"
  <2>1. PICK seq \in Lists(Part) : seq = content.parts
    BY <1>1, ContentHas
  <2>2. \A k \in DOMAIN seq : seq[k] \in Part
    BY DEF Lists
  <2>3. [k \in DOMAIN seq |-> UserPart(seq[k])] = Each(UserPartOf, seq)
    BY <2>2 DEF Each, UserPartOf
  <2>4. UserContent(content) = FlattenSeq([k \in DOMAIN seq |-> UserPart(seq[k])])
    BY <1>1, <2>1 DEF UserContent, OfEach
  <2> QED BY <1>1, <2>1, <2>3, <2>4 DEF Collected
<1>2. CASE content.kind # "parts"
  BY <1>2 DEF UserContent, Single
<1> QED BY <1>1, <1>2

(* It becomes a list of parts of a user.                                    *)
LEMMA UserContentType == \A content : Valid(content) => UserContent(content) \in Lists(PartsBy("user"))
<1> SUFFICES ASSUME NEW content, Valid(content) PROVE UserContent(content) \in Lists(PartsBy("user"))
  OBVIOUS
<1>1. CASE content.kind = "parts"
  BY <1>1, ContentHas, UserContentIs, UserPartOfType, CollectedType
<1>2. CASE content.kind = "string"
  <2>1. TextPart(content.text) \in PartsBy("user")
    BY <1>2, ContentHas, TextPartFacts DEF PartsBy
  <2> QED BY <1>2, <2>1, UserContentIs, SingleType
<1>3. CASE content.kind = "absent"
  BY <1>3, UserContentIs, NothingIsAList
<1> QED BY <1>1, <1>2, <1>3, ContentHas

(* The calls of a message.                                                  *)
CallPartOf == [c \in Call |-> CallPart(c.id, c.name, Decoded(c.arguments))]

(* What a call of a request becomes.                                        *)
LEMMA CallPartOfType ==
    \A c \in Call : /\ CallPartOf[c] \in CallsMade /\ CallPartOf[c].type = "tool-call"
                    /\ CallPartOf[c].toolCallId = c.id /\ CallPartOf[c].toolName = c.name
<1> SUFFICES ASSUME NEW c \in Call
             PROVE  /\ CallPartOf[c] \in CallsMade /\ CallPartOf[c].type = "tool-call"
                    /\ CallPartOf[c].toolCallId = c.id /\ CallPartOf[c].toolName = c.name
  OBVIOUS
<1>1. Decoded(c.arguments) \in Inputs
  BY CallHas, ObjectsAssumption DEF Decoded, Inputs, NotArguments
<1>2. CallPartOf[c] = CallPart(c.id, c.name, Decoded(c.arguments))
  BY DEF CallPartOf
<1>3. PICK i \in Ids, n \in CallNames, x \in Inputs : i = c.id /\ n = c.name /\ x = Decoded(c.arguments)
  BY <1>1, CallHas
<1>4. PICK p : p = CallPart(i, n, x)
  OBVIOUS
<1>5. p \in CallsMade /\ p.type = "tool-call" /\ p.toolCallId = i /\ p.toolName = n
  BY <1>4, CallPartFacts
<1> QED BY <1>2, <1>3, <1>4, <1>5

(* It becomes a call.                                                       *)
LEMMA CallPartOfMaps == CallPartOf \in Maps(Call, CallsMade)
BY CallPartOfType DEF CallPartOf, Maps

(* The calls become calls one by one.                                       *)
LEMMA CallPartsAre == \A calls \in Lists(Call) : CallParts(calls) = Each(CallPartOf, calls)
<1> SUFFICES ASSUME NEW calls \in Lists(Call) PROVE CallParts(calls) = Each(CallPartOf, calls)
  OBVIOUS
<1>1. \A k \in DOMAIN calls : calls[k] \in Call
  BY DEF Lists
<1> QED BY <1>1 DEF CallParts, Each, CallPartOf

(* They become a list of calls.                                             *)
LEMMA CallPartsType == \A calls \in Lists(Call) : CallParts(calls) \in Lists(CallsMade)
BY CallPartsAre, CallPartOfMaps, EachType

(* What a message of the assistant becomes.                                 *)
AssistantContent(m) == Joined(NonEmpty(TextOf(m.content)), CallParts(m.calls))

(* An answer becomes parts of an assistant.                                 *)
LEMMA AssistantContentType ==
    \A m \in ChatMessage : m.role = "assistant" /\ Valid(m.content) =>
        /\ NonEmpty(TextOf(m.content)) \in Lists(PartsBy("assistant"))
        /\ CallParts(m.calls) \in Lists(PartsBy("assistant"))
        /\ AssistantContent(m) \in Lists(PartsBy("assistant"))
<1> SUFFICES ASSUME NEW m \in ChatMessage, m.role = "assistant", Valid(m.content)
             PROVE  /\ NonEmpty(TextOf(m.content)) \in Lists(PartsBy("assistant"))
                    /\ CallParts(m.calls) \in Lists(PartsBy("assistant"))
                    /\ AssistantContent(m) \in Lists(PartsBy("assistant"))
  OBVIOUS
<1>1. TextParts \subseteq PartsBy("assistant") /\ CallsMade \subseteq PartsBy("assistant")
  BY DEF PartsBy
<1>2. PICK t, c : t = NonEmpty(TextOf(m.content)) /\ c = CallParts(m.calls)
  OBVIOUS
<1>3. t \in Lists(TextParts) /\ c \in Lists(CallsMade)
  BY <1>2, TextOfType, NonEmptyType, CallPartsType, ChatMessageHas
<1>4. t \in Lists(PartsBy("assistant")) /\ c \in Lists(PartsBy("assistant"))
  BY <1>1, <1>3, ListsGrow
<1>5. Joined(t, c) \in Lists(PartsBy("assistant"))
  BY <1>4, ListTypes
<1> QED BY <1>2, <1>4, <1>5 DEF AssistantContent

(* What the messages of a session become.                                   *)
PiUserPartOf == [b \in UserBlock |-> PiUserPart(b)]

(* A block of a user becomes a part of a user.                              *)
LEMMA PiUserPartOfType == PiUserPartOf \in Maps(UserBlock, PartsBy("user"))
<1> SUFFICES ASSUME NEW b \in UserBlock PROVE PiUserPart(b) \in PartsBy("user")
  BY DEF PiUserPartOf, Maps
<1>1. CASE b.type = "text"
  BY <1>1, UserBlockHas, TextPartFacts DEF PiUserPart, PartsBy
<1>2. CASE b.type = "image"
  <2>1. [data |-> TRUE, mediaType |-> b.mediaType] \in Url
    BY <1>2, UserBlockHas DEF Url
  <2> QED BY <1>2, <2>1, ImagePartFacts DEF PiUserPart, PartsBy
<1> QED BY <1>1, <1>2, UserBlockHas

(* The blocks of a user become parts one by one.                            *)
LEMMA PiUserContentIs ==
    \A m \in PiMessage : m.role = "user" =>
        IF "text" \in DOMAIN m THEN PiUserContent(m) = Single(TextPart(m.text))
        ELSE PiUserContent(m) = Each(PiUserPartOf, m.blocks)
<1> SUFFICES ASSUME NEW m \in PiMessage, m.role = "user"
             PROVE  IF "text" \in DOMAIN m THEN PiUserContent(m) = Single(TextPart(m.text))
                    ELSE PiUserContent(m) = Each(PiUserPartOf, m.blocks)
  OBVIOUS
<1>1. CASE "text" \in DOMAIN m
  BY <1>1 DEF PiUserContent, Single
<1>2. CASE "text" \notin DOMAIN m
  <2>1. PICK seq \in Lists(UserBlock) : seq = m.blocks
    BY <1>2, PiMessageHas
  <2>2. \A k \in DOMAIN seq : seq[k] \in UserBlock
    BY DEF Lists
  <2>3. [k \in DOMAIN seq |-> PiUserPart(seq[k])] = Each(PiUserPartOf, seq)
    BY <2>2 DEF Each, PiUserPartOf
  <2> QED BY <1>2, <2>1, <2>3 DEF PiUserContent
<1> QED BY <1>1, <1>2

(* They become a list of parts of a user.                                   *)
LEMMA PiUserContentType ==
    \A m \in PiMessage : m.role = "user" => PiUserContent(m) \in Lists(PartsBy("user"))
<1> SUFFICES ASSUME NEW m \in PiMessage, m.role = "user" PROVE PiUserContent(m) \in Lists(PartsBy("user"))
  OBVIOUS
<1>1. CASE "text" \in DOMAIN m
  <2>1. TextPart(m.text) \in PartsBy("user")
    BY <1>1, PiMessageHas, TextPartFacts DEF PartsBy
  <2> QED BY <1>1, <2>1, PiUserContentIs, SingleType
<1>2. CASE "text" \notin DOMAIN m
  <2>1. PICK seq \in Lists(UserBlock) : seq = m.blocks
    BY <1>2, PiMessageHas
  <2>2. PiUserContent(m) = Each(PiUserPartOf, seq)
    BY <1>2, <2>1, PiUserContentIs
  <2> QED BY <2>2, PiUserPartOfType, EachType
<1> QED BY <1>1, <1>2

PiAssistantPartOf == [b \in AssistantBlock |-> PiAssistantPart(b)]
PiInput(arguments) == IF arguments = "null" THEN EmptyObject ELSE arguments

(* What a block of an assistant becomes.                                    *)
LEMMA PiAssistantPartIs ==
    \A b \in AssistantBlock :
        /\ b.type = "text" => PiAssistantPart(b) = NonEmpty(b.text)
        /\ b.type = "toolCall" => PiAssistantPart(b) = Single(CallPart(b.id, b.name, PiInput(b.arguments)))
                                  /\ PiInput(b.arguments) \in Inputs
        /\ b.type = "thinking" => PiAssistantPart(b) = <<>>
<1> SUFFICES ASSUME NEW b \in AssistantBlock
             PROVE  /\ b.type = "text" => PiAssistantPart(b) = NonEmpty(b.text)
                    /\ b.type = "toolCall" => PiAssistantPart(b) = Single(CallPart(b.id, b.name, PiInput(b.arguments)))
                                              /\ PiInput(b.arguments) \in Inputs
                    /\ b.type = "thinking" => PiAssistantPart(b) = <<>>
  OBVIOUS
<1>1. ASSUME b.type = "toolCall" PROVE PiInput(b.arguments) \in Inputs
  BY <1>1, AssistantBlockHas, ObjectsAssumption DEF PiInput, Inputs, Values
<1>2. b.type = "toolCall" => PiAssistantPart(b) = Single(CallPart(b.id, b.name, PiInput(b.arguments)))
  BY DEF PiAssistantPart, Single, PiInput
<1>3. b.type = "text" => PiAssistantPart(b) = NonEmpty(b.text)
  BY DEF PiAssistantPart, NonEmpty
<1>4. b.type = "thinking" => PiAssistantPart(b) = <<>>
  BY DEF PiAssistantPart
<1> QED BY <1>1, <1>2, <1>3, <1>4

(* It becomes parts of an assistant.                                        *)
LEMMA PiAssistantPartOfType == PiAssistantPartOf \in Maps(AssistantBlock, Lists(PartsBy("assistant")))
<1> SUFFICES ASSUME NEW b \in AssistantBlock PROVE PiAssistantPart(b) \in Lists(PartsBy("assistant"))
  BY DEF PiAssistantPartOf, Maps
<1>1. TextParts \subseteq PartsBy("assistant") /\ CallsMade \subseteq PartsBy("assistant")
  BY DEF PartsBy
<1>2. CASE b.type = "text"
  <2>1. PiAssistantPart(b) \in Lists(TextParts)
    BY <1>2, PiAssistantPartIs, AssistantBlockHas, NonEmptyType
  <2> QED BY <1>1, <2>1, ListsGrow
<1>3. CASE b.type = "toolCall"
  <2>1. PiAssistantPart(b) \in Lists(CallsMade)
    BY <1>3, PiAssistantPartIs, AssistantBlockHas, CallPartFacts, SingleType
  <2> QED BY <1>1, <2>1, ListsGrow
<1>4. CASE b.type = "thinking"
  BY <1>4, PiAssistantPartIs, NothingIsAList
<1> QED BY <1>2, <1>3, <1>4, AssistantBlockHas

(* What blocks of an assistant become, is collected from them.              *)
LEMMA PiAssistantContentIs ==
    \A seq \in Lists(AssistantBlock) : PiAssistantContent(seq) = Collected(PiAssistantPartOf, seq)
<1> SUFFICES ASSUME NEW seq \in Lists(AssistantBlock)
             PROVE  PiAssistantContent(seq) = Collected(PiAssistantPartOf, seq)
  OBVIOUS
<1>1. \A k \in DOMAIN seq : seq[k] \in AssistantBlock
  BY DEF Lists
<1>2. [k \in DOMAIN seq |-> PiAssistantPart(seq[k])] = Each(PiAssistantPartOf, seq)
  BY <1>1 DEF Each, PiAssistantPartOf
<1> QED BY <1>2 DEF PiAssistantContent, OfEach, Collected

(* They become a list of parts of an assistant.                             *)
LEMMA PiAssistantContentType ==
    \A seq \in Lists(AssistantBlock) : PiAssistantContent(seq) \in Lists(PartsBy("assistant"))
BY PiAssistantContentIs, PiAssistantPartOfType, CollectedType

(* Results.                                                                 *)
LEMMA FirstNonBlankIs ==
    \A a, b : FirstNonBlank(<<a, b, "unknown">>) = IF a # "" THEN a ELSE IF b # "" THEN b ELSE "unknown"
<1> SUFFICES ASSUME NEW a, NEW b
             PROVE FirstNonBlank(<<a, b, "unknown">>) = IF a # "" THEN a ELSE IF b # "" THEN b ELSE "unknown"
  OBVIOUS
<1>1. PICK names : names = <<a, b, "unknown">>
  OBVIOUS
<1>2. DOMAIN names = 1..3 /\ names[1] = a /\ names[2] = b /\ names[3] = "unknown"
  BY <1>1
<1>3. PICK given : given = {k \in DOMAIN names : names[k] # ""}
  OBVIOUS
<1>a. \A k : k \in given <=> k \in 1..3 /\ names[k] # ""
  BY <1>2, <1>3
<1>4. /\ given \subseteq 1..3 /\ 3 \in given
      /\ 1 \in given <=> a # ""
      /\ 2 \in given <=> b # ""
  <2>1. names[3] # "" /\ 3 \in 1..3 /\ 2 \in 1..3 /\ 1 \in 1..3
    BY <1>2
  <2>2. 3 \in given /\ given \subseteq 1..3
    BY <1>a, <2>1
  <2>3. (1 \in given <=> names[1] # "") /\ (2 \in given <=> names[2] # "")
    BY <1>a, <2>1
  <2> QED BY <1>2, <2>2, <2>3
<1>5. PICK least : least = CHOOSE k \in given : \A l \in given : k <= l
  OBVIOUS
<1>6. \E k \in given : \A l \in given : k <= l
  <2>1. \A l \in given : l \in 1..3
    BY <1>4
  <2>2. PICK k \in 1..3 : k = IF 1 \in given THEN 1 ELSE IF 2 \in given THEN 2 ELSE 3
    OBVIOUS
  <2>3. k \in given
    BY <1>4, <2>2
  <2>4. ASSUME NEW l \in given PROVE k <= l
    <3>1. l \in 1..3
      BY <2>1
    <3>2. l = 1 \/ l = 2 \/ l = 3
      BY <3>1
    <3>3. (l = 1 => k = 1) /\ (l = 2 => k <= 2)
      BY <2>2, <2>4
    <3> QED BY <2>2, <3>2, <3>3
  <2> QED BY <2>3, <2>4
<1>7. least \in given /\ \A l \in given : least <= l
  BY <1>5, <1>6
<1>8. least = IF 1 \in given THEN 1 ELSE IF 2 \in given THEN 2 ELSE 3
  <2>1. least \in 1..3 /\ least <= 3
    BY <1>4, <1>7
  <2>2. (1 \in given => least <= 1) /\ (2 \in given => least <= 2)
    BY <1>7
  <2> QED BY <1>7, <2>1, <2>2
<1>b. least = IF a # "" THEN 1 ELSE IF b # "" THEN 2 ELSE 3
  BY <1>4, <1>8
<1>9. FirstNonBlank(names) = names[least]
  BY <1>3, <1>4, <1>5 DEF FirstNonBlank
<1> QED BY <1>1, <1>2, <1>b, <1>9

(* A list with one element more is not empty.                               *)
LEMMA MoreIsSomething == \A T : \A s \in Lists(T), x \in T : More(s, x) # <<>>
<1> SUFFICES ASSUME NEW T, NEW s \in Lists(T), NEW x \in T PROVE More(s, x) # <<>>
  OBVIOUS
<1>1. PICK m, n : m = More(s, x) /\ n = After(s)
  OBVIOUS
<1>2. Grows(m, s, n, x)
  BY <1>1, MoreElements
<1>3. n \in DOMAIN m
  BY <1>2 DEF Grows
<1>4. m # <<>>
  BY <1>3
<1> QED BY <1>1, <1>4

(* Its length is the place of that element.                                 *)
LEMMA LengthMore == \A T : \A s \in Lists(T), x \in T : Len(More(s, x)) = After(s)
BY OneMore DEF After, More, Lists

(* A list that is not empty has a last element.                             *)
LEMMA ListEnds ==
    ASSUME NEW T, NEW s \in Lists(T), s # <<>>
    PROVE  \E front \in Lists(T), x \in T : s = More(front, x) /\ s[Len(s)] = x /\ DOMAIN s = 1..Len(s) /\ Len(s) \in DOMAIN s
<1>1. PICK n \in Nat : n = Len(s) /\ DOMAIN s = 1..n /\ n # 0
  BY LenProperties, EmptySeq DEF Lists
<1>a. PICK i \in 0..n : i = n - 1
  BY <1>1
<1>2. PICK front \in Seq(T) : front = SubSeq(s, 1, i)
  <2>1. SubSeq(s, 1, i) \in Seq(T)
    BY <1>1 DEF Lists
  <2> QED BY <2>1
<1>3. s[n] \in T
  BY <1>1 DEF Lists
<1>4. s = Append(front, s[n])
  BY <1>1, <1>a, <1>2 DEF Lists
<1> QED BY <1>1, <1>2, <1>3, <1>4 DEF Lists, More

(* A result makes a message of its own or joins the last.                   *)
JoinsLast(list) == list # <<>> /\ Last(list).role = "tool"

(* A result joins the message of results that is last.                      *)
LEMMA AddResultJoins ==
    ASSUME NEW list \in Lists(OutMessages), JoinsLast(list), NEW r \in ResultParts
    PROVE  \E front \in Lists(OutMessages), c \in Lists(ResultParts) :
              /\ c # <<>> /\ Message("tool", c) \in OutMessages /\ Message("tool", More(c, r)) \in OutMessages
              /\ list = More(front, Message("tool", c))
              /\ AddResult(list, r) = More(front, Message("tool", More(c, r)))
<1>1. PICK front \in Lists(OutMessages), m \in OutMessages :
          list = More(front, m) /\ list[Len(list)] = m /\ DOMAIN list = 1..Len(list) /\ Len(list) \in DOMAIN list
  BY ListEnds DEF JoinsLast
<1>2. m.role = "tool"
  BY <1>1 DEF JoinsLast, Last
<1>3. PICK c : c = m.content
  OBVIOUS
<1>4. c \in Lists(ResultParts) /\ c # <<>> /\ m = Message("tool", c)
  BY <1>2, <1>3, OutMessageHas DEF PartsBy
<1>5. PICK d \in Lists(ResultParts) : d = More(c, r) /\ d # <<>>
  <2>1. More(c, r) \in Lists(ResultParts)
    BY <1>4, ListTypes
  <2>2. More(c, r) # <<>>
    BY <1>4, MoreIsSomething
  <2> QED BY <2>1, <2>2
<1>6. Message("tool", d) \in OutMessages
  BY <1>5, OutMessageIs DEF Roles, PartsBy
<1>7. AddResult(list, r) = [list EXCEPT ![Len(list)] = [@ EXCEPT !.content = d]]
  BY <1>1, <1>3, <1>5 DEF AddResult, JoinsLast, More
<1>8. [m EXCEPT !.content = d] = Message("tool", d)
  BY <1>4 DEF Message
<1>9. AddResult(list, r) = [list EXCEPT ![Len(list)] = Message("tool", d)]
  BY <1>1, <1>7, <1>8
<1>10. \A x \in OutMessages : [list EXCEPT ![Len(list)] = x] = More(front, x)
  <2> SUFFICES ASSUME NEW x \in OutMessages PROVE [list EXCEPT ![Len(list)] = x] = More(front, x)
    OBVIOUS
  <2>0. PICK a \in Lists(OutMessages) : a = More(front, x)
    BY ListTypes
  <2>1. PICK n : a = More(front, x) /\ n = After(front)
    BY <2>0
  <2>2. Grows(a, front, n, x) /\ Grows(list, front, n, m)
    BY <1>1, <2>1, MoreElements
  <2>3. n = Len(list)
    BY <1>1, <2>1, LengthMore
  <2>4. PICK b : b = [list EXCEPT ![Len(list)] = x]
    OBVIOUS
  <2>5. DOMAIN b = DOMAIN a /\ \A k \in DOMAIN b : b[k] = a[k]
    BY <2>2, <2>3, <2>4 DEF Grows
  <2>6. b \in Lists(OutMessages)
    <3>1. PICK l \in Nat : DOMAIN list = 1..l
      BY LenProperties DEF Lists
    <3>2. list \in [1..l -> OutMessages]
      BY <3>1 DEF Lists
    <3>3. b \in [1..l -> OutMessages]
      BY <2>4, <3>2
    <3> QED BY <3>3, FunctionIsSeq DEF Lists
  <2> QED BY <2>1, <2>4, <2>5, <2>6, SameList
<1> QED BY <1>1, <1>4, <1>5, <1>6, <1>9, <1>10

(* Behind another message, a result starts a message.                       *)
LEMMA AddResultStarts ==
    ASSUME NEW list \in Lists(OutMessages), ~JoinsLast(list), NEW r \in ResultParts
    PROVE  /\ Message("tool", Single(r)) \in OutMessages
           /\ AddResult(list, r) = More(list, Message("tool", Single(r)))
<1>1. Message("tool", Single(r)) \in OutMessages
  BY SingleType, OutMessageIs DEF Roles, PartsBy
<1>2. AddResult(list, r) = More(list, Message("tool", Single(r)))
  BY DEF AddResult, JoinsLast, More, Single
<1> QED BY <1>1, <1>2

-----------------------------------------------------------------------------
(* What a turn is on either road.                                           *)

(* A conversation that both roads can carry is one that each can.           *)
TurnCall == [id : Ids, name : Names, arguments : Objects]
ChatImageOf == [i \in MediaTypes |-> [type |-> "image", url |-> [data |-> TRUE, mediaType |-> i]]]
PiImageOf == [i \in MediaTypes |-> [type |-> "image", mediaType |-> i]]
PiCallOf == [c \in TurnCall |-> [type |-> "toolCall", id |-> c.id, name |-> c.name, arguments |-> c.arguments]]
ChatText(t) == [type |-> "text", text |-> t]
Thought == [type |-> "thinking"]

(* The fields of a turn.                                                    *)
LEMMA TurnHas ==
    \A t \in Turn :
        /\ t.by \in {"user", "assistant", "tool"} /\ t.text \in Text
        /\ t.by = "user" => t.images \in Lists(MediaTypes) /\ t.text # <<>>
        /\ t.by = "assistant" => t.calls \in Lists(TurnCall)
        /\ t.by = "tool" => t.id \in Ids /\ t.toolName \in Names
BY DEF Turn, NonEmptyTexts, TurnCall, Text, Lists

(* Calls of a turn are calls that a request may hold.                       *)
LEMMA TurnCalls == TurnCall \subseteq Call
BY DEF TurnCall, Call

(* An image of a turn, in a request.                                        *)
LEMMA ChatImageOfType == ChatImageOf \in Maps(MediaTypes, Part)
BY DEF ChatImageOf, Maps, Part, Url

(* An image of a turn, in a session of Pi.                                  *)
LEMMA PiImageOfType == PiImageOf \in Maps(MediaTypes, UserBlock)
BY DEF PiImageOf, Maps, UserBlock

(* A call of a turn, in a session of Pi.                                    *)
LEMMA PiCallOfType == PiCallOf \in Maps(TurnCall, AssistantBlock)
BY DEF PiCallOf, Maps, AssistantBlock, TurnCall, Values

(* A text, on both roads.                                                   *)
LEMMA ChatTextType == \A t \in Text : ChatText(t) \in Part /\ ChatText(t) \in UserBlock /\ ChatText(t) \in AssistantBlock
BY DEF ChatText, Part, UserBlock, AssistantBlock, Text, Lists

(* A thought is a block of an assistant of Pi.                              *)
LEMMA ThoughtType == Thought \in AssistantBlock
BY DEF Thought, AssistantBlock

ChatParts(t) == Joined(Single(ChatText(t.text)), Each(ChatImageOf, t.images))
PiBlocks(t) == Joined(Single(ChatText(t.text)), Each(PiImageOf, t.images))
PiAnswer(t) == Joined(More(Single(Thought), ChatText(t.text)), Each(PiCallOf, t.calls))
ChatContent(t) == IF t.text = <<>> THEN [kind |-> "absent"] ELSE [kind |-> "string", text |-> t.text]

(* A turn, as a message of a request.                                       *)
LEMMA ChatMessageIs ==
    \A t \in Turn :
        /\ t.by = "user" => /\ AsChatMessage(t) = [role |-> "user", content |-> [kind |-> "parts", parts |-> ChatParts(t)]]
                            /\ ChatParts(t) \in Lists(Part)
        /\ t.by = "assistant" => AsChatMessage(t) = [role |-> "assistant", calls |-> t.calls, content |-> ChatContent(t)]
        /\ t.by = "tool" => AsChatMessage(t) = [role |-> "tool", id |-> t.id, name |-> "", content |-> [kind |-> "string", text |-> t.text]]
<1> SUFFICES ASSUME NEW t \in Turn
             PROVE  /\ t.by = "user" => /\ AsChatMessage(t) = [role |-> "user", content |-> [kind |-> "parts", parts |-> ChatParts(t)]]
                                        /\ ChatParts(t) \in Lists(Part)
                    /\ t.by = "assistant" => AsChatMessage(t) = [role |-> "assistant", calls |-> t.calls, content |-> ChatContent(t)]
                    /\ t.by = "tool" => AsChatMessage(t) = [role |-> "tool", id |-> t.id, name |-> "", content |-> [kind |-> "string", text |-> t.text]]
  OBVIOUS
<1>1. ASSUME t.by = "user"
      PROVE  /\ AsChatMessage(t) = [role |-> "user", content |-> [kind |-> "parts", parts |-> ChatParts(t)]]
             /\ ChatParts(t) \in Lists(Part)
  <2>1. PICK images \in Lists(MediaTypes) : images = t.images
    BY <1>1, TurnHas
  <2>2. \A k \in DOMAIN images : images[k] \in MediaTypes
    BY DEF Lists
  <2>3. [k \in DOMAIN images |-> [type |-> "image", url |-> [data |-> TRUE, mediaType |-> images[k]]]] = Each(ChatImageOf, images)
    BY <2>2 DEF Each, ChatImageOf
  <2>4. ChatParts(t) = <<[type |-> "text", text |-> t.text]>> \o [k \in DOMAIN images |-> [type |-> "image", url |-> [data |-> TRUE, mediaType |-> images[k]]]]
    BY <2>1, <2>3 DEF ChatParts, Joined, Single, ChatText
  <2>5. PICK a \in Lists(Part), b \in Lists(Part) : a = Single(ChatText(t.text)) /\ b = Each(ChatImageOf, images)
    BY SingleType, ChatTextType, TurnHas, ChatImageOfType, EachType
  <2>6. ChatParts(t) \in Lists(Part)
    <3>1. Joined(a, b) \in Lists(Part)
      BY ListTypes
    <3> QED BY <2>1, <2>5, <3>1 DEF ChatParts
  <2>7. AsChatMessage(t) = [role |-> "user", content |-> [kind |-> "parts", parts |-> ChatParts(t)]]
    BY <1>1, <2>1, <2>4 DEF AsChatMessage
  <2> QED BY <2>6, <2>7
<1>2. t.by = "assistant" => AsChatMessage(t) = [role |-> "assistant", calls |-> t.calls, content |-> ChatContent(t)]
  BY DEF AsChatMessage, ChatContent
<1>3. t.by = "tool" => AsChatMessage(t) = [role |-> "tool", id |-> t.id, name |-> "", content |-> [kind |-> "string", text |-> t.text]]
  BY DEF AsChatMessage
<1> QED BY <1>1, <1>2, <1>3

(* A turn, as a message of a session.                                       *)
LEMMA PiMessageIs ==
    \A t \in Turn :
        /\ t.by = "user" => /\ AsPiMessage(t) = [role |-> "user", blocks |-> PiBlocks(t)]
                            /\ PiBlocks(t) \in Lists(UserBlock)
        /\ t.by = "assistant" => /\ AsPiMessage(t) = [role |-> "assistant", blocks |-> PiAnswer(t)]
                                 /\ PiAnswer(t) \in Lists(AssistantBlock)
        /\ t.by = "tool" => AsPiMessage(t) = [role |-> "toolResult", id |-> t.id, toolName |-> t.toolName,
                                              texts |-> <<t.text>>, isError |-> FALSE]
<1> SUFFICES ASSUME NEW t \in Turn
             PROVE  /\ t.by = "user" => /\ AsPiMessage(t) = [role |-> "user", blocks |-> PiBlocks(t)]
                                        /\ PiBlocks(t) \in Lists(UserBlock)
                    /\ t.by = "assistant" => /\ AsPiMessage(t) = [role |-> "assistant", blocks |-> PiAnswer(t)]
                                             /\ PiAnswer(t) \in Lists(AssistantBlock)
                    /\ t.by = "tool" => AsPiMessage(t) = [role |-> "toolResult", id |-> t.id, toolName |-> t.toolName,
                                                          texts |-> <<t.text>>, isError |-> FALSE]
  OBVIOUS
<1>1. ASSUME t.by = "user"
      PROVE  AsPiMessage(t) = [role |-> "user", blocks |-> PiBlocks(t)] /\ PiBlocks(t) \in Lists(UserBlock)
  <2>1. PICK images \in Lists(MediaTypes) : images = t.images
    BY <1>1, TurnHas
  <2>2. \A k \in DOMAIN images : images[k] \in MediaTypes
    BY DEF Lists
  <2>3. [k \in DOMAIN images |-> [type |-> "image", mediaType |-> images[k]]] = Each(PiImageOf, images)
    BY <2>2 DEF Each, PiImageOf
  <2>4. PiBlocks(t) = <<[type |-> "text", text |-> t.text]>> \o [k \in DOMAIN images |-> [type |-> "image", mediaType |-> images[k]]]
    BY <2>1, <2>3 DEF PiBlocks, Joined, Single, ChatText
  <2>5. PICK a \in Lists(UserBlock), b \in Lists(UserBlock) : a = Single(ChatText(t.text)) /\ b = Each(PiImageOf, images)
    BY SingleType, ChatTextType, TurnHas, PiImageOfType, EachType
  <2>6. PiBlocks(t) \in Lists(UserBlock)
    <3>1. Joined(a, b) \in Lists(UserBlock)
      BY ListTypes
    <3> QED BY <2>1, <2>5, <3>1 DEF PiBlocks
  <2>7. AsPiMessage(t) = [role |-> "user", blocks |-> PiBlocks(t)]
    BY <1>1, <2>1, <2>4 DEF AsPiMessage
  <2> QED BY <2>6, <2>7
<1>2. ASSUME t.by = "assistant"
      PROVE  AsPiMessage(t) = [role |-> "assistant", blocks |-> PiAnswer(t)] /\ PiAnswer(t) \in Lists(AssistantBlock)
  <2>1. PICK calls \in Lists(TurnCall) : calls = t.calls
    BY <1>2, TurnHas
  <2>2. \A k \in DOMAIN calls : calls[k] \in TurnCall
    BY DEF Lists
  <2>3. [k \in DOMAIN calls |-> [type |-> "toolCall", id |-> calls[k].id, name |-> calls[k].name,
                                 arguments |-> calls[k].arguments]] = Each(PiCallOf, calls)
    BY <2>2 DEF Each, PiCallOf
  <2>a. <<Thought, ChatText(t.text)>> = More(Single(Thought), ChatText(t.text))
    BY DEF More, Single
  <2>4. PiAnswer(t) = <<[type |-> "thinking"], [type |-> "text", text |-> t.text]>>
                      \o [k \in DOMAIN calls |-> [type |-> "toolCall", id |-> calls[k].id, name |-> calls[k].name,
                                                  arguments |-> calls[k].arguments]]
    BY <2>1, <2>3, <2>a DEF PiAnswer, Joined, ChatText, Thought
  <2>b. PICK c \in Lists(AssistantBlock) : c = Single(Thought)
    BY SingleType, ThoughtType
  <2>5. PICK a \in Lists(AssistantBlock), b \in Lists(AssistantBlock) :
            a = More(c, ChatText(t.text)) /\ b = Each(PiCallOf, calls)
    BY ListTypes, ChatTextType, TurnHas, PiCallOfType, EachType
  <2>6. PiAnswer(t) \in Lists(AssistantBlock)
    <3>1. Joined(a, b) \in Lists(AssistantBlock)
      BY ListTypes
    <3> QED BY <2>1, <2>b, <2>5, <3>1 DEF PiAnswer
  <2>7. AsPiMessage(t) = [role |-> "assistant", blocks |-> PiAnswer(t)]
    BY <1>2, <2>1, <2>4 DEF AsPiMessage
  <2> QED BY <2>6, <2>7
<1>3. t.by = "tool" => AsPiMessage(t) = [role |-> "toolResult", id |-> t.id, toolName |-> t.toolName,
                                         texts |-> <<t.text>>, isError |-> FALSE]
  BY DEF AsPiMessage
<1> QED BY <1>1, <1>2, <1>3

(* A turn is a message on both roads.                                       *)
LEMMA TurnsAreMessages == \A t \in Turn : AsChatMessage(t) \in ChatMessage /\ AsPiMessage(t) \in PiMessage
<1> SUFFICES ASSUME NEW t \in Turn PROVE AsChatMessage(t) \in ChatMessage /\ AsPiMessage(t) \in PiMessage
  OBVIOUS
<1>1. CASE t.by = "user"
  <2>1. PICK parts \in Seq(Part), blocks \in Seq(UserBlock) : parts = ChatParts(t) /\ blocks = PiBlocks(t)
    BY <1>1, ChatMessageIs, PiMessageIs DEF Lists
  <2>2. [kind |-> "parts", parts |-> parts] \in Content
    BY DEF Content
  <2>3. [role |-> "user", content |-> [kind |-> "parts", parts |-> parts]] \in ChatMessage
    BY <2>2 DEF ChatMessage
  <2>4. [role |-> "user", blocks |-> blocks] \in PiMessage
    BY DEF PiMessage
  <2> QED BY <1>1, <2>1, <2>3, <2>4, ChatMessageIs, PiMessageIs
<1>2. CASE t.by = "assistant"
  <2>1. PICK calls \in Seq(Call), blocks \in Seq(AssistantBlock) : calls = t.calls /\ blocks = PiAnswer(t)
    BY <1>2, TurnHas, TurnCalls, ListsGrow, PiMessageIs DEF Lists
  <2>2. ChatContent(t) \in Content
    BY TurnHas DEF ChatContent, Content, Text, Lists
  <2>3. [role |-> "assistant", calls |-> calls, content |-> ChatContent(t)] \in ChatMessage
    BY <2>2 DEF ChatMessage
  <2>4. [role |-> "assistant", blocks |-> blocks] \in PiMessage
    BY DEF PiMessage
  <2> QED BY <1>2, <2>1, <2>3, <2>4, ChatMessageIs, PiMessageIs
<1>3. CASE t.by = "tool"
  <2>1. t.id \in Ids /\ t.toolName \in Names /\ t.text \in Seq(Pieces)
    BY <1>3, TurnHas DEF Text, Lists
  <2>2. [kind |-> "string", text |-> t.text] \in Content
    BY <2>1 DEF Content
  <2>3. [role |-> "tool", id |-> t.id, name |-> "", content |-> [kind |-> "string", text |-> t.text]] \in ChatMessage
    BY <2>1, <2>2 DEF ChatMessage
  <2>5. <<t.text>> \in Seq(Seq(Pieces))
    BY <2>1
  <2>4. [role |-> "toolResult", id |-> t.id, toolName |-> t.toolName, texts |-> <<t.text>>, isError |-> FALSE] \in PiMessage
    BY <2>1, <2>5 DEF PiMessage
  <2> QED BY <1>3, <2>3, <2>4, ChatMessageIs, PiMessageIs
<1> QED BY <1>1, <1>2, <1>3, TurnHas

-----------------------------------------------------------------------------
(* The types of the variables and the steps.                                *)

(* The steps of a conversation, road by road.                               *)
LEMMA ProxySteps ==
    [Next]_vars =>
        \/ \E m \in ChatMessage : ConvertMessage(m)
        \/ EndOfMessages
        \/ \E t \in ChatTool : ConvertTool(t)
        \/ Build
        \/ UNCHANGED convertVars
<1> SUFFICES ASSUME [Next]_vars
             PROVE  \/ \E m \in ChatMessage : ConvertMessage(m)
                    \/ EndOfMessages
                    \/ \E t \in ChatTool : ConvertTool(t)
                    \/ Build
                    \/ UNCHANGED convertVars
  OBVIOUS
<1>1. ASSUME ConvertNext
      PROVE  \/ \E m \in ChatMessage : ConvertMessage(m)
             \/ EndOfMessages
             \/ \E t \in ChatTool : ConvertTool(t)
             \/ Build
  BY <1>1, MessagesAssumption, ToolsAssumption DEF ConvertNext
<1>2. ASSUME NEW t \in Turns, Converse(t) PROVE \E m \in ChatMessage : ConvertMessage(m)
  BY <1>2, TurnsAssumption, TurnsAreMessages DEF Converse
<1>3. EndConversation => EndOfMessages
  BY DEF EndConversation
<1>4. UNCHANGED vars => UNCHANGED convertVars
  BY DEF vars
<1> QED BY <1>1, <1>2, <1>3, <1>4 DEF Next

(* The steps of Pi.                                                         *)
LEMMA PiSteps ==
    [Next]_vars =>
        \/ \E m \in PiMessage : PiConvertMessage(m)
        \/ PiReturn
        \/ UNCHANGED piVars
<1> SUFFICES ASSUME [Next]_vars
             PROVE  (\E m \in PiMessage : PiConvertMessage(m)) \/ PiReturn \/ UNCHANGED piVars
  OBVIOUS
<1>1. ASSUME PiConvertNext
      PROVE  (\E m \in PiMessage : PiConvertMessage(m)) \/ PiReturn
  BY <1>1, PiMessagesAssumption DEF PiConvertNext
<1>2. ASSUME NEW t \in Turns, Converse(t) PROVE \E m \in PiMessage : PiConvertMessage(m)
  BY <1>2, TurnsAssumption, TurnsAreMessages DEF Converse
<1>3. EndConversation => PiReturn
  BY DEF EndConversation
<1>4. UNCHANGED vars => UNCHANGED piVars
  BY DEF vars
<1> QED BY <1>1, <1>2, <1>3, <1>4 DEF Next

(* What the variables hold.                                                 *)
NameMaps == UNION {[I -> CallNames] : I \in SUBSET Ids}
Schemas == [default : BOOLEAN, given : Objects \cup {"null", "invalid"}]
Offers == [name : Names, schema : Schemas]
ProxyTypes ==
    /\ stage \in {"messages", "tools", "built", "failed"}
    /\ input \in Lists(ChatMessage) /\ offered \in Lists(ChatTool)
    /\ systemParts \in Lists(Text) /\ messages \in Lists(OutMessages)
    /\ toolNames \in NameMaps
    /\ tools \in Lists(Offers)
    /\ maxTokens \in Int

PiTypes ==
    /\ converted \in BOOLEAN
    /\ piInput \in Lists(PiMessage) /\ out \in Lists(OutMessages)
    /\ toolNameById \in NameMaps

(* At first, the variables hold nothing.                                    *)
LEMMA TypesInit == Init => ProxyTypes /\ PiTypes
<1>1. [i \in {} |-> ""] \in NameMaps
  BY DEF NameMaps
<1>2. PICK none \in NameMaps : none = [i \in {} |-> ""]
  BY <1>1
<1>3. Init => ProxyTypes
  BY <1>2, NothingIsAList DEF Init, ConvertInit, ProxyTypes
<1>4. Init => PiTypes
  BY <1>2, NothingIsAList DEF Init, PiConvertInit, PiTypes
<1> QED BY <1>3, <1>4

(* The greatest of some positions.                                          *)
LEMMA GreatestExists ==
    ASSUME NEW n \in Nat, NEW S \in SUBSET (1..n), S # {}
    PROVE  \E x \in S : \A y \in S : y <= x
<1> DEFINE Less == OpToRel(<, Nat)
           T == {n - x : x \in S}
<1>1. Less = {xy \in Nat \X Nat : xy[1] < xy[2]}
  BY DEF OpToRel
<1>2. \A x, y \in Nat : y < x => <<y, x>> \in Less
  BY <1>1
<1>a. \A x \in S : n - x \in Nat
  OBVIOUS
<1>3. T \subseteq Nat /\ T # {}
  <2> HIDE DEF Less
  <2>1. \A y \in T : y \in Nat
    BY <1>a
  <2>2. PICK x \in S : TRUE
    OBVIOUS
  <2>3. n - x \in T
    BY <2>2
  <2> QED BY <2>1, <2>3
<1>4. IsWellFoundedOn(Less, Nat)
  BY NatLessThanWellFounded
<1>5. \E x \in T : \A y \in T : <<y, x>> \notin Less
  <2> HIDE DEF T, Less
  <2> QED BY <1>3, <1>4, WFMin
<1>6. PICK x \in T : \A y \in T : ~(y < x)
  BY <1>2, <1>3, <1>5
<1>7. PICK z \in S : x = n - z
  OBVIOUS
<1>8. \A y \in S : n - y \in T
  OBVIOUS
<1>9. ASSUME NEW y \in S PROVE y <= z
  <2>1. ~(n - y < n - z)
    BY <1>6, <1>7, <1>8
  <2> QED BY <2>1
<1> QED BY <1>9

(* Names after some calls: the k-th of K has id ids[k] and names the tool   *)
(* names[k], and the last one with an id counts.                            *)
LastOne(k, K, ids) == \A l \in K : ids[l] = ids[k] => l <= k
Places(K) == \E n \in Nat : K \subseteq 1..n
Renames(new, old, K, ids, names) ==
    /\ new = [i \in DOMAIN old \cup {ids[k] : k \in K} |-> new[i]]
    /\ \A k \in K : LastOne(k, K, ids) => new[ids[k]] = names[k]
    /\ \A i \in DOMAIN old : (\A k \in K : ids[k] # i) => new[i] = old[i]

(* Of the calls with one id, one is last.                                   *)
LEMMA RenamesLast ==
    ASSUME NEW K, Places(K), NEW ids, NEW k \in K
    PROVE  \E l \in K : ids[l] = ids[k] /\ LastOne(l, K, ids)
<1>0. PICK n \in Nat : K \subseteq 1..n
  BY DEF Places
<1>1. PICK S : S = {l \in K : ids[l] = ids[k]}
  OBVIOUS
<1>2. S \in SUBSET (1..n) /\ S # {}
  BY <1>0, <1>1
<1>3. \E l \in S : \A j \in S : j <= l
  BY <1>2, GreatestExists
<1> QED BY <1>1, <1>3 DEF LastOne

(* Names after some calls are a map of names again.                         *)
LEMMA RenamesType ==
    ASSUME NEW K, Places(K), NEW ids, NEW names, NEW old \in NameMaps, NEW new,
           Renames(new, old, K, ids, names), \A k \in K : ids[k] \in Ids /\ names[k] \in CallNames
    PROVE  new \in NameMaps
<1>1. PICK I : I = DOMAIN old \cup {ids[k] : k \in K}
  OBVIOUS
<1>2. DOMAIN old \subseteq Ids /\ \A i \in DOMAIN old : old[i] \in CallNames
  BY DEF NameMaps
<1>3. I \in SUBSET Ids
  BY <1>1, <1>2
<1>4. ASSUME NEW i \in I PROVE new[i] \in CallNames
  <2>1. CASE \E k \in K : ids[k] = i
    <3>1. PICK k \in K : ids[k] = i
      BY <2>1
    <3>2. PICK l \in K : ids[l] = i /\ LastOne(l, K, ids)
      BY <3>1, RenamesLast
    <3>3. new[i] = names[l]
      BY <3>2 DEF Renames
    <3> QED BY <3>3
  <2>2. CASE \A k \in K : ids[k] # i
    <3>1. i \in DOMAIN old
      BY <1>1, <2>2
    <3>2. new[i] = old[i]
      BY <2>2, <3>1 DEF Renames
    <3> QED BY <1>2, <3>1, <3>2
  <2> QED BY <2>1, <2>2
<1>5. new = [i \in I |-> new[i]]
  BY <1>1 DEF Renames
<1>6. new \in [I -> CallNames]
  BY <1>4, <1>5
<1> QED BY <1>3, <1>6 DEF NameMaps

IdsOf(calls) == [k \in DOMAIN calls |-> calls[k].id]
NamesOf(calls) == [k \in DOMAIN calls |-> calls[k].name]

(* The loop over the calls of a request (convert.go:168) renames.           *)
LEMMA ChatCallsRename ==
    \A calls \in Lists(Call) :
        Renames(NamesAfter(calls), toolNames, DOMAIN calls, IdsOf(calls), NamesOf(calls))
<1> SUFFICES ASSUME NEW calls \in Lists(Call)
             PROVE  Renames(NamesAfter(calls), toolNames, DOMAIN calls, IdsOf(calls), NamesOf(calls))
  OBVIOUS
<1>0. PICK n \in Nat : DOMAIN calls = 1..n
  BY LenProperties DEF Lists
<1>1. PICK K : DOMAIN calls = 1..n /\ K = DOMAIN calls
  BY <1>0
<1>2. PICK ids, names, given : ids = IdsOf(calls) /\ names = NamesOf(calls) /\ given = {calls[k].id : k \in K}
  OBVIOUS
<1>3. \A k \in K : ids[k] = calls[k].id /\ names[k] = calls[k].name
  BY <1>1, <1>2 DEF IdsOf, NamesOf
<1>4. given = {ids[k] : k \in K}
  BY <1>2, <1>3
<1>5. PICK new, old : new = NamesAfter(calls) /\ old = toolNames
  OBVIOUS
<1> DEFINE LastOf(i) == CHOOSE k \in K : calls[k].id = i /\ \A l \in K : calls[l].id = i => l <= k
<1>6. new = [i \in DOMAIN old \cup given |-> IF i \in given THEN calls[LastOf(i)].name ELSE old[i]]
  BY <1>1, <1>2, <1>5 DEF NamesAfter
<1>7. ASSUME NEW k \in K, LastOne(k, K, ids)
      PROVE  new[ids[k]] = names[k]
  <2>1. PICK i, at : i = ids[k] /\ at = LastOf(i)
    OBVIOUS
  <2>2. calls[k].id = i /\ \A l \in K : calls[l].id = i => l <= k
    BY <1>3, <1>7, <2>1 DEF LastOne
  <2>3. at \in K /\ calls[at].id = i /\ \A l \in K : calls[l].id = i => l <= at
    BY <2>1, <2>2
  <2>4. at = k
    BY <1>1, <2>2, <2>3
  <2>5. i \in given
    BY <1>4, <2>1
  <2> HIDE DEF LastOf
  <2> QED BY <1>3, <1>6, <2>1, <2>4, <2>5
<1>8. ASSUME NEW i \in DOMAIN old, \A k \in K : ids[k] # i PROVE new[i] = old[i]
  <2>1. i \notin given
    BY <1>4, <1>8
  <2> HIDE DEF LastOf
  <2> QED BY <1>6, <2>1
<1>9. new = [i \in DOMAIN old \cup {ids[k] : k \in K} |-> new[i]]
  <2> HIDE DEF LastOf
  <2> QED BY <1>4, <1>6
<1>10. Renames(new, old, K, ids, names)
  BY <1>7, <1>8, <1>9 DEF Renames
<1> QED BY <1>1, <1>2, <1>5, <1>10

CallBlocks(blocks) == {k \in DOMAIN blocks : blocks[k].type = "toolCall"}
BlockIds(blocks) == [k \in CallBlocks(blocks) |-> blocks[k].id]
BlockNames(blocks) == [k \in CallBlocks(blocks) |-> blocks[k].name]

(* The loop over the blocks of an answer (index.ts:396-412) renames.        *)
LEMMA PiCallsRename ==
    \A m \in PiMessage : PiAssistant(m) =>
        Renames(toolNameById', toolNameById, CallBlocks(m.blocks), BlockIds(m.blocks), BlockNames(m.blocks))
<1> SUFFICES ASSUME NEW m \in PiMessage, PiAssistant(m)
             PROVE  Renames(toolNameById', toolNameById, CallBlocks(m.blocks), BlockIds(m.blocks), BlockNames(m.blocks))
  OBVIOUS
<1>0. PICK blocks \in Lists(AssistantBlock) : blocks = m.blocks
  BY PiMessageHas DEF PiAssistant
<1>p. PICK n \in Nat : DOMAIN blocks = 1..n
  BY LenProperties DEF Lists
<1>1. PICK K : DOMAIN blocks = 1..n /\ K = CallBlocks(blocks)
  BY <1>p
<1>2. PICK ids, names, given : ids = BlockIds(blocks) /\ names = BlockNames(blocks) /\ given = {blocks[k].id : k \in K}
  OBVIOUS
<1>a. K \subseteq 1..n
  BY <1>1 DEF CallBlocks
<1>3. \A k \in K : ids[k] = blocks[k].id /\ names[k] = blocks[k].name
  BY <1>1, <1>2 DEF BlockIds, BlockNames
<1>4. given = {ids[k] : k \in K}
  BY <1>2, <1>3
<1>5. PICK new, old : new = toolNameById' /\ old = toolNameById
  OBVIOUS
<1> DEFINE WithId(i) == {k \in DOMAIN blocks : blocks[k].type = "toolCall" /\ blocks[k].id = i}
           LastOf(i) == CHOOSE k \in WithId(i) : \A l \in WithId(i) : l <= k
<1>6. new = [i \in DOMAIN old \cup given |-> IF i \in given THEN blocks[LastOf(i)].name ELSE old[i]]
  <2>1. toolNameById' =
          LET Calls(i) == {k \in DOMAIN m.blocks : m.blocks[k].type = "toolCall" /\ m.blocks[k].id = i}
              all == {m.blocks[k].id : k \in {l \in DOMAIN m.blocks : m.blocks[l].type = "toolCall"}}
          IN  [i \in DOMAIN toolNameById \cup all |->
                  IF i \in all THEN m.blocks[CHOOSE k \in Calls(i) : \A l \in Calls(i) : l <= k].name
                  ELSE toolNameById[i]]
    BY DEF PiAssistant
  <2>2. given = {blocks[k].id : k \in {l \in DOMAIN blocks : blocks[l].type = "toolCall"}}
    BY <1>1, <1>2 DEF CallBlocks
  <2> QED BY ONLY <1>0, <1>5, <2>1, <2>2, SMTT(30)
<1>b. \A i : WithId(i) = {k \in K : ids[k] = i}
  BY <1>1, <1>3 DEF CallBlocks
<1>7. ASSUME NEW k \in K, LastOne(k, K, ids)
      PROVE  new[ids[k]] = names[k]
  <2>1. PICK i, at, S : i = ids[k] /\ at = LastOf(i) /\ S = WithId(i)
    OBVIOUS
  <2>a. S = {l \in K : ids[l] = i} /\ at = CHOOSE j \in S : \A l \in S : l <= j
    BY <1>b, <2>1, SMTT(30)
  <2>2. k \in S /\ \A l \in S : l <= k
    BY <1>7, <2>1, <2>a DEF LastOne
  <2>3. at \in S /\ \A l \in S : l <= at
    BY <2>a, <2>2
  <2>4. at = k
    BY <1>a, <2>a, <2>2, <2>3
  <2>5. i \in given
    BY <1>4, <2>1
  <2> HIDE DEF LastOf
  <2> QED BY <1>3, <1>6, <2>1, <2>4, <2>5
<1>8. ASSUME NEW i \in DOMAIN old, \A k \in K : ids[k] # i PROVE new[i] = old[i]
  <2>1. i \notin given
    BY <1>4, <1>8
  <2> HIDE DEF LastOf
  <2> QED BY <1>6, <2>1
<1>9. new = [i \in DOMAIN old \cup {ids[k] : k \in K} |-> new[i]]
  <2> HIDE DEF LastOf
  <2> QED BY <1>4, <1>6
<1>10. Renames(new, old, K, ids, names)
  BY <1>7, <1>8, <1>9 DEF Renames
<1> QED BY <1>0, <1>1, <1>2, <1>5, <1>10

(* A list with one element more is a list.                                  *)
LEMMA MoreType == \A T : \A s \in Lists(T), x \in T : More(s, x) \in Lists(T)
BY DEF Lists, More

(* What the Proxy writes for a message.                                     *)
Known(i) == IF i \in DOMAIN toolNames THEN toolNames[i] ELSE ""
ChatName(m) == IF m.name # "" THEN m.name ELSE IF Known(m.id) # "" THEN Known(m.id) ELSE "unknown"
ChatResult(m) == ResultPart(m.id, ChatName(m), "text", TextOf(m.content))
PiResult(m) ==
    ResultPart(m.id, ResultName(m), IF m.isError THEN "error-text" ELSE "text", FlattenSeq(m.texts))

WithTurn(list, role, content) == IF content = <<>> THEN list ELSE More(list, Message(role, content))

(* What the steps do that read a message, role by role.                     *)
LEMMA SystemDoes ==
    \A m \in ChatMessage : System(m) =>
        /\ input' = More(input, m) /\ stage = "messages" /\ stage' = stage /\ m.role = "system" /\ Valid(m.content)
        /\ systemParts' = IF TextOf(m.content) = <<>> THEN systemParts ELSE More(systemParts, TextOf(m.content))
        /\ messages' = messages /\ toolNames' = toolNames
        /\ UNCHANGED <<offered, tools, maxTokens>>
BY ChatMessageHas DEF System, Reads, Valid, More

(* A message of the user is passed on, also an empty one.                   *)
LEMMA UserDoes ==
    \A m \in ChatMessage : User(m) =>
        /\ input' = More(input, m) /\ stage = "messages" /\ stage' = stage /\ m.role = "user" /\ Valid(m.content)
        /\ m.content.kind = "parts" => \A k \in DOMAIN m.content.parts : ~IsRemote(m.content.parts[k])
        /\ messages' = More(messages, Message("user", UserContent(m.content)))
        /\ systemParts' = systemParts /\ toolNames' = toolNames
        /\ UNCHANGED <<offered, tools, maxTokens>>
BY ChatMessageHas DEF User, Reads, Valid, More

(* An answer is passed on unless it is empty, and its calls rename.         *)
LEMMA AssistantDoes ==
    \A m \in ChatMessage : Assistant(m) =>
        /\ input' = More(input, m) /\ stage = "messages" /\ stage' = stage /\ m.role = "assistant" /\ Valid(m.content)
        /\ \A k \in DOMAIN m.calls : m.calls[k].arguments \notin NotArguments
        /\ messages' = WithTurn(messages, "assistant", AssistantContent(m))
        /\ systemParts' = systemParts /\ toolNames' = NamesAfter(m.calls)
        /\ UNCHANGED <<offered, tools, maxTokens>>
BY ChatMessageHas DEF Assistant, Reads, Valid, More, WithTurn, AssistantContent, Joined

(* A result is added.                                                       *)
LEMMA ToolResultDoes ==
    \A m \in ChatMessage : ToolResult(m) =>
        /\ input' = More(input, m) /\ stage = "messages" /\ stage' = stage /\ m.role = "tool" /\ Valid(m.content)
        /\ messages' = AddResult(messages, ChatResult(m))
        /\ systemParts' = systemParts /\ toolNames' = toolNames
        /\ UNCHANGED <<offered, tools, maxTokens>>
<1> SUFFICES ASSUME NEW m \in ChatMessage, ToolResult(m)
             PROVE  /\ input' = More(input, m) /\ stage = "messages" /\ stage' = stage /\ m.role = "tool" /\ Valid(m.content)
                    /\ messages' = AddResult(messages, ChatResult(m))
                    /\ systemParts' = systemParts /\ toolNames' = toolNames
                    /\ UNCHANGED <<offered, tools, maxTokens>>
  OBVIOUS
<1>1. FirstNonBlank(<<m.name, Known(m.id), "unknown">>) = ChatName(m)
  BY FirstNonBlankIs DEF ChatName
<1>2. messages' = AddResult(messages, ResultPart(m.id, FirstNonBlank(<<m.name, Known(m.id), "unknown">>), "text", TextOf(m.content)))
  BY DEF ToolResult, Known
<1>3. messages' = AddResult(messages, ChatResult(m))
  BY <1>1, <1>2 DEF ChatResult
<1> QED BY <1>3, ChatMessageHas DEF ToolResult, Reads, Valid, More

(* A message that cannot be converted ends the conversion.                  *)
LEMMA RefuseDoes ==
    \A m \in ChatMessage : RefuseMessage(m) =>
        /\ input' = More(input, m) /\ stage = "messages" /\ stage' = "failed" /\ Inconvertible(m)
        /\ messages' = messages /\ systemParts' = systemParts /\ toolNames' = toolNames
        /\ UNCHANGED <<offered, tools, maxTokens>>
BY DEF RefuseMessage, Reads, More, loopVars

PiReadsMore(m) == piInput' = More(piInput, m) /\ converted = FALSE /\ converted' = FALSE

(* Pi passes on a message of the user unless it is empty.                   *)
LEMMA PiUserDoes ==
    \A m : PiTypes /\ PiUser(m) =>
        PiReadsMore(m) /\ m.role = "user" /\ out' = WithTurn(out, "user", PiUserContent(m)) /\ toolNameById' = toolNameById
BY DEF PiUser, PiReads, PiReadsMore, PiTypes, More, WithTurn, AddTurn

(* Pi passes on an answer unless it is empty.                               *)
LEMMA PiAssistantDoes ==
    \A m : PiTypes /\ PiAssistant(m) =>
        PiReadsMore(m) /\ m.role = "assistant" /\ out' = WithTurn(out, "assistant", PiAssistantContent(m.blocks))
BY DEF PiAssistant, PiReads, PiReadsMore, PiTypes, More, WithTurn, AddTurn

(* Pi adds a result.                                                        *)
LEMMA PiToolResultDoes ==
    \A m : PiTypes /\ PiToolResult(m) =>
        PiReadsMore(m) /\ m.role = "toolResult" /\ out' = AddResult(out, PiResult(m)) /\ toolNameById' = toolNameById
BY DEF PiToolResult, PiReads, PiReadsMore, PiTypes, More, PiResult

(* What is written has its type.                                            *)
LEMMA NameMapHas == \A names \in NameMaps : \A i \in DOMAIN names : i \in Ids /\ names[i] \in CallNames
BY DEF NameMaps

(* What a result of a request becomes.                                      *)
LEMMA ChatResultType ==
    ASSUME NEW m \in ChatMessage, m.role = "tool", Valid(m.content), ProxyTypes
    PROVE  /\ ChatResult(m) \in ResultParts /\ ChatName(m) \in ResultNames
           /\ ChatResult(m).toolCallId = m.id /\ ChatResult(m).toolName = ChatName(m)
           /\ ChatResult(m).output.value = TextOf(m.content) /\ ChatResult(m).type = "tool-result"
<1>1. Known(m.id) \in CallNames
  BY NameMapHas DEF Known, ProxyTypes, CallNames
<1>2. ChatName(m) \in ResultNames
  BY <1>1, ChatMessageHas DEF ChatName, ResultNames, CallNames
<1>3. PICK i \in Ids, n \in ResultNames, t \in Text : i = m.id /\ n = ChatName(m) /\ t = TextOf(m.content)
  BY <1>2, ChatMessageHas, TextOfType
<1>4. PICK p : p = ResultPart(i, n, "text", t)
  OBVIOUS
<1>5. p \in ResultParts /\ p.type = "tool-result" /\ p.toolCallId = i /\ p.toolName = n /\ p.output.value = t
  BY <1>4, ResultPartFacts
<1>6. ChatResult(m) = p
  BY <1>3, <1>4 DEF ChatResult
<1> QED BY <1>2, <1>3, <1>5, <1>6

(* What a result of a session becomes.                                      *)
LEMMA PiResultType ==
    ASSUME NEW m \in PiMessage, m.role = "toolResult", PiTypes
    PROVE  /\ PiResult(m) \in ResultParts /\ ResultName(m) \in ResultNames
           /\ PiResult(m).toolCallId = m.id /\ PiResult(m).toolName = ResultName(m)
           /\ PiResult(m).type = "tool-result"
<1>1. ResultName(m) \in ResultNames
  BY NameMapHas, PiMessageHas DEF PiTypes, CallNames, ResultName, ResultNames
<1>2. FlattenSeq(m.texts) \in Text
  BY PiMessageHas, FlattenType DEF Text
<1>3. PICK i \in Ids, n \in ResultNames, k \in {"text", "error-text"}, t \in Text :
          i = m.id /\ n = ResultName(m) /\ t = FlattenSeq(m.texts) /\ k = IF m.isError THEN "error-text" ELSE "text"
  BY <1>1, <1>2, PiMessageHas
<1>4. PICK p : p = ResultPart(i, n, k, t)
  OBVIOUS
<1>5. p \in ResultParts /\ p.type = "tool-result" /\ p.toolCallId = i /\ p.toolName = n /\ p.output.value = t
  BY <1>4, ResultPartFacts
<1>6. PiResult(m) = p
  BY <1>3, <1>4 DEF PiResult
<1> QED BY <1>1, <1>3, <1>5, <1>6

(* With a result, the messages stay messages.                               *)
LEMMA AddResultType ==
    ASSUME NEW list \in Lists(OutMessages), NEW r \in ResultParts
    PROVE  AddResult(list, r) \in Lists(OutMessages)
<1>1. CASE JoinsLast(list)
  <2>1. PICK front \in Lists(OutMessages), m \in OutMessages : AddResult(list, r) = More(front, m)
    BY <1>1, AddResultJoins
  <2> QED BY <2>1, MoreType
<1>2. CASE ~JoinsLast(list)
  <2>1. PICK m \in OutMessages : AddResult(list, r) = More(list, m)
    BY <1>2, AddResultStarts
  <2> QED BY <2>1, ListTypes
<1> QED BY <1>1, <1>2

(* With a turn, the messages stay messages.                                 *)
LEMMA WithTurnType ==
    ASSUME NEW list \in Lists(OutMessages), NEW role \in Roles, NEW content \in Lists(PartsBy(role))
    PROVE  WithTurn(list, role, content) \in Lists(OutMessages)
<1>1. ASSUME content # <<>> PROVE Message(role, content) \in OutMessages
  BY <1>1, OutMessageIs
<1> QED BY <1>1, ListTypes DEF WithTurn

(* Content of a user makes a message.                                       *)
LEMMA ChatUserMessage ==
    \A content : Valid(content) => Message("user", UserContent(content)) \in OutMessages
BY UserContentType, OutMessageIs DEF Roles

(* Every step of the Proxy keeps the types.                                 *)
LEMMA ProxyTypesKept == ProxyTypes /\ [Next]_vars => ProxyTypes'
<1> SUFFICES ASSUME ProxyTypes, [Next]_vars PROVE ProxyTypes'
  OBVIOUS
<1>0. /\ stage \in {"messages", "tools", "built", "failed"}
      /\ input \in Lists(ChatMessage) /\ offered \in Lists(ChatTool)
      /\ systemParts \in Lists(Text) /\ messages \in Lists(OutMessages)
      /\ toolNames \in NameMaps /\ tools \in Lists(Offers) /\ maxTokens \in Int
  BY DEF ProxyTypes
<1>1. ASSUME NEW m \in ChatMessage, ConvertMessage(m) PROVE ProxyTypes'
  <2>0. More(input, m) \in Lists(ChatMessage)
    BY <1>0, ListTypes
  <2>1. CASE System(m)
    <3>1. TextOf(m.content) \in Text
      BY <2>1, SystemDoes, TextOfType
    <3>2. More(systemParts, TextOf(m.content)) \in Lists(Text)
      BY <1>0, <3>1, ListTypes
    <3> QED BY <1>0, <2>0, <2>1, <3>2, SystemDoes DEF ProxyTypes
  <2>2. CASE User(m)
    <3>1. Message("user", UserContent(m.content)) \in OutMessages
      BY <2>2, UserDoes, ChatUserMessage
    <3>2. More(messages, Message("user", UserContent(m.content))) \in Lists(OutMessages)
      BY <1>0, <3>1, ListTypes
    <3> QED BY <1>0, <2>0, <2>2, <3>2, UserDoes DEF ProxyTypes
  <2>3. CASE Assistant(m)
    <3>0. m.role = "assistant" /\ Valid(m.content)
      BY <2>3, AssistantDoes
    <3>1. AssistantContent(m) \in Lists(PartsBy("assistant")) /\ "assistant" \in Roles
      BY <3>0, AssistantContentType DEF Roles
    <3>2. WithTurn(messages, "assistant", AssistantContent(m)) \in Lists(OutMessages)
      BY <1>0, <3>1, WithTurnType
    <3>3. PICK calls \in Lists(Call) : calls = m.calls
      BY <3>0, ChatMessageHas
    <3>4. NamesAfter(calls) \in NameMaps
      <4>0. PICK n \in Nat : DOMAIN calls = 1..n
        BY LenProperties DEF Lists
      <4>1. PICK K : DOMAIN calls = 1..n /\ K = DOMAIN calls
        BY <4>0
      <4>2. PICK ids, names : ids = IdsOf(calls) /\ names = NamesOf(calls)
        OBVIOUS
      <4>3. \A k \in K : ids[k] \in Ids /\ names[k] \in CallNames
        <5> SUFFICES ASSUME NEW k \in K PROVE ids[k] \in Ids /\ names[k] \in CallNames
          OBVIOUS
        <5>1. calls[k] \in Call
          BY <4>1 DEF Lists
        <5>2. ids[k] = calls[k].id /\ names[k] = calls[k].name
          BY <4>1, <4>2 DEF IdsOf, NamesOf
        <5> QED BY <5>1, <5>2, CallHas
      <4>4. Places(K) /\ Renames(NamesAfter(calls), toolNames, K, ids, names)
        BY <4>1, <4>2, ChatCallsRename DEF Places
      <4>5. PICK new, old : new = NamesAfter(calls) /\ old = toolNames /\ old \in NameMaps /\ Renames(new, old, K, ids, names)
        BY <1>0, <4>4
      <4> QED BY <4>3, <4>4, <4>5, RenamesType
    <3> QED BY <1>0, <2>0, <2>3, <3>2, <3>3, <3>4, AssistantDoes DEF ProxyTypes
  <2>4. CASE ToolResult(m)
    <3>1. m.role = "tool" /\ Valid(m.content)
      BY <2>4, ToolResultDoes
    <3>2. ChatResult(m) \in ResultParts
      BY <3>1, ChatResultType
    <3>3. AddResult(messages, ChatResult(m)) \in Lists(OutMessages)
      BY <1>0, <3>2, AddResultType
    <3> QED BY <1>0, <2>0, <2>4, <3>3, ToolResultDoes DEF ProxyTypes
  <2>5. CASE RefuseMessage(m)
    BY <1>0, <2>0, <2>5, RefuseDoes DEF ProxyTypes
  <2> QED BY <1>1, <2>1, <2>2, <2>3, <2>4, <2>5 DEF ConvertMessage
<1>2. ASSUME EndOfMessages PROVE ProxyTypes'
  BY <1>0, <1>2 DEF EndOfMessages, ProxyTypes, loopVars
<1>3. ASSUME NEW t \in ChatTool, ConvertTool(t) PROVE ProxyTypes'
  <2>1. offered' \in Lists(ChatTool)
    <3>1. More(offered, t) \in Lists(ChatTool)
      BY <1>0, ListTypes
    <3> QED BY <1>3, <3>1 DEF ConvertTool, More
  <2>2. tools' \in Lists(Offers)
    <3>1. CASE tools' = tools
      BY <1>0, <3>1
    <3>2. CASE tools' # tools
      <4>1. IsOffer(t) /\ t.parameters # "invalid" /\ tools' = More(tools, [name |-> t.name, schema |-> Schema(t.parameters)])
        BY <1>3, <3>2 DEF ConvertTool, More
      <4>2. t.name \in Names
        BY <4>1, ChatToolHas DEF IsOffer, CallNames
      <4>3. Schema(t.parameters) \in Schemas
        BY ChatToolHas, ObjectsAssumption DEF Schema, Schemas
      <4>4. [name |-> t.name, schema |-> Schema(t.parameters)] \in Offers
        BY <4>2, <4>3 DEF Offers
      <4> QED BY <1>0, <4>1, <4>4, ListTypes
    <3> QED BY <3>1, <3>2
  <2>3. stage' \in {"messages", "tools", "built", "failed"}
    BY <1>0, <1>3 DEF ConvertTool
  <2> QED BY <1>0, <1>3, <2>1, <2>2, <2>3 DEF ConvertTool, ProxyTypes, loopVars
<1>4. ASSUME Build PROVE ProxyTypes'
  <2>1. maxTokens' \in Int
    BY <1>4, LimitsAssumption DEF Build
  <2> QED BY <1>0, <1>4, <2>1 DEF Build, ProxyTypes, loopVars
<1>5. ASSUME UNCHANGED convertVars PROVE ProxyTypes'
  BY <1>0, <1>5 DEF convertVars, loopVars, ProxyTypes
<1> QED BY <1>1, <1>2, <1>3, <1>4, <1>5, ProxySteps

(* Every step of Pi keeps the types.                                        *)
LEMMA PiTypesKept == PiTypes /\ [Next]_vars => PiTypes'
<1> SUFFICES ASSUME PiTypes, [Next]_vars PROVE PiTypes'
  OBVIOUS
<1>0. /\ converted \in BOOLEAN /\ piInput \in Lists(PiMessage) /\ out \in Lists(OutMessages)
      /\ toolNameById \in NameMaps
  BY DEF PiTypes
<1>1. ASSUME NEW m \in PiMessage, PiConvertMessage(m) PROVE PiTypes'
  <2>0. More(piInput, m) \in Lists(PiMessage)
    BY <1>0, ListTypes
  <2>1. CASE PiUser(m)
    <3>0. m.role = "user"
      BY <2>1, PiUserDoes
    <3>1. PiUserContent(m) \in Lists(PartsBy("user")) /\ "user" \in Roles
      BY <3>0, PiUserContentType DEF Roles
    <3>2. WithTurn(out, "user", PiUserContent(m)) \in Lists(OutMessages)
      BY <1>0, <3>1, WithTurnType
    <3> QED BY <1>0, <2>0, <2>1, <3>2, PiUserDoes DEF PiTypes, PiReadsMore
  <2>2. CASE PiAssistant(m)
    <3>0. m.role = "assistant"
      BY <2>2, PiAssistantDoes
    <3>a. PICK blocks \in Lists(AssistantBlock) : blocks = m.blocks
      BY <3>0, PiMessageHas
    <3>1. PiAssistantContent(blocks) \in Lists(PartsBy("assistant")) /\ "assistant" \in Roles
      BY PiAssistantContentType DEF Roles
    <3>2. WithTurn(out, "assistant", PiAssistantContent(blocks)) \in Lists(OutMessages)
      BY <1>0, <3>1, WithTurnType
    <3>4. toolNameById' \in NameMaps
      <4>1. PICK n \in Nat : DOMAIN blocks = 1..n
        BY LenProperties DEF Lists
      <4>2. PICK K, ids, names : K = CallBlocks(blocks) /\ ids = BlockIds(blocks) /\ names = BlockNames(blocks)
        OBVIOUS
      <4>3. Places(K) /\ \A k \in K : ids[k] \in Ids /\ names[k] \in CallNames
        BY <4>1, <4>2, AssistantBlockHas DEF CallBlocks, BlockIds, BlockNames, Lists, Places
      <4>4. Renames(toolNameById', toolNameById, K, ids, names)
        BY <2>2, <3>a, <4>2, PiCallsRename
      <4>5. PICK new, old : new = toolNameById' /\ old = toolNameById /\ old \in NameMaps /\ Renames(new, old, K, ids, names)
        BY <1>0, <4>4
      <4> QED BY <4>3, <4>5, RenamesType
    <3> QED BY <1>0, <2>0, <2>2, <3>2, <3>a, <3>4, PiAssistantDoes DEF PiTypes, PiReadsMore
  <2>3. CASE PiToolResult(m)
    <3>1. m.role = "toolResult"
      BY <2>3, PiToolResultDoes
    <3>2. PiResult(m) \in ResultParts
      BY <3>1, PiResultType
    <3>3. AddResult(out, PiResult(m)) \in Lists(OutMessages)
      BY <1>0, <3>2, AddResultType
    <3> QED BY <1>0, <2>0, <2>3, <3>3, PiToolResultDoes DEF PiTypes, PiReadsMore
  <2> QED BY <1>1, <2>1, <2>2, <2>3 DEF PiConvertMessage
<1>2. ASSUME PiReturn PROVE PiTypes'
  BY <1>0, <1>2 DEF PiReturn, PiTypes
<1>3. ASSUME UNCHANGED piVars PROVE PiTypes'
  BY <1>0, <1>3 DEF piVars, PiTypes
<1> QED BY <1>1, <1>2, <1>3, PiSteps

-----------------------------------------------------------------------------
(* The list of messages grows as the gateway accepts it.                    *)

(* The lists that the gateway accepts.                                      *)
GatewayTypes == [user |-> {"text", "image"}, assistant |-> {"text", "tool-call"}, tool |-> {"tool-result"}]
Accepted(m) ==
    /\ m.role \in DOMAIN GatewayTypes
    /\ \A k \in DOMAIN m.content : m.content[k].type \in GatewayTypes[m.role]
    /\ m.role # "user" => m.content # <<>>

(* The gateway accepts every message that is written.                       *)
LEMMA OutMessagesAccepted == \A m \in OutMessages : Accepted(m)
<1> SUFFICES ASSUME NEW m \in OutMessages PROVE Accepted(m)
  OBVIOUS
<1>1. m.role \in Roles /\ (m.role # "user" => m.content # <<>>)
  BY OutMessageHas
<1>2. PICK c \in Lists(PartsBy(m.role)) : c = m.content
  BY OutMessageHas
<1>3. ASSUME NEW k \in DOMAIN c PROVE c[k].type \in GatewayTypes[m.role]
  <2>1. c[k] \in PartsBy(m.role)
    BY DEF Lists
  <2>2. PICK p : p = c[k]
    OBVIOUS
  <2>3. CASE m.role = "user"
    BY <2>1, <2>2, <2>3, PartTypes DEF PartsBy, GatewayTypes
  <2>4. CASE m.role = "assistant"
    BY <2>1, <2>2, <2>4, PartTypes DEF PartsBy, GatewayTypes
  <2>5. CASE m.role = "tool"
    BY <2>1, <2>2, <2>5, PartTypes DEF PartsBy, GatewayTypes
  <2> QED BY <1>1, <2>3, <2>4, <2>5 DEF Roles
<1> QED BY <1>1, <1>2, <1>3 DEF Accepted, GatewayTypes, Roles

(* A message more, and a result more in the last message.                   *)
LastMessage(list) == list[Len(list)]
Added(list, list2) ==
    /\ Len(list2) = Len(list) + 1
    /\ list2 = Append(list, LastMessage(list2))
    /\ Accepted(LastMessage(list2))
    /\ LastMessage(list2).role = "tool" => list = <<>> \/ LastMessage(list).role # "tool"

Extended(list, list2) ==
    /\ list # <<>> /\ LastMessage(list).role = "tool"
    /\ Len(list2) = Len(list) /\ Accepted(LastMessage(list2))
    /\ list2 = [list EXCEPT ![Len(list)].content =
                   Append(@, LastMessage(list2).content[Len(LastMessage(list2).content)])]

(* The last element of a list with one element more.                        *)
LEMMA MoreEnds == \A T : \A s \in Lists(T), x \in T : LastMessage(More(s, x)) = x /\ Len(More(s, x)) = Len(s) + 1
<1> SUFFICES ASSUME NEW T, NEW s \in Lists(T), NEW x \in T
             PROVE  LastMessage(More(s, x)) = x /\ Len(More(s, x)) = Len(s) + 1
  OBVIOUS
<1>1. PICK more, n : more = More(s, x) /\ n = After(s)
  OBVIOUS
<1>2. more[n] = x
  <2>1. Grows(more, s, n, x)
    BY <1>1, MoreElements
  <2> QED BY <2>1 DEF Grows
<1>3. Len(more) = n
  BY <1>1, LengthMore
<1> QED BY <1>1, <1>2, <1>3 DEF LastMessage, After

(* A message more is a step of the list.                                    *)
LEMMA MoreIsAdded ==
    ASSUME NEW list \in Lists(OutMessages), NEW m \in OutMessages, ~(m.role = "tool" /\ JoinsLast(list))
    PROVE  Added(list, More(list, m))
<1>1. PICK list2 : list2 = More(list, m)
  OBVIOUS
<1>2. LastMessage(list2) = m /\ Len(list2) = Len(list) + 1
  BY <1>1, MoreEnds
<1>3. list2 = Append(list, LastMessage(list2))
  BY <1>1, <1>2 DEF More
<1>4. Accepted(LastMessage(list2))
  BY <1>2, OutMessagesAccepted
<1>5. LastMessage(list2).role = "tool" => list = <<>> \/ LastMessage(list).role # "tool"
  BY <1>2 DEF JoinsLast, Last, LastMessage
<1>6. Added(list, list2)
  BY <1>2, <1>3, <1>4, <1>5 DEF Added
<1> QED BY <1>1, <1>6

(* A result more is a step of the list.                                     *)
LEMMA AddResultAdds ==
    ASSUME NEW list \in Lists(OutMessages), NEW r \in ResultParts
    PROVE  Added(list, AddResult(list, r)) \/ Extended(list, AddResult(list, r))
<1>1. CASE ~JoinsLast(list)
  <2>1. PICK m \in OutMessages : AddResult(list, r) = More(list, m)
    BY <1>1, AddResultStarts
  <2>2. Added(list, More(list, m))
    BY <1>1, MoreIsAdded
  <2> QED BY <2>1, <2>2
<1>2. CASE JoinsLast(list)
  <2>0. PICK front \in Lists(OutMessages), c \in Lists(ResultParts), old \in OutMessages, new \in OutMessages :
            /\ old = Message("tool", c) /\ new = Message("tool", More(c, r))
            /\ list = More(front, old) /\ AddResult(list, r) = More(front, new)
    BY <1>2, AddResultJoins
  <2>1. PICK list2 :
            /\ old = Message("tool", c) /\ new = Message("tool", More(c, r))
            /\ list = More(front, old) /\ list2 = AddResult(list, r) /\ list2 = More(front, new)
    BY <2>0
  <2>2. LastMessage(list2) = new /\ Len(list2) = Len(list)
    <3>1. LastMessage(list2) = new /\ Len(list2) = Len(front) + 1
      BY <2>1, MoreEnds
    <3>2. Len(list) = Len(front) + 1
      BY <2>1, MoreEnds
    <3> QED BY <3>1, <3>2
  <2>3. list # <<>> /\ LastMessage(list).role = "tool"
    BY <1>2 DEF JoinsLast, Last, LastMessage
  <2>4. Accepted(LastMessage(list2))
    BY <2>2, OutMessagesAccepted
  <2>5. PICK d : d = new.content /\ d = More(c, r)
    BY <2>1, MessageHas
  <2>6. d[Len(d)] = r
    BY <2>5, MoreEnds DEF LastMessage
  <2>7. list2 = [list EXCEPT ![Len(list)].content = Append(@, r)]
    BY <1>2, <2>1 DEF AddResult, JoinsLast
  <2>8. list2 = [list EXCEPT ![Len(list)].content = Append(@, LastMessage(list2).content[Len(LastMessage(list2).content)])]
    BY <2>2, <2>5, <2>6, <2>7
  <2>9. Extended(list, list2)
    BY <2>2, <2>3, <2>4, <2>8 DEF Extended
  <2> QED BY <2>1, <2>9
<1> QED BY <1>1, <1>2

(* A turn more is a step of the list, or none.                              *)
LEMMA WithTurnAdds ==
    ASSUME NEW list \in Lists(OutMessages), NEW role \in {"user", "assistant"}, NEW content \in Lists(PartsBy(role))
    PROVE  WithTurn(list, role, content) = list \/ Added(list, WithTurn(list, role, content))
<1>1. CASE content = <<>>
  BY <1>1 DEF WithTurn
<1>2. CASE content # <<>>
  <2>1. PICK m \in OutMessages : m = Message(role, content)
    BY <1>2, OutMessageIs DEF Roles
  <2>2. m.role = role
    BY <2>1, MessageHas
  <2>3. Added(list, More(list, m))
    BY <2>2, MoreIsAdded
  <2> QED BY <1>2, <2>1, <2>3 DEF WithTurn
<1> QED BY <1>1, <1>2

(* The list of the Proxy.                                                   *)
LEMMA ProxyAdds ==
    stage = "messages" /\ stage' = "messages" /\ (Added(messages, messages') \/ Extended(messages, messages')) => ProxyList!Next
<1>1. ASSUME stage = "messages", stage' = "messages", Added(messages, messages') PROVE ProxyList!AddMessage
  BY <1>1 DEF ProxyList!AddMessage, ProxyList!Final, ProxyList!WellFormed, ProxyList!PartTypes, Added, LastMessage, Accepted, GatewayTypes
<1>2. ASSUME stage = "messages", stage' = "messages", Extended(messages, messages') PROVE ProxyList!ExtendResults
  BY <1>2 DEF ProxyList!ExtendResults, ProxyList!Final, ProxyList!WellFormed, ProxyList!PartTypes, Extended, LastMessage, Accepted, GatewayTypes
<1> QED BY <1>1, <1>2 DEF ProxyList!Next

(* And for Pi.                                                              *)
LEMMA PiAdds ==
    converted = FALSE /\ converted' = FALSE /\ (Added(out, out') \/ Extended(out, out')) => PiList!Next
<1>1. ASSUME converted = FALSE, converted' = FALSE, Added(out, out') PROVE PiList!AddMessage
  BY <1>1 DEF PiList!AddMessage, PiList!Final, PiList!WellFormed, PiList!PartTypes, Added, LastMessage, Accepted, GatewayTypes
<1>2. ASSUME converted = FALSE, converted' = FALSE, Extended(out, out') PROVE PiList!ExtendResults
  BY <1>2 DEF PiList!ExtendResults, PiList!Final, PiList!WellFormed, PiList!PartTypes, Extended, LastMessage, Accepted, GatewayTypes
<1> QED BY <1>1, <1>2 DEF PiList!Next

(* Every step of the Proxy is a step of ModelMessages, or none.             *)
LEMMA ProxyListSteps == ProxyTypes /\ [Next]_vars => [ProxyList!Next]_<<messages, stage # "messages">>
<1> SUFFICES ASSUME ProxyTypes, [Next]_vars PROVE [ProxyList!Next]_<<messages, stage # "messages">>
  OBVIOUS
<1> USE DEF ProxyTypes
<1>1. ASSUME NEW m \in ChatMessage, ConvertMessage(m) PROVE [ProxyList!Next]_<<messages, stage # "messages">>
  <2>1. CASE System(m)
    BY <2>1, SystemDoes
  <2>2. CASE User(m)
    <3>1. PICK added \in OutMessages : added = Message("user", UserContent(m.content)) /\ added.role = "user"
      BY <2>2, UserDoes, ChatUserMessage, MessageHas
    <3>2. Added(messages, More(messages, added))
      BY <3>1, MoreIsAdded
    <3> QED BY <2>2, <3>1, <3>2, UserDoes, ProxyAdds
  <2>3. CASE Assistant(m)
    <3>1. AssistantContent(m) \in Lists(PartsBy("assistant"))
      BY <2>3, AssistantDoes, AssistantContentType
    <3>2. messages' = messages \/ Added(messages, messages')
      BY <2>3, <3>1, AssistantDoes, WithTurnAdds
    <3> QED BY <2>3, <3>2, AssistantDoes, ProxyAdds
  <2>4. CASE ToolResult(m)
    <3>1. ChatResult(m) \in ResultParts
      BY <2>4, ToolResultDoes, ChatResultType
    <3>2. Added(messages, messages') \/ Extended(messages, messages')
      BY <2>4, <3>1, ToolResultDoes, AddResultAdds
    <3> QED BY <2>4, <3>2, ToolResultDoes, ProxyAdds
  <2>5. CASE RefuseMessage(m)
    BY <2>5, RefuseDoes DEF ProxyList!Next, ProxyList!Seal
  <2> QED BY <1>1, <2>1, <2>2, <2>3, <2>4, <2>5 DEF ConvertMessage
<1>2. ASSUME EndOfMessages PROVE ProxyList!Next
  BY <1>2 DEF EndOfMessages, loopVars, ProxyList!Next, ProxyList!Seal
<1>3. ASSUME NEW t \in ChatTool, ConvertTool(t) PROVE UNCHANGED <<messages, stage # "messages">>
  BY <1>3 DEF ConvertTool, loopVars
<1>4. ASSUME Build PROVE UNCHANGED <<messages, stage # "messages">>
  BY <1>4 DEF Build, loopVars
<1>5. ASSUME UNCHANGED convertVars PROVE UNCHANGED <<messages, stage # "messages">>
  BY <1>5 DEF convertVars, loopVars
<1> QED BY <1>1, <1>2, <1>3, <1>4, <1>5, ProxySteps

(* Every step of Pi is a step of ModelMessages, or none.                    *)
LEMMA PiListSteps == PiTypes /\ [Next]_vars => [PiList!Next]_<<out, converted>>
<1> SUFFICES ASSUME PiTypes, [Next]_vars PROVE [PiList!Next]_<<out, converted>>
  OBVIOUS
<1>0. out \in Lists(OutMessages)
  BY DEF PiTypes
<1>1. ASSUME NEW m \in PiMessage, PiConvertMessage(m) PROVE [PiList!Next]_<<out, converted>>
  <2>1. CASE PiUser(m)
    <3>1. PiUserContent(m) \in Lists(PartsBy("user"))
      BY <2>1, PiUserDoes, PiUserContentType
    <3>2. out' = out \/ Added(out, out')
      BY <1>0, <2>1, <3>1, PiUserDoes, WithTurnAdds
    <3> QED BY <2>1, <3>2, PiUserDoes, PiAdds DEF PiReadsMore
  <2>2. CASE PiAssistant(m)
    <3>1. PiAssistantContent(m.blocks) \in Lists(PartsBy("assistant"))
      BY <2>2, PiAssistantDoes, PiMessageHas, PiAssistantContentType
    <3>2. out' = out \/ Added(out, out')
      BY <1>0, <2>2, <3>1, PiAssistantDoes, WithTurnAdds
    <3> QED BY <2>2, <3>2, PiAssistantDoes, PiAdds DEF PiReadsMore
  <2>3. CASE PiToolResult(m)
    <3>1. PiResult(m) \in ResultParts
      BY <2>3, PiToolResultDoes, PiResultType
    <3>2. Added(out, out') \/ Extended(out, out')
      BY <1>0, <2>3, <3>1, PiToolResultDoes, AddResultAdds
    <3> QED BY <2>3, <3>2, PiToolResultDoes, PiAdds DEF PiReadsMore
  <2> QED BY <1>1, <2>1, <2>2, <2>3 DEF PiConvertMessage
<1>2. ASSUME PiReturn PROVE PiList!Next
  BY <1>2 DEF PiReturn, PiTypes, PiList!Next, PiList!Seal
<1>3. ASSUME UNCHANGED piVars PROVE UNCHANGED <<out, converted>>
  BY <1>3 DEF piVars
<1> QED BY <1>1, <1>2, <1>3, PiSteps

(* The variables of both conversions always hold what their types say: in   *)
(* particular, every message that the Proxy (convert.go:138-195) or the     *)
(* Adapter (index.ts:380-431) has written holds parts of its role only, and *)
(* results and answers are never empty.                                     *)
THEOREM Typed == Spec => [](ProxyTypes /\ PiTypes)
<1>1. Init => ProxyTypes /\ PiTypes
  BY TypesInit
<1>2. ProxyTypes /\ PiTypes /\ [Next]_vars => ProxyTypes' /\ PiTypes'
  BY ProxyTypesKept, PiTypesKept
<1> QED BY <1>1, <1>2, PTL DEF Spec

(* The lists of the Proxy and of Pi grow as ModelMessages says, the list of *)
(* messages that the gateway accepts: by an accepted message at the end, or *)
(* by a result in the last one, which joins results that follow each other; *)
(* and what was written is not changed.                                     *)
THEOREM ListsAreWhatTheGatewayAccepts == Spec => KeepsSchema
<1>1. Init => ProxyList!Init /\ PiList!Init
  BY DEF Init, ConvertInit, PiConvertInit, ProxyList!Init, PiList!Init
<1>2. ProxyTypes /\ PiTypes /\ [Next]_vars =>
        [ProxyList!Next]_<<messages, stage # "messages">> /\ [PiList!Next]_<<out, converted>>
  BY ProxyListSteps, PiListSteps
<1> QED BY <1>1, <1>2, Typed, PTL DEF Spec, KeepsSchema, ProxyList!Spec, PiList!Spec

-----------------------------------------------------------------------------
(* Results, and the names they carry.                                       *)

(* The parts of a list of messages.                                         *)
ContentOf == [m \in OutMessages |-> m.content]

(* The contents of messages.                                                *)
LEMMA ContentOfType == ContentOf \in Maps(OutMessages, Lists(AnyPart)) /\ \A m \in OutMessages : ContentOf[m] = m.content
BY OutMessageHas DEF ContentOf, Maps

(* The parts of a list are collected from its messages.                     *)
LEMMA PartsOfIs == \A list \in Lists(OutMessages) : PartsOf(list) = Collected(ContentOf, list)
<1> SUFFICES ASSUME NEW list \in Lists(OutMessages) PROVE PartsOf(list) = Collected(ContentOf, list)
  OBVIOUS
<1>1. \A k \in DOMAIN list : list[k] \in OutMessages
  BY DEF Lists
<1>2. [k \in DOMAIN list |-> list[k].content] = Each(ContentOf, list)
  BY <1>1 DEF Each, ContentOf
<1> QED BY <1>2 DEF PartsOf, OfEach, Collected

(* They are a list of parts.                                                *)
LEMMA PartsOfType == \A list \in Lists(OutMessages) : PartsOf(list) \in Lists(AnyPart)
BY PartsOfIs, ContentOfType, CollectedType

(* The parts with a message more.                                           *)
LEMMA PartsMore ==
    ASSUME NEW list \in Lists(OutMessages), NEW m \in OutMessages
    PROVE  PartsOf(More(list, m)) = Joined(PartsOf(list), m.content)
<1>1. More(list, m) \in Lists(OutMessages)
  BY MoreType
<1>2. Collected(ContentOf, More(list, m)) = Joined(Collected(ContentOf, list), ContentOf[m])
  BY ContentOfType, CollectedMore
<1> QED BY <1>1, <1>2, PartsOfIs, ContentOfType

(* The parts with a turn more.                                              *)
LEMMA PartsWithTurn ==
    ASSUME NEW list \in Lists(OutMessages), NEW role \in Roles, NEW content \in Lists(PartsBy(role))
    PROVE  PartsOf(WithTurn(list, role, content)) = Joined(PartsOf(list), content)
<1>1. CASE content = <<>>
  <2>1. PICK p \in Lists(AnyPart) : p = PartsOf(list)
    BY PartsOfType
  <2>2. Joined(p, <<>>) = p
    BY ListTypes
  <2> QED BY <1>1, <2>1, <2>2 DEF WithTurn
<1>2. CASE content # <<>>
  <2>1. PICK m \in OutMessages : m = Message(role, content)
    BY <1>2, OutMessageIs
  <2>2. m.content = content
    BY <2>1, MessageHas
  <2>3. PartsOf(More(list, m)) = Joined(PartsOf(list), content)
    BY <2>2, PartsMore
  <2> QED BY <1>2, <2>1, <2>3 DEF WithTurn
<1> QED BY <1>1, <1>2

(* The parts with a result more: the same wherever it is added.             *)
LEMMA PartsAddResult ==
    ASSUME NEW list \in Lists(OutMessages), NEW r \in ResultParts
    PROVE  PartsOf(AddResult(list, r)) = More(PartsOf(list), r)
<1>0. r \in AnyPart
  BY DEF AnyPart
<1>1. CASE ~JoinsLast(list)
  <2>1. PICK m \in OutMessages : m = Message("tool", Single(r)) /\ AddResult(list, r) = More(list, m)
    BY <1>1, AddResultStarts
  <2>2. PartsOf(More(list, m)) = Joined(PartsOf(list), Single(r))
    BY <2>1, MessageHas, PartsMore
  <2>3. Joined(PartsOf(list), Single(r)) = More(PartsOf(list), r)
    BY <1>0, PartsOfType, JoinedSingle
  <2> QED BY <2>1, <2>2, <2>3
<1>2. CASE JoinsLast(list)
  <2>0. PICK front \in Lists(OutMessages), c \in Lists(ResultParts), old \in OutMessages, new \in OutMessages :
            /\ old = Message("tool", c) /\ new = Message("tool", More(c, r))
            /\ list = More(front, old) /\ AddResult(list, r) = More(front, new)
    BY <1>2, AddResultJoins
  <2>1. PICK list2 :
            /\ old = Message("tool", c) /\ new = Message("tool", More(c, r))
            /\ list = More(front, old) /\ list2 = AddResult(list, r) /\ list2 = More(front, new)
    BY <2>0
  <2>2. old.content = c /\ new.content = More(c, r)
    BY <2>1, MessageHas
  <2>3. PICK f \in Lists(AnyPart), d \in Lists(AnyPart) : f = PartsOf(front) /\ d = c
    BY PartsOfType, ListsGrow DEF AnyPart
  <2>4. PartsOf(list) = Joined(f, d)
    BY <2>1, <2>2, <2>3, PartsMore
  <2>5. PartsOf(list2) = Joined(f, More(d, r))
    BY <2>1, <2>2, <2>3, PartsMore
  <2>6. Joined(f, More(d, r)) = More(Joined(f, d), r)
    BY <1>0, JoinedMore
  <2> QED BY <2>1, <2>4, <2>5, <2>6
<1> QED BY <1>1, <1>2

(* Elements that give nothing.                                              *)
GivesNothing(f, S) == \A x \in S : f[x] = <<>>

(* From elements that give nothing, nothing is collected.                   *)
LEMMA CollectedNone ==
    ASSUME NEW T, NEW V, NEW f \in Maps(T, Lists(V)), NEW S \in SUBSET T, GivesNothing(f, S), NEW seq \in Lists(S)
    PROVE  Collected(f, seq) = <<>>
<1> DEFINE P == {s \in Lists(S) : Collected(f, s) = <<>>}
<1>0. \A s : s \in P <=> s \in Lists(S) /\ Collected(f, s) = <<>>
  OBVIOUS
<1> HIDE DEF P
<1>1. <<>> \in P
  BY <1>0, NothingIsAList, CollectedNothing
<1>2. ASSUME NEW s \in Lists(S), NEW x \in S, s \in P PROVE More(s, x) \in P
  <2>1. s \in Lists(T) /\ x \in T
    BY ListsGrow
  <2>2. Collected(f, More(s, x)) = Joined(Collected(f, s), f[x])
    BY <2>1, CollectedMore
  <2>3. Collected(f, s) = <<>> /\ f[x] = <<>>
    BY <1>0, <1>2 DEF GivesNothing
  <2>4. Joined(<<>>, <<>>) = <<>>
    BY NothingIsAList, ListTypes
  <2> QED BY <1>0, <2>2, <2>3, <2>4, MoreType
<1>3. Inductive(P, S)
  BY <1>1, <1>2 DEF Inductive
<1> QED BY <1>0, <1>3, ListsByInduction

(* The results in a list of messages.                                       *)
Pair(id, name) == <<id, name>>
Pairs == Ids \X ResultNames

(* An id and a name are a pair.                                             *)
LEMMA PairType == \A id \in Ids, name \in ResultNames : Pair(id, name) \in Pairs
BY DEF Pair, Pairs

ResultPair == [p \in AnyPart |-> IF p.type = "tool-result" THEN Single(Pair(p.toolCallId, p.toolName)) ELSE <<>>]

(* Only results have pairs.                                                 *)
LEMMA ResultPairIs ==
    /\ \A p \in ResultParts : p \in AnyPart /\ ResultPair[p] = Single(Pair(p.toolCallId, p.toolName))
                              /\ Pair(p.toolCallId, p.toolName) \in Pairs
    /\ \A role \in {"user", "assistant"} : GivesNothing(ResultPair, PartsBy(role))
<1>1. \A p \in ResultParts : p \in AnyPart /\ ResultPair[p] = Single(Pair(p.toolCallId, p.toolName))
                             /\ Pair(p.toolCallId, p.toolName) \in Pairs
  BY PartTypes, PairType DEF ResultPair, AnyPart
<1>2. ASSUME NEW role \in {"user", "assistant"}, NEW p \in PartsBy(role) PROVE ResultPair[p] = <<>>
  <2>1. p \in AnyPart
    BY PartsByAny
  <2>2. p.type # "tool-result"
    BY <1>2, PartTypes DEF PartsBy
  <2> QED BY <2>1, <2>2 DEF ResultPair
<1> QED BY <1>1, <1>2 DEF GivesNothing

(* The pairs of parts.                                                      *)
LEMMA ResultPairType == ResultPair \in Maps(AnyPart, Lists(Pairs))
<1> SUFFICES ASSUME NEW p \in AnyPart PROVE ResultPair[p] \in Lists(Pairs)
  BY DEF ResultPair, Maps
<1>1. CASE p \in ResultParts
  BY <1>1, ResultPairIs, SingleType
<1>2. CASE p \notin ResultParts
  <2>1. p.type # "tool-result"
    BY <1>2, PartTypes DEF AnyPart
  <2> QED BY <2>1, NothingIsAList DEF ResultPair
<1> QED BY <1>1, <1>2

(* The results in a list are collected from its parts.                      *)
LEMMA ResultsAre == \A list \in Lists(OutMessages) : Results(list) = Collected(ResultPair, PartsOf(list))
<1> SUFFICES ASSUME NEW list \in Lists(OutMessages) PROVE Results(list) = Collected(ResultPair, PartsOf(list))
  OBVIOUS
<1>1. PICK parts \in Lists(AnyPart) : parts = PartsOf(list)
  BY PartsOfType
<1>2. \A k \in DOMAIN parts : parts[k] \in AnyPart
  BY DEF Lists
<1>3. [k \in DOMAIN parts |-> IF parts[k].type = "tool-result" THEN <<<<parts[k].toolCallId, parts[k].toolName>>>> ELSE <<>>]
        = Each(ResultPair, parts)
  BY <1>2 DEF Each, ResultPair, Pair, Single
<1> QED BY <1>1, <1>3 DEF Results, Those, OfEach, Collected

(* A turn that is no result adds none.                                      *)
LEMMA ResultsWithTurn ==
    ASSUME NEW list \in Lists(OutMessages), NEW role \in {"user", "assistant"}, NEW content \in Lists(PartsBy(role))
    PROVE  Results(WithTurn(list, role, content)) = Results(list)
<1>0. role \in Roles
  BY DEF Roles
<1>1. WithTurn(list, role, content) \in Lists(OutMessages)
  BY <1>0, WithTurnType
<1>2. PICK p \in Lists(AnyPart), c \in Lists(AnyPart) : p = PartsOf(list) /\ c = content
  BY PartsOfType, ListsGrow, PartsByAny
<1>3. PartsOf(WithTurn(list, role, content)) = Joined(p, c)
  BY <1>0, <1>2, PartsWithTurn
<1>4. Collected(ResultPair, Joined(p, c)) = Joined(Collected(ResultPair, p), Collected(ResultPair, c))
  BY ResultPairType, CollectedJoined
<1>5. Collected(ResultPair, c) = <<>>
  <2>1. GivesNothing(ResultPair, PartsBy(role)) /\ PartsBy(role) \in SUBSET AnyPart
    BY ResultPairIs, PartsByAny
  <2> QED BY <1>2, <2>1, ResultPairType, CollectedNone
<1>6. Joined(Collected(ResultPair, p), <<>>) = Collected(ResultPair, p)
  BY ResultPairType, CollectedType, ListTypes
<1> QED BY <1>1, <1>2, <1>3, <1>4, <1>5, <1>6, ResultsAre

(* A result more comes last.                                                *)
LEMMA ResultsAddResult ==
    ASSUME NEW list \in Lists(OutMessages), NEW r \in ResultParts
    PROVE  Results(AddResult(list, r)) = Joined(Results(list), Single(Pair(r.toolCallId, r.toolName)))
<1>1. AddResult(list, r) \in Lists(OutMessages)
  BY AddResultType
<1>2. PICK p \in Lists(AnyPart), x \in AnyPart : p = PartsOf(list) /\ x = r
  BY PartsOfType DEF AnyPart
<1>3. PartsOf(AddResult(list, r)) = More(p, x)
  BY <1>2, PartsAddResult
<1>4. Collected(ResultPair, More(p, x)) = Joined(Collected(ResultPair, p), ResultPair[x])
  BY ResultPairType, CollectedMore
<1>5. ResultPair[x] = Single(Pair(r.toolCallId, r.toolName))
  BY <1>2, ResultPairIs
<1> QED BY <1>1, <1>2, <1>3, <1>4, <1>5, ResultsAre

(* The calls of a message, and of a list of messages.                       *)
CallsAt(m, i) ==
    IF m.role # "assistant" THEN {}
    ELSE IF "calls" \in DOMAIN m
    THEN {<<i, k, m.calls[k].id, m.calls[k].name>> : k \in DOMAIN m.calls}
    ELSE {<<i, k, m.blocks[k].id, m.blocks[k].name>> : k \in {l \in DOMAIN m.blocks : m.blocks[l].type = "toolCall"}}

AllCalls(seq) == UNION {CallsAt(seq[i], i) : i \in DOMAIN seq}
NamedIn(C, i, fallback) ==
    LET mine == {c \in C : c[3] = i}
    IN  IF mine = {} THEN fallback
        ELSE (CHOOSE c \in mine : \A d \in mine : d[1] < c[1] \/ (d[1] = c[1] /\ d[2] <= c[2]))[4]

CallSet(n, K, ids, names) == {<<n, k, ids[k], names[k]>> : k \in K}

(* CallsBefore, message by message.                                         *)
LEMMA CallsBeforeIs == \A seq, j : CallsBefore(seq, j) = UNION {CallsAt(seq[i], i) : i \in 1..(j - 1)}
BY DEF CallsBefore, CallsAt

(* LatestName, from the calls before.                                       *)
LEMMA LatestNameIs == \A seq, j, fallback : LatestName(seq, j, fallback) = NamedIn(CallsBefore(seq, j), seq[j].id, fallback)
BY DEF LatestName, NamedIn

(* Calls tell where their message is.                                       *)
LEMMA CallsAtPlace == \A m, i : \A c \in CallsAt(m, i) : c[1] = i
BY DEF CallsAt

(* The calls of an answer in a request.                                     *)
LEMMA ChatCallsAt ==
    \A m \in ChatMessage : \A i : m.role = "assistant" =>
        CallsAt(m, i) = CallSet(i, DOMAIN m.calls, IdsOf(m.calls), NamesOf(m.calls))
<1> SUFFICES ASSUME NEW m \in ChatMessage, NEW i, m.role = "assistant"
             PROVE  CallsAt(m, i) = CallSet(i, DOMAIN m.calls, IdsOf(m.calls), NamesOf(m.calls))
  OBVIOUS
<1>1. PICK calls, K, ids, names : calls = m.calls /\ K = DOMAIN calls /\ ids = IdsOf(calls) /\ names = NamesOf(calls)
  OBVIOUS
<1>2. \A k \in K : ids[k] = calls[k].id /\ names[k] = calls[k].name
  BY <1>1 DEF IdsOf, NamesOf
<1>3. CallsAt(m, i) = {<<i, k, calls[k].id, calls[k].name>> : k \in K}
  BY <1>1, ChatMessageHas DEF CallsAt
<1>4. {<<i, k, calls[k].id, calls[k].name>> : k \in K} = {<<i, k, ids[k], names[k]>> : k \in K}
  BY <1>2
<1> QED BY <1>1, <1>3, <1>4 DEF CallSet

(* The calls of an answer in a session.                                     *)
LEMMA PiCallsAt ==
    \A m \in PiMessage : \A i : m.role = "assistant" =>
        CallsAt(m, i) = CallSet(i, CallBlocks(m.blocks), BlockIds(m.blocks), BlockNames(m.blocks))
<1> SUFFICES ASSUME NEW m \in PiMessage, NEW i, m.role = "assistant"
             PROVE  CallsAt(m, i) = CallSet(i, CallBlocks(m.blocks), BlockIds(m.blocks), BlockNames(m.blocks))
  OBVIOUS
<1>1. PICK blocks, K, ids, names : blocks = m.blocks /\ K = CallBlocks(blocks) /\ ids = BlockIds(blocks) /\ names = BlockNames(blocks)
  OBVIOUS
<1>2. \A k \in K : ids[k] = blocks[k].id /\ names[k] = blocks[k].name
  BY <1>1 DEF BlockIds, BlockNames
<1>3. CallsAt(m, i) = {<<i, k, blocks[k].id, blocks[k].name>> : k \in K}
  BY <1>1, PiMessageHas DEF CallsAt, CallBlocks
<1>4. {<<i, k, blocks[k].id, blocks[k].name>> : k \in K} = {<<i, k, ids[k], names[k]>> : k \in K}
  BY <1>2
<1> QED BY <1>1, <1>3, <1>4 DEF CallSet

(* Other messages have no calls.                                            *)
LEMMA NoCallsAt == \A m, i : m.role # "assistant" => CallsAt(m, i) = {}
BY DEF CallsAt

(* The places of a list are those before the next one.                      *)
LEMMA AfterIs == \A T : \A s \in Lists(T) : After(s) \in Nat \ {0} /\ DOMAIN s = 1..(After(s) - 1)
<1> SUFFICES ASSUME NEW T, NEW s \in Lists(T) PROVE After(s) \in Nat \ {0} /\ DOMAIN s = 1..(After(s) - 1)
  OBVIOUS
<1>1. PICK n \in Nat : n = Len(s) /\ DOMAIN s = 1..n
  BY LenProperties DEF Lists
<1> QED BY <1>1 DEF After

(* The calls with a message more.                                           *)
LEMMA CallsMore ==
    ASSUME NEW T, NEW seq \in Lists(T), NEW m \in T
    PROVE  /\ AllCalls(More(seq, m)) = AllCalls(seq) \cup CallsAt(m, After(seq))
           /\ CallsBefore(More(seq, m), After(seq)) = AllCalls(seq)
           /\ \A j \in DOMAIN seq : CallsBefore(More(seq, m), j) = CallsBefore(seq, j)
<1>0. PICK more : more = More(seq, m)
  OBVIOUS
<1>a. PICK n \in Nat : n = After(seq) /\ DOMAIN seq = 1..(n - 1)
  BY AfterIs
<1>1. more = More(seq, m) /\ n = After(seq) /\ DOMAIN seq = 1..(n - 1)
  BY <1>0, <1>a
<1>2. DOMAIN more = DOMAIN seq \cup {n} /\ more[n] = m /\ \A k \in DOMAIN seq : more[k] = seq[k]
  <2>1. Grows(more, seq, n, m)
    BY <1>1, MoreElements
  <2> QED BY <2>1 DEF Grows
<1>3. {CallsAt(more[i], i) : i \in DOMAIN seq} = {CallsAt(seq[i], i) : i \in DOMAIN seq}
  BY <1>2
<1>4. {CallsAt(more[i], i) : i \in DOMAIN more} = {CallsAt(more[i], i) : i \in DOMAIN seq} \cup {CallsAt(m, n)}
  BY <1>2
<1>5. AllCalls(more) = AllCalls(seq) \cup CallsAt(m, n)
  BY <1>3, <1>4 DEF AllCalls
<1>6. CallsBefore(more, n) = AllCalls(seq)
  <2>1. CallsBefore(more, n) = UNION {CallsAt(more[i], i) : i \in 1..(n - 1)}
    BY CallsBeforeIs
  <2> QED BY <1>1, <1>3, <2>1 DEF AllCalls
<1>7. ASSUME NEW j \in DOMAIN seq PROVE CallsBefore(more, j) = CallsBefore(seq, j)
  <2>1. PICK B : B = 1..(j - 1) /\ B \subseteq DOMAIN seq
    BY <1>1
  <2>2. {CallsAt(more[i], i) : i \in B} = {CallsAt(seq[i], i) : i \in B}
    BY <1>2, <2>1
  <2>3. CallsBefore(more, j) = UNION {CallsAt(more[i], i) : i \in 1..(j - 1)}
    BY CallsBeforeIs
  <2>4. CallsBefore(seq, j) = UNION {CallsAt(seq[i], i) : i \in 1..(j - 1)}
    BY CallsBeforeIs
  <2> QED BY <2>1, <2>2, <2>3, <2>4
<1> QED BY <1>1, <1>5, <1>6, <1>7

(* A map of names has the latest name of every id.                          *)
Agrees(names, C) ==
    /\ \A i : i \in DOMAIN names <=> \E c \in C : c[3] = i
    /\ \A i \in DOMAIN names : names[i] = NamedIn(C, i, "unknown")

UpTo(C, n) == \A c \in C : c[1] \in Nat /\ c[1] < n

(* All calls were made before the next message.                             *)
LEMMA AllCallsUpTo == \A T : \A seq \in Lists(T) : UpTo(AllCalls(seq), After(seq))
<1> SUFFICES ASSUME NEW T, NEW seq \in Lists(T), NEW c \in AllCalls(seq) PROVE c[1] \in Nat /\ c[1] < After(seq)
  BY DEF UpTo
<1>1. PICK n \in Nat : n = After(seq) /\ DOMAIN seq = 1..(n - 1)
  BY AfterIs
<1>2. PICK i \in 1..(n - 1) : c \in CallsAt(seq[i], i)
  BY <1>1 DEF AllCalls
<1>3. c[1] = i
  BY <1>2, CallsAtPlace
<1> QED BY <1>1, <1>3

(* Where there is a call, the last resort does not matter.                  *)
LEMMA NamedAnyway ==
    \A C, i, a, b : (\E c \in C : c[3] = i) => NamedIn(C, i, a) = NamedIn(C, i, b)
<1> SUFFICES ASSUME NEW C, NEW i, NEW a, NEW b, \E c \in C : c[3] = i PROVE NamedIn(C, i, a) = NamedIn(C, i, b)
  OBVIOUS
<1>1. {c \in C : c[3] = i} # {}
  OBVIOUS
<1> QED BY <1>1 DEF NamedIn

(* Where there is none, it is what counts.                                  *)
LEMMA NotNamed == \A C, i, a : (\A c \in C : c[3] # i) => NamedIn(C, i, a) = a
<1> SUFFICES ASSUME NEW C, NEW i, NEW a, \A c \in C : c[3] # i PROVE NamedIn(C, i, a) = a
  OBVIOUS
<1>1. {c \in C : c[3] = i} = {}
  OBVIOUS
<1> QED BY <1>1 DEF NamedIn

NameFrom(mine, fallback) ==
    IF mine = {} THEN fallback
    ELSE (CHOOSE c \in mine : \A d \in mine : d[1] < c[1] \/ (d[1] = c[1] /\ d[2] <= c[2]))[4]

(* The name of an id comes from the calls with that id.                     *)
LEMMA NameFromIs == \A C, i, fallback : NamedIn(C, i, fallback) = NameFrom({c \in C : c[3] = i}, fallback)
BY DEF NamedIn, NameFrom

With(D, C, S) == D = C \cup S

(* The name of the last call with an id is its name.                        *)
LEMMA NewCallNamed ==
    ASSUME NEW n \in Nat, NEW K, Places(K), NEW ids, NEW names, NEW C, UpTo(C, n),
           NEW k \in K, LastOne(k, K, ids), NEW D, With(D, C, CallSet(n, K, ids, names))
    PROVE  NamedIn(D, ids[k], "unknown") = names[k]
<1>0. K \subseteq Nat /\ \A j \in K : ids[j] = ids[k] => j <= k
  BY DEF Places, LastOne
<1>1. PICK new, i : D = C \cup new /\ new = CallSet(n, K, ids, names) /\ i = ids[k]
  BY DEF With
<1>2. PICK mine : mine = {c \in D : c[3] = i}
  OBVIOUS
<1> DEFINE Wins(c) == \A d \in mine : d[1] < c[1] \/ (d[1] = c[1] /\ d[2] <= c[2])
<1>3. PICK mine0 : mine0 = <<n, k, ids[k], names[k]>>
  OBVIOUS
<1>a. mine0[1] = n /\ mine0[2] = k /\ mine0[3] = i /\ mine0[4] = names[k]
  BY <1>1, <1>3
<1>4. mine0 \in mine
  BY <1>1, <1>2, <1>3, <1>a DEF CallSet
<1>5. ASSUME NEW c \in mine
      PROVE  \/ c[1] \in Nat /\ c[1] < n
             \/ \E j \in K : c[1] = n /\ c[2] = j /\ ids[j] = i /\ c[4] = names[j] /\ j <= k
  <2>1. CASE c \in C
    BY <2>1 DEF UpTo
  <2>2. CASE c \in new
    <3>1. PICK j \in K : c = <<n, j, ids[j], names[j]>>
      BY <1>1, <2>2 DEF CallSet
    <3>2. c[1] = n /\ c[2] = j /\ c[3] = ids[j] /\ c[4] = names[j]
      BY <3>1
    <3>3. c[3] = i
      BY <1>2
    <3> QED BY <1>0, <1>1, <3>2, <3>3
  <2> QED BY <1>1, <1>2, <2>1, <2>2
<1>6. Wins(mine0)
  BY <1>0, <1>5, <1>a
<1>7. PICK c : c = CHOOSE x \in mine : Wins(x)
  OBVIOUS
<1>8. c \in mine /\ Wins(c)
  BY <1>4, <1>6, <1>7
<1>9. c[4] = names[k]
  <2>1. mine0[1] < c[1] \/ (mine0[1] = c[1] /\ mine0[2] <= c[2])
    BY <1>4, <1>8
  <2>2. n < c[1] \/ (n = c[1] /\ k <= c[2])
    BY <1>a, <2>1
  <2>3. PICK j \in K : c[1] = n /\ c[2] = j /\ ids[j] = i /\ c[4] = names[j] /\ j <= k
    BY <1>5, <1>8, <2>2
  <2>4. j = k
    BY <1>0, <2>2, <2>3
  <2> QED BY <2>3, <2>4
<1>10. mine # {}
  BY <1>4
<1>11. NamedIn(D, i, "unknown") = c[4]
  BY <1>2, <1>7, <1>10 DEF NamedIn
<1> QED BY <1>1, <1>9, <1>11

(* A map that agrees, renamed for the calls of a message, agrees.           *)
LEMMA AgreesMore ==
    ASSUME NEW n \in Nat, NEW K, Places(K), NEW ids, NEW names, NEW C, UpTo(C, n),
           NEW old, NEW new, Agrees(old, C), Renames(new, old, K, ids, names)
    PROVE  Agrees(new, C \cup CallSet(n, K, ids, names))
<1>1. PICK fresh, D : fresh = CallSet(n, K, ids, names) /\ D = C \cup fresh
  OBVIOUS
<1>2. ASSUME NEW i PROVE (\E c \in fresh : c[3] = i) <=> (\E k \in K : ids[k] = i)
  <2>1. ASSUME NEW k \in K, ids[k] = i PROVE \E c \in fresh : c[3] = i
    <3>1. PICK c : c = <<n, k, ids[k], names[k]>>
      OBVIOUS
    <3>2. c[3] = ids[k]
      BY <3>1
    <3> QED BY <1>1, <2>1, <3>1, <3>2 DEF CallSet
  <2>2. ASSUME NEW c \in fresh, c[3] = i PROVE \E k \in K : ids[k] = i
    <3>1. PICK k \in K : c = <<n, k, ids[k], names[k]>>
      BY <1>1 DEF CallSet
    <3>2. c[3] = ids[k]
      BY <3>1
    <3> QED BY <2>2, <3>2
  <2> QED BY <2>1, <2>2
<1>3. DOMAIN new = DOMAIN old \cup {ids[k] : k \in K}
  BY DEF Renames
<1>4. ASSUME NEW i PROVE i \in DOMAIN new <=> \E c \in D : c[3] = i
  BY <1>1, <1>2, <1>3, SMTT(30) DEF Agrees
<1>5. ASSUME NEW i \in DOMAIN new PROVE new[i] = NamedIn(D, i, "unknown")
  <2>1. CASE \E k \in K : ids[k] = i
    <3>a. PICK j \in K : ids[j] = i
      BY <2>1
    <3>1. PICK k \in K : ids[k] = i /\ LastOne(k, K, ids)
      BY <3>a, RenamesLast
    <3>2. new[i] = names[k]
      BY <3>1 DEF Renames
    <3>3. NamedIn(D, ids[k], "unknown") = names[k]
      BY <1>1, <3>1, NewCallNamed DEF With
    <3> QED BY <3>1, <3>2, <3>3
  <2>2. CASE \A k \in K : ids[k] # i
    <3>1. {c \in D : c[3] = i} = {c \in C : c[3] = i}
      BY <1>1, <1>2, <2>2
    <3>2. NamedIn(D, i, "unknown") = NamedIn(C, i, "unknown")
      BY <3>1, NameFromIs
    <3>3. i \in DOMAIN old /\ new[i] = old[i]
      BY <1>3, <2>2 DEF Renames
    <3> QED BY <3>2, <3>3 DEF Agrees
  <2> QED BY <2>1, <2>2
<1> QED BY <1>1, <1>4, <1>5 DEF Agrees

(* The result a message gives, when the calls in C were made before it.     *)
ChatNamed(m, C) ==
    LET latest == NamedIn(C, m.id, "unknown")
    IN  IF m.name # "" THEN m.name ELSE IF latest # "" THEN latest ELSE "unknown"

PiNamed(m, C) == NamedIn(C, m.id, IF m.toolName = Missing THEN "unknown" ELSE m.toolName)
ChatAnswer(m, C) == IF m.role = "tool" THEN Single(Pair(m.id, ChatNamed(m, C))) ELSE <<>>
PiAnswerTo(m, C) == IF m.role = "toolResult" THEN Single(Pair(m.id, PiNamed(m, C))) ELSE <<>>
ChatAnswers(seq) == [j \in DOMAIN seq |-> ChatAnswer(seq[j], CallsBefore(seq, j))]
PiAnswers(seq) == [j \in DOMAIN seq |-> PiAnswerTo(seq[j], CallsBefore(seq, j))]

(* The answers of a request with a message more.                            *)
LEMMA ChatAnswersMore ==
    ASSUME NEW T, NEW V, NEW seq \in Lists(T), NEW m \in T, ChatAnswers(seq) \in Lists(V),
           ChatAnswer(m, AllCalls(seq)) \in V
    PROVE  ChatAnswers(More(seq, m)) = More(ChatAnswers(seq), ChatAnswer(m, AllCalls(seq)))
<1>1. PICK more, n : more = More(seq, m) /\ n = After(seq)
  OBVIOUS
<1>2. Grows(more, seq, n, m)
  BY <1>1, MoreElements
<1>p. PICK a \in Lists(V), x \in V : a = ChatAnswers(seq) /\ x = ChatAnswer(m, AllCalls(seq))
  OBVIOUS
<1>3. PICK e : a = ChatAnswers(seq) /\ x = ChatAnswer(m, AllCalls(seq)) /\ e = ChatAnswers(more)
  BY <1>p
<1>4. CallsBefore(more, n) = AllCalls(seq) /\ \A j \in DOMAIN seq : CallsBefore(more, j) = CallsBefore(seq, j)
  BY <1>1, CallsMore
<1>5. DOMAIN a = DOMAIN seq /\ \A j \in DOMAIN seq : a[j] = ChatAnswer(seq[j], CallsBefore(seq, j))
  BY <1>3 DEF ChatAnswers
<1>6. n = After(a)
  BY <1>1, <1>5, AfterEnd
<1>7. PICK b \in Lists(V) : b = More(a, x)
  BY MoreType
<1>8. Grows(b, a, n, x)
  BY <1>6, <1>7, MoreElements
<1>9. e = [j \in DOMAIN more |-> ChatAnswer(more[j], CallsBefore(more, j))]
  BY <1>3 DEF ChatAnswers
<1>10. DOMAIN e = DOMAIN b /\ \A j \in DOMAIN b : e[j] = b[j]
  <2>1. DOMAIN e = DOMAIN more /\ \A j \in DOMAIN more : e[j] = ChatAnswer(more[j], CallsBefore(more, j))
    BY <1>9
  <2>2. e[n] = x
    BY <1>2, <1>3, <1>4, <2>1 DEF Grows
  <2>3. \A j \in DOMAIN seq : e[j] = a[j]
    BY <1>2, <1>4, <1>5, <2>1 DEF Grows
  <2> QED BY <1>2, <1>5, <1>8, <2>1, <2>2, <2>3 DEF Grows
<1>11. e = b
  <2>1. \A j \in DOMAIN e : e[j] \in V
    BY <1>10 DEF Lists
  <2>2. PICK k \in Nat : DOMAIN b = 1..k
    BY LenProperties DEF Lists
  <2>3. e \in [1..k -> V]
    <3>1. e = [j \in 1..k |-> e[j]]
      BY <1>9, <1>10, <2>2
    <3> QED BY <1>10, <2>1, <2>2, <3>1
  <2>4. e \in Lists(V)
    BY <2>3, FunctionIsSeq DEF Lists
  <2> QED BY <1>10, <2>4, SameList
<1> QED BY <1>1, <1>3, <1>7, <1>11

(* The answers of a session with a message more.                            *)
LEMMA PiAnswersMore ==
    ASSUME NEW T, NEW V, NEW seq \in Lists(T), NEW m \in T, PiAnswers(seq) \in Lists(V),
           PiAnswerTo(m, AllCalls(seq)) \in V
    PROVE  PiAnswers(More(seq, m)) = More(PiAnswers(seq), PiAnswerTo(m, AllCalls(seq)))
<1>1. PICK more, n : more = More(seq, m) /\ n = After(seq)
  OBVIOUS
<1>2. Grows(more, seq, n, m)
  BY <1>1, MoreElements
<1>p. PICK a \in Lists(V), x \in V : a = PiAnswers(seq) /\ x = PiAnswerTo(m, AllCalls(seq))
  OBVIOUS
<1>3. PICK e : a = PiAnswers(seq) /\ x = PiAnswerTo(m, AllCalls(seq)) /\ e = PiAnswers(more)
  BY <1>p
<1>4. CallsBefore(more, n) = AllCalls(seq) /\ \A j \in DOMAIN seq : CallsBefore(more, j) = CallsBefore(seq, j)
  BY <1>1, CallsMore
<1>5. DOMAIN a = DOMAIN seq /\ \A j \in DOMAIN seq : a[j] = PiAnswerTo(seq[j], CallsBefore(seq, j))
  BY <1>3 DEF PiAnswers
<1>6. n = After(a)
  BY <1>1, <1>5, AfterEnd
<1>7. PICK b \in Lists(V) : b = More(a, x)
  BY MoreType
<1>8. Grows(b, a, n, x)
  BY <1>6, <1>7, MoreElements
<1>9. e = [j \in DOMAIN more |-> PiAnswerTo(more[j], CallsBefore(more, j))]
  BY <1>3 DEF PiAnswers
<1>10. DOMAIN e = DOMAIN b /\ \A j \in DOMAIN b : e[j] = b[j]
  <2>1. DOMAIN e = DOMAIN more /\ \A j \in DOMAIN more : e[j] = PiAnswerTo(more[j], CallsBefore(more, j))
    BY <1>9
  <2>2. e[n] = x
    BY <1>2, <1>3, <1>4, <2>1 DEF Grows
  <2>3. \A j \in DOMAIN seq : e[j] = a[j]
    BY <1>2, <1>4, <1>5, <2>1 DEF Grows
  <2> QED BY <1>2, <1>5, <1>8, <2>1, <2>2, <2>3 DEF Grows
<1>11. e = b
  <2>1. \A j \in DOMAIN e : e[j] \in V
    BY <1>10 DEF Lists
  <2>2. PICK k \in Nat : DOMAIN b = 1..k
    BY LenProperties DEF Lists
  <2>3. e \in [1..k -> V]
    <3>1. e = [j \in 1..k |-> e[j]]
      BY <1>9, <1>10, <2>2
    <3> QED BY <1>10, <2>1, <2>2, <3>1
  <2>4. e \in Lists(V)
    BY <2>3, FunctionIsSeq DEF Lists
  <2> QED BY <1>10, <2>4, SameList
<1> QED BY <1>1, <1>3, <1>7, <1>11

(* The names that a road knows are those of the latest calls, and its       *)
(* results are the answers to what it has read.                             *)
NamesRight == stage # "failed" => Agrees(toolNames, AllCalls(input))
PiNamesRight == Agrees(toolNameById, AllCalls(piInput))
Answered == /\ ChatAnswers(input) \in Lists(Lists(Pairs))
            /\ Results(messages) = FlattenSeq(ChatAnswers(input))

ProxyAnswered == stage # "failed" => Answered
PiAnswered == /\ PiAnswers(piInput) \in Lists(Lists(Pairs))
              /\ Results(out) = FlattenSeq(PiAnswers(piInput))

(* In nothing, nothing is called or answered.                               *)
LEMMA NothingCalled == AllCalls(<<>>) = {} /\ ChatAnswers(<<>>) = <<>> /\ PiAnswers(<<>>) = <<>>
<1>1. DOMAIN <<>> = {}
  OBVIOUS
<1>2. AllCalls(<<>>) = {}
  BY <1>1 DEF AllCalls
<1>3. ChatAnswers(<<>>) = <<>>
  BY DEF ChatAnswers
<1>4. PiAnswers(<<>>) = <<>>
  BY DEF PiAnswers
<1> QED BY <1>2, <1>3, <1>4

(* In nothing, there are no results.                                        *)
LEMMA NoResults == Results(<<>>) = <<>>
<1>1. PartsOf(<<>>) = <<>>
  BY NothingIsAList, PartsOfIs, CollectedNothing
<1>2. Collected(ResultPair, <<>>) = <<>>
  BY CollectedNothing
<1> QED BY <1>1, <1>2, NothingIsAList, ResultsAre

(* At first, nothing has been read.                                         *)
LEMMA AnsweredInit == Init => NamesRight /\ PiNamesRight /\ ProxyAnswered /\ PiAnswered
<1> SUFFICES ASSUME Init PROVE NamesRight /\ PiNamesRight /\ ProxyAnswered /\ PiAnswered
  OBVIOUS
<1>1. input = <<>> /\ messages = <<>> /\ toolNames = [i \in {} |-> ""]
  BY DEF Init, ConvertInit
<1>2. piInput = <<>> /\ out = <<>> /\ toolNameById = [i \in {} |-> ""]
  BY DEF Init, PiConvertInit
<1>3. Agrees([i \in {} |-> ""], {})
  BY DEF Agrees
<1> QED BY <1>1, <1>2, <1>3, NothingCalled, NoResults, NothingIsAList, FlattenNothing
        DEF NamesRight, PiNamesRight, ProxyAnswered, Answered, PiAnswered

(* What is named by a map that agrees.                                      *)
LEMMA ChatNameIs ==
    \A m \in ChatMessage : \A C : Agrees(toolNames, C) /\ m.role = "tool" => ChatName(m) = ChatNamed(m, C)
<1> SUFFICES ASSUME NEW m \in ChatMessage, NEW C, Agrees(toolNames, C), m.role = "tool"
             PROVE  ChatName(m) = ChatNamed(m, C)
  OBVIOUS
<1>1. CASE m.id \in DOMAIN toolNames
  <2>1. Known(m.id) = NamedIn(C, m.id, "unknown")
    BY <1>1 DEF Agrees, Known
  <2> QED BY <2>1 DEF ChatName, ChatNamed
<1>2. CASE m.id \notin DOMAIN toolNames
  <2>1. Known(m.id) = ""
    BY <1>2 DEF Known
  <2>2. \A c \in C : c[3] # m.id
    BY <1>2 DEF Agrees
  <2>3. NamedIn(C, m.id, "unknown") = "unknown"
    BY <2>2, NotNamed
  <2> QED BY <2>1, <2>3 DEF ChatName, ChatNamed
<1> QED BY <1>1, <1>2

(* The same for Pi.                                                         *)
LEMMA PiNameIs ==
    \A m \in PiMessage : \A C : Agrees(toolNameById, C) /\ m.role = "toolResult" => ResultName(m) = PiNamed(m, C)
<1> SUFFICES ASSUME NEW m \in PiMessage, NEW C, Agrees(toolNameById, C), m.role = "toolResult"
             PROVE  ResultName(m) = PiNamed(m, C)
  OBVIOUS
<1>1. CASE m.id \in DOMAIN toolNameById
  <2>1. toolNameById[m.id] = NamedIn(C, m.id, "unknown") /\ \E c \in C : c[3] = m.id
    BY <1>1 DEF Agrees
  <2>2. toolNameById[m.id] = PiNamed(m, C)
    BY <2>1, NamedAnyway DEF PiNamed
  <2> QED BY <1>1, <2>2 DEF ResultName
<1>2. CASE m.id \notin DOMAIN toolNameById
  <2>1. \A c \in C : c[3] # m.id
    BY <1>2 DEF Agrees
  <2>2. PiNamed(m, C) = IF m.toolName = Missing THEN "unknown" ELSE m.toolName
    BY <2>1, NotNamed DEF PiNamed
  <2> QED BY <1>2, <2>2 DEF ResultName
<1> QED BY <1>1, <1>2

(* A message that is no result adds none, and one that is adds its answer.  *)
LEMMA ChatReadsOn ==
    ASSUME ProxyTypes, Answered, NEW m \in ChatMessage, input' = More(input, m),
           \/ m.role # "tool" /\ Results(messages') = Results(messages)
           \/ /\ m.role = "tool" /\ ChatNamed(m, AllCalls(input)) \in ResultNames
              /\ Results(messages') = Joined(Results(messages), Single(Pair(m.id, ChatNamed(m, AllCalls(input)))))
    PROVE  Answered'
<1>p. PICK a \in Lists(Lists(Pairs)) : a = ChatAnswers(input)
  BY DEF Answered
<1>1. PICK x : a = ChatAnswers(input) /\ x = ChatAnswer(m, AllCalls(input))
  BY <1>p
<1>2. x \in Lists(Pairs) /\ Results(messages') = Joined(Results(messages), x)
  <2>1. CASE m.role # "tool" /\ Results(messages') = Results(messages)
    <3>1. x = <<>> /\ x \in Lists(Pairs)
      BY <1>1, <2>1, NothingIsAList DEF ChatAnswer
    <3>2. FlattenSeq(a) \in Lists(Pairs)
      BY FlattenType
    <3>3. Joined(FlattenSeq(a), <<>>) = FlattenSeq(a)
      BY <3>2, ListTypes
    <3> QED BY <1>1, <2>1, <3>1, <3>3 DEF Answered
  <2>2. CASE /\ m.role = "tool" /\ ChatNamed(m, AllCalls(input)) \in ResultNames
             /\ Results(messages') = Joined(Results(messages), Single(Pair(m.id, ChatNamed(m, AllCalls(input)))))
    <3>1. x = Single(Pair(m.id, ChatNamed(m, AllCalls(input))))
      BY <1>1, <2>2 DEF ChatAnswer
    <3>2. Pair(m.id, ChatNamed(m, AllCalls(input))) \in Pairs
      BY <2>2, ChatMessageHas, PairType
    <3> QED BY <2>2, <3>1, <3>2, SingleType
  <2> QED BY <2>1, <2>2
<1>3. ChatAnswers(More(input, m)) = More(a, x)
  BY <1>1, <1>2, ChatAnswersMore DEF ProxyTypes
<1>4. FlattenSeq(More(a, x)) = Joined(FlattenSeq(a), x)
  BY <1>2, FlattenMore
<1>5. More(a, x) \in Lists(Lists(Pairs))
  BY <1>2, MoreType
<1> QED BY <1>1, <1>2, <1>3, <1>4, <1>5 DEF Answered

(* The same for Pi.                                                         *)
LEMMA PiReadsOn ==
    ASSUME PiTypes, PiAnswered, NEW m \in PiMessage, piInput' = More(piInput, m),
           \/ m.role # "toolResult" /\ Results(out') = Results(out)
           \/ /\ m.role = "toolResult" /\ PiNamed(m, AllCalls(piInput)) \in ResultNames
              /\ Results(out') = Joined(Results(out), Single(Pair(m.id, PiNamed(m, AllCalls(piInput)))))
    PROVE  PiAnswered'
<1>p. PICK a \in Lists(Lists(Pairs)) : a = PiAnswers(piInput)
  BY DEF PiAnswered
<1>1. PICK x : a = PiAnswers(piInput) /\ x = PiAnswerTo(m, AllCalls(piInput))
  BY <1>p
<1>2. x \in Lists(Pairs) /\ Results(out') = Joined(Results(out), x)
  <2>1. CASE m.role # "toolResult" /\ Results(out') = Results(out)
    <3>1. x = <<>> /\ x \in Lists(Pairs)
      BY <1>1, <2>1, NothingIsAList DEF PiAnswerTo
    <3>2. FlattenSeq(a) \in Lists(Pairs)
      BY FlattenType
    <3>3. Joined(FlattenSeq(a), <<>>) = FlattenSeq(a)
      BY <3>2, ListTypes
    <3> QED BY <1>1, <2>1, <3>1, <3>3 DEF PiAnswered
  <2>2. CASE /\ m.role = "toolResult" /\ PiNamed(m, AllCalls(piInput)) \in ResultNames
             /\ Results(out') = Joined(Results(out), Single(Pair(m.id, PiNamed(m, AllCalls(piInput)))))
    <3>1. x = Single(Pair(m.id, PiNamed(m, AllCalls(piInput))))
      BY <1>1, <2>2 DEF PiAnswerTo
    <3>2. Pair(m.id, PiNamed(m, AllCalls(piInput))) \in Pairs
      BY <2>2, PiMessageHas, PairType
    <3> QED BY <2>2, <3>1, <3>2, SingleType
  <2> QED BY <2>1, <2>2
<1>3. PiAnswers(More(piInput, m)) = More(a, x)
  BY <1>1, <1>2, PiAnswersMore DEF PiTypes
<1>4. FlattenSeq(More(a, x)) = Joined(FlattenSeq(a), x)
  BY <1>2, FlattenMore
<1>5. More(a, x) \in Lists(Lists(Pairs))
  BY <1>2, MoreType
<1> QED BY <1>1, <1>2, <1>3, <1>4, <1>5 DEF PiAnswered

(* A message of the user adds no result, also an empty one.                 *)
LEMMA ResultsMore ==
    ASSUME NEW list \in Lists(OutMessages), NEW content \in Lists(PartsBy("user"))
    PROVE  Results(More(list, Message("user", content))) = Results(list)
<1>0. PICK m \in OutMessages : m = Message("user", content)
  BY OutMessageIs DEF Roles
<1>1. PICK more : m = Message("user", content) /\ more = More(list, m)
  BY <1>0
<1>2. m.content = content /\ content \in Lists(AnyPart)
  BY <1>1, MessageHas, PartsByAny, ListsGrow
<1>3. more \in Lists(OutMessages) /\ PartsOf(more) = Joined(PartsOf(list), content)
  BY <1>1, <1>2, PartsMore, MoreType
<1>4. Collected(ResultPair, content) = <<>>
  BY ResultPairIs, ResultPairType, PartsByAny, CollectedNone
<1>5. PICK p \in Lists(AnyPart) : p = PartsOf(list)
  BY PartsOfType
<1>6. Collected(ResultPair, Joined(p, content)) = Joined(Collected(ResultPair, p), Collected(ResultPair, content))
  BY <1>2, ResultPairType, CollectedJoined
<1>7. Collected(ResultPair, p) \in Lists(Pairs)
  BY ResultPairType, CollectedType
<1>8. Joined(Collected(ResultPair, p), <<>>) = Collected(ResultPair, p)
  BY <1>7, ListTypes
<1>9. Results(more) = Collected(ResultPair, Joined(p, content)) /\ Results(list) = Collected(ResultPair, p)
  BY <1>3, <1>5, ResultsAre
<1> QED BY <1>1, <1>4, <1>6, <1>8, <1>9

(* A message that is no answer changes no name.                             *)
LEMMA StillAgrees ==
    ASSUME NEW T, NEW seq \in Lists(T), NEW m \in T, m.role # "assistant", NEW names, Agrees(names, AllCalls(seq))
    PROVE  Agrees(names, AllCalls(More(seq, m)))
<1>1. CallsAt(m, After(seq)) = {}
  BY NoCallsAt
<1>2. AllCalls(More(seq, m)) = AllCalls(seq) \cup CallsAt(m, After(seq))
  BY CallsMore
<1>3. AllCalls(More(seq, m)) = AllCalls(seq)
  BY <1>1, <1>2
<1> QED BY <1>3

(* One that is an answer changes the names of its calls.                    *)
LEMMA AgreesOn ==
    ASSUME NEW T, NEW seq \in Lists(T), NEW m \in T, NEW K, Places(K), NEW ids, NEW names, NEW old, NEW new,
           Agrees(old, AllCalls(seq)), Renames(new, old, K, ids, names),
           CallsAt(m, After(seq)) = CallSet(After(seq), K, ids, names)
    PROVE  Agrees(new, AllCalls(More(seq, m)))
<1>1. PICK n \in Nat : n = After(seq)
  BY AfterIs
<1>2. AllCalls(More(seq, m)) = AllCalls(seq) \cup CallSet(n, K, ids, names)
  BY <1>1, CallsMore
<1>3. UpTo(AllCalls(seq), n)
  BY <1>1, AllCallsUpTo
<1>4. PICK C : C = AllCalls(seq)
  OBVIOUS
<1>5. Agrees(new, C \cup CallSet(n, K, ids, names))
  BY <1>3, <1>4, AgreesMore
<1> QED BY <1>2, <1>4, <1>5

(* Places of a list are places.                                             *)
LEMMA PlacesOfList == \A T : \A s \in Lists(T) : \A K : K \subseteq DOMAIN s => Places(K)
BY LenProperties DEF Lists, Places

(* The Proxy keeps the names right.                                         *)
LEMMA NamesRightKept == ProxyTypes /\ NamesRight /\ [Next]_vars => NamesRight'
<1> SUFFICES ASSUME ProxyTypes, NamesRight, [Next]_vars PROVE NamesRight'
  OBVIOUS
<1>0. input \in Lists(ChatMessage)
  BY DEF ProxyTypes
<1>1. ASSUME NEW m \in ChatMessage, ConvertMessage(m) PROVE NamesRight'
  <2>1. ASSUME m.role # "assistant", input' = More(input, m), stage = "messages", toolNames' = toolNames
        PROVE  NamesRight'
    <3>1. Agrees(toolNames, AllCalls(input))
      BY <2>1 DEF NamesRight
    <3>2. Agrees(toolNames, AllCalls(More(input, m)))
      BY <1>0, <2>1, <3>1, StillAgrees
    <3> QED BY <2>1, <3>2 DEF NamesRight
  <2>2. CASE System(m)
    BY <2>1, <2>2, SystemDoes
  <2>3. CASE User(m)
    BY <2>1, <2>3, UserDoes
  <2>4. CASE Assistant(m)
    <3>1. input' = More(input, m) /\ stage = "messages" /\ m.role = "assistant" /\ toolNames' = NamesAfter(m.calls)
      BY <2>4, AssistantDoes
    <3>2. m.calls \in Lists(Call)
      BY <3>1, ChatMessageHas
    <3>p. PICK c \in Lists(Call) : c = m.calls
      BY <3>2
    <3>3. PICK K, ids, names, new :
             c = m.calls /\ K = DOMAIN c /\ ids = IdsOf(c) /\ names = NamesOf(c) /\ new = NamesAfter(c)
      BY <3>p
    <3>4. Renames(new, toolNames, K, ids, names) /\ Places(K)
      BY <3>3, ChatCallsRename, PlacesOfList
    <3>5. CallsAt(m, After(input)) = CallSet(After(input), K, ids, names)
      BY <3>1, <3>3, ChatCallsAt
    <3>6. Agrees(toolNames, AllCalls(input))
      BY <3>1 DEF NamesRight
    <3>7. Agrees(new, AllCalls(More(input, m)))
      BY <1>0, <3>4, <3>5, <3>6, AgreesOn
    <3> QED BY <3>1, <3>3, <3>7 DEF NamesRight
  <2>5. CASE ToolResult(m)
    BY <2>1, <2>5, ToolResultDoes
  <2>6. CASE RefuseMessage(m)
    BY <2>6, RefuseDoes DEF NamesRight
  <2> QED BY <1>1, <2>2, <2>3, <2>4, <2>5, <2>6 DEF ConvertMessage
<1>2. ASSUME EndOfMessages PROVE NamesRight'
  BY <1>2 DEF EndOfMessages, loopVars, NamesRight
<1>3. ASSUME NEW t \in ChatTool, ConvertTool(t) PROVE NamesRight'
  BY <1>3 DEF ConvertTool, loopVars, NamesRight
<1>4. ASSUME Build PROVE NamesRight'
  BY <1>4 DEF Build, loopVars, NamesRight
<1>5. ASSUME UNCHANGED convertVars PROVE NamesRight'
  BY <1>5 DEF convertVars, loopVars, NamesRight
<1> QED BY <1>1, <1>2, <1>3, <1>4, <1>5, ProxySteps

(* Pi keeps the names right.                                                *)
LEMMA PiNamesRightKept == PiTypes /\ PiNamesRight /\ [Next]_vars => PiNamesRight'
<1> SUFFICES ASSUME PiTypes, PiNamesRight, [Next]_vars PROVE PiNamesRight'
  OBVIOUS
<1>0. piInput \in Lists(PiMessage)
  BY DEF PiTypes
<1>1. ASSUME NEW m \in PiMessage, PiConvertMessage(m) PROVE PiNamesRight'
  <2>1. ASSUME m.role # "assistant", piInput' = More(piInput, m), toolNameById' = toolNameById
        PROVE  PiNamesRight'
    <3>1. Agrees(toolNameById, AllCalls(More(piInput, m)))
      BY <1>0, <2>1, StillAgrees DEF PiNamesRight
    <3> QED BY <2>1, <3>1 DEF PiNamesRight
  <2>2. CASE PiUser(m)
    BY <2>1, <2>2, PiUserDoes DEF PiReadsMore
  <2>3. CASE PiAssistant(m)
    <3>1. piInput' = More(piInput, m) /\ m.role = "assistant"
      BY <2>3, PiAssistantDoes DEF PiReadsMore
    <3>2. m.blocks \in Lists(AssistantBlock)
      BY <3>1, PiMessageHas
    <3>3. PICK K, ids, names : K = CallBlocks(m.blocks) /\ ids = BlockIds(m.blocks) /\ names = BlockNames(m.blocks)
      OBVIOUS
    <3>4. Renames(toolNameById', toolNameById, K, ids, names)
      BY <2>3, <3>3, PiCallsRename
    <3>5. Places(K)
      BY <3>2, <3>3, PlacesOfList DEF CallBlocks
    <3>6. CallsAt(m, After(piInput)) = CallSet(After(piInput), K, ids, names)
      BY <3>1, <3>3, PiCallsAt
    <3>7. Agrees(toolNameById, AllCalls(piInput))
      BY DEF PiNamesRight
    <3>8. PICK new : new = toolNameById'
      OBVIOUS
    <3>9. Agrees(new, AllCalls(More(piInput, m)))
      BY <1>0, <3>4, <3>5, <3>6, <3>7, <3>8, AgreesOn
    <3> QED BY <3>1, <3>8, <3>9 DEF PiNamesRight
  <2>4. CASE PiToolResult(m)
    BY <2>1, <2>4, PiToolResultDoes DEF PiReadsMore
  <2> QED BY <1>1, <2>2, <2>3, <2>4 DEF PiConvertMessage
<1>2. ASSUME PiReturn PROVE PiNamesRight'
  BY <1>2 DEF PiReturn, PiNamesRight
<1>3. ASSUME UNCHANGED piVars PROVE PiNamesRight'
  BY <1>3 DEF piVars, PiNamesRight
<1> QED BY <1>1, <1>2, <1>3, PiSteps

(* The Proxy names what it answers.                                         *)
LEMMA ProxyAnsweredKept == ProxyTypes /\ NamesRight /\ ProxyAnswered /\ [Next]_vars => ProxyAnswered'
<1> SUFFICES ASSUME ProxyTypes, NamesRight, ProxyAnswered, [Next]_vars PROVE ProxyAnswered'
  OBVIOUS
<1>0. messages \in Lists(OutMessages)
  BY DEF ProxyTypes
<1>1. ASSUME NEW m \in ChatMessage, ConvertMessage(m) PROVE ProxyAnswered'
  <2>1. ASSUME m.role # "tool", input' = More(input, m), stage = "messages", Results(messages') = Results(messages)
        PROVE  ProxyAnswered'
    <3>1. Answered
      BY <2>1 DEF ProxyAnswered
    <3> QED BY <2>1, <3>1, ChatReadsOn DEF ProxyAnswered
  <2>2. CASE System(m)
    BY <2>1, <2>2, SystemDoes
  <2>3. CASE User(m)
    <3>1. messages' = More(messages, Message("user", UserContent(m.content))) /\ Valid(m.content)
      BY <2>3, UserDoes
    <3>2. Results(messages') = Results(messages)
      BY <1>0, <3>1, UserContentType, ResultsMore
    <3> QED BY <2>1, <2>3, <3>2, UserDoes
  <2>4. CASE Assistant(m)
    <3>1. messages' = WithTurn(messages, "assistant", AssistantContent(m)) /\ Valid(m.content) /\ m.role = "assistant"
      BY <2>4, AssistantDoes
    <3>2. Results(messages') = Results(messages)
      BY <1>0, <3>1, AssistantContentType, ResultsWithTurn
    <3> QED BY <2>1, <2>4, <3>2, AssistantDoes
  <2>5. CASE ToolResult(m)
    <3>1. input' = More(input, m) /\ stage = "messages" /\ m.role = "tool" /\ Valid(m.content)
          /\ messages' = AddResult(messages, ChatResult(m))
      BY <2>5, ToolResultDoes
    <3>2. PICK r \in ResultParts : r = ChatResult(m) /\ r.toolCallId = m.id /\ r.toolName = ChatName(m) /\ ChatName(m) \in ResultNames
      BY <3>1, ChatResultType
    <3>3. Results(messages') = Joined(Results(messages), Single(Pair(m.id, ChatName(m))))
      BY <1>0, <3>1, <3>2, ResultsAddResult
    <3>4. ChatName(m) = ChatNamed(m, AllCalls(input))
      BY <3>1, ChatNameIs DEF NamesRight
    <3>5. Answered
      BY <3>1 DEF ProxyAnswered
    <3>6. ChatNamed(m, AllCalls(input)) \in ResultNames
          /\ Results(messages') = Joined(Results(messages), Single(Pair(m.id, ChatNamed(m, AllCalls(input)))))
      BY <3>2, <3>3, <3>4
    <3>7. Answered'
      BY <3>1, <3>5, <3>6, ChatReadsOn
    <3> QED BY <3>7 DEF ProxyAnswered
  <2>6. CASE RefuseMessage(m)
    BY <2>6, RefuseDoes DEF ProxyAnswered
  <2> QED BY <1>1, <2>2, <2>3, <2>4, <2>5, <2>6 DEF ConvertMessage
<1>2. ASSUME EndOfMessages PROVE ProxyAnswered'
  BY <1>2 DEF EndOfMessages, loopVars, ProxyAnswered, Answered
<1>3. ASSUME NEW t \in ChatTool, ConvertTool(t) PROVE ProxyAnswered'
  BY <1>3 DEF ConvertTool, loopVars, ProxyAnswered, Answered
<1>4. ASSUME Build PROVE ProxyAnswered'
  BY <1>4 DEF Build, loopVars, ProxyAnswered, Answered
<1>5. ASSUME UNCHANGED convertVars PROVE ProxyAnswered'
  BY <1>5 DEF convertVars, loopVars, ProxyAnswered, Answered
<1> QED BY <1>1, <1>2, <1>3, <1>4, <1>5, ProxySteps

(* Pi names what it answers.                                                *)
LEMMA PiAnsweredKept == PiTypes /\ PiNamesRight /\ PiAnswered /\ [Next]_vars => PiAnswered'
<1> SUFFICES ASSUME PiTypes, PiNamesRight, PiAnswered, [Next]_vars PROVE PiAnswered'
  OBVIOUS
<1>0. out \in Lists(OutMessages)
  BY DEF PiTypes
<1>1. ASSUME NEW m \in PiMessage, PiConvertMessage(m) PROVE PiAnswered'
  <2>1. CASE PiUser(m)
    <3>1. out' = WithTurn(out, "user", PiUserContent(m)) /\ m.role = "user" /\ piInput' = More(piInput, m)
      BY <2>1, PiUserDoes DEF PiReadsMore
    <3>2. Results(out') = Results(out)
      BY <1>0, <3>1, PiUserContentType, ResultsWithTurn
    <3> QED BY <3>1, <3>2, PiReadsOn
  <2>2. CASE PiAssistant(m)
    <3>1. out' = WithTurn(out, "assistant", PiAssistantContent(m.blocks)) /\ m.role = "assistant" /\ piInput' = More(piInput, m)
      BY <2>2, PiAssistantDoes DEF PiReadsMore
    <3>2. Results(out') = Results(out)
      BY <1>0, <3>1, PiMessageHas, PiAssistantContentType, ResultsWithTurn
    <3> QED BY <3>1, <3>2, PiReadsOn
  <2>3. CASE PiToolResult(m)
    <3>1. piInput' = More(piInput, m) /\ m.role = "toolResult" /\ out' = AddResult(out, PiResult(m))
      BY <2>3, PiToolResultDoes DEF PiReadsMore
    <3>2. PICK r \in ResultParts : r = PiResult(m) /\ r.toolCallId = m.id /\ r.toolName = ResultName(m) /\ ResultName(m) \in ResultNames
      BY <3>1, PiResultType
    <3>3. Results(out') = Joined(Results(out), Single(Pair(m.id, ResultName(m))))
      BY <1>0, <3>1, <3>2, ResultsAddResult
    <3>4. ResultName(m) = PiNamed(m, AllCalls(piInput))
      BY <3>1, PiNameIs DEF PiNamesRight
    <3>5. PiNamed(m, AllCalls(piInput)) \in ResultNames
          /\ Results(out') = Joined(Results(out), Single(Pair(m.id, PiNamed(m, AllCalls(piInput)))))
      BY <3>2, <3>3, <3>4
    <3> QED BY <3>1, <3>5, PiReadsOn
  <2> QED BY <1>1, <2>1, <2>2, <2>3 DEF PiConvertMessage
<1>2. ASSUME PiReturn PROVE PiAnswered'
  BY <1>2 DEF PiReturn, PiAnswered
<1>3. ASSUME UNCHANGED piVars PROVE PiAnswered'
  BY <1>3 DEF piVars, PiAnswered
<1> QED BY <1>1, <1>2, <1>3, PiSteps

(* What is answered is what ResultsNameTheirCall says.                      *)
LEMMA ChatAnswersAre ==
    OfEach(LAMBDA j : IF input[j].role = "tool" THEN <<<<input[j].id, ProxyName(j)>>>> ELSE <<>>,
           [j \in DOMAIN input |-> j]) = FlattenSeq(ChatAnswers(input))
<1> DEFINE each == [k \in DOMAIN [j \in DOMAIN input |-> j] |->
                       IF input[[j \in DOMAIN input |-> j][k]].role = "tool"
                       THEN <<<<input[[j \in DOMAIN input |-> j][k]].id, ProxyName([j \in DOMAIN input |-> j][k])>>>> ELSE <<>>]
<1>1. OfEach(LAMBDA j : IF input[j].role = "tool" THEN <<<<input[j].id, ProxyName(j)>>>> ELSE <<>>,
             [j \in DOMAIN input |-> j]) = FlattenSeq(each)
  BY DEF OfEach
<1>2. each = [k \in DOMAIN input |-> IF input[k].role = "tool" THEN <<<<input[k].id, ProxyName(k)>>>> ELSE <<>>]
  OBVIOUS
<1>3. ASSUME NEW k \in DOMAIN input PROVE ProxyName(k) = ChatNamed(input[k], CallsBefore(input, k))
  BY LatestNameIs DEF ProxyName, ChatNamed
<1>4. ASSUME NEW k \in DOMAIN input
      PROVE  (IF input[k].role = "tool" THEN <<<<input[k].id, ProxyName(k)>>>> ELSE <<>>) = ChatAnswer(input[k], CallsBefore(input, k))
  BY <1>3 DEF ChatAnswer, Single, Pair
<1>5. each = ChatAnswers(input)
  BY <1>2, <1>4 DEF ChatAnswers
<1> QED BY <1>1, <1>5

(* The same for Pi.                                                         *)
LEMMA PiAnswersAre ==
    OfEach(LAMBDA j : IF piInput[j].role = "toolResult" THEN <<<<piInput[j].id, PiName(j)>>>> ELSE <<>>,
           [j \in DOMAIN piInput |-> j]) = FlattenSeq(PiAnswers(piInput))
<1> DEFINE each == [k \in DOMAIN [j \in DOMAIN piInput |-> j] |->
                       IF piInput[[j \in DOMAIN piInput |-> j][k]].role = "toolResult"
                       THEN <<<<piInput[[j \in DOMAIN piInput |-> j][k]].id, PiName([j \in DOMAIN piInput |-> j][k])>>>> ELSE <<>>]
<1>1. OfEach(LAMBDA j : IF piInput[j].role = "toolResult" THEN <<<<piInput[j].id, PiName(j)>>>> ELSE <<>>,
             [j \in DOMAIN piInput |-> j]) = FlattenSeq(each)
  BY DEF OfEach
<1>2. each = [k \in DOMAIN piInput |-> IF piInput[k].role = "toolResult" THEN <<<<piInput[k].id, PiName(k)>>>> ELSE <<>>]
  OBVIOUS
<1>3. ASSUME NEW k \in DOMAIN piInput PROVE PiName(k) = PiNamed(piInput[k], CallsBefore(piInput, k))
  BY LatestNameIs DEF PiName, PiNamed
<1>4. ASSUME NEW k \in DOMAIN piInput
      PROVE  (IF piInput[k].role = "toolResult" THEN <<<<piInput[k].id, PiName(k)>>>> ELSE <<>>) = PiAnswerTo(piInput[k], CallsBefore(piInput, k))
  BY <1>3 DEF PiAnswerTo, Single, Pair
<1>5. each = PiAnswers(piInput)
  BY <1>2, <1>4 DEF PiAnswers
<1> QED BY <1>1, <1>5

(* The map of names that each road keeps holds, for every id, the name of   *)
(* its latest call, and the results written so far are the answers to what  *)
(* was read so far, in order.                                               *)
THEOREM NamesAnswered == Spec => [](NamesRight /\ PiNamesRight /\ ProxyAnswered /\ PiAnswered)
<1>1. Init => NamesRight /\ PiNamesRight /\ ProxyAnswered /\ PiAnswered
  BY AnsweredInit
<1>2. /\ ProxyTypes /\ PiTypes /\ NamesRight /\ PiNamesRight /\ ProxyAnswered /\ PiAnswered /\ [Next]_vars
      => NamesRight' /\ PiNamesRight' /\ ProxyAnswered' /\ PiAnswered'
  BY NamesRightKept, PiNamesRightKept, ProxyAnsweredKept, PiAnsweredKept
<1> QED BY <1>1, <1>2, Typed, PTL DEF Spec

(* Every result names the tool that was called last under its id before it, *)
(* however often ids return and names are changed, in the Proxy             *)
(* (convert.go:168-193) as in the Adapter (index.ts:396-431).               *)
THEOREM ResultsAreNamed == Spec => []ResultsNameTheirCall
<1>1. ProxyAnswered /\ PiAnswered => ResultsNameTheirCall
  BY ChatAnswersAre, PiAnswersAre DEF ProxyAnswered, Answered, PiAnswered, ResultsNameTheirCall
<1> QED BY <1>1, NamesAnswered, PTL

-----------------------------------------------------------------------------
(* A request loses what is passed over and nothing else.                    *)

(* CollectedOne, for a folded list.                                         *)
LEMMA CollectedSingle ==
    ASSUME NEW T, NEW V, NEW f \in Maps(T, Lists(V)), NEW x \in T
    PROVE  Collected(f, Single(x)) = f[x]
BY CollectedOne DEF Single

(* The items of messages.                                                   *)
Who == {"system", "user", "assistant", "tool", "other"}
ItemValues == Pieces \cup Url \cup Ids \cup (Ids \X CallNames \X Inputs)
Item(role, kind, value) == <<role, kind, value>>
Items == {Item(role, kind, value) : role \in Who, kind \in {"text", "image", "call", "result"}, value \in ItemValues}

(* Those of each kind.                                                      *)
LEMMA ItemTypes ==
    \A role \in Who :
        /\ \A x \in Pieces : Item(role, "text", x) \in Items
        /\ \A u \in Url : Item(role, "image", u) \in Items
        /\ \A i \in Ids : Item(role, "result", i) \in Items
        /\ \A i \in Ids, n \in CallNames, x \in Inputs : Item(role, "call", <<i, n, x>>) \in Items
<1> SUFFICES ASSUME NEW role \in Who
             PROVE  /\ \A x \in Pieces : Item(role, "text", x) \in Items
                    /\ \A u \in Url : Item(role, "image", u) \in Items
                    /\ \A i \in Ids : Item(role, "result", i) \in Items
                    /\ \A i \in Ids, n \in CallNames, x \in Inputs : Item(role, "call", <<i, n, x>>) \in Items
  OBVIOUS
<1>1. \A x \in Pieces \cup Url \cup Ids : x \in ItemValues
  BY DEF ItemValues
<1>2. \A i \in Ids, n \in CallNames, x \in Inputs : <<i, n, x>> \in ItemValues
  BY DEF ItemValues
<1>3. \A kind \in {"text", "image", "call", "result"} : \A v \in ItemValues : Item(role, kind, v) \in Items
  BY DEF Items
<1> QED BY <1>1, <1>2, <1>3

(* A text, piece by piece.                                                  *)
PieceOf(role) == [x \in Pieces |-> Single(Item(role, "text", x))]

(* Its pieces are items.                                                    *)
LEMMA PieceOfType == \A role \in Who : PieceOf(role) \in Maps(Pieces, Lists(Items))
<1> SUFFICES ASSUME NEW role \in Who PROVE PieceOf(role) \in Maps(Pieces, Lists(Items))
  OBVIOUS
<1>1. \A x \in Pieces : Single(Item(role, "text", x)) \in Lists(Items)
  BY ItemTypes, SingleType
<1> QED BY <1>1 DEF PieceOf, Maps

(* Pieced, collected.                                                       *)
LEMMA PiecedIs ==
    \A role \in Who : \A t \in Text :
        Pieced(role, t) = Collected(PieceOf(role), t) /\ Pieced(role, t) \in Lists(Items)
<1> SUFFICES ASSUME NEW role \in Who, NEW t \in Text
             PROVE  Pieced(role, t) = Collected(PieceOf(role), t) /\ Pieced(role, t) \in Lists(Items)
  OBVIOUS
<1> DEFINE one == [x \in Pieces |-> Item(role, "text", x)]
<1>0. t \in Lists(Pieces)
  BY DEF Text
<1>1. one \in Maps(Pieces, Items)
  BY ItemTypes DEF Maps
<1>2. \A x \in Pieces : PieceOf(role)[x] = Single(one[x])
  BY DEF PieceOf
<1>3. \A k \in DOMAIN t : t[k] \in Pieces
  BY <1>0 DEF Lists
<1>4. Each(one, t) = Pieced(role, t)
  BY <1>3 DEF Each, Pieced, Item
<1> HIDE DEF one
<1>5. Collected(PieceOf(role), t) = Each(one, t)
  BY <1>0, <1>1, <1>2, PieceOfType, CollectedSingly
<1> QED BY <1>0, <1>4, <1>5, PieceOfType, CollectedType

WrittenOf(role) == [p \in AnyPart |-> WrittenPart(role, p)]

(* What a part that is written holds, by type.                              *)
LEMMA WrittenOfIs ==
    \A role \in Who :
        /\ \A p \in TextParts : p \in AnyPart /\ WrittenOf(role)[p] = Collected(PieceOf(role), p.text)
        /\ \A p \in ImageParts : p \in AnyPart /\ WrittenOf(role)[p] = Single(Item(role, "image", p.image))
        /\ \A p \in CallsMade :
              p \in AnyPart /\ WrittenOf(role)[p] = Single(Item(role, "call", <<p.toolCallId, p.toolName, p.input>>))
        /\ \A p \in ResultParts :
              p \in AnyPart
              /\ WrittenOf(role)[p] = Joined(Single(Item(role, "result", p.toolCallId)), Collected(PieceOf(role), p.output.value))
<1> SUFFICES ASSUME NEW role \in Who
             PROVE  /\ \A p \in TextParts : p \in AnyPart /\ WrittenOf(role)[p] = Collected(PieceOf(role), p.text)
                    /\ \A p \in ImageParts : p \in AnyPart /\ WrittenOf(role)[p] = Single(Item(role, "image", p.image))
                    /\ \A p \in CallsMade :
                          /\ p \in AnyPart
                          /\ WrittenOf(role)[p] = Single(Item(role, "call", <<p.toolCallId, p.toolName, p.input>>))
                    /\ \A p \in ResultParts :
                          /\ p \in AnyPart
                          /\ WrittenOf(role)[p] = Joined(Single(Item(role, "result", p.toolCallId)),
                                                         Collected(PieceOf(role), p.output.value))
  OBVIOUS
<1>0. \A p \in AnyPart : WrittenOf(role)[p] = WrittenPart(role, p)
  BY DEF WrittenOf
<1>1. ASSUME NEW p \in TextParts PROVE p \in AnyPart /\ WrittenOf(role)[p] = Collected(PieceOf(role), p.text)
  <2>1. p \in AnyPart /\ p.type = "text" /\ p.text \in Text
    BY PartTypes DEF AnyPart
  <2>2. WrittenPart(role, p) = Pieced(role, p.text)
    BY <2>1 DEF WrittenPart
  <2> QED BY <1>0, <2>1, <2>2, PiecedIs
<1>2. ASSUME NEW p \in ImageParts PROVE p \in AnyPart /\ WrittenOf(role)[p] = Single(Item(role, "image", p.image))
  <2>1. p \in AnyPart /\ p.type = "image"
    BY PartTypes DEF AnyPart
  <2>2. WrittenPart(role, p) = Single(Item(role, "image", p.image))
    BY <2>1 DEF WrittenPart, Single, Item
  <2> QED BY <1>0, <2>1, <2>2
<1>3. ASSUME NEW p \in CallsMade
      PROVE  p \in AnyPart /\ WrittenOf(role)[p] = Single(Item(role, "call", <<p.toolCallId, p.toolName, p.input>>))
  <2>1. p \in AnyPart /\ p.type = "tool-call"
    BY PartTypes DEF AnyPart
  <2>2. WrittenPart(role, p) = Single(Item(role, "call", <<p.toolCallId, p.toolName, p.input>>))
    BY <2>1 DEF WrittenPart, Single, Item
  <2> QED BY <1>0, <2>1, <2>2
<1>4. ASSUME NEW p \in ResultParts
      PROVE  p \in AnyPart
             /\ WrittenOf(role)[p] = Joined(Single(Item(role, "result", p.toolCallId)), Collected(PieceOf(role), p.output.value))
  <2>1. p \in AnyPart /\ p.type = "tool-result" /\ p.output.value \in Text
    BY PartTypes DEF AnyPart
  <2>2. WrittenPart(role, p) = Joined(Single(Item(role, "result", p.toolCallId)), Pieced(role, p.output.value))
    BY <2>1 DEF WrittenPart, Single, Item, Joined
  <2> QED BY <1>0, <2>1, <2>2, PiecedIs
<1> QED BY <1>1, <1>2, <1>3, <1>4

(* It holds items.                                                          *)
LEMMA WrittenOfType == \A role \in Who : WrittenOf(role) \in Maps(AnyPart, Lists(Items))
<1> SUFFICES ASSUME NEW role \in Who PROVE WrittenOf(role) \in Maps(AnyPart, Lists(Items))
  OBVIOUS
<1>0. \A t \in Text : Collected(PieceOf(role), t) \in Lists(Items)
  BY PiecedIs
<1>1. \A p \in TextParts : WrittenOf(role)[p] \in Lists(Items)
  BY <1>0, PartTypes, WrittenOfIs
<1>2. \A p \in ImageParts : WrittenOf(role)[p] \in Lists(Items)
  BY PartTypes, WrittenOfIs, ItemTypes, SingleType
<1>3. ASSUME NEW p \in CallsMade PROVE WrittenOf(role)[p] \in Lists(Items)
  <2>1. PICK i \in Ids, n \in CallNames, x \in Inputs : p = CallPart(i, n, x)
    BY DEF CallsMade
  <2>2. p.toolCallId = i /\ p.toolName = n /\ p.input = x
    BY <2>1 DEF CallPart
  <2> QED BY <2>2, WrittenOfIs, ItemTypes, SingleType
<1>4. ASSUME NEW p \in ResultParts PROVE WrittenOf(role)[p] \in Lists(Items)
  <2>1. PICK a \in Lists(Items), b \in Lists(Items) :
            a = Single(Item(role, "result", p.toolCallId)) /\ b = Collected(PieceOf(role), p.output.value)
    BY <1>0, PartTypes, ItemTypes, SingleType
  <2>2. Joined(a, b) \in Lists(Items)
    BY ListTypes
  <2> QED BY <2>1, <2>2, WrittenOfIs
<1>5. \A p \in AnyPart : WrittenOf(role)[p] \in Lists(Items)
  BY <1>1, <1>2, <1>3, <1>4 DEF AnyPart
<1> QED BY <1>5 DEF WrittenOf, Maps

(* What a part that is read holds.                                          *)
HeldOf(role) == [p \in Part |-> HeldPart(role, p)]

(* The text of a user, an image of a user that has a URL.                   *)
LEMMA UserHolds ==
    \A p \in Part : HeldOf("user")[p] = Collected(WrittenOf("user"), UserPartOf[p]) /\ HeldOf("user")[p] \in Lists(Items)
<1> SUFFICES ASSUME NEW p \in Part
             PROVE  HeldOf("user")[p] = Collected(WrittenOf("user"), UserPartOf[p]) /\ HeldOf("user")[p] \in Lists(Items)
  OBVIOUS
<1>0. UserPartOf[p] = UserPart(p) /\ HeldOf("user")[p] = HeldPart("user", p) /\ "user" \in Who
  BY DEF UserPartOf, HeldOf, Who
<1>1. CASE p.type = "text"
  <2>1. PICK t \in Text : t = p.text
    BY <1>1, PartHas
  <2>2. HeldPart("user", p) = Pieced("user", t) /\ UserPart(p) = NonEmpty(t)
    BY <1>1, <2>1, UserPartIs DEF HeldPart, PassedOver
  <2>3. CASE t = <<>>
    BY <1>0, <2>2, <2>3, PiecedIs, NonEmptyIs, CollectedNothing
  <2>4. CASE t # <<>>
    <3>1. PICK x \in TextParts : x = TextPart(t) /\ x.text = t
      BY TextPartFacts
    <3>2. Collected(WrittenOf("user"), Single(x)) = Collected(PieceOf("user"), t)
      BY <1>0, <3>1, WrittenOfIs, WrittenOfType, CollectedSingle
    <3> QED BY <1>0, <2>2, <2>4, <3>1, <3>2, PiecedIs, NonEmptyIs
  <2> QED BY <2>3, <2>4
<1>2. CASE p.type = "image" /\ p.url # NoUrl
  <2>1. PICK i \in ImageParts : i = ImagePart(p.url) /\ i.image = p.url
    BY <1>2, UserPartIs, ImagePartFacts
  <2>2. UserPart(p) = Single(i) /\ p.url \in Url
    BY <1>2, <2>1, UserPartIs
  <2>3. HeldPart("user", p) = Single(Item("user", "image", p.url))
    BY <1>2 DEF HeldPart, PassedOver, Single, Item
  <2>4. Collected(WrittenOf("user"), Single(i)) = Single(Item("user", "image", p.url))
    BY <1>0, <2>1, WrittenOfIs, WrittenOfType, CollectedSingle
  <2> QED BY <1>0, <2>2, <2>3, <2>4, ItemTypes, SingleType
<1>3. CASE p.type # "text" /\ ~(p.type = "image" /\ p.url # NoUrl)
  <2>1. UserPart(p) = <<>> /\ HeldPart("user", p) = <<>>
    BY <1>3, UserPartIs, PartHas DEF HeldPart, PassedOver
  <2> QED BY <1>0, <2>1, CollectedNothing, NothingIsAList
<1> QED BY <1>1, <1>2, <1>3

(* The text of the others.                                                  *)
LEMMA OthersHold ==
    ASSUME NEW role \in Who, role # "user", NEW p \in Part
    PROVE  HeldOf(role)[p] = Collected(PieceOf(role), TextOfPart[p]) /\ HeldOf(role)[p] \in Lists(Items)
<1>0. HeldOf(role)[p] = HeldPart(role, p)
  BY DEF HeldOf
<1>1. CASE p.type \in {"text", "output_text"}
  <2>1. PICK t \in Text : t = p.text /\ TextOfPart[p] = t
    BY <1>1, PartHas DEF TextOfPart
  <2>2. HeldPart(role, p) = Pieced(role, t)
    BY <1>1, <2>1 DEF HeldPart, PassedOver
  <2> QED BY <1>0, <2>1, <2>2, PiecedIs
<1>2. CASE p.type \notin {"text", "output_text"}
  <2>1. HeldPart(role, p) = <<>> /\ TextOfPart[p] = <<>>
    BY <1>2, PartHas DEF HeldPart, PassedOver, TextOfPart
  <2> QED BY <1>0, <2>1, CollectedNothing, NothingIsAList
<1> QED BY <1>1, <1>2

(* They are items.                                                          *)
LEMMA HeldOfType == \A role \in Who : HeldOf(role) \in Maps(Part, Lists(Items))
<1> SUFFICES ASSUME NEW role \in Who PROVE HeldOf(role) \in Maps(Part, Lists(Items))
  OBVIOUS
<1>1. \A p \in Part : HeldOf(role)[p] \in Lists(Items)
  BY UserHolds, OthersHold
<1> QED BY <1>1 DEF HeldOf, Maps

(* What content holds.                                                      *)
HeldContent(role, content) == OfEach(LAMBDA p : HeldPart(role, p), PartsIn(content))
AsPart(text) == [type |-> "text", text |-> text]

(* A string is one part of text.                                            *)
LEMMA PartsInIs ==
    \A content \in Content :
        /\ PartsIn(content) \in Lists(Part)
        /\ content.kind = "parts" => PartsIn(content) = content.parts
        /\ content.kind = "string" => PartsIn(content) = Single(AsPart(content.text))
        /\ content.kind \in {"absent", "invalid"} => PartsIn(content) = <<>>
<1> SUFFICES ASSUME NEW content \in Content
             PROVE  /\ PartsIn(content) \in Lists(Part)
                    /\ content.kind = "parts" => PartsIn(content) = content.parts
                    /\ content.kind = "string" => PartsIn(content) = Single(AsPart(content.text))
                    /\ content.kind \in {"absent", "invalid"} => PartsIn(content) = <<>>
  OBVIOUS
<1>1. CASE content.kind = "parts"
  <2>1. content.parts \in Lists(Part)
    BY <1>1, ContentHas DEF Valid
  <2> QED BY <1>1, <2>1 DEF PartsIn
<1>2. CASE content.kind = "string"
  <2>1. AsPart(content.text) \in Part
    BY <1>2, ContentHas DEF Valid, Text, Lists, AsPart, Part
  <2>2. PartsIn(content) = Single(AsPart(content.text))
    BY <1>2 DEF PartsIn, Single, AsPart
  <2> QED BY <1>2, <2>1, <2>2, SingleType
<1>3. CASE content.kind \in {"absent", "invalid"}
  <2>1. PartsIn(content) = <<>>
    BY <1>3 DEF PartsIn
  <2> QED BY <1>3, <2>1, NothingIsAList
<1>4. content.kind \in {"absent", "string", "parts", "invalid"}
  BY DEF Content
<1> QED BY <1>1, <1>2, <1>3, <1>4

(* It is collected from its parts.                                          *)
LEMMA HeldContentIs ==
    \A role \in Who : \A content \in Content :
        /\ HeldContent(role, content) = Collected(HeldOf(role), PartsIn(content))
        /\ HeldContent(role, content) \in Lists(Items)
<1> SUFFICES ASSUME NEW role \in Who, NEW content \in Content
             PROVE  /\ HeldContent(role, content) = Collected(HeldOf(role), PartsIn(content))
                    /\ HeldContent(role, content) \in Lists(Items)
  OBVIOUS
<1>1. PICK seq \in Lists(Part) : seq = PartsIn(content)
  BY PartsInIs
<1>2. \A k \in DOMAIN seq : seq[k] \in Part
  BY DEF Lists
<1>3. [k \in DOMAIN seq |-> HeldPart(role, seq[k])] = Each(HeldOf(role), seq)
  BY <1>2 DEF Each, HeldOf
<1>4. HeldContent(role, content) = FlattenSeq([k \in DOMAIN seq |-> HeldPart(role, seq[k])])
  BY <1>1 DEF HeldContent, OfEach
<1>5. HeldContent(role, content) = Collected(HeldOf(role), seq)
  BY <1>3, <1>4 DEF Collected
<1> QED BY <1>1, <1>5, HeldOfType, CollectedType

(* What becomes of the content of a user holds the same.                    *)
LEMMA UserContentHolds ==
    \A content : Valid(content) =>
        /\ UserContent(content) \in Lists(AnyPart)
        /\ Collected(WrittenOf("user"), UserContent(content)) = HeldContent("user", content)
<1> SUFFICES ASSUME NEW content, Valid(content)
             PROVE  /\ UserContent(content) \in Lists(AnyPart)
                    /\ Collected(WrittenOf("user"), UserContent(content)) = HeldContent("user", content)
  OBVIOUS
<1>0. content \in Content /\ "user" \in Who /\ UserContent(content) \in Lists(AnyPart)
  BY UserContentType, PartsByAny, ListsGrow DEF Valid, Who
<1>1. HeldContent("user", content) = Collected(HeldOf("user"), PartsIn(content))
  BY <1>0, HeldContentIs
<1>2. CASE content.kind = "parts"
  <2>1. PICK seq \in Lists(Part) : seq = content.parts /\ seq = PartsIn(content)
    BY <1>0, <1>2, ContentHas, PartsInIs
  <2>2. UserPartOf \in Maps(Part, Lists(AnyPart))
    <3>1. \A p \in Part : UserPartOf[p] \in Lists(AnyPart)
      BY UserPartType, PartsByAny, ListsGrow DEF UserPartOf
    <3> QED BY <3>1 DEF UserPartOf, Maps
  <2>3. \A p \in Part : HeldOf("user")[p] = Collected(WrittenOf("user"), UserPartOf[p])
    BY UserHolds
  <2>4. Collected(WrittenOf("user"), Collected(UserPartOf, seq)) = Collected(HeldOf("user"), seq)
    BY <1>0, <2>2, <2>3, WrittenOfType, HeldOfType, CollectedComposes
  <2> QED BY <1>0, <1>1, <1>2, <2>1, <2>4, UserContentIs
<1>3. CASE content.kind = "string"
  <2>1. PICK t \in Text : t = content.text
    BY <1>3, ContentHas
  <2>2. PICK x \in TextParts : x = TextPart(t) /\ x.text = t
    BY TextPartFacts
  <2>3. Collected(WrittenOf("user"), Single(x)) = Pieced("user", t)
    BY <1>0, <2>2, WrittenOfIs, WrittenOfType, CollectedSingle, PiecedIs
  <2>4. AsPart(t) \in Part
    BY DEF Text, Lists, AsPart, Part
  <2>5. HeldOf("user")[AsPart(t)] = Pieced("user", t)
    BY <2>4 DEF HeldOf, HeldPart, PassedOver, AsPart
  <2>6. Collected(HeldOf("user"), Single(AsPart(t))) = HeldOf("user")[AsPart(t)]
    BY <1>0, <2>4, HeldOfType, CollectedSingle
  <2> QED BY <1>0, <1>1, <1>3, <2>1, <2>2, <2>3, <2>5, <2>6, UserContentIs, PartsInIs
<1>4. CASE content.kind = "absent"
  BY <1>0, <1>1, <1>4, UserContentIs, PartsInIs, CollectedNothing
<1> QED BY <1>2, <1>3, <1>4, ContentHas

(* The others hold the pieces of their text.                                *)
LEMMA OtherContentHolds ==
    ASSUME NEW role \in Who, role # "user", NEW content, Valid(content)
    PROVE  HeldContent(role, content) = Collected(PieceOf(role), TextOf(content))
<1>0. content \in Content
  BY DEF Valid
<1>1. HeldContent(role, content) = Collected(HeldOf(role), PartsIn(content))
  BY <1>0, HeldContentIs
<1>2. CASE content.kind = "parts"
  <2>1. PICK seq \in Lists(Part) : seq = content.parts /\ seq = PartsIn(content)
    BY <1>0, <1>2, ContentHas, PartsInIs
  <2>2. TextOfPart \in Maps(Part, Lists(Pieces))
    BY TextOfPartType DEF Text
  <2>3. \A p \in Part : HeldOf(role)[p] = Collected(PieceOf(role), TextOfPart[p])
    BY OthersHold
  <2>4. Collected(PieceOf(role), Collected(TextOfPart, seq)) = Collected(HeldOf(role), seq)
    BY <2>2, <2>3, PieceOfType, HeldOfType, CollectedComposes
  <2> QED BY <1>1, <1>2, <2>1, <2>4, TextOfIs
<1>3. CASE content.kind = "string"
  <2>1. PICK t \in Text : t = content.text
    BY <1>3, ContentHas
  <2>2. AsPart(t) \in Part /\ TextOfPart[AsPart(t)] = t
    BY DEF Text, Lists, AsPart, Part, TextOfPart
  <2>3. Collected(HeldOf(role), Single(AsPart(t))) = HeldOf(role)[AsPart(t)]
    BY <2>2, HeldOfType, CollectedSingle
  <2> QED BY <1>0, <1>1, <1>3, <2>1, <2>2, <2>3, OthersHold, TextOfIs, PartsInIs
<1>4. CASE content.kind = "absent"
  BY <1>0, <1>1, <1>4, TextOfIs, PartsInIs, CollectedNothing
<1> QED BY <1>2, <1>3, <1>4, ContentHas

(* The calls of a message.                                                  *)
HeldCall(c) == Item("assistant", "call", <<c.id, c.name, Decoded(c.arguments)>>)

(* They hold their id, their name and their arguments, in order.            *)
LEMMA CallsHold ==
    \A calls \in Lists(Call) :
        /\ CallParts(calls) \in Lists(AnyPart) /\ HeldCalls(calls) \in Lists(Items)
        /\ Collected(WrittenOf("assistant"), CallParts(calls)) = HeldCalls(calls)
<1> SUFFICES ASSUME NEW calls \in Lists(Call)
             PROVE  /\ CallParts(calls) \in Lists(AnyPart) /\ HeldCalls(calls) \in Lists(Items)
                    /\ Collected(WrittenOf("assistant"), CallParts(calls)) = HeldCalls(calls)
  OBVIOUS
<1> DEFINE id == [c \in Call |-> HeldCall(c)]
           one == [c \in Call |-> Single(HeldCall(c))]
<1>0. \A c \in Call : HeldCall(c) \in Items
  <2> SUFFICES ASSUME NEW c \in Call PROVE HeldCall(c) \in Items
    OBVIOUS
  <2>1. c.id \in Ids /\ c.name \in CallNames /\ Decoded(c.arguments) \in Inputs
    BY CallHas, ObjectsAssumption DEF Decoded, Inputs, NotArguments
  <2> QED BY <2>1, ItemTypes DEF HeldCall, Who
<1>1. id \in Maps(Call, Items) /\ one \in Maps(Call, Lists(Items))
  BY <1>0, SingleType DEF Maps
<1>2. \A c \in Call : one[c] = Single(id[c]) /\ one[c] = Single(HeldCall(c))
  OBVIOUS
<1>3. \A k \in DOMAIN calls : calls[k] \in Call
  BY DEF Lists
<1>4. Each(id, calls) = HeldCalls(calls)
  BY <1>3 DEF Each, HeldCalls, HeldCall, Item, Decoded
<1> HIDE DEF id, one
<1>5. Collected(one, calls) = HeldCalls(calls)
  BY <1>1, <1>2, <1>4, CollectedSingly
<1>6. HeldCalls(calls) \in Lists(Items)
  BY <1>1, <1>4, EachType
<1>7. PICK seq \in Lists(AnyPart) : seq = CallParts(calls)
  BY CallPartsType, ListsGrow DEF AnyPart
<1>8. DOMAIN seq = DOMAIN calls /\ \A k \in DOMAIN calls : seq[k] = CallPartOf[calls[k]]
  BY <1>7, CallPartsAre, EachElement
<1>9. ASSUME NEW c \in Call PROVE WrittenOf("assistant")[CallPartOf[c]] = Single(HeldCall(c))
  <2>1. PICK p \in CallsMade : p = CallPartOf[c]
    BY CallPartOfType
  <2>2. p.toolCallId = c.id /\ p.toolName = c.name /\ p.input = Decoded(c.arguments)
    BY <2>1 DEF CallPartOf, CallPart
  <2> QED BY <2>1, <2>2, WrittenOfIs DEF HeldCall, Who
<1>10. \A k \in DOMAIN seq : WrittenOf("assistant")[seq[k]] = one[calls[k]]
  BY <1>2, <1>3, <1>8, <1>9
<1>11. WrittenOf("assistant") \in Maps(AnyPart, Lists(Items))
  BY WrittenOfType DEF Who
<1>12. Collected(WrittenOf("assistant"), seq) = Collected(one, calls)
  BY <1>1, <1>8, <1>10, <1>11, CollectedSame
<1> QED BY <1>5, <1>6, <1>7, <1>12

(* What a message holds, by role.                                           *)
LEMMA HeldIs ==
    \A m \in ChatMessage :
        /\ m.role \in Who /\ m.content \in Content
        /\ m.role \in {"system", "user", "other"} => Held(m) = HeldContent(m.role, m.content)
        /\ m.role = "assistant" => Held(m) = Joined(HeldContent("assistant", m.content), HeldCalls(m.calls))
        /\ m.role = "tool" => Held(m) = Joined(Single(Item("tool", "result", m.id)), HeldContent("tool", m.content))
        /\ Held(m) \in Lists(Items)
<1> SUFFICES ASSUME NEW m \in ChatMessage
             PROVE  /\ m.role \in Who /\ m.content \in Content
                    /\ m.role \in {"system", "user", "other"} => Held(m) = HeldContent(m.role, m.content)
                    /\ m.role = "assistant" => Held(m) = Joined(HeldContent("assistant", m.content), HeldCalls(m.calls))
                    /\ m.role = "tool" => Held(m) = Joined(Single(Item("tool", "result", m.id)), HeldContent("tool", m.content))
                    /\ Held(m) \in Lists(Items)
  OBVIOUS
<1>0. m.role \in {"system", "user", "assistant", "tool", "other"} /\ m.role \in Who /\ m.content \in Content
  BY ChatMessageHas DEF Who
<1>1. PICK content \in Lists(Items) : content = HeldContent(m.role, m.content)
  BY <1>0, HeldContentIs
<1>2. CASE m.role \in {"system", "user", "other"}
  <2>1. Held(m) = content
    BY <1>1, <1>2 DEF Held, HeldContent
  <2> QED BY <1>0, <1>1, <1>2, <2>1
<1>3. CASE m.role = "assistant"
  <2>1. PICK calls \in Lists(Items) : calls = HeldCalls(m.calls)
    BY <1>3, ChatMessageHas, CallsHold
  <2>2. Held(m) = Joined(content, calls)
    BY <1>1, <1>3, <2>1 DEF Held, HeldContent, Joined
  <2>3. Joined(content, calls) \in Lists(Items)
    BY ListTypes
  <2> QED BY <1>0, <1>1, <1>3, <2>1, <2>2, <2>3
<1>4. CASE m.role = "tool"
  <2>1. PICK r \in Lists(Items) : r = Single(Item("tool", "result", m.id))
    BY <1>0, <1>4, ChatMessageHas, ItemTypes, SingleType
  <2>2. Held(m) = Joined(r, content)
    BY <1>1, <1>4, <2>1 DEF Held, HeldContent, Joined, Single, Item
  <2>3. Joined(r, content) \in Lists(Items)
    BY ListTypes
  <2> QED BY <1>0, <1>1, <1>4, <2>1, <2>2, <2>3
<1> QED BY <1>0, <1>2, <1>3, <1>4

(* A text becomes parts that hold it.                                       *)
LEMMA NonEmptyHolds ==
    \A role \in Who : \A t \in Text : Collected(WrittenOf(role), NonEmpty(t)) = Collected(PieceOf(role), t)
<1> SUFFICES ASSUME NEW role \in Who, NEW t \in Text
             PROVE  Collected(WrittenOf(role), NonEmpty(t)) = Collected(PieceOf(role), t)
  OBVIOUS
<1>1. CASE t = <<>>
  BY <1>1, NonEmptyIs, CollectedNothing
<1>2. CASE t # <<>>
  <2>1. PICK x \in TextParts : x = TextPart(t) /\ x.text = t
    BY TextPartFacts
  <2>2. Collected(WrittenOf(role), Single(x)) = Collected(PieceOf(role), t)
    BY <2>1, WrittenOfIs, WrittenOfType, CollectedSingle
  <2> QED BY <1>2, <2>1, <2>2, NonEmptyIs
<1> QED BY <1>1, <1>2

(* What becomes of an answer holds what the answer holds.                   *)
LEMMA AssistantContentHolds ==
    \A m \in ChatMessage : m.role = "assistant" /\ Valid(m.content) =>
        /\ AssistantContent(m) \in Lists(AnyPart)
        /\ Collected(WrittenOf("assistant"), AssistantContent(m)) = Held(m)
<1> SUFFICES ASSUME NEW m \in ChatMessage, m.role = "assistant", Valid(m.content)
             PROVE  /\ AssistantContent(m) \in Lists(AnyPart)
                    /\ Collected(WrittenOf("assistant"), AssistantContent(m)) = Held(m)
  OBVIOUS
<1>0. "assistant" \in Who /\ WrittenOf("assistant") \in Maps(AnyPart, Lists(Items))
  BY WrittenOfType DEF Who
<1>1. PICK calls \in Lists(Call), t \in Text : calls = m.calls /\ t = TextOf(m.content)
  BY ChatMessageHas, TextOfType
<1>2. PICK a \in Lists(AnyPart), b \in Lists(AnyPart) : a = NonEmpty(t) /\ b = CallParts(calls)
  BY NonEmptyType, CallPartsType, ListsGrow DEF AnyPart
<1>3. AssistantContent(m) = Joined(a, b) /\ Joined(a, b) \in Lists(AnyPart)
  BY <1>1, <1>2, ListTypes DEF AssistantContent
<1>4. Collected(WrittenOf("assistant"), Joined(a, b))
        = Joined(Collected(WrittenOf("assistant"), a), Collected(WrittenOf("assistant"), b))
  BY <1>0, CollectedJoined
<1>5. Collected(WrittenOf("assistant"), a) = HeldContent("assistant", m.content)
  BY <1>0, <1>1, <1>2, NonEmptyHolds, OtherContentHolds
<1>6. Collected(WrittenOf("assistant"), b) = HeldCalls(calls)
  BY <1>2, CallsHold
<1> QED BY <1>1, <1>3, <1>4, <1>5, <1>6, HeldIs

(* So for a result.                                                         *)
LEMMA ChatResultHolds ==
    ASSUME NEW m \in ChatMessage, m.role = "tool", Valid(m.content), ProxyTypes
    PROVE  ChatResult(m) \in AnyPart /\ WrittenOf("tool")[ChatResult(m)] = Held(m)
<1>0. "tool" \in Who
  BY DEF Who
<1>1. PICK r \in ResultParts : r = ChatResult(m) /\ r.output.value = TextOf(m.content) /\ r.toolCallId = m.id
  BY ChatResultType
<1>2. r \in AnyPart
        /\ WrittenOf("tool")[r] = Joined(Single(Item("tool", "result", m.id)), Collected(PieceOf("tool"), TextOf(m.content)))
  BY <1>0, <1>1, WrittenOfIs
<1>3. HeldContent("tool", m.content) = Collected(PieceOf("tool"), TextOf(m.content))
  BY <1>0, OtherContentHolds
<1> QED BY <1>1, <1>2, <1>3, HeldIs

(* What is read becomes parts.                                              *)
Wrote(m) ==
    IF m.role = "user" THEN UserContent(m.content)
    ELSE IF m.role = "assistant" THEN AssistantContent(m)
    ELSE IF m.role = "tool" THEN Single(ChatResult(m)) ELSE <<>>

HeldHere == [m \in ChatMessage |-> IF m.role = "system" THEN <<>> ELSE Held(m)]
HeldApart == [m \in ChatMessage |-> IF m.role = "system" THEN Held(m) ELSE <<>>]

(* They are items.                                                          *)
LEMMA HeldTypes == HeldHere \in Maps(ChatMessage, Lists(Items)) /\ HeldApart \in Maps(ChatMessage, Lists(Items))
<1>1. \A m \in ChatMessage : HeldHere[m] \in Lists(Items) /\ HeldApart[m] \in Lists(Items)
  BY HeldIs, NothingIsAList DEF HeldHere, HeldApart
<1> QED BY <1>1 DEF HeldHere, HeldApart, Maps

(* What becomes of a message holds what the message holds.                  *)
LEMMA WroteHolds ==
    ASSUME ProxyTypes, NEW m \in ChatMessage, Valid(m.content), m.role \in {"system", "user", "assistant", "tool"}
    PROVE  Wrote(m) \in Lists(AnyPart) /\ HeldHere[m] = Collected(WrittenOf(m.role), Wrote(m))
<1>1. CASE m.role = "user"
  <2>1. Held(m) = HeldContent("user", m.content) /\ HeldHere[m] = Held(m) /\ Wrote(m) = UserContent(m.content)
    BY <1>1, HeldIs DEF HeldHere, Wrote
  <2> QED BY <1>1, <2>1, UserContentHolds
<1>2. CASE m.role = "assistant"
  <2>1. HeldHere[m] = Held(m) /\ Wrote(m) = AssistantContent(m)
    BY <1>2 DEF HeldHere, Wrote
  <2> QED BY <1>2, <2>1, AssistantContentHolds
<1>3. CASE m.role = "tool"
  <2>1. HeldHere[m] = Held(m) /\ Wrote(m) = Single(ChatResult(m))
    BY <1>3 DEF HeldHere, Wrote
  <2>2. WrittenOf("tool") \in Maps(AnyPart, Lists(Items))
    BY WrittenOfType DEF Who
  <2>3. PICK r \in AnyPart : r = ChatResult(m) /\ WrittenOf("tool")[r] = Held(m)
    BY <1>3, ChatResultHolds
  <2>4. Collected(WrittenOf("tool"), Single(r)) = Held(m)
    BY <2>2, <2>3, CollectedSingle
  <2> QED BY <1>3, <2>1, <2>3, <2>4, SingleType
<1>4. CASE m.role = "system"
  BY <1>4, CollectedNothing, NothingIsAList DEF HeldHere, Wrote
<1> QED BY <1>1, <1>2, <1>3, <1>4

(* The parts with a message of the user more.                               *)
LEMMA UserPartsMore ==
    ASSUME NEW list \in Lists(OutMessages), NEW content \in Lists(PartsBy("user"))
    PROVE  PartsOf(More(list, Message("user", content))) = Joined(PartsOf(list), content)
<1>1. PICK m \in OutMessages : m = Message("user", content)
  BY OutMessageIs DEF Roles
<1> QED BY <1>1, MessageHas, PartsMore

Reading(m) ==
    /\ stage = "messages" /\ stage' = "messages" /\ input' = More(input, m)
    /\ Valid(m.content) /\ m.role \in {"system", "user", "assistant", "tool"}
    /\ UNCHANGED <<offered, tools, maxTokens>>

(* A message that is not refused adds its parts.                            *)
LEMMA ConvertedIs ==
    ASSUME ProxyTypes, NEW m \in ChatMessage, ConvertMessage(m), stage' # "failed"
    PROVE  /\ Reading(m) /\ ~Inconvertible(m)
           /\ PartsOf(messages') = Joined(PartsOf(messages), Wrote(m))
<1>0. messages \in Lists(OutMessages)
  BY DEF ProxyTypes
<1>1. CASE System(m)
  <2>1. Reading(m) /\ messages' = messages /\ m.role = "system"
    BY <1>1, SystemDoes DEF Reading
  <2>2. ~Inconvertible(m)
    BY <2>1 DEF Inconvertible, Reading, Valid
  <2>3. PICK p \in Lists(AnyPart) : p = PartsOf(messages)
    BY <1>0, PartsOfType
  <2>4. Joined(p, <<>>) = p /\ Wrote(m) = <<>>
    BY <2>1, ListTypes DEF Wrote
  <2> QED BY <2>1, <2>2, <2>3, <2>4
<1>2. CASE User(m)
  <2>1. /\ Reading(m) /\ messages' = More(messages, Message("user", UserContent(m.content))) /\ m.role = "user"
        /\ m.content.kind = "parts" => \A k \in DOMAIN m.content.parts : ~IsRemote(m.content.parts[k])
    BY <1>2, UserDoes DEF Reading
  <2>2. ~Inconvertible(m)
    BY <2>1 DEF Inconvertible, Reading, Valid
  <2>3. PartsOf(messages') = Joined(PartsOf(messages), UserContent(m.content))
    BY <1>0, <2>1, UserContentType, UserPartsMore DEF Reading
  <2> QED BY <2>1, <2>2, <2>3 DEF Wrote
<1>3. CASE Assistant(m)
  <2>1. /\ Reading(m) /\ messages' = WithTurn(messages, "assistant", AssistantContent(m)) /\ m.role = "assistant"
        /\ \A k \in DOMAIN m.calls : m.calls[k].arguments \notin NotArguments
    BY <1>3, AssistantDoes DEF Reading
  <2>2. ~Inconvertible(m)
    BY <2>1 DEF Inconvertible, Reading, Valid
  <2>3. PartsOf(messages') = Joined(PartsOf(messages), AssistantContent(m))
    BY <1>0, <2>1, AssistantContentType, PartsWithTurn DEF Reading, Roles
  <2> QED BY <2>1, <2>2, <2>3 DEF Wrote
<1>4. CASE ToolResult(m)
  <2>1. Reading(m) /\ messages' = AddResult(messages, ChatResult(m)) /\ m.role = "tool"
    BY <1>4, ToolResultDoes DEF Reading
  <2>2. ~Inconvertible(m)
    BY <2>1 DEF Inconvertible, Reading, Valid
  <2>3. PICK r \in ResultParts : r = ChatResult(m)
    BY <2>1, ChatResultType DEF Reading
  <2>4. PartsOf(messages') = More(PartsOf(messages), r)
    BY <1>0, <2>1, <2>3, PartsAddResult
  <2>5. Joined(PartsOf(messages), Single(r)) = More(PartsOf(messages), r)
    BY <1>0, PartsOfType, JoinedSingle DEF AnyPart
  <2> QED BY <2>1, <2>2, <2>3, <2>4, <2>5 DEF Wrote
<1>5. CASE RefuseMessage(m)
  BY <1>5, RefuseDoes
<1> QED BY <1>1, <1>2, <1>3, <1>4, <1>5 DEF ConvertMessage

(* What a message that is written holds.                                    *)
Said == [m \in OutMessages |-> Written(m)]

(* It is collected from its parts.                                          *)
LEMMA SaidIs ==
    \A m \in OutMessages :
        /\ Said[m] = Collected(WrittenOf(m.role), m.content) /\ Said[m] \in Lists(Items) /\ m.role \in Who
<1> SUFFICES ASSUME NEW m \in OutMessages
             PROVE  Said[m] = Collected(WrittenOf(m.role), m.content) /\ Said[m] \in Lists(Items) /\ m.role \in Who
  OBVIOUS
<1>1. PICK seq \in Lists(AnyPart) : seq = m.content
  BY OutMessageHas
<1>2. m.role \in Who
  BY OutMessageHas DEF Roles, Who
<1>3. \A k \in DOMAIN seq : seq[k] \in AnyPart
  BY DEF Lists
<1>4. [k \in DOMAIN seq |-> WrittenPart(m.role, seq[k])] = Each(WrittenOf(m.role), seq)
  BY <1>3 DEF Each, WrittenOf
<1>5. Written(m) = FlattenSeq([k \in DOMAIN seq |-> WrittenPart(m.role, seq[k])])
  BY <1>1 DEF Written, OfEach
<1>6. Said[m] = Collected(WrittenOf(m.role), seq)
  BY <1>4, <1>5 DEF Said, Collected
<1> QED BY <1>1, <1>2, <1>6, WrittenOfType, CollectedType

(* It is a list of items.                                                   *)
LEMMA SaidType == Said \in Maps(OutMessages, Lists(Items))
BY SaidIs DEF Said, Maps

(* With a message more.                                                     *)
LEMMA SaidMore ==
    ASSUME NEW list \in Lists(OutMessages), NEW r \in Roles, NEW content \in Lists(PartsBy(r)),
           r # "user" => content # <<>>
    PROVE  Collected(Said, More(list, Message(r, content))) = Joined(Collected(Said, list), Collected(WrittenOf(r), content))
<1>1. PICK m \in OutMessages : m = Message(r, content)
  BY OutMessageIs
<1>2. m.role = r /\ m.content = content
  BY <1>1, MessageHas
<1>3. Said[m] = Collected(WrittenOf(r), content)
  BY <1>2, SaidIs
<1>4. Collected(Said, More(list, m)) = Joined(Collected(Said, list), Said[m])
  BY SaidType, CollectedMore
<1> QED BY <1>1, <1>3, <1>4

(* Joining nothing changes nothing.                                         *)
LEMMA SaidSame == \A list \in Lists(OutMessages) : Joined(Collected(Said, list), <<>>) = Collected(Said, list)
<1> SUFFICES ASSUME NEW list \in Lists(OutMessages) PROVE Joined(Collected(Said, list), <<>>) = Collected(Said, list)
  OBVIOUS
<1>1. Collected(Said, list) \in Lists(Items)
  BY SaidType, CollectedType
<1> QED BY <1>1, ListTypes

(* With a turn more.                                                        *)
LEMMA SaidWithTurn ==
    ASSUME NEW list \in Lists(OutMessages), NEW r \in Roles, NEW content \in Lists(PartsBy(r))
    PROVE  Collected(Said, WithTurn(list, r, content)) = Joined(Collected(Said, list), Collected(WrittenOf(r), content))
<1>1. CASE content = <<>>
  <2>1. Collected(WrittenOf(r), content) = <<>>
    BY <1>1, CollectedNothing
  <2> QED BY <1>1, <2>1, SaidSame DEF WithTurn
<1>2. CASE content # <<>>
  BY <1>2, SaidMore DEF WithTurn
<1> QED BY <1>1, <1>2

(* With a result more: the same wherever it is added.                       *)
LEMMA SaidAddResult ==
    ASSUME NEW list \in Lists(OutMessages), NEW r \in ResultParts
    PROVE  Collected(Said, AddResult(list, r)) = Joined(Collected(Said, list), WrittenOf("tool")[r])
<1>0. WrittenOf("tool") \in Maps(AnyPart, Lists(Items)) /\ r \in AnyPart
  BY WrittenOfType DEF Who, AnyPart
<1>1. CASE ~JoinsLast(list)
  <2>1. PICK m \in OutMessages : m = Message("tool", Single(r)) /\ AddResult(list, r) = More(list, m)
    BY <1>1, AddResultStarts
  <2>2. Said[m] = Collected(WrittenOf("tool"), Single(r))
    BY <2>1, MessageHas, SaidIs
  <2>3. Said[m] = WrittenOf("tool")[r]
    BY <1>0, <2>2, CollectedSingle
  <2>4. Collected(Said, More(list, m)) = Joined(Collected(Said, list), Said[m])
    BY SaidType, CollectedMore
  <2> QED BY <2>1, <2>3, <2>4
<1>2. CASE JoinsLast(list)
  <2>1. PICK front \in Lists(OutMessages), c \in Lists(ResultParts), old \in OutMessages, new \in OutMessages :
            /\ old = Message("tool", c) /\ new = Message("tool", More(c, r))
            /\ list = More(front, old) /\ AddResult(list, r) = More(front, new)
    BY <1>2, AddResultJoins
  <2>2. Said[old] = Collected(WrittenOf("tool"), c) /\ Said[new] = Collected(WrittenOf("tool"), More(c, r))
    BY <2>1, MessageHas, SaidIs
  <2>3. c \in Lists(AnyPart)
    BY ListsGrow DEF AnyPart
  <2>4. Collected(WrittenOf("tool"), More(c, r)) = Joined(Collected(WrittenOf("tool"), c), WrittenOf("tool")[r])
    BY <1>0, <2>3, CollectedMore
  <2>5. PICK before \in Lists(Items), mine \in Lists(Items), one \in Lists(Items) :
            before = Collected(Said, front) /\ mine = Said[old] /\ one = WrittenOf("tool")[r]
    BY <1>0, SaidIs, SaidType, CollectedType DEF Maps
  <2>6. /\ Collected(Said, More(front, old)) = Joined(before, mine)
        /\ Collected(Said, More(front, new)) = Joined(before, Said[new])
    BY <2>5, SaidType, CollectedMore
  <2>7. Said[new] = Joined(mine, one)
    BY <2>2, <2>4, <2>5
  <2>8. Joined(Joined(before, mine), one) = Joined(before, Joined(mine, one))
    BY JoinedAssociates
  <2>9. Collected(Said, list) = Joined(before, mine)
    BY <2>1, <2>6
  <2>10. Collected(Said, AddResult(list, r)) = Joined(before, Joined(mine, one))
    BY <2>1, <2>6, <2>7
  <2> QED BY <2>5, <2>8, <2>9, <2>10
<1> QED BY <1>1, <1>2

(* What is written holds what was read.                                     *)
LEMMA SaidOn ==
    ASSUME ProxyTypes, NEW m \in ChatMessage, ConvertMessage(m), stage' # "failed",
           Collected(Said, messages) = Collected(HeldHere, input)
    PROVE  Collected(Said, messages') = Collected(HeldHere, input')
<1>0. messages \in Lists(OutMessages) /\ input \in Lists(ChatMessage)
  BY DEF ProxyTypes
<1>1. Reading(m)
  BY ConvertedIs
<1>2. Collected(HeldHere, input') = Joined(Collected(HeldHere, input), HeldHere[m])
  BY <1>0, <1>1, HeldTypes, CollectedMore DEF Reading
<1>3. HeldHere[m] = Collected(WrittenOf(m.role), Wrote(m))
  BY <1>1, WroteHolds DEF Reading
<1>4. Collected(Said, messages') = Joined(Collected(Said, messages), HeldHere[m])
  <2>1. CASE System(m)
    <3>1. messages' = messages /\ HeldHere[m] = <<>>
      BY <2>1, SystemDoes DEF HeldHere
    <3> QED BY <1>0, <3>1, SaidSame
  <2>2. CASE User(m)
    <3>1. messages' = More(messages, Message("user", UserContent(m.content))) /\ m.role = "user" /\ Valid(m.content)
      BY <2>2, UserDoes
    <3>2. UserContent(m.content) \in Lists(PartsBy("user")) /\ "user" \in Roles
      BY <3>1, UserContentType DEF Roles
    <3>3. PICK c \in Lists(PartsBy("user")) : c = UserContent(m.content) /\ c = Wrote(m)
      BY <3>1, <3>2 DEF Wrote
    <3>4. Collected(Said, More(messages, Message("user", c))) = Joined(Collected(Said, messages), Collected(WrittenOf("user"), c))
      BY <1>0, <3>2, SaidMore
    <3> QED BY <1>3, <3>1, <3>3, <3>4
  <2>3. CASE Assistant(m)
    <3>1. messages' = WithTurn(messages, "assistant", AssistantContent(m)) /\ m.role = "assistant" /\ Valid(m.content)
      BY <2>3, AssistantDoes
    <3>2. AssistantContent(m) \in Lists(PartsBy("assistant")) /\ "assistant" \in Roles
      BY <3>1, AssistantContentType DEF Roles
    <3>3. PICK c \in Lists(PartsBy("assistant")) : c = AssistantContent(m) /\ c = Wrote(m)
      BY <3>1, <3>2 DEF Wrote
    <3>4. Collected(Said, WithTurn(messages, "assistant", c))
            = Joined(Collected(Said, messages), Collected(WrittenOf("assistant"), c))
      BY <1>0, <3>2, SaidWithTurn
    <3> QED BY <1>3, <3>1, <3>3, <3>4
  <2>4. CASE ToolResult(m)
    <3>1. messages' = AddResult(messages, ChatResult(m)) /\ m.role = "tool" /\ Valid(m.content)
      BY <2>4, ToolResultDoes
    <3>2. ChatResult(m) \in ResultParts /\ WrittenOf("tool")[ChatResult(m)] = Held(m)
      BY <3>1, ChatResultType, ChatResultHolds
    <3>3. Collected(Said, AddResult(messages, ChatResult(m)))
            = Joined(Collected(Said, messages), WrittenOf("tool")[ChatResult(m)])
      BY <1>0, <3>2, SaidAddResult
    <3>4. HeldHere[m] = Held(m)
      BY <3>1 DEF HeldHere
    <3> QED BY <3>1, <3>2, <3>3, <3>4
  <2>5. CASE RefuseMessage(m)
    BY <2>5, RefuseDoes
  <2> QED BY <2>1, <2>2, <2>3, <2>4, <2>5 DEF ConvertMessage
<1> QED BY <1>2, <1>4

SystemSays == Collected(PieceOf("system"), FlattenSeq(systemParts))

(* So do the parts of the system.                                           *)
LEMMA SystemOn ==
    ASSUME ProxyTypes, NEW m \in ChatMessage, ConvertMessage(m), stage' # "failed",
           SystemSays = Collected(HeldApart, input)
    PROVE  SystemSays' = Collected(HeldApart, input')
<1>0. systemParts \in Lists(Text) /\ input \in Lists(ChatMessage) /\ "system" \in Who
  BY DEF ProxyTypes, Who
<1>1. Reading(m)
  BY ConvertedIs
<1>2. Collected(HeldApart, input') = Joined(Collected(HeldApart, input), HeldApart[m])
  BY <1>0, <1>1, HeldTypes, CollectedMore DEF Reading
<1>3. PICK all \in Lists(Pieces) : all = FlattenSeq(systemParts)
  BY <1>0, FlattenType DEF Text
<1>4. PICK said \in Lists(Items) : said = SystemSays
  BY <1>0, <1>3, PieceOfType, CollectedType DEF SystemSays
<1>5. SystemSays' = Joined(said, HeldApart[m])
  <2>1. CASE System(m)
    <3>1. PICK t \in Text : t = TextOf(m.content)
      BY <2>1, SystemDoes, TextOfType
    <3>2. HeldApart[m] = Collected(PieceOf("system"), t)
      BY <1>0, <2>1, <3>1, SystemDoes, HeldIs, OtherContentHolds DEF HeldApart
    <3>3. systemParts' = IF t = <<>> THEN systemParts ELSE More(systemParts, t)
      BY <2>1, <3>1, SystemDoes
    <3>4. CASE t = <<>>
      <4>1. SystemSays' = said /\ HeldApart[m] = <<>>
        BY <1>4, <3>2, <3>3, <3>4, CollectedNothing DEF SystemSays
      <4> QED BY <4>1, ListTypes
    <3>5. CASE t # <<>>
      <4>1. FlattenSeq(More(systemParts, t)) = Joined(all, t) /\ t \in Lists(Pieces)
        BY <1>0, <1>3, FlattenMore DEF Text
      <4>2. Collected(PieceOf("system"), Joined(all, t)) = Joined(Collected(PieceOf("system"), all), Collected(PieceOf("system"), t))
        BY <1>0, <4>1, PieceOfType, CollectedJoined
      <4>3. SystemSays' = Collected(PieceOf("system"), Joined(all, t)) /\ said = Collected(PieceOf("system"), all)
        BY <1>3, <1>4, <3>3, <3>5, <4>1 DEF SystemSays
      <4> QED BY <3>2, <4>2, <4>3
    <3> QED BY <3>4, <3>5
  <2>2. ASSUME m.role # "system", systemParts' = systemParts PROVE SystemSays' = Joined(said, HeldApart[m])
    <3>1. SystemSays' = said /\ HeldApart[m] = <<>>
      BY <1>4, <2>2 DEF SystemSays, HeldApart
    <3> QED BY <3>1, ListTypes
  <2>3. CASE User(m)
    BY <2>2, <2>3, UserDoes
  <2>4. CASE Assistant(m)
    BY <2>2, <2>4, AssistantDoes
  <2>5. CASE ToolResult(m)
    BY <2>2, <2>5, ToolResultDoes
  <2>6. CASE RefuseMessage(m)
    BY <2>6, RefuseDoes
  <2> QED BY <2>1, <2>3, <2>4, <2>5, <2>6 DEF ConvertMessage
<1> QED BY <1>2, <1>4, <1>5

(* A message is wrong that cannot be converted.                             *)
LEMMA MembersSingle == \A x : Members(Single(x)) = {x}
BY DEF Members, Single

Wrong(m) ==
    \/ m.role = "other" \/ m.content.kind = "invalid"
    \/ m.role = "user" /\ \E k \in DOMAIN PartsIn(m.content) : IsRemote(PartsIn(m.content)[k])
    \/ m.role = "assistant" /\ \E k \in DOMAIN m.calls : m.calls[k].arguments \in NotArguments

(* That is what the conversion refuses.                                     *)
LEMMA WrongIs == \A m \in ChatMessage : Wrong(m) <=> Inconvertible(m)
<1> SUFFICES ASSUME NEW m \in ChatMessage PROVE Wrong(m) <=> Inconvertible(m)
  OBVIOUS
<1>0. m.content \in Content /\ m.content.kind \in {"absent", "string", "parts", "invalid"}
  BY ChatMessageHas DEF Content
<1>1. (\E k \in DOMAIN PartsIn(m.content) : IsRemote(PartsIn(m.content)[k]))
        <=> m.content.kind = "parts" /\ \E k \in DOMAIN m.content.parts : IsRemote(m.content.parts[k])
  <2>1. CASE m.content.kind = "parts"
    BY <1>0, <2>1, PartsInIs
  <2>2. CASE m.content.kind = "string"
    <3>1. PartsIn(m.content) = Single(AsPart(m.content.text)) /\ ~IsRemote(AsPart(m.content.text))
      BY <1>0, <2>2, PartsInIs DEF IsRemote, AsPart
    <3>2. \A k \in DOMAIN Single(AsPart(m.content.text)) : Single(AsPart(m.content.text))[k] = AsPart(m.content.text)
      BY DEF Single
    <3> QED BY <2>2, <3>1, <3>2
  <2>3. CASE m.content.kind \in {"absent", "invalid"}
    <3>1. PartsIn(m.content) = <<>>
      BY <1>0, <2>3, PartsInIs
    <3>2. DOMAIN PartsIn(m.content) = {}
      BY <3>1
    <3> QED BY <2>3, <3>2
  <2> QED BY <1>0, <2>1, <2>2, <2>3
<1> QED BY <1>1 DEF Wrong, Inconvertible

(* What is wrong shows, and only data passes.                               *)
BadTool(t) == t.parameters = "invalid" /\ IsOffer(t)
Failed == (\E m \in Members(input) : Inconvertible(m)) \/ (\E t \in Members(offered) : BadTool(t))
FailsRightly == stage = "failed" <=> Failed
Passed == {p \in AnyPart : p.type = "image" => p.image.data}
OnlyData == Members(PartsOf(messages)) \subseteq Passed
Limited == stage = "built" => maxTokens > 0

(* A part of a user that is not remote passes.                              *)
LEMMA UserPartPasses == \A p \in Part : ~IsRemote(p) => Members(UserPartOf[p]) \subseteq Passed
<1> SUFFICES ASSUME NEW p \in Part, ~IsRemote(p) PROVE Members(UserPart(p)) \subseteq Passed
  BY DEF UserPartOf
<1>1. CASE p.type = "text"
  <2>1. UserPart(p) \in Lists(TextParts)
    BY <1>1, UserPartIs, PartHas, NonEmptyType
  <2> QED BY <2>1, MembersType, PartTypes DEF Passed, AnyPart
<1>2. CASE p.type = "image" /\ p.url # NoUrl
  <2>1. PICK i \in ImageParts : i = ImagePart(p.url) /\ i.image = p.url
    BY <1>2, UserPartIs, ImagePartFacts
  <2>2. UserPart(p) = Single(i) /\ p.url.data
    BY <1>2, <2>1, UserPartIs DEF IsRemote
  <2>3. Members(UserPart(p)) = {i}
    BY <2>2, MembersSingle
  <2> QED BY <2>1, <2>2, <2>3 DEF Passed, AnyPart
<1>3. CASE p.type # "text" /\ ~(p.type = "image" /\ p.url # NoUrl)
  <2>1. UserPart(p) = <<>>
    BY <1>3, UserPartIs
  <2> QED BY <2>1, MembersNothing
<1> QED BY <1>1, <1>2, <1>3

(* What becomes of a message that is not refused has no remote image.       *)
LEMMA WrotePasses ==
    ASSUME ProxyTypes, NEW m \in ChatMessage, Valid(m.content), m.role \in {"system", "user", "assistant", "tool"},
           ~Inconvertible(m)
    PROVE  Members(Wrote(m)) \subseteq Passed
<1>1. CASE m.role = "user"
  <2>0. Wrote(m) = UserContent(m.content)
    BY <1>1 DEF Wrote
  <2>1. CASE m.content.kind = "parts"
    <3>1. PICK seq \in Lists(Part) : seq = m.content.parts
      BY <2>1, ContentHas
    <3>2. \A p \in Members(seq) : p \in Part /\ ~IsRemote(p)
      BY <1>1, <2>1, <3>1 DEF Inconvertible, Members, Lists
    <3>3. Members(Collected(UserPartOf, seq)) = UNION {Members(UserPartOf[p]) : p \in Members(seq)}
      BY UserPartOfType, MembersCollected
    <3> QED BY <2>0, <2>1, <3>1, <3>2, <3>3, UserContentIs, UserPartPasses
  <2>2. CASE m.content.kind = "string"
    <3>1. PICK x \in TextParts : x = TextPart(m.content.text)
      BY <2>2, ContentHas, TextPartFacts
    <3>2. Members(Wrote(m)) = {x}
      BY <2>0, <2>2, <3>1, UserContentIs, MembersSingle
    <3> QED BY <3>2, PartTypes DEF Passed, AnyPart
  <2>3. CASE m.content.kind = "absent"
    BY <2>0, <2>3, UserContentIs, MembersNothing
  <2> QED BY <2>1, <2>2, <2>3, ContentHas
<1>2. CASE m.role = "assistant"
  <2>1. Wrote(m) \in Lists(PartsBy("assistant"))
    BY <1>2, AssistantContentType DEF Wrote
  <2>2. \A p \in PartsBy("assistant") : p \in AnyPart /\ p.type # "image"
    BY PartTypes DEF PartsBy, AnyPart
  <2> QED BY <2>1, <2>2, MembersType DEF Passed
<1>3. CASE m.role = "tool"
  <2>1. PICK r \in ResultParts : r = ChatResult(m)
    BY <1>3, ChatResultType
  <2>2. Members(Wrote(m)) = {r}
    BY <1>3, <2>1, MembersSingle DEF Wrote
  <2>3. r \in AnyPart /\ r.type # "image"
    BY PartTypes DEF AnyPart
  <2> QED BY <2>2, <2>3 DEF Passed
<1>4. CASE m.role = "system"
  BY <1>4, MembersNothing DEF Wrote
<1> QED BY <1>1, <1>2, <1>3, <1>4

(* No step writes a remote image.                                           *)
LEMMA OnlyDataKept ==
    ProxyTypes /\ OnlyData /\ [Next]_vars => OnlyData'
<1> SUFFICES ASSUME ProxyTypes, OnlyData, [Next]_vars PROVE OnlyData'
  OBVIOUS
<1>1. ASSUME NEW m \in ChatMessage, ConvertMessage(m), stage' # "failed" PROVE OnlyData'
  <2>1. PartsOf(messages') = Joined(PartsOf(messages), Wrote(m)) /\ Valid(m.content)
        /\ m.role \in {"system", "user", "assistant", "tool"} /\ ~Inconvertible(m)
    BY <1>1, ConvertedIs DEF Reading
  <2>2. Wrote(m) \in Lists(AnyPart) /\ PartsOf(messages) \in Lists(AnyPart)
    BY <2>1, WroteHolds, PartsOfType DEF ProxyTypes
  <2>3. Members(Joined(PartsOf(messages), Wrote(m))) = Members(PartsOf(messages)) \cup Members(Wrote(m))
    BY <2>2, MembersJoined
  <2> QED BY <2>1, <2>3, WrotePasses DEF OnlyData
<1>2. ASSUME NEW m \in ChatMessage, ConvertMessage(m), stage' = "failed" PROVE messages' = messages
  BY <1>2, SystemDoes, UserDoes, AssistantDoes, ToolResultDoes, RefuseDoes DEF ConvertMessage
<1>3. ASSUME EndOfMessages PROVE messages' = messages
  BY <1>3 DEF EndOfMessages, loopVars
<1>4. ASSUME NEW t \in ChatTool, ConvertTool(t) PROVE messages' = messages
  BY <1>4 DEF ConvertTool, loopVars
<1>5. ASSUME Build PROVE messages' = messages
  BY <1>5 DEF Build, loopVars
<1>6. ASSUME UNCHANGED convertVars PROVE messages' = messages
  BY <1>6 DEF convertVars, loopVars
<1>7. messages' = messages => OnlyData'
  BY DEF OnlyData
<1> QED BY <1>1, <1>2, <1>3, <1>4, <1>5, <1>6, <1>7, ProxySteps

(* What is built has a limit of tokens (normalizeMaxTokens).                *)
LEMMA LimitedKept == ProxyTypes /\ Limited /\ [Next]_vars => Limited'
<1> SUFFICES ASSUME ProxyTypes, Limited, [Next]_vars PROVE Limited'
  OBVIOUS
<1>1. ASSUME NEW m \in ChatMessage, ConvertMessage(m) PROVE Limited'
  BY <1>1, SystemDoes, UserDoes, AssistantDoes, ToolResultDoes, RefuseDoes DEF ConvertMessage, Limited
<1>2. ASSUME EndOfMessages PROVE Limited'
  BY <1>2 DEF EndOfMessages, Limited
<1>3. ASSUME NEW t \in ChatTool, ConvertTool(t) PROVE Limited'
  BY <1>3 DEF ConvertTool, Limited
<1>4. ASSUME Build PROVE Limited'
  BY <1>4, LimitsAssumption DEF Build, Limited
<1>5. ASSUME UNCHANGED convertVars PROVE Limited'
  BY <1>5 DEF convertVars, Limited
<1> QED BY <1>1, <1>2, <1>3, <1>4, <1>5, ProxySteps

(* The conversion fails at the first message or tool that it cannot         *)
(* convert, and only then.                                                  *)
LEMMA FailsRightlyKept == ProxyTypes /\ FailsRightly /\ [Next]_vars => FailsRightly'
<1> SUFFICES ASSUME ProxyTypes, FailsRightly, [Next]_vars PROVE FailsRightly'
  OBVIOUS
<1>0. input \in Lists(ChatMessage) /\ offered \in Lists(ChatTool)
  BY DEF ProxyTypes
<1>1. ASSUME NEW m \in ChatMessage, ConvertMessage(m) PROVE FailsRightly'
  <2>1. stage = "messages" /\ input' = More(input, m) /\ offered' = offered
    BY <1>1, SystemDoes, UserDoes, AssistantDoes, ToolResultDoes, RefuseDoes DEF ConvertMessage
  <2>2. Members(More(input, m)) = Members(input) \cup {m}
    BY <1>0, MembersMore
  <2>3. CASE stage' = "failed"
    <3>1. Inconvertible(m)
      BY <1>1, <2>3, SystemDoes, UserDoes, AssistantDoes, ToolResultDoes, RefuseDoes DEF ConvertMessage
    <3>2. Failed'
      BY <2>1, <2>2, <3>1 DEF Failed
    <3> QED BY <2>3, <3>2 DEF FailsRightly
  <2>4. CASE stage' # "failed"
    <3>1. ~Inconvertible(m)
      BY <1>1, <2>4, ConvertedIs
    <3>2. ~Failed
      BY <2>1 DEF FailsRightly
    <3>3. ~Failed'
      BY <2>1, <2>2, <3>1, <3>2 DEF Failed
    <3> QED BY <2>4, <3>3 DEF FailsRightly
  <2> QED BY <2>3, <2>4
<1>2. ASSUME EndOfMessages PROVE FailsRightly'
  BY <1>2 DEF EndOfMessages, FailsRightly, Failed
<1>3. ASSUME NEW t \in ChatTool, ConvertTool(t) PROVE FailsRightly'
  <2>1. stage = "tools" /\ input' = input /\ offered' = More(offered, t)
    BY <1>3 DEF ConvertTool, More
  <2>2. Members(More(offered, t)) = Members(offered) \cup {t}
    BY <1>0, MembersMore
  <2>3. stage' = "failed" <=> BadTool(t)
    BY <1>3 DEF ConvertTool, BadTool
  <2>4. ~Failed
    BY <2>1 DEF FailsRightly
  <2>5. Failed' <=> BadTool(t)
    BY <2>1, <2>2, <2>4 DEF Failed
  <2> QED BY <2>3, <2>5 DEF FailsRightly
<1>4. ASSUME Build PROVE FailsRightly'
  BY <1>4 DEF Build, FailsRightly, Failed
<1>5. ASSUME UNCHANGED convertVars PROVE FailsRightly'
  BY <1>5 DEF convertVars, FailsRightly, Failed
<1> QED BY <1>1, <1>2, <1>3, <1>4, <1>5, ProxySteps

(* The tools that are passed on are those that are offered.                 *)
Offered == [t \in ChatTool |-> HeldTool(t)]
OfferSays == [o \in Offers |-> <<o.name, o.schema.given, o.schema.default>>]
ToolItems == Names \X (Objects \cup {"null", "invalid"}) \X BOOLEAN

(* An offer says its name and its schema.                                   *)
LEMMA OffersSay == OfferSays \in Maps(Offers, ToolItems)
BY DEF OfferSays, Offers, Schemas, ToolItems, Maps

Given(parameters) == IF parameters = "absent" THEN EmptyObject ELSE parameters

(* A tool is offered with its name and its parameters or not at all.        *)
LEMMA OfferedIs ==
    \A t \in ChatTool :
        /\ IsOffer(t) => /\ Offered[t] = Single(<<t.name, Given(t.parameters), t.parameters # "null">>)
                         /\ <<t.name, Given(t.parameters), t.parameters # "null">> \in ToolItems
        /\ ~IsOffer(t) => Offered[t] = <<>>
<1> SUFFICES ASSUME NEW t \in ChatTool
             PROVE  /\ IsOffer(t) => /\ Offered[t] = Single(<<t.name, Given(t.parameters), t.parameters # "null">>)
                                     /\ <<t.name, Given(t.parameters), t.parameters # "null">> \in ToolItems
                    /\ ~IsOffer(t) => Offered[t] = <<>>
  OBVIOUS
<1>1. Offered[t] = HeldTool(t)
  BY DEF Offered
<1>2. CASE IsOffer(t)
  <2>1. t.name \in Names /\ Given(t.parameters) \in Objects \cup {"null", "invalid"}
    BY <1>2, ChatToolHas, ObjectsAssumption DEF IsOffer, CallNames, Given
  <2>2. (t.parameters # "null") \in BOOLEAN
    OBVIOUS
  <2> QED BY <1>1, <1>2, <2>1, <2>2 DEF HeldTool, Single, Given, ToolItems
<1>3. CASE ~IsOffer(t)
  BY <1>1, <1>3 DEF HeldTool
<1> QED BY <1>2, <1>3

(* It is a list.                                                            *)
LEMMA OfferedType == Offered \in Maps(ChatTool, Lists(ToolItems))
<1>1. \A t \in ChatTool : Offered[t] \in Lists(ToolItems)
  BY OfferedIs, SingleType, NothingIsAList
<1> QED BY <1>1 DEF Offered, Maps

ToolsWhole == Each(OfferSays, tools) = Collected(Offered, offered)

(* A tool more is passed on when it is offered.                             *)
LEMMA OfferOn ==
    ASSUME ProxyTypes, ToolsWhole, NEW t \in ChatTool, ConvertTool(t), stage' # "failed"
    PROVE  ToolsWhole'
<1>0. offered \in Lists(ChatTool) /\ tools \in Lists(Offers)
  BY DEF ProxyTypes
<1>1. offered' = More(offered, t)
  BY DEF ConvertTool, More
<1>2. Collected(Offered, More(offered, t)) = Joined(Collected(Offered, offered), Offered[t])
  BY <1>0, OfferedType, CollectedMore
<1>3. Each(OfferSays, tools) \in Lists(ToolItems)
  BY <1>0, OffersSay, EachType
<1>4. CASE IsOffer(t)
  <2>1. t.name \in Names /\ t.parameters # "invalid"
    BY <1>4, ChatToolHas DEF ConvertTool, IsOffer, CallNames
  <2>2. PICK o : o = [name |-> t.name, schema |-> Schema(t.parameters)]
    OBVIOUS
  <2>3. /\ Schema(t.parameters) \in Schemas
        /\ Schema(t.parameters).given = Given(t.parameters)
        /\ Schema(t.parameters).default = (t.parameters # "null")
    BY <2>1, ChatToolHas, ObjectsAssumption DEF Schema, Schemas, Given
  <2>4. o \in Offers /\ o.name = t.name /\ o.schema = Schema(t.parameters)
    BY <2>1, <2>2, <2>3 DEF Offers
  <2>5. tools' = More(tools, o)
    BY <1>4, <2>2 DEF ConvertTool, More
  <2>6. Each(OfferSays, More(tools, o)) = More(Each(OfferSays, tools), OfferSays[o])
    BY <1>0, <2>4, OffersSay, EachMore
  <2>7. PICK x \in ToolItems : x = <<t.name, Given(t.parameters), t.parameters # "null">> /\ Offered[t] = Single(x)
    BY <1>4, OfferedIs
  <2>8. OfferSays[o] = x
    BY <2>3, <2>4, <2>7 DEF OfferSays
  <2>9. Joined(Each(OfferSays, tools), Single(x)) = More(Each(OfferSays, tools), x)
    BY <1>3, JoinedSingle
  <2> QED BY <1>1, <1>2, <2>5, <2>6, <2>7, <2>8, <2>9 DEF ToolsWhole
<1>5. CASE ~IsOffer(t)
  <2>1. tools' = tools /\ Offered[t] = <<>>
    BY <1>5, OfferedIs DEF ConvertTool
  <2>2. Joined(Each(OfferSays, tools), <<>>) = Each(OfferSays, tools)
    BY <1>3, ListTypes
  <2> QED BY <1>1, <1>2, <2>1, <2>2 DEF ToolsWhole
<1> QED BY <1>4, <1>5

(* Nothing else is lost on the way.                                         *)
ItemsWhole == Collected(Said, messages) = Collected(HeldHere, input)
SystemWhole == SystemSays = Collected(HeldApart, input)

Whole == stage # "failed" => ItemsWhole /\ SystemWhole /\ ToolsWhole

(* At first, nothing has been read or written.                              *)
LEMMA WholeInit == Init => Whole /\ OnlyData /\ FailsRightly /\ Limited
<1> SUFFICES ASSUME Init PROVE Whole /\ OnlyData /\ FailsRightly /\ Limited
  OBVIOUS
<1>1. stage = "messages" /\ input = <<>> /\ offered = <<>> /\ systemParts = <<>> /\ messages = <<>> /\ tools = <<>>
  BY DEF Init, ConvertInit
<1>2. PartsOf(<<>>) = <<>>
  BY NothingIsAList, PartsOfIs, CollectedNothing
<1>3. Each(OfferSays, <<>>) = <<>>
  BY DEF Each
<1>4. ItemsWhole
  BY <1>1, CollectedNothing DEF ItemsWhole
<1>5. SystemWhole
  BY <1>1, CollectedNothing, FlattenNothing DEF SystemWhole, SystemSays
<1>6. ToolsWhole
  BY <1>1, <1>3, CollectedNothing DEF ToolsWhole
<1>7. OnlyData
  BY <1>1, <1>2, MembersNothing DEF OnlyData
<1>8. FailsRightly
  BY <1>1, MembersNothing DEF FailsRightly, Failed
<1> QED BY <1>1, <1>4, <1>5, <1>6, <1>7, <1>8 DEF Whole, Limited

(* Nothing else is lost in a step.                                          *)
LEMMA WholeKept == ProxyTypes /\ Whole /\ [Next]_vars => Whole'
<1> SUFFICES ASSUME ProxyTypes, Whole, [Next]_vars, stage' # "failed" PROVE ItemsWhole' /\ SystemWhole' /\ ToolsWhole'
  BY DEF Whole
<1>1. ASSUME NEW m \in ChatMessage, ConvertMessage(m) PROVE ItemsWhole' /\ SystemWhole' /\ ToolsWhole'
  <2>1. Reading(m)
    BY <1>1, ConvertedIs
  <2>2. ItemsWhole /\ SystemWhole /\ ToolsWhole
    BY <2>1 DEF Whole, Reading
  <2>3. ItemsWhole'
    BY <1>1, <2>2, SaidOn DEF ItemsWhole
  <2>4. SystemWhole'
    BY <1>1, <2>2, SystemOn DEF SystemWhole
  <2>5. ToolsWhole'
    BY <2>1, <2>2 DEF ToolsWhole, Reading
  <2> QED BY <2>3, <2>4, <2>5
<1>2. ASSUME stage # "failed", UNCHANGED <<input, systemParts, messages>> PROVE ItemsWhole' /\ SystemWhole'
  BY <1>2 DEF Whole, ItemsWhole, SystemWhole, SystemSays
<1>3. ASSUME stage # "failed", UNCHANGED <<offered, tools>> PROVE ToolsWhole'
  BY <1>3 DEF Whole, ToolsWhole
<1>4. ASSUME EndOfMessages PROVE ItemsWhole' /\ SystemWhole' /\ ToolsWhole'
  BY <1>2, <1>3, <1>4 DEF EndOfMessages, loopVars
<1>5. ASSUME NEW t \in ChatTool, ConvertTool(t) PROVE ItemsWhole' /\ SystemWhole' /\ ToolsWhole'
  <2>1. stage # "failed" /\ UNCHANGED <<input, systemParts, messages>>
    BY <1>5 DEF ConvertTool, loopVars
  <2>2. ToolsWhole'
    BY <1>5, <2>1, OfferOn DEF Whole
  <2> QED BY <1>2, <2>1, <2>2
<1>6. ASSUME Build PROVE ItemsWhole' /\ SystemWhole' /\ ToolsWhole'
  BY <1>2, <1>3, <1>6 DEF Build, loopVars
<1>7. ASSUME UNCHANGED convertVars PROVE ItemsWhole' /\ SystemWhole' /\ ToolsWhole'
  BY <1>2, <1>3, <1>7 DEF convertVars, loopVars
<1> QED BY <1>1, <1>4, <1>5, <1>6, <1>7, ProxySteps

(* What the property compares, collected.                                   *)
LEMMA Compared ==
    ProxyTypes =>
        /\ OfEach(Written, messages) = Collected(Said, messages)
        /\ Pieced("system", FlattenSeq(systemParts)) = SystemSays
        /\ OfEach(LAMBDA m : IF m.role = "system" THEN <<>> ELSE Held(m), input) = Collected(HeldHere, input)
        /\ OfEach(LAMBDA m : IF m.role = "system" THEN Held(m) ELSE <<>>, input) = Collected(HeldApart, input)
        /\ OfEach(HeldTool, offered) = Collected(Offered, offered)
        /\ [k \in DOMAIN tools |-> <<tools[k].name, tools[k].schema.given, tools[k].schema.default>>] = Each(OfferSays, tools)
<1> SUFFICES ASSUME ProxyTypes
             PROVE  /\ OfEach(Written, messages) = Collected(Said, messages)
                    /\ Pieced("system", FlattenSeq(systemParts)) = SystemSays
                    /\ OfEach(LAMBDA m : IF m.role = "system" THEN <<>> ELSE Held(m), input) = Collected(HeldHere, input)
                    /\ OfEach(LAMBDA m : IF m.role = "system" THEN Held(m) ELSE <<>>, input) = Collected(HeldApart, input)
                    /\ OfEach(HeldTool, offered) = Collected(Offered, offered)
                    /\ [k \in DOMAIN tools |-> <<tools[k].name, tools[k].schema.given, tools[k].schema.default>>]
                         = Each(OfferSays, tools)
  OBVIOUS
<1>1. /\ \A k \in DOMAIN messages : messages[k] \in OutMessages
      /\ \A k \in DOMAIN input : input[k] \in ChatMessage
      /\ \A k \in DOMAIN offered : offered[k] \in ChatTool
      /\ \A k \in DOMAIN tools : tools[k] \in Offers
  BY DEF ProxyTypes, Lists
<1>2. [k \in DOMAIN messages |-> Written(messages[k])] = Each(Said, messages)
  BY <1>1 DEF Each, Said
<1>3. [k \in DOMAIN input |-> IF input[k].role = "system" THEN <<>> ELSE Held(input[k])] = Each(HeldHere, input)
  BY <1>1 DEF Each, HeldHere
<1>4. [k \in DOMAIN input |-> IF input[k].role = "system" THEN Held(input[k]) ELSE <<>>] = Each(HeldApart, input)
  BY <1>1 DEF Each, HeldApart
<1>5. [k \in DOMAIN offered |-> HeldTool(offered[k])] = Each(Offered, offered)
  BY <1>1 DEF Each, Offered
<1>6. [k \in DOMAIN tools |-> <<tools[k].name, tools[k].schema.given, tools[k].schema.default>>] = Each(OfferSays, tools)
  BY <1>1 DEF Each, OfferSays
<1>7. OfEach(Written, messages) = Collected(Said, messages)
  BY <1>2 DEF OfEach, Collected
<1>8. OfEach(LAMBDA m : IF m.role = "system" THEN <<>> ELSE Held(m), input) = Collected(HeldHere, input)
  BY <1>3 DEF OfEach, Collected
<1>9. OfEach(LAMBDA m : IF m.role = "system" THEN Held(m) ELSE <<>>, input) = Collected(HeldApart, input)
  BY <1>4 DEF OfEach, Collected
<1>10. OfEach(HeldTool, offered) = Collected(Offered, offered)
  BY <1>5 DEF OfEach, Collected
<1>11. Pieced("system", FlattenSeq(systemParts)) = SystemSays
  <2>1. FlattenSeq(systemParts) \in Text
    BY FlattenType DEF ProxyTypes, Text
  <2> QED BY <2>1, PiecedIs DEF SystemSays, Who
<1> QED BY <1>6, <1>7, <1>8, <1>9, <1>10, <1>11

(* The invariant implies LosesOnlyPassedOver.                               *)
LEMMA WholeSuffices == ProxyTypes /\ Whole /\ OnlyData /\ FailsRightly /\ Limited => LosesOnlyPassedOver
<1> SUFFICES ASSUME ProxyTypes, Whole, OnlyData, FailsRightly, Limited PROVE LosesOnlyPassedOver
  OBVIOUS
<1>1. \A k \in DOMAIN PartsOf(messages) : PartsOf(messages)[k].type = "image" => PartsOf(messages)[k].image.data
  BY DEF OnlyData, Members, Passed
<1>2. stage = "failed" <=> (\E j \in DOMAIN input : Wrong(input[j])) \/ (\E j \in DOMAIN offered : BadTool(offered[j]))
  <2>1. \A j \in DOMAIN input : input[j] \in ChatMessage
    BY DEF ProxyTypes, Lists
  <2>2. (\E m \in Members(input) : Inconvertible(m)) <=> \E j \in DOMAIN input : Wrong(input[j])
    BY <2>1, WrongIs DEF Members
  <2>3. (\E t \in Members(offered) : BadTool(t)) <=> \E j \in DOMAIN offered : BadTool(offered[j])
    BY DEF Members
  <2> QED BY <2>2, <2>3 DEF FailsRightly, Failed
<1>3. stage # "failed" =>
          /\ OfEach(Written, messages) = OfEach(LAMBDA m : IF m.role = "system" THEN <<>> ELSE Held(m), input)
          /\ Pieced("system", FlattenSeq(systemParts)) = OfEach(LAMBDA m : IF m.role = "system" THEN Held(m) ELSE <<>>, input)
          /\ [k \in DOMAIN tools |-> <<tools[k].name, tools[k].schema.given, tools[k].schema.default>>] = OfEach(HeldTool, offered)
  BY Compared DEF Whole, ItemsWhole, SystemWhole, ToolsWhole
<1>4. stage = "built" => maxTokens > 0
  BY DEF Limited
<1> QED BY <1>1, <1>2, <1>3, <1>4 DEF LosesOnlyPassedOver, Wrong, BadTool

(* A request that is converted loses the parts that PassedOver names and    *)
(* nothing else: in the order of the request and under their role, what is  *)
(* built holds every other text, image, call with its name and arguments    *)
(* and result with its id and text, and every offered tool with its schema; *)
(* no image in it is remote, and it has a positive limit of tokens.  A      *)
(* request fails exactly when a message or tool of it cannot be converted   *)
(* (convert.go:90-195).                                                     *)
THEOREM OnlyPassedOverIsLost == Spec => []LosesOnlyPassedOver
<1>1. Init => Whole /\ OnlyData /\ FailsRightly /\ Limited
  BY WholeInit
<1>2. ProxyTypes /\ Whole /\ OnlyData /\ FailsRightly /\ Limited /\ [Next]_vars
      => Whole' /\ OnlyData' /\ FailsRightly' /\ Limited'
  BY WholeKept, OnlyDataKept, FailsRightlyKept, LimitedKept
<1> QED BY <1>1, <1>2, Typed, WholeSuffices, PTL DEF Spec

-----------------------------------------------------------------------------
(* One conversation on two roads.                                           *)

(* What a turn becomes on the two roads.                                    *)
LEMMA ObjectsStay == \A x \in Objects : Decoded(x) = x /\ PiInput(x) = x /\ x \notin NotArguments
BY ObjectsAssumption DEF Decoded, PiInput, NotArguments

UserMessageOne == [b \in UserBlock |-> Single(PiUserPart(b))]

(* A block of a user of Pi makes one part.                                  *)
LEMMA UserMessageOnes ==
    /\ UserMessageOne \in Maps(UserBlock, Lists(PartsBy("user")))
    /\ \A b \in UserBlock : UserMessageOne[b] = Single(PiUserPartOf[b])
<1>1. \A b \in UserBlock : PiUserPartOf[b] = PiUserPart(b) /\ PiUserPartOf[b] \in PartsBy("user")
  BY PiUserPartOfType, MapsGive DEF PiUserPartOf
<1>2. \A b \in UserBlock : UserMessageOne[b] = Single(PiUserPartOf[b])
  BY <1>1 DEF UserMessageOne
<1>3. \A b \in UserBlock : UserMessageOne[b] \in Lists(PartsBy("user"))
  BY <1>1, <1>2, SingleType
<1> QED BY <1>2, <1>3 DEF UserMessageOne, Maps

(* An image of a turn becomes the same part on both roads.                  *)
LEMMA ImageAlike ==
    \A i \in MediaTypes : UserPartOf[ChatImageOf[i]] = UserMessageOne[PiImageOf[i]] /\ ~IsRemote(ChatImageOf[i])
<1> SUFFICES ASSUME NEW i \in MediaTypes
             PROVE  UserPartOf[ChatImageOf[i]] = UserMessageOne[PiImageOf[i]] /\ ~IsRemote(ChatImageOf[i])
  OBVIOUS
<1>1. PICK u \in Url : u = [data |-> TRUE, mediaType |-> i]
  BY DEF Url
<1>a. ChatImageOf[i] \in Part
  BY ChatImageOfType, MapsGive
<1>b. ChatImageOf[i] = [type |-> "image", url |-> u]
  BY <1>1 DEF ChatImageOf
<1>2. PICK p \in Part : p = ChatImageOf[i] /\ p.type = "image" /\ p.url = u
  BY <1>a, <1>b
<1>3. u.data /\ u # NoUrl
  BY <1>1, NoUrlAssumption
<1>4. UserPartOf[p] = Single(ImagePart(u))
  BY <1>2, <1>3, UserPartIs DEF UserPartOf
<1>c. PiImageOf[i] \in UserBlock
  BY PiImageOfType, MapsGive
<1>d. PiImageOf[i] = [type |-> "image", mediaType |-> i]
  BY DEF PiImageOf
<1>5. PICK b \in UserBlock : b = PiImageOf[i] /\ b.type = "image" /\ b.mediaType = i
  BY <1>c, <1>d
<1>6. PiUserPart(b) = ImagePart(u)
  BY <1>1, <1>5 DEF PiUserPart
<1>7. UserMessageOne[b] = Single(ImagePart(u))
  BY <1>6 DEF UserMessageOne
<1>8. ~IsRemote(p)
  BY <1>2, <1>3 DEF IsRemote
<1> QED BY <1>2, <1>4, <1>5, <1>7, <1>8

(* So does its text.                                                        *)
LEMMA TextAlike ==
    \A t \in Text : t # <<>> => UserPartOf[ChatText(t)] = UserMessageOne[ChatText(t)] /\ ~IsRemote(ChatText(t))
<1> SUFFICES ASSUME NEW t \in Text, t # <<>>
             PROVE  UserPartOf[ChatText(t)] = UserMessageOne[ChatText(t)] /\ ~IsRemote(ChatText(t))
  OBVIOUS
<1>1. PICK p \in Part : p = ChatText(t) /\ p.type = "text" /\ p.text = t /\ p \in UserBlock
  BY ChatTextType DEF ChatText
<1>2. UserPartOf[p] = Single(TextPart(t))
  BY <1>1, UserPartIs, NonEmptyIs DEF UserPartOf
<1>3. UserMessageOne[p] = Single(TextPart(t))
  BY <1>1 DEF UserMessageOne, PiUserPart
<1>4. ~IsRemote(p)
  BY <1>1 DEF IsRemote
<1> QED BY <1>1, <1>2, <1>3, <1>4

(* So do the parts of a turn of the user.                                   *)
LEMMA UserPartsAlike ==
    ASSUME NEW t \in Turn, t.by = "user"
    PROVE  /\ Collected(UserPartOf, ChatParts(t)) = Each(PiUserPartOf, PiBlocks(t))
           /\ \A p \in Members(ChatParts(t)) : ~IsRemote(p)
           /\ Each(PiUserPartOf, PiBlocks(t)) # <<>>
<1>1. PICK images \in Lists(MediaTypes), text \in Text : images = t.images /\ text = t.text /\ text # <<>>
  BY TurnHas
<1>2. PICK p \in Part : p = ChatText(text) /\ p \in UserBlock
  BY ChatTextType
<1>3. PICK a \in Lists(Part), b \in Lists(Part) : a = Single(p) /\ b = Each(ChatImageOf, images)
  BY SingleType, ChatImageOfType, EachType
<1>4. PICK c \in Lists(UserBlock), d \in Lists(UserBlock) : c = Single(p) /\ d = Each(PiImageOf, images)
  BY <1>2, SingleType, PiImageOfType, EachType
<1>5. ChatParts(t) = Joined(a, b) /\ PiBlocks(t) = Joined(c, d)
  BY <1>1, <1>2, <1>3, <1>4 DEF ChatParts, PiBlocks
<1>6. Collected(UserPartOf, Joined(a, b)) = Joined(Collected(UserPartOf, a), Collected(UserPartOf, b))
  BY UserPartOfType, CollectedJoined
<1>7. Collected(UserMessageOne, Joined(c, d)) = Joined(Collected(UserMessageOne, c), Collected(UserMessageOne, d))
  BY UserMessageOnes, CollectedJoined
<1>8. Collected(UserPartOf, a) = Collected(UserMessageOne, c)
  <2>1. Collected(UserPartOf, Single(p)) = UserPartOf[p]
    BY UserPartOfType, CollectedSingle
  <2>2. Collected(UserMessageOne, Single(p)) = UserMessageOne[p]
    BY <1>2, UserMessageOnes, CollectedSingle
  <2> QED BY <1>1, <1>2, <1>3, <1>4, <2>1, <2>2, TextAlike
<1>9. DOMAIN b = DOMAIN images /\ DOMAIN d = DOMAIN images
      /\ \A k \in DOMAIN images : b[k] = ChatImageOf[images[k]] /\ d[k] = PiImageOf[images[k]]
  BY <1>3, <1>4, EachElement
<1>10. \A k \in DOMAIN images : images[k] \in MediaTypes
  BY DEF Lists
<1>11. Collected(UserPartOf, b) = Collected(UserMessageOne, d)
  <2>1. \A k \in DOMAIN b : UserPartOf[b[k]] = UserMessageOne[d[k]]
    BY <1>9, <1>10, ImageAlike
  <2> QED BY <1>9, <2>1, UserPartOfType, UserMessageOnes, CollectedSame
<1>12. Joined(c, d) \in Lists(UserBlock)
  BY ListTypes
<1>13. Collected(UserMessageOne, Joined(c, d)) = Each(PiUserPartOf, Joined(c, d))
  BY <1>12, UserMessageOnes, PiUserPartOfType, CollectedSingly
<1>14. \A q \in Members(Joined(a, b)) : ~IsRemote(q)
  <2>1. Members(Joined(a, b)) = Members(a) \cup Members(b)
    BY MembersJoined
  <2>2. Members(a) = {p}
    BY <1>3, MembersSingle
  <2>3. \A q \in Members(b) : \E i \in MediaTypes : q = ChatImageOf[i]
    BY <1>9, <1>10 DEF Members
  <2> QED BY <1>1, <1>2, <2>1, <2>2, <2>3, TextAlike, ImageAlike
<1>15. Each(PiUserPartOf, Joined(c, d)) # <<>>
  <2>1. DOMAIN Each(PiUserPartOf, Joined(c, d)) = DOMAIN Joined(c, d)
    BY EachElement
  <2>2. Members(Joined(c, d)) = Members(c) \cup Members(d)
    BY MembersJoined
  <2>3. p \in Members(Joined(c, d))
    BY <1>4, <2>2, MembersSingle
  <2>4. DOMAIN Joined(c, d) # {}
    BY <2>3 DEF Members
  <2> QED BY <2>1, <2>4
<1> QED BY <1>5, <1>6, <1>7, <1>8, <1>11, <1>13, <1>14, <1>15

(* A turn of the user becomes the same on both roads, and is not refused.   *)
LEMMA UserAlike ==
    ASSUME NEW t \in Turn, t.by = "user"
    PROVE  /\ AsChatMessage(t).role = "user" /\ AsPiMessage(t).role = "user"
           /\ UserContent(AsChatMessage(t).content) = PiUserContent(AsPiMessage(t))
           /\ PiUserContent(AsPiMessage(t)) # <<>>
           /\ ~Inconvertible(AsChatMessage(t))
<1>1. PICK m \in ChatMessage, n \in PiMessage : m = AsChatMessage(t) /\ n = AsPiMessage(t)
  BY TurnsAreMessages
<1>a. m = [role |-> "user", content |-> [kind |-> "parts", parts |-> ChatParts(t)]]
  BY <1>1, ChatMessageIs
<1>2. m.role = "user" /\ m.content.kind = "parts" /\ m.content.parts = ChatParts(t)
  BY ONLY <1>a
<1>b. n = [role |-> "user", blocks |-> PiBlocks(t)]
  BY <1>1, PiMessageIs
<1>3. n.role = "user" /\ "text" \notin DOMAIN n /\ n.blocks = PiBlocks(t)
  BY ONLY <1>b
<1>4. Valid(m.content)
  BY <1>2, ChatMessageHas DEF Valid
<1>5. UserContent(m.content) = Collected(UserPartOf, ChatParts(t))
  BY <1>2, <1>4, UserContentIs
<1>6. PiUserContent(n) = Each(PiUserPartOf, PiBlocks(t))
  BY <1>3, PiUserContentIs
<1>7. ~Inconvertible(m)
  BY <1>2, UserPartsAlike DEF Inconvertible, Members
<1> QED BY <1>1, <1>2, <1>3, <1>5, <1>6, <1>7, UserPartsAlike

TurnCallOne == [c \in TurnCall |-> Single(CallPartOf[c])]

(* A call of a turn becomes the same part on both roads.                    *)
LEMMA CallAlike ==
    \A c \in TurnCall :
        /\ c \in Call /\ PiCallOf[c] \in AssistantBlock
        /\ PiAssistantPartOf[PiCallOf[c]] = Single(CallPartOf[c])
        /\ Single(CallPartOf[c]) \in Lists(PartsBy("assistant")) /\ CallPartOf[c] \in PartsBy("assistant")
        /\ c.arguments \notin NotArguments
        /\ PiCallOf[c].type = "toolCall" /\ PiCallOf[c].id = c.id /\ PiCallOf[c].name = c.name
<1> SUFFICES ASSUME NEW c \in TurnCall
             PROVE  /\ c \in Call /\ PiCallOf[c] \in AssistantBlock
                    /\ PiAssistantPartOf[PiCallOf[c]] = Single(CallPartOf[c])
                    /\ Single(CallPartOf[c]) \in Lists(PartsBy("assistant")) /\ CallPartOf[c] \in PartsBy("assistant")
                    /\ c.arguments \notin NotArguments
                    /\ PiCallOf[c].type = "toolCall" /\ PiCallOf[c].id = c.id /\ PiCallOf[c].name = c.name
  OBVIOUS
<1>1. c \in Call /\ c.arguments \in Objects
  BY TurnCalls DEF TurnCall
<1>2. PICK b \in AssistantBlock : b = PiCallOf[c]
  BY PiCallOfType, MapsGive
<1>3. b = [type |-> "toolCall", id |-> c.id, name |-> c.name, arguments |-> c.arguments]
  BY <1>2 DEF PiCallOf
<1>4. b.type = "toolCall" /\ b.id = c.id /\ b.name = c.name /\ b.arguments = c.arguments
  BY ONLY <1>3
<1>5. PiAssistantPartOf[b] = Single(CallPart(b.id, b.name, PiInput(b.arguments)))
  BY <1>4, PiAssistantPartIs DEF PiAssistantPartOf
<1>6. CallPartOf[c] = CallPart(c.id, c.name, Decoded(c.arguments))
  BY <1>1 DEF CallPartOf
<1>7. CallPartOf[c] \in PartsBy("assistant")
  BY <1>1, CallPartOfType DEF PartsBy
<1> QED BY <1>1, <1>2, <1>4, <1>5, <1>6, <1>7, ObjectsStay, SingleType

(* So do its calls.                                                         *)
LEMMA CallsAlike ==
    ASSUME NEW calls \in Lists(TurnCall)
    PROVE  /\ calls \in Lists(Call)
           /\ Collected(PiAssistantPartOf, Each(PiCallOf, calls)) = Each(CallPartOf, calls)
<1>1. calls \in Lists(Call)
  BY TurnCalls, ListsGrow
<1> DEFINE part == [c \in TurnCall |-> CallPartOf[c]]
<1>2. part \in Maps(TurnCall, PartsBy("assistant"))
  BY CallAlike DEF Maps
<1>3. TurnCallOne \in Maps(TurnCall, Lists(PartsBy("assistant"))) /\ \A c \in TurnCall : TurnCallOne[c] = Single(part[c])
  BY CallAlike DEF TurnCallOne, Maps
<1>4. \A k \in DOMAIN calls : calls[k] \in TurnCall
  BY DEF Lists
<1>5. Each(part, calls) = Each(CallPartOf, calls)
  BY <1>4 DEF Each
<1> HIDE DEF part
<1>6. Collected(TurnCallOne, calls) = Each(CallPartOf, calls)
  BY <1>2, <1>3, <1>5, CollectedSingly
<1>7. PICK seq \in Lists(AssistantBlock) : seq = Each(PiCallOf, calls)
  BY PiCallOfType, EachType
<1>8. DOMAIN seq = DOMAIN calls /\ \A k \in DOMAIN calls : seq[k] = PiCallOf[calls[k]]
  BY <1>7, EachElement
<1>9. \A k \in DOMAIN seq : PiAssistantPartOf[seq[k]] = TurnCallOne[calls[k]]
  BY <1>4, <1>8, CallAlike DEF TurnCallOne
<1>10. Collected(PiAssistantPartOf, seq) = Collected(TurnCallOne, calls)
  BY <1>3, <1>8, <1>9, PiAssistantPartOfType, CollectedSame
<1> QED BY <1>1, <1>6, <1>7, <1>10

(* The thought that only Pi keeps becomes nothing.                          *)
LEMMA AssistantPartsAlike ==
    ASSUME NEW t \in Turn, t.by = "assistant"
    PROVE  Collected(PiAssistantPartOf, PiAnswer(t)) = Joined(NonEmpty(t.text), Each(CallPartOf, t.calls))
<1>1. PICK calls \in Lists(TurnCall), text \in Text : calls = t.calls /\ text = t.text
  BY TurnHas
<1>2. PICK p \in AssistantBlock, q \in AssistantBlock : p = Thought /\ q = ChatText(text)
  BY ThoughtType, ChatTextType
<1>3. PICK a \in Lists(AssistantBlock), b \in Lists(AssistantBlock), c \in Lists(AssistantBlock) :
          a = Single(p) /\ b = More(a, q) /\ c = Each(PiCallOf, calls)
  BY SingleType, MoreType, PiCallOfType, EachType
<1>4. PiAnswer(t) = Joined(b, c)
  BY <1>1, <1>2, <1>3 DEF PiAnswer
<1>5. Collected(PiAssistantPartOf, Joined(b, c)) = Joined(Collected(PiAssistantPartOf, b), Collected(PiAssistantPartOf, c))
  BY PiAssistantPartOfType, CollectedJoined
<1>6. Collected(PiAssistantPartOf, More(a, q)) = Joined(Collected(PiAssistantPartOf, a), PiAssistantPartOf[q])
  BY PiAssistantPartOfType, CollectedMore
<1>7. Collected(PiAssistantPartOf, Single(p)) = PiAssistantPartOf[p]
  BY PiAssistantPartOfType, CollectedSingle
<1>8. PiAssistantPartOf[p] = <<>>
  <2>1. p.type = "thinking"
    BY <1>2 DEF Thought
  <2> QED BY <2>1, PiAssistantPartIs DEF PiAssistantPartOf
<1>9. PiAssistantPartOf[q] = NonEmpty(text)
  <2>1. q.type = "text" /\ q.text = text
    BY <1>2 DEF ChatText
  <2> QED BY <2>1, PiAssistantPartIs DEF PiAssistantPartOf
<1>10. Joined(<<>>, NonEmpty(text)) = NonEmpty(text)
  BY NonEmptyType, ListTypes
<1>11. Collected(PiAssistantPartOf, c) = Each(CallPartOf, calls)
  BY <1>3, CallsAlike
<1> QED BY <1>1, <1>3, <1>4, <1>5, <1>6, <1>7, <1>8, <1>9, <1>10, <1>11

(* A turn of the assistant becomes the same on both roads, and is not       *)
(* refused.                                                                 *)
LEMMA AssistantAlike ==
    ASSUME NEW t \in Turn, t.by = "assistant"
    PROVE  /\ AsChatMessage(t).role = "assistant" /\ AsPiMessage(t).role = "assistant"
           /\ AsChatMessage(t).calls = t.calls /\ AsPiMessage(t).blocks = PiAnswer(t)
           /\ AssistantContent(AsChatMessage(t)) = PiAssistantContent(AsPiMessage(t).blocks)
           /\ ~Inconvertible(AsChatMessage(t))
<1>1. PICK m \in ChatMessage, n \in PiMessage : m = AsChatMessage(t) /\ n = AsPiMessage(t)
  BY TurnsAreMessages
<1>a. m = [role |-> "assistant", calls |-> t.calls, content |-> ChatContent(t)]
  BY <1>1, ChatMessageIs
<1>2. m.role = "assistant" /\ m.calls = t.calls /\ m.content = ChatContent(t)
  BY ONLY <1>a
<1>b. n = [role |-> "assistant", blocks |-> PiAnswer(t)] /\ PiAnswer(t) \in Lists(AssistantBlock)
  BY <1>1, PiMessageIs
<1>3. n.role = "assistant" /\ n.blocks = PiAnswer(t)
  BY ONLY <1>b
<1>4. Valid(m.content) /\ TextOf(m.content) = t.text
  <2>1. m.content \in Content
    BY ChatMessageHas
  <2>2. CASE t.text = <<>>
    <3>1. m.content.kind = "absent"
      BY <1>2, <2>2 DEF ChatContent
    <3> QED BY <2>1, <2>2, <3>1, TextOfIs DEF Valid
  <2>3. CASE t.text # <<>>
    <3>1. m.content = [kind |-> "string", text |-> t.text]
      BY <1>2, <2>3 DEF ChatContent
    <3>2. m.content.kind = "string" /\ m.content.text = t.text
      BY ONLY <3>1
    <3> QED BY <2>1, <3>2, TextOfIs DEF Valid
  <2> QED BY <2>2, <2>3
<1>5. PICK calls \in Lists(TurnCall) : calls = t.calls
  BY TurnHas
<1>6. AssistantContent(m) = Joined(NonEmpty(t.text), Each(CallPartOf, calls))
  BY <1>2, <1>4, <1>5, CallsAlike, CallPartsAre DEF AssistantContent
<1>7. PiAssistantContent(n.blocks) = Collected(PiAssistantPartOf, PiAnswer(t))
  BY <1>b, <1>3, PiAssistantContentIs
<1>8. ~Inconvertible(m)
  <2>1. \A k \in DOMAIN calls : calls[k] \in TurnCall
    BY DEF Lists
  <2>2. \A k \in DOMAIN m.calls : m.calls[k].arguments \notin NotArguments
    BY <1>2, <1>5, <2>1, CallAlike
  <2> QED BY <1>2, <1>4, <2>2 DEF Inconvertible, Valid
<1> QED BY <1>1, <1>2, <1>3, <1>5, <1>6, <1>7, <1>8, AssistantPartsAlike

(* So does a result, but for the name that each road gives it.              *)
LEMMA ToolAlike ==
    ASSUME NEW t \in Turn, t.by = "tool"
    PROVE  /\ AsChatMessage(t).role = "tool" /\ AsPiMessage(t).role = "toolResult"
           /\ AsChatMessage(t).id = t.id /\ AsChatMessage(t).name = "" /\ AsPiMessage(t).id = t.id
           /\ ChatResult(AsChatMessage(t)) = ResultPart(t.id, ChatName(AsChatMessage(t)), "text", t.text)
           /\ PiResult(AsPiMessage(t)) = ResultPart(t.id, ResultName(AsPiMessage(t)), "text", t.text)
           /\ ~Inconvertible(AsChatMessage(t))
<1>1. PICK m \in ChatMessage, n \in PiMessage : m = AsChatMessage(t) /\ n = AsPiMessage(t)
  BY TurnsAreMessages
<1>a. m = [role |-> "tool", id |-> t.id, name |-> "", content |-> [kind |-> "string", text |-> t.text]]
  BY <1>1, ChatMessageIs
<1>2. m.role = "tool" /\ m.id = t.id /\ m.name = "" /\ m.content.kind = "string" /\ m.content.text = t.text
  BY ONLY <1>a
<1>b. n = [role |-> "toolResult", id |-> t.id, toolName |-> t.toolName, texts |-> <<t.text>>, isError |-> FALSE]
  BY <1>1, PiMessageIs
<1>3. n.role = "toolResult" /\ n.id = t.id /\ n.texts = <<t.text>> /\ n.isError = FALSE
  BY ONLY <1>b
<1>4. Valid(m.content) /\ TextOf(m.content) = t.text
  <2>1. Valid(m.content)
    BY <1>2, ChatMessageHas DEF Valid
  <2> QED BY <1>2, <2>1, TextOfIs
<1>5. FlattenSeq(n.texts) = t.text
  BY <1>3, TurnHas, FlattenOne DEF Text
<1>6. ChatResult(m) = ResultPart(t.id, ChatName(m), "text", t.text)
  BY <1>2, <1>4 DEF ChatResult
<1>7. PiResult(n) = ResultPart(t.id, ResultName(n), "text", t.text)
  BY <1>3, <1>5 DEF PiResult
<1>8. ~Inconvertible(m)
  BY <1>2 DEF Inconvertible
<1> QED BY <1>1, <1>2, <1>3, <1>6, <1>7, <1>8

(* The calls of a turn lie two places further in the blocks of Pi.          *)
LEMMA JoinedElements ==
    ASSUME NEW T, NEW s \in Lists(T), NEW t \in Lists(T)
    PROVE  /\ DOMAIN Joined(s, t) = 1..(Len(s) + Len(t))
           /\ \A k \in 1..Len(s) : Joined(s, t)[k] = s[k]
           /\ \A k \in 1..Len(t) : Joined(s, t)[Len(s) + k] = t[k]
           /\ DOMAIN t = 1..Len(t) /\ Len(t) \in Nat /\ Len(s) \in Nat
BY ConcatProperties, LenProperties DEF Joined, Lists

Shifted(K, ids, names, L, ids2, names2) ==
    /\ L = {k + 2 : k \in K}
    /\ \A k \in K : ids2[k + 2] = ids[k] /\ names2[k + 2] = names[k]

(* Calls that lie elsewhere rename alike.                                   *)
LEMMA RenamesAlike ==
    ASSUME NEW K, Places(K), NEW ids, NEW names, NEW L, NEW ids2, NEW names2, NEW old, NEW new, NEW new2,
           Renames(new, old, K, ids, names), Renames(new2, old, L, ids2, names2),
           Shifted(K, ids, names, L, ids2, names2)
    PROVE  new = new2
<1>0. K \subseteq Nat
  BY DEF Places
<1>1. L = {k + 2 : k \in K} /\ \A k \in K : ids2[k + 2] = ids[k] /\ names2[k + 2] = names[k]
  BY DEF Shifted
<1>2. PICK D : D = DOMAIN old \cup {ids[k] : k \in K}
  OBVIOUS
<1>3. {ids[k] : k \in K} = {ids2[l] : l \in L}
  <2>1. \A i : i \in {ids[k] : k \in K} => i \in {ids2[l] : l \in L}
    BY <1>1
  <2>2. \A i : i \in {ids2[l] : l \in L} => i \in {ids[k] : k \in K}
    BY <1>1
  <2> QED BY <2>1, <2>2
<1>4. new = [i \in D |-> new[i]] /\ new2 = [i \in D |-> new2[i]]
  BY <1>2, <1>3 DEF Renames
<1>5. ASSUME NEW i \in D PROVE new[i] = new2[i]
  <2>1. CASE \E k \in K : ids[k] = i
    <3>1. PICK k \in K : ids[k] = i /\ LastOne(k, K, ids)
      <4>1. PICK k \in K : ids[k] = i
        BY <2>1
      <4>2. PICK l \in K : ids[l] = ids[k] /\ LastOne(l, K, ids)
        BY RenamesLast
      <4>3. LastOne(l, K, ids) /\ ids[l] = i
        BY <4>1, <4>2
      <4> QED BY <4>3
    <3>2. PICK l \in L : l = k + 2
      BY <1>1
    <3>3. LastOne(l, L, ids2)
      <4>1. ASSUME NEW j \in L, ids2[j] = ids2[l] PROVE j <= l
        <5>1. PICK g \in K : j = g + 2
          BY <1>1
        <5>2. ids[g] = ids[k]
          BY <1>1, <3>2, <4>1, <5>1
        <5>3. g <= k
          BY <3>1, <5>2 DEF LastOne
        <5> QED BY <1>0, <3>2, <5>1, <5>3
      <4> QED BY <4>1 DEF LastOne
    <3>4. new[ids[k]] = names[k] /\ new2[ids2[l]] = names2[l]
      BY <3>1, <3>3 DEF Renames
    <3> QED BY <1>1, <3>1, <3>2, <3>4
  <2>2. CASE \A k \in K : ids[k] # i
    <3>1. \A l \in L : ids2[l] # i
      BY <1>1, <2>2
    <3>2. i \in DOMAIN old
      BY <1>2, <2>2
    <3> QED BY <2>2, <3>1, <3>2 DEF Renames
  <2> QED BY <2>1, <2>2
<1> QED BY <1>4, <1>5

(* The calls of a turn lie so.                                              *)
LEMMA TurnCallsShifted ==
    ASSUME NEW t \in Turn, t.by = "assistant"
    PROVE  /\ Shifted(DOMAIN t.calls, IdsOf(t.calls), NamesOf(t.calls),
                      CallBlocks(PiAnswer(t)), BlockIds(PiAnswer(t)), BlockNames(PiAnswer(t)))
           /\ \A k \in DOMAIN t.calls : NamesOf(t.calls)[k] # ""
<1>1. PICK calls \in Lists(TurnCall), text \in Text : calls = t.calls /\ text = t.text
  BY TurnHas
<1>2. PICK p \in AssistantBlock, q \in AssistantBlock : p = Thought /\ q = ChatText(text)
  BY ThoughtType, ChatTextType
<1>0. PICK a \in Lists(AssistantBlock), b \in Lists(AssistantBlock), c \in Lists(AssistantBlock) :
          a = Single(p) /\ b = More(a, q) /\ c = Each(PiCallOf, calls)
  BY SingleType, MoreType, PiCallOfType, EachType
<1>3. PICK all : a = Single(p) /\ b = More(a, q) /\ c = Each(PiCallOf, calls) /\ all = PiAnswer(t)
  BY <1>0
<1>4. all = Joined(b, c)
  BY <1>1, <1>2, <1>3 DEF PiAnswer
<1>5. Len(b) = 2 /\ b[1] = p /\ b[2] = q
  BY <1>3 DEF More, Single
<1>6. DOMAIN c = DOMAIN calls /\ \A k \in DOMAIN calls : c[k] = PiCallOf[calls[k]]
  BY <1>3, EachElement
<1>7. \A k \in DOMAIN calls : calls[k] \in TurnCall
  BY DEF Lists
<1>8. PICK n \in Nat : DOMAIN c = 1..n /\ DOMAIN all = 1..(2 + n) /\ all[1] = p /\ all[2] = q
                       /\ \A k \in 1..n : all[2 + k] = c[k]
  <2>1. /\ DOMAIN all = 1..(Len(b) + Len(c))
        /\ \A k \in 1..Len(b) : all[k] = b[k]
        /\ \A k \in 1..Len(c) : all[Len(b) + k] = c[k]
        /\ DOMAIN c = 1..Len(c) /\ Len(c) \in Nat
    <3>1. /\ DOMAIN Joined(b, c) = 1..(Len(b) + Len(c))
          /\ \A k \in 1..Len(b) : Joined(b, c)[k] = b[k]
          /\ \A k \in 1..Len(c) : Joined(b, c)[Len(b) + k] = c[k]
          /\ DOMAIN c = 1..Len(c) /\ Len(c) \in Nat
      BY ONLY b \in Lists(AssistantBlock), c \in Lists(AssistantBlock), JoinedElements
    <3> QED BY ONLY <1>4, <3>1
  <2>2. PICK n \in Nat : n = Len(c)
    BY <2>1
  <2>3. DOMAIN all = 1..(2 + n) /\ DOMAIN c = 1..n /\ \A k \in 1..n : all[2 + k] = c[k]
    BY <1>5, <2>1, <2>2
  <2>4. all[1] = p /\ all[2] = q
    BY <1>5, <2>1
  <2> QED BY <2>3, <2>4
<1>9. p.type = "thinking" /\ q.type = "text"
  BY <1>2 DEF Thought, ChatText
<1>10. \A k \in 1..n : all[k + 2].type = "toolCall" /\ all[k + 2].id = calls[k].id /\ all[k + 2].name = calls[k].name
  <2>1. ASSUME NEW k \in 1..n
        PROVE  all[k + 2].type = "toolCall" /\ all[k + 2].id = calls[k].id /\ all[k + 2].name = calls[k].name
    <3>1. k \in DOMAIN calls /\ calls[k] \in TurnCall /\ all[k + 2] = PiCallOf[calls[k]]
      BY <1>6, <1>7, <1>8
    <3> QED BY <3>1, CallAlike
  <2> QED BY <2>1
<1>11. CallBlocks(all) = {k + 2 : k \in 1..n}
  <2>1. ASSUME NEW l \in CallBlocks(all) PROVE l \in {k + 2 : k \in 1..n}
    <3>1. l \in 1..(2 + n) /\ l # 1 /\ l # 2
      BY <1>8, <1>9 DEF CallBlocks
    <3>2. l - 2 \in 1..n /\ l = (l - 2) + 2
      BY <3>1
    <3> QED BY <3>2
  <2>2. ASSUME NEW k \in 1..n PROVE k + 2 \in CallBlocks(all)
    <3>1. k + 2 \in DOMAIN all
      BY <1>8
    <3>2. all[k + 2].type = "toolCall"
      BY <1>10
    <3> QED BY <3>1, <3>2 DEF CallBlocks
  <2> QED BY <2>1, <2>2
<1>12. \A k \in 1..n : BlockIds(all)[k + 2] = IdsOf(calls)[k] /\ BlockNames(all)[k + 2] = NamesOf(calls)[k]
  BY <1>6, <1>8, <1>10, <1>11 DEF BlockIds, BlockNames, IdsOf, NamesOf
<1>13. \A k \in DOMAIN calls : NamesOf(calls)[k] # ""
  BY <1>7, BlanksAssumption DEF NamesOf, TurnCall
<1>14. Shifted(DOMAIN calls, IdsOf(calls), NamesOf(calls), CallBlocks(all), BlockIds(all), BlockNames(all))
  BY <1>6, <1>8, <1>11, <1>12 DEF Shifted
<1> QED BY <1>1, <1>3, <1>13, <1>14

(* Side by side.                                                            *)
NoBlankNames(names) == \A i \in DOMAIN names : names[i] # ""

(* Names stay when they are renamed to names.                               *)
LEMMA RenamesNamed ==
    ASSUME NEW K, Places(K), NEW ids, NEW names, NEW old, NEW new,
           Renames(new, old, K, ids, names), NoBlankNames(old), \A k \in K : names[k] # ""
    PROVE  NoBlankNames(new)
<1>1. DOMAIN new = DOMAIN old \cup {ids[k] : k \in K}
  BY DEF Renames
<1>2. ASSUME NEW i \in DOMAIN new PROVE new[i] # ""
  <2>1. CASE \E k \in K : ids[k] = i
    <3>1. PICK k \in K : ids[k] = i
      BY <2>1
    <3>2. PICK l \in K : ids[l] = ids[k] /\ LastOne(l, K, ids)
      BY RenamesLast
    <3> QED BY <3>1, <3>2, ZenonT(40) DEF Renames
  <2>2. CASE \A k \in K : ids[k] # i
    BY <1>1, <2>2 DEF Renames, NoBlankNames
  <2> QED BY <2>1, <2>2
<1> QED BY <1>2 DEF NoBlankNames

EveryResultAnswers(seq) ==
    \A j \in DOMAIN seq : seq[j].role = "tool" => \E c \in CallsBefore(seq, j) : c[3] = seq[j].id

SideBySide ==
    road = "both" =>
        /\ stage # "failed" /\ toolNames = toolNameById /\ NoBlankNames(toolNames)
        /\ EveryResultAnswers(input) => messages = out

(* What answers with a message more answered before.                        *)
LEMMA AnswersBefore ==
    ASSUME NEW T, NEW seq \in Lists(T), NEW m \in T, EveryResultAnswers(More(seq, m))
    PROVE  /\ EveryResultAnswers(seq)
           /\ m.role = "tool" => \E c \in AllCalls(seq) : c[3] = m.id
<1>1. PICK more, n : more = More(seq, m) /\ n = After(seq)
  OBVIOUS
<1>2. Grows(more, seq, n, m)
  BY <1>1, MoreElements
<1>3. CallsBefore(more, n) = AllCalls(seq) /\ \A j \in DOMAIN seq : CallsBefore(more, j) = CallsBefore(seq, j)
  BY <1>1, CallsMore
<1>4. \A j \in DOMAIN more : more[j].role = "tool" => \E c \in CallsBefore(more, j) : c[3] = more[j].id
  BY <1>1 DEF EveryResultAnswers
<1>5. EveryResultAnswers(seq)
  BY <1>2, <1>3, <1>4 DEF Grows, EveryResultAnswers
<1>6. m.role = "tool" => \E c \in AllCalls(seq) : c[3] = m.id
  BY <1>2, <1>3, <1>4 DEF Grows
<1> QED BY <1>5, <1>6

(* A turn takes both roads side by side.                                    *)
LEMMA StepSideBySide ==
    ASSUME ProxyTypes, PiTypes, NamesRight, SideBySide, NEW t \in Turn, Converse(t)
    PROVE  SideBySide'
<1>0. input \in Lists(ChatMessage) /\ messages \in Lists(OutMessages)
  BY DEF ProxyTypes
<1>1. PICK m \in ChatMessage, n \in PiMessage : m = AsChatMessage(t) /\ n = AsPiMessage(t)
  BY TurnsAreMessages
<1>2. road = "both" /\ road' = "both" /\ ConvertMessage(m) /\ PiConvertMessage(n)
  BY <1>1 DEF Converse
<1>3. stage # "failed" /\ toolNames = toolNameById /\ NoBlankNames(toolNames)
      /\ (EveryResultAnswers(input) => messages = out)
  BY <1>2 DEF SideBySide
<1>4. SUFFICES /\ stage' # "failed" /\ toolNames' = toolNameById' /\ NoBlankNames(toolNames')
               /\ EveryResultAnswers(input') => messages' = out'
  BY DEF SideBySide
<1>5. ~Inconvertible(m)
  BY <1>1, UserAlike, AssistantAlike, ToolAlike, TurnHas
<1>6. ~RefuseMessage(m)
  BY <1>5 DEF RefuseMessage
<1>7. CASE t.by = "user"
  <2>1. m.role = "user" /\ n.role = "user" /\ UserContent(m.content) = PiUserContent(n) /\ PiUserContent(n) # <<>>
    BY <1>1, <1>7, UserAlike
  <2>2. User(m)
    BY <1>2, <1>6, <2>1, SystemDoes, AssistantDoes, ToolResultDoes DEF ConvertMessage
  <2>3. PiUser(n)
    BY <1>2, <2>1, PiAssistantDoes, PiToolResultDoes DEF PiConvertMessage
  <2>4. input' = More(input, m) /\ messages' = More(messages, Message("user", UserContent(m.content)))
        /\ stage' = stage /\ toolNames' = toolNames
    BY <2>2, UserDoes
  <2>5. out' = WithTurn(out, "user", PiUserContent(n)) /\ toolNameById' = toolNameById
    BY <2>3, PiUserDoes
  <2>6. EveryResultAnswers(input') => EveryResultAnswers(input)
    BY <1>0, <2>4, AnswersBefore
  <2> QED BY <1>3, <2>1, <2>4, <2>5, <2>6 DEF WithTurn
<1>8. CASE t.by = "assistant"
  <2>1. m.role = "assistant" /\ n.role = "assistant" /\ AssistantContent(m) = PiAssistantContent(n.blocks)
        /\ m.calls = t.calls /\ n.blocks = PiAnswer(t)
    BY <1>1, <1>8, AssistantAlike
  <2>2. Assistant(m)
    BY <1>2, <1>6, <2>1, SystemDoes, UserDoes, ToolResultDoes DEF ConvertMessage
  <2>3. PiAssistant(n)
    BY <1>2, <2>1, PiUserDoes, PiToolResultDoes DEF PiConvertMessage
  <2>4. input' = More(input, m) /\ messages' = WithTurn(messages, "assistant", AssistantContent(m))
        /\ stage' = stage /\ toolNames' = NamesAfter(m.calls)
    BY <2>2, AssistantDoes
  <2>5. out' = WithTurn(out, "assistant", PiAssistantContent(n.blocks))
    BY <2>3, PiAssistantDoes
  <2>6. EveryResultAnswers(input') => EveryResultAnswers(input)
    BY <1>0, <2>4, AnswersBefore
  <2>p. PICK calls \in Lists(Call) : calls = t.calls
    BY <2>1, ChatMessageHas
  <2>7. PICK K, ids, names, L, ids2, names2, old, new, new2 :
            /\ calls = t.calls /\ K = DOMAIN calls /\ ids = IdsOf(calls) /\ names = NamesOf(calls)
            /\ L = CallBlocks(n.blocks) /\ ids2 = BlockIds(n.blocks) /\ names2 = BlockNames(n.blocks)
            /\ old = toolNames /\ new = toolNames' /\ new2 = toolNameById'
    BY <2>p
  <2>8. Renames(new, old, K, ids, names) /\ Places(K)
    BY <2>1, <2>4, <2>7, ChatCallsRename, PlacesOfList
  <2>9. Renames(new2, old, L, ids2, names2)
    BY <1>3, <2>3, <2>7, PiCallsRename
  <2>10. Shifted(K, ids, names, L, ids2, names2) /\ \A k \in K : names[k] # ""
    BY <1>8, <2>1, <2>7, TurnCallsShifted
  <2>11. new = new2
    BY <2>8, <2>9, <2>10, RenamesAlike
  <2>12. NoBlankNames(new)
    BY <1>3, <2>7, <2>8, <2>10, RenamesNamed
  <2> QED BY <1>3, <2>1, <2>4, <2>5, <2>6, <2>7, <2>11, <2>12
<1>9. CASE t.by = "tool"
  <2>1. /\ m.role = "tool" /\ n.role = "toolResult" /\ m.id = t.id /\ m.name = "" /\ n.id = t.id
        /\ ChatResult(m) = ResultPart(t.id, ChatName(m), "text", t.text)
        /\ PiResult(n) = ResultPart(t.id, ResultName(n), "text", t.text)
    BY <1>1, <1>9, ToolAlike
  <2>2. ToolResult(m)
    BY <1>2, <1>6, <2>1, SystemDoes, UserDoes, AssistantDoes DEF ConvertMessage
  <2>3. PiToolResult(n)
    BY <1>2, <2>1, PiUserDoes, PiAssistantDoes DEF PiConvertMessage
  <2>4. input' = More(input, m) /\ messages' = AddResult(messages, ChatResult(m)) /\ stage' = stage
        /\ toolNames' = toolNames /\ stage = "messages"
    BY <2>2, ToolResultDoes
  <2>5. out' = AddResult(out, PiResult(n)) /\ toolNameById' = toolNameById
    BY <2>3, PiToolResultDoes
  <2>6. ASSUME EveryResultAnswers(input') PROVE messages' = out'
    <3>1. EveryResultAnswers(input) /\ \E c \in AllCalls(input) : c[3] = m.id
      BY <1>0, <2>1, <2>4, <2>6, AnswersBefore
    <3>2. m.id \in DOMAIN toolNames
      BY <2>4, <3>1 DEF NamesRight, Agrees
    <3>3. toolNames[m.id] # ""
      BY <1>3, <3>2 DEF NoBlankNames
    <3>4. ChatName(m) = toolNames[m.id]
      BY <2>1, <3>2, <3>3 DEF ChatName, Known
    <3>5. ResultName(n) = toolNames[m.id]
      BY <1>3, <2>1, <3>2 DEF ResultName
    <3> QED BY <1>3, <2>1, <2>4, <2>5, <3>1, <3>4, <3>5
  <2> QED BY <1>3, <2>4, <2>5, <2>6
<1> QED BY <1>7, <1>8, <1>9, TurnHas

(* Every step does.                                                         *)
LEMMA SideBySideKept ==
    ProxyTypes /\ PiTypes /\ NamesRight /\ SideBySide /\ [Next]_vars => SideBySide'
<1> SUFFICES ASSUME ProxyTypes, PiTypes, NamesRight, SideBySide, [Next]_vars PROVE SideBySide'
  OBVIOUS
<1>1. ASSUME NEW t \in Turns, Converse(t) PROVE SideBySide'
  BY <1>1, StepSideBySide, TurnsAssumption
<1>2. ASSUME EndConversation PROVE SideBySide'
  BY <1>2 DEF EndConversation, EndOfMessages, PiReturn, loopVars, SideBySide
<1>3. ASSUME road # "both", road' = road PROVE SideBySide'
  BY <1>3 DEF SideBySide
<1>4. ASSUME UNCHANGED vars PROVE SideBySide'
  BY <1>4 DEF vars, convertVars, loopVars, piVars, SideBySide
<1> QED BY <1>1, <1>2, <1>3, <1>4 DEF Next

(* A conversation that both roads can carry, in which every result answers  *)
(* a call, becomes the same messages on both: the Proxy                     *)
(* (convert.go:138-195) and the Adapter (index.ts:380-431) do not differ.   *)
THEOREM SameOnBothRoads == Spec => []SameConversation
<1>1. Init => SideBySide
  <2>1. ASSUME Init PROVE stage = "messages" /\ messages = out /\ toolNames = toolNameById /\ DOMAIN toolNames = {}
    BY <2>1 DEF Init, ConvertInit, PiConvertInit
  <2> QED BY <2>1 DEF SideBySide, NoBlankNames
<1>2. ProxyTypes /\ PiTypes /\ NamesRight /\ SideBySide /\ [Next]_vars => SideBySide'
  BY SideBySideKept
<1>3. SideBySide => SameConversation
  BY DEF SideBySide, SameConversation, EveryResultAnswers
<1> QED BY <1>1, <1>2, <1>3, Typed, NamesAnswered, PTL DEF Spec
=============================================================================
