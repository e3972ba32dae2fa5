--------------------------- MODULE PipelineProofs ---------------------------
(***************************************************************************)
(* Theorems about FrameScanner and Pipeline, for bodies of any lines.      *)
(***************************************************************************)
EXTENDS Pipeline, ReducerProofs

(* The frames of FrameScanner, as functions of the lines that were read.    *)
PiecesOf(in) == [j \in DOMAIN in |-> in[j].piece]
GroupedIn(in, i) ==
    \E j \in 1..i : IsSSEField(in[j]) /\ \A k \in j..(i - 1) : in[k].kind # "blank"
OwnIn(in, i) == {j \in 1..i : in[j].kind = "data" /\ \A k \in j..(i - 1) : in[k].kind # "blank"}
DataIn(in, i) == Kept(PiecesOf(in), OwnIn(in, i))
PayloadsOf(in, end) ==
    [i \in DOMAIN in |-> IF in[i].kind = "blank" THEN DataIn(in, i) ELSE <<in[i].piece>>]
    \o (IF end THEN <<DataIn(in, Len(in)), <<in[Len(in)].piece>>>> ELSE <<>>)
IsPayloadOf(in, i) ==
    LET end == Len(in)
    IN  \/ i <= end /\ in[i].kind = (IF GroupedIn(in, i) THEN "blank" ELSE "bare")
        \/ i = end + 1 /\ GroupedIn(in, end) /\ in[end].kind # "blank"
        \/ i = end + 2 /\ GroupedIn(in, end) /\ in[end].kind = "bare"
FrameSetOf(in, end) ==
    {i \in DOMAIN PayloadsOf(in, end) : IsPayloadOf(in, i) /\ ~IsSilent(Joined(PayloadsOf(in, end)[i]))}
FramesOf(in, end) == Kept(PayloadsOf(in, end), FrameSetOf(in, end))
LineFrames(in) == FramesOf(in, FALSE)
EndFrames(in) == FramesOf(in, TRUE)

(* They are the frames that FrameScanner picks.                             *)
LEMMA FramesAreOfTheInput ==
    eof \in BOOLEAN => Frames = IF eof THEN EndFrames(input) ELSE LineFrames(input)
BY DEF Frames, LineFrames, EndFrames, FramesOf, FrameSetOf, IsPayload, IsPayloadOf, Payloads, PayloadsOf, DataUpTo, DataIn,
       OwnIn, PiecesOf, Grouped, GroupedIn

(* A group that is open behind the last line, and the data lines it has.    *)
OpenIn(in) == \E j \in 1..Len(in) : IsSSEField(in[j]) /\ \A k \in j..Len(in) : in[k].kind # "blank"
GatheredIn(in) == {j \in 1..Len(in) : in[j].kind = "data" /\ \A k \in j..Len(in) : in[k].kind # "blank"}

Read2(in, line, n, in2) ==
    /\ in \in Seq(Line) /\ line \in Line /\ n = Len(in) /\ in2 = Append(in, line)

(* One more line is one more position.                                      *)
LEMMA LineRead ==
    ASSUME NEW in, NEW line, NEW n, NEW in2, Read2(in, line, n, in2)
    PROVE  /\ n \in Nat /\ in2 \in Seq(Line) /\ Len(in2) = n + 1
           /\ DOMAIN in = 1..n /\ DOMAIN in2 = 1..(n + 1)
           /\ in2[n + 1] = line /\ \A i \in 1..n : in2[i] = in[i]
           /\ \A i \in 1..n : in[i] \in Line
BY ElementOfSeq DEF Read2

(* A line changes nothing about those before it.                            *)
LEMMA EarlierLinesKept ==
    ASSUME NEW in, NEW line, NEW n, NEW in2, Read2(in, line, n, in2), NEW i \in 1..n
    PROVE  /\ GroupedIn(in2, i) <=> GroupedIn(in, i)
           /\ OwnIn(in2, i) = OwnIn(in, i)
           /\ DataIn(in2, i) = DataIn(in, i)
<1>1. /\ n \in Nat /\ DOMAIN in = 1..n /\ DOMAIN in2 = 1..(n + 1)
      /\ \A j \in 1..n : in2[j] = in[j]
  BY LineRead
<1>2. GroupedIn(in2, i) <=> GroupedIn(in, i)
  BY <1>1 DEF GroupedIn
<1>3. OwnIn(in2, i) = OwnIn(in, i)
  <2>1. \A j \in 1..i : /\ in2[j].kind = in[j].kind
                        /\ \A k \in j..(i - 1) : in2[k].kind = in[k].kind
    BY <1>1
  <2>2. QED
    BY <2>1 DEF OwnIn
<1>4. OwnIn(in, i) \in SUBSET (1..n) /\ \A j \in OwnIn(in, i) : PiecesOf(in2)[j] = PiecesOf(in)[j]
  BY <1>1 DEF OwnIn, PiecesOf
<1>5. Kept(PiecesOf(in2), OwnIn(in, i)) = Kept(PiecesOf(in), OwnIn(in, i))
  BY <1>1, <1>4, KeptStays
<1>6. QED
  BY <1>2, <1>3, <1>5 DEF DataIn

(* What the next line makes of the group that is open.                      *)
LEMMA GroupGrows ==
    ASSUME NEW in, NEW line, NEW n, NEW in2, Read2(in, line, n, in2)
    PROVE  /\ GroupedIn(in2, n + 1) <=> OpenIn(in) \/ IsSSEField(line)
           /\ OpenIn(in2) <=> GroupedIn(in2, n + 1) /\ line.kind # "blank"
           /\ OwnIn(in2, n + 1) = GatheredIn(in) \cup {j \in {n + 1} : line.kind = "data"}
           /\ line.kind = "blank" => GatheredIn(in2) = {}
           /\ line.kind # "blank" => GatheredIn(in2) = OwnIn(in2, n + 1)
<1>1. /\ n \in Nat /\ n = Len(in) /\ Len(in2) = n + 1 /\ in2[n + 1] = line
      /\ \A j \in 1..n : in2[j] = in[j]
  BY LineRead DEF Read2
<1>2. \A j \in 1..n : j..((n + 1) - 1) = j..n
  BY <1>1
<1>3. \A j \in 1..n : (\A k \in j..n : in2[k].kind # "blank") <=> (\A k \in j..n : in[k].kind # "blank")
  BY <1>1
<1>4. (n + 1)..((n + 1) - 1) = {}
  BY <1>1
<1>5. GroupedIn(in2, n + 1) <=> OpenIn(in) \/ IsSSEField(line)
  <2>1. ASSUME GroupedIn(in2, n + 1) PROVE OpenIn(in) \/ IsSSEField(line)
    <3>1. PICK j \in 1..(n + 1) :
             IsSSEField(in2[j]) /\ \A k \in j..((n + 1) - 1) : in2[k].kind # "blank"
      BY <2>1 DEF GroupedIn
    <3>2. CASE j = n + 1
      BY <1>1, <3>1, <3>2
    <3>3. CASE j # n + 1
      <4>1. j \in 1..n
        BY <1>1, <3>3
      <4>2. IsSSEField(in[j]) /\ \A k \in j..n : in[k].kind # "blank"
        BY <1>1, <1>2, <1>3, <3>1, <4>1
      <4>3. QED
        BY <1>1, <4>1, <4>2 DEF OpenIn
    <3>4. QED
      BY <3>2, <3>3
  <2>2. ASSUME OpenIn(in) PROVE GroupedIn(in2, n + 1)
    <3>1. PICK j \in 1..n : IsSSEField(in[j]) /\ \A k \in j..n : in[k].kind # "blank"
      BY <1>1, <2>2 DEF OpenIn
    <3>2. IsSSEField(in2[j]) /\ \A k \in j..((n + 1) - 1) : in2[k].kind # "blank"
      BY <1>1, <1>2, <1>3, <3>1
    <3>3. QED
      BY <1>1, <3>2 DEF GroupedIn
  <2>3. ASSUME IsSSEField(line) PROVE GroupedIn(in2, n + 1)
    BY <1>1, <1>4, <2>3 DEF GroupedIn
  <2>4. QED
    BY <2>1, <2>2, <2>3
<1>6. OpenIn(in2) <=> GroupedIn(in2, n + 1) /\ line.kind # "blank"
  <2>1. \A j \in 1..(n + 1) :
           (\A k \in j..(n + 1) : in2[k].kind # "blank")
           <=> (\A k \in j..((n + 1) - 1) : in2[k].kind # "blank") /\ line.kind # "blank"
    BY <1>1
  <2>2. QED
    BY <1>1, <2>1 DEF OpenIn, GroupedIn
<1>7. ASSUME NEW j
      PROVE  j \in OwnIn(in2, n + 1) <=> j \in GatheredIn(in) \/ (j = n + 1 /\ line.kind = "data")
  <2>1. CASE j \in 1..n
    <3>1. j # n + 1 /\ j \in 1..(n + 1)
      BY <1>1, <2>1
    <3>2. j \in OwnIn(in2, n + 1) <=>
             in2[j].kind = "data" /\ \A k \in j..((n + 1) - 1) : in2[k].kind # "blank"
      BY <3>1 DEF OwnIn
    <3>3. j \in GatheredIn(in) <=> in[j].kind = "data" /\ \A k \in j..n : in[k].kind # "blank"
      BY <1>1, <2>1 DEF GatheredIn
    <3>4. QED
      BY <1>1, <1>2, <1>3, <2>1, <3>1, <3>2, <3>3
  <2>2. CASE j = n + 1
    <3>1. j \in 1..(n + 1) /\ j \notin 1..n
      BY <1>1, <2>2
    <3>2. j \in OwnIn(in2, n + 1) <=> line.kind = "data"
      BY <1>1, <1>4, <2>2, <3>1 DEF OwnIn
    <3>3. j \notin GatheredIn(in)
      BY <1>1, <3>1 DEF GatheredIn
    <3>4. QED
      BY <2>2, <3>2, <3>3
  <2>3. CASE j \notin 1..(n + 1)
    <3>1. j \notin 1..n /\ j # n + 1
      BY <1>1, <2>3
    <3>2. QED
      BY <1>1, <2>3, <3>1 DEF OwnIn, GatheredIn
  <2>4. QED
    BY <1>1, <2>1, <2>2, <2>3
<1>8. ASSUME NEW j
      PROVE  j \in GatheredIn(in2) <=> j \in OwnIn(in2, n + 1) /\ line.kind # "blank"
  <2>1. j \in 1..(n + 1) =>
           ((\A k \in j..(n + 1) : in2[k].kind # "blank")
            <=> (\A k \in j..((n + 1) - 1) : in2[k].kind # "blank") /\ line.kind # "blank")
    BY <1>1
  <2>2. QED
    BY <1>1, <2>1 DEF GatheredIn, OwnIn
<1>9. OwnIn(in2, n + 1) = GatheredIn(in) \cup {j \in {n + 1} : line.kind = "data"}
  BY <1>7
<1>10. /\ line.kind = "blank" => GatheredIn(in2) = {}
       /\ line.kind # "blank" => GatheredIn(in2) = OwnIn(in2, n + 1)
  BY <1>8
<1>11. QED
  BY <1>5, <1>6, <1>9, <1>10

(* The lists that frames are picked from are of sequences of pieces.        *)
LEMMA PayloadTypes ==
    ASSUME NEW in \in Seq(Line)
    PROVE  /\ PiecesOf(in) \in Seq(Piece) /\ DOMAIN PiecesOf(in) = DOMAIN in
           /\ \A i \in 1..Len(in) : OwnIn(in, i) \in SUBSET DOMAIN in /\ DataIn(in, i) \in Seq(Piece)
           /\ \A i \in 1..Len(in) : <<in[i].piece>> \in Seq(Piece)
<1>1. Len(in) \in Nat /\ DOMAIN in = 1..Len(in) /\ \A i \in 1..Len(in) : in[i].piece \in Piece
  <2>1. \A i \in 1..Len(in) : in[i] \in Line
    BY ElementOfSeq
  <2>2. \A line \in Line : line.piece \in Piece
    BY DEF Line, Space, Piece
  <2>3. QED
    BY <2>1, <2>2
<1>2. PiecesOf(in) \in [1..Len(in) -> Piece]
  BY <1>1 DEF PiecesOf
<1>3. PiecesOf(in) \in Seq(Piece) /\ DOMAIN PiecesOf(in) = DOMAIN in
  BY <1>1, <1>2, FunctionIsSeq
<1>4. ASSUME NEW i \in 1..Len(in)
      PROVE  OwnIn(in, i) \in SUBSET DOMAIN in /\ DataIn(in, i) \in Seq(Piece)
  <2>1. OwnIn(in, i) \in SUBSET DOMAIN PiecesOf(in)
    BY <1>1, <1>3 DEF OwnIn
  <2>2. QED
    BY <1>3, <2>1, KeptIsTheSelection DEF DataIn
<1>5. QED
  BY <1>1, <1>3, <1>4, OneElement

(* The data that the next line completes or adds to.                        *)
LEMMA DataGrows ==
    ASSUME NEW in, NEW line, NEW n, NEW in2, Read2(in, line, n, in2)
    PROVE  /\ GatheredIn(in) \in SUBSET (1..n)
           /\ Kept(PiecesOf(in), GatheredIn(in)) \in Seq(Piece)
           /\ DataIn(in2, n + 1) = IF line.kind = "data"
                                   THEN Append(Kept(PiecesOf(in), GatheredIn(in)), line.piece)
                                   ELSE Kept(PiecesOf(in), GatheredIn(in))
           /\ Kept(PiecesOf(in2), GatheredIn(in2)) = IF line.kind = "blank" THEN <<>> ELSE DataIn(in2, n + 1)
<1>1. /\ n \in Nat /\ n = Len(in) /\ in \in Seq(Line) /\ in2 \in Seq(Line) /\ Len(in2) = n + 1
      /\ in2[n + 1] = line /\ DOMAIN in = 1..n /\ DOMAIN in2 = 1..(n + 1)
      /\ \A j \in 1..n : in2[j] = in[j]
  BY LineRead DEF Read2
<1>2. PICK S : S = GatheredIn(in)
  OBVIOUS
<1>3. S \in SUBSET (1..n)
  BY <1>1, <1>2 DEF GatheredIn
<1>4. /\ PiecesOf(in) \in Seq(Piece) /\ PiecesOf(in2) \in Seq(Piece)
      /\ DOMAIN PiecesOf(in) = 1..n /\ PiecesOf(in2)[n + 1] = line.piece
      /\ PiecesOf(in2)[n + 1] \in Piece
      /\ \A j \in S : PiecesOf(in2)[j] = PiecesOf(in)[j]
  <2>1. /\ PiecesOf(in) \in Seq(Piece) /\ PiecesOf(in2) \in Seq(Piece)
        /\ DOMAIN PiecesOf(in) = 1..n /\ DOMAIN PiecesOf(in2) = 1..(n + 1)
    BY <1>1, PayloadTypes
  <2>2. n + 1 \in 1..(n + 1)
    BY <1>1
  <2>3. PiecesOf(in2)[n + 1] \in Piece
    BY <1>1, <2>1, <2>2, ElementOfSeq, LenProperties
  <2>4. PiecesOf(in2)[n + 1] = line.piece /\ \A j \in S : PiecesOf(in2)[j] = PiecesOf(in)[j]
    BY <1>1, <1>3 DEF PiecesOf
  <2>5. QED
    BY <2>1, <2>3, <2>4
<1>5. OwnIn(in2, n + 1) = S \cup {j \in {n + 1} : line.kind = "data"}
  BY <1>2, GroupGrows
<1>6. Kept(PiecesOf(in), S) \in Seq(Piece)
  BY <1>3, <1>4, KeptIsTheSelection
<1>7. CASE line.kind = "data"
  <2>1. OwnIn(in2, n + 1) = S \cup {n + 1}
    BY <1>5, <1>7
  <2>3. S \in SUBSET DOMAIN PiecesOf(in) /\ Len(PiecesOf(in)) = n
    BY <1>1, <1>3, <1>4, LenProperties
  <2>4. Kept(PiecesOf(in2), S \cup {n + 1}) = Append(Kept(PiecesOf(in), S), PiecesOf(in2)[n + 1])
    BY <1>4, <2>3, KeptGrows
  <2>5. Kept(PiecesOf(in2), S \cup {n + 1}) = Append(Kept(PiecesOf(in), S), line.piece)
    BY <1>4, <2>4
  <2>6. DataIn(in2, n + 1) = Append(Kept(PiecesOf(in), S), line.piece)
    BY <2>1, <2>5 DEF DataIn
  <2>7. GatheredIn(in2) = OwnIn(in2, n + 1)
    BY <1>7, GroupGrows
  <2>8. QED
    BY <1>2, <1>3, <1>6, <1>7, <2>6, <2>7 DEF DataIn
<1>8. CASE line.kind # "data"
  <2>1. OwnIn(in2, n + 1) = S
    BY <1>5, <1>8
  <2>2. Kept(PiecesOf(in2), S) = Kept(PiecesOf(in), S)
    BY <1>1, <1>3, <1>4, KeptStays
  <2>3. DataIn(in2, n + 1) = Kept(PiecesOf(in), S)
    BY <2>1, <2>2 DEF DataIn
  <2>4. CASE line.kind = "blank"
    <3>1. GatheredIn(in2) = {}
      BY <2>4, GroupGrows
    <3>2. Kept(PiecesOf(in2), {}) = <<>>
      BY NothingKept
    <3>3. QED
      BY <1>2, <1>3, <1>6, <1>8, <2>3, <2>4, <3>1, <3>2
  <2>5. CASE line.kind # "blank"
    <3>1. GatheredIn(in2) = OwnIn(in2, n + 1)
      BY <2>5, GroupGrows
    <3>2. QED
      BY <1>2, <1>3, <1>6, <1>8, <2>3, <2>5, <3>1 DEF DataIn
  <2>6. QED
    BY <2>4, <2>5
<1>9. QED
  BY <1>7, <1>8

(* A payload, and F with one behind it if it is complete and not silent.    *)
Payload == Seq(Piece)
Plus(F, P, isPayload) == IF isPayload /\ ~IsSilent(Joined(P)) THEN Append(F, P) ELSE F
With(F, P) == Plus(F, P, TRUE)
Alone(line) == <<line.piece>>

(* A payload at the next place is added to the frames.                      *)
LEMMA PayloadSelected ==
    ASSUME NEW T, NEW m \in Nat, NEW seq \in Seq(T), Len(seq) = m,
           NEW S \in SUBSET DOMAIN seq, NEW x \in T,
           NEW seq2, \A i \in S : seq2[i] = seq[i], seq2[m + 1] = x,
           NEW b, NEW S2, \A i : i \in S2 <=> i \in S \/ (i = m + 1 /\ b /\ ~IsSilent(Joined(x)))
    PROVE  Kept(seq2, S2) = Plus(Kept(seq, S), x, b)
<1>0. DOMAIN seq = 1..m
  BY LenProperties
<1>a. Kept(seq2, S) = Kept(seq, S)
  BY <1>0, KeptStays
<1>b. Kept(seq2, S \cup {Len(seq) + 1}) = Append(Kept(seq, S), seq2[Len(seq) + 1])
  BY KeptGrows
<1>1. /\ Kept(seq2, S) = Kept(seq, S)
      /\ Kept(seq2, S \cup {m + 1}) = Append(Kept(seq, S), x)
  BY <1>a, <1>b
<1>2. CASE b /\ ~IsSilent(Joined(x))
  <2>1. S2 = S \cup {m + 1}
    BY <1>2
  <2>2. QED
    BY <1>1, <1>2, <2>1 DEF Plus
<1>3. CASE ~(b /\ ~IsSilent(Joined(x)))
  <2>1. S2 = S
    BY <1>3
  <2>2. QED
    BY <1>1, <1>3, <2>1 DEF Plus
<1>4. QED
  BY <1>2, <1>3

(* The payloads of lines that were read, without those of the end.          *)
LEMMA LinePayloads ==
    ASSUME NEW in \in Seq(Line)
    PROVE  /\ PayloadsOf(in, FALSE) \in Seq(Payload) /\ Len(PayloadsOf(in, FALSE)) = Len(in)
           /\ DOMAIN PayloadsOf(in, FALSE) = 1..Len(in)
           /\ \A i \in 1..Len(in) : PayloadsOf(in, FALSE)[i] =
                 IF in[i].kind = "blank" THEN DataIn(in, i) ELSE <<in[i].piece>>
<1> DEFINE val(i) == IF in[i].kind = "blank" THEN DataIn(in, i) ELSE <<in[i].piece>>
           list == [i \in 1..Len(in) |-> val(i)]
<1>1. DOMAIN in = 1..Len(in) /\ Len(in) \in Nat
  BY LenProperties
<1>2. \A i \in 1..Len(in) : val(i) \in Payload
  BY PayloadTypes DEF Payload
<1>3. list \in [1..Len(in) -> Payload] /\ \A i \in 1..Len(in) : list[i] = val(i)
  BY <1>2
<1>4. list \in Seq(Payload) /\ Len(list) = Len(in)
  BY <1>1, <1>3, FunctionIsSeq
<1>5. PayloadsOf(in, FALSE) = list \o <<>>
  BY <1>1 DEF PayloadsOf
<1> HIDE DEF list
<1>6. PayloadsOf(in, FALSE) = list
  BY <1>4, <1>5, ConcatEmptySeq
<1>7. QED
  BY <1>1, <1>3, <1>4, <1>6, LenProperties

(* A line adds the payload it completes to the frames.                      *)
LEMMA FramesAfterLine ==
    ASSUME NEW in, NEW line, NEW n, NEW in2, Read2(in, line, n, in2)
    PROVE  /\ LineFrames(in) \in Seq(Payload)
           /\ FrameSetOf(in, FALSE) \in SUBSET DOMAIN PayloadsOf(in, FALSE)
           /\ LineFrames(in2) =
                 Plus(LineFrames(in),
                      IF line.kind = "blank" THEN DataIn(in2, n + 1) ELSE <<line.piece>>,
                      line.kind = (IF GroupedIn(in2, n + 1) THEN "blank" ELSE "bare"))
<1> DEFINE x == IF line.kind = "blank" THEN DataIn(in2, n + 1) ELSE <<line.piece>>
           b == line.kind = (IF GroupedIn(in2, n + 1) THEN "blank" ELSE "bare")
<1>1. /\ n \in Nat /\ n = Len(in) /\ in \in Seq(Line) /\ in2 \in Seq(Line) /\ Len(in2) = n + 1
      /\ in2[n + 1] = line /\ DOMAIN in = 1..n /\ DOMAIN in2 = 1..(n + 1)
      /\ \A j \in 1..n : in2[j] = in[j]
  BY LineRead DEF Read2
<1>2. PICK seq, seq2 : seq = PayloadsOf(in, FALSE) /\ seq2 = PayloadsOf(in2, FALSE)
  OBVIOUS
<1>3. /\ seq \in Seq(Payload) /\ Len(seq) = n /\ DOMAIN seq = 1..n
      /\ \A i \in 1..n : seq[i] = IF in[i].kind = "blank" THEN DataIn(in, i) ELSE <<in[i].piece>>
  BY <1>1, <1>2, LinePayloads
<1>4. /\ seq2 \in Seq(Payload) /\ Len(seq2) = n + 1 /\ DOMAIN seq2 = 1..(n + 1)
      /\ \A i \in 1..(n + 1) : seq2[i] = IF in2[i].kind = "blank" THEN DataIn(in2, i) ELSE <<in2[i].piece>>
  BY <1>1, <1>2, LinePayloads
<1>5. ASSUME NEW i \in 1..n PROVE seq2[i] = seq[i]
  <2>1. DataIn(in2, i) = DataIn(in, i) /\ in2[i] = in[i] /\ i \in 1..(n + 1)
    BY <1>1, EarlierLinesKept
  <2>2. QED
    BY <1>3, <1>4, <2>1
<1>6. n + 1 \in 1..(n + 1)
  BY <1>1
<1>7. seq2[n + 1] = x
  BY <1>1, <1>4, <1>6
<1>8. x \in Payload
  BY <1>4, <1>6, <1>7, ElementOfSeq
<1>9. \A i \in 1..n : IsPayloadOf(in2, i) <=> IsPayloadOf(in, i)
  <2>1. ASSUME NEW i \in 1..n PROVE IsPayloadOf(in2, i) <=> IsPayloadOf(in, i)
    <3>1. GroupedIn(in2, i) <=> GroupedIn(in, i)
      BY EarlierLinesKept
    <3>2. i <= n /\ i <= n + 1 /\ i # n + 1 /\ i # n + 2 /\ i # (n + 1) + 1 /\ i # (n + 1) + 2
      BY <1>1
    <3>3. in2[i].kind = in[i].kind
      BY <1>1
    <3>4. QED
      BY <1>1, <3>1, <3>2, <3>3 DEF IsPayloadOf
  <2>2. QED
    BY <2>1
<1>10. IsPayloadOf(in2, n + 1) <=> b
  BY <1>1 DEF IsPayloadOf
<1> HIDE DEF x, b
<1>11. PICK S, S2 : S = FrameSetOf(in, FALSE) /\ S2 = FrameSetOf(in2, FALSE)
  OBVIOUS
<1>12. \A i : i \in S <=> i \in 1..n /\ IsPayloadOf(in, i) /\ ~IsSilent(Joined(seq[i]))
  BY <1>2, <1>3, <1>11 DEF FrameSetOf
<1>13. \A i : i \in S2 <=> i \in 1..(n + 1) /\ IsPayloadOf(in2, i) /\ ~IsSilent(Joined(seq2[i]))
  BY <1>2, <1>4, <1>11 DEF FrameSetOf
<1>14. \A i : i \in 1..(n + 1) <=> i \in 1..n \/ i = n + 1
  BY <1>1
<1>15. \A i : i \in S2 <=> i \in S \/ (i = n + 1 /\ b /\ ~IsSilent(Joined(x)))
  <2>1. n + 1 \notin 1..n
    BY <1>1
  <2>2. QED
    BY <1>5, <1>7, <1>9, <1>10, <1>12, <1>13, <1>14, <2>1
<1>16. S \in SUBSET DOMAIN seq
  BY <1>3, <1>12
<1>17. \A i \in S : seq2[i] = seq[i]
  BY <1>5, <1>12
<1>18. Kept(seq2, S2) = Plus(Kept(seq, S), x, b)
  BY <1>1, <1>3, <1>7, <1>8, <1>15, <1>16, <1>17, PayloadSelected
<1>19. Kept(seq, S) \in Seq(Payload)
  BY <1>3, <1>16, KeptIsTheSelection
<1>20. QED
  BY <1>2, <1>11, <1>16, <1>18, <1>19 DEF FramesOf, LineFrames, EndFrames, x, b

(* The end of the body adds the group it closes, and then a bare line that  *)
(* was passed over in that group.                                           *)
LEMMA FramesAtEnd ==
    ASSUME NEW in, NEW line, NEW n, NEW in2, Read2(in, line, n, in2)
    PROVE  /\ OpenIn(in2) /\ line.kind = "bare" =>
                 EndFrames(in2) =
                    With(With(LineFrames(in2), DataIn(in2, n + 1)), Alone(line))
           /\ OpenIn(in2) /\ line.kind # "bare" =>
                 EndFrames(in2) = With(LineFrames(in2), DataIn(in2, n + 1))
           /\ ~OpenIn(in2) => EndFrames(in2) = LineFrames(in2)
<1>1. /\ n \in Nat /\ in2 \in Seq(Line) /\ Len(in2) = n + 1 /\ in2[n + 1] = line
  BY LineRead
<1>0. PICK m \in Nat : m = n + 1
  BY <1>1
<1>2. PICK group, tail : m = n + 1 /\ group = DataIn(in2, m) /\ tail = Alone(line)
  BY <1>0
<1> DEFINE b1 == OpenIn(in2)
           b2 == GroupedIn(in2, m) /\ line.kind = "bare"
<1>3. /\ group \in Payload /\ tail \in Payload /\ b1 \in BOOLEAN /\ b2 \in BOOLEAN
  <2>1. m \in 1..Len(in2)
    BY <1>1, <1>2
  <2>2. QED
    BY <1>1, <1>2, <2>1, PayloadTypes DEF OpenIn, GroupedIn, Payload, Alone, b1, b2
<1> HIDE DEF b1, b2
<1>4. PICK seq : /\ seq = PayloadsOf(in2, FALSE) /\ seq \in Seq(Payload) /\ Len(seq) = m
                 /\ DOMAIN seq = 1..m
  BY <1>1, <1>2, LinePayloads
<1>5. PICK seq2 : seq2 = Append(seq, group)
  OBVIOUS
<1>6. /\ seq2 \in Seq(Payload) /\ Len(seq2) = m + 1 /\ seq2[m + 1] = group
      /\ \A i \in 1..m : seq2[i] = seq[i]
  <2>1. group \in Payload /\ seq \in Seq(Payload) /\ Len(seq) = m
    BY <1>3, <1>4
  <2>2. /\ Append(seq, group) \in Seq(Payload) /\ Len(Append(seq, group)) = Len(seq) + 1
        /\ Append(seq, group)[Len(seq) + 1] = group
        /\ \A i \in 1..Len(seq) : Append(seq, group)[i] = seq[i]
    BY <2>1, OneMore
  <2>3. QED
    BY <1>5, <2>1, <2>2
<1>7. PICK seq3 : seq3 = PayloadsOf(in2, TRUE)
  OBVIOUS
<1>8. seq3 = Append(seq2, tail)
  <2>1. PICK list : list = [i \in DOMAIN in2 |->
                              IF in2[i].kind = "blank" THEN DataIn(in2, i) ELSE <<in2[i].piece>>]
    OBVIOUS
  <2>2. seq = list \o <<>>
    BY <1>4, <2>1 DEF PayloadsOf, Alone
  <2>3. list \in Seq(Payload)
    <3>1. DOMAIN in2 = 1..m
      BY <1>1, <1>2, LenProperties
    <3>2. \A i \in 1..m : list[i] \in Payload
      BY <1>1, <1>2, <2>1, <3>1, PayloadTypes DEF Payload
    <3>3. list \in [1..m -> Payload]
      BY <2>1, <3>1, <3>2
    <3>4. QED
      BY <3>3, FunctionIsSeq
  <2>4. seq = list
    BY <2>2, <2>3
  <2>5. seq3 = list \o <<group, tail>>
    BY <1>1, <1>2, <1>7, <2>1 DEF PayloadsOf, Alone
  <2>6. seq \in Seq(Payload) /\ group \in Payload /\ tail \in Payload
    BY <1>3, <1>4
  <2>7. seq \o <<group, tail>> = Append(Append(seq, group), tail)
    BY <2>6, TwoMore
  <2>8. QED
    BY <1>5, <2>4, <2>5, <2>7
<1>9. /\ seq3 \in Seq(Payload) /\ Len(seq3) = m + 2 /\ seq3[m + 2] = tail /\ seq3[m + 1] = group
      /\ \A i \in 1..(m + 1) : seq3[i] = seq2[i]
  BY <1>3, <1>6, <1>8, OneMore
<1>10. DOMAIN seq3 = 1..(m + 2) /\ DOMAIN seq2 = 1..(m + 1)
  BY <1>6, <1>9, LenProperties
<1>11. /\ IsPayloadOf(in2, m + 1) <=> b1
       /\ IsPayloadOf(in2, m + 2) <=> b2
  <2>1. OpenIn(in2) <=> GroupedIn(in2, m) /\ line.kind # "blank"
    BY <1>2, GroupGrows
  <2>2. ~(m + 1 <= m) /\ ~(m + 2 <= m) /\ m + 1 # m + 2
    OBVIOUS
  <2>3. Len(in2) = m /\ in2[m] = line
    BY <1>1, <1>2
  <2>4. QED
    BY <1>2, <2>1, <2>2, <2>3 DEF IsPayloadOf, b1, b2
<1>12. PICK S, S2, S3 : /\ S = FrameSetOf(in2, FALSE) /\ S3 = FrameSetOf(in2, TRUE)
                        /\ S2 = S \cup {i \in {m + 1} : b1 /\ ~IsSilent(Joined(group))}
  OBVIOUS
<1>13. \A i : i \in S <=> i \in 1..m /\ IsPayloadOf(in2, i) /\ ~IsSilent(Joined(seq[i]))
  BY <1>4, <1>12 DEF FrameSetOf
<1>14. \A i : i \in S3 <=> i \in 1..(m + 2) /\ IsPayloadOf(in2, i) /\ ~IsSilent(Joined(seq3[i]))
  BY <1>7, <1>10, <1>12 DEF FrameSetOf
<1>15. \A i : i \in 1..(m + 2) <=> i \in 1..m \/ i = m + 1 \/ i = m + 2
  OBVIOUS
<1>16. \A i \in 1..m : seq3[i] = seq[i] /\ i # m + 1 /\ i # m + 2 /\ i \in 1..(m + 1)
  BY <1>6, <1>9
<1>17. \A i : i \in S2 <=> i \in S \/ (i = m + 1 /\ b1 /\ ~IsSilent(Joined(group)))
  BY <1>12
<1>18. \A i : i \in S3 <=> i \in S2 \/ (i = m + 2 /\ b2 /\ ~IsSilent(Joined(tail)))
  <2>1. m + 1 # m + 2
    OBVIOUS
  <2>2. QED
    BY <1>9, <1>11, <1>13, <1>14, <1>15, <1>16, <1>17, <2>1
<1>19. S \in SUBSET DOMAIN seq /\ S2 \in SUBSET DOMAIN seq2
  <2>1. \A i \in S : i \in 1..m
    BY <1>13
  <2>2. \A i \in S2 : i \in 1..(m + 1)
    BY <1>16, <1>17, <2>1
  <2>3. QED
    BY <1>4, <1>10, <2>1, <2>2
<1>20. Kept(seq2, S2) = Plus(Kept(seq, S), group, b1)
  <2>1. \A i \in S : seq2[i] = seq[i]
    BY <1>6, <1>13
  <2>2. m \in Nat /\ seq \in Seq(Payload) /\ Len(seq) = m /\ seq2[m + 1] = group /\ group \in Payload
    BY <1>3, <1>4, <1>6
  <2>3. QED
    BY <1>17, <1>19, <2>1, <2>2, PayloadSelected
<1>21. Kept(seq3, S3) = Plus(Kept(seq2, S2), tail, b2)
  <2>1. \A i \in S2 : seq3[i] = seq2[i]
    BY <1>9, <1>10, <1>19
  <2>2. PICK k \in Nat : k = m + 1
    OBVIOUS
  <2>3. Len(seq2) = k /\ seq3[k + 1] = tail
    BY <1>6, <1>9, <2>2
  <2>4. \A i : i \in S3 <=> i \in S2 \/ (i = k + 1 /\ b2 /\ ~IsSilent(Joined(tail)))
    BY <1>18, <2>2
  <2>5. QED
    BY <1>3, <1>6, <1>19, <2>1, <2>3, <2>4, PayloadSelected
<1>22. PICK F1, F2 : /\ F1 = LineFrames(in2) /\ F2 = EndFrames(in2)
                     /\ F1 = Kept(seq, S) /\ F2 = Kept(seq3, S3)
  BY <1>4, <1>7, <1>12 DEF FramesOf, LineFrames, EndFrames
<1>23. /\ b1 /\ b2 => F2 = With(With(F1, group), tail)
       /\ b1 /\ ~b2 => F2 = With(F1, group)
       /\ ~b1 /\ ~b2 => F2 = F1
  BY <1>20, <1>21, <1>22 DEF Plus, With
<1>24. /\ b1 <=> OpenIn(in2)
       /\ OpenIn(in2) => (b2 <=> line.kind = "bare")
       /\ ~OpenIn(in2) => ~b2
  <2>1. OpenIn(in2) <=> GroupedIn(in2, m) /\ line.kind # "blank"
    BY <1>2, GroupGrows
  <2>2. QED
    BY <1>2, <2>1 DEF b1, b2
<1>25. QED
  BY <1>2, <1>22, <1>23, <1>24

-----------------------------------------------------------------------------
(* What decoding a payload does.                                            *)
Receivable == Docs \cup {NullEvent}
Deliveries == Seq(Receivable)
ScanState == [delivered : Deliveries, status : {"scanning", "malformed", "refused"}]

(* A payload is at most one event.                                          *)
LEMMA OneEventAtMost ==
    ASSUME NEW pieces, NEW d \in EventsOf(pieces), NEW e \in EventsOf(pieces)
    PROVE  d = e /\ d \in Receivable
<1>1. \/ d \in Docs /\ IsDocument(pieces, d)
      \/ d = NullEvent /\ pieces = <<[part |-> "null", doc |-> NoDoc]>>
  BY DEF EventsOf
<1>2. \/ e \in Docs /\ IsDocument(pieces, e)
      \/ e = NullEvent /\ pieces = <<[part |-> "null", doc |-> NoDoc]>>
  BY DEF EventsOf
<1>3. ASSUME NEW c, IsDocument(pieces, c)
      PROVE  pieces[1].doc = c /\ pieces[1].part # "null"
  <2>1. CASE pieces = <<[part |-> "whole", doc |-> c]>>
    BY <2>1
  <2>2. CASE pieces = <<[part |-> "head", doc |-> c], [part |-> "tail", doc |-> c]>>
    BY <2>2
  <2>3. QED
    BY <1>3, <2>1, <2>2 DEF IsDocument
<1>4. pieces = <<[part |-> "null", doc |-> NoDoc]>> => pieces[1].part = "null"
  OBVIOUS
<1>5. QED
  BY <1>1, <1>2, <1>3, <1>4 DEF Receivable

(* The three ways in which Emit goes.                                       *)
LEMMA Emitted ==
    ASSUME NEW st \in ScanState, NEW P
    PROVE  /\ st.status # "scanning" \/ IsSilent(Joined(P)) => Emit(st, P) = st
           /\ st.status = "scanning" /\ ~IsSilent(Joined(P)) =>
                 \/ /\ EventsOf(Joined(P)) = {}
                    /\ Emit(st, P) = [delivered |-> st.delivered, status |-> "malformed"]
                 \/ \E e \in Receivable :
                       /\ EventsOf(Joined(P)) = {e}
                       /\ Emit(st, P) = [delivered |-> Append(st.delivered, e),
                                         status |-> IF e \in Refused THEN "refused" ELSE "scanning"]
<1>1. st = [delivered |-> st.delivered, status |-> st.status]
  BY DEF ScanState
<1>2. PICK pieces : pieces = Joined(P)
  OBVIOUS
<1>3. CASE st.status # "scanning" \/ IsSilent(pieces)
  <2>1. Emit(st, P) = st
    BY <1>2, <1>3 DEF Emit
  <2>2. QED
    BY <1>2, <1>3, <2>1
<1>4. CASE st.status = "scanning" /\ ~IsSilent(pieces) /\ EventsOf(pieces) = {}
  <2>1. Emit(st, P) = [st EXCEPT !.status = "malformed"]
    BY <1>2, <1>4 DEF Emit
  <2>2. [st EXCEPT !.status = "malformed"] = [delivered |-> st.delivered, status |-> "malformed"]
    BY <1>1
  <2>3. QED
    BY <1>2, <1>4, <2>1, <2>2
<1>5. CASE st.status = "scanning" /\ ~IsSilent(pieces) /\ EventsOf(pieces) # {}
  <2>1. PICK e : e = CHOOSE x \in EventsOf(pieces) : TRUE
    OBVIOUS
  <2>2. e \in EventsOf(pieces)
    BY <1>5, <2>1
  <2>3. EventsOf(pieces) = {e} /\ e \in Receivable
    BY <2>2, OneEventAtMost
  <2>4. Emit(st, P) = [delivered |-> Append(st.delivered, e),
                       status |-> IF e \in Refused THEN "refused" ELSE "scanning"]
    BY <1>2, <1>5, <2>1 DEF Emit
  <2>5. QED
    BY <1>2, <1>5, <2>3, <2>4
<1>6. QED
  BY <1>2, <1>3, <1>4, <1>5

(* What a payload decodes to.                                               *)
Carries(P, e) == EventsOf(Joined(P)) = {e}
IsMalformed(P) == EventsOf(Joined(P)) = {}

(* A scan in state s has gone through the frames F and delivered d.         *)
Told(F, d, s) ==
    /\ F \in Seq(Payload)
    /\ Len(d) <= Len(F)
    /\ \A k \in 1..Len(d) : Carries(F[k], d[k])
    /\ \A k \in 1..Len(d) : k < Len(d) \/ s # "refused" => d[k] \notin Refused
    /\ s \notin {"malformed", "refused"} => Len(d) = Len(F)
    /\ s = "malformed" => Len(d) < Len(F) /\ IsMalformed(F[Len(d) + 1])
    /\ s = "refused" => Len(d) # 0 /\ d[Len(d)] \in Refused

(* Emitting one more payload goes through one more frame.                   *)
LEMMA EmitKeeps ==
    ASSUME NEW F \in Seq(Payload), NEW P \in Payload, NEW st \in ScanState,
           Told(F, st.delivered, st.status)
    PROVE  /\ Emit(st, P) \in ScanState
           /\ Told(With(F, P), Emit(st, P).delivered, Emit(st, P).status)
           /\ With(F, P) \in Seq(Payload)
<1>1. PICK d \in Deliveries, s \in {"scanning", "malformed", "refused"} : d = st.delivered /\ s = st.status
  BY DEF ScanState
<1>2. d \in Seq(Receivable) /\ Len(d) \in Nat
  BY <1>1 DEF Deliveries
<1>3. Told(F, d, s)
  BY <1>1
<1>4. /\ Append(F, P) \in Seq(Payload) /\ Len(Append(F, P)) = Len(F) + 1 /\ Len(F) \in Nat
      /\ Append(F, P)[Len(F) + 1] = P /\ \A k \in 1..Len(F) : Append(F, P)[k] = F[k]
  BY OneMore, LenProperties
<1>5. CASE IsSilent(Joined(P))
  <2>1. Emit(st, P) = st
    BY <1>5, Emitted
  <2>2. With(F, P) = F
    BY <1>5 DEF Plus, With
  <2>3. QED
    BY <2>1, <2>2
<1>6. CASE ~IsSilent(Joined(P))
  <2>1. PICK F2 : F2 = Append(F, P)
    OBVIOUS
  <2>2. With(F, P) = F2
    BY <1>6, <2>1 DEF Plus, With
  <2>3. /\ F2 \in Seq(Payload) /\ Len(F2) = Len(F) + 1 /\ F2[Len(F) + 1] = P
        /\ \A k \in 1..Len(F) : F2[k] = F[k]
    BY <1>4, <2>1
  <2>4. \A k \in 1..Len(d) : F2[k] = F[k] /\ Carries(F2[k], d[k])
    BY <1>2, <1>3, <1>4, <2>3 DEF Told
  <2>5. CASE s # "scanning"
    <3>1. Emit(st, P) = st
      BY <1>1, <2>5, Emitted
    <3>2. Told(F2, d, s)
      <4>1. Len(d) <= Len(F) /\ (s = "malformed" => Len(d) + 1 \in 1..Len(F))
        BY <1>2, <1>3, <1>4 DEF Told
      <4>2. s \in {"malformed", "refused"}
        BY <2>5
      <4>3. s = "malformed" => F2[Len(d) + 1] = F[Len(d) + 1]
        BY <2>3, <4>1
      <4>4. QED
        BY <1>2, <1>3, <1>4, <2>3, <2>4, <4>1, <4>2, <4>3 DEF Told
    <3>3. QED
      BY <1>1, <2>2, <2>3, <3>1, <3>2
  <2>6. CASE s = "scanning" /\ IsMalformed(P)
    <3>1. Emit(st, P) = [delivered |-> d, status |-> "malformed"]
      BY <1>1, <1>6, <2>6, Emitted DEF IsMalformed, Carries
    <3>2. Len(d) = Len(F)
      BY <1>3, <2>6 DEF Told
    <3>3. Told(F2, d, "malformed")
      BY <1>2, <1>3, <1>4, <2>3, <2>4, <2>6, <3>2 DEF Told
    <3>4. QED
      <4>1. Emit(st, P) \in ScanState /\ Emit(st, P).delivered = d /\ Emit(st, P).status = "malformed"
        BY <1>1, <3>1 DEF ScanState
      <4>2. QED
        BY <2>2, <2>3, <3>3, <4>1
  <2>7. CASE s = "scanning" /\ ~IsMalformed(P)
    <3>1. PICK e \in Receivable :
             /\ Carries(P, e)
             /\ Emit(st, P) = [delivered |-> Append(d, e),
                               status |-> IF e \in Refused THEN "refused" ELSE "scanning"]
      BY <1>1, <1>6, <2>7, Emitted DEF IsMalformed, Carries
    <3>a. PICK d2 : d2 = Append(d, e)
      OBVIOUS
    <3>b. PICK s2 : s2 = IF e \in Refused THEN "refused" ELSE "scanning"
      OBVIOUS
    <3>2. /\ d2 = Append(d, e)
          /\ (e \in Refused /\ s2 = "refused") \/ (e \notin Refused /\ s2 = "scanning")
      BY <3>a, <3>b
    <3>3. /\ d2 \in Seq(Receivable) /\ Len(d2) = Len(d) + 1 /\ d2[Len(d) + 1] = e
          /\ \A k \in 1..Len(d) : d2[k] = d[k]
      BY <1>2, <3>2, OneMore
    <3>4. Len(d) = Len(F)
      BY <1>3, <2>7 DEF Told
    <3>5. \A k \in 1..Len(d2) : k \in 1..Len(d) \/ k = Len(d) + 1
      BY <1>2, <3>3
    <3>6. \A k \in 1..Len(d2) : Carries(F2[k], d2[k])
      BY <2>3, <2>4, <3>1, <3>3, <3>4, <3>5
    <3>7. \A k \in 1..Len(d2) : k < Len(d2) \/ s2 # "refused" => d2[k] \notin Refused
      <4>1. \A k \in 1..Len(d) : d[k] \notin Refused
        BY <1>3, <2>7 DEF Told
      <4>2. QED
        BY <1>2, <3>2, <3>3, <3>5, <4>1
    <3>8. Told(F2, d2, s2)
      BY <1>2, <2>3, <3>2, <3>3, <3>4, <3>6, <3>7 DEF Told
    <3>9. QED
      <4>1. Emit(st, P) = [delivered |-> d2, status |-> s2]
        BY <3>1, <3>2
      <4>2. d2 \in Deliveries /\ s2 \in {"scanning", "malformed", "refused"}
        BY <3>2, <3>3 DEF Deliveries
      <4>3. Emit(st, P) \in ScanState /\ Emit(st, P).delivered = d2 /\ Emit(st, P).status = s2
        BY <4>1, <4>2 DEF ScanState
      <4>4. QED
        BY <2>2, <2>3, <3>8, <4>3
  <2>8. QED
    BY <2>5, <2>6, <2>7
<1>7. QED
  BY <1>5, <1>6

-----------------------------------------------------------------------------
(* What a line adds to the frames, by its kind, inside and outside a group. *)
LEMMA FramesByKind ==
    ASSUME NEW in, NEW line, NEW n, NEW in2, Read2(in, line, n, in2)
    PROVE  /\ OpenIn(in) \/ IsSSEField(line) =>
                 /\ line.kind # "blank" =>
                       /\ LineFrames(in2) = LineFrames(in)
                       /\ line.kind = "bare" =>
                             EndFrames(in2) =
                                With(With(LineFrames(in), DataIn(in2, n + 1)), Alone(line))
                       /\ line.kind # "bare" =>
                             EndFrames(in2) = With(LineFrames(in), DataIn(in2, n + 1))
                 /\ line.kind = "blank" =>
                       /\ LineFrames(in2) = With(LineFrames(in), DataIn(in2, n + 1))
                       /\ EndFrames(in2) = LineFrames(in2)
           /\ ~(OpenIn(in) \/ IsSSEField(line)) =>
                 /\ line.kind = "bare" =>
                       LineFrames(in2) = With(LineFrames(in), Alone(line))
                 /\ line.kind # "bare" => LineFrames(in2) = LineFrames(in)
                 /\ EndFrames(in2) = LineFrames(in2)
<1>1. PICK F, F1, F2, D, P : /\ F = LineFrames(in) /\ F1 = LineFrames(in2)
                             /\ F2 = EndFrames(in2) /\ D = DataIn(in2, n + 1) /\ P = Alone(line)
  OBVIOUS
<1>2. F1 = Plus(F, IF line.kind = "blank" THEN D ELSE P,
                line.kind = (IF GroupedIn(in2, n + 1) THEN "blank" ELSE "bare"))
  BY <1>1, FramesAfterLine DEF Alone
<1>3. /\ OpenIn(in2) /\ line.kind = "bare" => F2 = With(With(F1, D), P)
      /\ OpenIn(in2) /\ line.kind # "bare" => F2 = With(F1, D)
      /\ ~OpenIn(in2) => F2 = F1
  BY <1>1, FramesAtEnd
<1>4. /\ GroupedIn(in2, n + 1) <=> OpenIn(in) \/ IsSSEField(line)
      /\ OpenIn(in2) <=> GroupedIn(in2, n + 1) /\ line.kind # "blank"
  BY GroupGrows
<1>5. CASE OpenIn(in) \/ IsSSEField(line)
  <2>1. CASE line.kind = "blank"
    <3>1. F1 = With(F, D) /\ F2 = F1
      BY <1>2, <1>3, <1>4, <1>5, <2>1 DEF Plus, With
    <3>2. QED
      BY <1>1, <1>5, <2>1, <3>1
  <2>2. CASE line.kind # "blank"
    <3>1. F1 = F
      BY <1>2, <1>4, <1>5, <2>2 DEF Plus, With
    <3>2. /\ line.kind = "bare" => F2 = With(With(F, D), P)
          /\ line.kind # "bare" => F2 = With(F, D)
      BY <1>3, <1>4, <1>5, <2>2, <3>1 DEF Plus, With
    <3>3. QED
      BY <1>1, <1>5, <2>2, <3>1, <3>2
  <2>3. QED
    BY <2>1, <2>2
<1>6. CASE ~(OpenIn(in) \/ IsSSEField(line))
  <2>1. /\ line.kind = "bare" => F1 = With(F, P)
        /\ line.kind # "bare" => F1 = F
    BY <1>2, <1>4, <1>6 DEF Plus, With
  <2>2. F2 = F1
    BY <1>3, <1>4, <1>6 DEF Plus, With
  <2>3. QED
    BY <1>1, <1>6, <2>1, <2>2
<1>7. QED
  BY <1>5, <1>6

(* The scan is in state st behind the frames F.                             *)
Scanned(F, st) == Told(F, st.delivered, st.status)

(* Joined pieces that are no text are silent.                               *)
LEMMA NothingIsSilent == IsSilent(Joined(<<>>)) /\ IsSilent(Joined(<<Space>>))
<1>1. {k \in DOMAIN <<>> : <<>>[k] # Space} = {}
  <2>1. DOMAIN <<>> = {}
    OBVIOUS
  <2>2. QED
    BY <2>1
<1>2. PICK one : one = <<Space>>
  OBVIOUS
<1>3. DOMAIN one = {1} /\ one[1] = Space
  BY <1>2
<1>4. {k \in DOMAIN one : one[k] # Space} = {}
  BY <1>3
<1>5. Joined(<<>>) = <<>>
  BY <1>1, NothingKept DEF Joined
<1>6. Joined(one) = <<>>
  BY <1>4, NothingKept DEF Joined
<1>7. QED
  BY <1>2, <1>5, <1>6 DEF IsSilent

(* Each turn of the loop leaves the scan behind the frames of its line.     *)
LEMMA TurnKeepsScan ==
    ASSUME NEW in, NEW line, NEW n, NEW in2, Read2(in, line, n, in2),
           NEW st \in ScanState, Scanned(LineFrames(in), st)
    PROVE  /\ OpenIn(in) \/ IsSSEField(line) =>
                 /\ line.kind # "blank" => Scanned(LineFrames(in2), st)
                 /\ line.kind = "blank" =>
                       /\ Emit(st, DataIn(in2, n + 1)) \in ScanState
                       /\ Scanned(LineFrames(in2), Emit(st, DataIn(in2, n + 1)))
                 /\ Emit(Emit(st, DataIn(in2, n + 1)), IF line.kind = "bare" THEN Alone(line) ELSE <<>>)
                       \in ScanState
                 /\ Scanned(EndFrames(in2),
                       Emit(Emit(st, DataIn(in2, n + 1)), IF line.kind = "bare" THEN Alone(line) ELSE <<>>))
           /\ ~(OpenIn(in) \/ IsSSEField(line)) =>
                 /\ Emit(st, Alone(line)) \in ScanState
                 /\ Scanned(LineFrames(in2), Emit(st, Alone(line)))
                 /\ Scanned(EndFrames(in2), Emit(st, Alone(line)))
<1>1. PICK F, F1, F2, D, P : /\ F = LineFrames(in) /\ F1 = LineFrames(in2)
                             /\ F2 = EndFrames(in2) /\ D = DataIn(in2, n + 1) /\ P = Alone(line)
  OBVIOUS
<1>2. F \in Seq(Payload)
  BY <1>1, FramesAfterLine DEF Alone
<1>3. D \in Payload /\ P \in Payload
  <2>1. n + 1 \in 1..Len(in2) /\ in2 \in Seq(Line) /\ in2[n + 1] = line
    BY LineRead
  <2>2. QED
    BY <1>1, <2>1, PayloadTypes DEF Payload, Alone
<1>4. Told(F, st.delivered, st.status)
  BY <1>1 DEF Scanned
<1>5. PICK st1 : st1 = Emit(st, D)
  OBVIOUS
<1>6. st1 \in ScanState /\ Told(With(F, D), st1.delivered, st1.status) /\ With(F, D) \in Seq(Payload)
  BY <1>2, <1>3, <1>4, <1>5, EmitKeeps
<1>7. \A x \in ScanState : Emit(x, <<>>) = x /\ Emit(x, <<Space>>) = x
  BY NothingIsSilent, Emitted
<1>8. CASE OpenIn(in) \/ IsSSEField(line)
  <2>1. CASE line.kind = "blank"
    <3>1. F1 = With(F, D) /\ F2 = F1
      BY <1>1, <1>8, <2>1, FramesByKind
    <3>2. Emit(st1, <<>>) = st1
      BY <1>6, <1>7
    <3>3. Scanned(LineFrames(in2), st1) /\ Scanned(EndFrames(in2), st1)
      BY <1>1, <1>6, <3>1 DEF Scanned
    <3>4. QED
      BY <1>1, <1>5, <1>6, <1>8, <2>1, <3>2, <3>3
  <2>2. CASE line.kind = "bare"
    <3>1. F1 = F /\ F2 = With(With(F, D), P)
      BY <1>1, <1>8, <2>2, FramesByKind
    <3>2. Emit(st1, P) \in ScanState /\ Told(F2, Emit(st1, P).delivered, Emit(st1, P).status)
      BY <1>3, <1>6, <3>1, EmitKeeps
    <3>3. Scanned(LineFrames(in2), st) /\ Scanned(EndFrames(in2), Emit(st1, P))
      BY <1>1, <1>4, <3>1, <3>2 DEF Scanned
    <3>4. QED
      BY <1>1, <1>5, <1>8, <2>2, <3>2, <3>3
  <2>3. CASE line.kind \notin {"blank", "bare"}
    <3>1. F1 = F /\ F2 = With(F, D)
      BY <1>1, <1>8, <2>3, FramesByKind
    <3>2. F2 = With(F, D)
      BY <3>1
    <3>3. Emit(st1, <<>>) = st1
      BY <1>6, <1>7
    <3>4. Scanned(LineFrames(in2), st) /\ Scanned(EndFrames(in2), st1)
      BY <1>1, <1>4, <1>6, <3>1, <3>2 DEF Scanned
    <3>5. QED
      BY <1>1, <1>5, <1>6, <1>8, <2>3, <3>3, <3>4
  <2>4. QED
    BY <2>1, <2>2, <2>3
<1>9. CASE ~(OpenIn(in) \/ IsSSEField(line))
  <2>1. CASE line.kind = "bare"
    <3>1. F1 = With(F, P) /\ F2 = F1
      BY <1>1, <1>9, <2>1, FramesByKind
    <3>2. Emit(st, P) \in ScanState /\ Told(F1, Emit(st, P).delivered, Emit(st, P).status)
      BY <1>2, <1>3, <1>4, <3>1, EmitKeeps
    <3>3. Scanned(LineFrames(in2), Emit(st, P)) /\ Scanned(EndFrames(in2), Emit(st, P))
      BY <1>1, <3>1, <3>2 DEF Scanned
    <3>4. QED
      BY <1>1, <1>9, <3>2, <3>3
  <2>2. CASE line.kind # "bare"
    <3>1. F1 = F /\ F2 = F1
      BY <1>1, <1>9, <2>2, FramesByKind
    <3>2. F1 = F
      BY <3>1
    <3>3. Alone(line) = <<Space>>
      <4>1. line.piece = Space
        BY <1>9, <2>2 DEF Read2, Line, IsSSEField
      <4>2. QED
        BY <4>1 DEF Alone
    <3>4. Emit(st, P) = st
      BY <1>1, <1>7, <3>3
    <3>5. Scanned(LineFrames(in2), st) /\ Scanned(EndFrames(in2), st)
      BY <1>1, <1>4, <3>1, <3>2 DEF Scanned
    <3>6. QED
      BY <1>1, <1>9, <3>4, <3>5
  <2>3. QED
    BY <2>1, <2>2
<1>10. QED
  BY <1>8, <1>9

-----------------------------------------------------------------------------
(* The invariant of the scan.  While it goes on, the locals are what the    *)
(* lines of the open group left; and at any time the callback was told of   *)
(* the frames of the lines read, up to the one that stopped the scan.       *)
Going ==
    status = "scanning" =>
        /\ ~eof /\ (inSSE <=> OpenIn(input))
        /\ sseData = Kept(PiecesOf(input), GatheredIn(input))
FramesTold ==
    /\ eof => Told(EndFrames(input), delivered, status)
    /\ ~eof => Told(LineFrames(input), delivered, status)
ScanInv == TypeOK /\ Going /\ FramesTold

(* The lines of a body are lines.                                           *)
LEMMA LinesAreLines == Lines \cup {Blank} \subseteq Line
BY LinesAssumption DEF Blank, Line

(* A turn of the loop, with what it finds in the locals.                    *)
Turned(line, atEof, in, n, in2, st) ==
    /\ in = input /\ in2 = input' /\ Read2(in, line, n, in2) /\ st = Now
    /\ st \in ScanState /\ Scanned(LineFrames(in), st)
    /\ inSSE <=> OpenIn(in)
    /\ DataIn(in2, n + 1) = IF line.kind = "data" THEN Append(sseData, line.piece) ELSE sseData
    /\ DataIn(in2, n + 1) \in Seq(Piece)
    /\ OpenIn(in2) <=> (OpenIn(in) \/ IsSSEField(line)) /\ line.kind # "blank"
    /\ Kept(PiecesOf(in2), GatheredIn(in2)) = IF line.kind = "blank" THEN <<>> ELSE DataIn(in2, n + 1)
    /\ input' \in Seq(Lines \cup {Blank}) /\ eof' = atEof

(* Each line that is read is such a turn.                                   *)
LEMMA ScanTurn ==
    ASSUME ScanInv, NEW line \in Lines \cup {Blank}, NEW atEof \in BOOLEAN, Read(line, atEof)
    PROVE  \E in, n, in2, st : Turned(line, atEof, in, n, in2, st)
<1>1. PICK in, n, in2, st : in = input /\ in2 = input' /\ n = Len(input) /\ st = Now
  OBVIOUS
<1>2. /\ status = "scanning" /\ ~eof /\ in2 = Append(in, line) /\ eof' = atEof
      /\ input \in Seq(Lines \cup {Blank}) /\ delivered \in Seq(Docs \cup {NullEvent})
      /\ inSSE <=> OpenIn(in)
      /\ sseData = Kept(PiecesOf(in), GatheredIn(in))
      /\ Told(LineFrames(in), delivered, status)
  BY <1>1 DEF ScanInv, Going, FramesTold, TypeOK, Read
<1>3. Read2(in, line, n, in2)
  BY <1>1, <1>2, LinesAreLines DEF Read2
<1>4. st \in ScanState /\ Scanned(LineFrames(in), st)
  BY <1>1, <1>2 DEF Now, ScanState, Scanned, Deliveries, Receivable
<1>5. /\ DataIn(in2, n + 1) = IF line.kind = "data" THEN Append(sseData, line.piece) ELSE sseData
      /\ Kept(PiecesOf(in2), GatheredIn(in2)) = IF line.kind = "blank" THEN <<>> ELSE DataIn(in2, n + 1)
  BY <1>2, <1>3, DataGrows
<1>6. DataIn(in2, n + 1) \in Seq(Piece)
  <2>1. n + 1 \in 1..Len(in2) /\ in2 \in Seq(Line)
    BY <1>3, LineRead
  <2>2. QED
    BY <2>1, PayloadTypes
<1>7. OpenIn(in2) <=> (OpenIn(in) \/ IsSSEField(line)) /\ line.kind # "blank"
  BY <1>3, GroupGrows
<1>8. input' \in Seq(Lines \cup {Blank})
  BY <1>1, <1>2
<1>9. QED
  BY <1>1, <1>2, <1>3, <1>4, <1>5, <1>6, <1>7, <1>8 DEF Turned

(* A line inside a group: what it gathers is what the group now has.        *)
LEMMA InGroupKeepsScan ==
    ASSUME ScanInv, NEW line \in Lines, InGroup(line)
    PROVE  ScanInv'
<1>1. Read(line, FALSE) /\ (inSSE \/ IsSSEField(line)) /\ line.kind # "blank"
  BY DEF InGroup
<1> USE DEF Turned
<1>2. PICK in, n, in2, st : Turned(line, FALSE, in, n, in2, st)
  BY <1>1, ScanTurn
<1>3. OpenIn(in) \/ IsSSEField(line)
  BY <1>1, <1>2
<1>4. Scanned(LineFrames(in2), st)
  BY <1>1, <1>2, <1>3, TurnKeepsScan
<1>5. delivered' = delivered /\ status' = status /\ inSSE' = TRUE /\ sseData' = DataIn(in2, n + 1)
  BY <1>2 DEF InGroup
<1>6. st.delivered = delivered /\ st.status = status
  BY <1>2 DEF Now
<1>7. FramesTold'
  BY <1>2, <1>4, <1>5, <1>6 DEF FramesTold, Scanned
<1>8. Going'
  BY <1>1, <1>2, <1>3, <1>5 DEF Going
<1>9. TypeOK'
  <2>1. status = "scanning" /\ delivered \in Seq(Docs \cup {NullEvent})
    BY <1>1 DEF ScanInv, TypeOK, Read
  <2>2. delivered' \in Seq(Docs \cup {NullEvent}) /\ status' = "scanning"
    BY <1>5, <2>1
  <2>3. sseData' \in Seq(Piece) /\ inSSE' \in BOOLEAN /\ (sseData' # <<>> => inSSE')
    BY <1>2, <1>5
  <2>4. input' \in Seq(Lines \cup {Blank}) /\ eof' \in BOOLEAN
    BY <1>2
  <2>5. QED
    BY <2>2, <2>3, <2>4 DEF TypeOK
<1>10. QED
  BY <1>7, <1>8, <1>9 DEF ScanInv

(* The blank line behind a group: its payload is emitted and forgotten.     *)
LEMMA EndOfGroupKeepsScan ==
    ASSUME ScanInv, NEW line \in Lines, EndOfGroup(line)
    PROVE  ScanInv'
<1>1. Read(line, FALSE) /\ inSSE /\ line.kind = "blank"
  BY DEF EndOfGroup
<1> USE DEF Turned
<1>2. PICK in, n, in2, st : Turned(line, FALSE, in, n, in2, st)
  BY <1>1, ScanTurn
<1>3. PICK st2 : st2 = Emit(st, DataIn(in2, n + 1))
  OBVIOUS
<1>4. st2 \in ScanState /\ Scanned(LineFrames(in2), st2)
  BY <1>1, <1>2, <1>3, TurnKeepsScan
<1>5. DataIn(in2, n + 1) = sseData
  BY <1>1, <1>2
<1>6. delivered' = st2.delivered /\ status' = st2.status /\ inSSE' = FALSE /\ sseData' = <<>>
  BY <1>2, <1>3, <1>5 DEF EndOfGroup, Become
<1>7. FramesTold'
  BY <1>2, <1>4, <1>6 DEF FramesTold, Scanned
<1>8. Going'
  BY <1>1, <1>2, <1>6 DEF Going
<1>9. TypeOK'
  <2>1. delivered' \in Seq(Docs \cup {NullEvent}) /\ status' \in {"scanning", "malformed", "refused"}
    BY <1>4, <1>6 DEF ScanState, Deliveries, Receivable
  <2>2. sseData' \in Seq(Piece) /\ inSSE' \in BOOLEAN /\ (sseData' # <<>> => inSSE')
    BY <1>6, EmptySeq
  <2>3. status' \in {"scanning", "ended", "malformed", "refused", "read_error"} /\ status' # "ended"
    BY <2>1
  <2>4. input' \in Seq(Lines \cup {Blank}) /\ eof' \in BOOLEAN
    BY <1>2
  <2>5. QED
    BY <2>1, <2>2, <2>3, <2>4 DEF TypeOK
<1>10. QED
  BY <1>7, <1>8, <1>9 DEF ScanInv

(* A line on its own: bare, or blank and silent.                            *)
LEMMA BareLineKeepsScan ==
    ASSUME ScanInv, NEW line \in Lines, BareLine(line)
    PROVE  ScanInv'
<1>1. Read(line, FALSE) /\ ~inSSE /\ ~IsSSEField(line)
  BY DEF BareLine
<1> USE DEF Turned
<1>2. PICK in, n, in2, st : Turned(line, FALSE, in, n, in2, st)
  BY <1>1, ScanTurn
<1>3. PICK st2 : st2 = Emit(st, Alone(line))
  OBVIOUS
<1>4. ~(OpenIn(in) \/ IsSSEField(line))
  BY <1>1, <1>2
<1>5. st2 \in ScanState /\ Scanned(LineFrames(in2), st2)
  BY <1>2, <1>3, <1>4, TurnKeepsScan
<1>6. sseData = <<>> /\ line.kind # "data"
  BY <1>1 DEF ScanInv, TypeOK, IsSSEField
<1>7. delivered' = st2.delivered /\ status' = st2.status /\ inSSE' = FALSE /\ sseData' = <<>>
  BY <1>1, <1>2, <1>3, <1>6 DEF BareLine, Become, Alone, ScanInv, TypeOK
<1>8. FramesTold'
  BY <1>2, <1>5, <1>7 DEF FramesTold, Scanned
<1>9. Kept(PiecesOf(in2), GatheredIn(in2)) = <<>>
  BY <1>2, <1>6
<1>10. Going'
  BY <1>2, <1>4, <1>7, <1>9 DEF Going
<1>11. TypeOK'
  <2>1. delivered' \in Seq(Docs \cup {NullEvent}) /\ status' \in {"scanning", "malformed", "refused"}
    BY <1>5, <1>7 DEF ScanState, Deliveries, Receivable
  <2>2. sseData' \in Seq(Piece) /\ inSSE' \in BOOLEAN /\ (sseData' # <<>> => inSSE')
    BY <1>7, EmptySeq
  <2>3. status' \in {"scanning", "ended", "malformed", "refused", "read_error"} /\ status' # "ended"
    BY <2>1
  <2>4. input' \in Seq(Lines \cup {Blank}) /\ eof' \in BOOLEAN
    BY <1>2
  <2>5. QED
    BY <2>1, <2>2, <2>3, <2>4 DEF TypeOK
<1>12. QED
  BY <1>8, <1>10, <1>11 DEF ScanInv

(* The end of the body changes no verdict that was reached before it.       *)
LEMMA BodyEnds ==
    ASSUME NEW st \in ScanState, NEW F, Scanned(F, st)
    PROVE  /\ EndOfBody(st).delivered = st.delivered
           /\ EndOfBody(st).status \in {"ended", "malformed", "refused"}
           /\ Told(F, EndOfBody(st).delivered, EndOfBody(st).status)
<1>1. PICK d \in Deliveries, s \in {"scanning", "malformed", "refused"} : st = [delivered |-> d, status |-> s]
  BY DEF ScanState
<1>2. st.delivered = d /\ st.status = s
  BY <1>1
<1>3. PICK s2 : s2 = IF s = "scanning" THEN "ended" ELSE s
  OBVIOUS
<1>4. EndOfBody(st) = [delivered |-> d, status |-> s2]
  BY <1>1, <1>3 DEF EndOfBody
<1>5. s2 \in {"ended", "malformed", "refused"} /\ (s2 = s \/ (s2 = "ended" /\ s = "scanning"))
  BY <1>3
<1>6. Told(F, d, s)
  BY <1>2 DEF Scanned
<1>7. Told(F, d, s2)
  BY <1>5, <1>6 DEF Told
<1>8. EndOfBody(st).delivered = d /\ EndOfBody(st).status = s2
  BY <1>4
<1>9. QED
  BY <1>2, <1>5, <1>7, <1>8

(* The turn that reads EOF, in a group or outside of one.                   *)
LEMMA LastLineKeepsScan ==
    ASSUME ScanInv, NEW line \in Lines \cup {Blank}, LastLineInGroup(line) \/ LastBareLine(line)
    PROVE  ScanInv'
<1>1. Read(line, TRUE)
  BY DEF LastLineInGroup, LastBareLine
<1> USE DEF Turned
<1>2. PICK in, n, in2, st : Turned(line, TRUE, in, n, in2, st)
  BY <1>1, ScanTurn
<1>3. PICK tail : tail = IF line.kind = "bare" THEN Alone(line) ELSE <<>>
  OBVIOUS
<1>4. PICK st2 : st2 = IF OpenIn(in) \/ IsSSEField(line)
                       THEN Emit(Emit(st, DataIn(in2, n + 1)), tail)
                       ELSE Emit(st, Alone(line))
  OBVIOUS
<1>5. st2 \in ScanState /\ Scanned(EndFrames(in2), st2)
  BY <1>2, <1>3, <1>4, TurnKeepsScan
<1>6. /\ delivered' = EndOfBody(st2).delivered /\ status' = EndOfBody(st2).status
      /\ sseData' = <<>> /\ inSSE' = FALSE
  <2>1. CASE LastLineInGroup(line)
    <3>1. st2 = Emit(Emit(Now, DataIn(in2, n + 1)), tail)
      BY <1>2, <1>4, <2>1 DEF LastLineInGroup
    <3>2. Become(EndOfBody(st2)) /\ sseData' = <<>> /\ inSSE' = FALSE
      BY <1>2, <1>3, <2>1, <3>1 DEF LastLineInGroup, Alone
    <3>3. QED
      BY <3>2 DEF Become
  <2>2. CASE LastBareLine(line)
    <3>1. ~inSSE /\ ~IsSSEField(line) /\ sseData' = sseData /\ inSSE' = inSSE
      BY <2>2 DEF LastBareLine
    <3>2. st2 = Emit(Now, Alone(line))
      BY <1>2, <1>4, <3>1
    <3>3. Become(EndOfBody(st2))
      BY <2>2, <3>2 DEF LastBareLine, Alone
    <3>4. QED
      BY <3>1, <3>3 DEF Become, ScanInv, TypeOK
  <2>3. QED
    BY <2>1, <2>2
<1>7. /\ delivered' = st2.delivered /\ status' \in {"ended", "malformed", "refused"}
      /\ Told(EndFrames(in2), delivered', status')
  BY <1>5, <1>6, BodyEnds
<1>8. FramesTold'
  BY <1>2, <1>7 DEF FramesTold
<1>9. Going'
  BY <1>7 DEF Going
<1>10. TypeOK'
  <2>1. delivered' \in Seq(Docs \cup {NullEvent})
    BY <1>5, <1>7 DEF ScanState, Deliveries, Receivable
  <2>2. sseData' \in Seq(Piece) /\ inSSE' \in BOOLEAN /\ (sseData' # <<>> => inSSE')
    BY <1>6, EmptySeq
  <2>3. status' \in {"scanning", "ended", "malformed", "refused", "read_error"}
    BY <1>7
  <2>4. input' \in Seq(Lines \cup {Blank}) /\ eof' \in BOOLEAN /\ (status' = "ended" => eof')
    BY <1>2
  <2>5. QED
    BY <2>1, <2>2, <2>3, <2>4 DEF TypeOK
<1>11. QED
  BY <1>8, <1>9, <1>10 DEF ScanInv

(* A body of no lines has no frames.                                        *)
LEMMA NoLinesNoFrames ==
    ASSUME NEW in \in Seq(Line), Len(in) = 0
    PROVE  LineFrames(in) = <<>>
<1>1. PICK seq : seq = PayloadsOf(in, FALSE)
  OBVIOUS
<1>2. DOMAIN seq = 1..Len(in)
  BY <1>1, LinePayloads
<1>3. FrameSetOf(in, FALSE) = {}
  <2>1. DOMAIN seq = {}
    BY <1>2
  <2>2. FrameSetOf(in, FALSE) \subseteq DOMAIN seq
    BY <1>1 DEF FrameSetOf
  <2>3. QED
    BY <2>1, <2>2
<1>4. QED
  BY <1>3, NothingKept DEF LineFrames, FramesOf

(* A scan that has read nothing has done nothing.                           *)
LEMMA ScanBegins == Init => ScanInv
<1>1. SUFFICES ASSUME Init PROVE ScanInv
  OBVIOUS
<1>2. /\ sseData = <<>> /\ ~inSSE /\ delivered = <<>> /\ status = "scanning"
      /\ input = <<>> /\ ~eof
  BY <1>1 DEF Init
<1>3. TypeOK
  <2>1. sseData \in Seq(Piece) /\ delivered \in Seq(Docs \cup {NullEvent}) /\ input \in Seq(Lines \cup {Blank})
    BY <1>2, EmptySeq
  <2>2. inSSE \in BOOLEAN /\ eof \in BOOLEAN
    BY <1>1 DEF Init
  <2>3. QED
    BY <1>2, <2>1, <2>2 DEF TypeOK
<1>a. PICK none : none = <<>>
  OBVIOUS
<1>4. none = <<>> /\ none \in Seq(Line) /\ Len(none) = 0
  BY <1>a, EmptySeq
<1>5. ~OpenIn(none) /\ GatheredIn(none) = {}
  BY <1>4 DEF OpenIn, GatheredIn
<1>6. Kept(PiecesOf(none), GatheredIn(none)) = <<>>
  BY <1>5, NothingKept
<1>7. LineFrames(none) = <<>>
  BY <1>4, NoLinesNoFrames
<1>8. Told(LineFrames(none), <<>>, "scanning")
  <2>1. PICK e : e = <<>> /\ Len(e) = 0 /\ e \in Seq(Payload)
    BY EmptySeq
  <2>2. Told(e, e, "scanning")
    BY <2>1 DEF Told
  <2>3. QED
    BY <1>7, <2>1, <2>2
<1>9. Going /\ FramesTold
  BY <1>2, <1>4, <1>5, <1>6, <1>8 DEF Going, FramesTold
<1>10. QED
  BY <1>3, <1>9 DEF ScanInv

(* A body that breaks off: its frames are those of the lines before.        *)
LEMMA ReadErrorKeepsScan == ASSUME ScanInv, ReadError PROVE ScanInv'
<1>1. /\ status = "scanning" /\ status' = "read_error" /\ sseData' = sseData /\ inSSE' = inSSE
      /\ delivered' = delivered /\ input' = input /\ eof' = eof
  BY DEF ReadError
<1>2. TypeOK'
  BY <1>1 DEF ScanInv, TypeOK
<1>3. PICK F : Told(F, delivered, status) /\ ((eof /\ F = EndFrames(input)) \/ (~eof /\ F = LineFrames(input)))
  BY DEF ScanInv, FramesTold, TypeOK
<1>4. Told(F, delivered, "read_error")
  BY <1>1, <1>3 DEF Told
<1>5. FramesTold'
  BY <1>1, <1>3, <1>4 DEF FramesTold
<1>6. QED
  BY <1>1, <1>2, <1>5 DEF ScanInv, Going

(* A step that changes nothing.                                             *)
LEMMA NoStepKeepsScan == ASSUME ScanInv, UNCHANGED vars PROVE ScanInv'
BY DEF ScanInv, TypeOK, Going, FramesTold, vars

(* Each step of a scan keeps the invariant.                                 *)
LEMMA NextKeepsScan == ASSUME ScanInv, [Next]_vars PROVE ScanInv'
<1>1. CASE \E line \in Lines : InGroup(line) \/ EndOfGroup(line) \/ BareLine(line)
  BY <1>1, InGroupKeepsScan, EndOfGroupKeepsScan, BareLineKeepsScan
<1>2. CASE \E line \in Lines \cup {Blank} : LastLineInGroup(line) \/ LastBareLine(line)
  BY <1>2, LastLineKeepsScan
<1>3. CASE ReadError
  BY <1>3, ReadErrorKeepsScan
<1>4. CASE Stopped \/ UNCHANGED vars
  BY <1>4, NoStepKeepsScan DEF Stopped
<1>5. QED
  BY <1>1, <1>2, <1>3, <1>4 DEF Next

(* ScanInv holds of every scan (ScanFrames and ScanEvents).                 *)
THEOREM ScanInvariant == Spec => []ScanInv
<1>1. Init => ScanInv
  BY ScanBegins
<1>2. ScanInv /\ [Next]_vars => ScanInv'
  BY NextKeepsScan
<1>3. QED
  BY <1>1, <1>2, PTL DEF Spec

(* The locals and results of ScanFrames keep their types; data that was     *)
(* gathered never outlives its group.                                       *)
THEOREM ScanTypeCorrect == Spec => []TypeOK
<1>1. ScanInv => TypeOK
  BY DEF ScanInv
<1>2. QED
  BY <1>1, ScanInvariant, PTL

(* What Told says of the frames at which a scan stops.                      *)
LEMMA WhereItStops ==
    ASSUME NEW F, NEW d \in Deliveries, NEW s, Told(F, d, s),
           NEW k \in DOMAIN F, EventsOf(Joined(F[k])) = {} \/ EventsOf(Joined(F[k])) \cap Refused # {},
           \A l \in DOMAIN F :
              EventsOf(Joined(F[l])) = {} \/ EventsOf(Joined(F[l])) \cap Refused # {} => k <= l
    PROVE  /\ EventsOf(Joined(F[k])) = {} => s = "malformed" /\ Len(d) = k - 1
           /\ EventsOf(Joined(F[k])) # {} => s = "refused" /\ Len(d) = k
<1> DEFINE Stop(l) == EventsOf(Joined(F[l])) = {} \/ EventsOf(Joined(F[l])) \cap Refused # {}
<1>1. /\ DOMAIN F = 1..Len(F) /\ Len(F) \in Nat /\ Len(d) \in Nat /\ Len(d) <= Len(F) /\ k \in Nat
  BY LenProperties DEF Told, Deliveries
<1>2. \A l \in 1..Len(d) : EventsOf(Joined(F[l])) = {d[l]}
  BY DEF Told, Carries
<1>3. \A l \in 1..Len(d) : EventsOf(Joined(F[l])) # {} /\ (Stop(l) <=> d[l] \in Refused)
  BY <1>2
<1>4. \A l \in DOMAIN F : Stop(l) => k <= l
  OBVIOUS
<1>5. Stop(k) /\ k \in 1..Len(F)
  BY <1>1
<1>6. CASE s \notin {"malformed", "refused"}
  <2>1. Len(d) = Len(F) /\ \A l \in 1..Len(d) : d[l] \notin Refused
    BY <1>6 DEF Told
  <2>2. QED
    BY <1>3, <1>5, <2>1
<1>7. CASE s = "malformed"
  <2>1. /\ Len(d) < Len(F) /\ EventsOf(Joined(F[Len(d) + 1])) = {}
        /\ \A l \in 1..Len(d) : d[l] \notin Refused
    BY <1>7 DEF Told, IsMalformed
  <2>2. Stop(Len(d) + 1) /\ Len(d) + 1 \in DOMAIN F
    BY <1>1, <2>1
  <2>3. k <= Len(d) + 1
    BY <1>4, <2>2
  <2>4. k \notin 1..Len(d)
    BY <1>3, <1>5, <2>1
  <2>5. k = Len(d) + 1
    BY <1>1, <1>5, <2>3, <2>4
  <2>6. QED
    BY <1>1, <1>7, <2>1, <2>5
<1>8. CASE s = "refused"
  <2>1. /\ Len(d) # 0 /\ d[Len(d)] \in Refused
        /\ \A l \in 1..Len(d) : l < Len(d) => d[l] \notin Refused
    BY <1>8 DEF Told
  <2>2. Len(d) \in 1..Len(d) /\ Len(d) \in DOMAIN F
    BY <1>1, <2>1
  <2>3. Stop(Len(d))
    BY <1>3, <2>1, <2>2
  <2>4. k <= Len(d)
    BY <1>4, <2>2, <2>3
  <2>5. k \in 1..Len(d)
    BY <1>1, <1>5, <2>4
  <2>6. d[k] \in Refused
    BY <1>3, <1>5, <2>5
  <2>7. k = Len(d)
    BY <1>1, <2>1, <2>4, <2>5, <2>6
  <2>8. QED
    BY <1>3, <1>8, <2>5, <2>7
<1>9. QED
  BY <1>6, <1>7, <1>8

(* What the callback was told is what DeliversFrames asks.                  *)
LEMMA ToldIsDelivered == ScanInv => DeliversFrames
<1>1. SUFFICES ASSUME ScanInv PROVE DeliversFrames
  OBVIOUS
<1>2. PICK F, d, s : F = Frames /\ d = delivered /\ s = status
  OBVIOUS
<1>3. Told(F, d, s)
  BY <1>1, <1>2, FramesAreOfTheInput DEF ScanInv, TypeOK, FramesTold
<1>4. d \in Deliveries /\ s \in {"scanning", "ended", "malformed", "refused", "read_error"}
  BY <1>1, <1>2 DEF ScanInv, TypeOK, Receivable, Deliveries
<1>5. DOMAIN F = 1..Len(F) /\ Len(F) \in Nat /\ DOMAIN d = 1..Len(d) /\ Len(d) \in Nat /\ Len(d) <= Len(F)
  BY <1>3, <1>4, LenProperties DEF Told, Deliveries
<1>6. \A k \in DOMAIN d : EventsOf(Joined(F[k])) = {d[k]}
  BY <1>3, <1>5 DEF Told, Carries
<1> DEFINE Stop(l) == EventsOf(Joined(F[l])) = {} \/ EventsOf(Joined(F[l])) \cap Refused # {}
<1>7. Stops = {l \in DOMAIN F : Stop(l)}
  BY <1>2 DEF Stops, IsBad, IsRefused
<1>8. ASSUME Stops = {} PROVE Len(d) = Len(F) /\ s \in {"scanning", "ended", "read_error"}
  <2>1. \A l \in 1..Len(F) : ~Stop(l)
    BY <1>5, <1>7, <1>8
  <2>2. s # "malformed"
    <3>1. CASE s = "malformed"
      <4>1. Len(d) + 1 \in 1..Len(F) /\ Stop(Len(d) + 1)
        BY <1>3, <1>5, <3>1 DEF Told, IsMalformed
      <4>2. QED
        BY <2>1, <4>1
    <3>2. QED
      BY <3>1
  <2>3. s # "refused"
    <3>1. CASE s = "refused"
      <4>1. Len(d) # 0 /\ d[Len(d)] \in Refused
        BY <1>3, <3>1 DEF Told
      <4>2. Len(d) \in 1..Len(F) /\ Len(d) \in DOMAIN d
        BY <1>5, <4>1
      <4>3. EventsOf(Joined(F[Len(d)])) = {d[Len(d)]}
        BY <1>6, <4>2
      <4>4. Stop(Len(d))
        BY <4>1, <4>3
      <4>5. QED
        BY <2>1, <4>2, <4>4
    <3>2. QED
      BY <3>1
  <2>4. QED
    BY <1>3, <1>4, <2>2, <2>3 DEF Told
<1>9. ASSUME NEW k \in Stops, \A l \in Stops : k <= l
      PROVE  /\ s = (IF IsBad(k) THEN "malformed" ELSE "refused")
             /\ Len(d) = (IF IsBad(k) THEN k - 1 ELSE k)
  <2>1. k \in DOMAIN F /\ Stop(k) /\ \A l \in DOMAIN F : Stop(l) => k <= l
    BY <1>7, <1>9
  <2>2. /\ EventsOf(Joined(F[k])) = {} => s = "malformed" /\ Len(d) = k - 1
        /\ EventsOf(Joined(F[k])) # {} => s = "refused" /\ Len(d) = k
    BY <1>3, <1>4, <2>1, WhereItStops
  <2>3. IsBad(k) <=> EventsOf(Joined(F[k])) = {}
    BY <1>2 DEF IsBad
  <2>4. QED
    BY <2>2, <2>3
<1>10. QED
  BY <1>2, <1>6, <1>8, <1>9 DEF DeliversFrames

(* The callback of ScanEvents is called with the events of the frames, in   *)
(* order, each once, and not behind the frame that stops the scan; that     *)
(* frame alone decides how ScanFrames returns.                              *)
THEOREM EveryFrameIsDelivered == Spec => []DeliversFrames
BY ScanInvariant, ToldIsDelivered, PTL

-----------------------------------------------------------------------------
(* Reduce drives the decoder and the reducer and changes neither: a run of  *)
(* the pipeline is a run of each.                                           *)
THEOREM PipelineScans == PipelineSpec => Spec
<1>1. PipelineInit => Init
  BY DEF PipelineInit
<1>2. [PipelineNext]_pipelineVars => [Next]_vars
  BY DEF PipelineNext, Scan, Callback, pipelineVars
<1>3. QED
  BY <1>1, <1>2, PTL DEF PipelineSpec, Spec

(* So what holds of every scan holds of the one inside Reduce.              *)
THEOREM PipelineDeliversFrames == PipelineSpec => [](TypeOK /\ DeliversFrames)
BY PipelineScans, ScanTypeCorrect, EveryFrameIsDelivered, PTL

(* Delivering events forgets none: a later list of them starts with the     *)
(* earlier one.                                                             *)
Extends(d, d2) == d2 \in Deliveries /\ Len(d) <= Len(d2) /\ \A k \in 1..Len(d) : d2[k] = d[k]

(* Emitting delivers one more event or none.                                *)
LEMMA EmitExtends ==
    ASSUME NEW st \in ScanState, NEW P
    PROVE  Emit(st, P) \in ScanState /\ Extends(st.delivered, Emit(st, P).delivered)
<1>1. PICK d \in Deliveries, s \in {"scanning", "malformed", "refused"} : d = st.delivered /\ s = st.status
  BY DEF ScanState
<1>2. d \in Seq(Receivable) /\ Len(d) \in Nat /\ Extends(d, d)
  BY <1>1 DEF Deliveries, Extends
<1>3. CASE Emit(st, P) = st
  BY <1>1, <1>2, <1>3
<1>4. CASE Emit(st, P) = [delivered |-> st.delivered, status |-> "malformed"]
  BY <1>1, <1>2, <1>4 DEF ScanState
<1>5. CASE \E e \in Receivable :
              Emit(st, P) = [delivered |-> Append(st.delivered, e),
                             status |-> IF e \in Refused THEN "refused" ELSE "scanning"]
  <2>1. PICK e \in Receivable :
            Emit(st, P) = [delivered |-> Append(d, e),
                           status |-> IF e \in Refused THEN "refused" ELSE "scanning"]
    BY <1>1, <1>5
  <2>2. /\ Append(d, e) \in Seq(Receivable) /\ Len(Append(d, e)) = Len(d) + 1
        /\ \A k \in 1..Len(d) : Append(d, e)[k] = d[k]
    BY <1>2, OneMore
  <2>3. PICK d2 : d2 = Append(d, e)
    OBVIOUS
  <2>4. d2 \in Deliveries /\ Extends(d, d2)
    BY <1>2, <2>2, <2>3 DEF Deliveries, Extends
  <2>5. PICK s2 \in {"scanning", "malformed", "refused"} : s2 = IF e \in Refused THEN "refused" ELSE "scanning"
    OBVIOUS
  <2>6. Emit(st, P) = [delivered |-> d2, status |-> s2]
    BY <2>1, <2>3, <2>5
  <2>7. QED
    BY <1>1, <2>4, <2>6 DEF ScanState
<1>6. QED
  BY <1>3, <1>4, <1>5, Emitted

(* A turn of the scan only adds to what was delivered.                      *)
LEMMA ScanExtends ==
    ASSUME TypeOK, [Next]_vars
    PROVE  Extends(delivered, delivered')
<1>1. delivered \in Deliveries /\ Extends(delivered, delivered)
  BY DEF TypeOK, Deliveries, Receivable, Extends
<1>2. CASE delivered' = delivered
  BY <1>1, <1>2
<1>3. CASE status = "scanning" /\ \E P : Become(Emit(Now, P))
  <2>1. Now \in ScanState /\ Now.delivered = delivered
    BY <1>1, <1>3 DEF Now, ScanState
  <2>2. QED
    BY <1>3, <2>1, EmitExtends DEF Become
<1>4. CASE status = "scanning" /\ \E P : Become(EndOfBody(Emit(Now, P)))
  <2>1. Now \in ScanState /\ Now.delivered = delivered
    BY <1>1, <1>4 DEF Now, ScanState
  <2>2. PICK st : (\E P : st = Emit(Now, P)) /\ Become(EndOfBody(st))
    BY <1>4
  <2>3. st \in ScanState /\ Extends(delivered, st.delivered)
    BY <2>1, <2>2, EmitExtends
  <2>4. EndOfBody(st).delivered = st.delivered
    BY <2>3 DEF EndOfBody, ScanState
  <2>5. QED
    BY <2>2, <2>3, <2>4 DEF Become
<1>5. CASE status = "scanning" /\ \E P, P2 : Become(EndOfBody(Emit(Emit(Now, P), P2)))
  <2>1. Now \in ScanState /\ Now.delivered = delivered
    BY <1>1, <1>5 DEF Now, ScanState
  <2>2. PICK st1, st : (\E P : st1 = Emit(Now, P)) /\ (\E P : st = Emit(st1, P)) /\ Become(EndOfBody(st))
    BY <1>5
  <2>3. st1 \in ScanState /\ Extends(delivered, st1.delivered)
    BY <2>1, <2>2, EmitExtends
  <2>4. st \in ScanState /\ Extends(st1.delivered, st.delivered)
    BY <2>2, <2>3, EmitExtends
  <2>5. EndOfBody(st).delivered = st.delivered
    BY <2>4 DEF EndOfBody, ScanState
  <2>6. PICK d1, d2 : d1 = st1.delivered /\ d2 = st.delivered
    OBVIOUS
  <2>7. Extends(delivered, d2)
    <3>1. Len(delivered) \in Nat /\ Len(d1) \in Nat /\ Len(d2) \in Nat
      BY <1>1, <2>3, <2>4, <2>6 DEF Deliveries, ScanState
    <3>2. QED
      BY <2>3, <2>4, <2>6, <3>1 DEF Extends
  <2>8. QED
    BY <2>2, <2>5, <2>6, <2>7 DEF Become
<1>6. QED
  BY <1>2, <1>3, <1>4, <1>5
     DEF Next, vars, InGroup, EndOfGroup, BareLine, LastLineInGroup, LastBareLine, ReadError, Stopped, Read

(* The reducer is given the delivered events, each once and in order, and   *)
(* is never ahead of the decoder.                                           *)
AppliesWhatIsDelivered ==
    /\ Len(applied) <= Len(delivered)
    /\ \A k \in DOMAIN applied : applied[k] = delivered[k]
PipelineInv == TypeOK /\ applied \in Seq(Events) /\ AppliesWhatIsDelivered

(* The documents of the body are events of the reducer.                     *)
LEMMA DeliveredAreEvents == TypeOK => delivered \in Seq(Events)
BY DocsAssumption DEF TypeOK

(* Each step of Reduce keeps that order, and is a step of the reducer.      *)
LEMMA PipelineKeepsItsOrder ==
    ASSUME PipelineInv, TypeOK', [PipelineNext]_pipelineVars
    PROVE  PipelineInv' /\ [ReducerNext]_reducerVars
<1>1. /\ delivered \in Seq(Events) /\ applied \in Seq(Events)
      /\ Len(delivered) \in Nat /\ Len(applied) \in Nat /\ DOMAIN applied = 1..Len(applied)
      /\ Len(applied) <= Len(delivered) /\ \A k \in DOMAIN applied : applied[k] = delivered[k]
  BY DeliveredAreEvents, LenProperties DEF PipelineInv, AppliesWhatIsDelivered
<1>2. CASE Callback
  <2>1. PICK e : e = delivered[Len(applied) + 1]
    OBVIOUS
  <2>2. e \in Events
    BY <1>1, <1>2, <2>1, ElementOfSeq DEF Callback
  <2>3. Apply(e) /\ delivered' = delivered
    BY <1>2, <2>1 DEF Callback, vars
  <2>4. applied' = Append(applied, e)
    BY <2>3 DEF Apply, Receive, Latched, ReasoningDelta, TextDelta, Ignored, InvalidToolCall,
       DuplicateToolCall, ToolCall, Terminal, UpstreamFailure
  <2>5. PICK a : a = Append(applied, e)
    OBVIOUS
  <2>6. /\ a \in Seq(Events) /\ Len(a) = Len(applied) + 1 /\ a[Len(applied) + 1] = e
        /\ \A k \in 1..Len(applied) : a[k] = applied[k]
    BY <1>1, <2>2, <2>5, OneMore
  <2>7. DOMAIN a = 1..(Len(applied) + 1)
    BY <2>6, LenProperties
  <2>8. Len(a) <= Len(delivered) /\ \A k \in DOMAIN a : a[k] = delivered[k]
    BY <1>1, <1>2, <2>1, <2>6, <2>7 DEF Callback
  <2>9. PipelineInv'
    BY <2>3, <2>4, <2>5, <2>6, <2>8 DEF PipelineInv, AppliesWhatIsDelivered
  <2>10. QED
    BY <2>2, <2>3, <2>9 DEF ReducerNext
<1>3. CASE Scan \/ UNCHANGED pipelineVars
  <2>1. [Next]_vars /\ UNCHANGED reducerVars
    BY <1>3 DEF Scan, pipelineVars
  <2>2. Extends(delivered, delivered') /\ applied' = applied
    BY <2>1, ScanExtends DEF PipelineInv, reducerVars
  <2>3. PICK d : d = delivered' /\ Extends(delivered, d)
    BY <2>2
  <2>4. Len(d) \in Nat /\ Len(delivered) <= Len(d) /\ \A k \in 1..Len(delivered) : d[k] = delivered[k]
    BY <2>3 DEF Extends, Deliveries
  <2>5. Len(applied) <= Len(d) /\ \A k \in DOMAIN applied : applied[k] = d[k]
    BY <1>1, <2>4
  <2>6. QED
    BY <1>1, <2>1, <2>2, <2>3, <2>5 DEF PipelineInv, AppliesWhatIsDelivered
<1>4. QED
  BY <1>2, <1>3 DEF PipelineNext

(* PipelineInv holds of every call of Reduce.                               *)
THEOREM PipelineInvariant == PipelineSpec => []PipelineInv
<1>1. PipelineInit /\ TypeOK => PipelineInv
  <2>1. SUFFICES ASSUME PipelineInit, TypeOK PROVE PipelineInv
    OBVIOUS
  <2>2. applied = <<>> /\ delivered = <<>>
    BY <2>1 DEF PipelineInit, NewReducer, Init
  <2>3. /\ Len(delivered) = 0 /\ Len(applied) = 0 /\ DOMAIN applied = {} /\ applied \in Seq(Events)
    BY <2>2, EmptySeq
  <2>4. QED
    BY <2>1, <2>3 DEF PipelineInv, AppliesWhatIsDelivered
<1>2. PipelineInv /\ TypeOK' /\ [PipelineNext]_pipelineVars => PipelineInv'
  BY PipelineKeepsItsOrder
<1>3. QED
  BY <1>1, <1>2, PipelineScans, ScanTypeCorrect, PTL DEF PipelineSpec

(* And each of them is a run of the reducer: what holds of every reducer    *)
(* holds of the one that Reduce feeds.                                      *)
THEOREM PipelineReduces == PipelineSpec => ReducerSpec
<1>1. PipelineInit => NewReducer
  BY DEF PipelineInit
<1>2. PipelineInv /\ TypeOK' /\ [PipelineNext]_pipelineVars => [ReducerNext]_reducerVars
  BY PipelineKeepsItsOrder
<1>3. QED
  BY <1>1, <1>2, PipelineInvariant, PipelineScans, ScanTypeCorrect, PTL DEF PipelineSpec, ReducerSpec

-----------------------------------------------------------------------------
(* The documents of a body, as functions of the lines that were read, and   *)
(* the documents of pieces that belong together.                            *)
Carried == Docs \cup {NoDoc}
Fruitful(piece) == piece.part \in {"whole", "head"}
Also(docs, piece) == IF Fruitful(piece) THEN Append(docs, piece.doc) ELSE docs

PieceDocs(P) == [k \in DOMAIN P |-> P[k].doc]
FruitfulOf(P) == {k \in DOMAIN P : Fruitful(P[k])}
DocsOf(P) == Kept(PieceDocs(P), FruitfulOf(P))

LineDocs(in) == [i \in DOMAIN in |-> in[i].piece.doc]
IgnoredIn(in) == {i \in DOMAIN in : in[i].kind = "bare" /\ GroupedIn(in, i)}
CountedIn(in) == {i \in DOMAIN in \ IgnoredIn(in) : Fruitful(in[i].piece)}
CountedAtEnd(in) ==
    {i \in DOMAIN in : (i \in IgnoredIn(in) => i = Len(in)) /\ Fruitful(in[i].piece)}
LineBody(in) == Kept(LineDocs(in), CountedIn(in))
EndBody(in) == Kept(LineDocs(in), CountedAtEnd(in))

(* They are the documents that AnswerIsOfTheBody speaks of.                 *)
LEMMA BodyOfTheInput ==
    eof \in BOOLEAN => BodyDocs = IF eof THEN EndBody(input) ELSE LineBody(input)
<1>1. IgnoredIn(input) = {i \in DOMAIN input : input[i].kind = "bare" /\ Grouped(i)}
  BY DEF IgnoredIn, GroupedIn, Grouped
<1>2. ASSUME ~eof PROVE BodyLines = CountedIn(input)
  BY <1>1, <1>2 DEF BodyLines, IgnoredLines, CountedIn, Fruitful
<1>3. ASSUME eof PROVE BodyLines = CountedAtEnd(input)
  BY <1>1, <1>3 DEF BodyLines, IgnoredLines, CountedAtEnd, Fruitful
<1>4. QED
  BY <1>2, <1>3 DEF BodyDocs, LineBody, EndBody, LineDocs

(* One more piece, whose place is kept if it starts a document.             *)
LEMMA DocsGrow ==
    ASSUME NEW T, NEW docs \in Seq(T), NEW S \in SUBSET DOMAIN docs,
           NEW docs2, \A i \in S : docs2[i] = docs[i],
           NEW piece, piece.doc \in T, docs2[Len(docs) + 1] = piece.doc, NEW S2
    PROVE  /\ Fruitful(piece) /\ (\A i : i \in S2 <=> i \in S \/ i = Len(docs) + 1) =>
                 Kept(docs2, S2) = Also(Kept(docs, S), piece)
           /\ ~Fruitful(piece) /\ (\A i : i \in S2 <=> i \in S) =>
                 Kept(docs2, S2) = Also(Kept(docs, S), piece)
           /\ (\A i : i \in S2 <=> i \in S) => Kept(docs2, S2) = Kept(docs, S)
<1>1. Kept(docs2, S) = Kept(docs, S)
  BY KeptStays, LenProperties
<1>2. Kept(docs2, S \cup {Len(docs) + 1}) = Append(Kept(docs, S), docs2[Len(docs) + 1])
  BY KeptGrows
<1>3. ASSUME \A i : i \in S2 <=> i \in S PROVE S2 = S
  BY <1>3
<1>4. ASSUME \A i : i \in S2 <=> i \in S \/ i = Len(docs) + 1
      PROVE  S2 = S \cup {Len(docs) + 1}
  BY <1>4
<1>5. QED
  BY <1>1, <1>2, <1>3, <1>4 DEF Also

(* The documents of no pieces, and of one more.                             *)
LEMMA DocsOfNothing == DocsOf(<<>>) = <<>>
<1>1. PICK none : none = <<>> /\ DOMAIN none = {}
  OBVIOUS
<1>2. FruitfulOf(none) = {}
  BY <1>1 DEF FruitfulOf
<1>3. QED
  BY <1>1, <1>2, NothingKept DEF DocsOf

PiecesHaveDocs == \A piece \in Piece : piece.doc \in Carried
LEMMA PiecesCarryDocs == PiecesHaveDocs
BY DEF PiecesHaveDocs, Piece, Carried

LEMMA PieceDocsType ==
    ASSUME NEW P \in Payload
    PROVE  /\ PieceDocs(P) \in Seq(Carried) /\ Len(PieceDocs(P)) = Len(P)
           /\ DOMAIN PieceDocs(P) = DOMAIN P /\ FruitfulOf(P) \in SUBSET DOMAIN P
           /\ DocsOf(P) \in Seq(Carried)
<1>1. P \in Seq(Piece)
  BY DEF Payload
<1>2. Len(P) \in Nat /\ DOMAIN P = 1..Len(P)
  BY <1>1, LenProperties
<1>3. \A k \in 1..Len(P) : P[k] \in Piece
  BY <1>1, ElementOfSeq
<1>4. PieceDocs(P) \in [1..Len(P) -> Carried]
  BY <1>2, <1>3, PiecesCarryDocs DEF PieceDocs, PiecesHaveDocs
<1>5. PieceDocs(P) \in Seq(Carried) /\ Len(PieceDocs(P)) = Len(P)
  BY <1>2, <1>4, FunctionIsSeq
<1>6. DOMAIN PieceDocs(P) = DOMAIN P /\ FruitfulOf(P) \in SUBSET DOMAIN P
  BY DEF PieceDocs, FruitfulOf
<1>7. DocsOf(P) \in Seq(Carried)
  BY <1>5, <1>6, KeptIsTheSelection DEF DocsOf
<1>8. QED
  BY <1>5, <1>6, <1>7

LEMMA DocsOfMore ==
    ASSUME NEW P \in Payload, NEW piece \in Piece
    PROVE  DocsOf(Append(P, piece)) = Also(DocsOf(P), piece)
<1>1. PICK m, P2 : m = Len(P) /\ P2 = Append(P, piece)
  OBVIOUS
<1>2. P \in Seq(Piece)
  BY DEF Payload
<1>3. /\ P2 \in Seq(Piece) /\ Len(P2) = m + 1 /\ P2[m + 1] = piece /\ \A i \in 1..m : P2[i] = P[i]
  BY <1>1, <1>2, OneMore
<1>4. m \in Nat /\ DOMAIN P = 1..m /\ DOMAIN P2 = 1..(m + 1)
  BY <1>1, <1>2, <1>3, LenProperties
<1>5. PICK docs, docs2, S, S2 : /\ docs = PieceDocs(P) /\ docs2 = PieceDocs(P2)
                                /\ S = FruitfulOf(P) /\ S2 = FruitfulOf(P2)
  OBVIOUS
<1>6. /\ docs \in Seq(Carried) /\ Len(docs) = m /\ S \in SUBSET DOMAIN docs
  BY <1>1, <1>5, PieceDocsType
<1>7. docs2[m + 1] = piece.doc /\ \A i \in 1..m : docs2[i] = docs[i]
  BY <1>3, <1>4, <1>5 DEF PieceDocs
<1>8. \A i \in S : docs2[i] = docs[i]
  BY <1>4, <1>5, <1>7 DEF FruitfulOf
<1>9. \A i : i \in S2 <=> i \in S \/ (i = m + 1 /\ Fruitful(piece))
  BY <1>3, <1>4, <1>5 DEF FruitfulOf
<1>10. piece.doc \in Carried
  BY PiecesCarryDocs DEF PiecesHaveDocs
<1>11. Kept(docs2, S2) = Also(Kept(docs, S), piece)
  <2>1. CASE Fruitful(piece)
    <3>1. \A i : i \in S2 <=> i \in S \/ i = Len(docs) + 1
      BY <1>6, <1>9, <2>1
    <3>2. QED
      BY <1>6, <1>7, <1>8, <1>10, <2>1, <3>1, DocsGrow
  <2>2. CASE ~Fruitful(piece)
    <3>1. \A i : i \in S2 <=> i \in S
      BY <1>9, <2>2
    <3>2. QED
      BY <1>6, <1>7, <1>8, <1>10, <2>2, <3>1, DocsGrow
  <2>3. QED
    BY <2>1, <2>2
<1>12. QED
  BY <1>1, <1>5, <1>11 DEF DocsOf

(* What the next line adds to the documents of a body, and what it adds as  *)
(* the last one.                                                            *)
LEMMA LineDocsType ==
    ASSUME NEW in \in Seq(Line)
    PROVE  /\ LineDocs(in) \in Seq(Carried) /\ Len(LineDocs(in)) = Len(in)
           /\ DOMAIN LineDocs(in) = 1..Len(in) /\ CountedIn(in) \in SUBSET DOMAIN LineDocs(in)
           /\ LineBody(in) \in Seq(Carried)
<1>1. Len(in) \in Nat /\ DOMAIN in = 1..Len(in) /\ PiecesOf(in) \in Seq(Piece)
  BY PayloadTypes, LenProperties
<1>2. \A i \in 1..Len(in) : in[i].piece \in Piece
  <2>1. DOMAIN PiecesOf(in) = 1..Len(in) /\ \A i \in 1..Len(in) : PiecesOf(in)[i] = in[i].piece
    BY <1>1 DEF PiecesOf
  <2>2. QED
    BY <1>1, <2>1, ElementOfSeq, LenProperties
<1>3. LineDocs(in) \in [1..Len(in) -> Carried]
  BY <1>1, <1>2, PiecesCarryDocs DEF LineDocs, PiecesHaveDocs
<1>4. LineDocs(in) \in Seq(Carried) /\ Len(LineDocs(in)) = Len(in) /\ DOMAIN LineDocs(in) = 1..Len(in)
  BY <1>1, <1>3, FunctionIsSeq
<1>5. CountedIn(in) \in SUBSET DOMAIN LineDocs(in)
  BY <1>1, <1>4 DEF CountedIn
<1>6. QED
  BY <1>4, <1>5, KeptIsTheSelection DEF LineBody

LEMMA BodyGrows ==
    ASSUME NEW in, NEW line, NEW n, NEW in2, Read2(in, line, n, in2)
    PROVE  /\ line.kind = "bare" /\ GroupedIn(in2, n + 1) => LineBody(in2) = LineBody(in)
           /\ ~(line.kind = "bare" /\ GroupedIn(in2, n + 1)) =>
                 LineBody(in2) = Also(LineBody(in), line.piece)
           /\ EndBody(in2) = Also(LineBody(in), line.piece)
<1>1. /\ n \in Nat /\ n = Len(in) /\ in \in Seq(Line) /\ in2 \in Seq(Line) /\ Len(in2) = n + 1
      /\ in2[n + 1] = line /\ DOMAIN in = 1..n /\ DOMAIN in2 = 1..(n + 1)
      /\ \A j \in 1..n : in2[j] = in[j]
  BY LineRead DEF Read2
<1>2. PICK docs, docs2, S, S2, S3 : /\ docs = LineDocs(in) /\ docs2 = LineDocs(in2)
                                    /\ S = CountedIn(in) /\ S2 = CountedIn(in2)
                                    /\ S3 = CountedAtEnd(in2)
  OBVIOUS
<1>3. docs \in Seq(Carried) /\ Len(docs) = n /\ S \in SUBSET DOMAIN docs /\ S \in SUBSET (1..n)
  <2>1. docs \in Seq(Carried) /\ Len(docs) = Len(in) /\ DOMAIN docs = 1..Len(in) /\ S \in SUBSET DOMAIN docs
    BY <1>1, <1>2, LineDocsType
  <2>2. QED
    BY <1>1, <2>1
<1>4. docs2[n + 1] = line.piece.doc /\ \A i \in S : docs2[i] = docs[i]
  <2>1. docs2[n + 1] = line.piece.doc /\ \A i \in 1..n : docs2[i] = docs[i]
    BY <1>1, <1>2 DEF LineDocs
  <2>2. QED
    BY <1>3, <2>1
<1>5. line.piece.doc \in Carried
  <2>1. line.piece \in Piece
    BY DEF Read2, Line, Space, Piece
  <2>2. QED
    BY <2>1, PiecesCarryDocs DEF PiecesHaveDocs
<1> DEFINE dropped == line.kind = "bare" /\ GroupedIn(in2, n + 1)
<1>6. \A i \in 1..n : i \in IgnoredIn(in2) <=> i \in IgnoredIn(in)
  <2>1. \A i \in 1..n : GroupedIn(in2, i) <=> GroupedIn(in, i)
    BY EarlierLinesKept
  <2>2. QED
    BY <1>1, <2>1 DEF IgnoredIn
<1>7. n + 1 \in IgnoredIn(in2) <=> dropped
  BY <1>1 DEF IgnoredIn
<1>8. \A i : i \in 1..(n + 1) <=> i \in 1..n \/ i = n + 1
  BY <1>1
<1>9. n + 1 \notin 1..n
  BY <1>1
<1>10. \A i : i \in S2 <=> i \in S \/ (i = n + 1 /\ Fruitful(line.piece) /\ ~dropped)
  <2>1. \A i \in 1..n : i \in S2 <=> i \in S
    BY <1>1, <1>2, <1>6, <1>8 DEF CountedIn
  <2>2. n + 1 \in S2 <=> Fruitful(line.piece) /\ ~dropped
    BY <1>1, <1>2, <1>7, <1>8 DEF CountedIn
  <2>3. \A i : i \in S2 => i \in 1..(n + 1)
    BY <1>1, <1>2 DEF CountedIn
  <2>4. QED
    BY <1>3, <1>8, <1>9, <2>1, <2>2, <2>3
<1>11. \A i : i \in S3 <=> i \in S \/ (i = n + 1 /\ Fruitful(line.piece))
  <2>1. \A i \in 1..n : i \in S3 <=> i \in S
    <3>1. \A i \in 1..n : i # Len(in2)
      BY <1>1
    <3>2. QED
      BY <1>1, <1>2, <1>6, <1>8, <3>1 DEF CountedIn, CountedAtEnd
  <2>2. n + 1 \in S3 <=> Fruitful(line.piece)
    BY <1>1, <1>2, <1>7, <1>8 DEF CountedAtEnd
  <2>3. \A i : i \in S3 => i \in 1..(n + 1)
    BY <1>1, <1>2 DEF CountedAtEnd
  <2>4. QED
    BY <1>3, <1>8, <1>9, <2>1, <2>2, <2>3
<1>12. dropped => Kept(docs2, S2) = Kept(docs, S)
  <2>1. ASSUME dropped PROVE \A i : i \in S2 <=> i \in S
    BY <1>10, <2>1
  <2>2. QED
    BY <1>3, <1>4, <1>5, <2>1, DocsGrow
<1>13. ~dropped => Kept(docs2, S2) = Also(Kept(docs, S), line.piece)
  <2>1. ASSUME ~dropped, Fruitful(line.piece) PROVE \A i : i \in S2 <=> i \in S \/ i = Len(docs) + 1
    BY <1>3, <1>10, <2>1
  <2>2. ASSUME ~Fruitful(line.piece) PROVE \A i : i \in S2 <=> i \in S
    BY <1>10, <2>2
  <2>3. QED
    BY <1>3, <1>4, <1>5, <2>1, <2>2, DocsGrow
<1>14. Kept(docs2, S3) = Also(Kept(docs, S), line.piece)
  <2>1. ASSUME Fruitful(line.piece) PROVE \A i : i \in S3 <=> i \in S \/ i = Len(docs) + 1
    BY <1>3, <1>11, <2>1
  <2>2. ASSUME ~Fruitful(line.piece) PROVE \A i : i \in S3 <=> i \in S
    BY <1>11, <2>2
  <2>3. QED
    BY <1>3, <1>4, <1>5, <2>1, <2>2, DocsGrow
<1>15. QED
  BY <1>2, <1>12, <1>13, <1>14 DEF LineBody, EndBody

(* What a loop keeps of seq that copies the elements of W.                  *)
Drawn(seq, W) == Kept(seq, {k \in DOMAIN seq : seq[k] \in W})

LEMMA DrawnOfNothing == ASSUME NEW W PROVE Drawn(<<>>, W) = <<>>
<1>1. PICK none : none = <<>> /\ DOMAIN none = {}
  OBVIOUS
<1>2. {k \in DOMAIN none : none[k] \in W} = {}
  BY <1>1
<1>3. QED
  BY <1>1, <1>2, NothingKept DEF Drawn

LEMMA DrawnType ==
    ASSUME NEW T, NEW seq \in Seq(T), NEW W
    PROVE  Drawn(seq, W) \in Seq(T)
<1>1. PICK S : S = {k \in DOMAIN seq : seq[k] \in W}
  OBVIOUS
<1>2. S \in SUBSET DOMAIN seq
  BY <1>1
<1>3. QED
  BY <1>1, <1>2, KeptIsTheSelection DEF Drawn

LEMMA DrawnGrows ==
    ASSUME NEW T, NEW seq \in Seq(T), NEW x \in T, NEW W
    PROVE  /\ x \in W => Drawn(Append(seq, x), W) = Append(Drawn(seq, W), x)
           /\ x \notin W => Drawn(Append(seq, x), W) = Drawn(seq, W)
<1>1. PICK seq2 : seq2 = Append(seq, x)
  OBVIOUS
<1>2. /\ seq2 \in Seq(T) /\ Len(seq2) = Len(seq) + 1 /\ seq2[Len(seq) + 1] = x
      /\ \A i \in 1..Len(seq) : seq2[i] = seq[i]
  BY <1>1, OneMore
<1>3. Len(seq) \in Nat /\ DOMAIN seq = 1..Len(seq) /\ DOMAIN seq2 = 1..(Len(seq) + 1)
  BY <1>2, LenProperties
<1>4. PICK S, S2 : S = {k \in DOMAIN seq : seq[k] \in W} /\ S2 = {k \in DOMAIN seq2 : seq2[k] \in W}
  OBVIOUS
<1>5. S \in SUBSET DOMAIN seq /\ S \in SUBSET (1..Len(seq)) /\ \A i \in S : seq2[i] = seq[i]
  BY <1>2, <1>3, <1>4
<1>6. \A i : i \in 1..(Len(seq) + 1) <=> i \in 1..Len(seq) \/ i = Len(seq) + 1
  BY <1>3
<1>7. x \in W => S2 = S \cup {Len(seq) + 1}
  BY <1>2, <1>3, <1>4, <1>6
<1>8. x \notin W => S2 = S
  BY <1>2, <1>3, <1>4, <1>6
<1>9. Kept(seq2, S) = Kept(seq, S)
  BY <1>3, <1>5, KeptStays
<1>10. Kept(seq2, S \cup {Len(seq) + 1}) = Append(Kept(seq, S), seq2[Len(seq) + 1])
  <2>1. seq2[Len(seq) + 1] \in T
    BY <1>2
  <2>2. QED
    BY <1>5, <2>1, KeptGrows
<1>11. QED
  BY <1>1, <1>2, <1>4, <1>7, <1>8, <1>9, <1>10 DEF Drawn

(* The documents of a payload are those of its joined pieces.               *)
LEMMA JoinedDocs ==
    ASSUME NEW P \in Payload, NEW Q, Q = Joined(P)
    PROVE  /\ Q \in Seq(Piece)
           /\ (\A k \in DOMAIN Q : ~Fruitful(Q[k])) => DocsOf(P) = <<>>
           /\ \A i \in DOMAIN Q :
                 Fruitful(Q[i]) /\ (\A k \in DOMAIN Q \ {i} : ~Fruitful(Q[k])) =>
                    DocsOf(P) = <<Q[i].doc>>
<1>1. P \in Seq(Piece)
  BY DEF Payload
<1>2. Len(P) \in Nat /\ DOMAIN P = 1..Len(P)
  BY <1>1, LenProperties
<1>3. PICK J : J = {k \in DOMAIN P : P[k] # Space}
  OBVIOUS
<1>4. J \in SUBSET DOMAIN P /\ Q = Kept(P, J)
  BY <1>3 DEF Joined
<1>5. /\ Q \in Seq(Piece) /\ DOMAIN Q = 1..Cardinality(J)
      /\ \A k \in 1..Cardinality(J) : Position(k, J) \in J /\ Q[k] = P[Position(k, J)]
      /\ \A i \in J : \E k \in 1..Cardinality(J) : Position(k, J) = i
  BY <1>1, <1>4, KeptIsTheSelection
<1>6. \A i \in FruitfulOf(P) : i \in J /\ Fruitful(P[i])
  BY <1>3 DEF FruitfulOf, Fruitful, Space
<1>7. ASSUME \A k \in DOMAIN Q : ~Fruitful(Q[k]) PROVE DocsOf(P) = <<>>
  <2>1. FruitfulOf(P) = {}
    BY <1>5, <1>6, <1>7
  <2>2. QED
    BY <2>1, NothingKept DEF DocsOf
<1>8. ASSUME NEW i \in DOMAIN Q, Fruitful(Q[i]), \A k \in DOMAIN Q \ {i} : ~Fruitful(Q[k])
      PROVE  DocsOf(P) = <<Q[i].doc>>
  <2>1. PICK p : p = Position(i, J) /\ p \in J /\ Q[i] = P[p]
    BY <1>5
  <2>2. p \in 1..Len(P) /\ p \in FruitfulOf(P)
    BY <1>2, <1>4, <1>8, <2>1 DEF FruitfulOf
  <2>3. \A j \in FruitfulOf(P) : j = p
    BY <1>5, <1>6, <1>8, <2>1
  <2>4. FruitfulOf(P) = {p}
    BY <2>2, <2>3
  <2>5. Kept(PieceDocs(P), {p}) = <<PieceDocs(P)[p]>>
    BY <1>2, <2>2, KeptOne
  <2>6. PieceDocs(P)[p] = Q[i].doc
    BY <1>2, <2>1, <2>2 DEF PieceDocs
  <2>7. QED
    BY <2>4, <2>5, <2>6 DEF DocsOf
<1>9. QED
  BY <1>5, <1>7, <1>8

(* A payload that is silent or null carries no document, and one that is a  *)
(* document carries that one.                                               *)
LEMMA PayloadDocs ==
    ASSUME NEW P \in Payload, NEW e \in Receivable
    PROVE  /\ IsSilent(Joined(P)) => DocsOf(P) = <<>>
           /\ Carries(P, e) /\ e \in Docs => DocsOf(P) = <<e>>
           /\ Carries(P, e) /\ e \notin Docs => DocsOf(P) = <<>>
<1>1. PICK Q : Q = Joined(P)
  OBVIOUS
<1> DEFINE Barren == \A k \in DOMAIN Q : ~Fruitful(Q[k])
<1>2. ASSUME NEW piece, ~Fruitful(piece), Q = <<piece>> PROVE Barren
  BY <1>2
<1>3. ASSUME IsSilent(Q) PROVE Barren
  <2>1. CASE Q = <<>>
    BY <2>1
  <2>2. CASE Q = <<[part |-> "done", doc |-> NoDoc]>>
    <3>1. ~Fruitful([part |-> "done", doc |-> NoDoc])
      BY DEF Fruitful
    <3>2. QED
      BY <1>2, <2>2, <3>1
  <2>3. QED
    BY <1>3, <2>1, <2>2 DEF IsSilent
<1>4. ASSUME Carries(P, e)
      PROVE  (e \in Docs /\ IsDocument(Q, e)) \/ (e \notin Docs /\ Q = <<[part |-> "null", doc |-> NoDoc]>>)
  <2>1. e \in EventsOf(Q)
    BY <1>1, <1>4 DEF Carries
  <2>2. QED
    BY <2>1, NullEventAssumption DEF EventsOf
<1>5. ASSUME Carries(P, e), e \notin Docs PROVE Barren
  <2>1. ~Fruitful([part |-> "null", doc |-> NoDoc])
    BY DEF Fruitful
  <2>2. QED
    BY <1>2, <1>4, <1>5, <2>1
<1>6. ASSUME Carries(P, e), e \in Docs
      PROVE  1 \in DOMAIN Q /\ Fruitful(Q[1]) /\ (\A k \in DOMAIN Q \ {1} : ~Fruitful(Q[k])) /\ Q[1].doc = e
  <2>1. CASE Q = <<[part |-> "whole", doc |-> e]>>
    <3>1. DOMAIN Q = {1} /\ Q[1] = [part |-> "whole", doc |-> e]
      BY <2>1
    <3>2. QED
      BY <3>1 DEF Fruitful
  <2>2. CASE Q = <<[part |-> "head", doc |-> e], [part |-> "tail", doc |-> e]>>
    <3>1. /\ DOMAIN Q = {1, 2} /\ Q[1] = [part |-> "head", doc |-> e]
          /\ Q[2] = [part |-> "tail", doc |-> e]
      BY <2>2
    <3>2. QED
      BY <3>1 DEF Fruitful
  <2>3. QED
    BY <1>4, <1>6, <2>1, <2>2 DEF IsDocument
<1>7. /\ Barren => DocsOf(P) = <<>>
      /\ \A i \in DOMAIN Q :
                 Fruitful(Q[i]) /\ (\A k \in DOMAIN Q \ {i} : ~Fruitful(Q[k])) =>
                    DocsOf(P) = <<Q[i].doc>>
  BY <1>1, JoinedDocs
<1> HIDE DEF Barren
<1>8. QED
  BY <1>1, <1>3, <1>5, <1>6, <1>7

(* Emitting a payload that does not stop the scan delivers its documents.   *)
LEMMA EmitDraws ==
    ASSUME NEW st \in ScanState, NEW P \in Payload, NEW st2, st2 = Emit(st, P), st2.status = "scanning"
    PROVE  /\ st.status = "scanning"
           /\ Drawn(st2.delivered, Docs) = Drawn(st.delivered, Docs) \o DocsOf(P)
<1>1. PICK d \in Deliveries : d = st.delivered
  BY DEF ScanState
<1>2. d \in Seq(Receivable)
  BY DEF Deliveries
<1>3. Drawn(d, Docs) \in Seq(Receivable)
  BY <1>2, DrawnType
<1>4. st.status = "scanning"
  <2>1. CASE st.status # "scanning"
    <3>1. st2 = st
      BY <2>1, Emitted
    <3>2. QED
      BY <2>1, <3>1
  <2>2. QED
    BY <2>1
<1>5. CASE IsSilent(Joined(P))
  <2>1. st2 = st
    BY <1>5, Emitted
  <2>2. DocsOf(P) = <<>>
    <3>1. NullEvent \in Receivable
      BY DEF Receivable
    <3>2. QED
      BY <1>5, <3>1, PayloadDocs
  <2>3. QED
    BY <1>1, <1>3, <1>4, <2>1, <2>2
<1>6. CASE ~IsSilent(Joined(P))
  <2>1. PICK e \in Receivable : Carries(P, e) /\ st2.delivered = Append(d, e)
    <3>1. CASE EventsOf(Joined(P)) = {} /\ st2 = [delivered |-> st.delivered, status |-> "malformed"]
      BY <3>1
    <3>2. CASE \E e \in Receivable :
                  /\ EventsOf(Joined(P)) = {e}
                  /\ st2 = [delivered |-> Append(st.delivered, e),
                            status |-> IF e \in Refused THEN "refused" ELSE "scanning"]
      BY <1>1, <3>2 DEF Carries
    <3>3. QED
      BY <1>4, <1>6, <3>1, <3>2, Emitted
  <2>2. CASE e \in Docs
    <3>1. Drawn(Append(d, e), Docs) = Append(Drawn(d, Docs), e)
      BY <1>2, <2>2, DrawnGrows
    <3>2. DocsOf(P) = <<e>>
      BY <2>1, <2>2, PayloadDocs
    <3>3. PICK b : b = Drawn(d, Docs) /\ b \in Seq(Receivable)
      BY <1>3
    <3>4. Append(b, e) = b \o <<e>>
      BY <3>3
    <3>5. QED
      BY <1>1, <1>4, <2>1, <3>1, <3>2, <3>3, <3>4
  <2>3. CASE e \notin Docs
    <3>1. Drawn(Append(d, e), Docs) = Drawn(d, Docs)
      BY <1>2, <2>3, DrawnGrows
    <3>2. DocsOf(P) = <<>>
      BY <2>1, <2>3, PayloadDocs
    <3>3. QED
      BY <1>1, <1>3, <1>4, <2>1, <3>1, <3>2
  <2>4. QED
    BY <2>2, <2>3
<1>7. QED
  BY <1>5, <1>6

(* A piece behind two lists of documents is behind the second.              *)
LEMMA AlsoBehind ==
    ASSUME NEW T, NEW a \in Seq(T), NEW b \in Seq(T), NEW piece, piece.doc \in T
    PROVE  Also(a \o b, piece) = a \o Also(b, piece)
<1>1. PICK x \in T : x = piece.doc
  OBVIOUS
<1>2. Append(a \o b, x) = a \o Append(b, x)
  OBVIOUS
<1>3. QED
  BY <1>1, <1>2 DEF Also

LEMMA AlsoBehindNothing ==
    ASSUME NEW T, NEW a \in Seq(T), NEW piece, piece.doc \in T
    PROVE  a \o Also(<<>>, piece) = Also(a, piece)
<1>1. PICK x \in T : x = piece.doc
  OBVIOUS
<1>2. a \o <<x>> = Append(a, x) /\ a \o <<>> = a /\ Append(<<>>, x) = <<x>>
  OBVIOUS
<1>3. QED
  BY <1>1, <1>2 DEF Also

LEMMA DocsOfOne ==
    ASSUME NEW piece \in Piece
    PROVE  DocsOf(<<piece>>) = Also(<<>>, piece)
<1>1. <<>> \in Payload /\ Append(<<>>, piece) = <<piece>>
  BY EmptySeq DEF Payload
<1>2. DocsOf(Append(<<>>, piece)) = Also(DocsOf(<<>>), piece)
  BY <1>1, DocsOfMore
<1>3. QED
  BY <1>1, <1>2, DocsOfNothing

(* While a scan goes on, the documents of the lines it has read are those   *)
(* it delivered and those it has gathered; and at its end it has delivered  *)
(* the documents of the body.                                               *)
Embodied ==
    /\ status = "scanning" => LineBody(input) = Drawn(delivered, Docs) \o DocsOf(sseData)
    /\ status = "ended" => EndBody(input) = Drawn(delivered, Docs)

LEMMA SpaceAddsNothing == ASSUME NEW docs PROVE Also(docs, Space) = docs
BY DEF Also, Space, Fruitful

(* A line carries a piece, and other lines than data: and bare ones, none.  *)
LEMMA PieceOfLine ==
    ASSUME NEW line \in Line
    PROVE  /\ line.piece \in Piece
           /\ line.kind \in {"data", "bare", "field", "blank"}
           /\ line.kind \in {"field", "blank"} => line.piece = Space
BY DEF Line, Piece, Space

(* Every list of documents or of events.                                    *)
Anything == Docs \cup {NoDoc, NullEvent}
LEMMA ListsOfAnything ==
    /\ \A s : s \in Seq(Carried) => s \in Seq(Anything)
    /\ \A s : s \in Seq(Receivable) => s \in Seq(Anything)
    /\ \A piece \in Piece : piece.doc \in Anything
<1>1. ASSUME NEW S \in SUBSET Anything, NEW s \in Seq(S) PROVE s \in Seq(Anything)
  <2>1. Len(s) \in Nat /\ s \in [1..Len(s) -> S]
    BY LenProperties
  <2>2. s \in [1..Len(s) -> Anything]
    BY <2>1
  <2>3. QED
    BY <2>1, <2>2, FunctionIsSeq
<1>2. Carried \in SUBSET Anything /\ Receivable \in SUBSET Anything
  BY DEF Carried, Receivable, Anything
<1>3. \A piece \in Piece : piece.doc \in Anything
  BY PiecesCarryDocs DEF PiecesHaveDocs, Carried, Anything
<1>4. QED
  BY <1>1, <1>2, <1>3

(* The turns of the loop keep that, whatever was gathered before.           *)
Gathered(line, D, group) == group = IF line.kind = "data" THEN Append(D, line.piece) ELSE D
TailOf(line) == IF line.kind = "bare" THEN Alone(line) ELSE <<>>

Turning(in, line, n, in2, st, D, group) ==
    /\ Read2(in, line, n, in2) /\ st \in ScanState /\ st.status = "scanning"
    /\ D \in Payload /\ group \in Payload /\ Gathered(line, D, group)
    /\ LineBody(in) = Drawn(st.delivered, Docs) \o DocsOf(D)

LEMMA TurnEmbodies ==
    ASSUME NEW in, NEW line, NEW n, NEW in2, NEW st, NEW D, NEW group,
           Turning(in, line, n, in2, st, D, group)
    PROVE  /\ (OpenIn(in) \/ IsSSEField(line)) /\ line.kind # "blank" =>
                 LineBody(in2) = Drawn(st.delivered, Docs) \o DocsOf(group)
           /\ \A st2 : (OpenIn(in) \/ IsSSEField(line)) /\ line.kind = "blank"
                       /\ st2 = Emit(st, D) /\ st2.status = "scanning" =>
                          LineBody(in2) = Drawn(st2.delivered, Docs)
           /\ \A st2 : st2 = Emit(Emit(st, group), TailOf(line)) /\ st2.status = "scanning" =>
                          EndBody(in2) = Drawn(st2.delivered, Docs)
           /\ \A st2 : ~(OpenIn(in) \/ IsSSEField(line)) /\ D = <<>>
                       /\ st2 = Emit(st, Alone(line)) /\ st2.status = "scanning" =>
                          /\ LineBody(in2) = Drawn(st2.delivered, Docs)
                          /\ EndBody(in2) = Drawn(st2.delivered, Docs)
<1> USE DEF Turning
<1>1. PICK N, G, L, piece : /\ N = Drawn(st.delivered, Docs) /\ G = DocsOf(D)
                            /\ L = LineBody(in) /\ piece = line.piece
  OBVIOUS
<1>2. /\ N \in Seq(Anything) /\ G \in Seq(Anything) /\ piece.doc \in Anything
      /\ L = N \o G /\ L \in Seq(Anything) /\ line \in Line /\ piece \in Piece
  <2>1. line \in Line /\ in \in Seq(Line)
    BY DEF Read2
  <2>2. st.delivered \in Seq(Receivable)
    BY DEF ScanState, Deliveries
  <2>3. N \in Seq(Anything) /\ G \in Seq(Anything) /\ L \in Seq(Anything)
    BY <1>1, <2>1, <2>2, DrawnType, PieceDocsType, LineDocsType, ListsOfAnything
  <2>4. piece \in Piece /\ piece.doc \in Anything
    BY <1>1, <2>1, PieceOfLine, ListsOfAnything
  <2>5. QED
    BY <1>1, <2>1, <2>3, <2>4
<1>3. /\ line.kind = "bare" /\ GroupedIn(in2, n + 1) => LineBody(in2) = L
      /\ ~(line.kind = "bare" /\ GroupedIn(in2, n + 1)) => LineBody(in2) = Also(L, piece)
      /\ EndBody(in2) = Also(L, piece)
  BY <1>1, BodyGrows
<1>4. GroupedIn(in2, n + 1) <=> OpenIn(in) \/ IsSSEField(line)
  BY GroupGrows
<1>5. piece = Space => Also(L, piece) = L
  BY SpaceAddsNothing
<1>6. Also(L, piece) = N \o Also(G, piece)
  BY <1>2, AlsoBehind
<1>7. /\ line.kind = "data" => DocsOf(group) = Also(G, piece)
      /\ line.kind # "data" => DocsOf(group) = G
  BY <1>1, <1>2, DocsOfMore DEF Gathered
<1>8. /\ line.kind = "bare" => TailOf(line) = <<piece>>
      /\ line.kind # "bare" => TailOf(line) = <<>>
      /\ Alone(line) = <<piece>>
  BY <1>1 DEF TailOf, Alone
<1>9. TailOf(line) \in Payload /\ Alone(line) \in Payload
  BY <1>2, <1>8, OneElement, EmptySeq DEF Payload
<1>10. line.kind \in {"data", "bare", "field", "blank"} /\ (line.kind \in {"field", "blank"} => piece = Space)
  BY <1>1, <1>2, PieceOfLine
<1>11. DocsOf(<<piece>>) = Also(<<>>, piece)
  BY <1>2, DocsOfOne
<1>12. ASSUME OpenIn(in) \/ IsSSEField(line), line.kind # "blank"
       PROVE  LineBody(in2) = N \o DocsOf(group)
  <2>1. CASE line.kind = "data"
    BY <1>3, <1>6, <1>7, <2>1
  <2>2. CASE line.kind = "bare"
    BY <1>2, <1>3, <1>4, <1>7, <1>12, <2>2
  <2>3. CASE line.kind = "field"
    BY <1>2, <1>3, <1>5, <1>7, <1>10, <2>3
  <2>4. QED
    BY <1>10, <1>12, <2>1, <2>2, <2>3
<1>13. ASSUME NEW st2, OpenIn(in) \/ IsSSEField(line), line.kind = "blank", st2 = Emit(st, D), st2.status = "scanning"
       PROVE  LineBody(in2) = Drawn(st2.delivered, Docs)
  <2>1. LineBody(in2) = L
    BY <1>3, <1>5, <1>10, <1>13
  <2>2. Drawn(st2.delivered, Docs) = N \o G
    BY <1>1, <1>13, EmitDraws
  <2>3. QED
    BY <1>2, <2>1, <2>2
<1>14. ASSUME NEW st2, st2 = Emit(Emit(st, group), TailOf(line)), st2.status = "scanning"
       PROVE  EndBody(in2) = Drawn(st2.delivered, Docs)
  <2>1. PICK st1 : st1 = Emit(st, group)
    OBVIOUS
  <2>2. st1 \in ScanState
    BY <2>1, EmitExtends
  <2>3. st1.status = "scanning" /\ Drawn(st2.delivered, Docs) = Drawn(st1.delivered, Docs) \o DocsOf(TailOf(line))
    BY <1>9, <1>14, <2>1, <2>2, EmitDraws
  <2>4. Drawn(st1.delivered, Docs) = N \o DocsOf(group)
    BY <1>1, <2>1, <2>3, EmitDraws
  <2>5. Drawn(st2.delivered, Docs) = (N \o DocsOf(group)) \o DocsOf(TailOf(line))
    BY <2>3, <2>4
  <2>6. CASE line.kind = "bare"
    <3>1. Drawn(st2.delivered, Docs) = L \o Also(<<>>, piece)
      BY <1>2, <1>7, <1>8, <1>11, <2>5, <2>6
    <3>2. L \o Also(<<>>, piece) = Also(L, piece)
      BY <1>2, AlsoBehindNothing
    <3>3. QED
      BY <1>3, <3>1, <3>2
  <2>7. CASE line.kind # "bare"
    <3>1. DocsOf(TailOf(line)) = <<>>
      BY <1>8, <2>7, DocsOfNothing
    <3>2. N \o DocsOf(group) = Also(L, piece)
      BY <1>2, <1>5, <1>6, <1>7, <1>10, <2>7
    <3>3. DocsOf(group) \in Seq(Anything) /\ N \o DocsOf(group) \in Seq(Anything)
      <4>1. DocsOf(group) \in Seq(Anything)
        BY PieceDocsType, ListsOfAnything
      <4>2. QED
        BY <1>2, <4>1
    <3>4. (N \o DocsOf(group)) \o <<>> = N \o DocsOf(group)
      BY <3>3, ConcatEmptySeq
    <3>5. QED
      BY <1>3, <2>5, <3>1, <3>2, <3>4
  <2>8. QED
    BY <2>6, <2>7
<1>15. ASSUME NEW st2, ~(OpenIn(in) \/ IsSSEField(line)), D = <<>>, st2 = Emit(st, Alone(line)), st2.status = "scanning"
       PROVE  LineBody(in2) = Drawn(st2.delivered, Docs) /\ EndBody(in2) = Drawn(st2.delivered, Docs)
  <2>1. Drawn(st2.delivered, Docs) = N \o Also(<<>>, piece)
    BY <1>1, <1>8, <1>9, <1>11, <1>15, EmitDraws, ZenonT(40)
  <2>2. G = <<>>
    BY <1>1, <1>15, DocsOfNothing
  <2>3. LineBody(in2) = Also(L, piece)
    BY <1>3, <1>4, <1>15
  <2>4. QED
    BY <1>3, <1>6, <2>1, <2>2, <2>3
<1>16. QED
  BY <1>1, <1>12, <1>13, <1>14, <1>15

(* What the turns of ScanFrames make of Embodied.                           *)
LEMMA LineEmbodies ==
    ASSUME ScanInv, Embodied, NEW line \in Lines, InGroup(line) \/ EndOfGroup(line) \/ BareLine(line)
    PROVE  Embodied'
<1> USE DEF Turned
<1>1. Read(line, FALSE) /\ status = "scanning"
  BY DEF InGroup, EndOfGroup, BareLine, Read
<1>2. PICK in, n, in2, st : Turned(line, FALSE, in, n, in2, st)
  BY <1>1, ScanTurn
<1>3. PICK D, group : D = sseData /\ group = DataIn(in2, n + 1)
  OBVIOUS
<1>4. D \in Payload /\ group \in Payload /\ Gathered(line, D, group)
  BY <1>2, <1>3 DEF ScanInv, TypeOK, Payload, Gathered
<1>5. /\ st.status = "scanning" /\ LineBody(in) = Drawn(st.delivered, Docs) \o DocsOf(D)
      /\ Read2(in, line, n, in2) /\ st \in ScanState /\ in2 = input' /\ st = Now
      /\ (inSSE <=> OpenIn(in)) /\ st.delivered = delivered
  BY <1>1, <1>2, <1>3 DEF Embodied, Now
<1>0. Turning(in, line, n, in2, st, D, group)
  BY <1>4, <1>5 DEF Turning
<1>6. CASE InGroup(line)
  <2>1. (OpenIn(in) \/ IsSSEField(line)) /\ line.kind # "blank"
    BY <1>5, <1>6 DEF InGroup
  <2>2. LineBody(in2) = Drawn(st.delivered, Docs) \o DocsOf(group)
    BY <1>0, <2>1, TurnEmbodies
  <2>3. sseData' = group /\ delivered' = delivered /\ status' = "scanning"
    BY <1>1, <1>2, <1>3, <1>6 DEF InGroup
  <2>4. QED
    BY <1>5, <2>2, <2>3 DEF Embodied
<1>7. CASE EndOfGroup(line)
  <2>1. (OpenIn(in) \/ IsSSEField(line)) /\ line.kind = "blank"
    BY <1>5, <1>7 DEF EndOfGroup
  <2>2. PICK st2 : st2 = Emit(st, D) /\ delivered' = st2.delivered /\ status' = st2.status /\ sseData' = <<>>
    BY <1>3, <1>5, <1>7 DEF EndOfGroup, Become
  <2>3. st2 \in ScanState
    BY <1>5, <2>2, EmitExtends
  <2>4. st2.status = "scanning" => LineBody(in2) = Drawn(st2.delivered, Docs)
    BY <1>0, <2>1, <2>2, TurnEmbodies
  <2>5. PICK N : N = Drawn(st2.delivered, Docs) /\ N \in Seq(Receivable)
    BY <2>3, DrawnType DEF ScanState, Deliveries
  <2>6. N \o DocsOf(<<>>) = N
    BY <2>5, DocsOfNothing
  <2>7. status' # "ended"
    BY <2>2, <2>3 DEF ScanState
  <2>8. QED
    BY <1>5, <2>2, <2>4, <2>5, <2>6, <2>7 DEF Embodied
<1>8. CASE BareLine(line)
  <2>1. ~(OpenIn(in) \/ IsSSEField(line)) /\ D = <<>>
    BY <1>3, <1>5, <1>8 DEF BareLine, ScanInv, TypeOK
  <2>2. PICK st2 : st2 = Emit(st, Alone(line)) /\ delivered' = st2.delivered /\ status' = st2.status /\ sseData' = <<>>
    BY <1>3, <1>5, <1>8, <2>1 DEF BareLine, Become, Alone
  <2>3. st2 \in ScanState
    BY <1>5, <2>2, EmitExtends
  <2>4. st2.status = "scanning" => LineBody(in2) = Drawn(st2.delivered, Docs)
    BY <1>0, <2>1, <2>2, TurnEmbodies
  <2>5. PICK N : N = Drawn(st2.delivered, Docs) /\ N \in Seq(Receivable)
    BY <2>3, DrawnType DEF ScanState, Deliveries
  <2>6. N \o DocsOf(<<>>) = N
    BY <2>5, DocsOfNothing
  <2>7. status' # "ended"
    BY <2>2, <2>3 DEF ScanState
  <2>8. QED
    BY <1>5, <2>2, <2>4, <2>5, <2>6, <2>7 DEF Embodied
<1>9. QED
  BY <1>6, <1>7, <1>8

LEMMA LastLineEmbodies ==
    ASSUME ScanInv, Embodied, NEW line \in Lines \cup {Blank}, LastLineInGroup(line) \/ LastBareLine(line)
    PROVE  Embodied'
<1> USE DEF Turned
<1>1. Read(line, TRUE) /\ status = "scanning"
  BY DEF LastLineInGroup, LastBareLine, Read
<1>2. PICK in, n, in2, st : Turned(line, TRUE, in, n, in2, st)
  BY <1>1, ScanTurn
<1>3. PICK D, group : D = sseData /\ group = DataIn(in2, n + 1)
  OBVIOUS
<1>4. D \in Payload /\ group \in Payload /\ Gathered(line, D, group)
  BY <1>2, <1>3 DEF ScanInv, TypeOK, Payload, Gathered
<1>5. /\ st.status = "scanning" /\ LineBody(in) = Drawn(st.delivered, Docs) \o DocsOf(D)
      /\ Read2(in, line, n, in2) /\ st \in ScanState /\ in2 = input' /\ st = Now
      /\ (inSSE <=> OpenIn(in)) /\ st.delivered = delivered
  BY <1>1, <1>2, <1>3 DEF Embodied, Now
<1>0. Turning(in, line, n, in2, st, D, group)
  BY <1>4, <1>5 DEF Turning
<1>6. PICK st2 : /\ (OpenIn(in) \/ IsSSEField(line)) => st2 = Emit(Emit(st, group), TailOf(line))
                 /\ ~(OpenIn(in) \/ IsSSEField(line)) => st2 = Emit(st, Alone(line)) /\ D = <<>>
                 /\ st2 \in ScanState /\ Become(EndOfBody(st2))
  <2>1. CASE LastLineInGroup(line)
    <3>1. OpenIn(in) \/ IsSSEField(line)
      BY <1>5, <2>1 DEF LastLineInGroup
    <3>2. Become(EndOfBody(Emit(Emit(st, group), TailOf(line))))
      BY <1>2, <1>3, <1>5, <2>1 DEF LastLineInGroup, TailOf, Alone
    <3>3. Emit(Emit(st, group), TailOf(line)) \in ScanState
      BY <1>5, EmitExtends
    <3>4. QED
      BY <3>1, <3>2, <3>3
  <2>2. CASE LastBareLine(line)
    <3>1. ~(OpenIn(in) \/ IsSSEField(line)) /\ D = <<>>
      BY <1>3, <1>5, <2>2 DEF LastBareLine, ScanInv, TypeOK
    <3>2. Become(EndOfBody(Emit(st, Alone(line))))
      BY <1>5, <2>2 DEF LastBareLine, Alone
    <3>3. Emit(st, Alone(line)) \in ScanState
      BY <1>5, EmitExtends
    <3>4. QED
      BY <3>1, <3>2, <3>3
  <2>3. QED
    BY <2>1, <2>2
<1>7. st2.status = "scanning" => EndBody(in2) = Drawn(st2.delivered, Docs)
  BY <1>0, <1>6, TurnEmbodies
<1>8. PICK d \in Deliveries, s \in {"scanning", "malformed", "refused"} : st2 = [delivered |-> d, status |-> s]
  BY <1>6 DEF ScanState
<1>9. EndOfBody(st2) = [delivered |-> d, status |-> IF s = "scanning" THEN "ended" ELSE s]
  BY <1>8 DEF EndOfBody
<1>10. delivered' = d /\ status' # "scanning" /\ (status' = "ended" => s = "scanning")
  BY <1>6, <1>9 DEF Become
<1>11. QED
  BY <1>5, <1>7, <1>8, <1>10 DEF Embodied

(* Embodied holds of every scan.                                            *)
LEMMA ScanEmbodies == Spec => []Embodied
<1>1. Init => Embodied
  <2>1. SUFFICES ASSUME Init PROVE Embodied
    OBVIOUS
  <2>2. sseData = <<>> /\ delivered = <<>> /\ status = "scanning" /\ input = <<>>
    BY <2>1 DEF Init
  <2>3. CountedIn(<<>>) = {}
    BY DEF CountedIn
  <2>4. LineBody(<<>>) = <<>>
    BY <2>3, NothingKept DEF LineBody
  <2>5. Drawn(<<>>, Docs) \o DocsOf(<<>>) = <<>>
    BY DrawnOfNothing, DocsOfNothing
  <2>6. QED
    BY <2>2, <2>4, <2>5 DEF Embodied
<1>2. ScanInv /\ Embodied /\ [Next]_vars => Embodied'
  <2>1. SUFFICES ASSUME ScanInv, Embodied, [Next]_vars PROVE Embodied'
    OBVIOUS
  <2>2. CASE \E line \in Lines : InGroup(line) \/ EndOfGroup(line) \/ BareLine(line)
    BY <2>1, <2>2, LineEmbodies
  <2>3. CASE \E line \in Lines \cup {Blank} : LastLineInGroup(line) \/ LastBareLine(line)
    BY <2>1, <2>3, LastLineEmbodies
  <2>4. CASE ReadError
    BY <2>4 DEF ReadError, Embodied
  <2>5. CASE Stopped \/ UNCHANGED vars
    BY <2>1, <2>5 DEF Stopped, vars, Embodied
  <2>6. QED
    BY <2>1, <2>2, <2>3, <2>4, <2>5 DEF Next
<1>3. QED
  BY <1>1, <1>2, ScanInvariant, PTL DEF Spec

-----------------------------------------------------------------------------
(* The texts of deltas.                                                     *)
Deltas(type) == {e \in Events : e.type = type /\ e.text # ""}
TextList(deltas) == [k \in DOMAIN deltas |-> deltas[k].text]
TextsOf(docs, type) == TextList(Drawn(docs, Deltas(type)))

LEMMA TextListType ==
    ASSUME NEW type \in DeltaTypes, NEW seq \in Seq(Events)
    PROVE  /\ TextsOf(seq, type) \in Seq(Texts)
           /\ Drawn(seq, Deltas(type)) \in Seq(Events)
           /\ Len(TextsOf(seq, type)) = Len(Drawn(seq, Deltas(type)))
           /\ \A k \in DOMAIN Drawn(seq, Deltas(type)) :
                 TextsOf(seq, type)[k] = Drawn(seq, Deltas(type))[k].text
<1>1. PICK S, N : S = {k \in DOMAIN seq : seq[k] \in Deltas(type)} /\ N = Kept(seq, S)
  OBVIOUS
<1>2. S \in SUBSET DOMAIN seq
  BY <1>1
<1>3. /\ N \in Seq(Events) /\ DOMAIN N = 1..Len(N) /\ Len(N) \in Nat
      /\ \A k \in 1..Len(N) : N[k] \in Deltas(type)
  <2>1. /\ N \in Seq(Events) /\ Len(N) = Cardinality(S)
        /\ \A k \in 1..Cardinality(S) : Position(k, S) \in S /\ N[k] = seq[Position(k, S)]
    BY <1>1, <1>2, KeptIsTheSelection
  <2>2. QED
    BY <1>1, <2>1, LenProperties
<1>4. ASSUME NEW e \in Deltas(type) PROVE e.text \in Texts
  BY <1>4, EventFields DEF Deltas
<1>5. TextList(N) \in [1..Len(N) -> Texts]
  BY <1>3, <1>4 DEF TextList
<1>6. TextList(N) \in Seq(Texts) /\ Len(TextList(N)) = Len(N)
  BY <1>3, <1>5, FunctionIsSeq
<1>7. \A k \in DOMAIN N : TextList(N)[k] = N[k].text
  BY DEF TextList
<1>8. N = Drawn(seq, Deltas(type))
  BY <1>1 DEF Drawn
<1>9. QED
  BY <1>3, <1>6, <1>7, <1>8 DEF TextsOf

(* One more event writes its text, if it is a delta of the type.            *)
LEMMA TextsGrow ==
    ASSUME NEW type \in DeltaTypes, NEW seq \in Seq(Events), NEW e \in Events
    PROVE  /\ e.type = type => TextsOf(Append(seq, e), type) = Write(TextsOf(seq, type), e.text)
           /\ e.type # type => TextsOf(Append(seq, e), type) = TextsOf(seq, type)
<1>1. PICK N, N2 : N = Drawn(seq, Deltas(type)) /\ N2 = Drawn(Append(seq, e), Deltas(type))
  OBVIOUS
<1>2. /\ e \in Deltas(type) => N2 = Append(N, e)
      /\ e \notin Deltas(type) => N2 = N
  BY <1>1, DrawnGrows
<1>3. Append(seq, e) \in Seq(Events)
  BY OneMore
<1>4. PICK A, B : A = TextsOf(seq, type) /\ B = TextsOf(Append(seq, e), type)
  OBVIOUS
<1>5. /\ A \in Seq(Texts) /\ N \in Seq(Events) /\ Len(A) = Len(N)
      /\ \A k \in DOMAIN N : A[k] = N[k].text
  BY <1>1, <1>4, TextListType
<1>6. /\ B \in Seq(Texts) /\ N2 \in Seq(Events) /\ Len(B) = Len(N2)
      /\ \A k \in DOMAIN N2 : B[k] = N2[k].text
  BY <1>1, <1>3, <1>4, TextListType
<1>7. CASE e \in Deltas(type)
  <2>1. e.type = type /\ e.text # "" /\ e.text \in Texts
    BY <1>7, EventFields DEF Deltas
  <2>2. PICK x \in Texts : x = e.text
    BY <2>1
  <2>3. /\ N2 = Append(N, e) /\ Len(N2) = Len(N) + 1 /\ N2[Len(N) + 1] = e
        /\ \A k \in 1..Len(N) : N2[k] = N[k]
    <3>1. /\ Len(Append(N, e)) = Len(N) + 1 /\ Append(N, e)[Len(N) + 1] = e
          /\ \A k \in 1..Len(N) : Append(N, e)[k] = N[k]
      BY <1>5, OneMore
    <3>2. QED
      BY <1>2, <1>7, <3>1
  <2>4. /\ Len(N) \in Nat /\ DOMAIN N = 1..Len(N) /\ DOMAIN N2 = 1..(Len(N) + 1)
    BY <1>5, <1>6, <2>3, LenProperties
  <2>5. PICK C : C = Append(A, x)
    OBVIOUS
  <2>6. /\ C \in Seq(Texts) /\ Len(C) = Len(A) + 1 /\ C[Len(A) + 1] = x
        /\ \A k \in 1..Len(A) : C[k] = A[k]
    BY <1>5, <2>5, OneMore
  <2>7. Len(C) = Len(N) + 1 /\ Len(B) = Len(N) + 1
    BY <1>5, <1>6, <2>3, <2>6
  <2>8. ASSUME NEW k \in 1..Len(B) PROVE B[k] = C[k]
    <3>1. CASE k = Len(N) + 1
      BY <1>5, <1>6, <2>2, <2>3, <2>4, <2>6, <2>7, <3>1
    <3>2. CASE k # Len(N) + 1
      <4>1. k \in 1..Len(N) /\ k \in DOMAIN N2
        BY <2>4, <2>7, <3>2
      <4>2. QED
        BY <1>5, <1>6, <2>3, <2>4, <2>6, <4>1
    <3>3. QED
      BY <3>1, <3>2
  <2>9. B = C
    BY <1>6, <2>6, <2>7, <2>8, SeqEqual
  <2>10. QED
    BY <1>4, <2>1, <2>2, <2>5, <2>9 DEF Write
<1>8. CASE e \notin Deltas(type)
  <2>1. B = A
    BY <1>1, <1>2, <1>4, <1>8 DEF TextsOf
  <2>2. e.type = type => e.text = ""
    BY <1>8 DEF Deltas
  <2>3. QED
    BY <1>4, <2>1, <2>2 DEF Write
<1>9. QED
  BY <1>7, <1>8

(* What Apply writes to the builders, while no event has failed.            *)
LEMMA ApplyTexts ==
    ASSUME NEW e \in Events, Apply(e), err' = "none"
    PROVE  /\ err = "none"
           /\ e.type = "text-delta" => text' = Write(text, e.text)
           /\ e.type # "text-delta" => text' = text
           /\ e.type = "reasoning-delta" => reasoning' = Write(reasoning, e.text)
           /\ e.type # "reasoning-delta" => reasoning' = reasoning
<1> USE DEF FailureTypes, DeltaTypes, ProvisionalTypes, TerminalTypes
<1>1. CASE Latched(e)
  BY <1>1 DEF Latched, reducerState
<1>2. CASE ReasoningDelta(e)
  BY <1>2 DEF ReasoningDelta
<1>3. CASE TextDelta(e)
  BY <1>3 DEF TextDelta
<1>4. CASE Ignored(e)
  BY <1>4 DEF Ignored, reducerState
<1>5. CASE InvalidToolCall(e)
  BY <1>5 DEF InvalidToolCall
<1>6. CASE DuplicateToolCall(e)
  BY <1>6 DEF DuplicateToolCall, reducerState
<1>7. CASE ToolCall(e)
  BY <1>7 DEF ToolCall
<1>8. CASE Terminal(e)
  BY <1>8 DEF Terminal
<1>9. CASE UpstreamFailure(e)
  BY <1>9 DEF UpstreamFailure
<1>10. QED
  BY <1>1, <1>2, <1>3, <1>4, <1>5, <1>6, <1>7, <1>8, <1>9 DEF Apply

(* The builders of a reducer that has not failed hold the texts of the      *)
(* documents that were applied.                                             *)
TextInv ==
    err = "none" => /\ text = TextsOf(Drawn(applied, Docs), "text-delta")
                    /\ reasoning = TextsOf(Drawn(applied, Docs), "reasoning-delta")

LEMMA TextStep ==
    ASSUME ReducerTypeOK, TextInv, NEW e \in Events, Apply(e)
    PROVE  TextInv'
<1>1. SUFFICES ASSUME err' = "none"
      PROVE  /\ text' = TextsOf(Drawn(applied', Docs), "text-delta")
             /\ reasoning' = TextsOf(Drawn(applied', Docs), "reasoning-delta")
  BY DEF TextInv
<1>2. applied \in Seq(Events) /\ applied' = Append(applied, e)
  BY ApplyReceives DEF ReducerTypeOK, Receive
<1>3. PICK N, N2 : N = Drawn(applied, Docs) /\ N2 = Drawn(Append(applied, e), Docs)
  OBVIOUS
<1>4. N \in Seq(Events) /\ (e \in Docs => N2 = Append(N, e)) /\ (e \notin Docs => N2 = N)
  BY <1>2, <1>3, DrawnType, DrawnGrows
<1>5. e \notin Docs => e.type = "unknown"
  BY DocsAssumption, NullAssumption
<1>6. /\ "text-delta" \in DeltaTypes /\ "reasoning-delta" \in DeltaTypes
      /\ "unknown" # "text-delta" /\ "unknown" # "reasoning-delta"
  BY DEF DeltaTypes
<1>7. text = TextsOf(N, "text-delta") /\ reasoning = TextsOf(N, "reasoning-delta")
  BY <1>1, <1>3, ApplyTexts DEF TextInv
<1>a. ASSUME NEW type \in DeltaTypes, e \in Docs
      PROVE  /\ e.type = type => TextsOf(N2, type) = Write(TextsOf(N, type), e.text)
             /\ e.type # type => TextsOf(N2, type) = TextsOf(N, type)
  <2>1. /\ e.type = type => TextsOf(Append(N, e), type) = Write(TextsOf(N, type), e.text)
        /\ e.type # type => TextsOf(Append(N, e), type) = TextsOf(N, type)
    BY <1>4, TextsGrow
  <2>2. QED
    BY <1>4, <1>a, <2>1
<1>8. text' = TextsOf(N2, "text-delta")
  <2>1. CASE e \in Docs
    <3>1. /\ e.type = "text-delta" => TextsOf(N2, "text-delta") = Write(TextsOf(N, "text-delta"), e.text)
          /\ e.type # "text-delta" => TextsOf(N2, "text-delta") = TextsOf(N, "text-delta")
      BY <1>6, <1>a, <2>1
    <3>2. QED
      BY <1>1, <1>7, <3>1, ApplyTexts
  <2>2. CASE e \notin Docs
    BY <1>1, <1>4, <1>5, <1>6, <1>7, <2>2, ApplyTexts
  <2>3. QED
    BY <2>1, <2>2
<1>9. reasoning' = TextsOf(N2, "reasoning-delta")
  <2>1. CASE e \in Docs
    <3>1. /\ e.type = "reasoning-delta" =>
                TextsOf(N2, "reasoning-delta") = Write(TextsOf(N, "reasoning-delta"), e.text)
          /\ e.type # "reasoning-delta" => TextsOf(N2, "reasoning-delta") = TextsOf(N, "reasoning-delta")
      BY <1>6, <1>a, <2>1
    <3>2. QED
      BY <1>1, <1>7, <3>1, ApplyTexts
  <2>2. CASE e \notin Docs
    BY <1>1, <1>4, <1>5, <1>6, <1>7, <2>2, ApplyTexts
  <2>3. QED
    BY <2>1, <2>2
<1>10. QED
  BY <1>2, <1>3, <1>8, <1>9

LEMMA TextInvariant == ReducerSpec => []TextInv
<1>1. NewReducer => TextInv
  <2>1. SUFFICES ASSUME NewReducer PROVE TextInv
    OBVIOUS
  <2>2. text = <<>> /\ reasoning = <<>> /\ applied = <<>>
    BY <2>1 DEF NewReducer
  <2>3. \A type \in DeltaTypes : TextsOf(<<>>, type) = <<>>
    <3>1. ASSUME NEW type \in DeltaTypes PROVE TextsOf(<<>>, type) = <<>>
      <4>1. Drawn(<<>>, Deltas(type)) = <<>>
        BY DrawnOfNothing
      <4>2. TextList(<<>>) = <<>>
        BY DEF TextList
      <4>3. QED
        BY <4>1, <4>2 DEF TextsOf
    <3>2. QED
      BY <3>1
  <2>4. Drawn(<<>>, Docs) = <<>>
    BY DrawnOfNothing
  <2>5. QED
    BY <2>2, <2>3, <2>4 DEF TextInv, DeltaTypes
<1>2. ReducerTypeOK /\ TextInv /\ [ReducerNext]_reducerVars => TextInv'
  <2>1. SUFFICES ASSUME ReducerTypeOK, TextInv, [ReducerNext]_reducerVars PROVE TextInv'
    OBVIOUS
  <2>2. CASE ReducerNext
    BY <2>1, <2>2, TextStep DEF ReducerNext
  <2>3. CASE UNCHANGED reducerVars
    BY <2>1, <2>3 DEF reducerVars, reducerState, TextInv
  <2>4. QED
    BY <2>1, <2>2, <2>3
<1>3. QED
  BY <1>1, <1>2, ReducerTypeCorrect, PTL DEF ReducerSpec

-----------------------------------------------------------------------------
(* The documents that were applied, as a list N of what is applied at the   *)
(* places at[1], at[2], ...: all places but those of the null event.        *)
Listed(N, a, at) ==
    /\ at \in [DOMAIN N -> DOMAIN a]
    /\ \A k \in DOMAIN N : N[k] = a[at[k]] /\ N[k] \in Docs
    /\ \A i \in DOMAIN a : a[i] \in Docs => \E k \in DOMAIN N : at[k] = i
    /\ DOMAIN N \subseteq Nat /\ DOMAIN a \subseteq Nat
    /\ \A k, l \in DOMAIN N : k <= l <=> at[k] <= at[l]

LEMMA DocumentsAreListed ==
    ASSUME NEW a \in Seq(Events)
    PROVE  \E at : Listed(Drawn(a, Docs), a, at)
<1>1. PICK S, N : S = {k \in DOMAIN a : a[k] \in Docs} /\ N = Drawn(a, Docs) /\ N = Kept(a, S)
  BY DEF Drawn
<1>2. S \in SUBSET DOMAIN a
  BY <1>1
<1>3. InOrder(N, S, a)
  BY <1>1, <1>2, KeptInOrder
<1>4. PICK at \in [DOMAIN N -> S] :
         /\ \A k, l \in DOMAIN N : k < l => at[k] < at[l]
         /\ {at[k] : k \in DOMAIN N} = S
         /\ \A k \in DOMAIN N : N[k] = a[at[k]]
  BY <1>3 DEF InOrder
<1>5. DOMAIN N \subseteq Nat /\ DOMAIN a \subseteq Nat
  <2>1. N \in Seq(Events)
    BY <1>1, DrawnType
  <2>2. DOMAIN N = 1..Len(N) /\ DOMAIN a = 1..Len(a)
    BY <2>1, LenProperties
  <2>3. QED
    BY <2>2
<1>6. \A k \in DOMAIN N : at[k] \in S /\ at[k] \in DOMAIN a /\ N[k] \in Docs
  BY <1>1, <1>4
<1>7. at \in [DOMAIN N -> DOMAIN a]
  BY <1>4, <1>6
<1>8. \A i \in DOMAIN a : a[i] \in Docs => \E k \in DOMAIN N : at[k] = i
  BY <1>1, <1>4
<1>9. ASSUME NEW k \in DOMAIN N, NEW l \in DOMAIN N PROVE k <= l <=> at[k] <= at[l]
  <2>1. k \in Nat /\ l \in Nat /\ at[k] \in Nat /\ at[l] \in Nat
    BY <1>5, <1>6
  <2>2. (k < l => at[k] < at[l]) /\ (l < k => at[l] < at[k])
    BY <1>4
  <2>3. QED
    BY <2>1, <2>2
<1>10. Listed(N, a, at)
  BY <1>4, <1>5, <1>6, <1>7, <1>8, <1>9 DEF Listed
<1>11. QED
  BY <1>1, <1>10

(* What a reducer heeds is in that list, if no event fails.                 *)
TerminalsOf(N) == {k \in DOMAIN N : IsTerminal(N[k])}
CallsOf(N) == {k \in DOMAIN N : N[k].type = "tool-call"}
ClaimedBy(N) ==
    \E k \in TerminalsOf(N) : (\A l \in TerminalsOf(N) : l <= k) /\ N[k].reason \in ToolCallReasons

LEMMA HeededAreListed ==
    ASSUME NEW N, NEW at, Listed(N, applied, at), applied \in Seq(Events),
           \A i \in DOMAIN applied : ~Fails(applied[i])
    PROVE  /\ \A i : i \in HeededTerminals <=> \E k \in TerminalsOf(N) : at[k] = i
           /\ \A i : i \in HeededCalls <=> \E k \in CallsOf(N) : at[k] = i
           /\ ClaimedBy(N) <=> \E i \in DOMAIN applied : IsLast(i, HeededTerminals) /\ ClaimsTools(i)
<1>1. /\ DOMAIN N \subseteq Nat /\ DOMAIN applied \subseteq Nat
      /\ \A k \in DOMAIN N : at[k] \in DOMAIN applied /\ N[k] = applied[at[k]]
      /\ \A i \in DOMAIN applied : applied[i] \in Docs => \E k \in DOMAIN N : at[k] = i
      /\ \A k, l \in DOMAIN N : k <= l <=> at[k] <= at[l]
  BY DEF Listed
<1>2. \A i \in DOMAIN applied : Heeded(i)
  <2>1. DOMAIN applied = 1..Len(applied) /\ Len(applied) \in Nat
    BY LenProperties
  <2>2. QED
    BY <2>1 DEF Heeded
<1>3. \A i \in DOMAIN applied : applied[i] \in Docs \/ applied[i].type = "unknown"
  BY DocsAssumption, NullAssumption, ElementOfSeq, LenProperties
<1>4. \A i \in DOMAIN applied : IsTerminal(applied[i]) \/ applied[i].type = "tool-call" => applied[i] \in Docs
  BY <1>3 DEF IsTerminal, TerminalTypes
<1>5. ASSUME NEW i PROVE i \in HeededTerminals <=> \E k \in TerminalsOf(N) : at[k] = i
  BY <1>1, <1>2, <1>4 DEF HeededTerminals, TerminalsOf
<1>6. ASSUME NEW i PROVE i \in HeededCalls <=> \E k \in CallsOf(N) : at[k] = i
  BY <1>1, <1>2, <1>4 DEF HeededCalls, CallsOf
<1>7. ASSUME NEW k \in TerminalsOf(N)
      PROVE  IsLast(at[k], HeededTerminals) <=> \A l \in TerminalsOf(N) : l <= k
  <2>1. k \in DOMAIN N /\ TerminalsOf(N) \subseteq DOMAIN N
    BY DEF TerminalsOf
  <2>2. at[k] \in HeededTerminals
    BY <1>5
  <2>3. ASSUME IsLast(at[k], HeededTerminals), NEW l \in TerminalsOf(N) PROVE l <= k
    <3>1. at[l] \in HeededTerminals
      BY <1>5
    <3>2. at[l] <= at[k]
      BY <2>3, <3>1 DEF IsLast
    <3>3. QED
      BY <1>1, <2>1, <3>2
  <2>4. ASSUME \A l \in TerminalsOf(N) : l <= k PROVE IsLast(at[k], HeededTerminals)
    <3>1. ASSUME NEW j \in HeededTerminals PROVE j <= at[k]
      <4>1. PICK l \in TerminalsOf(N) : at[l] = j
        BY <1>5
      <4>2. QED
        BY <1>1, <2>1, <2>4, <4>1
    <3>2. QED
      BY <2>2, <3>1 DEF IsLast
  <2>5. QED
    BY <2>3, <2>4
<1>8. ASSUME ClaimedBy(N)
      PROVE  \E i \in DOMAIN applied : IsLast(i, HeededTerminals) /\ ClaimsTools(i)
  <2>1. PICK k \in TerminalsOf(N) : (\A l \in TerminalsOf(N) : l <= k) /\ N[k].reason \in ToolCallReasons
    BY <1>8 DEF ClaimedBy
  <2>2. k \in DOMAIN N
    BY DEF TerminalsOf
  <2>3. IsLast(at[k], HeededTerminals)
    BY <1>7, <2>1
  <2>4. QED
    BY <1>1, <2>1, <2>2, <2>3 DEF ClaimsTools
<1>9. ASSUME NEW i \in DOMAIN applied, IsLast(i, HeededTerminals), ClaimsTools(i)
      PROVE  ClaimedBy(N)
  <2>1. PICK k \in TerminalsOf(N) : at[k] = i
    BY <1>5, <1>9 DEF IsLast
  <2>2. k \in DOMAIN N
    BY DEF TerminalsOf
  <2>3. \A l \in TerminalsOf(N) : l <= k
    BY <1>7, <1>9, <2>1
  <2>4. QED
    BY <1>1, <1>9, <2>1, <2>2, <2>3 DEF ClaimedBy, ClaimsTools
<1>10. QED
  BY <1>5, <1>6, <1>8, <1>9

(* The answer of a scan that reached the end of the body.                   *)
LEMMA EndedAnswers ==
    ASSUME ReducerInv, TextInv, ScanInv, Embodied, applied = delivered, status = "ended",
           NEW N, N = BodyDocs
    PROVE  /\ FinishError = "none" <=>
                 TerminalsOf(N) # {} /\ (ClaimedBy(N) => CallsOf(N) # {})
           /\ \A k \in DOMAIN N : ~Fails(N[k])
           /\ text = TextsOf(N, "text-delta") /\ reasoning = TextsOf(N, "reasoning-delta")
           /\ {tools[k].id : k \in DOMAIN tools} = {ToolOf(N[k]).id : k \in CallsOf(N)}
<1>1. applied \in Seq(Events) /\ FailureInv /\ ToolIndexAgrees /\ CallsInv
  BY DEF ReducerInv, ReducerTypeOK
<1>2. N = Drawn(applied, Docs)
  <2>1. eof
    BY DEF ScanInv, TypeOK
  <2>2. N = EndBody(input)
    BY <2>1, BodyOfTheInput
  <2>3. QED
    BY <2>2 DEF Embodied
<1>3. \A i \in DOMAIN applied : ~Fails(applied[i])
  <2>1. \E F : Told(F, applied, "ended")
    BY DEF ScanInv, TypeOK, FramesTold
  <2>2. \A i \in 1..Len(applied) : applied[i] \notin Refused
    BY <2>1 DEF Told
  <2>3. DOMAIN applied = 1..Len(applied) /\ \A i \in 1..Len(applied) : applied[i] \in Events
    BY <1>1, LenProperties, ElementOfSeq
  <2>4. QED
    BY <2>2, <2>3, RefusedAreFailures
<1>4. err = "none"
  BY <1>1, <1>3 DEF FailureInv
<1>5. text = TextsOf(N, "text-delta") /\ reasoning = TextsOf(N, "reasoning-delta")
  BY <1>2, <1>4 DEF TextInv
<1>6. PICK at : Listed(N, applied, at)
  BY <1>1, <1>2, DocumentsAreListed
<1>7. /\ \A k \in DOMAIN N : at[k] \in DOMAIN applied /\ N[k] = applied[at[k]]
  BY <1>6 DEF Listed
<1>8. /\ \A i : i \in HeededTerminals <=> \E k \in TerminalsOf(N) : at[k] = i
      /\ \A i : i \in HeededCalls <=> \E k \in CallsOf(N) : at[k] = i
      /\ ClaimedBy(N) <=> \E i \in DOMAIN applied : IsLast(i, HeededTerminals) /\ ClaimsTools(i)
  BY <1>1, <1>3, <1>6, HeededAreListed
<1>9. HeededTerminals # {} <=> TerminalsOf(N) # {}
  BY <1>8
<1>10. HeededCalls # {} <=> CallsOf(N) # {}
  BY <1>8
<1>11. FinishError = "none" <=> TerminalsOf(N) # {} /\ (ClaimedBy(N) => CallsOf(N) # {})
  <2>1. FinishError = "none" <=>
           /\ HeededTerminals # {}
           /\ (\E i \in DOMAIN applied : IsLast(i, HeededTerminals) /\ ClaimsTools(i)) => HeededCalls # {}
    BY <1>3, InvEarns DEF EarnedCompletion
  <2>2. QED
    BY <1>8, <1>9, <1>10, <2>1
<1>12. \A k \in DOMAIN N : ~Fails(N[k])
  BY <1>3, <1>7
<1>13. {tools[k].id : k \in DOMAIN tools} = {ToolOf(N[k]).id : k \in CallsOf(N)}
  <2>1. {tools[k].id : k \in DOMAIN tools} = {ToolOf(applied[i]).id : i \in HeededCalls}
    BY <1>1 DEF ToolIndexAgrees, CallsInv
  <2>2. \A k \in CallsOf(N) : N[k] = applied[at[k]]
    BY <1>7 DEF CallsOf
  <2>3. {ToolOf(applied[i]).id : i \in HeededCalls} = {ToolOf(applied[at[k]]).id : k \in CallsOf(N)}
    BY <1>8
  <2>4. {ToolOf(applied[at[k]]).id : k \in CallsOf(N)} = {ToolOf(N[k]).id : k \in CallsOf(N)}
    BY <2>2
  <2>5. QED
    BY <2>1, <2>3, <2>4
<1>14. QED
  BY <1>5, <1>11, <1>12, <1>13

(* The texts of the body are those of its deltas.                           *)
LEMMA TextsOfTheBody ==
    ASSUME NEW type \in DeltaTypes, BodyDocs \in Seq(Events)
    PROVE  BodyTexts(type) = TextsOf(BodyDocs, type)
<1>1. PICK N : N = BodyDocs
  OBVIOUS
<1>2. DOMAIN N = 1..Len(N) /\ \A k \in 1..Len(N) : N[k] \in Events
  BY <1>1, LenProperties, ElementOfSeq
<1>3. {k \in DOMAIN N : N[k].type = type /\ N[k].text # ""} = {k \in DOMAIN N : N[k] \in Deltas(type)}
  BY <1>2 DEF Deltas
<1>4. Kept(N, {k \in DOMAIN N : N[k].type = type /\ N[k].text # ""}) = Drawn(N, Deltas(type))
  BY <1>3 DEF Drawn
<1>5. PICK deltas : deltas = Drawn(N, Deltas(type))
  OBVIOUS
<1>6. BodyTexts(type) = [k \in DOMAIN deltas |-> deltas[k].text]
  BY <1>1, <1>4, <1>5 DEF BodyTexts
<1>7. QED
  BY <1>1, <1>5, <1>6 DEF TextsOf, TextList

(* The answer is of the body, whatever Reduce returns.                      *)
LEMMA BodyIsAnswered ==
    ReducerInv /\ TextInv /\ ScanInv /\ Embodied => AnswerIsOfTheBody
<1>1. SUFFICES ASSUME ReducerInv, TextInv, ScanInv, Embodied, Returned PROVE AnswerIsOfTheBody
  BY DEF AnswerIsOfTheBody
<1>2. status # "scanning" /\ applied = delivered
  BY <1>1 DEF Returned
<1>3. PICK N : N = BodyDocs
  OBVIOUS
<1>4. /\ TerminalsOf(N) = {k \in DOMAIN BodyDocs : IsTerminal(BodyDocs[k])}
      /\ CallsOf(N) = {k \in DOMAIN BodyDocs : BodyDocs[k].type = "tool-call"}
      /\ ClaimedBy(N) <=>
            \E k \in TerminalsOf(N) :
               (\A l \in TerminalsOf(N) : l <= k) /\ BodyDocs[k].reason \in ToolCallReasons
  BY <1>3 DEF TerminalsOf, CallsOf, ClaimedBy
<1>5. ASSUME status = "refused" PROVE err # "none"
  <2>1. \E F : Told(F, delivered, "refused")
    BY <1>1, <1>5 DEF ScanInv, TypeOK, FramesTold
  <2>2. Len(delivered) # 0 /\ delivered[Len(delivered)] \in Refused
    BY <2>1 DEF Told
  <2>3. applied \in Seq(Events) /\ FailureInv
    BY <1>1 DEF ReducerInv, ReducerTypeOK
  <2>4. Len(applied) \in DOMAIN applied /\ Fails(applied[Len(applied)])
    BY <1>2, <2>2, <2>3, LenProperties, RefusedAreFailures
  <2>5. QED
    BY <2>3, <2>4 DEF FailureInv
<1>6. CASE status = "ended"
  <2>1. /\ FinishError = "none" <=>
                 TerminalsOf(N) # {} /\ (ClaimedBy(N) => CallsOf(N) # {})
        /\ \A k \in DOMAIN N : ~Fails(N[k])
        /\ text = TextsOf(N, "text-delta") /\ reasoning = TextsOf(N, "reasoning-delta")
        /\ {tools[k].id : k \in DOMAIN tools} = {ToolOf(N[k]).id : k \in CallsOf(N)}
    BY <1>1, <1>2, <1>3, <1>6, EndedAnswers, ZenonT(40)
  <2>2. N \in Seq(Events)
    <3>1. N = Drawn(delivered, Docs)
      BY <1>1, <1>3, <1>6, BodyOfTheInput DEF Embodied, ScanInv, TypeOK
    <3>2. QED
      BY <1>1, <3>1, DeliveredAreEvents, DrawnType DEF ScanInv
  <2>3. text = BodyTexts("text-delta") /\ reasoning = BodyTexts("reasoning-delta")
    BY <1>3, <2>1, <2>2, TextsOfTheBody DEF DeltaTypes
  <2>4. ReduceError = FinishError
    BY <1>6 DEF ReduceError
  <2>5. status # "refused"
    BY <1>6
  <2>6. QED
    BY <1>3, <1>4, <1>6, <2>1, <2>3, <2>4, <2>5 DEF AnswerIsOfTheBody
<1>7. CASE status # "ended"
  <2>1. ReduceError # "none"
    <3>1. CASE status = "refused"
      BY <1>5, <3>1 DEF ReduceError
    <3>2. CASE status \in {"malformed", "read_error"}
      BY <3>2 DEF ReduceError
    <3>3. QED
      BY <1>1, <1>2, <1>7, <3>1, <3>2 DEF ScanInv, TypeOK
  <2>2. QED
    BY <1>5, <1>7, <2>1 DEF AnswerIsOfTheBody
<1>8. QED
  BY <1>6, <1>7

(* Reduce answers a body with what its lines carry, and with success exactly*)
(* when it was read to its end and they earned it.                          *)
THEOREM AnswersAreOfTheBody == PipelineSpec => []AnswerIsOfTheBody
BY PipelineScans, PipelineReduces, ScanInvariant, ScanEmbodies, ReducerInvariant, TextInvariant,
   BodyIsAnswered, PTL
=============================================================================
