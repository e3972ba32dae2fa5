-------------------------- MODULE PiAdapterProofs --------------------------
(***************************************************************************)
(* Proofs about PiAdapter for every set of events, documents and ids, and  *)
(* every bound.                                                            *)
(***************************************************************************)
EXTENDS PiAdapter, HistoryProofs

-----------------------------------------------------------------------------
(* Types of what the actions compute.                                       *)

ToolTypes == {"tool-input-start", "tool-input-delta"} \cup ToolEndTypes
BlockTypes == StartTypes \cup DeltaTypes \cup EndTypes \cup ToolTypes
AllTypes == BlockTypes \cup TerminalTypes \cup {"error", "abort", "other"}
StopReasons == {"stop", "length", "toolUse"}

(* What kind of event carries which field.                                  *)
LEMMA EventFields ==
    ASSUME NEW e \in Events
    PROVE  /\ e # Malformed
           /\ e.type \in AllTypes
           /\ e.type \in BlockTypes => e.id \in Ids \cup {NoId}
           /\ e.type \in DeltaTypes => e.text \in Texts \cup {""}
           /\ e.type = "tool-input-delta" => e.delta \in Pieces \cup {""}
           /\ e.type \in ToolEndTypes => e.input \in Values /\ e.args \in Values
           /\ e.type \in TerminalTypes =>
                 /\ e.usage \in RawUsage \cup {NoUsage}
                 /\ e.reason \in {"", "stop", "length", "other"} \cup ToolUseReasons
<1>1. e \in Event /\ e # Malformed
  BY PiEventsAssumption
<1>2. e.type \in AllTypes
  BY <1>1 DEF Event, AllTypes, BlockTypes, ToolTypes, StartTypes, DeltaTypes, EndTypes,
              ToolEndTypes, TerminalTypes
<1>3. e.type \in BlockTypes => e.id \in Ids \cup {NoId}
  BY <1>1 DEF Event, BlockTypes, ToolTypes, StartTypes, DeltaTypes, EndTypes, ToolEndTypes,
              TerminalTypes
<1>4. e.type \in DeltaTypes => e.text \in Texts \cup {""}
  BY <1>1 DEF Event, StartTypes, DeltaTypes, EndTypes, ToolEndTypes, TerminalTypes
<1>5. e.type = "tool-input-delta" => e.delta \in Pieces \cup {""}
  BY <1>1 DEF Event, StartTypes, DeltaTypes, EndTypes, ToolEndTypes, TerminalTypes
<1>6. e.type \in ToolEndTypes => e.input \in Values /\ e.args \in Values
  BY <1>1 DEF Event, StartTypes, DeltaTypes, EndTypes, ToolEndTypes, TerminalTypes
<1>7. e.type \in TerminalTypes =>
         /\ e.usage \in RawUsage \cup {NoUsage}
         /\ e.reason \in {"", "stop", "length", "other"} \cup ToolUseReasons
  BY <1>1 DEF Event, StartTypes, DeltaTypes, EndTypes, ToolEndTypes, TerminalTypes
<1> QED BY <1>1, <1>2, <1>3, <1>4, <1>5, <1>6, <1>7

(* Writing keeps the type of a builder.                                     *)
LEMMA WriteType ==
    ASSUME NEW S, NEW builder \in Seq(S), NEW piece \in S \cup {""}
    PROVE  Write(builder, piece) \in Seq(S)
BY AppendProperties DEF Write

(* What JSON.parse returns is a value that is there.                        *)
LEMMA ParsedOrType ==
    ASSUME NEW json, NEW value \in Values \ {"absent"}
    PROVE  ParsedOr(json, value) \in Values \ {"absent"}
<1>1. CASE \E d \in Documents : d.text = json
  <2>1. PICK d \in Documents : d = CHOOSE c \in Documents : c.text = json
    BY <1>1
  <2>2. ParsedOr(json, value) = d.value
    BY <1>1, <2>1 DEF ParsedOr
  <2> QED BY <2>2, PiDocumentsAssumption
<1>2. CASE ~\E d \in Documents : d.text = json
  BY <1>2 DEF ParsedOr
<1> QED BY <1>1, <1>2

(* So are the arguments of a tool call.                                     *)
LEMMA ArgumentsType ==
    ASSUME NEW e \in Events, NEW block, block.arguments \in Values \ {"absent"}
    PROVE  Arguments(e, block) \in Values \ {"absent"}
<1>1. CASE IsComplete(e)
  BY <1>1, PiObjectsAssumption DEF Arguments, IsComplete, Values, NotObjects
<1>2. CASE ~IsComplete(e)
  BY <1>2, ParsedOrType DEF Arguments
<1> QED BY <1>1, <1>2

(* New blocks are blocks.                                                   *)
LEMMA NewBlockType ==
    /\ \A kind \in {"thinking", "text"} :
          /\ TextBlock(kind) \in ContentBlock
          /\ TextBlock(kind).kind = kind /\ TextBlock(kind).body = <<>>
    /\ \A id \in Ids :
          /\ ToolBlock(id) \in ContentBlock
          /\ ToolBlock(id).kind = "toolCall" /\ ToolBlock(id).id = id
          /\ ToolBlock(id).json = <<>> /\ ToolBlock(id).arguments = EmptyObject
          /\ ToolBlock(id).arguments \in Values \ {"absent"}
          /\ ToolBlock(id).ended = FALSE
<1>1. <<>> \in Seq(Texts) /\ <<>> \in Seq(Pieces)
  BY EmptySeq
<1>2. EmptyObject \in Values \ {"absent"}
  BY PiObjectsAssumption DEF Values, NotObjects
<1>3. ASSUME NEW kind \in {"thinking", "text"}
      PROVE  /\ TextBlock(kind) \in ContentBlock
             /\ TextBlock(kind).kind = kind /\ TextBlock(kind).body = <<>>
  BY <1>1 DEF TextBlock, ContentBlock
<1>4. ASSUME NEW id \in Ids
      PROVE  /\ ToolBlock(id) \in ContentBlock
             /\ ToolBlock(id).kind = "toolCall" /\ ToolBlock(id).id = id
             /\ ToolBlock(id).json = <<>> /\ ToolBlock(id).arguments = EmptyObject
             /\ ToolBlock(id).arguments \in Values \ {"absent"}
             /\ ToolBlock(id).ended = FALSE
  BY <1>1, <1>2 DEF ToolBlock, ContentBlock
<1> QED BY <1>3, <1>4

(* A block has the fields of its kind.                                      *)
LEMMA BlockFields ==
    ASSUME NEW b \in ContentBlock
    PROVE  /\ b.kind \in {"thinking", "text", "toolCall"}
           /\ b.kind # "toolCall" => /\ b.body \in Seq(Texts)
                                     /\ b = [kind |-> b.kind, body |-> b.body]
           /\ b.kind = "toolCall" =>
                 /\ b.id \in Ids /\ b.arguments \in Values \ {"absent"}
                 /\ b.json \in Seq(Pieces) /\ b.ended \in BOOLEAN
BY DEF ContentBlock

(* Changing the fields of a block leaves a block of the same kind and id.   *)
WithBody(b, body) == [b EXCEPT !.body = body]
WithJson(b, json, arguments) == [b EXCEPT !.json = json, !.arguments = arguments]
WithEnd(b, arguments) == [b EXCEPT !.arguments = arguments, !.ended = TRUE]

(* Writing text to a block.                                                 *)
LEMMA BodyChange ==
    ASSUME NEW b \in ContentBlock, b.kind # "toolCall", NEW body \in Seq(Texts)
    PROVE  /\ WithBody(b, body) \in ContentBlock
           /\ WithBody(b, body).kind = b.kind /\ WithBody(b, body).body = body
BY DEF ContentBlock, WithBody

(* Writing tool input to a tool call.                                       *)
LEMMA JsonChange ==
    ASSUME NEW b \in ContentBlock, b.kind = "toolCall",
           NEW json \in Seq(Pieces), NEW arguments \in Values \ {"absent"}
    PROVE  LET c == WithJson(b, json, arguments)
           IN  /\ c \in ContentBlock /\ c.kind = "toolCall" /\ c.id = b.id
               /\ c.ended = b.ended /\ c.json = json /\ c.arguments = arguments
BY DEF ContentBlock, WithJson

(* Ending a tool call.                                                      *)
LEMMA EndChange ==
    ASSUME NEW b \in ContentBlock, b.kind = "toolCall", NEW arguments \in Values \ {"absent"}
    PROVE  LET c == WithEnd(b, arguments)
           IN  /\ c \in ContentBlock /\ c.kind = "toolCall" /\ c.id = b.id
               /\ c.ended = TRUE /\ c.json = b.json /\ c.arguments = arguments
BY DEF ContentBlock, WithEnd

-----------------------------------------------------------------------------
(* What a line does to the blocks.                                          *)

(* It opens block b ...                                                     *)
OpensBlock(e, b) ==
    /\ received' = Append(received, e)
    /\ b \in ContentBlock
    /\ content' = Append(content, b)
    /\ idToIndex' = Points(e.id, Len(content))
    /\ \/ e.type \in StartTypes /\ b.kind \in {"thinking", "text"} /\ b.body = <<>>
       \/ /\ e.type \in {"tool-input-start"} \cup ToolEndTypes /\ e.id # NoId
          /\ b.kind = "toolCall" /\ b.id = e.id /\ b.json = <<>>
          /\ e.type = "tool-input-start" => b.arguments = EmptyObject
          /\ e.type \in ToolEndTypes => /\ e.id \notin DOMAIN idToIndex
                                        /\ b.arguments = Arguments(e, ToolBlock(e.id))

(* ... or turns the block its id leads to into b ...                        *)
ChangesBlock(e, b) ==
    LET at == idToIndex[e.id] + 1
        old == content[at]
    IN  /\ received' = Append(received, e) /\ UNCHANGED idToIndex
        /\ e.id \in DOMAIN idToIndex
        /\ b \in ContentBlock /\ b.kind = old.kind
        /\ content' = [content EXCEPT ![at] = b]
        /\ \/ /\ e.type \in DeltaTypes
              /\ b.kind = KindOf(e.type) /\ b.body = Write(old.body, e.text)
           \/ /\ e.type = "tool-input-delta" /\ e.id # NoId
              /\ b.kind = "toolCall" /\ b.id = old.id /\ b.ended = old.ended
              /\ b.json = Write(old.json, e.delta)
              /\ b.arguments = ParsedOr(b.json, old.arguments)
           \/ /\ e.type \in ToolEndTypes /\ e.id # NoId
              /\ b.kind = "toolCall" /\ b.id = old.id /\ b.ended
              /\ b.json = old.json /\ b.arguments = Arguments(e, old)

(* ... or leaves all of them alone.                                         *)
SparesBlocks(line) ==
    /\ received' = Append(received, line)
    /\ UNCHANGED <<content, idToIndex>>
    /\ line # Malformed =>
          /\ line.type \notin StartTypes
          /\ line.type \in DeltaTypes => ~Leads(line.id, KindOf(line.type))
          /\ line.type = "tool-input-start" => line.id = NoId
          /\ line.type = "tool-input-delta" => line.id = NoId \/ ~Leads(line.id, "toolCall")
          /\ line.type \in ToolEndTypes => line.id \in DOMAIN idToIndex \cup {NoId}

(* Changing fields of an element is changing the element.                   *)
LEMMA ElementChange ==
    ASSUME NEW S, NEW f \in Seq(S), NEW i \in DOMAIN f, NEW v
    PROVE  /\ [f EXCEPT ![i].arguments = v, ![i].ended = TRUE]
              = [f EXCEPT ![i] = WithEnd(f[i], v)]
           /\ [f EXCEPT ![i].body = v] = [f EXCEPT ![i] = WithBody(f[i], v)]
BY DEF WithEnd, WithBody

(* Where an id leads to.                                                    *)
LEMMA LeadsToBlock ==
    ASSUME PiTypeOK, NEW id \in DOMAIN idToIndex
    PROVE  /\ idToIndex[id] + 1 \in 1..Len(content)
           /\ DOMAIN content = 1..Len(content) /\ Len(content) \in Nat
           /\ content[idToIndex[id] + 1] \in ContentBlock
<1>1. content \in Seq(ContentBlock) /\ idToIndex[id] \in 0..(Len(content) - 1)
  BY DEF PiTypeOK
<1>2. DOMAIN content = 1..Len(content) /\ Len(content) \in Nat
  BY <1>1, LenProperties
<1>3. idToIndex[id] + 1 \in 1..Len(content)
  BY <1>1, <1>2
<1> QED BY <1>1, <1>2, <1>3, ElementOfSeq

(* Deltas and ends change the block they name.                             *)
LEMMA DeltaChanges ==
    ASSUME PiTypeOK, NEW e \in Events, BlockDelta(e)
    PROVE  \E b : ChangesBlock(e, b)
<1> DEFINE at == idToIndex[e.id] + 1
           old == content[at]
           body == Write(old.body, e.text)
           b == WithBody(old, body)
<1>1. /\ e.type \in DeltaTypes /\ Leads(e.id, KindOf(e.type)) /\ UNCHANGED idToIndex
      /\ received' = Append(received, e)
      /\ content' = [content EXCEPT ![at].body = body]
  BY DEF BlockDelta, Take
<1>2. e.id \in DOMAIN idToIndex /\ old.kind = KindOf(e.type) /\ old.kind # "toolCall"
  BY <1>1 DEF Leads, KindOf
<1>3. at \in DOMAIN content /\ old \in ContentBlock /\ content \in Seq(ContentBlock)
  BY <1>2, LeadsToBlock DEF PiTypeOK
<1>4. body \in Seq(Texts)
  BY <1>1, <1>2, <1>3, EventFields, BlockFields, WriteType
<1>5. b \in ContentBlock /\ b.kind = old.kind /\ b.body = body
  BY <1>2, <1>3, <1>4, BodyChange
<1>6. content' = [content EXCEPT ![at] = b]
  BY <1>1, <1>3, ElementChange
<1>7. ChangesBlock(e, b)
  BY <1>1, <1>2, <1>5, <1>6 DEF ChangesBlock
<1> QED BY <1>7

(* A delta of tool input changes its tool call.                             *)
LEMMA InputDeltaChanges ==
    ASSUME PiTypeOK, NEW e \in Events, ToolInputDelta(e)
    PROVE  \E b : ChangesBlock(e, b)
<1> DEFINE at == idToIndex[e.id] + 1
           old == content[at]
           json == Write(old.json, e.delta)
           arguments == ParsedOr(json, old.arguments)
           b == WithJson(old, json, arguments)
<1>1. /\ e.type = "tool-input-delta" /\ e.id # NoId /\ Leads(e.id, "toolCall")
      /\ received' = Append(received, e) /\ UNCHANGED idToIndex
      /\ content' = [content EXCEPT ![at].json = json, ![at].arguments = ParsedOr(json, @)]
  BY DEF ToolInputDelta, Take
<1>2. e.id \in DOMAIN idToIndex /\ old.kind = "toolCall"
  BY <1>1 DEF Leads
<1>3. at \in DOMAIN content /\ old \in ContentBlock /\ content \in Seq(ContentBlock)
  BY <1>2, LeadsToBlock DEF PiTypeOK
<1>4. json \in Seq(Pieces) /\ arguments \in Values \ {"absent"}
  BY <1>1, <1>2, <1>3, EventFields, BlockFields, WriteType, ParsedOrType
<1>5. content' = [content EXCEPT ![at].json = json, ![at].arguments = arguments]
  BY <1>1, <1>3
<1>6. /\ b \in ContentBlock /\ b.kind = "toolCall" /\ b.id = old.id /\ b.ended = old.ended
      /\ b.json = json /\ b.arguments = arguments
  <2> HIDE DEF json, arguments, old
  <2> QED BY <1>2, <1>3, <1>4, JsonChange
<1>7. content' = [content EXCEPT ![at] = b]
  <2> HIDE DEF at, json, arguments
  <2> QED BY <1>3, <1>5 DEF WithJson
<1>8. ChangesBlock(e, b)
  BY <1>1, <1>2, <1>6, <1>7 DEF ChangesBlock
<1> QED BY <1>8

(* A late end of a tool call changes its tool call.                         *)
LEMMA ToolEndChanges ==
    ASSUME PiTypeOK, NEW e \in Events, ToolEndKnown(e)
    PROVE  \E b : ChangesBlock(e, b)
<1> DEFINE at == idToIndex[e.id] + 1
           old == content[at]
           arguments == Arguments(e, old)
           b == WithEnd(old, arguments)
<1>1. /\ e.type \in ToolEndTypes /\ e.id # NoId /\ Leads(e.id, "toolCall")
      /\ received' = Append(received, e) /\ UNCHANGED idToIndex
      /\ content' = [content EXCEPT ![at].arguments = arguments, ![at].ended = TRUE]
  BY DEF ToolEndKnown, Take
<1>2. e.id \in DOMAIN idToIndex /\ old.kind = "toolCall"
  BY <1>1 DEF Leads
<1>3. at \in DOMAIN content /\ old \in ContentBlock /\ content \in Seq(ContentBlock)
  BY <1>2, LeadsToBlock DEF PiTypeOK
<1>4. arguments \in Values \ {"absent"}
  BY <1>2, <1>3, BlockFields, ArgumentsType
<1>5. /\ b \in ContentBlock /\ b.kind = "toolCall" /\ b.id = old.id /\ b.ended
      /\ b.json = old.json /\ b.arguments = arguments
  <2> HIDE DEF old, arguments
  <2> QED BY <1>2, <1>3, <1>4, EndChange
<1>6. content' = [content EXCEPT ![at] = b]
  BY <1>1, <1>3, ElementChange
<1>7. ChangesBlock(e, b)
  BY <1>1, <1>2, <1>5, <1>6 DEF ChangesBlock
<1> QED BY <1>7

(* A start event opens a block.                                             *)
LEMMA StartOpens ==
    ASSUME NEW e \in Events, BlockStart(e) \/ ToolInputStart(e) \/ ToolEndNew(e)
    PROVE  \E b : OpensBlock(e, b)
<1>1. CASE BlockStart(e)
  <2> DEFINE b == TextBlock(KindOf(e.type))
  <2>1. b \in ContentBlock /\ b.kind \in {"thinking", "text"} /\ b.body = <<>>
    BY NewBlockType DEF KindOf
  <2>2. OpensBlock(e, b)
    BY <1>1, <2>1 DEF OpensBlock, BlockStart, Take
  <2> QED BY <2>2
<1>2. CASE ToolInputStart(e)
  <2> DEFINE b == ToolBlock(e.id)
  <2>1. e.type = "tool-input-start" /\ e.id # NoId /\ received' = Append(received, e)
        /\ content' = Append(content, b) /\ idToIndex' = Points(e.id, Len(content))
    BY <1>2 DEF ToolInputStart, Take
  <2>2. e.id \in Ids
    BY <2>1, EventFields DEF BlockTypes, ToolTypes
  <2>3. /\ b \in ContentBlock /\ b.kind = "toolCall" /\ b.id = e.id /\ b.json = <<>>
        /\ b.arguments = EmptyObject
    BY <2>2, NewBlockType
  <2>4. OpensBlock(e, b)
    <3> HIDE DEF b
    <3> QED BY <2>1, <2>3 DEF OpensBlock, ToolEndTypes
  <2> QED BY <2>4
<1>3. CASE ToolEndNew(e)
  <2> DEFINE new == ToolBlock(e.id)
             arguments == Arguments(e, new)
             b == WithEnd(new, arguments)
  <2>1. /\ e.type \in ToolEndTypes /\ e.id # NoId /\ e.id \notin DOMAIN idToIndex
        /\ received' = Append(received, e)
        /\ content' = Append(content, b) /\ idToIndex' = Points(e.id, Len(content))
    BY <1>3 DEF ToolEndNew, Take, WithEnd
  <2>2. e.id \in Ids
    BY <2>1, EventFields DEF BlockTypes, ToolTypes
  <2>3. /\ new \in ContentBlock /\ new.kind = "toolCall" /\ new.id = e.id /\ new.json = <<>>
        /\ new.arguments \in Values \ {"absent"}
    BY <2>2, NewBlockType
  <2>4. arguments \in Values \ {"absent"}
    BY <2>3, ArgumentsType
  <2>5. /\ b \in ContentBlock /\ b.kind = "toolCall" /\ b.id = e.id /\ b.json = <<>>
        /\ b.arguments = arguments
    <3> HIDE DEF new, arguments
    <3> QED BY <2>3, <2>4, EndChange
  <2>6. OpensBlock(e, b)
    <3>1. e.type # "tool-input-start"
      BY <2>1 DEF ToolEndTypes
    <3> HIDE DEF b
    <3> QED BY <2>1, <2>5, <3>1 DEF OpensBlock
  <2> QED BY <2>6
<1> QED BY <1>1, <1>2, <1>3

(* The steps that read no line.                                             *)
ReadsNothing ==
    CallerAborts \/ MissingKey \/ Fetch \/ ResponseOk \/ GatewayFails \/ AbortRejects
    \/ EndOfBody \/ Finish \/ UNCHANGED vars

(* Every other event leaves the blocks alone.                               *)
LEMMA OthersSpare ==
    ASSUME NEW e \in Events, BlockEnd(e) \/ Terminal(e) \/ GatewayError(e) \/ Skip(e)
    PROVE  SparesBlocks(e)
<1> USE DEF SparesBlocks, Take, StartTypes, DeltaTypes, EndTypes, ToolEndTypes, TerminalTypes
<1>1. CASE BlockEnd(e)
  BY <1>1 DEF BlockEnd, output
<1>2. CASE Terminal(e)
  BY <1>2 DEF Terminal
<1>3. CASE GatewayError(e)
  BY <1>3 DEF GatewayError
<1>4. CASE Skip(e)
  BY <1>4 DEF Skip, Skipped, output
<1> QED BY <1>1, <1>2, <1>3, <1>4

(* What a step can do to blocks and history.                                *)
LEMMA StepClasses ==
    ASSUME PiTypeOK, [Next]_vars
    PROVE  \/ UNCHANGED <<content, idToIndex, received>>
           \/ \E line \in Events \cup {Malformed} : SparesBlocks(line)
           \/ \E e \in Events, b \in ContentBlock : OpensBlock(e, b) \/ ChangesBlock(e, b)
<1>1. CASE ReadsNothing
  BY <1>1 DEF ReadsNothing, CallerAborts, MissingKey, Fetch, ResponseOk, GatewayFails, AbortRejects,
              EndOfBody, Finish, vars, output
<1>2. CASE MalformedLine
  <2>1. SparesBlocks(Malformed)
    BY <1>2 DEF MalformedLine, SparesBlocks, Take
  <2> QED BY <2>1
<1>3. ASSUME NEW e \in Events, HandleEvent(e)
      PROVE  SparesBlocks(e) \/ \E b \in ContentBlock : OpensBlock(e, b) \/ ChangesBlock(e, b)
  <2>1. (\E b : OpensBlock(e, b)) \/ (\E b : ChangesBlock(e, b)) \/ SparesBlocks(e)
    BY <1>3, StartOpens, OthersSpare, DeltaChanges, InputDeltaChanges, ToolEndChanges DEF HandleEvent
  <2> QED BY <2>1 DEF OpensBlock, ChangesBlock
<1>4. ReadsNothing \/ MalformedLine \/ \E e \in Events : HandleEvent(e)
  BY DEF Next, ReadsNothing, Returned
<1> QED BY <1>1, <1>2, <1>3, <1>4

-----------------------------------------------------------------------------
(* Which line opened which block.                                           *)

(* The lines that gave an id to a block, or named a tool call that has one. *)
NamedLines == {i \in Lines : OfType(i, StartTypes) \/ NamesTool(i)}

(* Line o opened the block its id leads to now.                             *)
Newest(o) == IsLast(o, {i \in Openers : received[i].id = received[o].id})

OpenInv ==
    /\ IsFiniteSet(Openers) /\ Cardinality(Openers) = Len(content)
    /\ \A o \in Openers :
          /\ Rank(o) \in 1..Len(content)
          /\ IsTool(Rank(o)) <=> NamesTool(o)
          /\ IsTool(Rank(o)) => content[Rank(o)].id = received[o].id
    /\ \A o, p \in Openers : Rank(o) = Rank(p) => o = p
    /\ \A k \in 1..Len(content) : \E o \in Openers : Rank(o) = k

IdInv ==
    /\ DOMAIN idToIndex = {received[i].id : i \in NamedLines}
    /\ \A id \in DOMAIN idToIndex :
          \E o \in Openers : /\ Newest(o) /\ received[o].id = id
                             /\ Rank(o) = idToIndex[id] + 1

(* A line read makes the history longer and leaves the rest of it alone.    *)
LEMMA HistoryGrows ==
    ASSUME PiTypeOK, NEW line \in Events \cup {Malformed}, received' = Append(received, line),
           NEW n, n = Len(received)
    PROVE  /\ n \in Nat /\ Lines = 1..n /\ Lines' = 1..(n + 1)
           /\ \A j \in 1..n : received'[j] = received[j]
           /\ received'[n + 1] = line
           /\ received' \in Seq(Events \cup {Malformed})
<1>1. received \in Seq(Events \cup {Malformed})
  BY DEF PiTypeOK
<1>2. /\ received' \in Seq(Events \cup {Malformed}) /\ Len(received') = n + 1
      /\ \A j \in 1..n : received'[j] = received[j]
      /\ received'[n + 1] = line
  BY <1>1, AppendProperties
<1>3. Len(received) \in Nat /\ DOMAIN received = 1..Len(received)
      /\ DOMAIN received' = 1..Len(received')
  BY <1>1, <1>2, LenProperties
<1> QED BY <1>2, <1>3 DEF Lines

(* What an old line did is decided by the lines up to it.                   *)
LEMMA LinesStay ==
    ASSUME PiTypeOK, NEW line \in Events \cup {Malformed}, received' = Append(received, line),
           NEW n, n = Len(received)
    PROVE  /\ \A j \in 1..n : \A types : OfType(j, types)' <=> OfType(j, types)
           /\ \A j \in 1..n : (NamesTool(j)' <=> NamesTool(j)) /\ (Opens(j)' <=> Opens(j))
<1>1. n \in Nat /\ \A j \in 1..n : received'[j] = received[j]
  BY HistoryGrows
<1>2. \A j \in 1..n : \A types : OfType(j, types)' <=> OfType(j, types)
  BY <1>1 DEF OfType, IsEvent
<1>3. \A j \in 1..n : NamesTool(j)' <=> NamesTool(j)
  BY <1>1, <1>2 DEF NamesTool
<1>4. ASSUME NEW j \in 1..n PROVE Opens(j)' <=> Opens(j)
  <2>1. \A i \in 1..(j - 1) : i \in 1..n
    BY <1>1
  <2>2. /\ \A i \in 1..(j - 1) : received'[i] = received[i]
        /\ \A i \in 1..(j - 1) : \A types : OfType(i, types)' <=> OfType(i, types)
        /\ \A i \in 1..(j - 1) : NamesTool(i)' <=> NamesTool(i)
    BY <1>1, <1>2, <1>3, <2>1
  <2>3. received'[j] = received[j] /\ (OfType(j, StartTypes)' <=> OfType(j, StartTypes))
        /\ (NamesTool(j)' <=> NamesTool(j))
    BY <1>1, <1>2, <1>3
  <2> QED BY <2>2, <2>3 DEF Opens
<1> QED BY <1>2, <1>3, <1>4

(* The openers and the lines with an id grow by the new line, if at all.    *)
LEMMA OpenersGrow ==
    ASSUME PiTypeOK, NEW line \in Events \cup {Malformed}, received' = Append(received, line),
           NEW n, n = Len(received)
    PROVE  /\ Openers \subseteq 1..n /\ NamedLines \subseteq 1..n
           /\ Openers' = Openers \cup {j \in {n + 1} : Opens(j)'}
           /\ NamedLines' = NamedLines \cup {j \in {n + 1} : OfType(j, StartTypes)' \/ NamesTool(j)'}
<1>1. n \in Nat /\ Lines = 1..n /\ Lines' = 1..(n + 1)
  BY HistoryGrows
<1>2. 1..(n + 1) = (1..n) \cup {n + 1}
  BY <1>1
<1>3. Openers' = {j \in 1..(n + 1) : Opens(j)'}
  BY <1>1 DEF Openers
<1>4. NamedLines' = {j \in 1..(n + 1) : OfType(j, StartTypes)' \/ NamesTool(j)'}
  BY <1>1 DEF NamedLines
<1>5. Openers' = Openers \cup {j \in {n + 1} : Opens(j)'}
  BY <1>1, <1>2, <1>3, LinesStay DEF Openers
<1>6. NamedLines' = NamedLines \cup {j \in {n + 1} : OfType(j, StartTypes)' \/ NamesTool(j)'}
  BY <1>1, <1>2, <1>4, LinesStay DEF NamedLines
<1> QED BY <1>1, <1>5, <1>6 DEF Openers, NamedLines

(* Whether the new line opens a block can be told from the map.             *)
LEMMA OpensNow ==
    ASSUME PiTypeOK, IdInv, NEW line \in Events \cup {Malformed},
           received' = Append(received, line), NEW n, n = Len(received)
    PROVE  /\ Opens(n + 1)' <=>
                 /\ line # Malformed
                 /\ \/ line.type \in StartTypes
                    \/ line.type = "tool-input-start" /\ line.id # NoId
                    \/ line.type \in ToolEndTypes /\ line.id \notin DOMAIN idToIndex \cup {NoId}
           /\ NamesTool(n + 1)' <=>
                 /\ line # Malformed /\ line.id # NoId
                 /\ line.type \in {"tool-input-start"} \cup ToolEndTypes
           /\ OfType(n + 1, StartTypes)' <=> line # Malformed /\ line.type \in StartTypes
<1>1. /\ n \in Nat /\ Lines = 1..n /\ received'[n + 1] = line
      /\ \A j \in 1..n : received'[j] = received[j]
  BY HistoryGrows
<1>2. \A types : OfType(n + 1, types)' <=> line # Malformed /\ line.type \in types
  BY <1>1 DEF OfType, IsEvent
<1>3. NamesTool(n + 1)' <=>
         /\ line # Malformed /\ line.id # NoId
         /\ line.type \in {"tool-input-start"} \cup ToolEndTypes
  BY <1>1, <1>2 DEF NamesTool
<1>4. (\A i \in 1..n : OfType(i, StartTypes) \/ NamesTool(i) => received[i].id # line.id)
      <=> line.id \notin DOMAIN idToIndex
  BY <1>1 DEF IdInv, NamedLines
<1>5. (\A i \in 1..((n + 1) - 1) :
          OfType(i, StartTypes)' \/ NamesTool(i)' => received'[i].id # received'[n + 1].id)
      <=> line.id \notin DOMAIN idToIndex
  <2>1. (n + 1) - 1 = n
    BY <1>1
  <2> QED BY <1>1, <1>4, <2>1, LinesStay
<1>6. Opens(n + 1)' <=>
         \/ line # Malformed /\ line.type \in StartTypes
         \/ NamesTool(n + 1)' /\ line.type = "tool-input-start"
         \/ NamesTool(n + 1)' /\ line.type # "tool-input-start" /\ line.id \notin DOMAIN idToIndex
  BY <1>1, <1>2, <1>5 DEF Opens
<1> QED BY <1>2, <1>3, <1>6 DEF StartTypes, ToolEndTypes

(* A line that opens nothing gives no block another rank, and one that does *)
(* gets the next rank.                                                      *)
LEMMA RanksStay ==
    ASSUME PiTypeOK, NEW line \in Events \cup {Malformed}, received' = Append(received, line)
    PROVE  \A o \in Openers : Rank(o)' = Rank(o)
<1>0. PICK n : n = Len(received)
  OBVIOUS
<1>1. ASSUME NEW o \in Openers PROVE Rank(o)' = Rank(o)
  <2>1. n \in Nat /\ o \in 1..n /\ Openers' = Openers \cup {j \in {n + 1} : Opens(j)'}
    BY <1>0, HistoryGrows, OpenersGrow
  <2>2. {i \in Openers' : i <= o} = {i \in Openers : i <= o}
    BY <2>1
  <2> QED BY <2>2 DEF Rank
<1> QED BY <1>1

(* The block the new line opens is the next one.                            *)
LEMMA NextRank ==
    ASSUME PiTypeOK, OpenInv, NEW line \in Events \cup {Malformed},
           received' = Append(received, line), NEW n, n = Len(received), Opens(n + 1)'
    PROVE  /\ Openers' = Openers \cup {n + 1} /\ n + 1 \notin Openers
           /\ IsFiniteSet(Openers') /\ Cardinality(Openers') = Len(content) + 1
           /\ Rank(n + 1)' = Len(content) + 1
<1>1. n \in Nat /\ Openers \subseteq 1..n /\ Openers' = Openers \cup {n + 1}
  BY HistoryGrows, OpenersGrow
<1>2. n + 1 \notin Openers
  BY <1>1
<1>3. IsFiniteSet(Openers') /\ Cardinality(Openers') = Len(content) + 1
  BY <1>1, <1>2, FS_AddElement DEF OpenInv
<1>4. {i \in Openers' : i <= n + 1} = Openers'
  <2>1. \A i \in Openers' : i <= n + 1
    BY <1>1
  <2> QED BY <2>1
<1>5. Rank(n + 1)' = Cardinality(Openers')
  BY <1>4 DEF Rank
<1> QED BY <1>1, <1>2, <1>3, <1>5

(* The newest block of an id is the one the id leads to.                    *)
LEMMA NewestLeads ==
    ASSUME PiTypeOK, IdInv, NEW o \in Openers, Newest(o)
    PROVE  /\ received[o].id \in DOMAIN idToIndex
           /\ idToIndex[received[o].id] + 1 = Rank(o)
<1>1. received[o].id \in DOMAIN idToIndex
  BY DEF IdInv, Openers, NamedLines, Opens
<1>2. PICK p \in Openers : /\ Newest(p) /\ received[p].id = received[o].id
                           /\ Rank(p) = idToIndex[received[o].id] + 1
  BY <1>1 DEF IdInv
<1>3. Openers \subseteq Nat
  BY LenProperties DEF Openers, Lines, PiTypeOK
<1>4. p = o
  <2> DEFINE same == {i \in Openers : received[i].id = received[o].id}
  <2>1. same \in SUBSET Nat /\ IsLast(o, same) /\ IsLast(p, same)
    BY <1>2, <1>3 DEF Newest
  <2> QED BY <2>1, LastIsUnique
<1> QED BY <1>1, <1>2, <1>4

(* A line that opens no block keeps the ranks and the newest openers.       *)
LEMMA NoOpeningStep ==
    ASSUME PiTypeOK, OpenInv, IdInv, NEW line \in Events \cup {Malformed},
           received' = Append(received, line), UNCHANGED idToIndex,
           Len(content') = Len(content),
           \A k \in 1..Len(content) :
              /\ content'[k].kind = content[k].kind
              /\ content[k].kind = "toolCall" => content'[k].id = content[k].id,
           NEW n, n = Len(received), ~Opens(n + 1)',
           line # Malformed /\ line.type \in ToolEndTypes => line.id \in DOMAIN idToIndex \cup {NoId}
    PROVE  OpenInv' /\ IdInv' /\ Openers' = Openers
<1>1. /\ n \in Nat /\ Openers \subseteq 1..n /\ NamedLines \subseteq 1..n
      /\ \A j \in 1..n : received'[j] = received[j]
      /\ received'[n + 1] = line
  BY HistoryGrows, OpenersGrow
<1>2. Openers' = Openers
  BY OpenersGrow
<1>3. \A o \in Openers : Rank(o)' = Rank(o)
  BY RanksStay
<1>4. \A o \in Openers : NamesTool(o)' <=> NamesTool(o)
  BY <1>1, LinesStay
<1>5. OpenInv'
  <2>1. \A o \in Openers : /\ IsTool(Rank(o))' <=> IsTool(Rank(o))
                           /\ IsTool(Rank(o)) => content'[Rank(o)].id = content[Rank(o)].id
    BY <1>3 DEF OpenInv, IsTool
  <2>2. \A o \in Openers : received'[o].id = received[o].id
    BY <1>1
  <2>3. ASSUME NEW o \in Openers
        PROVE  /\ Rank(o)' \in 1..Len(content')
               /\ IsTool(Rank(o))' <=> NamesTool(o)'
               /\ IsTool(Rank(o))' => content'[Rank(o)'].id = received'[o].id
    BY <1>3, <1>4, <2>1, <2>2, ZenonT(40) DEF OpenInv
  <2>4. \A o, p \in Openers : Rank(o)' = Rank(p)' => o = p
    BY <1>3 DEF OpenInv
  <2>5. \A k \in 1..Len(content') : \E o \in Openers : Rank(o)' = k
    BY <1>3 DEF OpenInv
  <2>6. IsFiniteSet(Openers') /\ Cardinality(Openers') = Len(content')
    BY <1>2 DEF OpenInv
  <2> QED BY <1>2, <2>3, <2>4, <2>5, <2>6 DEF OpenInv
<1>6. DOMAIN idToIndex' = {received'[i].id : i \in NamedLines'}
  <2>1. NamesTool(n + 1)' => line.id \in DOMAIN idToIndex
    BY OpensNow DEF ToolEndTypes
  <2>2. ~OfType(n + 1, StartTypes)'
    BY OpensNow
  <2>3. NamedLines' = NamedLines \cup {j \in {n + 1} : NamesTool(j)'}
    BY <2>2, OpenersGrow
  <2>4. {received'[i].id : i \in NamedLines} = DOMAIN idToIndex
    <3>1. \A i \in NamedLines : received'[i].id = received[i].id
      BY <1>1
    <3>2. {received'[i].id : i \in NamedLines} = {received[i].id : i \in NamedLines}
      BY <3>1
    <3> QED BY <3>2 DEF IdInv
  <2> QED BY <1>1, <2>1, <2>3, <2>4, ZenonT(40)
<1>7. ASSUME NEW id \in DOMAIN idToIndex'
      PROVE  \E o \in Openers' : /\ Newest(o)' /\ received'[o].id = id
                                 /\ Rank(o)' = idToIndex'[id] + 1
  <2>1. PICK o \in Openers : /\ Newest(o) /\ received[o].id = id
                             /\ Rank(o) = idToIndex[id] + 1
    BY <1>7 DEF IdInv
  <2>2. {i \in Openers' : received'[i].id = received'[o].id} = {i \in Openers : received[i].id = received[o].id}
    BY <1>1, <1>2
  <2>3. Newest(o)'
    BY <2>1, <2>2 DEF Newest, IsLast
  <2> QED BY <1>1, <1>2, <1>3, <2>1, <2>3
<1> QED BY <1>2, <1>5, <1>6, <1>7 DEF IdInv

(* A line that opens a block gives it the next rank and its id.             *)
LEMMA OpeningStep ==
    ASSUME PiTypeOK, OpenInv, IdInv, NEW e \in Events, NEW b \in ContentBlock, OpensBlock(e, b),
           NEW n, n = Len(received)
    PROVE  /\ OpenInv' /\ IdInv' /\ Openers' = Openers \cup {n + 1}
           /\ Rank(n + 1)' = Len(content) + 1
<1>1. /\ n \in Nat /\ Openers \subseteq 1..n /\ NamedLines \subseteq 1..n
      /\ \A j \in 1..n : received'[j] = received[j]
      /\ received'[n + 1] = e
      /\ received' = Append(received, e)
  BY HistoryGrows, OpenersGrow DEF OpensBlock
<1>2. PICK m \in Nat : m = Len(content)
  BY LenProperties DEF PiTypeOK
<1>3. /\ content' \in Seq(ContentBlock) /\ Len(content') = m + 1
      /\ \A k \in 1..m : content'[k] = content[k]
      /\ content'[m + 1] = b
  BY <1>2, AppendProperties DEF OpensBlock, PiTypeOK
<1>4. e # Malformed /\ e.type \in StartTypes \cup {"tool-input-start"} \cup ToolEndTypes
      /\ (e.type \notin StartTypes => e.id # NoId)
      /\ (e.type \in ToolEndTypes => e.id \notin DOMAIN idToIndex)
  BY EventFields DEF OpensBlock, StartTypes, ToolEndTypes
<1>5. Opens(n + 1)'
  BY <1>1, <1>4, OpensNow DEF StartTypes, ToolEndTypes
<1>6. /\ Openers' = Openers \cup {n + 1} /\ n + 1 \notin Openers
      /\ IsFiniteSet(Openers') /\ Cardinality(Openers') = m + 1
      /\ Rank(n + 1)' = m + 1
  BY <1>1, <1>2, <1>5, NextRank
<1>7. \A o \in Openers : Rank(o)' = Rank(o) /\ Rank(o) \in 1..m
  BY <1>1, <1>2, RanksStay DEF OpenInv
<1>8. NamesTool(n + 1)' <=> e.type \notin StartTypes
  BY <1>1, <1>4, OpensNow DEF StartTypes, ToolEndTypes
<1>9. \A o \in Openers : NamesTool(o)' <=> NamesTool(o)
  BY <1>1, LinesStay
<1>10. OpenInv'
  <2>1. ASSUME NEW o \in Openers'
        PROVE  /\ Rank(o)' \in 1..(m + 1)
               /\ IsTool(Rank(o))' <=> NamesTool(o)'
               /\ IsTool(Rank(o))' => content'[Rank(o)'].id = received'[o].id
    <3>1. CASE o = n + 1
      <4>1. content'[Rank(o)'] = b /\ received'[o] = e
        BY <1>1, <1>3, <1>6, <3>1
      <4>2. (b.kind = "toolCall" <=> e.type \notin StartTypes) /\ (b.kind = "toolCall" => b.id = e.id)
        BY DEF OpensBlock, StartTypes, ToolEndTypes
      <4> QED BY <1>2, <1>6, <1>8, <3>1, <4>1, <4>2 DEF IsTool
    <3>2. CASE o \in Openers
      <4>1. /\ Rank(o)' = Rank(o) /\ Rank(o) \in 1..m
            /\ content'[Rank(o)] = content[Rank(o)] /\ received'[o] = received[o]
        BY <1>1, <1>3, <1>7, <3>2
      <4> QED BY <1>2, <1>9, <3>2, <4>1 DEF OpenInv, IsTool
    <3> QED BY <1>6, <3>1, <3>2
  <2>2. ASSUME NEW o \in Openers', NEW p \in Openers', Rank(o)' = Rank(p)' PROVE o = p
    <3>1. CASE o \in Openers /\ p \in Openers
      BY <1>7, <2>2, <3>1 DEF OpenInv
    <3>2. CASE o = n + 1 /\ p \in Openers
      BY <1>2, <1>6, <1>7, <2>2, <3>2
    <3>3. CASE o \in Openers /\ p = n + 1
      BY <1>2, <1>6, <1>7, <2>2, <3>3
    <3> QED BY <1>6, <3>1, <3>2, <3>3
  <2>3. ASSUME NEW k \in 1..(m + 1) PROVE \E o \in Openers' : Rank(o)' = k
    <3>1. CASE k = m + 1
      BY <1>6, <3>1
    <3>2. CASE k \in 1..m
      <4>1. PICK o \in Openers : Rank(o) = k
        BY <1>2, <3>2 DEF OpenInv
      <4> QED BY <1>6, <1>7, <4>1
    <3> QED BY <1>2, <3>1, <3>2
  <2> QED BY <1>3, <1>6, <2>1, <2>2, <2>3 DEF OpenInv
<1>11. DOMAIN idToIndex' = {received'[i].id : i \in NamedLines'}
  <2>1. NamedLines' = NamedLines \cup {n + 1}
    <3>1. OfType(n + 1, StartTypes)' \/ NamesTool(n + 1)'
      BY <1>1, <1>4, <1>8, OpensNow
    <3> QED BY <1>1, <3>1, OpenersGrow
  <2>2. {received'[i].id : i \in NamedLines} = {received[i].id : i \in NamedLines}
    <3>1. \A i \in NamedLines : received'[i].id = received[i].id
      BY <1>1
    <3> QED BY <3>1
  <2>3. DOMAIN idToIndex' = DOMAIN idToIndex \cup {e.id}
    BY DEF OpensBlock, Points
  <2>4. {received'[i].id : i \in NamedLines'} = {received'[i].id : i \in NamedLines} \cup {e.id}
    BY <1>1, <2>1
  <2> QED BY <2>2, <2>3, <2>4 DEF IdInv
<1>12. ASSUME NEW id \in DOMAIN idToIndex'
       PROVE  \E o \in Openers' : /\ Newest(o)' /\ received'[o].id = id
                                  /\ Rank(o)' = idToIndex'[id] + 1
  <2>1. DOMAIN idToIndex' = DOMAIN idToIndex \cup {e.id}
        /\ idToIndex'[id] = IF id = e.id THEN m ELSE idToIndex[id]
    BY <1>2, <1>12 DEF OpensBlock, Points
  <2>2. CASE id = e.id
    <3>1. {i \in Openers' : received'[i].id = received'[n + 1].id}
          = {i \in Openers : received'[i].id = e.id} \cup {n + 1}
      BY <1>1, <1>6
    <3>2. Newest(n + 1)'
      BY <1>1, <3>1, NewestIsLast DEF Newest
    <3> QED BY <1>1, <1>6, <2>1, <2>2, <3>2
  <2>3. CASE id # e.id
    <3>1. PICK o \in Openers : /\ Newest(o) /\ received[o].id = id
                               /\ Rank(o) = idToIndex[id] + 1
      BY <2>1, <2>3 DEF IdInv
    <3>2. received'[o] = received[o] /\ \A i \in Openers : received'[i] = received[i]
      BY <1>1
    <3>3. {i \in Openers' : received'[i].id = received'[o].id}
          = {i \in Openers : received[i].id = received[o].id}
      BY <1>1, <1>6, <2>3, <3>1, <3>2
    <3>4. Newest(o)'
      BY <3>1, <3>3 DEF Newest
    <3> QED BY <1>6, <1>7, <2>1, <2>3, <3>1, <3>2, <3>4
  <2> QED BY <2>2, <2>3
<1> QED BY <1>2, <1>6, <1>10, <1>11, <1>12 DEF IdInv

-----------------------------------------------------------------------------
(* Types.                                                                   *)

(* How the blocks and the history change, element by element.               *)
LEMMA OpeningContent ==
    ASSUME PiTypeOK, NEW e \in Events, NEW b \in ContentBlock, OpensBlock(e, b)
    PROVE  /\ content' \in Seq(ContentBlock) /\ Len(content') = Len(content) + 1
           /\ Len(content) \in Nat
           /\ \A k \in 1..Len(content) : content'[k] = content[k]
           /\ content'[Len(content) + 1] = b
BY AppendProperties, LenProperties DEF OpensBlock, PiTypeOK

(* A change touches one block and neither its kind nor its id.              *)
LEMMA ChangingContent ==
    ASSUME PiTypeOK, NEW e \in Events, NEW b \in ContentBlock, ChangesBlock(e, b),
           NEW at, at = idToIndex[e.id] + 1
    PROVE  /\ content' \in Seq(ContentBlock) /\ Len(content') = Len(content)
           /\ Len(content) \in Nat /\ at \in 1..Len(content)
           /\ \A k \in 1..Len(content) : k # at => content'[k] = content[k]
           /\ content'[at] = b
           /\ content[at] \in ContentBlock
           /\ b.kind = content[at].kind /\ (b.kind = "toolCall" => b.id = content[at].id)
<1>1. e.id \in DOMAIN idToIndex /\ content' = [content EXCEPT ![at] = b] /\ b.kind = content[at].kind
  BY DEF ChangesBlock
<1>2. /\ at \in 1..Len(content) /\ DOMAIN content = 1..Len(content) /\ Len(content) \in Nat
      /\ content[at] \in ContentBlock
  BY <1>1, LeadsToBlock
<1>3. content \in Seq(ContentBlock)
  BY DEF PiTypeOK
<1>4. content' \in Seq(ContentBlock) /\ Len(content') = Len(content)
  BY <1>1, <1>2, <1>3, ExceptSeq
<1>5. /\ \A k \in 1..Len(content) : k # at => content'[k] = content[k]
      /\ content'[at] = b
  BY <1>1, <1>2
<1>6. b.kind = "toolCall" => b.id = content[at].id
  BY DEF ChangesBlock, KindOf
<1> QED BY <1>1, <1>2, <1>4, <1>5, <1>6

(* The blocks and where ids lead to.                                        *)
ContentTypeOK ==
    /\ content \in Seq(ContentBlock)
    /\ received \in Seq(Events \cup {Malformed})
    /\ \A id \in DOMAIN idToIndex :
          /\ idToIndex[id] \in 0..(Len(content) - 1)
          /\ IsTool(idToIndex[id] + 1) => content[idToIndex[id] + 1].id = id

(* Every step keeps their types.                                            *)
LEMMA ContentTypeStep == PiTypeOK /\ [Next]_vars => ContentTypeOK'
<1> SUFFICES ASSUME PiTypeOK, [Next]_vars PROVE ContentTypeOK'
  OBVIOUS
<1>0. ContentTypeOK
  BY DEF PiTypeOK, ContentTypeOK
<1>1. CASE UNCHANGED <<content, idToIndex, received>>
  BY <1>0, <1>1 DEF ContentTypeOK, IsTool
<1>2. ASSUME NEW line \in Events \cup {Malformed}, SparesBlocks(line) PROVE ContentTypeOK'
  <2>1. received' \in Seq(Events \cup {Malformed})
    BY <1>0, <1>2, AppendProperties DEF SparesBlocks, ContentTypeOK
  <2> QED BY <1>0, <1>2, <2>1 DEF SparesBlocks, ContentTypeOK, IsTool
<1>3. ASSUME NEW e \in Events, NEW b \in ContentBlock, OpensBlock(e, b) PROVE ContentTypeOK'
  <2>1. received' \in Seq(Events \cup {Malformed})
    BY <1>0, <1>3, AppendProperties DEF OpensBlock, ContentTypeOK
  <2>2. PICK m \in Nat : m = Len(content)
    BY <1>3, OpeningContent
  <2>3. /\ content' \in Seq(ContentBlock) /\ Len(content') = m + 1
        /\ \A k \in 1..m : content'[k] = content[k]
        /\ content'[m + 1] = b
    BY <1>3, <2>2, OpeningContent
  <2>4. ASSUME NEW id \in DOMAIN idToIndex'
        PROVE  /\ idToIndex'[id] \in 0..m
               /\ content'[idToIndex'[id] + 1].kind = "toolCall" => content'[idToIndex'[id] + 1].id = id
    <3>1. /\ idToIndex'[id] = IF id = e.id THEN m ELSE idToIndex[id]
          /\ id = e.id \/ id \in DOMAIN idToIndex
      BY <1>3, <2>2, <2>4 DEF OpensBlock, Points
    <3>2. CASE id = e.id
      <4>1. b.kind = "toolCall" => b.id = e.id
        BY <1>3 DEF OpensBlock
      <4> QED BY <2>2, <2>3, <3>1, <3>2, <4>1
    <3>3. CASE id # e.id
      <4>1. PICK i \in 0..(m - 1) : i = idToIndex[id]
        BY <1>0, <2>2, <3>1, <3>3 DEF ContentTypeOK
      <4>2. content'[i + 1] = content[i + 1] /\ idToIndex'[id] = i
        BY <2>2, <2>3, <3>1, <3>3, <4>1
      <4> QED BY <1>0, <2>2, <3>1, <3>3, <4>1, <4>2 DEF ContentTypeOK, IsTool
    <3> QED BY <3>2, <3>3
  <2>5. Len(content') - 1 = m
    BY <2>2, <2>3
  <2> QED BY <2>1, <2>3, <2>4, <2>5 DEF ContentTypeOK, IsTool
<1>4. ASSUME NEW e \in Events, NEW b \in ContentBlock, ChangesBlock(e, b) PROVE ContentTypeOK'
  <2>1. received' \in Seq(Events \cup {Malformed}) /\ idToIndex' = idToIndex
    BY <1>0, <1>4, AppendProperties DEF ChangesBlock, ContentTypeOK
  <2>2. PICK at : at = idToIndex[e.id] + 1
    OBVIOUS
  <2>3. /\ content' \in Seq(ContentBlock) /\ Len(content') = Len(content)
        /\ Len(content) \in Nat
        /\ \A k \in 1..Len(content) : /\ content'[k].kind = content[k].kind
                                      /\ content[k].kind = "toolCall" => content'[k].id = content[k].id
    BY <1>4, <2>2, ChangingContent
  <2>4. \A id \in DOMAIN idToIndex : idToIndex[id] + 1 \in 1..Len(content)
    BY <1>0, <2>3 DEF ContentTypeOK
  <2> QED BY <1>0, <2>1, <2>3, <2>4 DEF ContentTypeOK, IsTool
<1> QED BY <1>1, <1>2, <1>3, <1>4, StepClasses

-----------------------------------------------------------------------------
(* The stream that Pi sees.                                                 *)

(* What has been pushed of the blocks.                                      *)
BlockInv ==
    /\ Len(content) <= Len(pushed)
    /\ \A k \in 1..Len(content) :
          /\ Protocol!IsOpen(content[k].kind, k - 1)
          /\ IsTool(k) => (Protocol!Ended(k - 1) <=> content[k].ended)
    /\ \A k \in Protocol!At("block_start") \cup Protocol!At("block_end") : pushed[k].index < Len(content)

PushInv ==
    /\ phase = "called" => pushed = <<>>
    /\ phase \in {"fetching", "reading", "drained"} => Protocol!Flowing
    /\ BlockInv

(* A pushed event is of its kind at the next position.                      *)
LEMMA PushGrows ==
    ASSUME PiTypeOK, NEW s \in Step, pushed' = Append(pushed, s), NEW n, n = Len(pushed)
    PROVE  /\ n \in Nat /\ DOMAIN pushed = 1..n
           /\ pushed' \in Seq(Step) /\ pushed' # <<>> /\ Len(pushed') = n + 1
           /\ \A k \in 1..n : pushed'[k] = pushed[k]
           /\ pushed'[n + 1] = s
           /\ \A step : /\ Protocol!At(step) \subseteq 1..n
                        /\ s.step = step => Protocol!At(step)' = Protocol!At(step) \cup {n + 1}
                        /\ s.step # step => Protocol!At(step)' = Protocol!At(step)
<1>1. pushed \in Seq(Step)
  BY DEF PiTypeOK
<1>2. /\ pushed' \in Seq(Step) /\ Len(pushed') = n + 1
      /\ \A k \in 1..n : pushed'[k] = pushed[k]
      /\ pushed'[n + 1] = s
  BY <1>1, AppendProperties
<1>3. n \in Nat /\ DOMAIN pushed = 1..n /\ DOMAIN pushed' = 1..(n + 1)
  BY <1>1, <1>2, LenProperties
<1>4. 1..(n + 1) = (1..n) \cup {n + 1}
  BY <1>3
<1>5. ASSUME NEW step
      PROVE  /\ Protocol!At(step) \subseteq 1..n
             /\ s.step = step => Protocol!At(step)' = Protocol!At(step) \cup {n + 1}
             /\ s.step # step => Protocol!At(step)' = Protocol!At(step)
  <2>1. Protocol!At(step) = {k \in 1..n : pushed[k].step = step}
    BY <1>3 DEF Protocol!At
  <2>2. Protocol!At(step)' = {k \in 1..(n + 1) : pushed'[k].step = step}
    BY <1>3 DEF Protocol!At
  <2> QED BY <1>2, <1>4, <2>1, <2>2
<1>6. pushed' # <<>>
  BY <1>1, AppendProperties
<1> QED BY <1>2, <1>3, <1>5, <1>6

(* The case of a block's end.                                               *)
LEMMA PushEnd ==
    ASSUME PiTypeOK, NEW s \in Step, s.step = "block_end", pushed' = Append(pushed, s),
           NEW n, n = Len(pushed)
    PROVE  /\ \A k \in 1..n : pushed'[k] = pushed[k]
           /\ pushed'[n + 1] = s
           /\ Protocol!At("block_start") \subseteq 1..n /\ Protocol!At("block_end") \subseteq 1..n
           /\ Protocol!At("block_start")' = Protocol!At("block_start")
           /\ Protocol!At("block_end")' = Protocol!At("block_end") \cup {n + 1}
<1>1. s.step # "block_start"
  OBVIOUS
<1>2. \A step : /\ Protocol!At(step) \subseteq 1..n
                /\ s.step = step => Protocol!At(step)' = Protocol!At(step) \cup {n + 1}
                /\ s.step # step => Protocol!At(step)' = Protocol!At(step)
  BY PushGrows, ZenonT(40)
<1>3. (\A k \in 1..n : pushed'[k] = pushed[k]) /\ pushed'[n + 1] = s
  BY PushGrows
<1> QED BY <1>1, <1>2, <1>3

(* Blocks keep their number, kinds and ends.                                *)
KeepsShape ==
    /\ Len(content') = Len(content)
    /\ \A k \in 1..Len(content) :
          /\ content'[k].kind = content[k].kind
          /\ IsTool(k) => content'[k].ended = content[k].ended

(* Pushing neither a start nor an end of a block keeps BlockInv.            *)
LEMMA BlocksKept ==
    ASSUME PiTypeOK, BlockInv, KeepsShape,
           \/ pushed' = pushed
           \/ \E s \in Step : s.step \notin {"block_start", "block_end"} /\ pushed' = Append(pushed, s)
    PROVE  BlockInv'
<1>0. Len(pushed') >= Len(pushed) /\ Len(pushed) \in Nat /\ Len(pushed') \in Nat
  BY PushGrows, LenProperties DEF PiTypeOK
<1>1. /\ Protocol!At("block_start")' = Protocol!At("block_start")
      /\ Protocol!At("block_end")' = Protocol!At("block_end")
      /\ \A k \in Protocol!At("block_start") \cup Protocol!At("block_end") : pushed'[k] = pushed[k]
  <2>1. CASE pushed' = pushed
    BY <2>1 DEF Protocol!At
  <2>2. ASSUME NEW s \in Step, s.step \notin {"block_start", "block_end"}, pushed' = Append(pushed, s)
        PROVE  <1>1
    <3>1. PICK n : n = Len(pushed)
      OBVIOUS
    <3>2. /\ Protocol!At("block_start")' = Protocol!At("block_start")
          /\ Protocol!At("block_end")' = Protocol!At("block_end")
          /\ Protocol!At("block_start") \cup Protocol!At("block_end") \subseteq 1..n
          /\ \A k \in 1..n : pushed'[k] = pushed[k]
      BY <2>2, <3>1, PushGrows
    <3> QED BY <3>2
  <2> QED BY <2>1, <2>2
<1>2. ASSUME NEW k \in 1..Len(content')
      PROVE  (/\ Protocol!IsOpen(content[k].kind, k - 1)
              /\ IsTool(k) => (Protocol!Ended(k - 1) <=> content[k].ended))'
  <2>1. /\ k \in 1..Len(content) /\ content'[k].kind = content[k].kind
        /\ IsTool(k) => content'[k].ended = content[k].ended
    BY <1>2 DEF KeepsShape
  <2>2. Protocol!IsOpen(content[k].kind, k - 1)
    BY <2>1 DEF BlockInv
  <2>3. Protocol!IsOpen(content[k].kind, k - 1)'
    BY <1>1, <2>1, <2>2 DEF Protocol!IsOpen
  <2>4. Protocol!Ended(k - 1)' <=> Protocol!Ended(k - 1)
    BY <1>1 DEF Protocol!Ended
  <2>5. CASE IsTool(k)
    <3>1. Protocol!Ended(k - 1) <=> content[k].ended
      BY <2>1, <2>5 DEF BlockInv
    <3> QED BY <2>1, <2>3, <2>4, <2>5, <3>1
  <2>6. CASE ~IsTool(k)
    BY <2>1, <2>3, <2>6 DEF IsTool
  <2> QED BY <2>5, <2>6
<1>3. \A k \in Protocol!At("block_start")' \cup Protocol!At("block_end")' : pushed'[k].index < Len(content')
  BY <1>1 DEF BlockInv, KeepsShape
<1>4. Len(content') <= Len(pushed')
  BY <1>0, LenProperties DEF BlockInv, KeepsShape, PiTypeOK
<1> QED BY <1>2, <1>3, <1>4 DEF BlockInv

(* A new block is announced, and its end too if it has ended.               *)
LEMMA BlockAnnounced ==
    ASSUME PiTypeOK, BlockInv, NEW b \in ContentBlock, content' = Append(content, b),
           NEW n \in Nat, n = Len(pushed), pushed' \in Seq(Step), Len(pushed') >= n + 1,
           NEW E \in SUBSET {n + 2},
           \A k \in 1..n : pushed'[k] = pushed[k],
           pushed'[n + 1] = Block("block_start", b.kind, Len(content)),
           E # {} => pushed'[n + 2].index = Len(content),
           Protocol!At("block_start")' = Protocol!At("block_start") \cup {n + 1},
           Protocol!At("block_end")' = Protocol!At("block_end") \cup E,
           b.kind = "toolCall" => (b.ended <=> E # {})
    PROVE  BlockInv'
<1>1. PICK m \in Nat : m = Len(content)
  BY LenProperties DEF PiTypeOK
<1>2. /\ Len(content') = m + 1 /\ content'[m + 1] = b
      /\ \A k \in 1..m : content'[k] = content[k]
  BY <1>1, AppendProperties DEF PiTypeOK
<1>3. /\ Protocol!At("block_start") \subseteq 1..n
      /\ Protocol!At("block_end") \subseteq 1..n
      /\ \A k \in Protocol!At("block_start") \cup Protocol!At("block_end") : pushed[k].index < m
  BY <1>1, LenProperties DEF Protocol!At, PiTypeOK, BlockInv
<1>4. pushed'[n + 1].kind = b.kind /\ pushed'[n + 1].index = m
  BY <1>1 DEF Block
<1>5. m + 1 <= n + 1
  BY <1>1 DEF BlockInv
<1>6. ASSUME NEW k \in 1..(m + 1)
      PROVE  (/\ Protocol!IsOpen(content[k].kind, k - 1)
              /\ IsTool(k) => (Protocol!Ended(k - 1) <=> content[k].ended))'
  <2>1. CASE k = m + 1
    <3>1. k - 1 = m /\ content'[k] = b
      BY <1>2, <2>1
    <3>2. Protocol!IsOpen(content[k].kind, k - 1)'
      BY <1>4, <3>1 DEF Protocol!IsOpen
    <3>3. Protocol!Ended(m)' <=> E # {}
      <4>1. \A j \in Protocol!At("block_end") : pushed'[j].index # m
        <5>1. \A j \in Protocol!At("block_end") : pushed'[j] = pushed[j]
          BY <1>3
        <5>2. \A j \in Protocol!At("block_end") : pushed[j] \in Step /\ pushed[j].step = "block_end"
          BY ElementOfSeq, LenProperties DEF Protocol!At, PiTypeOK
        <5>3. \A j \in Protocol!At("block_end") : pushed[j].index \in Nat
          BY <5>2 DEF Step
        <5> QED BY <1>3, <5>1, <5>3
      <4>2. \A j \in E : pushed'[j].index = m
        BY <1>1
      <4> QED BY <4>1, <4>2 DEF Protocol!Ended
    <3>4. IsTool(k)' => (Protocol!Ended(k - 1)' <=> content'[k].ended)
      BY <3>1, <3>3 DEF IsTool
    <3> QED BY <3>2, <3>4
  <2>2. CASE k \in 1..m
    <3>1. content'[k] = content[k] /\ k - 1 # m
      BY <1>2, <2>2
    <3>2. Protocol!IsOpen(content[k].kind, k - 1)
      BY <1>1, <2>2 DEF BlockInv
    <3>3. Protocol!IsOpen(content[k].kind, k - 1)'
      BY <1>3, <3>1, <3>2 DEF Protocol!IsOpen
    <3>4. Protocol!Ended(k - 1)' <=> Protocol!Ended(k - 1)
      <4>1. \A j \in E : pushed'[j].index # k - 1
        BY <1>1, <3>1
      <4>2. \A j \in Protocol!At("block_end") : pushed'[j] = pushed[j]
        BY <1>3
      <4> QED BY <4>1, <4>2 DEF Protocol!Ended
    <3>5. IsTool(k)' => (Protocol!Ended(k - 1)' <=> content'[k].ended)
      BY <1>1, <2>2, <3>1, <3>4 DEF IsTool, BlockInv
    <3> QED BY <3>3, <3>5
  <2> QED BY <1>1, <2>1, <2>2
<1>7. ASSUME NEW k \in Protocol!At("block_start")' \cup Protocol!At("block_end")'
      PROVE  pushed'[k].index < m + 1
  <2>1. CASE k \in E
    BY <1>1, <2>1
  <2>2. CASE k = n + 1
    BY <1>1, <1>4, <2>2
  <2>3. CASE k \in Protocol!At("block_start") \cup Protocol!At("block_end")
    <3>1. pushed'[k] = pushed[k] /\ pushed[k].index < m
      BY <1>3, <2>3
    <3>2. pushed[k] \in Step /\ pushed[k].step \in {"block_start", "block_end"}
      BY <2>3, ElementOfSeq, LenProperties DEF Protocol!At, PiTypeOK
    <3>3. pushed[k].index \in Nat
      BY <3>2 DEF Step
    <3> QED BY <1>1, <3>1, <3>3
  <2> QED BY <2>1, <2>2, <2>3
<1>8. Len(content') <= Len(pushed')
  <2>1. Len(pushed') >= n + 1 /\ Len(content') = m + 1
    BY <1>2
  <2>2. pushed' \in Seq(Step) => Len(pushed') \in Nat
    BY LenProperties
  <2> QED BY <1>5, <2>1, <2>2
<1> QED BY <1>2, <1>6, <1>7, <1>8 DEF BlockInv

(* The end of a block that is open is pushed, and is the first one if the   *)
(* block is a tool call.                                                    *)
LEMMA EndPushed ==
    ASSUME PiTypeOK, BlockInv, NEW at \in 1..Len(content),
           Len(content') = Len(content),
           \A k \in 1..Len(content) :
              /\ content'[k].kind = content[k].kind
              /\ k # at => content'[k] = content[k],
           content[at].kind = "toolCall" => content'[at].ended,
           pushed' = Append(pushed, Block("block_end", content[at].kind, at - 1)),
           Block("block_end", content[at].kind, at - 1) \in Step
    PROVE  BlockInv'
<1> DEFINE s == Block("block_end", content[at].kind, at - 1)
<1>0. s.step = "block_end" /\ s.index = at - 1
  BY DEF Block
<1>1. PICK m \in Nat, n \in Nat : m = Len(content) /\ n = Len(pushed)
  BY LenProperties DEF PiTypeOK
<1>2. /\ \A k \in 1..n : pushed'[k] = pushed[k]
      /\ pushed'[n + 1] = s
      /\ Protocol!At("block_start") \subseteq 1..n /\ Protocol!At("block_end") \subseteq 1..n
      /\ Protocol!At("block_start")' = Protocol!At("block_start")
      /\ Protocol!At("block_end")' = Protocol!At("block_end") \cup {n + 1}
  <2> HIDE DEF s
  <2>1. s \in Step /\ pushed' = Append(pushed, s)
    BY DEF s
  <2> QED BY <1>0, <1>1, <2>1, PushEnd
<1>3. ASSUME NEW k \in 1..m
      PROVE  (/\ Protocol!IsOpen(content[k].kind, k - 1)
              /\ IsTool(k) => (Protocol!Ended(k - 1) <=> content[k].ended))'
  <2>1. Protocol!IsOpen(content[k].kind, k - 1) /\ content'[k].kind = content[k].kind
    BY <1>1 DEF BlockInv
  <2>2. Protocol!IsOpen(content[k].kind, k - 1)'
    BY <1>2, <2>1 DEF Protocol!IsOpen
  <2>3. CASE k = at
    <3>1. Protocol!Ended(k - 1)'
      BY <1>0, <1>2, <2>3, ZenonT(40) DEF Protocol!Ended
    <3>2. IsTool(k)' => content'[k].ended
      BY <2>1, <2>3 DEF IsTool
    <3> QED BY <2>2, <3>1, <3>2
  <2>4. CASE k # at
    <3>1. content'[k] = content[k] /\ k - 1 # at - 1
      BY <1>1, <2>4
    <3>2. Protocol!Ended(k - 1)' <=> Protocol!Ended(k - 1)
      <4>1. \A j \in Protocol!At("block_end") : pushed'[j] = pushed[j]
        BY <1>2
      <4>2. pushed'[n + 1].index # k - 1
        BY <1>0, <1>2, <3>1
      <4> QED BY <1>2, <4>1, <4>2 DEF Protocol!Ended
    <3>3. IsTool(k) => (Protocol!Ended(k - 1) <=> content[k].ended)
      BY <1>1 DEF BlockInv
    <3> QED BY <2>2, <3>1, <3>2, <3>3 DEF IsTool
  <2> QED BY <2>3, <2>4
<1>4. \A k \in Protocol!At("block_start")' \cup Protocol!At("block_end")' : pushed'[k].index < m
  <2>1. \A k \in Protocol!At("block_start") \cup Protocol!At("block_end") : pushed'[k].index < m
    BY <1>1, <1>2 DEF BlockInv
  <2>2. pushed'[n + 1].index < m
    BY <1>0, <1>1, <1>2
  <2> QED BY <1>2, <2>1, <2>2
<1>5. m <= Len(pushed')
  <2>1. Len(pushed') = n + 1
    BY <1>1, AppendProperties DEF PiTypeOK
  <2> QED BY <1>1, <2>1 DEF BlockInv
<1> QED BY <1>1, <1>3, <1>4, <1>5 DEF BlockInv

(* While the call is open its reason is one a message may end with.         *)
OpenReason == phase # "closed" => stopReason \in StopReasons

(* What every step does for the stream.                                     *)
Streams ==
    /\ pushed' \in Seq(Step) /\ PushInv'
    /\ Protocol!StreamNext \/ UNCHANGED pushed

(* The next index of the protocol is the next one of content.               *)
LEMMA NextIndex ==
    ASSUME PiTypeOK, BlockInv
    PROVE  /\ Protocol!IsNext(Len(content))
           /\ Len(content) \in 0..Len(pushed) /\ Len(content) \in Nat
<1>1. PICK m \in Nat, n \in Nat : m = Len(content) /\ n = Len(pushed) /\ m <= n
  BY LenProperties DEF PiTypeOK, BlockInv
<1>2. ~Protocol!Taken(m)
  <2>1. \A k \in Protocol!At("block_start") : pushed[k].index < m
    BY <1>1 DEF BlockInv
  <2>2. \A k \in Protocol!At("block_start") : pushed[k] \in Step /\ pushed[k].step = "block_start"
    BY ElementOfSeq, LenProperties DEF Protocol!At, PiTypeOK
  <2>3. \A k \in Protocol!At("block_start") : pushed[k].index \in Nat
    BY <2>2 DEF Step
  <2> QED BY <2>1, <2>3 DEF Protocol!Taken
<1>3. ASSUME NEW i \in 0..(m - 1) PROVE Protocol!Taken(i)
  <2>1. i + 1 \in 1..m /\ (i + 1) - 1 = i
    BY <1>1
  <2>2. Protocol!IsOpen(content[i + 1].kind, i)
    BY <1>1, <2>1 DEF BlockInv
  <2> QED BY <2>2 DEF Protocol!IsOpen, Protocol!Taken
<1> QED BY <1>1, <1>2, <1>3 DEF Protocol!IsNext

(* A stream flows on until "done" or "error".                               *)
LEMMA FlowsOn ==
    ASSUME PiTypeOK, Protocol!Flowing, NEW s \in Step, s.step \notin {"done", "error"},
           pushed' = Append(pushed, s)
    PROVE  Protocol!Flowing'
<1>1. PICK n : n = Len(pushed)
  OBVIOUS
<1>2. /\ n \in Nat /\ pushed' # <<>> /\ \A k \in 1..n : pushed'[k] = pushed[k]
      /\ Protocol!At("done")' = Protocol!At("done")
      /\ Protocol!At("error")' = Protocol!At("error")
  BY <1>1, PushGrows
<1>3. n # 0
  BY <1>1, EmptySeq DEF Protocol!Flowing, PiTypeOK
<1>4. pushed'[1] = pushed[1]
  BY <1>2, <1>3
<1> QED BY <1>2, <1>4 DEF Protocol!Flowing

(* A step that pushes nothing.                                              *)
LEMMA QuietStreams ==
    ASSUME PiTypeOK, PushInv, KeepsShape, UNCHANGED pushed,
           \/ phase' = phase
           \/ phase \in {"fetching", "reading", "drained"} /\ phase' \in {"reading", "drained", "closed"}
    PROVE  Streams
<1>1. BlockInv'
  BY BlocksKept DEF PushInv
<1>2. Protocol!Flowing' <=> Protocol!Flowing
  BY DEF Protocol!Flowing, Protocol!At
<1> QED BY <1>1, <1>2 DEF Streams, PushInv, PiTypeOK

(* A step that throws pushes "error" last.                                  *)
LEMMA ThrowStreams ==
    ASSUME PiTypeOK, PushInv, phase # "closed", Throw, UNCHANGED content
    PROVE  Streams
<1> DEFINE s == [step |-> "error", reason |-> stopReason']
<1>1. stopReason' \in {"error", "aborted"} /\ pushed' = Append(pushed, s) /\ phase' = "closed"
  BY DEF Throw
<1>2. s \in Step /\ s.step = "error"
  BY <1>1 DEF Step
<1>3. BlockInv'
  <2>1. KeepsShape
    BY DEF KeepsShape
  <2> HIDE DEF s
  <2> QED BY <1>1, <1>2, <2>1, BlocksKept DEF PushInv
<1>4. pushed' \in Seq(Step)
  BY <1>1, <1>2, PushGrows
<1>5. Protocol!Fail
  <2>1. pushed = <<>> \/ Protocol!Flowing
    BY DEF PushInv, PiTypeOK
  <2> QED BY <1>1, <2>1 DEF Protocol!Fail
<1> QED BY <1>1, <1>3, <1>4, <1>5 DEF Streams, PushInv, Protocol!StreamNext

(* Before the fetch "start" is pushed.                                      *)
LEMMA FetchStreams ==
    ASSUME PiTypeOK, PushInv, Fetch
    PROVE  Streams
<1> DEFINE s == [step |-> "start"]
<1>1. pushed = <<>> /\ pushed' = Append(pushed, s) /\ UNCHANGED content /\ phase' = "fetching"
  BY DEF PushInv, Fetch, output
<1>2. s \in Step /\ s.step = "start"
  BY DEF Step
<1>3. BlockInv'
  <2>1. KeepsShape
    BY <1>1 DEF KeepsShape
  <2> HIDE DEF s
  <2> QED BY <1>1, <1>2, <2>1, BlocksKept DEF PushInv
<1>4. pushed' = <<s>>
  <2> HIDE DEF s
  <2> QED BY <1>1
<1>5. pushed' \in Seq(Step) /\ pushed' # <<>> /\ pushed'[1] = s /\ DOMAIN pushed' = {1}
  <2> HIDE DEF s
  <2> QED BY <1>2, <1>4
<1>6. Protocol!Flowing'
  BY <1>2, <1>5 DEF Protocol!Flowing, Protocol!At
<1>7. Protocol!Begin
  BY <1>1, <1>4 DEF Protocol!Begin
<1> QED BY <1>1, <1>3, <1>5, <1>6, <1>7 DEF Streams, PushInv, Protocol!StreamNext

(* The end of the body pushes "done" or "error".                            *)
LEMMA FinishStreams ==
    ASSUME PiTypeOK, PushInv, OpenReason, Finish
    PROVE  Streams
<1>1. CASE sawTerminalEvent
  <2> DEFINE s == [step |-> "done", reason |-> stopReason]
  <2>1. /\ phase = "drained" /\ pushed' = Append(pushed, s) /\ phase' = "closed"
        /\ UNCHANGED content /\ stopReason \in StopReasons
    BY <1>1 DEF Finish, OpenReason
  <2>2. s \in Step /\ s.step = "done"
    BY <2>1 DEF Step, StopReasons
  <2>3. BlockInv'
    <3>1. KeepsShape
      BY <2>1 DEF KeepsShape
    <3> HIDE DEF s
    <3> QED BY <2>1, <2>2, <3>1, BlocksKept DEF PushInv
  <2>4. pushed' \in Seq(Step)
    BY <2>1, <2>2, PushGrows
  <2>5. Protocol!Done
    BY <2>1 DEF PushInv, Protocol!Done, Protocol!Reasons, StopReasons
  <2> QED BY <2>1, <2>3, <2>4, <2>5 DEF Streams, PushInv, Protocol!StreamNext
<1>2. CASE ~sawTerminalEvent
  BY <1>2, ThrowStreams DEF Finish
<1> QED BY <1>1, <1>2 DEF PiTypeOK

(* A delta or an end is for a block that was announced.                     *)
LEMMA KnownBlock ==
    ASSUME PiTypeOK, PushInv, NEW id, NEW kind, Leads(id, kind), NEW at, at = idToIndex[id] + 1
    PROVE  /\ at \in 1..Len(content) /\ Len(content) \in Nat /\ at - 1 \in Nat
           /\ idToIndex[id] = at - 1
           /\ at - 1 \in 0..Len(pushed)
           /\ content[at] \in ContentBlock /\ content[at].kind = kind
           /\ kind \in {"thinking", "text", "toolCall"}
           /\ Protocol!IsOpen(kind, at - 1)
<1>1. id \in DOMAIN idToIndex /\ content[at].kind = kind
  BY DEF Leads
<1>2. /\ at \in 1..Len(content) /\ Len(content) \in Nat /\ content[at] \in ContentBlock
      /\ idToIndex[id] \in 0..(Len(content) - 1)
  BY <1>1, LeadsToBlock DEF PiTypeOK
<1>3. kind \in {"thinking", "text", "toolCall"}
  BY <1>1, <1>2, BlockFields
<1>4. Protocol!IsOpen(kind, at - 1)
  BY <1>1, <1>2 DEF PushInv, BlockInv
<1>5. Len(pushed) \in Nat /\ Len(content) <= Len(pushed)
  BY LenProperties DEF PushInv, BlockInv, PiTypeOK
<1>6. at - 1 \in Nat /\ idToIndex[id] = at - 1 /\ at - 1 \in 0..Len(pushed)
  BY <1>2, <1>5
<1> QED BY <1>1, <1>2, <1>3, <1>4, <1>6

(* A delta is pushed for an open block of its kind.                         *)
LEMMA DeltaStreams ==
    ASSUME PiTypeOK, PushInv, phase = "reading", ReadOn, NEW e \in Events, NEW kind,
           Leads(e.id, kind), KeepsShape,
           pushed' = Append(pushed, Block("block_delta", kind, idToIndex[e.id]))
    PROVE  Streams
<1> DEFINE s == Block("block_delta", kind, idToIndex[e.id])
<1>1. PICK at : at = idToIndex[e.id] + 1
  OBVIOUS
<1>2. /\ idToIndex[e.id] = at - 1 /\ at - 1 \in Nat /\ at - 1 \in 0..Len(pushed)
      /\ kind \in {"thinking", "text", "toolCall"} /\ Protocol!IsOpen(kind, at - 1)
  BY <1>1, KnownBlock
<1>3. s \in Step /\ s.step = "block_delta" /\ s = Protocol!Block("block_delta", kind, at - 1)
  BY <1>2 DEF Step, Block, Protocol!Block
<1>4. Protocol!Flowing
  BY DEF PushInv
<1>5. pushed' = Append(pushed, s)
  OBVIOUS
<1>6. BlockInv' /\ pushed' \in Seq(Step) /\ Protocol!Flowing'
  <2> HIDE DEF s
  <2> QED BY <1>3, <1>4, <1>5, BlocksKept, FlowsOn, PushGrows DEF PushInv
<1>7. Protocol!Delta
  BY <1>2, <1>3, <1>4, <1>5 DEF Protocol!Delta, Protocol!Kinds
<1> QED BY <1>6, <1>7 DEF Streams, PushInv, Protocol!StreamNext, ReadOn

(* An end is pushed for an open block of its kind.                          *)
LEMMA EndStreams ==
    ASSUME PiTypeOK, PushInv, phase = "reading", ReadOn, NEW e \in Events, NEW kind,
           Leads(e.id, kind), NEW at, at = idToIndex[e.id] + 1,
           Len(content') = Len(content),
           \A k \in 1..Len(content) :
              /\ content'[k].kind = content[k].kind
              /\ k # at => content'[k] = content[k],
           kind = "toolCall" => ~content[at].ended /\ content'[at].ended,
           pushed' = Append(pushed, Block("block_end", kind, at - 1))
    PROVE  Streams
<1> DEFINE s == Block("block_end", kind, at - 1)
<1>1. /\ at \in 1..Len(content) /\ at - 1 \in Nat /\ at - 1 \in 0..Len(pushed)
      /\ content[at].kind = kind
      /\ kind \in {"thinking", "text", "toolCall"} /\ Protocol!IsOpen(kind, at - 1)
  BY KnownBlock
<1>2. s \in Step /\ s.step = "block_end" /\ s = Protocol!Block("block_end", kind, at - 1)
  BY <1>1 DEF Step, Block, Protocol!Block
<1>3. Protocol!Flowing
  BY DEF PushInv
<1>4. pushed' = Append(pushed, s)
  OBVIOUS
<1>5. pushed' \in Seq(Step) /\ Protocol!Flowing'
  <2> HIDE DEF s
  <2> QED BY <1>2, <1>3, <1>4, FlowsOn, PushGrows
<1>6. BlockInv'
  BY <1>1, <1>2, EndPushed DEF PushInv
<1>7. kind = "toolCall" => ~Protocol!Ended(at - 1)
  BY <1>1 DEF PushInv, BlockInv, IsTool
<1>8. Protocol!End
  BY <1>1, <1>2, <1>3, <1>4, <1>7 DEF Protocol!End, Protocol!Kinds
<1> QED BY <1>5, <1>6, <1>8 DEF Streams, PushInv, Protocol!StreamNext, ReadOn

(* A start is pushed for the next block.                                    *)
LEMMA StartStreams ==
    ASSUME PiTypeOK, PushInv, phase = "reading", ReadOn,
           NEW b \in ContentBlock, content' = Append(content, b),
           b.kind = "toolCall" => b.ended = FALSE,
           pushed' = Append(pushed, Block("block_start", b.kind, Len(content)))
    PROVE  Streams
<1> DEFINE s == Block("block_start", b.kind, Len(content))
<1>1. PICK n \in Nat : n = Len(pushed)
  BY LenProperties DEF PiTypeOK
<1>2. b.kind \in {"thinking", "text", "toolCall"} /\ Len(content) \in Nat
  BY BlockFields, LenProperties DEF PiTypeOK
<1>3. s \in Step /\ s.step = "block_start" /\ s = Protocol!Block("block_start", b.kind, Len(content))
  BY <1>2 DEF Step, Block, Protocol!Block
<1>4. Protocol!Flowing
  BY DEF PushInv
<1>5. pushed' = Append(pushed, s)
  OBVIOUS
<1>6. /\ pushed' \in Seq(Step) /\ Protocol!Flowing' /\ Len(pushed') >= n + 1
      /\ \A k \in 1..n : pushed'[k] = pushed[k]
      /\ pushed'[n + 1] = s
      /\ Protocol!At("block_start")' = Protocol!At("block_start") \cup {n + 1}
      /\ Protocol!At("block_end")' = Protocol!At("block_end") \cup {}
  <2> HIDE DEF s
  <2>1. /\ pushed' \in Seq(Step) /\ Len(pushed') = n + 1
        /\ \A k \in 1..n : pushed'[k] = pushed[k]
        /\ pushed'[n + 1] = s
    BY <1>1, <1>3, <1>5, PushGrows
  <2>2. /\ Protocol!At("block_start")' = Protocol!At("block_start") \cup {n + 1}
        /\ Protocol!At("block_end")' = Protocol!At("block_end")
    <3>1. \A step : /\ s.step = step => Protocol!At(step)' = Protocol!At(step) \cup {n + 1}
                    /\ s.step # step => Protocol!At(step)' = Protocol!At(step)
      BY <1>1, <1>3, <1>5, PushGrows
    <3>2. s.step # "block_end"
      BY <1>3
    <3> QED BY <1>3, <3>1, <3>2
  <2>3. Protocol!Flowing'
    BY <1>3, <1>4, <1>5, FlowsOn
  <2> QED BY <2>1, <2>2, <2>3
<1>7. BlockInv'
  <2>1. {} \in SUBSET {n + 2}
    OBVIOUS
  <2> QED BY <1>1, <1>6, <2>1, BlockAnnounced DEF PushInv
<1>8. Protocol!IsNext(Len(content)) /\ Len(content) \in 0..Len(pushed)
  BY NextIndex DEF PushInv
<1>9. Protocol!Open
  BY <1>2, <1>3, <1>4, <1>5, <1>8 DEF Protocol!Open, Protocol!Kinds
<1> QED BY <1>6, <1>7, <1>9 DEF Streams, PushInv, Protocol!StreamNext, ReadOn

(* Two more elements.                                                       *)
LEMMA TwoPushed ==
    ASSUME NEW S, NEW q \in Seq(S), NEW s \in S, NEW t \in S, NEW n, n = Len(q), NEW r,
           r = q \o <<s, t>>
    PROVE  /\ r \in Seq(S) /\ Len(r) = n + 2
           /\ \A k \in 1..n : r[k] = q[k]
           /\ r[n + 1] = s /\ r[n + 2] = t
OBVIOUS

(* A tool call without a start is announced whole.                          *)
LEMMA WholeStreams ==
    ASSUME PiTypeOK, PushInv, phase = "reading", ReadOn,
           NEW b \in ContentBlock, content' = Append(content, b), b.kind = "toolCall", b.ended,
           pushed' = pushed \o <<Block("block_start", "toolCall", Len(content)),
                                 Block("block_end", "toolCall", Len(content))>>
    PROVE  Streams
<1> DEFINE s == Block("block_start", "toolCall", Len(content))
           t == Block("block_end", "toolCall", Len(content))
<1>1. PICK n \in Nat : n = Len(pushed)
  BY LenProperties DEF PiTypeOK
<1>2. Len(content) \in Nat
  BY LenProperties DEF PiTypeOK
<1>3. /\ s \in Step /\ s.step = "block_start" /\ s = Protocol!Block("block_start", "toolCall", Len(content))
      /\ t \in Step /\ t.step = "block_end" /\ t = Protocol!Block("block_end", "toolCall", Len(content))
      /\ t.index = Len(content)
  BY <1>2 DEF Step, Block, Protocol!Block
<1>4. Protocol!Flowing
  BY DEF PushInv
<1>5. /\ pushed' \in Seq(Step) /\ Len(pushed') = n + 2
      /\ \A k \in 1..n : pushed'[k] = pushed[k]
      /\ pushed'[n + 1] = s /\ pushed'[n + 2] = t
  <2>1. pushed' = pushed \o <<s, t>>
    OBVIOUS
  <2>2. pushed \in Seq(Step)
    BY DEF PiTypeOK
  <2> HIDE DEF s, t
  <2> QED BY <1>1, <1>3, <2>1, <2>2, TwoPushed
<1>6. DOMAIN pushed = 1..n /\ DOMAIN pushed' = 1..(n + 2)
  BY <1>1, <1>5, LenProperties DEF PiTypeOK
<1> HIDE DEF s, t
<1>7. 1..(n + 2) = (1..n) \cup {n + 1, n + 2}
  OBVIOUS
<1>8. ASSUME NEW step
      PROVE  Protocol!At(step)' = Protocol!At(step) \cup {k \in {n + 1} : s.step = step}
                                  \cup {k \in {n + 2} : t.step = step}
  <2>1. Protocol!At(step) = {k \in 1..n : pushed[k].step = step}
    BY <1>6 DEF Protocol!At
  <2>2. Protocol!At(step)' = {k \in (1..n) \cup {n + 1, n + 2} : pushed'[k].step = step}
    BY <1>6, <1>7 DEF Protocol!At
  <2> QED BY <1>5, <2>1, <2>2
<1>9. /\ Protocol!At("block_start")' = Protocol!At("block_start") \cup {n + 1}
      /\ Protocol!At("block_end")' = Protocol!At("block_end") \cup {n + 2}
      /\ Protocol!At("done")' = Protocol!At("done") /\ Protocol!At("error")' = Protocol!At("error")
  BY <1>3, <1>8
<1>10. Protocol!Flowing'
  <2>1. n # 0
    BY <1>1, <1>4, EmptySeq DEF Protocol!Flowing, PiTypeOK
  <2>2. pushed'[1] = pushed[1] /\ pushed' # <<>>
    BY <1>5, <2>1
  <2> QED BY <1>4, <1>9, <2>2 DEF Protocol!Flowing
<1>11. BlockInv'
  <2>1. PICK E \in SUBSET {n + 2} : E = {n + 2}
    OBVIOUS
  <2>2. pushed'[n + 1] = Block("block_start", b.kind, Len(content)) /\ pushed'[n + 2].index = Len(content)
    BY <1>3, <1>5 DEF s
  <2>3. Protocol!At("block_end")' = Protocol!At("block_end") \cup E /\ E # {}
    BY <1>9, <2>1
  <2>4. b.kind = "toolCall" => (b.ended <=> E # {})
    BY <2>3
  <2>5. BlockInv /\ Len(pushed') >= n + 1
    BY <1>5 DEF PushInv
  <2>6. /\ pushed' \in Seq(Step)
        /\ \A k \in 1..n : pushed'[k] = pushed[k]
        /\ Protocol!At("block_start")' = Protocol!At("block_start") \cup {n + 1}
    BY <1>5, <1>9
  <2> QED BY <1>1, <2>2, <2>3, <2>4, <2>5, <2>6, BlockAnnounced
<1>12. Protocol!WholeCall
  <2>1. Protocol!IsNext(Len(content)) /\ Len(content) \in 0..Len(pushed)
    BY NextIndex DEF PushInv
  <2> QED BY <1>4, <2>1 DEF Protocol!WholeCall, Protocol!Block, Block
<1> QED BY <1>5, <1>10, <1>11, <1>12 DEF Streams, PushInv, Protocol!StreamNext, ReadOn

(* A delta changes neither the kind nor the end of its block.               *)
LEMMA ShapeOfChange ==
    ASSUME PiTypeOK, NEW e \in Events, NEW b \in ContentBlock, ChangesBlock(e, b),
           e.type \in ToolEndTypes => content[idToIndex[e.id] + 1].ended
    PROVE  KeepsShape
<1>1. PICK at : at = idToIndex[e.id] + 1
  OBVIOUS
<1>2. /\ Len(content') = Len(content)
      /\ \A k \in 1..Len(content) : k # at => content'[k] = content[k]
      /\ content'[at] = b /\ content[at] \in ContentBlock
      /\ b.kind = content[at].kind
  BY <1>1, ChangingContent
<1>3. b.kind = "toolCall" => b.ended = content[at].ended
  <2>1. b.kind = "toolCall" => b.ended \in BOOLEAN /\ content[at].ended \in BOOLEAN
    BY <1>2, BlockFields
  <2>2. b.kind = "toolCall" => b.ended = content[at].ended \/ (b.ended /\ e.type \in ToolEndTypes)
    BY <1>1 DEF ChangesBlock, KindOf
  <2> QED BY <1>1, <2>1, <2>2
<1> QED BY <1>2, <1>3 DEF KeepsShape, IsTool

(* Every event moves the stream on as the protocol allows.                  *)
LEMMA EventStreams ==
    ASSUME PiTypeOK, PushInv, NEW e \in Events, HandleEvent(e)
    PROVE  Streams
<1>1. CASE BlockStart(e)
  <2> DEFINE b == TextBlock(KindOf(e.type))
  <2>1. b \in ContentBlock /\ b.kind = KindOf(e.type) /\ b.kind # "toolCall"
    BY NewBlockType DEF KindOf
  <2>2. /\ phase = "reading" /\ ReadOn /\ content' = Append(content, b)
        /\ pushed' = Append(pushed, Block("block_start", KindOf(e.type), Len(content)))
    BY <1>1 DEF BlockStart, Take
  <2> HIDE DEF b
  <2> QED BY <2>1, <2>2, StartStreams
<1>2. CASE ToolInputStart(e)
  <2> DEFINE b == ToolBlock(e.id)
  <2>1. /\ phase = "reading" /\ ReadOn /\ content' = Append(content, b)
        /\ pushed' = Append(pushed, Block("block_start", "toolCall", Len(content)))
        /\ e.type = "tool-input-start" /\ e.id # NoId
    BY <1>2 DEF ToolInputStart, Take
  <2>2. e.id \in Ids
    BY <2>1, EventFields DEF BlockTypes, ToolTypes
  <2>3. b \in ContentBlock /\ b.kind = "toolCall" /\ b.ended = FALSE
    BY <2>2, NewBlockType
  <2> HIDE DEF b
  <2> QED BY <2>1, <2>3, StartStreams
<1>3. CASE ToolEndNew(e)
  <2> DEFINE arguments == Arguments(e, ToolBlock(e.id))
             b == WithEnd(ToolBlock(e.id), arguments)
  <2>1. /\ phase = "reading" /\ ReadOn /\ content' = Append(content, b)
        /\ pushed' = pushed \o <<Block("block_start", "toolCall", Len(content)),
                                 Block("block_end", "toolCall", Len(content))>>
        /\ e.type \in ToolEndTypes /\ e.id # NoId
    BY <1>3 DEF ToolEndNew, Take, WithEnd
  <2>2. e.id \in Ids
    BY <2>1, EventFields DEF BlockTypes, ToolTypes
  <2>3. /\ ToolBlock(e.id) \in ContentBlock /\ ToolBlock(e.id).kind = "toolCall"
        /\ arguments \in Values \ {"absent"}
    BY <2>2, NewBlockType, ArgumentsType
  <2>4. b \in ContentBlock /\ b.kind = "toolCall" /\ b.ended
    <3> HIDE DEF arguments
    <3> QED BY <2>3, EndChange
  <2> HIDE DEF b
  <2> QED BY <2>1, <2>4, WholeStreams
<1>4. CASE BlockDelta(e)
  <2>1. PICK b \in ContentBlock : ChangesBlock(e, b)
    BY <1>4, DeltaChanges DEF ChangesBlock
  <2>2. /\ phase = "reading" /\ ReadOn /\ Leads(e.id, KindOf(e.type)) /\ e.type \in DeltaTypes
        /\ pushed' = Append(pushed, Block("block_delta", KindOf(e.type), idToIndex[e.id]))
    BY <1>4 DEF BlockDelta, Take
  <2>3. e.type \notin ToolEndTypes
    BY <2>2 DEF DeltaTypes, ToolEndTypes
  <2>4. KeepsShape
    BY <2>1, <2>3, ShapeOfChange
  <2> QED BY <2>2, <2>4, DeltaStreams
<1>5. CASE ToolInputDelta(e)
  <2>1. PICK b \in ContentBlock : ChangesBlock(e, b)
    BY <1>5, InputDeltaChanges DEF ChangesBlock
  <2>2. /\ phase = "reading" /\ ReadOn /\ Leads(e.id, "toolCall") /\ e.type = "tool-input-delta"
        /\ pushed' = Append(pushed, Block("block_delta", "toolCall", idToIndex[e.id]))
    BY <1>5 DEF ToolInputDelta, Take
  <2>3. e.type \notin ToolEndTypes
    BY <2>2 DEF ToolEndTypes
  <2>4. KeepsShape
    BY <2>1, <2>3, ShapeOfChange
  <2> QED BY <2>2, <2>4, DeltaStreams
<1>6. CASE BlockEnd(e)
  <2>1. PICK at : at = idToIndex[e.id] + 1
    OBVIOUS
  <2>2. /\ phase = "reading" /\ ReadOn /\ Leads(e.id, KindOf(e.type)) /\ UNCHANGED content
        /\ pushed' = Append(pushed, Block("block_end", KindOf(e.type), idToIndex[e.id]))
        /\ KindOf(e.type) # "toolCall"
    BY <1>6 DEF BlockEnd, Take, output, KindOf
  <2>3. idToIndex[e.id] = at - 1
    BY <2>1, <2>2, KnownBlock
  <2> QED BY <2>1, <2>2, <2>3, EndStreams
<1>7. CASE ToolEndKnown(e)
  <2>1. PICK b \in ContentBlock : ChangesBlock(e, b)
    BY <1>7, ToolEndChanges DEF ChangesBlock
  <2>2. PICK at : at = idToIndex[e.id] + 1
    OBVIOUS
  <2>3. /\ phase = "reading" /\ ReadOn /\ Leads(e.id, "toolCall") /\ e.type \in ToolEndTypes
        /\ content[at].ended => pushed' = pushed
        /\ ~content[at].ended => pushed' = Append(pushed, Block("block_end", "toolCall", at - 1))
    BY <1>7, <2>2 DEF ToolEndKnown, Take
  <2>4. CASE content[at].ended
    <3>1. KeepsShape
      BY <2>1, <2>2, <2>4, ShapeOfChange
    <3> QED BY <2>3, <2>4, <3>1, QuietStreams DEF ReadOn
  <2>5. CASE ~content[at].ended
    <3>1. b.kind = "toolCall" /\ b.ended
      BY <2>1, <2>3 DEF ChangesBlock, ToolEndTypes, DeltaTypes
    <3>2. /\ Len(content') = Len(content) /\ content'[at] = b
          /\ \A k \in 1..Len(content) : /\ content'[k].kind = content[k].kind
                                        /\ k # at => content'[k] = content[k]
      <4>1. /\ Len(content') = Len(content) /\ content'[at] = b
            /\ \A k \in 1..Len(content) : k # at => content'[k] = content[k]
            /\ b.kind = content[at].kind
        BY <2>1, <2>2, ChangingContent
      <4> QED BY <4>1
    <3>3. PICK kind : kind = "toolCall"
      OBVIOUS
    <3>4. /\ kind = "toolCall" => ~content[at].ended /\ content'[at].ended
          /\ Leads(e.id, kind) /\ pushed' = Append(pushed, Block("block_end", kind, at - 1))
      BY <2>3, <2>5, <3>1, <3>2, <3>3
    <3> QED BY <2>2, <2>3, <3>2, <3>4, EndStreams
  <2> QED BY <2>4, <2>5
<1>8. CASE Terminal(e) \/ Skip(e)
  <2>1. UNCHANGED <<content, pushed>> /\ phase = "reading" /\ phase' \in {"reading", "drained"}
    BY <1>8 DEF Terminal, Skip, Take, ReadOn, output
  <2>2. KeepsShape
    BY <2>1 DEF KeepsShape
  <2> QED BY <2>1, <2>2, QuietStreams
<1>9. CASE GatewayError(e)
  BY <1>9, ThrowStreams DEF GatewayError, Take
<1> QED BY <1>1, <1>2, <1>3, <1>4, <1>5, <1>6, <1>7, <1>8, <1>9 DEF HandleEvent

(* So does every step.                                                      *)
LEMMA StreamStep ==
    ASSUME PiTypeOK, PushInv, OpenReason, [Next]_vars
    PROVE  Streams
<1>1. CASE CallerAborts \/ ResponseOk \/ EndOfBody \/ UNCHANGED vars
  <2>1. UNCHANGED <<content, pushed>>
        /\ \/ phase' = phase
           \/ phase \in {"fetching", "reading", "drained"} /\ phase' \in {"reading", "drained", "closed"}
    BY <1>1 DEF CallerAborts, ResponseOk, EndOfBody, vars, output
  <2>2. KeepsShape
    BY <2>1 DEF KeepsShape
  <2> QED BY <2>1, <2>2, QuietStreams
<1>2. CASE MissingKey \/ GatewayFails \/ AbortRejects \/ MalformedLine
  BY <1>2, ThrowStreams DEF MissingKey, GatewayFails, AbortRejects, MalformedLine, Take
<1>3. CASE Fetch
  BY <1>3, FetchStreams
<1>4. CASE Finish
  BY <1>4, FinishStreams
<1>5. ASSUME NEW e \in Events, HandleEvent(e) PROVE Streams
  BY <1>5, EventStreams
<1> QED BY <1>1, <1>2, <1>3, <1>4, <1>5 DEF Next, Returned

-----------------------------------------------------------------------------
(* How a message ends.                                                      *)

(* While the call is open every line was good, and a terminal event was     *)
(* seen if there was one.                                                   *)
EndInv ==
    /\ sawTerminalEvent <=> Terminals # {}
    /\ phase # "closed" => \A j \in Lines : IsEvent(j) /\ received[j].type # "error"
    /\ OpenReason
    /\ DoneIsEarned

RightReason(j) ==
    /\ stopReason = "length" <=> received[j].reason = "length"
    /\ stopReason = "stop" => \A i \in 1..j : ~NamesTool(i) \/ ~Opens(i)
    /\ stopReason = "toolUse" =>
          received[j].reason \in ToolUseReasons \/ \E i \in 1..j : NamesTool(i) /\ Opens(i)

ReasonInv ==
    /\ phase # "closed" => \A j \in Terminals : IsLast(j, Terminals) => RightReason(j)
    /\ StopReasonIsTheLastOne

(* The lines that are no terminal event.                                    *)
ReadsOther(line) ==
    /\ phase = "reading" /\ received' = Append(received, line)
    /\ UNCHANGED <<sawTerminalEvent, usage>>
    /\ line # Malformed => line.type \notin TerminalTypes
    /\ \/ phase' = "closed"
       \/ stopReason' = stopReason /\ line # Malformed /\ line.type # "error"

(* What a step can do to the end of a message.                              *)
LEMMA EndClasses ==
    ASSUME [Next]_vars
    PROVE  \/ UNCHANGED vars
           \/ /\ phase # "closed" /\ UNCHANGED <<received, sawTerminalEvent, usage>>
              /\ phase' = "closed" \/ UNCHANGED <<stopReason>>
           \/ \E line \in Events \cup {Malformed} : ReadsOther(line)
           \/ \E e \in Events : Terminal(e)
<1>1. CASE ReadsNothing
  BY <1>1 DEF ReadsNothing, CallerAborts, MissingKey, Fetch, ResponseOk, GatewayFails, AbortRejects,
              EndOfBody, Finish, Throw, vars, output
<1>2. CASE MalformedLine
  <2>1. ReadsOther(Malformed)
    BY <1>2 DEF MalformedLine, Take, Throw, ReadsOther
  <2> QED BY <2>1
<1>3. ASSUME NEW e \in Events, HandleEvent(e), ~Terminal(e) PROVE ReadsOther(e)
  <2> USE EventFields DEF Take, ReadsOther, StartTypes, DeltaTypes, EndTypes, ToolEndTypes, TerminalTypes
  <2>1. CASE BlockStart(e) \/ BlockDelta(e) \/ BlockEnd(e)
    BY <2>1 DEF BlockStart, BlockDelta, BlockEnd, output
  <2>2. CASE ToolInputStart(e) \/ ToolInputDelta(e)
    BY <2>2 DEF ToolInputStart, ToolInputDelta
  <2>3. CASE ToolEndNew(e) \/ ToolEndKnown(e)
    BY <2>3 DEF ToolEndNew, ToolEndKnown
  <2>4. CASE GatewayError(e)
    BY <2>4 DEF GatewayError, Throw
  <2>5. CASE Skip(e)
    BY <2>5 DEF Skip, Skipped, output
  <2> QED BY <1>3, <2>1, <2>2, <2>3, <2>4, <2>5 DEF HandleEvent
<1>4. ReadsNothing \/ MalformedLine \/ \E e \in Events : HandleEvent(e)
  BY DEF Next, ReadsNothing, Returned
<1> QED BY <1>1, <1>2, <1>3, <1>4

(* Nothing more is done to a call that is closed.                           *)
LEMMA ClosedStays ==
    ASSUME phase = "closed", [Next]_vars
    PROVE  UNCHANGED vars
<1>1. ASSUME NEW e \in Events, HandleEvent(e) PROVE phase = "reading"
  BY <1>1 DEF HandleEvent, BlockStart, BlockDelta, BlockEnd, ToolInputStart, ToolInputDelta, ToolEndNew,
              ToolEndKnown, Terminal, GatewayError, Skip, Take
<1> QED BY <1>1 DEF Next, CallerAborts, MissingKey, Fetch, ResponseOk, GatewayFails, AbortRejects,
                   EndOfBody, Finish, MalformedLine, Take, Returned

(* "done" is not pushed while the call is open.                             *)
LEMMA OpenIsNotDone == PiTypeOK /\ PushInv /\ phase # "closed" => ~Done
<1> SUFFICES ASSUME PiTypeOK, PushInv, phase # "closed" PROVE ~Done
  OBVIOUS
<1>1. CASE phase = "called"
  BY <1>1 DEF PushInv, Done
<1>2. CASE phase # "called"
  <2>1. pushed # <<>> => Len(pushed) \in DOMAIN pushed
    BY LenProperties, EmptySeq DEF PiTypeOK
  <2> QED BY <1>2, <2>1 DEF PushInv, Protocol!Flowing, Protocol!At, Done, PiTypeOK
<1> QED BY <1>1, <1>2

(* Finish alone pushes "done".                                              *)
LEMMA DoneByFinish ==
    ASSUME PiTypeOK, phase # "closed", phase' = "closed", [Next]_vars, Done'
    PROVE  Finish /\ sawTerminalEvent /\ UNCHANGED <<received, stopReason>>
<1>1. ASSUME Throw PROVE ~Done'
  <2> DEFINE s == [step |-> "error", reason |-> stopReason']
  <2>1. pushed' = Append(pushed, s) /\ s.step = "error"
    BY <1>1 DEF Throw
  <2>2. pushed'[Len(pushed')] = s
    <3>1. s \in Step
      BY <1>1 DEF Throw, Step
    <3> HIDE DEF s
    <3> QED BY <2>1, <3>1, AppendProperties DEF PiTypeOK
  <2> HIDE DEF s
  <2> QED BY <2>1, <2>2 DEF Done
<1>2. ASSUME NEW e \in Events, HandleEvent(e) PROVE Throw
  BY <1>2 DEF HandleEvent, BlockStart, BlockDelta, BlockEnd, ToolInputStart, ToolInputDelta, ToolEndNew,
              ToolEndKnown, Terminal, GatewayError, Skip, ReadOn
<1>3. Finish /\ sawTerminalEvent
  BY <1>1, <1>2 DEF Next, CallerAborts, MissingKey, Fetch, ResponseOk, GatewayFails, AbortRejects,
                    EndOfBody, Finish, MalformedLine, Returned, vars
<1> QED BY <1>3 DEF Finish

(* Openers, ranks and ids keep agreeing.                                    *)
LEMMA OpenStep ==
    ASSUME PiTypeOK, OpenInv, IdInv, [Next]_vars
    PROVE  OpenInv' /\ IdInv'
<1>0. PICK n : n = Len(received)
  OBVIOUS
<1>1. CASE UNCHANGED <<content, idToIndex, received>>
  <2>1. Openers' = Openers /\ NamedLines' = NamedLines
    BY <1>1 DEF Openers, NamedLines, Lines, Opens, NamesTool, OfType, IsEvent
  <2>2. ASSUME NEW o PROVE Rank(o)' = Rank(o)
    <3>1. {i \in Openers' : i <= o} = {i \in Openers : i <= o}
      BY <2>1
    <3> QED BY <3>1 DEF Rank
  <2>3. \A o : Newest(o)' <=> Newest(o)
    BY <1>1, <2>1 DEF Newest
  <2>4. \A o : NamesTool(o)' <=> NamesTool(o)
    BY <1>1 DEF NamesTool, OfType, IsEvent
  <2>5. OpenInv'
    BY <1>1, <2>1, <2>2, <2>4 DEF OpenInv, IsTool
  <2>6. IdInv'
    BY <1>1, <2>1, <2>2, <2>3 DEF IdInv
  <2> QED BY <2>5, <2>6
<1>2. ASSUME NEW line \in Events \cup {Malformed}, SparesBlocks(line) PROVE OpenInv' /\ IdInv'
  <2>1. /\ received' = Append(received, line) /\ UNCHANGED <<content, idToIndex>>
        /\ line # Malformed =>
              /\ line.type \notin StartTypes
              /\ line.type = "tool-input-start" => line.id = NoId
              /\ line.type \in ToolEndTypes => line.id \in DOMAIN idToIndex \cup {NoId}
    BY <1>2 DEF SparesBlocks
  <2>2. ~Opens(n + 1)'
    BY <1>0, <2>1, OpensNow
  <2> QED BY <1>0, <2>1, <2>2, NoOpeningStep
<1>3. ASSUME NEW e \in Events, NEW b \in ContentBlock, OpensBlock(e, b) PROVE OpenInv' /\ IdInv'
  BY <1>0, <1>3, OpeningStep
<1>4. ASSUME NEW e \in Events, NEW b \in ContentBlock, ChangesBlock(e, b) PROVE OpenInv' /\ IdInv'
  <2>1. PICK at : at = idToIndex[e.id] + 1
    OBVIOUS
  <2>2. /\ Len(content') = Len(content)
        /\ \A k \in 1..Len(content) : /\ content'[k].kind = content[k].kind
                                      /\ content[k].kind = "toolCall" => content'[k].id = content[k].id
    BY <1>4, <2>1, ChangingContent
  <2>3. /\ received' = Append(received, e) /\ UNCHANGED idToIndex
        /\ e.id \in DOMAIN idToIndex
        /\ e.type \in DeltaTypes \cup {"tool-input-delta"} \cup ToolEndTypes
    BY <1>4 DEF ChangesBlock
  <2>4. ~Opens(n + 1)'
    BY <1>0, <2>3, OpensNow DEF StartTypes, DeltaTypes, ToolEndTypes
  <2> QED BY <1>0, <2>2, <2>3, <2>4, NoOpeningStep
<1> QED BY <1>1, <1>2, <1>3, <1>4, StepClasses

(* What is billed: input and cached tokens apart, no number negative.       *)
LEMMA DisjointUsageType ==
    ASSUME NEW u \in RawUsage, NEW d, d = DisjointUsage(u)
    PROVE  /\ d \in Usage
           /\ d.input + d.cacheRead = IF u.input > u.cached THEN u.input ELSE u.cached
           /\ d.cacheRead = u.cached /\ d.output = u.output
           /\ d.totalTokens = d.input + d.cacheRead + d.output
<1>1. u.input \in Nat /\ u.output \in Nat /\ u.cached \in Nat
  BY DEF RawUsage
<1>2. PICK m \in Nat : m = IF u.input > u.cached THEN u.input - u.cached ELSE 0
  BY <1>1
<1>3. d = [input |-> m, output |-> u.output, cacheRead |-> u.cached,
           totalTokens |-> m + u.output + u.cached]
  BY <1>2 DEF DisjointUsage
<1>4. m + u.output + u.cached \in Nat
  BY <1>1
<1>5. d \in Usage
  BY <1>1, <1>3, <1>4 DEF Usage
<1>6. m + u.cached = IF u.input > u.cached THEN u.input ELSE u.cached
  BY <1>1, <1>2
<1>7. m + u.output + u.cached = m + u.cached + u.output
  BY <1>1
<1> QED BY <1>3, <1>5, <1>6, <1>7

(* The rest of the state keeps its types.                                   *)
ControlTypeOK ==
    /\ phase \in {"called", "fetching", "reading", "drained", "closed"}
    /\ aborted \in BOOLEAN /\ sawTerminalEvent \in BOOLEAN
    /\ stopReason \in {"stop", "length", "toolUse", "error", "aborted"}
    /\ usage \in Usage

(* Every step keeps their types too.                                        *)
LEMMA ControlTypeStep == PiTypeOK /\ [Next]_vars => ControlTypeOK'
<1> SUFFICES ASSUME PiTypeOK, [Next]_vars PROVE ControlTypeOK'
  OBVIOUS
<1>0. ControlTypeOK
  BY DEF PiTypeOK, ControlTypeOK
<1>1. CASE ReadsNothing \/ MalformedLine
  BY <1>0, <1>1 DEF ControlTypeOK, ReadsNothing, CallerAborts, MissingKey, Fetch, ResponseOk, GatewayFails,
              AbortRejects, EndOfBody, Finish, MalformedLine, Take, Throw, vars, output
<1>2. ASSUME NEW e \in Events, HandleEvent(e) PROVE ControlTypeOK'
  <2> USE <1>0 DEF ControlTypeOK, Take, ReadOn
  <2>1. CASE BlockStart(e) \/ BlockDelta(e) \/ BlockEnd(e)
    BY <2>1 DEF BlockStart, BlockDelta, BlockEnd, output
  <2>2. CASE ToolInputStart(e) \/ ToolInputDelta(e) \/ ToolEndNew(e) \/ ToolEndKnown(e)
    BY <2>2 DEF ToolInputStart, ToolInputDelta, ToolEndNew, ToolEndKnown
  <2>3. CASE Terminal(e)
    <3>1. e.usage \in RawUsage \cup {NoUsage}
      BY <2>3, EventFields DEF Terminal
    <3>2. usage' \in Usage
      BY <2>3, <3>1, DisjointUsageType DEF Terminal
    <3>3. stopReason' \in StopReasons
      BY <2>3 DEF Terminal, StopReason, StopReasons
    <3> QED BY <2>3, <3>2, <3>3 DEF Terminal, StopReasons
  <2>4. CASE GatewayError(e)
    BY <2>4 DEF GatewayError, Throw
  <2>5. CASE Skip(e)
    BY <2>5 DEF Skip, output
  <2> QED BY <1>2, <2>1, <2>2, <2>3, <2>4, <2>5 DEF HandleEvent
<1> QED BY <1>1, <1>2 DEF Next, ReadsNothing, Returned

(* Every step keeps the types.                                              *)
LEMMA PiTypeStep == PiTypeOK /\ PushInv /\ OpenReason /\ [Next]_vars => PiTypeOK'
<1> SUFFICES ASSUME PiTypeOK, PushInv, OpenReason, [Next]_vars PROVE PiTypeOK'
  OBVIOUS
<1>1. ContentTypeOK' /\ ControlTypeOK' /\ pushed' \in Seq(Step)
  BY ContentTypeStep, ControlTypeStep, StreamStep DEF Streams
<1> QED BY <1>1 DEF ContentTypeOK, ControlTypeOK, PiTypeOK, IsTool

(* The terminal events and reports so far, and the new one.                 *)
LEMMA TerminalsGrow ==
    ASSUME PiTypeOK, NEW line \in Events \cup {Malformed}, received' = Append(received, line),
           NEW n, n = Len(received)
    PROVE  /\ Terminals \subseteq 1..n /\ Reports \subseteq Terminals /\ n \in Nat
           /\ Terminals' = Terminals \cup {j \in {n + 1} : line # Malformed /\ line.type \in TerminalTypes}
           /\ Reports' = Reports \cup {j \in {n + 1} : line # Malformed /\ line.type \in TerminalTypes
                                                         /\ line.usage # NoUsage}
<1>1. /\ n \in Nat /\ Lines = 1..n /\ Lines' = 1..(n + 1)
      /\ \A j \in 1..n : received'[j] = received[j]
      /\ received'[n + 1] = line
  BY HistoryGrows
<1>2. 1..(n + 1) = (1..n) \cup {n + 1}
  BY <1>1
<1>3. \A j \in 1..n : OfType(j, TerminalTypes)' <=> OfType(j, TerminalTypes)
  BY LinesStay
<1>4. OfType(n + 1, TerminalTypes)' <=> line # Malformed /\ line.type \in TerminalTypes
  BY <1>1 DEF OfType, IsEvent
<1>5. Terminals' = Terminals \cup {j \in {n + 1} : line # Malformed /\ line.type \in TerminalTypes}
  <2>1. Terminals = {j \in 1..n : OfType(j, TerminalTypes)}
    BY <1>1 DEF Terminals
  <2>2. Terminals' = {j \in (1..n) \cup {n + 1} : OfType(j, TerminalTypes)'}
    BY <1>1, <1>2 DEF Terminals
  <2> QED BY <1>3, <1>4, <2>1, <2>2
<1>6. Terminals \subseteq 1..n
  BY <1>1 DEF Terminals
<1>7. \A j \in Terminals : received'[j] = received[j]
  BY <1>1, <1>6
<1> QED BY <1>1, <1>5, <1>6, <1>7 DEF Reports

(* Lines and terminal events keep deciding whether a message may be done.   *)
LEMMA EndStep ==
    ASSUME PiTypeOK, PushInv, PiTypeOK', PushInv', EndInv, [Next]_vars
    PROVE  EndInv'
<1>0. PICK n : n = Len(received)
  OBVIOUS
<1>1. CASE UNCHANGED vars
  <2>1. UNCHANGED <<Terminals, Done, Lines>> /\ \A j : IsEvent(j)' <=> IsEvent(j)
    BY <1>1 DEF vars, output, Terminals, Done, Lines, OfType, IsEvent
  <2> QED BY <1>1, <2>1 DEF EndInv, OpenReason, DoneIsEarned, vars, output
<1>2. CASE phase = "closed"
  BY <1>1, <1>2, ClosedStays
<1>3. CASE phase # "closed"
  <2>1. /\ \A j \in Lines : IsEvent(j) /\ received[j].type # "error"
        /\ stopReason \in StopReasons /\ (sawTerminalEvent <=> Terminals # {})
    BY <1>3 DEF EndInv, OpenReason
  <2>2. DoneIsEarned'
    <3>1. SUFFICES ASSUME Done' PROVE DoneIsEarned'
      BY DEF DoneIsEarned
    <3>2. (PiTypeOK /\ PushInv /\ phase # "closed" => ~Done)'
      BY OpenIsNotDone, PTL
    <3>3. sawTerminalEvent /\ UNCHANGED received
      BY <1>3, <3>1, <3>2, DoneByFinish
    <3>4. UNCHANGED <<Terminals, Lines>> /\ \A j : IsEvent(j)' <=> IsEvent(j)
      BY <3>3 DEF Terminals, Lines, OfType, IsEvent
    <3> QED BY <2>1, <3>3, <3>4 DEF DoneIsEarned
  <2>3. CASE /\ UNCHANGED <<received, sawTerminalEvent>>
             /\ phase' = "closed" \/ UNCHANGED stopReason
    <3>1. UNCHANGED <<Terminals, Lines>> /\ \A j : IsEvent(j)' <=> IsEvent(j)
      BY <2>3 DEF Terminals, Lines, OfType, IsEvent
    <3> QED BY <2>1, <2>2, <2>3, <3>1 DEF EndInv, OpenReason
  <2>4. ASSUME NEW line \in Events \cup {Malformed}, received' = Append(received, line)
        PROVE  /\ Terminals' = Terminals \cup {j \in {n + 1} : line # Malformed /\ line.type \in TerminalTypes}
               /\ line # Malformed /\ line.type # "error" =>
                    \A j \in Lines' : IsEvent(j)' /\ received'[j].type # "error"
    <3>1. /\ n \in Nat /\ Lines = 1..n /\ Lines' = 1..(n + 1)
          /\ \A j \in 1..n : received'[j] = received[j]
          /\ received'[n + 1] = line
      BY <1>0, <2>4, HistoryGrows
    <3>2. Terminals' = Terminals \cup {j \in {n + 1} : line # Malformed /\ line.type \in TerminalTypes}
      BY <1>0, <2>4, TerminalsGrow
    <3>3. ASSUME line # Malformed, line.type # "error", NEW j \in 1..(n + 1)
          PROVE  IsEvent(j)' /\ received'[j].type # "error"
      <4>1. CASE j = n + 1
        BY <3>1, <3>3, <4>1 DEF IsEvent
      <4>2. CASE j \in 1..n
        BY <2>1, <3>1, <4>2 DEF IsEvent
      <4> QED BY <3>1, <4>1, <4>2
    <3> QED BY <3>1, <3>2, <3>3
  <2>5. ASSUME NEW line \in Events \cup {Malformed}, ReadsOther(line) PROVE EndInv'
    <3>1. /\ received' = Append(received, line) /\ UNCHANGED sawTerminalEvent
          /\ line # Malformed => line.type \notin TerminalTypes
          /\ \/ phase' = "closed"
             \/ stopReason' = stopReason /\ line # Malformed /\ line.type # "error"
      BY <2>5 DEF ReadsOther
    <3>2. Terminals' = Terminals
      BY <2>4, <3>1
    <3> QED BY <2>1, <2>2, <2>4, <3>1, <3>2 DEF EndInv, OpenReason
  <2>6. ASSUME NEW e \in Events, Terminal(e) PROVE EndInv'
    <3>1. /\ received' = Append(received, e) /\ sawTerminalEvent' /\ e.type \in TerminalTypes
          /\ stopReason' \in StopReasons
      BY <2>6 DEF Terminal, Take, StopReason, StopReasons
    <3>2. e # Malformed /\ e.type # "error"
      BY <3>1, EventFields DEF TerminalTypes
    <3>3. Terminals' # {}
      BY <2>4, <3>1, <3>2
    <3> QED BY <2>2, <2>4, <3>1, <3>2, <3>3 DEF EndInv, OpenReason
  <2> QED BY <1>1, <2>3, <2>5, <2>6, EndClasses
<1> QED BY <1>2, <1>3

(* There is a tool call in the message if a line named and opened one.      *)
LEMMA ToolsNamed ==
    ASSUME PiTypeOK, OpenInv
    PROVE  (\E k \in DOMAIN content : IsTool(k)) <=> \E i \in Lines : NamesTool(i) /\ Opens(i)
<1>1. DOMAIN content = 1..Len(content)
  BY LenProperties DEF PiTypeOK
<1>2. ASSUME NEW k \in DOMAIN content, IsTool(k) PROVE \E i \in Lines : NamesTool(i) /\ Opens(i)
  <2>1. PICK o \in Openers : Rank(o) = k
    BY <1>1 DEF OpenInv
  <2> QED BY <1>2, <2>1 DEF OpenInv, Openers
<1>3. ASSUME NEW i \in Lines, NamesTool(i), Opens(i) PROVE \E k \in DOMAIN content : IsTool(k)
  <2>1. i \in Openers
    BY <1>3 DEF Openers
  <2> QED BY <1>1, <1>3, <2>1 DEF OpenInv
<1> QED BY <1>2, <1>3

(* What is right of an old line stays right while the reason is kept.       *)
LEMMA ReasonStays ==
    ASSUME PiTypeOK, NEW line \in Events \cup {Malformed}, received' = Append(received, line),
           stopReason' = stopReason, NEW j \in Lines, RightReason(j)
    PROVE  RightReason(j)'
<1>1. PICK n : n = Len(received)
  OBVIOUS
<1>2. /\ n \in Nat /\ Lines = 1..n
      /\ \A i \in 1..n : received'[i] = received[i]
  BY <1>1, HistoryGrows
<1>3. \A i \in 1..n : (NamesTool(i)' <=> NamesTool(i)) /\ (Opens(i)' <=> Opens(i))
  BY <1>1, LinesStay
<1>4. \A i \in 1..j : i \in 1..n
  BY <1>2
<1>5. received'[j] = received[j]
  BY <1>2
<1>6. /\ (\A i \in 1..j : ~NamesTool(i)' \/ ~Opens(i)') <=> (\A i \in 1..j : ~NamesTool(i) \/ ~Opens(i))
      /\ (\E i \in 1..j : NamesTool(i)' /\ Opens(i)') <=> (\E i \in 1..j : NamesTool(i) /\ Opens(i))
  BY <1>3, <1>4
<1> QED BY <1>5, <1>6 DEF RightReason

(* The reason a terminal event gives is right.                              *)
LEMMA ReasonGiven ==
    ASSUME PiTypeOK, OpenInv, IdInv, NEW e \in Events, Terminal(e), NEW n, n = Len(received)
    PROVE  RightReason(n + 1)'
<1>1. /\ e.type \in TerminalTypes /\ received' = Append(received, e) /\ stopReason' = StopReason(e)
      /\ e # Malformed
  BY EventFields DEF Terminal, Take
<1>2. /\ n \in Nat /\ Lines = 1..n /\ received'[n + 1] = e
  BY <1>1, HistoryGrows
<1>3. \A i \in 1..n : (NamesTool(i)' <=> NamesTool(i)) /\ (Opens(i)' <=> Opens(i))
  BY <1>1, LinesStay
<1>4. ~NamesTool(n + 1)'
  BY <1>1, OpensNow DEF TerminalTypes, ToolEndTypes
<1>5. 1..(n + 1) = (1..n) \cup {n + 1}
  BY <1>2
<1>6. (\E k \in DOMAIN content : content[k].kind = "toolCall")
      <=> \E i \in 1..(n + 1) : NamesTool(i)' /\ Opens(i)'
  BY <1>2, <1>3, <1>4, <1>5, ToolsNamed DEF IsTool
<1>7. /\ e.reason = "length" => StopReason(e) = "length"
      /\ e.reason \in ToolUseReasons => StopReason(e) = "toolUse"
      /\ e.reason \notin {"length"} \cup ToolUseReasons =>
            StopReason(e) = IF \E k \in DOMAIN content : content[k].kind = "toolCall"
                            THEN "toolUse" ELSE "stop"
  BY DEF StopReason, ToolUseReasons
<1>8. /\ stopReason' = "length" <=> e.reason = "length"
      /\ stopReason' = "stop" => ~\E k \in DOMAIN content : content[k].kind = "toolCall"
      /\ stopReason' = "toolUse" =>
            e.reason \in ToolUseReasons \/ \E k \in DOMAIN content : content[k].kind = "toolCall"
  BY <1>1, <1>7 DEF ToolUseReasons
<1>9. /\ stopReason' = "stop" => \A i \in 1..(n + 1) : ~NamesTool(i)' \/ ~Opens(i)'
      /\ stopReason' = "toolUse" =>
            e.reason \in ToolUseReasons \/ \E i \in 1..(n + 1) : NamesTool(i)' /\ Opens(i)'
  BY <1>6, <1>8
<1> QED BY <1>2, <1>8, <1>9 DEF RightReason

(* The last terminal event keeps deciding.                                  *)
LEMMA ReasonStep ==
    ASSUME PiTypeOK, PushInv, PiTypeOK', PushInv', OpenInv, IdInv, ReasonInv, [Next]_vars
    PROVE  ReasonInv'
<1>0. PICK n : n = Len(received)
  OBVIOUS
<1>1. ASSUME UNCHANGED <<received, stopReason>>
      PROVE  UNCHANGED Terminals /\ \A j : RightReason(j)' <=> RightReason(j)
  BY <1>1 DEF Terminals, Lines, RightReason, NamesTool, Opens, OfType, IsEvent
<1>2. CASE UNCHANGED vars
  <2>1. UNCHANGED <<Terminals, Done>> /\ \A j : RightReason(j)' <=> RightReason(j)
    BY <1>1, <1>2 DEF vars, output, Done
  <2> QED BY <1>2, <2>1 DEF ReasonInv, StopReasonIsTheLastOne, RightReason, vars
<1>3. CASE phase = "closed"
  BY <1>2, <1>3, ClosedStays
<1>4. CASE phase # "closed"
  <2>1. \A j \in Terminals : IsLast(j, Terminals) => RightReason(j)
    BY <1>4 DEF ReasonInv
  <2>2. StopReasonIsTheLastOne'
    <3>1. SUFFICES ASSUME Done' PROVE StopReasonIsTheLastOne'
      BY DEF StopReasonIsTheLastOne
    <3>2. (PiTypeOK /\ PushInv /\ phase # "closed" => ~Done)'
      BY OpenIsNotDone, PTL
    <3>3. UNCHANGED <<received, stopReason>>
      BY <1>4, <3>1, <3>2, DoneByFinish
    <3>4. \A j \in Terminals' : IsLast(j, Terminals') => RightReason(j)'
      BY <1>1, <2>1, <3>3
    <3> QED BY <3>4 DEF StopReasonIsTheLastOne, RightReason
  <2>3. SUFFICES ASSUME phase' # "closed", NEW j \in Terminals', IsLast(j, Terminals')
                 PROVE  RightReason(j)'
    BY <2>2 DEF ReasonInv
  <2>4. CASE UNCHANGED <<received, stopReason>>
    BY <1>1, <2>1, <2>3, <2>4
  <2>5. ASSUME NEW line \in Events \cup {Malformed}, ReadsOther(line) PROVE RightReason(j)'
    <3>1. /\ received' = Append(received, line) /\ stopReason' = stopReason
          /\ line # Malformed => line.type \notin TerminalTypes
      BY <2>3, <2>5 DEF ReadsOther
    <3>2. Terminals' = Terminals
      <4>1. Terminals' = Terminals \cup {i \in {n + 1} : line # Malformed /\ line.type \in TerminalTypes}
        BY <1>0, <3>1, TerminalsGrow
      <4> QED BY <3>1, <4>1
    <3>3. j \in Lines /\ RightReason(j)
      BY <2>1, <2>3, <3>2 DEF Terminals
    <3> QED BY <3>1, <3>3, ReasonStays
  <2>6. ASSUME NEW e \in Events, Terminal(e) PROVE RightReason(j)'
    <3>1. received' = Append(received, e) /\ e.type \in TerminalTypes /\ e # Malformed
      BY <2>6, EventFields DEF Terminal, Take
    <3>2. n \in Nat /\ Terminals \subseteq 1..n /\ Terminals' = Terminals \cup {n + 1}
      BY <1>0, <3>1, TerminalsGrow
    <3>3. j = n + 1
      BY <2>3, <3>2 DEF IsLast
    <3> QED BY <1>0, <2>6, <3>3, ReasonGiven
  <2>7. CASE UNCHANGED vars
    BY <2>4, <2>7 DEF vars, output
  <2> QED BY <2>3, <2>4, <2>5, <2>6, <2>7, EndClasses
<1> QED BY <1>3, <1>4

(* What UsageCountedOnce says of a report.                                  *)
CountsOnce(u) ==
    /\ usage.input + usage.cacheRead = IF u.input > u.cached THEN u.input ELSE u.cached
    /\ usage.cacheRead = u.cached /\ usage.output = u.output
    /\ usage.totalTokens = usage.input + usage.cacheRead + usage.output

(* The last report keeps being the one that is billed.                      *)
LEMMA UsageStep == PiTypeOK /\ UsageCountedOnce /\ [Next]_vars => UsageCountedOnce'
<1> SUFFICES ASSUME PiTypeOK, UsageCountedOnce, [Next]_vars,
                    NEW j \in Reports', IsLast(j, Reports')
             PROVE  CountsOnce(received[j].usage)'
  BY DEF UsageCountedOnce, CountsOnce
<1>0. PICK n : n = Len(received)
  OBVIOUS
<1>1. CASE UNCHANGED <<received, usage>>
  <2>1. UNCHANGED Reports
    BY <1>1 DEF Reports, Terminals, Lines, OfType, IsEvent
  <2>2. j \in Reports /\ IsLast(j, Reports)
    BY <2>1
  <2>3. CountsOnce(received[j].usage)
    BY <2>2 DEF UsageCountedOnce, CountsOnce
  <2> QED BY <1>1, <2>3 DEF CountsOnce
<1>2. ASSUME NEW line \in Events \cup {Malformed}, received' = Append(received, line),
             UNCHANGED usage, line # Malformed => line.type \notin TerminalTypes \/ line.usage = NoUsage
      PROVE  CountsOnce(received[j].usage)'
  <2>1. Reports' = Reports /\ Reports \subseteq 1..n
    BY <1>0, <1>2, TerminalsGrow
  <2>2. j \in Reports /\ IsLast(j, Reports)
    BY <2>1
  <2>3. CountsOnce(received[j].usage)
    BY <2>2 DEF UsageCountedOnce, CountsOnce
  <2>4. received'[j] = received[j]
    BY <1>0, <1>2, <2>1, <2>2, HistoryGrows
  <2> QED BY <1>2, <2>3, <2>4 DEF CountsOnce
<1>3. ASSUME NEW e \in Events, Terminal(e), e.usage # NoUsage
      PROVE  CountsOnce(received[j].usage)'
  <2>1. /\ received' = Append(received, e) /\ e.type \in TerminalTypes /\ e # Malformed
        /\ e.usage \in RawUsage /\ usage' = DisjointUsage(e.usage)
    BY <1>3, EventFields DEF Terminal, Take
  <2>2. n \in Nat /\ Reports \subseteq 1..n /\ Reports' = Reports \cup {n + 1}
    BY <1>0, <1>3, <2>1, TerminalsGrow
  <2>3. j = n + 1
    BY <2>2 DEF IsLast
  <2>4. received'[j] = e
    BY <1>0, <2>1, <2>3, HistoryGrows
  <2>5. PICK u \in RawUsage : u = e.usage
    BY <2>1
  <2>6. /\ usage'.input + usage'.cacheRead = IF u.input > u.cached THEN u.input ELSE u.cached
        /\ usage'.cacheRead = u.cached /\ usage'.output = u.output
        /\ usage'.totalTokens = usage'.input + usage'.cacheRead + usage'.output
    BY <2>1, <2>5, DisjointUsageType
  <2> QED BY <2>4, <2>5, <2>6 DEF CountsOnce
<1>4. ASSUME NEW e \in Events, Terminal(e), e.usage = NoUsage
      PROVE  received' = Append(received, e) /\ UNCHANGED usage
  BY <1>4 DEF Terminal, Take
<1>5. CASE \/ UNCHANGED <<received, usage>>
           \/ \E line \in Events \cup {Malformed} : ReadsOther(line)
  BY <1>1, <1>2, <1>5 DEF ReadsOther
<1> QED BY <1>2, <1>3, <1>4, <1>5, EndClasses DEF vars, output

-----------------------------------------------------------------------------
(* Which deltas reach which block.                                          *)

(* The kinds of blocks, with the deltas meant for them.                     *)
Pair(kind, type) == \/ kind = "thinking" /\ type = "reasoning-delta"
                    \/ kind = "text" /\ type = "text-delta"
                    \/ kind = "toolCall" /\ type = "tool-input-delta"

Builder(b) == IF b.kind = "toolCall" THEN b.json ELSE b.body

(* The block that line o opened, if of that kind, is made of its deltas.    *)
Made(o, kind, type) ==
    content[Rank(o)].kind = kind =>
        InOrder(Builder(content[Rank(o)]), Deltas(o, type), [j \in Deltas(o, type) |-> PieceOf(j)])

MadeInv == \A kind, type : Pair(kind, type) => \A o \in Openers : Made(o, kind, type)

(* DeltasReachTheirBlock says it of every block.                            *)
LEMMA BlocksMade ==
    DeltasReachTheirBlock <=> Len(content) = Cardinality(Openers) /\ MadeInv
<1>1. ASSUME NEW o \in Openers
      PROVE  (LET block == content[Rank(o)]
              IN  /\ block.kind = "thinking" => MadeOf(block.body, Deltas(o, "reasoning-delta"))
                  /\ block.kind = "text" => MadeOf(block.body, Deltas(o, "text-delta"))
                  /\ block.kind = "toolCall" => MadeOf(block.json, Deltas(o, "tool-input-delta")))
             <=> \A kind, type : Pair(kind, type) => Made(o, kind, type)
  BY DEF Pair, Made, MadeOf, Builder
<1> QED BY <1>1 DEF DeltasReachTheirBlock, MadeInv

(* The new line is a delta for the block that line o opened.                *)
MeantFor(line, o, type) ==
    /\ line # Malformed /\ line.type = type /\ Newest(o) /\ line.id = received[o].id
    /\ (IF type = "tool-input-delta" THEN line.delta ELSE line.text) # ""

(* For whom a line is does not change, and the new line is for the newest   *)
(* block of its id.                                                         *)
LEMMA AddresseesStay ==
    ASSUME PiTypeOK, NEW line \in Events \cup {Malformed}, received' = Append(received, line),
           NEW n, n = Len(received), NEW o \in Openers
    PROVE  /\ \A j \in 1..n : IsFor(j, o)' <=> IsFor(j, o)
           /\ IsFor(n + 1, o)' <=> Newest(o) /\ line.id = received[o].id
<1>1. /\ n \in Nat /\ Lines = 1..n /\ Lines' = 1..(n + 1)
      /\ \A j \in 1..n : received'[j] = received[j]
      /\ received'[n + 1] = line
  BY HistoryGrows
<1>2. /\ Openers \subseteq 1..n
      /\ Openers' = Openers \cup {j \in {n + 1} : Opens(j)'}
  BY OpenersGrow
<1>3. ASSUME NEW j \in 1..n PROVE IsFor(j, o)' <=> IsFor(j, o)
  <2>1. {i \in Openers' : i < j /\ received'[i].id = received'[j].id}
        = {i \in Openers : i < j /\ received[i].id = received[j].id}
    <3>1. received'[j] = received[j] /\ \A i \in Openers : received'[i] = received[i]
      BY <1>1, <1>2
    <3>2. ~(n + 1 < j)
      BY <1>1
    <3> QED BY <1>2, <3>1, <3>2
  <2> QED BY <2>1 DEF IsFor
<1>4. IsFor(n + 1, o)' <=> Newest(o) /\ line.id = received[o].id
  <2>1. {i \in Openers' : i < n + 1 /\ received'[i].id = received'[n + 1].id}
        = {i \in Openers : received[i].id = line.id}
    <3>1. \A i \in Openers : received'[i] = received[i] /\ i < n + 1
      BY <1>1, <1>2
    <3>2. ~(n + 1 < n + 1)
      BY <1>1
    <3> QED BY <1>1, <1>2, <3>1, <3>2
  <2>2. IsFor(n + 1, o)' <=> IsLast(o, {i \in Openers : received[i].id = line.id})
    BY <2>1 DEF IsFor
  <2> QED BY <2>2 DEF Newest, IsLast
<1> QED BY <1>3, <1>4

(* The deltas of a block grow by the lines meant for it.                    *)
LEMMA DeltasGrow ==
    ASSUME PiTypeOK, NEW line \in Events \cup {Malformed}, received' = Append(received, line),
           NEW n, n = Len(received), NEW o \in Openers, NEW type
    PROVE  /\ Deltas(o, type) \subseteq 1..n /\ n \in Nat
           /\ \A j \in 1..n : PieceOf(j)' = PieceOf(j)
           /\ MeantFor(line, o, type) =>
                 /\ Deltas(o, type)' = Deltas(o, type) \cup {n + 1}
                 /\ PieceOf(n + 1)' = IF type = "tool-input-delta" THEN line.delta ELSE line.text
           /\ ~MeantFor(line, o, type) => Deltas(o, type)' = Deltas(o, type)
<1>1. /\ n \in Nat /\ Lines = 1..n /\ Lines' = 1..(n + 1)
      /\ \A j \in 1..n : received'[j] = received[j]
      /\ received'[n + 1] = line
  BY HistoryGrows
<1>2. 1..(n + 1) = (1..n) \cup {n + 1}
  BY <1>1
<1>3. \A j \in 1..n : PieceOf(j)' = PieceOf(j)
  BY <1>1 DEF PieceOf
<1>4. \A j \in 1..n : IsFor(j, o)' <=> IsFor(j, o)
  BY AddresseesStay
<1>5. IsFor(n + 1, o)' <=> Newest(o) /\ line.id = received[o].id
  BY AddresseesStay
<1>6. \A j \in 1..n : OfType(j, {type})' <=> OfType(j, {type})
  BY LinesStay
<1>7. OfType(n + 1, {type})' <=> line # Malformed /\ line.type = type
  BY <1>1 DEF OfType, IsEvent
<1>8. line.type = type =>
          PieceOf(n + 1)' = IF type = "tool-input-delta" THEN line.delta ELSE line.text
  BY <1>1 DEF PieceOf
<1>9. Deltas(o, type) = {j \in 1..n : OfType(j, {type}) /\ IsFor(j, o) /\ PieceOf(j) # ""}
  BY <1>1 DEF Deltas
<1>10. Deltas(o, type)' = {j \in (1..n) \cup {n + 1} :
                             OfType(j, {type})' /\ IsFor(j, o)' /\ PieceOf(j)' # ""}
  BY <1>1, <1>2 DEF Deltas
<1>11. (OfType(n + 1, {type})' /\ IsFor(n + 1, o)' /\ PieceOf(n + 1)' # "") <=> MeantFor(line, o, type)
  BY <1>5, <1>7, <1>8 DEF MeantFor
<1>12. /\ MeantFor(line, o, type) => Deltas(o, type)' = Deltas(o, type) \cup {n + 1}
       /\ ~MeantFor(line, o, type) => Deltas(o, type)' = Deltas(o, type)
  BY <1>1, <1>3, <1>4, <1>6, <1>9, <1>10, <1>11
<1> QED BY <1>1, <1>3, <1>8, <1>9, <1>12 DEF MeantFor

(* A block just opened has no deltas.                                       *)
LEMMA NoDeltasYet ==
    ASSUME PiTypeOK, NEW line \in Events \cup {Malformed}, received' = Append(received, line),
           NEW n, n = Len(received), NEW type
    PROVE  Deltas(n + 1, type)' = {}
<1>1. n \in Nat /\ Lines' = 1..(n + 1)
  BY HistoryGrows
<1>2. \A j \in 1..(n + 1) : ~IsFor(j, n + 1)'
  BY <1>1 DEF IsFor, IsLast
<1> QED BY <1>1, <1>2 DEF Deltas

(* What was made stays made while neither the block nor its deltas change.  *)
LEMMA MadeStays ==
    ASSUME NEW o \in Openers, NEW kind, NEW type, Made(o, kind, type),
           content'[Rank(o)'].kind = content[Rank(o)].kind,
           Builder(content'[Rank(o)']) = Builder(content[Rank(o)]),
           Deltas(o, type)' = Deltas(o, type),
           \A j \in Deltas(o, type) : PieceOf(j)' = PieceOf(j)
    PROVE  Made(o, kind, type)'
<1> SUFFICES ASSUME content[Rank(o)].kind = kind
             PROVE  InOrder(Builder(content'[Rank(o)']), Deltas(o, type)', [j \in Deltas(o, type)' |-> PieceOf(j)'])
  BY DEF Made
<1>1. PICK S, b : S = Deltas(o, type) /\ b = Builder(content[Rank(o)])
  OBVIOUS
<1>2. InOrder(b, S, [j \in S |-> PieceOf(j)])
  BY <1>1 DEF Made
<1>3. \A j \in S : [i \in S |-> PieceOf(i)'][j] = [i \in S |-> PieceOf(i)][j]
  BY <1>1
<1>4. InOrder(b, S, [j \in S |-> PieceOf(j)'])
  BY <1>2, <1>3, InOrderKept
<1> QED BY <1>1, <1>4

(* Writing the next delta makes the block of one delta more.                *)
LEMMA MadeGrows ==
    ASSUME NEW o \in Openers, NEW kind, NEW type, Made(o, kind, type),
           content[Rank(o)].kind = kind,
           NEW T, Builder(content[Rank(o)]) \in Seq(T), NEW x \in T,
           Builder(content'[Rank(o)']) = Append(Builder(content[Rank(o)]), x),
           NEW n \in Nat, Deltas(o, type) \subseteq 1..n, PieceOf(n + 1)' = x,
           Deltas(o, type)' = Deltas(o, type) \cup {n + 1},
           \A j \in 1..n : PieceOf(j)' = PieceOf(j)
    PROVE  Made(o, kind, type)'
<1>1. PICK S, b : S = Deltas(o, type) /\ b = Builder(content[Rank(o)])
  OBVIOUS
<1>2. InOrder(b, S, [j \in S |-> PieceOf(j)]) /\ S \subseteq 1..n /\ b \in Seq(T)
  BY <1>1 DEF Made
<1>3. S \in SUBSET Nat /\ n + 1 \in Nat /\ \A j \in S : j < n + 1
  BY <1>2, BelowNext
<1> DEFINE U == S \cup {n + 1}
           old == [j \in S |-> PieceOf(j)]
           new == [j \in U |-> PieceOf(j)']
<1>4. (\A j \in S : new[j] = old[j]) /\ new[n + 1] = x
  BY <1>2
<1>5. InOrder(Append(b, x), U, new)
  <2>1. InOrder(b, S, old)
    BY <1>2
  <2> HIDE DEF old, new
  <2> QED BY <1>2, <1>3, <1>4, <2>1, InOrderAppend
<1>6. Deltas(o, type)' = U /\ Builder(content'[Rank(o)']) = Append(b, x)
  BY <1>1
<1> QED BY <1>5, <1>6 DEF Made

(* The block a delta names is the one that line o opened, if it was the     *)
(* newest of that id.                                                       *)
LEMMA MeantLeads ==
    ASSUME PiTypeOK, OpenInv, IdInv, NEW line, NEW o \in Openers, NEW kind, NEW type,
           Pair(kind, type), content[Rank(o)].kind = kind, MeantFor(line, o, type)
    PROVE  /\ line # Malformed /\ line.type = type
           /\ Leads(line.id, kind) /\ idToIndex[line.id] + 1 = Rank(o)
           /\ kind = "toolCall" => line.id # NoId
<1>1. line # Malformed /\ line.type = type /\ Newest(o) /\ line.id = received[o].id
  BY DEF MeantFor
<1>2. line.id \in DOMAIN idToIndex /\ idToIndex[line.id] + 1 = Rank(o)
  BY <1>1, NewestLeads
<1>3. kind = "toolCall" => line.id # NoId
  BY <1>1 DEF OpenInv, IsTool, NamesTool
<1> QED BY <1>1, <1>2, <1>3 DEF Leads

(* A line that spares the blocks was meant for none of them.                *)
LEMMA SparedMade ==
    ASSUME PiTypeOK, OpenInv, IdInv, NEW line \in Events \cup {Malformed}, SparesBlocks(line),
           NEW kind, NEW type, Pair(kind, type), NEW o \in Openers, Made(o, kind, type)
    PROVE  Made(o, kind, type)'
<1>1. received' = Append(received, line) /\ content' = content
  BY DEF SparesBlocks
<1>2. Rank(o)' = Rank(o)
  BY <1>1, RanksStay
<1>3. PICK n : n = Len(received)
  OBVIOUS
<1>4. CASE content[Rank(o)].kind # kind
  BY <1>1, <1>2, <1>4 DEF Made
<1>5. CASE content[Rank(o)].kind = kind
  <2>1. ~MeantFor(line, o, type)
    <3>1. SUFFICES ASSUME MeantFor(line, o, type) PROVE FALSE
      OBVIOUS
    <3>2. /\ line # Malformed /\ line.type = type
          /\ Leads(line.id, kind)
          /\ kind = "toolCall" => line.id # NoId
      BY <1>5, <3>1, MeantLeads
    <3> QED BY <3>2 DEF SparesBlocks, Pair, DeltaTypes, KindOf
  <2>2. /\ Deltas(o, type)' = Deltas(o, type)
        /\ \A j \in Deltas(o, type) : PieceOf(j)' = PieceOf(j)
    BY <1>1, <1>3, <2>1, DeltasGrow
  <2>3. content'[Rank(o)'] = content[Rank(o)]
    BY <1>1, <1>2
  <2> QED BY <2>2, <2>3, MadeStays
<1> QED BY <1>4, <1>5

(* Opening a block leaves the others as they were, and a new block is empty.*)
LEMMA OpenedMade ==
    ASSUME PiTypeOK, OpenInv, IdInv, NEW e \in Events, NEW b \in ContentBlock, OpensBlock(e, b),
           NEW kind, NEW type, Pair(kind, type), \A o \in Openers : Made(o, kind, type),
           NEW p \in Openers'
    PROVE  Made(p, kind, type)'
<1>1. PICK n, m : n = Len(received) /\ m = Len(content)
  OBVIOUS
<1>2. received' = Append(received, e)
  BY DEF OpensBlock
<1>3. /\ \A k \in 1..m : content'[k] = content[k]
      /\ content'[m + 1] = b
  BY <1>1, OpeningContent
<1>4. Openers' = Openers \cup {n + 1} /\ Rank(n + 1)' = m + 1
  BY <1>1, OpeningStep
<1>5. CASE p = n + 1
  <2>1. content'[Rank(p)'] = b
    BY <1>3, <1>4, <1>5
  <2>2. Builder(b) = <<>>
    BY DEF OpensBlock, Builder
  <2>3. PICK S : S = Deltas(p, type)'
    OBVIOUS
  <2>4. S = {}
    BY <1>1, <1>2, <1>5, <2>3, NoDeltasYet
  <2>5. InOrder(<<>>, S, [j \in S |-> PieceOf(j)'])
    BY <2>4, InOrderEmpty
  <2> QED BY <2>1, <2>2, <2>3, <2>5 DEF Made
<1>6. CASE p \in Openers
  <2>1. Rank(p)' = Rank(p) /\ Rank(p) \in 1..m
    BY <1>1, <1>2, <1>6, RanksStay DEF OpenInv
  <2>2. content'[Rank(p)'] = content[Rank(p)]
    BY <1>3, <2>1
  <2>3. ~MeantFor(e, p, type)
    BY EventFields DEF OpensBlock, MeantFor, Pair, StartTypes, ToolEndTypes
  <2>4. /\ Deltas(p, type)' = Deltas(p, type)
        /\ \A j \in Deltas(p, type) : PieceOf(j)' = PieceOf(j)
    BY <1>1, <1>2, <1>6, <2>3, DeltasGrow
  <2> QED BY <1>6, <2>2, <2>4, MadeStays
<1> QED BY <1>4, <1>5, <1>6

(* A delta is written to the block it was meant for, and to no other.       *)
LEMMA ChangedMade ==
    ASSUME PiTypeOK, OpenInv, IdInv, NEW e \in Events, NEW b \in ContentBlock, ChangesBlock(e, b),
           NEW kind, NEW type, Pair(kind, type), NEW o \in Openers, Made(o, kind, type)
    PROVE  Made(o, kind, type)'
<1>1. PICK n, at : n = Len(received) /\ at = idToIndex[e.id] + 1
  OBVIOUS
<1>2. received' = Append(received, e) /\ e # Malformed /\ e.id \in DOMAIN idToIndex
  BY EventFields DEF ChangesBlock
<1>3. /\ at \in 1..Len(content) /\ content[at] \in ContentBlock
      /\ \A k \in 1..Len(content) : k # at => content'[k] = content[k]
      /\ content'[at] = b /\ b.kind = content[at].kind
  BY <1>1, ChangingContent
<1>4. Rank(o)' = Rank(o) /\ Rank(o) \in 1..Len(content)
  BY <1>2, RanksStay DEF OpenInv
<1>5. content'[Rank(o)'].kind = content[Rank(o)].kind
  BY <1>3, <1>4
<1>6. CASE content[Rank(o)].kind # kind
  BY <1>5, <1>6 DEF Made
<1>7. ASSUME content[Rank(o)].kind = kind, ~MeantFor(e, o, type),
             Builder(content'[Rank(o)']) = Builder(content[Rank(o)])
      PROVE  Made(o, kind, type)'
  <2>1. /\ Deltas(o, type)' = Deltas(o, type)
        /\ \A j \in Deltas(o, type) : PieceOf(j)' = PieceOf(j)
    BY <1>1, <1>2, <1>7, DeltasGrow
  <2> QED BY <1>5, <1>7, <2>1, MadeStays
<1>8. CASE content[Rank(o)].kind = kind /\ Rank(o) # at
  <2>1. ~MeantFor(e, o, type)
    BY <1>1, <1>8, MeantLeads
  <2> QED BY <1>3, <1>4, <1>7, <1>8, <2>1
<1>9. CASE content[Rank(o)].kind = kind /\ Rank(o) = at
  <2>1. Newest(o) /\ e.id = received[o].id
    <3>1. PICK p \in Openers : Newest(p) /\ received[p].id = e.id /\ Rank(p) = at
      BY <1>1, <1>2 DEF IdInv
    <3> QED BY <1>9, <3>1 DEF OpenInv
  <2>2. content'[Rank(o)'] = b /\ content[Rank(o)] = content[at] /\ b.kind = kind
    BY <1>3, <1>4, <1>9
  <2> DEFINE piece == IF type = "tool-input-delta" THEN e.delta ELSE e.text
  <2>3. CASE e.type \in ToolEndTypes
    <3>1. b.json = content[at].json /\ kind = "toolCall" /\ e.type # type
      BY <1>1, <2>2, <2>3 DEF ChangesBlock, DeltaTypes, ToolEndTypes, Pair
    <3> QED BY <1>7, <1>9, <2>2, <3>1 DEF Builder, MeantFor
  <2>4. CASE e.type \notin ToolEndTypes
    <3>1. e.type = type /\ Builder(b) = Write(Builder(content[at]), piece)
      BY <1>1, <1>3, <2>2, <2>4 DEF ChangesBlock, DeltaTypes, KindOf, Pair, Builder
    <3>2. CASE piece = ""
      BY <1>7, <1>9, <2>2, <3>1, <3>2 DEF Write, MeantFor
    <3>3. CASE piece # ""
      <4>1. MeantFor(e, o, type)
        BY <1>2, <2>1, <3>1, <3>3 DEF MeantFor
      <4>2. /\ Deltas(o, type) \subseteq 1..n /\ n \in Nat
            /\ \A j \in 1..n : PieceOf(j)' = PieceOf(j)
            /\ Deltas(o, type)' = Deltas(o, type) \cup {n + 1} /\ PieceOf(n + 1)' = piece
        BY <1>1, <1>2, <4>1, DeltasGrow
      <4>3. Builder(content'[Rank(o)']) = Append(Builder(content[Rank(o)]), piece)
        BY <2>2, <3>1, <3>3 DEF Write
      <4>4. PICK T : Builder(content[Rank(o)]) \in Seq(T) /\ piece \in T
        <5>1. CASE kind = "toolCall"
          <6>1. type = "tool-input-delta" /\ piece = e.delta
            BY <5>1 DEF Pair
          <6>2. piece \in Pieces /\ content[at].json \in Seq(Pieces)
            BY <1>3, <2>2, <3>1, <3>3, <5>1, <6>1, EventFields, BlockFields
          <6>3. Builder(content[Rank(o)]) = content[at].json
            BY <1>9, <5>1 DEF Builder
          <6> QED BY <6>2, <6>3
        <5>2. CASE kind # "toolCall"
          <6>1. type \in DeltaTypes /\ piece = e.text
            BY <5>2 DEF Pair, DeltaTypes
          <6>2. piece \in Texts /\ content[at].body \in Seq(Texts)
            BY <1>3, <2>2, <3>1, <3>3, <5>2, <6>1, EventFields, BlockFields
          <6>3. Builder(content[Rank(o)]) = content[at].body
            BY <1>9, <5>2 DEF Builder
          <6> QED BY <6>2, <6>3
        <5> QED BY <5>1, <5>2
      <4>5. PICK x \in T : x = piece
        BY <4>4
      <4> HIDE DEF piece
      <4> QED BY <1>9, <4>2, <4>3, <4>4, <4>5, MadeGrows
    <3> QED BY <3>2, <3>3
  <2> QED BY <2>3, <2>4
<1> QED BY <1>6, <1>8, <1>9

(* Every step keeps every block made of its deltas.                         *)
LEMMA MadeStep ==
    ASSUME PiTypeOK, OpenInv, IdInv, [Next]_vars,
           NEW kind, NEW type, Pair(kind, type), \A o \in Openers : Made(o, kind, type)
    PROVE  \A o \in Openers' : Made(o, kind, type)'
<1>0. PICK n : n = Len(received)
  OBVIOUS
<1>1. CASE UNCHANGED <<content, idToIndex, received>>
  <2>1. UNCHANGED <<Openers, Lines>>
    BY <1>1 DEF Openers, Lines, Opens, NamesTool, OfType, IsEvent
  <2>2. ASSUME NEW o \in Openers
        PROVE  Rank(o)' = Rank(o) /\ Deltas(o, type)' = Deltas(o, type)
    <3>1. {i \in Openers' : i <= o} = {i \in Openers : i <= o}
      BY <2>1
    <3>2. Rank(o)' = Rank(o)
      BY <3>1 DEF Rank
    <3>3. \A j : IsFor(j, o)' <=> IsFor(j, o)
      BY <1>1, <2>1 DEF IsFor
    <3>4. \A j : (OfType(j, {type})' <=> OfType(j, {type})) /\ PieceOf(j)' = PieceOf(j)
      BY <1>1 DEF OfType, IsEvent, PieceOf
    <3>5. Deltas(o, type)' = {j \in Lines : OfType(j, {type})' /\ IsFor(j, o)' /\ PieceOf(j)' # ""}
      BY <2>1 DEF Deltas
    <3> QED BY <3>2, <3>3, <3>4, <3>5 DEF Deltas
  <2>3. \A j : PieceOf(j)' = PieceOf(j)
    BY <1>1 DEF PieceOf
  <2>4. ASSUME NEW o \in Openers PROVE Made(o, kind, type)'
    <3>1. content'[Rank(o)'] = content[Rank(o)]
      BY <1>1, <2>2
    <3> QED BY <2>2, <2>3, <3>1, MadeStays
  <2> QED BY <2>1, <2>4
<1>2. ASSUME NEW line \in Events \cup {Malformed}, SparesBlocks(line)
      PROVE  \A o \in Openers' : Made(o, kind, type)'
  <2>1. Openers' = Openers
    <3>1. ~Opens(n + 1)'
      BY <1>0, <1>2, OpensNow DEF SparesBlocks
    <3>2. received' = Append(received, line)
      BY <1>2 DEF SparesBlocks
    <3> QED BY <1>0, <3>1, <3>2, OpenersGrow
  <2> QED BY <1>2, <2>1, SparedMade
<1>3. ASSUME NEW e \in Events, NEW b \in ContentBlock, OpensBlock(e, b)
      PROVE  \A o \in Openers' : Made(o, kind, type)'
  BY <1>3, OpenedMade
<1>4. ASSUME NEW e \in Events, NEW b \in ContentBlock, ChangesBlock(e, b)
      PROVE  \A o \in Openers' : Made(o, kind, type)'
  <2>1. Openers' = Openers
    <3>1. ~Opens(n + 1)'
      BY <1>0, <1>4, OpensNow DEF ChangesBlock, StartTypes, DeltaTypes, ToolEndTypes
    <3> QED BY <1>0, <1>4, <3>1, OpenersGrow DEF ChangesBlock
  <2> QED BY <1>4, <2>1, ChangedMade
<1> QED BY <1>1, <1>2, <1>3, <1>4, StepClasses

-----------------------------------------------------------------------------
(* Where the arguments of a tool call come from.                            *)

(* What ArgumentsAreTheCallsOwn says of the call that line o opened.        *)
SentWhole(o, a) ==
    \E j \in Lines : /\ OfType(j, ToolEndTypes) /\ (j = o \/ IsFor(j, o))
                     /\ IsComplete(received[j]) /\ a = CompleteInput(received[j])
UpTo(o, last) == {j \in Deltas(o, "tool-input-delta") : j <= last}
Streamed(o, a) ==
    \E d \in Documents, last \in Lines :
        a = d.value /\ InOrder(d.text, UpTo(o, last), [j \in UpTo(o, last) |-> PieceOf(j)])
Own(o, a) == a = EmptyObject \/ SentWhole(o, a) \/ Streamed(o, a)

OwnsItsArguments(o) == \A a : IsTool(Rank(o)) /\ content[Rank(o)].arguments = a => Own(o, a)

OwnInv == \A o \in Openers : OwnsItsArguments(o)

(* ArgumentsAreTheCallsOwn says it of every call.                           *)
LEMMA ArgumentsOwned == ArgumentsAreTheCallsOwn <=> OwnInv
BY DEF ArgumentsAreTheCallsOwn, OwnInv, OwnsItsArguments, Own, SentWhole, Streamed, UpTo, MadeOf

(* What belonged to a call goes on belonging to it.                         *)
LEMMA OwnStays ==
    ASSUME PiTypeOK, NEW line \in Events \cup {Malformed}, received' = Append(received, line),
           NEW o \in Openers, NEW a, Own(o, a)
    PROVE  Own(o, a)'
<1>0. PICK n : n = Len(received)
  OBVIOUS
<1>1. /\ n \in Nat /\ Lines = 1..n /\ \A j \in 1..n : j \in Lines'
      /\ \A j \in 1..n : received'[j] = received[j]
  BY <1>0, HistoryGrows
<1>2. ASSUME SentWhole(o, a) PROVE SentWhole(o, a)'
  <2>1. PICK j \in Lines : /\ OfType(j, ToolEndTypes) /\ (j = o \/ IsFor(j, o))
                           /\ IsComplete(received[j]) /\ a = CompleteInput(received[j])
    BY <1>2 DEF SentWhole
  <2>2. /\ j \in Lines' /\ received'[j] = received[j]
        /\ OfType(j, ToolEndTypes)' /\ (j = o \/ IsFor(j, o)')
    BY <1>0, <1>1, <2>1, LinesStay, AddresseesStay
  <2> QED BY <2>1, <2>2 DEF SentWhole
<1>3. ASSUME Streamed(o, a) PROVE Streamed(o, a)'
  <2>1. PICK d \in Documents, last \in Lines :
            /\ a = d.value
            /\ InOrder(d.text, UpTo(o, last), [j \in UpTo(o, last) |-> PieceOf(j)])
    BY <1>3 DEF Streamed
  <2>2. PICK S : S = UpTo(o, last)
    OBVIOUS
  <2>3. /\ Deltas(o, "tool-input-delta") \subseteq 1..n
        /\ \A j \in 1..n : PieceOf(j)' = PieceOf(j)
        /\ \/ Deltas(o, "tool-input-delta")' = Deltas(o, "tool-input-delta")
           \/ Deltas(o, "tool-input-delta")' = Deltas(o, "tool-input-delta") \cup {n + 1}
    BY <1>0, DeltasGrow
  <2>4. ~(n + 1 <= last)
    BY <1>1
  <2>5. S = UpTo(o, last)' /\ S \subseteq 1..n
    BY <2>2, <2>3, <2>4 DEF UpTo
  <2>6. InOrder(d.text, S, [j \in S |-> PieceOf(j)])
    BY <2>1, <2>2
  <2>7. \A j \in S : [i \in S |-> PieceOf(i)'][j] = [i \in S |-> PieceOf(i)][j]
    BY <2>3, <2>5
  <2>8. InOrder(d.text, S, [j \in S |-> PieceOf(j)'])
    BY <2>6, <2>7, InOrderKept
  <2> QED BY <1>1, <2>1, <2>5, <2>8 DEF Streamed
<1> QED BY <1>2, <1>3 DEF Own

(* The arguments a change gives a tool call: those it had, those its event  *)
(* carries, or what was streamed to it.                                     *)
LEMMA ArgumentsGiven ==
    ASSUME NEW e \in Events, NEW b \in ContentBlock, ChangesBlock(e, b), b.kind = "toolCall",
           NEW old, old = content[idToIndex[e.id] + 1]
    PROVE  \/ b.arguments = old.arguments
           \/ e.type \in ToolEndTypes /\ IsComplete(e) /\ b.arguments = CompleteInput(e)
           \/ \E d \in Documents : d.text = b.json /\ b.arguments = d.value
<1>1. ASSUME NEW json, NEW v
      PROVE  ParsedOr(json, v) = v \/ \E d \in Documents : d.text = json /\ ParsedOr(json, v) = d.value
  <2>1. CASE \E d \in Documents : d.text = json
    <3>1. PICK d \in Documents : d.text = json /\ d = CHOOSE c \in Documents : c.text = json
      BY <2>1
    <3> QED BY <2>1, <3>1 DEF ParsedOr
  <2>2. CASE ~\E d \in Documents : d.text = json
    BY <2>2 DEF ParsedOr
  <2> QED BY <2>1, <2>2
<1>2. \/ b.arguments = ParsedOr(b.json, old.arguments)
      \/ e.type \in ToolEndTypes /\ b.json = old.json /\ b.arguments = Arguments(e, old)
  BY DEF ChangesBlock, KindOf
<1>3. CASE b.arguments = ParsedOr(b.json, old.arguments)
  BY <1>1, <1>3
<1>4. CASE e.type \in ToolEndTypes /\ b.json = old.json /\ b.arguments = Arguments(e, old)
  <2>1. \/ IsComplete(e) /\ b.arguments = CompleteInput(e)
        \/ b.arguments = ParsedOr(b.json, old.arguments)
        \/ b.arguments = old.arguments
    BY <1>4 DEF Arguments
  <2> QED BY <1>1, <1>4, <2>1
<1> QED BY <1>2, <1>3, <1>4

(* A tool call whose arguments are not touched owns them as before.         *)
LEMMA UntouchedOwned ==
    ASSUME PiTypeOK, NEW line \in Events \cup {Malformed}, received' = Append(received, line),
           NEW o \in Openers, OwnsItsArguments(o),
           content[Rank(o)].kind = content'[Rank(o)].kind,
           content[Rank(o)].kind = "toolCall" => content'[Rank(o)].arguments = content[Rank(o)].arguments
    PROVE  OwnsItsArguments(o)'
<1>1. SUFFICES ASSUME NEW a, content'[Rank(o)'].kind = "toolCall", content'[Rank(o)'].arguments = a
               PROVE  Own(o, a)'
  BY DEF OwnsItsArguments, IsTool
<1>2. Rank(o)' = Rank(o)
  BY RanksStay
<1>3. Own(o, a)
  BY <1>1, <1>2 DEF OwnsItsArguments, IsTool
<1> QED BY <1>3, OwnStays

(* A tool call just opened has no arguments but those of its own event.     *)
LEMMA OpenedOwned ==
    ASSUME PiTypeOK, OpenInv, IdInv, NEW e \in Events, NEW b \in ContentBlock, OpensBlock(e, b),
           \A o \in Openers : OwnsItsArguments(o), NEW p \in Openers'
    PROVE  OwnsItsArguments(p)'
<1>0. PICK n, m : n = Len(received) /\ m = Len(content)
  OBVIOUS
<1>1. received' = Append(received, e)
  BY DEF OpensBlock
<1>2. /\ \A k \in 1..m : content'[k] = content[k]
      /\ content'[m + 1] = b
  BY <1>0, OpeningContent
<1>3. Openers' = Openers \cup {n + 1} /\ Rank(n + 1)' = m + 1
  BY <1>0, OpeningStep
<1>4. CASE p \in Openers
  <2>1. Rank(p) \in 1..m
    BY <1>0, <1>4 DEF OpenInv
  <2>2. content'[Rank(p)] = content[Rank(p)]
    BY <1>2, <2>1
  <2> QED BY <1>1, <1>4, <2>2, UntouchedOwned
<1>5. CASE p = n + 1
  <2>1. SUFFICES ASSUME NEW a, b.kind = "toolCall", b.arguments = a PROVE Own(p, a)'
    BY <1>2, <1>3, <1>5 DEF OwnsItsArguments, IsTool
  <2>2. /\ e # Malformed /\ p \in Lines' /\ received'[p] = e
    <3>1. n \in Nat /\ Lines' = 1..(n + 1) /\ received'[n + 1] = e
      BY <1>0, <1>1, HistoryGrows
    <3>2. e # Malformed
      BY EventFields
    <3> QED BY <1>5, <3>1, <3>2
  <2>3. \/ e.type = "tool-input-start" /\ b.arguments = EmptyObject
        \/ e.type \in ToolEndTypes /\ b.arguments = Arguments(e, ToolBlock(e.id))
    BY <2>1 DEF OpensBlock
  <2>4. CASE a = EmptyObject
    BY <2>4 DEF Own
  <2>5. CASE e.type \in ToolEndTypes /\ IsComplete(e) /\ a = CompleteInput(e)
    <3>1. OfType(p, ToolEndTypes)'
      BY <2>2, <2>5 DEF OfType, IsEvent
    <3>2. SentWhole(p, a)'
      BY <2>2, <2>5, <3>1 DEF SentWhole
    <3> QED BY <3>2 DEF Own
  <2>6. ToolBlock(e.id).json = <<>> /\ ToolBlock(e.id).arguments = EmptyObject
    BY DEF ToolBlock
  <2>7. Arguments(e, ToolBlock(e.id)) = IF IsComplete(e) THEN CompleteInput(e) ELSE EmptyObject
    BY <2>6 DEF Arguments
  <2> QED BY <2>1, <2>3, <2>4, <2>5, <2>7
<1> QED BY <1>3, <1>4, <1>5

(* A change gives a tool call arguments of its own.                         *)
LEMMA ChangedOwned ==
    ASSUME PiTypeOK, OpenInv, IdInv, NEW e \in Events, NEW b \in ContentBlock, ChangesBlock(e, b),
           NEW o \in Openers, OwnsItsArguments(o), Made(o, "toolCall", "tool-input-delta")'
    PROVE  OwnsItsArguments(o)'
<1>0. PICK n, at : n = Len(received) /\ at = idToIndex[e.id] + 1
  OBVIOUS
<1>1. received' = Append(received, e) /\ e # Malformed /\ e.id \in DOMAIN idToIndex
  BY EventFields DEF ChangesBlock
<1>2. /\ at \in 1..Len(content) /\ content[at] \in ContentBlock
      /\ \A k \in 1..Len(content) : k # at => content'[k] = content[k]
      /\ content'[at] = b /\ b.kind = content[at].kind
  BY <1>0, ChangingContent
<1>3. Rank(o)' = Rank(o) /\ Rank(o) \in 1..Len(content)
  BY <1>1, RanksStay DEF OpenInv
<1>4. CASE Rank(o) # at
  <2>1. content'[Rank(o)] = content[Rank(o)]
    BY <1>2, <1>3, <1>4
  <2> QED BY <1>1, <2>1, UntouchedOwned
<1>5. CASE Rank(o) = at
  <2>1. SUFFICES ASSUME NEW a, b.kind = "toolCall", b.arguments = a PROVE Own(o, a)'
    BY <1>2, <1>3, <1>5 DEF OwnsItsArguments, IsTool
  <2>2. Newest(o) /\ e.id = received[o].id
    <3>1. PICK p \in Openers : Newest(p) /\ received[p].id = e.id /\ Rank(p) = at
      BY <1>0, <1>1 DEF IdInv
    <3> QED BY <1>5, <3>1 DEF OpenInv
  <2>3. /\ n \in Nat /\ n + 1 \in Lines' /\ Lines' = 1..(n + 1) /\ received'[n + 1] = e
    BY <1>0, <1>1, HistoryGrows
  <2>4. CASE b.arguments = content[at].arguments
    <3>1. Own(o, a)
      BY <1>2, <1>5, <2>1, <2>4 DEF OwnsItsArguments, IsTool
    <3> QED BY <1>1, <3>1, OwnStays
  <2>5. CASE e.type \in ToolEndTypes /\ IsComplete(e) /\ b.arguments = CompleteInput(e)
    <3>1. IsFor(n + 1, o)'
      BY <1>0, <1>1, <2>2, AddresseesStay
    <3>2. OfType(n + 1, ToolEndTypes)'
      BY <1>1, <2>3, <2>5 DEF OfType, IsEvent
    <3>3. SentWhole(o, a)'
      BY <2>1, <2>3, <2>5, <3>1, <3>2 DEF SentWhole
    <3> QED BY <3>3 DEF Own
  <2>6. CASE \E d \in Documents : d.text = b.json /\ b.arguments = d.value
    <3>1. PICK d \in Documents : d.text = b.json /\ a = d.value
      BY <2>1, <2>6
    <3>2. PICK S : S = Deltas(o, "tool-input-delta")'
      OBVIOUS
    <3>3. InOrder(d.text, S, [j \in S |-> PieceOf(j)'])
      BY <1>2, <1>3, <1>5, <2>1, <3>1, <3>2 DEF Made, Builder
    <3>4. UpTo(o, n + 1)' = S
      <4>1. S \subseteq 1..(n + 1)
        BY <2>3, <3>2 DEF Deltas
      <4>2. \A j \in S : j <= n + 1
        BY <2>3, <4>1
      <4> QED BY <3>2, <4>2 DEF UpTo
    <3>5. Streamed(o, a)'
      BY <2>3, <3>1, <3>3, <3>4 DEF Streamed
    <3> QED BY <3>5 DEF Own
  <2> QED BY <1>0, <2>1, <2>4, <2>5, <2>6, ArgumentsGiven
<1> QED BY <1>4, <1>5

(* Where nothing is read and no block changes, all stays.                   *)
LEMMA QuietOwned ==
    ASSUME UNCHANGED <<content, idToIndex, received>>, NEW o, OwnsItsArguments(o)
    PROVE  OwnsItsArguments(o)'
<1>1. UNCHANGED <<Openers, Lines>>
  BY DEF Openers, Lines, Opens, NamesTool, OfType, IsEvent
<1>2. Rank(o)' = Rank(o)
  <2>1. {i \in Openers' : i <= o} = {i \in Openers : i <= o}
    BY <1>1
  <2> QED BY <2>1 DEF Rank
<1>3. \A j : IsFor(j, o)' <=> IsFor(j, o)
  BY <1>1 DEF IsFor
<1>4. /\ \A j, types : OfType(j, types)' <=> OfType(j, types)
      /\ \A j : PieceOf(j)' = PieceOf(j)
  BY DEF OfType, IsEvent, PieceOf
<1>5. Deltas(o, "tool-input-delta")' = Deltas(o, "tool-input-delta")
  <2>1. Deltas(o, "tool-input-delta")' =
          {j \in Lines : OfType(j, {"tool-input-delta"})' /\ IsFor(j, o)' /\ PieceOf(j)' # ""}
    BY <1>1 DEF Deltas
  <2> QED BY <1>3, <1>4, <2>1 DEF Deltas
<1>6. \A last : UpTo(o, last)' = UpTo(o, last)
  BY <1>5 DEF UpTo
<1>7. SUFFICES ASSUME NEW a, content'[Rank(o)'].kind = "toolCall", content'[Rank(o)'].arguments = a
               PROVE  Own(o, a)'
  BY DEF OwnsItsArguments, IsTool
<1>8. Own(o, a)
  BY <1>2, <1>7 DEF OwnsItsArguments, IsTool
<1>9. SentWhole(o, a) => SentWhole(o, a)'
  BY <1>1, <1>3, <1>4 DEF SentWhole
<1>10. ASSUME Streamed(o, a) PROVE Streamed(o, a)'
  <2>1. PICK d \in Documents, last \in Lines :
            a = d.value /\ InOrder(d.text, UpTo(o, last), [j \in UpTo(o, last) |-> PieceOf(j)])
    BY <1>10 DEF Streamed
  <2>2. [j \in UpTo(o, last) |-> PieceOf(j)] = [j \in UpTo(o, last)' |-> PieceOf(j)']
    BY <1>4, <1>6
  <2> QED BY <1>1, <1>6, <2>1, <2>2 DEF Streamed
<1> QED BY <1>8, <1>9, <1>10 DEF Own

(* Every step leaves every tool call with arguments of its own.             *)
LEMMA OwnStep ==
    ASSUME PiTypeOK, OpenInv, IdInv, [Next]_vars, \A o \in Openers : OwnsItsArguments(o),
           \A o \in Openers' : Made(o, "toolCall", "tool-input-delta")'
    PROVE  \A o \in Openers' : OwnsItsArguments(o)'
<1>0. PICK n : n = Len(received)
  OBVIOUS
<1>1. CASE UNCHANGED <<content, idToIndex, received>>
  <2>1. UNCHANGED Openers
    BY <1>1 DEF Openers, Lines, Opens, NamesTool, OfType, IsEvent
  <2> QED BY <1>1, <2>1, QuietOwned
<1>2. ASSUME NEW line \in Events \cup {Malformed}, SparesBlocks(line)
      PROVE  \A o \in Openers' : OwnsItsArguments(o)'
  <2>1. received' = Append(received, line) /\ content' = content /\ ~Opens(n + 1)'
    BY <1>0, <1>2, OpensNow DEF SparesBlocks
  <2>2. Openers' = Openers
    BY <1>0, <2>1, OpenersGrow
  <2> QED BY <2>1, <2>2, UntouchedOwned
<1>3. ASSUME NEW e \in Events, NEW b \in ContentBlock, OpensBlock(e, b)
      PROVE  \A o \in Openers' : OwnsItsArguments(o)'
  BY <1>3, OpenedOwned
<1>4. ASSUME NEW e \in Events, NEW b \in ContentBlock, ChangesBlock(e, b)
      PROVE  \A o \in Openers' : OwnsItsArguments(o)'
  <2>1. Openers' = Openers
    <3>1. ~Opens(n + 1)'
      BY <1>0, <1>4, OpensNow DEF ChangesBlock, StartTypes, DeltaTypes, ToolEndTypes
    <3> QED BY <1>0, <1>4, <3>1, OpenersGrow DEF ChangesBlock
  <2> QED BY <1>4, <2>1, ChangedOwned
<1> QED BY <1>1, <1>2, <1>3, <1>4, StepClasses

-----------------------------------------------------------------------------
(* The theorems.                                                            *)

(* The inductive invariant: types, the stream pushed, which line opened     *)
(* which block, which block an id leads to, and how the message may end.    *)
PiInv ==
    /\ PiTypeOK /\ PushInv
    /\ OpenInv /\ IdInv
    /\ EndInv /\ ReasonInv

(* It holds when streamCommandCode is called.                               *)
LEMMA PiInvInit == Init => PiInv
<1> SUFFICES ASSUME Init PROVE PiInv
  OBVIOUS
<1>1. /\ phase = "called" /\ aborted \in BOOLEAN
      /\ content = <<>> /\ idToIndex = [i \in {} |-> 0]
      /\ sawTerminalEvent = FALSE /\ stopReason = "stop" /\ usage = ZeroUsage
      /\ pushed = <<>> /\ received = <<>>
  BY DEF Init
<1>2. /\ Lines = {} /\ Openers = {} /\ NamedLines = {} /\ Terminals = {}
      /\ Len(content) = 0 /\ Len(pushed) = 0
      /\ DOMAIN pushed = {} /\ DOMAIN idToIndex = {}
  BY <1>1 DEF Lines, Openers, NamedLines, Terminals
<1>3. PiTypeOK
  <2>1. usage \in Usage
    BY <1>1 DEF ZeroUsage, Usage
  <2>2. <<>> \in Seq(ContentBlock) /\ <<>> \in Seq(Step) /\ <<>> \in Seq(Events \cup {Malformed})
    BY EmptySeq
  <2>3. content \in Seq(ContentBlock) /\ pushed \in Seq(Step) /\ received \in Seq(Events \cup {Malformed})
    BY <1>1, <2>2
  <2> QED BY <1>1, <1>2, <2>1, <2>3 DEF PiTypeOK
<1>4. PushInv
  BY <1>1, <1>2 DEF PushInv, BlockInv, Protocol!At
<1>5. OpenInv
  <2>1. IsFiniteSet({}) /\ Cardinality({}) = 0
    BY FS_EmptySet
  <2> QED BY <1>2, <2>1 DEF OpenInv
<1>6. IdInv
  BY <1>2 DEF IdInv
<1>7. EndInv
  BY <1>1, <1>2 DEF EndInv, OpenReason, StopReasons, DoneIsEarned, Done
<1>8. ReasonInv
  BY <1>1, <1>2 DEF ReasonInv, StopReasonIsTheLastOne
<1> QED BY <1>3, <1>4, <1>5, <1>6, <1>7, <1>8 DEF PiInv

(* Every step keeps it.                                                     *)
LEMMA PiInvStep == PiInv /\ [Next]_vars => PiInv'
<1> SUFFICES ASSUME PiInv, [Next]_vars PROVE PiInv'
  OBVIOUS
<1>1. PiTypeOK /\ PushInv /\ OpenInv /\ IdInv /\ EndInv /\ ReasonInv /\ OpenReason
  BY DEF PiInv, EndInv
<1>2. PiTypeOK' /\ PushInv'
  BY <1>1, PiTypeStep, StreamStep DEF Streams
<1>3. OpenInv' /\ IdInv'
  BY <1>1, OpenStep
<1>4. EndInv'
  BY <1>1, <1>2, EndStep
<1>5. ReasonInv'
  BY <1>1, <1>2, ReasonStep
<1> QED BY <1>2, <1>3, <1>4, <1>5 DEF PiInv

(* So it always holds.                                                      *)
THEOREM PiInvariant == Spec => []PiInv
BY PiInvInit, PiInvStep, PTL DEF Spec

(* Types; an id always leads to a block that exists, and a toolCall block   *)
(* it leads to carries that id (idToIndex in index.ts).                     *)
THEOREM PiTypeCorrect == Spec => []PiTypeOK
BY PiInvariant, PTL DEF PiInv

(* A message is done only after a terminal event, with no line malformed    *)
(* and none an error, whatever the gateway sends.                           *)
THEOREM DoneIsAlwaysEarned == Spec => []DoneIsEarned
BY PiInvariant, PTL DEF PiInv, EndInv

(* The last terminal event decides why a message stopped.                   *)
THEOREM LastReasonCounts == Spec => []StopReasonIsTheLastOne
BY PiInvariant, PTL DEF PiInv, ReasonInv

(* The usage shown is the last one reported, cached tokens counted once.    *)
THEOREM UsageIsCountedOnce == Spec => []UsageCountedOnce
<1>1. Init => UsageCountedOnce
  BY DEF Init, UsageCountedOnce, Reports, Terminals, Lines
<1> QED BY <1>1, UsageStep, PiTypeCorrect, PTL DEF Spec

(* Every block is made of the deltas meant for it and of no other, in the   *)
(* order in which they came.                                                *)
THEOREM BlocksAreTheirDeltas == Spec => []DeltasReachTheirBlock
<1>1. Init => MadeInv
  BY DEF Init, MadeInv, Openers, Lines
<1>2. PiInv /\ MadeInv /\ [Next]_vars => MadeInv'
  BY MadeStep DEF PiInv, MadeInv
<1>3. PiInv /\ MadeInv => DeltasReachTheirBlock
  BY BlocksMade DEF PiInv, OpenInv
<1> QED BY <1>1, <1>2, <1>3, PiInvariant, PTL DEF Spec

(* The arguments of a tool call are its own: {}, those an event sent for it *)
(* whole, or what was streamed to it.                                       *)
THEOREM ArgumentsAreAlwaysTheCallsOwn == Spec => []ArgumentsAreTheCallsOwn
<1>1. Init => OwnInv
  BY DEF Init, OwnInv, Openers, Lines
<1>2. Init => MadeInv
  BY DEF Init, MadeInv, Openers, Lines
<1>3. PiInv /\ MadeInv /\ [Next]_vars => MadeInv'
  BY MadeStep DEF PiInv, MadeInv
<1>4. PiInv /\ MadeInv' /\ OwnInv /\ [Next]_vars => OwnInv'
  <2> SUFFICES ASSUME PiInv, MadeInv', OwnInv, [Next]_vars PROVE OwnInv'
    OBVIOUS
  <2>1. \A o \in Openers' : Made(o, "toolCall", "tool-input-delta")'
    BY DEF MadeInv, Pair
  <2> QED BY <2>1, OwnStep DEF PiInv, OwnInv
<1>5. OwnInv => ArgumentsAreTheCallsOwn
  BY ArgumentsOwned
<1> QED BY <1>1, <1>2, <1>3, <1>4, <1>5, PiInvariant, PTL DEF Spec

(* What is pushed to Pi keeps to the protocol of AssistantStream.           *)
THEOREM ProtocolIsKept == Spec => KeepsProtocol
<1>1. Init => Protocol!StreamInit
  BY DEF Init, Protocol!StreamInit
<1>2. PiInv /\ [Next]_vars => [Protocol!StreamNext]_pushed
  BY StreamStep DEF PiInv, EndInv, Streams
<1> QED BY <1>1, <1>2, PiInvariant, PTL DEF Spec, KeepsProtocol, Protocol!StreamSpec
=============================================================================
