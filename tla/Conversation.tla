---------------------------- MODULE Conversation ----------------------------
(***************************************************************************)
(* The two roads by which a conversation reaches the gateway: through the  *)
(* Proxy (Convert) and through the Pi Adapter (PiConvert).  Each is run on *)
(* whatever it may be given, and both side by side on one conversation     *)
(* that either could carry, for protocol/README.md is the contract of both.*)
(***************************************************************************)
EXTENDS Convert, PiConvert

CONSTANT Turns   \* of a conversation that both can carry

(* A turn as both formats can express it: no empty parts, no thinking, text *)
(* before calls, named tools, object arguments, no failed result.           *)
NonEmptyTexts == Seq(Pieces) \ {<<>>}
Turn == [by : {"user"}, text : NonEmptyTexts, images : Seq(MediaTypes)]
        \cup [by : {"assistant"}, text : Seq(Pieces),
              calls : Seq([id : Ids, name : Names, arguments : Objects])]
        \cup [by : {"tool"}, id : Ids, toolName : Names, text : Seq(Pieces)]
ASSUME TurnsAssumption == Turns \subseteq Turn

(* How a Chat Completions client puts it ...                                *)
AsChatMessage(t) ==
    CASE t.by = "user" ->
            [role |-> "user",
             content |-> [kind |-> "parts",
                parts |-> <<[type |-> "text", text |-> t.text]>>
                          \o [k \in DOMAIN t.images |->
                                [type |-> "image", url |-> [data |-> TRUE, mediaType |-> t.images[k]]]]]]
      [] t.by = "assistant" ->
            [role |-> "assistant", calls |-> t.calls,
             content |-> IF t.text = <<>> THEN [kind |-> "absent"] ELSE [kind |-> "string", text |-> t.text]]
      [] t.by = "tool" ->
            [role |-> "tool", id |-> t.id, name |-> "", content |-> [kind |-> "string", text |-> t.text]]

(* ... and how Pi does.                                                     *)
AsPiMessage(t) ==
    CASE t.by = "user" ->
            [role |-> "user",
             blocks |-> <<[type |-> "text", text |-> t.text]>>
                       \o [k \in DOMAIN t.images |->
                             [type |-> "image", mediaType |-> t.images[k]]]]
      [] t.by = "assistant" ->
            [role |-> "assistant",
             blocks |-> <<[type |-> "thinking"], [type |-> "text", text |-> t.text]>>
                         \o [k \in DOMAIN t.calls |->
                               [type |-> "toolCall", id |-> t.calls[k].id, name |-> t.calls[k].name,
                                arguments |-> t.calls[k].arguments]]]
      [] t.by = "tool" ->
            [role |-> "toolResult", id |-> t.id, toolName |-> t.toolName,
             texts |-> <<t.text>>, isError |-> FALSE]

VARIABLE road   \* "proxy", "pi" or "both"

vars == <<road, convertVars, piVars>>

Init == road \in {"proxy", "pi", "both"} /\ ConvertInit /\ PiConvertInit

Converse(t) ==
    /\ road = "both"
    /\ ConvertMessage(AsChatMessage(t)) /\ PiConvertMessage(AsPiMessage(t))
    /\ UNCHANGED road
EndConversation == road = "both" /\ EndOfMessages /\ PiReturn /\ UNCHANGED road

Next ==
    \/ road = "proxy" /\ ConvertNext /\ UNCHANGED <<road, piVars>>
    \/ road = "pi" /\ PiConvertNext /\ UNCHANGED <<road, convertVars>>
    \/ \E t \in Turns : Converse(t)
    \/ EndConversation

Spec == Init /\ [][Next]_vars

-----------------------------------------------------------------------------
(* Both lists are what the gateway accepts, and are put together as         *)
(* ModelMessages says: no message of the assistant or of tools is empty, no *)
(* two messages of tools stand side by side, and what is written stays.     *)
ProxyList == INSTANCE ModelMessages WITH messages <- messages, sealed <- stage # "messages"
PiList == INSTANCE ModelMessages WITH messages <- out, sealed <- converted
KeepsSchema == ProxyList!Spec /\ PiList!Spec

(* The parts of a message that the Proxy passes over without a word: those  *)
(* of unknown types, what a user puts as output_text, and an image that is  *)
(* not a user's or has no URL (convert.go:219-235, 250-271).                *)
PassedOver(role, part) ==
    \/ part.type = "other"
    \/ part.type = "output_text" /\ role = "user"
    \/ part.type = "image" /\ (role # "user" \/ part.url = NoUrl)
PartsIn(content) ==
    CASE content.kind = "parts" -> content.parts
      [] content.kind = "string" -> <<[type |-> "text", text |-> content.text]>>
      [] OTHER -> <<>>

(* A list of messages, item by item: <<role, kind, value>>.  A message that *)
(* is read holds its parts and then its calls, after the id it answers.     *)
Pieced(role, text) == [k \in DOMAIN text |-> <<role, "text", text[k]>>]
HeldPart(role, part) ==
    IF PassedOver(role, part) THEN <<>>
    ELSE IF part.type = "image" THEN <<<<role, "image", part.url>>>> ELSE Pieced(role, part.text)
HeldCalls(calls) ==
    [k \in DOMAIN calls |->
        <<"assistant", "call",
          <<calls[k].id, calls[k].name, IF calls[k].arguments = "" THEN EmptyObject ELSE calls[k].arguments>>>>]
Held(m) ==
    LET content == OfEach(LAMBDA p : HeldPart(m.role, p), PartsIn(m.content))
    IN  CASE m.role = "assistant" -> content \o HeldCalls(m.calls)
          [] m.role = "tool" -> <<<<"tool", "result", m.id>>>> \o content
          [] OTHER -> content
HeldTool(t) ==
    IF IsOffer(t)
    THEN <<<<t.name, IF t.parameters = "absent" THEN EmptyObject ELSE t.parameters, t.parameters # "null">>>>
    ELSE <<>>

(* A message that is written holds its parts.                               *)
WrittenPart(role, part) ==
    CASE part.type = "text" -> Pieced(role, part.text)
      [] part.type = "image" -> <<<<role, "image", part.image>>>>
      [] part.type = "tool-call" -> <<<<role, "call", <<part.toolCallId, part.toolName, part.input>>>>>>
      [] part.type = "tool-result" -> <<<<role, "result", part.toolCallId>>>> \o Pieced(role, part.output.value)
Written(m) == OfEach(LAMBDA p : WrittenPart(m.role, p), m.content)

(* A request that is converted loses what is passed over and nothing else   *)
(* (convert.go:131-185, 90-112): texts, images, calls with their names and  *)
(* arguments and results with their ids and texts are all written, under    *)
(* their role and in their order, what the system says apart, and the tools *)
(* that are offered with their schemas.  A request fails exactly where a    *)
(* message or an offered tool is wrong, and a remote image of a user is one *)
(* ("rejected by default", protocol/README.md:58).                          *)
LosesOnlyPassedOver ==
    LET wrong(m) ==
            \/ m.role = "other" \/ m.content.kind = "invalid"
            \/ m.role = "user" /\ \E k \in DOMAIN PartsIn(m.content) : IsRemote(PartsIn(m.content)[k])
            \/ m.role = "assistant" /\ \E k \in DOMAIN m.calls : m.calls[k].arguments \in NotArguments
        badTool(t) == t.parameters = "invalid" /\ IsOffer(t)
        parts == PartsOf(messages)
    IN  /\ stage = "failed" <=> (\E j \in DOMAIN input : wrong(input[j]))
                                \/ (\E j \in DOMAIN offered : badTool(offered[j]))
        /\ \A k \in DOMAIN parts : parts[k].type = "image" => parts[k].image.data
        /\ stage # "failed" =>
              /\ OfEach(Written, messages) = OfEach(LAMBDA m : IF m.role = "system" THEN <<>> ELSE Held(m), input)
              /\ Pieced("system", FlattenSeq(systemParts))
                    = OfEach(LAMBDA m : IF m.role = "system" THEN Held(m) ELSE <<>>, input)
              /\ [k \in DOMAIN tools |-> <<tools[k].name, tools[k].schema.given, tools[k].schema.default>>]
                    = OfEach(HeldTool, offered)
        /\ stage = "built" => maxTokens > 0

(* What the parts of a type do.                                             *)
Those(type, F(_), parts) == OfEach(LAMBDA p : IF p.type = type THEN <<F(p)>> ELSE <<>>, parts)

(* The calls of a list of messages that lie before its j-th: <<message,     *)
(* place in it, id, name>>.                                                 *)
CallsBefore(seq, j) ==
    UNION {IF seq[i].role # "assistant" THEN {}
           ELSE IF "calls" \in DOMAIN seq[i]
           THEN {<<i, k, seq[i].calls[k].id, seq[i].calls[k].name>> : k \in DOMAIN seq[i].calls}
           ELSE {<<i, k, seq[i].blocks[k].id, seq[i].blocks[k].name>> :
                    k \in {l \in DOMAIN seq[i].blocks : seq[i].blocks[l].type = "toolCall"}}
           : i \in 1..(j - 1)}
LatestName(seq, j, fallback) ==
    LET mine == {c \in CallsBefore(seq, j) : c[3] = seq[j].id}
    IN  IF mine = {} THEN fallback
        ELSE (CHOOSE c \in mine : \A d \in mine : d[1] < c[1] \/ (d[1] = c[1] /\ d[2] <= c[2]))[4]
Results(seq) == Those("tool-result", LAMBDA p : <<p.toolCallId, p.toolName>>, PartsOf(seq))

(* Every tool result names the tool of the call it answers: the latest one  *)
(* before it that has its id, for ids are used again (convert.go:170,       *)
(* index.ts:413).  Where the message gives a name, the Proxy believes it    *)
(* and the Adapter does not; where no call is known it is "unknown", or     *)
(* what the session says.                                                   *)
ProxyName(j) ==
    LET latest == LatestName(input, j, "unknown")
    IN  IF input[j].name # "" THEN input[j].name
        ELSE IF latest # "" THEN latest ELSE "unknown"
PiName(j) ==
    LatestName(piInput, j, IF piInput[j].toolName = Missing THEN "unknown" ELSE piInput[j].toolName)
ResultsNameTheirCall ==
    /\ stage # "failed" =>
          Results(messages) = OfEach(LAMBDA j : IF input[j].role = "tool" THEN <<<<input[j].id, ProxyName(j)>>>> ELSE <<>>,
                                     [j \in DOMAIN input |-> j])
    /\ Results(out) = OfEach(LAMBDA j : IF piInput[j].role = "toolResult" THEN <<<<piInput[j].id, PiName(j)>>>> ELSE <<>>,
                             [j \in DOMAIN piInput |-> j])

(* One conversation is one list of messages, whichever road it takes, as    *)
(* long as every result in it answers a call: two programs in two languages *)
(* keep one contract (protocol/README.md:26, wire-protocol.md:103-133).     *)
SameConversation ==
    road = "both" /\ (\A j \in DOMAIN input :
                        input[j].role = "tool" => \E c \in CallsBefore(input, j) : c[3] = input[j].id)
        => messages = out /\ stage # "failed"
=============================================================================
