------------------------------ MODULE Convert ------------------------------
(***************************************************************************)
(* buildCommandCodeRequest of internal/openai/convert.go: a Chat           *)
(* Completions request turned into a request to the gateway.  One message  *)
(* of the request, then one of its tools, is a step; the variables are the *)
(* locals of the two loops, and input and offered the history of what they *)
(* have read.  The request is whatever a client writes.                    *)
(***************************************************************************)
EXTENDS GatewayMessages

CONSTANTS
    Messages,   \* the messages a client may send
    Tools,      \* the tools it may offer
    NoUrl,      \* an image part without a URL
    Limits,     \* values of max_tokens and max_completion_tokens, 0 if missing
    MaxInput    \* bound on the messages and tools of a request

NotArguments == {"scalar", "array", "malformed"}

(* "text" stands for input_text too; "other" for every other part, a null   *)
(* and one without a type included.  "invalid" content is neither a string  *)
(* nor an array of objects.                                                 *)
Part == [type : {"text", "output_text"}, text : Seq(Pieces)]
        \cup [type : {"image"}, url : Url \cup {NoUrl}]
        \cup [type : {"other"}]
Content == [kind : {"absent", "invalid"}] \cup [kind : {"string"}, text : Seq(Pieces)]
           \cup [kind : {"parts"}, parts : Seq(Part)]
(* "system" stands for developer too, "other" for a role no case names.     *)
Call == [id : Ids, name : Names \cup {""}, arguments : Objects \cup {"", "null"} \cup NotArguments]
ChatMessage == [role : {"system", "user", "other"}, content : Content]
               \cup [role : {"assistant"}, content : Content, calls : Seq(Call)]
               \cup [role : {"tool"}, content : Content, id : Ids, name : Names \cup {""}]
ChatTool == [type : {"", "function", "other"}, name : Names \cup {""},
             parameters : Objects \cup {"absent", "null", "invalid"}]

ASSUME MessagesAssumption == Messages \subseteq ChatMessage
ASSUME ToolsAssumption == Tools \subseteq ChatTool
ASSUME NoUrlAssumption == NoUrl \notin Url
ASSUME LimitsAssumption == Limits \subseteq Int
ASSUME MaxInputAssumption == MaxInput \in Nat

VARIABLES
    stage,        \* "messages", "tools", "built" or "failed"
    input, offered,
    systemParts, messages, toolNames, tools,
    maxTokens     \* 0 until the request is built

loopVars == <<systemParts, messages, toolNames>>
convertVars == <<stage, input, offered, loopVars, tools, maxTokens>>

ConvertInit ==
    /\ stage = "messages" /\ input = <<>> /\ offered = <<>>
    /\ systemParts = <<>> /\ messages = <<>> /\ tools = <<>> /\ maxTokens = 0
    /\ toolNames = [i \in {} |-> ""]

-----------------------------------------------------------------------------
(* textFromContent keeps the text of every part that has one and drops the  *)
(* other parts; userContent keeps texts and images apart.                   *)

TextOf(content) ==
    CASE content.kind = "absent" -> <<>>
      [] content.kind = "string" -> content.text
      [] content.kind = "parts" ->
            OfEach(LAMBDA p : IF p.type \in {"text", "output_text"} THEN p.text ELSE <<>>, content.parts)

NonEmpty(text) == IF text = <<>> THEN <<>> ELSE <<TextPart(text)>>

UserPart(part) ==
    CASE part.type = "text" -> NonEmpty(part.text)
      [] part.type = "image" -> IF part.url = NoUrl THEN <<>> ELSE <<ImagePart(part.url)>>
      [] OTHER -> <<>>
UserContent(content) ==
    CASE content.kind = "absent" -> <<>>
      [] content.kind = "string" -> <<TextPart(content.text)>>
      [] content.kind = "parts" -> OfEach(UserPart, content.parts)
IsRemote(part) == part.type = "image" /\ part.url # NoUrl /\ ~part.url.data

(* decodeToolArguments: a JSON null decodes into a nil map, and what        *)
(* follows the first value is not looked at.                                *)
Decoded(arguments) == IF arguments = "" THEN EmptyObject ELSE arguments

FirstNonBlank(names) ==
    LET given == {k \in DOMAIN names : names[k] # ""}
    IN  IF given = {} THEN "" ELSE names[CHOOSE k \in given : \A l \in given : k <= l]

Reads(m) ==
    /\ stage = "messages" /\ Len(input) < MaxInput
    /\ input' = Append(input, m)
    /\ UNCHANGED <<offered, tools, maxTokens>>

System(m) ==
    /\ m.role = "system" /\ m.content.kind # "invalid" /\ Reads(m)
    /\ systemParts' = IF TextOf(m.content) = <<>> THEN systemParts
                      ELSE Append(systemParts, TextOf(m.content))
    /\ UNCHANGED <<stage, messages, toolNames>>

User(m) ==
    /\ m.role = "user" /\ m.content.kind # "invalid" /\ Reads(m)
    /\ m.content.kind = "parts" => \A k \in DOMAIN m.content.parts : ~IsRemote(m.content.parts[k])
    /\ messages' = Append(messages, Message("user", UserContent(m.content)))
    /\ UNCHANGED <<stage, systemParts, toolNames>>

CallParts(calls) ==
    [k \in DOMAIN calls |-> CallPart(calls[k].id, calls[k].name, Decoded(calls[k].arguments))]
BugFirstNameStays(calls) ==
    LET ids == {calls[k].id : k \in DOMAIN calls}
        lastOf(i) == CHOOSE k \in DOMAIN calls :
                        calls[k].id = i /\ \A l \in DOMAIN calls : calls[l].id = i => l <= k
    IN  [i \in DOMAIN toolNames \cup ids |->
            IF i \in DOMAIN toolNames THEN toolNames[i] ELSE calls[lastOf(i)].name]
NamesAfter(calls) ==
    LET ids == {calls[k].id : k \in DOMAIN calls}
        lastOf(i) == CHOOSE k \in DOMAIN calls :
                        calls[k].id = i /\ \A l \in DOMAIN calls : calls[l].id = i => l <= k
    IN  [i \in DOMAIN toolNames \cup ids |->
            IF i \in ids THEN calls[lastOf(i)].name ELSE toolNames[i]]

BugCallsReplaceText(m) ==
    /\ m.role = "assistant" /\ m.content.kind # "invalid" /\ Reads(m)
    /\ \A k \in DOMAIN m.calls : m.calls[k].arguments \notin NotArguments
    /\ LET content == IF m.calls = <<>> THEN NonEmpty(TextOf(m.content)) ELSE CallParts(m.calls)
       IN  messages' = IF content = <<>> THEN messages ELSE Append(messages, Message("assistant", content))
    /\ toolNames' = NamesAfter(m.calls)
    /\ UNCHANGED <<stage, systemParts>>
Assistant(m) ==
    /\ m.role = "assistant" /\ m.content.kind # "invalid" /\ Reads(m)
    /\ \A k \in DOMAIN m.calls : m.calls[k].arguments \notin NotArguments
    /\ LET content == NonEmpty(TextOf(m.content)) \o CallParts(m.calls)
       IN  messages' = IF content = <<>> THEN messages ELSE Append(messages, Message("assistant", content))
    /\ toolNames' = NamesAfter(m.calls)
    /\ UNCHANGED <<stage, systemParts>>

ToolResult(m) ==
    /\ m.role = "tool" /\ m.content.kind # "invalid" /\ Reads(m)
    /\ LET known == IF m.id \in DOMAIN toolNames THEN toolNames[m.id] ELSE ""
           name == FirstNonBlank(<<m.name, known, "unknown">>)
       IN  messages' = AddResult(messages, ResultPart(m.id, name, "text", TextOf(m.content)))
    /\ UNCHANGED <<stage, systemParts, toolNames>>

(* Whatever is wrong with one message is wrong with the request.            *)
Inconvertible(m) ==
    \/ m.role = "other" \/ m.content.kind = "invalid"
    \/ /\ m.role = "user" /\ m.content.kind = "parts"
       /\ \E k \in DOMAIN m.content.parts : IsRemote(m.content.parts[k])
    \/ m.role = "assistant" /\ \E k \in DOMAIN m.calls : m.calls[k].arguments \in NotArguments
RefuseMessage(m) ==
    /\ Inconvertible(m) /\ Reads(m)
    /\ stage' = "failed"
    /\ UNCHANGED loopVars

ConvertMessage(m) == System(m) \/ User(m) \/ Assistant(m) \/ ToolResult(m) \/ RefuseMessage(m)

(* The handler turns a request without messages away.                       *)
EndOfMessages ==
    /\ stage = "messages" /\ input # <<>>
    /\ stage' = "tools"
    /\ UNCHANGED <<input, offered, loopVars, tools, maxTokens>>

-----------------------------------------------------------------------------
(* The rest of the request.                                                 *)

(* The parameters are decoded over the default schema, so an object keeps   *)
(* the defaults it does not name, and null takes the schema away.           *)
Schema(parameters) ==
    CASE parameters = "absent" -> [default |-> TRUE, given |-> EmptyObject]
      [] parameters = "null" -> [default |-> FALSE, given |-> "null"]
      [] OTHER -> [default |-> TRUE, given |-> parameters]
IsOffer(t) == t.type \in {"", "function"} /\ t.name # ""

ConvertTool(t) ==
    /\ stage = "tools" /\ Len(input) + Len(offered) < MaxInput
    /\ offered' = Append(offered, t)
    /\ IF IsOffer(t) /\ t.parameters = "invalid"
       THEN stage' = "failed" /\ UNCHANGED tools
       ELSE /\ tools' = IF IsOffer(t) THEN Append(tools, [name |-> t.name, schema |-> Schema(t.parameters)])
                        ELSE tools
            /\ UNCHANGED stage
    /\ UNCHANGED <<input, loopVars, maxTokens>>

Build ==
    /\ stage = "tools"
    /\ \E completion, older \in Limits :
          maxTokens' = IF completion > 0 THEN completion ELSE IF older > 0 THEN older ELSE 8192
    /\ stage' = "built"
    /\ UNCHANGED <<input, offered, loopVars, tools>>

ConvertNext ==
    \/ \E m \in Messages : ConvertMessage(m)
    \/ EndOfMessages
    \/ \E t \in Tools : ConvertTool(t)
    \/ Build
=============================================================================
