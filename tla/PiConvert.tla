----------------------------- MODULE PiConvert -----------------------------
(***************************************************************************)
(* convertMessages of adapters/pi/src/index.ts: the messages of a Pi       *)
(* session turned into those of a request to the gateway, one a step.  It  *)
(* rejects nothing.  piInput is the history of what it has read.           *)
(***************************************************************************)
EXTENDS GatewayMessages

CONSTANTS
    PiMessages,   \* the messages a session may hold
    Missing,      \* the toolName of a result that has none
    MaxPiInput    \* bound on the messages of a session

(* The arguments of a toolCall are what the provider that made it put there;*)
(* the Adapter itself may have put an array or a scalar.                    *)
Values == Objects \cup {"null", "array", "scalar"}
UserBlock == [type : {"text"}, text : Seq(Pieces)] \cup [type : {"image"}, mediaType : MediaTypes]
AssistantBlock == [type : {"text"}, text : Seq(Pieces)] \cup [type : {"thinking"}]
                  \cup [type : {"toolCall"}, id : Ids, name : Names \cup {""}, arguments : Values]
PiMessage == [role : {"user"}, text : Seq(Pieces)] \cup [role : {"user"}, blocks : Seq(UserBlock)]
             \cup [role : {"assistant"}, blocks : Seq(AssistantBlock)]
             \cup [role : {"toolResult"}, id : Ids, toolName : Names \cup {"", Missing},
                   texts : Seq(Seq(Pieces)), isError : BOOLEAN]

ASSUME PiMessagesAssumption == PiMessages \subseteq PiMessage
ASSUME MaxPiInputAssumption == MaxPiInput \in Nat

VARIABLES
    converted,       \* convertMessages has returned
    piInput, out, toolNameById

piVars == <<converted, piInput, out, toolNameById>>

PiConvertInit ==
    /\ converted = FALSE /\ piInput = <<>> /\ out = <<>>
    /\ toolNameById = [i \in {} |-> ""]

-----------------------------------------------------------------------------
PiReads(m) ==
    /\ ~converted /\ Len(piInput) < MaxPiInput
    /\ piInput' = Append(piInput, m)
    /\ UNCHANGED converted

(* An image of a session is always data, and always has a type.             *)
PiUserPart(block) ==
    IF block.type = "text" THEN TextPart(block.text)
    ELSE ImagePart([data |-> TRUE, mediaType |-> block.mediaType])
PiUserContent(m) ==
    IF "text" \in DOMAIN m THEN <<TextPart(m.text)>>
    ELSE [k \in DOMAIN m.blocks |-> PiUserPart(m.blocks[k])]

AddTurn(role, content) == IF content = <<>> THEN out ELSE Append(out, Message(role, content))

PiUser(m) ==
    /\ m.role = "user" /\ PiReads(m)
    /\ out' = AddTurn("user", PiUserContent(m))
    /\ UNCHANGED toolNameById

(* Texts and calls keep their order; thinking is left out.                  *)
PiAssistantPart(block) ==
    CASE block.type = "text" -> IF block.text = <<>> THEN <<>> ELSE <<TextPart(block.text)>>
      [] block.type = "toolCall" ->
            <<CallPart(block.id, block.name, IF block.arguments = "null" THEN EmptyObject ELSE block.arguments)>>
      [] block.type = "thinking" -> <<>>
PiAssistantContent(blocks) == OfEach(PiAssistantPart, blocks)

PiAssistant(m) ==
    /\ m.role = "assistant" /\ PiReads(m)
    /\ out' = AddTurn("assistant", PiAssistantContent(m.blocks))
    /\ LET Calls(i) == {k \in DOMAIN m.blocks : m.blocks[k].type = "toolCall" /\ m.blocks[k].id = i}
           ids == {m.blocks[k].id : k \in {l \in DOMAIN m.blocks : m.blocks[l].type = "toolCall"}}
       IN  toolNameById' = [i \in DOMAIN toolNameById \cup ids |->
               IF i \in ids THEN m.blocks[CHOOSE k \in Calls(i) : \A l \in Calls(i) : l <= k].name
               ELSE toolNameById[i]]

BugOwnNameFirst(m) ==
    IF m.toolName # Missing THEN m.toolName
    ELSE IF m.id \in DOMAIN toolNameById THEN toolNameById[m.id] ELSE "unknown"
ResultName(m) ==
    IF m.id \in DOMAIN toolNameById THEN toolNameById[m.id]
    ELSE IF m.toolName # Missing THEN m.toolName ELSE "unknown"

PiToolResult(m) ==
    /\ m.role = "toolResult" /\ PiReads(m)
    /\ out' = AddResult(out, ResultPart(m.id, ResultName(m), IF m.isError THEN "error-text" ELSE "text",
                                        FlattenSeq(m.texts)))
    /\ UNCHANGED toolNameById

PiConvertMessage(m) == PiUser(m) \/ PiAssistant(m) \/ PiToolResult(m)

PiReturn == ~converted /\ converted' = TRUE /\ UNCHANGED <<piInput, out, toolNameById>>

PiConvertNext == (\E m \in PiMessages : PiConvertMessage(m)) \/ PiReturn
=============================================================================
