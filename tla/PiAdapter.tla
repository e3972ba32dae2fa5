----------------------------- MODULE PiAdapter -----------------------------
(***************************************************************************)
(* The Pi Direct Adapter: streamCommandCode of adapters/pi/src/index.ts,   *)
(* one call of it.  JavaScript runs it to its next await without being     *)
(* interrupted, so one line of the gateway's body is one step; between two *)
(* steps the caller may abort through options.signal.                      *)
(*                                                                         *)
(* The gateway decides at every read what comes: a line, the end of the    *)
(* body or an error.  A line is an event, or Malformed.  Texts are opaque  *)
(* pieces, "" being the empty or missing one; the text of a block is the   *)
(* sequence of pieces written to it.  The maps toolJsonByIndex and         *)
(* endedToolCalls, keyed by the index of a block, are fields of the block. *)
(***************************************************************************)
EXTENDS Integers, Sequences, FiniteSets, History

CONSTANTS
    Ids,          \* ids of blocks and tool calls
    NoId,         \* a missing id; for tool events also an empty one
    Texts,        \* non-empty pieces of text
    Pieces,       \* non-empty pieces of streamed tool input
    Objects,      \* JSON objects
    EmptyObject,  \* {}, one of them
    Documents,    \* what JSON.parse accepts: [text, value] records
    NoUsage,      \* a missing usage object
    Malformed,    \* a line that is no JSON
    Events,       \* the events the gateway may send
    MaxEvents     \* bound on the lines read

NotObjects == {"absent", "null", "scalar", "array"}
Values == Objects \cup NotObjects
ToolUseReasons == {"tool-calls", "tool_calls", "tool_use"}
RawUsage == [input : Nat, output : Nat, cached : Nat]
Usage == [input : Nat, output : Nat, cacheRead : Nat, totalTokens : Nat]
ZeroUsage == [input |-> 0, output |-> 0, cacheRead |-> 0, totalTokens |-> 0]

StartTypes == {"reasoning-start", "text-start"}
DeltaTypes == {"reasoning-delta", "text-delta"}
EndTypes == {"reasoning-end", "text-end"}
ToolEndTypes == {"tool-input-end", "tool-call"}
TerminalTypes == {"finish-step", "finish"}

(* "abort" has no case in the switch; "other" is every other type without   *)
(* one, and JSON that is no object or has no type.  usage is usage ??       *)
(* totalUsage, its cached tokens the first of the three places they may be. *)
Event ==
    [type : StartTypes \cup EndTypes, id : Ids \cup {NoId}]
    \cup [type : DeltaTypes, id : Ids \cup {NoId}, text : Texts \cup {""}]
    \cup [type : {"tool-input-start"}, id : Ids \cup {NoId}]
    \cup [type : {"tool-input-delta"}, id : Ids \cup {NoId}, delta : Pieces \cup {""}]
    \cup [type : ToolEndTypes, id : Ids \cup {NoId}, input : Values, args : Values]
    \cup [type : TerminalTypes, reason : {"", "stop", "length", "other"} \cup ToolUseReasons,
          usage : RawUsage \cup {NoUsage}]
    \cup [type : {"error", "abort", "other"}]

ASSUME PiEventsAssumption == Events \subseteq Event /\ Malformed \notin Events
ASSUME PiNoIdAssumption == NoId \notin Ids
ASSUME PiPiecesAssumption == "" \notin Texts \cup Pieces
ASSUME PiObjectsAssumption == EmptyObject \in Objects /\ Objects \cap NotObjects = {}
ASSUME PiDocumentsAssumption ==
    \A d, e \in Documents : d.value \in Values \ {"absent"} /\ (d.text = e.text => d = e)
ASSUME PiMaxEventsAssumption == MaxEvents \in Nat

KindOf(type) == IF type \in {"reasoning-start", "reasoning-delta", "reasoning-end"}
                THEN "thinking" ELSE "text"

VARIABLES
    phase,              \* "called", "fetching", "reading", "drained" or "closed"
    aborted,            \* options.signal.aborted
    content,            \* output.content
    idToIndex,          \* id -> index in content, from 0 as in the code
    sawTerminalEvent, stopReason, usage,
    pushed,             \* the events pushed to Pi
    received            \* history: the lines read

output == <<content, idToIndex, sawTerminalEvent, stopReason, usage>>
vars == <<phase, aborted, output, pushed, received>>

Init ==
    /\ phase = "called" /\ aborted \in BOOLEAN
    /\ content = <<>> /\ idToIndex = [i \in {} |-> 0]
    /\ sawTerminalEvent = FALSE /\ stopReason = "stop" /\ usage = ZeroUsage
    /\ pushed = <<>> /\ received = <<>>

-----------------------------------------------------------------------------
(* Pure helpers.  An operator whose name starts with Bug is a plausible     *)
(* slip in the definition that follows it.                                  *)

Block(step, kind, index) == [step |-> step, kind |-> kind, index |-> index]
TextBlock(kind) == [kind |-> kind, body |-> <<>>]
ToolBlock(id) == [kind |-> "toolCall", id |-> id, arguments |-> EmptyObject,
                  json |-> <<>>, ended |-> FALSE]

Write(builder, piece) == IF piece = "" THEN builder ELSE Append(builder, piece)

(* JSON.parse, or the value kept where it throws.                           *)
ParsedOr(json, value) ==
    IF \E d \in Documents : d.text = json
    THEN (CHOOSE d \in Documents : d.text = json).value ELSE value

(* input ?? args; an array passes for an object.                            *)
CompleteInput(e) == IF e.input \in {"absent", "null"} THEN e.args ELSE e.input
IsComplete(e) == CompleteInput(e) \in Objects \cup {"array"}

Points(id, index) == [i \in DOMAIN idToIndex \cup {id} |-> IF i = id THEN index ELSE idToIndex[i]]
Leads(id, kind) == id \in DOMAIN idToIndex /\ content[idToIndex[id] + 1].kind = kind

BugCachedCountedTwice(u) ==
    [input |-> u.input, output |-> u.output, cacheRead |-> u.cached,
     totalTokens |-> u.input + u.output + u.cached]
DisjointUsage(u) ==
    LET uncached == IF u.input > u.cached THEN u.input - u.cached ELSE 0
    IN  [input |-> uncached, output |-> u.output, cacheRead |-> u.cached,
         totalTokens |-> uncached + u.output + u.cached]

BugToolsNotRouted(e) == CASE e.reason = "length" -> "length"
                          [] e.reason \in ToolUseReasons -> "toolUse"
                          [] OTHER -> "stop"
StopReason(e) ==
    CASE e.reason = "length" -> "length"
      [] e.reason \in ToolUseReasons -> "toolUse"
      [] OTHER -> IF \E k \in DOMAIN content : content[k].kind = "toolCall" THEN "toolUse" ELSE "stop"

-----------------------------------------------------------------------------
(* Around the stream.                                                       *)

(* The catch clause: every throw ends here.                                 *)
Throw ==
    /\ stopReason' = IF aborted THEN "aborted" ELSE "error"
    /\ pushed' = Append(pushed, [step |-> "error", reason |-> stopReason'])
    /\ phase' = "closed"

CallerAborts ==
    /\ phase # "closed" /\ ~aborted
    /\ aborted' = TRUE
    /\ UNCHANGED <<phase, output, pushed, received>>

MissingKey ==
    /\ phase = "called"
    /\ Throw
    /\ UNCHANGED <<aborted, content, idToIndex, sawTerminalEvent, usage, received>>

Fetch ==
    /\ phase = "called"
    /\ phase' = "fetching"
    /\ pushed' = Append(pushed, [step |-> "start"])
    /\ UNCHANGED <<aborted, output, received>>

ResponseOk ==
    /\ phase = "fetching"
    /\ phase' = "reading"
    /\ UNCHANGED <<aborted, output, pushed, received>>

(* The fetch or a read rejects, or the response is not ok.                  *)
GatewayFails ==
    /\ phase \in {"fetching", "reading"}
    /\ Throw
    /\ UNCHANGED <<aborted, content, idToIndex, sawTerminalEvent, usage, received>>

(* The signal was given to fetch: what it still awaits rejects.             *)
BugSignalNotOnBody ==
    /\ phase = "fetching" /\ aborted
    /\ Throw
    /\ UNCHANGED <<aborted, content, idToIndex, sawTerminalEvent, usage, received>>
AbortRejects ==
    /\ phase \in {"fetching", "reading"} /\ aborted
    /\ Throw
    /\ UNCHANGED <<aborted, content, idToIndex, sawTerminalEvent, usage, received>>

EndOfBody ==
    /\ phase = "reading"
    /\ phase' = "drained"
    /\ UNCHANGED <<aborted, output, pushed, received>>

(* The loop is over.                                                        *)
BugEofIsTerminal ==
    /\ phase = "drained"
    /\ pushed' = Append(pushed, [step |-> "done", reason |-> stopReason])
    /\ phase' = "closed"
    /\ UNCHANGED <<aborted, output, received>>
Finish ==
    /\ phase = "drained"
    /\ IF sawTerminalEvent
       THEN /\ pushed' = Append(pushed, [step |-> "done", reason |-> stopReason])
            /\ phase' = "closed" /\ UNCHANGED stopReason
       ELSE Throw
    /\ UNCHANGED <<aborted, content, idToIndex, sawTerminalEvent, usage, received>>

-----------------------------------------------------------------------------
(* One line.  It may be the rest of a body that ended without a newline.    *)

Take(line) ==
    /\ phase = "reading" /\ Len(received) < MaxEvents
    /\ received' = Append(received, line)
    /\ UNCHANGED aborted
ReadOn == phase' \in {"reading", "drained"}

MalformedLine ==
    /\ Take(Malformed)
    /\ Throw
    /\ UNCHANGED <<content, idToIndex, sawTerminalEvent, usage>>

(* An index is taken before the block is pushed, or is length - 1 after.    *)
BugIndexIsLength(e) ==
    /\ e.type \in StartTypes /\ Take(e) /\ ReadOn
    /\ content' = Append(content, TextBlock(KindOf(e.type)))
    /\ idToIndex' = Points(e.id, Len(content'))
    /\ pushed' = Append(pushed, Block("block_start", KindOf(e.type), Len(content)))
    /\ UNCHANGED <<sawTerminalEvent, stopReason, usage>>
BlockStart(e) ==
    /\ e.type \in StartTypes /\ Take(e) /\ ReadOn
    /\ content' = Append(content, TextBlock(KindOf(e.type)))
    /\ idToIndex' = Points(e.id, Len(content))
    /\ pushed' = Append(pushed, Block("block_start", KindOf(e.type), Len(content)))
    /\ UNCHANGED <<sawTerminalEvent, stopReason, usage>>

BlockDelta(e) ==
    /\ e.type \in DeltaTypes /\ Take(e) /\ ReadOn
    /\ Leads(e.id, KindOf(e.type))
    /\ content' = [content EXCEPT ![idToIndex[e.id] + 1].body = Write(@, e.text)]
    /\ pushed' = Append(pushed, Block("block_delta", KindOf(e.type), idToIndex[e.id]))
    /\ UNCHANGED <<idToIndex, sawTerminalEvent, stopReason, usage>>

BlockEnd(e) ==
    /\ e.type \in EndTypes /\ Take(e) /\ ReadOn
    /\ Leads(e.id, KindOf(e.type))
    /\ pushed' = Append(pushed, Block("block_end", KindOf(e.type), idToIndex[e.id]))
    /\ UNCHANGED output

ToolInputStart(e) ==
    /\ e.type = "tool-input-start" /\ Take(e) /\ ReadOn
    /\ e.id # NoId
    /\ content' = Append(content, ToolBlock(e.id))
    /\ idToIndex' = Points(e.id, Len(content))
    /\ pushed' = Append(pushed, Block("block_start", "toolCall", Len(content)))
    /\ UNCHANGED <<sawTerminalEvent, stopReason, usage>>

BugDeltaToLastBlock(e) ==
    /\ e.type = "tool-input-delta" /\ Take(e) /\ ReadOn
    /\ content # <<>> /\ content[Len(content)].kind = "toolCall"
    /\ LET json == Write(content[Len(content)].json, e.delta)
       IN  content' = [content EXCEPT ![Len(content)].json = json,
                                      ![Len(content)].arguments = ParsedOr(json, @)]
    /\ pushed' = Append(pushed, Block("block_delta", "toolCall", Len(content) - 1))
    /\ UNCHANGED <<idToIndex, sawTerminalEvent, stopReason, usage>>
ToolInputDelta(e) ==
    /\ e.type = "tool-input-delta" /\ Take(e) /\ ReadOn
    /\ e.id # NoId /\ Leads(e.id, "toolCall")
    /\ LET at == idToIndex[e.id] + 1
           json == Write(content[at].json, e.delta)
       IN  content' = [content EXCEPT ![at].json = json,
                                      ![at].arguments = ParsedOr(json, @)]
    /\ pushed' = Append(pushed, Block("block_delta", "toolCall", idToIndex[e.id]))
    /\ UNCHANGED <<idToIndex, sawTerminalEvent, stopReason, usage>>

(* tool-input-end and tool-call: the input the event carries, else what was *)
(* streamed.                                                                *)
Arguments(e, block) ==
    IF IsComplete(e) THEN CompleteInput(e)
    ELSE IF block.json # <<>> THEN ParsedOr(block.json, block.arguments) ELSE block.arguments

ToolEndNew(e) ==
    /\ e.type \in ToolEndTypes /\ Take(e) /\ ReadOn
    /\ e.id # NoId /\ e.id \notin DOMAIN idToIndex
    /\ content' = Append(content, [ToolBlock(e.id) EXCEPT !.arguments = Arguments(e, ToolBlock(e.id)),
                                                          !.ended = TRUE])
    /\ idToIndex' = Points(e.id, Len(content))
    /\ pushed' = pushed \o <<Block("block_start", "toolCall", Len(content)),
                             Block("block_end", "toolCall", Len(content))>>
    /\ UNCHANGED <<sawTerminalEvent, stopReason, usage>>

BugEndsTwice(e) ==
    /\ e.type \in ToolEndTypes /\ Take(e) /\ ReadOn
    /\ e.id # NoId /\ Leads(e.id, "toolCall")
    /\ content' = [content EXCEPT ![idToIndex[e.id] + 1].arguments = Arguments(e, content[idToIndex[e.id] + 1])]
    /\ pushed' = Append(pushed, Block("block_end", "toolCall", idToIndex[e.id]))
    /\ UNCHANGED <<idToIndex, sawTerminalEvent, stopReason, usage>>
ToolEndKnown(e) ==
    /\ e.type \in ToolEndTypes /\ Take(e) /\ ReadOn
    /\ e.id # NoId /\ Leads(e.id, "toolCall")
    /\ LET at == idToIndex[e.id] + 1
       IN  /\ content' = [content EXCEPT ![at].arguments = Arguments(e, content[at]),
                                         ![at].ended = TRUE]
           /\ pushed' = IF content[at].ended THEN pushed
                        ELSE Append(pushed, Block("block_end", "toolCall", at - 1))
    /\ UNCHANGED <<idToIndex, sawTerminalEvent, stopReason, usage>>

Terminal(e) ==
    /\ e.type \in TerminalTypes /\ Take(e) /\ ReadOn
    /\ sawTerminalEvent' = TRUE
    /\ usage' = IF e.usage = NoUsage THEN usage ELSE DisjointUsage(e.usage)
    /\ stopReason' = StopReason(e)
    /\ UNCHANGED <<content, idToIndex, pushed>>

GatewayError(e) ==
    /\ e.type = "error" /\ Take(e)
    /\ Throw
    /\ UNCHANGED <<content, idToIndex, sawTerminalEvent, usage>>

(* Events without a case, without the id they need, or whose id leads       *)
(* nowhere or to a block of another kind.                                   *)
Skipped(e) ==
    \/ e.type \in {"abort", "other"}
    \/ e.type \in DeltaTypes \cup EndTypes /\ ~Leads(e.id, KindOf(e.type))
    \/ e.type = "tool-input-start" /\ e.id = NoId
    \/ e.type = "tool-input-delta" /\ (e.id = NoId \/ ~Leads(e.id, "toolCall"))
    \/ e.type \in ToolEndTypes
          /\ (e.id = NoId \/ (e.id \in DOMAIN idToIndex /\ ~Leads(e.id, "toolCall")))
Skip(e) ==
    /\ Skipped(e) /\ Take(e) /\ ReadOn
    /\ UNCHANGED <<output, pushed>>

HandleEvent(e) ==
    \/ BlockStart(e) \/ BlockDelta(e) \/ BlockEnd(e)
    \/ ToolInputStart(e) \/ ToolInputDelta(e) \/ ToolEndNew(e) \/ ToolEndKnown(e)
    \/ Terminal(e) \/ GatewayError(e) \/ Skip(e)

Returned == phase = "closed" /\ UNCHANGED vars

Next ==
    \/ CallerAborts \/ MissingKey \/ Fetch \/ ResponseOk \/ GatewayFails \/ AbortRejects
    \/ EndOfBody \/ Finish \/ MalformedLine \/ Returned
    \/ \E e \in Events : HandleEvent(e)

(* The event loop runs what is ready, and an aborted fetch rejects.  The    *)
(* gateway need not answer, go on or end.                                   *)
Spec == Init /\ [][Next]_vars
FairSpec == Spec /\ WF_vars(Fetch \/ MissingKey) /\ WF_vars(AbortRejects) /\ WF_vars(Finish)

-----------------------------------------------------------------------------
(* What the history says.                                                   *)

Lines == DOMAIN received
IsEvent(j) == received[j] # Malformed
OfType(j, types) == IsEvent(j) /\ received[j].type \in types
NamesTool(j) == OfType(j, {"tool-input-start"} \cup ToolEndTypes) /\ received[j].id # NoId

(* Line j opened a block: a start event, or the first to name its tool.     *)
Opens(j) ==
    \/ OfType(j, StartTypes)
    \/ NamesTool(j) /\ received[j].type = "tool-input-start"
    \/ /\ NamesTool(j) /\ received[j].type # "tool-input-start"
       /\ \A i \in 1..(j - 1) :
             OfType(i, StartTypes) \/ NamesTool(i) => received[i].id # received[j].id
Openers == {j \in Lines : Opens(j)}

(* The block that line o opened, as its index in content from 1.            *)
Rank(o) == Cardinality({i \in Openers : i <= o})

(* Line j is for the block opened last under its id, by line o.             *)
IsFor(j, o) == IsLast(o, {i \in Openers : i < j /\ received[i].id = received[j].id})

PieceOf(j) == IF received[j].type = "tool-input-delta" THEN received[j].delta ELSE received[j].text
Deltas(o, type) == {j \in Lines : OfType(j, {type}) /\ IsFor(j, o) /\ PieceOf(j) # ""}
MadeOf(builder, S) == InOrder(builder, S, [j \in S |-> PieceOf(j)])

Terminals == {j \in Lines : OfType(j, TerminalTypes)}
Done == pushed # <<>> /\ pushed[Len(pushed)].step = "done"
IsTool(k) == content[k].kind = "toolCall"

ContentBlock ==
    [kind : {"thinking", "text"}, body : Seq(Texts)]
    \cup [kind : {"toolCall"}, id : Ids, arguments : Values \ {"absent"},
          json : Seq(Pieces), ended : BOOLEAN]
Step ==
    [step : {"start"}]
    \cup [step : {"block_start", "block_delta", "block_end"},
          kind : {"thinking", "text", "toolCall"}, index : Nat]
    \cup [step : {"done"}, reason : {"stop", "length", "toolUse"}]
    \cup [step : {"error"}, reason : {"error", "aborted"}]

(* Types; an id always leads to a block that exists, and a toolCall block   *)
(* it leads to carries that id.                                             *)
PiTypeOK ==
    /\ phase \in {"called", "fetching", "reading", "drained", "closed"}
    /\ aborted \in BOOLEAN /\ sawTerminalEvent \in BOOLEAN
    /\ stopReason \in {"stop", "length", "toolUse", "error", "aborted"}
    /\ usage \in Usage
    /\ content \in Seq(ContentBlock) /\ pushed \in Seq(Step)
    /\ received \in Seq(Events \cup {Malformed})
    /\ \A id \in DOMAIN idToIndex :
          /\ idToIndex[id] \in 0..(Len(content) - 1)
          /\ IsTool(idToIndex[id] + 1) => content[idToIndex[id] + 1].id = id

(* Every block holds the deltas meant for it and no other, in their order:  *)
(* those of its kind whose id was last given to it, although ids of text,   *)
(* reasoning and tool calls share one map and may be used again             *)
(* (index.ts:577-681).                                                      *)
DeltasReachTheirBlock ==
    /\ Len(content) = Cardinality(Openers)
    /\ \A o \in Openers :
          LET block == content[Rank(o)]
          IN  /\ block.kind = "thinking" => MadeOf(block.body, Deltas(o, "reasoning-delta"))
              /\ block.kind = "text" => MadeOf(block.body, Deltas(o, "text-delta"))
              /\ block.kind = "toolCall" => MadeOf(block.json, Deltas(o, "tool-input-delta"))

(* The arguments of a tool call were sent for that very call: whole in an   *)
(* event that names it, or streamed to it up to some line; or nothing was,  *)
(* and they are {}.                                                         *)
ArgumentsAreTheCallsOwn ==
    \A o \in Openers : IsTool(Rank(o)) =>
        LET arguments == content[Rank(o)].arguments
        IN  \/ arguments = EmptyObject
            \/ \E j \in Lines : /\ OfType(j, ToolEndTypes) /\ (j = o \/ IsFor(j, o))
                                /\ IsComplete(received[j])
                                /\ arguments = CompleteInput(received[j])
            \/ \E d \in Documents, n \in Lines :
                  /\ arguments = d.value
                  /\ MadeOf(d.text, {j \in Deltas(o, "tool-input-delta") : j <= n})

(* "done" is pushed only after a terminal event, when no line was malformed *)
(* and none was an error: a truncated stream ends in "error" (what the test *)
(* provider.test.mjs:56 checks for one stream).                             *)
DoneIsEarned ==
    Done => Terminals # {} /\ \A j \in Lines : IsEvent(j) /\ received[j].type # "error"

(* The stop reason of a finished message is that of its last terminal       *)
(* event, except that a "stop" after a tool call becomes "toolUse"          *)
(* (index.ts:755-764).                                                      *)
StopReasonIsTheLastOne ==
    Done => \A j \in Terminals : IsLast(j, Terminals) =>
        /\ stopReason = "length" <=> received[j].reason = "length"
        /\ stopReason = "stop" => \A i \in 1..j : ~NamesTool(i) \/ ~Opens(i)
        /\ stopReason = "toolUse" =>
              received[j].reason \in ToolUseReasons \/ \E i \in 1..j : NamesTool(i) /\ Opens(i)

(* Cached tokens are billed once: input and cacheRead are disjoint parts of *)
(* the input tokens last reported, and neither is negative, not even where  *)
(* more tokens are said to be cached than sent (index.ts:732-752).          *)
Reports == {j \in Terminals : received[j].usage # NoUsage}
UsageCountedOnce ==
    \A j \in Reports : IsLast(j, Reports) =>
        LET u == received[j].usage
        IN  /\ usage.input + usage.cacheRead = IF u.input > u.cached THEN u.input ELSE u.cached
            /\ usage.cacheRead = u.cached /\ usage.output = u.output
            /\ usage.totalTokens = usage.input + usage.cacheRead + usage.output

(* An aborted call ends, whatever the gateway does (index.ts:565).          *)
AbortEndsTheCall == aborted ~> phase = "closed"

(* The stream Pi sees keeps to the protocol of AssistantStream.             *)
Protocol == INSTANCE AssistantStream
KeepsProtocol == Protocol!StreamSpec

-----------------------------------------------------------------------------
(* What protocol/README.md, the contract of Proxy and Adapter, says of a    *)
(* message that is done.                                                    *)

(* Line 41: "`error` / `abort` | fail-closed".                              *)
AbortFailsClosed == Done => \A j \in Lines : received[j].type # "abort"

(* Lines 47-52: tool calls come only from an authoritative tool-call event  *)
(* (line 37: tool-input-* is "provisional telemetry only"), "later          *)
(* duplicates are ignored", and "Scalar, null, array, or malformed          *)
(* arguments fail the stream".                                              *)
ToolCallsKeepContract ==
    LET calls == {j \in Lines : OfType(j, {"tool-call"})}
        firstOf(id) == {j \in calls : received[j].id = id
                                      /\ \A i \in calls : received[i].id = id => j <= i}
    IN  Done => /\ \A j \in calls : CompleteInput(received[j]) \in Objects
                /\ \A k \in DOMAIN content : IsTool(k) =>
                      \E j \in firstOf(content[k].id) : content[k].arguments = CompleteInput(received[j])
=============================================================================
