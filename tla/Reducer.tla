------------------------------ MODULE Reducer ------------------------------
(***************************************************************************)
(* The fold that turns a Command Code event stream into one answer:        *)
(* internal/protocol/reduce.go.  One Reducer belongs to one HTTP request.  *)
(* Every call of Apply is a step; Finish, which changes nothing, is the    *)
(* operators FinishError and FinishedReason.                               *)
(*                                                                         *)
(* Texts are opaque pieces and "" is the missing or empty text; a builder  *)
(* is the sequence of the non-empty pieces written to it.  Tool arguments  *)
(* are either one of Objects or one of the shapes that are not an object.  *)
(* Tool names and error messages are left out: no property tells them      *)
(* apart.                                                                  *)
(***************************************************************************)
EXTENDS Integers, Sequences, FiniteSets, History

CONSTANTS
    Ids,        \* tool call ids the upstream uses
    Texts,      \* non-empty pieces of text
    Objects,    \* JSON objects given as tool arguments
    NoUsage,    \* stands for a finish event's absent usage object
    Events,     \* the events the upstream may send
    MaxEvents   \* bound on the calls of Apply

NotObjects == {"absent", "null", "scalar", "array"}
Values == Objects \cup NotObjects

ToolCallReasons == {"tool-calls", "tool_calls", "tool_use"}
RawReasons == {"", "stop", "length", "other"} \cup ToolCallReasons

RawUsage == [input : Nat, output : Nat, total : Nat, cached : Nat, cacheRead : Nat]
Usage == [prompt : Nat, completion : Nat, total : Nat, cached : Nat]
ZeroUsage == [prompt |-> 0, completion |-> 0, total |-> 0, cached |-> 0]

DeltaTypes == {"reasoning-delta", "text-delta"}
ProvisionalTypes == {"tool-input-start", "tool-input-delta", "tool-input-end"}
TerminalTypes == {"finish-step", "finish"}
FailureTypes == {"abort", "error"}

(* id is the first non-empty of toolCallId and id, reason the first         *)
(* non-empty of finishReason and rawFinishReason.  "unknown" is any type    *)
(* the switch of Apply has no case for, the empty type included.            *)
Event ==
    [type : DeltaTypes, text : Texts \cup {""}]
    \cup [type : ProvisionalTypes \cup FailureTypes \cup {"unknown"}]
    \cup [type : {"tool-call"}, id : Ids \cup {""}, input : Values, args : Values]
    \cup [type : TerminalTypes, reason : RawReasons,
          usage : RawUsage \cup {NoUsage}, totalUsage : RawUsage \cup {NoUsage}]

ASSUME EventsAssumption == Events \subseteq Event
ASSUME TextsAssumption == "" \notin Texts
ASSUME ObjectsAssumption == Objects \cap NotObjects = {}
ASSUME NoUsageAssumption == NoUsage \notin RawUsage
ASSUME MaxEventsAssumption == MaxEvents \in Nat

MissingId == "call_missing"
Tool == [id : Ids \cup {MissingId}, arguments : Objects]
FinishReasons == {"stop", "length", "tool_calls"}
Errors == {"none", "aborted", "upstream_error", "invalid_tool_args"}

VARIABLES
    text, reasoning,  \* the two builders
    tools,            \* accepted tool calls, in order of arrival
    toolIndex,        \* id -> its index in tools, from 0 as in the code
    finishReason, usage, terminalKind, complete,
    err,              \* the latched error
    applied           \* history: every event given to Apply, in order

reducerState == <<text, reasoning, tools, toolIndex, finishReason, usage,
                  terminalKind, complete, err>>
reducerVars == <<reducerState, applied>>

NewReducer ==
    /\ text = <<>> /\ reasoning = <<>> /\ tools = <<>>
    /\ toolIndex = [i \in {} |-> 0]
    /\ finishReason = "stop" /\ usage = ZeroUsage
    /\ terminalKind = "" /\ complete = FALSE
    /\ err = "none"
    /\ applied = <<>>

-----------------------------------------------------------------------------
(* Pure helpers.  An operator whose name starts with Bug is a plausible     *)
(* slip in the definition that follows it, used to show that the            *)
(* properties notice it.                                                    *)

Write(builder, piece) == IF piece = "" THEN builder ELSE Append(builder, piece)

Arguments(e) == IF e.input \in Objects THEN e.input ELSE e.args
HasObject(e) == Arguments(e) \in Objects

ToolOf(e) == [id |-> IF e.id = "" THEN MissingId ELSE e.id,
              arguments |-> Arguments(e)]

ParseUsage(u) ==
    [prompt |-> u.input, completion |-> u.output,
     total |-> IF u.total = 0 THEN u.input + u.output ELSE u.total,
     cached |-> IF u.cached = 0 THEN u.cacheRead ELSE u.cached]

BugReasonPassedThrough(reason, hasTools) ==
    IF reason = "" THEN "stop" ELSE reason
NormalizeFinishReason(reason, hasTools) ==
    CASE reason = "length" -> "length"
      [] reason \in ToolCallReasons -> "tool_calls"
      [] OTHER -> IF hasTools THEN "tool_calls" ELSE "stop"

-----------------------------------------------------------------------------
(* Apply: one action per case of its switch.                                *)

Receive(e) == Len(applied) < MaxEvents /\ applied' = Append(applied, e)

(* An earlier event failed: Apply returns that error and does nothing.      *)
Latched(e) ==
    /\ err # "none"
    /\ Receive(e)
    /\ UNCHANGED reducerState

ReasoningDelta(e) ==
    /\ err = "none" /\ e.type = "reasoning-delta"
    /\ Receive(e)
    /\ reasoning' = Write(reasoning, e.text)
    /\ UNCHANGED <<text, tools, toolIndex, finishReason, usage, terminalKind, complete, err>>

TextDelta(e) ==
    /\ err = "none" /\ e.type = "text-delta"
    /\ Receive(e)
    /\ text' = Write(text, e.text)
    /\ UNCHANGED <<reasoning, tools, toolIndex, finishReason, usage, terminalKind, complete, err>>

(* tool-input-* and every type without a case leave the reducer as it is.   *)
Ignored(e) ==
    /\ err = "none" /\ e.type \in ProvisionalTypes \cup {"unknown"}
    /\ Receive(e)
    /\ UNCHANGED reducerState

InvalidToolCall(e) ==
    /\ err = "none" /\ e.type = "tool-call" /\ ~HasObject(e)
    /\ Receive(e)
    /\ err' = "invalid_tool_args"
    /\ UNCHANGED <<text, reasoning, tools, toolIndex, finishReason, usage, terminalKind, complete>>

DuplicateToolCall(e) ==
    /\ err = "none" /\ e.type = "tool-call" /\ HasObject(e)
    /\ ToolOf(e).id \in DOMAIN toolIndex
    /\ Receive(e)
    /\ UNCHANGED reducerState

BugIndexFromOne(e) ==
    /\ err = "none" /\ e.type = "tool-call" /\ HasObject(e)
    /\ ToolOf(e).id \notin DOMAIN toolIndex
    /\ Receive(e)
    /\ tools' = Append(tools, ToolOf(e))
    /\ toolIndex' = [i \in DOMAIN toolIndex \cup {ToolOf(e).id} |->
                        IF i \in DOMAIN toolIndex THEN toolIndex[i] ELSE Len(tools) + 1]
    /\ UNCHANGED <<text, reasoning, finishReason, usage, terminalKind, complete, err>>
BugLastCallWins(e) ==
    /\ err = "none" /\ e.type = "tool-call" /\ HasObject(e)
    /\ Receive(e)
    /\ tools' = IF ToolOf(e).id \in DOMAIN toolIndex
                THEN [tools EXCEPT ![toolIndex[ToolOf(e).id] + 1] = ToolOf(e)]
                ELSE Append(tools, ToolOf(e))
    /\ toolIndex' = [i \in DOMAIN toolIndex \cup {ToolOf(e).id} |->
                        IF i \in DOMAIN toolIndex THEN toolIndex[i] ELSE Len(tools)]
    /\ UNCHANGED <<text, reasoning, finishReason, usage, terminalKind, complete, err>>
ToolCall(e) ==
    /\ err = "none" /\ e.type = "tool-call" /\ HasObject(e)
    /\ ToolOf(e).id \notin DOMAIN toolIndex
    /\ Receive(e)
    /\ tools' = Append(tools, ToolOf(e))
    /\ toolIndex' = [i \in DOMAIN toolIndex \cup {ToolOf(e).id} |->
                        IF i \in DOMAIN toolIndex THEN toolIndex[i] ELSE Len(tools)]
    /\ UNCHANGED <<text, reasoning, finishReason, usage, terminalKind, complete, err>>

(* usage, else totalUsage, else what an earlier finish event reported.      *)
BugMissingUsageResets(e) ==
    CASE e.usage # NoUsage -> ParseUsage(e.usage)
      [] e.usage = NoUsage /\ e.totalUsage # NoUsage -> ParseUsage(e.totalUsage)
      [] OTHER -> ZeroUsage
UsageAfter(e) ==
    CASE e.usage # NoUsage -> ParseUsage(e.usage)
      [] e.usage = NoUsage /\ e.totalUsage # NoUsage -> ParseUsage(e.totalUsage)
      [] OTHER -> usage

(* finish-step and finish.                                                  *)
Terminal(e) ==
    /\ err = "none" /\ e.type \in TerminalTypes
    /\ Receive(e)
    /\ complete' = TRUE
    /\ terminalKind' = e.type
    /\ finishReason' = NormalizeFinishReason(e.reason, tools # <<>>)
    /\ usage' = UsageAfter(e)
    /\ UNCHANGED <<text, reasoning, tools, toolIndex, err>>

UpstreamFailure(e) ==
    /\ err = "none" /\ e.type \in FailureTypes
    /\ Receive(e)
    /\ err' = IF e.type = "abort" THEN "aborted" ELSE "upstream_error"
    /\ UNCHANGED <<text, reasoning, tools, toolIndex, finishReason, usage, terminalKind, complete>>

Apply(e) ==
    \/ Latched(e)
    \/ ReasoningDelta(e)
    \/ TextDelta(e)
    \/ Ignored(e)
    \/ InvalidToolCall(e)
    \/ DuplicateToolCall(e)
    \/ ToolCall(e)
    \/ Terminal(e)
    \/ UpstreamFailure(e)

-----------------------------------------------------------------------------
(* Finish: what the caller is told once the stream has ended.               *)

BugToolsKeepReason == finishReason
FinishedReason ==
    IF tools # <<>> /\ finishReason # "length" THEN "tool_calls" ELSE finishReason

BugEofIsCompletion ==
    CASE err # "none" -> err
      [] err = "none" /\ FinishedReason = "tool_calls" /\ tools = <<>>
            -> "unconfirmed_tool_calls"
      [] OTHER -> "none"
FinishError ==
    CASE err # "none" -> err
      [] err = "none" /\ ~complete -> "incomplete_stream"
      [] err = "none" /\ complete /\ FinishedReason = "tool_calls" /\ tools = <<>>
            -> "unconfirmed_tool_calls"
      [] OTHER -> "none"

Outcome == [text |-> text, reasoning |-> reasoning, tools |-> tools,
            finishReason |-> FinishedReason, usage |-> usage]

ReducerNext == \E e \in Events : Apply(e)

ReducerSpec == NewReducer /\ [][ReducerNext]_reducerVars

-----------------------------------------------------------------------------
(* What Apply made of the history.                                          *)

IsTerminal(e) == e.type \in TerminalTypes
Fails(e) == e.type \in FailureTypes \/ (e.type = "tool-call" /\ ~HasObject(e))

(* Neither the i-th event nor one before it failed the stream.              *)
Heeded(i) == \A j \in 1..i : ~Fails(applied[j])

HeededCalls == {i \in DOMAIN applied : Heeded(i) /\ applied[i].type = "tool-call"}
FirstCalls == {i \in HeededCalls :
                  \A j \in HeededCalls : ToolOf(applied[j]).id = ToolOf(applied[i]).id => i <= j}
HeededTerminals == {i \in DOMAIN applied : Heeded(i) /\ IsTerminal(applied[i])}
ClaimsTools(i) == applied[i].reason \in ToolCallReasons

(* Every variable of a reducer stays in the set its Go type or the values   *)
(* assigned to it allow; a finish reason outside OpenAI's three never       *)
(* reaches a client.                                                        *)
ReducerTypeOK ==
    /\ text \in Seq(Texts) /\ reasoning \in Seq(Texts)
    /\ tools \in Seq(Tool)
    /\ toolIndex \in [DOMAIN toolIndex -> Nat]
    /\ finishReason \in FinishReasons
    /\ usage \in Usage
    /\ terminalKind \in TerminalTypes \cup {""}
    /\ complete \in BOOLEAN
    /\ err \in Errors
    /\ applied \in Seq(Events)

(* The map and the slice say the same: each id the map holds sits in tools  *)
(* at the index the client was given, and each tool is in the map.  A       *)
(* disagreement would send two calls under one index (reduce.go:102-108).   *)
ToolIndexAgrees ==
    /\ DOMAIN toolIndex = {tools[k].id : k \in DOMAIN tools}
    /\ \A k \in DOMAIN tools : toolIndex[tools[k].id] = k - 1

(* tools holds, in order of arrival, exactly the first authoritative call   *)
(* of each id: nothing provisional, nothing whose arguments are not an      *)
(* object, nothing that followed a failure, and the arguments of the first  *)
(* call even when a later one disagrees.                                    *)
ToolsAreFirstCalls ==
    \E at \in [DOMAIN tools -> DOMAIN applied] :
        /\ \A k, l \in DOMAIN tools : k < l => at[k] < at[l]
        /\ {at[k] : k \in DOMAIN tools} = FirstCalls
        /\ \A k \in DOMAIN tools : tools[k] = ToolOf(applied[at[k]])

(* The caller is told of success exactly when the stream earned it: some    *)
(* terminal event was applied, no event failed, before or after it, and if  *)
(* the last terminal claims tool calls, one was really received.            *)
EarnedCompletion ==
    FinishError = "none" <=>
        /\ HeededTerminals # {}
        /\ \A i \in DOMAIN applied : ~Fails(applied[i])
        /\ (\E i \in DOMAIN applied : IsLast(i, HeededTerminals) /\ ClaimsTools(i))
              => HeededCalls # {}

(* The finish reason of a successful answer agrees with its content: it is  *)
(* "length" exactly when the last terminal said so, "tool_calls" only with  *)
(* a call in the answer, and "stop" only when no call was received at all,  *)
(* not even after the terminal event that said "stop".                      *)
ReasonHonest ==
    FinishError = "none" =>
        /\ FinishedReason = "length" <=>
              \E i \in DOMAIN applied : IsLast(i, HeededTerminals) /\ applied[i].reason = "length"
        /\ FinishedReason = "tool_calls" => tools # <<>>
        /\ FinishedReason = "stop" => HeededCalls = {}

(* The usage billed to the client is the one of the last terminal that      *)
(* carries any: a later terminal without usage does not erase it, and       *)
(* totalUsage counts only where usage is missing.                           *)
Reports == {i \in HeededTerminals :
               applied[i].usage # NoUsage \/ applied[i].totalUsage # NoUsage}
ReportedBy(e) == IF e.usage # NoUsage THEN e.usage ELSE e.totalUsage
UsageIsLastReported ==
    /\ Reports = {} => usage = ZeroUsage
    /\ \A i \in Reports : IsLast(i, Reports) =>
          LET u == ReportedBy(applied[i])
          IN  /\ usage.prompt = u.input /\ usage.completion = u.output
              /\ usage.total = (IF u.total > 0 THEN u.total ELSE u.input + u.output)
              /\ usage.cached \in {u.cached, u.cacheRead}
              /\ (u.cached > 0 => usage.cached = u.cached)

(* protocol/README.md:39 calls finish-step a "step boundary; legal          *)
(* completion if the stream then ends": when finish-step is the completion  *)
(* of a successful answer, no content came between it and the end.          *)
StepBoundaryCompletes ==
    FinishError = "none" /\ terminalKind = "finish-step" =>
        \A i \in DOMAIN applied :
            applied[i].type \in DeltaTypes \cup {"tool-call"} =>
                \E j \in HeededTerminals : i < j
=============================================================================
