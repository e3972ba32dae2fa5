-------------------------- MODULE GatewayMessages --------------------------
(***************************************************************************)
(* What the two conversions of a request have in common: the parts and     *)
(* messages of params.messages (Vercel AI SDK ModelMessage, as             *)
(* adapters/pi/docs/wire-protocol.md describes it), and how a tool result  *)
(* joins them.  The Proxy builds them in internal/openai/convert.go, the   *)
(* Adapter in convertMessages of adapters/pi/src/index.ts.                 *)
(*                                                                         *)
(* A text is a sequence of opaque pieces, <<>> the empty one.  A URL of an *)
(* image says whether it is a data: URL and which media type it names.     *)
(***************************************************************************)
EXTENDS Integers, Sequences, SequencesExt

CONSTANTS
    Pieces,      \* pieces of text
    Ids,         \* ids of tool calls; "" is a missing one
    Names,       \* names of tools; "" is a missing or blank one
    Objects,     \* JSON objects
    EmptyObject, \* {}, one of them
    MediaTypes   \* media types of images, in lower case as mime.ParseMediaType has them

ASSUME ObjectsAssumption == EmptyObject \in Objects /\ Objects \cap {"", "null", "scalar", "array", "malformed"} = {}
ASSUME BlanksAssumption == "" \notin MediaTypes \cup Names

Url == [data : BOOLEAN, mediaType : MediaTypes \cup {""}]

TextPart(text) == [type |-> "text", text |-> text]
ImagePart(url) == [type |-> "image", image |-> url]
CallPart(id, name, input) ==
    [type |-> "tool-call", toolCallId |-> id, toolName |-> name, input |-> input]
ResultPart(id, name, kind, text) ==
    [type |-> "tool-result", toolCallId |-> id, toolName |-> name,
     output |-> [type |-> kind, value |-> text]]

Message(role, content) == [role |-> role, content |-> content]

(* Both programs look at the last message they have written, not at the     *)
(* last one they have read: what leaves no message behind parts no results. *)
BugNeverMerges(messages, result) == Append(messages, Message("tool", <<result>>))
AddResult(messages, result) ==
    IF messages # <<>> /\ Last(messages).role = "tool"
    THEN [messages EXCEPT ![Len(messages)].content = Append(@, result)]
    ELSE Append(messages, Message("tool", <<result>>))

(* What every element of seq gives, one after the other.                    *)
OfEach(F(_), seq) == FlattenSeq([k \in DOMAIN seq |-> F(seq[k])])
PartsOf(messages) == OfEach(LAMBDA m : m.content, messages)
=============================================================================
