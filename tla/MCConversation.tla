--------------------------- MODULE MCConversation ---------------------------
(* A small instance of Conversation: two ids, each of them used under two   *)
(* names, every kind of content, and one message of each kind that cannot   *)
(* be converted.                                                            *)
EXTENDS Conversation

CONSTANTS a, b, hello, f, g, empty, o1, png

Str(text) == [kind |-> "string", text |-> text]
Parts(parts) == [kind |-> "parts", parts |-> parts]
TextPt(type, text) == [type |-> type, text |-> text]
Image(url) == [type |-> "image", url |-> url]
mcCall(id, name, arguments) == [id |-> id, name |-> name, arguments |-> arguments]
User_(content) == [role |-> "user", content |-> content]
Assistant_(content, calls) == [role |-> "assistant", content |-> content, calls |-> calls]
Tool_(id, name) == [role |-> "tool", content |-> Str(<<hello>>), id |-> id, name |-> name]
Absent == [kind |-> "absent"]

mcMessages ==
    {[role |-> "system", content |-> Parts(<<TextPt("output_text", <<hello>>), [type |-> "other"]>>)],
     [role |-> "system", content |-> Absent],
     User_(Str(<<>>)), User_(Absent),
     User_(Parts(<<TextPt("output_text", <<hello>>), Image([data |-> TRUE, mediaType |-> ""]),
                   TextPt("text", <<hello>>), TextPt("text", <<>>), Image(NoUrl)>>)),
     User_(Parts(<<Image([data |-> FALSE, mediaType |-> ""])>>)), User_([kind |-> "invalid"]),
     Assistant_(Str(<<hello>>), <<mcCall(a, f, ""), mcCall(b, g, o1)>>), Assistant_(Absent, <<>>),
     Assistant_(Absent, <<mcCall(b, f, "null")>>), Assistant_(Str(<<>>), <<mcCall(a, "", o1)>>),
     Assistant_(Absent, <<mcCall(a, f, o1), mcCall(b, g, "scalar")>>),
     Assistant_(Parts(<<TextPt("text", <<hello>>), Image([data |-> FALSE, mediaType |-> ""])>>), <<>>),
     Tool_(a, ""), Tool_(b, ""), Tool_(a, g), [role |-> "tool", content |-> [kind |-> "invalid"], id |-> a, name |-> ""],
     [role |-> "other", content |-> Absent]}
mcTools == {[type |-> "function", name |-> f, parameters |-> o1], [type |-> "", name |-> g, parameters |-> "null"],
            [type |-> "function", name |-> "", parameters |-> "invalid"],
            [type |-> "other", name |-> f, parameters |-> "absent"],
            [type |-> "", name |-> f, parameters |-> "invalid"],
            [type |-> "function", name |-> f, parameters |-> "absent"]}
mcLimits == {-1, 0, 5}

mcToolCall(id, name, arguments) == [type |-> "toolCall", id |-> id, name |-> name, arguments |-> arguments]
mcResult(id, name, texts, isError) ==
    [role |-> "toolResult", id |-> id, toolName |-> name, texts |-> texts, isError |-> isError]
mcPiMessages ==
    {[role |-> "user", text |-> <<>>], [role |-> "user", blocks |-> <<>>],
     [role |-> "user", blocks |-> <<TextPt("text", <<hello>>), [type |-> "image", mediaType |-> png]>>],
     [role |-> "assistant", blocks |-> <<[type |-> "thinking"]>>],
     [role |-> "assistant", blocks |-> <<mcToolCall(a, f, o1), TextPt("text", <<hello>>), mcToolCall(b, g, "null")>>],
     [role |-> "assistant", blocks |-> <<TextPt("text", <<>>), mcToolCall(a, "", "array")>>],
     [role |-> "assistant", blocks |-> <<mcToolCall(b, f, o1)>>],
     mcResult(a, Missing, <<<<hello>>, <<hello>>>>, FALSE), mcResult(b, g, <<>>, TRUE)}

mcTurns ==
    {[by |-> "user", text |-> <<hello>>, images |-> <<>>], [by |-> "user", text |-> <<hello>>, images |-> <<png>>],
     [by |-> "assistant", text |-> <<>>, calls |-> <<>>], [by |-> "assistant", text |-> <<hello>>, calls |-> <<>>],
     [by |-> "assistant", text |-> <<hello>>, calls |-> <<mcCall(a, f, o1), mcCall(a, g, empty)>>],
     [by |-> "assistant", text |-> <<>>, calls |-> <<mcCall(b, f, empty)>>],
     [by |-> "tool", id |-> a, toolName |-> f, text |-> <<hello>>],
     [by |-> "tool", id |-> b, toolName |-> g, text |-> <<>>]}
=============================================================================
