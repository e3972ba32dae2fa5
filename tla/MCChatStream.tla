---------------------------- MODULE MCChatStream ----------------------------
(* A small instance of ChatStream: one id, a call and a second call with    *)
(* the same id, one invalid call, three kinds of terminal event.            *)
EXTENDS ChatStream

CONSTANTS a, hello, o1, o2

mcIds == {a}
mcTexts == {hello}
mcObjects == {o1, o2}
mcUsage == [input |-> 1, output |-> 2, total |-> 0, cached |-> 0, cacheRead |-> 1]

mcCalls == {[type |-> "tool-call", id |-> a, input |-> o1, args |-> "absent"],
            [type |-> "tool-call", id |-> a, input |-> o2, args |-> "absent"],
            [type |-> "tool-call", id |-> "", input |-> "array", args |-> "absent"]}
mcTerminals == {[type |-> "finish", reason |-> "stop", usage |-> mcUsage, totalUsage |-> NoUsage],
                [type |-> "finish-step", reason |-> "length", usage |-> NoUsage, totalUsage |-> NoUsage],
                [type |-> "finish", reason |-> "tool_use", usage |-> NoUsage, totalUsage |-> NoUsage]}
mcEvents == mcCalls \cup mcTerminals
    \cup {[type |-> "text-delta", text |-> hello], [type |-> "reasoning-delta", text |-> ""],
          [type |-> "tool-input-end"], [type |-> "abort"]}
=============================================================================
