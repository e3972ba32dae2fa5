----------------------------- MODULE MCReducer -----------------------------
(* A small instance of Reducer: two ids, one piece of text, two argument    *)
(* objects, and one event for each case the reducer tells apart.            *)
EXTENDS Reducer

CONSTANTS a, b, hello, o1, o2

mcIds == {a, b}
mcTexts == {hello}
mcObjects == {o1, o2}

usage1 == [input |-> 1, output |-> 2, total |-> 0, cached |-> 0, cacheRead |-> 1]
usage2 == [input |-> 2, output |-> 2, total |-> 9, cached |-> 3, cacheRead |-> 1]

call(id, input, args) == [type |-> "tool-call", id |-> id, input |-> input, args |-> args]
finish(type, reason, use, total) ==
    [type |-> type, reason |-> reason, usage |-> use, totalUsage |-> total]

mcEvents ==
    {[type |-> "text-delta", text |-> hello], [type |-> "text-delta", text |-> ""],
     [type |-> "reasoning-delta", text |-> hello]}
    \cup {[type |-> t] : t \in {"tool-input-end", "unknown", "abort", "error"}}
    \cup {call(a, o1, "absent"), call(a, o2, "absent"), call(b, "null", o2),
          call("", o1, "absent"), call(b, "scalar", "array")}
    \cup {finish("finish-step", "length", NoUsage, NoUsage),
          finish("finish-step", "tool-calls", usage1, NoUsage),
          finish("finish-step", "", NoUsage, usage1),
          finish("finish", "stop", usage2, usage1),
          finish("finish", "tool_use", NoUsage, NoUsage),
          finish("finish", "other", NoUsage, NoUsage)}
=============================================================================
