---------------------------- MODULE MCPiAdapter ----------------------------
(* A small instance of PiAdapter.  Two ids, x used by blocks of every kind; *)
(* open, close and seven stand for the pieces {"a":7 and } and 7.           *)
EXTENDS PiAdapter

CONSTANTS x, y, hello, open, close, seven, empty, o1, o2

mcDocuments == {[text |-> <<open, close>>, value |-> o1],
                [text |-> <<open, seven, close>>, value |-> o2],
                [text |-> <<seven>>, value |-> "scalar"],
                [text |-> <<seven, seven>>, value |-> "scalar"],
                [text |-> <<seven, seven, seven>>, value |-> "scalar"]}

mcUsage == [input |-> 3, output |-> 2, cached |-> 1]
mcOverCached == [input |-> 1, output |-> 1, cached |-> 2]
Tool(type, id, input, args) == [type |-> type, id |-> id, input |-> input, args |-> args]
Finish_(type, reason, u) == [type |-> type, reason |-> reason, usage |-> u]

mcBlocks == {[type |-> "reasoning-start", id |-> x], [type |-> "text-start", id |-> x],
             [type |-> "text-delta", id |-> x, text |-> hello],
             [type |-> "reasoning-delta", id |-> x, text |-> ""],
             [type |-> "text-end", id |-> x]}
mcTools == {[type |-> "tool-input-start", id |-> x], [type |-> "tool-input-start", id |-> y],
            [type |-> "tool-input-delta", id |-> x, delta |-> open],
            [type |-> "tool-input-delta", id |-> x, delta |-> close],
            [type |-> "tool-input-delta", id |-> x, delta |-> seven],
            Tool("tool-input-end", x, "absent", "absent"),
            Tool("tool-call", x, o1, "absent"), Tool("tool-call", x, "null", o2),
            Tool("tool-call", y, "array", "absent"), Tool("tool-call", NoId, o1, "absent")}
mcTerminals == {Finish_("finish", "stop", mcUsage), Finish_("finish-step", "", mcOverCached),
                Finish_("finish", "tool_use", NoUsage), Finish_("finish", "length", NoUsage)}
mcEvents == mcBlocks \cup mcTools \cup mcTerminals
    \cup {[type |-> "error"], [type |-> "abort"]}

(* Without events that only repeat what others show, for longer streams.    *)
mcCoreEvents == mcEvents \
    {[type |-> "abort"], [type |-> "reasoning-delta", id |-> x, text |-> ""],
     Tool("tool-call", x, "null", o2), Tool("tool-call", NoId, o1, "absent")}
=============================================================================
