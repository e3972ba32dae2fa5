----------------------------- MODULE MCPipeline -----------------------------
(* A small instance of Pipeline: a text, a call, one that Apply refuses and *)
(* a terminal that claims calls, on every kind of line.                     *)
EXTENDS Pipeline

CONSTANTS t, i, o

hello == [type |-> "text-delta", text |-> t]
call == [type |-> "tool-call", id |-> i, input |-> o, args |-> "absent"]
badCall == [call EXCEPT !.input = "array"]
end == [type |-> "finish", reason |-> "tool_use", usage |-> NoUsage, totalUsage |-> NoUsage]
mcNull == [type |-> "unknown"]
mcDocs == {hello, call, badCall, end}
mcEvents == mcDocs \cup {mcNull}
mcRefused == {badCall}
line(kind, part, doc) == [kind |-> kind, piece |-> [part |-> part, doc |-> doc]]

mcLines ==
    {Blank, [kind |-> "field", piece |-> Space], [kind |-> "data", piece |-> Space]}
    \cup {line("data", part, hello) : part \in {"whole", "head", "tail"}}
    \cup {line("bare", part, hello) : part \in {"whole", "head"}}
    \cup {line(kind, "whole", doc) : kind \in {"data", "bare"}, doc \in {call, end}}
    \cup {line("data", "whole", badCall)}
    \cup {line(kind, part, NoDoc) : kind \in {"data", "bare"}, part \in {"done", "junk"}}
    \cup {line("bare", part, NoDoc) : part \in {"null", "scalar"}}
=============================================================================
