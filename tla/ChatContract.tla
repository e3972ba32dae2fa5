---------------------------- MODULE ChatContract ----------------------------
(***************************************************************************)
(* What a client of POST /v1/chat/completions may rely on, whatever the    *)
(* upstream does: the reply is one JSON document, an error or a            *)
(* completion; or it is a stream that opens with the role, carries         *)
(* content and tool calls numbered from 0 without gaps or repeated ids,    *)
(* and ends either with a finish reason that fits that content followed by *)
(* [DONE], or with an error and no [DONE].                                 *)
(***************************************************************************)
EXTENDS Integers, Sequences

CONSTANT ToolIds

VARIABLES
    status,  \* the HTTP status sent, 0 before
    out      \* what the body holds so far, without payloads

contractVars == <<status, out>>

Kinds == {out[k].kind : k \in DOMAIN out}
Streaming == out # <<>> /\ out[1].kind = "role" /\ Kinds \cap {"final", "done", "error"} = {}
ToolIdsSent == {out[k].id : k \in {j \in DOMAIN out : out[j].kind = "tool"}}

ToolsSent == {k \in DOMAIN out : out[k].kind = "tool"}

ContractInit == status = 0 /\ out = <<>>

Refuse ==
    /\ status = 0
    /\ status' \in 400..599
    /\ out' = <<[kind |-> "json_error"]>>

AnswerWhole ==
    /\ status = 0
    /\ status' = 200
    /\ out' = <<[kind |-> "completion"]>>

Open ==
    /\ status = 0
    /\ status' = 200
    /\ out' = <<[kind |-> "role"]>>

Extend(chunk) == Streaming /\ out' = Append(out, chunk) /\ UNCHANGED status

Content == \E kind \in {"text", "reasoning"} : Extend([kind |-> kind])

(* The next index is the number of tool calls sent before.                  *)
Call == \E id \in ToolIds \ ToolIdsSent, index \in 0..Len(out) :
            /\ Extend([kind |-> "tool", id |-> id, index |-> index])
            /\ {out[k].index : k \in ToolsSent} = 0..(index - 1)

Final == \E reason \in {"stop", "length", "tool_calls"} :
            /\ reason = "tool_calls" => ToolsSent # {}
            /\ reason = "stop" => ToolsSent = {}
            /\ Extend([kind |-> "final", reason |-> reason])

Done ==
    /\ out # <<>> /\ out[Len(out)].kind = "final"
    /\ out' = Append(out, [kind |-> "done"])
    /\ UNCHANGED status

Break == Extend([kind |-> "error"])

ContractNext == Refuse \/ AnswerWhole \/ Open \/ Content \/ Call \/ Final \/ Done \/ Break

Contract == ContractInit /\ [][ContractNext]_contractVars
=============================================================================
