--------------------------- MODULE ModelMessages ---------------------------
(***************************************************************************)
(* What the gateway accepts as params.messages, by                         *)
(* adapters/pi/docs/wire-protocol.md:103-133, and how a conversion may put *)
(* it together: it only ever adds to the end, and once the list is sealed  *)
(* it does not change.  "Consecutive tool results merge into one           *)
(* role:"tool" message."                                                   *)
(***************************************************************************)
EXTENDS Integers, Sequences

VARIABLES messages, sealed

PartTypes == [user |-> {"text", "image"}, assistant |-> {"text", "tool-call"}, tool |-> {"tool-result"}]

WellFormed(m) ==
    /\ m.role \in DOMAIN PartTypes
    /\ \A k \in DOMAIN m.content : m.content[k].type \in PartTypes[m.role]
    /\ m.role # "user" => m.content # <<>>

Init == messages = <<>> /\ sealed = FALSE

Final == messages'[Len(messages')]

AddMessage ==
    /\ ~sealed /\ UNCHANGED sealed
    /\ Len(messages') = Len(messages) + 1
    /\ messages' = Append(messages, Final)
    /\ WellFormed(Final)
    /\ Final.role = "tool" => messages = <<>> \/ messages[Len(messages)].role # "tool"

ExtendResults ==
    /\ ~sealed /\ UNCHANGED sealed
    /\ messages # <<>> /\ messages[Len(messages)].role = "tool"
    /\ Len(messages') = Len(messages) /\ WellFormed(Final)
    /\ messages' = [messages EXCEPT ![Len(messages)].content =
                        Append(@, Final.content[Len(Final.content)])]

Seal == ~sealed /\ sealed' = TRUE /\ UNCHANGED messages

Next == AddMessage \/ ExtendResults \/ Seal
Spec == Init /\ [][Next]_<<messages, sealed>>
=============================================================================
