-------------------------- MODULE AssistantStream --------------------------
(***************************************************************************)
(* What Pi may rely on in the event stream of one assistant message,       *)
(* whatever the gateway sends: the stream opens with "start", content      *)
(* blocks open in the order of their index, deltas and ends belong to an   *)
(* open block of their own kind, a tool call ends at most once, and one    *)
(* "done" or "error" closes it all.                                        *)
(***************************************************************************)
EXTENDS Integers, Sequences

VARIABLE pushed  \* the events pushed so far, without payloads

Kinds == {"thinking", "text", "toolCall"}
Reasons == {"stop", "length", "toolUse"}

At(step) == {k \in DOMAIN pushed : pushed[k].step = step}
Taken(index) == \E k \in At("block_start") : pushed[k].index = index
IsNext(index) == ~Taken(index) /\ \A i \in 0..(index - 1) : Taken(i)
IsOpen(kind, index) == \E k \in At("block_start") : pushed[k].kind = kind /\ pushed[k].index = index
Ended(index) == \E k \in At("block_end") : pushed[k].index = index
Flowing == pushed # <<>> /\ pushed[1].step = "start" /\ At("done") \cup At("error") = {}

Block(step, kind, index) == [step |-> step, kind |-> kind, index |-> index]

StreamInit == pushed = <<>>

Begin == pushed = <<>> /\ pushed' = <<[step |-> "start"]>>

Open == \E kind \in Kinds, index \in 0..Len(pushed) :
           /\ Flowing /\ IsNext(index)
           /\ pushed' = Append(pushed, Block("block_start", kind, index))

Delta == \E kind \in Kinds, index \in 0..Len(pushed) :
            /\ Flowing /\ IsOpen(kind, index)
            /\ pushed' = Append(pushed, Block("block_delta", kind, index))

End == \E kind \in Kinds, index \in 0..Len(pushed) :
          /\ Flowing /\ IsOpen(kind, index)
          /\ kind = "toolCall" => ~Ended(index)
          /\ pushed' = Append(pushed, Block("block_end", kind, index))

(* A tool call that was not announced opens and ends at once.               *)
WholeCall == \E index \in 0..Len(pushed) :
                /\ Flowing /\ IsNext(index)
                /\ pushed' = pushed \o <<Block("block_start", "toolCall", index),
                                         Block("block_end", "toolCall", index)>>

Done == \E reason \in Reasons :
           Flowing /\ pushed' = Append(pushed, [step |-> "done", reason |-> reason])

(* Also before "start": the call was refused for want of a key.             *)
Fail == \E reason \in {"error", "aborted"} :
           /\ pushed = <<>> \/ Flowing
           /\ pushed' = Append(pushed, [step |-> "error", reason |-> reason])

StreamNext == Begin \/ Open \/ Delta \/ End \/ WholeCall \/ Done \/ Fail

StreamSpec == StreamInit /\ [][StreamNext]_pushed
=============================================================================
