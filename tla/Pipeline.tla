------------------------------ MODULE Pipeline ------------------------------
(***************************************************************************)
(* Reduce of internal/protocol/reduce.go: the frame decoder calls back for *)
(* each event of a body, the callback applies it to a reducer and passes   *)
(* its error to the decoder, and a scan that ends without one is finished. *)
(* The documents of the body are the events themselves.                    *)
(*                                                                         *)
(* An event is applied as soon as it is delivered: a turn of ScanFrames    *)
(* waits for its callbacks, of which the last turn may make two.           *)
(***************************************************************************)
EXTENDS FrameScanner, Reducer

ASSUME DocsAssumption == Docs \cup {NullEvent} = Events
ASSUME NullAssumption == NullEvent = [type |-> "unknown"]

(* Apply returns an error for these, whatever came before: of the events    *)
(* that follow one of them none is delivered.                               *)
ASSUME RefusedAreFailures == Refused = {e \in Events : Fails(e)}

pipelineVars == <<vars, reducerVars>>

PipelineInit == Init /\ NewReducer

Scan == applied = delivered /\ Next /\ UNCHANGED reducerVars
Callback ==
    /\ Len(applied) < Len(delivered)
    /\ Apply(delivered[Len(applied) + 1])
    /\ UNCHANGED vars

PipelineNext == Scan \/ Callback
PipelineSpec == PipelineInit /\ [][PipelineNext]_pipelineVars

(* What Reduce returns: an error of the scan, of a callback or of Finish.   *)
Returned == status # "scanning" /\ applied = delivered
ReduceError ==
    CASE status = "ended" -> FinishError
      [] status = "refused" -> err
      [] OTHER -> status

-----------------------------------------------------------------------------
(* The documents that the lines of the body carry, in order.  Bare lines    *)
(* inside an SSE group do not count: the SSE format says to ignore them.    *)
IgnoredLines == {i \in DOMAIN input : input[i].kind = "bare" /\ Grouped(i) /\ ~(eof /\ i = Len(input))}
BodyLines == {i \in DOMAIN input \ IgnoredLines : input[i].piece.part \in {"whole", "head"}}
BodyDocs == Kept([i \in DOMAIN input |-> input[i].piece.doc], BodyLines)
BodyTexts(type) ==
    LET deltas == Kept(BodyDocs, {k \in DOMAIN BodyDocs :
                                     BodyDocs[k].type = type /\ BodyDocs[k].text # ""})
    IN  [k \in DOMAIN deltas |-> deltas[k].text]

(* A body is answered with what its lines carry, and with success exactly   *)
(* when it was read to its end and they earned it: no document is forgotten *)
(* at EOF, cut in two or taken twice (decode.go:78-86), and a document that *)
(* Apply refuses, or a line that is none, fails the answer as a whole       *)
(* (reduce.go:69-79, protocol/README.md:38-43).                             *)
AnswerIsOfTheBody ==
    LET terminals == {k \in DOMAIN BodyDocs : IsTerminal(BodyDocs[k])}
        calls == {k \in DOMAIN BodyDocs : BodyDocs[k].type = "tool-call"}
        claims == \E k \in terminals : (\A l \in terminals : l <= k) /\ BodyDocs[k].reason \in ToolCallReasons
    IN  Returned =>
          /\ ReduceError = "none" <=>
                status = "ended" /\ terminals # {} /\ (claims => calls # {})
          /\ status = "refused" => err # "none"
          /\ status = "ended" =>
                /\ \A k \in DOMAIN BodyDocs : ~Fails(BodyDocs[k])
                /\ text = BodyTexts("text-delta") /\ reasoning = BodyTexts("reasoning-delta")
                /\ {tools[k].id : k \in DOMAIN tools} = {ToolOf(BodyDocs[k]).id : k \in calls}
=============================================================================
