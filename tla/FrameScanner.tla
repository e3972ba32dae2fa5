---------------------------- MODULE FrameScanner ----------------------------
(***************************************************************************)
(* The frame decoder, internal/protocol/decode.go: ScanFrames under        *)
(* ScanEvents, one step per line of the body.  It takes bare NDJSON, SSE   *)
(* groups with several data: lines, both mixed, and a last line without a  *)
(* newline.                                                                *)
(*                                                                         *)
(* A line is abstracted to its kind and the piece of JSON text it carries. *)
(* The lines of one group are joined before they are parsed, so a document *)
(* may come as a head on one data: line and its tail on the next.          *)
(***************************************************************************)
EXTENDS Integers, Sequences, FiniteSets, History

CONSTANTS
    Docs,      \* JSON objects the upstream sends
    NoDoc,     \* the doc of a piece that belongs to no object
    NullEvent, \* the event with an empty type that the document null decodes to
    Refused,   \* the events for which the callback returns an error
    Lines,     \* the lines the body may consist of
    MaxLines   \* bound on the lines read

(* "space" is blank text; "null" and "scalar" are JSON but no objects.      *)
Piece == [part : {"whole", "head", "tail"}, doc : Docs]
         \cup [part : {"space", "done", "junk", "null", "scalar"}, doc : {NoDoc}]
Space == [part |-> "space", doc |-> NoDoc]

(* "field" is event:, id:, retry: or a comment; "blank" is empty or white.  *)
Line == [kind : {"data"}, piece : Piece]
        \cup [kind : {"bare"}, piece : Piece \ {Space}]
        \cup [kind : {"field", "blank"}, piece : {Space}]
Blank == [kind |-> "blank", piece |-> Space]

ASSUME LinesAssumption == Lines \subseteq Line
ASSUME NullEventAssumption == NullEvent \notin Docs
ASSUME RefusedAssumption == Refused \subseteq Docs \cup {NullEvent}
ASSUME MaxLinesAssumption == MaxLines \in Nat

VARIABLES
    sseData, inSSE,  \* the locals of ScanFrames
    delivered,       \* events the callback of ScanEvents was called with
    status,          \* "scanning", or how ScanFrames returned
    input,           \* history: the lines read
    eof              \* history: the last of them ended at EOF, without a newline

vars == <<sseData, inSSE, delivered, status, input, eof>>

Init ==
    /\ sseData = <<>> /\ inSSE = FALSE
    /\ delivered = <<>> /\ status = "scanning"
    /\ input = <<>> /\ eof = FALSE

-----------------------------------------------------------------------------
(* emitPayload, DecodeEvent and the callback on a joined payload.           *)

IsSSEField(line) == line.kind \in {"data", "field"}

Joined(pieces) == Kept(pieces, {k \in DOMAIN pieces : pieces[k] # Space})

IsDocument(pieces, d) ==
    \/ pieces = <<[part |-> "whole", doc |-> d]>>
    \/ pieces = <<[part |-> "head", doc |-> d], [part |-> "tail", doc |-> d]>>

(* What a payload decodes to: the set of the event it is, if it is one.     *)
EventsOf(pieces) ==
    {d \in Docs : IsDocument(pieces, d)}
    \cup (IF pieces = <<[part |-> "null", doc |-> NoDoc]>> THEN {NullEvent} ELSE {})
IsSilent(pieces) == pieces \in {<<>>, <<[part |-> "done", doc |-> NoDoc]>>}

(* state.status stops at the first error; what follows is not emitted.      *)
Emit(state, payload) ==
    LET pieces == Joined(payload)
        event == CHOOSE e \in EventsOf(pieces) : TRUE
    IN  CASE state.status # "scanning" \/ IsSilent(pieces) -> state
          [] state.status = "scanning" /\ ~IsSilent(pieces) /\ EventsOf(pieces) = {} ->
                [state EXCEPT !.status = "malformed"]
          [] OTHER ->
                [delivered |-> Append(state.delivered, event),
                 status |-> IF event \in Refused THEN "refused" ELSE "scanning"]

Now == [delivered |-> delivered, status |-> status]
Become(state) == delivered' = state.delivered /\ status' = state.status
EndOfBody(state) == [state EXCEPT !.status = IF @ = "scanning" THEN "ended" ELSE @]

-----------------------------------------------------------------------------
(* One turn of the loop for a line that ends with a newline.                *)

Read(line, atEof) ==
    /\ status = "scanning" /\ Len(input) < MaxLines
    /\ input' = Append(input, line) /\ eof' = atEof

(* In a group every line that is not blank and not data: is passed over.    *)
InGroup(line) ==
    /\ Read(line, FALSE)
    /\ inSSE \/ IsSSEField(line)
    /\ line.kind # "blank"
    /\ inSSE' = TRUE
    /\ sseData' = IF line.kind = "data" THEN Append(sseData, line.piece) ELSE sseData
    /\ UNCHANGED <<delivered, status>>

BugDataKeptAfterFlush(line) ==
    /\ Read(line, FALSE)
    /\ inSSE /\ line.kind = "blank"
    /\ Become(Emit(Now, sseData))
    /\ inSSE' = FALSE
    /\ UNCHANGED sseData
EndOfGroup(line) ==
    /\ Read(line, FALSE)
    /\ inSSE /\ line.kind = "blank"
    /\ Become(Emit(Now, sseData))
    /\ sseData' = <<>> /\ inSSE' = FALSE

BareLine(line) ==
    /\ Read(line, FALSE)
    /\ ~inSSE /\ ~IsSSEField(line)
    /\ Become(Emit(Now, <<line.piece>>))
    /\ UNCHANGED <<sseData, inSSE>>

(* The turn that reads EOF, with what follows the last newline.  A group is *)
(* flushed first; a bare line after its data: lines is emitted on its own.  *)
BugGroupNeedsBlankLine(line) ==
    /\ Read(line, TRUE)
    /\ inSSE \/ IsSSEField(line)
    /\ inSSE' = TRUE
    /\ sseData' = IF line.kind = "data" THEN Append(sseData, line.piece) ELSE sseData
    /\ Become(EndOfBody(Now))
BugLastLineNeedsNewline(line) ==
    /\ Read(line, TRUE)
    /\ inSSE \/ IsSSEField(line)
    /\ LET group == IF line.kind = "data" THEN Append(sseData, line.piece) ELSE sseData
       IN  Become(EndOfBody(Emit(Now, group)))
    /\ sseData' = <<>> /\ inSSE' = FALSE
LastLineInGroup(line) ==
    /\ Read(line, TRUE)
    /\ inSSE \/ IsSSEField(line)
    /\ LET group == IF line.kind = "data" THEN Append(sseData, line.piece) ELSE sseData
           tail == IF line.kind = "bare" THEN <<line.piece>> ELSE <<>>
       IN  Become(EndOfBody(Emit(Emit(Now, group), tail)))
    /\ sseData' = <<>> /\ inSSE' = FALSE

LastBareLine(line) ==
    /\ Read(line, TRUE)
    /\ ~inSSE /\ ~IsSSEField(line)
    /\ Become(EndOfBody(Emit(Now, <<line.piece>>)))
    /\ UNCHANGED <<sseData, inSSE>>

(* The body breaks off: what was gathered is dropped.                       *)
ReadError ==
    /\ status = "scanning"
    /\ status' = "read_error"
    /\ UNCHANGED <<sseData, inSSE, delivered, input, eof>>

(* ScanFrames has returned.                                                 *)
Stopped == status # "scanning" /\ UNCHANGED vars

Next ==
    \/ \E line \in Lines : InGroup(line) \/ EndOfGroup(line) \/ BareLine(line)
    \/ \E line \in Lines \cup {Blank} : LastLineInGroup(line) \/ LastBareLine(line)
    \/ ReadError
    \/ Stopped

Spec == Init /\ [][Next]_vars

-----------------------------------------------------------------------------
(* The frames of a body, read off its lines without a decoder's state.      *)

(* Line i belongs to an SSE group: a field line opened one at or before it  *)
(* and no blank line has closed that one yet.                               *)
Grouped(i) ==
    \E j \in 1..i : IsSSEField(input[j]) /\ \A k \in j..(i - 1) : input[k].kind # "blank"

DataUpTo(i) ==
    Kept([j \in DOMAIN input |-> input[j].piece],
         {j \in 1..i : input[j].kind = "data" /\ \A k \in j..(i - 1) : input[k].kind # "blank"})

(* A payload may end with each line, that of its group or its own; and at   *)
(* EOF the group that is still open, and then the last line by itself.      *)
Payloads ==
    [i \in DOMAIN input |-> IF input[i].kind = "blank" THEN DataUpTo(i) ELSE <<input[i].piece>>]
    \o (IF eof THEN <<DataUpTo(Len(input)), <<input[Len(input)].piece>>>> ELSE <<>>)
IsPayload(i) ==
    LET end == Len(input)
    IN  \/ i <= end /\ input[i].kind = (IF Grouped(i) THEN "blank" ELSE "bare")
        \/ i = end + 1 /\ Grouped(end) /\ input[end].kind # "blank"
        \/ i = end + 2 /\ Grouped(end) /\ input[end].kind = "bare"

Frames == Kept(Payloads, {i \in DOMAIN Payloads : IsPayload(i) /\ ~IsSilent(Joined(Payloads[i]))})
IsBad(k) == EventsOf(Joined(Frames[k])) = {}
IsRefused(k) == EventsOf(Joined(Frames[k])) \cap Refused # {}
Stops == {k \in DOMAIN Frames : IsBad(k) \/ IsRefused(k)}

(* Types; data gathered from data: lines never outlives its group.          *)
TypeOK ==
    /\ sseData \in Seq(Piece) /\ inSSE \in BOOLEAN
    /\ sseData # <<>> => inSSE
    /\ delivered \in Seq(Docs \cup {NullEvent})
    /\ status \in {"scanning", "ended", "malformed", "refused", "read_error"}
    /\ input \in Seq(Lines \cup {Blank}) /\ eof \in BOOLEAN
    /\ status = "ended" => eof

(* The callback sees the events of the body's frames, in order, each once,  *)
(* and none after the first frame that is malformed or that it refuses; and *)
(* that frame alone decides how the scan ends.                              *)
DeliversFrames ==
    /\ Stops = {} =>
          /\ Len(delivered) = Len(Frames)
          /\ status \in {"scanning", "ended", "read_error"}
    /\ \A k \in DOMAIN delivered : EventsOf(Joined(Frames[k])) = {delivered[k]}
    /\ \A k \in Stops : (\A l \in Stops : k <= l) =>
          /\ status = (IF IsBad(k) THEN "malformed" ELSE "refused")
          /\ Len(delivered) = (IF IsBad(k) THEN k - 1 ELSE k)
=============================================================================
