-------------------------- MODULE ChatStreamProofs --------------------------
(***************************************************************************)
(* Proofs about ChatStream for every set of events, every bound and every  *)
(* set of upstream statuses.                                               *)
(***************************************************************************)
EXTENDS ChatStream, ReducerProofs

(* The request is decoded, sent and answered before the reducer is used.    *)
Early == {"received", "authorized", "calling", "waiting", "rejected", "opening"}
Scanning == {"scanning", "taken", "checked"}
Ended == {"ended", "final"}

(* How far the body is read and applied in each phase.                      *)
Progress ==
    /\ phase \in Early => NewReducer /\ read = 0
    /\ phase \in {"scanning"} \cup Ended => read = Len(applied)
    /\ phase \in {"taken", "checked"} => read = Len(applied) + 1 /\ sent[read] \in Events
    /\ phase \in Scanning \cup Ended => err = "none"
    /\ phase \in Ended => bodyEnd = "eof" /\ read = Len(sent)

(* What has been written of the reply in each phase.                        *)
ReplyInv ==
    /\ phase \in Early => status = 0 /\ out = <<>>
    /\ phase \in Scanning \cup {"ended"} =>
          IF request.stream THEN status = 200 ELSE status = 0 /\ out = <<>>
    /\ phase = "final" => request.stream /\ status = 200 /\ FinishError = "none"

(* Who may get the upstream called, and that it is called once.             *)
CallInv ==
    /\ phase \in {"received", "authorized", "calling"} => calls = 0
    /\ phase = "authorized" => request.authorized
    /\ phase = "calling" \/ calls = 1 => request.authorized /\ request.body = "valid"

(* A stream's event is applied late only if the context was still good when *)
(* it was checked.                                                          *)
LateInv ==
    /\ late > 0 => cancelled
    /\ request.stream => late <= 1
    /\ request.stream /\ phase = "checked" => late = 0

ChatInv == ReducerInv /\ ChatTypeOK /\ Progress /\ ReplyInv /\ CallInv /\ LateInv

-----------------------------------------------------------------------------
(* The handler drives one reducer.                                          *)

(* Only ApplyEvent touches the reducer, and it applies an event.            *)
LEMMA ChatStepReduces ==
    Progress /\ [ChatNext]_chatVars => [ReducerNext]_reducerVars
<1> SUFFICES ASSUME Progress, [ChatNext]_chatVars
             PROVE  [ReducerNext]_reducerVars
  OBVIOUS
<1>1. CASE ApplyEvent
  BY <1>1 DEF ApplyEvent, Progress, ReducerNext
<1>2. CASE UNCHANGED chatVars
  BY <1>2 DEF chatVars
<1>3. CASE Environment
  BY <1>3 DEF Environment, UpstreamAnswers, UpstreamUnreachable, UpstreamSends, UpstreamEnds, ClientLeaves
<1>4. CASE Authenticate \/ ReadRequest \/ CallUpstream \/ PassOnRejection \/ UpstreamUnreachable
  BY <1>4 DEF Authenticate, ReadRequest, CallUpstream, PassOnRejection, UpstreamUnreachable
<1>5. CASE OpenReply \/ TakeEvent \/ TakeMalformed \/ ReadFails \/ EndOfBody \/ CheckContext
  BY <1>5 DEF OpenReply, TakeEvent, TakeMalformed, ReadFails, EndOfBody, CheckContext
<1>6. CASE FinishFails \/ WriteFinal \/ WriteDone
  BY <1>6 DEF FinishFails, WriteFinal, WriteDone
<1> QED BY <1>1, <1>2, <1>3, <1>4, <1>5, <1>6 DEF ChatNext, Handler, Returned

(* An untouched reducer answers as before.                                  *)
LEMMA ReducerKept ==
    ASSUME UNCHANGED reducerVars
    PROVE  /\ NewReducer' <=> NewReducer
           /\ FinishError' = FinishError /\ FinishedReason' = FinishedReason /\ Outcome' = Outcome
           /\ applied' = applied /\ err' = err
BY DEF reducerVars, reducerState, NewReducer, FinishError, FinishedReason, Outcome

(* A request is refused with a status of its own, or valid.                 *)
LEMMA ReadRequestDecides ==
    ASSUME ChatTypeOK, ReadRequest
    PROVE  \/ request.body = "valid" /\ phase' = "calling" /\ UNCHANGED replyVars
           \/ \E code \in 400..599 : Refuse(code)
<1> DEFINE body == request.body
<1>1. body \in Bodies
  BY DEF ChatTypeOK, Request
<1>2. CASE body = "unreadable"
  BY <1>2 DEF ReadRequest
<1>3. CASE body \in {"not_json", "incomplete", "unconvertible"}
  <2>1. body = "not_json" \/ body = "incomplete" \/ body = "unconvertible"
    BY <1>3
  <2>2. Refuse(400)
    BY <2>1, Zenon DEF ReadRequest
  <2> QED BY <2>2
<1>4. CASE body = "unsendable"
  BY <1>4 DEF ReadRequest
<1>5. CASE body = "valid"
  BY <1>5 DEF ReadRequest
<1> QED BY <1>1, <1>2, <1>3, <1>4, <1>5 DEF Bodies

(* Appending to what the upstream sent keeps what was read of it.           *)
LEMMA SentGrows ==
    ASSUME ChatTypeOK, UpstreamSends
    PROVE  /\ sent' \in Seq(Events \cup {Malformed}) /\ Len(sent') = Len(sent) + 1
           /\ \A i \in 1..Len(sent) : sent'[i] = sent[i]
           /\ DOMAIN sent = 1..Len(sent) /\ Len(sent) \in Nat
<1>1. PICK item \in Events \cup {Malformed} : sent' = Append(sent, item)
  BY DEF UpstreamSends
<1>2. sent \in Seq(Events \cup {Malformed})
  BY DEF ChatTypeOK
<1> QED BY <1>1, <1>2, AppendProperties, LenProperties

(* One step keeps the position: everything read was applied, save the event *)
(* at hand.                                                                 *)
LEMMA PositionStep == ReducerInv /\ ChatTypeOK /\ Progress /\ [ChatNext]_chatVars => Progress'
<1> SUFFICES ASSUME ReducerInv, ChatTypeOK, Progress, [ChatNext]_chatVars
             PROVE  Progress'
  OBVIOUS
<1> USE DEF Progress, Early, Scanning, Ended
<1>0. /\ sent \in Seq(Events \cup {Malformed}) /\ Len(sent) \in Nat
      /\ applied \in Seq(Events) /\ Len(applied) \in Nat
      /\ read \in 0..Len(sent)
  BY LenProperties DEF ChatTypeOK, ReducerInv, ReducerTypeOK
<1>1. CASE UNCHANGED chatVars
  BY <1>1, ReducerKept DEF chatVars
<1>2. CASE UpstreamSends
  <2>1. \A i \in 1..Len(sent) : sent'[i] = sent[i]
    BY <1>2, SentGrows
  <2> QED BY <1>0, <1>2, <2>1, ReducerKept DEF UpstreamSends, BodyOpen
<1>3. CASE UpstreamEnds \/ ClientLeaves \/ UpstreamAnswers \/ UpstreamUnreachable
  BY <1>3, ReducerKept DEF UpstreamEnds, ClientLeaves, UpstreamAnswers, UpstreamUnreachable,
                           Refuse, BodyOpen, requestVars, upstreamVars
<1>4. CASE Authenticate \/ ReadRequest \/ CallUpstream \/ PassOnRejection
  <2>1. UNCHANGED <<reducerVars, upstreamVars, read>> /\ phase' \in Early \cup {"closed"}
    BY <1>4, ReadRequestDecides, ZenonT(40)
       DEF Authenticate, ReadRequest, CallUpstream, PassOnRejection, Refuse
  <2>2. phase \in Early
    BY <1>4 DEF Authenticate, ReadRequest, CallUpstream, PassOnRejection
  <2> QED BY <2>1, <2>2, ReducerKept
<1>5. CASE OpenReply
  <2>1. Len(applied) = 0 /\ err = "none"
    BY <1>5, EmptySeq DEF OpenReply, NewReducer
  <2> QED BY <1>5, <2>1 DEF OpenReply, upstreamVars, reducerVars, reducerState
<1>6. CASE TakeEvent
  <2>1. sent[read + 1] \in Events
    BY <1>0, <1>6, ElementOfSeq DEF TakeEvent, HasNext
  <2> QED BY <1>6, <2>1 DEF TakeEvent, upstreamVars, reducerVars, reducerState
<1>7. CASE TakeMalformed \/ ReadFails \/ FinishFails
  BY <1>7 DEF TakeMalformed, ReadFails, FinishFails, Break
<1>8. CASE EndOfBody
  BY <1>0, <1>8 DEF EndOfBody, HasNext, upstreamVars, reducerVars, reducerState
<1>9. CASE CheckContext
  BY <1>9 DEF CheckContext, Break, upstreamVars, reducerVars, reducerState
<1>10. CASE ApplyEvent
  <2>1. CASE err' # "none"
    BY <1>10, <2>1 DEF ApplyEvent, Break
  <2>2. CASE err' = "none"
    <3>1. Len(applied') = Len(applied) + 1
      <4>1. sent[read] \in Events /\ Receive(sent[read])
        BY <1>10, ApplyReceives DEF ApplyEvent
      <4> QED BY <1>0, <4>1, AppendProperties DEF Receive
    <3> QED BY <1>0, <1>10, <2>2, <3>1 DEF ApplyEvent, upstreamVars
  <2> QED BY <2>1, <2>2
<1>11. CASE WriteFinal \/ WriteDone
  BY <1>11 DEF WriteFinal, WriteDone, upstreamVars, reducerVars, reducerState
<1> QED BY <1>1, <1>2, <1>3, <1>4, <1>5, <1>6, <1>7, <1>8, <1>9, <1>10, <1>11
        DEF ChatNext, Handler, Environment, Returned

(* One step writes what the phase it reaches allows.                        *)
LEMMA ReplyStep == ChatTypeOK /\ ReplyInv /\ [ChatNext]_chatVars => ReplyInv'
<1> SUFFICES ASSUME ChatTypeOK, ReplyInv, [ChatNext]_chatVars
             PROVE  ReplyInv'
  OBVIOUS
<1> USE DEF ReplyInv, Early, Scanning
<1>1. CASE UNCHANGED chatVars
  BY <1>1, ReducerKept DEF chatVars
<1>2. CASE UpstreamSends \/ UpstreamEnds \/ ClientLeaves
  BY <1>2, ReducerKept DEF UpstreamSends, UpstreamEnds, ClientLeaves, requestVars, replyVars
<1>3. CASE UpstreamAnswers \/ UpstreamUnreachable \/ CallUpstream \/ PassOnRejection \/ OpenReply
  BY <1>3, ZenonT(40) DEF UpstreamAnswers, UpstreamUnreachable, CallUpstream, PassOnRejection, OpenReply, Refuse,
              requestVars, replyVars
<1>4. CASE Authenticate
  BY <1>4 DEF Authenticate, Refuse, replyVars
<1>5. CASE ReadRequest
  BY <1>5, ReadRequestDecides DEF ReadRequest, Refuse, replyVars
<1>6. CASE TakeEvent \/ EndOfBody \/ CheckContext
  BY <1>6 DEF TakeEvent, EndOfBody, CheckContext, Break, requestVars, replyVars
<1>7. CASE TakeMalformed \/ ReadFails \/ FinishFails
  BY <1>7 DEF TakeMalformed, ReadFails, FinishFails, Break
<1>8. CASE ApplyEvent
  BY <1>8 DEF ApplyEvent, Break, requestVars
<1>9. CASE WriteFinal \/ WriteDone
  BY <1>9, ReducerKept DEF WriteFinal, WriteDone, requestVars
<1> QED BY <1>1, <1>2, <1>3, <1>4, <1>5, <1>6, <1>7, <1>8, <1>9
        DEF ChatNext, Handler, Environment, Returned

(* One step keeps the upstream's call single and earned.                    *)
LEMMA CallStep == ChatTypeOK /\ CallInv /\ [ChatNext]_chatVars => CallInv' /\ calls' \in 0..1
<1> SUFFICES ASSUME ChatTypeOK, CallInv, [ChatNext]_chatVars
             PROVE  CallInv' /\ calls' \in 0..1
  OBVIOUS
<1> USE DEF CallInv
<1>0. calls \in 0..1
  BY DEF ChatTypeOK
<1>1. CASE UNCHANGED chatVars
  BY <1>0, <1>1 DEF chatVars
<1>2. CASE Environment
  BY <1>0, <1>2 DEF Environment, UpstreamSends, UpstreamEnds, ClientLeaves, UpstreamAnswers,
                    UpstreamUnreachable, Refuse, requestVars
<1>3. CASE Authenticate
  BY <1>0, <1>3 DEF Authenticate, Refuse, requestVars
<1>4. CASE ReadRequest
  BY <1>0, <1>4, ReadRequestDecides DEF ReadRequest, Refuse, requestVars
<1>5. CASE CallUpstream
  BY <1>5 DEF CallUpstream
<1>6. CASE PassOnRejection \/ OpenReply \/ TakeEvent \/ EndOfBody
  BY <1>0, <1>6 DEF PassOnRejection, OpenReply, TakeEvent, EndOfBody, Refuse, requestVars
<1>7. CASE TakeMalformed \/ ReadFails \/ CheckContext \/ ApplyEvent \/ FinishFails
  BY <1>0, <1>7 DEF TakeMalformed, ReadFails, CheckContext, ApplyEvent, FinishFails, Break, requestVars
<1>8. CASE WriteFinal \/ WriteDone \/ UpstreamUnreachable
  BY <1>0, <1>8 DEF WriteFinal, WriteDone, UpstreamUnreachable, Refuse, requestVars
<1> QED BY <1>1, <1>2, <1>3, <1>4, <1>5, <1>6, <1>7, <1>8 DEF ChatNext, Handler, Returned

(* Between the check of the context and the event's application the client  *)
(* may leave, and no event is applied after that.                           *)
LEMMA LateStep == ChatTypeOK /\ LateInv /\ [ChatNext]_chatVars => LateInv' /\ late' \in Nat
<1> SUFFICES ASSUME ChatTypeOK, LateInv, [ChatNext]_chatVars
             PROVE  LateInv' /\ late' \in Nat
  OBVIOUS
<1> USE DEF LateInv
<1>0. late \in Nat /\ cancelled \in BOOLEAN /\ request \in Request
  BY DEF ChatTypeOK
<1>1. CASE UNCHANGED chatVars
  BY <1>0, <1>1 DEF chatVars
<1>2. CASE Environment
  BY <1>0, <1>2 DEF Environment, UpstreamSends, UpstreamEnds, ClientLeaves, UpstreamAnswers,
                    UpstreamUnreachable, Refuse, requestVars
<1>3. CASE Authenticate \/ PassOnRejection
  <2>1. /\ UNCHANGED <<late, cancelled, request>>
        /\ phase' \in {"authorized", "closed"}
    BY <1>3 DEF Authenticate, PassOnRejection, Refuse, requestVars, replyVars, upstreamVars
  <2> QED BY <1>0, <2>1
<1>10. CASE CallUpstream \/ OpenReply
  <2>1. /\ UNCHANGED <<late, cancelled, request>>
        /\ phase' # "checked"
    BY <1>10 DEF CallUpstream, OpenReply, Refuse, requestVars, replyVars, upstreamVars
  <2> QED BY <1>0, <2>1
<1>4. CASE ReadRequest
  <2>1. UNCHANGED <<late, cancelled, request>>
    BY <1>4 DEF ReadRequest, requestVars
  <2>2. phase' = "calling" \/ phase' = "closed"
    BY <1>4, ReadRequestDecides DEF Refuse
  <2> QED BY <1>0, <2>1, <2>2
<1>5. CASE TakeEvent
  BY <1>0, <1>5 DEF TakeEvent, requestVars
<1>6. CASE EndOfBody \/ TakeMalformed \/ ReadFails \/ FinishFails
  BY <1>0, <1>6 DEF EndOfBody, TakeMalformed, ReadFails, FinishFails, Break, requestVars
<1>7. CASE CheckContext
  BY <1>0, <1>7 DEF CheckContext, Break, requestVars
<1>8. CASE ApplyEvent
  BY <1>0, <1>8 DEF ApplyEvent, Break, requestVars
<1>9. CASE WriteFinal \/ WriteDone \/ UpstreamUnreachable
  BY <1>0, <1>9 DEF WriteFinal, WriteDone, UpstreamUnreachable, Refuse, requestVars
<1> QED BY <1>1, <1>2, <1>3, <1>4, <1>5, <1>6, <1>7, <1>8, <1>9, <1>10 DEF ChatNext, Handler, Returned

-----------------------------------------------------------------------------
(* The types of the reply.                                                  *)

(* The chunk of an event that does not fail.                                *)
TextChunk(e) == [kind |-> "text", text |-> e.text]
ReasoningChunk(e) == [kind |-> "reasoning", text |-> e.text]
ToolChunk(e) == [kind |-> "tool", index |-> Len(tools), tool |-> ToolOf(e)]

(* The chunk that an accepted event leaves, if it leaves one.               *)
LEMMA ChunkForEvent ==
    ASSUME ReducerTypeOK, NEW e \in Events, ~Fails(e)
    PROVE  \/ e.type = "text-delta" /\ ChunkFor(e) = <<TextChunk(e)>> /\ TextChunk(e) \in Chunk
           \/ /\ e.type = "reasoning-delta"
              /\ ChunkFor(e) = <<ReasoningChunk(e)>> /\ ReasoningChunk(e) \in Chunk
           \/ /\ e.type = "tool-call" /\ ToolOf(e).id \notin DOMAIN toolIndex
              /\ ChunkFor(e) = <<ToolChunk(e)>> /\ ToolChunk(e) \in Chunk
           \/ /\ e.type \notin DeltaTypes
              /\ e.type = "tool-call" => ToolOf(e).id \in DOMAIN toolIndex
              /\ ChunkFor(e) = <<>>
<1>1. CASE e.type = "text-delta"
  <2>1. e.text \in Texts \cup {""}
    BY <1>1, EventFields DEF DeltaTypes
  <2>2. TextChunk(e) \in Chunk
    BY <2>1 DEF TextChunk, Chunk
  <2> QED BY <1>1, <2>2 DEF ChunkFor, TextChunk
<1>2. CASE e.type = "reasoning-delta"
  <2>1. e.text \in Texts \cup {""}
    BY <1>2, EventFields DEF DeltaTypes
  <2>2. ReasoningChunk(e) \in Chunk
    BY <2>1 DEF ReasoningChunk, Chunk
  <2> QED BY <1>2, <2>2 DEF ChunkFor, ReasoningChunk
<1>3. CASE e.type = "tool-call" /\ ToolOf(e).id \notin DOMAIN toolIndex
  <2>1. ToolOf(e) \in Tool
    BY <1>3, ToolOfType DEF Fails
  <2>2. Len(tools) \in Nat
    BY LenProperties DEF ReducerTypeOK
  <2>3. ToolChunk(e) \in Chunk
    BY <2>1, <2>2 DEF ToolChunk, Chunk
  <2> QED BY <1>3, <2>3 DEF ChunkFor, ToolChunk
<1>4. CASE e.type \notin DeltaTypes /\ (e.type = "tool-call" => ToolOf(e).id \in DOMAIN toolIndex)
  BY <1>4 DEF ChunkFor, DeltaTypes
<1> QED BY <1>1, <1>2, <1>3, <1>4 DEF DeltaTypes

(* So a chunk that is left is one of three.                                 *)
LEMMA ContentChunk ==
    ASSUME ReducerTypeOK, NEW e \in Events, ~Fails(e), NEW c, ChunkFor(e) = <<c>>
    PROVE  \/ e.type = "text-delta" /\ c = TextChunk(e)
           \/ e.type = "reasoning-delta" /\ c = ReasoningChunk(e)
           \/ e.type = "tool-call" /\ ToolOf(e).id \notin DOMAIN toolIndex /\ c = ToolChunk(e)
<1> DEFINE chunks == ChunkFor(e)
<1>1. chunks = <<c>> /\ chunks # <<>> /\ chunks[1] = c
  OBVIOUS
<1>2. \/ e.type = "text-delta" /\ chunks = <<TextChunk(e)>>
      \/ e.type = "reasoning-delta" /\ chunks = <<ReasoningChunk(e)>>
      \/ /\ e.type = "tool-call" /\ ToolOf(e).id \notin DOMAIN toolIndex
         /\ chunks = <<ToolChunk(e)>>
  BY <1>1, ChunkForEvent
<1> HIDE DEF chunks
<1> QED BY <1>1, <1>2

(* An event without a chunk adds no content.                                *)
LEMMA NoChunk ==
    ASSUME ReducerTypeOK, NEW e \in Events, ~Fails(e), ChunkFor(e) = <<>>
    PROVE  e.type \notin DeltaTypes /\ (e.type = "tool-call" => ToolOf(e).id \in DOMAIN toolIndex)
<1> DEFINE chunks == ChunkFor(e)
<1>1. /\ \A c : chunks # <<c>>
      /\ \/ chunks = <<TextChunk(e)>> \/ chunks = <<ReasoningChunk(e)>> \/ chunks = <<ToolChunk(e)>>
         \/ /\ e.type \notin DeltaTypes
            /\ e.type = "tool-call" => ToolOf(e).id \in DOMAIN toolIndex
  BY ChunkForEvent
<1> HIDE DEF chunks
<1> QED BY <1>1

(* What ApplyEvent does to the reply.                                       *)
LEMMA ApplyEventWrites ==
    ASSUME ReducerInv, ChatTypeOK, Progress, ApplyEvent
    PROVE  LET e == sent[read]
           IN  /\ e \in Events /\ Apply(e) /\ err = "none" /\ phase = "checked"
               /\ \/ Fails(e) /\ Break("upstream_error")
                  \/ ~Fails(e) /\ UNCHANGED <<status, out>> /\ ~request.stream
                  \/ ~Fails(e) /\ UNCHANGED <<status, out>> /\ ChunkFor(e) = <<>>
                  \/ \E c \in Chunk : /\ ~Fails(e) /\ request.stream /\ UNCHANGED status
                                      /\ ChunkFor(e) = <<c>> /\ out' = Append(out, c)
<1> DEFINE e == sent[read]
<1>1. e \in Events /\ Apply(e) /\ err = "none" /\ phase = "checked"
  BY DEF ApplyEvent, Progress, Scanning
<1>2. err' = "none" <=> ~Fails(e)
  BY <1>1, ApplyErr
<1>3. out \in Seq(Chunk) /\ ReducerTypeOK
  BY DEF ChatTypeOK, ReducerInv
<1>4. CASE Fails(e)
  BY <1>1, <1>2, <1>4 DEF ApplyEvent
<1>5. CASE ~Fails(e) /\ ~request.stream
  BY <1>1, <1>2, <1>5 DEF ApplyEvent
<1>6. CASE ~Fails(e) /\ request.stream
  <2>1. out' = out \o ChunkFor(e) /\ UNCHANGED status
    BY <1>2, <1>6 DEF ApplyEvent
  <2>2. CASE ChunkFor(e) = <<>>
    <3>1. out' = out
      BY <1>3, <2>1, <2>2, ConcatEmptySeq
    <3> QED BY <1>1, <1>6, <2>1, <2>2, <3>1
  <2>3. CASE \E c \in Chunk : ChunkFor(e) = <<c>>
    <3>1. PICK c \in Chunk : ChunkFor(e) = <<c>>
      BY <2>3
    <3>2. out' = Append(out, c)
      BY <1>3, <2>1, <3>1, AppendIsConcat
    <3> QED BY <1>1, <1>6, <2>1, <3>1, <3>2
  <2> QED BY <1>1, <1>3, <1>6, <2>2, <2>3, ChunkForEvent
<1> QED BY <1>4, <1>5, <1>6

(* Everything the handler writes at the end is a chunk.                     *)
LEMMA FinalChunks ==
    ASSUME ReducerTypeOK
    PROVE  FinalChunk \in Chunk /\ BufferedChatResponse \in Chunk
<1>1. FinishedReason \in FinishReasons
  BY DEF ReducerTypeOK, FinishedReason, FinishReasons
<1>2. usage \in Usage
  BY DEF ReducerTypeOK
<1>3. FinalChunk \in Chunk
  BY <1>1, <1>2 DEF FinalChunk, Chunk
<1>4. Outcome \in [text : Seq(Texts), reasoning : Seq(Texts), tools : Seq(Tool),
                   finishReason : FinishReasons, usage : Usage]
  BY <1>1, <1>2 DEF Outcome, ReducerTypeOK
<1>5. BufferedChatResponse \in Chunk
  BY <1>4 DEF BufferedChatResponse, Chunk
<1> QED BY <1>3, <1>5

(* The chunks without a payload that depends on the stream.                 *)
LEMMA FixedChunks ==
    /\ [kind |-> "role"] \in Chunk /\ [kind |-> "done"] \in Chunk
    /\ [kind |-> "json_error"] \in Chunk
    /\ [kind |-> "error", code |-> "upstream_error"] \in Chunk
    /\ [kind |-> "error", code |-> "incomplete_stream"] \in Chunk
BY DEF Chunk

(* The replies that are one chunk long.                                     *)
LEMMA FixedReplies == <<[kind |-> "role"]>> \in Seq(Chunk) /\ <<[kind |-> "json_error"]>> \in Seq(Chunk)
<1> DEFINE role == [kind |-> "role"]
           json_error == [kind |-> "json_error"]
<1>1. role \in Chunk /\ json_error \in Chunk
  BY FixedChunks
<1> HIDE DEF role, json_error
<1>2. <<role>> \in Seq(Chunk) /\ <<json_error>> \in Seq(Chunk)
  BY <1>1, OneElement
<1> QED BY <1>2 DEF role, json_error

(* One step leaves a reply of known chunks and a status of HTTP.            *)
LEMMA ReplyTypeStep ==
    ChatInv /\ [ChatNext]_chatVars => status' \in {0} \cup 200..599 /\ out' \in Seq(Chunk)
<1> SUFFICES ASSUME ChatInv, [ChatNext]_chatVars
             PROVE  status' \in {0} \cup 200..599 /\ out' \in Seq(Chunk)
  OBVIOUS
<1>0. /\ status \in {0} \cup 200..599 /\ out \in Seq(Chunk)
      /\ answer \in UpstreamStatuses \cup {0}
      /\ ReducerInv /\ ReducerTypeOK /\ ChatTypeOK /\ Progress
  BY DEF ChatInv, ChatTypeOK, ReducerInv
<1>1. CASE UNCHANGED replyVars
  BY <1>0, <1>1 DEF replyVars
<1>2. ASSUME NEW code \in 400..599, Refuse(code)
      PROVE  status' \in {0} \cup 200..599 /\ out' \in Seq(Chunk)
  BY <1>2, FixedReplies DEF Refuse
<1>3. ASSUME NEW code \in {"upstream_error", "incomplete_stream"}, Break(code)
      PROVE  status' \in {0} \cup 200..599 /\ out' \in Seq(Chunk)
  <2>1. [kind |-> "error", code |-> code] \in Chunk
    BY FixedChunks
  <2>2. CASE request.stream
    BY <1>0, <1>3, <2>1, <2>2, AppendProperties DEF Break
  <2>3. CASE ~request.stream
    <3>1. status' = 502 /\ out' = <<[kind |-> "json_error"]>>
      BY <1>3, <2>3 DEF Break
    <3>2. out' \in Seq(Chunk)
      BY <3>1, FixedReplies, Zenon
    <3> QED BY <3>1, <3>2
  <2> QED BY <2>2, <2>3
<1>4. CASE UNCHANGED chatVars
  BY <1>1, <1>4 DEF chatVars, replyVars
<1>5. CASE UpstreamSends \/ UpstreamEnds \/ ClientLeaves \/ UpstreamAnswers \/ CallUpstream
  BY <1>1, <1>5 DEF UpstreamSends, UpstreamEnds, ClientLeaves, UpstreamAnswers, CallUpstream
<1>6. CASE Authenticate \/ UpstreamUnreachable
  <2>1. 401 \in 400..599 /\ 502 \in 400..599
    OBVIOUS
  <2>2. Refuse(401) \/ Refuse(502) \/ UNCHANGED replyVars
    BY <1>6 DEF Authenticate, UpstreamUnreachable
  <2> QED BY <1>1, <1>2, <2>1, <2>2, ZenonT(40)
<1>7. CASE ReadRequest
  BY <1>0, <1>1, <1>2, <1>7, ReadRequestDecides, ZenonT(40)
<1>8. CASE PassOnRejection
  <2>1. answer \in Int /\ answer <= 599
    BY <1>0, UpstreamStatusesAssumption
  <2>2. PICK code : code = IF answer < 400 THEN 502 ELSE answer
    OBVIOUS
  <2>3. code \in 400..599
    BY <2>1, <2>2
  <2>4. Refuse(code)
    BY <1>8, <2>2 DEF PassOnRejection
  <2> QED BY <1>2, <2>3, <2>4
<1>9. CASE OpenReply
  <2>1. CASE request.stream
    <3>1. status' = 200 /\ out' = <<[kind |-> "role"]>>
      BY <1>9, <2>1 DEF OpenReply
    <3>2. out' \in Seq(Chunk)
      BY <3>1, FixedReplies, Zenon
    <3> QED BY <3>1, <3>2
  <2> QED BY <1>1, <1>9, <2>1 DEF OpenReply
<1>10. CASE TakeEvent \/ EndOfBody
  BY <1>1, <1>10 DEF TakeEvent, EndOfBody
<1>11. CASE TakeMalformed \/ ReadFails \/ FinishFails \/ CheckContext
  BY <1>1, <1>3, <1>11 DEF TakeMalformed, ReadFails, FinishFails, CheckContext
<1>12. CASE ApplyEvent
  <2>1. \/ Break("upstream_error")
        \/ UNCHANGED <<status, out>>
        \/ UNCHANGED status /\ \E c \in Chunk : out' = Append(out, c)
    BY <1>0, <1>12, ApplyEventWrites
  <2>2. CASE Break("upstream_error")
    BY <1>3, <2>2
  <2>3. CASE UNCHANGED <<status, out>>
    BY <1>0, <2>3
  <2>4. ASSUME NEW c \in Chunk, UNCHANGED status, out' = Append(out, c)
        PROVE  status' \in {0} \cup 200..599 /\ out' \in Seq(Chunk)
    BY <1>0, <2>4, AppendProperties
  <2> QED BY <2>1, <2>2, <2>3, <2>4
<1>13. CASE WriteFinal
  <2>1. CASE request.stream
    BY <1>0, <1>13, <2>1, FinalChunks, AppendProperties DEF WriteFinal
  <2>2. CASE ~request.stream
    <3>1. <<BufferedChatResponse>> \in Seq(Chunk)
      BY <1>0, FinalChunks, OneElement
    <3>2. status' = 200 /\ out' = <<BufferedChatResponse>>
      BY <1>13, <2>2 DEF WriteFinal
    <3> QED BY <3>1, <3>2
  <2> QED BY <2>1, <2>2
<1>14. CASE WriteDone
  BY <1>0, <1>14, FixedChunks, AppendProperties DEF WriteDone
<1> QED BY <1>4, <1>5, <1>6, <1>7, <1>8, <1>9, <1>10, <1>11, <1>12, <1>13, <1>14
        DEF ChatNext, Handler, Environment, Returned

-----------------------------------------------------------------------------
(* The inductive invariant.                                                 *)

(* What is applied stays a prefix of what is sent.                          *)
LEMMA HistoryStep ==
    ChatInv /\ [ChatNext]_chatVars =>
        /\ sent' \in Seq(Events \cup {Malformed}) /\ read' \in 0..Len(sent')
        /\ Len(applied') <= read' /\ \A i \in DOMAIN applied' : applied'[i] = sent'[i]
<1> SUFFICES ASSUME ChatInv, [ChatNext]_chatVars
             PROVE  /\ sent' \in Seq(Events \cup {Malformed}) /\ read' \in 0..Len(sent')
                    /\ Len(applied') <= read' /\ \A i \in DOMAIN applied' : applied'[i] = sent'[i]
  OBVIOUS
<1>0. /\ sent \in Seq(Events \cup {Malformed}) /\ Len(sent) \in Nat
      /\ applied \in Seq(Events) /\ Len(applied) \in Nat /\ DOMAIN applied = 1..Len(applied)
      /\ read \in 0..Len(sent)
      /\ Len(applied) <= read /\ \A i \in DOMAIN applied : applied[i] = sent[i]
  BY LenProperties DEF ChatInv, ChatTypeOK, ReducerInv, ReducerTypeOK
<1>1. CASE UNCHANGED <<applied, sent, read>>
  BY <1>0, <1>1
<1>2. CASE UpstreamSends
  <2>1. /\ sent' \in Seq(Events \cup {Malformed}) /\ Len(sent') = Len(sent) + 1
        /\ \A i \in 1..Len(sent) : sent'[i] = sent[i]
    BY <1>2, SentGrows DEF ChatInv
  <2>2. UNCHANGED <<applied, read>>
    BY <1>2 DEF UpstreamSends, reducerVars
  <2> QED BY <1>0, <2>1, <2>2
<1>3. CASE TakeEvent \/ TakeMalformed
  <2>1. UNCHANGED <<applied, sent>> /\ read' = read + 1 /\ read < Len(sent)
    BY <1>3 DEF TakeEvent, TakeMalformed, HasNext, reducerVars, upstreamVars
  <2> QED BY <1>0, <2>1
<1>4. CASE ApplyEvent
  <2>1. read = Len(applied) + 1 /\ sent[read] \in Events
    BY <1>4 DEF ApplyEvent, ChatInv, Progress
  <2>2. applied' = Append(applied, sent[read]) /\ UNCHANGED <<sent, read>>
    BY <1>4, <2>1, ApplyReceives DEF ApplyEvent, Receive, upstreamVars
  <2>3. /\ applied' \in Seq(Events) /\ Len(applied') = Len(applied) + 1
        /\ \A i \in 1..Len(applied) : applied'[i] = applied[i]
        /\ applied'[Len(applied) + 1] = sent[read]
    BY <1>0, <2>1, <2>2, AppendProperties
  <2>4. DOMAIN applied' = 1..(Len(applied) + 1)
    BY <2>3, LenProperties
  <2> QED BY <1>0, <2>1, <2>2, <2>3, <2>4
<1>5. CASE UNCHANGED chatVars
  BY <1>1, <1>5 DEF chatVars, reducerVars
<1>6. CASE UpstreamEnds \/ ClientLeaves \/ UpstreamAnswers \/ UpstreamUnreachable
  BY <1>1, <1>6 DEF UpstreamEnds, ClientLeaves, UpstreamAnswers, UpstreamUnreachable,
                    reducerVars, upstreamVars
<1>7. CASE Authenticate \/ ReadRequest \/ CallUpstream \/ PassOnRejection \/ OpenReply
  BY <1>1, <1>7 DEF Authenticate, ReadRequest, CallUpstream, PassOnRejection, OpenReply,
                    reducerVars, upstreamVars
<1>8. CASE ReadFails \/ EndOfBody \/ CheckContext \/ FinishFails \/ WriteFinal \/ WriteDone
  BY <1>1, <1>8 DEF ReadFails, EndOfBody, CheckContext, FinishFails, WriteFinal, WriteDone,
                    reducerVars, upstreamVars
<1> QED BY <1>2, <1>3, <1>4, <1>5, <1>6, <1>7, <1>8
        DEF ChatNext, Handler, Environment, Returned

(* A break ends the request.                                                *)
LEMMA BreakCloses ==
    ASSUME NEW code, Break(code)
    PROVE  phase' = "closed"
BY DEF Break

(* The other variables stay in their sets.                                  *)
LEMMA ControlStep ==
    ChatTypeOK /\ [ChatNext]_chatVars =>
        /\ request' \in Request /\ phase' \in Phases
        /\ answer' \in UpstreamStatuses \cup {0}
        /\ bodyEnd' \in {"open", "eof", "broken"} /\ cancelled' \in BOOLEAN
<1> SUFFICES ASSUME ChatTypeOK, [ChatNext]_chatVars
             PROVE  /\ request' \in Request /\ phase' \in Phases
                    /\ answer' \in UpstreamStatuses \cup {0}
                    /\ bodyEnd' \in {"open", "eof", "broken"} /\ cancelled' \in BOOLEAN
  OBVIOUS
<1>0. /\ request \in Request /\ phase \in Phases
      /\ answer \in UpstreamStatuses \cup {0}
      /\ bodyEnd \in {"open", "eof", "broken"} /\ cancelled \in BOOLEAN
  BY DEF ChatTypeOK
<1>1. CASE UNCHANGED chatVars
  BY <1>0, <1>1 DEF chatVars
<1>2. CASE UpstreamSends \/ UpstreamEnds \/ ClientLeaves
  BY <1>0, <1>2 DEF UpstreamSends, UpstreamEnds, ClientLeaves, requestVars, upstreamVars
<1>3. CASE ReadRequest
  <2>1. phase' = "closed" \/ phase' = "calling"
    BY <1>3, ReadRequestDecides DEF Refuse
  <2>2. UNCHANGED <<request, answer, bodyEnd, cancelled>>
    BY <1>3 DEF ReadRequest, requestVars, upstreamVars
  <2> QED BY <1>0, <2>1, <2>2 DEF Phases
<1>4. CASE Authenticate \/ CallUpstream \/ PassOnRejection \/ OpenReply
  BY <1>0, <1>4 DEF Authenticate, CallUpstream, PassOnRejection, OpenReply,
                    Refuse, Phases, requestVars, upstreamVars
<1>5. CASE TakeEvent \/ EndOfBody
  BY <1>0, <1>5 DEF TakeEvent, EndOfBody, Phases, requestVars, upstreamVars
<1>6. CASE TakeMalformed \/ ReadFails \/ FinishFails
  BY <1>0, <1>6, BreakCloses DEF TakeMalformed, ReadFails, FinishFails, Phases, requestVars, upstreamVars
<1>7. CASE CheckContext
  BY <1>0, <1>7, BreakCloses DEF CheckContext, Phases, requestVars, upstreamVars
<1>8. CASE ApplyEvent
  <2>1. phase' = "closed" \/ phase' = "scanning"
    BY <1>8, BreakCloses DEF ApplyEvent
  <2> QED BY <1>0, <1>8, <2>1 DEF ApplyEvent, Phases, requestVars, upstreamVars
<1>9. CASE WriteFinal \/ WriteDone
  BY <1>0, <1>9 DEF WriteFinal, WriteDone, Phases, requestVars, upstreamVars
<1>10. CASE UpstreamAnswers \/ UpstreamUnreachable
  BY <1>0, <1>10 DEF UpstreamAnswers, UpstreamUnreachable, Refuse, Phases, requestVars, upstreamVars
<1> QED BY <1>1, <1>2, <1>3, <1>4, <1>5, <1>6, <1>7, <1>8, <1>9, <1>10
        DEF ChatNext, Handler, Environment, Returned

(* It holds when a request arrives ...                                      *)
LEMMA ChatInvInit == ChatInit => ChatInv
<1> SUFFICES ASSUME ChatInit PROVE ChatInv
  OBVIOUS
<1>1. ReducerInv
  BY ReducerInvInit DEF ChatInit
<1>2. ChatTypeOK
  <2>1. applied = <<>> /\ applied \in Seq(Events) /\ Len(applied) = 0
    BY EmptySeq DEF ChatInit, NewReducer
  <2>2. DOMAIN applied = 1..0
    BY <2>1, LenProperties
  <2>3. sent \in Seq(Events \cup {Malformed}) /\ Len(sent) = 0 /\ out \in Seq(Chunk)
    BY EmptySeq DEF ChatInit
  <2>4. request \in Request /\ phase \in Phases /\ bodyEnd \in {"open", "eof", "broken"}
    BY DEF ChatInit, Phases
  <2>5. answer \in UpstreamStatuses \cup {0} /\ calls \in 0..1 /\ late \in Nat
    BY DEF ChatInit
  <2>6. cancelled \in BOOLEAN /\ status \in {0} \cup 200..599
    BY DEF ChatInit
  <2>7. read \in 0..Len(sent) /\ Len(applied) <= read /\ \A i \in DOMAIN applied : applied[i] = sent[i]
    BY <2>1, <2>2, <2>3 DEF ChatInit
  <2> QED BY <2>3, <2>4, <2>5, <2>6, <2>7 DEF ChatTypeOK
<1>3. Progress /\ ReplyInv /\ CallInv /\ LateInv
  BY DEF ChatInit, Progress, ReplyInv, CallInv, LateInv, Early, Scanning, Ended
<1> QED BY <1>1, <1>2, <1>3 DEF ChatInv

(* ... and one step keeps it.                                               *)
LEMMA ChatInvStep == ChatInv /\ [ChatNext]_chatVars => ChatInv'
<1> SUFFICES ASSUME ChatInv, [ChatNext]_chatVars
             PROVE  ChatInv'
  OBVIOUS
<1>0. ReducerInv /\ ChatTypeOK /\ Progress /\ ReplyInv /\ CallInv /\ LateInv
  BY DEF ChatInv
<1>1. ReducerInv'
  BY <1>0, ChatStepReduces, ReducerInvStep
<1>2. Progress' /\ ReplyInv' /\ CallInv' /\ LateInv'
  BY <1>0, PositionStep, ReplyStep, CallStep, LateStep
<1>3. ChatTypeOK'
  BY <1>0, HistoryStep, ControlStep, ReplyTypeStep, CallStep, LateStep DEF ChatTypeOK
<1> QED BY <1>1, <1>2, <1>3 DEF ChatInv

(* The inductive invariant of the endpoint.                                 *)
THEOREM ChatInvariant == ChatSpec => []ChatInv
BY ChatInvInit, ChatInvStep, PTL DEF ChatSpec

(* Types of the handler's variables; what it reads never overtakes what the *)
(* upstream sent, and the reducer is given just that (server.go:163-178).   *)
THEOREM ChatTypeCorrect == ChatSpec => []ChatTypeOK
BY ChatInvariant, PTL DEF ChatInv

(* Every behaviour of the endpoint is one of the reducer, so the theorems   *)
(* about Reducer hold of the reducer of every request.                      *)
THEOREM ChatRunsAReducer == ChatSpec => ReducerSpec
<1>1. ChatInit => NewReducer
  BY DEF ChatInit
<1>2. ChatInv /\ [ChatNext]_chatVars => [ReducerNext]_reducerVars
  BY ChatStepReduces DEF ChatInv
<1> QED BY <1>1, <1>2, ChatInvariant, PTL DEF ChatSpec, ReducerSpec

(* The upstream key is spent at most once per request and only for a caller *)
(* with a client key and a request that was read, validated and converted   *)
(* (server.go:81-122, 219-228).                                             *)
THEOREM UpstreamIsEarned == ChatSpec => []UpstreamOnlyForValidRequests
<1>1. ChatInv => UpstreamOnlyForValidRequests
  BY DEF ChatInv, ChatTypeOK, CallInv, UpstreamOnlyForValidRequests
<1> QED BY <1>1, ChatInvariant, PTL

(* A streaming handler whose client is gone applies at most one more event  *)
(* (server.go:163-169).                                                     *)
THEOREM LateEventsAreBounded == ChatSpec => []AtMostOneLateEvent
<1>1. ChatInv => AtMostOneLateEvent
  BY DEF ChatInv, LateInv, AtMostOneLateEvent
<1> QED BY <1>1, ChatInvariant, PTL

-----------------------------------------------------------------------------
(* Success is reported for whole streams only.                              *)

ContentKinds == {"role", "text", "reasoning", "tool"}

(* A stream holds nothing but content until its finish reason is written.   *)
KindsInv ==
    /\ phase \in Scanning \cup {"ended"} /\ request.stream =>
          /\ out # <<>> /\ out[1].kind = "role"
          /\ \A j \in DOMAIN out : out[j].kind \in ContentKinds
    /\ phase = "final" => out # <<>> /\ Last(out).kind = "final"

(* An appended chunk is the last one and leaves the others alone.           *)
LEMMA OutGrows ==
    ASSUME NEW c \in Chunk, out \in Seq(Chunk), out' = Append(out, c)
    PROVE  /\ out' \in Seq(Chunk) /\ out' # <<>> /\ Len(out') = Len(out) + 1
           /\ Len(out) \in Nat /\ DOMAIN out = 1..Len(out) /\ DOMAIN out' = 1..(Len(out) + 1)
           /\ \A j \in 1..Len(out) : out'[j] = out[j]
           /\ out'[Len(out) + 1] = c /\ Last(out') = c
<1>1. /\ out' \in Seq(Chunk) /\ out' # <<>> /\ Len(out') = Len(out) + 1
      /\ \A j \in 1..Len(out) : out'[j] = out[j]
      /\ out'[Len(out) + 1] = c
  BY AppendProperties
<1>2. Len(out) \in Nat /\ DOMAIN out = 1..Len(out) /\ DOMAIN out' = 1..(Len(out) + 1)
  BY <1>1, LenProperties
<1> QED BY <1>1, <1>2 DEF Last

(* A sequence has a first element or is empty.                              *)
LEMMA NotEmptyHasFirst ==
    ASSUME NEW S, NEW seq \in Seq(S), seq # <<>>
    PROVE  1 \in 1..Len(seq)
BY EmptySeq

(* The kinds of the chunks follow the phase.                                *)
LEMMA KindsStep == ChatInv /\ KindsInv /\ [ChatNext]_chatVars => KindsInv'
<1> SUFFICES ASSUME ChatInv, KindsInv, [ChatNext]_chatVars
             PROVE  KindsInv'
  OBVIOUS
<1> USE DEF Scanning
<1>0. /\ out \in Seq(Chunk) /\ ReducerInv /\ ChatTypeOK /\ Progress
      /\ ReducerTypeOK
  BY DEF ChatInv, ChatTypeOK, ReducerInv
<1>1. CASE UNCHANGED <<out, phase, request>>
  BY <1>1 DEF KindsInv, Last
<1>2. CASE phase' = "closed" \/ phase' \in Early
  BY <1>2 DEF KindsInv, Early
<1>3. CASE OpenReply
  <2>1. CASE request.stream
    <3>1. out' = <<[kind |-> "role"]>> /\ request' = request /\ phase' = "scanning"
      BY <1>3, <2>1 DEF OpenReply, requestVars
    <3>2. DOMAIN out' = {1} /\ out'[1].kind = "role" /\ out' # <<>>
      BY <3>1
    <3> QED BY <3>1, <3>2 DEF KindsInv, ContentKinds
  <2>2. CASE ~request.stream
    BY <1>3, <2>2 DEF OpenReply, requestVars, KindsInv
  <2> QED BY <2>1, <2>2
<1>4. CASE TakeEvent \/ EndOfBody \/ CheckContext
  <2>1. CASE phase' = "closed"
    BY <1>2, <2>1
  <2>2. CASE phase' # "closed"
    <3>1. UNCHANGED <<out, request>> /\ phase \in Scanning /\ phase' \in Scanning \cup {"ended"}
      BY <1>4, <2>2, BreakCloses DEF TakeEvent, EndOfBody, CheckContext, replyVars, requestVars
    <3> QED BY <3>1 DEF KindsInv
  <2> QED BY <2>1, <2>2
<1>5. CASE ApplyEvent
  <2> DEFINE e == sent[read]
  <2>1. /\ phase = "checked" /\ request' = request
        /\ phase' = "closed" \/ phase' = "scanning"
    BY <1>5, BreakCloses DEF ApplyEvent, requestVars
  <2>2. CASE Fails(e)
    BY <1>0, <1>2, <1>5, <2>2, ApplyEventWrites, BreakCloses
  <2>3. CASE UNCHANGED out
    BY <1>2, <2>1, <2>3 DEF KindsInv
  <2>4. ASSUME NEW c \in Chunk, ~Fails(e), ChunkFor(e) = <<c>>, out' = Append(out, c)
        PROVE  KindsInv'
    <3>1. c.kind \in ContentKinds
      <4>1. e \in Events
        BY <1>0, <1>5, ApplyEventWrites
      <4>2. c = TextChunk(e) \/ c = ReasoningChunk(e) \/ c = ToolChunk(e)
        BY <1>0, <2>4, <4>1, ContentChunk
      <4> QED BY <4>2 DEF TextChunk, ReasoningChunk, ToolChunk, ContentKinds
    <3> QED BY <1>0, <1>2, <2>1, <2>4, <3>1, OutGrows, NotEmptyHasFirst DEF KindsInv
  <2> QED BY <1>0, <1>5, <2>2, <2>3, <2>4, ApplyEventWrites
<1>6. CASE WriteFinal
  <2>1. CASE request.stream
    <3>1. out' = Append(out, FinalChunk) /\ phase' = "final"
      BY <1>6, <2>1 DEF WriteFinal
    <3>2. out' # <<>> /\ Last(out') = FinalChunk
      BY <1>0, <3>1, FinalChunks, OutGrows
    <3> QED BY <3>1, <3>2 DEF KindsInv, FinalChunk, Last
  <2>2. CASE ~request.stream
    BY <1>2, <1>6, <2>2 DEF WriteFinal
  <2> QED BY <2>1, <2>2
<1>7. CASE TakeMalformed \/ ReadFails \/ FinishFails
  BY <1>2, <1>7, BreakCloses DEF TakeMalformed, ReadFails, FinishFails
<1>8. CASE WriteDone
  BY <1>2, <1>8 DEF WriteDone
<1>9. CASE UNCHANGED chatVars
  BY <1>1, <1>9 DEF chatVars
<1>10. CASE UpstreamSends \/ UpstreamEnds \/ ClientLeaves
  BY <1>1, <1>10 DEF UpstreamSends, UpstreamEnds, ClientLeaves, replyVars, requestVars
<1>11. CASE UpstreamAnswers \/ UpstreamUnreachable \/ Authenticate \/ CallUpstream \/ PassOnRejection
  BY <1>2, <1>11 DEF UpstreamAnswers, UpstreamUnreachable, Authenticate, CallUpstream,
                     PassOnRejection, Refuse, Early
<1>12. CASE ReadRequest
  BY <1>0, <1>2, <1>12, ReadRequestDecides DEF Refuse, Early
<1> QED BY <1>3, <1>4, <1>5, <1>6, <1>7, <1>8, <1>9, <1>10, <1>11, <1>12
        DEF ChatNext, Handler, Environment, Returned

(* The kinds are right in every reachable state.                            *)
LEMMA KindsInvariant == ChatSpec => []KindsInv
<1>1. ChatInit => KindsInv
  BY DEF ChatInit, KindsInv, Scanning
<1> QED BY <1>1, KindsStep, ChatInvariant, PTL DEF ChatSpec

(* The last kind of a sequence that is not empty is that of one of its      *)
(* chunks.                                                                  *)
LEMMA LastIsAChunk ==
    ASSUME out \in Seq(Chunk), out # <<>>
    PROVE  Len(out) \in DOMAIN out /\ Last(out) = out[Len(out)]
<1>1. Len(out) \in Nat \ {0} /\ DOMAIN out = 1..Len(out)
  BY EmptySeq, LenProperties
<1> QED BY <1>1 DEF Last

(* Nothing that says success is written before the end.                     *)
LEMMA NotYetSucceeded == ChatInv /\ KindsInv /\ phase \notin {"final", "closed"} => ~Succeeded
<1> SUFFICES ASSUME ChatInv, KindsInv, phase \notin {"final", "closed"}
             PROVE  ~Succeeded
  OBVIOUS
<1>1. phase \in Early \cup Scanning \cup {"ended"} /\ out \in Seq(Chunk)
  BY DEF ChatInv, ChatTypeOK, Phases, Early, Scanning
<1>2. CASE out = <<>>
  BY <1>2 DEF Succeeded
<1>3. CASE out # <<>>
  <2>1. phase \in Scanning \cup {"ended"} /\ request.stream
    BY <1>1, <1>3 DEF ChatInv, ReplyInv
  <2>2. Last(out).kind \in ContentKinds
    BY <1>1, <1>3, <2>1, LastIsAChunk DEF KindsInv
  <2> QED BY <2>2 DEF Succeeded, ContentKinds
<1> QED BY <1>2, <1>3

(* At the end of the body everything sent has been applied.                 *)
LEMMA WholeAtTheEnd ==
    ASSUME ChatInv, phase \in Ended
    PROVE  bodyEnd = "eof" /\ applied = sent
<1>1. /\ bodyEnd = "eof" /\ read = Len(sent) /\ read = Len(applied)
      /\ applied \in Seq(Events \cup {Malformed}) /\ sent \in Seq(Events \cup {Malformed})
  BY SeqMonotonic DEF ChatInv, Progress, ChatTypeOK, ReducerInv, ReducerTypeOK, Ended
<1>2. \A i \in 1..Len(applied) : applied[i] = sent[i]
  BY <1>1, LenProperties DEF ChatInv, ChatTypeOK
<1> QED BY <1>1, <1>2, SeqEqual

(* An error is not a success.                                               *)
LEMMA BreakIsNoSuccess ==
    ASSUME ChatTypeOK, NEW code \in {"upstream_error", "incomplete_stream"}, Break(code)
    PROVE  ~Succeeded'
<1>1. CASE request.stream
  <2>1. [kind |-> "error", code |-> code] \in Chunk
    BY FixedChunks
  <2>2. out' = Append(out, [kind |-> "error", code |-> code])
    BY <1>1 DEF Break
  <2>3. Last(out') = [kind |-> "error", code |-> code]
    BY <2>1, <2>2, OutGrows DEF ChatTypeOK
  <2> QED BY <2>3 DEF Succeeded, Last
<1>2. CASE ~request.stream
  <2>1. out' = <<[kind |-> "json_error"]>>
    BY <1>2 DEF Break
  <2> QED BY <2>1 DEF Succeeded, Last
<1> QED BY <1>1, <1>2

(* Nor is a refusal.                                                        *)
LEMMA RefusalIsNoSuccess ==
    ASSUME NEW code, Refuse(code)
    PROVE  ~Succeeded'
BY DEF Refuse, Succeeded, Last

(* One step reports success only for a whole stream.                        *)
LEMMA SuccessStep ==
    ChatInv /\ ChatInv' /\ KindsInv /\ KindsInv' /\ SuccessIsWhole /\ [ChatNext]_chatVars
        => SuccessIsWhole'
<1> SUFFICES ASSUME ChatInv, ChatInv', KindsInv, KindsInv', SuccessIsWhole, [ChatNext]_chatVars
             PROVE  SuccessIsWhole'
  OBVIOUS
<1>0. ChatTypeOK /\ ReducerInv /\ Progress
  BY DEF ChatInv
<1>1. CASE ~Succeeded'
  BY <1>1 DEF SuccessIsWhole
<1>2. CASE UNCHANGED <<reducerVars, out, sent, bodyEnd>>
  <2>1. UNCHANGED <<FinishError, applied, Succeeded>>
    BY <1>2, ReducerKept DEF Succeeded, Last
  <2> QED BY <1>2, <2>1 DEF SuccessIsWhole
<1>3. CASE WriteFinal \/ WriteDone
  <2>1. phase \in Ended /\ FinishError = "none" /\ UNCHANGED <<reducerVars, sent, bodyEnd>>
    BY <1>3 DEF WriteFinal, WriteDone, Ended, upstreamVars, ChatInv, ReplyInv
  <2> QED BY <2>1, WholeAtTheEnd, ReducerKept DEF SuccessIsWhole
<1>4. CASE phase' \notin {"final", "closed"}
  <2>1. (ChatInv /\ KindsInv /\ phase \notin {"final", "closed"} => ~Succeeded)'
    BY NotYetSucceeded, PTL
  <2>2. ~Succeeded'
    BY <1>4, <2>1
  <2> QED BY <1>1, <2>2
<1>5. CASE UpstreamSends \/ UpstreamEnds
  <2>1. phase' \notin {"final", "closed"}
    BY <1>5 DEF UpstreamSends, UpstreamEnds, BodyOpen
  <2> QED BY <1>4, <2>1
<1>6. CASE UpstreamAnswers \/ CallUpstream \/ OpenReply \/ TakeEvent \/ EndOfBody
  <2>1. phase' \notin {"final", "closed"}
    BY <1>6 DEF UpstreamAnswers, CallUpstream, OpenReply, TakeEvent, EndOfBody
  <2> QED BY <1>4, <2>1
<1>7. CASE ClientLeaves
  BY <1>2, <1>7 DEF ClientLeaves, upstreamVars, replyVars
<1>8. CASE UpstreamUnreachable \/ PassOnRejection
  BY <1>1, <1>8, RefusalIsNoSuccess DEF UpstreamUnreachable, PassOnRejection
<1>9. CASE Authenticate
  BY <1>1, <1>4, <1>9, RefusalIsNoSuccess DEF Authenticate
<1>10. CASE ReadRequest
  BY <1>0, <1>1, <1>4, <1>10, RefusalIsNoSuccess, ReadRequestDecides
<1>11. CASE TakeMalformed \/ ReadFails \/ FinishFails
  BY <1>0, <1>1, <1>11, BreakIsNoSuccess DEF TakeMalformed, ReadFails, FinishFails
<1>12. CASE CheckContext
  BY <1>0, <1>1, <1>4, <1>12, BreakIsNoSuccess DEF CheckContext
<1>13. CASE ApplyEvent
  <2>1. Break("upstream_error") \/ phase' = "scanning"
    BY <1>13 DEF ApplyEvent
  <2> QED BY <1>0, <1>1, <1>4, <2>1, BreakIsNoSuccess
<1>14. CASE UNCHANGED chatVars
  BY <1>2, <1>14 DEF chatVars
<1> QED BY <1>3, <1>5, <1>6, <1>7, <1>8, <1>9, <1>10, <1>11, <1>12, <1>13, <1>14
        DEF ChatNext, Handler, Environment, Returned

(* A client is told of success only for a body that ended properly, was     *)
(* read to its end and applied in full, and earned it (server.go:190-204).  *)
THEOREM SuccessIsForWholeStreams == ChatSpec => []SuccessIsWhole
<1>1. ChatInit => SuccessIsWhole
  BY DEF ChatInit, SuccessIsWhole, Succeeded
<1> QED BY <1>1, SuccessStep, ChatInvariant, KindsInvariant, PTL DEF ChatSpec

-----------------------------------------------------------------------------
(* A stream says what the reducer holds.                                    *)

(* An appended chunk joins those of its kind.                               *)
LEMMA SentAppend ==
    ASSUME out \in Seq(Chunk), NEW c \in Chunk, out' = Append(out, c), NEW kind
    PROVE  /\ Sent(kind) \subseteq 1..Len(out) /\ Len(out) \in Nat
           /\ c.kind = kind => Sent(kind)' = Sent(kind) \cup {Len(out) + 1}
           /\ c.kind # kind => Sent(kind)' = Sent(kind)
           /\ \A j \in Sent(kind) : out'[j] = out[j]
           /\ out'[Len(out) + 1] = c
<1>1. /\ Len(out) \in Nat /\ DOMAIN out = 1..Len(out) /\ DOMAIN out' = 1..(Len(out) + 1)
      /\ \A j \in 1..Len(out) : out'[j] = out[j]
      /\ out'[Len(out) + 1] = c
  BY OutGrows
<1>2. Sent(kind) = {j \in 1..Len(out) : out[j].kind = kind}
  BY <1>1 DEF Sent
<1>3. Sent(kind)' = {j \in 1..(Len(out) + 1) : out'[j].kind = kind}
  BY <1>1 DEF Sent
<1> QED BY <1>1, <1>2, <1>3

(* A builder is written on by the chunks of its kind only.                  *)
LEMMA WrittenOn ==
    ASSUME out \in Seq(Chunk), NEW c \in Chunk, out' = Append(out, c),
           NEW kind \in {"text", "reasoning"}, NEW builder \in Seq(Texts), NEW longer,
           Written(builder, kind),
           c.kind = kind => c.text \in Texts \cup {""} /\ longer = Write(builder, c.text),
           c.kind # kind => longer = builder
    PROVE  LET nonEmpty == {j \in Sent(kind)' : out'[j].text # ""}
           IN  InOrder(longer, nonEmpty, [j \in nonEmpty |-> out'[j].text])
<1> DEFINE n == Len(out) + 1
           S == {j \in Sent(kind) : out[j].text # ""}
           S2 == {j \in Sent(kind)' : out'[j].text # ""}
           val == [j \in S |-> out[j].text]
           val2 == [j \in S2 |-> out'[j].text]
<1>1. /\ Sent(kind) \subseteq 1..Len(out) /\ Len(out) \in Nat
      /\ c.kind = kind => Sent(kind)' = Sent(kind) \cup {n}
      /\ c.kind # kind => Sent(kind)' = Sent(kind)
      /\ \A j \in Sent(kind) : out'[j] = out[j]
      /\ out'[n] = c
  BY SentAppend
<1>2. S \in SUBSET Nat /\ n \in Nat /\ \A j \in S : j < n
  <2>1. S \subseteq 1..Len(out)
    BY <1>1
  <2>2. Len(out) \in Nat
    BY <1>1
  <2> HIDE DEF S
  <2> QED BY <2>1, <2>2, BelowNext
<1>3. InOrder(builder, S, val)
  BY DEF Written
<1>4. CASE c.kind = kind /\ c.text # ""
  <2>1. S2 = S \cup {n}
    BY <1>1, <1>4
  <2>2. (\A j \in S : val2[j] = val[j]) /\ val2[n] = c.text
    BY <1>1, <2>1
  <2>3. longer = Append(builder, c.text) /\ c.text \in Texts
    BY <1>4 DEF Write
  <2> HIDE DEF n, S, S2, val, val2
  <2>4. InOrder(Append(builder, c.text), S \cup {n}, val2)
    BY <1>2, <1>3, <2>2, <2>3, InOrderAppend
  <2>5. InOrder(longer, S2, val2)
    BY <2>1, <2>3, <2>4
  <2> QED BY <2>5 DEF S2, val2
<1>5. CASE ~(c.kind = kind /\ c.text # "")
  <2>1. S2 = S
    BY <1>1, <1>5
  <2>2. \A j \in S : val2[j] = val[j]
    BY <1>1, <2>1
  <2>3. longer = builder
    BY <1>5 DEF Write
  <2> HIDE DEF n, S, S2, val, val2
  <2>4. InOrder(longer, S2, val2)
    BY <1>3, <2>1, <2>2, <2>3, InOrderKept
  <2> QED BY <2>4 DEF S2, val2
<1> QED BY <1>4, <1>5

(* Numbering keeps a sequence's length ...                                  *)
LEMMA NumberedType ==
    ASSUME NEW T, NEW seq \in Seq(T)
    PROVE  /\ Numbered(seq) \in Seq([index : Nat, tool : T]) /\ Len(Numbered(seq)) = Len(seq)
           /\ \A k \in 1..Len(seq) : Numbered(seq)[k] = [index |-> k - 1, tool |-> seq[k]]
<1>1. PICK n \in Nat : n = Len(seq) /\ DOMAIN seq = 1..n /\ seq \in [1..n -> T]
  BY LenProperties
<1> DEFINE numbered == Numbered(seq)
<1>2. \A k \in 1..n : [index |-> k - 1, tool |-> seq[k]] \in [index : Nat, tool : T]
  BY <1>1
<1>3. /\ numbered \in [1..n -> [index : Nat, tool : T]]
      /\ \A k \in 1..n : numbered[k] = [index |-> k - 1, tool |-> seq[k]]
  <2>1. numbered = [k \in 1..n |-> [index |-> k - 1, tool |-> seq[k]]]
    BY <1>1 DEF Numbered
  <2> QED BY <1>2, <2>1
<1> HIDE DEF numbered
<1> DEFINE U == [index : Nat, tool : T]
<1> HIDE DEF U
<1>4. numbered \in [1..n -> U]
  BY <1>3 DEF U
<1>5. numbered \in Seq(U) /\ Len(numbered) = n
  BY <1>4, FunctionIsSeq
<1> QED BY <1>1, <1>3, <1>5 DEF numbered, U

(* ... and commutes with appending.                                         *)
LEMMA NumberedAppend ==
    ASSUME NEW T, NEW seq \in Seq(T), NEW x \in T
    PROVE  Numbered(Append(seq, x)) = Append(Numbered(seq), [index |-> Len(seq), tool |-> x])
<1> DEFINE last == [index |-> Len(seq), tool |-> x]
           left == Numbered(Append(seq, x))
           right == Append(Numbered(seq), last)
           U == [index : Nat, tool : T]
<1>1. PICK n \in Nat : n = Len(seq)
  BY LenProperties
<1>2. last \in U
  BY <1>1
<1>3. /\ Append(seq, x) \in Seq(T) /\ Len(Append(seq, x)) = n + 1
      /\ \A k \in 1..n : Append(seq, x)[k] = seq[k]
      /\ Append(seq, x)[n + 1] = x
  BY <1>1, AppendProperties
<1>4. /\ left \in Seq(U) /\ Len(left) = n + 1
      /\ \A k \in 1..(n + 1) : left[k] = [index |-> k - 1, tool |-> Append(seq, x)[k]]
  BY <1>3, NumberedType
<1>5. /\ Numbered(seq) \in Seq(U) /\ Len(Numbered(seq)) = n
      /\ \A k \in 1..n : Numbered(seq)[k] = [index |-> k - 1, tool |-> seq[k]]
  BY <1>1, NumberedType
<1> HIDE DEF last, U
<1>6. /\ right \in Seq(U) /\ Len(right) = n + 1
      /\ \A k \in 1..n : right[k] = Numbered(seq)[k]
      /\ right[n + 1] = last
  BY <1>2, <1>5, AppendProperties
<1> HIDE DEF left, right
<1>7. ASSUME NEW k \in 1..(n + 1) PROVE left[k] = right[k]
  <2>1. CASE k \in 1..n
    BY <1>3, <1>4, <1>5, <1>6, <2>1, ZenonT(40)
  <2>2. CASE k = n + 1
    BY <1>1, <1>3, <1>4, <1>6, <2>2 DEF last
  <2> QED BY <2>1, <2>2
<1>8. left = right
  BY <1>4, <1>6, <1>7, SeqEqual
<1> QED BY <1>8 DEF left, right, last

(* The tool calls written are the tools held.                               *)
LEMMA ToolsWrittenOn ==
    ASSUME out \in Seq(Chunk), NEW c \in Chunk, out' = Append(out, c),
           tools \in Seq(Tool), ToolsWritten,
           \/ c.kind = "tool" /\ c.index = Len(tools) /\ c.tool \in Tool
              /\ tools' = Append(tools, c.tool)
           \/ c.kind # "tool" /\ tools' = tools
    PROVE  ToolsWritten'
<1> DEFINE n == Len(out) + 1
           S == Sent("tool")
           S2 == Sent("tool")'
           val == [j \in S |-> [index |-> out[j].index, tool |-> out[j].tool]]
           val2 == [j \in S2 |-> [index |-> out'[j].index, tool |-> out'[j].tool]]
<1>1. /\ S \subseteq 1..Len(out) /\ Len(out) \in Nat
      /\ c.kind = "tool" => S2 = S \cup {n}
      /\ c.kind # "tool" => S2 = S
      /\ \A j \in S : out'[j] = out[j]
      /\ out'[n] = c
  BY SentAppend
<1>2. S \in SUBSET Nat /\ n \in Nat /\ \A j \in S : j < n
  BY <1>1, BelowNext
<1>3. InOrder(Numbered(tools), S, val)
  BY DEF ToolsWritten
<1>4. CASE /\ c.kind = "tool" /\ c.index = Len(tools) /\ c.tool \in Tool
           /\ tools' = Append(tools, c.tool)
  <2> DEFINE last == [index |-> Len(tools), tool |-> c.tool]
             U == [index : Nat, tool : Tool]
  <2>1. S2 = S \cup {n}
    BY <1>1, <1>4
  <2>2. (\A j \in S : val2[j] = val[j]) /\ val2[n] = last
    BY <1>1, <1>4, <2>1
  <2>3. Numbered(tools') = Append(Numbered(tools), last)
    BY <1>4, NumberedAppend
  <2>4. Numbered(tools) \in Seq(U)
    BY NumberedType
  <2>5. last \in U
    BY <1>4, LenProperties
  <2> HIDE DEF n, S, S2, val, val2, last, U
  <2>6. InOrder(Append(Numbered(tools), last), S \cup {n}, val2)
    BY <1>2, <1>3, <2>2, <2>4, <2>5, InOrderAppend
  <2>7. InOrder(Numbered(tools'), S2, val2)
    BY <2>1, <2>3, <2>6
  <2> QED BY <2>7 DEF ToolsWritten, S2, val2
<1>5. CASE c.kind # "tool" /\ tools' = tools
  <2>1. S2 = S
    BY <1>1, <1>5
  <2>2. \A j \in S : val2[j] = val[j]
    BY <1>1, <2>1
  <2> HIDE DEF n, S, S2, val, val2
  <2>3. InOrder(Numbered(tools), S2, val2)
    BY <1>3, <2>1, <2>2, InOrderKept
  <2> QED BY <1>5, <2>3 DEF ToolsWritten, S2, val2
<1> QED BY <1>4, <1>5

(* Only the delta of its kind writes to a builder.                          *)
LEMMA ApplyTexts ==
    ASSUME NEW e \in Events, Apply(e), err = "none"
    PROVE  /\ e.type = "text-delta" => text' = Write(text, e.text)
           /\ e.type # "text-delta" => text' = text
           /\ e.type = "reasoning-delta" => reasoning' = Write(reasoning, e.text)
           /\ e.type # "reasoning-delta" => reasoning' = reasoning
<1>1. CASE Latched(e)
  BY <1>1 DEF Latched
<1>2. CASE ReasoningDelta(e) \/ TextDelta(e)
  BY <1>2 DEF ReasoningDelta, TextDelta
<1>3. CASE Ignored(e)
  BY <1>3 DEF Ignored, reducerState, ProvisionalTypes
<1>4. CASE InvalidToolCall(e) \/ UpstreamFailure(e)
  BY <1>4 DEF InvalidToolCall, UpstreamFailure, FailureTypes
<1>5. CASE DuplicateToolCall(e) \/ ToolCall(e)
  BY <1>5 DEF DuplicateToolCall, ToolCall, reducerState
<1>6. CASE Terminal(e)
  BY <1>6 DEF Terminal, TerminalTypes
<1> QED BY <1>1, <1>2, <1>3, <1>4, <1>5, <1>6 DEF Apply

Content == Written(text, "text") /\ Written(reasoning, "reasoning") /\ ToolsWritten
Finals ==
    \A j \in Sent("final") :
        /\ out[j].reason = Outcome.finishReason
        /\ out[j].usage = IF request.includeUsage THEN Outcome.usage ELSE NoUsage

(* A chunk and what the reducer made of its event agree.                    *)
LEMMA ContentOn ==
    ASSUME out \in Seq(Chunk), ReducerTypeOK, Content, NEW c \in Chunk, out' = Append(out, c),
           IF c.kind = "text" THEN c.text \in Texts \cup {""} /\ text' = Write(text, c.text)
                              ELSE text' = text,
           IF c.kind = "reasoning"
           THEN c.text \in Texts \cup {""} /\ reasoning' = Write(reasoning, c.text)
           ELSE reasoning' = reasoning,
           \/ c.kind = "tool" /\ c.index = Len(tools) /\ c.tool \in Tool
              /\ tools' = Append(tools, c.tool)
           \/ c.kind # "tool" /\ tools' = tools
    PROVE  Content'
<1>0. text \in Seq(Texts) /\ reasoning \in Seq(Texts) /\ tools \in Seq(Tool)
  BY DEF ReducerTypeOK
<1>1. Written(text, "text")'
  <2>1. LET nonEmpty == {j \in Sent("text")' : out'[j].text # ""}
        IN  InOrder(text', nonEmpty, [j \in nonEmpty |-> out'[j].text])
    BY <1>0, WrittenOn DEF Content
  <2> QED BY <2>1 DEF Written
<1>2. Written(reasoning, "reasoning")'
  <2>1. LET nonEmpty == {j \in Sent("reasoning")' : out'[j].text # ""}
        IN  InOrder(reasoning', nonEmpty, [j \in nonEmpty |-> out'[j].text])
    BY <1>0, WrittenOn DEF Content
  <2> QED BY <2>1 DEF Written
<1>3. ToolsWritten'
  BY <1>0, ToolsWrittenOn DEF Content
<1> QED BY <1>1, <1>2, <1>3 DEF Content

(* A new stream has said nothing, and its reducer holds nothing.            *)
LEMMA ContentAtFirst ==
    ASSUME NewReducer, UNCHANGED reducerVars, out' = <<[kind |-> "role"]>>
    PROVE  Content' /\ Sent("final")' = {}
<1>1. DOMAIN out' = {1} /\ out'[1] = [kind |-> "role"]
  OBVIOUS
<1>2. Sent("text")' = {} /\ Sent("reasoning")' = {} /\ Sent("tool")' = {} /\ Sent("final")' = {}
  BY <1>1 DEF Sent
<1>3. text' = <<>> /\ reasoning' = <<>> /\ tools' = <<>>
  BY DEF NewReducer, reducerVars, reducerState
<1>4. Numbered(tools') = <<>>
  BY <1>3 DEF Numbered
<1>5. Written(text, "text")'
  BY <1>2, <1>3, InOrderEmpty DEF Written
<1>6. Written(reasoning, "reasoning")'
  BY <1>2, <1>3, InOrderEmpty DEF Written
<1>7. ToolsWritten'
  BY <1>2, <1>4, InOrderEmpty DEF ToolsWritten
<1> QED BY <1>2, <1>5, <1>6, <1>7 DEF Content

(* A chunk that is no content leaves what was said.                         *)
LEMMA ContentKept ==
    ASSUME out \in Seq(Chunk), ReducerTypeOK, Content, NEW c \in Chunk, out' = Append(out, c),
           c.kind \notin {"text", "reasoning", "tool"}, UNCHANGED <<text, reasoning, tools>>
    PROVE  Content'
BY ContentOn

(* Before the end there is no finish reason.                                *)
LEMMA NoFinals ==
    ASSUME KindsInv, phase \in Scanning \cup {"ended"}, request.stream
    PROVE  Sent("final") = {}
BY DEF KindsInv, Sent, ContentKinds

(* An error adds nothing to a stream, whatever the failing event did.       *)
LEMMA StreamBreaks ==
    ASSUME ChatInv, KindsInv, request.stream, UNCHANGED request,
           phase \in Scanning \cup {"ended"}, Content,
           NEW code \in {"upstream_error", "incomplete_stream"}, Break(code),
           UNCHANGED <<text, reasoning, tools>>
    PROVE  Content' /\ Sent("final")' = {} /\ ~Succeeded'
<1>1. out \in Seq(Chunk) /\ ReducerTypeOK /\ ChatTypeOK
  BY DEF ChatInv, ChatTypeOK, ReducerInv
<1> DEFINE c == [kind |-> "error", code |-> code]
<1>2. c \in Chunk /\ out' = Append(out, c) /\ c.kind = "error"
  BY FixedChunks DEF Break
<1> HIDE DEF c
<1>3. Content'
  BY <1>1, <1>2, ContentKept
<1>4. Sent("final")' = {}
  BY <1>1, <1>2, SentAppend, NoFinals
<1> QED BY <1>1, <1>3, <1>4, BreakIsNoSuccess

(* One event, its chunk and the reducer's change agree.                     *)
LEMMA StreamApplies ==
    ASSUME ChatInv, KindsInv, request.stream, Content, ApplyEvent
    PROVE  Content' /\ Sent("final")' = {} /\ ~Succeeded'
<1> DEFINE e == sent[read]
<1>0. /\ out \in Seq(Chunk) /\ ReducerTypeOK /\ ReducerInv /\ ChatTypeOK /\ Progress
      /\ phase \in Scanning \cup {"ended"} /\ UNCHANGED request
  BY DEF ChatInv, ChatTypeOK, ReducerInv, ApplyEvent, Scanning, requestVars
<1>1. e \in Events /\ Apply(e) /\ err = "none"
  BY <1>0, ApplyEventWrites
<1>2. /\ e.type = "text-delta" => text' = Write(text, e.text)
      /\ e.type # "text-delta" => text' = text
      /\ e.type = "reasoning-delta" => reasoning' = Write(reasoning, e.text)
      /\ e.type # "reasoning-delta" => reasoning' = reasoning
  BY <1>1, ApplyTexts
<1>3. AddsTool(e) \/ KeepsTools(e)
  BY <1>1, ApplyTools
<1>4. Sent("final") = {}
  BY <1>0, NoFinals
<1>5. ~Succeeded
  <2>1. phase \notin {"final", "closed"}
    BY <1>0 DEF Scanning
  <2> QED BY <2>1, NotYetSucceeded
<1>6. CASE Fails(e) /\ Break("upstream_error")
  <2>1. e.type \notin DeltaTypes
    BY <1>6 DEF Fails, FailureTypes, DeltaTypes
  <2>2. UNCHANGED <<text, reasoning>>
    BY <1>2, <2>1 DEF DeltaTypes
  <2>3. tools' = tools
    BY <1>3, <1>6 DEF AddsTool, KeepsTools
  <2> QED BY <1>0, <1>6, <2>2, <2>3, StreamBreaks
<1>7. CASE ~Fails(e) /\ UNCHANGED <<status, out>> /\ ChunkFor(e) = <<>>
  <2>1. e.type \notin DeltaTypes /\ (e.type = "tool-call" => ToolOf(e).id \in DOMAIN toolIndex)
    BY <1>0, <1>1, <1>7, NoChunk
  <2>2. UNCHANGED <<text, reasoning, tools>>
    BY <1>2, <1>3, <2>1 DEF DeltaTypes, AddsTool, KeepsTools
  <2>3. Content'
    <3>1. UNCHANGED <<out, text, reasoning, tools>>
      BY <1>7, <2>2
    <3>2. UNCHANGED <<Written(text, "text"), Written(reasoning, "reasoning"), ToolsWritten>>
      BY <3>1 DEF Written, ToolsWritten, Sent, Numbered
    <3> QED BY <3>2 DEF Content
  <2>4. Sent("final")' = {} /\ ~Succeeded'
    BY <1>4, <1>5, <1>7 DEF Sent, Succeeded, Last
  <2> QED BY <2>3, <2>4
<1>8. ASSUME NEW c \in Chunk, ~Fails(e), ChunkFor(e) = <<c>>, out' = Append(out, c)
      PROVE  Content' /\ Sent("final")' = {} /\ ~Succeeded'
  <2>1. \/ e.type = "text-delta" /\ c = TextChunk(e)
        \/ e.type = "reasoning-delta" /\ c = ReasoningChunk(e)
        \/ e.type = "tool-call" /\ ToolOf(e).id \notin DOMAIN toolIndex /\ c = ToolChunk(e)
    BY <1>0, <1>1, <1>8, ContentChunk
  <2>2. c.kind \in {"text", "reasoning", "tool"}
    BY <2>1 DEF TextChunk, ReasoningChunk, ToolChunk
  <2>3. Content'
    <3>1. CASE e.type = "text-delta" /\ c = TextChunk(e)
      <4>1. c.kind = "text" /\ c.text = e.text /\ e.text \in Texts \cup {""}
        BY <1>1, <3>1, EventFields DEF TextChunk, DeltaTypes
      <4>2. reasoning' = reasoning /\ tools' = tools /\ text' = Write(text, c.text)
        BY <1>2, <1>3, <3>1, <4>1 DEF AddsTool, KeepsTools
      <4> QED BY <1>0, <1>8, <4>1, <4>2, ContentOn
    <3>2. CASE e.type = "reasoning-delta" /\ c = ReasoningChunk(e)
      <4>1. c.kind = "reasoning" /\ c.text = e.text /\ e.text \in Texts \cup {""}
        BY <1>1, <3>2, EventFields DEF ReasoningChunk, DeltaTypes
      <4>2. text' = text /\ tools' = tools /\ reasoning' = Write(reasoning, c.text)
        BY <1>2, <1>3, <3>2, <4>1 DEF AddsTool, KeepsTools
      <4> QED BY <1>0, <1>8, <4>1, <4>2, ContentOn
    <3>3. CASE /\ e.type = "tool-call" /\ ToolOf(e).id \notin DOMAIN toolIndex
               /\ c = ToolChunk(e)
      <4>1. c.kind = "tool" /\ c.index = Len(tools) /\ c.tool = ToolOf(e) /\ c.tool \in Tool
        BY <1>1, <1>8, <3>3, ToolOfType DEF ToolChunk, Fails
      <4>2. text' = text /\ reasoning' = reasoning /\ tools' = Append(tools, c.tool)
        BY <1>1, <1>2, <1>3, <1>8, <3>3, <4>1 DEF AddsTool, KeepsTools
      <4> QED BY <1>0, <1>8, <4>1, <4>2, ContentOn
    <3> QED BY <2>1, <3>1, <3>2, <3>3
  <2>4. Sent("final")' = {}
    BY <1>0, <1>4, <1>8, <2>2, SentAppend
  <2>5. Last(out') = c
    BY <1>0, <1>8, OutGrows
  <2>6. ~Succeeded'
    BY <2>2, <2>5 DEF Succeeded, Last
  <2> QED BY <2>3, <2>4, <2>6
<1> QED BY <1>0, <1>6, <1>7, <1>8, ApplyEventWrites

(* What StreamEqualsOutcome says of a stream that is open or was.           *)
LEMMA StreamSays ==
    StreamEqualsOutcome <=>
        (request.stream /\ status = 200 => Content /\ Finals /\ (Succeeded => Sent("final") # {}))
BY Zenon DEF StreamEqualsOutcome, Content, Finals

(* One step keeps stream and reducer equal.                                 *)
LEMMA StreamStep ==
    ChatInv /\ KindsInv /\ StreamEqualsOutcome /\ [ChatNext]_chatVars => StreamEqualsOutcome'
<1> SUFFICES ASSUME ChatInv, KindsInv, StreamEqualsOutcome, [ChatNext]_chatVars
             PROVE  StreamEqualsOutcome'
  OBVIOUS
<1>0. /\ out \in Seq(Chunk) /\ ReducerTypeOK /\ ReducerInv /\ ChatTypeOK /\ ReplyInv
      /\ request \in Request
  BY DEF ChatInv, ChatTypeOK, ReducerInv
<1>1. (StreamEqualsOutcome <=>
        (request.stream /\ status = 200 => Content /\ Finals /\ (Succeeded => Sent("final") # {})))'
  BY StreamSays, PTL
<1>2. CASE ~request.stream' \/ status' # 200
  BY <1>1, <1>2
<1>3. CASE UNCHANGED <<reducerVars, request, replyVars>>
  <2>1. UNCHANGED <<text, reasoning, tools, out, request, status, Outcome>>
    BY <1>3, ReducerKept DEF reducerVars, reducerState, replyVars
  <2>2. UNCHANGED <<Written(text, "text"), Written(reasoning, "reasoning"), ToolsWritten>>
    BY <2>1 DEF Written, ToolsWritten, Sent, Numbered
  <2>3. UNCHANGED <<Content, Finals, Succeeded, Sent("final")>>
    BY <2>1, <2>2 DEF Content, Finals, Succeeded, Last, Sent
  <2> QED BY <1>1, <2>1, <2>3, StreamSays
<1>4. ASSUME NEW code \in 400..599, Refuse(code)
      PROVE  StreamEqualsOutcome'
  <2>1. status' # 200
    BY <1>4 DEF Refuse
  <2> QED BY <1>2, <2>1
<1>5. ASSUME Content', Sent("final")' = {}, ~Succeeded'
      PROVE  StreamEqualsOutcome'
  <2>1. Finals'
    BY <1>5 DEF Finals
  <2> QED BY <1>1, <1>5, <2>1
<1>6. CASE /\ request.stream /\ UNCHANGED request
           /\ phase \in Scanning \cup {"ended"}
  <2>1. Content
    BY <1>0, <1>6, StreamSays DEF ReplyInv
  <2>2. ASSUME NEW code \in {"upstream_error", "incomplete_stream"}, Break(code), UNCHANGED reducerVars
        PROVE  StreamEqualsOutcome'
    <3>1. UNCHANGED <<text, reasoning, tools>>
      BY <2>2 DEF reducerVars, reducerState
    <3> QED BY <1>5, <1>6, <2>1, <2>2, <3>1, StreamBreaks
  <2>3. CASE TakeMalformed \/ ReadFails \/ FinishFails
    BY <2>2, <2>3 DEF TakeMalformed, ReadFails, FinishFails
  <2>4. CASE CheckContext
    BY <1>3, <1>6, <2>2, <2>4 DEF CheckContext
  <2>5. CASE ApplyEvent
    BY <1>5, <1>6, <2>1, <2>5, StreamApplies
  <2>6. CASE TakeEvent \/ EndOfBody
    BY <1>3, <1>6, <2>6 DEF TakeEvent, EndOfBody
  <2>7. CASE WriteFinal
    <3>1. /\ out' = Append(out, FinalChunk) /\ UNCHANGED reducerVars
          /\ FinalChunk \in Chunk /\ FinalChunk.kind = "final"
          /\ FinalChunk.reason = FinishedReason
          /\ FinalChunk.usage = IF request.includeUsage THEN usage ELSE NoUsage
      BY <1>0, <1>6, <2>7, FinalChunks DEF WriteFinal, FinalChunk
    <3>2. UNCHANGED <<text, reasoning, tools, usage, FinishedReason, request>>
      BY <1>6, <3>1, ReducerKept DEF reducerVars, reducerState
    <3>3. Content'
      BY <1>0, <2>1, <3>1, <3>2, ContentKept
    <3>4. Sent("final")' = {Len(out) + 1} /\ out'[Len(out) + 1] = FinalChunk
      BY <1>0, <1>6, <3>1, SentAppend, NoFinals
    <3>5. Finals'
      BY <3>1, <3>2, <3>4 DEF Finals, Outcome
    <3> QED BY <1>1, <3>3, <3>4, <3>5
  <2>8. CASE UNCHANGED chatVars \/ UpstreamSends \/ UpstreamEnds \/ ClientLeaves
    BY <1>3, <1>6, <2>8 DEF chatVars, replyVars, UpstreamSends, UpstreamEnds, ClientLeaves
  <2> QED BY <1>6, <2>3, <2>4, <2>5, <2>6, <2>7, <2>8, ZenonT(40)
          DEF ChatNext, Handler, Environment, Returned, Scanning, Authenticate, ReadRequest,
              CallUpstream, PassOnRejection, OpenReply, WriteDone, UpstreamAnswers, UpstreamUnreachable
<1>7. CASE WriteDone
  <2> DEFINE done == [kind |-> "done"]
  <2>1. /\ out' = Append(out, done) /\ UNCHANGED <<reducerVars, request, status>>
        /\ phase = "final" /\ request.stream /\ status = 200
    BY <1>0, <1>7 DEF WriteDone, requestVars, ReplyInv
  <2>2. out # <<>> /\ Last(out).kind = "final"
    BY <2>1 DEF KindsInv
  <2>3. Content /\ Finals /\ Sent("final") # {}
    BY <2>1, <2>2, StreamSays DEF Succeeded
  <2>4. done \in Chunk /\ done.kind = "done"
    BY FixedChunks
  <2> HIDE DEF done
  <2>5. UNCHANGED <<text, reasoning, tools, Outcome, request>>
    BY <2>1, ReducerKept DEF reducerVars, reducerState
  <2>6. Content'
    BY <1>0, <2>1, <2>3, <2>4, <2>5, ContentKept
  <2>7. Sent("final")' = Sent("final") /\ \A j \in Sent("final") : out'[j] = out[j]
    BY <1>0, <2>1, <2>4, SentAppend
  <2>8. Finals'
    BY <2>3, <2>5, <2>7 DEF Finals
  <2> QED BY <1>1, <2>3, <2>6, <2>7, <2>8
<1>8. CASE OpenReply
  <2>1. CASE request.stream
    <3>1. /\ NewReducer /\ UNCHANGED reducerVars /\ out' = <<[kind |-> "role"]>>
      BY <1>8, <2>1 DEF OpenReply, ChatInv, Progress, Early
    <3>2. ~Succeeded'
      BY <3>1 DEF Succeeded, Last
    <3> QED BY <1>5, <3>1, <3>2, ContentAtFirst
  <2>2. CASE ~request.stream
    BY <1>2, <1>8, <2>2 DEF OpenReply, requestVars
  <2> QED BY <2>1, <2>2
<1>9. CASE ~request.stream
  <2>1. request' = request
    BY <1>9 DEF ChatNext, Handler, Environment, Returned, chatVars, requestVars, Authenticate,
       ReadRequest, CallUpstream, PassOnRejection, OpenReply, TakeEvent, TakeMalformed, ReadFails,
       EndOfBody, CheckContext, ApplyEvent, FinishFails, WriteFinal, WriteDone, UpstreamAnswers,
       UpstreamUnreachable, UpstreamSends, UpstreamEnds, ClientLeaves
  <2> QED BY <1>2, <1>9, <2>1
<1>10. CASE UpstreamSends \/ UpstreamEnds \/ ClientLeaves \/ UpstreamAnswers \/ CallUpstream
  BY <1>3, <1>10 DEF UpstreamSends, UpstreamEnds, ClientLeaves, UpstreamAnswers, CallUpstream, requestVars
<1>11. CASE Authenticate \/ UpstreamUnreachable
  BY <1>3, <1>4, <1>11 DEF Authenticate, UpstreamUnreachable, requestVars
<1>12. CASE ReadRequest
  BY <1>0, <1>3, <1>4, <1>12, ReadRequestDecides DEF ReadRequest, requestVars
<1>13. CASE PassOnRejection
  <2>1. (IF answer < 400 THEN 502 ELSE answer) \in 400..599
    BY <1>0, UpstreamStatusesAssumption DEF ChatTypeOK
  <2> QED BY <1>4, <1>13, <2>1 DEF PassOnRejection
<1>14. CASE UNCHANGED chatVars
  BY <1>3, <1>14 DEF chatVars, replyVars
<1>15. CASE \/ TakeEvent \/ TakeMalformed \/ ReadFails \/ EndOfBody \/ CheckContext
            \/ ApplyEvent \/ FinishFails \/ WriteFinal
  <2>1. phase \in Scanning \cup {"ended"} /\ UNCHANGED request
    BY <1>15 DEF TakeEvent, TakeMalformed, ReadFails, EndOfBody, CheckContext, ApplyEvent,
                 FinishFails, WriteFinal, Scanning, requestVars
  <2> QED BY <1>6, <1>9, <2>1
<1> QED BY <1>7, <1>8, <1>10, <1>11, <1>12, <1>13, <1>14, <1>15
        DEF ChatNext, Handler, Environment, Returned

(* The chunks a client holds add up to what the reducer holds, and in the   *)
(* end to the completion a buffered request would have got                  *)
(* (server.go:150-204, project.go:11-99).                                   *)
THEOREM StreamIsTheOutcome == ChatSpec => []StreamEqualsOutcome
<1>1. ChatInit => StreamEqualsOutcome
  BY DEF ChatInit, StreamEqualsOutcome
<1> QED BY <1>1, StreamStep, ChatInvariant, KindsInvariant, PTL DEF ChatSpec

-----------------------------------------------------------------------------
(* The refinement: every step of the handler is one the contract allows.    *)

(* The reply as the contract sees it.                                       *)
Shapes == [k \in DOMAIN out |-> Shape(out[k])]

(* The shapes of the chunks without a payload that matters.                 *)
LEMMA PlainShape ==
    ASSUME NEW c, c.kind \notin {"tool", "final"}
    PROVE  Shape(c) = [kind |-> c.kind]
BY DEF Shape

(* A shape keeps its kind.                                                  *)
LEMMA ShapeKind == ASSUME NEW c PROVE Shape(c).kind = c.kind
<1>1. CASE c.kind = "tool"
  BY <1>1 DEF Shape
<1>2. CASE c.kind = "final"
  BY <1>2 DEF Shape
<1>3. CASE c.kind \notin {"tool", "final"}
  BY <1>3, PlainShape
<1> QED BY <1>1, <1>2, <1>3

(* Appending a chunk appends its shape.                                     *)
LEMMA ShapesAppend ==
    ASSUME out \in Seq(Chunk), NEW c \in Chunk, out' = Append(out, c)
    PROVE  /\ Shapes' = Append(Shapes, Shape(c))
           /\ Len(Shapes) = Len(out) /\ DOMAIN Shapes = 1..Len(out)
<1> DEFINE U == {Shape(d) : d \in Chunk}
<1>1. PICK n \in Nat : n = Len(out)
  BY LenProperties
<1>2. /\ DOMAIN out = 1..n /\ DOMAIN out' = 1..(n + 1)
      /\ \A j \in 1..n : out'[j] = out[j]
      /\ out'[n + 1] = c /\ out' \in Seq(Chunk)
  BY <1>1, OutGrows
<1>3. \A j \in 1..n : out[j] \in Chunk
  BY <1>1, ElementOfSeq
<1>4. Shapes \in [1..n -> U]
  BY <1>2, <1>3 DEF Shapes
<1>5. Shapes' \in [1..(n + 1) -> U]
  <2>1. \A j \in 1..(n + 1) : out'[j] \in Chunk
    BY <1>2, <1>3
  <2> QED BY <1>2, <2>1 DEF Shapes
<1>6. /\ \A j \in 1..n : Shapes'[j] = Shapes[j]
      /\ Shapes'[n + 1] = Shape(c)
  BY <1>1, <1>2 DEF Shapes
<1>7. Shape(c) \in U
  OBVIOUS
<1> HIDE DEF U
<1>8. /\ Shapes \in Seq(U) /\ Len(Shapes) = n
      /\ Shapes' \in Seq(U) /\ Len(Shapes') = n + 1
  BY <1>4, <1>5, FunctionIsSeq
<1> DEFINE longer == Append(Shapes, Shape(c))
<1>9. /\ longer \in Seq(U) /\ Len(longer) = n + 1
      /\ \A j \in 1..n : longer[j] = Shapes[j]
      /\ longer[n + 1] = Shape(c)
  BY <1>7, <1>8, AppendProperties
<1> HIDE DEF longer
<1>10. \A j \in 1..(n + 1) : Shapes'[j] = longer[j]
  BY <1>6, <1>9
<1>11. Shapes' = longer
  BY <1>8, <1>9, <1>10, SeqEqual
<1> QED BY <1>1, <1>4, <1>8, <1>11 DEF longer

(* The shapes of replies that are one chunk long, and of none.              *)
LEMMA ShapesOne ==
    /\ out = <<>> => Shapes = <<>>
    /\ \A c : out' = <<c>> => Shapes' = <<Shape(c)>>
BY DEF Shapes

(* An open stream is one of the contract.                                   *)
LEMMA OpenInContract ==
    ASSUME ChatInv, KindsInv, request.stream, phase \in Scanning \cup {"ended"}
    PROVE  Promise!Streaming
<1>1. /\ out \in Seq(Chunk) /\ out # <<>> /\ out[1].kind = "role"
      /\ \A j \in DOMAIN out : out[j].kind \in ContentKinds
  BY DEF ChatInv, ChatTypeOK, KindsInv
<1>2. DOMAIN out = 1..Len(out) /\ 1 \in 1..Len(out)
  BY <1>1, LenProperties, NotEmptyHasFirst
<1>3. /\ DOMAIN Shapes = DOMAIN out
      /\ \A j \in DOMAIN out : Shapes[j].kind = out[j].kind
  BY ShapeKind DEF Shapes
<1>4. Shapes # <<>>
  <2>1. DOMAIN Shapes # {}
    BY <1>2, <1>3
  <2> QED BY <2>1
<1>5. {Shapes[j].kind : j \in DOMAIN Shapes} \cap {"final", "done", "error"} = {}
  BY <1>1, <1>3 DEF ContentKinds
<1> QED BY <1>1, <1>2, <1>3, <1>4, <1>5 DEF Promise!Streaming, Promise!Kinds, Shapes

(* The tool calls of the contract are those the reducer holds.              *)
LEMMA ToolsInContract ==
    ASSUME ReducerInv, out \in Seq(Chunk), ToolsWritten
    PROVE  /\ Promise!ToolIdsSent = DOMAIN toolIndex
           /\ {Shapes[j].index : j \in Promise!ToolsSent} = 0..(Len(tools) - 1)
           /\ Promise!ToolsSent = {} <=> tools = <<>>
           /\ Len(tools) <= Len(out)
<1> DEFINE S == Sent("tool")
           val == [j \in S |-> [index |-> out[j].index, tool |-> out[j].tool]]
<1>1. PICK m \in Nat : m = Len(tools) /\ DOMAIN tools = 1..m /\ tools \in Seq(Tool)
  BY LenProperties DEF ReducerInv, ReducerTypeOK
<1>2. DOMAIN Numbered(tools) = 1..m /\ \A k \in 1..m : Numbered(tools)[k] = [index |-> k - 1, tool |-> tools[k]]
  BY <1>1 DEF Numbered
<1>3. PICK at \in [1..m -> S] :
          /\ {at[k] : k \in 1..m} = S
          /\ \A k \in 1..m : Numbered(tools)[k] = val[at[k]]
  <2>1. InOrder(Numbered(tools), S, val)
    BY DEF ToolsWritten
  <2> HIDE DEF val, S
  <2> QED BY <1>2, <2>1 DEF InOrder
<1>4. \A k \in 1..m : out[at[k]].index = k - 1 /\ out[at[k]].tool = tools[k]
  <2> SUFFICES ASSUME NEW k \in 1..m
               PROVE  out[at[k]].index = k - 1 /\ out[at[k]].tool = tools[k]
    OBVIOUS
  <2>1. at[k] \in S /\ val[at[k]] = [index |-> k - 1, tool |-> tools[k]]
    BY <1>2, <1>3
  <2> QED BY <2>1
<1>5. Promise!ToolsSent = S
  <2>1. Promise!ToolsSent = {j \in DOMAIN Shapes : Shapes[j].kind = "tool"}
    BY DEF Promise!ToolsSent, Shapes
  <2> QED BY <2>1, ShapeKind DEF Shapes, Sent
<1>6. \A j \in S : Shapes[j].index = out[j].index /\ Shapes[j].id = out[j].tool.id
  BY DEF Shapes, Shape, Sent
<1>7. {Shapes[j].index : j \in S} = 0..(m - 1)
  <2>1. {Shapes[j].index : j \in S} = {k - 1 : k \in 1..m}
    BY <1>3, <1>4, <1>6
  <2>2. {k - 1 : k \in 1..m} = 0..(m - 1)
    <3>1. ASSUME NEW i \in 0..(m - 1) PROVE i \in {k - 1 : k \in 1..m}
      <4>1. i + 1 \in 1..m /\ i = (i + 1) - 1
        OBVIOUS
      <4> QED BY <4>1
    <3>2. \A k \in 1..m : k - 1 \in 0..(m - 1)
      OBVIOUS
    <3> QED BY <3>1, <3>2
  <2> QED BY <2>1, <2>2
<1>8. Promise!ToolIdsSent = DOMAIN toolIndex
  <2>1. Promise!ToolIdsSent = {Shapes[j].id : j \in S}
    BY ShapeKind DEF Promise!ToolIdsSent, Shapes, Sent
  <2>2. {Shapes[j].id : j \in S} = {tools[k].id : k \in 1..m}
    BY <1>3, <1>4, <1>6
  <2> QED BY <1>1, <2>1, <2>2 DEF ReducerInv, ToolIndexAgrees
<1>9. S = {} <=> tools = <<>>
  <2>1. S = {} <=> m = 0
    BY <1>3
  <2> QED BY <1>1, <2>1, EmptySeq
<1>10. Len(tools) <= Len(out)
  <2>1. Len(out) \in Nat /\ S \in SUBSET (1..Len(out))
    BY LenProperties DEF Sent
  <2>2. /\ Numbered(tools) \in Seq([index : Nat, tool : Tool])
        /\ Len(Numbered(tools)) = m
    BY <1>1, NumberedType
  <2>3. InOrder(Numbered(tools), S, val)
    BY DEF ToolsWritten
  <2> HIDE DEF S, val
  <2>4. Len(Numbered(tools)) <= Len(out)
    BY <2>1, <2>2, <2>3, InOrderBounded
  <2> QED BY <1>1, <2>2, <2>4
<1> QED BY <1>1, <1>5, <1>7, <1>8, <1>9, <1>10

(* The handler that arrives has replied nothing.                            *)
LEMMA ContractInit == ChatInit => Promise!ContractInit
BY ShapesOne DEF ChatInit, Promise!ContractInit, Shapes

(* Every step is one of the contract, or writes nothing.                    *)
LEMMA ContractStep ==
    ChatInv /\ KindsInv /\ StreamEqualsOutcome /\ [ChatNext]_chatVars
        => [Promise!ContractNext]_Promise!contractVars
<1> SUFFICES ASSUME ChatInv, KindsInv, StreamEqualsOutcome, [ChatNext]_chatVars
             PROVE  [Promise!ContractNext]_Promise!contractVars
  OBVIOUS
<1>0. /\ out \in Seq(Chunk) /\ ReducerTypeOK /\ ReducerInv /\ ChatTypeOK /\ ReplyInv /\ Progress
  BY DEF ChatInv, ChatTypeOK, ReducerInv
<1>1. CASE UNCHANGED <<status, out>>
  BY <1>1 DEF Promise!contractVars
<1>2. ASSUME NEW code \in 400..599, status = 0, status' = code, out' = <<[kind |-> "json_error"]>>
      PROVE  Promise!Refuse
  <2>1. Shapes' = <<[kind |-> "json_error"]>>
    BY <1>2, ShapesOne, PlainShape
  <2> QED BY <1>2, <2>1 DEF Promise!Refuse, Shapes
<1>3. ASSUME NEW code \in 400..599, Refuse(code), phase \in Early
      PROVE  Promise!Refuse
  BY <1>0, <1>2, <1>3 DEF Refuse, ReplyInv
<1>4. ASSUME NEW c \in Chunk, out' = Append(out, c), UNCHANGED <<request, status>>, request.stream,
             phase \in Scanning \cup {"ended"}
      PROVE  Promise!Extend(Shape(c))
  <2>1. Shapes' = Append(Shapes, Shape(c))
    BY <1>0, <1>4, ShapesAppend
  <2>2. Promise!Streaming
    BY <1>4, OpenInContract
  <2> QED BY <1>4, <2>1, <2>2 DEF Promise!Extend, Shapes
<1>5. ASSUME NEW code \in {"upstream_error", "incomplete_stream"}, Break(code), UNCHANGED request,
             phase \in Scanning \cup {"ended"}
      PROVE  Promise!Break \/ Promise!Refuse
  <2>1. CASE request.stream
    <3> DEFINE c == [kind |-> "error", code |-> code]
    <3>1. c \in Chunk /\ out' = Append(out, c) /\ UNCHANGED status /\ c.kind = "error"
      BY <1>5, <2>1, FixedChunks DEF Break
    <3>2. Shape(c) = [kind |-> "error"]
      BY <3>1, PlainShape
    <3> HIDE DEF c
    <3>3. Promise!Extend(Shape(c))
      BY <1>4, <1>5, <2>1, <3>1
    <3> QED BY <3>2, <3>3 DEF Promise!Break
  <2>2. CASE ~request.stream
    <3>1. status = 0 /\ status' = 502 /\ out' = <<[kind |-> "json_error"]>>
      BY <1>0, <1>5, <2>2 DEF Break, ReplyInv
    <3> QED BY <1>2, <3>1
  <2> QED BY <2>1, <2>2
<1>6. CASE OpenReply
  <2>1. CASE request.stream
    <3>1. status = 0 /\ status' = 200 /\ out' = <<[kind |-> "role"]>>
      BY <1>0, <1>6, <2>1 DEF OpenReply, ReplyInv, Early
    <3>2. Shapes' = <<[kind |-> "role"]>>
      BY <3>1, ShapesOne, PlainShape
    <3>3. Promise!Open
      BY <3>1, <3>2 DEF Promise!Open, Shapes
    <3> QED BY <3>3 DEF Promise!ContractNext
  <2>2. CASE ~request.stream
    BY <1>1, <1>6, <2>2 DEF OpenReply, replyVars
  <2> QED BY <2>1, <2>2
<1>7. CASE ApplyEvent
  <2> DEFINE e == sent[read]
  <2>1. e \in Events /\ phase = "checked" /\ UNCHANGED request
    BY <1>0, <1>7, ApplyEventWrites DEF ApplyEvent, requestVars
  <2>2. ASSUME NEW c \in Chunk, ~Fails(e), request.stream, UNCHANGED status,
               ChunkFor(e) = <<c>>, out' = Append(out, c)
        PROVE  Promise!ContractNext
    <3>1. Promise!Extend(Shape(c))
      BY <1>4, <2>1, <2>2 DEF Scanning
    <3>2. \/ e.type = "text-delta" /\ c = TextChunk(e)
          \/ e.type = "reasoning-delta" /\ c = ReasoningChunk(e)
          \/ e.type = "tool-call" /\ ToolOf(e).id \notin DOMAIN toolIndex /\ c = ToolChunk(e)
      BY <1>0, <2>1, <2>2, ContentChunk
    <3>3. CASE c = TextChunk(e) \/ c = ReasoningChunk(e)
      <4>1. c.kind \in {"text", "reasoning"}
        BY <3>3 DEF TextChunk, ReasoningChunk
      <4>2. Shape(c) = [kind |-> c.kind]
        BY <4>1, PlainShape
      <4> QED BY <3>1, <4>1, <4>2 DEF Promise!Content, Promise!ContractNext
    <3>4. CASE e.type = "tool-call" /\ ToolOf(e).id \notin DOMAIN toolIndex /\ c = ToolChunk(e)
      <4> DEFINE id == ToolOf(e).id
                 index == Len(tools)
      <4>1. ToolsWritten
        BY <1>0, <2>1, <2>2, StreamSays DEF ReplyInv, Content, Scanning
      <4>2. /\ Promise!ToolIdsSent = DOMAIN toolIndex
            /\ {Shapes[j].index : j \in Promise!ToolsSent} = 0..(index - 1)
            /\ index <= Len(out)
        BY <1>0, <4>1, ToolsInContract
      <4>3. id \in Ids \cup {MissingId} /\ id \notin Promise!ToolIdsSent
        BY <2>1, <2>2, <3>4, <4>2, ToolOfType DEF Tool, Fails
      <4>4. index \in 0..Len(Shapes)
        <5>1. Len(Shapes) = Len(out)
          BY <1>0, <2>2, ShapesAppend
        <5>2. index \in Nat /\ Len(out) \in Nat
          BY <1>0, LenProperties DEF ReducerTypeOK
        <5>3. index <= Len(out)
          BY <4>2
        <5> HIDE DEF index
        <5> QED BY <5>1, <5>2, <5>3
      <4>5. Shape(c) = [kind |-> "tool", id |-> id, index |-> index]
        BY <3>4 DEF Shape, ToolChunk
      <4> HIDE DEF id, index
      <4>6. Promise!Call
        BY <3>1, <4>2, <4>3, <4>4, <4>5 DEF Promise!Call, Shapes
      <4> QED BY <4>6 DEF Promise!ContractNext
    <3> QED BY <3>2, <3>3, <3>4
  <2>3. CASE Break("upstream_error")
    BY <1>5, <2>1, <2>3 DEF Promise!ContractNext, Scanning
  <2> QED BY <1>0, <1>1, <1>7, <2>2, <2>3, ApplyEventWrites
<1>8. CASE WriteFinal
  <2>1. phase = "ended" /\ UNCHANGED request /\ FinishError = "none"
    BY <1>8 DEF WriteFinal, requestVars
  <2>2. CASE request.stream
    <3>1. FinalChunk \in Chunk /\ out' = Append(out, FinalChunk) /\ UNCHANGED status
      BY <1>0, <1>8, <2>2, FinalChunks DEF WriteFinal
    <3>2. Promise!Extend(Shape(FinalChunk))
      BY <1>4, <2>1, <2>2, <3>1
    <3>3. Shape(FinalChunk) = [kind |-> "final", reason |-> FinishedReason]
      BY DEF Shape, FinalChunk
    <3>4. Promise!ToolsSent = {} <=> tools = <<>>
      <4>1. ToolsWritten
        BY <1>0, <2>1, <2>2, StreamSays DEF ReplyInv, Content, Scanning
      <4> QED BY <1>0, <4>1, ToolsInContract
    <3>5. /\ FinishedReason = "tool_calls" => tools # <<>>
          /\ FinishedReason = "stop" => tools = <<>>
      BY <1>0, <2>1, InvHonest, NoToolsNoCalls DEF ReasonHonest
    <3>6. FinishedReason \in {"stop", "length", "tool_calls"}
      BY <1>0 DEF ReducerTypeOK, FinishedReason, FinishReasons
    <3>7. Promise!Final
      BY <3>2, <3>3, <3>4, <3>5, <3>6 DEF Promise!Final
    <3> QED BY <3>7 DEF Promise!ContractNext
  <2>3. CASE ~request.stream
    <3>1. status = 0 /\ status' = 200 /\ out' = <<BufferedChatResponse>>
      BY <1>0, <1>8, <2>1, <2>3 DEF WriteFinal, ReplyInv
    <3>2. Shape(BufferedChatResponse) = [kind |-> "completion"]
      BY PlainShape DEF BufferedChatResponse
    <3>3. Shapes' = <<[kind |-> "completion"]>>
      BY <3>1, <3>2, ShapesOne
    <3>4. Promise!AnswerWhole
      BY <3>1, <3>3 DEF Promise!AnswerWhole, Shapes
    <3> QED BY <3>4 DEF Promise!ContractNext
  <2> QED BY <2>2, <2>3
<1>9. CASE WriteDone
  <2> DEFINE done == [kind |-> "done"]
  <2>1. out' = Append(out, done) /\ UNCHANGED status /\ phase = "final"
    BY <1>9 DEF WriteDone
  <2>2. out # <<>> /\ out[Len(out)].kind = "final" /\ Len(out) \in DOMAIN out
    BY <1>0, <2>1, LastIsAChunk DEF KindsInv
  <2>3. done \in Chunk /\ Shape(done) = done
    BY FixedChunks, PlainShape
  <2> HIDE DEF done
  <2>4. Shapes' = Append(Shapes, done) /\ Len(Shapes) = Len(out) /\ DOMAIN Shapes = 1..Len(out)
    BY <1>0, <2>1, <2>3, ShapesAppend
  <2>5. Shapes # <<>> /\ Shapes[Len(Shapes)].kind = "final"
    <3>1. Shapes[Len(out)].kind = "final"
      BY <2>2, ShapeKind DEF Shapes
    <3>2. DOMAIN Shapes # {}
      BY <2>2 DEF Shapes
    <3> QED BY <2>4, <3>1, <3>2
  <2>6. Promise!Done
    BY <2>1, <2>4, <2>5 DEF Promise!Done, Shapes, done
  <2> QED BY <2>6 DEF Promise!ContractNext
<1>10. CASE TakeMalformed \/ ReadFails \/ FinishFails
  BY <1>5, <1>10 DEF TakeMalformed, ReadFails, FinishFails, Promise!ContractNext, Scanning, requestVars
<1>11. CASE CheckContext
  BY <1>1, <1>5, <1>11 DEF CheckContext, Promise!ContractNext, Scanning, requestVars, replyVars
<1>12. CASE UNCHANGED chatVars
  BY <1>1, <1>12 DEF chatVars
<1>13. CASE UpstreamSends \/ UpstreamEnds \/ ClientLeaves \/ UpstreamAnswers \/ CallUpstream
  BY <1>1, <1>13 DEF UpstreamSends, UpstreamEnds, ClientLeaves, UpstreamAnswers, CallUpstream, replyVars
<1>14. CASE TakeEvent \/ EndOfBody
  BY <1>1, <1>14 DEF TakeEvent, EndOfBody, replyVars
<1>15. CASE Authenticate \/ UpstreamUnreachable
  BY <1>1, <1>3, <1>15 DEF Authenticate, UpstreamUnreachable, Early, replyVars, Promise!ContractNext
<1>16. CASE ReadRequest
  <2>1. phase \in Early
    BY <1>16 DEF ReadRequest, Early
  <2> QED BY <1>0, <1>1, <1>3, <1>16, <2>1, ReadRequestDecides DEF replyVars, Promise!ContractNext
<1>17. CASE PassOnRejection
  <2>1. (IF answer < 400 THEN 502 ELSE answer) \in 400..599
    BY <1>0, UpstreamStatusesAssumption DEF ChatTypeOK
  <2> QED BY <1>3, <1>17, <2>1 DEF PassOnRejection, Early, Promise!ContractNext
<1> QED BY <1>6, <1>7, <1>8, <1>9, <1>10, <1>11, <1>12, <1>13, <1>14, <1>15, <1>16, <1>17
        DEF ChatNext, Handler, Environment, Returned

(* The endpoint implements its contract: the reply is an error, a           *)
(* completion, or a stream that numbers its tool calls from 0 and ends in a *)
(* fitting finish reason and [DONE] or in an error (server.go:138-204).     *)
THEOREM ChatKeepsContract == ChatSpec => KeepsContract
BY ContractInit, ContractStep, ChatInvariant, KindsInvariant, StreamIsTheOutcome, PTL
   DEF ChatSpec, KeepsContract, Promise!Contract
=============================================================================
