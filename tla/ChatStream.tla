----------------------------- MODULE ChatStream -----------------------------
(***************************************************************************)
(* One POST /v1/chat/completions from arrival to the end of its reply:     *)
(* handleChatCompletions, bufferedChat and streamChat of                   *)
(* internal/openai/server.go over the Reducer, with the two parties the    *)
(* handler runs against.  The upstream sends events whenever it likes and  *)
(* ends, or breaks, its body; the client may go away at any time, which    *)
(* cancels the request's context.                                          *)
(*                                                                         *)
(* The frame decoder is reduced to what it hands on: an event, a line that *)
(* is no event (Malformed), the end of the body, or a read error.          *)
(***************************************************************************)
EXTENDS Reducer

CONSTANTS
    Malformed,         \* a frame that does not decode to an event
    UpstreamStatuses   \* statuses the upstream may answer with

ASSUME MalformedAssumption == Malformed \notin Events
ASSUME UpstreamStatusesAssumption == UpstreamStatuses \subseteq 200..599

(* What the handler finds in the request.                                   *)
Bodies == {"unreadable", "not_json", "incomplete", "unconvertible", "unsendable", "valid"}
Request == [authorized : BOOLEAN, body : Bodies, stream : BOOLEAN, includeUsage : BOOLEAN]

VARIABLES
    request,
    phase,       \* where the handler is
    calls,       \* requests made to the upstream
    answer,      \* the status of its response, 0 before
    sent,        \* what the upstream has put into its body
    read,        \* how much of it the handler has taken
    bodyEnd,     \* "open", "eof" or "broken"
    cancelled,   \* the client is gone and r.Context() is done
    late,        \* history: events applied after that
    status, out  \* the reply: HTTP status, 0 before it is written, and body

upstreamVars == <<answer, sent, bodyEnd>>
requestVars == <<request, calls, cancelled>>
replyVars == <<status, out>>
chatVars == <<reducerVars, request, phase, calls, answer, sent, read,
              bodyEnd, cancelled, late, status, out>>

Phases == {"received", "authorized", "calling", "waiting", "rejected", "opening",
           "scanning", "taken", "checked", "ended", "final", "closed"}

ChatInit ==
    /\ NewReducer
    /\ request \in Request
    /\ phase = "received" /\ calls = 0 /\ answer = 0
    /\ sent = <<>> /\ read = 0 /\ bodyEnd = "open"
    /\ cancelled = FALSE /\ late = 0
    /\ status = 0 /\ out = <<>>

-----------------------------------------------------------------------------
(* The other two parties.                                                   *)

BodyOpen == phase \in {"rejected", "opening", "scanning", "taken", "checked"} /\ bodyEnd = "open"

UpstreamSends ==
    /\ BodyOpen
    /\ Len(sent) < MaxEvents
    /\ \E item \in Events \cup {Malformed} : sent' = Append(sent, item)
    /\ UNCHANGED <<reducerVars, requestVars, phase, answer, read, bodyEnd, late, replyVars>>

UpstreamEnds ==
    /\ BodyOpen
    /\ bodyEnd' \in {"eof", "broken"}
    /\ UNCHANGED <<reducerVars, requestVars, phase, answer, read, sent, late, replyVars>>

(* net/http watches the connection once the request body has been read.     *)
ClientLeaves ==
    /\ phase \notin {"received", "authorized", "closed"} /\ ~cancelled
    /\ cancelled' = TRUE
    /\ UNCHANGED <<reducerVars, request, phase, calls, upstreamVars, read, late, replyVars>>

-----------------------------------------------------------------------------
(* Before the upstream answers.                                             *)

(* writeOpenAIError: a status and a JSON error, and the handler returns.    *)
Refuse(code) ==
    /\ status' = code
    /\ out' = <<[kind |-> "json_error"]>>
    /\ phase' = "closed"

BugAuthenticateIgnoresResult ==
    /\ phase = "received"
    /\ phase' = "authorized"
    /\ UNCHANGED <<reducerVars, requestVars, upstreamVars, read, late, replyVars>>
Authenticate ==
    /\ phase = "received"
    /\ IF request.authorized THEN phase' = "authorized" /\ UNCHANGED replyVars
                             ELSE Refuse(401)
    /\ UNCHANGED <<reducerVars, requestVars, upstreamVars, read, late>>

ReadRequest ==
    /\ phase = "authorized"
    /\ CASE request.body = "unreadable" -> Refuse(413)
         [] request.body \in {"not_json", "incomplete", "unconvertible"} -> Refuse(400)
         [] request.body = "unsendable" -> Refuse(500)
         [] request.body = "valid" -> phase' = "calling" /\ UNCHANGED replyVars
    /\ UNCHANGED <<reducerVars, requestVars, upstreamVars, read, late>>

CallUpstream ==
    /\ phase = "calling"
    /\ calls' = calls + 1
    /\ phase' = "waiting"
    /\ UNCHANGED <<reducerVars, request, upstreamVars, read, cancelled, late, replyVars>>

(* The client.Do of the handler returns with a response ...                *)
UpstreamAnswers ==
    /\ phase = "waiting"
    /\ answer' \in UpstreamStatuses
    /\ phase' = IF answer' \in 200..299 THEN "opening" ELSE "rejected"
    /\ UNCHANGED <<reducerVars, requestVars, sent, bodyEnd, read, late, replyVars>>

(* ... or with an error, at the latest when the context is done.            *)
UpstreamUnreachable ==
    /\ phase = "waiting"
    /\ Refuse(502)
    /\ UNCHANGED <<reducerVars, requestVars, upstreamVars, read, late>>

(* writeUpstreamError reads the body to its end, or to an error, first.     *)
PassOnRejection ==
    /\ phase = "rejected" /\ (bodyEnd # "open" \/ cancelled)
    /\ Refuse(IF answer < 400 THEN 502 ELSE answer)
    /\ UNCHANGED <<reducerVars, requestVars, upstreamVars, read, late>>

-----------------------------------------------------------------------------
(* streamChat and bufferedChat, which share the scan and differ in what     *)
(* they write.                                                              *)

(* streamChat commits to 200 before it has read anything.                   *)
OpenReply ==
    /\ phase = "opening"
    /\ phase' = "scanning"
    /\ IF request.stream THEN status' = 200 /\ out' = <<[kind |-> "role"]>>
                         ELSE UNCHANGED replyVars
    /\ UNCHANGED <<reducerVars, requestVars, upstreamVars, read, late>>

(* An error during or after the scan.  In a stream it can only be a chunk.  *)
BugDoneAfterError(code) ==
    /\ phase' = "closed"
    /\ IF request.stream
       THEN out' = out \o <<[kind |-> "error", code |-> code], [kind |-> "done"]>> /\ UNCHANGED status
       ELSE status' = 502 /\ out' = <<[kind |-> "json_error"]>>
Break(code) ==
    /\ phase' = "closed"
    /\ IF request.stream
       THEN out' = Append(out, [kind |-> "error", code |-> code]) /\ UNCHANGED status
       ELSE status' = 502 /\ out' = <<[kind |-> "json_error"]>>

HasNext == read < Len(sent)

TakeEvent ==
    /\ phase = "scanning" /\ HasNext /\ sent[read + 1] # Malformed
    /\ read' = read + 1
    /\ phase' = IF request.stream THEN "taken" ELSE "checked"
    /\ UNCHANGED <<reducerVars, requestVars, upstreamVars, late, replyVars>>

BugMalformedSkipped ==
    /\ phase = "scanning" /\ HasNext /\ sent[read + 1] = Malformed
    /\ read' = read + 1
    /\ UNCHANGED <<reducerVars, requestVars, upstreamVars, phase, late, replyVars>>
TakeMalformed ==
    /\ phase = "scanning" /\ HasNext /\ sent[read + 1] = Malformed
    /\ read' = read + 1
    /\ Break("upstream_error")
    /\ UNCHANGED <<reducerVars, requestVars, upstreamVars, late>>

(* Reading the body fails: it broke off, or the context is done, in which   *)
(* case lines that are buffered already may still be taken first.           *)
BugCallWithoutContext ==
    /\ phase = "scanning"
    /\ bodyEnd = "broken" /\ ~HasNext
    /\ Break("upstream_error")
    /\ UNCHANGED <<reducerVars, requestVars, upstreamVars, read, late>>
ReadFails ==
    /\ phase = "scanning"
    /\ cancelled \/ (bodyEnd = "broken" /\ ~HasNext)
    /\ Break("upstream_error")
    /\ UNCHANGED <<reducerVars, requestVars, upstreamVars, read, late>>

BugBrokenBodyIsEof ==
    /\ phase = "scanning" /\ ~HasNext /\ bodyEnd # "open"
    /\ phase' = "ended"
    /\ UNCHANGED <<reducerVars, requestVars, upstreamVars, read, late, replyVars>>
EndOfBody ==
    /\ phase = "scanning" /\ ~HasNext /\ bodyEnd = "eof"
    /\ phase' = "ended"
    /\ UNCHANGED <<reducerVars, requestVars, upstreamVars, read, late, replyVars>>

(* Only the streaming callback looks at the context.                        *)
BugContextNotChecked ==
    /\ phase = "taken"
    /\ phase' = "checked" /\ UNCHANGED replyVars
    /\ UNCHANGED <<reducerVars, requestVars, upstreamVars, read, late>>
CheckContext ==
    /\ phase = "taken"
    /\ IF cancelled THEN Break("upstream_error")
                    ELSE phase' = "checked" /\ UNCHANGED replyVars
    /\ UNCHANGED <<reducerVars, requestVars, upstreamVars, read, late>>

(* The chunk the streaming callback writes for an event Apply accepts.      *)
BugDuplicateCallSentAgain(e) ==
    CASE e.type = "reasoning-delta" -> <<[kind |-> "reasoning", text |-> e.text]>>
      [] e.type = "text-delta" -> <<[kind |-> "text", text |-> e.text]>>
      [] e.type = "tool-call" -> <<[kind |-> "tool", index |-> Len(tools), tool |-> ToolOf(e)]>>
      [] OTHER -> <<>>
ChunkFor(e) ==
    CASE e.type = "reasoning-delta" -> <<[kind |-> "reasoning", text |-> e.text]>>
      [] e.type = "text-delta" -> <<[kind |-> "text", text |-> e.text]>>
      [] e.type = "tool-call" /\ ToolOf(e).id \notin DOMAIN toolIndex ->
            <<[kind |-> "tool", index |-> Len(tools), tool |-> ToolOf(e)]>>
      [] OTHER -> <<>>

ApplyEvent ==
    /\ phase = "checked"
    /\ Apply(sent[read])
    /\ late' = IF cancelled THEN late + 1 ELSE late
    /\ IF err' # "none" THEN Break("upstream_error")
       ELSE /\ phase' = "scanning"
            /\ out' = IF request.stream THEN out \o ChunkFor(sent[read]) ELSE out
            /\ UNCHANGED status
    /\ UNCHANGED <<requestVars, upstreamVars, read>>

FinishFails ==
    /\ phase = "ended" /\ FinishError # "none"
    /\ Break("incomplete_stream")
    /\ UNCHANGED <<reducerVars, requestVars, upstreamVars, read, late>>

(* The last chunk of a stream, or the whole buffered completion.            *)
FinalChunk ==
    [kind |-> "final", reason |-> FinishedReason,
     usage |-> IF request.includeUsage THEN usage ELSE NoUsage]

BufferedChatResponse == [kind |-> "completion", outcome |-> Outcome]

WriteFinal ==
    /\ phase = "ended" /\ FinishError = "none"
    /\ IF request.stream
       THEN out' = Append(out, FinalChunk) /\ phase' = "final" /\ UNCHANGED status
       ELSE out' = <<BufferedChatResponse>> /\ status' = 200 /\ phase' = "closed"
    /\ UNCHANGED <<reducerVars, requestVars, upstreamVars, read, late>>

WriteDone ==
    /\ phase = "final"
    /\ out' = Append(out, [kind |-> "done"])
    /\ phase' = "closed"
    /\ UNCHANGED <<reducerVars, requestVars, upstreamVars, read, late, status>>

-----------------------------------------------------------------------------
Handler ==
    \/ Authenticate \/ ReadRequest \/ CallUpstream \/ PassOnRejection
    \/ OpenReply \/ TakeEvent \/ TakeMalformed \/ ReadFails \/ EndOfBody
    \/ CheckContext \/ ApplyEvent \/ FinishFails \/ WriteFinal \/ WriteDone
    \/ cancelled /\ UpstreamUnreachable

Environment ==
    \/ UpstreamAnswers \/ UpstreamUnreachable \/ UpstreamSends \/ UpstreamEnds
    \/ ClientLeaves

(* The handler has returned.                                                *)
Returned == phase = "closed" /\ UNCHANGED chatVars

ChatNext == Handler \/ Environment \/ Returned

(* Steps that neither write to the client nor wait for its request.         *)
Unhindered == Handler /\ phase # "authorized" /\ replyVars' = replyVars

(* The goroutine of the request is scheduled.  A client whose connection is *)
(* closed holds nothing up, for a write to it fails; but one that stays and *)
(* does not read may block a write for ever, as one that does not send may  *)
(* block the reading of its request: the server has no WriteTimeout and no  *)
(* ReadTimeout (main.go:34-39).  Nor need the upstream answer or end its    *)
(* body (the client of main has no timeout), nor the client leave.          *)
ChatSpec == ChatInit /\ [][ChatNext]_chatVars
FairChatSpec == ChatSpec /\ WF_chatVars(Unhindered) /\ WF_chatVars(Handler /\ cancelled)

-----------------------------------------------------------------------------
Last(seq) == seq[Len(seq)]
Succeeded == out # <<>> /\ Last(out).kind \in {"final", "done", "completion"}
Sent(kind) == {j \in DOMAIN out : out[j].kind = kind}

(* A client reading the stream puts the builder together from its chunks.   *)
Written(builder, kind) ==
    LET nonEmpty == {j \in Sent(kind) : out[j].text # ""}
    IN  InOrder(builder, nonEmpty, [j \in nonEmpty |-> out[j].text])

Numbered(seq) == [k \in DOMAIN seq |-> [index |-> k - 1, tool |-> seq[k]]]
ToolsWritten ==
    InOrder(Numbered(tools), Sent("tool"),
            [j \in Sent("tool") |-> [index |-> out[j].index, tool |-> out[j].tool]])

(* What a reply may hold.                                                   *)
Chunk ==
    [kind : {"role", "done", "json_error"}]
    \cup [kind : {"text", "reasoning"}, text : Texts \cup {""}]
    \cup [kind : {"tool"}, index : Nat, tool : Tool]
    \cup [kind : {"error"}, code : {"upstream_error", "incomplete_stream"}]
    \cup [kind : {"final"}, reason : FinishReasons, usage : Usage \cup {NoUsage}]
    \cup [kind : {"completion"},
          outcome : [text : Seq(Texts), reasoning : Seq(Texts), tools : Seq(Tool),
                     finishReason : FinishReasons, usage : Usage]]

(* Types of the handler's own variables; what it reads never overtakes what *)
(* the upstream sent, and Apply is called for nothing else.                 *)
ChatTypeOK ==
    /\ request \in Request /\ phase \in Phases
    /\ calls \in 0..1 /\ answer \in UpstreamStatuses \cup {0}
    /\ sent \in Seq(Events \cup {Malformed}) /\ read \in 0..Len(sent)
    /\ bodyEnd \in {"open", "eof", "broken"}
    /\ cancelled \in BOOLEAN /\ late \in Nat
    /\ status \in {0} \cup 200..599 /\ out \in Seq(Chunk)
    /\ Len(applied) <= read /\ \A i \in DOMAIN applied : applied[i] = sent[i]

(* A finish reason, [DONE] or a completion goes out only for an upstream    *)
(* body that ended properly, was read to its end, held no malformed frame,  *)
(* and whose every event was applied and earned it (server.go:190-204,      *)
(* docs/proxy.md:44).                                                       *)
SuccessIsWhole ==
    Succeeded => bodyEnd = "eof" /\ applied = sent /\ FinishError = "none"

(* At every moment the chunks a client holds add up to what the reducer     *)
(* holds, and in the end to the completion a buffered request would have    *)
(* got from the same events: text, reasoning, each tool call once under its *)
(* own index, finish reason and usage.                                      *)
StreamEqualsOutcome ==
    request.stream /\ status = 200 =>
        /\ Written(text, "text") /\ Written(reasoning, "reasoning")
        /\ ToolsWritten
        /\ Succeeded => Sent("final") # {}
        /\ \A j \in Sent("final") :
              /\ out[j].reason = Outcome.finishReason
              /\ out[j].usage = IF request.includeUsage THEN Outcome.usage ELSE NoUsage

(* The upstream, and with it the upstream key, is used at most once per     *)
(* request, and only for a caller with a client key and a request that was  *)
(* read, validated and converted (server.go:81-122, 219-228).               *)
UpstreamOnlyForValidRequests ==
    /\ calls <= 1
    /\ calls = 1 => request.authorized /\ request.body = "valid"

(* Once its client is gone a streaming handler applies at most the one      *)
(* event it had already checked the context for (server.go:163-169).        *)
AtMostOneLateEvent == request.stream => late <= 1

(* A client that takes what is written to it.                               *)
ClientReads == WF_chatVars(Handler /\ replyVars' # replyVars)

(* A handler whose client left returns, whatever the upstream does and      *)
(* wherever it was, at a write too; one whose upstream ended its body, in   *)
(* whatever way, returns if the client reads (server.go:124-216).           *)
HandlerReturns ==
    /\ cancelled ~> phase = "closed"
    /\ ClientReads => (bodyEnd # "open" ~> phase = "closed")

(* The reply keeps to the contract of the OpenAI endpoint.                  *)
Shape(c) == CASE c.kind = "tool" -> [kind |-> "tool", id |-> c.tool.id, index |-> c.index]
              [] c.kind = "final" -> [kind |-> "final", reason |-> c.reason]
              [] OTHER -> [kind |-> c.kind]
Promise == INSTANCE ChatContract WITH
    ToolIds <- Ids \cup {MissingId},
    status <- status, out <- [k \in DOMAIN out |-> Shape(out[k])]
KeepsContract == Promise!Contract
=============================================================================
