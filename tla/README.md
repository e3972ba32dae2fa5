# Verification of commandcode-bridge

TLA+ modules, TLC runs and TLAPS proofs about the Command Code bridge: the
Go Proxy that offers an OpenAI-compatible endpoint in front of the Command Code
gateway, and the Pi Direct Adapter in TypeScript that talks to the same gateway.
Every module names the source it models; paths below are relative to `src/`.
`PROJECT.json` lists components, runs, mutants, findings, hazards and theorems,
and maps each definition to its lines.

```
tlc -workers 2 -config Reducer.cfg MCReducer      # a run
tlapm ReducerProofs.tla                           # the proofs of a module
```

## The system

| component | source | state | operations |
| --- | --- | --- | --- |
| Event reducer | `internal/protocol/reduce.go` | text, reasoning, tools with their index, finish reason, usage, terminal kind, latched error | `Apply` (one case per event type), `Finish` |
| Frame decoder | `internal/protocol/decode.go` | the open SSE group, events delivered so far | `ScanFrames`, `ScanEvents` |
| Chat completions endpoint | `internal/openai/server.go`, `project.go` | one request: where its handler is, the upstream response, the reply | `handleChatCompletions`, `bufferedChat`, `streamChat`, the chunk writers |
| Model catalog | `internal/catalog/catalog.go` | live list, last known good list, source, a mutex | `Refresh`, `Snapshot`, `ReadyState` |
| Readiness, health, model list | `internal/openai/server.go` | none of their own | `GET /readyz`, `/healthz`, `/v1/models` |
| Pi Direct Adapter: stream | `adapters/pi/src/index.ts` | message content, id map, flags per block, usage, stop reason | `streamCommandCode`, `ndjsonLines` |
| Pi Direct Adapter: messages | `adapters/pi/src/index.ts` | during one call: messages, tool names by id | `convertMessages`, registration with Pi |
| Request conversion | `internal/openai/convert.go` | during one request: system parts, messages, tool names by id | OpenAI request to gateway request |
| Client key store | `internal/auth/auth.go` | a slice of named keys, a mutex | `LoadStore`, `Add`, `Revoke`, `Lookup`, `Authenticate` |
| Secrets and redaction | `internal/secret/secret.go` | none | loading by precedence, reading owner-only files, redaction |
| Configuration and lifecycle | `cmd/commandcode-bridge/main.go`, `internal/runtime/config.go` | the process | start-up checks, refresh goroutine, shutdown |
| Build information | `internal/buildinfo` | none | version strings |
| Release scripts | `scripts/`, `.github/` | none | building and packaging |

### How the parts interact

A chat request passes the key store (is the caller allowed), the conversion (can
it be put as a gateway request) and then goes upstream with the upstream key, at
most once. The response body passes the frame decoder, which calls back for each
event; the callback applies the event to a reducer. A buffered reply is written
from the reducer's `Finish`; a streamed reply also writes a chunk per event, after
`200` has gone out, so whatever goes wrong later can only be said in the stream.
The client may leave at any time: that cancels the request's context, on which
the upstream read depends.

The catalog is shared: `main` starts one goroutine that fetches it at startup,
while the HTTP handlers read it under the mutex. `/readyz` reads it twice.

The Pi adapter does not use the Proxy. It reads the same event stream itself, in
a single-threaded runtime: between two awaits nothing interrupts it, and at every
await the caller may abort. Its counterpart is Pi, to which it pushes a stream of
block events, and a message object that Pi holds while it is being filled. Proxy
and adapter share one document, `protocol/README.md`, as their contract.

### What is hard

- **Order and repetition of events.** Terminal events may repeat, precede tool
  calls or miss their usage; tool calls may be announced without being confirmed,
  be confirmed twice, or share the id of a text block. What the answer says in
  the end depends on all of this.
- **Streams that break off** between a terminal event and the end, inside an SSE
  group, in the middle of a line, or after `200` was sent.
- **The client leaves** between the check of the context and the use of the event
  it was made for, or while the upstream is silent.
- **A refresh of the catalog crosses its readers**, and the fetch fails or hangs.
- **Ids of tool calls that are used again**, in one message or in a later one, with
  another tool: a result carries only the id, and both programs have to find the
  name; and results merge depending on what was written, not on what was read.
- **A process that is told to stop** while it waits for its secret command, binds
  its address or serves requests. `ListenAndServe` returns as soon as `Shutdown`
  is called, and `main` does not wait for the requests.
- **Keys that share symbols, or are shared**: one key under two names, one key part
  of another, a client's key that is the upstream's.

### What makes each component correct

- Reducer: success is reported exactly for streams that earned it; the finish
  reason agrees with the content; a tool call is executed once and only when an
  authoritative event sent it; usage is the one last reported.
- Decoder: the events of the body, once, in order, up to the first bad frame;
  nothing forgotten at the end of the body.
- Endpoint: the reply keeps to the OpenAI contract whatever upstream and client
  do; streamed and buffered replies say the same; the upstream key is used only
  for valid requests; a handler whose client is gone returns.
- Catalog: there is always a list; failed fetches cost freshness and nothing
  else; readers never wait for the network; readiness agrees with the list.
- Pi adapter: block events and message agree; deltas reach the block they are
  meant for; `done` is earned; an abort ends the call.
- Conversion: nothing of a request gets lost but what the code passes over on purpose,
  and a request that cannot be put fails; every result names the call it answers; the
  list is what the gateway accepts; both programs make one list of one conversation.
- Key store: a revoked client authenticates no longer and nobody else is locked
  out; an error that the upstream words is answered without the keys it quotes.
- Process: it serves only with a configuration it was given whole; a signal ends
  it; its exit status says what happened.

## The modules

| module | models | by way of |
| --- | --- | --- |
| `Reducer` | `reduce.go` | one action per case of `Apply`'s switch, `Latched` for its early return; `Finish` has no effect, so it is the operators `FinishError`, `FinishedReason` and `Outcome`. `applied` is a history of the events given to `Apply`. |
| `FrameScanner` | `decode.go` | one step per line: `InGroup`, `EndOfGroup`, `BareLine`, their variants for a last line without newline, `ReadError`. A line has a kind and carries a whole document, the head or tail of one, junk, `null`, a scalar or `[DONE]`. |
| `Pipeline` | `Reduce` of `reduce.go` | extends `FrameScanner` and `Reducer`: a line of the body, then the callback on each event the line delivered, whose error ends the scan. The documents are the reducer's events. |
| `ChatStream` | the handler of `POST /v1/chat/completions` | extends `Reducer`. The handler's phases are its blocking points; `UpstreamSends`, `UpstreamEnds`, `ClientLeaves` interleave with it. The decoder is reduced to what it hands on. |
| `ChatContract` | abstract | what a client may rely on in a reply. `ChatStream` implements it (`KeepsContract`). |
| `Catalog` | `catalog.go`, the three GET handlers, the refresh goroutine | any number of refreshers and clients; `Lock` and the commit that unlocks are separate steps; a reader is one step, taken when the mutex is free; `/readyz` is two. |
| `CatalogSpec` | abstract | the promise of a list that only improves. `Catalog` implements it (`PromiseSpec`). |
| `PiAdapter` | `streamCommandCode` | one step per line of the body, as JavaScript runs to its next await; `Abort` between any two. |
| `AssistantStream` | abstract | the block protocol Pi relies on. `PiAdapter` implements it (`KeepsProtocol`). |
| `GatewayMessages` | the parts and messages of `params.messages` | what both conversions share: the constructors, and how a result joins the last message. |
| `Convert` | `convert.go` | one step per message, then one per tool, then `Build`; the locals of the two loops are the variables, every error return is `RefuseMessage` or the failing case of `ConvertTool`. `input` and `offered` are histories. |
| `PiConvert` | `convertMessages` | the same for the adapter, which rejects nothing. `piInput` is a history. |
| `ModelMessages` | abstract | which lists of messages the gateway accepts and how one may grow. Both conversions implement it (`KeepsSchema`). |
| `Conversation` | both conversions | each by itself on whatever it may be given, and both side by side on one conversation (`Converse`). |
| `KeyStore` | `auth.go`, `Redact` of `secret.go` | functions of the slice of clients: the mutex makes each operation one step of its caller. |
| `Process` | `main.go`, `config.go`, `secret.Load` | extends `KeyStore`. From the environment to the exit: a step per check of `Load`, the secret command with its shell and what the shell leaves behind, binding, `Shutdown` and the return of `main` apart, requests and revocations while it serves. |
| `History` | positions of a sequence | the last of some positions, what a loop keeps of a sequence that copies the elements at some of them (`Kept`), and that one sequence lists what is at some positions of another (`InOrder`). |
| `MC...` | | the finite instances for TLC. |
| `ReducerProofs`, `PipelineProofs`, `ChatStreamProofs`, `CatalogProofs`, `PiAdapterProofs`, `ProcessProofs`, `ConversationProofs` | | the theorems about a module, with their proofs. |
| `HistoryProofs` | | lemmas on `History`, and induction over the naturals for a set, for the other proofs. |

Data is abstract throughout. A text is a sequence of opaque pieces and a tool's
arguments are an object of a set `Objects` or one of `absent`, `null`, `scalar`,
`array`, which is all the code tells apart. JSON decoding is a relation: in
`FrameScanner`, `EventsOf` says what a payload decodes to, if anything; in
`PiAdapter`, `Documents` is the set of texts `JSON.parse` accepts. Numbers of
tokens are naturals: both programs only compare and add them, and a count large
enough to leave 64 bits is not a count of tokens. In `KeyStore` a key is a sequence of
symbols, for redaction is about one text being part of another, and so is the mark
`[redacted]` that takes its place: a key may be part of the mark, or overlap with it. A file is named or
not, missing, open to others or owner-only. In `Conversation` content, calls and tools
are the cases the decoders tell apart: absent, `null`, malformed, scalar, array, object.

Operators whose names start with `Bug` are slips a programmer could make in the
definition they stand before. No run uses them as such; substituted for that
definition, each makes TLC find the property listed with it in `PROJECT.json`
under `mutants` violated, which shows that the property depends on the code.

## The runs

| run | bounds | distinct states | question |
| --- | --- | --- | --- |
| `reducer` | 18 events, streams of up to 4 | 111151 | does the answer agree with the events? |
| `pipeline` | 19 lines, bodies of up to 4, cut off anywhere | 329510 | is every frame delivered once, in order, and the answer what the lines carried? |
| `chat_stream` | 10 events and malformed frames, up to 3, all kinds of request, client leaves any time | 581870 | does every reply keep the contract, and does every handler return? |
| `catalog` | 2 refreshers, 1 client, 3 refreshes, 4 kinds of answer | 10547 | what is a client told while refreshes cross? |
| `pi_adapter` | 17 events and malformed lines, up to 4, abort any time | 531480 | do message and pushed stream hold together? |
| `convert` | 18 messages with 2 ids and 6 tools, up to 4 in all; 9 messages of Pi, up to 4; 8 turns both can carry | 217608 | what does a request lose, and is it the same by both programs? |
| `process` | 34 environments, 3 names, 3 keys (one the beginning of another, one part of the mark), 4 errors of the upstream, 2 requests, a signal any time | 285909 | does the process serve only as configured, and end as it should? |

All seven pass. Five more runs check one statement of the documentation each and
are expected to fail; see Findings.

**Why the bounds are enough.** The reducer distinguishes an event by its type and
a handful of fields, and each property relates at most four events: a failure and
what follows; a first call and its duplicate; a call between two terminals, one of
which reports usage. Four events hold all of these; the theorems hold for any
number. Four lines hold a field line, data, junk or a second data line, and the
line that closes the group; or a text, a call, a document the reducer refuses and a terminal. `chat_stream` adds no case to the reducer; three events
are a call, its duplicate and the terminal, or a terminal, a call and the break.
In the catalog, three refreshes allow a success, a failure and a commit
that crosses both; the theorems cover any number of refreshers and clients. For
the adapter four lines hold a block, its id used again by another kind, a delta
and a terminal, or an announced call, two pieces of input and its end.

Four messages hold two calls with one id, calls with two ids, their results, and a message
that leaves nothing behind between two results. The environments of `process` are a sound one, each
thing that can be wrong with it, and every combination of key in the environment, state
of the key file and command; two requests and three names hold a client that is revoked
while another with its key is being authenticated.

**Events left out of instances.** `mcEvents` and `mcCoreEvents` leave out events that
the code treats like one that is in. The rest is stated in the comments of the MC
modules. The documentation runs of the adapter use `mcEvents`, up to 3 lines.

**Deadlock.** It is checked except in `Reducer` runs, where an event stream may end
after any event and the reducer then just stands still, and in `convert`, where a
conversion ends and is then done. `ChatStream`, `Pipeline`, `PiAdapter` and `Process`
have an explicit step for having ended, which is allowed only where the
function or the process has really ended, so a hung handler is a deadlock there. In `Catalog`
`/healthz` is always possible, so there it is `RequestsAnswered` that would notice
readers waiting for each other.

**Fairness.**
- `FairChatSpec`: weak fairness of `Unhindered`, the handler's steps that neither write to
  the client nor wait for its request, for the Go scheduler runs a goroutine that can run;
  and of all its steps once the client has left, for a write to a closed connection
  fails. None for a write to a client that stays: the server has no `WriteTimeout`
  (`main.go:34-39`), so one that stops reading blocks the handler for as long as it
  likes. None for the upstream either: the HTTP client has no timeout. So
  `HandlerReturns` says that a handler returns once its client has left, wherever it
  was; and that it returns after the end of the body under the hypothesis
  `ClientReads`, weak fairness of the writes. Without that hypothesis TLC finds the
  handler that stands at a write for ever.
- `FairSpec` of `Catalog`: weak fairness of lock, commit and readers. `sync.RWMutex`
  does not starve a waiter. None for a fetch's answer: `RequestsAnswered` holds with
  every fetch hanging for ever.
- `FairSpec` of `PiAdapter`: weak fairness of the steps the event loop owes the
  program: starting the fetch, rejecting it or the read after an abort, and finishing
  after the body's end. None for the gateway.
- `FairSpec` of `Process`: weak fairness of `main`'s own steps (`Load`, `Listen`,
  `ServeReturns`), of the goroutine that calls `Shutdown`, and of the kill that
  `exec.CommandContext` sends. None for the secret command, its children or the
  upstream: they may run for ever.

### What the passing runs show

- `EarnedCompletion`, `ReasonHonest`, `ToolsAreFirstCalls`, `ToolIndexAgrees`,
  `UsageIsLastReported`: the five facts about the reducer named above, each against
  the whole history of events and not against the reducer's own flags.
- `DeliversFrames`: the incremental decoder against a definition that reads the
  frames off the complete body. `AnswerIsOfTheBody`: from lines to answer, decoder and
  reducer together. Success means a body read to its end whose documents earned it;
  text, reasoning and calls are those of its lines, none twice and none forgotten at EOF.
- `SuccessIsWhole`: no completion and no `[DONE]` for a body that was cut,
  malformed, failed or abandoned. `StreamEqualsOutcome`: chunks add up to the
  buffered answer. `UpstreamOnlyForValidRequests`, `AtMostOneLateEvent`,
  `HandlerReturns`, `KeepsContract` as named.
- `SourceNamesServedList`, `NoClientFallsBackToStatic`, `PromiseSpec`: whatever
  fetches cross. `ReadyzCoherentWhenQuiet`: readiness is coherent provided no commit
  falls between the two reads; without the proviso it is not (see below).
- `DeltasReachTheirBlock`, `ArgumentsAreTheCallsOwn`, `DoneIsEarned`,
  `StopReasonIsTheLastOne`, `UsageCountedOnce`, `AbortEndsTheCall`, `KeepsProtocol`:
  the message and the stream pushed to Pi against the lines that were read.

- `LosesOnlyPassedOver`: the list of messages, read as one list of items, against the
  items of the messages read: texts and images, calls with id, name and arguments,
  results with id and text, in order and each under its role; what the system says;
  the tools with their schemas; and failure exactly where a message or an offered
  tool is wrong. The items that may be missing are those of `PassedOver`, and they are
  lost without an error: a user's `output_text`, an image that is not a user's or has
  no URL, a part of any other type (`convert.go:219-235, 250-271`). A tool that is offered under
  another type or without a name is skipped as well (`convert.go:92-97`). No document says that
  these parts are rejected or kept, so this is no finding. Not modelled, and so
  not compared: calls on a message that is not the assistant's, which the code does not look at, the type of a
  call, and the description of a tool, which is copied. `ResultsNameTheirCall`: against the calls of the history, not the map of names.
  `SameConversation`: where every result answers a call, the two programs' lists are
  equal. Without that proviso they are not: the adapter falls back on the name the
  session gives, and the Proxy's client has given none. `KeepsSchema`: the refinement.
- `ServesOnlyAsConfigured`: what it serves with against what the environment held.
  `RevokedIsLockedOut`: also with one key under two names, where revoking one leaves the
  other, which is what the code does. `NoApartKeyInError`: of a key that is apart from the mark
  (`ApartFromMark`: laid over the mark in any way, the two differ in some symbol) nothing whole
  remains in an error that the upstream words, whatever the other keys are; a part of it may,
  where another key is its beginning and is replaced first. Only such errors are redacted
  (`server.go:144, 191, 196, 216`): the text of a completion, the `Retry-After` header that is copied and
  the errors of the conversion are sent as they are, and nothing is said of them. `ExitIsHonest`:
  status 0 exactly for a shutdown, requests cut by the exit and by nothing else.
  `SignalEndsProcess`: unless a child of the secret command holds its output open.

### Findings

Each is a run that checks one sentence of the repository and fails.

| run | says | the code |
| --- | --- | --- |
| `step_boundary` | a `finish-step` completes the answer "if the stream then ends" (`protocol/README.md:39`) | `complete` is never cleared: content after it that breaks off is still a success (`reduce.go:110`) |
| `readyz` | "`/readyz` is `degraded` on fallback" (`docs/proxy.md:46`) | the reply combines two reads and may say `ok` beside `static-fallback` (`server.go:51`) |
| `pi_tool_calls` | tool calls only from an authoritative `tool-call` with an object as its input; "later duplicates are ignored"; other arguments "fail the stream" (`protocol/README.md:47-52`; `adapters/pi/docs/wire-protocol.md:195-198` describes the adapter as it is) | `tool-input-start` puts one into the message (`index.ts:652`), a duplicate replaces the arguments (`index.ts:703`), an array is taken and for anything else the adapter goes on with what it has (`index.ts:702`) |
| `pi_abort` | "`error` / `abort`: fail-closed" (`protocol/README.md:41`) | the adapter has no case for `abort` (`index.ts:767`) |
| `upstream_key` | "Client Bearer and upstream Bearer are never the same secret" (`docs/proxy.md:38`) | `Load` reads both and never compares them (`config.go:59`) |

What `step_boundary` shows of the Proxy holds of the adapter: `sawTerminalEvent`
(`index.ts:729`) is never cleared, so content after a `finish-step` that breaks off is
done there too, and `DoneIsEarned` allows it.

A comment at `index.ts:760-762` says that a "stop" in spite of tool calls must
still be routed as tool use. The adapter computes the stop reason at the terminal
event and not again, so a call that comes after it is not counted;
`StopReasonIsTheLastOne` states what holds.

The three sentences of `pi_tool_calls` fail one by one as well; the run stops at the
shortest trace, an announced call and a `finish`. The reducer of the Proxy keeps the
rules the adapter breaks: they are parts of `ToolsAreFirstCalls` and `EarnedCompletion`,
and proved.

Two more differences have no run of their own.

Inside an SSE group the decoder passes over a
line that is no field (`decode.go:75`), so junk there does not fail the stream, while
`protocol/README.md:43` says "malformed JSON: fail-closed". The reference definition of
`DeliversFrames` has it as the code does.

`Redact` puts in the text `[redacted]`, and `Add` accepts any key that is not blank
(`auth.go:57-62`). A key that is part of that text, or overlaps with it where the two meet, may
stand in the reply because another key was taken out, although `docs/auth.md:7-8` says of the
upstream key that it is "never returned in API responses" and `docs/proxy.md:40-41` that secrets
are not printed in errors. A later pass looks for its key in the marks as well, and puts a
mark there in turn. `NoApartKeyInError` excludes such keys and the model does not:
in the run `process` the mark holds one of the three keys, without the exception TLC
finds that key in a reply, and with it the other two stay clean.

## The proofs

TLAPS proves, for all values of the constants that meet the assumptions and
behaviours of any length:

| theorem | states |
| --- | --- |
| of `Reducer` | |
| `ReducerTypeCorrect` | `ReducerSpec => []ReducerTypeOK` |
| `ToolIndexCorrect` | `ReducerSpec => []ToolIndexAgrees` |
| `CompletionIsEarned` | `ReducerSpec => []EarnedCompletion` |
| `ReasonIsHonest` | `ReducerSpec => []ReasonHonest` |
| `ToolsAreAuthoritative` | `ReducerSpec => []ToolsAreFirstCalls` |
| `UsageIsTheLastReported` | `ReducerSpec => []UsageIsLastReported` |
| of `FrameScanner` and `Pipeline` | |
| `ScanInvariant` | `Spec => []ScanInv`, the inductive invariant of the scan |
| `ScanTypeCorrect` | `Spec => []TypeOK` |
| `EveryFrameIsDelivered` | `Spec => []DeliversFrames` |
| `PipelineScans` | `PipelineSpec => Spec`: `Reduce` runs the decoder as specified |
| `PipelineDeliversFrames` | `PipelineSpec => [](TypeOK /\ DeliversFrames)` |
| `PipelineInvariant` | `PipelineSpec => []PipelineInv`: what is applied is what was delivered, in order |
| `PipelineReduces` | `PipelineSpec => ReducerSpec`: and runs the reducer as specified |
| `AnswersAreOfTheBody` | `PipelineSpec => []AnswerIsOfTheBody` |
| of `ChatStream` | |
| `ChatInvariant` | `ChatSpec => []ChatInv`, the inductive invariant of the handler |
| `ChatTypeCorrect` | `ChatSpec => []ChatTypeOK` |
| `ChatRunsAReducer` | `ChatSpec => ReducerSpec` |
| `UpstreamIsEarned` | `ChatSpec => []UpstreamOnlyForValidRequests` |
| `LateEventsAreBounded` | `ChatSpec => []AtMostOneLateEvent` |
| `SuccessIsForWholeStreams` | `ChatSpec => []SuccessIsWhole` |
| `StreamIsTheOutcome` | `ChatSpec => []StreamEqualsOutcome` |
| `ChatKeepsContract` | `ChatSpec => KeepsContract`, the refinement of `ChatContract` |
| of `Catalog` | |
| `CatalogTypeCorrect` | `Spec => []TypeOK`, mutual exclusion included |
| `SourceIsRight` | `Spec => []SourceNamesServedList` |
| `ReadyzIsCoherentWhenQuiet` | `Spec => []ReadyzCoherentWhenQuiet` |
| `ClientsNeverFallBack` | `Spec => NoClientFallsBackToStatic` |
| `CatalogKeepsPromise` | `Spec => PromiseSpec`, the refinement of `CatalogSpec` |
| of `PiAdapter` | |
| `PiInvariant` | `Spec => []PiInv`, the inductive invariant of the adapter |
| `PiTypeCorrect` | `Spec => []PiTypeOK` |
| `BlocksAreTheirDeltas` | `Spec => []DeltasReachTheirBlock` |
| `ArgumentsAreAlwaysTheCallsOwn` | `Spec => []ArgumentsAreTheCallsOwn` |
| `DoneIsAlwaysEarned` | `Spec => []DoneIsEarned` |
| `LastReasonCounts` | `Spec => []StopReasonIsTheLastOne` |
| `UsageIsCountedOnce` | `Spec => []UsageCountedOnce` |
| `ProtocolIsKept` | `Spec => KeepsProtocol`, the refinement of `AssistantStream` |
| of `Process` and `KeyStore` | |
| `RevokeTakesOutTheName` | `Revoke` leaves out the clients of the name, keeps the others, and keeps names unique |
| `LookupFindsAHolder` | `Lookup` finds a client exactly where one has the key, and one that has it |
| `ConfigInvariant` | `Spec => []ConfigInv`, the inductive invariant of the configuration |
| `ProcessTypeCorrect` | `Spec => []ProcessTypeOK` |
| `ConfigurationIsKept` | `Spec => []ServesOnlyAsConfigured` |
| `RevokedStaysLockedOut` | `Spec => []RevokedIsLockedOut` |
| `ExitStatusIsHonest` | `Spec => []ExitIsHonest` |
| `RedactTakesOutTheApart` | for any text and secrets, no secret that is apart from the mark occurs in what `Redact` returns, whatever the other secrets are |
| `ErrorsQuoteNoApartKey` | `Spec => []NoApartKeyInError` |
| of `Conversation` | |
| `Typed` | `Spec => [](ProxyTypes /\ PiTypes)`, the types of what both programs keep and write |
| `ListsAreWhatTheGatewayAccepts` | `Spec => KeepsSchema`, the refinement of `ModelMessages` |
| `NamesAnswered` | the maps of names agree with the calls read, and the results with those read |
| `ResultsAreNamed` | `Spec => []ResultsNameTheirCall` |
| `OnlyPassedOverIsLost` | `Spec => []LosesOnlyPassedOver` |
| `SameOnBothRoads` | `Spec => []SameConversation` |

**Assumptions.** All are named, stand in the module that declares the constant, and
TLC evaluates them in every run of that module.
- Reducer: events are records of the set `Event`, `""` is not among the non-empty
  pieces, objects differ from the four markers for what is no object, `NoUsage` is no usage.
- Decoder: the lines of a body are lines, the event that `null` decodes to is no
  document, what the callback refuses are events. For `Pipeline`, the documents are the
  reducer's events and the refused ones are those for which `Apply` returns an error;
  it returns the same error for them whatever came before.
- Handler: a malformed frame is no event; upstream statuses lie in 200..599.
- Catalog: `NoId` and `Unreachable` are told apart from models and lists, the static
  list is non-empty and known, `NoOne` is no refresher.
- Adapter: as for the reducer; `NoId` is no id, and `JSON.parse` is a function of its text.
- Process: environments are of the set `Setting`, `NoName` is no name, keys and the mark are
  sequences of symbols that are not empty; keys may overlap with the mark and with each other.
- Conversions: messages, tools and turns are of the sets `ChatMessage`, `ChatTool`, `PiMessage`
  and `Turn`, limits are integers, `NoUrl` is no URL, `""` is neither a name nor a media type, and
  objects differ from the markers for what is no object.

The bounds, such as `MaxEvents`, `MaxLines`, `MaxRefreshes` and `MaxInput`, are arbitrary
naturals in the theorems.

**The reducer's argument.** None of its properties is inductive: each speaks of the
history, and the reducer decides on flags. `ReducerInv` ties the two together:
- `FailureInv`: no error is latched exactly when no event applied so far failed;
- `ToolIndexAgrees` and `CallsInv`: the ids of the map are the ids of the tools and
  of the calls heeded, so the map decides "first of its id" rightly;
- `TerminalInv`: `complete`, `terminalKind` and `finishReason` are what the last
  heeded terminal makes of the tools known when it came.

The proof that a step keeps it has a lemma per conjunct and a case per action.
`CompletionIsEarned` and `ReasonIsHonest` then follow from the invariant alone.
`ToolsAreFirstCalls` needs an induction of its own: its witness maps tools to
positions in the history, and a `ToolCall` extends it by the new position. So does
`UsageIsTheLastReported`, along the set of terminals that report any.

**The scanner's argument.** `DeliversFrames` compares what was delivered with frames that are
read off the whole body, so the proof has to say how those frames change when the body
grows. The lemmas first do: the frames of the lines read are those of the lines before, with
at most one payload behind them (`LinePayloads`, `FramesAfterLine`); the end of the body
puts at most two there, the open group and the last line (`FramesAtEnd`). `ScanInv`
ties this to the locals: while the scan goes on, `inSSE` says whether the lines read leave a
group open and `sseData` is what that group has gathered (`Going`); at any time the
callback was told of the frames up to the first that stops the scan (`FramesTold`).
`Emit` then steps over one frame, whatever it is, and a turn of the loop is one or two
of them (`ScanTurn`).

**The pipeline's argument.** A callback changes nothing of the decoder, and a turn of the
scan nothing of the reducer, so each of the two runs as it does alone; `PipelineInv` says that
events go from one to the other once and in order. With `PipelineReduces` every theorem
about reducers holds of what `Reduce` returns.

`AnswersAreOfTheBody` goes from the lines to the answer without the frames. Its invariant for the
decoder is `Embodied`: while the scan goes on, the documents of the lines read are the ones
delivered followed by those gathered in `sseData`; once it has ended, they are the ones
delivered. A line adds its document to one of the two (`BodyGrows`, `TurnEmbodies`), and a
payload that is emitted without stopping the scan moves its document from the second to the
first (`EmitDraws`); at EOF the bare line passed over in a group counts after all. For the
reducer it is `TextInv`: as long as nothing has failed, the builders hold the texts of the
documents applied. An ended scan was told of no refused event, so nothing has failed; the null event
is the only one that is no document, and is neither terminal nor call (`DocumentsAreListed`,
`HeededAreListed`), so that `EarnedCompletion` of the events is success earned by the lines.

**The handler's argument.** Only `ApplyEvent` touches the reducer, hence `ChatRunsAReducer`,
and with it `ReducerInv`. `ChatInv` adds what a phase implies:
- `Progress`: which events were read and which of them applied; at the end of the body, all;
- `ReplyInv`: what the client has been sent, down to nothing at all before an answer;
- `CallInv`: whether the upstream was called, and for whom;
- `LateInv`: an event may be applied late only if the context was good when it was checked.

`SuccessIsForWholeStreams` and `ChatKeepsContract` add that a stream which still goes on holds
only content (`KindsInv`), so that no two closing chunks meet. `StreamIsTheOutcome` has an
invariant of its own: each builder of the reducer lists the non-empty chunks of its kind,
which an appended chunk extends by one position (the lemmas on `InOrder` in `HistoryProofs`).

**The adapter's argument.** The adapter finds a block by its id in one map; the properties
speak of the lines. `PiInv` ties the two:
- `OpenInv`: the lines that open a block and the blocks are one to one, in order, and a
  tool call's block has the id of its line;
- `IdInv`: an id leads to the block of the newest line that opened one under it;
- `PushInv`: a block is open exactly while its end has not been pushed;
- `EndInv`, `ReasonInv`: the flags against the terminal events among the lines.

`DeltasReachTheirBlock` and `ArgumentsAreTheCallsOwn` are each split into a statement for one block
(`Made`, `Own`), which a line read for another block leaves alone and a delta for it extends.
`ProtocolIsKept` follows from `PushInv`, one case per step of the adapter.

**The catalog's argument.** `CatalogInv` strengthens the checked invariants by
`ClientsInv`: what a client holds from its last reply, or from the first half of
`/readyz`, is consistent with the commits made since; in particular a client that
has seen a fetched list implies a last known good list, and that is never lost
(the lemma on `lkg`). Mutual exclusion, in `TypeOK`, makes a commit see the lists as
its `Lock` found them. The refinement maps a success to `Replace`, a failure to
`Age`, and every other step to a stutter.

**The process's argument.** `ProcessInv` says what a return of `main` finds: a key that is
not blank once the clients are loaded, no client left to add once it listens, no secret
command outside the phase that waits for it (`PhaseInv`); an address that is not bound before it listens and is
while it serves, and no `Shutdown` before it listens (`ShutdownInv`). `ExitCuts` shows
that every way out leaves no request pending, and one lemma per group of actions carries the
invariant: the steps of `Load`, the returns of `main`, the requests.

`ConfigInv` has in addition what each step of `Load` leaves for the next: the address is one the
process may listen on (`AddressInv`), the key is that of the first source that has one, all before it
having been readable (`KeyInv`), and the clients stored with those still to be added are those
given (`ClientsInv`). While it serves, they are the given ones but for the revoked. `LockInv`
makes `RevokedIsLockedOut` inductive: no client is stored without a key (`Keyed`), and a request
that was not yet authenticated passes for nobody.
`RevokeTakesOutTheName` and `LookupFindsAHolder` say that `Revoke` and `Lookup` do what their names say, also
with one key under two names.

**Redaction.** `RedactTakesOutTheApart` says more than that each secret is taken out when its turn
comes. A later pass joins what stood apart, puts marks in, and may take part of a mark away that an earlier
pass put in; each of these might put a secret together again. It cannot be one that is
apart from the mark: the pass puts whole marks in, and such a secret can neither lie in a mark
nor reach into one. What a pass gives is therefore read from its last
position backwards: with a mark more in front, or with one symbol more of the
text, the rest begins only with what the text has there (`Begins`) and holds only what the text holds
further on, where the secret of the pass does not begin (`Holds`), but for what may meet a
mark. So an apart secret that occurs after a pass occurred before it, and that of the pass itself does not
occur after it (`ReplacedHides`). That earlier marks may be broken by then does not matter, for to a later pass
they are text like any other. `ReplyInv` lifts this to the process: there is no reply before
the clients are loaded, and afterwards clients only leave, so that a reply stays clean of
the keys that remain.

**The conversions' argument.** Both programs write lists as they read lists, and everything is stated
with one operator, `OfEach`: what each element gives, one after the other. The community
modules define it by recursion. `ConversationProofs` first shows that this recursion has values, and then
what they are for an empty list, for a list with one more element, and for two lists
joined. From there on lists are known by three folded operators (`Lists`, `More`, `Joined`) and
their lemmas, and the proofs do not look below them.
- `ProxyTypes` and `PiTypes` say what the variables hold, down to which parts a message of each
  role may have, and that no message of results or answers is empty. With that, `ModelMessages` is implemented:
  `AddResult` and `WithTurn` either change nothing, append an accepted message or add to the
  last one (`ListsAreWhatTheGatewayAccepts`).
- `NamesRight` and `PiNamesRight`: after any list read, the map of names has exactly the ids
  called so far, each with the name of its greatest position among the calls (`Agrees`). The
  properties ask for the latest call before one message, among messages that are all read by now;
  `ProxyAnswered` and `PiAnswered` carry the names on as the list grows, since calls read
  later are not before that message.
- `Whole` says that the items of the list written (`Said`) are those of the messages read
  (`HeldHere`), in one order for all kinds of content; and likewise for what the system says and for the tools. A message
  adds the same items to both: `WroteHolds` compares what it holds with what it writes, part
  by part, and `SaidAddResult` shows that a result adds its items at the end of the list wherever it joins.
  `PassedOver` enters where a part is read, and nowhere else. `FailsRightly`, `OnlyData`
  and `Limited` are the rest of `LosesOnlyPassedOver`.
- `SameConversation` is not inductive: equal lists need equal maps. `SideBySide` adds that the
  two maps are one, and that they hold no blank name (`NoBlankNames`). The last is needed, for the Proxy
  takes a blank name for none at all (`convert.go:183`) where the adapter would write it
  (`index.ts:421`); a turn that both can carry has none.

**Induction.** The library's induction theorems take the claim as an operator, which the provers
cannot instantiate. What they can do is the step below: `<` is well-founded on the naturals, so a
set of naturals that has 0 and with each number the next one is all of them
(`NaturalsByInduction` in `HistoryProofs`); lists and texts are then reached by their lengths. That is
how the recursive functions in `KeyStore` and in the community modules' `FlattenSeq` are reasoned about.

**What the proofs changed.** The two cases of `ResultName` in `PiConvert` overlapped, and a
`CASE` leaves open which of two that hold is taken, where the code takes the first; TLC
takes the first as well and had not told. It is a nested `IF` now. `OfEach`, `FirstNonBlank`,
`ReadUpstreamError` and `Redact` were stated anew, with the same values and in forms that can be
reasoned about.

**Selections.** What a loop copies is stated with `Kept`, which gives the element at each
rank among the selected positions. It needs no recursion, so that facts about it are provable
from cardinalities: `HistoryProofs` has its length, its elements, their order, and what it
becomes when the sequence grows.

**Model-checked only.**
- Liveness: `RequestsAnswered`, `HandlerReturns`, `AbortEndsTheCall`, `SignalEndsProcess`. It rests on
  fairness and `ENABLED`, which the prover does not handle.
- The five documentation runs, which are counterexamples.

**What the properties do not say.** Some hazards of `PROJECT.json` name no property, or one of two
programs only, because the code behaves so and no document asks for more.
- `ArgumentsAreTheCallsOwn` catches arguments of another call. That a prefix of a call's own input
  becomes its arguments for good it allows; `pi_tool_calls` is the run about that.
- `StopReasonIsTheLastOne` says what the stop reason depends on, and not that a call after the
  last terminal event counts, for it does not.
- `ExitIsHonest` and `SignalEndsProcess` allow that `main` returns while `Shutdown` is still draining, and
  except a child of the secret command that holds its output open.
- `KeepsSchema` says which parts a message may have and how messages join, and nothing of the
  arguments of a call; those are in `LosesOnlyPassedOver` for the Proxy.
- `RevokedIsLockedOut` is about `Store.Revoke`, which the program exports and has no caller of
  (`auth.go:74`): the step in which `Process` revokes is that of a program around the store.
- The catalog's runs have two refreshers, and `main` starts one `Refresh` and no more; `Refresh`
  is exported and takes the mutex for callers that cross.

## What is not modelled

- The adapter's table of models and its registration with Pi: data that nothing
  changes.
- A secret file that is replaced between the check of its mode and its opening
  (`secret.go:48-55`): one step of the model.
- A file of clients that was meant to be JSON and is none is read as lines of "name key"
  (`auth.go:161-175`); the model has whatever clients come of it, and no property can
  tell them from intended ones.
- Redirects: the HTTP client may send a request again at a `307` or `308`; the model's one call
  of the upstream stands for it with its redirects.
- The version flag of `main`, which prints and returns.
- `writeUpstreamError`'s status and headers, beyond what `ChatStream` has.
- The branch of `streamChat` for a `ResponseWriter` that cannot flush: the server
  is only ever given one that can.
- Negative or overflowing token counts; the reply's wording; headers, logging;
  limits on the size of bodies and lines, other than that an oversized request
  body is one that cannot be read.
- The embedded list of models (`MustStatic`): read once, and a non-empty set in `Catalog`.
- `buildinfo` and the release scripts: nothing there changes state.

## Plan

Every invariant and action property of the passing runs is proved. What is left: `ChatStream` over
`FrameScanner`, as `Pipeline` is, instead of its reduced decoder.
