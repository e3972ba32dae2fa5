--------------------------- MODULE ReducerProofs ---------------------------
(***************************************************************************)
(* Proofs about Reducer for every set of events and every bound.           *)
(***************************************************************************)
EXTENDS Reducer, HistoryProofs

(* What an event of each kind carries.                                      *)
LEMMA EventFields ==
    ASSUME NEW e \in Events
    PROVE  /\ e.type \in DeltaTypes => e.text \in Texts \cup {""}
           /\ e.type = "tool-call" => /\ e.id \in Ids \cup {""}
                                      /\ e.input \in Values /\ e.args \in Values
           /\ e.type \in TerminalTypes => /\ e.reason \in RawReasons
                                          /\ e.usage \in RawUsage \cup {NoUsage}
                                          /\ e.totalUsage \in RawUsage \cup {NoUsage}
           /\ e.type \in DeltaTypes \cup ProvisionalTypes \cup FailureTypes
                         \cup TerminalTypes \cup {"unknown", "tool-call"}
BY EventsAssumption
   DEF Event, DeltaTypes, ProvisionalTypes, FailureTypes, TerminalTypes

(* A builder stays a sequence of non-empty pieces.                          *)
LEMMA WriteType ==
    ASSUME NEW builder \in Seq(Texts), NEW piece \in Texts \cup {""}
    PROVE  Write(builder, piece) \in Seq(Texts)
<1>1. CASE piece = ""
  BY <1>1 DEF Write
<1>2. CASE piece # ""
  <2>1. piece \in Texts
    BY <1>2
  <2>2. Append(builder, piece) \in Seq(Texts)
    BY <2>1, AppendProperties
  <2> QED BY <1>2, <2>2 DEF Write
<1> QED BY <1>1, <1>2

(* An accepted call has an object for its arguments and a non-empty id.     *)
LEMMA ToolOfType ==
    ASSUME NEW e \in Events, e.type = "tool-call", HasObject(e)
    PROVE  ToolOf(e) \in Tool
BY EventFields DEF ToolOf, Tool, HasObject, Arguments

(* A parsed usage object is a usage.                                        *)
LEMMA ParseUsageType ==
    ASSUME NEW u \in RawUsage
    PROVE  ParseUsage(u) \in Usage
BY DEF RawUsage, Usage, ParseUsage

(* A terminal event leaves a usage, whichever objects it carries.           *)
LEMMA UsageAfterType ==
    ASSUME NEW e \in Events, e.type \in TerminalTypes, usage \in Usage
    PROVE  UsageAfter(e) \in Usage
<1>1. CASE e.usage # NoUsage
  BY <1>1, EventFields, ParseUsageType DEF UsageAfter
<1>2. CASE e.usage = NoUsage /\ e.totalUsage # NoUsage
  BY <1>2, EventFields, ParseUsageType DEF UsageAfter
<1>3. CASE e.usage = NoUsage /\ e.totalUsage = NoUsage
  BY <1>3 DEF UsageAfter
<1> QED BY <1>1, <1>2, <1>3

(* Every upstream reason becomes one of OpenAI's three (reduce.go:223-234). *)
LEMMA FinishReasonType ==
    ASSUME NEW reason, NEW hasTools \in BOOLEAN
    PROVE  NormalizeFinishReason(reason, hasTools) \in FinishReasons
BY DEF NormalizeFinishReason, FinishReasons

(* A new reducer is well typed.                                             *)
LEMMA ReducerTyping == NewReducer => ReducerTypeOK
<1> SUFFICES ASSUME NewReducer PROVE ReducerTypeOK
  OBVIOUS
<1>1. /\ text \in Seq(Texts) /\ reasoning \in Seq(Texts)
      /\ tools \in Seq(Tool) /\ applied \in Seq(Events)
  BY EmptySeq DEF NewReducer
<1>2. toolIndex \in [DOMAIN toolIndex -> Nat]
  BY DEF NewReducer
<1>3. usage \in Usage
  BY DEF NewReducer, ZeroUsage, Usage
<1>4. finishReason \in FinishReasons /\ err \in Errors
  BY DEF NewReducer, FinishReasons, Errors
<1>5. terminalKind \in TerminalTypes \cup {""} /\ complete \in BOOLEAN
  BY DEF NewReducer
<1> QED BY <1>1, <1>2, <1>3, <1>4, <1>5 DEF ReducerTypeOK

(* One step of Apply keeps the types.                                       *)
LEMMA ReducerTypingStep == ReducerTypeOK /\ [ReducerNext]_reducerVars => ReducerTypeOK'
<1> SUFFICES ASSUME ReducerTypeOK, [ReducerNext]_reducerVars
             PROVE  ReducerTypeOK'
  OBVIOUS
<1> USE DEF ReducerTypeOK
<1>1. CASE UNCHANGED reducerVars
  BY <1>1 DEF reducerVars, reducerState
<1>2. ASSUME NEW e \in Events, Apply(e)
      PROVE  ReducerTypeOK'
  <2>0. Receive(e) /\ applied' \in Seq(Events)
    <3>1. Receive(e)
      BY <1>2 DEF Apply, Latched, ReasoningDelta, TextDelta, Ignored, InvalidToolCall,
                  DuplicateToolCall, ToolCall, Terminal, UpstreamFailure
    <3> QED BY <3>1, AppendProperties DEF Receive
  <2>1. CASE Latched(e)
    BY <2>0, <2>1 DEF Latched, reducerState
  <2>2. CASE ReasoningDelta(e)
    BY <2>0, <2>2, EventFields, WriteType DEF ReasoningDelta, DeltaTypes
  <2>3. CASE TextDelta(e)
    BY <2>0, <2>3, EventFields, WriteType DEF TextDelta, DeltaTypes
  <2>4. CASE Ignored(e)
    BY <2>0, <2>4 DEF Ignored, reducerState
  <2>5. CASE InvalidToolCall(e)
    BY <2>0, <2>5 DEF InvalidToolCall, Errors
  <2>6. CASE DuplicateToolCall(e)
    BY <2>0, <2>6 DEF DuplicateToolCall, reducerState
  <2>7. CASE ToolCall(e)
    <3>1. tools' \in Seq(Tool)
      BY <2>7, ToolOfType, AppendProperties DEF ToolCall
    <3>2. toolIndex' \in [DOMAIN toolIndex' -> Nat]
      <4>1. Len(tools) \in Nat
        BY LenProperties
      <4> QED BY <2>7, <4>1, Zenon DEF ToolCall
    <3> QED BY <2>0, <2>7, <3>1, <3>2 DEF ToolCall
  <2>8. CASE Terminal(e)
    <3>1. finishReason' \in FinishReasons
      BY <2>8, FinishReasonType DEF Terminal
    <3>2. usage' \in Usage
      BY <2>8, UsageAfterType DEF Terminal
    <3> QED BY <2>0, <2>8, <3>1, <3>2 DEF Terminal
  <2>9. CASE UpstreamFailure(e)
    BY <2>0, <2>9 DEF UpstreamFailure, Errors
  <2> QED BY <1>2, <2>1, <2>2, <2>3, <2>4, <2>5, <2>6, <2>7, <2>8, <2>9 DEF Apply
<1> QED BY <1>1, <1>2 DEF ReducerNext

(* Type correctness of the reducer.                                         *)
THEOREM ReducerTypeCorrect == ReducerSpec => []ReducerTypeOK
BY ReducerTyping, ReducerTypingStep, PTL DEF ReducerSpec

-----------------------------------------------------------------------------
(* The inductive invariant: it ties each variable to the history.           *)

FailureInv == err = "none" <=> \A i \in DOMAIN applied : ~Fails(applied[i])

CallsInv == DOMAIN toolIndex = {ToolOf(applied[i]).id : i \in HeededCalls}

(* What the last terminal event, at i, says about the finish reason.        *)
ReasonFrom(i) ==
    /\ applied[i].reason = "length" => finishReason = "length"
    /\ applied[i].reason \in ToolCallReasons => finishReason = "tool_calls"
    /\ applied[i].reason \notin {"length"} \cup ToolCallReasons =>
          finishReason = "stop" \/ (finishReason = "tool_calls" /\ tools # <<>>)

TerminalInv ==
    /\ complete => \E i \in DOMAIN applied : IsLast(i, HeededTerminals) /\ ReasonFrom(i)
    /\ ~complete => HeededTerminals = {} /\ finishReason = "stop"

ReducerInv == ReducerTypeOK /\ FailureInv /\ ToolIndexAgrees /\ CallsInv /\ TerminalInv

(* Receiving an event extends the history by that event.                    *)
LEMMA HistoryGrows ==
    ASSUME ReducerTypeOK, NEW e \in Events, Receive(e)
    PROVE  /\ Len(applied) \in Nat
           /\ DOMAIN applied = 1..Len(applied)
           /\ DOMAIN applied' = 1..(Len(applied) + 1)
           /\ \A i \in 1..Len(applied) : applied'[i] = applied[i]
           /\ applied'[Len(applied) + 1] = e
           /\ applied' \in Seq(Events)
<1>1. applied \in Seq(Events) /\ applied' = Append(applied, e)
  BY DEF ReducerTypeOK, Receive
<1>2. /\ applied' \in Seq(Events)
      /\ Len(applied') = Len(applied) + 1
      /\ \A i \in 1..Len(applied) : applied'[i] = applied[i]
      /\ applied'[Len(applied) + 1] = e
  BY <1>1, AppendProperties
<1>3. Len(applied) \in Nat /\ DOMAIN applied = 1..Len(applied)
  BY <1>1, LenProperties
<1>4. DOMAIN applied' = 1..Len(applied')
  BY <1>2, LenProperties
<1> QED BY <1>2, <1>3, <1>4

(* Before a failure the new event is heeded unless it fails itself.         *)
LEMMA HeededWhileSound ==
    ASSUME ReducerTypeOK, FailureInv, NEW e \in Events, Receive(e), err = "none"
    PROVE  /\ HeededCalls' = HeededCalls \cup
                 {i \in {Len(applied) + 1} : e.type = "tool-call" /\ ~Fails(e)}
           /\ HeededTerminals' = HeededTerminals \cup {i \in {Len(applied) + 1} : IsTerminal(e)}
<1>0. PICK n \in Nat : n = Len(applied)
  BY HistoryGrows
<1>1. /\ n \in Nat /\ DOMAIN applied = 1..n /\ DOMAIN applied' = 1..(n + 1)
      /\ \A i \in 1..n : applied'[i] = applied[i]
      /\ applied'[n + 1] = e
  BY <1>0, HistoryGrows
<1>2. \A i \in 1..n : ~Fails(applied[i])
  BY <1>1 DEF FailureInv
<1>3. \A i \in 1..n : Heeded(i) /\ Heeded(i)'
  BY <1>1, <1>2 DEF Heeded
<1>4. Heeded(n + 1)' <=> ~Fails(e)
  BY <1>1, <1>2 DEF Heeded
<1>5. IsTerminal(e) => ~Fails(e)
  BY DEF IsTerminal, Fails, TerminalTypes, FailureTypes
<1>6. HeededCalls' = HeededCalls \cup {i \in {n + 1} : e.type = "tool-call" /\ ~Fails(e)}
  BY <1>1, <1>3, <1>4 DEF HeededCalls
<1>7. HeededTerminals' = HeededTerminals \cup {i \in {n + 1} : IsTerminal(e)}
  BY <1>1, <1>3, <1>4, <1>5 DEF HeededTerminals, IsTerminal
<1> QED BY <1>0, <1>6, <1>7

(* After a failure nothing is heeded any more.                              *)
LEMMA HeededAfterFailure ==
    ASSUME ReducerTypeOK, FailureInv, NEW e \in Events, Receive(e), err # "none"
    PROVE  HeededCalls' = HeededCalls /\ HeededTerminals' = HeededTerminals
<1>0. PICK n \in Nat : n = Len(applied)
  BY HistoryGrows
<1>1. /\ n \in Nat /\ DOMAIN applied = 1..n /\ DOMAIN applied' = 1..(n + 1)
      /\ \A i \in 1..n : applied'[i] = applied[i]
  BY <1>0, HistoryGrows
<1>2. PICK k \in 1..n : Fails(applied[k])
  BY <1>1 DEF FailureInv
<1>3. \A i \in 1..n : Heeded(i)' <=> Heeded(i)
  BY <1>1 DEF Heeded
<1>4. ~Heeded(n + 1)'
  BY <1>1, <1>2 DEF Heeded
<1> QED BY <1>1, <1>3, <1>4 DEF HeededCalls, HeededTerminals, IsTerminal

-----------------------------------------------------------------------------
(* What one call of Apply does to each part of the state.                   *)

(* Every case of Apply records its event.                                   *)
LEMMA ApplyReceives ==
    ASSUME NEW e \in Events, Apply(e)
    PROVE  Receive(e)
BY DEF Apply, Latched, ReasoningDelta, TextDelta, Ignored, InvalidToolCall,
       DuplicateToolCall, ToolCall, Terminal, UpstreamFailure

(* An error is latched by the first event that fails, and stays.            *)
LEMMA ApplyErr ==
    ASSUME NEW e \in Events, Apply(e)
    PROVE  err' = "none" <=> err = "none" /\ ~Fails(e)
<1> USE DEF Fails, FailureTypes, DeltaTypes, ProvisionalTypes, TerminalTypes
<1>1. CASE Latched(e)
  BY <1>1 DEF Latched, reducerState
<1>2. CASE ReasoningDelta(e) \/ TextDelta(e)
  BY <1>2 DEF ReasoningDelta, TextDelta
<1>3. CASE Ignored(e)
  BY <1>3 DEF Ignored, reducerState
<1>4. CASE InvalidToolCall(e) \/ UpstreamFailure(e)
  BY <1>4 DEF InvalidToolCall, UpstreamFailure
<1>5. CASE DuplicateToolCall(e) \/ ToolCall(e)
  BY <1>5 DEF DuplicateToolCall, ToolCall, reducerState
<1>6. CASE Terminal(e)
  BY <1>6 DEF Terminal
<1> QED BY <1>1, <1>2, <1>3, <1>4, <1>5, <1>6 DEF Apply

(* The call is added, or there was no new sound call to add.                *)
AddsTool(e) ==
    /\ err = "none" /\ e.type = "tool-call" /\ ~Fails(e)
    /\ ToolOf(e).id \notin DOMAIN toolIndex
    /\ tools' = Append(tools, ToolOf(e))
    /\ toolIndex' = [i \in DOMAIN toolIndex \cup {ToolOf(e).id} |->
                        IF i \in DOMAIN toolIndex THEN toolIndex[i] ELSE Len(tools)]
    /\ UNCHANGED <<complete, finishReason>>
KeepsTools(e) ==
    /\ UNCHANGED <<tools, toolIndex>>
    /\ \/ err # "none" \/ e.type # "tool-call" \/ Fails(e)
       \/ ToolOf(e).id \in DOMAIN toolIndex

(* A call adds a tool, or leaves tools and map alone for a known reason.    *)
LEMMA ApplyTools ==
    ASSUME NEW e \in Events, Apply(e)
    PROVE  AddsTool(e) \/ KeepsTools(e)
<1> USE DEF Fails, FailureTypes, DeltaTypes, ProvisionalTypes, TerminalTypes
<1>1. CASE Latched(e)
  BY <1>1 DEF Latched, reducerState, KeepsTools
<1>2. CASE ReasoningDelta(e) \/ TextDelta(e)
  BY <1>2 DEF ReasoningDelta, TextDelta, KeepsTools
<1>3. CASE Ignored(e)
  BY <1>3 DEF Ignored, reducerState, KeepsTools
<1>4. CASE InvalidToolCall(e) \/ UpstreamFailure(e)
  BY <1>4 DEF InvalidToolCall, UpstreamFailure, KeepsTools
<1>5. CASE DuplicateToolCall(e)
  BY <1>5 DEF DuplicateToolCall, reducerState, KeepsTools
<1>6. CASE ToolCall(e)
  BY <1>6 DEF ToolCall, AddsTool
<1>7. CASE Terminal(e)
  BY <1>7 DEF Terminal, KeepsTools
<1> QED BY <1>1, <1>2, <1>3, <1>4, <1>5, <1>6, <1>7 DEF Apply

(* The event completes the stream, or it leaves the completion alone.       *)
Completes(e) ==
    /\ err = "none" /\ IsTerminal(e)
    /\ complete' = TRUE
    /\ finishReason' = NormalizeFinishReason(e.reason, tools # <<>>)
    /\ usage' = UsageAfter(e)
    /\ UNCHANGED <<tools, toolIndex>>
KeepsCompletion(e) ==
    /\ UNCHANGED <<complete, finishReason, usage>>
    /\ err # "none" \/ ~IsTerminal(e)

(* A call completes the stream, or leaves its completion alone.             *)
LEMMA ApplyCompletion ==
    ASSUME NEW e \in Events, Apply(e)
    PROVE  Completes(e) \/ KeepsCompletion(e)
<1> USE DEF IsTerminal, FailureTypes, DeltaTypes, ProvisionalTypes, TerminalTypes
<1>1. CASE Latched(e)
  BY <1>1 DEF Latched, reducerState, KeepsCompletion
<1>2. CASE ReasoningDelta(e) \/ TextDelta(e)
  BY <1>2 DEF ReasoningDelta, TextDelta, KeepsCompletion
<1>3. CASE Ignored(e)
  BY <1>3 DEF Ignored, reducerState, KeepsCompletion
<1>4. CASE InvalidToolCall(e) \/ UpstreamFailure(e)
  BY <1>4 DEF InvalidToolCall, UpstreamFailure, KeepsCompletion
<1>5. CASE DuplicateToolCall(e) \/ ToolCall(e)
  BY <1>5 DEF DuplicateToolCall, ToolCall, reducerState, KeepsCompletion
<1>6. CASE Terminal(e)
  BY <1>6 DEF Terminal, Completes
<1> QED BY <1>1, <1>2, <1>3, <1>4, <1>5, <1>6 DEF Apply

-----------------------------------------------------------------------------
(* The invariant holds initially and every step keeps it.                   *)

(* A new reducer satisfies the invariant.                                   *)
LEMMA ReducerInvInit == NewReducer => ReducerInv
<1> SUFFICES ASSUME NewReducer PROVE ReducerInv
  OBVIOUS
<1>1. ReducerTypeOK
  BY ReducerTyping
<1>2. DOMAIN applied = {} /\ DOMAIN tools = {} /\ DOMAIN toolIndex = {}
  <2>1. applied = <<>> /\ tools = <<>> /\ DOMAIN toolIndex = {}
    BY DEF NewReducer
  <2>2. applied \in Seq(Events) /\ tools \in Seq(Tool)
    BY <1>1 DEF ReducerTypeOK
  <2>3. Len(applied) = 0 /\ Len(tools) = 0
    BY <2>1, EmptySeq
  <2>4. DOMAIN applied = 1..0 /\ DOMAIN tools = 1..0
    BY <2>2, <2>3, LenProperties
  <2> QED BY <2>1, <2>4
<1>3. HeededCalls = {} /\ HeededTerminals = {}
  BY <1>2 DEF HeededCalls, HeededTerminals
<1>4. FailureInv
  BY <1>2 DEF FailureInv, NewReducer
<1>5. ToolIndexAgrees /\ CallsInv
  BY <1>2, <1>3 DEF ToolIndexAgrees, CallsInv
<1>6. TerminalInv
  BY <1>3 DEF TerminalInv, NewReducer
<1> QED BY <1>1, <1>4, <1>5, <1>6 DEF ReducerInv

(* err keeps saying whether an event has failed.                            *)
LEMMA FailureStep ==
    ASSUME ReducerInv, NEW e \in Events, Apply(e)
    PROVE  FailureInv'
<1>0. Receive(e) /\ ReducerTypeOK /\ FailureInv
  BY ApplyReceives DEF ReducerInv
<1>1. PICK n \in Nat : n = Len(applied)
  BY <1>0, HistoryGrows
<1>2. /\ DOMAIN applied = 1..n /\ DOMAIN applied' = 1..(n + 1)
      /\ \A i \in 1..n : applied'[i] = applied[i]
      /\ applied'[n + 1] = e
  BY <1>0, <1>1, HistoryGrows
<1>3. (\A i \in 1..(n + 1) : ~Fails(applied'[i])) <=> (\A i \in 1..n : ~Fails(applied[i])) /\ ~Fails(e)
  <2>1. ASSUME \A i \in 1..(n + 1) : ~Fails(applied'[i])
        PROVE  (\A i \in 1..n : ~Fails(applied[i])) /\ ~Fails(e)
    BY <1>2, <2>1
  <2>2. ASSUME \A i \in 1..n : ~Fails(applied[i]), ~Fails(e)
        PROVE  \A i \in 1..(n + 1) : ~Fails(applied'[i])
    <3> SUFFICES ASSUME NEW i \in 1..(n + 1) PROVE ~Fails(applied'[i])
      OBVIOUS
    <3>1. CASE i = n + 1
      BY <1>2, <2>2, <3>1
    <3>2. CASE i \in 1..n
      BY <1>2, <2>2, <3>2
    <3> QED BY <3>1, <3>2
  <2> QED BY <2>1, <2>2
<1>4. err' = "none" <=> err = "none" /\ ~Fails(e)
  BY ApplyErr
<1>5. err = "none" <=> \A i \in 1..n : ~Fails(applied[i])
  BY <1>0, <1>2 DEF FailureInv
<1> QED BY <1>2, <1>3, <1>4, <1>5 DEF FailureInv

(* Map and slice keep agreeing.                                             *)
LEMMA ToolIndexStep ==
    ASSUME ReducerInv, NEW e \in Events, Apply(e)
    PROVE  ToolIndexAgrees'
<1>1. AddsTool(e) \/ KeepsTools(e)
  BY ApplyTools
<1>2. CASE KeepsTools(e)
  BY <1>2 DEF KeepsTools, ReducerInv, ToolIndexAgrees
<1>3. CASE AddsTool(e)
  <2> DEFINE new == ToolOf(e)
  <2>1. tools \in Seq(Tool) /\ new \in Tool
    BY <1>3, ToolOfType DEF AddsTool, Fails, ReducerInv, ReducerTypeOK
  <2>2. PICK n \in Nat : n = Len(tools) /\ DOMAIN tools = 1..n
    BY <2>1, LenProperties
  <2>3. /\ tools' = Append(tools, new)
        /\ toolIndex' = [i \in DOMAIN toolIndex \cup {new.id} |->
                             IF i \in DOMAIN toolIndex THEN toolIndex[i] ELSE n]
        /\ new.id \notin DOMAIN toolIndex
    BY <1>3, <2>2 DEF AddsTool
  <2>4. /\ tools' \in Seq(Tool) /\ Len(tools') = n + 1
        /\ \A k \in 1..n : tools'[k] = tools[k]
        /\ tools'[n + 1] = new
    BY <2>1, <2>2, <2>3, AppendProperties
  <2>5. DOMAIN tools' = 1..(n + 1)
    BY <2>4, LenProperties
  <2> HIDE DEF new
  <2>6. /\ DOMAIN toolIndex = {tools[k].id : k \in 1..n}
        /\ \A k \in 1..n : toolIndex[tools[k].id] = k - 1
    BY <2>2 DEF ReducerInv, ToolIndexAgrees
  <2>7. DOMAIN toolIndex' = DOMAIN toolIndex \cup {new.id}
    BY <2>3
  <2>8. DOMAIN toolIndex' = {tools'[k].id : k \in 1..(n + 1)}
    <3>1. ASSUME NEW i \in DOMAIN toolIndex'
          PROVE  i \in {tools'[k].id : k \in 1..(n + 1)}
      BY <2>4, <2>6, <2>7, <3>1
    <3>2. ASSUME NEW k \in 1..(n + 1)
          PROVE  tools'[k].id \in DOMAIN toolIndex'
      <4>1. CASE k = n + 1
        BY <2>4, <2>7, <4>1
      <4>2. CASE k \in 1..n
        BY <2>4, <2>6, <2>7, <4>2
      <4> QED BY <4>1, <4>2
    <3> QED BY <3>1, <3>2
  <2>9. ASSUME NEW k \in 1..(n + 1)
        PROVE  toolIndex'[tools'[k].id] = k - 1
    <3>1. CASE k = n + 1
      BY <2>3, <2>4, <3>1
    <3>2. CASE k \in 1..n
      <4>1. tools'[k].id = tools[k].id /\ tools[k].id \in DOMAIN toolIndex
        BY <2>4, <2>6, <3>2
      <4>2. toolIndex'[tools'[k].id] = toolIndex[tools[k].id]
        BY <2>3, <4>1
      <4> QED BY <2>6, <3>2, <4>2
    <3> QED BY <3>1, <3>2
  <2> QED BY <2>5, <2>8, <2>9 DEF ToolIndexAgrees
<1> QED BY <1>1, <1>2, <1>3

(* The ids of the map stay those of the heeded calls.                       *)
LEMMA CallsStep ==
    ASSUME ReducerInv, NEW e \in Events, Apply(e)
    PROVE  CallsInv'
<1>0. Receive(e) /\ ReducerTypeOK /\ FailureInv /\ CallsInv
  BY ApplyReceives DEF ReducerInv
<1>1. PICK n \in Nat : n = Len(applied)
  BY <1>0, HistoryGrows
<1>2. /\ \A i \in 1..n : applied'[i] = applied[i]
      /\ applied'[n + 1] = e
      /\ HeededCalls \subseteq 1..n
  BY <1>0, <1>1, HistoryGrows DEF HeededCalls
<1>3. DOMAIN toolIndex = {ToolOf(applied[i]).id : i \in HeededCalls}
  BY <1>0 DEF CallsInv
<1>4. AddsTool(e) \/ KeepsTools(e)
  BY ApplyTools
<1>5. CASE err = "none" /\ e.type = "tool-call" /\ ~Fails(e)
  <2>1. HeededCalls' = HeededCalls \cup {n + 1}
    BY <1>0, <1>1, <1>5, HeededWhileSound
  <2>2. DOMAIN toolIndex' = DOMAIN toolIndex \cup {ToolOf(e).id}
    BY <1>4, <1>5 DEF AddsTool, KeepsTools
  <2>3. {ToolOf(applied'[i]).id : i \in HeededCalls'} =
           {ToolOf(applied[i]).id : i \in HeededCalls} \cup {ToolOf(e).id}
    BY <1>2, <2>1
  <2> QED BY <1>3, <2>2, <2>3 DEF CallsInv
<1>6. CASE ~(err = "none" /\ e.type = "tool-call" /\ ~Fails(e))
  <2>1. HeededCalls' = HeededCalls
    BY <1>0, <1>1, <1>6, HeededWhileSound, HeededAfterFailure
  <2>2. DOMAIN toolIndex' = DOMAIN toolIndex
    BY <1>4, <1>6 DEF AddsTool, KeepsTools
  <2>3. {ToolOf(applied'[i]).id : i \in HeededCalls'} = {ToolOf(applied[i]).id : i \in HeededCalls}
    BY <1>2, <2>1
  <2> QED BY <1>3, <2>2, <2>3 DEF CallsInv
<1> QED BY <1>5, <1>6

(* complete and the finish reason stay those of the last terminal.          *)
LEMMA TerminalStep ==
    ASSUME ReducerInv, NEW e \in Events, Apply(e)
    PROVE  TerminalInv'
<1>0. Receive(e) /\ ReducerTypeOK /\ FailureInv /\ TerminalInv
  BY ApplyReceives DEF ReducerInv
<1>1. PICK n \in Nat : n = Len(applied)
  BY <1>0, HistoryGrows
<1>2. /\ \A i \in 1..n : applied'[i] = applied[i]
      /\ applied'[n + 1] = e
      /\ DOMAIN applied = 1..n /\ DOMAIN applied' = 1..(n + 1)
      /\ HeededTerminals \subseteq 1..n
  BY <1>0, <1>1, HistoryGrows DEF HeededTerminals
<1>3. CASE Completes(e)
  <2>1. HeededTerminals' = HeededTerminals \cup {n + 1}
    BY <1>0, <1>1, <1>3, HeededWhileSound DEF Completes
  <2>2. IsLast(n + 1, HeededTerminals')
    BY <1>2, <2>1, NewestIsLast
  <2>3. /\ complete' = TRUE /\ tools' = tools
        /\ finishReason' = NormalizeFinishReason(e.reason, tools # <<>>)
    BY <1>3 DEF Completes
  <2>4. ReasonFrom(n + 1)'
    BY <1>2, <2>3 DEF ReasonFrom, NormalizeFinishReason, ToolCallReasons
  <2> QED BY <1>2, <2>2, <2>3, <2>4 DEF TerminalInv, IsLast
<1>4. CASE KeepsCompletion(e)
  <2>1. HeededTerminals' = HeededTerminals
    BY <1>0, <1>1, <1>4, HeededWhileSound, HeededAfterFailure DEF KeepsCompletion
  <2>2. complete' = complete /\ finishReason' = finishReason
    BY <1>4 DEF KeepsCompletion
  <2>3. tools # <<>> => tools' # <<>>
    <3>1. AddsTool(e) \/ KeepsTools(e)
      BY ApplyTools
    <3>2. CASE AddsTool(e)
      <4>1. tools \in Seq(Tool) /\ ToolOf(e) \in Tool /\ tools' = Append(tools, ToolOf(e))
        BY <1>0, <3>2, ToolOfType DEF AddsTool, Fails, ReducerTypeOK
      <4> QED BY <4>1, AppendProperties
    <3> QED BY <3>1, <3>2 DEF KeepsTools
  <2>4. ASSUME NEW i \in DOMAIN applied, IsLast(i, HeededTerminals), ReasonFrom(i)
        PROVE  IsLast(i, HeededTerminals') /\ ReasonFrom(i)'
    BY <1>2, <2>1, <2>2, <2>3, <2>4 DEF ReasonFrom
  <2> QED BY <1>0, <1>2, <2>1, <2>2, <2>4 DEF TerminalInv, IsLast
<1> QED BY <1>3, <1>4, ApplyCompletion

(* One step of the reducer keeps the invariant.                             *)
LEMMA ReducerInvStep == ReducerInv /\ [ReducerNext]_reducerVars => ReducerInv'
<1> SUFFICES ASSUME ReducerInv, [ReducerNext]_reducerVars
             PROVE  ReducerInv'
  OBVIOUS
<1>1. ReducerTypeOK'
  BY ReducerTypingStep DEF ReducerInv
<1>2. CASE UNCHANGED reducerVars
  BY <1>1, <1>2 DEF ReducerInv, reducerVars, reducerState, FailureInv, ToolIndexAgrees, CallsInv,
                    TerminalInv, ReasonFrom, HeededCalls, HeededTerminals, Heeded, IsLast
<1>3. CASE ReducerNext
  <2>1. PICK e \in Events : Apply(e)
    BY <1>3 DEF ReducerNext
  <2> QED BY <1>1, <2>1, FailureStep, ToolIndexStep, CallsStep, TerminalStep DEF ReducerInv
<1> QED BY <1>2, <1>3

(* The inductive invariant: what err, the map, complete and the finish      *)
(* reason say of the events applied so far (reduce.go:81-128).              *)
THEOREM ReducerInvariant == ReducerSpec => []ReducerInv
BY ReducerInvInit, ReducerInvStep, PTL DEF ReducerSpec

(* The map and the slice of accepted calls always agree (reduce.go:102-108).*)
THEOREM ToolIndexCorrect == ReducerSpec => []ToolIndexAgrees
BY ReducerInvariant, PTL DEF ReducerInv

-----------------------------------------------------------------------------
(* What the invariant says about the answer.                                *)

(* There are tools exactly if a call was heeded.                            *)
LEMMA NoToolsNoCalls ==
    ASSUME ReducerInv
    PROVE  tools = <<>> <=> HeededCalls = {}
<1>1. tools \in Seq(Tool)
  BY DEF ReducerInv, ReducerTypeOK
<1>2. tools = <<>> <=> DOMAIN tools = {}
  <2>1. Len(tools) \in Nat /\ DOMAIN tools = 1..Len(tools)
    BY <1>1, LenProperties
  <2>2. tools = <<>> <=> Len(tools) = 0
    BY <1>1, EmptySeq
  <2> QED BY <2>1, <2>2
<1>3. DOMAIN tools = {} <=> DOMAIN toolIndex = {}
  BY DEF ReducerInv, ToolIndexAgrees
<1>4. DOMAIN toolIndex = {} <=> HeededCalls = {}
  BY DEF ReducerInv, CallsInv
<1> QED BY <1>2, <1>3, <1>4

(* Positions in the history are numbers.                                    *)
LEMMA HistoryIndexes ==
    ASSUME ReducerInv
    PROVE  DOMAIN applied \subseteq Nat /\ HeededTerminals \subseteq Nat
<1>1. applied \in Seq(Events)
  BY DEF ReducerInv, ReducerTypeOK
<1>2. DOMAIN applied = 1..Len(applied) /\ Len(applied) \in Nat
  BY <1>1, LenProperties
<1> QED BY <1>2 DEF HeededTerminals

(* When Finish returns no error (reduce.go:130-143).                        *)
LEMMA FinishSucceeds ==
    FinishError = "none" <=>
        /\ err = "none" /\ complete
        /\ ~(FinishedReason = "tool_calls" /\ tools = <<>>)
<1>1. CASE err # "none"
  BY <1>1 DEF FinishError
<1>2. CASE err = "none" /\ ~complete
  BY <1>2 DEF FinishError
<1>3. CASE err = "none" /\ complete /\ FinishedReason = "tool_calls" /\ tools = <<>>
  BY <1>3 DEF FinishError
<1>4. CASE err = "none" /\ complete /\ ~(FinishedReason = "tool_calls" /\ tools = <<>>)
  BY <1>4 DEF FinishError
<1> QED BY <1>1, <1>2, <1>3, <1>4

(* The invariant makes success earned.                                      *)
LEMMA InvEarns == ReducerInv => EarnedCompletion
<1> SUFFICES ASSUME ReducerInv PROVE EarnedCompletion
  OBVIOUS
<1>1. err = "none" <=> \A i \in DOMAIN applied : ~Fails(applied[i])
  BY DEF ReducerInv, FailureInv
<1>2. ~complete => HeededTerminals = {}
  BY DEF ReducerInv, TerminalInv
<1>3. CASE ~complete
  BY <1>2, <1>3, FinishSucceeds DEF EarnedCompletion
<1>4. CASE complete
  <2>1. PICK i \in DOMAIN applied : IsLast(i, HeededTerminals) /\ ReasonFrom(i)
    BY <1>4 DEF ReducerInv, TerminalInv
  <2>2. HeededTerminals # {}
    BY <2>1 DEF IsLast
  <2>3. (\E j \in DOMAIN applied : IsLast(j, HeededTerminals) /\ ClaimsTools(j)) <=> ClaimsTools(i)
    BY <2>1, HistoryIndexes, LastIsUnique
  <2>4. tools = <<>> => (FinishedReason = "tool_calls" <=> ClaimsTools(i))
    BY <2>1 DEF FinishedReason, ReasonFrom, ClaimsTools, ToolCallReasons
  <2> QED BY <1>1, <1>4, <2>2, <2>3, <2>4, FinishSucceeds, NoToolsNoCalls DEF EarnedCompletion
<1> QED BY <1>3, <1>4

(* The caller is told of success exactly when the event stream earned it.   *)
THEOREM CompletionIsEarned == ReducerSpec => []EarnedCompletion
BY ReducerInvariant, InvEarns, PTL

(* The invariant makes the finish reason agree with the content.            *)
LEMMA InvHonest == ReducerInv => ReasonHonest
<1> SUFFICES ASSUME ReducerInv, FinishError = "none"
             PROVE  /\ FinishedReason = "length" <=>
                         \E i \in DOMAIN applied :
                            IsLast(i, HeededTerminals) /\ applied[i].reason = "length"
                    /\ FinishedReason = "tool_calls" => tools # <<>>
                    /\ FinishedReason = "stop" => HeededCalls = {}
  BY DEF ReasonHonest
<1>1. complete /\ ~(FinishedReason = "tool_calls" /\ tools = <<>>)
  BY FinishSucceeds
<1>2. PICK i \in DOMAIN applied : IsLast(i, HeededTerminals) /\ ReasonFrom(i)
  BY <1>1 DEF ReducerInv, TerminalInv
<1>3. finishReason = "length" <=> applied[i].reason = "length"
  BY <1>2 DEF ReasonFrom, ToolCallReasons
<1>4. FinishedReason = "length" <=> finishReason = "length"
  BY DEF FinishedReason
<1>5. (\E j \in DOMAIN applied : IsLast(j, HeededTerminals) /\ applied[j].reason = "length")
         <=> applied[i].reason = "length"
  BY <1>2, HistoryIndexes, LastIsUnique
<1>6. FinishedReason = "stop" => tools = <<>>
  BY DEF FinishedReason
<1> QED BY <1>1, <1>3, <1>4, <1>5, <1>6, NoToolsNoCalls

(* The finish reason of a successful answer agrees with its content.        *)
THEOREM ReasonIsHonest == ReducerSpec => []ReasonHonest
BY ReducerInvariant, InvHonest, PTL

-----------------------------------------------------------------------------
(* The accepted calls, in order, are the first ones of their ids.           *)

(* A new reducer holds the first calls of an empty history.                 *)
LEMMA FirstCallsInit == NewReducer => ToolsAreFirstCalls
<1> SUFFICES ASSUME NewReducer PROVE ToolsAreFirstCalls
  OBVIOUS
<1>1. ReducerTypeOK
  BY ReducerTyping
<1>2. DOMAIN applied = {} /\ DOMAIN tools = {}
  <2>1. applied = <<>> /\ tools = <<>> /\ applied \in Seq(Events) /\ tools \in Seq(Tool)
    BY <1>1 DEF NewReducer, ReducerTypeOK
  <2>2. Len(applied) = 0 /\ Len(tools) = 0
    BY <2>1, EmptySeq
  <2>3. DOMAIN applied = 1..0 /\ DOMAIN tools = 1..0
    BY <2>1, <2>2, LenProperties
  <2> QED BY <2>3
<1>3. FirstCalls = {}
  BY <1>2 DEF FirstCalls, HeededCalls
<1> DEFINE at == [k \in {} |-> 0]
<1>4. at \in [DOMAIN tools -> DOMAIN applied]
  BY <1>2
<1> QED BY <1>2, <1>3, <1>4 DEF ToolsAreFirstCalls

(* How FirstCalls grows with the history.                                   *)
LEMMA FirstCallsGrow ==
    ASSUME ReducerInv, NEW e \in Events, Apply(e)
    PROVE  /\ AddsTool(e) => FirstCalls' = FirstCalls \cup {Len(applied) + 1}
           /\ KeepsTools(e) => FirstCalls' = FirstCalls
           /\ FirstCalls \subseteq 1..Len(applied)
<1>0. Receive(e) /\ ReducerTypeOK /\ FailureInv /\ CallsInv
  BY ApplyReceives DEF ReducerInv
<1>1. PICK n \in Nat : n = Len(applied)
  BY <1>0, HistoryGrows
<1>2. /\ \A i \in 1..n : applied'[i] = applied[i]
      /\ applied'[n + 1] = e
      /\ HeededCalls \subseteq 1..n
  BY <1>0, <1>1, HistoryGrows DEF HeededCalls
<1>3. DOMAIN toolIndex = {ToolOf(applied[i]).id : i \in HeededCalls}
  BY <1>0 DEF CallsInv
<1>4. CASE err = "none" /\ e.type = "tool-call" /\ ~Fails(e)
  <2>1. HeededCalls' = HeededCalls \cup {n + 1}
    BY <1>0, <1>1, <1>4, HeededWhileSound
  <2>2. CASE ToolOf(e).id \notin DOMAIN toolIndex
    <3>1. \A i \in HeededCalls : ToolOf(applied[i]).id # ToolOf(e).id
      BY <1>3, <2>2
    <3>2. \A i \in HeededCalls : ToolOf(applied'[i]).id # ToolOf(applied'[n + 1]).id
      BY <1>2, <3>1
    <3>3. FirstCalls' = {i \in HeededCalls' : \A j \in HeededCalls' :
                           ToolOf(applied'[j]).id = ToolOf(applied'[i]).id => i <= j}
      BY DEF FirstCalls
    <3>4. n + 1 \in FirstCalls'
      BY <2>1, <3>2, <3>3
    <3>5. ASSUME NEW i \in HeededCalls
          PROVE  i \in FirstCalls' <=> i \in FirstCalls
      BY <1>2, <2>1, <3>2, <3>3 DEF FirstCalls
    <3>6. FirstCalls' = FirstCalls \cup {n + 1}
      BY <2>1, <3>3, <3>4, <3>5 DEF FirstCalls
    <3> QED BY <1>1, <1>2, <1>4, <2>2, <3>6 DEF KeepsTools, FirstCalls
  <2>3. CASE ToolOf(e).id \in DOMAIN toolIndex
    <3>1. PICK k \in HeededCalls : ToolOf(applied[k]).id = ToolOf(e).id
      BY <1>3, <2>3
    <3>2. FirstCalls' = {i \in HeededCalls' : \A j \in HeededCalls' :
                           ToolOf(applied'[j]).id = ToolOf(applied'[i]).id => i <= j}
      BY DEF FirstCalls
    <3>3. n + 1 \notin FirstCalls'
      BY <1>2, <2>1, <3>1, <3>2
    <3>4. ASSUME NEW i \in HeededCalls
          PROVE  i \in FirstCalls' <=> i \in FirstCalls
      <4>1. i \in 1..n /\ i \in HeededCalls'
        BY <1>2, <2>1
      <4>2. ASSUME i \in FirstCalls, NEW j \in HeededCalls',
                   ToolOf(applied'[j]).id = ToolOf(applied'[i]).id
            PROVE  i <= j
        <5>1. CASE j = n + 1
          BY <4>1, <5>1
        <5>2. CASE j \in HeededCalls
          <6>1. applied'[j] = applied[j] /\ applied'[i] = applied[i]
            BY <1>2, <4>1, <5>2
          <6> QED BY <4>2, <5>2, <6>1 DEF FirstCalls
        <5> QED BY <2>1, <5>1, <5>2
      <4>3. ASSUME i \in FirstCalls', NEW j \in HeededCalls,
                   ToolOf(applied[j]).id = ToolOf(applied[i]).id
            PROVE  i <= j
        <5>1. applied'[j] = applied[j] /\ applied'[i] = applied[i] /\ j \in HeededCalls'
          BY <1>2, <2>1
        <5> QED BY <3>2, <4>3, <5>1
      <4> QED BY <3>2, <4>1, <4>2, <4>3 DEF FirstCalls
    <3>5. FirstCalls' = FirstCalls
      BY <2>1, <3>2, <3>3, <3>4 DEF FirstCalls
    <3> QED BY <1>1, <1>2, <2>3, <3>5 DEF AddsTool, FirstCalls
  <2> QED BY <2>2, <2>3
<1>5. CASE ~(err = "none" /\ e.type = "tool-call" /\ ~Fails(e))
  <2>1. HeededCalls' = HeededCalls
    BY <1>0, <1>1, <1>5, HeededWhileSound, HeededAfterFailure
  <2>2. FirstCalls' = {i \in HeededCalls : \A j \in HeededCalls :
                         ToolOf(applied'[j]).id = ToolOf(applied'[i]).id => i <= j}
    BY <2>1 DEF FirstCalls
  <2>3. FirstCalls' = FirstCalls
    BY <1>2, <2>2 DEF FirstCalls
  <2> QED BY <1>1, <1>2, <1>5, <2>3 DEF AddsTool, FirstCalls
<1> QED BY <1>4, <1>5

(* Applying an event keeps tools equal to the first calls.                  *)
LEMMA FirstCallsStep ==
    ASSUME ReducerInv, ToolsAreFirstCalls, NEW e \in Events, Apply(e)
    PROVE  ToolsAreFirstCalls'
<1>0. Receive(e) /\ ReducerTypeOK
  BY ApplyReceives DEF ReducerInv
<1>1. PICK n \in Nat : n = Len(applied)
  BY <1>0, HistoryGrows
<1>2. /\ \A i \in 1..n : applied'[i] = applied[i]
      /\ applied'[n + 1] = e
      /\ DOMAIN applied = 1..n /\ DOMAIN applied' = 1..(n + 1)
      /\ FirstCalls \subseteq 1..n
  BY <1>0, <1>1, HistoryGrows, FirstCallsGrow
<1>3. PICK at \in [DOMAIN tools -> DOMAIN applied] :
         /\ \A k, l \in DOMAIN tools : k < l => at[k] < at[l]
         /\ {at[k] : k \in DOMAIN tools} = FirstCalls
         /\ \A k \in DOMAIN tools : tools[k] = ToolOf(applied[at[k]])
  BY DEF ToolsAreFirstCalls
<1>4. CASE KeepsTools(e)
  <2>1. tools' = tools /\ FirstCalls' = FirstCalls
    BY <1>4, FirstCallsGrow DEF KeepsTools
  <2>2. at \in [DOMAIN tools' -> DOMAIN applied']
    BY <1>2, <1>3, <2>1
  <2>3. \A k \in DOMAIN tools' : tools'[k] = ToolOf(applied'[at[k]])
    BY <1>2, <1>3, <2>1
  <2> QED BY <1>3, <2>1, <2>2, <2>3 DEF ToolsAreFirstCalls
<1>5. CASE AddsTool(e)
  <2>1. tools \in Seq(Tool) /\ ToolOf(e) \in Tool /\ tools' = Append(tools, ToolOf(e))
    BY <1>0, <1>5, ToolOfType DEF AddsTool, Fails, ReducerTypeOK
  <2>2. PICK m \in Nat : m = Len(tools) /\ DOMAIN tools = 1..m
    BY <2>1, LenProperties
  <2>3. /\ tools' \in Seq(Tool) /\ Len(tools') = m + 1
        /\ \A k \in 1..m : tools'[k] = tools[k]
        /\ tools'[m + 1] = ToolOf(e)
    BY <2>1, <2>2, AppendProperties
  <2>4. DOMAIN tools' = 1..(m + 1)
    BY <2>3, LenProperties
  <2>5. FirstCalls' = FirstCalls \cup {n + 1}
    BY <1>1, <1>5, FirstCallsGrow
  <2>6. PICK new \in [1..(m + 1) -> 1..(n + 1)] :
           new = [k \in 1..(m + 1) |-> IF k \in 1..m THEN at[k] ELSE n + 1]
    <3>1. \A k \in 1..m : at[k] \in 1..n
      BY <1>2, <1>3, <2>2
    <3> DEFINE f == [k \in 1..(m + 1) |-> IF k \in 1..m THEN at[k] ELSE n + 1]
    <3>2. \A k \in 1..(m + 1) : (IF k \in 1..m THEN at[k] ELSE n + 1) \in 1..(n + 1)
      BY <3>1
    <3>3. f \in [1..(m + 1) -> 1..(n + 1)]
      BY <3>2
    <3> QED BY <3>3
  <2>7. (\A k \in 1..m : new[k] = at[k] /\ at[k] \in 1..n) /\ new[m + 1] = n + 1
    BY <1>2, <1>3, <2>2, <2>6
  <2>8. ASSUME NEW k \in 1..(m + 1), NEW l \in 1..(m + 1), k < l
        PROVE  new[k] < new[l]
    <3>1. CASE l = m + 1
      <4>1. k \in 1..m
        BY <2>8, <3>1
      <4> QED BY <2>7, <3>1, <4>1
    <3>2. CASE l \in 1..m
      <4>1. k \in 1..m
        BY <2>8, <3>2
      <4> QED BY <1>3, <2>2, <2>7, <2>8, <3>2, <4>1
    <3> QED BY <3>1, <3>2
  <2>9. {new[k] : k \in 1..(m + 1)} = FirstCalls'
    <3>1. {new[k] : k \in 1..(m + 1)} = {at[k] : k \in 1..m} \cup {n + 1}
      BY <2>7
    <3> QED BY <1>3, <2>2, <2>5, <3>1
  <2>10. ASSUME NEW k \in 1..(m + 1)
         PROVE  tools'[k] = ToolOf(applied'[new[k]])
    <3>1. CASE k = m + 1
      BY <1>2, <2>3, <2>7, <3>1
    <3>2. CASE k \in 1..m
      BY <1>2, <1>3, <2>2, <2>3, <2>7, <3>2, SMTT(30)
    <3> QED BY <3>1, <3>2
  <2>11. new \in [DOMAIN tools' -> DOMAIN applied']
    BY <1>2, <2>4, <2>6
  <2>12. /\ \A k, l \in DOMAIN tools' : k < l => new[k] < new[l]
         /\ {new[k] : k \in DOMAIN tools'} = FirstCalls'
         /\ \A k \in DOMAIN tools' : tools'[k] = ToolOf(applied'[new[k]])
    BY <2>4, <2>8, <2>9, <2>10
  <2> QED BY <2>11, <2>12 DEF ToolsAreFirstCalls
<1> QED BY <1>4, <1>5, ApplyTools

(* So does every step.                                                      *)
LEMMA FirstCallsNext ==
    ReducerInv /\ ToolsAreFirstCalls /\ [ReducerNext]_reducerVars => ToolsAreFirstCalls'
<1> SUFFICES ASSUME ReducerInv, ToolsAreFirstCalls, [ReducerNext]_reducerVars
             PROVE  ToolsAreFirstCalls'
  OBVIOUS
<1>1. CASE UNCHANGED reducerVars
  BY <1>1 DEF reducerVars, reducerState, ToolsAreFirstCalls, FirstCalls, HeededCalls, Heeded
<1>2. CASE ReducerNext
  BY <1>2, FirstCallsStep DEF ReducerNext
<1> QED BY <1>1, <1>2

(* The answer's tool calls are the first authoritative calls of their ids,  *)
(* in order of arrival, and nothing else.                                   *)
THEOREM ToolsAreAuthoritative == ReducerSpec => []ToolsAreFirstCalls
BY ReducerInvariant, FirstCallsInit, FirstCallsNext, PTL DEF ReducerSpec

-----------------------------------------------------------------------------
(* The usage is the one last reported.                                      *)

UsageInv ==
    /\ Reports \subseteq HeededTerminals
    /\ Reports = {} => usage = ZeroUsage
    /\ Reports # {} => \E i \in Reports : /\ IsLast(i, Reports)
                                          /\ usage = ParseUsage(ReportedBy(applied[i]))

(* One event reports anew, or neither the reports nor the usage change.     *)
LEMMA UsageStep ==
    ASSUME ReducerInv, UsageInv, NEW e \in Events, Apply(e)
    PROVE  UsageInv'
<1>0. Receive(e) /\ ReducerTypeOK /\ FailureInv
  BY ApplyReceives DEF ReducerInv
<1>1. PICK n \in Nat : n = Len(applied)
  BY <1>0, HistoryGrows
<1>2. /\ \A i \in 1..n : applied'[i] = applied[i]
      /\ applied'[n + 1] = e
      /\ HeededTerminals \subseteq 1..n
  BY <1>0, <1>1, HistoryGrows DEF HeededTerminals
<1>3. Reports = {i \in HeededTerminals : applied[i].usage # NoUsage \/ applied[i].totalUsage # NoUsage}
  BY DEF Reports
<1>4. Reports' = {i \in HeededTerminals' : applied'[i].usage # NoUsage \/ applied'[i].totalUsage # NoUsage}
  BY DEF Reports
<1>5. CASE Completes(e) /\ (e.usage # NoUsage \/ e.totalUsage # NoUsage)
  <2>1. HeededTerminals' = HeededTerminals \cup {n + 1}
    BY <1>0, <1>1, <1>5, HeededWhileSound DEF Completes
  <2>2. Reports' = Reports \cup {n + 1}
    BY <1>2, <1>3, <1>4, <1>5, <2>1
  <2>3. IsLast(n + 1, Reports')
    <3>1. Reports \subseteq 1..n
      BY <1>2, <1>3
    <3> QED BY <2>2, <3>1, NewestIsLast
  <2>4. usage' = ParseUsage(ReportedBy(e))
    BY <1>5 DEF Completes, UsageAfter, ReportedBy
  <2> QED BY <1>2, <1>4, <2>2, <2>3, <2>4 DEF UsageInv
<1>6. CASE ~(Completes(e) /\ (e.usage # NoUsage \/ e.totalUsage # NoUsage))
  <2>1. usage' = usage
    <3>1. CASE Completes(e)
      BY <1>6, <3>1 DEF Completes, UsageAfter
    <3> QED BY <3>1, ApplyCompletion DEF KeepsCompletion
  <2>2. Reports' = Reports
    <3>1. CASE Completes(e)
      <4>1. HeededTerminals' = HeededTerminals \cup {n + 1}
        BY <1>0, <1>1, <3>1, HeededWhileSound DEF Completes
      <4> QED BY <1>2, <1>3, <1>4, <1>6, <3>1, <4>1
    <3>2. CASE KeepsCompletion(e)
      <4>1. HeededTerminals' = HeededTerminals
        BY <1>0, <1>1, <3>2, HeededWhileSound, HeededAfterFailure DEF KeepsCompletion
      <4> QED BY <1>2, <1>3, <1>4, <4>1
    <3> QED BY <3>1, <3>2, ApplyCompletion
  <2>3. \A i \in Reports : applied'[i] = applied[i]
    BY <1>2, <1>3
  <2> QED BY <1>4, <2>1, <2>2, <2>3 DEF UsageInv, IsLast
<1> QED BY <1>5, <1>6

(* The invariant of the usage holds in every reachable state.               *)
LEMMA UsageInvariant == ReducerSpec => []UsageInv
<1>1. NewReducer => UsageInv
  <2> SUFFICES ASSUME NewReducer PROVE UsageInv
    OBVIOUS
  <2>0. applied = <<>> /\ applied \in Seq(Events) /\ Len(applied) = 0
    BY EmptySeq DEF NewReducer
  <2>1. DOMAIN applied = 1..0
    BY <2>0, LenProperties
  <2>2. HeededTerminals = {} /\ Reports = {}
    BY <2>1 DEF HeededTerminals, Reports
  <2> QED BY <2>2 DEF UsageInv, NewReducer
<1>2. ReducerInv /\ UsageInv /\ [ReducerNext]_reducerVars => UsageInv'
  <2>1. ASSUME UsageInv, UNCHANGED reducerVars PROVE UsageInv'
    BY <2>1 DEF UsageInv, reducerVars, reducerState, Reports, HeededTerminals, Heeded, IsLast
  <2> QED BY <2>1, UsageStep DEF ReducerNext
<1> QED BY <1>1, <1>2, ReducerInvariant, PTL DEF ReducerSpec

(* What the invariant says of each field.                                   *)
LEMMA UsageInvReports == ReducerInv /\ UsageInv => UsageIsLastReported
<1> SUFFICES ASSUME ReducerInv, UsageInv PROVE UsageIsLastReported
  OBVIOUS
<1>1. ASSUME NEW i \in Reports, IsLast(i, Reports)
      PROVE  LET u == ReportedBy(applied[i])
             IN  /\ usage.prompt = u.input /\ usage.completion = u.output
                 /\ usage.total = (IF u.total > 0 THEN u.total ELSE u.input + u.output)
                 /\ usage.cached \in {u.cached, u.cacheRead}
                 /\ (u.cached > 0 => usage.cached = u.cached)
  <2> DEFINE u == ReportedBy(applied[i])
  <2>1. Reports \in SUBSET Nat
    BY HistoryIndexes DEF UsageInv
  <2>2. usage = ParseUsage(u)
    BY <1>1, <2>1, LastIsUnique DEF UsageInv
  <2>3. u \in RawUsage
    <3>1. applied[i] \in Events /\ applied[i].type \in TerminalTypes
      BY ElementOfSeq, LenProperties DEF ReducerInv, ReducerTypeOK, Reports, HeededTerminals, IsTerminal
    <3>2. applied[i].usage # NoUsage \/ applied[i].totalUsage # NoUsage
      BY DEF Reports
    <3> QED BY <3>1, <3>2, EventFields DEF ReportedBy
  <2> HIDE DEF u
  <2>4. u.total \in Nat /\ u.cached \in Nat
    BY <2>3 DEF RawUsage
  <2>5. /\ usage.prompt = u.input /\ usage.completion = u.output
        /\ usage.total = (IF u.total > 0 THEN u.total ELSE u.input + u.output)
        /\ usage.cached \in {u.cached, u.cacheRead}
        /\ (u.cached > 0 => usage.cached = u.cached)
    BY <2>2, <2>4 DEF ParseUsage
  <2> QED BY <2>5 DEF u
<1> QED BY <1>1 DEF UsageInv, UsageIsLastReported

(* The usage billed is that of the last terminal that carries any, with     *)
(* the totals and the cached tokens its fallbacks say (reduce.go:155-164).  *)
THEOREM UsageIsTheLastReported == ReducerSpec => []UsageIsLastReported
BY ReducerInvariant, UsageInvariant, UsageInvReports, PTL
=============================================================================
