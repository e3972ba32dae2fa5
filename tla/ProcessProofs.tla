--------------------------- MODULE ProcessProofs ---------------------------
(***************************************************************************)
(* Theorems about Process, for any environment, any keys and any number of *)
(* requests.                                                               *)
(***************************************************************************)
EXTENDS Process, HistoryProofs

(* What a return of main finds: where the key and the clients are, what     *)
(* has become of the listener, and whether the goroutine that shuts the     *)
(* server down has run.                                                     *)
Phases == Loading \cup {"listening", "serving", "exited"}

PhaseInv ==
    /\ phase \in Phases
    /\ phase \in {"clients", "adding", "listening", "serving"} => upstreamKey # <<>>
    /\ phase \in {"listening", "serving"} => todo = <<>>
    /\ phase # "command" => command = "none"

ShutdownInv ==
    /\ shuttingDown \in BOOLEAN
    /\ shuttingDown => signalled /\ phase \notin Loading
    /\ phase \in Loading \cup {"listening"} => listener = "unbound"
    /\ phase = "serving" => listener = "bound"

RequestsInv ==
    /\ DOMAIN requests = Requests
    /\ \A r \in Requests : "state" \in DOMAIN requests[r]

ProcessInv == PhaseInv /\ ShutdownInv /\ RequestsInv /\ ExitIsHonest

(* A process that starts has reported nothing.                              *)
LEMMA InitProcess == Init => ProcessInv
<1> SUFFICES ASSUME Init PROVE ProcessInv
    OBVIOUS
<1>1. PhaseInv /\ ShutdownInv
    BY DEF Init, PhaseInv, ShutdownInv, Phases, Loading
<1>2. RequestsInv /\ ExitIsHonest
    BY DEF Init, RequestsInv, ExitIsHonest, Idle, Pending
<1>3. QED
    BY <1>1, <1>2 DEF ProcessInv

(* A step of Load that does not end the process leaves all that serves as   *)
(* it is.                                                                   *)
LEMMA LoadsKeeps ==
    ASSUME ProcessInv, NEW from \in Loading, NEW to \in Loading \cup {"listening"}, Loads(from, to)
    PROVE  /\ ShutdownInv' /\ RequestsInv' /\ ExitIsHonest'
<1>1. ShutdownInv'
    BY DEF ProcessInv, ShutdownInv, Loads, servingVars, Loading
<1>2. RequestsInv'
    BY DEF ProcessInv, RequestsInv, Loads, servingVars
<1>3. ExitIsHonest'
    BY DEF ProcessInv, ExitIsHonest, Pending, Loads, servingVars, Loading
<1>4. QED
    BY <1>1, <1>2, <1>3

(* Whatever ends the process cuts what is pending.                          *)
LEMMA ExitCuts ==
    ASSUME ProcessInv, NEW status, Exit(status)
    PROVE  /\ RequestsInv' /\ \A r \in Requests : ~Pending(r)'
<1>1. DOMAIN requests = Requests /\ \A r \in Requests : "state" \in DOMAIN requests[r]
    BY DEF ProcessInv, RequestsInv
<1>2. DOMAIN requests' = Requests
    BY DEF Exit
<1>3. ASSUME NEW r \in Requests
      PROVE  "state" \in DOMAIN requests'[r] /\ ~Pending(r)'
  <2>1. CASE Pending(r)
    <3>1. requests'[r] = [requests[r] EXCEPT !.state = "cut"]
        BY <2>1 DEF Exit
    <3>2. DOMAIN requests'[r] = DOMAIN requests[r] /\ requests'[r].state = "cut"
        BY <3>1, <1>1
    <3>3. QED
        BY <3>2, <1>1 DEF Pending
  <2>2. CASE ~Pending(r)
    <3>1. requests'[r] = requests[r]
        BY <2>2 DEF Exit
    <3>2. QED
        BY <2>2, <3>1, <1>1 DEF Pending
  <2>3. QED
      BY <2>1, <2>2
<1>4. QED
    BY <1>2, <1>3 DEF RequestsInv

(* main ends while it loads.                                                *)
LEMMA FatalKeeps ==
    ASSUME ProcessInv, phase \in Loading, Fatal
    PROVE  ProcessInv'
<1>1. /\ phase' = "exited" /\ exitStatus' = 1 /\ command' = "none"
      /\ UNCHANGED <<shuttingDown, signalled, upstreamKey, todo, listener>>
    BY DEF Fatal, Exit, configVars
<1>2. Exit(1)
    BY DEF Fatal
<1>3. ~shuttingDown
    BY DEF ProcessInv, ShutdownInv
<1>4. RequestsInv' /\ \A r \in Requests : ~Pending(r)'
    BY <1>2, ExitCuts
<1>5. PhaseInv' /\ ShutdownInv'
    BY <1>1, <1>3 DEF ProcessInv, PhaseInv, ShutdownInv, Phases, Loading
<1>6. ExitIsHonest'
    BY <1>1, <1>3, <1>4 DEF ExitIsHonest
<1>7. QED
    BY <1>4, <1>5, <1>6 DEF ProcessInv

(* The steps that load the configuration.                                   *)
LEMMA LoadPreserves ==
    ASSUME ProcessInv, Load \/ ShellEnds \/ CommandAnswers \/ KillCommand \/ OrphanEnds
    PROVE  ProcessInv'
<1> USE DEF configVars
<1>1. CASE CheckAddress
  <2>1. CASE Loads("address", "environment") /\ UNCHANGED <<command, configVars>>
    <3>1. PhaseInv'
        BY <2>1 DEF ProcessInv, PhaseInv, Phases, Loads, Loading
    <3>2. QED
        BY <2>1, <3>1, LoadsKeeps DEF ProcessInv, Loading
  <2>2. CASE phase = "address" /\ Fatal
      BY <2>2, FatalKeeps DEF Loading
  <2>3. QED
      BY <1>1, <2>1, <2>2 DEF CheckAddress
<1>2. ASSUME NEW from \in {"environment", "file", "command"}, NEW key, Chosen(from, key),
             command' = "none" \/ (from # "command" /\ UNCHANGED command)
      PROVE  ProcessInv'
  <2>1. Loads(from, "clients") /\ upstreamKey' # <<>>
      BY <1>2 DEF Chosen
  <2>2. PhaseInv'
      BY <1>2, <2>1 DEF ProcessInv, PhaseInv, Phases, Loads, Loading
  <2>3. QED
      BY <2>1, <2>2, LoadsKeeps DEF ProcessInv, Loading
<1>3. ASSUME NEW from \in {"environment", "file", "command"}, NEW to \in {"file", "command"},
             Loads(from, to), UNCHANGED configVars,
             to = "command" \/ (from = "environment" /\ UNCHANGED command)
      PROVE  ProcessInv'
  <2>1. PhaseInv'
      BY <1>3 DEF ProcessInv, PhaseInv, Phases, Loads, Loading
  <2>2. QED
      BY <1>3, <2>1, LoadsKeeps DEF ProcessInv, Loading
<1>4. CASE KeyFromEnvironment
    BY <1>4, <1>2, <1>3 DEF KeyFromEnvironment
<1>5. CASE KeyFromFile
  <2>1. CASE phase = "file" /\ Fatal
      BY <2>1, FatalKeeps DEF Loading
  <2>2. QED
      BY <1>5, <1>2, <1>3, <2>1 DEF KeyFromFile
<1>6. CASE StartCommand
  <2>1. CASE phase = "command" /\ Fatal
      BY <2>1, FatalKeeps DEF Loading
  <2>2. QED
      BY <1>6, <1>3, <2>1 DEF StartCommand
<1>7. CASE CommandAnswers
  <2>1. CASE phase = "command" /\ Fatal
      BY <2>1, FatalKeeps DEF Loading
  <2>2. QED
      BY <1>7, <1>2, <2>1 DEF CommandAnswers
<1>8. CASE ShellEnds \/ KillCommand \/ OrphanEnds
    BY <1>8, <1>3 DEF ShellEnds, KillCommand, OrphanEnds
<1>9. CASE CommandFails
  <2>1. phase = "command" /\ Fatal
      BY <1>9 DEF CommandFails, ProcessInv, PhaseInv
  <2>2. QED
      BY <2>1, FatalKeeps DEF Loading
<1>10. CASE LoadClients
  <2>1. CASE Loads("clients", "adding") /\ UNCHANGED <<command, upstreamKey>>
    <3>1. PhaseInv'
        BY <2>1 DEF ProcessInv, PhaseInv, Phases, Loads, Loading
    <3>2. QED
        BY <2>1, <3>1, LoadsKeeps DEF ProcessInv, Loading
  <2>2. CASE phase = "clients" /\ Fatal
      BY <2>2, FatalKeeps DEF Loading
  <2>3. QED
      BY <1>10, <2>1, <2>2 DEF LoadClients
<1>11. CASE AddClient
  <2>1. CASE Loads("adding", "adding") /\ UNCHANGED <<command, upstreamKey>>
    <3>1. PhaseInv'
        BY <2>1 DEF ProcessInv, PhaseInv, Phases, Loads, Loading
    <3>2. QED
        BY <2>1, <3>1, LoadsKeeps DEF ProcessInv, Loading
  <2>2. CASE phase = "adding" /\ Fatal
      BY <2>2, FatalKeeps DEF Loading
  <2>3. QED
      BY <1>11, <2>1, <2>2 DEF AddClient
<1>12. CASE StoreLoaded
  <2>1. CASE todo = <<>> /\ Loads("adding", "listening") /\ UNCHANGED <<command, configVars>>
    <3>1. PhaseInv'
        BY <2>1 DEF ProcessInv, PhaseInv, Phases, Loads, Loading
    <3>2. QED
        BY <2>1, <3>1, LoadsKeeps DEF ProcessInv, Loading
  <2>2. CASE phase = "adding" /\ Fatal
      BY <2>2, FatalKeeps DEF Loading
  <2>3. QED
      BY <1>12, <2>1, <2>2 DEF StoreLoaded
<1>13. QED
    BY <1>1, <1>4, <1>5, <1>6, <1>7, <1>8, <1>9, <1>10, <1>11, <1>12 DEF Load

(* The returns of main: its status is what the listener and the goroutine   *)
(* have made of it.                                                         *)
LEMMA ReturnPreserves ==
    ASSUME ProcessInv, Listen \/ BindFails \/ ServeReturns \/ AcceptFails
    PROVE  ProcessInv'
<1>1. ASSUME NEW status \in {0, 1}, Exit(status), phase \in {"listening", "serving"},
             UNCHANGED command,
             \/ status = 0 /\ shuttingDown /\ UNCHANGED listener
             \/ status = 1 /\ listener' = "failed"
      PROVE  ProcessInv'
  <2>1. /\ phase' = "exited" /\ exitStatus' = status
        /\ UNCHANGED <<shuttingDown, signalled, upstreamKey, todo>>
      BY <1>1 DEF Exit, configVars
  <2>2. RequestsInv' /\ \A r \in Requests : ~Pending(r)'
      BY <1>1, ExitCuts
  <2>3. PhaseInv' /\ ShutdownInv'
      BY <1>1, <2>1 DEF ProcessInv, PhaseInv, ShutdownInv, Phases, Loading
  <2>4. ExitIsHonest'
      BY <1>1, <2>1, <2>2 DEF ProcessInv, PhaseInv, ShutdownInv, ExitIsHonest
  <2>5. QED
      BY <2>2, <2>3, <2>4 DEF ProcessInv
<1>2. CASE Listen
  <2>1. CASE shuttingDown
    <3>1. phase = "listening" /\ Exit(0) /\ UNCHANGED <<command, listener>>
        BY <1>2, <2>1 DEF Listen
    <3>2. QED
        BY <1>1, <2>1, <3>1
  <2>2. CASE ~shuttingDown
    <3>1. /\ phase = "listening" /\ phase' = "serving" /\ listener' = "bound"
          /\ UNCHANGED <<signalled, command, upstreamKey, todo, shuttingDown, exitStatus, requests>>
        BY <1>2, <2>2 DEF Listen, configVars, servingVars
    <3>2. QED
        BY <3>1, <2>2 DEF ProcessInv, PhaseInv, ShutdownInv, RequestsInv, ExitIsHonest, Pending,
                          Phases, Loading
  <2>3. QED
      BY <2>1, <2>2
<1>3. CASE BindFails
    BY <1>3, <1>1 DEF BindFails
<1>4. CASE ServeReturns
    BY <1>4, <1>1 DEF ServeReturns
<1>5. CASE AcceptFails
    BY <1>5, <1>1 DEF AcceptFails
<1>6. QED
    BY <1>2, <1>3, <1>4, <1>5

(* The steps of the server that runs.                                       *)
LEMMA ServingPreserves ==
    ASSUME ProcessInv, NEW r \in Requests,
           \/ Authenticate(r) \/ AnswerError(r)
           \/ \E token \in Keys \cup {<<>>} : Arrive(r, token)
    PROVE  ProcessInv'
<1>1. /\ phase = "serving"
      /\ UNCHANGED <<phase, signalled, command, upstreamKey, todo, listener, shuttingDown, exitStatus>>
    BY DEF Authenticate, AnswerError, Arrive, Serves
<1>2. /\ DOMAIN requests' = Requests
      /\ \A q \in Requests : DOMAIN requests'[q] = DOMAIN requests[q]
      /\ \A q \in Requests \ {r} : requests'[q] = requests[q]
      /\ requests'[r].state # "cut"
  <2>1. DOMAIN requests = Requests /\ "state" \in DOMAIN requests[r]
      BY DEF ProcessInv, RequestsInv
  <2>2. CASE Authenticate(r)
      BY <2>1, <2>2 DEF Authenticate
  <2>3. CASE AnswerError(r)
      BY <2>1, <2>3 DEF AnswerError
  <2>4. CASE \E token \in Keys \cup {<<>>} : Arrive(r, token)
      BY <2>1, <2>4 DEF Arrive
  <2>5. QED
      BY <2>2, <2>3, <2>4
<1>3. PhaseInv' /\ ShutdownInv' /\ RequestsInv'
    BY <1>1, <1>2 DEF ProcessInv, PhaseInv, ShutdownInv, RequestsInv
<1>4. ExitIsHonest'
    BY <1>1, <1>2 DEF ProcessInv, ExitIsHonest
<1>5. QED
    BY <1>3, <1>4 DEF ProcessInv

(* Each step keeps what the process was found to be.                        *)
LEMMA NextPreserves ==
    ASSUME ProcessInv, [Next]_vars
    PROVE  ProcessInv'
<1> USE DEF configVars, servingVars
<1>1. CASE Signal
    BY <1>1 DEF Signal, ProcessInv, PhaseInv, ShutdownInv, RequestsInv, ExitIsHonest, Pending
<1>2. CASE Shutdown
    BY <1>2 DEF Shutdown, ProcessInv, PhaseInv, ShutdownInv, RequestsInv, ExitIsHonest, Pending, Loading
<1>3. CASE \E name \in Names : RevokeClient(name)
    BY <1>3 DEF RevokeClient, Serves, ProcessInv, PhaseInv, ShutdownInv, RequestsInv, ExitIsHonest, Pending
<1>4. CASE UNCHANGED vars
    BY <1>4 DEF vars, ProcessInv, PhaseInv, ShutdownInv, RequestsInv, ExitIsHonest, Pending
<1>5. CASE \E r \in Requests : \/ Authenticate(r) \/ AnswerError(r)
                              \/ \E t \in Keys \cup {<<>>} : Arrive(r, t)
    BY <1>5, ServingPreserves
<1>6. QED
    BY <1>1, <1>2, <1>3, <1>4, <1>5, LoadPreserves, ReturnPreserves DEF Next, Exited

(* The exit status is honest: 0 exactly for a process that was told to stop *)
(* and could be, with a key and its clients loaded; no request outlives the *)
(* process, and none is cut before (main.go:35-58).                         *)
THEOREM ExitStatusIsHonest == Spec => []ExitIsHonest
<1>1. ProcessInv => ExitIsHonest
    BY DEF ProcessInv
<1>2. QED
    BY InitProcess, NextPreserves, <1>1, PTL DEF Spec

-----------------------------------------------------------------------------
(* The key store.  What is read are clients.                                *)
LEMMA ReadingGivesClients ==
    ASSUME NEW items \in Seq(Item)
    PROVE  ClientsIn(items) \in Seq(Client)
<1> DEFINE S == {k \in DOMAIN items : items[k].kind = "client"}
           given == Kept(items, S)
<1>1. /\ given \in Seq(Item) /\ DOMAIN given = 1..Cardinality(S) /\ Cardinality(S) \in Nat
      /\ \A k \in 1..Cardinality(S) : Position(k, S) \in S /\ given[k] = items[Position(k, S)]
  BY KeptIsTheSelection
<1>2. ASSUME NEW k \in 1..Cardinality(S) PROVE given[k].client \in Client
  <2>1. given[k] \in Item /\ given[k].kind = "client"
    BY <1>1, <1>2
  <2>2. QED
    BY <2>1 DEF Item
<1>3. ClientsIn(items) = [k \in 1..Cardinality(S) |-> given[k].client]
  BY <1>1 DEF ClientsIn
<1>4. ClientsIn(items) \in [1..Cardinality(S) -> Client]
  BY <1>2, <1>3
<1>5. QED
  BY <1>1, <1>4, FunctionIsSeq

UniqueNames(held) == \A i, j \in DOMAIN held : held[i].name = held[j].name => i = j

(* Revoke takes out the clients of the name, and no other, and leaves the *)
(* names unique (auth.go:74-88).                                            *)
THEOREM RevokeTakesOutTheName ==
    ASSUME NEW held \in Seq(Client), NEW name
    PROVE  /\ Revoke(held, name) \in Seq(Client)
           /\ \A k \in DOMAIN held :
                 held[k].name # name => Contains(Revoke(held, name), held[k])
           /\ \A k \in DOMAIN Revoke(held, name) :
                 /\ Revoke(held, name)[k].name # name
                 /\ Contains(held, Revoke(held, name)[k])
           /\ UniqueNames(held) => UniqueNames(Revoke(held, name))
<1> DEFINE S == {k \in DOMAIN held : held[k].name # name}
<1> HIDE DEF S
<1>0. S \in SUBSET DOMAIN held /\ \A k \in DOMAIN held : k \in S <=> held[k].name # name
  BY DEF S
<1>1. PICK out : out = Revoke(held, name)
  OBVIOUS
<1>2. out = Kept(held, S)
  BY <1>1 DEF Revoke, S
<1>3. /\ out \in Seq(Client) /\ Len(out) = Cardinality(S)
      /\ Cardinality(S) \in Nat /\ DOMAIN out = 1..Cardinality(S)
      /\ \A k \in 1..Cardinality(S) : Position(k, S) \in S /\ out[k] = held[Position(k, S)]
      /\ \A i \in S : \E k \in 1..Cardinality(S) : Position(k, S) = i
      /\ \A k, l \in 1..Cardinality(S) : Position(k, S) = Position(l, S) => k = l
  BY <1>0, <1>2, KeptIsTheSelection
<1>4. ASSUME NEW k \in DOMAIN held, held[k].name # name
      PROVE  Contains(out, held[k])
  <2>1. PICK l \in 1..Cardinality(S) : Position(l, S) = k
    BY <1>0, <1>3, <1>4
  <2>2. out[l] = held[k]
    BY <1>3, <2>1
  <2>3. QED
    BY <1>3, <2>2 DEF Contains
<1>5. ASSUME NEW k \in DOMAIN out
      PROVE  out[k].name # name /\ Contains(held, out[k])
  <2>1. Position(k, S) \in S /\ out[k] = held[Position(k, S)]
    BY <1>3
  <2>2. Position(k, S) \in DOMAIN held /\ DOMAIN held = 1..Len(held)
    BY <1>0, <2>1
  <2>3. QED
    BY <1>0, <2>1, <2>2 DEF Contains
<1>6. ASSUME UniqueNames(held) PROVE UniqueNames(out)
  BY <1>0, <1>3, <1>6 DEF UniqueNames
<1>7. QED
  BY <1>1, <1>3, <1>4, <1>5, <1>6

(* Lookup finds a client that holds the key, exactly when there is one      *)
(* (auth.go:90-100).                                                        *)
THEOREM LookupFindsAHolder ==
    ASSUME NEW held \in Seq(Client), NEW key
    PROVE  /\ IsHeld(held, key) <=> \E k \in DOMAIN held : held[k].key = key
           /\ IsHeld(held, key) =>
                \E k \in DOMAIN held : held[k].key = key /\ Lookup(held, key) = held[k]
<1> DEFINE S == {k \in DOMAIN held : held[k].key = key}
<1> HIDE DEF S
<1>0. /\ S \in SUBSET DOMAIN held /\ \A k \in DOMAIN held : k \in S <=> held[k].key = key
      /\ Holders(held, key) = Kept(held, S)
  BY DEF S, Holders
<1>1. PICK out : out = Holders(held, key)
  OBVIOUS
<1>2. /\ out \in Seq(Client) /\ Len(out) = Cardinality(S) /\ Cardinality(S) \in Nat
      /\ DOMAIN out = 1..Cardinality(S) /\ (S # {} => Cardinality(S) > 0)
      /\ \A k \in 1..Cardinality(S) : Position(k, S) \in S /\ out[k] = held[Position(k, S)]
  BY <1>0, <1>1, KeptIsTheSelection
<1>3. IsHeld(held, key) <=> S # {}
  BY <1>1, <1>2 DEF IsHeld
<1>4. ASSUME S # {}
      PROVE  \E k \in DOMAIN held : held[k].key = key /\ Lookup(held, key) = held[k]
  <2>1. 1 \in 1..Cardinality(S) /\ out # <<>> /\ Head(out) = out[1]
    BY <1>2, <1>4
  <2>2. Position(1, S) \in S /\ out[1] = held[Position(1, S)]
    BY <1>2, <2>1
  <2>3. QED
    BY <1>0, <1>1, <2>1, <2>2 DEF Lookup
<1>5. QED
  BY <1>0, <1>3, <1>4

-----------------------------------------------------------------------------
(* What the process is configured with.  The address, the key and the       *)
(* clients are each settled in one phase of Load; from then on they are     *)
(* what the settings make of them, until a client is revoked.               *)

AddressInv == phase \notin {"address", "exited"} => Listens

FilePassedOver ==
    \/ ~Named(setting.keyFile)
    \/ ReadOwnerOnlyFile(setting.keyFile) /\ setting.keyFile.value = <<>>
KeyIsTheFirst ==
    \/ setting.keyEnv # <<>> /\ upstreamKey = setting.keyEnv
    \/ /\ setting.keyEnv = <<>>
       /\ ReadOwnerOnlyFile(setting.keyFile)
       /\ setting.keyFile.value # <<>> /\ upstreamKey = setting.keyFile.value
    \/ setting.keyEnv = <<>> /\ FilePassedOver /\ setting.keyCommand
KeyInv ==
    /\ phase \in {"file", "command"} => setting.keyEnv = <<>>
    /\ phase = "command" => FilePassedOver
    /\ command # "none" => setting.keyCommand /\ phase = "command"
    /\ phase \in {"clients", "adding", "listening", "serving"} => KeyIsTheFirst

AllButRevoked ==
    /\ \A k \in DOMAIN Given : Given[k].name \notin revoked => Contains(clients, Given[k])
    /\ \A k \in DOMAIN clients : Contains(Given, clients[k]) /\ clients[k].name \notin revoked
ClientsInv ==
    /\ phase \in {"adding", "listening", "serving"} => ClientsReadable
    /\ phase \in Loading \cup {"listening"} => revoked = {}
    /\ phase \in Loading \ {"adding"} => clients = <<>>
    /\ phase = "adding" => Given = clients \o todo
    /\ phase = "listening" => Given = clients /\ clients # <<>>
    /\ phase = "serving" => Given # <<>> /\ AllButRevoked

Fields == {"state", "token", "client", "after", "reply"}
FieldsInv == DOMAIN requests = Requests /\ \A r \in Requests : DOMAIN requests[r] = Fields

ConfigInv == ProcessInv /\ ProcessTypeOK /\ FieldsInv /\ AddressInv /\ KeyInv /\ ClientsInv

(* What the process was given are clients.                                  *)
LEMMA GivenAreClients ==
    ASSUME setting \in Settings
    PROVE  ClientItems \in Seq(Item) /\ Given \in Seq(Client)
<1>1. setting \in Setting
    BY SettingsAssumption
<1>2. /\ setting.clientEnv \in Seq(Item) /\ setting.clientFile.items \in Seq(Item)
    BY <1>1 DEF Setting
<1>3. ClientItems \in Seq(Item)
    BY <1>2 DEF ClientItems
<1>4. QED
    BY <1>3, ReadingGivesClients DEF Given

(* A process that starts has loaded nothing.                                *)
LEMMA InitConfig == Init => ConfigInv
<1> SUFFICES ASSUME Init PROVE ConfigInv
    OBVIOUS
<1>1. ProcessInv
    BY InitProcess
<1>2. ProcessTypeOK
  <2>1. todo \in Seq(Client) /\ clients \in Seq(Client) /\ DOMAIN clients = {}
      BY DEF Init
  <2>2. \A r \in Requests : requests[r].state \in
            {"idle", "arrived", "refused", "working", "answered", "cut"}
      BY DEF Init, Idle
  <2>3. QED
      BY <2>1, <2>2 DEF Init, ProcessTypeOK, Loading
<1>3. FieldsInv
    BY DEF Init, FieldsInv, Fields, Idle
<1>4. AddressInv /\ KeyInv /\ ClientsInv
    BY DEF Init, AddressInv, KeyInv, ClientsInv, Loading
<1>5. QED
    BY <1>1, <1>2, <1>3, <1>4 DEF ConfigInv

(* The settings do not change, so neither does what they say.               *)
LEMMA SettingsStay ==
    ASSUME setting' = setting
    PROVE  /\ Given' = Given /\ ClientItems' = ClientItems /\ (ClientsReadable' <=> ClientsReadable)
           /\ (Listens' <=> Listens) /\ (FilePassedOver' <=> FilePassedOver)
BY DEF Given, ClientItems, ClientsReadable, Listens, FilePassedOver

(* An exit leaves the configuration as it is, and asks no more of it.       *)
LEMMA ExitKeepsConfig ==
    ASSUME ConfigInv, NEW status \in {0, 1}, Exit(status), command' = "none",
           listener' \in {"unbound", "bound", "failed"}
    PROVE  ProcessTypeOK' /\ FieldsInv' /\ AddressInv' /\ KeyInv' /\ ClientsInv'
<1>1. /\ phase' = "exited" /\ exitStatus' = status
      /\ UNCHANGED <<setting, signalled, upstreamKey, todo, clients, shuttingDown, revoked>>
    BY DEF Exit, configVars
<1>2. DOMAIN requests' = Requests
    BY DEF Exit
<1>3. ASSUME NEW r \in Requests
      PROVE  /\ DOMAIN requests'[r] = Fields
             /\ requests'[r].state \in {"idle", "arrived", "refused", "working", "answered", "cut"}
  <2>1. /\ DOMAIN requests[r] = Fields
        /\ requests[r].state \in {"idle", "arrived", "refused", "working", "answered", "cut"}
      BY DEF ConfigInv, FieldsInv, ProcessTypeOK
  <2>2. \/ requests'[r] = requests[r]
        \/ requests'[r] = [requests[r] EXCEPT !.state = "cut"]
      BY DEF Exit
  <2>3. QED
      BY <2>1, <2>2 DEF Fields
<1>4. FieldsInv'
    BY <1>2, <1>3 DEF FieldsInv
<1>5. ProcessTypeOK'
    BY <1>1, <1>3 DEF ConfigInv, ProcessTypeOK
<1>6. AddressInv' /\ KeyInv' /\ ClientsInv'
    BY <1>1 DEF AddressInv, KeyInv, ClientsInv, Loading
<1>7. QED
    BY <1>4, <1>5, <1>6

(* A step of Load that goes on keeps the types and the address, and brings  *)
(* no request.                                                              *)
LEMMA LoadsKeepsTypes ==
    ASSUME ConfigInv, NEW from \in Loading, NEW to \in Loading \cup {"listening"}, Loads(from, to),
           Listens, upstreamKey' \in Keys \cup {<<>>}, todo' \in Seq(Client),
           clients' \in Seq(Client), UniqueNames(clients'),
           command' \in {"none", "running", "detached", "killed", "orphaned"},
           command' # "none" => to = "command"
    PROVE  /\ ProcessTypeOK' /\ FieldsInv' /\ AddressInv'
           /\ setting' = setting /\ phase = from /\ phase' = to /\ revoked' = revoked /\ revoked = {}
<1>1. /\ phase = from /\ phase' = to
      /\ UNCHANGED <<setting, signalled, listener, shuttingDown, exitStatus, requests, revoked>>
    BY DEF Loads, servingVars
<1>2. ProcessTypeOK'
    BY <1>1 DEF ConfigInv, ProcessTypeOK, UniqueNames, Loading
<1>3. FieldsInv'
    BY <1>1 DEF ConfigInv, FieldsInv
<1>4. AddressInv'
    BY <1>1, SettingsStay DEF AddressInv
<1>5. revoked = {}
    BY <1>1 DEF ConfigInv, ClientsInv
<1>6. QED
    BY <1>1, <1>2, <1>3, <1>4, <1>5

(* Until the clients are loaded, there are none.                            *)
LEMMA KeyPhaseKeeps ==
    ASSUME ConfigInv, NEW from \in {"address", "environment", "file", "command"},
           NEW to \in {"environment", "file", "command", "clients"}, Loads(from, to), Listens,
           UNCHANGED <<todo, clients>>, upstreamKey' \in Keys \cup {<<>>},
           command' \in {"none", "running", "detached", "killed", "orphaned"},
           command' # "none" => to = "command" /\ setting.keyCommand,
           to \in {"file", "command"} => setting.keyEnv = <<>>,
           to = "command" => FilePassedOver,
           to = "clients" => KeyIsTheFirst'
    PROVE  ProcessTypeOK' /\ FieldsInv' /\ AddressInv' /\ KeyInv' /\ ClientsInv'
<1>1. todo' \in Seq(Client) /\ clients' \in Seq(Client) /\ UniqueNames(clients')
    BY DEF ConfigInv, ProcessTypeOK, UniqueNames
<1>2. from \in Loading /\ to \in Loading
    BY DEF Loading
<1>3. /\ ProcessTypeOK' /\ FieldsInv' /\ AddressInv'
      /\ setting' = setting /\ phase = from /\ phase' = to /\ revoked' = revoked /\ revoked = {}
    BY <1>1, <1>2, LoadsKeepsTypes
<1>4. KeyInv'
    BY <1>3, SettingsStay DEF KeyInv
<1>5. clients = <<>>
    BY <1>2, <1>3 DEF ConfigInv, ClientsInv
<1>6. ClientsInv'
    BY <1>3, <1>5 DEF ClientsInv, Loading
<1>7. QED
    BY <1>3, <1>4, <1>6

(* main ends while it loads.                                                *)
LEMMA FatalKeepsConfig ==
    ASSUME ConfigInv, Fatal
    PROVE  ProcessTypeOK' /\ FieldsInv' /\ AddressInv' /\ KeyInv' /\ ClientsInv'
<1>1. Exit(1) /\ command' = "none" /\ listener' = listener
    BY DEF Fatal
<1>2. listener \in {"unbound", "bound", "failed"}
    BY DEF ConfigInv, ProcessTypeOK
<1>3. QED
    BY <1>1, <1>2, ExitKeepsConfig

(* The steps that check the address and fetch the upstream key.             *)
LEMMA KeyStepsKeepConfig ==
    ASSUME ConfigInv,
           \/ CheckAddress \/ KeyFromEnvironment \/ KeyFromFile \/ StartCommand \/ CommandFails
           \/ ShellEnds \/ CommandAnswers \/ KillCommand \/ OrphanEnds
    PROVE  ProcessTypeOK' /\ FieldsInv' /\ AddressInv' /\ KeyInv' /\ ClientsInv'
<1> USE DEF configVars
<1>1. /\ upstreamKey \in Keys \cup {<<>>} /\ setting \in Settings
      /\ command \in {"none", "running", "detached", "killed", "orphaned"}
      /\ command # "none" => phase = "command" /\ setting.keyCommand
    BY DEF ConfigInv, ProcessTypeOK, KeyInv
<1>2. setting \in Setting
    BY <1>1, SettingsAssumption
<1>3. phase \notin {"address", "exited"} => Listens
    BY DEF ConfigInv, AddressInv
<1>4. /\ phase \in {"file", "command"} => setting.keyEnv = <<>>
      /\ phase = "command" => FilePassedOver
    BY DEF ConfigInv, KeyInv
<1>5. CASE CheckAddress
  <2>1. CASE Listens /\ Loads("address", "environment") /\ UNCHANGED <<command, upstreamKey, todo, clients>>
    <3>1. phase = "address"
        BY <2>1 DEF Loads
    <3>2. command = "none"
        BY <3>1, <1>1
    <3>3. QED
        BY <1>1, <2>1, <3>2, KeyPhaseKeeps
  <2>2. QED
      BY <1>5, <2>1, FatalKeepsConfig DEF CheckAddress
<1>6. ASSUME NEW from \in {"environment", "file", "command"}, NEW key, Chosen(from, key),
             key \in Keys \cup {<<>>}, command' = "none", KeyIsTheFirst'
      PROVE  ProcessTypeOK' /\ FieldsInv' /\ AddressInv' /\ KeyInv' /\ ClientsInv'
  <2>1. Loads(from, "clients") /\ upstreamKey' = key /\ UNCHANGED <<todo, clients>> /\ phase = from
      BY <1>6 DEF Chosen, Loads
  <2>2. Listens
      BY <2>1, <1>3
  <2>3. QED
      BY <1>6, <2>1, <2>2, KeyPhaseKeeps
<1>7. CASE KeyFromEnvironment
  <2>1. CASE Chosen("environment", setting.keyEnv) /\ UNCHANGED command
    <3>1. /\ setting.keyEnv # <<>> /\ upstreamKey' = setting.keyEnv
          /\ setting' = setting /\ phase = "environment"
        BY <2>1 DEF Chosen, Loads
    <3>2. setting.keyEnv \in Keys \cup {<<>>}
        BY <1>2 DEF Setting
    <3>3. KeyIsTheFirst'
        BY <3>1 DEF KeyIsTheFirst
    <3>4. command' = "none"
        BY <1>1, <2>1, <3>1
    <3>5. QED
        BY <1>6, <2>1, <3>2, <3>3, <3>4
  <2>2. CASE /\ setting.keyEnv = <<>> /\ Loads("environment", "file")
             /\ UNCHANGED <<command, upstreamKey, todo, clients>>
    <3>1. phase = "environment"
        BY <2>2 DEF Loads
    <3>2. command' = "none" /\ Listens
        BY <1>1, <1>3, <2>2, <3>1
    <3>3. QED
        BY <1>1, <2>2, <3>2, KeyPhaseKeeps
  <2>3. QED
      BY <1>7, <2>1, <2>2 DEF KeyFromEnvironment
<1>8. CASE KeyFromFile
  <2>1. CASE /\ ReadOwnerOnlyFile(setting.keyFile)
             /\ Chosen("file", setting.keyFile.value) /\ UNCHANGED command
    <3>1. /\ setting.keyFile.value # <<>> /\ upstreamKey' = setting.keyFile.value
          /\ setting' = setting /\ phase = "file"
        BY <2>1 DEF Chosen, Loads
    <3>2. setting.keyFile.value \in Keys \cup {<<>>}
        BY <1>2 DEF Setting
    <3>3. KeyIsTheFirst'
        BY <1>4, <2>1, <3>1 DEF KeyIsTheFirst
    <3>4. command' = "none"
        BY <1>1, <2>1, <3>1
    <3>5. QED
        BY <1>6, <2>1, <3>2, <3>3, <3>4
  <2>2. CASE FilePassedOver /\ Loads("file", "command") /\ UNCHANGED <<command, upstreamKey, todo, clients>>
    <3>1. phase = "file"
        BY <2>2 DEF Loads
    <3>2. command' = "none" /\ Listens /\ setting.keyEnv = <<>>
        BY <1>1, <1>3, <1>4, <2>2, <3>1
    <3>3. QED
        BY <1>1, <2>2, <3>2, KeyPhaseKeeps
  <2>3. QED
      BY <1>8, <2>1, <2>2, FatalKeepsConfig DEF KeyFromFile, FilePassedOver
<1>9. ASSUME Loads("command", "command"), UNCHANGED <<upstreamKey, todo, clients>>,
             setting.keyCommand, command' \in {"running", "detached", "killed", "orphaned"}
      PROVE  ProcessTypeOK' /\ FieldsInv' /\ AddressInv' /\ KeyInv' /\ ClientsInv'
  <2>1. phase = "command"
      BY <1>9 DEF Loads
  <2>2. Listens /\ setting.keyEnv = <<>> /\ FilePassedOver
      BY <1>3, <1>4, <2>1
  <2>3. QED
      BY <1>1, <1>9, <2>2, KeyPhaseKeeps
<1>10. CASE StartCommand
    BY <1>10, <1>9, FatalKeepsConfig DEF StartCommand
<1>11. CASE CommandFails
    BY <1>11, FatalKeepsConfig DEF CommandFails
<1>12. CASE ShellEnds \/ KillCommand \/ OrphanEnds
    BY <1>12, <1>1, <1>9 DEF ShellEnds, KillCommand, OrphanEnds
<1>13. CASE CommandAnswers
  <2>1. ASSUME NEW key \in Keys, Chosen("command", key), command' = "none"
        PROVE  ProcessTypeOK' /\ FieldsInv' /\ AddressInv' /\ KeyInv' /\ ClientsInv'
    <3>1. setting' = setting /\ phase = "command"
        BY <2>1 DEF Chosen, Loads
    <3>2. setting.keyCommand
        BY <1>1, <1>13 DEF CommandAnswers
    <3>3. KeyIsTheFirst'
        BY <1>4, <3>1, <3>2, SettingsStay DEF KeyIsTheFirst
    <3>4. QED
        BY <1>6, <2>1, <3>3
  <2>2. QED
      BY <1>13, <2>1, FatalKeepsConfig DEF CommandAnswers
<1>14. QED
    BY <1>5, <1>7, <1>8, <1>10, <1>11, <1>12, <1>13

(* The clients added and those still to be added are, in this order, those  *)
(* that were given.                                                         *)
LEMMA ClientStepsKeepConfig ==
    ASSUME ConfigInv, LoadClients \/ AddClient \/ StoreLoaded
    PROVE  ProcessTypeOK' /\ FieldsInv' /\ AddressInv' /\ KeyInv' /\ ClientsInv'
<1> USE DEF configVars
<1>1. /\ upstreamKey \in Keys \cup {<<>>} /\ setting \in Settings
      /\ todo \in Seq(Client) /\ clients \in Seq(Client) /\ UniqueNames(clients)
      /\ command # "none" => phase = "command"
    BY DEF ConfigInv, ProcessTypeOK, KeyInv, UniqueNames
<1>2. phase \notin {"address", "exited"} => Listens
    BY DEF ConfigInv, AddressInv
<1>3. /\ phase \in {"clients", "adding"} => KeyIsTheFirst
      /\ phase = "adding" => ClientsReadable /\ Given = clients \o todo
      /\ phase = "clients" => clients = <<>>
    BY DEF ConfigInv, KeyInv, ClientsInv, Loading
<1>4. Given \in Seq(Client)
    BY <1>1, GivenAreClients
<1>5. ASSUME NEW from \in {"clients", "adding"}, NEW to \in {"adding", "listening"}, Loads(from, to),
             UNCHANGED <<command, upstreamKey>>,
             todo' \in Seq(Client), clients' \in Seq(Client), UniqueNames(clients')
      PROVE  /\ ProcessTypeOK' /\ FieldsInv' /\ AddressInv' /\ KeyInv'
             /\ setting' = setting /\ phase = from /\ phase' = to /\ revoked' = revoked /\ revoked = {}
  <2>1. phase = from
      BY <1>5 DEF Loads
  <2>2. command' = "none" /\ upstreamKey' \in Keys \cup {<<>>} /\ Listens
      BY <1>1, <1>2, <1>5, <2>1
  <2>3. from \in Loading /\ to \in Loading \cup {"listening"}
      BY DEF Loading
  <2>4. /\ ProcessTypeOK' /\ FieldsInv' /\ AddressInv'
        /\ setting' = setting /\ phase = from /\ phase' = to /\ revoked' = revoked /\ revoked = {}
      BY <1>5, <2>2, <2>3, LoadsKeepsTypes
  <2>5. KeyIsTheFirst'
      BY <1>3, <1>5, <2>4, SettingsStay DEF KeyIsTheFirst
  <2>6. KeyInv'
      BY <2>2, <2>4, <2>5 DEF KeyInv
  <2>7. QED
      BY <2>4, <2>6
<1>6. CASE LoadClients
  <2>1. CASE /\ ClientsReadable /\ todo' = Given /\ Loads("clients", "adding")
             /\ UNCHANGED <<command, upstreamKey, clients>>
    <3>1. /\ ProcessTypeOK' /\ FieldsInv' /\ AddressInv' /\ KeyInv'
          /\ setting' = setting /\ phase = "clients" /\ phase' = "adding"
          /\ revoked' = revoked /\ revoked = {}
        BY <1>1, <1>4, <1>5, <2>1
    <3>2. clients' = <<>>
        BY <1>3, <2>1, <3>1
    <3>3. Given' = clients' \o todo'
        BY <1>4, <2>1, <3>1, <3>2, SettingsStay
    <3>4. ClientsInv'
        BY <2>1, <3>1, <3>3, SettingsStay DEF ClientsInv, Loading
    <3>5. QED
        BY <3>1, <3>4
  <2>2. QED
      BY <1>6, <2>1, FatalKeepsConfig DEF LoadClients, Given
<1>7. CASE AddClient
  <2>1. CASE /\ CanAdd(clients, Head(todo)) /\ Loads("adding", "adding")
             /\ clients' = Append(clients, Head(todo)) /\ todo' = Tail(todo)
             /\ UNCHANGED <<command, upstreamKey>>
    <3>1. todo # <<>> /\ Head(todo) \in Client /\ Tail(todo) \in Seq(Client)
        BY <1>1, <1>7 DEF AddClient
    <3>2. clients' \in Seq(Client)
        BY <1>1, <2>1, <3>1
    <3>3. UniqueNames(clients')
      <4>1. DOMAIN clients' = 1..(Len(clients) + 1) /\ DOMAIN clients = 1..Len(clients)
            /\ Len(clients) \in Nat
          BY <1>1, <2>1, <3>1
      <4>2. /\ \A k \in DOMAIN clients : clients'[k] = clients[k]
            /\ clients'[Len(clients) + 1] = Head(todo)
          BY <1>1, <2>1, <3>1, <4>1
      <4>3. \A k \in DOMAIN clients : clients[k].name # Head(todo).name
          BY <2>1 DEF CanAdd, NamesOf
      <4>4. QED
          BY <1>1, <4>1, <4>2, <4>3 DEF UniqueNames
    <3>4. /\ ProcessTypeOK' /\ FieldsInv' /\ AddressInv' /\ KeyInv'
          /\ setting' = setting /\ phase = "adding" /\ phase' = "adding"
          /\ revoked' = revoked /\ revoked = {}
        BY <1>5, <2>1, <3>1, <3>2, <3>3
    <3>5. clients \o todo = Append(clients, Head(todo)) \o Tail(todo)
        BY <1>1, <3>1
    <3>6. Given' = clients' \o todo'
        BY <1>3, <2>1, <3>4, <3>5, SettingsStay
    <3>7. ClientsInv'
        BY <1>3, <3>4, <3>6, SettingsStay DEF ClientsInv, Loading
    <3>8. QED
        BY <3>4, <3>7
  <2>2. QED
      BY <1>7, <2>1, FatalKeepsConfig DEF AddClient
<1>8. CASE StoreLoaded
  <2>1. CASE /\ todo = <<>> /\ clients # <<>> /\ Loads("adding", "listening")
             /\ UNCHANGED <<command, upstreamKey, todo, clients>>
    <3>1. /\ ProcessTypeOK' /\ FieldsInv' /\ AddressInv' /\ KeyInv'
          /\ setting' = setting /\ phase = "adding" /\ phase' = "listening"
          /\ revoked' = revoked /\ revoked = {}
        BY <1>1, <1>5, <2>1
    <3>2. Given = clients
        BY <1>1, <1>3, <2>1, <3>1
    <3>3. ClientsInv'
        BY <1>3, <2>1, <3>1, <3>2, SettingsStay DEF ClientsInv, Loading
    <3>4. QED
        BY <3>1, <3>3
  <2>2. QED
      BY <1>8, <2>1, FatalKeepsConfig DEF StoreLoaded
<1>9. QED
    BY <1>6, <1>7, <1>8

(* The listener, the goroutine that waits for the signal, and their ends.   *)
LEMMA ListenerStepsKeepConfig ==
    ASSUME ConfigInv, Signal \/ Listen \/ BindFails \/ Shutdown \/ ServeReturns \/ AcceptFails
    PROVE  ProcessTypeOK' /\ FieldsInv' /\ AddressInv' /\ KeyInv' /\ ClientsInv'
<1> USE DEF configVars, servingVars
<1>1. /\ listener \in {"unbound", "bound", "failed"} /\ clients \in Seq(Client)
      /\ phase # "command" => command = "none"
    BY DEF ConfigInv, ProcessTypeOK
<1>2. ASSUME NEW status \in {0, 1}, Exit(status), phase # "command", command' = command,
             listener' \in {listener, "failed"}
      PROVE  ProcessTypeOK' /\ FieldsInv' /\ AddressInv' /\ KeyInv' /\ ClientsInv'
    BY <1>1, <1>2, ExitKeepsConfig
<1>3. CASE Signal \/ Shutdown
  <2>1. /\ signalled' \in BOOLEAN /\ shuttingDown' \in BOOLEAN
        /\ UNCHANGED <<setting, phase, command, upstreamKey, todo, clients, listener, exitStatus,
                       requests, revoked>>
      BY <1>3 DEF Signal, Shutdown, ConfigInv, ProcessTypeOK
  <2>2. ProcessTypeOK' /\ FieldsInv'
      BY <2>1 DEF ConfigInv, ProcessTypeOK, FieldsInv
  <2>3. AddressInv' /\ KeyInv'
      BY <2>1, SettingsStay DEF ConfigInv, AddressInv, KeyInv, KeyIsTheFirst
  <2>4. ClientsInv'
      BY <2>1, SettingsStay DEF ConfigInv, ClientsInv, AllButRevoked
  <2>5. QED
      BY <2>2, <2>3, <2>4
<1>4. CASE Listen
  <2>1. CASE shuttingDown
      BY <1>1, <1>2, <1>4, <2>1 DEF Listen
  <2>2. CASE ~shuttingDown
    <3>1. /\ phase = "listening" /\ phase' = "serving" /\ listener' = "bound"
          /\ UNCHANGED <<setting, signalled, command, upstreamKey, todo, clients, shuttingDown,
                         exitStatus, requests, revoked>>
        BY <1>4, <2>2 DEF Listen
    <3>2. ProcessTypeOK' /\ FieldsInv'
        BY <3>1 DEF ConfigInv, ProcessTypeOK, FieldsInv
    <3>3. AddressInv' /\ KeyInv'
        BY <3>1, SettingsStay DEF ConfigInv, AddressInv, KeyInv, KeyIsTheFirst
    <3>4. Given = clients /\ clients # <<>> /\ revoked = {} /\ ClientsReadable
        BY <3>1 DEF ConfigInv, ClientsInv
    <3>5. \A k \in DOMAIN clients : Contains(clients, clients[k])
        BY <1>1 DEF Contains
    <3>6. AllButRevoked
        BY <3>4, <3>5 DEF AllButRevoked
    <3>7. AllButRevoked' /\ Given' # <<>>
        BY <3>1, <3>4, <3>6, SettingsStay DEF AllButRevoked
    <3>8. ClientsInv'
        BY <3>1, <3>4, <3>7, SettingsStay DEF ClientsInv, Loading
    <3>9. QED
        BY <3>2, <3>3, <3>8
  <2>3. QED
      BY <2>1, <2>2
<1>5. CASE BindFails
    BY <1>1, <1>2, <1>5 DEF BindFails
<1>6. CASE ServeReturns
    BY <1>1, <1>2, <1>6 DEF ServeReturns
<1>7. CASE AcceptFails
    BY <1>1, <1>2, <1>7 DEF AcceptFails
<1>8. QED
    BY <1>3, <1>4, <1>5, <1>6, <1>7

(* While it serves, only a revocation changes what is configured.           *)
LEMMA ServingStepsKeepConfig ==
    ASSUME ConfigInv,
           \/ \E r \in Requests : \/ Authenticate(r) \/ AnswerError(r)
                                  \/ \E t \in Keys \cup {<<>>} : Arrive(r, t)
           \/ \E name \in Names : RevokeClient(name)
    PROVE  ProcessTypeOK' /\ FieldsInv' /\ AddressInv' /\ KeyInv' /\ ClientsInv'
<1>1. /\ phase = "serving"
      /\ UNCHANGED <<setting, phase, signalled, command, upstreamKey, todo, listener, shuttingDown,
                     exitStatus>>
    BY DEF Authenticate, AnswerError, Arrive, RevokeClient, Serves
<1>2. AddressInv' /\ KeyInv'
    BY <1>1, SettingsStay DEF ConfigInv, AddressInv, KeyInv, KeyIsTheFirst
<1>3. /\ AllButRevoked /\ Given # <<>> /\ ClientsReadable
      /\ clients \in Seq(Client) /\ UniqueNames(clients) /\ Given \in Seq(Client)
    BY <1>1, GivenAreClients DEF ConfigInv, ClientsInv, ProcessTypeOK, UniqueNames
<1>4. ASSUME NEW r \in Requests,
             \/ Authenticate(r) \/ AnswerError(r)
             \/ \E t \in Keys \cup {<<>>} : Arrive(r, t)
      PROVE  ProcessTypeOK' /\ FieldsInv' /\ ClientsInv'
  <2>1. clients' = clients /\ revoked' = revoked
      BY <1>4 DEF Authenticate, AnswerError, Arrive
  <2>2. /\ DOMAIN requests = Requests /\ \A q \in Requests : DOMAIN requests[q] = Fields
        /\ \A q \in Requests : requests[q].state \in
               {"idle", "arrived", "refused", "working", "answered", "cut"}
      BY DEF ConfigInv, FieldsInv, ProcessTypeOK
  <2>3. /\ DOMAIN requests' = Requests /\ DOMAIN requests'[r] = Fields
        /\ requests'[r].state \in {"idle", "arrived", "refused", "working", "answered", "cut"}
        /\ \A q \in Requests \ {r} : requests'[q] = requests[q]
    <3>1. CASE Authenticate(r)
        BY <2>2, <3>1 DEF Authenticate, Fields
    <3>2. CASE AnswerError(r)
        BY <2>2, <3>2 DEF AnswerError, Fields
    <3>3. CASE \E t \in Keys \cup {<<>>} : Arrive(r, t)
        BY <2>2, <3>3 DEF Arrive, Fields
    <3>4. QED
        BY <1>4, <3>1, <3>2, <3>3
  <2>4. FieldsInv'
      BY <2>2, <2>3 DEF FieldsInv
  <2>5. \A q \in Requests : requests'[q].state \in
            {"idle", "arrived", "refused", "working", "answered", "cut"}
      BY <2>2, <2>3
  <2>6. ProcessTypeOK'
      BY <1>1, <2>1, <2>5 DEF ConfigInv, ProcessTypeOK
  <2>7. ClientsInv'
      BY <1>1, <2>1, SettingsStay DEF ConfigInv, ClientsInv, AllButRevoked
  <2>8. QED
      BY <2>4, <2>6, <2>7
<1>5. ASSUME NEW name \in Names, RevokeClient(name)
      PROVE  ProcessTypeOK' /\ FieldsInv' /\ ClientsInv'
  <2>1. clients' = Revoke(clients, name) /\ revoked' = revoked \cup {name} /\ requests' = requests
      BY <1>5 DEF RevokeClient
  <2>2. /\ clients' \in Seq(Client) /\ UniqueNames(clients')
        /\ \A k \in DOMAIN clients : clients[k].name # name => Contains(clients', clients[k])
        /\ \A k \in DOMAIN clients' : clients'[k].name # name /\ Contains(clients, clients'[k])
      BY <1>3, <2>1, RevokeTakesOutTheName
  <2>3. ProcessTypeOK' /\ FieldsInv'
      BY <1>1, <2>1, <2>2 DEF ConfigInv, ProcessTypeOK, FieldsInv, UniqueNames
  <2>4. ASSUME NEW k \in DOMAIN Given, Given[k].name \notin revoked \cup {name}
        PROVE  Contains(clients', Given[k])
    <3>1. Contains(clients, Given[k])
        BY <1>3, <2>4 DEF AllButRevoked
    <3>2. PICK l \in DOMAIN clients : clients[l] = Given[k]
        BY <1>3, <3>1 DEF Contains
    <3>3. QED
        BY <2>2, <2>4, <3>2
  <2>5. ASSUME NEW k \in DOMAIN clients'
        PROVE  Contains(Given, clients'[k]) /\ clients'[k].name \notin revoked \cup {name}
    <3>1. clients'[k].name # name /\ Contains(clients, clients'[k])
        BY <2>2
    <3>2. PICK l \in DOMAIN clients : clients[l] = clients'[k]
        BY <1>3, <3>1 DEF Contains
    <3>3. QED
        BY <1>3, <3>1, <3>2 DEF AllButRevoked
  <2>6. Given' = Given
      BY <1>1, SettingsStay
  <2>7. AllButRevoked'
      BY <2>1, <2>4, <2>5, <2>6 DEF AllButRevoked
  <2>8. ClientsInv'
      BY <1>1, <1>3, <2>6, <2>7, SettingsStay DEF ClientsInv, Loading
  <2>9. QED
      BY <2>3, <2>8
<1>6. QED
    BY <1>2, <1>4, <1>5

(* Each step keeps what was loaded.                                         *)
LEMMA NextKeepsConfig ==
    ASSUME ConfigInv, [Next]_vars
    PROVE  ConfigInv'
<1>1. ProcessInv'
    BY NextPreserves DEF ConfigInv
<1>2. CASE UNCHANGED vars
  <2>1. UNCHANGED <<setting, phase, signalled, command, upstreamKey, todo, clients, listener,
                    shuttingDown, exitStatus, requests, revoked>>
      BY <1>2 DEF vars, configVars, servingVars
  <2>2. ProcessTypeOK' /\ FieldsInv'
      BY <2>1 DEF ConfigInv, ProcessTypeOK, FieldsInv
  <2>3. AddressInv' /\ KeyInv' /\ ClientsInv'
      BY <2>1, SettingsStay DEF ConfigInv, AddressInv, KeyInv, KeyIsTheFirst, ClientsInv, AllButRevoked
  <2>4. QED
      BY <1>1, <2>2, <2>3 DEF ConfigInv
<1>3. CASE Next /\ ~UNCHANGED vars
  <2>1. ProcessTypeOK' /\ FieldsInv' /\ AddressInv' /\ KeyInv' /\ ClientsInv'
      BY <1>3, KeyStepsKeepConfig, ClientStepsKeepConfig, ListenerStepsKeepConfig,
         ServingStepsKeepConfig DEF Next, Load, Exited
  <2>2. QED
      BY <1>1, <2>1 DEF ConfigInv
<1>4. QED
    BY <1>2, <1>3

(* ConfigInv holds of every process (runtime/config.go, auth/auth.go).      *)
THEOREM ConfigInvariant == Spec => []ConfigInv
BY InitConfig, NextKeepsConfig, PTL DEF Spec

(* Types; the command runs only while the key is being looked for, and no   *)
(* two clients have one name (auth.go:65-69).                               *)
THEOREM ProcessTypeCorrect == Spec => []ProcessTypeOK
<1>1. ConfigInv => ProcessTypeOK
    BY DEF ConfigInv
<1>2. QED
    BY ConfigInvariant, <1>1, PTL

(* The process serves only what it is allowed to serve with: a loopback     *)
(* address or leave for another, the key of the first source that has one,  *)
(* and every client it was given but for those revoked (config.go:31-80,    *)
(* secret.go:20-71, auth.go:37-88).                                         *)
THEOREM ConfigurationIsKept == Spec => []ServesOnlyAsConfigured
<1>1. ASSUME ConfigInv, phase = "serving" PROVE ServesOnlyAsConfigured
  <2>1. /\ Listens /\ KeyIsTheFirst /\ upstreamKey # <<>> /\ ClientsReadable
        /\ Given # <<>> /\ AllButRevoked /\ clients \in Seq(Client) /\ Given \in Seq(Client)
      BY <1>1, GivenAreClients
         DEF ConfigInv, AddressInv, KeyInv, ProcessInv, PhaseInv, ClientsInv, ProcessTypeOK
  <2>2. setting.address = "loopback" \/ (setting.address = "other" /\ setting.allowExternal)
      BY <2>1 DEF Listens
  <2>3. Parses(ClientItems) /\ setting.clientFile.state \in {"unnamed", "owner-only"}
      BY <2>1 DEF ClientsReadable, Named, ReadOwnerOnlyFile
  <2>4. /\ setting.keyEnv # <<>> => upstreamKey = setting.keyEnv
        /\ setting.keyEnv = <<>> =>
              /\ setting.keyFile.state \in {"unnamed", "owner-only"}
              /\ IF setting.keyFile.state = "owner-only" /\ setting.keyFile.value # <<>>
                 THEN upstreamKey = setting.keyFile.value ELSE setting.keyCommand
      BY <2>1 DEF KeyIsTheFirst, FilePassedOver, Named, ReadOwnerOnlyFile
  <2>5. ASSUME NEW k \in DOMAIN Given PROVE Given[k].name \in NamesOf(clients) \cup revoked
    <3>1. CASE Given[k].name \notin revoked
      <4>1. Contains(clients, Given[k])
          BY <2>1, <3>1 DEF AllButRevoked
      <4>2. \E l \in DOMAIN clients : clients[l] = Given[k]
          BY <2>1, <4>1 DEF Contains
      <4>3. QED
          BY <4>2 DEF NamesOf
    <3>2. QED
        BY <3>1
  <2>6. QED
      BY <2>1, <2>2, <2>3, <2>4, <2>5 DEF ServesOnlyAsConfigured, AllButRevoked
<1>2. ConfigInv => ServesOnlyAsConfigured
    BY <1>1 DEF ServesOnlyAsConfigured
<1>3. QED
    BY ConfigInvariant, <1>2, PTL

-----------------------------------------------------------------------------
(* What a request has been taken for.                                       *)

Keyed == \A k \in DOMAIN clients : clients[k].key # <<>>
Unauthenticated == \A r \in Requests : requests[r].state \in {"idle", "arrived"} => requests[r].client = NoName
HoldersFor(token, after) == {k \in DOMAIN Given : Given[k].key = token /\ Given[k].name \notin after}
LockInv == Keyed /\ Unauthenticated /\ RevokedIsLockedOut

(* No client is stored without a key.                                       *)
LEMMA KeyedKept ==
    ASSUME ConfigInv, Keyed, [Next]_vars
    PROVE  Keyed'
<1>0. clients \in Seq(Client) /\ todo \in Seq(Client)
    BY DEF ConfigInv, ProcessTypeOK
<1>1. CASE clients' = clients
    BY <1>1 DEF Keyed
<1>2. CASE AddClient /\ clients' # clients
  <2>1. /\ todo # <<>> /\ CanAdd(clients, Head(todo)) /\ clients' = Append(clients, Head(todo))
      BY <1>2 DEF AddClient, Fatal, Exit, configVars
  <2>2. Head(todo) \in Client /\ Head(todo).key # <<>>
      BY <1>0, <2>1 DEF CanAdd
  <2>3. \A k \in DOMAIN clients' : clients'[k] = Head(todo) \/ \E l \in DOMAIN clients : clients'[k] = clients[l]
      BY <1>0, <2>1, <2>2
  <2>4. QED
      BY <2>2, <2>3 DEF Keyed
<1>3. CASE \E name \in Names : RevokeClient(name)
  <2>1. PICK name \in Names : clients' = Revoke(clients, name)
      BY <1>3 DEF RevokeClient
  <2>2. \A k \in DOMAIN clients' : Contains(clients, clients'[k])
      BY <1>0, <2>1, RevokeTakesOutTheName
  <2>3. \A k \in DOMAIN clients' : \E l \in DOMAIN clients : clients'[k] = clients[l]
      BY <1>0, <2>2 DEF Contains
  <2>4. QED
      BY <2>3 DEF Keyed
<1>4. CASE AddClient \/ clients' = clients \/ \E name \in Names : RevokeClient(name)
    BY <1>1, <1>2, <1>3, <1>4
<1>5. AddClient \/ clients' = clients \/ \E name \in Names : RevokeClient(name)
    BY DEF Next, vars, configVars, servingVars, Signal, Load, CheckAddress, KeyFromEnvironment, KeyFromFile,
           StartCommand, CommandFails, LoadClients, StoreLoaded, ShellEnds, CommandAnswers, KillCommand,
           OrphanEnds, Listen, BindFails, Shutdown, ServeReturns, AcceptFails, Exited, Authenticate,
           AnswerError, Arrive, Serves, Fatal, Exit, Loads, Chosen
<1>6. QED
    BY <1>4, <1>5

(* A request is taken for a client whose key it brought and that was not    *)
(* revoked by then; it is refused when there is no such client.             *)
LEMMA AuthenticateTellsHolders ==
    ASSUME ConfigInv, Keyed, NEW r \in Requests, Authenticate(r)
    PROVE  LET token == requests[r].token
           IN  /\ requests'[r].token = token /\ requests'[r].after = revoked
               /\ requests'[r].client # NoName =>
                     \E k \in HoldersFor(token, revoked) : Given[k].name = requests'[r].client
               /\ requests'[r].state = "refused" => HoldersFor(token, revoked) = {}
               /\ requests'[r].state \in {"working", "refused"}
<1> DEFINE token == requests[r].token
           known == token # <<>> /\ IsHeld(clients, token)
<1>1. phase = "serving" /\ clients \in Seq(Client) /\ Given \in Seq(Client) /\ AllButRevoked
    BY GivenAreClients DEF Authenticate, Serves, ConfigInv, ProcessTypeOK, ClientsInv
<1>2. DOMAIN requests = Requests /\ DOMAIN requests[r] = Fields
    BY DEF ConfigInv, FieldsInv
<1>3. /\ requests'[r].state = IF known THEN "working" ELSE "refused"
      /\ requests'[r].client = IF known THEN Lookup(clients, token).name ELSE NoName
      /\ requests'[r].after = revoked /\ requests'[r].token = token
    BY <1>2 DEF Authenticate, Fields
<1> HIDE DEF token
<1>4. CASE known
  <2>1. PICK l \in DOMAIN clients : clients[l].key = token /\ Lookup(clients, token) = clients[l]
      BY <1>1, <1>4, LookupFindsAHolder
  <2>2. Contains(Given, clients[l]) /\ clients[l].name \notin revoked
      BY <1>1 DEF AllButRevoked
  <2>3. PICK k \in DOMAIN Given : Given[k] = clients[l]
      BY <1>1, <2>2 DEF Contains
  <2>4. k \in HoldersFor(token, revoked) /\ Given[k].name = Lookup(clients, token).name
      BY <2>1, <2>2, <2>3 DEF HoldersFor
  <2>5. QED
      BY <1>3, <1>4, <2>4 DEF token
<1>5. CASE ~known
  <2>1. ASSUME NEW k \in HoldersFor(token, revoked) PROVE FALSE
    <3>1. k \in DOMAIN Given /\ Given[k].key = token /\ Given[k].name \notin revoked
        BY DEF HoldersFor
    <3>2. Contains(clients, Given[k])
        BY <1>1, <3>1 DEF AllButRevoked
    <3>3. PICK l \in DOMAIN clients : clients[l] = Given[k]
        BY <1>1, <3>2 DEF Contains
    <3>4. token # <<>>
        BY <3>1, <3>3 DEF Keyed
    <3>5. IsHeld(clients, token)
        BY <1>1, <3>1, <3>3, LookupFindsAHolder
    <3>6. QED
        BY <1>5, <3>4, <3>5
  <2>2. QED
      BY <1>3, <1>5, <2>1 DEF token
<1>6. QED
    BY <1>4, <1>5

(* What became of the other requests, and of this one before and after it   *)
(* is authenticated, stays.                                                 *)
LEMMA LockKept ==
    ASSUME ConfigInv, LockInv, [Next]_vars
    PROVE  LockInv'
<1>0. /\ DOMAIN requests = Requests /\ \A q \in Requests : DOMAIN requests[q] = Fields
      /\ Unauthenticated /\ Keyed
      /\ \A q \in Requests :
            /\ requests[q].client # NoName =>
                  \E k \in HoldersFor(requests[q].token, requests[q].after) : Given[k].name = requests[q].client
            /\ requests[q].state = "refused" => HoldersFor(requests[q].token, requests[q].after) = {}
    BY DEF ConfigInv, FieldsInv, LockInv, RevokedIsLockedOut, HoldersFor
<1>1. Keyed'
    BY <1>0, KeyedKept
<1>2. setting' = setting /\ Given' = Given
    BY SettingsStay
    DEF Next, vars, configVars, servingVars, Signal, Load, CheckAddress, KeyFromEnvironment, KeyFromFile,
        StartCommand, CommandFails, LoadClients, AddClient, StoreLoaded, ShellEnds, CommandAnswers, KillCommand,
        OrphanEnds, Listen, BindFails, Shutdown, ServeReturns, AcceptFails, Exited, Authenticate,
        AnswerError, Arrive, RevokeClient, Serves, Fatal, Exit, Loads, Chosen
<1>3. ASSUME NEW q \in Requests
      PROVE  \/ UNCHANGED <<requests[q].state, requests[q].client, requests[q].token, requests[q].after>>
             \/ /\ requests'[q].state \in {"cut", "answered"} /\ UNCHANGED requests[q].client
                /\ UNCHANGED <<requests[q].token, requests[q].after>>
             \/ /\ requests[q].state = "idle" /\ requests'[q].state = "arrived"
                /\ UNCHANGED requests[q].client
             \/ Authenticate(q)
  <2>1. CASE requests' = requests
      BY <2>1
  <2>2. CASE \E status \in {0, 1} : Exit(status)
    <3>1. requests'[q] = requests[q] \/ requests'[q] = [requests[q] EXCEPT !.state = "cut"]
        BY <2>2 DEF Exit
    <3>2. QED
        BY <1>0, <3>1 DEF Fields
  <2>3. CASE \E r \in Requests : Authenticate(r)
      BY <1>0, <2>3 DEF Authenticate
  <2>4. CASE \E r \in Requests : AnswerError(r)
    <3>1. PICK r \in Requests : AnswerError(r)
        BY <2>4
    <3>2. PICK reply : requests' = [requests EXCEPT ![r].state = "answered", ![r].reply = reply]
        BY <3>1 DEF AnswerError
    <3>3. QED
        BY <1>0, <3>2 DEF Fields
  <2>5. CASE \E r \in Requests, t \in Keys \cup {<<>>} : Arrive(r, t)
    <3>1. PICK r \in Requests, t \in Keys \cup {<<>>} :
             /\ requests[r].state = "idle"
             /\ requests' = [requests EXCEPT ![r].state = "arrived", ![r].token = t]
        BY <2>5 DEF Arrive
    <3>2. QED
        BY <1>0, <3>1 DEF Fields
  <2>6. \/ requests' = requests \/ (\E status \in {0, 1} : Exit(status))
        \/ (\E r \in Requests : Authenticate(r)) \/ (\E r \in Requests : AnswerError(r))
        \/ (\E r \in Requests, t \in Keys \cup {<<>>} : Arrive(r, t))
      BY DEF Next, vars, servingVars, Signal, Load, CheckAddress, KeyFromEnvironment, KeyFromFile,
        StartCommand, CommandFails, LoadClients, AddClient, StoreLoaded, ShellEnds, CommandAnswers, KillCommand,
        OrphanEnds, Listen, BindFails, Shutdown, ServeReturns, AcceptFails, Exited, RevokeClient, Fatal,
        Loads, Chosen
  <2>7. QED
      BY <2>1, <2>2, <2>3, <2>4, <2>5, <2>6
<1>4. ASSUME NEW q \in Requests
      PROVE  /\ requests'[q].state \in {"idle", "arrived"} => requests'[q].client = NoName
             /\ requests'[q].client # NoName =>
                   \E k \in HoldersFor(requests'[q].token, requests'[q].after) : Given[k].name = requests'[q].client
             /\ requests'[q].state = "refused" => HoldersFor(requests'[q].token, requests'[q].after) = {}
  <2>1. CASE Authenticate(q)
      BY <1>0, <2>1, AuthenticateTellsHolders
  <2>2. CASE ~Authenticate(q)
      BY <1>0, <1>3, <2>2 DEF Unauthenticated
  <2>3. QED
      BY <2>1, <2>2
<1>5. Unauthenticated'
    BY <1>4 DEF Unauthenticated
<1>6. RevokedIsLockedOut'
    BY <1>2, <1>4 DEF RevokedIsLockedOut, HoldersFor
<1>7. QED
    BY <1>1, <1>5, <1>6 DEF LockInv

(* A request never passes for a client that was revoked before it was       *)
(* authenticated, and one that brings the key of a client that was not is   *)
(* never refused, also when two clients have one key (auth.go:74-137).      *)
THEOREM RevokedStaysLockedOut == Spec => []RevokedIsLockedOut
<1>1. Init => LockInv
    BY DEF Init, Idle, LockInv, Keyed, Unauthenticated, RevokedIsLockedOut
<1>2. LockInv => RevokedIsLockedOut
    BY DEF LockInv
<1>3. QED
    BY ConfigInvariant, <1>1, LockKept, <1>2, PTL DEF Spec

-----------------------------------------------------------------------------
(* Redaction.  Replaced and Redact are recursive functions: that they have  *)
(* values at all is shown by induction over the positions, and what these   *)
(* values are is read off the recursion after that.                         *)

(* The values of the recursion by which Replaced is defined.                *)
Unfolds(g, text, key) ==
    g = [i \in 1..(Len(text) + 1) |->
            IF i > Len(text) THEN <<>>
            ELSE IF OccursAt(text, key, i) THEN Mark \o g[i + Len(key)]
            ELSE <<text[i]>> \o g[i + 1]]
Unfolded(text, key) == CHOOSE g : Unfolds(g, text, key)

(* There are such values: from the last position back to the first.         *)
LEMMA UnfoldedExists ==
    ASSUME NEW T, Mark \in Seq(T), NEW text \in Seq(T), NEW key \in Seq(T), key # <<>>
    PROVE  Unfolds(Unfolded(text, key), text, key)
<1>0. PICK n \in Nat, w \in Nat : n = Len(text) /\ w = Len(key) /\ w > 0
  OBVIOUS
<1> DEFINE At(g, i) == IF i > n THEN <<>>
                       ELSE IF OccursAt(text, key, i) THEN Mark \o g[i + w] ELSE <<text[i]>> \o g[i + 1]
           Downto(g, m) == \A k \in (n + 1 - m)..(n + 1) : g[k] = At(g, k)
           S == {m \in 0..n : \E g \in [(n + 1 - m)..(n + 1) -> Seq(T)] : Downto(g, m)}
<1>1. \A i \in 1..n : text[i] \in T
  BY <1>0
<1>2. 0 \in S
  <2>1. PICK g \in [(n + 1)..(n + 1) -> Seq(T)] : g = [k \in (n + 1)..(n + 1) |-> <<>>]
    <3>1. <<>> \in Seq(T)
      OBVIOUS
    <3> QED BY <3>1, Zenon
  <2>2. \A k \in (n + 1)..(n + 1) : k > n /\ g[k] = <<>>
    BY <2>1
  <2>3. Downto(g, 0)
    BY <2>2
  <2>4. n + 1 - 0 = n + 1 /\ 0 \in 0..n
    OBVIOUS
  <2>5. \E f \in [(n + 1 - 0)..(n + 1) -> Seq(T)] : Downto(f, 0)
    <3> HIDE DEF Downto
    <3> QED BY <2>3, <2>4
  <2> HIDE DEF Downto
  <2> QED BY <2>4, <2>5
<1>3. ASSUME NEW m \in 0..n, m \in S, m < n PROVE m + 1 \in S
  <2>1. PICK g \in [(n + 1 - m)..(n + 1) -> Seq(T)] : Downto(g, m)
    BY <1>3
  <2>0. PICK j \in 1..n : j = n - m
    BY <1>3
  <2> DEFINE x == At(g, j)
             h == [k \in j..(n + 1) |-> IF k = j THEN x ELSE g[k]]
  <2>2. x \in Seq(T)
    <3>1. CASE OccursAt(text, key, j)
      <4>1. j + w \in (n + 1 - m)..(n + 1)
        BY <1>0, <2>0, <3>1 DEF OccursAt
      <4>2. g[j + w] \in Seq(T)
        BY <4>1
      <4>3. x = Mark \o g[j + w]
        BY <2>0, <3>1, SMTT(30)
      <4> HIDE DEF x
      <4> QED BY <4>2, <4>3
    <3>2. CASE ~OccursAt(text, key, j)
      <4>1. j + 1 \in (n + 1 - m)..(n + 1)
        BY <1>0, <2>0
      <4>2. g[j + 1] \in Seq(T) /\ <<text[j]>> \in Seq(T)
        BY <4>1, <1>1
      <4>3. x = <<text[j]>> \o g[j + 1]
        BY <2>0, <3>2
      <4> HIDE DEF x
      <4> QED BY <4>2, <4>3
    <3> HIDE DEF x
    <3> QED BY <3>1, <3>2
  <2>3. h \in [j..(n + 1) -> Seq(T)]
    BY <2>0, <2>2
  <2>4. \A k \in (j + 1)..(n + 1) : h[k] = g[k]
    BY <2>0
  <2>5. ASSUME NEW k \in j..(n + 1) PROVE h[k] = At(h, k)
    <3>1. OccursAt(text, key, k) /\ k <= n => k + w \in (j + 1)..(n + 1)
      BY <1>0, <2>0 DEF OccursAt
    <3>2. k <= n => k + 1 \in (j + 1)..(n + 1)
      BY <2>0
    <3>3. At(h, k) = At(g, k)
      <4> HIDE DEF h
      <4> QED BY <3>1, <3>2, <2>4
    <3>4. CASE k = j
      BY <3>3, <3>4
    <3>5. CASE k # j
      <4>1. k \in (j + 1)..(n + 1) /\ k \in (n + 1 - m)..(n + 1)
        BY <2>0, <3>5
      <4>2. h[k] = g[k] /\ g[k] = At(g, k)
        BY <2>1, <2>4, <4>1
      <4> HIDE DEF h, At
      <4> QED BY <3>3, <4>2
    <3> QED BY <3>4, <3>5
  <2>6. m + 1 \in 0..n /\ n + 1 - (m + 1) = j
    BY <1>3, <2>0
  <2>7. Downto(h, m + 1)
    <3> HIDE DEF h, At
    <3> QED BY <2>5, <2>6
  <2>8. \E a \in [(n + 1 - (m + 1))..(n + 1) -> Seq(T)] : Downto(a, m + 1)
    <3> HIDE DEF h, Downto
    <3> QED BY <2>3, <2>6, <2>7
  <2> HIDE DEF Downto
  <2> QED BY <2>6, <2>8
<1>4. S = 0..n
  <2> HIDE DEF S
  <2> S \in SUBSET (0..n)
    BY DEF S
  <2> QED BY <1>2, <1>3, NaturalsByInduction
<1>5. n \in S
  <2> HIDE DEF S
  <2> QED BY <1>4
<1>6. PICK g \in [1..(n + 1) -> Seq(T)] : Downto(g, n)
  <2>1. n + 1 - n = 1
    OBVIOUS
  <2> HIDE DEF Downto
  <2> QED BY <1>5, <2>1
<1>7. \A k \in 1..(n + 1) : g[k] = At(g, k)
  <2>1. n + 1 - n = 1 /\ Downto(g, n)
    <3> HIDE DEF Downto
    <3> QED BY <1>6
  <2>2. \A k \in (n + 1 - n)..(n + 1) : g[k] = At(g, k)
    <3> HIDE DEF At
    <3> QED BY <2>1, Zenon
  <2> HIDE DEF At
  <2> QED BY <2>1, <2>2
<1>8. g = [k \in 1..(n + 1) |-> At(g, k)]
  <2> HIDE DEF At
  <2> QED BY <1>7, Zenon
<1>9. Unfolds(g, text, key)
  BY <1>0, <1>8 DEF Unfolds
<1> QED BY <1>9 DEF Unfolded

(* Replaced gives the value at the first position.                          *)
LEMMA ReplacedIsTheFirst ==
    ASSUME NEW T, Mark \in Seq(T), NEW text \in Seq(T), NEW key \in Seq(T), key # <<>>
    PROVE  /\ Replaced(text, key) = Unfolded(text, key)[1]
           /\ \A i \in 1..(Len(text) + 1) :
                 Unfolded(text, key)[i] =
                    IF i > Len(text) THEN <<>>
                    ELSE IF OccursAt(text, key, i) THEN Mark \o Unfolded(text, key)[i + Len(key)]
                    ELSE <<text[i]>> \o Unfolded(text, key)[i + 1]
<1>1. Replaced(text, key) = Unfolded(text, key)[1]
  BY DEF Replaced, Unfolded, Unfolds
<1>2. PICK g : g = Unfolded(text, key) /\ Unfolds(g, text, key)
  BY UnfoldedExists
<1>3. \A i \in 1..(Len(text) + 1) :
         g[i] = IF i > Len(text) THEN <<>>
                ELSE IF OccursAt(text, key, i) THEN Mark \o g[i + Len(key)]
                ELSE <<text[i]>> \o g[i + 1]
  BY <1>2 DEF Unfolds
<1> QED BY <1>1, <1>2, <1>3

(* Wherever in the text a mark may begin, the two differ where they meet.   *)
Clashes(v) ==
    \A shift \in (1 - Len(v))..0 : \E k \in DOMAIN v : k + shift \in DOMAIN Mark /\ v[k] # Mark[k + shift]

(* OccursAt, symbol by symbol.                                              *)
LEMMA Occurring ==
    ASSUME NEW T, NEW text \in Seq(T), NEW w \in Seq(T), NEW i \in 1..(Len(text) + 1)
    PROVE  OccursAt(text, w, i) <=>
              i + Len(w) - 1 <= Len(text) /\ \A k \in 1..Len(w) : text[i + k - 1] = w[k]
<1>1. PICK n \in Nat, m \in Nat : n = Len(text) /\ m = Len(w)
  OBVIOUS
<1>2. CASE i + m - 1 <= n
  <2> DEFINE s == SubSeq(text, i, i + m - 1)
  <2>1. s \in Seq(T) /\ Len(s) = m /\ \A k \in 1..m : s[k] = text[i + k - 1]
    BY <1>1, <1>2, SMTT(30)
  <2> HIDE DEF s
  <2>2. s = w <=> \A k \in 1..m : s[k] = w[k]
    <3>1. (\A k \in 1..m : s[k] = w[k]) => s = w
      BY <1>1, <2>1, SeqEqual
    <3> QED BY <3>1
  <2>3. OccursAt(text, w, i) <=> s = w
    BY <1>1, <1>2 DEF OccursAt, s
  <2> QED BY <1>1, <1>2, <2>1, <2>2, <2>3
<1>3. CASE ~(i + m - 1 <= n)
  BY <1>1, <1>3 DEF OccursAt
<1> QED BY <1>2, <1>3

(* Behind one symbol more.                                                  *)
LEMMA BehindASymbol ==
    ASSUME NEW T, NEW x \in T, NEW s \in Seq(T), NEW w \in Seq(T),
           NEW a \in 1..(Len(s) + 1), OccursAt(<<x>> \o s, w, a)
    PROVE  /\ a > 1 => OccursAt(s, w, a - 1)
           /\ a = 1 /\ w # <<>> => w[1] = x /\ OccursAt(s, Tail(w), 1)
<1>0. PICK l \in Nat, m \in Nat : l = Len(s) /\ m = Len(w)
  OBVIOUS
<1>1. PICK new : l = Len(s) /\ m = Len(w) /\ new = <<x>> \o s
  BY <1>0
<1>2. new \in Seq(T) /\ Len(new) = l + 1 /\ new[1] = x /\ \A k \in 1..l : new[k + 1] = s[k]
  BY <1>1
<1>3. a + m - 1 <= l + 1 /\ \A k \in 1..m : new[a + k - 1] = w[k]
  <2>1. a \in 1..(Len(new) + 1) /\ OccursAt(new, w, a)
    BY <1>1, <1>2
  <2>2. a + Len(w) - 1 <= Len(new) /\ \A k \in 1..Len(w) : new[a + k - 1] = w[k]
    BY <1>2, <2>1, Occurring
  <2> QED BY <1>1, <1>2, <2>2
<1>4. ASSUME a > 1 PROVE OccursAt(s, w, a - 1)
  <2>1. a - 1 \in 1..(Len(s) + 1) /\ (a - 1) + m - 1 <= l
    BY <1>1, <1>3, <1>4
  <2>2. ASSUME NEW k \in 1..m PROVE s[(a - 1) + k - 1] = w[k]
    <3>1. PICK h \in 1..l : h = (a - 1) + k - 1 /\ h + 1 = a + k - 1
      BY <1>4, <2>1
    <3> QED BY <1>2, <1>3, <3>1
  <2> QED BY <1>1, <2>1, <2>2, Occurring
<1>5. ASSUME a = 1, w # <<>> PROVE w[1] = x /\ OccursAt(s, Tail(w), 1)
  <2>1. m > 0 /\ Tail(w) \in Seq(T) /\ Len(Tail(w)) = m - 1 /\ \A k \in 1..(m - 1) : Tail(w)[k] = w[k + 1]
    BY <1>1, <1>5
  <2>2. w[1] = x
    <3>1. 1 \in 1..m /\ a + 1 - 1 = 1
      BY <1>5, <2>1
    <3> QED BY <1>2, <1>3, <3>1
  <2>3. ASSUME NEW k \in 1..(m - 1) PROVE s[1 + k - 1] = Tail(w)[k]
    <3>1. k + 1 \in 1..m /\ k \in 1..l /\ a + (k + 1) - 1 = k + 1 /\ 1 + k - 1 = k
      BY <1>3, <1>5
    <3>2. new[k + 1] = w[k + 1] /\ new[k + 1] = s[k]
      BY <1>2, <1>3, <3>1
    <3> QED BY <2>1, <3>1, <3>2
  <2>4. 1 \in 1..(Len(s) + 1) /\ 1 + (m - 1) - 1 <= l
    BY <1>1, <1>3, <1>5
  <2>5. OccursAt(s, Tail(w), 1)
    BY <1>1, <2>1, <2>3, <2>4, Occurring
  <2> QED BY <2>2, <2>5
<1> QED BY <1>4, <1>5

(* Behind a mark: what is apart from it begins only after its end.          *)
LEMMA BehindAMark ==
    ASSUME NEW T, Mark \in Seq(T), NEW s \in Seq(T), NEW w \in Seq(T), w # <<>>, ApartFromMark(w),
           NEW a \in 1..Len(Mark \o s), OccursAt(Mark \o s, w, a)
    PROVE  a - Len(Mark) \in 1..Len(s) /\ OccursAt(s, w, a - Len(Mark))
<1>0. PICK l \in Nat, m \in Nat, n \in Nat : l = Len(s) /\ m = Len(w) /\ n = Len(Mark)
  OBVIOUS
<1>1. PICK new : l = Len(s) /\ m = Len(w) /\ n = Len(Mark) /\ new = Mark \o s
  BY <1>0
<1>2. /\ new \in Seq(T) /\ Len(new) = n + l
      /\ \A k \in 1..n : new[k] = Mark[k]
      /\ \A k \in 1..l : new[n + k] = s[k]
  BY <1>1
<1>3. a \in 1..(n + l) /\ m > 0
  BY <1>1, <1>2
<1>4. a + m - 1 <= n + l /\ \A k \in 1..m : new[a + k - 1] = w[k]
  <2>1. a \in 1..(Len(new) + 1) /\ OccursAt(new, w, a)
    BY <1>1, <1>2, <1>3
  <2>2. a + Len(w) - 1 <= Len(new) /\ \A k \in 1..Len(w) : new[a + k - 1] = w[k]
    <3>1. w \in Seq(T) /\ new \in Seq(T)
      BY <1>2
    <3> QED BY ONLY <2>1, <3>1, Occurring
  <2> QED BY <1>1, <1>2, <2>2
<1>5. a > n
  <2> SUFFICES ASSUME a <= n PROVE FALSE
    BY <1>3
  <2>1. a - 1 \in (1 - m)..(n - 1)
    BY <1>3
  <2>2. PICK k \in 1..m : k + (a - 1) \in 1..n /\ w[k] # Mark[k + (a - 1)]
    <3>1. a - 1 \in (1 - Len(w))..(Len(Mark) - 1) /\ DOMAIN w = 1..m /\ DOMAIN Mark = 1..n
      BY <1>1, <2>1
    <3>2. \E k \in DOMAIN w : k + (a - 1) \in DOMAIN Mark /\ w[k] # Mark[k + (a - 1)]
      BY <3>1, Zenon DEF ApartFromMark
    <3> QED BY <3>1, <3>2
  <2>3. k + (a - 1) = a + k - 1
    BY <1>3
  <2> QED BY <1>2, <1>4, <2>2, <2>3
<1>6. PICK b \in 1..l : b = a - n /\ b + m - 1 <= l
  BY <1>3, <1>4, <1>5
<1>7. ASSUME NEW k \in 1..m PROVE s[b + k - 1] = w[k]
  <2>1. PICK h \in 1..l : h = b + k - 1 /\ n + h = a + k - 1
    BY <1>6
  <2> QED BY <1>2, <1>4, <2>1
<1>8. OccursAt(s, w, b)
  <2>1. b \in 1..(Len(s) + 1) /\ b + Len(w) - 1 <= Len(s) /\ \A k \in 1..Len(w) : s[b + k - 1] = w[k]
    BY <1>1, <1>6, <1>7
  <2> QED BY <2>1, Occurring
<1> QED BY <1>1, <1>6, <1>8

(* Before a mark: a text that clashes with it cannot begin where it begins. *)
LEMMA NotWithAMark ==
    ASSUME NEW T, Mark \in Seq(T), NEW s \in Seq(T), NEW v \in Seq(T), Clashes(v), OccursAt(Mark \o s, v, 1)
    PROVE  v = <<>>
<1> SUFFICES ASSUME v # <<>> PROVE FALSE
  OBVIOUS
<1>0. PICK m \in Nat, n \in Nat : m = Len(v) /\ n = Len(Mark) /\ m > 0
  OBVIOUS
<1>1. PICK new : m = Len(v) /\ n = Len(Mark) /\ new = Mark \o s /\ m > 0
  BY <1>0
<1>2. new \in Seq(T) /\ \A k \in 1..n : new[k] = Mark[k]
  BY <1>1
<1>3. \A k \in 1..m : new[1 + k - 1] = v[k]
  <2>1. 1 \in 1..(Len(new) + 1) /\ OccursAt(new, v, 1)
    BY <1>1, <1>2
  <2>2. \A k \in 1..Len(v) : new[1 + k - 1] = v[k]
    BY <1>2, <2>1, Occurring
  <2> QED BY <1>1, <2>2
<1>4. 0 \in (1 - m)..0
  BY <1>1
<1>5. PICK k \in 1..m : k + 0 \in 1..n /\ v[k] # Mark[k + 0]
  BY <1>1, <1>4 DEF Clashes
<1>6. 1 + k - 1 = k /\ k + 0 = k
  OBVIOUS
<1> QED BY <1>2, <1>3, <1>5, <1>6

(* What is apart from the mark clashes with it, and so does its rest.       *)
LEMMA ApartClashes ==
    ASSUME NEW T, Mark \in Seq(T), Mark # <<>>, NEW w \in Seq(T), w # <<>>
    PROVE  (ApartFromMark(w) => Clashes(w)) /\ (Clashes(w) => Clashes(Tail(w)))
<1>1. PICK m \in Nat, n \in Nat : m = Len(w) /\ n = Len(Mark) /\ m > 0 /\ n > 0
  OBVIOUS
<1>2. ASSUME ApartFromMark(w) PROVE Clashes(w)
  <2>1. ASSUME NEW shift \in (1 - m)..0 PROVE shift \in (1 - m)..(n - 1)
    BY <1>1
  <2> QED BY <1>1, <1>2, <2>1 DEF ApartFromMark, Clashes
<1>3. ASSUME Clashes(w) PROVE Clashes(Tail(w))
  <2>1. Len(Tail(w)) = m - 1 /\ \A k \in 1..(m - 1) : Tail(w)[k] = w[k + 1]
    BY <1>1
  <2>2. ASSUME NEW shift \in (1 - (m - 1))..0
        PROVE  \E k \in 1..(m - 1) : k + shift \in 1..n /\ Tail(w)[k] # Mark[k + shift]
    <3>1. shift - 1 \in (1 - m)..0
      BY <1>1
    <3>2. PICK h \in 1..m : h + (shift - 1) \in 1..n /\ w[h] # Mark[h + (shift - 1)]
      <4>1. shift - 1 \in (1 - Len(w))..0 /\ DOMAIN w = 1..m /\ DOMAIN Mark = 1..n
        BY <1>1, <3>1
      <4>2. \E h \in DOMAIN w : h + (shift - 1) \in DOMAIN Mark /\ w[h] # Mark[h + (shift - 1)]
        BY <1>3, <4>1, Zenon DEF Clashes
      <4> QED BY <4>1, <4>2
    <3>3. PICK k \in 1..(m - 1) : h = k + 1 /\ k + shift = h + (shift - 1)
      BY <1>1, <3>2
    <3> QED BY <2>1, <3>2, <3>3
  <2>3. DOMAIN Tail(w) = 1..(m - 1) /\ DOMAIN Mark = 1..n
    BY <1>1, <2>1
  <2> QED BY <2>1, <2>2, <2>3 DEF Clashes
<1> QED BY <1>2, <1>3

(* What a text tells once the key is replaced in it, from position i on: it *)
(* begins only with what the text has there, and holds only what the text   *)
(* holds further on, in a place where the key does not begin; all this but  *)
(* for what may meet a mark.                                                *)
Begins(s, text, i, T) ==
    \A v \in Seq(T) : Clashes(v) /\ OccursAt(s, v, 1) => OccursAt(text, v, i)
Holds(s, text, key, i, T) ==
    \A w \in Seq(T), a \in 1..Len(s) :
        w # <<>> /\ ApartFromMark(w) /\ OccursAt(s, w, a) =>
            \E c \in i..Len(text) : OccursAt(text, w, c) /\ ~OccursAt(text, key, c)

(* So it is with a mark more before it ...                                  *)
LEMMA OneMarkMore ==
    ASSUME NEW T, Mark \in Seq(T), NEW text \in Seq(T), NEW key, NEW s \in Seq(T),
           NEW i \in 1..Len(text), NEW j \in i..(Len(text) + 1), Holds(s, text, key, j, T)
    PROVE  Begins(Mark \o s, text, i, T) /\ Holds(Mark \o s, text, key, i, T)
<1>1. ASSUME NEW v \in Seq(T), Clashes(v), OccursAt(Mark \o s, v, 1) PROVE OccursAt(text, v, i)
  <2>1. v = <<>>
    BY <1>1, NotWithAMark
  <2>2. i \in 1..(Len(text) + 1) /\ i + Len(v) - 1 <= Len(text) /\ \A k \in 1..Len(v) : FALSE
    BY <2>1
  <2> QED BY <2>2, Occurring
<1>2. ASSUME NEW w \in Seq(T), NEW a \in 1..Len(Mark \o s), w # <<>>, ApartFromMark(w), OccursAt(Mark \o s, w, a)
      PROVE  \E c \in i..Len(text) : OccursAt(text, w, c) /\ ~OccursAt(text, key, c)
  <2>1. PICK b \in 1..Len(s) : OccursAt(s, w, b)
    BY <1>2, BehindAMark
  <2>2. PICK c \in j..Len(text) : OccursAt(text, w, c) /\ ~OccursAt(text, key, c)
    BY <1>2, <2>1 DEF Holds
  <2>3. c \in i..Len(text)
    OBVIOUS
  <2> QED BY <2>2, <2>3
<1> QED BY <1>1, <1>2 DEF Begins, Holds

(* ... and with the symbol more that the text has there.                    *)
LEMMA OneSymbolMore ==
    ASSUME NEW T, Mark \in Seq(T), Mark # <<>>, NEW text \in Seq(T), NEW key, NEW s \in Seq(T),
           NEW i \in 1..Len(text), ~OccursAt(text, key, i),
           Begins(s, text, i + 1, T), Holds(s, text, key, i + 1, T)
    PROVE  Begins(<<text[i]>> \o s, text, i, T) /\ Holds(<<text[i]>> \o s, text, key, i, T)
<1> DEFINE new == <<text[i]>> \o s
<1>0. text[i] \in T /\ Len(new) = Len(s) + 1 /\ i \in 1..(Len(text) + 1) /\ i + 1 \in 1..(Len(text) + 1)
  OBVIOUS
<1>1. ASSUME NEW v \in Seq(T), Clashes(v), OccursAt(new, v, 1) PROVE OccursAt(text, v, i)
  <2>1. CASE v = <<>>
    <3>1. i + Len(v) - 1 <= Len(text) /\ \A k \in 1..Len(v) : FALSE
      BY <2>1
    <3> QED BY <1>0, <3>1, Occurring
  <2>2. CASE v # <<>>
    <3>1. v[1] = text[i] /\ OccursAt(s, Tail(v), 1)
      <4>1. 1 \in 1..(Len(s) + 1)
        OBVIOUS
      <4> QED BY <1>0, <1>1, <2>2, <4>1, BehindASymbol
    <3>2. Tail(v) \in Seq(T) /\ Clashes(Tail(v))
      BY <1>1, <2>2, ApartClashes
    <3>3. OccursAt(text, Tail(v), i + 1)
      BY <3>1, <3>2 DEF Begins
    <3>4. PICK m \in Nat : m = Len(v) /\ Len(Tail(v)) = m - 1 /\ \A k \in 1..(m - 1) : Tail(v)[k] = v[k + 1]
      BY <2>2
    <3>5. (i + 1) + (m - 1) - 1 <= Len(text) /\ \A k \in 1..(m - 1) : text[(i + 1) + k - 1] = Tail(v)[k]
      <4>1. /\ (i + 1) + Len(Tail(v)) - 1 <= Len(text)
            /\ \A k \in 1..Len(Tail(v)) : text[(i + 1) + k - 1] = Tail(v)[k]
        BY <1>0, <3>2, <3>3, Occurring
      <4> QED BY <3>4, <4>1
    <3>6. ASSUME NEW k \in 1..m PROVE text[i + k - 1] = v[k]
      <4>1. CASE k = 1
        BY <3>1, <4>1
      <4>2. CASE k # 1
        <5>1. PICK h \in 1..(m - 1) : k = h + 1 /\ (i + 1) + h - 1 = i + k - 1
          BY <4>2
        <5> QED BY <3>4, <3>5, <5>1
      <4> QED BY <4>1, <4>2
    <3>7. i + m - 1 <= Len(text)
      BY <3>4, <3>5
    <3> QED BY <1>0, <3>4, <3>6, <3>7, Occurring
  <2> QED BY <2>1, <2>2
<1>2. ASSUME NEW w \in Seq(T), NEW a \in 1..Len(new), w # <<>>, ApartFromMark(w), OccursAt(new, w, a)
      PROVE  \E c \in i..Len(text) : OccursAt(text, w, c) /\ ~OccursAt(text, key, c)
  <2>0. a \in 1..(Len(s) + 1)
    BY <1>0
  <2>1. CASE a = 1
    <3>1. Clashes(w)
      BY <1>2, ApartClashes
    <3>2. OccursAt(text, w, i)
      BY <1>1, <1>2, <2>1, <3>1
    <3> QED BY <3>2
  <2>2. CASE a # 1
    <3>1. OccursAt(s, w, a - 1) /\ a - 1 \in 1..Len(s)
      BY <1>0, <1>2, <2>0, <2>2, BehindASymbol
    <3>2. PICK c \in (i + 1)..Len(text) : OccursAt(text, w, c) /\ ~OccursAt(text, key, c)
      BY <1>2, <3>1 DEF Holds
    <3>3. c \in i..Len(text)
      OBVIOUS
    <3> QED BY <3>2, <3>3
  <2> QED BY <2>1, <2>2
<1> QED BY <1>1, <1>2 DEF Begins, Holds

(* All that Replaced gives is so.                                           *)
LEMMA ReplacedHolds ==
    ASSUME NEW T, Mark \in Seq(T), Mark # <<>>, NEW text \in Seq(T), NEW key \in Seq(T), key # <<>>
    PROVE  Replaced(text, key) \in Seq(T) /\ Holds(Replaced(text, key), text, key, 1, T)
<1>0. PICK n \in Nat, w \in Nat : n = Len(text) /\ w = Len(key) /\ w > 0
  OBVIOUS
<1>1. PICK g : n = Len(text) /\ w = Len(key) /\ w > 0 /\ g = Unfolded(text, key)
  BY <1>0
<1>2. /\ Replaced(text, key) = g[1]
      /\ \A i \in 1..(n + 1) :
            g[i] = IF i > n THEN <<>>
                   ELSE IF OccursAt(text, key, i) THEN Mark \o g[i + w] ELSE <<text[i]>> \o g[i + 1]
  BY <1>1, ReplacedIsTheFirst
<1> DEFINE Good(i) == g[i] \in Seq(T) /\ Begins(g[i], text, i, T) /\ Holds(g[i], text, key, i, T)
           S == {m \in 0..n : \A i \in (n + 1 - m)..(n + 1) : Good(i)}
<1>3. 0 \in S
  <2>1. g[n + 1] = <<>> /\ <<>> \in Seq(T) /\ Len(<<>>) = 0
    <3>1. n + 1 \in 1..(n + 1) /\ n + 1 > n
      OBVIOUS
    <3>2. g[n + 1] = <<>>
      BY <1>2, <3>1
    <3> QED BY <3>2
  <2>2. ASSUME NEW v \in Seq(T), OccursAt(<<>>, v, 1) PROVE OccursAt(text, v, n + 1)
    <3>1. Len(v) = 0
      BY <2>2 DEF OccursAt
    <3>2. n + 1 \in 1..(Len(text) + 1) /\ n + 1 + Len(v) - 1 <= Len(text) /\ \A k \in 1..Len(v) : FALSE
      BY <1>1, <3>1
    <3> QED BY <3>2, Occurring
  <2>3. Good(n + 1)
    BY <2>1, <2>2 DEF Begins, Holds
  <2>4. \A i \in (n + 1 - 0)..(n + 1) : i = n + 1
    OBVIOUS
  <2> HIDE DEF Good
  <2> QED BY <2>3, <2>4
<1>4. ASSUME NEW m \in 0..n, m \in S, m < n PROVE m + 1 \in S
  <2>1. PICK i \in 1..n : i = n - m
    BY <1>4
  <2>2. \A l \in (i + 1)..(n + 1) : Good(l)
    <3>1. \A l \in (n + 1 - m)..(n + 1) : Good(l)
      <4> HIDE DEF Good
      <4> QED BY <1>4
    <3>2. i + 1 = n + 1 - m
      BY <2>1
    <3> HIDE DEF Good
    <3> QED BY <3>1, <3>2
  <2>3. i \in 1..(n + 1) /\ ~(i > n)
    OBVIOUS
  <2>4. Good(i)
    <3>1. CASE OccursAt(text, key, i)
      <4>1. i + w \in (i + 1)..(n + 1)
        BY <1>1, <3>1 DEF OccursAt
      <4>2. g[i] = Mark \o g[i + w]
        BY <1>2, <2>3, <3>1
      <4>3. PICK s, j : s = g[i + w] /\ j = i + w
        OBVIOUS
      <4>4. s \in Seq(T) /\ Holds(s, text, key, j, T) /\ i \in 1..Len(text) /\ j \in i..(Len(text) + 1)
        BY <1>1, <2>2, <4>1, <4>3
      <4>5. Begins(Mark \o s, text, i, T) /\ Holds(Mark \o s, text, key, i, T) /\ Mark \o s \in Seq(T)
        BY <4>4, OneMarkMore
      <4> QED BY <4>2, <4>3, <4>5
    <3>2. CASE ~OccursAt(text, key, i)
      <4>1. i + 1 \in (i + 1)..(n + 1)
        OBVIOUS
      <4>2. g[i] = <<text[i]>> \o g[i + 1]
        BY <1>2, <2>3, <3>2
      <4>3. PICK s : s = g[i + 1]
        OBVIOUS
      <4>4. /\ s \in Seq(T) /\ Begins(s, text, i + 1, T) /\ Holds(s, text, key, i + 1, T)
            /\ i \in 1..Len(text) /\ text[i] \in T
        BY <1>1, <2>2, <4>1, <4>3
      <4>5. /\ Begins(<<text[i]>> \o s, text, i, T) /\ Holds(<<text[i]>> \o s, text, key, i, T)
            /\ <<text[i]>> \o s \in Seq(T)
        BY <3>2, <4>4, OneSymbolMore
      <4> QED BY <4>2, <4>3, <4>5
    <3> QED BY <3>1, <3>2
  <2>5. \A l \in (n + 1 - (m + 1))..(n + 1) : l = i \/ l \in (i + 1)..(n + 1)
    BY <2>1
  <2> HIDE DEF Good
  <2> QED BY <1>4, <2>2, <2>4, <2>5
<1>5. S = 0..n
  <2> HIDE DEF S
  <2> S \in SUBSET (0..n)
    BY DEF S
  <2> QED BY <1>3, <1>4, NaturalsByInduction
<1>6. n \in S
  <2> HIDE DEF S
  <2> QED BY <1>5
<1>7. Good(1)
  <2> HIDE DEF Good
  <2>1. 1 \in (n + 1 - n)..(n + 1)
    OBVIOUS
  <2> QED BY <1>6, <2>1
<1> QED BY <1>2, <1>7

(* strings.ReplaceAll quotes, apart from the mark, nothing that was not     *)
(* quoted, and takes all of the key out if the key is apart from it.        *)
LEMMA ReplacedHides ==
    ASSUME NEW T, Mark \in Seq(T), Mark # <<>>, NEW text \in Seq(T), NEW key \in Seq(T), key # <<>>
    PROVE  /\ Replaced(text, key) \in Seq(T)
           /\ ApartFromMark(key) => ~Quotes(Replaced(text, key), key)
           /\ \A w \in Seq(T) : w # <<>> /\ ApartFromMark(w) /\ Quotes(Replaced(text, key), w) => Quotes(text, w)
<1>1. PICK s : s = Replaced(text, key) /\ s \in Seq(T) /\ Holds(s, text, key, 1, T)
  BY ReplacedHolds
<1>2. ASSUME NEW w \in Seq(T), w # <<>>, ApartFromMark(w), Quotes(s, w)
      PROVE  \E c \in 1..Len(text) : OccursAt(text, w, c) /\ ~OccursAt(text, key, c)
  <2>1. PICK a \in 1..Len(s) : OccursAt(s, w, a)
    BY <1>1, <1>2 DEF Quotes
  <2> QED BY <1>1, <1>2, <2>1 DEF Holds
<1>3. ASSUME ApartFromMark(key) PROVE ~Quotes(s, key)
  BY <1>2, <1>3
<1>4. ASSUME NEW w \in Seq(T), w # <<>>, ApartFromMark(w), Quotes(s, w) PROVE Quotes(text, w)
  BY <1>2, <1>4 DEF Quotes
<1> QED BY <1>1, <1>3, <1>4

-----------------------------------------------------------------------------
(* The values of the recursion by which Redact is defined.                  *)
Cleaned(before, secret) == IF secret = <<>> THEN before ELSE Replaced(before, secret)
Passes(g, text, secrets) ==
    g = [i \in 0..Len(secrets) |-> IF i = 0 THEN text ELSE Cleaned(g[i - 1], secrets[i])]
Passed(text, secrets) == CHOOSE g : Passes(g, text, secrets)

(* A pass gives a text again.                                               *)
LEMMA CleanedType ==
    ASSUME NEW T, Mark \in Seq(T), Mark # <<>>, NEW text \in Seq(T), NEW key \in Seq(T)
    PROVE  Cleaned(text, key) \in Seq(T)
BY ReplacedHides DEF Cleaned

(* There are such values: from the first secret to the last.                *)
LEMMA PassesExist ==
    ASSUME NEW T, Mark \in Seq(T), Mark # <<>>, NEW text \in Seq(T), NEW secrets \in Seq(Seq(T))
    PROVE  Passes(Passed(text, secrets), text, secrets)
<1>0. PICK n \in Nat : n = Len(secrets)
  OBVIOUS
<1> DEFINE At(g, k) == IF k = 0 THEN text ELSE Cleaned(g[k - 1], secrets[k])
           Upto(g, i) == \A k \in 0..i : g[k] = At(g, k)
           S == {i \in 0..n : \E g \in [0..i -> Seq(T)] : Upto(g, i)}
<1>1. \A i \in 1..n : secrets[i] \in Seq(T)
  BY <1>0
<1>2. 0 \in S
  <2>1. PICK g \in [0..0 -> Seq(T)] : g = [k \in 0..0 |-> text]
    BY Zenon
  <2>2. Upto(g, 0) /\ 0 \in 0..n
    BY <2>1
  <2> HIDE DEF Upto
  <2> QED BY <2>2
<1>3. ASSUME NEW i \in 0..n, i \in S, i < n PROVE i + 1 \in S
  <2>1. PICK g \in [0..i -> Seq(T)] : Upto(g, i)
    BY <1>3
  <2> DEFINE x == Cleaned(g[i], secrets[i + 1])
             h == [k \in 0..(i + 1) |-> IF k = i + 1 THEN x ELSE g[k]]
  <2>2. x \in Seq(T)
    <3>1. g[i] \in Seq(T) /\ i + 1 \in 1..n
      BY <1>3
    <3>2. secrets[i + 1] \in Seq(T)
      BY <1>1, <3>1
    <3> QED BY <3>1, <3>2, CleanedType
  <2>3. h \in [0..(i + 1) -> Seq(T)]
    BY <2>2
  <2>4. h[i + 1] = x /\ \A k \in 0..i : h[k] = g[k]
    OBVIOUS
  <2>5. ASSUME NEW k \in 0..(i + 1) PROVE h[k] = At(h, k)
    <3>1. CASE k = i + 1
      <4>1. k # 0 /\ k - 1 = i /\ i \in 0..i
        BY <3>1
      <4>2. h[k - 1] = g[i] /\ h[k] = Cleaned(g[i], secrets[k])
        BY <2>4, <3>1, <4>1
      <4> HIDE DEF h, x
      <4> QED BY <4>1, <4>2
    <3>2. CASE k # i + 1
      <4>1. k \in 0..i /\ (k # 0 => k - 1 \in 0..i)
        BY <3>2
      <4>2. h[k] = g[k] /\ (k # 0 => h[k - 1] = g[k - 1])
        BY <2>4, <4>1
      <4>3. g[k] = At(g, k)
        BY <2>1, <4>1
      <4> HIDE DEF h, x
      <4> QED BY <4>2, <4>3
    <3> QED BY <3>1, <3>2
  <2>6. i + 1 \in 0..n
    BY <1>3
  <2>7. Upto(h, i + 1)
    <3> HIDE DEF h, At
    <3> QED BY <2>5
  <2> HIDE DEF Upto, h
  <2> QED BY <2>3, <2>6, <2>7
<1>4. S = 0..n
  <2> HIDE DEF S
  <2> S \in SUBSET (0..n)
    BY DEF S
  <2> QED BY <1>2, <1>3, NaturalsByInduction
<1>5. n \in S
  <2> HIDE DEF S
  <2> QED BY <1>4
<1>6. PICK g \in [0..n -> Seq(T)] : Upto(g, n)
  <2> HIDE DEF Upto
  <2> QED BY <1>5
<1>7. g = [k \in 0..n |-> At(g, k)]
  <2>1. \A k \in 0..n : g[k] = At(g, k)
    BY <1>6
  <2> HIDE DEF At
  <2> QED BY <2>1, Zenon
<1>8. Passes(g, text, secrets)
  BY <1>0, <1>7 DEF Passes
<1> QED BY <1>8 DEF Passed

(* Redact gives the value after the last secret.                            *)
LEMMA RedactIsTheLast ==
    ASSUME NEW T, Mark \in Seq(T), Mark # <<>>, NEW text \in Seq(T), NEW secrets \in Seq(Seq(T))
    PROVE  /\ Redact(text, secrets) = Passed(text, secrets)[Len(secrets)]
           /\ \A i \in 0..Len(secrets) :
                 Passed(text, secrets)[i] =
                    IF i = 0 THEN text ELSE Cleaned(Passed(text, secrets)[i - 1], secrets[i])
<1>1. Redact(text, secrets) = Passed(text, secrets)[Len(secrets)]
  BY DEF Redact, Passed, Passes, Cleaned
<1>2. PICK g : g = Passed(text, secrets) /\ Passes(g, text, secrets)
  BY PassesExist
<1>3. \A i \in 0..Len(secrets) : g[i] = IF i = 0 THEN text ELSE Cleaned(g[i - 1], secrets[i])
  BY <1>2 DEF Passes
<1> QED BY <1>1, <1>2, <1>3

(* Redact leaves in the text no secret that is apart from the mark.  The    *)
(* other secrets may be anything, parts of it or of the mark included: what *)
(* a pass has taken out no later one brings back (secret.go:73-82).         *)
THEOREM RedactTakesOutTheApart ==
    ASSUME NEW T, Mark \in Seq(T), Mark # <<>>, NEW text \in Seq(T), NEW secrets \in Seq(Seq(T))
    PROVE  /\ Redact(text, secrets) \in Seq(T)
           /\ \A k \in 1..Len(secrets) :
                 secrets[k] # <<>> /\ ApartFromMark(secrets[k]) => ~Quotes(Redact(text, secrets), secrets[k])
<1>0. PICK n \in Nat : n = Len(secrets)
  OBVIOUS
<1>1. PICK g : n = Len(secrets) /\ g = Passed(text, secrets)
  BY <1>0
<1>2. /\ Redact(text, secrets) = g[n]
      /\ \A i \in 0..n : g[i] = IF i = 0 THEN text ELSE Cleaned(g[i - 1], secrets[i])
  <2>1. /\ Redact(text, secrets) = Passed(text, secrets)[Len(secrets)]
        /\ \A i \in 0..Len(secrets) :
              Passed(text, secrets)[i] =
                 IF i = 0 THEN text ELSE Cleaned(Passed(text, secrets)[i - 1], secrets[i])
    BY RedactIsTheLast
  <2> QED BY ONLY <1>1, <2>1
<1>3. \A i \in 1..n : secrets[i] \in Seq(T)
  BY <1>1
<1> DEFINE Apart(k) == secrets[k] # <<>> /\ ApartFromMark(secrets[k])
           Hidden(i) == /\ g[i] \in Seq(T)
                        /\ \A k \in 1..i : Apart(k) => ~Quotes(g[i], secrets[k])
           S == {i \in 0..n : Hidden(i)}
<1>4. 0 \in S
  <2>1. 0 \in 0..n /\ g[0] = text
    BY <1>2
  <2> QED BY <2>1
<1>5. ASSUME NEW i \in 0..n, i \in S, i < n PROVE i + 1 \in S
  <2>1. g[i] \in Seq(T) /\ \A k \in 1..i : Apart(k) => ~Quotes(g[i], secrets[k])
    BY <1>5
  <2>2. i + 1 \in 0..n /\ i + 1 \in 1..n /\ i + 1 # 0 /\ (i + 1) - 1 = i
    BY <1>5
  <2>3. g[i + 1] = Cleaned(g[i], secrets[i + 1])
    BY <1>2, <2>2
  <2>4. secrets[i + 1] \in Seq(T)
    BY <1>3, <2>2
  <2>5. CASE secrets[i + 1] = <<>>
    <3>1. g[i + 1] = g[i]
      BY <2>3, <2>5 DEF Cleaned
    <3>2. \A k \in 1..(i + 1) : k \in 1..i \/ k = i + 1
      OBVIOUS
    <3> QED BY <2>1, <2>2, <2>5, <3>1, <3>2
  <2>6. CASE secrets[i + 1] # <<>>
    <3>1. g[i + 1] = Replaced(g[i], secrets[i + 1])
      BY <2>3, <2>6 DEF Cleaned
    <3>2. /\ g[i + 1] \in Seq(T) /\ (Apart(i + 1) => ~Quotes(g[i + 1], secrets[i + 1]))
          /\ \A w \in Seq(T) : w # <<>> /\ ApartFromMark(w) /\ Quotes(g[i + 1], w) => Quotes(g[i], w)
      <4>1. PICK old, key : old = g[i] /\ key = secrets[i + 1] /\ old \in Seq(T) /\ key \in Seq(T) /\ key # <<>>
        BY <2>1, <2>4, <2>6
      <4>2. /\ Replaced(old, key) \in Seq(T)
            /\ ApartFromMark(key) => ~Quotes(Replaced(old, key), key)
            /\ \A w \in Seq(T) : w # <<>> /\ ApartFromMark(w) /\ Quotes(Replaced(old, key), w) => Quotes(old, w)
        BY <4>1, ReplacedHides
      <4> QED BY <3>1, <4>1, <4>2
    <3>3. ASSUME NEW k \in 1..(i + 1), Apart(k) PROVE ~Quotes(g[i + 1], secrets[k])
      <4>1. CASE k = i + 1
        BY <3>2, <3>3, <4>1
      <4>2. CASE k # i + 1
        <5>1. k \in 1..i /\ k \in 1..n
          BY <2>2, <4>2
        <5> QED BY <1>3, <2>1, <3>2, <3>3, <5>1
      <4> QED BY <4>1, <4>2
    <3> QED BY <2>2, <3>2, <3>3
  <2> QED BY <2>5, <2>6
<1>6. S = 0..n
  <2> HIDE DEF S
  <2> S \in SUBSET (0..n)
    BY DEF S
  <2> QED BY <1>4, <1>5, NaturalsByInduction
<1>7. n \in S
  <2> HIDE DEF S
  <2> QED BY <1>6
<1> QED BY <1>1, <1>2, <1>7

-----------------------------------------------------------------------------
(* What a reply may quote.                                                  *)

(* The message of the upstream's error is a text.                           *)
LEMMA ErrorTextType ==
    ASSUME NEW body \in Replies
    PROVE  ReadUpstreamError(body) \in Seq(Symbols)
<1>1. /\ body.message \in Seq(Symbols) /\ body.nested \in Seq(Symbols) /\ body.detail \in Seq(Symbols)
  BY RepliesAssumption DEF Reply
<1> QED BY <1>1 DEF ReadUpstreamError

(* A text with the upstream's key and the keys of the clients taken out     *)
(* quotes none of them that is apart from the mark.                         *)
LEMMA ReplyIsClean ==
    ASSUME NEW held \in Seq(Client), \A k \in DOMAIN held : held[k].key # <<>>,
           NEW upstream \in Keys, NEW body \in Replies, NEW reply,
           reply = Redact(ReadUpstreamError(body), <<upstream>> \o Secrets(held))
    PROVE  \A key \in {upstream} \cup {held[k].key : k \in DOMAIN held} :
              key # <<>> /\ ApartFromMark(key) => ~Quotes(reply, key)
<1>0. PICK n \in Nat : n = Len(held)
  OBVIOUS
<1>1. PICK own : n = Len(held) /\ own = Secrets(held)
  BY <1>0
<1>2. \A k \in 1..n : held[k].key \in Keys
  <2> TAKE k \in 1..n
  <2>1. held[k] \in Client /\ held[k].key # <<>>
    BY <1>1
  <2>2. held[k].key \in Keys \cup {<<>>}
    BY <2>1 DEF Client
  <2> QED BY <2>1, <2>2
<1>3. own = [k \in 1..n |-> held[k].key]
  BY <1>1 DEF Secrets
<1>4. own \in [1..n -> Keys] /\ \A k \in 1..n : own[k] = held[k].key
  BY <1>2, <1>3
<1>5. own \in Seq(Keys) /\ Len(own) = n
  BY <1>4, FunctionIsSeq
<1>6. PICK secrets : secrets = <<upstream>> \o own
  OBVIOUS
<1>7. /\ secrets \in Seq(Keys) /\ Len(secrets) = n + 1 /\ secrets[1] = upstream
      /\ \A k \in 1..n : secrets[k + 1] = own[k]
  BY <1>5, <1>6
<1>8. \A key \in Keys : key \in Seq(Symbols)
  BY KeysAssumption
<1>9. secrets \in Seq(Seq(Symbols))
  BY <1>7, <1>8
<1>10. Mark \in Seq(Symbols) /\ Mark # <<>> /\ ReadUpstreamError(body) \in Seq(Symbols)
  BY MarkAssumption, ErrorTextType
<1>11. \A k \in 1..(n + 1) : secrets[k] # <<>> /\ ApartFromMark(secrets[k]) => ~Quotes(reply, secrets[k])
  BY <1>1, <1>6, <1>7, <1>9, <1>10, RedactTakesOutTheApart
<1>12. ASSUME NEW key \in {upstream} \cup {held[k].key : k \in DOMAIN held}
       PROVE  \E k \in 1..(n + 1) : key = secrets[k]
  <2>1. CASE key = upstream
    <3>1. 1 \in 1..(n + 1) /\ key = secrets[1]
      BY <1>7, <2>1
    <3> QED BY <3>1
  <2>2. CASE key # upstream
    <3>1. PICK k \in 1..n : key = held[k].key
      BY <1>1, <1>12, <2>2
    <3>2. k + 1 \in 1..(n + 1) /\ secrets[k + 1] = key
      BY <1>4, <1>7, <3>1
    <3> QED BY <3>2
  <2> QED BY <2>1, <2>2
<1> QED BY <1>11, <1>12

(* Before it serves, the process has answered nothing.                      *)
NoReplyYet == phase \in Loading \cup {"listening"} => \A r \in Requests : requests[r].reply = <<>>
ReplyInv == NoReplyYet /\ NoApartKeyInError

(* An empty reply quotes nothing.                                           *)
LEMMA NothingIsQuoted == \A key : ~Quotes(<<>>, key)
BY DEF Quotes

(* Nor do replies that have not been given.                                 *)
LEMMA UnansweredQuotesNothing ==
    ASSUME \A r \in Requests : requests[r].reply = <<>>
    PROVE  NoApartKeyInError
BY NothingIsQuoted DEF NoApartKeyInError

(* What happens to the keys and to the replies in a step.                   *)
LEMMA StepsByReply ==
    ASSUME ConfigInv, [Next]_vars
    PROVE  \/ UNCHANGED <<phase, upstreamKey, clients, requests>>
           \/ /\ phase \in Loading /\ phase' \in Loading \cup {"listening"} /\ UNCHANGED requests
           \/ /\ phase' \in {"serving", "exited"} /\ UNCHANGED <<upstreamKey, clients>>
              /\ \A r \in Requests : requests'[r].reply = requests[r].reply
           \/ \E r \in Requests : AnswerError(r)
           \/ \E name \in Names : RevokeClient(name)
<1>1. DOMAIN requests = Requests /\ \A r \in Requests : DOMAIN requests[r] = Fields
  BY DEF ConfigInv, FieldsInv
<1>2. ASSUME NEW status, Exit(status)
      PROVE  /\ phase' \in {"serving", "exited"} /\ UNCHANGED <<upstreamKey, clients>>
             /\ \A r \in Requests : requests'[r].reply = requests[r].reply
  <2>1. phase' = "exited" /\ UNCHANGED <<upstreamKey, clients>>
    BY <1>2 DEF Exit, configVars
  <2>2. ASSUME NEW r \in Requests PROVE requests'[r].reply = requests[r].reply
    <3>1. requests'[r] = requests[r] \/ requests'[r] = [requests[r] EXCEPT !.state = "cut"]
      BY <1>2 DEF Exit
    <3> QED BY <1>1, <3>1 DEF Fields
  <2> QED BY <2>1, <2>2
<1>3. ASSUME NEW r \in Requests, NEW t, Authenticate(r) \/ Arrive(r, t)
      PROVE  /\ phase' \in {"serving", "exited"} /\ UNCHANGED <<upstreamKey, clients>>
             /\ \A q \in Requests : requests'[q].reply = requests[q].reply
  <2>1. phase' \in {"serving", "exited"} /\ UNCHANGED <<upstreamKey, clients>>
    BY <1>3 DEF Authenticate, Arrive, Serves
  <2>2. ASSUME NEW q \in Requests PROVE requests'[q].reply = requests[q].reply
    <3>1. CASE Authenticate(r)
      BY <1>1, <3>1 DEF Authenticate, Fields
    <3>2. CASE Arrive(r, t)
      BY <1>1, <3>2 DEF Arrive, Fields
    <3> QED BY <1>3, <3>1, <3>2
  <2> QED BY <2>1, <2>2
<1>4. CASE Load \/ CommandAnswers
  <2>1. (\E from \in Loading, to \in Loading \cup {"listening"} : Loads(from, to)) \/ Exit(1)
    BY <1>4 DEF Load, CheckAddress, KeyFromEnvironment, KeyFromFile, StartCommand, CommandFails, LoadClients,
                AddClient, StoreLoaded, CommandAnswers, Chosen, Fatal, Loading
  <2>2. ASSUME NEW from \in Loading, NEW to \in Loading \cup {"listening"}, Loads(from, to)
        PROVE  phase \in Loading /\ phase' \in Loading \cup {"listening"} /\ UNCHANGED requests
    BY <2>2 DEF Loads, servingVars
  <2> QED BY <1>2, <2>1, <2>2
<1>5. CASE ShellEnds \/ KillCommand \/ OrphanEnds \/ Signal \/ Shutdown \/ Exited \/ UNCHANGED vars
  BY <1>5 DEF ShellEnds, KillCommand, OrphanEnds, Signal, Shutdown, Exited, Loads, vars, configVars, servingVars
<1>6. CASE Listen \/ BindFails \/ ServeReturns \/ AcceptFails
  <2>1. Exit(0) \/ Exit(1) \/ (phase' = "serving" /\ UNCHANGED <<upstreamKey, clients, requests>>)
    BY <1>6 DEF Listen, BindFails, ServeReturns, AcceptFails, configVars, servingVars
  <2> QED BY <1>2, <2>1
<1> QED BY <1>3, <1>4, <1>5, <1>6 DEF Next

(* No step makes a reply quote a key apart from the mark.                   *)
LEMMA ReplyKept ==
    ASSUME ConfigInv, Keyed, ReplyInv, [Next]_vars
    PROVE  ReplyInv'
<1>0. clients \in Seq(Client) /\ upstreamKey \in Keys \cup {<<>>}
  BY DEF ConfigInv, ProcessTypeOK
<1>1. CASE UNCHANGED <<phase, upstreamKey, clients, requests>>
  BY <1>1 DEF ReplyInv, NoReplyYet, NoApartKeyInError
<1>2. CASE phase \in Loading /\ phase' \in Loading \cup {"listening"} /\ UNCHANGED requests
  <2>1. \A r \in Requests : requests'[r].reply = <<>>
    BY <1>2 DEF ReplyInv, NoReplyYet
  <2> QED BY <2>1, NothingIsQuoted DEF ReplyInv, NoReplyYet, NoApartKeyInError
<1>3. CASE /\ phase' \in {"serving", "exited"} /\ UNCHANGED <<upstreamKey, clients>>
           /\ \A r \in Requests : requests'[r].reply = requests[r].reply
  <2>1. NoReplyYet'
    BY <1>3 DEF NoReplyYet, Loading
  <2>2. NoApartKeyInError'
    BY <1>3 DEF ReplyInv, NoApartKeyInError
  <2> QED BY <2>1, <2>2 DEF ReplyInv
<1>4. ASSUME NEW q \in Requests, AnswerError(q) PROVE ReplyInv'
  <2>1. phase = "serving" /\ phase' = "serving" /\ UNCHANGED <<upstreamKey, clients>>
    BY <1>4 DEF AnswerError, Serves
  <2>2. upstreamKey \in Keys
    BY <1>0, <2>1 DEF ConfigInv, ProcessInv, PhaseInv
  <2>0. PICK body \in Replies :
           requests' = [requests EXCEPT
               ![q].state = "answered",
               ![q].reply = Redact(ReadUpstreamError(body), <<upstreamKey>> \o Secrets(clients))]
    BY <1>4 DEF AnswerError
  <2>3. PICK reply :
           /\ reply = Redact(ReadUpstreamError(body), <<upstreamKey>> \o Secrets(clients))
           /\ requests' = [requests EXCEPT ![q].state = "answered", ![q].reply = reply]
    BY <2>0
  <2>4. \A key \in {upstreamKey} \cup {clients[k].key : k \in DOMAIN clients} :
           key # <<>> /\ ApartFromMark(key) => ~Quotes(reply, key)
    BY <1>0, <2>2, <2>3, ReplyIsClean DEF Keyed
  <2>5. \A r \in Requests : requests'[r].reply = IF r = q THEN reply ELSE requests[r].reply
    BY <2>3 DEF ConfigInv, FieldsInv, Fields
  <2>6. NoApartKeyInError'
    BY <2>1, <2>4, <2>5 DEF ReplyInv, NoApartKeyInError
  <2> QED BY <2>1, <2>6 DEF ReplyInv, NoReplyYet, Loading
<1>5. ASSUME NEW name \in Names, RevokeClient(name) PROVE ReplyInv'
  <2>1. /\ phase' = "serving" /\ UNCHANGED <<upstreamKey, requests>>
        /\ clients' = Revoke(clients, name)
    BY <1>5 DEF RevokeClient, Serves
  <2>2. \A k \in DOMAIN clients' : \E l \in DOMAIN clients : clients'[k] = clients[l]
    <3>1. \A k \in DOMAIN clients' : Contains(clients, clients'[k])
      BY <1>0, <2>1, RevokeTakesOutTheName
    <3> QED BY <1>0, <3>1 DEF Contains
  <2>3. {clients[k].key : k \in DOMAIN clients}' \subseteq {clients[k].key : k \in DOMAIN clients}
    BY <2>2
  <2>4. NoApartKeyInError'
    BY <2>1, <2>3 DEF ReplyInv, NoApartKeyInError
  <2> QED BY <2>1, <2>4 DEF ReplyInv, NoReplyYet, Loading
<1> QED BY <1>1, <1>2, <1>3, <1>4, <1>5, StepsByReply

(* No error that the upstream words quotes its key, or a key that a client  *)
(* still holds, which is apart from the mark (secret.go:73-82,              *)
(* server.go:231-236).                                                      *)
THEOREM ErrorsQuoteNoApartKey == Spec => []NoApartKeyInError
<1>1. Init => Keyed /\ ReplyInv
  <2>1. ASSUME Init PROVE \A r \in Requests : requests[r].reply = <<>>
    BY <2>1 DEF Init, Idle
  <2>2. ASSUME Init PROVE Keyed
    BY <2>2 DEF Init, Keyed
  <2> QED BY <2>1, <2>2, UnansweredQuotesNothing DEF ReplyInv, NoReplyYet
<1>2. ReplyInv => NoApartKeyInError
  BY DEF ReplyInv
<1> QED BY ConfigInvariant, KeyedKept, ReplyKept, <1>1, <1>2, PTL DEF Spec
=============================================================================
