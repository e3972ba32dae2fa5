------------------------------ MODULE Process ------------------------------
(***************************************************************************)
(* The life of the Proxy's process: main of                                *)
(* cmd/commandcode-bridge/main.go with runtime.Load and secret.Load, from  *)
(* the settings it is started with to its exit, and the requests it        *)
(* accepts meanwhile.  A request is reduced to what the process and its    *)
(* key store do to it: it arrives, is authenticated, and is answered with  *)
(* an error the upstream worded (the one answer that quotes texts of       *)
(* others), unless the process ends first.                                 *)
(*                                                                         *)
(* SIGINT or SIGTERM may come at any time.  NotifyContext keeps the second *)
(* one from the default handler too, so it changes nothing and there is    *)
(* only one here.                                                          *)
(***************************************************************************)
EXTENDS KeyStore

CONSTANTS
    Settings,   \* what the process may find in its environment
    Requests,   \* requests that may arrive
    Replies     \* bodies of the upstream's errors

(* A file is not named, or named and missing, open to others, or the        *)
(* owner's only.  directory: the working directory is set or can be found.  *)
FileStates == {"unnamed", "missing", "shared", "owner-only"}
Named(file) == file.state # "unnamed"
ReadOwnerOnlyFile(file) == file.state = "owner-only"
Setting == [address : {"loopback", "other", "malformed"}, allowExternal : BOOLEAN, directory : BOOLEAN,
            keyEnv : Keys \cup {<<>>},
            keyFile : [state : FileStates, value : Keys \cup {<<>>}],
            keyCommand : BOOLEAN,
            clientEnv : Seq(Item),
            clientFile : [state : FileStates, items : Seq(Item)]]
ASSUME SettingsAssumption == Settings \subseteq Setting

(* What is not JSON has none of the three texts; then the Proxy has a fixed *)
(* wording, <<>> here.                                                      *)
Reply == [{"message", "nested", "detail"} -> Seq(Symbols)]
ASSUME RepliesAssumption == Replies \subseteq Reply
ReadUpstreamError(body) ==
    IF body.message # <<>> THEN body.message
    ELSE IF body.nested # <<>> THEN body.nested ELSE body.detail

VARIABLES
    setting,
    phase,         \* what main is doing
    signalled,     \* ctx is done
    command,       \* the secret command and its shell: "none", "running", "detached",
                   \* "killed" or "orphaned"
    upstreamKey, todo, clients,
    listener,      \* "unbound", "bound" or "failed"
    shuttingDown,  \* Shutdown has been called
    exitStatus,    \* -1 before the exit
    requests, revoked

configVars == <<upstreamKey, todo, clients>>
servingVars == <<requests, revoked>>
vars == <<setting, phase, signalled, command, configVars, listener, shuttingDown, exitStatus, servingVars>>

Loading == {"address", "environment", "file", "command", "clients", "adding"}
Idle == [state |-> "idle", token |-> <<>>, client |-> NoName, after |-> {}, reply |-> <<>>]

Init ==
    /\ setting \in Settings
    /\ phase = "address" /\ signalled = FALSE /\ command = "none"
    /\ upstreamKey = <<>> /\ todo = <<>> /\ clients = <<>>
    /\ listener = "unbound" /\ shuttingDown = FALSE /\ exitStatus = -1
    /\ requests = [r \in Requests |-> Idle] /\ revoked = {}

-----------------------------------------------------------------------------
(* The end: a return of main or log.Fatal, which cut what runs.             *)

Pending(r) == requests[r].state \in {"arrived", "working"}

Exit(status) ==
    /\ phase' = "exited" /\ exitStatus' = status
    /\ requests' = [r \in Requests |-> IF Pending(r) THEN [requests[r] EXCEPT !.state = "cut"]
                                       ELSE requests[r]]
    /\ UNCHANGED <<setting, signalled, configVars, shuttingDown, revoked>>
Fatal == Exit(1) /\ command' = "none" /\ UNCHANGED listener

Signal ==
    /\ phase # "exited" /\ ~signalled
    /\ signalled' = TRUE
    /\ UNCHANGED <<setting, phase, command, configVars, listener, shuttingDown, exitStatus, servingVars>>

-----------------------------------------------------------------------------
(* runtime.Load.  Only the secret command looks at ctx.                     *)

Loads(from, to) ==
    /\ phase = from /\ phase' = to
    /\ UNCHANGED <<setting, signalled, listener, shuttingDown, exitStatus, servingVars>>

Listens == setting.address = "loopback" \/ (setting.address = "other" /\ setting.allowExternal)
CheckAddress ==
    \/ /\ setting.directory /\ Listens
       /\ Loads("address", "environment") /\ UNCHANGED <<command, configVars>>
    \/ phase = "address" /\ ~(setting.directory /\ Listens) /\ Fatal

(* secret.Load: the first source that has a value; one that is blank is     *)
(* passed over, one that fails is not.                                      *)
Chosen(from, key) ==
    /\ key # <<>> /\ upstreamKey' = key
    /\ Loads(from, "clients") /\ UNCHANGED <<todo, clients>>

KeyFromEnvironment ==
    \/ Chosen("environment", setting.keyEnv) /\ UNCHANGED command
    \/ setting.keyEnv = <<>> /\ Loads("environment", "file") /\ UNCHANGED <<command, configVars>>

BugFileErrorPassedOver ==
    LET file == setting.keyFile
    IN  \/ ReadOwnerOnlyFile(file) /\ Chosen("file", file.value) /\ UNCHANGED command
        \/ /\ ~ReadOwnerOnlyFile(file) \/ file.value = <<>>
           /\ Loads("file", "command") /\ UNCHANGED <<command, configVars>>
KeyFromFile ==
    LET file == setting.keyFile
    IN  \/ ReadOwnerOnlyFile(file) /\ Chosen("file", file.value) /\ UNCHANGED command
        \/ /\ ~Named(file) \/ (ReadOwnerOnlyFile(file) /\ file.value = <<>>)
           /\ Loads("file", "command") /\ UNCHANGED <<command, configVars>>
        \/ phase = "file" /\ Named(file) /\ ~ReadOwnerOnlyFile(file) /\ Fatal

(* A command is not started once ctx is done.                               *)
StartCommand ==
    \/ /\ setting.keyCommand /\ ~signalled /\ command = "none" /\ command' = "running"
       /\ Loads("command", "command") /\ UNCHANGED configVars
    \/ phase = "command" /\ command = "none" /\ (~setting.keyCommand \/ signalled) /\ Fatal

(* Run returns when the shell has ended and its output is closed, which a   *)
(* child of the shell may hold open: then the command is detached.          *)
ShellEnds ==
    /\ command = "running" /\ command' = "detached"
    /\ Loads("command", "command") /\ UNCHANGED configVars
CommandAnswers ==
    /\ command \in {"running", "detached"}
    /\ \/ \E key \in Keys : Chosen("command", key) /\ command' = "none"
       \/ phase = "command" /\ Fatal

(* What is killed is the shell, and not a child of it.                      *)
BugNotKilled == FALSE
KillCommand ==
    /\ command = "running" /\ signalled
    /\ command' \in {"killed", "orphaned"}
    /\ Loads("command", "command") /\ UNCHANGED configVars
OrphanEnds ==
    /\ command = "orphaned" /\ command' = "killed"
    /\ Loads("command", "command") /\ UNCHANGED configVars
CommandFails == command = "killed" /\ Fatal

(* auth.LoadStore, and NewStore one Add a step.                             *)
ClientItems == setting.clientEnv \o (IF Named(setting.clientFile) THEN setting.clientFile.items ELSE <<>>)
ClientsReadable == Parses(ClientItems) /\ (Named(setting.clientFile) => ReadOwnerOnlyFile(setting.clientFile))
LoadClients ==
    \/ /\ ClientsReadable /\ todo' = ClientsIn(ClientItems)
       /\ Loads("clients", "adding") /\ UNCHANGED <<command, upstreamKey, clients>>
    \/ phase = "clients" /\ ~ClientsReadable /\ Fatal

AddClient ==
    /\ todo # <<>>
    /\ \/ /\ CanAdd(clients, Head(todo)) /\ Loads("adding", "adding")
          /\ clients' = Append(clients, Head(todo)) /\ todo' = Tail(todo)
          /\ UNCHANGED <<command, upstreamKey>>
       \/ phase = "adding" /\ ~CanAdd(clients, Head(todo)) /\ Fatal

StoreLoaded ==
    /\ todo = <<>>
    /\ \/ clients # <<>> /\ Loads("adding", "listening") /\ UNCHANGED <<command, configVars>>
       \/ phase = "adding" /\ clients = <<>> /\ Fatal

Load == \/ CheckAddress \/ KeyFromEnvironment \/ KeyFromFile \/ StartCommand
        \/ CommandFails \/ LoadClients \/ AddClient \/ StoreLoaded

-----------------------------------------------------------------------------
(* ListenAndServe and the goroutine that waits for the signal.              *)

Listen ==
    /\ phase = "listening"
    /\ \/ /\ ~shuttingDown /\ phase' = "serving" /\ listener' = "bound"
          /\ UNCHANGED <<setting, signalled, command, configVars, shuttingDown, exitStatus, servingVars>>
       \/ shuttingDown /\ Exit(0) /\ UNCHANGED <<command, listener>>
BindFails == phase = "listening" /\ Exit(1) /\ listener' = "failed" /\ UNCHANGED command

(* Shutdown closes the listener and then waits for the requests; main does  *)
(* not wait for Shutdown.                                                   *)
Shutdown ==
    /\ signalled /\ ~shuttingDown /\ phase \in {"listening", "serving"}
    /\ shuttingDown' = TRUE
    /\ UNCHANGED <<setting, phase, signalled, command, configVars, listener, exitStatus, servingVars>>

BugServerClosedIsFatal == phase = "serving" /\ shuttingDown /\ Exit(1) /\ UNCHANGED <<command, listener>>
ServeReturns == phase = "serving" /\ shuttingDown /\ Exit(0) /\ UNCHANGED <<command, listener>>
AcceptFails ==
    /\ phase = "serving" /\ ~shuttingDown
    /\ Exit(1) /\ listener' = "failed" /\ UNCHANGED command

-----------------------------------------------------------------------------
(* While it serves.                                                         *)

Serves == /\ phase = "serving"
          /\ UNCHANGED <<setting, phase, signalled, command, upstreamKey, todo, listener,
                         shuttingDown, exitStatus>>

(* Also while Shutdown waits: a connection accepted before it may bring a   *)
(* request.  token <<>>: no Authorization header of the form "Bearer        *)
(* <token>".                                                                *)
Arrive(r, token) ==
    /\ requests[r].state = "idle" /\ Serves
    /\ requests' = [requests EXCEPT ![r].state = "arrived", ![r].token = token]
    /\ UNCHANGED <<clients, revoked>>

Authenticate(r) ==
    /\ requests[r].state = "arrived" /\ Serves
    /\ LET token == requests[r].token
           known == token # <<>> /\ IsHeld(clients, token)
       IN  requests' = [requests EXCEPT ![r].state = IF known THEN "working" ELSE "refused",
                                        ![r].client = IF known THEN Lookup(clients, token).name ELSE NoName,
                                        ![r].after = revoked]
    /\ UNCHANGED <<clients, revoked>>

(* The message of the upstream's error, with the upstream key and the keys  *)
(* of the clients taken out in this order.                                  *)
AnswerError(r) ==
    /\ requests[r].state = "working" /\ Serves
    /\ \E body \in Replies :
          requests' = [requests EXCEPT
              ![r].state = "answered",
              ![r].reply = Redact(ReadUpstreamError(body), <<upstreamKey>> \o Secrets(clients))]
    /\ UNCHANGED <<clients, revoked>>

(* The store offers it to the program it is part of; no handler calls it.   *)
RevokeClient(name) ==
    /\ name \in NamesOf(clients) /\ Serves
    /\ clients' = Revoke(clients, name)
    /\ revoked' = revoked \cup {name}
    /\ UNCHANGED requests

Exited == phase = "exited" /\ UNCHANGED vars

Next ==
    \/ Signal \/ Load \/ ShellEnds \/ CommandAnswers \/ KillCommand \/ OrphanEnds
    \/ Listen \/ BindFails \/ Shutdown \/ ServeReturns \/ AcceptFails \/ Exited
    \/ \E r \in Requests : Authenticate(r) \/ AnswerError(r) \/ \E t \in Keys \cup {<<>>} : Arrive(r, t)
    \/ \E name \in Names : RevokeClient(name)

(* main and its goroutine run when they can, and a kill kills.  Neither the *)
(* command nor what it leaves behind has to end, nor has the upstream to    *)
(* answer.                                                                  *)
Spec == Init /\ [][Next]_vars
FairSpec == /\ Spec /\ WF_vars(Load) /\ WF_vars(KillCommand)
            /\ WF_vars(Listen) /\ WF_vars(Shutdown) /\ WF_vars(ServeReturns)

-----------------------------------------------------------------------------
(* Types; the command runs only while the key is being looked for, and no   *)
(* two clients have one name.                                               *)
ProcessTypeOK ==
    /\ setting \in Settings /\ signalled \in BOOLEAN /\ shuttingDown \in BOOLEAN
    /\ phase \in Loading \cup {"listening", "serving", "exited"}
    /\ command \in {"none", "running", "detached", "killed", "orphaned"} /\ (command # "none" => phase = "command")
    /\ upstreamKey \in Keys \cup {<<>>} /\ todo \in Seq(Client) /\ clients \in Seq(Client)
    /\ \A i, j \in DOMAIN clients : clients[i].name = clients[j].name => i = j
    /\ listener \in {"unbound", "bound", "failed"} /\ exitStatus \in {-1, 0, 1}
    /\ revoked \subseteq Names
    /\ \A r \in Requests : requests[r].state \in {"idle", "arrived", "refused", "working", "answered", "cut"}

Given == ClientsIn(ClientItems)

(* The process serves only with a configuration that docs/auth.md:12-26 and *)
(* docs/proxy.md:36-37 allow: a loopback address or leave for another; the  *)
(* key of the first non-empty source, all sources before it having been     *)
(* readable; at least one client; and every client it was given, none       *)
(* silently dropped and none added, but for those revoked since.            *)
ServesOnlyAsConfigured ==
    phase = "serving" =>
        /\ setting.address = "loopback" \/ (setting.address = "other" /\ setting.allowExternal)
        /\ Parses(ClientItems) /\ setting.clientFile.state \in {"unnamed", "owner-only"}
        /\ setting.keyEnv # <<>> => upstreamKey = setting.keyEnv
        /\ setting.keyEnv = <<>> =>
              /\ setting.keyFile.state \in {"unnamed", "owner-only"}
              /\ IF setting.keyFile.state = "owner-only" /\ setting.keyFile.value # <<>>
                 THEN upstreamKey = setting.keyFile.value ELSE setting.keyCommand
        /\ upstreamKey # <<>> /\ Given # <<>>
        /\ \A k \in DOMAIN Given : Given[k].name \in NamesOf(clients) \cup revoked
        /\ \A k \in DOMAIN clients : Contains(Given, clients[k]) /\ clients[k].name \notin revoked

(* Clients are "independently revocable" (docs/auth.md:5-6): a request that *)
(* is authenticated after a revocation never passes for the revoked client, *)
(* and none is refused whose key an unrevoked client holds, even a key that *)
(* two names share (auth.go:66); a request already authenticated goes on.   *)
RevokedIsLockedOut ==
    \A r \in Requests :
        LET holders == {k \in DOMAIN Given : /\ Given[k].key = requests[r].token
                                             /\ Given[k].name \notin requests[r].after}
        IN  /\ requests[r].client # NoName =>
                  \E k \in holders : Given[k].name = requests[r].client
            /\ requests[r].state = "refused" => holders = {}

(* An error that the upstream words quotes no key that is held ("never      *)
(* returned in API responses", docs/auth.md:7-8), whatever it says, though  *)
(* keys are taken out one after the other, one may be part of another, and  *)
(* later ones are looked for in the marks too (secret.go:72-81).  It is so  *)
(* for keys apart from the mark: another one, "red" say, may stand in a     *)
(* mark that took the place of some key.                                    *)
NoApartKeyInError ==
    \A r \in Requests : \A key \in {upstreamKey} \cup {clients[k].key : k \in DOMAIN clients} :
        key # <<>> /\ ApartFromMark(key) => ~Quotes(requests[r].reply, key)

(* Status 0 says that the process was told to stop and could be told: every *)
(* failure to start, to bind or to accept is status 1, also when a signal   *)
(* came before it.  Requests are cut by the exit and by nothing else, and   *)
(* the exit leaves none pending (main.go:35-58).                            *)
ExitIsHonest ==
    /\ phase = "exited" => /\ exitStatus = 0 <=> shuttingDown /\ listener # "failed"
                           /\ exitStatus = 0 => signalled /\ upstreamKey # <<>> /\ todo = <<>>
                           /\ \A r \in Requests : ~Pending(r)
    /\ phase # "exited" => exitStatus = -1 /\ \A r \in Requests : requests[r].state # "cut"

(* A signal ends the process wherever it is and whatever its requests do,   *)
(* unless a child of the secret command holds the command's output open     *)
(* (secret.go:58-65): then it waits for that child, and further signals do  *)
(* not help.                                                                *)
SignalEndsProcess == signalled ~> phase = "exited" \/ command \in {"detached", "orphaned"}

(* docs/proxy.md:38: "Client Bearer and upstream Bearer are never the same  *)
(* secret."                                                                 *)
KeysAreTwoAuthorities ==
    phase = "serving" => \A k \in DOMAIN clients : clients[k].key # upstreamKey
=============================================================================
