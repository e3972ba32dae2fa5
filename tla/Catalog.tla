------------------------------ MODULE Catalog ------------------------------
(***************************************************************************)
(* The model catalog, internal/catalog/catalog.go, with the goroutines     *)
(* that refresh it and the handlers of GET /readyz and GET /v1/models      *)
(* (internal/openai/server.go) that read it.                               *)
(*                                                                         *)
(* A list of models is the set of its members.  {} stands for the nil      *)
(* slice.  The RWMutex is the variable holder: a writer keeps it for two   *)
(* steps, a reader's critical section is one step.                         *)
(***************************************************************************)
EXTENDS Integers, FiniteSets

CONSTANTS
    Models,          \* models that have an id
    NoId,            \* a list item that is no object or has no id
    Static,          \* the embedded list
    Unreachable,     \* no reply, a status other than 2xx, or a body that is no JSON
    Replies,         \* what the upstream may answer: sets of items, or Unreachable
    Refreshers,      \* goroutines that call Refresh
    Clients,         \* clients of /readyz and /v1/models, one request at a time each
    NoOne,           \* nobody holds the mutex
    HasUpstreamKey,  \* cfg.UpstreamKey is not empty
    MaxRefreshes     \* bound on the calls of Refresh

ASSUME ModelsAssumption == NoId \notin Models
ASSUME StaticAssumption == Static \subseteq Models /\ Static # {}
ASSUME UnreachableAssumption == \A S \in SUBSET (Models \cup {NoId}) : Unreachable # S
ASSUME RepliesAssumption ==
    \A answer \in Replies : answer = Unreachable \/ answer \in SUBSET (Models \cup {NoId})
ASSUME NoOneAssumption == NoOne \notin Refreshers
ASSUME HasUpstreamKeyAssumption == HasUpstreamKey \in BOOLEAN
ASSUME MaxRefreshesAssumption == MaxRefreshes \in Nat

Sources == {"live", "last-known-good", "static-fallback"}

VARIABLES
    live, lkg, source,  \* the fields of the Catalog; static never changes
    holder,             \* who has the write lock
    refresh,            \* where each refresher is
    fetched,            \* what its fetchLive returned, {} for an error
    client,             \* where the handler of each client's request is
    snap,               \* the Snapshot that handler has taken, and when
    reply,              \* the last reply each client got
    started, commits    \* history: calls of Refresh begun and finished

catalogVars == <<live, lkg, source>>
refreshVars == <<holder, refresh, fetched, started, commits>>
clientVars == <<client, snap, reply>>
vars == <<catalogVars, refreshVars, clientVars>>

NoSnap == [models |-> {}, source |-> "static-fallback", at |-> 0]
NoReply == [kind |-> "none", status |-> "", source |-> "static-fallback", models |-> {}, from |-> 0, to |-> 0]

Init ==
    /\ live = {} /\ lkg = {} /\ source = "static-fallback"
    /\ holder = NoOne
    /\ refresh = [r \in Refreshers |-> "idle"]
    /\ fetched = [r \in Refreshers |-> {}]
    /\ client = [c \in Clients |-> "idle"]
    /\ snap = [c \in Clients |-> NoSnap]
    /\ reply = [c \in Clients |-> NoReply]
    /\ started = 0 /\ commits = 0

-----------------------------------------------------------------------------
(* Snapshot and ReadyState, each one critical section.                      *)

SnapshotSource == CASE live # {} -> "live"
                    [] live = {} /\ lkg # {} -> "last-known-good"
                    [] OTHER -> "static-fallback"

BugLkgForgotten == IF live # {} THEN live ELSE Static
SnapshotModels == CASE live # {} -> live
                    [] live = {} /\ lkg # {} -> lkg
                    [] OTHER -> Static

BugAnyFetchedListIsOk == IF SnapshotSource = "static-fallback" THEN "degraded" ELSE "ok"
ReadyState == IF SnapshotSource = "live" THEN "ok" ELSE "degraded"

(* fetchLive and parseLive: items without an id are skipped, and a list     *)
(* without any model left is a failure like every other.                    *)
ParseLive(answer) == IF answer = Unreachable THEN {} ELSE answer \ {NoId}

-----------------------------------------------------------------------------
(* Refresh                                                                  *)

(* The request to the upstream is made before the lock is taken.            *)
BugLockBeforeFetch(r) ==
    /\ refresh[r] = "idle" /\ started < MaxRefreshes
    /\ holder = NoOne
    /\ holder' = r
    /\ started' = started + 1
    /\ refresh' = [refresh EXCEPT ![r] = "fetching"]
    /\ UNCHANGED <<catalogVars, fetched, commits, clientVars>>
StartRefresh(r) ==
    /\ refresh[r] = "idle" /\ started < MaxRefreshes
    /\ started' = started + 1
    /\ refresh' = [refresh EXCEPT ![r] = "fetching"]
    /\ UNCHANGED <<catalogVars, holder, fetched, commits, clientVars>>

FetchReturns(r) ==
    /\ refresh[r] = "fetching"
    /\ \E answer \in Replies : fetched' = [fetched EXCEPT ![r] = ParseLive(answer)]
    /\ refresh' = [refresh EXCEPT ![r] = "fetched"]
    /\ UNCHANGED <<catalogVars, holder, started, commits, clientVars>>

BugNoMutualExclusion(r) ==
    /\ refresh[r] = "fetched"
    /\ holder' = r
    /\ refresh' = [refresh EXCEPT ![r] = "locked"]
    /\ UNCHANGED <<catalogVars, fetched, started, commits, clientVars>>
Lock(r) ==
    /\ refresh[r] = "fetched" /\ holder = NoOne
    /\ holder' = r
    /\ refresh' = [refresh EXCEPT ![r] = "locked"]
    /\ UNCHANGED <<catalogVars, fetched, started, commits, clientVars>>

Unlock(r) ==
    /\ holder' = NoOne
    /\ refresh' = [refresh EXCEPT ![r] = "idle"]
    /\ fetched' = [fetched EXCEPT ![r] = {}]
    /\ commits' = commits + 1
    /\ UNCHANGED <<started, clientVars>>

(* The fetch failed: a live list becomes the last known good one.           *)
BugLkgOverwrittenByNil(r) ==
    /\ refresh[r] = "locked" /\ fetched[r] = {}
    /\ lkg' = live
    /\ live' = {}
    /\ source' = IF lkg' # {} THEN "last-known-good" ELSE "static-fallback"
    /\ Unlock(r)
BugStaleSource(r) ==
    /\ refresh[r] = "locked" /\ fetched[r] = {}
    /\ lkg' = IF live # {} THEN live ELSE lkg
    /\ live' = {}
    /\ UNCHANGED source
    /\ Unlock(r)
CommitFailure(r) ==
    /\ refresh[r] = "locked" /\ fetched[r] = {}
    /\ IF live # {}
       THEN lkg' = live /\ live' = {} /\ source' = "last-known-good"
       ELSE /\ UNCHANGED <<live, lkg>>
            /\ source' = IF lkg = {} THEN "static-fallback" ELSE source
    /\ Unlock(r)

CommitSuccess(r) ==
    /\ refresh[r] = "locked" /\ fetched[r] # {}
    /\ live' = fetched[r] /\ lkg' = fetched[r] /\ source' = "live"
    /\ Unlock(r)

-----------------------------------------------------------------------------
(* The handlers                                                             *)

Ask(c) ==
    /\ client[c] = "idle"
    /\ \E kind \in {"models", "readyz"} : client' = [client EXCEPT ![c] = kind]
    /\ UNCHANGED <<catalogVars, refreshVars, snap, reply>>

(* handleModels: one Snapshot.                                              *)
HandleModels(c) ==
    /\ client[c] = "models" /\ holder = NoOne
    /\ reply' = [reply EXCEPT ![c] =
          [kind |-> "models", status |-> "", source |-> SnapshotSource, models |-> SnapshotModels,
           from |-> commits, to |-> commits]]
    /\ client' = [client EXCEPT ![c] = "idle"]
    /\ UNCHANGED <<catalogVars, refreshVars, snap>>

(* handleReadyz calls Snapshot and then ReadyState, which takes the lock    *)
(* again.                                                                   *)
ReadyzSnapshot(c) ==
    /\ client[c] = "readyz" /\ holder = NoOne
    /\ snap' = [snap EXCEPT ![c] =
                   [models |-> SnapshotModels, source |-> SnapshotSource, at |-> commits]]
    /\ client' = [client EXCEPT ![c] = "readyz_state"]
    /\ UNCHANGED <<catalogVars, refreshVars, reply>>

ReadyzState(c) ==
    /\ client[c] = "readyz_state" /\ holder = NoOne
    /\ reply' = [reply EXCEPT ![c] =
          [kind |-> "readyz",
           status |-> IF HasUpstreamKey THEN ReadyState ELSE "not_ready",
           source |-> snap[c].source, models |-> {}, from |-> snap[c].at, to |-> commits]]
    /\ snap' = [snap EXCEPT ![c] = NoSnap]
    /\ client' = [client EXCEPT ![c] = "idle"]
    /\ UNCHANGED <<catalogVars, refreshVars>>

(* GET /healthz answers without a look at the catalog.                      *)
Healthz == UNCHANGED vars

Next ==
    \/ \E r \in Refreshers :
          \/ StartRefresh(r) \/ FetchReturns(r) \/ Lock(r)
          \/ CommitFailure(r) \/ CommitSuccess(r)
    \/ \E c \in Clients :
          Ask(c) \/ HandleModels(c) \/ ReadyzSnapshot(c) \/ ReadyzState(c)
    \/ Healthz

(* A goroutine that holds or waits for the mutex is scheduled, and so is a  *)
(* handler.  Nothing makes the upstream answer: the fetch has no timeout.   *)
Fairness ==
    /\ \A r \in Refreshers : WF_vars(Lock(r)) /\ WF_vars(CommitFailure(r) \/ CommitSuccess(r))
    /\ \A c \in Clients : WF_vars(HandleModels(c) \/ ReadyzSnapshot(c) \/ ReadyzState(c))

Spec == Init /\ [][Next]_vars
FairSpec == Spec /\ Fairness

-----------------------------------------------------------------------------
(* Every variable stays within its type, and only the refresher that is     *)
(* between Lock and Unlock holds the mutex.                                 *)
TypeOK ==
    /\ live \in SUBSET Models /\ lkg \in SUBSET Models /\ source \in Sources
    /\ holder \in Refreshers \cup {NoOne}
    /\ refresh \in [Refreshers -> {"idle", "fetching", "fetched", "locked"}]
    /\ \A r \in Refreshers : refresh[r] = "locked" <=> holder = r
    /\ fetched \in [Refreshers -> SUBSET Models]
    /\ client \in [Clients -> {"idle", "models", "readyz", "readyz_state"}]
    /\ snap \in [Clients -> [models : SUBSET Models, source : Sources, at : Nat]]
    /\ reply \in [Clients -> [kind : {"none", "models", "readyz"},
                              status : {"", "ok", "degraded", "not_ready"},
                              source : Sources, models : SUBSET Models, from : Nat, to : Nat]]
    /\ started \in Nat /\ commits \in Nat

(* The source field, which Refresh maintains case by case, always names the *)
(* list Snapshot would serve; the live list is always its own fallback.     *)
SourceNamesServedList ==
    /\ source = SnapshotSource
    /\ live # {} => lkg = live

(* A client that was once served from a fetched list is never again served  *)
(* the static one, whatever fetches fail, finish or cross in between.       *)
NoClientFallsBackToStatic ==
    [][\A c \in Clients : reply[c].source # "static-fallback" =>
                              reply'[c].source # "static-fallback"]_vars

(* /readyz says "ok" exactly when it also names the live catalog, provided  *)
(* no Refresh committed between its two reads of the catalog.               *)
ReadyzCoherentWhenQuiet ==
    \A c \in Clients :
        reply[c].kind = "readyz" /\ reply[c].from = reply[c].to /\ HasUpstreamKey =>
            (reply[c].status = "ok" <=> reply[c].source = "live")

(* docs/proxy.md:46: "`/readyz` is `degraded` on fallback": a reply that    *)
(* names a fallback catalog says degraded.                                  *)
ReadyzDegradedOnFallback ==
    \A c \in Clients : reply[c].kind = "readyz" /\ reply[c].source # "live" => reply[c].status # "ok"

(* Every request for the catalog is answered, also while a fetch hangs:     *)
(* nobody waits for the upstream with the mutex held.                       *)
RequestsAnswered == \A c \in Clients : client[c] # "idle" ~> client[c] = "idle"

(* The catalog keeps the promise of CatalogSpec.                            *)
Promise == INSTANCE CatalogSpec WITH
    served <- SnapshotModels, fresh <- (live # {}), seen <- (lkg # {})
PromiseSpec == Promise!Spec
=============================================================================
