--------------------------- MODULE CatalogProofs ---------------------------
(***************************************************************************)
(* Proofs about Catalog for any number of refreshers, clients and calls.   *)
(***************************************************************************)
EXTENDS Catalog, TLAPS

(* A parsed reply is a set of models.                                       *)
LEMMA ParseLiveType ==
    ASSUME NEW answer \in Replies
    PROVE  ParseLive(answer) \in SUBSET Models
BY RepliesAssumption DEF ParseLive

(* The initial state is well typed.                                         *)
LEMMA TypeInit == Init => TypeOK
<1> SUFFICES ASSUME Init PROVE TypeOK
  OBVIOUS
<1> USE DEF Init
<1>1. live \in SUBSET Models /\ lkg \in SUBSET Models /\ source \in Sources
  BY DEF Sources
<1>2. /\ holder \in Refreshers \cup {NoOne}
      /\ refresh \in [Refreshers -> {"idle", "fetching", "fetched", "locked"}]
      /\ fetched \in [Refreshers -> SUBSET Models]
      /\ started \in Nat /\ commits \in Nat
  OBVIOUS
<1>3. \A r \in Refreshers : refresh[r] = "locked" <=> holder = r
  BY NoOneAssumption
<1>4. client \in [Clients -> {"idle", "models", "readyz", "readyz_state"}]
  OBVIOUS
<1>5. snap \in [Clients -> [models : SUBSET Models, source : Sources, at : Nat]]
  BY DEF NoSnap, Sources
<1>6. reply \in [Clients -> [kind : {"none", "models", "readyz"},
                            status : {"", "ok", "degraded", "not_ready"},
                            source : Sources, models : SUBSET Models, from : Nat, to : Nat]]
  BY DEF NoReply, Sources
<1> QED BY <1>1, <1>2, <1>3, <1>4, <1>5, <1>6 DEF TypeOK

(* A snapshot is a set of models and a source.                              *)
LEMMA SnapshotTypes ==
    ASSUME TypeOK
    PROVE  SnapshotSource \in Sources /\ SnapshotModels \in SUBSET Models
BY StaticAssumption DEF TypeOK, SnapshotSource, SnapshotModels, Sources

(* Unlock is the common end of both commits.                                *)
LEMMA UnlockType ==
    ASSUME TypeOK, NEW r \in Refreshers, refresh[r] = "locked", Unlock(r),
           live' \in SUBSET Models, lkg' \in SUBSET Models, source' \in Sources
    PROVE  TypeOK'
<1>1. holder = r
  BY DEF TypeOK
<1>2. \A q \in Refreshers : refresh'[q] = "locked" <=> holder' = q
  <2>1. /\ holder' = NoOne /\ refresh' = [refresh EXCEPT ![r] = "idle"]
        /\ refresh \in [Refreshers -> {"idle", "fetching", "fetched", "locked"}]
        /\ \A q \in Refreshers : refresh[q] = "locked" <=> holder = q
    BY DEF TypeOK, Unlock
  <2>2. \A q \in Refreshers : refresh'[q] # "locked"
    BY <1>1, <2>1
  <2> QED BY <2>1, <2>2, NoOneAssumption
<1>3. /\ holder' \in Refreshers \cup {NoOne}
      /\ refresh' \in [Refreshers -> {"idle", "fetching", "fetched", "locked"}]
      /\ fetched' \in [Refreshers -> SUBSET Models]
      /\ started' \in Nat /\ commits' \in Nat
  <2>1. /\ refresh \in [Refreshers -> {"idle", "fetching", "fetched", "locked"}]
        /\ fetched \in [Refreshers -> SUBSET Models]
        /\ started \in Nat /\ commits \in Nat
    BY DEF TypeOK
  <2>2. /\ holder' = NoOne
        /\ refresh' = [refresh EXCEPT ![r] = "idle"]
        /\ fetched' = [fetched EXCEPT ![r] = {}]
        /\ commits' = commits + 1 /\ started' = started
    BY DEF Unlock
  <2>3. started' \in Nat /\ commits' \in Nat
    BY <2>1, <2>2
  <2>4. fetched' \in [Refreshers -> SUBSET Models]
    BY <2>1, <2>2
  <2> QED BY <2>1, <2>2, <2>3, <2>4
<1>4. UNCHANGED <<client, snap, reply>>
  BY DEF Unlock, clientVars
<1> QED BY <1>2, <1>3, <1>4 DEF TypeOK

(* Every step keeps the types, and one refresher at most in the lock.       *)
LEMMA TypeStep == TypeOK /\ [Next]_vars => TypeOK'
<1> SUFFICES ASSUME TypeOK, [Next]_vars PROVE TypeOK'
  OBVIOUS
<1> USE DEF catalogVars, refreshVars, clientVars
<1>1. ASSUME NEW r \in Refreshers, StartRefresh(r) PROVE TypeOK'
  <2>1. started' \in Nat
    <3>1. started \in Nat /\ started' = started + 1
      BY <1>1 DEF TypeOK, StartRefresh
    <3> QED BY <3>1
  <2>2. /\ refresh' \in [Refreshers -> {"idle", "fetching", "fetched", "locked"}]
        /\ \A q \in Refreshers : refresh'[q] = "locked" <=> refresh[q] = "locked"
    BY <1>1 DEF TypeOK, StartRefresh
  <2>3. UNCHANGED <<catalogVars, holder, fetched, commits, clientVars>>
    BY <1>1 DEF StartRefresh
  <2> QED BY <2>1, <2>2, <2>3 DEF TypeOK
<1>2. ASSUME NEW r \in Refreshers, FetchReturns(r) PROVE TypeOK'
  BY <1>2, ParseLiveType DEF TypeOK, FetchReturns
<1>3. ASSUME NEW r \in Refreshers, Lock(r) PROVE TypeOK'
  BY <1>3, NoOneAssumption DEF TypeOK, Lock
<1>4. ASSUME NEW r \in Refreshers, CommitFailure(r) PROVE TypeOK'
  <2>1. live' \in SUBSET Models /\ lkg' \in SUBSET Models /\ source' \in Sources
    BY <1>4 DEF TypeOK, CommitFailure, Sources
  <2> QED BY <1>4, <2>1, UnlockType DEF CommitFailure
<1>5. ASSUME NEW r \in Refreshers, CommitSuccess(r) PROVE TypeOK'
  <2>1. live' \in SUBSET Models /\ lkg' \in SUBSET Models /\ source' \in Sources
    BY <1>5 DEF TypeOK, CommitSuccess, Sources
  <2> QED BY <1>5, <2>1, UnlockType DEF CommitSuccess
<1>6. ASSUME NEW c \in Clients, Ask(c) PROVE TypeOK'
  BY <1>6, ZenonT(40) DEF TypeOK, Ask
<1>7. ASSUME NEW c \in Clients, HandleModels(c) PROVE TypeOK'
  BY <1>7, SnapshotTypes DEF TypeOK, HandleModels
<1>8. ASSUME NEW c \in Clients, ReadyzSnapshot(c) PROVE TypeOK'
  BY <1>8, SnapshotTypes DEF TypeOK, ReadyzSnapshot
<1>9. ASSUME NEW c \in Clients, ReadyzState(c) PROVE TypeOK'
  BY <1>9 DEF TypeOK, ReadyzState, ReadyState, NoSnap, Sources
<1>10. CASE UNCHANGED vars
  BY <1>10 DEF TypeOK, vars
<1> QED BY <1>1, <1>2, <1>3, <1>4, <1>5, <1>6, <1>7, <1>8, <1>9, <1>10 DEF Next, Healthz

(* Type correctness, and mutual exclusion of the refreshers.                *)
THEOREM CatalogTypeCorrect == Spec => []TypeOK
BY TypeInit, TypeStep, PTL DEF Spec

-----------------------------------------------------------------------------
(* The source field and the live list.                                      *)

(* Every step keeps source in agreement with the lists.                     *)
LEMMA SourceStep == TypeOK /\ SourceNamesServedList /\ [Next]_vars => SourceNamesServedList'
<1> SUFFICES ASSUME TypeOK, SourceNamesServedList, [Next]_vars PROVE SourceNamesServedList'
  OBVIOUS
<1>1. CASE UNCHANGED catalogVars
  BY <1>1 DEF catalogVars, SourceNamesServedList, SnapshotSource
<1>2. ASSUME NEW r \in Refreshers, CommitFailure(r) PROVE SourceNamesServedList'
  BY <1>2 DEF CommitFailure, SourceNamesServedList, SnapshotSource
<1>3. ASSUME NEW r \in Refreshers, CommitSuccess(r) PROVE SourceNamesServedList'
  BY <1>3 DEF CommitSuccess, SourceNamesServedList, SnapshotSource
<1>4. CASE ~UNCHANGED catalogVars
  <2>1. \E r \in Refreshers : CommitFailure(r) \/ CommitSuccess(r)
    BY <1>4 DEF Next, Healthz, StartRefresh, FetchReturns, Lock, Ask, HandleModels, ReadyzSnapshot,
                ReadyzState, vars, catalogVars
  <2> QED BY <1>2, <1>3, <2>1
<1> QED BY <1>1, <1>4

(* The field that Refresh maintains names the list Snapshot serves.         *)
THEOREM SourceIsRight == Spec => []SourceNamesServedList
<1>1. Init => SourceNamesServedList
  BY DEF Init, SourceNamesServedList, SnapshotSource
<1> QED BY <1>1, SourceStep, CatalogTypeCorrect, PTL DEF Spec

-----------------------------------------------------------------------------
(* What the clients have been told about the catalog.                       *)

ClientsInv ==
    \A c \in Clients :
        /\ snap[c].at <= commits
        /\ reply[c].from <= reply[c].to
        /\ snap[c].source # "static-fallback" => lkg # {}
        /\ reply[c].source # "static-fallback" => lkg # {}
        /\ client[c] = "readyz_state" /\ snap[c].at = commits => snap[c].source = SnapshotSource
        /\ client[c] = "readyz_state" /\ reply[c].source # "static-fallback" =>
              snap[c].source # "static-fallback"

CatalogInv == TypeOK /\ SourceNamesServedList /\ ClientsInv /\ ReadyzCoherentWhenQuiet

(* A fetched list is never forgotten.                                       *)
LEMMA LkgStays ==
    ASSUME CatalogInv, [Next]_vars, lkg # {}
    PROVE  lkg' # {}
<1> USE DEF catalogVars
<1>1. ASSUME NEW r \in Refreshers, CommitFailure(r) PROVE lkg' # {}
  BY <1>1 DEF CommitFailure
<1>2. ASSUME NEW r \in Refreshers, CommitSuccess(r) PROVE lkg' # {}
  BY <1>2 DEF CommitSuccess
<1>3. CASE UNCHANGED lkg
  BY <1>3
<1>4. CASE ~UNCHANGED lkg
  <2>1. \E r \in Refreshers : CommitFailure(r) \/ CommitSuccess(r)
    BY <1>4 DEF Next, Healthz, StartRefresh, FetchReturns, Lock, Ask, HandleModels, ReadyzSnapshot,
                ReadyzState, vars
  <2> QED BY <1>1, <1>2, <2>1
<1> QED BY <1>3, <1>4

(* A commit changes no snapshot and no reply, and moves the count on.       *)
LEMMA CommitKeepsClients ==
    ASSUME CatalogInv, NEW r \in Refreshers, CommitFailure(r) \/ CommitSuccess(r), lkg # {} => lkg' # {}
    PROVE  ClientsInv' /\ ReadyzCoherentWhenQuiet'
<1>1. commits \in Nat /\ commits' = commits + 1
  BY DEF CatalogInv, TypeOK, CommitFailure, CommitSuccess, Unlock
<1>2. UNCHANGED <<client, snap, reply>>
  BY DEF CommitFailure, CommitSuccess, Unlock, clientVars
<1>3. \A c \in Clients : snap[c].at \in Nat
  BY DEF CatalogInv, TypeOK
<1>4. \A c \in Clients : snap[c].at <= commits
  BY DEF CatalogInv, ClientsInv
<1>5. \A c \in Clients : snap[c].at <= commits' /\ snap[c].at # commits'
  BY <1>1, <1>3, <1>4
<1>6. ReadyzCoherentWhenQuiet'
  BY <1>2 DEF CatalogInv, ReadyzCoherentWhenQuiet
<1> QED BY <1>2, <1>5, <1>6 DEF CatalogInv, ClientsInv

(* Every step keeps what the clients were told true of the catalog.         *)
LEMMA ClientsStep == CatalogInv /\ [Next]_vars => ClientsInv' /\ ReadyzCoherentWhenQuiet'
<1> SUFFICES ASSUME CatalogInv, [Next]_vars PROVE ClientsInv' /\ ReadyzCoherentWhenQuiet'
  OBVIOUS
<1>0. /\ TypeOK /\ SourceNamesServedList /\ ClientsInv /\ ReadyzCoherentWhenQuiet
      /\ commits \in Nat
  BY DEF CatalogInv, TypeOK
<1> USE DEF ClientsInv, ReadyzCoherentWhenQuiet
<1>1. CASE UNCHANGED <<live, lkg, commits, client, snap, reply>>
  BY <1>0, <1>1 DEF SnapshotSource
<1>2. ASSUME NEW r \in Refreshers, CommitFailure(r) \/ CommitSuccess(r)
      PROVE  ClientsInv' /\ ReadyzCoherentWhenQuiet'
  BY <1>2, LkgStays, CommitKeepsClients
<1>3. ASSUME NEW r \in Refreshers, StartRefresh(r) \/ FetchReturns(r) \/ Lock(r)
      PROVE  UNCHANGED <<live, lkg, commits, client, snap, reply>>
  BY <1>3 DEF StartRefresh, FetchReturns, Lock, catalogVars, clientVars
<1>4. ASSUME NEW c \in Clients, Ask(c) \/ HandleModels(c) \/ ReadyzSnapshot(c) \/ ReadyzState(c)
      PROVE  ClientsInv' /\ ReadyzCoherentWhenQuiet'
  <2>1. UNCHANGED <<live, lkg, commits>>
    BY <1>4 DEF Ask, HandleModels, ReadyzSnapshot, ReadyzState, catalogVars, refreshVars
  <2>2. SnapshotSource' = SnapshotSource /\ ReadyState' = ReadyState
    BY <2>1 DEF SnapshotSource, ReadyState
  <2>3. SnapshotSource # "static-fallback" <=> lkg # {}
    BY <1>0 DEF SourceNamesServedList, SnapshotSource
  <2>4. /\ client \in [Clients -> {"idle", "models", "readyz", "readyz_state"}]
        /\ DOMAIN snap = Clients /\ DOMAIN reply = Clients
    BY <1>0 DEF TypeOK
  <2>5. CASE Ask(c)
    BY <1>0, <2>1, <2>2, <2>4, <2>5 DEF Ask
  <2>6. CASE HandleModels(c)
    <3>1. /\ reply' = [reply EXCEPT ![c] = reply'[c]]
          /\ reply'[c].source = SnapshotSource /\ reply'[c].kind = "models"
          /\ reply'[c].from = commits /\ reply'[c].to = commits
          /\ client' = [client EXCEPT ![c] = "idle"]
          /\ snap' = snap
      BY <2>4, <2>6 DEF HandleModels
    <3> QED BY <1>0, <2>1, <2>2, <2>3, <2>4, <3>1
  <2>7. CASE ReadyzSnapshot(c)
    <3>1. /\ snap' = [snap EXCEPT ![c] = snap'[c]]
          /\ snap'[c].source = SnapshotSource /\ snap'[c].at = commits
          /\ client' = [client EXCEPT ![c] = "readyz_state"]
          /\ reply' = reply
      BY <2>4, <2>7 DEF ReadyzSnapshot
    <3> QED BY <1>0, <2>1, <2>2, <2>3, <2>4, <3>1
  <2>8. CASE ReadyzState(c)
    <3>1. /\ client[c] = "readyz_state"
          /\ reply' = [reply EXCEPT ![c] = reply'[c]]
          /\ reply'[c].status = (IF HasUpstreamKey THEN ReadyState ELSE "not_ready")
          /\ reply'[c].source = snap[c].source
          /\ reply'[c].from = snap[c].at /\ reply'[c].to = commits
          /\ snap' = [snap EXCEPT ![c] = NoSnap]
          /\ client' = [client EXCEPT ![c] = "idle"]
      BY <2>4, <2>8 DEF ReadyzState
    <3>2. reply'[c].from = reply'[c].to /\ HasUpstreamKey =>
             (reply'[c].status = "ok" <=> reply'[c].source = "live")
      BY <1>0, <3>1 DEF ReadyState
    <3> QED BY <1>0, <2>1, <2>2, <2>4, <3>1, <3>2 DEF NoSnap
  <2> QED BY <1>4, <2>5, <2>6, <2>7, <2>8
<1> QED BY <1>1, <1>2, <1>3, <1>4 DEF Next, Healthz, vars, catalogVars, refreshVars, clientVars

(* The inductive invariant of the catalog and its clients.                  *)
LEMMA CatalogInvariant == Spec => []CatalogInv
<1>1. Init => CatalogInv
  <2> SUFFICES ASSUME Init PROVE CatalogInv
    OBVIOUS
  <2>1. TypeOK /\ SourceNamesServedList
    BY TypeInit DEF Init, SourceNamesServedList, SnapshotSource
  <2>2. ASSUME NEW c \in Clients
        PROVE  /\ client[c] = "idle" /\ snap[c].at = 0 /\ snap[c].source = "static-fallback"
               /\ reply[c].kind = "none" /\ reply[c].source = "static-fallback"
               /\ reply[c].from = 0 /\ reply[c].to = 0
    BY DEF Init, NoSnap, NoReply
  <2>3. commits = 0
    BY DEF Init
  <2>4. ClientsInv /\ ReadyzCoherentWhenQuiet
    BY <2>2, <2>3 DEF ClientsInv, ReadyzCoherentWhenQuiet
  <2> QED BY <2>1, <2>4 DEF CatalogInv
<1>2. CatalogInv /\ [Next]_vars => CatalogInv'
  BY TypeStep, SourceStep, ClientsStep DEF CatalogInv
<1> QED BY <1>1, <1>2, PTL DEF Spec

(* A /readyz reply that no Refresh crossed is coherent.                     *)
THEOREM ReadyzIsCoherentWhenQuiet == Spec => []ReadyzCoherentWhenQuiet
BY CatalogInvariant, PTL DEF CatalogInv

(* No client is sent back to the static list.                               *)
THEOREM ClientsNeverFallBack == Spec => NoClientFallsBackToStatic
<1>1. CatalogInv /\ [Next]_vars =>
         [\A c \in Clients : reply[c].source # "static-fallback" =>
                                 reply'[c].source # "static-fallback"]_vars
  <2> SUFFICES ASSUME CatalogInv, Next, NEW c \in Clients, reply[c].source # "static-fallback"
               PROVE  reply'[c].source # "static-fallback"
    BY DEF vars
  <2>1. DOMAIN reply = Clients
    BY DEF CatalogInv, TypeOK
  <2>2. SnapshotSource # "static-fallback"
    BY DEF CatalogInv, ClientsInv, SourceNamesServedList, SnapshotSource
  <2>3. client[c] = "readyz_state" => snap[c].source # "static-fallback"
    BY DEF CatalogInv, ClientsInv
  <2>4. ASSUME NEW d \in Clients, HandleModels(d) PROVE reply'[c].source # "static-fallback"
    BY <2>1, <2>2, <2>4 DEF HandleModels
  <2>5. ASSUME NEW d \in Clients, ReadyzState(d) PROVE reply'[c].source # "static-fallback"
    BY <2>1, <2>3, <2>5 DEF ReadyzState
  <2>6. CASE UNCHANGED reply
    BY <2>6
  <2> QED BY <2>4, <2>5, <2>6 DEF Next, Healthz, StartRefresh, FetchReturns, Lock, CommitFailure,
             CommitSuccess, Unlock, Ask, ReadyzSnapshot, clientVars, vars
<1> QED BY <1>1, CatalogInvariant, PTL DEF Spec, NoClientFallsBackToStatic

-----------------------------------------------------------------------------
(* The refinement: every step of the catalog is one the promise allows.     *)

(* The initial state is one of the promise.                                 *)
LEMMA PromiseInit == Init => Promise!SpecInit
BY DEF Init, Promise!SpecInit, SnapshotModels

(* Every step is one of the promise, or a stutter.                          *)
LEMMA PromiseStep ==
    CatalogInv /\ [Next]_vars => [Promise!SpecNext]_Promise!specVars
<1> SUFFICES ASSUME CatalogInv, [Next]_vars
             PROVE  [Promise!SpecNext]_Promise!specVars
  OBVIOUS
<1> USE DEF Promise!SpecNext, Promise!specVars, SnapshotModels
<1>1. CASE UNCHANGED catalogVars
  BY <1>1 DEF catalogVars
<1>2. ASSUME NEW r \in Refreshers, CommitSuccess(r)
      PROVE  Promise!Replace
  <2>1. fetched[r] \in SUBSET Models /\ fetched[r] # {}
    BY <1>2 DEF CatalogInv, TypeOK, CommitSuccess
  <2> QED BY <1>2, <2>1 DEF CommitSuccess, Promise!Replace
<1>3. ASSUME NEW r \in Refreshers, CommitFailure(r)
      PROVE  Promise!Age
  BY <1>3 DEF CommitFailure, Promise!Age, CatalogInv, SourceNamesServedList
<1>4. CASE ~UNCHANGED catalogVars
  <2>1. \E r \in Refreshers : CommitFailure(r) \/ CommitSuccess(r)
    BY <1>4 DEF Next, Healthz, StartRefresh, FetchReturns, Lock, Ask, HandleModels, ReadyzSnapshot,
                ReadyzState, vars, catalogVars
  <2> QED BY <1>2, <1>3, <2>1
<1> QED BY <1>1, <1>4

(* The catalog implements its promise.                                      *)
THEOREM CatalogKeepsPromise == Spec => PromiseSpec
BY PromiseInit, PromiseStep, CatalogInvariant, PTL DEF Spec, PromiseSpec, Promise!Spec
=============================================================================
