------------------------------ MODULE KeyStore ------------------------------
(***************************************************************************)
(* The client key store, internal/auth/auth.go, and the redaction of       *)
(* secrets, internal/secret/secret.go, as functions of their values: the   *)
(* store's mutex makes each of its operations one step.                    *)
(*                                                                         *)
(* A key is a sequence of symbols, as is a text that may quote it, for     *)
(* redaction is about one being part of the other; <<>> is a missing or    *)
(* blank one.  Mark stands for "[redacted]": a text as well, which a key   *)
(* may share symbols with, for Add accepts any key that is not blank.      *)
(***************************************************************************)
EXTENDS Integers, Sequences, SequencesExt, History

CONSTANTS
    Names,   \* names of clients
    NoName,  \* a missing or blank one
    Symbols,
    Keys,    \* keys, of clients and of the upstream
    Mark

ASSUME NoNameAssumption == NoName \notin Names
ASSUME KeysAssumption == Keys \subseteq Seq(Symbols) \ {<<>>}
ASSUME MarkAssumption == Mark \in Seq(Symbols) \ {<<>>}

Client == [name : Names \cup {NoName}, key : Keys \cup {<<>>}]

(* One entry of the environment, line of the file or element of its JSON    *)
(* array.  A line that is blank or a comment is skipped, one word by itself *)
(* is wrong, and whatever has two words is a client: what was meant to be   *)
(* JSON, but is none, is read as lines.                                     *)
Item == [kind : {"skipped", "word"}] \cup [kind : {"client"}, client : Client]
Parses(items) == \A k \in DOMAIN items : items[k].kind # "word"
ClientsIn(items) == LET given == Kept(items, {k \in DOMAIN items : items[k].kind = "client"})
                    IN  [k \in DOMAIN given |-> given[k].client]

NamesOf(clients) == {clients[k].name : k \in DOMAIN clients}

(* Names are compared and keys are not: one key may have two names.         *)
BugNamesNotCompared(clients, client) == client.name # NoName /\ client.key # <<>>
CanAdd(clients, client) ==
    client.name # NoName /\ client.key # <<>> /\ client.name \notin NamesOf(clients)

(* The loop leaves out one client and keeps the ones behind it.             *)
BugRevokeStops(clients, name) ==
    SubSeq(clients, 1, (CHOOSE k \in DOMAIN clients : clients[k].name = name) - 1)
Revoke(clients, name) == Kept(clients, {k \in DOMAIN clients : clients[k].name # name})

Holders(clients, key) == Kept(clients, {k \in DOMAIN clients : clients[k].key = key})
IsHeld(clients, key) == Holders(clients, key) # <<>>
Lookup(clients, key) == Head(Holders(clients, key))
Secrets(clients) == [k \in DOMAIN clients |-> clients[k].key]

-----------------------------------------------------------------------------
OccursAt(text, key, i) == i + Len(key) - 1 <= Len(text) /\ SubSeq(text, i, i + Len(key) - 1) = key
Quotes(text, key) == \E i \in DOMAIN text : OccursAt(text, key, i)

(* However a key is laid over the mark, some symbol differs where the two   *)
(* meet: it is not in the mark, nor around it, nor across an end of it.     *)
ApartFromMark(key) ==
    \A shift \in (1 - Len(key))..(Len(Mark) - 1) :
        \E k \in DOMAIN key : k + shift \in DOMAIN Mark /\ key[k] # Mark[k + shift]

(* strings.ReplaceAll: from the left, without overlap.                      *)
BugReplacesOnce(text, key) ==
    IF ~Quotes(text, key) THEN text
    ELSE LET i == CHOOSE j \in 1..Len(text) :
                    OccursAt(text, key, j) /\ \A h \in 1..(j - 1) : ~OccursAt(text, key, h)
         IN  SubSeq(text, 1, i - 1) \o Mark \o SubSeq(text, i + Len(key), Len(text))
Replaced(text, key) ==
    LET from[i \in 1..(Len(text) + 1)] ==
            IF i > Len(text) THEN <<>>
            ELSE IF OccursAt(text, key, i) THEN Mark \o from[i + Len(key)]
            ELSE <<text[i]>> \o from[i + 1]
    IN  from[1]

(* One secret after the other; a blank one is passed over.                  *)
Redact(text, secrets) ==
    LET after[i \in 0..Len(secrets)] ==
            IF i = 0 THEN text
            ELSE IF secrets[i] = <<>> THEN after[i - 1] ELSE Replaced(after[i - 1], secrets[i])
    IN  after[Len(secrets)]
=============================================================================
