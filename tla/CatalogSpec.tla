---------------------------- MODULE CatalogSpec ----------------------------
(***************************************************************************)
(* What the model catalog promises, without saying how it keeps it         *)
(* (protocol/README.md, section Catalog): it always has a list to serve;   *)
(* a successful fetch replaces it; a failed one leaves the list alone and  *)
(* only costs its freshness, so the static list is never served again      *)
(* once something better was.                                              *)
(***************************************************************************)
CONSTANTS Models, Static

VARIABLES
    served,  \* the list clients are shown
    fresh,   \* whether it is the answer of the last fetch
    seen     \* whether any fetch ever succeeded

specVars == <<served, fresh, seen>>

SpecInit == served = Static /\ fresh = FALSE /\ seen = FALSE

Replace ==
    /\ served' \in (SUBSET Models) \ {{}}
    /\ fresh' = TRUE
    /\ seen' = TRUE

(* The live list stops being live; it is still the one to serve.            *)
Age ==
    /\ fresh' = FALSE
    /\ UNCHANGED <<served, seen>>

SpecNext == Replace \/ Age

Spec == SpecInit /\ [][SpecNext]_specVars
=============================================================================
