----------------------------- MODULE MCCatalog -----------------------------
(* Small instances of Catalog: three models, one of them the static list;   *)
(* the upstream answers with one of two lists, one of which also has an     *)
(* item without an id, with a list of nothing but such items, or not at     *)
(* all.                                                                     *)
EXTENDS Catalog

CONSTANTS m1, m2, m3

mcModels == {m1, m2, m3}
mcStatic == {m1}
mcReplies == {{m2}, {m2, m3, NoId}, {NoId}, Unreachable}
=============================================================================
