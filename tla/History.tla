------------------------------ MODULE History ------------------------------
(***************************************************************************)
(* Positions of a sequence: which of them comes last, what is kept of the  *)
(* sequence at some of them, and that another sequence was made from what  *)
(* is at some of them, in their order.                                     *)
(***************************************************************************)
EXTENDS Integers, Sequences, FiniteSets

IsLast(i, S) == i \in S /\ \A j \in S : j <= i

(* What a loop keeps that copies the elements of seq at the positions in S. *)
Position(k, S) == CHOOSE i \in S : Cardinality({j \in S : j <= i}) = k
Kept(seq, S) == [k \in 1..Cardinality(S) |-> seq[Position(k, S)]]

(* seq lists what val gives for the elements of S, in their order.          *)
InOrder(seq, S, val) ==
    \E at \in [DOMAIN seq -> S] :
        /\ \A k, l \in DOMAIN seq : k < l => at[k] < at[l]
        /\ {at[k] : k \in DOMAIN seq} = S
        /\ \A k \in DOMAIN seq : seq[k] = val[at[k]]
=============================================================================
