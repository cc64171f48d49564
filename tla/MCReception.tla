---------------------------- MODULE MCReception ----------------------------
(* Model-checking instance of Reception: of the first card's number the    *)
(* last byte is the check sum, so that the sum of the first three is zero. *)
EXTENDS Reception, TLC

MCCards == {<<1, 0, 1, 2>>, <<2, 3, 0, 0>>}

Symmetry == Permutations(Players)
=============================================================================
