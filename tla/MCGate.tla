------------------------------- MODULE MCGate -------------------------------
(* Model-checking instance of Gate.                                        *)
EXTENDS Gate, TLC

Symmetry == Permutations(Rfids)
=============================================================================
