--------------------------- MODULE MCCameraStill ---------------------------
(* Model-checking instance of CameraStill: with two captures one may run   *)
(* on under the next; two threads of the Timer are one and a stray.        *)
EXTENDS CameraStill, TLC

Symmetry == Permutations(Callers) \cup Permutations(Captures) \cup Permutations(Threads)
=============================================================================
