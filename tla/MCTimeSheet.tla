----------------------------- MODULE MCTimeSheet -----------------------------
(* Model-checking instance of TimeSheet: two sheets that may share their   *)
(* second, hence a spool file, inserted by two threads.  Its run checks    *)
(* liveness, so no symmetry is declared.                                   *)
EXTENDS TimeSheet
=============================================================================
