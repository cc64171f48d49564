---------------------------- MODULE MCEmployeeDb ----------------------------
(* Model-checking instance of EmployeeDb.  Its run checks liveness, so no  *)
(* symmetry is declared.                                                   *)
EXTENDS EmployeeDb
=============================================================================
