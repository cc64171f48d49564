----------------------------- MODULE MCLogQueue -----------------------------
(* Model-checking instance of LogQueue.                                    *)
EXTENDS LogQueue
=============================================================================
