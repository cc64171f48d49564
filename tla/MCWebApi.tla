------------------------------ MODULE MCWebApi ------------------------------
(* Model-checking instance of WebApi, and the data that base64 is tried on. *)
EXTENDS WebApi, MCBase64, TLC
CONSTANTS r1, r2

MCDigits == (r1 :> 1) @@ (r2 :> 2)
MCPieces == (r1 :> 3) @@ (r2 :> 1)
=============================================================================
