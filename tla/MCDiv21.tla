------------------------------ MODULE MCDiv21 ------------------------------
(* Div21Wasm, and with it Div21, on all integers of SIZE bits. *)
EXTENDS Div21Wasm

MCPow2 == [n \in 0 .. SIZE |-> 2^n]
=============================================================================
