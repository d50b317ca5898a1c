-------------------------------- MODULE MCGmp --------------------------------
(* Gmp with two variables and integers of three bits. *)
EXTENDS Gmp

MCRegs == {"a", "b"}
MCExponents == -2 .. 4
=============================================================================
