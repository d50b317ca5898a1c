--------------------------- MODULE MCCompilerCall ---------------------------
(* CompilerCall with two threads that call, or allocate meanwhile.          *)
EXTENDS CompilerCall
=============================================================================
