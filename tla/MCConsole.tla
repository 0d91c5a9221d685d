------------------------------ MODULE MCConsole ------------------------------
(* The two buffers of the code; lines of up to two of two characters and    *)
(* the terminator.                                                          *)
EXTENDS Console
=============================================================================
