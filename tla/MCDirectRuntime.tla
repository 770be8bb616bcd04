--------------------------- MODULE MCDirectRuntime ---------------------------
(* Small instances of DirectRuntime.                                       *)
EXTENDS DirectRuntime, TLC
=============================================================================
