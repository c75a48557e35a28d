----------------------------- MODULE MCAgyHost -----------------------------
(* Instance of AgyHost for TLC: three threads, of which any number may race *)
(* into os.Exit while the others still emit.                                *)
EXTENDS AgyHost
=============================================================================
