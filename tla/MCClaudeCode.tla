---------------------------- MODULE MCClaudeCode ----------------------------
(***************************************************************************)
(* Two SDK clients, a human and a UI that is mounted up to twice, with two *)
(* upsets anywhere; or a Session of four turns that two threads share.     *)
(***************************************************************************)
EXTENDS ClaudeCode

CONSTANTS c1, c2        \* the SDK clients, or the threads
=============================================================================
