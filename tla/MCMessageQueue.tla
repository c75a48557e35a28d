--------------------------- MODULE MCMessageQueue ---------------------------
(* Instance of MessageQueue for TLC: the main conversation and one subagent, *)
(* two hooks at a time, two messages of which one batch may hold only one.   *)
EXTENDS MessageQueue
=============================================================================
