---------------------------- MODULE MCAskClient ----------------------------
(* Two calls of the agent and one title call of two events each. *)
EXTENDS AskClient
============================================================================
