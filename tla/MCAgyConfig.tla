---------------------------- MODULE MCAgyConfig ----------------------------
(* Three runs that share one server name, each with either of two servers:   *)
(* layers only meet on a name, so a second name would add independent copies.*)
(* Or two channels whose starts and closes overlap.  The user edits meanwhile. *)
(* Runs, the servers callers pass and channels are interchangeable.           *)
EXTENDS AgyConfig

Symmetry == Permutations(Sessions) \union Permutations(Values) \union Permutations(Channels)
=============================================================================
