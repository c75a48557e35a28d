--------------------------- MODULE RuntimeRelease ---------------------------
(* The life of a runtime release: adopted and published by the workflow      *)
(* (RuntimeAdoption), pulled and rebuilt on a user's machine (Reconstruct).  *)
(* The two meet in the main branch only, and a machine only reads it.  So    *)
(* each side is checked against what the other may do to the branch: the     *)
(* workflow runs without machines, and a machine sees the branch move to any *)
(* consistent state, which is what the workflow keeps it in                  *)
(* (ReleasedIsConsistent).                                                   *)
EXTENDS Reconstruct

VARIABLE side  \* the side that takes steps

vars == <<avars, rvars, side>>

ReleaseInit == Init /\ RInit /\ side \in {"workflow", "machine"}

MainMoves ==
  /\ \E pin \in [Components -> Version] : head' = Whole(pin) /\ Consistent(head')
  /\ UNCHANGED <<rvars, latest, work, job, issues, moved, trouble>>

Next ==
  /\ UNCHANGED side
  /\ \/ side = "workflow" /\ AdoptionNext /\ UNCHANGED rvars
     \/ side = "machine" /\ MainMoves
     \/ side = "machine" /\ ReconstructNext /\ UNCHANGED <<latest, head, work, job, issues, moved>>

Spec == ReleaseInit /\ [][Next]_vars /\ AdoptionFairness

TypeOK ==
  /\ latest \in [Components -> Version] /\ head \in Files /\ work \in Files
  /\ issues \subseteq SUBSET Target /\ checkout \in Files
  /\ found \in [Rebuilt -> Content] /\ cache \in [Rebuilt -> Content \union {Nothing}]
=============================================================================
