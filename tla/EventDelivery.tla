--------------------------- MODULE EventDelivery ---------------------------
(***************************************************************************)
(* What the capture bridge promises to the programs it is linked into: a   *)
(* stream of events is accepted while the bridge is open, every accepted   *)
(* event is delivered to the Python dispatcher exactly once and in the     *)
(* order of acceptance, and the bridge is finished only when nothing it    *)
(* accepted is still undelivered.                                          *)
(*                                                                         *)
(* Abstracts wirecap/native/pybridge.cpp and the contract of               *)
(* wirecap/native/wirecap.h; WireBridge implements it.                     *)
(***************************************************************************)
EXTENDS Sequences

CONSTANT Event                  \* the events a program may emit

VARIABLES pending,              \* accepted, not yet delivered, in order
          delivered,            \* what the dispatcher has been given
          phase                 \* "closed" | "open" | "closing" | "finished"

vars == <<pending, delivered, phase>>

Init == /\ pending = <<>>
        /\ delivered = <<>>
        /\ phase = "closed"

\* The interpreter came up and accepts events.
Open == /\ phase = "closed"
        /\ phase' = "open"
        /\ UNCHANGED <<pending, delivered>>

Accept(e) == /\ phase = "open"
             /\ pending' = Append(pending, e)
             /\ UNCHANGED <<delivered, phase>>

Deliver == /\ pending # <<>>
           /\ delivered' = Append(delivered, Head(pending))
           /\ pending' = Tail(pending)
           /\ UNCHANGED phase

\* Teardown begins: no event is accepted from here on.
Close == /\ phase \in {"closed", "open"}
         /\ phase' = "closing"
         /\ UNCHANGED <<pending, delivered>>

Finish == /\ phase = "closing"
          /\ pending = <<>>
          /\ phase' = "finished"
          /\ UNCHANGED <<pending, delivered>>

Next == \/ Open
        \/ \E e \in Event : Accept(e)
        \/ Deliver
        \/ Close
        \/ Finish

Spec == Init /\ [][Next]_vars
=============================================================================
