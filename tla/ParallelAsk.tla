----------------------------- MODULE ParallelAsk -----------------------------
(* ask_many() of pyagy: one prompt to several CLIs at once, for parallel       *)
(* samples.  One thread starts the CLIs one after the other, collects what     *)
(* they stream home in one event loop, and closes them, whatever happens.      *)
(* The CLIs and their launches are CliProcess's; the module also keeps its     *)
(* other kind of user, a program whose threads launch CLIs independently.      *)
(*                                                                             *)
(* A stream is as many objects as its CLI has sent; the objects themselves     *)
(* cannot be mixed up, for every CLI has a queue of its own.                   *)
EXTENDS CliProcess, Naturals

CONSTANT MaxObjects     \* objects a CLI sends at most

ASSUME ObjectsAssumption == MaxObjects \in Nat

VARIABLES
  at,      \* "threads" (no ask_many()), "start", "collect", "close" or "over"
  threw,   \* an exception ends ask_many()
  sent,    \* objects each CLI has written to its queue
  ended,   \* the CLIs that have written the completion tuple
  got,     \* objects collected per CLI
  done     \* the CLIs that the loop has finished with

streams == <<sent, ended>>
askVars == <<at, threw, streams, got, done>>
allVars == <<vars, askVars>>

AskInit ==
  /\ Init
  /\ at \in {"threads", "start"} /\ threw = FALSE
  /\ sent = [l \in Launches |-> 0] /\ ended = {}
  /\ got = [l \in Launches |-> 0] /\ done = {}

Queue(l) == Of(l, {"queue"})
Dead(l) == child[l] \in {"zombie", "reaped"}

\* A queue is at its end when the program has closed its writer and every CLI
\* that inherited it is dead; a CLI keeps it from its tools.
Eof(l) ==
  /\ Queue(l) \cap open = {}
  /\ \A k \in Launches : Queue(l) \cap inherited[k] # {} => Dead(k)

\* The one thread is in the middle of a launch or of a close() of l.
Busy(l) == pc[l] \notin {"new", "up", "over"}
Free == \A l \in Launches : ~Busy(l)
Go(phase) == at' = phase /\ UNCHANGED <<vars, streams, got, done>>

----------------------------------------------------------------------------
(* Starting *)

\* p.start() comes only after the writers of the CLIs started so far are closed
\* in the program.
StartNext(l) ==
  /\ at = "start" /\ Free
  /\ \A k \in Launches : pc[k] # "over" /\ (pc[k] = "up" => Queue(k) \cap open = {})
  /\ Resolve(l)
  /\ UNCHANGED askVars

\* q._writer.close(): "parent reads only".
CloseWriter(l) ==
  /\ at = "start" /\ pc[l] = "up" /\ Queue(l) \subseteq open
  /\ CloseFds(Queue(l))
  /\ UNCHANGED <<lock, marked, pc, failed, finalizer, childVars, askVars>>

AllStarted ==
  /\ at = "start" /\ \A l \in Launches : pc[l] = "up" /\ Queue(l) \cap open = {}
  /\ Go("collect") /\ UNCHANGED threw

\* A start() that failed has cleaned up after itself; its exception, or one that
\* comes from outside, ends ask_many().  While it collects, so does the torn
\* last object of one CLI that died.
Raises ==
  /\ at \in {"start", "collect"} /\ Free
  /\ threw' = TRUE /\ Go("close")

----------------------------------------------------------------------------
(* Collecting *)

\* The loop is done with l; reap() looks once whether the CLI is dead by now.
Finished(l) ==
  /\ done' = done \cup {l}
  /\ \/ Poll(l)
     \/ child[l] # "zombie" /\ UNCHANGED vars

\* What service_many() finds in the queue of a CLI that is not done.
Live(l) == at = "collect" /\ l \notin done
Item(l) == CASE got[l] < sent[l] -> "object"
             [] got[l] = sent[l] /\ l \in ended -> "end"
             [] got[l] = sent[l] /\ l \notin ended /\ Eof(l) -> "eof"
             [] OTHER -> "nothing"

CollectObject(l) ==
  /\ Live(l) /\ Item(l) = "object"
  /\ got' = [got EXCEPT ![l] = @ + 1]
  /\ UNCHANGED <<vars, at, threw, streams, done>>

\* The completion tuple.
CollectEnd(l) ==
  /\ Live(l) /\ Item(l) = "end" /\ Finished(l)
  /\ UNCHANGED <<at, threw, streams, got>>

\* Mutant: a CLI that is dead is done with, whatever its queue still holds.
CollectEofAtDeath(l) ==
  /\ Live(l) /\ Dead(l) /\ Finished(l)
  /\ UNCHANGED <<at, threw, streams, got>>

\* EOFError.
CollectEof(l) ==
  /\ Live(l) /\ Item(l) = "eof" /\ Finished(l)
  /\ UNCHANGED <<at, threw, streams, got>>

\* All are done, or the time is over.
Collected ==
  /\ at = "collect"
  /\ Go("close") /\ UNCHANGED threw

----------------------------------------------------------------------------
(* Closing *)

CloseNext(l) ==
  /\ at = "close" /\ Free
  /\ Close(l)
  /\ UNCHANGED askVars

\* The responses are built, or the exception goes on; a CLI that was never
\* started needs no close(), and the queues are closed on both ways.
Over ==
  /\ at = "close" /\ \A l \in Launches : pc[l] \in {"new", "over"}
  /\ at' = "over"
  /\ open' = open \ UNION {Queue(l) : l \in Launches}
  /\ inheritable' = inheritable \cap open'
  /\ UNCHANGED <<lock, strayCloses, marked, pc, failed, finalizer, childVars, threw, streams, got, done>>

----------------------------------------------------------------------------
(* The CLIs *)

\* Once it has its payload a CLI may send, also while it is asked to stop.
Sending(l) == at # "threads" /\ child[l] = "running" /\ pc[l] \in {"up", "stop", "grace"} /\ l \notin ended

Send(l) ==
  /\ Sending(l) /\ sent[l] < MaxObjects
  /\ sent' = [sent EXCEPT ![l] = @ + 1]
  /\ UNCHANGED <<vars, at, threw, ended, got, done>>

SendEnd(l) ==
  /\ Sending(l)
  /\ ended' = ended \cup {l}
  /\ UNCHANGED <<vars, at, threw, sent, got, done>>

Inside(l) ==
  \/ Prepare(l) \/ Spawn(l) \/ SpawnFails(l) \/ Restore(l) \/ InstallFinalizer(l) \/ WriteBoot(l)
  \/ Stop(l) \/ Grace(l) \/ SweepGroup(l) \/ RunFinalizer(l) \/ Abort(l)
  \/ Tool(l) \/ Die(l)

AskNext ==
  \/ at = "threads" /\ Next /\ UNCHANGED askVars
  \/ AllStarted \/ Raises \/ Collected \/ Over
  \/ \E l \in Launches :
       \/ StartNext(l) \/ CloseWriter(l) \/ CloseNext(l)
       \/ at \in {"start", "close"} /\ Inside(l) /\ UNCHANGED askVars
       \/ at = "collect" /\ (Tool(l) \/ Die(l)) /\ UNCHANGED askVars
       \/ CollectObject(l) \/ CollectEnd(l) \/ CollectEof(l)
       \/ Send(l) \/ SendEnd(l)

AskSpec == AskInit /\ [][AskNext]_allVars

----------------------------------------------------------------------------
\* A CLI that the loop has finished with has given all it sent, whichever of
\* its last object, its death and the death of the others came first; only one
\* that ask_many() gave up at the deadline may have more to say.
SamplesComplete == \A l \in done : got[l] = sent[l] /\ (l \in ended \/ Dead(l))
=============================================================================
