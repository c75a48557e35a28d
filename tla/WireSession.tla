---------------------------- MODULE WireSession ----------------------------
(***************************************************************************)
(* A session with one live CLI (WireSession and ask_turn,                  *)
(* wirecap/runtime/session.py): the program asks, closes and may ask       *)
(* again; the CLI, a process of its own, paints its terminal and streams   *)
(* decoded objects home through a pipe until it finishes, raises or dies,  *)
(* at any moment and also in the middle of an object.                      *)
(*                                                                         *)
(* Time is counted in steps of Tick; the clocks that ask_turn() compares   *)
(* are ages, which stop at the largest value anything is compared with.    *)
(***************************************************************************)
EXTENDS Integers, Sequences

CONSTANTS
  Idle,         \* an answer settles after this long without another
  PtyIdle,      \* a turn without an answer ends after this long without output
  PtyQuiet,     \* an answer settles only after this long without output
  Timeout,      \* the deadline of a turn
  MaxObjects,   \* bound: objects the CLI streams
  MaxAsks       \* bound: prompts submitted

ASSUME TimeAssumption == {Idle, PtyIdle, PtyQuiet, Timeout} \subseteq Nat
ASSUME BoundAssumption == MaxObjects \in Nat /\ MaxAsks \in Nat

Kind == {"answer", "event"}             \* _KINDS and _EVENT_KINDS
Object == [id : 1..MaxObjects, kind : Kind]
Done == [id |-> 0, kind |-> "done"]     \* the DONE or EXC sentinel
Torn == [id |-> 0, kind |-> "torn"]     \* an object whose end never comes
Item == Object \cup {Done, Torn}

VARIABLES
  session,      \* "new" | "open" | "closed"
  ended,        \* _ended
  reaped,       \* exit_status is known
  phase,        \* where ask() is; "out": no ask() is running
  got,          \* the objects of this turn
  sinceAnswer,  \* age of the last answer, or -1
  sinceOutput,  \* age of last_output
  elapsed,      \* age of the turn
  result,       \* how the last turn ended; "broken" when ask() raised in it
  asks,         \* prompts submitted so far (bounded by MaxAsks)
  cli,          \* "none" | "streaming" | "finished" | "dead"
  pipe,         \* the result pipe
  output,       \* the terminal holds output nobody has read
  sent,         \* history: objects written whole, in order
  taken         \* history: objects that ask() returned, in order

cliVars == <<cli, pipe, output, sent>>
turnVars == <<got, sinceAnswer, sinceOutput, elapsed>>
lifeVars == <<session, ended, reaped, result, asks, taken>>
sessionVars == <<phase, lifeVars, turnVars, cliVars>>

----------------------------------------------------------------------------
SessionInit ==
  /\ session = "new" /\ ended = FALSE /\ reaped = FALSE
  /\ phase = "out" /\ got = <<>>
  /\ sinceAnswer = -1 /\ sinceOutput = 0 /\ elapsed = 0
  /\ result = "none" /\ asks = 0
  /\ cli = "none" /\ pipe = <<>> /\ output = FALSE
  /\ sent = <<>> /\ taken = <<>>

Running == cli \in {"streaming", "finished"}

\* close(): the process is stopped and reaped, the channel closed, the
\* provider's resources given back; a closed session is left alone.
Close ==
  /\ phase = "out" /\ session # "closed"
  /\ session' = "closed"
  /\ reaped' = (reaped \/ cli # "none")
  /\ cli' = IF cli = "none" THEN cli ELSE "dead"
  /\ pipe' = <<>>
  /\ UNCHANGED <<phase, ended, result, asks, taken, turnVars, output, sent>>

\* _start() fails somewhere, before the CLI runs or after it, and unwinds what it
\* has got through close().
StartFails ==
  /\ phase = "out" /\ session = "new"
  /\ session' = "closed"
  /\ reaped' \in BOOLEAN
  /\ cli' = IF reaped' THEN "dead" ELSE "none"
  /\ UNCHANGED <<phase, ended, result, asks, taken, turnVars, pipe, output, sent>>

\* _start(): the CLI runs, and the wait for its terminal to settle begins.
Start ==
  /\ phase = "out" /\ session = "new" /\ asks < MaxAsks
  /\ session' = "open"
  /\ cli' = "streaming"
  /\ phase' = "ready"
  /\ UNCHANGED <<ended, reaped, result, asks, taken, turnVars, pipe, output, sent>>

\* A later ask(): reap() first; it raises once the CLI is known to be over.
Ask ==
  /\ phase = "out" /\ session = "open" /\ asks < MaxAsks
  /\ reaped' = (reaped \/ cli = "dead")
  /\ phase' = IF ended \/ reaped' THEN "out" ELSE "ready"
  /\ UNCHANGED <<session, ended, result, asks, taken, turnVars, cliVars>>

----------------------------------------------------------------------------
(* ask_turn() *)

\* The terminal has been quiet for the ready time, or that took too long: the
\* prompt is typed, and the turn's clocks start.
Submit ==
  /\ phase = "ready"
  /\ asks' = asks + 1
  /\ got' = <<>> /\ sinceAnswer' = -1 /\ sinceOutput' = 0 /\ elapsed' = 0
  /\ phase' = "service"
  /\ UNCHANGED <<session, ended, reaped, result, taken, cliVars>>

\* The turn is over, and ask() returns what it has got.
Return(reason) ==
  /\ ended' = (reason = "exit")
  /\ result' = reason
  /\ taken' = taken \o got
  /\ got' = <<>>
  /\ phase' = "out"

Deadline ==
  /\ phase = "service" /\ elapsed >= Timeout
  /\ Return("deadline")
  /\ UNCHANGED <<session, reaped, asks, sinceAnswer, sinceOutput, elapsed, cliVars>>

\* service_pty() reads the terminal and looks at the pipe, where the end of the
\* CLI is readable, too.
Service ==
  /\ phase = "service" /\ elapsed < Timeout
  /\ output' = FALSE
  /\ sinceOutput' = IF output THEN 0 ELSE sinceOutput
  /\ phase' = IF pipe # <<>> \/ cli = "dead" THEN "drain" ELSE "decide"
  /\ UNCHANGED <<lifeVars, got, sinceAnswer, elapsed, cli, pipe, sent>>

\* Mutant: the turn keeps its last object only.
TakeLast ==
  /\ phase = "drain" /\ pipe # <<>> /\ Head(pipe) \in Object
  /\ got' = <<Head(pipe)>>
  /\ sinceAnswer' = IF Head(pipe).kind = "answer" THEN 0 ELSE sinceAnswer
  /\ pipe' = Tail(pipe)
  /\ UNCHANGED <<phase, lifeVars, sinceOutput, elapsed, cli, output, sent>>

\* Everything in the pipe is taken at once; side events reset no clock.
Take ==
  /\ phase = "drain" /\ pipe # <<>> /\ Head(pipe) \in Object
  /\ got' = Append(got, Head(pipe))
  /\ sinceAnswer' = IF Head(pipe).kind = "answer" THEN 0 ELSE sinceAnswer
  /\ pipe' = Tail(pipe)
  /\ UNCHANGED <<phase, lifeVars, sinceOutput, elapsed, cli, output, sent>>

Drained ==
  /\ phase = "drain" /\ pipe = <<>> /\ cli # "dead"
  /\ phase' = "decide"
  /\ UNCHANGED <<lifeVars, turnVars, cliVars>>

\* Mutant: the end of the pipe is skipped like an object of no interest.
ExitOnSentinel ==
  /\ phase = "drain"
  /\ pipe # <<>> /\ Head(pipe) = Done /\ pipe' = Tail(pipe)
  /\ Return("exit")
  /\ UNCHANGED <<session, reaped, asks, sinceAnswer, sinceOutput, elapsed, cli, output, sent>>

\* The sentinel, or the end of the pipe after its last object: reap() and out.
\* The pipe ends a moment before the process can be reaped.
Exit ==
  /\ phase = "drain"
  /\ \/ pipe = <<>> /\ cli = "dead" /\ UNCHANGED pipe
     \/ pipe # <<>> /\ Head(pipe) = Done /\ pipe' = Tail(pipe)
  /\ reaped' \in {reaped, reaped \/ cli = "dead"}
  /\ Return("exit")
  /\ UNCHANGED <<session, asks, sinceAnswer, sinceOutput, elapsed, cli, output, sent>>

\* The pipe ends inside an object: get() raises OSError, which nobody catches,
\* and what this turn has got is dropped.
Broken ==
  /\ phase = "drain" /\ pipe # <<>> /\ Head(pipe) = Torn
  /\ pipe' = Tail(pipe)
  /\ result' = "broken"
  /\ got' = <<>>
  /\ phase' = "out"
  /\ UNCHANGED <<session, ended, reaped, asks, taken,
                 sinceAnswer, sinceOutput, elapsed, cli, output, sent>>

\* The end of one round of the loop.  A turn that owes tool results, which the
\* provider's _pending() knows, does not settle; it may answer either way.
Decide ==
  /\ phase = "decide"
  /\ \/ /\ sinceAnswer # -1 /\ sinceAnswer >= Idle /\ sinceOutput >= PtyQuiet
        /\ Return("turn")
     \/ /\ sinceAnswer = -1 /\ sinceOutput >= PtyIdle
        /\ Return("idle")
     \/ /\ \/ sinceAnswer # -1
           \/ sinceOutput < PtyIdle
        /\ phase' = "service"
        /\ UNCHANGED <<ended, result, taken, got>>
  /\ UNCHANGED <<session, reaped, asks, sinceAnswer, sinceOutput, elapsed, cliVars>>

----------------------------------------------------------------------------
(* The CLI and the clock *)

Stream(kind) ==
  /\ cli = "streaming" /\ Len(sent) < MaxObjects
  /\ LET o == [id |-> Len(sent) + 1, kind |-> kind]
     IN  pipe' = Append(pipe, o) /\ sent' = Append(sent, o)
  /\ UNCHANGED <<phase, lifeVars, turnVars, cli, output>>

\* The target returns or raises while the CLI lives on.
Finish ==
  /\ cli = "streaming"
  /\ cli' = "finished"
  /\ pipe' = Append(pipe, Done)
  /\ UNCHANGED <<phase, lifeVars, turnVars, output, sent>>

Paint ==
  /\ Running /\ ~output
  /\ output' = TRUE
  /\ UNCHANGED <<phase, lifeVars, turnVars, cli, pipe, sent>>

Die ==
  /\ Running
  /\ cli' = "dead"
  /\ \/ UNCHANGED pipe
     \/ cli = "streaming" /\ pipe' = Append(pipe, Torn)
  /\ UNCHANGED <<phase, lifeVars, turnVars, output, sent>>

Older(age, most) == IF age < most THEN age + 1 ELSE age

Tick ==
  /\ phase \in {"service", "drain", "decide"}
  /\ elapsed' = Older(elapsed, Timeout)
  /\ sinceAnswer' = IF sinceAnswer = -1 THEN -1 ELSE Older(sinceAnswer, Idle)
  /\ sinceOutput' = Older(sinceOutput, IF PtyIdle > PtyQuiet THEN PtyIdle ELSE PtyQuiet)
  /\ UNCHANGED <<phase, lifeVars, got, cliVars>>

----------------------------------------------------------------------------
TurnStep == Submit \/ Deadline \/ Service \/ Take \/ Drained \/ Exit \/ Broken \/ Decide

SessionNext ==
  \/ Start \/ StartFails \/ Ask \/ Close
  \/ TurnStep
  \/ (\E kind \in Kind : Stream(kind)) \/ Finish \/ Paint \/ Die
  \/ Tick

\* The loop runs and the clock goes on; the CLI does what it likes.
SessionSpec == /\ SessionInit /\ [][SessionNext]_sessionVars
               /\ WF_sessionVars(TurnStep) /\ WF_sessionVars(Tick)

----------------------------------------------------------------------------
\* Type invariant of the session, the turn in progress and the pipe.
SessionTypeOK ==
  /\ session \in {"new", "open", "closed"} /\ ended \in BOOLEAN /\ reaped \in BOOLEAN
  /\ phase \in {"out", "ready", "service", "drain", "decide"}
  /\ got \in Seq(Object) /\ sent \in Seq(Object) /\ taken \in Seq(Object)
  /\ sinceAnswer \in -1..Idle /\ elapsed \in 0..Timeout
  /\ sinceOutput \in 0..(PtyIdle + PtyQuiet)
  /\ result \in {"none", "turn", "idle", "deadline", "exit", "broken"}
  /\ asks \in 0..MaxAsks
  /\ cli \in {"none", "streaming", "finished", "dead"}
  /\ pipe \in Seq(Item) /\ output \in BOOLEAN

\* Objects come home once and in order: what turns have returned and hold, and
\* what is still in the pipe, is what the CLI wrote, across deadlines and idle
\* ends of turns, and up to the last object of a CLI that died; behind that
\* there is the mark of its end, if any.  The exceptions are a closed session
\* and a turn that raised (Broken).
StreamIntact ==
  session # "closed" /\ result # "broken" =>
    \E end \in {<<>>, <<Done>>, <<Torn>>} : taken \o got \o pipe = sent \o end

\* Every ask() ends, although the CLI may paint for ever, owe tool results for
\* ever, stop without a word, or die.
AskReturns == phase # "out" ~> phase = "out"

\* new_channel(): "the reader EOFs when the CLI dies (crash detection)", so the
\* turn of a dying CLI ends with what it has got, and ask() does not raise.
DeathIsAnExit == [][phase = "drain" /\ phase' = "out" => result' # "broken"]_sessionVars
=============================================================================
