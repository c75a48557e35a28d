------------------------------ MODULE CliChannels ------------------------------
(* The channels between the program and one linked CLI, all of which hold only  *)
(* so much: the boot pipe with the pickled process object, the terminal in both *)
(* directions, and the pipe of the result queue.  The program has one thread    *)
(* for all of them (WirePopen._launch, WirePtyPopen._service, ask_turn); the    *)
(* CLI has the target's thread, which reads the payload and sends the objects,  *)
(* and the user interface.  Each waits while the channel it writes to is full,  *)
(* or the one it reads from is empty.                                           *)
EXTENDS Naturals, SequencesExt

CONSTANTS BootRoom, ResultRoom,  \* what the pipes hold
          TerminalRoom,          \* what the terminal holds in each direction
          Payloads,              \* sizes of the pickled process object, prompt included
          Prompts,               \* how much is typed; 1 is the Enter that submits a prefilled prompt
          ObjectSize,            \* size of a decoded object
          Screen,                \* what the interface paints at a time
          OwnReader,             \* does a thread of its own read the keys?
          MaxAsks, MaxObjects, MaxQueries   \* bounds: turns, decoded objects, terminal queries

VARIABLES program,  \* what the program's thread is in
          left,     \* what it still has to write, or to read of an object
          replies,  \* answers to terminal queries that _answer() still has to write
          tail,     \* the end of raw that the next scan looks at again
          asks,
          boot, result, typed, painted,  \* what is in the channels
          alive,    \* the CLI lives
          target,   \* what the thread wire-mp-child is in
          rest,     \* what it still has to read, or to write of an object
          queued,   \* stream_turns' local queue
          canvas,   \* what the interface has begun to paint
          waiting,  \* it has asked its terminal and waits for the answer
          prompt,   \* what it has not yet read of the prompt
          objects, queries  \* made so far

progVars == <<program, left, replies, tail, asks>>
targetVars == <<target, rest, queued>>
uiVars == <<canvas, waiting, prompt, objects, queries>>
vars == <<progVars, boot, result, typed, painted, alive, targetVars, uiVars>>

Least(a, b) == IF a < b THEN a ELSE b

Init ==
  /\ program = "new" /\ left = 0 /\ replies = 0 /\ tail = <<>> /\ asks = 0
  /\ boot = 0 /\ result = 0 /\ typed = <<>> /\ painted = <<>> /\ alive = FALSE
  /\ target = "none" /\ rest = 0 /\ queued = 0
  /\ canvas = <<>> /\ waiting = FALSE /\ prompt = 0 /\ objects = 0 /\ queries = 0

-----------------------------------------------------------------------------
(* The program *)

In(stage) == program = stage /\ replies = 0

\* _launch: the object is pickled, and the CLI runs.
Launch ==
  /\ In("new")
  /\ \E n \in Payloads : left' = n /\ rest' = n
  /\ program' = "boot" /\ alive' = TRUE
  /\ UNCHANGED <<replies, tail, asks, boot, result, typed, painted, target, queued, uiVars>>

\* The payload is written at once.  The program closes its own copy of the read
\* end afterwards, so that a CLI that is dead by now does not end the write.
WriteBoot ==
  /\ In("boot") /\ left > 0 /\ boot < BootRoom
  /\ LET n == Least(left, BootRoom - boot) IN boot' = boot + n /\ left' = left - n
  /\ UNCHANGED <<program, replies, tail, asks, result, typed, painted, alive, targetVars, uiVars>>

Launched ==
  /\ In("boot") /\ left = 0
  /\ program' = "ready"
  /\ UNCHANGED <<left, replies, tail, asks, boot, result, typed, painted, alive, targetVars, uiVars>>

\* answer_queries keeps the last bytes for the next scan: a query may be cut.
Tail8(text) == IF text # <<>> /\ Last(text) = "begin" THEN <<"begin">> ELSE <<>>

\* _read_available: everything the terminal holds is read; each query in it is
\* answered, by a write of its own.
ReadTerminal ==
  LET text == tail \o painted
  IN  /\ painted' = <<>> /\ tail' = Tail8(text)
      /\ replies' = Len(SelectSeq([i \in 1 .. Len(text) - 1 |-> <<text[i], text[i + 1]>>],
                                  LAMBDA p : p = <<"begin", "end">>))

\* Mutant: the wait looks at the results only.
ServiceResults ==
  /\ program \in {"ready", "service"} /\ replies = 0
  /\ program' = IF program = "service" /\ (result > 0 \/ ~alive) THEN "drain" ELSE program
  /\ UNCHANGED <<left, replies, tail, asks, boot, result, typed, painted, alive, targetVars, uiVars>>

\* _service: the terminal is read; results, or the end of the CLI, end the wait.
\* While ask_turn still waits for a quiet terminal it takes no results.
Service ==
  /\ program \in {"ready", "service"} /\ replies = 0
  /\ ReadTerminal
  /\ program' = IF program = "service" /\ (result > 0 \/ ~alive) THEN "drain" ELSE program
  /\ UNCHANGED <<left, asks, boot, result, typed, alive, targetVars, uiVars>>

\* _answer: a dead CLI's terminal refuses the write, which is ignored.
Reply ==
  /\ replies > 0
  /\ \/ ~alive /\ UNCHANGED typed
     \/ alive /\ Len(typed) < TerminalRoom /\ typed' = Append(typed, "reply")
  /\ replies' = replies - 1
  /\ UNCHANGED <<program, left, tail, asks, boot, result, painted, alive, targetVars, uiVars>>

\* The terminal is quiet, or that took too long: the prompt is typed.
Submit ==
  /\ In("ready")
  /\ \E n \in Prompts : left' = n /\ prompt' = n
  /\ program' = "type" /\ asks' = asks + 1
  /\ UNCHANGED <<replies, tail, boot, result, typed, painted, alive, targetVars,
                 canvas, waiting, objects, queries>>

\* send_line: one write; the terminal of a dead CLI refuses it and ask() raises.
Type ==
  /\ In("type")
  /\ \/ /\ alive /\ Len(typed) < TerminalRoom
        /\ LET n == Least(left, TerminalRoom - Len(typed))
           IN  /\ typed' = typed \o [i \in 1 .. n |-> "key"]
               /\ left' = left - n
               /\ program' = IF left = n THEN "service" ELSE "type"
     \/ /\ ~alive
        /\ program' = "over"
        /\ UNCHANGED <<left, typed>>
  /\ UNCHANGED <<replies, tail, asks, boot, result, painted, alive, targetVars, uiVars>>

\* reader.poll(0) tells that an object begins; q.get() waits for all of it and
\* leaves the terminal alone meanwhile.
Get ==
  /\ In("drain") /\ result > 0
  /\ program' = "get" /\ left' = ObjectSize
  /\ UNCHANGED <<replies, tail, asks, boot, result, typed, painted, alive, targetVars, uiVars>>

Receive ==
  /\ In("get")
  /\ \/ /\ result > 0
        /\ LET n == Least(left, result)
           IN  /\ result' = result - n /\ left' = left - n
               /\ program' = IF left = n THEN "drain" ELSE "get"
     \/ /\ result = 0 /\ ~alive
        /\ program' = "over"
        /\ UNCHANGED <<left, result>>
  /\ UNCHANGED <<replies, tail, asks, boot, typed, painted, alive, targetVars, uiVars>>

Drained ==
  /\ In("drain") /\ result = 0
  /\ program' = IF alive THEN "service" ELSE "over"
  /\ UNCHANGED <<left, replies, tail, asks, boot, result, typed, painted, alive, targetVars, uiVars>>

\* The turn settles, or its deadline has come.
TurnOver ==
  /\ In("service")
  /\ program' = "out"
  /\ UNCHANGED <<left, replies, tail, asks, boot, result, typed, painted, alive, targetVars, uiVars>>

Ask ==
  /\ In("out") /\ asks < MaxAsks
  /\ program' = IF alive THEN "ready" ELSE "over"
  /\ UNCHANGED <<left, replies, tail, asks, boot, result, typed, painted, alive, targetVars, uiVars>>

-----------------------------------------------------------------------------
(* The CLI *)

\* start(): the import of WIRE_MODULE starts the target's thread.
StartTarget ==
  /\ alive /\ target = "none"
  /\ target' = "load"
  /\ UNCHANGED <<progVars, boot, result, typed, painted, alive, rest, queued, uiVars>>

\* _run reads the payload; stream_turns then subscribes.
Load ==
  /\ alive /\ target = "load" /\ boot > 0
  /\ boot' = 0 /\ rest' = rest - boot
  /\ target' = IF rest = boot THEN "stream" ELSE "load"
  /\ UNCHANGED <<progVars, result, typed, painted, alive, queued, uiVars>>

Put ==
  /\ alive /\ target = "stream" /\ queued > 0
  /\ target' = "put" /\ rest' = ObjectSize /\ queued' = queued - 1
  /\ UNCHANGED <<progVars, boot, result, typed, painted, alive, uiVars>>

\* The sender has a thread of its own.
Send ==
  /\ alive /\ target = "put" /\ result < ResultRoom
  /\ LET n == Least(rest, ResultRoom - result)
     IN  /\ result' = result + n /\ rest' = rest - n
         /\ target' = IF rest = n THEN "stream" ELSE "put"
  /\ UNCHANGED <<progVars, boot, typed, painted, alive, queued, uiVars>>

\* The recorder hands an object to its subscriber; without one it is in the
\* capture file only.
Record ==
  /\ alive /\ asks > 0 /\ prompt = 0 /\ objects < MaxObjects
  /\ objects' = objects + 1
  /\ queued' = IF target \in {"none", "load"} THEN queued ELSE queued + 1
  /\ UNCHANGED <<progVars, boot, result, typed, painted, alive, target, rest,
                 canvas, waiting, prompt, queries>>

Text == [i \in 1 .. Screen |-> "text"]

\* What has been typed is read and shown.
ReadKeys ==
  /\ alive /\ typed # <<>>
  /\ OwnReader \/ canvas = <<>>
  /\ LET keys == Len(SelectSeq(typed, LAMBDA k : k = "key"))
     IN  /\ prompt' = prompt - keys
         /\ canvas' = IF canvas = <<>> /\ keys > 0 THEN Text ELSE canvas
  /\ waiting' = (waiting /\ "reply" \notin Range(typed))
  /\ typed' = <<>>
  /\ UNCHANGED <<progVars, boot, result, painted, alive, targetVars, objects, queries>>

Paint ==
  /\ alive /\ canvas # <<>> /\ Len(painted) < TerminalRoom
  /\ LET n == Least(Len(canvas), TerminalRoom - Len(painted))
     IN  /\ painted' = painted \o SubSeq(canvas, 1, n)
         /\ canvas' = SubSeq(canvas, n + 1, Len(canvas))
  /\ UNCHANGED <<progVars, boot, result, typed, alive, targetVars, waiting, prompt, objects, queries>>

\* The interface paints of its own accord, or asks what its terminal can do and
\* goes on when it has been told.
Draw ==
  /\ alive /\ canvas = <<>> /\ ~waiting
  /\ \/ canvas' = Text /\ UNCHANGED <<waiting, queries>>
     \/ /\ queries < MaxQueries
        /\ canvas' = <<"begin", "end">> /\ waiting' = TRUE /\ queries' = queries + 1
  /\ UNCHANGED <<progVars, boot, result, typed, painted, alive, targetVars, prompt, objects>>

Die ==
  /\ alive /\ alive' = FALSE
  /\ UNCHANGED <<progVars, boot, result, typed, painted, targetVars, uiVars>>

-----------------------------------------------------------------------------
Next ==
  \/ Launch \/ WriteBoot \/ Launched \/ Service \/ Reply \/ Submit \/ Type
  \/ Get \/ Receive \/ Drained \/ TurnOver \/ Ask
  \/ StartTarget \/ Load \/ Put \/ Send \/ Record \/ ReadKeys \/ Paint \/ Draw \/ Die

\* The program's thread and each thread of the CLI go on when they can.  Nobody
\* need ask, record or draw, no turn need settle, and the CLI need not die.
Fairness ==
  /\ WF_vars(WriteBoot \/ Launched \/ Reply \/ Type \/ Get \/ Receive \/ Drained)
  /\ WF_vars(Service) /\ WF_vars(Submit)
  /\ WF_vars(StartTarget \/ Load \/ Put \/ Send) /\ WF_vars(ReadKeys) /\ WF_vars(Paint)
Spec == Init /\ [][Next]_vars /\ Fairness

-----------------------------------------------------------------------------
(* Properties *)

\* Nobody waits in a circle, unless the CLI dies: (1) none of the program's calls
\* waits for a CLI that waits for the program: the launch is written, the prompt
\* typed, an object received, a query answered; (2) a CLI whose terminal is full
\* gets room again while the program launches it or is in a turn ("no risk of the
\* child blocking on a full master buffer"); (3) one that waits for an answer of
\* its terminal gets it meanwhile, also if the query comes in two reads.
NobodyWaitsForEver ==
  /\ \A call \in {"boot", "type", "get"} : program = call ~> program # call \/ ~alive
  /\ replies > 0 ~> replies = 0 \/ ~alive
  /\ Len(painted) = TerminalRoom ~>
       Len(painted) < TerminalRoom \/ program \in {"out", "over"} \/ ~alive
  /\ waiting ~> ~waiting \/ program \in {"out", "over"} \/ ~alive

\* A launch ends, with an error if the CLI is dead, whatever the size of the
\* prompt ("any prompt size works without ... the 64KB pipe-capacity deadlock").
LaunchEnds == program = "boot" ~> program # "boot"
==============================================================================
