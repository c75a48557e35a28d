------------------------------ MODULE AskClient ------------------------------
(* One use of a CLI by pyagy, pycodex or pykimi, from the launch to the        *)
(* response: ask(), a Session with several ask() calls, with and without       *)
(* capture_tail, or codex's SDKSession; the worker's sender thread that streams *)
(* the decoded turns home; the capture file; and the CLI's store, from which   *)
(* the id of the conversation is read.                                         *)
(*                                                                             *)
(* A record of an earlier run that used the same capture file is the turn Old. *)
(* Conversations 1 and 2 are in the store before, New is the one the CLI makes *)
(* when it resumes none.                                                       *)
EXTENDS TurnDecode

CONSTANT Resuming      \* the CLIs whose callers resume stored conversations

ASSUME ResumingAssumption == Resuming \subseteq Clis

VARIABLES mode,        \* "ask", "session", "sdk" (SDKSession) or "ask_sdk"
          capturing,   \* is there a capture file (capture=)
          tailing,     \* capture_tail
          leftover,    \* what the capture file holds of an earlier run
          wanted,      \* the conversation the caller asks for: 1, New, Latest or Lost
          made,        \* the store's conversation that was made last
          recent,      \* the one that was changed last
          wrote,       \* the conversation this run has written, 0 before
          from,        \* the turns recorded before stream_turns subscribed
          sent,        \* how many of recorded the sender thread is through with
          read,        \* how many of recorded the parent has read
          phase,       \* "new", "turn" (in a call), "between" or "done"
          got,         \* the turns the stream brought during this call
          id,          \* the id found, and what the run had written when it was looked up
          cursor,      \* _cap_cursor, _cap_seen, _seen: the lines earlier calls read
          returned     \* the responses so far

config == <<cli, mode, capturing, tailing, wanted>>
store  == <<made, recent, wrote>>
stream == <<from, sent, read>>
call   == <<phase, got, id, cursor, returned>>
askVars == <<config, life, work, decode, leftover, store, stream, call>>

Old == [events |-> <<[of |-> None, nth |-> 1]>>, request |-> None]
New == 3
Latest == 4            \* continue_latest
Lost == 5              \* an id that is not in the store: codex exec makes a new thread
NoId == [conv |-> 0, wrote |-> 0]
NotYet == MaxMain + 2  \* more turns than there can be

Sdk == mode \in {"sdk", "ask_sdk"}
Running == life \in {"running", "exiting"}

\* The capture file; the recorder appends each turn to it before the stream has it.
File == leftover \o (IF capturing THEN recorded ELSE <<>>)

AskInit ==
  /\ DecodeInit
  /\ mode \in IF cli = "codex" THEN {"ask", "session", "sdk", "ask_sdk"} ELSE {"ask", "session"}
  /\ capturing \in BOOLEAN    \* pykimi and pycodex's Session always capture
  /\ cli = "kimi" \/ (cli = "codex" /\ mode # "ask") => capturing
  /\ tailing \in BOOLEAN
  /\ tailing => mode = "session" /\ capturing
  /\ wanted \in {New, 1, Latest, Lost}
  /\ cli \notin Resuming => wanted = New
  /\ wanted = Lost => cli = "codex" /\ mode # "session"
  /\ leftover = <<Old>>
  /\ made = 2 /\ recent \in {1, 2} /\ wrote = 0
  /\ wanted = New => recent = made
  /\ from = NotYet /\ sent = 0 /\ read = 0
  /\ phase = "new" /\ got = <<>> /\ id = NoId /\ cursor = 0 /\ returned = <<>>

-----------------------------------------------------------------------------
(* The CLI's side *)

\* The capture file is emptied and the CLI started with the first prompt.  One
\* prompt of ask() may lead to many calls, one of a session to one.
Launch ==
  /\ ~Sdk /\ phase = "new" /\ phase' = "turn"
  /\ leftover' = IF capturing THEN <<>> ELSE leftover
  /\ life' = "running"
  /\ work' = IF mode = "ask" THEN MaxMain ELSE 1
  /\ UNCHANGED <<config, decode, store, stream, got, id, cursor, returned>>

\* SDKSession starts its server and has it start or resume a thread.  The server
\* refuses an id it does not know.
Start ==
  /\ Sdk /\ phase = "new"
  /\ leftover' = <<>>
  /\ IF wanted = Lost
     THEN phase' = "done" /\ life' = "killed" /\ UNCHANGED work
     ELSE phase' = "turn" /\ life' = "running" /\ work' = 1
  /\ UNCHANGED <<config, decode, store, stream, got, id, cursor, returned>>

\* What the command line makes of the caller's wish: an id, the latest, or none.
Resumed == IF wanted = Latest THEN recent ELSE wanted
AgyChosen == Resumed
KimiChosen == Resumed
CodexChosen == IF wanted = Lost THEN New ELSE Resumed

Chosen == CASE cli = "agy"   -> AgyChosen
            [] cli = "codex" -> CodexChosen
            [] cli = "kimi"  -> KimiChosen

\* The CLI opens the conversation it was told to resume, or makes one, before
\* it asks the model.  kimi indexes a session only when it makes it.
WriteStore ==
  /\ life = "running" /\ wrote = 0
  /\ wrote' = Chosen
  /\ recent' = Chosen
  /\ made' = IF Chosen = New THEN New ELSE made
  /\ UNCHANGED <<config, life, work, decode, leftover, stream, call>>

CliStep ==
  /\ Step
  /\ asked' # asked => wrote # 0
  /\ UNCHANGED <<config, leftover, store, stream, call>>

\* stream_turns subscribes some time after the worker is up ...
Subscribe ==
  /\ life = "running" /\ ~Sdk /\ from = NotYet
  /\ from' = Len(recorded) /\ sent' = Len(recorded) /\ read' = Len(recorded)
  /\ UNCHANGED <<config, life, work, decode, leftover, store, call>>

\* ... and puts the turns recorded from then on into the pipe, on a thread of
\* its own: what is still in its local queue when the CLI ends is lost.
SendHome ==
  /\ Running /\ from # NotYet /\ sent < Len(recorded)
  /\ sent' = sent + 1
  /\ UNCHANGED <<config, life, work, decode, leftover, store, from, read, call>>

-----------------------------------------------------------------------------
(* The parent's side *)

\* capture_conversation_id: the conversation the capture names, or that is newer
\* than in the snapshot before the run, else the newest.
AgyFound == IF wrote # 0 THEN wrote ELSE recent

\* Mutant: the threads in the order they were made.
CodexFoundMade == made
\* The newest rollout.
CodexFound == recent
\* The last entry of the index.
KimiFound == made

\* An id comes with what the run had written when it was looked up.
Id(conv) == [conv |-> conv, wrote |-> wrote]

Respond(turns, found) ==
  /\ id' = found
  /\ returned' = Append(returned, [turns |-> turns, upto |-> Len(recorded), heard |-> read, id |-> found])

\* The next object of the pipe.
Read ==
  /\ phase = "turn" /\ read < sent
  /\ read' = read + 1
  /\ got' = Append(got, recorded[read + 1])
  /\ UNCHANGED <<config, life, work, decode, leftover, store, from, sent, phase, id, cursor, returned>>

\* ask() collects until the pipe of the dead CLI is read to its end, or gives
\* up when the time is over; close() then kills what still runs.
Collected == life \in Dead => read = sent
Closed == life' = IF Running THEN "killed" ELSE life

Answer(turns, found) ==
  /\ mode = "ask" /\ phase = "turn" /\ phase' = "done"
  /\ Collected /\ Closed
  /\ Respond(turns, found)
  /\ UNCHANGED <<config, work, decode, leftover, store, stream, got, cursor>>

\* Mutant: what was streamed goes before what was captured.
CaptureOrStreamStreamed == IF got # <<>> THEN got ELSE File

\* The capture has the last word, and the stream is the fallback.
CaptureOrStream == IF capturing /\ File # <<>> THEN File ELSE got

\* agy's id, once given, is not looked up.
AgyAsk == cli = "agy" /\ Answer(CaptureOrStream, Id(IF wanted = 1 THEN 1 ELSE AgyFound))
CodexAsk == cli = "codex" /\ Answer(IF capturing /\ File # <<>> THEN File ELSE got, Id(CodexFound))
KimiAsk == cli = "kimi" /\ Answer(IF File # <<>> THEN File ELSE got, Id(KimiFound))

\* What the file holds past the cursor.
Fresh == SubSeq(File, cursor + 1, Len(File))

\* A session's turn settles whenever the loop of WireSession ends it.  The id
\* is the one that was given or found after an earlier turn, else the one found.
Settle(found) ==
  /\ mode = "session" /\ phase = "turn" /\ phase' = "between"
  /\ LET known == IF id # NoId THEN id ELSE IF wanted = 1 THEN Id(1) ELSE Id(found)
     IN  \/ /\ tailing
            /\ cursor' = Len(File)
            /\ Respond(IF Fresh # <<>> THEN Fresh ELSE got, known)
         \/ /\ ~tailing
            /\ Respond(got, known)
            /\ UNCHANGED cursor
  /\ got' = <<>>
  /\ UNCHANGED <<config, life, work, decode, leftover, store, stream>>

AgySession == cli = "agy" /\ Settle(AgyFound)
CodexSession == cli = "codex" /\ Settle(CodexFound)
KimiSession == cli = "kimi" /\ Settle(KimiFound)

NextPrompt ==
  /\ mode \in {"session", "sdk"} /\ phase = "between" /\ life = "running" /\ work < MaxMain
  /\ phase' = "turn" /\ work' = work + 1
  /\ UNCHANGED <<config, life, decode, leftover, store, stream, got, id, cursor, returned>>

\* SDKSession.ask: the slice of the capture past the cursor.  The server's
\* answer does not come the way of the capture, so the slice may lack the last
\* turns; the thread has its id from the server.  The timer kills the server
\* when the answer is late.
ReturnSlice ==
  /\ Sdk /\ phase = "turn" /\ phase' = "between"
  /\ \/ UNCHANGED life
     \/ Running /\ life' = "killed"
  /\ cursor' = Len(File)
  /\ Respond(Fresh, Id(Chosen))
  /\ UNCHANGED <<config, work, decode, leftover, store, stream, got>>

\* A failed turn closes the session and raises.
Fails ==
  /\ Sdk /\ phase = "turn" /\ phase' = "done"
  /\ Closed
  /\ UNCHANGED <<config, work, decode, leftover, store, stream, got, id, cursor, returned>>

\* close() waits for the server, which drains its bridge when it exits in time;
\* ask_sdk() then reads the whole capture.
CloseServer ==
  /\ Sdk /\ phase = "between" /\ phase' = "done"
  /\ Closed
  /\ returned' = IF mode = "ask_sdk" THEN [returned EXCEPT ![1].turns = File] ELSE returned
  /\ UNCHANGED <<config, work, decode, leftover, store, stream, got, id, cursor>>

AskNext == \/ Launch \/ Start \/ WriteStore \/ CliStep \/ Subscribe \/ SendHome
        \/ Read \/ AgyAsk \/ CodexAsk \/ KimiAsk
        \/ AgySession \/ CodexSession \/ KimiSession \/ NextPrompt
        \/ ReturnSlice \/ Fails \/ CloseServer

AskSpec == AskInit /\ [][AskNext]_askVars

-----------------------------------------------------------------------------
(* Properties *)

\* What of recorded a response begins with: what follows on the one before, and
\* in the stream not before stream_turns subscribed.
Upto(i) == IF i = 0 THEN 0 ELSE returned[i].upto
Heard(i) == IF i = 0 \/ returned[i].heard < from THEN from ELSE returned[i].heard
Streamed == SubSeq(recorded, from + 1, read)

\* A response holds the turns of its own call, each once and in their order, and
\* never a record of an earlier run that used the same file.  With a capture
\* ask() and ask_sdk() lose nothing that was recorded, although the sender
\* thread may be cut off and the parent may give up: the file has what the
\* stream lacks.  The calls of a session take up where the one before ended.
\* A session that reads the capture's tail has returned, after each call, every
\* turn recorded by then (one that the stream brings again in the next call may
\* be there twice).
ResponsesExact ==
  \A i \in DOMAIN returned :
    LET turns == returned[i].turns IN
    /\ mode = "ask" => turns = IF capturing THEN recorded ELSE Streamed
    /\ mode = "ask_sdk" /\ phase = "done" => turns = recorded
    /\ mode = "sdk" => turns = SubSeq(recorded, Upto(i - 1) + 1, Upto(i))
    /\ mode = "session" /\ ~tailing => turns = SubSeq(recorded, Heard(i - 1) + 1, returned[i].heard)
    /\ mode = "session" /\ tailing =>
         \A k \in 1 .. Upto(i) : \E j \in 1 .. i : recorded[k] \in Range(returned[j].turns)

\* The id that comes with a response names the conversation the run wrote, so
\* that a later call with that id continues it, if the run had written one when
\* the id was looked up: whatever else is in the store, and whatever was asked
\* for.
IdIsOwn ==
  \A i \in DOMAIN returned :
    returned[i].id.wrote # 0 => returned[i].id.conv = returned[i].id.wrote
=============================================================================
