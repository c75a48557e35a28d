--------------------------- MODULE ClaudeSession ---------------------------
(***************************************************************************)
(* pyclaude.Session: sequential turns of one conversation, each with a     *)
(* fresh SDK client that resumes the conversation by its id                 *)
(* (claude/pyclaude/client.py).  Threads share the session; a turn may      *)
(* succeed, fail, run out of time, be cancelled or end without a result.    *)
(***************************************************************************)
EXTENDS Naturals, Sequences, Functions

CONSTANTS Callers,      \* threads that use the session
          MaxTurns,     \* bound: turns that are started
          NoId          \* Python's None

VARIABLES session,      \* the fields of Session, and fork_session of its sdk_options
          running,      \* per caller: its turn in ask_async, or Nothing
          store,        \* the CLI's saved conversations: id -> the turns in them
          latest,       \* the conversation written last in the workspace
          started,      \* turns started so far
          seen,         \* the turns whose id the session was told, in order
          clash         \* _options refused the session's own options

svars == << session, running, store, latest, started, seen, clash >>

\* A new conversation takes the number of its first turn; 0 is an earlier one.
Nothing == [turn |-> 0, resume |-> NoId, in |-> NoId, id |-> NoId, result |-> FALSE]
Running(c) == running[c] # Nothing
Known(id) == id # NoId

\* How the caller set the session up: for a new conversation, with or without an id
\* of the caller's choice, for the latest one, or for a given one; forking or not.
Init ==
    /\ \E flags \in {"none", "new", "latest"}, id \in {NoId, 0}, fork \in BOOLEAN :
           /\ flags # "none" => id = NoId
           /\ session = [id |-> id, flags |-> flags, fork |-> fork, history |-> << >>,
                         lock |-> NoId, closed |-> FALSE]
    /\ running = [c \in Callers |-> Nothing]
    /\ store = [i \in 0..MaxTurns |-> << >>]
    /\ latest = 0 /\ started = 0 /\ seen = << >> /\ clash = FALSE

-----------------------------------------------------------------------------
(* ask_async: the lock, the options, and the turn *)

\* _options: an id to resume cannot be combined with a new or the latest conversation
Clashes == Known(session.id) /\ session.flags # "none"

MayAsk(c) == session.lock = NoId /\ ~session.closed

Ask(c) ==
    /\ ~Running(c) /\ started < MaxTurns
    /\ MayAsk(c)
    /\ IF Clashes
       THEN clash' = TRUE /\ UNCHANGED << session, running, store, latest, started, seen >>
       ELSE /\ started' = started + 1
            /\ session' = [session EXCEPT !.lock = c]
            /\ running' = [running EXCEPT ![c] = [Nothing EXCEPT !.turn = started', !.resume = session.id]]
            /\ UNCHANGED << store, latest, seen, clash >>

\* The conversation the CLI starts from: the resumed one, the latest, or none; and
\* the one it writes to.
From(c) == IF Known(running[c].resume) THEN running[c].resume
           ELSE IF session.flags = "latest" THEN latest ELSE NoId
Target(c) == IF ~Known(From(c)) \/ session.fork THEN running[c].turn ELSE From(c)

\* the CLI records the turn
Records(c) ==
    /\ Running(c) /\ ~Known(running[c].in)
    /\ LET past == IF Known(From(c)) THEN store[From(c)] ELSE << >>
       IN  store' = [store EXCEPT ![Target(c)] = Append(past, running[c].turn)]
    /\ latest' = Target(c)
    /\ running' = [running EXCEPT ![c].in = Target(c)]
    /\ UNCHANGED << session, started, seen, clash >>

\* the init message tells the id, and so does the result
Told(c, r) ==
    /\ Known(running[c].in)
    /\ running' = [running EXCEPT ![c] = [r EXCEPT !.id = r.in]]
    /\ seen' = IF Known(running[c].id) THEN seen ELSE Append(seen, running[c].turn)
    /\ UNCHANGED << session, store, latest, started, clash >>

Opened(c)  == ~Known(running[c].id) /\ Told(c, running[c])
Results(c) == ~running[c].result /\ Told(c, [running[c] EXCEPT !.result = TRUE])

-----------------------------------------------------------------------------
(* The end of a turn: _remember and the release of the lock *)

\* Mutant: only a turn that succeeded is remembered.
RememberedOk(s, r, how) ==
    IF how # "returned" THEN s
    ELSE [s EXCEPT !.history = Append(@, r), !.id = IF Known(r.id) THEN r.id ELSE @,
                   !.flags = IF Known(r.id) THEN "none" ELSE @]
Remembered(s, r, how) ==
    [s EXCEPT !.history = Append(@, r), !.id = IF Known(r.id) THEN r.id ELSE @,
              !.flags = IF Known(r.id) THEN "none" ELSE @]

Leave(c, how) ==
    /\ session' = [Remembered(session, running[c], how) EXCEPT !.lock = NoId]
    /\ running' = [running EXCEPT ![c] = Nothing]
    /\ UNCHANGED << store, latest, started, seen, clash >>

Returns(c) == running[c].result /\ Leave(c, "returned")

\* ClaudeAgentError after an error result or without a result
Fails(c) == Running(c) /\ Leave(c, "failed")

\* fail_after runs out, or the task is cancelled or loses the CLI, at any await
Interrupted(c) == Running(c) /\ ~running[c].result /\ Leave(c, "interrupted")

\* close, which refuses while a turn runs
Close(c) ==
    /\ ~Running(c) /\ session.lock = NoId /\ ~session.closed
    /\ session' = [session EXCEPT !.closed = TRUE]
    /\ UNCHANGED << running, store, latest, started, seen, clash >>

Next == \E c \in Callers : \/ Ask(c) \/ Records(c) \/ Opened(c) \/ Results(c)
                           \/ Returns(c) \/ Fails(c) \/ Interrupted(c) \/ Close(c)

Spec == Init /\ [][Next]_svars

-----------------------------------------------------------------------------
(* A turn continues all earlier ones: the conversation the CLI writes to holds *)
(* every earlier turn whose id the session was told, oldest first and none      *)
(* twice, also those that failed, ran out of time or were cancelled; and the    *)
(* session's own options never stand in the way of a follow-up (ask_async,      *)
(* _remember).                                                                   *)
Remembers(turns) ==
    /\ \A i, j \in DOMAIN turns : i < j => turns[i] < turns[j]
    /\ Range(seen) \subseteq Range(turns)
TurnsContinue ==
    /\ ~clash
    /\ \A c \in Callers : Known(running[c].id) => Remembers(store[running[c].id])
=============================================================================
