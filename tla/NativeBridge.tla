---------------------------- MODULE NativeBridge ----------------------------
(***************************************************************************)
(* The local bridge inside the Claude UI (claude/native_bridge.mjs): SDK   *)
(* clients submit prompts to the native command queue over a private       *)
(* socket, next to the human who types, and get the frames of their own    *)
(* turns back.  The UI (React component, command queue, engines) is        *)
(* modelled as unbundle.py wires it to the bridge: attach on mount, stop   *)
(* on unmount, begin / emit / finish around each turn's event loop.        *)
(***************************************************************************)
EXTENDS NativeTransport, FiniteSetsExt

CONSTANTS MaxMounts,    \* bound: mounts of the UI component
          MaxHuman,     \* bound: prompts the human types
          MaxFrames,    \* bound: frames of a turn before its last
          MaxOut,       \* 16 MiB in the code: unread output of one connection
          None          \* no host, no uuid, no prompt

VARIABLES host,         \* state.host: the mount that owns the bridge, or None
          mounts,       \* mounts so far
          listening,    \* state of the host's server: "waiting" or "listening"
          closing,      \* state.closing is not resolved
          active,       \* state.active
          pending,      \* state.pending: uuids; a uuid names its client
          conns,        \* per client: what connect() keeps
          ui            \* the native UI: its engine, queue, turns and what was typed

bvars == << host, mounts, listening, closing, active, pending, conns, ui >>
vars  == << tvars, bvars >>

ASSUME BridgeAssumption ==
    /\ {MaxMounts, MaxHuman, MaxFrames, MaxOut} \subseteq Nat /\ MaxMounts > 0
    /\ "human" \notin Clients
    /\ None \notin Clients /\ None \notin (Clients \cup {"human"} \cup Nat) \X Nat

Idle == [prompt |-> None, phase |-> "none", sent |-> 0, stopper |-> None]

Engines == 1..MaxMounts
Owner(uuid) == uuid[1]
Humans == {<< "human", i >> : i \in 1..MaxHuman}

Init ==
    /\ TInit
    /\ host = None /\ mounts = 0 /\ listening = FALSE /\ closing = FALSE
    /\ active = None /\ pending = {}
    /\ conns = [c \in Clients |-> [live |-> FALSE, busy |-> None, inited |-> FALSE]]
    /\ ui = [engine |-> 1, queue |-> {}, turn |-> [e \in Engines |-> Idle], typed |-> 0]

Turn == ui.turn[ui.engine]
IsBusy == Turn # Idle                          \* host.isBusy
EngineOf(h) == h[2]
Hosting(e) == host # None /\ EngineOf(host) = e

-----------------------------------------------------------------------------
(* send, fail and reject; each yields the new wire of the client *)

Destroyed(w) == [w EXCEPT !.bridge = "destroyed"]

Sent(w, frame) ==
    IF w.bridge # "open" THEN w
    ELSE IF Len(w.down) = MaxOut THEN Destroyed(w)
    ELSE [w EXCEPT !.down = Append(@, frame)]

Ended(w) == IF w.bridge = "open" THEN [w EXCEPT !.bridge = "ended"] ELSE w
Failed(w) == Ended(Sent(w, BridgeError))

-----------------------------------------------------------------------------
(* The frames of a connection.  A frame that has come in is received at     *)
(* once, before any other callback, unless the one before it still waits     *)
(* for the engine: then it stays in the connection's queue, here in wire.up. *)

Ends(up) == {i \in 1..Len(up) : up[i][2] = 2}        \* the line ends
Line(up) == SubSeq(up, 1, Min(Ends(up)))
Rest(up) == SubSeq(up, Min(Ends(up)) + 1, Len(up))
Whole(line) == Len(line) = 2 /\ line[1] = Part(line[2][1], 1)

Kept == UNCHANGED << tp, sdk, upsets, host, mounts, listening, closing >>

Accept(c) ==
    /\ host # None /\ listening
    /\ Connected(c)
    /\ conns' = [conns EXCEPT ![c].live = TRUE]
    /\ UNCHANGED << host, mounts, listening, closing, active, pending, ui >>

\* the next frame is received, and answered with w's frame
Arrived(c) == /\ conns[c].live /\ conns[c].busy = None /\ wire[c].bridge = "open"
              /\ Ends(wire[c].up) # {}
Takes(c, kind) == /\ Arrived(c) /\ host # None /\ Whole(Line(wire[c].up))
                  /\ Line(wire[c].up)[1][1] = kind
Taken(c) == [wire[c] EXCEPT !.up = Rest(@)]
Becomes(c, w) == wire' = [wire EXCEPT ![c] = w]

\* reject: no further frame of this connection is looked at
Reject(c) == Becomes(c, [Failed(wire[c]) EXCEPT !.up = << >>])

\* no host, or not JSON
Malformed(c) ==
    /\ Arrived(c)
    /\ host = None \/ ~Whole(Line(wire[c].up))
    /\ Reject(c) /\ UNCHANGED << conns, active, pending, ui >> /\ Kept

\* initialize awaits the engine ...
Initialize(c) ==
    /\ Takes(c, "init")
    /\ conns' = [conns EXCEPT ![c].busy = host]
    /\ Becomes(c, Taken(c)) /\ UNCHANGED << active, pending, ui >> /\ Kept

\* ... and the host may have changed meanwhile
Initialized(c) ==
    /\ conns[c].busy # None
    /\ conns' = [conns EXCEPT ![c].busy = None, ![c].inited = conns[c].busy = host]
    /\ IF conns[c].busy = host THEN Becomes(c, Sent(wire[c], Reply("init", TRUE))) ELSE Reject(c)
    /\ UNCHANGED << active, pending, ui >> /\ Kept

OwnsTurn(c) == active \in pending /\ Owner(active) = c

InterruptTurn(c) ==
    /\ Takes(c, "interrupt")
    /\ ui' = IF OwnsTurn(c) /\ IsBusy THEN [ui EXCEPT !.turn[ui.engine].stopper = c] ELSE ui
    /\ Becomes(c, Sent(Taken(c), Reply("interrupt", OwnsTurn(c))))
    /\ UNCHANGED << conns, active, pending >> /\ Kept

Acceptable(c) == conns[c].inited /\ pending = {} /\ ~IsBusy

Enqueue(c) ==
    /\ Takes(c, "query") /\ Acceptable(c)
    /\ pending' = {Prompt(c)}
    /\ ui' = [ui EXCEPT !.queue = @ \cup {Prompt(c)}]
    /\ Becomes(c, Taken(c)) /\ UNCHANGED << conns, active >> /\ Kept

\* refused, for its contents or its time, or host.enqueue fails, which takes the
\* reservation back
RefuseQuery(c) ==
    /\ Takes(c, "query")
    /\ Reject(c) /\ UNCHANGED << conns, active, pending, ui >> /\ Kept

\* the socket's 'close' event: a disconnected caller's turn still belongs to the session
Closes(c) ==
    /\ conns[c].live
    /\ \/ wire[c].bridge = "destroyed"
       \/ ~IsOpen(c) /\ ~Arrived(c)
    /\ conns' = [conns EXCEPT ![c].live = FALSE]
    /\ Becomes(c, [Destroyed(wire[c]) EXCEPT !.up = << >>])
    /\ UNCHANGED << active, pending, ui >> /\ Kept

-----------------------------------------------------------------------------
(* attach, stop, and the monitor *)

\* React mounts the component, on the same session's engine or on another one.
Attach ==
    /\ host = None /\ mounts < MaxMounts
    /\ mounts' = mounts + 1
    /\ \E e \in {ui.engine, mounts'} :
           /\ host' = << mounts', e >>
           /\ ui' = [ui EXCEPT !.engine = e]
    /\ listening' = FALSE
    /\ UNCHANGED << tvars, closing, active, pending, conns >>

\* once the previous server has closed
Listen ==
    /\ host # None /\ ~listening /\ ~closing
    /\ listening' = TRUE
    /\ UNCHANGED << tvars, host, mounts, closing, active, pending, conns, ui >>

\* the bytes on their way may be lost with the connection
Cut(w, lost) == [Destroyed(w) EXCEPT !.down = IF lost THEN << >> ELSE @]

\* Mutant: the clients stay connected.
StopLenient ==
    /\ host # None /\ Upset
    /\ host' = None /\ active' = None /\ pending' = {}
    /\ closing' = (closing \/ listening) /\ listening' = FALSE
    /\ UNCHANGED << tp, sdk, wire, mounts, conns, ui >>
\* stop, on unmount or when the server is unavailable
Stop ==
    /\ host # None /\ Upset
    /\ host' = None /\ active' = None /\ pending' = {}
    /\ closing' = (closing \/ listening) /\ listening' = FALSE
    /\ \E lost \in BOOLEAN :
           wire' = [c \in Clients |-> IF conns[c].live THEN Cut(wire[c], lost) ELSE wire[c]]
    /\ UNCHANGED << tp, sdk, mounts, conns, ui >>

\* server.close() calls back when its last connection has closed
ServerClosed ==
    /\ closing /\ \A c \in Clients : ~conns[c].live
    /\ closing' = FALSE
    /\ UNCHANGED << tvars, host, mounts, listening, active, pending, conns, ui >>

Lost == pending \ ui.queue

\* every 100 ms, while the UI is idle
Monitor ==
    /\ host # None /\ listening /\ ~IsBusy /\ Lost # {}
    /\ pending' = pending \ Lost
    /\ active' = IF active \in Lost THEN None ELSE active
    /\ wire' = [c \in Clients |-> IF \E u \in Lost : Owner(u) = c THEN Failed(wire[c]) ELSE wire[c]]
    /\ UNCHANGED << tp, sdk, upsets, host, mounts, listening, closing, conns, ui >>

-----------------------------------------------------------------------------
(* The native UI, and its calls of begin, emit and finish *)

Calls == UNCHANGED << tp, sdk, host, mounts, listening, closing, conns >>

Type ==
    /\ ui.typed < MaxHuman /\ Upset
    /\ ui' = [ui EXCEPT !.typed = @ + 1, !.queue = @ \cup {<< "human", ui.typed + 1 >>}]
    /\ UNCHANGED << wire, active, pending >> /\ Calls

\* the human takes a queued prompt back
Remove ==
    /\ Upset
    /\ \E p \in ui.queue : ui' = [ui EXCEPT !.queue = @ \ {p}]
    /\ UNCHANGED << wire, active, pending >> /\ Calls

\* the idle UI takes a prompt
StartTurn ==
    /\ ~IsBusy
    /\ \E p \in ui.queue :
           ui' = [ui EXCEPT !.queue = @ \ {p},
                            !.turn[ui.engine] = [Idle EXCEPT !.prompt = p, !.phase = "reserved"]]
    /\ UNCHANGED << wire, active, pending >> /\ Calls /\ UNCHANGED upsets

Begin(e) ==
    /\ ui.turn[e].phase = "reserved"
    /\ ui' = [ui EXCEPT !.turn[e].phase = "running"]
    /\ active' = IF ~Hosting(e) THEN active
                 ELSE IF ui.turn[e].prompt \in pending THEN ui.turn[e].prompt ELSE None
    /\ UNCHANGED << wire, pending >> /\ Calls /\ UNCHANGED upsets

\* whom the frame of a turn goes to
\* Mutant: whoever has a query pending.
ReceiversAny(e) == IF Hosting(e) THEN {Owner(u) : u \in pending} ELSE {}
Receivers(e) == IF Hosting(e) /\ ui.turn[e].prompt \in pending THEN {Owner(ui.turn[e].prompt)} ELSE {}

Emit(e, frame) ==
    wire' = [c \in Clients |-> IF c \in Receivers(e) THEN Sent(wire[c], frame) ELSE wire[c]]

Frame(e) ==
    /\ ui.turn[e].phase = "running" /\ ui.turn[e].sent < MaxFrames
    /\ ui' = [ui EXCEPT !.turn[e].sent = @ + 1]
    /\ Emit(e, TurnFrame(ui.turn[e].prompt, ui'.turn[e].sent, FALSE))
    /\ active' = IF Receivers(e) = {} THEN active ELSE ui.turn[e].prompt
    /\ UNCHANGED pending /\ Calls /\ UNCHANGED upsets

Result(e) ==
    /\ ui.turn[e].phase = "running"
    /\ ui' = [ui EXCEPT !.turn[e].phase = "ended"]
    /\ Emit(e, TurnFrame(ui.turn[e].prompt, ui.turn[e].sent + 1, TRUE))
    /\ active' = IF Receivers(e) = {} THEN active ELSE None
    /\ pending' = IF Receivers(e) = {} THEN pending ELSE pending \ {ui.turn[e].prompt}
    /\ Calls /\ UNCHANGED upsets

FinishedWire(e) == [c \in Clients |-> IF c \in Receivers(e) THEN Failed(wire[c]) ELSE wire[c]]

\* the event loop is left, after a result or without one
Finish(e) ==
    /\ ui.turn[e].phase \in {"running", "ended"}
    /\ ui' = [ui EXCEPT !.turn[e] = Idle]
    /\ wire' = FinishedWire(e)
    /\ pending' = IF Receivers(e) = {} THEN pending ELSE pending \ {ui.turn[e].prompt}
    /\ active' = IF Receivers(e) # {} /\ active = ui.turn[e].prompt THEN None ELSE active
    /\ Calls /\ UNCHANGED upsets

-----------------------------------------------------------------------------
Client(c) == ClientStep(c) /\ UNCHANGED bvars
Received(c) == \/ Malformed(c) \/ Initialize(c) \/ Initialized(c)
               \/ InterruptTurn(c) \/ Enqueue(c) \/ RefuseQuery(c)
Turns(e) == Begin(e) \/ Frame(e) \/ Result(e) \/ Finish(e)

Next == \/ \E c \in Clients : Client(c) \/ Accept(c) \/ Received(c) \/ Closes(c)
        \/ \E e \in Engines : Turns(e)
        \/ Attach \/ Listen \/ Stop \/ ServerClosed \/ Monitor
        \/ Type \/ Remove \/ StartTurn

\* What the event loops owe: callbacks and tasks that can run do, the timer fires,
\* and the UI takes its prompts and ends its turns.  One condition for all of them
\* is enough, since each of them is owed only finitely often.
Owed ==
    \/ Listen \/ ServerClosed \/ Monitor \/ StartTurn
    \/ \E e \in Engines : Begin(e) \/ Finish(e)
    \/ \E c \in Clients :
           \/ Received(c) \/ Closes(c)
           \/ /\ Write(c) \/ WriteRest(c) \/ WriteFails(c) \/ Read(c) \/ ReadEnd(c)
              /\ UNCHANGED bvars

-----------------------------------------------------------------------------
(* Half of TurnsKeptApart: what a client has read of a query is the beginning of that query's own  *)
(* turn: no frame of the human's turns, of another client's or of an        *)
(* earlier query, none missing and none twice (emit, send).                  *)
OwnAnswers ==
    \A c \in Clients : \A i \in 1..Len(sdk[c].got) :
        /\ sdk[c].got[i].of = Prompt(c)
        /\ sdk[c].got[i].index = i

(* The other half: an interrupt only ever stops the turn of the client that asked for it    *)
(* (receive, begin).                                                          *)
InterruptsOwnTurn ==
    \A e \in Engines : ui.turn[e].stopper # None => Owner(ui.turn[e].prompt) = ui.turn[e].stopper

(* Answers and interrupts stay with the client whose turn it is, although the  *)
(* UI has one queue for the human and all clients (receive, begin, emit).       *)
TurnsKeptApart == OwnAnswers /\ InterruptsOwnTurn

(* What comes in between two line ends is one frame of one write, although   *)
(* tasks write at the same time and may be cancelled halfway (write).         *)
WholeFrames ==
    \A c \in Clients : Arrived(c) => Whole(Line(wire[c].up))

(* Everything settles: a query ends with its result, or with an error or the   *)
(* end of the connection when it is refused, its prompt removed, its turn      *)
(* broken off or the UI unmounted; its place is free again, also when the      *)
(* caller has gone; and a remounted UI listens, whatever is connected to the   *)
(* server before (receive, finish, the monitor, stop, attach).                 *)
Settled == /\ \A c \in Clients : sdk[c].stage # "asking"
           /\ pending = {}
           /\ host = None \/ listening
QueriesSettle == []<>Settled
=============================================================================
