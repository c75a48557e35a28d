-------------------------- MODULE NativeTransport --------------------------
(***************************************************************************)
(* NativeTransport: a Claude SDK client's own connection to the socket of  *)
(* a running Claude UI (claude/pyclaude/transport.py), driven by the tasks *)
(* of the SDK client that attach_terminal() returns: one connects, one     *)
(* reads, and any number write.  A write goes out in parts, so that a task *)
(* may be cancelled, or another one run, in the middle of a frame.         *)
(***************************************************************************)
EXTENDS Naturals, Sequences

CONSTANTS Clients,      \* SDK clients, each with a transport of its own
          MaxQueries,   \* bound: queries of one client
          MaxUpsets     \* bound: times that a caller, the human or the UI cuts in

VARIABLES tp,           \* the transports
          sdk,          \* the SDK clients that use them
          wire,         \* the sockets
          upsets        \* how often that happened

tvars == << tp, sdk, wire, upsets >>

\* the frames of a client are "init", "query" and "interrupt"; each is sent in two parts
Part(f, p) == << f, p >>

\* An answer of the bridge: to a control request, the i-th frame of the turn
\* of a prompt, or the error that ends the connection.
Reply(f, ok) == [kind |-> "reply", to |-> f, ok |-> ok]
TurnFrame(prompt, i, last) ==
    [kind |-> "turn", of |-> prompt, index |-> i, last |-> last]
BridgeError == [kind |-> "error"]

TInit ==
    /\ tp = [c \in Clients |-> [closed |-> FALSE, socket |-> "none", out |-> << >>, want |-> {}]]
    /\ sdk = [c \in Clients |-> [stage |-> "new", asked |-> 0, got |-> << >>]]
    /\ wire = [c \in Clients |-> [up |-> << >>, down |-> << >>, bridge |-> "none"]]
    /\ upsets = 0

Upset == upsets < MaxUpsets /\ upsets' = upsets + 1

\* read_messages and the writers run while the socket is there
IsOpen(c) == tp[c].socket = "open"

\* the uuid under which the bridge knows c's query
Prompt(c) == << c, sdk[c].asked >>

-----------------------------------------------------------------------------
(* connect *)

Connect(c) ==
    /\ sdk[c].stage = "new" /\ ~tp[c].closed /\ tp[c].socket = "none"
    /\ tp' = [tp EXCEPT ![c].socket = "opening"]
    /\ UNCHANGED << sdk, wire, upsets >>

\* The listener is there: the reader starts and the SDK writes its handshake.
Connected(c) ==
    /\ tp[c].socket = "opening" /\ ~tp[c].closed
    /\ tp' = [tp EXCEPT ![c].socket = "open", ![c].want = {"init"}]
    /\ sdk' = [sdk EXCEPT ![c].stage = "handshake"]
    /\ wire' = [wire EXCEPT ![c].bridge = "open"]
    /\ UNCHANGED upsets

\* A missing or refusing socket is retried until connect_timeout; the SDK may call again.
ConnectTimesOut(c) ==
    /\ tp[c].socket = "opening"
    /\ tp' = [tp EXCEPT ![c].socket = "none"]
    /\ UNCHANGED << sdk, wire, upsets >>

-----------------------------------------------------------------------------
(* close: the tasks inside the transport raise *)

Close(c) ==
    /\ tp' = [tp EXCEPT ![c] = [closed |-> TRUE, socket |-> "none", out |-> << >>, want |-> {}]]
    /\ sdk' = [sdk EXCEPT ![c].stage = "gone", ![c].got = << >>]
    /\ wire' = [wire EXCEPT ![c].down = << >>]

\* The SDK client's disconnect, at any time: it cancels the reader, whose
\* finally closes the transport; the running turn goes on.
Disconnect(c) == ~tp[c].closed /\ Upset /\ Close(c)

-----------------------------------------------------------------------------
(* write *)

Wants(c, f) == tp' = [tp EXCEPT ![c].want = @ \cup {f}]

SendQuery(c) ==
    /\ sdk[c].stage = "ready" /\ sdk[c].asked < MaxQueries
    /\ Wants(c, "query")
    /\ sdk' = [sdk EXCEPT ![c].stage = "asking", ![c].asked = @ + 1, ![c].got = << >>]
    /\ UNCHANGED << wire, upsets >>

\* another task of the client, at any time after the handshake
SendInterrupt(c) ==
    /\ sdk[c].stage \in {"ready", "asking"} /\ Upset
    /\ Wants(c, "interrupt")
    /\ UNCHANGED << sdk, wire >>

\* _write_lock: one task sends at a time, its first part here and then the rest
Write(c) ==
    /\ tp[c].out = << >> /\ wire[c].bridge # "destroyed"
    /\ \E f \in tp[c].want :
           /\ tp' = [tp EXCEPT ![c].want = @ \ {f}, ![c].out = << Part(f, 2) >>]
           /\ wire' = [wire EXCEPT ![c].up = Append(@, Part(f, 1))]
    /\ UNCHANGED << sdk, upsets >>

WriteRest(c) ==
    /\ tp[c].out # << >> /\ wire[c].bridge # "destroyed"
    /\ wire' = [wire EXCEPT ![c].up = Append(@, Head(tp[c].out))]
    /\ tp' = [tp EXCEPT ![c].out = Tail(@)]
    /\ UNCHANGED << sdk, upsets >>

\* the socket is dead
WriteFails(c) ==
    /\ tp[c].want # {} \/ tp[c].out # << >>
    /\ wire[c].bridge = "destroyed"
    /\ Close(c) /\ UNCHANGED upsets

\* The writing task is cancelled; the part that is out cannot be taken back.
\* Mutant: the transport stays open.
CancelWriteOpen(c) ==
    /\ tp[c].out # << >>
    /\ Upset
    /\ tp' = [tp EXCEPT ![c].out = << >>]
    /\ UNCHANGED << sdk, wire >>
CancelWrite(c) == tp[c].out # << >> /\ Upset /\ Close(c)

-----------------------------------------------------------------------------
(* read_messages, and what the SDK's reader makes of a message *)

Understood(s, m) ==
    CASE m.kind = "turn"  -> [s EXCEPT !.got = Append(@, m),
                                       !.stage = IF m.last THEN "ready" ELSE @]
      [] m.kind = "reply" -> IF m.to = "init" THEN [s EXCEPT !.stage = "ready"] ELSE s

Read(c) ==
    /\ IsOpen(c) /\ wire[c].down # << >>
    /\ LET m == Head(wire[c].down)
       IN  IF m.kind = "error" THEN Close(c) /\ UNCHANGED upsets
           ELSE /\ sdk' = [sdk EXCEPT ![c] = Understood(@, m)]
                /\ wire' = [wire EXCEPT ![c].down = Tail(@)]
                /\ UNCHANGED << tp, upsets >>

\* the end of the connection, in the middle of a frame or not
ReadEnd(c) ==
    /\ IsOpen(c) /\ wire[c].down = << >> /\ wire[c].bridge # "open"
    /\ Close(c) /\ UNCHANGED upsets

ClientStep(c) == \/ Connect(c) \/ ConnectTimesOut(c) \/ Disconnect(c) \/ SendQuery(c)
                 \/ SendInterrupt(c) \/ Write(c) \/ WriteRest(c) \/ WriteFails(c)
                 \/ CancelWrite(c) \/ Read(c) \/ ReadEnd(c)
=============================================================================
