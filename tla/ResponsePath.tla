---------------------------- MODULE ResponsePath ----------------------------
(***************************************************************************)
(* The way of a response from the CLI's connection to the program: its     *)
(* plaintext is taken apart (WireStreams), a response's events become a    *)
(* turn (TurnContents), and the turns come home in a session that ends     *)
(* each ask() by three clocks (WireSession), through channels that hold    *)
(* only so much (CliChannels).  Each part is handed the values of the one  *)
(* before and has no other state in common with it, so that a behaviour    *)
(* is about one of them.                                                   *)
(***************************************************************************)
EXTENDS WireSession, FiniteSets

CONSTANTS Connections, Addresses, Scripts, MaxPiece, Reclaim, Reuse, None,
          Clis, Replies, Histories,
          BootRoom, ResultRoom, TerminalRoom, Payloads, Prompts, ObjectSize, Screen,
          OwnReader, MaxTurns, MaxPuts, MaxQueries

VARIABLES station,    \* the part that this behaviour is about
          owner, script, written, kind, pre, dec, side, remembered, recorded,
          exchange, told, over, turns,
          program, left, replies, tail, typings, boot, pending, typed, painted, alive,
          target, rest, queued, canvas, waiting, prompt, objects, queries

W == INSTANCE WireStreams WITH sent <- written
D == INSTANCE TurnContents
C == INSTANCE CliChannels WITH asks <- typings, result <- pending,
                               MaxAsks <- MaxTurns, MaxObjects <- MaxPuts

ASSUME StreamAssumption ==
  None \notin Connections /\ MaxPiece \in Nat \ {0} /\ Reclaim \in Nat /\ Reuse \in BOOLEAN
\* A request begins with a prompt of the user, whatever its harness adds.
ASSUME ContentAssumption ==
  /\ Clis \subseteq {"agy", "codex", "kimi"} /\ Replies \subseteq Seq({"think", "text"})
  /\ \A h \in Histories : Len(h) \in Nat \ {0} /\ DOMAIN h = 1 .. Len(h) /\ h[1] = "prompt"
  /\ D!Exchanges # {}
ASSUME ChannelAssumption ==
  /\ {BootRoom, ResultRoom, TerminalRoom, ObjectSize, Screen} \subseteq Nat \ {0}
  /\ Payloads \cup Prompts \subseteq Nat \ {0} /\ OwnReader \in BOOLEAN

streamVars  == <<owner, script, written, kind, pre, dec, side, remembered, recorded>>
contentVars == <<exchange, told, over, turns>>
channelVars == <<program, left, replies, tail, typings, boot, pending, typed, painted, alive,
                 target, rest, queued, canvas, waiting, prompt, objects, queries>>
allvars     == <<sessionVars, streamVars, contentVars, channelVars, station>>

\* one initial state of the other parts is enough
PathInit ==
  /\ SessionInit /\ W!Init /\ D!Init /\ C!Init
  /\ station \in {"streams", "contents", "channels", "session"}
  /\ station # "streams" => \A a \in Addresses : side[a].blocks = None
  /\ station # "contents" => exchange = CHOOSE x \in D!Exchanges : TRUE

Streams  == station = "streams" /\ W!Next /\ UNCHANGED <<sessionVars, contentVars, channelVars, station>>
Contents == station = "contents" /\ D!Next /\ UNCHANGED <<sessionVars, streamVars, channelVars, station>>
Channels == station = "channels" /\ C!Next /\ UNCHANGED <<sessionVars, streamVars, contentVars, station>>
Session  == station = "session" /\ SessionNext /\ UNCHANGED <<streamVars, contentVars, channelVars, station>>

PathNext == Streams \/ Contents \/ Channels \/ Session

\* The fairness of CliChannels and WireSession; elsewhere none of its steps is enabled.
PathSpec == /\ PathInit /\ [][PathNext]_allvars
            /\ C!Fairness /\ WF_sessionVars(TurnStep) /\ WF_sessionVars(Tick)

----------------------------------------------------------------------------
\* What BaseCorrelator.feed takes off the wire is what agy sent.
StreamsExact == station = "streams" => W!StreamsExact
\* A decoded turn holds the reply (build_turn_from_events).
TurnsTellTheReply == station = "contents" => D!TurnsTellTheReply
\* The program and the CLI do not wait for each other (_launch, _service, ask_turn).
NobodyWaitsForEver == C!NobodyWaitsForEver
=============================================================================
