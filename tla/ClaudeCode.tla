----------------------------- MODULE ClaudeCode -----------------------------
(***************************************************************************)
(* The two ways in which a program uses Claude Code through pyclaude:      *)
(* attach_terminal() joins a UI that a human also uses (NativeBridge), and *)
(* Session runs the CLI itself, turn by turn (ClaudeSession).  They share  *)
(* nothing while they run, so a behaviour takes one of the two ways.        *)
(***************************************************************************)
EXTENDS NativeBridge

CONSTANTS Callers,      \* threads that use a Session
          MaxTurns      \* bound: turns of a Session

ASSUME SessionAssumption == None \notin Callers /\ None \notin Nat /\ MaxTurns \in Nat

VARIABLES way,          \* "attach" or "session"
          session, running, store, latest, started, seen, clash

svars   == << session, running, store, latest, started, seen, clash >>
allvars == << vars, svars, way >>

S == INSTANCE ClaudeSession WITH NoId <- None

\* whoever joins a UI leaves the Session alone: one initial state of it is enough
CodeInit ==
    /\ Init /\ S!Init /\ way \in {"attach", "session"}
    /\ way = "attach" => session.flags = "none" /\ session.id = None /\ ~session.fork

Attached  == way = "attach" /\ Next /\ UNCHANGED << svars, way >>
InSession == way = "session" /\ S!Next /\ UNCHANGED << vars, way >>

CodeNext == Attached \/ InSession

CodeSpec == /\ CodeInit /\ [][CodeNext]_allvars
            /\ WF_allvars(way = "attach" /\ Owed /\ UNCHANGED << svars, way >>)

\* ClaudeSession's property of a Session's follow-ups (Session.ask_async, _remember)
TurnsContinue == S!TurnsContinue
=============================================================================
