--------------------------- MODULE LocalProcesses ---------------------------
(***************************************************************************)
(* The processes that a program starts on its machine: linked CLIs and     *)
(* what they start (CliProcess, ParallelAsk), and the terminal screens     *)
(* with their tmux server and web pages (TerminalManager).  Either comes   *)
(* down as a process group or by token, and the two have no descriptor,    *)
(* lock or table in common, so that a behaviour is about one of them.      *)
(***************************************************************************)
EXTENDS ParallelAsk

CONSTANTS Threads, NoThread, Names, NoName, MaxWindows, MaxViews

VARIABLES what,     \* "clis" or "screens"
          closed, screens, name, shut, cleanups, viewers, guard, created, server,
          windows, procs, begun, shows, sessions, ttyds, viewsEnded, served, todo

T == INSTANCE TerminalManager WITH lock <- guard, ended <- viewsEnded

ASSUME ThreadAssumption == NoThread \notin Threads
ASSUME NameAssumption == NoName \notin Names
ASSUME BoundAssumption == MaxWindows \in Nat /\ MaxViews \in Nat

screenVars == <<closed, screens, name, shut, cleanups, viewers, guard, created, server,
                windows, procs, begun, shows, sessions, ttyds, viewsEnded, served, todo>>
localVars  == <<allVars, screenVars, what>>

\* one initial state of the CLIs is enough beside the screens
LocalInit ==
  /\ AskInit /\ T!Init /\ what \in {"clis", "screens"}
  /\ what = "screens" => at = "threads" /\ inheritable = {}

Clis    == what = "clis" /\ AskNext /\ UNCHANGED <<screenVars, what>>
Screens == what = "screens" /\ T!Next /\ UNCHANGED <<allVars, what>>

LocalSpec == LocalInit /\ [][Clis \/ Screens]_localVars

----------------------------------------------------------------------------
\* TerminalManager's properties of open(), views and close()
OpenScreensLive    == T!OpenScreensLive
PageShowsItsScreen == T!PageShowsItsScreen
NothingLeftBehind  == T!NothingLeftBehind
=============================================================================
