--------------------------- MODULE TerminalManager ---------------------------
(***************************************************************************)
(* Named terminal screens and their browser views, over one private tmux   *)
(* server (TerminalManager and TerminalScreen, wirecap/runtime/terminal.py;*)
(* WebTerminal, wirecap/runtime/webterm.py).  Any thread of the program    *)
(* may open and close screens and views, or close the manager.  The tables *)
(* are guarded by one lock, but what a close() has taken out of them it    *)
(* tears down without it, one callback of an ExitStack after the other.    *)
(*                                                                         *)
(* A window's number is the identity of its screen, for tmux numbers       *)
(* windows without reuse; a screen's processes are those that carry its    *)
(* token, and the worst of them ignore the hangup.                         *)
(***************************************************************************)
EXTENDS Integers, FiniteSets, Sequences, SequencesExt

CONSTANTS
  Threads,      \* threads of the program
  NoThread,     \* nobody holds _lock
  Names,        \* screen names
  NoName,       \* the name of a window no open() has returned
  MaxWindows,   \* bound: windows ever created
  MaxViews      \* bound: views ever begun

Window == 1..MaxWindows
View == 1..MaxViews
All == 0                \* what a view without a selected screen shows

VARIABLES
  closed,       \* the manager's _closed
  screens,      \* _screens
  name,         \* the name each window's screen has in it
  shut,         \* screens whose _closed is set
  cleanups,     \* _cleanups: views of all screens
  viewers,      \* _screen_cleanups: views of each screen
  lock,         \* the holder of _lock
  created,      \* windows created so far
  server,       \* the tmux server runs
  windows,      \* windows of its session
  procs,        \* screens some process of which is alive
  begun,        \* views begun so far
  shows,        \* the window a view's session is linked to, or All
  sessions,     \* views whose tmux session exists
  ttyds,        \* views whose ttyd runs
  ended,        \* views whose _closed is set
  served,       \* views whose constructor returned
  todo          \* what each thread has still to do before its call returns

tableVars == <<closed, screens, name, shut, cleanups, viewers>>
tmuxVars == <<created, server, windows, procs>>
viewVars == <<begun, shows, sessions, ttyds, ended, served>>
vars == <<tableVars, lock, tmuxVars, viewVars, todo>>

Init ==
  /\ closed = FALSE /\ screens = {} /\ name = [w \in Window |-> NoName] /\ shut = {}
  /\ cleanups = <<>> /\ viewers = [w \in Window |-> <<>>]
  /\ lock = NoThread
  /\ created = 0 /\ server = TRUE /\ windows = {} /\ procs = {}
  /\ begun = 0 /\ shows = [v \in View |-> All]
  /\ sessions = {} /\ ttyds = {} /\ ended = {} /\ served = {}
  /\ todo = [t \in Threads |-> <<>>]

----------------------------------------------------------------------------
Do(op, arg) == [op |-> op, arg |-> arg, screen |-> All]
DoFor(op, arg, w) == [op |-> op, arg |-> arg, screen |-> w]

Idle(t) == todo[t] = <<>>
At(t, op) == todo[t] # <<>> /\ Head(todo[t]).op = op
Arg(t) == Head(todo[t]).arg
Begin(t, steps) == todo' = [todo EXCEPT ![t] = steps]
Instead(t, steps) == todo' = [todo EXCEPT ![t] = steps \o Tail(@)]
Done(t) == Instead(t, <<>>)

IsOpen == ~closed /\ server
Named(n) == {w \in screens : name[w] = n}

\* kill-window takes the window out of every session; a session without
\* windows is gone, too.
KillWindows(K) ==
  /\ windows' = windows \ K
  /\ sessions' = {v \in sessions : IF shows[v] = All THEN windows' # {} ELSE shows[v] \notin K}

----------------------------------------------------------------------------
(* open() *)

\* new-window, or new-session for the first screen, which tmux refuses while
\* the session exists.
Open(t, n) ==
  /\ Idle(t) /\ lock = NoThread /\ IsOpen /\ Named(n) = {}
  /\ created < MaxWindows
  /\ (screens = {}) <=> (windows = {})
  /\ created' = created + 1
  /\ windows' = windows \cup {created'} /\ procs' = procs \cup {created'}
  /\ screens' = screens \cup {created'}
  /\ name' = [name EXCEPT ![created'] = n]
  /\ UNCHANGED <<closed, shut, cleanups, viewers, lock, server, viewVars, todo>>

\* The command fails, before tmux has created the window or after it.
OpenFails(t, n) ==
  /\ Idle(t) /\ lock = NoThread /\ IsOpen /\ Named(n) = {}
  /\ lock' = t
  /\ \/ /\ Begin(t, <<Do("rollback", 0)>>)
        /\ UNCHANGED <<created, windows, procs>>
     \/ /\ (screens = {}) <=> (windows = {})
        /\ created < MaxWindows /\ created' = created + 1
        /\ windows' = windows \cup {created'} /\ procs' = procs \cup {created'}
        /\ Begin(t, <<Do("rollback", created')>>)
  /\ UNCHANGED <<tableVars, server, viewVars>>

\* Mutant: the rollback clears the whole session.
RollbackAll(t) ==
  /\ At(t, "rollback")
  /\ procs' = procs \ {Arg(t)}
  /\ KillWindows(windows)
  /\ lock' = NoThread
  /\ Done(t)
  /\ UNCHANGED <<tableVars, created, server, begun, shows, ttyds, ended, served>>

\* What this open() may have started is stopped, and every window goes that is
\* not a screen's.
Rollback(t) ==
  /\ At(t, "rollback")
  /\ procs' = procs \ {Arg(t)}
  /\ KillWindows(windows \ screens)
  /\ lock' = NoThread
  /\ Done(t)
  /\ UNCHANGED <<tableVars, created, server, begun, shows, ttyds, ended, served>>

----------------------------------------------------------------------------
(* TerminalScreen.close() *)

CloseViews(callbacks) == [i \in 1..Len(callbacks) |-> Do("view", Reverse(callbacks)[i])]

\* The locked part: the screen leaves the tables, and with the last one every
\* view of the manager.
Shut(w) ==
  /\ shut' = shut \cup {w}
  /\ screens' = screens \ {w}
  /\ viewers' = [viewers EXCEPT ![w] = <<>>]
  /\ cleanups' = IF screens' = {} THEN <<>> ELSE cleanups
  /\ UNCHANGED <<closed, name>>

\* What remains to be done without the lock, in the order of the ExitStack.
Teardown(w) ==
  CloseViews(viewers[w] \o (IF screens = {w} THEN cleanups ELSE <<>>))
    \o <<Do("procs", w), Do("window", w)>>

CloseScreen(t, w) ==
  /\ Idle(t) /\ lock = NoThread
  /\ name[w] # NoName /\ w \notin shut
  /\ Shut(w)
  /\ Begin(t, Teardown(w))
  /\ UNCHANGED <<lock, tmuxVars, viewVars>>

\* The same as a callback of the manager's close().
CloseScreenStep(t) ==
  /\ At(t, "screen") /\ lock = NoThread
  /\ IF Arg(t) \in shut
       THEN Done(t) /\ UNCHANGED tableVars
       ELSE Shut(Arg(t)) /\ Instead(t, Teardown(Arg(t)))
  /\ UNCHANGED <<lock, tmuxVars, viewVars>>

\* _stop_screen_processes(): TERM, then KILL, to all that carry the token.
StopProcesses(t) ==
  /\ At(t, "procs")
  /\ procs' = procs \ {Arg(t)}
  /\ Done(t)
  /\ UNCHANGED <<tableVars, lock, created, server, windows, viewVars>>

KillWindow(t) ==
  /\ At(t, "window")
  /\ KillWindows({Arg(t)})
  /\ Done(t)
  /\ UNCHANGED <<tableVars, lock, created, server, procs, begun, shows, ttyds, ended, served>>

----------------------------------------------------------------------------
(* TerminalManager.close() *)

\* Mutant: close() takes the common views only.
ScreenViewsNone == {}

\* Every view of a screen.
ScreenViews == UNION {Range(viewers[w]) : w \in Window}

\* The ways to go through a set; a table that is filled under the lock is in
\* the order of creation, and the ExitStack turns it.
Orders(S) == Bijection(1..Cardinality(S), S)
NewestFirst(order) == \A i, j \in DOMAIN order : i < j => order[i] > order[j]

CloseManager(t) ==
  /\ Idle(t) /\ lock = NoThread /\ ~closed
  /\ closed' = TRUE
  /\ cleanups' = <<>> /\ viewers' = [w \in Window |-> <<>>]
  /\ \E views \in Orders(ScreenViews), order \in Orders(screens) :
       /\ NewestFirst(order)
       /\ Begin(t, CloseViews(cleanups \o views)
                     \o [i \in 1..Len(order) |-> Do("screen", order[i])]
                     \o <<Do("server", 0)>>)
  /\ UNCHANGED <<screens, name, shut, lock, tmuxVars, viewVars>>

NoServer == server' = FALSE /\ windows' = {} /\ sessions' = {}

\* _stop_server(); the private directory goes next.
StopServer(t) ==
  /\ At(t, "server")
  /\ NoServer
  /\ Done(t)
  /\ UNCHANGED <<tableVars, lock, created, procs, begun, shows, ttyds, ended, served>>

\* tmux may also die by itself.
ServerDies ==
  /\ server
  /\ NoServer
  /\ UNCHANGED <<tableVars, lock, created, procs, begun, shows, ttyds, ended, served, todo>>

----------------------------------------------------------------------------
(* WebTerminal *)

\* The constructor looks the selected screen up, if any.
OpenView(t, w) ==
  /\ Idle(t) /\ lock = NoThread
  /\ begun < MaxViews /\ begun' = begun + 1
  /\ w \in screens \cup {All}
  /\ Begin(t, <<DoFor("create", begun', w)>>)
  /\ UNCHANGED <<tableVars, lock, tmuxVars, shows, sessions, ttyds, ended, served>>

\* _create_view(), which looks the name up again.
CreateView(t) ==
  /\ At(t, "create") /\ lock = NoThread
  /\ LET v == Arg(t)
         w == Head(todo[t]).screen
     IN  \/ /\ IsOpen /\ screens # {}
            /\ \E x \in IF w = All THEN {All} ELSE Named(name[w]) :
                 shows' = [shows EXCEPT ![v] = x]
            /\ sessions' = sessions \cup {v}
            /\ Instead(t, <<DoFor("serve", v, w)>>)
         \/ /\ Instead(t, <<Do("view", v)>>)
            /\ UNCHANGED <<shows, sessions>>
  /\ UNCHANGED <<tableVars, lock, tmuxVars, begun, ttyds, ended, served>>

\* ttyd is started, and becomes ready in time or not.
Serve(t) ==
  /\ At(t, "serve")
  /\ ttyds' = ttyds \cup {Arg(t)}
  /\ \/ Instead(t, <<DoFor("register", Arg(t), Head(todo[t]).screen)>>)
     \/ Instead(t, <<Do("view", Arg(t))>>)
  /\ UNCHANGED <<tableVars, lock, tmuxVars, begun, shows, sessions, ended, served>>

\* Mutant: a screen of the same name will do.
RegistersByName(w) == IsOpen /\ (w = All \/ Named(name[w]) # {})

\* _register_cleanup() refuses a manager or a selected screen that was closed
\* meanwhile, also when the name has been given to another one.
Registers(w) == IsOpen /\ (w = All \/ w \in screens)

Register(t) ==
  /\ At(t, "register") /\ lock = NoThread
  /\ LET v == Arg(t)
         w == Head(todo[t]).screen
     IN  IF Registers(w)
           THEN /\ IF w = All
                     THEN cleanups' = Append(cleanups, v) /\ UNCHANGED viewers
                     ELSE viewers' = [viewers EXCEPT ![w] = Append(@, v)] /\ UNCHANGED cleanups
                /\ served' = served \cup {v}
                /\ Done(t)
           ELSE /\ Instead(t, <<Do("view", v)>>)
                /\ UNCHANGED <<cleanups, viewers, served>>
  /\ UNCHANGED <<closed, screens, name, shut, lock, tmuxVars,
                 begun, shows, sessions, ttyds, ended>>

\* close() of a view, by the program.
CloseView(t, v) ==
  /\ Idle(t) /\ v \in served \ ended
  /\ Begin(t, <<Do("view", v)>>)
  /\ UNCHANGED <<tableVars, lock, tmuxVars, viewVars>>

\* _closed is looked at and set without a lock, so that two callers may both go
\* on; then they do the same things, or the second raises at the end.
EndView(t) ==
  /\ At(t, "view")
  /\ IF Arg(t) \in ended THEN Done(t) ELSE Instead(t, <<Do("end", Arg(t))>>)
  /\ UNCHANGED <<tableVars, lock, tmuxVars, viewVars>>

SetEnded(t) ==
  /\ At(t, "end")
  /\ ended' = ended \cup {Arg(t)}
  /\ Instead(t, <<Do("ttyd", Arg(t)), Do("session", Arg(t))>>)
  /\ UNCHANGED <<tableVars, lock, tmuxVars, begun, shows, sessions, ttyds, served>>

StopTtyd(t) ==
  /\ At(t, "ttyd")
  /\ ttyds' = ttyds \ {Arg(t)}
  /\ Done(t)
  /\ UNCHANGED <<tableVars, lock, tmuxVars, begun, shows, sessions, ended, served>>

\* close_view(): under the lock, once.
KillSession(t) ==
  /\ At(t, "session") /\ lock = NoThread
  /\ sessions' = sessions \ {Arg(t)}
  /\ Done(t)
  /\ UNCHANGED <<tableVars, lock, tmuxVars, begun, shows, ttyds, ended, served>>

----------------------------------------------------------------------------
Step(t) == \/ Rollback(t) \/ CloseScreenStep(t) \/ StopProcesses(t) \/ KillWindow(t)
           \/ StopServer(t)
           \/ CreateView(t) \/ Serve(t) \/ Register(t)
           \/ EndView(t) \/ SetEnded(t) \/ StopTtyd(t) \/ KillSession(t)

Next ==
  \/ \E t \in Threads :
       \/ \E n \in Names : Open(t, n) \/ OpenFails(t, n)
       \/ \E w \in Window : CloseScreen(t, w)
       \/ CloseManager(t)
       \/ \E w \in Window \cup {All} : OpenView(t, w)
       \/ \E v \in View : CloseView(t, v)
       \/ Step(t)
  \/ ServerDies

Spec == Init /\ [][Next]_vars

----------------------------------------------------------------------------
Op == {"rollback", "screen", "procs", "window", "server", "create", "serve", "register",
       "view", "end", "ttyd", "session"}

\* Type invariant of the tables, of tmux and of what the threads have to do.
TypeOK ==
  /\ closed \in BOOLEAN /\ screens \subseteq 1..created /\ shut \subseteq 1..created
  /\ name \in [Window -> Names \cup {NoName}]
  /\ cleanups \in Seq(View) /\ viewers \in [Window -> Seq(View)]
  /\ lock \in Threads \cup {NoThread}
  /\ created \in 0..MaxWindows /\ server \in BOOLEAN
  /\ windows \subseteq 1..created /\ procs \subseteq 1..created
  /\ begun \in 0..MaxViews /\ shows \in [View -> Window \cup {All}]
  /\ sessions \subseteq 1..begun /\ ttyds \subseteq 1..begun
  /\ ended \subseteq 1..begun /\ served \subseteq 1..begun
  /\ todo \in [Threads -> Seq([op : Op, arg : Nat, screen : Window \cup {All}])]

\* A screen in the table has its window, whichever open() fails and cleans up
\* meanwhile; names are not used twice.
OpenScreensLive ==
  /\ server => screens \subseteq windows
  /\ \A w, x \in screens : name[w] = name[x] => w = x

\* A page registered with a screen shows that screen, although its name may have
\* passed to another one while the page was made ("viewer screen is no longer
\* open").
PageShowsItsScreen == \A w \in Window : \A i \in 1..Len(viewers[w]) : shows[viewers[w][i]] = w

\* When all calls have returned, whatever their order: windows and processes
\* are those of screens in the table, pages those of such screens, and a closed
\* manager has left nothing ("always continue through panes, server and
\* directory cleanup").
NothingLeftBehind ==
  (\A t \in Threads : Idle(t)) =>
    /\ windows \cup procs \subseteq screens
    /\ sessions \cup ttyds \subseteq served
    /\ \A v \in ttyds : shows[v] \in screens \cup {All}
    /\ closed => screens \cup windows \cup procs \cup sessions \cup ttyds = {} /\ ~server
=============================================================================
