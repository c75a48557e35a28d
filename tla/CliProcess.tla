----------------------------- MODULE CliProcess -----------------------------
(***************************************************************************)
(* The life of linked CLI processes, several of which a program may launch *)
(* from different threads (WirePopen, wirecap/runtime/process.py, and its  *)
(* terminal flavour WirePtyPopen, wirecap/runtime/pty.py): which file      *)
(* descriptors a launch opens, marks as inheritable, hands to the CLI and  *)
(* gives back, wherever it fails; and how close() stops the CLI.           *)
(*                                                                         *)
(* A descriptor is named by the launch it belongs to and by its purpose,   *)
(* so that a number the system gives out again is another descriptor.      *)
(***************************************************************************)
EXTENDS FiniteSets

CONSTANTS Launches,     \* the WirePopens of the program
          Nobody        \* holds no lock; owns the descriptors all launches share

ASSUME NobodyAssumption == Nobody \notin Launches

\* The result queue is its caller's; all others are opened by the launch.
Fd == [of : Launches, kind : {"queue", "stdin", "boot_r", "boot_w", "master", "pidfd"}]
Tracker == [of |-> Nobody, kind |-> "tracker"]

Of(l, kinds) == [of : {l}, kind : kinds]
Owned(l) == Of(l, {"stdin", "boot_r", "boot_w", "master", "pidfd"})

VARIABLES
  lock,         \* the holder of _FORK_LOCK
  open,         \* descriptors open in the program
  inheritable,  \* those an exec keeps
  marked,       \* _inherited_fds: those a launch has to unmark
  pc,           \* where each launch is
  failed,       \* it is on its way out of a failed _launch()
  finalizer,    \* the descriptors its finalizer closes, once there is one
  child,        \* its CLI: "none" | "running" | "zombie" | "reaped"
  tools,        \* other processes of the CLI's process group are alive
  inherited,    \* the program's descriptors that the CLI was started with
  strayCloses   \* history: descriptors closed that were not open

fdVars == <<open, inheritable, strayCloses>>
childVars == <<child, tools, inherited>>
vars == <<lock, fdVars, marked, pc, failed, finalizer, childVars>>

Init ==
  /\ lock = Nobody
  /\ open = {Tracker} \cup UNION {Of(l, {"queue"}) : l \in Launches}
  /\ inheritable \in SUBSET {Tracker}
  /\ marked = [l \in Launches |-> {}]
  /\ pc = [l \in Launches |-> "new"]
  /\ failed = [l \in Launches |-> FALSE]
  /\ finalizer = [l \in Launches |-> {}]
  /\ child = [l \in Launches |-> "none"]
  /\ tools = [l \in Launches |-> FALSE]
  /\ inherited = [l \in Launches |-> {}]
  /\ strayCloses = {}

Goto(l, label) == pc' = [pc EXCEPT ![l] = label]

\* An except clause of _launch() is under way.
Abandon(l, label) == Goto(l, label) /\ failed' = [failed EXCEPT ![l] = TRUE]

\* os.close(); a closed descriptor has no flag.
CloseFds(S) ==
  /\ open' = open \ S
  /\ inheritable' = inheritable \ S
  /\ strayCloses' = strayCloses \cup (S \ open)

----------------------------------------------------------------------------
(* _launch() *)

\* The provider resolves the command, and may open a file for its stdin.
Resolve(l) ==
  /\ pc[l] = "new"
  /\ \E S \in SUBSET Of(l, {"stdin"}) : open' = open \cup S
  /\ \/ Goto(l, "resolved") /\ UNCHANGED failed
     \/ Abandon(l, "stop")
  /\ UNCHANGED <<lock, inheritable, strayCloses, marked, finalizer, childVars>>

\* Mutant: launches are not serialized.
PrepareUnlocked(l) ==
  /\ pc[l] = "resolved"
  /\ lock' = l
  /\ open' = open \cup Of(l, {"boot_r", "boot_w"})
  /\ LET S == {Tracker} \cup Of(l, {"queue", "boot_r"})
     IN  /\ inheritable' = inheritable \cup S
         /\ marked' = [marked EXCEPT ![l] = S \ inheritable]
  /\ Goto(l, "prepared")
  /\ UNCHANGED <<strayCloses, failed, finalizer, childVars>>

\* Under the lock: the tracker, the reading end of the new boot pipe and what
\* pickling meets are marked; pickling may fail half-way.
Prepare(l) ==
  /\ pc[l] = "resolved" /\ lock = Nobody
  /\ lock' = l
  /\ open' = open \cup Of(l, {"boot_r", "boot_w"})
  /\ \/ /\ LET S == {Tracker} \cup Of(l, {"queue", "boot_r"})
           IN  /\ inheritable' = inheritable \cup S
               /\ marked' = [marked EXCEPT ![l] = S \ inheritable]
        /\ Goto(l, "prepared") /\ UNCHANGED failed
     \/ /\ \E Q \in SUBSET Of(l, {"queue"}) :
             LET S == {Tracker} \cup Of(l, {"boot_r"}) \cup Q
             IN  /\ inheritable' = inheritable \cup S
                 /\ marked' = [marked EXCEPT ![l] = S \ inheritable]
        /\ Abandon(l, "restore")
  /\ UNCHANGED <<strayCloses, finalizer, childVars>>

\* agy watches the master; codex and kimi a pidfd, if the kernel has any.
Sentinels(l) == {{}, Of(l, {"pidfd"})}

\* pty.fork() and exec: the CLI gets what is inheritable.  The master side of its
\* terminal is open in the program from then on, and forkpty() leaves it
\* inheritable; the file for stdin is closed.
Spawn(l) ==
  /\ pc[l] = "prepared"
  /\ child' = [child EXCEPT ![l] = "running"]
  /\ inherited' = [inherited EXCEPT ![l] = inheritable]
  /\ \E sentinel \in Sentinels(l) :
       open' = (open \ Of(l, {"stdin"})) \cup Of(l, {"master"}) \cup sentinel
  /\ inheritable' = inheritable \cup Of(l, {"master"})
  /\ \/ Goto(l, "restore") /\ UNCHANGED failed
     \/ open' \cap Of(l, {"pidfd"}) = {} /\ Abandon(l, "restore")
  /\ UNCHANGED <<lock, strayCloses, marked, finalizer, tools>>

SpawnFails(l) ==
  /\ pc[l] = "prepared"
  /\ Abandon(l, "restore")
  /\ UNCHANGED <<lock, fdVars, marked, finalizer, childVars>>

\* The flags are put back, and the lock is released.
Restore(l) ==
  /\ pc[l] = "restore"
  /\ inheritable' = inheritable \ marked[l]
  /\ marked' = [marked EXCEPT ![l] = {}]
  /\ lock' = Nobody
  /\ Goto(l, IF failed[l] THEN "stop" ELSE "started")
  /\ UNCHANGED <<open, strayCloses, failed, finalizer, childVars>>

\* From here on the finalizer owns the writing end, the master and the pidfd.
InstallFinalizer(l) ==
  /\ pc[l] = "started"
  /\ finalizer' = [finalizer EXCEPT ![l] = Of(l, {"boot_w", "master", "pidfd"}) \cap open]
  /\ Goto(l, "boot")
  /\ UNCHANGED <<lock, fdVars, marked, failed, childVars>>

\* The payload is written; that fails when the CLI is gone already.
WriteBoot(l) ==
  /\ pc[l] = "boot"
  /\ \/ /\ Goto(l, "up") /\ UNCHANGED failed
        /\ CloseFds(Of(l, {"boot_r"}))
     \/ /\ Abandon(l, "stop")
        /\ UNCHANGED fdVars
  /\ UNCHANGED <<lock, marked, finalizer, childVars>>

----------------------------------------------------------------------------
(* close(), also out of a failed launch *)

Reap(l) == child' = [child EXCEPT ![l] = "reaped"]

\* poll(), by a turn that looks whether the CLI is alive.
Poll(l) ==
  /\ pc[l] = "up" /\ child[l] = "zombie"
  /\ Reap(l)
  /\ UNCHANGED <<lock, fdVars, marked, pc, failed, finalizer, tools, inherited>>

Close(l) ==
  /\ pc[l] = "up"
  /\ Goto(l, "stop")
  /\ UNCHANGED <<lock, fdVars, marked, failed, finalizer, childVars>>

\* Nothing to stop, or dead already, or SIGTERM and a wait.
Stop(l) ==
  /\ pc[l] = "stop"
  /\ \/ child[l] = "none" /\ Goto(l, "finalize") /\ UNCHANGED child
     \/ child[l] \in {"zombie", "reaped"} /\ Reap(l) /\ Goto(l, "sweep")
     \/ child[l] = "running" /\ Goto(l, "grace") /\ UNCHANGED child
  /\ UNCHANGED <<lock, fdVars, marked, failed, finalizer, tools, inherited>>

\* It died in time, or it is killed and waited for.
Grace(l) ==
  /\ pc[l] = "grace"
  /\ Reap(l)
  /\ Goto(l, "sweep")
  /\ UNCHANGED <<lock, fdVars, marked, failed, finalizer, tools, inherited>>

\* _sweep_group(): TERM, a wait, KILL, to whatever is left of the group.
SweepGroup(l) ==
  /\ pc[l] = "sweep"
  /\ tools' = [tools EXCEPT ![l] = FALSE]
  /\ Goto(l, "finalize")
  /\ UNCHANGED <<lock, fdVars, marked, failed, finalizer, child, inherited>>

RunFinalizer(l) ==
  /\ pc[l] = "finalize"
  /\ CloseFds(finalizer[l])
  /\ Goto(l, IF failed[l] THEN "abort" ELSE "over")
  /\ UNCHANGED <<lock, marked, failed, finalizer, childVars>>

\* Mutant: a failed launch closes the terminal, whoever owns it.
AbortAll(l) ==
  /\ pc[l] = "abort"
  /\ CloseFds((open \cap Of(l, {"stdin", "boot_r", "boot_w"}))
               \cup (IF child[l] = "none" THEN {} ELSE Of(l, {"master"})))
  /\ Goto(l, "over")
  /\ UNCHANGED <<lock, marked, failed, finalizer, childVars>>

\* What no finalizer owns: the file for stdin and the terminal, then both ends of
\* the pipe, the writing end only if it was not handed over.
Abort(l) ==
  /\ pc[l] = "abort"
  /\ CloseFds((open \cap Of(l, {"stdin", "boot_r"}))
               \cup (IF finalizer[l] # {} THEN {}
                     ELSE (open \cap Of(l, {"boot_w"}))
                            \cup (IF child[l] = "none" THEN {} ELSE Of(l, {"master"}))))
  /\ Goto(l, "over")
  /\ UNCHANGED <<lock, marked, failed, finalizer, childVars>>

----------------------------------------------------------------------------
(* The CLI *)

Tool(l) ==
  /\ child[l] = "running"
  /\ tools' = [tools EXCEPT ![l] = TRUE]
  /\ UNCHANGED <<lock, fdVars, marked, pc, failed, finalizer, child, inherited>>

Die(l) ==
  /\ child[l] = "running"
  /\ child' = [child EXCEPT ![l] = "zombie"]
  /\ UNCHANGED <<lock, fdVars, marked, pc, failed, finalizer, tools, inherited>>

Next == \E l \in Launches :
  \/ Resolve(l) \/ Prepare(l) \/ Spawn(l) \/ SpawnFails(l) \/ Restore(l)
  \/ InstallFinalizer(l) \/ WriteBoot(l)
  \/ Poll(l) \/ Close(l) \/ Stop(l) \/ Grace(l) \/ SweepGroup(l)
  \/ RunFinalizer(l) \/ Abort(l)
  \/ Tool(l) \/ Die(l)

Spec == Init /\ [][Next]_vars

----------------------------------------------------------------------------
AllFds == Fd \cup {Tracker}
PC == {"new", "resolved", "prepared", "restore", "started", "boot", "up",
       "stop", "grace", "sweep", "finalize", "abort", "over"}

\* Type invariant; only open descriptors have flags, and only the launch that
\* holds the lock has any to put back.
TypeOK ==
  /\ lock \in Launches \cup {Nobody}
  /\ open \subseteq AllFds /\ inheritable \subseteq open /\ strayCloses \subseteq AllFds
  /\ marked \in [Launches -> SUBSET AllFds]
  /\ \A l \in Launches : marked[l] # {} => lock = l
  /\ pc \in [Launches -> PC] /\ failed \in [Launches -> BOOLEAN]
  /\ finalizer \in [Launches -> SUBSET AllFds]
  /\ child \in [Launches -> {"none", "running", "zombie", "reaped"}]
  /\ tools \in [Launches -> BOOLEAN] /\ inherited \in [Launches -> SUBSET AllFds]

\* A CLI is started with the tracker, its own queue and its own end of the boot
\* pipe, and with no pipe or file of another launch that runs at the same time
\* ("Restore flags before another launch observes or changes them").
InheritsItsOwn ==
  \A l \in Launches :
    child[l] # "none" =>
      {fd \in inherited[l] : fd.kind # "master"}
        = {Tracker} \cup Of(l, {"queue", "boot_r"})

\* However a launch ends, by close() or by a failure anywhere in it, its CLI and
\* the group are gone, the CLI reaped, its descriptors closed, and nothing was
\* closed twice, for the number could be another thread's by then.
NothingRemains ==
  /\ strayCloses = {}
  /\ \A l \in Launches :
       pc[l] = "over" =>
         /\ open \cap Owned(l) = {}
         /\ child[l] \in {"none", "reaped"} /\ ~tools[l]
=============================================================================
