------------------------------ MODULE AgyHost ------------------------------
(***************************************************************************)
(* The agy host as a user of the capture bridge: agy_init() starts the     *)
(* bridge before Go runs and enables the books only when it came up        *)
(* (antigravity/src/antigravity.cpp); afterwards any Go thread may hit a   *)
(* book, and any number of them may call os.Exit, whose book marks the end *)
(* of the capture synchronously and then tears the bridge down before the  *)
(* process leaves (agy_on_exit, antigravity/src/gocall.cpp).  The process  *)
(* may also be killed at any point.                                        *)
(*                                                                         *)
(* The other hosts, the Rust shim in Codex and the addon in Kimi, are      *)
(* libraries: their programs may start, emit to and shut down the bridge   *)
(* from any thread in any order (wirecap.h), which is a process of its own *)
(* kind here, "library".                                                   *)
(***************************************************************************)
EXTENDS WireBridge

CONSTANTS Main,         \* the thread that runs agy_init()
          MaxEvents     \* bound: jobs left to the asynchronous books

ASSUME MainAssumption == Main \in Threads
ASSUME MaxEventsAssumption == MaxEvents \in 0..MaxJobs

VARIABLES process,      \* "loaded" | "starting" | "running" | "exited" | "killed",
                        \* or "library": the bridge in a host without books
          books,        \* the trampolines call into the bridge
          exit          \* each thread's way through the os.Exit book

hostVars == <<process, books, exit>>
allVars == <<vars, hostVars>>

HostInit == /\ Init
            /\ process \in {"loaded", "library"}
            /\ books = FALSE
            /\ exit = [t \in Threads |-> "no"]

Alive == process \notin {"exited", "killed"}

\* A library's program calls the bridge when and where it likes.
LibraryCall(t) ==
  /\ process = "library"
  /\ \/ StartCall(t)
     \/ ShutdownCall(t)
     \/ issued < MaxJobs - 1 /\ \E mode \in Mode : EmitCall(t, mode)
  /\ UNCHANGED hostVars

\* agy_init() up to the wait inside wire_start().
LoadBridge == /\ process = "loaded"
              /\ StartCall(Main)
              /\ process' = "starting"
              /\ UNCHANGED <<books, exit>>

\* wire_start() has returned; the books stay off when it failed.
EnterGo == /\ process = "starting" /\ pc[Main] = "idle"
           /\ process' = "running"
           /\ books' = (ready = 1)
           /\ UNCHANGED <<vars, exit>>

\* A logging book fires on a Go thread.
Book(t) == /\ process = "running" /\ books /\ exit[t] = "no"
           /\ issued < MaxEvents
           /\ EmitCall(t, "async")
           /\ UNCHANGED hostVars

\* Mutant: the exit marker is emitted like any other book.
ExitBookAsync(t) ==
  /\ process = "running" /\ books /\ exit[t] = "no" /\ pc[t] = "idle"
  /\ IF ready = 1 THEN EmitCall(t, "async") ELSE UNCHANGED vars
  /\ exit' = [exit EXCEPT ![t] = "marking"]
  /\ UNCHANGED <<process, books>>

\* os.Exit: the end-of-capture marker first, and the caller waits for it.
ExitBook(t) ==
  /\ process = "running" /\ books /\ exit[t] = "no" /\ pc[t] = "idle"
  /\ IF ready = 1 THEN EmitCall(t, "sync") ELSE UNCHANGED vars
  /\ exit' = [exit EXCEPT ![t] = "marking"]
  /\ UNCHANGED <<process, books>>

\* Then wire_shutdown(), whether or not the marker was taken.
ExitTeardown(t) ==
  /\ exit[t] = "marking" /\ pc[t] = "idle" /\ Alive
  /\ IF stopped THEN UNCHANGED vars ELSE ShutdownCall(t)
  /\ exit' = [exit EXCEPT ![t] = "closing"]
  /\ UNCHANGED <<process, books>>

\* The book returns and Go's os.Exit ends every thread at once.
Leave(t) ==
  /\ exit[t] = "closing" /\ pc[t] = "idle" /\ Alive
  /\ process' = "exited"
  /\ UNCHANGED <<vars, books, exit>>

\* A killed host leaves its capture cut; a library's is of no more interest.
Kill == /\ Alive /\ process # "library"
        /\ process' = "killed"
        /\ UNCHANGED <<vars, books, exit>>

BridgeStep == /\ Alive
              /\ \/ \E t \in Threads : ThreadStep(t)
                 \/ WorkerStep
                 \/ \E w \in Threads \cup {Worker} : SpuriousWakeup(w)
              /\ UNCHANGED hostVars

ExitStep(t) == ExitTeardown(t) \/ Leave(t)

HostNext == \/ LoadBridge \/ EnterGo \/ BridgeStep \/ Kill
            \/ \E t \in Threads : LibraryCall(t) \/ Book(t) \/ ExitBook(t) \/ ExitStep(t)

\* The scheduler runs the bridge's threads and whoever is inside os.Exit.
HostSpec ==
  /\ HostInit /\ [][HostNext]_allVars
  /\ \A t \in Threads :
       /\ WF_allVars(Alive /\ ThreadStep(t) /\ UNCHANGED hostVars)
       /\ WF_allVars(ExitStep(t))
  /\ WF_allVars(Alive /\ WorkerStep /\ UNCHANGED hostVars)

----------------------------------------------------------------------------
\* A process that left through os.Exit leaves a complete capture: a marker is
\* in it, and so is every event the bridge accepted, whichever threads were
\* emitting or exiting at the time (agy_process/__init__.py, on_exit: "a
\* capture that ends without this marker was truncated").
CompleteCapture ==
  process = "exited" =>
    /\ \E i \in 1..Len(log) : log[i].mode = "sync"
    /\ queue = <<>> /\ worker = "exited"

\* Every call into the bridge returns, whatever the other threads call, and
\* threads that race into os.Exit do not hold each other up: the process leaves.
\* Both, unless the process is killed first.
EveryCallReturns ==
  \A t \in Threads : /\ pc[t] # "idle" ~> pc[t] = "idle" \/ ~Alive
                     /\ exit[t] # "no" ~> ~Alive
=============================================================================
