----------------------------- MODULE WireBridge -----------------------------
(***************************************************************************)
(* The native capture bridge (class PyBridge, wirecap/native/pybridge.cpp):*)
(* one worker thread that owns the embedded interpreter, a FIFO of jobs    *)
(* under one mutex, and any number of program threads that call start(),   *)
(* emit() and shutdown() in any order and at the same time.                *)
(*                                                                         *)
(* One action is one critical section of qmu_, or one access made outside  *)
(* it: emit()'s read of the atomic ready_, a notify_all() issued after the *)
(* unlock, the join, the promise.  The condition variable qcv_ is a set of *)
(* sleeping threads; a thread that leaves the set re-evaluates the         *)
(* predicate of its wait() before it goes on.                              *)
(***************************************************************************)
EXTENDS Integers, Sequences

CONSTANTS Threads,      \* program threads that call into the bridge
          Worker,       \* the bridge's own thread
          NoJob,        \* "no job in hand"
          MaxJobs       \* bound: jobs ever built by emit()

Mode == {"async", "sync"}

\* A queued event: id is its place in the order of the emit() calls, by the
\* thread whose stack holds the promise of a "sync" job.
Job == [id : 1..MaxJobs, by : Threads, mode : Mode]

ASSUME WorkerAssumption == Worker \notin Threads
ASSUME NoJobAssumption == NoJob \notin Job
ASSUME MaxJobsAssumption == MaxJobs \in Nat

VARIABLES
  ready,        \* ready_: -1 undecided, 1 accepting, 0 failed or stopped
  stop,         \* stop_
  stopped,      \* stopped_
  queue,        \* queue_
  worker,       \* where worker_main() is; "none": worker_ not joinable
  current,      \* the job the worker has popped
  asleep,       \* the threads blocked in qcv_.wait()
  pc,           \* where each program thread is inside the bridge
  job,          \* the job each thread's emit() has built
  promise,      \* the promise on each emitter's stack: 0 or the id it was fulfilled for
  issued,       \* jobs built so far (gives ids, bounded by MaxJobs)
  log           \* history: the jobs given to dispatch(), in order

sharedVars == <<ready, stop, stopped, queue>>
workerVars == <<worker, current, log>>
emitVars   == <<job, promise, issued>>
vars == <<ready, stop, stopped, queue, worker, current, asleep, pc, job,
          promise, issued, log>>

----------------------------------------------------------------------------
Init ==
  /\ ready = -1 /\ stop = FALSE /\ stopped = FALSE /\ queue = <<>>
  /\ worker = "none" /\ current = NoJob
  /\ asleep = {}
  /\ pc = [t \in Threads |-> "idle"]
  /\ job = [t \in Threads |-> NoJob]
  /\ promise = [t \in Threads |-> 0]
  /\ issued = 0
  /\ log = <<>>

Goto(t, label) == pc' = [pc EXCEPT ![t] = label]

NotifyAll == asleep' = {}

NotifyOne == \/ asleep = {} /\ UNCHANGED asleep
             \/ \E w \in asleep : asleep' = asleep \ {w}

Sleep(w) == asleep' = asleep \cup {w}

\* qcv_.wait() may return although nobody notified it.
SpuriousWakeup(w) ==
  /\ w \in asleep
  /\ asleep' = asleep \ {w}
  /\ UNCHANGED <<sharedVars, workerVars, emitVars, pc>>

----------------------------------------------------------------------------
(* start() *)

\* Refused after shutdown; otherwise the first caller creates the worker and
\* every caller waits for its verdict (or returns at once when it is in).
StartCall(t) ==
  /\ pc[t] = "idle" /\ ~stop
  /\ \/ /\ worker = "none" /\ ready = -1
        /\ worker' = "init"
        /\ Goto(t, "start") /\ Sleep(t)
        /\ UNCHANGED ready
     \/ /\ worker # "none" /\ ready = -1
        /\ Goto(t, "start") /\ Sleep(t)
        /\ UNCHANGED <<ready, worker>>
     \/ /\ worker = "none" /\ ready = -1        \* boost::thread threw
        /\ ready' = 0 /\ NotifyAll
        /\ UNCHANGED <<worker, pc>>
  /\ UNCHANGED <<stop, stopped, queue, current, log, emitVars>>

\* The predicate of start()'s wait, after a wake-up.
StartWait(t) ==
  /\ pc[t] = "start" /\ t \notin asleep
  /\ IF ready # -1
       THEN Goto(t, "idle") /\ UNCHANGED asleep
       ELSE Sleep(t) /\ UNCHANGED pc
  /\ UNCHANGED <<sharedVars, workerVars, emitVars>>

----------------------------------------------------------------------------
(* emit() *)

\* The fast path outside the mutex lets the call through only when ready_ is
\* 1; the job is then built on the caller's stack.
EmitCall(t, mode) ==
  /\ pc[t] = "idle" /\ ready = 1 /\ issued < MaxJobs
  /\ issued' = issued + 1
  /\ job' = [job EXCEPT ![t] = [id |-> issued + 1, by |-> t, mode |-> mode]]
  /\ promise' = [promise EXCEPT ![t] = 0]
  /\ Goto(t, "enqueue")
  /\ UNCHANGED <<sharedVars, workerVars, asleep>>

\* Mutant: enqueue() does not look at stop_.
EnqueueUnchecked(t) ==
  /\ pc[t] = "enqueue"
  /\ queue' = Append(queue, job[t])
  /\ NotifyOne
  /\ Goto(t, IF job[t].mode = "sync" THEN "await" ELSE "idle")
  /\ UNCHANGED <<ready, stop, stopped, workerVars, emitVars>>

\* enqueue(): refused once stop_ is set, whatever emit() read in ready_.
Enqueue(t) ==
  /\ pc[t] = "enqueue"
  /\ \/ /\ stop
        /\ Goto(t, "idle")
        /\ UNCHANGED <<queue, asleep>>
     \/ /\ ~stop
        /\ queue' = Append(queue, job[t])
        /\ NotifyOne
        /\ Goto(t, IF job[t].mode = "sync" THEN "await" ELSE "idle")
  /\ UNCHANGED <<ready, stop, stopped, workerVars, emitVars>>

\* Mutant: a synchronous emit() returns without waiting for its verdict.
EmitReturnEarly(t) ==
  /\ pc[t] = "await"
  /\ Goto(t, "idle")
  /\ UNCHANGED <<sharedVars, workerVars, emitVars, asleep>>

\* fut.get() returns; the promise leaves the stack with the call.
EmitReturn(t) ==
  /\ pc[t] = "await" /\ promise[t] # 0
  /\ Goto(t, "idle")
  /\ UNCHANGED <<sharedVars, workerVars, emitVars, asleep>>

----------------------------------------------------------------------------
(* worker_main() *)

\* The interpreter is up and the module's dispatch was found (ok), or not.
WorkerReady ==
  /\ worker = "init"
  /\ \E ok \in BOOLEAN :
       /\ ready' = IF ok /\ ~stop THEN 1 ELSE 0
       /\ worker' = IF ok THEN "loop" ELSE "exited"
  /\ NotifyAll
  /\ UNCHANGED <<stop, stopped, queue, current, log, emitVars, pc>>

\* Mutant: stop_ is looked at before the queue.
WorkerFetchStopFirst ==
  /\ worker = "loop" /\ Worker \notin asleep
  /\ \/ /\ stop
        /\ worker' = "exited"
        /\ UNCHANGED <<queue, current, asleep>>
     \/ /\ ~stop /\ queue # <<>>
        /\ current' = Head(queue)
        /\ queue' = Tail(queue)
        /\ worker' = "dispatch"
        /\ UNCHANGED asleep
     \/ /\ queue = <<>> /\ ~stop
        /\ Sleep(Worker)
        /\ UNCHANGED <<worker, queue, current>>
  /\ UNCHANGED <<ready, stop, stopped, log, emitVars, pc>>

\* The top of the loop: pop a job, or leave when stopped and drained, or wait.
WorkerFetch ==
  /\ worker = "loop" /\ Worker \notin asleep
  /\ \/ /\ queue # <<>>
        /\ current' = Head(queue)
        /\ queue' = Tail(queue)
        /\ worker' = "dispatch"
        /\ UNCHANGED asleep
     \/ /\ queue = <<>> /\ stop
        /\ worker' = "exited"
        /\ UNCHANGED <<queue, current, asleep>>
     \/ /\ queue = <<>> /\ ~stop
        /\ Sleep(Worker)
        /\ UNCHANGED <<worker, queue, current>>
  /\ UNCHANGED <<ready, stop, stopped, log, emitVars, pc>>

\* run_dispatch(): Python sees the job; it returns or raises, never unwinds.
WorkerDispatch ==
  /\ worker = "dispatch"
  /\ log' = Append(log, current)
  /\ worker' = "reply"
  /\ UNCHANGED <<sharedVars, current, emitVars, asleep, pc>>

\* set_value() through the job's pointer into the emitter's stack.
WorkerReply ==
  /\ worker = "reply"
  /\ promise' = IF current.mode = "sync"
                  THEN [promise EXCEPT ![current.by] = current.id]
                  ELSE promise
  /\ current' = NoJob
  /\ worker' = "loop"
  /\ UNCHANGED <<sharedVars, log, job, issued, asleep, pc>>

----------------------------------------------------------------------------
(* shutdown() *)

\* The first caller closes the bridge; a later one returns if the teardown is
\* over (no step) and waits for it otherwise.
ShutdownCall(t) ==
  /\ pc[t] = "idle" /\ ~stopped
  /\ \/ /\ ~stop
        /\ stop' = TRUE /\ ready' = 0
        /\ Goto(t, "notify")
        /\ UNCHANGED asleep
     \/ /\ stop
        /\ Goto(t, "wait_stopped") /\ Sleep(t)
        /\ UNCHANGED <<stop, ready>>
  /\ UNCHANGED <<stopped, queue, workerVars, emitVars>>

ShutdownNotify(t) ==
  /\ pc[t] = "notify"
  /\ NotifyAll
  /\ Goto(t, "join")
  /\ UNCHANGED <<sharedVars, workerVars, emitVars>>

ShutdownJoin(t) ==
  /\ pc[t] = "join"
  /\ worker \in {"none", "exited"}
  /\ Goto(t, "joined")
  /\ UNCHANGED <<sharedVars, workerVars, emitVars, asleep>>

ShutdownDone(t) ==
  /\ pc[t] = "joined"
  /\ stopped' = TRUE
  /\ Goto(t, "notify_done")
  /\ UNCHANGED <<ready, stop, queue, workerVars, emitVars, asleep>>

ShutdownReturn(t) ==
  /\ pc[t] = "notify_done"
  /\ NotifyAll
  /\ Goto(t, "idle")
  /\ UNCHANGED <<sharedVars, workerVars, emitVars>>

\* The predicate of a later caller's wait, after a wake-up.
ShutdownWait(t) ==
  /\ pc[t] = "wait_stopped" /\ t \notin asleep
  /\ IF stopped
       THEN Goto(t, "idle") /\ UNCHANGED asleep
       ELSE Sleep(t) /\ UNCHANGED pc
  /\ UNCHANGED <<sharedVars, workerVars, emitVars>>

----------------------------------------------------------------------------
\* Steps a thread already inside the bridge takes by itself.
ThreadStep(t) ==
  \/ StartWait(t) \/ Enqueue(t) \/ EmitReturn(t)
  \/ ShutdownNotify(t) \/ ShutdownJoin(t) \/ ShutdownDone(t)
  \/ ShutdownReturn(t) \/ ShutdownWait(t)

WorkerStep == WorkerReady \/ WorkerFetch \/ WorkerDispatch \/ WorkerReply

Next ==
  \/ \E t \in Threads :
       \/ StartCall(t) \/ ShutdownCall(t)
       \/ \E mode \in Mode : EmitCall(t, mode)
       \/ ThreadStep(t)
  \/ WorkerStep
  \/ \E w \in Threads \cup {Worker} : SpuriousWakeup(w)

\* Threads and the worker are scheduled and dispatch() returns; nothing makes a
\* program call the bridge, and no wake-up comes for free.
Fairness == /\ \A t \in Threads : WF_vars(ThreadStep(t))
            /\ WF_vars(WorkerStep)

Spec == Init /\ [][Next]_vars /\ Fairness

----------------------------------------------------------------------------
ThreadPC == {"idle", "start", "enqueue", "await", "notify", "join", "joined",
             "notify_done", "wait_stopped"}
WorkerPC == {"none", "init", "loop", "dispatch", "reply", "exited"}

\* Type invariant of the bridge's fields, the worker and the calling threads.
TypeOK ==
  /\ ready \in {-1, 0, 1}
  /\ stop \in BOOLEAN /\ stopped \in BOOLEAN
  /\ queue \in Seq(Job)
  /\ worker \in WorkerPC
  /\ current \in Job \cup {NoJob}
  /\ asleep \subseteq Threads \cup {Worker}
  /\ pc \in [Threads -> ThreadPC]
  /\ job \in [Threads -> Job \cup {NoJob}]
  /\ promise \in [Threads -> 0..MaxJobs]
  /\ issued \in 0..MaxJobs
  /\ log \in Seq(Job)

\* The job whose promise the worker may still write to.
Unanswered == {queue[i] : i \in 1..Len(queue)}
                \cup (IF worker \in {"dispatch", "reply"} THEN {current} ELSE {})

\* The pointer a queued synchronous job holds into its emitter's stack is
\* never dangling: that emitter is still blocked in the emit() that built the
\* job, and nobody has answered it (pybridge.cpp: job.result, emit).
PromiseOnLiveStack ==
  \A j \in Unanswered :
    j.mode = "sync" => /\ pc[j.by] = "await"
                       /\ job[j.by] = j
                       /\ promise[j.by] = 0

\* No emitter waits for a worker that will not answer: a thread blocked in
\* fut.get() has been answered, or its job is still ahead of a live worker.
NoStrandedEmitter ==
  \A t \in Threads :
    pc[t] = "await" =>
      \/ promise[t] = job[t].id
      \/ job[t] \in Unanswered /\ worker \in {"loop", "dispatch", "reply"}

\* The one condition variable carries three signals; none is lost, although
\* enqueue() wakes only one sleeper and shutdown() notifies after unlocking:
\* a thread sleeps on a true predicate only while a notify_all() is due.
NoLostWakeup ==
  /\ Worker \in asleep =>
       /\ queue = <<>>
       /\ stop => \E t \in Threads : pc[t] = "notify"
  /\ \A t \in asleep \cap Threads :
       /\ pc[t] = "start" /\ ready # -1 => \E u \in Threads : pc[u] = "notify"
       /\ pc[t] = "wait_stopped" /\ stopped =>
            \E u \in Threads : pc[u] = "notify_done"

----------------------------------------------------------------------------
InHand == IF worker = "dispatch" THEN <<current>> ELSE <<>>

Phase == IF stopped THEN "finished"
         ELSE IF stop THEN "closing"
         ELSE IF ready = 1 THEN "open" ELSE "closed"

Delivery == INSTANCE EventDelivery
              WITH Event <- Job, pending <- InHand \o queue,
                   delivered <- log, phase <- Phase

\* The bridge implements EventDelivery: events accepted are delivered once, in
\* order, and all of them before a shutdown() returns.
DeliversEvents == Delivery!Init /\ [][Delivery!Next]_(Delivery!vars)
=============================================================================
