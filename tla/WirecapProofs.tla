--------------------------- MODULE WirecapProofs ---------------------------
(***************************************************************************)
(* Theorems about the two ends of wirecap: the bridge in the CLI, with its *)
(* host AgyHost, for any number of threads and jobs; the session in the    *)
(* program, for any number of objects and prompts and any clocks; and what *)
(* a turn tells of a response, for any reply and any form of stream.       *)
(*                                                                         *)
(* The bridge's inductive invariant says, in five parts, who may still     *)
(* touch what: where the teardown is, what the worker holds, which emit()  *)
(* calls own which jobs, that a synchronous job is queued once, and who    *)
(* sleeps.  The host's adds how far each thread is in the book of os.Exit. *)
(* The session's says what stands in the pipe, and who asks.  That of the  *)
(* contents says of which events each turn has been made.                  *)
(***************************************************************************)
EXTENDS AgyHost, ResponsePath, SequenceTheorems, FiniteSetTheorems, WellFoundedInduction, TLAPS

WorkerAlive == worker \in {"loop", "dispatch", "reply"}

\* shutdown(): stop_ closes the bridge for good, the join waits for the worker.
TeardownInv ==
  /\ ready = 1 => ~stop /\ WorkerAlive
  /\ stopped => stop
  /\ \A t \in Threads :
       /\ pc[t] \in {"notify", "join", "joined", "notify_done", "wait_stopped"} => stop
       /\ pc[t] = "joined" => worker \in {"none", "exited"}

\* Only a live worker is ever handed a job.
WorkerInv ==
  /\ ~WorkerAlive => queue = <<>>
  /\ worker \in {"dispatch", "reply"} => current \in Job

\* What emit() has on its stack while it is inside the bridge.
EmitterInv ==
  \A t \in Threads :
    /\ pc[t] \in {"enqueue", "await"} => job[t] \in Job /\ job[t].by = t
    /\ pc[t] = "enqueue" => promise[t] = 0 /\ (~stop => ready = 1)
    /\ pc[t] = "await" => job[t].mode = "sync"

\* A synchronous job is in one place only.
SyncDistinct(q) ==
  \A i, k \in 1..Len(q) : q[i].mode = "sync" /\ q[i] = q[k] => i = k

SyncOnce ==
  /\ SyncDistinct(queue)
  /\ worker \in {"dispatch", "reply"} /\ current.mode = "sync" =>
       \A i \in 1..Len(queue) : queue[i] # current

\* Who sleeps, and that the bridge while it accepts jobs has no sleeper but
\* the worker: the one notify_one() cannot wake anybody else.
SleepInv ==
  /\ Worker \in asleep => worker = "loop"
  /\ \A t \in asleep \cap Threads : pc[t] \in {"start", "wait_stopped"}
  /\ NoLostWakeup

IInv == /\ TypeOK
        /\ TeardownInv
        /\ WorkerInv
        /\ EmitterInv
        /\ SyncOnce
        /\ SleepInv
        /\ PromiseOnLiveStack
        /\ NoStrandedEmitter

----------------------------------------------------------------------------
(* The two queue operations.                                               *)

\* What the worker's pop leaves of a queue that is not empty.
LEMMA PopFacts ==
  ASSUME NEW q \in Seq(Job), q # <<>>
  PROVE  /\ Head(q) \in Job /\ Tail(q) \in Seq(Job)
         /\ Len(q) \in Nat \ {0} /\ Head(q) = q[1]
         /\ Len(Tail(q)) = Len(q) - 1
         /\ \A i \in 1..Len(Tail(q)) : Tail(q)[i] = q[i + 1]
  BY HeadTailProperties, EmptySeq

\* What enqueue()'s push makes of a queue.
LEMMA PushFacts ==
  ASSUME NEW q \in Seq(Job), NEW j \in Job
  PROVE  /\ Append(q, j) \in Seq(Job)
         /\ Len(q) \in Nat
         /\ Len(Append(q, j)) = Len(q) + 1
         /\ \A i \in 1..Len(q) : Append(q, j)[i] = q[i]
         /\ Append(q, j)[Len(q) + 1] = j
  BY AppendProperties

Elements(q) == {q[i] : i \in 1..Len(q)}

LEMMA PopElements ==
  ASSUME NEW q \in Seq(Job), q # <<>>
  PROVE  Elements(q) = Elements(Tail(q)) \cup {Head(q)}
<1>1. /\ Len(q) \in Nat \ {0} /\ Len(Tail(q)) = Len(q) - 1 /\ Head(q) = q[1]
      /\ \A i \in 1..Len(Tail(q)) : Tail(q)[i] = q[i + 1]
  BY PopFacts
<1>2. \A i \in 1..Len(Tail(q)) : i + 1 \in 1..Len(q)
  BY <1>1
<1>3. \A i \in 1..Len(q) : \/ i = 1
                           \/ i - 1 \in 1..Len(Tail(q)) /\ (i - 1) + 1 = i
  BY <1>1
<1>4. 1 \in 1..Len(q)
  BY <1>1
<1>5. Elements(q) \subseteq Elements(Tail(q)) \cup {Head(q)}
  BY <1>1, <1>3 DEF Elements
<1>6. Elements(Tail(q)) \cup {Head(q)} \subseteq Elements(q)
  BY <1>1, <1>2, <1>4 DEF Elements
<1>7. QED
  BY <1>5, <1>6

LEMMA PushElements ==
  ASSUME NEW q \in Seq(Job), NEW j \in Job
  PROVE  Elements(Append(q, j)) = Elements(q) \cup {j}
<1>1. /\ Len(q) \in Nat /\ Len(Append(q, j)) = Len(q) + 1
      /\ \A i \in 1..Len(q) : Append(q, j)[i] = q[i]
      /\ Append(q, j)[Len(q) + 1] = j
  BY PushFacts
<1>2. \A i \in 1..Len(Append(q, j)) : i \in 1..Len(q) \/ i = Len(q) + 1
  BY <1>1
<1>3. /\ 1..Len(q) \subseteq 1..Len(Append(q, j))
      /\ Len(q) + 1 \in 1..Len(Append(q, j))
  BY <1>1
<1>4. QED
  BY <1>1, <1>2, <1>3 DEF Elements

\* Whatever is unanswered is a job.
LEMMA UnansweredJobs == TypeOK /\ WorkerInv => Unanswered \subseteq Job
  BY ElementOfSeq DEF TypeOK, WorkerInv, Unanswered

\* Neither operation makes two of one synchronous job.
LEMMA PopDistinct ==
  ASSUME NEW q \in Seq(Job), q # <<>>, SyncDistinct(q)
  PROVE  SyncDistinct(Tail(q))
<1>1. /\ Len(q) \in Nat \ {0} /\ Len(Tail(q)) = Len(q) - 1
      /\ \A i \in 1..Len(Tail(q)) : Tail(q)[i] = q[i + 1]
  BY PopFacts
<1>2. \A i \in 1..Len(Tail(q)) : i + 1 \in 1..Len(q)
  BY <1>1
<1>3. QED
  BY <1>1, <1>2 DEF SyncDistinct

LEMMA PushDistinct ==
  ASSUME NEW q \in Seq(Job), NEW j \in Job, SyncDistinct(q),
         j.mode = "sync" => \A i \in 1..Len(q) : q[i] # j
  PROVE  SyncDistinct(Append(q, j))
<1>1. /\ Len(q) \in Nat /\ Len(Append(q, j)) = Len(q) + 1
      /\ \A i \in 1..Len(q) : Append(q, j)[i] = q[i]
      /\ Append(q, j)[Len(q) + 1] = j
  BY PushFacts
<1>2. \A i \in 1..Len(Append(q, j)) : i \in 1..Len(q) \/ i = Len(q) + 1
  BY <1>1
<1>3. QED
  BY <1>1, <1>2 DEF SyncDistinct

----------------------------------------------------------------------------
(* The invariant holds initially, and every step keeps its type part.      *)


LEMMA InitInv == Init => IInv
<1> SUFFICES ASSUME Init PROVE IInv
  OBVIOUS
<1> USE DEF Init
<1>1. TypeOK
  <2>1. <<>> \in Seq(Job)
    OBVIOUS
  <2>2. pc \in [Threads -> ThreadPC]
    BY DEF ThreadPC
  <2>3. promise \in [Threads -> 0..MaxJobs] /\ issued \in 0..MaxJobs
    BY MaxJobsAssumption
  <2>4. job \in [Threads -> Job \cup {NoJob}] /\ current \in Job \cup {NoJob}
    OBVIOUS
  <2>5. QED
    BY <2>1, <2>2, <2>3, <2>4 DEF TypeOK, WorkerPC
<1>2. TeardownInv /\ WorkerInv /\ EmitterInv
  BY DEF TeardownInv, WorkerInv, EmitterInv, WorkerAlive
<1>3. SyncOnce
  BY DEF SyncOnce, SyncDistinct
<1>4. SleepInv
  BY DEF SleepInv, NoLostWakeup
<1>5. Unanswered = {}
  BY DEF Unanswered
<1>6. PromiseOnLiveStack /\ NoStrandedEmitter
  BY <1>5 DEF PromiseOnLiveStack, NoStrandedEmitter
<1>7. QED
  BY <1>1, <1>2, <1>3, <1>4, <1>6 DEF IInv

\* TypeOK is preserved by every step: the type invariant alone is inductive
\* once the worker is known to hold a job when it handles one.
LEMMA TypeStep == IInv /\ [Next]_vars => TypeOK'
<1> SUFFICES ASSUME IInv, [Next]_vars PROVE TypeOK'
  OBVIOUS
<1> USE MaxJobsAssumption DEF IInv, TypeOK, Goto, Sleep, sharedVars, workerVars, emitVars
<1>1. ASSUME NEW t \in Threads, StartCall(t) PROVE TypeOK'
  BY <1>1 DEF StartCall, NotifyAll, ThreadPC, WorkerPC
<1>2. ASSUME NEW t \in Threads, ShutdownCall(t) PROVE TypeOK'
  BY <1>2 DEF ShutdownCall, ThreadPC
<1>3. ASSUME NEW t \in Threads, NEW mode \in Mode, EmitCall(t, mode) PROVE TypeOK'
  BY <1>3 DEF EmitCall, ThreadPC, Job
<1>4. ASSUME NEW t \in Threads, StartWait(t) PROVE TypeOK'
  BY <1>4 DEF StartWait, ThreadPC
<1>5. ASSUME NEW t \in Threads, Enqueue(t) PROVE TypeOK'
  <2>1. job[t] \in Job
    BY <1>5 DEF Enqueue, EmitterInv
  <2>2. Append(queue, job[t]) \in Seq(Job)
    BY <2>1, PushFacts
  <2>3. QED
    BY <1>5, <2>2 DEF Enqueue, NotifyOne, ThreadPC
<1>6. ASSUME NEW t \in Threads, EmitReturn(t) PROVE TypeOK'
  BY <1>6 DEF EmitReturn, ThreadPC
<1>7. ASSUME NEW t \in Threads, ShutdownNotify(t) PROVE TypeOK'
  BY <1>7 DEF ShutdownNotify, NotifyAll, ThreadPC
<1>8. ASSUME NEW t \in Threads, ShutdownJoin(t) PROVE TypeOK'
  BY <1>8 DEF ShutdownJoin, ThreadPC
<1>9. ASSUME NEW t \in Threads, ShutdownDone(t) PROVE TypeOK'
  BY <1>9 DEF ShutdownDone, ThreadPC
<1>10. ASSUME NEW t \in Threads, ShutdownReturn(t) PROVE TypeOK'
  BY <1>10 DEF ShutdownReturn, NotifyAll, ThreadPC
<1>11. ASSUME NEW t \in Threads, ShutdownWait(t) PROVE TypeOK'
  BY <1>11 DEF ShutdownWait, ThreadPC
<1>12. ASSUME WorkerReady PROVE TypeOK'
  BY <1>12 DEF WorkerReady, NotifyAll, WorkerPC
<1>13. ASSUME WorkerFetch PROVE TypeOK'
  <2>1. CASE queue # <<>>
    BY <1>13, <2>1, PopFacts DEF WorkerFetch, WorkerPC
  <2>2. CASE queue = <<>>
    BY <1>13, <2>2 DEF WorkerFetch, WorkerPC
  <2>3. QED
    BY <2>1, <2>2
<1>14. ASSUME WorkerDispatch PROVE TypeOK'
  BY <1>14 DEF WorkerDispatch, WorkerPC, WorkerInv
<1>15. ASSUME WorkerReply PROVE TypeOK'
  BY <1>15 DEF WorkerReply, WorkerPC, WorkerInv, Job
<1>16. ASSUME NEW w \in Threads \cup {Worker}, SpuriousWakeup(w) PROVE TypeOK'
  BY <1>16 DEF SpuriousWakeup
<1>17. CASE UNCHANGED vars
  BY <1>17 DEF vars
<1>18. QED
  BY <1>1, <1>2, <1>3, <1>4, <1>5, <1>6, <1>7, <1>8, <1>9, <1>10, <1>11,
     <1>12, <1>13, <1>14, <1>15, <1>16, <1>17
  DEF Next, ThreadStep, WorkerStep

\* stop_ is final, and the join returns only when the worker has left.
LEMMA TeardownStep == IInv /\ [Next]_vars => TeardownInv'
<1> SUFFICES ASSUME IInv, [Next]_vars PROVE TeardownInv'
  OBVIOUS
<1> USE DEF IInv, TypeOK, TeardownInv, WorkerAlive, Goto, sharedVars, workerVars, emitVars
<1>1. ASSUME NEW t \in Threads, StartCall(t) PROVE TeardownInv'
  BY <1>1 DEF StartCall, NotifyAll, Sleep
<1>2. ASSUME NEW t \in Threads, ShutdownCall(t) PROVE TeardownInv'
  BY <1>2 DEF ShutdownCall, Sleep
<1>3. ASSUME NEW t \in Threads, NEW mode \in Mode, EmitCall(t, mode) PROVE TeardownInv'
  BY <1>3 DEF EmitCall
<1>4. ASSUME NEW t \in Threads, StartWait(t) PROVE TeardownInv'
  BY <1>4 DEF StartWait, Sleep
<1>5. ASSUME NEW t \in Threads, Enqueue(t) PROVE TeardownInv'
  BY <1>5 DEF Enqueue, NotifyOne
<1>6. ASSUME NEW t \in Threads, EmitReturn(t) PROVE TeardownInv'
  BY <1>6 DEF EmitReturn
<1>7. ASSUME NEW t \in Threads, ShutdownNotify(t) PROVE TeardownInv'
  BY <1>7 DEF ShutdownNotify, NotifyAll
<1>8. ASSUME NEW t \in Threads, ShutdownJoin(t) PROVE TeardownInv'
  BY <1>8 DEF ShutdownJoin
<1>9. ASSUME NEW t \in Threads, ShutdownDone(t) PROVE TeardownInv'
  BY <1>9 DEF ShutdownDone
<1>10. ASSUME NEW t \in Threads, ShutdownReturn(t) PROVE TeardownInv'
  BY <1>10 DEF ShutdownReturn, NotifyAll
<1>11. ASSUME NEW t \in Threads, ShutdownWait(t) PROVE TeardownInv'
  BY <1>11 DEF ShutdownWait, Sleep
<1>12. ASSUME WorkerReady PROVE TeardownInv'
  BY <1>12 DEF WorkerReady, NotifyAll
<1>13. ASSUME WorkerFetch PROVE TeardownInv'
  BY <1>13 DEF WorkerFetch, Sleep
<1>14. ASSUME WorkerDispatch PROVE TeardownInv'
  BY <1>14 DEF WorkerDispatch
<1>15. ASSUME WorkerReply PROVE TeardownInv'
  BY <1>15 DEF WorkerReply
<1>16. ASSUME NEW w \in Threads \cup {Worker}, SpuriousWakeup(w) PROVE TeardownInv'
  BY <1>16 DEF SpuriousWakeup
<1>17. CASE UNCHANGED vars
  BY <1>17 DEF vars, NoLostWakeup, Unanswered
<1>18. QED
  BY <1>1, <1>2, <1>3, <1>4, <1>5, <1>6, <1>7, <1>8, <1>9, <1>10, <1>11,
     <1>12, <1>13, <1>14, <1>15, <1>16, <1>17
  DEF Next, ThreadStep, WorkerStep

\* A job is popped by a live worker only, and the loop is left with an empty queue.
LEMMA WorkerStepInv == IInv /\ [Next]_vars => WorkerInv'
<1> SUFFICES ASSUME IInv, [Next]_vars PROVE WorkerInv'
  OBVIOUS
<1> USE DEF IInv, TypeOK, TeardownInv, WorkerInv, WorkerAlive, Goto, sharedVars, workerVars, emitVars
<1>1. ASSUME NEW t \in Threads, StartCall(t) PROVE WorkerInv'
  BY <1>1 DEF StartCall, NotifyAll, Sleep
<1>2. ASSUME NEW t \in Threads, ShutdownCall(t) PROVE WorkerInv'
  BY <1>2 DEF ShutdownCall, Sleep
<1>3. ASSUME NEW t \in Threads, NEW mode \in Mode, EmitCall(t, mode) PROVE WorkerInv'
  BY <1>3 DEF EmitCall
<1>4. ASSUME NEW t \in Threads, StartWait(t) PROVE WorkerInv'
  BY <1>4 DEF StartWait, Sleep
<1>5. ASSUME NEW t \in Threads, Enqueue(t) PROVE WorkerInv'
  BY <1>5 DEF Enqueue, EmitterInv
<1>6. ASSUME NEW t \in Threads, EmitReturn(t) PROVE WorkerInv'
  BY <1>6 DEF EmitReturn
<1>7. ASSUME NEW t \in Threads, ShutdownNotify(t) PROVE WorkerInv'
  BY <1>7 DEF ShutdownNotify, NotifyAll
<1>8. ASSUME NEW t \in Threads, ShutdownJoin(t) PROVE WorkerInv'
  BY <1>8 DEF ShutdownJoin
<1>9. ASSUME NEW t \in Threads, ShutdownDone(t) PROVE WorkerInv'
  BY <1>9 DEF ShutdownDone
<1>10. ASSUME NEW t \in Threads, ShutdownReturn(t) PROVE WorkerInv'
  BY <1>10 DEF ShutdownReturn, NotifyAll
<1>11. ASSUME NEW t \in Threads, ShutdownWait(t) PROVE WorkerInv'
  BY <1>11 DEF ShutdownWait, Sleep
<1>12. ASSUME WorkerReady PROVE WorkerInv'
  BY <1>12 DEF WorkerReady, NotifyAll
<1>13. ASSUME WorkerFetch PROVE WorkerInv'
  BY <1>13, PopFacts DEF WorkerFetch, Sleep
<1>14. ASSUME WorkerDispatch PROVE WorkerInv'
  BY <1>14 DEF WorkerDispatch
<1>15. ASSUME WorkerReply PROVE WorkerInv'
  BY <1>15 DEF WorkerReply
<1>16. ASSUME NEW w \in Threads \cup {Worker}, SpuriousWakeup(w) PROVE WorkerInv'
  BY <1>16 DEF SpuriousWakeup
<1>17. CASE UNCHANGED vars
  BY <1>17 DEF vars, NoLostWakeup, Unanswered
<1>18. QED
  BY <1>1, <1>2, <1>3, <1>4, <1>5, <1>6, <1>7, <1>8, <1>9, <1>10, <1>11,
     <1>12, <1>13, <1>14, <1>15, <1>16, <1>17
  DEF Next, ThreadStep, WorkerStep

\* What is on an emitter's stack is its own.
LEMMA EmitterStep == IInv /\ [Next]_vars => EmitterInv'
<1> SUFFICES ASSUME IInv, [Next]_vars PROVE EmitterInv'
  OBVIOUS
<1> USE DEF IInv, TypeOK, TeardownInv, EmitterInv, Goto, sharedVars, workerVars, emitVars
<1>1. ASSUME NEW t \in Threads, StartCall(t) PROVE EmitterInv'
  BY <1>1 DEF StartCall, NotifyAll, Sleep
<1>2. ASSUME NEW t \in Threads, ShutdownCall(t) PROVE EmitterInv'
  BY <1>2 DEF ShutdownCall, Sleep
<1>3. ASSUME NEW t \in Threads, NEW mode \in Mode, EmitCall(t, mode) PROVE EmitterInv'
  <2>1. [id |-> issued + 1, by |-> t, mode |-> mode] \in Job
    BY <1>3, MaxJobsAssumption DEF EmitCall, Job
  <2>2. QED
    BY <1>3, <2>1 DEF EmitCall
<1>4. ASSUME NEW t \in Threads, StartWait(t) PROVE EmitterInv'
  BY <1>4 DEF StartWait, Sleep
<1>5. ASSUME NEW t \in Threads, Enqueue(t) PROVE EmitterInv'
  BY <1>5 DEF Enqueue, NotifyOne
<1>6. ASSUME NEW t \in Threads, EmitReturn(t) PROVE EmitterInv'
  BY <1>6 DEF EmitReturn
<1>7. ASSUME NEW t \in Threads, ShutdownNotify(t) PROVE EmitterInv'
  BY <1>7 DEF ShutdownNotify, NotifyAll
<1>8. ASSUME NEW t \in Threads, ShutdownJoin(t) PROVE EmitterInv'
  BY <1>8 DEF ShutdownJoin
<1>9. ASSUME NEW t \in Threads, ShutdownDone(t) PROVE EmitterInv'
  BY <1>9 DEF ShutdownDone
<1>10. ASSUME NEW t \in Threads, ShutdownReturn(t) PROVE EmitterInv'
  BY <1>10 DEF ShutdownReturn, NotifyAll
<1>11. ASSUME NEW t \in Threads, ShutdownWait(t) PROVE EmitterInv'
  BY <1>11 DEF ShutdownWait, Sleep
<1>12. ASSUME WorkerReady PROVE EmitterInv'
  BY <1>12 DEF WorkerReady, WorkerAlive
<1>13. ASSUME WorkerFetch PROVE EmitterInv'
  BY <1>13 DEF WorkerFetch, Sleep
<1>14. ASSUME WorkerDispatch PROVE EmitterInv'
  BY <1>14 DEF WorkerDispatch
<1>15. ASSUME WorkerReply PROVE EmitterInv'
  <2>1. \A u \in Threads :
            pc[u] = "enqueue" /\ current.mode = "sync" => current.by # u
    BY <1>15 DEF WorkerReply, PromiseOnLiveStack, Unanswered
  <2>2. QED
    BY <1>15, <2>1 DEF WorkerReply
<1>16. ASSUME NEW w \in Threads \cup {Worker}, SpuriousWakeup(w) PROVE EmitterInv'
  BY <1>16 DEF SpuriousWakeup
<1>17. CASE UNCHANGED vars
  BY <1>17 DEF vars, NoLostWakeup, Unanswered
<1>18. QED
  BY <1>1, <1>2, <1>3, <1>4, <1>5, <1>6, <1>7, <1>8, <1>9, <1>10, <1>11,
     <1>12, <1>13, <1>14, <1>15, <1>16, <1>17
  DEF Next, ThreadStep, WorkerStep

\* A synchronous job is pushed by the emitter that blocks on it, once.
LEMMA SyncOnceStep == IInv /\ [Next]_vars => SyncOnce'
<1> SUFFICES ASSUME IInv, [Next]_vars PROVE SyncOnce'
  OBVIOUS
<1> USE DEF IInv, TypeOK, SyncOnce, Goto, sharedVars, workerVars, emitVars
<1>1. ASSUME NEW t \in Threads, StartCall(t) PROVE SyncOnce'
  BY <1>1 DEF StartCall, NotifyAll, Sleep
<1>2. ASSUME NEW t \in Threads, ShutdownCall(t) PROVE SyncOnce'
  BY <1>2 DEF ShutdownCall, Sleep
<1>3. ASSUME NEW t \in Threads, NEW mode \in Mode, EmitCall(t, mode) PROVE SyncOnce'
  BY <1>3 DEF EmitCall
<1>4. ASSUME NEW t \in Threads, StartWait(t) PROVE SyncOnce'
  BY <1>4 DEF StartWait, Sleep
<1>5. ASSUME NEW t \in Threads, Enqueue(t) PROVE SyncOnce'
  <2>1. job[t] \in Job /\ job[t].by = t /\ pc[t] = "enqueue"
    BY <1>5 DEF Enqueue, EmitterInv
  <2>2. job[t].mode = "sync" => job[t] \notin Unanswered
    BY <2>1 DEF PromiseOnLiveStack
  <2>3. CASE stop
    BY <1>5, <2>3 DEF Enqueue
  <2>4. CASE ~stop
    <3>1. queue' = Append(queue, job[t]) /\ UNCHANGED <<worker, current>>
      BY <1>5, <2>4 DEF Enqueue
    <3>2. /\ Len(queue') = Len(queue) + 1 /\ Len(queue) \in Nat
          /\ \A i \in 1..Len(queue) : queue'[i] = queue[i]
          /\ queue'[Len(queue) + 1] = job[t]
      BY <2>1, <3>1, PushFacts
    <3>3. job[t].mode = "sync" => \A i \in 1..Len(queue) : queue[i] # job[t]
      BY <2>2 DEF Unanswered
    <3>4. SyncDistinct(queue')
      BY <2>1, <3>1, <3>3, PushDistinct
    <3>5. worker \in {"dispatch", "reply"} /\ current.mode = "sync" =>
             \A i \in 1..Len(queue') : queue'[i] # current
      <4> HAVE worker \in {"dispatch", "reply"} /\ current.mode = "sync"
      <4>1. \A i \in 1..Len(queue) : queue[i] # current
        OBVIOUS
      <4>2. job[t] # current
        BY <2>2 DEF Unanswered
      <4>3. \A i \in 1..Len(queue') : i \in 1..Len(queue) \/ i = Len(queue) + 1
        BY <3>2
      <4>4. QED
        BY <3>2, <4>1, <4>2, <4>3
    <3>6. QED
      BY <3>1, <3>4, <3>5
  <2>5. QED
    BY <2>3, <2>4
<1>6. ASSUME NEW t \in Threads, EmitReturn(t) PROVE SyncOnce'
  BY <1>6 DEF EmitReturn
<1>7. ASSUME NEW t \in Threads, ShutdownNotify(t) PROVE SyncOnce'
  BY <1>7 DEF ShutdownNotify, NotifyAll
<1>8. ASSUME NEW t \in Threads, ShutdownJoin(t) PROVE SyncOnce'
  BY <1>8 DEF ShutdownJoin
<1>9. ASSUME NEW t \in Threads, ShutdownDone(t) PROVE SyncOnce'
  BY <1>9 DEF ShutdownDone
<1>10. ASSUME NEW t \in Threads, ShutdownReturn(t) PROVE SyncOnce'
  BY <1>10 DEF ShutdownReturn, NotifyAll
<1>11. ASSUME NEW t \in Threads, ShutdownWait(t) PROVE SyncOnce'
  BY <1>11 DEF ShutdownWait, Sleep
<1>12. ASSUME WorkerReady PROVE SyncOnce'
  BY <1>12 DEF WorkerReady, NotifyAll
<1>13. ASSUME WorkerFetch PROVE SyncOnce'
  <2>1. CASE queue # <<>>
    <3>1. queue' = Tail(queue) /\ current' = queue[1]
      BY <1>13, <2>1, PopFacts DEF WorkerFetch
    <3>2. /\ Len(queue) \in Nat \ {0} /\ Len(queue') = Len(queue) - 1
          /\ \A i \in 1..Len(queue') : queue'[i] = queue[i + 1]
      BY <2>1, <3>1, PopFacts
    <3>3. \A i \in 1..Len(queue') : i + 1 \in 1..Len(queue) /\ i + 1 # 1
      BY <3>2
    <3>4. SyncDistinct(queue')
      BY <2>1, <3>1, PopDistinct
    <3>5. 1 \in 1..Len(queue)
      BY <3>2
    <3>6. current'.mode = "sync" =>
             \A i \in 1..Len(queue') : queue'[i] # current'
      BY <3>1, <3>2, <3>3, <3>5 DEF SyncDistinct
    <3>7. QED
      BY <3>4, <3>6
  <2>2. CASE queue = <<>>
    BY <1>13, <2>2 DEF WorkerFetch
  <2>3. QED
    BY <2>1, <2>2
<1>14. ASSUME WorkerDispatch PROVE SyncOnce'
  BY <1>14 DEF WorkerDispatch
<1>15. ASSUME WorkerReply PROVE SyncOnce'
  BY <1>15 DEF WorkerReply
<1>16. ASSUME NEW w \in Threads \cup {Worker}, SpuriousWakeup(w) PROVE SyncOnce'
  BY <1>16 DEF SpuriousWakeup
<1>17. CASE UNCHANGED vars
  BY <1>17 DEF vars, NoLostWakeup, Unanswered
<1>18. QED
  BY <1>1, <1>2, <1>3, <1>4, <1>5, <1>6, <1>7, <1>8, <1>9, <1>10, <1>11,
     <1>12, <1>13, <1>14, <1>15, <1>16, <1>17
  DEF Next, ThreadStep, WorkerStep

\* Nobody sleeps through the signal it waits for.
LEMMA SleepStep == IInv /\ [Next]_vars => SleepInv'
<1> SUFFICES ASSUME IInv, [Next]_vars PROVE SleepInv'
  OBVIOUS
<1> USE WorkerAssumption DEF IInv, TypeOK, TeardownInv, SleepInv, NoLostWakeup, Goto, sharedVars, workerVars, emitVars
<1>1. ASSUME NEW t \in Threads, StartCall(t) PROVE SleepInv'
  BY <1>1 DEF StartCall, NotifyAll, Sleep
<1>2. ASSUME NEW t \in Threads, ShutdownCall(t) PROVE SleepInv'
  BY <1>2 DEF ShutdownCall, Sleep
<1>3. ASSUME NEW t \in Threads, NEW mode \in Mode, EmitCall(t, mode) PROVE SleepInv'
  BY <1>3 DEF EmitCall
<1>4. ASSUME NEW t \in Threads, StartWait(t) PROVE SleepInv'
  <2>1. CASE ready # -1
    <3>1. \A u \in Threads : pc'[u] = IF u = t THEN "idle" ELSE pc[u]
      BY <1>4, <2>1 DEF StartWait
    <3>2. pc[t] = "start" /\ t \notin asleep
          /\ UNCHANGED <<asleep, queue, stop, stopped, ready, worker>>
      BY <1>4, <2>1 DEF StartWait
    <3>3. QED
      BY <3>1, <3>2
  <2>2. CASE ready = -1
    BY <1>4, <2>2 DEF StartWait, Sleep
  <2>3. QED
    BY <2>1, <2>2
<1>5. ASSUME NEW t \in Threads, Enqueue(t) PROVE SleepInv'
  <2>1. CASE stop
    BY <1>5, <2>1 DEF Enqueue
  <2>2. CASE ~stop
    <3>1. ready = 1
      BY <1>5, <2>2 DEF Enqueue, EmitterInv
    <3>2. asleep \subseteq {Worker}
      BY <2>2, <3>1
    <3>3. asleep' = {}
      BY <1>5, <2>2, <3>2 DEF Enqueue, NotifyOne
    <3>4. QED
      BY <3>3
  <2>3. QED
    BY <2>1, <2>2
<1>6. ASSUME NEW t \in Threads, EmitReturn(t) PROVE SleepInv'
  BY <1>6 DEF EmitReturn
<1>7. ASSUME NEW t \in Threads, ShutdownNotify(t) PROVE SleepInv'
  BY <1>7 DEF ShutdownNotify, NotifyAll
<1>8. ASSUME NEW t \in Threads, ShutdownJoin(t) PROVE SleepInv'
  BY <1>8 DEF ShutdownJoin
<1>9. ASSUME NEW t \in Threads, ShutdownDone(t) PROVE SleepInv'
  BY <1>9 DEF ShutdownDone
<1>10. ASSUME NEW t \in Threads, ShutdownReturn(t) PROVE SleepInv'
  BY <1>10 DEF ShutdownReturn, NotifyAll
<1>11. ASSUME NEW t \in Threads, ShutdownWait(t) PROVE SleepInv'
  <2>1. CASE stopped
    <3>1. \A u \in Threads : pc'[u] = IF u = t THEN "idle" ELSE pc[u]
      BY <1>11, <2>1 DEF ShutdownWait
    <3>2. pc[t] = "wait_stopped" /\ t \notin asleep
          /\ UNCHANGED <<asleep, queue, stop, stopped, ready, worker>>
      BY <1>11, <2>1 DEF ShutdownWait
    <3>3. QED
      BY <3>1, <3>2
  <2>2. CASE ~stopped
    BY <1>11, <2>2 DEF ShutdownWait, Sleep
  <2>3. QED
    BY <2>1, <2>2
<1>12. ASSUME WorkerReady PROVE SleepInv'
  BY <1>12 DEF WorkerReady, NotifyAll
<1>13. ASSUME WorkerFetch PROVE SleepInv'
  BY <1>13 DEF WorkerFetch, Sleep
<1>14. ASSUME WorkerDispatch PROVE SleepInv'
  BY <1>14 DEF WorkerDispatch
<1>15. ASSUME WorkerReply PROVE SleepInv'
  BY <1>15 DEF WorkerReply
<1>16. ASSUME NEW w \in Threads \cup {Worker}, SpuriousWakeup(w) PROVE SleepInv'
  BY <1>16 DEF SpuriousWakeup
<1>17. CASE UNCHANGED vars
  BY <1>17 DEF vars, NoLostWakeup, Unanswered
<1>18. QED
  BY <1>1, <1>2, <1>3, <1>4, <1>5, <1>6, <1>7, <1>8, <1>9, <1>10, <1>11,
     <1>12, <1>13, <1>14, <1>15, <1>16, <1>17
  DEF Next, ThreadStep, WorkerStep

\* A queued synchronous job and the emit() blocked on it come and go together.
LEMMA PromiseStep == IInv /\ [Next]_vars => (PromiseOnLiveStack /\ NoStrandedEmitter)'
<1> SUFFICES ASSUME IInv, [Next]_vars PROVE (PromiseOnLiveStack /\ NoStrandedEmitter)'
  OBVIOUS
<1> USE DEF IInv, TypeOK, TeardownInv, WorkerInv, WorkerAlive, EmitterInv, PromiseOnLiveStack, NoStrandedEmitter, Goto, sharedVars, workerVars, emitVars
<1>1. ASSUME NEW t \in Threads, StartCall(t) PROVE (PromiseOnLiveStack /\ NoStrandedEmitter)'
  <2>1. Unanswered' = Unanswered /\ UNCHANGED <<job, promise>>
    BY <1>1 DEF StartCall, NotifyAll, Sleep, Unanswered
  <2>2. \A u \in Threads : pc'[u] = "await" <=> pc[u] = "await"
    BY <1>1 DEF StartCall, NotifyAll, Sleep
  <2>3. WorkerAlive => worker' = worker
    BY <1>1 DEF StartCall, NotifyAll, Sleep
  <2>4. \A j \in Unanswered : j.by \in Threads
    BY UnansweredJobs DEF Job
  <2>5. QED
    BY <2>1, <2>2, <2>3, <2>4
<1>2. ASSUME NEW t \in Threads, ShutdownCall(t) PROVE (PromiseOnLiveStack /\ NoStrandedEmitter)'
  <2>1. Unanswered' = Unanswered /\ UNCHANGED <<job, promise>>
    BY <1>2 DEF ShutdownCall, Sleep, Unanswered
  <2>2. \A u \in Threads : pc'[u] = "await" <=> pc[u] = "await"
    BY <1>2 DEF ShutdownCall, Sleep
  <2>3. WorkerAlive => worker' = worker
    BY <1>2 DEF ShutdownCall, Sleep
  <2>4. \A j \in Unanswered : j.by \in Threads
    BY UnansweredJobs DEF Job
  <2>5. QED
    BY <2>1, <2>2, <2>3, <2>4
<1>3. ASSUME NEW t \in Threads, NEW mode \in Mode, EmitCall(t, mode) PROVE (PromiseOnLiveStack /\ NoStrandedEmitter)'
  <2>1. Unanswered' = Unanswered
    BY <1>3 DEF EmitCall, Unanswered
  <2>2. \A j \in Unanswered : j.mode = "sync" => j.by # t
    BY <1>3 DEF EmitCall
  <2>3. QED
    BY <1>3, <2>1, <2>2 DEF EmitCall
<1>4. ASSUME NEW t \in Threads, StartWait(t) PROVE (PromiseOnLiveStack /\ NoStrandedEmitter)'
  <2>1. Unanswered' = Unanswered /\ UNCHANGED <<job, promise>>
    BY <1>4 DEF StartWait, Sleep, Unanswered
  <2>2. \A u \in Threads : pc'[u] = "await" <=> pc[u] = "await"
    BY <1>4 DEF StartWait, Sleep
  <2>3. WorkerAlive => worker' = worker
    BY <1>4 DEF StartWait, Sleep
  <2>4. \A j \in Unanswered : j.by \in Threads
    BY UnansweredJobs DEF Job
  <2>5. QED
    BY <2>1, <2>2, <2>3, <2>4
<1>5. ASSUME NEW t \in Threads, Enqueue(t) PROVE (PromiseOnLiveStack /\ NoStrandedEmitter)'
  <2>1. job[t] \in Job /\ job[t].by = t /\ promise[t] = 0
        /\ pc[t] = "enqueue" /\ (~stop => WorkerAlive)
    BY <1>5 DEF Enqueue
  <2>2. CASE stop
    <3>1. Unanswered' = Unanswered /\ pc' = [pc EXCEPT ![t] = "idle"]
          /\ UNCHANGED <<job, promise, worker>>
      BY <1>5, <2>2 DEF Enqueue, Unanswered
    <3>2. QED
      BY <2>1, <3>1
  <2>3. CASE ~stop
    <3>1. queue' = Append(queue, job[t])
          /\ UNCHANGED <<worker, current, job, promise>>
          /\ pc' = [pc EXCEPT ![t] = IF job[t].mode = "sync" THEN "await" ELSE "idle"]
      BY <1>5, <2>3 DEF Enqueue
    <3>2. Unanswered' = Unanswered \cup {job[t]}
      <4>1. Elements(Append(queue, job[t])) = Elements(queue) \cup {job[t]}
        BY <2>1, PushElements
      <4>2. Elements(queue') = Elements(queue) \cup {job[t]}
        BY <3>1, <4>1
      <4>3. QED
        BY <3>1, <4>2 DEF Unanswered, Elements
    <3>3. QED
      BY <2>1, <2>3, <3>1, <3>2
  <2>4. QED
    BY <2>2, <2>3
<1>6. ASSUME NEW t \in Threads, EmitReturn(t) PROVE (PromiseOnLiveStack /\ NoStrandedEmitter)'
  <2>1. Unanswered' = Unanswered
    BY <1>6 DEF EmitReturn, Unanswered
  <2>2. QED
    BY <1>6, <2>1 DEF EmitReturn
<1>7. ASSUME NEW t \in Threads, ShutdownNotify(t) PROVE (PromiseOnLiveStack /\ NoStrandedEmitter)'
  <2>1. Unanswered' = Unanswered
    BY <1>7 DEF ShutdownNotify, NotifyAll, Unanswered
  <2>2. QED
    BY <1>7, <2>1 DEF ShutdownNotify, NotifyAll
<1>8. ASSUME NEW t \in Threads, ShutdownJoin(t) PROVE (PromiseOnLiveStack /\ NoStrandedEmitter)'
  <2>1. Unanswered' = Unanswered
    BY <1>8 DEF ShutdownJoin, Unanswered
  <2>2. QED
    BY <1>8, <2>1 DEF ShutdownJoin
<1>9. ASSUME NEW t \in Threads, ShutdownDone(t) PROVE (PromiseOnLiveStack /\ NoStrandedEmitter)'
  <2>1. Unanswered' = Unanswered
    BY <1>9 DEF ShutdownDone, Unanswered
  <2>2. QED
    BY <1>9, <2>1 DEF ShutdownDone
<1>10. ASSUME NEW t \in Threads, ShutdownReturn(t) PROVE (PromiseOnLiveStack /\ NoStrandedEmitter)'
  <2>1. Unanswered' = Unanswered
    BY <1>10 DEF ShutdownReturn, NotifyAll, Unanswered
  <2>2. QED
    BY <1>10, <2>1 DEF ShutdownReturn, NotifyAll
<1>11. ASSUME NEW t \in Threads, ShutdownWait(t) PROVE (PromiseOnLiveStack /\ NoStrandedEmitter)'
  <2>1. Unanswered' = Unanswered /\ UNCHANGED <<job, promise>>
    BY <1>11 DEF ShutdownWait, Sleep, Unanswered
  <2>2. \A u \in Threads : pc'[u] = "await" <=> pc[u] = "await"
    BY <1>11 DEF ShutdownWait, Sleep
  <2>3. WorkerAlive => worker' = worker
    BY <1>11 DEF ShutdownWait, Sleep
  <2>4. \A j \in Unanswered : j.by \in Threads
    BY UnansweredJobs DEF Job
  <2>5. QED
    BY <2>1, <2>2, <2>3, <2>4
<1>12. ASSUME WorkerReady PROVE (PromiseOnLiveStack /\ NoStrandedEmitter)'
  <2>1. Unanswered' = Unanswered
    BY <1>12 DEF WorkerReady, NotifyAll, Unanswered
  <2>2. QED
    BY <1>12, <2>1 DEF WorkerReady, NotifyAll
<1>13. ASSUME WorkerFetch PROVE (PromiseOnLiveStack /\ NoStrandedEmitter)'
  <2>1. Unanswered' = Unanswered
    <3>1. CASE queue # <<>>
      <4>1. queue' = Tail(queue) /\ current' = Head(queue)
            /\ worker = "loop" /\ worker' = "dispatch"
        BY <1>13, <3>1 DEF WorkerFetch
      <4>2. Unanswered = Elements(queue)
        BY <4>1 DEF Unanswered, Elements
      <4>3. Unanswered' = Elements(Tail(queue)) \cup {Head(queue)}
        BY <4>1 DEF Unanswered, Elements
      <4>4. QED
        BY <3>1, <4>2, <4>3, PopElements
    <3>2. CASE queue = <<>>
      BY <1>13, <3>2 DEF WorkerFetch, Unanswered
    <3>3. QED
      BY <3>1, <3>2
  <2>2. worker' = "exited" => Unanswered = {}
    BY <1>13 DEF WorkerFetch, Unanswered
  <2>3. UNCHANGED <<pc, job, promise>> /\ worker' \in {"loop", "dispatch", "exited"}
    BY <1>13 DEF WorkerFetch
  <2>4. QED
    BY <2>1, <2>2, <2>3
<1>14. ASSUME WorkerDispatch PROVE (PromiseOnLiveStack /\ NoStrandedEmitter)'
  <2>1. Unanswered' = Unanswered
    BY <1>14 DEF WorkerDispatch, Unanswered
  <2>2. QED
    BY <1>14, <2>1 DEF WorkerDispatch
<1>15. ASSUME WorkerReply PROVE (PromiseOnLiveStack /\ NoStrandedEmitter)'
  <2>1. Unanswered' = {queue[i] : i \in 1..Len(queue)}
    BY <1>15 DEF WorkerReply, Unanswered
  <2>2. current \in Unanswered /\ current \in Job /\ UNCHANGED <<pc, job>>
        /\ Unanswered = Unanswered' \cup {current} /\ worker' = "loop"
    BY <1>15, <2>1 DEF WorkerReply, Unanswered
  <2>3. CASE current.mode = "sync"
    <3>1. promise' = [promise EXCEPT ![current.by] = current.id]
          /\ current.by \in Threads /\ current.id # 0
      BY <1>15, <2>2, <2>3, MaxJobsAssumption DEF WorkerReply, Job
    <3>2. job[current.by] = current
      BY <2>2, <2>3
    <3>3. current \notin Unanswered'
      BY <1>15, <2>1, <2>3 DEF WorkerReply, SyncOnce
    <3>4. \A j \in Unanswered' : j.mode = "sync" => j.by # current.by
      BY <2>2, <3>2, <3>3
    <3>5. PromiseOnLiveStack'
      BY <2>2, <3>1, <3>4
    <3>6. QED
      BY <2>2, <3>1, <3>2, <3>5
  <2>4. CASE current.mode # "sync"
    <3>1. UNCHANGED promise
      BY <1>15, <2>4 DEF WorkerReply
    <3>2. \A t \in Threads : pc[t] = "await" => job[t] # current
      BY <2>4
    <3>3. QED
      BY <2>2, <3>1, <3>2
  <2>5. QED
    BY <2>3, <2>4
<1>16. ASSUME NEW w \in Threads \cup {Worker}, SpuriousWakeup(w) PROVE (PromiseOnLiveStack /\ NoStrandedEmitter)'
  <2>1. Unanswered' = Unanswered
    BY <1>16 DEF SpuriousWakeup, Unanswered
  <2>2. QED
    BY <1>16, <2>1 DEF SpuriousWakeup
<1>17. CASE UNCHANGED vars
  BY <1>17 DEF vars, NoLostWakeup, Unanswered
<1>18. QED
  BY <1>1, <1>2, <1>3, <1>4, <1>5, <1>6, <1>7, <1>8, <1>9, <1>10, <1>11,
     <1>12, <1>13, <1>14, <1>15, <1>16, <1>17
  DEF Next, ThreadStep, WorkerStep

----------------------------------------------------------------------------
(* The safety theorems.                                                    *)

\* The bridge's inductive invariant holds in every reachable state.
THEOREM InvariantHolds == Spec => []IInv
<1>1. IInv /\ [Next]_vars => IInv'
  BY TypeStep, TeardownStep, WorkerStepInv, EmitterStep, SyncOnceStep,
     SleepStep, PromiseStep DEF IInv
<1>2. QED
  BY InitInv, <1>1, PTL DEF Spec

\* Every field of the bridge, and every emitter's stack, stays well formed
\* (pybridge.cpp, class PyBridge).
THEOREM TypeCorrect == Spec => []TypeOK
<1>1. IInv => TypeOK
  BY DEF IInv
<1>2. QED
  BY InvariantHolds, <1>1, PTL

\* However many threads emit and shut down, the worker never writes through a
\* pointer to a promise whose emit() has returned (pybridge.cpp, job.result).
THEOREM NoDanglingPromise == Spec => []PromiseOnLiveStack
<1>1. IInv => PromiseOnLiveStack
  BY DEF IInv
<1>2. QED
  BY InvariantHolds, <1>1, PTL

\* No thread is blocked in a synchronous emit() on a worker that has left its
\* loop, although ready_ is read before the mutex is taken (emit, enqueue).
THEOREM NobodyStranded == Spec => []NoStrandedEmitter
<1>1. IInv => NoStrandedEmitter
  BY DEF IInv
<1>2. QED
  BY InvariantHolds, <1>1, PTL

\* The single condition variable never drops a signal somebody waits for,
\* although enqueue() wakes only one sleeper.
THEOREM WakeupsReachTheirWaiter == Spec => []NoLostWakeup
<1>1. IInv => NoLostWakeup
  BY DEF IInv, SleepInv
<1>2. QED
  BY InvariantHolds, <1>1, PTL

----------------------------------------------------------------------------
(* EventDelivery is implemented.                                           *)

\* The sequence facts the refinement mapping needs.
LEMMA MappedQueue ==
  ASSUME NEW q \in Seq(Job), NEW h \in {<<>>} \cup {<<j>> : j \in Job}
  PROVE  /\ h \o q \in Seq(Job)
         /\ \A j \in Job : h \o Append(q, j) = Append(h \o q, j)
         /\ q # <<>> => <<Head(q)>> \o Tail(q) = q
<1>1. h \in Seq(Job)
  <2>1. \A j \in Job : <<j>> \in Seq(Job)
    OBVIOUS
  <2>2. QED
    BY <2>1, EmptySeq
<1>2. h \o q \in Seq(Job)
  BY <1>1, ConcatProperties
<1>3. ASSUME NEW j \in Job PROVE h \o Append(q, j) = Append(h \o q, j)
  <2>1. Append(q, j) = q \o <<j>> /\ Append(h \o q, j) = (h \o q) \o <<j>>
    BY <1>2, AppendIsConcat
  <2>2. <<j>> \in Seq(Job)
    OBVIOUS
  <2>3. QED
    BY <1>1, <2>1, <2>2, ConcatAssociative
<1>4. ASSUME q # <<>> PROVE <<Head(q)>> \o Tail(q) = q
  <2>1. /\ Head(q) \in Job /\ Tail(q) \in Seq(Job) /\ Head(q) = q[1]
        /\ Len(q) \in Nat \ {0} /\ Len(Tail(q)) = Len(q) - 1
        /\ \A i \in 1..Len(Tail(q)) : Tail(q)[i] = q[i + 1]
    BY <1>4, PopFacts
  <2>2. /\ <<Head(q)>> \in Seq(Job) /\ Len(<<Head(q)>>) = 1
        /\ <<Head(q)>>[1] = q[1]
    BY <2>1
  <2>3. /\ <<Head(q)>> \o Tail(q) \in Seq(Job)
        /\ Len(<<Head(q)>> \o Tail(q)) = Len(q)
        /\ \A i \in 1..Len(q) : (<<Head(q)>> \o Tail(q))[i] =
                IF i <= 1 THEN <<Head(q)>>[i] ELSE Tail(q)[i - 1]
    BY <2>1, <2>2, ConcatProperties
  <2>4. \A i \in 1..Len(q) : (<<Head(q)>> \o Tail(q))[i] = q[i]
    <3>1. ASSUME NEW i \in 1..Len(q), i > 1
          PROVE  i - 1 \in 1..Len(Tail(q)) /\ (i - 1) + 1 = i
      BY <2>1, <3>1
    <3>2. \A i \in 1..Len(q) : i <= 1 => i = 1
      OBVIOUS
    <3>3. QED
      BY <2>1, <2>2, <2>3, <3>1, <3>2
  <2>5. QED
    BY <2>3, <2>4, SeqEqual
<1>5. QED
  BY <1>2, <1>3, <1>4

\* The abstract state a step leaves alone when it touches no queue, no job in
\* the worker's hand and no phase.
LEMMA Stutter ==
  UNCHANGED <<InHand, queue, log, Phase>> => UNCHANGED Delivery!vars
  BY DEF Delivery!vars

\* Every step of the bridge is one step of EventDelivery or none.
LEMMA DeliveryStep == IInv /\ [Next]_vars => [Delivery!Next]_(Delivery!vars)
<1> SUFFICES ASSUME IInv, [Next]_vars PROVE [Delivery!Next]_(Delivery!vars)
  OBVIOUS
<1> USE DEF IInv, TypeOK, TeardownInv, WorkerInv, WorkerAlive, sharedVars,
        workerVars, emitVars
<1>0. queue \in Seq(Job) /\ InHand \in {<<>>} \cup {<<j>> : j \in Job}
  BY DEF InHand
<1>1. ASSUME NEW t \in Threads, StartCall(t) PROVE UNCHANGED Delivery!vars
  BY <1>1, Stutter DEF StartCall, NotifyAll, InHand, Phase
<1>2. ASSUME NEW t \in Threads, StartWait(t) PROVE UNCHANGED Delivery!vars
  BY <1>2, Stutter DEF StartWait, InHand, Phase
<1>3. ASSUME NEW t \in Threads, NEW mode \in Mode, EmitCall(t, mode) PROVE UNCHANGED Delivery!vars
  BY <1>3, Stutter DEF EmitCall, InHand, Phase
<1>4. ASSUME NEW t \in Threads, EmitReturn(t) PROVE UNCHANGED Delivery!vars
  BY <1>4, Stutter DEF EmitReturn, InHand, Phase
<1>5. ASSUME NEW t \in Threads, ShutdownNotify(t) PROVE UNCHANGED Delivery!vars
  BY <1>5, Stutter DEF ShutdownNotify, InHand, Phase
<1>6. ASSUME NEW t \in Threads, ShutdownJoin(t) PROVE UNCHANGED Delivery!vars
  BY <1>6, Stutter DEF ShutdownJoin, InHand, Phase
<1>7. ASSUME NEW t \in Threads, ShutdownReturn(t) PROVE UNCHANGED Delivery!vars
  BY <1>7, Stutter DEF ShutdownReturn, InHand, Phase
<1>8. ASSUME NEW t \in Threads, ShutdownWait(t) PROVE UNCHANGED Delivery!vars
  BY <1>8, Stutter DEF ShutdownWait, InHand, Phase
<1>9. ASSUME WorkerReply PROVE UNCHANGED Delivery!vars
  BY <1>9, Stutter DEF WorkerReply, InHand, Phase
<1>10. ASSUME NEW w \in Threads \cup {Worker}, SpuriousWakeup(w) PROVE UNCHANGED Delivery!vars
  BY <1>10, Stutter DEF SpuriousWakeup, InHand, Phase
<1>11. ASSUME NEW t \in Threads, Enqueue(t) PROVE [Delivery!Next]_(Delivery!vars)
  <2>1. CASE stop
    <3>1. UNCHANGED <<InHand, queue, log, Phase>>
      BY <1>11, <2>1 DEF Enqueue, InHand, Phase
    <3>2. QED
      BY <3>1, Stutter
  <2>2. CASE ~stop
    <3>1. job[t] \in Job /\ Phase = "open"
      BY <1>11, <2>2 DEF Enqueue, EmitterInv, Phase
    <3>2. queue' = Append(queue, job[t]) /\ UNCHANGED <<InHand, log, Phase>>
      BY <1>11, <2>2 DEF Enqueue, InHand, Phase
    <3>3. (InHand \o queue)' = Append(InHand \o queue, job[t])
      BY <1>0, <3>1, <3>2, MappedQueue
    <3>4. Delivery!Accept(job[t])
      BY <3>1, <3>2, <3>3 DEF Delivery!Accept
    <3>5. QED
      BY <3>1, <3>4 DEF Delivery!Next
  <2>3. QED
    BY <2>1, <2>2
<1>12. ASSUME WorkerReady PROVE [Delivery!Next]_(Delivery!vars)
  <2>1. UNCHANGED <<InHand, queue, log>>
    BY <1>12 DEF WorkerReady, InHand
  <2>2. Phase' = Phase \/ (Phase = "closed" /\ Phase' = "open")
    <3>1. ready # 1 /\ (stop' <=> stop) /\ (stopped' <=> stopped)
          /\ (stopped => stop)
      BY <1>12 DEF WorkerReady
    <3>2. CASE stop
      BY <3>1, <3>2 DEF Phase
    <3>3. CASE ~stop
      BY <3>1, <3>3 DEF Phase
    <3>4. QED
      BY <3>2, <3>3
  <2>3. QED
    BY <2>1, <2>2, Stutter DEF Delivery!Next, Delivery!Open
<1>13. ASSUME WorkerFetch PROVE [Delivery!Next]_(Delivery!vars)
  <2>1. UNCHANGED <<log, Phase>> /\ InHand = <<>>
    BY <1>13 DEF WorkerFetch, Phase, InHand
  <2>2. CASE queue # <<>>
    <3>1. InHand' = <<Head(queue)>> /\ queue' = Tail(queue)
      BY <1>13, <2>2 DEF WorkerFetch, InHand
    <3>2. (InHand \o queue)' = queue
      BY <1>0, <2>2, <3>1, MappedQueue
    <3>3. InHand \o queue = queue
      BY <1>0, <2>1, ConcatEmptySeq
    <3>4. QED
      BY <2>1, <3>2, <3>3 DEF Delivery!vars
  <2>3. CASE queue = <<>>
    <3>1. UNCHANGED <<InHand, queue>>
      BY <1>13, <2>3 DEF WorkerFetch, InHand
    <3>2. QED
      BY <2>1, <3>1, Stutter
  <2>4. QED
    BY <2>2, <2>3
<1>14. ASSUME WorkerDispatch PROVE [Delivery!Next]_(Delivery!vars)
  <2>1. /\ InHand = <<current>> /\ current \in Job /\ InHand' = <<>>
        /\ log' = Append(log, current) /\ UNCHANGED <<queue, Phase>>
    BY <1>14 DEF WorkerDispatch, InHand, Phase
  <2>2. <<current>> \in Seq(Job) /\ Len(<<current>>) = 1 /\ <<current>>[1] = current
    BY <2>1
  <2>3. /\ <<current>> \o queue \in Seq(Job)
        /\ Len(<<current>> \o queue) = 1 + Len(queue)
        /\ \A i \in 1..(1 + Len(queue)) : (<<current>> \o queue)[i] =
               IF i <= 1 THEN <<current>>[i] ELSE queue[i - 1]
    BY <1>0, <2>2, ConcatProperties
  <2>4. Len(queue) \in Nat
    BY <1>0
  <2>5. <<current>> \o queue # <<>>
    BY <2>3, <2>4, EmptySeq
  <2>6. Head(<<current>> \o queue) = current
    BY <2>2, <2>3, <2>4, <2>5
  <2>7. Tail(<<current>> \o queue) = queue
    <3>1. /\ Tail(<<current>> \o queue) \in Seq(Job)
          /\ Len(Tail(<<current>> \o queue)) = Len(queue)
          /\ \A i \in 1..Len(queue) : Tail(<<current>> \o queue)[i] = (<<current>> \o queue)[i + 1]
      BY <2>3, <2>4, <2>5, HeadTailProperties
    <3>2. \A i \in 1..Len(queue) : i + 1 \in 1..(1 + Len(queue)) /\ ~(i + 1 <= 1)
                                    /\ (i + 1) - 1 = i
      BY <2>4
    <3>3. \A i \in 1..Len(queue) : Tail(<<current>> \o queue)[i] = queue[i]
      BY <2>3, <3>1, <3>2
    <3>4. QED
      BY <1>0, <3>1, <3>3, SeqEqual
  <2>8. (InHand \o queue)' = queue
    BY <1>0, <2>1, ConcatEmptySeq
  <2>9. Delivery!Deliver
    BY <2>1, <2>5, <2>6, <2>7, <2>8 DEF Delivery!Deliver
  <2>10. QED
    BY <2>9 DEF Delivery!Next
<1>15. ASSUME NEW t \in Threads, ShutdownCall(t) PROVE [Delivery!Next]_(Delivery!vars)
  <2>1. UNCHANGED <<InHand, queue, log>>
    BY <1>15 DEF ShutdownCall, InHand
  <2>2. Phase' = Phase \/ (Phase \in {"closed", "open"} /\ Phase' = "closing")
    BY <1>15 DEF ShutdownCall, Phase
  <2>3. QED
    BY <2>1, <2>2, Stutter DEF Delivery!Next, Delivery!Close
<1>16. ASSUME NEW t \in Threads, ShutdownDone(t) PROVE [Delivery!Next]_(Delivery!vars)
  <2>1. UNCHANGED <<InHand, queue, log>> /\ InHand = <<>> /\ queue = <<>>
    BY <1>16 DEF ShutdownDone, InHand
  <2>2. InHand \o queue = <<>>
    BY <1>0, <2>1, ConcatEmptySeq
  <2>3. Phase' = Phase \/ (Phase = "closing" /\ Phase' = "finished")
    BY <1>16 DEF ShutdownDone, Phase
  <2>4. QED
    BY <2>1, <2>2, <2>3, Stutter DEF Delivery!Next, Delivery!Finish
<1>17. CASE UNCHANGED vars
  BY <1>17, Stutter DEF vars, InHand, Phase
<1>18. QED
  BY <1>1, <1>2, <1>3, <1>4, <1>5, <1>6, <1>7, <1>8, <1>9, <1>10, <1>11,
     <1>12, <1>13, <1>14, <1>15, <1>16, <1>17
  DEF Next, ThreadStep, WorkerStep

\* The bridge implements EventDelivery: whatever is accepted reaches dispatch()
\* exactly once, in order, and before a shutdown() returns; nothing is accepted
\* once the teardown has begun (pybridge.cpp, enqueue / worker_main / shutdown).
THEOREM BridgeImplementsDelivery == Spec => DeliversEvents
<1>1. Init => Delivery!Init
  <2>1. ASSUME Init PROVE InHand \o queue = <<>> /\ log = <<>> /\ Phase = "closed"
    BY <2>1, ConcatEmptySeq, EmptySeq DEF Init, InHand, Phase
  <2>2. QED
    BY <2>1 DEF Delivery!Init
<1>2. QED
  BY InvariantHolds, DeliveryStep, <1>1, PTL DEF Spec, DeliversEvents

----------------------------------------------------------------------------
(* The agy host, which is one user of the bridge.                          *)

ClosingPC == {"notify", "join", "joined", "notify_done", "wait_stopped"}

\* An end-of-capture marker is in the capture.
Marked == \E i \in 1..Len(log) : log[i].mode = "sync"

HostTypeOK ==
  /\ process \in {"library", "loaded", "starting", "running", "exited", "killed"}
  /\ books \in BOOLEAN
  /\ exit \in [Threads -> {"no", "marking", "closing"}]

\* The books are on only in a process whose worker was made; it closes the
\* bridge only when a marker is in the capture.
BooksInv ==
  /\ books => /\ process \in {"running", "exited", "killed"}
              /\ worker # "none"
              /\ ready = 1 \/ stop
              /\ stop => Marked
  /\ \A t \in Threads : exit[t] # "no" => books

\* A synchronous job is answered when it is in the capture.
AnswerInv ==
  /\ worker = "reply" /\ current.mode = "sync" => Marked
  /\ \A t \in Threads : pc[t] = "await" /\ promise[t] # 0 => Marked

\* How far each thread is in os.Exit's book.
ExitInv ==
  /\ stopped => worker \in {"none", "exited"}
  /\ \A t \in Threads :
       /\ pc[t] = "notify_done" => stopped
       /\ exit[t] = "marking" => \/ pc[t] = "idle" /\ Marked
                                 \/ pc[t] = "enqueue" /\ job[t].mode = "sync"
                                 \/ pc[t] = "await"
       /\ exit[t] = "closing" => \/ pc[t] = "idle" /\ stopped
                                 \/ pc[t] \in ClosingPC
  /\ process = "exited" => books /\ stopped

HostInv == HostTypeOK /\ BooksInv /\ AnswerInv /\ ExitInv

\* What the host does to the bridge is a step of the bridge.
LEMMA HostStepsBridge == [HostNext]_allVars => [Next]_vars
<1> SUFFICES ASSUME [HostNext]_allVars PROVE [Next]_vars
  OBVIOUS
<1>0. "async" \in Mode /\ "sync" \in Mode
  BY DEF Mode
<1>1. ASSUME LoadBridge PROVE Next
  BY <1>1, MainAssumption DEF LoadBridge, Next
<1>2. ASSUME EnterGo \/ Kill PROVE UNCHANGED vars
  BY <1>2 DEF EnterGo, Kill
<1>3. ASSUME BridgeStep PROVE Next
  BY <1>3 DEF BridgeStep, Next
<1>4. ASSUME NEW t \in Threads, LibraryCall(t) PROVE Next
  BY <1>4 DEF LibraryCall, Next
<1>5. ASSUME NEW t \in Threads, Book(t) PROVE Next
  BY <1>0, <1>5 DEF Book, Next
<1>6. ASSUME NEW t \in Threads, ExitBook(t) PROVE [Next]_vars
  BY <1>0, <1>6 DEF ExitBook, Next
<1>7. ASSUME NEW t \in Threads, ExitTeardown(t) PROVE [Next]_vars
  BY <1>7 DEF ExitTeardown, Next
<1>8. ASSUME NEW t \in Threads, Leave(t) PROVE UNCHANGED vars
  BY <1>8 DEF Leave
<1>9. ASSUME UNCHANGED allVars PROVE UNCHANGED vars
  BY <1>9 DEF allVars
<1>10. QED
  BY <1>1, <1>2, <1>3, <1>4, <1>5, <1>6, <1>7, <1>8, <1>9 DEF HostNext, ExitStep

LEMMA InductiveStep == IInv /\ [Next]_vars => IInv'
  BY TypeStep, TeardownStep, WorkerStepInv, EmitterStep, SyncOnceStep,
     SleepStep, PromiseStep DEF IInv

\* A marker stays in the capture; what the worker dispatches is in it.
LEMMA MarkerStays ==
  ASSUME IInv
  PROVE  /\ log' = log /\ Marked => Marked'
         /\ WorkerDispatch /\ Marked => Marked'
         /\ WorkerDispatch /\ current.mode = "sync" => Marked'
<1>1. log \in Seq(Job) /\ (WorkerDispatch => current \in Job)
  BY DEF IInv, TypeOK, WorkerInv, WorkerDispatch
<1>2. ASSUME log' = log, Marked PROVE Marked'
  BY <1>2 DEF Marked
<1>3. ASSUME WorkerDispatch
      PROVE  /\ Len(log) \in Nat /\ Len(log') = Len(log) + 1
             /\ \A i \in 1..Len(log) : log'[i] = log[i]
             /\ log'[Len(log) + 1] = current
  <2>1. log' = Append(log, current)
    BY <1>3 DEF WorkerDispatch
  <2>2. QED
    BY <1>1, <1>3, <2>1, PushFacts
<1>4. ASSUME WorkerDispatch
      PROVE  /\ 1..Len(log) \subseteq 1..Len(log')
             /\ Len(log) + 1 \in 1..Len(log')
  BY <1>3, <1>4
<1>5. ASSUME WorkerDispatch, Marked PROVE Marked'
  BY <1>3, <1>4, <1>5 DEF Marked
<1>6. ASSUME WorkerDispatch, current.mode = "sync" PROVE Marked'
  BY <1>3, <1>4, <1>6 DEF Marked
<1>7. QED
  BY <1>2, <1>5, <1>6

\* The bridge by itself keeps the books' part.
LEMMA BooksKept ==
  ASSUME IInv, HostInv, BridgeStep
  PROVE  BooksInv'
<1> USE DEF IInv, TypeOK, HostInv, HostTypeOK, TeardownInv, WorkerAlive, BooksInv, Goto,
        sharedVars, workerVars, emitVars, hostVars
<1>0. UNCHANGED hostVars
  BY DEF BridgeStep
<1>1. ASSUME NEW t \in Threads, StartWait(t) PROVE BooksInv'
  BY <1>0, <1>1, MarkerStays DEF StartWait, Sleep
<1>2. ASSUME NEW t \in Threads, Enqueue(t) PROVE BooksInv'
  BY <1>0, <1>2, MarkerStays DEF Enqueue, NotifyOne
<1>3. ASSUME NEW t \in Threads, EmitReturn(t) PROVE BooksInv'
  BY <1>0, <1>3, MarkerStays DEF EmitReturn
<1>4. ASSUME NEW t \in Threads, ShutdownNotify(t) PROVE BooksInv'
  BY <1>0, <1>4, MarkerStays DEF ShutdownNotify, NotifyAll
<1>5. ASSUME NEW t \in Threads, ShutdownJoin(t) PROVE BooksInv'
  BY <1>0, <1>5, MarkerStays DEF ShutdownJoin
<1>6. ASSUME NEW t \in Threads, ShutdownDone(t) PROVE BooksInv'
  BY <1>0, <1>6, MarkerStays DEF ShutdownDone
<1>7. ASSUME NEW t \in Threads, ShutdownReturn(t) PROVE BooksInv'
  BY <1>0, <1>7, MarkerStays DEF ShutdownReturn, NotifyAll
<1>8. ASSUME NEW t \in Threads, ShutdownWait(t) PROVE BooksInv'
  BY <1>0, <1>8, MarkerStays DEF ShutdownWait, Sleep
<1>9. ASSUME WorkerReady PROVE BooksInv'
  BY <1>0, <1>9, MarkerStays DEF WorkerReady, NotifyAll
<1>10. ASSUME WorkerFetch PROVE BooksInv'
  BY <1>0, <1>10, MarkerStays DEF WorkerFetch, Sleep
<1>11. ASSUME WorkerDispatch PROVE BooksInv'
  BY <1>0, <1>11, MarkerStays DEF WorkerDispatch
<1>12. ASSUME WorkerReply PROVE BooksInv'
  BY <1>0, <1>12, MarkerStays DEF WorkerReply
<1>13. ASSUME NEW w \in Threads \cup {Worker}, SpuriousWakeup(w) PROVE BooksInv'
  BY <1>0, <1>13, MarkerStays DEF SpuriousWakeup
<1>14. QED
  BY <1>1, <1>2, <1>3, <1>4, <1>5, <1>6, <1>7, <1>8, <1>9, <1>10, <1>11, <1>12, <1>13
  DEF BridgeStep, ThreadStep, WorkerStep

\* The bridge by itself answers a marker only when it is in the capture.
LEMMA AnswerKept ==
  ASSUME IInv, HostInv, BridgeStep
  PROVE  AnswerInv'
<1> USE DEF IInv, TypeOK, HostInv, HostTypeOK, TeardownInv, WorkerAlive, AnswerInv, WorkerInv, EmitterInv, Goto,
        sharedVars, workerVars, emitVars, hostVars
<1>0. UNCHANGED hostVars
  BY DEF BridgeStep
<1>1. ASSUME NEW t \in Threads, StartWait(t) PROVE AnswerInv'
  BY <1>0, <1>1, MarkerStays DEF StartWait, Sleep
<1>2. ASSUME NEW t \in Threads, Enqueue(t) PROVE AnswerInv'
  BY <1>0, <1>2, MarkerStays DEF Enqueue, NotifyOne
<1>3. ASSUME NEW t \in Threads, EmitReturn(t) PROVE AnswerInv'
  BY <1>0, <1>3, MarkerStays DEF EmitReturn
<1>4. ASSUME NEW t \in Threads, ShutdownNotify(t) PROVE AnswerInv'
  BY <1>0, <1>4, MarkerStays DEF ShutdownNotify, NotifyAll
<1>5. ASSUME NEW t \in Threads, ShutdownJoin(t) PROVE AnswerInv'
  BY <1>0, <1>5, MarkerStays DEF ShutdownJoin
<1>6. ASSUME NEW t \in Threads, ShutdownDone(t) PROVE AnswerInv'
  BY <1>0, <1>6, MarkerStays DEF ShutdownDone
<1>7. ASSUME NEW t \in Threads, ShutdownReturn(t) PROVE AnswerInv'
  BY <1>0, <1>7, MarkerStays DEF ShutdownReturn, NotifyAll
<1>8. ASSUME NEW t \in Threads, ShutdownWait(t) PROVE AnswerInv'
  BY <1>0, <1>8, MarkerStays DEF ShutdownWait, Sleep
<1>9. ASSUME WorkerReady PROVE AnswerInv'
  BY <1>0, <1>9, MarkerStays DEF WorkerReady, NotifyAll
<1>10. ASSUME WorkerFetch PROVE AnswerInv'
  BY <1>0, <1>10, MarkerStays DEF WorkerFetch, Sleep
<1>11. ASSUME WorkerDispatch PROVE AnswerInv'
  BY <1>0, <1>11, MarkerStays DEF WorkerDispatch
<1>12. ASSUME WorkerReply PROVE AnswerInv'
  BY <1>0, <1>12, MarkerStays DEF WorkerReply
<1>13. ASSUME NEW w \in Threads \cup {Worker}, SpuriousWakeup(w) PROVE AnswerInv'
  BY <1>0, <1>13, MarkerStays DEF SpuriousWakeup
<1>14. QED
  BY <1>1, <1>2, <1>3, <1>4, <1>5, <1>6, <1>7, <1>8, <1>9, <1>10, <1>11, <1>12, <1>13
  DEF BridgeStep, ThreadStep, WorkerStep

\* The bridge by itself returns from a shutdown() only when it is over.
LEMMA ExitKept ==
  ASSUME IInv, HostInv, BridgeStep
  PROVE  ExitInv'
<1> USE DEF IInv, TypeOK, HostInv, HostTypeOK, TeardownInv, WorkerAlive, ExitInv, BooksInv, AnswerInv, EmitterInv, WorkerInv, ClosingPC, Goto,
        sharedVars, workerVars, emitVars, hostVars
<1>0. UNCHANGED hostVars
  BY DEF BridgeStep
<1>1. ASSUME NEW t \in Threads, StartWait(t) PROVE ExitInv'
  BY <1>0, <1>1, MarkerStays DEF StartWait, Sleep
<1>2. ASSUME NEW t \in Threads, Enqueue(t) PROVE ExitInv'
  <2>1. CASE stop
    <3>1. UNCHANGED <<worker, log, job, stopped, books, exit, process>> /\ (Marked => Marked')
      BY <1>0, <1>2, MarkerStays DEF Enqueue
    <3>2. pc' = [pc EXCEPT ![t] = "idle"] /\ pc[t] = "enqueue"
      BY <1>2, <2>1 DEF Enqueue
    <3>3. exit[t] # "no" => Marked
      BY <2>1
    <3>4. QED
      BY <3>1, <3>2, <3>3
  <2>2. CASE ~stop
    <3>1. job[t].mode = "sync" => pc' = [pc EXCEPT ![t] = "await"]
      BY <1>2, <2>2 DEF Enqueue
    <3>2. UNCHANGED <<worker, log, job, stopped, books, exit, process>> /\ (Marked => Marked')
      BY <1>0, <1>2, MarkerStays DEF Enqueue
    <3>3. pc' \in {[pc EXCEPT ![t] = "await"], [pc EXCEPT ![t] = "idle"]} /\ pc[t] = "enqueue"
      BY <1>2, <2>2 DEF Enqueue
    <3>4. QED
      BY <3>1, <3>2, <3>3
  <2>3. QED
    BY <2>1, <2>2
<1>3. ASSUME NEW t \in Threads, EmitReturn(t) PROVE ExitInv'
  BY <1>0, <1>3, MarkerStays DEF EmitReturn
<1>4. ASSUME NEW t \in Threads, ShutdownNotify(t) PROVE ExitInv'
  BY <1>0, <1>4, MarkerStays DEF ShutdownNotify, NotifyAll
<1>5. ASSUME NEW t \in Threads, ShutdownJoin(t) PROVE ExitInv'
  BY <1>0, <1>5, MarkerStays DEF ShutdownJoin
<1>6. ASSUME NEW t \in Threads, ShutdownDone(t) PROVE ExitInv'
  BY <1>0, <1>6, MarkerStays DEF ShutdownDone
<1>7. ASSUME NEW t \in Threads, ShutdownReturn(t) PROVE ExitInv'
  BY <1>0, <1>7, MarkerStays DEF ShutdownReturn, NotifyAll
<1>8. ASSUME NEW t \in Threads, ShutdownWait(t) PROVE ExitInv'
  BY <1>0, <1>8, MarkerStays DEF ShutdownWait, Sleep
<1>9. ASSUME WorkerReady PROVE ExitInv'
  BY <1>0, <1>9, MarkerStays DEF WorkerReady, NotifyAll
<1>10. ASSUME WorkerFetch PROVE ExitInv'
  BY <1>0, <1>10, MarkerStays DEF WorkerFetch, Sleep
<1>11. ASSUME WorkerDispatch PROVE ExitInv'
  BY <1>0, <1>11, MarkerStays DEF WorkerDispatch
<1>12. ASSUME WorkerReply PROVE ExitInv'
  BY <1>0, <1>12, MarkerStays DEF WorkerReply
<1>13. ASSUME NEW w \in Threads \cup {Worker}, SpuriousWakeup(w) PROVE ExitInv'
  BY <1>0, <1>13, MarkerStays DEF SpuriousWakeup
<1>14. QED
  BY <1>1, <1>2, <1>3, <1>4, <1>5, <1>6, <1>7, <1>8, <1>9, <1>10, <1>11, <1>12, <1>13
  DEF BridgeStep, ThreadStep, WorkerStep


\* Every step of the host keeps its invariant.
LEMMA HostStep == IInv /\ HostInv /\ [HostNext]_allVars => HostInv'
<1> SUFFICES ASSUME IInv, HostInv, [HostNext]_allVars PROVE HostInv'
  OBVIOUS
<1> USE DEF IInv, TypeOK, TeardownInv, EmitterInv, WorkerAlive, HostInv, HostTypeOK, BooksInv,
        AnswerInv, ExitInv, ClosingPC, Goto, sharedVars, workerVars, emitVars, hostVars
<1>1. ASSUME LoadBridge PROVE HostInv'
  BY <1>1, MarkerStays, MainAssumption DEF LoadBridge, StartCall, NotifyAll, Sleep
<1>2. ASSUME EnterGo PROVE HostInv'
  BY <1>2, MarkerStays DEF EnterGo, vars
<1>3. ASSUME BridgeStep PROVE HostInv'
  <2>1. UNCHANGED hostVars
    BY <1>3 DEF BridgeStep
  <2>2. BooksInv' /\ AnswerInv' /\ ExitInv'
    BY <1>3, BooksKept, AnswerKept, ExitKept
  <2>3. QED
    BY <2>1, <2>2
<1>4. ASSUME NEW t \in Threads, LibraryCall(t) PROVE HostInv'
  <2>1. CASE StartCall(t)
    BY <1>4, <2>1, MarkerStays DEF LibraryCall, StartCall, NotifyAll, Sleep
  <2>2. CASE ShutdownCall(t)
    BY <1>4, <2>2, MarkerStays DEF LibraryCall, ShutdownCall, Sleep
  <2>3. CASE \E mode \in Mode : EmitCall(t, mode)
    BY <1>4, <2>3, MarkerStays DEF LibraryCall, EmitCall
  <2>4. QED
    BY <1>4, <2>1, <2>2, <2>3 DEF LibraryCall
<1>5. ASSUME NEW t \in Threads, Book(t) PROVE HostInv'
  BY <1>5, MarkerStays DEF Book, EmitCall
<1>6. ASSUME NEW t \in Threads, ExitBook(t) PROVE HostInv'
  <2>1. CASE ready = 1
    BY <1>6, <2>1, MarkerStays DEF ExitBook, EmitCall
  <2>2. CASE ready # 1
    BY <1>6, <2>2, MarkerStays DEF ExitBook, vars
  <2>3. QED
    BY <2>1, <2>2
<1>7. ASSUME NEW t \in Threads, ExitTeardown(t) PROVE HostInv'
  <2>1. CASE stopped
    BY <1>7, <2>1, MarkerStays DEF ExitTeardown, vars
  <2>2. CASE ~stopped
    BY <1>7, <2>2, MarkerStays DEF ExitTeardown, ShutdownCall, Sleep
  <2>3. QED
    BY <2>1, <2>2
<1>8. ASSUME NEW t \in Threads, Leave(t) PROVE HostInv'
  BY <1>8, MarkerStays DEF Leave, vars
<1>9. ASSUME Kill PROVE HostInv'
  BY <1>9, MarkerStays DEF Kill, vars
<1>10. ASSUME UNCHANGED allVars PROVE HostInv'
  BY <1>10, MarkerStays DEF allVars, vars
<1>11. QED
  BY <1>1, <1>2, <1>3, <1>4, <1>5, <1>6, <1>7, <1>8, <1>9, <1>10 DEF HostNext, ExitStep

\* The bridge's invariant and the host's hold in every state of the host.
THEOREM HostInvariant == HostSpec => [](IInv /\ HostInv)
<1>1. HostInit => IInv /\ HostInv
  <2>1. ASSUME HostInit PROVE IInv
    BY <2>1, InitInv DEF HostInit
  <2>2. ASSUME HostInit PROVE HostInv
    BY <2>2 DEF HostInit, Init, HostInv, HostTypeOK, BooksInv, AnswerInv, ExitInv
  <2>3. QED
    BY <2>1, <2>2
<1>2. IInv /\ HostInv /\ [HostNext]_allVars => (IInv /\ HostInv)'
  BY HostStepsBridge, InductiveStep, HostStep
<1>3. QED
  BY <1>1, <1>2, PTL DEF HostSpec

\* A process that left through os.Exit leaves its end marker in the capture and
\* nothing undelivered, whichever threads were emitting or exiting (gocall.cpp,
\* agy_on_exit; pybridge.cpp, shutdown).
THEOREM ExitCompletesCapture == HostSpec => []CompleteCapture
<1>1. IInv /\ HostInv => CompleteCapture
  BY DEF IInv, HostInv, BooksInv, ExitInv, TeardownInv, WorkerInv, WorkerAlive,
         CompleteCapture, Marked
<1>2. QED
  BY HostInvariant, <1>1, PTL

\* The bridge inside a host still delivers what it accepts as EventDelivery
\* promises, and never writes to the stack of an emit() that has returned.
THEOREM HostDelivers == HostSpec => DeliversEvents /\ []PromiseOnLiveStack
<1>1. HostInit => Delivery!Init
  <2>1. ASSUME HostInit PROVE InHand \o queue = <<>> /\ log = <<>> /\ Phase = "closed"
    BY <2>1, ConcatEmptySeq, EmptySeq DEF HostInit, Init, InHand, Phase
  <2>2. QED
    BY <2>1 DEF Delivery!Init
<1>2. IInv /\ [HostNext]_allVars => [Delivery!Next]_(Delivery!vars)
  BY HostStepsBridge, DeliveryStep
<1>3. IInv => PromiseOnLiveStack
  BY DEF IInv
<1>4. QED
  BY HostInvariant, <1>1, <1>2, <1>3, PTL DEF HostSpec, DeliversEvents

----------------------------------------------------------------------------
(* The session that asks the CLI.                                          *)

\* What may stand behind the objects, by the life of the CLI.
Ends(life) == CASE life = "finished" -> {<<>>, <<Done>>}
                [] life = "dead" -> {<<>>, <<Done>>, <<Torn>>}
                [] OTHER -> {<<>>}

\* StreamIntact, with the end that fits the CLI: it streams on only behind an
\* object, and ask() has raised only for a dead one.
PipeInv ==
  /\ session # "closed" /\ result # "broken" =>
       \E end \in Ends(cli) : taken \o got \o pipe = sent \o end
  /\ result = "broken" => cli = "dead" /\ phase = "out"

\* Who asks, and whom.
AskingInv ==
  /\ session = "new" => cli = "none"
  /\ phase # "out" => session = "open"
  /\ phase = "ready" => asks < MaxAsks
  /\ phase \in {"out", "ready"} => got = <<>>

SessionInv == SessionTypeOK /\ AskingInv /\ PipeInv

LEMMA SentinelsApart == Done \notin Object /\ Torn \notin Object /\ Done # Torn
  BY DEF Done, Torn, Object, Kind

LEMMA Pieces ==
  ASSUME SessionTypeOK
  PROVE  /\ taken \in Seq(Item) /\ got \in Seq(Item) /\ pipe \in Seq(Item) /\ sent \in Seq(Item)
         /\ taken \o got \in Seq(Item) /\ taken \o got \in Seq(Object)
         /\ \A end \in {<<>>, <<Done>>, <<Torn>>} : end \in Seq(Item)
<1>1. taken \in Seq(Object) /\ got \in Seq(Object) /\ sent \in Seq(Object) /\ pipe \in Seq(Item)
  BY DEF SessionTypeOK
<1>2. \A s \in Seq(Object) : s \in Seq(Item)
  BY DEF Item
<1>3. Done \in Item /\ Torn \in Item
  BY DEF Item
<1>4. \A end \in {<<>>, <<Done>>, <<Torn>>} : end \in Seq(Item)
  <2>1. <<>> \in Seq(Item) /\ \A x \in Item : <<x>> \in Seq(Item)
    OBVIOUS
  <2>2. QED
    BY <1>3, <2>1
<1>5. QED
  BY <1>1, <1>2, <1>4

\* What is appended to the pipe is appended to the whole.
LEMMA TailWritten ==
  ASSUME NEW S, NEW a \in Seq(S), NEW p \in Seq(S), NEW x \in S
  PROVE  a \o Append(p, x) = (a \o p) \o <<x>>
<1>1. Append(p, x) = p \o <<x>> /\ <<x>> \in Seq(S)
  BY AppendIsConcat
<1>2. QED
  BY <1>1, ConcatAssociative

\* A sentinel at the head of the pipe is all there is in it.
LEMMA SentinelIsLast ==
  ASSUME SessionTypeOK, NEW end \in {<<>>, <<Done>>, <<Torn>>}, taken \o got \o pipe = sent \o end,
         pipe # <<>>, Head(pipe) \notin Object
  PROVE  taken \o got = sent /\ Len(pipe) = 1 /\ Len(end) = 1 /\ end[1] = Head(pipe)
<1>a. PICK h \in Seq(Item) : h = taken \o got
  BY Pieces
<1>b. PICK p \in Seq(Item) : p = pipe
  BY Pieces
<1>c. PICK s \in Seq(Item) : s = sent
  BY Pieces
<1>d. PICK e \in Seq(Item) : e = end
  BY Pieces
<1>e. /\ h \in Seq(Object) /\ s \in Seq(Object) /\ Len(e) <= 1 /\ p # <<>> /\ Head(p) \notin Object
      /\ h \o p = s \o e
  <2>1. Len(<<>>) <= 1 /\ Len(<<Done>>) <= 1 /\ Len(<<Torn>>) <= 1
    OBVIOUS
  <2>2. Len(e) <= 1
    BY <2>1, <1>d
  <2>3. h \in Seq(Object) /\ s \in Seq(Object)
    BY <1>a, <1>c, Pieces DEF SessionTypeOK
  <2>4. QED
    BY <2>2, <2>3, <1>a, <1>b, <1>c, <1>d
<1> DEFINE k == Len(h) + 1
<1>1. h \in Seq(Item) /\ s \in Seq(Item)
  OBVIOUS
<1>2. /\ Len(h) \in Nat /\ Len(s) \in Nat /\ Len(p) \in Nat /\ Len(e) \in Nat /\ Len(p) >= 1
      /\ Len(h) + Len(p) = Len(s) + Len(e)
  <2>1. Len(h \o p) = Len(h) + Len(p) /\ Len(s \o e) = Len(s) + Len(e)
    BY <1>1, ConcatProperties
  <2>2. Len(h) \in Nat /\ Len(s) \in Nat /\ Len(p) \in Nat /\ Len(e) \in Nat /\ Len(p) # 0
    BY <1>1, <1>e, EmptySeq
  <2>3. QED
    BY <2>1, <2>2, <1>e
<1>3. (h \o p)[k] = Head(p)
  <2>1. k \in Nat /\ k > Len(h) /\ k - Len(h) = 1 /\ k \in 1 .. Len(h) + Len(p)
    BY <1>2
  <2>2. (h \o p)[k] = p[1]
    BY <2>1, <1>1
  <2>3. QED
    BY <2>2
<1>4. ~(k <= Len(s))
  <2>1. SUFFICES ASSUME k <= Len(s) PROVE FALSE
    OBVIOUS
  <2>2. k \in 1 .. Len(s)
    BY <2>1, <1>2
  <2>3. (s \o e)[k] = s[k] /\ s[k] \in Object
    BY <2>2, <1>1, <1>2, <1>e
  <2>4. QED
    BY <2>3, <1>3, <1>e
<1>5. Len(h) = Len(s) /\ Len(e) = 1 /\ Len(p) = 1
  <2>1. \A x, y, z, w \in Nat :
          x + z = y + w /\ z >= 1 /\ w <= 1 /\ ~(x + 1 <= y) => x = y /\ w = 1 /\ z = 1
    OBVIOUS
  <2>2. ~(Len(h) + 1 <= Len(s)) /\ Len(e) <= 1
    BY <1>4, <1>e
  <2>3. QED
    BY <1>2, <2>1, <2>2
<1>6. ASSUME NEW i \in 1 .. Len(s) PROVE h[i] = s[i]
  <2>1. i \in 1 .. Len(h) /\ i \in 1 .. Len(h) + Len(p) /\ i \in 1 .. Len(s) + Len(e)
    BY <1>2, <1>5
  <2>2. (h \o p)[i] = h[i] /\ (s \o e)[i] = s[i]
    BY <2>1, <1>1, <1>2
  <2>3. QED
    BY <2>2, <1>e
<1>7. h = s
  BY <1>5, <1>6, SeqEqual
<1>8. e[1] = Head(p)
  <2>1. k = Len(s) + 1 /\ k \in 1 .. Len(s) + Len(e) /\ k > Len(s) /\ k - Len(s) = 1
    BY <1>2, <1>5
  <2>2. (s \o e)[k] = e[1]
    BY <2>1, <1>1
  <2>3. QED
    BY <2>2, <1>3, <1>e
<1>9. QED
  BY <1>5, <1>7, <1>8, <1>a, <1>b, <1>c, <1>d

\* Steps that move nothing of the stream.
LEMMA StreamRests ==
  ASSUME SessionInv, SessionTypeOK', AskingInv', UNCHANGED <<taken, got, pipe, sent, result>>,
         session' # "closed", session # "closed",
         Ends(cli) \subseteq Ends(cli'), cli = "dead" => cli' = "dead",
         phase = "out" /\ result = "broken" => phase' = "out"
  PROVE  SessionInv'
  BY DEF SessionInv, PipeInv

\* A turn that ends returns what it has got.
LEMMA ReturnStep ==
  ASSUME SessionInv, NEW reason \in {"turn", "idle", "deadline", "exit"}, Return(reason),
         phase # "out", UNCHANGED <<session, asks, sinceAnswer, sinceOutput, elapsed, cli, output, sent>>,
         reaped' \in BOOLEAN, pipe' \in Seq(Item),
         \E end \in Ends(cli) : taken \o got \o pipe' = sent \o end
  PROVE  SessionInv'
<1>1. /\ SessionTypeOK /\ AskingInv /\ PipeInv
      /\ ended' \in BOOLEAN /\ result' = reason /\ taken' = taken \o got /\ got' = <<>> /\ phase' = "out"
  BY DEF SessionInv, Return
<1>2. taken \o got \in Seq(Object) /\ <<>> \in Seq(Object)
  BY <1>1, Pieces
<1>3. SessionTypeOK'
  BY <1>1, <1>2 DEF SessionTypeOK
<1>4. AskingInv'
  BY <1>1 DEF AskingInv
<1>5. PipeInv'
  <2>1. (taken \o got) \o <<>> = taken \o got
    BY <1>2
  <2>2. taken' \o got' \o pipe' = taken \o got \o pipe'
    BY <1>1, <2>1
  <2>3. result' # "broken" /\ Ends(cli)' = Ends(cli)
    BY <1>1 DEF Ends
  <2>4. QED
    BY <2>2, <2>3 DEF PipeInv
<1>6. QED
  BY <1>3, <1>4, <1>5 DEF SessionInv

LEMMA AgeTypes ==
  ASSUME SessionTypeOK
  PROVE  /\ \A age \in 0 .. Timeout : Older(age, Timeout) \in 0 .. Timeout
         /\ \A age \in -1 .. Idle : age # -1 => Older(age, Idle) \in -1 .. Idle
         /\ LET most == IF PtyIdle > PtyQuiet THEN PtyIdle ELSE PtyQuiet IN
            \A age \in 0 .. PtyIdle + PtyQuiet : Older(age, most) \in 0 .. PtyIdle + PtyQuiet
         /\ 0 \in 0 .. Timeout /\ 0 \in -1 .. Idle /\ -1 \in -1 .. Idle /\ 0 \in 0 .. PtyIdle + PtyQuiet
  BY TimeAssumption DEF Older

LEMMA SessionStep ==
  ASSUME SessionInv, SessionNext
  PROVE  SessionInv'
<1>0. /\ SessionTypeOK /\ AskingInv /\ PipeInv
      /\ taken \in Seq(Object) /\ got \in Seq(Object) /\ sent \in Seq(Object) /\ pipe \in Seq(Item)
      /\ asks \in Nat /\ MaxAsks \in Nat
  BY BoundAssumption DEF SessionInv, SessionTypeOK
<1>1. ASSUME session # "closed", result # "broken" PROVE \E end \in Ends(cli) : taken \o got \o pipe = sent \o end
  BY <1>0, <1>1 DEF PipeInv
<1>2. ASSUME phase # "out" PROVE session = "open" /\ result # "broken"
  BY <1>0, <1>2 DEF AskingInv, PipeInv
<1>3. CASE Close
  <2>1. /\ phase = "out" /\ session' = "closed" /\ reaped' \in BOOLEAN /\ pipe' = <<>>
        /\ cli' = (IF cli = "none" THEN cli ELSE "dead")
        /\ UNCHANGED <<phase, ended, result, asks, taken, got, sinceAnswer, sinceOutput, elapsed, output, sent>>
    BY <1>0, <1>3 DEF Close, turnVars, SessionTypeOK
  <2>2. SessionTypeOK'
    BY <1>0, <2>1 DEF SessionTypeOK
  <2>3. AskingInv' /\ PipeInv'
    BY <1>0, <2>1 DEF AskingInv, PipeInv
  <2>4. QED
    BY <2>2, <2>3 DEF SessionInv
<1>4. CASE StartFails
  <2>1. /\ phase = "out" /\ session' = "closed" /\ session = "new" /\ reaped' \in BOOLEAN /\ pipe' = pipe
        /\ cli' = (IF reaped' THEN "dead" ELSE "none")
        /\ UNCHANGED <<phase, ended, result, asks, taken, got, sinceAnswer, sinceOutput, elapsed, output, sent>>
    BY <1>4 DEF StartFails, turnVars
  <2>2. cli = "none" /\ result # "broken"
    BY <1>0, <2>1 DEF AskingInv, PipeInv
  <2>3. SessionTypeOK'
    BY <1>0, <2>1 DEF SessionTypeOK
  <2>4. AskingInv' /\ PipeInv'
    BY <1>0, <2>1, <2>2 DEF AskingInv, PipeInv
  <2>5. QED
    BY <2>3, <2>4 DEF SessionInv
<1>5. CASE Start
  <2>1. /\ phase = "out" /\ session = "new" /\ asks < MaxAsks
        /\ session' = "open" /\ cli' = "streaming" /\ phase' = "ready"
        /\ UNCHANGED <<ended, reaped, result, asks, taken, got, sinceAnswer, sinceOutput, elapsed, pipe, output, sent>>
    BY <1>5 DEF Start, turnVars
  <2>2. cli = "none" /\ result # "broken"
    BY <1>0, <2>1 DEF AskingInv, PipeInv
  <2>3. SessionTypeOK' /\ AskingInv'
    BY <1>0, <2>1 DEF SessionTypeOK, AskingInv
  <2>4. QED
    BY <2>1, <2>2, <2>3, StreamRests DEF Ends
<1>6. CASE Ask
  <2>1. /\ phase = "out" /\ session = "open" /\ asks < MaxAsks
        /\ reaped' = (reaped \/ cli = "dead") /\ phase' = (IF ended \/ reaped' THEN "out" ELSE "ready")
        /\ UNCHANGED <<session, ended, result, asks, taken, got, sinceAnswer, sinceOutput, elapsed, cli, pipe, output, sent>>
    BY <1>6 DEF Ask, turnVars, cliVars
  <2>2. result = "broken" => phase' = "out"
    BY <1>0, <2>1 DEF PipeInv
  <2>3. SessionTypeOK' /\ AskingInv'
    BY <1>0, <2>1 DEF SessionTypeOK, AskingInv
  <2>4. QED
    BY <2>1, <2>2, <2>3, StreamRests
<1>7. CASE Submit
  <2>1. /\ phase = "ready" /\ asks' = asks + 1 /\ got' = <<>> /\ sinceAnswer' = -1 /\ sinceOutput' = 0 /\ elapsed' = 0
        /\ phase' = "service"
        /\ UNCHANGED <<session, ended, reaped, result, taken, cli, pipe, output, sent>>
    BY <1>7 DEF Submit, cliVars
  <2>2. got = <<>>
    BY <1>0, <2>1 DEF AskingInv
  <2>3. asks' \in 0 .. MaxAsks /\ got' \in Seq(Object)
    BY <1>0, <2>1 DEF AskingInv
  <2>4. SessionTypeOK' /\ AskingInv'
    BY <1>0, <2>1, <2>3, AgeTypes DEF SessionTypeOK, AskingInv
  <2>5. QED
    BY <1>2, <2>1, <2>2, <2>4, StreamRests
<1>8. CASE Deadline
  <2>1. /\ phase = "service" /\ Return("deadline")
        /\ UNCHANGED <<session, reaped, asks, sinceAnswer, sinceOutput, elapsed, cli, pipe, output, sent>>
    BY <1>8 DEF Deadline, cliVars
  <2>2. reaped' \in BOOLEAN /\ pipe' \in Seq(Item) /\ \E end \in Ends(cli) : taken \o got \o pipe' = sent \o end
    BY <1>0, <1>1, <1>2, <2>1 DEF SessionTypeOK
  <2>3. QED
    BY <2>1, <2>2, ReturnStep
<1>9. CASE Service
  <2>1. /\ phase = "service" /\ output' = FALSE /\ sinceOutput' = (IF output THEN 0 ELSE sinceOutput)
        /\ phase' = (IF pipe # <<>> \/ cli = "dead" THEN "drain" ELSE "decide")
        /\ UNCHANGED <<session, ended, reaped, result, asks, taken, got, sinceAnswer, elapsed, cli, pipe, sent>>
    BY <1>9 DEF Service, lifeVars
  <2>2. SessionTypeOK' /\ AskingInv'
    BY <1>0, <2>1, AgeTypes DEF SessionTypeOK, AskingInv
  <2>3. QED
    BY <1>2, <2>1, <2>2, StreamRests
<1>10. CASE Take
  <2>1. /\ phase = "drain" /\ pipe # <<>> /\ Head(pipe) \in Object /\ got' = Append(got, Head(pipe))
        /\ sinceAnswer' = (IF Head(pipe).kind = "answer" THEN 0 ELSE sinceAnswer) /\ pipe' = Tail(pipe)
        /\ UNCHANGED <<phase, session, ended, reaped, result, asks, taken, sinceOutput, elapsed, cli, output, sent>>
    BY <1>10 DEF Take, lifeVars
  <2>2. got' \in Seq(Object) /\ pipe' \in Seq(Item)
    BY <1>0, <2>1
  <2>3. SessionTypeOK' /\ AskingInv'
    BY <1>0, <2>1, <2>2, AgeTypes DEF SessionTypeOK, AskingInv
  <2>4. taken' \o got' \o pipe' = taken \o got \o pipe
    <3>1. taken \in Seq(Item) /\ got \in Seq(Item) /\ pipe \in Seq(Item) /\ pipe # <<>>
      BY <1>0, <2>1, Pieces
    <3>2. Head(pipe) \in Item /\ Tail(pipe) \in Seq(Item) /\ pipe = <<Head(pipe)>> \o Tail(pipe)
      BY <3>1, HeadTailProperties
    <3>3. PICK x \in Item, t \in Seq(Item) : x = Head(pipe) /\ t = Tail(pipe)
      BY <3>2
    <3>4. Append(got, x) = got \o <<x>> /\ <<x>> \in Seq(Item) /\ taken \o got \in Seq(Item)
      BY <3>1, <3>3, AppendIsConcat
    <3>5. taken \o (got \o <<x>>) = (taken \o got) \o <<x>>
      BY <3>1, <3>4, ConcatAssociative
    <3>6. ((taken \o got) \o <<x>>) \o t = (taken \o got) \o (<<x>> \o t)
      BY <3>3, <3>4, ConcatAssociative
    <3>7. QED
      BY <2>1, <3>2, <3>3, <3>4, <3>5, <3>6
  <2>5. PipeInv'
    BY <1>0, <1>1, <1>2, <2>1, <2>4 DEF PipeInv, Ends
  <2>6. QED
    BY <2>3, <2>5 DEF SessionInv
<1>11. CASE Drained
  <2>1. /\ phase = "drain" /\ phase' = "decide"
        /\ UNCHANGED <<session, ended, reaped, result, asks, taken, got, sinceAnswer, sinceOutput, elapsed, cli, pipe, output, sent>>
    BY <1>11 DEF Drained, lifeVars, turnVars, cliVars
  <2>2. SessionTypeOK' /\ AskingInv'
    BY <1>0, <2>1 DEF SessionTypeOK, AskingInv
  <2>3. QED
    BY <1>2, <2>1, <2>2, StreamRests
<1>12. CASE Exit
  <2>1. /\ phase = "drain" /\ Return("exit") /\ reaped' \in {reaped, reaped \/ cli = "dead"}
        /\ UNCHANGED <<session, asks, sinceAnswer, sinceOutput, elapsed, cli, output, sent>>
        /\ \/ pipe' = pipe
           \/ pipe # <<>> /\ Head(pipe) = Done /\ pipe' = Tail(pipe)
    BY <1>12 DEF Exit
  <2>2. PICK end \in Ends(cli) : taken \o got \o pipe = sent \o end
    BY <1>1, <1>2, <2>1
  <2>3. end \in {<<>>, <<Done>>, <<Torn>>} /\ <<>> \in Ends(cli)
    BY <2>2 DEF Ends
  <2>4. reaped' \in BOOLEAN
    BY <1>0, <2>1 DEF SessionTypeOK
  <2>5. CASE pipe' = pipe
    BY <1>0, <2>1, <2>2, <2>4, <2>5, ReturnStep
  <2>6. CASE pipe # <<>> /\ Head(pipe) = Done /\ pipe' = Tail(pipe)
    <3>1. taken \o got \o pipe = sent \o end /\ Head(pipe) \notin Object
      BY <2>2, <2>6, SentinelsApart
    <3>2. taken \o got = sent /\ Len(pipe) = 1
      BY <1>0, <2>3, <2>6, <3>1, SentinelIsLast
    <3>3. taken \o got \o pipe' = sent \o <<>> /\ pipe' \in Seq(Item)
      <4>1. pipe' = <<>> /\ taken \o got = sent
        BY <1>0, <3>2, <2>6
      <4>2. QED
        BY <4>1
    <3>4. QED
      BY <2>1, <2>3, <2>4, <3>3, ReturnStep
  <2>7. QED
    BY <2>1, <2>5, <2>6
<1>13. CASE Broken
  <2>1. /\ phase = "drain" /\ pipe # <<>> /\ Head(pipe) = Torn /\ pipe' = Tail(pipe)
        /\ result' = "broken" /\ got' = <<>> /\ phase' = "out"
        /\ UNCHANGED <<session, ended, reaped, asks, taken, sinceAnswer, sinceOutput, elapsed, cli, output, sent>>
    BY <1>13 DEF Broken
  <2>2. PICK end \in Ends(cli) : taken \o got \o pipe = sent \o end
    BY <1>1, <1>2, <2>1
  <2>3. end \in {<<>>, <<Done>>, <<Torn>>}
    BY <2>2 DEF Ends
  <2>4. end = <<Torn>>
    <3>1. taken \o got \o pipe = sent \o end /\ Head(pipe) \notin Object
      BY <2>1, <2>2, SentinelsApart
    <3>2. Len(end) = 1 /\ end[1] = Head(pipe)
      BY <1>0, <2>1, <2>3, <3>1, SentinelIsLast
    <3>3. QED
      BY <2>1, <2>3, <3>2, SentinelsApart
  <2>5. cli = "dead"
    <3>1. <<Torn>> # <<>> /\ <<Torn>> # <<Done>>
      BY SentinelsApart
    <3>2. QED
      BY <2>2, <2>4, <3>1 DEF Ends
  <2>6. pipe' \in Seq(Item) /\ got' \in Seq(Object)
    BY <1>0, <2>1
  <2>7. SessionTypeOK' /\ AskingInv'
    BY <1>0, <2>1, <2>6 DEF SessionTypeOK, AskingInv
  <2>8. PipeInv'
    BY <2>1, <2>5 DEF PipeInv
  <2>9. QED
    BY <2>7, <2>8 DEF SessionInv
<1>14. CASE Decide
  <2>1. /\ phase = "decide"
        /\ UNCHANGED <<session, reaped, asks, sinceAnswer, sinceOutput, elapsed, cli, pipe, output, sent>>
        /\ \/ Return("turn") \/ Return("idle")
           \/ phase' = "service" /\ UNCHANGED <<ended, result, taken, got>>
    BY <1>14 DEF Decide, cliVars
  <2>2. CASE Return("turn") \/ Return("idle")
    <3>1. reaped' \in BOOLEAN /\ pipe' \in Seq(Item) /\ \E end \in Ends(cli) : taken \o got \o pipe' = sent \o end
      BY <1>0, <1>1, <1>2, <2>1 DEF SessionTypeOK
    <3>2. QED
      BY <2>1, <2>2, <3>1, ReturnStep
  <2>3. CASE phase' = "service" /\ UNCHANGED <<ended, result, taken, got>>
    <3>1. SessionTypeOK' /\ AskingInv'
      BY <1>0, <2>1, <2>3 DEF SessionTypeOK, AskingInv
    <3>2. QED
      BY <1>2, <2>1, <2>3, <3>1, StreamRests
  <2>4. QED
    BY <2>1, <2>2, <2>3
<1>15. ASSUME NEW k \in Kind, Stream(k) PROVE SessionInv'
  <2>1. PICK o : o = [id |-> Len(sent) + 1, kind |-> k]
    OBVIOUS
  <2>2. /\ cli = "streaming" /\ Len(sent) < MaxObjects /\ pipe' = Append(pipe, o) /\ sent' = Append(sent, o)
        /\ UNCHANGED <<phase, session, ended, reaped, result, asks, taken, got, sinceAnswer, sinceOutput, elapsed, cli, output>>
    BY <1>15, <2>1 DEF Stream, lifeVars, turnVars
  <2>3. o \in Object /\ o \in Item
    <3>1. Len(sent) + 1 \in 1 .. MaxObjects
      BY <1>0, <2>2, BoundAssumption
    <3>2. QED
      BY <2>1, <3>1 DEF Object, Item
  <2>4. pipe' \in Seq(Item) /\ sent' \in Seq(Object)
    BY <1>0, <2>2, <2>3
  <2>5. SessionTypeOK' /\ AskingInv'
    BY <1>0, <2>2, <2>4 DEF SessionTypeOK, AskingInv
  <2>6. ASSUME session # "closed", result # "broken" PROVE taken' \o got' \o pipe' = sent' \o <<>>
    <3>1. taken \o got \o pipe = sent \o <<>>
      BY <1>1, <2>2, <2>6 DEF Ends
    <3>2. taken \o got \o pipe = sent
      BY <3>1, <1>0
    <3>3. (taken \o got) \o Append(pipe, o) = ((taken \o got) \o pipe) \o <<o>>
      <4>1. PICK h \in Seq(Item) : h = taken \o got
        BY <1>0, Pieces
      <4>2. h \o Append(pipe, o) = (h \o pipe) \o <<o>>
        BY <1>0, <2>3, TailWritten
      <4>3. QED
        BY <4>1, <4>2
    <3>4. sent' = sent \o <<o>> /\ sent' \o <<>> = sent'
      BY <1>0, <2>2, <2>3, <2>4, AppendIsConcat
    <3>5. QED
      BY <2>2, <3>2, <3>3, <3>4
  <2>7. PipeInv'
    BY <1>0, <2>2, <2>6 DEF PipeInv, Ends
  <2>8. QED
    BY <2>5, <2>7 DEF SessionInv
<1>16. ASSUME NEW end \in {Done, Torn}, cli = "streaming", pipe' = Append(pipe, end),
              cli' \in {"finished", "dead"}, end = Torn => cli' = "dead",
              UNCHANGED <<phase, session, ended, reaped, result, asks, taken, got, sinceAnswer, sinceOutput, elapsed, output, sent>>
       PROVE  SessionInv'
  <2>1. end \in Item /\ pipe' \in Seq(Item)
    BY <1>0, <1>16 DEF Item
  <2>2. SessionTypeOK' /\ AskingInv'
    BY <1>0, <1>16, <2>1 DEF SessionTypeOK, AskingInv
  <2>3. ASSUME session # "closed", result # "broken" PROVE taken' \o got' \o pipe' = sent' \o <<end>>
    <3>1. taken \o got \o pipe = sent \o <<>>
      BY <1>1, <1>16, <2>3 DEF Ends
    <3>2. taken \o got \o pipe = sent
      BY <3>1, <1>0
    <3>3. (taken \o got) \o Append(pipe, end) = ((taken \o got) \o pipe) \o <<end>>
      <4>1. PICK h \in Seq(Item) : h = taken \o got
        BY <1>0, Pieces
      <4>2. h \o Append(pipe, end) = (h \o pipe) \o <<end>>
        BY <1>0, <2>1, TailWritten
      <4>3. QED
        BY <4>1, <4>2
    <3>4. QED
      BY <1>16, <3>2, <3>3
  <2>4. <<end>> \in Ends(cli')
    BY <1>16 DEF Ends
  <2>5. PipeInv'
    BY <1>0, <1>16, <2>3, <2>4 DEF PipeInv, Ends
  <2>6. QED
    BY <2>2, <2>5 DEF SessionInv
<1>17. CASE Finish
  <2>1. /\ cli = "streaming" /\ cli' = "finished" /\ pipe' = Append(pipe, Done)
        /\ UNCHANGED <<phase, session, ended, reaped, result, asks, taken, got, sinceAnswer, sinceOutput, elapsed, output, sent>>
    BY <1>17 DEF Finish, lifeVars, turnVars
  <2>2. Done \in {Done, Torn} /\ Done # Torn
    BY SentinelsApart
  <2>3. QED
    BY <1>16, <2>1, <2>2
<1>18. CASE Die
  <2>1. /\ cli \in {"streaming", "finished"} /\ cli' = "dead"
        /\ UNCHANGED <<phase, session, ended, reaped, result, asks, taken, got, sinceAnswer, sinceOutput, elapsed, output, sent>>
    BY <1>18 DEF Die, Running, lifeVars, turnVars
  <2>2. CASE cli = "streaming" /\ pipe' = Append(pipe, Torn)
    BY <1>16, <2>1, <2>2
  <2>3. CASE pipe' = pipe
    <3>1. SessionTypeOK' /\ AskingInv'
      BY <1>0, <2>1, <2>3 DEF SessionTypeOK, AskingInv
    <3>2. Ends(cli) \subseteq Ends(cli')
      BY <2>1 DEF Ends
    <3>3. CASE session = "closed"
      BY <1>0, <2>1, <3>1, <3>3 DEF SessionInv, PipeInv
    <3>4. CASE session # "closed"
      BY <2>1, <2>3, <3>1, <3>2, <3>4, StreamRests
    <3>5. QED
      BY <3>3, <3>4
  <2>4. QED
    BY <1>18, <2>2, <2>3 DEF Die
<1>19. CASE Paint \/ Tick
  <2>1. /\ UNCHANGED <<phase, session, ended, reaped, result, asks, taken, got, cli, pipe, sent>>
        /\ output' \in BOOLEAN /\ elapsed' \in 0 .. Timeout /\ sinceAnswer' \in -1 .. Idle
        /\ sinceOutput' \in 0 .. PtyIdle + PtyQuiet
    <3>1. CASE Paint
      BY <1>0, <3>1 DEF Paint, SessionTypeOK, lifeVars, turnVars
    <3>2. CASE Tick
      BY <1>0, <3>2, AgeTypes DEF Tick, SessionTypeOK, lifeVars, cliVars
    <3>3. QED
      BY <1>19, <3>1, <3>2
  <2>2. SessionTypeOK' /\ AskingInv'
    BY <1>0, <2>1 DEF SessionTypeOK, AskingInv
  <2>3. PipeInv'
    BY <1>0, <2>1 DEF PipeInv, Ends
  <2>4. QED
    BY <2>2, <2>3 DEF SessionInv
<1>20. QED
  BY <1>3, <1>4, <1>5, <1>6, <1>7, <1>8, <1>9, <1>10, <1>11, <1>12, <1>13, <1>14, <1>15, <1>17, <1>18, <1>19
     DEF SessionNext, TurnStep

LEMMA SessionStarts == SessionInit => SessionInv
<1>1. SUFFICES ASSUME SessionInit PROVE SessionInv
  OBVIOUS
<1>2. SessionTypeOK
  <2>1. <<>> \in Seq(Object) /\ <<>> \in Seq(Item) /\ 0 \in 0 .. MaxAsks
    BY BoundAssumption
  <2>2. -1 \in -1 .. Idle /\ 0 \in 0 .. Timeout /\ 0 \in 0 .. PtyIdle + PtyQuiet
    BY TimeAssumption
  <2>3. QED
    BY <1>1, <2>1, <2>2 DEF SessionInit, SessionTypeOK
<1>3. AskingInv
  BY <1>1 DEF SessionInit, AskingInv
<1>4. PipeInv
  <2>1. taken \o got \o pipe = sent \o <<>>
    BY <1>1 DEF SessionInit
  <2>2. QED
    BY <1>1, <2>1 DEF SessionInit, PipeInv, Ends
<1>5. QED
  BY <1>2, <1>3, <1>4 DEF SessionInv

LEMMA SessionRests == SessionInv /\ UNCHANGED sessionVars => SessionInv'
<1> SUFFICES ASSUME SessionInv, UNCHANGED sessionVars PROVE SessionInv'
  OBVIOUS
<1>1. UNCHANGED <<phase, session, ended, reaped, result, asks, taken, got, sinceAnswer, sinceOutput, elapsed,
                  cli, pipe, output, sent>>
  BY DEF sessionVars, lifeVars, turnVars, cliVars
<1>2. SessionTypeOK' /\ AskingInv'
  BY <1>1 DEF SessionInv, SessionTypeOK, AskingInv
<1>3. PipeInv'
  BY <1>1 DEF SessionInv, PipeInv, Ends
<1>4. QED
  BY <1>2, <1>3 DEF SessionInv

\* The invariant of a session: its state, who asks, and what stands in the pipe.
THEOREM SessionInvariant == SessionSpec => []SessionInv
<1>1. SessionInv /\ [SessionNext]_sessionVars => SessionInv'
  BY SessionRests, SessionStep
<1>2. QED
  BY <1>1, SessionStarts, PTL DEF SessionSpec

\* Nothing of the stream is lost, doubled or put out of order at the seam of two
\* turns, whatever ends them and whenever the CLI dies (ask_turn).
THEOREM StreamStaysIntact == SessionSpec => []StreamIntact
<1>1. SessionInv => StreamIntact
  BY DEF SessionInv, PipeInv, StreamIntact, Ends
<1>2. QED
  BY <1>1, SessionInvariant, PTL

\* The same on the whole way of a response: its other parts do not touch the session.
THEOREM PathKeepsStream == PathSpec => []StreamIntact
<1>1. PathInit => SessionInv
  BY SessionStarts DEF PathInit
<1>2. SessionInv /\ [PathNext]_allvars => SessionInv'
  <2> SUFFICES ASSUME SessionInv, [PathNext]_allvars PROVE SessionInv'
    OBVIOUS
  <2>1. CASE Session
    BY <2>1, SessionStep DEF Session
  <2>2. CASE Streams \/ Channels \/ Contents \/ UNCHANGED allvars
    <3>1. UNCHANGED sessionVars
      BY <2>2 DEF Streams, Channels, Contents, allvars
    <3>2. QED
      BY <3>1, SessionRests
  <2>3. QED
    BY <2>1, <2>2 DEF PathNext
<1>3. SessionInv => StreamIntact
  BY DEF SessionInv, PipeInv, StreamIntact, Ends
<1>4. QED
  BY <1>1, <1>2, <1>3, PTL DEF PathSpec

----------------------------------------------------------------------------
(* Concatenation.                                                          *)

\* What holds of 0, and of n + 1 when of n, holds of every number.
LEMMA Numbers ==
  ASSUME NEW S, 0 \in S, \A n \in Nat : n \in S => n + 1 \in S
  PROVE  \A n \in Nat : n \in S
<1> DEFINE R == OpToRel(<, Nat)
           T == {n \in Nat : n \notin S}
<1>1. IsWellFoundedOn(R, Nat)
  BY NatLessThanWellFounded
<1>2. \A x, y \in Nat : x < y => <<x, y>> \in R
  BY DEF OpToRel
<1> HIDE DEF R
<1>3. SUFFICES ASSUME T # {} PROVE FALSE
  OBVIOUS
<1>4. PICK x \in T : \A y \in T : <<y, x>> \notin R
  BY <1>1, <1>3, WFMin
<1>5. x # 0 /\ x \in Nat /\ x \notin S
  BY <1>4
<1>6. x - 1 \in Nat /\ x - 1 < x /\ (x - 1) + 1 = x
  BY <1>5
<1>7. x - 1 \notin T
  BY <1>2, <1>4, <1>5, <1>6
<1>8. QED
  BY <1>5, <1>6, <1>7

\* f is s with its first n blocks one behind the other: each entry of f has a
\* block and a place in it, later entries have later ones, and none is left out.
LaidBy(f, s, n, block, place) ==
  /\ block \in [1 .. Len(f) -> 1 .. n] /\ place \in [1 .. Len(f) -> Nat]
  /\ \A i \in 1 .. Len(f) : place[i] \in 1 .. Len(s[block[i]]) /\ f[i] = s[block[i]][place[i]]
  /\ \A i, j \in 1 .. Len(f) : i < j => \/ block[i] < block[j]
                                        \/ block[i] = block[j] /\ place[i] < place[j]
  /\ \A b \in 1 .. n : \A k \in 1 .. Len(s[b]) : \E i \in 1 .. Len(f) : block[i] = b /\ place[i] = k
Laid(f, s, n) == \E block, place : LaidBy(f, s, n, block, place)

LEMMA LaidNone == ASSUME NEW s PROVE Laid(<<>>, s, 0)
<1>1. PICK f : f = <<>>
  OBVIOUS
<1>2. Len(f) = 0
  BY <1>1
<1>3. [i \in 1 .. Len(f) |-> 1] \in [1 .. Len(f) -> 1 .. 0] /\ [i \in 1 .. Len(f) |-> 1] \in [1 .. Len(f) -> Nat]
  BY <1>2
<1>4. LaidBy(f, s, 0, [i \in 1 .. Len(f) |-> 1], [i \in 1 .. Len(f) |-> 1])
  BY <1>2, <1>3 DEF LaidBy
<1>5. QED
  BY <1>1, <1>4 DEF Laid

\* The next block goes behind the others.
LEMMA LaidMore ==
  ASSUME NEW X, NEW s \in Seq(Seq(X)), NEW n \in Nat, n + 1 \in 1 .. Len(s), NEW f \in Seq(X), Laid(f, s, n)
  PROVE  f \o s[n + 1] \in Seq(X) /\ Laid(f \o s[n + 1], s, n + 1)
<1>1. PICK t \in Seq(X) : t = s[n + 1]
  OBVIOUS
<1>2. PICK block, place : LaidBy(f, s, n, block, place)
  BY DEF Laid
<1>3. PICK g, l, m : g = f \o t /\ l = Len(f) /\ m = Len(t)
  OBVIOUS
<1>4. /\ g \in Seq(X) /\ l \in Nat /\ m \in Nat /\ Len(g) = l + m
      /\ \A i \in 1 .. l : g[i] = f[i]
      /\ \A k \in 1 .. m : g[l + k] = t[k]
  BY <1>3
<1> DEFINE newBlock == [i \in 1 .. Len(g) |-> IF i <= l THEN block[i] ELSE n + 1]
           newPlace == [i \in 1 .. Len(g) |-> IF i <= l THEN place[i] ELSE i - l]
<1>5. PICK bs, ps : bs = newBlock /\ ps = newPlace
  OBVIOUS
<1>6. /\ \A i \in 1 .. Len(g) : i <= l => i \in 1 .. l /\ bs[i] = block[i] /\ ps[i] = place[i]
      /\ \A i \in 1 .. Len(g) : ~(i <= l) => bs[i] = n + 1 /\ ps[i] = i - l
  BY <1>4, <1>5
<1>7. \A i \in 1 .. l : block[i] \in 1 .. n /\ place[i] \in Nat
  BY <1>2, <1>3 DEF LaidBy
<1>8. bs \in [1 .. Len(g) -> 1 .. n + 1] /\ ps \in [1 .. Len(g) -> Nat]
  <2>1. \A i \in 1 .. Len(g) : (IF i <= l THEN block[i] ELSE n + 1) \in 1 .. n + 1
    BY <1>4, <1>7
  <2>2. \A i \in 1 .. Len(g) : (IF i <= l THEN place[i] ELSE i - l) \in Nat
    BY <1>4, <1>7
  <2>3. QED
    BY <1>5, <2>1, <2>2
<1>9. ASSUME NEW i \in 1 .. Len(g) PROVE ps[i] \in 1 .. Len(s[bs[i]]) /\ g[i] = s[bs[i]][ps[i]]
  <2>1. CASE i <= l
    BY <1>2, <1>3, <1>4, <1>6, <2>1 DEF LaidBy
  <2>2. CASE ~(i <= l)
    <3>1. i - l \in 1 .. m /\ i = l + (i - l)
      BY <1>4, <2>2
    <3>2. QED
      BY <1>1, <1>3, <1>4, <1>6, <2>2, <3>1
  <2>3. QED
    BY <2>1, <2>2
<1>10. ASSUME NEW i \in 1 .. Len(g), NEW j \in 1 .. Len(g), i < j
       PROVE  bs[i] < bs[j] \/ (bs[i] = bs[j] /\ ps[i] < ps[j])
  <2>1. CASE j <= l
    <3>1. i <= l /\ i \in 1 .. l /\ j \in 1 .. l
      BY <1>4, <1>10, <2>1
    <3>2. bs[i] = block[i] /\ ps[i] = place[i] /\ bs[j] = block[j] /\ ps[j] = place[j]
      BY <1>6, <2>1, <3>1
    <3>3. block[i] < block[j] \/ (block[i] = block[j] /\ place[i] < place[j])
      <4>1. \A x, y \in 1 .. l : x < y => block[x] < block[y] \/ (block[x] = block[y] /\ place[x] < place[y])
        BY <1>2, <1>3 DEF LaidBy
      <4>2. QED
        BY <1>10, <3>1, <4>1
    <3>4. QED
      BY <3>2, <3>3
  <2>2. CASE ~(j <= l) /\ i <= l
    <3>1. bs[j] = n + 1 /\ bs[i] \in 1 .. n
      BY <1>6, <1>7, <2>2
    <3>2. PICK a \in 1 .. n : a = bs[i]
      BY <3>1
    <3>3. a < n + 1
      OBVIOUS
    <3>4. QED
      BY <3>1, <3>2, <3>3
  <2>3. CASE ~(j <= l) /\ ~(i <= l)
    <3>1. bs[i] = n + 1 /\ bs[j] = n + 1 /\ ps[i] = i - l /\ ps[j] = j - l
      BY <1>6, <2>3
    <3>2. QED
      BY <1>4, <1>10, <3>1
  <2>4. QED
    BY <2>1, <2>2, <2>3
<1>11. ASSUME NEW b \in 1 .. n + 1, NEW k \in 1 .. Len(s[b])
       PROVE  \E i \in 1 .. Len(g) : bs[i] = b /\ ps[i] = k
  <2>1. CASE b \in 1 .. n
    <3>1. PICK i \in 1 .. l : block[i] = b /\ place[i] = k
      BY <1>2, <1>3, <2>1 DEF LaidBy
    <3>2. i \in 1 .. Len(g) /\ i <= l
      BY <1>4
    <3>3. QED
      BY <1>6, <3>1, <3>2
  <2>2. CASE b = n + 1
    <3>1. k \in 1 .. m
      BY <1>1, <1>3, <2>2
    <3>2. l + k \in 1 .. Len(g) /\ ~(l + k <= l) /\ (l + k) - l = k
      BY <1>4, <3>1
    <3>3. bs[l + k] = n + 1 /\ ps[l + k] = k
      BY <1>6, <3>2
    <3>4. QED
      BY <2>2, <3>2, <3>3
  <2>3. QED
    BY <2>1, <2>2
<1>12. Laid(g, s, n + 1)
  <2>1. LaidBy(g, s, n + 1, bs, ps)
    BY <1>8, <1>9, <1>10, <1>11 DEF LaidBy
  <2>2. QED
    BY <2>1 DEF Laid
<1>13. QED
  BY <1>1, <1>3, <1>4, <1>12

\* g[i] has the first i blocks of s.
Sums(g, s, n) == g = [i \in 1 .. n |-> IF i = 1 THEN s[i] ELSE g[i - 1] \o s[i]]

LEMMA SumsExist ==
  ASSUME NEW s, NEW n \in Nat
  PROVE  \E g : Sums(g, s, n)
<1> DEFINE S == {k \in Nat : \E g : Sums(g, s, k)}
<1>1. 0 \in S
  <2>1. Sums([i \in 1 .. 0 |-> IF i = 1 THEN s[i] ELSE <<>>[i - 1] \o s[i]], s, 0)
    BY DEF Sums
  <2>2. QED
    BY <2>1
<1>2. ASSUME NEW k \in Nat, k \in S PROVE k + 1 \in S
  <2>1. PICK g : Sums(g, s, k)
    BY <1>2
  <2>2. \A i \in 1 .. k : g[i] = IF i = 1 THEN s[i] ELSE g[i - 1] \o s[i]
    BY <2>1 DEF Sums
  <2>3. PICK h : h = [i \in 1 .. k + 1 |-> IF i <= k THEN g[i] ELSE IF i = 1 THEN s[i] ELSE g[i - 1] \o s[i]]
    OBVIOUS
  <2>4. /\ \A i \in 1 .. k + 1 : i <= k => (i \in 1 .. k /\ h[i] = g[i])
        /\ \A i \in 1 .. k + 1 : ~(i <= k) => h[i] = IF i = 1 THEN s[i] ELSE g[i - 1] \o s[i]
    BY <2>3
  <2>5. ASSUME NEW i \in 1 .. k + 1 PROVE h[i] = IF i = 1 THEN s[i] ELSE h[i - 1] \o s[i]
    <3>1. CASE i = 1
      <4>1. CASE k = 0
        <5>1. ~(i <= k)
          BY <3>1, <4>1
        <5>2. QED
          BY <2>4, <3>1, <5>1
      <4>2. CASE k # 0
        <5>1. i <= k /\ i \in 1 .. k
          BY <3>1, <4>2
        <5>2. QED
          BY <2>2, <2>4, <3>1, <5>1
      <4>3. QED
        BY <4>1, <4>2
    <3>2. CASE i # 1
      <4>1. PICK m \in 1 .. k : m = i - 1 /\ m \in 1 .. k + 1 /\ m <= k
        BY <3>2
      <4>2. h[m] = g[m]
        BY <2>4, <4>1
      <4>3. CASE i <= k
        <5>1. i \in 1 .. k /\ h[i] = g[i]
          BY <2>4, <4>3
        <5>2. g[i] = g[i - 1] \o s[i]
          BY <2>2, <3>2, <5>1
        <5>3. QED
          BY <3>2, <4>1, <4>2, <5>1, <5>2
      <4>4. CASE ~(i <= k)
        <5>1. h[i] = g[i - 1] \o s[i]
          BY <2>4, <3>2, <4>4
        <5>2. QED
          BY <3>2, <4>1, <4>2, <5>1
      <4>5. QED
        BY <4>3, <4>4
    <3>3. QED
      BY <3>1, <3>2
  <2>6. Sums(h, s, k + 1)
    BY <2>3, <2>5 DEF Sums
  <2>7. QED
    BY <2>6
<1> HIDE DEF S
<1>3. n \in S
  BY <1>1, <1>2, Numbers
<1>4. QED
  BY <1>3 DEF S

\* FlattenSeq puts the blocks of s one behind the other.
LEMMA Flattened ==
  ASSUME NEW X, NEW s \in Seq(Seq(X))
  PROVE  D!FlattenSeq(s) \in Seq(X) /\ Laid(D!FlattenSeq(s), s, Len(s))
<1>1. CASE Len(s) = 0
  <2>1. s = <<>> /\ D!FlattenSeq(s) = s
    BY <1>1 DEF D!FlattenSeq
  <2>2. <<>> \in Seq(X)
    OBVIOUS
  <2>3. QED
    BY <1>1, <2>1, <2>2, LaidNone
<1>2. CASE Len(s) # 0
  <2>1. PICK n \in Nat \ {0} : n = Len(s)
    BY <1>2
  <2>2. PICK g : Sums(g, s, n) /\ D!FlattenSeq(s) = g[n]
    <3>1. D!FlattenSeq(s) = (CHOOSE g : Sums(g, s, n))[n]
      BY <1>2, <2>1 DEF D!FlattenSeq, Sums
    <3>2. QED
      BY <2>1, <3>1, SumsExist
  <2>3. \A i \in 1 .. n : g[i] = IF i = 1 THEN s[i] ELSE g[i - 1] \o s[i]
    BY <2>2 DEF Sums
  <2> DEFINE S == {k \in Nat : k \in 1 .. n => g[k] \in Seq(X) /\ Laid(g[k], s, k)}
  <2>4. 0 \in S
    OBVIOUS
  <2>5. ASSUME NEW k \in Nat, k \in S PROVE k + 1 \in S
    <3> SUFFICES ASSUME k + 1 \in 1 .. n PROVE g[k + 1] \in Seq(X) /\ Laid(g[k + 1], s, k + 1)
      OBVIOUS
    <3>1. k + 1 \in 1 .. Len(s)
      BY <2>1
    <3>2. CASE k = 0
      <4>1. <<>> \in Seq(X) /\ Laid(<<>>, s, k)
        BY <3>2, LaidNone
      <4>2. PICK f \in Seq(X) : f = <<>> /\ Laid(f, s, k)
        BY <4>1
      <4>3. f \o s[k + 1] \in Seq(X) /\ Laid(f \o s[k + 1], s, k + 1)
        BY <3>1, <4>2, LaidMore
      <4>4. s[k + 1] \in Seq(X) /\ <<>> \o s[k + 1] = s[k + 1]
        BY <3>1
      <4>5. g[k + 1] = s[k + 1]
        BY <2>3, <3>2
      <4>6. QED
        BY <4>2, <4>3, <4>4, <4>5
    <3>3. CASE k # 0
      <4>1. k \in 1 .. n /\ k + 1 # 1 /\ (k + 1) - 1 = k
        BY <3>3
      <4>2. g[k] \in Seq(X) /\ Laid(g[k], s, k)
        BY <2>5, <4>1
      <4>3. g[k + 1] = g[k] \o s[k + 1]
        BY <2>3, <4>1
      <4>4. PICK f \in Seq(X) : f = g[k]
        BY <4>2
      <4>5. f \o s[k + 1] \in Seq(X) /\ Laid(f \o s[k + 1], s, k + 1)
        BY <3>1, <4>2, <4>4, LaidMore
      <4>6. QED
        BY <4>3, <4>4, <4>5
    <3>4. QED
      BY <3>2, <3>3
  <2> HIDE DEF S
  <2>6. n \in S
    BY <2>4, <2>5, Numbers
  <2>7. QED
    BY <2>1, <2>2, <2>6 DEF S
<1>3. QED
  BY <1>1, <1>2

----------------------------------------------------------------------------
(* What a decoder joins.                                                   *)

Piece == [kind : {"think", "text"}, nth : Nat]
Rising(parts) == \A i, j \in DOMAIN parts : i < j => parts[i].nth < parts[j].nth
\* All parts of one sequence are before those of the other.
Ahead(one, other) == \A p \in D!Range(one), q \in D!Range(other) : p.nth < q.nth

\* Blocks that rise, each from where the one before ends, make a text that rises.
LEMMA RisingBlocks ==
  ASSUME NEW s \in Seq(Seq(Piece)), \A b \in 1 .. Len(s) : Rising(s[b]),
         \A a, b \in 1 .. Len(s) : a < b => Ahead(s[a], s[b])
  PROVE  /\ D!FlattenSeq(s) \in Seq(Piece)
         /\ D!Tells(D!FlattenSeq(s), {p \in Piece : \E b \in 1 .. Len(s) : p \in D!Range(s[b])})
<1>1. PICK f : f = D!FlattenSeq(s)
  OBVIOUS
<1>2. f \in Seq(Piece) /\ Laid(f, s, Len(s))
  BY <1>1, Flattened
<1>3. PICK block, place : LaidBy(f, s, Len(s), block, place)
  BY <1>2 DEF Laid
<1>4. ASSUME NEW i \in 1 .. Len(f)
      PROVE  /\ block[i] \in 1 .. Len(s) /\ place[i] \in 1 .. Len(s[block[i]]) /\ f[i] = s[block[i]][place[i]]
             /\ s[block[i]] \in Seq(Piece) /\ DOMAIN s[block[i]] = 1 .. Len(s[block[i]])
  <2>1. block[i] \in 1 .. Len(s) /\ place[i] \in 1 .. Len(s[block[i]]) /\ f[i] = s[block[i]][place[i]]
    BY <1>3 DEF LaidBy
  <2>2. s[block[i]] \in Seq(Piece)
    BY <2>1
  <2>3. QED
    BY <2>1, <2>2
<1>5. ASSUME NEW i \in 1 .. Len(f), NEW j \in 1 .. Len(f), i < j PROVE f[i].nth < f[j].nth
  <2>1. PICK a, b, x, y : a = block[i] /\ b = block[j] /\ x = place[i] /\ y = place[j]
    OBVIOUS
  <2>2. /\ a \in 1 .. Len(s) /\ x \in DOMAIN s[a] /\ f[i] = s[a][x]
        /\ b \in 1 .. Len(s) /\ y \in DOMAIN s[b] /\ f[j] = s[b][y]
    BY <1>4, <2>1
  <2>3. a < b \/ (a = b /\ x < y)
    BY <1>3, <1>5, <2>1 DEF LaidBy
  <2>4. CASE a < b
    <3>1. Ahead(s[a], s[b])
      BY <2>2, <2>4
    <3>2. s[a][x] \in D!Range(s[a]) /\ s[b][y] \in D!Range(s[b])
      BY <2>2 DEF D!Range
    <3>3. QED
      BY <2>2, <3>1, <3>2 DEF Ahead
  <2>5. CASE a = b /\ x < y
    BY <2>2, <2>5 DEF Rising
  <2>6. QED
    BY <2>3, <2>4, <2>5
<1>6. DOMAIN f = 1 .. Len(f)
  BY <1>2
<1>7. ASSUME NEW p PROVE p \in D!Range(f) <=> p \in Piece /\ \E b \in 1 .. Len(s) : p \in D!Range(s[b])
  <2>1. ASSUME p \in D!Range(f) PROVE p \in Piece /\ \E b \in 1 .. Len(s) : p \in D!Range(s[b])
    <3>1. PICK i \in 1 .. Len(f) : p = f[i]
      BY <1>6, <2>1 DEF D!Range
    <3>2. block[i] \in 1 .. Len(s) /\ p \in D!Range(s[block[i]])
      BY <1>4, <3>1 DEF D!Range
    <3>3. QED
      BY <1>2, <3>1, <3>2
  <2>2. ASSUME NEW b \in 1 .. Len(s), p \in D!Range(s[b]) PROVE p \in D!Range(f)
    <3>1. s[b] \in Seq(Piece)
      OBVIOUS
    <3>2. PICK k \in 1 .. Len(s[b]) : p = s[b][k]
      BY <2>2, <3>1 DEF D!Range
    <3>3. PICK i \in 1 .. Len(f) : block[i] = b /\ place[i] = k
      BY <1>3 DEF LaidBy
    <3>4. p = f[i]
      BY <1>4, <3>2, <3>3
    <3>5. QED
      BY <1>6, <3>4 DEF D!Range
  <2>3. QED
    BY <2>1, <2>2
<1>8. D!Range(f) = {p \in Piece : \E b \in 1 .. Len(s) : p \in D!Range(s[b])}
  BY <1>7
<1>9. D!Tells(f, {p \in Piece : \E b \in 1 .. Len(s) : p \in D!Range(s[b])})
  BY <1>5, <1>6, <1>8 DEF D!Tells
<1>10. QED
  BY <1>1, <1>2, <1>9

\* Selecting the parts of a kind keeps them in order.
LEMMA KindTells ==
  ASSUME NEW parts \in Seq(Piece), Rising(parts), NEW k
  PROVE  /\ D!Kind(parts, k) \in Seq(Piece)
         /\ D!Tells(D!Kind(parts, k), {p \in Piece : p \in D!Range(parts) /\ p.kind = k})
<1> DEFINE blocks == [i \in DOMAIN parts |-> IF parts[i].kind = k THEN <<parts[i]>> ELSE <<>>]
<1>1. PICK s : s = blocks
  OBVIOUS
<1>2. DOMAIN parts = 1 .. Len(parts) /\ Len(parts) \in Nat /\ \A i \in 1 .. Len(parts) : parts[i] \in Piece
  OBVIOUS
<1>3. \A i \in 1 .. Len(parts) : /\ parts[i].kind = k => s[i] = <<parts[i]>>
                                 /\ parts[i].kind # k => s[i] = <<>>
  BY <1>1, <1>2
<1>4. \A i \in 1 .. Len(parts) : s[i] \in Seq(Piece) /\ DOMAIN s[i] \in {{1}, {}}
  <2>1. ASSUME NEW i \in 1 .. Len(parts) PROVE s[i] \in Seq(Piece) /\ DOMAIN s[i] \in {{1}, {}}
    <3>1. CASE parts[i].kind = k
      <4>1. s[i] = <<parts[i]>> /\ parts[i] \in Piece
        BY <1>2, <1>3, <3>1
      <4>2. QED
        BY <4>1
    <3>2. CASE parts[i].kind # k
      <4>1. s[i] = <<>>
        BY <1>3, <3>2
      <4>2. QED
        BY <4>1
    <3>3. QED
      BY <3>1, <3>2
  <2>2. QED
    BY <2>1
<1>5. s \in Seq(Seq(Piece)) /\ Len(s) = Len(parts)
  <2>1. s \in [1 .. Len(parts) -> Seq(Piece)]
    BY <1>1, <1>2, <1>4
  <2>2. QED
    BY <1>2, <2>1
<1>6. \A b \in 1 .. Len(s) : Rising(s[b])
  BY <1>4, <1>5 DEF Rising
<1>7. ASSUME NEW i \in 1 .. Len(parts), NEW p PROVE p \in D!Range(s[i]) <=> p = parts[i] /\ p.kind = k
  <2>1. CASE parts[i].kind = k
    <3>1. s[i] = <<parts[i]>>
      BY <1>3, <2>1
    <3>2. DOMAIN s[i] = {1} /\ s[i][1] = parts[i]
      BY <3>1
    <3>3. QED
      BY <2>1, <3>2 DEF D!Range
  <2>2. CASE parts[i].kind # k
    <3>1. s[i] = <<>>
      BY <1>3, <2>2
    <3>2. DOMAIN s[i] = {}
      BY <3>1
    <3>3. QED
      BY <2>2, <3>2 DEF D!Range
  <2>3. QED
    BY <2>1, <2>2
<1>8. ASSUME NEW a \in 1 .. Len(s), NEW b \in 1 .. Len(s), a < b PROVE Ahead(s[a], s[b])
  <2>1. \A p \in D!Range(s[a]) : p = parts[a]
    BY <1>5, <1>7
  <2>2. \A q \in D!Range(s[b]) : q = parts[b]
    BY <1>5, <1>7
  <2>3. parts[a].nth < parts[b].nth
    BY <1>2, <1>5, <1>8 DEF Rising
  <2>4. QED
    BY <2>1, <2>2, <2>3 DEF Ahead
<1>9. D!FlattenSeq(s) \in Seq(Piece) /\ D!Tells(D!FlattenSeq(s), {p \in Piece : \E b \in 1 .. Len(s) : p \in D!Range(s[b])})
  BY <1>5, <1>6, <1>8, RisingBlocks
<1>10. {p \in Piece : \E b \in 1 .. Len(s) : p \in D!Range(s[b])} = {p \in Piece : p \in D!Range(parts) /\ p.kind = k}
  <2>1. ASSUME NEW p \in Piece
        PROVE  (\E b \in 1 .. Len(s) : p \in D!Range(s[b])) <=> (p \in D!Range(parts) /\ p.kind = k)
    <3>1. (\E b \in 1 .. Len(s) : p \in D!Range(s[b])) <=> (\E b \in 1 .. Len(parts) : p = parts[b] /\ p.kind = k)
      BY <1>5, <1>7
    <3>2. p \in D!Range(parts) <=> \E b \in 1 .. Len(parts) : p = parts[b]
      BY <1>2 DEF D!Range
    <3>3. QED
      BY <3>1, <3>2
  <2>2. QED
    BY <2>1
<1>11. D!Kind(parts, k) = D!FlattenSeq(s)
  BY <1>1 DEF D!Kind, D!Each
<1>12. QED
  BY <1>9, <1>10, <1>11

\* The events of the servers.
Types == {"chunk", "last", "part", "usage", "finish", "text.delta", "reasoning.delta", "item", "completed", "failed"}
Happening == [type : Types, parts : Seq(Piece), tokens : Nat]

\* What the events of some types bring rises from one to the next.
Ordered(events, types) ==
  /\ \A i \in DOMAIN events : events[i].type \in types => Rising(events[i].parts)
  /\ \A i, j \in DOMAIN events :
       (i < j /\ events[i].type \in types /\ events[j].type \in types) => Ahead(events[i].parts, events[j].parts)
Brought(events, types, k) ==
  {p \in Piece : p.kind = k /\ \E i \in DOMAIN events : events[i].type \in types /\ p \in D!Range(events[i].parts)}

LEMMA JoinedTells ==
  ASSUME NEW events \in Seq(Happening), NEW types, Ordered(events, types), NEW k
  PROVE  /\ D!Joined(events, types, k) \in Seq(Piece)
         /\ D!Tells(D!Joined(events, types, k), Brought(events, types, k))
<1> DEFINE blocks == [i \in DOMAIN events |-> IF events[i].type \in types THEN events[i].parts ELSE <<>>]
<1>1. PICK s : s = blocks
  OBVIOUS
<1>2. /\ DOMAIN events = 1 .. Len(events) /\ Len(events) \in Nat
      /\ \A i \in 1 .. Len(events) : events[i].parts \in Seq(Piece)
  <2>1. \A i \in 1 .. Len(events) : events[i] \in Happening
    OBVIOUS
  <2>2. \A e \in Happening : e.parts \in Seq(Piece)
    BY DEF Happening
  <2>3. QED
    BY <2>1, <2>2
<1>3. /\ \A i \in 1 .. Len(events) : events[i].type \in types => s[i] = events[i].parts
      /\ \A i \in 1 .. Len(events) : events[i].type \notin types => s[i] = <<>>
  BY <1>1, <1>2
<1>4. \A i \in 1 .. Len(events) : s[i] \in Seq(Piece)
  <2>1. ASSUME NEW i \in 1 .. Len(events) PROVE s[i] \in Seq(Piece)
    <3>1. CASE events[i].type \in types
      BY <1>2, <1>3, <3>1
    <3>2. CASE events[i].type \notin types
      <4>1. s[i] = <<>> /\ <<>> \in Seq(Piece)
        BY <1>3, <3>2
      <4>2. QED
        BY <4>1
    <3>3. QED
      BY <3>1, <3>2
  <2>2. QED
    BY <2>1
<1>5. s \in Seq(Seq(Piece)) /\ Len(s) = Len(events)
  <2>1. s \in [1 .. Len(events) -> Seq(Piece)]
    BY <1>1, <1>2, <1>4
  <2>2. QED
    BY <1>2, <2>1
<1>6. ASSUME NEW i \in 1 .. Len(events), events[i].type \notin types PROVE DOMAIN s[i] = {} /\ D!Range(s[i]) = {}
  <2>1. s[i] = <<>>
    BY <1>3, <1>6
  <2>2. DOMAIN s[i] = {}
    BY <2>1
  <2>3. QED
    BY <2>2 DEF D!Range
<1>7. ASSUME NEW b \in 1 .. Len(s) PROVE Rising(s[b])
  <2>1. CASE events[b].type \in types
    <3>1. s[b] = events[b].parts /\ Rising(events[b].parts)
      BY <1>2, <1>3, <1>5, <2>1 DEF Ordered
    <3>2. QED
      BY <3>1
  <2>2. CASE events[b].type \notin types
    BY <1>5, <1>6, <2>2 DEF Rising
  <2>3. QED
    BY <2>1, <2>2
<1>8. ASSUME NEW a \in 1 .. Len(s), NEW b \in 1 .. Len(s), a < b PROVE Ahead(s[a], s[b])
  <2>1. CASE events[a].type \in types /\ events[b].type \in types
    <3>1. s[a] = events[a].parts /\ s[b] = events[b].parts /\ Ahead(events[a].parts, events[b].parts)
      BY <1>2, <1>3, <1>5, <1>8, <2>1 DEF Ordered
    <3>2. QED
      BY <3>1
  <2>2. CASE events[a].type \notin types
    BY <1>5, <1>6, <2>2 DEF Ahead
  <2>3. CASE events[b].type \notin types
    BY <1>5, <1>6, <2>3 DEF Ahead
  <2>4. QED
    BY <2>1, <2>2, <2>3
<1>9. PICK f : f = D!FlattenSeq(s)
  OBVIOUS
<1>10. f \in Seq(Piece) /\ D!Tells(f, {p \in Piece : \E b \in 1 .. Len(s) : p \in D!Range(s[b])})
  BY <1>5, <1>7, <1>8, <1>9, RisingBlocks
<1>11. Rising(f) /\ D!Range(f) = {p \in Piece : \E b \in 1 .. Len(s) : p \in D!Range(s[b])}
  BY <1>10 DEF D!Tells, Rising
<1>12. D!Kind(f, k) \in Seq(Piece) /\ D!Tells(D!Kind(f, k), {p \in Piece : p \in D!Range(f) /\ p.kind = k})
  BY <1>10, <1>11, KindTells
<1>13. {p \in Piece : p \in D!Range(f) /\ p.kind = k} = Brought(events, types, k)
  <2>1. ASSUME NEW p \in Piece
        PROVE  p \in D!Range(f) <=> \E i \in DOMAIN events : events[i].type \in types /\ p \in D!Range(events[i].parts)
    <3>1. p \in D!Range(f) <=> \E b \in 1 .. Len(events) : p \in D!Range(s[b])
      BY <1>5, <1>11
    <3>2. \A b \in 1 .. Len(events) : p \in D!Range(s[b]) <=> events[b].type \in types /\ p \in D!Range(events[b].parts)
      BY <1>3, <1>6
    <3>3. QED
      BY <1>2, <3>1, <3>2
  <2>2. QED
    BY <2>1 DEF Brought
<1>14. D!Joined(events, types, k) = D!Kind(f, k)
  BY <1>1, <1>9 DEF D!Joined, D!Each
<1>15. QED
  BY <1>12, <1>13, <1>14

----------------------------------------------------------------------------
(* What the servers send.                                                  *)

\* The parts of a reply.
Reply == {parts \in Seq(Piece) : \A i \in DOMAIN parts : parts[i].nth = i}

LEMMA PartsOfReply ==
  ASSUME NEW kinds \in Seq({"think", "text"})
  PROVE  D!Parts(kinds) \in Reply
<1>1. DOMAIN kinds = 1 .. Len(kinds) /\ Len(kinds) \in Nat /\ \A i \in 1 .. Len(kinds) : kinds[i] \in {"think", "text"}
  OBVIOUS
<1>2. PICK parts : parts = [i \in 1 .. Len(kinds) |-> [kind |-> kinds[i], nth |-> i]]
  OBVIOUS
<1>3. \A i \in 1 .. Len(kinds) : parts[i] \in Piece /\ parts[i].nth = i
  BY <1>1, <1>2 DEF Piece
<1>4. parts \in [1 .. Len(kinds) -> Piece]
  BY <1>2, <1>3
<1>5. parts \in Seq(Piece) /\ DOMAIN parts = 1 .. Len(kinds)
  BY <1>1, <1>4
<1>6. D!Parts(kinds) = parts
  BY <1>1, <1>2 DEF D!Parts
<1>7. QED
  BY <1>3, <1>5, <1>6 DEF Reply

LEMMA ReplyRises ==
  ASSUME NEW parts \in Reply
  PROVE  /\ parts \in Seq(Piece) /\ Rising(parts) /\ Len(parts) \in Nat /\ DOMAIN parts = 1 .. Len(parts)
         /\ \A i \in 1 .. Len(parts) : parts[i] \in Piece /\ parts[i].nth = i
<1>1. parts \in Seq(Piece) /\ \A i \in DOMAIN parts : parts[i].nth = i
  BY DEF Reply
<1>2. Len(parts) \in Nat /\ DOMAIN parts = 1 .. Len(parts) /\ \A i \in 1 .. Len(parts) : parts[i] \in Piece /\ parts[i].nth = i
  BY <1>1
<1>3. Rising(parts)
  BY <1>2 DEF Rising
<1>4. QED
  BY <1>1, <1>2, <1>3

\* A stream in blocks, one for each part of the reply, whose events bring that
\* part and are of different types.
Blocks(s, parts) ==
  /\ s \in Seq(Seq(Happening)) /\ Len(s) = Len(parts)
  /\ \A b \in 1 .. Len(parts) : \A x \in 1 .. Len(s[b]) : s[b][x].parts = <<parts[b]>>
  /\ \A b \in 1 .. Len(parts) : \A x, y \in 1 .. Len(s[b]) : s[b][x].type = s[b][y].type => x = y

\* The ith event is of block b, and comes no earlier than the first of it.
OfBlock(f, i, s, parts, b) ==
  /\ f[i].parts = <<parts[b]>>
  /\ \E x \in 1 .. Len(s[b]) : f[i] = s[b][x]
  /\ \E h \in 1 .. Len(f) : h <= i /\ f[h] = s[b][1]

\* Each event is of some block, and comes no earlier than the first of it; of
\* one type those of earlier parts come first.
LEMMA BlocksStreamed ==
  ASSUME NEW parts \in Reply, NEW s, Blocks(s, parts), NEW f, f = D!FlattenSeq(s)
  PROVE  /\ f \in Seq(Happening)
         /\ \A i \in 1 .. Len(f) : \E b \in 1 .. Len(parts) : OfBlock(f, i, s, parts, b)
         /\ \A b \in 1 .. Len(parts) : \A x \in 1 .. Len(s[b]) : \E i \in 1 .. Len(f) : f[i] = s[b][x]
         /\ \A i, j \in 1 .. Len(f) : (i < j /\ f[i].type = f[j].type) => Ahead(f[i].parts, f[j].parts)
<1>1. s \in Seq(Seq(Happening)) /\ Len(s) = Len(parts)
  BY DEF Blocks
<1>2. f \in Seq(Happening) /\ Laid(f, s, Len(parts))
  BY <1>1, Flattened
<1>3. PICK block, place : LaidBy(f, s, Len(parts), block, place)
  BY <1>2 DEF Laid
<1>4. ASSUME NEW i \in 1 .. Len(f)
      PROVE  /\ block[i] \in 1 .. Len(parts) /\ place[i] \in 1 .. Len(s[block[i]]) /\ f[i] = s[block[i]][place[i]]
             /\ place[i] \in Nat
  BY <1>3 DEF LaidBy
<1>5. \A i \in 1 .. Len(f) : f[i].parts = <<parts[block[i]]>>
  BY <1>4 DEF Blocks
<1>6. ASSUME NEW i \in 1 .. Len(f), NEW j \in 1 .. Len(f), i < j
      PROVE  block[i] < block[j] \/ (block[i] = block[j] /\ place[i] < place[j])
  BY <1>3, <1>6 DEF LaidBy
<1>7. Len(f) \in Nat /\ DOMAIN s = 1 .. Len(parts) /\ Len(parts) \in Nat
  BY <1>1, <1>2, ReplyRises
<1>8. ASSUME NEW i \in 1 .. Len(f)
      PROVE  \E h \in 1 .. Len(f) : h <= i /\ f[h] = s[block[i]][1]
  <2>1. PICK b \in 1 .. Len(parts), x \in Nat : b = block[i] /\ x = place[i] /\ x \in 1 .. Len(s[b])
    BY <1>4
  <2>2. s[b] \in Seq(Happening)
    BY <1>1, <1>7
  <2>3. 1 \in 1 .. Len(s[b]) /\ x \in Nat /\ ~(x < 1)
    BY <2>1, <2>2
  <2>4. PICK h \in 1 .. Len(f) : block[h] = b /\ place[h] = 1
    BY <1>3, <2>3 DEF LaidBy
  <2>5. f[h] = s[b][1]
    BY <1>4, <2>4
  <2>6. ~(i < h)
    <3>1. ~(b < b)
      OBVIOUS
    <3>2. QED
      BY <1>6, <2>1, <2>3, <2>4, <3>1
  <2>7. h <= i
    BY <1>7, <2>6
  <2>8. QED
    BY <2>1, <2>5, <2>7
<1>9. ASSUME NEW i \in 1 .. Len(f), NEW j \in 1 .. Len(f), i < j, f[i].type = f[j].type
      PROVE  Ahead(f[i].parts, f[j].parts)
  <2>0. PICK a \in 1 .. Len(parts), x \in Nat : a = block[i] /\ x = place[i] /\ x \in 1 .. Len(s[a]) /\ f[i] = s[a][x]
    BY <1>4
  <2>1. PICK b \in 1 .. Len(parts), y \in Nat : b = block[j] /\ y = place[j] /\ y \in 1 .. Len(s[b]) /\ f[j] = s[b][y]
    BY <1>4
  <2>2. a < b
    <3>1. CASE a = b /\ x < y
      <4>1. PICK u, t : u = s[a][x] /\ t = s[a][y]
        OBVIOUS
      <4>2. x \in 1 .. Len(s[a]) /\ y \in 1 .. Len(s[a]) /\ u.type = t.type
        BY <1>9, <2>0, <2>1, <3>1, <4>1
      <4>3. \A h, k \in 1 .. Len(s[a]) : s[a][h].type = s[a][k].type => h = k
        BY <2>0 DEF Blocks
      <4>4. x = y
        BY <4>1, <4>2, <4>3
      <4>5. QED
        BY <3>1, <4>4
    <3>2. QED
      BY <1>6, <1>9, <2>0, <2>1, <3>1
  <2>3. parts[a].nth < parts[b].nth
    BY <2>2, ReplyRises DEF Rising
  <2>4. f[i].parts = <<parts[a]>> /\ f[j].parts = <<parts[b]>>
    BY <1>5, <2>0, <2>1
  <2>5. QED
    BY <2>3, <2>4 DEF Ahead, D!Range
<1>10. \A b \in 1 .. Len(parts) : \A x \in 1 .. Len(s[b]) : \E i \in 1 .. Len(f) : f[i] = s[b][x]
  <2>1. ASSUME NEW b \in 1 .. Len(parts), NEW x \in 1 .. Len(s[b]) PROVE \E i \in 1 .. Len(f) : f[i] = s[b][x]
    <3>1. PICK i \in 1 .. Len(f) : block[i] = b /\ place[i] = x
      BY <1>3 DEF LaidBy
    <3>2. QED
      BY <1>4, <3>1
  <2>2. QED
    BY <2>1
<1>11. ASSUME NEW i \in 1 .. Len(f) PROVE \E b \in 1 .. Len(parts) : OfBlock(f, i, s, parts, b)
  <2>1. PICK b, x : b = block[i] /\ x = place[i]
    OBVIOUS
  <2>2. b \in 1 .. Len(parts) /\ x \in 1 .. Len(s[b]) /\ f[i] = s[b][x]
    BY <1>4, <2>1
  <2>3. f[i].parts = <<parts[b]>> /\ \E h \in 1 .. Len(f) : h <= i /\ f[h] = s[b][1]
    BY <1>5, <1>8, <2>1
  <2>4. QED
    BY <2>2, <2>3 DEF OfBlock
<1>12. QED
  BY <1>2, <1>9, <1>10, <1>11

LEMMA OfABlock ==
  ASSUME NEW parts \in Reply, NEW s, Blocks(s, parts), NEW f, f = D!FlattenSeq(s), NEW i \in 1 .. Len(f)
  PROVE  \E b \in 1 .. Len(parts) : OfBlock(f, i, s, parts, b)
BY BlocksStreamed

LEMMA BlocksOrdered ==
  ASSUME NEW parts \in Reply, NEW s, Blocks(s, parts), NEW f, f = D!FlattenSeq(s), NEW types, NEW type,
         \A i \in 1 .. Len(f) : f[i].type \in types => f[i].type = type
  PROVE  Ordered(f, types)
<1>1. DOMAIN f = 1 .. Len(f)
  BY BlocksStreamed
<1>2. ASSUME NEW i \in 1 .. Len(f) PROVE Rising(f[i].parts)
  <2>0. PICK b \in 1 .. Len(parts) : OfBlock(f, i, s, parts, b)
    BY OfABlock
  <2>1. PICK p : f[i].parts = <<p>>
    BY <2>0 DEF OfBlock
  <2>2. DOMAIN f[i].parts = {1}
    BY <2>1
  <2>3. QED
    BY <2>2 DEF Rising
<1>3. ASSUME NEW i \in 1 .. Len(f), NEW j \in 1 .. Len(f), i < j, f[i].type = type, f[j].type = type
      PROVE  Ahead(f[i].parts, f[j].parts)
  BY <1>3, BlocksStreamed
<1>4. QED
  BY <1>1, <1>2, <1>3 DEF Ordered

\* One event more.
LEMMA OneMore ==
  ASSUME NEW f \in Seq(Happening), NEW e \in Happening, NEW g, g = f \o <<e>>
  PROVE  /\ g \in Seq(Happening) /\ Len(f) \in Nat /\ Len(g) = Len(f) + 1
         /\ DOMAIN g = 1 .. Len(f) + 1 /\ DOMAIN f = 1 .. Len(f)
         /\ \A i \in 1 .. Len(f) : g[i] = f[i]
         /\ g[Len(f) + 1] = e
  OBVIOUS

LEMMA OrderedMore ==
  ASSUME NEW f \in Seq(Happening), NEW e \in Happening, NEW g, g = f \o <<e>>, NEW types, Ordered(f, types),
         e.type \in types => /\ Rising(e.parts)
                             /\ e.parts = <<>> \/ \A i \in 1 .. Len(f) : f[i].type \notin types
  PROVE  Ordered(g, types)
<1>1. PICK n \in Nat : n = Len(f)
  OBVIOUS
<1>2. /\ DOMAIN g = 1 .. n + 1 /\ DOMAIN f = 1 .. n /\ g[n + 1] = e
      /\ \A i \in 1 .. n : g[i] = f[i]
  BY <1>1, OneMore
<1>3. ASSUME NEW i \in 1 .. n + 1, g[i].type \in types PROVE Rising(g[i].parts)
  <2>1. CASE i = n + 1
    BY <1>2, <1>3, <2>1
  <2>2. CASE i # n + 1
    <3>1. i \in 1 .. n
      BY <2>2
    <3>2. QED
      BY <1>2, <1>3, <3>1 DEF Ordered
  <2>3. QED
    BY <2>1, <2>2
<1>4. ASSUME NEW i \in 1 .. n + 1, NEW j \in 1 .. n + 1, i < j, g[i].type \in types, g[j].type \in types
      PROVE  Ahead(g[i].parts, g[j].parts)
  <2>1. i \in 1 .. n
    BY <1>4
  <2>2. CASE j = n + 1
    <3>1. e.type \in types /\ f[i].type \in types
      BY <1>2, <1>4, <2>1, <2>2
    <3>2. e.parts = <<>>
      BY <1>1, <2>1, <3>1
    <3>3. D!Range(e.parts) = {}
      BY <3>2 DEF D!Range
    <3>4. QED
      BY <1>2, <2>2, <3>3 DEF Ahead
  <2>3. CASE j # n + 1
    <3>1. j \in 1 .. n
      BY <2>3
    <3>2. QED
      BY <1>2, <1>4, <2>1, <3>1 DEF Ordered
  <2>4. QED
    BY <2>2, <2>3
<1>5. QED
  BY <1>2, <1>3, <1>4 DEF Ordered

LEMMA NoEvents == \A types : Ordered(<<>>, types) /\ <<>> \in Seq(Happening) /\ Len(<<>>) = 0
<1>1. PICK f : f = <<>>
  OBVIOUS
<1>2. DOMAIN f = {} /\ f \in Seq(Happening) /\ Len(f) = 0
  BY <1>1
<1>3. QED
  BY <1>1, <1>2 DEF Ordered

\* Gemini's chunks have all parts in order, each with the count.
AgyStream(events, tokens) ==
  /\ events \in Seq(Happening) /\ Len(events) \in Nat \ {0} /\ DOMAIN events = 1 .. Len(events)
  /\ Ordered(events, {"chunk", "last"})
  /\ \A i \in 1 .. Len(events) : events[i].type \in {"chunk", "last"} /\ events[i].tokens = tokens
  /\ events[Len(events)].type = "last"

LEMMA AgyStreams ==
  ASSUME NEW form, NEW parts \in Reply, NEW tokens \in Nat
  PROVE  AgyStream(D!AgyEvents(form, parts, tokens), tokens)
<1>0. parts \in Seq(Piece) /\ Rising(parts) /\ Len(parts) \in Nat /\ DOMAIN parts = 1 .. Len(parts)
  BY ReplyRises
<1>1. CASE form = "whole"
  <2>1. PICK e : e = [type |-> "last", parts |-> parts, tokens |-> tokens]
    OBVIOUS
  <2>2. e \in Happening /\ e.type = "last" /\ e.parts = parts /\ e.tokens = tokens
    BY <1>0, <2>1 DEF Happening, Types
  <2>3. PICK f, g : f = <<>> /\ g = <<>> \o <<e>>
    OBVIOUS
  <2>4. f \in Seq(Happening) /\ Len(f) = 0 /\ Ordered(f, {"chunk", "last"})
    BY <2>3, NoEvents
  <2>5. Ordered(g, {"chunk", "last"})
    <3>1. g = f \o <<e>> /\ \A i \in 1 .. Len(f) : f[i].type \notin {"chunk", "last"}
      BY <2>3, <2>4
    <3>2. QED
      BY <1>0, <2>2, <2>4, <3>1, OrderedMore
  <2>6. g = <<e>> /\ g \in Seq(Happening) /\ Len(g) = 1 /\ DOMAIN g = 1 .. 1 /\ g[1] = e
    BY <2>2, <2>3
  <2>7. D!AgyEvents(form, parts, tokens) = g
    BY <1>1, <2>1, <2>6 DEF D!AgyEvents, D!Event
  <2>8. QED
    BY <2>2, <2>5, <2>6, <2>7 DEF AgyStream
<1>2. CASE form # "whole"
  <2>1. PICK e : e = [type |-> "last", parts |-> <<>>, tokens |-> tokens]
    OBVIOUS
  <2>2. e \in Happening /\ e.type = "last" /\ e.parts = <<>> /\ e.tokens = tokens
    <3>1. <<>> \in Seq(Piece)
      OBVIOUS
    <3>2. QED
      BY <2>1, <3>1 DEF Happening, Types
  <2>3. PICK s : s = [i \in DOMAIN parts |-> <<[type |-> "chunk", parts |-> <<parts[i]>>, tokens |-> tokens]>>]
    OBVIOUS
  <2>4. \A i \in 1 .. Len(parts) : [type |-> "chunk", parts |-> <<parts[i]>>, tokens |-> tokens] \in Happening
    <3>1. \A i \in 1 .. Len(parts) : <<parts[i]>> \in Seq(Piece)
      BY <1>0
    <3>2. QED
      BY <3>1 DEF Happening, Types
  <2>5. \A i \in 1 .. Len(parts) :
           /\ s[i] \in Seq(Happening) /\ Len(s[i]) = 1 /\ s[i][1].parts = <<parts[i]>>
           /\ s[i][1].type = "chunk" /\ s[i][1].tokens = tokens
    <3>1. ASSUME NEW i \in 1 .. Len(parts)
          PROVE  /\ s[i] \in Seq(Happening) /\ Len(s[i]) = 1 /\ s[i][1].parts = <<parts[i]>>
                 /\ s[i][1].type = "chunk" /\ s[i][1].tokens = tokens
      <4>1. PICK h \in Happening : h = [type |-> "chunk", parts |-> <<parts[i]>>, tokens |-> tokens]
        BY <2>4
      <4>2. s[i] = <<h>>
        BY <1>0, <2>3, <4>1
      <4>3. s[i] \in Seq(Happening) /\ Len(s[i]) = 1 /\ s[i][1] = h
        BY <4>2
      <4>4. QED
        BY <4>1, <4>3
    <3>2. QED
      BY <3>1
  <2>6. s \in Seq(Seq(Happening)) /\ Len(s) = Len(parts)
    <3>1. s \in [1 .. Len(parts) -> Seq(Happening)]
      BY <1>0, <2>3, <2>5
    <3>2. QED
      BY <1>0, <3>1
  <2>7. Blocks(s, parts)
    BY <2>5, <2>6 DEF Blocks
  <2>8. PICK f : f = D!FlattenSeq(s)
    OBVIOUS
  <2>9. f \in Seq(Happening) /\ \A i \in 1 .. Len(f) : f[i].type = "chunk" /\ f[i].tokens = tokens
    <3>1. f \in Seq(Happening)
      BY <2>7, <2>8, BlocksStreamed
    <3>2. ASSUME NEW i \in 1 .. Len(f) PROVE f[i].type = "chunk" /\ f[i].tokens = tokens
      <4>0. PICK b \in 1 .. Len(parts) : OfBlock(f, i, s, parts, b)
        BY <2>7, <2>8, OfABlock
      <4>1. PICK x : x \in 1 .. Len(s[b]) /\ f[i] = s[b][x]
        BY <4>0 DEF OfBlock
      <4>2. x = 1
        BY <2>5, <4>1
      <4>3. QED
        BY <2>5, <4>1, <4>2
    <3>3. QED
      BY <3>1, <3>2
  <2>10. Ordered(f, {"chunk", "last"})
    BY <2>7, <2>8, <2>9, BlocksOrdered
  <2>11. PICK g : g = f \o <<e>>
    OBVIOUS
  <2>12. Rising(e.parts)
    <3>1. DOMAIN e.parts = {}
      BY <2>2
    <3>2. QED
      BY <3>1 DEF Rising
  <2>13. Ordered(g, {"chunk", "last"})
    BY <2>2, <2>9, <2>10, <2>11, <2>12, OrderedMore
  <2>14. PICK n \in Nat : n = Len(f)
    BY <2>9
  <2>15. /\ g \in Seq(Happening) /\ Len(g) = n + 1 /\ DOMAIN g = 1 .. n + 1 /\ g[n + 1] = e
         /\ \A i \in 1 .. n : g[i].type = "chunk" /\ g[i].tokens = tokens
    BY <2>2, <2>9, <2>11, <2>14, OneMore
  <2>16. \A i \in 1 .. n + 1 : i \in 1 .. n \/ i = n + 1
    OBVIOUS
  <2>17. AgyStream(g, tokens)
    BY <2>2, <2>13, <2>15, <2>16 DEF AgyStream
  <2>18. D!AgyEvents(form, parts, tokens) = g
    BY <1>2, <2>1, <2>3, <2>8, <2>11 DEF D!AgyEvents, D!Event, D!Each
  <2>19. QED
    BY <2>17, <2>18
<1>3. QED
  BY <1>1, <1>2

LEMMA Happened ==
  ASSUME NEW type \in Types, NEW parts \in Seq(Piece), NEW tokens \in Nat, NEW e, e = D!Event(type, parts, tokens)
  PROVE  e \in Happening /\ e.type = type /\ e.parts = parts /\ e.tokens = tokens
BY DEF D!Event, Happening

\* Kimi's parts are each of the reply, in order; the finish has all of them.
KimiStream(events, form, parts) ==
  /\ events \in Seq(Happening) /\ Len(events) \in Nat \ {0} /\ DOMAIN events = 1 .. Len(events)
  /\ Ordered(events, {"part"}) /\ Ordered(events, {"finish"})
  /\ \A i \in 1 .. Len(events) :
       /\ events[i].type \in {"part", "usage", "finish"}
       /\ D!Range(events[i].parts) \subseteq D!Range(parts)
       /\ events[i].type = "usage" => events[i].parts = <<>>
       /\ events[i].type = "finish" => events[i].parts = IF form = "bare" THEN <<>> ELSE parts
  /\ events[Len(events)].type = "finish"

LEMMA KimiStreams ==
  ASSUME NEW form, NEW parts \in Reply, NEW tokens \in Nat
  PROVE  KimiStream(D!KimiEvents(form, parts, tokens), form, parts)
<1>0. /\ parts \in Seq(Piece) /\ Rising(parts) /\ Len(parts) \in Nat /\ DOMAIN parts = 1 .. Len(parts)
      /\ \A i \in 1 .. Len(parts) : parts[i] \in Piece
  BY ReplyRises
<1>1. <<>> \in Seq(Piece) /\ Rising(<<>>) /\ D!Range(<<>>) = {} /\ \A i \in 1 .. Len(parts) : <<parts[i]>> \in Seq(Piece)
  <2>1. PICK o : o = <<>>
    OBVIOUS
  <2>2. DOMAIN o = {} /\ o \in Seq(Piece)
    BY <2>1
  <2>3. \A i \in 1 .. Len(parts) : <<parts[i]>> \in Seq(Piece)
    BY <1>0
  <2>4. QED
    BY <2>1, <2>2, <2>3 DEF Rising, D!Range
<1>2. PICK full \in {parts, <<>>} : full = IF form = "bare" THEN <<>> ELSE parts
  OBVIOUS
<1>3. full \in Seq(Piece) /\ Rising(full) /\ D!Range(full) \subseteq D!Range(parts)
  BY <1>0, <1>1, <1>2
<1>4. PICK u, e : u = D!Event("usage", <<>>, tokens) /\ e = D!Event("finish", full, 0)
  OBVIOUS
<1>5. /\ u \in Happening /\ u.type = "usage" /\ u.parts = <<>>
      /\ e \in Happening /\ e.type = "finish" /\ e.parts = full
  <2>1. "usage" \in Types /\ "finish" \in Types
    BY DEF Types
  <2>2. u \in Happening /\ u.type = "usage" /\ u.parts = <<>>
    <3>1. PICK o \in Seq(Piece) : o = <<>>
      BY <1>1
    <3>2. u = D!Event("usage", o, tokens)
      BY <1>4, <3>1
    <3>3. QED
      BY <2>1, <3>1, <3>2 DEF D!Event, Happening
  <2>3. e \in Happening /\ e.type = "finish" /\ e.parts = full
    BY <1>3, <1>4, <2>1, Happened
  <2>4. QED
    BY <2>2, <2>3
<1>6. PICK s : s = [i \in DOMAIN parts |-> IF form = "whole" THEN <<>> ELSE <<D!Event("part", <<parts[i]>>, 0)>>]
  OBVIOUS
<1>7. ASSUME NEW i \in 1 .. Len(parts)
      PROVE  /\ s[i] \in Seq(Happening)
             /\ \A x \in 1 .. Len(s[i]) : x = 1 /\ s[i][x].parts = <<parts[i]>> /\ s[i][x].type = "part"
  <2>1. CASE form = "whole"
    <3>1. s[i] = <<>>
      BY <1>0, <1>6, <2>1
    <3>2. s[i] \in Seq(Happening) /\ Len(s[i]) = 0
      BY <3>1
    <3>3. QED
      BY <3>2
  <2>2. CASE form # "whole"
    <3>1. PICK h : h = D!Event("part", <<parts[i]>>, 0)
      OBVIOUS
    <3>2. h \in Happening /\ h.type = "part" /\ h.parts = <<parts[i]>>
      <4>1. PICK o \in Seq(Piece), t \in Types, z \in Nat : o = <<parts[i]>> /\ t = "part" /\ z = 0
        BY <1>1 DEF Types
      <4>2. h = D!Event(t, o, z)
        BY <3>1, <4>1
      <4>3. QED
        BY <4>1, <4>2 DEF D!Event, Happening
    <3>3. s[i] = <<h>>
      BY <1>0, <1>6, <2>2, <3>1
    <3>4. s[i] \in Seq(Happening) /\ Len(s[i]) = 1 /\ s[i][1] = h
      BY <3>2, <3>3
    <3>5. QED
      BY <3>2, <3>4
  <2>3. QED
    BY <2>1, <2>2
<1>8. s \in Seq(Seq(Happening)) /\ Len(s) = Len(parts)
  <2>1. s \in [1 .. Len(parts) -> Seq(Happening)]
    BY <1>0, <1>6, <1>7
  <2>2. QED
    BY <1>0, <2>1
<1>9. Blocks(s, parts)
  BY <1>7, <1>8 DEF Blocks
<1>10. PICK f : f = D!FlattenSeq(s)
  OBVIOUS
<1>11. f \in Seq(Happening) /\ \A i \in 1 .. Len(f) : f[i].type = "part" /\ D!Range(f[i].parts) \subseteq D!Range(parts)
  <2>1. f \in Seq(Happening)
    BY <1>9, <1>10, BlocksStreamed
  <2>2. ASSUME NEW i \in 1 .. Len(f) PROVE f[i].type = "part" /\ D!Range(f[i].parts) \subseteq D!Range(parts)
    <3>0. PICK b \in 1 .. Len(parts) : OfBlock(f, i, s, parts, b)
      BY <1>9, <1>10, OfABlock
    <3>1. PICK x : x \in 1 .. Len(s[b]) /\ f[i] = s[b][x] /\ f[i].parts = <<parts[b]>>
      BY <3>0 DEF OfBlock
    <3>2. D!Range(<<parts[b]>>) \subseteq D!Range(parts)
      BY <1>0 DEF D!Range
    <3>3. QED
      BY <1>7, <3>1, <3>2
  <2>3. QED
    BY <2>1, <2>2
<1>12. Ordered(f, {"part"}) /\ Ordered(f, {"finish"})
  BY <1>9, <1>10, <1>11, BlocksOrdered
<1>13. PICK g, k : g = f \o <<u>> /\ k = g \o <<e>>
  OBVIOUS
<1>14. PICK n \in Nat : n = Len(f)
  BY <1>11
<1>15. /\ g \in Seq(Happening) /\ Len(g) = n + 1 /\ g[n + 1] = u
       /\ \A i \in 1 .. n : g[i] = f[i]
  BY <1>5, <1>11, <1>13, <1>14, OneMore
<1>16. Ordered(g, {"part"}) /\ Ordered(g, {"finish"})
  BY <1>5, <1>11, <1>12, <1>13, OrderedMore
<1>17. \A i \in 1 .. n + 1 : g[i].type \notin {"finish"}
  <2>1. \A i \in 1 .. n + 1 : i \in 1 .. n \/ i = n + 1
    OBVIOUS
  <2>2. QED
    BY <1>5, <1>11, <1>14, <1>15, <2>1
<1>18. Ordered(k, {"part"}) /\ Ordered(k, {"finish"})
  BY <1>3, <1>5, <1>13, <1>15, <1>16, <1>17, OrderedMore
<1>19. /\ k \in Seq(Happening) /\ Len(k) = (n + 1) + 1 /\ k[(n + 1) + 1] = e /\ DOMAIN k = 1 .. (n + 1) + 1
       /\ \A i \in 1 .. n + 1 : k[i] = g[i]
  BY <1>5, <1>13, <1>15, OneMore
<1>20. \A i \in 1 .. (n + 1) + 1 : i \in 1 .. n \/ i = n + 1 \/ i = (n + 1) + 1
  OBVIOUS
<1>21. \A i \in 1 .. n : i \in 1 .. n + 1 /\ i \in 1 .. Len(f) /\ k[i] = f[i]
  BY <1>14, <1>15, <1>19
<1>22. ASSUME NEW i \in 1 .. Len(k)
       PROVE  /\ k[i].type \in {"part", "usage", "finish"}
              /\ D!Range(k[i].parts) \subseteq D!Range(parts)
              /\ k[i].type = "usage" => k[i].parts = <<>>
              /\ k[i].type = "finish" => k[i].parts = full
  <2>1. CASE i \in 1 .. n
    <3>1. k[i].type = "part" /\ D!Range(k[i].parts) \subseteq D!Range(parts)
      BY <1>11, <1>21, <2>1
    <3>2. QED
      BY <3>1
  <2>2. CASE i = n + 1
    <3>1. k[i] = u
      BY <1>15, <1>19, <2>2
    <3>2. QED
      BY <1>1, <1>5, <3>1
  <2>3. CASE i = (n + 1) + 1
    BY <1>3, <1>5, <1>19, <2>3
  <2>4. QED
    BY <1>19, <1>20, <2>1, <2>2, <2>3
<1>23. KimiStream(k, form, parts)
  BY <1>2, <1>5, <1>18, <1>19, <1>22 DEF KimiStream
<1>24. D!KimiEvents(form, parts, tokens) = k
  <2>1. D!KimiEvents(form, parts, tokens) =
          D!FlattenSeq([i \in DOMAIN parts |-> IF form = "whole" THEN <<>> ELSE <<D!Event("part", <<parts[i]>>, 0)>>])
          \o <<D!Event("usage", <<>>, tokens)>>
          \o <<D!Event("finish", IF form = "bare" THEN <<>> ELSE parts, 0)>>
    BY DEF D!KimiEvents, D!Each
  <2>2. QED
    BY <1>2, <1>4, <1>6, <1>10, <1>13, <2>1
<1>25. QED
  BY <1>23, <1>24

LEMMA Two ==
  ASSUME NEW a \in Happening, NEW b \in Happening, NEW s, s = <<a>> \o <<b>>
  PROVE  s \in Seq(Happening) /\ Len(s) = 2 /\ s[1] = a /\ s[2] = b
<1>1. PICK f : f = <<a>>
  OBVIOUS
<1>2. f \in Seq(Happening) /\ Len(f) = 1 /\ f[1] = a
  BY <1>1
<1>3. s = f \o <<b>>
  BY <1>1
<1>4. s \in Seq(Happening) /\ Len(s) = 1 + 1 /\ s[1 + 1] = b /\ \A i \in 1 .. 1 : s[i] = f[i]
  BY <1>2, <1>3, OneMore
<1>5. QED
  BY <1>2, <1>4

LEMMA One ==
  ASSUME NEW a \in Happening, NEW s, s = <<a>> \o <<>> \/ s = <<>> \o <<a>>
  PROVE  s \in Seq(Happening) /\ Len(s) = 1 /\ s[1] = a
<1>1. PICK f, o : f = <<a>> /\ o = <<>>
  OBVIOUS
<1>2. f \in Seq(Happening) /\ Len(f) = 1 /\ f[1] = a /\ o \in Seq(Happening) /\ Len(o) = 0
  BY <1>1
<1>3. f \o o = f /\ o \o f = f
  BY <1>1, <1>2
<1>4. QED
  BY <1>1, <1>2, <1>3

LEMMA Nothing ==
  ASSUME NEW s, s = <<>> \o <<>>
  PROVE  s \in Seq(Happening) /\ Len(s) = 0
OBVIOUS

\* Codex brings a part as a delta of its kind, then a text's item.
Delta(p) == IF p.kind = "text" THEN "text.delta" ELSE "reasoning.delta"
CodexBlock(s, form, p) ==
  /\ s \in Seq(Happening)
  /\ \A x \in 1 .. Len(s) : s[x].parts = <<p>> /\ s[x].type \in {"text.delta", "reasoning.delta", "item"}
  /\ \A x, y \in 1 .. Len(s) : s[x].type = s[y].type => x = y
  /\ form \in {"streamed", "bare"} => 1 \in 1 .. Len(s) /\ s[1].type = Delta(p)
  /\ form \notin {"streamed", "bare"} => \A x \in 1 .. Len(s) : s[x].type = "item"
  /\ (form = "items" /\ p.kind = "text") => 1 \in 1 .. Len(s)
  /\ form \notin {"streamed", "bare", "items"} => Len(s) = 0

LEMMA CodexBlocks ==
  ASSUME NEW form, NEW p \in Piece
  PROVE  CodexBlock((IF form \in {"streamed", "bare"}
                     THEN <<D!Event(IF p.kind = "text" THEN "text.delta" ELSE "reasoning.delta", <<p>>, 0)>> ELSE <<>>)
                    \o (IF form \in {"streamed", "items"} /\ p.kind = "text"
                        THEN <<D!Event("item", <<p>>, 0)>> ELSE <<>>), form, p)
<1>0. PICK s : s = (IF form \in {"streamed", "bare"}
                    THEN <<D!Event(IF p.kind = "text" THEN "text.delta" ELSE "reasoning.delta", <<p>>, 0)>> ELSE <<>>)
                   \o (IF form \in {"streamed", "items"} /\ p.kind = "text"
                       THEN <<D!Event("item", <<p>>, 0)>> ELSE <<>>)
  OBVIOUS
<1>1. PICK d, t : d = D!Event(Delta(p), <<p>>, 0) /\ t = D!Event("item", <<p>>, 0)
  OBVIOUS
<1>2. /\ d \in Happening /\ d.type = Delta(p) /\ d.parts = <<p>>
      /\ t \in Happening /\ t.type = "item" /\ t.parts = <<p>>
  <2>1. <<p>> \in Seq(Piece) /\ "item" \in Types /\ Delta(p) \in Types
    BY DEF Types, Delta
  <2>2. QED
    BY <1>1, <2>1 DEF D!Event, Happening
<1>3. Delta(p) \in {"text.delta", "reasoning.delta"}
  BY DEF Delta
<1>4. s = (IF form \in {"streamed", "bare"} THEN <<d>> ELSE <<>>)
          \o (IF form \in {"streamed", "items"} /\ p.kind = "text" THEN <<t>> ELSE <<>>)
  BY <1>0, <1>1 DEF Delta
<1>5. ASSUME form = "streamed" /\ p.kind = "text" PROVE CodexBlock(s, form, p)
  <2>0. s = <<d>> \o <<t>>
    BY <1>4, <1>5
  <2>1. s \in Seq(Happening) /\ Len(s) = 2 /\ s[1] = d /\ s[2] = t
    <3>1. d \in Happening /\ t \in Happening
      BY <1>2
    <3>2. QED
      BY <2>0, <3>1, Two
  <2>2. \A x \in 1 .. Len(s) : x = 1 \/ x = 2
    BY <2>1
  <2>3. QED
    BY <1>2, <1>3, <1>5, <2>1, <2>2 DEF CodexBlock
<1>6. ASSUME (form = "streamed" /\ p.kind # "text") \/ form = "bare" PROVE CodexBlock(s, form, p)
  <2>0. s = <<d>> \o <<>>
    BY <1>4, <1>6
  <2>1. s \in Seq(Happening) /\ Len(s) = 1 /\ s[1] = d
    BY <1>2, <2>0, One
  <2>2. \A x \in 1 .. Len(s) : x = 1
    BY <2>1
  <2>3. QED
    BY <1>2, <1>3, <1>6, <2>1, <2>2 DEF CodexBlock
<1>7. ASSUME form = "items" /\ p.kind = "text" PROVE CodexBlock(s, form, p)
  <2>0. s = <<>> \o <<t>>
    BY <1>4, <1>7
  <2>1. s \in Seq(Happening) /\ Len(s) = 1 /\ s[1] = t
    BY <1>2, <2>0, One
  <2>2. \A x \in 1 .. Len(s) : x = 1
    BY <2>1
  <2>3. QED
    BY <1>2, <1>3, <1>7, <2>1, <2>2 DEF CodexBlock
<1>8. ASSUME (form = "items" /\ p.kind # "text") \/ form \notin {"streamed", "bare", "items"} PROVE CodexBlock(s, form, p)
  <2>0. s = <<>> \o <<>>
    BY <1>4, <1>8
  <2>1. s \in Seq(Happening) /\ Len(s) = 0
    BY <2>0, Nothing
  <2>2. \A x \in 1 .. Len(s) : FALSE
    BY <2>1
  <2>3. QED
    BY <1>8, <2>1, <2>2 DEF CodexBlock
<1>9. CodexBlock(s, form, p)
  BY <1>5, <1>6, <1>7, <1>8
<1>10. QED
  BY <1>0, <1>9

\* Each part of codex's reply has come as a delta when deltas are streamed, its
\* text in an item when those are, and all of it in the response.
CodexStream(events, form) ==
  /\ events \in Seq(Happening) /\ Len(events) \in Nat \ {0} /\ DOMAIN events = 1 .. Len(events)
  /\ \A type \in {"text.delta", "reasoning.delta", "item", "completed"} : Ordered(events, {type})
  /\ \A i \in 1 .. Len(events) :
       /\ events[i].type \in {"text.delta", "reasoning.delta", "item", "completed", "failed"}
       /\ events[i].type = "failed" => events[i].parts = <<>>
       /\ form \in {"streamed", "bare"} =>
            \A p \in D!Range(events[i].parts) :
               \E h \in 1 .. i : events[h].type = Delta(p) /\ p \in D!Range(events[h].parts)
       /\ form \notin {"streamed", "bare"} => events[i].type \notin {"text.delta", "reasoning.delta"}
       /\ form = "items" =>
            \A p \in D!Range(events[i].parts) : p.kind = "text" =>
               \E h \in 1 .. i : events[h].type = "item" /\ p \in D!Range(events[h].parts)
       /\ form \notin {"streamed", "bare", "items"} => events[i].type # "item"
  /\ events[Len(events)].type \in {"completed", "failed"}

LEMMA CodexStreams ==
  ASSUME NEW form, NEW parts \in Reply, NEW tokens \in Nat
  PROVE  CodexStream(D!CodexEvents(form, parts, tokens), form)
<1>0. /\ parts \in Seq(Piece) /\ Rising(parts) /\ Len(parts) \in Nat /\ DOMAIN parts = 1 .. Len(parts)
      /\ \A i \in 1 .. Len(parts) : parts[i] \in Piece
  BY ReplyRises
<1>1. PICK s : s = [i \in DOMAIN parts |->
                     (IF form \in {"streamed", "bare"}
                      THEN <<D!Event(IF parts[i].kind = "text" THEN "text.delta" ELSE "reasoning.delta", <<parts[i]>>, 0)>>
                      ELSE <<>>)
                     \o (IF form \in {"streamed", "items"} /\ parts[i].kind = "text"
                         THEN <<D!Event("item", <<parts[i]>>, 0)>> ELSE <<>>)]
  OBVIOUS
<1>2. ASSUME NEW i \in 1 .. Len(parts) PROVE CodexBlock(s[i], form, parts[i])
  BY <1>0, <1>1, CodexBlocks
<1>3. s \in Seq(Seq(Happening)) /\ Len(s) = Len(parts)
  <2>1. \A i \in 1 .. Len(parts) : s[i] \in Seq(Happening)
    BY <1>2 DEF CodexBlock
  <2>2. s \in [1 .. Len(parts) -> Seq(Happening)]
    BY <1>0, <1>1, <2>1
  <2>3. QED
    BY <1>0, <2>2
<1>4. Blocks(s, parts)
  BY <1>2, <1>3 DEF Blocks, CodexBlock
<1>5. PICK f : f = D!FlattenSeq(s)
  OBVIOUS
<1>6. f \in Seq(Happening)
  BY <1>4, <1>5, BlocksStreamed
<1>7. PICK n \in Nat : n = Len(f)
  BY <1>6
<1>8. PICK e : e = IF form = "bare" THEN D!Event("failed", <<>>, 0) ELSE D!Event("completed", parts, tokens)
  OBVIOUS
<1>9. /\ e \in Happening /\ Rising(e.parts) /\ e.type \in {"completed", "failed"}
      /\ e.type = "failed" => e.parts = <<>>
      /\ form = "bare" => e.parts = <<>>
      /\ form # "bare" => e.parts = parts
  <2>1. PICK o : o = <<>>
    OBVIOUS
  <2>2. o \in Seq(Piece) /\ Rising(o)
    <3>1. DOMAIN o = {} /\ o \in Seq(Piece)
      BY <2>1
    <3>2. QED
      BY <3>1 DEF Rising
  <2>3. "failed" \in Types /\ "completed" \in Types
    BY DEF Types
  <2>4. CASE form = "bare"
    <3>1. e = D!Event("failed", o, 0)
      BY <1>8, <2>1, <2>4
    <3>2. e \in Happening /\ e.type = "failed" /\ e.parts = o
      BY <2>2, <2>3, <3>1 DEF D!Event, Happening
    <3>3. QED
      BY <2>1, <2>2, <2>4, <3>2
  <2>5. CASE form # "bare"
    <3>1. e = D!Event("completed", parts, tokens)
      BY <1>8, <2>5
    <3>2. e \in Happening /\ e.type = "completed" /\ e.parts = parts
      BY <1>0, <2>3, <3>1 DEF D!Event, Happening
    <3>3. QED
      BY <1>0, <2>5, <3>2
  <2>6. QED
    BY <2>4, <2>5
<1>10. PICK g : g = f \o <<e>>
  OBVIOUS
<1>11. /\ g \in Seq(Happening) /\ Len(g) = n + 1 /\ DOMAIN g = 1 .. n + 1 /\ g[n + 1] = e
       /\ \A i \in 1 .. n : g[i] = f[i]
  BY <1>6, <1>7, <1>9, <1>10, OneMore
<1>12. \A i \in 1 .. n : \E b \in 1 .. Len(parts) : OfBlock(f, i, s, parts, b)
  BY <1>4, <1>5, <1>7, BlocksStreamed
<1>13. ASSUME NEW i \in 1 .. n, NEW b \in 1 .. Len(parts), OfBlock(f, i, s, parts, b)
       PROVE  /\ g[i].type \in {"text.delta", "reasoning.delta", "item"} /\ g[i].parts = <<parts[b]>>
              /\ form \in {"streamed", "bare"} =>
                   \E h \in 1 .. i : g[h].type = Delta(parts[b]) /\ g[h].parts = <<parts[b]>>
              /\ form \notin {"streamed", "bare"} => g[i].type = "item"
              /\ form \in {"streamed", "bare", "items"}
  <2>1. PICK x \in 1 .. Len(s[b]) : f[i] = s[b][x]
    BY <1>13 DEF OfBlock
  <2>2. PICK h \in 1 .. n : h <= i /\ f[h] = s[b][1]
    BY <1>7, <1>13 DEF OfBlock
  <2>3. g[i] = s[b][x] /\ g[h] = s[b][1] /\ h \in 1 .. i
    BY <1>11, <2>1, <2>2
  <2>4. CodexBlock(s[b], form, parts[b])
    BY <1>2
  <2>5. g[i].type \in {"text.delta", "reasoning.delta", "item"} /\ g[i].parts = <<parts[b]>>
    BY <2>1, <2>3, <2>4 DEF CodexBlock
  <2>6. ASSUME form \in {"streamed", "bare"}
        PROVE  g[h].type = Delta(parts[b]) /\ g[h].parts = <<parts[b]>>
    BY <2>3, <2>4, <2>6 DEF CodexBlock
  <2>7. form \notin {"streamed", "bare"} => g[i].type = "item"
    BY <2>1, <2>3, <2>4 DEF CodexBlock
  <2>8. form \in {"streamed", "bare", "items"}
    <3>1. s[b] \in Seq(Happening)
      BY <2>4 DEF CodexBlock
    <3>2. Len(s[b]) # 0
      BY <2>1, <3>1
    <3>3. QED
      BY <2>4, <3>2 DEF CodexBlock
  <2>9. QED
    BY <2>3, <2>5, <2>6, <2>7, <2>8
<1>14. ASSUME NEW b \in 1 .. Len(parts), 1 \in 1 .. Len(s[b])
       PROVE  \E h \in 1 .. n : g[h] = s[b][1]
  <2>1. PICK h \in 1 .. n : f[h] = s[b][1]
    BY <1>4, <1>5, <1>7, <1>14, BlocksStreamed
  <2>2. QED
    BY <1>11, <2>1
<1>15. ASSUME NEW type \in {"text.delta", "reasoning.delta", "item", "completed"} PROVE Ordered(g, {type})
  <2>1. Ordered(f, {type})
    BY <1>4, <1>5, BlocksOrdered
  <2>2. e.type \in {type} => \A i \in 1 .. Len(f) : f[i].type \notin {type}
    <3>1. \A i \in 1 .. n : g[i].type \in {"text.delta", "reasoning.delta", "item"}
      BY <1>12, <1>13
    <3>2. QED
      BY <1>7, <1>9, <1>11, <3>1
  <2>3. QED
    BY <1>6, <1>9, <1>10, <2>1, <2>2, OrderedMore
<1>16. \A i \in 1 .. n + 1 : i \in 1 .. n \/ i = n + 1
  OBVIOUS
<1>17. ASSUME NEW i \in 1 .. n
       PROVE  /\ g[i].type \in {"text.delta", "reasoning.delta", "item"}
              /\ form \in {"streamed", "bare"} =>
                   \A p \in D!Range(g[i].parts) :
                      \E h \in 1 .. i : g[h].type = Delta(p) /\ p \in D!Range(g[h].parts)
              /\ form \notin {"streamed", "bare"} => g[i].type = "item"
              /\ form \in {"streamed", "bare", "items"}
  <2>1. PICK b \in 1 .. Len(parts) : OfBlock(f, i, s, parts, b)
    BY <1>12
  <2>2. g[i].parts = <<parts[b]>>
    BY <1>13, <2>1
  <2>3. \A q \in D!Range(<<parts[b]>>) : q = parts[b]
    BY DEF D!Range
  <2>4. parts[b] \in D!Range(<<parts[b]>>)
    BY DEF D!Range
  <2>5. ASSUME form \in {"streamed", "bare"}, NEW p \in D!Range(g[i].parts)
        PROVE  \E h \in 1 .. i : g[h].type = Delta(p) /\ p \in D!Range(g[h].parts)
    <3>1. PICK h \in 1 .. i : g[h].type = Delta(parts[b]) /\ g[h].parts = <<parts[b]>>
      BY <1>13, <2>1, <2>5
    <3>2. p = parts[b]
      BY <2>2, <2>3, <2>5
    <3>3. QED
      BY <2>4, <3>1, <3>2
  <2>6. QED
    BY <1>13, <2>1, <2>5
<1>18. ASSUME NEW p \in D!Range(e.parts)
       PROVE  /\ form \in {"streamed", "bare"} =>
                   \E h \in 1 .. n + 1 : g[h].type = Delta(p) /\ p \in D!Range(g[h].parts)
              /\ (form = "items" /\ p.kind = "text") =>
                   \E h \in 1 .. n + 1 : g[h].type = "item" /\ p \in D!Range(g[h].parts)
  <2>1. form # "bare" /\ e.parts = parts
    <3>1. D!Range(<<>>) = {}
      BY DEF D!Range
    <3>2. QED
      BY <1>9, <1>18, <3>1
  <2>2. PICK b \in 1 .. Len(parts) : p = parts[b]
    BY <1>0, <1>18, <2>1 DEF D!Range
  <2>3. CodexBlock(s[b], form, parts[b])
    BY <1>2
  <2>4. p \in D!Range(<<p>>)
    BY DEF D!Range
  <2>5. ASSUME 1 \in 1 .. Len(s[b])
        PROVE  \E h \in 1 .. n + 1 : g[h] = s[b][1] /\ p \in D!Range(g[h].parts)
    <3>1. PICK h \in 1 .. n : g[h] = s[b][1]
      BY <1>14, <2>5
    <3>2. s[b][1].parts = <<p>>
      BY <2>2, <2>3, <2>5 DEF CodexBlock
    <3>3. h \in 1 .. n + 1
      OBVIOUS
    <3>4. QED
      BY <2>4, <3>1, <3>2, <3>3
  <2>6. ASSUME form \in {"streamed", "bare"}
        PROVE  \E h \in 1 .. n + 1 : g[h].type = Delta(p) /\ p \in D!Range(g[h].parts)
    <3>1. 1 \in 1 .. Len(s[b]) /\ s[b][1].type = Delta(p)
      BY <2>2, <2>3, <2>6 DEF CodexBlock
    <3>2. QED
      BY <2>5, <3>1
  <2>7. ASSUME form = "items", p.kind = "text"
        PROVE  \E h \in 1 .. n + 1 : g[h].type = "item" /\ p \in D!Range(g[h].parts)
    <3>1. 1 \in 1 .. Len(s[b])
      BY <2>2, <2>3, <2>7 DEF CodexBlock
    <3>2. s[b][1].type = "item"
      BY <2>3, <2>7, <3>1 DEF CodexBlock
    <3>3. QED
      BY <2>5, <3>1, <3>2
  <2>8. QED
    BY <2>6, <2>7
<1>19. ASSUME NEW i \in 1 .. n + 1
       PROVE  /\ g[i].type \in {"text.delta", "reasoning.delta", "item", "completed", "failed"}
              /\ g[i].type = "failed" => g[i].parts = <<>>
              /\ form \in {"streamed", "bare"} =>
                   \A p \in D!Range(g[i].parts) :
                      \E h \in 1 .. i : g[h].type = Delta(p) /\ p \in D!Range(g[h].parts)
              /\ form \notin {"streamed", "bare"} => g[i].type \notin {"text.delta", "reasoning.delta"}
              /\ form = "items" =>
                   \A p \in D!Range(g[i].parts) : p.kind = "text" =>
                      \E h \in 1 .. i : g[h].type = "item" /\ p \in D!Range(g[h].parts)
              /\ form \notin {"streamed", "bare", "items"} => g[i].type # "item"
  <2>1. CASE i \in 1 .. n
    <3>1. i \in 1 .. i
      BY <2>1
    <3>2. ASSUME form = "items", NEW p \in D!Range(g[i].parts)
          PROVE  \E h \in 1 .. i : g[h].type = "item" /\ p \in D!Range(g[h].parts)
      BY <1>17, <2>1, <3>1, <3>2
    <3>3. QED
      BY <1>17, <2>1, <3>2
  <2>2. CASE i = n + 1
    BY <1>9, <1>11, <1>18, <2>2
  <2>3. QED
    BY <1>16, <2>1, <2>2
<1>20. CodexStream(g, form)
  BY <1>9, <1>11, <1>15, <1>19 DEF CodexStream
<1>21. D!CodexEvents(form, parts, tokens) = g
  <2>1. D!CodexEvents(form, parts, tokens) =
          D!FlattenSeq([i \in DOMAIN parts |->
             (IF form \in {"streamed", "bare"}
              THEN <<D!Event(IF parts[i].kind = "text" THEN "text.delta" ELSE "reasoning.delta", <<parts[i]>>, 0)>>
              ELSE <<>>)
             \o (IF form \in {"streamed", "items"} /\ parts[i].kind = "text"
                 THEN <<D!Event("item", <<parts[i]>>, 0)>> ELSE <<>>)])
          \o <<IF form = "bare" THEN D!Event("failed", <<>>, 0) ELSE D!Event("completed", parts, tokens)>>
    BY DEF D!CodexEvents, D!Each
  <2>2. QED
    BY <1>1, <1>5, <1>8, <1>10, <2>1
<1>22. QED
  BY <1>20, <1>21

----------------------------------------------------------------------------
(* What the decoders make of it.                                           *)

Came(events, k) == {p \in UNION {D!Range(e.parts) : e \in D!Range(events)} : p.kind = k}

LEMMA PrefixOfEvents ==
  ASSUME NEW events \in Seq(Happening), NEW n \in 0 .. Len(events), NEW E, E = SubSeq(events, 1, n)
  PROVE  /\ E \in Seq(Happening) /\ Len(E) = n /\ DOMAIN E = 1 .. n
         /\ DOMAIN events = 1 .. Len(events) /\ Len(events) \in Nat
         /\ \A i \in 1 .. n : E[i] = events[i] /\ i \in 1 .. Len(events)
<1>1. E \in Seq(Happening) /\ Len(E) = n /\ \A i \in 1 .. n : E[i] = events[i]
  OBVIOUS
<1>2. DOMAIN E = 1 .. n /\ DOMAIN events = 1 .. Len(events) /\ Len(events) \in Nat
  BY <1>1
<1>3. \A i \in 1 .. n : i \in 1 .. Len(events)
  BY <1>2
<1>4. QED
  BY <1>1, <1>2, <1>3

LEMMA PrefixOrdered ==
  ASSUME NEW events \in Seq(Happening), NEW n \in 0 .. Len(events), NEW E, E = SubSeq(events, 1, n),
         NEW types, Ordered(events, types)
  PROVE  Ordered(E, types)
<1>1. /\ DOMAIN E = 1 .. n /\ DOMAIN events = 1 .. Len(events)
      /\ \A i \in 1 .. n : E[i] = events[i] /\ i \in 1 .. Len(events)
  BY PrefixOfEvents
<1>2. QED
  BY <1>1 DEF Ordered

LEMMA CameBy ==
  ASSUME NEW events \in Seq(Happening), NEW k, NEW p
  PROVE  p \in Came(events, k) <=>
           p \in Piece /\ p.kind = k /\ \E i \in DOMAIN events : p \in D!Range(events[i].parts)
<1>1. \A i \in DOMAIN events : events[i] \in D!Range(events) /\ D!Range(events[i].parts) \subseteq Piece
  <2>1. ASSUME NEW i \in DOMAIN events PROVE events[i] \in D!Range(events) /\ D!Range(events[i].parts) \subseteq Piece
    <3>1. events[i] \in Happening
      OBVIOUS
    <3>2. events[i].parts \in Seq(Piece)
      BY <3>1 DEF Happening
    <3>3. QED
      BY <3>2 DEF D!Range
  <2>2. QED
    BY <2>1
<1>2. \A e \in D!Range(events) : \E i \in DOMAIN events : e = events[i]
  BY DEF D!Range
<1>3. QED
  BY <1>1, <1>2 DEF Came

\* Whatever has come of a kind has come in events of these types.
Shown(events, types, k) ==
  \A i \in DOMAIN events : \A p \in D!Range(events[i].parts) :
     p.kind = k => \E h \in DOMAIN events : events[h].type \in types /\ p \in D!Range(events[h].parts)

LEMMA JoinedAll ==
  ASSUME NEW events \in Seq(Happening), NEW types, Ordered(events, types), NEW k, Shown(events, types, k)
  PROVE  D!Tells(D!Joined(events, types, k), Came(events, k))
<1>1. D!Tells(D!Joined(events, types, k), Brought(events, types, k))
  BY JoinedTells
<1>2. ASSUME NEW p PROVE p \in Brought(events, types, k) <=> p \in Came(events, k)
  BY CameBy DEF Brought, Shown
<1>3. Brought(events, types, k) = Came(events, k)
  BY <1>2
<1>4. QED
  BY <1>1, <1>3

LEMMA AgyTells ==
  ASSUME NEW events, NEW tokens, AgyStream(events, tokens), NEW n \in 0 .. Len(events),
         NEW E, E = SubSeq(events, 1, n), NEW k
  PROVE  D!Tells(D!AgyText(E, k), Came(E, k))
<1>1. /\ events \in Seq(Happening) /\ Ordered(events, {"chunk", "last"})
      /\ \A i \in 1 .. Len(events) : events[i].type \in {"chunk", "last"}
  BY DEF AgyStream
<1>2. E \in Seq(Happening) /\ DOMAIN E = 1 .. n /\ \A i \in 1 .. n : E[i] = events[i] /\ i \in 1 .. Len(events)
  BY <1>1, PrefixOfEvents
<1>3. Ordered(E, {"chunk", "last"})
  BY <1>1, PrefixOrdered
<1>4. Shown(E, {"chunk", "last"}, k)
  BY <1>1, <1>2 DEF Shown
<1>5. QED
  BY <1>2, <1>3, <1>4, JoinedAll DEF D!AgyText

LEMMA KimiTells ==
  ASSUME NEW events, NEW form, NEW parts, KimiStream(events, form, parts), NEW n \in 0 .. Len(events),
         NEW E, E = SubSeq(events, 1, n), NEW k
  PROVE  D!Tells(D!KimiText(E, k), Came(E, k))
<1>1. /\ events \in Seq(Happening) /\ Ordered(events, {"part"}) /\ Ordered(events, {"finish"})
      /\ \A i \in 1 .. Len(events) :
           /\ events[i].type \in {"part", "usage", "finish"}
           /\ D!Range(events[i].parts) \subseteq D!Range(parts)
           /\ events[i].type = "usage" => events[i].parts = <<>>
           /\ events[i].type = "finish" => events[i].parts = IF form = "bare" THEN <<>> ELSE parts
  BY DEF KimiStream
<1>2. E \in Seq(Happening) /\ DOMAIN E = 1 .. n /\ \A i \in 1 .. n : E[i] = events[i] /\ i \in 1 .. Len(events)
  BY <1>1, PrefixOfEvents
<1>3. Ordered(E, {"part"}) /\ Ordered(E, {"finish"})
  BY <1>1, PrefixOrdered
<1>4. D!Range(<<>>) = {}
  BY DEF D!Range
<1>5. PICK message : message = D!Joined(E, {"finish"}, k)
  OBVIOUS
<1>6. D!Range(message) = Brought(E, {"finish"}, k)
  BY <1>2, <1>3, <1>5, JoinedTells DEF D!Tells
<1>7. CASE message # <<>>
  <2>1. PICK i \in 1 .. n : E[i].type = "finish" /\ D!Range(E[i].parts) # {}
    <3>1. message \in Seq(Piece)
      BY <1>2, <1>3, <1>5, JoinedTells
    <3>2. 1 \in DOMAIN message
      BY <1>7, <3>1
    <3>3. D!Range(message) # {}
      BY <3>2 DEF D!Range
    <3>4. QED
      BY <1>2, <1>6, <3>3 DEF Brought
  <2>2. E[i].parts = parts
    BY <1>1, <1>2, <1>4, <2>1
  <2>3. Shown(E, {"finish"}, k)
    BY <1>1, <1>2, <2>1, <2>2 DEF Shown
  <2>4. D!KimiText(E, k) = D!Joined(E, {"finish"}, k)
    BY <1>5, <1>7 DEF D!KimiText
  <2>5. QED
    BY <1>2, <1>3, <2>3, <2>4, JoinedAll
<1>8. CASE message = <<>>
  <2>1. Brought(E, {"finish"}, k) = {}
    BY <1>4, <1>6, <1>8
  <2>2. ASSUME NEW i \in 1 .. n, NEW p \in D!Range(E[i].parts), p.kind = k
        PROVE  E[i].type \in {"part"}
    <3>1. E[i].type \in {"part", "usage", "finish"} /\ E[i].type # "usage"
      BY <1>1, <1>2, <1>4, <2>2
    <3>2. p \in Piece
      <4>1. E[i].parts \in Seq(Piece)
        BY <1>2 DEF Happening
      <4>2. QED
        BY <2>2, <4>1 DEF D!Range
    <3>3. E[i].type # "finish"
      BY <1>2, <2>1, <2>2, <3>2 DEF Brought
    <3>4. QED
      BY <3>1, <3>3
  <2>3. Shown(E, {"part"}, k)
    BY <1>2, <2>2 DEF Shown
  <2>4. D!KimiText(E, k) = D!Joined(E, {"part"}, k)
    BY <1>5, <1>8 DEF D!KimiText
  <2>5. QED
    BY <1>2, <1>3, <2>3, <2>4, JoinedAll
<1>9. QED
  BY <1>7, <1>8

LEMMA CodexTells ==
  ASSUME NEW events, NEW form, CodexStream(events, form), NEW n \in 0 .. Len(events), NEW E, E = SubSeq(events, 1, n)
  PROVE  /\ D!Tells(D!CodexText(E), Came(E, "text"))
         /\ D!Tells(D!CodexReasoning(E),
                    IF form \notin {"streamed", "bare"} THEN {} ELSE Came(E, "think"))
<1>1. /\ events \in Seq(Happening)
      /\ \A type \in {"text.delta", "reasoning.delta", "item", "completed"} : Ordered(events, {type})
  BY DEF CodexStream
<1>2. /\ E \in Seq(Happening) /\ DOMAIN E = 1 .. n
      /\ \A i \in 1 .. n : E[i] = events[i] /\ i \in 1 .. Len(events)
  BY <1>1, PrefixOfEvents
<1>3. \A type \in {"text.delta", "reasoning.delta", "item", "completed"} : Ordered(E, {type})
  BY <1>1, PrefixOrdered
<1>4. \A i \in 1 .. n : \A h \in 1 .. i : h \in 1 .. n /\ E[h] = events[h]
  BY <1>2
<1>5. ASSUME NEW i \in 1 .. n
      PROVE  /\ E[i].type \in {"text.delta", "reasoning.delta", "item", "completed", "failed"}
             /\ E[i].type = "failed" => E[i].parts = <<>>
             /\ form \in {"streamed", "bare"} =>
                  \A p \in D!Range(E[i].parts) : \E h \in 1 .. n : E[h].type = Delta(p) /\ p \in D!Range(E[h].parts)
             /\ form \notin {"streamed", "bare"} => E[i].type \notin {"text.delta", "reasoning.delta"}
             /\ form = "items" =>
                  \A p \in D!Range(E[i].parts) : p.kind = "text" =>
                     \E h \in 1 .. n : E[h].type = "item" /\ p \in D!Range(E[h].parts)
             /\ form \notin {"streamed", "bare", "items"} => E[i].type # "item"
  <2>1. E[i] = events[i] /\ i \in 1 .. Len(events)
    BY <1>2
  <2>2. /\ events[i].type \in {"text.delta", "reasoning.delta", "item", "completed", "failed"}
        /\ events[i].type = "failed" => events[i].parts = <<>>
        /\ form \notin {"streamed", "bare"} => events[i].type \notin {"text.delta", "reasoning.delta"}
        /\ form \notin {"streamed", "bare", "items"} => events[i].type # "item"
    BY <2>1 DEF CodexStream
  <2>3. ASSUME form \in {"streamed", "bare"}, NEW p \in D!Range(E[i].parts)
        PROVE  \E h \in 1 .. n : E[h].type = Delta(p) /\ p \in D!Range(E[h].parts)
    <3>1. PICK h \in 1 .. i : events[h].type = Delta(p) /\ p \in D!Range(events[h].parts)
      BY <2>1, <2>3 DEF CodexStream
    <3>2. QED
      BY <1>4, <3>1
  <2>4. ASSUME form = "items", NEW p \in D!Range(E[i].parts), p.kind = "text"
        PROVE  \E h \in 1 .. n : E[h].type = "item" /\ p \in D!Range(E[h].parts)
    <3>1. PICK h \in 1 .. i : events[h].type = "item" /\ p \in D!Range(events[h].parts)
      BY <2>1, <2>4 DEF CodexStream
    <3>2. QED
      BY <1>4, <3>1
  <2>5. QED
    BY <2>1, <2>2, <2>3, <2>4
<1>6. \A type : D!Has(E, type) <=> \E i \in 1 .. n : E[i].type = type
  BY <1>2 DEF D!Has, D!Range
<1>7. D!Tells(D!CodexText(E), Came(E, "text"))
  <2>1. CASE D!Has(E, "text.delta")
    <3>1. form \in {"streamed", "bare"}
      BY <1>5, <1>6, <2>1
    <3>2. Shown(E, {"text.delta"}, "text")
      <4>1. ASSUME NEW i \in 1 .. n, NEW p \in D!Range(E[i].parts), p.kind = "text"
            PROVE  \E h \in 1 .. n : E[h].type \in {"text.delta"} /\ p \in D!Range(E[h].parts)
        <5>1. Delta(p) = "text.delta"
          BY <4>1 DEF Delta
        <5>2. PICK h \in 1 .. n : E[h].type = Delta(p) /\ p \in D!Range(E[h].parts)
          BY <1>5, <3>1
        <5>3. QED
          BY <5>1, <5>2
      <4>2. QED
        BY <1>2, <4>1 DEF Shown
    <3>3. D!CodexText(E) = D!Joined(E, {"text.delta"}, "text")
      BY <2>1 DEF D!CodexText
    <3>4. QED
      BY <1>2, <1>3, <3>2, <3>3, JoinedAll
  <2>2. CASE ~D!Has(E, "text.delta") /\ D!Has(E, "item")
    <3>1. form \in {"streamed", "bare", "items"}
      BY <1>5, <1>6, <2>2
    <3>2. Shown(E, {"item"}, "text")
      <4>1. ASSUME NEW i \in 1 .. n, NEW p \in D!Range(E[i].parts), p.kind = "text"
            PROVE  \E h \in 1 .. n : E[h].type \in {"item"} /\ p \in D!Range(E[h].parts)
        <5>1. Delta(p) = "text.delta"
          BY <4>1 DEF Delta
        <5>2. form \notin {"streamed", "bare"}
          <6>1. \A h \in 1 .. n : E[h].type # "text.delta"
            BY <1>6, <2>2
          <6>2. QED
            BY <1>5, <4>1, <5>1, <6>1
        <5>3. form = "items"
          BY <3>1, <5>2
        <5>4. PICK h \in 1 .. n : E[h].type = "item" /\ p \in D!Range(E[h].parts)
          BY <1>5, <4>1, <5>3
        <5>5. QED
          BY <5>4
      <4>2. QED
        BY <1>2, <4>1 DEF Shown
    <3>3. D!CodexText(E) = D!Joined(E, {"item"}, "text")
      BY <2>2 DEF D!CodexText
    <3>4. QED
      BY <1>2, <1>3, <3>2, <3>3, JoinedAll
  <2>3. CASE ~D!Has(E, "text.delta") /\ ~D!Has(E, "item")
    <3>1. Shown(E, {"completed"}, "text")
      <4>1. ASSUME NEW i \in 1 .. n, NEW p \in D!Range(E[i].parts), p.kind = "text"
            PROVE  E[i].type \in {"completed"}
        <5>1. D!Range(<<>>) = {}
          BY DEF D!Range
        <5>2. E[i].type # "failed"
          BY <1>5, <4>1, <5>1
        <5>3. form \notin {"streamed", "bare"}
          BY <1>5, <1>6, <2>3, <4>1 DEF Delta
        <5>4. QED
          BY <1>5, <1>6, <2>3, <5>2, <5>3
      <4>2. QED
        BY <1>2, <4>1 DEF Shown
    <3>2. D!CodexText(E) = D!Joined(E, {"completed"}, "text")
      BY <2>3 DEF D!CodexText
    <3>3. QED
      BY <1>2, <1>3, <3>1, <3>2, JoinedAll
  <2>4. QED
    BY <2>1, <2>2, <2>3
<1>8. D!Tells(D!CodexReasoning(E), IF form \notin {"streamed", "bare"} THEN {} ELSE Came(E, "think"))
  <2>1. CASE form \in {"streamed", "bare"}
    <3>1. Shown(E, {"reasoning.delta"}, "think")
      <4>1. ASSUME NEW i \in 1 .. n, NEW p \in D!Range(E[i].parts), p.kind = "think"
            PROVE  \E h \in 1 .. n : E[h].type \in {"reasoning.delta"} /\ p \in D!Range(E[h].parts)
        <5>1. Delta(p) = "reasoning.delta"
          BY <4>1 DEF Delta
        <5>2. PICK h \in 1 .. n : E[h].type = Delta(p) /\ p \in D!Range(E[h].parts)
          BY <1>5, <2>1
        <5>3. QED
          BY <5>1, <5>2
      <4>2. QED
        BY <1>2, <4>1 DEF Shown
    <3>2. QED
      BY <1>2, <1>3, <2>1, <3>1, JoinedAll DEF D!CodexReasoning
  <2>2. CASE form \notin {"streamed", "bare"}
    <3>1. Brought(E, {"reasoning.delta"}, "think") = {}
      BY <1>2, <1>5, <2>2 DEF Brought
    <3>2. D!Tells(D!Joined(E, {"reasoning.delta"}, "think"), Brought(E, {"reasoning.delta"}, "think"))
      BY <1>2, <1>3, JoinedTells
    <3>3. QED
      BY <2>2, <3>1, <3>2 DEF D!CodexReasoning
  <2>3. QED
    BY <2>1, <2>2
<1>9. QED
  BY <1>7, <1>8

----------------------------------------------------------------------------
(* The turns and the answer.                                               *)

LEMMA Least ==
  ASSUME NEW S, S \subseteq Nat, S # {}
  PROVE  \E i \in S : \A j \in S : i <= j
<1> DEFINE R == OpToRel(<, Nat)
<1>1. IsWellFoundedOn(R, Nat)
  BY NatLessThanWellFounded
<1>2. \A x, y \in Nat : x < y => <<x, y>> \in R
  BY DEF OpToRel
<1> HIDE DEF R
<1>3. PICK i \in S : \A j \in S : <<j, i>> \notin R
  BY <1>1, WFMin
<1>4. \A j \in S : i \in Nat /\ j \in Nat /\ ~(j < i)
  BY <1>2, <1>3
<1>5. \A j \in S : i <= j
  BY <1>4
<1>6. QED
  BY <1>3, <1>5

LEMMA Greatest ==
  ASSUME NEW n \in Nat, NEW S, S \subseteq 1 .. n, S # {}
  PROVE  D!Max(S) \in S
<1> DEFINE T == {n - i : i \in S}
<1>1. T \subseteq Nat /\ T # {}
  <2>1. \A i \in 1 .. n : n - i \in Nat
    OBVIOUS
  <2>2. QED
    BY <2>1
<1>2. PICK k \in T : \A j \in T : k <= j
  BY <1>1, Least
<1>3. PICK i \in S : k = n - i
  OBVIOUS
<1>4. \A j \in S : i >= j
  <2>1. ASSUME NEW j \in S PROVE i >= j
    <3>1. n - j \in T /\ i \in 1 .. n /\ j \in 1 .. n
      OBVIOUS
    <3>2. n - i <= n - j
      BY <1>2, <1>3, <3>1
    <3>3. QED
      BY <3>1, <3>2
  <2>2. QED
    BY <2>1
<1>5. QED
  BY <1>3, <1>4 DEF D!Max

\* Every Gemini event has the count.
LEMMA AgyCounts ==
  ASSUME NEW events, NEW tokens, AgyStream(events, tokens), NEW n \in 0 .. Len(events), n # 0,
         NEW E, E = SubSeq(events, 1, n)
  PROVE  D!AgyTokens(E) = tokens
<1>1. /\ events \in Seq(Happening) /\ Len(events) \in Nat
      /\ \A i \in 1 .. Len(events) : events[i].type \in {"chunk", "last"} /\ events[i].tokens = tokens
  BY DEF AgyStream
<1>2. Len(E) = n /\ n \in Nat /\ \A i \in 1 .. n : E[i] = events[i] /\ i \in 1 .. Len(events)
  BY <1>1, PrefixOfEvents
<1>3. PICK I : I = {i \in 1 .. Len(E) : E[i].type \in {"chunk", "last"}}
  OBVIOUS
<1>4. I = 1 .. n
  BY <1>1, <1>2, <1>3
<1>5. I # {}
  <2>1. 1 \in 1 .. n
    BY <1>2
  <2>2. QED
    BY <1>4, <2>1
<1>6. PICK m \in 1 .. n : m = D!Max(I)
  BY <1>2, <1>4, <1>5, Greatest
<1>7. D!SelectLastInSeq(E, LAMBDA e : e.type \in {"chunk", "last"}) = m
  BY <1>3, <1>5, <1>6 DEF D!SelectLastInSeq
<1>8. m # 0 /\ E[m].tokens = tokens
  BY <1>1, <1>2
<1>9. QED
  BY <1>7, <1>8 DEF D!AgyTokens, D!LastTokens

\* What is shown of a request is a prompt of the user.
LEMMA ShownPrompt ==
  ASSUME NEW h \in Histories
  PROVE  /\ h[D!AgyShown(h)] = "prompt" /\ h[D!KimiShown(h)] = "prompt"
         /\ "reminder" \notin D!Range(h) => h[D!CodexShown(h)] = "prompt"
<1>1. Len(h) \in Nat /\ 1 \in 1 .. Len(h) /\ DOMAIN h = 1 .. Len(h) /\ h[1] = "prompt"
  BY ContentAssumption
<1>2. ASSUME NEW kinds, "prompt" \in kinds
      PROVE  D!LastOf(h, kinds) \in 1 .. Len(h) /\ h[D!LastOf(h, kinds)] \in kinds
  <2>1. PICK I : I = {i \in 1 .. Len(h) : h[i] \in kinds}
    OBVIOUS
  <2>2. 1 \in I /\ I \subseteq 1 .. Len(h)
    BY <1>1, <1>2, <2>1
  <2>3. D!Max(I) \in I
    BY <1>1, <2>2, Greatest
  <2>4. D!LastOf(h, kinds) = D!Max(I)
    BY <2>1, <2>2 DEF D!LastOf, D!SelectLastInSeq
  <2>5. QED
    BY <2>1, <2>3, <2>4
<1>3. h[D!KimiShown(h)] = "prompt"
  BY <1>2 DEF D!KimiShown
<1>4. ASSUME "reminder" \notin D!Range(h) PROVE h[D!CodexShown(h)] = "prompt"
  <2>1. PICK i : i = D!LastOf(h, {"prompt", "reminder"})
    OBVIOUS
  <2>2. i \in 1 .. Len(h) /\ h[i] \in {"prompt", "reminder"}
    BY <1>2, <2>1
  <2>3. h[i] \in D!Range(h)
    BY <1>1, <2>2 DEF D!Range
  <2>4. QED
    BY <1>4, <2>1, <2>2, <2>3 DEF D!CodexShown
<1>5. QED
  BY <1>1, <1>3, <1>4 DEF D!AgyShown

LEMMA Exchanged ==
  ASSUME exchange \in D!Exchanges, NEW c \in D!Calls
  PROVE  /\ exchange.cli \in {"agy", "kimi", "codex"} /\ exchange.reply[c] \in Reply
         /\ exchange.history \in Histories
         /\ exchange.cli # "kimi" => "reminder" \notin D!Range(exchange.history)
         /\ D!Tokens(c) \in Nat
<1>1. /\ exchange.cli \in Clis /\ exchange.history \in Histories
      /\ exchange.reply \in [D!Calls -> {D!Parts(kinds) : kinds \in Replies}]
      /\ exchange.cli # "kimi" => "reminder" \notin D!Range(exchange.history)
  BY DEF D!Exchanges
<1>2. PICK kinds \in Replies : exchange.reply[c] = D!Parts(kinds)
  BY <1>1
<1>3. kinds \in Seq({"think", "text"}) /\ Clis \subseteq {"agy", "codex", "kimi"}
  BY <1>2, ContentAssumption
<1>4. exchange.reply[c] \in Reply
  BY <1>2, <1>3, PartsOfReply
<1>5. D!Tokens(c) \in Nat
  BY DEF D!Tokens
<1>6. QED
  BY <1>1, <1>3, <1>4, <1>5

\* The stream of a call, by CLI.
StreamOf(c) ==
  /\ exchange.cli = "agy" => AgyStream(D!Events(c), D!Tokens(c))
  /\ exchange.cli = "kimi" => KimiStream(D!Events(c), exchange.form, exchange.reply[c])
  /\ exchange.cli = "codex" => CodexStream(D!Events(c), exchange.form)

LEMMA Streamed ==
  ASSUME exchange \in D!Exchanges, NEW c \in D!Calls
  PROVE  /\ StreamOf(c)
         /\ D!Events(c) \in Seq(Happening) /\ Len(D!Events(c)) \in Nat \ {0}
         /\ DOMAIN D!Events(c) = 1 .. Len(D!Events(c))
         /\ D!Events(c)[Len(D!Events(c))].type \in {"last", "finish", "completed", "failed"}
<1>1. exchange.cli \in {"agy", "kimi", "codex"} /\ exchange.reply[c] \in Reply /\ D!Tokens(c) \in Nat
  BY Exchanged
<1>2. exchange.cli = "agy" => AgyStream(D!Events(c), D!Tokens(c))
  <2>1. AgyStream(D!AgyEvents(exchange.form, exchange.reply[c], D!Tokens(c)), D!Tokens(c))
    BY <1>1, AgyStreams
  <2>2. QED
    BY <2>1 DEF D!Events
<1>3. exchange.cli = "kimi" => KimiStream(D!Events(c), exchange.form, exchange.reply[c])
  <2>1. KimiStream(D!KimiEvents(exchange.form, exchange.reply[c], D!Tokens(c)), exchange.form, exchange.reply[c])
    BY <1>1, KimiStreams
  <2>2. QED
    BY <2>1 DEF D!Events
<1>4. exchange.cli = "codex" => CodexStream(D!Events(c), exchange.form)
  <2>1. CodexStream(D!CodexEvents(exchange.form, exchange.reply[c], D!Tokens(c)), exchange.form)
    BY <1>1, CodexStreams
  <2>2. QED
    BY <2>1 DEF D!Events
<1>5. /\ D!Events(c) \in Seq(Happening) /\ Len(D!Events(c)) \in Nat \ {0}
      /\ DOMAIN D!Events(c) = 1 .. Len(D!Events(c))
      /\ D!Events(c)[Len(D!Events(c))].type \in {"last", "finish", "completed", "failed"}
  <2>1. PICK f : f = D!Events(c)
    OBVIOUS
  <2>2. \/ AgyStream(f, D!Tokens(c)) \/ KimiStream(f, exchange.form, exchange.reply[c])
        \/ CodexStream(f, exchange.form)
    BY <1>1, <1>2, <1>3, <1>4, <2>1
  <2>3. /\ f \in Seq(Happening) /\ Len(f) \in Nat \ {0} /\ DOMAIN f = 1 .. Len(f)
        /\ f[Len(f)].type \in {"last", "finish", "completed", "failed"}
    BY <2>2 DEF AgyStream, KimiStream, CodexStream
  <2>4. QED
    BY <2>1, <2>3
<1>6. QED
  BY <1>2, <1>3, <1>4, <1>5 DEF StreamOf

\* What a turn holds, made of the first n events of its call.
TurnRight(t, c, E) ==
  /\ t.of = c
  /\ D!Tells(t.text, Came(E, "text"))
  /\ D!Tells(t.reasoning, IF exchange.cli = "codex" /\ exchange.form \notin {"streamed", "bare"}
                          THEN {} ELSE Came(E, "think"))
  /\ exchange.history[t.prompt] = "prompt"
  /\ exchange.cli = "agy" => t.tokens = D!Tokens(c)

LEMMA TurnsRight ==
  ASSUME exchange \in D!Exchanges, NEW c \in D!Calls, NEW n \in 1 .. Len(D!Events(c)),
         NEW E, E = D!Told(c, n)
  PROVE  TurnRight(D!Turn(c, E), c, E)
<1>1. /\ exchange.cli \in {"agy", "kimi", "codex"} /\ exchange.history \in Histories
      /\ exchange.cli # "kimi" => "reminder" \notin D!Range(exchange.history)
  BY Exchanged
<1>2. PICK f : f = D!Events(c)
  OBVIOUS
<1>3. Len(f) \in Nat \ {0} /\ StreamOf(c)
  BY <1>2, Streamed
<1>4. n \in 0 .. Len(f) /\ n # 0 /\ E = SubSeq(f, 1, n)
  BY <1>2, <1>3 DEF D!Told
<1>5. PICK h \in Histories : h = exchange.history
  BY <1>1
<1>6. /\ h[D!AgyShown(h)] = "prompt" /\ h[D!KimiShown(h)] = "prompt"
      /\ "reminder" \notin D!Range(h) => h[D!CodexShown(h)] = "prompt"
  BY ShownPrompt
<1>7. ASSUME exchange.cli = "agy" PROVE TurnRight(D!Turn(c, E), c, E)
  <2>1. AgyStream(f, D!Tokens(c))
    BY <1>2, <1>3, <1>7 DEF StreamOf
  <2>2. D!Tells(D!AgyText(E, "text"), Came(E, "text")) /\ D!Tells(D!AgyText(E, "think"), Came(E, "think"))
    BY <1>4, <2>1, AgyTells
  <2>3. D!AgyTokens(E) = D!Tokens(c)
    BY <1>4, <2>1, AgyCounts
  <2>4. D!Turn(c, E) = D!AgyTurn(c, E)
    BY <1>7 DEF D!Turn
  <2>5. QED
    BY <1>5, <1>6, <1>7, <2>2, <2>3, <2>4 DEF D!AgyTurn, TurnRight
<1>8. ASSUME exchange.cli = "kimi" PROVE TurnRight(D!Turn(c, E), c, E)
  <2>1. KimiStream(f, exchange.form, exchange.reply[c])
    BY <1>2, <1>3, <1>8 DEF StreamOf
  <2>2. D!Tells(D!KimiText(E, "text"), Came(E, "text")) /\ D!Tells(D!KimiText(E, "think"), Came(E, "think"))
    BY <1>4, <2>1, KimiTells
  <2>3. D!Turn(c, E) = D!KimiTurn(c, E)
    BY <1>8 DEF D!Turn
  <2>4. QED
    BY <1>5, <1>6, <1>8, <2>2, <2>3 DEF D!KimiTurn, TurnRight
<1>9. ASSUME exchange.cli = "codex" PROVE TurnRight(D!Turn(c, E), c, E)
  <2>1. CodexStream(f, exchange.form)
    BY <1>2, <1>3, <1>9 DEF StreamOf
  <2>2. /\ D!Tells(D!CodexText(E), Came(E, "text"))
        /\ D!Tells(D!CodexReasoning(E),
                   IF exchange.form \notin {"streamed", "bare"} THEN {} ELSE Came(E, "think"))
    BY <1>4, <2>1, CodexTells
  <2>3. D!Turn(c, E) = D!CodexTurn(c, E)
    BY <1>9 DEF D!Turn
  <2>4. QED
    BY <1>1, <1>5, <1>6, <1>9, <2>2, <2>3 DEF D!CodexTurn, TurnRight
<1>10. QED
  BY <1>1, <1>7, <1>8, <1>9

LEMMA SameEvents == ASSUME exchange' = exchange, NEW c PROVE D!Events(c)' = D!Events(c)
BY DEF D!Events

LEMMA SameTold == ASSUME exchange' = exchange, NEW c, NEW n PROVE D!Told(c, n)' = D!Told(c, n)
BY SameEvents DEF D!Told

LEMMA SameTurn == ASSUME exchange' = exchange, NEW c, NEW E PROVE D!Turn(c, E)' = D!Turn(c, E)
BY DEF D!Turn, D!AgyTurn, D!KimiTurn, D!CodexTurn, D!AgyShown, D!KimiShown, D!CodexShown

LEMMA Appended ==
  ASSUME NEW s, \E S : s \in Seq(S), NEW e, NEW z, z = Append(s, e)
  PROVE  /\ \E S : z \in Seq(S)
         /\ Len(s) \in Nat /\ Len(z) = Len(s) + 1 /\ z[Len(s) + 1] = e
         /\ \A i \in 1 .. Len(s) : z[i] = s[i]
<1>1. PICK S : s \in Seq(S)
  OBVIOUS
<1>2. PICK T : T = S \cup {e}
  OBVIOUS
<1>3. s \in Seq(T) /\ e \in T
  BY <1>1, <1>2
<1>4. /\ z \in Seq(T) /\ Len(s) \in Nat /\ Len(z) = Len(s) + 1 /\ z[Len(s) + 1] = e
      /\ \A i \in 1 .. Len(s) : z[i] = s[i]
  BY <1>3
<1>5. QED
  BY <1>4

\* Every turn is made of what was told of a call that is over, and of no call is
\* there more to tell than its stream has; a call is over by its last event.
ToldInv ==
  /\ exchange \in D!Exchanges /\ told \in [D!Calls -> Nat] /\ over \subseteq D!Calls
  /\ \A c \in D!Calls : told[c] <= Len(D!Events(c)) /\ (c \notin over => told[c] < Len(D!Events(c)))
MadeOf(t) == \E c, n, E : c \in over /\ n \in Nat \ {0} /\ n = told[c] /\ E = D!Told(c, n) /\ t = D!Turn(c, E)
ContentInv ==
  /\ ToldInv
  /\ \E S : turns \in Seq(S)
  /\ \A t : (\E i \in 1 .. Len(turns) : t = turns[i]) => MadeOf(t)

LEMMA ContentInit == D!Init => ContentInv
<1> SUFFICES ASSUME D!Init PROVE ContentInv
  OBVIOUS
<1>1. exchange \in D!Exchanges /\ told = [c \in D!Calls |-> 0] /\ over = {} /\ turns = <<>>
  BY DEF D!Init
<1>2. \A c \in D!Calls : Len(D!Events(c)) \in Nat \ {0}
  BY <1>1, Streamed
<1>3. ToldInv
  BY <1>1, <1>2 DEF ToldInv
<1>4. turns \in Seq({}) /\ Len(turns) = 0
  BY <1>1
<1>5. QED
  BY <1>3, <1>4 DEF ContentInv

\* Where a call is told more, or is over, the turns of the calls that were over stay.
LEMMA MadeStays ==
  ASSUME exchange' = exchange, NEW t, MadeOf(t), over \subseteq over',
         \A c \in over : told'[c] = told[c]
  PROVE  MadeOf(t)'
<1>1. PICK c, n, E : c \in over /\ n \in Nat \ {0} /\ n = told[c] /\ E = D!Told(c, n) /\ t = D!Turn(c, E)
  BY DEF MadeOf
<1>2. c \in over' /\ n = told'[c]
  BY <1>1
<1>3. E = D!Told(c, n)'
  BY <1>1, SameTold
<1>4. t = D!Turn(c, E)'
  BY <1>1, SameTurn
<1>5. QED
  BY <1>1, <1>2, <1>3, <1>4 DEF MadeOf

\* A turn more.
LEMMA MoreMade ==
  ASSUME ToldInv', \E S : turns \in Seq(S), NEW e, MadeOf(e)', turns' = Append(turns, e),
         \A t : (\E i \in 1 .. Len(turns) : t = turns[i]) => MadeOf(t)'
  PROVE  ContentInv'
<1>1. PICK z : z = turns'
  OBVIOUS
<1>2. /\ \E S : z \in Seq(S)
      /\ Len(turns) \in Nat /\ Len(z) = Len(turns) + 1 /\ z[Len(turns) + 1] = e
      /\ \A i \in 1 .. Len(turns) : z[i] = turns[i]
  BY <1>1, Appended
<1>3. ASSUME NEW t, NEW i \in 1 .. Len(z), t = z[i] PROVE MadeOf(t)'
  <2>1. i \in 1 .. Len(turns) \/ i = Len(turns) + 1
    BY <1>2
  <2>2. QED
    BY <1>2, <1>3, <2>1
<1>4. QED
  BY <1>1, <1>2, <1>3 DEF ContentInv

LEMMA ContentStep == ContentInv /\ D!Next => ContentInv'
<1> SUFFICES ASSUME ContentInv, D!Next PROVE ContentInv'
  OBVIOUS
<1>1. PICK c \in D!Calls : D!Tell(c) \/ D!Break(c)
  BY DEF D!Next
<1>2. /\ exchange \in D!Exchanges /\ told \in [D!Calls -> Nat] /\ over \subseteq D!Calls
      /\ \A x \in D!Calls : told[x] <= Len(D!Events(x)) /\ (x \notin over => told[x] < Len(D!Events(x)))
      /\ \E S : turns \in Seq(S)
      /\ \A t : (\E i \in 1 .. Len(turns) : t = turns[i]) => MadeOf(t)
  BY DEF ContentInv, ToldInv
<1>3. exchange' = exchange /\ c \notin over
  BY <1>1 DEF D!Tell, D!Break
<1>4. \A x : D!Events(x)' = D!Events(x)
  BY <1>3, SameEvents
<1>5. \A x \in D!Calls : Len(D!Events(x)) \in Nat \ {0} /\ told[x] \in Nat
  BY <1>2, Streamed
<1>6. ASSUME D!Tell(c) PROVE ContentInv'
  <2>1. PICK n, E : n = told[c] + 1 /\ E = D!Told(c, n)
    OBVIOUS
  <2>2. n \in Nat \ {0} /\ n <= Len(D!Events(c)) /\ n \in 0 .. Len(D!Events(c))
    BY <1>2, <1>3, <1>5, <2>1
  <2>3. told' = [told EXCEPT ![c] = n]
    BY <1>6, <2>1 DEF D!Tell
  <2>4. told' \in [D!Calls -> Nat] /\ told'[c] = n /\ \A x \in D!Calls : x # c => told'[x] = told[x]
    BY <1>2, <2>2, <2>3
  <2>5. \/ D!IsTerminal(E) /\ over' = over \cup {c} /\ turns' = Append(turns, D!Turn(c, E))
        \/ ~D!IsTerminal(E) /\ over' = over /\ turns' = turns
    BY <1>6, <2>1 DEF D!Tell
  <2>6. ASSUME n = Len(D!Events(c)) PROVE D!IsTerminal(E)
    <3>1. PICK f : f = D!Events(c)
      OBVIOUS
    <3>2. /\ f \in Seq(Happening) /\ f[n].type \in {"last", "finish", "completed", "failed"}
          /\ n = Len(f) /\ n \in 0 .. Len(f)
      BY <1>2, <2>2, <2>6, <3>1, Streamed
    <3>3. E = SubSeq(f, 1, n)
      BY <2>1, <3>1 DEF D!Told
    <3>4. DOMAIN E = 1 .. n /\ \A i \in 1 .. n : E[i] = f[i]
      BY <3>2, <3>3, PrefixOfEvents
    <3>5. n \in DOMAIN E /\ E[n] = f[n]
      BY <2>2, <3>4
    <3>6. E[n] \in D!Range(E)
      BY <3>5 DEF D!Range
    <3>7. QED
      BY <3>2, <3>5, <3>6 DEF D!IsTerminal
  <2>7. over' \subseteq D!Calls /\ over \subseteq over' /\ \A x \in over' : x \in over \/ x = c
    BY <1>2, <2>5
  <2>8. ASSUME NEW x \in D!Calls
        PROVE  told'[x] <= Len(D!Events(x)) /\ (x \notin over' => told'[x] < Len(D!Events(x)))
    <3>1. CASE x = c
      <4>1. c \notin over' => n # Len(D!Events(c))
        BY <2>5, <2>6
      <4>2. QED
        BY <1>5, <2>2, <2>4, <3>1, <4>1
    <3>2. CASE x # c
      BY <1>2, <2>4, <2>7, <3>2
    <3>3. QED
      BY <3>1, <3>2
  <2>9. ToldInv'
    BY <1>2, <1>3, <1>4, <2>4, <2>7, <2>8 DEF ToldInv
  <2>10. \A x \in over : told'[x] = told[x]
    BY <1>2, <1>3, <2>4
  <2>11. ASSUME NEW t, \E i \in 1 .. Len(turns) : t = turns[i] PROVE MadeOf(t)'
    BY <1>2, <1>3, <2>7, <2>10, <2>11, MadeStays
  <2>12. CASE D!IsTerminal(E) /\ over' = over \cup {c} /\ turns' = Append(turns, D!Turn(c, E))
    <3>1. PICK e : e = D!Turn(c, E)
      OBVIOUS
    <3>2. MadeOf(e)'
      <4>1. E = D!Told(c, n)' /\ e = D!Turn(c, E)' /\ c \in over' /\ n = told'[c]
        BY <1>3, <2>1, <2>4, <2>12, <3>1, SameTold, SameTurn
      <4>2. QED
        BY <2>2, <4>1 DEF MadeOf
    <3>3. turns' = Append(turns, e)
      BY <2>12, <3>1
    <3>4. QED
      BY <1>2, <2>9, <2>11, <3>2, <3>3, MoreMade
  <2>13. CASE ~D!IsTerminal(E) /\ over' = over /\ turns' = turns
    BY <1>2, <2>9, <2>11, <2>13 DEF ContentInv
  <2>14. QED
    BY <2>5, <2>12, <2>13
<1>7. ASSUME D!Break(c) PROVE ContentInv'
  <2>1. /\ told' = told /\ over' = over \cup {c}
        /\ turns' = IF told[c] > 0 THEN Append(turns, D!Turn(c, D!Told(c, told[c]))) ELSE turns
    BY <1>7 DEF D!Break
  <2>2. ToldInv'
    BY <1>2, <1>3, <1>4, <2>1 DEF ToldInv
  <2>3. ASSUME NEW t, \E i \in 1 .. Len(turns) : t = turns[i] PROVE MadeOf(t)'
    BY <1>2, <1>3, <2>1, <2>3, MadeStays
  <2>4. CASE told[c] > 0
    <3>1. PICK n, E, e : n = told[c] /\ E = D!Told(c, n) /\ e = D!Turn(c, E)
      OBVIOUS
    <3>2. MadeOf(e)'
      <4>1. E = D!Told(c, n)' /\ e = D!Turn(c, E)' /\ c \in over' /\ n = told'[c] /\ n \in Nat \ {0}
        BY <1>3, <1>5, <2>1, <2>4, <3>1, SameTold, SameTurn
      <4>2. QED
        BY <4>1 DEF MadeOf
    <3>3. turns' = Append(turns, e)
      BY <2>1, <2>4, <3>1
    <3>4. QED
      BY <1>2, <2>2, <2>3, <3>2, <3>3, MoreMade
  <2>5. CASE ~(told[c] > 0)
    <3>1. turns' = turns
      BY <2>1, <2>5
    <3>2. QED
      BY <1>2, <2>2, <2>3, <3>1 DEF ContentInv
  <2>6. QED
    BY <2>4, <2>5
<1>8. QED
  BY <1>1, <1>6, <1>7

LEMMA ContentStutter == ASSUME ContentInv, UNCHANGED contentVars PROVE ContentInv'
<1>1. exchange' = exchange /\ told' = told /\ over' = over /\ turns' = turns
  BY DEF contentVars
<1>2. /\ exchange \in D!Exchanges /\ told \in [D!Calls -> Nat] /\ over \subseteq D!Calls
      /\ \A x \in D!Calls : told[x] <= Len(D!Events(x)) /\ (x \notin over => told[x] < Len(D!Events(x)))
      /\ \E S : turns \in Seq(S)
      /\ \A t : (\E i \in 1 .. Len(turns) : t = turns[i]) => MadeOf(t)
  BY DEF ContentInv, ToldInv
<1>3. \A x : D!Events(x)' = D!Events(x)
  BY <1>1, SameEvents
<1>4. ToldInv'
  BY <1>1, <1>2, <1>3 DEF ToldInv
<1>5. ASSUME NEW t, \E i \in 1 .. Len(turns) : t = turns[i] PROVE MadeOf(t)'
  BY <1>1, <1>2, <1>5, MadeStays
<1>6. QED
  BY <1>1, <1>2, <1>4, <1>5 DEF ContentInv

\* What a turn of the call that is made of what has come tells.
LEMMA MadeRight ==
  ASSUME ContentInv, NEW t, MadeOf(t)
  PROVE  /\ t.of \in D!Calls
         /\ D!Tells(t.text, D!Arrived(t.of, "text"))
         /\ D!Tells(t.reasoning, IF exchange.cli = "codex" /\ exchange.form \notin {"streamed", "bare"}
                                 THEN {} ELSE D!Arrived(t.of, "think"))
         /\ exchange.history[t.prompt] = "prompt"
         /\ exchange.cli = "agy" => t.tokens = D!Tokens(t.of)
<1>1. PICK c, n, E : c \in over /\ n \in Nat \ {0} /\ n = told[c] /\ E = D!Told(c, n) /\ t = D!Turn(c, E)
  BY DEF MadeOf
<1>2. c \in D!Calls /\ exchange \in D!Exchanges /\ n <= Len(D!Events(c))
  BY <1>1 DEF ContentInv, ToldInv
<1>3. Len(D!Events(c)) \in Nat
  BY <1>2, Streamed
<1>4. n \in 1 .. Len(D!Events(c))
  BY <1>1, <1>2, <1>3
<1>5. TurnRight(t, c, E)
  BY <1>1, <1>2, <1>4, TurnsRight
<1>6. t.of = c /\ \A k : D!Arrived(c, k) = Came(E, k)
  BY <1>1, <1>5 DEF TurnRight, D!Arrived, Came
<1>7. QED
  BY <1>2, <1>5, <1>6 DEF TurnRight

\* agy's answer: the agent's call has more tokens than the other.
LEMMA AnswerOfTheAgent ==
  ASSUME ContentInv, exchange.cli = "agy", NEW m \in D!Spoken, turns[m].of = "main"
  PROVE  D!Answer.of = "main"
<1>1. PICK n \in Nat : DOMAIN turns = 1 .. n /\ n = Len(turns)
  BY DEF ContentInv
<1>2. \A i \in D!Spoken : i \in 1 .. n
  BY <1>1 DEF D!Spoken
<1>3. ASSUME NEW i \in D!Spoken
      PROVE  /\ turns[i].of = "main" => turns[i].tokens = 2
             /\ turns[i].of # "main" => turns[i].tokens = 1
  <2>1. MadeOf(turns[i])
    BY <1>1, <1>2 DEF ContentInv
  <2>2. PICK t : t = turns[i]
    OBVIOUS
  <2>3. t.tokens = D!Tokens(t.of)
    BY <2>1, <2>2, MadeRight
  <2>4. QED
    BY <2>2, <2>3 DEF D!Tokens
<1>4. PICK M : M = {i \in D!Spoken : turns[i].of = "main"}
  OBVIOUS
<1>5. PICK a \in M : \A j \in M : a <= j
  <2>1. M \subseteq Nat /\ M # {}
    BY <1>2, <1>4
  <2>2. QED
    BY <2>1, Least
<1> DEFINE Best(i) == \A j \in D!Spoken : /\ turns[j].tokens <= turns[i].tokens
                                          /\ j < i => turns[j].tokens < turns[i].tokens
<1>6. a \in D!Spoken /\ Best(a)
  <2>1. a \in D!Spoken /\ turns[a].tokens = 2
    BY <1>3, <1>4
  <2>2. ASSUME NEW j \in D!Spoken
        PROVE  turns[j].tokens <= turns[a].tokens /\ (j < a => turns[j].tokens < turns[a].tokens)
    <3>1. turns[j].tokens = 1 \/ (turns[j].tokens = 2 /\ j \in M)
      BY <1>3, <1>4
    <3>2. j \in M => ~(j < a)
      <4>1. \A x \in M : x \in Nat /\ a \in Nat /\ a <= x
        BY <1>2, <1>4, <1>5
      <4>2. QED
        BY <4>1
    <3>3. QED
      BY <2>1, <3>1, <3>2
  <2>3. QED
    BY <2>1, <2>2
<1>7. PICK best : best = CHOOSE i \in D!Spoken : Best(i)
  OBVIOUS
<1>8. best \in D!Spoken /\ Best(best)
  BY <1>6, <1>7
<1>9. turns[best].of = "main"
  <2>1. turns[m].tokens = 2 /\ turns[m].tokens <= turns[best].tokens
    BY <1>3, <1>8
  <2>2. turns[best].tokens # 1
    BY <2>1
  <2>3. QED
    BY <1>3, <1>8, <2>2
<1>10. D!Answer = turns[best]
  BY <1>7 DEF D!Answer, D!PrimaryTurn
<1>11. QED
  BY <1>9, <1>10

LEMMA ContentTells == ContentInv => D!TurnsTellTheReply
<1> SUFFICES ASSUME ContentInv PROVE D!TurnsTellTheReply
  OBVIOUS
<1>1. ASSUME NEW t \in D!Range(turns) PROVE MadeOf(t)
  <2>1. DOMAIN turns = 1 .. Len(turns)
    BY DEF ContentInv
  <2>2. \E i \in 1 .. Len(turns) : t = turns[i]
    BY <2>1 DEF D!Range
  <2>3. QED
    BY <2>2 DEF ContentInv
<1>2. QED
  BY <1>1, MadeRight, AnswerOfTheAgent DEF D!TurnsTellTheReply

\* In every state each turn is made of just the events that its call was told,
\* and of no call is more told than its server sends, whatever the CLI, the form
\* in which it streams, and the reply.
THEOREM ContentInvariant == PathSpec => []ContentInv
<1>1. PathInit => ContentInv
  BY ContentInit DEF PathInit
<1>2. ContentInv /\ [PathNext]_allvars => ContentInv'
  <2> SUFFICES ASSUME ContentInv, [PathNext]_allvars PROVE ContentInv'
    OBVIOUS
  <2>1. CASE Contents
    BY <2>1, ContentStep DEF Contents
  <2>2. CASE Streams \/ Channels \/ Session \/ UNCHANGED allvars
    <3>1. UNCHANGED contentVars
      BY <2>2 DEF Streams, Channels, Session, allvars
    <3>2. QED
      BY <3>1, ContentStutter
  <2>3. QED
    BY <2>1, <2>2 DEF PathNext
<1>3. QED
  BY <1>1, <1>2, PTL DEF PathSpec

\* A decoded turn holds what has arrived of the reply, each part once and in
\* order, and agy's answer is the agent's (build_turn_from_events, from_objs).
THEOREM TurnsTell == PathSpec => []TurnsTellTheReply
<1>1. ContentInv => TurnsTellTheReply
  BY ContentTells DEF TurnsTellTheReply
<1>2. QED
  BY <1>1, ContentInvariant, PTL
=============================================================================
