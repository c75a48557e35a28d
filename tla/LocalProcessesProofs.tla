------------------------- MODULE LocalProcessesProofs -------------------------
(***************************************************************************)
(* Theorems about the processes on the machine, for any number of launches,*)
(* samples, threads, screens and views.  A CLI inherits its own descriptors*)
(* however its start is interleaved with those of others, a launch that    *)
(* ends leaves nothing behind, and ask_many() is not done before it has    *)
(* all that a CLI sent; what TerminalManagerProofs proves of screens holds *)
(* beside them.                                                            *)
(*                                                                         *)
(* Who owns a descriptor changes during a launch: first start() itself,    *)
(* then the finalizer, or nobody after a failure; the invariant says for   *)
(* each place in the launch which of its descriptors may be open, and that *)
(* the flags in force are those of the launch that holds the lock.         *)
(***************************************************************************)
EXTENDS LocalProcesses, Sequences, TLAPS

----------------------------------------------------------------------------
(* The launches: what holds of each of them                                *)

\* What becomes of the process of a CLI.
ChildState == {"none", "running", "zombie", "reaped"}

\* The types.
CliType ==
  /\ lock \in Launches \cup {Nobody}
  /\ pc \in [Launches -> PC] /\ failed \in [Launches -> BOOLEAN]
  /\ child \in [Launches -> ChildState] /\ tools \in [Launches -> BOOLEAN]
  /\ finalizer \in [Launches -> SUBSET AllFds] /\ marked \in [Launches -> SUBSET AllFds]
  /\ inherited \in [Launches -> SUBSET AllFds]
  /\ open \subseteq AllFds /\ inheritable \subseteq AllFds

\* The lock covers the launch from its first mark to the last one it takes back.
LockInv == \A l \in Launches : pc[l] \in {"prepared", "restore"} <=> lock = l

\* What the finalizer may own.
Handed == {"boot_w", "master", "pidfd"}
Held(l) == open \cap Owned(l)

\* What a failed launch has not handed over: the terminal is there if there is a CLI.
Loose(l) ==
  /\ Held(l) \subseteq Of(l, {"stdin", "boot_r", "boot_w", "master"})
  /\ IF child[l] = "none" THEN Held(l) \cap Of(l, {"master"}) = {} ELSE Of(l, {"master"}) \subseteq open

\* What a launch that has its CLI has not yet handed over.
Launched(l) ==
  /\ Held(l) \subseteq Of(l, {"boot_r", "boot_w", "master", "pidfd"})
  /\ Of(l, {"boot_r", "master"}) \subseteq open

\* Which descriptors of a launch are open, by where it is.
DescriptorsOf(l) ==
  /\ finalizer[l] \subseteq Of(l, Handed)
  /\ pc[l] \in {"new", "resolved", "prepared", "restore", "started"} => finalizer[l] = {}
  /\ pc[l] \in {"new", "resolved", "prepared", "started", "boot", "up"} => ~failed[l]
  /\ pc[l] = "new" => Held(l) = {}
  /\ pc[l] = "resolved" => Held(l) \subseteq Of(l, {"stdin"})
  /\ pc[l] = "prepared" => /\ Held(l) \subseteq Of(l, {"stdin", "boot_r", "boot_w"})
                           /\ Of(l, {"boot_r"}) \subseteq open
  /\ pc[l] \in {"restore", "started"} /\ ~failed[l] => Launched(l)
  /\ pc[l] = "boot" => Held(l) = finalizer[l] \cup Of(l, {"boot_r"}) /\ finalizer[l] # {}
  /\ pc[l] = "up" => Held(l) = finalizer[l] /\ finalizer[l] # {}
  /\ pc[l] \in {"stop", "grace", "sweep", "finalize"} /\ ~failed[l] => Held(l) = finalizer[l]
  /\ pc[l] \in {"stop", "grace", "sweep", "finalize"} /\ finalizer[l] # {} =>
       Held(l) \in {finalizer[l], finalizer[l] \cup Of(l, {"boot_r"})}
  /\ pc[l] = "abort" => failed[l] /\ (finalizer[l] # {} => Held(l) \subseteq Of(l, {"boot_r"}))
  /\ pc[l] \in {"restore", "stop", "grace", "sweep", "finalize", "abort"} /\ failed[l] /\ finalizer[l] = {} =>
       Loose(l)
  /\ pc[l] = "over" => Held(l) = {}

\* How far its CLI is.
ChildOf(l) ==
  /\ child[l] = "none" => ~tools[l]
  /\ pc[l] \in {"new", "resolved", "prepared"} => child[l] = "none"
  /\ pc[l] = "restore" /\ child[l] = "none" => failed[l]
  /\ pc[l] \in {"started", "boot", "up", "grace"} => child[l] # "none"
  /\ pc[l] = "sweep" => child[l] = "reaped"
  /\ pc[l] \in {"finalize", "abort", "over"} => child[l] \in {"none", "reaped"} /\ ~tools[l]

\* The flags: beside the tracker and the terminals, those of the launch at work.
Plain == {fd \in inheritable : fd.kind # "master"}
FlagsInv ==
  /\ lock = Nobody => Plain \subseteq {Tracker}
  /\ \A l \in Launches :
       /\ pc[l] = "prepared" => Plain = {Tracker} \cup Of(l, {"queue", "boot_r"})
       /\ pc[l] \in {"prepared", "restore"} => Plain \ marked[l] \subseteq {Tracker}

----------------------------------------------------------------------------
(* Descriptors                                                             *)

\* A descriptor is its owner and its purpose.
IsFd(x) == x = [of |-> x.of, kind |-> x.kind]

\* What the descriptors of a launch with given purposes are.
LEMMA Member ==
  ASSUME NEW l, NEW K, NEW x
  PROVE  x \in Of(l, K) <=> IsFd(x) /\ x.of = l /\ x.kind \in K
  BY DEF Of, IsFd

\* The tracker is nobody's.
LEMMA TrackerAlone ==
  /\ \A K : \A l \in Launches : Tracker \notin Of(l, K)
  /\ Tracker.kind = "tracker"
<1>1. Tracker.of = Nobody /\ Tracker.kind = "tracker"
  BY DEF Tracker
<1>2. QED
  BY <1>1, Member, NobodyAssumption

\* A step of one launch says nothing of what another one holds.
LEMMA OwnElsewhere ==
  ASSUME NEW l \in Launches, NEW k \in Launches, l # k, DescriptorsOf(k), ChildOf(k),
         \A x \in Owned(k) : x \in open' <=> x \in open,
         pc'[k] = pc[k], failed'[k] = failed[k], finalizer'[k] = finalizer[k],
         child'[k] = child[k], tools'[k] = tools[k]
  PROVE  DescriptorsOf(k)' /\ ChildOf(k)'
<1>1. Held(k)' = Held(k)
  BY DEF Held
<1>2. \A K \in SUBSET {"stdin", "boot_r", "boot_w", "master", "pidfd"} :
        Of(k, K) \subseteq open' <=> Of(k, K) \subseteq open
  BY Member DEF Owned
<1>3. /\ Of(k, {"boot_r"}) \subseteq open' <=> Of(k, {"boot_r"}) \subseteq open
      /\ Of(k, {"master"}) \subseteq open' <=> Of(k, {"master"}) \subseteq open
      /\ Of(k, {"boot_r", "master"}) \subseteq open' <=> Of(k, {"boot_r", "master"}) \subseteq open
  BY <1>2
<1>4. Loose(k)' = Loose(k) /\ Launched(k)' = Launched(k)
  BY <1>1, <1>3 DEF Loose, Launched
<1>5. DescriptorsOf(k)'
  BY <1>1, <1>3, <1>4 DEF DescriptorsOf
<1>6. ChildOf(k)'
  BY DEF ChildOf
<1>7. QED
  BY <1>5, <1>6

\* Beside the steps of the launches, ask_many() closes the queues it reads.
CloseQueue(l) ==
  /\ pc[l] = "up" /\ Queue(l) \subseteq open
  /\ CloseFds(Queue(l))
  /\ UNCHANGED <<lock, marked, pc, failed, finalizer, childVars>>

CloseQueues ==
  /\ \A l \in Launches : pc[l] \in {"new", "over"}
  /\ open' = open \ UNION {Queue(l) : l \in Launches}
  /\ inheritable' = inheritable \cap open'
  /\ UNCHANGED <<lock, strayCloses, marked, pc, failed, finalizer, childVars>>

CliMove == Next \/ (\E l \in Launches : CloseQueue(l)) \/ CloseQueues \/ UNCHANGED vars

\* Each step of the program is one of these.
LEMMA CliMoves == AskNext => CliMove
<1> SUFFICES ASSUME AskNext PROVE CliMove
  OBVIOUS
<1>1. CASE Next
  BY <1>1 DEF CliMove
<1>2. CASE AllStarted \/ Raises \/ Collected
  BY <1>2 DEF AllStarted, Raises, Collected, Go, CliMove
<1>3. CASE Over
  BY <1>3 DEF Over, CloseQueues, CliMove
<1>4. ASSUME NEW l \in Launches, StartNext(l) \/ CloseNext(l) \/ Inside(l) \/ Tool(l) \/ Die(l)
      PROVE  CliMove
  BY <1>4 DEF StartNext, CloseNext, Inside, CliMove, Next
<1>5. ASSUME NEW l \in Launches, CloseWriter(l) PROVE CliMove
  BY <1>5 DEF CloseWriter, CloseQueue, CliMove
<1>6. ASSUME NEW l \in Launches, CollectObject(l) \/ Send(l) \/ SendEnd(l) PROVE CliMove
  BY <1>6 DEF CollectObject, Send, SendEnd, CliMove
<1>7. ASSUME NEW l \in Launches, CollectEnd(l) \/ CollectEof(l) PROVE CliMove
  BY <1>7 DEF CollectEnd, CollectEof, Finished, CliMove, Next
<1>8. QED
  BY <1>1, <1>2, <1>3, <1>4, <1>5, <1>6, <1>7 DEF AskNext

\* Every step keeps the types.
LEMMA CliTypeStep == CliType /\ CliMove => CliType'
<1> SUFFICES ASSUME CliType, CliMove PROVE CliType'
  OBVIOUS
<1>0. \A l \in Launches, K \in SUBSET {"queue", "stdin", "boot_r", "boot_w", "master", "pidfd"} :
        Of(l, K) \cup {Tracker} \subseteq AllFds
  BY DEF Of, AllFds, Fd
<1>1. ASSUME NEW l \in Launches, Resolve(l) PROVE CliType'
  BY <1>0, <1>1 DEF CliType, PC, ChildState, Resolve, Goto, Abandon, fdVars, childVars
<1>2. ASSUME NEW l \in Launches, Prepare(l) PROVE CliType'
  <2>1. \E S \in SUBSET AllFds : inheritable' = inheritable \cup S /\ marked' = [marked EXCEPT ![l] = S \ inheritable]
    <3>1. CASE \E Q \in SUBSET Of(l, {"queue"}) :
                 LET S == {Tracker} \cup Of(l, {"boot_r"}) \cup Q
                 IN  inheritable' = inheritable \cup S /\ marked' = [marked EXCEPT ![l] = S \ inheritable]
      <4>1. PICK Q \in SUBSET Of(l, {"queue"}) :
                 LET S == {Tracker} \cup Of(l, {"boot_r"}) \cup Q
                 IN  inheritable' = inheritable \cup S /\ marked' = [marked EXCEPT ![l] = S \ inheritable]
        BY <3>1
      <4>2. {Tracker} \cup Of(l, {"boot_r"}) \cup Q \subseteq AllFds
        BY <1>0
      <4>3. QED
        BY <4>1, <4>2
    <3>2. CASE LET S == {Tracker} \cup Of(l, {"queue", "boot_r"})
               IN  inheritable' = inheritable \cup S /\ marked' = [marked EXCEPT ![l] = S \ inheritable]
      <4>1. {Tracker} \cup Of(l, {"queue", "boot_r"}) \subseteq AllFds
        BY <1>0
      <4>2. QED
        BY <3>2, <4>1
    <3>3. QED
      BY <1>2, <3>1, <3>2 DEF Prepare
  <2>2. open' \subseteq AllFds
    BY <1>0, <1>2 DEF CliType, Prepare
  <2>3. pc' \in [Launches -> PC] /\ failed' \in [Launches -> BOOLEAN] /\ lock' \in Launches
    BY <1>2 DEF CliType, PC, Prepare, Goto, Abandon
  <2>4. QED
    BY ZenonT(40), <1>2, <2>1, <2>2, <2>3 DEF CliType, Prepare, childVars
<1>3. ASSUME NEW l \in Launches, Spawn(l) PROVE CliType'
  <2>1. open' \subseteq AllFds
    <3>1. PICK sentinel \in Sentinels(l) :
            open' = (open \ Of(l, {"stdin"})) \cup Of(l, {"master"}) \cup sentinel
      BY <1>3 DEF Spawn
    <3>2. sentinel \subseteq AllFds /\ Of(l, {"master"}) \subseteq AllFds
      BY <1>0 DEF Sentinels
    <3>3. QED
      BY <3>1, <3>2 DEF CliType
  <2>2. inheritable' \subseteq AllFds
    BY <1>0, <1>3 DEF CliType, Spawn
  <2>3. /\ pc' \in [Launches -> PC] /\ failed' \in [Launches -> BOOLEAN]
        /\ child' \in [Launches -> ChildState] /\ inherited' \in [Launches -> SUBSET AllFds]
    BY <1>3 DEF CliType, PC, ChildState, Spawn, Goto, Abandon
  <2>4. QED
    BY <1>3, <2>1, <2>2, <2>3 DEF CliType, Spawn
<1>4. ASSUME NEW l \in Launches, SpawnFails(l) PROVE CliType'
  BY <1>4 DEF CliType, PC, ChildState, SpawnFails, Goto, Abandon, fdVars, childVars
<1>5. ASSUME NEW l \in Launches, Restore(l) PROVE CliType'
  BY <1>5 DEF CliType, PC, ChildState, Restore, Goto, fdVars, childVars
<1>6. ASSUME NEW l \in Launches, InstallFinalizer(l) PROVE CliType'
  BY <1>6 DEF CliType, PC, ChildState, InstallFinalizer, Goto, fdVars, childVars
<1>7. ASSUME NEW l \in Launches, WriteBoot(l) PROVE CliType'
  BY <1>0, <1>7 DEF CliType, PC, ChildState, WriteBoot, Goto, Abandon, CloseFds, fdVars,
     childVars
<1>8. ASSUME NEW l \in Launches, Poll(l) PROVE CliType'
  BY <1>8 DEF CliType, PC, ChildState, Poll, Goto, Reap, fdVars, childVars
<1>9. ASSUME NEW l \in Launches, Close(l) PROVE CliType'
  BY <1>9 DEF CliType, PC, ChildState, Close, Goto, fdVars, childVars
<1>10. ASSUME NEW l \in Launches, Stop(l) PROVE CliType'
  BY <1>10 DEF CliType, PC, ChildState, Stop, Goto, Reap, fdVars, childVars
<1>11. ASSUME NEW l \in Launches, Grace(l) PROVE CliType'
  BY <1>11 DEF CliType, PC, ChildState, Grace, Goto, Reap, fdVars, childVars
<1>12. ASSUME NEW l \in Launches, SweepGroup(l) PROVE CliType'
  BY <1>12 DEF CliType, PC, ChildState, SweepGroup, Goto, fdVars, childVars
<1>13. ASSUME NEW l \in Launches, RunFinalizer(l) PROVE CliType'
  BY <1>0, <1>13 DEF CliType, PC, ChildState, RunFinalizer, Goto, CloseFds, fdVars, childVars
<1>14. ASSUME NEW l \in Launches, Abort(l) PROVE CliType'
  BY <1>0, <1>14 DEF CliType, PC, ChildState, Abort, Goto, CloseFds, fdVars, childVars
<1>15. ASSUME NEW l \in Launches, Tool(l) PROVE CliType'
  BY <1>15 DEF CliType, PC, ChildState, Tool, Goto, fdVars, childVars
<1>16. ASSUME NEW l \in Launches, Die(l) PROVE CliType'
  BY <1>16 DEF CliType, PC, ChildState, Die, Goto, fdVars, childVars
<1>17. ASSUME NEW l \in Launches, CloseQueue(l) PROVE CliType'
  BY <1>0, <1>17 DEF CliType, PC, ChildState, CloseQueue, Goto, CloseFds, fdVars, childVars,
     Queue
<1>18. CASE CloseQueues \/ UNCHANGED vars
  BY <1>18 DEF CliType, CloseQueues, vars, fdVars, childVars
<1>19. QED
  BY <1>1, <1>2, <1>3, <1>4, <1>5, <1>6, <1>7, <1>8, <1>9, <1>10, <1>11, <1>12, <1>13, <1>14,
     <1>15, <1>16, <1>17, <1>18 DEF CliMove, Next

\* Every step keeps the lock with the launch at work.
LEMMA LockStep == CliType /\ LockInv /\ CliMove => LockInv'
<1> SUFFICES ASSUME CliType, LockInv, CliMove PROVE LockInv'
  OBVIOUS
<1>1. ASSUME NEW l \in Launches, Resolve(l) PROVE LockInv'
  BY <1>1, NobodyAssumption DEF CliType, LockInv, Resolve, Goto, Abandon, fdVars, childVars
<1>2. ASSUME NEW l \in Launches, Prepare(l) PROVE LockInv'
  BY <1>2, NobodyAssumption DEF CliType, LockInv, Prepare, Goto, Abandon, fdVars, childVars
<1>3. ASSUME NEW l \in Launches, Spawn(l) PROVE LockInv'
  BY <1>3, NobodyAssumption DEF CliType, LockInv, Spawn, Goto, Abandon, fdVars, childVars,
     Sentinels
<1>4. ASSUME NEW l \in Launches, SpawnFails(l) PROVE LockInv'
  BY <1>4, NobodyAssumption DEF CliType, LockInv, SpawnFails, Goto, Abandon, fdVars, childVars
<1>5. ASSUME NEW l \in Launches, Restore(l) PROVE LockInv'
  BY <1>5, NobodyAssumption DEF CliType, LockInv, Restore, Goto, fdVars, childVars
<1>6. ASSUME NEW l \in Launches, InstallFinalizer(l) PROVE LockInv'
  BY <1>6, NobodyAssumption DEF CliType, LockInv, InstallFinalizer, Goto, fdVars, childVars
<1>7. ASSUME NEW l \in Launches, WriteBoot(l) PROVE LockInv'
  BY <1>7, NobodyAssumption DEF CliType, LockInv, WriteBoot, Goto, Abandon, CloseFds, fdVars,
     childVars
<1>8. ASSUME NEW l \in Launches, Poll(l) PROVE LockInv'
  BY <1>8, NobodyAssumption DEF CliType, LockInv, Poll, Goto, Reap, fdVars, childVars
<1>9. ASSUME NEW l \in Launches, Close(l) PROVE LockInv'
  BY <1>9, NobodyAssumption DEF CliType, LockInv, Close, Goto, fdVars, childVars
<1>10. ASSUME NEW l \in Launches, Stop(l) PROVE LockInv'
  BY <1>10, NobodyAssumption DEF CliType, LockInv, Stop, Goto, Reap, fdVars, childVars
<1>11. ASSUME NEW l \in Launches, Grace(l) PROVE LockInv'
  BY <1>11, NobodyAssumption DEF CliType, LockInv, Grace, Goto, Reap, fdVars, childVars
<1>12. ASSUME NEW l \in Launches, SweepGroup(l) PROVE LockInv'
  BY <1>12, NobodyAssumption DEF CliType, LockInv, SweepGroup, Goto, fdVars, childVars
<1>13. ASSUME NEW l \in Launches, RunFinalizer(l) PROVE LockInv'
  BY <1>13, NobodyAssumption DEF CliType, LockInv, RunFinalizer, Goto, CloseFds, fdVars,
     childVars
<1>14. ASSUME NEW l \in Launches, Abort(l) PROVE LockInv'
  BY <1>14, NobodyAssumption DEF CliType, LockInv, Abort, Goto, CloseFds, fdVars, childVars
<1>15. ASSUME NEW l \in Launches, Tool(l) PROVE LockInv'
  BY <1>15, NobodyAssumption DEF CliType, LockInv, Tool, Goto, fdVars, childVars
<1>16. ASSUME NEW l \in Launches, Die(l) PROVE LockInv'
  BY <1>16, NobodyAssumption DEF CliType, LockInv, Die, Goto, fdVars, childVars
<1>17. ASSUME NEW l \in Launches, CloseQueue(l) PROVE LockInv'
  BY <1>17, NobodyAssumption DEF CliType, LockInv, CloseQueue, Goto, CloseFds, fdVars,
     childVars, Queue
<1>18. CASE CloseQueues \/ UNCHANGED vars
  BY <1>18 DEF LockInv, CloseQueues, vars
<1>19. QED
  BY <1>1, <1>2, <1>3, <1>4, <1>5, <1>6, <1>7, <1>8, <1>9, <1>10, <1>11, <1>12, <1>13, <1>14,
     <1>15, <1>16, <1>17, <1>18 DEF CliMove, Next

\* What the launches hold, and that nothing is closed twice.
OwnInv == strayCloses = {} /\ \A l \in Launches : DescriptorsOf(l) /\ ChildOf(l)

\* Every step keeps it.
LEMMA OwnStep == CliType /\ OwnInv /\ CliMove => OwnInv'
<1> SUFFICES ASSUME CliType, OwnInv, CliMove PROVE OwnInv'
  OBVIOUS
<1>1. ASSUME NEW l \in Launches, Resolve(l) PROVE OwnInv'
  <2>1. DescriptorsOf(l) /\ ChildOf(l)
    BY DEF OwnInv
  <2>2. \A k \in Launches \ {l} : DescriptorsOf(k)' /\ ChildOf(k)'
    BY <1>1, OwnElsewhere, Member DEF OwnInv, CliType, Resolve, Goto, Abandon, fdVars,
       childVars, Owned
  <2>3. DescriptorsOf(l)'
    BY <1>1, <2>1, Member DEF CliType, DescriptorsOf, ChildOf, Held, Loose, Launched, Owned,
       Handed, Resolve, Goto, Abandon, fdVars, childVars
  <2>4. ChildOf(l)'
    BY <1>1, <2>1 DEF CliType, ChildState, ChildOf, DescriptorsOf, Resolve, Goto, Abandon,
       fdVars, childVars
  <2>5. strayCloses' = {}
    BY <1>1, <2>1, Member DEF OwnInv, Resolve, Goto, Abandon, fdVars, childVars,
       DescriptorsOf, Held, Loose, Launched, Owned
  <2>6. QED
    BY <2>2, <2>3, <2>4, <2>5 DEF OwnInv
<1>2. ASSUME NEW l \in Launches, Prepare(l) PROVE OwnInv'
  <2>1. DescriptorsOf(l) /\ ChildOf(l)
    BY DEF OwnInv
  <2>2. \A k \in Launches \ {l} : DescriptorsOf(k)' /\ ChildOf(k)'
    BY <1>2, OwnElsewhere, Member DEF OwnInv, CliType, Prepare, Goto, Abandon, fdVars,
       childVars, Owned
  <2>3. DescriptorsOf(l)'
    BY <1>2, <2>1, Member DEF CliType, DescriptorsOf, ChildOf, Held, Loose, Launched, Owned,
       Handed, Prepare, Goto, Abandon, fdVars, childVars
  <2>4. ChildOf(l)'
    BY <1>2, <2>1 DEF CliType, ChildState, ChildOf, DescriptorsOf, Prepare, Goto, Abandon,
       fdVars, childVars
  <2>5. strayCloses' = {}
    BY <1>2, <2>1, Member DEF OwnInv, Prepare, Goto, Abandon, fdVars, childVars,
       DescriptorsOf, Held, Loose, Launched, Owned
  <2>6. QED
    BY <2>2, <2>3, <2>4, <2>5 DEF OwnInv
<1>3. ASSUME NEW l \in Launches, Spawn(l) PROVE OwnInv'
  <2>1. DescriptorsOf(l) /\ ChildOf(l)
    BY DEF OwnInv
  <2>2. \A k \in Launches \ {l} : DescriptorsOf(k)' /\ ChildOf(k)'
    BY <1>3, OwnElsewhere, Member DEF OwnInv, CliType, Spawn, Goto, Abandon, fdVars,
       childVars, Sentinels, Owned
  <2>3. DescriptorsOf(l)'
    BY <1>3, <2>1, Member DEF CliType, DescriptorsOf, ChildOf, Held, Loose, Launched, Owned,
       Handed, Spawn, Goto, Abandon, fdVars, childVars, Sentinels
  <2>4. ChildOf(l)'
    BY <1>3, <2>1 DEF CliType, ChildState, ChildOf, DescriptorsOf, Spawn, Goto, Abandon,
       fdVars, childVars, Sentinels
  <2>5. strayCloses' = {}
    BY <1>3, <2>1, Member DEF OwnInv, Spawn, Goto, Abandon, fdVars, childVars, Sentinels,
       DescriptorsOf, Held, Loose, Launched, Owned
  <2>6. QED
    BY <2>2, <2>3, <2>4, <2>5 DEF OwnInv
<1>4. ASSUME NEW l \in Launches, SpawnFails(l) PROVE OwnInv'
  <2>1. DescriptorsOf(l) /\ ChildOf(l)
    BY DEF OwnInv
  <2>2. \A k \in Launches \ {l} : DescriptorsOf(k)' /\ ChildOf(k)'
    BY <1>4, OwnElsewhere DEF OwnInv, CliType, SpawnFails, Goto, Abandon, fdVars, childVars
  <2>3. DescriptorsOf(l)'
    BY <1>4, <2>1, Member DEF CliType, DescriptorsOf, ChildOf, Held, Loose, Launched, Owned,
       Handed, SpawnFails, Goto, Abandon, fdVars, childVars
  <2>4. ChildOf(l)'
    BY <1>4, <2>1 DEF CliType, ChildState, ChildOf, DescriptorsOf, SpawnFails, Goto, Abandon,
       fdVars, childVars
  <2>5. strayCloses' = {}
    BY <1>4, <2>1 DEF OwnInv, SpawnFails, Goto, Abandon, fdVars, childVars
  <2>6. QED
    BY <2>2, <2>3, <2>4, <2>5 DEF OwnInv
<1>5. ASSUME NEW l \in Launches, Restore(l) PROVE OwnInv'
  <2>1. DescriptorsOf(l) /\ ChildOf(l)
    BY DEF OwnInv
  <2>2. \A k \in Launches \ {l} : DescriptorsOf(k)' /\ ChildOf(k)'
    BY <1>5, OwnElsewhere DEF OwnInv, CliType, Restore, Goto, fdVars, childVars
  <2>3. DescriptorsOf(l)'
    BY <1>5, <2>1 DEF CliType, DescriptorsOf, ChildOf, Held, Loose, Launched, Owned, Handed,
       Restore, Goto, fdVars, childVars
  <2>4. ChildOf(l)'
    BY <1>5, <2>1 DEF CliType, ChildState, ChildOf, DescriptorsOf, Restore, Goto, fdVars,
       childVars
  <2>5. strayCloses' = {}
    BY <1>5, <2>1 DEF OwnInv, Restore, Goto, fdVars, childVars
  <2>6. QED
    BY <2>2, <2>3, <2>4, <2>5 DEF OwnInv
<1>6. ASSUME NEW l \in Launches, InstallFinalizer(l) PROVE OwnInv'
  <2>1. DescriptorsOf(l) /\ ChildOf(l)
    BY DEF OwnInv
  <2>7. /\ [of |-> l, kind |-> "master"] \in Of(l, {"boot_r", "master"})
        /\ [of |-> l, kind |-> "master"] \in Of(l, {"boot_w", "master", "pidfd"})
    BY DEF Of
  <2>2. \A k \in Launches \ {l} : DescriptorsOf(k)' /\ ChildOf(k)'
    BY <1>6, OwnElsewhere DEF OwnInv, CliType, InstallFinalizer, Goto, fdVars, childVars
  <2>3. DescriptorsOf(l)'
    BY <1>6, <2>1, Member, <2>7 DEF CliType, DescriptorsOf, ChildOf, Held, Loose, Launched,
       Owned, Handed, InstallFinalizer, Goto, fdVars, childVars
  <2>4. ChildOf(l)'
    BY <1>6, <2>1 DEF CliType, ChildState, ChildOf, DescriptorsOf, InstallFinalizer, Goto,
       fdVars, childVars
  <2>5. strayCloses' = {}
    BY <1>6, <2>1 DEF OwnInv, InstallFinalizer, Goto, fdVars, childVars
  <2>6. QED
    BY <2>2, <2>3, <2>4, <2>5 DEF OwnInv
<1>7. ASSUME NEW l \in Launches, WriteBoot(l) PROVE OwnInv'
  <2>1. DescriptorsOf(l) /\ ChildOf(l)
    BY DEF OwnInv
  <2>2. \A k \in Launches \ {l} : DescriptorsOf(k)' /\ ChildOf(k)'
    BY <1>7, OwnElsewhere, Member DEF OwnInv, CliType, WriteBoot, Goto, Abandon, CloseFds,
       fdVars, childVars, Owned
  <2>3. DescriptorsOf(l)'
    BY <1>7, <2>1, Member DEF CliType, DescriptorsOf, ChildOf, Held, Loose, Launched, Owned,
       Handed, WriteBoot, Goto, Abandon, CloseFds, fdVars, childVars
  <2>4. ChildOf(l)'
    BY <1>7, <2>1 DEF CliType, ChildState, ChildOf, DescriptorsOf, WriteBoot, Goto, Abandon,
       CloseFds, fdVars, childVars
  <2>5. strayCloses' = {}
    BY <1>7, <2>1, Member DEF OwnInv, WriteBoot, Goto, Abandon, CloseFds, fdVars, childVars,
       DescriptorsOf, Held, Loose, Launched, Owned
  <2>6. QED
    BY <2>2, <2>3, <2>4, <2>5 DEF OwnInv
<1>8. ASSUME NEW l \in Launches, Poll(l) PROVE OwnInv'
  <2>1. DescriptorsOf(l) /\ ChildOf(l)
    BY DEF OwnInv
  <2>2. \A k \in Launches \ {l} : DescriptorsOf(k)' /\ ChildOf(k)'
    BY <1>8, OwnElsewhere DEF OwnInv, CliType, Poll, Goto, Reap, fdVars, childVars
  <2>3. DescriptorsOf(l)'
    BY <1>8, <2>1 DEF CliType, DescriptorsOf, ChildOf, Held, Loose, Launched, Owned, Handed,
       Poll, Goto, Reap, fdVars, childVars
  <2>4. ChildOf(l)'
    BY <1>8, <2>1 DEF CliType, ChildState, ChildOf, DescriptorsOf, Poll, Goto, Reap, fdVars,
       childVars
  <2>5. strayCloses' = {}
    BY <1>8, <2>1 DEF OwnInv, Poll, Goto, Reap, fdVars, childVars
  <2>6. QED
    BY <2>2, <2>3, <2>4, <2>5 DEF OwnInv
<1>9. ASSUME NEW l \in Launches, Close(l) PROVE OwnInv'
  <2>1. DescriptorsOf(l) /\ ChildOf(l)
    BY DEF OwnInv
  <2>2. \A k \in Launches \ {l} : DescriptorsOf(k)' /\ ChildOf(k)'
    BY <1>9, OwnElsewhere DEF OwnInv, CliType, Close, Goto, fdVars, childVars
  <2>3. DescriptorsOf(l)'
    BY <1>9, <2>1 DEF CliType, DescriptorsOf, ChildOf, Held, Loose, Launched, Owned, Handed,
       Close, Goto, fdVars, childVars
  <2>4. ChildOf(l)'
    BY <1>9, <2>1 DEF CliType, ChildState, ChildOf, DescriptorsOf, Close, Goto, fdVars,
       childVars
  <2>5. strayCloses' = {}
    BY <1>9, <2>1 DEF OwnInv, Close, Goto, fdVars, childVars
  <2>6. QED
    BY <2>2, <2>3, <2>4, <2>5 DEF OwnInv
<1>10. ASSUME NEW l \in Launches, Stop(l) PROVE OwnInv'
  <2>1. DescriptorsOf(l) /\ ChildOf(l)
    BY DEF OwnInv
  <2>2. \A k \in Launches \ {l} : DescriptorsOf(k)' /\ ChildOf(k)'
    BY <1>10, OwnElsewhere DEF OwnInv, CliType, Stop, Goto, Reap, fdVars, childVars
  <2>3. DescriptorsOf(l)'
    BY <1>10, <2>1 DEF CliType, DescriptorsOf, ChildOf, Held, Loose, Launched, Owned, Handed,
       Stop, Goto, Reap, fdVars, childVars
  <2>4. ChildOf(l)'
    BY <1>10, <2>1 DEF CliType, ChildState, ChildOf, DescriptorsOf, Stop, Goto, Reap, fdVars,
       childVars
  <2>5. strayCloses' = {}
    BY <1>10, <2>1 DEF OwnInv, Stop, Goto, Reap, fdVars, childVars
  <2>6. QED
    BY <2>2, <2>3, <2>4, <2>5 DEF OwnInv
<1>11. ASSUME NEW l \in Launches, Grace(l) PROVE OwnInv'
  <2>1. DescriptorsOf(l) /\ ChildOf(l)
    BY DEF OwnInv
  <2>2. \A k \in Launches \ {l} : DescriptorsOf(k)' /\ ChildOf(k)'
    BY <1>11, OwnElsewhere DEF OwnInv, CliType, Grace, Goto, Reap, fdVars, childVars
  <2>3. DescriptorsOf(l)'
    BY <1>11, <2>1 DEF CliType, DescriptorsOf, ChildOf, Held, Loose, Launched, Owned, Handed,
       Grace, Goto, Reap, fdVars, childVars
  <2>4. ChildOf(l)'
    BY <1>11, <2>1 DEF CliType, ChildState, ChildOf, DescriptorsOf, Grace, Goto, Reap,
       fdVars, childVars
  <2>5. strayCloses' = {}
    BY <1>11, <2>1 DEF OwnInv, Grace, Goto, Reap, fdVars, childVars
  <2>6. QED
    BY <2>2, <2>3, <2>4, <2>5 DEF OwnInv
<1>12. ASSUME NEW l \in Launches, SweepGroup(l) PROVE OwnInv'
  <2>1. DescriptorsOf(l) /\ ChildOf(l)
    BY DEF OwnInv
  <2>2. \A k \in Launches \ {l} : DescriptorsOf(k)' /\ ChildOf(k)'
    BY <1>12, OwnElsewhere DEF OwnInv, CliType, SweepGroup, Goto, fdVars, childVars
  <2>3. DescriptorsOf(l)'
    BY <1>12, <2>1 DEF CliType, DescriptorsOf, ChildOf, Held, Loose, Launched, Owned, Handed,
       SweepGroup, Goto, fdVars, childVars
  <2>4. ChildOf(l)'
    BY <1>12, <2>1 DEF CliType, ChildState, ChildOf, DescriptorsOf, SweepGroup, Goto, fdVars,
       childVars
  <2>5. strayCloses' = {}
    BY <1>12, <2>1 DEF OwnInv, SweepGroup, Goto, fdVars, childVars
  <2>6. QED
    BY <2>2, <2>3, <2>4, <2>5 DEF OwnInv
<1>13. ASSUME NEW l \in Launches, RunFinalizer(l) PROVE OwnInv'
  <2>1. DescriptorsOf(l) /\ ChildOf(l)
    BY DEF OwnInv
  <2>2. \A k \in Launches \ {l} : DescriptorsOf(k)' /\ ChildOf(k)'
    BY <1>13, OwnElsewhere, Member DEF OwnInv, CliType, RunFinalizer, Goto, CloseFds, fdVars,
       childVars, Owned, Handed, DescriptorsOf
  <2>3. DescriptorsOf(l)'
    BY <1>13, <2>1, Member DEF CliType, DescriptorsOf, ChildOf, Held, Loose, Launched, Owned,
       Handed, RunFinalizer, Goto, CloseFds, fdVars, childVars
  <2>4. ChildOf(l)'
    BY <1>13, <2>1 DEF CliType, ChildState, ChildOf, DescriptorsOf, RunFinalizer, Goto,
       CloseFds, fdVars, childVars
  <2>5. strayCloses' = {}
    BY <1>13, <2>1, Member DEF OwnInv, RunFinalizer, Goto, CloseFds, fdVars, childVars,
       DescriptorsOf, Held, Loose, Launched, Owned
  <2>6. QED
    BY <2>2, <2>3, <2>4, <2>5 DEF OwnInv
<1>14. ASSUME NEW l \in Launches, Abort(l) PROVE OwnInv'
  <2>1. DescriptorsOf(l) /\ ChildOf(l)
    BY DEF OwnInv
  <2>2. \A k \in Launches \ {l} : DescriptorsOf(k)' /\ ChildOf(k)'
    BY <1>14, OwnElsewhere, Member DEF OwnInv, CliType, Abort, Goto, CloseFds, fdVars,
       childVars, Owned
  <2>3. DescriptorsOf(l)'
    BY <1>14, <2>1, Member DEF CliType, DescriptorsOf, ChildOf, Held, Loose, Launched, Owned,
       Handed, Abort, Goto, CloseFds, fdVars, childVars
  <2>4. ChildOf(l)'
    BY <1>14, <2>1 DEF CliType, ChildState, ChildOf, DescriptorsOf, Abort, Goto, CloseFds,
       fdVars, childVars
  <2>5. strayCloses' = {}
    BY <1>14, <2>1, Member DEF OwnInv, Abort, Goto, CloseFds, fdVars, childVars,
       DescriptorsOf, Held, Loose, Launched, Owned
  <2>6. QED
    BY <2>2, <2>3, <2>4, <2>5 DEF OwnInv
<1>15. ASSUME NEW l \in Launches, Tool(l) PROVE OwnInv'
  <2>1. DescriptorsOf(l) /\ ChildOf(l)
    BY DEF OwnInv
  <2>2. \A k \in Launches \ {l} : DescriptorsOf(k)' /\ ChildOf(k)'
    BY <1>15, OwnElsewhere DEF OwnInv, CliType, Tool, Goto, fdVars, childVars
  <2>3. DescriptorsOf(l)'
    BY <1>15, <2>1 DEF CliType, DescriptorsOf, ChildOf, Held, Loose, Launched, Owned, Handed,
       Tool, Goto, fdVars, childVars
  <2>4. ChildOf(l)'
    BY <1>15, <2>1 DEF CliType, ChildState, ChildOf, DescriptorsOf, Tool, Goto, fdVars,
       childVars
  <2>5. strayCloses' = {}
    BY <1>15, <2>1 DEF OwnInv, Tool, Goto, fdVars, childVars
  <2>6. QED
    BY <2>2, <2>3, <2>4, <2>5 DEF OwnInv
<1>16. ASSUME NEW l \in Launches, Die(l) PROVE OwnInv'
  <2>1. DescriptorsOf(l) /\ ChildOf(l)
    BY DEF OwnInv
  <2>2. \A k \in Launches \ {l} : DescriptorsOf(k)' /\ ChildOf(k)'
    BY <1>16, OwnElsewhere DEF OwnInv, CliType, Die, Goto, fdVars, childVars
  <2>3. DescriptorsOf(l)'
    BY <1>16, <2>1 DEF CliType, DescriptorsOf, ChildOf, Held, Loose, Launched, Owned, Handed,
       Die, Goto, fdVars, childVars
  <2>4. ChildOf(l)'
    BY <1>16, <2>1 DEF CliType, ChildState, ChildOf, DescriptorsOf, Die, Goto, fdVars, childVars
  <2>5. strayCloses' = {}
    BY <1>16, <2>1 DEF OwnInv, Die, Goto, fdVars, childVars
  <2>6. QED
    BY <2>2, <2>3, <2>4, <2>5 DEF OwnInv
<1>17. ASSUME NEW l \in Launches, CloseQueue(l) PROVE OwnInv'
  <2>1. DescriptorsOf(l) /\ ChildOf(l)
    BY DEF OwnInv
  <2>2. \A k \in Launches \ {l} : DescriptorsOf(k)' /\ ChildOf(k)'
    BY <1>17, OwnElsewhere, Member DEF OwnInv, CliType, CloseQueue, Goto, CloseFds, fdVars,
       childVars, Queue, Owned
  <2>3. DescriptorsOf(l)'
    BY <1>17, <2>1, Member DEF CliType, DescriptorsOf, ChildOf, Held, Loose, Launched, Owned,
       Handed, CloseQueue, Goto, CloseFds, fdVars, childVars, Queue
  <2>4. ChildOf(l)'
    BY <1>17, <2>1 DEF CliType, ChildState, ChildOf, DescriptorsOf, CloseQueue, Goto,
       CloseFds, fdVars, childVars, Queue
  <2>5. strayCloses' = {}
    BY <1>17, <2>1, Member DEF OwnInv, CloseQueue, Goto, CloseFds, fdVars, childVars, Queue,
       DescriptorsOf, Held, Loose, Launched, Owned
  <2>6. QED
    BY <2>2, <2>3, <2>4, <2>5 DEF OwnInv
<1>18. CASE CloseQueues
  <2>1. \A l \in Launches : Held(l) = {} /\ Held(l)' = {} /\ pc[l] \in {"new", "over"}
    BY <1>18 DEF CloseQueues, OwnInv, DescriptorsOf, Held
  <2>2. \A l \in Launches : DescriptorsOf(l)' /\ ChildOf(l)'
    BY <1>18, <2>1 DEF CloseQueues, OwnInv, DescriptorsOf, ChildOf, childVars
  <2>3. QED
    BY <1>18, <2>2 DEF CloseQueues, OwnInv
<1>19. CASE UNCHANGED vars
  BY <1>19 DEF OwnInv, DescriptorsOf, ChildOf, Held, Loose, Launched, vars, fdVars, childVars
<1>20. QED
  BY <1>1, <1>2, <1>3, <1>4, <1>5, <1>6, <1>7, <1>8, <1>9, <1>10, <1>11, <1>12, <1>13, <1>14,
     <1>15, <1>16, <1>17, <1>18, <1>19 DEF CliMove, Next

\* Descriptors of a launch that is not at work are closed.
LEMMA FlagsCloseElsewhere ==
  ASSUME FlagsInv, LockInv, NEW l \in Launches, inheritable' \subseteq inheritable,
         \A x \in inheritable \ inheritable' : x.of = l,
         pc[l] \notin {"prepared", "restore"}, pc'[l] \notin {"prepared", "restore"},
         \A k \in Launches \ {l} : pc'[k] = pc[k], UNCHANGED <<lock, marked>>
  PROVE  FlagsInv'
<1>1. Plain' \subseteq Plain /\ \A x \in Plain \ Plain' : x.of = l
  BY DEF Plain
<1>2. ASSUME NEW k \in Launches, k # l, NEW x \in {Tracker} \cup Of(k, {"queue", "boot_r"})
      PROVE  x.of # l
  BY <1>2, Member, NobodyAssumption DEF Tracker
<1>3. QED
  BY <1>1, <1>2 DEF FlagsInv

\* No step of a launch but the one at work changes the flags in force.
LEMMA FlagsStep == CliType /\ LockInv /\ OwnInv /\ FlagsInv /\ CliMove => FlagsInv'
<1> SUFFICES ASSUME CliType, LockInv, OwnInv, FlagsInv, CliMove PROVE FlagsInv'
  OBVIOUS
<1>1. ASSUME NEW l \in Launches, Resolve(l) PROVE FlagsInv'
  <2>1. /\ pc'[l] = "prepared" => pc[l] = "prepared"
        /\ pc'[l] \in {"prepared", "restore"} => pc[l] \in {"prepared", "restore"}
        /\ \A k \in Launches \ {l} : pc'[k] = pc[k]
        /\ UNCHANGED <<lock, inheritable, marked>>
    BY <1>1 DEF CliType, Resolve, Goto, Abandon, fdVars, childVars
  <2>2. QED
    BY <2>1 DEF FlagsInv, Plain
<1>2. ASSUME NEW l \in Launches, Prepare(l) PROVE FlagsInv'
  <2> DEFINE all == {Tracker} \cup Of(l, {"queue", "boot_r"})
  <2>1. lock = Nobody /\ lock' = l /\ pc'[l] \in {"prepared", "restore"} /\ \A k \in Launches \ {l} : pc'[k] = pc[k]
    BY <1>2 DEF CliType, Prepare, Goto, Abandon
  <2>2. /\ Plain \subseteq {Tracker} /\ \A k \in Launches \ {l} : pc'[k] \notin {"prepared", "restore"}
    BY <2>1, NobodyAssumption DEF FlagsInv, LockInv
  <2>3. \A x \in all : x.kind # "master"
    BY Member, TrackerAlone
  <2>4. \/ /\ inheritable' = inheritable \cup all /\ marked'[l] = all \ inheritable
        \/ /\ pc'[l] = "restore"
           /\ \E S \in SUBSET all : inheritable' = inheritable \cup S /\ marked'[l] = S \ inheritable
    <3>1. CASE inheritable' = inheritable \cup all /\ marked' = [marked EXCEPT ![l] = all \ inheritable]
      BY <3>1 DEF CliType
    <3>2. ASSUME NEW Q \in SUBSET Of(l, {"queue"}), pc' = [pc EXCEPT ![l] = "restore"],
                 inheritable' = inheritable \cup ({Tracker} \cup Of(l, {"boot_r"}) \cup Q),
                 marked' = [marked EXCEPT ![l] = ({Tracker} \cup Of(l, {"boot_r"}) \cup Q) \ inheritable]
          PROVE  /\ pc'[l] = "restore"
                 /\ \E S \in SUBSET all : inheritable' = inheritable \cup S /\ marked'[l] = S \ inheritable
      <4>1. {Tracker} \cup Of(l, {"boot_r"}) \cup Q \subseteq all
        BY Member
      <4>2. QED
        BY <3>2, <4>1 DEF CliType
    <3>3. QED
      BY <1>2, <3>1, <3>2 DEF Prepare, Goto, Abandon
  <2>5. \E S \in SUBSET all : /\ Plain' = Plain \cup S /\ Plain' \ marked'[l] \subseteq {Tracker}
                              /\ pc'[l] = "prepared" => S = all
    BY <2>1, <2>2, <2>3, <2>4 DEF Plain
  <2>6. pc'[l] = "prepared" => Plain' = all
    BY <2>2, <2>5
  <2>7. QED
    BY <2>1, <2>2, <2>5, <2>6, NobodyAssumption DEF FlagsInv
<1>3. ASSUME NEW l \in Launches, Spawn(l) PROVE FlagsInv'
  <2>1. /\ pc[l] = "prepared" /\ pc'[l] = "restore" /\ \A k \in Launches \ {l} : pc'[k] = pc[k]
        /\ UNCHANGED <<lock, marked>> /\ inheritable' = inheritable \cup Of(l, {"master"})
    BY <1>3 DEF CliType, Spawn, Goto, Abandon
  <2>2. Plain' = Plain
    BY <2>1, Member DEF Plain
  <2>3. QED
    BY <2>1, <2>2 DEF FlagsInv
<1>4. ASSUME NEW l \in Launches, SpawnFails(l) PROVE FlagsInv'
  <2>1. /\ pc'[l] = "prepared" => pc[l] = "prepared"
        /\ pc'[l] \in {"prepared", "restore"} => pc[l] \in {"prepared", "restore"}
        /\ \A k \in Launches \ {l} : pc'[k] = pc[k]
        /\ UNCHANGED <<lock, inheritable, marked>>
    BY <1>4 DEF CliType, SpawnFails, Goto, Abandon, fdVars, childVars
  <2>2. QED
    BY <2>1 DEF FlagsInv, Plain
<1>5. ASSUME NEW l \in Launches, Restore(l) PROVE FlagsInv'
  <2>1. /\ pc[l] = "restore" /\ inheritable' = inheritable \ marked[l] /\ lock' = Nobody
        /\ pc'[l] \in {"stop", "started"} /\ \A k \in Launches \ {l} : pc'[k] = pc[k]
    BY <1>5 DEF CliType, Restore, Goto
  <2>2. Plain' \subseteq {Tracker} /\ \A k \in Launches : pc'[k] \notin {"prepared", "restore"}
    BY <2>1 DEF FlagsInv, LockInv, Plain
  <2>3. QED
    BY <2>2 DEF FlagsInv
<1>6. ASSUME NEW l \in Launches, InstallFinalizer(l) PROVE FlagsInv'
  <2>1. /\ pc'[l] = "prepared" => pc[l] = "prepared"
        /\ pc'[l] \in {"prepared", "restore"} => pc[l] \in {"prepared", "restore"}
        /\ \A k \in Launches \ {l} : pc'[k] = pc[k]
        /\ UNCHANGED <<lock, inheritable, marked>>
    BY <1>6 DEF CliType, InstallFinalizer, Goto, fdVars, childVars
  <2>2. QED
    BY <2>1 DEF FlagsInv, Plain
<1>7. ASSUME NEW l \in Launches, WriteBoot(l) PROVE FlagsInv'
  <2>1. /\ pc[l] \notin {"prepared", "restore"} /\ pc'[l] \notin {"prepared", "restore"}
        /\ \A k \in Launches \ {l} : pc'[k] = pc[k]
        /\ UNCHANGED <<lock, marked>>
    BY <1>7 DEF CliType, WriteBoot, Goto, Abandon, CloseFds, fdVars, childVars
  <2>2. inheritable' \subseteq inheritable /\ \A x \in inheritable \ inheritable' : x.of = l
    BY <1>7, Member DEF WriteBoot, Goto, Abandon, CloseFds, fdVars, childVars
  <2>3. QED
    BY <2>1, <2>2, FlagsCloseElsewhere
<1>8. ASSUME NEW l \in Launches, Poll(l) PROVE FlagsInv'
  <2>1. /\ pc'[l] = "prepared" => pc[l] = "prepared"
        /\ pc'[l] \in {"prepared", "restore"} => pc[l] \in {"prepared", "restore"}
        /\ \A k \in Launches \ {l} : pc'[k] = pc[k]
        /\ UNCHANGED <<lock, inheritable, marked>>
    BY <1>8 DEF CliType, Poll, Goto, Reap, fdVars, childVars
  <2>2. QED
    BY <2>1 DEF FlagsInv, Plain
<1>9. ASSUME NEW l \in Launches, Close(l) PROVE FlagsInv'
  <2>1. /\ pc'[l] = "prepared" => pc[l] = "prepared"
        /\ pc'[l] \in {"prepared", "restore"} => pc[l] \in {"prepared", "restore"}
        /\ \A k \in Launches \ {l} : pc'[k] = pc[k]
        /\ UNCHANGED <<lock, inheritable, marked>>
    BY <1>9 DEF CliType, Close, Goto, fdVars, childVars
  <2>2. QED
    BY <2>1 DEF FlagsInv, Plain
<1>10. ASSUME NEW l \in Launches, Stop(l) PROVE FlagsInv'
  <2>1. /\ pc'[l] = "prepared" => pc[l] = "prepared"
        /\ pc'[l] \in {"prepared", "restore"} => pc[l] \in {"prepared", "restore"}
        /\ \A k \in Launches \ {l} : pc'[k] = pc[k]
        /\ UNCHANGED <<lock, inheritable, marked>>
    BY <1>10 DEF CliType, Stop, Goto, Reap, fdVars, childVars
  <2>2. QED
    BY <2>1 DEF FlagsInv, Plain
<1>11. ASSUME NEW l \in Launches, Grace(l) PROVE FlagsInv'
  <2>1. /\ pc'[l] = "prepared" => pc[l] = "prepared"
        /\ pc'[l] \in {"prepared", "restore"} => pc[l] \in {"prepared", "restore"}
        /\ \A k \in Launches \ {l} : pc'[k] = pc[k]
        /\ UNCHANGED <<lock, inheritable, marked>>
    BY <1>11 DEF CliType, Grace, Goto, Reap, fdVars, childVars
  <2>2. QED
    BY <2>1 DEF FlagsInv, Plain
<1>12. ASSUME NEW l \in Launches, SweepGroup(l) PROVE FlagsInv'
  <2>1. /\ pc'[l] = "prepared" => pc[l] = "prepared"
        /\ pc'[l] \in {"prepared", "restore"} => pc[l] \in {"prepared", "restore"}
        /\ \A k \in Launches \ {l} : pc'[k] = pc[k]
        /\ UNCHANGED <<lock, inheritable, marked>>
    BY <1>12 DEF CliType, SweepGroup, Goto, fdVars, childVars
  <2>2. QED
    BY <2>1 DEF FlagsInv, Plain
<1>13. ASSUME NEW l \in Launches, RunFinalizer(l) PROVE FlagsInv'
  <2>1. /\ pc[l] \notin {"prepared", "restore"} /\ pc'[l] \notin {"prepared", "restore"}
        /\ \A k \in Launches \ {l} : pc'[k] = pc[k]
        /\ UNCHANGED <<lock, marked>>
    BY <1>13 DEF CliType, RunFinalizer, Goto, CloseFds, fdVars, childVars
  <2>2. inheritable' \subseteq inheritable /\ \A x \in inheritable \ inheritable' : x.of = l
    BY <1>13, Member DEF RunFinalizer, Goto, CloseFds, fdVars, childVars, OwnInv, DescriptorsOf
  <2>3. QED
    BY <2>1, <2>2, FlagsCloseElsewhere
<1>14. ASSUME NEW l \in Launches, Abort(l) PROVE FlagsInv'
  <2>1. /\ pc[l] \notin {"prepared", "restore"} /\ pc'[l] \notin {"prepared", "restore"}
        /\ \A k \in Launches \ {l} : pc'[k] = pc[k]
        /\ UNCHANGED <<lock, marked>>
    BY <1>14 DEF CliType, Abort, Goto, CloseFds, fdVars, childVars
  <2>2. inheritable' \subseteq inheritable /\ \A x \in inheritable \ inheritable' : x.of = l
    BY <1>14, Member DEF Abort, Goto, CloseFds, fdVars, childVars
  <2>3. QED
    BY <2>1, <2>2, FlagsCloseElsewhere
<1>15. ASSUME NEW l \in Launches, Tool(l) PROVE FlagsInv'
  <2>1. /\ pc'[l] = "prepared" => pc[l] = "prepared"
        /\ pc'[l] \in {"prepared", "restore"} => pc[l] \in {"prepared", "restore"}
        /\ \A k \in Launches \ {l} : pc'[k] = pc[k]
        /\ UNCHANGED <<lock, inheritable, marked>>
    BY <1>15 DEF CliType, Tool, Goto, fdVars, childVars
  <2>2. QED
    BY <2>1 DEF FlagsInv, Plain
<1>16. ASSUME NEW l \in Launches, Die(l) PROVE FlagsInv'
  <2>1. /\ pc'[l] = "prepared" => pc[l] = "prepared"
        /\ pc'[l] \in {"prepared", "restore"} => pc[l] \in {"prepared", "restore"}
        /\ \A k \in Launches \ {l} : pc'[k] = pc[k]
        /\ UNCHANGED <<lock, inheritable, marked>>
    BY <1>16 DEF CliType, Die, Goto, fdVars, childVars
  <2>2. QED
    BY <2>1 DEF FlagsInv, Plain
<1>17. ASSUME NEW l \in Launches, CloseQueue(l) PROVE FlagsInv'
  <2>1. /\ pc[l] \notin {"prepared", "restore"} /\ pc'[l] \notin {"prepared", "restore"}
        /\ \A k \in Launches \ {l} : pc'[k] = pc[k]
        /\ UNCHANGED <<lock, marked>>
    BY <1>17 DEF CliType, CloseQueue, Goto, CloseFds, fdVars, childVars, Queue
  <2>2. inheritable' \subseteq inheritable /\ \A x \in inheritable \ inheritable' : x.of = l
    BY <1>17, Member DEF CloseQueue, Goto, CloseFds, fdVars, childVars, Queue
  <2>3. QED
    BY <2>1, <2>2, FlagsCloseElsewhere
<1>18. CASE CloseQueues
  BY <1>18 DEF CloseQueues, FlagsInv, Plain
<1>19. CASE UNCHANGED vars
  BY <1>19 DEF FlagsInv, Plain, vars, fdVars
<1>20. QED
  BY <1>1, <1>2, <1>3, <1>4, <1>5, <1>6, <1>7, <1>8, <1>9, <1>10, <1>11, <1>12, <1>13, <1>14,
     <1>15, <1>16, <1>17, <1>18, <1>19 DEF CliMove, Next

\* A CLI inherits the flags in force at its start, which is the lock's work.
LEMMA InheritStep == CliType /\ OwnInv /\ FlagsInv /\ InheritsItsOwn /\ CliMove => InheritsItsOwn'
<1> SUFFICES ASSUME CliType, OwnInv, FlagsInv, InheritsItsOwn, CliMove PROVE InheritsItsOwn'
  OBVIOUS
<1>1. ASSUME NEW l \in Launches, Spawn(l) PROVE InheritsItsOwn'
  <2>1. /\ pc[l] = "prepared" /\ inherited'[l] = inheritable
        /\ \A k \in Launches \ {l} : child'[k] = child[k] /\ inherited'[k] = inherited[k]
    BY <1>1 DEF CliType, Spawn
  <2>2. {fd \in inherited'[l] : fd.kind # "master"} = {Tracker} \cup Of(l, {"queue", "boot_r"})
    BY <2>1 DEF FlagsInv, Plain
  <2>3. QED
    BY <2>1, <2>2 DEF InheritsItsOwn
<1>2. ASSUME UNCHANGED inherited, \A l \in Launches : child'[l] # "none" => child[l] # "none"
      PROVE  InheritsItsOwn'
  BY <1>2 DEF InheritsItsOwn
<1>3. ASSUME NEW l \in Launches, Resolve(l) PROVE InheritsItsOwn'
  BY <1>3, <1>2 DEF CliType, Resolve, Goto, Abandon, fdVars, childVars
<1>4. ASSUME NEW l \in Launches, Prepare(l) PROVE InheritsItsOwn'
  BY <1>4, <1>2 DEF CliType, Prepare, Goto, Abandon, fdVars, childVars
<1>5. ASSUME NEW l \in Launches, SpawnFails(l) PROVE InheritsItsOwn'
  BY <1>5, <1>2 DEF CliType, SpawnFails, Goto, Abandon, fdVars, childVars
<1>6. ASSUME NEW l \in Launches, Restore(l) PROVE InheritsItsOwn'
  BY <1>6, <1>2 DEF CliType, Restore, Goto, fdVars, childVars
<1>7. ASSUME NEW l \in Launches, InstallFinalizer(l) PROVE InheritsItsOwn'
  BY <1>7, <1>2 DEF CliType, InstallFinalizer, Goto, fdVars, childVars
<1>8. ASSUME NEW l \in Launches, WriteBoot(l) PROVE InheritsItsOwn'
  BY <1>8, <1>2 DEF CliType, WriteBoot, Goto, Abandon, CloseFds, fdVars, childVars
<1>9. ASSUME NEW l \in Launches, Poll(l) PROVE InheritsItsOwn'
  BY <1>9, <1>2 DEF CliType, Poll, Goto, Reap, fdVars, childVars
<1>10. ASSUME NEW l \in Launches, Close(l) PROVE InheritsItsOwn'
  BY <1>10, <1>2 DEF CliType, Close, Goto, fdVars, childVars
<1>11. ASSUME NEW l \in Launches, Stop(l) PROVE InheritsItsOwn'
  BY <1>11, <1>2 DEF CliType, Stop, Goto, Reap, fdVars, childVars
<1>12. ASSUME NEW l \in Launches, Grace(l) PROVE InheritsItsOwn'
  BY <1>12, <1>2 DEF CliType, Grace, Goto, Reap, fdVars, childVars, OwnInv, ChildOf
<1>13. ASSUME NEW l \in Launches, SweepGroup(l) PROVE InheritsItsOwn'
  BY <1>13, <1>2 DEF CliType, SweepGroup, Goto, fdVars, childVars
<1>14. ASSUME NEW l \in Launches, RunFinalizer(l) PROVE InheritsItsOwn'
  BY <1>14, <1>2 DEF CliType, RunFinalizer, Goto, CloseFds, fdVars, childVars
<1>15. ASSUME NEW l \in Launches, Abort(l) PROVE InheritsItsOwn'
  BY <1>15, <1>2 DEF CliType, Abort, Goto, CloseFds, fdVars, childVars
<1>16. ASSUME NEW l \in Launches, Tool(l) PROVE InheritsItsOwn'
  BY <1>16, <1>2 DEF CliType, Tool, Goto, fdVars, childVars
<1>17. ASSUME NEW l \in Launches, Die(l) PROVE InheritsItsOwn'
  BY <1>17, <1>2 DEF CliType, Die, Goto, fdVars, childVars
<1>18. ASSUME NEW l \in Launches, CloseQueue(l) PROVE InheritsItsOwn'
  BY <1>18, <1>2 DEF CliType, CloseQueue, Goto, CloseFds, fdVars, childVars, Queue
<1>19. CASE CloseQueues \/ UNCHANGED vars
  BY <1>19, <1>2 DEF CloseQueues, vars, childVars
<1>20. QED
  BY <1>1, <1>3, <1>4, <1>5, <1>6, <1>7, <1>8, <1>9, <1>10, <1>11, <1>12, <1>13, <1>14,
     <1>15, <1>16, <1>17, <1>18, <1>19 DEF CliMove, Next

----------------------------------------------------------------------------
(* ask_many()                                                              *)

\* What the loop has collected, and who is up while it does.
LoopInv ==
  /\ sent \in [Launches -> Nat] /\ got \in [Launches -> Nat] /\ done \subseteq Launches
  /\ \A l \in Launches : got[l] <= sent[l]
  /\ at \in {"threads", "start"} => done = {}
  /\ at = "collect" => \A l \in Launches : pc[l] = "up"

\* A CLI that is dead stays so.
LEMMA DeadStays ==
  ASSUME CliType, OwnInv, CliMove, NEW l \in Launches, Dead(l)
  PROVE  Dead(l)'
<1>1. child[l] \in {"zombie", "reaped"} /\ pc[l] # "prepared"
  BY DEF Dead, OwnInv, ChildOf
<1>2. ASSUME NEW k \in Launches, Spawn(k) PROVE child'[l] = child[l]
  BY <1>1, <1>2 DEF Spawn, CliType
<1>3. ASSUME NEW k \in Launches,
             \/ Poll(k) \/ Stop(k) \/ Grace(k) \/ Die(k)
      PROVE  child'[l] \in {child[l], "zombie", "reaped"}
  BY <1>3 DEF Poll, Stop, Grace, Die, Reap, CliType
<1>4. ASSUME NEW k \in Launches,
             \/ Resolve(k) \/ Prepare(k) \/ SpawnFails(k) \/ Restore(k)
             \/ InstallFinalizer(k) \/ WriteBoot(k) \/ Close(k) \/ SweepGroup(k)
             \/ RunFinalizer(k) \/ Abort(k) \/ Tool(k) \/ CloseQueue(k)
      PROVE  child' = child
  BY <1>4 DEF Resolve, Prepare, SpawnFails, Restore, InstallFinalizer, WriteBoot, Close,
              SweepGroup, RunFinalizer, Abort, Tool, CloseQueue, childVars
<1>5. CASE CloseQueues \/ UNCHANGED vars
  BY <1>1, <1>5 DEF CloseQueues, vars, childVars, Dead
<1>6. QED
  BY <1>1, <1>2, <1>3, <1>4, <1>5 DEF Dead, CliMove, Next

\* The end of a queue means that its CLI is dead, which has inherited it.
LEMMA EofIsDeath ==
  ASSUME OwnInv, InheritsItsOwn, NEW l \in Launches, pc[l] = "up", Eof(l)
  PROVE  Dead(l)
<1>1. child[l] # "none"
  BY DEF OwnInv, ChildOf
<1>2. [of |-> l, kind |-> "queue"] \in Of(l, {"queue"}) /\ [of |-> l, kind |-> "queue"] \in Of(l, {"queue", "boot_r"})
  BY DEF Of
<1>3. [of |-> l, kind |-> "queue"] \in inherited[l]
  BY <1>1, <1>2 DEF InheritsItsOwn
<1>4. Queue(l) \cap inherited[l] # {}
  BY <1>2, <1>3 DEF Queue
<1>5. QED
  BY <1>4 DEF Eof

\* Every step keeps what the loop collects complete.
LEMMA LoopStep ==
  CliType /\ OwnInv /\ InheritsItsOwn /\ LoopInv /\ SamplesComplete /\ [AskNext]_allVars
    => LoopInv' /\ SamplesComplete'
<1> SUFFICES ASSUME CliType, OwnInv, InheritsItsOwn, LoopInv, SamplesComplete, [AskNext]_allVars
             PROVE  LoopInv' /\ SamplesComplete'
  OBVIOUS
<1>1. CliMove
  BY CliMoves DEF CliMove, allVars
<1>2. \A l \in Launches : Dead(l) => Dead(l)'
  BY <1>1, DeadStays
<1>3. ASSUME UNCHANGED <<streams, got, done>>,
             at' \in {"threads", "start"} => at \in {"threads", "start"},
             at' = "collect" => \A l \in Launches : pc'[l] = "up"
      PROVE  LoopInv' /\ SamplesComplete'
  BY <1>2, <1>3 DEF LoopInv, SamplesComplete, streams
<1>4. CASE at = "threads" /\ Next /\ UNCHANGED askVars
  BY <1>3, <1>4 DEF askVars
<1>5. CASE AllStarted
  BY <1>3, <1>5 DEF AllStarted, Go, vars
<1>6. CASE Raises \/ Collected \/ Over
  BY <1>3, <1>6 DEF Raises, Collected, Over, Go, streams
<1>7. ASSUME NEW l \in Launches, StartNext(l) \/ CloseWriter(l) \/ CloseNext(l) PROVE LoopInv' /\ SamplesComplete'
  BY <1>3, <1>7 DEF StartNext, CloseWriter, CloseNext, askVars
<1>8. CASE at \in {"start", "close"} /\ UNCHANGED askVars
  BY <1>3, <1>8 DEF askVars
<1>9. ASSUME NEW l \in Launches, at = "collect" /\ (Tool(l) \/ Die(l)) /\ UNCHANGED askVars
      PROVE  LoopInv' /\ SamplesComplete'
  <2>1. UNCHANGED pc
    BY <1>9 DEF Tool, Die
  <2>2. QED
    BY <1>3, <1>9, <2>1 DEF askVars, LoopInv
<1>10. ASSUME NEW l \in Launches, CollectObject(l) PROVE LoopInv' /\ SamplesComplete'
  <2>1. /\ at = "collect" /\ l \notin done /\ got' = [got EXCEPT ![l] = got[l] + 1]
        /\ UNCHANGED <<vars, at, streams, done>>
    BY <1>10 DEF CollectObject, Live
  <2>2. got[l] < sent[l]
    BY <1>10 DEF CollectObject, Item
  <2>3. LoopInv'
    BY <2>1, <2>2 DEF LoopInv, streams, vars
  <2>4. SamplesComplete'
    BY <1>2, <2>1 DEF SamplesComplete, LoopInv, streams
  <2>5. QED
    BY <2>3, <2>4
<1>11. ASSUME NEW l \in Launches, CollectEnd(l) \/ CollectEof(l) PROVE LoopInv' /\ SamplesComplete'
  <2>1. /\ at = "collect" /\ done' = done \cup {l} /\ UNCHANGED <<at, streams, got>>
    BY <1>11 DEF CollectEnd, CollectEof, Live, Finished
  <2>2. UNCHANGED pc
    BY <1>11 DEF CollectEnd, CollectEof, Finished, Poll, vars
  <2>3. got[l] = sent[l] /\ (l \in ended \/ Dead(l))
    <3>1. CASE CollectEnd(l)
      BY <3>1 DEF CollectEnd, Item
    <3>2. CASE CollectEof(l)
      <4>1. Item(l) = "eof"
        BY <3>2 DEF CollectEof
      <4>2. got[l] = sent[l] /\ Eof(l)
        BY <4>1 DEF Item, LoopInv
      <4>3. QED
        BY <2>1, <4>2, EofIsDeath DEF LoopInv
    <3>3. QED
      BY <1>11, <3>1, <3>2
  <2>4. LoopInv'
    BY <2>1, <2>2 DEF LoopInv, streams
  <2>5. SamplesComplete'
    BY <1>2, <2>1, <2>3 DEF SamplesComplete, LoopInv, streams
  <2>6. QED
    BY <2>4, <2>5
<1>12. ASSUME NEW l \in Launches, Send(l) \/ SendEnd(l) PROVE LoopInv' /\ SamplesComplete'
  <2>1. l \notin ended /\ ~Dead(l) /\ UNCHANGED <<vars, at, got, done>> /\ ended \subseteq ended'
    BY <1>12 DEF Send, SendEnd, Sending, Dead
  <2>2. sent' = sent \/ sent' = [sent EXCEPT ![l] = sent[l] + 1]
    BY <1>12 DEF Send, SendEnd
  <2>3. l \notin done
    BY <2>1 DEF SamplesComplete
  <2>4. LoopInv'
    BY <2>1, <2>2 DEF LoopInv, vars
  <2>5. SamplesComplete'
    BY <1>2, <2>1, <2>2, <2>3 DEF SamplesComplete, LoopInv
  <2>6. QED
    BY <2>4, <2>5
<1>13. CASE UNCHANGED allVars
  BY <1>3, <1>13 DEF allVars, askVars, vars, LoopInv
<1>14. QED
  BY <1>4, <1>5, <1>6, <1>7, <1>8, <1>9, <1>10, <1>11, <1>12, <1>13 DEF AskNext

----------------------------------------------------------------------------
(* The theorems about the CLIs                                             *)

\* The invariant of the CLIs.
ProcessInv == /\ CliType /\ LockInv /\ OwnInv /\ FlagsInv /\ InheritsItsOwn
              /\ LoopInv /\ SamplesComplete

\* The invariant holds before the first launch,
LEMMA ProcessInit == AskInit => ProcessInv
<1> SUFFICES ASSUME AskInit PROVE ProcessInv
  OBVIOUS
<1> USE DEF AskInit, Init
<1>1. CliType
  BY DEF CliType, PC, ChildState, AllFds, Of, Fd
<1>2. \A l \in Launches : Held(l) = {}
  BY Member, TrackerAlone DEF Held, Owned
<1>3. OwnInv
  BY <1>2 DEF OwnInv, DescriptorsOf, ChildOf
<1>4. LockInv /\ FlagsInv
  BY NobodyAssumption DEF LockInv, FlagsInv, Plain
<1>5. InheritsItsOwn /\ LoopInv /\ SamplesComplete
  BY DEF InheritsItsOwn, LoopInv, SamplesComplete
<1>6. QED
  BY <1>1, <1>3, <1>4, <1>5 DEF ProcessInv

\* and every step keeps it.
LEMMA ProcessStep == ProcessInv /\ [AskNext]_allVars => ProcessInv'
<1> SUFFICES ASSUME ProcessInv, [AskNext]_allVars PROVE ProcessInv'
  OBVIOUS
<1>1. CliMove
  BY CliMoves DEF CliMove, allVars
<1>2. QED
  BY <1>1, CliTypeStep, LockStep, OwnStep, FlagsStep, InheritStep, LoopStep DEF ProcessInv

\* The invariant holds of the program: about its CLIs it does what ParallelAsk
\* says, or nothing.
THEOREM ProcessInvariant == LocalSpec => []ProcessInv
<1>1. LocalInit => ProcessInv
  BY ProcessInit DEF LocalInit
<1>2. ProcessInv /\ [Clis \/ Screens]_localVars => ProcessInv'
  <2> SUFFICES ASSUME ProcessInv, [Clis \/ Screens]_localVars PROVE ProcessInv'
    OBVIOUS
  <2>1. [AskNext]_allVars
    BY DEF Clis, Screens, localVars
  <2>2. QED
    BY <2>1, ProcessStep
<1>3. QED
  BY <1>1, <1>2, PTL DEF LocalSpec

\* No launch leaks a descriptor into another one's CLI.
THEOREM NothingStrayInherited == LocalSpec => []InheritsItsOwn
<1>1. ProcessInv => InheritsItsOwn
  BY DEF ProcessInv
<1>2. QED
  BY <1>1, ProcessInvariant, PTL

\* However a launch ends, nothing of it remains and nothing was closed twice.
THEOREM LaunchesLeaveNothing == LocalSpec => []NothingRemains
<1>1. ProcessInv => NothingRemains
  BY DEF ProcessInv, OwnInv, DescriptorsOf, ChildOf, Held, NothingRemains
<1>2. QED
  BY <1>1, ProcessInvariant, PTL

\* ask_many() is done with a CLI only when it has all that the CLI sent.
THEOREM AllSamplesCollected == LocalSpec => []SamplesComplete
<1>1. ProcessInv => SamplesComplete
  BY DEF ProcessInv
<1>2. QED
  BY <1>1, ProcessInvariant, PTL
----------------------------------------------------------------------------
(* The screens                                                             *)

P == INSTANCE TerminalManagerProofs WITH lock <- guard, ended <- viewsEnded

\* TerminalManagerProofs is about the same steps.
LEMMA SameSteps == T!Next => P!Next
<1>1. (\A s : T!Reverse(s) = P!Reverse(s)) /\ (\A f : T!Range(f) = P!Range(f))
  BY DEF T!Reverse, P!Reverse, T!Range, P!Range
<1>2. \A S, R : T!Bijection(S, R) = P!Bijection(S, R)
  BY DEF T!Bijection, P!Bijection, T!Injection, P!Injection, T!Surjection, P!Surjection,
     T!IsInjective, P!IsInjective
<1>3. \A S : T!Cardinality(S) = P!Cardinality(S)
  BY DEF T!Cardinality, P!Cardinality, T!IsFiniteSet, P!IsFiniteSet
<1>4. \A c : T!CloseViews(c) = P!CloseViews(c)
  BY <1>1 DEF T!CloseViews, P!CloseViews, T!Do, P!Do, T!All, P!All
<1>5. \A w : T!Teardown(w) = P!Teardown(w)
  BY <1>4 DEF T!Teardown, P!Teardown, T!Do, P!Do, T!All, P!All
<1>6. T!ScreenViews = P!ScreenViews /\ \A S : T!Orders(S) = P!Orders(S)
  BY <1>1, <1>2, <1>3 DEF T!ScreenViews, P!ScreenViews, T!Orders, P!Orders, T!Window, P!Window
<1>7. \A t, n : T!Open(t, n) => P!Open(t, n)
  BY DEF T!Open, P!Open, T!Idle, P!Idle, T!IsOpen, P!IsOpen, T!Named, P!Named,
     T!viewVars, P!viewVars
<1>8. \A t, n : T!OpenFails(t, n) => P!OpenFails(t, n)
  BY DEF T!OpenFails, P!OpenFails, T!All, P!All, T!Begin, P!Begin, T!Do, P!Do, T!Idle,
     P!Idle, T!IsOpen, P!IsOpen, T!Named, P!Named, T!tableVars, P!tableVars, T!viewVars,
     P!viewVars
<1>9. \A t : T!Rollback(t) => P!Rollback(t)
  BY DEF T!Rollback, P!Rollback, T!All, P!All, T!Arg, P!Arg, T!At, P!At, T!Done, P!Done,
     T!Instead, P!Instead, T!KillWindows, P!KillWindows, T!tableVars, P!tableVars
<1>10. \A t, w : T!CloseScreen(t, w) => P!CloseScreen(t, w)
  BY <1>5 DEF T!CloseScreen, P!CloseScreen, T!Begin, P!Begin, T!Idle, P!Idle, T!Shut,
     P!Shut, T!tmuxVars, P!tmuxVars, T!viewVars, P!viewVars
<1>11. \A t : T!CloseScreenStep(t) => P!CloseScreenStep(t)
  BY <1>5 DEF T!CloseScreenStep, P!CloseScreenStep, T!Arg, P!Arg, T!At, P!At, T!Done,
     P!Done, T!Instead, P!Instead, T!Shut, P!Shut, T!tableVars, P!tableVars, T!tmuxVars,
     P!tmuxVars, T!viewVars, P!viewVars
<1>12. \A t : T!StopProcesses(t) => P!StopProcesses(t)
  BY DEF T!StopProcesses, P!StopProcesses, T!Arg, P!Arg, T!At, P!At, T!Done, P!Done,
     T!Instead, P!Instead, T!tableVars, P!tableVars, T!viewVars, P!viewVars
<1>13. \A t : T!KillWindow(t) => P!KillWindow(t)
  BY DEF T!KillWindow, P!KillWindow, T!All, P!All, T!Arg, P!Arg, T!At, P!At, T!Done,
     P!Done, T!Instead, P!Instead, T!KillWindows, P!KillWindows, T!tableVars, P!tableVars
<1>14. \A t : T!CloseManager(t) => P!CloseManager(t)
  <2> SUFFICES ASSUME NEW t, T!CloseManager(t) PROVE P!CloseManager(t)
    OBVIOUS
  <2>1. PICK views \in T!Orders(T!ScreenViews), order \in T!Orders(screens) :
          /\ T!NewestFirst(order)
          /\ T!Begin(t, T!CloseViews(cleanups \o views)
                          \o [i \in 1..Len(order) |-> T!Do("screen", order[i])]
                          \o <<T!Do("server", 0)>>)
    BY DEF T!CloseManager
  <2>2. T!Do("server", 0) = P!Do("server", 0)
        /\ [i \in 1..Len(order) |-> T!Do("screen", order[i])]
            = [i \in 1..Len(order) |-> P!Do("screen", order[i])]
    BY DEF T!Do, P!Do, T!All, P!All
  <2>3. /\ views \in P!Orders(P!ScreenViews) /\ order \in P!Orders(screens)
        /\ P!NewestFirst(order)
    BY <1>6, <2>1 DEF T!NewestFirst, P!NewestFirst
  <2>4. P!Begin(t, P!CloseViews(cleanups \o views)
                     \o [i \in 1..Len(order) |-> P!Do("screen", order[i])]
                     \o <<P!Do("server", 0)>>)
    BY <1>4, <2>1, <2>2 DEF T!Begin, P!Begin
  <2>5. /\ P!Idle(t) /\ guard = NoThread /\ ~closed /\ closed' = TRUE /\ cleanups' = <<>>
        /\ viewers' = [w \in P!Window |-> <<>>]
        /\ UNCHANGED <<screens, name, shut, guard, P!tmuxVars, P!viewVars>>
    BY DEF T!CloseManager, T!Idle, P!Idle, T!Window, P!Window, T!tmuxVars, P!tmuxVars,
           T!viewVars, P!viewVars
  <2>6. QED
    BY <2>3, <2>4, <2>5 DEF P!CloseManager
<1>15. \A t : T!StopServer(t) => P!StopServer(t)
  BY DEF T!StopServer, P!StopServer, T!At, P!At, T!Done, P!Done, T!Instead, P!Instead,
     T!NoServer, P!NoServer, T!tableVars, P!tableVars
<1>16. T!ServerDies => P!ServerDies
  BY DEF T!ServerDies, P!ServerDies, T!NoServer, P!NoServer, T!tableVars, P!tableVars
<1>17. \A t, w : T!OpenView(t, w) => P!OpenView(t, w)
  BY DEF T!OpenView, P!OpenView, T!All, P!All, T!Begin, P!Begin, T!DoFor, P!DoFor,
     T!Idle, P!Idle, T!tableVars, P!tableVars, T!tmuxVars, P!tmuxVars
<1>18. \A t : T!CreateView(t) => P!CreateView(t)
  BY DEF T!CreateView, P!CreateView, T!All, P!All, T!Arg, P!Arg, T!At, P!At, T!Do, P!Do,
     T!DoFor, P!DoFor, T!Instead, P!Instead, T!IsOpen, P!IsOpen, T!Named, P!Named,
     T!tableVars, P!tableVars, T!tmuxVars, P!tmuxVars
<1>19. \A t : T!Serve(t) => P!Serve(t)
  BY DEF T!Serve, P!Serve, T!All, P!All, T!Arg, P!Arg, T!At, P!At, T!Do, P!Do, T!DoFor,
     P!DoFor, T!Instead, P!Instead, T!tableVars, P!tableVars, T!tmuxVars, P!tmuxVars
<1>20. \A t : T!Register(t) => P!Register(t)
  BY DEF T!Register, P!Register, T!All, P!All, T!Arg, P!Arg, T!At, P!At, T!Do, P!Do,
     T!Done, P!Done, T!Instead, P!Instead, T!IsOpen, P!IsOpen, T!Registers, P!Registers,
     T!tmuxVars, P!tmuxVars
<1>21. \A t, v : T!CloseView(t, v) => P!CloseView(t, v)
  BY DEF T!CloseView, P!CloseView, T!All, P!All, T!Begin, P!Begin, T!Do, P!Do, T!Idle,
     P!Idle, T!tableVars, P!tableVars, T!tmuxVars, P!tmuxVars, T!viewVars, P!viewVars
<1>22. \A t : T!EndView(t) => P!EndView(t)
  BY DEF T!EndView, P!EndView, T!All, P!All, T!Arg, P!Arg, T!At, P!At, T!Do, P!Do,
     T!Done, P!Done, T!Instead, P!Instead, T!tableVars, P!tableVars, T!tmuxVars,
     P!tmuxVars, T!viewVars, P!viewVars
<1>23. \A t : T!SetEnded(t) => P!SetEnded(t)
  BY DEF T!SetEnded, P!SetEnded, T!All, P!All, T!Arg, P!Arg, T!At, P!At, T!Do, P!Do,
     T!Instead, P!Instead, T!tableVars, P!tableVars, T!tmuxVars, P!tmuxVars
<1>24. \A t : T!StopTtyd(t) => P!StopTtyd(t)
  BY DEF T!StopTtyd, P!StopTtyd, T!Arg, P!Arg, T!At, P!At, T!Done, P!Done, T!Instead,
     P!Instead, T!tableVars, P!tableVars, T!tmuxVars, P!tmuxVars
<1>25. \A t : T!KillSession(t) => P!KillSession(t)
  BY DEF T!KillSession, P!KillSession, T!Arg, P!Arg, T!At, P!At, T!Done, P!Done,
     T!Instead, P!Instead, T!tableVars, P!tableVars, T!tmuxVars, P!tmuxVars
<1>26. QED
  BY <1>7, <1>8, <1>9, <1>10, <1>11, <1>12, <1>13, <1>14, <1>15, <1>16, <1>17,
   <1>18, <1>19, <1>20, <1>21, <1>22, <1>23, <1>24, <1>25
  DEF T!Next, P!Next, T!Step, P!Step, T!Window, P!Window, T!View, P!View, T!All, P!All

\* Beside the CLIs the manager keeps its invariant.
THEOREM ScreensInvariant == LocalSpec => []P!ScreenInv
<1>1. P!Sizes
  BY BoundAssumption DEF P!Sizes
<1>2. LocalInit => P!ScreenInv
  <2>1. T!Init => P!Init
    BY DEF T!Init, P!Init, T!Window, P!Window, T!View, P!View, T!All, P!All
  <2>2. P!Init => P!ScreenInv
    BY <1>1, P!ScreenInit
  <2>3. QED
    BY <2>1, <2>2 DEF LocalInit
<1>3. P!ScreenInv /\ [Clis \/ Screens]_localVars => P!ScreenInv'
  <2> SUFFICES ASSUME P!ScreenInv, [Clis \/ Screens]_localVars PROVE P!ScreenInv'
    OBVIOUS
  <2>1. P!Next \/ UNCHANGED screenVars
    BY SameSteps DEF Clis, Screens, localVars
  <2>2. UNCHANGED screenVars => UNCHANGED P!vars
    BY DEF screenVars, P!vars, P!tableVars, P!tmuxVars, P!viewVars
  <2>3. [P!Next]_(P!vars)
    BY <2>1, <2>2
  <2>4. QED
    BY <1>1, <2>3, P!ScreenStep
<1>4. QED
  BY <1>2, <1>3, PTL DEF LocalSpec

\* What it means for the properties of open(), views and close().
LEMMA ScreensFacts ==
  P!ScreenInv => OpenScreensLive /\ PageShowsItsScreen /\ NothingLeftBehind
<1> SUFFICES ASSUME P!ScreenInv PROVE OpenScreensLive /\ PageShowsItsScreen /\ NothingLeftBehind
  OBVIOUS
<1>1. P!OpenScreensLive /\ P!PageShowsItsScreen /\ P!NothingLeftBehind
  BY P!ScreenFacts, BoundAssumption DEF P!Sizes
<1>2. OpenScreensLive
  BY <1>1 DEF OpenScreensLive, T!OpenScreensLive, P!OpenScreensLive
<1>3. PageShowsItsScreen
  BY <1>1 DEF PageShowsItsScreen, T!PageShowsItsScreen, P!PageShowsItsScreen, T!Window, P!Window
<1>4. NothingLeftBehind
  BY <1>1 DEF NothingLeftBehind, T!NothingLeftBehind, P!NothingLeftBehind, T!Idle, P!Idle,
              T!All, P!All
<1>5. QED
  BY <1>2, <1>3, <1>4

\* A screen in the table has its window, whichever open() fails and cleans up
\* meanwhile, and no two screens have a name in common.
THEOREM OpenScreensStayLive == LocalSpec => []OpenScreensLive
<1>1. P!ScreenInv => OpenScreensLive
  BY ScreensFacts
<1>2. QED
  BY <1>1, ScreensInvariant, PTL

\* A page registered with a screen shows that screen, although its name may
\* have passed to another one while the page was made.
THEOREM PagesShowTheirScreens == LocalSpec => []PageShowsItsScreen
<1>1. P!ScreenInv => PageShowsItsScreen
  BY ScreensFacts
<1>2. QED
  BY <1>1, ScreensInvariant, PTL

\* When all calls have returned, in whatever order threads opened and closed
\* screens, views and the manager, nothing is left that no table knows of.
THEOREM CallsLeaveNothing == LocalSpec => []NothingLeftBehind
<1>1. P!ScreenInv => NothingLeftBehind
  BY ScreensFacts
<1>2. QED
  BY <1>1, ScreensInvariant, PTL
===============================================================================
