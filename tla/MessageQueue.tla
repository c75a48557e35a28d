---------------------------- MODULE MessageQueue ----------------------------
(***************************************************************************)
(* The system-message queue of one agy session (SystemMessageChannel and   *)
(* _deliver, antigravity/pyagy/system_messages.py): the program's threads  *)
(* leave messages in a private directory, and the hook process agy starts  *)
(* before every model invocation claims a batch, writes it to its stdout   *)
(* and records it as emitted, all under one flock.  Hooks of the main      *)
(* conversation and of its subagents run at the same time; any of them may *)
(* be killed (agy's 10 s timeout, a broken pipe), and the program may      *)
(* remove the directory under them.                                        *)
(*                                                                         *)
(* One action is one replaced file, or the flush of the hook's stdout.     *)
(***************************************************************************)
EXTENDS Integers, Sequences, FiniteSets, Functions

CONSTANTS
  Conversations,    \* agy conversation ids
  Main,             \* the conversation the program is talking to
  NoConv,           \* "no conversation": an unbound channel, a message without target
  Hooks,            \* hook processes that may run at the same time
  NoHook,           \* nobody holds the queue's flock
  Ids,              \* message ids (random in the code; numbers here, to be ordered)
  Sizes,            \* encoded sizes of a message
  MaxBatch,         \* MAX_BATCH_BYTES, in the units of Sizes
  MaxClock,         \* bound: values of time.time_ns()
  MaxKills          \* bound: hooks that die before they are done

ASSUME ConversationAssumption == Main \in Conversations /\ NoConv \notin Conversations
ASSUME HookAssumption == NoHook \notin Hooks
ASSUME IdAssumption == Ids \subseteq Nat /\ IsFiniteSet(Ids)
\* send() refuses a message that would not fit into a batch by itself.
ASSUME SizeAssumption == MaxBatch \in Nat /\ Sizes \subseteq 1..MaxBatch
ASSUME BoundAssumption == MaxClock \in Nat /\ MaxKills \in Nat

VARIABLES
  exists,       \* the queue directory exists (close() removes it)
  bound,        \* state.json: main_conversation_id
  state,        \* messages/<id>.json: "none" | "pending" | "claimed" | "emitted"
  target,       \*   its target, or NoConv
  created,      \*   its created_ns
  size,         \*   the size of its step in a batch
  clock,        \* the wall clock, which does not step back
  lock,         \* the holder of .lock
  pc,           \* where each hook is in _deliver()
  conv,         \* the conversation each hook was called for
  batch,        \* the messages of each hook's batch
  payload,      \* which ids of its ancestors this agy gives to a subagent's hook
  launched,     \* a model invocation of Main has got past its hook
  lost,         \* a hook of Main died before it could bind the channel
  kills,        \* hooks that died so far (bounded by MaxKills)
  output        \* history: [ids, to] of every batch flushed

messageVars == <<state, target, created, size>>
hookVars == <<lock, pc, conv, batch>>
nativeVars == <<payload, launched, lost, kills>>
vars == <<exists, bound, messageVars, clock, hookVars, nativeVars, output>>

----------------------------------------------------------------------------
\* A fresh channel, or one that resumes Main by its id.
Init ==
  /\ exists = TRUE /\ bound \in {NoConv, Main}
  /\ state = [i \in Ids |-> "none"] /\ target = [i \in Ids |-> NoConv]
  /\ created = [i \in Ids |-> 0] /\ size = [i \in Ids |-> 0]
  /\ clock = 0
  /\ lock = NoHook
  /\ pc = [h \in Hooks |-> "idle"] /\ conv = [h \in Hooks |-> NoConv]
  /\ batch = [h \in Hooks |-> {}]
  /\ payload \in {"root", "parent", "bare"} /\ launched = FALSE /\ lost = FALSE /\ kills = 0
  /\ output = <<>>

Tick == clock' = clock \/ (clock < MaxClock /\ clock' = clock + 1)

\* Mutant: the encoded size is not compared with the batch limit.
SendOversized(i, to, s) ==
  /\ exists /\ lock = NoHook /\ state[i] = "none"
  /\ state' = [state EXCEPT ![i] = "pending"]
  /\ target' = [target EXCEPT ![i] = to]
  /\ size' = [size EXCEPT ![i] = s + 1]
  /\ Tick
  /\ created' = [created EXCEPT ![i] = clock']
  /\ UNCHANGED <<exists, bound, hookVars, nativeVars, output>>

\* send(): the flock is taken before the clock is read and the file written.
Send(i, to, s) ==
  /\ exists /\ lock = NoHook /\ state[i] = "none"
  /\ state' = [state EXCEPT ![i] = "pending"]
  /\ target' = [target EXCEPT ![i] = to]
  /\ size' = [size EXCEPT ![i] = s]
  /\ Tick
  /\ created' = [created EXCEPT ![i] = clock']
  /\ UNCHANGED <<exists, bound, hookVars, nativeVars, output>>

\* bind_main(): the id found after a turn; a channel bound to another one makes
\* it raise, and nothing changes.
BindMain ==
  /\ exists /\ lock = NoHook /\ bound = NoConv
  /\ bound' = Main
  /\ UNCHANGED <<exists, messageVars, clock, hookVars, nativeVars, output>>

\* close(): rmtree() takes no lock; whatever hooks do afterwards to the files
\* fails.
Close ==
  /\ exists
  /\ exists' = FALSE
  /\ UNCHANGED <<bound, messageVars, clock, hookVars, nativeVars, output>>

----------------------------------------------------------------------------
(* _deliver(), in the hook's process *)

Enter(h, label) == pc' = [pc EXCEPT ![h] = label]

\* agy is about to invoke the model for c.  The main conversation is invoked
\* before it can create subagents.
Invoke(h, c) ==
  /\ pc[h] = "idle"
  /\ c # Main => launched
  /\ Enter(h, "waiting")
  /\ conv' = [conv EXCEPT ![h] = c]
  /\ UNCHANGED <<exists, bound, messageVars, clock, lock, batch, nativeVars, output>>

\* Mutant: the parent and root ids of the payload are not looked at.
LatchedFirst(c) == IF bound # NoConv THEN bound ELSE c

\* The binding a hook of c leaves in state.json.
Latched(c) == CASE bound # NoConv -> bound
                [] bound = NoConv /\ (c = Main \/ payload = "bare") -> c
                [] bound = NoConv /\ c # Main /\ payload = "root" -> Main
                [] bound = NoConv /\ c # Main /\ payload = "parent" -> NoConv

Recipient(i, main) == IF target[i] # NoConv THEN target[i] ELSE main

\* _message_order
Before(i, j) == created[i] < created[j] \/ (created[i] = created[j] /\ i < j)

Pending(c, main) == {i \in Ids : state[i] = "pending" /\ Recipient(i, main) = c}

\* The messages in front, as many as fit: the loop stops at the first that would
\* make the batch too large.
FittingPrefix(S) ==
  LET UpTo(i) == {j \in S : j = i \/ Before(j, i)}
  IN  {i \in S : \A j \in UpTo(i) : SumFunctionOnSet(size, UpTo(j)) <= MaxBatch}

\* Mutant: two hooks may be inside at once.
LoadShared(h) ==
  /\ pc[h] = "waiting" /\ exists
  /\ lock' = h
  /\ bound' = Latched(conv[h])
  /\ batch' = [batch EXCEPT ![h] = FittingPrefix(Pending(conv[h], bound'))]
  /\ Enter(h, "claiming")
  /\ UNCHANGED <<exists, messageVars, clock, conv, nativeVars, output>>

\* Mutant: a message that does not fit is passed over.
LoadSkipping(h) ==
  /\ pc[h] = "waiting" /\ exists /\ lock = NoHook
  /\ lock' = h
  /\ bound' = Latched(conv[h])
  /\ \E S \in SUBSET Pending(conv[h], bound') :
       /\ SumFunctionOnSet(size, S) <= MaxBatch
       /\ \A i \in Pending(conv[h], bound') \ S :
            SumFunctionOnSet(size, S \cup {i}) > MaxBatch
       /\ batch' = [batch EXCEPT ![h] = S]
  /\ Enter(h, "claiming")
  /\ UNCHANGED <<exists, messageVars, clock, conv, nativeVars, output>>

\* The flock is held from here on: the binding is replaced, the batch chosen.
Load(h) ==
  /\ pc[h] = "waiting" /\ exists /\ lock = NoHook
  /\ lock' = h
  /\ bound' = Latched(conv[h])
  /\ batch' = [batch EXCEPT ![h] = FittingPrefix(Pending(conv[h], bound'))]
  /\ Enter(h, "claiming")
  /\ UNCHANGED <<exists, messageVars, clock, conv, nativeVars, output>>

InFront(S, i) == i \in S /\ \A j \in S : ~Before(j, i)

\* One more message of the batch is claimed.
Claim(h) ==
  /\ pc[h] = "claiming" /\ exists
  /\ \E i \in batch[h] :
       /\ InFront({j \in batch[h] : state[j] = "pending"}, i)
       /\ state' = [state EXCEPT ![i] = "claimed"]
  /\ UNCHANGED <<exists, bound, target, created, size, clock, hookVars, nativeVars, output>>

\* Mutant: the steps are written before their messages are claimed.
FlushFirst(h) ==
  /\ pc[h] = "claiming"
  /\ output' = IF batch[h] = {} THEN output
               ELSE Append(output, [ids |-> batch[h], to |-> conv[h]])
  /\ Enter(h, "marking")
  /\ UNCHANGED <<exists, bound, messageVars, clock, lock, conv, batch, nativeVars>>

\* All are: the batch goes to stdout, where agy reads it.
Flush(h) ==
  /\ pc[h] = "claiming" /\ \A i \in batch[h] : state[i] = "claimed"
  /\ output' = IF batch[h] = {} THEN output
               ELSE Append(output, [ids |-> batch[h], to |-> conv[h]])
  /\ Enter(h, "marking")
  /\ UNCHANGED <<exists, bound, messageVars, clock, lock, conv, batch, nativeVars>>

Mark(h) ==
  /\ pc[h] = "marking" /\ exists
  /\ \E i \in batch[h] :
       /\ InFront({j \in batch[h] : state[j] # "emitted"}, i)
       /\ state' = [state EXCEPT ![i] = "emitted"]
  /\ UNCHANGED <<exists, bound, target, created, size, clock, hookVars, nativeVars, output>>

Leave(h) ==
  /\ lock' = IF lock = h THEN NoHook ELSE lock
  /\ Enter(h, "idle")
  /\ conv' = [conv EXCEPT ![h] = NoConv]
  /\ batch' = [batch EXCEPT ![h] = {}]
  /\ launched' = (launched \/ conv[h] = Main)

\* The hook is over, and agy invokes the model.
Finish(h) ==
  /\ pc[h] = "marking" /\ \A i \in batch[h] : state[i] = "emitted"
  /\ Leave(h)
  /\ UNCHANGED <<exists, bound, messageVars, clock, payload, lost, kills, output>>

\* Opening .lock or replacing a file fails once the directory is gone.
Fail(h) ==
  /\ ~exists
  /\ \/ pc[h] = "waiting"
     \/ pc[h] = "claiming" /\ \E i \in batch[h] : state[i] = "pending"
     \/ pc[h] = "marking" /\ \E i \in batch[h] : state[i] # "emitted"
  /\ Leave(h)
  /\ UNCHANGED <<exists, bound, messageVars, clock, payload, lost, kills, output>>

\* A timeout of agy, or a stdout nobody reads: the flock goes with the process
\* and claimed messages stay claimed.
Kill(h) ==
  /\ pc[h] # "idle" /\ kills < MaxKills
  /\ Leave(h)
  /\ kills' = kills + 1
  /\ lost' = (lost \/ (pc[h] = "waiting" /\ conv[h] = Main /\ bound = NoConv))
  /\ UNCHANGED <<exists, bound, messageVars, clock, payload, output>>

----------------------------------------------------------------------------
HookStep(h) == Claim(h) \/ Flush(h) \/ Mark(h) \/ Finish(h) \/ Fail(h)

Next ==
  \/ \E i \in Ids, to \in Conversations \cup {NoConv}, s \in Sizes : Send(i, to, s)
  \/ BindMain \/ Close
  \/ \E h \in Hooks : \/ \E c \in Conversations : Invoke(h, c)
                      \/ Load(h) \/ HookStep(h) \/ Kill(h)

\* Hooks run, none waits for the flock for ever, and agy keeps invoking the
\* model for the main conversation (strongly fair: only the bound on Hooks can
\* make an invocation wait).
Fairness == /\ \A h \in Hooks : SF_vars(Load(h)) /\ WF_vars(HookStep(h))
            /\ SF_vars(\E h \in Hooks : Invoke(h, Main))

Spec == Init /\ [][Next]_vars /\ Fairness

----------------------------------------------------------------------------
\* Type invariant of the queue's files, its hooks and the history.
TypeOK ==
  /\ exists \in BOOLEAN /\ bound \in Conversations \cup {NoConv}
  /\ state \in [Ids -> {"none", "pending", "claimed", "emitted"}]
  /\ target \in [Ids -> Conversations \cup {NoConv}]
  /\ created \in [Ids -> 0..MaxClock] /\ size \in [Ids -> Sizes \cup {0}]
  /\ clock \in 0..MaxClock
  /\ lock \in Hooks \cup {NoHook}
  /\ pc \in [Hooks -> {"idle", "waiting", "claiming", "marking"}]
  /\ conv \in [Hooks -> Conversations \cup {NoConv}]
  /\ batch \in [Hooks -> SUBSET Ids]
  /\ payload \in {"root", "parent", "bare"} /\ launched \in BOOLEAN /\ lost \in BOOLEAN
  /\ kills \in 0..MaxKills
  /\ output \in Seq([ids : SUBSET Ids, to : Conversations])

Flushed == UNION {output[n].ids : n \in 1..Len(output)}

\* No message is given to agy twice, whichever hooks run at the same time and
\* wherever they are killed (class docstring: "not retried automatically,
\* because its stdout may already have reached agy").
AtMostOnce ==
  \A m, n \in 1..Len(output) : m # n => output[m].ids \cap output[n].ids = {}

\* What status() answers is true: a pending message has not been given to agy,
\* an emitted one has.
HonestStatus == \A i \in Ids : /\ state[i] = "pending" => i \notin Flushed
                               /\ state[i] = "emitted" => i \in Flushed

\* A message reaches the conversation it was sent to, and one without target
\* the conversation the channel is bound to.
RightRecipient ==
  \A n \in 1..Len(output) : \A i \in output[n].ids :
    output[n].to = Recipient(i, bound)

\* Messages do not overtake each other: what a hook has taken for its
\* conversation comes before all that it leaves pending there, whatever their
\* sizes, whoever was killed before it and whichever hook took the rest
\* (_message_order, and the batch limit that ends a batch early).
InOrder ==
  \A h \in Hooks : lock = h =>
    \A i \in batch[h], j \in Pending(conv[h], bound) \ batch[h] : Before(i, j)

\* The channel is bound to the conversation of the program, never to a subagent,
\* unless the hook that would have bound it was killed while it waited and agy
\* leaves all other ids out ("A main model invocation precedes any subagent").
BindsMain == bound \in {NoConv, Main} \/ (lost /\ payload = "bare")

\* A message for the main conversation does not stay pending while the model is
\* invoked again and again, however many messages are in front of it.
MainMessagesLeaveTheQueue ==
  \A i \in Ids : state[i] = "pending" /\ target[i] = Main
                   ~> state[i] # "pending" \/ ~exists
=============================================================================
