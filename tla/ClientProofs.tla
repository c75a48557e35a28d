---------------------------- MODULE ClientProofs ----------------------------
(***************************************************************************)
(* Theorems about the two ways between a client and its CLI: the messages  *)
(* that reach a running agy (MessageQueue), and the turns that come home   *)
(* (TurnDecode, AskClient).  The two share no state.                       *)
(*                                                                         *)
(* Messages, for any number of them and of conversations, hooks and hook   *)
(* deaths: at-most-once delivery rests on the flock and on claiming a      *)
(* message before it is written.                                           *)
(*                                                                         *)
(* Turns, for any number of calls, events per response and remembered      *)
(* requests: the decoder's invariant says which response each accumulator  *)
(* is of and that it holds all of it that was told; the client's, how much *)
(* of what was recorded each response has brought, by the stream or by the *)
(* file.                                                                   *)
(***************************************************************************)
EXTENDS MessageQueue, AskClient,
        SequenceTheorems, FiniteSetTheorems, WellFoundedInduction, TLAPS

----------------------------------------------------------------------------
(* The message queue.                                                      *)

Inside(h) == pc[h] \in {"claiming", "marking"}

\* Only the holder of the flock is past it.
LockInv == \A h \in Hooks : Inside(h) => lock = h

\* What a hook has in hand: claimed or about to be, addressed to it, and given
\* to agy exactly when it is past the flush.
BatchInv ==
  \A h \in Hooks :
    /\ pc[h] # "idle" => conv[h] \in Conversations
    /\ pc[h] = "claiming" =>
         \A i \in batch[h] : /\ state[i] \in {"pending", "claimed"}
                             /\ i \notin Flushed
                             /\ Recipient(i, bound) = conv[h]
    /\ pc[h] = "marking" => batch[h] \subseteq Flushed

\* What agy was given is never pending again.
FlushInv == \A i \in Flushed : state[i] \in {"claimed", "emitted"}

IInv == /\ TypeOK
        /\ LockInv
        /\ BatchInv
        /\ FlushInv
        /\ AtMostOnce
        /\ HonestStatus
        /\ RightRecipient

----------------------------------------------------------------------------
\* A batch is taken from the messages that are pending for the conversation.
LEMMA PrefixIsPending ==
  ASSUME NEW c, NEW m
  PROVE  /\ FittingPrefix(Pending(c, m)) \subseteq Ids
         /\ \A i \in FittingPrefix(Pending(c, m)) :
              state[i] = "pending" /\ Recipient(i, m) = c
  BY DEF FittingPrefix, Pending

\* What a flush adds to the history.
LEMMA FlushedAppend ==
  ASSUME TypeOK, NEW S \in SUBSET Ids, NEW c \in Conversations,
         output' = Append(output, [ids |-> S, to |-> c])
  PROVE  /\ output' \in Seq([ids : SUBSET Ids, to : Conversations])
         /\ Len(output') = Len(output) + 1
         /\ \A n \in 1..Len(output) : output'[n] = output[n]
         /\ output'[Len(output) + 1] = [ids |-> S, to |-> c]
         /\ Flushed' = Flushed \cup S
<1>1. /\ output' \in Seq([ids : SUBSET Ids, to : Conversations])
      /\ Len(output') = Len(output) + 1
      /\ \A n \in 1..Len(output) : output'[n] = output[n]
      /\ output'[Len(output) + 1] = [ids |-> S, to |-> c]
      /\ Len(output) \in Nat
  BY DEF TypeOK
<1>2. ASSUME NEW i, i \in Flushed' PROVE i \in Flushed \cup S
  <2>1. PICK n \in 1..Len(output') : i \in output'[n].ids
    BY <1>2 DEF Flushed
  <2>2. CASE n = Len(output) + 1
    BY <2>1, <2>2, <1>1
  <2>3. CASE n \in 1..Len(output)
    BY <2>1, <2>3, <1>1 DEF Flushed
  <2>4. QED
    BY <2>2, <2>3, <1>1
<1>3. ASSUME NEW i \in Flushed PROVE i \in Flushed'
  <2>1. PICK n \in 1..Len(output) : i \in output[n].ids
    BY <1>3 DEF Flushed
  <2>2. n \in 1..Len(output') /\ i \in output'[n].ids
    BY <2>1, <1>1
  <2>3. QED
    BY <2>2 DEF Flushed
<1>4. S \subseteq Flushed'
  <2>1. Len(output') \in 1..Len(output') /\ output'[Len(output')].ids = S
    BY <1>1
  <2>2. QED
    BY <2>1 DEF Flushed
<1>5. QED
  BY <1>1, <1>2, <1>3, <1>4

\* What the history is made of.
LEMMA OutputType ==
  ASSUME TypeOK
  PROVE  /\ \A n \in 1..Len(output) : output[n].ids \subseteq Ids
                                   /\ output[n].to \in Conversations
         /\ Flushed \subseteq Ids
<1>1. \A n \in 1..Len(output) : output[n] \in [ids : SUBSET Ids, to : Conversations]
  <2>1. output \in Seq([ids : SUBSET Ids, to : Conversations])
    BY DEF TypeOK
  <2>2. QED
    BY <2>1, ElementOfSeq
<1>2. \A n \in 1..Len(output) : output[n].ids \subseteq Ids /\ output[n].to \in Conversations
  BY <1>1
<1>3. QED
  <2>1. SUFFICES ASSUME NEW i \in Flushed PROVE i \in Ids
    BY <1>2
  <2>2. PICK n \in 1..Len(output) : i \in output[n].ids
    BY DEF Flushed
  <2>3. QED
    BY <2>2, <1>2

----------------------------------------------------------------------------
LEMMA InitInv == Init => IInv
<1> SUFFICES ASSUME Init PROVE IInv
  OBVIOUS
<1>1. TypeOK
  <2>1. <<>> \in Seq([ids : SUBSET Ids, to : Conversations])
    OBVIOUS
  <2>2. 0 \in 0..MaxClock /\ 0 \in 0..MaxKills
    BY BoundAssumption
  <2>3. QED
    BY <2>1, <2>2, ConversationAssumption DEF Init, TypeOK
<1>2. Flushed = {} /\ Len(output) = 0
  BY DEF Init, Flushed
<1>3. QED
  BY <1>1, <1>2 DEF Init, IInv, LockInv, Inside, BatchInv, FlushInv, AtMostOnce,
                    HonestStatus, RightRecipient

LEMMA TypeStep == TypeOK /\ BatchInv /\ [Next]_vars => TypeOK'
<1> SUFFICES ASSUME TypeOK, BatchInv, [Next]_vars PROVE TypeOK'
  OBVIOUS
<1> USE ConversationAssumption, HookAssumption, BoundAssumption DEF TypeOK
<1>1. ASSUME NEW i \in Ids, NEW to \in Conversations \cup {NoConv}, NEW s \in Sizes,
             Send(i, to, s)
      PROVE  TypeOK'
  <2>1. clock' \in 0..MaxClock
    BY <1>1 DEF Send, Tick
  <2>2. QED
    BY <1>1, <2>1 DEF Send, hookVars, nativeVars
<1>2. CASE BindMain
  BY <1>2 DEF BindMain, messageVars, hookVars, nativeVars
<1>3. CASE Close
  BY <1>3 DEF Close, messageVars, hookVars, nativeVars
<1>4. ASSUME NEW h \in Hooks, NEW c \in Conversations, Invoke(h, c) PROVE TypeOK'
  BY <1>4 DEF Invoke, Enter, messageVars, nativeVars
<1>5. ASSUME NEW h \in Hooks, Load(h) PROVE TypeOK'
  <2>1. bound' \in Conversations \cup {NoConv}
    BY <1>5 DEF Load, Latched
  <2>2. batch' \in [Hooks -> SUBSET Ids]
    BY <1>5, PrefixIsPending DEF Load
  <2>3. QED
    BY <1>5, <2>1, <2>2 DEF Load, Enter, messageVars, nativeVars
<1>6. ASSUME NEW h \in Hooks, Claim(h) \/ Mark(h) PROVE TypeOK'
  BY <1>6 DEF Claim, Mark, hookVars, nativeVars
<1>7. ASSUME NEW h \in Hooks, Flush(h) PROVE TypeOK'
  <2>1. conv[h] \in Conversations /\ batch[h] \in SUBSET Ids
    BY <1>7 DEF Flush, BatchInv
  <2>2. output' \in Seq([ids : SUBSET Ids, to : Conversations])
    BY <1>7, <2>1, FlushedAppend DEF Flush
  <2>3. QED
    BY <1>7, <2>2 DEF Flush, Enter, messageVars, nativeVars
<1>8. ASSUME NEW h \in Hooks, Finish(h) \/ Fail(h) \/ Kill(h) PROVE TypeOK'
  <2>1. /\ Leave(h) /\ UNCHANGED <<exists, bound, messageVars, clock, payload, output>>
        /\ kills' \in 0..MaxKills
    BY <1>8 DEF Finish, Fail, Kill
  <2>2. lost' \in BOOLEAN /\ launched' \in BOOLEAN
    BY <1>8, Zenon DEF Finish, Fail, Kill, Leave
  <2>3. /\ lock' \in Hooks \cup {NoHook} /\ batch' \in [Hooks -> SUBSET Ids]
        /\ pc' \in [Hooks -> {"idle", "waiting", "claiming", "marking"}]
        /\ conv' \in [Hooks -> Conversations \cup {NoConv}]
    BY <2>1 DEF Leave, Enter
  <2>4. QED
    BY <2>1, <2>2, <2>3 DEF messageVars
<1>9. CASE UNCHANGED vars
  BY <1>9 DEF vars, messageVars, hookVars, nativeVars
<1>10. QED
  BY <1>1, <1>2, <1>3, <1>4, <1>5, <1>6, <1>7, <1>8, <1>9 DEF Next, HookStep

\* The steps that leave the history, the binding and the messages alone.
LEMMA QuietStep ==
  ASSUME IInv, UNCHANGED <<output, bound, target, state>>
  PROVE  (FlushInv /\ AtMostOnce /\ HonestStatus /\ RightRecipient)'
  BY DEF IInv, FlushInv, AtMostOnce, HonestStatus, RightRecipient, Flushed, Recipient

LEMMA SendStep ==
  ASSUME IInv, NEW i \in Ids, NEW to \in Conversations \cup {NoConv}, NEW s \in Sizes,
         Send(i, to, s)
  PROVE  (LockInv /\ BatchInv /\ FlushInv /\ AtMostOnce /\ HonestStatus /\ RightRecipient)'
<1> USE DEF IInv
<1>1. /\ \A h \in Hooks : ~Inside(h)
      /\ Flushed' = Flushed /\ i \notin Flushed
      /\ UNCHANGED <<pc, lock, conv, batch, output, bound>>
  BY HookAssumption DEF Send, LockInv, FlushInv, Flushed, hookVars
<1>2. \A j \in Ids \ {i} : state'[j] = state[j] /\ target'[j] = target[j]
  BY DEF Send, TypeOK
<1>3. state'[i] = "pending"
  BY DEF Send, TypeOK
<1>4. Flushed \subseteq Ids
  BY OutputType
<1>5. (LockInv /\ BatchInv)'
  BY <1>1 DEF LockInv, BatchInv, Inside
<1>6. (FlushInv /\ HonestStatus /\ AtMostOnce)'
  BY <1>1, <1>2, <1>3, <1>4 DEF FlushInv, HonestStatus, AtMostOnce
<1>7. RightRecipient'
  <2>1. SUFFICES ASSUME NEW n \in 1..Len(output), NEW j \in output[n].ids
                 PROVE  output[n].to = Recipient(j, bound)'
    BY <1>1 DEF RightRecipient
  <2>2. j \in Flushed
    BY DEF Flushed
  <2>3. QED
    BY <2>1, <2>2, <1>1, <1>2, <1>4 DEF RightRecipient, Recipient
<1>8. QED
  BY <1>5, <1>6, <1>7

\* Once the channel is bound, the binding stays.
LEMMA BindingStays ==
  ASSUME IInv, bound = NoConv \/ bound' = bound, UNCHANGED <<target, output>>,
         NEW j \in Ids, NEW c \in Conversations, Recipient(j, bound) = c
  PROVE  Recipient(j, bound)' = c
  BY ConversationAssumption DEF Recipient

LEMMA BindStep ==
  ASSUME IInv, bound = NoConv \/ bound' = bound,
         UNCHANGED <<state, target, output>>
  PROVE  (FlushInv /\ AtMostOnce /\ HonestStatus /\ RightRecipient)'
<1> USE DEF IInv
<1>1. (FlushInv /\ AtMostOnce /\ HonestStatus)'
  BY DEF FlushInv, AtMostOnce, HonestStatus, Flushed
<1>2. RightRecipient'
  <2>1. SUFFICES ASSUME NEW n \in 1..Len(output), NEW j \in output[n].ids
                 PROVE  output[n].to = Recipient(j, bound)'
    BY DEF RightRecipient
  <2>2. output[n].to \in Conversations /\ j \in Ids
    BY OutputType
  <2>3. Recipient(j, bound) = output[n].to
    BY DEF RightRecipient
  <2>4. QED
    BY <2>2, <2>3, BindingStays
<1>3. QED
  BY <1>1, <1>2

LEMMA LoadStep ==
  ASSUME IInv, NEW h \in Hooks, Load(h)
  PROVE  (LockInv /\ BatchInv /\ FlushInv /\ AtMostOnce /\ HonestStatus /\ RightRecipient)'
<1> USE DEF IInv
<1>1. /\ \A g \in Hooks : ~Inside(g)
      /\ UNCHANGED <<state, target, output, conv>>
      /\ Flushed' = Flushed
      /\ lock' = h /\ pc' = [pc EXCEPT ![h] = "claiming"]
      /\ conv[h] \in Conversations
  BY HookAssumption DEF Load, Enter, LockInv, BatchInv, Flushed, messageVars
<1>2. bound = NoConv \/ bound' = bound
  BY DEF Load, Latched
<1>3. \A g \in Hooks : Inside(g)' => g = h
  BY <1>1 DEF Inside, TypeOK
<1>4. \A i \in batch'[h] : state[i] = "pending" /\ Recipient(i, bound') = conv[h]
  BY PrefixIsPending DEF Load, TypeOK
<1>5. \A i : Recipient(i, bound)' = Recipient(i, bound')
  BY <1>1 DEF Recipient
<1>6. \A g \in Hooks : pc'[g] # "idle" => conv'[g] \in Conversations
  BY <1>1 DEF BatchInv, TypeOK
<1>7. \A i \in batch'[h] : i \notin Flushed
  BY <1>4 DEF FlushInv
<1>8. LockInv'
  BY <1>1, <1>3 DEF LockInv
<1>9. pc'[h] = "claiming"
  BY <1>1 DEF TypeOK
<1>10. BatchInv'
  BY <1>1, <1>3, <1>4, <1>5, <1>6, <1>7, <1>9 DEF BatchInv, Inside
<1>11. QED
  BY <1>1, <1>2, <1>8, <1>10, BindStep

LEMMA BindMainStep ==
  ASSUME IInv, BindMain
  PROVE  (LockInv /\ BatchInv /\ FlushInv /\ AtMostOnce /\ HonestStatus /\ RightRecipient)'
<1> USE DEF IInv
<1>1. /\ \A g \in Hooks : ~Inside(g)
      /\ UNCHANGED <<state, target, output, conv, pc, lock, batch>>
  BY HookAssumption DEF BindMain, LockInv, messageVars, hookVars
<1>2. (LockInv /\ BatchInv)'
  BY <1>1 DEF LockInv, BatchInv, Inside
<1>3. bound = NoConv
  BY DEF BindMain
<1>4. QED
  BY <1>1, <1>2, <1>3, BindStep

\* Steps of a hook that leave the messages and the history alone.
LEMMA HookOnlyStep ==
  ASSUME IInv, NEW h \in Hooks,
         UNCHANGED <<state, target, output, bound>>,
         \/ \E c \in Conversations : Invoke(h, c)
         \/ Leave(h)
  PROVE  (LockInv /\ BatchInv /\ FlushInv /\ AtMostOnce /\ HonestStatus /\ RightRecipient)'
<1> USE DEF IInv
<1>1. /\ ~Inside(h)'
      /\ \A g \in Hooks \ {h} : /\ pc'[g] = pc[g] /\ conv'[g] = conv[g]
                               /\ batch'[g] = batch[g]
      /\ Flushed' = Flushed
      /\ \A i : Recipient(i, bound)' = Recipient(i, bound)
  BY DEF Invoke, Leave, Enter, Inside, TypeOK, Flushed, Recipient
<1>2. pc'[h] # "idle" => conv'[h] \in Conversations
  BY DEF Invoke, Leave, Enter, TypeOK
<1>3. \A g \in Hooks : g # h /\ lock = g => lock' = g
  BY DEF Invoke, Leave
<1>4. LockInv'
  BY <1>1, <1>3 DEF LockInv, Inside
<1>5. BatchInv'
  BY <1>1, <1>2 DEF BatchInv, Inside
<1>6. QED
  BY <1>4, <1>5, QuietStep

LEMMA StateStep ==
  ASSUME IInv, NEW h \in Hooks, Claim(h) \/ Mark(h)
  PROVE  (LockInv /\ BatchInv /\ FlushInv /\ AtMostOnce /\ HonestStatus /\ RightRecipient)'
<1> USE DEF IInv
<1>1. /\ UNCHANGED <<output, target, bound, lock, pc, conv, batch>>
      /\ Flushed' = Flushed
      /\ Inside(h)
      /\ Flushed \subseteq Ids
  BY OutputType DEF Claim, Mark, Flushed, hookVars, Inside
<1>2. PICK i \in batch[h] :
        \/ /\ pc[h] = "claiming" /\ state' = [state EXCEPT ![i] = "claimed"]
        \/ /\ pc[h] = "marking" /\ state' = [state EXCEPT ![i] = "emitted"]
  BY DEF Claim, Mark
<1>3. /\ i \in Ids
      /\ \A j \in Ids : j # i => state'[j] = state[j]
      /\ pc[h] = "claiming" => state'[i] = "claimed" /\ i \notin Flushed
      /\ pc[h] = "marking" => state'[i] = "emitted" /\ i \in Flushed
  BY <1>2 DEF TypeOK, BatchInv
<1>4. \A g \in Hooks : Inside(g) => g = h
  BY <1>1 DEF LockInv
<1>5. \A j : Recipient(j, bound)' = Recipient(j, bound)
  BY <1>1 DEF Recipient
<1>6. BatchInv'
  <2>1. \A g \in Hooks : batch[g] \subseteq Ids
    BY DEF TypeOK
  <2>2. QED
    BY <1>1, <1>2, <1>3, <1>4, <1>5, <2>1 DEF BatchInv, Inside
<1>7. LockInv' /\ AtMostOnce' /\ RightRecipient'
  BY <1>1, <1>5 DEF LockInv, Inside, AtMostOnce, RightRecipient
<1>8. FlushInv' /\ HonestStatus'
  BY <1>1, <1>2, <1>3 DEF FlushInv, HonestStatus
<1>9. QED
  BY <1>6, <1>7, <1>8

LEMMA FlushStep ==
  ASSUME IInv, NEW h \in Hooks, Flush(h)
  PROVE  (LockInv /\ BatchInv /\ FlushInv /\ AtMostOnce /\ HonestStatus /\ RightRecipient)'
<1> USE DEF IInv
<1>1. /\ UNCHANGED <<state, target, bound, lock, conv, batch>>
      /\ pc[h] = "claiming" /\ pc'[h] = "marking"
      /\ \A g \in Hooks \ {h} : pc'[g] = pc[g]
      /\ conv[h] \in Conversations /\ batch[h] \in SUBSET Ids
      /\ \A i : Recipient(i, bound)' = Recipient(i, bound)
  BY DEF Flush, Enter, TypeOK, BatchInv, messageVars, Recipient
<1>2. \A g \in Hooks : Inside(g) => g = h
  BY <1>1 DEF LockInv, Inside
<1>3. \A i \in batch[h] : /\ state[i] = "claimed" /\ i \notin Flushed
                          /\ Recipient(i, bound) = conv[h]
  BY <1>1 DEF Flush, BatchInv
<1>4. Flushed' = Flushed \cup batch[h]
  <2>1. CASE batch[h] = {}
    BY <2>1 DEF Flush, Flushed
  <2>2. CASE batch[h] # {}
    BY <2>2, <1>1, FlushedAppend DEF Flush
  <2>3. QED
    BY <2>1, <2>2
<1>5. LockInv' /\ BatchInv'
  BY <1>1, <1>2, <1>4 DEF LockInv, BatchInv, Inside
<1>6. FlushInv' /\ HonestStatus'
  BY <1>1, <1>3, <1>4 DEF FlushInv, HonestStatus
<1>7. AtMostOnce' /\ RightRecipient'
  <2>1. CASE batch[h] = {}
    BY <2>1, <1>1 DEF Flush, AtMostOnce, RightRecipient
  <2>2. CASE batch[h] # {}
    <3>1. /\ Len(output') = Len(output) + 1
          /\ \A n \in 1..Len(output) : output'[n] = output[n]
          /\ output'[Len(output) + 1].ids = batch[h]
          /\ output'[Len(output) + 1].to = conv[h]
      BY <2>2, <1>1, FlushedAppend DEF Flush
    <3>2. \A n \in 1..Len(output') : n \in 1..Len(output) \/ n = Len(output) + 1
      <4>1. Len(output) \in Nat
        BY DEF TypeOK
      <4>2. QED
        BY <3>1, <4>1
    <3>3. \A n \in 1..Len(output) : output[n].ids \cap batch[h] = {}
      BY <1>3 DEF Flushed
    <3>4. AtMostOnce'
      BY <3>1, <3>2, <3>3 DEF AtMostOnce
    <3>5. RightRecipient'
      BY <3>1, <3>2, <1>1, <1>3 DEF RightRecipient
    <3>6. QED
      BY <3>4, <3>5
  <2>3. QED
    BY <2>1, <2>2
<1>8. QED
  BY <1>5, <1>6, <1>7

LEMMA InvStep == IInv /\ [Next]_vars => IInv'
<1> SUFFICES ASSUME IInv, [Next]_vars PROVE IInv'
  OBVIOUS
<1>0. TypeOK'
  BY TypeStep DEF IInv
<1> DEFINE Rest == LockInv /\ BatchInv /\ FlushInv /\ AtMostOnce /\ HonestStatus
                     /\ RightRecipient
<1> SUFFICES Rest'
  BY <1>0 DEF IInv
<1>1. ASSUME NEW i \in Ids, NEW to \in Conversations \cup {NoConv}, NEW s \in Sizes,
             Send(i, to, s)
      PROVE  Rest'
  BY <1>1, SendStep
<1>2. CASE BindMain
  BY <1>2, BindMainStep
<1>3. CASE Close \/ UNCHANGED vars
  <2>1. UNCHANGED <<state, target, output, bound, lock, pc, conv, batch>>
    BY <1>3 DEF Close, vars, messageVars, hookVars
  <2>2. (LockInv /\ BatchInv)'
    BY <2>1 DEF IInv, LockInv, BatchInv, Inside, Flushed, Recipient
  <2>3. QED
    BY <2>1, <2>2, QuietStep
<1>4. ASSUME NEW h \in Hooks, NEW c \in Conversations, Invoke(h, c) PROVE Rest'
  <2>1. UNCHANGED <<state, target, output, bound>>
    BY <1>4 DEF Invoke, messageVars
  <2>2. QED
    BY <1>4, <2>1, HookOnlyStep
<1>5. ASSUME NEW h \in Hooks, Finish(h) \/ Fail(h) \/ Kill(h) PROVE Rest'
  <2>1. UNCHANGED <<state, target, output, bound>> /\ Leave(h)
    BY <1>5 DEF Finish, Fail, Kill, messageVars
  <2>2. QED
    BY <2>1, HookOnlyStep
<1>6. ASSUME NEW h \in Hooks, Load(h) PROVE Rest'
  BY <1>6, LoadStep
<1>7. ASSUME NEW h \in Hooks, Claim(h) \/ Mark(h) PROVE Rest'
  BY <1>7, StateStep
<1>8. ASSUME NEW h \in Hooks, Flush(h) PROVE Rest'
  BY <1>8, FlushStep
<1>9. QED
  BY <1>1, <1>2, <1>3, <1>4, <1>5, <1>6, <1>7, <1>8 DEF Next, HookStep

----------------------------------------------------------------------------
\* The invariant of the queue directory, its hooks and what agy was given.
THEOREM QueueInvariant == Spec => []IInv
  BY InitInv, InvStep, PTL DEF Spec

\* The files of the queue and the hooks' variables stay well formed, and no
\* message larger than a batch ever enters the queue (send, _message).
THEOREM QueueTypeCorrect == Spec => []TypeOK
<1>1. IInv => TypeOK
  BY DEF IInv
<1>2. QED
  BY QueueInvariant, <1>1, PTL

\* No message reaches agy's input twice, however many hooks run at once and
\* wherever they die (_deliver: claim, flush, mark).
THEOREM DeliveredAtMostOnce == Spec => []AtMostOnce
<1>1. IInv => AtMostOnce
  BY DEF IInv
<1>2. QED
  BY QueueInvariant, <1>1, PTL

\* status() never calls a message pending that agy was given, nor emitted one
\* that it was not (status, _deliver).
THEOREM StatusIsHonest == Spec => []HonestStatus
<1>1. IInv => HonestStatus
  BY DEF IInv
<1>2. QED
  BY QueueInvariant, <1>1, PTL

\* Messages without a target go to one conversation only, whenever the channel
\* is bound and by whom (_deliver, bind_main).
THEOREM OneRecipient == Spec => []RightRecipient
<1>1. IInv => RightRecipient
  BY DEF IInv
<1>2. QED
  BY QueueInvariant, <1>1, PTL

----------------------------------------------------------------------------
(* The binding.                                                            *)

\* A subagent's hook runs only after a hook of the main conversation, and that
\* one has bound the channel unless it died waiting.
BindingInv ==
  /\ exists /\ launched => bound # NoConv \/ lost
  /\ \A h \in Hooks : /\ pc[h] # "idle" /\ conv[h] # Main => launched
                      /\ Inside(h) /\ conv[h] = Main => bound # NoConv
  /\ BindsMain

LEMMA BindingStep == TypeOK /\ TypeOK' /\ BindingInv /\ [Next]_vars => BindingInv'
<1> SUFFICES ASSUME TypeOK, TypeOK', BindingInv, [Next]_vars PROVE BindingInv'
  OBVIOUS
<1> USE ConversationAssumption DEF BindingInv, BindsMain, Inside
<1>1. ASSUME NEW i \in Ids, NEW to \in Conversations \cup {NoConv}, NEW s \in Sizes,
             Send(i, to, s)
      PROVE  BindingInv'
  BY <1>1 DEF Send, hookVars, nativeVars
<1>2. CASE BindMain \/ Close
  BY <1>2 DEF BindMain, Close, hookVars, nativeVars
<1>3. ASSUME NEW h \in Hooks, NEW c \in Conversations, Invoke(h, c) PROVE BindingInv'
  <2>1. /\ pc' = [pc EXCEPT ![h] = "waiting"] /\ conv' = [conv EXCEPT ![h] = c]
        /\ c # Main => launched
        /\ UNCHANGED <<exists, bound, nativeVars>>
    BY <1>3 DEF Invoke, Enter
  <2>2. QED
    BY <2>1 DEF TypeOK, nativeVars
<1>4. ASSUME NEW h \in Hooks, Load(h) PROVE BindingInv'
  <2>1. /\ exists /\ exists' = exists
        /\ pc' = [pc EXCEPT ![h] = "claiming"] /\ conv' = conv
        /\ bound' = Latched(conv[h])
        /\ pc[h] = "waiting"
        /\ UNCHANGED nativeVars
    BY <1>4 DEF Load, Enter
  <2>2. /\ bound # NoConv => bound' = bound
        /\ conv[h] = Main => bound' # NoConv
    BY <2>1 DEF Latched
  <2>3. BindsMain'
    <3>1. CASE bound # NoConv
      BY <3>1, <2>1, <2>2 DEF nativeVars
    <3>2. CASE bound = NoConv /\ conv[h] = Main
      BY <3>2, <2>1 DEF Latched
    <3>3. CASE bound = NoConv /\ conv[h] # Main
      <4>1. lost
        BY <3>3, <2>1
      <4>2. bound' \in {NoConv, Main} \/ payload = "bare"
        BY <3>3, <2>1 DEF Latched, TypeOK
      <4>3. QED
        BY <4>1, <4>2, <2>1 DEF nativeVars
    <3>4. QED
      BY <3>1, <3>2, <3>3
  <2>4. QED
    BY <2>1, <2>2, <2>3 DEF TypeOK, nativeVars
<1>5. ASSUME NEW h \in Hooks, Claim(h) \/ Mark(h) PROVE BindingInv'
  BY <1>5 DEF Claim, Mark, hookVars, nativeVars
<1>6. ASSUME NEW h \in Hooks, Flush(h) PROVE BindingInv'
  BY <1>6 DEF Flush, Enter, TypeOK, nativeVars
<1>7. ASSUME NEW h \in Hooks, Finish(h) \/ Fail(h) \/ Kill(h) PROVE BindingInv'
  <2>1. /\ pc' = [pc EXCEPT ![h] = "idle"] /\ conv' = [conv EXCEPT ![h] = NoConv]
        /\ launched' <=> (launched \/ conv[h] = Main)
        /\ UNCHANGED <<exists, bound, payload>>
    BY <1>7, Zenon DEF Finish, Fail, Kill, Leave, Enter
  <2>2. lost => lost'
    BY <1>7, Zenon DEF Finish, Fail, Kill
  <2>3. conv[h] = Main /\ exists => bound # NoConv \/ lost'
    <3>1. CASE pc[h] = "waiting"
      BY <3>1, <1>7, Zenon DEF Finish, Fail, Kill
    <3>2. CASE Inside(h)
      BY <3>2
    <3>3. pc[h] = "idle" \/ pc[h] = "waiting" \/ Inside(h)
      BY DEF TypeOK
    <3>4. pc[h] # "idle"
      BY <1>7 DEF Finish, Fail, Kill
    <3>5. QED
      BY <3>1, <3>2, <3>3, <3>4
  <2>4. \A g \in Hooks : g # h => pc'[g] = pc[g] /\ conv'[g] = conv[g]
    BY <2>1 DEF TypeOK
  <2>5. pc'[h] = "idle"
    BY <2>1 DEF TypeOK
  <2>6. BindsMain'
    BY <2>1, <2>2
  <2>7. (exists /\ launched => bound # NoConv \/ lost)'
    BY <2>1, <2>2, <2>3
  <2>8. (\A g \in Hooks : /\ pc[g] # "idle" /\ conv[g] # Main => launched
                          /\ Inside(g) /\ conv[g] = Main => bound # NoConv)'
    BY <2>1, <2>4, <2>5
  <2>9. QED
    BY <2>6, <2>7, <2>8
<1>8. CASE UNCHANGED vars
  BY <1>8 DEF vars, hookVars, nativeVars
<1>9. QED
  BY <1>1, <1>2, <1>3, <1>4, <1>5, <1>6, <1>7, <1>8 DEF Next, HookStep

\* A channel is never bound to a subagent, except by an agy that gives hooks no
\* other id, after the first hook of the main conversation died waiting
\* (_deliver, "A main model invocation precedes any subagent it creates").
THEOREM BoundToMain == Spec => []BindsMain
<1>1. Init => BindingInv
  BY ConversationAssumption DEF Init, BindingInv, BindsMain, Inside
<1>2. BindingInv => BindsMain
  BY DEF BindingInv
<1>3. QED
  BY <1>1, <1>2, BindingStep, QueueTypeCorrect, PTL DEF Spec

----------------------------------------------------------------------------
(* The order.                                                              *)

\* The flock is held by a hook that has its batch, and the batch is in order.
OrderInv == InOrder /\ \A h \in Hooks : lock = h => Inside(h)

\* A message in front of a message that fits does fit itself.
LEMMA PrefixInOrder ==
  ASSUME TypeOK, NEW S \in SUBSET Ids,
         NEW i \in FittingPrefix(S), NEW j \in S \ FittingPrefix(S)
  PROVE  Before(i, j)
<1> DEFINE UpTo(k) == {m \in S : m = k \/ Before(m, k)}
<1> DEFINE Fits(k) == SumFunctionOnSet(size, UpTo(k)) <= MaxBatch
<1>1. \A k : k \in FittingPrefix(S) <=> k \in S /\ \A m \in UpTo(k) : Fits(m)
  BY DEF FittingPrefix
<1>2. \A k \in Ids : k \in Nat /\ created[k] \in Nat
  BY IdAssumption, BoundAssumption DEF TypeOK
<1>3. PICK m \in UpTo(j) : ~Fits(m)
  BY <1>1
<1>4. m \notin UpTo(i)
  BY <1>1, <1>3
<1> HIDE DEF Fits
<1>5. m \in S /\ i \in S /\ (m = j \/ Before(m, j)) /\ m # i /\ ~Before(m, i)
  BY <1>1, <1>3, <1>4
<1>6. Before(i, m)
  BY <1>2, <1>5 DEF Before
<1>7. QED
  BY <1>2, <1>5, <1>6 DEF Before

\* While a hook has the flock its batch stays what it is, and nothing joins the
\* messages that are pending for its conversation.
LEMMA HeldStep ==
  ASSUME OrderInv, NEW h \in Hooks, lock = h, lock' = h,
         UNCHANGED <<created, target, bound, batch, conv>>,
         \A i \in Ids : state'[i] = "pending" => state[i] = "pending"
  PROVE  \A i \in batch'[h], j \in (Pending(conv[h], bound) \ batch[h])' : Before(i, j)'
<1>1. (Pending(conv[h], bound) \ batch[h])' \subseteq Pending(conv[h], bound) \ batch[h]
  BY DEF Pending, Recipient
<1>2. QED
  BY <1>1 DEF OrderInv, InOrder, Before

LEMMA OrderStep == IInv /\ OrderInv /\ [Next]_vars => OrderInv'
<1> SUFFICES ASSUME IInv, OrderInv, [Next]_vars PROVE OrderInv'
  OBVIOUS
<1> USE HookAssumption
<1>1. TypeOK
  BY DEF IInv
<1>2. ASSUME NEW i \in Ids, NEW to \in Conversations \cup {NoConv}, NEW s \in Sizes,
             Send(i, to, s)
      PROVE  OrderInv'
  BY <1>2 DEF Send, hookVars, OrderInv, InOrder, Inside
<1>3. CASE BindMain
  BY <1>3 DEF BindMain, messageVars, hookVars, OrderInv, InOrder, Inside
<1>4. CASE Close \/ UNCHANGED vars
  BY <1>4 DEF Close, vars, messageVars, hookVars, OrderInv, InOrder, Inside, Pending, Recipient,
              Before
<1>5. ASSUME NEW h \in Hooks, NEW c \in Conversations, Invoke(h, c) PROVE OrderInv'
  <2>1. /\ UNCHANGED <<bound, messageVars, lock, batch>> /\ pc[h] = "idle"
        /\ \A g \in Hooks \ {h} : pc'[g] = pc[g] /\ conv'[g] = conv[g]
    BY <1>1, <1>5 DEF Invoke, Enter, TypeOK
  <2>2. lock # h
    BY <2>1 DEF OrderInv, Inside
  <2>3. QED
    BY <2>1, <2>2 DEF OrderInv, InOrder, Inside, messageVars, Pending, Recipient, Before
<1>6. ASSUME NEW h \in Hooks, Load(h) PROVE OrderInv'
  <2>1. /\ lock' = h /\ pc'[h] = "claiming" /\ UNCHANGED <<messageVars, conv>>
        /\ batch'[h] = FittingPrefix(Pending(conv[h], bound'))
    BY <1>1, <1>6 DEF Load, Enter, TypeOK
  <2>2. (Pending(conv[h], bound))' = Pending(conv[h], bound')
    BY <2>1 DEF messageVars, Pending, Recipient
  <2>3. \A i \in batch'[h], j \in Pending(conv[h], bound') \ batch'[h] : Before(i, j)
    <3>1. Pending(conv[h], bound') \in SUBSET Ids
      BY DEF Pending
    <3>2. QED
      BY <1>1, <2>1, <3>1, PrefixInOrder
  <2>4. \A i, j : Before(i, j)' <=> Before(i, j)
    BY <2>1 DEF messageVars, Before
  <2>5. QED
    BY <2>1, <2>2, <2>3, <2>4 DEF OrderInv, InOrder, Inside
<1>7. ASSUME NEW h \in Hooks, Claim(h) \/ Mark(h) PROVE OrderInv'
  <2>1. UNCHANGED <<bound, target, created, lock, pc, conv, batch>>
    BY <1>7 DEF Claim, Mark, hookVars
  <2>2. \A i \in Ids : state'[i] = "pending" => state[i] = "pending"
    BY <1>1, <1>7 DEF Claim, Mark, TypeOK
  <2>3. \A g \in Hooks : lock' = g => Inside(g)'
    BY <2>1 DEF OrderInv, Inside
  <2>4. InOrder'
    BY <2>1, <2>2, HeldStep DEF InOrder
  <2>5. QED
    BY <2>3, <2>4 DEF OrderInv
<1>8. ASSUME NEW h \in Hooks, Flush(h) PROVE OrderInv'
  <2>1. UNCHANGED <<bound, messageVars, lock, conv, batch>> /\ pc' = [pc EXCEPT ![h] = "marking"]
    BY <1>8 DEF Flush, Enter
  <2>2. \A g \in Hooks : lock' = g => Inside(g)'
    BY <1>1, <2>1 DEF OrderInv, Inside, TypeOK
  <2>3. InOrder'
    BY <2>1, HeldStep DEF InOrder, messageVars
  <2>4. QED
    BY <2>2, <2>3 DEF OrderInv
<1>9. ASSUME NEW h \in Hooks, Finish(h) \/ Fail(h) \/ Kill(h) PROVE OrderInv'
  <2>1. Leave(h) /\ UNCHANGED <<bound, messageVars>>
    BY <1>9 DEF Finish, Fail, Kill
  <2>2. /\ lock' = (IF lock = h THEN NoHook ELSE lock)
        /\ \A g \in Hooks \ {h} : pc'[g] = pc[g] /\ conv'[g] = conv[g] /\ batch'[g] = batch[g]
    BY <1>1, <2>1 DEF Leave, Enter, TypeOK
  <2>3. QED
    BY <2>1, <2>2 DEF OrderInv, InOrder, Inside, messageVars, Pending, Recipient, Before
<1>10. QED
  BY <1>2, <1>3, <1>4, <1>5, <1>6, <1>7, <1>8, <1>9 DEF Next, HookStep

\* No message overtakes another one: what a hook has taken comes before all that
\* it leaves pending for its conversation, whatever the sizes, whoever was killed
\* before and however many hooks wait (_deliver, _message_order).
THEOREM DeliveredInOrder == Spec => []InOrder
<1>1. Init => OrderInv
  BY HookAssumption DEF Init, OrderInv, InOrder
<1>2. OrderInv => InOrder
  BY DEF OrderInv
<1>3. QED
  BY <1>1, <1>2, OrderStep, QueueInvariant, PTL DEF Spec

----------------------------------------------------------------------------
(* The decoder: what its tables hold.                                      *)

Told == [of : Responses, nth : Nat]       \* an event
Name == Responses \cup {None}
Accumulator == [key : Name, at : Nat, events : Seq(Told)]
Record == [events : Seq(Told), request : Name]

DecodeType ==
  /\ cli \in Clis /\ life \in {"off", "running", "exiting", "exited", "killed"} /\ work \in Nat
  /\ asked \in Seq(Responses) /\ told \in [Responses -> Nat]
  /\ over \subseteq Range(asked) /\ pending \subseteq Range(asked)
  /\ acc \in Seq(Accumulator) /\ recorded \in Seq(Record)

\* The response that events are of, and that they are the first ones of it.
Of(events) == events[1].of
Prefix(events) == events # <<>> /\ \A k \in DOMAIN events : events[k] = [of |-> Of(events), nth |-> k]

\* Each request is made once, the agent's in their order and after the end of
\* the ones before, kimi's all one after the other.
AskedInv ==
  /\ \A i, j \in DOMAIN asked : asked[i] = asked[j] => i = j
  /\ \A i, j \in DOMAIN asked : i < j /\ asked[i] # Title /\ asked[j] # Title =>
       asked[i] < asked[j] /\ asked[i] \in over
  /\ \A i \in DOMAIN asked : 1 .. asked[i] - 1 \subseteq over
  /\ cli = "kimi" => \A i, j \in DOMAIN asked : i < j => asked[i] \in over
  /\ \A r \in Responses : /\ told[r] > 0 => r \in Range(asked)
                          /\ r \notin over => told[r] < Events
  /\ life = "off" => asked = <<>> /\ acc = <<>> /\ recorded = <<>>
  /\ life = "exiting" => cli = "agy"

\* An accumulator has all events so far of one response, which has not ended,
\* and is younger than its request.
KeyOf(r) == IF cli = "kimi" THEN None ELSE r

AccumulatorOf(a) ==
  LET r == Of(a.events) IN
  /\ Prefix(a.events) /\ Len(a.events) = told[r] /\ Len(a.events) < Events
  /\ a.key = KeyOf(r)
  /\ a.at <= Len(asked) /\ \E j \in 1 .. a.at : asked[j] = r
  /\ cli = "kimi" => asked[Len(asked)] = r

AccInv ==
  /\ \A a \in Range(acc) : AccumulatorOf(a)
  /\ \A i, j \in DOMAIN acc : acc[i].key = acc[j].key => i = j

\* What is recorded is of other responses than what is not, and nobody tells
\* more of those; what was told of any other response is in an accumulator.
RecordedInv ==
  /\ \A i \in DOMAIN recorded :
       LET r == Of(recorded[i].events) IN
       /\ Prefix(recorded[i].events)
       /\ life = "running" => r \in over
       /\ \A a \in Range(acc) : Of(a.events) # r
  /\ \A i, j \in DOMAIN recorded : Of(recorded[i].events) = Of(recorded[j].events) => i = j
  /\ life = "running" => \A r \in Responses \ over :
       told[r] > 0 => \E a \in Range(acc) : Of(a.events) = r

\* While a response is open nobody else has been given its request.
RequestInv ==
  /\ OwnRequest
  /\ cli = "codex" => Range(asked) \ over \subseteq pending
  /\ cli # "codex" /\ Forgotten = {} /\ life = "running" =>
       \A i \in DOMAIN recorded : recorded[i].request \in over \cup {None}

DecodeInv == DecodeType /\ AskedInv /\ AccInv /\ RecordedInv /\ RequestInv
----------------------------------------------------------------------------
(* The client: what has come home.                                         *)

IdType == [conv : Nat, wrote : Nat]
Response == [turns : Seq(Record), upto : Nat, heard : Nat, id : IdType]

ClientType ==
  /\ mode \in {"ask", "session", "sdk", "ask_sdk"} /\ capturing \in BOOLEAN /\ tailing \in BOOLEAN
  /\ leftover \in {<<>>, <<Old>>} /\ wanted \in {1, New, Latest, Lost}
  /\ made \in Nat /\ recent \in 1 .. New /\ wrote \in Nat
  /\ from \in Nat /\ sent \in Nat /\ read \in Nat
  /\ phase \in {"new", "turn", "between", "done"} /\ got \in Seq(Record)
  /\ id \in IdType /\ cursor \in Nat /\ returned \in Seq(Response)

\* Who captures, and that the file is emptied before the CLI starts.
ModeInv ==
  /\ Sdk \/ tailing \/ cli = "kimi" => capturing
  /\ tailing => mode = "session"
  /\ wanted = Lost => cli = "codex"
  /\ cli \notin Resuming => wanted = New
  /\ phase = "new" => life = "off" /\ returned = <<>>
  /\ phase # "new" /\ capturing => leftover = <<>>
  /\ phase # "new" => life # "off"
  /\ mode \in {"ask", "ask_sdk"} => /\ phase = "turn" => returned = <<>>
                                    /\ Len(returned) <= 1
                                    /\ phase = "done" => ~Running
  /\ mode = "ask" => phase # "between"
  /\ phase = "between" => returned # <<>>

\* The sender is behind the recorder, and the parent behind the sender.
StreamInv ==
  /\ read <= sent /\ sent <= Len(recorded)
  /\ from = NotYet => read = 0 /\ sent = 0
  /\ from # NotYet => from <= read
  /\ Sdk => from = NotYet
  /\ \A i \in DOMAIN returned : returned[i].upto <= Len(recorded) /\ returned[i].heard <= read
  /\ ~Sdk /\ phase # "done" => got = SubSeq(recorded, Heard(Len(returned)) + 1, read)
  /\ tailing \/ Sdk => cursor = Upto(Len(returned))

\* What ResponsesExact says of one response.
Exact(i) ==
  LET turns == returned[i].turns IN
  /\ mode = "ask" => turns = IF capturing THEN recorded ELSE Streamed
  /\ mode = "ask_sdk" /\ phase = "done" => turns = recorded
  /\ mode = "sdk" => turns = SubSeq(recorded, Upto(i - 1) + 1, Upto(i))
  /\ mode = "session" /\ ~tailing => turns = SubSeq(recorded, Heard(i - 1) + 1, returned[i].heard)
  /\ mode = "session" /\ tailing =>
       \A k \in 1 .. Upto(i) : \E j \in 1 .. i : recorded[k] \in Range(returned[j].turns)

\* The store, once the CLI has opened its conversation.
StoreInv ==
  /\ wrote # 0 => wrote = Chosen /\ recent = wrote /\ (cli = "kimi" => made = wrote)
  /\ id.wrote # 0 => id.conv = id.wrote

ClientInv == ClientType /\ ModeInv /\ StreamInv /\ ResponsesExact
AskInv == DecodeInv /\ ClientInv
----------------------------------------------------------------------------
(* Sequences.                                                              *)

\* Appending, entry by entry.
LEMMA Appended ==
  ASSUME NEW S, NEW s \in Seq(S), NEW e \in S
  PROVE  /\ Append(s, e) \in Seq(S) /\ Len(Append(s, e)) = Len(s) + 1
         /\ DOMAIN Append(s, e) = 1 .. Len(s) + 1 /\ DOMAIN s = 1 .. Len(s) /\ Len(s) \in Nat
         /\ \A i \in 1 .. Len(s) : Append(s, e)[i] = s[i]
         /\ Append(s, e)[Len(s) + 1] = e
         /\ Range(Append(s, e)) = Range(s) \cup {e}
<1> DEFINE t == Append(s, e)
<1>1. /\ t \in Seq(S) /\ Len(t) = Len(s) + 1 /\ Len(s) \in Nat
      /\ DOMAIN t = 1 .. Len(s) + 1 /\ DOMAIN s = 1 .. Len(s)
      /\ \A i \in 1 .. Len(s) : t[i] = s[i]
      /\ t[Len(s) + 1] = e
  OBVIOUS
<1> HIDE DEF t
<1>2. \A i \in 1 .. Len(s) + 1 : i \in 1 .. Len(s) \/ i = Len(s) + 1
  BY <1>1
<1>3. Range(t) = Range(s) \cup {e}
  <2>1. ASSUME NEW x \in Range(t) PROVE x \in Range(s) \cup {e}
    <3>1. PICK i \in 1 .. Len(s) + 1 : x = t[i]
      BY <2>1, <1>1 DEF Range
    <3>2. QED
      BY <3>1, <1>1, <1>2 DEF Range
  <2>2. ASSUME NEW x \in Range(s) PROVE x \in Range(t)
    <3>1. PICK i \in 1 .. Len(s) : x = s[i]
      BY <2>2, <1>1 DEF Range
    <3>2. i \in DOMAIN t /\ x = t[i]
      BY <3>1, <1>1
    <3>3. QED
      BY <3>2 DEF Range
  <2>3. e \in Range(t)
    <3>1. Len(s) + 1 \in DOMAIN t
      BY <1>1
    <3>2. QED
      BY <3>1, <1>1 DEF Range
  <2>4. QED
    BY <2>1, <2>2, <2>3
<1>4. QED
  BY <1>1, <1>3 DEF t

\* Taking one entry out.
LEMMA Removed ==
  ASSUME NEW S, NEW s \in Seq(S), NEW k \in 1 .. Len(s)
  PROVE  /\ RemoveAt(s, k) \in Seq(S)
         /\ Len(RemoveAt(s, k)) = Len(s) - 1
         /\ \A i \in 1 .. Len(s) - 1 : RemoveAt(s, k)[i] = IF i < k THEN s[i] ELSE s[i + 1]
<1> DEFINE p == SubSeq(s, 1, k - 1)
           q == SubSeq(s, k + 1, Len(s))
<1>1. /\ Len(s) \in Nat /\ k \in Nat /\ k >= 1 /\ k <= Len(s)
  OBVIOUS
<1>2. /\ p \in Seq(S) /\ Len(p) = k - 1
      /\ \A i \in 1 .. k - 1 : p[i] = s[i]
  BY <1>1
<1>3. /\ q \in Seq(S) /\ Len(q) = Len(s) - k
      /\ \A i \in 1 .. Len(s) - k : q[i] = s[k + i]
  BY <1>1
<1> HIDE DEF p, q
<1>4. /\ p \o q \in Seq(S) /\ Len(p \o q) = Len(s) - 1
      /\ \A i \in 1 .. Len(s) - 1 : (p \o q)[i] = IF i <= Len(p) THEN p[i] ELSE q[i - Len(p)]
  <2>1. Len(p) \in Nat /\ Len(q) \in Nat /\ Len(p) + Len(q) = Len(s) - 1
    BY <1>1, <1>2, <1>3
  <2>2. p \o q \in Seq(S) /\ Len(p \o q) = Len(p) + Len(q)
    BY <1>2, <1>3, ConcatProperties
  <2>3. \A i \in 1 .. Len(p) + Len(q) : (p \o q)[i] = IF i <= Len(p) THEN p[i] ELSE q[i - Len(p)]
    BY <1>2, <1>3
  <2>4. QED
    BY <2>1, <2>2, <2>3
<1>5. ASSUME NEW i \in 1 .. Len(s) - 1
      PROVE  (p \o q)[i] = IF i < k THEN s[i] ELSE s[i + 1]
  <2>1. CASE i < k
    <3>1. i \in 1 .. k - 1 /\ i <= Len(p)
      BY <2>1, <1>1, <1>2
    <3>2. QED
      BY <3>1, <2>1, <1>2, <1>4
  <2>2. CASE ~(i < k)
    <3>1. i - (k - 1) \in 1 .. Len(s) - k /\ ~(i <= Len(p)) /\ k + (i - (k - 1)) = i + 1
      BY <2>2, <1>1, <1>2
    <3>2. (p \o q)[i] = q[i - (k - 1)]
      BY <3>1, <1>2, <1>4
    <3>3. QED
      BY <3>1, <3>2, <2>2, <1>3
  <2>3. QED
    BY <2>1, <2>2
<1>6. RemoveAt(s, k) = p \o q
  BY DEF RemoveAt, p, q
<1>7. QED
  BY <1>4, <1>5, <1>6

\* A set of natural numbers up to a bound has a largest one.
LEMMA Largest ==
  ASSUME NEW b \in Nat, NEW S, S \subseteq 0 .. b, S # {}
  PROVE  \E m \in S : \A x \in S : x <= m
<1> DEFINE R == OpToRel(<, Nat)
           D == {b - x : x \in S}
<1>1. IsWellFoundedOn(R, Nat)
  BY NatLessThanWellFounded
<1>2. \A x, y \in Nat : x < y => <<x, y>> \in R
  BY DEF OpToRel
<1>3. D \subseteq Nat /\ D # {}
  <2>1. \A x \in S : x \in Nat /\ b - x \in Nat
    OBVIOUS
  <2>2. QED
    BY <2>1
<1> HIDE DEF R
<1>4. PICK d \in D : \A y \in D : <<y, d>> \notin R
  BY <1>1, <1>3, WFMin
<1>5. PICK m \in S : d = b - m
  OBVIOUS
<1>6. ASSUME NEW x \in S PROVE x <= m
  <2>1. b - x \in D /\ b - x \in Nat /\ d \in Nat
    BY <1>3
  <2>2. ~(b - x < d)
    BY <2>1, <1>2, <1>4
  <2>3. QED
    BY <2>2, <1>5
<1>7. QED
  BY <1>6

----------------------------------------------------------------------------
(* Requests.                                                               *)

\* The names of responses, and of none.
LEMMA Names ==
  /\ MaxMain \in Nat /\ Responses = 0 .. MaxMain /\ None \notin Responses /\ Title \in Responses
  /\ Responses \subseteq Nat /\ None \in Nat /\ Name = 0 .. MaxMain + 1
  BY DecodeAssumption DEF Responses, None, Title, Name

\* Every request was made at some time, and no two at one.
LEMMA WhenMade ==
  ASSUME DecodeType, NEW r \in Range(asked)
  PROVE  /\ When(r) \in 1 .. Len(asked) /\ asked[When(r)] = r /\ Len(asked) \in Nat
         /\ DOMAIN asked = 1 .. Len(asked) /\ r \in Responses
<1>1. DOMAIN asked = 1 .. Len(asked) /\ Len(asked) \in Nat
  BY DEF DecodeType
<1>2. PICK i \in DOMAIN asked : asked[i] = r
  BY DEF Range
<1>3. When(r) \in DOMAIN asked /\ asked[When(r)] = r
  BY <1>2 DEF When
<1>4. r \in Responses
  BY <1>1, <1>2 DEF DecodeType
<1>5. QED
  BY <1>1, <1>3, <1>4

LEMMA AskedTypes ==
  ASSUME DecodeType
  PROVE  /\ Range(asked) \subseteq Responses /\ over \subseteq Responses /\ pending \subseteq Responses
         /\ Len(asked) \in Nat /\ DOMAIN asked = 1 .. Len(asked)
<1>1. DOMAIN asked = 1 .. Len(asked) /\ Len(asked) \in Nat
  BY DEF DecodeType
<1>2. Range(asked) \subseteq Responses
  BY WhenMade
<1>3. QED
  BY <1>1, <1>2 DEF DecodeType

\* The latest of some requests.
LEMMA LatestRequest ==
  ASSUME DecodeType, NEW S, S \subseteq Range(asked), S # {}
  PROVE  \E q \in S : \A p \in S : When(p) <= When(q)
<1> DEFINE T == {When(q) : q \in S}
<1>1. \A q \in S : When(q) \in 0 .. Len(asked)
  BY WhenMade, AskedTypes
<1>2. T \subseteq 0 .. Len(asked) /\ T # {} /\ Len(asked) \in Nat
  BY <1>1, AskedTypes
<1>3. PICK m \in T : \A x \in T : x <= m
  BY <1>2, Largest
<1>4. PICK q \in S : m = When(q)
  OBVIOUS
<1>5. \A p \in S : When(p) <= When(q)
  BY <1>3, <1>4
<1>6. QED
  BY <1>5

\* What a turn is paired with is a pending request or none.
LEMMA MatchIsPending ==
  ASSUME DecodeType, NEW events, NEW upto
  PROVE  Match(events, upto) \in pending \cup {None}
<1> DEFINE near == {q \in Candidates(events) : When(q) <= upto}
<1>1. Candidates(events) \subseteq pending
  BY DEF Candidates
<1>2. near \subseteq Range(asked)
  BY <1>1 DEF DecodeType
<1>3. CASE near = {}
  BY <1>3 DEF Match
<1>4. CASE near # {}
  <2>1. \E q \in near : \A p \in near : When(p) <= When(q)
    BY <1>2, <1>4, LatestRequest
  <2>2. Match(events, upto) = CHOOSE q \in near : \A p \in near : When(p) <= When(q)
    BY <1>4 DEF Match
  <2> HIDE DEF near
  <2>3. Match(events, upto) \in near
    BY <2>1, <2>2
  <2>4. QED
    BY <2>3, <1>1 DEF near
<1>5. QED
  BY <1>3, <1>4

\* A response that is open is paired with its own request, if that is pending:
\* among the requests of its model there is no later one.
LEMMA MatchIsOwn ==
  ASSUME DecodeType, AskedInv, cli # "codex",
         NEW r \in Range(asked) \ over, r \in pending,
         NEW events, Of(events) = r,
         NEW upto \in Nat, When(r) <= upto
  PROVE  Match(events, upto) = r
<1> DEFINE near == {q \in Candidates(events) : When(q) <= upto}
<1>1. Candidates(events) \subseteq pending
  BY DEF Candidates
<1>2. near \subseteq Range(asked)
  BY <1>1 DEF DecodeType
<1>3. r \in Candidates(events)
  BY DEF Candidates, Matches, Of
<1>4. r \in near
  BY <1>3
<1>5. \A q \in near : cli = "agy" => Model(q) = Model(r)
  BY <1>3 DEF Candidates, Matches, Of
<1> HIDE DEF near
<1>6. ASSUME NEW q \in near, q # r PROVE When(q) < When(r)
  <2>1. /\ When(q) \in 1 .. Len(asked) /\ asked[When(q)] = q
        /\ When(r) \in 1 .. Len(asked) /\ asked[When(r)] = r
        /\ Len(asked) \in Nat /\ DOMAIN asked = 1 .. Len(asked)
    BY <1>2, <1>6, WhenMade
  <2>2. When(q) # When(r)
    BY <1>6, <2>1
  <2>3. ~(When(r) < When(q))
    <3>1. SUFFICES ASSUME When(r) < When(q) PROVE FALSE
      OBVIOUS
    <3>2. CASE cli = "kimi"
      BY <3>1, <3>2, <2>1 DEF AskedInv
    <3>3. CASE cli = "agy"
      <4>1. q # Title /\ r # Title
        BY <1>5, <1>6, <3>3 DEF Model
      <4>2. QED
        BY <3>1, <4>1, <2>1 DEF AskedInv
    <3>4. cli \in {"agy", "codex", "kimi"}
      BY DecodeAssumption DEF DecodeType
    <3>5. QED
      BY <3>2, <3>3, <3>4
  <2>4. QED
    BY <2>1, <2>2, <2>3
<1>7. When(r) \in Nat /\ \A q \in near : When(q) \in Nat
  BY <1>2, <1>4, WhenMade
<1>8. \A q \in near : (\A p \in near : When(p) <= When(q)) <=> q = r
  BY <1>4, <1>6, <1>7
<1>9. Match(events, upto) = CHOOSE q \in near : \A p \in near : When(p) <= When(q)
  BY <1>4 DEF Match, near
<1>10. QED
  BY <1>4, <1>8, <1>9

----------------------------------------------------------------------------
(* Accumulators.                                                           *)

\* The entries of the table.
LEMMA AccTypes ==
  ASSUME DecodeType
  PROVE  /\ DOMAIN acc = 1 .. Len(acc) /\ Len(acc) \in Nat
         /\ \A i \in DOMAIN acc : acc[i] \in Accumulator /\ acc[i] \in Range(acc)
         /\ Range(acc) \subseteq Accumulator
  BY DEF DecodeType, Range

\* kimi's open response is the last one that was asked for.
LEMMA LastAsked ==
  ASSUME DecodeType, AskedInv, cli = "kimi", NEW r \in Range(asked) \ over
  PROVE  asked[Len(asked)] = r
<1>1. PICK j \in DOMAIN asked : asked[j] = r
  BY DEF Range
<1>2. DOMAIN asked = 1 .. Len(asked) /\ Len(asked) \in Nat
  BY AskedTypes
<1>3. CASE j = Len(asked)
  BY <1>1, <1>3
<1>4. CASE j # Len(asked)
  <2>1. j < Len(asked) /\ Len(asked) \in DOMAIN asked
    BY <1>2, <1>4
  <2>2. asked[j] \in over
    BY <1>1, <2>1 DEF AskedInv
  <2>3. QED
    BY <1>1, <2>2
<1>5. QED
  BY <1>3, <1>4

\* The accumulator with the key of an open response is the one of its events.
LEMMA KeyIsOwn ==
  ASSUME DecodeType, AskedInv, AccInv, NEW r \in Range(asked) \ over
  PROVE  \A b \in Range(acc) : b.key = KeyOf(r) <=> Of(b.events) = r
<1> SUFFICES ASSUME NEW b \in Range(acc) PROVE b.key = KeyOf(r) <=> Of(b.events) = r
  OBVIOUS
<1>1. AccumulatorOf(b)
  BY DEF AccInv
<1>2. b.key = KeyOf(Of(b.events)) /\ (cli = "kimi" => asked[Len(asked)] = Of(b.events))
  BY <1>1 DEF AccumulatorOf
<1>3. CASE cli = "kimi"
  BY <1>2, <1>3, LastAsked DEF KeyOf
<1>4. CASE cli # "kimi"
  BY <1>2, <1>4 DEF KeyOf
<1>5. QED
  BY <1>3, <1>4

\* The slot of a key.
LEMMA SlotOfKey ==
  ASSUME NEW key, Open(key)
  PROVE  Slot(key) \in DOMAIN acc /\ acc[Slot(key)].key = key
  BY DEF Open, Slot

\* One more event.
LEMMA PrefixGrows ==
  ASSUME NEW r \in Responses, NEW n \in Nat, NEW events \in Seq(Told), Len(events) = n,
         n > 0 => Prefix(events) /\ Of(events) = r
  PROVE  LET more == Append(events, [of |-> r, nth |-> n + 1])
         IN  /\ more \in Seq(Told) /\ Len(more) = n + 1 /\ Prefix(more) /\ Of(more) = r
             /\ IsTerminal(more) <=> \E i \in 1 .. n + 1 : i = Events
<1> DEFINE e == [of |-> r, nth |-> n + 1]
           more == Append(events, e)
<1>1. e \in Told /\ e.of = r /\ e.nth = n + 1
  BY DEF Told
<1> HIDE DEF e
<1>2. /\ more \in Seq(Told) /\ Len(more) = n + 1 /\ DOMAIN more = 1 .. n + 1
      /\ \A i \in 1 .. n : more[i] = events[i]
      /\ more[n + 1] = e /\ DOMAIN events = 1 .. n
  BY <1>1, Appended
<1>3. e = [of |-> r, nth |-> n + 1]
  BY DEF e
<1> HIDE DEF more
<1>4. ASSUME NEW i \in 1 .. n + 1 PROVE more[i] = [of |-> r, nth |-> i]
  <2>1. CASE i = n + 1
    BY <2>1, <1>2, <1>3
  <2>2. CASE i # n + 1
    <3>1. i \in 1 .. n /\ n > 0
      BY <2>2
    <3>2. events[i] = [of |-> r, nth |-> i]
      BY <3>1, <1>2 DEF Prefix
    <3>3. QED
      BY <3>1, <3>2, <1>2
  <2>3. QED
    BY <2>1, <2>2
<1>5. 1 \in 1 .. n + 1 /\ more # <<>>
  BY <1>2
<1>6. Of(more) = r
  <2>1. more[1] = [of |-> r, nth |-> 1]
    BY <1>4, <1>5
  <2>2. \A x : x = [of |-> r, nth |-> 1] => x.of = r
    OBVIOUS
  <2>3. more[1].of = r
    BY <2>1, <2>2
  <2>4. QED
    BY <2>3 DEF Of
<1>7. Prefix(more)
  BY <1>2, <1>4, <1>5, <1>6 DEF Prefix
<1>8. IsTerminal(more) <=> \E i \in 1 .. n + 1 : i = Events
  BY <1>2, <1>4 DEF IsTerminal
<1>9. QED
  BY <1>2, <1>6, <1>7, <1>8 DEF more, e

\* What becomes of an accumulator with the next event of an open response.
LEMMA GrownFacts ==
  ASSUME DecodeType, AskedInv, AccInv, RecordedInv, life = "running",
         NEW r \in Range(asked) \ over, NEW key, key = KeyOf(r)
  PROVE  LET a == Grown(key, r)
         IN  /\ a \in Accumulator /\ a.key = key /\ Of(a.events) = r /\ Prefix(a.events)
             /\ Len(a.events) = told[r] + 1 /\ told[r] + 1 <= Events
             /\ a.at <= Len(asked) /\ \E j \in 1 .. a.at : asked[j] = r
             /\ IsTerminal(a.events) <=> told[r] + 1 = Events
<1> DEFINE old == IF Open(key) THEN acc[Slot(key)] ELSE [key |-> key, at |-> Len(asked), events |-> <<>>]
           e == [of |-> r, nth |-> told[r] + 1]
           a == Grown(key, r)
<1>1. r \in Responses /\ told[r] \in Nat /\ told[r] < Events /\ Events \in Nat
  BY DecodeAssumption, AskedTypes DEF DecodeType, AskedInv
<1>2. key \in Name
  BY <1>1 DEF KeyOf, Name
<1>3. /\ old \in Accumulator /\ old.key = key /\ old.at <= Len(asked)
      /\ \E j \in 1 .. old.at : asked[j] = r
      /\ Len(old.events) = told[r] /\ (told[r] > 0 => Prefix(old.events) /\ Of(old.events) = r)
  <2>1. CASE Open(key)
    <3>1. /\ old = acc[Slot(key)] /\ old \in Range(acc) /\ old \in Accumulator /\ old.key = key
      BY <2>1, SlotOfKey, AccTypes
    <3> HIDE DEF old
    <3>2. Of(old.events) = r
      BY <3>1, KeyIsOwn
    <3>3. AccumulatorOf(old)
      BY <3>1 DEF AccInv
    <3>4. QED
      BY <3>1, <3>2, <3>3 DEF AccumulatorOf
  <2>2. CASE ~Open(key)
    <3>1. \A b \in Range(acc) : b.key # key
      BY <2>2 DEF Open, Range
    <3>2. \A b \in Range(acc) : Of(b.events) # r
      BY <3>1, KeyIsOwn
    <3>3. told[r] = 0
      BY <1>1, <3>2 DEF RecordedInv
    <3>4. Len(asked) \in Nat /\ <<>> \in Seq(Told) /\ Len(<<>>) = 0
      BY AskedTypes
    <3>5. old = [key |-> key, at |-> Len(asked), events |-> <<>>]
      BY <2>2
    <3> HIDE DEF old
    <3>6. old \in Accumulator /\ old.key = key /\ old.at = Len(asked) /\ Len(old.events) = 0
      BY <3>4, <3>5, <1>2 DEF Accumulator
    <3>7. \E j \in 1 .. Len(asked) : asked[j] = r
      BY WhenMade
    <3>8. QED
      BY <3>3, <3>4, <3>6, <3>7
  <2>3. QED
    BY <2>1, <2>2
<1>4. a = [old EXCEPT !.events = Append(old.events, e)]
  BY DEF Grown
<1> HIDE DEF old, a
<1>5. old.events \in Seq(Told) /\ old.at \in Nat /\ old = [key |-> old.key, at |-> old.at, events |-> old.events]
  BY <1>3 DEF Accumulator
<1> DEFINE more == Append(old.events, e)
<1>6. /\ more \in Seq(Told) /\ Len(more) = told[r] + 1 /\ Prefix(more) /\ Of(more) = r
      /\ IsTerminal(more) <=> \E i \in 1 .. told[r] + 1 : i = Events
  BY <1>1, <1>3, <1>5, PrefixGrows
<1> HIDE DEF more
<1>7. a = [old EXCEPT !.events = more]
  BY <1>4 DEF more
<1> HIDE DEF e
<1>8. a = [key |-> old.key, at |-> old.at, events |-> more]
  BY <1>5, <1>7
<1>9. a \in Accumulator /\ a.key = key /\ a.at = old.at /\ a.events = more
  BY <1>2, <1>3, <1>5, <1>6, <1>8 DEF Accumulator
<1>10. IsTerminal(more) <=> told[r] + 1 = Events
  <2>1. Events \in 1 .. told[r] + 1 <=> told[r] + 1 = Events
    BY <1>1
  <2>2. QED
    BY <2>1, <1>6
<1>11. QED
  BY <1>1, <1>3, <1>6, <1>9, <1>10 DEF a

----------------------------------------------------------------------------
(* The table of accumulators as it changes.                                *)

Distinct(s) == \A i, j \in DOMAIN s : s[i].key = s[j].key => i = j

\* An accumulator is put into its slot, or at the end.
LEMMA KeptFacts ==
  ASSUME DecodeType, Distinct(acc), NEW a \in Accumulator, Keep(a)
  PROVE  /\ acc' \in Seq(Accumulator) /\ Distinct(acc')
         /\ Range(acc') = {b \in Range(acc) : b.key # a.key} \cup {a}
<1>0. DOMAIN acc = 1 .. Len(acc) /\ Len(acc) \in Nat /\ acc \in Seq(Accumulator)
  BY AccTypes DEF DecodeType
<1>1. CASE Open(a.key)
  <2> DEFINE s == Slot(a.key)
  <2>1. s \in DOMAIN acc /\ acc[s].key = a.key
    BY <1>1, SlotOfKey
  <2>2. acc' = [acc EXCEPT ![s] = a]
    BY <1>1 DEF Keep
  <2> HIDE DEF s
  <2>3. /\ acc' \in Seq(Accumulator) /\ DOMAIN acc' = DOMAIN acc
        /\ acc'[s] = a /\ \A i \in DOMAIN acc : i # s => acc'[i] = acc[i]
    BY <1>0, <2>1, <2>2
  <2>4. \A i \in DOMAIN acc : acc'[i].key = acc[i].key
    BY <2>1, <2>3
  <2>5. Distinct(acc')
    BY <2>3, <2>4 DEF Distinct
  <2>6. \A i \in DOMAIN acc : i # s => acc[i].key # a.key
    BY <2>1 DEF Distinct
  <2>7. Range(acc') = {b \in Range(acc) : b.key # a.key} \cup {a}
    <3>1. ASSUME NEW b \in Range(acc') PROVE b = a \/ (b \in Range(acc) /\ b.key # a.key)
      <4>1. PICK i \in DOMAIN acc : b = acc'[i]
        BY <2>3 DEF Range
      <4>2. QED
        BY <4>1, <2>3, <2>6 DEF Range
    <3>2. ASSUME NEW b \in Range(acc), b.key # a.key PROVE b \in Range(acc')
      <4>1. PICK i \in DOMAIN acc : b = acc[i]
        BY DEF Range
      <4>2. i # s
        BY <4>1, <3>2, <2>1
      <4>3. QED
        BY <4>1, <4>2, <2>3 DEF Range
    <3>3. a \in Range(acc')
      BY <2>1, <2>3 DEF Range
    <3>4. QED
      BY <3>1, <3>2, <3>3
  <2>8. QED
    BY <2>3, <2>5, <2>7
<1>2. CASE ~Open(a.key)
  <2>1. acc' = Append(acc, a)
    BY <1>2 DEF Keep
  <2>2. \A i \in DOMAIN acc : acc[i].key # a.key
    BY <1>2 DEF Open
  <2>3. /\ acc' \in Seq(Accumulator) /\ DOMAIN acc' = 1 .. Len(acc) + 1
        /\ \A i \in 1 .. Len(acc) : acc'[i] = acc[i]
        /\ acc'[Len(acc) + 1] = a /\ Range(acc') = Range(acc) \cup {a}
    BY <1>0, <2>1, Appended
  <2>4. \A i \in DOMAIN acc' : i \in DOMAIN acc \/ i = Len(acc) + 1
    BY <1>0, <2>3
  <2>5. Distinct(acc')
    BY <1>0, <2>2, <2>3, <2>4 DEF Distinct
  <2>6. \A b \in Range(acc) : b.key # a.key
    BY <2>2 DEF Range
  <2>7. QED
    BY <2>3, <2>5, <2>6
<1>3. QED
  BY <1>1, <1>2

\* An accumulator is taken out.
LEMMA RemovedFacts ==
  ASSUME DecodeType, Distinct(acc), NEW k \in DOMAIN acc
  PROVE  /\ RemoveAt(acc, k) \in Seq(Accumulator) /\ Distinct(RemoveAt(acc, k))
         /\ Range(RemoveAt(acc, k)) = {b \in Range(acc) : b.key # acc[k].key}
<1> DEFINE rest == RemoveAt(acc, k)
<1>0. DOMAIN acc = 1 .. Len(acc) /\ Len(acc) \in Nat /\ acc \in Seq(Accumulator)
  BY AccTypes DEF DecodeType
<1>1. /\ rest \in Seq(Accumulator) /\ Len(rest) = Len(acc) - 1
      /\ \A i \in 1 .. Len(acc) - 1 : rest[i] = IF i < k THEN acc[i] ELSE acc[i + 1]
  BY <1>0, Removed
<1> HIDE DEF rest
<1> DEFINE up(i) == IF i < k THEN i ELSE i + 1
<1>2. DOMAIN rest = 1 .. Len(acc) - 1
  BY <1>0, <1>1
<1>3. \A i \in DOMAIN rest : up(i) \in DOMAIN acc /\ up(i) # k /\ rest[i] = acc[up(i)]
  BY <1>0, <1>1, <1>2
<1>4. \A i, j \in DOMAIN rest : up(i) = up(j) => i = j
  BY <1>0, <1>2
<1>5. ASSUME NEW j \in DOMAIN acc, j # k PROVE \E i \in DOMAIN rest : up(i) = j
  <2>1. CASE j < k
    <3>1. j \in DOMAIN rest /\ up(j) = j
      BY <1>0, <1>2, <2>1
    <3>2. QED
      BY <3>1
  <2>2. CASE ~(j < k)
    <3>1. j - 1 \in DOMAIN rest /\ up(j - 1) = j
      BY <1>0, <1>2, <1>5, <2>2
    <3>2. QED
      BY <3>1
  <2>3. QED
    BY <2>1, <2>2
<1> HIDE DEF up
<1>6. Distinct(rest)
  BY <1>3, <1>4 DEF Distinct
<1>7. \A j \in DOMAIN acc : j # k => acc[j].key # acc[k].key
  BY DEF Distinct
<1>8. ASSUME NEW b \in Range(rest) PROVE b \in Range(acc) /\ b.key # acc[k].key
  <2>1. PICK i \in DOMAIN rest : b = rest[i]
    BY <1>8 DEF Range
  <2>2. QED
    BY <2>1, <1>3, <1>7 DEF Range
<1>9. ASSUME NEW b \in Range(acc), b.key # acc[k].key PROVE b \in Range(rest)
  <2>1. PICK j \in DOMAIN acc : b = acc[j]
    BY DEF Range
  <2>2. j # k
    BY <2>1, <1>9
  <2>3. PICK i \in DOMAIN rest : up(i) = j
    BY <2>2, <1>5
  <2>4. rest[i] = b
    BY <2>1, <2>3, <1>3
  <2>5. QED
    BY <2>4 DEF Range
<1>10. QED
  BY <1>1, <1>6, <1>8, <1>9 DEF rest

LEMMA OthersFacts ==
  ASSUME DecodeType, Distinct(acc), NEW key
  PROVE  /\ Others(key) \in Seq(Accumulator) /\ Distinct(Others(key))
         /\ Range(Others(key)) = {b \in Range(acc) : b.key # key}
<1>1. CASE Open(key)
  <2>1. Slot(key) \in DOMAIN acc /\ acc[Slot(key)].key = key
    BY <1>1, SlotOfKey
  <2>2. QED
    BY <1>1, <2>1, RemovedFacts DEF Others
<1>2. CASE ~Open(key)
  <2>1. Others(key) = acc /\ \A b \in Range(acc) : b.key # key
    BY <1>2 DEF Others, Open, Range
  <2>2. QED
    BY <2>1 DEF DecodeType
<1>3. QED
  BY <1>1, <1>2

\* The oldest one is taken out.
LEMMA OldestFacts ==
  ASSUME DecodeType, Distinct(acc), acc # <<>>
  PROVE  /\ Tail(acc) \in Seq(Accumulator) /\ Distinct(Tail(acc))
         /\ Range(Tail(acc)) = {b \in Range(acc) : b.key # Head(acc).key}
         /\ Head(acc) \in Range(acc) /\ Head(acc) \in Accumulator
<1>0. DOMAIN acc = 1 .. Len(acc) /\ Len(acc) \in Nat /\ acc \in Seq(Accumulator)
  BY AccTypes DEF DecodeType
<1>1. Len(acc) > 0 /\ 1 \in DOMAIN acc
  BY <1>0
<1>2. Head(acc) = acc[1]
  BY <1>0, <1>1
<1>3. /\ RemoveAt(acc, 1) \in Seq(Accumulator) /\ Len(RemoveAt(acc, 1)) = Len(acc) - 1
      /\ \A i \in 1 .. Len(acc) - 1 : RemoveAt(acc, 1)[i] = acc[i + 1]
  <2>1. \A i \in 1 .. Len(acc) - 1 : ~(i < 1)
    BY <1>0
  <2>2. 1 \in 1 .. Len(acc)
    BY <1>0, <1>1
  <2>3. /\ RemoveAt(acc, 1) \in Seq(Accumulator) /\ Len(RemoveAt(acc, 1)) = Len(acc) - 1
        /\ \A i \in 1 .. Len(acc) - 1 : RemoveAt(acc, 1)[i] = IF i < 1 THEN acc[i] ELSE acc[i + 1]
    BY <1>0, <2>2, Removed
  <2>4. QED
    BY <2>1, <2>3
<1>4. /\ Tail(acc) \in Seq(Accumulator) /\ Len(Tail(acc)) = Len(acc) - 1
      /\ \A i \in 1 .. Len(acc) - 1 : Tail(acc)[i] = acc[i + 1]
  BY <1>0, <1>1
<1>5. Tail(acc) = RemoveAt(acc, 1)
  <2> DEFINE t == Tail(acc)
             u == RemoveAt(acc, 1)
  <2>1. /\ t \in Seq(Accumulator) /\ u \in Seq(Accumulator) /\ Len(t) = Len(u)
        /\ \A i \in 1 .. Len(t) : t[i] = u[i]
    BY <1>3, <1>4
  <2> HIDE DEF t, u
  <2>2. t = u
    BY <2>1, SeqEqual
  <2>3. QED
    BY <2>2 DEF t, u
<1>6. QED
  BY <1>0, <1>1, <1>2, <1>5, RemovedFacts, AccTypes


----------------------------------------------------------------------------
(* What a step does to each part of the invariant.                         *)

\* A request is made.
LEMMA AskedAsk ==
  ASSUME DecodeType, AskedInv, NEW r \in Responses, MayAsk(r), UNCHANGED <<cli, life, told, over>>
  PROVE  /\ AskedInv' /\ asked' \in Seq(Responses) /\ Range(asked') = Range(asked) \cup {r}
         /\ r \notin Range(asked) /\ Len(asked) <= Len(asked')
         /\ \A i \in DOMAIN asked : i \in DOMAIN asked' /\ asked'[i] = asked[i]
<1>1. /\ asked' = Append(asked, r) /\ r \notin Range(asked) /\ life = "running"
      /\ r # Title => 1 .. r - 1 \subseteq over
      /\ cli = "kimi" => Range(asked) \subseteq over
  BY DEF MayAsk
<1>2. /\ asked' \in Seq(Responses) /\ Len(asked') = Len(asked) + 1 /\ Len(asked) \in Nat
      /\ DOMAIN asked' = 1 .. Len(asked) + 1 /\ DOMAIN asked = 1 .. Len(asked)
      /\ \A i \in 1 .. Len(asked) : asked'[i] = asked[i]
      /\ asked'[Len(asked) + 1] = r /\ Range(asked') = Range(asked) \cup {r}
  BY <1>1, Appended DEF DecodeType
<1> DEFINE n == Len(asked)
<1> HIDE DEF n
<1>3. \A i \in DOMAIN asked' : i \in 1 .. n \/ i = n + 1
  BY <1>2 DEF n
<1>4. \A i \in 1 .. n : asked[i] \in Range(asked) /\ asked[i] # r /\ asked[i] \in Nat /\ i \in Nat /\ i < n + 1
  <2>1. \A i \in 1 .. n : asked[i] \in Range(asked)
    BY <1>2 DEF Range, n
  <2>2. Range(asked) \subseteq Nat
    BY AskedTypes, Names
  <2>3. n \in Nat
    BY <1>2 DEF n
  <2>4. QED
    BY <1>1, <2>1, <2>2, <2>3
<1>5. ASSUME NEW i \in 1 .. n, asked[i] # Title, r # Title
      PROVE  asked[i] < r /\ asked[i] \in over
  <2>1. r \in Nat /\ r >= 1 /\ asked[i] \in Nat /\ asked[i] >= 1
    BY <1>4, <1>5, Names DEF Title
  <2>2. ~(r < asked[i])
    <3>1. SUFFICES ASSUME r < asked[i] PROVE FALSE
      OBVIOUS
    <3>2. r \in 1 .. asked[i] - 1
      BY <2>1, <3>1
    <3>3. r \in over
      BY <1>2, <3>2 DEF AskedInv, n
    <3>4. QED
      BY <1>1, <3>3 DEF DecodeType
  <2>3. asked[i] < r
    BY <1>4, <2>1, <2>2
  <2>4. asked[i] \in 1 .. r - 1
    BY <2>1, <2>3
  <2>5. QED
    BY <1>1, <1>5, <2>3, <2>4
<1>6. \A i, j \in DOMAIN asked' : asked'[i] = asked'[j] => i = j
  BY <1>2, <1>3, <1>4 DEF AskedInv, n
<1>7. \A i, j \in DOMAIN asked' : i < j /\ asked'[i] # Title /\ asked'[j] # Title =>
        asked'[i] < asked'[j] /\ asked'[i] \in over
  <2> SUFFICES ASSUME NEW i \in DOMAIN asked', NEW j \in DOMAIN asked', i < j, asked'[i] # Title, asked'[j] # Title
               PROVE  asked'[i] < asked'[j] /\ asked'[i] \in over
    OBVIOUS
  <2>1. i \in 1 .. n /\ asked'[i] = asked[i]
    BY <1>2, <1>3 DEF n
  <2>2. CASE j = n + 1
    BY <2>1, <2>2, <1>2, <1>5 DEF n
  <2>3. CASE j \in 1 .. n
    BY <2>1, <2>3, <1>2 DEF AskedInv, n
  <2>4. QED
    BY <2>2, <2>3, <1>3
<1>8. \A i \in DOMAIN asked' : 1 .. asked'[i] - 1 \subseteq over
  <2>1. \A i \in 1 .. n : 1 .. asked'[i] - 1 \subseteq over
    BY <1>2 DEF AskedInv, n
  <2>2. 1 .. r - 1 \subseteq over
    BY <1>1, Names DEF Title
  <2>3. QED
    BY <1>2, <1>3, <2>1, <2>2 DEF n
<1>9. cli = "kimi" => \A i, j \in DOMAIN asked' : i < j => asked'[i] \in over
  <2>1. \A i, j \in DOMAIN asked' : i < j => i \in 1 .. n
    BY <1>2, <1>3 DEF n
  <2>2. QED
    BY <2>1, <1>1, <1>2, <1>4 DEF n
<1>10. \A x \in Responses : (told[x] > 0 => x \in Range(asked')) /\ (x \notin over => told[x] < Events)
  BY <1>2 DEF AskedInv
<1>11. AskedInv'
  BY <1>1, <1>6, <1>7, <1>8, <1>9, <1>10 DEF AskedInv
<1>12. QED
  BY <1>1, <1>2, <1>11

\* Something comes of an open response, or it breaks off.
LEMMA AskedTell ==
  ASSUME DecodeType, AskedInv, NEW r \in Range(asked) \ over, UNCHANGED <<cli, life, asked>>,
         \/ told' = [told EXCEPT ![r] = told[r] + 1] /\ over' = IF told'[r] = Events THEN over \cup {r} ELSE over
         \/ told' = told /\ over' = over \cup {r}
  PROVE  /\ AskedInv' /\ told' \in [Responses -> Nat] /\ over' \subseteq Range(asked) /\ over \subseteq over'
         /\ \A x \in Responses : x # r => told'[x] = told[x]
<1>1. r \in Responses /\ told[r] \in Nat /\ Events \in Nat /\ told[r] < Events
  BY AskedTypes, DecodeAssumption DEF DecodeType, AskedInv
<1>2. /\ told' \in [Responses -> Nat] /\ over' \subseteq Range(asked) /\ over \subseteq over'
      /\ \A x \in Responses : x # r => told'[x] = told[x]
      /\ r \notin over' => told'[r] < Events
  <2>0. told \in [Responses -> Nat] /\ over \subseteq Range(asked)
    BY DEF DecodeType
  <2>1. CASE told' = [told EXCEPT ![r] = told[r] + 1] /\ over' = IF told'[r] = Events THEN over \cup {r} ELSE over
    <3>1. told' \in [Responses -> Nat] /\ told'[r] = told[r] + 1 /\ \A x \in Responses : x # r => told'[x] = told[x]
      BY <1>1, <2>0, <2>1
    <3>2. \/ over' = over \cup {r}
          \/ over' = over /\ told[r] + 1 # Events
      BY <2>1, <3>1
    <3>3. r \notin over' => told[r] + 1 < Events
      BY <1>1, <3>2
    <3>4. over' \subseteq Range(asked) /\ over \subseteq over'
      BY <2>0, <3>2
    <3>5. QED
      BY <3>1, <3>3, <3>4
  <2>2. CASE told' = told /\ over' = over \cup {r}
    BY <1>1, <2>0, <2>2
  <2>3. QED
    BY <2>1, <2>2
<1>3. \A x \in Responses : /\ told'[x] > 0 => x \in Range(asked)
                           /\ x \notin over' => told'[x] < Events
  BY <1>2 DEF AskedInv
<1>4. /\ \A i, j \in DOMAIN asked : i < j /\ asked[i] # Title /\ asked[j] # Title =>
           asked[i] < asked[j] /\ asked[i] \in over'
      /\ \A i \in DOMAIN asked : 1 .. asked[i] - 1 \subseteq over'
      /\ cli = "kimi" => \A i, j \in DOMAIN asked : i < j => asked[i] \in over'
  BY <1>2 DEF AskedInv
<1>5. life # "off"
  BY AskedTypes DEF AskedInv, Range
<1>6. AskedInv'
  BY <1>3, <1>4, <1>5 DEF AskedInv
<1>7. QED
  BY <1>2, <1>6

\* Accumulators of responses of which nothing is told stay as they are.
LEMMA AccumulatorStays ==
  ASSUME DecodeType, AccInv, cli' = cli, Len(asked) <= Len(asked'), Len(asked') \in Nat,
         \A i \in DOMAIN asked : asked'[i] = asked[i],
         cli = "kimi" => asked' = asked,
         NEW b \in Range(acc), told'[Of(b.events)] = told[Of(b.events)]
  PROVE  AccumulatorOf(b)'
<1>1. AccumulatorOf(b) /\ b.at \in Nat
  BY AccTypes DEF AccInv, Accumulator
<1>2. Len(asked) \in Nat /\ DOMAIN asked = 1 .. Len(asked)
  BY AskedTypes
<1>3. b.at <= Len(asked') /\ \E j \in 1 .. b.at : asked'[j] = Of(b.events)
  BY <1>1, <1>2 DEF AccumulatorOf
<1>4. QED
  BY <1>1, <1>3 DEF AccumulatorOf, KeyOf

\* A turn is recorded.
LEMMA RecordStep ==
  ASSUME DecodeType, RecordedInv, NEW events \in Seq(Told), NEW q \in Name,
         recorded' = Append(recorded, Turn(events, q)), Prefix(events),
         over \subseteq over', life' = "running" => life = "running" /\ Of(events) \in over',
         \A i \in DOMAIN recorded : Of(recorded[i].events) # Of(events),
         \A b \in Range(acc') : b \in Range(acc) /\ Of(b.events) # Of(events),
         life' = "running" => \A x \in Responses \ over' : told'[x] > 0 => \E b \in Range(acc') : Of(b.events) = x
  PROVE  RecordedInv' /\ recorded' \in Seq(Record)
<1> DEFINE t == Turn(events, q)
           n == Len(recorded)
<1>1. t \in Record /\ t.events = events
  BY DEF Turn, Record
<1> HIDE DEF t
<1>2. /\ recorded' \in Seq(Record) /\ DOMAIN recorded' = 1 .. n + 1 /\ DOMAIN recorded = 1 .. n /\ n \in Nat
      /\ \A i \in 1 .. n : recorded'[i] = recorded[i]
      /\ recorded'[n + 1] = t
  BY <1>1, Appended DEF DecodeType, t
<1> HIDE DEF n
<1>3. \A i \in DOMAIN recorded' : (i \in DOMAIN recorded /\ recorded'[i] = recorded[i]) \/ (i = n + 1 /\ recorded'[i] = t)
  BY <1>2
<1>4. ASSUME NEW i \in DOMAIN recorded'
      PROVE  /\ Prefix(recorded'[i].events)
             /\ life' = "running" => Of(recorded'[i].events) \in over'
             /\ \A b \in Range(acc') : Of(b.events) # Of(recorded'[i].events)
  BY <1>1, <1>3 DEF RecordedInv
<1>5. \A i, j \in DOMAIN recorded' : Of(recorded'[i].events) = Of(recorded'[j].events) => i = j
  BY <1>1, <1>3 DEF RecordedInv
<1>6. RecordedInv'
  BY <1>4, <1>5 DEF RecordedInv
<1>7. QED
  BY <1>2, <1>6

\* An accumulator is not of a response that has been recorded.
LEMMA NotRecorded ==
  ASSUME RecordedInv, NEW a \in Range(acc)
  PROVE  \A i \in DOMAIN recorded : Of(recorded[i].events) # Of(a.events)
  BY DEF RecordedInv

\* What is forgotten stays so.
LEMMA ForgottenGrows ==
  ASSUME DecodeType, Range(asked) \subseteq Range(asked'),
         \A x \in pending' : x \in pending \/ x \notin Range(asked),
         \/ recorded' = recorded
         \/ \E events : \E q \in pending \cup {None} :
              Turn(events, q) \in Record /\ recorded' = Append(recorded, Turn(events, q))
  PROVE  Forgotten' = {} => Forgotten = {}
<1> SUFFICES ASSUME NEW x \in Forgotten PROVE x \in Forgotten'
  OBVIOUS
<1>1. /\ x \in Range(asked) /\ x \notin pending /\ x # None
      /\ \A i \in DOMAIN recorded : recorded[i].request # x
  BY AskedTypes, Names DEF Forgotten
<1>2. \A i \in DOMAIN recorded' : recorded'[i].request # x
  <2>1. CASE recorded' = recorded
    BY <1>1, <2>1
  <2>2. CASE \E events : \E q \in pending \cup {None} :
               Turn(events, q) \in Record /\ recorded' = Append(recorded, Turn(events, q))
    <3>0. PICK events : \E q \in pending \cup {None} :
            Turn(events, q) \in Record /\ recorded' = Append(recorded, Turn(events, q))
      BY <2>2
    <3>1. PICK q \in pending \cup {None} :
            Turn(events, q) \in Record /\ recorded' = Append(recorded, Turn(events, q))
      BY <3>0
    <3> DEFINE t == Turn(events, q)
    <3>2. t.request = q /\ q # x
      BY <1>1 DEF Turn
    <3> HIDE DEF t
    <3>3. /\ DOMAIN recorded' = 1 .. Len(recorded) + 1 /\ DOMAIN recorded = 1 .. Len(recorded)
          /\ \A i \in 1 .. Len(recorded) : recorded'[i] = recorded[i]
          /\ recorded'[Len(recorded) + 1] = t /\ Len(recorded) \in Nat
      BY <3>1, Appended DEF DecodeType, t
    <3>4. \A i \in DOMAIN recorded' : i \in DOMAIN recorded \/ i = Len(recorded) + 1
      BY <3>3
    <3>5. QED
      BY <1>1, <3>2, <3>3, <3>4
  <2>3. QED
    BY <2>1, <2>2
<1>3. x \in Range(asked') /\ x \notin pending'
  BY <1>1
<1>4. QED
  BY <1>2, <1>3 DEF Forgotten

\* The requests of the turns, with one more turn.
LEMMA RequestStep ==
  ASSUME DecodeType, RequestInv, cli' = cli, life' = "running" => life = "running", over \subseteq over',
         Forgotten' = {} => Forgotten = {},
         NEW events \in Seq(Told), NEW q \in Name, recorded' = Append(recorded, Turn(events, q)),
         IsTerminal(events) /\ (cli = "codex" \/ Forgotten = {}) => q = Of(events),
         cli = "codex" => Range(asked') \ over' \subseteq pending',
         cli # "codex" /\ Forgotten = {} /\ life' = "running" => q \in over' \cup {None}
  PROVE  RequestInv'
<1> DEFINE t == Turn(events, q)
           n == Len(recorded)
<1>1. t \in Record /\ t.events = events /\ t.request = q
  BY DEF Turn, Record
<1> HIDE DEF t
<1>2. /\ DOMAIN recorded' = 1 .. n + 1 /\ DOMAIN recorded = 1 .. n /\ n \in Nat
      /\ \A i \in 1 .. n : recorded'[i] = recorded[i]
      /\ recorded'[n + 1] = t
  BY <1>1, Appended DEF DecodeType, t
<1> HIDE DEF n
<1>3. \A i \in DOMAIN recorded' : (i \in DOMAIN recorded /\ recorded'[i] = recorded[i]) \/ (i = n + 1 /\ recorded'[i] = t)
  BY <1>2
<1>4. OwnRequest'
  <2> SUFFICES ASSUME cli = "codex" \/ Forgotten = {}, NEW i \in DOMAIN recorded', IsTerminal(recorded'[i].events)
               PROVE  recorded'[i].request = recorded'[i].events[1].of
    BY DEF OwnRequest
  <2>1. QED
    BY <1>1, <1>3 DEF RequestInv, OwnRequest, Of
<1>5. cli' # "codex" /\ Forgotten' = {} /\ life' = "running" =>
        \A i \in DOMAIN recorded' : recorded'[i].request \in over' \cup {None}
  BY <1>1, <1>3 DEF RequestInv
<1>6. QED
  BY <1>4, <1>5 DEF RequestInv

\* The requests of the turns, with no turn more.
LEMMA RequestStays ==
  ASSUME DecodeType, RequestInv, cli' = cli, life' = "running" => life = "running", over \subseteq over',
         Forgotten' = {} => Forgotten = {}, recorded' = recorded,
         cli = "codex" => Range(asked') \ over' \subseteq pending'
  PROVE  RequestInv'
<1>1. OwnRequest'
  BY DEF RequestInv, OwnRequest
<1>2. cli' # "codex" /\ Forgotten' = {} /\ life' = "running" =>
        \A i \in DOMAIN recorded' : recorded'[i].request \in over' \cup {None}
  BY DEF RequestInv
<1>3. QED
  BY <1>1, <1>2 DEF RequestInv

----------------------------------------------------------------------------
(* The decoder's steps.                                                    *)

\* What the invariant says of the types of an accumulator.
LEMMA AccFacts ==
  ASSUME DecodeType, AccInv, NEW a \in Range(acc)
  PROVE  /\ a \in Accumulator /\ a.events \in Seq(Told) /\ a.key \in Name /\ a.at \in Nat
         /\ AccumulatorOf(a) /\ Prefix(a.events) /\ ~IsTerminal(a.events)
         /\ Of(a.events) \in Range(asked)
<1>1. a \in Accumulator /\ a.events \in Seq(Told) /\ a.key \in Name /\ a.at \in Nat /\ AccumulatorOf(a)
  BY AccTypes DEF AccInv, Accumulator
<1>2. Prefix(a.events) /\ Len(a.events) < Events /\ Events \in Nat
  BY <1>1, DecodeAssumption DEF AccumulatorOf
<1>3. ~IsTerminal(a.events)
  <2>1. SUFFICES ASSUME NEW i \in DOMAIN a.events, a.events[i].nth = Events PROVE FALSE
    BY DEF IsTerminal
  <2>2. a.events[i] = [of |-> Of(a.events), nth |-> i]
    BY <1>2 DEF Prefix
  <2>3. i = Events /\ i \in 1 .. Len(a.events) /\ Len(a.events) \in Nat
    BY <1>1, <2>1, <2>2
  <2>4. QED
    BY <1>2, <2>3
<1>4. Of(a.events) \in Range(asked)
  <2>1. PICK j \in 1 .. a.at : asked[j] = Of(a.events)
    BY <1>1 DEF AccumulatorOf
  <2>2. j \in DOMAIN asked
    BY <1>1, AskedTypes DEF AccumulatorOf
  <2>3. QED
    BY <2>1, <2>2 DEF Range
<1>5. QED
  BY <1>1, <1>2, <1>3, <1>4

\* agy or codex asks, or kimi with no response open.
LEMMA AskStep ==
  ASSUME DecodeInv, NEW r \in Responses, MayAsk(r), UNCHANGED <<cli, life, work, told, over, acc, recorded>>,
         pending' \subseteq pending \cup {r}, cli = "codex" => pending' = pending \cup {r},
         cli = "kimi" => acc = <<>>
  PROVE  DecodeInv'
<1>1. /\ AskedInv' /\ asked' \in Seq(Responses) /\ Range(asked') = Range(asked) \cup {r}
      /\ r \notin Range(asked) /\ Len(asked) <= Len(asked')
      /\ \A i \in DOMAIN asked : i \in DOMAIN asked' /\ asked'[i] = asked[i]
  BY AskedAsk DEF DecodeInv
<1>2. DecodeType'
  BY <1>1 DEF DecodeInv, DecodeType
<1>3. AccInv'
  <2>1. ASSUME NEW b \in Range(acc) PROVE AccumulatorOf(b)'
    <3>1. cli # "kimi"
      BY <2>1 DEF Range
    <3>2. Len(asked') \in Nat
      BY <1>1
    <3>3. QED
      BY <3>1, <3>2, <1>1, AccumulatorStays DEF DecodeInv
  <2>2. QED
    BY <2>1 DEF AccInv, DecodeInv
<1>4. RecordedInv'
  BY DEF DecodeInv, RecordedInv
<1>5. Forgotten' = {} => Forgotten = {}
  BY <1>1, ForgottenGrows DEF DecodeInv
<1>6. cli = "codex" => Range(asked') \ over' \subseteq pending'
  BY <1>1 DEF DecodeInv, RequestInv
<1>7. RequestInv'
  BY <1>5, <1>6, RequestStays DEF DecodeInv
<1>8. QED
  BY <1>1, <1>2, <1>3, <1>4, <1>7 DEF DecodeInv

\* kimi asks, and the response that was open is recorded first.
LEMMA KimiStep ==
  ASSUME DecodeInv, NEW r \in Responses, cli = "kimi", MayAsk(r), UNCHANGED <<cli, life, work, told, over>>,
         acc # <<>>, acc' = <<>>,
         NEW q \in pending \cup {None}, recorded' = Append(recorded, Turn(Head(acc).events, q)),
         pending' \subseteq pending \cup {r}
  PROVE  DecodeInv'
<1> DEFINE a == Head(acc)
<1>1. /\ AskedInv' /\ asked' \in Seq(Responses) /\ Range(asked') = Range(asked) \cup {r}
      /\ r \notin Range(asked)
  BY AskedAsk DEF DecodeInv
<1>2. a \in Range(acc)
  BY OldestFacts DEF DecodeInv, AccInv, Distinct
<1> HIDE DEF a
<1>3. /\ a.events \in Seq(Told) /\ Prefix(a.events) /\ ~IsTerminal(a.events) /\ Of(a.events) \in Range(asked)
      /\ \A i \in DOMAIN recorded : Of(recorded[i].events) # Of(a.events)
  BY <1>2, AccFacts, NotRecorded DEF DecodeInv
<1>4. Range(asked) \subseteq over /\ life = "running"
  BY DEF MayAsk
<1>5. q \in Name /\ q \in over \cup {None}
  BY <1>4, AskedTypes DEF DecodeInv, DecodeType, Name
<1>6. Range(acc') = {}
  BY DEF Range
<1>7. \A x \in Responses \ over' : ~(told'[x] > 0)
  BY <1>4 DEF DecodeInv, AskedInv
<1>8. RecordedInv' /\ recorded' \in Seq(Record)
  BY <1>3, <1>4, <1>5, <1>6, <1>7, RecordStep DEF DecodeInv, a
<1>9. <<>> \in Seq(Accumulator)
  OBVIOUS
<1>10. DecodeType'
  BY <1>1, <1>8, <1>9 DEF DecodeInv, DecodeType
<1>11. AccInv'
  BY <1>6 DEF AccInv
<1>12. Turn(a.events, q) \in Record
  BY <1>3, <1>5 DEF Turn, Record
<1>13. Forgotten' = {} => Forgotten = {}
  BY <1>1, <1>12, ForgottenGrows DEF DecodeInv, a
<1>14. RequestInv'
  BY <1>3, <1>5, <1>13, RequestStep DEF DecodeInv, a
<1>15. QED
  BY <1>1, <1>8, <1>10, <1>11, <1>14 DEF DecodeInv

\* An event comes that is not the last one.
LEMMA KeepStep ==
  ASSUME DecodeInv, NEW r \in Responses, Tell(r), UNCHANGED <<cli, life, work, pending, recorded>>,
         ~IsTerminal(Grown(KeyOf(r), r).events), Keep(Grown(KeyOf(r), r))
  PROVE  DecodeInv'
<1>a. PICK a : a = Grown(KeyOf(r), r)
  OBVIOUS
<1>0. DecodeType /\ AskedInv /\ AccInv /\ RecordedInv /\ RequestInv /\ Distinct(acc)
  BY DEF DecodeInv, AccInv, Distinct
<1>1. /\ r \in Range(asked) \ over /\ life = "running" /\ asked' = asked
      /\ told' = [told EXCEPT ![r] = told[r] + 1]
      /\ over' = IF told'[r] = Events THEN over \cup {r} ELSE over
  BY DEF Tell
<1>2. /\ AskedInv' /\ told' \in [Responses -> Nat] /\ over' \subseteq Range(asked) /\ over \subseteq over'
      /\ \A x \in Responses : x # r => told'[x] = told[x]
  BY <1>0, <1>1, AskedTell
<1>3. /\ a \in Accumulator /\ a.key = KeyOf(r) /\ Of(a.events) = r /\ Prefix(a.events)
      /\ Len(a.events) = told[r] + 1 /\ told[r] + 1 <= Events
      /\ a.at <= Len(asked) /\ \E j \in 1 .. a.at : asked[j] = r
      /\ IsTerminal(a.events) <=> told[r] + 1 = Events
  BY <1>0, <1>1, <1>a, GrownFacts
<1>4. ~IsTerminal(a.events) /\ Keep(a)
  BY <1>a
<1>5. /\ acc' \in Seq(Accumulator) /\ Distinct(acc')
      /\ Range(acc') = {b \in Range(acc) : b.key # a.key} \cup {a}
  BY <1>0, <1>3, <1>4, KeptFacts
<1>6. \A b \in Range(acc) : b.key # a.key <=> Of(b.events) # r
  BY <1>0, <1>1, <1>3, KeyIsOwn
<1>7. told[r] \in Nat /\ told'[r] = told[r] + 1 /\ told[r] + 1 # Events /\ over' = over /\ Events \in Nat
  BY <1>0, <1>1, <1>3, <1>4, DecodeAssumption DEF DecodeType
<1>8. AccumulatorOf(a)'
  <2>1. cli = "kimi" => asked[Len(asked)] = r
    BY <1>0, <1>1, LastAsked
  <2>2. QED
    BY <2>1, <1>1, <1>3, <1>7 DEF AccumulatorOf, KeyOf
<1>9. ASSUME NEW b \in Range(acc), Of(b.events) # r PROVE AccumulatorOf(b)'
  <2>1. Of(b.events) \in Responses
    BY <1>0, AccFacts, AskedTypes
  <2>2. told'[Of(b.events)] = told[Of(b.events)] /\ Len(asked) \in Nat /\ Len(asked) <= Len(asked)
    BY <2>1, <1>0, <1>2, <1>9, AskedTypes
  <2>3. QED
    BY <2>2, <1>0, <1>1, AccumulatorStays
<1>10. AccInv'
  BY <1>5, <1>6, <1>8, <1>9 DEF AccInv, Distinct
<1>11. DecodeType'
  BY <1>0, <1>1, <1>2, <1>5 DEF DecodeType
<1>12. RecordedInv'
  <2>1. \A i \in DOMAIN recorded : Of(recorded[i].events) # r
    BY <1>0, <1>1 DEF RecordedInv
  <2>2. \A b \in Range(acc') : b = a \/ b \in Range(acc)
    BY <1>5
  <2>3. ASSUME NEW x \in Responses \ over, told'[x] > 0 PROVE \E b \in Range(acc') : Of(b.events) = x
    <3>1. CASE x = r
      BY <3>1, <1>3, <1>5
    <3>2. CASE x # r
      <4>1. told[x] > 0
        BY <3>2, <2>3, <1>2
      <4>2. PICK b \in Range(acc) : Of(b.events) = x
        BY <4>1, <1>0, <1>1 DEF RecordedInv
      <4>3. b \in Range(acc')
        BY <4>2, <3>2, <1>5, <1>6
      <4>4. QED
        BY <4>2, <4>3
    <3>3. QED
      BY <3>1, <3>2
  <2>4. QED
    BY <1>0, <1>3, <1>7, <2>1, <2>2, <2>3 DEF RecordedInv
<1>13. Forgotten' = {} => Forgotten = {}
  BY <1>1 DEF Forgotten
<1>14. RequestInv'
  BY <1>0, <1>1, <1>2, <1>7, <1>13, RequestStays DEF RequestInv
<1>15. QED
  BY <1>2, <1>10, <1>11, <1>12, <1>14 DEF DecodeInv

\* A response comes to its end and its turn is recorded.
LEMMA EndStep ==
  ASSUME DecodeInv, NEW r \in Range(asked) \ over, life = "running", UNCHANGED <<cli, life, work, asked>>,
         \/ told' = [told EXCEPT ![r] = told[r] + 1] /\ over' = IF told'[r] = Events THEN over \cup {r} ELSE over
         \/ told' = told /\ over' = over \cup {r},
         r \in over',
         NEW events \in Seq(Told), Prefix(events), Of(events) = r,
         NEW q \in pending \cup {None}, recorded' = Append(recorded, Turn(events, q)),
         acc' = Others(KeyOf(r)),
         pending' \subseteq pending, cli = "codex" => pending' = pending \ {r},
         cli = "codex" /\ IsTerminal(events) => q = r,
         cli # "codex" /\ Forgotten = {} => q = r
  PROVE  DecodeInv'
<1>0. DecodeType /\ AskedInv /\ AccInv /\ RecordedInv /\ RequestInv /\ Distinct(acc)
  BY DEF DecodeInv, AccInv, Distinct
<1>1. /\ AskedInv' /\ told' \in [Responses -> Nat] /\ over' \subseteq Range(asked) /\ over \subseteq over'
      /\ \A x \in Responses : x # r => told'[x] = told[x]
  BY <1>0, AskedTell
<1>2. /\ acc' \in Seq(Accumulator) /\ Distinct(acc')
      /\ Range(acc') = {b \in Range(acc) : b.key # KeyOf(r)}
  BY <1>0, OthersFacts
<1>3. \A b \in Range(acc) : b.key # KeyOf(r) <=> Of(b.events) # r
  BY <1>0, KeyIsOwn
<1>4. ASSUME NEW b \in Range(acc), Of(b.events) # r PROVE AccumulatorOf(b)'
  <2>1. Of(b.events) \in Responses
    BY <1>0, AccFacts, AskedTypes
  <2>2. told'[Of(b.events)] = told[Of(b.events)] /\ Len(asked) \in Nat /\ Len(asked) <= Len(asked)
    BY <2>1, <1>0, <1>1, <1>4, AskedTypes
  <2>3. QED
    BY <2>2, <1>0, AccumulatorStays
<1>5. AccInv'
  BY <1>2, <1>3, <1>4 DEF AccInv, Distinct
<1>6. ASSUME NEW x \in Responses \ over', told'[x] > 0 PROVE \E b \in Range(acc') : Of(b.events) = x
  <2>1. x # r /\ x \notin over /\ told[x] > 0
    BY <1>1, <1>6
  <2>2. PICK b \in Range(acc) : Of(b.events) = x
    BY <2>1, <1>0 DEF RecordedInv
  <2>3. b \in Range(acc')
    BY <2>1, <2>2, <1>2, <1>3
  <2>4. QED
    BY <2>2, <2>3
<1>7. q \in Name
  BY <1>0, AskedTypes DEF Name
<1>8. \A i \in DOMAIN recorded : Of(recorded[i].events) # Of(events)
  BY <1>0 DEF RecordedInv
<1>9. \A b \in Range(acc') : b \in Range(acc) /\ Of(b.events) # Of(events)
  BY <1>2, <1>3
<1>10. RecordedInv' /\ recorded' \in Seq(Record)
  BY <1>0, <1>1, <1>6, <1>7, <1>8, <1>9, RecordStep
<1>11. DecodeType'
  BY <1>0, <1>1, <1>2, <1>10 DEF DecodeType
<1>12. Turn(events, q) \in Record
  BY <1>7 DEF Turn, Record
<1>13. Forgotten' = {} => Forgotten = {}
  BY <1>0, <1>12, ForgottenGrows
<1>14. cli = "codex" => Range(asked') \ over' \subseteq pending'
  BY <1>0, <1>1 DEF RequestInv
<1>15. IsTerminal(events) /\ (cli = "codex" \/ Forgotten = {}) => q = Of(events)
  OBVIOUS
<1>16. RequestInv'
  BY <1>0, <1>1, <1>7, <1>13, <1>14, <1>15, RequestStep
<1>17. QED
  BY <1>1, <1>5, <1>10, <1>11, <1>16 DEF DecodeInv

\* A response breaks off and nothing is recorded.
LEMMA BreakStep ==
  ASSUME DecodeInv, NEW r \in Range(asked) \ over, UNCHANGED <<cli, life, work, asked, told, acc, recorded>>,
         over' = over \cup {r},
         pending' \subseteq pending, cli = "codex" => pending' = pending \ {r}
  PROVE  DecodeInv'
<1>0. DecodeType /\ AskedInv /\ AccInv /\ RecordedInv /\ RequestInv
  BY DEF DecodeInv
<1>1. AskedInv' /\ over' \subseteq Range(asked) /\ over \subseteq over'
  BY <1>0, AskedTell
<1>2. DecodeType'
  BY <1>0, <1>1 DEF DecodeType
<1>3. AccInv'
  BY <1>0 DEF AccInv, AccumulatorOf, KeyOf
<1>4. RecordedInv'
  BY <1>0, <1>1 DEF RecordedInv
<1>5. Forgotten' = {} => Forgotten = {}
  BY DEF Forgotten
<1>6. cli = "codex" => Range(asked') \ over' \subseteq pending'
  BY <1>0 DEF RequestInv
<1>7. RequestInv'
  BY <1>0, <1>1, <1>5, <1>6, RequestStays
<1>8. QED
  BY <1>1, <1>2, <1>3, <1>4, <1>7 DEF DecodeInv

\* The exit book records what began first.
LEMMA EmitStep ==
  ASSUME DecodeInv, life = "exiting", UNCHANGED <<cli, life, work, asked, told, over>>,
         acc # <<>>, acc' = Tail(acc),
         NEW q \in pending \cup {None}, recorded' = Append(recorded, Turn(Head(acc).events, q)),
         pending' \subseteq pending
  PROVE  DecodeInv'
<1>a. PICK a : a = Head(acc)
  OBVIOUS
<1>0. DecodeType /\ AskedInv /\ AccInv /\ RecordedInv /\ RequestInv /\ Distinct(acc)
  BY DEF DecodeInv, AccInv, Distinct
<1>1. /\ acc' \in Seq(Accumulator) /\ Distinct(acc')
      /\ Range(acc') = {b \in Range(acc) : b.key # a.key}
      /\ a \in Range(acc)
  BY <1>a, <1>0, OldestFacts
<1>2. cli = "agy"
  BY <1>0 DEF AskedInv
<1>3. /\ a.events \in Seq(Told) /\ Prefix(a.events) /\ ~IsTerminal(a.events)
      /\ \A i \in DOMAIN recorded : Of(recorded[i].events) # Of(a.events)
  BY <1>0, <1>1, AccFacts, NotRecorded
<1>4. \A b \in Range(acc) : b.key = Of(b.events)
  BY <1>0, <1>2 DEF AccInv, AccumulatorOf, KeyOf
<1>5. \A b \in Range(acc') : b \in Range(acc) /\ Of(b.events) # Of(a.events)
  BY <1>1, <1>4
<1>6. AskedInv' /\ AccInv'
  <2>1. AskedInv'
    BY <1>0 DEF AskedInv
  <2>2. AccInv'
    BY <1>0, <1>1 DEF AccInv, AccumulatorOf, KeyOf, Distinct
  <2>3. QED
    BY <2>1, <2>2
<1>7. q \in Name
  BY <1>0, AskedTypes DEF Name
<1>8. RecordedInv' /\ recorded' \in Seq(Record)
  BY <1>a, <1>0, <1>3, <1>5, <1>7, RecordStep
<1>9. DecodeType'
  BY <1>0, <1>1, <1>8 DEF DecodeType
<1>10. Turn(a.events, q) \in Record
  BY <1>3, <1>7 DEF Turn, Record
<1>11. Forgotten' = {} => Forgotten = {}
  BY <1>a, <1>0, <1>10, ForgottenGrows
<1>12. RequestInv'
  BY <1>a, <1>0, <1>2, <1>3, <1>7, <1>11, RequestStep
<1>13. QED
  BY <1>6, <1>8, <1>9, <1>12 DEF DecodeInv

\* The decoder rests, while the CLI starts, goes on or goes down.
LEMMA IdleStep ==
  ASSUME DecodeInv, UNCHANGED <<cli, decode>>, work' \in Nat,
         life' \in {"off", "running", "exiting", "exited", "killed"},
         life' = "off" => life = "off", life' = "running" => life \in {"off", "running"},
         life' = "exiting" => cli = "agy"
  PROVE  DecodeInv'
<1>0. /\ DecodeType /\ AskedInv /\ AccInv /\ RecordedInv /\ RequestInv
      /\ UNCHANGED <<asked, told, over, pending, acc, recorded>>
  BY DEF DecodeInv, decode
<1>1. DecodeType' /\ AskedInv' /\ AccInv'
  <2>1. DecodeType'
    BY <1>0 DEF DecodeType
  <2>2. AskedInv'
    BY <1>0 DEF AskedInv
  <2>3. AccInv'
    BY <1>0 DEF AccInv, AccumulatorOf, KeyOf
  <2>4. QED
    BY <2>1, <2>2, <2>3
<1>2. life = "off" => /\ recorded = <<>> /\ \A r \in Responses : ~(told[r] > 0)
  <2>1. SUFFICES ASSUME life = "off" PROVE recorded = <<>> /\ \A r \in Responses : ~(told[r] > 0)
    OBVIOUS
  <2>2. asked = <<>> /\ recorded = <<>>
    BY <2>1, <1>0 DEF AskedInv
  <2>3. Range(asked) = {}
    BY <2>2 DEF Range
  <2>4. QED
    BY <2>2, <2>3, <1>0 DEF AskedInv
<1>3. RecordedInv'
  BY <1>0, <1>2 DEF RecordedInv
<1>4. RequestInv'
  BY <1>0, <1>2 DEF RequestInv, OwnRequest, Forgotten
<1>5. QED
  BY <1>1, <1>3, <1>4 DEF DecodeInv

LEMMA DecodeStep ==
  ASSUME DecodeInv, Step
  PROVE  DecodeInv'
<1>0. /\ DecodeType /\ AskedInv /\ AccInv /\ RecordedInv /\ RequestInv /\ UNCHANGED <<cli, work>>
      /\ cli \in {"agy", "codex", "kimi"} /\ Range(asked) \subseteq Responses /\ work \in Nat
      /\ \A a \in Range(acc) : a.key \in Name
  BY DecodeAssumption, AskedTypes, AccFacts DEF DecodeInv, DecodeType, Step
<1>1. ASSUME NEW r \in Responses, NEW S, S \subseteq pending PROVE Remember(S, r) \subseteq pending \cup {r}
  BY <1>1 DEF Remember
<1>2. ASSUME NEW r \in Responses, AgyRequest(r), UNCHANGED life PROVE DecodeInv'
  BY <1>0, <1>1, <1>2, AskStep DEF AgyRequest
<1>3. ASSUME NEW r \in Responses, KimiRequest(r), UNCHANGED life PROVE DecodeInv'
  <2>1. cli = "kimi" /\ MayAsk(r) /\ acc' = <<>> /\ UNCHANGED <<told, over>>
    BY <1>3 DEF KimiRequest
  <2>2. CASE acc = <<>> /\ pending' = Remember(pending, r) /\ UNCHANGED recorded
    BY <2>1, <2>2, <1>0, <1>1, <1>3, AskStep
  <2>3. CASE /\ acc # <<>>
             /\ \E upto \in Head(acc).at .. Len(asked) :
                  LET request == Match(Head(acc).events, upto)
                  IN  /\ recorded' = Append(recorded, Turn(Head(acc).events, request))
                      /\ pending' = Remember(pending \ {request}, r)
    <3>1. PICK upto : /\ recorded' = Append(recorded, Turn(Head(acc).events, Match(Head(acc).events, upto)))
                      /\ pending' = Remember(pending \ {Match(Head(acc).events, upto)}, r)
      BY <2>3
    <3>2. Match(Head(acc).events, upto) \in pending \cup {None}
      BY <1>0, MatchIsPending
    <3>3. pending' \subseteq pending \cup {r}
      BY <3>1, <1>1
    <3>4. QED
      BY <2>1, <2>3, <3>1, <3>2, <3>3, <1>0, <1>3, KimiStep
  <2>4. QED
    BY <2>2, <2>3, <1>3 DEF KimiRequest
<1>4. ASSUME NEW r \in Responses, CodexRequest(r), UNCHANGED life PROVE DecodeInv'
  BY <1>0, <1>4, AskStep DEF CodexRequest
<1>5. ASSUME NEW r \in Responses, Tell(r)
      PROVE  /\ r \in Range(asked) \ over /\ life = "running" /\ asked' = asked
             /\ told' = [told EXCEPT ![r] = told[r] + 1]
             /\ over' = IF told'[r] = Events THEN over \cup {r} ELSE over
             /\ LET a == Grown(KeyOf(r), r) IN
                  /\ a.events \in Seq(Told) /\ Of(a.events) = r /\ Prefix(a.events) /\ a.key = KeyOf(r)
                  /\ a.at \in Nat /\ a.at <= Len(asked) /\ \E j \in 1 .. a.at : asked[j] = r
                  /\ IsTerminal(a.events) => r \in over'
  <2>1. /\ r \in Range(asked) \ over /\ life = "running" /\ asked' = asked
        /\ told' = [told EXCEPT ![r] = told[r] + 1]
        /\ over' = IF told'[r] = Events THEN over \cup {r} ELSE over
    BY <1>5 DEF Tell
  <2>a. PICK a : a = Grown(KeyOf(r), r)
    OBVIOUS
  <2>2. /\ a \in Accumulator /\ Of(a.events) = r /\ Prefix(a.events) /\ a.key = KeyOf(r)
        /\ a.at <= Len(asked) /\ \E j \in 1 .. a.at : asked[j] = r
        /\ IsTerminal(a.events) <=> told[r] + 1 = Events
    BY <2>1, <2>a, <1>0, GrownFacts
  <2>3. a.events \in Seq(Told) /\ a.at \in Nat
    BY <2>2 DEF Accumulator
  <2>4. told'[r] = told[r] + 1
    BY <2>1, <1>0 DEF DecodeType
  <2>5. QED
    BY <2>1, <2>a, <2>2, <2>3, <2>4
<1>6. ASSUME NEW r \in Responses, Event(r), UNCHANGED life PROVE DecodeInv'
  <2>1. cli # "codex" /\ Tell(r) /\ Key(r) = KeyOf(r)
    BY <1>0, <1>6 DEF Event, Key, KeyOf
  <2>a. PICK a : a = Grown(KeyOf(r), r)
    OBVIOUS
  <2>2. CASE IsTerminal(a.events) /\ Emit(a) /\ acc' = Others(a.key)
    <3>1. PICK upto \in a.at .. Len(asked) :
            /\ recorded' = Append(recorded, Turn(a.events, Match(a.events, upto)))
            /\ pending' = pending \ {Match(a.events, upto)}
      BY <2>2 DEF Emit
    <3>2. Match(a.events, upto) \in pending \cup {None}
      BY <1>0, MatchIsPending
    <3>3. ASSUME Forgotten = {} PROVE Match(a.events, upto) = r
      <4>1. r \in pending
        <5>1. r \in Range(asked) \ over /\ r # None
          BY <2>1, <1>5, Names
        <5>2. \A i \in DOMAIN recorded : recorded[i].request # r
          BY <5>1, <3>3, <2>1, <1>0, <1>5 DEF RequestInv
        <5>3. QED
          BY <5>1, <5>2, <3>3 DEF Forgotten
      <4>2. PICK j \in 1 .. a.at : asked[j] = r
        BY <2>1, <2>a, <1>5
      <4>3. r \in Range(asked) \ over /\ a.at \in Nat /\ a.at <= Len(asked) /\ Of(a.events) = r
        BY <2>1, <2>a, <1>5
      <4>4. Len(asked) \in Nat /\ DOMAIN asked = 1 .. Len(asked) /\ When(r) \in 1 .. Len(asked) /\ asked[When(r)] = r
        BY <4>3, <1>0, WhenMade
      <4>5. When(r) = j
        BY <4>2, <4>3, <4>4, <1>0 DEF AskedInv
      <4>6. upto \in Nat /\ When(r) <= upto
        BY <4>2, <4>3, <4>4, <4>5
      <4>7. QED
        BY <4>1, <4>3, <4>6, <2>1, <1>0, MatchIsOwn
    <3>4. r \in over' /\ acc' = Others(KeyOf(r))
      BY <2>1, <2>2, <2>a, <1>5
    <3>5. QED
      BY <2>1, <2>a, <3>1, <3>2, <3>3, <3>4, <1>0, <1>5, <1>6, EndStep
  <2>3. CASE ~IsTerminal(a.events) /\ Keep(a) /\ UNCHANGED <<pending, recorded>>
    BY <2>1, <2>3, <2>a, <1>0, <1>6, KeepStep
  <2>4. QED
    BY <2>1, <2>2, <2>3, <2>a, <1>6 DEF Event
<1>7. ASSUME NEW r \in Responses, CodexEvent(r), UNCHANGED life PROVE DecodeInv'
  <2>1. cli = "codex" /\ Tell(r) /\ KeyOf(r) = r
    BY <1>7 DEF CodexEvent, KeyOf
  <2>a. PICK a : a = Grown(KeyOf(r), r)
    OBVIOUS
  <2>2. CASE IsTerminal(a.events) /\ FinishCodex(a)
    <3>1. /\ recorded' = Append(recorded, Turn(a.events, IF r \in pending THEN r ELSE None))
          /\ pending' = pending \ {r} /\ acc' = Others(KeyOf(r))
      BY <2>1, <2>2, <2>a, <1>5 DEF FinishCodex
    <3>2. r \in pending
      BY <2>1, <1>0, <1>5 DEF RequestInv
    <3>3. QED
      BY <2>1, <2>2, <2>a, <3>1, <3>2, <1>0, <1>5, <1>7, EndStep
  <2>3. CASE ~IsTerminal(a.events) /\ Keep(a) /\ UNCHANGED <<pending, recorded>>
    BY <2>1, <2>3, <2>a, <1>0, <1>7, KeepStep
  <2>4. QED
    BY <2>1, <2>2, <2>3, <2>a, <1>7 DEF CodexEvent
<1>8. ASSUME NEW r \in Responses, Break(r), UNCHANGED life PROVE DecodeInv'
  BY <1>0, <1>8, BreakStep DEF Break
<1>9. ASSUME NEW r \in Responses, CodexEnd(r), UNCHANGED life PROVE DecodeInv'
  <2>1. /\ cli = "codex" /\ life = "running" /\ r \in Range(asked) \ over /\ KeyOf(r) = r
        /\ over' = over \cup {r} /\ UNCHANGED <<asked, told>>
    BY <1>9 DEF CodexEnd, KeyOf
  <2>2. ASSUME NEW a \in Range(acc), a.key = r, FinishCodex(a) PROVE DecodeInv'
    <3>1. /\ recorded' = Append(recorded, Turn(a.events, IF r \in pending THEN r ELSE None))
          /\ pending' = pending \ {r} /\ acc' = Others(KeyOf(r))
      BY <2>1, <2>2 DEF FinishCodex
    <3>2. PICK q \in pending \cup {None} : q = IF r \in pending THEN r ELSE None
      OBVIOUS
    <3>3. Of(a.events) = r
      BY <2>1, <2>2, <1>0, KeyIsOwn
    <3>4. a.events \in Seq(Told) /\ Prefix(a.events) /\ ~IsTerminal(a.events)
      BY <1>0, AccFacts
    <3>5. QED
      BY <2>1, <3>1, <3>2, <3>3, <3>4, <1>0, <1>9, EndStep
  <2>3. CASE ~Open(r) /\ pending' = pending \ {r} /\ UNCHANGED <<acc, recorded>>
    BY <2>1, <2>3, <1>0, <1>9, BreakStep
  <2>4. QED
    BY <2>2, <2>3, <1>9 DEF CodexEnd
<1>10. CASE Dispatch /\ UNCHANGED life
  BY <1>2, <1>3, <1>4, <1>6, <1>7, <1>8, <1>9, <1>10 DEF Dispatch
<1>11. CASE Exit
  BY <1>0, <1>11, IdleStep DEF Exit
<1>12. CASE ExitEmit
  <2>1. PICK upto : /\ recorded' = Append(recorded, Turn(Head(acc).events, Match(Head(acc).events, upto)))
                    /\ pending' = pending \ {Match(Head(acc).events, upto)}
    BY <1>12 DEF ExitEmit, Emit
  <2>2. Match(Head(acc).events, upto) \in pending \cup {None}
    BY <1>0, MatchIsPending
  <2>3. QED
    BY <2>1, <2>2, <1>0, <1>12, EmitStep DEF ExitEmit
<1>13. CASE ExitEnd
  BY <1>0, <1>13, IdleStep DEF ExitEnd
<1>14. CASE Die
  BY <1>0, <1>14, IdleStep DEF Die
<1>15. QED
  BY <1>10, <1>11, <1>12, <1>13, <1>14 DEF Step

----------------------------------------------------------------------------
(* What the decoder records, as the client sees it.                        *)

\* Turns are only added.
Longer == /\ recorded' \in Seq(Record) /\ Len(recorded) <= Len(recorded')
          /\ \A i \in DOMAIN recorded : i \in DOMAIN recorded' /\ recorded'[i] = recorded[i]

LEMMA RecordedGrows ==
  ASSUME DecodeInv, Step
  PROVE  Longer
<1>0. DecodeType /\ DecodeType'
  BY DecodeStep DEF DecodeInv
<1>1. recorded \in Seq(Record) /\ recorded' \in Seq(Record)
  BY <1>0 DEF DecodeType
<1>2. recorded' = recorded \/ \E t : recorded' = Append(recorded, t)
  BY DEF Step, Dispatch, AgyRequest, KimiRequest, CodexRequest, Event, CodexEvent, Break, CodexEnd,
         Emit, FinishCodex, Exit, ExitEmit, ExitEnd, Die, decode
<1>3. CASE recorded' = recorded
  BY <1>1, <1>3 DEF Longer
<1>4. CASE \E t : recorded' = Append(recorded, t)
  <2>1. PICK t : recorded' = Append(recorded, t)
    BY <1>4
  <2>2. /\ Len(recorded') = Len(recorded) + 1 /\ Len(recorded) \in Nat
        /\ DOMAIN recorded = 1 .. Len(recorded) /\ DOMAIN recorded' = 1 .. Len(recorded) + 1
        /\ \A i \in 1 .. Len(recorded) : recorded'[i] = recorded[i]
    BY <1>1, <2>1
  <2>3. QED
    BY <1>1, <2>2 DEF Longer
<1>5. QED
  BY <1>2, <1>3, <1>4

\* There are no more turns than responses.
LEMMA FewTurns ==
  ASSUME DecodeInv
  PROVE  Len(recorded) < NotYet /\ Len(recorded) \in Nat /\ DOMAIN recorded = 1 .. Len(recorded)
<1> DEFINE f == [i \in DOMAIN recorded |-> Of(recorded[i].events)]
<1>1. Len(recorded) \in Nat /\ DOMAIN recorded = 1 .. Len(recorded)
  BY DEF DecodeInv, DecodeType
<1>2. ASSUME NEW i \in DOMAIN recorded PROVE Of(recorded[i].events) \in Responses
  <2>1. recorded[i] \in Record
    BY <1>1 DEF DecodeInv, DecodeType
  <2>a. PICK events : events = recorded[i].events
    OBVIOUS
  <2>2. events \in Seq(Told) /\ events # <<>>
    BY <2>1, <2>a DEF Record, DecodeInv, RecordedInv, Prefix
  <2>3. events[1] \in Told
    BY <2>2
  <2>4. QED
    BY <2>3, <2>a DEF Told, Of
<1>3. f \in [1 .. Len(recorded) -> 0 .. MaxMain]
  BY <1>1, <1>2, Names
<1>4. \A i, j \in 1 .. Len(recorded) : f[i] = f[j] => i = j
  BY <1>1 DEF DecodeInv, RecordedInv
<1> HIDE DEF f
<1>5. /\ IsFiniteSet(1 .. Len(recorded)) /\ Cardinality(1 .. Len(recorded)) = Len(recorded)
      /\ IsFiniteSet(0 .. MaxMain) /\ Cardinality(0 .. MaxMain) = MaxMain + 1
  <2>1. /\ IsFiniteSet(1 .. Len(recorded))
        /\ Cardinality(1 .. Len(recorded)) = IF 1 > Len(recorded) THEN 0 ELSE Len(recorded) - 1 + 1
    BY <1>1, FS_Interval
  <2>2. /\ IsFiniteSet(0 .. MaxMain)
        /\ Cardinality(0 .. MaxMain) = IF 0 > MaxMain THEN 0 ELSE MaxMain - 0 + 1
    BY Names, FS_Interval
  <2>3. QED
    BY <1>1, <2>1, <2>2, Names
<1>6. ~(MaxMain + 1 < Len(recorded))
  <2>1. SUFFICES ASSUME MaxMain + 1 < Len(recorded) PROVE FALSE
    OBVIOUS
  <2>2. \E i, j \in 1 .. Len(recorded) : i # j /\ f[i] = f[j]
    BY <1>3, <1>5, <2>1, FS_PigeonHole
  <2>3. QED
    BY <1>4, <2>2
<1>7. QED
  BY <1>1, <1>6, Names DEF NotYet

\* What has been recorded stays a part of it.
LEMMA SubSeqStays ==
  ASSUME recorded \in Seq(Record), Longer, NEW m \in Nat \ {0}, NEW n \in Nat, n <= Len(recorded)
  PROVE  /\ SubSeq(recorded', m, n) = SubSeq(recorded, m, n)
         /\ SubSeq(recorded, m, n) \in Seq(Record)
<1> DEFINE p == SubSeq(recorded, m, n)
           q == SubSeq(recorded', m, n)
<1>1. /\ Len(recorded) \in Nat /\ Len(recorded') \in Nat /\ Len(recorded) <= Len(recorded')
      /\ recorded' \in Seq(Record) /\ DOMAIN recorded = 1 .. Len(recorded)
  BY DEF Longer
<1>2. /\ p \in Seq(Record) /\ Len(p) = IF m <= n THEN n - m + 1 ELSE 0
      /\ \A i \in 1 .. n - m + 1 : p[i] = recorded[m + i - 1]
  BY <1>1
<1>3. /\ q \in Seq(Record) /\ Len(q) = IF m <= n THEN n - m + 1 ELSE 0
      /\ \A i \in 1 .. n - m + 1 : q[i] = recorded'[m + i - 1]
  BY <1>1
<1> HIDE DEF p, q
<1>4. \A i \in 1 .. n - m + 1 : m + i - 1 \in DOMAIN recorded
  BY <1>1
<1>5. \A i \in 1 .. Len(p) : i \in 1 .. n - m + 1 /\ p[i] = q[i]
  BY <1>2, <1>3, <1>4 DEF Longer
<1>6. p = q
  BY <1>2, <1>3, <1>5, SeqEqual
<1>7. QED
  BY <1>2, <1>6 DEF p, q

\* The file is what was recorded, once a run that captures has begun.
LEMMA FileIsRecorded ==
  ASSUME DecodeType, ModeInv, capturing, phase # "new"
  PROVE  File = recorded
<1>1. leftover = <<>> /\ recorded \in Seq(Record)
  BY DEF ModeInv, DecodeType
<1>2. QED
  BY <1>1 DEF File

\* One more response.
LEMMA OneMore ==
  ASSUME ClientType, NEW turns \in Seq(Record), NEW found \in IdType,
         DecodeType, UNCHANGED <<recorded, from, read>>, Respond(turns, found)
  PROVE  LET n == Len(returned) IN
         /\ returned' \in Seq(Response) /\ id' = found
         /\ n \in Nat /\ Len(returned') = n + 1
         /\ DOMAIN returned = 1 .. n /\ DOMAIN returned' = 1 .. n + 1
         /\ \A i \in 1 .. n : returned'[i] = returned[i]
         /\ \A i \in 0 .. n : Upto(i)' = Upto(i) /\ Heard(i)' = Heard(i)
         /\ returned'[n + 1].turns = turns /\ returned'[n + 1].upto = Len(recorded)
         /\ returned'[n + 1].heard = read /\ returned'[n + 1].id = found
         /\ \A k : k = n + 1 => /\ Upto(k)' = Len(recorded)
                                /\ Heard(k)' = IF read < from THEN from ELSE read
<1> DEFINE r == [turns |-> turns, upto |-> Len(recorded), heard |-> read, id |-> found]
           n == Len(returned)
<1>1. Len(recorded) \in Nat /\ read \in Nat /\ returned \in Seq(Response)
  BY DEF DecodeType, ClientType
<1>2. r \in Response /\ r.turns = turns /\ r.upto = Len(recorded) /\ r.heard = read /\ r.id = found
  BY <1>1 DEF Response
<1>3. returned' = Append(returned, r) /\ id' = found
  BY DEF Respond
<1> HIDE DEF r
<1>4. /\ returned' \in Seq(Response) /\ Len(returned') = n + 1 /\ n \in Nat
      /\ DOMAIN returned = 1 .. n /\ DOMAIN returned' = 1 .. n + 1
      /\ \A i \in 1 .. n : returned'[i] = returned[i]
      /\ returned'[n + 1] = r
  BY <1>1, <1>2, <1>3, Appended
<1> HIDE DEF n
<1>5. \A i \in 0 .. n : i = 0 \/ i \in 1 .. n
  BY <1>4
<1>6. ASSUME NEW i \in 0 .. n PROVE Upto(i)' = Upto(i) /\ Heard(i)' = Heard(i)
  BY <1>4, <1>5 DEF Upto, Heard
<1>7. n + 1 # 0
  BY <1>4
<1>8. ASSUME NEW k, k = n + 1 PROVE Upto(k)' = Len(recorded) /\ Heard(k)' = IF read < from THEN from ELSE read
  BY <1>2, <1>4, <1>7, <1>8 DEF Upto, Heard
<1>9. QED
  BY <1>2, <1>3, <1>4, <1>6, <1>8 DEF n

----------------------------------------------------------------------------
(* The client's steps.                                                     *)

LEMMA Parts ==
  ASSUME AskInv
  PROVE  /\ DecodeInv /\ DecodeType /\ ClientType /\ ModeInv /\ StreamInv /\ ResponsesExact
         /\ recorded \in Seq(Record) /\ Len(recorded) \in Nat /\ DOMAIN recorded = 1 .. Len(recorded)
         /\ returned \in Seq(Response) /\ Len(returned) \in Nat /\ DOMAIN returned = 1 .. Len(returned)
         /\ \A i \in DOMAIN returned : Exact(i)
         /\ \A i \in DOMAIN returned : /\ returned[i].upto \in Nat /\ returned[i].heard \in Nat
                                       /\ returned[i].turns \in Seq(Record) /\ returned[i].id \in IdType
         /\ \A i \in 0 .. Len(returned) : Upto(i) \in Nat /\ Heard(i) \in Nat
         /\ Len(recorded) < NotYet
<1>1. /\ DecodeInv /\ DecodeType /\ ClientType /\ ModeInv /\ StreamInv /\ ResponsesExact
      /\ recorded \in Seq(Record) /\ returned \in Seq(Response) /\ Len(recorded) < NotYet
  BY FewTurns DEF AskInv, ClientInv, DecodeInv, DecodeType, ClientType
<1>2. /\ Len(recorded) \in Nat /\ DOMAIN recorded = 1 .. Len(recorded)
      /\ Len(returned) \in Nat /\ DOMAIN returned = 1 .. Len(returned)
  BY <1>1
<1>3. \A i \in DOMAIN returned : Exact(i)
  BY <1>1 DEF ResponsesExact, Exact
<1>4. ASSUME NEW i \in DOMAIN returned
      PROVE  /\ returned[i].upto \in Nat /\ returned[i].heard \in Nat
             /\ returned[i].turns \in Seq(Record) /\ returned[i].id \in IdType
  <2>1. returned[i] \in Response
    BY <1>1, <1>2
  <2>2. QED
    BY <2>1 DEF Response
<1>5. ASSUME NEW i \in 0 .. Len(returned) PROVE Upto(i) \in Nat /\ Heard(i) \in Nat
  <2>1. i = 0 \/ i \in DOMAIN returned
    BY <1>2
  <2>2. QED
    BY <2>1, <1>1, <1>4 DEF Upto, Heard, ClientType
<1>6. QED
  BY <1>1, <1>2, <1>3, <1>4, <1>5

\* Steps that neither read nor answer.
LEMMA RestingStep ==
  ASSUME AskInv, UNCHANGED <<mode, capturing, tailing, recorded, from, read, got, cursor, returned>>,
         sent' \in Nat, read <= sent', sent' <= Len(recorded), from = NotYet => sent' = 0,
         mode = "ask_sdk" /\ phase' = "done" => phase = "done" \/ returned = <<>>,
         phase = "done" => phase' = "done"
  PROVE  StreamInv' /\ ResponsesExact'
<1>1. /\ StreamInv /\ \A i \in DOMAIN returned : Exact(i)
  BY Parts
<1>2. \A i : Upto(i)' = Upto(i) /\ Heard(i)' = Heard(i)
  BY DEF Upto, Heard
<1>3. StreamInv'
  <2>1. Upto(Len(returned))' = Upto(Len(returned)) /\ Heard(Len(returned))' = Heard(Len(returned))
    BY DEF Upto, Heard
  <2>2. QED
    BY <1>1, <2>1 DEF StreamInv, Sdk
<1>4. \A i \in DOMAIN returned : Exact(i)'
  BY <1>1, <1>2 DEF Exact, Streamed
<1>5. QED
  BY <1>3, <1>4 DEF ResponsesExact, Exact

\* The client rests while the decoder goes on.
LEMMA RecordingStep ==
  ASSUME AskInv, CliStep
  PROVE  AskInv'
<1>0. /\ DecodeInv /\ DecodeType /\ ClientType /\ ModeInv /\ StreamInv /\ \A i \in DOMAIN returned : Exact(i)
      /\ recorded \in Seq(Record) /\ Len(recorded) \in Nat /\ DOMAIN recorded = 1 .. Len(recorded)
      /\ Len(returned) \in Nat /\ DOMAIN returned = 1 .. Len(returned)
      /\ \A i \in DOMAIN returned : returned[i].upto \in Nat /\ returned[i].heard \in Nat
      /\ \A i \in 0 .. Len(returned) : Upto(i) \in Nat /\ Heard(i) \in Nat
  BY Parts
<1>1. /\ Step
      /\ UNCHANGED <<cli, mode, capturing, tailing, wanted, leftover, made, recent, wrote, from, sent, read, phase, got, id, cursor, returned>>
  BY DEF CliStep, config, store, stream, call
<1>2. DecodeInv' /\ Longer
  BY <1>0, <1>1, DecodeStep, RecordedGrows
<1>3. life \in {"running", "exiting"} /\ life' # "off" /\ Running
  BY <1>1 DEF Step, Dispatch, AgyRequest, KimiRequest, CodexRequest, MayAsk, Event, CodexEvent, Tell, Break, CodexEnd,
              Exit, ExitEmit, ExitEnd, Die, Running
<1>4. ClientType'
  BY <1>0, <1>1 DEF ClientType
<1>5. ModeInv'
  BY <1>0, <1>1, <1>3 DEF ModeInv, Sdk, Running
<1>6. \A i : Upto(i)' = Upto(i) /\ Heard(i)' = Heard(i)
  BY <1>1 DEF Upto, Heard
<1>7. StreamInv'
  <2>1. Upto(Len(returned))' = Upto(Len(returned)) /\ Heard(Len(returned))' = Heard(Len(returned))
    BY <1>1 DEF Upto, Heard
  <2>2. Len(recorded) <= Len(recorded') /\ Len(recorded') \in Nat
    BY <1>2 DEF Longer
  <2>3. read \in Nat /\ sent \in Nat /\ read <= Len(recorded) /\ Heard(Len(returned)) + 1 \in Nat \ {0}
    <3>1. read \in Nat /\ sent \in Nat /\ read <= sent /\ sent <= Len(recorded)
      BY <1>0 DEF ClientType, StreamInv
    <3>2. Len(returned) \in 0 .. Len(returned)
      BY <1>0
    <3>3. Heard(Len(returned)) \in Nat
      BY <3>2, <1>0
    <3>4. QED
      BY <3>1, <3>3, <1>0
  <2>4. SubSeq(recorded', Heard(Len(returned)) + 1, read) = SubSeq(recorded, Heard(Len(returned)) + 1, read)
    BY <2>3, <1>0, <1>2, SubSeqStays
  <2>5. \A i \in DOMAIN returned : returned[i].upto <= Len(recorded')
    BY <2>2, <1>0 DEF StreamInv
  <2>6. sent <= Len(recorded')
    BY <2>2, <2>3, <1>0 DEF StreamInv
  <2>7. QED
    BY <1>0, <1>1, <2>1, <2>4, <2>5, <2>6 DEF StreamInv, Sdk
<1>8. ASSUME NEW i \in DOMAIN returned PROVE Exact(i)'
  <2>1. i \in 1 .. Len(returned) /\ i - 1 \in 0 .. Len(returned) /\ i \in 0 .. Len(returned) /\ i # 0
    BY <1>0
  <2>2. mode \notin {"ask", "ask_sdk"} \/ (mode = "ask_sdk" /\ phase # "done")
    <3>1. returned # <<>>
      BY <1>0, <2>1
    <3>2. QED
      BY <3>1, <1>0, <1>3 DEF ModeInv, ClientType
  <2>3. Upto(i) = returned[i].upto /\ Upto(i) <= Len(recorded) /\ returned[i].heard <= Len(recorded)
    BY <1>0, <2>1 DEF Upto, StreamInv, ClientType
  <2>a. Upto(i - 1) + 1 \in Nat \ {0} /\ Heard(i - 1) + 1 \in Nat \ {0} /\ Upto(i) \in Nat /\ returned[i].heard \in Nat
    <3>1. Upto(i - 1) \in Nat /\ Heard(i - 1) \in Nat /\ Upto(i) \in Nat /\ returned[i].heard \in Nat
      BY <1>0, <2>1
    <3>2. QED
      BY <3>1
  <2>4. SubSeq(recorded', Upto(i - 1) + 1, Upto(i)) = SubSeq(recorded, Upto(i - 1) + 1, Upto(i))
    BY <1>0, <1>2, <2>a, <2>3, SubSeqStays
  <2>5. SubSeq(recorded', Heard(i - 1) + 1, returned[i].heard) = SubSeq(recorded, Heard(i - 1) + 1, returned[i].heard)
    BY <1>0, <1>2, <2>a, <2>3, SubSeqStays
  <2>6. \A k \in 1 .. Upto(i) : recorded'[k] = recorded[k]
    <3>1. \A k \in 1 .. Upto(i) : k \in DOMAIN recorded
      BY <1>0, <2>1, <2>3
    <3>2. QED
      BY <3>1, <1>2 DEF Longer
  <2>7. Exact(i)
    BY <1>0
  <2>8. QED
    BY <1>1, <1>6, <2>2, <2>4, <2>5, <2>6, <2>7 DEF Exact
<1>9. ResponsesExact'
  BY <1>1, <1>8 DEF ResponsesExact, Exact
<1>10. QED
  BY <1>2, <1>4, <1>5, <1>7, <1>9 DEF AskInv, ClientInv

\* stream_turns subscribes: what was recorded before is not in the stream.
LEMMA SubscribeStep ==
  ASSUME AskInv, Subscribe
  PROVE  AskInv'
<1>0. /\ DecodeInv /\ DecodeType /\ ClientType /\ ModeInv /\ StreamInv /\ \A i \in DOMAIN returned : Exact(i)
      /\ recorded \in Seq(Record) /\ Len(recorded) \in Nat /\ Len(recorded) < NotYet
      /\ Len(returned) \in Nat /\ DOMAIN returned = 1 .. Len(returned)
      /\ \A i \in DOMAIN returned : returned[i].upto \in Nat /\ returned[i].heard \in Nat
      /\ \A i \in 0 .. Len(returned) : Upto(i) \in Nat /\ Heard(i) \in Nat
  BY Parts
<1>1. /\ life = "running" /\ ~Sdk /\ from = NotYet
      /\ from' = Len(recorded) /\ sent' = Len(recorded) /\ read' = Len(recorded)
      /\ UNCHANGED <<cli, mode, capturing, tailing, wanted, life, work, decode, leftover, made, recent, wrote, phase, got, id, cursor, returned>>
      /\ UNCHANGED <<recorded, asked, told, over, pending, acc>>
  BY DEF Subscribe, config, store, call, decode
<1>2. read = 0 /\ NotYet \in Nat /\ NotYet > 0
  BY <1>0, <1>1, Names DEF StreamInv, NotYet
<1>3. DecodeInv'
  BY <1>0, <1>1, IdleStep DEF DecodeType, DecodeInv, AskedInv
<1>4. ClientType' /\ ModeInv'
  BY <1>0, <1>1 DEF ClientType, ModeInv, Sdk, Running
<1>5. \A i \in DOMAIN returned : returned[i].heard = 0
  BY <1>0, <1>2 DEF StreamInv
<1>6. \A i \in 0 .. Len(returned) : Upto(i)' = Upto(i) /\ Heard(i) = NotYet /\ Heard(i)' = Len(recorded)
  <2>1. \A i \in 0 .. Len(returned) : i = 0 \/ i \in DOMAIN returned
    BY <1>0
  <2>2. 0 < NotYet /\ (0 < Len(recorded) \/ Len(recorded) = 0)
    BY <1>0, <1>2
  <2>3. QED
    BY <1>1, <1>5, <2>1, <2>2 DEF Upto, Heard
<1>7. /\ SubSeq(recorded, NotYet + 1, 0) = <<>>
      /\ SubSeq(recorded, Len(recorded) + 1, 0) = <<>>
      /\ SubSeq(recorded, Len(recorded) + 1, Len(recorded)) = <<>>
  <2>1. 0 < NotYet + 1 /\ 0 < Len(recorded) + 1 /\ Len(recorded) < Len(recorded) + 1
    BY <1>0, <1>2
  <2>2. QED
    BY <2>1, <1>0, <1>2, SubSeqEmpty
<1>8. StreamInv'
  <2>1. /\ Len(returned) \in 0 .. Len(returned) /\ Len(recorded) <= Len(recorded)
        /\ Len(recorded) # NotYet
    BY <1>0, <1>2
  <2>2. phase # "done" => got = <<>>
    BY <1>0, <1>1, <1>2, <1>6, <1>7, <2>1 DEF StreamInv
  <2>a. PICK n : n = Len(returned)
    OBVIOUS
  <2>3. Upto(n)' = Upto(n) /\ Heard(n)' = Len(recorded)
    BY <1>6, <2>a, <2>1
  <2>4. \A i \in DOMAIN returned : 0 <= Len(recorded)
    BY <1>0
  <2>5. QED
    BY <1>0, <1>1, <1>5, <1>7, <2>a, <2>1, <2>2, <2>3, <2>4 DEF StreamInv, Sdk
<1>9. ASSUME NEW i \in DOMAIN returned PROVE Exact(i)'
  <2>1. i \in 0 .. Len(returned) /\ i - 1 \in 0 .. Len(returned)
    BY <1>0
  <2>2. mode # "ask" /\ mode \notin {"sdk", "ask_sdk"}
    <3>1. returned # <<>> /\ Running
      BY <1>0, <1>1 DEF Running
    <3>2. QED
      BY <3>1, <1>0, <1>1 DEF ModeInv, ClientType, Sdk
  <2>3. Exact(i) /\ returned[i].heard = 0
    BY <1>0, <1>5
  <2>4. mode = "session" /\ ~tailing => returned[i].turns = <<>>
    BY <2>1, <2>3, <1>6, <1>7 DEF Exact
  <2>5. QED
    BY <1>1, <1>6, <1>7, <2>1, <2>2, <2>3, <2>4 DEF Exact
<1>10. ResponsesExact'
  BY <1>1, <1>9 DEF ResponsesExact, Exact
<1>11. QED
  BY <1>3, <1>4, <1>8, <1>10 DEF AskInv, ClientInv

\* The client's own steps leave the decoder alone.
LEMMA DecoderRests ==
  ASSUME AskInv, UNCHANGED <<cli, decode>>, work' \in Nat,
         \/ life' = life
         \/ life' = "killed"
         \/ life = "off" /\ life' = "running"
  PROVE  DecodeInv' /\ UNCHANGED <<asked, told, over, pending, acc, recorded>>
<1>1. DecodeInv /\ life \in {"off", "running", "exiting", "exited", "killed"} /\ (life = "exiting" => cli = "agy")
  BY Parts DEF DecodeType, DecodeInv, AskedInv
<1>2. DecodeInv'
  BY <1>1, IdleStep
<1>3. QED
  BY <1>2 DEF decode

LEMMA Numbers ==
  ASSUME AskInv
  PROVE  work \in Nat /\ 1 \in Nat /\ work + 1 \in Nat /\ MaxMain \in Nat
  BY Parts, Names DEF DecodeType

\* The steps that neither read nor answer.
LEMMA RestingSteps ==
  ASSUME AskInv, Launch \/ Start \/ WriteStore \/ SendHome \/ NextPrompt \/ Fails
  PROVE  AskInv'
<1>0. /\ DecodeInv /\ DecodeType /\ ClientType /\ ModeInv /\ StreamInv
      /\ Len(recorded) \in Nat /\ read <= sent /\ sent <= Len(recorded) /\ sent \in Nat /\ read \in Nat
      /\ from = NotYet => sent = 0
  BY Parts DEF StreamInv, ClientType
<1>1. CASE Launch
  <2>1. /\ ~Sdk /\ phase = "new" /\ phase' = "turn" /\ leftover' = IF capturing THEN <<>> ELSE leftover
        /\ life' = "running" /\ work' \in Nat
        /\ UNCHANGED <<cli, mode, capturing, tailing, wanted, decode, made, recent, wrote, from, sent, read, got, id, cursor, returned>>
    BY <1>1, Numbers DEF Launch, config, store, stream
  <2>2. life = "off" /\ returned = <<>>
    BY <2>1, <1>0 DEF ModeInv
  <2>3. DecodeInv' /\ recorded' = recorded
    BY <2>1, <2>2, DecoderRests
  <2>4. ClientType' /\ ModeInv'
    BY <2>1, <2>2, <1>0 DEF ClientType, ModeInv, Sdk, Running
  <2>5. StreamInv' /\ ResponsesExact'
    BY <2>1, <2>3, <1>0, RestingStep
  <2>6. QED
    BY <2>3, <2>4, <2>5 DEF AskInv, ClientInv
<1>2. CASE Start
  <2>1. /\ Sdk /\ phase = "new" /\ leftover' = <<>>
        /\ \/ phase' = "done" /\ life' = "killed" /\ work' = work
           \/ phase' = "turn" /\ life' = "running" /\ work' = 1
        /\ UNCHANGED <<cli, mode, capturing, tailing, wanted, decode, made, recent, wrote, from, sent, read, got, id, cursor, returned>>
    BY <1>2 DEF Start, config, store, stream
  <2>2. life = "off" /\ returned = <<>>
    BY <2>1, <1>0 DEF ModeInv
  <2>3. DecodeInv' /\ recorded' = recorded
    BY <2>1, <2>2, DecoderRests, Numbers
  <2>4. ClientType' /\ ModeInv'
    BY <2>1, <2>2, <1>0 DEF ClientType, ModeInv, Sdk, Running
  <2>5. StreamInv' /\ ResponsesExact'
    BY <2>1, <2>2, <2>3, <1>0, RestingStep
  <2>6. QED
    BY <2>3, <2>4, <2>5 DEF AskInv, ClientInv
<1>3. CASE WriteStore
  <2>1. /\ life = "running" /\ wrote' = Chosen /\ recent' = Chosen /\ made' = IF Chosen = New THEN New ELSE made
        /\ UNCHANGED <<cli, mode, capturing, tailing, wanted, life, work, decode, leftover, from, sent, read, phase, got, id, cursor, returned>>
    BY <1>3 DEF WriteStore, config, stream, call
  <2>2. Chosen \in 1 .. New
    <3>1. wanted \in {1, New, Latest, Lost} /\ recent \in 1 .. New /\ (wanted = Lost => cli = "codex")
          /\ cli \in {"agy", "codex", "kimi"}
      BY <1>0, DecodeAssumption DEF ClientType, ModeInv, DecodeType
    <3>2. wanted # Lost => Resumed \in 1 .. New
      BY <3>1 DEF Resumed, New, Latest, Lost
    <3>3. New \in 1 .. New
      BY DEF New
    <3>4. QED
      BY <3>1, <3>2, <3>3 DEF Chosen, AgyChosen, CodexChosen, KimiChosen
  <2>3. DecodeInv' /\ recorded' = recorded
    BY <2>1, DecoderRests, Numbers
  <2>4. Chosen \in Nat /\ New \in Nat
    BY <2>2 DEF New
  <2>5. ClientType'
    BY <2>1, <2>2, <2>4, <1>0 DEF ClientType
  <2>6. ModeInv'
    BY <2>1, <1>0 DEF ModeInv, Sdk, Running
  <2>7. StreamInv' /\ ResponsesExact'
    BY <2>1, <2>3, <1>0, RestingStep
  <2>8. QED
    BY <2>3, <2>5, <2>6, <2>7 DEF AskInv, ClientInv
<1>4. CASE SendHome
  <2>1. /\ from # NotYet /\ sent < Len(recorded) /\ sent' = sent + 1
        /\ UNCHANGED <<cli, mode, capturing, tailing, wanted, life, work, decode, leftover, made, recent, wrote, from, read, phase, got, id, cursor, returned>>
    BY <1>4 DEF SendHome, config, store, call
  <2>2. sent' \in Nat /\ read <= sent' /\ sent' <= Len(recorded)
    BY <2>1, <1>0
  <2>3. DecodeInv' /\ recorded' = recorded
    BY <2>1, DecoderRests, Numbers
  <2>4. ClientType' /\ ModeInv'
    BY <2>1, <2>2, <1>0 DEF ClientType, ModeInv, Sdk, Running
  <2>5. StreamInv' /\ ResponsesExact'
    BY <2>1, <2>2, <2>3, <1>0, RestingStep
  <2>6. QED
    BY <2>3, <2>4, <2>5 DEF AskInv, ClientInv
<1>5. CASE NextPrompt
  <2>1. /\ mode \in {"session", "sdk"} /\ phase = "between" /\ life = "running" /\ phase' = "turn" /\ work' = work + 1
        /\ UNCHANGED <<cli, mode, capturing, tailing, wanted, life, decode, leftover, made, recent, wrote, from, sent, read, got, id, cursor, returned>>
    BY <1>5 DEF NextPrompt, config, store, stream
  <2>2. DecodeInv' /\ recorded' = recorded
    BY <2>1, DecoderRests, Numbers
  <2>3. ClientType' /\ ModeInv'
    BY <2>1, <1>0 DEF ClientType, ModeInv, Sdk, Running
  <2>4. StreamInv' /\ ResponsesExact'
    BY <2>1, <2>2, <1>0, RestingStep
  <2>5. QED
    BY <2>2, <2>3, <2>4 DEF AskInv, ClientInv
<1>6. CASE Fails
  <2>1. /\ Sdk /\ phase = "turn" /\ phase' = "done" /\ life' = IF Running THEN "killed" ELSE life
        /\ UNCHANGED <<cli, mode, capturing, tailing, wanted, work, decode, leftover, made, recent, wrote, from, sent, read, got, id, cursor, returned>>
    BY <1>6 DEF Fails, Closed, config, store, stream
  <2>2. mode = "ask_sdk" => returned = <<>>
    BY <2>1, <1>0 DEF ModeInv
  <2>3. DecodeInv' /\ recorded' = recorded
    BY <2>1, DecoderRests, Numbers
  <2>4. ClientType' /\ ModeInv'
    BY <2>1, <1>0 DEF ClientType, ModeInv, Sdk, Running
  <2>5. StreamInv' /\ ResponsesExact'
    BY <2>1, <2>2, <2>3, <1>0, RestingStep
  <2>6. QED
    BY <2>3, <2>4, <2>5 DEF AskInv, ClientInv
<1>7. QED
  BY <1>1, <1>2, <1>3, <1>4, <1>5, <1>6

\* What is read and the turn after it.
LEMMA OneTurnMore ==
  ASSUME recorded \in Seq(Record), NEW h \in Nat, NEW n \in Nat, h <= n, n < Len(recorded)
  PROVE  Append(SubSeq(recorded, h + 1, n), recorded[n + 1]) = SubSeq(recorded, h + 1, n + 1)
<1>1. /\ h + 1 \in 1 .. Len(recorded) /\ n + 1 \in h + 1 .. Len(recorded) /\ (n + 1) - 1 = n
      /\ h + 1 \in Nat \ {0} /\ n <= Len(recorded) /\ n + 1 \in DOMAIN recorded
  OBVIOUS
<1>2. SubSeq(recorded, h + 1, n + 1) = SubSeq(recorded, h + 1, n) \o <<recorded[n + 1]>>
  <2>1. SubSeq(recorded, h + 1, n + 1) = SubSeq(recorded, h + 1, (n + 1) - 1) \o <<recorded[n + 1]>>
    BY <1>1, SubSeqRecursiveSecond
  <2>2. QED
    BY <1>1, <2>1
<1>3. SubSeq(recorded, h + 1, n) \in Seq(Record) /\ recorded[n + 1] \in Record
  BY <1>1
<1>4. QED
  BY <1>2, <1>3, AppendIsConcat

\* The parent reads the next object of the pipe.
LEMMA ReadStep ==
  ASSUME AskInv, Read
  PROVE  AskInv'
<1>0. /\ DecodeInv /\ DecodeType /\ ClientType /\ ModeInv /\ StreamInv /\ \A i \in DOMAIN returned : Exact(i)
      /\ recorded \in Seq(Record) /\ Len(recorded) \in Nat /\ DOMAIN recorded = 1 .. Len(recorded)
      /\ Len(returned) \in Nat /\ DOMAIN returned = 1 .. Len(returned)
      /\ \A i \in DOMAIN returned : returned[i].upto \in Nat /\ returned[i].heard \in Nat
      /\ \A i \in 0 .. Len(returned) : Upto(i) \in Nat /\ Heard(i) \in Nat
      /\ got \in Seq(Record) /\ read \in Nat /\ sent \in Nat /\ sent <= Len(recorded)
  BY Parts DEF ClientType, StreamInv
<1>1. /\ phase = "turn" /\ read < sent /\ read' = read + 1 /\ got' = Append(got, recorded[read + 1])
      /\ UNCHANGED <<cli, mode, capturing, tailing, wanted, life, work, decode, leftover, made, recent, wrote, from, sent, phase, id, cursor, returned>>
  BY DEF Read, config, store
<1>2. DecodeInv' /\ recorded' = recorded
  BY <1>1, DecoderRests, Numbers
<1>3. read + 1 \in DOMAIN recorded /\ read + 1 \in Nat /\ recorded[read + 1] \in Record /\ read + 1 <= sent
  BY <1>0, <1>1
<1>4. ClientType'
  <2>1. got' \in Seq(Record)
    BY <1>0, <1>1, <1>3
  <2>2. QED
    BY <2>1, <1>0, <1>1, <1>3 DEF ClientType
<1>5. ModeInv'
  BY <1>0, <1>1 DEF ModeInv, Sdk, Running
<1>6. ~Sdk /\ from # NotYet /\ from <= read
  BY <1>0, <1>1 DEF StreamInv
<1>a. PICK n : n = Len(returned)
  OBVIOUS
<1>7. Heard(n) \in Nat /\ Heard(n) <= read
  <2>1. n = 0 \/ n \in DOMAIN returned
    BY <1>0, <1>a
  <2>2. n \in 0 .. Len(returned)
    BY <1>0, <1>a
  <2>3. QED
    BY <2>1, <2>2, <1>0, <1>6 DEF Heard, StreamInv
<1>8. got' = SubSeq(recorded, Heard(n) + 1, read + 1)
  <2>1. got = SubSeq(recorded, Heard(n) + 1, read)
    BY <1>0, <1>1, <1>6, <1>a DEF StreamInv
  <2>2. read < Len(recorded)
    BY <1>0, <1>3
  <2>3. QED
    BY <2>1, <2>2, <1>0, <1>1, <1>7, OneTurnMore
<1>9. StreamInv'
  <2>1. \A i : Upto(i)' = Upto(i) /\ Heard(i)' = Heard(i)
    BY <1>1 DEF Upto, Heard
  <2>2. \A i \in DOMAIN returned : returned[i].upto <= Len(recorded) /\ returned[i].heard <= read + 1
    BY <1>0 DEF StreamInv
  <2>3. from <= read + 1
    BY <1>0, <1>6 DEF ClientType
  <2>4. tailing \/ Sdk => cursor = Upto(n)
    BY <1>0, <1>a DEF StreamInv
  <2>5. QED
    BY <1>0, <1>1, <1>2, <1>3, <1>6, <1>8, <1>a, <2>1, <2>2, <2>3, <2>4 DEF StreamInv, Sdk
<1>10. ASSUME NEW i \in DOMAIN returned PROVE Exact(i)'
  <2>1. mode # "ask"
    BY <1>0, <1>1 DEF ModeInv
  <2>2. \A j : Upto(j)' = Upto(j) /\ Heard(j)' = Heard(j)
    BY <1>1 DEF Upto, Heard
  <2>3. Exact(i)
    BY <1>0
  <2>4. QED
    BY <1>1, <1>2, <2>1, <2>2, <2>3 DEF Exact
<1>11. ResponsesExact'
  BY <1>1, <1>10 DEF ResponsesExact, Exact
<1>12. QED
  BY <1>2, <1>4, <1>5, <1>9, <1>11 DEF AskInv, ClientInv

\* ask() answers.
LEMMA AnswerStep ==
  ASSUME AskInv, NEW turns \in Seq(Record), NEW found \in IdType, Answer(turns, found),
         turns = IF capturing THEN recorded ELSE got
  PROVE  AskInv'
<1>0. /\ DecodeInv /\ DecodeType /\ ClientType /\ ModeInv /\ StreamInv
      /\ returned \in Seq(Response) /\ Len(recorded) \in Nat /\ read \in Nat
  BY Parts DEF ClientType
<1>1. /\ mode = "ask" /\ phase = "turn" /\ phase' = "done" /\ life' = IF Running THEN "killed" ELSE life
      /\ Respond(turns, found)
      /\ UNCHANGED <<cli, mode, capturing, tailing, wanted, work, decode, leftover, made, recent, wrote, from, sent, read, got, cursor>>
  BY DEF Answer, Closed, config, store, stream
<1>2. DecodeInv' /\ recorded' = recorded
  BY <1>1, DecoderRests, Numbers
<1>3. returned = <<>> /\ Len(returned) = 0 /\ ~Sdk
  BY <1>0, <1>1 DEF ModeInv, Sdk
<1>4. /\ returned' \in Seq(Response) /\ id' = found /\ Len(returned') = 1 /\ DOMAIN returned' = 1 .. 1
      /\ returned'[1].turns = turns /\ returned'[1].upto = Len(recorded) /\ returned'[1].heard = read
  BY <1>0, <1>1, <1>2, <1>3, OneMore
<1>5. ClientType'
  BY <1>0, <1>1, <1>4 DEF ClientType
<1>6. ModeInv'
  BY <1>0, <1>1, <1>4 DEF ModeInv, Sdk, Running
<1>7. StreamInv'
  <2>1. \A i \in DOMAIN returned' : returned'[i].upto <= Len(recorded) /\ returned'[i].heard <= read
    BY <1>0, <1>4
  <2>2. ~tailing
    BY <1>0, <1>1 DEF ModeInv
  <2>3. QED
    BY <1>0, <1>1, <1>2, <1>3, <2>1, <2>2 DEF StreamInv, Sdk
<1>8. turns = IF capturing THEN recorded ELSE Streamed
  BY <1>0, <1>1, <1>3 DEF StreamInv, Heard, Streamed
<1>9. ResponsesExact'
  <2>1. Streamed' = Streamed
    BY <1>1, <1>2 DEF Streamed
  <2>2. \A i \in DOMAIN returned' : i = 1
    BY <1>4
  <2>3. returned'[1].turns = IF capturing THEN recorded' ELSE Streamed'
    BY <1>2, <1>4, <1>8, <2>1
  <2>4. QED
    BY <1>1, <2>2, <2>3 DEF ResponsesExact
<1>10. QED
  BY <1>2, <1>5, <1>6, <1>7, <1>9 DEF AskInv, ClientInv

\* A turn of a session is settled.
LEMMA SettleStep ==
  ASSUME AskInv, NEW found \in IdType, Settle(found.conv), found.wrote = wrote, found = Id(found.conv),
         Id(1) \in IdType
  PROVE  AskInv'
<1>0. /\ DecodeInv /\ DecodeType /\ ClientType /\ ModeInv /\ StreamInv /\ \A i \in DOMAIN returned : Exact(i)
      /\ recorded \in Seq(Record) /\ Len(recorded) \in Nat /\ DOMAIN recorded = 1 .. Len(recorded)
      /\ Len(returned) \in Nat /\ DOMAIN returned = 1 .. Len(returned)
      /\ \A i \in DOMAIN returned : returned[i].upto \in Nat /\ returned[i].heard \in Nat
      /\ \A i \in 0 .. Len(returned) : Upto(i) \in Nat /\ Heard(i) \in Nat
      /\ got \in Seq(Record) /\ read \in Nat /\ from \in Nat /\ id \in IdType /\ cursor \in Nat
  BY Parts DEF ClientType
<1>1. /\ mode = "session" /\ phase = "turn" /\ phase' = "between" /\ got' = <<>>
      /\ UNCHANGED <<cli, mode, capturing, tailing, wanted, life, work, decode, leftover, made, recent, wrote, from, sent, read>>
      /\ \E known \in IdType :
           \/ tailing /\ cursor' = Len(File) /\ Respond(IF Fresh # <<>> THEN Fresh ELSE got, known)
           \/ ~tailing /\ Respond(got, known) /\ UNCHANGED cursor
  BY <1>0 DEF Settle, config, store, stream
<1>2. DecodeInv' /\ recorded' = recorded
  BY <1>1, DecoderRests, Numbers
<1>3. ~Sdk
  BY <1>1 DEF Sdk
<1>a. PICK n : n = Len(returned)
  OBVIOUS
<1>b. n \in 0 .. Len(returned) /\ n \in Nat /\ Upto(n) \in Nat /\ Heard(n) \in Nat
  BY <1>0, <1>a
<1>4. tailing => File = recorded /\ Fresh = SubSeq(recorded, Upto(n) + 1, Len(recorded))
  <2>1. SUFFICES ASSUME tailing PROVE File = recorded /\ Fresh = SubSeq(recorded, Upto(n) + 1, Len(recorded))
    OBVIOUS
  <2>2. capturing /\ phase # "new" /\ cursor = Upto(n)
    BY <1>0, <1>1, <1>a, <2>1 DEF ModeInv, StreamInv
  <2>3. File = recorded
    BY <2>2, <1>0, FileIsRecorded
  <2>4. QED
    BY <2>2, <2>3 DEF Fresh
<1>5. SubSeq(recorded, Upto(n) + 1, Len(recorded)) \in Seq(Record)
  BY <1>0, <1>b
<1>6. PICK turns \in Seq(Record), known \in IdType :
        /\ Respond(turns, known)
        /\ tailing => /\ cursor' = Len(recorded)
                      /\ turns = IF Fresh # <<>> THEN Fresh ELSE got
        /\ ~tailing => turns = got /\ UNCHANGED cursor
  BY <1>0, <1>1, <1>4, <1>5
<1>7. /\ returned' \in Seq(Response) /\ id' = known
      /\ Len(returned') = n + 1 /\ DOMAIN returned = 1 .. n /\ DOMAIN returned' = 1 .. n + 1
      /\ \A i \in 1 .. n : returned'[i] = returned[i]
      /\ \A i \in 0 .. n : Upto(i)' = Upto(i) /\ Heard(i)' = Heard(i)
      /\ returned'[n + 1].turns = turns /\ returned'[n + 1].upto = Len(recorded)
      /\ returned'[n + 1].heard = read
      /\ \A k : k = n + 1 => /\ Upto(k)' = Len(recorded)
                             /\ Heard(k)' = IF read < from THEN from ELSE read
  BY <1>0, <1>1, <1>2, <1>6, <1>a, OneMore
<1>8. \A i \in 1 .. n + 1 : i \in 1 .. n \/ i = n + 1
  BY <1>b
<1>9. ClientType'
  <2>1. cursor' \in Nat /\ <<>> \in Seq(Record)
    BY <1>0, <1>6
  <2>2. QED
    BY <1>0, <1>1, <1>6, <1>7, <2>1 DEF ClientType
<1>10. ModeInv'
  <2>1. returned' # <<>>
    BY <1>7, <1>b
  <2>2. QED
    BY <1>0, <1>1, <2>1 DEF ModeInv, Sdk, Running
<1>11. StreamInv'
  <2>1. \A i \in DOMAIN returned' : returned'[i].upto <= Len(recorded) /\ returned'[i].heard <= read
    <3>1. \A i \in 1 .. n : returned[i].upto <= Len(recorded) /\ returned[i].heard <= read
      BY <1>0, <1>7 DEF StreamInv
    <3>2. Len(recorded) <= Len(recorded) /\ read <= read
      BY <1>0
    <3>3. QED
      BY <3>1, <3>2, <1>7, <1>8
  <2>2. Upto(Len(returned))' = Len(recorded) /\ Heard(Len(returned))' = IF read < from THEN from ELSE read
    <3>a. PICK m : m = n + 1
      OBVIOUS
    <3>1. Len(returned') = m /\ Upto(m)' = Len(recorded) /\ Heard(m)' = IF read < from THEN from ELSE read
      BY <3>a, <1>7
    <3>2. QED
      BY <3>1 DEF Upto, Heard
  <2>3. SubSeq(recorded, (IF read < from THEN from ELSE read) + 1, read) = <<>>
    <3>1. /\ (IF read < from THEN from ELSE read) + 1 \in Int /\ read \in Int
          /\ read < (IF read < from THEN from ELSE read) + 1
      BY <1>0
    <3>2. QED
      BY <3>1, SubSeqEmpty
  <2>4. QED
    BY <1>0, <1>1, <1>2, <1>3, <1>6, <2>1, <2>2, <2>3 DEF StreamInv, Sdk
<1>12. ASSUME NEW i \in 1 .. n PROVE Exact(i)'
  <2>1. i \in 0 .. n /\ i - 1 \in 0 .. n
    BY <1>b
  <2>2. \A j \in 1 .. i : returned'[j] = returned[j]
    <3>1. \A j \in 1 .. i : j \in 1 .. n
      BY <1>b
    <3>2. QED
      BY <3>1, <1>7
  <2>3. Exact(i) /\ returned'[i] = returned[i] /\ Upto(i)' = Upto(i) /\ Heard(i - 1)' = Heard(i - 1)
    BY <1>0, <1>7, <2>1
  <2>4. QED
    BY <1>1, <1>2, <2>2, <2>3 DEF Exact
<1>13. ASSUME NEW i, i = n + 1 PROVE Exact(i)'
  <2>1. i - 1 = n /\ n \in 0 .. n /\ returned'[i].turns = turns /\ returned'[i].heard = read
        /\ Upto(i)' = Len(recorded) /\ Heard(n)' = Heard(n)
    BY <1>7, <1>13, <1>b
  <2>2. CASE ~tailing
    <3>1. turns = SubSeq(recorded, Heard(n) + 1, read)
      BY <2>2, <1>0, <1>1, <1>3, <1>6, <1>a DEF StreamInv
    <3>2. QED
      BY <2>1, <2>2, <3>1, <1>1, <1>2 DEF Exact
  <2>3. CASE tailing
    <3>1. ASSUME NEW k \in 1 .. Len(recorded)
          PROVE  \E j \in 1 .. i : recorded[k] \in Range(returned'[j].turns)
      <4>1. CASE k <= Upto(n)
        <5>1. n # 0 /\ n \in DOMAIN returned /\ k \in 1 .. Upto(n)
          BY <4>1, <1>0, <1>a, <1>b DEF Upto
        <5>2. Exact(n)
          BY <5>1, <1>0
        <5>3. PICK j \in 1 .. n : recorded[k] \in Range(returned[j].turns)
          BY <5>1, <5>2, <2>3, <1>1 DEF Exact
        <5>4. j \in 1 .. i /\ returned'[j] = returned[j]
          BY <1>7, <1>13, <1>b
        <5>5. QED
          BY <5>3, <5>4
      <4>2. CASE ~(k <= Upto(n))
        <5> DEFINE u == Upto(n)
                   p == SubSeq(recorded, u + 1, Len(recorded))
        <5>1. u \in Nat /\ u < k /\ k <= Len(recorded)
          BY <4>2, <1>b, <1>0
        <5> HIDE DEF u
        <5>2. p \in Seq(Record) /\ Len(p) = Len(recorded) - u /\ \A x \in 1 .. Len(recorded) - u : p[x] = recorded[u + x]
          <6> DEFINE l == Len(recorded)
          <6>1. l \in Nat /\ u + 1 \in 1 .. l + 1 /\ l \in (u + 1) - 1 .. l
            BY <5>1, <1>0
          <6>2. recorded \in Seq(Record)
            BY <1>0
          <6>3. /\ SubSeq(recorded, u + 1, l) \in Seq(Record)
                /\ Len(SubSeq(recorded, u + 1, l)) = l - (u + 1) + 1
                /\ \A x \in 1 .. l - (u + 1) + 1 : SubSeq(recorded, u + 1, l)[x] = recorded[u + 1 + x - 1]
            BY <6>1, <6>2, SubSeqProperties
          <6> HIDE DEF l
          <6>4. l - (u + 1) + 1 = l - u /\ \A x \in 1 .. l - u : u + 1 + x - 1 = u + x
            BY <6>1, <5>1
          <6>5. QED
            BY <6>3, <6>4 DEF l
        <5> HIDE DEF p
        <5>3. k - u \in 1 .. Len(recorded) - u /\ u + (k - u) = k /\ k - u \in DOMAIN p
          BY <5>1, <5>2, <1>0
        <5>4. p[k - u] = recorded[k]
          BY <5>2, <5>3
        <5>5. recorded[k] \in Range(p) /\ p # <<>>
          BY <5>3, <5>4 DEF Range
        <5>6. turns = p
          BY <5>5, <2>3, <1>4, <1>6 DEF p, u
        <5>7. i \in 1 .. i
          BY <1>13, <1>b
        <5>8. QED
          BY <5>5, <5>6, <5>7, <2>1
      <4>3. QED
        BY <4>1, <4>2
    <3>2. QED
      BY <2>1, <2>3, <3>1, <1>1, <1>2 DEF Exact
  <2>4. QED
    BY <2>2, <2>3
<1>14. ResponsesExact'
  BY <1>7, <1>8, <1>12, <1>13 DEF ResponsesExact, Exact
<1>15. QED
  BY <1>2, <1>9, <1>10, <1>11, <1>14 DEF AskInv, ClientInv

\* SDKSession returns the slice of the file.
LEMMA SliceStep ==
  ASSUME AskInv, ReturnSlice, Id(Chosen) \in IdType
  PROVE  AskInv'
<1>0. /\ DecodeInv /\ DecodeType /\ ClientType /\ ModeInv /\ StreamInv /\ \A i \in DOMAIN returned : Exact(i)
      /\ recorded \in Seq(Record) /\ Len(recorded) \in Nat /\ DOMAIN recorded = 1 .. Len(recorded)
      /\ Len(returned) \in Nat /\ DOMAIN returned = 1 .. Len(returned)
      /\ \A i \in 0 .. Len(returned) : Upto(i) \in Nat /\ Heard(i) \in Nat
      /\ read \in Nat
  BY Parts DEF ClientType
<1>1. /\ Sdk /\ phase = "turn" /\ phase' = "between" /\ (life' = life \/ (Running /\ life' = "killed"))
      /\ cursor' = Len(File) /\ Respond(Fresh, Id(Chosen))
      /\ UNCHANGED <<cli, mode, capturing, tailing, wanted, work, decode, leftover, made, recent, wrote, from, sent, read, got>>
  BY DEF ReturnSlice, config, store, stream
<1>2. DecodeInv' /\ recorded' = recorded
  BY <1>1, DecoderRests, Numbers
<1>a. PICK n : n = Len(returned)
  OBVIOUS
<1>b. n \in 0 .. Len(returned) /\ n \in Nat /\ Upto(n) \in Nat /\ Heard(n) \in Nat
  BY <1>0, <1>a
<1>3. File = recorded /\ Fresh = SubSeq(recorded, Upto(n) + 1, Len(recorded)) /\ ~tailing
  <2>1. capturing /\ phase # "new" /\ cursor = Upto(n) /\ ~tailing
    BY <1>0, <1>1, <1>a DEF ModeInv, StreamInv, Sdk
  <2>2. File = recorded
    BY <2>1, <1>0, FileIsRecorded
  <2>3. QED
    BY <2>1, <2>2 DEF Fresh
<1>4. SubSeq(recorded, Upto(n) + 1, Len(recorded)) \in Seq(Record)
  BY <1>0, <1>b
<1>5. PICK turns \in Seq(Record) : turns = Fresh
  BY <1>3, <1>4
<1>6. Respond(turns, Id(Chosen))
  BY <1>1, <1>5
<1>7. /\ returned' \in Seq(Response) /\ id' = Id(Chosen)
      /\ Len(returned') = n + 1 /\ DOMAIN returned = 1 .. n /\ DOMAIN returned' = 1 .. n + 1
      /\ \A i \in 1 .. n : returned'[i] = returned[i]
      /\ \A i \in 0 .. n : Upto(i)' = Upto(i) /\ Heard(i)' = Heard(i)
      /\ returned'[n + 1].turns = turns /\ returned'[n + 1].upto = Len(recorded)
      /\ returned'[n + 1].heard = read
      /\ \A k : k = n + 1 => Upto(k)' = Len(recorded)
  BY <1>0, <1>1, <1>2, <1>6, <1>a, OneMore
<1>8. \A i \in 1 .. n + 1 : i \in 1 .. n \/ i = n + 1
  BY <1>b
<1>9. ClientType'
  BY <1>0, <1>1, <1>3, <1>7 DEF ClientType
<1>10. ModeInv'
  <2>1. mode = "ask_sdk" => n = 0
    BY <1>0, <1>1, <1>a DEF ModeInv
  <2>2. mode = "ask_sdk" => Len(returned') <= 1
    BY <2>1, <1>7
  <2>3. returned' # <<>>
    BY <1>7, <1>b
  <2>4. QED
    BY <1>0, <1>1, <2>2, <2>3 DEF ModeInv, Sdk, Running
<1>11. StreamInv'
  <2>1. \A i \in DOMAIN returned' : returned'[i].upto <= Len(recorded) /\ returned'[i].heard <= read
    <3>1. \A i \in 1 .. n : returned[i].upto <= Len(recorded) /\ returned[i].heard <= read
      BY <1>0, <1>7 DEF StreamInv
    <3>2. Len(recorded) <= Len(recorded) /\ read <= read
      BY <1>0
    <3>3. QED
      BY <3>1, <3>2, <1>7, <1>8
  <2>2. Upto(Len(returned))' = Len(recorded)
    <3>a. PICK m : m = n + 1
      OBVIOUS
    <3>1. Len(returned') = m /\ Upto(m)' = Len(recorded)
      BY <3>a, <1>7
    <3>2. QED
      BY <3>1 DEF Upto
  <2>3. QED
    BY <1>0, <1>1, <1>2, <1>3, <2>1, <2>2 DEF StreamInv, Sdk
<1>12. ASSUME NEW i \in 1 .. n PROVE Exact(i)'
  <2>1. i \in 0 .. n /\ i - 1 \in 0 .. n
    BY <1>b
  <2>2. Exact(i) /\ returned'[i] = returned[i] /\ Upto(i)' = Upto(i) /\ Upto(i - 1)' = Upto(i - 1)
    BY <1>0, <1>7, <2>1
  <2>3. QED
    BY <1>1, <1>2, <2>2 DEF Exact, Sdk
<1>13. ASSUME NEW i, i = n + 1 PROVE Exact(i)'
  <2>1. i - 1 = n /\ n \in 0 .. n /\ returned'[i].turns = turns /\ Upto(i)' = Len(recorded) /\ Upto(n)' = Upto(n)
    BY <1>7, <1>13, <1>b
  <2>2. QED
    BY <2>1, <1>1, <1>2, <1>3, <1>5 DEF Exact, Sdk
<1>14. ResponsesExact'
  BY <1>7, <1>8, <1>12, <1>13 DEF ResponsesExact, Exact
<1>15. QED
  BY <1>2, <1>9, <1>10, <1>11, <1>14 DEF AskInv, ClientInv

\* The server is closed; ask_sdk() returns the whole file.
LEMMA CloseStep ==
  ASSUME AskInv, CloseServer
  PROVE  /\ AskInv' /\ DOMAIN returned' = DOMAIN returned
         /\ \A i \in DOMAIN returned : returned'[i].id = returned[i].id
<1>0. /\ DecodeInv /\ DecodeType /\ ClientType /\ ModeInv /\ StreamInv /\ \A i \in DOMAIN returned : Exact(i)
      /\ recorded \in Seq(Record) /\ returned \in Seq(Response)
      /\ Len(returned) \in Nat /\ DOMAIN returned = 1 .. Len(returned)
  BY Parts DEF ClientType
<1>1. /\ Sdk /\ phase = "between" /\ phase' = "done" /\ life' = IF Running THEN "killed" ELSE life
      /\ returned' = IF mode = "ask_sdk" THEN [returned EXCEPT ![1].turns = File] ELSE returned
      /\ UNCHANGED <<cli, mode, capturing, tailing, wanted, work, decode, leftover, made, recent, wrote, from, sent, read, got, id, cursor>>
  BY DEF CloseServer, Closed, config, store, stream
<1>2. DecodeInv' /\ recorded' = recorded
  BY <1>1, DecoderRests, Numbers
<1>3. File = recorded /\ ~tailing
  <2>1. capturing /\ phase # "new" /\ ~tailing
    BY <1>0, <1>1 DEF ModeInv, Sdk
  <2>2. QED
    BY <2>1, <1>0, FileIsRecorded
<1>4. /\ returned' \in Seq(Response) /\ Len(returned') = Len(returned) /\ DOMAIN returned' = DOMAIN returned
      /\ \A i \in DOMAIN returned : /\ returned'[i].upto = returned[i].upto /\ returned'[i].heard = returned[i].heard
                                    /\ returned'[i].id = returned[i].id
                                    /\ mode # "ask_sdk" => returned'[i].turns = returned[i].turns
                                    /\ mode = "ask_sdk" => returned'[i].turns = recorded
  <2>1. CASE mode # "ask_sdk"
    BY <2>1, <1>0, <1>1
  <2>2. CASE mode = "ask_sdk"
    <3>1. Len(returned) <= 1
      BY <2>2, <1>0 DEF ModeInv
    <3>2. Len(returned) # 0
      BY <1>0, <1>1 DEF ModeInv
    <3>3. Len(returned) = 1
      BY <3>1, <3>2, <1>0
    <3>4. QED
      <4>a. returned[1] \in Response
        <5>1. returned \in Seq(Response) /\ 1 \in 1 .. Len(returned)
          BY <3>3, <1>0
        <5>2. QED
          BY <5>1, ElementOfSeq
      <4>1. PICK r \in Response : r = returned[1]
        BY <4>a
      <4>2. PICK s : s = [r EXCEPT !.turns = recorded]
        OBVIOUS
      <4>3. s \in Response /\ s.turns = recorded /\ s.upto = r.upto /\ s.heard = r.heard /\ s.id = r.id
        BY <4>1, <4>2, <1>0 DEF Response
      <4>4. returned' = [returned EXCEPT ![1] = s]
        BY <2>2, <4>1, <4>2, <1>1, <1>3
      <4>b. returned \in Seq(Response) /\ s \in Response /\ DOMAIN returned = 1 .. 1 /\ 1 \in 1 .. 1
        BY <3>3, <4>3, <1>0
      <4>c. [returned EXCEPT ![1] = s] \in Seq(Response) /\ Len([returned EXCEPT ![1] = s]) = Len(returned)
            /\ [returned EXCEPT ![1] = s][1] = s /\ DOMAIN [returned EXCEPT ![1] = s] = DOMAIN returned
        BY <4>b, ExceptSeq
      <4>5. returned' \in Seq(Response) /\ Len(returned') = 1 /\ DOMAIN returned' = DOMAIN returned /\ returned'[1] = s
        BY <3>3, <4>4, <4>c
      <4>6. \A i \in DOMAIN returned : i = 1
        BY <3>3, <1>0
      <4>7. QED
        BY <2>2, <3>3, <4>1, <4>3, <4>5, <4>6
  <2>3. QED
    BY <2>1, <2>2
<1>5. ClientType'
  BY <1>0, <1>1, <1>4 DEF ClientType
<1>6. ModeInv'
  BY <1>0, <1>1, <1>4 DEF ModeInv, Sdk, Running
<1>7. \A i \in 0 .. Len(returned) : Upto(i)' = Upto(i)
  BY <1>0, <1>4 DEF Upto
<1>8. StreamInv'
  <2>a. PICK n : n = Len(returned)
    OBVIOUS
  <2>1. n \in 0 .. Len(returned) /\ Upto(n)' = Upto(n) /\ cursor = Upto(n)
    BY <2>a, <1>0, <1>1, <1>7 DEF StreamInv
  <2>2. Len(returned') = n
    BY <2>a, <1>4
  <2>3. \A i \in DOMAIN returned' : returned'[i].upto <= Len(recorded) /\ returned'[i].heard <= read
    BY <1>0, <1>4 DEF StreamInv
  <2>4. QED
    BY <1>0, <1>1, <1>2, <2>1, <2>2, <2>3 DEF StreamInv, Sdk
<1>9. ASSUME NEW i \in DOMAIN returned PROVE Exact(i)'
  <2>1. i \in 0 .. Len(returned) /\ i - 1 \in 0 .. Len(returned)
    BY <1>0
  <2>2. Upto(i)' = Upto(i) /\ Upto(i - 1)' = Upto(i - 1) /\ Exact(i)
    BY <2>1, <1>0, <1>7
  <2>3. QED
    BY <1>1, <1>2, <1>4, <2>2 DEF Exact, Sdk
<1>10. ResponsesExact'
  BY <1>4, <1>9 DEF ResponsesExact, Exact
<1>11. QED
  BY <1>2, <1>4, <1>5, <1>6, <1>8, <1>10 DEF AskInv, ClientInv

\* Every step of the client's side.
LEMMA AskNextStep ==
  ASSUME AskInv, AskNext
  PROVE  AskInv'
<1>0. /\ DecodeType /\ ClientType /\ ModeInv /\ StreamInv /\ recorded \in Seq(Record) /\ got \in Seq(Record)
      /\ Len(recorded) \in Nat /\ read \in Nat /\ sent \in Nat /\ from \in Nat
      /\ made \in Nat /\ recent \in Nat /\ wrote \in Nat
      /\ cli \in {"agy", "codex", "kimi"} /\ wanted \in {1, New, Latest, Lost}
  <2>1. /\ DecodeType /\ ClientType /\ ModeInv /\ StreamInv /\ recorded \in Seq(Record) /\ Len(recorded) \in Nat
    BY Parts
  <2>2. \A n \in 1 .. New : n \in Nat
    BY DEF New
  <2>3. /\ got \in Seq(Record) /\ read \in Nat /\ sent \in Nat /\ from \in Nat
        /\ made \in Nat /\ recent \in Nat /\ wrote \in Nat /\ wanted \in {1, New, Latest, Lost}
    BY <2>1, <2>2 DEF ClientType
  <2>4. cli \in {"agy", "codex", "kimi"}
    BY <2>1, DecodeAssumption DEF DecodeType
  <2>5. QED
    BY <2>1, <2>3, <2>4
<1>1. \A c \in Nat : Id(c) \in IdType /\ Id(c).conv = c /\ Id(c).wrote = wrote
  BY <1>0 DEF Id, IdType
<1>2. 1 \in Nat /\ AgyFound \in Nat /\ CodexFound \in Nat /\ KimiFound \in Nat /\ Chosen \in Nat
  BY <1>0 DEF AgyFound, CodexFound, KimiFound, Chosen, AgyChosen, CodexChosen, KimiChosen, Resumed, New, Latest, Lost
<1>3. ASSUME phase = "turn", mode = "ask"
      PROVE  CaptureOrStream = IF capturing THEN recorded ELSE got
  <2>1. CASE ~capturing
    BY <2>1 DEF CaptureOrStream
  <2>2. CASE capturing
    <3>1. File = recorded
      BY <1>0, <1>3, <2>2, FileIsRecorded
    <3>2. CASE recorded # <<>>
      BY <2>2, <3>1, <3>2 DEF CaptureOrStream
    <3>3. CASE recorded = <<>>
      <4>1. returned = <<>> /\ Len(returned) = 0 /\ ~Sdk
        BY <1>0, <1>3 DEF ModeInv, Sdk
      <4>2. got = SubSeq(recorded, from + 1, read)
        BY <4>1, <1>0, <1>3 DEF StreamInv, Heard
      <4>3. read = 0
        BY <3>3, <1>0 DEF StreamInv
      <4>4. got = <<>>
        <5>1. from + 1 \in Int /\ read \in Int /\ read < from + 1
          BY <4>3, <1>0
        <5>2. QED
          BY <4>2, <5>1, SubSeqEmpty
      <4>5. QED
        BY <2>2, <3>1, <3>3, <4>4 DEF CaptureOrStream
    <3>4. QED
      BY <3>2, <3>3
  <2>3. QED
    BY <2>1, <2>2
<1>4. ASSUME phase = "turn", mode = "ask" PROVE CaptureOrStream \in Seq(Record)
  BY <1>0, <1>3, <1>4
<1>5. ASSUME NEW c \in Nat, Answer(CaptureOrStream, Id(c)) PROVE AskInv'
  <2>1. phase = "turn" /\ mode = "ask"
    BY <1>5 DEF Answer
  <2>2. PICK turns \in Seq(Record) : turns = CaptureOrStream
    BY <2>1, <1>4
  <2>3. Answer(turns, Id(c)) /\ turns = IF capturing THEN recorded ELSE got
    BY <1>3, <1>5, <2>1, <2>2
  <2>4. QED
    BY <1>1, <2>3, AnswerStep
<1>6. ASSUME NEW c \in Nat, Settle(c) PROVE AskInv'
  <2>1. PICK found \in IdType : found = Id(c)
    BY <1>1
  <2>2. Settle(found.conv) /\ found.wrote = wrote /\ found = Id(found.conv) /\ Id(1) \in IdType
    BY <1>1, <1>2, <1>6, <2>1
  <2>3. QED
    BY <2>2, SettleStep
<1>7. CASE Launch \/ Start \/ WriteStore \/ SendHome \/ NextPrompt \/ Fails
  BY <1>7, RestingSteps
<1>8. CASE CliStep
  BY <1>8, RecordingStep
<1>9. CASE Subscribe
  BY <1>9, SubscribeStep
<1>10. CASE Read
  BY <1>10, ReadStep
<1>11. CASE AgyAsk
  <2>1. PICK c \in Nat : c = IF wanted = 1 THEN 1 ELSE AgyFound
    BY <1>2
  <2>2. Answer(CaptureOrStream, Id(c))
    BY <1>11, <2>1 DEF AgyAsk
  <2>3. QED
    BY <1>5, <2>2
<1>12. CASE CodexAsk
  BY <1>12, <1>2, <1>5 DEF CodexAsk, CaptureOrStream
<1>13. CASE KimiAsk
  <2>1. cli = "kimi" /\ capturing /\ (IF File # <<>> THEN File ELSE got) = CaptureOrStream
    BY <1>13, <1>0 DEF KimiAsk, ModeInv, CaptureOrStream
  <2>2. Answer(CaptureOrStream, Id(KimiFound))
    BY <1>13, <2>1 DEF KimiAsk
  <2>3. QED
    BY <1>2, <1>5, <2>2
<1>14. CASE AgySession \/ CodexSession \/ KimiSession
  BY <1>14, <1>2, <1>6 DEF AgySession, CodexSession, KimiSession
<1>15. CASE ReturnSlice
  BY <1>15, <1>1, <1>2, SliceStep
<1>16. CASE CloseServer
  BY <1>16, CloseStep
<1>17. QED
  BY <1>7, <1>8, <1>9, <1>10, <1>11, <1>12, <1>13, <1>14, <1>15, <1>16 DEF AskNext

LEMMA AskStart == AskInit => AskInv
<1>1. SUFFICES ASSUME AskInit PROVE AskInv
  OBVIOUS
<1>2. /\ cli \in Clis /\ life = "off" /\ work = 0 /\ asked = <<>> /\ told = [r \in Responses |-> 0] /\ over = {}
      /\ pending = {} /\ acc = <<>> /\ recorded = <<>>
  BY <1>1 DEF AskInit, DecodeInit
<1>3. /\ Range(asked) = {} /\ Range(acc) = {} /\ DOMAIN asked = {} /\ DOMAIN acc = {} /\ DOMAIN recorded = {}
      /\ Len(recorded) = 0 /\ 0 \in Nat
  BY <1>2 DEF Range
<1>4. DecodeType
  BY <1>2, <1>3 DEF DecodeType
<1>5. AskedInv
  <2>1. \A r \in Responses : told[r] = 0
    BY <1>2
  <2>2. Events > 0
    BY DecodeAssumption
  <2>3. QED
    BY <1>2, <1>3, <2>1, <2>2 DEF AskedInv
<1>6. AccInv
  BY <1>3 DEF AccInv
<1>7. RecordedInv
  BY <1>2, <1>3 DEF RecordedInv
<1>8. RequestInv
  BY <1>2, <1>3 DEF RequestInv, OwnRequest
<1>9. /\ mode \in {"ask", "session", "sdk", "ask_sdk"} /\ capturing \in BOOLEAN /\ tailing \in BOOLEAN
      /\ (cli = "kimi" \/ (cli = "codex" /\ mode # "ask") => capturing)
      /\ (tailing => mode = "session" /\ capturing)
      /\ wanted \in {New, 1, Latest, Lost} /\ (cli \notin Resuming => wanted = New)
      /\ (wanted = Lost => cli = "codex" /\ mode # "session")
      /\ leftover = <<Old>> /\ made = 2 /\ recent \in {1, 2} /\ wrote = 0
      /\ from = NotYet /\ sent = 0 /\ read = 0
      /\ phase = "new" /\ got = <<>> /\ id = NoId /\ cursor = 0 /\ returned = <<>>
      /\ (mode \in {"sdk", "ask_sdk"} => cli = "codex")
  BY <1>1 DEF AskInit
<1>10. ClientType
  <2>1. 2 \in Nat /\ recent \in 1 .. New /\ NotYet \in Nat /\ id \in IdType
    BY <1>9, DecodeAssumption DEF New, NotYet, NoId, IdType
  <2>2. got \in Seq(Record) /\ returned \in Seq(Response)
    BY <1>9
  <2>3. QED
    BY <1>3, <1>9, <2>1, <2>2 DEF ClientType
<1>11. ModeInv
  BY <1>2, <1>9 DEF ModeInv, Sdk, Running
<1>12. /\ Len(returned) = 0 /\ DOMAIN returned = {}
  BY <1>9
<1>13. StreamInv
  <2>1. NotYet + 1 \in Int /\ NotYet \in Nat /\ 0 \in Int /\ 0 < NotYet + 1 /\ 0 <= 0
    BY DecodeAssumption DEF NotYet
  <2>2. SubSeq(recorded, NotYet + 1, 0) = <<>>
    BY <2>1, SubSeqEmpty
  <2>3. Heard(0) = NotYet /\ Upto(0) = 0
    BY <1>9 DEF Heard, Upto
  <2>4. QED
    BY <1>3, <1>9, <1>12, <2>1, <2>2, <2>3 DEF StreamInv
<1>14. ResponsesExact
  BY <1>12 DEF ResponsesExact
<1>15. QED
  BY <1>4, <1>5, <1>6, <1>7, <1>8, <1>10, <1>11, <1>13, <1>14 DEF AskInv, DecodeInv, ClientInv

LEMMA AskRests ==
  ASSUME AskInv, UNCHANGED askVars
  PROVE  AskInv'
<1>1. UNCHANGED <<cli, mode, capturing, tailing, wanted, life, work, asked, told, over, pending, acc, recorded,
                  leftover, made, recent, wrote, from, sent, read, phase, got, id, cursor, returned>>
  BY DEF askVars, config, decode, store, stream, call
<1>2. DecodeInv'
  <2>1. life' = life /\ work' \in Nat /\ UNCHANGED <<cli, decode>>
    BY <1>1, Numbers DEF decode
  <2>2. QED
    BY <2>1, DecoderRests
<1>3. /\ ClientType /\ ModeInv /\ returned \in Seq(Response)
      /\ sent \in Nat /\ read <= sent /\ sent <= Len(recorded) /\ (from = NotYet => sent = 0)
  BY Parts DEF StreamInv, ClientType
<1>4. ClientType' /\ ModeInv'
  BY <1>1, <1>3 DEF ClientType, ModeInv, Sdk, Running
<1>5. StreamInv' /\ ResponsesExact'
  BY <1>1, <1>3, RestingStep
<1>6. QED
  BY <1>2, <1>4, <1>5 DEF AskInv, ClientInv

\* The invariant of one use of a CLI: what the decoder in it has put together,
\* and how much of it has come home.
THEOREM AskInvariant == AskSpec => []AskInv
<1>1. AskInv /\ [AskNext]_askVars => AskInv'
  BY AskNextStep, AskRests
<1>2. QED
  BY AskStart, <1>1, PTL DEF AskSpec

\* A turn is the beginning of one response, in order, and no response makes two
\* turns: nothing of a broken answer bleeds into the next one.
THEOREM TurnsAreIntact == AskSpec => []TurnsIntact
<1>1. ASSUME AskInv PROVE TurnsIntact
  <2>1. RecordedInv
    BY <1>1, Parts DEF DecodeInv
  <2>2. QED
    BY <2>1 DEF RecordedInv, TurnsIntact, Prefix, Of
<1>2. QED
  BY <1>1, AskInvariant, PTL

\* A complete turn shows the request it answers, as long as none is forgotten.
THEOREM RequestsAreOwn == AskSpec => []OwnRequest
<1>1. ASSUME AskInv PROVE OwnRequest
  BY <1>1, Parts DEF DecodeInv, RequestInv
<1>2. QED
  BY <1>1, AskInvariant, PTL

\* Each response brings the turns of its own call, once and in their order.
THEOREM ResponsesAreExact == AskSpec => []ResponsesExact
<1>1. ASSUME AskInv PROVE ResponsesExact
  BY <1>1, Parts
<1>2. QED
  BY <1>1, AskInvariant, PTL

----------------------------------------------------------------------------
(* The id of the conversation.                                             *)

OwnId(found) == found.wrote # 0 => found.conv = found.wrote

IdInv == AskInv /\ StoreInv /\ IdIsOwn

\* A response with an id of its own is one more of that kind.
LEMMA OwnMore ==
  ASSUME AskInv, IdIsOwn, NEW turns, NEW found, OwnId(found), Respond(turns, found)
  PROVE  IdIsOwn' /\ id' = found
<1> DEFINE r == [turns |-> turns, upto |-> Len(recorded), heard |-> read, id |-> found]
           S == Response \cup {r}
           n == Len(returned)
<1>1. returned' = Append(returned, r) /\ id' = found /\ r.id = found
  BY DEF Respond
<1>2. returned \in Seq(Response) /\ n \in Nat /\ DOMAIN returned = 1 .. n
  BY Parts
<1> HIDE DEF r
<1>3. returned \in Seq(S) /\ r \in S
  BY <1>2
<1>4. /\ DOMAIN returned' = 1 .. n + 1 /\ returned'[n + 1] = r
      /\ \A i \in 1 .. n : returned'[i] = returned[i]
  BY <1>1, <1>3, Appended
<1> HIDE DEF n
<1>5. \A i \in 1 .. n + 1 : i \in 1 .. n \/ i = n + 1
  BY <1>2
<1>6. \A i \in 1 .. n : OwnId(returned[i].id)
  BY <1>2 DEF IdIsOwn, OwnId
<1>7. \A i \in DOMAIN returned' : OwnId(returned'[i].id)
  BY <1>1, <1>4, <1>5, <1>6
<1>8. QED
  BY <1>1, <1>7 DEF IdIsOwn, OwnId

\* What the CLI writes is what it was told to, and what the client then finds:
\* the last of the index only if nobody resumes a conversation of kimi.
LEMMA FoundIsOwn ==
  ASSUME AskInv, StoreInv, "kimi" \notin Resuming
  PROVE  /\ cli = "agy" => OwnId(Id(AgyFound))
         /\ cli = "codex" => OwnId(Id(CodexFound))
         /\ cli = "kimi" => OwnId(Id(KimiFound))
         /\ OwnId(Id(Chosen))
         /\ wanted = 1 => OwnId(Id(1))
<1>1. ModeInv /\ cli \in {"agy", "codex", "kimi"}
  BY Parts, DecodeAssumption DEF DecodeType
<1>2. wrote # 0 => wrote = Chosen /\ recent = wrote /\ (cli = "kimi" => made = wrote)
  BY DEF StoreInv
<1>3. \A c : OwnId(Id(c)) <=> (wrote # 0 => c = wrote)
  BY DEF OwnId, Id
<1>4. wanted = 1 => Chosen = 1
  BY <1>1 DEF ModeInv, Chosen, AgyChosen, CodexChosen, KimiChosen, Resumed, New, Latest, Lost
<1>5. QED
  BY <1>2, <1>3, <1>4 DEF AgyFound, CodexFound, KimiFound

LEMMA StoreStart == AskInit => StoreInv /\ IdIsOwn
<1>1. AskInit => wrote = 0 /\ id = NoId /\ returned = <<>>
  BY DEF AskInit
<1>2. returned = <<>> => DOMAIN returned = {}
  OBVIOUS
<1>3. QED
  BY <1>1, <1>2 DEF StoreInv, IdIsOwn, NoId

LEMMA IdStep ==
  ASSUME IdInv, AskNext, "kimi" \notin Resuming
  PROVE  StoreInv' /\ IdIsOwn'
<1>0. /\ AskInv /\ StoreInv /\ IdIsOwn /\ ModeInv /\ cli \in {"agy", "codex", "kimi"}
      /\ returned \in Seq(Response) /\ wanted \in {1, New, Latest, Lost}
  BY Parts, DecodeAssumption DEF IdInv, DecodeType, ClientType
<1>1. ASSUME UNCHANGED <<cli, wanted, made, recent, wrote>>, OwnId(id') PROVE StoreInv'
  BY <1>0, <1>1 DEF StoreInv, OwnId, Chosen, AgyChosen, CodexChosen, KimiChosen, Resumed
<1>2. OwnId(id)
  BY <1>0 DEF StoreInv, OwnId
<1>3. ASSUME UNCHANGED <<cli, wanted, made, recent, wrote>>, UNCHANGED <<id, returned>>
      PROVE  StoreInv' /\ IdIsOwn'
  BY <1>0, <1>1, <1>2, <1>3 DEF IdIsOwn
<1>4. ASSUME UNCHANGED <<cli, wanted, made, recent, wrote>>, NEW turns, NEW found, OwnId(found), Respond(turns, found)
      PROVE  StoreInv' /\ IdIsOwn'
  BY <1>0, <1>1, <1>4, OwnMore
<1>5. /\ cli = "agy" => OwnId(Id(AgyFound))
      /\ cli = "codex" => OwnId(Id(CodexFound))
      /\ cli = "kimi" => OwnId(Id(KimiFound))
      /\ OwnId(Id(Chosen))
      /\ wanted = 1 => OwnId(Id(1))
  BY <1>0, FoundIsOwn
<1>6. ASSUME NEW c, OwnId(Id(c)), Settle(c) PROVE StoreInv' /\ IdIsOwn'
  <2>1. PICK known : known = IF id # NoId THEN id ELSE IF wanted = 1 THEN Id(1) ELSE Id(c)
    OBVIOUS
  <2>2. OwnId(known)
    BY <1>2, <1>5, <1>6, <2>1
  <2>3. UNCHANGED <<cli, wanted, made, recent, wrote>> /\ \E turns : Respond(turns, known)
    BY <1>6, <2>1 DEF Settle, config, store
  <2>4. QED
    BY <1>4, <2>2, <2>3
<1>7. CASE Launch \/ Start \/ Subscribe \/ SendHome \/ Read \/ NextPrompt \/ Fails
  BY <1>3, <1>7 DEF Launch, Start, Subscribe, SendHome, Read, NextPrompt, Fails, config, store, call
<1>8. CASE CliStep
  BY <1>3, <1>8 DEF CliStep, config, store, call
<1>9. CASE WriteStore
  <2>1. /\ wrote' = Chosen /\ recent' = Chosen /\ made' = IF Chosen = New THEN New ELSE made
        /\ UNCHANGED <<cli, wanted, id, returned>>
    BY <1>9 DEF WriteStore, config, call
  <2>2. Chosen' = Chosen
    <3>1. wanted = Latest => Chosen = recent
      BY <1>0 DEF Chosen, AgyChosen, CodexChosen, KimiChosen, Resumed, Latest, Lost
    <3>2. CASE wanted = Latest
      <4>1. recent' = recent
        BY <2>1, <3>1, <3>2
      <4>2. QED
        BY <2>1, <4>1 DEF Chosen, AgyChosen, CodexChosen, KimiChosen, Resumed
    <3>3. CASE wanted # Latest
      BY <2>1, <3>3 DEF Chosen, AgyChosen, CodexChosen, KimiChosen, Resumed
    <3>4. QED
      BY <3>2, <3>3
  <2>3. cli = "kimi" => Chosen = New
    BY <1>0 DEF ModeInv, Chosen, KimiChosen, Resumed, New, Latest
  <2>4. StoreInv'
    BY <1>0, <2>1, <2>2, <2>3 DEF StoreInv
  <2>5. QED
    BY <1>0, <2>1, <2>4 DEF IdIsOwn
<1>10. CASE AgyAsk
  BY <1>4, <1>5, <1>10 DEF AgyAsk, Answer, config, store
<1>11. CASE CodexAsk
  BY <1>4, <1>5, <1>11 DEF CodexAsk, Answer, config, store
<1>12. CASE KimiAsk
  BY <1>4, <1>5, <1>12 DEF KimiAsk, Answer, config, store
<1>13. CASE AgySession \/ CodexSession \/ KimiSession
  BY <1>5, <1>6, <1>13 DEF AgySession, CodexSession, KimiSession
<1>14. CASE ReturnSlice
  BY <1>4, <1>5, <1>14 DEF ReturnSlice, config, store
<1>15. CASE CloseServer
  <2>1. /\ DOMAIN returned' = DOMAIN returned /\ \A i \in DOMAIN returned : returned'[i].id = returned[i].id
        /\ UNCHANGED <<cli, wanted, made, recent, wrote, id>>
    BY <1>0, <1>15, CloseStep DEF CloseServer, config, store
  <2>2. IdIsOwn'
    BY <1>0, <2>1 DEF IdIsOwn
  <2>3. QED
    BY <1>1, <1>2, <2>1, <2>2
<1>16. QED
  BY <1>7, <1>8, <1>9, <1>10, <1>11, <1>12, <1>13, <1>14, <1>15 DEF AskNext

\* The id of a response names what the run wrote, for every CLI whose callers
\* resume no conversation of kimi: kimi's index, whose last entry is read, gets
\* an entry only for a new one.
THEOREM IdsAreOwn ==
  ASSUME "kimi" \notin Resuming
  PROVE  AskSpec => []IdIsOwn
<1>1. AskInit => IdInv
  BY AskStart, StoreStart DEF IdInv
<1>2. IdInv /\ [AskNext]_askVars => IdInv'
  <2>1. ASSUME IdInv, AskNext PROVE IdInv'
    BY <2>1, IdStep, AskNextStep DEF IdInv
  <2>2. ASSUME IdInv, UNCHANGED askVars PROVE IdInv'
    <3>1. AskInv' /\ UNCHANGED <<cli, wanted, made, recent, wrote, id, returned>>
      BY <2>2, AskRests DEF IdInv, askVars, config, store, call
    <3>2. StoreInv' /\ IdIsOwn'
      BY <2>2, <3>1 DEF IdInv, StoreInv, IdIsOwn, Chosen, AgyChosen, CodexChosen, KimiChosen, Resumed
    <3>3. QED
      BY <3>1, <3>2 DEF IdInv
  <2>3. QED
    BY <2>1, <2>2
<1>3. IdInv => IdIsOwn
  BY DEF IdInv
<1>4. QED
  BY <1>1, <1>2, <1>3, PTL DEF AskSpec
=============================================================================
