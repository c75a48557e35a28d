-------------------------- MODULE AgentLoopProofs --------------------------
(***************************************************************************)
(* Theorems about AgentLoop, for any backends, questions, number of        *)
(* choices and length of a session.                                        *)
(*                                                                         *)
(* The invariant follows a reply from the thread that fetched it: a slot   *)
(* of the results list is filled with the reply to its own place of this   *)
(* ask or not at all, and the attempt loop looks at the list only when     *)
(* every slot is filled.  It also follows a question to the request that   *)
(* is made of it, through the selections by which each adapter sorts the   *)
(* parts.                                                                  *)
(***************************************************************************)
EXTENDS AgentLoop, FiniteSetTheorems, WellFoundedInduction, TLAPS

----------------------------------------------------------------------------
(* The inductive invariant.                                                *)

States == {"waiting", "got", "died"}
Contents == {"exact", "half", "prose", "code", "null", "none", "tool", "timeout"}
Slot   == [state : States, from : Nat \X Nat \X Nat, content : Contents]

\* The counters and the results list keep their types.
SlotsType == queries \in Nat /\ asks \in Nat /\ results \in Seq(Slot)

\* A slot has no reply, or the one to this ask that belongs there.
Fetched(i) == results[i].state = "got"
OwnReplies == \A i \in 1..n : Fetched(i) => results[i].from = << queries, asks, i >>

\* Of a stream's chunks none makes a thread die.
Streamed == model = "vllm" => \A i \in 1..n : results[i] = Waiting \/ Fetched(i)

\* The attempt loop looks at a results list only when it is complete.
Complete == pc = "judging" => \A i \in 1..n : Fetched(i)

QueryInv == SlotsType /\ OwnReplies /\ Streamed /\ Complete /\ AnswersMatchReplies

----------------------------------------------------------------------------
(* Slots.                                                                  *)

\* A set of natural numbers has a smallest one, which Min returns.
LEMMA LeastMember ==
  ASSUME NEW S, S \subseteq Nat, S # {}
  PROVE  \E x \in S : \A y \in S : x <= y
<1> DEFINE R == OpToRel(<, Nat)
<1>1. IsWellFoundedOn(R, Nat)
  BY NatLessThanWellFounded
<1>2. \A x, y \in Nat : x < y => <<x, y>> \in R
  BY DEF OpToRel
<1> HIDE DEF R
<1>3. PICK x \in S : \A y \in S : <<y, x>> \notin R
  BY <1>1, WFMin
<1>4. \A y \in S : ~(y < x)
  BY <1>2, <1>3
<1>5. \A y \in S : x <= y
  BY <1>4
<1>6. QED
  BY <1>5

LEMMA MinIsMember ==
  ASSUME NEW S, S \subseteq Nat, S # {}
  PROVE  Min(S) \in S
  BY LeastMember DEF Min

\* The parser has accepted every reply when it reports no error.
LEMMA VerdictMeans ==
  ASSUME SlotsType, Verdict = "ok"
  PROVE  \A i \in 1..n : Parse(results[i].content) = "ok"
<1> DEFINE bad == {i \in 1..n : Parse(results[i].content) # "ok"}
<1>1. n \in Nat
  BY DEF SlotsType, n
<1>2. bad \subseteq Nat
  BY <1>1
<1>3. ASSUME bad # {} PROVE FALSE
  <2>1. Min(bad) \in bad
    BY <1>2, <1>3, MinIsMember
  <2>2. Verdict = Parse(results[Min(bad)].content)
    BY <1>3 DEF Verdict
  <2>3. QED
    BY <2>1, <2>2
<1>4. QED
  BY <1>3

LEMMA SlotFacts ==
  ASSUME SlotsType
  PROVE  /\ n \in Nat /\ DOMAIN results = 1..n /\ \A i \in 1..n : results[i] \in Slot
         /\ Waiting \in Slot /\ Died \in Slot /\ Waiting.state = "waiting" /\ Died.state = "died"
         /\ \A i \in 1..n, c \in Contents : /\ Got(i, c) \in Slot
                                          /\ Got(i, c).state = "got"
                                          /\ Got(i, c).from = << queries, asks, i >>
<1>1. n \in Nat /\ DOMAIN results = 1..n /\ \A i \in 1..n : results[i] \in Slot
  BY DEF SlotsType, n
<1>2. NoReply \in Nat \X Nat \X Nat
  BY DEF NoReply
<1>3. Waiting \in Slot /\ Died \in Slot /\ Waiting.state = "waiting" /\ Died.state = "died"
  <2>1. \A s \in States : [state |-> s, from |-> NoReply, content |-> "null"] \in Slot
    BY <1>2 DEF Slot, Contents
  <2>2. QED
    BY <2>1 DEF Waiting, Died, States
<1>4. ASSUME NEW i \in 1..n, NEW c \in Contents
      PROVE  /\ Got(i, c) \in Slot /\ Got(i, c).state = "got"
             /\ Got(i, c).from = << queries, asks, i >>
  <2>1. << queries, asks, i >> \in Nat \X Nat \X Nat
    BY <1>1 DEF SlotsType
  <2>2. QED
    BY <2>1 DEF Got, Slot, States
<1>5. QED
  BY <1>1, <1>3, <1>4

\* A results list whose slots are filled with replies of their own.
LEMMA FillSlots ==
  ASSUME SlotsType, NEW k \in Nat, DOMAIN results' = 1..k, results' = [i \in 1..k |-> results'[i]],
         \A i \in 1..k : /\ results'[i] \in Slot
                         /\ results'[i].state = "got" => results'[i].from = << queries', asks', i >>,
         queries' \in Nat, asks' \in Nat,
         case' = case, model # "vllm" \/ \A i \in 1..k : results'[i] = Waiting \/ results'[i].state = "got"
  PROVE  SlotsType' /\ OwnReplies' /\ Streamed' /\ n' = k
<1>1. results' \in Seq(Slot) /\ Len(results') = k
  OBVIOUS
<1>2. QED
  BY <1>1 DEF SlotsType, OwnReplies, Streamed, Fetched, Waiting, NoReply, model, n

\* One slot is filled while the replies are fetched.
LEMMA FillSlot ==
  ASSUME QueryInv, pc' = "asking", UNCHANGED << queries, asks, case >>,
         NEW i \in 1..n, NEW v \in Slot, model # "vllm" \/ v.state = "got", v.state = "got" => v.from = << queries, asks, i >>,
         results' = [results EXCEPT ![i] = v]
  PROVE  QueryInv'
<1>0. SlotsType /\ OwnReplies /\ Streamed
  BY DEF QueryInv
<1>1. n \in Nat /\ DOMAIN results = 1..n /\ \A j \in 1..n : results[j] \in Slot
  BY <1>0, SlotFacts
<1>2. DOMAIN results' = 1..n /\ results' = [j \in 1..n |-> results'[j]]
  BY <1>1
<1>3. \A j \in 1..n : results'[j] = IF j = i THEN v ELSE results[j]
  BY <1>1
<1>4. \A j \in 1..n : /\ results'[j] \in Slot
                      /\ results'[j].state = "got" => results'[j].from = << queries', asks', j >>
  BY <1>0, <1>1, <1>3 DEF OwnReplies, Fetched
<1>5. queries' \in Nat /\ asks' \in Nat
  BY <1>0 DEF SlotsType
<1>6. model # "vllm" \/ \A j \in 1..n : results'[j] = Waiting \/ results'[j].state = "got"
  BY <1>0, <1>3 DEF Streamed, Fetched
<1>7. SlotsType' /\ OwnReplies' /\ Streamed'
  BY <1>0, <1>1, <1>2, <1>4, <1>5, <1>6, FillSlots
<1>8. QED
  BY <1>7 DEF QueryInv, Complete, AnswersMatchReplies

\* No query has answers, or all slots to look at, when it has failed or is over.
LEMMA NothingToShow ==
  ASSUME SlotsType', OwnReplies', Streamed', pc' \notin {"judging", "returned"}
  PROVE  QueryInv'
  BY DEF QueryInv, Complete, AnswersMatchReplies

\* What is left alone keeps its own replies.
LEMMA SlotsStay ==
  ASSUME QueryInv, UNCHANGED << queries, asks, results, case >>
  PROVE  SlotsType' /\ OwnReplies' /\ Streamed' /\ n' = n /\ \A i \in 1..n : Fetched(i)' = Fetched(i)
  BY DEF QueryInv, SlotsType, OwnReplies, Streamed, Fetched, Waiting, NoReply, model, n

LEMMA Untouched ==
  ASSUME QueryInv, UNCHANGED << queries, asks, results, pc, case, answers >>
  PROVE  QueryInv'
<1>1. SlotsType' /\ OwnReplies' /\ Streamed' /\ n' = n /\ \A i \in 1..n : Fetched(i)' = Fetched(i)
  BY SlotsStay
<1>2. Complete' /\ AnswersMatchReplies'
  BY <1>1 DEF QueryInv, Complete, AnswersMatchReplies, Parse
<1>3. QED
  BY <1>1, <1>2 DEF QueryInv

\* A complete results list is one that the attempt loop may look at.
LEMMA Judged ==
  ASSUME SlotsType', OwnReplies', Streamed', \A i \in 1..n' : Fetched(i)', pc' = "judging"
  PROVE  QueryInv'
  BY DEF QueryInv, Complete, AnswersMatchReplies

----------------------------------------------------------------------------
(* The parts of a question.                                                *)

\* The parts of questions, and those that adapters put in.
Piece == Part \cup {Blank, Unfetched}

\* How many members of S are not above i.
Rank(S, i) == Cardinality({j \in S : j <= i})

\* The rank grows by one at a member and stays elsewhere.
LEMMA RankGrows ==
  ASSUME NEW m \in Nat, NEW S \in SUBSET (1..m)
  PROVE  /\ IsFiniteSet(S) /\ Cardinality(S) \in Nat
         /\ Rank(S, 0) = 0 /\ Rank(S, m) = Cardinality(S)
         /\ \A i \in 0..m : Rank(S, i) \in Nat
         /\ \A i \in 1..m : Rank(S, i) = IF i \in S THEN Rank(S, i - 1) + 1 ELSE Rank(S, i - 1)
<1>1. IsFiniteSet(1..m)
  BY FS_Interval
<1>2. \A T \in SUBSET (1..m) : IsFiniteSet(T) /\ Cardinality(T) \in Nat
  BY <1>1, FS_Subset, FS_CardinalityType
<1>3. \A i \in 0..m : {j \in S : j <= i} \in SUBSET (1..m)
  OBVIOUS
<1>4. \A i \in 0..m : Rank(S, i) \in Nat
  BY <1>2, <1>3 DEF Rank
<1>e. \A j \in S : j \in Nat /\ 1 <= j /\ j <= m
  OBVIOUS
<1>5. {j \in S : j <= 0} = {} /\ {j \in S : j <= m} = S
  <2>1. {j \in S : j <= 0} = {}
    <3>1. \A j \in S : ~(j <= 0)
      BY <1>e
    <3>2. QED
      BY <3>1, Zenon
  <2>2. {j \in S : j <= m} = S
    BY <1>e
  <2>3. QED
    BY <2>1, <2>2
<1>6. Rank(S, 0) = 0 /\ Rank(S, m) = Cardinality(S)
  BY <1>5, FS_EmptySet DEF Rank
<1>7. ASSUME NEW i \in 1..m
      PROVE  Rank(S, i) = IF i \in S THEN Rank(S, i - 1) + 1 ELSE Rank(S, i - 1)
  <2>1. PICK below : below = {j \in S : j <= i - 1}
    OBVIOUS
  <2>2. below \in SUBSET (1..m) /\ i \notin below
    <3>1. \A j \in below : j \in 1..m /\ j <= i - 1
      BY <2>1
    <3>2. ~(i <= i - 1)
      OBVIOUS
    <3>3. QED
      BY <3>1, <3>2
  <2>a. \A j \in S : j <= i <=> (j <= i - 1 \/ j = i)
    BY <1>e
  <2>3. CASE i \in S
    <3>1. {j \in S : j <= i} = below \cup {i}
      BY <2>1, <2>3, <2>a
    <3>2. Cardinality(below \cup {i}) = Cardinality(below) + 1
      BY <1>2, <2>2, FS_AddElement
    <3>3. QED
      BY <2>1, <2>3, <3>1, <3>2, Zenon DEF Rank
  <2>4. CASE i \notin S
    <3>1. {j \in S : j <= i} = below
      BY <2>1, <2>4, <2>a
    <3>2. QED
      BY <2>1, <2>4, <3>1, Zenon DEF Rank
  <2>5. QED
    BY <2>3, <2>4
<1>8. QED
  BY <1>2, <1>4, <1>6, <1>7

\* A set of k numbers has a k-th member.
LEMMA NthIsMember ==
  ASSUME NEW m \in Nat, NEW S \in SUBSET (1..m), NEW k \in 1..Cardinality(S)
  PROVE  Nth(S, k) \in S /\ Rank(S, Nth(S, k)) = k
<1> DEFINE high == {i \in 0..m : Rank(S, i) >= k}
<1>1. /\ Cardinality(S) \in Nat /\ k \in Nat
      /\ Rank(S, 0) = 0 /\ Rank(S, m) = Cardinality(S)
      /\ \A i \in 0..m : Rank(S, i) \in Nat
      /\ \A i \in 1..m : Rank(S, i) = IF i \in S THEN Rank(S, i - 1) + 1 ELSE Rank(S, i - 1)
  BY RankGrows
<1>2. high \subseteq Nat /\ m \in high
  BY <1>1
<1>3. PICK i \in high : \A j \in high : i <= j
  BY <1>2, LeastMember
<1>4. i \in 0..m /\ Rank(S, i) >= k
  OBVIOUS
<1>5. i # 0
  BY <1>1, <1>4
<1>6. i \in 1..m /\ i - 1 \in 0..m /\ ~(i <= i - 1)
  BY <1>4, <1>5
<1>7. i - 1 \notin high
  BY <1>3, <1>6
<1>8. ~(Rank(S, i - 1) >= k)
  BY <1>6, <1>7
<1>9. i \in S /\ Rank(S, i) = k
  <2>1. Rank(S, i) \in Nat /\ Rank(S, i - 1) \in Nat
    BY <1>1, <1>6
  <2>2. Rank(S, i) = IF i \in S THEN Rank(S, i - 1) + 1 ELSE Rank(S, i - 1)
    BY <1>1, <1>6
  <2> HIDE DEF high
  <2>3. QED
    BY <1>1, <1>4, <1>8, <2>1, <2>2
<1>10. QED
  BY <1>9 DEF Nth, Rank

\* Every part of the selection is one of the question, of that kind.
LEMMA OfKindParts ==
  ASSUME NEW q \in Seq(Piece), NEW kind \in {"text", "image"}
  PROVE  /\ OfKind(q, kind) \in Seq(Piece)
         /\ \A k \in DOMAIN OfKind(q, kind) : OfKind(q, kind)[k].kind = kind
<1> DEFINE at == {i \in DOMAIN q : q[i].kind = kind}
<1>1. at \in SUBSET (1..Len(q)) /\ Len(q) \in Nat
  OBVIOUS
<1>2. Cardinality(at) \in Nat
  BY <1>1, RankGrows
<1>3. \A k \in 1..Cardinality(at) : Nth(at, k) \in at
  BY <1>1, NthIsMember
<1>4. \A k \in 1..Cardinality(at) : q[Nth(at, k)] \in Piece /\ q[Nth(at, k)].kind = kind
  BY <1>3
<1>5. OfKind(q, kind) = [k \in 1..Cardinality(at) |-> q[Nth(at, k)]]
  BY DEF OfKind
<1> HIDE DEF at
<1>6. QED
  BY <1>2, <1>4, <1>5

\* The parts of the kind are the m parts behind the first a.
Block(q, kind, a, m) == {i \in DOMAIN q : q[i].kind = kind} = (a + 1)..(a + m)

\* Where the parts of a kind stand together, the selection is that block.
LEMMA OfKindBlock ==
  ASSUME NEW q \in Seq(Piece), NEW kind, NEW a \in Nat, NEW m \in Nat, Block(q, kind, a, m)
  PROVE  OfKind(q, kind) = [k \in 1..m |-> q[a + k]]
<1> DEFINE at == (a + 1)..(a + m)
<1>1. Cardinality(at) = m
  BY FS_Interval
<1>2. ASSUME NEW k \in 1..m PROVE Nth(at, k) = a + k
  <2>1. ASSUME NEW i \in at PROVE Cardinality({j \in at : j <= i}) = i - a
    <3>1. {j \in at : j <= i} = (a + 1)..i
      OBVIOUS
    <3>2. Cardinality((a + 1)..i) = i - a
      BY FS_Interval
    <3>3. QED
      BY <3>1, <3>2
  <2>2. a + k \in at /\ \A i \in at : i - a = k <=> i = a + k
    OBVIOUS
  <2>3. PICK S : S = at
    OBVIOUS
  <2>4. /\ a + k \in S /\ Cardinality({j \in S : j <= a + k}) = k
        /\ \A i \in S : Cardinality({j \in S : j <= i}) = k => i = a + k
    BY <2>1, <2>2, <2>3
  <2>5. Nth(S, k) = a + k
    BY <2>4 DEF Nth
  <2>6. QED
    BY <2>3, <2>5
<1>3. OfKind(q, kind) = [k \in 1..Cardinality(at) |-> q[Nth(at, k)]]
  BY DEF OfKind, Block
<1> HIDE DEF at
<1>4. QED
  BY <1>1, <1>2, <1>3

AllOf(s, kind) == s \in Seq(Piece) /\ \A k \in DOMAIN s : s[k].kind = kind

\* Of two blocks put behind each other the selection gets each back.
LEMMA TwoBlocks ==
  ASSUME NEW one \in {"text", "image"}, NEW other \in {"text", "image"}, one # other,
         NEW s, NEW t, AllOf(s, one), AllOf(t, other)
  PROVE  OfKind(s \o t, one) = s /\ OfKind(s \o t, other) = t
<1>0. /\ s \in Seq(Piece) /\ t \in Seq(Piece)
      /\ \A k \in 1..Len(s) : s[k].kind = one
      /\ \A k \in 1..Len(t) : t[k].kind = other
  BY DEF AllOf
<1>1. PICK q : q = s \o t
  OBVIOUS
<1>2. /\ q \in Seq(Piece) /\ Len(q) = Len(s) + Len(t)
      /\ \A k \in 1..Len(s) : q[k] = s[k]
      /\ \A k \in 1..Len(t) : q[Len(s) + k] = t[k]
  BY <1>0, <1>1
<1>3. Len(s) \in Nat /\ Len(t) \in Nat
  BY <1>0
<1>4. PICK z, a, b : z = 0 /\ a = Len(s) /\ b = Len(t)
  OBVIOUS
<1>5. z \in Nat /\ a \in Nat /\ b \in Nat /\ DOMAIN q = 1..(a + b)
  BY <1>2, <1>3, <1>4
<1>6. ASSUME NEW i \in 1..(a + b)
      PROVE  (q[i].kind = one <=> i <= a) /\ (q[i].kind = other <=> ~(i <= a))
  <2>1. CASE i <= a
    <3>1. i \in 1..a
      BY <1>5, <2>1
    <3>2. q[i].kind = one
      BY <1>0, <1>2, <1>4, <3>1
    <3>3. QED
      BY <2>1, <3>2
  <2>2. CASE ~(i <= a)
    <3>1. i - a \in 1..b /\ a + (i - a) = i
      BY <1>5, <2>2
    <3>2. q[a + (i - a)] = t[i - a] /\ t[i - a].kind = other
      BY <1>0, <1>2, <1>4, <3>1
    <3>3. q[i].kind = other
      BY <3>1, <3>2
    <3>4. QED
      BY <2>2, <3>3
  <2>3. QED
    BY <2>1, <2>2
<1>7. Block(q, one, z, a)
  <2>1. {i \in DOMAIN q : q[i].kind = one} = {i \in 1..(a + b) : i <= a}
    BY <1>5, <1>6
  <2>2. {i \in 1..(a + b) : i <= a} = 1..a
    BY <1>5
  <2>3. (z + 1)..(z + a) = 1..a
    BY <1>4, <1>5
  <2>4. QED
    BY <2>1, <2>2, <2>3 DEF Block
<1>8. Block(q, other, a, b)
  <2>1. {i \in DOMAIN q : q[i].kind = other} = {i \in 1..(a + b) : ~(i <= a)}
    BY <1>5, <1>6
  <2>2. {i \in 1..(a + b) : ~(i <= a)} = (a + 1)..(a + b)
    BY <1>5
  <2>3. QED
    BY <2>1, <2>2 DEF Block
<1>9. OfKind(q, one) = [k \in 1..a |-> q[z + k]]
  <2>1. q \in Seq(Piece) /\ z \in Nat /\ a \in Nat
    BY <1>2, <1>5
  <2>2. QED
    BY <2>1, <1>7, OfKindBlock
<1>10. OfKind(q, other) = [k \in 1..b |-> q[a + k]]
  <2>1. q \in Seq(Piece) /\ a \in Nat /\ b \in Nat
    BY <1>2, <1>5
  <2>2. QED
    BY <2>1, <1>8, OfKindBlock
<1>11. OfKind(q, one) = s
  <2>1. \A k \in 1..a : q[z + k] = s[k]
    BY <1>2, <1>4, <1>5
  <2>2. OfKind(q, one) = [k \in 1..Len(s) |-> s[k]]
    BY <1>4, <1>9, <2>1
  <2>3. QED
    BY <1>0, <2>2
<1>12. OfKind(q, other) = t
  <2>1. OfKind(q, other) = [k \in 1..Len(t) |-> t[k]]
    BY <1>2, <1>4, <1>10
  <2>2. QED
    BY <1>0, <2>1
<1>13. QED
  BY <1>1, <1>11, <1>12

----------------------------------------------------------------------------
(* The replies.                                                            *)

Read == Contents \cup {"raise"}

\* One thread fetches one reply, or dies.
LEMMA ThreadStep ==
  ASSUME QueryInv, NEW m, NEW reading, \A r \in DOMAIN reading : reading[r] \in Read, m # "vllm",
         Thread(m, reading)
  PROVE  QueryInv'
<1>0. SlotsType
  BY DEF QueryInv
<1>1. PICK i \in 1..n, r \in DOMAIN reading :
        Store(i, IF reading[r] = "raise" THEN Died ELSE Got(i, reading[r]))
  BY DEF Thread
<1>2. pc' = "asking" /\ UNCHANGED << queries, asks, case >> /\ model # "vllm"
  BY DEF Thread, AskVars
<1>3. PICK v : v = IF reading[r] = "raise" THEN Died ELSE Got(i, reading[r])
  OBVIOUS
<1>4. v \in Slot /\ (v.state = "got" => v.from = << queries, asks, i >>)
  BY <1>0, <1>3, SlotFacts DEF Read
<1>5. results' = [results EXCEPT ![i] = v]
  BY <1>1, <1>3 DEF Store
<1>6. QED
  BY <1>2, <1>4, <1>5, FillSlot

\* What is read from a reply is a text.
LEMMA ReadingText ==
  ASSUME NEW special, \A r \in DOMAIN special : special[r] \in Read
  PROVE  \A r \in DOMAIN Reading(special) : Reading(special)[r] \in Read
  BY DEF Reading, Read, Contents

LEMMA Readings ==
  /\ \A r \in DOMAIN Reading(NoText) : Reading(NoText)[r] \in Read
  /\ \A r \in DOMAIN Generated : Generated[r] \in Read
  /\ \A r \in DOMAIN Turn : Turn[r] \in Read
<1>1. \A r \in DOMAIN NoText : NoText[r] \in Read
  BY DEF NoText, Read, Contents
<1>a. \A r \in DOMAIN [error |-> "raise"] : [error |-> "raise"][r] \in Read
  BY DEF Read
<1>b. \A r \in DOMAIN [none |-> "none", tool |-> "tool", error |-> "raise"] :
        [none |-> "none", tool |-> "tool", error |-> "raise"][r] \in Read
  BY DEF Read, Contents
<1>2. QED
  BY <1>1, <1>a, <1>b, ReadingText DEF Generated, Turn

\* A step of a provider, a stream, a CLI or the joining caller.
LEMMA RepliesStep ==
  ASSUME QueryInv, Replies
  PROVE  QueryInv'
<1>0. SlotsType /\ OwnReplies /\ Streamed
  BY DEF QueryInv
<1>n. n \in Nat /\ DOMAIN results = 1..n /\ \A i \in 1..n : results[i] \in Slot
  BY <1>0, SlotFacts
<1>1. CASE ClaudeAsk \/ KimiAsk
  BY <1>1, ThreadStep, Readings DEF ClaudeAsk, KimiAsk
<1>2. CASE GeminiAsk
  <2>1. PICK special : special = [none |-> "raise", error |-> "raise"]
    OBVIOUS
  <2>2. \A r \in DOMAIN Reading(special) : Reading(special)[r] \in Read
    BY <2>1, ReadingText DEF Read, Contents
  <2>3. QED
    BY <1>2, <2>1, <2>2, ThreadStep DEF GeminiAsk
<1>3. CASE OllamaAsk
  <2>1. PICK answer : answer = Generated
    OBVIOUS
  <2>2. \A r \in DOMAIN answer : answer[r] \in Read /\ [s \in DOMAIN answer |-> "raise"][r] \in Read
    BY <2>1, Readings DEF Read
  <2>3. Thread("ollama", answer) \/ Thread("ollama", [r \in DOMAIN answer |-> "raise"])
    BY <1>3, <2>1 DEF OllamaAsk, Generated
  <2>4. QED
    BY <2>2, <2>3, ThreadStep
<1>4. CASE LlamaAsk \/ PhiAsk \/ QwenAsk \/ MiniCPMAsk \/ InternAsk
  BY <1>4, ThreadStep, Readings DEF LlamaAsk, PhiAsk, QwenAsk, MiniCPMAsk, InternAsk
<1>5. CASE ClaudeCodeSample \/ AgySample \/ KimiCodeSample
  BY <1>5, ThreadStep, Readings DEF ClaudeCodeSample, AgySample, KimiCodeSample
<1>6. CASE CodexSample
  <2>1. PICK special : special = [none |-> "none", tool |-> "tool", error |-> "raise", timeout |-> "timeout"]
    OBVIOUS
  <2>2. \A r \in DOMAIN Reading(special) : Reading(special)[r] \in Read
    BY <2>1, ReadingText DEF Read, Contents
  <2>3. QED
    BY <1>6, <2>1, <2>2, ThreadStep DEF CodexSample
<1>7. CASE VLLMChunk
  <2>1. PICK i \in 1..n, c \in {"exact", "half", "prose", "code"} : Store(i, Got(i, c))
    BY <1>7 DEF VLLMChunk
  <2>2. pc' = "asking" /\ UNCHANGED << queries, asks, case >>
    BY <1>7 DEF VLLMChunk, AskVars
  <2>3. Got(i, c) \in Slot /\ Got(i, c).state = "got" /\ Got(i, c).from = << queries, asks, i >>
    BY <1>0, SlotFacts DEF Contents
  <2>4. QED
    BY <2>1, <2>2, <2>3, FillSlot DEF Store
<1>8. CASE GPTAsk \/ VLLMEnd \/ Join \/ Finish
  <2>0. UNCHANGED << queries, asks, case >> /\ queries' \in Nat /\ asks' \in Nat
    BY <1>0, <1>8 DEF GPTAsk, VLLMEnd, Join, Finish, AskVars, SlotsType
  <2>1. CASE UNCHANGED results /\ pc' = "failed"
    BY <2>0, <2>1, SlotsStay, NothingToShow
  <2>2. ASSUME pc' = "judging", NEW f, results' = [i \in 1..n |-> f[i]],
               \A i \in 1..n : /\ f[i] \in Slot /\ f[i].state = "got"
                               /\ f[i].from = << queries, asks, i >>
        PROVE  QueryInv'
    <3>1. DOMAIN results' = 1..n /\ results' = [i \in 1..n |-> results'[i]]
          /\ \A i \in 1..n : /\ results'[i] \in Slot /\ results'[i].state = "got"
                             /\ results'[i].from = << queries', asks', i >>
      BY <2>0, <2>2
    <3>2. SlotsType' /\ OwnReplies' /\ Streamed' /\ n' = n
      BY <1>0, <1>n, <2>0, <3>1, FillSlots
    <3>3. QED
      BY <2>2, <3>1, <3>2, Judged DEF Fetched
  <2>3. CASE GPTAsk
    <3>1. ASSUME NEW c \in [1..n -> {"exact", "half", "prose", "null"}],
                 results' = [i \in 1..n |-> Got(i, c[i])], pc' = "judging"
          PROVE  QueryInv'
      <4> DEFINE f == [i \in 1..n |-> Got(i, c[i])]
      <4>1. \A i \in 1..n : /\ f[i] \in Slot /\ f[i].state = "got"
                            /\ f[i].from = << queries, asks, i >>
        BY <1>0, SlotFacts DEF Contents
      <4>2. results' = [i \in 1..n |-> f[i]]
        BY <3>1
      <4> HIDE DEF f
      <4>3. QED
        BY <2>2, <3>1, <4>1, <4>2
    <3>2. QED
      BY <2>1, <2>3, <3>1 DEF GPTAsk, Fail
  <2>4. CASE VLLMEnd
    <3>1. ASSUME results' = [i \in 1..n |-> IF results[i] = Waiting THEN Got(i, "prose") ELSE results[i]],
                 pc' = "judging"
          PROVE  QueryInv'
      <4> DEFINE f == [i \in 1..n |-> IF results[i] = Waiting THEN Got(i, "prose") ELSE results[i]]
      <4>1. \A i \in 1..n : /\ Got(i, "prose") \in Slot /\ Got(i, "prose").state = "got"
                            /\ Got(i, "prose").from = << queries, asks, i >>
        BY <1>0, SlotFacts DEF Contents
      <4>2. model = "vllm"
        BY <2>4 DEF VLLMEnd
      <4>3. \A i \in 1..n : results[i] # Waiting => /\ results[i].state = "got"
                                                    /\ results[i].from = << queries, asks, i >>
        BY <1>0, <4>2 DEF Streamed, OwnReplies, Fetched
      <4>4. \A i \in 1..n : /\ f[i] \in Slot /\ f[i].state = "got"
                            /\ f[i].from = << queries, asks, i >>
        BY <1>n, <4>1, <4>3
      <4>5. results' = [i \in 1..n |-> f[i]]
        BY <3>1
      <4> HIDE DEF f
      <4>6. QED
        BY <2>2, <3>1, <4>4, <4>5
    <3>2. QED
      BY <2>1, <2>4, <3>1 DEF VLLMEnd, Fail
  <2>5. CASE Join
    <3>1. ASSUME \A i \in 1..n : Fetched(i), UNCHANGED results, pc' = "judging"
          PROVE  QueryInv'
      BY <2>0, <3>1, SlotsStay, Judged
    <3>2. UNCHANGED results
      BY <2>5 DEF Join
    <3>3. ((\A i \in 1..n : Fetched(i)) /\ pc' = "judging") \/ pc' = "failed"
      BY <2>5 DEF Join, Fetched, Fail
    <3>4. QED
      BY <2>1, <3>1, <3>2, <3>3
  <2>6. CASE Finish
    <3>1. CASE pc' = "judging"
      <4>1. /\ \A i \in 1..n : results[i].state \notin {"waiting", "died"}
            /\ results' = [i \in 1..n |-> IF results[i].content = "tool"
                                           THEN [results[i] EXCEPT !.content = "exact"] ELSE results[i]]
        BY <2>6, <3>1 DEF Finish, Over, Fail
      <4> DEFINE f == [i \in 1..n |-> IF results[i].content = "tool"
                                      THEN [results[i] EXCEPT !.content = "exact"] ELSE results[i]]
      <4>2. \A i \in 1..n : results[i].state = "got" /\ results[i].from = << queries, asks, i >>
        BY <1>0, <1>n, <4>1 DEF Slot, States, OwnReplies, Fetched
      <4>3. \A i \in 1..n : /\ f[i] \in Slot /\ f[i].state = "got"
                            /\ f[i].from = << queries, asks, i >>
        BY <1>n, <4>2 DEF Slot, Contents
      <4>4. results' = [i \in 1..n |-> f[i]]
        BY <4>1
      <4> HIDE DEF f
      <4>5. QED
        BY <2>2, <3>1, <4>3, <4>4
    <3>2. CASE pc' # "judging"
      <4>1. UNCHANGED results /\ pc' = "failed"
        BY <2>6, <3>2 DEF Finish, Fail
      <4>2. QED
        BY <2>1, <4>1
    <3>3. QED
      BY <3>1, <3>2
  <2>7. QED
    BY <1>8, <2>3, <2>4, <2>5, <2>6
<1>9. QED
  BY <1>1, <1>2, <1>3, <1>4, <1>5, <1>6, <1>7, <1>8 DEF Replies

----------------------------------------------------------------------------
(* The attempt loop, and the caller.                                       *)

\* One round of the loop: the answers are returned, the query fails, or the
\* replies are asked for again.
LEMMA LoopStep ==
  ASSUME QueryInv, pc = "judging", UNCHANGED << case, queries >>,
         NEW metadata, \A i \in 1..n : metadata[i] \in {results[i].from, NoReply},
         Loop(metadata)
  PROVE  QueryInv'
<1>0. SlotsType /\ OwnReplies /\ \A i \in 1..n : Fetched(i)
  BY DEF QueryInv, Complete
<1>1. ASSUME UNCHANGED << asks, results >>, pc' = "failed" PROVE QueryInv'
  BY <1>1, SlotsStay, NothingToShow
<1>2. CASE Accept(metadata)
  <2>1. /\ Verdict = "ok" /\ pc' = "returned" /\ UNCHANGED << asks, results >>
        /\ answers' = [i \in 1..n |-> [from |-> results[i].from, content |-> results[i].content,
                                       metadata |-> metadata[i]]]
    BY <1>2 DEF Accept
  <2>2. SlotsType' /\ OwnReplies' /\ Streamed' /\ n' = n
    BY <2>1, SlotsStay
  <2>3. n \in Nat
    BY <1>0, SlotFacts
  <2>4. Len(answers') = n
    BY <2>1, <2>3
  <2>5. \A i \in 1..n : Parse(results[i].content) = "ok" /\ results[i].from = << queries, asks, i >>
    BY <1>0, <2>1, VerdictMeans DEF OwnReplies
  <2>6. \A i \in 1..n : /\ answers'[i].from = << queries, asks, i >>
                        /\ answers'[i].metadata \in {answers'[i].from, NoReply}
                        /\ Parse(answers'[i].content) = "ok"
    BY <2>1, <2>5
  <2>7. AnswersMatchReplies'
    BY <2>1, <2>2, <2>4, <2>6 DEF AnswersMatchReplies, Parse
  <2>8. QED
    BY <2>1, <2>2, <2>7 DEF QueryInv, Complete
<1>3. CASE Crash
  BY <1>1, <1>3 DEF Crash, Fail
<1>4. CASE Retry
  <2>1. CASE GiveUp
    BY <1>1, <1>4, <2>1 DEF Retry, Fail
  <2>2. CASE ~GiveUp
    <3>1. pc' = "asking" /\ asks' = asks + 1 /\ results' = [i \in 1..n |-> Waiting]
      BY <1>4, <2>2 DEF Retry, Ask
    <3>2. n \in Nat /\ Waiting \in Slot /\ Waiting.state = "waiting" /\ asks' \in Nat /\ queries' \in Nat
      BY <1>0, <3>1, SlotFacts DEF SlotsType
    <3>3. DOMAIN results' = 1..n /\ results' = [i \in 1..n |-> results'[i]]
          /\ \A i \in 1..n : results'[i] = Waiting
      BY <3>1
    <3>4. SlotsType' /\ OwnReplies' /\ Streamed'
      BY <1>0, <3>2, <3>3, FillSlots
    <3>5. QED
      BY <3>1, <3>4, NothingToShow
  <2>3. QED
    BY <2>1, <2>2
<1>5. QED
  BY <1>2, <1>3, <1>4 DEF Loop

\* One round of any method.
LEMMA GuessStep ==
  ASSUME QueryInv, Guesses \/ Manys
  PROVE  QueryInv'
<1>1. /\ pc = "judging" /\ UNCHANGED << case, queries >>
      /\ Loop(Own) \/ Loop(Detached) \/ SaveFails
  <2>1. CASE GPTGuess \/ VLLMGuess \/ GeminiGuess \/ KimiGuess \/ OllamaGuess \/ LlamaGuess
    BY <2>1 DEF GPTGuess, VLLMGuess, GeminiGuess, KimiGuess, OllamaGuess, LlamaGuess, Judging
  <2>2. CASE PhiGuess \/ QwenGuess \/ MiniCPMGuess \/ InternGuess \/ CLIGuess \/ ClaudeGuess
    BY <2>2 DEF PhiGuess, QwenGuess, MiniCPMGuess, InternGuess, CLIGuess, ClaudeGuess, Judging
  <2>3. CASE GPTMany \/ VLLMMany \/ ClaudeMany \/ GeminiMany \/ KimiMany \/ OllamaMany \/ LlamaMany
    BY <2>3 DEF GPTMany, VLLMMany, ClaudeMany, GeminiMany, KimiMany, OllamaMany, LlamaMany, Judging
  <2>4. CASE PhiMany \/ QwenMany \/ MiniCPMMany \/ InternMany \/ CLIMany
    BY <2>4 DEF PhiMany, QwenMany, MiniCPMMany, InternMany, CLIMany, Judging
  <2>5. CASE PhiAll \/ QwenAll \/ MiniCPMAll \/ InternAll
    BY <2>5 DEF PhiAll, QwenAll, MiniCPMAll, InternAll, Judging
  <2>6. QED
    BY <2>1, <2>2, <2>3, <2>4, <2>5 DEF Guesses, Manys
<1>2. CASE Loop(Own)
  <2>1. \A i \in 1..n : Own[i] \in {results[i].from, NoReply}
    BY DEF Own
  <2>2. QED
    BY <1>1, <1>2, <2>1, LoopStep
<1>3. CASE Loop(Detached)
  <2>1. \A i \in 1..n : Detached[i] \in {results[i].from, NoReply}
    BY DEF Detached
  <2>2. QED
    BY <1>1, <1>3, <2>1, LoopStep
<1>4. CASE SaveFails
  BY <1>1, <1>4, SlotsStay, NothingToShow DEF SaveFails, Fail
<1>5. QED
  BY <1>1, <1>2, <1>3, <1>4

\* A query begins, and the caller takes what it ended with.
LEMMA BeginStep ==
  ASSUME QueryInv, NEW q, NEW f, NEW k \in Nat, Begin(q, f, k)
  PROVE  QueryInv'
<1>0. SlotsType
  BY DEF QueryInv
<1>1. case' = case /\ queries' = queries + 1 /\ queries' \in Nat
  BY <1>0 DEF Begin, SlotsType
<1>2. CASE asks' = 1 /\ pc' = "asking" /\ results' = [i \in 1..k |-> Waiting]
  <2>1. DOMAIN results' = 1..k /\ results' = [i \in 1..k |-> results'[i]]
        /\ \A i \in 1..k : results'[i] = Waiting
    BY <1>2
  <2>2. Waiting \in Slot /\ Waiting.state = "waiting" /\ asks' \in Nat
    BY <1>0, <1>2, SlotFacts
  <2>3. SlotsType' /\ OwnReplies' /\ Streamed'
    BY <1>0, <1>1, <2>1, <2>2, FillSlots
  <2>4. QED
    BY <1>2, <2>3, NothingToShow
<1>3. CASE asks' = 0 /\ pc' = "failed" /\ results' = << >>
  <2>1. SlotsType' /\ OwnReplies' /\ Streamed'
    BY <1>1, <1>3 DEF SlotsType, OwnReplies, Streamed, n
  <2>2. QED
    BY <1>3, <2>1, NothingToShow
<1>4. QED
  BY <1>2, <1>3 DEF Begin, Fail

LEMMA EndStep ==
  ASSUME QueryInv, End
  PROVE  QueryInv'
<1>1. pc' = "idle" /\ asks' = 0 /\ results' = << >> /\ queries' = queries
  BY DEF End
<1>2. SlotsType' /\ OwnReplies' /\ Streamed'
  BY <1>1 DEF QueryInv, SlotsType, OwnReplies, Streamed, n
<1>3. QED
  BY <1>1, <1>2, NothingToShow

----------------------------------------------------------------------------
(* The requests.                                                           *)

\* What the adapter of a backend m sends for the question q.
Carried(m, sent, q) ==
  /\ Texts(sent) = Texts(q)
  /\ m \notin Blind =>
       LET mine == IF m \in NoFetching THEN LoadedImages(q) ELSE Images(q)
       IN  Images(sent) = mine \/ (mine = << >> /\ Images(sent) = << Blank >>)

\* What is being asked, or has been asked in this query, carries the question.
RequestInv == /\ case \in Cases
              /\ asks > 0 \/ pc \in {"asking", "judging"} => Carried(case.model, request.parts, asked)

\* An adapter that raises nothing sends all the parts it was given.
LEMMA CheckedSends ==
  ASSUME NEW parts \in Seq(Piece), NEW errors, \A f \in DOMAIN errors : errors[f] # "none",
         Checked(parts, errors).error = "none"
  PROVE  Checked(parts, errors) = Sent(parts)
<1> DEFINE bad == {i \in DOMAIN parts : parts[i].form \in DOMAIN errors}
<1>1. bad \subseteq Nat
  OBVIOUS
<1>2. ASSUME bad # {} PROVE FALSE
  <2>1. Min(bad) \in bad
    BY <1>1, <1>2, MinIsMember
  <2>2. errors[parts[Min(bad)].form] # "none"
    BY <2>1
  <2>3. Checked(parts, errors) = Refused(errors[parts[Min(bad)].form])
    BY <1>2 DEF Checked
  <2>4. QED
    BY <2>2, <2>3 DEF Refused
<1>3. QED
  BY <1>2 DEF Checked

LEMMA BlankIsPiece ==
  Blank \in Piece /\ Blank.kind = "image" /\ Unfetched \in Piece /\ Unfetched.kind = "image"
  BY DEF Piece, Blank, Unfetched, Image

\* The parts of a question by kind, as the adapters load them.
LEMMA PartFacts ==
  ASSUME NEW q \in Seq(Piece)
  PROVE  /\ AllOf(Texts(q), "text") /\ AllOf(Images(q), "image")
         /\ AllOf(LoadedImages(q), "image") /\ AllOf(<< Blank >>, "image")
         /\ AllOf(ImagesOrBlank(q), "image") /\ ImagesOrBlank(q) # << >>
         /\ ImagesOrBlank(q) = LoadedImages(q) \/ (LoadedImages(q) = << >> /\ ImagesOrBlank(q) = << Blank >>)
<1>1. AllOf(Texts(q), "text") /\ AllOf(Images(q), "image")
  BY OfKindParts DEF Texts, Images, AllOf
<1>2. Blank \in Piece /\ Blank.kind = "image" /\ Unfetched \in Piece /\ Unfetched.kind = "image"
  BY BlankIsPiece
<1>3. PICK g : g = Images(q)
  OBVIOUS
<1>4. g \in Seq(Piece) /\ \A i \in DOMAIN g : g[i].kind = "image"
  BY <1>1, <1>3 DEF AllOf
<1>5. LoadedImages(q) = [i \in 1..Len(g) |-> Loaded(g[i])]
  BY <1>3, <1>4 DEF LoadedImages
<1>6. \A i \in 1..Len(g) : Loaded(g[i]) \in Piece /\ Loaded(g[i]).kind = "image"
  BY <1>2, <1>4 DEF Loaded
<1>7. AllOf(LoadedImages(q), "image") /\ Len(LoadedImages(q)) = Len(g)
  BY <1>4, <1>5, <1>6 DEF AllOf
<1>8. AllOf(<< Blank >>, "image") /\ << Blank >> # << >>
  BY <1>2 DEF AllOf
<1>9. g # << >> => LoadedImages(q) # << >>
  BY <1>4, <1>7
<1>10. g = << >> => LoadedImages(q) = << >>
  BY <1>4, <1>5
<1>11. QED
  BY <1>1, <1>3, <1>7, <1>8, <1>9, <1>10 DEF ImagesOrBlank

\* Texts and images put behind each other, in whatever form the images are.
LEMMA TextsAndImages ==
  ASSUME NEW q \in Seq(Piece), NEW g, AllOf(g, "image")
  PROVE  /\ Texts(Texts(q) \o g) = Texts(q) /\ Images(Texts(q) \o g) = g
         /\ Texts(g \o Texts(q)) = Texts(q) /\ Images(g \o Texts(q)) = g
         /\ Texts(q) \o g \in Seq(Piece) /\ g \o Texts(q) \in Seq(Piece)
<1>1. PICK t : t = Texts(q)
  OBVIOUS
<1>2. AllOf(t, "text")
  BY <1>1, PartFacts
<1>3. OfKind(t \o g, "text") = t /\ OfKind(t \o g, "image") = g
  BY <1>2, TwoBlocks
<1>4. OfKind(g \o t, "image") = g /\ OfKind(g \o t, "text") = t
  BY <1>2, TwoBlocks
<1>5. t \o g \in Seq(Piece) /\ g \o t \in Seq(Piece)
  BY <1>2 DEF AllOf
<1>6. QED
  BY <1>1, <1>3, <1>4, <1>5 DEF Texts, Images

\* A request that no adapter has refused carries its question.
LEMMA PayloadCarries ==
  ASSUME case \in Cases, NEW q \in Seq(Piece), Payload(q).error = "none"
  PROVE  Carried(case.model, Payload(q).parts, q)
<1> DEFINE m == case.model
<1>1. m \in HTTP \cup Local \cup CLIs
  BY CasesAssumption
<1>2. Json(q).error = "none"
  BY DEF Payload
<1>3. \A sent : Texts(sent) = Texts(q) /\ Images(sent) = Images(q) /\ m \notin NoFetching => Carried(m, sent, q)
  BY DEF Carried
<1>4. \A parts : Sent(parts).parts = parts
  BY DEF Sent
<1>5. ASSUME NEW parts \in Seq(Piece), NEW errors, \A f \in DOMAIN errors : errors[f] # "none",
             Payload(q) = Checked(parts, errors)
      PROVE  Payload(q).parts = parts
  BY <1>4, <1>5, CheckedSends
<1>6. \A f \in DOMAIN [url |-> "IndexError", bmp |-> "ValueError"] :
        [url |-> "IndexError", bmp |-> "ValueError"][f] # "none"
  OBVIOUS
<1>7. /\ \A f \in DOMAIN [url |-> "IndexError"] : [url |-> "IndexError"][f] # "none"
      /\ \A f \in DOMAIN [url |-> "ValueError"] : [url |-> "ValueError"][f] # "none"
      /\ \A f \in DOMAIN [bmp |-> "ValueError"] : [bmp |-> "ValueError"][f] # "none"
  OBVIOUS
<1>8. PICK t, g : t = Texts(q) /\ g = Images(q)
  OBVIOUS
<1>9. /\ Texts(t \o g) = t /\ Images(t \o g) = g /\ Texts(g \o t) = t /\ Images(g \o t) = g
      /\ t \o g \in Seq(Piece) /\ g \o t \in Seq(Piece)
  BY <1>8, PartFacts, TextsAndImages
\* the parts as they are
<1>10. CASE m \in {"gpt", "vllm", "ollama"}
  <2>1. Payload(q) = Sent(q)
    BY <1>2, <1>10 DEF Payload, model, GPTPayload, VLLMPayload, OllamaPayload
  <2>2. QED
    BY <1>3, <1>4, <1>10, <2>1 DEF NoFetching
<1>11. CASE m \in {"claude", "kimi"}
  <2>1. Payload(q) = Checked(q, [url |-> "IndexError", bmp |-> "ValueError"])
    BY <1>2, <1>11 DEF Payload, model, ClaudePayload, KimiPayload
  <2>2. Payload(q).parts = q
    BY <1>5, <1>6, <2>1
  <2>3. QED
    BY <1>3, <1>11, <2>2 DEF NoFetching
<1>12. CASE m = "intern"
  <2>1. Payload(q) = Checked(q, [url |-> "ValueError"])
    BY <1>2, <1>12 DEF Payload, model, InternPayload
  <2>2. Payload(q).parts = q
    BY <1>5, <1>7, <2>1
  <2>3. QED
    BY <1>3, <1>12, <2>2 DEF NoFetching
<1>13. CASE m = "claude-code"
  <2>1. Payload(q) = Checked(q, [bmp |-> "ValueError"])
    BY <1>2, <1>13 DEF Payload, model, ClaudeCodePayload
  <2>2. Payload(q).parts = q
    BY <1>5, <1>7, <2>1
  <2>3. QED
    BY <1>3, <1>13, <2>2 DEF NoFetching
\* the texts and the images apart
<1>14. CASE m = "gemini"
  <2>1. Payload(q) = Checked(t \o g, [url |-> "IndexError"])
    BY <1>2, <1>8, <1>14 DEF Payload, model, GeminiPayload
  <2>2. Payload(q).parts = t \o g
    BY <1>5, <1>7, <1>9, <2>1
  <2>3. QED
    BY <1>3, <1>8, <1>9, <1>14, <2>2 DEF NoFetching
<1>15. CASE m \in {"agy", "kimi-code"}
  <2>1. Payload(q) = Checked(g \o t, [url |-> "ValueError"])
    BY <1>2, <1>8, <1>15 DEF Payload, model, FilePayload
  <2>2. Payload(q).parts = g \o t
    BY <1>5, <1>7, <1>9, <2>1
  <2>3. QED
    BY <1>3, <1>8, <1>9, <1>15, <2>2 DEF NoFetching
<1>16. CASE m = "codex"
  <2>1. Payload(q) = IF case.chat THEN Sent(q) ELSE CodexPayload(q)
    BY <1>2, <1>16 DEF Payload, model, InlinePayload
  <2>2. Payload(q) = Sent(q) \/ Payload(q) = Sent(t \o g)
    BY <1>8, <2>1 DEF CodexPayload
  <2>3. Payload(q).parts = q \/ Payload(q).parts = t \o g
    BY <1>4, <2>2
  <2>4. QED
    BY <1>3, <1>8, <1>9, <1>16, <2>3 DEF NoFetching
\* texts only
<1>17. CASE m = "llama"
  <2>1. Payload(q).parts = t
    BY <1>2, <1>4, <1>8, <1>17 DEF Payload, model, LlamaPayload
  <2>2. AllOf(<< >>, "image") /\ t \o << >> = t
    BY <1>8, PartFacts DEF AllOf
  <2>3. Texts(t \o << >>) = t
    BY <1>8, <2>2, TextsAndImages
  <2>4. QED
    BY <1>8, <1>17, <2>1, <2>2, <2>3 DEF Carried, Blind
\* the texts and one image
<1>18. CASE m = "phi"
  <2>1. PICK all : all = ImagesOrBlank(q)
    OBVIOUS
  <2>2. AllOf(all, "image") /\ all # << >>
    BY <2>1, PartFacts
  <2>3. Last(all) \in Piece /\ Last(all).kind = "image"
    BY <2>2 DEF Last, AllOf
  <2>4. PICK x : x = IF Last(all) = Unfetched THEN Blank ELSE Last(all)
    OBVIOUS
  <2>5. x \in Piece /\ x.kind = "image"
    BY <2>3, <2>4, BlankIsPiece
  <2>6. Payload(q).parts = Append(t, x)
    BY <1>2, <1>4, <1>8, <1>18, <2>1, <2>4 DEF Payload, model, PhiPayload
  <2>7. AllOf(<< x >>, "image") /\ Append(t, x) = t \o << x >>
    BY <1>8, <2>5, PartFacts DEF AllOf
  <2>8. Texts(t \o << x >>) = t
    BY <1>8, <2>7, TextsAndImages
  <2>9. QED
    BY <1>8, <1>18, <2>6, <2>7, <2>8 DEF Carried, Blind
\* all images, loaded
<1>19. CASE m \in {"qwen", "minicpm"}
  <2>1. PICK all : all = ImagesOrBlank(q)
    OBVIOUS
  <2>2. AllOf(all, "image") /\ (all = LoadedImages(q) \/ (LoadedImages(q) = << >> /\ all = << Blank >>))
    BY <2>1, PartFacts
  <2>3. Payload(q).parts = all \o t
    BY <1>2, <1>4, <1>8, <1>19, <2>1 DEF Payload, model, QwenPayload, MiniCPMPayload
  <2>4. Texts(all \o t) = t /\ Images(all \o t) = all
    BY <1>8, <2>2, TextsAndImages
  <2>5. QED
    BY <1>8, <1>19, <2>2, <2>3, <2>4 DEF Carried, NoFetching
<1>20. QED
  BY <1>1, <1>10, <1>11, <1>12, <1>13, <1>14, <1>15, <1>16, <1>17, <1>18, <1>19 DEF HTTP, Local, CLIs

\* What has been asked stays asked, until the query ends.
LEMMA RequestStays ==
  ASSUME RequestInv, UNCHANGED << case, asked, request >>,
         asks > 0 \/ pc \in {"asking", "judging"} \/ (asks' = asks /\ pc' \notin {"asking", "judging"})
  PROVE  RequestInv'
  BY DEF RequestInv

\* A question is put into words for the adapter, which refuses it or sends it.
LEMMA RequestBegins ==
  ASSUME RequestInv, NEW q \in Seq(Part), NEW f, NEW k, Begin(q, f, k)
  PROVE  RequestInv'
<1>1. case' = case /\ case \in Cases /\ q \in Seq(Piece)
  BY DEF RequestInv, Begin, Piece
<1>2. request' = Payload(q) /\ asked' = q
  BY DEF Begin
<1>3. CASE Payload(q).error = "none"
  <2>1. Carried(case.model, Payload(q).parts, q)
    BY <1>1, <1>3, PayloadCarries
  <2>2. Carried(case'.model, request'.parts, asked')
    BY <1>1, <1>2, <2>1
  <2>3. QED
    BY <1>1, <2>2 DEF RequestInv
<1>4. CASE Payload(q).error # "none"
  <2>1. asks' = 0 /\ pc' = "failed"
    BY <1>4 DEF Begin, Fail
  <2>2. QED
    BY <1>1, <2>1 DEF RequestInv
<1>5. QED
  BY <1>3, <1>4

----------------------------------------------------------------------------
(* The theorems.                                                           *)

\* The invariant of a query holds in every reachable state.
THEOREM QueryInvariant == Spec => []QueryInv
<1>1. Init => QueryInv
  BY DEF Init, QInit, QueryInv, SlotsType, OwnReplies, Streamed, Complete, AnswersMatchReplies, n
<1>2. QueryInv /\ [Next]_vars => QueryInv'
  <2> SUFFICES ASSUME QueryInv, [Next]_vars PROVE QueryInv'
    OBVIOUS
  <2>1. ASSUME NEW q \in case.questions, Think(q) PROVE QueryInv'
    BY <2>1, BeginStep DEF Think
  <2>2. ASSUME NEW q \in case.questions, NEW f \in {"one", "all", "many"}, NEW k \in 1..MaxChoices,
               Sample(q, f, k)
        PROVE  QueryInv'
    <3>1. k \in Nat
      BY QueryAssumption
    <3>2. QED
      BY <2>2, <3>1, BeginStep DEF Sample
  <2>3. CASE QueryStep /\ UNCHANGED << log, pending >>
    BY <2>3, RepliesStep, GuessStep DEF QueryStep
  <2>4. CASE Thought \/ ThinkRaises \/ Take
    BY <2>4, EndStep DEF Thought, ThinkRaises, Take
  <2>5. CASE Act \/ ActError \/ Observe \/ Interject \/ Reflect \/ ClearEventBuffer \/ UNCHANGED vars
    <3>1. UNCHANGED qvars
      BY <2>5 DEF Act, ActError, Observe, Interject, Reflect, ClearEventBuffer, Quiet, vars
    <3>2. QED
      BY <3>1, Untouched DEF qvars
  <2>6. QED
    BY <2>1, <2>2, <2>3, <2>4, <2>5 DEF Next
<1>3. QED
  BY <1>1, <1>2, PTL DEF Spec

\* A query that returns has one answer per choice, each parsed from the reply
\* to its own place in the last ask, with that reply's metadata or none,
\* whatever order the threads and chunks came in and however often it was
\* asked again (ask and many_rough_guesses of the adapters).
THEOREM RepliesStayApart == Spec => []AnswersMatchReplies
<1>1. QueryInv => AnswersMatchReplies
  BY DEF QueryInv
<1>2. QED
  BY QueryInvariant, <1>1, PTL

\* What each request in flight or answered carries of its question, in every
\* reachable state.
THEOREM RequestInvariant == Spec => []RequestInv
<1>1. Init => RequestInv
  BY DEF Init, QInit, RequestInv
<1>2. RequestInv /\ [Next]_vars => RequestInv'
  <2> SUFFICES ASSUME RequestInv, [Next]_vars PROVE RequestInv'
    OBVIOUS
  <2>0. \A q \in case.questions : q \in Seq(Part) /\ FirstQuestion(case.task, q) \in Seq(Part)
    BY CasesAssumption DEF RequestInv
  <2>1. ASSUME NEW q \in case.questions, Think(q) PROVE RequestInv'
    <3>1. PICK p : p = IF Filtered("ACT") = << >> THEN FirstQuestion(case.task, q) ELSE q
      OBVIOUS
    <3>2. p \in Seq(Part)
      BY <2>0, <3>1
    <3>3. Begin(p, "one", 1)
      BY <2>1, <3>1 DEF Think
    <3>4. QED
      BY <3>2, <3>3, RequestBegins
  <2>2. ASSUME NEW q \in case.questions, NEW f \in {"one", "all", "many"}, NEW k \in 1..MaxChoices,
               Sample(q, f, k)
        PROVE  RequestInv'
    BY <2>0, <2>2, RequestBegins DEF Sample
  <2>3. CASE Replies
    <3>1. pc = "asking" /\ UNCHANGED << case, asked, request >>
      <4>1. CASE GPTAsk \/ VLLMChunk \/ VLLMEnd \/ Join \/ Finish
        BY <4>1 DEF GPTAsk, VLLMChunk, VLLMEnd, Join, Finish, AskVars
      <4>2. CASE ClaudeAsk \/ KimiAsk \/ GeminiAsk \/ OllamaAsk \/ LlamaAsk \/ PhiAsk \/ QwenAsk
                 \/ MiniCPMAsk \/ InternAsk
        BY <4>2 DEF ClaudeAsk, KimiAsk, GeminiAsk, OllamaAsk, LlamaAsk, PhiAsk, QwenAsk, MiniCPMAsk,
                    InternAsk, Thread, AskVars
      <4>3. CASE ClaudeCodeSample \/ AgySample \/ CodexSample \/ KimiCodeSample
        BY <4>3 DEF ClaudeCodeSample, AgySample, CodexSample, KimiCodeSample, Thread, AskVars
      <4>4. QED
        BY <2>3, <4>1, <4>2, <4>3 DEF Replies
    <3>2. QED
      BY <3>1, RequestStays
  <2>4. CASE Guesses \/ Manys
    <3>1. pc = "judging" /\ UNCHANGED << case, asked, request >>
      <4>1. CASE GPTGuess \/ VLLMGuess \/ GeminiGuess \/ KimiGuess \/ OllamaGuess \/ LlamaGuess
        BY <4>1 DEF GPTGuess, VLLMGuess, GeminiGuess, KimiGuess, OllamaGuess, LlamaGuess, Judging
      <4>2. CASE PhiGuess \/ QwenGuess \/ MiniCPMGuess \/ InternGuess \/ CLIGuess \/ ClaudeGuess
        BY <4>2 DEF PhiGuess, QwenGuess, MiniCPMGuess, InternGuess, CLIGuess, ClaudeGuess, Judging
      <4>3. CASE GPTMany \/ VLLMMany \/ ClaudeMany \/ GeminiMany \/ KimiMany \/ OllamaMany \/ LlamaMany
        BY <4>3 DEF GPTMany, VLLMMany, ClaudeMany, GeminiMany, KimiMany, OllamaMany, LlamaMany, Judging
      <4>4. CASE PhiMany \/ QwenMany \/ MiniCPMMany \/ InternMany \/ CLIMany
        BY <4>4 DEF PhiMany, QwenMany, MiniCPMMany, InternMany, CLIMany, Judging
      <4>5. CASE PhiAll \/ QwenAll \/ MiniCPMAll \/ InternAll
        BY <4>5 DEF PhiAll, QwenAll, MiniCPMAll, InternAll, Judging
      <4>6. QED
        BY <2>4, <4>1, <4>2, <4>3, <4>4, <4>5 DEF Guesses, Manys
    <3>2. QED
      BY <3>1, RequestStays
  <2>5. CASE Thought \/ ThinkRaises \/ Take
    BY <2>5 DEF Thought, ThinkRaises, Take, End, RequestInv
  <2>6. CASE Act \/ ActError \/ Observe \/ Interject \/ Reflect \/ ClearEventBuffer \/ UNCHANGED vars
    <3>1. UNCHANGED qvars
      BY <2>6 DEF Act, ActError, Observe, Interject, Reflect, ClearEventBuffer, Quiet, vars
    <3>2. UNCHANGED << case, asked, request, asks, pc >>
      BY <3>1 DEF qvars
    <3>3. QED
      BY <3>2, RequestStays
  <2>7. QED
    BY <2>1, <2>2, <2>3, <2>4, <2>5, <2>6 DEF Next, QueryStep
<1>3. QED
  BY <1>1, <1>2, PTL DEF Spec

\* Every request that was sent has the texts of its question in order, and its
\* images in order unless the adapter is one that takes no image or one
\* (prepare_payload of the adapters, get_json, first_question).
THEOREM RequestsLoseNothing == Spec => []NothingLost
<1>1. RequestInv => NothingLost
  BY DEF RequestInv, Carried, NothingLost, model
<1>2. QED
  BY RequestInvariant, <1>1, PTL

=============================================================================
