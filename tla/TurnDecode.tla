------------------------------ MODULE TurnDecode ------------------------------
(* The decoder inside a CLI: wirecap's BaseCorrelator as agy and kimi use it,  *)
(* and codex's ResponsesCorrelator.  The bridge hands them the requests and    *)
(* the response events of the model calls one by one (EventDelivery), and they *)
(* put the events together to turns, pair each turn with its request and       *)
(* record it.                                                                  *)
(*                                                                             *)
(* A response is a number: 0 is the title call that may run beside the answer, *)
(* 1, 2, ... are the calls of the agent, which waits for each.  Every response *)
(* has Events events, the last one terminal, and may break off before it.  A   *)
(* request is named by its response.  Time is the number of requests made so   *)
(* far: _match also takes a request made up to a second after the response     *)
(* began, so the latest request it looks at is any at or after that point.     *)
EXTENDS Naturals, SequencesExt

CONSTANTS Clis,        \* the CLIs of this instance, of {"agy", "codex", "kimi"}
          MaxMain,     \* how many calls the agent makes at most
          Events,      \* how many events a response has
          MaxPending   \* how many requests the correlator remembers (32)

ASSUME DecodeAssumption == /\ Clis \subseteq {"agy", "codex", "kimi"}
                           /\ MaxMain \in Nat /\ Events \in Nat \ {0} /\ MaxPending \in Nat \ {0}

VARIABLES cli,       \* which CLI this is
          life,      \* "off", "running", "exiting" (agy's exit book), "exited" or "killed"
          work,      \* how many calls the prompts so far may lead to
          asked,     \* the requests in the order they were made
          told,      \* per response, the events the decoder has got
          over,      \* the responses that ended or broke off
          pending,   \* _pending (a list in the order of When), or codex's _requests: not yet paired
          acc,       \* _acc and _acc_t, or codex's _events, in the order of the dictionary
          recorded   \* the turns given to the Recorder

decode == <<asked, told, over, pending, acc, recorded>>

Title == 0
Responses == Title .. MaxMain
None == MaxMain + 1
Dead == {"exited", "killed"}

Model(r) == IF r = Title THEN "title" ELSE "main"

\* Mutant: agy's responses are not kept apart.
KeyNone(r) == None

\* stream_key: agy's events name their response, kimi's do not.
Key(r) == IF cli = "agy" THEN r ELSE None

IsTerminal(events) == \E i \in DOMAIN events : events[i].nth = Events
When(r) == CHOOSE i \in DOMAIN asked : asked[i] = r

DecodeInit == /\ cli \in Clis
              /\ life = "off" /\ work = 0
              /\ asked = <<>> /\ told = [r \in Responses |-> 0] /\ over = {}
              /\ pending = {} /\ acc = <<>> /\ recorded = <<>>

-----------------------------------------------------------------------------
(* Pairing and recording *)

\* request_matches: agy's requests name a model, and so do its responses.
Matches(q, events) == cli = "agy" /\ Model(q) = Model(events[1].of)

\* Mutant: the builder's verdict is not asked for.
CandidatesAll(events) == pending

\* The pending requests that may have produced the events: those the builder
\* accepts if there are any, else all of them.
Candidates(events) == LET sure == {q \in pending : Matches(q, events)}
                      IN  IF sure # {} THEN sure ELSE pending

\* _match: the latest candidate made by the time upto.
Match(events, upto) ==
  LET near == {q \in Candidates(events) : When(q) <= upto}
  IN  IF near = {} THEN None ELSE CHOOSE q \in near : \A p \in near : When(p) <= When(q)

Turn(events, request) == [events |-> events, request |-> request]

\* _flush_events: the turn goes to the recorder, its request leaves the pending
\* ones.
Emit(a) ==
  \E upto \in a.at .. Len(asked) :
    LET request == Match(a.events, upto)
    IN  /\ recorded' = Append(recorded, Turn(a.events, request))
        /\ pending' = pending \ {request}

\* _remember keeps the recent tail.
Remember(requests, r) ==
  LET oldest == CHOOSE q \in requests : \A p \in requests : When(q) <= When(p)
  IN  {r} \cup IF Cardinality(requests) = MaxPending THEN requests \ {oldest} ELSE requests

\* The accumulator with this key, if there is one.
Open(key) == \E i \in DOMAIN acc : acc[i].key = key
Slot(key) == CHOOSE i \in DOMAIN acc : acc[i].key = key

\* The next event of r goes to it, or to a new one at the end.
Grown(key, r) ==
  LET old == IF Open(key) THEN acc[Slot(key)] ELSE [key |-> key, at |-> Len(asked), events |-> <<>>]
  IN  [old EXCEPT !.events = Append(@, [of |-> r, nth |-> told[r] + 1])]
Keep(a) == acc' = IF Open(a.key) THEN [acc EXCEPT ![Slot(a.key)] = a] ELSE Append(acc, a)
Others(key) == IF Open(key) THEN RemoveAt(acc, Slot(key)) ELSE acc

-----------------------------------------------------------------------------
(* What the CLI does, and the dispatch of it *)

\* The agent's calls follow each other; only agy and codex make the title call
\* while another call is open.
MayAsk(r) ==
  /\ life = "running" /\ r \notin Range(asked)
  /\ r # Title => r <= work /\ 1 .. r - 1 \subseteq over
  /\ cli = "kimi" => Range(asked) \subseteq over
  /\ asked' = Append(asked, r)

\* agy's request comes as TLS plaintext; its responses have keys, so that none
\* is open without one.
AgyRequest(r) ==
  /\ cli = "agy" /\ MayAsk(r)
  /\ pending' = Remember(pending, r)
  /\ UNCHANGED <<told, over, acc, recorded>>

\* kimi's request: a response without a key that is still open is over and is
\* flushed, and only then the request is remembered.
KimiRequest(r) ==
  /\ cli = "kimi" /\ MayAsk(r)
  /\ \/ /\ acc = <<>>
        /\ pending' = Remember(pending, r)
        /\ UNCHANGED recorded
     \/ /\ acc # <<>>
        /\ \E upto \in Head(acc).at .. Len(asked) :
             LET request == Match(Head(acc).events, upto)
             IN  /\ recorded' = Append(recorded, Turn(Head(acc).events, request))
                 /\ pending' = Remember(pending \ {request}, r)
  /\ acc' = <<>>
  /\ UNCHANGED <<told, over>>

\* codex's request comes with the id of its stream.
CodexRequest(r) ==
  /\ cli = "codex" /\ MayAsk(r)
  /\ pending' = pending \cup {r}
  /\ UNCHANGED <<told, over, acc, recorded>>

Tell(r) ==
  /\ life = "running" /\ r \in Range(asked) \ over
  /\ told' = [told EXCEPT ![r] = @ + 1]
  /\ over' = IF told'[r] = Events THEN over \cup {r} ELSE over
  /\ UNCHANGED asked

\* feed_events: the event joins its response; the terminal one makes the turn.
Event(r) ==
  /\ cli # "codex" /\ Tell(r)
  /\ LET a == Grown(Key(r), r)
     IN  \/ /\ IsTerminal(a.events)
            /\ Emit(a)
            /\ acc' = Others(a.key)
         \/ /\ ~IsTerminal(a.events)
            /\ Keep(a)
            /\ UNCHANGED <<pending, recorded>>

\* ResponsesCorrelator.finish: the stream's events and its own request, if any.
FinishCodex(a) ==
  /\ recorded' = Append(recorded, Turn(a.events, IF a.key \in pending THEN a.key ELSE None))
  /\ pending' = pending \ {a.key}
  /\ acc' = Others(a.key)

CodexEvent(r) ==
  /\ cli = "codex" /\ Tell(r)
  /\ LET a == Grown(r, r)
     IN  \/ IsTerminal(a.events) /\ FinishCodex(a)
         \/ /\ ~IsTerminal(a.events)
            /\ Keep(a)
            /\ UNCHANGED <<pending, recorded>>

\* A response breaks off: nobody tells the decoder of agy or kimi ...
Break(r) ==
  /\ cli # "codex"
  /\ life = "running" /\ r \in Range(asked) \ over
  /\ over' = over \cup {r}
  /\ UNCHANGED <<asked, told, pending, acc, recorded>>

\* ... and codex's capture says so when it is dropped.
CodexEnd(r) ==
  /\ cli = "codex"
  /\ life = "running" /\ r \in Range(asked) \ over
  /\ over' = over \cup {r}
  /\ \/ \E a \in Range(acc) : a.key = r /\ FinishCodex(a)
     \/ /\ ~Open(r)
        /\ pending' = pending \ {r}
        /\ UNCHANGED <<acc, recorded>>
  /\ UNCHANGED <<asked, told>>

\* The CLI exits; agy's exit book first emits what is still open, in the order
\* in which it began.
Exit ==
  /\ life = "running"
  /\ life' = IF cli = "agy" THEN "exiting" ELSE "exited"
  /\ UNCHANGED decode

ExitEmit ==
  /\ life = "exiting" /\ acc # <<>>
  /\ Emit(Head(acc))
  /\ acc' = Tail(acc)
  /\ UNCHANGED <<life, asked, told, over>>

ExitEnd ==
  /\ life = "exiting" /\ acc = <<>>
  /\ life' = "exited"
  /\ UNCHANGED decode

\* The CLI dies: what the decoder has not recorded is lost.
Die ==
  /\ life \in {"running", "exiting"}
  /\ life' = "killed"
  /\ UNCHANGED decode

Dispatch == \E r \in Responses :
  AgyRequest(r) \/ KimiRequest(r) \/ CodexRequest(r) \/ Event(r) \/ CodexEvent(r) \/ Break(r) \/ CodexEnd(r)

Step == /\ \/ Dispatch /\ UNCHANGED life
           \/ Exit \/ ExitEmit \/ ExitEnd \/ Die
        /\ UNCHANGED <<cli, work>>

-----------------------------------------------------------------------------
(* Properties *)

\* The events of one turn are the first events of one response, in order, and
\* no two turns share a response, however calls overlap and wherever they break
\* off: nothing of a broken answer bleeds into the next one.
TurnsIntact ==
  \A i \in DOMAIN recorded :
    /\ \A k \in DOMAIN recorded[i].events :
         recorded[i].events[k] = [of |-> recorded[i].events[1].of, nth |-> k]
    /\ \A j \in DOMAIN recorded : recorded[i].events[1].of = recorded[j].events[1].of => i = j

\* A turn that ended with its terminal event shows the request it answers, as
\* long as the correlator has forgotten no request: one that stays unanswered
\* (its response broke off) takes nobody else's turn.
Forgotten == Range(asked) \ (pending \cup {recorded[i].request : i \in DOMAIN recorded})
OwnRequest ==
  cli = "codex" \/ Forgotten = {}
    => \A i \in DOMAIN recorded :
         IsTerminal(recorded[i].events) => recorded[i].request = recorded[i].events[1].of
==============================================================================
