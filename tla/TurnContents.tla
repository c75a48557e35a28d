----------------------------- MODULE TurnContents -----------------------------
(* What a decoder makes of one response's events (build_turn_from_events of     *)
(* agy's http1sse.py, kimi_decode.py and codex's responses_decode.py), what it  *)
(* shows of the request, and which turn's text a call returns.                  *)
(*                                                                              *)
(* A reply is a sequence of parts, thoughts and text.  A stream may bring a part *)
(* more than once: as a delta, in a completed item, and in the complete message; *)
(* and it may break off anywhere.  A run makes the agent's call, and one beside *)
(* it (a title) that uses fewer tokens.                                         *)
EXTENDS Naturals, SequencesExt

CONSTANTS Clis,      \* the CLIs of this instance, of {"agy", "codex", "kimi"}
          Replies,   \* what a model may say: sequences of "think" and "text"
          Histories  \* what the agent's request may hold: sequences of message kinds

VARIABLES exchange,  \* what is asked and answered: [cli, form, reply, history], where
                     \* form is how completely the server streams, reply the parts
                     \* of each call's answer, history the agent's request
          told,      \* per call, how many events the decoder has got
          over,      \* the calls whose turn was built, or never will be
          turns      \* the turns, in the order in which they were built

vars == <<exchange, told, over, turns>>

Calls == {"main", "side"}
Parts(kinds) == [i \in DOMAIN kinds |-> [kind |-> kinds[i], nth |-> i]]
Each(parts, Of(_)) == FlattenSeq([i \in DOMAIN parts |-> Of(parts[i])])
Kind(parts, k) == Each(parts, LAMBDA p : IF p.kind = k THEN <<p>> ELSE <<>>)
Event(type, parts, tokens) == [type |-> type, parts |-> parts, tokens |-> tokens]

-----------------------------------------------------------------------------
(* The servers *)

\* Gemini: parts in chunks, each with the count so far; the last says why it ends.
AgyEvents(form, parts, tokens) ==
  IF form = "whole" THEN <<Event("last", parts, tokens)>>
  ELSE Each(parts, LAMBDA p : <<Event("chunk", <<p>>, tokens)>>) \o <<Event("last", <<>>, tokens)>>

\* kosong: parts, the usage, and a finish with the complete message.
KimiEvents(form, parts, tokens) ==
  Each(parts, LAMBDA p : IF form = "whole" THEN <<>> ELSE <<Event("part", <<p>>, 0)>>)
  \o <<Event("usage", <<>>, tokens)>> \o <<Event("finish", IF form = "bare" THEN <<>> ELSE parts, 0)>>

\* Responses: deltas, each message's item when it is complete, and the response.
CodexEvents(form, parts, tokens) ==
  Each(parts, LAMBDA p :
         (IF form \in {"streamed", "bare"}
          THEN <<Event(IF p.kind = "text" THEN "text.delta" ELSE "reasoning.delta", <<p>>, 0)>> ELSE <<>>)
         \o (IF form \in {"streamed", "items"} /\ p.kind = "text" THEN <<Event("item", <<p>>, 0)>> ELSE <<>>))
  \o <<IF form = "bare" THEN Event("failed", <<>>, 0) ELSE Event("completed", parts, tokens)>>

Tokens(c) == IF c = "main" THEN 2 ELSE 1
Events(c) == CASE exchange.cli = "agy"   -> AgyEvents(exchange.form, exchange.reply[c], Tokens(c))
               [] exchange.cli = "kimi"  -> KimiEvents(exchange.form, exchange.reply[c], Tokens(c))
               [] exchange.cli = "codex" -> CodexEvents(exchange.form, exchange.reply[c], Tokens(c))
\* The first n events of a call.
Told(c, n) == SubSeq(Events(c), 1, n)

-----------------------------------------------------------------------------
(* The decoders *)

Has(events, type) == \E e \in Range(events) : e.type = type
Joined(events, types, k) == Kind(Each(events, LAMBDA e : IF e.type \in types THEN e.parts ELSE <<>>), k)
LastTokens(events, types) ==
  LET last == SelectLastInSeq(events, LAMBDA e : e.type \in types) IN IF last = 0 THEN 0 ELSE events[last].tokens
LastOf(messages, kinds) == SelectLastInSeq(messages, LAMBDA m : m \in kinds)

\* Which message of the request is shown as its text: the first ...
AgyShown(messages)   == 1
\* ... the last of a user that is no reminder of the harness (_last_user_text) ...
KimiShown(messages)  == LastOf(messages, {"prompt"})
\* ... the last of a user.
CodexShown(messages) == LastOf(messages, {"prompt", "reminder"})

\* assemble_text and extract_usage
AgyText(events, k) == Joined(events, {"chunk", "last"}, k)
AgyTokens(events)  == LastTokens(events, {"chunk", "last"})
AgyTurn(c, events) ==
  [of |-> c, text |-> AgyText(events, "text"), reasoning |-> AgyText(events, "think"),
   tokens |-> AgyTokens(events), prompt |-> AgyShown(exchange.history)]

\* The complete message, or what was streamed when there is none of that kind in it.
KimiText(events, k) ==
  LET message == Joined(events, {"finish"}, k)
  IN  IF message # <<>> THEN message ELSE Joined(events, {"part"}, k)
KimiTokens(events) == LastTokens(events, {"usage"})
KimiTurn(c, events) ==
  [of |-> c, text |-> KimiText(events, "text"), reasoning |-> KimiText(events, "think"),
   tokens |-> KimiTokens(events), prompt |-> KimiShown(exchange.history)]

\* Mutant: the deltas and the items.
CodexTextTwice(events) ==
  IF Has(events, "text.delta") \/ Has(events, "item") THEN Joined(events, {"text.delta", "item"}, "text")
  ELSE Joined(events, {"completed"}, "text")
\* The deltas; without any the completed items; without any the completed response.
CodexText(events) ==
  IF Has(events, "text.delta") THEN Joined(events, {"text.delta"}, "text")
  ELSE IF Has(events, "item") THEN Joined(events, {"item"}, "text")
  ELSE Joined(events, {"completed"}, "text")
CodexReasoning(events) == Joined(events, {"reasoning.delta"}, "think")
CodexTokens(events) == LastTokens(events, {"completed"})
CodexTurn(c, events) ==
  [of |-> c, text |-> CodexText(events), reasoning |-> CodexReasoning(events),
   tokens |-> CodexTokens(events), prompt |-> CodexShown(exchange.history)]

IsTerminal(events) == \E e \in Range(events) : e.type \in {"last", "finish", "completed", "failed"}

Turn(c, events) == CASE exchange.cli = "agy"   -> AgyTurn(c, events)
                     [] exchange.cli = "kimi"  -> KimiTurn(c, events)
                     [] exchange.cli = "codex" -> CodexTurn(c, events)

-----------------------------------------------------------------------------
\* Only kimi's harness adds messages of its own to those of the user.
Exchanges ==
  {x \in [cli : Clis, form : {"streamed", "whole", "bare", "items"}, history : Histories,
          reply : [Calls -> {Parts(kinds) : kinds \in Replies}]] :
     x.cli # "kimi" => "reminder" \notin Range(x.history)}

Init ==
  /\ exchange \in Exchanges
  /\ told = [c \in Calls |-> 0] /\ over = {} /\ turns = <<>>

\* An event arrives; the terminal one makes the turn.
Tell(c) ==
  /\ c \notin over
  /\ told' = [told EXCEPT ![c] = @ + 1]
  /\ LET events == Told(c, told[c] + 1)
     IN  IF IsTerminal(events) THEN over' = over \cup {c} /\ turns' = Append(turns, Turn(c, events))
         ELSE UNCHANGED <<over, turns>>
  /\ UNCHANGED exchange

\* The stream breaks off; what has arrived makes a turn, if anything has.
Break(c) ==
  /\ c \notin over
  /\ over' = over \cup {c}
  /\ turns' = IF told[c] > 0 THEN Append(turns, Turn(c, Told(c, told[c]))) ELSE turns
  /\ UNCHANGED <<exchange, told>>

Next == \E c \in Calls : Tell(c) \/ Break(c)
Spec == Init /\ [][Next]_vars

-----------------------------------------------------------------------------
(* The response *)

\* The places of the turns with text.
Spoken == {i \in DOMAIN turns : turns[i].text # <<>>}
\* Of some turns the one with most tokens, of those with as many the first.
PrimaryTurn(S) == turns[CHOOSE i \in S : \A j \in S :
                          turns[j].tokens <= turns[i].tokens /\ (j < i => turns[j].tokens < turns[i].tokens)]
\* from_objs: the wire's answer
Answer == PrimaryTurn(Spoken)

\* What has come of the reply to a call, in whichever form.
Arrived(c, k) == {p \in UNION {Range(e.parts) : e \in Range(Told(c, told[c]))} : p.kind = k}

\* A text has just these parts, each once and in the order of the reply.
Tells(text, parts) == /\ Range(text) = parts
                      /\ \A i, j \in DOMAIN text : i < j => text[i].nth < text[j].nth

\* A turn holds what has arrived of the reply, each part once and in order, text
\* as text and thoughts as reasoning (codex's thoughts only when they are
\* streamed), in whichever of its forms it came and wherever the stream broke
\* off; its summary shows a prompt of the user; and agy's answer is the agent's
\* text, however long the title call's is.
TurnsTellTheReply ==
  /\ \A t \in Range(turns) :
       /\ Tells(t.text, Arrived(t.of, "text"))
       /\ Tells(t.reasoning, IF exchange.cli = "codex" /\ exchange.form \notin {"streamed", "bare"}
                             THEN {} ELSE Arrived(t.of, "think"))
       /\ exchange.history[t.prompt] = "prompt"
  /\ exchange.cli = "agy" /\ (\E i \in Spoken : turns[i].of = "main") => Answer.of = "main"
==============================================================================
