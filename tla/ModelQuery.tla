----------------------------- MODULE ModelQuery -----------------------------
(***************************************************************************)
(* One query of a model adapter, tasksolver's rough_guess,                 *)
(* all_task_rough_guess and many_rough_guesses: the request, the threads   *)
(* that fetch n replies into the slots of a results list, the join, the    *)
(* parser and the attempt loop around them.                                *)
(*                                                                         *)
(* A reply has an identity, <<query, ask, index>>, which slots, answers and *)
(* their metadata carry; of its text only what the parsers tell apart is   *)
(* kept: "exact" the form the answer type documents, "half" one of its two *)
(* marks, "code" a fenced python block, "prose" none of them (or no text),  *)
(* and "null" when the message has no text at all.                         *)
(***************************************************************************)
EXTENDS Questions, TLC

CONSTANTS Cases,        \* records: what the adapter is and how it was built
          MaxChoices,   \* num_threads is at most this
          MaxQueries    \* bound: queries in one behaviour

ASSUME QueryAssumption == MaxChoices \in Nat /\ MaxQueries \in Nat

VARIABLES
    case,       \* the backend of this behaviour, an element of Cases
    pc,         \* "idle", "asking", "judging", "returned" or "failed"
    form,       \* "one", "all" or "many": the method called
    asked,      \* the question handed to the method
    request,    \* the payload
    queries,    \* queries so far
    asks,       \* requests sent for this query
    results,    \* the results list of this ask, a slot per choice
    unparsed,   \* per finished ask of this query, whether a reply was unparsable
    answers,    \* parsed answers with their metadata
    failure     \* the exception of a failed query

qvars == << case, pc, form, asked, request, queries, asks, results, unparsed,
            answers, failure >>

model == case.model
n     == Len(results)

NoReply == << 0, 0, 0 >>
Waiting == [state |-> "waiting", from |-> NoReply, content |-> "null"]
Died    == [state |-> "died",    from |-> NoReply, content |-> "null"]
Got(i, content) == [state |-> "got", from |-> << queries, asks, i >>, content |-> content]

-----------------------------------------------------------------------------
(* Parsers: what the answer type makes of a text.  "assert" is an error    *)
(* that is not a GPTOutputParseException.                                   *)

Only(ok) == [c \in {"exact", "half", "prose", "code"} |-> IF c \in ok THEN "ok" ELSE "unparsable"]

ParseLeftOrRight  == Only({"exact"})
ParseStarredList  == Only({"exact", "half", "prose", "code"})
ParseDiff         == [exact |-> "ok", half |-> "unparsable", prose |-> "assert", code |-> "assert"]
ParseExecutable   == Only({"exact", "code"})
ParseText         == Only({"exact", "half", "prose", "code"})
ParseYesNoWhy     == Only({"exact"})
ParseYesNo        == Only({"exact"})
ParseNumber       == Only({"exact"})

Parser == [LeftOrRight |-> ParseLeftOrRight, StarredList |-> ParseStarredList,
           PythonExecutableDiff |-> ParseDiff, PythonExecutable |-> ParseExecutable,
           Text |-> ParseText, YesNoWhy |-> ParseYesNoWhy, YesNo |-> ParseYesNo,
           Number |-> ParseNumber]

\* parse_response: response_text refuses a message without text
Parse(content) == IF content = "null" THEN "unparsable" ELSE Parser[case.answer][content]

\* the comprehension over the replies stops at the first that does not parse
Verdict ==
    LET bad == {i \in 1..n : Parse(results[i].content) # "ok"}
    IN  IF bad = {} THEN "ok" ELSE Parse(results[Min(bad)].content)

-----------------------------------------------------------------------------
(* The request of the adapter the case names *)

Payload(q) ==
    IF Json(q).error # "none" THEN Json(q) ELSE
    CASE model = "gpt"     -> GPTPayload(q)
      [] model = "vllm"    -> VLLMPayload(q)
      [] model = "claude"  -> ClaudePayload(q)
      [] model = "kimi"    -> KimiPayload(q)
      [] model = "gemini"  -> GeminiPayload(q)
      [] model = "ollama"  -> OllamaPayload(q)
      [] model = "llama"   -> LlamaPayload(q)
      [] model = "phi"     -> PhiPayload(q)
      [] model = "qwen"    -> QwenPayload(q)
      [] model = "minicpm" -> MiniCPMPayload(q)
      [] model = "intern"  -> InternPayload(q)
      [] model = "claude-code" -> ClaudeCodePayload(q)
      [] model = "codex"   -> IF case.chat THEN InlinePayload(q) ELSE CodexPayload(q)
      [] model \in {"agy", "kimi-code"} -> FilePayload(q)

QInit ==
    /\ case \in Cases
    /\ pc = "idle" /\ form = "one" /\ asked = << >> /\ request = Sent(<< >>)
    /\ queries = 0 /\ asks = 0 /\ results = << >> /\ unparsed = << >>
    /\ answers = << >> /\ failure = "none"

Ask(k) == /\ pc' = "asking" /\ asks' = asks + 1
          /\ results' = [i \in 1..k |-> Waiting]

Fail(error) == pc' = "failed" /\ failure' = error

\* the method up to its first ask
Begin(q, f, k) ==
    /\ pc = "idle" /\ queries < MaxQueries
    /\ queries' = queries + 1 /\ form' = f /\ asked' = q /\ request' = Payload(q)
    /\ unparsed' = << >> /\ answers' = << >>
    /\ IF Payload(q).error = "none"
       THEN /\ pc' = "asking" /\ asks' = 1 /\ failure' = "none"
            /\ results' = [i \in 1..k |-> Waiting]
       ELSE Fail(Payload(q).error) /\ asks' = 0 /\ results' = << >>
    /\ UNCHANGED case

\* the caller has what the method returned or raised
End == /\ pc' = "idle" /\ request' = Sent(<< >>) /\ asks' = 0 /\ results' = << >>
       /\ unparsed' = << >> /\ answers' = << >> /\ failure' = "none"
       /\ UNCHANGED << case, form, asked, queries >>

-----------------------------------------------------------------------------
(* ask: the replies *)

AskVars == << case, form, asked, request, queries, unparsed, answers >>

\* what a message's content is for each reply of the provider; "raise" when the
\* thread raises
Reading(special) == [r \in {"exact", "half", "prose"} \cup DOMAIN special |->
                        IF r \in DOMAIN special THEN special[r] ELSE r]

\* Mutant: replies are appended as they come.
StoreNext(i, slot) ==
    LET open == {j \in 1..n : results[j].state = "waiting"}
    IN  results' = [results EXCEPT ![IF open = {} THEN i ELSE Min(open)] = slot]
Store(i, slot) == results' = [results EXCEPT ![i] = slot]

\* one thread (the caller's own when n = 1) fetches the reply of slot i
Thread(m, reading) ==
    /\ model = m /\ pc = "asking"
    /\ \E i \in 1..n, r \in DOMAIN reading :
         /\ results[i].state = "waiting"
         /\ Store(i, IF reading[r] = "raise" THEN Died ELSE Got(i, reading[r]))
    /\ UNCHANGED << AskVars, pc, asks, failure >>

NoText == [none |-> "null", error |-> "raise"]
ClaudeAsk == Thread("claude", Reading(NoText))
KimiAsk   == Thread("kimi", Reading(NoText))
\* raw_response.text raises when the reply has no text
GeminiAsk == Thread("gemini", Reading([none |-> "raise", error |-> "raise"]))
\* the thread refuses a request with an image
OllamaAsk == LET answer == Reading([error |-> "raise"])
             IN  Thread("ollama", IF Images(request.parts) = << >> THEN answer
                                  ELSE [r \in DOMAIN answer |-> "raise"])
\* a local model's output is a string, empty or not
Generated == Reading([error |-> "raise"])
LlamaAsk   == Thread("llama", Generated)
PhiAsk     == Thread("phi", Generated)
QwenAsk    == Thread("qwen", Generated)
MiniCPMAsk == Thread("minicpm", Generated)
InternAsk  == Thread("intern", Generated)

\* one request with n choices; the SDK raises for all of them or for none
GPTAsk ==
    /\ model = "gpt" /\ pc = "asking"
    /\ \/ \E c \in [1..n -> {"exact", "half", "prose", "null"}] :
            results' = [i \in 1..n |-> Got(i, c[i])] /\ pc' = "judging" /\ UNCHANGED failure
       \/ Fail("provider error") /\ UNCHANGED results
    /\ UNCHANGED << AskVars, asks >>

\* a chunk of the stream, for the choice its index names: visible text, or
\* reasoning, which is the message only while there is no visible text
VLLMChunk ==
    /\ model = "vllm" /\ pc = "asking"
    /\ \E i \in 1..n, c \in {"exact", "half", "prose", "code"} :
         /\ c = "code" => results[i].content = "null"
         /\ Store(i, Got(i, c))
    /\ UNCHANGED << AskVars, pc, asks, failure >>

\* the stream ends: a choice without text has the empty string for content
VLLMEnd ==
    /\ model = "vllm" /\ pc = "asking"
    /\ \/ /\ results' = [i \in 1..n |-> IF results[i] = Waiting THEN Got(i, "prose") ELSE results[i]]
          /\ pc' = "judging" /\ UNCHANGED failure
       \/ Fail("provider error") /\ UNCHANGED results
    /\ UNCHANGED << AskVars, asks >>

\* the CLIs' ask_many; "tool" is a reply that used a tool, "timeout" a turn cut off
Turn == Reading([none |-> "none", tool |-> "tool", error |-> "raise"])
ClaudeCodeSample == Thread("claude-code", Turn)
AgySample == Thread("agy", Turn)
\* codex and kimi-code ask for one reply after the other
InTurn == \A i \in 1..n : results'[i] # results[i] =>
             \A j \in 1..(i - 1) : results[j].state = "got"
CodexSample    == Thread("codex", Reading([none |-> "none", tool |-> "tool", error |-> "raise",
                                           timeout |-> "timeout"])) /\ InTurn
KimiCodeSample == Thread("kimi-code", Turn) /\ InTurn

Threaded == {"claude", "kimi", "gemini", "ollama", "llama", "phi", "qwen", "minicpm", "intern"}
CLIs     == {"claude-code", "agy", "codex", "kimi-code"}

\* Mutant: a thread that died is waited for.
AllGot == \A i \in 1..n : results[i].state = "got"
Over == \A i \in 1..n : results[i].state # "waiting"

\* every job is joined, then completed_results
Join ==
    /\ model \in Threaded /\ pc = "asking" /\ Over
    /\ IF \A i \in 1..n : results[i].state = "got" THEN pc' = "judging" /\ UNCHANGED failure
       ELSE Fail(IF n = 1 THEN "provider error" ELSE "RuntimeError")
    /\ UNCHANGED << AskVars, asks, results >>

\* a chat turn acted as an agent: it used a tool; agy's view_file on an image of
\* this request is allowed, and is no "tool" here
ClaudeCodeViolates(content) == model = "claude-code" /\ content = "tool"
AgyViolates(content)        == model = "agy" /\ content = "tool"
CodexViolates(content)      == model = "codex" /\ content = "tool"
Violates(content) == ClaudeCodeViolates(content) \/ AgyViolates(content) \/ CodexViolates(content)

\* _finish, of one response after the other
FinishError(content) ==
    CASE content = "timeout" -> "TimeoutError"
      [] content = "none" -> "RuntimeError"
      [] case.chat /\ Violates(content) -> "ChatModeViolation"
      [] OTHER -> "none"

Finish ==
    /\ model \in CLIs /\ pc = "asking"
    /\ Over \/ model \in {"codex", "kimi-code"}
    /\ IF \E i \in 1..n : results[i].state = "died"
       THEN Fail("provider error") /\ UNCHANGED results
       ELSE LET bad == {i \in 1..n : FinishError(results[i].content) # "none"}
            IN  /\ Over
                /\ IF bad # {} THEN Fail(FinishError(results[Min(bad)].content)) /\ UNCHANGED results
                   ELSE /\ pc' = "judging" /\ UNCHANGED failure
                        /\ results' = [i \in 1..n |-> IF results[i].content = "tool"
                                         THEN [results[i] EXCEPT !.content = "exact"] ELSE results[i]]
    /\ UNCHANGED << AskVars, asks >>

-----------------------------------------------------------------------------
(* The attempt loop: parse, and ask again when a reply is unparsable *)

Judging(m, f) == model = m /\ form = f /\ pc = "judging" /\ UNCHANGED << case, form, asked, request, queries >>

Own      == [i \in 1..n |-> results[i].from]      \* metadata of the reply itself
Detached == [i \in 1..n |-> NoReply]              \* no metadata is attached

Accept(metadata) ==
    /\ Verdict = "ok" /\ pc' = "returned"
    /\ answers' = [i \in 1..n |-> [from |-> results[i].from, content |-> results[i].content,
                                   metadata |-> metadata[i]]]
    /\ UNCHANGED << asks, results, unparsed, failure >>

Crash == Verdict = "assert" /\ Fail("AssertionError") /\ UNCHANGED << asks, results, unparsed, answers >>

GiveUp == Len(unparsed) + 1 > case.tries

Retry ==
    /\ Verdict = "unparsable"
    /\ unparsed' = Append(unparsed, TRUE)
    /\ IF GiveUp THEN Fail("GPTMaxTriesExceeded") /\ UNCHANGED << asks, results >>
       ELSE Ask(n) /\ UNCHANGED failure
    /\ UNCHANGED answers

Loop(metadata) == Accept(metadata) \/ Crash \/ Retry

\* claude and gemini save the reply in the handler: a reply without text raises there
Saves ==
    \/ Verdict # "unparsable"
    \/ results[1].content # "null"
SaveFails == ~Saves /\ Fail("GPTOutputParseException") /\ UNCHANGED << asks, results, unparsed, answers >>

GPTGuess  == Judging("gpt", "one") /\ Loop(Own)
GPTMany   == Judging("gpt", "many") /\ Loop(Own)
VLLMGuess == Judging("vllm", "one") /\ Loop(Own)
VLLMMany  == Judging("vllm", "many") /\ Loop(Own)
ClaudeGuess == Judging("claude", "one") /\ ((Saves /\ Loop(Own)) \/ SaveFails)
ClaudeMany  == Judging("claude", "many") /\ Loop(Own)
GeminiGuess == Judging("gemini", "one") /\ Loop(Own)
GeminiMany  == Judging("gemini", "many") /\ Loop(Own)
KimiGuess == Judging("kimi", "one") /\ Loop(Own)
KimiMany  == Judging("kimi", "many") /\ Loop(Own)
OllamaGuess == Judging("ollama", "one") /\ Loop(Detached)
OllamaMany  == Judging("ollama", "many") /\ Loop(Detached)
LlamaGuess == Judging("llama", "one") /\ Loop(Detached)
LlamaMany  == Judging("llama", "many") /\ Loop(Detached)
PhiGuess == Judging("phi", "one") /\ Loop(Detached)
PhiAll   == Judging("phi", "all") /\ Loop(Detached)
PhiMany  == Judging("phi", "many") /\ Loop(Detached)
QwenGuess == Judging("qwen", "one") /\ Loop(Detached)
QwenAll   == Judging("qwen", "all") /\ Loop(Detached)
QwenMany  == Judging("qwen", "many") /\ Loop(Detached)
MiniCPMGuess == Judging("minicpm", "one") /\ Loop(Detached)
MiniCPMAll   == Judging("minicpm", "all") /\ Loop(Detached)
MiniCPMMany  == Judging("minicpm", "many") /\ Loop(Detached)
InternGuess == Judging("intern", "one") /\ Loop(Detached)
InternAll   == Judging("intern", "all") /\ Loop(Detached)
InternMany  == Judging("intern", "many") /\ Loop(Detached)
CLIGuess == (\E m \in CLIs : Judging(m, "one")) /\ Loop(Own)
CLIMany  == (\E m \in CLIs : Judging(m, "many")) /\ Loop(Own)

Replies == \/ ClaudeAsk \/ KimiAsk \/ GeminiAsk \/ OllamaAsk \/ LlamaAsk \/ PhiAsk
           \/ QwenAsk \/ MiniCPMAsk \/ InternAsk \/ GPTAsk \/ VLLMChunk \/ VLLMEnd
           \/ ClaudeCodeSample \/ AgySample \/ CodexSample \/ KimiCodeSample \/ Join \/ Finish

Guesses == \/ GPTGuess \/ VLLMGuess \/ ClaudeGuess \/ GeminiGuess \/ KimiGuess
           \/ OllamaGuess \/ LlamaGuess \/ PhiGuess \/ QwenGuess \/ MiniCPMGuess
           \/ InternGuess \/ CLIGuess

Manys == \/ GPTMany \/ VLLMMany \/ ClaudeMany \/ GeminiMany \/ KimiMany \/ OllamaMany
         \/ LlamaMany \/ PhiMany \/ QwenMany \/ MiniCPMMany \/ InternMany \/ CLIMany
         \/ PhiAll \/ QwenAll \/ MiniCPMAll \/ InternAll

Alls == {"phi", "qwen", "minicpm", "intern"}      \* adapters with all_task_rough_guess

QueryStep == Replies \/ Guesses \/ Manys
=============================================================================
