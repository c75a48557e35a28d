----------------------------- MODULE AgentLoop -----------------------------
(***************************************************************************)
(* tasksolver's Agent over one backend: think, act, observe, reflect and   *)
(* interject append events to the event buffer of the current session;     *)
(* clear_event_buffer starts a new one.  Callers may also sample the        *)
(* backend directly.  act and observe are the application's; their only     *)
(* contract is the event they add.                                         *)
(***************************************************************************)
EXTENDS ModelQuery

CONSTANTS MaxEvents     \* bound: events of a session

VARIABLES log,          \* event_buffer.events
          pending       \* the question Agent.think is asking, if it runs: << q >> or << >>

vars == << qvars, log, pending >>

Event(kind, question, answer) == [kind |-> kind, question |-> question, answer |-> answer]
NoAnswer   == NoReply      \* an answer is known by the reply it was parsed from
NoQuestion == << >>

\* EventCollection.filter_to: an ActErrorEvent is not an ActEvent
Filtered(kind) == SelectSeq(log, LAMBDA e : e.kind = kind)

Add(e) == log' = Append(log, e)
Room   == Len(log) < MaxEvents

HTTP  == {"gpt", "vllm", "claude", "kimi", "gemini", "ollama"}
Local == {"llama", "phi", "qwen", "minicpm", "intern"}

\* Every backend is one of the adapters, and what it is asked is a list of parts,
\* by itself and behind what first_question() puts before it.
ASSUME CasesAssumption ==
    \A c \in Cases : /\ c.model \in HTTP \cup Local \cup CLIs
                     /\ \A q \in c.questions : q \in Seq(Part) /\ FirstQuestion(c.task, q) \in Seq(Part)

\* Agent.__init__ picks the backend, whose constructor refuses what it cannot honour
ClaudeCodeBuilt(c) == c.model = "claude-code" => ~(c.chat /\ c.servers)
AgyBuilt(c)        == c.model = "agy" => ~(c.chat /\ c.servers)
CodexBuilt(c)      == c.model = "codex" => ~(c.chat /\ c.servers)
KimiCodeBuilt(c)   == c.model = "kimi-code" => ~c.chat

\* these two need a key, given or in the environment, and vllm an endpoint
VLLMBuilt(c) == c.model = "vllm" => c.keyed /\ c.endpoint
KimiBuilt(c) == c.model = "kimi" => c.keyed

\* Servers, a workspace and backend options are for the CLI backends only.
Supported(c) == c.options \/ c.servers => c.model \in CLIs
Built(c) == /\ ClaudeCodeBuilt(c) /\ AgyBuilt(c) /\ CodexBuilt(c) /\ KimiCodeBuilt(c)
            /\ VLLMBuilt(c) /\ KimiBuilt(c) /\ Supported(c)

Init == QInit /\ Built(case) /\ log = << >> /\ pending = << >>

\* run_once while nothing was acted on, rough_guess afterwards
Think(q) ==
    /\ pending = << >> /\ Room
    /\ Begin(IF Filtered("ACT") = << >> THEN FirstQuestion(case.task, q) ELSE q, "one", 1)
    /\ pending' = << q >>
    /\ UNCHANGED log

\* the event is added once the backend has returned
Thought ==
    /\ pending # << >> /\ pc = "returned"
    /\ Add(Event("THINK", pending[1], answers[1].from))
    /\ pending' = << >> /\ End

ThinkRaises ==
    /\ pending # << >> /\ pc = "failed"
    /\ pending' = << >> /\ End
    /\ UNCHANGED log

\* a caller uses agent.visual_interface itself, and takes what it returns or raises
Sample(q, f, k) ==
    /\ pending = << >> /\ log = << >>
    /\ f = "all" => model \in Alls
    /\ f # "many" => k = 1
    /\ Begin(q, f, k)
    /\ UNCHANGED << log, pending >>

Take == /\ pending = << >> /\ pc \in {"returned", "failed"} /\ End
        /\ UNCHANGED << log, pending >>

Quiet == pending = << >> /\ pc = "idle" /\ UNCHANGED << qvars, pending >>

Act      == Quiet /\ Room /\ Add(Event("ACT", NoQuestion, NoAnswer))
ActError == Quiet /\ Room /\ Add(Event("ACTERROR", NoQuestion, NoAnswer))
Observe  == Quiet /\ Room /\ Add(Event("OBSERVE", NoQuestion, NoAnswer))
Interject == Quiet /\ Room /\ Add(Event("INTERACT", NoQuestion, NoAnswer))

\* (an EVALUATE event whose answer says success() is "SUCCESS" here)
\* the evaluation is logged before it is looked at; without a followup
\* function a failed one ends in a ValueError
Reflect ==
    /\ Quiet /\ Len(log) + 1 < MaxEvents /\ case.completes
    /\ \/ Add(Event("SUCCESS", NoQuestion, NoAnswer))
       \/ /\ ~case.follows /\ Add(Event("EVALUATE", NoQuestion, NoAnswer))
       \/ /\ case.follows
          /\ \E q \in case.questions :
               log' = log \o << Event("EVALUATE", NoQuestion, NoAnswer), Event("FEEDBACK", q, NoAnswer) >>

ClearEventBuffer == Quiet /\ log # << >> /\ log' = << >>

Next ==
    \/ \E q \in case.questions : Think(q)
    \/ \E q \in case.questions, f \in {"one", "all", "many"}, k \in 1..MaxChoices : Sample(q, f, k)
    \/ QueryStep /\ UNCHANGED << log, pending >>
    \/ Thought \/ ThinkRaises \/ Take
    \/ Act \/ ActError \/ Observe \/ Interject \/ Reflect \/ ClearEventBuffer

\* a provider answers or fails, a stream ends, and the caller's own steps run
Fairness == /\ WF_vars(QueryStep /\ UNCHANGED << log, pending >>)
            /\ WF_vars(VLLMEnd /\ UNCHANGED << log, pending >>)
            /\ WF_vars(Thought) /\ WF_vars(ThinkRaises) /\ WF_vars(Take)

Spec == Init /\ [][Next]_vars /\ Fairness

-----------------------------------------------------------------------------

\* Every answer was parsed from the reply of its own slot in the last ask of this
\* query, one answer per choice, and the metadata attached to it is that reply's:
\* threads that finish in any order, a retry and a stream of interleaved chunks
\* never mix two replies (ask, many_rough_guesses).
AnswersMatchReplies ==
    pc = "returned" =>
        /\ Len(answers) = n
        /\ \A i \in 1..n : /\ answers[i].from = << queries, asks, i >>
                           /\ answers[i].metadata \in {answers[i].from, NoReply}
                           /\ Parse(answers[i].content) = "ok"

Blind      == {"llama", "phi"}          \* adapters that drop images
NoFetching == {"qwen", "minicpm"}       \* a remote image becomes None

\* A request that was sent has every text of the question in order and nothing else
\* said, and, except for the text-only llama and one-image phi, every image in order,
\* or a blank one where the question has none: an adapter that cannot carry an image
\* raises instead (prepare_payload of each adapter).
NothingLost ==
    asks > 0 =>
        /\ Texts(request.parts) = Texts(asked)
        /\ model \notin Blind =>
             LET sent == Images(request.parts)
                 mine == IF model \in NoFetching THEN LoadedImages(asked) ELSE Images(asked)
             IN  sent = mine \/ (mine = << >> /\ sent = << Blank >>)

\* A query ends: it returns or raises, and Agent.think with it.
QueriesEnd == pc = "asking" ~> pc = "idle"
=============================================================================
