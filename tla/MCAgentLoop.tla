---------------------------- MODULE MCAgentLoop ----------------------------
(***************************************************************************)
(* AgentLoop for TLC: every adapter over every kind of question with one   *)
(* reply, and over the answer types with two.                              *)
(***************************************************************************)
EXTENDS AgentLoop

PlainTask == [background |-> << >>, examples |-> << >>]
RichTask  == [background |-> << Text("background"), Image("map", "png") >>,
              examples |-> << [question |-> << Text("old question") >>, answer |-> "old answer",
                               explanation |-> "because"],
                              [question |-> << Text("second question") >>, answer |-> "second answer",
                               explanation |-> NoReason] >>]

Everything == {<< Text("ask"), Image("photo", "png"), Text("more"), Image("scan", "bmp") >>,
                << Image("shot", "pil"), Text("ask") >>,
                << Text("ask"), Image("web", "url") >>,
                << Image("lost", "broken"), Text("ask") >>,
                << Text("ask") >>}

Plain == {<< Image("shot", "pil"), Text("ask") >>}

Backend(m, chat, answer, tries, task, questions) ==
    [model |-> m, keyed |-> TRUE, endpoint |-> TRUE, chat |-> chat, servers |-> FALSE, options |-> m \in CLIs, answer |-> answer,
     tries |-> tries, task |-> task, questions |-> questions,
     completes |-> TRUE, follows |-> m # "gpt"]

MCCases ==
    {Backend(m, FALSE, "Text", 1, RichTask, Everything) : m \in HTTP \cup Local \cup CLIs}
    \cup {Backend(m, FALSE, "PythonExecutableDiff", 1, PlainTask,
                   IF m = "ollama" THEN {<< Text("ask") >>} ELSE Plain) : m \in HTTP \cup Local \cup CLIs}
    \cup {Backend(m, TRUE, "YesNoWhy", 1, PlainTask, Plain) : m \in CLIs}
    \cup {Backend("vllm", FALSE, t, 0, PlainTask, Plain) :
             t \in {"LeftOrRight", "StarredList", "PythonExecutable", "YesNo", "Number"}}
    \cup {[Backend(m, FALSE, "Text", 0, PlainTask, Plain) EXCEPT !.keyed = FALSE] : m \in {"vllm", "kimi"}}
=============================================================================
