----------------------------- MODULE Questions -----------------------------
(***************************************************************************)
(* What a model is asked: tasksolver's Question and TaskSpec, and the      *)
(* prepare_payload of every adapter.  A question is a sequence of parts.  A *)
(* part keeps its identity on the way to the provider, so that what was    *)
(* lost, added or reordered can be seen.                                   *)
(*                                                                         *)
(* The form of an image is what the adapters tell apart: "pil" an image in *)
(* memory, "png" a file in a format every provider takes, "bmp" a file that *)
(* only PIL reads, "url" a remote image that is not fetched, "broken" a    *)
(* file that cannot be read.                                               *)
(***************************************************************************)
EXTENDS Naturals, Sequences, SequencesExt, FiniteSets, FiniteSetsExt

Text(id) == [kind |-> "text",  id |-> id, form |-> "text"]
Image(id, form) == [kind |-> "image", id |-> id, form |-> form]

Part == [kind : {"text", "image"}, id : STRING, form : STRING]

\* The parts of one kind, in their order.  The k-th member of a set of numbers
\* is the one that is not below k of them.
Nth(S, k) == CHOOSE i \in S : Cardinality({j \in S : j <= i}) = k
OfKind(q, kind) == LET at == {i \in DOMAIN q : q[i].kind = kind}
                   IN  [k \in 1..Cardinality(at) |-> q[Nth(at, k)]]
Texts(q) == OfKind(q, "text")
Images(q) == OfKind(q, "image")

(***************************************************************************)
(* TaskSpec.  Tags select parts of a question for display; the requests    *)
(* below take every part, so tags are left out.  background is a question  *)
(* or the empty sequence, examples a sequence of records with a question   *)
(* and an explanation (or NoReason).                                       *)
(***************************************************************************)
NoReason == "no explanation"

TaskComponent == << Text("task title"), Text("task description") >>

BackgroundComponent(background) == << Text("background title") >> \o background

Example(ex) == << Text("example question") >> \o ex.question
               \o (IF ex.explanation = NoReason THEN << >>
                   ELSE << Text("example reasoning"), Text(ex.explanation) >>)
               \o << Text("example answer"), Text(ex.answer), Text("blank line") >>

ExampleComponent(examples) ==
    << Text("examples title"), Text("examples count") >>
    \o FlattenSeq([i \in DOMAIN examples |-> Example(examples[i])])

PromptComponent(q) == << Text("your turn") >> \o q

FirstQuestion(task, q) ==
    TaskComponent
    \o (IF task.background = << >> THEN << >> ELSE BackgroundComponent(task.background))
    \o (IF task.examples = << >> THEN << >> ELSE ExampleComponent(task.examples))
    \o PromptComponent(q)

(***************************************************************************)
(* A request is what an adapter hands to its provider, or the exception it *)
(* raises instead.                                                         *)
(***************************************************************************)
Sent(parts)    == [error |-> "none", parts |-> parts]
Refused(error) == [error |-> error, parts |-> << >>]

\* parts, unless one has a form the adapter cannot take: the first of those
\* decides the exception
Checked(parts, errors) ==
    LET bad == {i \in DOMAIN parts : parts[i].form \in DOMAIN errors}
    IN  IF bad = {} THEN Sent(parts) ELSE Refused(errors[parts[Min(bad)].form])

\* Question.get_json reads every file before an adapter sees the parts
Json(q) == Checked(q, [broken |-> "UnidentifiedImageError"])

Blank     == Image("blank", "pil")     \* a white 512 x 512 image
Unfetched == Image("None", "url")      \* the image of a remote part is None
Loaded(p) == IF p.form = "url" THEN Unfetched ELSE p
LoadedImages(q) == [i \in DOMAIN Images(q) |-> Loaded(Images(q)[i])]
ImagesOrBlank(q) == IF Images(q) = << >> THEN << Blank >> ELSE LoadedImages(q)

GPTPayload(q) == Sent(q)
VLLMPayload(q) == Sent(q)
ClaudePayload(q) == Checked(q, [url |-> "IndexError", bmp |-> "ValueError"])
KimiPayload(q) == Checked(q, [url |-> "IndexError", bmp |-> "ValueError"])
GeminiPayload(q) == Checked(Texts(q) \o Images(q), [url |-> "IndexError"])
OllamaPayload(q) == Sent(q)
LlamaPayload(q) == Sent(Texts(q))
PhiPayload(q) == LET last == Last(ImagesOrBlank(q))
                    IN  Sent(Append(Texts(q), IF last = Unfetched THEN Blank ELSE last))
QwenPayload(q) == Sent(ImagesOrBlank(q) \o Texts(q))
MiniCPMPayload(q) == Sent(ImagesOrBlank(q) \o Texts(q))
\* <image> stands in the text where the image was
InternPayload(q) == Checked(q, [url |-> "ValueError"])

\* CLIBackendModel.prepare_payload: inline parts, or PNG files named before the text
InlinePayload(q) == Sent(q)
\* Mutant: a remote image is left out instead of refused.
SkipRemote(q) == Sent(SelectSeq(Images(q), LAMBDA p : p.form # "url") \o Texts(q))
FilePayload(q) == Checked(Images(q) \o Texts(q), [url |-> "ValueError"])
ClaudeCodePayload(q) == Checked(q, [bmp |-> "ValueError"])

\* CodexModel._sample: the text, then the same files as local images
CodexPayload(q) == IF FilePayload(q).error # "none" THEN FilePayload(q)
                   ELSE Sent(Texts(q) \o Images(q))
=============================================================================
