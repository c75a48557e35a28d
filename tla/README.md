# TaskSolver: a TLA+ model

TaskSolver asks questions of vision-language models. Some are HTTP APIs or local models, some
are command-line coding agents (agy, Claude Code, Codex, Kimi) that are used as if they were
endpoints: the program starts the vendor's CLI under a terminal, a native bridge injected into
it captures what it says on the wire, a decoder in the CLI's process puts the capture together,
and a pipe brings the decoded objects home to the program that asked. The runtimes themselves
are pinned, patched, released and rebuilt by tools of this repository. This directory models the
parts in which several threads, processes, connections or users meet, and the conversions on the
way of a question and an answer.

Paths are relative to the repository's root, `src/`.

## 1. Inventory

| component | source | state it keeps | operations | modelled by |
|---|---|---|---|---|
| native capture bridge | `wirecap/native/` | `ready_`, `stop_`, `stopped_`, FIFO, worker, one condition variable, promises on emitters' stacks | `start`, `emit`, `shutdown`, the worker's loop | `WireBridge`, abstractly `EventDelivery` |
| agy host | `antigravity/src/antigravity.cpp`, `gocall.cpp` | books enabled, the process | `agy_init`, a logging book, the `os.Exit` book | `AgyHost` |
| capture decoding | `wirecap/decode/`, `*_process/*decode.py` | per connection: kind, buffers, frames; requests and unfinished responses, all bounded | `feed`, `flush`, match, record | `WireStreams`, `TurnDecode`, `TurnContents` |
| clients and sessions | `pyagy`, `pycodex`, `pykimi`: `client.py`, `sdk.py`, `conversations.py`, `sessions.py` | conversation id latch, capture cursor | `ask`, `Session`, `SDKSession`, `ask_many` | `AskClient`, `ParallelAsk` |
| wire session and turn loop | `wirecap/runtime/session.py`, `decode/mp_child.py`, `runtime/pty.py` | result pipe, terminal, turn clocks | `ask`, `ask_turn`, `close`, typing, terminal answers | `WireSession`, `CliChannels` |
| CLI process life cycle | `wirecap/runtime/process.py`, `pty.py` | `_FORK_LOCK`, `_inherited_fds`, descriptors, finalizer, process group | `_launch`, `poll`, `close`, `_sweep_group` | `CliProcess`, `ParallelAsk`, `CliChannels` |
| terminal screens, web views | `wirecap/runtime/terminal.py`, `webterm.py` | a lock, tables of screens and cleanups, a tmux server | `open`, views, `close` | `TerminalManager` |
| system-message queue | `antigravity/pyagy/system_messages.py` | `state.json`, `messages/*.json`, a flock | `send`, `bind_main`, `close`; the hook's `_deliver` | `MessageQueue` |
| system-message registration | same file | `.agents/hooks.json`, a registry file, a flock | `start`, `close` | `HookRegistration`, `AgyConfig` |
| temporary MCP configuration | `antigravity/pyagy/client.py`, `wirecap/runtime/mcp.py` | `mcp_config.json`, a stack of overlays per name | register, restore | `McpOverlay`, `AgyConfig` |
| query flow | `tasksolver/agent.py`, `event.py`, `common.py`, `answer_types.py` | event buffer, sessions | think, act, observe, reflect, interject; parse | `AgentLoop`, `Questions` |
| model adapters, retry loop | `tasksolver/*.py`, `*/model.py`, `cli_backend.py` | result slots of one query | `prepare_payload`, ask, `rough_guess` and its relatives | `Questions`, `ModelQuery` |
| Claude Code client, UI bridge | `claude/pyclaude/`, `claude/native_bridge.mjs`, `unbundle.py` | a socket, pending queries, the UI's command queue; a session's id | connect, query, interrupt; mount, unmount; follow-ups | `NativeTransport`, `NativeBridge`, `ClaudeSession`, `ClaudeCode` |
| runtime adoption and release | `tools/runtimes.py`, `.github/workflows/runtime-updates.yml`, `hand_over.sh` | pins, vendored trees, issues, `main` | check, adopt, set aside, release | `RuntimeAdoption` |
| runtime reconstruction | `tasksolver/reconstruct.py` | checkout, cached inputs, installed bundle | find, copy, verify, build, install | `Reconstruct`, `RuntimeRelease` |
| Go stack walking, stub dispatch | `antigravity/src/goframe.cpp`, `gomod.cpp` | module and frame tables | unwind, resolve | not modelled |
| egress rewriting, RPC trace | `antigravity/pyagy/agy_process/` | none between events | rewrite, format | not modelled |
| Kimi addon | `kimi/native/`, `kimiprocess.py` | none of its own | start and stop of the bridge | the "library" host of `AgyHost` |
| build tools, vendored code | `setup.py`, `claude/build_cli.py`, `*/vendor.json`, ... | none at run time | | not modelled |

How they interact:

* **CLI → bridge.** A host library in the CLI calls `start()`, `emit()` from any thread and
  `shutdown()`; the bridge's one worker thread runs the Python decoder.
* **Decoder → program.** The decoder appends turns to a capture file, and a sender thread puts
  them on a pipe. The program reads that pipe and the CLI's terminal in turn, by one thread, and
  may read the file for what the pipe did not bring.
* **Program → CLI.** A launch sends a pickled payload through a boot pipe; prompts are typed
  into the terminal. Everything else the CLI gets by inheritance.
* **Program ↔ agy, out of band.** Files in the workspace and in agy's home: hook registration,
  MCP servers, a directory of messages. The user's editor writes the first two without a lock.
* **Program → Claude UI.** SDK clients join a running UI over a private socket and share its
  command queue with the human.
* **Agent → adapter → backend.** A question goes through two or three representations; replies
  come back into slots that threads fill.
* **Workflow → `main` → machine.** Releases are adopted by a workflow and rebuilt by users.

Which behaviours are hard, and what makes each component correct:

| component | hard because | correct when |
|---|---|---|
| bridge, host | three signals on one condition variable; pointers into other threads' stacks; exit and kill at any time | no dangling promise; accepted events delivered once, in order, before `shutdown()` returns; every call returns; a capture that claims to be complete is |
| decoding | pieces of plaintext cut anywhere and mixed; overlapping, broken responses; bounded memory | each message is taken off once and whole; a turn holds one response's events and its own request |
| clients | pipe and file are two copies of one stream, either cut by death; stores shared with other runs | each decoded turn is returned once; the id is that of the conversation used |
| session, channels | two streams and three clocks; a process that dies at any byte; one thread serves four bounded channels | nothing lost at the seam of turns; every `ask()` returns; nobody waits in a circle |
| CLI process | inheritable flags are shared by all launches; a launch fails half-way | a CLI gets its own descriptors only; nothing of it remains |
| terminal | teardown outside the lock; names used again | screens in the table live; a page shows its screen; nothing is left running |
| queue, registration, overlay | hooks killed at any write; editors without lock; overlapping runs | at most once, in order; user edits survive; nothing is left behind |
| query flow | three representations of an image; threads, retries and slots | no part lost; each answer from its own reply; every query ends |
| Claude UI | remounts, cancelled writes, two clients and a human | answers and interrupts go to their turn; queries settle |
| adoption, rebuild | several pins that must agree; upstream, `main` and executables move | what is released fits together; a build that succeeds fits its pins; the old bundle survives a failed one |

`PROJECT.json` lists the hazards line by line, with the property that covers each one, or why
none does.

## 2. Modules

A module models one component; its constants carry named assumptions; one action is one atomic
step of the code (a critical section, a replaced file, a read outside a lock, a write of what a
channel takes at once). Modules that meet are composed by `EXTENDS`, or by `INSTANCE` where the
inner variables are renamed. Two modules whose components share nothing at run time may be
checked by one specification that begins with the choice of either; this is said where it is
done. Some definitions come in pairs: `Service` and `ServiceResults`, `Dechunk` and
`DechunkNoTrailers`, and so on. The second is a plausible bug of the first; no specification
uses it, and `PROJECT.json` says which property detects it.

### Capture
**`EventDelivery`** is what the bridge promises: events are accepted while it is open, delivered
in the order of acceptance, and all of them before it is finished.

**`WireBridge`** (`wirecap/native/pybridge.cpp`) implements it. `ready`, `stop`, `stopped`, `queue`
are `PyBridge`'s fields; `asleep` is the set of threads blocked in `qcv_.wait()`, from which
`NotifyOne`, `NotifyAll` and `SpuriousWakeup` take threads; `pc[t]` is each program thread's place,
`promise[t]` the promise on the stack of its `emit()`. `StartCall`/`StartWait` are `start()`;
`EmitCall`/`Enqueue`/`EmitReturn` `emit()` (fast path outside the mutex, `enqueue()`, `fut.get()`);
`ShutdownCall` to `ShutdownReturn` `shutdown()`; `WorkerReady`/`WorkerFetch`/`WorkerDispatch`/
`WorkerReply` `worker_main()`. A notification issued after unlocking is an action of its own. `log`
is a history of what dispatch was given.

**`AgyHost`** (`antigravity.cpp`, `gocall.cpp`) composes the bridge with its hosts: `agy_init()` starts it
and enables the books if it came up (`LoadBridge`, `EnterGo`); any Go thread may hit a book (`Book`) or
call `os.Exit` (`ExitBook`, `ExitTeardown`, `Leave`); the process may be killed. A "library" host (the
Rust shim, the Kimi addon) calls the bridge from any thread in any order (`LibraryCall`).

**`WireStreams`** (`wirecap/decode/capture.py`, `http1sse.py`, `h2reassemble.py`) is `BaseCorrelator.feed()` on the
writes of agy's connections. Plaintext is a sequence of tokens, the places at which a piece may be cut
and which the decoders tell apart: a request line, a header end, a chunk, a frame's header, its
payload. `TlsWrite` hands over a piece; `Classify` sniffs, `TryOne` and `Dechunk` take HTTP/1.1 requests
off a buffer that is reclaimed now and then, `Parsed` is the frame loop with `HeaderFrame` and `DataFrame`. `Open`
opens a connection, with `Reuse` also at the address of one that has been closed and collected.

**`TurnDecode`** (`capture.py`, `turns.py`, the CLIs' decoders) goes on with decoded requests and response
events. `AgyRequest`, `KimiRequest`, `CodexRequest` remember a request (agy and kimi in a bounded
queue, codex under the response's stream); `Event` puts events together per stream in an accumulator (`Grown`, `Keep`); a terminal
event, the next request, the end of the stream or the exit flush (`ExitEmit`) makes a `Turn`, which `Match`
pairs with a request by model and time. `pending` is a set: the place of a request in the code's queue is that of its making (`When`).

**`TurnContents`** (`http1sse.py`, `kimi_decode.py`, `responses_decode.py`, `turns.py`) is what a decoder makes of one response's
events: servers stream a reply as deltas, items and a complete message, or some of these, and break off
(`AgyEvents`, `KimiEvents`, `CodexEvents`); `AgyTurn`, `KimiTurn`, `CodexTurn` put text, reasoning, tokens and prompt together;
`PrimaryTurn` chooses agy's answer between the agent's call and a title call beside it.

**`AskClient`** (the three `client.py`, `sdk.py`, the stores) composes it with the way home. `SendHome` is the sender
thread of `mp_child.py`; what it has not sent dies with the CLI. `File` is the capture file, which other runs may
share. `AgyAsk`, `CodexAsk`, `KimiAsk` answer from stream or file (`CaptureOrStream`);
`AgySession`, `CodexSession`, `KimiSession` return the slice of a call, with or without the file's tail; `mode`
`"sdk"` is codex's `SDKSession`. `AgyFound`, `CodexFound`, `KimiFound` look the conversation's id up, each in its
own store and with its own rule.

### Process, channels, turn loop
**`CliProcess`** (`wirecap/runtime/process.py`, `pty.py`): a descriptor is a pair of a launch and a purpose.
`open` and `inheritable` are the program's descriptor table, `marked` is `_inherited_fds`, `lock`
is `_FORK_LOCK`, `inherited[l]` what `exec` left the CLI, `strayCloses` a history of descriptors closed
when they were not open. `Prepare`, `Spawn`/`SpawnFails` and `Restore` are the critical section of `_launch()`,
`InstallFinalizer` and `WriteBoot` the rest; a failure at any of them goes through `close()`
(`Stop`, `Grace`, `SweepGroup`, `RunFinalizer`) to `Abort`. `Tool` and `Die` are the CLI.

**`ParallelAsk`** (`ask_many` of pyagy) composes it with one thread that starts several CLIs, collects
from all of their queues in one loop and closes them. Its other initial state is the program whose threads
launch independently.

**`CliChannels`** (`process.py`, `pty.py`, `session.py`, `_term.py`) has the bytes: boot pipe, terminal in both
directions and result pipe hold as much as their constants say, and a write waits for room.
The program's thread is at `boot`, `type`, `get` or in a turn; `Service` is `_service()`, which reads the
terminal, finds queries (also those cut between two reads, by `Tail8`) and leaves `replies` for `Reply`. The
CLI's target thread loads the payload and sends objects (`Load`, `Put`, `Send`); its interface reads keys and
paints, with one thread or two (`OwnReader`), and waits for answers to its terminal queries.

**`WireSession`** (`session.py`): `phase` is the place in `ask()`: the ready wait, and in the loop `service`, `drain`
and `decide`. Clocks are ages in `Tick`s, capped at the largest value they are compared with. The CLI
streams, paints, finishes, raises or dies by itself; `Torn` is an object whose writer died in it. The
provider's `_pending()` is a free choice in `Decide`.

**`ResponsePath`** puts the stations of a response beside each other: `WireStreams`, `TurnContents`, `CliChannels` and
`WireSession`. A station is handed values by the one before and has no state in common with it, so a behaviour is
about one station, chosen at the start.

**`TerminalManager`** (`terminal.py`, `webterm.py`): `screens`, `name`, `shut`, `cleanups`, `viewers`, `closed` are the manager's
tables, guarded by `lock`; `windows`, `sessions`, `procs`, `ttyds`, `server` are what tmux and the
system hold. What a `close()` does after it has released the lock is a list, `todo[t]`, worked off one
callback of its `ExitStack` at a time. A page is made in three steps, `OpenView`, `CreateView`, `Register`, with
other threads between them. **`LocalProcesses`** chooses between the two kinds of processes a program starts: `ParallelAsk` by
`EXTENDS`, `TerminalManager` as `T`; they have no lock, table or descriptor in common.

### Files shared with agy and its user
**`MessageQueue`** (`system_messages.py`): the message files are functions of the message id. `Load`, `Claim`, `Flush`,
`Mark`, `Finish` are the hook's steps, one replaced file each; `Kill` ends a hook between any two of them;
`Fail` is the error of a hook whose directory `Close` removed. `payload` is which ancestor ids agy hands to
a subagent's hook; `launched` says that agy invokes the main model before a subagent's. Both are facts about agy
which the code itself relies on or hedges against.

**`HookRegistration`** (same file): the workspace is `agents`, `file`, `user` and `entry`; the registry file is
`registry`; the flock is `holder`. `StartRead` to `StartRmdir` and `CloseRead` to `CloseRegistry` follow `register`,
`unregister`, `_retry_config` and the rollbacks, one file operation each. `UserWrites` and `UserRemoves` take no lock.

**`McpOverlay`** (`client.py`, `mcp.py`): `file` is each configuration file, whole, cut or absent; `op` the operation under
the program's lock and what it has read; `run[s]` a run and the state of its overlay. `Read`, `Cut`, `DumpTool`, `Look`,
`DumpServers`, `Restore`, `Replace`, `DumpWithout` are the accesses; a write that is no rename passes through `Cut`.

**`AgyConfig`** chooses one of the two at the start, `McpOverlay` by `EXTENDS`, `HookRegistration` as `H`.

### Questions and answers
**`Questions`** (`common.py`, `prepare_payload` of every adapter) is pure: a question is a sequence of parts with identities;
an image has a form (in memory, a file every provider takes, one that only PIL reads, a remote one, an unreadable
one). `FirstQuestion` builds the task's prompt; `GPTPayload` to `CodexPayload` are the adapters.

**`ModelQuery`** (the adapters, `cli_backend.py`) is one query: `Ask` sends it, `Thread`s fetch replies into slots (`Store`),
`Join` waits for them, `Finish`, `Accept`, `Retry`, `GiveUp` are the attempt loop in each adapter's own form
(`VLLMGuess` to `CLIGuess`). Of a reply's text only what the parsers tell apart is kept.

**`AgentLoop`** (`agent.py`, `event.py`) composes it with the event buffer: `Think`, `Thought`, `ThinkRaises`, `ActError`,
`Interject`, `Reflect`, `ClearEventBuffer`, and callers that sample the backend themselves (`Sample`, `Take`).

### Claude Code
**`NativeTransport`** (`transport.py`): connect, write in two parts, cancel in between, read, close, one per SDK client.
**`NativeBridge`** (`native_bridge.mjs`) is the server side in the UI: `Accept` to `RefuseQuery` are `receive()`, `Attach`, `Listen`, `Stop`,
`ServerClosed`, `Monitor` the mount's life, `Begin`, `Emit`, `Finish` what the UI calls around a turn. The UI itself is
modelled from how `unbundle.py` wires it. **`ClaudeSession`** (`client.py`) is the other use: turns of a `Session`, each a fresh
client that resumes by id; `Remembered` is `_remember()`. **`ClaudeCode`** chooses one of the two uses; a `Session` and
an attached client share nothing.

### Releases
**`RuntimeAdoption`** (`tools/runtimes.py`, the workflow): `Check`, `AdoptAgy`, `AdoptTree`, `AdoptCli` (a patch that
merges, conflicts, or is hooked again where its anchor is), `SavePin`, `Docs`, `AdoptFails` with `Shelve`, `Release`. Upstream
publishes and withdraws at any time, issues are opened and closed, a maintainer commits (`HandWork`).
**`Reconstruct`** (`tasksolver/reconstruct.py`): `Select`, `Seed` (copy and verify), `InstallLibrary`, `InstallHost`, `RenameAway`, `RenameIn`,
`PutBack`, with self-updating executables, failing steps and kills. **`RuntimeRelease`** composes the two: the workflow
without machines, or a machine that sees `main` move to any consistent state, which is all the workflow shows it.

`MC<Module>` modules name symmetry sets and large constants; the `.cfg` files give the rest.

## 3. Runs

Sizes are distinct states. Every bound is a constant that guards name.

| run | properties | bounds, and why they are enough |
|---|---|---|
| `host` | `PromiseOnLiveStack`, `CompleteCapture`, `DeliversEvents`, `EveryCallReturns` | three threads, one per signal of the condition variable, so that `notify_one` can wake a wrong one; three jobs: one event and a marker of each exiting goroutine, or one in hand and two queued. 234 000 |
| `turns` | `TurnsIntact`, `OwnRequest`, `ResponsesExact`, `IdIsOwn` | two calls and a title call of two events each: two overlap while a third is to come; memory for two requests, so that the third pushes one out; two stored conversations beside the new one. Kimi's runs resume nothing here (`Resuming`), for that is `kimi_resume_id`. 4.7 million |
| `response` | `StreamIntact`, `AskReturns`, `StreamsExact`, `TurnsTellTheReply`, `NobodyWaitsForEver` | Session: two turns and three objects, so that objects fall before, between and after the turns; ages 1 to 3, so that each clock may run out before and after each other. Streams: two connections; pairs of requests in which each framing comes first and second, one with trailers, and three frame scripts in which streams mix, headers are split before and after an end of stream, and one is reset; pieces of up to four tokens; a buffer that is reclaimed after six, before and after a request's end. Contents: every form of stream, broken off anywhere, of a short and a long reply beside each other. Channels: each is smaller than the largest thing written to it and larger than the smallest, so that each write may pass at once or wait; two of everything that may follow itself. 267 000 |
| `processes` | `InheritsItsOwn`, `NothingRemains`, `SamplesComplete`, `OpenScreensLive`, `PageShowsItsScreen`, `NothingLeftBehind` | CLIs: two launches: flags and descriptors of one meet those of one other; two objects, one collected and one in the pipe at death. Screens: two threads; two windows and two names, so that two screens are open at once, or a name passes to another screen while a page is made; two pages. 1.1 million |
| `queue` | `AtMostOnce`, `HonestStatus`, `BindsMain`, `InOrder`, `MainMessagesLeaveTheQueue` | two hooks, main and one subagent, two messages of two sizes, a batch that holds the large one or both small ones, one kill anywhere: the other hook meets what the dead one left. One time stamp: order is then decided by the ids, as among messages of one clock tick. 291 000 |
| `config` | `NoLeftovers`, `UserEditsKept`, `HookEditsKept`, `RegistrationMatchesStatus`, `RestoresWorkspace` | three runs of one server name, so that the middle of a stack can close first, with two values; two edits, one kill. Layers only meet on a name, so a second name would be a copy. Two channels, two attempts, three edits: one retry and one exhaustion. 886 000 |
| `query` | `NothingLost`, `AnswersMatchReplies`, `QueriesEnd` | every adapter over every kind of question with one reply, over the answer types with two; two queries in a row and up to two attempts, so that slots of an earlier one could be reused. 307 000 |
| `claude` | `TurnsKeptApart`, `WholeFrames`, `TurnsContinue`, `QueriesSettle` | two clients and a human with a prompt each, two mounts, two upsets (an interrupt, a cancelled write, a disconnect, a removed prompt, an unmount); a session of four turns and two threads. 699 000 |
| `runtimes` | `ReleasedIsConsistent`, `SuccessMatchesPins`, `BundleKept`, `ReleasesHandled` | agy, Claude Code with its two parts, and Kimi, whose tree is patched and hooked: one of each kind of adoption; one new version of each, two troubles. 724 000 |
| `session_death` | `DeathIsAnExit`, violated | as the session of `response`, with three turns |
| `kimi_resume_id` | `IdIsOwn`, violated | as `turns`, with Kimi runs that resume |
| `launch` | `LaunchEnds`, violated | as the channels of `response` |

`OpenScreensLive` and the like are state invariants; `DeliversEvents` is the refinement of `EventDelivery`; `EveryCallReturns`,
`AskReturns`, `NobodyWaitsForEver`, `MainMessagesLeaveTheQueue`, `QueriesEnd`, `QueriesSettle` and `ReleasesHandled` are liveness. `CHECK_DEADLOCK` is off because in each system all actors may legitimately stop
(nobody calls any more, the process is gone); that nobody is stuck *inside* an operation is what the liveness
properties say. Symmetry is used in `config` (runs, values, channels) and `processes` (launches, threads, names), which are interchangeable there, and never in a run that checks liveness. A module's `TypeOK`,
where it has one, says what its variables hold; those of `WireBridge`, `MessageQueue`, `HookRegistration` and `TerminalManager` are proved.

### Fairness
* `AgyHost`: weak fairness, while the process lives, of each thread inside the bridge or the `os.Exit` book and of the
  worker: the operating system schedules them, and dispatch is Python code that returns. No fairness of calls
  or of spurious wake-ups.
* `MessageQueue`: weak fairness of a hook's own steps; strong fairness of taking the flock (the kernel queues waiters)
  and of agy's invocation of the main model. Kills are not fair and bounded: a system that kills every hook delivers nothing.
* `WireSession`: weak fairness of the loop and of the clock; none of the CLI. `AskReturns` holds for a CLI that streams
  finitely many objects: the inner loop `while q.poll()` looks at no clock.
* `CliChannels`: weak fairness of the program's steps that no choice stands behind, of `Service` and `Submit`, and of the CLI's
  target thread, its key reader and its painter. Nobody need ask, record, draw, settle or die.
* `AgentLoop`: weak fairness of the query's threads and loop, of the end of a stream, and of the agent's return; which reply
  comes is free.
* `ClaudeCode`: one weak fairness of the steps an attached party owes (`Owed`): a turn that has begun ends, a socket delivers
  or breaks. Nobody need query, type or mount.
* `RuntimeAdoption`: weak fairness of the scheduled check and of a run's next step. Troubles are bounded, and not fair.

## 4. What disagrees

Each of the first three is a run whose counterexample shows it; `PROJECT.json` quotes the lines.

* `session_death`. `ask_turn()` takes `EOFError` for the death of the CLI, but one that dies within an object larger than
  `PIPE_BUF` makes `get()` raise `OSError`: `ask()` raises with what the turn had received. In `ask_many()` (`client.py:601`)
  the same error loses the samples of all CLIs.
* `kimi_resume_id`. A resumed Kimi call returns the id of the workspace's newest conversation, not of the one it continued.
* `launch`. The program itself holds the boot pipe's read end, so a CLI that dies before a large payload is through leaves
  the launch blocked. `NobodyWaitsForEver` says "unless the CLI dies" for this.

Met while modelling, and modelled as the code is, without a run of their own:

* What the decoder learnt of a connection is kept under its address for ever (`capture.py:58`); a model connection at the address of a
  closed HTTP/2 one is never decoded. `StreamsExact` is violated in the instance of `response` with `Reuse = TRUE` and one address.
* `send_line()` types with one blocking write while nobody reads the terminal (`pty.py:226-231`): a CLI that does not read keys while it paints
  and a long prompt wait for each other for ever. `NobodyWaitsForEver` is violated in the instance with `OwnReader = FALSE`.
* codex's and kimi's `_answer_text` take the longest turn's text, so that a long preamble of a run with tools outranks a short final
  answer; agy takes the turn with the most tokens for that reason. Codex's reasoning is lost when it is not streamed as deltas.
* A terminal screen leaves `_screens` before its window is killed (`terminal.py:192`); an `open()` in between fails, and its rollback
  kills the closing window with its pages still connected (contrast `terminal.py:200`, `344`).
* A page of all screens that is registered after the last screen closed is accepted; its `ttyd` serves on (`webterm.py:28-29`, `68`).
* `forkpty()` leaves the terminal's master inheritable, so a later CLI holds the masters of earlier ones, whose terminals do
  not hang up when the program dies (`pty.py:175`, `process.py:46-47`). `InheritsItsOwn` leaves masters out.
* A `mcp_config.json` that does not parse is overwritten as an empty one when a run with tools starts, although "existing
  servers are preserved"; another agy may read it half-written; a failing `os.replace` of a restore leaves the entry.
* Claude: `rough_guess` stores `response_text` in its `except` (`claude.py:163`), so a reply without text escapes unretried; Llama and Phi drop
  images; Qwen and MiniCPM pass `None` for a remote image; vLLM's check for an empty response never fires;
  `PythonExecutableDiff`'s `AssertionError` is not retried. Reloaded events all have the kind `EVENT`.
* agy's multi-turn adapter gives all n answers the first response's conversation id.
* Rerunning `adopt claude` by hand after a conflict succeeds with conflict markers in the tree; a release that upstream withdraws
  can be followed by a downgrade.
* agy's capture reader counts a torn last line as read, codex's and kimi's read it again. Overlapping agy requests of one model
  can be paired by time with each other's response; more than 32 unanswered requests let a title response take
  another's; Kimi's responses have no key, so those of concurrent subagents would bleed into each other (the model lets
  only agy and codex overlap).
* A record that is in the file at one call and comes by the stream at the next is returned twice when the second call's tail is
  empty (`session.py:253-254`, contrast `149-151`). Kimi ignores `capture=False` (`client.py:204`).
* A run that dies before it writes its conversation returns another one's id, which a session keeps; two runs that share
  store and workspace mislabel each other. `bind_main` raising after a turn loses its response (`client.py:889`).
* Claude's bridge: a query sent right after a result can be refused as "already has an active turn", for the UI's guard outlives
  the result frame. A rejected connection stays in `state.clients` until its peer closes.

## 5. Theorems

Each `...Proofs` module proves its theorems for every value of the constants under the named assumptions of
the modules it extends. All follow one pattern: an inductive invariant, checked by TLC on a small instance before it was
proved, holds at first, is kept by each action (one lemma or step per action) and implies the property.

| theorem of | states for any | property |
|---|---|---|
| `WirecapProofs`, bridge and host | threads, jobs, goroutines, events | `TypeOK`, `PromiseOnLiveStack`, `NoStrandedEmitter`, `NoLostWakeup`, `DeliversEvents`, `CompleteCapture` |
| `WirecapProofs`, session (`WireSession`, and within `ResponsePath`) | calls, objects, clocks | `StreamIntact` |
| `WirecapProofs`, contents | replies, histories, CLIs, forms of stream, break-offs | `TurnsTellTheReply` |
| `ClientProofs`, queue | conversations, hooks, messages, sizes, kills | `TypeOK`, `AtMostOnce`, `HonestStatus`, `RightRecipient`, `InOrder`, `BindsMain` |
| `ClientProofs`, decoder and client | calls, events, remembered requests | `TurnsIntact`, `OwnRequest`, `ResponsesExact`, `IdIsOwn` |
| `AgyConfigProofs` | channels, runs, names, retries, edits, deaths | `HookEditsKept`, `RegistrationMatchesStatus`, `RestoresWorkspace`, `NoLeftovers`, `UserEditsKept` |
| `LocalProcessesProofs` | launches, samples, objects | `InheritsItsOwn`, `NothingRemains`, `SamplesComplete` |
| the same, with `TerminalManagerProofs` | threads, names, screens, views | `OpenScreensLive`, `PageShowsItsScreen`, `NothingLeftBehind` |
| `RuntimeReleaseProofs` | runtimes, versions, troubles | `ReleasedIsConsistent`, `SuccessMatchesPins`, `BundleKept` |
| `AgentLoopProofs` | backends, tasks, questions, choices, attempts, queries | `AnswersMatchReplies`, `NothingLost` |
| `ClaudeCodeProofs` | clients, queries, mounts; threads, turns | `TurnsKeptApart`, `WholeFrames`, `TurnsContinue` |

### The arguments

**Bridge.** `IInv` adds to the properties what none of them says: `TeardownInv` (the bridge accepts jobs only while `stop_` is
not set and the worker is alive, `stopped_` comes after `stop_`, and past the join the worker has left), `WorkerInv` (only a live
worker has a queue, and what it has in hand is a job), `EmitterInv` (what each `emit()` has on its stack, and that
one on its way to the queue found the bridge ready unless it has been stopped since), `SyncOnce` (a synchronous job
is queued once, and not also in hand) and `SleepInv` (who may be asleep: while the bridge accepts jobs nobody but the worker).
Without `SyncOnce`, answering one job could leave a second copy of it pointing to a stack that is gone; without
`TeardownInv`, a job could be queued behind a worker that has left; without `SleepInv`, the one `notify_one()`
could wake a thread that does not want it. The refinement is proved step by step: enqueue is `Accept`, dispatch is
`Deliver`, setting `stop_` is `Close`, setting `stopped_` is `Finish`; all other steps stutter.

**Host.** Every step of the host is one of the bridge or none (`HostStepsBridge`), so all that was proved of the bridge holds within agy.
`HostInv` adds `BooksInv` (books are on only where a worker was made, and the bridge is closed only behind a marker), `AnswerInv` (a
synchronous job is answered when it is in the capture) and `ExitInv` (how far each thread is in the `os.Exit` book).

**Message queue.** `IInv` adds `LockInv` (whoever is past `Load` holds the flock), `BatchInv` (the batch in hand is addressed to the
hook's conversation; it is pending or claimed and not flushed before the flush, and flushed after it) and `FlushInv` (whatever was
flushed is claimed or emitted, so that no later batch can choose it). `OrderInv` adds that the flock has a hook in its
section, so that nothing joins the queue behind a chosen batch; that a batch is in order when it is chosen (`PrefixInOrder`) is a fact about
`FittingPrefix` that needs nothing of sums. `BindingInv` says which facts about the binding, the lost hook and the launched model go together.

**Session.** `PipeInv` says of the pipe what `StreamIntact` does not: what was taken, what the turn has and what is in the pipe are the objects
sent, followed by an end that fits the CLI's life (nothing while it streams, `Done` or nothing when it has finished, any end when it is dead).
`AskingInv` says whom a call waits for. So the two places at which a turn ends with something left in the pipe, the deadline and
the ready wait, leave it to the next call and not to nobody.

**Contents.** `ContentInv`: each turn is made of the events that its call was told, and a call is over by its last event. The rest is about
the events. A CLI's stream is a sequence of blocks, one to a part of the reply, that `FlattenSeq` lays one behind the other (`Flattened`, proved by
looking at the first block that would lie elsewhere); events of one type carry the parts in the order of the reply (`AgyStreams`,
`KimiStreams`, `CodexStreams`); so the joined pieces of some types have each part that such events brought once and rising (`JoinedTells`). Where the
decoder prefers one type to another (kimi's complete message, codex's deltas and then its items), the preferred
one has brought all that came by any, wherever the stream breaks off (`KimiTells`, `CodexTells`). What is shown of a request is a
`SelectLastInSeq` over its history (`ShownPrompt`), and agy's answer is the agent's as each of its events has the count (`AgyCounts`, `AnswerOfTheAgent`).

**Decoder.** `AskedInv`: requests are made once, and the agent's in order, each after the end of the one before. `AccInv`: an accumulator
has the events of one response, all that were told of it, under the key that is its own (kimi's, which have none, are of the last request). `RecordedInv`: a
recorded response is told no more events and is in no accumulator, and one that is not over is in some accumulator. `RequestInv`: a request is
not given away while its response is open, unless some request was forgotten. `TurnsIntact` follows from the second and third; `OwnRequest` is
part of the fourth, which needs all of them.

**Client.** `StreamInv` orders the positions of recorder, sender and parent, and says that a call has got exactly what the stream brought since the last
one returned; `ModeInv` says who captures, and that the file was emptied before the CLI started. With it each provider's slice of
file and stream is one slice of `recorded`, which `ResponsesExact` compares. `StoreInv` ties the store's newest conversation to the one the run wrote;
for `IdIsOwn` it is assumed that `"kimi"` is not in `Resuming`, for with it the property is false (`kimi_resume_id`).

**`hooks.json`.** `HookInv`: who is in the locked section and with an attempt left (`SectionInv`); what was read is still there or
somebody wrote, which is noticed but in the last moment (`SeenInv`); entries by the status of their channel, in the file and in what was read
(`EntryInv`). `RestoreInv` says, for a workspace nobody else touched, what the file, its directory (`WorkspaceInv`) and the registry
(`RegistryInv`) hold in each phase: the registry names the channels hooked in the file, plus the one at work, and
what of file and directory the first of them made.

**`mcp_config.json`.** `OverlayInv`: who is at work and where (`OpInv`); the layers of a name are those of sessions that have covered its entry
and not yet restored it (`LayersInv`); an entry shows a caller's server only for the last layer, and where no edit was lost what the user
wrote is shown, or covered and remembered. The latter is said of the file (`EntriesInv`), of what an operation has in memory
(`DocInv`), of what a registration has just covered (`CoverInv`) and of what is remembered (`OriginalInv`), because each lags behind the others between
two accesses. `ToolInv` ties the entry of a tool server to its run.

**CLI processes.** `ProcessInv`: the lock covers a launch from its first mark to its last (`LockInv`); which descriptors of a launch are open
and whose they are at each place, while ownership goes from `start()` to the finalizer (`DescriptorsOf`); how far its CLI is (`ChildOf`);
the flags in force are those of the launch that holds the lock (`FlagsInv`). A step of one launch leaves all this of the others
alone (`OwnElsewhere`).

**Screens.** `ScreenInv`: the tables agree with each other (`TablesInv`, `ViewsInv`); what each thread has still to do is something it may do, and a
view under construction is known to its thread alone (`DueInv`); a window, process, tmux session or ttyd is in a table or some thread
has still to end it (`OrphansInv`, `PagesInv`); a closed manager goes on to its screens and server (`ClosedInv`). `close()` works outside the
lock on what it took out of the tables, so without the lists of what is due nothing could be said between its steps.
It is proved of `TerminalManager` and carried over to `LocalProcesses`, whose screens take the same steps.

**Releases.** `ReleaseInv`: everything but the runtime in hand belongs together, and of that one as much as the stage has brought about
(`AdoptionInv`); inputs that were verified stay those of the checkout until they are installed (`HelperInv`); a bundle renamed away is not
forgotten (`PreviousInv`). `BundleKept` excepts a rebuild killed between its two renames, as the code does.

**Queries.** `QueryInv`: a slot has no reply or the one of this ask that belongs there (`OwnReplies`); of a stream's chunks none makes a thread
die (`Streamed`); the attempt loop looks at complete lists only (`Complete`). `RequestInv`: a request on its way is what its adapter makes of
the question (`Carried`). What the adapters do to a question is sort its parts: texts and images are picked in their order
(`OfKind`), which is proved by the rank of a member in a set of positions, an induction that is made by looking at a least counterexample (`LeastMember`).

**Claude's bridge.** `BridgeInv` follows each client's frames: a client connects once (`Lifecycle`); two halves of a frame stand
next to each other (`Aligned`, whence `WholeFrames`); a handshake and a query are each in one place (`InitOnce`, `QueryOnce`); frames on
their way go on where those that were read end (`Continues`); the UI and the mount agree on the active turn (`HostInv`).

**Claude's Session.** `SessionInv`: conversations have their turns in the order of their start (`ConversationsInv`), and the
one whose id is kept has all that the session was told of (`MemoryInv`); the turn at work holds the lock, and once it was told an id writes there
(`TurnInv`). So a turn that breaks off before its id comes cannot take the memory of another one.

### Assumptions

That markers are not members of what they mark the absence of (`Worker`, `NoJob`, `NoHook`, `NoConv`, `NoChannel`, `Nobody`,
`NoThread`, `NoName`, Python's `None`), and that bounds are natural numbers. Beyond these: `SizeAssumption` (`send()` refuses what does not fit a batch by
itself), `RetryAssumption` (there is at least one attempt), `PartAssumption` (an absent and an unreadable user part are two things),
`MainAssumption` (agy's `init` runs on one of its threads),
`OverlayAssumption` (what the callers register differs from what the user writes, so that one can say whose an entry is; a tool server's name is its run's own), `CasesAssumption` (a configuration is of a backend that exists, and asks sequences of parts), `ReconstructAssumption` (the helper rebuilds agy and Claude Code, which every checkout pins), `ContentAssumption` (a reply is a sequence
of thoughts and texts, and a request's history begins with a prompt of the user).

### What is model-checked only

* Liveness: fairness and `ENABLED` are out of the provers' reach.
* `StreamsExact`: what a parser makes of a connection is a recursive function of its buffer (`WireStreams`), so the property for all streams is an
  induction over pieces and buffers.

Some definitions have the form they have so that they can be reasoned about, with the same meaning: `OfKind` (`Questions`) picks by rank, as the
provers do not expand the operator argument of `SelectSeq`, and `Kind` (`TurnContents`) joins singletons instead; `Frame` (`WireStreams`) and `Sent`
(`NativeBridge`) use conditions that exclude each other; `FittingPrefix` says that each message up to a chosen one fits, as the loop that stops
at the first which does not.

## 6. Plan

Done: all components of section 2; the theorems of section 5.

Left: `StreamsExact` for every stream, where addresses are not used again (with `Reuse` it is false): each parser's recursive function has first to be
shown to exist, then to stop at the end of a message wherever the buffer ends.

## 7. Not modelled

* **Whole components.** Go stack walking and stub dispatch depend on machine code. Egress rewriting, RPC trace and symbolization
  are functions of one event. Build tools have no state at run time. Vendored SDKs and CLIs are not this project's.
* **Decoding.** `PUSH_PROMISE`, padding, content encodings, gRPC lengths, HPACK failures, writes above 16 MiB (not handed over), SSE
  lines, tool calls and model names of a turn, the `tls_read` path (switched off), `app_response` snapshots, agy's stack deduplication and the chunking of large responses.
* **Clients.** Reading histories, sandbox and approval options, store formats; Kimi's `ask_many` (a sequence of asks); `SDKSession`'s login
  and start-up. agy reads the id before `close()` and the others after it; the model has one step for both.
* **Session and channels.** The patterns of trust dialogs, interpreter preparation in the child, a one-shot's `max_wait`; Kimi's two
  writes of a bracketed paste are one; the 1 MiB and 50 ms bounds of a drain. A tool that keeps the terminal open after the CLI's death,
  and a CLI stopped in the middle of an object, are left out. Between asks nobody drains the terminal: a CLI
  may block until the next one, which `NobodyWaitsForEver` leaves out.
* **Processes.** Ids the kernel uses again; `workspace.py`, `vendor.py`; in `ParallelAsk` the message channels and the shared overlay, and the
  deadline is a choice (`Collected`).
* **Terminal.** Sending keys, snapshots, `attach()`, `open_terminal()`.
* **Files.** A clock set back (stamps order messages; equal ones are modelled); validation of texts and tokens; a second process that races on
  the MCP file.
* **Query flow.** Rendering of tags and documents; error files. `Agent` never builds the Ollama adapter; it is modelled beside the others.
* **Claude Code.** Socket-path checks and clean-up, frame limits (one bound stands for unread output), `ask_many`, environment blanking, the
  patching of the bundle. Turns are assumed to end: a permission dialog that waits for ever is left out. `Stop` also stands for
  `unavailable`.
* **Releases.** Failing hand-over, manual dispatch modes, docs-only rebase, in-place reconstruction, Python and book checks, a double rename
  failure, a kill between installing agy's library and its host. A clean merge is taken to keep the patch's lines once.
