-------------------------- MODULE HookRegistration --------------------------
(***************************************************************************)
(* How system-message channels of several processes share a workspace's    *)
(* .agents/hooks.json with its user (SystemMessageChannel.start and close, *)
(* antigravity/pyagy/system_messages.py).  A channel adds its own entry    *)
(* when it starts and takes it out when it closes, and the last one puts   *)
(* back what was there before the first.  Channels exclude each other by a *)
(* flock and remember in a registry file which of the file and its         *)
(* directory they created.  The user's editor takes no lock: a channel     *)
(* re-reads the file before it replaces it and starts over when it has     *)
(* changed, a bounded number of times.  Processes may die anywhere.        *)
(*                                                                         *)
(* One action is one access to the file system that others can tell apart. *)
(***************************************************************************)
EXTENDS Naturals, FiniteSets

CONSTANTS
  Channels,         \* channels, each of a process of its own
  NoChannel,        \* nobody holds the flock
  Retries,          \* CONFIG_RETRIES
  Parts,            \* what the user may have in the file besides our entries
  Nothing,          \*   ... no entry at all
  Garbage,          \*   ... text that is not a JSON object
  NoRegistry,       \* the registry file does not exist
  MaxEdits          \* bound: changes the user makes

Entry == {"none", "ours", "edited"}
Registry == [entries : SUBSET Channels, config : BOOLEAN, agents : BOOLEAN]

VARIABLES
  agents,       \* .agents exists
  file,         \* .agents/hooks.json exists
  user,         \* the user's part of its content
  entry,        \* each channel's entry in it
  registry,     \* entries, created_config, created_agents; or NoRegistry
  status,       \* each channel: "new" | "started" | "closed" | "abandoned" | "dead"
  holder,       \* the holder of the flock, whose variables the next ones are
  phase,        \* where it is
  tries,        \* attempts of _retry_config() that failed
  seen,         \* the file as read: [file, user, entry]
  before,       \* the registry as loaded
  madeDir,      \* start() created .agents
  fresh,        \* the file is still the one that was read
  edits,        \* changes the user made (bounded by MaxEdits)
  lastUser,     \* history: what the user last left in the file: [part, edited]
  touched,      \* history: entries the user changed or removed
  raced,        \* history: the user wrote between the check and the replacement
  initial       \* history: the file before everything

fileVars == <<agents, file, user, entry>>
sectionVars == <<holder, phase, tries, seen, before, madeDir>>
historyVars == <<lastUser, touched, raced, initial>>
vars == <<fileVars, registry, status, sectionVars, fresh, edits, historyVars>>

NoEntries == [c \in Channels |-> "none"]
Content == [file |-> file, user |-> user, entry |-> entry]

----------------------------------------------------------------------------
Init ==
  /\ agents \in BOOLEAN /\ file \in BOOLEAN /\ user \in Parts \ {Garbage}
  /\ file => agents
  /\ ~file => user = Nothing
  /\ entry = NoEntries /\ registry = NoRegistry
  /\ status = [c \in Channels |-> "new"]
  /\ holder = NoChannel /\ phase = "none" /\ tries = 0
  /\ seen = Content /\ before = NoRegistry
  /\ madeDir = FALSE /\ fresh = FALSE /\ edits = 0
  /\ lastUser = [part |-> user, edited |-> {}] /\ touched = {} /\ raced = FALSE
  /\ initial = [agents |-> agents, content |-> Content]

Locals == <<tries, seen, before, madeDir, fresh>>

\* Leaving the locked section; its local variables are reset.
Release == /\ holder' = NoChannel /\ phase' = "none" /\ tries' = 0
           /\ madeDir' = FALSE /\ fresh' = FALSE
           /\ before' = NoRegistry
           /\ seen' = [file |-> FALSE, user |-> Nothing, entry |-> NoEntries]

At(label) == holder # NoChannel /\ phase = label
Goto(label) == phase' = label /\ UNCHANGED holder

Become(s) == status' = [status EXCEPT ![holder] = s]

----------------------------------------------------------------------------
(* start() *)

StartLock(c) ==
  /\ holder = NoChannel /\ status[c] = "new"
  /\ holder' = c /\ phase' = "start_read"
  /\ UNCHANGED <<fileVars, registry, status, Locals, edits, historyVars>>

\* register() up to the mkdir; a file that is no JSON object ends start().
StartRead ==
  /\ At("start_read")
  /\ \/ /\ user = Garbage
        /\ Release
        /\ UNCHANGED agents
     \/ /\ user # Garbage
        /\ seen' = Content /\ before' = registry /\ fresh' = TRUE
        /\ madeDir' = ~agents /\ agents' = TRUE
        /\ Goto("start_register")
        /\ UNCHANGED tries
  /\ UNCHANGED <<file, user, entry, registry, status, edits, historyVars>>

\* Mutant: every start records what it finds itself.
RegisteredAfresh(c) ==
  LET kept == IF before = NoRegistry THEN {}
              ELSE {k \in before.entries : seen.entry[k] # "none"}
  IN  [entries |-> kept \cup {c}, config |-> ~seen.file, agents |-> madeDir]

\* _registrations(): what was created is remembered as long as some entry
\* written since is still in the file.
Registered(c) ==
  LET kept == IF before = NoRegistry THEN {}
              ELSE {k \in before.entries : seen.entry[k] # "none"}
  IN  IF kept = {}
        THEN [entries |-> {c}, config |-> ~seen.file, agents |-> madeDir]
        ELSE [before EXCEPT !.entries = kept \cup {c}]

StartRegister ==
  /\ At("start_register")
  /\ registry' = Registered(holder)
  /\ Goto("start_check")
  /\ UNCHANGED <<fileVars, status, Locals, edits, historyVars>>

\* Mutant: the file is replaced without another look.
StartCheckNothing ==
  /\ At("start_check")
  /\ Goto("start_replace")
  /\ UNCHANGED <<fileVars, registry, status, Locals, edits, historyVars>>

\* The new content is in a temporary file; the old one is looked at again.
StartCheck ==
  /\ At("start_check")
  /\ \/ agents /\ fresh /\ Goto("start_replace") /\ UNCHANGED tries
     \/ agents /\ ~fresh /\ Goto("start_undo") /\ tries' = tries + 1
     \/ ~agents /\ Goto("start_undo") /\ tries' = Retries
  /\ UNCHANGED <<fileVars, registry, status, seen, before, madeDir, fresh, edits, historyVars>>

StartReplace ==
  /\ At("start_replace")
  /\ \/ /\ ~agents                          \* the temporary file is gone
        /\ Goto("start_undo") /\ tries' = Retries
        /\ UNCHANGED <<fileVars, status, seen, before, madeDir, fresh, historyVars>>
     \/ /\ agents
        /\ file' = TRUE /\ user' = seen.user
        /\ entry' = [seen.entry EXCEPT ![holder] = "ours"]
        /\ touched' = touched \ {holder}
        /\ Become("started") /\ Release
        /\ UNCHANGED <<agents, lastUser, raced, initial>>
  /\ UNCHANGED <<registry, edits>>

StartUndo ==
  /\ At("start_undo")
  /\ registry' = before
  /\ Goto("start_rmdir")
  /\ UNCHANGED <<fileVars, status, Locals, edits, historyVars>>

\* The rest of the rollback, then the next attempt or the error.
StartRmdir ==
  /\ At("start_rmdir")
  /\ agents' = (agents /\ (file \/ ~madeDir))
  /\ \/ tries < Retries /\ Goto("start_read") /\ UNCHANGED Locals
     \/ tries = Retries /\ Release
  /\ UNCHANGED <<file, user, entry, registry, status, edits, historyVars>>

----------------------------------------------------------------------------
(* close() *)

CloseUnstarted(c) ==
  /\ status[c] = "new" /\ holder # c
  /\ status' = [status EXCEPT ![c] = "closed"]
  /\ UNCHANGED <<fileVars, registry, sectionVars, fresh, edits, historyVars>>

CloseLock(c) ==
  /\ holder = NoChannel /\ status[c] = "started"
  /\ holder' = c /\ phase' = "close_read"
  /\ before' = registry
  /\ UNCHANGED <<fileVars, registry, status, tries, seen, madeDir, fresh, edits, historyVars>>

\* unregister() leaves alone an entry that is not as start() wrote it, and
\* fails on a file it cannot parse; both end in the registry update.
CloseRead ==
  /\ At("close_read")
  /\ IF user # Garbage /\ entry[holder] = "ours"
       THEN seen' = Content /\ fresh' = TRUE /\ Goto("close_check")
       ELSE UNCHANGED <<seen, fresh>> /\ Goto("close_registry")
  /\ UNCHANGED <<fileVars, registry, status, tries, before, madeDir, edits, historyVars>>

Remaining == [seen.entry EXCEPT ![holder] = "none"]

Created == IF before = NoRegistry THEN [config |-> FALSE, agents |-> FALSE]
           ELSE [config |-> before.config, agents |-> before.agents]

RemovesFile == seen.user = Nothing /\ Remaining = NoEntries /\ Created.config

\* Mutant: after the last attempt close() carries on.
CloseCheckQuiet ==
  /\ At("close_check")
  /\ \/ fresh /\ Goto("close_replace") /\ UNCHANGED tries
     \/ ~fresh /\ tries + 1 < Retries /\ Goto("close_read") /\ tries' = tries + 1
     \/ ~fresh /\ tries + 1 = Retries /\ Goto("close_registry") /\ UNCHANGED tries
  /\ UNCHANGED <<fileVars, registry, status, seen, before, madeDir, fresh, edits, historyVars>>

\* After the last attempt close() raises and leaves the registry as it is.
CloseCheck ==
  /\ At("close_check")
  /\ \/ /\ fresh
        /\ Goto("close_replace")
        /\ UNCHANGED <<status, Locals>>
     \/ /\ ~fresh /\ ~agents /\ ~RemovesFile    \* no place for a temporary file
        /\ Goto("close_registry")
        /\ UNCHANGED <<status, Locals>>
     \/ /\ ~fresh /\ (agents \/ RemovesFile) /\ tries + 1 < Retries
        /\ tries' = tries + 1
        /\ Goto("close_read")
        /\ UNCHANGED <<status, seen, before, madeDir, fresh>>
     \/ /\ ~fresh /\ (agents \/ RemovesFile) /\ tries + 1 = Retries
        /\ Become("abandoned") /\ Release
  /\ UNCHANGED <<fileVars, registry, edits, historyVars>>

CloseReplace ==
  /\ At("close_replace")
  /\ \/ /\ IF RemovesFile THEN ~file ELSE ~agents   \* unlink or replace fails
        /\ Goto("close_registry")
        /\ UNCHANGED fileVars
     \/ /\ IF RemovesFile THEN file ELSE agents
        /\ file' = ~RemovesFile
        /\ user' = seen.user /\ entry' = Remaining
        /\ Goto(IF Created.agents THEN "close_rmdir" ELSE "close_registry")
        /\ UNCHANGED agents
  /\ UNCHANGED <<registry, status, Locals, edits, historyVars>>

CloseRmdir ==
  /\ At("close_rmdir")
  /\ agents' = (agents /\ file)
  /\ Goto("close_registry")
  /\ UNCHANGED <<file, user, entry, registry, status, Locals, edits, historyVars>>

CloseRegistry ==
  /\ At("close_registry")
  /\ LET left == IF before = NoRegistry THEN {} ELSE before.entries \ {holder}
     IN  registry' = IF left = {} THEN NoRegistry ELSE [before EXCEPT !.entries = left]
  /\ Become("closed") /\ Release
  /\ UNCHANGED <<fileVars, edits, historyVars>>

----------------------------------------------------------------------------
\* The process of a channel dies; its flock goes with it.
Crash(c) ==
  /\ status[c] \in {"new", "started"}
  /\ status' = [status EXCEPT ![c] = "dead"]
  /\ IF holder = c THEN Release ELSE UNCHANGED <<sectionVars, fresh>>
  /\ UNCHANGED <<fileVars, registry, edits, historyVars>>

\* The user, who may change or remove entries of ours, too.  The window between
\* a channel's check and its replacement is the one the code leaves open.
UserWrites(u, e) ==
  /\ edits < MaxEdits /\ edits' = edits + 1
  /\ \A k \in Channels : e[k] = entry[k] \/ e[k] = "none" \/ (entry[k] = "ours" /\ e[k] = "edited")
  /\ u = Garbage => e = NoEntries
  /\ agents' = TRUE /\ file' = TRUE /\ user' = u /\ entry' = e
  /\ fresh' = FALSE
  /\ raced' = (raced \/ phase \in {"start_replace", "close_replace"})
  /\ touched' = touched \cup {k \in Channels : e[k] # entry[k]}
  /\ lastUser' = [part |-> u, edited |-> {k \in Channels : e[k] = "edited"}]
  /\ UNCHANGED <<registry, status, sectionVars, initial>>

UserRemoves ==
  /\ edits < MaxEdits /\ edits' = edits + 1
  /\ file /\ file' = FALSE /\ agents' \in BOOLEAN
  /\ user' = Nothing /\ entry' = NoEntries
  /\ fresh' = FALSE
  /\ raced' = (raced \/ phase \in {"start_replace", "close_replace"})
  /\ touched' = touched \cup {k \in Channels : entry[k] # "none"}
  /\ lastUser' = [part |-> Nothing, edited |-> {}]
  /\ UNCHANGED <<registry, status, sectionVars, initial>>

----------------------------------------------------------------------------
SectionStep == \/ StartRead \/ StartRegister \/ StartCheck \/ StartReplace
               \/ StartUndo \/ StartRmdir
               \/ CloseRead \/ CloseCheck \/ CloseReplace \/ CloseRmdir \/ CloseRegistry

Next == \/ \E c \in Channels : \/ StartLock(c) \/ CloseUnstarted(c)
                               \/ CloseLock(c) \/ Crash(c)
        \/ SectionStep
        \/ \E u \in Parts, e \in [Channels -> Entry] : UserWrites(u, e)
        \/ UserRemoves

Spec == Init /\ [][Next]_vars

----------------------------------------------------------------------------
Phase == {"none", "start_read", "start_register", "start_check", "start_replace",
          "start_undo", "start_rmdir", "close_read", "close_check", "close_replace",
          "close_rmdir", "close_registry"}

Contents == [file : BOOLEAN, user : Parts, entry : [Channels -> Entry]]

\* Type invariant; a file is in its directory, and only a file has content.
TypeOK ==
  /\ agents \in BOOLEAN /\ Content \in Contents
  /\ file => agents
  /\ ~file => user = Nothing /\ entry = NoEntries
  /\ registry \in Registry \cup {NoRegistry}
  /\ status \in [Channels -> {"new", "started", "closed", "abandoned", "dead"}]
  /\ holder \in Channels \cup {NoChannel} /\ phase \in Phase
  /\ tries \in 0..Retries
  /\ seen \in Contents /\ before \in Registry \cup {NoRegistry}
  /\ madeDir \in BOOLEAN /\ fresh \in BOOLEAN /\ edits \in 0..MaxEdits
  /\ lastUser \in [part : Parts, edited : SUBSET Channels] /\ touched \subseteq Channels
  /\ raced \in BOOLEAN

\* What the user wrote stays written, unless the write fell between the check
\* and the replacement (_write: "an uncooperative write after this check can
\* still race"): both the user's own part and the user's changes to entries.
HookEditsKept ==
  raced \/ /\ user = lastUser.part
           /\ {c \in Channels : entry[c] = "edited"} = lastUser.edited

\* Half of RegistrationMatchesStatus: while a channel is started its hook is in the file, whichever other channels
\* start, close, fail or die meanwhile, unless the user took it out.
StartedIsRegistered ==
  \A c \in Channels :
    status[c] = "started" /\ holder # c /\ c \notin touched /\ ~raced => entry[c] = "ours"

\* The other half: a close() without a conflict leaves no entry of its channel.
ClosedIsUnregistered == \A c \in Channels : status[c] = "closed" => entry[c] # "ours"

\* hooks.json holds the hooks of the started channels and of no closed one,
\* however start() and close() of several channels retry, fail and overlap.
RegistrationMatchesStatus == StartedIsRegistered /\ ClosedIsUnregistered

\* When every channel is closed, in whatever order, and the user did nothing,
\* the workspace is as it was: the file, its directory, and no registry left.
RestoresWorkspace ==
  edits = 0 /\ (\A c \in Channels : status[c] = "closed") =>
    agents = initial.agents /\ Content = initial.content /\ registry = NoRegistry

=============================================================================
