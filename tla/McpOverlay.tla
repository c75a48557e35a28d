----------------------------- MODULE McpOverlay -----------------------------
(* The MCP servers of agy runs in one configuration file                     *)
(* (antigravity/pyagy/client.py, config.py and wirecap/runtime/mcp.py).      *)
(*                                                                           *)
(* agy reads its MCP servers from mcp_config.json, which belongs to the user.*)
(* A run adds the caller's servers and one server of its own for the         *)
(* caller's tools, and takes them out again when it closes; runs overlap and *)
(* close in any order.  A lock of the program covers each registration and   *)
(* each cleanup, but not the user's editor, nor a kill.  Every access to the *)
(* file is a step of its own, and a write that is no rename leaves the file  *)
(* cut for an instant.  A run with a data_dir uses a file of that directory, *)
(* which it keeps.                                                           *)
EXTENDS Naturals, SequencesExt

CONSTANTS
  Sessions,    \* runs and sessions; also the unique names of their tool servers
  Names,       \* server names the callers use
  Values,      \* server specs the callers pass
  UserValues,  \* server specs the user writes
  Absent,      \* no such entry
  Nobody,      \* the lock is free
  MaxEdits,    \* edits by the user
  MaxKills     \* deaths of the program

ASSUME OverlayAssumption ==
  /\ Values \cap UserValues = {} /\ Absent \notin Values \union UserValues
  /\ Sessions \cap Names = {} /\ Nobody \notin Sessions
  /\ MaxEdits \in Nat /\ MaxKills \in Nat

VARIABLES
  file,      \* the global file and the data_dir's
  run,       \* per session: its state, its arguments and where it writes
  op,        \* what the holder of _MCP_LOCK does, and what it has read
  overlays,  \* _MCP_OVERLAYS: per name, the entry found and the layers over it
  wish,      \* what the user last wrote, per name
  raced,     \* names the user wrote while an operation had the file in hand
  orphans,   \* names a killed program had claimed
  edits, kills

vars == <<file, run, op, overlays, wish, raced, orphans, edits, kills>>

Paths == {"global", "scoped"}
Keys == Names \union Sessions
Server == Values \union UserValues \union Sessions \union {Absent}
NoEntries == [k \in Keys |-> Absent]
NoFile == [status |-> "none", entries |-> NoEntries]
File == [status : {"ok", "none", "bad"}, entries : [Keys -> Server]]
BadFile == [status |-> "bad", entries |-> NoEntries]
NoState == [original |-> Absent, layers |-> <<>>]
Free == [by |-> Nobody, at |-> "", stage |-> "", doc |-> NoEntries]

(* A session that has no arguments yet, or does not need them any more.      *)
Bare(state) == [at |-> state, path |-> "global", tools |-> FALSE,
                servers |-> [n \in Names |-> Absent]]

(* A file that does not parse counts as empty when servers are merged in.    *)
Parsed(f) == IF f.status = "ok" THEN f.entries ELSE NoEntries
Written(doc) == [status |-> "ok", entries |-> doc]

(* The entries that the caller's servers leave in `doc`.                     *)
Merged(doc, servers) ==
  [k \in Keys |-> IF k \in Names /\ servers[k] # Absent THEN servers[k] ELSE doc[k]]

Claims(s) == {n \in Names : run[s].servers[n] # Absent}

Init ==
  /\ \E u \in [Names -> UserValues \union {Absent}] :
       /\ wish = u
       /\ file = [p \in Paths |->
                    IF p = "scoped" \/ u = [n \in Names |-> Absent]
                    THEN NoFile
                    ELSE Written([k \in Keys |-> IF k \in Names THEN u[k] ELSE Absent])]
  /\ run = [s \in Sessions |-> Bare("new")]
  /\ op = Free /\ overlays = [n \in Names |-> NoState]
  /\ raced = {} /\ orphans = {} /\ edits = 0 /\ kills = 0

-----------------------------------------------------------------------------
(* Steps of the operation that holds the lock.                               *)

At(s, pc, stage) == op.by = s /\ op.at = pc /\ op.stage = stage
Goto(s, pc) == op' = [by |-> s, at |-> pc, stage |-> "read", doc |-> NoEntries]
Holds(pc, stage, doc) == op' = [op EXCEPT !.at = pc, !.stage = stage, !.doc = doc]
Leave(s, state) ==
  /\ op' = Free
  /\ run' = [run EXCEPT ![s] = IF state = "open" THEN [@ EXCEPT !.at = "open"] ELSE Bare(state)]
Quiet == UNCHANGED <<wish, raced, orphans, edits, kills>>

(* _inject_config(): first the tool server, then the caller's.               *)
Open(s, path, tools, servers) ==
  /\ op = Free /\ run[s].at = "new"
  /\ tools \/ \E n \in Names : servers[n] # Absent
  /\ run' = [run EXCEPT ![s] = [at |-> "opening", path |-> path, tools |-> tools,
                                servers |-> servers]]
  /\ Goto(s, IF tools THEN "tool" ELSE IF path = "global" THEN "look" ELSE "add")
  /\ UNCHANGED <<file, overlays>> /\ Quiet

(* write_mcp_config(), write_mcp_servers_json() and remove_mcp_config() read *)
(* the file, open it for writing, which cuts it, and dump the new entries.   *)
Read(s) ==
  /\ \/ \E pc \in {"tool", "add"} : At(s, pc, "read")
     \/ /\ At(s, "drop", "read")
        /\ file[run[s].path].status = "ok" /\ file[run[s].path].entries[s] # Absent
  /\ Holds(op.at, "cut", Parsed(file[run[s].path]))
  /\ UNCHANGED <<file, run, overlays>> /\ Quiet

Cut(s) ==
  /\ op.by = s /\ op.stage = "cut"
  /\ Holds(op.at, "dump", op.doc)
  /\ file' = [file EXCEPT ![run[s].path] = BadFile]
  /\ UNCHANGED <<run, overlays>> /\ Quiet

DumpTool(s) ==
  /\ At(s, "tool", "dump")
  /\ file' = [file EXCEPT ![run[s].path] = Written([op.doc EXCEPT ![s] = s])]
  /\ IF Claims(s) = {}
     THEN Leave(s, "open")
     ELSE Goto(s, IF run[s].path = "global" THEN "look" ELSE "add") /\ UNCHANGED run
  /\ UNCHANGED overlays /\ Quiet

(* A layer goes over the layers the program knows if the file still shows    *)
(* the last of them, and otherwise over the entry found.                     *)
\* Mutant: every run remembers the entry that it found.
CoveredAfresh(n, s) == [original |-> file["global"].entries[n], layers |-> <<s>>]

Covered(n, s) ==
  LET found == file["global"].entries[n]
      known == overlays[n].layers
  IN  IF known # <<>> /\ found = run[Last(known)].servers[n]
      THEN [overlays[n] EXCEPT !.layers = Append(@, s)]
      ELSE [original |-> found, layers |-> <<s>>]

(* _temporary_mcp_servers() reads what its servers will cover; a file that   *)
(* does not parse makes it raise, and the tool server is taken out again.    *)
Look(s) ==
  /\ At(s, "look", "read") /\ file["global"].status # "bad"
  /\ run' = [run EXCEPT ![s].at = "covering"]
  /\ overlays' = [n \in Names |-> IF n \in Claims(s) THEN Covered(n, s) ELSE overlays[n]]
  /\ Goto(s, "add")
  /\ UNCHANGED file /\ Quiet

LookRaises(s) ==
  /\ At(s, "look", "read") /\ file["global"].status = "bad"
  /\ IF run[s].tools THEN Goto(s, "drop") /\ UNCHANGED run ELSE Leave(s, "failed")
  /\ UNCHANGED <<file, overlays>> /\ Quiet

DumpServers(s) ==
  /\ At(s, "add", "dump")
  /\ file' = [file EXCEPT ![run[s].path] = Written(Merged(op.doc, run[s].servers))]
  /\ Leave(s, "open")
  /\ UNCHANGED overlays /\ Quiet

(* The cleanup of a run or session: its servers first, then the tool server. *)
Close(s) ==
  /\ op = Free /\ run[s].at = "open"
  /\ run' = [run EXCEPT ![s].at = "closing"]
  /\ Goto(s, IF run[s].path = "global" /\ Claims(s) # {} THEN "restore" ELSE "drop")
  /\ UNCHANGED <<file, overlays>> /\ Quiet

(* The layers but the session's, which is there once at most.                *)
Without(layers, s) ==
  IF \E i \in DOMAIN layers : layers[i] = s
    THEN RemoveAt(layers, CHOOSE i \in DOMAIN layers : layers[i] = s)
    ELSE layers

(* restore(): the session's layer goes; where it was on top of the layers    *)
(* that are still in force, and the file still shows it, what lies under it  *)
(* comes back.                                                               *)

\* Mutant: the layer on top is taken out without a look at the file.
ShowsTop(n, s) ==
  /\ overlays[n].layers # <<>> /\ Last(overlays[n].layers) = s
  /\ file["global"].status = "ok"

Under(n, s) ==
  LET below == Without(overlays[n].layers, s)
  IN  IF below # <<>> THEN run[Last(below)].servers[n] ELSE overlays[n].original

Shows(n, s) ==
  /\ overlays[n].layers # <<>> /\ Last(overlays[n].layers) = s
  /\ file["global"].status = "ok" /\ file["global"].entries[n] = run[s].servers[n]

Restore(s) ==
  /\ At(s, "restore", "read")
  /\ overlays' = [n \in Names |->
       LET rest == Without(overlays[n].layers, s)
       IN  IF rest = <<>> THEN NoState ELSE [overlays[n] EXCEPT !.layers = rest]]
  /\ LET back == {n \in Claims(s) : Shows(n, s)}
         doc == [k \in Keys |-> IF k \in back THEN Under(k, s)
                                ELSE file["global"].entries[k]]
     IN  IF back = {} THEN Goto(s, "drop") ELSE Holds("replace", "read", doc)
  /\ UNCHANGED <<file, run>> /\ Quiet

Replace(s) ==
  /\ At(s, "replace", "read")
  /\ file' = [file EXCEPT !["global"] = Written(op.doc)]
  /\ Goto(s, "drop")
  /\ UNCHANGED <<run, overlays>> /\ Quiet

Ended(s) == IF run[s].at = "opening" THEN "failed" ELSE "closed"

DumpWithout(s) ==
  /\ At(s, "drop", "dump")
  /\ file' = [file EXCEPT ![run[s].path] = Written([op.doc EXCEPT ![s] = Absent])]
  /\ Leave(s, Ended(s))
  /\ UNCHANGED overlays /\ Quiet

NothingToDrop(s) ==
  /\ At(s, "drop", "read")
  /\ file[run[s].path].status = "ok" => file[run[s].path].entries[s] = Absent
  /\ Leave(s, Ended(s))
  /\ UNCHANGED <<file, overlays>> /\ Quiet

-----------------------------------------------------------------------------
(* The user and the system.                                                  *)

Dumping == op.stage = "dump"

(* The names an operation has read and not yet written back.                 *)
InHand ==
  IF op = Free \/ run[op.by].path = "scoped" THEN {}
  ELSE IF op.stage = "cut" \/ op.at = "replace" THEN Names
  ELSE IF op.at = "add" THEN Claims(op.by) ELSE {}

(* The user saves the global file with one server set or removed, deletes it *)
(* or leaves it malformed; never in the instant that it is cut.              *)
Edits ==
  {NoFile, BadFile} \union
  {Written([Parsed(file["global"]) EXCEPT ![n] = u]) : n \in Names, u \in UserValues \union {Absent}}

Edit(f) ==
  /\ edits < MaxEdits /\ edits' = edits + 1
  /\ ~Dumping /\ f # file["global"]
  /\ file' = [file EXCEPT !["global"] = f]
  /\ LET touched == {n \in Names : f.entries[n] # Parsed(file["global"])[n]}
     IN  /\ wish' = [n \in Names |-> IF n \in touched THEN f.entries[n] ELSE wish[n]]
         /\ raced' = (raced \ touched) \union (touched \cap InHand)
  /\ UNCHANGED <<run, op, overlays, orphans, kills>>

(* The program is killed and another one starts: memory is gone, the file    *)
(* stays as it is.                                                           *)
Kill ==
  /\ kills < MaxKills /\ kills' = kills + 1
  /\ op' = Free /\ overlays' = [n \in Names |-> NoState]
  /\ orphans' = orphans \union
       (IF Dumping /\ run[op.by].path = "global" THEN Names
        ELSE {n \in Names : \E s \in Sessions :
                run[s].at \in {"covering", "open", "closing"} /\ n \in Claims(s)})
  /\ run' = [s \in Sessions |->
               IF run[s].at \in {"opening", "covering", "open", "closing"}
               THEN Bare("killed") ELSE run[s]]
  /\ UNCHANGED <<file, wish, raced, edits>>

Next ==
  \/ \E s \in Sessions :
       \/ \E path \in Paths, tools \in BOOLEAN, servers \in [Names -> Values \union {Absent}] :
            Open(s, path, tools, servers)
       \/ Read(s) \/ Cut(s) \/ DumpTool(s) \/ Look(s) \/ LookRaises(s) \/ DumpServers(s)
       \/ Close(s) \/ Restore(s) \/ Replace(s) \/ DumpWithout(s) \/ NothingToDrop(s)
  \/ \E f \in Edits : Edit(f)
  \/ Kill

Spec == Init /\ [][Next]_vars

-----------------------------------------------------------------------------
(* Properties.                                                               *)

TypeOK ==
  /\ file \in [Paths -> File]
  /\ overlays \in [Names -> [original : Server, layers : Seq(Sessions)]]
  /\ wish \in [Names -> UserValues \union {Absent}]
  /\ raced \subseteq Names /\ orphans \subseteq Names
  /\ op.by \in Sessions \union {Nobody} /\ op.doc \in [Keys -> Server]

Running(s) == run[s].at = "open" /\ run[s].path = "global"

(* No run leaves a server behind: whenever no registration or cleanup is     *)
(* under way, a server of a caller in the global file belongs to a run that  *)
(* is open, whatever order runs opened and closed in and whatever the user   *)
(* wrote meanwhile; and no run that ended left its tool server in either     *)
(* file.                                                                     *)
NoLeftovers ==
  op = Free =>
    /\ \A n \in Names \ orphans :
         file["global"].entries[n] \in Values => \E s \in Sessions : Running(s) /\ n \in Claims(s)
    /\ \A s \in Sessions, p \in Paths :
         run[s].at \in {"closed", "failed"} => file[p].entries[s] = Absent

(* What the user wrote is there again when the last run has closed, even if  *)
(* a run had covered it, unless the edit fell between an operation's reading *)
(* and its writing, or a killed program left its servers over it.            *)
UserEditsKept ==
  op = Free /\ ~(\E s \in Sessions : Running(s)) =>
    \A n \in Names \ (raced \union orphans) : file["global"].entries[n] = wish[n]
=============================================================================
