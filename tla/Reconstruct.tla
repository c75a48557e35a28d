----------------------------- MODULE Reconstruct -----------------------------
(* Rebuilding agy and Claude Code on a user's machine                        *)
(* (tasksolver/reconstruct.py).  A released package contains neither.  The   *)
(* helper runs from a checkout, finds the pinned executables on the machine, *)
(* copies them to the build's cache, rebuilds, and installs into the         *)
(* environment that holds the package.  Executables update themselves        *)
(* meanwhile, steps fail, and the helper may be killed.                      *)
EXTENDS RuntimeAdoption

CONSTANTS
  Nothing,   \* no file
  Modified   \* a file that is no release

VARIABLES
  checkout,   \* the pins and the SDK of the checkout
  found,      \* the executables the machine has, per runtime
  cache,      \* the build's pinned inputs: the content under the pinned digest
  target,     \* the environment: its SDK, agy's library and host, claude's bundle
  rec,        \* where the helper stands, and what it has selected
  had         \* a Claude Code was installed in the environment

rvars == <<checkout, found, cache, target, rec, had>>

Rebuilt == {"agy", "claude"}
Content == Version \union {Modified}

ASSUME ReconstructAssumption ==
  Rebuilt \subseteq Runtimes /\ Nothing \notin Content /\ Modified \notin Version

NotRun == [at |-> "idle", jobs |-> {}, left |-> {}, binary |-> Nothing, ok |-> FALSE, previous |-> Nothing]
Pinned(r) == IF r = "agy" THEN checkout.pin["agy"] ELSE checkout.pin["claude-cli"]

(* The environment of a package that was just installed.                     *)
Package(files) ==
  [sdk |-> files.tree["claude"].at, lib |-> Nothing, host |-> Nothing, bundled |-> Nothing]

RInit ==
  /\ checkout = head /\ target = Package(head)
  /\ found = [r \in Rebuilt |-> 0] /\ cache = [r \in Rebuilt |-> Nothing]
  /\ rec = NotRun /\ had = FALSE

Goto(pc) == rec' = [rec EXCEPT !.at = pc]
RIdle == rec.at = "idle"

-----------------------------------------------------------------------------
(* The user's machine.                                                       *)

(* The user takes a release: the checkout moves to it, or the package does.  *)
Pull ==
  /\ RIdle /\ checkout # head
  /\ checkout' = head /\ rec' = NotRun
  /\ cache' = [r \in Rebuilt |-> IF cache[r] = Pinned(r)' THEN cache[r] ELSE Nothing]
  /\ UNCHANGED <<found, target, had, trouble>>

InstallPackage ==
  /\ RIdle /\ target # Package(head)
  /\ target' = Package(head) /\ rec' = NotRun /\ had' = FALSE
  /\ UNCHANGED <<checkout, found, cache, trouble>>

(* An executable is updated or patched in place, even while it is copied.    *)
SelfUpdate(r, content) ==
  /\ Trouble
  /\ content # found[r] /\ found' = [found EXCEPT ![r] = content]
  /\ UNCHANGED <<checkout, cache, target, rec, had>>

-----------------------------------------------------------------------------
(* main(): the checks, every input, then build and install one by one.       *)

(* claude_job() refuses a target whose SDK is not the checkout's.            *)
Accepts(jobs) == "claude" \in jobs => target.sdk = checkout.tree["claude"].at

Start(jobs) ==
  /\ RIdle /\ jobs # {} /\ Accepts(jobs)
  /\ rec' = [NotRun EXCEPT !.at = "inputs", !.jobs = jobs, !.left = jobs]
  /\ UNCHANGED <<checkout, found, cache, target, had, trouble>>

(* select() takes the cached input, or an executable that verifies.          *)
Select(r) ==
  /\ rec.at = "inputs" /\ r \in rec.left
  /\ \/ cache[r] = Pinned(r) /\ rec' = [rec EXCEPT !.left = @ \ {r}]
     \/ cache[r] # Pinned(r) /\ found[r] = Pinned(r) /\ rec' = [rec EXCEPT !.at = "seed", !.binary = r]
     \/ Pinned(r) \notin {cache[r], found[r]} /\ rec' = NotRun
  /\ UNCHANGED <<checkout, found, cache, target, had, trouble>>

(* seed() copies it, verifies the copy and puts it in the cache.             *)
\* Mutant: what was verified before it was copied is not verified again.
SeededUnchecked(r) == TRUE

Seeded(r) == found[r] = Pinned(r)

Seed ==
  LET r == rec.binary IN
  /\ rec.at = "seed"
  /\ IF Seeded(r)
     THEN cache' = [cache EXCEPT ![r] = found[r]] /\ rec' = [rec EXCEPT !.at = "inputs", !.left = @ \ {r}]
     ELSE rec' = NotRun /\ UNCHANGED cache
  /\ UNCHANGED <<checkout, found, target, had, trouble>>

(* Build agy from the cache and install it: the library, then the host.      *)
InputsDone == rec.at = "inputs" /\ rec.left = {}

InstallLibrary ==
  /\ InputsDone /\ "agy" \in rec.jobs
  /\ target' = [target EXCEPT !.lib = cache["agy"]] /\ Goto("host")
  /\ UNCHANGED <<checkout, found, cache, had, trouble>>

InstallHost ==
  /\ rec.at = "host"
  /\ target' = [target EXCEPT !.host = cache["agy"]]
  /\ Goto(IF "claude" \in rec.jobs THEN "bundle" ELSE "done")
  /\ UNCHANGED <<checkout, found, cache, had, trouble>>

(* install_claude(): the verified runtime is staged beside the old one, the  *)
(* old one is renamed away, the new one takes its place.                     *)
RenameAway ==
  /\ rec.at = "bundle" \/ (InputsDone /\ rec.jobs = {"claude"})
  /\ rec' = [rec EXCEPT !.at = "swap", !.previous = target.bundled]
  /\ target' = [target EXCEPT !.bundled = Nothing]
  /\ UNCHANGED <<checkout, found, cache, had, trouble>>

RenameIn ==
  /\ rec.at = "swap"
  /\ target' = [target EXCEPT !.bundled = cache["claude"]]
  /\ Goto("done") /\ had' = TRUE
  /\ UNCHANGED <<checkout, found, cache, trouble>>

(* Done: what the helper reports, until something is installed anew.         *)
Finish ==
  /\ rec.at = "done"
  /\ rec' = [NotRun EXCEPT !.ok = TRUE, !.jobs = rec.jobs]
  /\ UNCHANGED <<checkout, found, cache, target, had, trouble>>

(* A step fails: a build, a copy, or the rename of the new runtime, after    *)
(* which the previous one is renamed back.                                   *)
\* Mutant: the previous runtime goes with the staging directory.
PutBackNothing == target.bundled

PutBack == IF rec.at = "swap" THEN rec.previous ELSE target.bundled

StepFails ==
  /\ rec.at \in {"inputs", "seed", "host", "bundle", "swap"}
  /\ Trouble
  /\ target' = [target EXCEPT !.bundled = PutBack]
  /\ rec' = NotRun
  /\ UNCHANGED <<checkout, found, cache, had>>

(* The helper is killed: between the two renames the runtime is lost.        *)
Killed ==
  /\ ~RIdle /\ Trouble
  /\ rec' = NotRun /\ had' = (had /\ rec.at # "swap")
  /\ UNCHANGED <<checkout, found, cache, target>>

ReconstructNext ==
  \/ Pull \/ InstallPackage
  \/ \E r \in Rebuilt, content \in Content : SelfUpdate(r, content)
  \/ \E jobs \in SUBSET Rebuilt : Start(jobs)
  \/ \E r \in Rebuilt : Select(r)
  \/ Seed \/ InstallLibrary \/ InstallHost \/ RenameAway \/ RenameIn \/ Finish
  \/ StepFails \/ Killed

-----------------------------------------------------------------------------
(* Properties.                                                               *)

(* A helper that reports success installed what the checkout pins: agy's     *)
(* host and library from one release, and a Claude Code that is not older    *)
(* than the one the environment's SDK bundles.                               *)
SuccessMatchesPins ==
  RIdle /\ rec.ok =>
    /\ "agy" \in rec.jobs => target.lib = checkout.pin["agy"] /\ target.host = target.lib
    /\ "claude" \in rec.jobs =>
         target.bundled = checkout.pin["claude-cli"] /\ target.bundled >= Bundled(target.sdk)

(* A Claude Code that was installed stays until another one, or another      *)
(* package, takes its place: a reconstruction that fails puts it back.       *)
BundleKept == had /\ rec.at # "swap" => target.bundled # Nothing
=============================================================================
