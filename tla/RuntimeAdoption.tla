--------------------------- MODULE RuntimeAdoption ---------------------------
(* How new upstream releases of the agent runtimes come into the repository: *)
(* tools/runtimes.py, and the workflow that runs it and publishes.           *)
(*                                                                           *)
(* A runtime has one pin file, and all but agy have a vendored tree; claude  *)
(* has two parts, its SDK (the tree) and its CLI.  A run checks upstream,    *)
(* adopts each outdated runtime in turn, sets a failed adoption aside, and   *)
(* releases what is left if it builds.  An issue holds a runtime whose       *)
(* adoption needs hand work at the versions that the issue names.  Upstream  *)
(* publishes and withdraws releases at any time, so a run may adopt another  *)
(* release than the one its check saw.                                       *)
EXTENDS Naturals, FiniteSets

CONSTANTS
  Runtimes,      \* of "agy", "codex", "claude" and "kimi"
  MaxVersion,    \* releases of a part are 0..MaxVersion
  MaxTrouble     \* withdrawn releases, failures, lost runs, issues closed by hand

ASSUME AdoptionAssumption ==
  /\ Runtimes \subseteq {"agy", "codex", "claude", "kimi"}
  /\ MaxVersion \in Nat /\ MaxTrouble \in Nat

VARIABLES
  latest,   \* the newest release of each part upstream
  head,     \* pins, trees and documented versions on the main branch
  work,     \* the same in the run's work tree
  job,      \* where the run stands
  issues,   \* open issues: each the set of targets in its title
  moved,    \* main gained code since the run began
  trouble    \* what went wrong so far

avars == <<latest, head, work, job, issues, moved, trouble>>

Trouble == trouble < MaxTrouble /\ trouble' = trouble + 1

Parts(r) == IF r = "claude" THEN {"claude-sdk", "claude-cli"} ELSE {r}
Main(r) == IF r = "claude" THEN "claude-sdk" ELSE r
Components == UNION {Parts(r) : r \in Runtimes}
Trees == Runtimes \ {"agy"}
Version == 0..MaxVersion
Target == Components \X Version
Files == [pin : [Components -> Version], tree : [Trees -> [at : Version, markers : BOOLEAN, hooks : 0..3]],
          docs : [Components -> Version]]
Idle == [at |-> "idle", doing |-> "", todo |-> {}, targets |-> {}, adopted |-> {}, hand |-> FALSE]

(* The CLI that an SDK bundles was released with it.                         *)
Bundled(sdk) == sdk

(* A repository in which everything is at the releases that `pin` names.     *)
Whole(pin) == [pin |-> pin, docs |-> pin,
               tree |-> [r \in Trees |-> [at |-> pin[Main(r)], markers |-> FALSE, hooks |-> 1]]]

(* Between runs there is no work tree.                                       *)
NoTree == Whole([c \in Components |-> 0])
End == job' = Idle /\ work' = NoTree

Init ==
  /\ latest = [c \in Components |-> 0]
  /\ head = Whole(latest) /\ work = NoTree /\ job = Idle /\ issues = {} /\ moved = FALSE
  /\ trouble = 0

-----------------------------------------------------------------------------
(* check: the outdated parts, without the runtimes that issues hold.         *)

Outdated == {c \in Components : latest[c] > head.pin[c]}
Targets(cs) == {<<c, latest[c]>> : c \in cs}
Held == UNION issues

\* Mutant: one target that an issue names holds the whole runtime.
HoldsAny(r) == Targets(Outdated \cap Parts(r)) \cap Held # {}

Holds(r) == Targets(Outdated \cap Parts(r)) \subseteq Held

Adoptable == {c \in Outdated : \A r \in Runtimes : c \in Parts(r) => ~Holds(r)}

Check ==
  /\ job = Idle /\ Adoptable # {}
  /\ work' = head /\ moved' = FALSE
  /\ job' = [Idle EXCEPT !.at = "next", !.targets = Targets(Adoptable),
               !.todo = {r \in Runtimes : Parts(r) \cap Adoptable # {}}]
  /\ UNCHANGED <<latest, head, issues, trouble>>

At(pc) == job.at = pc
Outside == UNCHANGED <<latest, head, moved>>

Next1(r) ==
  /\ At("next") /\ r \in job.todo
  /\ job' = [job EXCEPT !.at = IF r = "agy" THEN "agy" ELSE "tree", !.doing = r, !.todo = @ \ {r}]
  /\ UNCHANGED <<work, issues, trouble>> /\ Outside

(* adopt_agy() pins whatever the manifest serves.                            *)
AdoptAgy ==
  /\ At("agy")
  /\ work' = [work EXCEPT !.pin["agy"] = latest["agy"]]
  /\ job' = [job EXCEPT !.at = "docs"]
  /\ UNCHANGED <<issues, trouble>> /\ Outside

(* The files that the patch of a tree changes: lock files that a build        *)
(* writes again, files that only carry TaskSolver's lines, and others.        *)
Regenerated(r) == IF r = "codex" THEN {"lock"} ELSE {}
Hooked(r) == IF r = "kimi" THEN {"hooked"} ELSE {}
Patched(r) == Regenerated(r) \union Hooked(r) \union {"other"}

(* A hooked file of a release: how many of its lines match an anchor, and     *)
(* whether it has the anchor's line of TaskSolver already.                    *)
Texts == [anchors : 0..2, there : {0, 1}]

\* Mutant: the line goes to every match.
ApplyHooksAnywhere(text) == text.anchors > 0

(* apply_hooks() takes one match only, and never a second line.               *)
ApplyHooks(text) == text.anchors = 1 /\ text.there = 0

(* merge() replays the patch on the new release.  Of the files in conflict it *)
(* takes upstream's lock files, puts TaskSolver's lines back into upstream's  *)
(* copy of a hooked file, and leaves the others with conflict markers.        *)
Rehooked(r, conflicts, text) == {f \in conflicts \intersect Hooked(r) : ApplyHooks(text)}
Merged(r, conflicts, text) ==
  LET rehooked == Rehooked(r, conflicts, text) IN
  [at |-> latest[Main(r)],
   markers |-> conflicts \ (Regenerated(r) \union rehooked) # {},
   hooks |-> IF rehooked # {} THEN text.there + text.anchors ELSE 1]
Merges(r) == {Merged(r, conflicts, text) : conflicts \in SUBSET Patched(r), text \in Texts}

(* adopt_tree() fetches, merges and checks the merged tree out, which may    *)
(* have conflict markers, and saves the pin after that.  It refuses the      *)
(* release that is pinned; adopt_claude() only moves on to the CLI then.     *)
AdoptTree ==
  LET r == job.doing IN
  /\ At("tree") /\ latest[Main(r)] # work.pin[Main(r)]
  /\ \E tree \in Merges(r) : work' = [work EXCEPT !.tree[r] = tree]
  /\ job' = [job EXCEPT !.at = "pin"]
  /\ UNCHANGED <<issues, trouble>> /\ Outside

SavePin ==
  LET r == job.doing IN
  /\ At("pin")
  /\ work' = [work EXCEPT !.pin[Main(r)] = work.tree[r].at]
  /\ job' = [job EXCEPT !.at = IF r = "claude" /\ ~work.tree[r].markers THEN "cli" ELSE "docs"]
  /\ UNCHANGED <<issues, trouble>> /\ Outside

SameTree ==
  LET r == job.doing IN
  /\ At("tree") /\ latest[Main(r)] = work.pin[Main(r)]
  /\ job' = IF r = "claude" THEN [job EXCEPT !.at = "cli"] ELSE [job EXCEPT !.at = "shelve", !.hand = TRUE]
  /\ UNCHANGED <<work, issues, trouble>> /\ Outside

(* The rest of adopt_claude(): the CLI is the latest, or the one that the    *)
(* SDK bundles where that is newer.                                          *)
NewCli == LET bundled == Bundled(work.tree["claude"].at)
          IN  IF latest["claude-cli"] > bundled THEN latest["claude-cli"] ELSE bundled

AdoptCli ==
  /\ At("cli")
  /\ work' = [work EXCEPT !.pin["claude-cli"] = NewCli]
  /\ job' = IF work.pin["claude-sdk"] = head.pin["claude-sdk"] /\ NewCli = work.pin["claude-cli"]
            THEN [job EXCEPT !.at = "shelve", !.hand = TRUE] ELSE [job EXCEPT !.at = "docs"]
  /\ UNCHANGED <<issues, trouble>> /\ Outside

(* sync_docs() writes the pinned versions; a conflict fails the adoption     *)
(* after that.                                                               *)
Docs ==
  LET r == job.doing
      conflict == r \in Trees /\ work.tree[r].markers
  IN
  /\ At("docs")
  /\ work' = [work EXCEPT !.docs = work.pin]
  /\ job' = IF conflict THEN [job EXCEPT !.at = "shelve", !.hand = TRUE]
            ELSE [job EXCEPT !.at = "next", !.adopted = @ \union {r}]
  /\ UNCHANGED <<issues, trouble>> /\ Outside

(* The network or an upstream service fails (exit 75), or what it delivers   *)
(* does not verify.                                                          *)
AdoptFails(hand) ==
  /\ job.at \in {"agy", "tree", "cli"} /\ Trouble
  /\ job' = [job EXCEPT !.at = "shelve", !.hand = hand]
  /\ UNCHANGED <<work, issues>> /\ Outside

(* shelve() restores the runtime's paths and syncs the documented versions;  *)
(* for hand work the attempt goes to a branch and an issue is opened.        *)
OfRuntimes(rs) == {t \in job.targets : \E r \in rs : t[1] \in Parts(r)}

\* Mutant: the tree stays as the failed adoption left it.
RestoredPin(r) ==
  LET pin == [c \in Components |-> IF c \in Parts(r) THEN head.pin[c] ELSE work.pin[c]]
  IN  [pin |-> pin, docs |-> pin, tree |-> work.tree]

Restored(r) ==
  LET pin == [c \in Components |-> IF c \in Parts(r) THEN head.pin[c] ELSE work.pin[c]]
  IN  [pin |-> pin, docs |-> pin,
       tree |-> [t \in Trees |-> IF t = r THEN head.tree[t] ELSE work.tree[t]]]

Shelve(r) ==
  /\ At("shelve") /\ r = job.doing
  /\ work' = Restored(r)
  /\ issues' = IF job.hand THEN issues \union {OfRuntimes({r})} ELSE issues
  /\ job' = [job EXCEPT !.at = "next", !.hand = FALSE]
  /\ UNCHANGED trouble /\ Outside

(* After the last runtime: build, test and push what was adopted, unless     *)
(* main gained code meanwhile.                                               *)
Ready == At("next") /\ job.todo = {}

Release ==
  /\ Ready /\ ~moved /\ job.adopted # {}
  /\ head' = work /\ End
  /\ UNCHANGED <<latest, issues, moved, trouble>>

NoRelease ==
  /\ Ready /\ (moved \/ job.adopted = {})
  /\ End
  /\ UNCHANGED <<issues, trouble>> /\ Outside

BuildFails ==
  /\ Ready /\ job.adopted # {} /\ Trouble
  /\ issues' = issues \union {OfRuntimes(job.adopted)} /\ End
  /\ Outside

(* The runner is lost, or the run is cancelled.                              *)
RunLost ==
  /\ job # Idle /\ Trouble /\ End
  /\ UNCHANGED issues /\ Outside

(* The world.                                                                *)
Publish(c) ==
  /\ latest[c] < MaxVersion
  /\ latest' = [latest EXCEPT ![c] = @ + 1]
  /\ UNCHANGED <<head, work, job, issues, moved, trouble>>

Withdraw(c) ==
  /\ latest[c] > 0 /\ Trouble
  /\ latest' = [latest EXCEPT ![c] = @ - 1]
  /\ UNCHANGED <<head, work, job, issues, moved>>

(* Someone closes an issue, so that its targets are tried again, or merges   *)
(* the finished adoption.                                                    *)
CloseIssue(i) ==
  /\ i \in issues /\ Trouble
  /\ issues' = issues \ {i}
  /\ UNCHANGED <<latest, head, work, job, moved>>

HandWork(i) ==
  LET sdks == {t[2] : t \in {t \in i : t[1] = "claude-sdk"}}
      pin == [c \in Components |->
                LET new == {t[2] : t \in {t \in i : t[1] = c}}
                           \union (IF c = "claude-cli" THEN {Bundled(v) : v \in sdks} ELSE {})
                           \union {head.pin[c]}
                IN  CHOOSE v \in new : \A w \in new : w <= v]
  IN
  /\ i \in issues /\ Trouble
  /\ issues' = issues \ {i} /\ moved' = (job # Idle)
  /\ head' = Whole(pin)
  /\ UNCHANGED <<latest, work, job>>

RunStep ==
  \/ \E r \in Runtimes : Next1(r) \/ Shelve(r)
  \/ AdoptAgy \/ AdoptTree \/ SavePin \/ SameTree \/ AdoptCli \/ Docs \/ Release \/ NoRelease

AdoptionNext ==
  \/ Check \/ RunStep
  \/ \E hand \in BOOLEAN : AdoptFails(hand)
  \/ BuildFails \/ RunLost
  \/ \E c \in Components : Publish(c) \/ Withdraw(c)
  \/ \E i \in issues : CloseIssue(i) \/ HandWork(i)

(* The workflow runs twice a day, and a run goes on.                         *)
AdoptionFairness == WF_avars(Check) /\ WF_avars(RunStep)

-----------------------------------------------------------------------------
(* Properties.                                                               *)

Consistent(files) ==
  /\ files = Whole(files.pin)
  /\ "claude" \in Runtimes => files.pin["claude-cli"] >= Bundled(files.pin["claude-sdk"])

(* What is on main belongs together: each tree is at the release its pin     *)
(* names, free of conflict markers and with TaskSolver's lines in it once,   *)
(* the documents name the pinned versions, and Claude Code is at least as    *)
(* new as the one its SDK bundles, whatever failed on the way and whatever   *)
(* upstream withdrew.                                                        *)
ReleasedIsConsistent == Consistent(head)

(* Every upstream release is dealt with: in the end main has it or a newer   *)
(* one, or an open issue names it.                                           *)
ReleasesHandled ==
  \A c \in Components : <>[](latest[c] <= head.pin[c] \/ <<c, latest[c]>> \in Held)
=============================================================================
