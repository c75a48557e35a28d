------------------------ MODULE RuntimeReleaseProofs ------------------------
(***************************************************************************)
(* Theorems about RuntimeRelease, for any set of runtimes and any number   *)
(* of releases and of troubles.                                            *)
(*                                                                         *)
(* On the workflow's side the invariant says what the adoption in hand has *)
(* done to the work tree: everything but the runtime in hand belongs       *)
(* together, and of that one as much as its stage has brought about.  On   *)
(* the machine's side it says that the inputs which the helper has         *)
(* verified stay those of the checkout until they are installed.           *)
(***************************************************************************)
EXTENDS RuntimeRelease, WellFoundedInduction, TLAPS

----------------------------------------------------------------------------
(* The inductive invariant.                                                *)

Stages == {"idle", "next", "agy", "tree", "pin", "cli", "docs", "shelve"}
Steps  == {"idle", "inputs", "seed", "host", "bundle", "swap", "done"}

\* What is on main, in the run's work tree and in the user's checkout, and
\* where the run and the helper stand.
FilesType ==
  /\ latest \in [Components -> Version]
  /\ head \in Files /\ work \in Files /\ checkout \in Files
  /\ issues \in SUBSET SUBSET Target

JobType ==
  job \in [at : Stages, doing : Runtimes \cup {""}, todo : SUBSET Runtimes,
           targets : SUBSET Target, adopted : SUBSET Runtimes, hand : BOOLEAN]

MachineType ==
  /\ found \in [Rebuilt -> Content] /\ cache \in [Rebuilt -> Content \cup {Nothing}]
  /\ target \in [sdk : Version, lib : Content \cup {Nothing}, host : Content \cup {Nothing},
                 bundled : Content \cup {Nothing}]
  /\ rec \in [at : Steps, jobs : SUBSET Rebuilt, left : SUBSET Rebuilt,
              binary : Rebuilt \cup {Nothing}, ok : BOOLEAN, previous : Content \cup {Nothing}]
  /\ had \in BOOLEAN

\* A tree is at the release its pin names, merged and hooked.
Settled(files, r) == files.tree[r] = [at |-> files.pin[Main(r)], markers |-> FALSE, hooks |-> 1]

CliNotOlder(files) == files.pin["claude-cli"] >= Bundled(files.pin["claude-sdk"])

\* The files belong together but for those of the runtime r, and the documents.
RestOf(files, r) ==
  /\ \A t \in Trees \ {r} : Settled(files, t)
  /\ "claude" \in Runtimes \ {r} => CliNotOlder(files)

\* What an adoption has done so far to the work tree.
AdoptionInv ==
  /\ job.at \in {"next", "agy", "tree"} => Consistent(work)
  /\ job.at \notin {"idle", "next"} => job.doing \in Runtimes /\ RestOf(work, job.doing)
  /\ job.at = "agy" => job.doing = "agy"
  /\ job.at \in {"tree", "pin"} => job.doing \in Trees
  /\ job.at = "pin" => work.tree[job.doing].hooks = 1
  /\ job.at = "cli" => job.doing = "claude" /\ Settled(work, "claude")
  /\ job.at = "docs" /\ job.doing \in Trees =>
       /\ work.tree[job.doing].at = work.pin[Main(job.doing)]
       /\ work.tree[job.doing].hooks = 1
       /\ job.doing = "claude" /\ ~work.tree["claude"].markers => CliNotOlder(work)

\* The pinned inputs that the helper has selected stay in the build's cache,
\* and what it has installed so far is of the checkout's releases.
Installing == {"host", "bundle", "swap", "done"}

HelperInv ==
  /\ Consistent(checkout)
  /\ ~RIdle =>
       /\ rec.left \subseteq rec.jobs /\ Accepts(rec.jobs) /\ ~rec.ok
       /\ \A r \in rec.jobs \ rec.left : cache[r] = Pinned(r)
  /\ rec.at = "seed" => rec.binary \in rec.left
  /\ rec.at \in Installing => rec.left = {}
  /\ rec.at = "host" => "agy" \in rec.jobs /\ target.lib = checkout.pin["agy"]
  /\ rec.at \in {"bundle", "swap", "done"} /\ "agy" \in rec.jobs =>
       target.lib = checkout.pin["agy"] /\ target.host = target.lib
  /\ rec.at \in {"bundle", "swap"} => "claude" \in rec.jobs
  /\ rec.at = "done" /\ "claude" \in rec.jobs => target.bundled = checkout.pin["claude-cli"]

\* A Claude Code that is renamed away is not forgotten.
PreviousInv == had /\ rec.at = "swap" => rec.previous # Nothing

ReleaseInv == /\ FilesType /\ JobType /\ MachineType
              /\ ReleasedIsConsistent /\ AdoptionInv
              /\ HelperInv /\ SuccessMatchesPins
              /\ PreviousInv /\ BundleKept

----------------------------------------------------------------------------
(* Numbers, runtimes and files.                                            *)

\* A set of natural numbers has a smallest one.
LEMMA Smallest ==
  ASSUME NEW S, S \subseteq Nat, S # {}
  PROVE  \E v \in S : \A w \in S : v <= w
<1> DEFINE R == OpToRel(<, Nat)
<1>1. IsWellFoundedOn(R, Nat)
  BY NatLessThanWellFounded
<1>2. \A x, y \in Nat : x < y => <<x, y>> \in R
  BY DEF OpToRel
<1> HIDE DEF R
<1>3. PICK x \in S : \A y \in S : <<y, x>> \notin R
  BY <1>1, WFMin
<1>4. \A y \in S : ~(y < x)
  BY <1>2, <1>3
<1>5. \A y \in S : x <= y
  BY <1>4
<1>6. QED
  BY <1>5

\* A set of releases has a newest one.
LEMMA Newest ==
  ASSUME NEW S, S \subseteq Version, S # {}
  PROVE  \E v \in S : \A w \in S : w <= v
<1> DEFINE D == {n \in 0..MaxVersion : MaxVersion - n \in S}
<1>0. MaxVersion \in Nat /\ S \subseteq 0..MaxVersion
  BY AdoptionAssumption DEF Version
<1>1. \A v \in S : MaxVersion - v \in 0..MaxVersion /\ MaxVersion - (MaxVersion - v) = v
  BY <1>0
<1>2. \A v \in S : MaxVersion - v \in D
  BY <1>1
<1>3. D \subseteq Nat
  BY <1>0
<1>4. D # {}
  BY <1>2
<1> HIDE DEF D
<1>5. PICK d \in D : \A e \in D : d <= e
  BY <1>3, <1>4, Smallest
<1>6. MaxVersion - d \in S /\ d \in 0..MaxVersion
  BY DEF D
<1>7. \A w \in S : d <= MaxVersion - w /\ w \in 0..MaxVersion
  BY <1>0, <1>2, <1>5
<1>8. \A w \in S : w <= MaxVersion - d
  BY <1>0, <1>6, <1>7
<1>9. QED
  BY <1>6, <1>8

\* Every part belongs to one runtime.
LEMMA PartFacts ==
  /\ \A r \in Runtimes : Main(r) \in Parts(r) /\ Parts(r) \subseteq Components
  /\ \A r, t \in Runtimes, c \in Components : c \in Parts(r) /\ c \in Parts(t) => r = t
  /\ Trees \subseteq Runtimes /\ "agy" \notin Trees
  /\ "claude" \in Runtimes => "claude" \in Trees /\ {"claude-sdk", "claude-cli"} \subseteq Components
  /\ Parts("claude") = {"claude-sdk", "claude-cli"} /\ Main("claude") = "claude-sdk"
<1>1. \A r \in Runtimes : r \in {"agy", "codex", "claude", "kimi"}
  BY AdoptionAssumption
<1>2. \A r \in Runtimes : Main(r) \in Parts(r) /\ Parts(r) \subseteq Components
  BY DEF Main, Parts, Components
<1>3. \A r, t \in Runtimes, c \in Components : c \in Parts(r) /\ c \in Parts(t) => r = t
  BY <1>1 DEF Parts
<1>4. Trees \subseteq Runtimes /\ "agy" \notin Trees
  BY DEF Trees
<1>5. "claude" \in Runtimes => "claude" \in Trees /\ {"claude-sdk", "claude-cli"} \subseteq Components
  BY <1>2 DEF Trees, Parts
<1>6. Parts("claude") = {"claude-sdk", "claude-cli"} /\ Main("claude") = "claude-sdk"
  BY DEF Parts, Main
<1>7. QED
  BY <1>2, <1>3, <1>4, <1>5, <1>6

Tree == [at : Version, markers : BOOLEAN, hooks : 0..3]

\* A repository at given releases.
LEMMA WholeFacts ==
  ASSUME NEW pin \in [Components -> Version]
  PROVE  /\ Whole(pin) \in Files /\ Whole(pin).pin = pin /\ Whole(pin).docs = pin
         /\ \A r \in Trees : Settled(Whole(pin), r)
<1>1. \A r \in Trees : Main(r) \in Components
  BY PartFacts
<1>2. \A r \in Trees : [at |-> pin[Main(r)], markers |-> FALSE, hooks |-> 1] \in Tree
  BY <1>1 DEF Tree
<1>3. [r \in Trees |-> [at |-> pin[Main(r)], markers |-> FALSE, hooks |-> 1]] \in [Trees -> Tree]
  BY <1>2
<1>4. QED
  BY <1>3 DEF Whole, Files, Settled, Tree

\* What it means that files belong together.
LEMMA ConsistentMeans ==
  ASSUME NEW files \in Files
  PROVE  Consistent(files) <=> /\ files.docs = files.pin
                               /\ \A r \in Trees : Settled(files, r)
                               /\ "claude" \in Runtimes => CliNotOlder(files)
<1>1. /\ files.pin \in [Components -> Version] /\ files.docs \in [Components -> Version]
      /\ files.tree \in [Trees -> Tree]
      /\ files = [pin |-> files.pin, tree |-> files.tree, docs |-> files.docs]
  BY DEF Files, Tree
<1>2. /\ Whole(files.pin).pin = files.pin /\ Whole(files.pin).docs = files.pin
      /\ \A r \in Trees : Settled(Whole(files.pin), r)
  BY <1>1, WholeFacts
<1>3. ASSUME files = Whole(files.pin)
      PROVE  files.docs = files.pin /\ \A r \in Trees : Settled(files, r)
  BY <1>2, <1>3
<1>4. ASSUME files.docs = files.pin, \A r \in Trees : Settled(files, r)
      PROVE  files = Whole(files.pin)
  <2>1. files.tree = [r \in Trees |-> [at |-> files.pin[Main(r)], markers |-> FALSE, hooks |-> 1]]
    BY <1>1, <1>4 DEF Settled
  <2>2. QED
    BY <1>1, <1>4, <2>1 DEF Whole
<1>5. QED
  BY <1>3, <1>4 DEF Consistent, CliNotOlder

\* The files of a new pin, of a new tree and of synced documents.
LEMMA FilesUpdates ==
  ASSUME NEW files \in Files
  PROVE  /\ files.pin \in [Components -> Version] /\ files.tree \in [Trees -> Tree]
         /\ \A c \in Components, v \in Version :
              LET g == [files EXCEPT !.pin[c] = v]
              IN  /\ g \in Files /\ g.pin = [files.pin EXCEPT ![c] = v]
                  /\ g.tree = files.tree /\ g.docs = files.docs
         /\ \A r \in Trees, tree \in Tree :
              LET g == [files EXCEPT !.tree[r] = tree]
              IN  /\ g \in Files /\ g.tree = [files.tree EXCEPT ![r] = tree]
                  /\ g.pin = files.pin /\ g.docs = files.docs
         /\ LET g == [files EXCEPT !.docs = files.pin]
            IN  /\ g \in Files /\ g.docs = files.pin
                /\ g.pin = files.pin /\ g.tree = files.tree
  BY DEF Files, Tree

\* A merged tree is of the newest release, with TaskSolver's lines once.
LEMMA MergedTree ==
  ASSUME latest \in [Components -> Version], NEW r \in Trees, NEW tree \in Merges(r)
  PROVE  tree \in Tree /\ tree.hooks = 1 /\ tree.at = latest[Main(r)]
<1>1. PICK conflicts \in SUBSET Patched(r), text \in Texts : tree = Merged(r, conflicts, text)
  BY DEF Merges
<1>2. latest[Main(r)] \in Version
  BY PartFacts
<1>3. Rehooked(r, conflicts, text) # {} => text.there + text.anchors = 1
  BY DEF Rehooked, ApplyHooks
<1>4. QED
  BY <1>1, <1>2, <1>3 DEF Merged, Tree

----------------------------------------------------------------------------
(* The workflow.                                                           *)

AVars == <<latest, head, work, job, issues, moved>>

\* What belongs together does so without a runtime, too.
LEMMA ConsistentRest ==
  ASSUME NEW files \in Files, Consistent(files), NEW r
  PROVE  RestOf(files, r)
  BY ConsistentMeans DEF RestOf

\* The rest does not depend on the files of the runtime itself.
LEMMA RestStays ==
  ASSUME NEW files \in Files, NEW g \in Files, NEW r \in Runtimes, RestOf(files, r),
         \A c \in Components \ Parts(r) : g.pin[c] = files.pin[c],
         \A t \in Trees \ {r} : g.tree[t] = files.tree[t]
  PROVE  RestOf(g, r)
<1>1. \A t \in Trees \ {r} : Main(t) \in Components \ Parts(r)
  BY PartFacts
<1>2. \A t \in Trees \ {r} : Settled(g, t)
  BY <1>1 DEF RestOf, Settled
<1>3. "claude" \in Runtimes \ {r} => {"claude-sdk", "claude-cli"} \subseteq Components \ Parts(r)
  BY PartFacts
<1>4. "claude" \in Runtimes \ {r} => CliNotOlder(g)
  BY <1>3 DEF RestOf, CliNotOlder
<1>5. QED
  BY <1>2, <1>4 DEF RestOf

\* A runtime and the rest make the whole.
LEMMA RestAndOne ==
  ASSUME NEW files \in Files, NEW r, RestOf(files, r), files.docs = files.pin,
         r \in Trees => Settled(files, r), r = "claude" => CliNotOlder(files)
  PROVE  Consistent(files)
<1>1. \A t \in Trees : Settled(files, t)
  BY DEF RestOf
<1>2. "claude" \in Runtimes => CliNotOlder(files)
  BY DEF RestOf
<1>3. QED
  BY <1>1, <1>2, ConsistentMeans

\* The targets of some runtimes are of the run's.
LEMMA TargetFacts ==
  ASSUME FilesType, JobType
  PROVE  /\ \A rs \in SUBSET Runtimes : OfRuntimes(rs) \in SUBSET Target
         /\ Targets(Adoptable) \in SUBSET Target
<1>1. job.targets \in SUBSET Target
  BY DEF JobType
<1>2. \A rs \in SUBSET Runtimes : OfRuntimes(rs) \in SUBSET Target
  BY <1>1 DEF OfRuntimes
<1>3. Adoptable \subseteq Components
  BY DEF Adoptable, Outdated
<1>4. \A c \in Adoptable : <<c, latest[c]>> \in Target
  BY <1>3 DEF FilesType, Target
<1>5. QED
  BY <1>2, <1>4 DEF Targets

\* The work tree between runs is of a consistent form.
LEMMA NoTreeFiles == NoTree \in Files /\ Idle \in [at : Stages, doing : Runtimes \cup {""},
    todo : SUBSET Runtimes, targets : SUBSET Target, adopted : SUBSET Runtimes, hand : BOOLEAN]
<1>1. 0 \in Version
  BY AdoptionAssumption DEF Version
<1>2. [c \in Components |-> 0] \in [Components -> Version]
  BY <1>1
<1>3. NoTree \in Files
  BY <1>2, WholeFacts DEF NoTree
<1>4. QED
  BY <1>3 DEF Idle, Stages

\* An issue that is worked off by hand leaves main consistent: the CLI that an
\* SDK bundles is among the releases the CLI moves to.
LEMMA HandWorkStep ==
  ASSUME FilesType, ReleasedIsConsistent, NEW i \in issues, HandWork(i)
  PROVE  head' \in Files /\ ReleasedIsConsistent'
<1> DEFINE sdks == {t[2] : t \in {t \in i : t[1] = "claude-sdk"}}
<1> DEFINE new(c) == {t[2] : t \in {t \in i : t[1] = c}}
                     \union (IF c = "claude-cli" THEN {Bundled(v) : v \in sdks} ELSE {})
                     \union {head.pin[c]}
<1> DEFINE top(c) == CHOOSE v \in new(c) : \A w \in new(c) : w <= v
<1> DEFINE pin == [c \in Components |-> top(c)]
<1>1. head' = Whole(pin)
  BY DEF HandWork
<1>2. head \in Files /\ head.pin \in [Components -> Version]
  BY FilesUpdates DEF FilesType
<1>3. \A t \in i : t[1] \in Components /\ t[2] \in Version
  BY DEF FilesType, Target
<1>4. sdks \subseteq Version
  BY <1>3
<1>5. \A c \in Components : new(c) \subseteq Version /\ new(c) # {}
  BY <1>2, <1>3, <1>4 DEF Bundled
<1>6. \A c \in Components : top(c) \in new(c) /\ \A w \in new(c) : w <= top(c)
  <2> SUFFICES ASSUME NEW c \in Components
               PROVE  top(c) \in new(c) /\ \A w \in new(c) : w <= top(c)
    OBVIOUS
  <2>1. \E v \in new(c) : \A w \in new(c) : w <= v
    <3> HIDE DEF new
    <3>1. QED
      BY <1>5, Newest
  <2> HIDE DEF new
  <2>2. QED
    BY <2>1
<1>7. pin \in [Components -> Version]
  <2> HIDE DEF top, new
  <2>1. QED
    BY <1>5, <1>6
<1>8. head' \in Files /\ head'.pin = pin /\ head' = Whole(head'.pin)
  <2> HIDE DEF pin
  <2>1. QED
    BY <1>1, <1>7, WholeFacts
<1>9. ASSUME "claude" \in Runtimes
      PROVE  pin["claude-cli"] >= Bundled(pin["claude-sdk"])
  <2>1. {"claude-sdk", "claude-cli"} \subseteq Components
    BY <1>9, PartFacts
  <2>2. top("claude-sdk") \in sdks \cup {head.pin["claude-sdk"]}
    BY <1>6, <2>1
  <2>3. CASE top("claude-sdk") \in sdks
    <3> HIDE DEF top
    <3>1. Bundled(top("claude-sdk")) \in new("claude-cli")
      BY <2>3
    <3> HIDE DEF new
    <3>2. QED
      BY <1>5, <1>6, <2>1, <3>1 DEF Bundled, Version
  <2>4. CASE top("claude-sdk") = head.pin["claude-sdk"]
    <3>1. head.pin["claude-cli"] \in new("claude-cli")
      OBVIOUS
    <3>2. head.pin["claude-cli"] >= head.pin["claude-sdk"]
      BY <1>9 DEF ReleasedIsConsistent, Consistent, Bundled
    <3> HIDE DEF top, new
    <3>3. QED
      BY <1>2, <1>5, <1>6, <2>1, <2>4, <3>1, <3>2 DEF Bundled, Version
  <2>5. QED
    BY <2>2, <2>3, <2>4
<1>10. QED
  BY <1>8, <1>9 DEF ReleasedIsConsistent, Consistent

\* The types of what the workflow changes.
LEMMA AdoptionTypeStep ==
  ASSUME FilesType, JobType, ReleasedIsConsistent, AdoptionInv, AdoptionNext,
         checkout' = checkout
  PROVE  FilesType' /\ JobType'
<1> DEFINE Typed == /\ latest' \in [Components -> Version] /\ head' \in Files /\ work' \in Files
                    /\ issues' \in SUBSET SUBSET Target
<1>0. Typed /\ JobType' => FilesType' /\ JobType'
  BY DEF FilesType
<1> USE DEF FilesType, Outside, At
<1>w. work.pin \in [Components -> Version] /\ work.tree \in [Trees -> Tree]
  BY FilesUpdates
<1>1. CASE Check
  BY <1>1, TargetFacts DEF Check, JobType, Idle, Stages
<1>2. ASSUME NEW r \in Runtimes, Next1(r) PROVE Typed /\ JobType'
  BY <1>2 DEF Next1, JobType, Stages
<1>3. ASSUME NEW r \in Runtimes, Shelve(r) PROVE Typed /\ JobType'
  <2> DEFINE pin == [c \in Components |-> IF c \in Parts(r) THEN head.pin[c] ELSE work.pin[c]]
  <2>1. /\ head.pin \in [Components -> Version] /\ work.pin \in [Components -> Version]
        /\ head.tree \in [Trees -> Tree] /\ work.tree \in [Trees -> Tree]
    BY FilesUpdates
  <2>2. pin \in [Components -> Version]
    BY <2>1
  <2>3. [t \in Trees |-> IF t = r THEN head.tree[t] ELSE work.tree[t]] \in [Trees -> Tree]
    BY <2>1
  <2>4. work' \in Files
    BY <1>3, <2>2, <2>3 DEF Shelve, Restored, Files, Tree
  <2>5. issues' \in SUBSET SUBSET Target
    BY <1>3, TargetFacts DEF Shelve
  <2>6. JobType'
    BY <1>3 DEF Shelve, JobType, Stages
  <2>7. QED
    BY <1>3, <2>4, <2>5, <2>6 DEF Shelve
<1>4. CASE AdoptAgy
  <2>1. "agy" \in Components /\ "agy" \in Runtimes
    <3>1. "agy" \in Runtimes /\ Parts("agy") = {"agy"}
      BY <1>4 DEF AdoptAgy, AdoptionInv, Parts
    <3>2. QED
      BY <3>1, PartFacts
  <2>2. work' \in Files
    BY <1>4, <2>1, FilesUpdates DEF AdoptAgy
  <2>3. JobType'
    BY <1>4 DEF AdoptAgy, JobType, Stages
  <2>4. QED
    BY <1>4, <2>2, <2>3 DEF AdoptAgy
<1>5. CASE AdoptTree
  <2>1. job.doing \in Trees
    BY <1>5 DEF AdoptTree, AdoptionInv
  <2>2. work' \in Files
    <3>1. PICK tree \in Merges(job.doing) : work' = [work EXCEPT !.tree[job.doing] = tree]
      BY <1>5 DEF AdoptTree
    <3>2. tree \in Tree
      BY <2>1, MergedTree
    <3>3. QED
      BY <2>1, <3>1, <3>2, FilesUpdates
  <2>3. JobType'
    BY <1>5 DEF AdoptTree, JobType, Stages
  <2>4. QED
    BY <1>5, <2>2, <2>3 DEF AdoptTree
<1>6. CASE SavePin
  <2>1. job.doing \in Trees
    BY <1>6 DEF SavePin, AdoptionInv
  <2>2. Main(job.doing) \in Components /\ work.tree[job.doing].at \in Version
    <3>1. Main(job.doing) \in Components
      BY <2>1, PartFacts
    <3>2. QED
      BY <1>w, <2>1, <3>1 DEF Tree
  <2>3. work' \in Files
    BY <1>6, <2>2, FilesUpdates DEF SavePin
  <2>4. JobType'
    BY <1>6 DEF SavePin, JobType, Stages
  <2>5. QED
    BY <1>6, <2>3, <2>4 DEF SavePin
<1>7. CASE SameTree
  BY <1>7 DEF SameTree, JobType, Stages
<1>8. CASE AdoptCli
  <2>1. "claude" \in Runtimes
    BY <1>8 DEF AdoptCli, AdoptionInv
  <2>2. "claude" \in Trees /\ "claude-cli" \in Components
    BY <2>1, PartFacts
  <2>3. NewCli \in Version
    <3>1. work.tree["claude"] \in Tree
      BY <1>w, <2>2
    <3>2. latest["claude-cli"] \in Version /\ work.tree["claude"].at \in Version
      BY <2>2, <3>1 DEF FilesType, Tree
    <3>3. QED
      BY <3>2 DEF NewCli, Bundled
  <2>4. work' \in Files
    BY <1>8, <2>2, <2>3, FilesUpdates DEF AdoptCli
  <2>5. JobType'
    BY <1>8 DEF AdoptCli, JobType, Stages
  <2>6. QED
    BY <1>8, <2>4, <2>5 DEF AdoptCli
<1>9. CASE Docs
  <2>1. work' \in Files
    BY <1>9, FilesUpdates DEF Docs
  <2>2. job.doing \in Runtimes
    BY <1>9 DEF Docs, AdoptionInv
  <2>3. JobType'
    BY <1>9, <2>2 DEF Docs, JobType, Stages
  <2>4. QED
    BY <1>9, <2>1, <2>3 DEF Docs
<1>10. CASE Release
  BY <1>10, NoTreeFiles DEF Release, End, JobType
<1>11. CASE NoRelease
  BY <1>11, NoTreeFiles DEF NoRelease, End, JobType
<1>12. ASSUME NEW hand \in BOOLEAN, AdoptFails(hand) PROVE Typed /\ JobType'
  BY <1>12 DEF AdoptFails, JobType, Stages
<1>13. CASE BuildFails
  <2>1. OfRuntimes(job.adopted) \in SUBSET Target
    BY TargetFacts DEF JobType
  <2>2. QED
    BY <1>13, <2>1, NoTreeFiles DEF BuildFails, End, JobType
<1>14. CASE RunLost
  BY <1>14, NoTreeFiles DEF RunLost, End, JobType
<1>15. ASSUME NEW c \in Components, Publish(c) \/ Withdraw(c) PROVE Typed /\ JobType'
  <2>1. latest' \in [Components -> Version]
    BY <1>15, AdoptionAssumption DEF Publish, Withdraw, Version
  <2>2. QED
    BY <1>15, <2>1 DEF Publish, Withdraw, JobType
<1>16. ASSUME NEW i \in issues, CloseIssue(i) PROVE Typed /\ JobType'
  BY <1>16 DEF CloseIssue, JobType
<1>17. ASSUME NEW i \in issues, HandWork(i) PROVE Typed /\ JobType'
  BY <1>17, HandWorkStep DEF HandWork, JobType
<1>18. QED
  BY <1>0, <1>1, <1>2, <1>3, <1>4, <1>5, <1>6, <1>7, <1>8, <1>9, <1>10, <1>11,
     <1>12, <1>13, <1>14, <1>15, <1>16, <1>17 DEF AdoptionNext, RunStep

\* What the steps of an adoption leave of the work tree.
LEMMA AdoptionStep ==
  ASSUME FilesType, JobType, ReleasedIsConsistent, AdoptionInv, AdoptionNext,
         work' \in Files, JobType'
  PROVE  ReleasedIsConsistent' /\ AdoptionInv'
<1> USE DEF FilesType, Outside, At
<1> DEFINE r == job.doing
<1>w. work.pin \in [Components -> Version] /\ work.tree \in [Trees -> Tree]
  BY FilesUpdates
<1>0. ASSUME head' = head PROVE ReleasedIsConsistent'
  BY <1>0 DEF ReleasedIsConsistent
<1>1. CASE Check
  <2>1. AdoptionInv'
    BY <1>1 DEF Check, AdoptionInv, Idle, ReleasedIsConsistent
  <2>2. QED
    BY <1>0, <1>1, <2>1 DEF Check
<1>2. ASSUME NEW q \in Runtimes, Next1(q) PROVE ReleasedIsConsistent' /\ AdoptionInv'
  <2>1. /\ work' = work /\ head' = head /\ Consistent(work) /\ job'.doing = q
        /\ job'.at = IF q = "agy" THEN "agy" ELSE "tree"
    BY <1>2 DEF Next1, AdoptionInv, JobType
  <2>2. RestOf(work, q)
    BY <2>1, ConsistentRest
  <2>3. q # "agy" => q \in Trees
    BY DEF Trees
  <2>4. QED
    BY <1>0, <2>1, <2>2, <2>3 DEF AdoptionInv
<1>3. ASSUME NEW q \in Runtimes, Shelve(q) PROVE ReleasedIsConsistent' /\ AdoptionInv'
  <2> DEFINE pin == [c \in Components |-> IF c \in Parts(q) THEN head.pin[c] ELSE work.pin[c]]
  <2>1. /\ q = r /\ RestOf(work, q) /\ head' = head /\ job'.at = "next"
        /\ work' = [pin |-> pin, docs |-> pin,
                    tree |-> [t \in Trees |-> IF t = q THEN head.tree[t] ELSE work.tree[t]]]
    BY <1>3 DEF Shelve, AdoptionInv, Restored, JobType
  <2>2. /\ work'.pin = pin /\ work'.docs = pin
        /\ \A t \in Trees : work'.tree[t] = IF t = q THEN head.tree[t] ELSE work.tree[t]
    BY <2>1
  <2>3. \A c \in Components : pin[c] = IF c \in Parts(q) THEN head.pin[c] ELSE work.pin[c]
    OBVIOUS
  <2> HIDE DEF pin
  <2>4. RestOf(work', q)
    BY <2>1, <2>2, <2>3, RestStays
  <2>5. Consistent(head)
    BY DEF ReleasedIsConsistent
  <2>6. q \in Trees => Settled(work', q)
    <3>1. ASSUME q \in Trees PROVE Settled(head, q) /\ Main(q) \in Components /\ Main(q) \in Parts(q)
      BY <2>5, <3>1, ConsistentMeans, PartFacts
    <3>2. QED
      BY <2>2, <2>3, <3>1 DEF Settled
  <2>7. q = "claude" => CliNotOlder(work')
    <3>1. ASSUME q = "claude"
          PROVE  CliNotOlder(head) /\ {"claude-sdk", "claude-cli"} \subseteq Components \cap Parts(q)
      BY <2>5, <3>1, ConsistentMeans, PartFacts
    <3>2. QED
      BY <2>2, <2>3, <3>1 DEF CliNotOlder
  <2>8. Consistent(work')
    BY <2>2, <2>4, <2>6, <2>7, RestAndOne
  <2>9. QED
    BY <1>0, <2>1, <2>8 DEF AdoptionInv
<1>4. CASE AdoptAgy
  <2>1. r = "agy" /\ r \in Runtimes /\ RestOf(work, r) /\ "agy" \in Components
    <3>1. r = "agy" /\ r \in Runtimes /\ RestOf(work, r) /\ Parts("agy") = {"agy"}
      BY <1>4 DEF AdoptAgy, AdoptionInv, Parts
    <3>2. QED
      BY <3>1, PartFacts
  <2>2. latest["agy"] \in Version
    BY <2>1
  <2>3. work'.pin = [work.pin EXCEPT !["agy"] = latest["agy"]] /\ work'.tree = work.tree
    BY <1>4, <2>1, <2>2, FilesUpdates DEF AdoptAgy
  <2>4. \A c \in Components \ Parts(r) : work'.pin[c] = work.pin[c]
    BY <2>1, <2>3, FilesUpdates DEF Parts
  <2>5. RestOf(work', r)
    BY <2>1, <2>3, <2>4, RestStays
  <2>6. job'.at = "docs" /\ job'.doing = r /\ head' = head
    BY <1>4 DEF AdoptAgy, JobType
  <2>7. QED
    BY <1>0, <2>1, <2>5, <2>6, PartFacts DEF AdoptionInv
<1>5. CASE AdoptTree
  <2>1. r \in Trees /\ r \in Runtimes /\ RestOf(work, r)
    BY <1>5 DEF AdoptTree, AdoptionInv
  <2>2. PICK tree \in Merges(r) : work' = [work EXCEPT !.tree[r] = tree]
    BY <1>5 DEF AdoptTree
  <2>3. tree \in Tree /\ tree.hooks = 1
    BY <2>1, <2>2, MergedTree
  <2>4. work'.tree = [work.tree EXCEPT ![r] = tree] /\ work'.pin = work.pin
    BY <2>1, <2>2, <2>3, FilesUpdates
  <2>5. work'.tree[r].hooks = 1 /\ \A t \in Trees \ {r} : work'.tree[t] = work.tree[t]
    BY <1>w, <2>1, <2>3, <2>4
  <2>6. RestOf(work', r)
    BY <2>1, <2>4, <2>5, RestStays
  <2>7. job'.at = "pin" /\ job'.doing = r /\ head' = head
    BY <1>5 DEF AdoptTree, JobType
  <2>8. QED
    BY <1>0, <2>1, <2>5, <2>6, <2>7 DEF AdoptionInv
<1>6. CASE SavePin
  <2> DEFINE tree == work.tree[r]
  <2>1. r \in Trees /\ r \in Runtimes /\ RestOf(work, r) /\ tree.hooks = 1
    BY <1>6 DEF SavePin, AdoptionInv
  <2>2. Main(r) \in Components /\ Main(r) \in Parts(r) /\ tree \in Tree
    <3>1. Main(r) \in Components /\ Main(r) \in Parts(r)
      BY <2>1, PartFacts
    <3>2. QED
      BY <1>w, <2>1, <3>1
  <2>3. work'.pin = [work.pin EXCEPT ![Main(r)] = tree.at] /\ work'.tree = work.tree
    BY <1>6, <2>2, FilesUpdates DEF SavePin, Tree
  <2>4. work'.pin[Main(r)] = tree.at /\ \A c \in Components \ Parts(r) : work'.pin[c] = work.pin[c]
    BY <1>w, <2>2, <2>3
  <2>5. RestOf(work', r)
    BY <2>1, <2>3, <2>4, RestStays
  <2>6. /\ job'.at = IF r = "claude" /\ ~tree.markers THEN "cli" ELSE "docs"
        /\ job'.doing = r /\ head' = head
    BY <1>6 DEF SavePin, JobType
  <2>7. ~tree.markers => Settled(work', r)
    BY <2>1, <2>2, <2>3, <2>4 DEF Settled, Tree
  <2>8. QED
    BY <1>0, <2>1, <2>3, <2>4, <2>5, <2>6, <2>7 DEF AdoptionInv
<1>7. CASE SameTree
  <2>1. r \in Trees /\ r \in Runtimes /\ RestOf(work, r) /\ Settled(work, r)
    BY <1>7, ConsistentMeans DEF SameTree, AdoptionInv
  <2>2. /\ job'.at = IF r = "claude" THEN "cli" ELSE "shelve"
        /\ job'.doing = r /\ head' = head /\ work' = work
    BY <1>7 DEF SameTree, JobType
  <2>3. QED
    BY <1>0, <2>1, <2>2 DEF AdoptionInv
<1>8. CASE AdoptCli
  <2>1. r = "claude" /\ r \in Runtimes /\ RestOf(work, r) /\ Settled(work, r)
    BY <1>8 DEF AdoptCli, AdoptionInv
  <2>2. /\ "claude" \in Trees /\ {"claude-sdk", "claude-cli"} \subseteq Components
        /\ Parts("claude") = {"claude-sdk", "claude-cli"} /\ Main("claude") = "claude-sdk"
    BY <2>1, PartFacts
  <2>3. NewCli \in Version /\ NewCli >= Bundled(work.tree["claude"].at)
    <3>1. work.tree["claude"].at \in 0..MaxVersion /\ latest["claude-cli"] \in 0..MaxVersion
      BY <1>w, <2>2 DEF Tree, Version
    <3>2. MaxVersion \in Nat
      BY AdoptionAssumption
    <3>3. QED
      BY <3>1, <3>2 DEF NewCli, Bundled, Version
  <2>4. work'.pin = [work.pin EXCEPT !["claude-cli"] = NewCli] /\ work'.tree = work.tree
    BY <1>8, <2>2, <2>3, FilesUpdates DEF AdoptCli
  <2>5. /\ work'.pin["claude-cli"] = NewCli /\ work'.pin["claude-sdk"] = work.pin["claude-sdk"]
        /\ \A c \in Components \ Parts(r) : work'.pin[c] = work.pin[c]
    BY <1>w, <2>1, <2>2, <2>4
  <2>6. RestOf(work', r)
    BY <2>1, <2>4, <2>5, RestStays
  <2>7. Settled(work', r) /\ CliNotOlder(work')
    <3>1. work.tree["claude"] = [at |-> work.pin["claude-sdk"], markers |-> FALSE, hooks |-> 1]
      BY <2>1, <2>2 DEF Settled
    <3>2. Settled(work', r)
      BY <2>1, <2>2, <2>4, <2>5, <3>1 DEF Settled
    <3>3. CliNotOlder(work')
      BY <2>3, <2>5, <3>1 DEF CliNotOlder
    <3>4. QED
      BY <3>2, <3>3
  <2>8. /\ job'.at \in {"shelve", "docs"} /\ job'.doing = r /\ head' = head
    BY <1>8 DEF AdoptCli, JobType
  <2>9. QED
    BY <1>0, <2>1, <2>2, <2>6, <2>7, <2>8 DEF AdoptionInv, Settled
<1>9. CASE Docs
  <2>1. r \in Runtimes /\ RestOf(work, r)
    BY <1>9 DEF Docs, AdoptionInv
  <2>2. work'.docs = work.pin /\ work'.pin = work.pin /\ work'.tree = work.tree
    BY <1>9, FilesUpdates DEF Docs
  <2>3. RestOf(work', r)
    BY <2>1, <2>2, RestStays
  <2>4. head' = head /\ job'.doing = r
    BY <1>9 DEF Docs, JobType
  <2>5. CASE r \in Trees /\ work.tree[r].markers
    BY <1>0, <1>9, <2>1, <2>3, <2>4, <2>5 DEF Docs, AdoptionInv, JobType
  <2>6. CASE ~(r \in Trees /\ work.tree[r].markers)
    <3>1. job'.at = "next"
      BY <1>9, <2>6 DEF Docs, JobType
    <3>2. r \in Trees => Settled(work', r)
      <4>1. ASSUME r \in Trees PROVE Settled(work', r)
        <5>1. work.tree[r] \in Tree /\ work.tree[r].markers = FALSE
          <6>1. work.tree[r] \in Tree /\ ~work.tree[r].markers
            BY <1>w, <2>6, <4>1
          <6>2. QED
            BY <6>1 DEF Tree
        <5>2. work.tree[r].at = work.pin[Main(r)] /\ work.tree[r].hooks = 1
          BY <1>9, <4>1 DEF Docs, AdoptionInv
        <5>3. QED
          BY <2>2, <5>1, <5>2 DEF Settled, Tree
      <4>2. QED
        BY <4>1
    <3>3. r = "claude" => CliNotOlder(work')
      <4>1. ASSUME r = "claude" PROVE r \in Trees /\ ~work.tree[r].markers
        BY <2>1, <2>6, <4>1, PartFacts
      <4>2. r = "claude" => CliNotOlder(work)
        BY <1>9, <4>1 DEF Docs, AdoptionInv
      <4>3. QED
        BY <2>2, <4>2 DEF CliNotOlder
    <3>4. Consistent(work')
      BY <2>2, <2>3, <3>2, <3>3, RestAndOne
    <3>5. QED
      BY <1>0, <2>4, <3>1, <3>4 DEF AdoptionInv
  <2>7. QED
    BY <2>5, <2>6
<1>10. ASSUME End PROVE AdoptionInv'
  BY <1>10 DEF End, AdoptionInv, Idle
<1>11. CASE Release
  BY <1>10, <1>11 DEF Release, Ready, AdoptionInv, ReleasedIsConsistent
<1>12. CASE NoRelease \/ BuildFails \/ RunLost
  BY <1>0, <1>10, <1>12 DEF NoRelease, BuildFails, RunLost
<1>13. ASSUME NEW hand \in BOOLEAN, AdoptFails(hand) PROVE ReleasedIsConsistent' /\ AdoptionInv'
  <2>1. r \in Runtimes /\ RestOf(work, r)
    BY <1>13 DEF AdoptFails, AdoptionInv
  <2>2. job'.at = "shelve" /\ job'.doing = r /\ work' = work /\ head' = head
    BY <1>13 DEF AdoptFails, JobType
  <2>3. QED
    BY <1>0, <2>1, <2>2 DEF AdoptionInv
<1>14. ASSUME UNCHANGED <<work, job>> PROVE AdoptionInv'
  BY <1>14 DEF AdoptionInv, Consistent, RestOf, Settled, CliNotOlder
<1>15. ASSUME NEW c \in Components, Publish(c) \/ Withdraw(c) PROVE ReleasedIsConsistent' /\ AdoptionInv'
  BY <1>0, <1>14, <1>15 DEF Publish, Withdraw
<1>16. ASSUME NEW i \in issues, CloseIssue(i) PROVE ReleasedIsConsistent' /\ AdoptionInv'
  BY <1>0, <1>14, <1>16 DEF CloseIssue
<1>17. ASSUME NEW i \in issues, HandWork(i) PROVE ReleasedIsConsistent' /\ AdoptionInv'
  BY <1>14, <1>17, HandWorkStep DEF HandWork
<1>18. QED
  BY <1>1, <1>2, <1>3, <1>4, <1>5, <1>6, <1>7, <1>8, <1>9, <1>11,
     <1>12, <1>13, <1>15, <1>16, <1>17 DEF AdoptionNext, RunStep

----------------------------------------------------------------------------
(* The user's machine.                                                     *)

\* What is pinned is a release.
LEMMA PinnedFacts ==
  ASSUME NEW files \in Files
  PROVE  /\ "claude" \in Trees /\ {"agy", "claude-cli", "claude-sdk"} \subseteq Components
         /\ files.pin["agy"] \in Version /\ files.pin["claude-cli"] \in Version
         /\ files.tree["claude"].at \in Version
         /\ Main("claude") = "claude-sdk"
<1>1. "agy" \in Runtimes /\ "claude" \in Runtimes /\ Parts("agy") = {"agy"}
  BY ReconstructAssumption DEF Rebuilt, Parts
<1>2. "claude" \in Trees /\ {"agy", "claude-cli", "claude-sdk"} \subseteq Components /\ Main("claude") = "claude-sdk"
  BY <1>1, PartFacts
<1>3. files.pin \in [Components -> Version] /\ files.tree \in [Trees -> Tree]
  BY FilesUpdates
<1>4. files.tree["claude"] \in Tree
  BY <1>2, <1>3
<1>5. QED
  BY <1>2, <1>3, <1>4 DEF Tree

LEMMA PinnedContent ==
  ASSUME FilesType
  PROVE  /\ \A r \in Rebuilt : Pinned(r) \in Content
         /\ checkout.pin["claude-cli"] # Nothing
<1>1. checkout.pin["agy"] \in Content /\ checkout.pin["claude-cli"] \in Content
  BY PinnedFacts DEF FilesType, Content
<1>2. QED
  BY <1>1, ReconstructAssumption DEF Pinned, Rebuilt

Target0 == [sdk : Version, lib : Content \cup {Nothing}, host : Content \cup {Nothing},
            bundled : Content \cup {Nothing}]
Rec == [at : Steps, jobs : SUBSET Rebuilt, left : SUBSET Rebuilt,
        binary : Rebuilt \cup {Nothing}, ok : BOOLEAN, previous : Content \cup {Nothing}]

LEMMA StartValues ==
  /\ NotRun \in Rec
  /\ \A files \in Files : Package(files) \in Target0 /\ Package(files).sdk = files.tree["claude"].at
<1>1. NotRun \in Rec
  BY DEF NotRun, Rec, Steps
<1>2. QED
  BY <1>1, PinnedFacts DEF Package, Target0

\* What a copy does: the verified one is selected, the other ends the helper.
LEMMA SeedCases ==
  ASSUME Seed
  PROVE  /\ rec.at = "seed" /\ UNCHANGED <<checkout, found, target, had>>
         /\ \/ /\ found[rec.binary] = Pinned(rec.binary)
               /\ cache' = [cache EXCEPT ![rec.binary] = found[rec.binary]]
               /\ rec' = [rec EXCEPT !.at = "inputs", !.left = rec.left \ {rec.binary}]
            \/ rec' = NotRun /\ cache' = cache
  BY DEF Seed, Seeded

\* The types of what the helper and the machine change.
LEMMA MachineTypeStep ==
  ASSUME FilesType, MachineType, ReconstructNext
  PROVE  MachineType' /\ checkout' \in Files
<1> DEFINE M == /\ found \in [Rebuilt -> Content] /\ cache \in [Rebuilt -> Content \cup {Nothing}]
                /\ target \in Target0 /\ rec \in Rec
<1>00. M
  BY DEF MachineType, Target0, Rec
<1>b. had' \in BOOLEAN
  <2>1. had \in BOOLEAN
    BY Zenon DEF MachineType
  <2>2. had' = had \/ had' = TRUE \/ had' = FALSE \/ had' = (had /\ rec.at # "swap")
    BY Zenon DEF ReconstructNext, Pull, InstallPackage, SelfUpdate, Start, Select, Seed, InstallLibrary,
       InstallHost, RenameAway, RenameIn, Finish, StepFails, Killed
  <2>3. QED
    BY <2>1, <2>2, Zenon
<1> USE DEF RIdle, Goto
<1> DEFINE T == /\ found' \in [Rebuilt -> Content] /\ cache' \in [Rebuilt -> Content \cup {Nothing}]
                /\ target' \in Target0 /\ rec' \in Rec
                /\ checkout' \in Files
<1>c. checkout \in Files
  BY DEF FilesType
<1>h. head \in Files /\ Package(head) \in Target0 /\ NotRun \in Rec
  BY StartValues DEF FilesType
<1>1. ASSUME Pull PROVE T
  <2>1. cache' = [r \in Rebuilt |-> IF cache[r] = Pinned(r)' THEN cache[r] ELSE Nothing]
    BY <1>1 DEF Pull
  <2>2. cache' \in [Rebuilt -> Content \cup {Nothing}]
    BY <1>00, <2>1
  <2>3. found' = found /\ target' = target /\ rec' = NotRun /\ had' = had /\ checkout' = head
    BY <1>1 DEF Pull
  <2>4. QED
    BY <1>00, <1>h, <2>2, <2>3
<1>2. ASSUME InstallPackage PROVE T
  <2>1. found' = found /\ target' = Package(head) /\ rec' = NotRun /\ had' = FALSE
        /\ cache' = cache /\ checkout' = checkout
    BY <1>2 DEF InstallPackage
  <2>2. QED
    BY <1>00, <1>c, <1>h, <2>1
<1>3. ASSUME NEW r \in Rebuilt, NEW content \in Content, SelfUpdate(r, content) PROVE T
  BY <1>3, <1>00, <1>c DEF SelfUpdate
<1>4. ASSUME NEW jobs \in SUBSET Rebuilt, Start(jobs) PROVE T
  <2>1. rec' \in Rec
    BY <1>4 DEF Start, NotRun, Rec, Steps
  <2>2. QED
    BY <1>4, <1>00, <1>c, <2>1 DEF Start
<1>5. ASSUME NEW r \in Rebuilt, Select(r) PROVE T
  <2>1. rec' \in Rec
    <3>1. rec' = NotRun \/ rec' = [rec EXCEPT !.left = rec.left \ {r}]
          \/ rec' = [rec EXCEPT !.at = "seed", !.binary = r]
      BY <1>5 DEF Select
    <3>2. rec \in Rec /\ r \in Rebuilt
      BY <1>00
    <3>3. CASE rec' = NotRun
      BY <1>h, <3>3
    <3>4. CASE rec' = [rec EXCEPT !.left = rec.left \ {r}]
      BY <3>2, <3>4 DEF Rec
    <3>5. CASE rec' = [rec EXCEPT !.at = "seed", !.binary = r]
      BY <3>2, <3>5 DEF Rec, Steps
    <3>6. QED
      BY <3>1, <3>3, <3>4, <3>5
  <2>2. QED
    BY <1>5, <1>00, <1>c, <2>1 DEF Select
<1>6. ASSUME Seed PROVE T
  <2>1. UNCHANGED <<checkout, found, target>>
    BY <1>6, SeedCases
  <2>2. CASE rec' = NotRun /\ cache' = cache
    BY <1>00, <1>c, <1>h, <2>1, <2>2
  <2>3. CASE /\ cache' = [cache EXCEPT ![rec.binary] = found[rec.binary]]
             /\ rec' = [rec EXCEPT !.at = "inputs", !.left = rec.left \ {rec.binary}]
    <3>1. rec' \in Rec
      BY <1>00, <2>3 DEF Rec, Steps
    <3>2. rec.binary \in Rebuilt => found[rec.binary] \in Content
      BY <1>00
    <3>3. cache' \in [Rebuilt -> Content \cup {Nothing}]
      BY <1>00, <2>3, <3>2
    <3>4. QED
      BY <1>00, <1>c, <2>1, <3>1, <3>3
  <2>4. QED
    BY <1>6, <2>2, <2>3, SeedCases
<1>7. ASSUME InstallLibrary PROVE T
  <2>1. rec' \in Rec
    BY <1>7, <1>00 DEF InstallLibrary, Rec, Steps
  <2>2. cache["agy"] \in Content \cup {Nothing}
    BY <1>00 DEF Rebuilt
  <2>3. target' \in Target0
    BY <1>7, <1>00, <2>2 DEF InstallLibrary, Target0
  <2>4. QED
    BY <1>7, <1>00, <1>c, <2>1, <2>3 DEF InstallLibrary
<1>8. ASSUME InstallHost PROVE T
  <2>1. rec' \in Rec
    BY <1>8, <1>00 DEF InstallHost, Rec, Steps
  <2>2. cache["agy"] \in Content \cup {Nothing}
    BY <1>00 DEF Rebuilt
  <2>3. target' \in Target0
    BY <1>8, <1>00, <2>2 DEF InstallHost, Target0
  <2>4. QED
    BY <1>8, <1>00, <1>c, <2>1, <2>3 DEF InstallHost
<1>9. ASSUME RenameAway PROVE T
  <2>1. rec' \in Rec
    BY <1>9, <1>00 DEF RenameAway, Rec, Steps, Target0
  <2>2. target' \in Target0
    BY <1>9, <1>00 DEF RenameAway, Target0
  <2>3. QED
    BY <1>9, <1>00, <1>c, <2>1, <2>2 DEF RenameAway
<1>10. ASSUME RenameIn PROVE T
  <2>1. rec' \in Rec
    BY <1>10, <1>00 DEF RenameIn, Rec, Steps
  <2>2. cache["claude"] \in Content \cup {Nothing}
    BY <1>00 DEF Rebuilt
  <2>3. target' \in Target0
    BY <1>10, <1>00, <2>2 DEF RenameIn, Target0
  <2>4. QED
    BY <1>10, <1>00, <1>c, <2>1, <2>3 DEF RenameIn
<1>11. ASSUME Finish PROVE T
  <2>1. rec' \in Rec
    BY <1>11, <1>00 DEF Finish, NotRun, Rec, Steps
  <2>2. QED
    BY <1>11, <1>00, <1>c, <2>1 DEF Finish
<1>12. ASSUME StepFails PROVE T
  <2>1. PutBack \in Content \cup {Nothing}
    BY <1>00 DEF PutBack, Rec, Target0
  <2>2. target' \in Target0
    BY <1>12, <1>00, <2>1 DEF StepFails, Target0
  <2>3. QED
    BY <1>12, <1>00, <1>c, <2>2, StartValues DEF StepFails
<1>13. ASSUME Killed PROVE T
  BY <1>13, <1>00, <1>c, StartValues DEF Killed
<1>14. T
  BY <1>1, <1>2, <1>3, <1>4, <1>5, <1>6, <1>7, <1>8, <1>9, <1>10, <1>11, <1>12, <1>13
  DEF ReconstructNext
<1>15. QED
  BY <1>14, <1>b, Zenon DEF MachineType, Target0, Rec

\* A helper that is not at work has nothing to keep but its report.
LEMMA AtRest ==
  ASSUME rec.at = "idle", Consistent(checkout)
  PROVE  HelperInv /\ PreviousInv
  BY DEF HelperInv, PreviousInv, RIdle, Installing

\* A helper that was stopped reports nothing.
LEMMA NoReport == ASSUME rec = NotRun PROVE SuccessMatchesPins /\ rec.at = "idle"
  BY DEF SuccessMatchesPins, NotRun, RIdle

\* The user moves to what main has when the helper is not at work.
LEMMA UserStep ==
  ASSUME FilesType, HelperInv, BundleKept, ReleasedIsConsistent, Pull \/ InstallPackage
  PROVE  (HelperInv /\ SuccessMatchesPins /\ PreviousInv /\ BundleKept)'
<1>1. rec' = NotRun /\ checkout' \in {checkout, head} /\ rec.at = "idle"
  BY DEF Pull, InstallPackage, RIdle
<1>2. rec'.at = "idle" /\ ~rec'.ok
  BY <1>1 DEF NotRun
<1>3. Consistent(checkout')
  BY <1>1 DEF HelperInv, ReleasedIsConsistent
<1>4. (HelperInv /\ SuccessMatchesPins /\ PreviousInv)'
  BY <1>2, <1>3 DEF HelperInv, SuccessMatchesPins, PreviousInv, RIdle, Installing
<1>5. BundleKept'
  <2>1. CASE Pull
    BY <1>1, <1>2, <2>1 DEF Pull, BundleKept
  <2>2. CASE InstallPackage
    BY <2>2 DEF InstallPackage, BundleKept
  <2>3. QED
    BY <2>1, <2>2
<1>6. QED
  BY <1>4, <1>5

\* An executable that changes in place is not among what the helper relies on.
LEMMA SelfUpdateStep ==
  ASSUME HelperInv, SuccessMatchesPins, PreviousInv, BundleKept,
         UNCHANGED <<checkout, cache, target, rec, had>>
  PROVE  (HelperInv /\ SuccessMatchesPins /\ PreviousInv /\ BundleKept)'
  BY DEF HelperInv, SuccessMatchesPins, PreviousInv, BundleKept, RIdle, Accepts, Pinned, Consistent

\* The checks and the selection of the inputs.
LEMMA InputStep ==
  ASSUME FilesType, MachineType, HelperInv, PreviousInv, BundleKept,
         \/ \E jobs \in SUBSET Rebuilt : Start(jobs)
         \/ \E r \in Rebuilt : Select(r)
         \/ Seed
  PROVE  (HelperInv /\ SuccessMatchesPins /\ PreviousInv /\ BundleKept)'
<1>0. /\ rec.at \in {"idle", "inputs", "seed"}
      /\ \/ \E jobs \in SUBSET Rebuilt : rec' = [NotRun EXCEPT !.at = "inputs", !.jobs = jobs, !.left = jobs]
         \/ rec' = NotRun
         \/ \E r : /\ ~RIdle
                  /\ \/ rec' = [rec EXCEPT !.left = rec.left \ {r}]
                     \/ rec' = [rec EXCEPT !.at = "seed", !.binary = r]
                     \/ rec' = [rec EXCEPT !.at = "inputs", !.left = rec.left \ {r}]
  BY SeedCases DEF Start, Select, RIdle
<1>u. UNCHANGED <<checkout, target, had>>
  BY SeedCases DEF Start, Select
<1>a. rec'.at \in {"idle", "inputs", "seed"}
  <2>1. rec \in Rec
    BY DEF MachineType, Rec
  <2>2. CASE rec' = NotRun
    BY <2>2 DEF NotRun
  <2>3a. ASSUME NEW jobs, rec' = [NotRun EXCEPT !.at = "inputs", !.jobs = jobs, !.left = jobs]
         PROVE  rec'.at = "inputs"
    BY <2>3a DEF NotRun
  <2>3. ASSUME NEW r, \/ rec' = [rec EXCEPT !.left = rec.left \ {r}]
                      \/ rec' = [rec EXCEPT !.at = "seed", !.binary = r]
                      \/ rec' = [rec EXCEPT !.at = "inputs", !.left = rec.left \ {r}]
        PROVE  rec'.at \in {"idle", "inputs", "seed"}
    BY <1>0, <2>1, <2>3 DEF Rec
  <2>4. QED
    BY <1>0, <2>2, <2>3a, <2>3
<1>k. rec'.at = "idle" => ~rec'.ok
  <2>1. rec' = NotRun \/ rec'.at # "idle"
    BY <1>0 DEF NotRun, MachineType, RIdle
  <2>2. QED
    BY <2>1 DEF NotRun
<1>e. rec'.at # "idle" => ~rec'.ok
  <2>1. CASE rec'.ok = NotRun.ok
    BY <2>1 DEF NotRun
  <2>2. CASE rec'.ok = rec.ok /\ ~RIdle
    BY <2>2, Zenon DEF HelperInv
  <2>3. QED
    BY <1>0, <2>1, <2>2 DEF NotRun, MachineType
<1>1. UNCHANGED <<checkout, target, had>> /\ rec'.at # "swap" /\ rec.at # "swap" /\ ~rec'.ok
      /\ rec'.at \in {"idle", "inputs", "seed"}
  BY <1>0, <1>u, <1>a, <1>k, <1>e
<1>2. (SuccessMatchesPins /\ PreviousInv /\ BundleKept)'
  BY <1>1 DEF SuccessMatchesPins, PreviousInv, BundleKept
<1>3. ASSUME rec'.at = "idle" PROVE HelperInv'
  BY <1>1, <1>3 DEF HelperInv, RIdle, Installing, Consistent
<1>4. ASSUME NEW jobs \in SUBSET Rebuilt, Start(jobs) PROVE HelperInv'
  <2>1. rec' = [NotRun EXCEPT !.at = "inputs", !.jobs = jobs, !.left = jobs] /\ Accepts(jobs)
    BY <1>4 DEF Start
  <2>2. rec'.at = "inputs" /\ rec'.jobs = jobs /\ rec'.left = jobs
    BY <2>1 DEF NotRun
  <2>3. QED
    BY <1>1, <2>1, <2>2 DEF HelperInv, RIdle, Installing, Accepts, Consistent
<1>5. ASSUME NEW r \in Rebuilt, Select(r) PROVE HelperInv'
  <2>1. rec.at = "inputs" /\ r \in rec.left /\ cache' = cache
    BY <1>5 DEF Select
  <2>2. CASE cache[r] = Pinned(r) /\ rec' = [rec EXCEPT !.left = @ \ {r}]
    <3>1. rec'.at = "inputs" /\ rec'.jobs = rec.jobs /\ rec'.left = rec.left \ {r}
      BY <2>1, <2>2 DEF MachineType
    <3>2. QED
      BY <1>1, <2>1, <2>2, <3>1 DEF HelperInv, RIdle, Installing, Accepts, Pinned, Consistent
  <2>3. CASE rec' = [rec EXCEPT !.at = "seed", !.binary = r]
    <3>1. rec'.at = "seed" /\ rec'.jobs = rec.jobs /\ rec'.left = rec.left /\ rec'.binary = r
      BY <2>1, <2>3 DEF MachineType
    <3>2. QED
      BY <1>1, <2>1, <3>1 DEF HelperInv, RIdle, Installing, Accepts, Pinned, Consistent
  <2>4. CASE rec' = NotRun
    BY <1>3, <2>4 DEF NotRun
  <2>5. QED
    BY <1>5, <2>2, <2>3, <2>4 DEF Select
<1>6. ASSUME Seed PROVE HelperInv'
  <2>1. PICK r : r = rec.binary
    OBVIOUS
  <2>2. rec.at = "seed" /\ r \in rec.left /\ r \in Rebuilt /\ rec.jobs \subseteq Rebuilt
    BY <1>6, <2>1, SeedCases DEF HelperInv, MachineType
  <2>3. CASE /\ cache' = [cache EXCEPT ![r] = found[r]] /\ found[r] = Pinned(r)
             /\ rec' = [rec EXCEPT !.at = "inputs", !.left = rec.left \ {r}]
    <3>1. cache'[r] = Pinned(r) /\ \A q \in Rebuilt \ {r} : cache'[q] = cache[q]
      BY <2>2, <2>3 DEF MachineType
    <3>2. rec'.at = "inputs" /\ rec'.jobs = rec.jobs /\ rec'.left = rec.left \ {r}
      BY <2>3 DEF MachineType
    <3>3. \A q \in rec'.jobs \ rec'.left : cache'[q] = Pinned(q)'
      BY <1>1, <2>2, <3>1, <3>2 DEF HelperInv, RIdle, Pinned
    <3>4. Consistent(checkout)' /\ Accepts(rec.jobs)' /\ rec'.left \subseteq rec'.jobs
      BY <1>1, <2>2, <3>2 DEF HelperInv, RIdle, Accepts
    <3>5. QED
      BY <1>1, <3>2, <3>3, <3>4 DEF HelperInv, RIdle, Installing
  <2>4. CASE rec' = NotRun
    BY <1>3, <2>4 DEF NotRun
  <2>5. QED
    BY <1>6, <2>1, <2>3, <2>4, SeedCases
<1>7. QED
  BY <1>2, <1>4, <1>5, <1>6

\* The installation, from the cache.
LEMMA InstallStep ==
  ASSUME FilesType, MachineType, HelperInv, SuccessMatchesPins, PreviousInv, BundleKept,
         InstallLibrary \/ InstallHost \/ RenameAway \/ RenameIn \/ Finish
  PROVE  (HelperInv /\ SuccessMatchesPins /\ PreviousInv /\ BundleKept)'
<1> USE DEF InputsDone, Goto
<1>1. UNCHANGED <<checkout, cache>> /\ rec.jobs \subseteq Rebuilt /\ rec.at # "idle"
      /\ rec'.jobs = rec.jobs
  <2>1. CASE InstallLibrary
    BY <2>1 DEF InstallLibrary, MachineType
  <2>2. CASE InstallHost
    BY <2>2 DEF InstallHost, MachineType
  <2>3. CASE RenameAway
    BY <2>3 DEF RenameAway, MachineType
  <2>4. CASE RenameIn
    BY <2>4 DEF RenameIn, MachineType
  <2>5. CASE Finish
    BY <2>5 DEF Finish, MachineType, NotRun
  <2>6. QED
    BY <2>1, <2>2, <2>3, <2>4, <2>5
<1>2. rec.left = {} /\ Accepts(rec.jobs) /\ Consistent(checkout) /\ Consistent(checkout')
      /\ \A r \in rec.jobs : cache[r] = Pinned(r)
  BY <1>1 DEF InstallLibrary, InstallHost, RenameAway, RenameIn, Finish, HelperInv, RIdle, Installing
<1>3. "agy" \in rec.jobs => cache["agy"] = checkout.pin["agy"]
  BY <1>2 DEF Pinned
<1>4. "claude" \in rec.jobs => cache["claude"] = checkout.pin["claude-cli"]
  BY <1>2 DEF Pinned
<1>5. CASE InstallLibrary
  <2>1. "agy" \in rec.jobs /\ rec.at = "inputs" /\ rec'.at = "host" /\ rec'.left = {} /\ rec'.ok = rec.ok
    BY <1>2, <1>5 DEF InstallLibrary, MachineType
  <2>2. target'.lib = cache["agy"] /\ target'.sdk = target.sdk /\ target'.bundled = target.bundled
    BY <1>5 DEF InstallLibrary, MachineType
  <2>3. QED
    BY <1>1, <1>2, <1>3, <1>5, <2>1, <2>2
    DEF InstallLibrary, HelperInv, SuccessMatchesPins, PreviousInv, BundleKept, RIdle, Installing,
        Accepts, Pinned
<1>6. CASE InstallHost
  <2>1. /\ "agy" \in rec.jobs /\ rec.at = "host" /\ rec'.left = {} /\ rec'.ok = rec.ok
        /\ rec'.at = IF "claude" \in rec.jobs THEN "bundle" ELSE "done"
    BY <1>2, <1>6 DEF InstallHost, MachineType, HelperInv
  <2>2. /\ target'.host = cache["agy"] /\ target'.lib = target.lib /\ target'.sdk = target.sdk
        /\ target'.bundled = target.bundled
    BY <1>6 DEF InstallHost, MachineType
  <2>3. QED
    BY <1>1, <1>2, <1>3, <1>6, <2>1, <2>2
    DEF InstallHost, HelperInv, SuccessMatchesPins, PreviousInv, BundleKept, RIdle, Installing,
        Accepts, Pinned
<1>7. CASE RenameAway
  <2>1. /\ "claude" \in rec.jobs /\ rec.at \in {"inputs", "bundle"} /\ rec'.left = {} /\ rec'.ok = rec.ok
        /\ rec'.at = "swap" /\ rec'.previous = target.bundled
        /\ rec.at = "inputs" => rec.jobs = {"claude"}
    BY <1>2, <1>7 DEF RenameAway, MachineType, HelperInv
  <2>2. /\ target'.host = target.host /\ target'.lib = target.lib /\ target'.sdk = target.sdk
    BY <1>7 DEF RenameAway, MachineType
  <2>3. QED
    BY <1>1, <1>2, <1>7, <2>1, <2>2
    DEF RenameAway, HelperInv, SuccessMatchesPins, PreviousInv, BundleKept, RIdle, Installing,
        Accepts, Pinned
<1>8. CASE RenameIn
  <2>1. /\ "claude" \in rec.jobs /\ rec.at = "swap" /\ rec'.left = {} /\ rec'.ok = rec.ok
        /\ rec'.at = "done"
    BY <1>2, <1>8 DEF RenameIn, MachineType, HelperInv
  <2>2. /\ target'.host = target.host /\ target'.lib = target.lib /\ target'.sdk = target.sdk
        /\ target'.bundled = cache["claude"]
    BY <1>8 DEF RenameIn, MachineType
  <2>3. target'.bundled # Nothing
    BY <1>4, <2>1, <2>2, PinnedContent
  <2>4. QED
    BY <1>1, <1>2, <1>4, <1>8, <2>1, <2>2, <2>3
    DEF RenameIn, HelperInv, SuccessMatchesPins, PreviousInv, BundleKept, RIdle, Installing,
        Accepts, Pinned
<1>9. CASE Finish
  <2>1. rec.at = "done" /\ rec'.at = "idle" /\ UNCHANGED <<target, had>>
    BY <1>9 DEF Finish, NotRun
  <2>2. "claude" \in rec.jobs => target.bundled = checkout.pin["claude-cli"]
                                 /\ target.bundled >= Bundled(target.sdk)
    <3>1. ASSUME "claude" \in rec.jobs
          PROVE  /\ target.sdk = checkout.tree["claude"].at
                 /\ target.bundled = checkout.pin["claude-cli"]
      BY <1>2, <2>1, <3>1 DEF HelperInv, Accepts
    <3>2. "claude" \in Trees /\ "claude" \in Runtimes /\ checkout \in Files /\ Main("claude") = "claude-sdk"
      BY PinnedFacts, ReconstructAssumption DEF FilesType, Rebuilt
    <3>3. Settled(checkout, "claude") /\ CliNotOlder(checkout)
      BY <1>2, <3>2, ConsistentMeans
    <3>4. checkout.tree["claude"].at = checkout.pin["claude-sdk"]
      BY <3>2, <3>3 DEF Settled
    <3>5. QED
      BY <3>1, <3>3, <3>4 DEF CliNotOlder
  <2>3. "agy" \in rec.jobs => target.lib = checkout.pin["agy"] /\ target.host = target.lib
    BY <2>1 DEF HelperInv
  <2>4. SuccessMatchesPins'
    BY <1>1, <2>1, <2>2, <2>3 DEF SuccessMatchesPins
  <2>5. HelperInv' /\ PreviousInv' /\ BundleKept'
    BY <1>2, <2>1 DEF HelperInv, PreviousInv, BundleKept, RIdle, Installing
  <2>6. QED
    BY <2>4, <2>5
<1>10. QED
  BY <1>5, <1>6, <1>7, <1>8, <1>9

\* A step that fails, and a helper that is killed.
LEMMA TroubleStep ==
  ASSUME MachineType, HelperInv, PreviousInv, BundleKept, StepFails \/ Killed
  PROVE  (HelperInv /\ SuccessMatchesPins /\ PreviousInv /\ BundleKept)'
<1>1. rec' = NotRun /\ checkout' = checkout
  BY DEF StepFails, Killed
<1>2. rec'.at = "idle" /\ ~rec'.ok
  BY <1>1 DEF NotRun
<1>3. (HelperInv /\ SuccessMatchesPins /\ PreviousInv)'
  BY <1>1, <1>2 DEF HelperInv, SuccessMatchesPins, PreviousInv, RIdle, Installing
<1>4. BundleKept'
  <2>1. CASE StepFails
    <3>1. target'.bundled = PutBack /\ had' = had
      BY <2>1 DEF StepFails, MachineType
    <3>2. QED
      BY <1>2, <3>1 DEF PutBack, PreviousInv, BundleKept
  <2>2. CASE Killed
    BY <2>2 DEF Killed, BundleKept
  <2>3. QED
    BY <2>1, <2>2
<1>5. QED
  BY <1>3, <1>4

----------------------------------------------------------------------------
(* The theorems.                                                           *)

\* The invariant of a release's life holds in every reachable state.
THEOREM ReleaseInvariant == Spec => []ReleaseInv
<1>1. ReleaseInit => ReleaseInv
  <2> SUFFICES ASSUME ReleaseInit PROVE ReleaseInv
    OBVIOUS
  <2>1. /\ latest = [c \in Components |-> 0] /\ head = Whole(latest) /\ work = NoTree /\ job = Idle
        /\ issues = {} /\ checkout = head /\ target = Package(head)
        /\ found = [r \in Rebuilt |-> 0] /\ cache = [r \in Rebuilt |-> Nothing]
        /\ rec = NotRun /\ had = FALSE
    BY DEF ReleaseInit, Init, RInit
  <2>2. 0 \in Version /\ latest \in [Components -> Version]
    BY <2>1, AdoptionAssumption DEF Version
  <2>3. head \in Files /\ head.pin = latest
    BY <2>1, <2>2, WholeFacts
  <2>4. FilesType /\ JobType
    BY <2>1, <2>2, <2>3, NoTreeFiles DEF FilesType, JobType
  <2>5. MachineType
    <3>1. target \in Target0 /\ rec \in Rec
      BY <2>1, <2>3, StartValues
    <3>2. QED
      BY <2>1, <2>2, <3>1 DEF MachineType, Target0, Rec, Content
  <2>6. ReleasedIsConsistent
    <3>1. "claude" \in Runtimes => head.pin["claude-cli"] = 0 /\ head.pin["claude-sdk"] = 0
      BY <2>1, <2>3, PartFacts
    <3>2. QED
      BY <2>1, <2>3, <3>1 DEF ReleasedIsConsistent, Consistent, Bundled
  <2>7. AdoptionInv
    BY <2>1 DEF AdoptionInv, Idle
  <2>8. HelperInv /\ SuccessMatchesPins /\ PreviousInv /\ BundleKept
    <3>1. rec.at = "idle"
      BY <2>1 DEF NotRun
    <3>2. QED
      BY <2>1, <2>6, <3>1, AtRest, NoReport DEF ReleasedIsConsistent, BundleKept
  <2>9. QED
    BY <2>4, <2>5, <2>6, <2>7, <2>8 DEF ReleaseInv
<1>2. ReleaseInv /\ [Next]_vars => ReleaseInv'
  <2> SUFFICES ASSUME ReleaseInv, [Next]_vars PROVE ReleaseInv'
    OBVIOUS
  <2>0. FilesType /\ JobType /\ MachineType /\ ReleasedIsConsistent /\ AdoptionInv
        /\ HelperInv /\ SuccessMatchesPins /\ PreviousInv /\ BundleKept
    BY DEF ReleaseInv
  <2>1. ASSUME UNCHANGED rvars
        PROVE  /\ (MachineType /\ HelperInv /\ SuccessMatchesPins /\ PreviousInv /\ BundleKept)'
               /\ checkout' = checkout
    <3>1. UNCHANGED <<checkout, cache, target, rec, had, found>>
      BY <2>1 DEF rvars
    <3>2. MachineType'
      BY <2>0, <3>1 DEF MachineType
    <3>3. QED
      BY <2>0, <3>1, <3>2, SelfUpdateStep
  <2>2. ASSUME UNCHANGED <<latest, head, work, job, issues, moved>>, checkout' \in Files
        PROVE  (FilesType /\ JobType /\ ReleasedIsConsistent /\ AdoptionInv)'
    <3>1. FilesType' /\ JobType'
      BY <2>0, <2>2 DEF FilesType, JobType
    <3>2. ReleasedIsConsistent'
      BY <2>0, <2>2 DEF ReleasedIsConsistent, Consistent
    <3>3. AdoptionInv'
      BY <2>0, <2>2 DEF AdoptionInv, Consistent, RestOf, Settled, CliNotOlder
    <3>4. QED
      BY <3>1, <3>2, <3>3
  <2>3. CASE AdoptionNext /\ UNCHANGED rvars
    <3>1. (MachineType /\ HelperInv /\ SuccessMatchesPins /\ PreviousInv /\ BundleKept)'
          /\ checkout' = checkout
      BY <2>1, <2>3
    <3>2. FilesType' /\ JobType'
      BY <2>0, <2>3, <3>1, AdoptionTypeStep
    <3>3. work' \in Files
      BY <3>2 DEF FilesType
    <3>4. ReleasedIsConsistent' /\ AdoptionInv'
      BY <2>0, <2>3, <3>2, <3>3, AdoptionStep
    <3>5. QED
      BY <3>1, <3>2, <3>4 DEF ReleaseInv
  <2>4. CASE MainMoves
    <3>1. /\ UNCHANGED <<latest, work, job, issues>> /\ UNCHANGED rvars
      BY <2>4 DEF MainMoves
    <3>2. head' \in Files /\ Consistent(head')
      BY <2>4, WholeFacts DEF MainMoves
    <3>3. (MachineType /\ HelperInv /\ SuccessMatchesPins /\ PreviousInv /\ BundleKept)'
          /\ checkout' = checkout
      BY <2>1, <3>1
    <3>4. FilesType' /\ JobType' /\ AdoptionInv'
      BY <2>0, <3>1, <3>2, <3>3 DEF FilesType, JobType, AdoptionInv, Consistent, RestOf,
         Settled, CliNotOlder
    <3>5. ReleasedIsConsistent'
      BY <3>2 DEF ReleasedIsConsistent
    <3>6. QED
      BY <3>3, <3>4, <3>5 DEF ReleaseInv
  <2>5. CASE ReconstructNext /\ UNCHANGED <<latest, head, work, job, issues, moved>>
    <3>1. MachineType' /\ checkout' \in Files
      BY <2>0, <2>5, MachineTypeStep
    <3>2. (FilesType /\ JobType /\ ReleasedIsConsistent /\ AdoptionInv)'
      BY <2>2, <2>5, <3>1
    <3>3. (HelperInv /\ SuccessMatchesPins /\ PreviousInv /\ BundleKept)'
      <4>1. CASE Pull \/ InstallPackage
        BY <2>0, <4>1, UserStep
      <4>2. CASE \E r \in Rebuilt, content \in Content : SelfUpdate(r, content)
        BY <2>0, <4>2, SelfUpdateStep DEF SelfUpdate
      <4>3. CASE \/ \E jobs \in SUBSET Rebuilt : Start(jobs)
                 \/ \E r \in Rebuilt : Select(r)
                 \/ Seed
        BY <2>0, <4>3, InputStep
      <4>4. CASE InstallLibrary \/ InstallHost \/ RenameAway \/ RenameIn \/ Finish
        BY <2>0, <4>4, InstallStep
      <4>5. CASE StepFails \/ Killed
        BY <2>0, <4>5, TroubleStep
      <4>6. QED
        BY <2>5, <4>1, <4>2, <4>3, <4>4, <4>5 DEF ReconstructNext
    <3>4. QED
      BY <3>1, <3>2, <3>3 DEF ReleaseInv
  <2>6. CASE UNCHANGED vars
    <3>1. UNCHANGED rvars /\ UNCHANGED <<latest, head, work, job, issues, moved>>
      BY <2>6 DEF vars, avars
    <3>2. (MachineType /\ HelperInv /\ SuccessMatchesPins /\ PreviousInv /\ BundleKept)'
          /\ checkout' = checkout
      BY <2>1, <3>1
    <3>3. (FilesType /\ JobType /\ ReleasedIsConsistent /\ AdoptionInv)'
      BY <2>0, <2>2, <3>1, <3>2 DEF FilesType
    <3>4. QED
      BY <3>2, <3>3 DEF ReleaseInv
  <2>7. QED
    BY <2>3, <2>4, <2>5, <2>6 DEF Next
<1>3. QED
  BY <1>1, <1>2, PTL DEF Spec

\* What is on main belongs together, whichever releases upstream publishes and
\* withdraws while a run adopts, and whatever fails (tools/runtimes.py, adopt,
\* shelve, and the workflow that publishes).
THEOREM MainStaysConsistent == Spec => []ReleasedIsConsistent
<1>1. ReleaseInv => ReleasedIsConsistent
  BY DEF ReleaseInv
<1>2. QED
  BY ReleaseInvariant, <1>1, PTL

\* A reported success is one of the pinned releases (reconstruct.py, main),
\* although executables change while they are copied.
THEOREM SuccessIsPinned == Spec => []SuccessMatchesPins
<1>1. ReleaseInv => SuccessMatchesPins
  BY DEF ReleaseInv
<1>2. QED
  BY ReleaseInvariant, <1>1, PTL

\* An installed Claude Code is kept when a later reconstruction fails
\* (reconstruct.py, install_claude).
THEOREM InstalledIsKept == Spec => []BundleKept
<1>1. ReleaseInv => BundleKept
  BY DEF ReleaseInv
<1>2. QED
  BY ReleaseInvariant, <1>1, PTL
=============================================================================
