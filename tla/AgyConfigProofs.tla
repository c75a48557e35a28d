--------------------------- MODULE AgyConfigProofs ---------------------------
(***************************************************************************)
(* Theorems about the two configuration files that pyagy borrows, for any  *)
(* number of channels, runs, server names, retries, edits and deaths of    *)
(* the program.                                                            *)
(*                                                                         *)
(* .agents/hooks.json: what a user wrote is never lost but in the window   *)
(* that the code leaves open, the hooks in it are those of the started     *)
(* channels, and the last channel leaves the workspace as the first one    *)
(* found it.                                                               *)
(*                                                                         *)
(* mcp_config.json: no run leaves a server behind, and what the user wrote *)
(* is there again when the last run has closed.  The invariant says which  *)
(* server the file shows for a name, and for which layer, in every state   *)
(* between the reading and the writing of an operation.                    *)
(***************************************************************************)
EXTENDS AgyConfig, SequenceTheorems, TLAPS

----------------------------------------------------------------------------
(* hooks.json: what the holder of the flock knows                          *)

StartPhases == {"start_read", "start_register", "start_check", "start_replace",
                "start_undo", "start_rmdir"}
ClosePhases == {"close_read", "close_check", "close_replace", "close_rmdir", "close_registry"}

\* Where the file as read is compared with, and then written over, the file.
Reading == {"start_register", "start_check", "start_replace", "close_check", "close_replace"}

\* Who is in the locked section, and that it has an attempt left.
SectionInv ==
  /\ holder = NoChannel <=> phase = "none"
  /\ phase \in StartPhases => status[holder] = "new"
  /\ phase \in ClosePhases => status[holder] = "started"
  /\ phase \in {"none", "start_read", "start_register", "start_check", "start_replace",
                "close_read", "close_check"} => tries < Retries

\* What was read is still there, unless somebody wrote meanwhile, and that is
\* noticed but in the last moment.
SeenInv ==
  /\ fresh /\ phase \in Reading => seen = H!Content
  /\ phase \in {"start_replace", "close_replace"} => fresh \/ hookRaced
  /\ seen.user # Garbage
  /\ user = Garbage => entry = H!NoEntries

\* Entries by the status of their channel, in the file and in what was read of it.
EntryInv ==
  /\ \A c \in Channels :
       /\ status[c] = "new" => entry[c] = "none" /\ seen.entry[c] = "none"
       /\ status[c] = "closed" => entry[c] # "ours" /\ seen.entry[c] # "ours"
  /\ phase \in {"close_check", "close_replace"} => seen.entry[holder] = "ours"
  /\ phase \in {"close_rmdir", "close_registry"} => entry[holder] # "ours"

HookInv == /\ H!TypeOK /\ SectionInv /\ SeenInv /\ EntryInv
           /\ H!HookEditsKept /\ H!RegistrationMatchesStatus

----------------------------------------------------------------------------
(* hooks.json: the books that the channels keep of what they created        *)

\* Nobody but the channels was there, and none of them died.
Undisturbed == hookEdits = 0 /\ \A c \in Channels : status[c] # "dead"

Hooked == {c \in Channels : entry[c] # "none"}
Found  == initial.content.file
Dir    == initial.agents

Books(S) == IF S = {} THEN NoRegistry
            ELSE [entries |-> S, config |-> ~Found, agents |-> ~Dir]

\* The workspace as the first channel found it, and what is there now.
WorkspaceInv ==
  /\ initial.content = [file |-> Found, user |-> user, entry |-> H!NoEntries]
  /\ (Found => Dir) /\ (~Found => user = Nothing) /\ user # Garbage
  /\ Found \in BOOLEAN /\ Dir \in BOOLEAN
  /\ ~hookRaced /\ touched = {}
  /\ \A c \in Channels : entry[c] # "edited"
  /\ hooksFile <=> Found \/ Hooked # {}
  /\ agents <=> Dir \/ Hooked # {} \/ phase \in {"start_register", "start_check",
                                                "start_replace", "close_rmdir"}
  /\ phase = "close_rmdir" => ~Dir
  /\ phase \in Reading => fresh
  /\ phase \notin {"start_undo", "start_rmdir"}

\* What the registry says in each phase, and what the holder remembers of it.
RegistryInv ==
  /\ phase \in {"none", "start_read", "start_register", "close_read", "close_check",
                "close_replace"} => registry = Books(Hooked)
  /\ phase \in {"start_check", "start_replace"} => registry = Books(Hooked \cup {holder})
  /\ phase = "start_register" => /\ before = registry
                                 /\ madeDir <=> ~(Dir \/ Hooked # {})
  /\ phase \in {"close_read", "close_check", "close_replace"} =>
       before = registry /\ entry[holder] = "ours"
  /\ phase \in {"close_rmdir", "close_registry"} =>
       before = Books(Hooked \cup {holder}) /\ entry[holder] = "none"

RestoreInv == Undisturbed => WorkspaceInv /\ RegistryInv

----------------------------------------------------------------------------
(* The variables of hooks.json keep their types.                           *)

\* The file, the section and the rest of H!TypeOK.
ContentType == /\ H!Content \in H!Contents
               /\ hooksFile => agents
               /\ ~hooksFile => user = Nothing /\ entry = H!NoEntries
SectionType == /\ holder \in Channels \cup {NoChannel} /\ phase \in H!Phase
               /\ tries \in 0..Retries
               /\ seen \in H!Contents /\ before \in H!Registry \cup {NoRegistry}
               /\ madeDir \in BOOLEAN /\ fresh \in BOOLEAN
OtherType   == /\ agents \in BOOLEAN
               /\ registry \in H!Registry \cup {NoRegistry}
               /\ status \in [Channels -> {"new", "started", "closed", "abandoned", "dead"}]
               /\ hookEdits \in 0..MaxHookEdits
               /\ lastUser \in [part : Parts, edited : SUBSET Channels]
               /\ touched \subseteq Channels /\ hookRaced \in BOOLEAN

\* The type invariant, in the three parts that the actions disturb separately.
LEMMA HookTypeParts == H!TypeOK <=> ContentType /\ SectionType /\ OtherType
  BY DEF H!TypeOK, ContentType, SectionType, OtherType

\* At first every variable has its type.
LEMMA HookTypeInit == H!Init => H!TypeOK
<1> USE ChannelAssumption, PartAssumption, RetryAssumption DEF H!NoEntries, H!Entry
<1> SUFFICES ASSUME H!Init PROVE ContentType /\ SectionType /\ OtherType
  BY HookTypeParts
<1>1. user \in Parts /\ entry \in [Channels -> H!Entry]
  BY DEF H!Init
<1>2. H!Content \in H!Contents
  BY <1>1 DEF H!Init, H!Content, H!Contents
<1>3. lastUser \in [part : Parts, edited : SUBSET Channels]
  BY <1>1 DEF H!Init
<1>4. status \in [Channels -> {"new", "started", "closed", "abandoned", "dead"}]
  BY DEF H!Init
<1>5. ContentType
  BY <1>2 DEF H!Init, ContentType
<1>6. SectionType
  <2>1. tries \in 0..Retries /\ phase \in H!Phase
    BY DEF H!Init, H!Phase
  <2>2. /\ holder \in Channels \cup {NoChannel} /\ seen \in H!Contents
        /\ before \in H!Registry \cup {NoRegistry} /\ madeDir \in BOOLEAN /\ fresh \in BOOLEAN
    BY <1>2 DEF H!Init
  <2>3. QED
    BY <2>1, <2>2 DEF SectionType
<1>7. OtherType
  <2>1. hookEdits \in 0..MaxHookEdits
    BY DEF H!Init
  <2>2. /\ agents \in BOOLEAN /\ registry \in H!Registry \cup {NoRegistry}
        /\ touched \subseteq Channels /\ hookRaced \in BOOLEAN
    BY DEF H!Init
  <2>3. QED
    BY <1>3, <1>4, <2>1, <2>2 DEF OtherType
<1>8. QED
  BY <1>5, <1>6, <1>7

\* Outside the section its variables have their initial values.
LEMMA ReleaseType == H!Release => SectionType'
<1> SUFFICES ASSUME H!Release PROVE SectionType'
  OBVIOUS
<1>1. seen' \in H!Contents
  BY PartAssumption DEF H!Release, H!Contents, H!NoEntries, H!Entry
<1>2. tries' \in 0..Retries
  BY RetryAssumption DEF H!Release
<1>3. /\ holder' \in Channels \cup {NoChannel} /\ before' \in H!Registry \cup {NoRegistry}
      /\ madeDir' \in BOOLEAN /\ fresh' \in BOOLEAN
  BY DEF H!Release
<1>4. phase' \in H!Phase
  BY DEF H!Release, H!Phase
<1>5. QED
  BY <1>1, <1>2, <1>3, <1>4 DEF SectionType

\* Every step keeps the types of the file and of what was read of it.
LEMMA ContentStep ==
  ASSUME H!TypeOK, H!Next \/ UNCHANGED hvars
  PROVE  ContentType'
<1> USE PartAssumption, ChannelAssumption DEF H!TypeOK, ContentType, H!Content, H!Contents,
      H!Entry, H!NoEntries, H!At, H!Goto, H!Locals, H!fileVars, H!sectionVars, H!historyVars
<1>1. ASSUME NEW c \in Channels, H!StartLock(c) PROVE ContentType'
  BY <1>1 DEF H!StartLock
<1>2. ASSUME NEW c \in Channels, H!CloseUnstarted(c) PROVE ContentType'
  BY <1>2 DEF H!CloseUnstarted
<1>3. ASSUME NEW c \in Channels, H!CloseLock(c) PROVE ContentType'
  BY <1>3 DEF H!CloseLock
<1>4. ASSUME NEW c \in Channels, H!Crash(c) PROVE ContentType'
  BY <1>4 DEF H!Crash, H!Release
<1>5. CASE H!StartRead
  BY <1>5 DEF H!StartRead, H!Release
<1>6. CASE H!StartRegister
  BY <1>6 DEF H!StartRegister
<1>7. CASE H!StartCheck
  BY <1>7 DEF H!StartCheck
<1>8. CASE H!StartReplace
  <2>1. /\ agents /\ UNCHANGED agents
        /\ hooksFile' = TRUE /\ user' = seen.user /\ entry' = [seen.entry EXCEPT ![holder] = "ours"]
        \/ UNCHANGED H!fileVars
    BY <1>8 DEF H!StartReplace
  <2>2. CASE UNCHANGED H!fileVars
    BY <2>2
  <2>3. CASE /\ agents /\ UNCHANGED agents /\ hooksFile' = TRUE /\ user' = seen.user
             /\ entry' = [seen.entry EXCEPT ![holder] = "ours"]
    BY <2>3
  <2>4. QED
    BY <2>1, <2>2, <2>3
<1>9. CASE H!StartUndo
  BY <1>9 DEF H!StartUndo
<1>10. CASE H!StartRmdir
  BY <1>10 DEF H!StartRmdir, H!Release
<1>11. CASE H!CloseRead
  BY <1>11 DEF H!CloseRead
<1>12. CASE H!CloseCheck
  BY <1>12 DEF H!CloseCheck, H!Release, H!Become, H!RemovesFile, H!Remaining, H!Created
<1>13. CASE H!CloseReplace
  <2>1. CASE UNCHANGED H!fileVars
    BY <2>1
  <2>2. CASE /\ hooksFile' = ~H!RemovesFile /\ user' = seen.user /\ entry' = H!Remaining
             /\ UNCHANGED agents /\ (H!RemovesFile \/ agents)
    <3>1. H!Remaining \in [Channels -> H!Entry]
      BY DEF H!Remaining
    <3>2. H!Content' \in H!Contents
      BY <2>2, <3>1
    <3>3. H!RemovesFile => seen.user = Nothing /\ H!Remaining = H!NoEntries
      BY DEF H!RemovesFile
    <3>4. QED
      BY <2>2, <3>2, <3>3
  <2>3. QED
    BY <1>13, <2>1, <2>2 DEF H!CloseReplace
<1>14. CASE H!CloseRmdir
  BY <1>14 DEF H!CloseRmdir
<1>15. CASE H!CloseRegistry
  BY <1>15 DEF H!CloseRegistry, H!Release, H!Become
<1>16. ASSUME NEW u \in Parts, NEW e \in [Channels -> H!Entry], H!UserWrites(u, e) PROVE ContentType'
  BY <1>16 DEF H!UserWrites
<1>17. CASE H!UserRemoves
  BY <1>17 DEF H!UserRemoves
<1>18. CASE UNCHANGED hvars
  BY <1>18 DEF hvars
<1>19. QED
  BY <1>1, <1>2, <1>3, <1>4, <1>5, <1>6, <1>7, <1>8, <1>9, <1>10, <1>11, <1>12, <1>13, <1>14,
     <1>15, <1>16, <1>17, <1>18 DEF H!Next, H!SectionStep

\* Every step keeps the types of the flock, the phase and the attempts.
LEMMA SectionTypeStep ==
  ASSUME ContentType, SectionType, OtherType, SectionInv, H!Next \/ UNCHANGED hvars
  PROVE  SectionType'
<1> USE ChannelAssumption, RetryAssumption DEF SectionType, SectionInv, StartPhases,
      H!Phase, H!At, H!Goto, H!Locals, H!fileVars, H!sectionVars, H!historyVars
<1>1. ASSUME NEW c \in Channels, H!StartLock(c) PROVE SectionType'
  BY <1>1 DEF H!StartLock
<1>2. ASSUME NEW c \in Channels, H!CloseUnstarted(c) PROVE SectionType'
  BY <1>2 DEF H!CloseUnstarted
<1>3. ASSUME NEW c \in Channels, H!CloseLock(c) PROVE SectionType'
  BY <1>3 DEF H!CloseLock, ContentType, OtherType
<1>4. ASSUME NEW c \in Channels, H!Crash(c) PROVE SectionType'
  <2>1. CASE H!Release
    BY <2>1, ReleaseType
  <2>2. CASE ~H!Release
    BY <1>4, <2>2 DEF H!Crash
  <2>3. QED
    BY <2>1, <2>2
<1>5. CASE H!StartRead
  <2>1. CASE H!Release
    BY <2>1, ReleaseType
  <2>2. CASE ~H!Release
    BY <1>5, <2>2 DEF H!StartRead, ContentType, OtherType
  <2>3. QED
    BY <2>1, <2>2
<1>6. CASE H!StartRegister
  BY <1>6 DEF H!StartRegister
<1>7. CASE H!StartCheck
  BY <1>7 DEF H!StartCheck
<1>8. CASE H!StartReplace
  <2>1. CASE H!Release
    BY <2>1, ReleaseType
  <2>2. CASE ~H!Release
    BY <1>8, <2>2 DEF H!StartReplace
  <2>3. QED
    BY <2>1, <2>2
<1>9. CASE H!StartUndo
  BY <1>9 DEF H!StartUndo
<1>10. CASE H!StartRmdir
  <2>1. CASE H!Release
    BY <2>1, ReleaseType
  <2>2. CASE ~H!Release
    BY <1>10, <2>2 DEF H!StartRmdir
  <2>3. QED
    BY <2>1, <2>2
<1>11. CASE H!CloseRead
  BY <1>11 DEF H!CloseRead, ContentType, OtherType
<1>12. CASE H!CloseCheck
  <2>1. CASE H!Release
    BY <2>1, ReleaseType
  <2>2. CASE ~H!Release
    BY <1>12, <2>2 DEF H!CloseCheck
  <2>3. QED
    BY <2>1, <2>2
<1>13. CASE H!CloseReplace
  BY <1>13 DEF H!CloseReplace, H!RemovesFile, H!Remaining, H!Created
<1>14. CASE H!CloseRmdir
  BY <1>14 DEF H!CloseRmdir
<1>15. CASE H!CloseRegistry
  <2>1. CASE H!Release
    BY <2>1, ReleaseType
  <2>2. CASE ~H!Release
    BY <1>15, <2>2 DEF H!CloseRegistry
  <2>3. QED
    BY <2>1, <2>2
<1>16. ASSUME NEW u \in Parts, NEW e \in [Channels -> H!Entry], H!UserWrites(u, e) PROVE SectionType'
  BY <1>16 DEF H!UserWrites
<1>17. CASE H!UserRemoves
  BY <1>17 DEF H!UserRemoves
<1>18. CASE UNCHANGED hvars
  BY <1>18 DEF hvars
<1>19. QED
  BY <1>1, <1>2, <1>3, <1>4, <1>5, <1>6, <1>7, <1>8, <1>9, <1>10, <1>11, <1>12, <1>13, <1>14,
     <1>15, <1>16, <1>17, <1>18 DEF H!Next, H!SectionStep

\* Every step keeps the types of the registry, the workspace and the history.
LEMMA OtherTypeStep ==
  ASSUME ContentType, SectionType, OtherType, H!Next \/ UNCHANGED hvars
  PROVE  OtherType'
<1> USE RetryAssumption DEF OtherType, H!Become, H!At, H!Goto, H!Locals, H!fileVars,
      H!sectionVars, H!historyVars
<1>1. ASSUME NEW c \in Channels, H!StartLock(c) PROVE OtherType'
  BY <1>1 DEF H!StartLock
<1>2. ASSUME NEW c \in Channels, H!CloseUnstarted(c) PROVE OtherType'
  BY <1>2 DEF H!CloseUnstarted
<1>3. ASSUME NEW c \in Channels, H!CloseLock(c) PROVE OtherType'
  BY <1>3 DEF H!CloseLock
<1>4. ASSUME NEW c \in Channels, H!Crash(c) PROVE OtherType'
  BY <1>4 DEF H!Crash, H!Release
<1>5. CASE H!StartRead
  BY <1>5 DEF H!StartRead, H!Release
<1>6. CASE H!StartRegister
  <2>1. H!Registered(holder) \in H!Registry
    <3> DEFINE kept == IF before = NoRegistry THEN {} ELSE {k \in before.entries : seen.entry[k] # "none"}
    <3>1. holder \in Channels
      BY <1>6 DEF H!StartRegister, SectionType
    <3>2. kept \subseteq Channels
      BY DEF SectionType, H!Registry
    <3>3. seen.file \in BOOLEAN /\ madeDir \in BOOLEAN
      BY DEF SectionType, H!Contents
    <3>4. CASE kept = {}
      <4>1. H!Registered(holder) = [entries |-> {holder}, config |-> ~seen.file, agents |-> madeDir]
        BY <3>4 DEF H!Registered
      <4>2. QED
        BY <4>1, <3>1, <3>3 DEF H!Registry
    <3>5. CASE kept # {}
      <4>1. before \in H!Registry
        BY <3>5 DEF SectionType
      <4>2. H!Registered(holder) = [before EXCEPT !.entries = kept \cup {holder}]
        BY <3>5 DEF H!Registered
      <4>3. QED
        BY <4>1, <4>2, <3>1, <3>2 DEF H!Registry
    <3>6. QED
      BY <3>4, <3>5
  <2>2. QED
    BY <1>6, <2>1 DEF H!StartRegister
<1>7. CASE H!StartCheck
  BY <1>7 DEF H!StartCheck
<1>8. CASE H!StartReplace
  BY <1>8 DEF H!StartReplace, H!Release, H!Become
<1>9. CASE H!StartUndo
  BY <1>9 DEF H!StartUndo, SectionType
<1>10. CASE H!StartRmdir
  BY <1>10 DEF H!StartRmdir, H!Release
<1>11. CASE H!CloseRead
  BY <1>11 DEF H!CloseRead
<1>12. CASE H!CloseCheck
  BY <1>12 DEF H!CloseCheck, H!Release, H!Become, H!RemovesFile, H!Remaining, H!Created
<1>13. CASE H!CloseReplace
  BY <1>13 DEF H!CloseReplace, H!RemovesFile, H!Remaining, H!Created
<1>14. CASE H!CloseRmdir
  BY <1>14 DEF H!CloseRmdir
<1>15. CASE H!CloseRegistry
  <2> DEFINE left == IF before = NoRegistry THEN {} ELSE before.entries \ {holder}
  <2>1. registry' = IF left = {} THEN NoRegistry ELSE [before EXCEPT !.entries = left]
    BY <1>15 DEF H!CloseRegistry
  <2>2. registry' \in H!Registry \cup {NoRegistry}
    BY <2>1 DEF SectionType, H!Registry
  <2>3. QED
    BY <1>15, <2>2 DEF H!CloseRegistry, H!Become
<1>16. ASSUME NEW u \in Parts, NEW e \in [Channels -> H!Entry], H!UserWrites(u, e) PROVE OtherType'
  <2>1. {k \in Channels : e[k] = "edited"} \subseteq Channels /\ {k \in Channels : e[k] # entry[k]} \subseteq Channels
    OBVIOUS
  <2>2. hookEdits' \in 0..MaxHookEdits
    BY <1>16 DEF H!UserWrites
  <2>3. lastUser' \in [part : Parts, edited : SUBSET Channels] /\ touched' \subseteq Channels
    BY <1>16, <2>1 DEF H!UserWrites
  <2>4. agents' \in BOOLEAN /\ hookRaced' \in BOOLEAN /\ UNCHANGED <<registry, status>>
    BY <1>16 DEF H!UserWrites
  <2>5. QED
    BY <2>2, <2>3, <2>4
<1>17. CASE H!UserRemoves
  <2>1. hookEdits' \in 0..MaxHookEdits
    BY <1>17 DEF H!UserRemoves
  <2>2. lastUser' \in [part : Parts, edited : SUBSET Channels] /\ touched' \subseteq Channels
    BY <1>17, PartAssumption DEF H!UserRemoves
  <2>3. agents' \in BOOLEAN /\ hookRaced' \in BOOLEAN /\ UNCHANGED <<registry, status>>
    BY <1>17 DEF H!UserRemoves
  <2>4. QED
    BY <2>1, <2>2, <2>3
<1>18. CASE UNCHANGED hvars
  BY <1>18 DEF hvars
<1>19. QED
  BY <1>1, <1>2, <1>3, <1>4, <1>5, <1>6, <1>7, <1>8, <1>9, <1>10, <1>11, <1>12, <1>13, <1>14,
     <1>15, <1>16, <1>17, <1>18 DEF H!Next, H!SectionStep

----------------------------------------------------------------------------
(* The section, and what was read in it.                                   *)

\* Every step keeps SectionInv.
LEMMA SectionStep ==
  ASSUME ContentType, SectionType, OtherType, SectionInv, H!Next \/ UNCHANGED hvars
  PROVE  SectionInv'
<1> USE ChannelAssumption, RetryAssumption DEF SectionInv, SectionType, OtherType,
      StartPhases, ClosePhases, H!Release, H!Become, H!Phase, H!At, H!Goto, H!Locals, H!fileVars,
      H!sectionVars, H!historyVars
<1>1. ASSUME NEW c \in Channels, H!StartLock(c) PROVE SectionInv'
  BY <1>1 DEF H!StartLock
<1>2. ASSUME NEW c \in Channels, H!CloseUnstarted(c) PROVE SectionInv'
  BY <1>2 DEF H!CloseUnstarted
<1>3. ASSUME NEW c \in Channels, H!CloseLock(c) PROVE SectionInv'
  BY <1>3 DEF H!CloseLock
<1>4. ASSUME NEW c \in Channels, H!Crash(c) PROVE SectionInv'
  BY <1>4 DEF H!Crash, H!Release
<1>5. CASE H!StartRead
  BY <1>5 DEF H!StartRead, H!Release
<1>6. CASE H!StartRegister
  BY <1>6 DEF H!StartRegister
<1>7. CASE H!StartCheck
  BY <1>7 DEF H!StartCheck
<1>8. CASE H!StartReplace
  BY <1>8 DEF H!StartReplace, H!Release, H!Become
<1>9. CASE H!StartUndo
  BY <1>9 DEF H!StartUndo
<1>10. CASE H!StartRmdir
  BY <1>10 DEF H!StartRmdir, H!Release
<1>11. CASE H!CloseRead
  BY <1>11 DEF H!CloseRead
<1>12. CASE H!CloseCheck
  BY <1>12 DEF H!CloseCheck, H!Release, H!Become, H!RemovesFile, H!Remaining, H!Created
<1>13. CASE H!CloseReplace
  BY <1>13 DEF H!CloseReplace, H!RemovesFile, H!Remaining, H!Created
<1>14. CASE H!CloseRmdir
  BY <1>14 DEF H!CloseRmdir
<1>15. CASE H!CloseRegistry
  BY <1>15 DEF H!CloseRegistry, H!Release, H!Become
<1>16. ASSUME NEW u \in Parts, NEW e \in [Channels -> H!Entry], H!UserWrites(u, e) PROVE SectionInv'
  BY <1>16 DEF H!UserWrites
<1>17. CASE H!UserRemoves
  BY <1>17 DEF H!UserRemoves
<1>18. CASE UNCHANGED hvars
  BY <1>18 DEF hvars
<1>19. QED
  BY <1>1, <1>2, <1>3, <1>4, <1>5, <1>6, <1>7, <1>8, <1>9, <1>10, <1>11, <1>12, <1>13, <1>14,
     <1>15, <1>16, <1>17, <1>18 DEF H!Next, H!SectionStep

\* Every step keeps SeenInv.
LEMMA SeenStep ==
  ASSUME ContentType, SectionType, OtherType, SectionInv, SeenInv, H!Next \/ UNCHANGED hvars
  PROVE  SeenInv'
<1> USE PartAssumption DEF SeenInv, SectionInv, SectionType, ContentType, Reading,
      H!Content, H!Contents, H!Release, H!At, H!Goto, H!Locals, H!fileVars, H!sectionVars,
      H!historyVars
<1>1. ASSUME NEW c \in Channels, H!StartLock(c) PROVE SeenInv'
  BY <1>1 DEF H!StartLock
<1>2. ASSUME NEW c \in Channels, H!CloseUnstarted(c) PROVE SeenInv'
  BY <1>2 DEF H!CloseUnstarted
<1>3. ASSUME NEW c \in Channels, H!CloseLock(c) PROVE SeenInv'
  BY <1>3 DEF H!CloseLock
<1>4. ASSUME NEW c \in Channels, H!Crash(c) PROVE SeenInv'
  BY <1>4 DEF H!Crash, H!Release
<1>5. CASE H!StartRead
  BY <1>5 DEF H!StartRead, H!Release
<1>6. CASE H!StartRegister
  BY <1>6 DEF H!StartRegister
<1>7. CASE H!StartCheck
  BY <1>7 DEF H!StartCheck
<1>8. CASE H!StartReplace
  BY <1>8 DEF H!StartReplace, H!Release, H!Become
<1>9. CASE H!StartUndo
  BY <1>9 DEF H!StartUndo
<1>10. CASE H!StartRmdir
  BY <1>10 DEF H!StartRmdir, H!Release
<1>11. CASE H!CloseRead
  BY <1>11 DEF H!CloseRead
<1>12. CASE H!CloseCheck
  BY <1>12 DEF H!CloseCheck, H!Release, H!Become, H!RemovesFile, H!Remaining, H!Created
<1>13. CASE H!CloseReplace
  BY <1>13 DEF H!CloseReplace, H!RemovesFile, H!Remaining, H!Created
<1>14. CASE H!CloseRmdir
  BY <1>14 DEF H!CloseRmdir
<1>15. CASE H!CloseRegistry
  BY <1>15 DEF H!CloseRegistry, H!Release, H!Become
<1>16. ASSUME NEW u \in Parts, NEW e \in [Channels -> H!Entry], H!UserWrites(u, e) PROVE SeenInv'
  BY <1>16 DEF H!UserWrites
<1>17. CASE H!UserRemoves
  BY <1>17 DEF H!UserRemoves
<1>18. CASE UNCHANGED hvars
  BY <1>18 DEF hvars
<1>19. QED
  BY <1>1, <1>2, <1>3, <1>4, <1>5, <1>6, <1>7, <1>8, <1>9, <1>10, <1>11, <1>12, <1>13, <1>14,
     <1>15, <1>16, <1>17, <1>18 DEF H!Next, H!SectionStep

\* Every step keeps EntryInv.
LEMMA EntryStep ==
  ASSUME ContentType, SectionType, OtherType, SectionInv, SeenInv, EntryInv,
         H!Next \/ UNCHANGED hvars
  PROVE  EntryInv'
<1> USE ChannelAssumption DEF EntryInv, SeenInv, SectionInv, SectionType, ContentType,
      OtherType, StartPhases, ClosePhases, Reading, H!Content, H!Contents, H!Entry, H!Become,
      H!NoEntries, H!Release, H!At, H!Goto, H!Locals, H!fileVars, H!sectionVars, H!historyVars
<1>1. ASSUME NEW c \in Channels, H!StartLock(c) PROVE EntryInv'
  BY <1>1 DEF H!StartLock
<1>2. ASSUME NEW c \in Channels, H!CloseUnstarted(c) PROVE EntryInv'
  BY <1>2 DEF H!CloseUnstarted
<1>3. ASSUME NEW c \in Channels, H!CloseLock(c) PROVE EntryInv'
  BY <1>3 DEF H!CloseLock
<1>4. ASSUME NEW c \in Channels, H!Crash(c) PROVE EntryInv'
  BY <1>4 DEF H!Crash, H!Release
<1>5. CASE H!StartRead
  BY <1>5 DEF H!StartRead, H!Release
<1>6. CASE H!StartRegister
  BY <1>6 DEF H!StartRegister
<1>7. CASE H!StartCheck
  BY <1>7 DEF H!StartCheck
<1>8. CASE H!StartReplace
  BY <1>8 DEF H!StartReplace, H!Release, H!Become
<1>9. CASE H!StartUndo
  BY <1>9 DEF H!StartUndo
<1>10. CASE H!StartRmdir
  BY <1>10 DEF H!StartRmdir, H!Release
<1>11. CASE H!CloseRead
  BY <1>11 DEF H!CloseRead
<1>12. CASE H!CloseCheck
  BY <1>12 DEF H!CloseCheck, H!Release, H!Become, H!RemovesFile, H!Remaining, H!Created
<1>13. CASE H!CloseReplace
  BY <1>13 DEF H!CloseReplace, H!RemovesFile, H!Remaining, H!Created
<1>14. CASE H!CloseRmdir
  BY <1>14 DEF H!CloseRmdir
<1>15. CASE H!CloseRegistry
  BY <1>15 DEF H!CloseRegistry, H!Release, H!Become
<1>16. ASSUME NEW u \in Parts, NEW e \in [Channels -> H!Entry], H!UserWrites(u, e) PROVE EntryInv'
  BY <1>16 DEF H!UserWrites
<1>17. CASE H!UserRemoves
  BY <1>17 DEF H!UserRemoves
<1>18. CASE UNCHANGED hvars
  BY <1>18 DEF hvars
<1>19. QED
  BY <1>1, <1>2, <1>3, <1>4, <1>5, <1>6, <1>7, <1>8, <1>9, <1>10, <1>11, <1>12, <1>13, <1>14,
     <1>15, <1>16, <1>17, <1>18 DEF H!Next, H!SectionStep

\* Every step keeps HookEditsKept.
LEMMA EditsStep ==
  ASSUME ContentType, SectionType, OtherType, SectionInv, SeenInv, EntryInv, H!HookEditsKept,
         H!Next \/ UNCHANGED hvars
  PROVE  H!HookEditsKept'
<1> USE DEF H!HookEditsKept, EntryInv, SeenInv, SectionInv, SectionType, ContentType,
   OtherType, StartPhases, ClosePhases, Reading, H!Content, H!Contents, H!Entry, H!NoEntries,
   H!At, H!Goto, H!Locals, H!fileVars, H!sectionVars, H!historyVars
<1>1. ASSUME NEW c \in Channels, H!StartLock(c) PROVE H!HookEditsKept'
  BY <1>1 DEF H!StartLock
<1>2. ASSUME NEW c \in Channels, H!CloseUnstarted(c) PROVE H!HookEditsKept'
  BY <1>2 DEF H!CloseUnstarted
<1>3. ASSUME NEW c \in Channels, H!CloseLock(c) PROVE H!HookEditsKept'
  BY <1>3 DEF H!CloseLock
<1>4. ASSUME NEW c \in Channels, H!Crash(c) PROVE H!HookEditsKept'
  BY <1>4 DEF H!Crash, H!Release
<1>5. CASE H!StartRead
  BY <1>5 DEF H!StartRead, H!Release
<1>6. CASE H!StartRegister
  BY <1>6 DEF H!StartRegister
<1>7. CASE H!StartCheck
  BY <1>7 DEF H!StartCheck
<1>8. CASE H!StartReplace
  BY <1>8 DEF H!StartReplace, H!Release, H!Become
<1>9. CASE H!StartUndo
  BY <1>9 DEF H!StartUndo
<1>10. CASE H!StartRmdir
  BY <1>10 DEF H!StartRmdir, H!Release
<1>11. CASE H!CloseRead
  BY <1>11 DEF H!CloseRead
<1>12. CASE H!CloseCheck
  BY <1>12 DEF H!CloseCheck, H!Release, H!Become, H!RemovesFile, H!Remaining, H!Created
<1>13. CASE H!CloseReplace
  BY <1>13 DEF H!CloseReplace, H!RemovesFile, H!Remaining, H!Created
<1>14. CASE H!CloseRmdir
  BY <1>14 DEF H!CloseRmdir
<1>15. CASE H!CloseRegistry
  BY <1>15 DEF H!CloseRegistry, H!Release, H!Become
<1>16. ASSUME NEW u \in Parts, NEW e \in [Channels -> H!Entry], H!UserWrites(u, e) PROVE H!HookEditsKept'
  BY <1>16 DEF H!UserWrites
<1>17. CASE H!UserRemoves
  BY <1>17 DEF H!UserRemoves
<1>18. CASE UNCHANGED hvars
  BY <1>18 DEF hvars
<1>19. QED
  BY <1>1, <1>2, <1>3, <1>4, <1>5, <1>6, <1>7, <1>8, <1>9, <1>10, <1>11, <1>12, <1>13, <1>14,
     <1>15, <1>16, <1>17, <1>18 DEF H!Next, H!SectionStep

\* Every step keeps RegistrationMatchesStatus.
LEMMA RegistrationStep ==
  ASSUME ContentType, SectionType, OtherType, SectionInv, SeenInv, EntryInv, H!StartedIsRegistered,
         H!Next \/ UNCHANGED hvars
  PROVE  H!StartedIsRegistered'
<1> USE ChannelAssumption DEF H!StartedIsRegistered, EntryInv, SeenInv, SectionInv,
      SectionType, ContentType, OtherType, StartPhases, ClosePhases, Reading, H!Content,
      H!Contents, H!Entry, H!Become, H!Release, H!At, H!Goto, H!Locals, H!fileVars, H!sectionVars,
      H!historyVars
<1>1. ASSUME NEW c \in Channels, H!StartLock(c) PROVE H!StartedIsRegistered'
  BY <1>1 DEF H!StartLock
<1>2. ASSUME NEW c \in Channels, H!CloseUnstarted(c) PROVE H!StartedIsRegistered'
  BY <1>2 DEF H!CloseUnstarted
<1>3. ASSUME NEW c \in Channels, H!CloseLock(c) PROVE H!StartedIsRegistered'
  BY <1>3 DEF H!CloseLock
<1>4. ASSUME NEW c \in Channels, H!Crash(c) PROVE H!StartedIsRegistered'
  BY <1>4 DEF H!Crash, H!Release
<1>5. CASE H!StartRead
  BY <1>5 DEF H!StartRead, H!Release
<1>6. CASE H!StartRegister
  BY <1>6 DEF H!StartRegister
<1>7. CASE H!StartCheck
  BY <1>7 DEF H!StartCheck
<1>8. CASE H!StartReplace
  BY <1>8 DEF H!StartReplace, H!Release, H!Become
<1>9. CASE H!StartUndo
  BY <1>9 DEF H!StartUndo
<1>10. CASE H!StartRmdir
  BY <1>10 DEF H!StartRmdir, H!Release
<1>11. CASE H!CloseRead
  BY <1>11 DEF H!CloseRead
<1>12. CASE H!CloseCheck
  BY <1>12 DEF H!CloseCheck, H!Release, H!Become, H!RemovesFile, H!Remaining, H!Created
<1>13. CASE H!CloseReplace
  BY <1>13 DEF H!CloseReplace, H!RemovesFile, H!Remaining, H!Created
<1>14. CASE H!CloseRmdir
  BY <1>14 DEF H!CloseRmdir
<1>15. CASE H!CloseRegistry
  BY <1>15 DEF H!CloseRegistry, H!Release, H!Become
<1>16. ASSUME NEW u \in Parts, NEW e \in [Channels -> H!Entry], H!UserWrites(u, e) PROVE H!StartedIsRegistered'
  BY <1>16 DEF H!UserWrites
<1>17. CASE H!UserRemoves
  BY <1>17 DEF H!UserRemoves
<1>18. CASE UNCHANGED hvars
  BY <1>18 DEF hvars
<1>19. QED
  BY <1>1, <1>2, <1>3, <1>4, <1>5, <1>6, <1>7, <1>8, <1>9, <1>10, <1>11, <1>12, <1>13, <1>14,
     <1>15, <1>16, <1>17, <1>18 DEF H!Next, H!SectionStep

\* The invariant holds at first,
LEMMA HookInvInit == H!Init => HookInv
<1> SUFFICES ASSUME H!Init PROVE HookInv
  OBVIOUS
<1>1. H!TypeOK
  BY HookTypeInit
<1>2. SectionInv
  BY RetryAssumption DEF H!Init, SectionInv, StartPhases, ClosePhases
<1>3. SeenInv
  BY DEF H!Init, SeenInv, Reading, H!Content
<1>4. EntryInv
  BY DEF H!Init, EntryInv, H!Content, H!NoEntries
<1>5. H!HookEditsKept /\ H!RegistrationMatchesStatus
  BY DEF H!Init, H!HookEditsKept, H!RegistrationMatchesStatus, H!StartedIsRegistered,
         H!ClosedIsUnregistered, H!NoEntries
<1>6. QED
  BY <1>1, <1>2, <1>3, <1>4, <1>5 DEF HookInv

\* and every step keeps it.
LEMMA HookInvStep == HookInv /\ [H!Next]_hvars => HookInv'
<1> SUFFICES ASSUME HookInv, H!Next \/ UNCHANGED hvars PROVE HookInv'
  OBVIOUS
<1>1. ContentType /\ SectionType /\ OtherType
  BY HookTypeParts DEF HookInv
<1>2. ContentType' /\ SectionType' /\ OtherType'
  BY <1>1, ContentStep, SectionTypeStep, OtherTypeStep DEF HookInv
<1>3. H!TypeOK'
  BY <1>2 DEF H!TypeOK, ContentType, SectionType, OtherType
<1>4. SectionInv' /\ SeenInv' /\ EntryInv'
  BY <1>1, SectionStep, SeenStep, EntryStep DEF HookInv
<1>5. H!HookEditsKept' /\ H!StartedIsRegistered'
  BY <1>1, EditsStep, RegistrationStep DEF HookInv, H!RegistrationMatchesStatus
<1>6. H!ClosedIsUnregistered'
  BY <1>4 DEF EntryInv, H!ClosedIsUnregistered
<1>7. QED
  BY <1>3, <1>4, <1>5, <1>6 DEF HookInv, H!RegistrationMatchesStatus

----------------------------------------------------------------------------
(* The workspace when the last channel has closed.                         *)

\* Books with an entry are a registry file.
LEMMA SomeBooks ==
  ASSUME NEW S \in SUBSET Channels, S # {}
  PROVE  Books(S) # NoRegistry
<1>1. [entries |-> S, config |-> ~Found, agents |-> ~Dir] \in H!Registry
  BY DEF H!Registry
<1>2. QED
  BY <1>1, RegistryAssumption DEF Books

\* What Registered() makes of the books: the holder is one of the channels
\* with a hook, whether it is the first or not.
LEMMA RegisterBooks ==
  ASSUME H!TypeOK, SectionInv, SeenInv, EntryInv, H!StartedIsRegistered, RestoreInv,
         Undisturbed', 
         H!StartRegister
  PROVE  /\ WorkspaceInv /\ RegistryInv /\ holder \in Channels
         /\ registry' = Books(Hooked \cup {holder})
<1> USE DEF H!StartRegister, H!At, H!Goto, H!Locals, H!fileVars, H!historyVars
<1>1. WorkspaceInv /\ RegistryInv
  BY DEF RestoreInv, Undisturbed
<1>2. holder \in Channels /\ holder # NoChannel /\ phase = "start_register"
  BY DEF H!TypeOK
<1>3. before = Books(Hooked) /\ madeDir = ~(Dir \/ Hooked # {})
  BY <1>1, <1>2 DEF RegistryInv, H!TypeOK, WorkspaceInv
<1>4. seen.entry = entry /\ seen.file = hooksFile
  BY <1>1, <1>2 DEF WorkspaceInv, SeenInv, Reading, H!Content
<1>5. CASE Hooked = {}
  <2>1. before = NoRegistry /\ madeDir = ~Dir /\ seen.file = Found
    <3>1. hooksFile \in BOOLEAN /\ Found \in BOOLEAN /\ madeDir \in BOOLEAN
      BY <1>1 DEF WorkspaceInv, H!TypeOK, H!Content, H!Contents
    <3>2. hooksFile <=> Found
      BY <1>1, <1>5 DEF WorkspaceInv
    <3>3. QED
      BY <3>1, <3>2, <1>3, <1>4, <1>5 DEF Books
  <2>2. registry' = [entries |-> {holder}, config |-> ~Found, agents |-> ~Dir]
    BY <2>1 DEF H!Registered
  <2>3. QED
    BY <2>2, <1>1, <1>2, <1>5 DEF Books
<1>6. CASE Hooked # {}
  <2>1. before = [entries |-> Hooked, config |-> ~Found, agents |-> ~Dir]
    BY <1>3, <1>6 DEF Books
  <2>2. before # NoRegistry
    BY <1>3, <1>6, SomeBooks DEF Hooked
  <2>3. {k \in before.entries : seen.entry[k] # "none"} = Hooked
    BY <2>1, <1>4 DEF Hooked
  <2>4. registry' = [before EXCEPT !.entries = Hooked \cup {holder}]
    BY <2>2, <2>3, <1>6 DEF H!Registered
  <2>5. QED
    BY <2>1, <2>4, <1>1, <1>2 DEF Books
<1>7. QED
  BY <1>5, <1>6, <1>1, <1>2

\* close() takes its hook out of a file that it has just read, and removes the
\* file when the channels created it and this hook was the last thing in it.
LEMMA HookReplaced ==
  ASSUME H!TypeOK, SectionInv, SeenInv, EntryInv, H!StartedIsRegistered, RestoreInv,
         Undisturbed', 
         H!CloseReplace
  PROVE  /\ WorkspaceInv /\ RegistryInv
         /\ holder \in Hooked /\ Hooked' = Hooked \ {holder}
         /\ phase' = (IF Dir THEN "close_registry" ELSE "close_rmdir")
         /\ agents /\ hooksFile' = (Found \/ Hooked' # {})
         /\ user' = user /\ entry' = [entry EXCEPT ![holder] = "none"]
<1> USE DEF H!At, H!Goto, H!Locals, H!fileVars, H!historyVars
<1>1. WorkspaceInv /\ RegistryInv
  BY DEF RestoreInv, Undisturbed, H!CloseReplace
<1>2. holder \in Channels /\ phase = "close_replace"
  BY DEF H!TypeOK, H!CloseReplace
<1>3. seen.entry = entry /\ seen.user = user /\ before = Books(Hooked) /\ entry[holder] = "ours"
  BY <1>1, <1>2 DEF WorkspaceInv, RegistryInv, SeenInv, Reading, H!Content
<1>4. holder \in Hooked
  BY <1>2, <1>3 DEF Hooked
<1>5. hooksFile /\ agents
  BY <1>1, <1>4 DEF WorkspaceInv
<1>6. before = [entries |-> Hooked, config |-> ~Found, agents |-> ~Dir]
  BY <1>3, <1>4 DEF Books
<1>7. before # NoRegistry
  BY <1>3, <1>4, SomeBooks DEF Hooked
<1>8. H!Created = [config |-> ~Found, agents |-> ~Dir]
  BY <1>6, <1>7 DEF H!Created
<1>9. entry \in [Channels -> H!Entry]
  BY DEF H!TypeOK, H!Content, H!Contents
<1>10. H!Remaining = [entry EXCEPT ![holder] = "none"]
  BY <1>3 DEF H!Remaining
<1>11. H!Remaining = H!NoEntries <=> Hooked \ {holder} = {}
  <2>1. \A c \in Channels : H!Remaining[c] = (IF c = holder THEN "none" ELSE entry[c])
    BY <1>10, <1>9
  <2>2. H!Remaining = H!NoEntries <=> \A c \in Channels : H!Remaining[c] = "none"
    <3>1. H!Remaining = [c \in Channels |-> H!Remaining[c]]
      BY <1>10, <1>9
    <3>2. QED
      BY <3>1 DEF H!NoEntries
  <2>3. QED
    BY <2>1, <2>2 DEF Hooked
<1>12. H!RemovesFile <=> ~Found /\ Hooked \ {holder} = {}
  BY <1>1, <1>3, <1>8, <1>11 DEF H!RemovesFile, WorkspaceInv
<1>13. /\ hooksFile' = ~H!RemovesFile /\ user' = user /\ entry' = H!Remaining
       /\ phase' = IF H!Created.agents THEN "close_rmdir" ELSE "close_registry"
  BY <1>3, <1>5 DEF H!CloseReplace
<1>14. Hooked' = Hooked \ {holder}
  BY <1>13, <1>10, <1>9, <1>2 DEF Hooked
<1>15. phase' = IF Dir THEN "close_registry" ELSE "close_rmdir"
  BY <1>13, <1>8, <1>1 DEF WorkspaceInv
<1>16. QED
  BY <1>1, <1>4, <1>5, <1>10, <1>12, <1>13, <1>14, <1>15 DEF WorkspaceInv

\* The last step of close() takes its channel out of the books.
LEMMA RegistryEffect ==
  ASSUME H!TypeOK, SectionInv, SeenInv, EntryInv, H!StartedIsRegistered, RestoreInv,
         Undisturbed', 
         H!CloseRegistry
  PROVE  /\ WorkspaceInv /\ RegistryInv /\ registry' = Books(Hooked)
<1> USE DEF H!At, H!CloseRegistry
<1>1. WorkspaceInv /\ RegistryInv
  <2>1. \A c \in Channels : status[c] = "dead" => status'[c] = "dead"
    BY DEF H!Become, SectionInv, ClosePhases, H!TypeOK
  <2>2. QED
    BY <2>1 DEF RestoreInv, Undisturbed
<1>2. holder \in Channels /\ before = Books(Hooked \cup {holder}) /\ holder \notin Hooked
  BY <1>1 DEF RegistryInv, Hooked, H!TypeOK
<1>3. before = [entries |-> Hooked \cup {holder}, config |-> ~Found, agents |-> ~Dir]
  BY <1>2 DEF Books
<1>4. before # NoRegistry
  BY <1>2, SomeBooks DEF Hooked
<1>5. before.entries \ {holder} = Hooked
  BY <1>3, <1>2
<1>6. registry' = IF Hooked = {} THEN NoRegistry ELSE [before EXCEPT !.entries = Hooked]
  BY <1>4, <1>5
<1>7. QED
  BY <1>1, <1>3, <1>6 DEF Books

\* Every step keeps WorkspaceInv while nobody interferes.
LEMMA WorkspaceStep ==
  ASSUME H!TypeOK, SectionInv, SeenInv, EntryInv, H!StartedIsRegistered, RestoreInv, Undisturbed',
         H!Next \/ UNCHANGED hvars
  PROVE  WorkspaceInv'
<1> USE ChannelAssumption, PartAssumption DEF RestoreInv, RegistryInv, Books, WorkspaceInv,
      Undisturbed, Hooked, Found, Dir, EntryInv, SeenInv, SectionInv, H!TypeOK, StartPhases,
      ClosePhases, Reading, H!Content, H!Contents, H!Entry, H!Become, H!NoEntries, H!Release,
      H!StartedIsRegistered, H!At, H!Goto, H!Locals, H!fileVars, H!sectionVars, H!historyVars
<1>1. ASSUME NEW c \in Channels, H!StartLock(c) PROVE WorkspaceInv'
  BY <1>1 DEF H!StartLock
<1>2. ASSUME NEW c \in Channels, H!CloseUnstarted(c) PROVE WorkspaceInv'
  BY <1>2 DEF H!CloseUnstarted
<1>3. ASSUME NEW c \in Channels, H!CloseLock(c) PROVE WorkspaceInv'
  BY <1>3 DEF H!CloseLock
<1>4. ASSUME NEW c \in Channels, H!Crash(c) PROVE WorkspaceInv'
  BY <1>4 DEF H!Crash, H!Release
<1>5. CASE H!StartRead
  BY <1>5 DEF H!StartRead, H!Release
<1>6. CASE H!StartRegister
  BY <1>6 DEF H!StartRegister
<1>7. CASE H!StartCheck
  BY <1>7 DEF H!StartCheck
<1>8. CASE H!StartReplace
  BY <1>8 DEF H!StartReplace, H!Release, H!Become
<1>9. CASE H!StartUndo
  BY <1>9 DEF H!StartUndo
<1>10. CASE H!StartRmdir
  BY <1>10 DEF H!StartRmdir, H!Release
<1>11. CASE H!CloseRead
  BY <1>11 DEF H!CloseRead
<1>12. CASE H!CloseCheck
  BY <1>12 DEF H!CloseCheck, H!Release, H!Become, H!RemovesFile, H!Remaining, H!Created
<1>13. CASE H!CloseReplace
  <2>1. /\ WorkspaceInv /\ holder \in Hooked /\ Hooked' = Hooked \ {holder}
        /\ phase' = (IF Dir THEN "close_registry" ELSE "close_rmdir")
        /\ agents /\ hooksFile' = (Found \/ Hooked' # {})
        /\ user' = user /\ entry' = [entry EXCEPT ![holder] = "none"]
    BY <1>13, HookReplaced
  <2>2. UNCHANGED <<agents, initial, hookRaced, touched>>
    BY <1>13 DEF H!CloseReplace
  <2> HIDE DEF Hooked
  <2>3. QED
    BY <2>1, <2>2
<1>14. CASE H!CloseRmdir
  BY <1>14 DEF H!CloseRmdir
<1>15. CASE H!CloseRegistry
  BY <1>15 DEF H!CloseRegistry, H!Release, H!Become
<1>16. ASSUME NEW u \in Parts, NEW e \in [Channels -> H!Entry], H!UserWrites(u, e) PROVE WorkspaceInv'
  BY <1>16 DEF H!UserWrites
<1>17. CASE H!UserRemoves
  BY <1>17 DEF H!UserRemoves
<1>18. CASE UNCHANGED hvars
  BY <1>18 DEF hvars
<1>19. QED
  BY <1>1, <1>2, <1>3, <1>4, <1>5, <1>6, <1>7, <1>8, <1>9, <1>10, <1>11, <1>12, <1>13, <1>14,
     <1>15, <1>16, <1>17, <1>18 DEF H!Next, H!SectionStep

\* Every step keeps RegistryInv while nobody interferes.
LEMMA RegistryStep ==
  ASSUME H!TypeOK, SectionInv, SeenInv, EntryInv, H!StartedIsRegistered, RestoreInv, Undisturbed',
         H!Next \/ UNCHANGED hvars
  PROVE  RegistryInv'
<1> USE ChannelAssumption, PartAssumption, RegistryAssumption DEF RestoreInv, RegistryInv,
      Books, WorkspaceInv, Undisturbed, Hooked, Found, Dir, EntryInv, SeenInv, SectionInv,
      H!TypeOK, StartPhases, ClosePhases, Reading, H!Content, H!Contents, H!Entry, H!Become,
      H!NoEntries, H!Release, H!StartedIsRegistered, H!At, H!Goto, H!Locals, H!fileVars,
      H!sectionVars, H!historyVars
<1>1. ASSUME NEW c \in Channels, H!StartLock(c) PROVE RegistryInv'
  BY <1>1 DEF H!StartLock
<1>2. ASSUME NEW c \in Channels, H!CloseUnstarted(c) PROVE RegistryInv'
  BY <1>2 DEF H!CloseUnstarted
<1>3. ASSUME NEW c \in Channels, H!CloseLock(c) PROVE RegistryInv'
  BY <1>3 DEF H!CloseLock
<1>4. ASSUME NEW c \in Channels, H!Crash(c) PROVE RegistryInv'
  BY <1>4 DEF H!Crash, H!Release
<1>5. CASE H!StartRead
  <2>1. WorkspaceInv /\ RegistryInv /\ phase = "start_read"
    BY <1>5 DEF H!StartRead
  <2>2. /\ phase' = "start_register" /\ before' = registry /\ madeDir' = ~agents
        /\ UNCHANGED <<registry, holder, entry, initial>>
    BY <1>5, <2>1 DEF H!StartRead
  <2>3. Books(Hooked)' = Books(Hooked) /\ Hooked' = Hooked /\ Dir' = Dir
    BY <2>2
  <2> HIDE DEF Books, Hooked, Dir
  <2>4. QED
    BY <2>1, <2>2, <2>3
<1>6. CASE H!StartRegister
  <2>1. WorkspaceInv /\ RegistryInv /\ registry' = Books(Hooked \cup {holder})
    BY <1>6, RegisterBooks
  <2>2. phase' = "start_check" /\ UNCHANGED <<holder, entry, initial>>
    BY <1>6 DEF H!StartRegister
  <2>3. Books(Hooked \cup {holder})' = Books(Hooked \cup {holder})
    BY <2>2
  <2> HIDE DEF Books, Hooked
  <2>4. QED
    BY <2>1, <2>2, <2>3
<1>7. CASE H!StartCheck
  BY <1>7 DEF H!StartCheck
<1>8. CASE H!StartReplace
  BY <1>8 DEF H!StartReplace, H!Release, H!Become
<1>9. CASE H!StartUndo
  BY <1>9 DEF H!StartUndo
<1>10. CASE H!StartRmdir
  BY <1>10 DEF H!StartRmdir, H!Release
<1>11. CASE H!CloseRead
  BY <1>11 DEF H!CloseRead
<1>12. CASE H!CloseCheck
  BY <1>12 DEF H!CloseCheck, H!Release, H!Become, H!RemovesFile, H!Remaining, H!Created
<1>13. CASE H!CloseReplace
  BY <1>13 DEF H!CloseReplace, H!RemovesFile, H!Remaining, H!Created
<1>14. CASE H!CloseRmdir
  BY <1>14 DEF H!CloseRmdir
<1>15. CASE H!CloseRegistry
  <2>1. registry' = Books(Hooked)
    BY <1>15, RegistryEffect
  <2>2. phase' = "none" /\ UNCHANGED <<entry, initial>>
    BY <1>15 DEF H!CloseRegistry
  <2>3. Books(Hooked)' = Books(Hooked)
    BY <2>2
  <2> HIDE DEF Books, Hooked
  <2>4. QED
    BY <2>1, <2>2, <2>3
<1>16. ASSUME NEW u \in Parts, NEW e \in [Channels -> H!Entry], H!UserWrites(u, e) PROVE RegistryInv'
  BY <1>16 DEF H!UserWrites
<1>17. CASE H!UserRemoves
  BY <1>17 DEF H!UserRemoves
<1>18. CASE UNCHANGED hvars
  BY <1>18 DEF hvars
<1>19. QED
  BY <1>1, <1>2, <1>3, <1>4, <1>5, <1>6, <1>7, <1>8, <1>9, <1>10, <1>11, <1>12, <1>13, <1>14,
     <1>15, <1>16, <1>17, <1>18 DEF H!Next, H!SectionStep

\* Before the first channel starts, the books are empty.
LEMMA RestoreInit == H!Init => RestoreInv
<1> SUFFICES ASSUME H!Init PROVE WorkspaceInv /\ RegistryInv
  BY DEF RestoreInv
<1>1. Hooked = {} /\ Books(Hooked) = NoRegistry /\ entry = H!NoEntries
  BY DEF H!Init, Hooked, Books, H!NoEntries
<1>2. initial.content = [file |-> hooksFile, user |-> user, entry |-> H!NoEntries]
  BY <1>1 DEF H!Init, H!Content
<1>3. Found = hooksFile /\ Dir = agents
  BY <1>2 DEF H!Init, Found, Dir
<1>4. WorkspaceInv
  BY <1>1, <1>2, <1>3 DEF H!Init, WorkspaceInv, Reading, H!NoEntries
<1>5. RegistryInv
  BY <1>1 DEF H!Init, RegistryInv
<1>6. QED
  BY <1>4, <1>5

\* An undisturbed state was reached through undisturbed ones.
LEMMA RestoreStep == HookInv /\ RestoreInv /\ [H!Next]_hvars => RestoreInv'
<1> SUFFICES ASSUME HookInv, RestoreInv, H!Next \/ UNCHANGED hvars, Undisturbed'
             PROVE  WorkspaceInv' /\ RegistryInv'
  BY DEF RestoreInv
<1>1. H!TypeOK /\ SectionInv /\ SeenInv /\ EntryInv /\ H!StartedIsRegistered
  BY DEF HookInv, H!RegistrationMatchesStatus
<1>2. QED
  BY <1>1, WorkspaceStep, RegistryStep

\* When all channels are closed none has a hook, so what there was stays.
LEMMA RestoreEnd == HookInv /\ RestoreInv => H!RestoresWorkspace
<1> SUFFICES ASSUME HookInv, RestoreInv, hookEdits = 0,
                    \A c \in Channels : status[c] = "closed"
             PROVE  agents = initial.agents /\ H!Content = initial.content /\ registry = NoRegistry
  BY DEF H!RestoresWorkspace
<1>1. H!TypeOK /\ SectionInv /\ EntryInv /\ WorkspaceInv /\ RegistryInv
  BY DEF HookInv, RestoreInv, Undisturbed
<1>2. entry \in [Channels -> H!Entry] /\ hooksFile \in BOOLEAN /\ agents \in BOOLEAN
  BY <1>1 DEF H!TypeOK, H!Content, H!Contents
<1>3. \A c \in Channels : entry[c] = "none"
  BY <1>1, <1>2 DEF EntryInv, WorkspaceInv, H!Entry
<1>4. Hooked = {} /\ entry = H!NoEntries
  BY <1>2, <1>3 DEF Hooked, H!NoEntries
<1>5. phase = "none"
  <2>1. phase \notin StartPhases /\ phase \notin ClosePhases
    <3>1. phase # "none" => status[holder] = "closed"
      BY <1>1 DEF SectionInv, H!TypeOK
    <3>2. QED
      BY <1>1, <3>1 DEF SectionInv, StartPhases, ClosePhases
  <2>2. QED
    BY <1>1, <2>1 DEF H!TypeOK, H!Phase, StartPhases, ClosePhases
<1>6. registry = NoRegistry
  BY <1>1, <1>4, <1>5 DEF RegistryInv, Books
<1>7. agents = Dir /\ hooksFile = Found
  BY <1>1, <1>2, <1>4, <1>5 DEF WorkspaceInv
<1>8. QED
  BY <1>1, <1>4, <1>6, <1>7 DEF WorkspaceInv, H!Content, Dir

----------------------------------------------------------------------------
(* The theorems about hooks.json.                                          *)

\* Both invariants hold of the program: about hooks.json it does what
\* HookRegistration says, or nothing.
THEOREM HookInvariant == ConfigSpec => [](HookInv /\ RestoreInv)
<1>1. ConfigInit => HookInv /\ RestoreInv
  BY HookInvInit, RestoreInit DEF ConfigInit
<1>2. HookInv /\ RestoreInv /\ [Servers \/ Hooks]_allvars => (HookInv /\ RestoreInv)'
  <2> SUFFICES ASSUME HookInv, RestoreInv, [Servers \/ Hooks]_allvars PROVE (HookInv /\ RestoreInv)'
    OBVIOUS
  <2>1. [H!Next]_hvars
    BY DEF Servers, Hooks, allvars
  <2>2. QED
    BY <2>1, HookInvStep, RestoreStep
<1>3. QED
  BY <1>1, <1>2, PTL DEF ConfigSpec

\* What the user wrote to hooks.json stays written, whatever the channels do,
\* unless it was written between a channel's last look at the file and its
\* replacement.
THEOREM EditsKept == ConfigSpec => []HookEditsKept
<1>1. HookInv => HookEditsKept
  BY DEF HookInv, HookEditsKept
<1>2. QED
  BY <1>1, HookInvariant, PTL

\* The hooks in the file are those of the started channels: none that the user
\* did not touch is missing, and none is left of a channel that has closed.
THEOREM Registrations == ConfigSpec => []RegistrationMatchesStatus
<1>1. HookInv => RegistrationMatchesStatus
  BY DEF HookInv, RegistrationMatchesStatus
<1>2. QED
  BY <1>1, HookInvariant, PTL

\* When every channel has closed and the user did nothing, the file, its
\* directory and the registry are as the first channel found them.
THEOREM WorkspaceRestored == ConfigSpec => []RestoresWorkspace
<1>1. HookInv /\ RestoreInv => RestoresWorkspace
  BY RestoreEnd DEF RestoresWorkspace
<1>2. QED
  BY <1>1, HookInvariant, PTL

----------------------------------------------------------------------------
(* mcp_config.json: the types                                              *)

RunState == {"new", "opening", "covering", "open", "closing", "closed", "failed", "killed"}
Active   == {"opening", "covering", "open", "closing"}
Run      == [at : RunState, path : Paths, tools : BOOLEAN,
             servers : [Names -> Values \union {Absent}]]
Tasks    == {"tool", "look", "add", "restore", "replace", "drop"}
Op       == [by : Sessions \union {Nobody}, at : Tasks \union {""},
             stage : {"", "read", "cut", "dump"},
             doc : [Keys -> Server]]
Overlay  == [original : Server, layers : Seq(Sessions)]

Docs == [Keys -> Server]

\* A file that does not parse, or is not there, shows no entries.
FileType == /\ file \in [Paths -> File]
            /\ \A p \in Paths : file[p].status # "ok" => file[p].entries = NoEntries
RunType  == run \in [Sessions -> Run] /\ op \in Op
UserType == /\ wish \in [Names -> UserValues \union {Absent}]
            /\ raced \subseteq Names /\ orphans \subseteq Names
OverlayType == /\ FileType /\ RunType /\ UserType
               /\ overlays \in [Names -> Overlay]

----------------------------------------------------------------------------
(* mcp_config.json: who is where                                           *)

Working == op.by \in Sessions
InGlobal == Working /\ run[op.by].path = "global"
HasDoc == op.stage \in {"cut", "dump"} \/ op.at = "replace"

\* What the holder of _MCP_LOCK is at, and that the others are in no operation.
HolderInv ==
  Working =>
    /\ op.at \in {"tool", "look"} => run[op.by].at = "opening"
    /\ op.at = "tool" => run[op.by].tools
    /\ op.at = "add" => run[op.by].at = IF InGlobal THEN "covering" ELSE "opening"
    /\ op.at \in {"restore", "replace"} => run[op.by].at = "closing"
    /\ op.at = "drop" => run[op.by].at \in {"opening", "closing"}
    /\ op.at \in {"look", "restore", "replace"} => InGlobal /\ op.stage = "read"
    /\ op.at \in Tasks /\ op.stage # ""

OpInv ==
  /\ op.by = Nobody => op = Free
  /\ \A s \in Sessions : run[s].at \in {"opening", "covering", "closing"} <=> op.by = s
  /\ HolderInv

Layers(n) == overlays[n].layers

Has(l, t)   == \E i \in DOMAIN l : l[i] = t
Distinct(l) == \A i, j \in DOMAIN l : l[i] = l[j] => i = j

\* A layer is that of a session which has covered the entry and not yet
\* restored it, and a session has one layer at most.
LayerOf(n, t) ==
  /\ run[t].path = "global" /\ n \in Claims(t)
  /\ run[t].at \in {"covering", "open"} \/ (op.by = t /\ op.at = "restore")

LayersInv ==
  \A n \in Names : /\ \A t \in Sessions : Has(Layers(n), t) => LayerOf(n, t)
                   /\ Distinct(Layers(n))

----------------------------------------------------------------------------
(* mcp_config.json: the entries of the callers' servers                    *)

\* The entry is the server of the last layer.
Covers(v, n) == Layers(n) # <<>> /\ v = run[Last(Layers(n))].servers[n]

\* A caller's server is there for a layer; and where no edit was lost, what the
\* user wrote is there, or covered and remembered.
Good(v, n) ==
  /\ v \in Values => Covers(v, n)
  /\ n \notin raced => v = wish[n] \/ (Covers(v, n) /\ overlays[n].original = wish[n])

Entry(n) == file["global"].entries[n]

\* The entries that the holder of the lock covers, or has changed in memory.
Covering  == IF InGlobal /\ op.at = "add" THEN Claims(op.by) ELSE {}
Unsettled == IF InGlobal /\ op.at \in {"add", "replace"} THEN Claims(op.by) ELSE {}

\* While the file is cut there is nothing to say about it.
EntriesInv ==
  ~(InGlobal /\ op.stage = "dump") =>
    \A n \in Names \ (orphans \union Unsettled) : Good(Entry(n), n)

DocInv ==
  InGlobal /\ HasDoc =>
    \A n \in Names \ (orphans \union Covering) : Good(op.doc[n], n)

\* What a registration has covered, before the file shows it.
CoverInv ==
  \A n \in Covering \ orphans :
    /\ Layers(n) # <<>> /\ Last(Layers(n)) = op.by
    /\ n \notin raced => overlays[n].original = wish[n]

\* What is remembered as the entry found was never a caller's server.
OriginalInv == \A n \in Names \ orphans : Layers(n) # <<>> => overlays[n].original \notin Values

ValuesInv == EntriesInv /\ DocInv /\ CoverInv /\ OriginalInv

\* The file that a session's tool server may be in; a killed program leaves it.
ToolPlace(s, p) == run[s].at = "killed" \/ (run[s].at \in Active /\ run[s].path = p /\ run[s].tools)

\* A tool server is in its own run's file, and in what was read of that.
ToolInv ==
  \A s \in Sessions :
    /\ \A p \in Paths : file[p].entries[s] # Absent => ToolPlace(s, p)
    /\ Working /\ HasDoc /\ op.doc[s] # Absent => ToolPlace(s, run[op.by].path)

OverlayInv == OverlayType /\ OpInv /\ LayersInv /\ ValuesInv /\ ToolInv

----------------------------------------------------------------------------
(* Sequences without repetition: what Append and Without do with one.      *)

\* A layer that is put on top is the last one, and repeats none that was not there.
LEMMA AppendLayer ==
  ASSUME NEW l \in Seq(Sessions), NEW s \in Sessions
  PROVE  /\ Append(l, s) \in Seq(Sessions) /\ Append(l, s) # <<>> /\ Last(Append(l, s)) = s
         /\ \A t \in Sessions : Has(Append(l, s), t) => Has(l, t) \/ t = s
         /\ Distinct(l) /\ ~Has(l, s) => Distinct(Append(l, s))
  BY DEF Last, Distinct, Has

\* Taking a layer out leaves a sequence of sessions.
LEMMA WithoutType ==
  ASSUME NEW l \in Seq(Sessions), NEW s \in Sessions
  PROVE  Without(l, s) \in Seq(Sessions)
<1>1. CASE \A i \in DOMAIN l : l[i] # s
  BY <1>1 DEF Without
<1>2. CASE \E i \in DOMAIN l : l[i] = s
  <2> DEFINE k == CHOOSE i \in DOMAIN l : l[i] = s
             a == SubSeq(l, 1, k - 1)
             b == SubSeq(l, k + 1, Len(l))
  <2>1. k \in 1..Len(l)
    BY <1>2
  <2>2. Without(l, s) = a \o b
    BY <1>2 DEF Without, RemoveAt
  <2> HIDE DEF k
  <2>3. a \in Seq(Sessions) /\ b \in Seq(Sessions)
    BY <2>1
  <2> HIDE DEF a, b
  <2>4. QED
    BY <2>2, <2>3
<1>3. QED
  BY <1>1, <1>2

\* The others keep their order, so that the last of them stays the last.
LEMMA WithoutLayer ==
  ASSUME NEW l \in Seq(Sessions), NEW s \in Sessions, Distinct(l)
  PROVE  /\ Without(l, s) \in Seq(Sessions) /\ Distinct(Without(l, s))
         /\ \A t \in Sessions : Has(Without(l, s), t) => t # s /\ Has(l, t)
         /\ l # <<>> /\ Last(l) # s => Without(l, s) # <<>> /\ Last(Without(l, s)) = Last(l)
<1>1. CASE \A i \in DOMAIN l : l[i] # s
  <2>1. Without(l, s) = l
    BY <1>1 DEF Without
  <2>2. QED
    BY <1>1, <2>1 DEF Has
<1>2. CASE \E i \in DOMAIN l : l[i] = s
  <2> DEFINE k == CHOOSE i \in DOMAIN l : l[i] = s
             w == RemoveAt(l, k)
  <2>1. k \in DOMAIN l /\ l[k] = s
    BY <1>2
  <2> HIDE DEF k
  <2>2. k \in 1..Len(l)
    BY <2>1
  <2> DEFINE a == SubSeq(l, 1, k - 1)
             b == SubSeq(l, k + 1, Len(l))
  <2>3. /\ a \in Seq(Sessions) /\ Len(a) = k - 1 /\ \A i \in 1..(k - 1) : a[i] = l[i]
    BY <2>2
  <2>4. /\ b \in Seq(Sessions) /\ Len(b) = Len(l) - k /\ \A i \in 1..(Len(l) - k) : b[i] = l[k + i]
    BY <2>2
  <2>13. w = a \o b
    BY DEF RemoveAt
  <2> HIDE DEF a, b, w
  <2>14. /\ a \o b \in Seq(Sessions) /\ Len(a \o b) = Len(a) + Len(b)
         /\ \A i \in 1 .. Len(a) + Len(b) : (a \o b)[i] = IF i <= Len(a) THEN a[i] ELSE b[i - Len(a)]
    BY <2>3, <2>4, ConcatProperties
  <2>5. w \in Seq(Sessions) /\ Len(w) = Len(l) - 1
    BY <2>2, <2>3, <2>4, <2>13, <2>14
  <2>6. \A i \in 1..(Len(l) - 1) : w[i] = IF i < k THEN l[i] ELSE l[i + 1]
    <3> TAKE i \in 1..(Len(l) - 1)
    <3>1. w[i] = IF i <= k - 1 THEN a[i] ELSE b[i - (k - 1)]
      BY <2>2, <2>3, <2>4, <2>13, <2>14
    <3>2. CASE i < k
      BY <3>1, <3>2, <2>2, <2>3
    <3>3. CASE ~(i < k)
      <4>1. i - (k - 1) \in 1..(Len(l) - k) /\ k + (i - (k - 1)) = i + 1
        BY <3>3, <2>2
      <4>2. QED
        BY <3>1, <3>3, <4>1, <2>2, <2>4
    <3>4. QED
      BY <3>2, <3>3
  <2>7. Without(l, s) = w
    BY <1>2 DEF Without, k, w
  <2>8. DOMAIN w = 1..(Len(l) - 1) /\ DOMAIN l = 1..Len(l)
    BY <2>5
  <2>9. Distinct(w)
    <3> SUFFICES ASSUME NEW i \in DOMAIN w, NEW j \in DOMAIN w, w[i] = w[j] PROVE i = j
      BY DEF Distinct
    <3> DEFINE at(x) == IF x < k THEN x ELSE x + 1
    <3>1. at(i) \in DOMAIN l /\ at(j) \in DOMAIN l /\ l[at(i)] = l[at(j)]
      BY <2>2, <2>6, <2>8
    <3>2. at(i) = at(j)
      BY <3>1 DEF Distinct
    <3>3. QED
      BY <3>2, <2>2, <2>8
  <2>10. \A i \in DOMAIN w : w[i] # s /\ \E j \in DOMAIN l : w[i] = l[j]
    <3> TAKE i \in DOMAIN w
    <3>1. CASE i < k
      BY <3>1, <2>1, <2>2, <2>6, <2>8 DEF Distinct
    <3>2. CASE ~(i < k)
      BY <3>2, <2>1, <2>2, <2>6, <2>8 DEF Distinct
    <3>3. QED
      BY <3>1, <3>2
  <2>11. Last(l) # s => w # <<>> /\ Last(w) = Last(l)
    <3> SUFFICES ASSUME Last(l) # s PROVE w # <<>> /\ Last(w) = Last(l)
      OBVIOUS
    <3>1. k < Len(l)
      BY <2>1, <2>2 DEF Last
    <3>2. Len(w) \in 1..(Len(l) - 1) /\ ~(Len(w) < k)
      BY <3>1, <2>2, <2>5
    <3>3. w # <<>>
      BY <3>2
    <3>4. QED
      BY <3>2, <3>3, <2>5, <2>6 DEF Last
  <2>12. QED
    BY <2>5, <2>7, <2>9, <2>10, <2>11 DEF Has
<1>3. QED
  BY <1>1, <1>2

----------------------------------------------------------------------------
(* mcp_config.json: the variables keep their types.                        *)

\* The values that a file, an operation and a run start from have their types.
LEMMA NoEntriesType == NoEntries \in [Keys -> Server] /\ Free \in Op
<1>1. NoEntries \in [Keys -> Server]
  BY DEF NoEntries, Server
<1>2. QED
  BY <1>1 DEF Free, Op

\* What a write leaves is a file that parses.
LEMMA WrittenType ==
  ASSUME NEW doc \in [Keys -> Server]
  PROVE  Written(doc) \in File /\ Written(doc).status = "ok"
  BY DEF Written, File

\* A missing and a malformed file are files.
LEMMA NoFileType == NoFile \in File /\ BadFile \in File
  BY NoEntriesType DEF NoFile, BadFile, File

\* What is read of a file is a document.
LEMMA ParsedType ==
  ASSUME FileType, NEW p \in Paths
  PROVE  Parsed(file[p]) \in [Keys -> Server] /\ file[p].entries \in [Keys -> Server]
  BY NoEntriesType DEF FileType, Parsed, File

\* Merging a caller's servers into a document gives a document.
LEMMA MergedType ==
  ASSUME NEW doc \in [Keys -> Server], NEW servers \in [Names -> Values \union {Absent}]
  PROVE  Merged(doc, servers) \in [Keys -> Server]
  BY DEF Merged, Server

\* What restore() puts back is a server.
LEMMA UnderType ==
  ASSUME RunType, overlays \in [Names -> Overlay], NEW n \in Names, NEW s \in Sessions
  PROVE  Under(n, s) \in Server
<1> DEFINE below == Without(overlays[n].layers, s)
<1>1. overlays[n].original \in Server /\ overlays[n].layers \in Seq(Sessions)
  BY DEF Overlay
<1>2. below \in Seq(Sessions)
  BY <1>1, WithoutType
<1>3. Under(n, s) = IF below # <<>> THEN run[Last(below)].servers[n] ELSE overlays[n].original
  BY DEF Under
<1> HIDE DEF below
<1>4. ASSUME below # <<>> PROVE run[Last(below)].servers[n] \in Server
  <2>1. Last(below) \in Sessions
    BY <1>2, <1>4 DEF Last
  <2>2. run[Last(below)] \in Run
    BY <2>1 DEF RunType
  <2>3. QED
    BY <2>2 DEF Run, Server
<1>5. QED
  BY <1>1, <1>3, <1>4

\* A session without arguments is a run.
LEMMA BareType ==
  ASSUME NEW state \in RunState
  PROVE  Bare(state) \in Run
<1>1. [n \in Names |-> Absent] \in [Names -> Values \union {Absent}]
  OBVIOUS
<1>2. QED
  BY <1>1 DEF Bare, Run, Paths

\* Beginning a task gives an operation,
LEMMA GotoType ==
  ASSUME NEW s \in Sessions, NEW pc \in Tasks, Goto(s, pc)
  PROVE  op' \in Op
<1>1. op' = [by |-> s, at |-> pc, stage |-> "read", doc |-> NoEntries]
  BY DEF Goto
<1>2. QED
  BY <1>1, NoEntriesType DEF Op, Tasks

\* and so does keeping a document in memory.
LEMMA HoldsType ==
  ASSUME RunType, NEW pc \in Tasks, NEW stage \in {"read", "cut", "dump"},
         NEW doc \in [Keys -> Server], Holds(pc, stage, doc)
  PROVE  op' \in Op
<1>1. op' = [op EXCEPT !.at = pc, !.stage = stage, !.doc = doc]
  BY DEF Holds
<1>2. QED
  BY <1>1 DEF RunType, Op, Tasks

\* Leaving the operation keeps the types of `run` and `op`,
LEMMA LeaveType ==
  ASSUME RunType, NEW s \in Sessions, NEW state \in RunState, Leave(s, state)
  PROVE  RunType'
<1>1. op' \in Op
  BY NoEntriesType DEF Leave
<1>2. [run[s] EXCEPT !.at = "open"] \in Run
  BY DEF RunType, Run, RunState
<1>3. run' = [run EXCEPT ![s] = IF state = "open" THEN [run[s] EXCEPT !.at = "open"] ELSE Bare(state)]
  BY DEF Leave
<1>4. run' \in [Sessions -> Run]
  BY <1>2, <1>3, BareType DEF RunType
<1>5. QED
  BY <1>1, <1>4 DEF RunType

\* and so does moving a session to another state.
LEMMA MovedType ==
  ASSUME RunType, NEW s \in Sessions, NEW state \in RunState
  PROVE  [run EXCEPT ![s].at = state] \in [Sessions -> Run]
<1>1. [run[s] EXCEPT !.at = state] \in Run
  BY DEF RunType, Run
<1>2. QED
  BY <1>1 DEF RunType

\* Every step keeps the type of the files; a file that does not parse shows nothing.
LEMMA FileTypeStep ==
  ASSUME FileType, RunType, UserType, overlays \in [Names -> Overlay],
         Next \/ UNCHANGED vars
  PROVE  FileType'
<1>1. ASSUME NEW s \in Sessions, NEW path \in Paths, NEW tools \in BOOLEAN,
            NEW servers \in [Names -> Values \union {Absent}], Open(s, path, tools, servers)
     PROVE  FileType'
  BY <1>1 DEF Open, FileType
<1>2. ASSUME NEW s \in Sessions, Read(s) PROVE FileType'
  BY <1>2 DEF Read, FileType
<1>3. ASSUME NEW s \in Sessions, Cut(s) PROVE FileType'
  BY <1>3, NoFileType DEF Cut, FileType, BadFile
<1>4. ASSUME NEW s \in Sessions, DumpTool(s) PROVE FileType'
  <2>1. op.doc \in [Keys -> Server] /\ s \in Keys
    BY DEF RunType, Op, Keys
  <2>2. [op.doc EXCEPT ![s] = s] \in [Keys -> Server]
    BY <2>1 DEF Server
  <2>3. Written([op.doc EXCEPT ![s] = s]) \in File /\ Written([op.doc EXCEPT ![s] = s]).status = "ok"
    BY <2>2, WrittenType
  <2>4. file' = [file EXCEPT ![run[s].path] = Written([op.doc EXCEPT ![s] = s])]
    BY <1>4 DEF DumpTool
  <2>5. QED
    BY <2>3, <2>4 DEF FileType
<1>5. ASSUME NEW s \in Sessions, Look(s) PROVE FileType'
  BY <1>5 DEF Look, FileType
<1>6. ASSUME NEW s \in Sessions, LookRaises(s) PROVE FileType'
  BY <1>6 DEF LookRaises, FileType
<1>7. ASSUME NEW s \in Sessions, DumpServers(s) PROVE FileType'
  <2>1. op.doc \in [Keys -> Server] /\ s \in Keys
    BY DEF RunType, Op, Keys
  <2>2. Merged(op.doc, run[s].servers) \in [Keys -> Server]
    BY <2>1, MergedType DEF RunType, Run
  <2>3. Written(Merged(op.doc, run[s].servers)) \in File /\ Written(Merged(op.doc, run[s].servers)).status = "ok"
    BY <2>2, WrittenType
  <2>4. file' = [file EXCEPT ![run[s].path] = Written(Merged(op.doc, run[s].servers))]
    BY <1>7 DEF DumpServers
  <2>5. QED
    BY <2>3, <2>4 DEF FileType
<1>8. ASSUME NEW s \in Sessions, Close(s) PROVE FileType'
  BY <1>8 DEF Close, FileType
<1>9. ASSUME NEW s \in Sessions, Restore(s) PROVE FileType'
  BY <1>9 DEF Restore, FileType
<1>10. ASSUME NEW s \in Sessions, Replace(s) PROVE FileType'
  <2>1. Written(op.doc) \in File /\ Written(op.doc).status = "ok"
    BY WrittenType DEF RunType, Op
  <2>2. QED
    BY <1>10, <2>1 DEF Replace, FileType
<1>11. ASSUME NEW s \in Sessions, DumpWithout(s) PROVE FileType'
  <2>1. op.doc \in [Keys -> Server] /\ s \in Keys
    BY DEF RunType, Op, Keys
  <2>2. [op.doc EXCEPT ![s] = Absent] \in [Keys -> Server]
    BY <2>1 DEF Server
  <2>3. Written([op.doc EXCEPT ![s] = Absent]) \in File /\ Written([op.doc EXCEPT ![s] = Absent]).status = "ok"
    BY <2>2, WrittenType
  <2>4. file' = [file EXCEPT ![run[s].path] = Written([op.doc EXCEPT ![s] = Absent])]
    BY <1>11 DEF DumpWithout
  <2>5. QED
    BY <2>3, <2>4 DEF FileType
<1>12. ASSUME NEW s \in Sessions, NothingToDrop(s) PROVE FileType'
  BY <1>12 DEF NothingToDrop, FileType
<1>13. ASSUME NEW f \in Edits, Edit(f) PROVE FileType'
  <2>1. f \in File /\ (f.status # "ok" => f.entries = NoEntries)
    <3>1. CASE f \in {NoFile, BadFile}
      BY <3>1, NoFileType DEF NoFile, BadFile
    <3>2. CASE \E n \in Names, u \in UserValues \union {Absent} :
                 f = Written([Parsed(file["global"]) EXCEPT ![n] = u])
      <4>1. Parsed(file["global"]) \in [Keys -> Server]
        BY ParsedType DEF Paths
      <4>2. PICK n \in Names, u \in UserValues \union {Absent} :
                   f = Written([Parsed(file["global"]) EXCEPT ![n] = u])
        BY <3>2
      <4>3. [Parsed(file["global"]) EXCEPT ![n] = u] \in [Keys -> Server]
        BY <4>1, <4>2 DEF Server
      <4>4. QED
        BY <4>2, <4>3, WrittenType
    <3>3. QED
      BY SMTT(30), <3>1, <3>2 DEF Edits
  <2>2. file' = [file EXCEPT !["global"] = f]
    BY <1>13 DEF Edit
  <2>3. QED
    BY <2>1, <2>2 DEF FileType
<1>14. CASE Kill
  BY <1>14 DEF Kill, FileType
<1>15. CASE UNCHANGED vars
  BY <1>15 DEF vars, FileType
<1>16. QED
  BY <1>1, <1>2, <1>3, <1>4, <1>5, <1>6, <1>7, <1>8,
     <1>9, <1>10, <1>11, <1>12, <1>13, <1>14, <1>15 DEF Next

\* Every step keeps the types of the runs and of the operation.
LEMMA RunTypeStep ==
  ASSUME FileType, RunType, UserType, overlays \in [Names -> Overlay],
         Next \/ UNCHANGED vars
  PROVE  RunType'
<1>1. ASSUME NEW s \in Sessions, NEW path \in Paths, NEW tools \in BOOLEAN,
            NEW servers \in [Names -> Values \union {Absent}], Open(s, path, tools, servers)
     PROVE  RunType'
  <2>1. PICK pc \in Tasks : Goto(s, pc)
    BY <1>1 DEF Open, Tasks
  <2>2. op' \in Op
    BY <2>1, GotoType
  <2>3. run' \in [Sessions -> Run]
    <3>1. [at |-> "opening", path |-> path, tools |-> tools, servers |-> servers] \in Run
      BY DEF Run, RunState
    <3>2. QED
      BY <1>1, <3>1 DEF Open, RunType
  <2>4. QED
    BY <2>2, <2>3 DEF RunType
<1>2. ASSUME NEW s \in Sessions, Read(s) PROVE RunType'
  <2>1. run[s].path \in Paths
    BY DEF RunType, Run
  <2>2. Parsed(file[run[s].path]) \in [Keys -> Server]
    BY <2>1, ParsedType
  <2>3. op.at \in Tasks
    BY <1>2 DEF Read, At, Tasks
  <2>4. op' \in Op
    BY <1>2, <2>2, <2>3, HoldsType DEF Read
  <2>5. QED
    BY <1>2, <2>4 DEF Read, RunType
<1>3. ASSUME NEW s \in Sessions, Cut(s) PROVE RunType'
  <2>1. op.doc \in [Keys -> Server] /\ op' = [op EXCEPT !.stage = "dump"]
    BY <1>3 DEF RunType, Op, Cut, Holds
  <2>2. QED
    BY <1>3, <2>1 DEF Cut, RunType, Op
<1>4. ASSUME NEW s \in Sessions, DumpTool(s) PROVE RunType'
  <2>1. CASE Leave(s, "open")
    BY <2>1, LeaveType DEF RunState
  <2>2. CASE ~Leave(s, "open")
    <3>1. PICK pc \in Tasks : Goto(s, pc)
    BY <1>4, <2>2 DEF DumpTool, Tasks
    <3>2. op' \in Op
    BY <3>1, GotoType
    <3>3. run' \in [Sessions -> Run]
    BY <1>4, <2>2 DEF DumpTool, RunType
    <3>4. QED
    BY <3>2, <3>3 DEF RunType
  <2>3. QED
    BY <2>1, <2>2
<1>5. ASSUME NEW s \in Sessions, Look(s) PROVE RunType'
  <2>1. PICK pc \in Tasks : Goto(s, pc)
    BY <1>5 DEF Look, Tasks
  <2>2. op' \in Op
    BY <2>1, GotoType
  <2>3. run' \in [Sessions -> Run]
    BY <1>5, MovedType DEF Look, RunState
  <2>4. QED
    BY <2>2, <2>3 DEF RunType
<1>6. ASSUME NEW s \in Sessions, LookRaises(s) PROVE RunType'
  <2>1. CASE Leave(s, "failed")
    BY <2>1, LeaveType DEF RunState
  <2>2. CASE ~Leave(s, "failed")
    <3>1. Goto(s, "drop") /\ UNCHANGED run
      BY <1>6, <2>2 DEF LookRaises
    <3>2. QED
      BY <3>1, GotoType DEF Tasks, RunType
  <2>3. QED
    BY <2>1, <2>2
<1>7. ASSUME NEW s \in Sessions, DumpServers(s) PROVE RunType'
  BY <1>7, LeaveType DEF DumpServers, RunState
<1>8. ASSUME NEW s \in Sessions, Close(s) PROVE RunType'
  <2>1. PICK pc \in Tasks : Goto(s, pc)
    BY <1>8 DEF Close, Tasks
  <2>2. op' \in Op
    BY <2>1, GotoType
  <2>3. run' \in [Sessions -> Run]
    BY <1>8, MovedType DEF Close, RunState
  <2>4. QED
    BY <2>2, <2>3 DEF RunType
<1>9. ASSUME NEW s \in Sessions, Restore(s) PROVE RunType'
  <2> DEFINE doc == [k \in Keys |-> IF k \in {n \in Claims(s) : Shows(n, s)} THEN Under(k, s)
                                    ELSE file["global"].entries[k]]
  <2>1. doc \in [Keys -> Server]
    <3>1. \A n \in Names : Under(n, s) \in Server
      BY UnderType
    <3>2. file["global"].entries \in [Keys -> Server]
      BY ParsedType DEF Paths
    <3>3. QED
      BY <3>1, <3>2 DEF Claims
  <2>2. (Goto(s, "drop") \/ Holds("replace", "read", doc)) /\ UNCHANGED run
    BY <1>9 DEF Restore
  <2> HIDE DEF doc
  <2>3. QED
    BY <2>1, <2>2, GotoType, HoldsType DEF RunType, Tasks
<1>10. ASSUME NEW s \in Sessions, Replace(s) PROVE RunType'
  BY <1>10, GotoType DEF Replace, RunType, Tasks
<1>11. ASSUME NEW s \in Sessions, DumpWithout(s) PROVE RunType'
  <2>1. Ended(s) \in RunState
    BY DEF Ended, RunState
  <2>2. QED
    BY <1>11, <2>1, LeaveType DEF DumpWithout
<1>12. ASSUME NEW s \in Sessions, NothingToDrop(s) PROVE RunType'
  <2>1. Ended(s) \in RunState
    BY DEF Ended, RunState
  <2>2. QED
    BY <1>12, <2>1, LeaveType DEF NothingToDrop
<1>13. ASSUME NEW f \in Edits, Edit(f) PROVE RunType'
  BY <1>13 DEF Edit, RunType
<1>14. CASE Kill
  BY <1>14, NoEntriesType, BareType DEF Kill, RunType, RunState
<1>15. CASE UNCHANGED vars
  BY <1>15 DEF vars, RunType
<1>16. QED
  BY <1>1, <1>2, <1>3, <1>4, <1>5, <1>6, <1>7, <1>8,
     <1>9, <1>10, <1>11, <1>12, <1>13, <1>14, <1>15 DEF Next

\* Every step keeps the types of what is recorded of the user.
LEMMA UserTypeStep ==
  ASSUME FileType, RunType, UserType, overlays \in [Names -> Overlay],
         Next \/ UNCHANGED vars
  PROVE  UserType'
<1>1. ASSUME NEW s \in Sessions, NEW path \in Paths, NEW tools \in BOOLEAN,
            NEW servers \in [Names -> Values \union {Absent}], Open(s, path, tools, servers)
     PROVE  UserType'
  BY <1>1 DEF Open, Quiet, UserType
<1>2. ASSUME NEW s \in Sessions, Read(s) PROVE UserType'
  BY <1>2 DEF Read, Quiet, UserType
<1>3. ASSUME NEW s \in Sessions, Cut(s) PROVE UserType'
  BY <1>3 DEF Cut, Quiet, UserType
<1>4. ASSUME NEW s \in Sessions, DumpTool(s) PROVE UserType'
  BY <1>4 DEF DumpTool, Quiet, UserType
<1>5. ASSUME NEW s \in Sessions, Look(s) PROVE UserType'
  BY <1>5 DEF Look, Quiet, UserType
<1>6. ASSUME NEW s \in Sessions, LookRaises(s) PROVE UserType'
  BY <1>6 DEF LookRaises, Quiet, UserType
<1>7. ASSUME NEW s \in Sessions, DumpServers(s) PROVE UserType'
  BY <1>7 DEF DumpServers, Quiet, UserType
<1>8. ASSUME NEW s \in Sessions, Close(s) PROVE UserType'
  BY <1>8 DEF Close, Quiet, UserType
<1>9. ASSUME NEW s \in Sessions, Restore(s) PROVE UserType'
  BY <1>9 DEF Restore, Quiet, UserType
<1>10. ASSUME NEW s \in Sessions, Replace(s) PROVE UserType'
  BY <1>10 DEF Replace, Quiet, UserType
<1>11. ASSUME NEW s \in Sessions, DumpWithout(s) PROVE UserType'
  BY <1>11 DEF DumpWithout, Quiet, UserType
<1>12. ASSUME NEW s \in Sessions, NothingToDrop(s) PROVE UserType'
  BY <1>12 DEF NothingToDrop, Quiet, UserType
<1>13. ASSUME NEW f \in Edits, Edit(f) PROVE UserType'
  <2>1. /\ f.entries \in [Keys -> Server]
        /\ \A n \in Names : f.entries[n] # Parsed(file["global"])[n] =>
             f.entries[n] \in UserValues \union {Absent}
    <3>1. Parsed(file["global"]) \in [Keys -> Server]
      BY ParsedType DEF Paths
    <3>2. CASE f \in {NoFile, BadFile}
      BY <3>2, NoEntriesType DEF NoFile, BadFile, NoEntries, Keys
    <3>3. ASSUME NEW m \in Names, NEW u \in UserValues \union {Absent},
                 f = Written([Parsed(file["global"]) EXCEPT ![m] = u])
          PROVE  /\ f.entries \in [Keys -> Server]
                 /\ \A n \in Names : f.entries[n] # Parsed(file["global"])[n] =>
                      f.entries[n] \in UserValues \union {Absent}
      BY <3>1, <3>3 DEF Written, Server, Keys
    <3>4. \/ f \in {NoFile, BadFile}
          \/ \E m \in Names, u \in UserValues \union {Absent} :
               f = Written([Parsed(file["global"]) EXCEPT ![m] = u])
      BY DEF Edits
    <3>5. QED
      BY <3>2, <3>3, <3>4
  <2> DEFINE changed == {n \in Names : f.entries[n] # Parsed(file["global"])[n]}
  <2>2. /\ wish' = [n \in Names |-> IF n \in changed THEN f.entries[n] ELSE wish[n]]
        /\ raced' = (raced \ changed) \union (changed \cap InHand) /\ orphans' = orphans
    BY <1>13 DEF Edit
  <2>3. QED
    BY <2>1, <2>2 DEF UserType
<1>14. CASE Kill
  BY <1>14 DEF Kill, UserType, Claims
<1>15. CASE UNCHANGED vars
  BY <1>15 DEF vars, UserType
<1>16. QED
  BY <1>1, <1>2, <1>3, <1>4, <1>5, <1>6, <1>7, <1>8,
     <1>9, <1>10, <1>11, <1>12, <1>13, <1>14, <1>15 DEF Next

\* Every step keeps the type of _MCP_OVERLAYS.
LEMMA OverlayTypeStep ==
  ASSUME FileType, RunType, UserType, overlays \in [Names -> Overlay],
         Next \/ UNCHANGED vars
  PROVE  (overlays \in [Names -> Overlay])'
<1>1. ASSUME NEW s \in Sessions, NEW path \in Paths, NEW tools \in BOOLEAN,
            NEW servers \in [Names -> Values \union {Absent}], Open(s, path, tools, servers)
     PROVE  (overlays \in [Names -> Overlay])'
  BY <1>1 DEF Open
<1>2. ASSUME NEW s \in Sessions, Read(s) PROVE (overlays \in [Names -> Overlay])'
  BY <1>2 DEF Read
<1>3. ASSUME NEW s \in Sessions, Cut(s) PROVE (overlays \in [Names -> Overlay])'
  BY <1>3 DEF Cut
<1>4. ASSUME NEW s \in Sessions, DumpTool(s) PROVE (overlays \in [Names -> Overlay])'
  BY <1>4 DEF DumpTool
<1>5. ASSUME NEW s \in Sessions, Look(s) PROVE (overlays \in [Names -> Overlay])'
  <2>1. ASSUME NEW n \in Names PROVE Covered(n, s) \in Overlay
    <3>1. file["global"].entries[n] \in Server
      BY ParsedType DEF Paths, Keys
    <3>2. overlays[n].layers \in Seq(Sessions)
      BY DEF Overlay
    <3>3. Append(overlays[n].layers, s) \in Seq(Sessions) /\ <<s>> \in Seq(Sessions)
      BY <3>2
    <3>4. [overlays[n] EXCEPT !.layers = Append(overlays[n].layers, s)] \in Overlay
      BY <3>3 DEF Overlay
    <3>5. [original |-> file["global"].entries[n], layers |-> <<s>>] \in Overlay
      BY <3>1, <3>3 DEF Overlay
    <3>6. QED
      BY <3>4, <3>5 DEF Covered
  <2>2. overlays' = [n \in Names |-> IF n \in Claims(s) THEN Covered(n, s) ELSE overlays[n]]
    BY <1>5 DEF Look
  <2>3. QED
    BY <2>1, <2>2
<1>6. ASSUME NEW s \in Sessions, LookRaises(s) PROVE (overlays \in [Names -> Overlay])'
  BY <1>6 DEF LookRaises
<1>7. ASSUME NEW s \in Sessions, DumpServers(s) PROVE (overlays \in [Names -> Overlay])'
  BY <1>7 DEF DumpServers
<1>8. ASSUME NEW s \in Sessions, Close(s) PROVE (overlays \in [Names -> Overlay])'
  BY <1>8 DEF Close
<1>9. ASSUME NEW s \in Sessions, Restore(s) PROVE (overlays \in [Names -> Overlay])'
  <2>1. ASSUME NEW n \in Names
        PROVE  (LET rest == Without(overlays[n].layers, s)
                IN  IF rest = <<>> THEN NoState ELSE [overlays[n] EXCEPT !.layers = rest]) \in Overlay
    <3>1. Without(overlays[n].layers, s) \in Seq(Sessions)
      BY WithoutType DEF Overlay
    <3>2. [overlays[n] EXCEPT !.layers = Without(overlays[n].layers, s)] \in Overlay
      BY <3>1 DEF Overlay
    <3>3. NoState \in Overlay
      BY DEF NoState, Overlay, Server
    <3>4. QED
      BY <3>2, <3>3
  <2>2. overlays' = [n \in Names |-> LET rest == Without(overlays[n].layers, s)
                                     IN  IF rest = <<>> THEN NoState ELSE [overlays[n] EXCEPT !.layers = rest]]
    BY <1>9 DEF Restore
  <2>3. QED
    BY <2>1, <2>2
<1>10. ASSUME NEW s \in Sessions, Replace(s) PROVE (overlays \in [Names -> Overlay])'
  BY <1>10 DEF Replace
<1>11. ASSUME NEW s \in Sessions, DumpWithout(s) PROVE (overlays \in [Names -> Overlay])'
  BY <1>11 DEF DumpWithout
<1>12. ASSUME NEW s \in Sessions, NothingToDrop(s) PROVE (overlays \in [Names -> Overlay])'
  BY <1>12 DEF NothingToDrop
<1>13. ASSUME NEW f \in Edits, Edit(f) PROVE (overlays \in [Names -> Overlay])'
  BY <1>13 DEF Edit
<1>14. CASE Kill
  <2>1. NoState \in Overlay
    BY DEF NoState, Overlay, Server
  <2>2. QED
    BY <1>14, <2>1 DEF Kill
<1>15. CASE UNCHANGED vars
  BY <1>15 DEF vars
<1>16. QED
  BY <1>1, <1>2, <1>3, <1>4, <1>5, <1>6, <1>7, <1>8,
     <1>9, <1>10, <1>11, <1>12, <1>13, <1>14, <1>15 DEF Next

----------------------------------------------------------------------------
(* mcp_config.json: what a step does to `op` and `run`.                    *)

\* One session moves to another state, keeps its arguments while it is active,
\* and the others stay.
Moves(s, state) ==
  /\ \A t \in Sessions \ {s} : run'[t] = run[t]
  /\ run'[s].at = state
  /\ state \in Active => /\ run'[s].path = run[s].path /\ run'[s].tools = run[s].tools
                         /\ run'[s].servers = run[s].servers

OpIs(s, pc, stage) == op'.by = s /\ op'.at = pc /\ op'.stage = stage

\* Nobody holds the free lock.
LEMMA FreeLock == Free.by = Nobody /\ Free.at = "" /\ Free.stage = ""
  BY DEF Free

\* What the parts of the actions change: a task begins,
LEMMA GotoEffect ==
  ASSUME NEW s, NEW pc, Goto(s, pc)
  PROVE  OpIs(s, pc, "read")
  BY DEF Goto, OpIs

\* the operation goes on with a document in memory,
LEMMA HoldsEffect ==
  ASSUME RunType, NEW pc, NEW stage, NEW doc, Holds(pc, stage, doc)
  PROVE  OpIs(op.by, pc, stage) /\ op'.doc = doc
  BY DEF RunType, Op, Holds, OpIs

\* the holder lets the lock go,
LEMMA LeaveEffect ==
  ASSUME RunType, NEW s \in Sessions, NEW state \in {"open", "closed", "failed"}, Leave(s, state)
  PROVE  op' = Free /\ Moves(s, state)
<1>1. op' = Free
  BY DEF Leave
<1>2. run \in [Sessions -> Run]
  BY DEF RunType
<1>3. run' = [run EXCEPT ![s] = IF state = "open" THEN [run[s] EXCEPT !.at = "open"] ELSE Bare(state)]
  BY DEF Leave
<1>4. \A t \in Sessions \ {s} : run'[t] = run[t]
  BY <1>2, <1>3
<1>5. run'[s] = IF state = "open" THEN [run[s] EXCEPT !.at = "open"] ELSE Bare(state)
  BY <1>2, <1>3
<1>6. run[s] \in Run
  BY <1>2
<1>7. CASE state = "open"
  BY <1>1, <1>4, <1>5, <1>6, <1>7 DEF Moves, Run
<1>8. CASE state # "open"
  <2>1. state \notin Active
    BY <1>8 DEF Active
  <2>2. run'[s].at = state
    BY <1>5, <1>8 DEF Bare
  <2>3. QED
    BY <1>1, <1>4, <2>1, <2>2 DEF Moves
<1>9. QED
  BY <1>7, <1>8

\* one session moves.
LEMMA MoveEffect ==
  ASSUME RunType, NEW s \in Sessions, NEW state, run' = [run EXCEPT ![s].at = state]
  PROVE  Moves(s, state)
<1>1. run \in [Sessions -> Run] /\ run[s] \in Run
  BY DEF RunType
<1>2. run'[s] = [run[s] EXCEPT !.at = state] /\ \A t \in Sessions \ {s} : run'[t] = run[t]
  BY <1>1
<1>3. QED
  BY <1>1, <1>2 DEF Moves, Run

\* What each action changes, in the terms of the invariant.
LEMMA OpenEffect ==
  ASSUME RunType, NEW s \in Sessions, NEW path \in Paths, NEW tools \in BOOLEAN,
         NEW servers \in [Names -> Values \union {Absent}], Open(s, path, tools, servers)
  PROVE  /\ op = Free /\ run[s].at = "new"
         /\ \/ OpIs(s, "tool", "read") /\ tools
            \/ OpIs(s, "look", "read") /\ path = "global"
            \/ OpIs(s, "add", "read") /\ path # "global"
         /\ \A t \in Sessions \ {s} : run'[t] = run[t]
         /\ run'[s].at = "opening" /\ run'[s].path = path /\ run'[s].tools = tools
         /\ run'[s].servers = servers
         /\ UNCHANGED <<file, overlays, wish, raced, orphans>>
<1>1. \/ Goto(s, "tool") /\ tools
      \/ Goto(s, "look") /\ path = "global"
      \/ Goto(s, "add") /\ path # "global"
  BY DEF Open
<1>2. run' = [run EXCEPT ![s] = [at |-> "opening", path |-> path, tools |-> tools, servers |-> servers]]
  BY DEF Open
<1>3. run \in [Sessions -> Run]
  BY DEF RunType
<1>4. /\ run'[s].at = "opening" /\ run'[s].path = path /\ run'[s].tools = tools
      /\ run'[s].servers = servers
  BY <1>2, <1>3
<1>5. \A t \in Sessions \ {s} : run'[t] = run[t]
  BY <1>2, <1>3
<1>6. QED
  BY <1>1, <1>4, <1>5, GotoEffect DEF Open, Quiet

\* Read: the entries of the file are in memory, and nothing else changes.
LEMMA ReadEffect ==
  ASSUME RunType, NEW s \in Sessions, Read(s)
  PROVE  /\ op.by = s /\ op.at \in {"tool", "add", "drop"} /\ op.stage = "read"
         /\ OpIs(s, op.at, "cut") /\ op'.doc = Parsed(file[run[s].path])
         /\ UNCHANGED <<file, run, overlays, wish, raced, orphans>>
  BY HoldsEffect DEF Read, At, Quiet

\* Cut: the file does not parse, and what was read is still in memory.
LEMMA CutEffect ==
  ASSUME RunType, NEW s \in Sessions, Cut(s)
  PROVE  /\ op.by = s /\ op.stage = "cut"
         /\ OpIs(s, op.at, "dump") /\ op'.doc = op.doc
         /\ file' = [file EXCEPT ![run[s].path] = BadFile]
         /\ UNCHANGED <<run, overlays, wish, raced, orphans>>
  BY HoldsEffect DEF Cut, Quiet

\* DumpTool: the file shows the tool server; the caller's servers are next, or the run is open.
LEMMA DumpToolEffect ==
  ASSUME RunType, NEW s \in Sessions, DumpTool(s)
  PROVE  /\ op.by = s /\ op.at = "tool" /\ op.stage = "dump"
         /\ file' = [file EXCEPT ![run[s].path] = Written([op.doc EXCEPT ![s] = s])]
         /\ \/ op' = Free /\ Moves(s, "open") /\ Claims(s) = {}
            \/ OpIs(s, "look", "read") /\ run[s].path = "global" /\ run' = run
            \/ OpIs(s, "add", "read") /\ run[s].path # "global" /\ run' = run
         /\ UNCHANGED <<overlays, wish, raced, orphans>>
<1>1. \/ Leave(s, "open") /\ Claims(s) = {}
      \/ Goto(s, "look") /\ run[s].path = "global" /\ run' = run
      \/ Goto(s, "add") /\ run[s].path # "global" /\ run' = run
  BY DEF DumpTool
<1>2. QED
  BY <1>1, GotoEffect, LeaveEffect DEF DumpTool, At, Quiet

\* Look: the run covers the entries of its servers in _MCP_OVERLAYS.
LEMMA LookEffect ==
  ASSUME RunType, NEW s \in Sessions, Look(s)
  PROVE  /\ op.by = s /\ op.at = "look" /\ op.stage = "read" /\ file["global"].status # "bad"
         /\ OpIs(s, "add", "read") /\ Moves(s, "covering")
         /\ overlays' = [n \in Names |-> IF n \in Claims(s) THEN Covered(n, s) ELSE overlays[n]]
         /\ UNCHANGED <<file, wish, raced, orphans>>
  BY GotoEffect, MoveEffect DEF Look, At, Quiet

\* LookRaises: the tool server is to be dropped; a run without one has failed.
LEMMA LookRaisesEffect ==
  ASSUME RunType, NEW s \in Sessions, LookRaises(s)
  PROVE  /\ op.by = s /\ op.at = "look" /\ op.stage = "read"
         /\ \/ OpIs(s, "drop", "read") /\ run' = run
            \/ op' = Free /\ Moves(s, "failed") /\ ~run[s].tools
         /\ UNCHANGED <<file, overlays, wish, raced, orphans>>
  BY GotoEffect, LeaveEffect DEF LookRaises, At, Quiet

\* DumpServers: the file shows the caller's servers, and the run is open.
LEMMA DumpServersEffect ==
  ASSUME RunType, NEW s \in Sessions, DumpServers(s)
  PROVE  /\ op.by = s /\ op.at = "add" /\ op.stage = "dump"
         /\ op' = Free /\ Moves(s, "open")
         /\ file' = [file EXCEPT ![run[s].path] = Written(Merged(op.doc, run[s].servers))]
         /\ UNCHANGED <<overlays, wish, raced, orphans>>
  BY LeaveEffect DEF DumpServers, At, Quiet

\* Close: the cleanup begins with the servers or, without any, with the tool server.
LEMMA CloseEffect ==
  ASSUME RunType, NEW s \in Sessions, Close(s)
  PROVE  /\ op = Free /\ run[s].at = "open" /\ Moves(s, "closing")
         /\ \/ OpIs(s, "restore", "read") /\ run[s].path = "global"
            \/ OpIs(s, "drop", "read") /\ (run[s].path # "global" \/ Claims(s) = {})
         /\ UNCHANGED <<file, overlays, wish, raced, orphans>>
<1>1. \/ Goto(s, "restore") /\ run[s].path = "global"
      \/ Goto(s, "drop") /\ (run[s].path # "global" \/ Claims(s) = {})
  BY DEF Close
<1>2. Moves(s, "closing")
  BY MoveEffect DEF Close
<1>3. QED
  BY <1>1, <1>2, GotoEffect DEF Close, Quiet

\* The entries that restore() writes back.
Back(s) == {n \in Claims(s) : Shows(n, s)}
Restored(s) == [k \in Keys |-> IF k \in Back(s) THEN Under(k, s) ELSE file["global"].entries[k]]

\* Restore: the session's layers are gone, and what lies under them is in memory.
LEMMA RestoreEffect ==
  ASSUME RunType, overlays \in [Names -> Overlay], NEW s \in Sessions, Restore(s)
  PROVE  /\ op.by = s /\ op.at = "restore" /\ op.stage = "read"
         /\ \/ OpIs(s, "drop", "read") /\ Back(s) = {}
            \/ OpIs(s, "replace", "read") /\ op'.doc = Restored(s)
         /\ \A n \in Names :
              /\ Layers(n)' = Without(Layers(n), s)
              /\ Layers(n)' # <<>> => overlays'[n].original = overlays[n].original
         /\ UNCHANGED <<file, run, wish, raced, orphans>>
<1>1. \/ Goto(s, "drop") /\ Back(s) = {}
      \/ Holds("replace", "read", Restored(s))
  BY DEF Restore, Back, Restored
<1>2. overlays' = [n \in Names |->
                     LET rest == Without(overlays[n].layers, s)
                     IN  IF rest = <<>> THEN NoState ELSE [overlays[n] EXCEPT !.layers = rest]]
  BY DEF Restore
<1>3. \A n \in Names : /\ Layers(n)' = Without(Layers(n), s)
                       /\ Layers(n)' # <<>> => overlays'[n].original = overlays[n].original
  BY <1>2 DEF Layers, NoState, Overlay
<1>4. op.by = s /\ op.at = "restore" /\ op.stage = "read"
  BY DEF Restore, At
<1>5. \/ OpIs(s, "drop", "read") /\ Back(s) = {}
      \/ OpIs(s, "replace", "read") /\ op'.doc = Restored(s)
  BY <1>1, <1>4, GotoEffect, HoldsEffect
<1>6. QED
  BY <1>3, <1>4, <1>5 DEF Restore, Quiet

\* Replace: the file shows what restore() had in memory.
LEMMA ReplaceEffect ==
  ASSUME RunType, NEW s \in Sessions, Replace(s)
  PROVE  /\ op.by = s /\ op.at = "replace" /\ op.stage = "read"
         /\ OpIs(s, "drop", "read")
         /\ file' = [file EXCEPT !["global"] = Written(op.doc)]
         /\ UNCHANGED <<run, overlays, wish, raced, orphans>>
  BY GotoEffect DEF Replace, At, Quiet

\* DumpWithout: the file shows the tool server no more, and the session has ended.
LEMMA DumpWithoutEffect ==
  ASSUME RunType, NEW s \in Sessions, DumpWithout(s)
  PROVE  /\ op.by = s /\ op.at = "drop" /\ op.stage = "dump"
         /\ op' = Free /\ \E state \in {"closed", "failed"} : Moves(s, state)
         /\ file' = [file EXCEPT ![run[s].path] = Written([op.doc EXCEPT ![s] = Absent])]
         /\ UNCHANGED <<overlays, wish, raced, orphans>>
<1>1. Ended(s) \in {"closed", "failed"}
  BY DEF Ended
<1>2. QED
  BY <1>1, LeaveEffect DEF DumpWithout, At, Quiet

\* NothingToDrop: the session has ended, and the file had no tool server of it.
LEMMA NothingToDropEffect ==
  ASSUME RunType, NEW s \in Sessions, NothingToDrop(s)
  PROVE  /\ op.by = s /\ op.at = "drop" /\ op.stage = "read"
         /\ file[run[s].path].status = "ok" => file[run[s].path].entries[s] = Absent
         /\ op' = Free /\ \E state \in {"closed", "failed"} : Moves(s, state)
         /\ UNCHANGED <<file, overlays, wish, raced, orphans>>
<1>1. Ended(s) \in {"closed", "failed"}
  BY DEF Ended
<1>2. QED
  BY <1>1, LeaveEffect DEF NothingToDrop, At, Quiet

\* Kill: the layers are lost, and the names of those who claimed any are orphans.
LEMMA KillEffect ==
  ASSUME RunType, Kill
  PROVE  /\ op' = Free /\ overlays' = [n \in Names |-> NoState]
         /\ \A t \in Sessions : run'[t] = IF run[t].at \in Active THEN Bare("killed") ELSE run[t]
         /\ orphans \subseteq orphans' /\ (InGlobal /\ op.stage = "dump" => Names \subseteq orphans')
         /\ \A t \in Sessions, n \in Names :
              run[t].at \in {"covering", "open", "closing"} /\ n \in Claims(t) => n \in orphans'
         /\ UNCHANGED <<file, wish, raced>>
<1> DEFINE lost == {n \in Names : \E t \in Sessions :
                      run[t].at \in {"covering", "open", "closing"} /\ n \in Claims(t)}
<1>1. orphans' = orphans \union (IF Dumping /\ run[op.by].path = "global" THEN Names ELSE lost)
  BY DEF Kill
<1>2. \A t \in Sessions, n \in Names :
        run[t].at \in {"covering", "open", "closing"} /\ n \in Claims(t) => n \in lost
  OBVIOUS
<1> HIDE DEF lost
<1>3. /\ orphans \subseteq orphans' /\ (InGlobal /\ op.stage = "dump" => Names \subseteq orphans')
      /\ \A t \in Sessions, n \in Names :
           run[t].at \in {"covering", "open", "closing"} /\ n \in Claims(t) => n \in orphans'
  BY <1>1, <1>2 DEF InGlobal, Dumping
<1>4. QED
  BY <1>3 DEF Kill, Active

\* The user's file differs in the entries changed, which are no caller's then.
LEMMA EditEffect ==
  ASSUME FileType, UserType, NEW f \in Edits, Edit(f)
  PROVE  /\ op.stage # "dump" /\ file' = [file EXCEPT !["global"] = f]
         /\ \A n \in Names :
              \/ f.entries[n] = file["global"].entries[n] /\ wish'[n] = wish[n] /\ (n \in raced' <=> n \in raced)
              \/ f.entries[n] \notin Values /\ wish'[n] = f.entries[n] /\ (n \in raced' <=> n \in InHand)
         /\ \A s \in Sessions : f.entries[s] \in {file["global"].entries[s], Absent}
         /\ UNCHANGED <<op, run, overlays, orphans>>
<1>1. Parsed(file["global"]) = file["global"].entries
  BY DEF FileType, Parsed, Paths
<1>2. \A n \in Names : f.entries[n] = file["global"].entries[n] \/ f.entries[n] \in UserValues \union {Absent}
  <2>1. CASE f \in {NoFile, BadFile}
    BY <2>1 DEF NoFile, BadFile, NoEntries, Keys
  <2>2. ASSUME NEW m \in Names, NEW u \in UserValues \union {Absent},
               f = Written([Parsed(file["global"]) EXCEPT ![m] = u])
        PROVE  \A n \in Names : f.entries[n] = file["global"].entries[n]
                                \/ f.entries[n] \in UserValues \union {Absent}
    BY <1>1, <2>2, ParsedType DEF Written, Paths, Keys
  <2>3. \/ f \in {NoFile, BadFile}
        \/ \E m \in Names, u \in UserValues \union {Absent} :
             f = Written([Parsed(file["global"]) EXCEPT ![m] = u])
    BY DEF Edits
  <2>4. QED
    BY <2>1, <2>2, <2>3
<1>3. \A s \in Sessions : f.entries[s] \in {file["global"].entries[s], Absent}
  <2>1. CASE f \in {NoFile, BadFile}
    BY <2>1 DEF NoFile, BadFile, NoEntries, Keys
  <2>2. ASSUME NEW m \in Names, NEW u \in UserValues \union {Absent},
               f = Written([Parsed(file["global"]) EXCEPT ![m] = u])
        PROVE  \A s \in Sessions : f.entries[s] = file["global"].entries[s]
    BY <1>1, <2>2, ParsedType, OverlayAssumption DEF Written, Paths, Keys
  <2>3. \/ f \in {NoFile, BadFile}
        \/ \E m \in Names, u \in UserValues \union {Absent} :
             f = Written([Parsed(file["global"]) EXCEPT ![m] = u])
    BY DEF Edits
  <2>4. QED
    BY <2>1, <2>2, <2>3
<1> DEFINE changed == {n \in Names : f.entries[n] # file["global"].entries[n]}
<1>4. /\ wish' = [n \in Names |-> IF n \in changed THEN f.entries[n] ELSE wish[n]]
      /\ raced' = (raced \ changed) \union (changed \cap InHand)
  BY <1>1 DEF Edit
<1>5. \A n \in Names : n \in changed => f.entries[n] \notin Values
  BY <1>2, OverlayAssumption
<1>6. \A n \in Names :
        \/ f.entries[n] = file["global"].entries[n] /\ wish'[n] = wish[n] /\ (n \in raced' <=> n \in raced)
        \/ f.entries[n] \notin Values /\ wish'[n] = f.entries[n] /\ (n \in raced' <=> n \in InHand)
  BY <1>4, <1>5 DEF UserType
<1>7. QED
  BY <1>3, <1>6 DEF Edit, Dumping

----------------------------------------------------------------------------
(* mcp_config.json: each part of the invariant through every step.         *)

\* The holder leaves the operation,
LEMMA OpLeft ==
  ASSUME OpInv, NEW s \in Sessions, NEW state \in {"open", "closed", "failed"},
         op.by = s, op' = Free, Moves(s, state)
  PROVE  OpInv'
<1>1. op'.by = Nobody /\ ~Working'
  BY OverlayAssumption DEF Free, Working
<1>2. \A t \in Sessions \ {s} : run'[t] = run[t]
  BY DEF Moves
<1>3. \A t \in Sessions : run'[t].at \notin {"opening", "covering", "closing"}
  BY <1>2 DEF Moves, OpInv
<1>4. QED
  BY ZenonT(40), <1>1, <1>3, OverlayAssumption DEF OpInv, HolderInv, Free

\* or goes on in it, or somebody begins one.
LEMMA OpGoesOn ==
  ASSUME OpInv, NEW s \in Sessions, op.by \in {s, Nobody}, op'.by = s,
         \A t \in Sessions \ {s} : run'[t] = run[t],
         run'[s].at \in {"opening", "covering", "closing"}, HolderInv'
  PROVE  OpInv'
  BY OverlayAssumption DEF OpInv

\* Every step keeps OpInv.
LEMMA OpStep ==
  ASSUME FileType, RunType, UserType, overlays \in [Names -> Overlay], OpInv,
         Next \/ UNCHANGED vars
  PROVE  OpInv'
<1>1. ASSUME NEW s \in Sessions, NEW path \in Paths, NEW tools \in BOOLEAN,
            NEW servers \in [Names -> Values \union {Absent}], Open(s, path, tools, servers)
     PROVE  OpInv'
  <2>1. /\ op = Free /\ run'[s].at = "opening" /\ run'[s].path = path /\ run'[s].tools = tools
        /\ \A t \in Sessions \ {s} : run'[t] = run[t]
        /\ \/ OpIs(s, "tool", "read") /\ tools
           \/ OpIs(s, "look", "read") /\ path = "global"
           \/ OpIs(s, "add", "read") /\ path # "global"
    BY <1>1, OpenEffect
  <2>2. HolderInv'
    BY <2>1 DEF HolderInv, Working, InGlobal, OpIs, Tasks
  <2>3. op.by = Nobody /\ op'.by = s
    BY <2>1 DEF Free, OpIs
  <2>4. QED
    BY <2>1, <2>2, <2>3, OpGoesOn
<1>2. ASSUME NEW s \in Sessions, Read(s) PROVE OpInv'
  <2>1. HolderInv'
    BY <1>2, ReadEffect DEF OpInv, HolderInv, Working, InGlobal, OpIs, Moves, Active, Tasks
  <2>2. QED
    BY <1>2, <2>1, ReadEffect, OpGoesOn DEF OpIs, OpInv, Moves, Free
<1>3. ASSUME NEW s \in Sessions, Cut(s) PROVE OpInv'
  <2>1. HolderInv'
    BY <1>3, CutEffect DEF OpInv, HolderInv, Working, InGlobal, OpIs, Moves, Active, Tasks
  <2>2. QED
    BY <1>3, <2>1, CutEffect, OpGoesOn DEF OpIs, OpInv, Moves, Free
<1>4. ASSUME NEW s \in Sessions, DumpTool(s) PROVE OpInv'
  <2>1. CASE op' = Free
    BY <1>4, <2>1, DumpToolEffect, OpLeft, OverlayAssumption DEF OpIs, Free
  <2>2. CASE op' # Free
    <3>1. HolderInv'
      BY <1>4, <2>2, DumpToolEffect DEF OpInv, HolderInv, Working, InGlobal, OpIs, Tasks
    <3>2. QED
      BY <1>4, <2>2, <3>1, DumpToolEffect, OpGoesOn DEF OpIs, OpInv
  <2>3. QED
    BY <2>1, <2>2
<1>5. ASSUME NEW s \in Sessions, Look(s) PROVE OpInv'
  <2>1. HolderInv'
    <3>1. op.by = s /\ op.at = "look" /\ OpIs(s, "add", "read") /\ Moves(s, "covering")
      BY <1>5, LookEffect
    <3>2. run[s].path = "global" /\ run'[s].path = "global" /\ run'[s].at = "covering"
      BY <3>1 DEF OpInv, HolderInv, Working, InGlobal, Moves, Active
    <3>3. QED
      BY <3>1, <3>2 DEF HolderInv, Working, InGlobal, OpIs, Tasks
  <2>2. QED
    BY <1>5, <2>1, LookEffect, OpGoesOn DEF OpIs, OpInv, Moves, Free
<1>6. ASSUME NEW s \in Sessions, LookRaises(s) PROVE OpInv'
  <2>1. CASE op' = Free
    BY <1>6, <2>1, LookRaisesEffect, OpLeft, OverlayAssumption DEF OpIs, Free
  <2>2. CASE op' # Free
    <3>1. HolderInv'
      BY <1>6, <2>2, LookRaisesEffect DEF OpInv, HolderInv, Working, InGlobal, OpIs, Tasks
    <3>2. QED
      BY <1>6, <2>2, <3>1, LookRaisesEffect, OpGoesOn DEF OpIs, OpInv
  <2>3. QED
    BY <2>1, <2>2
<1>7. ASSUME NEW s \in Sessions, DumpServers(s) PROVE OpInv'
  BY <1>7, DumpServersEffect, OpLeft
<1>8. ASSUME NEW s \in Sessions, Close(s) PROVE OpInv'
  <2>1. op = Free /\ Moves(s, "closing") /\ op'.by = s
    BY <1>8, CloseEffect DEF OpIs
  <2>2. HolderInv'
    BY <1>8, CloseEffect DEF HolderInv, Working, InGlobal, OpIs, Moves, Active, Tasks
  <2>3. op.by = Nobody
    BY <2>1 DEF Free
  <2>4. QED
    BY <2>1, <2>2, <2>3, OpGoesOn DEF Moves
<1>9. ASSUME NEW s \in Sessions, Restore(s) PROVE OpInv'
  <2>1. HolderInv'
    BY <1>9, RestoreEffect DEF OpInv, HolderInv, Working, InGlobal, OpIs, Moves, Active, Tasks
  <2>2. QED
    BY <1>9, <2>1, RestoreEffect, OpGoesOn DEF OpIs, OpInv, Moves, Free
<1>10. ASSUME NEW s \in Sessions, Replace(s) PROVE OpInv'
  <2>1. HolderInv'
    BY <1>10, ReplaceEffect DEF OpInv, HolderInv, Working, InGlobal, OpIs, Moves, Active, Tasks
  <2>2. QED
    BY <1>10, <2>1, ReplaceEffect, OpGoesOn DEF OpIs, OpInv, Moves, Free
<1>11. ASSUME NEW s \in Sessions, DumpWithout(s) PROVE OpInv'
  BY <1>11, DumpWithoutEffect, OpLeft
<1>12. ASSUME NEW s \in Sessions, NothingToDrop(s) PROVE OpInv'
  BY <1>12, NothingToDropEffect, OpLeft
<1>13. ASSUME NEW f \in Edits, Edit(f) PROVE OpInv'
  BY <1>13, EditEffect DEF OpInv, HolderInv, Working, InGlobal
<1>14. CASE Kill
  <2>1. \A t \in Sessions : run'[t].at \notin {"opening", "covering", "closing"}
    BY <1>14, KillEffect DEF Bare, Active
  <2>2. op' = Free
    BY <1>14, KillEffect
  <2>3. op'.by = Nobody
    BY <2>2 DEF Free
  <2>4. QED
    BY <2>1, <2>2, <2>3, OverlayAssumption DEF OpInv, HolderInv, Working
<1>15. CASE UNCHANGED vars
  BY <1>15 DEF vars, OpInv, HolderInv, Working, InGlobal
<1>16. QED
  BY <1>1, <1>2, <1>3, <1>4, <1>5, <1>6, <1>7, <1>8,
     <1>9, <1>10, <1>11, <1>12, <1>13, <1>14, <1>15 DEF Next

\* Where _MCP_OVERLAYS stays as it is, its layers need only to keep their sessions.
LEMMA LayersStay ==
  ASSUME LayersInv, overlays' = overlays,
         \A n \in Names, t \in Sessions : LayerOf(n, t) => LayerOf(n, t)'
  PROVE  LayersInv'
<1>1. \A n \in Names : Layers(n)' = Layers(n)
  BY DEF Layers
<1>2. QED
  BY <1>1 DEF LayersInv

\* The layers of a session that does not hold _MCP_LOCK.
LEMMA LayerOfOther ==
  ASSUME NEW s, op.by \in {s, Nobody}, NEW n \in Names, NEW t \in Sessions \ {s},
         LayerOf(n, t), run'[t] = run[t]
  PROVE  LayerOf(n, t)'
  BY OverlayAssumption DEF LayerOf, Claims

\* Every step keeps LayersInv.
LEMMA LayersStep ==
  ASSUME FileType, RunType, UserType, overlays \in [Names -> Overlay], OpInv, LayersInv,
         Next \/ UNCHANGED vars
  PROVE  LayersInv'
<1>1. ASSUME NEW s \in Sessions, NEW path \in Paths, NEW tools \in BOOLEAN,
            NEW servers \in [Names -> Values \union {Absent}], Open(s, path, tools, servers)
     PROVE  LayersInv'
  <2>1. op = Free /\ run[s].at = "new" /\ op.by \in {s, Nobody}
    BY ZenonT(40), <1>1, OpenEffect, FreeLock
  <2>2. \A n \in Names : ~LayerOf(n, s)
    BY <2>1, OverlayAssumption DEF LayerOf, OpInv, HolderInv, Working, Free
  <2>3. \A t \in Sessions \ {s} : run'[t] = run[t]
    BY <1>1, OpenEffect DEF Moves
  <2>4. \A n \in Names, t \in Sessions : LayerOf(n, t) => LayerOf(n, t)'
    BY <2>1, <2>2, <2>3, LayerOfOther
  <2>5. QED
    BY <1>1, <2>4, OpenEffect, LayersStay
<1>2. ASSUME NEW s \in Sessions, Read(s) PROVE LayersInv'
  <2>1. \A n \in Names, t \in Sessions : LayerOf(n, t) => LayerOf(n, t)'
    BY <1>2, ReadEffect DEF LayerOf, Claims, OpInv, HolderInv, OpIs, Moves, Active
  <2>2. QED
    BY <1>2, <2>1, ReadEffect, LayersStay
<1>3. ASSUME NEW s \in Sessions, Cut(s) PROVE LayersInv'
  <2>1. \A n \in Names, t \in Sessions : LayerOf(n, t) => LayerOf(n, t)'
    BY <1>3, CutEffect DEF LayerOf, Claims, OpInv, HolderInv, OpIs, Moves, Active
  <2>2. QED
    BY <1>3, <2>1, CutEffect, LayersStay
<1>4. ASSUME NEW s \in Sessions, DumpTool(s) PROVE LayersInv'
  <2>1. op.by = s /\ op.at = "tool" /\ op.by \in {s, Nobody}
    BY <1>4, DumpToolEffect, FreeLock
  <2>2. \A n \in Names : ~LayerOf(n, s)
    BY <2>1, OverlayAssumption DEF LayerOf, OpInv, HolderInv, Working, Free
  <2>3. \A t \in Sessions \ {s} : run'[t] = run[t]
    BY <1>4, DumpToolEffect DEF Moves
  <2>4. \A n \in Names, t \in Sessions : LayerOf(n, t) => LayerOf(n, t)'
    BY <2>1, <2>2, <2>3, LayerOfOther
  <2>5. QED
    BY <1>4, <2>4, DumpToolEffect, LayersStay
<1>5. ASSUME NEW s \in Sessions, Look(s) PROVE LayersInv'
  <2>1. op.by = s /\ op.at = "look" /\ op'.by = s /\ Moves(s, "covering")
    BY <1>5, LookEffect DEF OpIs
  <2>2. run[s].at = "opening" /\ run[s].path = "global"
    BY <2>1 DEF OpInv, HolderInv, Working, InGlobal
  <2>3. \A n \in Names : ~LayerOf(n, s)
    BY <2>1, <2>2 DEF LayerOf
  <2>4. \A n \in Names, t \in Sessions : LayerOf(n, t) => t # s /\ LayerOf(n, t)'
    BY <2>1, <2>3, LayerOfOther DEF Moves
  <2>5. \A n \in Claims(s) : LayerOf(n, s)'
    BY <2>1, <2>2 DEF LayerOf, Claims, Moves, Active
  <2> SUFFICES ASSUME NEW n \in Names
               PROVE  /\ \A t \in Sessions : Has(Layers(n), t)' => LayerOf(n, t)'
                      /\ Distinct(Layers(n))'
    BY DEF LayersInv
  <2>6. /\ Layers(n) \in Seq(Sessions) /\ Distinct(Layers(n)) /\ ~Has(Layers(n), s)
        /\ \A t \in Sessions : Has(Layers(n), t) => LayerOf(n, t)'
    BY <2>4 DEF Layers, Overlay, LayersInv
  <2>7. overlays'[n] = IF n \in Claims(s) THEN Covered(n, s) ELSE overlays[n]
    BY <1>5, LookEffect
  <2>8. CASE n \notin Claims(s)
    <3>1. Layers(n)' = Layers(n)
      BY <2>7, <2>8 DEF Layers
    <3>2. QED
      BY <2>6, <3>1
  <2>9. CASE n \in Claims(s) /\ Layers(n)' = Append(Layers(n), s)
    <3>1. Distinct(Append(Layers(n), s))
      BY <2>6, AppendLayer
    <3>2. \A t \in Sessions : Has(Append(Layers(n), s), t) => LayerOf(n, t)'
      BY <2>5, <2>6, <2>9, AppendLayer
    <3>3. QED
      BY <2>9, <3>1, <3>2
  <2>10. CASE n \in Claims(s) /\ Layers(n)' = <<s>>
    <3>1. DOMAIN <<s>> = {1} /\ <<s>>[1] = s
      OBVIOUS
    <3>2. Distinct(<<s>>) /\ \A t \in Sessions : Has(<<s>>, t) => t = s
      BY <3>1 DEF Distinct, Has
    <3>3. QED
      BY <2>5, <2>10, <3>2
  <2>11. Covered(n, s).layers \in {Append(Layers(n), s), <<s>>}
    <3>1. [overlays[n] EXCEPT !.layers = Append(@, s)].layers = Append(overlays[n].layers, s)
      BY DEF Overlay
    <3>2. QED
      BY <3>1 DEF Covered, Layers
  <2>12. n \in Claims(s) => Layers(n)' \in {Append(Layers(n), s), <<s>>}
    BY <2>7, <2>11 DEF Layers
  <2>13. QED
    BY <2>8, <2>9, <2>10, <2>12
<1>6. ASSUME NEW s \in Sessions, LookRaises(s) PROVE LayersInv'
  <2>1. op.by = s /\ op.at = "look" /\ op.by \in {s, Nobody}
    BY <1>6, LookRaisesEffect, FreeLock
  <2>2. \A n \in Names : ~LayerOf(n, s)
    BY <2>1, OverlayAssumption DEF LayerOf, OpInv, HolderInv, Working, Free
  <2>3. \A t \in Sessions \ {s} : run'[t] = run[t]
    BY <1>6, LookRaisesEffect DEF Moves
  <2>4. \A n \in Names, t \in Sessions : LayerOf(n, t) => LayerOf(n, t)'
    BY <2>1, <2>2, <2>3, LayerOfOther
  <2>5. QED
    BY <1>6, <2>4, LookRaisesEffect, LayersStay
<1>7. ASSUME NEW s \in Sessions, DumpServers(s) PROVE LayersInv'
  <2>1. \A n \in Names, t \in Sessions : LayerOf(n, t) => LayerOf(n, t)'
    BY ZenonT(40), <1>7, DumpServersEffect DEF LayerOf, Claims, OpInv, HolderInv, OpIs, Moves, Active
  <2>2. QED
    BY <1>7, <2>1, DumpServersEffect, LayersStay
<1>8. ASSUME NEW s \in Sessions, Close(s) PROVE LayersInv'
  <2>1. op = Free /\ run[s].at = "open" /\ Moves(s, "closing") /\ op.by = Nobody
    BY <1>8, CloseEffect, FreeLock
  <2>5. \A t \in Sessions \ {s} : run'[t] = run[t]
    BY <2>1 DEF Moves
  <2>4. \A n \in Names, t \in Sessions \ {s} : LayerOf(n, t) => LayerOf(n, t)'
    <3>1. op.by \in {s, Nobody}
      BY <2>1
    <3>2. QED
      BY <3>1, <2>5, LayerOfOther
  <2>2. ASSUME NEW n \in Names, NEW t \in Sessions, LayerOf(n, t) PROVE LayerOf(n, t)'
    <3>1. CASE t = s
      <4>1. run[s].path = "global" /\ n \in Claims(s)
        BY <2>2, <3>1 DEF LayerOf
      <4>2. OpIs(s, "restore", "read")
        BY <1>8, <4>1, CloseEffect
      <4>3. run'[s].path = "global" /\ run'[s].servers = run[s].servers
        BY <2>1, <4>1 DEF Moves, Active
      <4>4. QED
        BY <3>1, <4>1, <4>2, <4>3 DEF LayerOf, Claims, OpIs
    <3>2. t # s => LayerOf(n, t)'
      BY <2>2, <2>4
    <3>3. QED
      BY <3>1, <3>2
  <2>3. QED
    BY <1>8, <2>2, CloseEffect, LayersStay
<1>9. ASSUME NEW s \in Sessions, Restore(s) PROVE LayersInv'
  <2>1. \A n \in Names, t \in Sessions \ {s} : LayerOf(n, t) => LayerOf(n, t)'
    BY <1>9, RestoreEffect DEF LayerOf, Claims
  <2> SUFFICES ASSUME NEW n \in Names
               PROVE  /\ \A t \in Sessions : Has(Layers(n), t)' => LayerOf(n, t)'
                      /\ Distinct(Layers(n))'
    BY DEF LayersInv
  <2>2. Layers(n) \in Seq(Sessions) /\ Distinct(Layers(n))
    BY DEF Layers, Overlay, LayersInv
  <2>3. Layers(n)' = Without(Layers(n), s)
    BY <1>9, RestoreEffect
  <2>4. /\ Distinct(Without(Layers(n), s))
        /\ \A t \in Sessions : Has(Without(Layers(n), s), t) => t # s /\ Has(Layers(n), t)
    BY <2>2, WithoutLayer
  <2>5. \A t \in Sessions : Has(Without(Layers(n), s), t) => LayerOf(n, t)'
    BY <2>1, <2>4 DEF LayersInv
  <2>6. QED
    BY <2>3, <2>4, <2>5
<1>10. ASSUME NEW s \in Sessions, Replace(s) PROVE LayersInv'
  <2>1. \A n \in Names, t \in Sessions : LayerOf(n, t) => LayerOf(n, t)'
    BY <1>10, ReplaceEffect DEF LayerOf, Claims, OpInv, HolderInv, OpIs, Moves, Active
  <2>2. QED
    BY <1>10, <2>1, ReplaceEffect, LayersStay
<1>11. ASSUME NEW s \in Sessions, DumpWithout(s) PROVE LayersInv'
  <2>1. op.by = s /\ op.at = "drop" /\ op.by \in {s, Nobody}
    BY <1>11, DumpWithoutEffect, FreeLock
  <2>2. \A n \in Names : ~LayerOf(n, s)
    BY <2>1, OverlayAssumption DEF LayerOf, OpInv, HolderInv, Working, Free
  <2>3. \A t \in Sessions \ {s} : run'[t] = run[t]
    BY <1>11, DumpWithoutEffect DEF Moves
  <2>4. \A n \in Names, t \in Sessions : LayerOf(n, t) => LayerOf(n, t)'
    BY <2>1, <2>2, <2>3, LayerOfOther
  <2>5. QED
    BY <1>11, <2>4, DumpWithoutEffect, LayersStay
<1>12. ASSUME NEW s \in Sessions, NothingToDrop(s) PROVE LayersInv'
  <2>1. op.by = s /\ op.at = "drop" /\ op.by \in {s, Nobody}
    BY <1>12, NothingToDropEffect, FreeLock
  <2>2. \A n \in Names : ~LayerOf(n, s)
    BY <2>1, OverlayAssumption DEF LayerOf, OpInv, HolderInv, Working, Free
  <2>3. \A t \in Sessions \ {s} : run'[t] = run[t]
    BY <1>12, NothingToDropEffect DEF Moves
  <2>4. \A n \in Names, t \in Sessions : LayerOf(n, t) => LayerOf(n, t)'
    BY <2>1, <2>2, <2>3, LayerOfOther
  <2>5. QED
    BY <1>12, <2>4, NothingToDropEffect, LayersStay
<1>13. ASSUME NEW f \in Edits, Edit(f) PROVE LayersInv'
  <2>1. \A n \in Names, t \in Sessions : LayerOf(n, t) => LayerOf(n, t)'
    BY <1>13, EditEffect DEF LayerOf, Claims
  <2>2. QED
    BY <1>13, <2>1, EditEffect, LayersStay
<1>14. CASE Kill
  <2>1. \A n \in Names : Layers(n)' = <<>>
    BY <1>14, KillEffect DEF Layers, NoState
  <2>2. QED
    BY <2>1 DEF LayersInv, Distinct, Has
<1>15. CASE UNCHANGED vars
  BY <1>15, LayersStay DEF vars, LayerOf, Claims
<1>16. QED
  BY <1>1, <1>2, <1>3, <1>4, <1>5, <1>6, <1>7, <1>8,
     <1>9, <1>10, <1>11, <1>12, <1>13, <1>14, <1>15 DEF Next

----------------------------------------------------------------------------
(* mcp_config.json: the entries of the callers' servers, step by step.     *)

\* The last layer is one of the layers.
LEMMA TopLayer ==
  ASSUME overlays \in [Names -> Overlay], NEW n \in Names, Layers(n) # <<>>
  PROVE  Last(Layers(n)) \in Sessions /\ Has(Layers(n), Last(Layers(n)))
<1>1. Layers(n) \in Seq(Sessions)
  BY DEF Layers, Overlay
<1>2. Len(Layers(n)) \in DOMAIN Layers(n)
  BY <1>1
<1>3. QED
  BY <1>1, <1>2 DEF Last, Has

\* The servers a session claims are a caller's values.
LEMMA ServerOfClaim ==
  ASSUME RunType, NEW t \in Sessions, NEW n \in Claims(t)
  PROVE  run[t].servers[n] \in Values
  BY DEF RunType, Run, Claims

\* An entry stays good when nothing is done to the layers over it.
LEMMA GoodStays ==
  ASSUME overlays \in [Names -> Overlay], LayersInv, UNCHANGED <<overlays, wish, raced>>,
         \A n \in Names, t \in Sessions : LayerOf(n, t) => run'[t].servers = run[t].servers
  PROVE  \A n \in Names, v \in Server : Good(v, n) => Good(v, n)'
<1> SUFFICES ASSUME NEW n \in Names, NEW v \in Server, Good(v, n) PROVE Good(v, n)'
  OBVIOUS
<1>1. Layers(n)' = Layers(n)
  BY DEF Layers
<1>2. Layers(n) # <<>> => run'[Last(Layers(n))].servers = run[Last(Layers(n))].servers
  BY TopLayer DEF LayersInv
<1>3. Covers(v, n) => Covers(v, n)'
  BY <1>1, <1>2 DEF Covers
<1>4. QED
  BY <1>3 DEF Good

\* A session that moves has no layer, or keeps its servers.
LEMMA MovedServers ==
  ASSUME NEW s \in Sessions, NEW state, Moves(s, state),
         state \in Active \/ \A n \in Names : ~LayerOf(n, s)
  PROVE  \A n \in Names, t \in Sessions : LayerOf(n, t) => run'[t].servers = run[t].servers
  BY DEF Moves

\* What the file shows for a name is a server.
LEMMA EntryType == FileType => \A n \in Names : Entry(n) \in Server
  BY ParsedType DEF Entry, Paths, Keys

\* A session that the holder looks for, or drops, has no layer.
LEMMA NotALayer ==
  ASSUME OpInv, NEW s \in Sessions, op.by = s, op.at \in {"tool", "look", "drop"}
  PROVE  \A n \in Names : ~LayerOf(n, s)
  BY DEF LayerOf, OpInv, HolderInv, Working

\* All entries are good after the step, and nothing is in hand.
LEMMA Settles ==
  ASSUME \A n \in Names \ orphans : Good(Entry(n), n)',
         UNCHANGED <<overlays, orphans>>, OriginalInv, Covering' = {}, ~HasDoc'
  PROVE  ValuesInv'
<1>1. EntriesInv' /\ DocInv' /\ CoverInv'
  BY DEF EntriesInv, DocInv, CoverInv
<1>2. OriginalInv'
  BY DEF OriginalInv, Layers
<1>3. QED
  BY <1>1, <1>2 DEF ValuesInv

\* A step that leaves the file and the layers alone.
LEMMA Quietly ==
  ASSUME FileType, overlays \in [Names -> Overlay], LayersInv, ValuesInv,
         UNCHANGED <<file, overlays, wish, raced, orphans>>,
         \A n \in Names, t \in Sessions : LayerOf(n, t) => run'[t].servers = run[t].servers,
         ~(InGlobal /\ op.stage = "dump"), Unsettled = {},
         Covering' = {}, ~HasDoc'
  PROVE  ValuesInv'
<1>1. \A n \in Names, v \in Server : Good(v, n) => Good(v, n)'
  BY GoodStays
<1>2. \A n \in Names \ orphans : Good(Entry(n), n) /\ Entry(n) \in Server /\ Entry(n)' = Entry(n)
  BY EntryType DEF ValuesInv, EntriesInv, Entry
<1>3. \A n \in Names \ orphans : Good(Entry(n), n)'
  BY <1>1, <1>2 DEF Good, Covers
<1>4. QED
  BY <1>3, Settles DEF ValuesInv

\* The new entries of the file are those in hand.
LEMMA Lands ==
  ASSUME FileType, RunType, overlays \in [Names -> Overlay], LayersInv, ValuesInv,
         UNCHANGED <<overlays, wish, raced, orphans>>,
         \A n \in Names, t \in Sessions : LayerOf(n, t) => run'[t].servers = run[t].servers,
         \A n \in Names : Entry(n)' = IF InGlobal THEN op.doc[n] ELSE Entry(n),
         HasDoc, Covering = {}, Covering' = {}, ~HasDoc'
  PROVE  ValuesInv'
<1>1. \A n \in Names, v \in Server : Good(v, n) => Good(v, n)'
  BY GoodStays
<1>2. \A n \in Names : Entry(n) \in Server /\ op.doc[n] \in Server
  BY EntryType DEF RunType, Op, Keys
<1>3. CASE InGlobal
  <2>1. \A n \in Names \ orphans : Good(op.doc[n], n)
    BY <1>3 DEF ValuesInv, DocInv
  <2>2. \A n \in Names \ orphans : Good(Entry(n), n)'
    BY <1>1, <1>2, <1>3, <2>1 DEF Good, Covers
  <2>3. QED
    BY <2>2, Settles DEF ValuesInv
<1>4. CASE ~InGlobal
  <2>1. \A n \in Names \ orphans : Good(Entry(n), n)
    BY <1>4 DEF ValuesInv, EntriesInv, Unsettled
  <2>2. \A n \in Names \ orphans : Good(Entry(n), n)'
    BY <1>1, <1>2, <1>4, <2>1 DEF Good, Covers
  <2>3. QED
    BY <2>2, Settles DEF ValuesInv
<1>5. QED
  BY <1>3, <1>4

\* Reading a file that does not parse gives what the file shows: nothing.
LEMMA ParsedEntries == FileType => \A p \in Paths : Parsed(file[p]) = file[p].entries
  BY DEF FileType, Parsed

\* The file with one entry of a session changed, in the document in hand.
LEMMA WrittenEntries ==
  ASSUME FileType, RunType, NEW s \in Sessions, NEW v, op.by = s,
         file' = [file EXCEPT ![run[s].path] = Written([op.doc EXCEPT ![s] = v])]
  PROVE  \A n \in Names : Entry(n)' = IF InGlobal THEN op.doc[n] ELSE Entry(n)
<1>1. run[s].path \in Paths /\ op.doc \in [Keys -> Server]
  BY DEF RunType, Run, Op
<1>2. \A n \in Names : n # s /\ n \in Keys
  BY OverlayAssumption DEF Keys
<1>3. \A n \in Names : Written([op.doc EXCEPT ![s] = v]).entries[n] = op.doc[n]
  BY <1>1, <1>2 DEF Written
<1>4. file'["global"] = IF run[s].path = "global" THEN Written([op.doc EXCEPT ![s] = v])
                        ELSE file["global"]
  BY <1>1 DEF FileType, Paths
<1>5. QED
  BY <1>3, <1>4 DEF Entry, InGlobal, Working

\* Every step keeps ValuesInv.
LEMMA ValuesStep ==
  ASSUME FileType, RunType, UserType, overlays \in [Names -> Overlay], OpInv, LayersInv, ValuesInv,
         Next \/ UNCHANGED vars
  PROVE  ValuesInv'
<1>1. ASSUME NEW s \in Sessions, NEW path \in Paths, NEW tools \in BOOLEAN,
            NEW servers \in [Names -> Values \union {Absent}], Open(s, path, tools, servers)
     PROVE  ValuesInv'
  <2>1. /\ op = Free /\ run[s].at = "new" /\ op'.by = s /\ op'.stage = "read"
        /\ op'.at \in {"tool", "look", "add"} /\ (op'.at = "add" => run'[s].path # "global")
        /\ \A t \in Sessions \ {s} : run'[t] = run[t]
        /\ UNCHANGED <<file, overlays, wish, raced, orphans>>
    BY <1>1, OpenEffect DEF OpIs
  <2>2. \A n \in Names, t \in Sessions : LayerOf(n, t) => run'[t].servers = run[t].servers
    BY <2>1, FreeLock, OverlayAssumption DEF LayerOf
  <2>3. ~InGlobal /\ Unsettled = {} /\ Covering = {}
    BY <2>1, FreeLock, OverlayAssumption DEF Working, InGlobal, Unsettled, Covering
  <2>4. Unsettled' = {} /\ Covering' = {} /\ ~HasDoc'
    BY <2>1 DEF InGlobal, Unsettled, Covering, HasDoc
  <2>5. QED
    BY <2>1, <2>2, <2>3, <2>4, Quietly
<1>2. ASSUME NEW s \in Sessions, Read(s) PROVE ValuesInv'
  <2>1. /\ op.by = s /\ op.at \in {"tool", "add", "drop"} /\ op.stage = "read"
        /\ op'.by = s /\ op'.at = op.at /\ op'.stage = "cut"
        /\ UNCHANGED <<file, run, overlays, wish, raced, orphans>>
    BY <1>2, ReadEffect DEF OpIs
  <2>2. /\ InGlobal' = InGlobal /\ Covering' = Covering
        /\ Unsettled' = Covering /\ Unsettled = Covering
    BY <2>1 DEF InGlobal, Working, Covering, Unsettled, Claims
  <2>3. \A n \in Names, v \in Server : Good(v, n) => Good(v, n)'
    BY <2>1, GoodStays
  <2>4. \A n \in Names \ (orphans \union Covering) :
          Good(Entry(n), n) /\ Entry(n) \in Server /\ Entry(n)' = Entry(n)
    BY <2>1, <2>2, EntryType DEF ValuesInv, EntriesInv, Entry
  <2>5. InGlobal => \A n \in Names : op'.doc[n] = Entry(n)
    <3>1. op'.doc = Parsed(file[run[s].path])
      BY <1>2, ReadEffect
    <3>2. QED
      BY <2>1, <3>1, ParsedEntries DEF InGlobal, Entry, Paths
  <2>6. EntriesInv'
    BY <2>1, <2>2, <2>3, <2>4 DEF EntriesInv, Good, Covers
  <2>7. DocInv'
    BY <2>1, <2>2, <2>3, <2>4, <2>5 DEF DocInv, Good, Covers
  <2>8. CoverInv' /\ OriginalInv'
    BY <2>1, <2>2 DEF ValuesInv, CoverInv, OriginalInv, Layers
  <2>9. QED
    BY <2>6, <2>7, <2>8 DEF ValuesInv
<1>3. ASSUME NEW s \in Sessions, Cut(s) PROVE ValuesInv'
  <2>1. /\ op.by = s /\ op.stage = "cut" /\ op'.by = s /\ op'.at = op.at
        /\ op'.stage = "dump" /\ op'.doc = op.doc
        /\ file' = [file EXCEPT ![run[s].path] = BadFile]
        /\ UNCHANGED <<run, overlays, wish, raced, orphans>>
    BY <1>3, CutEffect DEF OpIs
  <2>2. /\ InGlobal' = InGlobal /\ Covering' = Covering /\ Unsettled' = Unsettled
    BY <2>1 DEF InGlobal, Working, Covering, Unsettled, Claims
  <2>3. \A n \in Names, v \in Server : Good(v, n) => Good(v, n)'
    BY <2>1, GoodStays
  <2>4. EntriesInv'
    <3>1. CASE InGlobal
      BY <2>1, <2>2, <3>1 DEF EntriesInv
    <3>2. CASE ~InGlobal
      <4>1. run[s].path \in Paths /\ run[s].path # "global"
        BY <2>1, <3>2 DEF InGlobal, Working, RunType, Run
      <4>2. \A n \in Names : Entry(n)' = Entry(n) /\ Entry(n) \in Server
        BY <2>1, <4>1, EntryType DEF Entry, FileType, Paths
      <4>3. \A n \in Names \ (orphans \union Unsettled) : Good(Entry(n), n)
        BY <3>2 DEF ValuesInv, EntriesInv
      <4>4. QED
        BY <2>1, <2>2, <2>3, <4>2, <4>3 DEF EntriesInv, Good, Covers
    <3>3. QED
      BY <3>1, <3>2
  <2>5. DocInv'
    <3>1. \A n \in Names : op.doc[n] \in Server
      BY DEF RunType, Op, Keys
    <3>2. InGlobal => \A n \in Names \ (orphans \union Covering) : Good(op.doc[n], n)
      BY <2>1 DEF ValuesInv, DocInv, HasDoc
    <3>3. QED
      BY <2>1, <2>2, <2>3, <3>1, <3>2 DEF DocInv, Good, Covers
  <2>6. CoverInv' /\ OriginalInv'
    BY <2>1, <2>2 DEF ValuesInv, CoverInv, OriginalInv, Layers
  <2>7. QED
    BY <2>4, <2>5, <2>6 DEF ValuesInv
<1>4. ASSUME NEW s \in Sessions, DumpTool(s) PROVE ValuesInv'
  <2>1. /\ op.by = s /\ op.at = "tool" /\ op.stage = "dump"
        /\ UNCHANGED <<overlays, wish, raced, orphans>>
    BY <1>4, DumpToolEffect
  <2>2. \A n \in Names, t \in Sessions : LayerOf(n, t) => run'[t].servers = run[t].servers
    <3>1. run' = run \/ Moves(s, "open")
      BY <1>4, DumpToolEffect
    <3>2. QED
      BY <3>1, MovedServers DEF Active
  <2>3. \A n \in Names : Entry(n)' = IF InGlobal THEN op.doc[n] ELSE Entry(n)
    BY <1>4, <2>1, DumpToolEffect, WrittenEntries
  <2>4. HasDoc /\ Covering = {}
    BY <2>1 DEF HasDoc, Covering
  <2>5. Covering' = {} /\ ~HasDoc'
    <3>1. \/ op' = Free
          \/ OpIs(s, "look", "read")
          \/ OpIs(s, "add", "read") /\ run'[s].path # "global"
      BY <1>4, DumpToolEffect
    <3>2. QED
      BY <3>1, FreeLock DEF Covering, HasDoc, OpIs, InGlobal
  <2>6. QED
    BY <2>1, <2>2, <2>3, <2>4, <2>5, Lands
<1>5. ASSUME NEW s \in Sessions, Look(s) PROVE ValuesInv'
  <2>1. /\ op.by = s /\ op.at = "look" /\ op.stage = "read"
        /\ op'.by = s /\ op'.at = "add" /\ op'.stage = "read" /\ Moves(s, "covering")
        /\ overlays' = [n \in Names |-> IF n \in Claims(s) THEN Covered(n, s) ELSE overlays[n]]
        /\ UNCHANGED <<file, wish, raced, orphans>>
    BY <1>5, LookEffect DEF OpIs
  <2>2. InGlobal /\ run[s].path = "global"
    BY <2>1 DEF OpInv, HolderInv, Working, InGlobal
  <2>3. InGlobal' /\ Covering' = Claims(s) /\ Unsettled' = Claims(s) /\ ~HasDoc' /\ Unsettled = {}
    BY <2>1, <2>2 DEF InGlobal, Working, Covering, Unsettled, HasDoc, Moves, Active, Claims
  <2>4. \A n \in Names \ orphans : Good(Entry(n), n) /\ Entry(n)' = Entry(n)
    BY <2>1, <2>3 DEF ValuesInv, EntriesInv, Entry
  <2>5. ASSUME NEW n \in Names \ (orphans' \union Unsettled') PROVE Good(Entry(n), n)'
    <3>1. Layers(n)' = Layers(n) /\ overlays'[n] = overlays[n]
      BY <2>1, <2>3 DEF Layers
    <3>2. Layers(n) # <<>> => run'[Last(Layers(n))].servers = run[Last(Layers(n))].servers
      BY <2>1, TopLayer DEF Moves, Active
    <3>3. QED
      BY <2>1, <2>4, <3>1, <3>2 DEF Good, Covers
  <2>6. ASSUME NEW n \in Claims(s) \ orphans
        PROVE  /\ Layers(n)' # <<>> /\ Last(Layers(n)') = s
               /\ n \notin raced => overlays'[n].original = wish[n]
               /\ overlays'[n].original \notin Values
    <3>1. n \in Names /\ overlays'[n] = Covered(n, s) /\ Layers(n) \in Seq(Sessions)
      BY <2>1 DEF Claims, Layers, Overlay
    <3>2. Good(Entry(n), n)
      BY <2>4, <3>1
    <3>3. CASE Covers(Entry(n), n)
      <4>1. Covered(n, s) = [overlays[n] EXCEPT !.layers = Append(Layers(n), s)]
        BY <3>3 DEF Covered, Covers, Entry, Layers
      <4>2. Layers(n)' = Append(Layers(n), s) /\ overlays'[n].original = overlays[n].original
        BY <3>1, <4>1 DEF Layers, Overlay
      <4>3. overlays[n].original \notin Values
        BY <3>1, <3>3 DEF ValuesInv, OriginalInv, Covers
      <4>4. n \notin raced => overlays[n].original = wish[n]
        <5>1. Last(Layers(n)) \in Sessions /\ n \in Claims(Last(Layers(n)))
          BY <3>1, <3>3, TopLayer DEF Covers, LayersInv, LayerOf
        <5>2. Entry(n) \in Values
          BY <3>3, <5>1, ServerOfClaim DEF Covers
        <5>3. Entry(n) # wish[n]
          BY <3>1, <5>2, OverlayAssumption DEF UserType
        <5>4. QED
          BY <3>2, <5>3 DEF Good
      <4>5. QED
        BY <3>1, <4>2, <4>3, <4>4, AppendLayer
    <3>4. CASE ~Covers(Entry(n), n)
      <4>1. Covered(n, s) = [original |-> Entry(n), layers |-> <<s>>]
        BY <3>4 DEF Covered, Covers, Entry, Layers
      <4>2. Layers(n)' = <<s>> /\ overlays'[n].original = Entry(n)
        BY <3>1, <4>1 DEF Layers
      <4>3. Entry(n) \notin Values /\ (n \notin raced => Entry(n) = wish[n])
        BY <3>2, <3>4 DEF Good
      <4>4. <<s>> # <<>> /\ Last(<<s>>) = s
        BY DEF Last
      <4>5. QED
        BY <4>2, <4>3, <4>4
    <3>5. QED
      BY <3>3, <3>4
  <2>7. EntriesInv'
    BY <2>5 DEF EntriesInv
  <2>8. CoverInv'
    BY <2>1, <2>3, <2>6 DEF CoverInv
  <2>9. OriginalInv'
    <3>1. ASSUME NEW n \in Names \ orphans, n \notin Claims(s), Layers(n)' # <<>>
          PROVE  overlays'[n].original \notin Values
      BY <2>1, <3>1 DEF ValuesInv, OriginalInv, Layers
    <3>2. QED
      BY <2>1, <2>6, <3>1 DEF OriginalInv
  <2>10. DocInv'
    BY <2>3 DEF DocInv
  <2>11. QED
    BY <2>7, <2>8, <2>9, <2>10 DEF ValuesInv
<1>6. ASSUME NEW s \in Sessions, LookRaises(s) PROVE ValuesInv'
  <2>1. /\ op.by = s /\ op.at = "look" /\ op.stage = "read"
        /\ UNCHANGED <<file, overlays, wish, raced, orphans>>
    BY <1>6, LookRaisesEffect
  <2>2. \A n \in Names, t \in Sessions : LayerOf(n, t) => run'[t].servers = run[t].servers
    <3>1. \A n \in Names : ~LayerOf(n, s)
      BY <2>1, NotALayer
    <3>2. run' = run \/ \E state \in {"closed", "failed"} : Moves(s, state)
      BY <1>6, LookRaisesEffect
    <3>3. QED
      BY <3>1, <3>2, MovedServers
  <2>3. Unsettled = {}
    BY <2>1 DEF Unsettled
  <2>4. Covering' = {} /\ ~HasDoc'
    BY <1>6, LookRaisesEffect, FreeLock DEF Covering, HasDoc, OpIs
  <2>5. QED
    BY <2>1, <2>2, <2>3, <2>4, Quietly
<1>7. ASSUME NEW s \in Sessions, DumpServers(s) PROVE ValuesInv'
  <2>1. /\ op.by = s /\ op.at = "add" /\ op.stage = "dump" /\ op' = Free /\ Moves(s, "open")
        /\ file' = [file EXCEPT ![run[s].path] = Written(Merged(op.doc, run[s].servers))]
        /\ UNCHANGED <<overlays, wish, raced, orphans>>
    BY <1>7, DumpServersEffect
  <2>2. \A n \in Names, t \in Sessions : LayerOf(n, t) => run'[t].servers = run[t].servers
    BY <2>1, MovedServers DEF Active
  <2>3. \A n \in Names, v \in Server : Good(v, n) => Good(v, n)'
    BY <2>1, <2>2, GoodStays
  <2>4. run[s].path \in Paths
    BY DEF RunType, Run
  <2>5. HasDoc
    BY <2>1 DEF HasDoc
  <2>6. ASSUME NEW n \in Names \ orphans PROVE Good(Entry(n), n)'
    <3>1. CASE ~InGlobal
      <4>1. Entry(n)' = Entry(n)
        BY <2>1, <2>4, <3>1 DEF Entry, InGlobal, Working, FileType, Paths
      <4>2. Good(Entry(n), n) /\ Entry(n) \in Server
        BY <3>1, EntryType DEF ValuesInv, EntriesInv, Unsettled
      <4>3. QED
        BY <2>3, <4>1, <4>2 DEF Good, Covers
    <3>2. CASE InGlobal /\ n \notin Claims(s)
      <4>1. Entry(n)' = op.doc[n]
        BY <2>1, <2>4, <3>2 DEF Entry, InGlobal, FileType, Paths, Written, Merged, Claims, Keys
      <4>2. Good(op.doc[n], n) /\ op.doc[n] \in Server
        BY <2>1, <2>5, <3>2 DEF ValuesInv, DocInv, Covering, RunType, Op, Keys
      <4>3. QED
        BY <2>3, <4>1, <4>2 DEF Good, Covers
    <3>3. CASE InGlobal /\ n \in Claims(s)
      <4>1. Entry(n)' = run[s].servers[n]
        BY <2>1, <2>4, <3>3 DEF Entry, InGlobal, FileType, Paths, Written, Merged, Claims, Keys
      <4>2. Layers(n)' = Layers(n) /\ run'[s].servers = run[s].servers
        BY <2>1 DEF Layers, Moves, Active
      <4>3. Layers(n) # <<>> /\ Last(Layers(n)) = s /\ (n \notin raced => overlays[n].original = wish[n])
        BY <2>1, <3>3 DEF ValuesInv, CoverInv, Covering
      <4>4. QED
        BY <2>1, <4>1, <4>2, <4>3 DEF Good, Covers
    <3>4. QED
      BY <3>1, <3>2, <3>3
  <2>7. Covering' = {} /\ ~HasDoc'
    BY <2>1, FreeLock DEF Covering, HasDoc
  <2>8. QED
    BY <2>1, <2>6, <2>7, Settles DEF ValuesInv
<1>8. ASSUME NEW s \in Sessions, Close(s) PROVE ValuesInv'
  <2>1. /\ op = Free /\ op'.by = s /\ op'.stage = "read" /\ op'.at \in {"restore", "drop"}
        /\ Moves(s, "closing") /\ UNCHANGED <<file, overlays, wish, raced, orphans>>
    BY <1>8, CloseEffect DEF OpIs
  <2>2. \A n \in Names, t \in Sessions : LayerOf(n, t) => run'[t].servers = run[t].servers
    BY <2>1, MovedServers DEF Active
  <2>3. ~InGlobal /\ Unsettled = {}
    BY <2>1, FreeLock, OverlayAssumption DEF Working, InGlobal, Unsettled
  <2>4. Covering' = {} /\ ~HasDoc'
    BY <2>1 DEF Covering, HasDoc
  <2>5. QED
    BY <2>1, <2>2, <2>3, <2>4, Quietly
<1>9. ASSUME NEW s \in Sessions, Restore(s) PROVE ValuesInv'
  <2>1. /\ op.by = s /\ op.at = "restore" /\ op.stage = "read" /\ op'.by = s
        /\ op'.at \in {"drop", "replace"} /\ op'.stage = "read"
        /\ \A n \in Names : /\ Layers(n)' = Without(Layers(n), s)
                            /\ Layers(n)' # <<>> => overlays'[n].original = overlays[n].original
        /\ UNCHANGED <<file, run, wish, raced, orphans>>
    BY <1>9, RestoreEffect DEF OpIs
  <2>2. /\ op'.at = "drop" => Back(s) = {}
        /\ op'.at = "replace" => op'.doc = Restored(s)
    BY <1>9, RestoreEffect DEF OpIs
  <2>3. InGlobal /\ Unsettled = {}
    BY <2>1 DEF OpInv, HolderInv, Working, Unsettled
  <2>4. /\ InGlobal' /\ Covering' = {} /\ (op'.at = "drop" => ~HasDoc')
        /\ Unsettled' = IF op'.at = "replace" THEN Claims(s) ELSE {}
    BY <2>1, <2>3 DEF InGlobal, Working, Covering, Unsettled, HasDoc, Claims
  <2>5. \A n \in Names \ orphans : Good(Entry(n), n)
    BY <2>1, <2>3 DEF ValuesInv, EntriesInv
  <2>6. \A n \in Names : Layers(n) \in Seq(Sessions) /\ Distinct(Layers(n)) /\ Entry(n) \in Server
    BY EntryType DEF Layers, Overlay, LayersInv
  <2>7. \A n \in Names : Layers(n)' # <<>> => Layers(n) # <<>>
    <3>1. \A n \in Names : Layers(n) = <<>> => Layers(n)' = <<>>
      BY <2>1 DEF Without
    <3>2. QED
      BY <3>1
  <2>8. OriginalInv'
    BY <2>1, <2>7 DEF ValuesInv, OriginalInv
  \* An entry that the session's layer does not show,
  <2>9. ASSUME NEW n \in Names \ orphans, n \notin Back(s) PROVE Good(Entry(n), n)'
    <3>1. Entry(n)' = Entry(n) /\ Good(Entry(n), n)
      BY <2>1, <2>5 DEF Entry
    <3>2. CASE Layers(n) = <<>>
      BY <2>1, <2>7, <3>1, <3>2 DEF Good, Covers
    <3>3. CASE Layers(n) # <<>> /\ Last(Layers(n)) # s
      <4>1. Layers(n)' # <<>> /\ Last(Layers(n)') = Last(Layers(n))
        BY <2>1, <2>6, <3>3, WithoutLayer
      <4>2. QED
        BY <2>1, <3>1, <3>3, <4>1 DEF Good, Covers
    <3>4. CASE Layers(n) # <<>> /\ Last(Layers(n)) = s
      <4>1. n \in Claims(s)
        BY <3>4, TopLayer DEF LayersInv, LayerOf
      <4>2. ~Shows(n, s)
        BY <2>9, <4>1 DEF Back
      <4>3. Entry(n) # run[s].servers[n]
        <5>1. CASE file["global"].status = "ok"
          BY <3>4, <4>2, <5>1 DEF Shows, Entry, Layers
        <5>2. CASE file["global"].status # "ok"
          <6>1. Entry(n) = Absent
            BY <5>2 DEF Entry, FileType, NoEntries, Paths, Keys
          <6>2. QED
            BY <6>1, <4>1 DEF Claims
        <5>3. QED
          BY <5>1, <5>2
      <4>4. QED
        BY <2>1, <3>1, <3>4, <4>3 DEF Good, Covers
    <3>5. QED
      BY <3>2, <3>3, <3>4
  \* and one that it shows, which restore() puts back.
  <2>10. ASSUME NEW n \in Names \ orphans, n \in Back(s), op'.at = "replace"
         PROVE  Good(op.doc[n], n)'
    <3>1. n \in Claims(s) /\ Layers(n) # <<>> /\ Last(Layers(n)) = s /\ Entry(n) = run[s].servers[n]
      BY <2>10 DEF Back, Shows, Layers, Entry
    <3>2. op'.doc[n] = Under(n, s)
      BY <2>2, <2>10 DEF Restored, Keys
    <3>3. n \notin raced => overlays[n].original = wish[n]
      <4>1. Entry(n) \in Values
        BY <3>1, ServerOfClaim
      <4>2. Entry(n) # wish[n]
        BY <4>1, OverlayAssumption DEF UserType
      <4>3. QED
        BY <2>5, <4>2 DEF Good
    <3>4. Under(n, s) = IF Layers(n)' # <<>> THEN run[Last(Layers(n)')].servers[n] ELSE overlays[n].original
      BY <2>1 DEF Under, Layers
    <3>5. CASE Layers(n)' # <<>>
      BY <2>1, <3>2, <3>3, <3>4, <3>5 DEF Good, Covers
    <3>6. CASE Layers(n)' = <<>>
      <4>1. overlays[n].original \notin Values
        BY <3>1 DEF ValuesInv, OriginalInv
      <4>2. QED
        BY <2>1, <3>2, <3>3, <3>4, <3>6, <4>1 DEF Good
    <3>7. QED
      BY <3>5, <3>6
  <2>11. EntriesInv'
    <3>1. ASSUME NEW n \in Names \ (orphans' \union Unsettled') PROVE Good(Entry(n), n)'
      <4>1. n \notin Back(s)
        BY <2>1, <2>2, <2>4, <3>1 DEF Back
      <4>2. QED
        BY <2>1, <2>9, <4>1
    <3>2. QED
      BY <3>1 DEF EntriesInv
  <2>12. DocInv'
    <3>1. ASSUME NEW n \in Names \ orphans, op'.at = "replace" PROVE Good(op.doc[n], n)'
      <4>1. CASE n \in Back(s)
        BY <2>10, <3>1, <4>1
      <4>2. CASE n \notin Back(s)
        <5>1. op'.doc[n] = Entry(n)'
          BY <2>1, <2>2, <3>1, <4>2 DEF Restored, Entry, Keys
        <5>2. Good(Entry(n), n)'
          BY <2>9, <4>2
        <5>3. QED
          BY <5>1, <5>2 DEF Good, Covers
      <4>3. QED
        BY <4>1, <4>2
    <3>2. QED
      BY <2>1, <2>4, <3>1 DEF DocInv
  <2>13. CoverInv'
    BY <2>4 DEF CoverInv
  <2>14. QED
    BY <2>8, <2>11, <2>12, <2>13 DEF ValuesInv
<1>10. ASSUME NEW s \in Sessions, Replace(s) PROVE ValuesInv'
  <2>1. /\ op.by = s /\ op.at = "replace" /\ OpIs(s, "drop", "read")
        /\ file' = [file EXCEPT !["global"] = Written(op.doc)]
        /\ UNCHANGED <<run, overlays, wish, raced, orphans>>
    BY <1>10, ReplaceEffect
  <2>2. InGlobal
    BY <2>1 DEF OpInv, HolderInv, Working
  <2>3. \A n \in Names : Entry(n)' = IF InGlobal THEN op.doc[n] ELSE Entry(n)
    BY <2>1, <2>2 DEF Entry, Written, FileType, Paths
  <2>4. HasDoc /\ Covering = {} /\ Covering' = {} /\ ~HasDoc'
    BY <2>1 DEF HasDoc, Covering, OpIs
  <2>5. QED
    BY <2>1, <2>3, <2>4, Lands
<1>11. ASSUME NEW s \in Sessions, DumpWithout(s) PROVE ValuesInv'
  <2>1. /\ op.by = s /\ op.at = "drop" /\ op.stage = "dump" /\ op' = Free
        /\ UNCHANGED <<overlays, wish, raced, orphans>>
    BY <1>11, DumpWithoutEffect
  <2>2. \A n \in Names, t \in Sessions : LayerOf(n, t) => run'[t].servers = run[t].servers
    <3>1. \A n \in Names : ~LayerOf(n, s)
      BY <2>1, NotALayer
    <3>2. \E state \in {"closed", "failed"} : Moves(s, state)
      BY <1>11, DumpWithoutEffect
    <3>3. QED
      BY <3>1, <3>2, MovedServers
  <2>3. \A n \in Names : Entry(n)' = IF InGlobal THEN op.doc[n] ELSE Entry(n)
    BY <1>11, <2>1, DumpWithoutEffect, WrittenEntries
  <2>4. HasDoc /\ Covering = {} /\ Covering' = {} /\ ~HasDoc'
    BY <2>1, FreeLock DEF HasDoc, Covering
  <2>5. QED
    BY <2>1, <2>2, <2>3, <2>4, Lands
<1>12. ASSUME NEW s \in Sessions, NothingToDrop(s) PROVE ValuesInv'
  <2>1. /\ op.by = s /\ op.at = "drop" /\ op.stage = "read"
        /\ UNCHANGED <<file, overlays, wish, raced, orphans>>
    BY <1>12, NothingToDropEffect
  <2>2. \A n \in Names, t \in Sessions : LayerOf(n, t) => run'[t].servers = run[t].servers
    <3>1. \A n \in Names : ~LayerOf(n, s)
      BY <2>1, NotALayer
    <3>2. run' = run \/ \E state \in {"closed", "failed"} : Moves(s, state)
      BY <1>12, NothingToDropEffect
    <3>3. QED
      BY <3>1, <3>2, MovedServers
  <2>3. Unsettled = {}
    BY <2>1 DEF Unsettled
  <2>4. Covering' = {} /\ ~HasDoc'
    BY <1>12, NothingToDropEffect, FreeLock DEF Covering, HasDoc, OpIs
  <2>5. QED
    BY <2>1, <2>2, <2>3, <2>4, Quietly
<1>13. ASSUME NEW f \in Edits, Edit(f) PROVE ValuesInv'
  <2>1. /\ op.stage # "dump" /\ file' = [file EXCEPT !["global"] = f]
        /\ UNCHANGED <<op, run, overlays, orphans>>
    BY <1>13, EditEffect
  <2>2. InGlobal' = InGlobal /\ Covering' = Covering /\ Unsettled' = Unsettled /\ HasDoc' = HasDoc
    BY <2>1 DEF InGlobal, Working, Covering, Unsettled, HasDoc, Claims
  <2>3. \A n \in Names : Entry(n)' = f.entries[n]
    BY <2>1 DEF Entry, FileType, Paths
  <2>4. ASSUME NEW n \in Names
        PROVE  \/ /\ Entry(n)' = Entry(n) /\ wish'[n] = wish[n] /\ (n \in raced' <=> n \in raced)
                  /\ \A v \in Server : Good(v, n) => Good(v, n)'
               \/ Entry(n)' \notin Values /\ wish'[n] = Entry(n)' /\ (n \in raced' <=> n \in InHand)
    <3>1. CASE f.entries[n] = Entry(n) /\ wish'[n] = wish[n] /\ (n \in raced' <=> n \in raced)
      BY <2>1, <2>3, <3>1 DEF Good, Covers, Layers
    <3>2. CASE f.entries[n] \notin Values /\ wish'[n] = f.entries[n] /\ (n \in raced' <=> n \in InHand)
      BY <2>3, <3>2
    <3>3. QED
      BY <1>13, EditEffect, <3>1, <3>2 DEF Entry
  <2>5. EntriesInv'
    <3>1. ASSUME NEW n \in Names \ (orphans \union Unsettled) PROVE Good(Entry(n), n)'
      <4>1. Good(Entry(n), n) /\ Entry(n) \in Server
        BY <2>1, EntryType DEF ValuesInv, EntriesInv
      <4>2. QED
        BY <2>4, <4>1 DEF Good, Covers
    <3>2. QED
      BY <2>1, <2>2, <3>1 DEF EntriesInv
  <2>6. DocInv'
    <3>1. ASSUME InGlobal, HasDoc, NEW n \in Names \ (orphans \union Covering)
          PROVE  Good(op.doc[n], n)'
      <4>1. Good(op.doc[n], n) /\ op.doc[n] \in Server
        BY <3>1 DEF ValuesInv, DocInv, RunType, Op, Keys
      <4>2. n \in InHand
        <5>1. op # Free
          BY <2>1, <3>1, FreeLock, OverlayAssumption DEF InGlobal, Working
        <5>2. run[op.by].path # "scoped" /\ (op.stage = "cut" \/ op.at = "replace")
          BY <2>1, <3>1 DEF InGlobal, HasDoc
        <5>3. QED
          BY <5>1, <5>2 DEF InHand
      <4>3. QED
        BY <2>1, <2>4, <4>1, <4>2 DEF Good, Covers, Layers
    <3>2. QED
      BY <2>1, <2>2, <3>1 DEF DocInv
  <2>7. CoverInv'
    <3>1. ASSUME NEW n \in Covering \ orphans
          PROVE  /\ Layers(n)' # <<>> /\ Last(Layers(n)') = op'.by
                 /\ n \notin raced' => overlays'[n].original = wish'[n]
      <4>1. n \in Names /\ InGlobal /\ op.at = "add" /\ n \in Claims(op.by)
        BY <3>1 DEF Covering, Claims
      <4>2. n \in InHand
        <5>1. op # Free
          BY <4>1, FreeLock
        <5>2. run[op.by].path # "scoped"
          BY <4>1 DEF InGlobal
        <5>3. QED
          BY <4>1, <5>1, <5>2 DEF InHand
      <4>3. /\ Layers(n) # <<>> /\ Last(Layers(n)) = op.by
            /\ n \notin raced => overlays[n].original = wish[n]
        BY <3>1 DEF ValuesInv, CoverInv
      <4>4. QED
        BY <2>1, <2>4, <4>1, <4>2, <4>3 DEF Layers
    <3>2. QED
      BY <2>1, <2>2, <3>1 DEF CoverInv
  <2>8. OriginalInv'
    BY <2>1 DEF ValuesInv, OriginalInv, Layers
  <2>9. QED
    BY <2>5, <2>6, <2>7, <2>8 DEF ValuesInv
<1>14. CASE Kill
  <2>1. /\ op' = Free /\ overlays' = [n \in Names |-> NoState] /\ orphans \subseteq orphans'
        /\ (InGlobal /\ op.stage = "dump" => Names \subseteq orphans')
        /\ \A t \in Sessions, n \in Names :
             run[t].at \in {"covering", "open", "closing"} /\ n \in Claims(t) => n \in orphans'
        /\ UNCHANGED <<file, wish, raced>>
    BY <1>14, KillEffect
  <2>2. \A n \in Names : Layers(n)' = <<>>
    BY <2>1 DEF Layers, NoState
  <2>3. ASSUME NEW n \in Names \ orphans' PROVE Good(Entry(n), n)'
    <3>1. \A t \in Sessions : ~LayerOf(n, t)
      BY <2>1 DEF LayerOf, OpInv, HolderInv, Working
    <3>2. Layers(n) = <<>>
      BY <3>1, TopLayer DEF LayersInv
    <3>3. n \notin Unsettled
      BY <2>1 DEF Unsettled, InGlobal, OpInv, HolderInv, Working
    <3>4. Good(Entry(n), n)
      BY <2>1, <3>3 DEF ValuesInv, EntriesInv
    <3>5. Entry(n) \notin Values /\ (n \notin raced => Entry(n) = wish[n])
      BY <3>2, <3>4 DEF Good, Covers
    <3>6. Entry(n)' = Entry(n)
      BY <2>1 DEF Entry
    <3>7. QED
      BY <2>1, <2>2, <3>5, <3>6 DEF Good, Covers
  <2>4. Covering' = {} /\ ~HasDoc'
    BY <2>1, FreeLock DEF Covering, HasDoc
  <2>5. EntriesInv' /\ DocInv' /\ CoverInv' /\ OriginalInv'
    BY <2>2, <2>3, <2>4 DEF EntriesInv, DocInv, CoverInv, OriginalInv
  <2>6. QED
    BY <2>5 DEF ValuesInv
<1>15. CASE UNCHANGED vars
  BY <1>15 DEF vars, ValuesInv, EntriesInv, DocInv, CoverInv, OriginalInv, Good, Covers, Entry,
               Layers, Covering, Unsettled, Claims, InGlobal, Working, HasDoc
<1>16. QED
  BY <1>1, <1>2, <1>3, <1>4, <1>5, <1>6, <1>7, <1>8,
     <1>9, <1>10, <1>11, <1>12, <1>13, <1>14, <1>15 DEF Next

\* The place stays while the session is active.
LEMMA PlaceStays ==
  ASSUME NEW s \in Sessions, NEW t \in Sessions, NEW p \in Paths, ToolPlace(t, p),
         \/ run'[t] = run[t]
         \/ t # s /\ \E state \in RunState : Moves(s, state)
         \/ run[s].at \in Active /\ \E state \in Active : Moves(s, state)
  PROVE  ToolPlace(t, p)'
  BY DEF ToolPlace, Moves, Active

\* No document in memory, the file as it was.
LEMMA ToolQuietly ==
  ASSUME ToolInv, ~HasDoc', file' = file,
         \A t \in Sessions, p \in Paths :
           ToolPlace(t, p) => ToolPlace(t, p)' \/ file[p].entries[t] = Absent
  PROVE  ToolInv'
  BY DEF ToolInv

\* The document is written, with an entry of the session itself perhaps.
LEMMA ToolLands ==
  ASSUME FileType, ToolInv, HasDoc, ~HasDoc', NEW s \in Sessions, op.by = s,
         NEW q \in Paths, run[s].path = q,
         NEW e \in [Keys -> Server], file' = [file EXCEPT ![q] = Written(e)],
         \A t \in Sessions \ {s} : e[t] = op.doc[t],
         \A t \in Sessions \ {s}, p \in Paths : ToolPlace(t, p) => ToolPlace(t, p)',
         \/ ToolPlace(s, q)'
         \/ e[s] = Absent
         \/ e[s] = op.doc[s] /\ (ToolPlace(s, q) => ToolPlace(s, q)'),
         \A p \in Paths \ {q} : ~ToolPlace(s, p)
  PROVE  ToolInv'
<1>1. ASSUME NEW t \in Sessions, NEW p \in Paths, file'[p].entries[t] # Absent
      PROVE  ToolPlace(t, p)'
  <2>1. CASE p # q
    <3>1. file[p].entries[t] # Absent
      BY <1>1, <2>1 DEF FileType
    <3>2. ToolPlace(t, p)
      BY <3>1 DEF ToolInv
    <3>3. QED
      BY <2>1, <3>2
  <2>2. CASE p = q
    <3>1. file'[p].entries[t] = e[t]
      BY <2>2 DEF FileType, Written
    <3>2. CASE t = s
      BY <1>1, <2>2, <3>1, <3>2 DEF ToolInv, Working
    <3>3. CASE t # s
      <4>1. ToolPlace(t, p)
        BY <1>1, <2>2, <3>1, <3>3 DEF ToolInv, Working
      <4>2. QED
        BY <3>3, <4>1
    <3>4. QED
      BY <3>2, <3>3
  <2>3. QED
    BY <2>1, <2>2
<1>2. QED
  BY <1>1 DEF ToolInv

\* Every step keeps ToolInv.
LEMMA ToolStep ==
  ASSUME FileType, RunType, UserType, overlays \in [Names -> Overlay], OpInv, ToolInv,
         Next \/ UNCHANGED vars
  PROVE  ToolInv'
<1>0. /\ \A s \in Sessions : run[s].path \in Paths /\ s \in Keys
      /\ op.doc \in [Keys -> Server]
      /\ \A s \in Sessions : op.by = s => Working /\ run[s].at \in Active
  BY DEF RunType, Run, Op, Keys, OpInv, Working, Active
<1>31. \A s \in Sessions : op.by = s => run[s].at # "killed"
  BY DEF OpInv
<1>1. ASSUME NEW s \in Sessions, NEW path \in Paths, NEW tools \in BOOLEAN,
            NEW servers \in [Names -> Values \union {Absent}], Open(s, path, tools, servers)
     PROVE  ToolInv'
  <2>1. run[s].at = "new" /\ file' = file /\ \A t \in Sessions \ {s} : run'[t] = run[t]
    BY <1>1, OpenEffect
  <2>2. ~HasDoc'
    BY <1>1, OpenEffect DEF HasDoc, OpIs
  <2>3. \A t \in Sessions, p \in Paths : ToolPlace(t, p) => ToolPlace(t, p)'
    BY <2>1 DEF ToolPlace, Active
  <2>4. QED
    BY <2>1, <2>2, <2>3, ToolQuietly
<1>2. ASSUME NEW s \in Sessions, Read(s) PROVE ToolInv'
  <2>1. /\ op.by = s /\ op'.by = s /\ op'.doc = file[run[s].path].entries
        /\ file' = file /\ run' = run
    BY <1>0, <1>2, ReadEffect, ParsedEntries DEF OpIs
  <2>2. QED
    BY <1>0, <2>1 DEF ToolInv, ToolPlace
<1>3. ASSUME NEW s \in Sessions, Cut(s) PROVE ToolInv'
  <2>1. /\ op.by = s /\ op'.by = s /\ op'.doc = op.doc /\ run' = run
        /\ file' = [file EXCEPT ![run[s].path] = BadFile] /\ HasDoc
    BY <1>3, CutEffect DEF OpIs, HasDoc
  <2>2. \A t \in Sessions, p \in Paths : file'[p].entries[t] # Absent => file[p].entries[t] # Absent
    BY <1>0, <2>1 DEF FileType, BadFile, NoEntries
  <2>3. QED
    BY <1>0, <2>1, <2>2 DEF ToolInv, ToolPlace
<1>4. ASSUME NEW s \in Sessions, DumpTool(s) PROVE ToolInv'
  <2> DEFINE e == [op.doc EXCEPT ![s] = s]
  <2>1. /\ op.by = s /\ HasDoc /\ file' = [file EXCEPT ![run[s].path] = Written(e)]
        /\ op.at = "tool"
        /\ run' = run \/ \E state \in Active : Moves(s, state)
    BY <1>4, DumpToolEffect DEF HasDoc, Active
  <2>2. ~HasDoc'
    BY <1>4, DumpToolEffect, FreeLock DEF HasDoc, OpIs
  <2>3. e \in [Keys -> Server] /\ \A t \in Sessions \ {s} : e[t] = op.doc[t]
    BY <1>0 DEF Server
  <2> HIDE DEF e
  <2>4. \A t \in Sessions, p \in Paths : ToolPlace(t, p) => ToolPlace(t, p)'
    BY <1>0, <2>1, PlaceStays
  <2>5. ToolPlace(s, run[s].path)
    <3>1. op.by = s /\ op.at = "tool" /\ Working /\ run[s].at \in Active
      BY <1>0, <2>1
    <3>2. run[s].tools
      BY <3>1 DEF OpInv, HolderInv
    <3>3. QED
      BY <3>1, <3>2 DEF ToolPlace
  <2>6. \A p \in Paths \ {run[s].path} : ~ToolPlace(s, p)
    BY <1>0, <2>1, <1>31 DEF ToolPlace
  <2>7. QED
    BY <1>0, <2>1, <2>2, <2>3, <2>4, <2>5, <2>6, ToolLands
<1>5. ASSUME NEW s \in Sessions, Look(s) PROVE ToolInv'
  <2>1. op.by = s /\ file' = file /\ Moves(s, "covering")
    BY <1>5, LookEffect
  <2>2. ~HasDoc'
    BY <1>5, LookEffect DEF HasDoc, OpIs
  <2>3. \A t \in Sessions, p \in Paths : ToolPlace(t, p) => ToolPlace(t, p)'
    BY <1>0, <2>1, PlaceStays DEF Active
  <2>4. QED
    BY <2>1, <2>2, <2>3, ToolQuietly
<1>6. ASSUME NEW s \in Sessions, LookRaises(s) PROVE ToolInv'
  <2>1. op.by = s /\ file' = file
    BY <1>6, LookRaisesEffect
  <2>2. ~HasDoc'
    BY <1>6, LookRaisesEffect, FreeLock DEF HasDoc, OpIs
  <2>3. run' = run \/ (~run[s].tools /\ Moves(s, "failed"))
    BY <1>6, LookRaisesEffect
  <2>4. \A t \in Sessions, p \in Paths : ToolPlace(t, p) => ToolPlace(t, p)'
    BY <1>31, <2>1, <2>3 DEF ToolPlace, Moves
  <2>5. QED
    BY <2>1, <2>2, <2>4, ToolQuietly
<1>7. ASSUME NEW s \in Sessions, DumpServers(s) PROVE ToolInv'
  <2> DEFINE e == Merged(op.doc, run[s].servers)
  <2>1. /\ op.by = s /\ HasDoc /\ file' = [file EXCEPT ![run[s].path] = Written(e)]
        /\ op' = Free /\ Moves(s, "open")
    BY <1>7, DumpServersEffect DEF HasDoc
  <2>2. ~HasDoc'
    BY <2>1, FreeLock DEF HasDoc
  <2>3. e \in [Keys -> Server] /\ \A t \in Sessions : e[t] = op.doc[t]
    <3>1. e \in [Keys -> Server]
      BY <1>0, MergedType DEF RunType, Run
    <3>2. \A t \in Sessions : t \notin Names
      BY OverlayAssumption
    <3>3. QED
      BY <1>0, <3>1, <3>2 DEF Merged
  <2> HIDE DEF e
  <2>4. \A t \in Sessions, p \in Paths : ToolPlace(t, p) => ToolPlace(t, p)'
    BY <1>0, <2>1, PlaceStays DEF Active
  <2>5. \A p \in Paths \ {run[s].path} : ~ToolPlace(s, p)
    BY <1>0, <2>1, <1>31 DEF ToolPlace
  <2>6. QED
    BY <1>0, <2>1, <2>2, <2>3, <2>4, <2>5, ToolLands
<1>8. ASSUME NEW s \in Sessions, Close(s) PROVE ToolInv'
  <2>1. run[s].at \in Active /\ file' = file /\ Moves(s, "closing")
    BY <1>8, CloseEffect DEF Active
  <2>2. ~HasDoc'
    BY <1>8, CloseEffect DEF HasDoc, OpIs
  <2>3. \A t \in Sessions, p \in Paths : ToolPlace(t, p) => ToolPlace(t, p)'
    BY <2>1, PlaceStays DEF Active
  <2>4. QED
    BY <2>1, <2>2, <2>3, ToolQuietly
<1>9. ASSUME NEW s \in Sessions, Restore(s) PROVE ToolInv'
  <2>1. op.by = s /\ op.at = "restore" /\ op'.by = s /\ file' = file /\ run' = run
    BY <1>9, RestoreEffect DEF OpIs
  <2>2. run[s].path = "global" /\ \A t \in Sessions : t \notin Back(s)
    BY <2>1, OverlayAssumption DEF OpInv, HolderInv, Working, InGlobal, Back, Claims
  <2>3. HasDoc' => \A t \in Sessions : op'.doc[t] = file["global"].entries[t]
    BY ZenonT(40), <1>0, <1>9, <2>2, RestoreEffect DEF HasDoc, OpIs, Restored
  <2>4. QED
    BY <2>1, <2>2, <2>3 DEF ToolInv, ToolPlace, Paths
<1>10. ASSUME NEW s \in Sessions, Replace(s) PROVE ToolInv'
  <2>1. /\ op.by = s /\ HasDoc /\ run' = run /\ op.at = "replace"
        /\ file' = [file EXCEPT !["global"] = Written(op.doc)]
    BY <1>10, ReplaceEffect DEF HasDoc
  <2>2. ~HasDoc'
    BY <1>10, ReplaceEffect DEF HasDoc, OpIs
  <2>3. run[s].path = "global"
    BY <2>1 DEF OpInv, HolderInv, Working, InGlobal
  <2>4. \A t \in Sessions, p \in Paths : ToolPlace(t, p) => ToolPlace(t, p)'
    BY <2>1, PlaceStays
  <2>5. \A p \in Paths \ {run[s].path} : ~ToolPlace(s, p)
    BY <1>0, <2>1, <1>31 DEF ToolPlace
  <2>6. QED
    BY <1>0, <2>1, <2>2, <2>3, <2>4, <2>5, ToolLands
<1>11. ASSUME NEW s \in Sessions, DumpWithout(s) PROVE ToolInv'
  <2> DEFINE e == [op.doc EXCEPT ![s] = Absent]
  <2>1. /\ op.by = s /\ HasDoc /\ file' = [file EXCEPT ![run[s].path] = Written(e)]
        /\ op' = Free /\ \E state \in RunState : Moves(s, state)
    BY <1>11, DumpWithoutEffect DEF HasDoc, RunState
  <2>2. ~HasDoc'
    BY <2>1, FreeLock DEF HasDoc
  <2>3. e \in [Keys -> Server] /\ (\A t \in Sessions \ {s} : e[t] = op.doc[t]) /\ e[s] = Absent
    BY <1>0 DEF Server
  <2> HIDE DEF e
  <2>4. \A t \in Sessions \ {s}, p \in Paths : ToolPlace(t, p) => ToolPlace(t, p)'
    BY <1>0, <2>1, PlaceStays
  <2>5. \A p \in Paths \ {run[s].path} : ~ToolPlace(s, p)
    BY <1>0, <2>1, <1>31 DEF ToolPlace
  <2>6. QED
    BY <1>0, <2>1, <2>2, <2>3, <2>4, <2>5, ToolLands
<1>12. ASSUME NEW s \in Sessions, NothingToDrop(s) PROVE ToolInv'
  <2>1. /\ op.by = s /\ file' = file /\ op' = Free /\ \E state \in RunState : Moves(s, state)
    BY <1>12, NothingToDropEffect DEF RunState
  <2>2. ~HasDoc'
    BY <2>1, FreeLock DEF HasDoc
  <2>3. \A p \in Paths : file[p].entries[s] = Absent
    <3>1. file[run[s].path].entries[s] = Absent
      BY <1>0, <1>12, NothingToDropEffect DEF FileType, NoEntries
    <3>2. \A p \in Paths : p # run[s].path => ~ToolPlace(s, p)
      BY <1>0, <1>31, <2>1 DEF ToolPlace
    <3>3. QED
      BY <3>1, <3>2 DEF ToolInv
  <2>4. \A t \in Sessions, p \in Paths : ToolPlace(t, p) => ToolPlace(t, p)' \/ file[p].entries[t] = Absent
    BY <2>1, <2>3, PlaceStays
  <2>5. QED
    BY <2>1, <2>2, <2>4, ToolQuietly
<1>13. ASSUME NEW f \in Edits, Edit(f) PROVE ToolInv'
  <2>1. /\ UNCHANGED <<op, run>> /\ file' = [file EXCEPT !["global"] = f]
        /\ \A s \in Sessions : f.entries[s] \in {file["global"].entries[s], Absent}
    BY <1>13, EditEffect
  <2>2. \A s \in Sessions, p \in Paths : file'[p].entries[s] # Absent => file[p].entries[s] # Absent
    BY <2>1 DEF FileType, Paths
  <2>3. QED
    BY <2>1, <2>2 DEF ToolInv, ToolPlace, Working, HasDoc
<1>14. CASE Kill
  <2>1. op' = Free /\ file' = file
    BY <1>14, KillEffect
  <2>2. ~HasDoc'
    BY <2>1, FreeLock DEF HasDoc
  <2>3. \A t \in Sessions, p \in Paths : ToolPlace(t, p) => ToolPlace(t, p)'
    BY <1>14, KillEffect DEF ToolPlace, Bare
  <2>4. QED
    BY <2>1, <2>2, <2>3, ToolQuietly
<1>15. CASE UNCHANGED vars
  BY <1>15 DEF vars, ToolInv, ToolPlace, Working, HasDoc
<1>16. QED
  BY <1>1, <1>2, <1>3, <1>4, <1>5, <1>6, <1>7, <1>8,
     <1>9, <1>10, <1>11, <1>12, <1>13, <1>14, <1>15 DEF Next

----------------------------------------------------------------------------
(* mcp_config.json: the invariant and what follows from it.                *)

\* At first nobody runs, and the file shows what the user wrote.
LEMMA OverlayInit == Init => OverlayInv
<1> SUFFICES ASSUME Init PROVE OverlayInv
  OBVIOUS
<1> DEFINE none == [n \in Names |-> Absent]
<1>1. PICK u \in [Names -> UserValues \union {Absent}] :
        /\ wish = u
        /\ file = [p \in Paths |-> IF p = "scoped" \/ u = none THEN NoFile
                                   ELSE Written([k \in Keys |-> IF k \in Names THEN u[k] ELSE Absent])]
  BY DEF Init
<1> DEFINE d == [k \in Keys |-> IF k \in Names THEN u[k] ELSE Absent]
<1>2. /\ run = [s \in Sessions |-> Bare("new")] /\ op = Free
      /\ overlays = [n \in Names |-> NoState] /\ raced = {} /\ orphans = {}
  BY DEF Init
<1>3. d \in [Keys -> Server] /\ (\A n \in Names : d[n] = u[n]) /\ \A s \in Sessions : d[s] = Absent
  <2>1. \A s \in Sessions : s \notin Names
    BY OverlayAssumption
  <2>2. QED
    BY <2>1 DEF Server, Keys
<1>4. /\ \A p \in Paths : file[p] = NoFile \/ file[p] = Written(d)
      /\ file["global"] = IF u = none THEN NoFile ELSE Written(d)
      /\ DOMAIN file = Paths /\ file = [p \in Paths |-> file[p]]
  BY <1>1 DEF Paths
<1> HIDE DEF d
<1>5. FileType
  BY <1>3, <1>4, WrittenType, NoFileType DEF FileType, NoFile
<1>6. RunType
  BY <1>2, NoEntriesType, BareType DEF RunType, RunState
<1>7. UserType
  BY <1>1, <1>2 DEF UserType
<1>8. overlays \in [Names -> Overlay]
  BY <1>2 DEF Overlay, NoState, Server
<1>9. OpInv
  BY <1>2, FreeLock, OverlayAssumption DEF OpInv, HolderInv, Working, Bare
<1>10. \A n \in Names : Layers(n) = <<>>
  BY <1>2 DEF Layers, NoState
<1>11. LayersInv
  BY <1>10 DEF LayersInv, Has, Distinct
<1>12. \A n \in Names : Entry(n) = wish[n] /\ Entry(n) \notin Values
  <2>1. \A n \in Names : Entry(n) = u[n]
    BY <1>3, <1>4 DEF Entry, NoFile, NoEntries, Written, Keys
  <2>2. QED
    BY <1>1, <2>1, OverlayAssumption
<1>13. ~Working
  BY <1>2, FreeLock, OverlayAssumption DEF Working
<1>14. ValuesInv
  BY <1>10, <1>12, <1>13 DEF ValuesInv, EntriesInv, DocInv, CoverInv, OriginalInv, Good,
                             Covering, Unsettled, InGlobal
<1>15. ToolInv
  <2>1. \A s \in Sessions, p \in Paths : file[p].entries[s] = Absent
    BY <1>3, <1>4 DEF NoFile, NoEntries, Written, Keys
  <2>2. QED
    BY <1>13, <2>1 DEF ToolInv
<1>16. QED
  BY <1>5, <1>6, <1>7, <1>8, <1>9, <1>11, <1>14, <1>15 DEF OverlayInv, OverlayType

\* Every step keeps it.
LEMMA OverlayStep == OverlayInv /\ [Next]_vars => OverlayInv'
<1> SUFFICES ASSUME OverlayInv, [Next]_vars PROVE OverlayInv'
  OBVIOUS
<1>1. FileType /\ RunType /\ UserType /\ overlays \in [Names -> Overlay]
  BY DEF OverlayInv, OverlayType
<1>2. OpInv /\ LayersInv /\ ValuesInv /\ ToolInv
  BY DEF OverlayInv
<1>3. OverlayType'
  BY <1>1, FileTypeStep, RunTypeStep, UserTypeStep, OverlayTypeStep DEF OverlayType
<1>4. OpInv' /\ LayersInv' /\ ValuesInv' /\ ToolInv'
  BY <1>1, <1>2, OpStep, LayersStep, ValuesStep, ToolStep
<1>5. QED
  BY <1>3, <1>4 DEF OverlayInv

\* With nobody in an operation, a layer is that of an open run.
LEMMA AtRest ==
  ASSUME OverlayInv, op = Free, NEW n \in Names
  PROVE  /\ n \notin orphans => Good(Entry(n), n)
         /\ Layers(n) # <<>> => Running(Last(Layers(n))) /\ Last(Layers(n)) \in Sessions
                                /\ n \in Claims(Last(Layers(n)))
<1>1. ~InGlobal /\ Unsettled = {}
  BY FreeLock, OverlayAssumption DEF InGlobal, Working, Unsettled
<1>2. n \notin orphans => Good(Entry(n), n)
  BY <1>1 DEF OverlayInv, ValuesInv, EntriesInv
<1>3. ASSUME Layers(n) # <<>>
      PROVE  Running(Last(Layers(n))) /\ Last(Layers(n)) \in Sessions /\ n \in Claims(Last(Layers(n)))
  <2>1. Last(Layers(n)) \in Sessions /\ LayerOf(n, Last(Layers(n)))
    BY <1>3, TopLayer DEF OverlayInv, OverlayType, LayersInv
  <2>2. \A s \in Sessions : op.by # s
    BY FreeLock, OverlayAssumption
  <2>3. QED
    BY <2>1, <2>2 DEF LayerOf, OverlayInv, OpInv, Running
<1>4. QED
  BY <1>2, <1>3

\* The invariant implies that no run leaves a server behind,
LEMMA LeftoversEnd == OverlayInv => NoLeftovers
<1> SUFFICES ASSUME OverlayInv, op = Free
             PROVE  /\ \A n \in Names \ orphans :
                         file["global"].entries[n] \in Values => \E s \in Sessions : Running(s) /\ n \in Claims(s)
                    /\ \A s \in Sessions, p \in Paths :
                         run[s].at \in {"closed", "failed"} => file[p].entries[s] = Absent
  BY DEF NoLeftovers
<1>1. ASSUME NEW n \in Names \ orphans, file["global"].entries[n] \in Values
      PROVE  \E s \in Sessions : Running(s) /\ n \in Claims(s)
  BY <1>1, AtRest DEF Good, Covers, Entry
<1>2. ASSUME NEW s \in Sessions, NEW p \in Paths, run[s].at \in {"closed", "failed"}
      PROVE  file[p].entries[s] = Absent
  BY <1>2 DEF OverlayInv, ToolInv, ToolPlace, Active
<1>3. QED
  BY <1>1, <1>2

\* and that the file shows what the user wrote when nobody runs.
LEMMA WishEnd == OverlayInv => UserEditsKept
<1> SUFFICES ASSUME OverlayInv, op = Free, ~(\E s \in Sessions : Running(s)),
                    NEW n \in Names \ (raced \union orphans)
             PROVE  file["global"].entries[n] = wish[n]
  BY DEF UserEditsKept
<1>1. QED
  BY AtRest DEF Good, Covers, Entry

\* The invariant holds of the program: about mcp_config.json it does what
\* McpOverlay says, or nothing.
THEOREM OverlayInvariant == ConfigSpec => []OverlayInv
<1>1. ConfigInit => OverlayInv
  BY OverlayInit DEF ConfigInit
<1>2. OverlayInv /\ [Servers \/ Hooks]_allvars => OverlayInv'
  <2> SUFFICES ASSUME OverlayInv, [Servers \/ Hooks]_allvars PROVE OverlayInv'
    OBVIOUS
  <2>1. [Next]_vars
    BY DEF Servers, Hooks, allvars
  <2>2. QED
    BY <2>1, OverlayStep
<1>3. QED
  BY <1>1, <1>2, PTL DEF ConfigSpec

\* No run leaves a server behind, in whatever order runs open and close and
\* whatever the user writes meanwhile, and none that ended leaves its tool server.
THEOREM NothingLeftOver == ConfigSpec => []NoLeftovers
  BY OverlayInvariant, LeftoversEnd, PTL

\* When no run is open, the file shows what the user last wrote for a name, but
\* for an edit that fell between an operation's reading and writing, and for a
\* name that a killed program had claimed.
THEOREM UserEditsStay == ConfigSpec => []UserEditsKept
  BY OverlayInvariant, WishEnd, PTL
=============================================================================
