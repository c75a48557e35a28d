----------------------------- MODULE AgyConfig -----------------------------
(***************************************************************************)
(* The two configuration files that pyagy borrows from the user of agy for *)
(* a run: mcp_config.json, with the caller's MCP servers (McpOverlay), and *)
(* the workspace's .agents/hooks.json, with the hook that hands over       *)
(* system messages (HookRegistration).  They are different files under      *)
(* different locks, so a behaviour is about one of them.                    *)
(***************************************************************************)
EXTENDS McpOverlay

CONSTANTS Channels, NoChannel, Retries, Parts, Nothing, Garbage, NoRegistry,
          MaxHookEdits    \* bound: changes the user makes to hooks.json

VARIABLES about,          \* the file that this behaviour is about: "mcp" or "hooks"
          agents, hooksFile, user, entry, registry, status, holder, phase, tries,
          seen, before, madeDir, fresh, hookEdits, lastUser, touched, hookRaced, initial

H == INSTANCE HookRegistration WITH file <- hooksFile, edits <- hookEdits,
                                    raced <- hookRaced, MaxEdits <- MaxHookEdits

ASSUME ChannelAssumption == NoChannel \notin Channels
ASSUME PartAssumption == {Nothing, Garbage} \subseteq Parts /\ Nothing # Garbage
ASSUME RetryAssumption == Retries \in Nat \ {0} /\ MaxHookEdits \in Nat
ASSUME RegistryAssumption == NoRegistry \notin H!Registry

hvars   == <<agents, hooksFile, user, entry, registry, status, holder, phase, tries, seen,
             before, madeDir, fresh, hookEdits, lastUser, touched, hookRaced, initial>>
allvars == <<vars, hvars, about>>

\* one initial state of the other file is enough
ConfigInit ==
  /\ Init /\ H!Init /\ about \in {"mcp", "hooks"}
  /\ about = "mcp" => ~agents
  /\ about = "hooks" => file["global"] = NoFile

Servers == about = "mcp" /\ Next /\ UNCHANGED <<hvars, about>>
Hooks   == about = "hooks" /\ H!Next /\ UNCHANGED <<vars, about>>

ConfigSpec == ConfigInit /\ [][Servers \/ Hooks]_allvars

----------------------------------------------------------------------------
\* HookRegistration's properties of start() and close()
HookEditsKept == H!HookEditsKept
RegistrationMatchesStatus == H!RegistrationMatchesStatus
RestoresWorkspace == H!RestoresWorkspace
=============================================================================
