----------------------------- MODULE AgentTools -----------------------------
(***************************************************************************)
(* The tools of one agent, from the start of the hub to a call's result:   *)
(* the registry and its MCP servers (agents/tools.py, agents/mcp.py), the  *)
(* skill manager that all conversations of the agent share                 *)
(* (agents/skills.py, agents/backend.py), the tools and gates a run is     *)
(* built with (_build_pydantic_agent), the commands that preload a skill   *)
(* (cli/main.py, hub/factory.py), and the runs themselves.                 *)
(*                                                                         *)
(* Skills live in the hub's memory and pauses in its database: a restart   *)
(* forgets the former and keeps the latter.                                *)
(***************************************************************************)
EXTENDS ToolPolicies, ToolChild, FiniteSets

CONSTANTS
  Tool,
  Builtin,      \* tools of the built-in provider
  Shell,        \* those that run a command line
  Server,       \* enabled MCP servers
  Provides,     \* their tools
  ToolPolicy,   \* a tool's own policy, or NoPolicy
  AgentPolicies,\* candidates for the agent's tool_policies
  BaseTools,    \* the agent's base_tools
  Skill,        \* the agent's skills
  SkillTools,   \* and their tools, registered or not
  NoSkill,
  NoCall,
  MaxRestarts   \* bound: restarts of the hub

ASSUME ToolsAssumption ==
  /\ Shell \subseteq Builtin
  /\ Builtin \subseteq Tool
  /\ Provides \in [Server -> SUBSET Tool]
  /\ SkillTools \in [Skill -> SUBSET Tool]
  /\ AgentPolicies \subseteq [Tool -> Policy \cup {NoPolicy}]
  /\ ToolPolicy \in [Tool -> Policy \cup {NoPolicy}]
  /\ NoSkill \notin Skill
  /\ MaxRestarts \in Nat

VARIABLES
  policies,   \* the agent's tool_policies
  hub,        \* "connecting", "up" or "down"
  restarts,
  registry,   \* the tools of both registries
  building,   \* the one being built: the backends', then the unused factory's
  provider,   \* each server's connection, for either registry
  loaded,     \* SkillManager._loaded
  confirmed,  \* skills this hub has confirmed as loaded, to anyone
  run         \* each conversation's run

toolVars == <<policies, hub, restarts, registry, building, provider, loaded,
              confirmed, run, childVars>>

Run ==
  [place   : {"idle", "sending", "model", "tool", "paused", "lost"},
   wants   : Skill \cup {NoSkill},    \* the skill its command preloaded
   asked   : 0..MaxRestarts,          \* and the hub that confirmed it
   offered : SUBSET Tool, gated : SUBSET Tool, loader : BOOLEAN,
   due     : SUBSET Skill,            \* confirmed when it was built
   call    : {NoCall} \cup (Tool \X Arg), approved : BOOLEAN,
   hub     : 0..MaxRestarts]          \* the hub that built it

NoRun == [place |-> "idle", wants |-> NoSkill, asked |-> 0, offered |-> {}, gated |-> {},
          loader |-> FALSE, due |-> {}, call |-> NoCall, approved |-> FALSE,
          hub |-> 0]

Connection   == {"new", "entered", "ready", "closed", "open"}
NoRegistries == [b \in 1..2 |-> Builtin]
NotConnected == [b \in 1..2 |-> [s \in Server |-> "new"]]

Init ==
  /\ policies \in AgentPolicies
  /\ hub = "connecting"
  /\ restarts = 0
  /\ registry = NoRegistries
  /\ building = 1
  /\ provider = NotConnected
  /\ loaded = {}
  /\ confirmed = {}
  /\ run = [c \in Conv |-> NoRun]
  /\ ChildInit

-----------------------------------------------------------------------------
(* The start of the hub: two registries, each with connections of its own. *)

Boot == <<hub, registry, building, provider>>
Agent == <<loaded, confirmed>>

\* add_provider, one server after the other; discover returns what it has.
Connecting(s) ==
  /\ hub = "connecting"
  /\ \A q \in Server \ {s} : provider[building][q] \in {"new", "open"}

EnterTransport(s) ==
  /\ Connecting(s) /\ provider[building][s] = "new"
  /\ provider' = [provider EXCEPT ![building][s] = "entered"]
  /\ UNCHANGED <<policies, hub, restarts, registry, building, Agent, run, childVars>>

InitializeSession(s) ==
  /\ Connecting(s) /\ provider[building][s] = "entered"
  /\ provider' = [provider EXCEPT ![building][s] = "ready"]
  /\ UNCHANGED <<policies, hub, restarts, registry, building, Agent, run, childVars>>

\* register refuses a name that is taken.
ListTools(s) ==
  /\ Connecting(s) /\ provider[building][s] = "ready"
  /\ registry[building] \cap Provides[s] = {}
  /\ registry' = [registry EXCEPT ![building] = @ \cup Provides[s]]
  /\ provider' = [provider EXCEPT ![building][s] = "open"]
  /\ UNCHANGED <<policies, hub, restarts, building, Agent, run, childVars>>

\* _close_cm_quietly; past the session's initialization nothing is unwound.
ClosedQuietly(s) == IF provider[building][s] = "ready" THEN "ready" ELSE "closed"

\* Mutant: a server that cannot be reached is left out.
ConnectFailsOver(s) ==
  /\ Connecting(s) /\ provider[building][s] \in {"new", "entered", "ready"}
  /\ provider' = [provider EXCEPT ![building][s] = "open"]
  /\ UNCHANGED <<policies, hub, restarts, registry, building, Agent, run, childVars>>

\* An exception of _connect_and_discover ends _serve_command.
ConnectFails(s) ==
  /\ Connecting(s) /\ provider[building][s] \in {"new", "entered", "ready"}
  /\ provider' = [provider EXCEPT ![building][s] = ClosedQuietly(s)]
  /\ hub' = "down"
  /\ UNCHANGED <<policies, restarts, registry, building, Agent, run, childVars>>

AllOpen == \A s \in Server : provider[building][s] = "open"

SecondRegistry ==
  /\ hub = "connecting" /\ AllOpen /\ building = 1
  /\ building' = 2
  /\ UNCHANGED <<policies, hub, restarts, registry, provider, Agent, run, childVars>>

StartServing ==
  /\ hub = "connecting" /\ AllOpen /\ building = 2
  /\ hub' = "up"
  /\ UNCHANGED <<policies, restarts, registry, building, provider, Agent, run, childVars>>

\* Mutant: a run outlives its hub.
SurvivedWhole(r) == r

\* What outlives the hub: the database's pauses, and a command about to send.
Survived(r) == IF r.place \in {"paused", "sending"} THEN r ELSE NoRun

HubDies ==
  /\ hub = "up"
  /\ restarts < MaxRestarts
  /\ hub' = "down"
  /\ loaded' = {}
  /\ confirmed' = {}
  /\ run' = [c \in Conv |-> Survived(run[c])]
  /\ child' = [c \in Conv |-> NoChild]
  /\ stage' = [c \in Conv |-> "none"]
  /\ why' = [c \in Conv |-> "none"]
  /\ UNCHANGED <<policies, restarts, registry, building, provider>>

HubRestarts ==
  /\ hub = "down"
  /\ restarts < MaxRestarts
  /\ restarts' = restarts + 1
  /\ hub' = "connecting"
  /\ registry' = NoRegistries
  /\ building' = 1
  /\ provider' = NotConnected
  /\ UNCHANGED <<policies, Agent, run, childVars>>

HubBoots ==
  \/ \E s \in Server : EnterTransport(s) \/ InitializeSession(s) \/ ListTools(s) \/ ConnectFails(s)
  \/ SecondRegistry \/ StartServing
  \/ HubDies \/ HubRestarts

-----------------------------------------------------------------------------
(* Skills.                                                                 *)

\* Mutant: the manager is made anew for every request.
WithSkillFresh(s) == {s}

\* SkillManager.load_skill.
WithSkill(s) == loaded \cup {s}

LoadSkill(s) ==
  /\ loaded' = WithSkill(s)
  /\ confirmed' = confirmed \cup {s}

LoadedTools == UNION {SkillTools[s] : s \in loaded}

\* Mutant: all of the agent's skills count, loaded or not.
ActiveToolsUngated == registry[1] \cap (BaseTools \cup UNION {SkillTools[s] : s \in Skill})

\* get_for_agent over base_tools and loaded_tool_names: unknown names are
\* skipped.
ActiveTools == registry[1] \cap (BaseTools \cup LoadedTools)

GatedTool(t) == Gated(EffectivePolicy(policies[t], ToolPolicy[t]))

\* _build_pydantic_agent, for a run in the place given.
Built(c, place) ==
  [place   |-> place,
   wants   |-> run[c].wants, asked |-> run[c].asked, call |-> run[c].call,
   offered |-> ActiveTools, gated |-> {t \in ActiveTools : GatedTool(t)},
   loader  |-> Skill \ loaded # {},
   due     |-> confirmed, hub |-> restarts, approved |-> FALSE]

\* _resolve_skill: --skill, or a prompt that is a skill's name.
ResolvedSkill(flag, prompt) ==
  LET target == IF flag # NoSkill THEN flag ELSE prompt IN
  IF target \in Skill THEN target ELSE NoSkill

-----------------------------------------------------------------------------
(* Conversations.                                                          *)

\* A command with a skill asks the hub to load it first, and carries on if
\* that fails.
Preload(c, flag, prompt) ==
  LET s == ResolvedSkill(flag, prompt) IN
  /\ run[c].place = "idle"
  /\ s # NoSkill
  /\ \/ /\ hub = "up"
        /\ LoadSkill(s)
        /\ run' = [run EXCEPT ![c] = [NoRun EXCEPT !.place = "sending", !.wants = s,
                                                   !.asked = restarts]]
     \/ /\ run' = [run EXCEPT ![c] = [NoRun EXCEPT !.place = "sending"]]
        /\ UNCHANGED Agent
  /\ UNCHANGED <<policies, restarts, Boot, childVars>>

\* `/skill:<name>` in a chat.
ChatLoads(s) ==
  /\ hub = "up"
  /\ LoadSkill(s)
  /\ UNCHANGED <<policies, restarts, Boot, run, childVars>>

StartRun(c) ==
  /\ hub = "up"
  /\ run[c].place \in {"idle", "sending"}
  /\ run' = [run EXCEPT ![c] = Built(c, "model")]
  /\ UNCHANGED <<policies, restarts, Boot, Agent, childVars>>

\* The agent's own load_skill; the run keeps the tools it has.
ModelLoads(c, s) ==
  /\ run[c].place = "model" /\ run[c].loader
  /\ LoadSkill(s)
  /\ UNCHANGED <<policies, restarts, Boot, run, childVars>>

\* A call that is not gated, in the run it was made in.
ModelCalls(c, t, a) ==
  /\ run[c].place = "model"
  /\ t \in run[c].offered \ run[c].gated
  /\ run' = [run EXCEPT ![c].place = "tool", ![c].call = <<t, a>>, ![c].approved = FALSE]
  /\ IF t \in Shell THEN Spawn(c) \/ SpawnFails(c) ELSE UNCHANGED childVars
  /\ UNCHANGED <<policies, restarts, Boot, Agent>>

\* Mutant: a pause drops the skills loaded for its run.
PauseUnloads(c, t, a) ==
  /\ run[c].place = "model"
  /\ t \in run[c].gated
  /\ run' = [run EXCEPT ![c].place = "paused", ![c].call = <<t, a>>]
  /\ loaded' = {}
  /\ UNCHANGED <<policies, restarts, Boot, confirmed, childVars>>

\* A gated call ends the run with DeferredToolRequests.
Pause(c, t, a) ==
  /\ run[c].place = "model"
  /\ t \in run[c].gated
  /\ run' = [run EXCEPT ![c].place = "paused", ![c].call = <<t, a>>]
  /\ UNCHANGED <<policies, restarts, Boot, Agent, childVars>>

\* The user's decision starts a new run, with the tools of now.
Approve(c) ==
  LET t == run[c].call[1] IN
  /\ hub = "up"
  /\ run[c].place = "paused"
  /\ IF t \in ActiveTools
       THEN /\ run' = [run EXCEPT ![c] = [Built(c, "tool") EXCEPT !.approved = TRUE]]
            /\ IF t \in Shell THEN Spawn(c) \/ SpawnFails(c) ELSE UNCHANGED childVars
       ELSE run' = [run EXCEPT ![c].place = "lost"] /\ UNCHANGED childVars
  /\ UNCHANGED <<policies, restarts, Boot, Agent>>

Deny(c) ==
  /\ hub = "up"
  /\ run[c].place = "paused"
  /\ run' = [run EXCEPT ![c] = [Built(c, "model") EXCEPT !.call = NoCall]]
  /\ UNCHANGED <<policies, restarts, Boot, Agent, childVars>>

InShell(c) == run[c].place = "tool" /\ run[c].call[1] \in Shell

\* The text of a command, its error or "timed out", goes back to the model;
\* a cancellation ends the run.  A child that is still alive is nobody's now.
ShellEnds(c) ==
  /\ InShell(c)
  /\ stage[c] = "none"
  /\ run' = [run EXCEPT ![c] = IF why[c] = "cancelled" THEN NoRun
                               ELSE [@ EXCEPT !.place = "model", !.call = NoCall]]
  /\ Forget(c)
  /\ UNCHANGED <<policies, restarts, Boot, Agent>>

\* Any other tool returns, or raises, as an MCP call does whose time is up,
\* and then the run fails.
ToolEnds(c) ==
  /\ run[c].place = "tool" /\ ~InShell(c)
  /\ \/ run' = [run EXCEPT ![c].place = "model", ![c].call = NoCall]
     \/ run' = [run EXCEPT ![c] = NoRun]
  /\ UNCHANGED <<policies, restarts, Boot, Agent, childVars>>

\* The model answers, or its run fails.
RunEnds(c) ==
  /\ run[c].place \in {"model", "lost"}
  /\ run' = [run EXCEPT ![c] = NoRun]
  /\ UNCHANGED <<policies, restarts, Boot, Agent, childVars>>

ChildRuns(c) ==
  /\ InShell(c)
  /\ ChildSteps(c)
  /\ UNCHANGED <<policies, hub, restarts, registry, building, provider, Agent, run>>

Converse(c) ==
  \/ \E flag, prompt \in Skill \cup {NoSkill} : Preload(c, flag, prompt)
  \/ \E s \in Skill : ModelLoads(c, s)
  \/ \E t \in Tool, a \in Arg : ModelCalls(c, t, a) \/ Pause(c, t, a)
  \/ StartRun(c) \/ Approve(c) \/ Deny(c)
  \/ ShellEnds(c) \/ ToolEnds(c) \/ RunEnds(c)
  \/ ChildRuns(c)

Next ==
  \/ HubBoots
  \/ \E s \in Skill : ChatLoads(s)
  \/ \E c \in Conv : Converse(c)

\* The timers of a call expire and the loop resumes its coroutine; nothing is
\* assumed of the child, the model or the user.
DeadlinesPass(c) ==
  /\ InShell(c)
  /\ Deadlines(c)
  /\ UNCHANGED <<policies, hub, restarts, registry, building, provider, Agent, run>>

ToolsSpec ==
  /\ Init /\ [][Next]_toolVars
  /\ \A c \in Conv : WF_toolVars(DeadlinesPass(c)) /\ WF_toolVars(ShellEnds(c))

-----------------------------------------------------------------------------
\* Types; a conversation's run is inside a tool only while its hub serves, and
\* a gate is always one of the tools offered.
ToolsTypeOK ==
  /\ policies \in AgentPolicies
  /\ hub \in {"connecting", "up", "down"}
  /\ restarts \in 0..MaxRestarts
  /\ registry \in [1..2 -> SUBSET Tool] /\ building \in 1..2
  /\ provider \in [1..2 -> [Server -> Connection]]
  /\ loaded \subseteq Skill /\ confirmed \subseteq Skill
  /\ run \in [Conv -> Run]
  /\ ChildTypeOK
  /\ \A c \in Conv : run[c].gated \subseteq run[c].offered
  /\ \A c \in Conv : run[c].place \in {"model", "tool"} => hub = "up"

\* No call whose arguments the policy in force sends to the user executes
\* unapproved, although the gate is set per tool, before any arguments exist,
\* and the tool set is rebuilt on every run (backend.py
\* _policy_requires_approval, _build_pydantic_agent; tools.py evaluate).
NoUngatedCall ==
  \A c \in Conv : run[c].place = "tool" =>
    LET t == run[c].call[1] IN
    MustAsk(EffectivePolicy(policies[t], ToolPolicy[t]), run[c].call[2])
      => run[c].approved

\* A run is offered the agent's base tools and those of the skills this hub
\* had confirmed, to anybody, when the run was built: no more, although all
\* conversations share one manager and load into it at any time, and no fewer,
\* whatever ran in between; a command that preloaded a skill finds it in its
\* own run (backend.py _build_pydantic_agent, skills.py, factory.py
\* invoke_skill, main.py _do_command).
SkillBoundary ==
  \A c \in Conv : run[c].place \in {"model", "tool"} =>
    /\ run[c].offered =
         registry[1] \cap (BaseTools \cup UNION {SkillTools[s] : s \in run[c].due})
    /\ run[c].wants # NoSkill /\ run[c].asked = run[c].hub =>
         SkillTools[run[c].wants] \cap registry[1] \subseteq run[c].offered

\* An approved call finds its tool in the rebuilt agent, unless the hub was
\* restarted in between and has forgotten the skill.
ApprovedToolIsThere ==
  \A c \in Conv : run[c].place = "lost" => run[c].hub < restarts

\* A hub that serves offers the tools of every enabled server; a server it cannot
\* reach keeps it from serving at all, and a failed connection leaves no
\* transport without a session (tools.py create_default_registry, mcp.py
\* _connect).
RegistryIsComplete ==
  /\ hub = "up" => registry[1] = Builtin \cup UNION {Provides[s] : s \in Server}
  /\ hub # "connecting" =>
       \A b \in 1..2, s \in Server : provider[b][s] # "entered"

\* A call never ends with its child running and unsignalled, and only a
\* cancellation of the wait itself spares it SIGKILL (tools.py _run_shell,
\* _terminate_and_wait).
NoChildLeftRunning ==
  \A c \in Conv : stage[c] = "none" /\ child[c].alive =>
    \/ child[c].signal = "kill"
    \/ child[c].signal = "term" /\ why[c] = "cancelled"

\* A command line ends whatever its child does: no conversation stays in it
\* (tools.py _RUN_SHELL_TIMEOUT_SECONDS, _terminate_and_wait).
ToolCallsEnd ==
  \A c \in Conv : InShell(c) ~> ~InShell(c)

=============================================================================
