-------------------------- MODULE AgentToolsProofs --------------------------
(***************************************************************************)
(* Theorems about AgentTools, for all tools, skills, servers, policies and *)
(* conversations.                                                          *)
(***************************************************************************)
EXTENDS AgentTools, WellFoundedInduction, TLAPS

(***************************************************************************)
(* Policies                                                                *)
(***************************************************************************)
LEMMA LeastExists ==
  ASSUME NEW S, S \subseteq Nat, S # {}
  PROVE  \E i \in S : \A j \in S : i <= j
<1> DEFINE R == OpToRel(<, Nat)
<1>1. IsWellFoundedOn(R, Nat)
  BY NatLessThanWellFounded
<1> HIDE DEF R
<1>2. PICK i \in S : \A j \in S : <<j, i>> \notin R
  BY <1>1, WFMin, Zenon
<1>3. ASSUME NEW j \in S
      PROVE  i <= j
  <2>1. <<j, i>> \in Nat \X Nat
    OBVIOUS
  <2>2. ~(j < i)
    BY <1>2, <2>1 DEF R, OpToRel
  <2> QED
    BY <2>2
<1> QED
  BY <1>3

\* A call that evaluate sends to the user is one of a gated tool: the check
\* per tool is never laxer than the one per call (tools.py evaluate, backend.py
\* _policy_requires_approval).
THEOREM GateIsNeverLaxer ==
  ASSUME NEW policy \in Policy \cup {NoPolicy}, NEW arg, MustAsk(policy, arg)
  PROVE  Gated(policy)
<1>1. policy \in Policy /\ policy # NoPolicy
  BY DEF MustAsk
<1> DEFINE M == Matching(policy, arg)
<1>2. M \subseteq DOMAIN policy.rules /\ DOMAIN policy.rules \subseteq Nat
  BY <1>1 DEF Matching, Policy
<1>3. CASE M = {}
  BY <1>1, <1>3 DEF MustAsk, Evaluate, Gated, RequiresApproval
<1>4. CASE M # {}
  <2>1. \E i \in M : \A j \in M : i <= j
    <3>1. M \subseteq Nat
      BY <1>2
    <3> HIDE DEF M
    <3> QED
      BY <1>4, <3>1, LeastExists
  <2>2. First(M) \in M
    <3> HIDE DEF M
    <3> QED
      BY <2>1 DEF First
  <2>3. policy.rules[First(M)].mode = "always"
    BY <1>4 DEF MustAsk, Evaluate
  <2> QED
    BY <1>1, <1>2, <2>2, <2>3 DEF Gated, RequiresApproval
<1> QED
  BY <1>3, <1>4

(***************************************************************************)
(* Type correctness                                                        *)
(***************************************************************************)
LEMMA ActiveTyped == ToolsTypeOK => ActiveTools \in SUBSET Tool
BY DEF ActiveTools, ToolsTypeOK

\* A run that is built has the shape of a run and gates only what it offers.
LEMMA BuiltTyped ==
  ASSUME ToolsTypeOK, NEW c \in Conv, NEW place \in {"model", "tool"}
  PROVE  /\ Built(c, place) \in Run
         /\ Built(c, place).gated \subseteq Built(c, place).offered
<1>1. run[c] \in Run
  BY DEF ToolsTypeOK
<1>2. confirmed \in SUBSET Skill /\ restarts \in 0..MaxRestarts
  BY DEF ToolsTypeOK
<1>3. {t \in ActiveTools : GatedTool(t)} \in SUBSET Tool
  BY ActiveTyped
<1> QED
  BY <1>1, <1>2, <1>3, ActiveTyped DEF Built, Run

LEMMA NoRunTyped ==
  NoRun \in Run /\ NoRun.place = "idle" /\ NoRun.gated = {} /\ NoRun.offered = {}
BY ToolsAssumption DEF ToolsAssumption, NoRun, Run

\* The steps of a child and of the coroutine that waits for it.
LEMMA ChildTyped ==
  ASSUME ChildTypeOK, NEW c \in Conv,
         ChildSteps(c) \/ Spawn(c) \/ SpawnFails(c) \/ Forget(c) \/ UNCHANGED childVars
  PROVE  ChildTypeOK'
<1> USE DEF ChildTypeOK, Stage, Why, Ends
<1>0. /\ child[c] \in Child /\ NoChild \in Child /\ NewChild \in Child
      /\ \A b \in BOOLEAN : [child[c] EXCEPT !.piped = b] \in Child
      /\ \A b, d \in BOOLEAN : [child[c] EXCEPT !.alive = b, !.piped = d] \in Child
      /\ \A g \in {"none", "term", "kill"} : [child[c] EXCEPT !.signal = g] \in Child
  BY DEF Child, NoChild, NewChild
<1>1. CASE ChildExits(c)
  BY <1>0, <1>1 DEF ChildExits
<1>2. CASE PipesClose(c)
  BY <1>0, <1>2 DEF PipesClose
<1>3. CASE Communicated(c) \/ Waited(c) \/ KillDeadline(c) \/ CancelledAgain(c)
  BY <1>3 DEF Communicated, Waited, KillDeadline, CancelledAgain
<1>4. CASE Timeout(c) \/ IoError(c) \/ Cancelled(c) \/ TerminateDeadline(c)
  BY <1>0, <1>4 DEF Timeout, IoError, Cancelled, Terminate, TerminateDeadline
<1>5. CASE Spawn(c) \/ SpawnFails(c) \/ Forget(c)
  BY <1>0, <1>5 DEF Spawn, SpawnFails, Forget
<1>6. CASE UNCHANGED childVars
  BY <1>6 DEF childVars
<1> QED
  BY <1>1, <1>2, <1>3, <1>4, <1>5, <1>6 DEF ChildSteps, Deadlines

LEMMA TypeInit == Init => ToolsTypeOK
<1> SUFFICES ASSUME Init PROVE ToolsTypeOK
  OBVIOUS
<1>1. ChildTypeOK
  BY DEF Init, ChildInit, ChildTypeOK, Child, Stage, Why, NoChild
<1>2. run \in [Conv -> Run] /\ \A c \in Conv : run[c] = NoRun
  BY NoRunTyped DEF Init
<1> QED
  BY <1>1, <1>2, NoRunTyped, ToolsAssumption
  DEF Init, ToolsTypeOK, ToolsAssumption, NoRegistries, NotConnected, Connection

\* The start, death and restart of the hub.
LEMMA BootTyped ==
  ASSUME ToolsTypeOK, HubBoots
  PROVE  ToolsTypeOK'
<1> USE ToolsAssumption DEF ToolsAssumption, ToolsTypeOK, Connection
<1>1. ASSUME UNCHANGED <<childVars, run, policies, loaded, confirmed>>,
             restarts' \in 0..MaxRestarts, hub' \in {"connecting", "up", "down"},
             registry' \in [1..2 -> SUBSET Tool], building' \in 1..2,
             provider' \in [1..2 -> [Server -> Connection]],
             hub # "up"
      PROVE  ToolsTypeOK'
  BY <1>1 DEF ChildTypeOK, childVars
<1>2. CASE \E s \in Server : EnterTransport(s) \/ InitializeSession(s) \/ ListTools(s) \/ ConnectFails(s)
  <2>1. PICK s \in Server :
          EnterTransport(s) \/ InitializeSession(s) \/ ListTools(s) \/ ConnectFails(s)
    BY <1>2
  <2>2. CASE EnterTransport(s) \/ InitializeSession(s)
    BY <1>1, <2>2 DEF EnterTransport, InitializeSession, Connecting, Agent
  <2>3. CASE ListTools(s)
    BY <1>1, <2>3 DEF ListTools, Connecting, Agent
  <2>4. CASE ConnectFails(s)
    BY <1>1, <2>4 DEF ConnectFails, ClosedQuietly, Connecting, Agent
  <2> QED
    BY <2>1, <2>2, <2>3, <2>4
<1>3. CASE SecondRegistry \/ StartServing
  BY <1>1, <1>3 DEF SecondRegistry, StartServing, Agent
<1>4. CASE HubDies
  <2>1. \A c \in Conv : Survived(run[c]) \in {run[c], NoRun}
    BY DEF Survived
  <2>2. \A c \in Conv : Survived(run[c]).place \notin {"model", "tool"}
    BY NoRunTyped DEF Survived
  <2>3. run' \in [Conv -> Run]
    BY <1>4, <2>1, NoRunTyped DEF HubDies
  <2>4. \A c \in Conv : run'[c] = Survived(run[c])
    BY <1>4 DEF HubDies
  <2>5. \A c \in Conv : run'[c].gated \subseteq run'[c].offered
    BY <2>1, <2>4, NoRunTyped
  <2>6. ChildTypeOK'
    BY <1>4 DEF HubDies, ChildTypeOK, Child, Stage, Why, NoChild
  <2> QED
    BY <1>4, <2>2, <2>3, <2>4, <2>5, <2>6 DEF HubDies
<1>5. CASE HubRestarts
  <2>1. restarts' \in 0..MaxRestarts
    BY <1>5 DEF HubRestarts
  <2> QED
    BY <1>1, <1>5, <2>1 DEF HubRestarts, Agent, NoRegistries, NotConnected
<1> QED
  BY <1>2, <1>3, <1>4, <1>5 DEF HubBoots

\* A step of a conversation that changes its run to one of the right shape,
\* busy only while the hub serves.
LEMMA RunTyped ==
  ASSUME ToolsTypeOK, NEW c \in Conv, NEW r \in Run,
         run' = [run EXCEPT ![c] = r],
         r.gated \subseteq r.offered,
         r.place \in {"model", "tool"} => hub = "up",
         UNCHANGED <<policies, restarts, Boot>>,
         loaded' \subseteq Skill, confirmed' \subseteq Skill,
         ChildTypeOK'
  PROVE  ToolsTypeOK'
BY DEF ToolsTypeOK, Boot

\* The rest of a step changes no run.
LEMMA SameRunTyped ==
  ASSUME ToolsTypeOK, UNCHANGED <<policies, restarts, Boot, run>>,
         loaded' \subseteq Skill, confirmed' \subseteq Skill,
         ChildTypeOK'
  PROVE  ToolsTypeOK'
BY DEF ToolsTypeOK, Boot

\* The same for a run that goes on, with another place and call.
LEMMA MovedTyped ==
  ASSUME ToolsTypeOK, NEW c \in Conv,
         NEW place \in {"idle", "sending", "model", "tool", "paused", "lost"},
         NEW call \in {NoCall} \cup (Tool \X Arg),
         run' = [run EXCEPT ![c] = [run[c] EXCEPT !.place = place, !.call = call]],
         place \in {"model", "tool"} => hub = "up",
         UNCHANGED <<policies, restarts, Boot, Agent>>,
         ChildTypeOK'
  PROVE  ToolsTypeOK'
<1> DEFINE r == [run[c] EXCEPT !.place = place, !.call = call]
<1>0. run[c] \in Run /\ run[c].gated \subseteq run[c].offered
  BY DEF ToolsTypeOK
<1>1. r \in Run /\ r.gated \subseteq r.offered /\ r.place = place
  BY <1>0 DEF Run
<1>2. loaded' \subseteq Skill /\ confirmed' \subseteq Skill
  BY DEF ToolsTypeOK, Agent
<1>3. run' = [run EXCEPT ![c] = r]
  OBVIOUS
<1> HIDE DEF r
<1> QED
  BY <1>1, <1>2, <1>3, RunTyped

\* What _build_pydantic_agent's run may do, and the commands before it.
LEMMA ConverseTyped ==
  ASSUME ToolsTypeOK, NEW c \in Conv, Converse(c)
  PROVE  ToolsTypeOK'
<1>0. /\ run[c] \in Run /\ ChildTypeOK /\ loaded \subseteq Skill /\ confirmed \subseteq Skill
      /\ restarts \in 0..MaxRestarts
      /\ run[c].gated \subseteq run[c].offered
      /\ run[c].place \in {"model", "tool"} => hub = "up"
  BY DEF ToolsTypeOK
<1>1. ASSUME NEW flag \in Skill \cup {NoSkill}, NEW prompt \in Skill \cup {NoSkill},
             Preload(c, flag, prompt)
      PROVE  ToolsTypeOK'
  <2> DEFINE s == ResolvedSkill(flag, prompt)
             r == [NoRun EXCEPT !.place = "sending", !.wants = s, !.asked = restarts]
             q == [NoRun EXCEPT !.place = "sending"]
  <2>1. s \in Skill
    BY <1>1 DEF Preload, ResolvedSkill
  <2>2. /\ r \in Run /\ r.place = "sending" /\ r.gated = {}
        /\ q \in Run /\ q.place = "sending" /\ q.gated = {}
    BY <1>0, <2>1, NoRunTyped DEF Run
  <2>3. ChildTypeOK'
    BY <1>0, <1>1, ChildTyped DEF Preload
  <2>4. CASE LoadSkill(s) /\ run' = [run EXCEPT ![c] = r]
    <3>1. loaded' \subseteq Skill /\ confirmed' \subseteq Skill
      BY <1>0, <2>1, <2>4 DEF LoadSkill, WithSkill
    <3> HIDE DEF r, s
    <3> QED
      BY <1>1, <2>2, <2>3, <2>4, <3>1, RunTyped DEF Preload
  <2>5. CASE run' = [run EXCEPT ![c] = q] /\ UNCHANGED Agent
    <3>1. loaded' \subseteq Skill /\ confirmed' \subseteq Skill
      BY <1>0, <2>5 DEF Agent
    <3> HIDE DEF q
    <3> QED
      BY <1>1, <2>2, <2>3, <2>5, <3>1, RunTyped DEF Preload
  <2> QED
    BY <1>1, <2>4, <2>5 DEF Preload
<1>2. ASSUME NEW s \in Skill, ModelLoads(c, s)
      PROVE  ToolsTypeOK'
  BY <1>0, <1>2, ChildTyped, SameRunTyped DEF ModelLoads, LoadSkill, WithSkill
<1>3. ASSUME NEW t \in Tool, NEW a \in Arg, ModelCalls(c, t, a)
      PROVE  ToolsTypeOK'
  <2> DEFINE r == [run[c] EXCEPT !.place = "tool", !.call = <<t, a>>, !.approved = FALSE]
  <2>1. run' = [run EXCEPT ![c] = r]
    BY <1>3 DEF ModelCalls
  <2>2. r \in Run /\ r.gated \subseteq r.offered
    BY <1>0 DEF Run
  <2>3. ChildTypeOK'
    BY <1>0, <1>3, ChildTyped DEF ModelCalls
  <2> HIDE DEF r
  <2> QED
    BY <1>0, <1>3, <2>1, <2>2, <2>3, RunTyped DEF ModelCalls, Agent
<1>4. ASSUME NEW t \in Tool, NEW a \in Arg, Pause(c, t, a)
      PROVE  ToolsTypeOK'
  <2>1. run' = [run EXCEPT ![c] = [run[c] EXCEPT !.place = "paused", !.call = <<t, a>>]]
    BY <1>4 DEF Pause
  <2>2. ChildTypeOK'
    BY <1>0, <1>4, ChildTyped DEF Pause
  <2>3. <<t, a>> \in {NoCall} \cup (Tool \X Arg)
    OBVIOUS
  <2> QED
    BY <1>4, <2>1, <2>2, <2>3, MovedTyped DEF Pause
<1>5. CASE StartRun(c)
  <2>1. Built(c, "model") \in Run /\ Built(c, "model").gated \subseteq Built(c, "model").offered
    BY BuiltTyped
  <2>2. ChildTypeOK'
    BY <1>0, <1>5, ChildTyped DEF StartRun
  <2> QED
    BY <1>0, <1>5, <2>1, <2>2, RunTyped DEF StartRun, Agent
<1>6. CASE Approve(c)
  <2> DEFINE r == [Built(c, "tool") EXCEPT !.approved = TRUE]
  <2>1. /\ r \in Run /\ r.gated \subseteq r.offered
    BY BuiltTyped DEF Run
  <2>2. ChildTypeOK'
    BY <1>0, <1>6, ChildTyped DEF Approve
  <2>3. CASE run' = [run EXCEPT ![c] = r]
    <3> HIDE DEF r
    <3> QED
      BY <1>0, <1>6, <2>1, <2>2, <2>3, RunTyped DEF Approve, Agent
  <2>4. CASE run' = [run EXCEPT ![c].place = "lost"]
    <3>1. run[c].call \in {NoCall} \cup (Tool \X Arg)
      BY <1>0 DEF Run
    <3>2. run' = [run EXCEPT ![c] = [run[c] EXCEPT !.place = "lost", !.call = run[c].call]]
      BY <1>0, <2>4 DEF Run
    <3> QED
      BY <1>6, <2>2, <3>1, <3>2, MovedTyped DEF Approve
  <2> QED
    BY <1>6, <2>3, <2>4 DEF Approve
<1>7. CASE Deny(c)
  <2> DEFINE r == [Built(c, "model") EXCEPT !.call = NoCall]
  <2>1. /\ r \in Run /\ r.gated \subseteq r.offered
    BY BuiltTyped DEF Run
  <2>2. ChildTypeOK'
    BY <1>0, <1>7, ChildTyped DEF Deny
  <2>3. run' = [run EXCEPT ![c] = r]
    BY <1>7 DEF Deny
  <2> HIDE DEF r
  <2> QED
    BY <1>0, <1>7, <2>1, <2>2, <2>3, RunTyped DEF Deny, Agent
<1>8. CASE ShellEnds(c) \/ ToolEnds(c) \/ RunEnds(c)
  <2>1. ChildTypeOK'
    BY <1>0, <1>8, ChildTyped DEF ShellEnds, ToolEnds, RunEnds
  <2>2. CASE run' = [run EXCEPT ![c] = NoRun]
    BY <1>0, <1>8, <2>1, <2>2, NoRunTyped, RunTyped DEF ShellEnds, ToolEnds, RunEnds, Agent
  <2>3. CASE /\ run' = [run EXCEPT ![c] = [run[c] EXCEPT !.place = "model", !.call = NoCall]]
             /\ run[c].place = "tool"
    BY <1>0, <1>8, <2>1, <2>3, MovedTyped DEF ShellEnds, ToolEnds, RunEnds
  <2> QED
    BY <1>8, <2>2, <2>3 DEF ShellEnds, ToolEnds, RunEnds, InShell
<1>9. CASE ChildRuns(c)
  BY <1>0, <1>9, ChildTyped, SameRunTyped DEF ChildRuns, Agent, Boot
<1> QED
  BY <1>1, <1>2, <1>3, <1>4, <1>5, <1>6, <1>7, <1>8, <1>9 DEF Converse

LEMMA TypeStep == ToolsTypeOK /\ [Next]_toolVars => ToolsTypeOK'
<1> SUFFICES ASSUME ToolsTypeOK, [Next]_toolVars PROVE ToolsTypeOK'
  OBVIOUS
<1>1. CASE UNCHANGED toolVars
  BY <1>1 DEF toolVars, childVars, ToolsTypeOK, ChildTypeOK
<1>2. ASSUME NEW s \in Skill, ChatLoads(s)
      PROVE  ToolsTypeOK'
  <2>1. ChildTypeOK'
    BY <1>2 DEF ChatLoads, ToolsTypeOK, ChildTypeOK, childVars
  <2> QED
    BY <1>2, <2>1, SameRunTyped DEF ChatLoads, LoadSkill, WithSkill, ToolsTypeOK
<1> QED
  BY <1>1, <1>2, BootTyped, ConverseTyped DEF Next

\* The registry, the runs and the children of tools keep their shapes; a gate
\* is a tool offered, and no run is at work without a hub.
THEOREM ToolsTypeCorrect == ToolsSpec => []ToolsTypeOK
  BY TypeInit, TypeStep, PTL DEF ToolsSpec

(***************************************************************************)
(* Gates, skills and pauses                                                *)
(***************************************************************************)
\* The tools a run is offered with the skills given.
Unlocked(skills) == registry[1] \cap (BaseTools \cup UNION {SkillTools[s] : s \in skills})

\* A run at work has the tools and gates it was built with, in this hub.
AtWork(c) ==
  run[c].place \in {"model", "tool"} =>
    /\ run[c].hub = restarts
    /\ run[c].due \subseteq confirmed
    /\ run[c].offered = Unlocked(run[c].due)
    /\ run[c].gated = {t \in run[c].offered : GatedTool(t)}
    /\ run[c].wants # NoSkill /\ run[c].asked = run[c].hub => run[c].wants \in run[c].due

\* An unapproved call is one of a free tool the run was offered.
CallOK(c) ==
  run[c].place = "tool" /\ ~run[c].approved =>
    run[c].call[1] \in run[c].offered \ run[c].gated

\* A paused call finds its tool as long as its hub lives; what a hub confirmed
\* to a command it still has.
MemoryOK(c) ==
  /\ run[c].hub <= restarts
  /\ run[c].place = "paused" =>
       /\ hub = "connecting" => run[c].hub < restarts
       /\ hub = "up" /\ run[c].hub = restarts => run[c].call[1] \in Unlocked(confirmed)
  /\ run[c].place = "lost" => run[c].hub < restarts
  /\ run[c].wants # NoSkill =>
       /\ run[c].asked <= restarts
       /\ hub = "connecting" => run[c].asked < restarts
       /\ hub = "up" /\ run[c].asked = restarts => run[c].wants \in confirmed

RunOK(c) == AtWork(c) /\ CallOK(c) /\ MemoryOK(c)

AgentInv ==
  /\ ToolsTypeOK
  /\ loaded = confirmed
  /\ \A c \in Conv : RunOK(c)

LEMMA UnlockedGrows ==
  ASSUME NEW S, NEW T, S \subseteq T
  PROVE  Unlocked(S) \subseteq Unlocked(T)
BY DEF Unlocked

LEMMA ActiveIsUnlocked == ActiveTools = Unlocked(loaded)
BY DEF ActiveTools, Unlocked, LoadedTools

\* A run that a step leaves alone, while skills are only added.
LEMMA OthersKeep ==
  ASSUME AgentInv, NEW d \in Conv, run'[d] = run[d], ToolsTypeOK',
         UNCHANGED <<policies, restarts, Boot>>,
         confirmed \subseteq confirmed'
  PROVE  RunOK(d)'
<1>1. RunOK(d)
  BY DEF AgentInv
<1>2. \A S : Unlocked(S)' = Unlocked(S)
  BY DEF Unlocked, Boot
<1>3. Unlocked(confirmed) \subseteq Unlocked(confirmed')
  BY UnlockedGrows
<1>4. AtWork(d)'
  BY <1>1, <1>2 DEF RunOK, AtWork, GatedTool, Boot
<1>5. CallOK(d)'
  BY <1>1 DEF RunOK, CallOK
<1>6. MemoryOK(d)'
  <2>1. (Unlocked(confirmed))' = Unlocked(confirmed')
    BY DEF Unlocked, Boot
  <2> QED
    BY <1>1, <1>3, <2>1 DEF RunOK, MemoryOK, Boot
<1> QED
  BY <1>4, <1>5, <1>6 DEF RunOK

LEMMA AgentInit == Init => AgentInv
<1> SUFFICES ASSUME Init PROVE AgentInv
  OBVIOUS
<1>1. ToolsTypeOK
  BY TypeInit
<1>2. ASSUME NEW c \in Conv
      PROVE  RunOK(c)
  <2>1. run[c] = NoRun
    BY DEF Init
  <2>2. restarts = 0
    BY DEF Init
  <2> QED
    BY <2>1, <2>2 DEF RunOK, AtWork, CallOK, MemoryOK, NoRun
<1> QED
  BY <1>1, <1>2 DEF AgentInv, Init

\* The idle run needs nothing.
LEMMA NoRunOK ==
  ASSUME AgentInv, NEW c \in Conv, run'[c] = NoRun, restarts' \in Nat
  PROVE  RunOK(c)'
BY DEF RunOK, AtWork, CallOK, MemoryOK, NoRun

\* A run just built has what is unlocked now, and what its command preloaded.
LEMMA BuiltOK ==
  ASSUME AgentInv, NEW c \in Conv, NEW place \in {"model", "tool"}, hub = "up",
         UNCHANGED <<policies, restarts, Boot, Agent>>, ToolsTypeOK',
         run'[c].place = place,
         run'[c].hub = Built(c, place).hub, run'[c].due = Built(c, place).due,
         run'[c].offered = Built(c, place).offered, run'[c].gated = Built(c, place).gated,
         run'[c].wants = Built(c, place).wants, run'[c].asked = Built(c, place).asked,
         place = "tool" => run'[c].approved
  PROVE  RunOK(c)'
<1>1. /\ run'[c].hub = restarts /\ run'[c].due = confirmed
      /\ run'[c].offered = ActiveTools
      /\ run'[c].gated = {t \in ActiveTools : GatedTool(t)}
      /\ run'[c].wants = run[c].wants /\ run'[c].asked = run[c].asked
  BY DEF Built
<1>2. ActiveTools = Unlocked(confirmed) /\ MemoryOK(c) /\ restarts \in Nat
  BY ActiveIsUnlocked DEF AgentInv, RunOK, ToolsTypeOK
<1>3. \A S : Unlocked(S)' = Unlocked(S)
  BY DEF Unlocked, Boot
<1>4. AtWork(c)'
  BY <1>1, <1>2, <1>3 DEF AtWork, MemoryOK, GatedTool, Boot, Agent
<1>5. CallOK(c)'
  BY DEF CallOK
<1>6. MemoryOK(c)'
  BY <1>1, <1>2 DEF MemoryOK, Boot, Agent
<1> QED
  BY <1>4, <1>5, <1>6 DEF RunOK

LEMMA BootKeeps ==
  ASSUME AgentInv, HubBoots
  PROVE  AgentInv'
<1>1. ToolsTypeOK /\ ToolsTypeOK'
  BY BootTyped DEF AgentInv
<1>2. ASSUME NEW c \in Conv PROVE RunOK(c)
  BY DEF AgentInv
<1>3. \A c \in Conv : run[c].place \in {"model", "tool"} => hub = "up"
  BY <1>1 DEF ToolsTypeOK
<1>4. CASE /\ UNCHANGED <<policies, restarts, Agent, run>>
           /\ hub = "connecting"
  <2>1. ASSUME NEW c \in Conv PROVE RunOK(c)'
    <3>1. run[c].hub \in Nat /\ run[c].asked \in Nat /\ restarts \in Nat
      BY <1>1 DEF ToolsTypeOK, Run
    <3>2. run[c].place \notin {"model", "tool"}
      BY <1>3, <1>4
    <3>3. AtWork(c)' /\ CallOK(c)'
      BY <1>4, <3>2 DEF AtWork, CallOK
    <3>4. MemoryOK(c)'
      BY <1>2, <1>4, <3>1 DEF RunOK, MemoryOK
    <3> QED
      BY <3>3, <3>4 DEF RunOK
  <2> QED
    BY <1>1, <1>4, <2>1 DEF AgentInv, Agent
<1>5. CASE HubDies
  <2>1. ASSUME NEW c \in Conv PROVE RunOK(c)'
    <3>1. CASE run[c].place \in {"paused", "sending"}
      <4>1. run'[c] = run[c]
        BY <1>5, <3>1 DEF HubDies, Survived
      <4> QED
        BY <1>2, <1>5, <3>1, <4>1 DEF HubDies, RunOK, AtWork, CallOK, MemoryOK
    <3>2. CASE run[c].place \notin {"paused", "sending"}
      <4>1. run'[c] = NoRun /\ restarts' \in Nat
        BY <1>1, <1>5, <3>2 DEF HubDies, Survived, ToolsTypeOK
      <4> QED
        BY <4>1, NoRunOK
    <3> QED
      BY <3>1, <3>2
  <2> QED
    BY <1>1, <1>5, <2>1 DEF AgentInv, HubDies
<1>6. CASE HubRestarts
  <2>1. ASSUME NEW c \in Conv PROVE RunOK(c)'
    <3>1. run[c].hub \in Nat /\ run[c].asked \in Nat /\ restarts \in Nat
      BY <1>1 DEF ToolsTypeOK, Run
    <3> QED
      BY <1>2, <1>3, <1>6, <3>1 DEF HubRestarts, RunOK, AtWork, CallOK, MemoryOK
  <2> QED
    BY <1>1, <1>6, <2>1 DEF AgentInv, HubRestarts, Agent
<1> QED
  BY <1>4, <1>5, <1>6 DEF HubBoots, EnterTransport, InitializeSession, ListTools,
     ConnectFails, Connecting, SecondRegistry, StartServing

LEMMA ConverseKeeps ==
  ASSUME AgentInv, NEW c \in Conv, Converse(c)
  PROVE  AgentInv'
<1>1. /\ ToolsTypeOK /\ ToolsTypeOK' /\ RunOK(c) /\ loaded = confirmed
      /\ restarts \in Nat /\ run \in [Conv -> Run] /\ run[c] \in Run
      /\ confirmed \subseteq Skill
  BY ConverseTyped DEF AgentInv, ToolsTypeOK
<1>2. run[c].place \in {"model", "tool"} => hub = "up"
  BY <1>1 DEF ToolsTypeOK
<1>3. ASSUME NEW s \in Skill, LoadSkill(s)
      PROVE  loaded' = confirmed' /\ confirmed \subseteq confirmed' /\ s \in confirmed'
  BY <1>1, <1>3 DEF LoadSkill, WithSkill
<1>4. ASSUME UNCHANGED <<policies, restarts, Boot>>, loaded' = confirmed',
             confirmed \subseteq confirmed',
             \A d \in Conv \ {c} : run'[d] = run[d], RunOK(c)'
      PROVE  AgentInv'
  BY <1>1, <1>4, OthersKeep DEF AgentInv
<1>5. ASSUME UNCHANGED <<policies, restarts, Boot, Agent>>,
             \A d \in Conv \ {c} : run'[d] = run[d], RunOK(c)'
      PROVE  AgentInv'
  BY <1>1, <1>4, <1>5 DEF Agent
<1>6. ASSUME NEW flag \in Skill \cup {NoSkill}, NEW prompt \in Skill \cup {NoSkill},
             Preload(c, flag, prompt)
      PROVE  AgentInv'
  <2> DEFINE s == ResolvedSkill(flag, prompt)
  <2>1. s \in Skill /\ \A d \in Conv \ {c} : run'[d] = run[d]
    BY <1>1, <1>6 DEF Preload, ResolvedSkill
  <2>2. CASE /\ hub = "up" /\ LoadSkill(s)
             /\ run' = [run EXCEPT ![c] = [NoRun EXCEPT !.place = "sending", !.wants = s,
                                                        !.asked = restarts]]
    <3>1. loaded' = confirmed' /\ confirmed \subseteq confirmed' /\ s \in confirmed'
      BY <1>3, <2>1, <2>2
    <3>2. run'[c] = [NoRun EXCEPT !.place = "sending", !.wants = s, !.asked = restarts]
      BY <1>1, <2>2
    <3>3. UNCHANGED <<policies, restarts, Boot>>
      BY <1>6 DEF Preload
    <3>4. RunOK(c)'
      BY <1>1, <2>2, <3>1, <3>2, <3>3
      DEF RunOK, AtWork, CallOK, MemoryOK, NoRun, Boot
    <3> QED
      BY <1>4, <2>1, <3>1, <3>3, <3>4
  <2>3. CASE run' = [run EXCEPT ![c] = [NoRun EXCEPT !.place = "sending"]] /\ UNCHANGED Agent
    <3>1. run'[c] = [NoRun EXCEPT !.place = "sending"]
      BY <1>1, <2>3
    <3>2. UNCHANGED <<policies, restarts, Boot>>
      BY <1>6 DEF Preload
    <3>3. RunOK(c)'
      BY <1>1, <3>1, <3>2 DEF RunOK, AtWork, CallOK, MemoryOK, NoRun, Boot
    <3> QED
      BY <1>5, <2>1, <2>3, <3>2, <3>3
  <2> QED
    BY <1>6, <2>2, <2>3 DEF Preload
<1>7. ASSUME NEW s \in Skill, ModelLoads(c, s)
      PROVE  AgentInv'
  BY <1>1, <1>3, <1>7, OthersKeep DEF AgentInv, ModelLoads
<1>8. ASSUME NEW t \in Tool, NEW a \in Arg, ModelCalls(c, t, a)
      PROVE  AgentInv'
  <2>1. /\ run[c].place = "model" /\ t \in run[c].offered \ run[c].gated
        /\ run' = [run EXCEPT ![c] = [run[c] EXCEPT !.place = "tool", !.call = <<t, a>>,
                                                    !.approved = FALSE]]
        /\ UNCHANGED <<policies, restarts, Boot, Agent>>
    BY <1>8 DEF ModelCalls
  <2>2. /\ run'[c].place = "tool" /\ run'[c].call[1] = t /\ run'[c].offered = run[c].offered
        /\ run'[c].gated = run[c].gated /\ run'[c].due = run[c].due
        /\ run'[c].hub = run[c].hub /\ run'[c].wants = run[c].wants
        /\ run'[c].asked = run[c].asked
    BY <1>1, <2>1 DEF Run
  <2>3. \A S : Unlocked(S)' = Unlocked(S)
    BY <2>1 DEF Unlocked, Boot
  <2>4. AtWork(c)'
    BY <1>1, <2>1, <2>2, <2>3 DEF RunOK, AtWork, GatedTool, Boot, Agent
  <2>5. CallOK(c)' /\ MemoryOK(c)'
    BY <1>1, <2>1, <2>2 DEF RunOK, CallOK, MemoryOK, Boot, Agent
  <2> QED
    BY <1>1, <1>5, <2>1, <2>4, <2>5 DEF RunOK
<1>9. ASSUME NEW t \in Tool, NEW a \in Arg, Pause(c, t, a)
      PROVE  AgentInv'
  <2>1. /\ run[c].place = "model" /\ t \in run[c].gated
        /\ run' = [run EXCEPT ![c] = [run[c] EXCEPT !.place = "paused", !.call = <<t, a>>]]
        /\ UNCHANGED <<policies, restarts, Boot, Agent>>
    BY <1>9 DEF Pause
  <2>2. /\ run'[c].place = "paused" /\ run'[c].call[1] = t
        /\ run'[c].hub = run[c].hub /\ run'[c].wants = run[c].wants
        /\ run'[c].asked = run[c].asked
    BY <1>1, <2>1 DEF Run
  <2>3. t \in Unlocked(confirmed)
    <3>1. t \in Unlocked(run[c].due) /\ run[c].due \subseteq confirmed
      BY <1>1, <2>1 DEF RunOK, AtWork
    <3> QED
      BY <3>1, UnlockedGrows
  <2>4. Unlocked(confirmed)' = Unlocked(confirmed)
    BY <2>1 DEF Unlocked, Boot, Agent
  <2>5. RunOK(c)'
    BY <1>1, <1>2, <2>1, <2>2, <2>3, <2>4 DEF RunOK, AtWork, CallOK, MemoryOK, Boot, Agent
  <2> QED
    BY <1>1, <1>5, <2>1, <2>5
<1>10. CASE StartRun(c)
  <2>1. run'[c] = Built(c, "model") /\ hub = "up"
    BY <1>1, <1>10 DEF StartRun
  <2>2. RunOK(c)'
    BY <1>1, <1>10, <2>1, BuiltOK DEF StartRun, Built
  <2> QED
    BY <1>1, <1>5, <1>10, <2>2 DEF StartRun
<1>11. CASE Approve(c)
  <2>1. \A d \in Conv \ {c} : run'[d] = run[d]
    BY <1>1, <1>11 DEF Approve
  <2>2. CASE run' = [run EXCEPT ![c] = [Built(c, "tool") EXCEPT !.approved = TRUE]]
    <3>1. run'[c] = [Built(c, "tool") EXCEPT !.approved = TRUE] /\ hub = "up"
      BY <1>1, <1>11, <2>2 DEF Approve
    <3>2. RunOK(c)'
      BY <1>1, <1>11, <3>1, BuiltOK DEF Approve, Built
    <3> QED
      BY <1>5, <1>11, <2>1, <3>2 DEF Approve
  <2>3. CASE /\ run[c].call[1] \notin ActiveTools
             /\ run' = [run EXCEPT ![c].place = "lost"]
    <3>1. /\ run'[c].place = "lost" /\ run'[c].hub = run[c].hub
          /\ run'[c].wants = run[c].wants /\ run'[c].asked = run[c].asked
      BY <1>1, <2>3 DEF Run
    <3>2. run[c].place = "paused" /\ hub = "up" /\ UNCHANGED <<policies, restarts, Boot, Agent>>
      BY <1>11 DEF Approve
    <3>3. run[c].call[1] \notin Unlocked(confirmed) /\ run[c].hub \in Nat
      BY <1>1, <2>3, ActiveIsUnlocked DEF Run
    <3>4. RunOK(c)'
      BY <1>1, <3>1, <3>2, <3>3 DEF RunOK, AtWork, CallOK, MemoryOK, Boot, Agent
    <3> QED
      BY <1>5, <2>1, <3>2, <3>4
  <2> QED
    BY <1>11, <2>2, <2>3 DEF Approve
<1>12. CASE Deny(c)
  <2>1. run'[c] = [Built(c, "model") EXCEPT !.call = NoCall] /\ hub = "up"
    BY <1>1, <1>12 DEF Deny
  <2>2. RunOK(c)'
    BY <1>1, <1>12, <2>1, BuiltOK DEF Deny, Built
  <2> QED
    BY <1>1, <1>5, <1>12, <2>2 DEF Deny
<1>13. CASE ShellEnds(c) \/ ToolEnds(c) \/ RunEnds(c)
  <2>1. /\ UNCHANGED <<policies, restarts, Boot, Agent>>
        /\ \A d \in Conv \ {c} : run'[d] = run[d]
    BY <1>1, <1>13 DEF ShellEnds, ToolEnds, RunEnds
  <2>2. CASE run' = [run EXCEPT ![c] = NoRun]
    BY <1>1, <1>5, <2>1, <2>2, NoRunOK DEF AgentInv
  <2>3. CASE /\ run' = [run EXCEPT ![c] = [run[c] EXCEPT !.place = "model", !.call = NoCall]]
             /\ run[c].place = "tool"
    <3>1. /\ run'[c].place = "model" /\ run'[c].offered = run[c].offered
          /\ run'[c].gated = run[c].gated /\ run'[c].due = run[c].due
          /\ run'[c].hub = run[c].hub /\ run'[c].wants = run[c].wants
          /\ run'[c].asked = run[c].asked
      BY <1>1, <2>3 DEF Run
    <3>2. \A S : Unlocked(S)' = Unlocked(S)
      BY <2>1 DEF Unlocked, Boot
    <3>3. AtWork(c)'
      BY <1>1, <2>1, <2>3, <3>1, <3>2 DEF RunOK, AtWork, GatedTool, Boot, Agent
    <3>4. CallOK(c)' /\ MemoryOK(c)'
      BY <1>1, <2>1, <2>3, <3>1 DEF RunOK, CallOK, MemoryOK, Boot, Agent
    <3> QED
      BY <1>5, <2>1, <3>3, <3>4 DEF RunOK
  <2> QED
    BY <1>13, <2>2, <2>3 DEF ShellEnds, ToolEnds, RunEnds, InShell
<1>14. CASE ChildRuns(c)
  BY <1>1, <1>14, OthersKeep DEF AgentInv, ChildRuns, Agent, Boot
<1> QED
  BY <1>6, <1>7, <1>8, <1>9, <1>10, <1>11, <1>12, <1>13, <1>14 DEF Converse

LEMMA AgentStep == AgentInv /\ [Next]_toolVars => AgentInv'
<1> SUFFICES ASSUME AgentInv, [Next]_toolVars PROVE AgentInv'
  OBVIOUS
<1>1. ToolsTypeOK'
  BY TypeStep DEF AgentInv
<1>2. CASE UNCHANGED toolVars
  BY <1>1, <1>2, OthersKeep DEF AgentInv, toolVars, Boot
<1>3. ASSUME NEW s \in Skill, ChatLoads(s)
      PROVE  AgentInv'
  BY <1>1, <1>3, OthersKeep DEF AgentInv, ChatLoads, LoadSkill, WithSkill
<1> QED
  BY <1>2, <1>3, BootKeeps, ConverseKeeps DEF Next

LEMMA AgentInvariant == ToolsSpec => []AgentInv
  BY AgentInit, AgentStep, PTL DEF ToolsSpec

\* No call whose arguments the policy sends to the user executes unapproved.
\* An unapproved call is one of a tool that is not gated (CallOK, AtWork), and
\* a tool that is not gated needs nobody, whatever its arguments.
THEOREM CallsAreGated == ToolsSpec => []NoUngatedCall
<1>1. AgentInv => NoUngatedCall
  <2> SUFFICES ASSUME AgentInv, NEW c \in Conv, run[c].place = "tool",
                      MustAsk(EffectivePolicy(policies[run[c].call[1]],
                                              ToolPolicy[run[c].call[1]]), run[c].call[2]),
                      ~run[c].approved
               PROVE  FALSE
    BY DEF NoUngatedCall
  <2> DEFINE t == run[c].call[1]
             p == EffectivePolicy(policies[t], ToolPolicy[t])
  <2>1. t \in run[c].offered \ run[c].gated /\ run[c].offered \subseteq Tool
    BY DEF AgentInv, RunOK, CallOK, ToolsTypeOK, Run
  <2>2. p \in Policy \cup {NoPolicy}
    BY <2>1, ToolsAssumption DEF ToolsAssumption, AgentInv, ToolsTypeOK, EffectivePolicy
  <2>3. Gated(p)
    <3> HIDE DEF p
    <3> QED
      BY <2>2, GateIsNeverLaxer DEF p
  <2>4. t \in run[c].gated
    BY <2>1, <2>3 DEF AgentInv, RunOK, AtWork, GatedTool
  <2> QED
    BY <2>1, <2>4
<1> QED
  BY <1>1, AgentInvariant, PTL

\* A run's tools are those of the skills confirmed before it was built, and a
\* command finds the skill it preloaded.
THEOREM SkillsAreBounded == ToolsSpec => []SkillBoundary
<1>1. AgentInv => SkillBoundary
  <2> SUFFICES ASSUME AgentInv, NEW c \in Conv, run[c].place \in {"model", "tool"}
               PROVE  /\ run[c].offered = Unlocked(run[c].due)
                      /\ run[c].wants # NoSkill /\ run[c].asked = run[c].hub =>
                           SkillTools[run[c].wants] \cap registry[1] \subseteq run[c].offered
    BY DEF SkillBoundary, Unlocked
  <2> QED
    BY DEF AgentInv, RunOK, AtWork, Unlocked
<1> QED
  BY <1>1, AgentInvariant, PTL

\* Only a restart takes its tool from an approved call.
THEOREM ApprovedToolStays == ToolsSpec => []ApprovedToolIsThere
<1>1. AgentInv => ApprovedToolIsThere
  BY DEF AgentInv, RunOK, MemoryOK, ApprovedToolIsThere
<1> QED
  BY <1>1, AgentInvariant, PTL

(***************************************************************************)
(* Children of tools                                                       *)
(***************************************************************************)
\* What the coroutine has sent the child by the time it waits for it.
SignalOK(c) ==
  /\ stage[c] = "terminate" => child[c].signal = "term"
  /\ stage[c] = "kill" => child[c].signal = "kill"
  /\ stage[c] = "none" /\ child[c].alive =>
       \/ child[c].signal = "kill"
       \/ child[c].signal = "term" /\ why[c] = "cancelled"

SignalInv == ChildTypeOK /\ \A c \in Conv : SignalOK(c)

LEMMA ChildSignalled ==
  ASSUME SignalInv, NEW c \in Conv,
         ChildSteps(c) \/ Spawn(c) \/ SpawnFails(c) \/ Forget(c)
  PROVE  SignalInv'
<1>1. ChildTypeOK /\ ChildTypeOK' /\ SignalOK(c) /\ child[c] \in Child
  BY ChildTyped DEF SignalInv, ChildTypeOK
<1>2. \A d \in Conv \ {c} : child'[d] = child[d] /\ stage'[d] = stage[d] /\ why'[d] = why[d]
  BY <1>1 DEF ChildTypeOK, ChildSteps, Deadlines, ChildExits, PipesClose, Communicated,
     Timeout, IoError, Cancelled, Terminate, Waited, TerminateDeadline, KillDeadline,
     CancelledAgain, Spawn, SpawnFails, Forget, Ends
<1>3. SignalOK(c)'
  <2> USE <1>1 DEF ChildTypeOK, Child, SignalOK, Ends
  <2>1. CASE ChildExits(c) \/ PipesClose(c)
    BY <2>1 DEF ChildExits, PipesClose
  <2>2. CASE Communicated(c) \/ Waited(c) \/ KillDeadline(c) \/ CancelledAgain(c)
    BY <2>2 DEF Communicated, Waited, KillDeadline, CancelledAgain
  <2>3. CASE Timeout(c) \/ IoError(c) \/ Cancelled(c) \/ TerminateDeadline(c)
    BY <2>3 DEF Timeout, IoError, Cancelled, Terminate, TerminateDeadline
  <2>4. CASE Spawn(c) \/ SpawnFails(c) \/ Forget(c)
    BY <2>4 DEF Spawn, SpawnFails, Forget, NoChild, NewChild
  <2> QED
    BY <2>1, <2>2, <2>3, <2>4 DEF ChildSteps, Deadlines
<1>4. ASSUME NEW d \in Conv \ {c}
      PROVE  SignalOK(d)'
  BY <1>2, <1>4 DEF SignalInv, SignalOK
<1> QED
  BY <1>1, <1>3, <1>4 DEF SignalInv

LEMMA SignalStep == SignalInv /\ [Next]_toolVars => SignalInv'
<1> SUFFICES ASSUME SignalInv, [Next]_toolVars PROVE SignalInv'
  OBVIOUS
<1>1. CASE UNCHANGED childVars
  BY <1>1 DEF childVars, SignalInv, SignalOK, ChildTypeOK
<1>2. CASE HubDies
  BY <1>2 DEF HubDies, SignalInv, SignalOK, ChildTypeOK, Child, Stage, Why, NoChild
<1>3. CASE HubBoots
  BY <1>1, <1>2, <1>3 DEF HubBoots, EnterTransport, InitializeSession, ListTools,
     ConnectFails, SecondRegistry, StartServing, HubRestarts
<1>4. ASSUME NEW c \in Conv, Converse(c)
      PROVE  SignalInv'
  <2>1. \/ UNCHANGED childVars
        \/ ChildSteps(c) \/ Spawn(c) \/ SpawnFails(c) \/ Forget(c)
    BY <1>4 DEF Converse, Preload, ModelLoads, ModelCalls, Pause, StartRun, Approve, Deny,
       ShellEnds, ToolEnds, RunEnds, ChildRuns
  <2> QED
    BY <1>1, <2>1, ChildSignalled
<1> QED
  BY <1>1, <1>3, <1>4 DEF Next, ChatLoads, toolVars

\* No call ends with its child running and unsignalled.
THEOREM ChildrenAreSignalled == ToolsSpec => []NoChildLeftRunning
<1>1. Init => SignalInv
  BY DEF Init, ChildInit, SignalInv, SignalOK, ChildTypeOK, Child, Stage, Why, NoChild
<1>2. SignalInv => NoChildLeftRunning
  BY DEF SignalInv, SignalOK, NoChildLeftRunning
<1> QED
  BY <1>1, <1>2, SignalStep, PTL DEF ToolsSpec

(***************************************************************************)
(* The registries                                                          *)
(***************************************************************************)
\* The first registry holds the tools of the servers connected so far; a
\* connection is under way only while the hub connects, one at a time and in
\* the registry being built.
OpenServers == {s \in Server : provider[1][s] = "open"}

RegistryInv ==
  /\ registry[1] = Builtin \cup UNION {Provides[s] : s \in OpenServers}
  /\ hub = "connecting" =>
       /\ building = 1 => \A s \in Server : provider[2][s] = "new"
       /\ building = 2 => OpenServers = Server
  /\ hub = "up" => OpenServers = Server
  /\ hub # "connecting" => \A b \in 1..2, s \in Server : provider[b][s] # "entered"

LEMMA RegistryStep == ToolsTypeOK /\ RegistryInv /\ [Next]_toolVars => RegistryInv'
<1> SUFFICES ASSUME ToolsTypeOK, RegistryInv, [Next]_toolVars PROVE RegistryInv'
  OBVIOUS
<1>0. /\ registry \in [1..2 -> SUBSET Tool] /\ building \in 1..2
      /\ provider \in [1..2 -> [Server -> Connection]]
  BY DEF ToolsTypeOK
<1>1. CASE UNCHANGED Boot
  BY <1>1 DEF Boot, RegistryInv, OpenServers
<1>2. ASSUME NEW s \in Server, EnterTransport(s) \/ InitializeSession(s)
      PROVE  RegistryInv'
  <2>1. OpenServers' = OpenServers
    BY <1>0, <1>2 DEF EnterTransport, InitializeSession, OpenServers
  <2> QED
    BY <1>0, <1>2, <2>1 DEF EnterTransport, InitializeSession, Connecting, RegistryInv
<1>3. ASSUME NEW s \in Server, ListTools(s)
      PROVE  RegistryInv'
  <2>1. CASE building = 1
    <3>1. OpenServers' = OpenServers \cup {s}
      BY <1>0, <1>3, <2>1 DEF ListTools, OpenServers
    <3>2. registry'[1] = registry[1] \cup Provides[s]
      BY <1>0, <1>3, <2>1 DEF ListTools
    <3>3. registry'[1] = Builtin \cup UNION {Provides[q] : q \in OpenServers'}
      BY <3>1, <3>2 DEF RegistryInv
    <3> QED
      BY <1>0, <1>3, <2>1, <3>3 DEF ListTools, Connecting, RegistryInv
  <2>2. CASE building = 2
    <3>1. OpenServers' = OpenServers /\ registry'[1] = registry[1]
      BY <1>0, <1>3, <2>2 DEF ListTools, OpenServers
    <3> QED
      BY <1>0, <1>3, <2>2, <3>1 DEF ListTools, Connecting, RegistryInv
  <2> QED
    BY <1>0, <2>1, <2>2
<1>4. ASSUME NEW s \in Server, ConnectFails(s)
      PROVE  RegistryInv'
  <2>1. OpenServers' = OpenServers
    BY <1>0, <1>4 DEF ConnectFails, ClosedQuietly, OpenServers
  <2>2. ASSUME NEW b \in 1..2, NEW q \in Server
        PROVE  provider'[b][q] # "entered"
    <3>1. CASE b = building
      BY <1>0, <1>4, <3>1 DEF ConnectFails, ClosedQuietly, Connecting
    <3>2. CASE b # building
      BY <1>0, <1>4, <3>2 DEF ConnectFails, Connecting, RegistryInv, OpenServers
    <3> QED
      BY <3>1, <3>2
  <2> QED
    BY <1>4, <2>1, <2>2 DEF ConnectFails, RegistryInv
<1>5. CASE SecondRegistry \/ StartServing
  BY <1>0, <1>5 DEF SecondRegistry, StartServing, AllOpen, RegistryInv, OpenServers
<1>6. CASE HubDies
  BY <1>6 DEF HubDies, RegistryInv, OpenServers
<1>7. CASE HubRestarts
  BY <1>7 DEF HubRestarts, RegistryInv, OpenServers, NoRegistries, NotConnected
<1>8. ASSUME NEW c \in Conv, Converse(c)
      PROVE  UNCHANGED Boot
  BY <1>8 DEF Converse, Preload, ModelLoads, ModelCalls, Pause, StartRun, Approve, Deny,
     ShellEnds, ToolEnds, RunEnds, ChildRuns, Boot
<1> QED
  BY <1>1, <1>2, <1>3, <1>4, <1>5, <1>6, <1>7, <1>8
  DEF Next, HubBoots, ChatLoads, toolVars, Boot

\* A hub that serves has every server's tools, and none that does not connect
\* holds a transport without a session.
THEOREM RegistriesAreComplete == ToolsSpec => []RegistryIsComplete
<1>1. Init => RegistryInv
  BY DEF Init, RegistryInv, OpenServers, NoRegistries, NotConnected
<1>2. RegistryInv => RegistryIsComplete
  BY DEF RegistryInv, OpenServers, RegistryIsComplete
<1> QED
  BY <1>1, <1>2, RegistryStep, ToolsTypeCorrect, PTL DEF ToolsSpec

=============================================================================
