------------------------ MODULE HubLifecycleProofs ------------------------
(***************************************************************************)
(* Theorems about HubLifecycle, for every set of processes and commands.   *)
(***************************************************************************)
EXTENDS HubLifecycle, TLAPS

(***************************************************************************)
(* Type correctness                                                        *)
(***************************************************************************)
\* The part of LifeTypeOK about processes, which signals and deaths change.
HubOK ==
  /\ srv \in [Proc -> ServerPlace]
  /\ spawned \subseteq Proc
  /\ port \in Proc \cup {None}
  /\ holds \in [Proc -> Proc \cup {None}]
  /\ served \in [Command -> SUBSET Proc]
  /\ victims \subseteq Proc
  /\ \A p \in Proc : srv[p] \in Bound => port = p
  /\ \A p \in Proc : holds[p] # None <=> srv[p] \in Locked

FilesOK == {pidFile, lockFile} \subseteq Proc \cup {None}

CommandOK ==
  /\ pc \in [Command -> EnsurePlace \cup StopPlace]
  /\ target \in [Command -> Proc \cup {None}]
  /\ after \in [Command -> {"idle", "spawn", "failed", "none", "stopped"}]

\* A command that acts on a process has one to act on.
Aiming == {"probe", "waiting", "terminate", "grace", "signal", "await", "force"}
TargetOK == \A c \in Command : pc[c] \in Aiming => target[c] \in Proc

TypeInv == HubOK /\ FilesOK /\ CommandOK /\ TargetOK /\ faults \in 0 .. MaxFaults

\* A step of one process that leaves its socket and lock as its new place
\* has them keeps the hub part.
LEMMA MoveHub ==
  ASSUME HubOK, NEW p \in Proc, NEW place \in ServerPlace, Move(p, place),
         UNCHANGED <<spawned, port, holds, victims>>,
         place \in Bound => port = p,
         holds[p] # None <=> place \in Locked
  PROVE  HubOK'
BY NoneAssumption DEF HubOK, Move

\* A dead process has neither socket nor lock; the others keep theirs.
LEMMA DieHub ==
  ASSUME HubOK, NEW p \in Proc, Die(p), UNCHANGED victims
  PROVE  HubOK'
BY NoneAssumption DEF HubOK, Die, Move, ClosePort, ServerPlace, Bound, Locked

LEMMA TerminateHub ==
  ASSUME HubOK, NEW p \in Proc, Terminate(p)
  PROVE  HubOK'
<1>1. CASE srv[p] \in {"starting", "bound", "locked", "written"} \cup Exiting
  BY <1>1, DieHub DEF Terminate, Exiting
<1>2. CASE srv[p] = "armed"
  <2>1. Move(p, "exiting") /\ UNCHANGED <<spawned, port, holds, victims>>
    BY <1>2 DEF Terminate, Exiting
  <2> QED
    BY <1>2, <2>1, MoveHub DEF HubOK, ServerPlace, Live, Exiting, Bound, Locked
<1>3. CASE srv[p] = "serving"
  <2>1. Move(p, "told") /\ UNCHANGED <<spawned, port, holds, victims>>
    BY <1>3 DEF Terminate, Exiting
  <2> QED
    BY <1>3, <2>1, MoveHub DEF HubOK, ServerPlace, Live, Exiting, Bound, Locked
<1>4. CASE UNCHANGED <<hub, served, victims>>
  BY <1>4 DEF HubOK, hub
<1>5. CASE victims' = victims \cup {p} /\ UNCHANGED <<hub, served>>
  BY <1>5 DEF HubOK, hub
<1> QED
  BY <1>1, <1>2, <1>3, <1>4, <1>5 DEF Terminate

LEMMA KillHub ==
  ASSUME HubOK, NEW p \in Proc, Kill(p)
  PROVE  HubOK'
<1>1. CASE Die(p) /\ UNCHANGED victims
  BY <1>1, DieHub
<1>2. CASE UNCHANGED <<hub, served, victims>>
  BY <1>2 DEF HubOK, hub
<1>3. CASE victims' = victims \cup {p} /\ UNCHANGED <<hub, served>>
  BY <1>3 DEF HubOK, hub
<1> QED
  BY <1>1, <1>2, <1>3 DEF Kill

LEMMA TypeInit == LifeInit => TypeInv
BY LifecycleBounds DEF LifeInit, TypeInv, HubOK, FilesOK, CommandOK, TargetOK, Aiming, ServerPlace, Bound,
   Locked, EnsurePlace, StopPlace

\* A step of the hub, or of its environment, changes no command.
LEMMA HubTypeStep ==
  ASSUME TypeInv, NEW p \in Proc, HubRuns(p) \/ Environment(p)
  PROVE  TypeInv'
<1> USE DEF TypeInv
<1> DEFINE Rest == UNCHANGED command /\ faults' \in 0 .. MaxFaults
<1>0. ASSUME HubOK', FilesOK', Rest PROVE TypeInv'
  BY <1>0 DEF CommandOK, TargetOK, command
<1>1. CASE UserServes(p)
  BY <1>0, <1>1, MoveHub DEF UserServes, files, FilesOK, HubOK, ServerPlace, Live, Starting, Bound, Locked
<1>2. CASE Bind(p)
  <2>1. HubOK'
    BY <1>2, NoneAssumption DEF Bind, HubOK, Move, ServerPlace, Live, Starting, Bound, Locked
  <2> QED
    BY <1>0, <1>2, <2>1 DEF Bind, files, FilesOK
<1>3. CASE PortInUse(p)
  BY <1>0, <1>3, DieHub DEF PortInUse, files, FilesOK
<1>4. CASE Acquire(p)
  <2>1. LockTarget(p) \in Proc
    BY DEF LockTarget, FilesOK
  <2>2. HubOK'
    BY <1>4, <2>1, NoneAssumption
    DEF Acquire, HubOK, Move, ServerPlace, Live, Starting, Bound, Locked
  <2> QED
    BY <1>0, <1>4, <2>1, <2>2 DEF Acquire, FilesOK
<1>5. CASE AcquireRefused(p)
  BY <1>0, <1>5, DieHub DEF AcquireRefused, files, FilesOK
<1>6. CASE WritePid(p)
  BY <1>0, <1>6, MoveHub DEF WritePid, FilesOK, HubOK, ServerPlace, Live, Starting, Bound, Locked
<1>7. CASE InstallHandlers(p)
  BY <1>0, <1>7, MoveHub
  DEF InstallHandlers, files, FilesOK, HubOK, ServerPlace, Live, Starting, Bound, Locked
<1>8. CASE Serve(p)
  BY <1>0, <1>8, MoveHub DEF Serve, files, FilesOK, HubOK, ServerPlace, Live, Bound, Locked
<1>9. CASE StartFails(p)
  <2>1. HubOK'
    BY <1>9, MoveHub DEF StartFails, HubOK, ServerPlace, Live, Exiting, Bound, Locked
  <2>2. faults' \in 0 .. MaxFaults
    BY <1>9, LifecycleBounds DEF StartFails
  <2> QED
    BY <1>0, <1>9, <2>1, <2>2 DEF StartFails, files, FilesOK
<1>10. CASE CloseSockets(p)
  <2>1. HubOK'
    BY <1>10, NoneAssumption
    DEF CloseSockets, ClosePort, HubOK, Move, ServerPlace, Live, Bound, Locked
  <2> QED
    BY <1>0, <1>10, <2>1 DEF CloseSockets, files, FilesOK
<1>11. CASE Drained(p)
  BY <1>0, <1>11, MoveHub DEF Drained, files, FilesOK, HubOK, ServerPlace, Live, Exiting, Bound, Locked
<1>12. CASE ReleaseLock(p)
  <2>1. HubOK'
    BY <1>12 DEF ReleaseLock, HubOK, Move, ServerPlace, Live, Exiting, Bound, Locked
  <2> QED
    BY <1>0, <1>12, <2>1 DEF ReleaseLock, files, FilesOK
<1>13. CASE ReleasePid(p)
  BY <1>0, <1>13, MoveHub DEF ReleasePid, FilesOK, HubOK, ServerPlace, Live, Exiting, Bound, Locked
<1>14. CASE ReleaseLockFile(p)
  BY <1>0, <1>14, DieHub DEF ReleaseLockFile, FilesOK
<1>15. CASE Reap(p)
  BY <1>0, <1>15, MoveHub DEF Reap, files, FilesOK, HubOK, ServerPlace, Live, Bound, Locked
<1>16. CASE Reuse(p)
  BY <1>0, <1>16, MoveHub DEF Reuse, files, FilesOK, HubOK, ServerPlace, Live, Bound, Locked
<1>17. CASE Signalled(p)
  <2>1. HubOK'
    BY <1>17, TerminateHub, KillHub DEF Signalled
  <2>2. faults' \in 0 .. MaxFaults
    BY <1>17, LifecycleBounds DEF Signalled
  <2> QED
    BY <1>0, <1>17, <2>1, <2>2 DEF Signalled, files, FilesOK
<1> QED
  BY <1>1, <1>2, <1>3, <1>4, <1>5, <1>6, <1>7, <1>8, <1>9, <1>10, <1>11, <1>12, <1>13,
     <1>14, <1>15, <1>16, <1>17 DEF HubRuns, Environment

\* A command that only moves on keeps the type, if it aims at a process.
LEMMA GotoType ==
  ASSUME CommandOK, TargetOK, NEW c \in Command, NEW place \in EnsurePlace \cup StopPlace,
         Goto(c, place), UNCHANGED target,
         after' = after \/ \E next \in {"spawn", "failed", "none", "stopped"} :
                            after' = [after EXCEPT ![c] = next],
         place \in Aiming => target[c] \in Proc
  PROVE  CommandOK' /\ TargetOK'
BY DEF CommandOK, TargetOK, Goto

LEMMA CleanUpType ==
  ASSUME CommandOK, TargetOK, NEW c \in Command,
         NEW next \in {"spawn", "failed", "none", "stopped"},
         CleanUpThen(c, next), UNCHANGED target
  PROVE  CommandOK' /\ TargetOK'
BY GotoType DEF CleanUpThen, Aiming, EnsurePlace, StopPlace

LEMMA UnlinkType ==
  ASSUME TypeInv, NEW c \in Command, UnlinkPid(c) \/ UnlinkLock(c)
  PROVE  TypeInv'
<1> USE DEF TypeInv
<1>1. HubOK' /\ FilesOK' /\ faults' \in 0 .. MaxFaults
  BY DEF UnlinkPid, UnlinkLock, HubOK, FilesOK, hub
<1>2. CommandOK' /\ TargetOK'
  <2>1. CASE UnlinkPid(c)
    BY <2>1, GotoType DEF UnlinkPid, Aiming, EnsurePlace, StopPlace
  <2>2. CASE UnlinkLock(c)
    BY <2>2, GotoType DEF UnlinkLock, Aiming, EnsurePlace, StopPlace, CommandOK
  <2> QED
    BY <2>1, <2>2
<1> QED
  BY <1>1, <1>2

LEMMA EnsureTypeStep ==
  ASSUME TypeInv, NEW e \in Ensures, BeginEnsure(e) \/ SpawnFails(e) \/ EnsureRuns(e)
  PROVE  TypeInv'
<1> USE DEF TypeInv
<1>e. e \in Command
  BY DEF Command
<1>0. ASSUME UNCHANGED <<hub, files, served, victims, faults>>, CommandOK', TargetOK'
      PROVE  TypeInv'
  BY <1>0 DEF HubOK, FilesOK, hub, files
<1>1. CASE BeginEnsure(e)
  BY <1>e, <1>0, <1>1, GotoType DEF BeginEnsure, Aiming, EnsurePlace
<1>2. CASE SpawnFails(e)
  <2>1. CommandOK' /\ TargetOK'
    BY <1>e, <1>2, GotoType DEF SpawnFails, Aiming, EnsurePlace
  <2>2. HubOK' /\ FilesOK' /\ faults' \in 0 .. MaxFaults
    BY <1>2, LifecycleBounds DEF SpawnFails, HubOK, FilesOK, hub, files
  <2> QED
    BY <2>1, <2>2
<1>3. CASE SeeHealthy(e) \/ SeeUnhealthy(e) \/ HealthDeadline(e)
  <2>1. CASE SeeHealthy(e)
    BY <1>e, <1>0, <2>1, GotoType DEF SeeHealthy, Aiming, EnsurePlace
  <2>2. CASE SeeUnhealthy(e)
    BY <1>e, <1>0, <2>2, GotoType DEF SeeUnhealthy, Aiming, EnsurePlace
  <2>3. CASE HealthDeadline(e)
    <3>1. target[e] \in Proc
      BY <1>e, <2>3 DEF HealthDeadline, TargetOK, Aiming
    <3> QED
      BY <1>e, <1>0, <2>3, <3>1, GotoType DEF HealthDeadline, EnsurePlace
  <2> QED
    BY <1>3, <2>1, <2>2, <2>3
<1>4. CASE ReadStalePid(e)
  <2>1. CommandOK' /\ TargetOK'
    BY <1>e, <1>4 DEF ReadStalePid, Goto, CommandOK, TargetOK, FilesOK, Aiming, EnsurePlace
  <2> QED
    BY <1>0, <1>4, <2>1 DEF ReadStalePid
<1>5. CASE ProbeStalePid(e)
  <2>1. CASE Goto(e, "spawn") /\ UNCHANGED after
    BY <1>e, <1>0, <1>5, <2>1, GotoType DEF ProbeStalePid, Aiming, EnsurePlace
  <2>2. CASE CleanUpThen(e, "spawn")
    BY <1>e, <1>0, <1>5, <2>2, CleanUpType DEF ProbeStalePid
  <2> QED
    BY <1>5, <2>1, <2>2 DEF ProbeStalePid
<1>6. CASE Spawn(e)
  <2>1. PICK p \in Proc : /\ srv[p] = "unborn"
                          /\ Move(p, "starting")
                          /\ spawned' = spawned \cup {p}
                          /\ target' = [target EXCEPT ![e] = p]
    BY <1>6 DEF Spawn
  <2>2. HubOK'
    BY <1>6, <2>1 DEF Spawn, HubOK, Move, ServerPlace, Live, Starting, Bound, Locked
  <2>3. CommandOK' /\ TargetOK'
    BY <1>e, <1>6, <2>1 DEF Spawn, Goto, CommandOK, TargetOK, Aiming, EnsurePlace
  <2> QED
    BY <1>6, <2>2, <2>3 DEF Spawn, FilesOK, files
<1>7. CASE TerminateChild(e)
  <2>1. target[e] \in Proc
    BY <1>e, <1>7 DEF TerminateChild, TargetOK, Aiming
  <2>2. HubOK'
    BY <1>7, <2>1, TerminateHub DEF TerminateChild
  <2>3. CommandOK' /\ TargetOK'
    BY <1>e, <1>7, <2>1, GotoType DEF TerminateChild, EnsurePlace
  <2> QED
    BY <1>7, <2>2, <2>3 DEF TerminateChild, FilesOK, files
<1>8. CASE ChildGone(e)
  <2>1. target[e] \in Proc
    BY <1>e, <1>8 DEF ChildGone, TargetOK, Aiming
  <2>2. HubOK'
    <3>1. CASE UNCHANGED <<hub, served, victims>>
      BY <3>1 DEF HubOK, hub
    <3>2. CASE Kill(target[e])
      BY <2>1, <3>2, KillHub
    <3> QED
      BY <1>8, <3>1, <3>2 DEF ChildGone
  <2>3. CommandOK' /\ TargetOK'
    BY <1>e, <1>8, CleanUpType DEF ChildGone
  <2> QED
    BY <1>8, <2>2, <2>3 DEF ChildGone, FilesOK, files
<1>9. CASE UnlinkPid(e) \/ UnlinkLock(e)
  BY <1>e, <1>9, UnlinkType
<1> QED
  BY <1>1, <1>2, <1>3, <1>4, <1>5, <1>6, <1>7, <1>8, <1>9 DEF EnsureRuns

LEMMA StopTypeStep ==
  ASSUME TypeInv, NEW s \in Stops, BeginStop(s) \/ StopRuns(s)
  PROVE  TypeInv'
<1> USE DEF TypeInv
<1>s. s \in Command
  BY DEF Command
<1>0. ASSUME UNCHANGED <<hub, files, served, victims, faults>>, CommandOK', TargetOK'
      PROVE  TypeInv'
  BY <1>0 DEF HubOK, FilesOK, hub, files
<1>1. CASE BeginStop(s)
  <2>1. HubOK'
    BY <1>1 DEF BeginStop, HubOK, hub
  <2>2. CommandOK' /\ TargetOK'
    BY <1>s, <1>1, GotoType DEF BeginStop, Aiming, StopPlace
  <2> QED
    BY <1>1, <2>1, <2>2 DEF BeginStop, FilesOK, files
<1>2. CASE ReadPid(s)
  <2>1. PidCandidates \subseteq Proc \cup {None}
    BY DEF PidCandidates, Scanned, HubOK, FilesOK
  <2>2. PICK p \in PidCandidates : /\ target' = [target EXCEPT ![s] = p]
                                   /\ Goto(s, IF p = None THEN "none" ELSE "probe")
    BY <1>2 DEF ReadPid
  <2>3. CommandOK' /\ TargetOK'
    BY <1>s, <1>2, <2>1, <2>2 DEF ReadPid, Goto, CommandOK, TargetOK, Aiming, StopPlace
  <2> QED
    BY <1>0, <1>2, <2>3 DEF ReadPid
<1>3. CASE ProbePid(s)
  <2>1. CASE Goto(s, "signal") /\ UNCHANGED after
    <3>1. target[s] \in Proc
      BY <1>s, <1>3 DEF ProbePid, TargetOK, Aiming
    <3> QED
      BY <1>s, <1>0, <1>3, <2>1, <3>1, GotoType DEF ProbePid, StopPlace
  <2>2. CASE CleanUpThen(s, "none")
    BY <1>s, <1>0, <1>3, <2>2, CleanUpType DEF ProbePid
  <2> QED
    BY <1>3, <2>1, <2>2 DEF ProbePid
<1>4. CASE SendTerm(s)
  <2>1. target[s] \in Proc
    BY <1>s, <1>4 DEF SendTerm, TargetOK, Aiming
  <2>2. HubOK'
    BY <1>4, <2>1, TerminateHub DEF SendTerm
  <2>3. CASE Goto(s, "await") /\ UNCHANGED after
    <3>1. CommandOK' /\ TargetOK'
      BY <1>s, <1>4, <2>1, <2>3, GotoType DEF SendTerm, StopPlace
    <3> QED
      BY <1>4, <2>2, <3>1 DEF SendTerm, FilesOK, files
  <2>4. CASE CleanUpThen(s, "none")
    <3>1. CommandOK' /\ TargetOK'
      BY <1>s, <1>4, <2>4, CleanUpType DEF SendTerm
    <3> QED
      BY <1>4, <2>2, <3>1 DEF SendTerm, FilesOK, files
  <2> QED
    BY <1>4, <2>3, <2>4 DEF SendTerm
<1>5. CASE SeeExit(s)
  BY <1>s, <1>0, <1>5, CleanUpType DEF SeeExit
<1>6. CASE StopTimeout(s)
  <2>1. target[s] \in Proc
    BY <1>s, <1>6 DEF StopTimeout, TargetOK, Aiming
  <2> QED
    BY <1>s, <1>0, <1>6, <2>1, GotoType DEF StopTimeout, StopPlace
<1>7. CASE ForceKill(s)
  <2>1. target[s] \in Proc
    BY <1>s, <1>7 DEF ForceKill, TargetOK, Aiming
  <2>2. HubOK'
    BY <1>7, <2>1, KillHub DEF ForceKill
  <2>3. CommandOK' /\ TargetOK'
    BY <1>s, <1>7, CleanUpType DEF ForceKill
  <2> QED
    BY <1>7, <2>2, <2>3 DEF ForceKill, FilesOK, files
<1>8. CASE UnlinkPid(s) \/ UnlinkLock(s)
  BY <1>s, <1>8, UnlinkType
<1> QED
  BY <1>1, <1>2, <1>3, <1>4, <1>5, <1>6, <1>7, <1>8 DEF StopRuns

LEMMA TypeStutter == TypeInv /\ UNCHANGED lifeVars => TypeInv'
BY DEF TypeInv, HubOK, FilesOK, CommandOK, TargetOK, lifeVars

LEMMA TypeInvariant == LifeSafety => []TypeInv
<1>1. TypeInv /\ [LifeNext]_lifeVars => TypeInv'
  BY HubTypeStep, EnsureTypeStep, StopTypeStep, TypeStutter DEF LifeNext
<1> QED
  BY TypeInit, <1>1, PTL DEF LifeSafety

\* Every variable of the life cycle keeps its type, and a process has the port
\* and the lock exactly where the code of `fin serve` has them.
THEOREM LifeTypeCorrect == LifeSafety => []LifeTypeOK
<1>1. TypeInv => LifeTypeOK
  BY DEF TypeInv, HubOK, FilesOK, CommandOK, LifeTypeOK
<1> QED
  BY <1>1, TypeInvariant, PTL

(***************************************************************************)
(* What no step does: revive the dead, announce without writing            *)
(***************************************************************************)
Dead == {"zombie", "gone", "stranger"}

\* Where the step takes process q.
Onward(q) ==
  /\ srv[q] # "unborn" => srv'[q] # "unborn"
  /\ srv[q] \in Dead => srv'[q] \in Dead
  /\ srv'[q] \in Announced => srv[q] \in Announced \/ WritePid(q)

AllOnward == \A q \in Proc : Onward(q)

\* What an observed hub is doing.
ServedOK == \A c \in Command : \A p \in served[c] : srv[p] = "serving"

\* Only a stop that begins starts to observe a hub.
Shrinks == \A c \in Command : served'[c] \subseteq served[c]

LEMMA DieOnward ==
  ASSUME TypeInv, ServedOK, NEW p \in Proc, srv[p] # "unborn", Die(p)
  PROVE  AllOnward /\ ServedOK' /\ Shrinks /\ srv'[p] \in Dead
BY DEF Shrinks, TypeInv, HubOK, ServedOK, AllOnward, Onward, Die, Move, Dead, Announced

LEMMA StillOnward ==
  ASSUME ServedOK, UNCHANGED <<srv, served>>
  PROVE  AllOnward /\ ServedOK' /\ Shrinks
BY DEF Shrinks, ServedOK, AllOnward, Onward

LEMMA MoveOnward ==
  ASSUME TypeInv, ServedOK, NEW p \in Proc, NEW place \in ServerPlace \ {"unborn"},
         Move(p, place), place \in Announced => srv[p] \in Announced \/ WritePid(p),
         srv[p] \in Dead => place \in Dead
  PROVE  AllOnward /\ ServedOK' /\ Shrinks
BY DEF Shrinks, TypeInv, HubOK, ServedOK, AllOnward, Onward, Move

LEMMA TerminateOnward ==
  ASSUME TypeInv, ServedOK, NEW p \in Proc, Terminate(p)
  PROVE  AllOnward /\ ServedOK' /\ Shrinks
<1>1. CASE srv[p] \in {"starting", "bound", "locked", "written"} \cup Exiting
  BY <1>1, DieOnward DEF Terminate, Exiting
<1>2. CASE srv[p] = "armed"
  <2>1. Move(p, "exiting")
    BY <1>2 DEF Terminate, Exiting
  <2> QED
    BY <1>2, <2>1, MoveOnward DEF ServerPlace, Live, Exiting, Announced, Dead
<1>3. CASE srv[p] = "serving"
  <2>1. Move(p, "told")
    BY <1>3 DEF Terminate, Exiting
  <2> QED
    BY <1>3, <2>1, MoveOnward DEF ServerPlace, Live, Announced, Dead
<1>4. CASE UNCHANGED <<srv, served>>
  BY <1>4, StillOnward
<1> QED
  BY <1>1, <1>2, <1>3, <1>4 DEF Terminate, hub

\* After SIGKILL a process that was ever born is dead.
LEMMA KillOnward ==
  ASSUME TypeInv, ServedOK, NEW p \in Proc, Kill(p)
  PROVE  AllOnward /\ ServedOK' /\ Shrinks /\ (srv[p] # "unborn" => srv'[p] \in Dead)
<1>1. CASE srv[p] \in Live
  BY <1>1, DieOnward DEF Kill, Live, Starting, Exiting
<1>2. CASE srv[p] \notin Live
  <2>1. UNCHANGED <<srv, served>> /\ srv[p] \in {"zombie", "unborn", "gone", "stranger"}
    BY <1>2 DEF Kill, hub, TypeInv, HubOK, ServerPlace
  <2> QED
    BY <2>1, StillOnward DEF Dead
<1> QED
  BY <1>1, <1>2

LEMMA HubOnward ==
  ASSUME TypeInv, ServedOK, NEW p \in Proc, HubRuns(p) \/ Environment(p)
  PROVE  AllOnward /\ ServedOK' /\ Shrinks
<1> USE DEF ServerPlace, Live, Starting, Exiting, Announced, Dead
<1>1. CASE UserServes(p)
  BY <1>1, MoveOnward DEF UserServes
<1>2. CASE Bind(p)
  BY <1>2, MoveOnward DEF Bind
<1>3. CASE PortInUse(p) \/ AcquireRefused(p) \/ ReleaseLockFile(p)
  BY <1>3, DieOnward DEF PortInUse, AcquireRefused, ReleaseLockFile
<1>4. CASE Acquire(p)
  BY <1>4, MoveOnward DEF Acquire
<1>5. CASE WritePid(p)
  <2>1. Move(p, "written") /\ srv[p] = "locked"
    BY <1>5 DEF WritePid
  <2> QED
    BY <1>5, <2>1, MoveOnward
<1>6. CASE InstallHandlers(p)
  BY <1>6, MoveOnward DEF InstallHandlers
<1>7. CASE Serve(p)
  BY <1>7, MoveOnward DEF Serve
<1>8. CASE StartFails(p)
  BY <1>8, MoveOnward DEF StartFails
<1>9. CASE CloseSockets(p)
  BY <1>9, MoveOnward DEF CloseSockets
<1>10. CASE Drained(p)
  BY <1>10, MoveOnward DEF Drained
<1>11. CASE ReleaseLock(p)
  BY <1>11, MoveOnward DEF ReleaseLock
<1>12. CASE ReleasePid(p)
  BY <1>12, MoveOnward DEF ReleasePid
<1>13. CASE Reap(p)
  BY <1>13, MoveOnward DEF Reap
<1>14. CASE Reuse(p)
  BY <1>14, MoveOnward DEF Reuse
<1>15. CASE Signalled(p)
  BY <1>15, TerminateOnward, KillOnward DEF Signalled
<1> QED
  BY <1>1, <1>2, <1>3, <1>4, <1>5, <1>6, <1>7, <1>8, <1>9, <1>10, <1>11, <1>12, <1>13,
     <1>14, <1>15 DEF HubRuns, Environment

LEMMA EnsureOnward ==
  ASSUME TypeInv, ServedOK, NEW e \in Ensures, BeginEnsure(e) \/ SpawnFails(e) \/ EnsureRuns(e)
  PROVE  AllOnward /\ ServedOK' /\ Shrinks
<1>1. CASE UNCHANGED <<hub, served>>
  BY <1>1, StillOnward DEF hub
<1>2. CASE Spawn(e)
  <2>1. PICK p \in Proc : srv[p] = "unborn" /\ Move(p, "starting")
    BY <1>2 DEF Spawn
  <2> QED
    BY <2>1, MoveOnward DEF ServerPlace, Live, Starting, Announced, Dead
<1>3. CASE TerminateChild(e)
  <2>1. target[e] \in Proc
    BY <1>3 DEF TerminateChild, TypeInv, TargetOK, Aiming, Command
  <2> QED
    BY <1>3, <2>1, TerminateOnward DEF TerminateChild
<1>4. CASE ChildGone(e) /\ Kill(target[e])
  <2>1. target[e] \in Proc
    BY <1>4 DEF ChildGone, TypeInv, TargetOK, Aiming, Command
  <2> QED
    BY <1>4, <2>1, KillOnward
<1> QED
  BY <1>1, <1>2, <1>3, <1>4
  DEF BeginEnsure, SpawnFails, EnsureRuns, SeeHealthy, SeeUnhealthy, ReadStalePid,
      ProbeStalePid, HealthDeadline, ChildGone, UnlinkPid, UnlinkLock

LEMMA StopOnward ==
  ASSUME TypeInv, ServedOK, NEW s \in Stops, BeginStop(s) \/ StopRuns(s)
  PROVE  AllOnward /\ ServedOK' /\ (Shrinks \/ BeginStop(s))
<1>1. CASE UNCHANGED <<hub, served>>
  BY <1>1, StillOnward DEF hub
<1>2. CASE BeginStop(s)
  <2>1. ServedOK'
    BY <1>2 DEF BeginStop, ServedOK, hub, TypeInv, HubOK
  <2>2. AllOnward
    BY <1>2 DEF BeginStop, AllOnward, Onward, hub
  <2> QED
    BY <1>2, <2>1, <2>2
<1>3. CASE SendTerm(s)
  <2>1. target[s] \in Proc
    BY <1>3 DEF SendTerm, TypeInv, TargetOK, Aiming, Command
  <2> QED
    BY <1>3, <2>1, TerminateOnward DEF SendTerm
<1>4. CASE ForceKill(s)
  <2>1. target[s] \in Proc
    BY <1>4 DEF ForceKill, TypeInv, TargetOK, Aiming, Command
  <2> QED
    BY <1>4, <2>1, KillOnward DEF ForceKill
<1> QED
  BY <1>1, <1>2, <1>3, <1>4
  DEF StopRuns, ReadPid, ProbePid, SeeExit, StopTimeout, UnlinkPid, UnlinkLock

LEMMA StepOnward ==
  ASSUME TypeInv, ServedOK, [LifeNext]_lifeVars
  PROVE  AllOnward /\ ServedOK'
<1>1. CASE UNCHANGED lifeVars
  BY <1>1, StillOnward DEF lifeVars
<1> QED
  BY <1>1, HubOnward, EnsureOnward, StopOnward DEF LifeNext

(***************************************************************************)
(* The PID file                                                            *)
(***************************************************************************)
\* Only a hub writes the file; everyone else removes it or leaves it alone.
LEMMA PidFileStep ==
  ASSUME [LifeNext]_lifeVars
  PROVE  pidFile' \in {pidFile, None} \/ \E p \in Proc : WritePid(p)
<1>1. ASSUME NEW p \in Proc, HubRuns(p) \/ Environment(p)
      PROVE  pidFile' \in {pidFile, None} \/ WritePid(p)
  BY <1>1
  DEF HubRuns, Environment, UserServes, Bind, PortInUse, Acquire, AcquireRefused, InstallHandlers,
      Serve, StartFails, CloseSockets, Drained, ReleaseLock, ReleasePid, ReleaseLockFile, Reap,
      Reuse, Signalled, files
<1>2. ASSUME NEW e \in Ensures, BeginEnsure(e) \/ SpawnFails(e) \/ EnsureRuns(e)
      PROVE  pidFile' \in {pidFile, None}
  BY <1>2
  DEF BeginEnsure, SpawnFails, EnsureRuns, SeeHealthy, SeeUnhealthy, ReadStalePid, ProbeStalePid,
      Spawn, HealthDeadline, TerminateChild, ChildGone, UnlinkPid, UnlinkLock, files
<1>3. ASSUME NEW s \in Stops, BeginStop(s) \/ StopRuns(s)
      PROVE  pidFile' \in {pidFile, None}
  BY <1>3
  DEF BeginStop, StopRuns, ReadPid, ProbePid, SendTerm, SeeExit, StopTimeout, ForceKill,
      UnlinkPid, UnlinkLock, files
<1> QED
  BY <1>1, <1>2, <1>3 DEF LifeNext, lifeVars

\* The socket excludes two writers: whoever writes has the port, and so had
\* every announced hub.
LEMMA PidFilePreserved ==
  ASSUME TypeInv, ServedOK, PidFileNeverMisleads, [LifeNext]_lifeVars
  PROVE  PidFileNeverMisleads'
<1>1. AllOnward
  BY StepOnward
<1>2. CASE pidFile' \in {pidFile, None} /\ ~\E p \in Proc : WritePid(p)
  BY <1>1, <1>2 DEF PidFileNeverMisleads, AllOnward, Onward
<1>3. ASSUME NEW p \in Proc, WritePid(p)
      PROVE  PidFileNeverMisleads'
  <2>1. port = p /\ pidFile' = p /\ srv' = [srv EXCEPT ![p] = "written"]
    BY <1>3 DEF WritePid, Move, TypeInv, HubOK, Bound
  <2>2. ASSUME NEW q \in Proc, srv'[q] \in Announced
        PROVE  q = p
    <3>1. CASE q # p
      <4>1. srv[q] \in Bound
        BY <2>1, <2>2, <3>1 DEF TypeInv, HubOK, Announced, Bound
      <4>2. port = q
        BY <4>1 DEF TypeInv, HubOK
      <4> QED
        BY <2>1, <4>2
    <3> QED
      BY <3>1
  <2> QED
    BY <2>1, <2>2 DEF PidFileNeverMisleads
<1> QED
  BY <1>2, <1>3, PidFileStep

PidInv == TypeInv /\ ServedOK /\ PidFileNeverMisleads

LEMMA PidInvariant == LifeSafety => []PidInv
<1>1. LifeInit => PidInv
  BY TypeInit DEF LifeInit, PidInv, ServedOK, PidFileNeverMisleads, Announced
<1>2. TypeInv /\ [LifeNext]_lifeVars => TypeInv'
  BY HubTypeStep, EnsureTypeStep, StopTypeStep, TypeStutter DEF LifeNext
<1>3. PidInv /\ [LifeNext]_lifeVars => PidInv'
  BY <1>2, StepOnward, PidFilePreserved DEF PidInv
<1> QED
  BY <1>1, <1>3, PTL DEF LifeSafety

\* The PID file names the running hub or nothing, however starts, stops,
\* crashes and clean-ups interleave.
THEOREM PidFileTruthful == LifeSafety => []PidFileNeverMisleads
BY PidInvariant, PTL DEF PidInv

(***************************************************************************)
(* stop_server                                                             *)
(***************************************************************************)
\* Every pid found anywhere is that of a process that was started.
BornOK ==
  \A p \in Proc : srv[p] = "unborn" =>
    /\ p \notin spawned
    /\ p # pidFile
    /\ \A c \in Command : target[c] # p

Removing == {"unlink_pid", "unlink_lock"}
Over == {"none", "stopped"}

\* A stop goes on to remove the files only when its process is dead, and
\* past an observed hub of fin it has chosen a hub of fin.
StopOK(s) ==
  /\ pc[s] \in Removing => after[s] \in Over
  /\ pc[s] \in Removing \cup {"stopped"} => target[s] # None
  /\ pc[s] \in Removing \cup Over /\ target[s] # None => srv[target[s]] \in Dead
  /\ pc[s] \notin {"idle", "read"} /\ served[s] \cap spawned # {} => target[s] \in spawned

LifeInv ==
  /\ PidInv
  /\ BornOK
  /\ \A s \in Stops : StopOK(s)

\* Only _spawn_serve adds to the hubs of fin.
LEMMA SpawnedStep ==
  ASSUME [LifeNext]_lifeVars
  PROVE  \/ spawned' = spawned
         \/ \E p \in Proc : /\ srv[p] = "unborn"
                            /\ srv' = [srv EXCEPT ![p] = "starting"]
                            /\ spawned' = spawned \cup {p}
<1> DEFINE Goal == \/ spawned' = spawned
                   \/ \E p \in Proc : /\ srv[p] = "unborn"
                                      /\ srv' = [srv EXCEPT ![p] = "starting"]
                                      /\ spawned' = spawned \cup {p}
<1>1. ASSUME NEW p \in Proc, HubRuns(p) \/ Environment(p)
      PROVE  spawned' = spawned
  BY <1>1
  DEF HubRuns, Environment, UserServes, Bind, PortInUse, Acquire, AcquireRefused, WritePid,
      InstallHandlers, Serve, StartFails, CloseSockets, Drained, ReleaseLock, ReleasePid,
      ReleaseLockFile, Reap, Reuse, Signalled, Terminate, Kill, Die, hub
<1>2. ASSUME NEW e \in Ensures, BeginEnsure(e) \/ SpawnFails(e) \/ EnsureRuns(e)
      PROVE  Goal
  <2>1. CASE Spawn(e)
    BY <2>1 DEF Spawn, Move
  <2>2. CASE ~Spawn(e)
    BY <1>2, <2>2
    DEF BeginEnsure, SpawnFails, EnsureRuns, SeeHealthy, SeeUnhealthy, ReadStalePid,
        ProbeStalePid, HealthDeadline, TerminateChild, ChildGone, UnlinkPid, UnlinkLock,
        Terminate, Kill, Die, hub
  <2> QED
    BY <2>1, <2>2
<1>3. ASSUME NEW s \in Stops, BeginStop(s) \/ StopRuns(s)
      PROVE  spawned' = spawned
  BY <1>3
  DEF BeginStop, StopRuns, ReadPid, ProbePid, SendTerm, SeeExit, StopTimeout, ForceKill,
      UnlinkPid, UnlinkLock, Terminate, Kill, Die, hub
<1> QED
  BY <1>1, <1>2, <1>3 DEF LifeNext, lifeVars

\* A command takes a pid from the file, from a scan, or from its own child.
LEMMA TargetStep ==
  ASSUME TypeInv, [LifeNext]_lifeVars, NEW c \in Command
  PROVE  target'[c] \in {target[c], pidFile, None} \cup spawned'
<1> USE DEF TypeInv, CommandOK
<1>1. ASSUME NEW p \in Proc, HubRuns(p) \/ Environment(p)
      PROVE  target' = target
  BY <1>1
  DEF HubRuns, Environment, UserServes, Bind, PortInUse, Acquire, AcquireRefused, WritePid,
      InstallHandlers, Serve, StartFails, CloseSockets, Drained, ReleaseLock, ReleasePid,
      ReleaseLockFile, Reap, Reuse, Signalled, command
<1>2. ASSUME NEW e \in Ensures, BeginEnsure(e) \/ SpawnFails(e) \/ EnsureRuns(e)
      PROVE  target'[c] \in {target[c], pidFile} \cup spawned'
  <2>1. CASE Spawn(e)
    BY <2>1 DEF Spawn
  <2>2. CASE ReadStalePid(e)
    BY <2>2 DEF ReadStalePid
  <2>3. CASE ~Spawn(e) /\ ~ReadStalePid(e)
    BY <1>2, <2>3
    DEF BeginEnsure, SpawnFails, EnsureRuns, SeeHealthy, SeeUnhealthy, ProbeStalePid,
        HealthDeadline, TerminateChild, ChildGone, UnlinkPid, UnlinkLock
  <2> QED
    BY <2>1, <2>2, <2>3
<1>3. ASSUME NEW s \in Stops, BeginStop(s) \/ StopRuns(s)
      PROVE  target'[c] \in {target[c], pidFile, None} \cup spawned'
  <2>1. CASE ReadPid(s)
    BY <2>1 DEF ReadPid, PidCandidates, Scanned, hub
  <2>2. CASE ~ReadPid(s)
    BY <1>3, <2>2
    DEF BeginStop, StopRuns, ProbePid, SendTerm, SeeExit, StopTimeout, ForceKill,
        UnlinkPid, UnlinkLock
  <2> QED
    BY <2>1, <2>2
<1> QED
  BY <1>1, <1>2, <1>3 DEF LifeNext, lifeVars

LEMMA BornPreserved ==
  ASSUME LifeInv, [LifeNext]_lifeVars
  PROVE  BornOK'
<1>1. SUFFICES ASSUME NEW p \in Proc, srv'[p] = "unborn"
               PROVE  p \notin spawned' /\ p # pidFile' /\ \A c \in Command : target'[c] # p
  BY DEF BornOK
<1>2. AllOnward
  BY StepOnward DEF LifeInv, PidInv
<1>3. srv[p] = "unborn"
  BY <1>1, <1>2 DEF AllOnward, Onward
<1>4. p \notin spawned'
  <2>1. ASSUME NEW q \in Proc, srv' = [srv EXCEPT ![q] = "starting"] PROVE p # q
    BY <1>1, <2>1 DEF LifeInv, PidInv, TypeInv, HubOK
  <2> QED
    BY <1>3, <2>1, SpawnedStep DEF LifeInv, BornOK
<1>5. p # pidFile'
  <2>1. ASSUME NEW q \in Proc, WritePid(q) PROVE pidFile' = q /\ q # p
    BY <1>3, <2>1 DEF WritePid
  <2> QED
    BY <1>3, <2>1, PidFileStep, NoneAssumption DEF LifeInv, BornOK
<1>6. ASSUME NEW c \in Command PROVE target'[c] # p
  BY <1>3, <1>4, TargetStep, NoneAssumption DEF LifeInv, PidInv, BornOK
<1> QED
  BY <1>4, <1>5, <1>6

\* What the steps of everyone else leave of a stop's invariant.
LEMMA ObservedStep ==
  ASSUME LifeInv, [LifeNext]_lifeVars, NEW s \in Stops, served'[s] \subseteq served[s]
  PROVE  /\ served'[s] \cap spawned' \subseteq served[s] \cap spawned
         /\ spawned \subseteq spawned'
<1>1. ServedOK'
  BY StepOnward DEF LifeInv, PidInv
<1>2. ASSUME NEW p \in Proc, srv' = [srv EXCEPT ![p] = "starting"]
      PROVE  p \notin served'[s]
  BY <1>1, <1>2 DEF ServedOK, Command, LifeInv, PidInv, TypeInv, HubOK
<1> QED
  BY <1>2, SpawnedStep

LEMMA StopStill ==
  ASSUME LifeInv, [LifeNext]_lifeVars, NEW s \in Stops, served'[s] \subseteq served[s],
         pc'[s] = pc[s], target'[s] = target[s], after'[s] = after[s]
  PROVE  StopOK(s)'
<1>1. AllOnward
  BY StepOnward DEF LifeInv, PidInv
<1>2. target[s] \in Proc \cup {None}
  BY DEF LifeInv, PidInv, TypeInv, CommandOK, Command
<1> QED
  BY <1>1, <1>2, ObservedStep DEF LifeInv, StopOK, AllOnward, Onward

LEMMA StopOwnStep ==
  ASSUME LifeInv, NEW s \in Stops, StopRuns(s)
  PROVE  StopOK(s)'
<1>1. LifeNext /\ StopOK(s) /\ s \in Command
  BY DEF LifeNext, LifeInv, Command
<1>2. AllOnward /\ served'[s] \subseteq served[s]
  <2>1. pc[s] # "idle"
    BY DEF StopRuns, ReadPid, ProbePid, SendTerm, SeeExit, StopTimeout, ForceKill, UnlinkPid,
           UnlinkLock
  <2> QED
    BY <1>1, <2>1, StopOnward DEF LifeInv, PidInv, Shrinks, BeginStop
<1>3. /\ served'[s] \cap spawned' \subseteq served[s] \cap spawned
      /\ spawned \subseteq spawned'
  BY <1>1, <1>2, ObservedStep
<1>4. /\ pc \in [Command -> EnsurePlace \cup StopPlace]
      /\ target \in [Command -> Proc \cup {None}]
      /\ after \in [Command -> {"idle", "spawn", "failed", "none", "stopped"}]
      /\ srv \in [Proc -> ServerPlace]
  BY DEF LifeInv, PidInv, TypeInv, HubOK, CommandOK
\* A stop moves on to a wait or a signal, with its process as it was.
<1>5. ASSUME NEW place \in {"signal", "await", "force"}, Goto(s, place), UNCHANGED target,
             pc[s] \notin {"idle", "read"}
      PROVE  StopOK(s)'
  BY <1>1, <1>3, <1>4, <1>5 DEF StopOK, Goto, Removing, Over
\* A stop goes on to the removal with a dead process.
<1>6. ASSUME NEW next \in Over, CleanUpThen(s, next), UNCHANGED target,
             pc[s] \in Aiming, srv'[target[s]] \in Dead
      PROVE  StopOK(s)'
  <2>1. target[s] # None
    BY <1>1, <1>6, NoneAssumption DEF LifeInv, PidInv, TypeInv, TargetOK
  <2> QED
    BY <1>1, <1>3, <1>4, <1>6, <2>1 DEF StopOK, CleanUpThen, Goto, Removing, Over, Aiming
<1>7. ASSUME target[s] \in Proc, ~PidIsRunning(target[s])
      PROVE  srv'[target[s]] \in Dead
  <2>1. srv[target[s]] # "unborn"
    BY <1>1, <1>7 DEF LifeInv, BornOK
  <2>2. srv[target[s]] \in Dead
    BY <1>4, <1>7, <2>1 DEF PidIsRunning, ServerPlace, Live, Dead
  <2> QED
    BY <1>2, <1>7, <2>2 DEF AllOnward, Onward
<1>8. pc[s] \in Aiming => target[s] \in Proc
  BY <1>1 DEF LifeInv, PidInv, TypeInv, TargetOK
<1>9. CASE ReadPid(s)
  <2>1. PICK p \in PidCandidates : /\ target' = [target EXCEPT ![s] = p]
                                   /\ Goto(s, IF p = None THEN "none" ELSE "probe")
    BY <1>9 DEF ReadPid
  <2>2. UNCHANGED <<srv, spawned, served, pidFile>>
    BY <1>9 DEF ReadPid, hub, files
  <2>3. target'[s] = p /\ pc'[s] = (IF p = None THEN "none" ELSE "probe")
    BY <1>1, <1>4, <2>1 DEF Goto
  <2>4. ASSUME NEW q \in served[s] \cap spawned PROVE p \in spawned
    <3>1. q \in Proc /\ srv[q] = "serving"
      BY <1>1 DEF LifeInv, PidInv, TypeInv, HubOK, ServedOK
    <3>2. pidFile \in {q, None}
      BY <3>1 DEF LifeInv, PidInv, PidFileNeverMisleads, Announced
    <3>3. q \in Scanned
      BY <3>1 DEF Scanned, Live
    <3> QED
      BY <2>1, <3>2, <3>3 DEF PidCandidates, Scanned
  <2> QED
    BY <2>2, <2>3, <2>4 DEF StopOK, Removing, Over
<1>10. CASE ProbePid(s)
  BY <1>5, <1>6, <1>7, <1>8, <1>10 DEF ProbePid, Aiming, Over
<1>11. CASE SendTerm(s)
  BY <1>5, <1>6, <1>7, <1>8, <1>11 DEF SendTerm, Aiming, Over
<1>12. CASE SeeExit(s)
  BY <1>6, <1>7, <1>8, <1>12 DEF SeeExit, Aiming, Over
<1>13. CASE StopTimeout(s)
  BY <1>5, <1>13 DEF StopTimeout
<1>14. CASE ForceKill(s)
  <2>1. target[s] \in Proc /\ srv[target[s]] # "unborn"
    BY <1>1, <1>8, <1>14 DEF ForceKill, Aiming, LifeInv, BornOK
  <2>2. srv'[target[s]] \in Dead
    BY <1>14, <2>1, KillOnward DEF ForceKill, LifeInv, PidInv
  <2> QED
    BY <1>6, <1>14, <2>2 DEF ForceKill, Aiming, Over
<1>15. CASE UnlinkPid(s)
  BY <1>1, <1>4, <1>15 DEF UnlinkPid, Goto, StopOK, Removing, Over, hub
<1>16. CASE UnlinkLock(s)
  BY <1>1, <1>4, <1>16 DEF UnlinkLock, Goto, StopOK, Removing, Over, hub
<1> QED
  BY <1>9, <1>10, <1>11, <1>12, <1>13, <1>14, <1>15, <1>16 DEF StopRuns

LEMMA StopPreserved ==
  ASSUME LifeInv, [LifeNext]_lifeVars, NEW s \in Stops
  PROVE  StopOK(s)'
<1> USE DEF LifeInv, PidInv, TypeInv, CommandOK
<1>s. s \in Command
  BY DEF Command
<1> DEFINE Still == pc'[s] = pc[s] /\ target'[s] = target[s] /\ after'[s] = after[s]
<1>1. ASSUME NEW p \in Proc, HubRuns(p) \/ Environment(p)
      PROVE  Still /\ served'[s] \subseteq served[s]
  <2>1. UNCHANGED command
    BY <1>1
    DEF HubRuns, Environment, UserServes, Bind, PortInUse, Acquire, AcquireRefused, WritePid,
        InstallHandlers, Serve, StartFails, CloseSockets, Drained, ReleaseLock, ReleasePid,
        ReleaseLockFile, Reap, Reuse, Signalled
  <2> QED
    BY <1>s, <1>1, <2>1, HubOnward DEF command, Shrinks
<1>2. ASSUME NEW e \in Ensures, BeginEnsure(e) \/ SpawnFails(e) \/ EnsureRuns(e)
      PROVE  Still /\ served'[s] \subseteq served[s]
  <2>1. e # s
    BY CommandsAssumption
  <2>2. Still
    BY <1>s, <1>2, <2>1
    DEF BeginEnsure, SpawnFails, EnsureRuns, SeeHealthy, SeeUnhealthy, ReadStalePid,
        ProbeStalePid, Spawn, HealthDeadline, TerminateChild, ChildGone, UnlinkPid, UnlinkLock,
        Goto, CleanUpThen
  <2> QED
    BY <1>s, <1>2, <2>2, EnsureOnward DEF Shrinks
<1>3. ASSUME NEW r \in Stops \ {s}, BeginStop(r) \/ StopRuns(r)
      PROVE  Still /\ served'[s] \subseteq served[s]
  <2>1. Still
    BY <1>s, <1>3
    DEF BeginStop, StopRuns, ReadPid, ProbePid, SendTerm, SeeExit, StopTimeout, ForceKill,
        UnlinkPid, UnlinkLock, Goto, CleanUpThen
  <2>2. CASE BeginStop(r)
    BY <1>s, <1>3, <2>1, <2>2 DEF BeginStop, HubOK
  <2>3. CASE ~BeginStop(r)
    BY <1>s, <1>3, <2>1, <2>3, StopOnward DEF Shrinks
  <2> QED
    BY <2>2, <2>3
<1>4. CASE BeginStop(s)
  <2>1. pc'[s] = "read"
    BY <1>s, <1>4 DEF BeginStop, Goto
  <2> QED
    BY <2>1 DEF StopOK, Removing, Over
<1>5. CASE StopRuns(s)
  BY <1>5, StopOwnStep
<1>6. CASE UNCHANGED lifeVars
  BY <1>6, StopStill DEF lifeVars
<1> QED
  BY <1>1, <1>2, <1>3, <1>4, <1>5, <1>6, StopStill DEF LifeNext

LEMMA LifeInvariant == LifeSafety => []LifeInv
<1>1. LifeInit => LifeInv
  <2>1. LifeInit => PidInv
    BY TypeInit DEF LifeInit, PidInv, ServedOK, PidFileNeverMisleads, Announced
  <2>2. LifeInit => BornOK
    BY NoneAssumption DEF LifeInit, BornOK
  <2>3. LifeInit => \A s \in Stops : StopOK(s)
    BY DEF LifeInit, StopOK, Removing, Over, Command
  <2> QED
    BY <2>1, <2>2, <2>3 DEF LifeInv
<1>2. TypeInv /\ [LifeNext]_lifeVars => TypeInv'
  BY HubTypeStep, EnsureTypeStep, StopTypeStep, TypeStutter DEF LifeNext
<1>3. LifeInv /\ [LifeNext]_lifeVars => LifeInv'
  BY <1>2, StepOnward, PidFilePreserved, BornPreserved, StopPreserved DEF LifeInv, PidInv
<1> QED
  BY <1>1, <1>3, PTL DEF LifeSafety

\* `fin stop` reports success only once the process it chose is dead.
THEOREM StopKills == LifeSafety => []StoppedIsDead
<1>1. LifeInv => StoppedIsDead
  <2>1. ASSUME LifeInv, NEW s \in Stops, pc[s] = "stopped", srv[target[s]] \in Live
        PROVE  FALSE
    <3>1. target[s] # None
      BY <2>1 DEF LifeInv, StopOK
    <3> QED
      BY <2>1, <3>1 DEF LifeInv, StopOK, Removing, Over, Dead, Live, Starting, Exiting
  <2> QED
    BY <2>1 DEF StoppedIsDead
<1> QED
  BY <1>1, LifeInvariant, PTL

\* `fin stop` ends past a hub that fin started only for another such hub.
THEOREM StopFindsHub == LifeSafety => []StopMissesOnlyForRival
<1>1. ASSUME LifeInv, NEW s \in Stops, pc[s] \in Over, NEW p \in served[s] \cap spawned
      PROVE  target[s] \in spawned \ {p}
  <2>1. target[s] \in spawned
    BY <1>1 DEF LifeInv, StopOK, Over
  <2>2. srv[p] = "serving" /\ target[s] # None
    BY <1>1, <2>1, NoneAssumption DEF LifeInv, PidInv, ServedOK, TypeInv, HubOK, Command
  <2>3. srv[target[s]] \in Dead
    BY <1>1, <2>2 DEF LifeInv, StopOK, Over
  <2> QED
    BY <2>1, <2>2, <2>3 DEF Dead
<1>2. LifeInv => StopMissesOnlyForRival
  BY <1>1 DEF StopMissesOnlyForRival, Over
<1> QED
  BY <1>2, LifeInvariant, PTL
=============================================================================
