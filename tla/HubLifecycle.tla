---------------------------- MODULE HubLifecycle ----------------------------
(***************************************************************************)
(* The processes that run, start and stop a hub on one POSIX machine:      *)
(* `fin serve` (hub/pidfile.py, cli/main.py), `ensure_server_running` and  *)
(* `stop_server` (cli/server.py), over the PID file, its lock file and the *)
(* port they share.                                                        *)
(*                                                                         *)
(* A hub instance is named by its process id.  A lock file is named by the *)
(* process that created it, so that a file removed and created again is    *)
(* another file: a lock is held on the file, not on its name.              *)
(***************************************************************************)
EXTENDS Naturals, FiniteSets

CONSTANTS
  Proc,         \* process ids a hub may run under
  Ensures,      \* calls of ensure_server_running
  Stops,        \* calls of stop_server
  None,         \* no process, no file
  MaxFaults,    \* bound: signals from outside and failures during start-up
  MaxUserHubs,  \* bound: hubs the user starts by hand
  SlowHubs,     \* TRUE: a health check or the start-up wait may give up on a live hub
  PidReuse      \* TRUE: the system may give the id of a dead hub to a stranger

ASSUME NoneAssumption == None \notin Proc
ASSUME CommandsAssumption == Ensures \cap Stops = {}
ASSUME LifecycleBounds == {MaxFaults, MaxUserHubs} \subseteq Nat /\ {SlowHubs, PidReuse} \subseteq BOOLEAN

VARIABLES
  srv,       \* srv[p]: where hub p stands
  spawned,   \* hubs started by ensure_server_running, not by the user
  port,      \* the process that listens on the hub's port
  pidFile,   \* content of hub.pid
  lockFile,  \* the file that is now hub.pid.lock
  holds,     \* holds[p]: the lock file p has locked
  pc,        \* pc[c]: where command c stands
  target,    \* target[c]: the pid a command read, or the child it spawned
  after,     \* after[c]: where a command goes once it has removed the files
  served,    \* observation: hubs that have served ever since stop c began
  victims,   \* observation: strangers that received a signal
  faults     \* faults used

files == <<pidFile, lockFile>>
hub == <<srv, spawned, port, holds>>
command == <<pc, target, after>>
lifeVars == <<srv, spawned, port, pidFile, lockFile, holds, pc, target, after,
              served, victims, faults>>

Command == Ensures \cup Stops

Starting == {"starting", "bound", "locked", "written", "armed"}
Exiting == {"exiting", "unlocked", "unpidded"}
Live == Starting \cup {"serving", "told", "draining"} \cup Exiting
ServerPlace == {"unborn"} \cup Live \cup {"zombie", "gone", "stranger"}

EnsurePlace == {"idle", "check", "read", "probe", "unlink_pid", "unlink_lock", "spawn",
                "waiting", "terminate", "grace", "connected", "failed"}
StopPlace == {"idle", "read", "probe", "signal", "await", "force", "unlink_pid",
              "unlink_lock", "none", "stopped"}

\* A process that has its socket, its lock, and a PID file of its own to expect.
Bound == {"bound", "locked", "written", "armed", "serving", "told"}
Locked == {"locked", "written", "armed", "serving", "told", "draining", "exiting"}
Announced == {"written", "armed", "serving", "told"}

\* /health answers while uvicorn's main loop runs.
Healthy == \E p \in Proc : srv[p] \in {"serving", "told"}

\* os.kill(pid, 0): a zombie and a stranger count as running.
PidIsRunning(p) == srv[p] \in Live \cup {"zombie", "stranger"}

(***************************************************************************)
(* Steps of one process, and what the system does when it dies             *)
(***************************************************************************)
Move(p, place) ==
  /\ srv' = [srv EXCEPT ![p] = place]
  /\ served' = [c \in Command |-> IF place = "serving" THEN served[c] ELSE served[c] \ {p}]

ClosePort(p) == port' = IF port = p THEN None ELSE port

\* The kernel closes the socket and drops the lock; the files stay.
Die(p) ==
  /\ Move(p, "zombie")
  /\ ClosePort(p)
  /\ holds' = [holds EXCEPT ![p] = None]
  /\ UNCHANGED spawned

\* Delivery of SIGTERM.  Before `acquire` installed its handler it kills; in
\* the application it raises SystemExit; uvicorn notes it; in the atexit
\* handler the SystemExit abandons the rest of the handler.
Terminate(p) ==
  \/ /\ srv[p] \in {"starting", "bound", "locked", "written"} \cup Exiting
     /\ Die(p)
     /\ UNCHANGED victims
  \/ /\ srv[p] = "armed"
     /\ Move(p, "exiting")
     /\ UNCHANGED <<spawned, port, holds, victims>>
  \/ /\ srv[p] = "serving"
     /\ Move(p, "told")
     /\ UNCHANGED <<spawned, port, holds, victims>>
  \/ /\ srv[p] \in {"told", "draining", "zombie", "unborn", "gone"}
     /\ UNCHANGED <<hub, served, victims>>
  \/ /\ srv[p] = "stranger"
     /\ victims' = victims \cup {p}
     /\ UNCHANGED <<hub, served>>

\* Delivery of SIGKILL.
Kill(p) ==
  \/ /\ srv[p] \in Live
     /\ Die(p)
     /\ UNCHANGED victims
  \/ /\ srv[p] \in {"zombie", "unborn", "gone"}
     /\ UNCHANGED <<hub, served, victims>>
  \/ /\ srv[p] = "stranger"
     /\ victims' = victims \cup {p}
     /\ UNCHANGED <<hub, served>>

LifeInit ==
  /\ srv = [p \in Proc |-> "unborn"]
  /\ spawned = {}
  /\ port = None
  /\ pidFile = None
  /\ lockFile = None
  /\ holds = [p \in Proc |-> None]
  /\ pc = [c \in Command |-> "idle"]
  /\ target = [c \in Command |-> None]
  /\ after = [c \in Command |-> "idle"]
  /\ served = [c \in Command |-> {}]
  /\ victims = {}
  /\ faults = 0

(***************************************************************************)
(* fin serve                                                               *)
(***************************************************************************)
\* The user runs `fin serve`.
UserServes(p) ==
  /\ srv[p] = "unborn"
  /\ Cardinality({q \in Proc \ spawned : srv[q] # "unborn"}) < MaxUserHubs
  /\ Move(p, "starting")
  /\ UNCHANGED <<spawned, port, holds, files, command, victims, faults>>

\* _serve_command takes the port before anything else.
Bind(p) ==
  /\ srv[p] = "starting"
  /\ port = None
  /\ port' = p
  /\ Move(p, "bound")
  /\ UNCHANGED <<spawned, holds, files, command, victims, faults>>

\* EADDRINUSE: the command returns 1 and leaves no trace.
PortInUse(p) ==
  /\ srv[p] = "starting"
  /\ port # None
  /\ Die(p)
  /\ UNCHANGED <<files, command, victims, faults>>

\* The file `FileLock` opens: the present lock file, or a new one.
LockTarget(p) == IF lockFile = None THEN p ELSE lockFile

\* Mutant: a lock file left behind counts as a lock.
LockedElsewhereByName(p) == lockFile # None

LockedElsewhere(p) == \E q \in Proc : holds[q] = LockTarget(p)

\* acquire: take the lock without waiting.
Acquire(p) ==
  /\ srv[p] = "bound"
  /\ ~LockedElsewhere(p)
  /\ lockFile' = LockTarget(p)
  /\ holds' = [holds EXCEPT ![p] = LockTarget(p)]
  /\ Move(p, "locked")
  /\ UNCHANGED <<spawned, port, pidFile, command, victims, faults>>

\* acquire: Timeout, SystemExit(1) before the atexit handler is registered.
AcquireRefused(p) ==
  /\ srv[p] = "bound"
  /\ LockedElsewhere(p)
  /\ Die(p)
  /\ UNCHANGED <<files, command, victims, faults>>

\* Mutant: a PID file that is there already is kept.
WritePidOnce(p) ==
  /\ srv[p] = "locked"
  /\ pidFile' = IF pidFile = None THEN p ELSE pidFile
  /\ Move(p, "written")
  /\ UNCHANGED <<spawned, port, holds, lockFile, command, victims, faults>>

WritePid(p) ==
  /\ srv[p] = "locked"
  /\ pidFile' = p
  /\ Move(p, "written")
  /\ UNCHANGED <<spawned, port, holds, lockFile, command, victims, faults>>

\* atexit.register and signal.signal
InstallHandlers(p) ==
  /\ srv[p] = "written"
  /\ Move(p, "armed")
  /\ UNCHANGED <<spawned, port, holds, files, command, victims, faults>>

\* The application is built and uvicorn runs it.
Serve(p) ==
  /\ srv[p] = "armed"
  /\ Move(p, "serving")
  /\ UNCHANGED <<spawned, port, holds, files, command, victims, faults>>

\* Building the application, or its lifespan, raises: the atexit handler runs.
StartFails(p) ==
  /\ srv[p] = "armed"
  /\ faults < MaxFaults
  /\ faults' = faults + 1
  /\ Move(p, "exiting")
  /\ UNCHANGED <<spawned, port, holds, files, command, victims>>

\* uvicorn closes its socket and then waits for open connections.
CloseSockets(p) ==
  /\ srv[p] = "told"
  /\ ClosePort(p)
  /\ Move(p, "draining")
  /\ UNCHANGED <<spawned, holds, files, command, victims, faults>>

\* The last connection is closed; uvicorn raises the signal again.
Drained(p) ==
  /\ srv[p] = "draining"
  /\ Move(p, "exiting")
  /\ UNCHANGED <<spawned, port, holds, files, command, victims, faults>>

\* Mutant: release removes the files without releasing the lock.
ReleaseLockKept(p) ==
  /\ srv[p] = "exiting"
  /\ Move(p, "unlocked")
  /\ UNCHANGED <<holds, spawned, port, files, command, victims, faults>>

\* release: the lock ...
ReleaseLock(p) ==
  /\ srv[p] = "exiting"
  /\ holds' = [holds EXCEPT ![p] = None]
  /\ Move(p, "unlocked")
  /\ UNCHANGED <<spawned, port, files, command, victims, faults>>

\* ... the PID file, whoever wrote it ...
ReleasePid(p) ==
  /\ srv[p] = "unlocked"
  /\ pidFile' = None
  /\ Move(p, "unpidded")
  /\ UNCHANGED <<spawned, port, holds, lockFile, command, victims, faults>>

\* ... and the lock file, whoever created it; then the process ends.
ReleaseLockFile(p) ==
  /\ srv[p] = "unpidded"
  /\ lockFile' = None
  /\ Die(p)
  /\ UNCHANGED <<pidFile, command, victims, faults>>

\* The parent collects a dead process; a waiting ensure_server_running keeps
\* its child as a zombie until it looks.
Reap(p) ==
  /\ srv[p] = "zombie"
  /\ ~\E e \in Ensures : target[e] = p /\ pc[e] \in {"waiting", "terminate", "grace"}
  /\ Move(p, "gone")
  /\ UNCHANGED <<spawned, port, holds, files, command, victims, faults>>

\* The system gives the process id to a program that is no hub.
Reuse(p) ==
  /\ PidReuse
  /\ srv[p] = "gone"
  /\ Move(p, "stranger")
  /\ UNCHANGED <<spawned, port, holds, files, command, victims, faults>>

\* A signal from outside: Ctrl-C, logout, the OOM killer.
Signalled(p) ==
  /\ srv[p] \in Live
  /\ faults < MaxFaults
  /\ faults' = faults + 1
  /\ Terminate(p) \/ Kill(p)
  /\ UNCHANGED <<files, command>>

(***************************************************************************)
(* Steps of the commands                                                   *)
(***************************************************************************)
Goto(c, place) == pc' = [pc EXCEPT ![c] = place]

\* Removal of the two files, on the way to `next`.
CleanUpThen(c, next) ==
  /\ Goto(c, "unlink_pid")
  /\ after' = [after EXCEPT ![c] = next]

\* _cleanup_pid_files
UnlinkPid(c) ==
  /\ pc[c] = "unlink_pid"
  /\ pidFile' = None
  /\ Goto(c, "unlink_lock")
  /\ UNCHANGED <<hub, lockFile, target, after, served, victims, faults>>

UnlinkLock(c) ==
  /\ pc[c] = "unlink_lock"
  /\ lockFile' = None
  /\ Goto(c, after[c])
  /\ UNCHANGED <<hub, pidFile, target, after, served, victims, faults>>

(***************************************************************************)
(* ensure_server_running                                                   *)
(***************************************************************************)
BeginEnsure(e) ==
  /\ pc[e] = "idle"
  /\ Goto(e, "check")
  /\ UNCHANGED <<hub, files, target, after, served, victims, faults>>

\* _check_health before anything is done, and in _wait_for_health.
SeeHealthy(e) ==
  /\ pc[e] \in {"check", "waiting"}
  /\ Healthy
  /\ Goto(e, "connected")
  /\ UNCHANGED <<hub, files, target, after, served, victims, faults>>

\* No answer within two seconds.
SeeUnhealthy(e) ==
  /\ pc[e] = "check"
  /\ SlowHubs \/ ~Healthy
  /\ Goto(e, "read")
  /\ UNCHANGED <<hub, files, target, after, served, victims, faults>>

ReadStalePid(e) ==
  /\ pc[e] = "read"
  /\ target' = [target EXCEPT ![e] = pidFile]
  /\ Goto(e, IF pidFile = None THEN "spawn" ELSE "probe")
  /\ UNCHANGED <<hub, files, after, served, victims, faults>>

ProbeStalePid(e) ==
  /\ pc[e] = "probe"
  /\ \/ /\ PidIsRunning(target[e])
        /\ Goto(e, "spawn")
        /\ UNCHANGED after
     \/ /\ ~PidIsRunning(target[e])
        /\ CleanUpThen(e, "spawn")
  /\ UNCHANGED <<hub, files, target, served, victims, faults>>

\* _spawn_serve
Spawn(e) ==
  /\ pc[e] = "spawn"
  /\ \E p \in Proc :
       /\ srv[p] = "unborn"
       /\ Move(p, "starting")
       /\ spawned' = spawned \cup {p}
       /\ target' = [target EXCEPT ![e] = p]
  /\ Goto(e, "waiting")
  /\ UNCHANGED <<port, holds, files, after, victims, faults>>

\* Popen raises OSError: no child, no clean-up.
SpawnFails(e) ==
  /\ pc[e] = "spawn"
  /\ faults < MaxFaults
  /\ faults' = faults + 1
  /\ Goto(e, "failed")
  /\ UNCHANGED <<hub, files, target, after, served, victims>>

\* _wait_for_health gives up.
HealthDeadline(e) ==
  /\ pc[e] = "waiting"
  /\ SlowHubs \/ \A p \in Proc : srv[p] \notin Starting \cup {"serving", "told"}
  /\ Goto(e, "terminate")
  /\ UNCHANGED <<hub, files, target, after, served, victims, faults>>

\* _kill_and_cleanup: the child is sent SIGTERM ...
TerminateChild(e) ==
  /\ pc[e] = "terminate"
  /\ Terminate(target[e])
  /\ Goto(e, "grace")
  /\ UNCHANGED <<files, target, after, faults>>

\* ... and exits, or is killed after two seconds.
ChildGone(e) ==
  /\ pc[e] = "grace"
  /\ \/ /\ srv[target[e]] = "zombie"
        /\ UNCHANGED <<hub, served, victims>>
     \/ Kill(target[e])
  /\ CleanUpThen(e, "failed")
  /\ UNCHANGED <<files, target, faults>>

(***************************************************************************)
(* stop_server                                                             *)
(***************************************************************************)
BeginStop(s) ==
  /\ pc[s] = "idle"
  /\ Goto(s, "read")
  /\ served' = [served EXCEPT ![s] = {p \in Proc : srv[p] = "serving"}]
  /\ UNCHANGED <<hub, files, target, after, victims, faults>>

\* Processes whose command line is that of _spawn_serve.
Scanned == {p \in spawned : srv[p] \in Live}

\* Mutant: no scan of /proc when the PID file is missing.
PidCandidatesFileOnly == {pidFile}

\* _read_pid, and _find_server_pid when that finds nothing.
PidCandidates ==
  IF pidFile # None THEN {pidFile} ELSE IF Scanned # {} THEN Scanned ELSE {None}

ReadPid(s) ==
  /\ pc[s] = "read"
  /\ \E p \in PidCandidates :
       /\ target' = [target EXCEPT ![s] = p]
       /\ Goto(s, IF p = None THEN "none" ELSE "probe")
  /\ UNCHANGED <<hub, files, after, served, victims, faults>>

ProbePid(s) ==
  /\ pc[s] = "probe"
  /\ \/ /\ PidIsRunning(target[s])
        /\ Goto(s, "signal")
        /\ UNCHANGED after
     \/ /\ ~PidIsRunning(target[s])
        /\ CleanUpThen(s, "none")
  /\ UNCHANGED <<hub, files, target, served, victims, faults>>

\* os.kill(pid, SIGTERM), or ProcessLookupError
SendTerm(s) ==
  /\ pc[s] = "signal"
  /\ Terminate(target[s])
  /\ \/ /\ PidIsRunning(target[s])
        /\ Goto(s, "await")
        /\ UNCHANGED after
     \/ /\ ~PidIsRunning(target[s])
        /\ CleanUpThen(s, "none")
  /\ UNCHANGED <<files, target, faults>>

SeeExit(s) ==
  /\ pc[s] = "await"
  /\ ~PidIsRunning(target[s])
  /\ CleanUpThen(s, "stopped")
  /\ UNCHANGED <<hub, files, target, served, victims, faults>>

\* Mutant: instead of escalating, SIGTERM is sent again and the wait goes on.
StopTimeoutRetry(s) ==
  /\ pc[s] = "await"
  /\ Terminate(target[s])
  /\ UNCHANGED <<pc, files, target, after, faults>>

StopTimeout(s) ==
  /\ pc[s] = "await"
  /\ Goto(s, "force")
  /\ UNCHANGED <<hub, files, target, after, served, victims, faults>>

\* Mutant: the escalation sends SIGTERM once more.
ForceKillGently(s) ==
  /\ pc[s] = "force"
  /\ Terminate(target[s])
  /\ CleanUpThen(s, "stopped")
  /\ UNCHANGED <<files, target, faults>>

\* _force_kill; a process already gone makes no difference.
ForceKill(s) ==
  /\ pc[s] = "force"
  /\ Kill(target[s])
  /\ CleanUpThen(s, "stopped")
  /\ UNCHANGED <<files, target, faults>>

(***************************************************************************)
(* The system                                                              *)
(***************************************************************************)
HubRuns(p) ==
  \/ Bind(p) \/ PortInUse(p) \/ Acquire(p) \/ AcquireRefused(p)
  \/ WritePid(p) \/ InstallHandlers(p) \/ Serve(p)
  \/ CloseSockets(p) \/ ReleaseLock(p) \/ ReleasePid(p) \/ ReleaseLockFile(p)

Environment(p) ==
  \/ UserServes(p) \/ StartFails(p) \/ Drained(p)
  \/ Reap(p) \/ Reuse(p) \/ Signalled(p)

EnsureRuns(e) ==
  \/ SeeHealthy(e) \/ SeeUnhealthy(e) \/ ReadStalePid(e) \/ ProbeStalePid(e)
  \/ Spawn(e) \/ HealthDeadline(e) \/ TerminateChild(e) \/ ChildGone(e)
  \/ UnlinkPid(e) \/ UnlinkLock(e)

StopRuns(s) ==
  \/ ReadPid(s) \/ ProbePid(s) \/ SendTerm(s) \/ SeeExit(s) \/ StopTimeout(s)
  \/ ForceKill(s) \/ UnlinkPid(s) \/ UnlinkLock(s)

LifeNext ==
  \/ \E p \in Proc : HubRuns(p) \/ Environment(p)
  \/ \E e \in Ensures : BeginEnsure(e) \/ SpawnFails(e) \/ EnsureRuns(e)
  \/ \E s \in Stops : BeginStop(s) \/ StopRuns(s)

\* A process that can take a step takes it; nothing is assumed of users,
\* open connections, parents or failures.
LifeFairness ==
  /\ \A p \in Proc : WF_lifeVars(HubRuns(p))
  /\ \A e \in Ensures : WF_lifeVars(EnsureRuns(e))
  /\ \A s \in Stops : WF_lifeVars(StopRuns(s))

LifeSafety == LifeInit /\ [][LifeNext]_lifeVars
LifeSpec == LifeSafety /\ LifeFairness

(***************************************************************************)
(* Properties                                                              *)
(***************************************************************************)
\* Every variable has its type; the port and the lock belong to a process at
\* a place where the code has them (_serve_command, acquire, release).
LifeTypeOK ==
  /\ srv \in [Proc -> ServerPlace]
  /\ spawned \subseteq Proc
  /\ {port, pidFile, lockFile} \subseteq Proc \cup {None}
  /\ holds \in [Proc -> Proc \cup {None}]
  /\ pc \in [Command -> EnsurePlace \cup StopPlace]
  /\ target \in [Command -> Proc \cup {None}]
  /\ after \in [Command -> {"idle", "spawn", "failed", "none", "stopped"}]
  /\ served \in [Command -> SUBSET Proc]
  /\ victims \subseteq Proc
  /\ faults \in 0 .. MaxFaults
  /\ \A p \in Proc :
       /\ srv[p] \in Bound => port = p
       /\ holds[p] # None <=> srv[p] \in Locked

\* While a hub runs, hub.pid names it or nothing, whatever crashed before,
\* whoever else starts, stops or cleans up (acquire, release,
\* _cleanup_pid_files): `fin stop` never signals the wrong process instead.
PidFileNeverMisleads ==
  \A p \in Proc : srv[p] \in Announced => pidFile \in {p, None}

\* When stop_server has returned True the process it chose is gone, even if it
\* does not obey SIGTERM.
StoppedIsDead ==
  \A s \in Stops : pc[s] = "stopped" => srv[target[s]] \notin Live

\* If a hub that fin started serves from before a `fin stop` to after its end,
\* whatever became of the PID file, the stop had chosen another hub process
\* that fin was starting at the time: it never gives up, nor stops a stranger
\* or a hub of the user, past a hub it could see (stop_server with its fallback
\* to _find_server_pid).
StopMissesOnlyForRival ==
  \A s \in Stops : pc[s] \in {"none", "stopped"} =>
    \A p \in served[s] \cap spawned : target[s] \in spawned \ {p}

\* stop_server always ends, also if the hub never does.
StopsEnd ==
  \A s \in Stops : pc[s] = "read" ~> pc[s] \in {"none", "stopped"}

\* Nothing is going down, and nothing will any more.
Calm ==
  /\ faults = MaxFaults
  /\ \A p \in Proc : srv[p] \notin {"told", "draining"} \cup Exiting
  /\ \A s \in Stops : pc[s] \in {"none", "stopped"}

\* Whatever files a dead hub left behind, ensure_server_running gets a hub
\* once it begins in calm, alone or racing with others that start one.
StartsAfterCrash ==
  \A e \in Ensures : (pc[e] = "check" /\ Calm) ~> pc[e] = "connected"

\* "Raises SystemExit if another server already holds the lock" (pidfile.py,
\* acquire): no two processes hold the lock of one PID file.
OneHolder ==
  \A p, q \in Proc : holds[p] # None /\ holds[q] # None => p = q

\* "clients detect the stale state by attempting a non-blocking lock probe"
\* (pidfile.py): no process that is not a hub receives a signal.
NoBystanderSignalled == victims = {}

\* "Find a running fin-assist serve process listening on port" (cli/server.py,
\* _find_server_pid): a stop that found no process left no hub serving,
\* whoever started it.
StopFindsHubs ==
  \A s \in Stops : pc[s] = "none" /\ target[s] = None => served[s] = {}
=============================================================================
