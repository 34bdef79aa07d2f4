----------------------------- MODULE ToolChild ------------------------------
(***************************************************************************)
(* The child process of a command-line tool (_run_shell, _scoped_cli and   *)
(* _terminate_and_wait, agents/tools.py) and the coroutine that waits for  *)
(* it: 30 seconds for its output, then SIGTERM, 2 seconds, SIGKILL, 1      *)
(* second.  At most one such call runs in a conversation.                  *)
(***************************************************************************)
CONSTANT Conv  \* conversations

VARIABLES
  child,  \* the child of the conversation's latest call
  stage,  \* where the coroutine waits
  why     \* how the call ended, or why it is being cut short

childVars == <<child, stage, why>>

Stage == {"none", "communicate", "terminate", "kill"}
Why   == {"none", "output", "error", "timeout", "cancelled"}
Child == [alive : BOOLEAN, piped : BOOLEAN, signal : {"none", "term", "kill"}]

NoChild  == [alive |-> FALSE, piped |-> FALSE, signal |-> "none"]
NewChild == [alive |-> TRUE, piped |-> TRUE, signal |-> "none"]

ChildTypeOK ==
  /\ child \in [Conv -> Child]
  /\ stage \in [Conv -> Stage]
  /\ why \in [Conv -> Why]

ChildInit ==
  /\ child = [c \in Conv |-> NoChild]
  /\ stage = [c \in Conv |-> "none"]
  /\ why = [c \in Conv |-> "none"]

Ends(c, reason) ==
  /\ stage' = [stage EXCEPT ![c] = "none"]
  /\ why' = [why EXCEPT ![c] = reason]

Spawn(c) ==
  /\ stage[c] = "none"
  /\ child' = [child EXCEPT ![c] = NewChild]
  /\ stage' = [stage EXCEPT ![c] = "communicate"]
  /\ why' = [why EXCEPT ![c] = "none"]

SpawnFails(c) ==
  /\ stage[c] = "none"
  /\ child' = [child EXCEPT ![c] = NoChild]
  /\ Ends(c, "error")

\* The shell exits when it likes; a process it started may keep the pipes.
ChildExits(c) ==
  /\ child[c].alive
  /\ \E piped \in BOOLEAN :
       child' = [child EXCEPT ![c].alive = FALSE, ![c].piped = piped]
  /\ UNCHANGED <<stage, why>>

PipesClose(c) ==
  /\ ~child[c].alive /\ child[c].piped
  /\ child' = [child EXCEPT ![c].piped = FALSE]
  /\ UNCHANGED <<stage, why>>

\* communicate() returns: the pipes are at their end and the child has exited.
Communicated(c) ==
  /\ stage[c] = "communicate"
  /\ ~child[c].alive /\ ~child[c].piped
  /\ Ends(c, "output")
  /\ UNCHANGED child

\* Mutant: the call is cut short without a signal to the child.
TerminateUnsignalled(c, reason) == Ends(c, reason) /\ UNCHANGED child

\* _terminate_and_wait up to its first await.
Terminate(c, reason) ==
  IF ~child[c].alive
    THEN Ends(c, reason) /\ UNCHANGED child
    ELSE /\ child' = [child EXCEPT ![c].signal = "term"]
         /\ stage' = [stage EXCEPT ![c] = "terminate"]
         /\ why' = [why EXCEPT ![c] = reason]

Timeout(c)   == stage[c] = "communicate" /\ Terminate(c, "timeout")
IoError(c)   == stage[c] = "communicate" /\ Terminate(c, "error")
Cancelled(c) == stage[c] = "communicate" /\ Terminate(c, "cancelled")

Waited(c) ==
  /\ stage[c] \in {"terminate", "kill"}
  /\ ~child[c].alive
  /\ Ends(c, why[c])
  /\ UNCHANGED child

TerminateDeadline(c) ==
  /\ stage[c] = "terminate"
  /\ child[c].alive
  /\ child' = [child EXCEPT ![c].signal = "kill"]
  /\ stage' = [stage EXCEPT ![c] = "kill"]
  /\ UNCHANGED why

\* Mutant: after SIGKILL the coroutine waits until the child is gone.
KillDeadlineNone(c) == FALSE /\ UNCHANGED childVars

\* A child that does not die at once of SIGKILL is left to the kernel.
KillDeadline(c) ==
  /\ stage[c] = "kill"
  /\ Ends(c, why[c])
  /\ UNCHANGED child

\* A cancellation while the coroutine waits inside _terminate_and_wait is not
\* caught there.
CancelledAgain(c) ==
  /\ stage[c] \in {"terminate", "kill"}
  /\ Ends(c, "cancelled")
  /\ UNCHANGED child

Forget(c) ==
  /\ child' = [child EXCEPT ![c] = NoChild]
  /\ stage' = [stage EXCEPT ![c] = "none"]
  /\ why' = [why EXCEPT ![c] = "none"]

\* What bounds a call: its timers, and the event loop that resumes it.
Deadlines(c) ==
  Communicated(c) \/ Timeout(c) \/ Waited(c) \/ TerminateDeadline(c) \/ KillDeadline(c)

ChildSteps(c) ==
  \/ ChildExits(c) \/ PipesClose(c)
  \/ IoError(c) \/ Cancelled(c) \/ CancelledAgain(c)
  \/ Deadlines(c)

=============================================================================
