---------------------------- MODULE HubExecutor ----------------------------
(***************************************************************************)
(* The hub's Executor (hub/executor.py) running tasks on one asyncio event *)
(* loop over the SQLite ContextStore (hub/context_store.py).               *)
(*                                                                         *)
(* One element of Task is one call of Executor.execute, that is, one       *)
(* message sent to the hub.  pc[t] names the await at which the coroutine  *)
(* of t is suspended.  The event loop switches coroutines only there: the  *)
(* store's methods contain no await, so everything from a save up to the   *)
(* next event put on the queue is one uninterrupted stretch, which is cut  *)
(* here into steps only because the hub may crash, or a later statement    *)
(* may raise, in the middle of it.                                         *)
(*                                                                         *)
(* The agent run itself (pydantic-ai and the model provider) is external:  *)
(* it streams chunks, runs approved tools, asks for approvals, finishes or *)
(* raises.  A conversation is abstracted to the set of turns it contains   *)
(* and the tool calls of its last response that still wait for an answer.  *)
(***************************************************************************)
EXTENDS Naturals, Sequences

CONSTANTS
  Task,         \* executions of Executor.execute
  Context,      \* conversation ids
  Call,         \* tool call ids
  NoContext,    \* a request without a context id
  NoTask,       \* "no task" where a task is optional
  MaxChunks,    \* bound: chunks a run streams before its last one
  MaxCrashes,   \* bound: hub crashes
  StoreFaults   \* TRUE iff a statement on the SQLite database may raise

ASSUME NoContextAssumption == NoContext \notin Context
ASSUME NoTaskAssumption == NoTask \notin Task
ASSUME BoundsAssumption ==
  /\ MaxChunks \in Nat
  /\ MaxCrashes \in Nat
  /\ StoreFaults \in BOOLEAN

VARIABLES
  pc,           \* where the coroutine of each task stands
  status,       \* the task's state in the SDK's in-memory task store
  msg,          \* the message each task was started with
  loaded,       \* the history _load_history returned to the task
  userInput,    \* the task whose prompt became this task's user_input
  link,         \* the paused task the resumed task's span links to
  resumed,      \* TRUE iff run_steps received deferred_tool_results
  todo,         \* approved calls the resumed run still has to execute
  deferred,     \* calls the run of the task asked approval for
  surfaced,     \* those of them already sent out as deferred artifacts
  created,      \* TRUE iff the result artifact is in created_artifacts
  chunks,       \* the updates of the result artifact sent so far
  history,      \* SQLite: contexts
  pause,        \* SQLite: trace_contexts
  committed,    \* tasks whose history was written to the store, ever
  announced,    \* tasks reported input_required to their client, ever
  executed,     \* for each call, the tasks that executed it
  crashes       \* crashes so far

runVars  == <<msg, loaded, userInput, link, resumed, deferred>>
outVars  == <<surfaced, created, chunks>>
store    == <<history, pause, committed>>
vars == <<pc, status, runVars, todo, outVars, store, announced, executed,
          crashes>>

-----------------------------------------------------------------------------
Message == [context : Context \cup {NoContext}, answers : Task \cup {NoTask},
            approved : SUBSET Call, denied : SUBSET Call]
History == [by : Task \cup {NoTask}, turns : SUBSET Task, pending : SUBSET Call]
PauseState == [task : Task \cup {NoTask}, userInput : Task \cup {NoTask}]
Chunk   == [append : BOOLEAN, last : BOOLEAN]

NoMessage    == [context |-> NoContext, answers |-> NoTask,
                 approved |-> {}, denied |-> {}]
EmptyHistory == [by |-> NoTask, turns |-> {}, pending |-> {}]
NoPause      == [task |-> NoTask, userInput |-> NoTask]

\* Places inside execute() where other coroutines cannot run.
Uninterrupted == {"history_saved", "pause_saved", "turn_saved"}
\* Places where execute() is suspended at an await.
Suspended == {"arrived", "submitted", "ready", "running", "deferring",
              "closing", "completing"}
InFlight  == Suspended \cup Uninterrupted
Place     == InFlight \cup {"new", "ended", "raised", "dead"}

\* States after which the SDK takes no further event of a task.
Terminal == {"completed", "failed", "canceled"}
Status   == Terminal \cup {"absent", "submitted", "working", "auth_required",
                           "input_required", "lost"}

\* No other coroutine is inside an uninterrupted stretch.
OnLoop(t)    == \A u \in Task \ {t} : pc[u] \notin Uninterrupted
Decisions(t) == msg[t].approved \cup msg[t].denied
ContextOf(t) == msg[t].context

Goto(t, from, to) ==
  /\ OnLoop(t)
  /\ pc[t] = from
  /\ pc' = [pc EXCEPT ![t] = to]

Publish(t, s) ==
  status' = IF status[t] \in Terminal THEN status
                                      ELSE [status EXCEPT ![t] = s]

\* Mutant: created_artifacts is never added to.
EmitChunkForgetful(t, isLast) ==
  /\ chunks' = [chunks EXCEPT ![t] =
                  Append(@, [append |-> created[t], last |-> isLast])]
  /\ UNCHANGED created

\* _emit_artifact: the first update creates the artifact, the rest append.
EmitChunk(t, isLast) ==
  /\ chunks' = [chunks EXCEPT ![t] =
                  Append(@, [append |-> created[t], last |-> isLast])]
  /\ created' = [created EXCEPT ![t] = TRUE]

Init ==
  /\ pc        = [t \in Task |-> "new"]
  /\ status    = [t \in Task |-> "absent"]
  /\ msg       = [t \in Task |-> NoMessage]
  /\ loaded    = [t \in Task |-> EmptyHistory]
  /\ userInput = [t \in Task |-> NoTask]
  /\ link      = [t \in Task |-> NoTask]
  /\ resumed   = [t \in Task |-> FALSE]
  /\ todo      = [t \in Task |-> {}]
  /\ deferred  = [t \in Task |-> {}]
  /\ surfaced  = [t \in Task |-> {}]
  /\ created   = [t \in Task |-> FALSE]
  /\ chunks    = [t \in Task |-> <<>>]
  /\ history   = [c \in Context |-> EmptyHistory]
  /\ pause     = [c \in Context |-> NoPause]
  /\ committed = {}
  /\ announced = {}
  /\ executed  = [k \in Call |-> {}]
  /\ crashes   = 0

-----------------------------------------------------------------------------
(* Messages reaching the hub.                                              *)

Arrive(t, m) ==
  /\ pc[t] = "new"
  /\ pc' = [pc EXCEPT ![t] = "arrived"]
  /\ msg' = [msg EXCEPT ![t] = m]
  /\ UNCHANGED <<status, loaded, userInput, link, resumed, deferred, todo,
                 outVars, store, announced, executed, crashes>>

Prompt(t, c) ==
  Arrive(t, [context |-> c, answers |-> NoTask, approved |-> {}, denied |-> {}])

\* An answer to (some of) the approvals that task u announced.
Answer(t, u, yes, no) ==
  /\ u \in announced
  /\ ContextOf(u) \in Context
  /\ yes \cap no = {}
  /\ yes \cup no # {}
  /\ Arrive(t, [context |-> ContextOf(u), answers |-> u,
                approved |-> yes, denied |-> no])

-----------------------------------------------------------------------------
(* _setup_task                                                             *)

EnqueueTask(t) ==
  /\ Goto(t, "arrived", "submitted")
  /\ Publish(t, "submitted")
  /\ UNCHANGED <<runVars, todo, outVars, store, announced, executed, crashes>>

StartWork(t) ==
  /\ Goto(t, "submitted", "ready")
  /\ Publish(t, "working")
  /\ UNCHANGED <<runVars, todo, outVars, store, announced, executed, crashes>>

RequireAuth(t) ==
  /\ Goto(t, "ready", "ended")
  /\ Publish(t, "auth_required")
  /\ UNCHANGED <<runVars, todo, outVars, store, announced, executed, crashes>>

-----------------------------------------------------------------------------
(* _detect_resume, _load_history and _start_run: one uninterrupted stretch *)

PauseStateOf(t) ==
  IF Decisions(t) # {} /\ ContextOf(t) # NoContext THEN pause[ContextOf(t)]
                                                   ELSE NoPause

\* Mutant: no row is read as a history of one message that nobody sent.
HistoryOfBlank(t) ==
  IF ContextOf(t) # NoContext THEN history[ContextOf(t)]
                              ELSE [EmptyHistory EXCEPT !.turns = {NoTask}]

HistoryOf(t) ==
  IF ContextOf(t) # NoContext THEN history[ContextOf(t)] ELSE EmptyHistory

\* _start_run resumes only when there is a history to resume; otherwise the
\* decisions are dropped and the message runs as a fresh prompt.
Resumes(t) == Decisions(t) # {} /\ HistoryOf(t).turns # {}

\* Mutant: every decision becomes an approval.
GrantedAll(t) == Decisions(t)

\* build_deferred_results: the calls pydantic-ai may execute.
Granted(t) == msg[t].approved

BeginRun(t) ==
  /\ Goto(t, "ready", "running")
  /\ link' = [link EXCEPT ![t] = PauseStateOf(t).task]
  /\ userInput' = [userInput EXCEPT ![t] =
                     IF Decisions(t) = {} THEN t ELSE PauseStateOf(t).userInput]
  /\ loaded' = [loaded EXCEPT ![t] = HistoryOf(t)]
  /\ resumed' = [resumed EXCEPT ![t] = Resumes(t)]
  /\ todo' = [todo EXCEPT ![t] = IF Resumes(t) THEN Granted(t) ELSE {}]
  /\ UNCHANGED <<status, msg, deferred, outVars, store, announced, executed,
                 crashes>>

\* load_pause_state raises: it is called outside the try block.
DetectResumeFails(t) ==
  /\ StoreFaults
  /\ Decisions(t) # {}
  /\ ContextOf(t) # NoContext
  /\ Goto(t, "ready", "raised")
  /\ UNCHANGED <<status, runVars, todo, outVars, store, announced, executed,
                 crashes>>

\* load raises: inside the try block, so the task is failed.
LoadHistoryFails(t) ==
  /\ StoreFaults
  /\ ContextOf(t) # NoContext
  /\ Goto(t, "ready", "raised")
  /\ Publish(t, "failed")
  /\ UNCHANGED <<runVars, todo, outVars, store, announced, executed, crashes>>

-----------------------------------------------------------------------------
(* The agent run, and _consume_events dispatching what it yields.          *)

\* External: pydantic-ai refuses a resumption whose results are not exactly
\* those of the unanswered calls in the last response of the history.
Accepted(t) == resumed[t] => Decisions(t) = loaded[t].pending

\* A text_delta, thinking_delta, tool_call or tool_result of a tool that
\* needs no approval.
StreamChunk(t) ==
  /\ Accepted(t)
  /\ Len(chunks[t]) < MaxChunks
  /\ Goto(t, "running", "running")
  /\ EmitChunk(t, FALSE)
  /\ UNCHANGED <<status, runVars, todo, surfaced, store, announced, executed,
                 crashes>>

\* The resumed run executes a call that the message approved.
ExecuteCall(t, k) ==
  /\ Accepted(t)
  /\ k \in todo[t]
  /\ Goto(t, "running", "running")
  /\ todo' = [todo EXCEPT ![t] = @ \ {k}]
  /\ executed' = [executed EXCEPT ![k] = @ \cup {t}]
  /\ UNCHANGED <<status, runVars, outVars, store, announced, crashes>>

FreshCalls == {k \in Call : \A u \in Task : k \notin deferred[u]}

\* The run ends with DeferredToolRequests for the calls in D.
DeferCalls(t, D) ==
  /\ Accepted(t)
  /\ todo[t] = {}
  /\ D # {}
  /\ Goto(t, "running", "deferring")
  /\ deferred' = [deferred EXCEPT ![t] = D]
  /\ UNCHANGED <<status, msg, loaded, userInput, link, resumed, todo, outVars,
                 store, announced, executed, crashes>>

\* One "deferred" event: its artifact goes out.
SurfaceCall(t, k) ==
  /\ k \in deferred[t] \ surfaced[t]
  /\ Goto(t, "deferring", "deferring")
  /\ surfaced' = [surfaced EXCEPT ![t] = @ \cup {k}]
  /\ EmitChunk(t, FALSE)
  /\ UNCHANGED <<status, runVars, todo, store, announced, executed, crashes>>

\* Any exception of the run: caught, the task is failed, then re-raised.
RunFails(t) ==
  /\ \E from \in {"running", "deferring"} : Goto(t, from, "raised")
  /\ Publish(t, "failed")
  /\ UNCHANGED <<runVars, todo, outVars, store, announced, executed, crashes>>

-----------------------------------------------------------------------------
(* Writing the conversation back.                                          *)

\* Mutant: only the messages of this run are saved.
SaveHistoryNewMessages(t, calls) ==
  IF ContextOf(t) = NoContext THEN UNCHANGED <<history, committed>> ELSE
    /\ history' = [history EXCEPT ![ContextOf(t)] =
                     [by |-> t, turns |-> {t}, pending |-> calls]]
    /\ committed' = committed \cup {t}

\* The whole conversation, all_messages(), replaces the stored one.
SaveHistory(t, calls) ==
  IF ContextOf(t) = NoContext THEN UNCHANGED <<history, committed>> ELSE
    /\ history' = [history EXCEPT ![ContextOf(t)] =
                     [by |-> t, turns |-> loaded[t].turns \cup {t},
                      pending |-> calls]]
    /\ committed' = committed \cup {t}

\* Mutant: the try block covers the saves as well.
SaveFailsReported(t) ==
  /\ StoreFaults
  /\ ContextOf(t) # NoContext
  /\ \/ Goto(t, "deferring", "raised") /\ surfaced[t] = deferred[t]
     \/ Goto(t, "history_saved", "raised")
     \/ Goto(t, "closing", "raised")
  /\ Publish(t, "failed")
  /\ UNCHANGED <<runVars, todo, outVars, store, announced, executed, crashes>>

\* A save raises: outside the try block, so no event tells of it.
SaveFails(t) ==
  /\ StoreFaults
  /\ ContextOf(t) # NoContext
  /\ \/ Goto(t, "deferring", "raised") /\ surfaced[t] = deferred[t]
     \/ Goto(t, "history_saved", "raised")
     \/ Goto(t, "closing", "raised")
  /\ UNCHANGED <<status, runVars, todo, outVars, store, announced, executed,
                 crashes>>

\* Mutant: the pause path does not save the history.
SavePausedHistorySkipped(t) ==
  /\ surfaced[t] = deferred[t]
  /\ Goto(t, "deferring", "history_saved")
  /\ UNCHANGED <<status, runVars, todo, outVars, store, announced, executed,
                 crashes>>

\* _pause_for_approval: history, then pause state, then requires_input.
SavePausedHistory(t) ==
  /\ surfaced[t] = deferred[t]
  /\ Goto(t, "deferring", "history_saved")
  /\ SaveHistory(t, deferred[t])
  /\ UNCHANGED <<status, runVars, todo, outVars, pause, announced, executed,
                 crashes>>

\* Mutant: the upsert keeps the row of an earlier pause.
SavePauseStateOnce(t) ==
  /\ Goto(t, "history_saved", "pause_saved")
  /\ pause' = IF ContextOf(t) = NoContext THEN pause
              ELSE [pause EXCEPT ![ContextOf(t)] =
                      IF @ # NoPause THEN @
                      ELSE [task |-> t, userInput |-> userInput[t]]]
  /\ UNCHANGED <<status, runVars, todo, outVars, history, committed, announced,
                 executed, crashes>>

SavePauseState(t) ==
  /\ Goto(t, "history_saved", "pause_saved")
  /\ pause' = IF ContextOf(t) = NoContext THEN pause
              ELSE [pause EXCEPT ![ContextOf(t)] =
                      [task |-> t, userInput |-> userInput[t]]]
  /\ UNCHANGED <<status, runVars, todo, outVars, history, committed, announced,
                 executed, crashes>>

RequireInput(t) ==
  /\ Goto(t, "pause_saved", "ended")
  /\ Publish(t, "input_required")
  /\ announced' = IF status'[t] = "input_required" THEN announced \cup {t}
                                                   ELSE announced
  /\ UNCHANGED <<runVars, todo, outVars, store, executed, crashes>>

\* _finalize: last chunk, history, structured artifact if any, complete.
LastChunk(t) ==
  /\ Accepted(t)
  /\ todo[t] = {}
  /\ Goto(t, "running", "closing")
  /\ EmitChunk(t, TRUE)
  /\ UNCHANGED <<status, runVars, todo, surfaced, store, announced, executed,
                 crashes>>

SaveTurn(t) ==
  /\ Goto(t, "closing", "turn_saved")
  /\ SaveHistory(t, {})
  /\ UNCHANGED <<status, runVars, todo, outVars, pause, announced, executed,
                 crashes>>

\* Structured output travels in an artifact of its own, before completion.
StructuredArtifact(t) ==
  /\ Goto(t, "turn_saved", "completing")
  /\ UNCHANGED <<status, runVars, todo, outVars, store, announced, executed,
                 crashes>>

\* Mutant: completion is announced before the history is saved.
CompleteEarly(t) ==
  /\ \E from \in {"closing", "turn_saved", "completing"} : Goto(t, from, "ended")
  /\ Publish(t, "completed")
  /\ UNCHANGED <<runVars, todo, outVars, store, announced, executed, crashes>>

Complete(t) ==
  /\ \E from \in {"turn_saved", "completing"} : Goto(t, from, "ended")
  /\ Publish(t, "completed")
  /\ UNCHANGED <<runVars, todo, outVars, store, announced, executed, crashes>>

-----------------------------------------------------------------------------
(* Cancellation and crashes.                                               *)

\* Executor.cancel, called by the SDK for a task that is not finished; it
\* neither stops the run nor looks at it.
Cancel(t) ==
  /\ OnLoop(t)
  /\ pc[t] \notin Uninterrupted
  /\ status[t] \in {"submitted", "working", "input_required", "auth_required"}
  /\ Publish(t, "canceled")
  /\ UNCHANGED <<pc, runVars, todo, outVars, store, announced, executed,
                 crashes>>

\* External: the SDK then cancels the coroutine at its await; CancelledError
\* is no Exception, so execute() does nothing about it.
Interrupt(t) ==
  /\ status[t] = "canceled"
  /\ \E from \in Suspended : Goto(t, from, "ended")
  /\ UNCHANGED <<status, runVars, todo, outVars, store, announced, executed,
                 crashes>>

\* The hub process dies and is started again: the coroutines and the
\* in-memory task store are gone, the database is not.
Crash ==
  /\ crashes < MaxCrashes
  /\ crashes' = crashes + 1
  /\ pc' = [t \in Task |-> IF pc[t] \in InFlight THEN "dead" ELSE pc[t]]
  /\ status' = [t \in Task |-> IF status[t] = "absent" /\ pc[t] = "new"
                                 THEN "absent" ELSE "lost"]
  /\ UNCHANGED <<runVars, todo, outVars, store, announced, executed>>

-----------------------------------------------------------------------------
Execute(t) ==
  \/ EnqueueTask(t) \/ StartWork(t) \/ RequireAuth(t) \/ BeginRun(t)
  \/ DetectResumeFails(t) \/ LoadHistoryFails(t)
  \/ StreamChunk(t)
  \/ \E k \in Call : ExecuteCall(t, k) \/ SurfaceCall(t, k)
  \/ \E D \in SUBSET FreshCalls : DeferCalls(t, D)
  \/ RunFails(t) \/ SaveFails(t)
  \/ SavePausedHistory(t) \/ SavePauseState(t) \/ RequireInput(t)
  \/ LastChunk(t) \/ SaveTurn(t) \/ StructuredArtifact(t) \/ Complete(t)

Receive(t) ==
  \/ \E c \in Context \cup {NoContext} : Prompt(t, c)
  \/ \E u \in Task, yes, no \in SUBSET Call :
       /\ yes \cup no \subseteq deferred[u]
       /\ Answer(t, u, yes, no)

Next ==
  \/ \E t \in Task : Receive(t) \/ Execute(t) \/ Cancel(t) \/ Interrupt(t)
  \/ Crash

Spec == Init /\ [][Next]_vars

-----------------------------------------------------------------------------
TypeOK ==
  /\ pc \in [Task -> Place]
  /\ status \in [Task -> Status]
  /\ msg \in [Task -> Message]
  /\ loaded \in [Task -> History]
  /\ userInput \in [Task -> Task \cup {NoTask}]
  /\ link \in [Task -> Task \cup {NoTask}]
  /\ resumed \in [Task -> BOOLEAN]
  /\ todo \in [Task -> SUBSET Call]
  /\ deferred \in [Task -> SUBSET Call]
  /\ surfaced \in [Task -> SUBSET Call]
  /\ created \in [Task -> BOOLEAN]
  /\ chunks \in [Task -> Seq(Chunk)]
  /\ history \in [Context -> History]
  /\ pause \in [Context -> PauseState]
  /\ committed \subseteq Task
  /\ announced \subseteq Task
  /\ executed \in [Call -> SUBSET Task]
  /\ crashes \in 0 .. MaxCrashes

-----------------------------------------------------------------------------
(* Safety, whatever messages arrive and however tasks overlap.             *)

\* A task reported input_required can be resumed: its conversation was saved
\* before the report, and as long as no other run has saved that
\* conversation, the stored history waits for exactly the calls the client
\* was shown and the pause state is the one of this task
\* (executor.py _pause_for_approval: save, save_pause_state, requires_input).
AnnouncedIsResumable ==
  \A t \in announced : ContextOf(t) \in Context =>
    /\ t \in committed
    /\ history[ContextOf(t)].by = t =>
         /\ history[ContextOf(t)].pending = deferred[t]
         /\ pause[ContextOf(t)] = [task |-> t, userInput |-> userInput[t]]

\* What the client is told agrees with what the store holds: a completed or
\* paused turn was saved, a failed or unauthorised one left no trace
\* (execute() saves only after the try block).
ReportsAreTruthful ==
  \A t \in Task :
    /\ status[t] \in {"completed", "input_required"} /\ ContextOf(t) # NoContext
         => t \in committed
    /\ status[t] \in {"failed", "auth_required"}
         => /\ t \notin committed
            /\ \A c \in Context : t \notin history[c].turns

\* A stored conversation never contains a turn without the turns that turn
\* was produced from, whichever overlapping run wrote last, and no turn of
\* another conversation.
ConversationsAreClosed ==
  \A c \in Context : \A t \in history[c].turns :
    /\ ContextOf(t) = c
    /\ loaded[t].turns \subseteq history[c].turns

\* Approval decisions always reach the agent run: _start_run's fallback to a
\* fresh run, which would drop them, is never taken for an answer to an
\* announced pause, after a crash and a restart included.
ApprovalsReachTheRun ==
  \A t \in Task :
    pc[t] \in {"running", "deferring", "closing"} /\ Decisions(t) # {}
      => resumed[t]

\* A call is executed only by a run whose message approved it and whose
\* conversation was left waiting for it by the run that asked.
OnlyApprovedPendingCallsRun ==
  \A k \in Call : \A t \in executed[k] :
    /\ k \in msg[t].approved
    /\ k \in loaded[t].pending
    /\ k \in deferred[loaded[t].by]

\* The SDK's artifact rule the executor's docstring quotes: the first update
\* of the result artifact creates it and every other one appends, the closing
\* one is the last, and a task completes only after it.
ArtifactProtocol ==
  \A t \in Task :
    /\ \A i \in 1 .. Len(chunks[t]) : chunks[t][i].append = (i > 1)
    /\ \A i \in 1 .. Len(chunks[t]) - 1 : ~chunks[t][i].last
    /\ status[t] = "completed"
         => chunks[t] # <<>> /\ chunks[t][Len(chunks[t])].last

=============================================================================
