---------------------------- MODULE TaskTracing ----------------------------
(***************************************************************************)
(* The spans of one conversation: hub/_task_tracer.py, driven by           *)
(* Executor.execute (hub/executor.py) and the step events of a pydantic-ai *)
(* run (agents/backend.py), under the commands that send the messages      *)
(* (cli/tracing.py).                                                       *)
(*                                                                         *)
(* A span is its place in the log "spans"; 0 is the invalid span of a      *)
(* process without tracing.  A context token is the span that was current  *)
(* when it was taken.  Tasks run one at a time: the client waits.          *)
(***************************************************************************)
EXTENDS Naturals, Sequences, FiniteSets, SequencesExt

CONSTANTS
  Call,        \* ids of tool calls, each used by one call of the model
  Answers,     \* sets of verdicts an answer to a pause may hold
  MaxCommands, \* bound: commands started
  MaxTasks,    \* bound: messages sent
  MaxNodes,    \* bound: graph nodes of a run
  MaxFaults    \* bound: failing store calls, runs that raise, cancellations, hub deaths

Verdict == {"approved", "overridden", "denied"}

ASSUME TracingAssumption ==
  /\ Answers \subseteq (SUBSET Verdict) \ {{}}
  /\ {MaxCommands, MaxTasks, MaxNodes, MaxFaults} \subseteq Nat

VARIABLES
  spans,    \* every span started, in order
  tracer,   \* the _TaskTracer of the current task
  current,  \* the span in the context of the task's coroutine
  run,      \* the executor and the run it drives
  tasks,    \* what became of each task
  store,    \* the context store's row for the conversation
  traced,   \* TRUE iff this hub process has a TracerProvider
  cli,      \* the command at work and its cli_root_span
  faults

vars == <<spans, tracer, current, run, tasks, store, traced, cli, faults>>

-----------------------------------------------------------------------------
SpanName == {"task", "step", "tool", "request", "decided", "cli", "wait"}
SpanState == {"", "running", "resumed", "completed", "paused", "failed"} \cup Verdict
NoCall == "none"

Span == [name : SpanName, task : Nat, parent : Nat, link : Nat,
         call : Call \cup {NoCall}, state : SpanState, input : Nat,
         invocation : Nat, ended : BOOLEAN]

Plain(name, task, parent) ==
  [name |-> name, task |-> task, parent |-> parent, link |-> 0, call |-> NoCall,
   state |-> "", input |-> 0, invocation |-> 0, ended |-> FALSE]

\* start_span: the log with the span, in a process that records.
Begun(log, recording, span) == IF recording THEN Append(log, span) ELSE log
NewId(log, recording) == IF recording THEN Len(log) + 1 ELSE 0

\* Span.end, which keeps the first end, and set_attribute of the state.
Ended(log, s) == IF s = 0 THEN log ELSE [log EXCEPT ![s].ended = TRUE]
Marked(log, s, state) ==
  IF s = 0 \/ log[s].ended THEN log ELSE [log EXCEPT ![s].state = state]

NewTracer == [task |-> 0, step |-> 0, tools |-> {}, paused |-> <<>>,
              taskToken |-> <<>>, stepToken |-> <<>>]

Idle == [at |-> "idle", input |-> 0, resumes |-> FALSE, node |-> "none", nodes |-> 0,
         waits |-> {}, open |-> {}, deferred |-> {}]

NoCommand == [invocation |-> 0, root |-> 0, wait |-> 0, asked |-> {}, open |-> FALSE]

Init ==
  /\ spans = <<>>
  /\ tracer = NewTracer
  /\ current = 0
  /\ run = Idle
  /\ tasks = <<>>
  /\ store = [pending |-> {}, pause |-> <<>>]
  /\ traced \in BOOLEAN
  /\ cli = NoCommand
  /\ faults = 0

Me == Len(tasks)            \* the task at work
Turn == tasks[Me].turn      \* the user's words it serves
CallsMade == UNION {tasks[t].called : t \in DOMAIN tasks}

\* What the hub reports of the task at work, last of all.
Reported(outcome) == [tasks EXCEPT ![Me].outcome = outcome]

Fault == faults < MaxFaults /\ faults' = faults + 1

-----------------------------------------------------------------------------
(* The command: setup_cli_tracing, cli_root_span, approval_wait_span.      *)

Hub == <<tracer, current, run, store, traced>>

\* main() of `fin do` or `fin talk`, with or without tracing.
CliStarts(recording) ==
  /\ ~cli.open
  /\ cli.invocation < MaxCommands
  /\ run.at = "idle"
  /\ cli' = [NoCommand EXCEPT !.invocation = cli.invocation + 1, !.open = TRUE,
                              !.root = NewId(spans, recording)]
  /\ spans' = Begun(spans, recording,
                    [Plain("cli", 0, 0) EXCEPT !.invocation = cli.invocation + 1])
  /\ UNCHANGED <<Hub, tasks, faults>>

\* The command returns, also from the widget: both context managers end
\* their spans.
CliEnds ==
  /\ cli.open
  /\ run.at = "idle"
  /\ spans' = Ended(Ended(spans, cli.wait), cli.root)
  /\ cli' = [NoCommand EXCEPT !.invocation = cli.invocation]
  /\ UNCHANGED <<Hub, tasks, faults>>

\* The baggage of the command's requests.
Baggage == IF cli.root = 0 THEN 0 ELSE cli.invocation

-----------------------------------------------------------------------------
(* The tracer: each operator is the log and the tracer after the call.     *)

\* Mutant: the words of the message at hand, empty on a resumption.
InputOfMessage(words, prior) == words

\* user_input or resume_info.prior_user_input; an answer has no words, 0.
Input(words, prior) ==
  IF words = 0 /\ prior # <<>> THEN prior[1].input ELSE words

\* _aggregate_decisions.
Aggregated(verdicts) ==
  CASE "denied" \in verdicts -> "denied"
    [] "denied" \notin verdicts /\ "overridden" \in verdicts -> "overridden"
    [] OTHER -> "approved"

\* make_link refuses an invalid span; the log of spans numbers it 0.
MakeLink(prior) == IF prior = <<>> THEN 0 ELSE prior[1].span

StartTaskSpan(log, input, prior) ==
  Begun(log, traced,
        [Plain("task", Me', 0) EXCEPT
           !.link = MakeLink(prior), !.state = "running",
           !.input = input, !.invocation = Baggage])

EmitApprovalDecided(log, task, verdicts, prior) ==
  IF verdicts = {} \/ prior = <<>> THEN log
  ELSE Marked(Begun(log, traced,
                    [Plain("decided", Me', task) EXCEPT
                       !.link = MakeLink(prior), !.state = Aggregated(verdicts),
                       !.ended = TRUE]),
              task, "resumed")

Parent == IF tracer.step # 0 THEN tracer.step ELSE tracer.task

\* detach_task_context: the token restores what was current before the task,
\* whatever has been attached since.
Detached == IF tracer.taskToken = <<>> THEN current ELSE tracer.taskToken[1]

-----------------------------------------------------------------------------
(* execute: the beginning.                                                 *)

\* _setup_task, _detect_resume and the first spans, for a message of the
\* command; "verdicts" is empty for words of the user.
Receive(words, verdicts, turn) ==
  /\ cli.open
  /\ run.at = "idle"
  /\ Len(tasks) < MaxTasks
  /\ tasks' = Append(tasks, [turn |-> turn, outcome |-> "running", called |-> {},
                             answers |-> IF verdicts = {} THEN 0 ELSE Me,
                             deferred |-> <<>>, command |-> cli.invocation])
  /\ LET prior == IF verdicts = {} THEN <<>> ELSE store.pause
         input == Input(words, prior)
         log   == Ended(spans, cli.wait)
         span  == NewId(log, traced) IN
     /\ spans' = EmitApprovalDecided(StartTaskSpan(log, input, prior), span,
                                     verdicts, prior)
     /\ tracer' = [NewTracer EXCEPT !.task = span, !.taskToken = <<0>>]
     /\ current' = span
     /\ run' = [Idle EXCEPT !.at = "loading", !.input = input,
                            !.resumes = verdicts # {}]
  /\ cli' = [cli EXCEPT !.wait = 0, !.asked = {}]
  /\ UNCHANGED <<store, traced, faults>>

SendWords == Receive(Len(tasks) + 1, {}, Len(tasks) + 1)

\* The widget has returned; only the pause's own command answers it.
SendAnswers(verdicts) ==
  /\ cli.asked # {}
  /\ Receive(0, verdicts, Turn)

\* load_pause_state raises: no task span was started, no status is sent.
LoadPauseRaises ==
  /\ cli.asked # {}
  /\ run.at = "idle"
  /\ Len(tasks) < MaxTasks
  /\ Fault
  /\ tasks' = Append(tasks, [turn |-> Turn, outcome |-> "raised", called |-> {},
                             answers |-> Me, deferred |-> <<>>,
                             command |-> cli.invocation])
  /\ spans' = Ended(spans, cli.wait)
  /\ cli' = [cli EXCEPT !.wait = 0, !.asked = {}]
  /\ UNCHANGED Hub

\* _load_history and _start_run: a resumption answers the stored calls,
\* provided there is a history at all.
StartRun ==
  /\ run.at = "loading"
  /\ run' = [run EXCEPT !.at = "running",
                        !.waits = IF run.resumes THEN store.pending ELSE {}]
  /\ UNCHANGED <<spans, tracer, current, tasks, store, traced, cli, faults>>

-----------------------------------------------------------------------------
(* The run's step events and their dispatch.                               *)

InRun == <<tasks, store, traced, cli, faults>>

\* A request node follows the start or a tools node; tools follow a request,
\* or the start of a resumption.
MayStart(kind) ==
  IF run.nodes = 0 THEN kind = "tools" <=> run.waits # {}
  ELSE \/ kind = "request" /\ run.node = "after tools" /\ run.nodes + 2 <= MaxNodes
       \/ kind = "tools" /\ run.node = "after request"

StepStart(kind) ==
  /\ run.at = "running"
  /\ run.open = {}
  /\ MayStart(kind)
  /\ run' = [run EXCEPT !.node = kind, !.nodes = @ + 1]
  /\ LET span == NewId(spans, traced) IN
     /\ spans' = Begun(spans, traced, Plain("step", Me, Parent))
     /\ tracer' = [tracer EXCEPT !.step = span, !.stepToken = <<current>>]
     /\ current' = span
  /\ UNCHANGED InRun

\* Mutant: a call's span does not outlive its announcement in the tracer.
StartToolSpanAlone(tools, k, span) == {<<k, span>>}

\* active_tool_spans, keyed by the call.
StartToolSpan(tools, k, span) == {e \in tools : e[1] # k} \cup {<<k, span>>}

\* A tools node announces the calls of its response, or the stored ones.
ToolCall(k) ==
  /\ run.at = "running"
  /\ run.node = "tools"
  /\ \/ run.nodes = 1 /\ k \in run.waits
     \/ run.nodes > 1 /\ k \notin CallsMade
  /\ k \notin run.open /\ k \notin tasks[Me].called
  /\ run' = [run EXCEPT !.open = @ \cup {k}]
  /\ tasks' = [tasks EXCEPT ![Me].called = @ \cup {k}]
  /\ tracer' = [tracer EXCEPT !.tools = StartToolSpan(@, k, NewId(spans, traced))]
  /\ spans' = Begun(spans, traced, [Plain("tool", Me, Parent) EXCEPT !.call = k])
  /\ UNCHANGED <<current, store, traced, cli, faults>>

\* end_tool_span: the entry of the call, if there is one.
ToolResult(k) ==
  /\ run.at = "running"
  /\ run.node = "tools"
  /\ k \in run.open
  /\ run' = [run EXCEPT !.open = @ \ {k}, !.waits = @ \ {k}]
  /\ LET mine == {e \in tracer.tools : e[1] = k} IN
     /\ spans' = [s \in DOMAIN spans |->
                    [spans[s] EXCEPT !.ended = @ \/ \E e \in mine : e[2] = s]]
     /\ tracer' = [tracer EXCEPT !.tools = @ \ mine]
  /\ UNCHANGED <<current, InRun>>

\* Mutant: the step stays the tracer's current one.
EndStepSpanKept == [tracer EXCEPT !.stepToken = <<>>]

EndStepSpan == [tracer EXCEPT !.stepToken = <<>>, !.step = 0]

\* The node ends; calls left open wait for approval.  Stored calls do not
\* wait again.
StepEnd ==
  /\ run.at = "running"
  /\ run.node \in {"request", "tools"}
  /\ run.waits = {}
  /\ run' = [run EXCEPT !.node = IF @ = "request" THEN "after request" ELSE "after tools"]
  /\ current' = IF tracer.stepToken = <<>> THEN current ELSE tracer.stepToken[1]
  /\ spans' = Ended(spans, tracer.step)
  /\ tracer' = EndStepSpan
  /\ UNCHANGED InRun

\* Mutant: the request's span is left open for the answer to end.
RequestSpanOpen(k) == [Plain("request", Me, Parent) EXCEPT !.call = k]

\* emit_approval_request_span starts and ends the span.
RequestSpan(k) ==
  [Plain("request", Me, Parent) EXCEPT !.call = k, !.ended = TRUE]

Deferred(k) ==
  /\ run.at = "running"
  /\ run.node = "after tools"
  /\ k \in run.open \ run.deferred
  /\ run' = [run EXCEPT !.deferred = @ \cup {k}]
  /\ tasks' = [tasks EXCEPT ![Me].deferred = Append(@, k)]
  /\ tracer' = [tracer EXCEPT !.paused = <<NewId(spans, traced)>>]
  /\ spans' = Begun(spans, traced, RequestSpan(k))
  /\ UNCHANGED <<current, store, traced, cli, faults>>

-----------------------------------------------------------------------------
(* execute: the endings.                                                   *)

\* Mutant: a completed task's span is ended here as well, before the save.
RunEndsCompleted ==
  /\ run.at = "running"
  /\ run.node = "after tools"
  /\ run.nodes >= 2
  /\ run.deferred = run.open
  /\ current' = Detached
  /\ tracer' = [tracer EXCEPT !.taskToken = <<>>]
  /\ LET paused == run.deferred # {} IN
     /\ spans' = Ended(Marked(spans, tracer.task, IF paused THEN "paused" ELSE "completed"),
                       tracer.task)
     /\ run' = [run EXCEPT !.at = IF paused THEN "pausing" ELSE "finalizing"]
  /\ UNCHANGED InRun

\* The run has no more events: detach, and for a pause the end of the span.
RunEnds ==
  /\ run.at = "running"
  /\ run.node = "after tools"
  /\ run.nodes >= 2
  /\ run.deferred = run.open
  /\ current' = Detached
  /\ tracer' = [tracer EXCEPT !.taskToken = <<>>]
  /\ IF run.deferred # {}
       THEN /\ spans' = Ended(Marked(spans, tracer.task, "paused"), tracer.task)
            /\ run' = [run EXCEPT !.at = "pausing"]
       ELSE /\ run' = [run EXCEPT !.at = "finalizing"]
            /\ UNCHANGED spans
  /\ UNCHANGED InRun

\* The except clause, for the store, the model or a tool.
RunRaises ==
  /\ run.at \in {"loading", "running"}
  /\ Fault
  /\ spans' = Ended(Marked(spans, tracer.task, "failed"), tracer.task)
  /\ current' = Detached
  /\ tracer' = [tracer EXCEPT !.taskToken = <<>>]
  /\ run' = Idle
  /\ tasks' = Reported("failed")
  /\ UNCHANGED <<store, traced, cli>>

\* A CancelledError passes every handler of execute.
Cancelled ==
  /\ run.at # "idle"
  /\ Fault
  /\ run' = Idle
  /\ tasks' = Reported("cancelled")
  /\ UNCHANGED <<spans, tracer, current, store, traced, cli>>

\* _pause_for_approval: two saves, then the report that opens the widget.
SavePausedHistory ==
  /\ run.at = "pausing"
  /\ store' = [store EXCEPT !.pending = run.deferred]
  /\ run' = [run EXCEPT !.at = "marking"]
  /\ UNCHANGED <<spans, tracer, current, tasks, traced, cli, faults>>

\* Mutant: the pause is stored only where none is.
PauseSavedOnce(pause) ==
  IF store.pause = <<>> /\ pause # <<>> THEN pause ELSE store.pause

PauseSaved(pause) == IF pause = <<>> THEN store.pause ELSE pause

SavePauseState ==
  /\ run.at = "marking"
  /\ store' = [store EXCEPT !.pause = PauseSaved(
                 IF tracer.paused = <<>> THEN <<>>
                 ELSE <<[span |-> tracer.paused[1], input |-> run.input]>>)]
  /\ run' = Idle
  /\ tasks' = Reported("paused")
  /\ cli' = [cli EXCEPT !.asked = run.deferred,
                        !.wait = NewId(spans, cli.root # 0)]
  /\ spans' = Begun(spans, cli.root # 0, Plain("wait", 0, cli.root))
  /\ UNCHANGED <<tracer, current, traced, faults>>

\* _finalize: the save, the end of the span, the report.
Finalize ==
  /\ run.at = "finalizing"
  /\ store' = [store EXCEPT !.pending = {}]
  /\ spans' = Ended(Marked(spans, tracer.task, "completed"), tracer.task)
  /\ run' = Idle
  /\ tasks' = Reported("completed")
  /\ UNCHANGED <<tracer, current, traced, cli, faults>>

\* A save outside the try block raises; no status follows.
SaveRaises ==
  /\ run.at \in {"pausing", "marking", "finalizing"}
  /\ Fault
  /\ run' = Idle
  /\ tasks' = Reported("raised")
  /\ UNCHANGED <<spans, tracer, current, store, traced, cli>>

\* The hub is killed and started again, perhaps with other settings.  A
\* client that waits for a stream gets an error; one in its widget does not
\* notice.
HubRestarts ==
  /\ Fault
  /\ traced' \in BOOLEAN
  /\ run' = Idle
  /\ tracer' = NewTracer
  /\ current' = 0
  /\ tasks' = IF run.at = "idle" THEN tasks ELSE Reported("lost")
  /\ UNCHANGED <<spans, store, cli>>

-----------------------------------------------------------------------------
Next ==
  \/ \E recording \in BOOLEAN : CliStarts(recording)
  \/ CliEnds
  \/ SendWords
  \/ \E verdicts \in Answers : SendAnswers(verdicts)
  \/ LoadPauseRaises
  \/ StartRun
  \/ \E kind \in {"request", "tools"} : StepStart(kind)
  \/ \E k \in Call : ToolCall(k) \/ ToolResult(k) \/ Deferred(k)
  \/ StepEnd
  \/ RunEnds
  \/ RunRaises
  \/ Cancelled
  \/ SavePausedHistory
  \/ SavePauseState
  \/ Finalize
  \/ SaveRaises
  \/ HubRestarts

TracingSpec == Init /\ [][Next]_vars

-----------------------------------------------------------------------------
SpansOf(t) == {s \in DOMAIN spans : spans[s].task = t}
Named(t, name) == {s \in SpansOf(t) : spans[s].name = name}

\* Types: the state is within the declared shapes, every id in the tracer and
\* in the store is 0 or a span of the log, and a step span is at hand exactly
\* while a node runs, or when a cancellation dropped the run.
TracingTypeOK ==
  LET SpanId == 0 .. Len(spans) IN
  /\ \A s \in DOMAIN spans : spans[s] \in Span /\ spans[s].parent < s /\ spans[s].link < s
  /\ {tracer.task, tracer.step, current, cli.root, cli.wait} \subseteq SpanId
  /\ \A token \in {tracer.taskToken, tracer.stepToken, tracer.paused} :
       Len(token) <= 1 /\ ToSet(token) \subseteq SpanId
  /\ tracer.tools \subseteq Call \X SpanId
  /\ run.at \in {"idle", "loading", "running", "pausing", "marking", "finalizing"}
  /\ run.node \in {"none", "request", "tools", "after request", "after tools"}
  /\ traced /\ run.at # "idle" =>
       (tracer.step # 0 <=> run.node \in {"request", "tools"})
  /\ run.deferred \subseteq run.open /\ run.open \subseteq Call
  /\ \A t \in DOMAIN tasks :
       tasks[t].outcome \in {"running", "paused", "completed", "failed", "raised",
                             "cancelled", "lost"}
  /\ store.pending \subseteq Call /\ Len(store.pause) <= 1
  /\ traced \in BOOLEAN /\ cli.asked \subseteq Call /\ faults \in 0 .. MaxFaults

\* _task_tracer.py:207 and :231.  The spans of a task are one tree: steps
\* under the task, tools under an own step, whatever ran in parallel.  A
\* completed task leaves no span open, and a paused one only those of the
\* calls that wait, whose requests are ended; no span stays current after
\* the task.
SpansAreAccounted ==
  \A t \in DOMAIN tasks :
    /\ \A s \in Named(t, "step") \cup Named(t, "request") \cup Named(t, "decided") :
         spans[s].parent \in Named(t, "task")
    /\ \A s \in Named(t, "tool") : spans[s].parent \in Named(t, "step")
    /\ tasks[t].outcome = "completed" => \A s \in SpansOf(t) : spans[s].ended
    /\ tasks[t].outcome = "paused" =>
         /\ \A s \in SpansOf(t) :
              ~spans[s].ended <=> /\ spans[s].name = "tool"
                                  /\ spans[s].call \in ToSet(tasks[t].deferred)
         /\ Named(t, "task") # {} =>
              {spans[s].call : s \in Named(t, "request")} = ToSet(tasks[t].deferred)
    /\ t = Me /\ tasks[t].outcome \in {"completed", "paused", "failed"} => current = 0

\* executor.py:229-239, 384, 429.  What an ended task span says is what the
\* hub reported: completed and failed exactly, a pause at least wherever one
\* was reported; "running" and "resumed" never remain.
SpanTellsTheOutcome ==
  \A t \in DOMAIN tasks : \A s \in Named(t, "task") :
    /\ spans[s].ended => spans[s].state \in {"completed", "paused", "failed"}
    /\ spans[s].state = "completed" <=> tasks[t].outcome = "completed"
    /\ spans[s].state = "failed" <=> tasks[t].outcome = "failed"
    /\ tasks[t].outcome = "paused" => spans[s].ended /\ spans[s].state = "paused"

\* executor.py:193-214, _task_tracer.py:336.  The span of a task that answers
\* a pause links to the request of that pause's last call, of the same
\* conversation turn, already ended; it carries the words the user typed
\* before the pause and the invocation of the same command; and it has the
\* decision as a child.  This holds whatever the hub did in between; a pause
\* without tracing leaves no link.
ResumptionFollowsThePause ==
  \A t \in DOMAIN tasks : \A s \in Named(t, "task") :
    /\ spans[s].input = tasks[t].turn
    /\ spans[s].invocation \in {0, tasks[t].command}
    /\ LET p == tasks[t].answers IN
       /\ Cardinality(Named(t, "decided")) = IF p = 0 THEN 0 ELSE 1
       /\ p = 0 => spans[s].link = 0
       /\ p # 0 =>
            /\ \A d \in Named(t, "decided") : spans[d].link = spans[s].link
            /\ IF Named(p, "task") = {} THEN spans[s].link = 0
               ELSE /\ spans[s].link \in Named(p, "request")
                    /\ spans[spans[s].link].call = Last(tasks[p].deferred)
                    /\ spans[spans[s].link].ended
                    /\ spans[s].invocation = spans[CHOOSE q \in Named(p, "task") : TRUE].invocation

=============================================================================
