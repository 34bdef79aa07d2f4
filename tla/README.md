# Verification of fin-assist

TLA+ models of fin-assist: a command line assistant (`fin`) whose agents run in
a local hub process and are reached over the A2A protocol.  All paths below are
relative to `src/fin_assist/` in the repository.

## The system

| Component | State it keeps | Operations | Talks to |
|---|---|---|---|
| Executor (`hub/executor.py`) | per call: history read, artifacts created, user input; nothing across calls | `execute` (set up, detect resume, load, run, pause or finalize), `cancel` | store, backend, SDK event queue, tracer |
| Conversation store (`hub/context_store.py`) | SQLite tables `contexts` and `trace_contexts`, one row per conversation each | `load`, `save`, `load_pause_state`, `save_pause_state` | called by every executor; one store per hub |
| Agent backend (`agents/backend.py`) | the agent's skill manager; a handle per run | `run_steps`, iteration of events, `result`, `build_deferred_results`, (de)serialisation | pydantic-ai, tools, MCP |
| Tools and policies (`agents/tools.py`) | tool registry; child processes | `ApprovalPolicy.evaluate`, registration, shell tool with timeout and termination | operating system |
| Skills (`agents/skills.py`, `agents/spec.py`) | the skills loaded and tools unlocked, per agent | load, catalogue, gate | backend, `skills/invoke` endpoint |
| MCP provider (`agents/mcp.py`) | connections to MCP servers | connect, discover, close | MCP servers |
| Task tracer (`hub/_task_tracer.py`) | open task, step and tool spans, context tokens | start and end of each span, links | OpenTelemetry |
| Trace export (`hub/tracing.py`, `tracing_shared.py`, `hub/file_exporter.py`, `cli/tracing.py`) | providers, an open file | export, flush, shutdown | OpenTelemetry |
| Hub application (`hub/app.py`, `hub/factory.py`) | one executor per agent, one store | routes, agent cards, `skills/invoke` | executor, skills |
| Server life cycle (`hub/pidfile.py`, `cli/server.py`) | PID file, lock file, processes | `acquire`, `release`, `ensure_server_running`, `stop_server`, `check_status` | operating system, `/health` |
| Client (`cli/client.py`) | the fold of one response stream | `stream_agent`, discovery, skill calls | hub |
| Chat loop (`cli/interaction/chat.py`, `approve.py`, `streaming.py`) | the conversation id, the calls to decide | prompt, stream, approve or deny or abandon, skills | client |
| Commands (`cli/main.py`) | exit code, session file | `do`, `talk`, `serve`, `stop`, skill preloading | all of the above |
| Prompt input and context providers (`cli/interaction/prompt.py`, `context/*.py`) | the file list, the providers' caches, completion threads | `ask`, completion, `resolve_at_references` | files, git, shell history |
| Configuration, credentials, model registry (`config/`, `credentials/`, `llm/`) | files and keyring, owned by the user | lookups at start and for every task | operating system |

How they interact: the chat loop sends one message and reads the task's events
until a terminal state or an error.  The hub runs one coroutine of `execute`
per message on one event loop.  A tool that needs approval ends the run: the
executor saves the conversation and a pause state and reports
`input_required`; the client shows a widget and sends the decisions in a *new*
message with the same conversation id, which a new `execute` turns into a
resumed run.

### What is hard, and what makes it correct

* Coroutines of one conversation interleave at every await between the load and
  the save of the history.  Correct: a stored conversation is closed under the
  turns it was produced from, and (where tasks do not overlap) no saved turn is
  lost.
* A pause is two saves and a report; the process may die in between, a save may
  raise outside the `try` block, a later pause overwrites the row.  Correct:
  what was announced can be resumed, and a resumption meets its own pause.
* An approved call may execute and the run still fail before anything is saved.
  Correct: no call that needs approval executes without it, nor twice.
* Reports and the store may disagree.  Correct: success only after a save,
  failure only without one.
* The client may stop listening before the task stops.  Correct: every stream
  ends under fair scheduling; nothing is executed twice.
* The artifact protocol silently drops updates that append to nothing.
* The client folds a stream that may stop after any update, with or without an
  exception, into one result, a scrollback and an exit code.  Correct: nobody
  is told of a success that did not happen, what is printed keeps the hub's
  order, and a command stays in one conversation.
* Skills are shared by all conversations of an agent and forgotten in a restart,
  while pauses survive it; tools and gates are rebuilt for every run.  Correct:
  no call the policy sends to the user runs unasked, no run is offered more or
  less than the loaded skills, and an approved call finds its tool.
* A child process may ignore signals, leave its pipes to a grandchild, or exit
  while it is being killed.  Correct: the tool call ends, and no child is left
  without a signal.
* Spans start and end in many places of `execute`, most of them not in a
  `with`.  Correct: they form trees, end when they should, say what was
  reported, and a resumption links to its pause.
* Completion threads share the file list with the prompts that invalidate it.
  Correct: a list once dropped is not offered again.
* References are taken out of a line by their text, wherever it first occurs.
  Correct: what is not a known reference is sent as it was typed.
* The PID file, the lock file and the port are shared by processes that crash at
  any point and by commands that remove each other's files.  Correct: the PID
  file never names the wrong process, a stop that reports success has stopped
  its process and always ends, a start gets a hub whatever was left behind.

`PROJECT.json` lists these and the smaller hazards, each at its line, with the
properties that are about it.

## Modules

| Module | Models |
|---|---|
| `HubExecutor` | `Executor` over `ContextStore`, with the run of the backend, cancellation and restart |
| `ConversationTurns` | what the executor promises about conversations, abstractly |
| `ApprovalFlow` | chat loops driving the executor (composes with `HubExecutor`) |
| `HubLifecycle` | `fin serve` with its PID and lock files, `ensure_server_running`, `stop_server` as processes |
| `ClientTurns` | one `fin do` or `fin talk`: streams, rendering, widget, exit code |
| `ToolPolicies` | approval policies, as operators |
| `ToolChild` | the child process of a command-line tool |
| `AgentTools` | registry, MCP servers, skills, gates and runs of one agent (composes with the two above) |
| `TaskTracing` | the spans of one conversation, through every exit of `execute` |
| `PromptInput` | prompt, completion threads, at-references over context providers |
| `ModelSetup` | configuration, keys and models of a task |
| `KindSequences` | the items of a sequence that are of given kinds, as a recursive function (used by `ClientTurns` and `PromptInput`) |
| `HubExecutorProofs` | theorems about `HubExecutor`, and its refinement of `ConversationTurns` |
| `ApprovalFlowProofs`, `HubLifecycleProofs`, `ClientTurnsProofs`, `AgentToolsProofs`, `TaskTracingProofs`, `PromptInputProofs` | theorems about the modules they are named after |
| `SequenceProofs` | lemmas about sequences and `KindSequences` |
| `MC...` | instances for TLC; `MCHubExecutor` also holds the refinement mapping |

### HubExecutor

`Task` is the set of calls of `Executor.execute`; `pc[t]` names the await at
which the coroutine stands:

| `pc` | in the code |
|---|---|
| `arrived` | `execute` entered, before the first await of `_setup_task` |
| `submitted`, `ready` | after the initial task and `start_work` went to the queue |
| `running` | in the loop of `_consume_events` |
| `deferring` | while the `deferred` events are dispatched |
| `history_saved`, `pause_saved` | inside `_pause_for_approval` |
| `closing`, `turn_saved`, `completing` | inside `_finalize` |
| `ended`, `raised`, `dead` | returned, raised to the SDK, lost in a crash |

The store's methods are `async` but contain no `await`, so from a save to the
next event put on the queue no other coroutine runs.  The model still has a
step per statement there, because the process may crash or a statement raise in
the middle; `OnLoop`, a conjunct of every step of a coroutine, says that nobody
else runs meanwhile.  A request from outside, a crash and the user are not
bound by it.

A conversation is the set of its turns (`turns`), the task that saved it last
(`by`, an observation and not a column) and the calls its last response waits
for (`pending`).  A pause state is the task whose approval span and prompt the
row holds; this assumes that tracing gives spans valid ids, as otherwise the
row holds zeros and no link is made.

External behaviour the model takes from how the code uses its libraries:

* a2a SDK: no event changes a task after a terminal one; `cancel` is called for
  an unfinished task and then cancels the coroutine at its await; tasks of one
  conversation are not serialised (the CLI never sends a task id, so each
  message is a new task); the task store is lost on restart.
* pydantic-ai: a resumed run starts only if the results are exactly those of the
  unanswered calls of the last response (`Accepted`), executes approved calls,
  then streams, asks again, ends, or raises; new calls have new ids.
* a raising database statement changes nothing.  The window in which the
  `INSERT` succeeded and `commit` raised, leaving an open transaction on the
  shared connection, is not modelled.

### ConversationTurns

Tasks bind to a conversation, open it (reading its turns), commit their own
turn on top of exactly those at most once, and report success only after
committing and failure only without.  `MCHubExecutor` maps `pc` to the phase,
`loaded` to the base and `status` to the report; the property
`ImplementsTurns` is the abstract specification under this mapping.

### ApprovalFlow

A session is one run of `run_chat_loop` (`loop`, `current`).  It sends a prompt
only when the earlier stream has ended, decides all calls it was shown at once
(the widget has one answer for all), or abandons them with Ctrl-C.
`ClientTimeouts` lets a stream end while its task goes on.  Every step of the
hub is `HubExecutor!Execute`, unchanged; the CLI has no cancel.

### HubLifecycle

`Proc` is the set of process ids a hub may run under, `Ensures` and `Stops` the
calls of the two commands.  `srv[p]` says where a hub stands:

| `srv` | in the code |
|---|---|
| `starting`, `bound` | `_serve_command` before and after its `bind` (cli/main.py) |
| `locked`, `written`, `armed` | in `acquire` after the lock, after the PID file, and after the handlers were installed |
| `serving`, `told`, `draining` | in uvicorn: running, SIGTERM noted, socket closed and waiting for connections |
| `exiting`, `unlocked`, `unpidded` | in `release`, before each of its three steps |
| `zombie`, `gone`, `stranger` | dead and not collected; collected; the id given to another program |

`pc[c]` is the statement of a command.  `target[c]` is the pid it read or the
child it spawned; `after[c]` says where it goes once it has removed the files,
which it does in two steps.  A lock file is named by its creator and `holds`
says which *file* a process has locked: a lock on a file that was unlinked
excludes nobody from the file of the same name created later.

SIGTERM (`Terminate`) does what the place of the process makes of it: death
before the handler is installed, `SystemExit` in the application, a note in
uvicorn, an abandoned exit handler in `release`.  A death frees port and lock
and leaves the files.  `os.kill(pid, 0)` succeeds for zombies and strangers.
`served` and `victims` observe and do not influence anything.

External behaviour: `bind` fails while another process has the port;
`filelock` with timeout 0 opens the file (creating it) and locks it or raises,
in one step; uvicorn waits for open connections without a limit.

Left out: Windows; a hub on another port with the same PID file; the moment in
which `write_text` has truncated the file (a reader then finds no pid, as when
there is none); permission errors.

### ClientTurns

One command, from its first prompt to its exit.  `hub` is the executor's side of
the current task as far as the wire shows it, `wire` the updates sent and not
yet read; a part is its kind and its number in the task's log.  `task` and
`artifacts` are the variables of `stream_agent`, `view` what `render_stream` has
printed, accumulated and held back (`_flush_thinking`), `result` what it
returned, `ctx` the loop's `ctx_id`.  A stream ends by its terminal status,
early and cleanly, or by an exception after any update (`Breaks`).

As the code has it, and the properties allow for:

* an exception in the first stream leaves `ctx_id` unset, so the next message
  opens another conversation; `OneConversation` is about the tasks the command
  has heard of;
* a cancelled widget, and a resumption that fails, still print through
  `handle_post_response` with the earlier result;
* the error shown for a failed task is its last text chunk;
* a structured result is not shown when any text was streamed;
* Deny and Escape both send a denial and resume the task, where
  docs/manual-testing.md:188-191 expects "Tool call cancelled".

### AgentTools, ToolPolicies, ToolChild

The start of the hub (`HubBoots`) builds two registries one after the other,
`create_default_registry`'s for the backends and one the factory never uses, and
connects every MCP server for each: `provider[b][s]` is where `_connect` and
`discover` stand.  `loaded` is `SkillManager._loaded`, `confirmed` (an
observation) the skills somebody was told are loaded.  `run[c]` is a run of the
agent in a conversation: the tools it is `offered` and the `gated` ones are
fixed by `_build_pydantic_agent` (`Built`) when it starts or resumes, so a skill
loaded by the model counts from the next run on.  A policy's rule is the set of
arguments it matches; whether a tool asks is decided by `RequiresApproval`
before there are any, and `evaluate` is what the property compares it with: no
code calls it when a tool is called.

`ToolChild` has the coroutine of `_run_shell` in `stage`.  A child may exit while
another process keeps its pipes; SIGKILL may take effect late.

What the code does and the properties leave room for: skills are shared by all
conversations, though agents/skills.py:166 speaks of a "single agent session";
a failing `list_tools` leaves its session open; grandchildren are never
signalled; a cancellation during the wait after SIGTERM leaves a child that
ignores it, and the death of the hub leaves every child; `fin list tools` says
"(approval required)" of any tool with a policy; "Executor verifies compliance"
(agents/tools.py:68) has no counterpart in the executor.

### TaskTracing

`spans` is the log of spans started, `tracer` the `_TaskTracer` of the task at
work, `current` the span of its coroutine's context.  `run` walks through
`execute` and the nodes of the pydantic-ai graph; the commands that send the
messages (`cli`) have spans of their own.  A process may run without tracing
(`traced`), and its successor with it.

As the code has it: tool spans of the calls that wait are never ended; a run
that raises inside a step leaves the step open; the span of a pause says
"paused" before the saves that may still raise; of several deferred calls the
last one is linked; after a pause without tracing nothing is linked; a
cancellation skips the tracer.  `SpansAreAccounted` is about completed and
paused tasks for that reason.

### PromptInput

`finder` is the shared `_paths_cache`; a thread scans, writes the cache, and
reads it again (`_get_paths`), so an invalidation by the next `ask` may come
before its write (a list of the earlier prompt), or between the write and the
read (the thread raises).  Whether `prompt_toolkit` lets a completion outlive
its prompt is outside; the model lets it, and `asks.across` keeps the prompts of
those that do, so that `ListsAreOfThisPrompt` says of them too what they may
offer.

A line is a sequence of chunks between blanks, each a word or a reference with
the text before it (`lead`), since `_AT_PATTERN` runs to the next blank.
`resolve_at_references` goes through it one reference at a time and removes the
text of a resolved one by `str.replace(token, "", 1)`: at its first occurrence in
what remains, which may be anywhere inside another chunk.  `Cuts` says for which
chunks that can be and what it leaves of them; `Without` takes the first chunk
that is the reference or has its text inside.  `SentAsWritten` asks for the rest
of the line word for word unless an unknown reference contains a known one that
follows it (`Mistakable`); `UnknownLeftAsIs` asks what the docstring promises,
for every line, and is false.

The world's parts have versions, so that freshness can be stated; a shell
history once read is kept for good, an empty one too, but not the failure of
fish.  Some lookups raise (`LookupRaises`: output of git or fish that does not
decode, a path in a directory that must not be searched, as `Path.exists` does
in the Python 3.12 that `.python-version` names), and so does a file that
vanishes between `exists` and `stat` (`FileVanishes`); nothing catches it and the
command ends.

### ModelSetup

`ConfigPath` is the search for the configuration, `ApiKey` the lookup in
environment, file and keyring.  A task checks the keys in `_setup_task`, again in
`run_steps`, and again as it builds the models; an edit in between turns
"auth required" into a failure.  The default provider counts as enabled whatever
its flag says.  A provider the registry does not know (`ollama`, the example of
docs/configuration.md:42) fails the task.

## Runs

| Run | Instance | Question |
|---|---|---|
| `hub_open` | 3 tasks, 1 conversation and none, 1 call, 1 streamed chunk, 1 crash, failing writes | Do the safety properties hold for any messages and cancellations, and does the executor implement `ConversationTurns`? |
| `flow_serial` | 1 session, 3 tasks, 2 calls, 1 crash, failing writes, no timeouts | What does a user who waits for outcomes get? |
| `flow_overlapping` | 2 sessions in one conversation, 3 tasks, 1 call, 1 chunk, timeouts, crash, failing writes | Can an approved call be executed twice? |
| `flow_lost_turn` | 2 sessions in one conversation, no faults | Expected violation, see below |
| `life_files` | 3 process ids, 1 hub by hand, 1 start, 1 stop, 2 faults, reused ids | Is what the files and a stop say true, and does a stop end? |
| `life_starts` | 2 starts, 1 hub by hand, 1 fault, no slow hubs | Does a start get a hub? |
| `life_two_holders` | 1 start, 2 hubs by hand, 1 fault | Expected violation, see below |
| `client_turns` | 3 messages, up to 3 parts each, 2 calls, streams that break | Is what the user is shown, asked and told what the hub sent? |
| `agent_tools` | 1 conversation, 3 tools, 2 MCP servers, 2 skills that overlap, 4 policies, 2 restarts | Are tools complete, gated and bounded, and do calls end? |
| `tracing` | 3 tasks, 2 calls, 2 commands, 3 nodes a run, 1 fault | Do the spans say what happened? |
| `prompt_input` | 1 file, 1 thread, 2 prompts, 2 changes, 12 lines of 2 or 3 chunks | Is the message the line with its references resolved? |
| `setup_flat_file` | 3 providers, 2 tasks, 2 edits | Expected violation, see below |

Bounds.  Three tasks are the smallest number with a pause, its answer and one
more task in the same conversation, in any order (two answers to one pause, a
prompt between a pause and its answer).  All cross-task effects go through one
conversation row, so one conversation suffices, with `NoContext` for requests
without one.  One call suffices for arbitrary messages, which name it or not,
in time or late; that an answer to only some of several calls runs none of the
others is the theorem `OnlyApprovedRun`.  `flow_serial` has two calls, so that a resumed run can pause
again.  `MaxChunks` counts streamed chunks before the last one; one is enough to
tell the creating update from the appending ones.
`MaxCrashes` bounds restarts.  Deadlock is not checked: the number of tasks is
finite and a system that has served them all stops.

In the life cycle three processes are a hub that dies or lingers, its successor
and a rival for the port; the files have one value each, so a fourth adds
nothing that three cannot leave there.  `MaxFaults` counts signals from outside
and failures of the start, `MaxUserHubs` hubs started by hand.  `SlowHubs` lets
a health check fail, and the ten seconds of a start pass, while a hub is alive;
`life_starts` excludes it, since a start that gives up too early does not get
a hub.  A stop may give up waiting at any moment.

Three messages are a prompt, its answer and the next prompt; three parts are
enough for one of each kind that holds back, overtakes and defers.  In
`agent_tools` other conversations act on the one modelled only through the
skills they load and the hub's death, and `ChatLoads` and `HubDies` are enabled
at any time, so one is enough; two skills that share a tool tell "loaded" from
"unlocked by another one", two servers give a partial failure in either
registry.  Three tasks in `tracing` are a pause, its resumption that pauses
again, and that one's; two commands put a resumption in another command than
its pause.  Two prompts and one thread are a completion that outlives its prompt;
two changes put one before and one after a read; the lines have references of
every kind, equal ones, and one inside another in each order, with a word in
between or none.

Symmetry over tasks and calls is used only in runs without liveness.

Fairness (`ApprovalFlow!FlowFairness`): weak fairness of each coroutine's steps,
since asyncio runs every ready coroutine and the run of the agent ends or
raises (provider timeouts); weak fairness of a client that reads its stream.
Nothing is assumed of users, timeouts or crashes.  `HubLifecycle!LifeFairness`:
a process of the hub or a command that can take its next statement takes it;
nothing is assumed of open connections (a hub may drain for ever), of parents,
users or faults.  `AgentTools!ToolsSpec`: the timers of a command-line call expire
and the loop resumes the coroutine (`DeadlinesPass`, `ShellEnds`, for each
conversation); nothing is assumed of the child, the model or the user.

### What the runs show

* `AnnouncedIsResumable`, `ReportsAreTruthful`, `ConversationsAreClosed`,
  `ApprovalsReachTheRun`, `OnlyApprovedPendingCallsRun`, `ArtifactProtocol`
  hold however tasks overlap.
* A serial session loses no turn, its answers meet the pause they answer, and
  its streams end (`StreamsEnd`).  `ExecutedAtMostOnce` holds even with
  overlapping sessions: the widget appears once per announced pause and a
  crash, a timeout or an error ends the loop that could decide again.
* `flow_lost_turn`: with two sessions on one conversation (`--resume` in a
  second terminal), the task that saves last replaces the history by the one it
  had loaded, and the other's completed turn is gone.  The documentation says
  of the store that history is "persisted across tasks within a conversation"
  (docs/architecture.md:459).
* `PidFileNeverMisleads`: the port, taken before the lock, excludes two writers
  even where the lock does not, and nobody else writes.  `StoppedIsDead` and
  `StopsEnd`: escalation makes a stop true and finite.  `StartsAfterCrash`:
  stale files never prevent a start, because the lock is on the open file.
* `StopMissesOnlyForRival`: a stop ends past a hub that fin started only when
  the PID file is missing and the scan of `/proc` met a second hub, on its way
  to fail on the port.  Without that exception the property is false: the
  stop then stops, or misses, the second hub and leaves the first.
* `life_two_holders`: `acquire` "raises `SystemExit` if another server already
  holds the lock" (hub/pidfile.py:56), but a start that gives up removes the
  lock file of whoever holds it, and the next hub locks a new one.
* `HubLifecycle` also states two properties no run is kept for, as either is
  false of the code: `NoBystanderSignalled` ("clients detect the stale state by
  attempting a non-blocking lock probe", hub/pidfile.py:7; none does, and `fin
  stop` signals whatever runs under the id in a stale PID file,
  cli/server.py:458), and `StopFindsHubs` (the scan is for "a running
  `fin-assist serve` process", cli/server.py:177, but matches only the command
  line of `_spawn_serve`).  Checked with the constants of `life_files`, TLC
  finds a counterexample to each.
* `OutcomeIsTheHubs`, `AnswerIsWhole`, `ScrollbackInOrder`, `ExitTellsTheOutcome`:
  a truncated stream is never reported as more than a failure; a whole one gives
  the hub's state, every deferred call once and the texts in order; `fin do`
  exits 0 only for a completed task or a user who gave up.  `OneConversation`:
  a command's tasks, as far as it heard of them, share one context, and the
  session file names it.
* `NoUngatedCall`: gating per tool asks at least as often as evaluation per call
  would.  `SkillBoundary`: a run is offered what the skills confirmed before it
  was built unlock, from whatever side they were loaded.  `ApprovedToolIsThere`:
  only a restart can take the tool from under an approved call.
  `RegistryIsComplete`: a hub that serves has every server's tools; one failing
  server prevents the start.  `NoChildLeftRunning`, `ToolCallsEnd`: escalation
  signals every child and always returns.
* `SpansAreAccounted`, `SpanTellsTheOutcome`, `ResumptionFollowsThePause` hold
  through pauses, failing saves, cancellations and restarts, with the exceptions
  named in `TaskTracing`.
* `ListsAreOfThisPrompt` holds: what completion offers is of the prompt at hand or
  was brought along by a completion that outlived its own.  `SentAsWritten` holds
  in every line in which no unknown reference contains a known one after it.
* In the others the code breaks the docstring of `resolve_at_references`,
  "Unrecognised `@type:ref` tokens are left as-is (not an error)" (prompt.py:232).
  `UnknownLeftAsIs` states that sentence; TLC refutes it within a second when it
  is added to PromptInput.cfg, and no run is kept for it.  Of `@git:diffs @git:diff`, or
  `@host:port@git:diff @git:diff`, the replacement (prompt.py:246) cuts the unknown
  reference and leaves the known one in the text.
* `setup_flat_file`: docs/configuration.md:123 describes the credentials file as
  "a flat JSON object"; with such a file `_get_from_file` raises before the
  `try` of `execute`, and the task ends without a final status.

Each property has a mutant: an operator beside the original (marked `Mutant:`)
with a plausible mistake, under which the property fails.

## Proofs

Every invariant that a passing run checks is also a theorem, for every value of
the constants that the named assumptions allow.

`HubExecutorProofs` proves, for every set of tasks, conversations and calls and
all bounds, from `NoContextAssumption`, `NoTaskAssumption` and
`BoundsAssumption`:

* `TypeCorrect`: `Spec => []TypeOK`.
* `TruthfulReports`: `Spec => []ReportsAreTruthful`.  The property is not
  inductive: that a completing task has saved depends on where it stands.
  `CommitInv` ties `committed` to the places before and after the save and says
  that stored and loaded conversations hold only committed turns; `ReportInv`
  adds that a task that reported failure has stopped and cannot save any more.
  One lemma covers the statements that neither save nor load (`QuietCommit`),
  one the saves (`SaveCommit`), one the statements that report (`TellReport`)
  and one those that do not (`SilentReport`).
* `AnnouncedResumable`: `Spec => []AnnouncedIsResumable`.  The strengthening
  says that a task between its saves and its report is alone on the loop
  (`AloneInv`), that what it has written is still there (`PausingInv`), and
  that an announced task has ended (`AnnouncedInv`), so that whoever saves
  later is another task and becomes the `by` of the row.

It proves the remaining invariants of `HubExecutor` from the same assumptions and
on top of the invariants above:

* `ClosedConversations`, `ApprovalsArrive`, `OnlyApprovedRun`: `Spec =>` always
  `ConversationsAreClosed`, `ApprovalsReachTheRun`, `OnlyApprovedPendingCallsRun`.
  They share one inductive invariant, `RunInv`.  `ClosedInv` says of loaded
  histories what is claimed of stored ones, since what a task saves is what it
  loaded and itself.  `AnswerInv` traces an answer back to a task that committed
  to its conversation, which `CommitInv` keeps from becoming empty: so there is
  always a history to resume.  `AskedInv` says that the calls a stored or loaded
  history waits for were asked by the task that saved it, which has committed and
  asks no more; `CallInv` that the calls left to run, and those that ran, are
  approved ones.  `EarlyInv` says that nothing of this exists before the run.
* `ArtifactsInOrder`: `Spec => []ArtifactProtocol`, by `ArtifactInv`, which ties
  `created` to the updates sent and the closing update to the place after
  `LastChunk`.

Last comes `HubImplementsTurns`: `Spec => ImplementsTurns`, that is, the refinement of
`ConversationTurns` under the mapping of `MCHubExecutor`.  It needs one more invariant, `LiveInv`: a task still running was told nothing final but
that it is canceled, so a report of the executor is dropped exactly when the
abstract one is.  Each statement maps to a step of its own kind (`OpenStep`,
`CommitStep`, `SucceedStep`, `FailStep`, `VanishStep`) or to a stutter
(`StutterStep`); a message binds, a cancellation revokes, a crash forgets.

`ApprovalFlowProofs` adds the chat loops, for every set of sessions, from
`SessionAssumption` and those above.  `FlowIsHub`, `FlowSpec => Spec`, carries over
whatever holds of the executor alone (`FlowResumable` is an example).

* `FlowTypeCorrect`: `FlowSpec => []FlowTypeOK`.  A session waits only for a task that
  was sent, and decides only about one that was announced (`ToldInv`).
* `ExecutedOnce`: `FlowSpec => []ExecutedAtMostOnce`, whatever is shared, fails or
  times out.  `OnceInv` says that no two messages answer one task, no session is
  about to answer one that was answered, and no two follow the same task;
  `CallsApartInv` that a call is asked for by one task; `AnswersInv` that an answer
  decides the calls of the task it answers.  So two executions of a call would
  be two answers to one pause.
* `SerialLosesNoTurn`, `SerialAnswersMeet`: if `Serial`, then always `NoTurnLost` and
  `AnswersMeetTheirPause`.  `Serial` says that clients do not time out and no two
  sessions share a conversation; `flow_serial` is an instance of it, and
  `flow_lost_turn` shows that the second half is needed.  Then a task at work has
  its session to itself (`FollowedInv`), hence a run's copy of a conversation is the
  stored one until it saves (`FreshInv`), and a pause stays the last thing saved
  until its answer runs (`StandsInv`).

`HubLifecycleProofs` proves, for every set of processes, starts and stops and all
bounds, from `NoneAssumption`, `CommandsAssumption` and `LifecycleBounds`:

* `LifeTypeCorrect`: `LifeSafety => []LifeTypeOK`, which says where a process has
  the port and the lock.  `TargetOK` is added: a command about to signal has a
  process to signal.
* `PidFileTruthful`: `LifeSafety => []PidFileNeverMisleads`.  Whoever writes has
  the port (`LifeTypeOK`), and so had every hub already announced
  (`PidFilePreserved`).
* `StopKills`: `LifeSafety => []StoppedIsDead`, and `StopFindsHub`:
  `LifeSafety => []StopMissesOnlyForRival`.  `LifeInv` adds that no step revives
  a process (`StepOnward`), that every stored pid is that of a process once
  started (`BornOK`), and, per stop, that it removes files only after the death
  of its process and chose a hub of fin whenever it observed one (`StopOK`).

`AgentToolsProofs` proves, for every set of tools, servers, skills, conversations and
policies, from `ToolsAssumption`:

* `GateIsNeverLaxer`: a call that `evaluate` sends to the user is one of a gated
  tool.  The rule that decides is the first that matches; the gate looks at every
  rule, hence also at that one.  That there is a first one is `LeastExists`,
  from the well-foundedness of the naturals.
* `ToolsTypeCorrect`: `ToolsSpec => []ToolsTypeOK`.
* `CallsAreGated`, `SkillsAreBounded`, `ApprovedToolStays`: `ToolsSpec =>` always
  `NoUngatedCall`, `SkillBoundary`, `ApprovedToolIsThere`.  `AgentInv` adds to the types
  that the skills of a hub are those confirmed, and for each run that what it
  offers is what those skills unlocked when it was built, that skills only
  grow until a restart, and that an unapproved call is one of an ungated tool.
* `ChildrenAreSignalled`: `ToolsSpec => []NoChildLeftRunning`, by `SignalInv`, which
  says at which places of a call its child may still be running.
* `RegistriesAreComplete`: `ToolsSpec => []RegistryIsComplete`, by `RegistryInv`: the
  registry being filled holds the tools of the servers connected so far, and the
  second one is begun only when the first is complete.

`TaskTracingProofs` proves, for any number of tasks, calls, commands and faults, from
`TracingAssumption`:

* `TracingTyped`, `SpansAccounted`, `OutcomeOnTheSpan`, `ResumptionsFollow`:
  `TracingSpec =>` always `TracingTypeOK`, `SpansAreAccounted`, `SpanTellsTheOutcome`,
  `ResumptionFollowsThePause`.  They share `TracingInv`.  `IdsInv` says that every id
  at hand is that of a span of the log or 0, `TreeInv` where each kind of span
  stands, `WorkInv` what is open, and what the row will hold, at each place of
  the run, and `DoneInv` what remains of a task that is over.  The link from a
  resumption to its pause passes through the database and another command:
  `AskedInv` says what a resumption will find in the row, `AnswersInv` what the
  one that found it has linked.  Spans are only appended and ended, never
  reopened, so what holds of an ended span holds for good.

`ClientTurnsProofs` proves, for all bounds on messages and parts, from
`ClientAssumption`:

* `TurnsTyped`, `OutcomesAreTheHubs`, `AnswersAreWhole`, `ScrollbackOrdered`, `OneContext`,
  `ExitTruthful`: `Spec =>` always `TurnsTypeOK`, `OutcomeIsTheHubs`, `AnswerIsWhole`,
  `ScrollbackInOrder`, `OneConversation`, `ExitTellsTheOutcome`.  They share
  `TurnsInv`.  `WireInv` says that what was collected and what is still on the wire
  make up the hub's log, in order; `LogInv` that a run that defers or ends
  has a log to show for it; `ViewInv` that the screen with what is held back is
  what was collected; `ResultInv` that a result says no more than the stream
  did; `ContextInv` that the hub's tasks are in the context the command holds.

`PromptInputProofs` proves, for any number of files, threads, prompts and changes
and lines of any length, from `PromptAssumption` (whose last parts say
that a file reference of a line names a file and that the text of a reference is
never inside a word):

* `PromptTyped`, `ListsOfThisPrompt`, `SentWordForWord`: `PromptSpec =>` always
  `PromptTypeOK`, `ListsAreOfThisPrompt`, `SentAsWritten`.  `ListInv` says that the
  lists in the cache and in the threads' hands are of this prompt or of one
  whose completion was at work when it began; `LineInv` says that the sections
  are those of the references done, each no older than the line, and that the
  rest is what the chunks done leave (`Unread`) followed by all that is left.
  `ItemLeft` and `ItemTaken` are the two cases of its step: a chunk stays where it
  is, or the first occurrence of its reference is taken out, and that is its own
  because no chunk done that is still there contains it (`UnreadHolds`).

`SequenceProofs` has the lemmas on which the last two rest: what `OfKind` and
`FlattenSeq` return for a sequence with one more item, and that they keep types and
prefixes.  Both are recursive functions, and the induction theorems of the
library take an operator that the provers cannot instantiate; instead `UpTo`
does induction for a set of numbers, from the well-foundedness of the naturals
(`LeastExists`), and the operator's property becomes such a set.

TLC alone checks liveness: `StreamsEnd`, `StopsEnd`, `StartsAfterCrash` and
`ToolCallsEnd` need `ENABLED` and fairness, which the provers cannot handle.  The
properties of the expected violations are false, so there is nothing to prove;
`ModelSetup` has no other.

## Plan

Modelled, in this order: `HubExecutor` with `ConversationTurns` and
`ApprovalFlow`; `HubLifecycle`; `ClientTurns`; `ToolPolicies`, `ToolChild` and
`AgentTools`; `TaskTracing`; `PromptInput`; `ModelSetup`.

Every invariant of a passing run is proved.  Left is the relation between
modules that now rests on reading: that `hub` and `wire` of `ClientTurns` are what
`HubExecutor` reports of a task, and that the outcomes `TaskTracing` writes on its
spans are the `status` of the same task there.

## Not modelled

* The export pipeline (`hub/tracing.py`, `tracing_shared.py`,
  `hub/file_exporter.py`) configures OpenTelemetry; its own state is a failure
  flag that a delegate which returns `FAILURE` resets (tracing_shared.py:275),
  and a file handle.
* Agent cards and discovery, mounting of agents, argument parsing, `display.py`:
  constant once built, or printing.
* The parsers of SKILL.md and of histories, `SkillLoader`, `emit_skill_load_span`,
  `MCPToolProvider.close`, `set_api_key`: texts, or without a caller in `src`.
* `read_file`, `shell_history` and completion of commands and skills, with their
  ranking: reads without state.
* Prompts, and the content and formatting of messages: a history that was saved
  loads as the same history.  `RunResult` without a final result
  (`agents/backend.py`, an empty history for a run that ended without one) does
  not occur with the pydantic-ai graph and is left out.
* Windows branches.
