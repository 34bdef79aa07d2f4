---------------------------- MODULE ClientTurns ----------------------------
(***************************************************************************)
(* One `fin do` or `fin talk` (cli/main.py, cli/interaction/chat.py): the  *)
(* messages it sends, the stream of each read by HubClient.stream_agent    *)
(* (cli/client.py), rendered by render_stream (cli/interaction/            *)
(* streaming.py) and judged by handle_post_response (response.py).         *)
(*                                                                         *)
(* The hub is what hub/executor.py puts on the wire for one task: the task *)
(* itself, "working", the parts its run yields, one terminal status.  A    *)
(* part is its kind and its number in that task's log; texts, arguments    *)
(* and layout are left out.  A stream may end early, cleanly or by an      *)
(* exception, after any update.                                            *)
(***************************************************************************)
EXTENDS KindSequences, SequencesExt

CONSTANTS
  Call,          \* tool calls that need approval
  MaxSends,      \* bound: messages the command sends
  MaxParts,      \* bound: parts a run yields before it ends or defers
  ShowThinking,  \* --show-thinking
  Breaks         \* TRUE iff a stream may end before its task does

ASSUME ClientAssumption ==
  /\ MaxSends \in Nat \ {0}
  /\ MaxParts \in Nat
  /\ ShowThinking \in BOOLEAN
  /\ Breaks \in BOOLEAN

VARIABLES
  mode,      \* "do", or "talk", or "resume" for talk --resume
  place,     \* where the command stands
  ctx,       \* the context id it holds; 0 for none
  sends,     \* for each message sent, the context of the hub's task
  heard,     \* the messages whose task reached render_stream's result
  hub,       \* the hub's side of the current task
  wire,      \* updates sent and not read yet
  task,      \* stream_agent's copy of the task
  artifacts, \* collected_artifacts: a part each
  view,      \* what render_stream has shown and holds back
  result,    \* what render_stream returned
  session,   \* the context id in the session file; 0 for no file
  exit       \* the exit code, once the command has ended

vars == <<mode, place, ctx, sends, heard, hub, wire, task, artifacts, view,
          result, session, exit>>

-----------------------------------------------------------------------------
Streamed   == {"text", "thinking", "tool_call", "tool_result", "blank_result"}
Part       == [kind : Streamed \cup {"deferred", "closing", "data"},
               id : Nat \cup Call]
HubState   == {"none", "submitted", "working", "completed", "failed",
               "auth_required", "input_required"}
Place      == {"start", "idle", "streaming", "deciding", "ended"}
Outcome    == {"none", "completed", "failed", "auth_required", "input_required"}

Nothing == [kind |-> "nothing", id |-> 0]
NoTask  == [context |-> 0, state |-> "none", notes |-> <<>>]
NoHub   == [context |-> 0, state |-> "none", log |-> <<>>]
Blank   == [screen |-> <<>>, answer |-> <<>>, buffer |-> <<>>]
NoResult == [outcome |-> "none", output |-> Nothing, calls |-> <<>>,
             whole |-> FALSE]

TaskUpdate       == [type |-> "task"]
StatusUpdate(s)  == [type |-> "status", state |-> s]
ArtifactUpdate(p) == [type |-> "artifact", part |-> p]

Ids(parts) == [i \in DOMAIN parts |-> parts[i].id]

Init ==
  /\ mode \in {"do", "talk", "resume"}
  /\ place = "start"
  /\ ctx = 0
  /\ sends = <<>>
  /\ heard = {}
  /\ hub = NoHub
  /\ wire = <<>>
  /\ task = NoTask
  /\ artifacts = <<>>
  /\ view = Blank
  /\ result = NoResult
  /\ session = 0
  /\ exit = "running"

-----------------------------------------------------------------------------
(* The hub: what execute() sends for one task.                             *)

SavedContext == MaxSends + 1   \* what the session file of --resume holds
HubSide == <<hub, wire>>
Command == <<mode, ctx, sends, heard, session, exit>>
Reader  == <<task, artifacts, view, result>>

Post(updates) == wire' = wire \o updates

\* One part of the run, dispatched as an artifact update.
HubEmits(kind) ==
  /\ place = "streaming"
  /\ hub.state = "working"
  /\ Len(hub.log) < MaxParts
  /\ OfKind(hub.log, {"deferred"}) = <<>>
  /\ LET p == [kind |-> kind, id |-> Len(hub.log) + 1] IN
     /\ hub' = [hub EXCEPT !.log = Append(@, p)]
     /\ Post(<<ArtifactUpdate(p)>>)
  /\ UNCHANGED <<place, Command, Reader>>

\* The run has ended with calls to approve: one artifact for each.
HubDefers(k) ==
  /\ place = "streaming"
  /\ hub.state = "working"
  /\ k \notin ToSet(Ids(OfKind(hub.log, {"deferred"})))
  /\ LET p == [kind |-> "deferred", id |-> k] IN
     /\ hub' = [hub EXCEPT !.log = Append(@, p)]
     /\ Post(<<ArtifactUpdate(p)>>)
  /\ UNCHANGED <<place, Command, Reader>>

HubEnds(state, parts) ==
  /\ place = "streaming"
  /\ hub.state = "working"
  /\ hub' = [hub EXCEPT !.state = state, !.log = @ \o parts]
  /\ Post([i \in DOMAIN parts |-> ArtifactUpdate(parts[i])]
            \o <<StatusUpdate(state)>>)
  /\ UNCHANGED <<place, Command, Reader>>

\* _setup_task finds credentials missing, _pause_for_approval, the except
\* clause, and _finalize with its last chunk and its structured artifact.
HubNeedsAuth == hub.log = <<>> /\ HubEnds("auth_required", <<>>)
HubPauses == OfKind(hub.log, {"deferred"}) # <<>> /\ HubEnds("input_required", <<>>)
HubFails  == HubEnds("failed", <<>>)
HubCompletes(structured) ==
  /\ OfKind(hub.log, {"deferred"}) = <<>>
  /\ HubEnds("completed", <<[kind |-> "closing", id |-> 0]>>
                \o IF structured THEN <<[kind |-> "data", id |-> 0]>> ELSE <<>>)

HubStep ==
  \/ \E kind \in Streamed : HubEmits(kind)
  \/ \E k \in Call : HubDefers(k)
  \/ HubNeedsAuth \/ HubPauses \/ HubFails
  \/ \E structured \in BOOLEAN : HubCompletes(structured)

-----------------------------------------------------------------------------
(* render_stream: one StreamEvent at a time.                               *)

Flushed(v) ==
  [v EXCEPT !.buffer = <<>>,
            !.screen = IF v.buffer # <<>> /\ ShowThinking
                         THEN Append(@, [kind |-> "thinking", ids |-> v.buffer])
                         ELSE @]

Printed(v, p) ==
  [v EXCEPT !.screen = Append(@, [kind |-> p.kind, ids |-> <<p.id>>])]

\* Mutant: a tool call does not flush the thinking held back.
RenderedUnflushed(v, p) ==
  CASE p.kind = "text"     -> [Flushed(v) EXCEPT !.answer = Append(@, p)]
    [] p.kind = "thinking" -> [v EXCEPT !.buffer = Append(@, p.id)]
    [] p.kind = "tool_call" -> Printed(v, p)
    [] p.kind = "tool_result" -> Printed(Flushed(v), p)
    [] OTHER -> Flushed(v)

\* The event stream_agent makes of a part, shown.  The closing chunk and a
\* deferred call make none, and structured data makes one without text.
Rendered(v, p) ==
  CASE p.kind = "text"     -> [Flushed(v) EXCEPT !.answer = Append(@, p)]
    [] p.kind = "thinking" -> [v EXCEPT !.buffer = Append(@, p.id)]
    [] p.kind \in {"tool_call", "tool_result"} -> Printed(Flushed(v), p)
    [] p.kind \in {"blank_result", "data"} -> Flushed(v)
    [] p.kind \in {"deferred", "closing"}  -> v

\* Mutant: the result's output replaces the text already streamed.
ClosedWithOutput(v, output, calls) ==
  LET w == Flushed(v) IN
  IF output # Nothing /\ calls = <<>> THEN [w EXCEPT !.answer = <<output>>]
                                      ELSE w

\* After the last event: trailing thinking, and the result's output where no
\* text has been streamed and nothing waits for approval.
Closed(v, output, calls) ==
  LET w == Flushed(v) IN
  IF w.answer = <<>> /\ output # Nothing /\ calls = <<>>
    THEN [w EXCEPT !.answer = <<output>>] ELSE w

-----------------------------------------------------------------------------
(* stream_agent.                                                           *)

\* Mutant: input_required is missing from _TERMINAL_STATES.
StopsReadingIncomplete == {"completed", "failed", "auth_required"}

\* _TERMINAL_STATES, as far as the hub's executor sets them.
StopsReading == {"completed", "failed", "auth_required", "input_required"}

\* Only these two statuses carry a message of the agent.
Noted == {"auth_required", "input_required"}

Known(t) == t.context # 0

\* Mutant: a status update changes the task's state but for the terminal one.
AppliedExceptLast(t, s) ==
  IF ~Known(t) \/ s \in StopsReading THEN t ELSE [t EXCEPT !.state = s]

\* _apply_status_update; without a task the update is dropped.
Applied(t, s) ==
  IF ~Known(t) THEN t
  ELSE [t EXCEPT !.state = s, !.notes = IF s \in Noted THEN Append(@, s) ELSE @]

\* Mutant: the calls are those of the newest artifact that has one.
DeferredCallsNewest(parts) ==
  LET calls == Ids(OfKind(parts, {"deferred"})) IN
  IF calls = <<>> THEN <<>> ELSE <<Last(calls)>>

\* _extract_deferred_calls: newest artifact first.
DeferredCalls(parts) == Reverse(Ids(OfKind(parts, {"deferred"})))

\* _extract_from_artifacts, then _extract_from_history: the newest text or
\* command, else the newest message of the agent.
Output(t, parts) ==
  LET said == OfKind(parts, {"text", "data"}) IN
  IF said # <<>> THEN Last(said)
  ELSE IF t.notes # <<>> THEN [kind |-> Last(t.notes), id |-> 0]
  ELSE Nothing

\* Mutant: the outcome is whatever state the task is in.
OutcomeOfState(t) == t.state

\* The kind of the last StreamEvent.
OutcomeOf(t) ==
  IF t.state \in {"input_required", "auth_required", "completed"}
    THEN t.state ELSE "failed"

\* Mutant: the context id of a result without a task replaces the one held.
NextContextForgetful(t) == t.context

\* `ctx_id = result.context_id or ctx_id`.
NextContext(t) == IF t.context # 0 THEN t.context ELSE ctx

\* run_chat_loop returns: a new conversation gets a session file, if any task
\* was ever heard of.
LeaveChat(context) ==
  /\ place' = "ended"
  /\ exit' = "zero"
  /\ session' = IF mode = "talk" THEN context ELSE session

\* Mutant: `fin do` ends with 0 whatever the result.
AfterTurnAlwaysZero(outcome, context) ==
  IF mode = "do"
    THEN /\ place' = "ended"
         /\ exit' = "zero"
         /\ UNCHANGED session
  ELSE IF outcome = "auth_required" THEN LeaveChat(context)
  ELSE place' = "idle" /\ UNCHANGED <<exit, session>>

\* handle_post_response, and what either command does with its verdict.
AfterTurn(outcome, context) ==
  IF mode = "do"
    THEN /\ place' = "ended"
         /\ exit' = IF outcome = "completed" THEN "zero" ELSE "one"
         /\ UNCHANGED session
  ELSE IF outcome = "auth_required" THEN LeaveChat(context)
  ELSE place' = "idle" /\ UNCHANGED <<exit, session>>

\* The stream is over: the last StreamEvent, the end of render_stream, and
\* the command's next move.
Conclude(t, whole) ==
  LET outcome == OutcomeOf(t)
      calls   == IF outcome = "input_required" THEN DeferredCalls(artifacts)
                                               ELSE <<>>
      output  == IF Known(t) THEN Output(t, artifacts)
                 ELSE [kind |-> "no_response", id |-> 0]
  IN /\ task' = t
     /\ view' = Closed(view, output, calls)
     /\ result' = [outcome |-> outcome, output |-> output, calls |-> calls,
                   whole |-> whole]
     /\ ctx' = NextContext(t)
     /\ heard' = IF Known(t) THEN heard \cup {Len(sends)} ELSE heard
     /\ IF calls # <<>>
          THEN place' = "deciding" /\ UNCHANGED <<exit, session>>
          ELSE AfterTurn(outcome, ctx')

ReadTask ==
  /\ Head(wire).type = "task"
  /\ task' = [context |-> hub.context, state |-> "submitted", notes |-> <<>>]
  /\ UNCHANGED <<artifacts, view, result, Command, place>>

ReadStatus ==
  /\ Head(wire).type = "status"
  /\ LET t == Applied(task, Head(wire).state) IN
     IF Head(wire).state \in StopsReading
       THEN Conclude(t, TRUE) /\ UNCHANGED artifacts
       ELSE task' = t /\ UNCHANGED <<artifacts, view, result, Command, place>>
  /\ UNCHANGED <<mode, sends>>

ReadArtifact ==
  /\ Head(wire).type = "artifact"
  /\ artifacts' = Append(artifacts, Head(wire).part)
  /\ view' = Rendered(view, Head(wire).part)
  /\ UNCHANGED <<task, result, Command, place>>

ReadUpdate ==
  /\ place = "streaming"
  /\ wire # <<>>
  /\ wire' = Tail(wire)
  /\ ReadTask \/ ReadStatus \/ ReadArtifact
  /\ UNCHANGED hub

\* The connection closes without an exception: what has been read counts.
StreamEnds ==
  /\ Breaks
  /\ place = "streaming"
  /\ wire' = <<>>
  /\ Conclude(task, FALSE)
  /\ UNCHANGED <<artifacts, mode, sends, hub>>

\* The stream raises: `fin do` ends with 1, the chat loop prints the error and
\* goes on with the context it already had.
StreamRaises ==
  /\ Breaks
  /\ place = "streaming"
  /\ wire' = <<>>
  /\ IF mode = "do" THEN place' = "ended" /\ exit' = "one"
                    ELSE place' = "idle" /\ UNCHANGED exit
  /\ UNCHANGED <<mode, ctx, sends, heard, session, hub, Reader>>

\* Ctrl-C while streaming is no Exception: nothing is saved.
Interrupt ==
  /\ place = "streaming"
  /\ place' = "ended"
  /\ exit' = "interrupted"
  /\ UNCHANGED <<mode, ctx, sends, heard, session, HubSide, Reader>>

-----------------------------------------------------------------------------
(* The commands.                                                           *)

\* stream_agent is called: the hub opens a task in the context it was given,
\* or in a new one, and answers with the task and "working".
Send(context) ==
  /\ Len(sends) < MaxSends
  /\ place' = "streaming"
  /\ LET used == IF context # 0 THEN context ELSE Len(sends) + 1 IN
     /\ sends' = Append(sends, used)
     /\ hub' = [context |-> used, state |-> "working", log |-> <<>>]
  /\ wire' = <<TaskUpdate, StatusUpdate("working")>>
  /\ task' = NoTask
  /\ artifacts' = <<>>
  /\ view' = Blank
  /\ result' = NoResult
  /\ UNCHANGED <<mode, ctx, heard, session, exit>>

End(code) ==
  /\ place' = "ended"
  /\ exit' = code
  /\ UNCHANGED <<mode, ctx, sends, heard, session, HubSide, Reader>>

\* No such session, no hub, no such agent, or an agent not served this way.
StartFails == place = "start" /\ End("one")

\* An empty or abandoned prompt ends `fin do`.
PromptAbandoned == place = "start" /\ mode = "do" /\ End("zero")
DoSends         == place = "start" /\ mode = "do" /\ Send(0)

StartChat ==
  /\ place = "start"
  /\ mode # "do"
  /\ place' = "idle"
  /\ ctx' = IF mode = "resume" THEN SavedContext ELSE 0
  /\ UNCHANGED <<mode, sends, heard, session, exit, HubSide, Reader>>

\* Slash commands but /exit, and empty input, leave all of this alone.
ChatSends == place = "idle" /\ Send(ctx)

ChatExits ==
  /\ place = "idle"
  /\ LeaveChat(ctx)
  /\ UNCHANGED <<mode, ctx, sends, heard, HubSide, Reader>>

\* The widget answers all the calls: they are approved, or denied, and the
\* decisions are sent in the context of the paused task.
Decide == place = "deciding" /\ Send(ctx)

\* Ctrl-C in the widget.
WidgetCancelled ==
  /\ place = "deciding"
  /\ IF mode = "do" THEN End("zero")
     ELSE /\ place' = "idle"
          /\ UNCHANGED <<Command, HubSide, Reader>>

Next ==
  \/ HubStep
  \/ ReadUpdate \/ StreamEnds \/ StreamRaises \/ Interrupt
  \/ StartFails \/ PromptAbandoned \/ DoSends
  \/ StartChat \/ ChatSends \/ ChatExits
  \/ Decide \/ WidgetCancelled

Spec == Init /\ [][Next]_vars

-----------------------------------------------------------------------------
\* Types.  A result is there only between a concluded stream and the next
\* message, and the wire is read dry before anything else is sent.
TurnsTypeOK ==
  /\ mode \in {"do", "talk", "resume"}
  /\ place \in Place
  /\ ctx \in 0..SavedContext
  /\ \A i \in DOMAIN sends : sends[i] \in 1..SavedContext
  /\ Len(sends) <= MaxSends
  /\ heard \subseteq DOMAIN sends
  /\ hub.state \in HubState
  /\ \A i \in DOMAIN hub.log : hub.log[i] \in Part
  /\ task.state \in HubState
  /\ result.outcome \in Outcome
  /\ session \in 0..SavedContext
  /\ exit \in {"running", "interrupted", "zero", "one"}
  /\ exit = "running" <=> place # "ended"
  /\ place = "deciding" => result.outcome = "input_required"

\* What the user is told is what became of the task: a stream read to its end
\* reports the task's last state, no truncated stream reports anything but a
\* failure, and the approval widget gets every call the paused task deferred,
\* each of them once (client.py stream_agent, _apply_status_update,
\* _extract_deferred_calls).
OutcomeIsTheHubs ==
  /\ result.whole => result.outcome = hub.state
  /\ result.outcome \in {"completed", "input_required", "auth_required"}
       => result.whole
  /\ result.whole =>
       LET due == IF hub.state = "input_required"
                    THEN Ids(OfKind(hub.log, {"deferred"})) ELSE <<>> IN
       /\ ToSet(result.calls) = ToSet(due)
       /\ Len(result.calls) = Len(due)

\* The answer on the screen is every text the run streamed, in its order and
\* nothing else; where it streamed none, a completed task shows its structured
\* result (streaming.py accumulated_text, client.py _extract_from_artifacts).
AnswerIsWhole ==
  LET texts == OfKind(hub.log, {"text"}) IN
  result.whole =>
    IF texts # <<>> THEN view.answer = texts
    ELSE result.outcome = "completed" => view.answer = OfKind(hub.log, {"data"})

\* What is committed to the terminal never overtakes: at every moment it is
\* the hub's thinking, calls and results so far, in the hub's order, and a
\* finished stream holds nothing back (streaming.py _flush_thinking).
ScrollbackInOrder ==
  LET kinds == {"tool_call", "tool_result"}
                 \cup IF ShowThinking THEN {"thinking"} ELSE {}
      due   == Ids(OfKind(hub.log, kinds))
      shown == FlattenSeq([i \in DOMAIN view.screen |-> view.screen[i].ids])
  IN /\ IsPrefix(shown, due)
     /\ result.whole => shown = due

\* One command, one conversation: all the tasks it has heard of ran in one
\* context, the session's own if it resumed one, and the session file it
\* leaves names that context (chat.py ctx_id, main.py _save_session).
OneConversation ==
  /\ \A i, j \in heard : sends[i] = sends[j]
  /\ mode = "resume" => \A i \in DOMAIN sends : sends[i] = SavedContext
  /\ session # 0 => heard # {} /\ \A i \in heard : sends[i] = session

\* `fin do` succeeds only if its last task completed, or the user gave up at
\* the prompt or in the widget (main.py _do_command).
ExitTellsTheOutcome ==
  mode = "do" /\ sends # <<>> /\ exit \in {"zero", "one"} =>
    (exit = "zero" <=> result.outcome \in {"completed", "input_required"})

=============================================================================
