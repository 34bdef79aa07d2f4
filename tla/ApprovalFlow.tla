---------------------------- MODULE ApprovalFlow ---------------------------
(***************************************************************************)
(* The chat loop of the CLI (cli/interaction/chat.py, over stream_agent of *)
(* cli/client.py) driving the hub's executor.  A session sends one message *)
(* at a time in its conversation, follows the task until the hub reports   *)
(* an outcome, shows the approval widget when that outcome is              *)
(* input_required, and answers all the calls it was shown at once, or      *)
(* abandons them.  The CLI never cancels a task.                           *)
(***************************************************************************)
EXTENDS HubExecutor, FiniteSets

CONSTANTS
  Session,         \* running chat loops
  ConversationOf,  \* the context id each of them uses
  ClientTimeouts   \* TRUE iff a stream may end before its task does

ASSUME SessionAssumption ==
  /\ ConversationOf \in [Session -> Context]
  /\ ClientTimeouts \in BOOLEAN

VARIABLES
  loop,      \* where the chat loop of each session stands
  current    \* the task the session sent last

flowVars == <<vars, loop, current>>

LoopPlace == {"prompting", "streaming", "deciding", "left"}

FlowInit ==
  /\ Init
  /\ loop = [s \in Session |-> "prompting"]
  /\ current = [s \in Session |-> NoTask]

Turn(s, from, to) == loop[s] = from /\ loop' = [loop EXCEPT ![s] = to]

-----------------------------------------------------------------------------
SendPrompt(s, t) ==
  /\ Turn(s, "prompting", "streaming")
  /\ current' = [current EXCEPT ![s] = t]
  /\ Prompt(t, ConversationOf[s])

\* Mutant: input_required is missing from _TERMINAL_STATES.
ClientTerminalIncomplete == {"completed", "failed", "canceled", "auth_required"}

\* _TERMINAL_STATES: the states at which stream_agent stops reading.
ClientTerminal == {"completed", "failed", "canceled", "auth_required",
                   "input_required"}

\* Mutant: auth_required is handled like input_required.
SeeOutcomeMerged(s) ==
  LET outcome == status[current[s]] IN
  /\ loop[s] = "streaming"
  /\ outcome \in ClientTerminal
  /\ Turn(s, "streaming", IF outcome \in {"input_required", "auth_required"}
                            THEN "deciding" ELSE "prompting")
  /\ UNCHANGED <<vars, current>>

\* The stream delivers the outcome of the task.
SeeOutcome(s) ==
  LET outcome == status[current[s]]
      next == CASE outcome = "input_required" -> "deciding"
                [] outcome = "auth_required"  -> "left"
                [] OTHER -> "prompting"
  IN /\ loop[s] = "streaming"
     /\ outcome \in ClientTerminal
     /\ Turn(s, "streaming", next)
     /\ UNCHANGED <<vars, current>>

\* The stream raises: the executor did, or the hub died.
StreamBreaks(s) ==
  /\ loop[s] = "streaming"
  /\ pc[current[s]] \in {"raised", "dead"}
       \/ status[current[s]] = "lost"
  /\ Turn(s, "streaming", "prompting")
  /\ UNCHANGED <<vars, current>>

\* The HTTP client's timeout expires, or the user interrupts the stream: the
\* session moves on, the task does not stop.
TimesOut(s) ==
  /\ ClientTimeouts
  /\ Turn(s, "streaming", "prompting")
  /\ UNCHANGED <<vars, current>>

\* Mutant: after sending the decisions the loop offers the widget again.
DecideAgain(s, t, approve) ==
  LET asked == deferred[current[s]] IN
  /\ Turn(s, "deciding", "deciding")
  /\ UNCHANGED current
  /\ Answer(t, current[s], IF approve THEN asked ELSE {},
                           IF approve THEN {} ELSE asked)

\* The widget takes one decision for all the calls shown.
Decide(s, t, approve) ==
  LET asked == deferred[current[s]] IN
  /\ Turn(s, "deciding", "streaming")
  /\ current' = [current EXCEPT ![s] = t]
  /\ Answer(t, current[s], IF approve THEN asked ELSE {},
                           IF approve THEN {} ELSE asked)

\* Ctrl-C in the widget: the calls are dropped, here and nowhere else.
Abandon(s) ==
  /\ Turn(s, "deciding", "prompting")
  /\ UNCHANGED <<vars, current>>

-----------------------------------------------------------------------------
HubStep(t) == Execute(t) /\ UNCHANGED <<loop, current>>

Follow(s) == SeeOutcome(s) \/ StreamBreaks(s)

FlowNext ==
  \/ \E s \in Session :
       \/ \E t \in Task : \/ SendPrompt(s, t)
                          \/ \E approve \in BOOLEAN : Decide(s, t, approve)
       \/ Follow(s) \/ TimesOut(s) \/ Abandon(s)
  \/ \E t \in Task : HubStep(t)
  \/ Crash /\ UNCHANGED <<loop, current>>

\* The event loop keeps running every coroutine it has and the agent run of
\* each ends or raises; the client keeps reading its stream.  Nothing is
\* assumed of the user, the timeouts or the crashes.
FlowFairness ==
  /\ \A t \in Task : WF_flowVars(HubStep(t))
  /\ \A s \in Session : WF_flowVars(Follow(s))

FlowSpec == FlowInit /\ [][FlowNext]_flowVars /\ FlowFairness

-----------------------------------------------------------------------------
\* Types, and what a session stands on: a stream is that of a task that has
\* arrived, and the widget is open only for calls the hub has announced.
FlowTypeOK ==
  /\ TypeOK
  /\ loop \in [Session -> LoopPlace]
  /\ current \in [Session -> Task \cup {NoTask}]
  /\ \A s \in Session :
       /\ loop[s] = "streaming" => current[s] \in Task /\ pc[current[s]] # "new"
       /\ loop[s] = "deciding"  => current[s] \in announced

\* No turn the hub has saved ever disappears from its conversation.
NoTurnLost ==
  \A t \in committed : t \in history[ContextOf(t)].turns

\* A resumed task meets the pause the user answered: its span links to that
\* pause, it carries the prompt that led to it, and the conversation it loads
\* waits for exactly the calls decided (executor.py _detect_resume and
\* _load_history against the last save_pause_state and save).
AnswersMeetTheirPause ==
  \A t \in Task :
    pc[t] \in {"running", "deferring", "closing"} /\ Decisions(t) # {}
      => LET u == msg[t].answers IN
         /\ link[t] = u
         /\ userInput[t] = userInput[u]
         /\ loaded[t].by = u
         /\ loaded[t].pending = Decisions(t)

\* A call that needs approval is executed at most once, through failures,
\* timeouts, crashes and overlapping sessions.
ExecutedAtMostOnce == \A k \in Call : Cardinality(executed[k]) <= 1

\* Every message gets an outcome: the chat loop never stays in its stream.
StreamsEnd == \A s \in Session : loop[s] = "streaming" ~> loop[s] # "streaming"

=============================================================================
