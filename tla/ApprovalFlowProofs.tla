------------------------- MODULE ApprovalFlowProofs ------------------------
(***************************************************************************)
(* Theorems about ApprovalFlow.  The hub the chat loops drive is the one   *)
(* of HubExecutor (FlowIsHub), so everything proved of every client of the *)
(* hub holds here; what the loops add is that each announced pause is      *)
(* answered once, and, when sessions neither share a conversation nor give *)
(* up waiting, that no turn is lost and every answer meets its pause.      *)
(***************************************************************************)
EXTENDS ApprovalFlow, HubExecutorProofs, FiniteSetTheorems

Busy(s) == loop[s] \in {"streaming", "deciding"}

\* What is reported to wait for the user has been announced.
ToldInv == \A t \in Task : status[t] = "input_required" => t \in announced

\* The loop's part of the type invariant.
LoopInv ==
  /\ loop \in [Session -> LoopPlace]
  /\ current \in [Session -> Task \cup {NoTask}]
  /\ \A s \in Session :
       /\ loop[s] = "streaming"
            => current[s] \in Task /\ pc[current[s]] # "new"
       /\ loop[s] = "deciding" => current[s] \in announced

-----------------------------------------------------------------------------
(* Each pause is answered once.                                            *)

\* An answer is to an announced task and decides calls that task asked for.
AnswersInv ==
  \A t \in Task :
    LET u == msg[t].answers IN
    /\ u = NoTask => Decisions(t) = {}
    /\ u # NoTask => u \in announced /\ Decisions(t) = deferred[u]

\* A call was asked for by one task only.
CallsApartInv ==
  \A t, u \in Task : t # u => deferred[t] \cap deferred[u] = {}

\* No two messages answer one task, no session is about to answer one that
\* was answered, and no two sessions follow the same task.
OnceInv ==
  /\ \A t, u \in Task : t # u /\ msg[t].answers # NoTask
                          => msg[t].answers # msg[u].answers
  /\ \A s \in Session : Busy(s) => \A t \in Task : msg[t].answers # current[s]
  /\ \A s, r \in Session : s # r /\ Busy(s) /\ Busy(r)
                             => current[s] # current[r]

-----------------------------------------------------------------------------
(* Sessions that take turns.                                               *)

\* Sessions wait for the outcome of what they send, and none shares its
\* conversation with another.
Serial ==
  /\ ~ClientTimeouts
  /\ \A s, r \in Session : ConversationOf[s] = ConversationOf[r] => s = r

\* A task at work is followed by a session, which works on one task.
FollowedInv ==
  /\ \A t \in Task : status[t] # "canceled"
  /\ \A t \in Task : pc[t] \in InFlight
       => \E s \in Session : loop[s] = "streaming" /\ current[s] = t
  /\ \A s \in Session : Busy(s) => ContextOf(current[s]) = ConversationOf[s]

\* Until it saves, a run's copy of the conversation is the stored one.
FreshInv ==
  \A t \in Task : pc[t] \in {"running", "deferring", "closing"}
    => ContextOf(t) \in Context /\ loaded[t] = history[ContextOf(t)]

\* A pause stays the last thing saved in its conversation until the answer
\* to it runs.
StandsInv ==
  /\ \A s \in Session : Busy(s) /\ current[s] \in announced
       => history[ConversationOf[s]].by = current[s]
  /\ \A t \in Task : pc[t] \in Early \ {"new"} /\ Decisions(t) # {}
       => /\ ContextOf(t) \in Context
          /\ ContextOf(msg[t].answers) = ContextOf(t)
          /\ history[ContextOf(t)].by = msg[t].answers

TurnsInv == FreshInv /\ StandsInv /\ NoTurnLost /\ AnswersMeetTheirPause

-----------------------------------------------------------------------------
(* What a step of the hub does to what the loops rely on.                  *)

\* A statement of t moves t alone, which is at work, and reports nothing of
\* another task; it may announce t, and it never cancels.
Moves(t) ==
  /\ pc[t] \in InFlight /\ pc'[t] # "new"
  /\ \A u \in Task \ {t} : pc'[u] = pc[u] /\ status'[u] = status[u]
  /\ status'[t] # status[t] => status'[t] # "canceled"
  /\ announced \subseteq announced'
  /\ status'[t] = "input_required"
       => status[t] = "input_required" \/ t \in announced'

LEMMA ExecuteMoves ==
  ASSUME TypeOK, NEW t \in Task, Execute(t)
  PROVE  Moves(t) /\ msg' = msg
<1> USE LiveFacts
<1> DEFINE Goal == Moves(t) /\ msg' = msg
<1>1. CASE EnqueueTask(t)
  BY <1>1 DEF EnqueueTask, Goto, Publish, TypeOK, Moves, runVars, store
<1>2. CASE StartWork(t)
  BY <1>2 DEF StartWork, Goto, Publish, TypeOK, Moves, runVars, store
<1>3. CASE RequireAuth(t)
  BY <1>3 DEF RequireAuth, Goto, Publish, TypeOK, Moves, runVars, store
<1>4. CASE BeginRun(t)
  BY <1>4 DEF BeginRun, Goto, Publish, TypeOK, Moves, runVars, store
<1>5. CASE DetectResumeFails(t)
  BY <1>5 DEF DetectResumeFails, Goto, Publish, TypeOK, Moves, runVars, store
<1>6. CASE LoadHistoryFails(t)
  BY <1>6 DEF LoadHistoryFails, Goto, Publish, TypeOK, Moves, runVars, store
<1>7. CASE StreamChunk(t)
  BY <1>7 DEF StreamChunk, Goto, Publish, TypeOK, Moves, runVars, store
<1>8. ASSUME NEW k \in Call, ExecuteCall(t, k) PROVE Goal
  BY <1>8 DEF ExecuteCall, Goto, Publish, TypeOK, Moves, runVars, store
<1>9. ASSUME NEW k \in Call, SurfaceCall(t, k) PROVE Goal
  BY <1>9 DEF SurfaceCall, Goto, Publish, TypeOK, Moves, runVars, store
<1>10. ASSUME NEW D \in SUBSET FreshCalls, DeferCalls(t, D) PROVE Goal
  BY <1>10 DEF DeferCalls, Goto, Publish, TypeOK, Moves, runVars, store
<1>11. CASE RunFails(t)
  BY <1>11 DEF RunFails, Goto, Publish, TypeOK, Moves, runVars, store
<1>12. CASE SaveFails(t)
  BY <1>12 DEF SaveFails, Goto, Publish, TypeOK, Moves, runVars, store
<1>13. CASE SavePausedHistory(t)
  BY <1>13 DEF SavePausedHistory, Goto, Publish, TypeOK, Moves, runVars, store
<1>14. CASE SavePauseState(t)
  BY <1>14 DEF SavePauseState, Goto, Publish, TypeOK, Moves, runVars, store
<1>15. CASE RequireInput(t)
  BY <1>15 DEF RequireInput, Goto, Publish, TypeOK, Moves, runVars, store
<1>16. CASE LastChunk(t)
  BY <1>16 DEF LastChunk, Goto, Publish, TypeOK, Moves, runVars, store
<1>17. CASE SaveTurn(t)
  BY <1>17 DEF SaveTurn, Goto, Publish, TypeOK, Moves, runVars, store
<1>18. CASE StructuredArtifact(t)
  BY <1>18 DEF StructuredArtifact, Goto, Publish, TypeOK, Moves, runVars, store
<1>19. CASE Complete(t)
  BY <1>19 DEF Complete, Goto, Publish, TypeOK, Moves, runVars, store
<1> QED
  BY <1>1, <1>2, <1>3, <1>4, <1>5, <1>6, <1>7, <1>8, <1>9, <1>10, <1>11,
     <1>12, <1>13, <1>14, <1>15, <1>16, <1>17, <1>18, <1>19
  DEF Execute

\* Only a run asks for calls, and for calls nobody asked for before.
Asks(t) ==
  \/ deferred' = deferred
  \/ pc[t] = "running" /\ \E D \in SUBSET FreshCalls :
                            deferred' = [deferred EXCEPT ![t] = D]

LEMMA ExecuteAsks ==
  ASSUME NEW t \in Task, Execute(t)
  PROVE  Asks(t)
<1>1. CASE EnqueueTask(t)
  BY <1>1 DEF EnqueueTask, Goto, Asks, runVars
<1>2. CASE StartWork(t)
  BY <1>2 DEF StartWork, Goto, Asks, runVars
<1>3. CASE RequireAuth(t)
  BY <1>3 DEF RequireAuth, Goto, Asks, runVars
<1>4. CASE BeginRun(t)
  BY <1>4 DEF BeginRun, Goto, Asks, runVars
<1>5. CASE DetectResumeFails(t)
  BY <1>5 DEF DetectResumeFails, Goto, Asks, runVars
<1>6. CASE LoadHistoryFails(t)
  BY <1>6 DEF LoadHistoryFails, Goto, Asks, runVars
<1>7. CASE StreamChunk(t)
  BY <1>7 DEF StreamChunk, Goto, Asks, runVars
<1>8. ASSUME NEW k \in Call, ExecuteCall(t, k) PROVE Asks(t)
  BY <1>8 DEF ExecuteCall, Goto, Asks, runVars
<1>9. ASSUME NEW k \in Call, SurfaceCall(t, k) PROVE Asks(t)
  BY <1>9 DEF SurfaceCall, Goto, Asks, runVars
<1>10. ASSUME NEW D \in SUBSET FreshCalls, DeferCalls(t, D) PROVE Asks(t)
  BY <1>10 DEF DeferCalls, Goto, Asks, runVars
<1>11. CASE RunFails(t)
  BY <1>11 DEF RunFails, Goto, Asks, runVars
<1>12. CASE SaveFails(t)
  BY <1>12 DEF SaveFails, Goto, Asks, runVars
<1>13. CASE SavePausedHistory(t)
  BY <1>13 DEF SavePausedHistory, Goto, Asks, runVars
<1>14. CASE SavePauseState(t)
  BY <1>14 DEF SavePauseState, Goto, Asks, runVars
<1>15. CASE RequireInput(t)
  BY <1>15 DEF RequireInput, Goto, Asks, runVars
<1>16. CASE LastChunk(t)
  BY <1>16 DEF LastChunk, Goto, Asks, runVars
<1>17. CASE SaveTurn(t)
  BY <1>17 DEF SaveTurn, Goto, Asks, runVars
<1>18. CASE StructuredArtifact(t)
  BY <1>18 DEF StructuredArtifact, Goto, Asks, runVars
<1>19. CASE Complete(t)
  BY <1>19 DEF Complete, Goto, Asks, runVars
<1> QED
  BY <1>1, <1>2, <1>3, <1>4, <1>5, <1>6, <1>7, <1>8, <1>9, <1>10, <1>11,
     <1>12, <1>13, <1>14, <1>15, <1>16, <1>17, <1>18, <1>19
  DEF Execute

-----------------------------------------------------------------------------
(* The hub in the flow is the hub: its messages are some of those Receive  *)
(* allows.                                                                 *)

LEMMA SendIsReceive ==
  ASSUME TypeOK, NEW s \in Session, NEW t \in Task,
         SendPrompt(s, t) \/ \E approve \in BOOLEAN : Decide(s, t, approve)
  PROVE  Receive(t)
<1>1. CASE SendPrompt(s, t)
  BY <1>1, SessionAssumption DEF SendPrompt, Receive
<1>2. ASSUME NEW approve \in BOOLEAN, Decide(s, t, approve) PROVE Receive(t)
  <2> DEFINE asked == deferred[current[s]]
             yes   == IF approve THEN asked ELSE {}
             no    == IF approve THEN {} ELSE asked
  <2>1. Answer(t, current[s], yes, no)
    BY <1>2 DEF Decide
  <2>2. current[s] \in Task /\ asked \in SUBSET Call
    BY <2>1 DEF Answer, TypeOK
  <2>3. yes \in SUBSET Call /\ no \in SUBSET Call /\ yes \cup no \subseteq asked
    BY <2>2
  <2> HIDE DEF asked, yes, no
  <2>4. \E u \in Task : yes \cup no \subseteq deferred[u] /\ Answer(t, u, yes, no)
    BY <2>1, <2>2, <2>3 DEF asked
  <2> QED BY <2>3, <2>4 DEF Receive
<1> QED BY <1>1, <1>2

LEMMA FlowStep == TypeOK /\ [FlowNext]_flowVars => [Next]_vars
<1> SUFFICES ASSUME TypeOK, FlowNext PROVE [Next]_vars
  BY DEF flowVars
<1>1. ASSUME NEW s \in Session, NEW t \in Task,
             SendPrompt(s, t) \/ \E approve \in BOOLEAN : Decide(s, t, approve)
      PROVE  Next
  BY <1>1, SendIsReceive DEF Next
<1>2. ASSUME NEW s \in Session, Follow(s) \/ TimesOut(s) \/ Abandon(s)
      PROVE  UNCHANGED vars
  BY <1>2 DEF Follow, SeeOutcome, StreamBreaks, TimesOut, Abandon
<1>3. ASSUME NEW t \in Task, HubStep(t) PROVE Next
  BY <1>3 DEF HubStep, Next
<1>4. ASSUME Crash PROVE Next
  BY <1>4 DEF Next
<1> QED BY <1>1, <1>2, <1>3, <1>4 DEF FlowNext

\* Every behaviour of the chat loops is one of the hub.
THEOREM FlowIsHub == FlowSpec => Spec
<1>1. FlowInit => Init /\ TypeOK
  BY InitType DEF FlowInit
<1>2. TypeOK /\ [FlowNext]_flowVars => TypeOK'
  BY FlowStep, TypeStep
<1> QED BY <1>1, <1>2, FlowStep, PTL DEF FlowSpec, Spec

\* What the proofs about the hub have established of every client.
HubInv == TypeOK /\ CommitInv /\ ReportInv /\ AloneInv /\ PausingInv
            /\ AnnouncedInv /\ RunInv /\ LiveInv

LEMMA HubAlways == FlowSpec => []HubInv
<1>1. TypeOK /\ (CommitInv /\ ReportInv)
        /\ (AloneInv /\ PausingInv /\ AnnouncedInv) /\ RunInv /\ LiveInv => HubInv
  BY DEF HubInv
<1> QED BY <1>1, FlowIsHub, TypeCorrect, CommitAlways, PauseAlways, RunAlways,
           LiveAlways, PTL

\* A pause that was announced can be resumed, whatever the sessions do.
THEOREM FlowResumable == FlowSpec => []AnnouncedIsResumable
  BY FlowIsHub, AnnouncedResumable, PTL

-----------------------------------------------------------------------------
(* The steps of the loops.                                                 *)

\* Session s sends the message m, which task t receives.
Sends(s, t, m) ==
  /\ m \in Message
  /\ Arrive(t, m)
  /\ loop' = [loop EXCEPT ![s] = "streaming"]
  /\ current' = [current EXCEPT ![s] = t]

LEMMA PromptSends ==
  ASSUME NEW s \in Session, NEW t \in Task, SendPrompt(s, t)
  PROVE  /\ loop[s] = "prompting"
         /\ \E m \in Message : /\ Sends(s, t, m)
                               /\ m.context = ConversationOf[s]
                               /\ m.answers = NoTask
                               /\ m.approved \cup m.denied = {}
<1> DEFINE m == [context |-> ConversationOf[s], answers |-> NoTask,
                 approved |-> {}, denied |-> {}]
<1>1. m \in Message
  BY SessionAssumption DEF Message
<1>2. loop[s] = "prompting" /\ Sends(s, t, m)
  BY <1>1 DEF SendPrompt, Turn, Prompt, Sends
<1> QED BY <1>1, <1>2

LEMMA DecideSends ==
  ASSUME TypeOK, NEW s \in Session, NEW t \in Task, NEW approve \in BOOLEAN,
         Decide(s, t, approve)
  PROVE  /\ loop[s] = "deciding" /\ current[s] \in announced
         /\ ContextOf(current[s]) \in Context
         /\ \E m \in Message : /\ Sends(s, t, m)
                               /\ m.context = ContextOf(current[s])
                               /\ m.answers = current[s]
                               /\ m.approved \cup m.denied = deferred[current[s]]
<1> DEFINE u     == current[s]
           asked == deferred[u]
           m     == [context |-> ContextOf(u), answers |-> u,
                     approved |-> IF approve THEN asked ELSE {},
                     denied |-> IF approve THEN {} ELSE asked]
<1>1. /\ loop[s] = "deciding" /\ loop' = [loop EXCEPT ![s] = "streaming"]
      /\ current' = [current EXCEPT ![s] = t]
      /\ u \in announced /\ ContextOf(u) \in Context /\ Arrive(t, m)
  BY DEF Decide, Turn, Answer
<1>2. u \in Task /\ asked \in SUBSET Call
  BY <1>1 DEF TypeOK
<1>3. m \in Message
  BY <1>1, <1>2 DEF Message
<1>4. m.approved \cup m.denied = asked
  OBVIOUS
<1>5. m.context = ContextOf(u) /\ m.answers = u
  OBVIOUS
<1> HIDE DEF m, asked
<1>6. Sends(s, t, m)
  BY <1>1, <1>3 DEF Sends
<1> QED BY <1>1, <1>3, <1>4, <1>5, <1>6 DEF asked

\* Session s leaves the stream, or the widget, of the task it follows.
Rests(s) ==
  /\ Busy(s)
  /\ \E to \in {"prompting", "left"} : loop' = [loop EXCEPT ![s] = to]
  /\ UNCHANGED <<vars, current>>

\* The widget opens for a task that waits.
Opens(s) ==
  /\ loop[s] = "streaming" /\ status[current[s]] = "input_required"
  /\ loop' = [loop EXCEPT ![s] = "deciding"]
  /\ UNCHANGED <<vars, current>>

LEMMA FollowMoves ==
  ASSUME NEW s \in Session, Follow(s) \/ TimesOut(s) \/ Abandon(s)
  PROVE  Rests(s) \/ Opens(s)
<1>1. CASE SeeOutcome(s)
  <2> DEFINE outcome == status[current[s]]
             next == CASE outcome = "input_required" -> "deciding"
                       [] outcome = "auth_required"  -> "left"
                       [] OTHER -> "prompting"
  <2>1. /\ loop[s] = "streaming" /\ loop' = [loop EXCEPT ![s] = next]
        /\ UNCHANGED <<vars, current>>
    BY <1>1, Zenon DEF SeeOutcome, Turn
  <2>2. CASE outcome = "input_required"
    <3>1. next = "deciding"
      BY <2>2
    <3> QED BY <2>1, <2>2, <3>1 DEF Opens
  <2>3. CASE outcome # "input_required"
    <3>1. next \in {"prompting", "left"}
      BY <2>3
    <3> QED BY <2>1, <3>1 DEF Rests, Busy
  <2> QED BY <2>2, <2>3
<1>2. CASE StreamBreaks(s) \/ TimesOut(s) \/ Abandon(s)
  BY <1>2 DEF StreamBreaks, TimesOut, Abandon, Turn, Rests, Busy
<1> QED BY <1>1, <1>2 DEF Follow

-----------------------------------------------------------------------------
(* Type correctness of the flow.                                           *)

LEMMA FlowTypeInit == FlowInit => ToldInv /\ LoopInv
  BY DEF FlowInit, Init, ToldInv, LoopInv, LoopPlace

\* Steps of the hub other than the arrival of a message.
Hub == (\E t \in Task : Execute(t)) \/ Crash

LEMMA HubEffect ==
  ASSUME TypeOK, Hub
  PROVE  /\ msg' = msg /\ announced \subseteq announced'
         /\ \A u \in Task : pc[u] \in {"new", "ended", "raised", "dead"}
                              => pc'[u] = pc[u]
         /\ \A u \in Task : pc[u] # "new" => pc'[u] # "new"
         /\ \A u \in Task : pc'[u] \in InFlight => pc[u] \in InFlight
         /\ \A u \in Task : \/ status'[u] = status[u]
                            \/ status'[u] # "canceled"
         /\ \A u \in Task : status'[u] = "input_required"
              => status[u] = "input_required" \/ u \in announced'
         /\ \A u \in Task : pc[u] = "ended" => deferred'[u] = deferred[u]
<1>1. ASSUME NEW t \in Task, Execute(t)
      PROVE  /\ msg' = msg /\ Moves(t) /\ Asks(t)
  BY <1>1, ExecuteMoves, ExecuteAsks
<1>2. CASE Crash
  BY <1>2, LiveFacts DEF Crash, runVars
<1> QED BY <1>1, <1>2, LiveFacts DEF Hub, Moves, Asks, TypeOK

LEMMA FlowTypeStep ==
  ASSUME HubInv, ToldInv, LoopInv, [FlowNext]_flowVars
  PROVE  ToldInv' /\ LoopInv'
<1> USE DEF HubInv
<1>1. ASSUME NEW s \in Session, NEW t \in Task, NEW m \in Message, Sends(s, t, m)
      PROVE  ToldInv' /\ LoopInv'
  <2>1. /\ pc'[t] = "arrived"
        /\ \A u \in Task \ {t} : pc'[u] = pc[u]
        /\ UNCHANGED <<status, announced>>
    BY <1>1 DEF Sends, Arrive, TypeOK
  <2>2. ToldInv'
    BY <2>1 DEF ToldInv
  <2>3. /\ loop' \in [Session -> LoopPlace]
        /\ current' \in [Session -> Task \cup {NoTask}]
    BY <1>1 DEF Sends, LoopInv, LoopPlace
  <2>4. \A r \in Session \ {s} : loop'[r] = loop[r] /\ current'[r] = current[r]
    BY <1>1 DEF Sends, LoopInv
  <2>5. current'[s] = t /\ loop'[s] = "streaming"
    BY <1>1 DEF Sends, LoopInv
  <2> QED BY <2>1, <2>2, <2>3, <2>4, <2>5 DEF LoopInv
<1>2. ASSUME NEW s \in Session, Rests(s) \/ Opens(s)
      PROVE  ToldInv' /\ LoopInv'
  BY <1>2 DEF Rests, Opens, ToldInv, LoopInv, LoopPlace, vars, Busy
<1>3. CASE Hub /\ UNCHANGED <<loop, current>>
  <2>1. announced \subseteq Task
    BY DEF TypeOK
  <2> QED BY <1>3, <2>1, HubEffect DEF ToldInv, LoopInv
<1>4. CASE UNCHANGED flowVars
  BY <1>4 DEF flowVars, vars, ToldInv, LoopInv
<1> QED
  BY <1>1, <1>2, <1>3, <1>4, PromptSends, DecideSends, FollowMoves
  DEF FlowNext, HubStep, Hub

LEMMA FlowTypeAlways == FlowSpec => [](ToldInv /\ LoopInv)
<1>1. HubInv /\ ToldInv /\ LoopInv /\ [FlowNext]_flowVars => ToldInv' /\ LoopInv'
  BY FlowTypeStep
<1> QED BY <1>1, FlowTypeInit, HubAlways, PTL DEF FlowSpec

\* The types, and what a session stands on: a stream is that of a task that
\* has arrived, and the widget is open only for calls that were announced.
THEOREM FlowTypeCorrect == FlowSpec => []FlowTypeOK
<1>1. HubInv /\ LoopInv => FlowTypeOK
  BY DEF HubInv, LoopInv, FlowTypeOK
<1> QED BY <1>1, HubAlways, FlowTypeAlways, PTL

-----------------------------------------------------------------------------
(* A call is executed at most once.                                        *)

OneRunInv == AnswersInv /\ CallsApartInv /\ OnceInv

LEMMA OneRunInit == FlowInit => OneRunInv
  BY DEF FlowInit, Init, OneRunInv, AnswersInv, CallsApartInv, OnceInv, Busy,
     NoMessage, Decisions

\* A message: a prompt answers nothing, and the answer takes its pause from
\* the session that had it.
LEMMA SendsOnce ==
  ASSUME HubInv, LoopInv, OneRunInv,
         NEW s \in Session, NEW t \in Task, NEW m \in Message, Sends(s, t, m),
         \/ m.answers = NoTask /\ m.approved \cup m.denied = {}
         \/ /\ loop[s] = "deciding" /\ m.answers = current[s]
            /\ current[s] \in announced
            /\ m.approved \cup m.denied = deferred[current[s]]
  PROVE  OneRunInv'
<1> USE DEF HubInv
<1>1. /\ pc[t] = "new"
      /\ msg'[t] = m
      /\ \A u \in Task \ {t} : msg'[u] = msg[u]
      /\ UNCHANGED <<deferred, announced>>
  BY DEF Sends, Arrive, TypeOK
<1>2. /\ loop'[s] = "streaming" /\ current'[s] = t
      /\ \A r \in Session \ {s} : loop'[r] = loop[r] /\ current'[r] = current[r]
  BY DEF Sends, LoopInv
<1>3. announced \subseteq Task \ {t}
  BY <1>1 DEF AnnouncedInv, TypeOK
<1>4. AnswersInv'
  BY <1>1, NoTaskAssumption DEF OneRunInv, AnswersInv, Decisions, TypeOK
<1>5. CallsApartInv'
  BY <1>1 DEF OneRunInv, CallsApartInv
<1>6. \A r \in Session : Busy(r) => current[r] # t
  BY <1>1, <1>3 DEF LoopInv, Busy
<1>7. \A u \in Task : msg'[u].answers # t
  BY <1>1, <1>3, NoTaskAssumption DEF OneRunInv, AnswersInv
<1>8. m.answers # NoTask => Busy(s) /\ m.answers = current[s]
  BY DEF Busy
<1>9. \A u, v \in Task : u # v /\ msg'[u].answers # NoTask
                           => msg'[u].answers # msg'[v].answers
  BY <1>1, <1>8 DEF OneRunInv, OnceInv
<1>10. \A r \in Session \ {s} : Busy(r) => m.answers # current[r]
  <2>1. \A r \in Session : Busy(r) => current[r] # NoTask
    BY NoTaskAssumption DEF LoopInv, Busy, TypeOK
  <2> QED BY <1>8, <2>1 DEF OneRunInv, OnceInv
<1>11. \A r \in Session : Busy(r)'
         => \A u \in Task : msg'[u].answers # current'[r]
  BY <1>1, <1>2, <1>7, <1>10 DEF OneRunInv, OnceInv, Busy
<1>12. \A r, q \in Session : r # q /\ Busy(r)' /\ Busy(q)'
         => current'[r] # current'[q]
  BY <1>2, <1>6 DEF OneRunInv, OnceInv, Busy
<1> QED BY <1>4, <1>5, <1>9, <1>11, <1>12 DEF OneRunInv, OnceInv

LEMMA ExecuteOnce ==
  ASSUME HubInv, LoopInv, OneRunInv, Hub, UNCHANGED <<loop, current>>
  PROVE  OneRunInv'
<1> USE DEF HubInv
<1>1. /\ msg' = msg /\ announced \subseteq announced'
      /\ \A u \in announced : deferred'[u] = deferred[u]
  BY HubEffect DEF AnnouncedInv, TypeOK
<1>2. AnswersInv'
  BY <1>1 DEF OneRunInv, AnswersInv, Decisions
<1>3. CallsApartInv'
  <2>1. ASSUME NEW t \in Task, Execute(t) PROVE CallsApartInv'
    <3>1. CASE deferred' = deferred
      BY <3>1 DEF OneRunInv, CallsApartInv
    <3>2. ASSUME NEW D \in SUBSET FreshCalls,
                 deferred' = [deferred EXCEPT ![t] = D]
          PROVE  CallsApartInv'
      <4>1. /\ deferred'[t] = D
            /\ \A u \in Task \ {t} : deferred'[u] = deferred[u]
        BY <3>2 DEF TypeOK
      <4>2. \A u \in Task : D \cap deferred[u] = {}
        BY DEF FreshCalls
      <4> QED BY <4>1, <4>2 DEF OneRunInv, CallsApartInv
    <3> QED BY <2>1, <3>1, <3>2, ExecuteAsks DEF Asks
  <2>2. CASE Crash
    BY <2>2 DEF Crash, runVars, OneRunInv, CallsApartInv
  <2> QED BY <2>1, <2>2 DEF Hub
<1>4. OnceInv'
  BY <1>1 DEF OneRunInv, OnceInv, Busy
<1> QED BY <1>2, <1>3, <1>4 DEF OneRunInv

LEMMA OneRunStep ==
  ASSUME HubInv, LoopInv, OneRunInv, [FlowNext]_flowVars
  PROVE  OneRunInv'
<1>1. ASSUME NEW s \in Session, NEW t \in Task, SendPrompt(s, t)
      PROVE  OneRunInv'
  BY <1>1, PromptSends, SendsOnce
<1>2. ASSUME NEW s \in Session, NEW t \in Task, NEW approve \in BOOLEAN,
             Decide(s, t, approve)
      PROVE  OneRunInv'
  BY <1>2, DecideSends, SendsOnce DEF HubInv
<1>3. ASSUME NEW s \in Session, Rests(s) \/ Opens(s)
      PROVE  OneRunInv'
  <2>1. /\ UNCHANGED <<msg, deferred, announced, current>>
        /\ \A r \in Session : Busy(r)' => Busy(r)
    BY <1>3 DEF Rests, Opens, Busy, LoopInv, vars, runVars
  <2> QED BY <2>1 DEF OneRunInv, AnswersInv, CallsApartInv, OnceInv, Decisions
<1>4. CASE Hub /\ UNCHANGED <<loop, current>>
  BY <1>4, ExecuteOnce
<1>5. CASE UNCHANGED flowVars
  BY <1>5 DEF flowVars, vars, runVars, OneRunInv, AnswersInv, CallsApartInv,
     OnceInv, Decisions, Busy
<1> QED
  BY <1>1, <1>2, <1>3, <1>4, <1>5, FollowMoves DEF FlowNext, HubStep, Hub

LEMMA OneRunAlways == FlowSpec => []OneRunInv
<1>1. HubInv /\ LoopInv /\ OneRunInv /\ [FlowNext]_flowVars => OneRunInv'
  BY OneRunStep
<1> QED BY <1>1, OneRunInit, HubAlways, FlowTypeAlways, PTL DEF FlowSpec

\* A call is executed by one run at most, for any number of sessions in any
\* conversations, through timeouts, failures and crashes: the runs that may
\* execute it answer the one task that asked for it, and one message does.
THEOREM ExecutedOnce == FlowSpec => []ExecutedAtMostOnce
<1>1. HubInv /\ OneRunInv => ExecutedAtMostOnce
  <2> SUFFICES ASSUME HubInv, OneRunInv, NEW k \in Call
               PROVE  Cardinality(executed[k]) <= 1
    BY DEF ExecutedAtMostOnce
  <2>1. executed[k] \subseteq Task
    BY DEF HubInv, TypeOK
  <2>2. \A t \in executed[k] : k \in Decisions(t)
    BY <2>1 DEF HubInv, RunInv, CallInv, Decisions
  <2>3. \A t \in executed[k] : /\ msg[t].answers \in Task
                               /\ k \in deferred[msg[t].answers]
    BY <2>1, <2>2 DEF HubInv, TypeOK, OneRunInv, AnswersInv
  <2>4. \A t, u \in executed[k] : msg[t].answers = msg[u].answers
    BY <2>3 DEF OneRunInv, CallsApartInv
  <2>5. \A t, u \in executed[k] : t = u
    BY <2>1, <2>3, <2>4, NoTaskAssumption DEF OneRunInv, OnceInv
  <2>6. CASE executed[k] = {}
    BY <2>6, FS_EmptySet
  <2>7. ASSUME NEW t \in executed[k]
        PROVE  Cardinality(executed[k]) <= 1
    <3>1. executed[k] = {t}
      BY <2>5, <2>7
    <3>2. Cardinality({t}) = 1
      BY FS_Singleton
    <3> QED BY <3>1, <3>2
  <2> QED BY <2>6, <2>7
<1> QED BY <1>1, HubAlways, OneRunAlways, PTL

-----------------------------------------------------------------------------
(* What a statement of the hub does to the conversations.                  *)

Working == {"running", "deferring", "closing"}

\* A statement of t saves its conversation, or leaves the database's
\* conversations alone.
Saves(t) ==
  /\ pc[t] \in {"deferring", "closing"} /\ pc'[t] \notin Working \cup Early
  /\ ContextOf(t) # NoContext
  /\ \E calls \in SUBSET Call :
       history' = [history EXCEPT ![ContextOf(t)] =
                     [by |-> t, turns |-> loaded[t].turns \cup {t},
                      pending |-> calls]]
  /\ committed' = committed \cup {t}

LEMMA ExecuteSaves ==
  ASSUME TypeOK, NEW t \in Task, Execute(t)
  PROVE  Saves(t) \/ UNCHANGED <<history, committed>>
<1> DEFINE Goal == Saves(t) \/ UNCHANGED <<history, committed>>
<1>1. CASE EnqueueTask(t)
  BY <1>1
  DEF EnqueueTask, Goto, SaveHistory, TypeOK, Saves, Working, Early, store
<1>2. CASE StartWork(t)
  BY <1>2
  DEF StartWork, Goto, SaveHistory, TypeOK, Saves, Working, Early, store
<1>3. CASE RequireAuth(t)
  BY <1>3
  DEF RequireAuth, Goto, SaveHistory, TypeOK, Saves, Working, Early, store
<1>4. CASE BeginRun(t)
  BY <1>4 DEF BeginRun, Goto, SaveHistory, TypeOK, Saves, Working, Early, store
<1>5. CASE DetectResumeFails(t)
  BY <1>5
  DEF DetectResumeFails, Goto, SaveHistory, TypeOK, Saves, Working, Early,
      store
<1>6. CASE LoadHistoryFails(t)
  BY <1>6
  DEF LoadHistoryFails, Goto, SaveHistory, TypeOK, Saves, Working, Early, store
<1>7. CASE StreamChunk(t)
  BY <1>7
  DEF StreamChunk, Goto, SaveHistory, TypeOK, Saves, Working, Early, store
<1>8. ASSUME NEW k \in Call, ExecuteCall(t, k) PROVE Goal
  BY <1>8
  DEF ExecuteCall, Goto, SaveHistory, TypeOK, Saves, Working, Early, store
<1>9. ASSUME NEW k \in Call, SurfaceCall(t, k) PROVE Goal
  BY <1>9
  DEF SurfaceCall, Goto, SaveHistory, TypeOK, Saves, Working, Early, store
<1>10. ASSUME NEW D \in SUBSET FreshCalls, DeferCalls(t, D) PROVE Goal
  BY <1>10
  DEF DeferCalls, Goto, SaveHistory, TypeOK, Saves, Working, Early, store
<1>11. CASE RunFails(t)
  BY <1>11
  DEF RunFails, Goto, SaveHistory, TypeOK, Saves, Working, Early, store
<1>12. CASE SaveFails(t)
  BY <1>12
  DEF SaveFails, Goto, SaveHistory, TypeOK, Saves, Working, Early, store
<1>13. CASE SavePausedHistory(t)
  BY <1>13
  DEF SavePausedHistory, Goto, SaveHistory, TypeOK, Saves, Working, Early,
      store
<1>14. CASE SavePauseState(t)
  BY <1>14
  DEF SavePauseState, Goto, SaveHistory, TypeOK, Saves, Working, Early, store
<1>15. CASE RequireInput(t)
  BY <1>15
  DEF RequireInput, Goto, SaveHistory, TypeOK, Saves, Working, Early, store
<1>16. CASE LastChunk(t)
  BY <1>16
  DEF LastChunk, Goto, SaveHistory, TypeOK, Saves, Working, Early, store
<1>17. CASE SaveTurn(t)
  BY <1>17
  DEF SaveTurn, Goto, SaveHistory, TypeOK, Saves, Working, Early, store
<1>18. CASE StructuredArtifact(t)
  BY <1>18
  DEF StructuredArtifact, Goto, SaveHistory, TypeOK, Saves, Working, Early,
      store
<1>19. CASE Complete(t)
  BY <1>19
  DEF Complete, Goto, SaveHistory, TypeOK, Saves, Working, Early, store
<1> QED
  BY <1>1, <1>2, <1>3, <1>4, <1>5, <1>6, <1>7, <1>8, <1>9, <1>10, <1>11,
     <1>12, <1>13, <1>14, <1>15, <1>16, <1>17, <1>18, <1>19
  DEF Execute

\* A statement of t begins its run, or leaves what the runs loaded alone.
Continues(t) ==
  /\ UNCHANGED <<loaded, link, userInput>>
  /\ pc'[t] \in Working => pc[t] \in Working
  /\ pc'[t] \in Early => pc[t] \in Early \ {"new"}

LEMMA ExecuteContinues ==
  ASSUME TypeOK, NEW t \in Task, Execute(t)
  PROVE  BeginRun(t) \/ Continues(t)
<1> DEFINE Goal == BeginRun(t) \/ Continues(t)
<1>1. CASE EnqueueTask(t)
  BY <1>1 DEF EnqueueTask, Goto, TypeOK, Continues, Working, Early, runVars
<1>2. CASE StartWork(t)
  BY <1>2 DEF StartWork, Goto, TypeOK, Continues, Working, Early, runVars
<1>3. CASE RequireAuth(t)
  BY <1>3 DEF RequireAuth, Goto, TypeOK, Continues, Working, Early, runVars
<1>4. CASE BeginRun(t)
  BY <1>4 DEF BeginRun, Goto, TypeOK, Continues, Working, Early, runVars
<1>5. CASE DetectResumeFails(t)
  BY <1>5
  DEF DetectResumeFails, Goto, TypeOK, Continues, Working, Early, runVars
<1>6. CASE LoadHistoryFails(t)
  BY <1>6
  DEF LoadHistoryFails, Goto, TypeOK, Continues, Working, Early, runVars
<1>7. CASE StreamChunk(t)
  BY <1>7 DEF StreamChunk, Goto, TypeOK, Continues, Working, Early, runVars
<1>8. ASSUME NEW k \in Call, ExecuteCall(t, k) PROVE Goal
  BY <1>8 DEF ExecuteCall, Goto, TypeOK, Continues, Working, Early, runVars
<1>9. ASSUME NEW k \in Call, SurfaceCall(t, k) PROVE Goal
  BY <1>9 DEF SurfaceCall, Goto, TypeOK, Continues, Working, Early, runVars
<1>10. ASSUME NEW D \in SUBSET FreshCalls, DeferCalls(t, D) PROVE Goal
  BY <1>10 DEF DeferCalls, Goto, TypeOK, Continues, Working, Early, runVars
<1>11. CASE RunFails(t)
  BY <1>11 DEF RunFails, Goto, TypeOK, Continues, Working, Early, runVars
<1>12. CASE SaveFails(t)
  BY <1>12 DEF SaveFails, Goto, TypeOK, Continues, Working, Early, runVars
<1>13. CASE SavePausedHistory(t)
  BY <1>13
  DEF SavePausedHistory, Goto, TypeOK, Continues, Working, Early, runVars
<1>14. CASE SavePauseState(t)
  BY <1>14 DEF SavePauseState, Goto, TypeOK, Continues, Working, Early, runVars
<1>15. CASE RequireInput(t)
  BY <1>15 DEF RequireInput, Goto, TypeOK, Continues, Working, Early, runVars
<1>16. CASE LastChunk(t)
  BY <1>16 DEF LastChunk, Goto, TypeOK, Continues, Working, Early, runVars
<1>17. CASE SaveTurn(t)
  BY <1>17 DEF SaveTurn, Goto, TypeOK, Continues, Working, Early, runVars
<1>18. CASE StructuredArtifact(t)
  BY <1>18
  DEF StructuredArtifact, Goto, TypeOK, Continues, Working, Early, runVars
<1>19. CASE Complete(t)
  BY <1>19 DEF Complete, Goto, TypeOK, Continues, Working, Early, runVars
<1> QED
  BY <1>1, <1>2, <1>3, <1>4, <1>5, <1>6, <1>7, <1>8, <1>9, <1>10, <1>11,
     <1>12, <1>13, <1>14, <1>15, <1>16, <1>17, <1>18, <1>19
  DEF Execute

\* A statement of t announces t, which has just saved its pause, or nothing.
Announces(t) == pc[t] = "pause_saved" /\ announced' = announced \cup {t}

LEMMA ExecuteAnnounces ==
  ASSUME NEW t \in Task, Execute(t)
  PROVE  \/ announced' = announced
         \/ Announces(t) /\ history' = history
<1> DEFINE Goal == \/ announced' = announced
                   \/ Announces(t) /\ history' = history
<1>1. CASE EnqueueTask(t)
  BY <1>1 DEF EnqueueTask, Goto, Announces, store
<1>2. CASE StartWork(t)
  BY <1>2 DEF StartWork, Goto, Announces, store
<1>3. CASE RequireAuth(t)
  BY <1>3 DEF RequireAuth, Goto, Announces, store
<1>4. CASE BeginRun(t)
  BY <1>4 DEF BeginRun, Goto, Announces, store
<1>5. CASE DetectResumeFails(t)
  BY <1>5 DEF DetectResumeFails, Goto, Announces, store
<1>6. CASE LoadHistoryFails(t)
  BY <1>6 DEF LoadHistoryFails, Goto, Announces, store
<1>7. CASE StreamChunk(t)
  BY <1>7 DEF StreamChunk, Goto, Announces, store
<1>8. ASSUME NEW k \in Call, ExecuteCall(t, k) PROVE Goal
  BY <1>8 DEF ExecuteCall, Goto, Announces, store
<1>9. ASSUME NEW k \in Call, SurfaceCall(t, k) PROVE Goal
  BY <1>9 DEF SurfaceCall, Goto, Announces, store
<1>10. ASSUME NEW D \in SUBSET FreshCalls, DeferCalls(t, D) PROVE Goal
  BY <1>10 DEF DeferCalls, Goto, Announces, store
<1>11. CASE RunFails(t)
  BY <1>11 DEF RunFails, Goto, Announces, store
<1>12. CASE SaveFails(t)
  BY <1>12 DEF SaveFails, Goto, Announces, store
<1>13. CASE SavePausedHistory(t)
  BY <1>13 DEF SavePausedHistory, Goto, Announces, store
<1>14. CASE SavePauseState(t)
  BY <1>14 DEF SavePauseState, Goto, Announces, store
<1>15. CASE RequireInput(t)
  BY <1>15 DEF RequireInput, Goto, Announces, store
<1>16. CASE LastChunk(t)
  BY <1>16 DEF LastChunk, Goto, Announces, store
<1>17. CASE SaveTurn(t)
  BY <1>17 DEF SaveTurn, Goto, Announces, store
<1>18. CASE StructuredArtifact(t)
  BY <1>18 DEF StructuredArtifact, Goto, Announces, store
<1>19. CASE Complete(t)
  BY <1>19 DEF Complete, Goto, Announces, store
<1> QED
  BY <1>1, <1>2, <1>3, <1>4, <1>5, <1>6, <1>7, <1>8, <1>9, <1>10, <1>11,
     <1>12, <1>13, <1>14, <1>15, <1>16, <1>17, <1>18, <1>19
  DEF Execute

-----------------------------------------------------------------------------
(* Sessions that take turns lose no turn, and answers meet their pause.    *)

LEMMA SerialInit == FlowInit => FollowedInv /\ TurnsInv
  BY LiveFacts
  DEF FlowInit, Init, TurnsInv, FollowedInv, FreshInv, StandsInv, NoTurnLost,
      AnswersMeetTheirPause, Busy, Early, EmptyHistory, NoMessage, Decisions

\* One task at a time is at work in a conversation, and each is in one.
LEMMA OneAtWork ==
  ASSUME Serial, HubInv, LoopInv, FollowedInv, NEW t \in Task, pc[t] \in InFlight
  PROVE  /\ ContextOf(t) \in Context
         /\ \A u \in Task : pc[u] \in InFlight /\ ContextOf(u) = ContextOf(t)
                              => u = t
         /\ \A s \in Session : Busy(s) /\ ConversationOf[s] = ContextOf(t)
                                 => loop[s] = "streaming" /\ current[s] = t
<1>1. PICK s \in Session : loop[s] = "streaming" /\ current[s] = t
  BY DEF FollowedInv
<1>2. ContextOf(t) = ConversationOf[s]
  BY <1>1 DEF FollowedInv, Busy
<1>3. ASSUME NEW u \in Task, pc[u] \in InFlight, ContextOf(u) = ContextOf(t)
      PROVE  u = t
  <2>1. PICK r \in Session : loop[r] = "streaming" /\ current[r] = u
    BY <1>3 DEF FollowedInv
  <2>2. ConversationOf[r] = ConversationOf[s]
    BY <1>2, <1>3, <2>1 DEF FollowedInv, Busy
  <2> QED BY <1>1, <2>1, <2>2 DEF Serial
<1> QED BY <1>1, <1>2, <1>3, SessionAssumption DEF Serial

\* A session that waits for its task does not leave it at work.
LEMMA DoneWhenLeft ==
  ASSUME Serial, HubInv, LoopInv, FollowedInv, NEW s \in Session,
         Follow(s) \/ TimesOut(s) \/ Abandon(s)
  PROVE  current[s] \in Task /\ pc[current[s]] \notin InFlight
<1> USE DEF HubInv
<1>1. CASE Follow(s)
  <2>1. loop[s] = "streaming" /\ current[s] \in Task
    BY <1>1 DEF Follow, SeeOutcome, StreamBreaks, LoopInv
  <2>2. \/ status[current[s]] \in ClientTerminal \cup {"lost"}
        \/ pc[current[s]] \in {"raised", "dead"}
    BY <1>1 DEF Follow, SeeOutcome, StreamBreaks
  <2> QED BY <2>1, <2>2, LiveFacts DEF LiveInv, FollowedInv, ClientTerminal
<1>2. CASE Abandon(s)
  <2>1. current[s] \in announced
    BY <1>2 DEF Abandon, Turn, LoopInv
  <2> QED BY <2>1, LiveFacts DEF AnnouncedInv, TypeOK
<1>3. ~TimesOut(s)
  BY DEF TimesOut, Serial
<1> QED BY <1>1, <1>2, <1>3

LEMMA FollowedStep ==
  ASSUME Serial, HubInv, LoopInv, FollowedInv, [FlowNext]_flowVars
  PROVE  FollowedInv'
<1> USE DEF HubInv
<1>1. ASSUME NEW s \in Session, NEW t \in Task, NEW m \in Message, Sends(s, t, m),
             loop[s] # "streaming", m.context = ConversationOf[s]
      PROVE  FollowedInv'
  <2>1. /\ \A u \in Task \ {t} : pc'[u] = pc[u] /\ ContextOf(u)' = ContextOf(u)
        /\ ContextOf(t)' = ConversationOf[s]
        /\ status' = status /\ pc[t] = "new"
    BY <1>1 DEF Sends, Arrive, TypeOK, ContextOf
  <2>2. /\ loop'[s] = "streaming" /\ current'[s] = t
        /\ \A r \in Session \ {s} : loop'[r] = loop[r] /\ current'[r] = current[r]
    BY <1>1 DEF Sends, LoopInv
  <2>3. \A r \in Session : Busy(r) => current[r] \in Task \ {t}
    BY <2>1 DEF LoopInv, Busy, AnnouncedInv, TypeOK
  <2>4. \A u \in Task : pc'[u] \in InFlight
          => \E r \in Session : loop'[r] = "streaming" /\ current'[r] = u
    BY <1>1, <2>1, <2>2 DEF FollowedInv
  <2>5. \A r \in Session : Busy(r)'
          => ContextOf(current[r])' = ConversationOf[r]
    <3>1. ASSUME NEW r \in Session, Busy(r)'
          PROVE  msg'[current'[r]].context = ConversationOf[r]
      <4>1. CASE r = s
        BY <2>1, <2>2, <4>1 DEF ContextOf
      <4>2. CASE r # s
        BY <2>1, <2>2, <2>3, <3>1, <4>2 DEF ContextOf, Busy, FollowedInv
      <4> QED BY <4>1, <4>2
    <3> QED BY <3>1 DEF ContextOf
  <2> QED BY <2>1, <2>4, <2>5 DEF FollowedInv, ContextOf
<1>2. ASSUME NEW s \in Session, NEW t \in Task, SendPrompt(s, t)
      PROVE  FollowedInv'
  BY <1>1, <1>2, PromptSends
<1>3. ASSUME NEW s \in Session, NEW t \in Task, NEW approve \in BOOLEAN,
             Decide(s, t, approve)
      PROVE  FollowedInv'
  <2>1. /\ loop[s] = "deciding"
        /\ \E m \in Message : Sends(s, t, m) /\ m.context = ContextOf(current[s])
    BY <1>3, DecideSends
  <2> QED BY <1>1, <2>1 DEF FollowedInv, Busy
<1>4. ASSUME NEW s \in Session, Follow(s) \/ TimesOut(s) \/ Abandon(s)
      PROVE  FollowedInv'
  <2>1. /\ pc[current[s]] \notin InFlight
        /\ UNCHANGED <<pc, status, msg, current>>
        /\ \A r \in Session \ {s} : loop'[r] = loop[r]
        /\ \A r \in Session : Busy(r)' => Busy(r)
    BY <1>4, DoneWhenLeft, FollowMoves
    DEF Rests, Opens, Busy, LoopInv, vars, runVars
  <2> QED BY <2>1 DEF FollowedInv, ContextOf
<1>5. CASE Hub /\ UNCHANGED <<loop, current>>
  BY <1>5, HubEffect DEF FollowedInv, Busy, ContextOf
<1>6. CASE UNCHANGED flowVars
  BY <1>6 DEF flowVars, vars, runVars, FollowedInv, Busy, ContextOf
<1> QED BY <1>2, <1>3, <1>4, <1>5, <1>6 DEF FlowNext, HubStep, Hub



LEMMA WorkingFacts ==
  /\ Working = {"running", "deferring", "closing"} /\ Working \subseteq InFlight
  /\ Early \cap Working = {} /\ Early \ {"new"} \subseteq InFlight
  /\ "arrived" \in Early \ {"new"} /\ "ready" \in Early \ {"new"}
  BY DEF Working, Early, InFlight, Suspended

LEMMA SendsTurns ==
  ASSUME Serial, HubInv, LoopInv, OneRunInv, FollowedInv, TurnsInv,
         NEW s \in Session, NEW t \in Task, NEW m \in Message, Sends(s, t, m),
         \/ m.approved \cup m.denied = {}
         \/ /\ loop[s] = "deciding" /\ m.answers = current[s]
            /\ current[s] \in announced
            /\ ContextOf(current[s]) \in Context
            /\ m.context = ContextOf(current[s])
  PROVE  TurnsInv'
<1> USE DEF HubInv
<1>1. /\ pc[t] = "new" /\ pc'[t] = "arrived"
      /\ msg'[t] = m
      /\ \A u \in Task \ {t} : pc'[u] = pc[u] /\ msg'[u] = msg[u]
      /\ UNCHANGED <<loaded, link, userInput, deferred, announced, history,
                     committed>>
  BY DEF Sends, Arrive, TypeOK, store
<1>2. /\ loop'[s] = "streaming" /\ current'[s] = t
      /\ \A r \in Session \ {s} : loop'[r] = loop[r] /\ current'[r] = current[r]
  BY DEF Sends, LoopInv
<1>3. t \notin announced /\ t \notin committed
  BY <1>1, PlacesApart DEF AnnouncedInv, CommitInv
<1>4. FreshInv'
  BY <1>1, WorkingFacts DEF TurnsInv, FreshInv, ContextOf
<1>5. NoTurnLost'
  BY <1>1, <1>3 DEF TurnsInv, NoTurnLost, ContextOf, TypeOK
<1>6. AnswersMeetTheirPause'
  BY <1>1, WorkingFacts DEF TurnsInv, AnswersMeetTheirPause, Decisions
<1>7. \A r \in Session : Busy(r)' /\ current'[r] \in announced'
        => history'[ConversationOf[r]].by = current'[r]
  BY <1>1, <1>2, <1>3 DEF TurnsInv, StandsInv, Busy
<1>8. ASSUME NEW u \in Task, pc'[u] \in Early \ {"new"},
             msg'[u].approved \cup msg'[u].denied # {}
      PROVE  /\ msg'[u].context \in Context
             /\ msg'[msg'[u].answers].context = msg'[u].context
             /\ history'[msg'[u].context].by = msg'[u].answers
  <2>1. CASE u = t
    <3>1. /\ loop[s] = "deciding" /\ m.answers = current[s]
          /\ current[s] \in announced /\ current[s] \in Task \ {t}
          /\ ContextOf(current[s]) \in Context
          /\ m.context = ContextOf(current[s])
      BY <1>1, <1>3, <1>8, <2>1 DEF TypeOK
    <3>2. history[ConversationOf[s]].by = current[s]
      BY <3>1 DEF TurnsInv, StandsInv, Busy
    <3>3. ContextOf(current[s]) = ConversationOf[s]
      BY <3>1 DEF FollowedInv, Busy
    <3> QED BY <1>1, <2>1, <3>1, <3>2, <3>3 DEF ContextOf
  <2>2. CASE u # t
    <3>1. /\ ContextOf(u) \in Context
          /\ ContextOf(msg[u].answers) = ContextOf(u)
          /\ history[ContextOf(u)].by = msg[u].answers
      BY <1>1, <1>8, <2>2 DEF TurnsInv, StandsInv, Decisions
    <3>2. msg[u].answers \in Task \ {t}
      BY <1>1, <1>3, <1>8, <2>2 DEF OneRunInv, AnswersInv, Decisions, TypeOK
    <3> QED BY <1>1, <2>2, <3>1, <3>2 DEF ContextOf
  <2> QED BY <2>1, <2>2
<1>9. StandsInv'
  BY <1>7, <1>8 DEF StandsInv, ContextOf, Decisions
<1> QED BY <1>4, <1>5, <1>6, <1>9 DEF TurnsInv

LEMMA ExecuteFresh ==
  ASSUME Serial, HubInv, LoopInv, FollowedInv, TurnsInv,
         NEW t \in Task, Execute(t)
  PROVE  FreshInv' /\ NoTurnLost'
<1> USE WorkingFacts DEF HubInv
<1>1. Moves(t) /\ msg' = msg
  BY ExecuteMoves
<1>2. /\ pc[t] \in InFlight /\ ContextOf(t) \in Context
      /\ \A u \in Task \ {t} : pc'[u] = pc[u]
      /\ \A u \in Task : ContextOf(u)' = ContextOf(u)
      /\ \A u \in Task \ {t} : pc[u] \in InFlight => ContextOf(u) # ContextOf(t)
  BY <1>1, OneAtWork DEF Moves, ContextOf
<1>3. \/ UNCHANGED <<history, committed>>
      \/ /\ pc[t] \in Working /\ pc'[t] \notin Working
         /\ history'[ContextOf(t)].turns = loaded[t].turns \cup {t}
         /\ \A c \in Context \ {ContextOf(t)} : history'[c] = history[c]
         /\ committed' = committed \cup {t}
  BY <1>2, ExecuteSaves DEF Saves, TypeOK
<1>4. \/ /\ pc[t] = "ready" /\ loaded'[t] = history[ContextOf(t)]
         /\ \A u \in Task \ {t} : loaded'[u] = loaded[u]
      \/ loaded' = loaded /\ (pc'[t] \in Working => pc[t] \in Working)
  BY <1>2, NoContextAssumption, ExecuteContinues
  DEF Continues, BeginRun, Goto, HistoryOf, TypeOK
<1>5. \A c \in Context : \/ history'[c] = history[c]
                         \/ /\ pc'[t] \notin Working /\ pc[t] # "ready"
                            /\ c = ContextOf(t)
  BY <1>3, WorkingFacts DEF Early
<1>6. FreshInv'
  <2> SUFFICES ASSUME NEW u \in Task, pc'[u] \in Working
               PROVE  /\ ContextOf(u) \in Context
                      /\ loaded'[u] = history'[ContextOf(u)]
    BY <1>2 DEF FreshInv
  <2>1. CASE u = t
    BY <1>2, <1>4, <1>5, <2>1 DEF TurnsInv, FreshInv
  <2>2. CASE u # t
    BY <1>2, <1>4, <1>5, <2>2 DEF TurnsInv, FreshInv
  <2> QED BY <2>1, <2>2
<1>7. NoTurnLost'
  <2> SUFFICES ASSUME NEW u \in committed'
               PROVE  u \in history'[ContextOf(u)].turns
    BY <1>2, <1>3 DEF NoTurnLost, TypeOK
  <2>1. CASE u \in committed
    <3>1. ContextOf(u) \in Context /\ u \in history[ContextOf(u)].turns
      BY <2>1 DEF CommitInv, TurnsInv, NoTurnLost
    <3>2. pc[t] \in Working => loaded[t] = history[ContextOf(t)]
      BY DEF TurnsInv, FreshInv
    <3> QED BY <1>3, <3>1, <3>2
  <2>2. CASE u \notin committed
    BY <1>3, <2>2
  <2> QED BY <2>1, <2>2
<1> QED BY <1>6, <1>7

LEMMA ExecuteStands ==
  ASSUME Serial, HubInv, LoopInv, FollowedInv, TurnsInv,
         NEW t \in Task, Execute(t), UNCHANGED <<loop, current>>
  PROVE  StandsInv'
<1> USE WorkingFacts DEF HubInv
<1>1. Moves(t) /\ msg' = msg
  BY ExecuteMoves
<1>2. /\ pc[t] \in InFlight /\ ContextOf(t) \in Context
      /\ \A u \in Task \ {t} : pc'[u] = pc[u]
      /\ \A u \in Task \ {t} : pc[u] \in InFlight => ContextOf(u) # ContextOf(t)
      /\ \A s \in Session : Busy(s) /\ ConversationOf[s] = ContextOf(t)
                              => current[s] = t
  BY <1>1, OneAtWork DEF Moves
<1>3. \A c \in Context : \/ history'[c] = history[c]
                         \/ pc[t] \in Working /\ c = ContextOf(t)
  BY <1>2, ExecuteSaves DEF Saves, TypeOK
<1>4. t \notin announced
  BY <1>2, LiveFacts DEF AnnouncedInv
<1>5. ASSUME NEW s \in Session, Busy(s), current[s] \in announced'
      PROVE  history'[ConversationOf[s]].by = current[s]
  <2>1. CASE current[s] \in announced
    <3>1. ConversationOf[s] # ContextOf(t)
      BY <1>2, <1>4, <1>5, <2>1
    <3> QED BY <1>3, <1>5, <2>1, <3>1, SessionAssumption
            DEF TurnsInv, StandsInv
  <2>2. CASE current[s] \notin announced
    <3>1. current[s] = t /\ pc[t] = "pause_saved" /\ history' = history
      BY <1>5, <2>2, ExecuteAnnounces DEF Announces
    <3>2. history[ContextOf(t)].by = t
      BY <1>2, <3>1 DEF PausingInv, Waits
    <3> QED BY <1>5, <3>1, <3>2 DEF FollowedInv
  <2> QED BY <2>1, <2>2
<1>6. ASSUME NEW u \in Task, pc'[u] \in Early \ {"new"}, Decisions(u) # {}
      PROVE  /\ ContextOf(u) \in Context
             /\ ContextOf(msg[u].answers) = ContextOf(u)
             /\ history'[ContextOf(u)].by = msg[u].answers
  <2>1. pc[u] \in Early \ {"new"}
    <3>1. CASE u # t
      BY <1>2, <1>6, <3>1
    <3>2. CASE u = t /\ Continues(t)
      BY <1>6, <3>2 DEF Continues
    <3>3. ~BeginRun(t) \/ pc'[t] \notin Early
      BY DEF BeginRun, Goto, TypeOK, Early
    <3> QED BY <1>6, <3>1, <3>2, <3>3, ExecuteContinues
  <2>2. ContextOf(u) # ContextOf(t) \/ pc[t] \notin Working
    BY <1>2, <2>1
  <2> QED BY <1>3, <1>6, <2>1, <2>2 DEF TurnsInv, StandsInv
<1> QED BY <1>1, <1>5, <1>6 DEF StandsInv, ContextOf, Decisions, Busy

LEMMA ExecuteMeets ==
  ASSUME Serial, HubInv, LoopInv, OneRunInv, FollowedInv, TurnsInv,
         NEW t \in Task, Execute(t)
  PROVE  AnswersMeetTheirPause'
<1> USE WorkingFacts DEF HubInv
<1>1. /\ pc[t] \in InFlight /\ ContextOf(t) \in Context
      /\ \A u \in Task \ {t} : pc'[u] = pc[u]
      /\ msg' = msg
  BY ExecuteMoves, OneAtWork DEF Moves
<1>2. t \notin announced
  BY <1>1, LiveFacts DEF AnnouncedInv
<1>3. /\ \A u \in Task \ {t} : /\ loaded'[u] = loaded[u] /\ link'[u] = link[u]
                               /\ userInput'[u] = userInput[u]
      /\ BeginRun(t) \/ Continues(t)
  BY ExecuteContinues DEF Continues, BeginRun, TypeOK
<1> SUFFICES ASSUME NEW u \in Task, pc'[u] \in Working, Decisions(u) # {}
             PROVE  LET v == msg[u].answers IN
                    /\ link'[u] = v /\ userInput'[u] = userInput'[v]
                    /\ loaded'[u].by = v /\ loaded'[u].pending = Decisions(u)
  BY <1>1 DEF AnswersMeetTheirPause, Decisions
<1> DEFINE v == msg[u].answers
<1>4. v \in announced /\ v \in Task \ {t} /\ Decisions(u) = deferred[v]
  BY <1>2 DEF OneRunInv, AnswersInv, TypeOK
<1>5. CASE u = t /\ BeginRun(t)
  <2>1. /\ pc[t] = "ready"
        /\ link'[t] = pause[ContextOf(t)].task
        /\ userInput'[t] = pause[ContextOf(t)].userInput
        /\ loaded'[t] = history[ContextOf(t)]
    BY <1>1, <1>5, NoContextAssumption
    DEF BeginRun, Goto, PauseStateOf, HistoryOf, TypeOK
  <2>2. ContextOf(v) = ContextOf(t) /\ history[ContextOf(t)].by = v
    BY <1>5, <2>1 DEF TurnsInv, StandsInv
  <2>3. Waits(v) /\ PausedBy(v)
    BY <1>1, <1>4, <2>2 DEF AnnouncedInv
  <2> QED BY <1>3, <1>4, <1>5, <2>1, <2>2, <2>3 DEF Waits, PausedBy
<1>6. CASE ~(u = t /\ BeginRun(t))
  <2>1. /\ pc[u] \in Working /\ loaded'[u] = loaded[u] /\ link'[u] = link[u]
        /\ userInput'[u] = userInput[u]
    BY <1>1, <1>3, <1>6 DEF Continues
  <2> QED BY <1>3, <1>4, <2>1 DEF TurnsInv, AnswersMeetTheirPause
<1> QED BY <1>5, <1>6

LEMMA TurnsStep ==
  ASSUME Serial, HubInv, ToldInv, LoopInv, OneRunInv, FollowedInv, TurnsInv,
         [FlowNext]_flowVars
  PROVE  TurnsInv'
<1>1. ASSUME NEW s \in Session, NEW t \in Task, SendPrompt(s, t)
      PROVE  TurnsInv'
  BY <1>1, PromptSends, SendsTurns
<1>2. ASSUME NEW s \in Session, NEW t \in Task, NEW approve \in BOOLEAN,
             Decide(s, t, approve)
      PROVE  TurnsInv'
  BY <1>2, DecideSends, SendsTurns DEF HubInv
<1>3. ASSUME UNCHANGED <<vars, current>>, \A s \in Session : Busy(s)' => Busy(s)
      PROVE  TurnsInv'
  BY <1>3 DEF vars, runVars, store, TurnsInv, FreshInv, StandsInv, NoTurnLost,
     AnswersMeetTheirPause, ContextOf, Decisions
<1>4. ASSUME NEW s \in Session, Rests(s) \/ Opens(s) PROVE TurnsInv'
  BY <1>3, <1>4 DEF Rests, Opens, Busy, LoopInv
<1>5. ASSUME NEW t \in Task, Execute(t), UNCHANGED <<loop, current>>
      PROVE  TurnsInv'
  BY <1>5, ExecuteFresh, ExecuteStands, ExecuteMeets DEF TurnsInv
<1>6. ASSUME Crash, UNCHANGED <<loop, current>> PROVE TurnsInv'
  <2>1. \A t \in Task : pc'[t] \in Working \cup Early => pc'[t] = pc[t]
    BY <1>6 DEF Crash, Working, Early
  <2>2. UNCHANGED <<runVars, store, announced, loop, current>>
    BY <1>6 DEF Crash
  <2> QED
    BY <2>1, <2>2, WorkingFacts
    DEF runVars, store, TurnsInv, FreshInv, StandsInv, NoTurnLost,
        AnswersMeetTheirPause, ContextOf, Decisions, Busy
<1>7. CASE UNCHANGED flowVars
  BY <1>3, <1>7 DEF flowVars, Busy
<1> QED BY <1>1, <1>2, <1>4, <1>5, <1>6, <1>7, FollowMoves
        DEF FlowNext, HubStep

LEMMA TurnsAlways ==
  ASSUME Serial
  PROVE  FlowSpec => [](FollowedInv /\ TurnsInv)
<1>1. HubInv /\ ToldInv /\ LoopInv /\ OneRunInv /\ FollowedInv /\ TurnsInv
        /\ [FlowNext]_flowVars => FollowedInv' /\ TurnsInv'
  BY FollowedStep, TurnsStep
<1> QED BY <1>1, SerialInit, HubAlways, FlowTypeAlways, OneRunAlways, PTL
        DEF FlowSpec

\* Sessions that wait for their tasks and share no conversation lose no turn,
\* for any number of them and of tasks, through failing writes and crashes:
\* the copy a run writes back is still the stored one it loaded.
THEOREM SerialLosesNoTurn ==
  ASSUME Serial
  PROVE  FlowSpec => []NoTurnLost
<1>1. TurnsInv => NoTurnLost
  BY DEF TurnsInv
<1> QED BY <1>1, TurnsAlways, PTL

\* In such sessions an answer meets the pause the user saw: the run it starts
\* links to that pause, carries its prompt, and loads the conversation that
\* waits for exactly the calls decided.
THEOREM SerialAnswersMeet ==
  ASSUME Serial
  PROVE  FlowSpec => []AnswersMeetTheirPause
<1>1. TurnsInv => AnswersMeetTheirPause
  BY DEF TurnsInv
<1> QED BY <1>1, TurnsAlways, PTL

=============================================================================
