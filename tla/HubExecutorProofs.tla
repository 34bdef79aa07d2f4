------------------------- MODULE HubExecutorProofs -------------------------
(***************************************************************************)
(* Theorems about HubExecutor, for every set of tasks, conversations and   *)
(* calls and every bound: its invariants, and that it implements           *)
(* ConversationTurns, its initial states mapped to initial states and each *)
(* of its steps to a step or a stutter.                                    *)
(***************************************************************************)
EXTENDS MCHubExecutor, TLAPS

-----------------------------------------------------------------------------
(* Type correctness.                                                       *)

LEMMA GotoType ==
  ASSUME TypeOK, NEW t \in Task, NEW from, NEW to \in Place, Goto(t, from, to)
  PROVE  pc' \in [Task -> Place]
  BY DEF Goto, TypeOK

LEMMA PublishType ==
  ASSUME TypeOK, NEW t \in Task, NEW s \in Status, Publish(t, s)
  PROVE  status' \in [Task -> Status]
  BY DEF Publish, TypeOK

LEMMA EmitChunkType ==
  ASSUME TypeOK, NEW t \in Task, NEW last \in BOOLEAN, EmitChunk(t, last)
  PROVE  /\ chunks' \in [Task -> Seq(Chunk)]
         /\ created' \in [Task -> BOOLEAN]
  BY DEF EmitChunk, TypeOK, Chunk

LEMMA ContextType ==
  ASSUME TypeOK, NEW t \in Task
  PROVE  ContextOf(t) \in Context \cup {NoContext}
  BY DEF TypeOK, ContextOf, Message

LEMMA SaveHistoryType ==
  ASSUME TypeOK, NEW t \in Task, NEW calls \in SUBSET Call, SaveHistory(t, calls)
  PROVE  /\ history' \in [Context -> History]
         /\ committed' \subseteq Task
<1>1. CASE ContextOf(t) = NoContext
  BY <1>1 DEF SaveHistory, TypeOK
<1>2. CASE ContextOf(t) # NoContext
  <2>1. loaded[t].turns \cup {t} \in SUBSET Task
    BY DEF TypeOK, History
  <2>2. [by |-> t, turns |-> loaded[t].turns \cup {t}, pending |-> calls]
          \in History
    BY <2>1 DEF History
  <2>3. history' \in [Context -> History]
    BY <1>2, <2>2 DEF SaveHistory, TypeOK
  <2>4. committed' \subseteq Task
    BY <1>2 DEF SaveHistory, TypeOK
  <2> QED BY <2>3, <2>4
<1> QED BY <1>1, <1>2

LEMMA HistoryOfType ==
  ASSUME TypeOK, NEW t \in Task
  PROVE  HistoryOf(t) \in History /\ PauseStateOf(t) \in PauseState
<1>1. EmptyHistory \in History /\ NoPause \in PauseState
  BY DEF EmptyHistory, History, NoPause, PauseState
<1>2. HistoryOf(t) \in History
  BY <1>1, ContextType DEF HistoryOf, TypeOK
<1>3. PauseStateOf(t) \in PauseState
  BY <1>1, ContextType DEF PauseStateOf, TypeOK
<1> QED BY <1>2, <1>3

LEMMA InitType == Init => TypeOK
  BY BoundsAssumption
  DEF Init, TypeOK, Place, Status, Message, NoMessage, History, EmptyHistory,
      PauseState, NoPause, Chunk

LEMMA ArriveFact ==
  ASSUME NEW t \in Task, Receive(t)
  PROVE  \E m \in Message : Arrive(t, m)
<1>1. CASE \E c \in Context \cup {NoContext} : Prompt(t, c)
  BY <1>1 DEF Prompt, Message
<1>2. ASSUME NEW u \in Task, NEW yes \in SUBSET Call, NEW no \in SUBSET Call,
             Answer(t, u, yes, no)
      PROVE  \E m \in Message : Arrive(t, m)
  BY <1>2 DEF Answer, Message
<1> QED BY <1>1, <1>2 DEF Receive

LEMMA ReceiveType ==
  ASSUME TypeOK, NEW t \in Task, Receive(t)
  PROVE  TypeOK'
<1>1. PICK m \in Message : Arrive(t, m)
  BY ArriveFact
<1> QED BY <1>1 DEF Arrive, TypeOK, Place, InFlight, Suspended, outVars, store

LEMMA PlaceFacts ==
  /\ {"submitted", "ready", "running", "deferring", "closing", "completing",
      "history_saved", "pause_saved", "turn_saved", "ended", "raised",
      "dead"} \subseteq Place
  /\ {"submitted", "working", "auth_required", "input_required", "completed",
      "failed", "canceled", "lost"} \subseteq Status
  BY DEF Place, InFlight, Suspended, Uninterrupted, Status, Terminal

\* One step per statement of execute().
LEMMA ExecuteType ==
  ASSUME TypeOK, NEW t \in Task, Execute(t)
  PROVE  TypeOK'
<1> USE PlaceFacts, GotoType, PublishType
<1>1. CASE EnqueueTask(t)
  BY <1>1 DEF EnqueueTask, TypeOK, runVars, outVars, store
<1>2. CASE StartWork(t)
  BY <1>2 DEF StartWork, TypeOK, runVars, outVars, store
<1>3. CASE RequireAuth(t)
  BY <1>3 DEF RequireAuth, TypeOK, runVars, outVars, store
<1>4. CASE BeginRun(t)
  <2>1. pc' \in [Task -> Place]
    BY <1>4 DEF BeginRun
  <2>2. /\ link' \in [Task -> Task \cup {NoTask}]
        /\ userInput' \in [Task -> Task \cup {NoTask}]
    BY <1>4, HistoryOfType DEF BeginRun, TypeOK, PauseState
  <2>3. loaded' \in [Task -> History]
    BY <1>4, HistoryOfType DEF BeginRun, TypeOK
  <2>4. /\ resumed' \in [Task -> BOOLEAN]
        /\ todo' \in [Task -> SUBSET Call]
    BY <1>4 DEF BeginRun, TypeOK, Granted, Message, Resumes
  <2> QED BY <1>4, <2>1, <2>2, <2>3, <2>4 DEF BeginRun, TypeOK, outVars, store
<1>5. CASE DetectResumeFails(t)
  BY <1>5 DEF DetectResumeFails, TypeOK, runVars, outVars, store
<1>6. CASE LoadHistoryFails(t)
  BY <1>6 DEF LoadHistoryFails, TypeOK, runVars, outVars, store
<1>7. CASE StreamChunk(t)
  BY <1>7, EmitChunkType DEF StreamChunk, TypeOK, runVars, store
<1>8. ASSUME NEW k \in Call, ExecuteCall(t, k)
      PROVE  TypeOK'
  BY <1>8 DEF ExecuteCall, TypeOK, runVars, outVars, store
<1>9. ASSUME NEW k \in Call, SurfaceCall(t, k)
      PROVE  TypeOK'
  <2>1. surfaced' \in [Task -> SUBSET Call]
    BY <1>9 DEF SurfaceCall, TypeOK
  <2> QED BY <1>9, <2>1, EmitChunkType DEF SurfaceCall, TypeOK, runVars, store
<1>10. ASSUME NEW D \in SUBSET FreshCalls, DeferCalls(t, D)
       PROVE  TypeOK'
  <2>1. D \in SUBSET Call
    BY DEF FreshCalls
  <2> QED BY <1>10, <2>1 DEF DeferCalls, TypeOK, outVars, store
<1>11. CASE RunFails(t)
  BY <1>11 DEF RunFails, TypeOK, runVars, outVars, store
<1>12. CASE SaveFails(t)
  BY <1>12 DEF SaveFails, TypeOK, runVars, outVars, store
<1>13. CASE SavePausedHistory(t)
  <2>1. deferred[t] \in SUBSET Call
    BY DEF TypeOK
  <2> QED BY <1>13, <2>1, SaveHistoryType
          DEF SavePausedHistory, TypeOK, runVars, outVars
<1>14. CASE SavePauseState(t)
  <2>1. [task |-> t, userInput |-> userInput[t]] \in PauseState
    BY DEF TypeOK, PauseState
  <2>2. pause' \in [Context -> PauseState]
    BY <1>14, <2>1 DEF SavePauseState, TypeOK
  <2> QED BY <1>14, <2>2 DEF SavePauseState, TypeOK, runVars, outVars
<1>15. CASE RequireInput(t)
  BY <1>15 DEF RequireInput, TypeOK, runVars, outVars, store
<1>16. CASE LastChunk(t)
  BY <1>16, EmitChunkType DEF LastChunk, TypeOK, runVars, store
<1>17. CASE SaveTurn(t)
  BY <1>17, SaveHistoryType DEF SaveTurn, TypeOK, runVars, outVars
<1>18. CASE StructuredArtifact(t)
  BY <1>18 DEF StructuredArtifact, TypeOK, runVars, outVars, store
<1>19. CASE Complete(t)
  BY <1>19 DEF Complete, TypeOK, runVars, outVars, store
<1> QED
  BY <1>1, <1>2, <1>3, <1>4, <1>5, <1>6, <1>7, <1>8, <1>9, <1>10, <1>11,
     <1>12, <1>13, <1>14, <1>15, <1>16, <1>17, <1>18, <1>19
  DEF Execute

\* The type invariant is inductive.
LEMMA TypeStep == TypeOK /\ [Next]_vars => TypeOK'
<1> SUFFICES ASSUME TypeOK, [Next]_vars PROVE TypeOK'
  OBVIOUS
<1>1. ASSUME NEW t \in Task, Receive(t) PROVE TypeOK'
  BY <1>1, ReceiveType
<1>2. ASSUME NEW t \in Task, Execute(t) PROVE TypeOK'
  BY <1>2, ExecuteType
<1>3. ASSUME NEW t \in Task, Cancel(t) PROVE TypeOK'
  BY <1>3, PlaceFacts, PublishType
  DEF Cancel, TypeOK, runVars, outVars, store
<1>4. ASSUME NEW t \in Task, Interrupt(t) PROVE TypeOK'
  BY <1>4, PlaceFacts, GotoType
  DEF Interrupt, TypeOK, runVars, outVars, store
<1>5. CASE Crash
  <2>1. crashes' \in 0 .. MaxCrashes
    BY <1>5, BoundsAssumption DEF Crash, TypeOK
  <2>2. pc' \in [Task -> Place] /\ status' \in [Task -> Status]
    BY <1>5, PlaceFacts DEF Crash, TypeOK
  <2> QED BY <1>5, <2>1, <2>2 DEF Crash, TypeOK, runVars, outVars, store
<1>6. CASE UNCHANGED vars
  BY <1>6 DEF vars, TypeOK, runVars, outVars, store
<1> QED BY <1>1, <1>2, <1>3, <1>4, <1>5, <1>6 DEF Next

\* Every variable always has its type, and the crash bound is kept.
THEOREM TypeCorrect == Spec => []TypeOK
  BY InitType, TypeStep, PTL DEF Spec

-----------------------------------------------------------------------------
(* What the store holds, and what is told of it.                           *)

Unsaved == {"new", "arrived", "submitted", "ready", "running", "deferring",
            "closing"}
Saved   == {"history_saved", "pause_saved", "turn_saved", "completing"}

\* A task is committed from its save on and not before, what it committed
\* never leaves its conversation empty, and neither a conversation nor a
\* loaded one holds a turn that was not committed.
CommitInv ==
  /\ \A t \in Task : pc[t] \in Unsaved => t \notin committed
  /\ \A t \in Task : pc[t] \in Saved /\ ContextOf(t) # NoContext
                       => t \in committed
  /\ \A t \in committed :
       ContextOf(t) \in Context /\ history[ContextOf(t)].turns # {}
  /\ \A c \in Context : history[c].turns \subseteq committed
  /\ \A t \in Task : loaded[t].turns \subseteq committed

Stopped == {"ended", "raised", "dead"}

\* The reports, with the place each of them is made from.
ReportInv ==
  \A t \in Task :
    /\ pc[t] = "new" => status[t] = "absent"
    /\ status[t] \in {"completed", "input_required"} /\ ContextOf(t) # NoContext
         => t \in committed
    /\ status[t] \in {"failed", "auth_required"}
         => t \notin committed /\ pc[t] \in Stopped

LEMMA PlacesApart ==
  /\ Unsaved \cap Saved = {}
  /\ Stopped \cap (Unsaved \cup Saved) = {}
  /\ {"new", "arrived", "submitted", "ready", "running", "deferring",
      "closing"} \subseteq Unsaved
  /\ {"history_saved", "pause_saved", "turn_saved", "completing"} \subseteq Saved
  /\ {"ended", "raised", "dead"} \subseteq Stopped
  /\ "new" \notin Saved \cup Stopped
  BY DEF Unsaved, Saved, Stopped

\* The steps that leave the database, the messages and the snapshots alone.
QuietPlaces(t) ==
  /\ \A u \in Task \ {t} : pc'[u] = pc[u]
  /\ pc'[t] \in Unsaved => pc[t] \in Unsaved
  /\ pc'[t] \in Saved   => pc[t] \in Saved

LEMMA CommitInit == Init => CommitInv /\ ReportInv
  BY NoContextAssumption
  DEF Init, CommitInv, ReportInv, Saved, Stopped, EmptyHistory, ContextOf, NoMessage

LEMMA QuietCommit ==
  ASSUME TypeOK, CommitInv, NEW t \in Task, QuietPlaces(t),
         UNCHANGED <<msg, loaded, history, committed>>
  PROVE  CommitInv'
  BY DEF CommitInv, QuietPlaces, ContextOf, TypeOK

LEMMA GotoQuiet ==
  ASSUME TypeOK, NEW t \in Task, NEW from, NEW to, Goto(t, from, to),
         to \in Unsaved => from \in Unsaved,
         to \in Saved => from \in Saved
  PROVE  QuietPlaces(t)
  BY DEF Goto, QuietPlaces, TypeOK

LEMMA SaveCommit ==
  ASSUME TypeOK, CommitInv, NEW t \in Task, NEW calls \in SUBSET Call,
         SaveHistory(t, calls), pc[t] \in Unsaved,
         NEW to \in Saved, pc' = [pc EXCEPT ![t] = to],
         UNCHANGED <<msg, loaded>>
  PROVE  CommitInv'
<1> USE PlacesApart
<1>1. CASE ContextOf(t) = NoContext
  BY <1>1 DEF CommitInv, SaveHistory, ContextOf, TypeOK
<1>2. CASE ContextOf(t) # NoContext
  <2> DEFINE c == ContextOf(t)
  <2>1. c \in Context
    BY <1>2, ContextType
  <2>2. /\ history'[c].turns = loaded[t].turns \cup {t}
        /\ \A d \in Context \ {c} : history'[d] = history[d]
        /\ committed' = committed \cup {t}
    BY <1>2, <2>1 DEF SaveHistory, TypeOK
  <2>3. \A u \in Task : ContextOf(u)' = ContextOf(u)
    BY DEF ContextOf
  <2>4. /\ pc'[t] = to
        /\ \A u \in Task \ {t} : pc'[u] = pc[u]
    BY DEF TypeOK
  <2>5. \A u \in Task :
          /\ pc'[u] \in Unsaved => u \notin committed'
          /\ pc'[u] \in Saved /\ ContextOf(u)' # NoContext => u \in committed'
    BY <2>2, <2>3, <2>4 DEF CommitInv
  <2>6. \A u \in committed' :
          ContextOf(u)' \in Context /\ history'[ContextOf(u)'].turns # {}
    <3>1. ASSUME NEW u \in committed'
          PROVE  ContextOf(u) \in Context /\ history'[ContextOf(u)].turns # {}
      <4>1. t \in history'[c].turns
        BY <2>2
      <4>2. ContextOf(u) \in Context
        BY <2>1, <2>2 DEF CommitInv
      <4>3. CASE ContextOf(u) = c
        BY <4>1, <4>2, <4>3
      <4>4. CASE ContextOf(u) # c
        BY <2>2, <4>2, <4>4 DEF CommitInv
      <4> QED BY <4>2, <4>3, <4>4
    <3>2. \A u \in committed' : ContextOf(u)' = ContextOf(u)
      BY DEF ContextOf
    <3> QED BY <3>1, <3>2
  <2>7. \A d \in Context : history'[d].turns \subseteq committed'
    BY <2>2 DEF CommitInv
  <2>8. \A u \in Task : loaded'[u].turns \subseteq committed'
    BY <2>2 DEF CommitInv
  <2> QED BY <2>5, <2>6, <2>7, <2>8 DEF CommitInv
<1> QED BY <1>1, <1>2

LEMMA ReceiveCommit ==
  ASSUME TypeOK, CommitInv, NEW t \in Task, Receive(t)
  PROVE  CommitInv'
<1>1. PICK m \in Message : Arrive(t, m)
  BY ArriveFact
<1>2. t \notin committed
  BY <1>1, PlacesApart DEF Arrive, CommitInv
<1>3. \A u \in Task \ {t} : pc'[u] = pc[u] /\ ContextOf(u)' = ContextOf(u)
  BY <1>1 DEF Arrive, TypeOK, ContextOf
<1>4. pc'[t] = "arrived" /\ UNCHANGED <<loaded, history, committed>>
  BY <1>1 DEF Arrive, TypeOK, store
<1>5. pc'[t] \in Unsaved /\ pc'[t] \notin Saved
  BY <1>4, PlacesApart
<1>6. \A u \in committed : u \in Task \ {t}
  BY <1>2 DEF TypeOK
<1> QED BY <1>2, <1>3, <1>4, <1>5, <1>6 DEF CommitInv

LEMMA BeginRunCommit ==
  ASSUME TypeOK, CommitInv, NEW t \in Task, BeginRun(t)
  PROVE  CommitInv'
<1>1. /\ pc[t] = "ready" /\ pc'[t] = "running"
      /\ \A u \in Task \ {t} : pc'[u] = pc[u]
      /\ UNCHANGED <<msg, history, committed>>
  BY DEF BeginRun, Goto, TypeOK, store
<1>2. \A u \in Task : loaded'[u].turns \subseteq committed
  <2>1. HistoryOf(t).turns \subseteq committed
    BY ContextType DEF HistoryOf, CommitInv, EmptyHistory
  <2> QED BY <2>1 DEF BeginRun, TypeOK, CommitInv
<1>3. \A u \in Task : ContextOf(u)' = ContextOf(u)
  BY <1>1 DEF ContextOf
<1>4. t \notin committed
  BY <1>1, PlacesApart DEF CommitInv
<1>5. \A u \in Task : pc'[u] \in Unsaved => u \notin committed
  BY <1>1, <1>4 DEF CommitInv
<1>6. \A u \in Task : pc'[u] \in Saved /\ ContextOf(u) # NoContext
                        => u \in committed
  BY <1>1, PlacesApart DEF CommitInv
<1>7. \A u \in committed :
        ContextOf(u)' \in Context /\ history'[ContextOf(u)'].turns # {}
  BY <1>1, <1>3 DEF CommitInv, TypeOK
<1> QED BY <1>1, <1>2, <1>3, <1>5, <1>6, <1>7 DEF CommitInv

LEMMA ExecuteCommit ==
  ASSUME TypeOK, CommitInv, NEW t \in Task, Execute(t)
  PROVE  CommitInv'
<1> USE PlacesApart
<1>1. CASE SavePausedHistory(t)
  <2>1. deferred[t] \in SUBSET Call
    BY DEF TypeOK
  <2> QED BY <1>1, <2>1, SaveCommit DEF SavePausedHistory, Goto, runVars
<1>2. CASE SaveTurn(t)
  BY <1>2, SaveCommit DEF SaveTurn, Goto, runVars
<1>3. CASE BeginRun(t)
  BY <1>3, BeginRunCommit
<1>4. CASE EnqueueTask(t)
  BY <1>4, GotoQuiet, QuietCommit DEF EnqueueTask, runVars, store
<1>5. CASE StartWork(t)
  BY <1>5, GotoQuiet, QuietCommit DEF StartWork, runVars, store
<1>6. CASE RequireAuth(t)
  BY <1>6, GotoQuiet, QuietCommit DEF RequireAuth, runVars, store
<1>7. CASE DetectResumeFails(t)
  BY <1>7, GotoQuiet, QuietCommit DEF DetectResumeFails, runVars, store
<1>8. CASE LoadHistoryFails(t)
  BY <1>8, GotoQuiet, QuietCommit DEF LoadHistoryFails, runVars, store
<1>9. CASE StreamChunk(t)
  BY <1>9, GotoQuiet, QuietCommit DEF StreamChunk, runVars, store
<1>10. ASSUME NEW k \in Call, ExecuteCall(t, k) PROVE CommitInv'
  BY <1>10, GotoQuiet, QuietCommit DEF ExecuteCall, runVars, store
<1>11. ASSUME NEW k \in Call, SurfaceCall(t, k) PROVE CommitInv'
  BY <1>11, GotoQuiet, QuietCommit DEF SurfaceCall, runVars, store
<1>12. ASSUME NEW D \in SUBSET FreshCalls, DeferCalls(t, D) PROVE CommitInv'
  BY <1>12, GotoQuiet, QuietCommit DEF DeferCalls, runVars, store
<1>13. CASE RunFails(t)
  BY <1>13, GotoQuiet, QuietCommit DEF RunFails, runVars, store
<1>14. CASE SaveFails(t)
  BY <1>14, GotoQuiet, QuietCommit DEF SaveFails, runVars, store
<1>15. CASE SavePauseState(t)
  BY <1>15, GotoQuiet, QuietCommit DEF SavePauseState, runVars
<1>16. CASE RequireInput(t)
  BY <1>16, GotoQuiet, QuietCommit DEF RequireInput, runVars, store
<1>17. CASE LastChunk(t)
  BY <1>17, GotoQuiet, QuietCommit DEF LastChunk, runVars, store
<1>18. CASE StructuredArtifact(t)
  BY <1>18, GotoQuiet, QuietCommit DEF StructuredArtifact, runVars, store
<1>19. CASE Complete(t)
  BY <1>19, GotoQuiet, QuietCommit DEF Complete, runVars, store
<1> QED
  BY <1>1, <1>2, <1>3, <1>4, <1>5, <1>6, <1>7, <1>8, <1>9, <1>10, <1>11,
     <1>12, <1>13, <1>14, <1>15, <1>16, <1>17, <1>18, <1>19
  DEF Execute

\* A statement that reports nothing, and at most commits its own task.
LEMMA SilentReport ==
  ASSUME TypeOK, ReportInv, NEW t \in Task, NEW from, NEW to,
         Goto(t, from, to), from \notin Stopped, to # "new",
         committed \subseteq committed', committed' \subseteq committed \cup {t},
         UNCHANGED <<msg, status>>
  PROVE  ReportInv'
<1>1. /\ pc[t] \notin Stopped /\ pc'[t] # "new"
      /\ \A u \in Task \ {t} : pc'[u] = pc[u]
  BY DEF Goto, TypeOK
<1>2. \A u \in Task : ContextOf(u)' = ContextOf(u)
  BY DEF ContextOf
<1> QED BY <1>1, <1>2 DEF ReportInv

\* A statement that reports s about its own task.
LEMMA TellReport ==
  ASSUME TypeOK, ReportInv, NEW t \in Task, NEW from, NEW to, NEW s \in Status,
         Goto(t, from, to), from \notin Stopped, to # "new",
         Publish(t, s), UNCHANGED <<msg, committed>>,
         s \in {"completed", "input_required"} /\ ContextOf(t) # NoContext
           => t \in committed,
         s \in {"failed", "auth_required"} => t \notin committed /\ to \in Stopped
  PROVE  ReportInv'
<1>1. /\ pc[t] \notin Stopped /\ pc'[t] = to
      /\ \A u \in Task \ {t} : pc'[u] = pc[u]
  BY DEF Goto, TypeOK
<1>2. /\ status'[t] = s \/ status'[t] = status[t]
      /\ \A u \in Task \ {t} : status'[u] = status[u]
  BY DEF Publish, TypeOK
<1>3. \A u \in Task : ContextOf(u)' = ContextOf(u)
  BY DEF ContextOf
<1> QED BY <1>1, <1>2, <1>3 DEF ReportInv

LEMMA ReceiveReport ==
  ASSUME TypeOK, ReportInv, NEW t \in Task, Receive(t)
  PROVE  ReportInv'
<1>1. PICK m \in Message : Arrive(t, m)
  BY ArriveFact
<1>2. /\ pc[t] = "new" /\ pc'[t] = "arrived"
      /\ UNCHANGED <<status, committed>>
  BY <1>1 DEF Arrive, TypeOK, store
<1>3. \A u \in Task \ {t} : pc'[u] = pc[u] /\ ContextOf(u)' = ContextOf(u)
  BY <1>1 DEF Arrive, TypeOK, ContextOf
<1>4. status'[t] = "absent"
  BY <1>2 DEF ReportInv
<1> QED BY <1>2, <1>3, <1>4 DEF ReportInv

LEMMA ExecuteReport ==
  ASSUME TypeOK, CommitInv, ReportInv, NEW t \in Task, Execute(t)
  PROVE  ReportInv'
<1> USE PlacesApart, PlaceFacts
<1>1. CASE BeginRun(t)
  BY <1>1, SilentReport DEF BeginRun, runVars, store
<1>2. CASE StreamChunk(t)
  BY <1>2, SilentReport DEF StreamChunk, runVars, store
<1>3. ASSUME NEW k \in Call, ExecuteCall(t, k) PROVE ReportInv'
  BY <1>3, SilentReport DEF ExecuteCall, runVars, store
<1>4. ASSUME NEW k \in Call, SurfaceCall(t, k) PROVE ReportInv'
  BY <1>4, SilentReport DEF SurfaceCall, runVars, store
<1>5. ASSUME NEW D \in SUBSET FreshCalls, DeferCalls(t, D) PROVE ReportInv'
  BY <1>5, SilentReport DEF DeferCalls, runVars, store
<1>6. CASE SaveFails(t)
  BY <1>6, SilentReport DEF SaveFails, runVars, store
<1>7. CASE SavePauseState(t)
  BY <1>7, SilentReport DEF SavePauseState, runVars, store
<1>8. CASE LastChunk(t)
  BY <1>8, SilentReport DEF LastChunk, runVars, store
<1>9. CASE StructuredArtifact(t)
  BY <1>9, SilentReport DEF StructuredArtifact, runVars, store
<1>10. CASE SavePausedHistory(t)
  BY <1>10, SilentReport DEF SavePausedHistory, SaveHistory, runVars
<1>11. CASE SaveTurn(t)
  BY <1>11, SilentReport DEF SaveTurn, SaveHistory, runVars
<1>12. CASE EnqueueTask(t)
  BY <1>12, TellReport DEF EnqueueTask, runVars, store
<1>13. CASE StartWork(t)
  BY <1>13, TellReport DEF StartWork, runVars, store
<1>14. CASE DetectResumeFails(t)
  BY <1>14, SilentReport DEF DetectResumeFails, runVars, store
<1>15. CASE RequireAuth(t)
  BY <1>15, TellReport DEF RequireAuth, Goto, CommitInv, runVars, store
<1>16. CASE LoadHistoryFails(t)
  BY <1>16, TellReport DEF LoadHistoryFails, Goto, CommitInv, runVars, store
<1>17. CASE RunFails(t)
  BY <1>17, TellReport DEF RunFails, Goto, CommitInv, runVars, store
<1>18. CASE RequireInput(t)
  BY <1>18, TellReport DEF RequireInput, Goto, CommitInv, runVars, store
<1>19. CASE Complete(t)
  BY <1>19, TellReport DEF Complete, Goto, CommitInv, runVars, store
<1> QED
  BY <1>1, <1>2, <1>3, <1>4, <1>5, <1>6, <1>7, <1>8, <1>9, <1>10, <1>11,
     <1>12, <1>13, <1>14, <1>15, <1>16, <1>17, <1>18, <1>19
  DEF Execute

\* The two invariants are inductive.
LEMMA CommitAlways == Spec => [](CommitInv /\ ReportInv)
<1>1. TypeOK /\ CommitInv /\ ReportInv /\ [Next]_vars
        => CommitInv' /\ ReportInv'
  <2> SUFFICES ASSUME TypeOK, CommitInv, ReportInv, [Next]_vars
               PROVE  CommitInv' /\ ReportInv'
    OBVIOUS
  <2>1. ASSUME NEW t \in Task, Receive(t) PROVE CommitInv' /\ ReportInv'
    BY <2>1, ReceiveCommit, ReceiveReport
  <2>2. ASSUME NEW t \in Task, Execute(t) PROVE CommitInv' /\ ReportInv'
    BY <2>2, ExecuteCommit, ExecuteReport
  <2>3. ASSUME NEW t \in Task, Cancel(t) PROVE CommitInv' /\ ReportInv'
    <3>1. CommitInv'
      BY <2>3, QuietCommit DEF Cancel, QuietPlaces, runVars, store
    <3>2. /\ status'[t] = "canceled" /\ pc[t] # "new"
          /\ \A u \in Task \ {t} : status'[u] = status[u]
          /\ UNCHANGED <<pc, msg, committed>>
      BY <2>3 DEF Cancel, Publish, TypeOK, Terminal, ReportInv, runVars, store
    <3>3. ReportInv'
      BY <3>2 DEF ReportInv, ContextOf
    <3> QED BY <3>1, <3>3
  <2>4. ASSUME NEW t \in Task, Interrupt(t) PROVE CommitInv' /\ ReportInv'
    <3>1. PICK from \in Suspended : Goto(t, from, "ended")
      BY <2>4 DEF Interrupt
    <3>2. from \notin Stopped
      BY DEF Suspended, Stopped
    <3> QED
      BY <2>4, <3>1, <3>2, GotoQuiet, QuietCommit, SilentReport, PlacesApart
      DEF Interrupt, runVars, store
  <2>5. CASE Crash
    <3>1. \A u \in Task : \/ pc'[u] = pc[u]
                          \/ pc'[u] = "dead" /\ pc[u] # "new"
      BY <2>5 DEF Crash, InFlight, Suspended, Uninterrupted
    <3>2. UNCHANGED <<msg, loaded, history, committed>>
      BY <2>5 DEF Crash, runVars, store
    <3>3. CommitInv'
      BY <3>1, <3>2, PlacesApart DEF CommitInv, ContextOf
    <3>4. \A u \in Task : /\ status'[u] \in {"absent", "lost"}
                          /\ pc'[u] = "new" => status'[u] = "absent"
      BY <2>5, <3>1 DEF Crash, ReportInv
    <3>5. ReportInv'
      BY <3>4 DEF ReportInv
    <3> QED BY <3>3, <3>5
  <2>6. CASE UNCHANGED vars
    BY <2>6 DEF vars, CommitInv, ReportInv, ContextOf, runVars, outVars, store
  <2> QED BY <2>1, <2>2, <2>3, <2>4, <2>5, <2>6 DEF Next
<1> QED BY <1>1, CommitInit, TypeCorrect, PTL DEF Spec

\* What the client is told agrees with what the store holds, whatever tasks
\* overlap and wherever the hub crashes or the database raises.
THEOREM TruthfulReports == Spec => []ReportsAreTruthful
<1>1. CommitInv /\ ReportInv => ReportsAreTruthful
  BY DEF CommitInv, ReportInv, ReportsAreTruthful
<1> QED BY <1>1, CommitAlways, PTL

-----------------------------------------------------------------------------
(* Every announced pause can be resumed.                                   *)

\* The stored conversation of t is the one t paused with.
Waits(t) ==
  /\ history[ContextOf(t)].by = t
  /\ history[ContextOf(t)].pending = deferred[t]

PausedBy(t) ==
  pause[ContextOf(t)] = [task |-> t, userInput |-> userInput[t]]

\* Between its two saves and its report a task is alone on the event loop,
\* which is why what it has just written is still there when it reports.
AloneInv == \A t \in Task : pc[t] \in Uninterrupted => OnLoop(t)

PausingInv ==
  \A t \in Task : ContextOf(t) \in Context =>
    /\ pc[t] \in {"history_saved", "pause_saved"} => Waits(t)
    /\ pc[t] = "pause_saved" => PausedBy(t)

AnnouncedInv ==
  \A t \in announced :
    /\ pc[t] = "ended"
    /\ ContextOf(t) \in Context =>
         /\ t \in committed
         /\ history[ContextOf(t)].by = t => Waits(t) /\ PausedBy(t)

LEMMA PauseInit == Init => AloneInv /\ PausingInv /\ AnnouncedInv
  BY DEF Init, AloneInv, PausingInv, AnnouncedInv, Uninterrupted

LEMMA GotoAlone ==
  ASSUME TypeOK, NEW t \in Task, NEW from, NEW to, Goto(t, from, to)
  PROVE  AloneInv'
  BY DEF Goto, OnLoop, AloneInv, TypeOK

\* A statement of t that neither saves nor reports.
LEMMA PauseFrame ==
  ASSUME TypeOK, PausingInv, AnnouncedInv,
         NEW t \in Task, NEW from, NEW to, Goto(t, from, to),
         from # "ended", to \notin {"history_saved", "pause_saved"},
         UNCHANGED <<msg, history, pause, announced, committed>>,
         \A u \in Task \ {t} : /\ deferred'[u] = deferred[u]
                               /\ userInput'[u] = userInput[u]
  PROVE  PausingInv' /\ AnnouncedInv'
<1>1. /\ pc[t] # "ended" /\ pc'[t] \notin {"history_saved", "pause_saved"}
      /\ \A u \in Task \ {t} : pc'[u] = pc[u]
  BY DEF Goto, TypeOK
<1>2. \A u \in Task \ {t} : /\ ContextOf(u)' = ContextOf(u)
                            /\ Waits(u)' = Waits(u)
                            /\ PausedBy(u)' = PausedBy(u)
  BY DEF ContextOf, Waits, PausedBy
<1>3. PausingInv'
  BY <1>1, <1>2 DEF PausingInv
<1>4. \A u \in announced : u \in Task \ {t}
  BY <1>1 DEF AnnouncedInv, TypeOK
<1>5. \A u \in announced : /\ ContextOf(u)' = ContextOf(u)
                           /\ history'[ContextOf(u)'] = history[ContextOf(u)]
  BY DEF ContextOf
<1> QED BY <1>1, <1>2, <1>3, <1>4, <1>5 DEF AnnouncedInv

\* A save of t: every other announced task of that conversation is no longer
\* the one that saved it last, and no other task is between its saves.
LEMMA PauseSave ==
  ASSUME TypeOK, AnnouncedInv, NEW t \in Task,
         NEW from \in {"deferring", "closing"}, NEW to, Goto(t, from, to),
         NEW calls \in SUBSET Call, SaveHistory(t, calls),
         UNCHANGED <<msg, pause, deferred, userInput, announced>>
  PROVE  /\ AnnouncedInv'
         /\ \A u \in Task \ {t} : pc'[u] \notin Uninterrupted
         /\ ContextOf(t) \in Context => /\ history'[ContextOf(t)].by = t
                                        /\ history'[ContextOf(t)].pending = calls
<1>1. /\ pc[t] # "ended"
      /\ \A u \in Task \ {t} : pc'[u] = pc[u] /\ pc'[u] \notin Uninterrupted
  BY DEF Goto, OnLoop, TypeOK
<1>2. \A u \in Task : ContextOf(u)' = ContextOf(u)
  BY DEF ContextOf
<1>3. ContextOf(t) \in Context => /\ history'[ContextOf(t)].by = t
                                  /\ history'[ContextOf(t)].pending = calls
  BY NoContextAssumption DEF SaveHistory, TypeOK
<1>4. \A d \in Context : d = ContextOf(t) \/ history'[d] = history[d]
  BY DEF SaveHistory, TypeOK
<1>5. committed \subseteq committed'
  BY DEF SaveHistory
<1>6. ASSUME NEW u \in announced'
      PROVE  /\ pc'[u] = "ended"
             /\ ContextOf(u)' \in Context =>
                  /\ u \in committed'
                  /\ history'[ContextOf(u)'].by = u => Waits(u)' /\ PausedBy(u)'
  <2>1. u \in announced /\ u \in Task \ {t} /\ pc'[u] = "ended"
    BY <1>1, <1>6 DEF AnnouncedInv, TypeOK
  <2>2. CASE ContextOf(u) \in Context /\ ContextOf(u) = ContextOf(t)
    BY <1>2, <1>3, <1>5, <2>1, <2>2 DEF AnnouncedInv
  <2>3. CASE ContextOf(u) \in Context /\ ContextOf(u) # ContextOf(t)
    <3>1. history'[ContextOf(u)] = history[ContextOf(u)]
      BY <1>4, <2>3
    <3> QED
      BY <1>2, <1>5, <2>1, <2>3, <3>1 DEF AnnouncedInv, Waits, PausedBy
  <2> QED BY <1>2, <2>1, <2>2, <2>3
<1> QED BY <1>1, <1>3, <1>6 DEF AnnouncedInv

LEMMA ReceivePause ==
  ASSUME TypeOK, AloneInv, PausingInv, AnnouncedInv, NEW t \in Task, Receive(t)
  PROVE  AloneInv' /\ PausingInv' /\ AnnouncedInv'
<1>1. PICK m \in Message : Arrive(t, m)
  BY ArriveFact
<1>2. /\ pc[t] = "new" /\ pc'[t] = "arrived"
      /\ \A u \in Task \ {t} : pc'[u] = pc[u] /\ ContextOf(u)' = ContextOf(u)
      /\ UNCHANGED <<history, pause, committed, deferred, userInput, announced>>
  BY <1>1 DEF Arrive, TypeOK, ContextOf, store
<1>3. AloneInv'
  BY <1>2 DEF AloneInv, OnLoop, Uninterrupted
<1>4. \A u \in Task \ {t} : Waits(u)' = Waits(u) /\ PausedBy(u)' = PausedBy(u)
  BY <1>2 DEF Waits, PausedBy
<1>5. PausingInv'
  BY <1>2, <1>4 DEF PausingInv
<1>6. \A u \in announced : u \in Task \ {t}
  BY <1>2 DEF AnnouncedInv, TypeOK
<1>7. AnnouncedInv'
  BY <1>2, <1>4, <1>6 DEF AnnouncedInv
<1> QED BY <1>3, <1>5, <1>7

LEMMA ExecutePause ==
  ASSUME TypeOK, CommitInv, AloneInv, PausingInv, AnnouncedInv,
         NEW t \in Task, Execute(t)
  PROVE  AloneInv' /\ PausingInv' /\ AnnouncedInv'
<1> DEFINE Goal == AloneInv' /\ PausingInv' /\ AnnouncedInv'
<1>1. CASE EnqueueTask(t)
  BY <1>1, GotoAlone, PauseFrame DEF EnqueueTask, runVars, store
<1>2. CASE StartWork(t)
  BY <1>2, GotoAlone, PauseFrame DEF StartWork, runVars, store
<1>3. CASE RequireAuth(t)
  BY <1>3, GotoAlone, PauseFrame DEF RequireAuth, runVars, store
<1>4. CASE BeginRun(t)
  BY <1>4, GotoAlone, PauseFrame DEF BeginRun, TypeOK, runVars, store
<1>5. CASE DetectResumeFails(t)
  BY <1>5, GotoAlone, PauseFrame DEF DetectResumeFails, runVars, store
<1>6. CASE LoadHistoryFails(t)
  BY <1>6, GotoAlone, PauseFrame DEF LoadHistoryFails, runVars, store
<1>7. CASE StreamChunk(t)
  BY <1>7, GotoAlone, PauseFrame DEF StreamChunk, runVars, store
<1>8. ASSUME NEW k \in Call, ExecuteCall(t, k) PROVE Goal
  BY <1>8, GotoAlone, PauseFrame DEF ExecuteCall, runVars, store
<1>9. ASSUME NEW k \in Call, SurfaceCall(t, k) PROVE Goal
  BY <1>9, GotoAlone, PauseFrame DEF SurfaceCall, runVars, store
<1>10. ASSUME NEW D \in SUBSET FreshCalls, DeferCalls(t, D) PROVE Goal
  BY <1>10, GotoAlone, PauseFrame DEF DeferCalls, TypeOK, runVars, store
<1>11. CASE RunFails(t)
  BY <1>11, GotoAlone, PauseFrame DEF RunFails, runVars, store
<1>12. CASE SaveFails(t)
  BY <1>12, GotoAlone, PauseFrame DEF SaveFails, runVars, store
<1>13. CASE LastChunk(t)
  BY <1>13, GotoAlone, PauseFrame DEF LastChunk, runVars, store
<1>14. CASE StructuredArtifact(t)
  BY <1>14, GotoAlone, PauseFrame DEF StructuredArtifact, runVars, store
<1>15. CASE Complete(t)
  BY <1>15, GotoAlone, PauseFrame DEF Complete, runVars, store
<1>16. CASE SavePausedHistory(t)
  <2>1. Goto(t, "deferring", "history_saved") /\ SaveHistory(t, deferred[t])
    BY <1>16 DEF SavePausedHistory
  <2>2. deferred[t] \in SUBSET Call /\ pc'[t] = "history_saved"
    BY <2>1 DEF TypeOK, Goto
  <2>3. /\ AloneInv' /\ AnnouncedInv'
        /\ \A u \in Task \ {t} : pc'[u] \notin Uninterrupted
        /\ ContextOf(t) \in Context =>
             /\ history'[ContextOf(t)].by = t
             /\ history'[ContextOf(t)].pending = deferred[t]
    BY <1>16, <2>1, <2>2, GotoAlone, PauseSave DEF SavePausedHistory, runVars
  <2>4. ContextOf(t)' = ContextOf(t) /\ deferred' = deferred
    BY <1>16 DEF SavePausedHistory, ContextOf, runVars
  <2>5. PausingInv'
    BY <2>2, <2>3, <2>4 DEF PausingInv, Waits, Uninterrupted
  <2> QED BY <2>3, <2>5
<1>17. CASE SaveTurn(t)
  <2>1. Goto(t, "closing", "turn_saved") /\ SaveHistory(t, {})
    BY <1>17 DEF SaveTurn
  <2>2. /\ AloneInv' /\ AnnouncedInv'
        /\ \A u \in Task \ {t} : pc'[u] \notin Uninterrupted
    BY <1>17, <2>1, GotoAlone, PauseSave DEF SaveTurn, runVars
  <2>3. pc'[t] = "turn_saved"
    BY <2>1 DEF Goto, TypeOK
  <2>4. PausingInv'
    BY <2>2, <2>3 DEF PausingInv, Uninterrupted
  <2> QED BY <2>2, <2>4
<1>18. CASE SavePauseState(t)
  <2>1. /\ Goto(t, "history_saved", "pause_saved")
        /\ UNCHANGED <<msg, history, committed, deferred, userInput, announced>>
    BY <1>18 DEF SavePauseState, runVars
  <2>2. /\ pc[t] = "history_saved" /\ pc'[t] = "pause_saved"
        /\ \A u \in Task \ {t} : pc'[u] = pc[u] /\ pc'[u] \notin Uninterrupted
    BY <2>1 DEF Goto, OnLoop, TypeOK
  <2>3. \A u \in Task : ContextOf(u)' = ContextOf(u) /\ Waits(u)' = Waits(u)
    BY <2>1 DEF ContextOf, Waits
  <2>4. /\ ContextOf(t) \in Context => PausedBy(t)'
        /\ \A d \in Context : d = ContextOf(t) \/ pause'[d] = pause[d]
    BY <1>18, <2>1, NoContextAssumption
    DEF SavePauseState, PausedBy, ContextOf, TypeOK
  <2>5. PausingInv'
    BY <2>2, <2>3, <2>4 DEF PausingInv, Uninterrupted
  <2>6. ASSUME NEW u \in announced, ContextOf(u) \in Context,
               history[ContextOf(u)].by = u
        PROVE  PausedBy(u)'
    <3>1. u \in Task \ {t} /\ PausedBy(u)
      BY <2>2, <2>6 DEF AnnouncedInv, TypeOK
    <3>2. ContextOf(u) # ContextOf(t)
      BY <2>2, <2>6, <3>1 DEF PausingInv, Waits
    <3> QED BY <2>1, <2>3, <2>4, <2>6, <3>1, <3>2 DEF PausedBy
  <2>7. \A u \in announced : pc'[u] = "ended"
    BY <2>2 DEF AnnouncedInv, TypeOK
  <2>8. \A u \in announced : u \in Task
    BY DEF TypeOK
  <2>9. AnnouncedInv'
    BY <2>1, <2>3, <2>6, <2>7, <2>8 DEF AnnouncedInv
  <2> QED BY <2>1, <2>5, <2>9, GotoAlone
<1>19. CASE RequireInput(t)
  <2>1. /\ Goto(t, "pause_saved", "ended")
        /\ announced' \subseteq announced \cup {t}
        /\ UNCHANGED <<msg, history, pause, committed, deferred, userInput>>
    BY <1>19 DEF RequireInput, runVars, store
  <2>2. /\ pc[t] = "pause_saved" /\ pc'[t] = "ended"
        /\ \A u \in Task \ {t} : pc'[u] = pc[u]
    BY <2>1 DEF Goto, TypeOK
  <2>3. \A u \in Task : /\ ContextOf(u)' = ContextOf(u)
                        /\ Waits(u)' = Waits(u)
                        /\ PausedBy(u)' = PausedBy(u)
    BY <2>1 DEF ContextOf, Waits, PausedBy
  <2>4. PausingInv'
    BY <2>2, <2>3 DEF PausingInv
  <2>5. ContextOf(t) \in Context
          => t \in committed /\ Waits(t) /\ PausedBy(t)
    BY <2>2, NoContextAssumption, PlacesApart DEF CommitInv, PausingInv
  <2>6. \A u \in announced' : u \in Task /\ pc'[u] = "ended"
    BY <2>1, <2>2 DEF AnnouncedInv, TypeOK
  <2>7. AnnouncedInv'
    BY <2>1, <2>3, <2>5, <2>6 DEF AnnouncedInv
  <2> QED BY <2>1, <2>4, <2>7, GotoAlone
<1> QED
  BY <1>1, <1>2, <1>3, <1>4, <1>5, <1>6, <1>7, <1>8, <1>9, <1>10, <1>11,
     <1>12, <1>13, <1>14, <1>15, <1>16, <1>17, <1>18, <1>19
  DEF Execute

\* The three invariants are inductive.
LEMMA PauseAlways == Spec => [](AloneInv /\ PausingInv /\ AnnouncedInv)
<1>1. TypeOK /\ CommitInv /\ AloneInv /\ PausingInv /\ AnnouncedInv /\ [Next]_vars
        => AloneInv' /\ PausingInv' /\ AnnouncedInv'
  <2> SUFFICES ASSUME TypeOK, CommitInv, AloneInv, PausingInv, AnnouncedInv,
                      [Next]_vars
               PROVE  AloneInv' /\ PausingInv' /\ AnnouncedInv'
    OBVIOUS
  <2>1. ASSUME NEW t \in Task, Receive(t)
        PROVE  AloneInv' /\ PausingInv' /\ AnnouncedInv'
    BY <2>1, ReceivePause
  <2>2. ASSUME NEW t \in Task, Execute(t)
        PROVE  AloneInv' /\ PausingInv' /\ AnnouncedInv'
    BY <2>2, ExecutePause
  <2>3. ASSUME NEW t \in Task, Cancel(t)
        PROVE  AloneInv' /\ PausingInv' /\ AnnouncedInv'
    BY <2>3 DEF Cancel, AloneInv, PausingInv, AnnouncedInv, OnLoop, Waits,
       PausedBy, ContextOf, runVars, store
  <2>4. ASSUME NEW t \in Task, Interrupt(t)
        PROVE  AloneInv' /\ PausingInv' /\ AnnouncedInv'
    <3>1. PICK from \in Suspended : Goto(t, from, "ended")
      BY <2>4 DEF Interrupt
    <3>2. from # "ended"
      BY DEF Suspended
    <3> QED
      BY <2>4, <3>1, <3>2, GotoAlone, PauseFrame DEF Interrupt, runVars, store
  <2>5. CASE Crash
    <3>1. \A u \in Task : /\ pc'[u] \notin Uninterrupted
                          /\ pc[u] = "ended" => pc'[u] = "ended"
      BY <2>5 DEF Crash, InFlight, Suspended, Uninterrupted
    <3>2. UNCHANGED <<msg, history, pause, committed, deferred, userInput,
                      announced>>
      BY <2>5 DEF Crash, runVars, store
    <3>3. AloneInv' /\ PausingInv'
      BY <3>1 DEF AloneInv, PausingInv, Uninterrupted
    <3>4. AnnouncedInv'
      BY <3>1, <3>2 DEF AnnouncedInv, Waits, PausedBy, ContextOf, TypeOK
    <3> QED BY <3>3, <3>4
  <2>6. CASE UNCHANGED vars
    BY <2>6 DEF vars, AloneInv, PausingInv, AnnouncedInv, OnLoop, Waits,
       PausedBy, ContextOf, runVars, outVars, store
  <2> QED BY <2>1, <2>2, <2>3, <2>4, <2>5, <2>6 DEF Next
<1> QED BY <1>1, PauseInit, CommitAlways, TypeCorrect, PTL DEF Spec

\* What a client was told to answer can be answered: the conversation and the
\* pause state its answer needs are in the database, through crashes, failing
\* writes and overlapping tasks, until another run saves that conversation.
THEOREM AnnouncedResumable == Spec => []AnnouncedIsResumable
<1>1. AnnouncedInv => AnnouncedIsResumable
  BY DEF AnnouncedInv, AnnouncedIsResumable, Waits, PausedBy
<1> QED BY <1>1, PauseAlways, PTL

-----------------------------------------------------------------------------
(* What a stored conversation contains, what an answer reaches, and which  *)
(* calls run.                                                              *)

\* Before BeginRun a task has neither a history nor a decision in the run.
Early == {"new", "arrived", "submitted", "ready"}

LEMMA EarlyFacts ==
  /\ Early \subseteq Unsaved
  /\ Early \cap Saved = {}
  /\ Early \cap Stopped = {}
  /\ Early \cap {"running", "deferring", "closing"} = {}
  BY DEF Early, Unsaved, Saved, Stopped

-----------------------------------------------------------------------------
(* The invariants.                                                         *)

\* What a saved history waits for is what the task that saved it asked.
Asked(h) ==
  h.pending # {} => h.by \in committed /\ h.pending \subseteq deferred[h.by]

AskedInv ==
  /\ \A c \in Context : Asked(history[c])
  /\ \A t \in Task : Asked(loaded[t])

\* Turns come from one conversation, and never without those before them.
ClosedInv ==
  /\ \A c \in Context : \A u \in history[c].turns :
       ContextOf(u) = c /\ loaded[u].turns \subseteq history[c].turns
  /\ \A t \in Task : \A u \in loaded[t].turns :
       ContextOf(u) = ContextOf(t) /\ loaded[u].turns \subseteq loaded[t].turns

\* An answer is always to a task of that conversation that saved it.
AnswerInv ==
  \A t \in Task : Decisions(t) # {} =>
    /\ \E u \in committed : ContextOf(u) = ContextOf(t)
    /\ pc[t] \in {"running", "deferring", "closing"} => resumed[t]

\* Only approved calls are left to run, and only pending ones did run.
CallInv ==
  \A t \in Task :
    /\ todo[t] \subseteq msg[t].approved
    /\ todo[t] # {} => resumed[t]
    /\ \A k \in Call : t \in executed[k]
         => k \in msg[t].approved /\ k \in loaded[t].pending

\* A run has done nothing before it begins.
EarlyInv ==
  \A t \in Task : pc[t] \in Early =>
    /\ todo[t] = {} /\ loaded[t].turns = {}
    /\ \A k \in Call : t \notin executed[k]

RunInv == AskedInv /\ ClosedInv /\ AnswerInv /\ CallInv /\ EarlyInv

LEMMA RunInit == Init => RunInv
  BY DEF Init, RunInv, AskedInv, Asked, ClosedInv, AnswerInv, CallInv, EarlyInv,
     EmptyHistory, NoMessage, Decisions

-----------------------------------------------------------------------------
(* The steps that matter to them, one lemma each.                          *)

\* A step moves at most t, and not back to before its run.
MovesOnly(t) ==
  /\ \A u \in Task \ {t} : pc'[u] = pc[u]
  /\ pc'[t] \in Early => pc[t] \in Early
  /\ pc'[t] \in {"running", "deferring", "closing"}
       => pc[t] \in {"running", "deferring", "closing"}

LEMMA GotoMovesOnly ==
  ASSUME TypeOK, NEW t \in Task, NEW from, NEW to, Goto(t, from, to),
         to \in Early => from \in Early,
         to \in {"running", "deferring", "closing"}
           => from \in {"running", "deferring", "closing"}
  PROVE  MovesOnly(t)
  BY DEF Goto, MovesOnly, TypeOK

LEMMA QuietRun ==
  ASSUME TypeOK, RunInv, NEW t \in Task, MovesOnly(t),
         UNCHANGED <<msg, loaded, resumed, todo, deferred, history, committed,
                     executed>>
  PROVE  RunInv'
<1>1. AskedInv'
  BY DEF RunInv, AskedInv, Asked
<1>2. ClosedInv'
  BY DEF RunInv, ClosedInv, ContextOf
<1>3. AnswerInv'
  BY DEF RunInv, AnswerInv, Decisions, ContextOf, MovesOnly
<1>4. CallInv'
  BY DEF RunInv, CallInv
<1>5. EarlyInv'
  BY DEF RunInv, EarlyInv, MovesOnly
<1> QED BY <1>1, <1>2, <1>3, <1>4, <1>5 DEF RunInv

LEMMA ReceiveRun ==
  ASSUME TypeOK, CommitInv, AnnouncedInv, RunInv, NEW t \in Task, Receive(t)
  PROVE  RunInv'
<1>1. PICK m \in Message :
        /\ Arrive(t, m)
        /\ m.approved \cup m.denied # {}
             => \E u \in announced : /\ ContextOf(u) \in Context
                                     /\ m.context = ContextOf(u)
  <2>1. ASSUME NEW c \in Context \cup {NoContext}, Prompt(t, c)
        PROVE  \E m \in Message :
                 /\ Arrive(t, m)
                 /\ m.approved \cup m.denied # {}
                      => \E u \in announced : /\ ContextOf(u) \in Context
                                              /\ m.context = ContextOf(u)
    <3> DEFINE m == [context |-> c, answers |-> NoTask, approved |-> {},
                     denied |-> {}]
    <3>1. m \in Message /\ m.approved \cup m.denied = {}
      BY DEF Message
    <3>2. Arrive(t, m)
      BY <2>1 DEF Prompt
    <3> QED BY <3>1, <3>2
  <2>2. ASSUME NEW u \in Task, NEW yes \in SUBSET Call, NEW no \in SUBSET Call,
               Answer(t, u, yes, no)
        PROVE  \E m \in Message :
                 /\ Arrive(t, m)
                 /\ m.approved \cup m.denied # {}
                      => \E v \in announced : /\ ContextOf(v) \in Context
                                              /\ m.context = ContextOf(v)
    <3> DEFINE m == [context |-> ContextOf(u), answers |-> u, approved |-> yes,
                     denied |-> no]
    <3>1. /\ m \in Message /\ m.context = ContextOf(u)
          /\ u \in announced /\ ContextOf(u) \in Context
      BY <2>2 DEF Message, Answer
    <3>2. Arrive(t, m)
      BY <2>2 DEF Answer
    <3> QED BY <3>1, <3>2
  <2> QED BY <2>1, <2>2 DEF Receive
<1>2. /\ pc[t] = "new" /\ pc'[t] = "arrived" /\ msg'[t] = m
      /\ \A u \in Task \ {t} : pc'[u] = pc[u] /\ msg'[u] = msg[u]
      /\ UNCHANGED <<loaded, resumed, todo, deferred, history, committed,
                     executed>>
  BY <1>1 DEF Arrive, TypeOK, store
<1>3. t \notin committed /\ committed \subseteq Task
  BY <1>2, PlacesApart DEF CommitInv, TypeOK
<1>4. \A u \in Task \ {t} : /\ ContextOf(u)' = ContextOf(u)
                            /\ Decisions(u)' = Decisions(u)
  BY <1>2 DEF ContextOf, Decisions
<1>5. todo[t] = {} /\ loaded[t].turns = {} /\ \A k \in Call : t \notin executed[k]
  BY <1>2 DEF RunInv, EarlyInv, Early
<1>6. AskedInv'
  BY <1>2 DEF RunInv, AskedInv, Asked
<1>7. ClosedInv'
  BY <1>2, <1>3, <1>4, <1>5 DEF RunInv, ClosedInv, CommitInv
<1>8. AnswerInv'
  <2>1. Decisions(t)' # {} => \E u \in committed : ContextOf(u)' = ContextOf(t)'
    <3>1. ASSUME Decisions(t)' # {}
          PROVE  \E u \in committed : ContextOf(u)' = ContextOf(t)'
      <4>1. PICK u \in announced : /\ ContextOf(u) \in Context
                                   /\ m.context = ContextOf(u)
        BY <1>1, <1>2, <3>1 DEF Decisions
      <4>2. u \in committed /\ u \in Task \ {t}
        BY <1>3, <4>1 DEF AnnouncedInv
      <4>3. ContextOf(u)' = ContextOf(u) /\ ContextOf(t)' = m.context
        BY <1>2, <1>4, <4>2 DEF ContextOf
      <4> QED BY <4>1, <4>2, <4>3
    <3> QED BY <3>1
  <2>2. \A u \in committed : ContextOf(u)' = ContextOf(u)
    BY <1>3, <1>4
  <2> QED BY <1>2, <1>4, <2>1, <2>2 DEF RunInv, AnswerInv
<1>9. CallInv'
  BY <1>2, <1>5 DEF RunInv, CallInv
<1>10. EarlyInv'
  BY <1>2, <1>5 DEF RunInv, EarlyInv
<1> QED BY <1>6, <1>7, <1>8, <1>9, <1>10 DEF RunInv

LEMMA BeginRunRun ==
  ASSUME TypeOK, CommitInv, RunInv, NEW t \in Task, BeginRun(t)
  PROVE  RunInv'
<1>1. /\ pc[t] = "ready" /\ pc'[t] = "running"
      /\ \A u \in Task \ {t} : pc'[u] = pc[u]
      /\ UNCHANGED <<msg, deferred, history, committed, executed>>
  BY DEF BeginRun, Goto, TypeOK, store
<1>2. /\ loaded'[t] = HistoryOf(t)
      /\ resumed'[t] = Resumes(t)
      /\ todo'[t] = IF Resumes(t) THEN msg[t].approved ELSE {}
      /\ \A u \in Task \ {t} : /\ loaded'[u] = loaded[u]
                               /\ resumed'[u] = resumed[u]
                               /\ todo'[u] = todo[u]
  BY DEF BeginRun, Granted, TypeOK
<1>3. t \notin committed /\ committed \subseteq Task
  BY <1>1, PlacesApart DEF CommitInv, TypeOK
<1>4. \A u \in Task : /\ ContextOf(u)' = ContextOf(u)
                      /\ Decisions(u)' = Decisions(u)
  BY <1>1 DEF ContextOf, Decisions
<1>5. \A k \in Call : t \notin executed[k]
  BY <1>1 DEF RunInv, EarlyInv, Early
<1>6. CASE ContextOf(t) = NoContext
  <2>1. HistoryOf(t) = EmptyHistory
    BY <1>6 DEF HistoryOf
  <2>2. Asked(HistoryOf(t)) /\ HistoryOf(t).turns = {}
    BY <2>1 DEF Asked, EmptyHistory
  <2>3. AskedInv' /\ ClosedInv'
    BY <1>1, <1>2, <1>3, <1>4, <2>2
    DEF RunInv, AskedInv, Asked, ClosedInv, CommitInv
  <2>4. Decisions(t) = {}
    BY <1>6, NoContextAssumption DEF RunInv, AnswerInv, CommitInv
  <2>5. AnswerInv'
    <3>1. committed' \subseteq Task
      BY <1>1, <1>3
    <3> QED BY <1>1, <1>2, <1>3, <1>4, <2>4, <3>1 DEF RunInv, AnswerInv
  <2>6. CallInv' /\ EarlyInv'
    BY <1>1, <1>2, <1>5, EarlyFacts DEF RunInv, CallInv, EarlyInv
  <2> QED BY <2>3, <2>5, <2>6 DEF RunInv
<1>7. CASE ContextOf(t) # NoContext
  <2>1. ContextOf(t) \in Context /\ HistoryOf(t) = history[ContextOf(t)]
    BY <1>7, ContextType DEF HistoryOf
  <2>2. AskedInv'
    BY <1>1, <1>2, <2>1 DEF RunInv, AskedInv, Asked
  <2>3. \A c \in Context : history[c].turns \subseteq Task \ {t}
    BY <1>3 DEF CommitInv
  <2>4. \A u \in Task : loaded[u].turns \subseteq Task \ {t}
    BY <1>3 DEF CommitInv
  <2>5. ClosedInv'
    <3>1. \A c \in Context : \A u \in history[c].turns :
            ContextOf(u) = c /\ loaded'[u].turns \subseteq history[c].turns
      BY <1>2, <2>3 DEF RunInv, ClosedInv
    <3>2. \A u \in Task \ {t} : \A v \in loaded'[u].turns :
            /\ ContextOf(v) = ContextOf(u)
            /\ loaded'[v].turns \subseteq loaded'[u].turns
      BY <1>2, <2>4 DEF RunInv, ClosedInv
    <3>3. \A v \in loaded'[t].turns :
            /\ ContextOf(v) = ContextOf(t)
            /\ loaded'[v].turns \subseteq loaded'[t].turns
      BY <1>2, <2>1, <3>1
    <3>4. \A c \in Context : history[c].turns \subseteq Task
      BY <2>3
    <3>5. \A u \in Task : loaded'[u].turns \subseteq Task
      BY <1>2, <2>1, <2>3, <2>4
    <3> QED BY <1>1, <1>4, <3>1, <3>2, <3>3, <3>4, <3>5 DEF ClosedInv
  <2>6. Decisions(t) # {} => Resumes(t)
    BY <2>1 DEF RunInv, AnswerInv, CommitInv, Resumes
  <2>7. AnswerInv'
    <3>1. committed' \subseteq Task
      BY <1>1, <1>3
    <3> QED BY <1>1, <1>2, <1>3, <1>4, <2>6, <3>1 DEF RunInv, AnswerInv
  <2>8. CallInv' /\ EarlyInv'
    BY <1>1, <1>2, <1>5, EarlyFacts DEF RunInv, CallInv, EarlyInv
  <2> QED BY <2>2, <2>5, <2>7, <2>8 DEF RunInv
<1> QED BY <1>6, <1>7

LEMMA ExecuteCallRun ==
  ASSUME TypeOK, RunInv, NEW t \in Task, NEW k \in Call, ExecuteCall(t, k)
  PROVE  RunInv'
<1>1. /\ pc[t] = "running" /\ UNCHANGED <<msg, loaded, resumed, deferred,
                                          history, committed>>
      /\ pc' = pc
  BY DEF ExecuteCall, Goto, TypeOK, runVars, store
<1>2. /\ todo'[t] = todo[t] \ {k}
      /\ \A u \in Task \ {t} : todo'[u] = todo[u]
      /\ executed'[k] = executed[k] \cup {t}
      /\ \A j \in Call \ {k} : executed'[j] = executed[j]
  BY DEF ExecuteCall, TypeOK
<1>3. k \in msg[t].approved /\ k \in loaded[t].pending
  <2>1. k \in todo[t] /\ Accepted(t)
    BY DEF ExecuteCall
  <2>2. k \in msg[t].approved /\ resumed[t]
    BY <2>1 DEF RunInv, CallInv
  <2> QED BY <2>1, <2>2 DEF Accepted, Decisions
<1>4. AskedInv' /\ ClosedInv' /\ AnswerInv'
  BY <1>1 DEF RunInv, AskedInv, Asked, ClosedInv, AnswerInv, Decisions, ContextOf
<1>5. CallInv'
  BY <1>1, <1>2, <1>3 DEF RunInv, CallInv
<1>6. pc[t] \notin Early
  BY <1>1 DEF Early
<1>7. EarlyInv'
  BY <1>1, <1>2, <1>6 DEF RunInv, EarlyInv
<1> QED BY <1>4, <1>5, <1>7 DEF RunInv

LEMMA DeferCallsRun ==
  ASSUME TypeOK, CommitInv, RunInv, NEW t \in Task, NEW D, DeferCalls(t, D)
  PROVE  RunInv'
<1>1. /\ pc[t] = "running" /\ pc'[t] = "deferring"
      /\ \A u \in Task \ {t} : pc'[u] = pc[u] /\ deferred'[u] = deferred[u]
      /\ UNCHANGED <<msg, loaded, resumed, todo, history, committed, executed>>
  BY DEF DeferCalls, Goto, TypeOK, store
<1>2. \A u \in committed : deferred'[u] = deferred[u]
  BY <1>1, PlacesApart DEF CommitInv, TypeOK
<1>3. AskedInv'
  BY <1>1, <1>2 DEF RunInv, AskedInv, Asked
<1>4. ClosedInv' /\ CallInv'
  BY <1>1 DEF RunInv, ClosedInv, CallInv, ContextOf
<1>5. AnswerInv'
  BY <1>1 DEF RunInv, AnswerInv, Decisions, ContextOf
<1>6. EarlyInv'
  BY <1>1, EarlyFacts DEF RunInv, EarlyInv
<1> QED BY <1>3, <1>4, <1>5, <1>6 DEF RunInv

\* Writing back replaces the conversation by the loaded one and this turn.
LEMMA SaveRun ==
  ASSUME TypeOK, CommitInv, RunInv, NEW t \in Task, MovesOnly(t),
         pc[t] \in {"deferring", "closing"},
         NEW calls \in SUBSET deferred[t], SaveHistory(t, calls),
         UNCHANGED <<msg, loaded, resumed, todo, deferred, executed>>
  PROVE  RunInv'
<1>1. committed \subseteq committed'
  BY DEF SaveHistory
<1>2. \A u \in Task : ContextOf(u)' = ContextOf(u) /\ Decisions(u)' = Decisions(u)
  BY DEF ContextOf, Decisions
<1>3. CallInv' /\ EarlyInv'
  BY DEF RunInv, CallInv, EarlyInv, MovesOnly
<1>4. AnswerInv'
  <2>1. \A u \in Task : pc'[u] \in {"running", "deferring", "closing"}
                          => pc[u] \in {"running", "deferring", "closing"}
    BY DEF MovesOnly
  <2>2. \A u \in committed : ContextOf(u)' = ContextOf(u)
    BY <1>2 DEF TypeOK
  <2> QED BY <1>1, <1>2, <2>1, <2>2 DEF RunInv, AnswerInv
<1>5. CASE ContextOf(t) = NoContext
  <2>1. UNCHANGED <<history, committed>>
    BY <1>5 DEF SaveHistory
  <2>2. AskedInv' /\ ClosedInv'
    BY <2>1 DEF RunInv, AskedInv, Asked, ClosedInv, ContextOf
  <2> QED BY <1>3, <1>4, <2>2 DEF RunInv
<1>6. CASE ContextOf(t) # NoContext
  <2> DEFINE c == ContextOf(t)
  <2>1. /\ c \in Context
        /\ history'[c].by = t
        /\ history'[c].turns = loaded[t].turns \cup {t}
        /\ history'[c].pending = calls
        /\ \A d \in Context \ {c} : history'[d] = history[d]
        /\ committed' = committed \cup {t}
    BY <1>6, ContextType DEF SaveHistory, TypeOK
  <2>2. AskedInv'
    BY <2>1 DEF RunInv, AskedInv, Asked
  <2>3. \A d \in Context : \A u \in history'[d].turns :
          ContextOf(u) = d /\ loaded[u].turns \subseteq history'[d].turns
    <3>1. \A u \in history'[c].turns :
            ContextOf(u) = c /\ loaded[u].turns \subseteq history'[c].turns
      BY <2>1 DEF RunInv, ClosedInv
    <3>2. \A d \in Context \ {c} : \A u \in history'[d].turns :
            ContextOf(u) = d /\ loaded[u].turns \subseteq history'[d].turns
      BY <2>1 DEF RunInv, ClosedInv
    <3> QED BY <3>1, <3>2
  <2>4. \A d \in Context : history'[d].turns \subseteq Task
    <3>1. loaded[t].turns \subseteq Task /\ \A d \in Context :
            history[d].turns \subseteq Task
      BY DEF CommitInv, TypeOK
    <3> QED BY <2>1, <3>1
  <2>5. \A u \in Task : loaded[u].turns \subseteq Task
    BY DEF CommitInv, TypeOK
  <2>6. ClosedInv'
    BY <1>2, <2>3, <2>4, <2>5 DEF RunInv, ClosedInv
  <2> QED BY <1>3, <1>4, <2>2, <2>6 DEF RunInv
<1> QED BY <1>5, <1>6

LEMMA ExecuteRun ==
  ASSUME TypeOK, CommitInv, RunInv, NEW t \in Task, Execute(t)
  PROVE  RunInv'
<1> USE GotoMovesOnly, QuietRun, EarlyFacts
<1>1. CASE EnqueueTask(t)
  BY <1>1 DEF EnqueueTask, Early, runVars, store
<1>2. CASE StartWork(t)
  BY <1>2 DEF StartWork, Early, runVars, store
<1>3. CASE RequireAuth(t)
  BY <1>3 DEF RequireAuth, Early, runVars, store
<1>4. CASE BeginRun(t)
  BY <1>4, BeginRunRun
<1>5. CASE DetectResumeFails(t)
  BY <1>5 DEF DetectResumeFails, Early, runVars, store
<1>6. CASE LoadHistoryFails(t)
  BY <1>6 DEF LoadHistoryFails, Early, runVars, store
<1>7. CASE StreamChunk(t)
  BY <1>7 DEF StreamChunk, runVars, store
<1>8. ASSUME NEW k \in Call, ExecuteCall(t, k) PROVE RunInv'
  BY <1>8, ExecuteCallRun
<1>9. ASSUME NEW k \in Call, SurfaceCall(t, k) PROVE RunInv'
  BY <1>9 DEF SurfaceCall, runVars, store
<1>10. ASSUME NEW D \in SUBSET FreshCalls, DeferCalls(t, D) PROVE RunInv'
  BY <1>10, DeferCallsRun
<1>11. CASE RunFails(t)
  BY <1>11 DEF RunFails, Early, runVars, store
<1>12. CASE SaveFails(t)
  BY <1>12 DEF SaveFails, Early, runVars, store
<1>13. CASE SavePausedHistory(t)
  <2>1. MovesOnly(t) /\ pc[t] = "deferring"
    BY <1>13 DEF SavePausedHistory, Goto, Early
  <2>2. deferred[t] \in SUBSET deferred[t]
    OBVIOUS
  <2> QED BY <1>13, <2>1, <2>2, SaveRun DEF SavePausedHistory, runVars
<1>14. CASE SavePauseState(t)
  BY <1>14 DEF SavePauseState, Early, runVars
<1>15. CASE RequireInput(t)
  BY <1>15 DEF RequireInput, Early, runVars, store
<1>16. CASE LastChunk(t)
  BY <1>16 DEF LastChunk, runVars, store
<1>17. CASE SaveTurn(t)
  <2>1. MovesOnly(t) /\ pc[t] = "closing"
    BY <1>17 DEF SaveTurn, Goto, Early
  <2>2. {} \in SUBSET deferred[t]
    OBVIOUS
  <2> QED BY <1>17, <2>1, <2>2, SaveRun DEF SaveTurn, runVars
<1>18. CASE StructuredArtifact(t)
  BY <1>18 DEF StructuredArtifact, Early, runVars, store
<1>19. CASE Complete(t)
  BY <1>19 DEF Complete, Early, runVars, store
<1> QED
  BY <1>1, <1>2, <1>3, <1>4, <1>5, <1>6, <1>7, <1>8, <1>9, <1>10, <1>11,
     <1>12, <1>13, <1>14, <1>15, <1>16, <1>17, <1>18, <1>19
  DEF Execute

\* The invariants are inductive, given the ones proved before.
LEMMA RunAlways == Spec => []RunInv
<1>1. TypeOK /\ CommitInv /\ AnnouncedInv /\ RunInv /\ [Next]_vars => RunInv'
  <2> SUFFICES ASSUME TypeOK, CommitInv, AnnouncedInv, RunInv, [Next]_vars
               PROVE  RunInv'
    OBVIOUS
  <2>1. ASSUME NEW t \in Task, Receive(t) PROVE RunInv'
    BY <2>1, ReceiveRun
  <2>2. ASSUME NEW t \in Task, Execute(t) PROVE RunInv'
    BY <2>2, ExecuteRun
  <2>3. ASSUME NEW t \in Task, Cancel(t) PROVE RunInv'
    BY <2>3, QuietRun DEF Cancel, MovesOnly, runVars, store
  <2>4. ASSUME NEW t \in Task, Interrupt(t) PROVE RunInv'
    <3>1. PICK from \in Suspended : Goto(t, from, "ended")
      BY <2>4 DEF Interrupt
    <3>2. "ended" \notin Early
      BY DEF Early
    <3> QED
      BY <2>4, <3>1, <3>2, GotoMovesOnly, QuietRun DEF Interrupt, runVars, store
  <2>5. CASE Crash
    <3>1. \A u \in Task :
            /\ pc'[u] \in Early => pc[u] \in Early
            /\ pc'[u] \in {"running", "deferring", "closing"} => pc'[u] = pc[u]
      BY <2>5 DEF Crash, Early
    <3>2. UNCHANGED <<msg, loaded, resumed, todo, deferred, history, committed,
                      executed>>
      BY <2>5 DEF Crash, runVars, store
    <3>3. AskedInv' /\ ClosedInv' /\ CallInv'
      BY <3>2 DEF RunInv, AskedInv, Asked, ClosedInv, CallInv, ContextOf
    <3>4. AnswerInv' /\ EarlyInv'
      BY <3>1, <3>2 DEF RunInv, AnswerInv, EarlyInv, Decisions, ContextOf
    <3> QED BY <3>3, <3>4 DEF RunInv
  <2>6. CASE UNCHANGED vars
    BY <2>6 DEF vars, RunInv, AskedInv, Asked, ClosedInv, AnswerInv, CallInv,
       EarlyInv, Decisions, ContextOf, runVars, store
  <2> QED BY <2>1, <2>2, <2>3, <2>4, <2>5, <2>6 DEF Next
<1> QED BY <1>1, RunInit, TypeCorrect, CommitAlways, PauseAlways, PTL DEF Spec

-----------------------------------------------------------------------------
(* The theorems.                                                           *)

\* A stored conversation holds no turn without the turns it was produced
\* from and none of another conversation, however tasks overlap.
THEOREM ClosedConversations == Spec => []ConversationsAreClosed
<1>1. RunInv => ConversationsAreClosed
  BY DEF RunInv, ClosedInv, ConversationsAreClosed
<1> QED BY <1>1, RunAlways, PTL

\* The answer to an announced pause reaches the run of the agent: the stored
\* history it resumes is never gone, crashes and failing writes included.
THEOREM ApprovalsArrive == Spec => []ApprovalsReachTheRun
<1>1. RunInv => ApprovalsReachTheRun
  BY DEF RunInv, AnswerInv, ApprovalsReachTheRun
<1> QED BY <1>1, RunAlways, PTL

\* A call that was executed was approved by the message of the run and asked
\* for by the run that left the conversation waiting.
THEOREM OnlyApprovedRun == Spec => []OnlyApprovedPendingCallsRun
<1>1. TypeOK /\ RunInv => OnlyApprovedPendingCallsRun
  <2> SUFFICES ASSUME TypeOK, RunInv, NEW k \in Call, NEW t \in executed[k]
               PROVE  /\ k \in msg[t].approved
                      /\ k \in loaded[t].pending
                      /\ k \in deferred[loaded[t].by]
    BY DEF OnlyApprovedPendingCallsRun
  <2>1. t \in Task
    BY DEF TypeOK
  <2>2. k \in msg[t].approved /\ k \in loaded[t].pending
    BY <2>1 DEF RunInv, CallInv
  <2>3. k \in deferred[loaded[t].by]
    BY <2>1, <2>2 DEF RunInv, AskedInv, Asked
  <2> QED BY <2>2, <2>3
<1> QED BY <1>1, TypeCorrect, RunAlways, PTL

-----------------------------------------------------------------------------
(* The updates of the result artifact.                                     *)

\* The update that closes the artifact was sent.
Closed(t) == chunks[t] # <<>> /\ chunks[t][Len(chunks[t])].last

Open    == {"new", "arrived", "submitted", "ready", "running", "deferring"}
Closing == {"closing", "turn_saved", "completing"}

\* The artifact exists once an update was sent; only the update sent on the
\* way to "closing" closes it, and only a closed artifact is completed.
InOrder(t) ==
  /\ created[t] <=> chunks[t] # <<>>
  /\ \A i \in 1 .. Len(chunks[t]) : chunks[t][i].append = (i > 1)
  /\ \A i \in 1 .. Len(chunks[t]) - 1 : ~chunks[t][i].last
  /\ pc[t] \in Open => \A i \in 1 .. Len(chunks[t]) : ~chunks[t][i].last
  /\ pc[t] \in Closing => Closed(t)
  /\ status[t] = "completed" => pc[t] \in Stopped /\ Closed(t)

ArtifactInv == \A t \in Task : InOrder(t)

LEMMA ClosingFacts ==
  /\ Open \cap Closing = {} /\ Open \cap Stopped = {} /\ Closing \cap Stopped = {}
  /\ {"closing", "turn_saved", "completing"} \subseteq Closing
  /\ {"running", "deferring"} \subseteq Open
  /\ {"ended", "raised", "dead"} \subseteq Stopped
  BY DEF Open, Closing, Stopped

\* A statement that sends no update and does not complete its task.
LEMMA NoUpdate ==
  ASSUME TypeOK, ArtifactInv, NEW t \in Task,
         NEW from, NEW to, Goto(t, from, to), from \notin Stopped,
         to \in Open => from \in Open, to \in Closing => from \in Closing,
         \A u \in Task : status'[u] = "completed" => status[u] = "completed",
         UNCHANGED <<created, chunks>>
  PROVE  ArtifactInv'
<1>1. pc[t] = from /\ pc'[t] = to /\ \A u \in Task \ {t} : pc'[u] = pc[u]
  BY DEF Goto, TypeOK
<1>2. status'[t] # "completed"
  BY <1>1 DEF ArtifactInv, InOrder
<1> QED BY <1>1, <1>2 DEF ArtifactInv, InOrder, Closed

\* An update: the first creates, the others append.
LEMMA Update ==
  ASSUME TypeOK, ArtifactInv, NEW t \in Task, NEW last \in BOOLEAN,
         EmitChunk(t, last), pc[t] \in Open,
         NEW to, Goto(t, pc[t], to),
         to \in Closing => last, last => to \notin Open, UNCHANGED status
  PROVE  ArtifactInv'
<1> DEFINE new == [append |-> created[t], last |-> last]
           n   == Len(chunks[t])
<1>1. pc'[t] = to /\ \A u \in Task \ {t} : pc'[u] = pc[u]
  BY DEF Goto, TypeOK
<1>2. /\ chunks'[t] = Append(chunks[t], new)
      /\ created'[t] = TRUE
      /\ \A u \in Task \ {t} : /\ chunks'[u] = chunks[u]
                               /\ created'[u] = created[u]
  BY DEF EmitChunk, TypeOK
<1>3. new \in Chunk /\ chunks[t] \in Seq(Chunk) /\ n \in Nat
  BY DEF TypeOK, Chunk
<1>4. /\ chunks'[t] # <<>> /\ Len(chunks'[t]) = n + 1
      /\ chunks'[t][n + 1] = new
      /\ \A i \in 1 .. n : chunks'[t][i] = chunks[t][i]
  BY <1>2, <1>3
<1>5. \A i \in 1 .. n : chunks[t][i].append = (i > 1) /\ ~chunks[t][i].last
  BY DEF ArtifactInv, InOrder
<1>6. created[t] = (n > 0)
  <2>1. chunks[t] # <<>> <=> n > 0
    BY <1>3
  <2>2. created[t] \in BOOLEAN
    BY DEF TypeOK
  <2> QED BY <2>1, <2>2 DEF ArtifactInv, InOrder
<1>7. \A i \in 1 .. n + 1 : chunks'[t][i].append = (i > 1)
  <2>1. ASSUME NEW i \in 1 .. n + 1 PROVE chunks'[t][i].append = (i > 1)
    <3>1. CASE i = n + 1
      BY <1>3, <1>4, <1>6, <3>1
    <3>2. CASE i # n + 1
      <4>1. i \in 1 .. n
        BY <1>3, <3>2
      <4> QED BY <1>4, <1>5, <4>1
    <3> QED BY <3>1, <3>2
  <2> QED BY <2>1
<1>8. /\ \A i \in 1 .. n : ~chunks'[t][i].last
      /\ chunks'[t][n + 1].last = last
  BY <1>4, <1>5
<1>9. status[t] # "completed"
  BY ClosingFacts DEF ArtifactInv, InOrder
<1>10. /\ created'[t] <=> chunks'[t] # <<>>
       /\ \A i \in 1 .. Len(chunks'[t]) : chunks'[t][i].append = (i > 1)
       /\ \A i \in 1 .. Len(chunks'[t]) - 1 : ~chunks'[t][i].last
  <2>1. Len(chunks'[t]) - 1 = n
    BY <1>3, <1>4
  <2> QED BY <1>2, <1>4, <1>7, <1>8, <2>1
<1>11. to \in Open => \A i \in 1 .. Len(chunks'[t]) : ~chunks'[t][i].last
  <2>1. ASSUME to \in Open, NEW i \in 1 .. n + 1 PROVE ~chunks'[t][i].last
    <3>1. CASE i = n + 1
      BY <1>8, <2>1, <3>1
    <3>2. CASE i # n + 1
      <4>1. i \in 1 .. n
        BY <1>3, <3>2
      <4> QED BY <1>8, <4>1
    <3> QED BY <3>1, <3>2
  <2> QED BY <1>4, <2>1
<1>12. to \in Closing => chunks'[t] # <<>> /\ chunks'[t][Len(chunks'[t])].last
  BY <1>4, <1>8
<1>13. InOrder(t)'
  BY <1>1, <1>9, <1>10, <1>11, <1>12 DEF InOrder, Closed
<1>14. \A u \in Task \ {t} : InOrder(u)'
  BY <1>1, <1>2 DEF ArtifactInv, InOrder, Closed
<1> QED BY <1>13, <1>14 DEF ArtifactInv

LEMMA ExecuteArtifact ==
  ASSUME TypeOK, ArtifactInv, NEW t \in Task, Execute(t)
  PROVE  ArtifactInv'
<1> USE NoUpdate, ClosingFacts
<1> DEFINE Silent == \A u \in Task :
                       status'[u] = "completed" => status[u] = "completed"
<1>1. ASSUME NEW s \in Status \ {"completed"}, Publish(t, s) PROVE Silent
  BY <1>1 DEF Publish, TypeOK
<1>2. CASE EnqueueTask(t)
  BY <1>1, <1>2, PlaceFacts DEF EnqueueTask, Open, Closing, Stopped, outVars
<1>3. CASE StartWork(t)
  BY <1>1, <1>3, PlaceFacts DEF StartWork, Open, Closing, Stopped, outVars
<1>4. CASE RequireAuth(t)
  BY <1>1, <1>4, PlaceFacts DEF RequireAuth, Open, Closing, Stopped, outVars
<1>5. CASE BeginRun(t)
  BY <1>5 DEF BeginRun, Open, Closing, Stopped, outVars
<1>6. CASE DetectResumeFails(t)
  BY <1>6 DEF DetectResumeFails, Open, Closing, Stopped, outVars
<1>7. CASE LoadHistoryFails(t)
  BY <1>1, <1>7, PlaceFacts DEF LoadHistoryFails, Open, Closing, Stopped, outVars
<1>8. CASE StreamChunk(t)
  BY <1>8, Update DEF StreamChunk, Goto
<1>9. ASSUME NEW k \in Call, ExecuteCall(t, k) PROVE ArtifactInv'
  BY <1>9 DEF ExecuteCall, outVars
<1>10. ASSUME NEW k \in Call, SurfaceCall(t, k) PROVE ArtifactInv'
  BY <1>10, Update DEF SurfaceCall, Goto
<1>11. ASSUME NEW D \in SUBSET FreshCalls, DeferCalls(t, D) PROVE ArtifactInv'
  BY <1>11 DEF DeferCalls, outVars
<1>12. CASE RunFails(t)
  BY <1>1, <1>12, PlaceFacts DEF RunFails, Open, Closing, Stopped, outVars
<1>13. CASE SaveFails(t)
  BY <1>13 DEF SaveFails, Open, Closing, Stopped, outVars
<1>14. CASE SavePausedHistory(t)
  BY <1>14 DEF SavePausedHistory, Open, Closing, Stopped, outVars
<1>15. CASE SavePauseState(t)
  BY <1>15 DEF SavePauseState, Open, Closing, Stopped, outVars
<1>16. CASE RequireInput(t)
  BY <1>1, <1>16, PlaceFacts DEF RequireInput, Open, Closing, Stopped, outVars
<1>17. CASE LastChunk(t)
  BY <1>17, Update DEF LastChunk, Goto
<1>18. CASE SaveTurn(t)
  BY <1>18 DEF SaveTurn, Open, Closing, Stopped, outVars
<1>19. CASE StructuredArtifact(t)
  BY <1>19 DEF StructuredArtifact, Open, Closing, Stopped, outVars
<1>20. CASE Complete(t)
  <2>1. /\ pc[t] \in Closing /\ pc'[t] = "ended"
        /\ \A u \in Task \ {t} : pc'[u] = pc[u]
    BY <1>20 DEF Complete, Goto, TypeOK, Closing
  <2>2. \A u \in Task \ {t} : status'[u] = status[u]
    BY <1>20 DEF Complete, Publish, TypeOK
  <2>3. Closed(t)
    BY <2>1 DEF ArtifactInv, InOrder
  <2>4. UNCHANGED <<created, chunks>>
    BY <1>20 DEF Complete, outVars
  <2>5. pc'[t] \in Stopped /\ pc'[t] \notin Open \cup Closing
    BY <2>1 DEF Stopped, Open, Closing
  <2> QED BY <2>1, <2>2, <2>3, <2>4, <2>5 DEF ArtifactInv, InOrder, Closed
<1> QED
  BY <1>2, <1>3, <1>4, <1>5, <1>6, <1>7, <1>8, <1>9, <1>10, <1>11, <1>12,
     <1>13, <1>14, <1>15, <1>16, <1>17, <1>18, <1>19, <1>20
  DEF Execute

\* The first update creates the artifact and every other one appends, the
\* closing one is the last, and only a closed artifact is completed.
THEOREM ArtifactsInOrder == Spec => []ArtifactProtocol
<1>1. Init => ArtifactInv
  <2> SUFFICES ASSUME Init, NEW t \in Task PROVE InOrder(t)
    BY DEF ArtifactInv
  <2>1. /\ pc[t] = "new" /\ status[t] = "absent"
        /\ chunks[t] = <<>> /\ created[t] = FALSE
    BY DEF Init
  <2>2. Len(chunks[t]) = 0
    BY <2>1
  <2> QED BY <2>1, <2>2 DEF InOrder, Closing
<1>2. TypeOK /\ ArtifactInv /\ [Next]_vars => ArtifactInv'
  <2> SUFFICES ASSUME TypeOK, ArtifactInv, [Next]_vars PROVE ArtifactInv'
    OBVIOUS
  <2>1. ASSUME NEW t \in Task, Receive(t) PROVE ArtifactInv'
    <3>1. PICK m \in Message : Arrive(t, m)
      BY <2>1, ArriveFact
    <3>2. /\ pc[t] = "new" /\ pc'[t] = "arrived"
          /\ \A u \in Task \ {t} : pc'[u] = pc[u]
          /\ UNCHANGED <<status, created, chunks>>
      BY <3>1 DEF Arrive, TypeOK, outVars
    <3>3. status[t] # "completed"
      BY <3>2 DEF ArtifactInv, InOrder, Stopped
    <3> QED BY <3>2, <3>3 DEF ArtifactInv, InOrder, Closed, Closing, Open
  <2>2. ASSUME NEW t \in Task, Execute(t) PROVE ArtifactInv'
    BY <2>2, ExecuteArtifact
  <2>3. ASSUME NEW t \in Task, Cancel(t) PROVE ArtifactInv'
    <3>1. /\ \A u \in Task : status'[u] = "completed" => status[u] = "completed"
          /\ UNCHANGED <<pc, created, chunks>>
      BY <2>3 DEF Cancel, Publish, TypeOK, outVars
    <3> QED BY <3>1 DEF ArtifactInv, InOrder, Closed
  <2>4. ASSUME NEW t \in Task, Interrupt(t) PROVE ArtifactInv'
    <3>1. PICK from \in Suspended : Goto(t, from, "ended")
      BY <2>4 DEF Interrupt
    <3>2. from \notin Stopped /\ "ended" \notin Open \cup Closing
      BY DEF Suspended, Stopped, Open, Closing
    <3>3. UNCHANGED <<status, created, chunks>>
      BY <2>4 DEF Interrupt, outVars
    <3> QED BY <3>1, <3>2, <3>3, NoUpdate
  <2>5. CASE Crash
    <3>1. \A u \in Task : /\ pc'[u] = pc[u] \/ pc'[u] = "dead"
                          /\ status'[u] # "completed"
      BY <2>5 DEF Crash
    <3>2. UNCHANGED <<created, chunks>>
      BY <2>5 DEF Crash, outVars
    <3> QED BY <3>1, <3>2 DEF ArtifactInv, InOrder, Closed, Closing, Open
  <2>6. CASE UNCHANGED vars
    BY <2>6 DEF vars, ArtifactInv, InOrder, Closed, outVars
  <2> QED BY <2>1, <2>2, <2>3, <2>4, <2>5, <2>6 DEF Next
<1>3. ArtifactInv => ArtifactProtocol
  BY DEF ArtifactInv, InOrder, ArtifactProtocol, Closed
<1> QED BY <1>1, <1>2, <1>3, TypeCorrect, PTL DEF Spec

-----------------------------------------------------------------------------
(* What a running task has been told.                                      *)

\* A task that is still running was told nothing final but a cancellation.
LiveInv ==
  \A t \in Task :
    pc[t] \in InFlight
      => status[t] \in {"absent", "submitted", "working", "canceled"}

LEMMA LiveFacts ==
  /\ InFlight \cap {"new", "ended", "raised", "dead"} = {}
  /\ Suspended \subseteq InFlight
  /\ {"arrived", "submitted", "ready", "running", "deferring", "closing",
      "completing", "history_saved", "pause_saved", "turn_saved"}
       \subseteq InFlight
  BY DEF InFlight, Suspended, Uninterrupted

LEMMA GotoLive ==
  ASSUME TypeOK, LiveInv, NEW t \in Task, NEW from \in InFlight, NEW to,
         Goto(t, from, to),
         \/ UNCHANGED status
         \/ \E s \in {"submitted", "working"} : Publish(t, s)
         \/ to \notin InFlight /\ \E s \in Status : Publish(t, s)
  PROVE  LiveInv'
<1>1. pc[t] = from /\ pc'[t] = to /\ \A u \in Task \ {t} : pc'[u] = pc[u]
  BY DEF Goto, TypeOK
<1>2. \A u \in Task \ {t} : status'[u] = status[u]
  BY DEF Publish, TypeOK
<1>3. \/ to \notin InFlight
      \/ status'[t] \in {status[t], "submitted", "working"}
  BY DEF Publish, TypeOK
<1> QED BY <1>1, <1>2, <1>3 DEF LiveInv

LEMMA LiveAlways == Spec => []LiveInv
<1>1. Init => LiveInv
  BY LiveFacts DEF Init, LiveInv
<1>2. TypeOK /\ ReportInv /\ LiveInv /\ [Next]_vars => LiveInv'
  <2> SUFFICES ASSUME TypeOK, ReportInv, LiveInv, [Next]_vars PROVE LiveInv'
    OBVIOUS
  <2> USE LiveFacts, GotoLive, PlaceFacts
  <2>1. ASSUME NEW t \in Task, Receive(t) PROVE LiveInv'
    <3>1. PICK m \in Message : Arrive(t, m)
      BY <2>1, ArriveFact
    <3>2. pc[t] = "new" /\ UNCHANGED status
          /\ \A u \in Task \ {t} : pc'[u] = pc[u]
      BY <3>1 DEF Arrive, TypeOK
    <3> QED BY <3>2 DEF LiveInv, ReportInv
  <2>2. ASSUME NEW t \in Task, Execute(t) PROVE LiveInv'
    <3>1. CASE EnqueueTask(t) \/ StartWork(t)
      BY <3>1 DEF EnqueueTask, StartWork
    <3>2. CASE RequireAuth(t) \/ LoadHistoryFails(t)
      BY <3>2 DEF RequireAuth, LoadHistoryFails
    <3>3. CASE BeginRun(t) \/ DetectResumeFails(t)
      BY <3>3 DEF BeginRun, DetectResumeFails
    <3>4. CASE StreamChunk(t) \/ LastChunk(t)
      BY <3>4 DEF StreamChunk, LastChunk
    <3>5. ASSUME NEW k \in Call, ExecuteCall(t, k) \/ SurfaceCall(t, k)
          PROVE  LiveInv'
      BY <3>5 DEF ExecuteCall, SurfaceCall
    <3>6. ASSUME NEW D \in SUBSET FreshCalls, DeferCalls(t, D) PROVE LiveInv'
      BY <3>6 DEF DeferCalls
    <3>7. CASE RunFails(t)
      BY <3>7 DEF RunFails
    <3>8. CASE SaveFails(t)
      BY <3>8 DEF SaveFails
    <3>9. CASE SavePausedHistory(t) \/ SavePauseState(t)
      BY <3>9 DEF SavePausedHistory, SavePauseState
    <3>10. CASE SaveTurn(t) \/ StructuredArtifact(t)
      BY <3>10 DEF SaveTurn, StructuredArtifact
    <3>11. CASE RequireInput(t) \/ Complete(t)
      BY <3>11 DEF RequireInput, Complete
    <3> QED
      BY <2>2, <3>1, <3>2, <3>3, <3>4, <3>5, <3>6, <3>7, <3>8, <3>9, <3>10,
         <3>11
      DEF Execute
  <2>3. ASSUME NEW t \in Task, Cancel(t) PROVE LiveInv'
    BY <2>3 DEF Cancel, Publish, LiveInv, TypeOK
  <2>4. ASSUME NEW t \in Task, Interrupt(t) PROVE LiveInv'
    <3>1. PICK from \in Suspended : Goto(t, from, "ended")
      BY <2>4 DEF Interrupt
    <3> QED BY <2>4, <3>1 DEF Interrupt
  <2>5. CASE Crash
    <3>1. \A u \in Task : pc'[u] \notin InFlight
      BY <2>5 DEF Crash
    <3> QED BY <3>1 DEF LiveInv
  <2>6. CASE UNCHANGED vars
    BY <2>6 DEF vars, LiveInv
  <2> QED BY <2>1, <2>2, <2>3, <2>4, <2>5, <2>6 DEF Next
<1> QED BY <1>1, <1>2, TypeCorrect, CommitAlways, PTL DEF Spec

-----------------------------------------------------------------------------
(* The pieces of the mapping, as one step changes them.                    *)

LEMMA PhaseFacts ==
  /\ PhaseOf("new") = "waiting"
  /\ \A p \in {"arrived", "submitted", "ready"} : PhaseOf(p) = "bound"
  /\ \A p \in {"running", "deferring", "closing"} : PhaseOf(p) = "open"
  /\ \A p \in {"history_saved", "pause_saved", "turn_saved", "completing"} :
       PhaseOf(p) = "committed"
  /\ \A p \in {"ended", "raised", "dead"} : PhaseOf(p) = "closed"
  BY DEF PhaseOf

LEMMA ReportFacts ==
  /\ \A s \in {"completed", "input_required"} : ReportOf(s) = "success"
  /\ \A s \in {"failed", "auth_required"} : ReportOf(s) = "failure"
  /\ ReportOf("canceled") = "canceled"
  /\ \A s \in {"absent", "submitted", "working", "lost"} : ReportOf(s) = "none"
  BY DEF ReportOf

LEMMA GotoPhase ==
  ASSUME TypeOK, NEW t \in Task, NEW from, NEW to, Goto(t, from, to)
  PROVE  /\ phaseBar[t] = PhaseOf(from)
         /\ phaseBar' = [phaseBar EXCEPT ![t] = PhaseOf(to)]
         /\ PhaseOf(to) = PhaseOf(from) => UNCHANGED phaseBar
<1>1. pc[t] = from /\ pc' = [pc EXCEPT ![t] = to] /\ pc \in [Task -> Place]
  BY DEF Goto, TypeOK
<1>2. phaseBar[t] = PhaseOf(from)
  BY <1>1 DEF phaseBar
<1>3. phaseBar' = [phaseBar EXCEPT ![t] = PhaseOf(to)]
  BY <1>1 DEF phaseBar
<1>4. PhaseOf(to) = PhaseOf(from) => phaseBar' = phaseBar
  BY <1>1, <1>2, <1>3 DEF phaseBar
<1> QED BY <1>2, <1>3, <1>4

LEMMA PublishReport ==
  ASSUME TypeOK, LiveInv, NEW t \in Task, pc[t] \in InFlight,
         NEW s \in Status \ {"canceled"}, Publish(t, s)
  PROVE  /\ ReportOf(s) = "none" => UNCHANGED reportBar
         /\ reportBar' = IF reportBar[t] = "canceled" THEN reportBar
                         ELSE [reportBar EXCEPT ![t] = ReportOf(s)]
<1>1. /\ status \in [Task -> Status]
      /\ status[t] \in {"absent", "submitted", "working", "canceled"}
  BY DEF TypeOK, LiveInv
<1>2. CASE status[t] = "canceled"
  <2>1. status' = status /\ reportBar[t] = "canceled"
    BY <1>1, <1>2, ReportFacts DEF Publish, Terminal, reportBar
  <2> QED BY <2>1 DEF reportBar
<1>3. CASE status[t] # "canceled"
  <2>1. status' = [status EXCEPT ![t] = s] /\ reportBar[t] = "none"
    BY <1>1, <1>3, ReportFacts DEF Publish, Terminal, reportBar
  <2>2. reportBar' = [reportBar EXCEPT ![t] = ReportOf(s)]
    BY <1>1, <2>1 DEF reportBar
  <2>3. ReportOf(s) = "none" => reportBar' = reportBar
    BY <1>1, <2>1, <2>2 DEF reportBar
  <2> QED BY <2>1, <2>2, <2>3
<1> QED BY <1>2, <1>3

LEMMA SaveTurns ==
  ASSUME TypeOK, NEW t \in Task, NEW calls, SaveHistory(t, calls)
  PROVE  turnsBar' = IF contextBar[t] = NoContext THEN turnsBar
                     ELSE [turnsBar EXCEPT ![contextBar[t]] =
                             baseBar[t] \cup {t}]
<1>1. contextBar[t] = ContextOf(t) /\ baseBar[t] = loaded[t].turns
  BY DEF contextBar, baseBar
<1>2. CASE ContextOf(t) = NoContext
  BY <1>1, <1>2 DEF SaveHistory, turnsBar
<1>3. CASE ContextOf(t) # NoContext
  <2> DEFINE h == [by |-> t, turns |-> loaded[t].turns \cup {t},
                   pending |-> calls]
  <2>1. /\ history' = [history EXCEPT ![ContextOf(t)] = h]
        /\ DOMAIN history = Context
    BY <1>3 DEF SaveHistory, TypeOK
  <2>2. \A c \in Context :
          history'[c] = IF c = ContextOf(t) THEN h ELSE history[c]
    BY <2>1
  <2>3. h.turns = loaded[t].turns \cup {t}
    OBVIOUS
  <2> HIDE DEF h
  <2>4. \A c \in Context : history'[c].turns =
          IF c = ContextOf(t) THEN loaded[t].turns \cup {t} ELSE history[c].turns
    BY <2>2, <2>3
  <2> QED BY <1>1, <1>3, <2>4 DEF turnsBar
<1> QED BY <1>2, <1>3

LEMMA Frame ==
  /\ UNCHANGED <<msg, loaded, history>>
       => UNCHANGED <<turnsBar, contextBar, baseBar>>
  /\ UNCHANGED status => UNCHANGED reportBar
  BY DEF turnsBar, contextBar, baseBar, reportBar, ContextOf

-----------------------------------------------------------------------------
(* Every step is a step of the abstract conversations, or none.            *)

Mapped == [Turns!Next]_(Turns!vars)

\* A statement within one phase that reports nothing final.
LEMMA StutterStep ==
  ASSUME TypeOK, LiveInv, NEW t \in Task, NEW from \in InFlight, NEW to,
         Goto(t, from, to), PhaseOf(to) = PhaseOf(from),
         UNCHANGED <<msg, loaded, history>>,
         UNCHANGED status \/ \E s \in {"submitted", "working"} : Publish(t, s)
  PROVE  Mapped
<1>1. pc[t] = from
  BY DEF Goto
<1>2. UNCHANGED reportBar
  <2>1. ASSUME NEW s \in {"submitted", "working"}, Publish(t, s)
        PROVE  UNCHANGED reportBar
    <3>1. s \in Status \ {"canceled"} /\ ReportOf(s) = "none"
      BY ReportFacts, PlaceFacts
    <3> QED BY <1>1, <2>1, <3>1, PublishReport
  <2> QED BY <2>1, Frame
<1>3. UNCHANGED Turns!vars
  BY <1>2, GotoPhase, Frame DEF Turns!vars
<1> QED BY <1>3 DEF Mapped

\* A task that stops without a word.
LEMMA VanishStep ==
  ASSUME TypeOK, NEW t \in Task, NEW from, NEW to, Goto(t, from, to),
         PhaseOf(from) \in {"bound", "open", "committed"},
         PhaseOf(to) = "closed",
         UNCHANGED <<msg, loaded, history, status>>
  PROVE  Mapped
<1>1. Turns!Step(t, PhaseOf(from), "closed")
  BY GotoPhase DEF Turns!Step
<1>2. Turns!Vanish(t)
  BY <1>1, Frame DEF Turns!Vanish
<1> QED BY <1>2 DEF Mapped, Turns!Next

LEMMA FailStep ==
  ASSUME TypeOK, LiveInv, NEW t \in Task, NEW from \in InFlight, NEW to,
         Goto(t, from, to),
         PhaseOf(from) \in {"bound", "open"}, PhaseOf(to) = "closed",
         NEW s \in {"failed", "auth_required"}, Publish(t, s),
         UNCHANGED <<msg, loaded, history>>
  PROVE  Mapped
<1>1. Turns!Step(t, PhaseOf(from), "closed")
  BY GotoPhase DEF Turns!Step
<1>2. Turns!Tell(t, "failure")
  <2>1. pc[t] = from /\ s \in Status \ {"canceled"} /\ ReportOf(s) = "failure"
    BY ReportFacts, PlaceFacts DEF Goto
  <2> QED BY <2>1, PublishReport DEF Turns!Tell
<1>3. Turns!Fail(t)
  BY <1>1, <1>2, Frame DEF Turns!Fail
<1> QED BY <1>3 DEF Mapped, Turns!Next

LEMMA SucceedStep ==
  ASSUME TypeOK, LiveInv, NEW t \in Task, NEW from \in InFlight, NEW to,
         Goto(t, from, to), PhaseOf(from) = "committed", PhaseOf(to) = "closed",
         NEW s \in {"completed", "input_required"}, Publish(t, s),
         UNCHANGED <<msg, loaded, history>>
  PROVE  Mapped
<1>1. Turns!Step(t, "committed", "closed")
  BY GotoPhase DEF Turns!Step
<1>2. Turns!Tell(t, "success")
  <2>1. pc[t] = from /\ s \in Status \ {"canceled"} /\ ReportOf(s) = "success"
    BY ReportFacts, PlaceFacts DEF Goto
  <2> QED BY <2>1, PublishReport DEF Turns!Tell
<1>3. Turns!Succeed(t)
  BY <1>1, <1>2, Frame DEF Turns!Succeed
<1> QED BY <1>3 DEF Mapped, Turns!Next

LEMMA CommitStep ==
  ASSUME TypeOK, NEW t \in Task, NEW from, NEW to, Goto(t, from, to),
         PhaseOf(from) = "open", PhaseOf(to) = "committed",
         NEW calls, SaveHistory(t, calls), UNCHANGED <<msg, loaded, status>>
  PROVE  Mapped
<1>1. Turns!Step(t, "open", "committed")
  BY GotoPhase DEF Turns!Step
<1>2. UNCHANGED <<contextBar, baseBar, reportBar>>
  BY DEF contextBar, baseBar, reportBar, ContextOf
<1>3. Turns!Commit(t)
  BY <1>1, <1>2, SaveTurns DEF Turns!Commit
<1> QED BY <1>3 DEF Mapped, Turns!Next

LEMMA OpenStep ==
  ASSUME TypeOK, NEW t \in Task, BeginRun(t)
  PROVE  Mapped
<1>1. Turns!Step(t, "bound", "open")
  BY GotoPhase, PhaseFacts DEF BeginRun, Turns!Step
<1>2. UNCHANGED <<turnsBar, contextBar, reportBar>>
  BY DEF BeginRun, turnsBar, contextBar, reportBar, ContextOf, store
<1>3. HistoryOf(t).turns = IF contextBar[t] = NoContext THEN {}
                           ELSE turnsBar[contextBar[t]]
  BY ContextType DEF HistoryOf, EmptyHistory, contextBar, turnsBar
<1>4. baseBar' = [baseBar EXCEPT ![t] = HistoryOf(t).turns]
  <2>1. \A u \in Task :
          loaded'[u] = IF u = t THEN HistoryOf(t) ELSE loaded[u]
    BY DEF BeginRun, TypeOK
  <2> QED BY <2>1 DEF baseBar
<1>5. Turns!Open(t)
  BY <1>1, <1>2, <1>3, <1>4 DEF Turns!Open
<1> QED BY <1>5 DEF Mapped, Turns!Next

LEMMA BindStep ==
  ASSUME TypeOK, NEW t \in Task, Receive(t)
  PROVE  Mapped
<1>1. PICK m \in Message : Arrive(t, m)
  BY ArriveFact
<1>2. /\ pc[t] = "new" /\ pc' = [pc EXCEPT ![t] = "arrived"]
      /\ msg' = [msg EXCEPT ![t] = m]
      /\ UNCHANGED <<status, loaded, history>>
  BY <1>1 DEF Arrive, store
<1>3. phaseBar[t] = "waiting" /\ phaseBar' = [phaseBar EXCEPT ![t] = "bound"]
  <2>1. \A u \in Task : pc'[u] = IF u = t THEN "arrived" ELSE pc[u]
    BY <1>2 DEF TypeOK
  <2>2. phaseBar[t] = "waiting"
    BY <1>2, PhaseFacts DEF phaseBar
  <2>3. phaseBar' = [u \in Task |-> IF u = t THEN "bound" ELSE PhaseOf(pc[u])]
    <3>1. \A u \in Task :
            PhaseOf(pc'[u]) = IF u = t THEN "bound" ELSE PhaseOf(pc[u])
      BY <2>1, PhaseFacts
    <3> QED BY <3>1 DEF phaseBar
  <2> QED BY <2>2, <2>3 DEF phaseBar
<1>4. contextBar' = [contextBar EXCEPT ![t] = m.context]
  <2>1. \A u \in Task : msg'[u] = IF u = t THEN m ELSE msg[u]
    BY <1>2 DEF TypeOK
  <2> QED BY <2>1 DEF contextBar, ContextOf
<1>5. UNCHANGED <<turnsBar, baseBar, reportBar>>
  BY <1>2 DEF turnsBar, baseBar, reportBar
<1>6. m.context \in Context \cup {NoContext} /\ Turns!Bind(t, m.context)
  BY <1>3, <1>4, <1>5 DEF Message, Turns!Bind, Turns!Step
<1> QED BY <1>6 DEF Mapped, Turns!Next

LEMMA RevokeStep ==
  ASSUME TypeOK, NEW t \in Task, Cancel(t)
  PROVE  Mapped
<1>1. \A u \in Task : status'[u] = IF u = t THEN "canceled" ELSE status[u]
  BY DEF Cancel, Publish, Terminal, TypeOK
<1>2. reportBar' = [reportBar EXCEPT ![t] = "canceled"]
  BY <1>1, ReportFacts DEF reportBar
<1>3. UNCHANGED <<turnsBar, contextBar, phaseBar, baseBar>>
  BY DEF Cancel, turnsBar, contextBar, phaseBar, baseBar, ContextOf, runVars,
     store
<1>4. Turns!Revoke(t)
  BY <1>2, <1>3 DEF Turns!Revoke
<1> QED BY <1>4 DEF Mapped, Turns!Next

LEMMA ForgetStep ==
  ASSUME TypeOK, Crash
  PROVE  Mapped
<1>1. \A u \in Task :
        PhaseOf(pc'[u]) = IF phaseBar[u] = "waiting" THEN "waiting" ELSE "closed"
  <2> SUFFICES ASSUME NEW u \in Task
               PROVE  PhaseOf(pc'[u]) = IF phaseBar[u] = "waiting"
                                          THEN "waiting" ELSE "closed"
    OBVIOUS
  <2>1. phaseBar[u] = PhaseOf(pc[u]) /\ pc[u] \in Place
    BY DEF phaseBar, TypeOK
  <2>2. CASE pc[u] \in InFlight
    <3>1. pc'[u] = "dead" /\ phaseBar[u] # "waiting"
      BY <2>1, <2>2, PhaseFacts
      DEF Crash, InFlight, Suspended, Uninterrupted
    <3> QED BY <3>1, PhaseFacts
  <2>3. CASE pc[u] \in {"new", "ended", "raised", "dead"}
    <3>1. pc'[u] = pc[u]
      BY <2>3, LiveFacts DEF Crash
    <3> QED BY <2>1, <2>3, <3>1, PhaseFacts
  <2> QED BY <2>1, <2>2, <2>3 DEF Place
<1>2. phaseBar' = [t \in Task |-> IF phaseBar[t] = "waiting" THEN "waiting"
                                                             ELSE "closed"]
  BY <1>1 DEF phaseBar
<1>3. reportBar' = [t \in Task |-> "none"]
  BY ReportFacts DEF Crash, reportBar
<1>4. UNCHANGED <<turnsBar, contextBar, baseBar>>
  BY Frame DEF Crash, runVars, store
<1>5. Turns!Forget
  BY <1>2, <1>3, <1>4 DEF Turns!Forget
<1> QED BY <1>5 DEF Mapped, Turns!Next

\* One step per statement of execute().
LEMMA ExecuteMapped ==
  ASSUME TypeOK, LiveInv, NEW t \in Task, Execute(t)
  PROVE  Mapped
<1> USE PhaseFacts, LiveFacts
<1>1. CASE EnqueueTask(t)
  BY <1>1, StutterStep DEF EnqueueTask, runVars, store
<1>2. CASE StartWork(t)
  BY <1>2, StutterStep DEF StartWork, runVars, store
<1>3. CASE RequireAuth(t)
  BY <1>3, FailStep DEF RequireAuth, runVars, store
<1>4. CASE BeginRun(t)
  BY <1>4, OpenStep
<1>5. CASE DetectResumeFails(t)
  BY <1>5, VanishStep DEF DetectResumeFails, runVars, store
<1>6. CASE LoadHistoryFails(t)
  BY <1>6, FailStep DEF LoadHistoryFails, runVars, store
<1>7. CASE StreamChunk(t)
  BY <1>7, StutterStep DEF StreamChunk, runVars, store
<1>8. ASSUME NEW k \in Call, ExecuteCall(t, k) PROVE Mapped
  BY <1>8, StutterStep DEF ExecuteCall, runVars, store
<1>9. ASSUME NEW k \in Call, SurfaceCall(t, k) PROVE Mapped
  BY <1>9, StutterStep DEF SurfaceCall, runVars, store
<1>10. ASSUME NEW D \in SUBSET FreshCalls, DeferCalls(t, D) PROVE Mapped
  BY <1>10, StutterStep DEF DeferCalls, store
<1>11. CASE RunFails(t)
  BY <1>11, FailStep DEF RunFails, runVars, store
<1>12. CASE SaveFails(t)
  BY <1>12, VanishStep DEF SaveFails, runVars, store
<1>13. CASE SavePausedHistory(t)
  BY <1>13, CommitStep DEF SavePausedHistory, runVars
<1>14. CASE SavePauseState(t)
  BY <1>14, StutterStep DEF SavePauseState, runVars
<1>15. CASE RequireInput(t)
  BY <1>15, SucceedStep DEF RequireInput, runVars, store
<1>16. CASE LastChunk(t)
  BY <1>16, StutterStep DEF LastChunk, runVars, store
<1>17. CASE SaveTurn(t)
  BY <1>17, CommitStep DEF SaveTurn, runVars
<1>18. CASE StructuredArtifact(t)
  BY <1>18, StutterStep DEF StructuredArtifact, runVars, store
<1>19. CASE Complete(t)
  BY <1>19, SucceedStep DEF Complete, runVars, store
<1> QED
  BY <1>1, <1>2, <1>3, <1>4, <1>5, <1>6, <1>7, <1>8, <1>9, <1>10, <1>11,
     <1>12, <1>13, <1>14, <1>15, <1>16, <1>17, <1>18, <1>19
  DEF Execute

\* The executor, with its awaits, saves, crashes and failing writes, does to
\* conversations and reports only what the abstract conversations allow.
THEOREM HubImplementsTurns == Spec => ImplementsTurns
<1>1. Init => Turns!Init
  <2> SUFFICES ASSUME Init PROVE Turns!Init
    OBVIOUS
  <2>1. turnsBar = [c \in Context |-> {}]
    BY DEF Init, turnsBar, EmptyHistory
  <2>2. contextBar = [t \in Task |-> NoContext]
    BY DEF Init, contextBar, ContextOf, NoMessage
  <2>3. phaseBar = [t \in Task |-> "waiting"]
    BY PhaseFacts DEF Init, phaseBar
  <2>4. baseBar = [t \in Task |-> {}]
    BY DEF Init, baseBar, EmptyHistory
  <2>5. reportBar = [t \in Task |-> "none"]
    BY ReportFacts DEF Init, reportBar
  <2> QED BY <2>1, <2>2, <2>3, <2>4, <2>5 DEF Turns!Init
<1>2. TypeOK /\ LiveInv /\ [Next]_vars => [Turns!Next]_(Turns!vars)
  <2> SUFFICES ASSUME TypeOK, LiveInv, [Next]_vars PROVE Mapped
    BY DEF Mapped
  <2>1. ASSUME NEW t \in Task, Receive(t) PROVE Mapped
    BY <2>1, BindStep
  <2>2. ASSUME NEW t \in Task, Execute(t) PROVE Mapped
    BY <2>2, ExecuteMapped
  <2>3. ASSUME NEW t \in Task, Cancel(t) PROVE Mapped
    BY <2>3, RevokeStep
  <2>4. ASSUME NEW t \in Task, Interrupt(t) PROVE Mapped
    <3>1. PICK from \in Suspended : Goto(t, from, "ended")
      BY <2>4 DEF Interrupt
    <3>2. /\ PhaseOf(from) \in {"bound", "open", "committed"}
          /\ PhaseOf("ended") = "closed"
      BY PhaseFacts DEF Suspended
    <3> QED BY <2>4, <3>1, <3>2, VanishStep DEF Interrupt, runVars, store
  <2>5. CASE Crash
    BY <2>5, ForgetStep
  <2>6. CASE UNCHANGED vars
    <3>1. UNCHANGED <<pc, status, msg, loaded, history>>
      BY <2>6 DEF vars, runVars, store
    <3>2. UNCHANGED Turns!vars
      BY <3>1, Frame DEF Turns!vars, phaseBar
    <3> QED BY <3>2 DEF Mapped
  <2> QED BY <2>1, <2>2, <2>3, <2>4, <2>5, <2>6 DEF Next
<1> QED
  BY <1>1, <1>2, TypeCorrect, LiveAlways, PTL
  DEF Spec, ImplementsTurns, Turns!Spec

=============================================================================
