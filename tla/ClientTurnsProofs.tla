------------------------- MODULE ClientTurnsProofs -------------------------
(***************************************************************************)
(* What ClientTurns says of a command, its stream and what it shows,       *)
(* proved for every bound and any calls, whether streams break or not.     *)
(***************************************************************************)
EXTENDS ClientTurns, SequenceProofs, TLAPS

Id      == Nat \cup Call
Kind    == Streamed \cup {"deferred", "closing", "data", "nothing", "no_response",
                            "auth_required", "input_required"}
Shown   == [kind : Kind, id : Id]
Line    == [kind : Kind, ids : Seq(Id)]
Context == 0 .. SavedContext
Hub     == [context : Context, state : HubState, log : Seq(Part)]
Copy    == [context : Context, state : HubState, notes : Seq(Noted)]
View    == [screen : Seq(Line), answer : Seq(Shown), buffer : Seq(Id)]
Result  == [outcome : Outcome, output : Shown, calls : Seq(Id), whole : BOOLEAN]
Update  == [type : {"task"}] \cup [type : {"status"}, state : HubState]
             \cup [type : {"artifact"}, part : Part]

\* The types that TurnsTypeOK leaves out.
ShapeInv ==
  /\ sends \in Seq(1 .. SavedContext)
  /\ hub \in Hub
  /\ wire \in Seq(Update)
  /\ task \in Copy
  /\ artifacts \in Seq(Part)
  /\ view \in View
  /\ result \in Result

TypeInv == TurnsTypeOK /\ ShapeInv

\* The hub's tasks are in the context the command holds, if it holds one, and
\* it holds one from the first task it hears of.
ContextInv ==
  /\ place = "start" => sends = <<>> /\ ctx = 0
  /\ mode = "do" => place # "idle"
  /\ place \in {"streaming", "deciding"} => sends # <<>>
  /\ place = "streaming" =>
       /\ hub.context = sends[Len(sends)]
       /\ ctx # 0 => hub.context = ctx
       /\ task.context \in {0, hub.context}
  /\ IF mode = "resume"
       THEN /\ \A i \in DOMAIN sends : sends[i] = SavedContext
            /\ place \notin {"start", "ended"} => ctx = SavedContext
       ELSE /\ heard = {} <=> ctx = 0
            /\ \A i \in heard : sends[i] = ctx
  /\ session # 0 => mode = "talk" /\ place = "ended" /\ session = ctx

\* The part of the task that is still on the wire.
Ahead  == Len(hub.log) - Len(artifacts)
Ending == IF hub.state \in StopsReading THEN 1 ELSE 0

\* With k of the first two updates unread, the wire holds them, the parts
\* not collected yet and the terminal status.
WireHolds(k) ==
  /\ Len(wire) = k + Ahead + Ending
  /\ k = 2 => wire[1] = TaskUpdate
  /\ k > 0 => wire[k] = StatusUpdate("working")
  /\ k > 0 => artifacts = <<>>
  /\ \A i \in 1 .. Ahead : wire[k + i] = ArtifactUpdate(hub.log[Len(artifacts) + i])
  /\ Ending = 1 => wire[Len(wire)] = StatusUpdate(hub.state)
  /\ IF k = 2 THEN task = NoTask
     ELSE /\ task.context # 0
          /\ task.notes = <<>>
          /\ task.state = IF k = 1 THEN "submitted" ELSE "working"

WireInv ==
  /\ Len(artifacts) <= Len(hub.log)
  /\ \A i \in 1 .. Len(artifacts) : artifacts[i] = hub.log[i]
  /\ place = "streaming" =>
       /\ hub.context # 0
       /\ hub.state \in {"working"} \cup StopsReading
       /\ result = NoResult
       /\ \E k \in 0 .. 2 : WireHolds(k)
  /\ result.whole => Len(artifacts) = Len(hub.log)

\* A run that defers, or has ended, has a log to show for it.
LogInv ==
  LET texts == OfKind(hub.log, {"text"})
      data  == OfKind(hub.log, {"data"}) IN
  /\ hub.state = "input_required" => OfKind(hub.log, {"deferred"}) # <<>>
  /\ hub.state # "completed" => data = <<>>
  /\ Len(data) <= 1
  /\ texts = <<>> => OfKind(hub.log, {"text", "data"}) = data

\* What is on the screen, and what is held back, is what was collected.
Kinds   == {"tool_call", "tool_result"} \cup IF ShowThinking THEN {"thinking"} ELSE {}
LinesOf(v) == [i \in DOMAIN v.screen |-> v.screen[i].ids]
HeldOf(v)  == IF ShowThinking THEN v.buffer ELSE <<>>
Total(v)   == FlattenSeq(LinesOf(v)) \o HeldOf(v)
ViewInv ==
  /\ Total(view) = Ids(OfKind(artifacts, Kinds))
  /\ place = "streaming" => view.answer = OfKind(artifacts, {"text"})
  /\ result.whole => view.buffer = <<>>

\* The calls of a result are those of the log, and no result says more than
\* the stream did.
ResultInv ==
  /\ OutcomeIsTheHubs
  /\ AnswerIsWhole
  /\ place = "deciding" => result.outcome = "input_required"

TurnsInv ==
  /\ TurnsTypeOK /\ ShapeInv /\ ContextInv /\ WireInv /\ LogInv /\ ViewInv
  /\ ResultInv /\ ExitTellsTheOutcome

-----------------------------------------------------------------------------
(* What the operators return.                                              *)

LEMMA PartShown ==
  ASSUME NEW p \in Part
  PROVE  p \in Shown /\ p.id \in Id
<1>1. p.id \in Id /\ p.kind \in Kind /\ p = [kind |-> p.kind, id |-> p.id]
  BY DEF Part, Id, Kind
<1> QED BY <1>1 DEF Shown

LEMMA UpdateTyped ==
  /\ TaskUpdate \in Update
  /\ \A s \in HubState : StatusUpdate(s) \in Update
  /\ \A p \in Part : ArtifactUpdate(p) \in Update
  BY DEF Update, TaskUpdate, StatusUpdate, ArtifactUpdate

LEMMA UpdateRead ==
  ASSUME NEW u \in Update
  PROVE  /\ u.type = "status" => u.state \in HubState /\ u = StatusUpdate(u.state)
         /\ u.type = "artifact" => u.part \in Part /\ u = ArtifactUpdate(u.part)
         /\ u.type = "task" => u = TaskUpdate
  BY DEF Update, TaskUpdate, StatusUpdate, ArtifactUpdate

LEMMA IdsTyped ==
  ASSUME NEW parts \in Seq(Part)
  PROVE  /\ Ids(parts) \in Seq(Id)
         /\ Len(Ids(parts)) = Len(parts)
         /\ \A i \in 1 .. Len(parts) : Ids(parts)[i] = parts[i].id
<1>1. \A i \in 1 .. Len(parts) : parts[i] \in Part /\ parts[i].id \in Id
  BY PartShown
<1>2. DOMAIN parts = 1 .. Len(parts) /\ Len(parts) \in Nat
  OBVIOUS
<1> QED BY <1>1, <1>2 DEF Ids

LEMMA IdsAppend ==
  ASSUME NEW parts \in Seq(Part), NEW p \in Part
  PROVE  Ids(Append(parts, p)) = Append(Ids(parts), p.id)
<1> DEFINE longer == Append(parts, p)
           n == Len(parts)
<1>1. /\ longer \in Seq(Part) /\ n \in Nat /\ Len(longer) = n + 1 /\ longer[n + 1] = p
      /\ \A i \in 1 .. n : longer[i] = parts[i]
  OBVIOUS
<1>2. Ids(parts) \in Seq(Id) /\ Len(Ids(parts)) = n /\ \A i \in 1 .. n : Ids(parts)[i] = parts[i].id
  BY IdsTyped
<1>3. p.id \in Id
  BY DEF Part, Id
<1> DEFINE right == Append(Ids(parts), p.id)
<1>4. /\ right \in Seq(Id) /\ Len(right) = n + 1 /\ right[n + 1] = p.id
      /\ \A i \in 1 .. n : right[i] = parts[i].id
  BY <1>1, <1>2, <1>3
<1> HIDE DEF longer, right, n
<1>5. /\ Ids(longer) \in Seq(Id) /\ Len(Ids(longer)) = n + 1
      /\ \A i \in 1 .. n + 1 : Ids(longer)[i] = longer[i].id
  BY <1>1, IdsTyped
<1>6. \A i \in 1 .. n + 1 : Ids(longer)[i] = right[i]
  BY <1>1, <1>4, <1>5
<1>7. Ids(longer) = right
  BY <1>4, <1>5, <1>6
<1> QED BY <1>7 DEF longer, right

LEMMA IdsEmpty == Ids(<<>>) = <<>>
  BY DEF Ids

LEMMA ReverseTyped ==
  ASSUME NEW P, NEW s \in Seq(P)
  PROVE  /\ Reverse(s) \in Seq(P)
         /\ Len(Reverse(s)) = Len(s)
         /\ ToSet(Reverse(s)) = ToSet(s)
<1> DEFINE n == Len(s)
<1>1. n \in Nat /\ DOMAIN s = 1 .. n /\ \A i \in 1 .. n : s[i] \in P
  OBVIOUS
<1>2. Reverse(s) = [i \in 1 .. n |-> s[(n - i) + 1]]
  BY DEF Reverse
<1> HIDE DEF n
<1>3. \A i \in 1 .. n : (n - i) + 1 \in 1 .. n /\ (n - ((n - i) + 1)) + 1 = i
  BY <1>1
<1>4. Reverse(s) \in Seq(P) /\ Len(Reverse(s)) = n /\ DOMAIN Reverse(s) = 1 .. n
  BY <1>1, <1>2, <1>3
<1>5. ToSet(Reverse(s)) = ToSet(s)
  <2>1. ASSUME NEW i \in 1 .. n PROVE Reverse(s)[i] \in ToSet(s)
    BY <1>1, <1>2, <1>3 DEF ToSet
  <2>2. ASSUME NEW i \in 1 .. n PROVE s[i] \in ToSet(Reverse(s))
    <3> DEFINE j == (n - i) + 1
    <3>1. j \in 1 .. n /\ Reverse(s)[j] = s[i]
      BY <1>2, <1>3
    <3> HIDE DEF j
    <3> QED BY <1>4, <3>1 DEF ToSet
  <2> QED BY <1>1, <1>4, <2>1, <2>2 DEF ToSet
<1> QED BY <1>4, <1>5 DEF n

LEMMA CallsTyped ==
  ASSUME NEW parts \in Seq(Part)
  PROVE  /\ Ids(OfKind(parts, {"deferred"})) \in Seq(Id)
         /\ DeferredCalls(parts) \in Seq(Id)
         /\ Len(DeferredCalls(parts)) = Len(OfKind(parts, {"deferred"}))
         /\ Len(DeferredCalls(parts)) = Len(Ids(OfKind(parts, {"deferred"})))
         /\ ToSet(DeferredCalls(parts)) = ToSet(Ids(OfKind(parts, {"deferred"})))
<1>1. OfKind(parts, {"deferred"}) \in Seq(Part)
  BY OfKindTyped
<1>2. /\ Ids(OfKind(parts, {"deferred"})) \in Seq(Id)
      /\ Len(Ids(OfKind(parts, {"deferred"}))) = Len(OfKind(parts, {"deferred"}))
  BY <1>1, IdsTyped
<1> QED BY <1>2, ReverseTyped DEF DeferredCalls

LEMMA OutputTyped ==
  ASSUME NEW parts \in Seq(Part), NEW t \in Copy
  PROVE  Output(t, parts) \in Shown
<1> DEFINE said == OfKind(parts, {"text", "data"})
<1>1. said \in Seq(Part)
  BY OfKindTyped
<1>2. said = <<>> \/ Last(said) \in Shown
  <2> HIDE DEF said
  <2>1. said = <<>> \/ said[Len(said)] \in Part
    BY <1>1
  <2> QED BY <2>1, PartShown DEF Last
<1>3. t.notes = <<>> \/ [kind |-> Last(t.notes), id |-> 0] \in Shown
  <2>1. t.notes \in Seq(Noted)
    BY DEF Copy
  <2>2. t.notes = <<>> \/ Last(t.notes) \in Kind
    BY <2>1 DEF Noted, Last, Kind
  <2>3. 0 \in Id
    BY DEF Id
  <2> QED BY <2>2, <2>3 DEF Shown
<1>4. Nothing \in Shown
  BY DEF Nothing, Shown, Id, Kind
<1> HIDE DEF said
<1>5. Output(t, parts) = IF said # <<>> THEN Last(said)
                         ELSE IF t.notes # <<>> THEN [kind |-> Last(t.notes), id |-> 0]
                         ELSE Nothing
  BY DEF Output, said
<1> QED BY <1>2, <1>3, <1>4, <1>5

LEMMA FlushedTyped ==
  ASSUME NEW v \in View
  PROVE  /\ Flushed(v) \in View
         /\ Flushed(v).answer = v.answer
         /\ Flushed(v).buffer = <<>>
         /\ Flushed(v).screen =
              IF v.buffer # <<>> /\ ShowThinking
                THEN Append(v.screen, [kind |-> "thinking", ids |-> v.buffer]) ELSE v.screen
<1> DEFINE screen == IF v.buffer # <<>> /\ ShowThinking
                       THEN Append(v.screen, [kind |-> "thinking", ids |-> v.buffer])
                       ELSE v.screen
           w == [v EXCEPT !.buffer = <<>>, !.screen = screen]
<1>1. Flushed(v) = w
  BY DEF Flushed
<1>2. v.screen \in Seq(Line) /\ v.answer \in Seq(Shown) /\ v.buffer \in Seq(Id)
  BY DEF View
<1>3. [kind |-> "thinking", ids |-> v.buffer] \in Line
  BY <1>2 DEF Line, Kind, Streamed
<1>4. screen \in Seq(Line)
  BY <1>2, <1>3
<1>5. <<>> \in Seq(Id)
  OBVIOUS
<1>6. screen = IF v.buffer # <<>> /\ ShowThinking
                 THEN Append(v.screen, [kind |-> "thinking", ids |-> v.buffer]) ELSE v.screen
  OBVIOUS
<1> HIDE DEF screen
<1>7. w \in View /\ w.answer = v.answer /\ w.buffer = <<>> /\ w.screen = screen
  BY <1>4, <1>5 DEF View
<1> QED BY <1>1, <1>6, <1>7

LEMMA PrintedTyped ==
  ASSUME NEW v \in View, NEW p \in Part
  PROVE  /\ Printed(v, p) \in View
         /\ Printed(v, p).answer = v.answer
         /\ Printed(v, p).buffer = v.buffer
         /\ Printed(v, p).screen = Append(v.screen, [kind |-> p.kind, ids |-> <<p.id>>])
<1> DEFINE screen == Append(v.screen, [kind |-> p.kind, ids |-> <<p.id>>])
           w == [v EXCEPT !.screen = screen]
<1>1. Printed(v, p) = w
  BY DEF Printed
<1>2. v.screen \in Seq(Line)
  BY DEF View
<1>3. [kind |-> p.kind, ids |-> <<p.id>>] \in Line
  <2>1. p.kind \in Kind /\ p.id \in Id
    BY PartShown DEF Shown
  <2>2. <<p.id>> \in Seq(Id)
    BY <2>1
  <2> QED BY <2>1, <2>2 DEF Line
<1>4. screen \in Seq(Line)
  BY <1>2, <1>3
<1>5. screen = Append(v.screen, [kind |-> p.kind, ids |-> <<p.id>>])
  OBVIOUS
<1> HIDE DEF screen
<1>6. w \in View /\ w.answer = v.answer /\ w.buffer = v.buffer /\ w.screen = screen
  BY <1>4 DEF View
<1> QED BY <1>1, <1>5, <1>6

LEMMA PartKind ==
  ASSUME NEW p \in Part
  PROVE  p.kind \in {"text", "thinking", "tool_call", "tool_result", "blank_result",
                     "deferred", "closing", "data"}
  BY DEF Part, Streamed

LEMMA RenderedTyped ==
  ASSUME NEW v \in View, NEW p \in Part
  PROVE  Rendered(v, p) \in View
<1> DEFINE w == Flushed(v)
<1>1. w \in View
  BY FlushedTyped
<1> HIDE DEF w
<1>2. CASE p.kind = "text"
  <2>1. Rendered(v, p) = [w EXCEPT !.answer = Append(@, p)]
    BY <1>2 DEF Rendered, w
  <2>2. p \in Shown
    BY PartShown
  <2>3. w.answer \in Seq(Shown)
    BY <1>1 DEF View
  <2>4. Append(w.answer, p) \in Seq(Shown)
    BY <2>2, <2>3
  <2> QED BY <1>1, <2>1, <2>4 DEF View
<1>3. CASE p.kind = "thinking"
  <2>1. Rendered(v, p) = [v EXCEPT !.buffer = Append(@, p.id)]
    BY <1>3 DEF Rendered
  <2>2. p.id \in Id
    BY PartShown
  <2>3. v.buffer \in Seq(Id)
    BY DEF View
  <2>4. Append(v.buffer, p.id) \in Seq(Id)
    BY <2>2, <2>3
  <2> QED BY <2>1, <2>4 DEF View
<1>4. CASE p.kind \in {"tool_call", "tool_result"}
  <2>1. Rendered(v, p) = Printed(w, p)
    BY <1>4 DEF Rendered, w
  <2> QED BY <1>1, <2>1, PrintedTyped
<1>5. CASE p.kind \in {"blank_result", "data"}
  <2>1. Rendered(v, p) = w
    BY <1>5 DEF Rendered, w
  <2> QED BY <1>1, <2>1
<1>6. CASE p.kind \in {"deferred", "closing"}
  <2>1. Rendered(v, p) = v
    BY <1>6 DEF Rendered
  <2> QED BY <2>1
<1> QED BY <1>2, <1>3, <1>4, <1>5, <1>6, PartKind

LEMMA ClosedTyped ==
  ASSUME NEW v \in View, NEW output \in Shown, NEW calls
  PROVE  /\ Closed(v, output, calls) \in View
         /\ Closed(v, output, calls).buffer = <<>>
         /\ Closed(v, output, calls).screen = Flushed(v).screen
         /\ Closed(v, output, calls).answer =
              IF v.answer = <<>> /\ output # Nothing /\ calls = <<>>
                THEN <<output>> ELSE v.answer
<1> DEFINE w == Flushed(v)
<1>1. w \in View /\ w.answer = v.answer /\ w.buffer = <<>>
  BY FlushedTyped
<1>2. Closed(v, output, calls) = IF w.answer = <<>> /\ output # Nothing /\ calls = <<>>
                                   THEN [w EXCEPT !.answer = <<output>>] ELSE w
  BY DEF Closed
<1>3. w = Flushed(v)
  OBVIOUS
<1>4. <<output>> \in Seq(Shown)
  OBVIOUS
<1> HIDE DEF w
<1>5. [w EXCEPT !.answer = <<output>>] \in View
  BY <1>1, <1>4 DEF View
<1>6. /\ [w EXCEPT !.answer = <<output>>].answer = <<output>>
      /\ [w EXCEPT !.answer = <<output>>].buffer = w.buffer
      /\ [w EXCEPT !.answer = <<output>>].screen = w.screen
  BY <1>1 DEF View
<1> QED BY <1>1, <1>2, <1>3, <1>5, <1>6

-----------------------------------------------------------------------------
(* Types.                                                                  *)

LEMMA ContextTyped == SavedContext \in Nat \ {0} /\ MaxSends \in Nat \ {0}
  BY ClientAssumption DEF SavedContext

LEMMA OutcomeTyped ==
  ASSUME NEW t
  PROVE  OutcomeOf(t) \in {"completed", "failed", "auth_required", "input_required"}
  BY DEF OutcomeOf

LEMMA AppliedTyped ==
  ASSUME NEW t \in Copy, NEW s \in HubState
  PROVE  /\ Applied(t, s) \in Copy
         /\ Applied(t, s).context = t.context
         /\ t.context # 0 => Applied(t, s).state = s
         /\ t.context # 0 => Applied(t, s).notes =
                                IF s \in Noted THEN Append(t.notes, s) ELSE t.notes
         /\ t.context = 0 => Applied(t, s) = t
<1> DEFINE notes == IF s \in Noted THEN Append(t.notes, s) ELSE t.notes
           u == [t EXCEPT !.state = s, !.notes = notes]
<1>1. Applied(t, s) = IF t.context = 0 THEN t ELSE u
  BY DEF Applied, Known
<1>2. t.notes \in Seq(Noted)
  BY DEF Copy
<1>3. notes \in Seq(Noted) /\ notes = IF s \in Noted THEN Append(t.notes, s) ELSE t.notes
  BY <1>2
<1> HIDE DEF notes
<1>4. u \in Copy /\ u.context = t.context /\ u.state = s /\ u.notes = notes
  BY <1>3 DEF Copy
<1> HIDE DEF u
<1> QED BY <1>1, <1>3, <1>4

\* What a stream leaves when it is over.
ConcludesWith(t, whole, outcome, calls, output) ==
  /\ outcome = OutcomeOf(t)
  /\ calls = IF outcome = "input_required" THEN DeferredCalls(artifacts) ELSE <<>>
  /\ output = IF Known(t) THEN Output(t, artifacts) ELSE [kind |-> "no_response", id |-> 0]
  /\ outcome \in Outcome /\ calls \in Seq(Id) /\ output \in Shown
  /\ task' = t
  /\ view' = Closed(view, output, calls)
  /\ result' = [outcome |-> outcome, output |-> output, calls |-> calls, whole |-> whole]
  /\ result' \in Result
  /\ ctx' = NextContext(t)
  /\ heard' = IF Known(t) THEN heard \cup {Len(sends)} ELSE heard
  /\ \/ /\ calls # <<>> /\ outcome = "input_required"
        /\ place' = "deciding" /\ exit' = exit /\ session' = session
     \/ /\ calls = <<>> /\ mode = "do" /\ place' = "ended" /\ session' = session
        /\ exit' = IF outcome = "completed" THEN "zero" ELSE "one"
     \/ /\ calls = <<>> /\ mode # "do" /\ outcome = "auth_required"
        /\ place' = "ended" /\ exit' = "zero"
        /\ session' = IF mode = "talk" THEN ctx' ELSE session
     \/ /\ calls = <<>> /\ mode # "do" /\ place' = "idle" /\ exit' = exit
        /\ session' = session

LEMMA ConcludeFacts ==
  ASSUME artifacts \in Seq(Part), NEW t \in Copy, NEW whole \in BOOLEAN, Conclude(t, whole)
  PROVE  \E outcome, calls, output : ConcludesWith(t, whole, outcome, calls, output)
<1> DEFINE outcome == OutcomeOf(t)
           calls == IF outcome = "input_required" THEN DeferredCalls(artifacts) ELSE <<>>
           output == IF Known(t) THEN Output(t, artifacts)
                                 ELSE [kind |-> "no_response", id |-> 0]
<1>1. outcome \in Outcome /\ outcome = OutcomeOf(t)
  BY OutcomeTyped DEF Outcome
<1>2. calls \in Seq(Id)
  BY CallsTyped
<1>3. output \in Shown
  BY OutputTyped DEF Shown, Kind, Id
<1>4. /\ task' = t
      /\ view' = Closed(view, output, calls)
      /\ result' = [outcome |-> outcome, output |-> output, calls |-> calls, whole |-> whole]
      /\ ctx' = NextContext(t)
      /\ heard' = IF Known(t) THEN heard \cup {Len(sends)} ELSE heard
  BY DEF Conclude
<1>5. IF calls # <<>> THEN place' = "deciding" /\ UNCHANGED <<exit, session>>
                      ELSE AfterTurn(outcome, ctx')
  BY DEF Conclude
<1>6. calls = IF outcome = "input_required" THEN DeferredCalls(artifacts) ELSE <<>>
  OBVIOUS
<1>7. output = IF Known(t) THEN Output(t, artifacts) ELSE [kind |-> "no_response", id |-> 0]
  OBVIOUS
<1> HIDE DEF outcome, calls, output
<1>8. result' \in Result
  BY <1>1, <1>2, <1>3, <1>4 DEF Result
<1>9. \/ /\ calls # <<>> /\ outcome = "input_required"
         /\ place' = "deciding" /\ exit' = exit /\ session' = session
      \/ /\ calls = <<>> /\ mode = "do" /\ place' = "ended" /\ session' = session
         /\ exit' = IF outcome = "completed" THEN "zero" ELSE "one"
      \/ /\ calls = <<>> /\ mode # "do" /\ outcome = "auth_required"
         /\ place' = "ended" /\ exit' = "zero"
         /\ session' = IF mode = "talk" THEN ctx' ELSE session
      \/ /\ calls = <<>> /\ mode # "do" /\ place' = "idle" /\ exit' = exit
         /\ session' = session
  BY <1>5, <1>6 DEF AfterTurn, LeaveChat
<1>10. ConcludesWith(t, whole, outcome, calls, output)
  BY <1>1, <1>2, <1>3, <1>4, <1>6, <1>7, <1>8, <1>9 DEF ConcludesWith
<1> QED BY <1>10

\* What every step needs of the types.
LEMMA Shapes ==
  ASSUME TypeInv
  PROVE  /\ hub \in Hub /\ wire \in Seq(Update) /\ task \in Copy
         /\ artifacts \in Seq(Part) /\ view \in View /\ result \in Result
         /\ hub.log \in Seq(Part) /\ hub.state \in HubState /\ hub.context \in Context
         /\ sends \in Seq(1 .. SavedContext) /\ ctx \in Context
         /\ heard \subseteq DOMAIN sends
  BY DEF TypeInv, TurnsTypeOK, ShapeInv, Hub, Context

LEMMA TypesAtStart ==
  ASSUME Init
  PROVE  TypeInv
<1>1. NoHub \in Hub /\ NoTask \in Copy /\ Blank \in View /\ NoResult \in Result
  <2>1. 0 \in Context
    BY ContextTyped DEF Context
  <2>2. Nothing \in Shown
    BY DEF Nothing, Shown, Kind, Id
  <2> QED BY <2>1, <2>2 DEF NoHub, Hub, NoTask, Copy, Blank, View, NoResult, Result, HubState,
                            Outcome
<1>2. ShapeInv
  BY <1>1 DEF Init, ShapeInv
<1>3. TurnsTypeOK
  BY ContextTyped DEF Init, TurnsTypeOK, NoHub, NoTask, NoResult, HubState, Outcome, Place,
                      Context
<1> QED BY <1>2, <1>3 DEF TypeInv

\* The hub puts parts into its log and their updates on the wire.
LEMMA HubKeepsTypes ==
  ASSUME TypeInv, NEW state \in HubState, NEW log \in Seq(Part),
         hub' = [hub EXCEPT !.state = state, !.log = log], wire' \in Seq(Update),
         UNCHANGED <<place, Command, Reader>>
  PROVE  TypeInv'
<1>1. hub' \in Hub /\ hub'.state = state /\ hub'.log = log
  BY Shapes DEF Hub
<1>2. ShapeInv'
  BY <1>1 DEF TypeInv, ShapeInv, Command, Reader
<1>3. \A i \in DOMAIN log : log[i] \in Part
  OBVIOUS
<1>4. TurnsTypeOK'
  BY <1>1, <1>3 DEF TypeInv, TurnsTypeOK, Command, Reader, SavedContext
<1> QED BY <1>2, <1>4 DEF TypeInv

\* The steps of the hub, as what they add to the log and to the wire.
Closing == [kind |-> "closing", id |-> 0]
Data    == [kind |-> "data", id |-> 0]
HubAdds(state, parts) ==
  /\ place = "streaming"
  /\ hub.state = "working"
  /\ parts \in Seq(Part)
  /\ \/ state = "working" /\ \E p \in Part : /\ p.kind \in Streamed \cup {"deferred"}
                                             /\ parts = <<p>>
     \/ state \in {"auth_required", "failed"} /\ parts = <<>>
     \/ state = "input_required" /\ parts = <<>> /\ OfKind(hub.log, {"deferred"}) # <<>>
     \/ state = "completed" /\ parts \in {<<Closing>>, <<Closing, Data>>}
  /\ hub' = [hub EXCEPT !.state = state, !.log = hub.log \o parts]
  /\ wire' = wire \o ([i \in DOMAIN parts |-> ArtifactUpdate(parts[i])]
                        \o IF state = "working" THEN <<>> ELSE <<StatusUpdate(state)>>)
  /\ UNCHANGED <<place, Command, Reader>>

LEMMA Joined ==
  ASSUME NEW a, NEW b
  PROVE  <<a>> \o <<b>> = <<a, b>> /\ <<a>> \o <<>> = <<a>>
<1>1. /\ <<a>> \in Seq({a, b}) /\ <<b>> \in Seq({a, b}) /\ <<>> \in Seq({a, b})
      /\ <<a, b>> \in Seq({a, b})
  OBVIOUS
<1> DEFINE s == <<a>> \o <<b>>
           t == <<a, b>>
<1>2. s \in Seq({a, b}) /\ Len(s) = 2 /\ s[1] = a /\ s[2] = b
  BY <1>1
<1>3. t \in Seq({a, b}) /\ Len(t) = 2 /\ t[1] = a /\ t[2] = b
  BY <1>1
<1>4. s = t
  <2> HIDE DEF s, t
  <2> QED BY <1>2, <1>3
<1>5. <<a>> \o <<>> = <<a>>
  BY <1>1
<1> QED BY <1>4, <1>5

LEMMA Elements ==
  ASSUME NEW S, NEW s \in Seq(S)
  PROVE  \A i \in DOMAIN s : s[i] \in S
  OBVIOUS

LEMMA HubPostsOne ==
  ASSUME TypeInv, NEW p \in Part, p.kind \in Streamed \cup {"deferred"},
         place = "streaming", hub.state = "working",
         hub' = [hub EXCEPT !.log = Append(@, p)], Post(<<ArtifactUpdate(p)>>),
         UNCHANGED <<place, Command, Reader>>
  PROVE  HubAdds("working", <<p>>)
<1>1. hub \in Hub /\ hub.log \in Seq(Part)
  BY Shapes
<1>2. Append(hub.log, p) = hub.log \o <<p>>
  BY <1>1
<1>3. hub' = [hub EXCEPT !.state = "working", !.log = hub.log \o <<p>>]
  BY <1>1, <1>2 DEF Hub
<1>4. [i \in DOMAIN <<p>> |-> ArtifactUpdate(<<p>>[i])] \o <<>> = <<ArtifactUpdate(p)>>
  <2> DEFINE u == ArtifactUpdate(p)
             one == [i \in DOMAIN <<p>> |-> ArtifactUpdate(<<p>>[i])]
  <2>1. one = [i \in 1 .. 1 |-> u]
    OBVIOUS
  <2> HIDE DEF one, u
  <2>2. one = <<u>>
    BY <2>1
  <2>3. one \o <<>> = <<u>>
    BY <2>2
  <2> QED BY <2>3 DEF one, u
<1>5. wire' = wire \o ([i \in DOMAIN <<p>> |-> ArtifactUpdate(<<p>>[i])] \o <<>>)
  BY <1>4 DEF Post
<1>6. <<p>> \in Seq(Part)
  OBVIOUS
<1> QED BY <1>3, <1>5, <1>6 DEF HubAdds

LEMMA HubEndAdds ==
  ASSUME TypeInv, NEW state, NEW parts \in Seq(Part), HubEnds(state, parts),
         \/ state \in {"auth_required", "failed"} /\ parts = <<>>
         \/ state = "input_required" /\ parts = <<>> /\ OfKind(hub.log, {"deferred"}) # <<>>
         \/ state = "completed" /\ parts \in {<<Closing>>, <<Closing, Data>>}
  PROVE  HubAdds(state, parts)
<1>1. state # "working"
  OBVIOUS
<1>2. hub' = [hub EXCEPT !.state = state, !.log = hub.log \o parts]
  BY DEF HubEnds
<1>3. wire' = wire \o ([i \in DOMAIN parts |-> ArtifactUpdate(parts[i])]
                         \o <<StatusUpdate(state)>>)
  BY DEF HubEnds, Post
<1>4. place = "streaming" /\ hub.state = "working" /\ UNCHANGED <<place, Command, Reader>>
  BY DEF HubEnds
<1> QED BY <1>1, <1>2, <1>3, <1>4 DEF HubAdds

LEMMA HubStepAdds ==
  ASSUME TypeInv, HubStep
  PROVE  \E state \in HubState, parts \in Seq(Part) : HubAdds(state, parts)
<1>1. \A s \in {"working"} \cup StopsReading : s \in HubState
  BY DEF StopsReading, HubState
<1>2. <<>> \in Seq(Part)
  OBVIOUS
<1>3. ASSUME NEW kind \in Streamed, HubEmits(kind)
      PROVE  \E p \in Part : HubAdds("working", <<p>>)
  <2> DEFINE p == [kind |-> kind, id |-> Len(hub.log) + 1]
  <2>1. p \in Part /\ p.kind = kind
    BY Shapes DEF Part
  <2>2. /\ hub' = [hub EXCEPT !.log = Append(@, p)] /\ Post(<<ArtifactUpdate(p)>>)
        /\ place = "streaming" /\ hub.state = "working" /\ UNCHANGED <<place, Command, Reader>>
    BY <1>3 DEF HubEmits
  <2> HIDE DEF p
  <2> QED BY <2>1, <2>2, HubPostsOne
<1>4. ASSUME NEW k \in Call, HubDefers(k)
      PROVE  \E p \in Part : HubAdds("working", <<p>>)
  <2> DEFINE p == [kind |-> "deferred", id |-> k]
  <2>1. p \in Part /\ p.kind = "deferred"
    BY DEF Part
  <2>2. /\ hub' = [hub EXCEPT !.log = Append(@, p)] /\ Post(<<ArtifactUpdate(p)>>)
        /\ place = "streaming" /\ hub.state = "working" /\ UNCHANGED <<place, Command, Reader>>
    BY <1>4 DEF HubDefers
  <2> HIDE DEF p
  <2> QED BY <2>1, <2>2, HubPostsOne
<1>5. ASSUME HubNeedsAuth PROVE HubAdds("auth_required", <<>>)
  BY <1>2, <1>5, HubEndAdds DEF HubNeedsAuth
<1>6. ASSUME HubFails PROVE HubAdds("failed", <<>>)
  BY <1>2, <1>6, HubEndAdds DEF HubFails
<1>7. ASSUME HubPauses PROVE HubAdds("input_required", <<>>)
  BY <1>2, <1>7, HubEndAdds DEF HubPauses
<1>8. ASSUME NEW structured \in BOOLEAN, HubCompletes(structured)
      PROVE  \E parts \in Seq(Part) : HubAdds("completed", parts)
  <2> DEFINE parts == <<Closing>> \o IF structured THEN <<Data>> ELSE <<>>
  <2>1. Closing \in Part /\ Data \in Part
    BY DEF Closing, Data, Part
  <2>2. parts = IF structured THEN <<Closing, Data>> ELSE <<Closing>>
    BY Joined
  <2>3. HubEnds("completed", parts)
    BY <1>8 DEF HubCompletes, Closing, Data
  <2> HIDE DEF parts
  <2>4. parts \in Seq(Part) /\ parts \in {<<Closing>>, <<Closing, Data>>}
    BY <2>1, <2>2
  <2> QED BY <2>3, <2>4, HubEndAdds
<1>9. "working" \in HubState /\ "completed" \in HubState /\ "failed" \in HubState
      /\ "input_required" \in HubState /\ "auth_required" \in HubState
  BY DEF HubState
<1>10. ASSUME \E p \in Part : HubAdds("working", <<p>>)
       PROVE  \E state \in HubState, parts \in Seq(Part) : HubAdds(state, parts)
  <2>1. PICK p \in Part : HubAdds("working", <<p>>)
    BY <1>10
  <2>2. <<p>> \in Seq(Part)
    OBVIOUS
  <2> QED BY <1>9, <2>1, <2>2
<1> QED BY <1>2, <1>3, <1>4, <1>5, <1>6, <1>7, <1>8, <1>9, <1>10 DEF HubStep

LEMMA HubAddsTypes ==
  ASSUME TypeInv, NEW state \in HubState, NEW parts \in Seq(Part), HubAdds(state, parts)
  PROVE  TypeInv'
<1> DEFINE updates == [i \in DOMAIN parts |-> ArtifactUpdate(parts[i])]
           last == IF state = "working" THEN <<>> ELSE <<StatusUpdate(state)>>
<1>1. updates \in Seq(Update)
  <2>1. \A i \in 1 .. Len(parts) : parts[i] \in Part
    OBVIOUS
  <2>2. \A i \in 1 .. Len(parts) : ArtifactUpdate(parts[i]) \in Update
    BY <2>1, UpdateTyped
  <2>3. updates = [i \in 1 .. Len(parts) |-> ArtifactUpdate(parts[i])] /\ Len(parts) \in Nat
    OBVIOUS
  <2> QED BY <2>2, <2>3
<1>2. last \in Seq(Update)
  BY UpdateTyped
<1>3. wire' = wire \o (updates \o last)
  BY DEF HubAdds
<1> HIDE DEF updates, last
<1>4. wire' \in Seq(Update)
  BY <1>1, <1>2, <1>3, Shapes
<1>5. hub.log \o parts \in Seq(Part)
  BY Shapes
<1> QED BY <1>4, <1>5, HubKeepsTypes DEF HubAdds

LEMMA ConcludeTypes ==
  ASSUME TypeInv, place = "streaming", sends # <<>>, NEW t \in Copy, NEW whole \in BOOLEAN,
         Conclude(t, whole), wire' \in Seq(Update), UNCHANGED <<artifacts, mode, sends, hub>>
  PROVE  TypeInv'
<1>1. PICK outcome, calls, output : ConcludesWith(t, whole, outcome, calls, output)
  BY ConcludeFacts, Shapes
<1>2. ctx' \in Context
  BY <1>1, Shapes DEF ConcludesWith, NextContext, Copy
<1>3. heard' \subseteq DOMAIN sends
  <2>1. Len(sends) \in DOMAIN sends /\ heard \subseteq DOMAIN sends
    BY Shapes
  <2> QED BY <1>1, <2>1 DEF ConcludesWith
<1>4. view' \in View
  BY <1>1, ClosedTyped, Shapes DEF ConcludesWith
<1>5. ShapeInv'
  BY <1>1, <1>4, Shapes DEF ShapeInv, ConcludesWith
<1>6. task' = t /\ t.state \in HubState
  BY <1>1 DEF ConcludesWith, Copy
<1>7. result'.outcome = outcome /\ outcome \in Outcome
  BY <1>1 DEF ConcludesWith
<1>8. exit = "running" /\ mode \in {"do", "talk", "resume"}
  BY DEF TypeInv, TurnsTypeOK
<1>9. /\ session' \in Context /\ place' \in Place
      /\ exit' \in {"running", "interrupted", "zero", "one"}
      /\ exit' = "running" <=> place' # "ended"
      /\ place' = "deciding" => outcome = "input_required"
  <2>1. session \in Context
    BY DEF TypeInv, TurnsTypeOK, Context
  <2> QED BY <1>1, <1>2, <1>8, <2>1 DEF ConcludesWith, Place
<1>10. TurnsTypeOK'
  BY <1>2, <1>3, <1>6, <1>7, <1>9 DEF TypeInv, TurnsTypeOK, Context, SavedContext
<1> QED BY <1>5, <1>10 DEF TypeInv

LEMMA ReadKeepsTypes ==
  ASSUME TypeInv, sends # <<>>, ReadUpdate
  PROVE  TypeInv'
<1> DEFINE u == Head(wire)
<1>1. u \in Update /\ wire' \in Seq(Update) /\ place = "streaming"
  BY Shapes DEF ReadUpdate
<1>2. ASSUME ReadTask PROVE TypeInv'
  <2>1. task' \in Copy /\ task'.state = "submitted"
    BY <1>2, Shapes DEF ReadTask, Copy, HubState
  <2>2. ShapeInv'
    BY <1>1, <1>2, <2>1 DEF TypeInv, ShapeInv, ReadTask, ReadUpdate, Command
  <2>3. TurnsTypeOK'
    BY <1>2, <2>1 DEF TypeInv, TurnsTypeOK, ReadTask, ReadUpdate, Command, HubState, SavedContext
  <2> QED BY <2>2, <2>3 DEF TypeInv
<1>3. ASSUME ReadStatus PROVE TypeInv'
  <2> DEFINE t == Applied(task, u.state)
  <2>1. u.state \in HubState
    BY <1>1, <1>3, UpdateRead DEF ReadStatus
  <2>2. t \in Copy
    BY <2>1, AppliedTyped, Shapes
  <2>3. CASE u.state \in StopsReading
    <3>1. Conclude(t, TRUE) /\ UNCHANGED <<artifacts, mode, sends, hub>>
      BY <1>3, <2>3 DEF ReadStatus, ReadUpdate
    <3> HIDE DEF t
    <3> QED BY <1>1, <2>2, <3>1, ConcludeTypes
  <2>4. CASE u.state \notin StopsReading
    <3>1. task' = t /\ UNCHANGED <<artifacts, view, result, Command, place>>
      BY <1>3, <2>4 DEF ReadStatus
    <3> HIDE DEF t
    <3>2. t.state \in HubState
      BY <2>2 DEF Copy
    <3>3. ShapeInv'
      BY <1>1, <2>2, <3>1 DEF TypeInv, ShapeInv, ReadUpdate, Command
    <3>4. TurnsTypeOK'
      BY <3>1, <3>2 DEF TypeInv, TurnsTypeOK, ReadUpdate, Command, SavedContext
    <3> QED BY <3>3, <3>4 DEF TypeInv
  <2> QED BY <2>3, <2>4
<1>4. ASSUME ReadArtifact PROVE TypeInv'
  <2>1. u.part \in Part
    BY <1>1, <1>4, UpdateRead DEF ReadArtifact
  <2>2. view' \in View
    BY <1>4, <2>1, RenderedTyped, Shapes DEF ReadArtifact
  <2>3. artifacts' \in Seq(Part)
    BY <1>4, <2>1, Shapes DEF ReadArtifact
  <2>4. ShapeInv'
    BY <1>1, <1>4, <2>2, <2>3 DEF TypeInv, ShapeInv, ReadArtifact, ReadUpdate, Command
  <2>5. TurnsTypeOK'
    BY <1>4 DEF TypeInv, TurnsTypeOK, ReadArtifact, ReadUpdate, Command, SavedContext
  <2> QED BY <2>4, <2>5 DEF TypeInv
<1> QED BY <1>2, <1>3, <1>4 DEF ReadUpdate

LEMMA SendTypes ==
  ASSUME TypeInv, place # "ended", NEW context \in Context, Send(context)
  PROVE  TypeInv'
<1> DEFINE used == IF context # 0 THEN context ELSE Len(sends) + 1
<1>1. Len(sends) < MaxSends /\ Len(sends) \in Nat
  BY Shapes DEF Send
<1>2. used \in 1 .. SavedContext /\ used \in Context
  BY <1>1, ContextTyped DEF Context, SavedContext
<1>3. /\ sends' = Append(sends, used)
      /\ hub' = [context |-> used, state |-> "working", log |-> <<>>]
  BY DEF Send
<1> HIDE DEF used
<1>4. sends' \in Seq(1 .. SavedContext) /\ Len(sends') <= MaxSends
  BY <1>1, <1>2, <1>3, ContextTyped, Shapes
<1>5. hub' \in Hub /\ hub'.state \in HubState /\ hub'.log = <<>>
  BY <1>2, <1>3 DEF Hub, HubState
<1>6. NoTask \in Copy /\ Blank \in View /\ NoResult \in Result
  <2>1. 0 \in Context
    BY ContextTyped DEF Context
  <2>2. Nothing \in Shown
    BY DEF Nothing, Shown, Kind, Id
  <2> QED BY <2>1, <2>2 DEF NoTask, Copy, Blank, View, NoResult, Result, HubState, Outcome
<1>7. wire' \in Seq(Update)
  <2>1. "working" \in HubState
    BY DEF HubState
  <2>2. TaskUpdate \in Update /\ StatusUpdate("working") \in Update
    BY <2>1, UpdateTyped
  <2> QED BY <2>2 DEF Send
<1>8. ShapeInv'
  BY <1>4, <1>5, <1>6, <1>7 DEF ShapeInv, Send, SavedContext
<1>9. heard' \subseteq DOMAIN sends'
  BY <1>2, <1>3, Shapes DEF Send
<1>10. TurnsTypeOK'
  <2>1. task'.state \in HubState /\ result'.outcome \in Outcome
    BY DEF Send, NoTask, NoResult, HubState, Outcome
  <2>2. \A i \in DOMAIN sends' : sends'[i] \in 1 .. SavedContext
    BY <1>4, Elements
  <2>3. exit' = "running" /\ place' = "streaming"
    BY DEF Send, TypeInv, TurnsTypeOK
  <2> QED BY <1>4, <1>5, <1>9, <2>1, <2>2, <2>3 DEF TypeInv, TurnsTypeOK, Send, Place, SavedContext
<1> QED BY <1>8, <1>10 DEF TypeInv

\* Steps of the command that leave the hub and what was read alone.
Onward(p, c, x, n) ==
  /\ UNCHANGED <<mode, sends, heard, hub, task, artifacts, view, result>>
  /\ place' = p /\ ctx' = c /\ exit' = x /\ session' = n
  /\ wire' \in {wire, <<>>}
  /\ p \in {place, "idle", "ended"}
  /\ p = "ended" <=> x # "running"

LEMMA OnwardTypes ==
  ASSUME TypeInv, NEW p, NEW c \in Context, NEW n \in Context,
         NEW x \in {"running", "interrupted", "zero", "one"}, Onward(p, c, x, n)
  PROVE  TypeInv'
<1>1. wire' \in Seq(Update)
  <2>1. <<>> \in Seq(Update) /\ wire \in Seq(Update)
    BY Shapes
  <2> QED BY <2>1 DEF Onward
<1>2. ShapeInv'
  BY <1>1 DEF TypeInv, ShapeInv, Onward
<1>3. TurnsTypeOK'
  BY DEF TypeInv, TurnsTypeOK, Onward, Context, Place, SavedContext
<1> QED BY <1>2, <1>3 DEF TypeInv

\* Which steps these are.
LEMMA CommandSteps ==
  ASSUME TypeInv,
         \/ StreamRaises \/ Interrupt \/ StartFails \/ PromptAbandoned
         \/ StartChat \/ ChatExits \/ WidgetCancelled
  PROVE  \E p, c, x, n :
           /\ Onward(p, c, x, n)
           /\ c \in Context /\ n \in Context /\ x \in {"running", "interrupted", "zero", "one"}
           /\ c = IF place = "start" /\ p = "idle"
                  THEN IF mode = "resume" THEN SavedContext ELSE 0 ELSE ctx
           /\ n # session => place = "idle" /\ n = ctx /\ p = "ended" /\ mode = "talk"
           /\ place # "ended"
           /\ p # "streaming" /\ p # "deciding" /\ p # "start"
           /\ x = "zero" => p = "ended" /\ place # "streaming"
           /\ mode = "do" /\ x = "zero" => place \in {"start", "deciding", "idle"}
           /\ mode = "do" /\ x = "one" => place \in {"start", "streaming"}
           /\ p = "idle" => mode # "do"
<1>1. /\ exit = "running" <=> place # "ended"
      /\ exit \in {"running", "interrupted", "zero", "one"}
      /\ ctx \in Context /\ session \in Context /\ 0 \in Context /\ SavedContext \in Context
  BY ContextTyped DEF TypeInv, TurnsTypeOK, Context
<1>2. ASSUME StreamRaises
      PROVE  Onward(IF mode = "do" THEN "ended" ELSE "idle", ctx,
                    IF mode = "do" THEN "one" ELSE exit, session) /\ place = "streaming"
  BY <1>1, <1>2 DEF StreamRaises, Onward, Reader
<1>3. ASSUME Interrupt
      PROVE  Onward("ended", ctx, "interrupted", session) /\ place = "streaming"
  BY <1>3 DEF Interrupt, Onward, Reader, HubSide
<1>4. ASSUME StartFails PROVE Onward("ended", ctx, "one", session) /\ place = "start"
  BY <1>4 DEF StartFails, End, Onward, Reader, HubSide
<1>5. ASSUME PromptAbandoned PROVE Onward("ended", ctx, "zero", session) /\ place = "start"
  BY <1>5 DEF PromptAbandoned, End, Onward, Reader, HubSide
<1>6. ASSUME StartChat
      PROVE  /\ Onward("idle", IF mode = "resume" THEN SavedContext ELSE 0, exit, session)
             /\ place = "start" /\ mode # "do"
  BY <1>1, <1>6 DEF StartChat, Onward, Reader, HubSide
<1>7. ASSUME ChatExits
      PROVE  /\ Onward("ended", ctx, "zero", IF mode = "talk" THEN ctx ELSE session)
             /\ place = "idle"
  BY <1>7 DEF ChatExits, LeaveChat, Onward, Reader, HubSide
<1>8. ASSUME WidgetCancelled
      PROVE  /\ place = "deciding"
             /\ IF mode = "do" THEN Onward("ended", ctx, "zero", session)
                               ELSE Onward("idle", ctx, exit, session)
  BY <1>1, <1>8 DEF WidgetCancelled, End, Onward, Command, Reader, HubSide
<1>9. CASE StreamRaises
  BY <1>1, <1>2, <1>9
<1>10. CASE Interrupt
  BY <1>1, <1>3, <1>10
<1>11. CASE StartFails
  BY <1>1, <1>4, <1>11
<1>12. CASE PromptAbandoned
  BY <1>1, <1>5, <1>12
<1>13. CASE StartChat
  BY <1>1, <1>6, <1>13
<1>14. CASE ChatExits
  BY <1>1, <1>7, <1>14
<1>15. CASE WidgetCancelled
  BY <1>1, <1>8, <1>15
<1> QED BY <1>9, <1>10, <1>11, <1>12, <1>13, <1>14, <1>15

LEMMA TypeStep ==
  ASSUME TypeInv, ContextInv, [Next]_vars
  PROVE  TypeInv'
<1>1. ASSUME HubStep PROVE TypeInv'
  <2>1. PICK state \in HubState, parts \in Seq(Part) : HubAdds(state, parts)
    BY <1>1, HubStepAdds
  <2> QED BY <2>1, HubAddsTypes
<1>2. ASSUME ReadUpdate PROVE TypeInv'
  BY <1>2, ReadKeepsTypes DEF ReadUpdate, ContextInv
<1>3. ASSUME StreamEnds PROVE TypeInv'
  <2>1. wire' \in Seq(Update) /\ task \in Copy
    BY <1>3, Shapes DEF StreamEnds
  <2> QED BY <1>3, <2>1, ConcludeTypes DEF StreamEnds, ContextInv
<1>4. ASSUME StreamRaises \/ Interrupt \/ StartFails \/ PromptAbandoned
             \/ StartChat \/ ChatExits \/ WidgetCancelled
      PROVE  TypeInv'
  BY <1>4, CommandSteps, OnwardTypes
<1>5. ASSUME DoSends PROVE TypeInv'
  BY <1>5, SendTypes, ContextTyped DEF DoSends, Context
<1>6. ASSUME ChatSends \/ Decide PROVE TypeInv'
  <2>1. ctx \in Context
    BY Shapes
  <2> QED BY <1>6, <2>1, SendTypes DEF ChatSends, Decide
<1>7. ASSUME UNCHANGED vars PROVE TypeInv'
  <2>1. TurnsTypeOK'
    BY <1>7 DEF vars, TypeInv, TurnsTypeOK, SavedContext
  <2>2. ShapeInv'
    BY <1>7 DEF vars, TypeInv, ShapeInv
  <2> QED BY <2>1, <2>2 DEF TypeInv
<1> QED BY <1>1, <1>2, <1>3, <1>4, <1>5, <1>6, <1>7 DEF Next

-----------------------------------------------------------------------------
(* The context of the command.                                             *)

LEMMA ContextAtStart ==
  ASSUME Init
  PROVE  ContextInv
  BY DEF Init, ContextInv, NoHub, NoTask

LEMMA SendContext ==
  ASSUME TypeInv, ContextInv, NEW context \in Context, Send(context),
         \/ mode = "do" /\ place = "start" /\ context = 0
         \/ place \in {"idle", "deciding"} /\ context = ctx
  PROVE  ContextInv'
<1> DEFINE used == IF context # 0 THEN context ELSE Len(sends) + 1
           n == Len(sends)
<1>1. /\ n \in Nat /\ n < MaxSends /\ sends \in Seq(1 .. SavedContext)
      /\ used \in 1 .. SavedContext
  <2>1. n \in Nat /\ n < MaxSends /\ sends \in Seq(1 .. SavedContext)
    BY Shapes DEF Send
  <2> QED BY <2>1, ContextTyped DEF Context, SavedContext
<1>2. used = IF context # 0 THEN context ELSE n + 1
  OBVIOUS
<1>3. /\ sends' = Append(sends, used)
      /\ hub' = [context |-> used, state |-> "working", log |-> <<>>]
      /\ place' = "streaming" /\ task' = NoTask
      /\ UNCHANGED <<mode, ctx, heard, session, exit>>
  BY DEF Send
<1> HIDE DEF used
<1>4. /\ Len(sends') = n + 1 /\ sends'[n + 1] = used /\ DOMAIN sends' = 1 .. n + 1
      /\ \A i \in 1 .. n : sends'[i] = sends[i]
      /\ DOMAIN sends = 1 .. n
  BY <1>1, <1>3
<1> HIDE DEF n
<1>5. sends' # <<>>
  BY <1>1, <1>4
<1>6. context # 0 => used = ctx
  BY <1>2
<1>7. place = "start" => ctx = 0
  BY DEF ContextInv
<1>8. /\ hub'.context = sends'[Len(sends')]
      /\ ctx' # 0 => hub'.context = ctx'
      /\ task'.context \in {0, hub'.context}
  BY <1>2, <1>3, <1>4, <1>6, <1>7 DEF NoTask
<1>9. heard \subseteq 1 .. n
  BY <1>4, Shapes
<1>10. CASE mode = "resume"
  <2>1. ctx = SavedContext /\ \A i \in 1 .. n : sends[i] = SavedContext
    BY <1>4, <1>10 DEF ContextInv
  <2>2. used = SavedContext
    BY <1>6, <1>10, <2>1, ContextTyped
  <2>3. \A i \in DOMAIN sends' : sends'[i] = SavedContext
    BY <1>1, <1>4, <2>1, <2>2
  <2> QED BY <1>3, <1>5, <1>8, <1>10, <2>1, <2>3 DEF ContextInv
<1>11. CASE mode # "resume"
  <2>1. (heard = {} <=> ctx = 0) /\ \A i \in heard : sends[i] = ctx
    BY <1>11 DEF ContextInv
  <2>2. \A i \in heard' : sends'[i] = ctx'
    BY <1>3, <1>4, <1>9, <2>1
  <2>3. session # 0 => FALSE
    BY DEF ContextInv
  <2> QED BY <1>3, <1>5, <1>8, <1>11, <2>1, <2>2, <2>3 DEF ContextInv
<1> QED BY <1>10, <1>11

LEMMA ConcludeContext ==
  ASSUME TypeInv, ContextInv, place = "streaming", NEW t \in Copy, NEW whole \in BOOLEAN,
         Conclude(t, whole), t.context = task.context, UNCHANGED <<artifacts, mode, sends, hub>>
  PROVE  ContextInv'
<1>1. PICK outcome, calls, output : ConcludesWith(t, whole, outcome, calls, output)
  BY ConcludeFacts, Shapes
<1> DEFINE n == Len(sends)
<1>2. /\ sends # <<>> /\ hub.context = sends[n] /\ (ctx # 0 => hub.context = ctx)
      /\ task.context \in {0, hub.context} /\ session = 0
  BY DEF ContextInv
<1>3. /\ ctx' = IF t.context # 0 THEN t.context ELSE ctx
      /\ heard' = IF t.context # 0 THEN heard \cup {n} ELSE heard
  BY <1>1 DEF ConcludesWith, NextContext, Known
<1>4. /\ place' \in {"deciding", "ended", "idle"}
      /\ place' = "idle" => mode # "do"
      /\ session' # 0 => mode = "talk" /\ place' = "ended" /\ session' = ctx'
  BY <1>1, <1>2 DEF ConcludesWith
<1> HIDE DEF n
<1>5. CASE mode = "resume"
  <2>1. ctx = SavedContext /\ ctx # 0 /\ \A i \in DOMAIN sends : sends[i] = SavedContext
    BY <1>5, ContextTyped DEF ContextInv
  <2>2. ctx' = SavedContext
    BY <1>2, <1>3, <2>1
  <2> QED BY <1>2, <1>4, <1>5, <2>1, <2>2 DEF ContextInv
<1>6. CASE mode # "resume"
  <2>1. (heard = {} <=> ctx = 0) /\ \A i \in heard : sends[i] = ctx
    BY <1>6 DEF ContextInv
  <2>2. (heard' = {} <=> ctx' = 0) /\ \A i \in heard' : sends[i] = ctx'
    BY <1>2, <1>3, <2>1
  <2> QED BY <1>2, <1>4, <1>6, <2>2 DEF ContextInv
<1> QED BY <1>5, <1>6

LEMMA ContextStep ==
  ASSUME TypeInv, ContextInv, [Next]_vars
  PROVE  ContextInv'
<1>1. ASSUME HubStep PROVE ContextInv'
  <2>1. PICK state \in HubState, parts \in Seq(Part) : HubAdds(state, parts)
    BY <1>1, HubStepAdds
  <2>2. hub'.context = hub.context
    BY <2>1, Shapes DEF HubAdds, Hub
  <2> QED BY <2>1, <2>2 DEF HubAdds, ContextInv, Command, Reader, SavedContext
<1>2. ASSUME ReadUpdate PROVE ContextInv'
  <2> DEFINE u == Head(wire)
  <2>1. u \in Update /\ place = "streaming" /\ UNCHANGED hub
    BY <1>2, Shapes DEF ReadUpdate
  <2>2. ASSUME ReadTask PROVE ContextInv'
    <3>1. task'.context = hub.context
      BY <2>2 DEF ReadTask
    <3> QED BY <2>1, <2>2, <3>1 DEF ReadTask, ContextInv, Command, SavedContext
  <2>3. ASSUME ReadStatus PROVE ContextInv'
    <3> DEFINE t == Applied(task, u.state)
    <3>1. u.state \in HubState
      BY <2>1, <2>3, UpdateRead DEF ReadStatus
    <3>2. t \in Copy /\ t.context = task.context
      BY <3>1, AppliedTyped, Shapes
    <3>3. CASE u.state \in StopsReading
      <4>1. Conclude(t, TRUE) /\ UNCHANGED <<artifacts, mode, sends, hub>>
        BY <2>1, <2>3, <3>3 DEF ReadStatus
      <4> HIDE DEF t
      <4> QED BY <2>1, <3>2, <4>1, ConcludeContext
    <3>4. CASE u.state \notin StopsReading
      <4>1. task' = t /\ UNCHANGED <<artifacts, view, result, Command, place>>
        BY <2>3, <3>4 DEF ReadStatus
      <4> HIDE DEF t
      <4> QED BY <2>1, <3>2, <4>1 DEF ContextInv, Command, SavedContext
    <3> QED BY <3>3, <3>4
  <2>4. ASSUME ReadArtifact PROVE ContextInv'
    BY <2>1, <2>4 DEF ReadArtifact, ContextInv, Command, SavedContext
  <2> QED BY <1>2, <2>2, <2>3, <2>4 DEF ReadUpdate
<1>3. ASSUME StreamEnds PROVE ContextInv'
  <2>1. task \in Copy
    BY Shapes
  <2> QED BY <1>3, <2>1, ConcludeContext DEF StreamEnds
<1>4. ASSUME StreamRaises \/ Interrupt \/ StartFails \/ PromptAbandoned
             \/ StartChat \/ ChatExits \/ WidgetCancelled
      PROVE  ContextInv'
  <2>1. PICK p, c, x, n :
           /\ Onward(p, c, x, n)
           /\ c = IF place = "start" /\ p = "idle"
                  THEN IF mode = "resume" THEN SavedContext ELSE 0 ELSE ctx
           /\ n # session => place = "idle" /\ n = ctx /\ p = "ended" /\ mode = "talk"
           /\ place # "ended"
           /\ p # "streaming" /\ p # "deciding" /\ p # "start"
           /\ p = "idle" => mode # "do"
    BY <1>4, CommandSteps
  <2>2. p \in {"idle", "ended"}
    BY <2>1 DEF Onward, TypeInv, TurnsTypeOK, Place
  <2>3. place = "start" => sends = <<>> /\ ctx = 0
    BY DEF ContextInv
  <2>4. heard \subseteq DOMAIN sends
    BY Shapes
  <2>5. place = "start" => heard = {}
    BY <2>3, <2>4
  <2>6. session = 0 /\ (n # 0 => mode = "talk" /\ p = "ended" /\ n = ctx /\ c = ctx)
    BY <2>1 DEF ContextInv
  <2> QED BY <2>1, <2>2, <2>3, <2>5, <2>6 DEF Onward, ContextInv, SavedContext
<1>5. ASSUME DoSends PROVE ContextInv'
  BY <1>5, SendContext, ContextTyped DEF DoSends, Context
<1>6. ASSUME ChatSends \/ Decide PROVE ContextInv'
  <2>1. ctx \in Context
    BY Shapes
  <2> QED BY <1>6, <2>1, SendContext DEF ChatSends, Decide
<1>7. ASSUME UNCHANGED vars PROVE ContextInv'
  BY <1>7 DEF vars, ContextInv, SavedContext
<1> QED BY <1>1, <1>2, <1>3, <1>4, <1>5, <1>6, <1>7 DEF Next

-----------------------------------------------------------------------------
(* The wire.                                                               *)

\* The four things that reading an update can be.
ReadsTask == WireHolds(2) /\ ReadTask
ReadsStart ==
  /\ WireHolds(1)
  /\ task' = Applied(task, "working")
  /\ UNCHANGED <<artifacts, view, result, Command, place>>
ReadsPart ==
  /\ WireHolds(0)
  /\ Len(artifacts) < Len(hub.log)
  /\ artifacts' = Append(artifacts, hub.log[Len(artifacts) + 1])
  /\ view' = Rendered(view, hub.log[Len(artifacts) + 1])
  /\ UNCHANGED <<task, result, Command, place>>
ReadsEnd ==
  /\ WireHolds(0)
  /\ Len(artifacts) = Len(hub.log)
  /\ hub.state \in StopsReading
  /\ \E t \in Copy : /\ Conclude(t, TRUE)
                     /\ t.context = task.context /\ t.context # 0
                     /\ t.state = hub.state
                     /\ hub.state = "completed" => t.notes = <<>>
  /\ UNCHANGED <<artifacts, mode, sends>>

LEMMA ReadCases ==
  ASSUME TypeInv, WireInv, ReadUpdate
  PROVE  /\ place = "streaming" /\ wire' = Tail(wire) /\ UNCHANGED hub
         /\ ReadsTask \/ ReadsStart \/ ReadsPart \/ ReadsEnd
<1>1. place = "streaming" /\ wire # <<>> /\ wire' = Tail(wire) /\ UNCHANGED hub
  BY DEF ReadUpdate
<1>2. PICK k \in 0 .. 2 : WireHolds(k)
  BY <1>1 DEF WireInv
<1>3. /\ Len(artifacts) \in Nat /\ Len(hub.log) \in Nat /\ Len(artifacts) <= Len(hub.log)
      /\ wire \in Seq(Update) /\ Len(wire) \in Nat /\ Len(wire) > 0 /\ Head(wire) = wire[1]
  BY <1>1, Shapes DEF WireInv
<1>4. \A s : StatusUpdate(s).type = "status" /\ StatusUpdate(s).state = s
  BY DEF StatusUpdate
<1>5. \A p : ArtifactUpdate(p).type = "artifact" /\ ArtifactUpdate(p).part = p
  BY DEF ArtifactUpdate
<1>6. TaskUpdate.type = "task"
  BY DEF TaskUpdate
<1>7. CASE k = 2
  <2>1. Head(wire) = TaskUpdate /\ WireHolds(2)
    BY <1>2, <1>3, <1>7 DEF WireHolds
  <2>2. ReadTask
    BY <1>6, <2>1 DEF ReadUpdate, ReadStatus, ReadArtifact
  <2> QED BY <1>1, <2>1, <2>2 DEF ReadsTask
<1>8. CASE k = 1
  <2>1. Head(wire) = StatusUpdate("working") /\ WireHolds(1)
    BY <1>2, <1>3, <1>8 DEF WireHolds
  <2>2. ReadStatus /\ Head(wire).state = "working"
    BY <1>4, <2>1 DEF ReadUpdate, ReadTask, ReadArtifact
  <2>3. "working" \notin StopsReading
    BY DEF StopsReading
  <2>4. task' = Applied(task, "working") /\ UNCHANGED <<artifacts, view, result, Command, place>>
    BY <2>2, <2>3 DEF ReadStatus
  <2> QED BY <1>1, <2>1, <2>4 DEF ReadsStart
<1>9. CASE k = 0 /\ Len(artifacts) < Len(hub.log)
  <2> DEFINE p == hub.log[Len(artifacts) + 1]
  <2>1. WireHolds(0)
    BY <1>2, <1>9
  <2>2. 1 \in 1 .. Ahead
    BY <1>3, <1>9 DEF Ahead
  <2>3. wire[0 + 1] = ArtifactUpdate(p)
    BY <2>1, <2>2 DEF WireHolds
  <2>4. Head(wire) = ArtifactUpdate(p)
    BY <1>3, <2>3
  <2> HIDE DEF p
  <2>5. ReadArtifact /\ Head(wire).part = p
    BY <1>5, <2>4 DEF ReadUpdate, ReadTask, ReadStatus
  <2>6. /\ artifacts' = Append(artifacts, p) /\ view' = Rendered(view, p)
        /\ UNCHANGED <<task, result, Command, place>>
    BY <2>5 DEF ReadArtifact
  <2> QED BY <1>1, <1>9, <2>1, <2>6 DEF ReadsPart, p
<1>10. CASE k = 0 /\ Len(artifacts) = Len(hub.log)
  <2>1. WireHolds(0) /\ Ahead = 0
    BY <1>2, <1>3, <1>10 DEF Ahead
  <2>2. Ending = 1 /\ Len(wire) = 1
    BY <1>3, <2>1 DEF WireHolds, Ending
  <2>3. hub.state \in StopsReading /\ Head(wire) = StatusUpdate(hub.state)
    BY <1>3, <2>1, <2>2 DEF WireHolds, Ending
  <2>4. ReadStatus /\ Head(wire).state = hub.state
    BY <1>4, <2>3 DEF ReadUpdate, ReadTask, ReadArtifact
  <2> DEFINE t == Applied(task, hub.state)
  <2>5. Conclude(t, TRUE) /\ UNCHANGED <<artifacts, mode, sends>>
    BY <2>3, <2>4 DEF ReadStatus
  <2>6. task \in Copy /\ hub.state \in HubState /\ task.context # 0 /\ task.notes = <<>>
    BY <2>1, Shapes DEF WireHolds
  <2>7. /\ t \in Copy /\ t.context = task.context /\ t.context # 0 /\ t.state = hub.state
        /\ hub.state = "completed" => t.notes = <<>>
    BY <2>6, AppliedTyped DEF Noted
  <2> HIDE DEF t
  <2>8. ReadsEnd
    BY <1>10, <2>1, <2>3, <2>5, <2>7 DEF ReadsEnd
  <2> QED BY <1>1, <2>8
<1> QED BY <1>2, <1>3, <1>7, <1>8, <1>9, <1>10

\* What HubAdds puts behind what the wire holds.
LEMMA AddedUpdates ==
  ASSUME NEW state \in {"working"} \cup StopsReading, NEW parts \in Seq(Part)
  PROVE  \E more \in Seq(Update) :
           /\ more = [i \in DOMAIN parts |-> ArtifactUpdate(parts[i])]
                        \o IF state = "working" THEN <<>> ELSE <<StatusUpdate(state)>>
           /\ Len(more) = Len(parts) + IF state = "working" THEN 0 ELSE 1
           /\ \A i \in 1 .. Len(parts) : more[i] = ArtifactUpdate(parts[i])
           /\ state # "working" => more[Len(parts) + 1] = StatusUpdate(state)
<1> DEFINE updates == [i \in DOMAIN parts |-> ArtifactUpdate(parts[i])]
           last == IF state = "working" THEN <<>> ELSE <<StatusUpdate(state)>>
           m == Len(parts)
<1>1. m \in Nat /\ DOMAIN parts = 1 .. m /\ \A i \in 1 .. m : parts[i] \in Part
  OBVIOUS
<1>2. updates = [i \in 1 .. m |-> ArtifactUpdate(parts[i])]
  BY <1>1
<1>3. /\ updates \in Seq(Update) /\ Len(updates) = m
      /\ \A i \in 1 .. m : updates[i] = ArtifactUpdate(parts[i])
  <2> HIDE DEF m, updates
  <2>1. \A i \in 1 .. m : ArtifactUpdate(parts[i]) \in Update
    BY <1>1, UpdateTyped
  <2> QED BY <1>1, <1>2, <2>1
<1>4. state \in HubState
  BY DEF StopsReading, HubState
<1>5. /\ last \in Seq(Update) /\ Len(last) = IF state = "working" THEN 0 ELSE 1
      /\ state # "working" => last[1] = StatusUpdate(state)
  <2>1. StatusUpdate(state) \in Update
    BY <1>4, UpdateTyped
  <2>2. CASE state = "working"
    BY <2>2
  <2>3. CASE state # "working"
    BY <2>1, <2>3
  <2> QED BY <2>2, <2>3
<1>6. updates \o last = [i \in DOMAIN parts |-> ArtifactUpdate(parts[i])]
                          \o IF state = "working" THEN <<>> ELSE <<StatusUpdate(state)>>
  OBVIOUS
<1>7. m = Len(parts)
  OBVIOUS
<1> HIDE DEF updates, last, m
<1> DEFINE more == updates \o last
<1>8. /\ more \in Seq(Update) /\ Len(more) = m + IF state = "working" THEN 0 ELSE 1
      /\ \A i \in 1 .. m : more[i] = ArtifactUpdate(parts[i])
      /\ state # "working" => more[m + 1] = StatusUpdate(state)
  <2>1. /\ more \in Seq(Update) /\ Len(more) = m + Len(last)
        /\ \A i \in 1 .. m : more[i] = updates[i]
        /\ \A i \in 1 .. Len(last) : more[m + i] = last[i]
    <3>1. updates \in Seq(Update) /\ last \in Seq(Update)
      BY <1>3, <1>5
    <3>2. /\ updates \o last \in Seq(Update) /\ Len(updates \o last) = Len(updates) + Len(last)
          /\ \A i \in 1 .. Len(updates) : (updates \o last)[i] = updates[i]
          /\ \A i \in 1 .. Len(last) : (updates \o last)[Len(updates) + i] = last[i]
      BY ONLY <3>1, Concatenated
    <3> QED BY <1>3, <3>2
  <2> HIDE DEF more
  <2>2. CASE state = "working"
    BY <1>3, <1>5, <2>1, <2>2
  <2>3. CASE state # "working"
    BY <1>3, <1>5, <2>1, <2>3
  <2> QED BY <2>2, <2>3
<1> QED BY <1>6, <1>7, <1>8

LEMMA HubAddsWire ==
  ASSUME TypeInv, WireInv, NEW state, NEW parts, HubAdds(state, parts)
  PROVE  WireInv'
<1>1. state \in {"working"} \cup StopsReading /\ parts \in Seq(Part)
  BY DEF HubAdds, StopsReading
<1>2. PICK more \in Seq(Update) :
        /\ more = [i \in DOMAIN parts |-> ArtifactUpdate(parts[i])]
                     \o IF state = "working" THEN <<>> ELSE <<StatusUpdate(state)>>
        /\ Len(more) = Len(parts) + IF state = "working" THEN 0 ELSE 1
        /\ \A i \in 1 .. Len(parts) : more[i] = ArtifactUpdate(parts[i])
        /\ state # "working" => more[Len(parts) + 1] = StatusUpdate(state)
  BY <1>1, AddedUpdates
<1>3. wire' = wire \o more
  BY <1>2 DEF HubAdds
<1>4. /\ hub' = [hub EXCEPT !.state = state, !.log = hub.log \o parts]
      /\ UNCHANGED <<place, task, artifacts, result>>
      /\ place = "streaming" /\ hub.state = "working"
  BY DEF HubAdds, Reader
<1>5. /\ hub'.state = state /\ hub'.log = hub.log \o parts /\ hub'.context = hub.context
  BY <1>4, Shapes DEF Hub
<1> DEFINE n == Len(hub.log)
           m == Len(parts)
           a == Len(artifacts)
           log == hub.log \o parts
<1>6. /\ n \in Nat /\ m \in Nat /\ a \in Nat /\ a <= n
      /\ Len(log) = n + m /\ \A i \in 1 .. n : log[i] = hub.log[i]
      /\ \A i \in 1 .. m : log[n + i] = parts[i]
  BY <1>1, Shapes DEF WireInv
<1>7. m = Len(parts) /\ n = Len(hub.log) /\ a = Len(artifacts) /\ hub'.log = log
  BY <1>5
<1> HIDE DEF n, m, a, log
<1>8. PICK k \in 0 .. 2 : WireHolds(k)
  BY <1>4 DEF WireInv
<1>9. /\ Ending = 0 /\ Ending' = IF state = "working" THEN 0 ELSE 1
      /\ Ahead = n - a /\ Ahead' = (n + m) - a
  <2>1. "working" \notin StopsReading
    BY DEF StopsReading
  <2> QED BY <1>1, <1>4, <1>5, <1>6, <1>7, <2>1 DEF Ending, Ahead
<1>10. /\ Len(wire) = k + (n - a) /\ wire \in Seq(Update)
       /\ \A i \in 1 .. n - a : wire[k + i] = ArtifactUpdate(hub.log[a + i])
  BY <1>6, <1>7, <1>8, <1>9, Shapes DEF WireHolds
<1>11. /\ Len(wire') = Len(wire) + Len(more)
       /\ \A i \in 1 .. Len(wire) : wire'[i] = wire[i]
       /\ \A i \in 1 .. Len(more) : wire'[Len(wire) + i] = more[i]
       /\ Len(wire) \in Nat /\ Len(more) \in Nat
  BY <1>3, <1>10, Concatenated
<1>12. WireHolds(k)'
  <2>1. Len(wire') = k + Ahead' + Ending'
    <3>1. Len(more) = m + Ending'
      BY <1>2, <1>7, <1>9
    <3>2. Ending' \in Nat
      BY <1>9
    <3>3. Len(wire) = k + (n - a) /\ Len(wire') = Len(wire) + Len(more)
      BY <1>10, <1>11
    <3> HIDE DEF Ending
    <3> QED BY <1>6, <1>9, <3>1, <3>2, <3>3
  <2>2. /\ k = 2 => wire'[1] = TaskUpdate
        /\ k > 0 => wire'[k] = StatusUpdate("working")
        /\ k > 0 => artifacts' = <<>>
    <3>1. n - a \in Nat
      BY <1>6
    <3>2. \A i \in 1 .. k : i \in 1 .. Len(wire)
      BY <1>10, <3>1
    <3>3. \A i \in 1 .. k : wire'[i] = wire[i]
      BY <1>11, <3>2
    <3>4. /\ k = 2 => wire[1] = TaskUpdate
          /\ k > 0 => wire[k] = StatusUpdate("working")
          /\ k > 0 => artifacts = <<>>
      BY <1>8 DEF WireHolds
    <3>5. k = 2 => 1 \in 1 .. k
      OBVIOUS
    <3>6. k > 0 => k \in 1 .. k
      OBVIOUS
    <3> QED BY <1>4, <3>3, <3>4, <3>5, <3>6
  <2>3. ASSUME NEW i \in 1 .. (n + m) - a
        PROVE  wire'[k + i] = ArtifactUpdate(log[a + i])
    <3>1. CASE i <= n - a
      <4>1. i \in 1 .. n - a /\ k + i \in 1 .. Len(wire) /\ a + i \in 1 .. n
        BY <1>6, <1>10, <3>1
      <4> QED BY <1>6, <1>10, <1>11, <4>1
    <3>2. CASE i > n - a
      <4> DEFINE j == i - (n - a)
      <4>1. j \in 1 .. m /\ k + i = Len(wire) + j /\ a + i = n + j
        BY <1>6, <1>10, <3>2
      <4> HIDE DEF j
      <4>2. j \in 1 .. Len(more) /\ more[j] = ArtifactUpdate(parts[j])
        BY <1>2, <1>6, <1>7, <4>1
      <4>3. wire'[Len(wire) + j] = more[j]
        BY <1>11, <4>2
      <4>4. log[n + j] = parts[j]
        BY <1>6, <4>1
      <4> QED BY <4>1, <4>2, <4>3, <4>4
    <3> QED BY <1>6, <3>1, <3>2
  <2>4. Ending' = 1 => wire'[Len(wire')] = StatusUpdate(state)
    <3>1. CASE state # "working"
      <4>1. Len(more) \in 1 .. Len(more) /\ more[Len(more)] = StatusUpdate(state)
        BY <1>2, <1>6, <1>7, <3>1
      <4> QED BY <1>11, <4>1
    <3> QED BY <1>9, <3>1
  <2>5. IF k = 2 THEN task' = NoTask
        ELSE /\ task'.context # 0 /\ task'.notes = <<>>
             /\ task'.state = IF k = 1 THEN "submitted" ELSE "working"
    BY <1>4, <1>8 DEF WireHolds
  <2>6. \A i \in 1 .. Ahead' : wire'[k + i] = ArtifactUpdate(hub'.log[Len(artifacts') + i])
    BY <1>4, <1>7, <1>9, <2>3
  <2> QED BY <1>5, <2>1, <2>2, <2>4, <2>5, <2>6 DEF WireHolds
<1>13. /\ Len(artifacts') <= Len(hub'.log)
       /\ \A i \in 1 .. Len(artifacts') : artifacts'[i] = hub'.log[i]
  BY <1>4, <1>6, <1>7 DEF WireInv
<1>14. /\ hub'.context # 0 /\ hub'.state \in {"working"} \cup StopsReading
       /\ result' = NoResult /\ ~result'.whole
  BY <1>1, <1>4, <1>5 DEF WireInv, NoResult
<1> QED BY <1>12, <1>13, <1>14 DEF WireInv

LEMMA ReadsWire ==
  ASSUME TypeInv, WireInv, ReadUpdate
  PROVE  WireInv'
<1> DEFINE a == Len(artifacts)
           n == Len(hub.log)
<1>1. /\ place = "streaming" /\ wire' = Tail(wire) /\ UNCHANGED hub
      /\ ReadsTask \/ ReadsStart \/ ReadsPart \/ ReadsEnd
  BY ReadCases
<1>2. /\ a \in Nat /\ n \in Nat /\ a <= n /\ wire \in Seq(Update)
      /\ \A i \in 1 .. a : artifacts[i] = hub.log[i]
  BY Shapes DEF WireInv
<1>3. /\ hub.context # 0 /\ hub.state \in {"working"} \cup StopsReading
      /\ result = NoResult /\ ~result.whole
  BY <1>1 DEF WireInv, NoResult
<1>4. a = Len(artifacts) /\ n = Len(hub.log)
  OBVIOUS
<1> HIDE DEF a, n
<1>5. Ahead = n - a /\ Ending \in {0, 1}
  BY <1>4 DEF Ahead, Ending
<1>6. ASSUME NEW k \in 1 .. 2, NEW m \in 0 .. 1, k = m + 1, WireHolds(k)
      PROVE  /\ Len(Tail(wire)) = m + Ahead + Ending
             /\ k = 2 => Tail(wire)[1] = StatusUpdate("working")
             /\ \A i \in 1 .. Ahead : Tail(wire)[m + i] = ArtifactUpdate(hub.log[a + i])
             /\ Ending = 1 => Tail(wire)[m + Ahead + Ending] = StatusUpdate(hub.state)
             /\ artifacts = <<>>
  <2>1. Len(wire) = k + Ahead + Ending /\ Ahead \in Nat /\ artifacts = <<>>
    BY <1>2, <1>5, <1>6 DEF WireHolds
  <2>2. /\ Len(Tail(wire)) = Len(wire) - 1
        /\ \A i \in 1 .. Len(wire) - 1 : Tail(wire)[i] = wire[i + 1]
    BY <1>2, <1>5, <2>1, Tailed
  <2>3. k = 2 => Tail(wire)[1] = StatusUpdate("working")
    BY <1>5, <1>6, <2>1, <2>2 DEF WireHolds
  <2>4. ASSUME NEW i \in 1 .. Ahead
        PROVE  Tail(wire)[m + i] = ArtifactUpdate(hub.log[a + i])
    <3>1. m + i \in 1 .. Len(wire) - 1 /\ (m + i) + 1 = k + i
      BY <1>5, <1>6, <2>1
    <3>2. wire[k + i] = ArtifactUpdate(hub.log[a + i])
      BY <1>4, <1>6 DEF WireHolds
    <3> QED BY <2>2, <3>1, <3>2
  <2>5. ASSUME Ending = 1
        PROVE  Tail(wire)[m + Ahead + Ending] = StatusUpdate(hub.state)
    <3>1. /\ m + Ahead + Ending \in 1 .. Len(wire) - 1
          /\ (m + Ahead + Ending) + 1 = Len(wire)
      BY <1>6, <2>1, <2>5
    <3>2. wire[Len(wire)] = StatusUpdate(hub.state)
      BY <1>6, <2>5 DEF WireHolds
    <3> QED BY <2>2, <3>1, <3>2
  <2>6. Len(Tail(wire)) = m + Ahead + Ending
    <3> HIDE DEF Ahead, Ending
    <3>1. Ending \in Nat
      BY <1>5
    <3> QED BY <1>6, <2>1, <2>2, <3>1
  <2>7. artifacts = <<>>
    BY <2>1
  <2>8. \A i \in 1 .. Ahead : Tail(wire)[m + i] = ArtifactUpdate(hub.log[a + i])
    BY <2>4
  <2> QED BY <2>3, <2>5, <2>6, <2>7, <2>8
<1>7. ASSUME ReadsTask PROVE WireInv'
  <2>1. /\ WireHolds(2) /\ UNCHANGED <<artifacts, result, place, hub>>
        /\ task' = [context |-> hub.context, state |-> "submitted", notes |-> <<>>]
    BY <1>1, <1>7 DEF ReadsTask, ReadTask
  <2>2. Ahead' = Ahead /\ Ending' = Ending
    BY <2>1 DEF Ahead, Ending
  <2>3. /\ Len(Tail(wire)) = 1 + Ahead + Ending
        /\ Tail(wire)[1] = StatusUpdate("working")
        /\ \A i \in 1 .. Ahead : Tail(wire)[1 + i] = ArtifactUpdate(hub.log[a + i])
        /\ Ending = 1 => Tail(wire)[1 + Ahead + Ending] = StatusUpdate(hub.state)
        /\ artifacts = <<>>
    <3>1. 2 = 1 + 1 /\ 2 \in 1 .. 2 /\ 1 \in 0 .. 1
      OBVIOUS
    <3> QED BY <1>6, <2>1, <3>1
  <2>4. Ending \in Nat /\ Ahead \in Nat
    BY <1>2, <1>5
  <2>5. task'.context # 0 /\ task'.notes = <<>> /\ task'.state = "submitted"
    BY <1>3, <2>1
  <2>6. WireHolds(1)'
    BY <1>1, <1>4, <2>1, <2>2, <2>3, <2>4, <2>5 DEF WireHolds
  <2> QED BY <1>1, <1>2, <1>3, <1>4, <2>1, <2>6 DEF WireInv
<1>8. ASSUME ReadsStart PROVE WireInv'
  <2>1. /\ WireHolds(1) /\ UNCHANGED <<artifacts, result, place, hub>>
        /\ task' = Applied(task, "working")
    BY <1>1, <1>8 DEF ReadsStart
  <2>2. task.context # 0 /\ task.notes = <<>>
    BY <2>1 DEF WireHolds
  <2>3. "working" \in HubState /\ "working" \notin Noted
    BY DEF HubState, Noted
  <2>4. task'.context # 0 /\ task'.state = "working" /\ task'.notes = <<>>
    BY <2>1, <2>2, <2>3, AppliedTyped, Shapes
  <2>5. Ahead' = Ahead /\ Ending' = Ending
    BY <2>1 DEF Ahead, Ending
  <2>6. /\ Len(Tail(wire)) = 0 + Ahead + Ending
        /\ \A i \in 1 .. Ahead : Tail(wire)[0 + i] = ArtifactUpdate(hub.log[a + i])
        /\ Ending = 1 => Tail(wire)[0 + Ahead + Ending] = StatusUpdate(hub.state)
    <3>1. 1 = 0 + 1 /\ 1 \in 1 .. 2 /\ 0 \in 0 .. 1
      OBVIOUS
    <3> QED BY <1>6, <2>1, <3>1
  <2>7. Ending \in Nat /\ Ahead \in Nat
    BY <1>2, <1>5
  <2>8. WireHolds(0)'
    BY <1>1, <1>4, <2>1, <2>4, <2>5, <2>6, <2>7 DEF WireHolds
  <2> QED BY <1>1, <1>2, <1>3, <1>4, <2>1, <2>8 DEF WireInv
<1>9. ASSUME ReadsPart PROVE WireInv'
  <2> DEFINE p == hub.log[a + 1]
  <2>1. /\ WireHolds(0) /\ a < n /\ artifacts' = Append(artifacts, p)
        /\ UNCHANGED <<task, result, place, hub>>
    BY <1>1, <1>4, <1>9 DEF ReadsPart
  <2>2. a + 1 \in 1 .. n
    BY <1>2, <2>1
  <2>3. p \in Part /\ artifacts \in Seq(Part) /\ p = hub.log[a + 1]
    BY <1>4, <2>2, Shapes
  <2> HIDE DEF p
  <2>4. /\ Len(artifacts') = a + 1 /\ artifacts'[a + 1] = p
        /\ \A i \in 1 .. a : artifacts'[i] = artifacts[i]
    BY <1>4, <2>1, <2>3, Appended
  <2>5. \A i \in 1 .. a + 1 : artifacts'[i] = hub.log[i]
    BY <1>2, <2>3, <2>4
  <2>6. /\ Len(wire) = Ahead + Ending /\ Ahead \in Nat /\ Ahead > 0
        /\ \A i \in 1 .. Ahead : wire[0 + i] = ArtifactUpdate(hub.log[a + i])
        /\ Ending = 1 => wire[Len(wire)] = StatusUpdate(hub.state)
        /\ task.context # 0 /\ task.notes = <<>> /\ task.state = "working"
    <3>1. /\ Len(wire) = 0 + Ahead + Ending
          /\ \A i \in 1 .. Ahead : wire[0 + i] = ArtifactUpdate(hub.log[a + i])
          /\ Ending = 1 => wire[Len(wire)] = StatusUpdate(hub.state)
      BY <1>4, <2>1 DEF WireHolds
    <3>2. task.context # 0 /\ task.notes = <<>> /\ task.state = "working"
      BY <2>1 DEF WireHolds
    <3>3. Ahead \in Nat /\ Ahead > 0 /\ Ending \in Nat
      BY <1>2, <1>5, <2>1
    <3>4. Len(wire) = Ahead + Ending
      BY <3>1, <3>3
    <3> QED BY <3>1, <3>2, <3>3, <3>4
  <2>7. /\ Len(wire') = Len(wire) - 1
        /\ \A i \in 1 .. Len(wire) - 1 : wire'[i] = wire[i + 1]
    BY <1>1, <1>2, <1>5, <2>6, Tailed
  <2>8. Ahead' = Ahead - 1 /\ Ending' = Ending
    BY <1>2, <1>4, <1>5, <2>1, <2>4 DEF Ahead, Ending
  <2>9. \A i \in 1 .. Ahead' : wire'[0 + i] = ArtifactUpdate(hub'.log[Len(artifacts') + i])
    <3>1. ASSUME NEW i \in 1 .. Ahead - 1
          PROVE  wire'[i] = ArtifactUpdate(hub.log[(a + 1) + i])
      <4>1. i \in 1 .. Len(wire) - 1 /\ i + 1 \in 1 .. Ahead /\ 0 + (i + 1) = i + 1
            /\ a + (i + 1) = (a + 1) + i
        BY <1>2, <1>5, <2>6
      <4>2. wire[0 + (i + 1)] = ArtifactUpdate(hub.log[a + (i + 1)])
        BY <2>6, <4>1
      <4> QED BY <2>7, <4>1, <4>2
    <3>2. \A i \in 1 .. Ahead - 1 : 0 + i = i
      BY <2>6
    <3> QED BY <2>1, <2>4, <2>8, <3>1, <3>2
  <2>10. Ending' = 1 => wire'[Len(wire')] = StatusUpdate(hub'.state)
    <3>1. ASSUME Ending = 1 PROVE wire'[Len(wire')] = StatusUpdate(hub.state)
      <4>1. Len(wire) - 1 \in 1 .. Len(wire) - 1 /\ (Len(wire) - 1) + 1 = Len(wire)
        BY <2>6, <3>1
      <4> QED BY <2>6, <2>7, <3>1, <4>1
    <3> QED BY <2>1, <2>8, <3>1
  <2>11. Len(wire') = 0 + Ahead' + Ending'
    BY <1>5, <2>6, <2>7, <2>8
  <2>12. WireHolds(0)'
    BY <2>1, <2>6, <2>9, <2>10, <2>11 DEF WireHolds
  <2> QED BY <1>1, <1>2, <1>3, <1>4, <2>1, <2>2, <2>4, <2>5, <2>12 DEF WireInv
<1>10. ASSUME ReadsEnd PROVE WireInv'
  <2>1. /\ Len(artifacts) = Len(hub.log) /\ UNCHANGED <<artifacts, hub>>
        /\ \E t \in Copy : Conclude(t, TRUE)
    BY <1>1, <1>10 DEF ReadsEnd
  <2>2. place' # "streaming"
    BY <2>1, ConcludeFacts, Shapes DEF ConcludesWith
  <2> QED BY <1>2, <1>4, <2>1, <2>2 DEF WireInv
<1> QED BY <1>1, <1>7, <1>8, <1>9, <1>10

LEMMA SendWire ==
  ASSUME TypeInv, NEW context \in Context, Send(context)
  PROVE  WireInv'
<1> DEFINE used == IF context # 0 THEN context ELSE Len(sends) + 1
<1>1. /\ hub' = [context |-> used, state |-> "working", log |-> <<>>]
      /\ place' = "streaming" /\ task' = NoTask /\ artifacts' = <<>> /\ result' = NoResult
      /\ wire' = <<TaskUpdate, StatusUpdate("working")>>
  BY DEF Send
<1>2. used # 0
  BY Shapes DEF Context
<1> HIDE DEF used
<1>3. "working" \notin StopsReading
  BY DEF StopsReading
<1>4. Ahead' = 0 /\ Ending' = 0
  BY <1>1, <1>3 DEF Ahead, Ending
<1>5. /\ Len(wire') = 2 /\ wire'[1] = TaskUpdate /\ wire'[2] = StatusUpdate("working")
  BY <1>1
<1>6. WireHolds(2)'
  BY <1>1, <1>4, <1>5 DEF WireHolds
<1>7. Len(artifacts') = 0 /\ Len(hub'.log) = 0 /\ hub'.context # 0 /\ hub'.state = "working"
  BY <1>1, <1>2
<1> QED BY <1>1, <1>6, <1>7 DEF WireInv

\* Once the stream is over, only what it collected is left to say of it.
LEMMA QuietWire ==
  ASSUME TypeInv, WireInv, place' # "streaming", UNCHANGED <<hub, artifacts>>,
         result' = result \/ ~result'.whole
  PROVE  WireInv'
  BY DEF WireInv

LEMMA WireStep ==
  ASSUME TypeInv, ContextInv, WireInv, [Next]_vars
  PROVE  WireInv'
<1>1. ASSUME HubStep PROVE WireInv'
  <2>1. PICK state \in HubState, parts \in Seq(Part) : HubAdds(state, parts)
    BY <1>1, HubStepAdds
  <2> QED BY <2>1, HubAddsWire
<1>2. ASSUME ReadUpdate PROVE WireInv'
  BY <1>2, ReadsWire
<1>3. ASSUME StreamEnds PROVE WireInv'
  <2>1. Conclude(task, FALSE) /\ UNCHANGED <<artifacts, hub>> /\ task \in Copy
    BY <1>3, Shapes DEF StreamEnds
  <2>2. PICK outcome, calls, output : ConcludesWith(task, FALSE, outcome, calls, output)
    BY <2>1, ConcludeFacts, Shapes
  <2>3. place' # "streaming" /\ ~result'.whole
    BY <2>2 DEF ConcludesWith
  <2> QED BY <2>1, <2>3, QuietWire
<1>4. ASSUME StreamRaises \/ Interrupt \/ StartFails \/ PromptAbandoned
             \/ StartChat \/ ChatExits \/ WidgetCancelled
      PROVE  WireInv'
  <2>1. PICK p, c, x, n : Onward(p, c, x, n) /\ p # "streaming"
    BY <1>4, CommandSteps
  <2>2. place' # "streaming" /\ UNCHANGED <<hub, artifacts, result>>
    BY <2>1 DEF Onward
  <2> QED BY <2>2, QuietWire
<1>5. ASSUME DoSends PROVE WireInv'
  BY <1>5, SendWire, ContextTyped DEF DoSends, Context
<1>6. ASSUME ChatSends \/ Decide PROVE WireInv'
  <2>1. ctx \in Context
    BY Shapes
  <2> QED BY <1>6, <2>1, SendWire DEF ChatSends, Decide
<1>7. ASSUME UNCHANGED vars PROVE WireInv'
  BY <1>7 DEF vars, WireInv, WireHolds, Ahead, Ending
<1> QED BY <1>1, <1>2, <1>3, <1>4, <1>5, <1>6, <1>7 DEF Next

LEMMA WireAtStart ==
  ASSUME Init
  PROVE  WireInv
  BY DEF Init, WireInv, NoHub, NoResult

-----------------------------------------------------------------------------
(* The log.                                                                *)

LEMMA PartAdds ==
  ASSUME NEW log \in Seq(Part), NEW p \in Part
  PROVE  \A kinds : OfKind(Append(log, p), kinds) =
           IF p.kind \in kinds THEN Append(OfKind(log, kinds), p) ELSE OfKind(log, kinds)
  BY OfKindAppend

LEMMA AppendIsJoined ==
  ASSUME NEW P, NEW s \in Seq(P), NEW a \in P
  PROVE  s \o <<a>> = Append(s, a) /\ s \o <<>> = s
  OBVIOUS

LEMMA AtMostOne ==
  ASSUME NEW x, NEW s, s = <<>> \/ s = <<x>>
  PROVE  Len(s) <= 1
<1>1. Len(<<>>) = 0
  OBVIOUS
<1>2. Len(<<x>>) = 1
  OBVIOUS
<1>3. CASE s = <<>>
  BY <1>1, <1>3
<1>4. CASE s = <<x>>
  BY <1>2, <1>4
<1> QED BY <1>3, <1>4

LEMMA LogAdds ==
  ASSUME TypeInv, LogInv, NEW state, NEW parts, HubAdds(state, parts)
  PROVE  LogInv'
<1> DEFINE log == hub.log
           Texts(l) == OfKind(l, {"text"})
           Datas(l) == OfKind(l, {"data"})
           Both(l) == OfKind(l, {"text", "data"})
           Deferred(l) == OfKind(l, {"deferred"})
           Sound(l) == Texts(l) = <<>> => Both(l) = Datas(l)
<1>1. hub.state = "working" /\ log \in Seq(Part) /\ parts \in Seq(Part)
  BY Shapes DEF HubAdds
<1>2. hub'.state = state /\ hub'.log = log \o parts
  BY Shapes DEF HubAdds, Hub
<1>3. Datas(log) = <<>> /\ Sound(log)
  BY <1>1 DEF LogInv
<1>4. CASE state = "working"
  <2>1. PICK p \in Part : p.kind \in Streamed \cup {"deferred"} /\ parts = <<p>>
    BY <1>4 DEF HubAdds
  <2>2. hub'.log = Append(log, p)
    BY <1>1, <1>2, <2>1, AppendIsJoined
  <2>3. /\ Texts(hub'.log) = IF p.kind \in {"text"} THEN Append(Texts(log), p) ELSE Texts(log)
        /\ Datas(hub'.log) = IF p.kind \in {"data"} THEN Append(Datas(log), p) ELSE Datas(log)
        /\ Both(hub'.log) = IF p.kind \in {"text", "data"} THEN Append(Both(log), p)
                                                           ELSE Both(log)
    <3>1. \A kinds : OfKind(Append(log, p), kinds) =
            IF p.kind \in kinds THEN Append(OfKind(log, kinds), p) ELSE OfKind(log, kinds)
      BY <1>1, PartAdds
    <3> QED BY <2>2, <3>1
  <2>4. p.kind # "data"
    BY <2>1 DEF Streamed
  <2>5. Texts(log) \in Seq(Part)
    BY <1>1, OfKindTyped
  <2> HIDE DEF Texts, Datas, Both
  <2>6. Datas(hub'.log) = <<>>
    BY <1>3, <2>3, <2>4
  <2>7. Sound(hub'.log)
    <3>1. CASE p.kind = "text"
      <4>1. Texts(hub'.log) # <<>>
        BY <2>3, <2>5, <3>1
      <4> QED BY <4>1
    <3>2. CASE p.kind # "text"
      BY <1>3, <2>3, <2>4, <3>2
    <3> QED BY <3>1, <3>2
  <2> QED BY <1>2, <1>4, <2>6, <2>7 DEF LogInv, Texts, Datas, Both
<1>5. CASE parts = <<>>
  <2>1. hub'.log = log
    BY <1>1, <1>2, <1>5, AppendIsJoined
  <2>2. state = "input_required" => Deferred(log) # <<>>
    BY DEF HubAdds
  <2> QED BY <1>2, <1>3, <2>1, <2>2 DEF LogInv
<1>6. CASE state = "completed" /\ parts \in {<<Closing>>, <<Closing, Data>>}
  <2> DEFINE one == Append(log, Closing)
             two == Append(one, Data)
  <2>1. Closing \in Part /\ Data \in Part /\ Closing.kind = "closing" /\ Data.kind = "data"
    BY DEF Closing, Data, Part
  <2>2. one \in Seq(Part) /\ two \in Seq(Part)
    BY <1>1, <2>1
  <2>3. hub'.log \in {one, two}
    <3>1. log \o <<Closing>> = one
      BY <1>1, <2>1, AppendIsJoined
    <3>2. log \o <<Closing, Data>> = two
      <4>1. <<Closing, Data>> \in Seq(Part) /\ Len(<<Closing, Data>>) = 2
            /\ <<Closing, Data>>[1] = Closing /\ <<Closing, Data>>[2] = Data
        BY <2>1
      <4> DEFINE l == log \o <<Closing, Data>>
                 n == Len(log)
      <4>2. /\ l \in Seq(Part) /\ Len(l) = n + 2 /\ n \in Nat
            /\ \A i \in 1 .. n : l[i] = log[i]
            /\ l[n + 1] = Closing /\ l[n + 2] = Data
        BY <1>1, <4>1, Concatenated
      <4>3. /\ Len(two) = n + 2 /\ \A i \in 1 .. n : two[i] = log[i]
            /\ two[n + 1] = Closing /\ two[n + 2] = Data
        BY <1>1, <2>1, <2>2, Appended
      <4> HIDE DEF l, two, n
      <4>4. l = two
        BY <2>2, <4>2, <4>3
      <4> QED BY <4>4 DEF l
    <3> QED BY <1>2, <1>6, <3>1, <3>2
  <2>4. /\ Texts(one) = Texts(log) /\ Datas(one) = Datas(log) /\ Both(one) = Both(log)
    <3>1. \A kinds : OfKind(one, kinds) = IF Closing.kind \in kinds
                        THEN Append(OfKind(log, kinds), Closing) ELSE OfKind(log, kinds)
      BY <1>1, <2>1, PartAdds
    <3> HIDE DEF one
    <3> QED BY <2>1, <3>1
  <2>5. /\ Texts(two) = Texts(one) /\ Datas(two) = Append(Datas(one), Data)
        /\ Both(two) = Append(Both(one), Data)
    <3> HIDE DEF one
    <3>1. \A kinds : OfKind(two, kinds) = IF Data.kind \in kinds
                        THEN Append(OfKind(one, kinds), Data) ELSE OfKind(one, kinds)
      BY <2>1, <2>2, PartAdds
    <3> HIDE DEF two
    <3> QED BY <2>1, <3>1
  <2> HIDE DEF Texts, Datas, Both, one, two
  <2>6. Sound(hub'.log) /\ Datas(hub'.log) \in {<<>>, Append(<<>>, Data)}
    BY <1>3, <2>3, <2>4, <2>5
  <2>7. Len(Datas(hub'.log)) <= 1
    <3>1. Len(<<>>) = 0 /\ Append(<<>>, Data) = <<Data>> /\ Len(<<Data>>) = 1
      OBVIOUS
    <3>2. Datas(hub'.log) = <<>> \/ Datas(hub'.log) = <<Data>>
      BY <2>6, <3>1
    <3> QED BY <3>2, AtMostOne
  <2> QED BY <1>2, <1>6, <2>6, <2>7 DEF LogInv, Texts, Datas, Both
<1> QED BY <1>4, <1>5, <1>6 DEF HubAdds

LEMMA LogEmpty ==
  ASSUME hub'.log = <<>>, hub'.state \in {"none", "working"}
  PROVE  LogInv'
<1>1. \A kinds : OfKind(<<>>, kinds) = <<>>
  BY OfKindEmpty
<1>2. Len(<<>>) = 0
  OBVIOUS
<1> QED BY <1>1, <1>2 DEF LogInv

LEMMA LogStep ==
  ASSUME TypeInv, LogInv, [Next]_vars
  PROVE  LogInv'
<1>1. ASSUME HubStep PROVE LogInv'
  <2>1. PICK state \in HubState, parts \in Seq(Part) : HubAdds(state, parts)
    BY <1>1, HubStepAdds
  <2> QED BY <2>1, LogAdds
<1>2. ASSUME UNCHANGED hub PROVE LogInv'
  BY <1>2 DEF LogInv
<1>3. ASSUME NEW context, Send(context) PROVE LogInv'
  <2>1. hub'.log = <<>> /\ hub'.state = "working"
    BY <1>3 DEF Send
  <2> QED BY <2>1, LogEmpty
<1>4. StreamRaises \/ Interrupt \/ StartFails \/ PromptAbandoned \/ StartChat \/ ChatExits
         \/ WidgetCancelled => UNCHANGED hub
  <2>1. ASSUME StreamRaises \/ Interrupt \/ StartFails \/ PromptAbandoned
               \/ StartChat \/ ChatExits \/ WidgetCancelled
        PROVE  UNCHANGED hub
    <3>1. PICK p, c, x, n : Onward(p, c, x, n)
      BY <2>1, CommandSteps
    <3> QED BY <3>1 DEF Onward
  <2> QED BY <2>1
<1>5. ReadUpdate \/ StreamEnds \/ UNCHANGED vars => UNCHANGED hub
  BY DEF ReadUpdate, StreamEnds, vars
<1> QED BY <1>1, <1>2, <1>3, <1>4, <1>5 DEF Next, DoSends, ChatSends, Decide

LEMMA LogAtStart ==
  ASSUME Init
  PROVE  LogInv
<1>1. \A kinds : OfKind(<<>>, kinds) = <<>>
  BY OfKindEmpty
<1>2. Len(<<>>) = 0
  OBVIOUS
<1> QED BY <1>1, <1>2 DEF LogInv, Init, NoHub

-----------------------------------------------------------------------------
(* The screen.                                                             *)

LEMMA LinesTyped ==
  ASSUME NEW v \in View
  PROVE  /\ LinesOf(v) \in Seq(Seq(Id)) /\ HeldOf(v) \in Seq(Id)
         /\ FlattenSeq(LinesOf(v)) \in Seq(Id) /\ Total(v) \in Seq(Id)
         /\ v.screen \in Seq(Line) /\ v.buffer \in Seq(Id)
<1>1. v.screen \in Seq(Line) /\ v.buffer \in Seq(Id)
  BY DEF View
<1>2. LinesOf(v) \in Seq(Seq(Id))
  <2> DEFINE n == Len(v.screen)
  <2>1. n \in Nat /\ DOMAIN v.screen = 1 .. n /\ \A i \in 1 .. n : v.screen[i] \in Line
    BY <1>1
  <2>2. \A i \in 1 .. n : v.screen[i].ids \in Seq(Id)
    BY <2>1 DEF Line
  <2>3. LinesOf(v) = [i \in 1 .. n |-> v.screen[i].ids]
    BY <2>1 DEF LinesOf
  <2> HIDE DEF n
  <2> QED BY <2>1, <2>2, <2>3
<1>3. HeldOf(v) \in Seq(Id)
  BY <1>1 DEF HeldOf
<1>4. FlattenSeq(LinesOf(v)) \in Seq(Id)
  BY <1>2, FlattenTyped
<1> QED BY <1>1, <1>2, <1>3, <1>4 DEF Total

\* One line more.
LEMMA LineAdded ==
  ASSUME NEW v \in View, NEW w \in View, NEW l \in Line, w.screen = Append(v.screen, l)
  PROVE  FlattenSeq(LinesOf(w)) = FlattenSeq(LinesOf(v)) \o l.ids
<1> DEFINE n == Len(v.screen)
<1>1. /\ v.screen \in Seq(Line) /\ n \in Nat /\ DOMAIN v.screen = 1 .. n
      /\ Len(w.screen) = n + 1 /\ DOMAIN w.screen = 1 .. n + 1
      /\ w.screen[n + 1] = l /\ \A i \in 1 .. n : w.screen[i] = v.screen[i]
  BY LinesTyped
<1>2. LinesOf(v) \in Seq(Seq(Id)) /\ LinesOf(w) \in Seq(Seq(Id)) /\ l.ids \in Seq(Id)
  BY LinesTyped DEF Line
<1>3. /\ LinesOf(v) = [i \in 1 .. n |-> v.screen[i].ids]
      /\ LinesOf(w) = [i \in 1 .. n + 1 |-> w.screen[i].ids]
  BY <1>1 DEF LinesOf
<1> HIDE DEF n
<1>4. LinesOf(w) = Append(LinesOf(v), l.ids)
  <2> DEFINE right == Append(LinesOf(v), l.ids)
  <2>1. Len(LinesOf(v)) = n /\ \A i \in 1 .. n : LinesOf(v)[i] = v.screen[i].ids
    BY <1>1, <1>2, <1>3
  <2>2. /\ right \in Seq(Seq(Id)) /\ Len(right) = n + 1 /\ right[n + 1] = l.ids
        /\ \A i \in 1 .. n : right[i] = v.screen[i].ids
    BY <1>2, <2>1, Appended
  <2>3. Len(LinesOf(w)) = n + 1 /\ \A i \in 1 .. n + 1 : LinesOf(w)[i] = w.screen[i].ids
    BY <1>1, <1>2, <1>3
  <2> HIDE DEF right
  <2>4. ASSUME NEW i \in 1 .. n + 1 PROVE LinesOf(w)[i] = right[i]
    <3>1. LinesOf(w)[i] = w.screen[i].ids
      BY <2>3
    <3>2. CASE i = n + 1
      BY <1>1, <2>2, <3>1, <3>2
    <3>3. CASE i # n + 1
      <4>1. i \in 1 .. n
        BY <1>1, <3>3
      <4> QED BY <1>1, <2>2, <3>1, <4>1
    <3> QED BY <3>2, <3>3
  <2>5. LinesOf(w) = right
    BY <1>2, <2>2, <2>3, <2>4
  <2> QED BY <2>5 DEF right
<1> QED BY <1>2, <1>4, FlattenAppend

LEMMA SameLines ==
  ASSUME NEW v, NEW w, w.screen = v.screen
  PROVE  FlattenSeq(LinesOf(w)) = FlattenSeq(LinesOf(v))
  BY DEF LinesOf

LEMMA FlushedTotal ==
  ASSUME NEW v \in View
  PROVE  /\ FlattenSeq(LinesOf(Flushed(v))) = Total(v)
         /\ Total(Flushed(v)) = Total(v)
<1> DEFINE w == Flushed(v)
<1>1. /\ w \in View /\ w.buffer = <<>>
      /\ w.screen = IF v.buffer # <<>> /\ ShowThinking
                      THEN Append(v.screen, [kind |-> "thinking", ids |-> v.buffer])
                      ELSE v.screen
  BY FlushedTyped
<1> HIDE DEF w
<1>2. /\ FlattenSeq(LinesOf(v)) \in Seq(Id) /\ v.buffer \in Seq(Id)
      /\ FlattenSeq(LinesOf(w)) \in Seq(Id)
  BY <1>1, LinesTyped
<1>3. FlattenSeq(LinesOf(w)) = Total(v)
  <2>1. CASE v.buffer # <<>> /\ ShowThinking
    <3> DEFINE l == [kind |-> "thinking", ids |-> v.buffer]
    <3>1. l \in Line /\ l.ids = v.buffer
      BY <1>2 DEF Line, Kind, Streamed
    <3>2. w.screen = Append(v.screen, l)
      BY <1>1, <2>1
    <3> HIDE DEF l
    <3>3. FlattenSeq(LinesOf(w)) = FlattenSeq(LinesOf(v)) \o v.buffer
      BY <1>1, <3>1, <3>2, LineAdded
    <3> QED BY <2>1, <3>3 DEF Total, HeldOf
  <2>2. CASE ~(v.buffer # <<>> /\ ShowThinking)
    <3>1. FlattenSeq(LinesOf(w)) = FlattenSeq(LinesOf(v))
      BY <1>1, <2>2, SameLines
    <3>2. HeldOf(v) = <<>>
      BY <2>2 DEF HeldOf
    <3>3. FlattenSeq(LinesOf(v)) \o <<>> = FlattenSeq(LinesOf(v))
      BY <1>2
    <3> QED BY <3>1, <3>2, <3>3 DEF Total
  <2> QED BY <2>1, <2>2
<1>4. Total(w) = FlattenSeq(LinesOf(w))
  <2>1. HeldOf(w) = <<>>
    BY <1>1 DEF HeldOf
  <2>2. FlattenSeq(LinesOf(w)) \o <<>> = FlattenSeq(LinesOf(w))
    BY <1>2
  <2> QED BY <2>1, <2>2 DEF Total
<1> QED BY <1>3, <1>4 DEF w

\* Text and order of what is rendered: a part is shown or held back once.
LEMMA RenderedTotal ==
  ASSUME NEW v \in View, NEW p \in Part
  PROVE  /\ Total(Rendered(v, p)) = IF p.kind \in Kinds THEN Append(Total(v), p.id)
                                                        ELSE Total(v)
         /\ Rendered(v, p).answer = IF p.kind \in {"text"} THEN Append(v.answer, p)
                                                           ELSE v.answer
<1> DEFINE w == Flushed(v)
           r == Rendered(v, p)
<1>1. /\ w \in View /\ w.buffer = <<>> /\ w.answer = v.answer
      /\ FlattenSeq(LinesOf(w)) = Total(v) /\ Total(w) = Total(v)
  BY FlushedTyped, FlushedTotal
<1>2. r \in View /\ p.id \in Id /\ Total(v) \in Seq(Id)
  BY RenderedTyped, PartShown, LinesTyped
<1>3. r = Rendered(v, p) /\ w = Flushed(v)
  OBVIOUS
<1> HIDE DEF w, r
<1>4. CASE p.kind = "text"
  <2>1. r = [w EXCEPT !.answer = Append(@, p)]
    BY <1>3, <1>4 DEF Rendered
  <2>2. r.screen = w.screen /\ r.buffer = w.buffer /\ r.answer = Append(v.answer, p)
    BY <1>1, <2>1 DEF View
  <2>3. Total(r) = Total(w)
    BY <2>2, SameLines DEF Total, HeldOf
  <2>4. p.kind \notin Kinds
    BY <1>4 DEF Kinds
  <2> QED BY <1>1, <1>3, <1>4, <2>2, <2>3, <2>4
<1>5. CASE p.kind = "thinking"
  <2>1. r = [v EXCEPT !.buffer = Append(@, p.id)]
    BY <1>3, <1>5 DEF Rendered
  <2>2. /\ r.screen = v.screen /\ r.buffer = Append(v.buffer, p.id) /\ r.answer = v.answer
    BY <2>1 DEF View
  <2>3. FlattenSeq(LinesOf(r)) = FlattenSeq(LinesOf(v))
    BY <2>2, SameLines
  <2>4. Total(r) = IF ShowThinking THEN Append(Total(v), p.id) ELSE Total(v)
    <3>1. CASE ShowThinking
      <4>1. FlattenSeq(LinesOf(v)) \in Seq(Id) /\ v.buffer \in Seq(Id)
        BY LinesTyped
      <4>2. FlattenSeq(LinesOf(v)) \o Append(v.buffer, p.id)
              = Append(FlattenSeq(LinesOf(v)) \o v.buffer, p.id)
        BY <1>2, <4>1
      <4> QED BY <2>2, <2>3, <3>1, <4>2 DEF Total, HeldOf
    <3>2. CASE ~ShowThinking
      BY <2>3, <3>2 DEF Total, HeldOf
    <3> QED BY <3>1, <3>2
  <2>5. p.kind \in Kinds <=> ShowThinking
    BY <1>5 DEF Kinds
  <2> QED BY <1>3, <1>5, <2>2, <2>4, <2>5
<1>6. CASE p.kind \in {"tool_call", "tool_result"}
  <2> DEFINE l == [kind |-> p.kind, ids |-> <<p.id>>]
  <2>1. r = Printed(w, p)
    BY <1>3, <1>6 DEF Rendered
  <2>2. r.answer = v.answer /\ r.buffer = <<>> /\ r.screen = Append(w.screen, l)
    BY <1>1, <2>1, PrintedTyped
  <2>3. l \in Line /\ l.ids = <<p.id>>
    <3>1. p.kind \in Kind /\ <<p.id>> \in Seq(Id)
      BY <1>2, PartShown DEF Shown
    <3> QED BY <3>1 DEF Line
  <2> HIDE DEF l
  <2>4. FlattenSeq(LinesOf(r)) = Total(v) \o <<p.id>>
    <3>1. w \in View /\ r \in View /\ l \in Line /\ r.screen = Append(w.screen, l)
      BY <1>1, <1>2, <2>2, <2>3
    <3>2. FlattenSeq(LinesOf(r)) = FlattenSeq(LinesOf(w)) \o l.ids
      BY ONLY <3>1, LineAdded
    <3> QED BY <1>1, <2>3, <3>2
  <2>5. Total(r) = Append(Total(v), p.id)
    <3>1. HeldOf(r) = <<>>
      BY <2>2 DEF HeldOf
    <3>2. (Total(v) \o <<p.id>>) \o <<>> = Append(Total(v), p.id)
      <4>1. Total(v) \o <<p.id>> = Append(Total(v), p.id)
        BY <1>2, AppendIsJoined
      <4>2. Append(Total(v), p.id) \in Seq(Id)
        BY <1>2
      <4>3. Append(Total(v), p.id) \o <<>> = Append(Total(v), p.id)
        BY <4>2
      <4> QED BY <4>1, <4>3
    <3> QED BY <2>4, <3>1, <3>2 DEF Total
  <2>6. p.kind \in Kinds /\ p.kind \notin {"text"}
    BY <1>6 DEF Kinds
  <2> QED BY <1>3, <2>2, <2>5, <2>6
<1>7. CASE p.kind \in {"blank_result", "data"}
  <2>1. r = w
    BY <1>3, <1>7 DEF Rendered
  <2>2. p.kind \notin Kinds /\ p.kind \notin {"text"}
    BY <1>7 DEF Kinds
  <2> QED BY <1>1, <1>3, <2>1, <2>2
<1>8. CASE p.kind \in {"deferred", "closing"}
  <2>1. r = v
    BY <1>3, <1>8 DEF Rendered
  <2>2. p.kind \notin Kinds /\ p.kind \notin {"text"}
    BY <1>8 DEF Kinds
  <2> QED BY <1>3, <2>1, <2>2
<1> QED BY <1>4, <1>5, <1>6, <1>7, <1>8, PartKind

LEMMA BlankTotal ==
  /\ Total(Blank) = <<>> /\ Blank.answer = <<>> /\ Blank.buffer = <<>>
  /\ \A kinds : OfKind(<<>>, kinds) = <<>> /\ Ids(OfKind(<<>>, kinds)) = <<>>
<1>1. LinesOf(Blank) = <<>>
  BY DEF LinesOf, Blank
<1>2. HeldOf(Blank) = <<>>
  BY DEF HeldOf, Blank
<1>3. <<>> \o <<>> = <<>>
  OBVIOUS
<1>4. Total(Blank) = <<>>
  BY <1>1, <1>2, <1>3, FlattenEmpty DEF Total
<1>5. ASSUME NEW kinds PROVE OfKind(<<>>, kinds) = <<>> /\ Ids(OfKind(<<>>, kinds)) = <<>>
  <2>1. OfKind(<<>>, kinds) = <<>>
    BY OfKindEmpty
  <2> QED BY <2>1, IdsEmpty
<1>6. Blank.answer = <<>> /\ Blank.buffer = <<>>
  BY DEF Blank
<1> QED BY <1>4, <1>5, <1>6

LEMMA ViewAtStart ==
  ASSUME Init
  PROVE  ViewInv
<1>1. /\ view = Blank /\ artifacts = <<>> /\ place = "start" /\ result = NoResult
  BY DEF Init
<1> QED BY <1>1, BlankTotal DEF ViewInv, NoResult

LEMMA PartsCollected ==
  ASSUME TypeInv, WireInv, ViewInv, place = "streaming", ReadsPart
  PROVE  ViewInv'
<1> DEFINE p == hub.log[Len(artifacts) + 1]
           due == OfKind(artifacts, Kinds)
           said == OfKind(artifacts, {"text"})
<1>1. /\ artifacts' = Append(artifacts, p) /\ view' = Rendered(view, p)
      /\ UNCHANGED <<result, place>>
  BY DEF ReadsPart
<1>2. p \in Part
  <2>1. Len(artifacts) + 1 \in 1 .. Len(hub.log) /\ hub.log \in Seq(Part)
    BY Shapes DEF ReadsPart
  <2> QED BY <2>1
<1> HIDE DEF p
<1>3. artifacts \in Seq(Part) /\ view \in View /\ due \in Seq(Part) /\ said \in Seq(Part)
  BY Shapes, OfKindTyped
<1>4. /\ Total(view) = Ids(due) /\ view.answer = said /\ result = NoResult /\ ~result.whole
  BY DEF ViewInv, WireInv, NoResult
<1>5. /\ OfKind(artifacts', Kinds) = IF p.kind \in Kinds THEN Append(due, p) ELSE due
      /\ OfKind(artifacts', {"text"}) = IF p.kind \in {"text"} THEN Append(said, p) ELSE said
  <2>1. \A kinds : OfKind(Append(artifacts, p), kinds) =
          IF p.kind \in kinds THEN Append(OfKind(artifacts, kinds), p)
                              ELSE OfKind(artifacts, kinds)
    BY <1>2, <1>3, PartAdds
  <2> QED BY <1>1, <2>1
<1>6. /\ Total(view') = IF p.kind \in Kinds THEN Append(Total(view), p.id) ELSE Total(view)
      /\ view'.answer = IF p.kind \in {"text"} THEN Append(view.answer, p) ELSE view.answer
  BY <1>1, <1>2, <1>3, RenderedTotal
<1> HIDE DEF due, said
<1>7. Ids(Append(due, p)) = Append(Ids(due), p.id)
  BY <1>2, <1>3, IdsAppend
<1>8. Total(view') = Ids(OfKind(artifacts', Kinds))
  BY <1>4, <1>5, <1>6, <1>7
<1>9. view'.answer = OfKind(artifacts', {"text"})
  BY <1>4, <1>5, <1>6
<1>10. ~result'.whole
  BY <1>1, <1>4
<1> HIDE DEF Kinds
<1>11. Kinds' = Kinds
  BY DEF Kinds
<1> QED BY <1>8, <1>9, <1>10 DEF ViewInv

LEMMA ClosedTotal ==
  ASSUME NEW v \in View, NEW output \in Shown, NEW calls
  PROVE  Total(Closed(v, output, calls)) = Total(v)
<1> DEFINE w == Closed(v, output, calls)
<1>1. w \in View /\ w.buffer = <<>> /\ w.screen = Flushed(v).screen
  BY ClosedTyped
<1> HIDE DEF w
<1>2. FlattenSeq(LinesOf(w)) = Total(v)
  BY <1>1, SameLines, FlushedTotal
<1>3. HeldOf(w) = <<>>
  BY <1>1 DEF HeldOf
<1>4. Total(v) \o <<>> = Total(v)
  BY LinesTyped
<1>5. Total(w) = Total(v)
  BY <1>2, <1>3, <1>4 DEF Total
<1> QED BY <1>5 DEF w

LEMMA ConcludeView ==
  ASSUME TypeInv, ViewInv, NEW t \in Copy, NEW whole \in BOOLEAN, Conclude(t, whole),
         UNCHANGED artifacts
  PROVE  ViewInv' /\ view'.buffer = <<>>
<1>1. PICK outcome, calls, output : ConcludesWith(t, whole, outcome, calls, output)
  BY ConcludeFacts, Shapes
<1>2. view' = Closed(view, output, calls) /\ output \in Shown /\ place' # "streaming"
  BY <1>1 DEF ConcludesWith
<1>3. Total(view') = Total(view) /\ view'.buffer = <<>>
  BY <1>2, ClosedTyped, ClosedTotal, Shapes
<1> QED BY <1>2, <1>3 DEF ViewInv

LEMMA ViewStep ==
  ASSUME TypeInv, ContextInv, WireInv, ViewInv, [Next]_vars
  PROVE  ViewInv'
<1>1. ASSUME UNCHANGED <<view, artifacts, result>>, place' = "streaming" => place = "streaming"
      PROVE  ViewInv'
  BY <1>1 DEF ViewInv
<1>2. ASSUME HubStep PROVE ViewInv'
  <2>1. PICK state \in HubState, parts \in Seq(Part) : HubAdds(state, parts)
    BY <1>2, HubStepAdds
  <2> QED BY <1>1, <2>1 DEF HubAdds, Reader
<1>3. ASSUME ReadUpdate PROVE ViewInv'
  <2>1. place = "streaming" /\ (ReadsTask \/ ReadsStart \/ ReadsPart \/ ReadsEnd)
    BY <1>3, ReadCases
  <2>2. ASSUME ReadsTask \/ ReadsStart PROVE ViewInv'
    <3>1. UNCHANGED <<view, artifacts, result>>
      BY <2>2 DEF ReadsTask, ReadTask, ReadsStart
    <3> QED BY <1>1, <2>1, <3>1
  <2>3. ASSUME ReadsEnd PROVE ViewInv'
    <3>1. PICK t \in Copy : Conclude(t, TRUE)
      BY <2>3 DEF ReadsEnd
    <3>2. UNCHANGED artifacts
      BY <2>3 DEF ReadsEnd
    <3> QED BY <3>1, <3>2, ConcludeView
  <2> QED BY <2>1, <2>2, <2>3, PartsCollected
<1>4. ASSUME StreamEnds PROVE ViewInv'
  <2>1. Conclude(task, FALSE) /\ UNCHANGED artifacts /\ task \in Copy
    BY <1>4, Shapes DEF StreamEnds
  <2> QED BY <2>1, ConcludeView
<1>5. ASSUME StreamRaises \/ Interrupt \/ StartFails \/ PromptAbandoned
             \/ StartChat \/ ChatExits \/ WidgetCancelled
      PROVE  ViewInv'
  <2>1. PICK p, c, x, n : Onward(p, c, x, n) /\ p # "streaming"
    BY <1>5, CommandSteps
  <2> QED BY <1>1, <2>1 DEF Onward
<1>6. ASSUME NEW context, Send(context) PROVE ViewInv'
  <2>1. view' = Blank /\ artifacts' = <<>> /\ result' = NoResult
    BY <1>6 DEF Send
  <2> QED BY <2>1, BlankTotal DEF ViewInv, NoResult
<1>7. ASSUME UNCHANGED vars PROVE ViewInv'
  BY <1>1, <1>7 DEF vars
<1> QED BY <1>2, <1>3, <1>4, <1>5, <1>6, <1>7 DEF Next, DoSends, ChatSends, Decide

-----------------------------------------------------------------------------
(* The result.                                                             *)

LEMMA AllCollected ==
  ASSUME TypeInv, WireInv, Len(artifacts) = Len(hub.log)
  PROVE  artifacts = hub.log
<1>1. artifacts \in Seq(Part) /\ hub.log \in Seq(Part)
  BY Shapes
<1>2. \A i \in 1 .. Len(artifacts) : artifacts[i] = hub.log[i]
  BY DEF WireInv
<1> QED BY <1>1, <1>2

\* A task that has ended, read to its end: what it leaves in the result.
LEMMA EndTellsAll ==
  ASSUME TypeInv, WireInv, place = "streaming", UNCHANGED hub, ReadsEnd
  PROVE  OutcomeIsTheHubs' /\ artifacts = hub.log
<1>1. PICK t \in Copy : /\ Conclude(t, TRUE)
                        /\ t.context = task.context /\ t.context # 0
                        /\ t.state = hub.state
                        /\ hub.state = "completed" => t.notes = <<>>
  BY DEF ReadsEnd
<1>2. PICK outcome, calls, output : ConcludesWith(t, TRUE, outcome, calls, output)
  BY <1>1, ConcludeFacts, Shapes
<1>3. artifacts = hub.log /\ hub.state \in StopsReading /\ hub.log \in Seq(Part)
  BY AllCollected, Shapes DEF ReadsEnd
<1>4. outcome = hub.state
  BY <1>1, <1>2, <1>3 DEF ConcludesWith, OutcomeOf, StopsReading
<1>5. /\ result'.outcome = outcome /\ result'.calls = calls /\ result'.whole = TRUE
      /\ calls = IF outcome = "input_required" THEN DeferredCalls(artifacts) ELSE <<>>
  BY <1>2 DEF ConcludesWith
<1> DEFINE due == IF hub.state = "input_required" THEN Ids(OfKind(hub.log, {"deferred"}))
                                                  ELSE <<>>
<1>6. ToSet(calls) = ToSet(due) /\ Len(calls) = Len(due)
  <2>1. CASE hub.state = "input_required"
    <3>1. calls = DeferredCalls(hub.log) /\ due = Ids(OfKind(hub.log, {"deferred"}))
      BY <1>3, <1>4, <1>5, <2>1
    <3> QED BY <1>3, <3>1, CallsTyped
  <2>2. CASE hub.state # "input_required"
    BY <1>4, <1>5, <2>2
  <2> QED BY <2>1, <2>2
<1> HIDE DEF due
<1>7. hub' = hub
  OBVIOUS
<1>8. due = IF hub'.state = "input_required" THEN Ids(OfKind(hub'.log, {"deferred"}))
                                             ELSE <<>>
  BY <1>7 DEF due
<1>9. /\ result'.outcome = hub'.state
      /\ ToSet(result'.calls) = ToSet(due) /\ Len(result'.calls) = Len(due)
      /\ result'.whole
  BY <1>4, <1>5, <1>6, <1>7
<1>10. OutcomeIsTheHubs'
  BY <1>8, <1>9 DEF OutcomeIsTheHubs
<1> QED BY <1>3, <1>10

LEMMA OneAlone ==
  ASSUME NEW P, NEW s \in Seq(P), s # <<>>, Len(s) <= 1
  PROVE  Len(s) = 1 /\ s = <<s[1]>>
<1>1. Len(s) = 1
  <2>1. Len(s) \in Nat /\ Len(s) # 0
    BY NoneLeft
  <2> QED BY <2>1
<1>2. s[1] \in P
  BY <1>1
<1> DEFINE t == <<s[1]>>
<1>3. t \in Seq(P) /\ Len(t) = 1 /\ t[1] = s[1]
  BY <1>2
<1> HIDE DEF t
<1>4. s = t
  BY <1>1, <1>3
<1> QED BY <1>1, <1>4 DEF t

\* And what it leaves on the screen.
LEMMA EndShowsAll ==
  ASSUME TypeInv, WireInv, LogInv, ViewInv, place = "streaming", UNCHANGED hub, ReadsEnd
  PROVE  AnswerIsWhole'
<1>1. PICK t \in Copy : /\ Conclude(t, TRUE)
                        /\ t.context = task.context /\ t.context # 0
                        /\ t.state = hub.state
                        /\ hub.state = "completed" => t.notes = <<>>
  BY DEF ReadsEnd
<1>2. PICK outcome, calls, output : ConcludesWith(t, TRUE, outcome, calls, output)
  BY <1>1, ConcludeFacts, Shapes
<1>3. artifacts = hub.log /\ hub.log \in Seq(Part) /\ view \in View /\ hub' = hub
  BY AllCollected, Shapes DEF ReadsEnd
<1> DEFINE texts == OfKind(hub.log, {"text"})
           data  == OfKind(hub.log, {"data"})
           both  == OfKind(hub.log, {"text", "data"})
<1>4. view.answer = texts
  BY <1>3 DEF ViewInv
<1>5. /\ view' = Closed(view, output, calls) /\ output \in Shown
      /\ result'.outcome = outcome /\ outcome = OutcomeOf(t)
      /\ output = IF Known(t) THEN Output(t, artifacts)
                  ELSE [kind |-> "no_response", id |-> 0]
      /\ calls = IF outcome = "input_required" THEN DeferredCalls(artifacts) ELSE <<>>
  BY <1>2 DEF ConcludesWith
<1>6. view'.answer = IF view.answer = <<>> /\ output # Nothing /\ calls = <<>>
                       THEN <<output>> ELSE view.answer
  BY <1>3, <1>5, ClosedTyped
<1>7. /\ data \in Seq(Part) /\ Len(data) <= 1 /\ \A i \in 1 .. Len(data) : data[i].kind = "data"
      /\ texts = <<>> => both = data
  <2>1. data \in Seq({p \in Part : p.kind \in {"data"}}) /\ data \in Seq(Part)
    BY <1>3, OfKindTyped
  <2>2. \A i \in 1 .. Len(data) : data[i].kind = "data"
    <3> HIDE DEF data
    <3> QED BY <2>1, Elements
  <2> QED BY <2>1, <2>2 DEF LogInv
<1>8. Output(t, hub.log) = IF both # <<>> THEN Last(both)
                           ELSE IF t.notes # <<>> THEN [kind |-> Last(t.notes), id |-> 0]
                           ELSE Nothing
  BY DEF Output
<1> HIDE DEF texts, data, both
<1>9. ASSUME texts = <<>>, outcome = "completed"
      PROVE  view'.answer = data
  <2>1. t.state = "completed" /\ t.notes = <<>> /\ calls = <<>>
    BY <1>1, <1>5, <1>9 DEF OutcomeOf
  <2>2. output = IF data # <<>> THEN Last(data) ELSE Nothing
    BY <1>1, <1>3, <1>5, <1>7, <1>8, <1>9, <2>1 DEF Known
  <2>3. CASE data = <<>>
    BY <1>4, <1>6, <1>9, <2>2, <2>3
  <2>4. CASE data # <<>>
    <3>1. Len(data) = 1 /\ data = <<data[1]>>
      BY <1>7, <2>4, OneAlone
    <3>4. data[1].kind = "data"
      BY <1>7, <3>1
    <3>2. output = data[1]
      BY <2>2, <2>4, <3>1 DEF Last
    <3>3. output # Nothing
      BY <3>2, <3>4 DEF Nothing
    <3> QED BY <1>4, <1>6, <1>9, <2>1, <3>1, <3>2, <3>3
  <2> QED BY <2>3, <2>4
<1>10. texts # <<>> => view'.answer = texts
  BY <1>4, <1>6
<1>11. texts = OfKind(hub'.log, {"text"}) /\ data = OfKind(hub'.log, {"data"})
  BY <1>3 DEF texts, data
<1> QED BY <1>5, <1>9, <1>10, <1>11 DEF AnswerIsWhole

\* A result that says less than the hub did says that it failed.
LEMMA BreakFails ==
  ASSUME TypeInv, WireInv, StreamEnds
  PROVE  ResultInv' /\ result'.outcome = "failed"
<1>1. /\ place = "streaming" /\ Conclude(task, FALSE) /\ task \in Copy
  BY Shapes DEF StreamEnds
<1>2. PICK outcome, calls, output : ConcludesWith(task, FALSE, outcome, calls, output)
  BY <1>1, ConcludeFacts, Shapes
<1>3. PICK k \in 0 .. 2 : WireHolds(k)
  BY <1>1 DEF WireInv
<1>4. task.state \in {"none", "submitted", "working"}
  BY <1>3 DEF WireHolds, NoTask
<1>5. outcome = "failed"
  BY <1>2, <1>4 DEF ConcludesWith, OutcomeOf
<1>6. /\ result'.outcome = "failed" /\ ~result'.whole
      /\ place' # "deciding"
  BY <1>2, <1>5 DEF ConcludesWith
<1> QED BY <1>6 DEF ResultInv, OutcomeIsTheHubs, AnswerIsWhole

LEMMA NothingSaid ==
  ASSUME result' = NoResult, place' # "deciding"
  PROVE  ResultInv'
  BY DEF ResultInv, OutcomeIsTheHubs, AnswerIsWhole, NoResult

LEMMA ResultKept ==
  ASSUME ResultInv, UNCHANGED <<hub, result, view>>, place' = "deciding" => place = "deciding"
  PROVE  ResultInv'
  BY DEF ResultInv, OutcomeIsTheHubs, AnswerIsWhole

LEMMA ResultStep ==
  ASSUME TypeInv, WireInv, LogInv, ViewInv, ResultInv, [Next]_vars
  PROVE  ResultInv'
<1>1. ASSUME place = "streaming", UNCHANGED <<result, place>> PROVE ResultInv'
  BY <1>1, NothingSaid DEF WireInv
<1>2. ASSUME HubStep PROVE ResultInv'
  <2>1. PICK state \in HubState, parts \in Seq(Part) : HubAdds(state, parts)
    BY <1>2, HubStepAdds
  <2> QED BY <1>1, <2>1 DEF HubAdds, Reader
<1>3. ASSUME ReadUpdate PROVE ResultInv'
  <2>1. place = "streaming" /\ UNCHANGED hub /\ (ReadsTask \/ ReadsStart \/ ReadsPart \/ ReadsEnd)
    BY <1>3, ReadCases
  <2>2. ASSUME ReadsTask \/ ReadsStart \/ ReadsPart PROVE ResultInv'
    <3>1. UNCHANGED <<result, place>>
      BY <2>2 DEF ReadsTask, ReadTask, ReadsStart, ReadsPart
    <3> QED BY <1>1, <2>1, <3>1
  <2>3. ASSUME ReadsEnd PROVE ResultInv'
    <3>1. OutcomeIsTheHubs' /\ AnswerIsWhole'
      BY <2>1, <2>3, EndTellsAll, EndShowsAll
    <3>2. PICK t \in Copy : Conclude(t, TRUE)
      BY <2>3 DEF ReadsEnd
    <3>3. PICK outcome, calls, output : ConcludesWith(t, TRUE, outcome, calls, output)
      BY <3>2, ConcludeFacts, Shapes
    <3>4. place' = "deciding" => result'.outcome = "input_required"
      BY <3>3 DEF ConcludesWith
    <3> QED BY <3>1, <3>4 DEF ResultInv
  <2> QED BY <2>1, <2>2, <2>3
<1>4. ASSUME StreamEnds PROVE ResultInv'
  BY <1>4, BreakFails
<1>5. ASSUME StreamRaises \/ Interrupt \/ StartFails \/ PromptAbandoned
             \/ StartChat \/ ChatExits \/ WidgetCancelled
      PROVE  ResultInv'
  <2>1. PICK p, c, x, n : Onward(p, c, x, n) /\ p # "deciding"
    BY <1>5, CommandSteps
  <2>2. UNCHANGED <<hub, result, view>> /\ place' # "deciding"
    BY <2>1 DEF Onward
  <2> QED BY <2>2, ResultKept
<1>6. ASSUME NEW context, Send(context) PROVE ResultInv'
  BY <1>6, NothingSaid DEF Send
<1>7. ASSUME UNCHANGED vars PROVE ResultInv'
  BY <1>7, ResultKept DEF vars
<1> QED BY <1>2, <1>3, <1>4, <1>5, <1>6, <1>7 DEF Next, DoSends, ChatSends, Decide

LEMMA ResultAtStart ==
  ASSUME Init
  PROVE  ResultInv
  BY DEF Init, ResultInv, OutcomeIsTheHubs, AnswerIsWhole, NoResult

-----------------------------------------------------------------------------
(* The exit code.                                                          *)

LEMMA ConcludeExit ==
  ASSUME TypeInv, LogInv, ResultInv', place = "streaming", NEW t \in Copy,
         NEW whole \in BOOLEAN, Conclude(t, whole), UNCHANGED <<hub, mode, sends>>
  PROVE  ExitTellsTheOutcome'
<1>1. PICK outcome, calls, output : ConcludesWith(t, whole, outcome, calls, output)
  BY ConcludeFacts, Shapes
<1>2. /\ result'.outcome = outcome /\ result'.calls = calls /\ result'.whole = whole
      /\ outcome \in Outcome
  BY <1>1 DEF ConcludesWith
<1>3. exit = "running" /\ hub.log \in Seq(Part)
  BY Shapes DEF TypeInv, TurnsTypeOK
<1>4. ASSUME outcome = "input_required" PROVE calls # <<>>
  <2>1. result'.whole /\ hub'.state = "input_required"
    BY <1>2, <1>4 DEF ResultInv, OutcomeIsTheHubs
  <2>2. Len(calls) = Len(Ids(OfKind(hub.log, {"deferred"})))
    BY <1>2, <2>1 DEF ResultInv, OutcomeIsTheHubs
  <2>3. OfKind(hub.log, {"deferred"}) # <<>> /\ OfKind(hub.log, {"deferred"}) \in Seq(Part)
    BY <1>3, <2>1, OfKindTyped DEF LogInv
  <2>4. Len(OfKind(hub.log, {"deferred"})) # 0
    BY <2>3, NoneLeft
  <2>5. Len(calls) # 0
    BY <2>2, <2>3, <2>4, IdsTyped
  <2> QED BY <2>5
<1>5. CASE calls # <<>>
  <2>1. exit' = exit
    BY <1>1, <1>5 DEF ConcludesWith
  <2> QED BY <1>3, <2>1 DEF ExitTellsTheOutcome
<1>6. CASE calls = <<>> /\ mode = "do"
  <2>1. exit' = IF outcome = "completed" THEN "zero" ELSE "one"
    BY <1>1, <1>6 DEF ConcludesWith
  <2> QED BY <1>2, <1>4, <1>6, <2>1 DEF ExitTellsTheOutcome
<1>7. CASE mode # "do"
  BY <1>7 DEF ExitTellsTheOutcome
<1> QED BY <1>5, <1>6, <1>7

LEMMA ExitStep ==
  ASSUME TypeInv, ContextInv, WireInv, LogInv, ResultInv, ResultInv', ExitTellsTheOutcome,
         [Next]_vars
  PROVE  ExitTellsTheOutcome'
<1>1. exit = "running" <=> place # "ended"
  BY DEF TypeInv, TurnsTypeOK
<1>2. ASSUME place # "ended", UNCHANGED exit PROVE ExitTellsTheOutcome'
  BY <1>1, <1>2 DEF ExitTellsTheOutcome
<1>3. ASSUME HubStep PROVE ExitTellsTheOutcome'
  <2>1. PICK state \in HubState, parts \in Seq(Part) : HubAdds(state, parts)
    BY <1>3, HubStepAdds
  <2> QED BY <1>2, <2>1 DEF HubAdds, Command
<1>4. ASSUME ReadUpdate PROVE ExitTellsTheOutcome'
  <2>1. place = "streaming" /\ UNCHANGED hub /\ (ReadsTask \/ ReadsStart \/ ReadsPart \/ ReadsEnd)
    BY <1>4, ReadCases
  <2>2. ASSUME ReadsTask \/ ReadsStart \/ ReadsPart PROVE ExitTellsTheOutcome'
    <3>1. UNCHANGED exit
      BY <2>2 DEF ReadsTask, ReadTask, ReadsStart, ReadsPart, Command
    <3> QED BY <1>2, <2>1, <3>1
  <2>3. ASSUME ReadsEnd PROVE ExitTellsTheOutcome'
    <3>1. PICK t \in Copy : Conclude(t, TRUE)
      BY <2>3 DEF ReadsEnd
    <3>2. UNCHANGED <<hub, mode, sends>>
      BY <2>1, <2>3 DEF ReadsEnd
    <3> QED BY <2>1, <3>1, <3>2, ConcludeExit
  <2> QED BY <2>1, <2>2, <2>3
<1>5. ASSUME StreamEnds PROVE ExitTellsTheOutcome'
  <2>1. Conclude(task, FALSE) /\ task \in Copy /\ place = "streaming" /\ UNCHANGED <<hub, mode, sends>>
    BY <1>5, Shapes DEF StreamEnds
  <2> QED BY <2>1, ConcludeExit
<1>6. ASSUME StreamRaises \/ Interrupt \/ StartFails \/ PromptAbandoned
             \/ StartChat \/ ChatExits \/ WidgetCancelled
      PROVE  ExitTellsTheOutcome'
  <2>1. PICK p, c, x, n :
           /\ Onward(p, c, x, n)
           /\ mode = "do" /\ x = "zero" => place \in {"start", "deciding", "idle"}
           /\ mode = "do" /\ x = "one" => place \in {"start", "streaming"}
    BY <1>6, CommandSteps
  <2>2. UNCHANGED <<mode, sends, result>> /\ exit' = x
    BY <2>1 DEF Onward
  <2>3. /\ place = "start" => sends = <<>>
        /\ mode = "do" => place # "idle"
        /\ place = "streaming" => result.outcome = "none"
        /\ place = "deciding" => result.outcome = "input_required"
    BY DEF ContextInv, WireInv, ResultInv, NoResult
  <2> QED BY <2>1, <2>2, <2>3 DEF ExitTellsTheOutcome
<1>7. ASSUME DoSends \/ ChatSends \/ Decide PROVE ExitTellsTheOutcome'
  BY <1>2, <1>7 DEF DoSends, ChatSends, Decide, Send
<1>8. ASSUME UNCHANGED vars PROVE ExitTellsTheOutcome'
  BY <1>8 DEF vars, ExitTellsTheOutcome
<1> QED BY <1>3, <1>4, <1>5, <1>6, <1>7, <1>8 DEF Next

-----------------------------------------------------------------------------
(* The theorems.                                                           *)

LEMMA TurnsInvariant == Spec => []TurnsInv
<1>1. Init => TurnsInv
  <2> SUFFICES ASSUME Init PROVE TurnsInv
    OBVIOUS
  <2>1. ExitTellsTheOutcome
    BY DEF Init, ExitTellsTheOutcome
  <2> QED BY <2>1, TypesAtStart, ContextAtStart, WireAtStart, LogAtStart, ViewAtStart,
             ResultAtStart DEF TurnsInv, TypeInv
<1>2. TurnsInv /\ [Next]_vars => TurnsInv'
  <2> SUFFICES ASSUME TurnsInv, [Next]_vars PROVE TurnsInv'
    OBVIOUS
  <2>1. /\ TypeInv /\ ContextInv /\ WireInv /\ LogInv /\ ViewInv /\ ResultInv
        /\ ExitTellsTheOutcome
    BY DEF TurnsInv, TypeInv
  <2>2. TypeInv' /\ ContextInv' /\ WireInv' /\ LogInv'
    BY <2>1, TypeStep, ContextStep, WireStep, LogStep
  <2>3. ViewInv' /\ ResultInv'
    BY <2>1, ViewStep, ResultStep
  <2>4. ExitTellsTheOutcome'
    BY <2>1, <2>3, ExitStep
  <2> QED BY <2>2, <2>3, <2>4 DEF TurnsInv, TypeInv
<1> QED BY <1>1, <1>2, PTL DEF Spec

\* The types of everything a command holds, whatever it meets: `fin do`,
\* `fin talk` and its --resume, broken streams and keyboard interrupts.
THEOREM TurnsTyped == Spec => [](TurnsTypeOK /\ ShapeInv)
<1>1. TurnsInv => TurnsTypeOK /\ ShapeInv
  BY DEF TurnsInv
<1> QED BY <1>1, TurnsInvariant, PTL

\* What the user is told is what became of the task: a stream read to its end
\* reports the task's last state and every call it deferred, a truncated one
\* nothing but a failure (client.py stream_agent, _extract_deferred_calls).
THEOREM OutcomesAreTheHubs == Spec => []OutcomeIsTheHubs
<1>1. TurnsInv => OutcomeIsTheHubs
  BY DEF TurnsInv, ResultInv
<1> QED BY <1>1, TurnsInvariant, PTL

\* A finished stream has put every text of the run on the screen, in its order
\* and nothing else, or the structured result of a run that streamed none
\* (streaming.py accumulated_text, client.py _extract_from_artifacts).
THEOREM AnswersAreWhole == Spec => []AnswerIsWhole
<1>1. TurnsInv => AnswerIsWhole
  BY DEF TurnsInv, ResultInv
<1> QED BY <1>1, TurnsInvariant, PTL

LEMMA PrefixShown ==
  ASSUME NEW P, NEW s \in Seq(P), NEW t \in Seq(P), NEW due \in Seq(P), Len(s \o t) <= Len(due),
         \A i \in 1 .. Len(s \o t) : (s \o t)[i] = due[i]
  PROVE  IsPrefix(s, due)
<1>1. /\ Len(s) \in Nat /\ Len(t) \in Nat /\ Len(due) \in Nat /\ Len(s \o t) = Len(s) + Len(t)
      /\ \A i \in 1 .. Len(s) : (s \o t)[i] = s[i]
  BY Concatenated
<1>2. Len(s) <= Len(due) /\ \A i \in 1 .. Len(s) : s[i] = due[i]
  BY <1>1
<1>3. SubSeq(s, 1, Len(s)) = SubSeq(due, 1, Len(s))
  BY <1>1, <1>2
<1> QED BY <1>1, <1>2, <1>3 DEF IsPrefix

LEMMA CollectedIsPrefix ==
  ASSUME TypeInv, WireInv
  PROVE  /\ artifacts = SubSeq(hub.log, 1, Len(artifacts))
         /\ Len(artifacts) \in 0 .. Len(hub.log)
<1>1. artifacts \in Seq(Part) /\ hub.log \in Seq(Part)
  BY Shapes
<1>2. Len(artifacts) <= Len(hub.log) /\ \A i \in 1 .. Len(artifacts) : artifacts[i] = hub.log[i]
  BY DEF WireInv
<1>3. Len(artifacts) \in 0 .. Len(hub.log)
  BY <1>1, <1>2
<1>4. /\ SubSeq(hub.log, 1, Len(artifacts)) \in Seq(Part)
      /\ Len(SubSeq(hub.log, 1, Len(artifacts))) = Len(artifacts)
      /\ \A i \in 1 .. Len(artifacts) : SubSeq(hub.log, 1, Len(artifacts))[i] = hub.log[i]
  BY <1>1, <1>3
<1>5. artifacts = SubSeq(hub.log, 1, Len(artifacts))
  BY <1>1, <1>2, <1>4
<1> QED BY <1>3, <1>5

\* What is committed to the terminal is at every moment what the hub has
\* thought, called and got so far, in its order, and a finished stream holds
\* none of it back (streaming.py _flush_thinking).
THEOREM ScrollbackOrdered == Spec => []ScrollbackInOrder
<1>1. TurnsInv => ScrollbackInOrder
  <2> SUFFICES ASSUME TurnsInv PROVE ScrollbackInOrder
    OBVIOUS
  <2>1. TypeInv /\ WireInv /\ ViewInv
    BY DEF TurnsInv, TypeInv
  <2> DEFINE mine  == OfKind(artifacts, Kinds)
             due   == OfKind(hub.log, Kinds)
             shown == FlattenSeq(LinesOf(view))
             held  == HeldOf(view)
  <2>2. artifacts \in Seq(Part) /\ hub.log \in Seq(Part) /\ view \in View
    BY <2>1, Shapes
  <2>3. mine \in Seq(Part) /\ due \in Seq(Part)
    BY <2>2, OfKindTyped
  <2>4. Len(mine) <= Len(due) /\ \A i \in 1 .. Len(mine) : mine[i] = due[i]
    <3> DEFINE n == Len(artifacts)
    <3>1. n \in 0 .. Len(hub.log) /\ SubSeq(hub.log, 1, n) = artifacts
      BY <2>1, CollectedIsPrefix
    <3> HIDE DEF n
    <3> QED BY <2>2, <3>1, OfKindOfPrefix
  <2>5. shown \o held = Ids(mine) /\ shown \in Seq(Id) /\ held \in Seq(Id)
    BY <2>1, <2>2, LinesTyped DEF ViewInv, Total
  <2>6. result.whole => view.buffer = <<>> /\ artifacts = hub.log
    <3>1. result.whole => view.buffer = <<>> /\ Len(artifacts) = Len(hub.log)
      BY <2>1 DEF ViewInv, WireInv
    <3> QED BY <2>1, <3>1, AllCollected
  <2>7. result.whole => held = <<>> /\ mine = due
    BY <2>6 DEF HeldOf
  <2> HIDE DEF mine, due, shown, held
  <2>8. /\ Ids(mine) \in Seq(Id) /\ Ids(due) \in Seq(Id)
        /\ Len(Ids(mine)) = Len(mine) /\ Len(Ids(due)) = Len(due)
        /\ \A i \in 1 .. Len(mine) : Ids(mine)[i] = mine[i].id
        /\ \A i \in 1 .. Len(due) : Ids(due)[i] = due[i].id
    BY <2>3, IdsTyped
  <2>9. Len(mine) \in Nat /\ Len(due) \in Nat
    BY <2>3
  <2>10. \A i \in 1 .. Len(mine) : Ids(mine)[i] = Ids(due)[i]
    BY <2>4, <2>8, <2>9
  <2>11. IsPrefix(shown, Ids(due))
    BY <2>4, <2>5, <2>8, <2>10, PrefixShown
  <2>12. result.whole => shown = Ids(due)
    <3>1. shown \o <<>> = shown
      BY <2>5
    <3> QED BY <2>5, <2>7, <3>1
  <2> QED BY <2>11, <2>12 DEF ScrollbackInOrder, shown, due, LinesOf, Kinds
<1> QED BY <1>1, TurnsInvariant, PTL

\* One command, one conversation: all the tasks it has heard of ran in one
\* context, the session's own where it resumed one, and the session file names
\* that context (chat.py ctx_id, main.py _save_session).
THEOREM OneContext == Spec => []OneConversation
<1>1. TurnsInv => OneConversation
  <2> SUFFICES ASSUME TurnsInv PROVE OneConversation
    OBVIOUS
  <2>1. TypeInv /\ ContextInv
    BY DEF TurnsInv, TypeInv
  <2>2. heard \subseteq DOMAIN sends
    BY <2>1, Shapes
  <2> QED BY <2>1, <2>2 DEF ContextInv, OneConversation
<1> QED BY <1>1, TurnsInvariant, PTL

\* `fin do` exits with 0 only if its last task completed, or the user gave up
\* at the prompt or in the widget (main.py _do_command).
THEOREM ExitTruthful == Spec => []ExitTellsTheOutcome
<1>1. TurnsInv => ExitTellsTheOutcome
  BY DEF TurnsInv
<1> QED BY <1>1, TurnsInvariant, PTL

=============================================================================
