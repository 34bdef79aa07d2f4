------------------------- MODULE TaskTracingProofs -------------------------
(***************************************************************************)
(* Theorems about TaskTracing, for every set of calls and every bound.     *)
(***************************************************************************)
EXTENDS TaskTracing, TLAPS, FiniteSetTheorems

\* s is a span of task t with this name.
Is(s, name, t) ==
  s \in DOMAIN spans /\ spans[s].name = name /\ spans[s].task = t

Outcome == {"running", "paused", "completed", "failed", "raised", "cancelled",
            "lost"}
Finished == {"pausing", "marking", "finalizing"}
Task == [turn : Nat, outcome : Outcome, called : SUBSET Call, answers : Nat,
         deferred : Seq(Call), command : Nat]
Tokens == Seq(Nat)
ToolSpans == SUBSET (Call \X Nat)
Pauses == Seq([span : Nat, input : Nat])
Tracer == [task : Nat, step : Nat, tools : ToolSpans, paused : Tokens,
           taskToken : Tokens, stepToken : Tokens]
Run == [at : {"idle", "loading", "running"} \cup Finished, input : Nat,
        resumes : BOOLEAN,
        node : {"none", "request", "tools", "after request", "after tools"},
        nodes : Nat, waits : SUBSET Call, open : SUBSET Call,
        deferred : SUBSET Call]
Store == [pending : SUBSET Call, pause : Pauses]
Command == [invocation : Nat, root : Nat, wait : Nat, asked : SUBSET Call,
            open : BOOLEAN]

-----------------------------------------------------------------------------
(* The invariants.                                                         *)

ShapeInv ==
  /\ spans \in Seq(Span) /\ tracer \in Tracer /\ current \in Nat
  /\ run \in Run /\ tasks \in Seq(Task) /\ store \in Store
  /\ traced \in BOOLEAN /\ cli \in Command /\ faults \in 0 .. MaxFaults

\* At most one span, and one of the log.
OneOf(token) == token = <<>> \/ \E x \in 0 .. Len(spans) : token = <<x>>

\* Every id at hand is 0 or that of a span of the log.
IdsInv ==
  /\ {tracer.task, tracer.step, current, cli.root, cli.wait} \subseteq 0 .. Len(spans)
  /\ \A e \in tracer.tools : e[2] \in 0 .. Len(spans)
  /\ OneOf(tracer.taskToken) /\ OneOf(tracer.stepToken) /\ OneOf(tracer.paused)
  /\ \/ store.pause = <<>>
     \/ Len(store.pause) = 1 /\ store.pause[1].span \in 0 .. Len(spans)

\* What never changes of a span: it follows its parent and its link, its
\* parent is of its own task, a task has one span and one for each call.
Placed(s) ==
  LET x == spans[s] IN
  /\ x.parent < s /\ x.link < s
  /\ x.task \in 0 .. Len(tasks)
  /\ x.task = 0 <=> x.name \in {"cli", "wait"}
  /\ x.name \in {"step", "request", "decided"} => Is(x.parent, "task", x.task)
  /\ x.name = "tool" => Is(x.parent, "step", x.task)
  /\ x.name = "task" => \A r \in DOMAIN spans : Is(r, "task", x.task) => r = s
  /\ x.name = "tool" =>
       /\ x.call \in tasks[x.task].called
       /\ \A r \in DOMAIN spans :
            Is(r, "tool", x.task) /\ spans[r].call = x.call => r = s

TreeInv == \A s \in DOMAIN spans : Placed(s)

\* The command's own spans.
CliInv ==
  /\ cli.root # 0 => Is(cli.root, "cli", 0)
  /\ cli.wait # 0 => Is(cli.wait, "wait", 0)
  /\ run.at # "idle" => cli.open /\ cli.asked = {}
  /\ \A t \in DOMAIN tasks : tasks[t].command <= cli.invocation
  /\ cli.open => \A s \in DOMAIN spans :
       spans[s].name = "task" /\ tasks[spans[s].task].command = cli.invocation
         => spans[s].invocation = Baggage

\* The spans of the task at work that have not ended.
OpenNow(s) ==
  \/ s = tracer.task /\ run.at \in {"loading", "running", "finalizing"}
  \/ s = tracer.step
  \/ spans[s].name = "tool" /\ spans[s].call \in run.open

\* The task at work, its span and the node that runs.
AtWork ==
  /\ Len(tasks) > 0 /\ tasks[Me].outcome = "running"
  /\ tasks[Me].command = cli.invocation
  /\ run.input = tasks[Me].turn
  /\ run.nodes = 0 <=> run.node = "none"
  /\ IF traced THEN Is(tracer.task, "task", Me)
     ELSE tracer.task = 0 /\ tracer.step = 0 /\ SpansOf(Me) = {}
  /\ tracer.step # 0 => Is(tracer.step, "step", Me)
  /\ traced => (tracer.step # 0 <=> run.node \in {"request", "tools"})
  /\ run.at \notin Finished => tracer.taskToken = <<0>>
  /\ run.at \in Finished =>
       /\ current = 0
       /\ run.node = "after tools" /\ run.open = run.deferred
       /\ run.deferred = {} <=> run.at = "finalizing"

\* Its spans: which have ended, what they say, whose calls they are.
SpansAtWork ==
  /\ \A s \in SpansOf(Me) :
       /\ ~spans[s].ended <=> OpenNow(s)
       /\ spans[s].name = "tool" /\ spans[s].call \in run.open
            => <<spans[s].call, s>> \in tracer.tools
       /\ spans[s].name = "task" => spans[s].state \in
            IF run.at \in {"pausing", "marking"} THEN {"paused"}
                                                 ELSE {"running", "resumed"}
       /\ spans[s].name = "request" => spans[s].call \in run.deferred
  /\ \A e \in tracer.tools : e[2] # 0 =>
       Is(e[2], "tool", Me) /\ spans[e[2]].call = e[1]
  /\ run.open \subseteq tasks[Me].called

\* The calls it leaves for approval, and their requests.
PauseAtWork ==
  /\ run.deferred \subseteq run.open
  /\ run.deferred = ToSet(tasks[Me].deferred)
  /\ run.deferred # {} =>
       /\ run.node = "after tools"
       /\ tasks[Me].deferred # <<>>
       /\ tracer.paused # <<>>
       /\ IF traced THEN Is(tracer.paused[1], "request", Me)
                         /\ spans[tracer.paused[1]].call = Last(tasks[Me].deferred)
          ELSE tracer.paused[1] = 0
  /\ traced => \A k \in run.deferred : \E s \in SpansOf(Me) :
                 spans[s].name = "request" /\ spans[s].call = k

WorkInv == run.at # "idle" => AtWork /\ SpansAtWork /\ PauseAtWork

\* A task that is over: SpansAreAccounted and SpanTellsTheOutcome, of t.
Settled(t) ==
  LET outcome == tasks[t].outcome IN
  /\ outcome # "running"
  /\ outcome = "completed" => \A s \in SpansOf(t) : spans[s].ended
  /\ outcome = "paused" =>
       /\ \A s \in SpansOf(t) :
            ~spans[s].ended <=> /\ spans[s].name = "tool"
                                /\ spans[s].call \in ToSet(tasks[t].deferred)
       /\ Named(t, "task") # {} =>
            {spans[s].call : s \in Named(t, "request")} = ToSet(tasks[t].deferred)
  /\ \A s \in Named(t, "task") :
       /\ spans[s].ended => spans[s].state \in {"completed", "paused", "failed"}
       /\ spans[s].state = "completed" <=> outcome = "completed"
       /\ spans[s].state = "failed" <=> outcome = "failed"
       /\ outcome = "paused" => spans[s].ended /\ spans[s].state = "paused"

DoneInv ==
  /\ \A t \in DOMAIN tasks : t # Me \/ run.at = "idle" => Settled(t)
  /\ tasks # <<>> /\ tasks[Me].outcome \in {"completed", "paused", "failed"}
       => current = 0

\* What SendAnswers finds.
AskedInv ==
  cli.asked # {} =>
    /\ cli.open /\ Len(tasks) > 0 /\ tasks[Me].outcome = "paused"
    /\ tasks[Me].command = cli.invocation
    /\ tasks[Me].deferred # <<>>
    /\ store.pause # <<>> /\ store.pause[1].input = tasks[Me].turn
    /\ IF Named(Me, "task") = {} THEN store.pause[1].span = 0
       ELSE /\ Is(store.pause[1].span, "request", Me)
            /\ spans[store.pause[1].span].call = Last(tasks[Me].deferred)

\* ResumptionFollowsThePause, of t.
Follows(t) ==
  \A s \in Named(t, "task") :
    LET p == tasks[t].answers IN
    /\ spans[s].input = tasks[t].turn
    /\ spans[s].invocation \in {0, tasks[t].command}
    /\ p = 0 => Named(t, "decided") = {} /\ spans[s].link = 0
    /\ p # 0 =>
         /\ p < t
         /\ \E d \in Named(t, "decided") :
              /\ spans[d].link = spans[s].link
              /\ Named(t, "decided") = {d}
         /\ Named(p, "task") = {} => spans[s].link = 0
         /\ \A q \in Named(p, "task") :
              /\ Is(spans[s].link, "request", p)
              /\ spans[spans[s].link].call = Last(tasks[p].deferred)
              /\ spans[spans[s].link].ended
              /\ spans[s].invocation = spans[q].invocation

AnswersInv == \A t \in DOMAIN tasks : Follows(t)

\* A request and a decision are ended where they start.
RequestsEnded == \A s \in DOMAIN spans :
  spans[s].name \in {"request", "decided"} => spans[s].ended

\* Between two tasks nothing of the last run is left.
RestInv == run.at = "idle" => run = Idle

TracingInv ==
  /\ ShapeInv /\ IdsInv /\ TreeInv /\ CliInv /\ WorkInv /\ RestInv
  /\ DoneInv /\ AskedInv /\ AnswersInv /\ RequestsEnded

-----------------------------------------------------------------------------
(* The log: what start_span, end and set_attribute do to it.               *)

\* The attributes and the place in the tree, which never change.
Alike(x, y) ==
  /\ x.name = y.name /\ x.task = y.task /\ x.parent = y.parent
  /\ x.link = y.link /\ x.call = y.call /\ x.input = y.input
  /\ x.invocation = y.invocation

LEMMA BegunLog ==
  ASSUME NEW log \in Seq(Span), NEW x \in Span, NEW recording \in BOOLEAN
  PROVE  /\ Begun(log, recording, x) \in Seq(Span)
         /\ Len(Begun(log, recording, x)) =
              IF recording THEN Len(log) + 1 ELSE Len(log)
         /\ \A s \in 1 .. Len(log) : Begun(log, recording, x)[s] = log[s]
         /\ recording => Begun(log, recording, x)[Len(log) + 1] = x
  BY DEF Begun

LEMMA EndedLog ==
  ASSUME NEW log \in Seq(Span), NEW s \in 0 .. Len(log)
  PROVE  /\ Ended(log, s) \in Seq(Span)
         /\ Len(Ended(log, s)) = Len(log)
         /\ \A r \in 1 .. Len(log) :
              /\ Alike(Ended(log, s)[r], log[r])
              /\ Ended(log, s)[r].state = log[r].state
              /\ Ended(log, s)[r].ended <=> (log[r].ended \/ r = s)
<1>1. CASE s = 0
  BY <1>1 DEF Ended, Alike
<1>2. CASE s # 0
  <2>1. s \in 1 .. Len(log) /\ log[s] \in Span
    BY <1>2
  <2>2. [log[s] EXCEPT !.ended = TRUE] \in Span
    BY <2>1 DEF Span
  <2>3. Ended(log, s) = [log EXCEPT ![s] = [log[s] EXCEPT !.ended = TRUE]]
    BY <1>2 DEF Ended
  <2>4. Ended(log, s) \in Seq(Span) /\ Len(Ended(log, s)) = Len(log)
    BY <2>1, <2>2, <2>3
  <2>5. \A r \in 1 .. Len(log) :
          Ended(log, s)[r] = IF r = s THEN [log[s] EXCEPT !.ended = TRUE]
                                      ELSE log[r]
    BY <2>1, <2>3
  <2>6. /\ Alike([log[s] EXCEPT !.ended = TRUE], log[s])
        /\ [log[s] EXCEPT !.ended = TRUE].state = log[s].state
        /\ [log[s] EXCEPT !.ended = TRUE].ended = TRUE
    BY <2>1 DEF Span, Alike
  <2>7. \A r \in 1 .. Len(log) : Alike(log[r], log[r])
    BY DEF Alike
  <2> QED BY <2>4, <2>5, <2>6, <2>7
<1> QED BY <1>1, <1>2

LEMMA MarkedLog ==
  ASSUME NEW log \in Seq(Span), NEW s \in 0 .. Len(log), NEW state \in SpanState
  PROVE  /\ Marked(log, s, state) \in Seq(Span)
         /\ Len(Marked(log, s, state)) = Len(log)
         /\ \A r \in 1 .. Len(log) :
              /\ Alike(Marked(log, s, state)[r], log[r])
              /\ Marked(log, s, state)[r].state =
                   IF r = s /\ ~log[s].ended THEN state ELSE log[r].state
              /\ Marked(log, s, state)[r].ended <=> log[r].ended
<1>1. CASE s = 0 \/ log[s].ended
  BY <1>1 DEF Marked, Alike
<1>2. CASE s # 0 /\ ~log[s].ended
  <2>1. s \in 1 .. Len(log) /\ log[s] \in Span
    BY <1>2
  <2>2. [log[s] EXCEPT !.state = state] \in Span
    BY <2>1 DEF Span
  <2>3. Marked(log, s, state) = [log EXCEPT ![s] = [log[s] EXCEPT !.state = state]]
    BY <1>2 DEF Marked
  <2>4. Marked(log, s, state) \in Seq(Span) /\ Len(Marked(log, s, state)) = Len(log)
    BY <2>1, <2>2, <2>3
  <2>5. \A r \in 1 .. Len(log) :
          Marked(log, s, state)[r] =
            IF r = s THEN [log[s] EXCEPT !.state = state] ELSE log[r]
    BY <2>1, <2>3
  <2>6. /\ Alike([log[s] EXCEPT !.state = state], log[s])
        /\ [log[s] EXCEPT !.state = state].state = state
        /\ [log[s] EXCEPT !.state = state].ended = log[s].ended
    BY <2>1 DEF Span, Alike
  <2>7. \A r \in 1 .. Len(log) : Alike(log[r], log[r])
    BY DEF Alike
  <2> QED BY <1>2, <2>4, <2>5, <2>6, <2>7
<1> QED BY <1>1, <1>2

-----------------------------------------------------------------------------
(* The list of tasks.                                                      *)

LEMMA OtherTask ==
  ASSUME tasks \in Seq(Task), Len(tasks) > 0, NEW x \in Task
  PROVE  /\ [tasks EXCEPT ![Me] = x] \in Seq(Task)
         /\ Len([tasks EXCEPT ![Me] = x]) = Len(tasks)
         /\ \A t \in 1 .. Len(tasks) :
              [tasks EXCEPT ![Me] = x][t] = IF t = Me THEN x ELSE tasks[t]
  BY DEF Me

LEMMA ReportedTasks ==
  ASSUME tasks \in Seq(Task), Len(tasks) > 0, NEW outcome \in Outcome
  PROVE  /\ Reported(outcome) \in Seq(Task)
         /\ Len(Reported(outcome)) = Len(tasks)
         /\ \A t \in 1 .. Len(tasks) :
              /\ Reported(outcome)[t].outcome =
                   IF t = Me THEN outcome ELSE tasks[t].outcome
              /\ Reported(outcome)[t].turn = tasks[t].turn
              /\ Reported(outcome)[t].called = tasks[t].called
              /\ Reported(outcome)[t].answers = tasks[t].answers
              /\ Reported(outcome)[t].deferred = tasks[t].deferred
              /\ Reported(outcome)[t].command = tasks[t].command
<1>1. Me \in 1 .. Len(tasks) /\ tasks[Me] \in Task
  BY DEF Me
<1>2. [tasks[Me] EXCEPT !.outcome = outcome] \in Task
  BY <1>1 DEF Task
<1>3. Reported(outcome) = [tasks EXCEPT ![Me] = [tasks[Me] EXCEPT !.outcome = outcome]]
  BY DEF Reported
<1> DEFINE x == [tasks[Me] EXCEPT !.outcome = outcome]
<1>4. /\ x.outcome = outcome /\ x.turn = tasks[Me].turn
      /\ x.called = tasks[Me].called /\ x.answers = tasks[Me].answers
      /\ x.deferred = tasks[Me].deferred /\ x.command = tasks[Me].command
  BY <1>1 DEF Task
<1> HIDE DEF x
<1> QED BY <1>2, <1>3, <1>4, OtherTask DEF x

\* The task at work has called k, or left it for approval.
WithCall(k) == [tasks EXCEPT ![Me].called = @ \cup {k}]
WithDeferred(k) == [tasks EXCEPT ![Me].deferred = Append(@, k)]

LEMMA CalledTasks ==
  ASSUME tasks \in Seq(Task), Len(tasks) > 0, NEW k \in Call
  PROVE  /\ WithCall(k) \in Seq(Task)
         /\ Len(WithCall(k)) = Len(tasks)
         /\ \A t \in 1 .. Len(tasks) :
              /\ WithCall(k)[t].called =
                   IF t = Me THEN tasks[t].called \cup {k} ELSE tasks[t].called
              /\ WithCall(k)[t].outcome = tasks[t].outcome
              /\ WithCall(k)[t].turn = tasks[t].turn
              /\ WithCall(k)[t].answers = tasks[t].answers
              /\ WithCall(k)[t].deferred = tasks[t].deferred
              /\ WithCall(k)[t].command = tasks[t].command
<1>1. Me \in 1 .. Len(tasks) /\ tasks[Me] \in Task
  BY DEF Me
<1> DEFINE x == [tasks[Me] EXCEPT !.called = @ \cup {k}]
<1>2. x \in Task
  BY <1>1 DEF Task
<1>3. WithCall(k) = [tasks EXCEPT ![Me] = x]
  BY DEF WithCall
<1>4. /\ x.outcome = tasks[Me].outcome /\ x.turn = tasks[Me].turn
      /\ x.called = tasks[Me].called \cup {k} /\ x.answers = tasks[Me].answers
      /\ x.deferred = tasks[Me].deferred /\ x.command = tasks[Me].command
  BY <1>1 DEF Task
<1> HIDE DEF x
<1>6. /\ WithCall(k) \in Seq(Task) /\ Len(WithCall(k)) = Len(tasks)
      /\ \A t \in 1 .. Len(tasks) :
           WithCall(k)[t] = IF t = Me THEN x ELSE tasks[t]
  BY <1>2, <1>3, OtherTask
<1> QED BY <1>4, <1>6

LEMMA DeferredTasks ==
  ASSUME tasks \in Seq(Task), Len(tasks) > 0, NEW k \in Call
  PROVE  /\ WithDeferred(k) \in Seq(Task)
         /\ Len(WithDeferred(k)) = Len(tasks)
         /\ \A t \in 1 .. Len(tasks) :
              /\ WithDeferred(k)[t].deferred =
                   IF t = Me THEN Append(tasks[t].deferred, k) ELSE tasks[t].deferred
              /\ WithDeferred(k)[t].outcome = tasks[t].outcome
              /\ WithDeferred(k)[t].turn = tasks[t].turn
              /\ WithDeferred(k)[t].answers = tasks[t].answers
              /\ WithDeferred(k)[t].called = tasks[t].called
              /\ WithDeferred(k)[t].command = tasks[t].command
<1>1. Me \in 1 .. Len(tasks) /\ tasks[Me] \in Task
  BY DEF Me
<1>2. Append(tasks[Me].deferred, k) \in Seq(Call)
  <2>1. tasks[Me].deferred \in Seq(Call)
    BY <1>1 DEF Task
  <2> QED BY <2>1
<1> DEFINE x == [tasks[Me] EXCEPT !.deferred = Append(@, k)]
<1>3. WithDeferred(k) = [tasks EXCEPT ![Me] = x]
  BY DEF WithDeferred
<1>4. /\ x.outcome = tasks[Me].outcome /\ x.turn = tasks[Me].turn
      /\ x.deferred = Append(tasks[Me].deferred, k) /\ x.answers = tasks[Me].answers
      /\ x.called = tasks[Me].called /\ x.command = tasks[Me].command
  BY <1>1 DEF Task
<1>5. x \in Task
  BY <1>1, <1>2 DEF Task
<1> HIDE DEF x
<1>6. /\ WithDeferred(k) \in Seq(Task) /\ Len(WithDeferred(k)) = Len(tasks)
      /\ \A t \in 1 .. Len(tasks) :
           WithDeferred(k)[t] = IF t = Me THEN x ELSE tasks[t]
  BY <1>5, <1>3, OtherTask
<1> QED BY <1>4, <1>6

LEMMA AddedTask ==
  ASSUME tasks \in Seq(Task), NEW x \in Task, tasks' = Append(tasks, x)
  PROVE  /\ tasks' \in Seq(Task)
         /\ Len(tasks') = Len(tasks) + 1
         /\ \A t \in 1 .. Len(tasks) : tasks'[t] = tasks[t]
         /\ tasks'[Len(tasks) + 1] = x
  OBVIOUS

-----------------------------------------------------------------------------
(* The types.                                                              *)

\* Every span a step starts.
LEMMA PlainSpan ==
  ASSUME NEW name \in SpanName, NEW task \in Nat, NEW parent \in Nat
  PROVE  /\ Plain(name, task, parent) \in Span
         /\ \A k \in Call :
              /\ [Plain(name, task, parent) EXCEPT !.call = k] \in Span
              /\ [Plain(name, task, parent) EXCEPT !.call = k, !.ended = TRUE] \in Span
         /\ \A n \in Nat : [Plain(name, task, parent) EXCEPT !.invocation = n] \in Span
         /\ \A l \in Nat, state \in SpanState :
              [Plain(name, task, parent) EXCEPT
                 !.link = l, !.state = state, !.ended = TRUE] \in Span
         /\ \A l, i, n \in Nat :
              [Plain(name, task, parent) EXCEPT
                 !.link = l, !.state = "running", !.input = i, !.invocation = n] \in Span
  BY DEF Plain, Span, SpanState

LEMMA Fields ==
  ASSUME ShapeInv
  PROVE  /\ Len(spans) \in Nat /\ Len(spans) + 1 \in Nat
         /\ Me \in Nat /\ Parent \in Nat
         /\ \A recording \in BOOLEAN : NewId(spans, recording) \in Nat
         /\ run.nodes \in Nat /\ run.nodes + 1 \in Nat
         /\ cli.invocation \in Nat /\ cli.invocation + 1 \in Nat
         /\ Baggage \in Nat /\ Detached \in Nat
<1>1. Len(spans) \in Nat /\ Me \in Nat
  BY DEF ShapeInv, Me
<1>2. tracer.task \in Nat /\ tracer.step \in Nat /\ tracer.taskToken \in Tokens
  BY DEF ShapeInv, Tracer, Tokens
<1>3. run.nodes \in Nat
  BY DEF ShapeInv, Run
<1>4. cli.invocation \in Nat
  BY DEF ShapeInv, Command
<1>5. current \in Nat
  BY DEF ShapeInv
<1>6. Detached \in Nat
  BY <1>2, <1>5 DEF Detached, Tokens
<1>7. Parent \in Nat /\ Baggage \in Nat
  BY <1>2, <1>4 DEF Parent, Baggage
<1>8. \A recording \in BOOLEAN : NewId(spans, recording) \in Nat
  BY <1>1 DEF NewId
<1> QED BY <1>1, <1>3, <1>4, <1>6, <1>7, <1>8

LEMMA Token ==
  <<>> \in Tokens /\ \A n \in Nat : <<n>> \in Tokens /\ <<n>> # <<>> /\ <<n>>[1] = n
  BY DEF Tokens

LEMMA First ==
  ASSUME NEW S, NEW q \in Seq(S), q # <<>>
  PROVE  q[1] \in S
  OBVIOUS

LEMMA FirstPause ==
  ASSUME NEW pause \in Pauses, pause # <<>>
  PROVE  pause[1].span \in Nat /\ pause[1].input \in Nat
<1>1. pause \in Seq([span : Nat, input : Nat])
  BY DEF Pauses
<1>2. pause[1] \in [span : Nat, input : Nat]
  BY <1>1, First
<1> QED BY <1>2

LEMMA ShapeInTheCommand ==
  ASSUME ShapeInv, IdsInv, CliInv, AskedInv,
         \/ \E recording \in BOOLEAN : CliStarts(recording)
         \/ CliEnds
         \/ SendWords \/ \E verdicts \in Answers : SendAnswers(verdicts)
         \/ LoadPauseRaises
  PROVE  ShapeInv'
<1>1. ASSUME NEW recording \in BOOLEAN, CliStarts(recording) PROVE ShapeInv'
  <2>1. spans' \in Seq(Span)
    BY <1>1, Fields, BegunLog, PlainSpan DEF ShapeInv, CliStarts, SpanName
  <2>2. cli' \in Command
    BY <1>1, Fields DEF CliStarts, NoCommand, Command
  <2> QED BY <1>1, <2>1, <2>2 DEF ShapeInv, CliStarts, Hub
<1>2. CASE CliEnds
  <2>1. spans' \in Seq(Span)
    BY <1>2, EndedLog DEF ShapeInv, IdsInv, CliEnds
  <2>2. cli' \in Command
    BY <1>2, Fields DEF CliEnds, NoCommand, Command
  <2> QED BY <1>2, <2>1, <2>2 DEF ShapeInv, CliEnds, Hub
<1>3. ASSUME NEW words \in Nat, NEW verdicts \in SUBSET Verdict, NEW turn \in Nat,
             Receive(words, verdicts, turn)
      PROVE  ShapeInv'
  <2> DEFINE prior == IF verdicts = {} THEN <<>> ELSE store.pause
             input == Input(words, prior)
             log   == Ended(spans, cli.wait)
             span  == NewId(log, traced)
  <2>1. log \in Seq(Span) /\ span \in Nat
    BY EndedLog DEF ShapeInv, IdsInv, NewId
  <2>2. input \in Nat /\ MakeLink(prior) \in Nat
    <3>1. store.pause \in Pauses
      BY DEF ShapeInv, Store
    <3>2. prior # <<>> => prior[1].span \in Nat /\ prior[1].input \in Nat
      BY <3>1, FirstPause
    <3> HIDE DEF prior
    <3> QED BY <3>2 DEF Input, MakeLink
  <2>3. /\ spans' = EmitApprovalDecided(StartTaskSpan(log, input, prior), span,
                                        verdicts, prior)
        /\ tracer' = [NewTracer EXCEPT !.task = span, !.taskToken = <<0>>]
        /\ current' = span
        /\ run' = [Idle EXCEPT !.at = "loading", !.input = input,
                               !.resumes = verdicts # {}]
        /\ cli' = [cli EXCEPT !.wait = 0, !.asked = {}]
    BY <1>3 DEF Receive
  <2>4. tasks' \in Seq(Task)
    <3>1. [turn |-> turn, outcome |-> "running", called |-> {},
           answers |-> IF verdicts = {} THEN 0 ELSE Me,
           deferred |-> <<>>, command |-> cli.invocation] \in Task
      BY Fields DEF Task, Outcome
    <3> QED BY <1>3, <3>1, AddedTask DEF Receive, ShapeInv
  <2>5. Me' \in Nat
    BY <2>4 DEF Me
  <2> HIDE DEF prior, input, log, span
  <2>6. spans' \in Seq(Span)
    <3> DEFINE first == [Plain("task", Me', 0) EXCEPT
                           !.link = MakeLink(prior), !.state = "running",
                           !.input = input, !.invocation = Baggage]
    <3>0. first \in Span /\ traced \in BOOLEAN
      BY <2>2, <2>5, Fields, PlainSpan DEF ShapeInv, SpanName
    <3>7. StartTaskSpan(log, input, prior) = Begun(log, traced, first)
      BY DEF StartTaskSpan
    <3> HIDE DEF first
    <3>1. StartTaskSpan(log, input, prior) \in Seq(Span)
      BY <2>1, <3>0, <3>7, BegunLog
    <3>2. Len(StartTaskSpan(log, input, prior)) =
            IF traced THEN Len(log) + 1 ELSE Len(log)
      BY <2>1, <3>0, <3>7, BegunLog
    <3> DEFINE decided == [Plain("decided", Me', span) EXCEPT
                             !.link = MakeLink(prior), !.state = Aggregated(verdicts),
                             !.ended = TRUE]
               grown == Begun(StartTaskSpan(log, input, prior), traced, decided)
    <3>3. decided \in Span
      <4>1. Aggregated(verdicts) \in SpanState
        BY DEF Aggregated, SpanState, Verdict
      <4> QED BY <4>1, <2>1, <2>2, <2>5, PlainSpan DEF SpanName
    <3>4. grown \in Seq(Span) /\ span \in 0 .. Len(grown)
      <4>1. traced \in BOOLEAN
        BY DEF ShapeInv
      <4>2. /\ grown \in Seq(Span)
            /\ Len(grown) = IF traced THEN Len(StartTaskSpan(log, input, prior)) + 1
                                      ELSE Len(StartTaskSpan(log, input, prior))
        BY <3>1, <3>3, <4>1, BegunLog
      <4>3. span = IF traced THEN Len(log) + 1 ELSE 0
        BY DEF span, NewId
      <4> QED BY <2>1, <3>2, <4>2, <4>3
    <3>5. "resumed" \in SpanState
      BY DEF SpanState
    <3>6. Marked(grown, span, "resumed") \in Seq(Span)
      BY <3>4, <3>5, MarkedLog
    <3> QED BY <2>3, <3>1, <3>6 DEF EmitApprovalDecided
  <2>7. tracer' \in Tracer
    BY <2>1, <2>3, Token DEF NewTracer, Tracer, ToolSpans
  <2>8. run' \in Run
    BY <2>2, <2>3 DEF Idle, Run, input
  <2>9. cli' \in Command
    BY <2>3 DEF ShapeInv, Command
  <2> QED BY <1>3, <2>1, <2>3, <2>4, <2>6, <2>7, <2>8, <2>9 DEF ShapeInv, Receive
<1>4. CASE SendWords
  <2>1. Len(tasks) + 1 \in Nat
    BY DEF ShapeInv
  <2> QED BY <1>3, <1>4, <2>1 DEF SendWords
<1>5. ASSUME cli.asked # {} PROVE Turn \in Nat
  <2>1. Me \in 1 .. Len(tasks)
    BY <1>5 DEF AskedInv, ShapeInv, Me
  <2>2. tasks[Me] \in Task
    BY <2>1 DEF ShapeInv
  <2> QED BY <2>2 DEF Turn, Task
<1>6. ASSUME NEW verdicts \in Answers, SendAnswers(verdicts) PROVE ShapeInv'
  <2>1. verdicts \in SUBSET Verdict
    BY TracingAssumption
  <2> QED BY <1>3, <1>5, <1>6, <2>1 DEF SendAnswers
<1>7. CASE LoadPauseRaises
  <2>1. spans' \in Seq(Span)
    BY <1>7, EndedLog DEF ShapeInv, IdsInv, LoadPauseRaises
  <2>2. cli' \in Command
    BY <1>7, Fields DEF ShapeInv, LoadPauseRaises, Command
  <2>3. tasks' \in Seq(Task)
    <3>1. [turn |-> Turn, outcome |-> "raised", called |-> {}, answers |-> Me,
           deferred |-> <<>>, command |-> cli.invocation] \in Task
      BY <1>5, <1>7, Fields DEF Task, Outcome, LoadPauseRaises
    <3> QED BY <1>7, <3>1, AddedTask DEF LoadPauseRaises, ShapeInv
  <2>4. faults' \in 0 .. MaxFaults
    BY <1>7, TracingAssumption DEF LoadPauseRaises, Fault, ShapeInv
  <2> QED BY <1>7, <2>1, <2>2, <2>3, <2>4 DEF ShapeInv, LoadPauseRaises, Hub
<1> QED BY <1>1, <1>2, <1>4, <1>6, <1>7

LEMMA ShapeInTheRun ==
  ASSUME ShapeInv, IdsInv, WorkInv,
         \/ StartRun \/ StepEnd \/ RunEnds
         \/ \E kind \in {"request", "tools"} : StepStart(kind)
         \/ \E k \in Call : ToolCall(k) \/ ToolResult(k) \/ Deferred(k)
  PROVE  ShapeInv'
<1>1. CASE StartRun
  <2>1. run' \in Run
    BY <1>1 DEF ShapeInv, StartRun, Run, Store
  <2> QED BY <1>1, <2>1 DEF ShapeInv, StartRun
<1>2. CASE StepEnd
  <2>1. spans' \in Seq(Span)
    BY <1>2, EndedLog DEF ShapeInv, IdsInv, StepEnd
  <2>2. tracer' \in Tracer
    BY <1>2, Token DEF ShapeInv, Tracer, StepEnd, EndStepSpan
  <2>3. run' \in Run
    BY <1>2 DEF ShapeInv, StepEnd, Run
  <2>4. current' \in Nat
    <3>1. tracer.stepToken # <<>> => tracer.stepToken[1] \in Nat
      <4>1. tracer.stepToken \in Tokens
        BY DEF ShapeInv, Tracer
      <4> QED BY <4>1 DEF Tokens
    <3> QED BY <1>2, <3>1 DEF ShapeInv, StepEnd
  <2> QED BY <1>2, <2>1, <2>2, <2>3, <2>4 DEF ShapeInv, StepEnd, InRun
<1>3. CASE RunEnds
  <2>1. spans' \in Seq(Span)
    <3>3. tracer.task \in 0 .. Len(spans) /\ "paused" \in SpanState
      BY DEF IdsInv, SpanState
    <3>1. Marked(spans, tracer.task, "paused") \in Seq(Span)
      BY <3>3, MarkedLog DEF ShapeInv
    <3>2. Len(Marked(spans, tracer.task, "paused")) = Len(spans)
      BY <3>3, MarkedLog DEF ShapeInv
    <3>4. Ended(Marked(spans, tracer.task, "paused"), tracer.task) \in Seq(Span)
      BY <3>1, <3>2, <3>3, EndedLog
    <3> QED BY <1>3, <3>4 DEF ShapeInv, RunEnds
  <2>2. tracer' \in Tracer
    BY <1>3, Token DEF ShapeInv, Tracer, RunEnds
  <2>3. run' \in Run
    BY <1>3 DEF ShapeInv, RunEnds, Run, Finished
  <2> QED BY <1>3, <2>1, <2>2, <2>3, Fields DEF ShapeInv, RunEnds, InRun
<1>4. ASSUME NEW kind \in {"request", "tools"}, StepStart(kind) PROVE ShapeInv'
  <2>1. spans' \in Seq(Span)
    BY <1>4, Fields, BegunLog, PlainSpan DEF ShapeInv, StepStart, SpanName
  <2>2. tracer' \in Tracer
    <3>1. tracer' = [tracer EXCEPT !.step = NewId(spans, traced),
                                   !.stepToken = <<current>>]
      BY <1>4 DEF StepStart
    <3>2. <<current>> \in Tokens /\ NewId(spans, traced) \in Nat
      BY Fields, Token DEF ShapeInv
    <3> QED BY <3>1, <3>2 DEF ShapeInv, Tracer
  <2>3. run' \in Run
    BY <1>4, Fields DEF ShapeInv, StepStart, Run
  <2> QED BY <1>4, <2>1, <2>2, <2>3, Fields DEF ShapeInv, StepStart, InRun
<1>5. ASSUME NEW k \in Call, ToolCall(k) PROVE ShapeInv'
  <2>1. Len(tasks) > 0
    BY <1>5 DEF ToolCall, WorkInv, AtWork
  <2>2. tasks' \in Seq(Task)
    BY <1>5, <2>1, CalledTasks DEF ToolCall, ShapeInv, WithCall
  <2>3. spans' \in Seq(Span)
    BY <1>5, Fields, BegunLog, PlainSpan DEF ShapeInv, ToolCall, SpanName
  <2>4. tracer' \in Tracer
    <3>1. NewId(spans, traced) \in Nat
      BY Fields DEF ShapeInv
    <3>2. StartToolSpan(tracer.tools, k, NewId(spans, traced)) \in ToolSpans
      BY <3>1 DEF StartToolSpan, ShapeInv, Tracer, ToolSpans
    <3> QED BY <1>5, <3>2 DEF ShapeInv, Tracer, ToolCall
  <2>5. run' \in Run
    BY <1>5 DEF ShapeInv, ToolCall, Run
  <2> QED BY <1>5, <2>2, <2>3, <2>4, <2>5 DEF ShapeInv, ToolCall
<1>6. ASSUME NEW k \in Call, ToolResult(k) PROVE ShapeInv'
  <2>1. spans' \in Seq(Span)
    <3> DEFINE mine == {e \in tracer.tools : e[1] = k}
               new(s) == [spans[s] EXCEPT
                            !.ended = spans[s].ended \/ \E e \in mine : e[2] = s]
    <3>1. \A s \in DOMAIN spans : new(s) \in Span
      <4>1. TAKE s \in DOMAIN spans
      <4>2. spans[s] \in Span
        BY DEF ShapeInv
      <4>3. (spans[s].ended \/ \E e \in mine : e[2] = s) \in BOOLEAN
        OBVIOUS
      <4> HIDE DEF mine
      <4> QED BY <4>2, <4>3 DEF Span
    <3>2. spans' = [s \in DOMAIN spans |-> new(s)]
      BY <1>6 DEF ToolResult
    <3> HIDE DEF new
    <3>3. spans' \in Seq(Span)
      BY <3>1, <3>2 DEF ShapeInv
    <3> QED BY <3>3
  <2>2. tracer' \in Tracer
    BY <1>6 DEF ShapeInv, Tracer, ToolResult, ToolSpans
  <2>3. run' \in Run
    BY <1>6 DEF ShapeInv, ToolResult, Run
  <2> QED BY <1>6, <2>1, <2>2, <2>3 DEF ShapeInv, ToolResult, InRun
<1>7. ASSUME NEW k \in Call, Deferred(k) PROVE ShapeInv'
  <2>1. Len(tasks) > 0
    BY <1>7 DEF Deferred, WorkInv, AtWork
  <2>2. tasks' \in Seq(Task)
    BY <1>7, <2>1, DeferredTasks DEF Deferred, ShapeInv, WithDeferred
  <2>3. spans' \in Seq(Span)
    BY <1>7, Fields, BegunLog, PlainSpan DEF ShapeInv, Deferred, SpanName, RequestSpan
  <2>4. tracer' \in Tracer
    <3>1. NewId(spans, traced) \in Nat
      BY Fields DEF ShapeInv
    <3> QED BY <1>7, <3>1, Token DEF ShapeInv, Tracer, Deferred
  <2>5. run' \in Run
    BY <1>7 DEF ShapeInv, Deferred, Run
  <2> QED BY <1>7, <2>2, <2>3, <2>4, <2>5 DEF ShapeInv, Deferred
<1> QED BY <1>1, <1>2, <1>3, <1>4, <1>5, <1>6, <1>7

LEMMA ShapeAtTheEnd ==
  ASSUME ShapeInv, IdsInv, WorkInv,
         \/ RunRaises \/ Cancelled \/ SavePausedHistory \/ SavePauseState
         \/ Finalize \/ SaveRaises \/ HubRestarts
  PROVE  ShapeInv'
<1>1. Idle \in Run
  BY DEF Idle, Run
<1>2. \A o \in Outcome : run.at # "idle" => Reported(o) \in Seq(Task)
  BY ReportedTasks DEF WorkInv, AtWork, ShapeInv
<1>3. {"failed", "cancelled", "paused", "completed", "raised", "lost"} \subseteq Outcome
  BY DEF Outcome
<1>4. Fault => faults' \in 0 .. MaxFaults
  BY TracingAssumption DEF Fault, ShapeInv
<1>5. \A state \in SpanState :
        Ended(Marked(spans, tracer.task, state), tracer.task) \in Seq(Span)
  <2>1. tracer.task \in 0 .. Len(spans)
    BY DEF IdsInv
  <2>2. \A state \in SpanState :
          /\ Marked(spans, tracer.task, state) \in Seq(Span)
          /\ Len(Marked(spans, tracer.task, state)) = Len(spans)
    BY <2>1, MarkedLog DEF ShapeInv
  <2> QED BY <2>1, <2>2, EndedLog
<1>6. "failed" \in SpanState /\ "completed" \in SpanState
  BY DEF SpanState
<1>7. CASE RunRaises
  <2>1. tracer' \in Tracer
    BY <1>7, Token DEF ShapeInv, Tracer, RunRaises
  <2> QED BY <1>1, <1>2, <1>3, <1>4, <1>5, <1>6, <1>7, <2>1, Fields
          DEF ShapeInv, RunRaises
<1>8. CASE Cancelled
  BY <1>1, <1>2, <1>3, <1>4, <1>8 DEF ShapeInv, Cancelled
<1>9. CASE SavePausedHistory
  <2>1. store' \in Store
    BY <1>9 DEF ShapeInv, Store, Run, SavePausedHistory
  <2>2. run' \in Run
    BY <1>9 DEF ShapeInv, Run, Finished, SavePausedHistory
  <2> QED BY <1>9, <2>1, <2>2 DEF ShapeInv, SavePausedHistory
<1>10. CASE SavePauseState
  <2> DEFINE pause == IF tracer.paused = <<>> THEN <<>>
                      ELSE <<[span |-> tracer.paused[1], input |-> run.input]>>
  <2>1. pause \in Pauses
    <3>1. tracer.paused \in Seq(Nat) /\ run.input \in Nat
      BY DEF ShapeInv, Tracer, Tokens, Run
    <3>2. tracer.paused # <<>> => tracer.paused[1] \in Nat
      BY <3>1
    <3>3. <<>> \in Pauses /\ \A n, i \in Nat : <<[span |-> n, input |-> i]>> \in Pauses
      BY DEF Pauses
    <3> QED BY <3>1, <3>2, <3>3
  <2>2. store' = [store EXCEPT !.pause = PauseSaved(pause)]
    BY <1>10 DEF SavePauseState
  <2>3. store' \in Store
    <3>1. store.pause \in Pauses
      BY DEF ShapeInv, Store
    <3>2. PauseSaved(pause) \in Pauses
      BY <2>1, <3>1 DEF PauseSaved
    <3> HIDE DEF pause
    <3> QED BY <2>2, <3>2 DEF ShapeInv, Store
  <2>4. cli' \in Command
    <3>1. NewId(spans, cli.root # 0) \in Nat /\ run.deferred \in SUBSET Call
      BY Fields DEF ShapeInv, Run
    <3> QED BY <1>10, <3>1 DEF ShapeInv, Command, SavePauseState
  <2>5. spans' \in Seq(Span)
    <3>1. cli.root \in Nat
      BY DEF ShapeInv, Command
    <3>2. Plain("wait", 0, cli.root) \in Span
      BY <3>1, PlainSpan DEF SpanName
    <3> QED BY <1>10, <3>2, BegunLog DEF ShapeInv, SavePauseState
  <2> QED BY <1>1, <1>2, <1>3, <1>10, <2>3, <2>4, <2>5 DEF ShapeInv, SavePauseState
<1>11. CASE Finalize
  <2>1. store' \in Store
    BY <1>11 DEF ShapeInv, Store, Finalize
  <2> QED BY <1>1, <1>2, <1>3, <1>5, <1>6, <1>11, <2>1 DEF ShapeInv, Finalize
<1>12. CASE SaveRaises
  BY <1>1, <1>2, <1>3, <1>4, <1>12 DEF ShapeInv, SaveRaises
<1>13. CASE HubRestarts
  <2>1. NewTracer \in Tracer
    BY Token DEF NewTracer, Tracer, ToolSpans
  <2> QED BY <1>1, <1>2, <1>3, <1>4, <1>13, <2>1 DEF ShapeInv, HubRestarts
<1> QED BY <1>7, <1>8, <1>9, <1>10, <1>11, <1>12, <1>13

-----------------------------------------------------------------------------
(* What each step does to the log.                                         *)

\* The step starts x, in a process that records.
Adds(recording, x) ==
  /\ Len(spans') = IF recording THEN Len(spans) + 1 ELSE Len(spans)
  /\ \A s \in 1 .. Len(spans) : spans'[s] = spans[s]
  /\ recording => spans'[Len(spans) + 1] = x

\* The step ends the spans ids, and no other.
Ends(ids) ==
  /\ Len(spans') = Len(spans)
  /\ \A s \in 1 .. Len(spans) :
       /\ Alike(spans'[s], spans[s]) /\ spans'[s].state = spans[s].state
       /\ spans'[s].ended <=> (spans[s].ended \/ s \in ids)

\* The step ends the span of the task, which says how.
Says(state) ==
  /\ Len(spans') = Len(spans)
  /\ \A s \in 1 .. Len(spans) :
       /\ Alike(spans'[s], spans[s])
       /\ spans'[s].state =
            IF s = tracer.task /\ ~spans[s].ended THEN state ELSE spans[s].state
       /\ spans'[s].ended <=> (spans[s].ended \/ s = tracer.task)

LEMMA TypedLog ==
  ASSUME ShapeInv
  PROVE  /\ DOMAIN spans = 1 .. Len(spans) /\ Len(spans) \in Nat
         /\ \A s \in 1 .. Len(spans) : spans[s] \in Span
         /\ \A s \in 1 .. Len(spans) :
              /\ spans[s].task \in Nat /\ spans[s].parent \in Nat
              /\ spans[s].link \in Nat /\ spans[s].input \in Nat
              /\ spans[s].invocation \in Nat /\ spans[s].ended \in BOOLEAN
<1>1. /\ DOMAIN spans = 1 .. Len(spans) /\ Len(spans) \in Nat
      /\ \A s \in 1 .. Len(spans) : spans[s] \in Span
  BY DEF ShapeInv
<1> QED BY <1>1 DEF Span

LEMMA SaysLog ==
  ASSUME ShapeInv, IdsInv, NEW state \in SpanState,
         spans' = Ended(Marked(spans, tracer.task, state), tracer.task)
  PROVE  Says(state)
<1>1. tracer.task \in 0 .. Len(spans) /\ spans \in Seq(Span)
  BY DEF IdsInv, ShapeInv
<1> DEFINE log == Marked(spans, tracer.task, state)
<1>2. /\ log \in Seq(Span) /\ Len(log) = Len(spans)
      /\ \A s \in 1 .. Len(spans) :
           /\ Alike(log[s], spans[s])
           /\ log[s].state =
                IF s = tracer.task /\ ~spans[tracer.task].ended THEN state
                                                                ELSE spans[s].state
           /\ log[s].ended <=> spans[s].ended
  BY <1>1, MarkedLog
<1>3. spans' = Ended(log, tracer.task)
  OBVIOUS
<1> HIDE DEF log
<1>4. /\ Len(spans') = Len(log)
      /\ \A s \in 1 .. Len(log) :
           /\ Alike(spans'[s], log[s]) /\ spans'[s].state = log[s].state
           /\ spans'[s].ended <=> (log[s].ended \/ s = tracer.task)
  BY <1>1, <1>2, <1>3, EndedLog
<1>5. \A s \in 1 .. Len(spans) : Alike(spans'[s], spans[s])
  BY <1>2, <1>4 DEF Alike
<1> QED BY <1>2, <1>4, <1>5 DEF Says

LEMMA AddsLog ==
  ASSUME ShapeInv, NEW recording \in BOOLEAN, NEW x \in Span,
         spans' = Begun(spans, recording, x)
  PROVE  Adds(recording, x)
<1>1. spans \in Seq(Span)
  BY DEF ShapeInv
<1> QED BY <1>1, BegunLog DEF Adds

LEMMA EndsLog ==
  ASSUME ShapeInv, NEW s \in 0 .. Len(spans), spans' = Ended(spans, s)
  PROVE  Ends({s})
<1>1. spans \in Seq(Span)
  BY DEF ShapeInv
<1> QED BY <1>1, EndedLog DEF Ends

LEMMA CliStartsLog ==
  ASSUME ShapeInv, NEW recording \in BOOLEAN, CliStarts(recording)
  PROVE  Adds(recording, [Plain("cli", 0, 0) EXCEPT !.invocation = cli.invocation + 1])
<1>1. [Plain("cli", 0, 0) EXCEPT !.invocation = cli.invocation + 1] \in Span
  BY Fields, PlainSpan DEF SpanName
<1> QED BY <1>1, AddsLog DEF CliStarts

LEMMA CliEndsLog ==
  ASSUME ShapeInv, IdsInv, CliEnds
  PROVE  Ends({cli.wait, cli.root})
<1>1. spans \in Seq(Span) /\ cli.wait \in 0 .. Len(spans) /\ cli.root \in 0 .. Len(spans)
  BY DEF ShapeInv, IdsInv
<1> DEFINE log == Ended(spans, cli.wait)
<1>2. /\ log \in Seq(Span) /\ Len(log) = Len(spans)
      /\ \A s \in 1 .. Len(spans) :
           /\ Alike(log[s], spans[s]) /\ log[s].state = spans[s].state
           /\ log[s].ended <=> (spans[s].ended \/ s = cli.wait)
  BY <1>1, EndedLog
<1>3. spans' = Ended(log, cli.root)
  BY DEF CliEnds
<1> HIDE DEF log
<1>4. /\ Len(spans') = Len(log)
      /\ \A s \in 1 .. Len(log) :
           /\ Alike(spans'[s], log[s]) /\ spans'[s].state = log[s].state
           /\ spans'[s].ended <=> (log[s].ended \/ s = cli.root)
  BY <1>1, <1>2, <1>3, EndedLog
<1>5. \A s \in 1 .. Len(spans) : Alike(spans'[s], spans[s])
  BY <1>2, <1>4 DEF Alike
<1> QED BY <1>2, <1>4, <1>5 DEF Ends

LEMMA StepStartLog ==
  ASSUME ShapeInv, NEW kind \in {"request", "tools"}, StepStart(kind)
  PROVE  Adds(traced, Plain("step", Me, Parent))
<1>1. Plain("step", Me, Parent) \in Span /\ traced \in BOOLEAN
  BY Fields, PlainSpan DEF SpanName, ShapeInv
<1> QED BY <1>1, AddsLog DEF StepStart

LEMMA ToolCallLog ==
  ASSUME ShapeInv, NEW k \in Call, ToolCall(k)
  PROVE  Adds(traced, [Plain("tool", Me, Parent) EXCEPT !.call = k])
<1>1. [Plain("tool", Me, Parent) EXCEPT !.call = k] \in Span /\ traced \in BOOLEAN
  BY Fields, PlainSpan DEF SpanName, ShapeInv
<1> QED BY <1>1, AddsLog DEF ToolCall

LEMMA DeferredLog ==
  ASSUME ShapeInv, NEW k \in Call, Deferred(k)
  PROVE  Adds(traced, RequestSpan(k))
<1>1. RequestSpan(k) \in Span /\ traced \in BOOLEAN
  BY Fields, PlainSpan DEF SpanName, ShapeInv, RequestSpan
<1> QED BY <1>1, AddsLog DEF Deferred

LEMMA SavePauseStateLog ==
  ASSUME ShapeInv, SavePauseState
  PROVE  Adds(cli.root # 0, Plain("wait", 0, cli.root))
<1>1. Plain("wait", 0, cli.root) \in Span
  <2>1. cli.root \in Nat
    BY DEF ShapeInv, Command
  <2> QED BY <2>1, PlainSpan DEF SpanName
<1> QED BY <1>1, AddsLog DEF SavePauseState

LEMMA ToolResultLog ==
  ASSUME ShapeInv, IdsInv, NEW k \in Call, ToolResult(k)
  PROVE  Ends({e[2] : e \in {d \in tracer.tools : d[1] = k}})
<1> DEFINE mine == {e \in tracer.tools : e[1] = k}
           new(s) == [spans[s] EXCEPT
                        !.ended = spans[s].ended \/ \E e \in mine : e[2] = s]
<1>1. spans' = [s \in DOMAIN spans |-> new(s)]
  BY DEF ToolResult
<1>2. ASSUME NEW s \in DOMAIN spans
      PROVE  /\ Alike(new(s), spans[s]) /\ new(s).state = spans[s].state
             /\ new(s).ended <=> (spans[s].ended \/ \E e \in mine : e[2] = s)
  <2>1. spans[s] \in Span
    BY DEF ShapeInv
  <2> HIDE DEF mine
  <2> QED BY <2>1 DEF Span, Alike
<1> HIDE DEF new
<1>3. \A s \in DOMAIN spans : spans'[s] = new(s)
  BY <1>1
<1>4. Len(spans') = Len(spans) /\ DOMAIN spans = 1 .. Len(spans)
  BY <1>1 DEF ShapeInv
<1> QED BY <1>2, <1>3, <1>4 DEF Ends

LEMMA StepEndLog ==
  ASSUME ShapeInv, IdsInv, StepEnd
  PROVE  Ends({tracer.step})
  BY EndsLog DEF StepEnd, IdsInv

LEMMA LoadPauseRaisesLog ==
  ASSUME ShapeInv, IdsInv, LoadPauseRaises
  PROVE  Ends({cli.wait})
  BY EndsLog DEF LoadPauseRaises, IdsInv

LEMMA RunEndsLog ==
  ASSUME ShapeInv, IdsInv, RunEnds
  PROVE  IF run.deferred # {} THEN Says("paused") ELSE spans' = spans
<1>1. "paused" \in SpanState
  BY DEF SpanState
<1> QED BY <1>1, SaysLog DEF RunEnds

LEMMA RunRaisesLog ==
  ASSUME ShapeInv, IdsInv, RunRaises
  PROVE  Says("failed")
<1>1. "failed" \in SpanState
  BY DEF SpanState
<1> QED BY <1>1, SaysLog DEF RunRaises

LEMMA FinalizeLog ==
  ASSUME ShapeInv, IdsInv, Finalize
  PROVE  Says("completed")
<1>1. "completed" \in SpanState
  BY DEF SpanState
<1> QED BY <1>1, SaysLog DEF Finalize

\* The task's span and, for an answer to a pause that left its span, the
\* decision under it.
ReceiveLog(words, verdicts) ==
  LET prior == IF verdicts = {} THEN <<>> ELSE store.pause
      n     == Len(spans) IN
  /\ Len(spans') = IF ~traced THEN n ELSE IF prior = <<>> THEN n + 1 ELSE n + 2
  /\ \A s \in 1 .. n :
       /\ Alike(spans'[s], spans[s]) /\ spans'[s].state = spans[s].state
       /\ spans'[s].ended <=> (spans[s].ended \/ s = cli.wait)
  /\ traced =>
       LET x == spans'[n + 1] IN
       /\ x.name = "task" /\ x.task = Me' /\ x.parent = 0 /\ ~x.ended
       /\ x.link = MakeLink(prior) /\ x.state \in {"running", "resumed"}
       /\ x.input = Input(words, prior) /\ x.invocation = Baggage
  /\ traced /\ prior # <<>> =>
       LET x == spans'[n + 2] IN
       /\ x.name = "decided" /\ x.task = Me' /\ x.parent = n + 1 /\ x.ended
       /\ x.link = MakeLink(prior)

LEMMA ReceivedLog ==
  ASSUME ShapeInv, ShapeInv', IdsInv, NEW words \in Nat,
         NEW verdicts \in SUBSET Verdict, NEW turn \in Nat,
         Receive(words, verdicts, turn)
  PROVE  ReceiveLog(words, verdicts)
<1> DEFINE prior == IF verdicts = {} THEN <<>> ELSE store.pause
           n     == Len(spans)
           log   == Ended(spans, cli.wait)
           span  == NewId(log, traced)
           first == [Plain("task", Me', 0) EXCEPT
                       !.link = MakeLink(prior), !.state = "running",
                       !.input = Input(words, prior), !.invocation = Baggage]
           begun == Begun(log, traced, first)
           decided == [Plain("decided", Me', span) EXCEPT
                         !.link = MakeLink(prior), !.state = Aggregated(verdicts),
                         !.ended = TRUE]
           grown == Begun(begun, traced, decided)
<1>1. /\ log \in Seq(Span) /\ Len(log) = n /\ n \in Nat
      /\ \A s \in 1 .. n :
           /\ Alike(log[s], spans[s]) /\ log[s].state = spans[s].state
           /\ log[s].ended <=> (spans[s].ended \/ s = cli.wait)
  <2>1. spans \in Seq(Span) /\ cli.wait \in 0 .. Len(spans)
    BY DEF ShapeInv, IdsInv
  <2> QED BY <2>1, EndedLog
<1>2. spans' = IF verdicts = {} \/ prior = <<>> THEN begun
               ELSE Marked(grown, span, "resumed")
  BY DEF Receive, EmitApprovalDecided, StartTaskSpan
<1>3. Me' \in Nat /\ MakeLink(prior) \in Nat /\ Input(words, prior) \in Nat
      /\ Baggage \in Nat /\ traced \in BOOLEAN
  <2>1. prior # <<>> => prior[1].span \in Nat /\ prior[1].input \in Nat
    BY FirstPause DEF ShapeInv, Store
  <2>2. Me' \in Nat
    BY DEF ShapeInv, Me
  <2> HIDE DEF prior
  <2> QED BY <2>1, <2>2, Fields DEF MakeLink, Input, ShapeInv
<1>4. span = IF traced THEN n + 1 ELSE 0
  BY <1>1 DEF NewId
<1>5. first \in Span
  BY <1>3, PlainSpan DEF SpanName
<1>6. decided \in Span
  <2>1. Aggregated(verdicts) \in SpanState
    BY DEF Aggregated, SpanState, Verdict
  <2>2. span \in Nat
    BY <1>1, <1>4
  <2> QED BY <2>1, <2>2, <1>3, PlainSpan DEF SpanName
<1>7. /\ first.name = "task" /\ first.task = Me' /\ first.parent = 0
      /\ first.ended = FALSE /\ first.link = MakeLink(prior)
      /\ first.state = "running"
      /\ first.input = Input(words, prior) /\ first.invocation = Baggage
  BY DEF Plain
<1>8. /\ decided.name = "decided" /\ decided.task = Me' /\ decided.parent = span
      /\ decided.ended = TRUE /\ decided.link = MakeLink(prior)
  BY DEF Plain
<1>9. prior # <<>> => verdicts # {}
  OBVIOUS
<1> HIDE DEF log, span, first, decided, prior, n
<1>10. /\ begun \in Seq(Span) /\ Len(begun) = IF traced THEN n + 1 ELSE n
       /\ \A s \in 1 .. n : begun[s] = log[s]
       /\ traced => begun[n + 1] = first
  BY <1>1, <1>3, <1>5, BegunLog
<1> HIDE DEF begun
<1>11. /\ grown \in Seq(Span) /\ Len(grown) = IF traced THEN n + 2 ELSE n
       /\ \A s \in 1 .. n : grown[s] = log[s]
       /\ traced => grown[n + 1] = first /\ grown[n + 2] = decided
  <2>1. /\ grown \in Seq(Span)
        /\ Len(grown) = IF traced THEN Len(begun) + 1 ELSE Len(begun)
        /\ \A s \in 1 .. Len(begun) : grown[s] = begun[s]
        /\ traced => grown[Len(begun) + 1] = decided
    BY <1>3, <1>6, <1>10, BegunLog
  <2>2. n \in Nat
    BY <1>1
  <2>3. CASE traced
    <3>1. Len(begun) = n + 1 /\ n + 1 \in 1 .. Len(begun) /\ Len(begun) + 1 = n + 2
      BY <1>10, <2>2, <2>3
    <3>2. \A s \in 1 .. n : s \in 1 .. Len(begun)
      BY <2>2, <3>1
    <3> QED BY <1>10, <2>1, <2>3, <3>1, <3>2
  <2>4. CASE ~traced
    BY <1>10, <2>1, <2>4
  <2> QED BY <2>3, <2>4
<1> HIDE DEF grown
<1>12. CASE prior = <<>>
  <2>1. spans' = begun
    BY <1>2, <1>12
  <2> QED BY <1>1, <1>7, <1>10, <1>12, <2>1 DEF ReceiveLog, prior, n
<1>13. CASE prior # <<>>
  <2>1. spans' = Marked(grown, span, "resumed")
    BY <1>2, <1>9, <1>13
  <2>2. span \in 0 .. Len(grown) /\ "resumed" \in SpanState
    BY <1>1, <1>4, <1>11 DEF SpanState
  <2>3. /\ Len(spans') = Len(grown)
        /\ \A r \in 1 .. Len(grown) :
             /\ Alike(spans'[r], grown[r])
             /\ spans'[r].state = IF r = span /\ ~grown[span].ended THEN "resumed"
                                  ELSE grown[r].state
             /\ spans'[r].ended <=> grown[r].ended
    BY <1>11, <2>1, <2>2, MarkedLog
  <2>4. \A s \in 1 .. n :
           /\ Alike(spans'[s], spans[s]) /\ spans'[s].state = spans[s].state
           /\ spans'[s].ended <=> (spans[s].ended \/ s = cli.wait)
    <3> TAKE s \in 1 .. n
    <3>1. s \in 1 .. Len(grown) /\ s # span
      BY <1>1, <1>4, <1>11
    <3>2. grown[s] = log[s]
      BY <1>11
    <3>3. Alike(spans'[s], log[s]) /\ spans'[s].state = log[s].state
          /\ (spans'[s].ended <=> log[s].ended)
      BY <2>3, <3>1, <3>2
    <3> QED BY <1>1, <3>3 DEF Alike
  <2>5. traced => LET x == spans'[n + 1] IN
       /\ x.name = "task" /\ x.task = Me' /\ x.parent = 0 /\ ~x.ended
       /\ x.link = MakeLink(prior) /\ x.state = "resumed"
       /\ x.input = Input(words, prior) /\ x.invocation = Baggage
    <3> HAVE traced
    <3>1. n + 1 \in 1 .. Len(grown) /\ n + 1 = span /\ grown[n + 1] = first
      BY <1>1, <1>4, <1>11
    <3> QED BY <1>7, <2>3, <3>1 DEF Alike
  <2>6. traced => LET x == spans'[n + 2] IN
       /\ x.name = "decided" /\ x.task = Me' /\ x.parent = n + 1 /\ x.ended
       /\ x.link = MakeLink(prior)
    <3> HAVE traced
    <3>1. n + 2 \in 1 .. Len(grown) /\ n + 2 # span /\ grown[n + 2] = decided
          /\ n + 1 = span
      BY <1>1, <1>4, <1>11
    <3> QED BY <1>8, <2>3, <3>1 DEF Alike
  <2>7. Len(spans') = IF traced THEN n + 2 ELSE n
    BY <1>11, <2>3
  <2> QED BY <1>13, <2>4, <2>5, <2>6, <2>7 DEF ReceiveLog, prior, n
<1> QED BY <1>12, <1>13

-----------------------------------------------------------------------------
(* The log only grows, and so does what the tasks have called.             *)

Grows ==
  /\ Len(spans') \in Nat /\ Len(spans) <= Len(spans')
  /\ \A s \in 1 .. Len(spans) :
       Alike(spans'[s], spans[s]) /\ (spans[s].ended => spans'[s].ended)

TasksGrow ==
  /\ Len(tasks') \in Nat /\ Len(tasks) <= Len(tasks')
  /\ \A t \in 1 .. Len(tasks) :
       /\ tasks'[t].turn = tasks[t].turn /\ tasks'[t].answers = tasks[t].answers
       /\ tasks'[t].command = tasks[t].command
       /\ tasks[t].called \subseteq tasks'[t].called
       /\ t # Me \/ Len(tasks') # Len(tasks) =>
            tasks'[t].outcome = tasks[t].outcome /\ tasks'[t].deferred = tasks[t].deferred

LEMMA GrowsBy ==
  ASSUME ShapeInv,
         \/ spans' = spans
         \/ \E recording \in BOOLEAN, x \in Span : Adds(recording, x)
         \/ \E ids : Ends(ids)
         \/ \E state \in SpanState : Says(state)
         \/ \E words, verdicts : ReceiveLog(words, verdicts)
  PROVE  Grows
<1>1. Len(spans) \in Nat /\ \A s \in 1 .. Len(spans) : Alike(spans[s], spans[s])
  BY DEF ShapeInv, Alike
<1>2. CASE spans' = spans
  BY <1>1, <1>2 DEF Grows
<1>3. CASE \E recording \in BOOLEAN, x \in Span : Adds(recording, x)
  BY <1>1, <1>3 DEF Grows, Adds
<1>4. CASE \E ids : Ends(ids)
  BY <1>1, <1>4 DEF Grows, Ends
<1>5. CASE \E state \in SpanState : Says(state)
  BY <1>1, <1>5 DEF Grows, Says
<1>6. CASE \E words, verdicts : ReceiveLog(words, verdicts)
  <2>1. PICK words, verdicts : ReceiveLog(words, verdicts)
    BY <1>6
  <2>2. Len(spans') \in {Len(spans), Len(spans) + 1, Len(spans) + 2}
    BY <2>1 DEF ReceiveLog
  <2>3. \A s \in 1 .. Len(spans) :
          Alike(spans'[s], spans[s]) /\ (spans[s].ended => spans'[s].ended)
    BY <2>1 DEF ReceiveLog
  <2> QED BY <1>1, <2>2, <2>3 DEF Grows
<1> QED BY <1>2, <1>3, <1>4, <1>5, <1>6

\* A message of the command.
LEMMA MessageReceived ==
  ASSUME ShapeInv, AskedInv,
         \/ SendWords
         \/ \E verdicts \in Answers : SendAnswers(verdicts)
  PROVE  \E words \in Nat, verdicts \in SUBSET Verdict, turn \in Nat :
           /\ Receive(words, verdicts, turn)
           /\ \/ verdicts = {} /\ words = turn /\ words # 0
              \/ verdicts # {} /\ words = 0 /\ turn = Turn /\ cli.asked # {}
<1>1. CASE SendWords
  <2>1. Len(tasks) + 1 \in Nat /\ Len(tasks) + 1 # 0
    BY DEF ShapeInv
  <2> QED BY <1>1, <2>1 DEF SendWords
<1>2. ASSUME NEW verdicts \in Answers, SendAnswers(verdicts)
      PROVE  Receive(0, verdicts, Turn) /\ cli.asked # {} /\ verdicts # {}
             /\ verdicts \in SUBSET Verdict /\ Turn \in Nat
  <2>1. verdicts \in SUBSET Verdict /\ verdicts # {}
    <3>1. verdicts \in (SUBSET Verdict) \ {{}}
      BY TracingAssumption
    <3> QED BY <3>1
  <2>2. cli.asked # {} /\ Receive(0, verdicts, Turn)
    BY <1>2 DEF SendAnswers
  <2>3. Me \in 1 .. Len(tasks)
    BY <2>2 DEF AskedInv, ShapeInv, Me
  <2>4. tasks[Me] \in Task
    BY <2>3 DEF ShapeInv
  <2>5. Turn \in Nat
    BY <2>4 DEF Turn, Task
  <2> QED BY <2>1, <2>2, <2>5
<1> QED BY <1>1, <1>2

LEMMA LogGrows ==
  ASSUME ShapeInv, ShapeInv', IdsInv, AskedInv, Next
  PROVE  Grows
<1>1. CASE SendWords \/ \E verdicts \in Answers : SendAnswers(verdicts)
  <2>1. PICK words \in Nat, verdicts \in SUBSET Verdict, turn \in Nat :
          Receive(words, verdicts, turn)
    BY <1>1, MessageReceived
  <2> QED BY <2>1, ReceivedLog, GrowsBy
<1>2. ASSUME NEW recording \in BOOLEAN, CliStarts(recording) PROVE Grows
  <2>1. [Plain("cli", 0, 0) EXCEPT !.invocation = cli.invocation + 1] \in Span
    BY Fields, PlainSpan DEF SpanName
  <2> QED BY <1>2, <2>1, CliStartsLog, GrowsBy
<1>3. ASSUME NEW kind \in {"request", "tools"}, StepStart(kind) PROVE Grows
  <2>1. Plain("step", Me, Parent) \in Span /\ traced \in BOOLEAN
    BY Fields, PlainSpan DEF SpanName, ShapeInv
  <2> QED BY <1>3, <2>1, StepStartLog, GrowsBy
<1>4. ASSUME NEW k \in Call, ToolCall(k) PROVE Grows
  <2>1. [Plain("tool", Me, Parent) EXCEPT !.call = k] \in Span /\ traced \in BOOLEAN
    BY Fields, PlainSpan DEF SpanName, ShapeInv
  <2> QED BY <1>4, <2>1, ToolCallLog, GrowsBy
<1>5. ASSUME NEW k \in Call, Deferred(k) PROVE Grows
  <2>1. RequestSpan(k) \in Span /\ traced \in BOOLEAN
    BY Fields, PlainSpan DEF SpanName, ShapeInv, RequestSpan
  <2> QED BY <1>5, <2>1, DeferredLog, GrowsBy
<1>6. CASE SavePauseState
  <2>1. Plain("wait", 0, cli.root) \in Span
    <3>1. cli.root \in Nat
      BY DEF ShapeInv, Command
    <3> QED BY <3>1, PlainSpan DEF SpanName
  <2> QED BY <1>6, <2>1, SavePauseStateLog, GrowsBy
<1>7. CASE CliEnds \/ StepEnd \/ LoadPauseRaises \/ \E k \in Call : ToolResult(k)
  BY <1>7, CliEndsLog, StepEndLog, LoadPauseRaisesLog, ToolResultLog, GrowsBy
<1>8. CASE RunEnds \/ RunRaises \/ Finalize
  <2>1. {"paused", "failed", "completed"} \subseteq SpanState
    BY DEF SpanState
  <2> QED BY <1>8, <2>1, RunEndsLog, RunRaisesLog, FinalizeLog, GrowsBy
<1>9. CASE StartRun \/ Cancelled \/ SavePausedHistory \/ SaveRaises \/ HubRestarts
  <2>1. spans' = spans
    BY <1>9 DEF StartRun, Cancelled, SavePausedHistory, SaveRaises, HubRestarts
  <2> QED BY <2>1, GrowsBy
<1> QED BY <1>1, <1>2, <1>3, <1>4, <1>5, <1>6, <1>7, <1>8, <1>9 DEF Next

LEMMA TasksGrowBy ==
  ASSUME ShapeInv, WorkInv, AskedInv, Next
  PROVE  TasksGrow
<1>1. tasks \in Seq(Task) /\ Len(tasks) \in Nat
  BY DEF ShapeInv
<1>2. tasks' = tasks => TasksGrow
  BY <1>1 DEF TasksGrow
<1>3. ASSUME Len(tasks) > 0, NEW outcome \in Outcome, tasks' = Reported(outcome)
      PROVE  TasksGrow
  BY <1>1, <1>3, ReportedTasks DEF TasksGrow
<1>4. run.at # "idle" => Len(tasks) > 0
  BY DEF WorkInv, AtWork
<1>5. {"failed", "cancelled", "paused", "completed", "raised", "lost"} \subseteq Outcome
  BY DEF Outcome
<1>6. ASSUME NEW x, tasks' = Append(tasks, x) PROVE TasksGrow
  BY <1>1, <1>6 DEF TasksGrow
<1>7. CASE SendWords \/ \E verdicts \in Answers : SendAnswers(verdicts)
  BY <1>6, <1>7, MessageReceived DEF Receive
<1>8. CASE LoadPauseRaises
  BY <1>6, <1>8 DEF LoadPauseRaises
<1>9. ASSUME NEW k \in Call, ToolCall(k) PROVE TasksGrow
  <2>1. tasks' = WithCall(k) /\ Len(tasks) > 0
    BY <1>4, <1>9 DEF ToolCall, WithCall
  <2>2. /\ Len(tasks') = Len(tasks)
        /\ \A t \in 1 .. Len(tasks) :
             /\ tasks'[t].called =
                  IF t = Me THEN tasks[t].called \cup {k} ELSE tasks[t].called
             /\ tasks'[t].outcome = tasks[t].outcome
             /\ tasks'[t].turn = tasks[t].turn
             /\ tasks'[t].answers = tasks[t].answers
             /\ tasks'[t].deferred = tasks[t].deferred
             /\ tasks'[t].command = tasks[t].command
    BY <1>1, <2>1, CalledTasks
  <2>3. \A t \in 1 .. Len(tasks) : tasks[t].called \subseteq tasks'[t].called
    BY <2>2
  <2>4. \A t \in 1 .. Len(tasks) :
          /\ tasks'[t].outcome = tasks[t].outcome
          /\ tasks'[t].turn = tasks[t].turn
          /\ tasks'[t].answers = tasks[t].answers
          /\ tasks'[t].deferred = tasks[t].deferred
          /\ tasks'[t].command = tasks[t].command
    BY <2>2
  <2>5. Len(tasks') = Len(tasks)
    BY <2>2
  <2> QED BY <1>1, <2>3, <2>4, <2>5 DEF TasksGrow
<1>10. ASSUME NEW k \in Call, Deferred(k) PROVE TasksGrow
  <2>1. tasks' = WithDeferred(k) /\ Len(tasks) > 0
    BY <1>4, <1>10 DEF Deferred, WithDeferred
  <2>2. /\ Len(tasks') = Len(tasks)
        /\ \A t \in 1 .. Len(tasks) :
             /\ tasks'[t].deferred =
                  IF t = Me THEN Append(tasks[t].deferred, k) ELSE tasks[t].deferred
             /\ tasks'[t].outcome = tasks[t].outcome
             /\ tasks'[t].turn = tasks[t].turn
             /\ tasks'[t].answers = tasks[t].answers
             /\ tasks'[t].called = tasks[t].called
             /\ tasks'[t].command = tasks[t].command
    BY <1>1, <2>1, DeferredTasks
  <2>3. \A t \in 1 .. Len(tasks) :
          /\ tasks[t].called \subseteq tasks'[t].called
          /\ t # Me => tasks'[t].deferred = tasks[t].deferred
    BY <2>2
  <2>4. \A t \in 1 .. Len(tasks) :
          /\ tasks'[t].outcome = tasks[t].outcome
          /\ tasks'[t].turn = tasks[t].turn
          /\ tasks'[t].answers = tasks[t].answers
          /\ tasks'[t].command = tasks[t].command
    BY <2>2
  <2>5. Len(tasks') = Len(tasks)
    BY <2>2
  <2> QED BY <1>1, <2>3, <2>4, <2>5 DEF TasksGrow
<1>11. CASE RunRaises \/ Cancelled \/ SavePauseState \/ Finalize \/ SaveRaises
            \/ HubRestarts
  <2>1. \/ tasks' = tasks
        \/ run.at # "idle" /\ \E outcome \in Outcome : tasks' = Reported(outcome)
    BY <1>5, <1>11
       DEF RunRaises, Cancelled, SavePauseState, Finalize, SaveRaises, HubRestarts
  <2> QED BY <1>2, <1>3, <1>4, <2>1
<1>12. CASE CliEnds \/ StartRun \/ StepEnd \/ RunEnds \/ SavePausedHistory
  BY <1>2, <1>12 DEF CliEnds, StartRun, StepEnd, RunEnds, SavePausedHistory, InRun
<1>13. ASSUME NEW recording \in BOOLEAN, CliStarts(recording) PROVE TasksGrow
  BY <1>2, <1>13 DEF CliStarts
<1>14. ASSUME NEW kind \in {"request", "tools"}, StepStart(kind) PROVE TasksGrow
  BY <1>2, <1>14 DEF StepStart, InRun
<1>15. ASSUME NEW k \in Call, ToolResult(k) PROVE TasksGrow
  BY <1>2, <1>15 DEF ToolResult, InRun
<1> QED BY <1>7, <1>8, <1>9, <1>10, <1>11, <1>12, <1>13, <1>14, <1>15 DEF Next

\* Is, of the next state.
WillBe(s, name, t) ==
  s \in DOMAIN spans' /\ spans'[s].name = name /\ spans'[s].task = t

LEMMA IsKept ==
  ASSUME ShapeInv, ShapeInv', Grows
  PROVE  \A s, name, t : Is(s, name, t) => WillBe(s, name, t)
<1> SUFFICES ASSUME NEW s, NEW name, NEW t, Is(s, name, t)
             PROVE  WillBe(s, name, t)
  OBVIOUS
<1>1. s \in 1 .. Len(spans)
  BY DEF Is, ShapeInv
<1>2. s \in 1 .. Len(spans') /\ Alike(spans'[s], spans[s])
  BY <1>1 DEF Grows, ShapeInv
<1>3. s \in DOMAIN spans'
  BY <1>2 DEF ShapeInv
<1> QED BY <1>2, <1>3 DEF Is, WillBe, Alike

LEMMA IsOld ==
  ASSUME ShapeInv, ShapeInv', Grows
  PROVE  \A s \in 1 .. Len(spans) : \A name, t : WillBe(s, name, t) => Is(s, name, t)
<1> SUFFICES ASSUME NEW s \in 1 .. Len(spans), NEW name, NEW t, WillBe(s, name, t)
             PROVE  Is(s, name, t)
  OBVIOUS
<1>1. s \in DOMAIN spans /\ Alike(spans'[s], spans[s])
  BY DEF Grows, ShapeInv
<1> QED BY <1>1 DEF Is, WillBe, Alike

-----------------------------------------------------------------------------
(* The tree of spans.                                                      *)

\* The spans that were there stay in place; those the step starts have to be.
LEMMA TreeFrame ==
  ASSUME ShapeInv, ShapeInv', TreeInv, Grows, TasksGrow,
         \A s \in Len(spans) + 1 .. Len(spans') :
           /\ Placed(s)'
           /\ spans'[s].name = "task" => spans'[s].task > Len(tasks)
           /\ spans'[s].name = "tool" /\ spans'[s].task \in 1 .. Len(tasks) =>
                spans'[s].call \notin tasks[spans'[s].task].called
  PROVE  TreeInv'
<1>1. /\ DOMAIN spans = 1 .. Len(spans) /\ DOMAIN spans' = 1 .. Len(spans')
      /\ Len(spans) \in Nat /\ Len(spans') \in Nat
      /\ Len(tasks) \in Nat /\ Len(tasks') \in Nat
  BY DEF ShapeInv
<1>2. ASSUME NEW s \in 1 .. Len(spans) PROVE Placed(s)'
  <2>1. Placed(s) /\ Alike(spans'[s], spans[s]) /\ spans[s].task \in Nat
    BY <1>1, TypedLog DEF TreeInv, Grows
  <2> DEFINE x == spans[s]
             y == spans'[s]
  <2>2. /\ y.name = x.name /\ y.task = x.task /\ y.parent = x.parent
        /\ y.link = x.link /\ y.call = x.call
    BY <2>1 DEF Alike
  <2>3. /\ x.parent < s /\ x.link < s /\ x.task \in 0 .. Len(tasks)
        /\ x.task = 0 <=> x.name \in {"cli", "wait"}
        /\ x.name \in {"step", "request", "decided"} => Is(x.parent, "task", x.task)
        /\ x.name = "tool" => Is(x.parent, "step", x.task)
    BY <2>1 DEF Placed
  <2>4. x.task \in 0 .. Len(tasks')
    BY <1>1, <2>3 DEF TasksGrow
  <2>5. /\ x.name \in {"step", "request", "decided"} => WillBe(x.parent, "task", x.task)
        /\ x.name = "tool" => WillBe(x.parent, "step", x.task)
    BY <2>3, IsKept
  <2>6. x.name = "task" => \A r : WillBe(r, "task", x.task) => r = s
    <3> SUFFICES ASSUME x.name = "task", NEW r, WillBe(r, "task", x.task)
                 PROVE  r = s
      OBVIOUS
    <3>1. spans'[r].name = "task" /\ spans'[r].task = x.task
         /\ r \in 1 .. Len(spans')
      BY <1>1 DEF WillBe
    <3>2. r \in 1 .. Len(spans)
      BY <1>1, <2>3, <3>1
    <3>3. Is(r, "task", x.task)
      BY <3>2, IsOld
    <3> QED BY <1>1, <2>1, <3>2, <3>3 DEF Placed
  <2>7. x.name = "tool" =>
          /\ x.call \in tasks'[x.task].called
          /\ \A r : WillBe(r, "tool", x.task) /\ spans'[r].call = x.call => r = s
    <3> SUFFICES ASSUME x.name = "tool"
                 PROVE  /\ x.call \in tasks'[x.task].called
                        /\ \A r : WillBe(r, "tool", x.task) /\ spans'[r].call = x.call
                                    => r = s
      OBVIOUS
    <3>1. x.task \in 1 .. Len(tasks) /\ x.call \in tasks[x.task].called
      BY <2>1, <2>3 DEF Placed
    <3>2. x.call \in tasks'[x.task].called
      BY <3>1 DEF TasksGrow
    <3>3. ASSUME NEW r, WillBe(r, "tool", x.task), spans'[r].call = x.call
          PROVE  r = s
      <4>1. spans'[r].name = "tool" /\ spans'[r].task = x.task
           /\ r \in 1 .. Len(spans')
        BY <1>1, <3>3 DEF WillBe
      <4>2. r \in 1 .. Len(spans)
        BY <1>1, <3>1, <3>3, <4>1
      <4>3. Is(r, "tool", x.task) /\ spans[r].call = x.call
        <5>1. Is(r, "tool", x.task)
          BY <3>3, <4>2, IsOld
        <5>2. Alike(spans'[r], spans[r])
          BY <4>2 DEF Grows
        <5> QED BY <3>3, <5>1, <5>2 DEF Alike
      <4> QED BY <1>1, <2>1, <4>2, <4>3 DEF Placed
    <3> QED BY <3>2, <3>3
  <2> HIDE DEF x
  <2> QED BY <2>2, <2>3, <2>4, <2>5, <2>6, <2>7 DEF Placed, Is, WillBe
<1>3. \A s \in 1 .. Len(spans') :
        s \in 1 .. Len(spans) \/ s \in Len(spans) + 1 .. Len(spans')
  BY <1>1
<1> QED BY <1>1, <1>2, <1>3 DEF TreeInv

LEMMA PlainFields ==
  \A name, task, parent :
    LET x == Plain(name, task, parent) IN
    /\ x.name = name /\ x.task = task /\ x.parent = parent /\ x.link = 0
    /\ x.call = NoCall /\ x.ended = FALSE
  BY DEF Plain

\* The span a step adds, in the log and in its place.
LEMMA AddedSpan ==
  ASSUME ShapeInv, ShapeInv', NEW recording \in BOOLEAN, NEW x, Adds(recording, x),
         NEW s \in Len(spans) + 1 .. Len(spans')
  PROVE  /\ recording /\ s = Len(spans) + 1 /\ spans'[s] = x
         /\ s \in DOMAIN spans' /\ s \in Nat
<1>1. Len(spans) \in Nat /\ DOMAIN spans' = 1 .. Len(spans')
  BY DEF ShapeInv
<1> QED BY <1>1 DEF Adds

LEMMA TreeAddsOutside ==
  ASSUME ShapeInv, ShapeInv', IdsInv, TreeInv, CliInv, Grows, TasksGrow,
         \/ \E recording \in BOOLEAN : CliStarts(recording)
         \/ SavePauseState
  PROVE  TreeInv'
<1>1. Len(tasks) \in Nat /\ Len(tasks') \in Nat /\ Len(spans) \in Nat
  BY DEF ShapeInv
<1>2. \E recording \in BOOLEAN, x \in Span :
        /\ Adds(recording, x) /\ x.name \in {"cli", "wait"} /\ x.task = 0
        /\ x.parent \in 0 .. Len(spans) /\ x.link = 0
  <2>1. ASSUME NEW recording \in BOOLEAN, CliStarts(recording)
        PROVE  LET x == [Plain("cli", 0, 0) EXCEPT !.invocation = cli.invocation + 1]
               IN /\ Adds(recording, x) /\ x.name = "cli" /\ x.task = 0
                  /\ x.parent = 0 /\ x.link = 0 /\ x \in Span
    <3>1. [Plain("cli", 0, 0) EXCEPT !.invocation = cli.invocation + 1] \in Span
      BY Fields, PlainSpan DEF SpanName
    <3> QED BY <2>1, <3>1, CliStartsLog DEF Plain
  <2>2. ASSUME SavePauseState
        PROVE  LET x == Plain("wait", 0, cli.root)
               IN /\ Adds(cli.root # 0, x) /\ x.name = "wait" /\ x.task = 0
                  /\ x.parent = cli.root /\ x.link = 0 /\ x \in Span
    <3>1. cli.root \in Nat
      BY DEF ShapeInv, Command
    <3>2. Plain("wait", 0, cli.root) \in Span
      BY <3>1, PlainSpan DEF SpanName
    <3> QED BY <2>2, <3>2, SavePauseStateLog DEF Plain
  <2>3. cli.root \in 0 .. Len(spans) /\ 0 \in 0 .. Len(spans)
    BY <1>1 DEF IdsInv
  <2> QED BY <2>1, <2>2, <2>3
<1>3. PICK recording \in BOOLEAN, x \in Span :
        /\ Adds(recording, x) /\ x.name \in {"cli", "wait"} /\ x.task = 0
        /\ x.parent \in 0 .. Len(spans) /\ x.link = 0
  BY <1>2
<1>4. ASSUME NEW s \in Len(spans) + 1 .. Len(spans')
      PROVE  Placed(s)' /\ spans'[s].name \notin {"task", "tool"}
  <2>1. s = Len(spans) + 1 /\ spans'[s] = x
    BY <1>3, <1>4, AddedSpan
  <2> QED BY <1>1, <1>3, <2>1 DEF Placed
<1> QED BY <1>4, TreeFrame

\* A step, a tool or a request span of the task at work.
LEMMA TreeAddsInside ==
  ASSUME ShapeInv, ShapeInv', IdsInv, TreeInv, WorkInv, Grows, TasksGrow,
         \/ \E kind \in {"request", "tools"} : StepStart(kind)
         \/ \E k \in Call : ToolCall(k) \/ Deferred(k)
  PROVE  TreeInv'
<1>1. /\ Len(tasks) \in Nat /\ Len(tasks') \in Nat /\ Len(spans) \in Nat
      /\ DOMAIN spans = 1 .. Len(spans) /\ traced \in BOOLEAN
  BY DEF ShapeInv
<1>2. run.at = "running"
  BY DEF StepStart, ToolCall, Deferred
<1>3. AtWork /\ SpansAtWork
  BY <1>2 DEF WorkInv
<1>4. Me \in 1 .. Len(tasks)
  <2>1. Len(tasks) > 0
    BY <1>3 DEF AtWork
  <2> QED BY <1>1, <2>1 DEF Me
<1>5. run.node \notin {"request", "tools"} /\ traced => Is(Parent, "task", Me)
  BY <1>3 DEF AtWork, Parent
<1>6. run.node = "tools" /\ traced => Is(Parent, "step", Me)
  BY <1>3 DEF AtWork, Parent
<1>7. \A s, name, t : Is(s, name, t) => s < Len(spans) + 1 /\ WillBe(s, name, t)
  BY <1>1, IsKept DEF Is
<1>8. ASSUME NEW kind \in {"request", "tools"}, StepStart(kind) PROVE TreeInv'
  <2>1. run.node \notin {"request", "tools"}
    <3>1. run.nodes = 0 <=> run.node = "none"
      BY <1>3 DEF AtWork
    <3>3. MayStart(kind)
      BY <1>8 DEF StepStart
    <3>4. run.nodes # 0 => run.node \in {"after tools", "after request"}
      BY <3>3 DEF MayStart
    <3> QED BY <3>1, <3>4
  <2>2. ASSUME NEW s \in Len(spans) + 1 .. Len(spans')
        PROVE  Placed(s)' /\ spans'[s].name = "step"
    <3>1. traced /\ s = Len(spans) + 1 /\ spans'[s] = Plain("step", Me, Parent)
      BY <1>1, <1>8, <2>2, StepStartLog, AddedSpan
    <3>2. /\ spans'[s].name = "step" /\ spans'[s].task = Me
          /\ spans'[s].parent = Parent /\ spans'[s].link = 0
      BY <3>1, PlainFields
    <3>3. Parent < s /\ WillBe(Parent, "task", Me)
      BY <1>5, <1>7, <2>1, <3>1
    <3>4. Me \in 0 .. Len(tasks') /\ Me # 0
      BY <1>1, <1>4 DEF TasksGrow
    <3> QED BY <1>1, <3>1, <3>2, <3>3, <3>4 DEF Placed, Is, WillBe
  <2> QED BY <2>2, TreeFrame
<1>9. ASSUME NEW k \in Call, ToolCall(k) PROVE TreeInv'
  <2>1. run.node = "tools" /\ k \notin tasks[Me].called
    BY <1>9 DEF ToolCall
  <2>2. tasks' = WithCall(k) /\ Len(tasks) > 0
    BY <1>1, <1>4, <1>9 DEF ToolCall, WithCall
  <2>3. k \in tasks'[Me].called /\ Len(tasks') = Len(tasks)
    BY <1>4, <2>2, CalledTasks DEF ShapeInv
  <2>4. ASSUME NEW s \in Len(spans) + 1 .. Len(spans')
        PROVE  /\ Placed(s)' /\ spans'[s].name = "tool"
               /\ spans'[s].task = Me /\ spans'[s].call = k
    <3>1. /\ traced /\ s = Len(spans) + 1
          /\ spans'[s] = [Plain("tool", Me, Parent) EXCEPT !.call = k]
      BY <1>1, <1>9, <2>4, ToolCallLog, AddedSpan
    <3>2. /\ spans'[s].name = "tool" /\ spans'[s].task = Me /\ spans'[s].call = k
          /\ spans'[s].parent = Parent /\ spans'[s].link = 0
      BY <3>1 DEF Plain
    <3>3. Parent < s /\ WillBe(Parent, "step", Me)
      BY <1>6, <1>7, <2>1, <3>1
    <3>4. Me \in 0 .. Len(tasks') /\ Me # 0
      BY <1>1, <1>4 DEF TasksGrow
    <3>5. ASSUME NEW r, WillBe(r, "tool", Me), spans'[r].call = k PROVE r = s
      <4>1. r \in 1 .. Len(spans') /\ Len(spans') = Len(spans) + 1
        BY <1>9, <3>1, <3>5, ToolCallLog DEF WillBe, ShapeInv, Adds
      <4>2. CASE r \in 1 .. Len(spans)
        <5>1. Is(r, "tool", Me)
          BY <3>5, <4>2, IsOld
        <5>2. spans[r].call = k
          BY <3>5, <4>2 DEF Grows, Alike
        <5>3. spans[r].call \in tasks[Me].called
          BY <5>1 DEF TreeInv, Placed, Is
        <5> QED BY <2>1, <5>2, <5>3
      <4> QED BY <1>1, <3>1, <4>1, <4>2
    <3> QED BY <1>1, <2>3, <3>1, <3>2, <3>3, <3>4, <3>5 DEF Placed, Is, WillBe
  <2> QED BY <2>1, <2>4, TreeFrame
<1>10. ASSUME NEW k \in Call, Deferred(k) PROVE TreeInv'
  <2>1. run.node \notin {"request", "tools"}
    BY <1>10 DEF Deferred
  <2>2. ASSUME NEW s \in Len(spans) + 1 .. Len(spans')
        PROVE  Placed(s)' /\ spans'[s].name = "request"
    <3>1. traced /\ s = Len(spans) + 1 /\ spans'[s] = RequestSpan(k)
      BY <1>1, <1>10, <2>2, DeferredLog, AddedSpan
    <3>2. /\ spans'[s].name = "request" /\ spans'[s].task = Me
          /\ spans'[s].parent = Parent /\ spans'[s].link = 0
      BY <3>1 DEF Plain, RequestSpan
    <3>3. Parent < s /\ WillBe(Parent, "task", Me)
      BY <1>5, <1>7, <2>1, <3>1
    <3>4. Me \in 0 .. Len(tasks') /\ Me # 0
      BY <1>1, <1>4 DEF TasksGrow
    <3> QED BY <1>1, <3>1, <3>2, <3>3, <3>4 DEF Placed, Is, WillBe
  <2> QED BY <2>2, TreeFrame
<1> QED BY <1>8, <1>9, <1>10

LEMMA ReceivedTask ==
  ASSUME ShapeInv, NEW words \in Nat, NEW verdicts \in SUBSET Verdict,
         NEW turn \in Nat, Receive(words, verdicts, turn)
  PROVE  /\ Len(tasks') = Len(tasks) + 1 /\ Me' = Len(tasks) + 1
         /\ \A t \in 1 .. Len(tasks) : tasks'[t] = tasks[t]
         /\ LET x == tasks'[Len(tasks) + 1] IN
            /\ x.turn = turn /\ x.outcome = "running" /\ x.called = {}
            /\ x.answers = IF verdicts = {} THEN 0 ELSE Me
            /\ x.deferred = <<>> /\ x.command = cli.invocation
<1> DEFINE x == [turn |-> turn, outcome |-> "running", called |-> {},
                 answers |-> IF verdicts = {} THEN 0 ELSE Me,
                 deferred |-> <<>>, command |-> cli.invocation]
<1>1. tasks \in Seq(Task) /\ tasks' = Append(tasks, x)
  BY DEF Receive, ShapeInv
<1>2. /\ x.turn = turn /\ x.outcome = "running" /\ x.called = {}
      /\ x.answers = IF verdicts = {} THEN 0 ELSE Me
      /\ x.deferred = <<>> /\ x.command = cli.invocation
  OBVIOUS
<1> HIDE DEF x
<1>3. /\ Len(tasks') = Len(tasks) + 1 /\ tasks'[Len(tasks) + 1] = x
      /\ \A t \in 1 .. Len(tasks) : tasks'[t] = tasks[t]
  BY <1>1
<1> QED BY <1>2, <1>3 DEF Me

\* The task's span and the decision under it.
LEMMA TreeReceive ==
  ASSUME ShapeInv, ShapeInv', IdsInv, TreeInv, AskedInv, Grows, TasksGrow,
         SendWords \/ \E verdicts \in Answers : SendAnswers(verdicts)
  PROVE  TreeInv'
<1>1. /\ Len(tasks) \in Nat /\ Len(tasks') \in Nat /\ Len(spans) \in Nat
      /\ DOMAIN spans = 1 .. Len(spans) /\ DOMAIN spans' = 1 .. Len(spans')
      /\ traced \in BOOLEAN
  BY DEF ShapeInv
<1>2. PICK words \in Nat, verdicts \in SUBSET Verdict, turn \in Nat :
        Receive(words, verdicts, turn)
  BY MessageReceived
<1>3. ReceiveLog(words, verdicts)
  BY <1>2, ReceivedLog
<1>4. Me' = Len(tasks) + 1 /\ Len(tasks') = Len(tasks) + 1
  BY <1>2, ReceivedTask
<1> DEFINE prior == IF verdicts = {} THEN <<>> ELSE store.pause
           n == Len(spans)
<1>5. MakeLink(prior) \in 0 .. n
  BY <1>1 DEF MakeLink, IdsInv
<1> HIDE DEF prior
<1>6. /\ Len(spans') = IF ~traced THEN n ELSE IF prior = <<>> THEN n + 1 ELSE n + 2
      /\ traced => /\ spans'[n + 1].name = "task" /\ spans'[n + 1].task = Me'
                   /\ spans'[n + 1].parent = 0
                   /\ spans'[n + 1].link = MakeLink(prior)
      /\ traced /\ prior # <<>> =>
           /\ spans'[n + 2].name = "decided" /\ spans'[n + 2].task = Me'
           /\ spans'[n + 2].parent = n + 1 /\ spans'[n + 2].link = MakeLink(prior)
  BY <1>3 DEF ReceiveLog, prior
<1>7. ASSUME NEW r, WillBe(r, "task", Me') PROVE traced /\ r = n + 1
  <2>1. r \in 1 .. Len(spans') /\ spans'[r].name = "task" /\ spans'[r].task = Me'
    BY <1>1, <1>7 DEF WillBe
  <2>2. r \notin 1 .. n
    <3>1. SUFFICES ASSUME r \in 1 .. n PROVE FALSE
      OBVIOUS
    <3>2. Is(r, "task", Me')
      BY <1>7, <3>1, IsOld
    <3>3. spans[r].task \in 0 .. Len(tasks)
      BY <1>1, <3>1 DEF TreeInv, Placed
    <3> QED BY <1>1, <1>4, <3>2, <3>3 DEF Is
  <2> QED BY <1>1, <1>6, <2>1, <2>2
<1>8. ASSUME NEW s \in n + 1 .. Len(spans')
      PROVE  /\ Placed(s)'
             /\ spans'[s].name \in {"task", "decided"}
             /\ spans'[s].task > Len(tasks)
  <2>1. /\ traced /\ n + 1 \in 1 .. Len(spans')
        /\ s = n + 1 \/ (prior # <<>> /\ s = n + 2)
    <3>1. traced
      BY <1>1, <1>6, <1>8
    <3> QED BY <1>1, <1>6, <1>8, <3>1
  <2>2. CASE s = n + 1
    <3>1. /\ spans'[s].name = "task" /\ spans'[s].task = Me'
          /\ spans'[s].parent = 0 /\ spans'[s].link < s
      BY <1>1, <1>5, <1>6, <2>1, <2>2
    <3>2. \A r : WillBe(r, "task", spans'[s].task) => r = s
      BY <1>7, <2>2, <3>1
    <3> QED BY <1>1, <1>4, <3>1, <3>2 DEF Placed, Is, WillBe
  <2>3. CASE s = n + 2 /\ prior # <<>>
    <3>1. /\ spans'[s].name = "decided" /\ spans'[s].task = Me'
          /\ spans'[s].parent = n + 1 /\ spans'[s].link < s
      BY <1>1, <1>5, <1>6, <2>1, <2>3
    <3>2. WillBe(n + 1, "task", Me') /\ n + 1 < s
      BY <1>1, <1>6, <2>1, <2>3 DEF WillBe
    <3> QED BY <1>1, <1>4, <3>1, <3>2 DEF Placed, Is, WillBe
  <2> QED BY <2>1, <2>2, <2>3
<1> QED BY <1>8, TreeFrame

LEMMA TreeStep ==
  ASSUME ShapeInv, ShapeInv', IdsInv, TreeInv, CliInv, WorkInv, AskedInv, Next,
         Grows, TasksGrow
  PROVE  TreeInv'
<1>1. CASE Len(spans') = Len(spans)
  <2>1. Len(spans) + 1 .. Len(spans') = {}
    BY <1>1 DEF ShapeInv
  <2> QED BY <2>1, TreeFrame
<1>2. CASE \/ \E recording \in BOOLEAN : CliStarts(recording)
           \/ SavePauseState
  BY <1>2, TreeAddsOutside
<1>3. CASE \/ \E kind \in {"request", "tools"} : StepStart(kind)
           \/ \E k \in Call : ToolCall(k) \/ Deferred(k)
  BY <1>3, TreeAddsInside
<1>4. CASE SendWords \/ \E verdicts \in Answers : SendAnswers(verdicts)
  BY <1>4, TreeReceive
<1>5. CASE CliEnds \/ StepEnd \/ LoadPauseRaises \/ \E k \in Call : ToolResult(k)
  BY <1>1, <1>5, CliEndsLog, StepEndLog, LoadPauseRaisesLog, ToolResultLog DEF Ends
<1>6. CASE RunEnds \/ RunRaises \/ Finalize
  BY <1>1, <1>6, RunEndsLog, RunRaisesLog, FinalizeLog DEF Says
<1>7. CASE StartRun \/ Cancelled \/ SavePausedHistory \/ SaveRaises \/ HubRestarts
  BY <1>1, <1>7 DEF StartRun, Cancelled, SavePausedHistory, SaveRaises, HubRestarts
<1> QED BY <1>2, <1>3, <1>4, <1>5, <1>6, <1>7 DEF Next

-----------------------------------------------------------------------------
(* The ids at hand.                                                        *)

IdsOf(tr, cur, cl, n) ==
  /\ {tr.task, tr.step, cur, cl.root, cl.wait} \subseteq 0 .. n
  /\ \A e \in tr.tools : e[2] \in 0 .. n
  /\ \A token \in {tr.taskToken, tr.stepToken, tr.paused} :
       token = <<>> \/ \E x \in 0 .. n : token = <<x>>

PauseOf(st, n) ==
  st.pause = <<>> \/ (Len(st.pause) = 1 /\ st.pause[1].span \in 0 .. n)

LEMMA IdsAre ==
  /\ IdsInv <=> IdsOf(tracer, current, cli, Len(spans)) /\ PauseOf(store, Len(spans))
  /\ IdsInv' <=> IdsOf(tracer', current', cli', Len(spans')) /\ PauseOf(store', Len(spans'))
  BY DEF IdsInv, IdsOf, PauseOf, OneOf

LEMMA IdsStep ==
  ASSUME ShapeInv, ShapeInv', IdsInv, AskedInv, Grows, Next
  PROVE  IdsInv'
<1> DEFINE n == Len(spans)
           m == Len(spans')
<1>1. n \in Nat /\ m \in Nat /\ n <= m /\ 0 .. n \subseteq 0 .. m /\ 0 \in 0 .. m
  BY DEF Grows, ShapeInv
<1>2. IdsOf(tracer, current, cli, n) /\ PauseOf(store, n)
  BY IdsAre
<1> HIDE DEF n, m
<1>3. IdsOf(tracer, current, cli, m) /\ PauseOf(store, m)
  BY <1>1, <1>2 DEF IdsOf, PauseOf
<1>4. IdsOf(tracer', current', cli', m) /\ PauseOf(store', m) => IdsInv'
  BY IdsAre DEF m
<1>5. ASSUME UNCHANGED store PROVE PauseOf(store', m)
  BY <1>3, <1>5
<1>6. /\ tracer \in Tracer /\ cli \in Command /\ store \in Store /\ traced \in BOOLEAN
  BY DEF ShapeInv
<1>7. ASSUME NEW recording \in BOOLEAN, NEW x, Adds(recording, x)
      PROVE  NewId(spans, recording) \in 0 .. m
  BY <1>1, <1>7 DEF NewId, Adds, n, m
<1>8. {tracer.task, tracer.step, current, cli.root, cli.wait} \subseteq 0 .. m
  BY <1>3 DEF IdsOf
<1>9. Detached \in 0 .. m
  BY <1>3, <1>8 DEF IdsOf, Detached
<1>10. ASSUME NEW recording \in BOOLEAN, CliStarts(recording) PROVE IdsInv'
  <2>1. NewId(spans, recording) \in 0 .. m
    BY <1>7, <1>10, CliStartsLog
  <2>2. cli'.root = NewId(spans, recording) /\ cli'.wait = 0
    BY <1>10 DEF CliStarts, NoCommand
  <2> QED BY <1>1, <1>3, <1>4, <1>5, <1>10, <2>1, <2>2 DEF IdsOf, CliStarts, Hub
<1>11. CASE CliEnds
  <2>1. cli'.root = 0 /\ cli'.wait = 0
    BY <1>11 DEF CliEnds, NoCommand
  <2> QED BY <1>1, <1>3, <1>4, <1>5, <1>11, <2>1 DEF IdsOf, CliEnds, Hub
<1>12. CASE SendWords \/ \E verdicts \in Answers : SendAnswers(verdicts)
  <2>1. PICK words \in Nat, verdicts \in SUBSET Verdict, turn \in Nat :
          Receive(words, verdicts, turn)
    BY <1>12, MessageReceived
  <2> DEFINE span == NewId(Ended(spans, cli.wait), traced)
  <2>2. ReceiveLog(words, verdicts)
    BY <2>1, ReceivedLog
  <2>3. span = IF traced THEN n + 1 ELSE 0
    <3>1. Len(Ended(spans, cli.wait)) = n
      BY EndedLog DEF ShapeInv, IdsInv, n
    <3> QED BY <3>1 DEF NewId
  <2>4. span \in 0 .. m
    <3>1. m \in {n + 1, n + 2} \/ ~traced
      BY <2>2 DEF ReceiveLog, n, m
    <3> QED BY <1>1, <2>3, <3>1
  <2>5. /\ tracer' = [NewTracer EXCEPT !.task = span, !.taskToken = <<0>>]
        /\ current' = span
        /\ cli' = [cli EXCEPT !.wait = 0, !.asked = {}]
        /\ store' = store
    BY <2>1 DEF Receive
  <2> HIDE DEF span
  <2>6. /\ tracer'.task = span /\ tracer'.step = 0 /\ tracer'.tools = {}
        /\ tracer'.taskToken = <<0>> /\ tracer'.stepToken = <<>> /\ tracer'.paused = <<>>
    BY <2>5 DEF NewTracer
  <2>7. cli'.root = cli.root /\ cli'.wait = 0
    BY <1>6, <2>5 DEF Command
  <2> QED BY <1>1, <1>3, <1>4, <1>8, <2>4, <2>5, <2>6, <2>7 DEF IdsOf
<1>13. CASE LoadPauseRaises
  <2>1. cli'.root = cli.root /\ cli'.wait = 0
    BY <1>6, <1>13 DEF LoadPauseRaises, Command
  <2> QED BY <1>1, <1>3, <1>4, <1>5, <1>13, <2>1 DEF IdsOf, LoadPauseRaises, Hub
<1>14. CASE StartRun \/ Cancelled \/ SaveRaises
  BY <1>3, <1>4, <1>14 DEF StartRun, Cancelled, SaveRaises
<1>15. ASSUME NEW kind \in {"request", "tools"}, StepStart(kind) PROVE IdsInv'
  <2>1. NewId(spans, traced) \in 0 .. m
    BY <1>6, <1>7, <1>15, StepStartLog
  <2>2. /\ tracer'.task = tracer.task /\ tracer'.step = NewId(spans, traced)
        /\ tracer'.tools = tracer.tools /\ tracer'.taskToken = tracer.taskToken
        /\ tracer'.stepToken = <<current>> /\ tracer'.paused = tracer.paused
    BY <1>6, <1>15 DEF StepStart, Tracer
  <2>3. current' = NewId(spans, traced) /\ cli' = cli /\ store' = store
    BY <1>15 DEF StepStart, InRun
  <2> QED BY <1>3, <1>4, <1>8, <2>1, <2>2, <2>3 DEF IdsOf
<1>16. ASSUME NEW k \in Call, ToolCall(k) PROVE IdsInv'
  <2>1. NewId(spans, traced) \in 0 .. m
    BY <1>6, <1>7, <1>16, ToolCallLog
  <2>2. /\ tracer'.task = tracer.task /\ tracer'.step = tracer.step
        /\ tracer'.tools = {e \in tracer.tools : e[1] # k} \cup {<<k, NewId(spans, traced)>>}
        /\ tracer'.taskToken = tracer.taskToken
        /\ tracer'.stepToken = tracer.stepToken /\ tracer'.paused = tracer.paused
    BY <1>6, <1>16 DEF ToolCall, Tracer, StartToolSpan
  <2>3. current' = current /\ cli' = cli /\ store' = store
    BY <1>16 DEF ToolCall
  <2> QED BY <1>3, <1>4, <1>8, <2>1, <2>2, <2>3 DEF IdsOf
<1>17. ASSUME NEW k \in Call, ToolResult(k) PROVE IdsInv'
  <2>1. /\ tracer'.task = tracer.task /\ tracer'.step = tracer.step
        /\ tracer'.tools \subseteq tracer.tools
        /\ tracer'.taskToken = tracer.taskToken
        /\ tracer'.stepToken = tracer.stepToken /\ tracer'.paused = tracer.paused
    BY <1>6, <1>17 DEF ToolResult, Tracer
  <2>2. current' = current /\ cli' = cli /\ store' = store
    BY <1>17 DEF ToolResult, InRun
  <2> QED BY <1>3, <1>4, <2>1, <2>2 DEF IdsOf
<1>18. ASSUME NEW k \in Call, Deferred(k) PROVE IdsInv'
  <2>1. NewId(spans, traced) \in 0 .. m
    BY <1>6, <1>7, <1>18, DeferredLog
  <2>2. /\ tracer'.task = tracer.task /\ tracer'.step = tracer.step
        /\ tracer'.tools = tracer.tools /\ tracer'.taskToken = tracer.taskToken
        /\ tracer'.stepToken = tracer.stepToken
        /\ tracer'.paused = <<NewId(spans, traced)>>
    BY <1>6, <1>18 DEF Deferred, Tracer
  <2>3. current' = current /\ cli' = cli /\ store' = store
    BY <1>18 DEF Deferred
  <2> QED BY <1>3, <1>4, <2>1, <2>2, <2>3 DEF IdsOf
<1>19. CASE StepEnd
  <2>1. /\ tracer'.task = tracer.task /\ tracer'.step = 0
        /\ tracer'.tools = tracer.tools /\ tracer'.taskToken = tracer.taskToken
        /\ tracer'.stepToken = <<>> /\ tracer'.paused = tracer.paused
    BY <1>6, <1>19 DEF StepEnd, EndStepSpan, Tracer
  <2>2. /\ current' = IF tracer.stepToken = <<>> THEN current ELSE tracer.stepToken[1]
        /\ cli' = cli /\ store' = store
    BY <1>19 DEF StepEnd, InRun
  <2>3. current' \in 0 .. m
    BY <1>3, <1>8, <2>2 DEF IdsOf
  <2> QED BY <1>1, <1>3, <1>4, <1>8, <2>1, <2>2, <2>3 DEF IdsOf
<1>20. CASE RunEnds \/ RunRaises
  <2>1. tracer' = [tracer EXCEPT !.taskToken = <<>>]
    BY <1>20 DEF RunEnds, RunRaises
  <2>2. /\ tracer'.task = tracer.task /\ tracer'.step = tracer.step
        /\ tracer'.tools = tracer.tools /\ tracer'.taskToken = <<>>
        /\ tracer'.stepToken = tracer.stepToken /\ tracer'.paused = tracer.paused
    BY <1>6, <2>1 DEF Tracer
  <2>3. current' = Detached /\ cli' = cli /\ store' = store
    BY <1>20 DEF RunEnds, RunRaises, InRun
  <2> QED BY <1>3, <1>4, <1>8, <1>9, <2>2, <2>3 DEF IdsOf
<1>21. CASE SavePausedHistory \/ Finalize
  <2>1. store'.pause = store.pause
    BY <1>6, <1>21 DEF SavePausedHistory, Finalize, Store
  <2> QED BY <1>3, <1>4, <1>21, <2>1 DEF PauseOf, SavePausedHistory, Finalize
<1>22. CASE SavePauseState
  <2>1. NewId(spans, cli.root # 0) \in 0 .. m
    BY <1>7, <1>22, SavePauseStateLog
  <2>2. cli'.root = cli.root /\ cli'.wait = NewId(spans, cli.root # 0)
    BY <1>6, <1>22 DEF SavePauseState, Command
  <2>3. store'.pause = PauseSaved(
                 IF tracer.paused = <<>> THEN <<>>
                 ELSE <<[span |-> tracer.paused[1], input |-> run.input]>>)
    BY <1>6, <1>22 DEF SavePauseState, Store
  <2>4. tracer.paused # <<>> => tracer.paused[1] \in 0 .. m
    BY <1>3 DEF IdsOf
  <2>5. PauseOf(store', m)
    BY <1>3, <2>3, <2>4 DEF PauseOf, PauseSaved
  <2> QED BY <1>3, <1>4, <1>8, <1>22, <2>1, <2>2, <2>5 DEF IdsOf, SavePauseState
<1>23. CASE HubRestarts
  <2>1. /\ tracer'.task = 0 /\ tracer'.step = 0 /\ tracer'.tools = {}
        /\ tracer'.taskToken = <<>> /\ tracer'.stepToken = <<>> /\ tracer'.paused = <<>>
        /\ current' = 0 /\ cli' = cli /\ store' = store
    BY <1>23 DEF HubRestarts, NewTracer
  <2> QED BY <1>1, <1>3, <1>4, <1>8, <2>1 DEF IdsOf
<1> QED BY <1>10, <1>11, <1>12, <1>13, <1>14, <1>15, <1>16, <1>17, <1>18, <1>19,
           <1>20, <1>21, <1>22, <1>23 DEF Next

-----------------------------------------------------------------------------
(* The requests, and the spans of the command.                             *)

\* What the new spans of a step are.
LEMMA NewSpans ==
  ASSUME ShapeInv, ShapeInv', IdsInv, AskedInv, Next,
         NEW s \in Len(spans) + 1 .. Len(spans')
  PROVE  /\ spans'[s].name = "task" =>
              /\ SendWords \/ \E verdicts \in Answers : SendAnswers(verdicts)
              /\ spans'[s].task = Len(tasks) + 1
              /\ spans'[s].invocation = Baggage
         /\ spans'[s].name = "decided" => spans'[s].task = Len(tasks) + 1
         /\ spans'[s].name \in {"request", "decided"} => spans'[s].ended
<1>1. Len(spans) \in Nat /\ DOMAIN spans' = 1 .. Len(spans') /\ traced \in BOOLEAN
      /\ Len(tasks) \in Nat
  BY DEF ShapeInv
<1>2. Len(spans') # Len(spans)
  BY <1>1
<1>3. ASSUME NEW recording \in BOOLEAN, CliStarts(recording)
      PROVE  spans'[s].name = "cli"
  <2>1. spans'[s] = [Plain("cli", 0, 0) EXCEPT !.invocation = cli.invocation + 1]
    BY <1>3, CliStartsLog, AddedSpan
  <2> QED BY <2>1 DEF Plain
<1>4. ASSUME NEW kind \in {"request", "tools"}, StepStart(kind)
      PROVE  spans'[s].name = "step"
  BY <1>1, <1>4, StepStartLog, AddedSpan, PlainFields
<1>5. ASSUME NEW k \in Call, ToolCall(k) PROVE spans'[s].name = "tool"
  <2>1. spans'[s] = [Plain("tool", Me, Parent) EXCEPT !.call = k]
    BY <1>1, <1>5, ToolCallLog, AddedSpan
  <2> QED BY <2>1 DEF Plain
<1>6. ASSUME NEW k \in Call, Deferred(k)
      PROVE  spans'[s].name = "request" /\ spans'[s].ended
  <2>1. spans'[s] = RequestSpan(k)
    BY <1>1, <1>6, DeferredLog, AddedSpan
  <2> QED BY <2>1 DEF RequestSpan, Plain
<1>7. CASE SavePauseState
  <2>1. spans'[s].name = "wait"
    <3> DEFINE recording == cli.root # 0
    <3>1. recording \in BOOLEAN /\ Adds(recording, Plain("wait", 0, cli.root))
      BY <1>7, SavePauseStateLog
    <3> HIDE DEF recording
    <3>2. spans'[s] = Plain("wait", 0, cli.root)
      BY <3>1, AddedSpan
    <3> QED BY <3>2, PlainFields
  <2> QED BY <2>1
<1>8. CASE SendWords \/ \E verdicts \in Answers : SendAnswers(verdicts)
  <2>1. PICK words \in Nat, verdicts \in SUBSET Verdict, turn \in Nat :
          Receive(words, verdicts, turn)
    BY <1>8, MessageReceived
  <2>2. ReceiveLog(words, verdicts) /\ Me' = Len(tasks) + 1
    BY <2>1, ReceivedLog, ReceivedTask
  <2> DEFINE prior == IF verdicts = {} THEN <<>> ELSE store.pause
  <2>3. /\ Len(spans') = IF ~traced THEN Len(spans)
                         ELSE IF prior = <<>> THEN Len(spans) + 1 ELSE Len(spans) + 2
        /\ traced => /\ spans'[Len(spans) + 1].name = "task"
                     /\ spans'[Len(spans) + 1].task = Me'
                     /\ spans'[Len(spans) + 1].invocation = Baggage
        /\ traced /\ prior # <<>> => /\ spans'[Len(spans) + 2].name = "decided"
                                     /\ spans'[Len(spans) + 2].task = Me'
                                     /\ spans'[Len(spans) + 2].ended
    BY <2>2 DEF ReceiveLog
  <2> HIDE DEF prior
  <2>4. traced
    BY <1>2, <2>3
  <2>5. s = Len(spans) + 1 \/ (prior # <<>> /\ s = Len(spans) + 2)
    BY <1>1, <2>3, <2>4
  <2> QED BY <1>8, <2>2, <2>3, <2>4, <2>5
<1>9. CASE CliEnds \/ StepEnd \/ LoadPauseRaises \/ \E k \in Call : ToolResult(k)
  BY <1>2, <1>9, CliEndsLog, StepEndLog, LoadPauseRaisesLog, ToolResultLog DEF Ends
<1>10. CASE RunEnds \/ RunRaises \/ Finalize
  BY <1>2, <1>10, RunEndsLog, RunRaisesLog, FinalizeLog DEF Says
<1>11. CASE StartRun \/ Cancelled \/ SavePausedHistory \/ SaveRaises \/ HubRestarts
  BY <1>2, <1>11 DEF StartRun, Cancelled, SavePausedHistory, SaveRaises, HubRestarts
<1> QED BY <1>3, <1>4, <1>5, <1>6, <1>7, <1>8, <1>9, <1>10, <1>11 DEF Next

LEMMA RequestsStep ==
  ASSUME ShapeInv, ShapeInv', IdsInv, AskedInv, RequestsEnded, Next, Grows
  PROVE  RequestsEnded'
<1>1. /\ DOMAIN spans = 1 .. Len(spans) /\ DOMAIN spans' = 1 .. Len(spans')
      /\ Len(spans) \in Nat /\ Len(spans') \in Nat
  BY DEF ShapeInv
<1>2. ASSUME NEW s \in 1 .. Len(spans), spans'[s].name \in {"request", "decided"}
      PROVE  spans'[s].ended
  BY <1>1, <1>2 DEF Grows, Alike, RequestsEnded
<1>3. ASSUME NEW s \in Len(spans) + 1 .. Len(spans'),
             spans'[s].name \in {"request", "decided"}
      PROVE  spans'[s].ended
  BY <1>3, NewSpans
<1>4. \A s \in DOMAIN spans' :
        s \in 1 .. Len(spans) \/ s \in Len(spans) + 1 .. Len(spans')
  BY <1>1
<1> QED BY <1>2, <1>3, <1>4 DEF RequestsEnded

\* The command goes on: its number and its root, if not its wait.
LEMMA CliGoesOn ==
  ASSUME ShapeInv, ShapeInv', IdsInv, TreeInv, CliInv, AskedInv, Next, Grows, TasksGrow,
         cli'.root = cli.root, cli'.invocation = cli.invocation, cli'.open = cli.open,
         cli'.wait \in {0, cli.wait} \/ WillBe(cli'.wait, "wait", 0),
         run'.at # "idle" => cli'.open /\ cli'.asked = {},
         \A t \in Len(tasks) + 1 .. Len(tasks') : tasks'[t].command = cli.invocation
  PROVE  CliInv'
<1>1. /\ DOMAIN spans = 1 .. Len(spans) /\ DOMAIN spans' = 1 .. Len(spans')
      /\ Len(spans) \in Nat /\ Len(spans') \in Nat
      /\ Len(tasks) \in Nat /\ Len(tasks') \in Nat
      /\ DOMAIN tasks = 1 .. Len(tasks) /\ DOMAIN tasks' = 1 .. Len(tasks')
  BY DEF ShapeInv
<1>2. cli'.root # 0 => Is(cli.root, "cli", 0)'
  BY IsKept DEF CliInv, Is, WillBe
<1>3. cli'.wait # 0 => Is(cli.wait, "wait", 0)'
  BY IsKept DEF CliInv, Is, WillBe
<1>4. \A t \in DOMAIN tasks' : tasks'[t].command <= cli'.invocation
  <2>1. ASSUME NEW t \in 1 .. Len(tasks) PROVE tasks'[t].command <= cli'.invocation
    BY <1>1 DEF CliInv, TasksGrow
  <2>2. cli.invocation \in Nat
    BY Fields
  <2>3. ASSUME NEW t \in Len(tasks) + 1 .. Len(tasks')
        PROVE  tasks'[t].command <= cli'.invocation
    BY <2>2
  <2> QED BY <1>1, <2>1, <2>3
<1>5. Baggage' = Baggage
  BY DEF Baggage
<1>6. ASSUME cli'.open, NEW s \in DOMAIN spans', spans'[s].name = "task",
             tasks'[spans'[s].task].command = cli'.invocation
      PROVE  spans'[s].invocation = Baggage
  <2>1. CASE s \in 1 .. Len(spans)
    <3>1. spans[s].name = "task" /\ spans'[s].task = spans[s].task
          /\ spans'[s].invocation = spans[s].invocation
      BY <1>6, <2>1 DEF Grows, Alike
    <3>2. spans[s].task \in 1 .. Len(tasks)
      BY <1>1, <2>1, <3>1 DEF TreeInv, Placed
    <3>3. tasks[spans[s].task].command = cli.invocation
      BY <1>6, <3>1, <3>2 DEF TasksGrow
    <3> QED BY <1>1, <1>6, <2>1, <3>1, <3>3 DEF CliInv
  <2>2. CASE s \in Len(spans) + 1 .. Len(spans')
    BY <1>6, <2>2, NewSpans
  <2> QED BY <1>1, <2>1, <2>2
<1> QED BY <1>2, <1>3, <1>4, <1>5, <1>6 DEF CliInv

LEMMA CliStep ==
  ASSUME ShapeInv, ShapeInv', IdsInv, TreeInv, CliInv, WorkInv, AskedInv, Next,
         Grows, TasksGrow
  PROVE  CliInv'
<1>1. /\ DOMAIN spans = 1 .. Len(spans) /\ DOMAIN spans' = 1 .. Len(spans')
      /\ Len(spans) \in Nat /\ Len(spans') \in Nat
      /\ Len(tasks) \in Nat /\ Len(tasks') \in Nat
      /\ DOMAIN tasks = 1 .. Len(tasks) /\ DOMAIN tasks' = 1 .. Len(tasks')
      /\ cli \in Command
  BY DEF ShapeInv
<1>2. ASSUME NEW recording \in BOOLEAN, CliStarts(recording) PROVE CliInv'
  <2>1. /\ cli'.invocation = cli.invocation + 1 /\ cli'.root = NewId(spans, recording)
        /\ cli'.wait = 0 /\ run' = run /\ run.at = "idle" /\ tasks' = tasks
    BY <1>2 DEF CliStarts, NoCommand, Hub
  <2>2. cli'.root # 0 => Is(cli.root, "cli", 0)'
    <3>1. Adds(recording, [Plain("cli", 0, 0) EXCEPT !.invocation = cli.invocation + 1])
      BY <1>2, CliStartsLog
    <3> DEFINE x == [Plain("cli", 0, 0) EXCEPT !.invocation = cli.invocation + 1]
    <3>3. x.name = "cli" /\ x.task = 0
      BY DEF Plain
    <3>4. Adds(recording, x)
      BY <3>1
    <3> HIDE DEF x
    <3>2. recording => /\ Len(spans) + 1 \in DOMAIN spans'
                       /\ spans'[Len(spans) + 1].name = "cli"
                       /\ spans'[Len(spans) + 1].task = 0
      BY <1>1, <3>3, <3>4 DEF Adds
    <3> QED BY <2>1, <3>2 DEF Is, NewId
  <2>3. \A t \in DOMAIN tasks : /\ tasks[t].command \in Nat
                                /\ tasks[t].command <= cli.invocation
    <3>1. \A t \in DOMAIN tasks : tasks[t] \in Task
      BY DEF ShapeInv
    <3>2. \A t \in DOMAIN tasks : tasks[t].command \in Nat
      BY <3>1 DEF Task
    <3> QED BY <3>2 DEF CliInv
  <2>4. cli.invocation \in Nat
    BY Fields
  <2>5. \A t \in DOMAIN tasks' : tasks'[t].command < cli'.invocation
    BY <2>1, <2>3, <2>4
  <2>6. \A s \in DOMAIN spans' : spans'[s].name = "task" => spans'[s].task \in DOMAIN tasks'
    <3>1. TreeInv'
      BY <1>2, TreeAddsOutside
    <3> QED BY <1>1, <3>1 DEF TreeInv, Placed
  <2> QED BY <1>1, <2>1, <2>2, <2>3, <2>4, <2>5, <2>6 DEF CliInv
<1>3. CASE CliEnds
  <2>1. /\ cli'.invocation = cli.invocation /\ cli'.root = 0 /\ cli'.wait = 0
        /\ cli'.open = FALSE /\ run' = run /\ run.at = "idle" /\ tasks' = tasks
    BY <1>3 DEF CliEnds, NoCommand, Hub
  <2> QED BY <2>1 DEF CliInv
<1>4. CASE SendWords \/ \E verdicts \in Answers : SendAnswers(verdicts)
  <2>1. PICK words \in Nat, verdicts \in SUBSET Verdict, turn \in Nat :
          Receive(words, verdicts, turn)
    BY <1>4, MessageReceived
  <2>2. /\ cli' = [cli EXCEPT !.wait = 0, !.asked = {}] /\ cli.open
    BY <2>1 DEF Receive
  <2>3. /\ cli'.root = cli.root /\ cli'.invocation = cli.invocation
        /\ cli'.open = cli.open /\ cli'.wait = 0 /\ cli'.asked = {}
    BY <1>1, <2>2 DEF Command
  <2>4. \A t \in Len(tasks) + 1 .. Len(tasks') : tasks'[t].command = cli.invocation
    <3>1. /\ Len(tasks') = Len(tasks) + 1
          /\ tasks'[Len(tasks) + 1].command = cli.invocation
      BY <2>1, ReceivedTask
    <3> QED BY <1>1, <3>1
  <2> QED BY <2>2, <2>3, <2>4, CliGoesOn
<1>5. CASE LoadPauseRaises
  <2>1. /\ cli'.root = cli.root /\ cli'.invocation = cli.invocation
        /\ cli'.open = cli.open /\ cli'.wait = 0 /\ run' = run /\ run.at = "idle"
    BY <1>1, <1>5 DEF LoadPauseRaises, Command, Hub
  <2>2. \A t \in Len(tasks) + 1 .. Len(tasks') : tasks'[t].command = cli.invocation
    <3>1. /\ Len(tasks') = Len(tasks) + 1
          /\ tasks'[Len(tasks) + 1].command = cli.invocation
      <4> DEFINE x == [turn |-> Turn, outcome |-> "raised", called |-> {},
                       answers |-> Me, deferred |-> <<>>, command |-> cli.invocation]
      <4>1. tasks' = Append(tasks, x) /\ x.command = cli.invocation
        BY <1>5 DEF LoadPauseRaises
      <4> HIDE DEF x
      <4>2. tasks \in Seq(Task)
        BY DEF ShapeInv
      <4>3. Len(tasks') = Len(tasks) + 1 /\ tasks'[Len(tasks) + 1] = x
        BY <4>1, <4>2
      <4> QED BY <4>1, <4>3
    <3> QED BY <1>1, <3>1
  <2> QED BY <2>1, <2>2, CliGoesOn
<1>6. CASE SavePauseState
  <2>1. /\ cli'.root = cli.root /\ cli'.invocation = cli.invocation
        /\ cli'.open = cli.open /\ cli'.wait = NewId(spans, cli.root # 0)
        /\ run'.at = "idle"
    BY <1>1, <1>6 DEF SavePauseState, Command, Idle
  <2>2. cli'.wait = 0 \/ WillBe(cli'.wait, "wait", 0)
    <3>1. Adds(cli.root # 0, Plain("wait", 0, cli.root))
      BY <1>6, SavePauseStateLog
    <3>2. cli.root # 0 => /\ Len(spans) + 1 \in DOMAIN spans'
                          /\ spans'[Len(spans) + 1].name = "wait"
                          /\ spans'[Len(spans) + 1].task = 0
      BY <1>1, <3>1, PlainFields DEF Adds
    <3> QED BY <2>1, <3>2 DEF WillBe, NewId
  <2>3. Len(tasks') = Len(tasks)
    <3>1. run.at # "idle" /\ "paused" \in Outcome
      BY <1>6 DEF SavePauseState, Outcome
    <3>2. Len(tasks) > 0
      BY <3>1 DEF WorkInv, AtWork
    <3> QED BY <1>6, <3>1, <3>2, ReportedTasks DEF SavePauseState, ShapeInv
  <2> QED BY <1>1, <2>1, <2>2, <2>3, CliGoesOn
<1>7. CASE \/ StartRun \/ StepEnd \/ RunEnds \/ RunRaises \/ Cancelled
           \/ SavePausedHistory \/ Finalize \/ SaveRaises \/ HubRestarts
           \/ \E kind \in {"request", "tools"} : StepStart(kind)
           \/ \E k \in Call : ToolCall(k) \/ ToolResult(k) \/ Deferred(k)
  <2>1. cli' = cli
    BY <1>7 DEF StartRun, StepEnd, RunEnds, RunRaises, Cancelled, SavePausedHistory,
         Finalize, SaveRaises, HubRestarts, StepStart, ToolCall, ToolResult, Deferred,
         InRun
  <2>2. run'.at # "idle" => run.at # "idle"
    <3>1. CASE StartRun \/ StepEnd \/ RunEnds \/ SavePausedHistory
      BY <3>1 DEF StartRun, StepEnd, RunEnds, SavePausedHistory
    <3>2. CASE RunRaises \/ Cancelled \/ Finalize \/ SaveRaises \/ HubRestarts
      BY <3>2 DEF RunRaises, Cancelled, Finalize, SaveRaises, HubRestarts, Idle
    <3>3. CASE \/ \E kind \in {"request", "tools"} : StepStart(kind)
               \/ \E k \in Call : ToolCall(k) \/ ToolResult(k) \/ Deferred(k)
      BY <3>3 DEF StepStart, ToolCall, ToolResult, Deferred
    <3> QED BY <1>7, <3>1, <3>2, <3>3
  <2>3. Len(tasks') = Len(tasks)
    <3>1. run.at # "idle" => Len(tasks) > 0
      BY DEF WorkInv, AtWork
    <3>2. {"failed", "cancelled", "completed", "raised", "lost"} \subseteq Outcome
      BY DEF Outcome
    <3>3. \/ tasks' = tasks
          \/ run.at # "idle" /\ \E outcome \in Outcome : tasks' = Reported(outcome)
          \/ run.at # "idle" /\ \E k \in Call : tasks' = WithCall(k) \/ tasks' = WithDeferred(k)
      BY <1>7, <3>2 DEF StartRun, StepEnd, RunEnds, RunRaises, Cancelled,
           SavePausedHistory, Finalize, SaveRaises, HubRestarts, StepStart, ToolCall,
           ToolResult, Deferred, InRun, WithCall, WithDeferred
    <3> QED BY <3>1, <3>3, ReportedTasks, CalledTasks, DeferredTasks DEF ShapeInv
  <2> QED BY <1>1, <2>1, <2>2, <2>3, CliGoesOn DEF CliInv
<1> QED BY <1>2, <1>3, <1>4, <1>5, <1>6, <1>7 DEF Next

-----------------------------------------------------------------------------
(* The task at work.                                                       *)

LEMMA AppendedSet ==
  ASSUME NEW S, NEW q \in Seq(S), NEW k \in S
  PROVE  /\ ToSet(Append(q, k)) = ToSet(q) \cup {k}
         /\ Last(Append(q, k)) = k /\ Append(q, k) # <<>>
         /\ ToSet(<<>>) = {}
<1>1. /\ DOMAIN q = 1 .. Len(q) /\ Len(q) \in Nat
      /\ DOMAIN Append(q, k) = 1 .. Len(q) + 1 /\ Len(Append(q, k)) = Len(q) + 1
      /\ \A i \in 1 .. Len(q) : Append(q, k)[i] = q[i]
      /\ Append(q, k)[Len(q) + 1] = k
  OBVIOUS
<1>2. \A i : i \in 1 .. Len(q) + 1 <=> (i \in 1 .. Len(q) \/ i = Len(q) + 1)
  BY <1>1
<1>3. ToSet(Append(q, k)) = ToSet(q) \cup {k}
  <2>1. ASSUME NEW x \in ToSet(Append(q, k)) PROVE x \in ToSet(q) \cup {k}
    BY <1>1, <1>2 DEF ToSet
  <2>2. ASSUME NEW x \in ToSet(q) PROVE x \in ToSet(Append(q, k))
    <3>1. PICK i \in DOMAIN q : x = q[i]
      BY DEF ToSet
    <3>2. i \in DOMAIN Append(q, k) /\ Append(q, k)[i] = x
      BY <1>1, <1>2, <3>1
    <3> QED BY <3>2 DEF ToSet
  <2>3. k \in ToSet(Append(q, k))
    BY <1>1, <1>2 DEF ToSet
  <2> QED BY <2>1, <2>2, <2>3
<1>4. Last(Append(q, k)) = k
  BY <1>1 DEF Last
<1>5. ToSet(<<>>) = {}
  BY DEF ToSet
<1>6. Append(q, k) # <<>>
  BY <1>1
<1> QED BY <1>3, <1>4, <1>5, <1>6

LEMMA AtWorkNow ==
  ASSUME ShapeInv, WorkInv, run.at # "idle"
  PROVE  /\ AtWork /\ SpansAtWork /\ PauseAtWork
         /\ Len(tasks) > 0 /\ Me \in 1 .. Len(tasks) /\ tasks[Me] \in Task
         /\ tasks[Me].outcome = "running" /\ tasks[Me].deferred \in Seq(Call)
         /\ tracer.step # 0 => Is(tracer.step, "step", Me)
         /\ tracer.task # 0 => Is(tracer.task, "task", Me)
         /\ ~traced => tracer.task = 0 /\ tracer.step = 0 /\ SpansOf(Me) = {}
         /\ run.node \notin {"request", "tools"} => tracer.step = 0
         /\ run.node # "after tools" => run.deferred = {}
<1>1. AtWork /\ SpansAtWork /\ PauseAtWork
  BY DEF WorkInv
<1>2. Len(tasks) > 0
  BY <1>1 DEF AtWork
<1>3. Me \in 1 .. Len(tasks)
  BY <1>2 DEF Me, ShapeInv
<1>4. tasks[Me] \in Task
  BY <1>3 DEF ShapeInv
<1>5. tasks[Me].deferred \in Seq(Call)
  BY <1>4 DEF Task
<1>6. /\ tasks[Me].outcome = "running"
      /\ tracer.step # 0 => Is(tracer.step, "step", Me)
      /\ tracer.task # 0 => Is(tracer.task, "task", Me)
      /\ ~traced => tracer.task = 0 /\ tracer.step = 0 /\ SpansOf(Me) = {}
      /\ run.node \notin {"request", "tools"} => tracer.step = 0
  BY <1>1 DEF AtWork, ShapeInv
<1>7. run.node # "after tools" => run.deferred = {}
  BY <1>1 DEF PauseAtWork
<1> QED BY <1>1, <1>2, <1>3, <1>4, <1>5, <1>6, <1>7

\* What AtWork says of one span.
AtWorkOf(s) ==
  /\ ~spans[s].ended <=> OpenNow(s)
  /\ spans[s].name = "tool" /\ spans[s].call \in run.open
       => <<spans[s].call, s>> \in tracer.tools
  /\ spans[s].name = "task" => spans[s].state \in
       IF run.at \in {"pausing", "marking"} THEN {"paused"}
                                            ELSE {"running", "resumed"}
  /\ spans[s].name = "request" => spans[s].call \in run.deferred

LEMMA SpansAtWorkAre ==
  ASSUME ShapeInv, SpansAtWork
  PROVE  \A s \in 1 .. Len(spans) : spans[s].task = Me => AtWorkOf(s)
  BY DEF SpansAtWork, SpansOf, AtWorkOf, ShapeInv

\* From the spans there were and the new ones to SpansAtWork.
LEMMA SpansAtWorkNext ==
  ASSUME ShapeInv, ShapeInv', Grows, Me' = Me,
         \A s \in 1 .. Len(spans) : spans[s].task = Me => AtWorkOf(s)',
         \A s \in Len(spans) + 1 .. Len(spans') : AtWorkOf(s)',
         \A e \in tracer'.tools : e[2] # 0 =>
           WillBe(e[2], "tool", Me) /\ spans'[e[2]].call = e[1],
         run'.open \subseteq tasks'[Me].called
  PROVE  SpansAtWork'
<1>1. /\ DOMAIN spans = 1 .. Len(spans) /\ DOMAIN spans' = 1 .. Len(spans')
      /\ Len(spans) \in Nat /\ Len(spans') \in Nat
  BY DEF ShapeInv
<1>2. ASSUME NEW s \in DOMAIN spans', spans'[s].task = Me PROVE AtWorkOf(s)'
  <2>1. s \in 1 .. Len(spans) \/ s \in Len(spans) + 1 .. Len(spans')
    BY <1>1
  <2>2. s \in 1 .. Len(spans) => spans[s].task = Me
    BY <1>2 DEF Grows, Alike
  <2> QED BY <2>1, <2>2
<1> QED BY <1>2 DEF SpansAtWork, SpansOf, AtWorkOf, Is, WillBe

\* Nothing is left for approval before the last node has ended.
LEMMA NoPauseYet ==
  ASSUME PauseAtWork, run.deferred = {}, run'.deferred = {}, Me' = Me,
         tasks'[Me].deferred = tasks[Me].deferred
  PROVE  PauseAtWork'
  BY DEF PauseAtWork

LEMMA WorkStartRun ==
  ASSUME ShapeInv, ShapeInv', WorkInv, Grows, StartRun
  PROVE  WorkInv'
<1>1. run.at = "loading" /\ UNCHANGED <<spans, tracer, tasks, traced, cli, current>>
  BY DEF StartRun
<1>2. /\ run'.at = "running" /\ run'.input = run.input /\ run'.node = run.node
      /\ run'.nodes = run.nodes /\ run'.open = run.open /\ run'.deferred = run.deferred
  BY DEF StartRun, ShapeInv, Run
<1>3. AtWork /\ SpansAtWork /\ PauseAtWork
  BY <1>1, AtWorkNow
<1>4. AtWork'
  BY <1>1, <1>2, <1>3 DEF AtWork, Is, Me, Finished, SpansOf
<1>5. SpansAtWork'
  BY <1>1, <1>2, <1>3 DEF SpansAtWork, Is, Me, SpansOf, OpenNow
<1>6. PauseAtWork'
  BY <1>1, <1>2, <1>3 DEF PauseAtWork, Is, Me, SpansOf
<1> QED BY <1>4, <1>5, <1>6 DEF WorkInv

LEMMA WorkSavePausedHistory ==
  ASSUME ShapeInv, ShapeInv', WorkInv, SavePausedHistory
  PROVE  WorkInv'
<1>1. run.at = "pausing" /\ UNCHANGED <<spans, tracer, tasks, traced, cli, current>>
  BY DEF SavePausedHistory
<1>2. /\ run'.at = "marking" /\ run'.input = run.input /\ run'.node = run.node
      /\ run'.nodes = run.nodes /\ run'.open = run.open /\ run'.deferred = run.deferred
  BY DEF SavePausedHistory, ShapeInv, Run
<1>3. AtWork /\ SpansAtWork /\ PauseAtWork
  BY <1>1, AtWorkNow
<1>4. AtWork'
  BY <1>1, <1>2, <1>3 DEF AtWork, Is, Me, Finished, SpansOf
<1>5. SpansAtWork'
  BY <1>1, <1>2, <1>3 DEF SpansAtWork, Is, Me, SpansOf, OpenNow
<1>6. PauseAtWork'
  BY <1>1, <1>2, <1>3 DEF PauseAtWork, Is, Me, SpansOf
<1> QED BY <1>4, <1>5, <1>6 DEF WorkInv

LEMMA WorkStepStart ==
  ASSUME ShapeInv, ShapeInv', IdsInv, WorkInv, Grows,
         NEW kind \in {"request", "tools"}, StepStart(kind)
  PROVE  WorkInv'
<1> DEFINE n == Len(spans)
<1>1. run.at = "running" /\ run.open = {}
  BY DEF StepStart
<1>2. UNCHANGED <<tasks, traced, cli>> /\ Me' = Me
  BY DEF StepStart, InRun, Me
<1>3. /\ run'.at = "running" /\ run'.input = run.input /\ run'.node = kind
      /\ run'.nodes = run.nodes + 1 /\ run'.open = {} /\ run'.deferred = run.deferred
  BY <1>1 DEF StepStart, ShapeInv, Run
<1>4. /\ tracer'.task = tracer.task /\ tracer'.step = NewId(spans, traced)
      /\ tracer'.tools = tracer.tools /\ tracer'.taskToken = tracer.taskToken
      /\ tracer'.paused = tracer.paused
  BY DEF StepStart, ShapeInv, Tracer
<1>5. AtWork /\ SpansAtWork /\ PauseAtWork
  BY <1>1, AtWorkNow
<1>6. run.deferred = {}
  BY <1>1, <1>5 DEF PauseAtWork
<1>7. run.node \notin {"request", "tools"}
  <2>1. run.nodes = 0 <=> run.node = "none"
    BY <1>5 DEF AtWork
  <2>2. MayStart(kind)
    BY DEF StepStart
  <2>3. run.nodes # 0 => run.node \in {"after tools", "after request"}
    BY <2>2 DEF MayStart
  <2> QED BY <2>1, <2>3
<1>8. tracer.step = 0
  BY <1>1, <1>7, AtWorkNow
<1>9. /\ n \in Nat /\ DOMAIN spans = 1 .. n /\ DOMAIN spans' = 1 .. Len(spans')
      /\ traced \in BOOLEAN /\ tracer.task \in 0 .. n
  BY DEF ShapeInv, IdsInv
<1>10. /\ Len(spans') = IF traced THEN n + 1 ELSE n
       /\ \A s \in 1 .. n : spans'[s] = spans[s]
       /\ traced => /\ spans'[n + 1].name = "step" /\ spans'[n + 1].task = Me
                    /\ ~spans'[n + 1].ended
  BY StepStartLog, PlainFields DEF Adds
<1>11. tracer'.step = IF traced THEN n + 1 ELSE 0
  BY <1>4 DEF NewId
<1>12. AtWork'
  <2>1. run'.nodes # 0 /\ run'.node # "none"
    BY <1>3, Fields
  <2>2. traced => WillBe(tracer'.task, "task", Me) /\ WillBe(tracer'.step, "step", Me)
    <3>1. traced => Is(tracer.task, "task", Me)
      BY <1>5 DEF AtWork
    <3>2. traced => WillBe(n + 1, "step", Me)
      BY <1>9, <1>10 DEF WillBe
    <3> QED BY <1>4, <1>11, <3>1, <3>2, IsKept
  <2>3. ~traced => tracer'.task = 0 /\ tracer'.step = 0 /\ SpansOf(Me)' = {}
    <3>1. ~traced => tracer.task = 0 /\ SpansOf(Me) = {}
      BY <1>5 DEF AtWork
    <3>2. ~traced => SpansOf(Me)' = SpansOf(Me)
      BY <1>2, <1>9, <1>10 DEF SpansOf
    <3> QED BY <1>4, <1>11, <3>1, <3>2
  <2>4. tracer'.step # 0 <=> traced
    BY <1>9, <1>11
  <2>5. /\ Len(tasks) > 0 /\ tasks[Me].outcome = "running"
        /\ tasks[Me].command = cli.invocation /\ run.input = tasks[Me].turn
        /\ tracer.taskToken = <<0>>
    BY <1>1, <1>5 DEF AtWork, Finished
  <2> QED BY <1>2, <1>3, <1>4, <2>1, <2>2, <2>3, <2>4, <2>5
          DEF AtWork, Is, WillBe, Finished
<1>13. SpansAtWork'
  <2>1. ASSUME NEW s \in 1 .. n, spans[s].task = Me PROVE AtWorkOf(s)'
    <3>1. AtWorkOf(s) /\ spans'[s] = spans[s]
      BY <1>5, <1>10, <2>1, SpansAtWorkAre
    <3>2. s # tracer'.step /\ s # tracer.step
      BY <1>8, <1>9, <1>11
    <3>3. OpenNow(s)' <=> OpenNow(s)
      BY <1>1, <1>3, <1>4, <3>1, <3>2 DEF OpenNow
    <3> QED BY <1>1, <1>3, <1>4, <3>1, <3>3 DEF AtWorkOf
  <2>2. ASSUME NEW s \in n + 1 .. Len(spans') PROVE AtWorkOf(s)'
    <3>1. traced /\ s = n + 1
      BY <1>9, <1>10
    <3>2. OpenNow(s)'
      BY <1>11, <3>1 DEF OpenNow
    <3> QED BY <1>10, <3>1, <3>2 DEF AtWorkOf
  <2>3. \A e \in tracer'.tools : e[2] # 0 =>
           WillBe(e[2], "tool", Me) /\ spans'[e[2]].call = e[1]
    <3>1. \A e \in tracer.tools : e[2] # 0 =>
            Is(e[2], "tool", Me) /\ spans[e[2]].call = e[1]
      BY <1>5 DEF SpansAtWork
    <3> QED BY <1>4, <1>9, <1>10, <3>1, IsKept DEF Is
  <2> QED BY <1>2, <1>3, <2>1, <2>2, <2>3, SpansAtWorkNext
<1>14. PauseAtWork'
  BY <1>2, <1>3, <1>5, <1>6, NoPauseYet
<1> QED BY <1>12, <1>13, <1>14 DEF WorkInv

\* A step within a node leaves the task, its span and its node.
LEMMA AtWorkFrame ==
  ASSUME ShapeInv, ShapeInv', Grows, AtWork, run.at = "running", run'.at = "running",
         run'.input = run.input, run'.node = run.node, run'.nodes = run.nodes,
         tracer'.task = tracer.task, tracer'.step = tracer.step,
         tracer'.taskToken = tracer.taskToken,
         UNCHANGED <<traced, cli>>, Len(tasks') = Len(tasks),
         tasks'[Me].turn = tasks[Me].turn, tasks'[Me].outcome = tasks[Me].outcome,
         tasks'[Me].command = tasks[Me].command,
         ~traced => Len(spans') = Len(spans)
  PROVE  AtWork'
<1>1. Me' = Me
  BY DEF Me
<1>2. ~traced => SpansOf(Me)' = SpansOf(Me)
  BY <1>1 DEF SpansOf, ShapeInv, Grows, Alike
<1>3. \A s, name : Is(s, name, Me) => Is(s, name, Me)'
  BY <1>1, IsKept DEF Is, WillBe
<1>4. traced => Is(tracer.task, "task", Me)'
  BY <1>3 DEF AtWork, Is
<1>5. tracer'.step # 0 => Is(tracer.step, "step", Me)'
  BY <1>3 DEF AtWork, Is
<1> QED BY <1>1, <1>2, <1>4, <1>5 DEF AtWork, Finished

LEMMA WorkToolCall ==
  ASSUME ShapeInv, ShapeInv', IdsInv, TreeInv, WorkInv, Grows, NEW k \in Call, ToolCall(k)
  PROVE  WorkInv'
<1> DEFINE n == Len(spans)
<1>1. run.at = "running" /\ run.node = "tools" /\ k \notin run.open
      /\ k \notin tasks[Me].called
  BY DEF ToolCall
<1>2. AtWork /\ SpansAtWork /\ PauseAtWork /\ run.deferred = {} /\ Len(tasks) > 0
      /\ Me \in 1 .. Len(tasks)
  BY <1>1, AtWorkNow
<1>3. tasks' = WithCall(k) /\ UNCHANGED <<traced, cli>>
  BY DEF ToolCall, WithCall
<1>4. /\ Len(tasks') = Len(tasks) /\ Me' = Me
      /\ tasks'[Me].called = tasks[Me].called \cup {k}
      /\ tasks'[Me].turn = tasks[Me].turn /\ tasks'[Me].outcome = tasks[Me].outcome
      /\ tasks'[Me].command = tasks[Me].command
      /\ tasks'[Me].deferred = tasks[Me].deferred
  BY <1>2, <1>3, CalledTasks DEF ShapeInv, Me
<1>5. /\ run'.at = "running" /\ run'.input = run.input /\ run'.node = run.node
      /\ run'.nodes = run.nodes /\ run'.open = run.open \cup {k}
      /\ run'.deferred = run.deferred
  BY <1>1 DEF ToolCall, ShapeInv, Run
<1>6. /\ tracer'.task = tracer.task /\ tracer'.step = tracer.step
      /\ tracer'.tools = {e \in tracer.tools : e[1] # k} \cup {<<k, NewId(spans, traced)>>}
      /\ tracer'.taskToken = tracer.taskToken /\ tracer'.paused = tracer.paused
  BY DEF ToolCall, ShapeInv, Tracer, StartToolSpan
<1>7. /\ n \in Nat /\ DOMAIN spans = 1 .. n /\ DOMAIN spans' = 1 .. Len(spans')
      /\ traced \in BOOLEAN /\ tracer.task \in 0 .. n /\ tracer.step \in 0 .. n
  BY DEF ShapeInv, IdsInv
<1>8. /\ Len(spans') = IF traced THEN n + 1 ELSE n
      /\ \A s \in 1 .. n : spans'[s] = spans[s]
      /\ traced => /\ spans'[n + 1].name = "tool" /\ spans'[n + 1].task = Me
                   /\ spans'[n + 1].call = k /\ ~spans'[n + 1].ended
  <2> DEFINE x == [Plain("tool", Me, Parent) EXCEPT !.call = k]
  <2>1. x.name = "tool" /\ x.task = Me /\ x.call = k /\ ~x.ended
    BY DEF Plain
  <2>2. Adds(traced, x)
    BY ToolCallLog
  <2> HIDE DEF x
  <2> QED BY <2>1, <2>2 DEF Adds
<1>9. AtWork'
  BY <1>1, <1>2, <1>3, <1>4, <1>5, <1>6, <1>8, AtWorkFrame
<1>10. SpansAtWork'
  <2>1. ASSUME NEW s \in 1 .. n, spans[s].task = Me PROVE AtWorkOf(s)'
    <3>1. AtWorkOf(s) /\ spans'[s] = spans[s]
      BY <1>2, <1>8, <2>1, SpansAtWorkAre
    <3>2. spans[s].name = "tool" => spans[s].call # k
      BY <1>1, <1>7, <2>1 DEF TreeInv, Placed
    <3>3. OpenNow(s)' <=> OpenNow(s)
      BY <1>1, <1>5, <1>6, <3>1, <3>2 DEF OpenNow
    <3>4. spans[s].name = "tool" /\ spans[s].call \in run.open
            => <<spans[s].call, s>> \in tracer'.tools
      BY <1>6, <3>1, <3>2 DEF AtWorkOf
    <3> QED BY <1>1, <1>5, <3>1, <3>2, <3>3, <3>4 DEF AtWorkOf
  <2>2. ASSUME NEW s \in n + 1 .. Len(spans') PROVE AtWorkOf(s)'
    <3>1. traced /\ s = n + 1
      BY <1>7, <1>8
    <3>2. OpenNow(s)' /\ <<k, s>> \in tracer'.tools
      BY <1>5, <1>6, <1>8, <3>1 DEF OpenNow, NewId
    <3> QED BY <1>5, <1>8, <3>1, <3>2 DEF AtWorkOf
  <2>3. ASSUME NEW e \in tracer'.tools, e[2] # 0
        PROVE  WillBe(e[2], "tool", Me) /\ spans'[e[2]].call = e[1]
    <3>1. CASE e \in tracer.tools
      <4>1. Is(e[2], "tool", Me) /\ spans[e[2]].call = e[1]
        BY <1>2, <2>3, <3>1 DEF SpansAtWork
      <4> QED BY <1>7, <1>8, <4>1, IsKept DEF Is
    <3>2. CASE e = <<k, NewId(spans, traced)>>
      <4>1. traced /\ e[2] = n + 1 /\ e[1] = k
        BY <2>3, <3>2 DEF NewId
      <4> QED BY <1>7, <1>8, <4>1 DEF WillBe
    <3> QED BY <1>6, <2>3, <3>1, <3>2
  <2>4. run'.open \subseteq tasks'[Me].called
    BY <1>2, <1>4, <1>5 DEF SpansAtWork
  <2> QED BY <1>4, <2>1, <2>2, <2>3, <2>4, SpansAtWorkNext
<1>11. PauseAtWork'
  BY <1>2, <1>4, <1>5, NoPauseYet
<1> QED BY <1>9, <1>10, <1>11 DEF WorkInv

LEMMA WorkToolResult ==
  ASSUME ShapeInv, ShapeInv', IdsInv, WorkInv, Grows, NEW k \in Call, ToolResult(k)
  PROVE  WorkInv'
<1> DEFINE n == Len(spans)
           mine == {e \in tracer.tools : e[1] = k}
           ids == {e[2] : e \in mine}
<1>1. run.at = "running" /\ run.node = "tools" /\ k \in run.open
  BY DEF ToolResult
<1>2. AtWork /\ SpansAtWork /\ PauseAtWork /\ run.deferred = {} /\ Len(tasks) > 0
  BY <1>1, AtWorkNow
<1>3. UNCHANGED <<tasks, traced, cli>> /\ Me' = Me
  BY DEF ToolResult, InRun, Me
<1>4. /\ run'.at = "running" /\ run'.input = run.input /\ run'.node = run.node
      /\ run'.nodes = run.nodes /\ run'.open = run.open \ {k}
      /\ run'.deferred = run.deferred
  BY <1>1 DEF ToolResult, ShapeInv, Run
<1>5. /\ tracer'.task = tracer.task /\ tracer'.step = tracer.step
      /\ tracer'.tools = tracer.tools \ mine
      /\ tracer'.taskToken = tracer.taskToken /\ tracer'.paused = tracer.paused
  BY DEF ToolResult, ShapeInv, Tracer
<1>6. /\ n \in Nat /\ DOMAIN spans = 1 .. n /\ DOMAIN spans' = 1 .. Len(spans')
  BY DEF ShapeInv
<1>7. /\ Len(spans') = n
      /\ \A s \in 1 .. n :
           /\ Alike(spans'[s], spans[s]) /\ spans'[s].state = spans[s].state
           /\ spans'[s].ended <=> (spans[s].ended \/ s \in ids)
  BY ToolResultLog DEF Ends
<1>8. AtWork'
  BY <1>1, <1>2, <1>3, <1>4, <1>5, <1>7, AtWorkFrame
<1>9. SpansAtWork'
  <2>1. ASSUME NEW s \in 1 .. n, spans[s].task = Me PROVE AtWorkOf(s)'
    <3>1. AtWorkOf(s)
      BY <1>2, <2>1, SpansAtWorkAre
    <3>2. /\ spans'[s].name = spans[s].name /\ spans'[s].call = spans[s].call
          /\ spans'[s].state = spans[s].state
          /\ spans'[s].ended <=> (spans[s].ended \/ s \in ids)
      BY <1>7 DEF Alike
    <3>3. s \in ids => spans[s].name = "tool" /\ spans[s].call = k
      BY <1>2, <1>6 DEF SpansAtWork, Is
    <3>4. spans[s].name = "tool" /\ spans[s].call = k => s \in ids /\ ~spans[s].ended
      <4>1. HAVE spans[s].name = "tool" /\ spans[s].call = k
      <4>2. <<k, s>> \in mine /\ ~spans[s].ended
        BY <1>1, <3>1, <4>1 DEF AtWorkOf, OpenNow
      <4> QED BY <4>2
    <3>5. spans[s].name = "tool" => s # tracer.task /\ s # tracer.step
      BY <1>1, AtWorkNow DEF Is
    <3> HIDE DEF ids
    <3>6. ~spans'[s].ended <=> OpenNow(s)'
      BY <1>1, <1>4, <1>5, <3>1, <3>2, <3>3, <3>4, <3>5 DEF AtWorkOf, OpenNow
    <3>7. spans'[s].name = "tool" /\ spans'[s].call \in run'.open
            => <<spans'[s].call, s>> \in tracer'.tools
      BY <1>4, <1>5, <3>1, <3>2 DEF AtWorkOf
    <3> QED BY <1>1, <1>4, <3>1, <3>2, <3>6, <3>7 DEF AtWorkOf
  <2>2. ASSUME NEW e \in tracer'.tools, e[2] # 0
        PROVE  WillBe(e[2], "tool", Me) /\ spans'[e[2]].call = e[1]
    <3>1. Is(e[2], "tool", Me) /\ spans[e[2]].call = e[1]
      BY <1>2, <1>5, <2>2 DEF SpansAtWork
    <3> QED BY <1>6, <1>7, <3>1, IsKept DEF Is, Alike
  <2>3. run'.open \subseteq tasks'[Me].called
    BY <1>2, <1>3, <1>4 DEF SpansAtWork
  <2>4. n + 1 .. Len(spans') = {}
    BY <1>6, <1>7
  <2> QED BY <1>3, <2>1, <2>2, <2>3, <2>4, SpansAtWorkNext
<1>10. PauseAtWork'
  BY <1>2, <1>3, <1>4, NoPauseYet
<1> QED BY <1>8, <1>9, <1>10 DEF WorkInv

LEMMA WorkStepEnd ==
  ASSUME ShapeInv, ShapeInv', IdsInv, WorkInv, Grows, StepEnd
  PROVE  WorkInv'
<1> DEFINE n == Len(spans)
<1>1. run.at = "running" /\ run.node \in {"request", "tools"}
  BY DEF StepEnd
<1>2. AtWork /\ SpansAtWork /\ PauseAtWork /\ run.deferred = {} /\ Len(tasks) > 0
  BY <1>1, AtWorkNow
<1>3. UNCHANGED <<tasks, traced, cli>> /\ Me' = Me
  BY DEF StepEnd, InRun, Me
<1>4. /\ run'.at = "running" /\ run'.input = run.input
      /\ run'.node \in {"after request", "after tools"}
      /\ run'.nodes = run.nodes /\ run'.open = run.open
      /\ run'.deferred = run.deferred
  BY <1>1 DEF StepEnd, ShapeInv, Run
<1>5. /\ tracer'.task = tracer.task /\ tracer'.step = 0
      /\ tracer'.tools = tracer.tools
      /\ tracer'.taskToken = tracer.taskToken /\ tracer'.paused = tracer.paused
  BY DEF StepEnd, EndStepSpan, ShapeInv, Tracer
<1>6. /\ n \in Nat /\ DOMAIN spans = 1 .. n /\ DOMAIN spans' = 1 .. Len(spans')
  BY DEF ShapeInv
<1>7. /\ Len(spans') = n
      /\ \A s \in 1 .. n :
           /\ Alike(spans'[s], spans[s]) /\ spans'[s].state = spans[s].state
           /\ spans'[s].ended <=> (spans[s].ended \/ s = tracer.step)
  BY StepEndLog DEF Ends
<1>8. AtWork'
  <2>1. run.nodes # 0
    BY <1>1, <1>2 DEF AtWork
  <2>2. traced => WillBe(tracer'.task, "task", Me)
    BY <1>2, <1>5, IsKept DEF AtWork
  <2>3. ~traced => tracer.task = 0 /\ SpansOf(Me)' = {}
    <3>1. ~traced => tracer.task = 0 /\ SpansOf(Me) = {}
      BY <1>2 DEF AtWork
    <3>2. SpansOf(Me)' = SpansOf(Me)
      BY <1>3, <1>6, <1>7 DEF SpansOf, Alike
    <3> QED BY <3>1, <3>2
  <2>4. /\ Len(tasks) > 0 /\ tasks[Me].outcome = "running"
        /\ tasks[Me].command = cli.invocation /\ run.input = tasks[Me].turn
        /\ tracer.taskToken = <<0>>
    BY <1>1, <1>2 DEF AtWork, Finished
  <2> QED BY <1>3, <1>4, <1>5, <2>1, <2>2, <2>3, <2>4 DEF AtWork, Is, WillBe, Finished
<1>9. SpansAtWork'
  <2>1. ASSUME NEW s \in 1 .. n, spans[s].task = Me PROVE AtWorkOf(s)'
    <3>1. AtWorkOf(s)
      BY <1>2, <2>1, SpansAtWorkAre
    <3>2. /\ spans'[s].name = spans[s].name /\ spans'[s].call = spans[s].call
          /\ spans'[s].state = spans[s].state
          /\ spans'[s].ended <=> (spans[s].ended \/ s = tracer.step)
      BY <1>7 DEF Alike
    <3>3. s = tracer.step => s # 0 /\ spans[s].name = "step" /\ s # tracer.task
      <4>1. s # 0
        BY <1>6
      <4> QED BY <1>1, <4>1, AtWorkNow DEF Is
    <3>4. s # 0
      BY <1>6
    <3>5. ~spans'[s].ended <=> OpenNow(s)'
      BY <1>1, <1>4, <1>5, <3>1, <3>2, <3>3, <3>4 DEF AtWorkOf, OpenNow
    <3> QED BY <1>1, <1>4, <1>5, <3>1, <3>2, <3>5 DEF AtWorkOf
  <2>2. ASSUME NEW e \in tracer'.tools, e[2] # 0
        PROVE  WillBe(e[2], "tool", Me) /\ spans'[e[2]].call = e[1]
    <3>1. Is(e[2], "tool", Me) /\ spans[e[2]].call = e[1]
      BY <1>2, <1>5, <2>2 DEF SpansAtWork
    <3> QED BY <1>6, <1>7, <3>1, IsKept DEF Is, Alike
  <2>3. run'.open \subseteq tasks'[Me].called
    BY <1>2, <1>3, <1>4 DEF SpansAtWork
  <2>4. n + 1 .. Len(spans') = {}
    BY <1>6, <1>7
  <2> QED BY <1>3, <2>1, <2>2, <2>3, <2>4, SpansAtWorkNext
<1>10. PauseAtWork'
  BY <1>2, <1>3, <1>4, NoPauseYet
<1> QED BY <1>8, <1>9, <1>10 DEF WorkInv

\* A task has one span of its own.
LEMMA OneTaskSpan ==
  ASSUME TreeInv
  PROVE  \A r, s, t : Is(r, "task", t) /\ Is(s, "task", t) => r = s
  BY DEF TreeInv, Placed, Is

LEMMA WorkDeferred ==
  ASSUME ShapeInv, ShapeInv', IdsInv, WorkInv, Grows, NEW k \in Call, Deferred(k)
  PROVE  WorkInv'
<1> DEFINE n == Len(spans)
           q == tasks[Me].deferred
<1>1. run.at = "running" /\ run.node = "after tools" /\ k \in run.open \ run.deferred
  BY DEF Deferred
<1>2. AtWork /\ SpansAtWork /\ PauseAtWork /\ Len(tasks) > 0 /\ q \in Seq(Call)
      /\ Me \in 1 .. Len(tasks)
  BY <1>1, AtWorkNow
<1>3. tasks' = WithDeferred(k) /\ UNCHANGED <<traced, cli>>
  BY DEF Deferred, WithDeferred
<1>4. /\ Len(tasks') = Len(tasks) /\ Me' = Me
      /\ tasks'[Me].called = tasks[Me].called
      /\ tasks'[Me].turn = tasks[Me].turn /\ tasks'[Me].outcome = tasks[Me].outcome
      /\ tasks'[Me].command = tasks[Me].command
      /\ tasks'[Me].deferred = Append(q, k)
  BY <1>2, <1>3, DeferredTasks DEF ShapeInv, Me
<1>5. /\ run'.at = "running" /\ run'.input = run.input /\ run'.node = run.node
      /\ run'.nodes = run.nodes /\ run'.open = run.open
      /\ run'.deferred = run.deferred \cup {k}
  BY <1>1 DEF Deferred, ShapeInv, Run
<1>6. /\ tracer'.task = tracer.task /\ tracer'.step = tracer.step
      /\ tracer'.tools = tracer.tools
      /\ tracer'.taskToken = tracer.taskToken
      /\ tracer'.paused = <<NewId(spans, traced)>>
  BY DEF Deferred, ShapeInv, Tracer
<1>7. /\ n \in Nat /\ DOMAIN spans = 1 .. n /\ DOMAIN spans' = 1 .. Len(spans')
      /\ traced \in BOOLEAN /\ tracer.task \in 0 .. n /\ tracer.step = 0
  <2>1. tracer.step = 0
    BY <1>1, AtWorkNow
  <2> QED BY <2>1 DEF ShapeInv, IdsInv
<1>8. /\ Len(spans') = IF traced THEN n + 1 ELSE n
      /\ \A s \in 1 .. n : spans'[s] = spans[s]
      /\ traced => /\ spans'[n + 1].name = "request" /\ spans'[n + 1].task = Me
                   /\ spans'[n + 1].call = k /\ spans'[n + 1].ended
  <2> DEFINE x == RequestSpan(k)
  <2>1. x.name = "request" /\ x.task = Me /\ x.call = k /\ x.ended
    BY DEF RequestSpan, Plain
  <2>2. Adds(traced, x)
    BY DeferredLog
  <2> HIDE DEF x
  <2> QED BY <2>1, <2>2 DEF Adds
<1> HIDE DEF q
<1>9. AtWork'
  BY <1>1, <1>2, <1>3, <1>4, <1>5, <1>6, <1>8, AtWorkFrame
<1>10. SpansAtWork'
  <2>1. ASSUME NEW s \in 1 .. n, spans[s].task = Me PROVE AtWorkOf(s)'
    <3>1. AtWorkOf(s) /\ spans'[s] = spans[s]
      BY <1>2, <1>8, <2>1, SpansAtWorkAre
    <3>2. OpenNow(s)' <=> OpenNow(s)
      BY <1>1, <1>5, <1>6, <3>1 DEF OpenNow
    <3> QED BY <1>1, <1>5, <1>6, <3>1, <3>2 DEF AtWorkOf
  <2>2. ASSUME NEW s \in n + 1 .. Len(spans') PROVE AtWorkOf(s)'
    <3>1. traced /\ s = n + 1
      BY <1>7, <1>8
    <3>2. s # tracer'.task /\ s # tracer'.step
      BY <1>6, <1>7, <3>1
    <3> QED BY <1>5, <1>8, <3>1, <3>2 DEF AtWorkOf, OpenNow
  <2>3. ASSUME NEW e \in tracer'.tools, e[2] # 0
        PROVE  WillBe(e[2], "tool", Me) /\ spans'[e[2]].call = e[1]
    <3>1. Is(e[2], "tool", Me) /\ spans[e[2]].call = e[1]
      BY <1>2, <1>6, <2>3 DEF SpansAtWork
    <3> QED BY <1>7, <1>8, <3>1, IsKept DEF Is
  <2>4. run'.open \subseteq tasks'[Me].called
    BY <1>2, <1>4, <1>5 DEF SpansAtWork
  <2> QED BY <1>4, <2>1, <2>2, <2>3, <2>4, SpansAtWorkNext
<1>11. PauseAtWork'
  <2>1. /\ ToSet(Append(q, k)) = ToSet(q) \cup {k}
        /\ Last(Append(q, k)) = k /\ Append(q, k) # <<>>
    BY <1>2, AppendedSet
  <2>2. run'.deferred \subseteq run'.open /\ run'.deferred = ToSet(tasks'[Me].deferred)
    BY <1>1, <1>2, <1>4, <1>5, <2>1 DEF PauseAtWork, q
  <2>3. /\ run'.node = "after tools" /\ tasks'[Me].deferred # <<>>
        /\ tracer'.paused # <<>> /\ Last(tasks'[Me].deferred) = k
    <3>1. <<NewId(spans, traced)>> # <<>>
      OBVIOUS
    <3>2. tracer'.paused # <<>>
      BY <1>6, <3>1
    <3>3. tasks'[Me].deferred = Append(q, k)
      BY <1>4
    <3> QED BY <1>1, <1>5, <2>1, <3>2, <3>3
  <2>4. tracer'.paused[1] = IF traced THEN n + 1 ELSE 0
    BY <1>6 DEF NewId
  <2>5. IF traced THEN WillBe(tracer'.paused[1], "request", Me)
                       /\ spans'[tracer'.paused[1]].call = k
        ELSE tracer'.paused[1] = 0
    BY <1>7, <1>8, <2>4 DEF WillBe
  <2>6. ASSUME traced, NEW c \in run'.deferred
        PROVE  \E s \in DOMAIN spans' : /\ spans'[s].task = Me
                                        /\ spans'[s].name = "request"
                                        /\ spans'[s].call = c
    <3>1. CASE c = k
      BY <1>7, <1>8, <2>6, <3>1
    <3>2. CASE c \in run.deferred
      <4>1. PICK s \in SpansOf(Me) : spans[s].name = "request" /\ spans[s].call = c
        BY <1>2, <2>6, <3>2 DEF PauseAtWork
      <4> QED BY <1>7, <1>8, <4>1 DEF SpansOf
    <3> QED BY <1>5, <2>6, <3>1, <3>2
  <2>7. traced' = traced
    BY <1>3
  <2> QED BY <1>4, <2>2, <2>3, <2>5, <2>6, <2>7 DEF PauseAtWork, SpansOf, Is, WillBe
<1> QED BY <1>9, <1>10, <1>11 DEF WorkInv

LEMMA WorkRunEnds ==
  ASSUME ShapeInv, ShapeInv', IdsInv, TreeInv, WorkInv, Grows, RunEnds
  PROVE  WorkInv'
<1> DEFINE n == Len(spans)
           paused == run.deferred # {}
<1>1. run.at = "running" /\ run.node = "after tools" /\ run.deferred = run.open
  BY DEF RunEnds
<1>2. AtWork /\ SpansAtWork /\ PauseAtWork /\ Len(tasks) > 0 /\ tracer.step = 0
  BY <1>1, AtWorkNow
<1>3. UNCHANGED <<tasks, traced, cli>> /\ Me' = Me
  BY DEF RunEnds, InRun, Me
<1>4. /\ run'.at = IF paused THEN "pausing" ELSE "finalizing"
      /\ run'.input = run.input /\ run'.node = run.node
      /\ run'.nodes = run.nodes /\ run'.open = run.open
      /\ run'.deferred = run.deferred
  BY <1>1 DEF RunEnds, ShapeInv, Run
<1>5. /\ tracer'.task = tracer.task /\ tracer'.step = tracer.step
      /\ tracer'.tools = tracer.tools /\ tracer'.paused = tracer.paused
  BY DEF RunEnds, ShapeInv, Tracer
<1>6. /\ n \in Nat /\ DOMAIN spans = 1 .. n /\ DOMAIN spans' = 1 .. Len(spans')
  BY DEF ShapeInv
<1>7. /\ Len(spans') = n
      /\ \A s \in 1 .. n :
           /\ Alike(spans'[s], spans[s])
           /\ spans'[s].state = IF paused /\ s = tracer.task /\ ~spans[s].ended
                                THEN "paused" ELSE spans[s].state
           /\ spans'[s].ended <=> (spans[s].ended \/ (paused /\ s = tracer.task))
  <2>1. IF paused THEN Says("paused") ELSE spans' = spans
    BY RunEndsLog
  <2>2. \A s \in 1 .. n : Alike(spans[s], spans[s])
    BY DEF Alike
  <2> QED BY <2>1, <2>2 DEF Says
<1>8. AtWork'
  <2>1. tracer.taskToken = <<0>> /\ Len(tasks) > 0 /\ tasks[Me].outcome = "running"
        /\ tasks[Me].command = cli.invocation /\ run.input = tasks[Me].turn
        /\ (run.nodes = 0 <=> run.node = "none")
    BY <1>1, <1>2 DEF AtWork, Finished
  <2>2. current' = 0
    <3>1. <<0>> # <<>> /\ <<0>>[1] = 0
      BY Token
    <3>2. Detached = 0
      BY <2>1, <3>1 DEF Detached
    <3> QED BY <3>2 DEF RunEnds
  <2>3. traced => WillBe(tracer'.task, "task", Me)
    BY <1>2, <1>5, IsKept DEF AtWork
  <2>4. ~traced => tracer.task = 0 /\ SpansOf(Me)' = {}
    <3>1. ~traced => tracer.task = 0 /\ SpansOf(Me) = {}
      BY <1>2 DEF AtWork
    <3>2. SpansOf(Me)' = SpansOf(Me)
      BY <1>3, <1>6, <1>7 DEF SpansOf, Alike
    <3> QED BY <3>1, <3>2
  <2>5. run'.at \in Finished
    BY <1>4 DEF Finished
  <2>6. run'.deferred = {} <=> run'.at = "finalizing"
    BY <1>4
  <2> QED BY <1>1, <1>2, <1>3, <1>4, <1>5, <2>1, <2>2, <2>3, <2>4, <2>5, <2>6
          DEF AtWork, Is, WillBe
<1>9. SpansAtWork'
  <2>1. ASSUME NEW s \in 1 .. n, spans[s].task = Me PROVE AtWorkOf(s)'
    <3>1. AtWorkOf(s)
      BY <1>2, <2>1, SpansAtWorkAre
    <3>2. /\ spans'[s].name = spans[s].name /\ spans'[s].call = spans[s].call
          /\ spans'[s].state = IF paused /\ s = tracer.task /\ ~spans[s].ended
                               THEN "paused" ELSE spans[s].state
          /\ spans'[s].ended <=> (spans[s].ended \/ (paused /\ s = tracer.task))
      BY <1>7 DEF Alike
    <3>3. s = tracer.task => spans[s].name = "task"
      <4>1. s # 0
        BY <1>6
      <4> QED BY <1>1, <4>1, AtWorkNow DEF Is
    <3>4. spans[s].name = "task" => s = tracer.task
      <4>1. HAVE spans[s].name = "task"
      <4>2. traced
        <5>1. s \in SpansOf(Me)
          BY <1>6, <2>1 DEF SpansOf
        <5> QED BY <1>1, <5>1, AtWorkNow
      <4>3. Is(tracer.task, "task", Me)
        BY <1>2, <4>2 DEF AtWork
      <4>4. spans[s].task = Me /\ s \in DOMAIN spans
        BY <1>6, <2>1
      <4> QED BY <4>1, <4>3, <4>4, OneTaskSpan DEF Is
    <3>5. s # 0
      BY <1>6
    <3>6. ~spans'[s].ended <=> OpenNow(s)'
      BY <1>1, <1>2, <1>4, <1>5, <3>1, <3>2, <3>3, <3>5 DEF AtWorkOf, OpenNow
    <3>7. s = tracer.task => ~spans[s].ended
      BY <1>1, <3>1 DEF AtWorkOf, OpenNow
    <3>8. spans'[s].name = "task" => spans'[s].state \in
            IF run'.at \in {"pausing", "marking"} THEN {"paused"}
                                                  ELSE {"running", "resumed"}
      BY <1>1, <1>4, <3>1, <3>2, <3>4, <3>7 DEF AtWorkOf
    <3> QED BY <1>1, <1>4, <1>5, <3>1, <3>2, <3>6, <3>8 DEF AtWorkOf
  <2>2. ASSUME NEW e \in tracer'.tools, e[2] # 0
        PROVE  WillBe(e[2], "tool", Me) /\ spans'[e[2]].call = e[1]
    <3>1. Is(e[2], "tool", Me) /\ spans[e[2]].call = e[1]
      BY <1>2, <1>5, <2>2 DEF SpansAtWork
    <3> QED BY <1>6, <1>7, <3>1, IsKept DEF Is, Alike
  <2>3. run'.open \subseteq tasks'[Me].called
    BY <1>2, <1>3, <1>4 DEF SpansAtWork
  <2>4. n + 1 .. Len(spans') = {}
    BY <1>6, <1>7
  <2> QED BY <1>3, <2>1, <2>2, <2>3, <2>4, SpansAtWorkNext
<1>10. PauseAtWork'
  <2>1. \A s \in DOMAIN spans : /\ s \in DOMAIN spans'
                                /\ spans'[s].name = spans[s].name
                                /\ spans'[s].task = spans[s].task
                                /\ spans'[s].call = spans[s].call
    BY <1>6, <1>7 DEF Alike
  <2>2. DOMAIN spans' = DOMAIN spans
    BY <1>6, <1>7
  <2>3. SpansOf(Me)' = SpansOf(Me)
    BY <1>3, <2>1, <2>2 DEF SpansOf
  <2>4. traced => \A k \in run.deferred : \E s \in SpansOf(Me) :
                    spans'[s].name = "request" /\ spans'[s].call = k
    <3>1. traced => \A k \in run.deferred : \E s \in SpansOf(Me) :
                      spans[s].name = "request" /\ spans[s].call = k
      BY <1>2 DEF PauseAtWork
    <3>2. \A s \in SpansOf(Me) : s \in DOMAIN spans
      BY DEF SpansOf
    <3> QED BY <2>1, <3>1, <3>2
  <2>5. /\ run.deferred \subseteq run.open
        /\ run.deferred = ToSet(tasks[Me].deferred)
        /\ run.deferred # {} =>
             /\ run.node = "after tools"
             /\ tasks[Me].deferred # <<>>
             /\ tracer.paused # <<>>
             /\ IF traced
                  THEN WillBe(tracer.paused[1], "request", Me)
                       /\ spans'[tracer.paused[1]].call = Last(tasks[Me].deferred)
                  ELSE tracer.paused[1] = 0
    <3>1. IF traced THEN \A x : Is(x, "request", Me) => WillBe(x, "request", Me)
                                   /\ spans'[x].call = spans[x].call
                    ELSE TRUE
      BY <2>1, IsKept DEF Is
    <3> QED BY <1>2, <3>1 DEF PauseAtWork
  <2> QED BY <1>3, <1>4, <1>5, <2>3, <2>4, <2>5 DEF PauseAtWork, Is, WillBe
<1> QED BY <1>8, <1>9, <1>10 DEF WorkInv

LEMMA WorkReceive ==
  ASSUME ShapeInv, ShapeInv', IdsInv, TreeInv, AskedInv, Grows,
         SendWords \/ \E verdicts \in Answers : SendAnswers(verdicts)
  PROVE  WorkInv'
<1> DEFINE n == Len(spans)
           new == Len(tasks) + 1
<1>1. PICK words \in Nat, verdicts \in SUBSET Verdict, turn \in Nat :
        /\ Receive(words, verdicts, turn)
        /\ \/ verdicts = {} /\ words = turn /\ words # 0
           \/ verdicts # {} /\ words = 0 /\ turn = Turn /\ cli.asked # {}
  BY MessageReceived
<1> DEFINE prior == IF verdicts = {} THEN <<>> ELSE store.pause
           span == NewId(Ended(spans, cli.wait), traced)
<1>2. ReceiveLog(words, verdicts)
  BY <1>1, ReceivedLog
<1>3. /\ Len(tasks') = new /\ Me' = new
      /\ tasks'[new].turn = turn /\ tasks'[new].outcome = "running"
      /\ tasks'[new].command = cli.invocation /\ tasks'[new].deferred = <<>>
  BY <1>1, ReceivedTask
<1>4. Input(words, prior) = turn
  <2>1. CASE verdicts = {}
    BY <1>1, <2>1 DEF Input
  <2>2. CASE verdicts # {}
    BY <1>1, <2>2 DEF Input, AskedInv, Turn
  <2> QED BY <2>1, <2>2
<1>5. span = IF traced THEN n + 1 ELSE 0
  <2>1. Len(Ended(spans, cli.wait)) = n
    BY EndedLog DEF ShapeInv, IdsInv
  <2> QED BY <2>1 DEF NewId
<1>6. /\ tracer' = [NewTracer EXCEPT !.task = span, !.taskToken = <<0>>]
      /\ run' = [Idle EXCEPT !.at = "loading", !.input = Input(words, prior),
                             !.resumes = verdicts # {}]
      /\ cli' = [cli EXCEPT !.wait = 0, !.asked = {}]
      /\ traced' = traced
  BY <1>1 DEF Receive
<1>7. /\ n \in Nat /\ DOMAIN spans = 1 .. n /\ DOMAIN spans' = 1 .. Len(spans')
      /\ Len(tasks) \in Nat /\ traced \in BOOLEAN
  BY DEF ShapeInv
<1> HIDE DEF span
<1>8. /\ tracer'.task = span /\ tracer'.step = 0 /\ tracer'.tools = {}
      /\ tracer'.taskToken = <<0>>
  BY <1>6 DEF NewTracer
<1>9. /\ run'.at = "loading" /\ run'.input = turn /\ run'.node = "none"
      /\ run'.nodes = 0 /\ run'.open = {} /\ run'.deferred = {}
  BY <1>4, <1>6 DEF Idle
<1>10. cli'.invocation = cli.invocation
  BY <1>6 DEF ShapeInv, Command
<1>11. /\ Len(spans') = IF ~traced THEN n ELSE IF prior = <<>> THEN n + 1 ELSE n + 2
       /\ traced =>
            LET x == spans'[n + 1] IN
            /\ x.name = "task" /\ x.task = new /\ ~x.ended
            /\ x.state \in {"running", "resumed"}
       /\ traced /\ prior # <<>> =>
            LET x == spans'[n + 2] IN
            x.name = "decided" /\ x.task = new /\ x.ended
  BY <1>2, <1>3 DEF ReceiveLog
<1> HIDE DEF prior
<1>12. ASSUME NEW s \in DOMAIN spans', spans'[s].task = new
       PROVE  traced /\ (s = n + 1 \/ (prior # <<>> /\ s = n + 2))
  <2>1. s \notin 1 .. n
    <3>1. SUFFICES ASSUME s \in 1 .. n PROVE FALSE
      OBVIOUS
    <3>2. spans[s].task \in 0 .. Len(tasks) /\ spans[s].task = new
      BY <1>7, <1>12, <3>1 DEF TreeInv, Placed, Grows, Alike
    <3> QED BY <1>7, <3>2
  <2>2. traced
    BY <1>7, <1>11, <2>1
  <2> QED BY <1>7, <1>11, <2>1, <2>2
<1>13. AtWork'
  <2>1. traced => WillBe(tracer'.task, "task", new)
    BY <1>5, <1>7, <1>8, <1>11 DEF WillBe
  <2>2. ~traced => tracer'.task = 0 /\ SpansOf(Me)' = {}
    BY <1>3, <1>5, <1>8, <1>12 DEF SpansOf
  <2> QED BY <1>3, <1>6, <1>7, <1>8, <1>9, <1>10, <2>1, <2>2
          DEF AtWork, Is, WillBe, Finished
<1>14. SpansAtWork'
  <2>1. ASSUME NEW s \in DOMAIN spans', spans'[s].task = new PROVE AtWorkOf(s)'
    <3>1. CASE traced /\ s = n + 1
      BY <1>5, <1>8, <1>9, <1>11, <3>1 DEF AtWorkOf, OpenNow
    <3>2. CASE traced /\ prior # <<>> /\ s = n + 2
      <4>1. s # tracer'.task /\ s # tracer'.step
        BY <1>5, <1>7, <1>8, <3>2
      <4> QED BY <1>9, <1>11, <3>2, <4>1 DEF AtWorkOf, OpenNow
    <3> QED BY <1>12, <2>1, <3>1, <3>2
  <2> QED BY <1>3, <1>8, <1>9, <2>1 DEF SpansAtWork, SpansOf, AtWorkOf
<1>15. PauseAtWork'
  <2>1. ToSet(<<>>) = {}
    BY DEF ToSet
  <2> QED BY <1>3, <1>9, <2>1 DEF PauseAtWork
<1> QED BY <1>13, <1>14, <1>15 DEF WorkInv

LEMMA WorkStep ==
  ASSUME ShapeInv, ShapeInv', IdsInv, TreeInv, WorkInv, AskedInv, Next, Grows
  PROVE  WorkInv'
<1>1. run'.at = "idle" => WorkInv'
  BY DEF WorkInv
<1>2. CASE \/ RunRaises \/ Cancelled \/ SavePauseState \/ Finalize \/ SaveRaises
           \/ HubRestarts
  <2>1. run' = Idle
    BY <1>2 DEF RunRaises, Cancelled, SavePauseState, Finalize, SaveRaises, HubRestarts
  <2> QED BY <1>1, <2>1 DEF Idle
<1>3. CASE \/ \E recording \in BOOLEAN : CliStarts(recording)
           \/ CliEnds \/ LoadPauseRaises
  <2>1. run.at = "idle" /\ run' = run
    BY <1>3 DEF CliStarts, CliEnds, LoadPauseRaises, Hub
  <2> QED BY <1>1, <2>1
<1>4. CASE SendWords \/ \E verdicts \in Answers : SendAnswers(verdicts)
  BY <1>4, WorkReceive
<1>5. CASE StartRun \/ SavePausedHistory \/ StepEnd \/ RunEnds
  BY <1>5, WorkStartRun, WorkSavePausedHistory, WorkStepEnd, WorkRunEnds
<1>6. CASE \E kind \in {"request", "tools"} : StepStart(kind)
  BY <1>6, WorkStepStart
<1>7. CASE \E k \in Call : ToolCall(k) \/ ToolResult(k) \/ Deferred(k)
  BY <1>7, WorkToolCall, WorkToolResult, WorkDeferred
<1> QED BY <1>2, <1>3, <1>4, <1>5, <1>6, <1>7 DEF Next

-----------------------------------------------------------------------------
(* The tasks that are over.                                                *)

\* The step leaves the spans of t as they were, and adds none.
Quiet(t) ==
  /\ \A s \in 1 .. Len(spans) : spans[s].task = t =>
       spans'[s].state = spans[s].state /\ (spans'[s].ended <=> spans[s].ended)
  /\ \A s \in Len(spans) + 1 .. Len(spans') : spans'[s].task # t

LEMMA QuietStep ==
  ASSUME ShapeInv, ShapeInv', IdsInv, TreeInv, CliInv, WorkInv, AskedInv, Next,
         NEW t \in 1 .. Len(tasks), t # Me \/ run.at = "idle"
  PROVE  Quiet(t)
<1>1. /\ Len(spans) \in Nat /\ DOMAIN spans = 1 .. Len(spans) /\ Len(tasks) \in Nat
      /\ traced \in BOOLEAN /\ t # 0
  BY DEF ShapeInv
<1>2. spans' = spans => Quiet(t)
  BY <1>1 DEF Quiet
<1>3. ASSUME NEW recording \in BOOLEAN, NEW x, Adds(recording, x), x.task # t
      PROVE  Quiet(t)
  <2>1. \A s \in Len(spans) + 1 .. Len(spans') : spans'[s] = x
    BY <1>3, AddedSpan
  <2>2. \A s \in 1 .. Len(spans) : spans'[s] = spans[s]
    BY <1>3 DEF Adds
  <2> QED BY <1>3, <2>1, <2>2 DEF Quiet
<1>4. ASSUME NEW ids, Ends(ids), \A s \in ids : s = 0 \/ spans[s].task # t
      PROVE  Quiet(t)
  <2>1. Len(spans) + 1 .. Len(spans') = {}
    BY <1>1, <1>4 DEF Ends
  <2>2. \A s \in 1 .. Len(spans) : spans[s].task = t => s \notin ids
    BY <1>1, <1>4
  <2> QED BY <1>4, <2>1, <2>2 DEF Quiet, Ends
<1>5. ASSUME NEW state, Says(state), tracer.task = 0 \/ spans[tracer.task].task # t
      PROVE  Quiet(t)
  <2>1. Len(spans) + 1 .. Len(spans') = {}
    BY <1>1, <1>5 DEF Says
  <2>2. \A s \in 1 .. Len(spans) : spans[s].task = t => s # tracer.task
    BY <1>1, <1>5
  <2> QED BY <1>5, <2>1, <2>2 DEF Quiet, Says
<1>6. /\ cli.root # 0 => spans[cli.root].task = 0
      /\ cli.wait # 0 => spans[cli.wait].task = 0
  BY DEF CliInv, Is
<1>7. ASSUME run.at # "idle"
      PROVE  /\ Me # t
             /\ tracer.task = 0 \/ spans[tracer.task].task # t
             /\ tracer.step = 0 \/ spans[tracer.step].task # t
             /\ \A e \in tracer.tools : e[2] = 0 \/ spans[e[2]].task # t
  <2>1. /\ tracer.task # 0 => Is(tracer.task, "task", Me)
        /\ tracer.step # 0 => Is(tracer.step, "step", Me)
        /\ SpansAtWork /\ Me # t
    BY <1>7, AtWorkNow
  <2> QED BY <2>1 DEF SpansAtWork, Is
<1>8. ASSUME NEW recording \in BOOLEAN, CliStarts(recording) PROVE Quiet(t)
  <2> DEFINE x == [Plain("cli", 0, 0) EXCEPT !.invocation = cli.invocation + 1]
  <2>1. x.task = 0 /\ Adds(recording, x)
    BY <1>8, CliStartsLog DEF Plain
  <2> HIDE DEF x
  <2> QED BY <1>1, <1>3, <2>1
<1>9. CASE CliEnds \/ LoadPauseRaises
  <2>1. Ends({cli.wait, cli.root}) \/ Ends({cli.wait})
    BY <1>9, CliEndsLog, LoadPauseRaisesLog
  <2> QED BY <1>1, <1>4, <1>6, <2>1
<1>10. CASE SendWords \/ \E verdicts \in Answers : SendAnswers(verdicts)
  <2>1. PICK words \in Nat, verdicts \in SUBSET Verdict, turn \in Nat :
          Receive(words, verdicts, turn)
    BY <1>10, MessageReceived
  <2>2. ReceiveLog(words, verdicts) /\ Me' = Len(tasks) + 1
    BY <2>1, ReceivedLog, ReceivedTask
  <2> DEFINE prior == IF verdicts = {} THEN <<>> ELSE store.pause
  <2>3. /\ Len(spans') = IF ~traced THEN Len(spans)
                         ELSE IF prior = <<>> THEN Len(spans) + 1 ELSE Len(spans) + 2
        /\ traced => spans'[Len(spans) + 1].task = Me'
        /\ traced /\ prior # <<>> => spans'[Len(spans) + 2].task = Me'
        /\ \A s \in 1 .. Len(spans) :
             /\ spans'[s].state = spans[s].state
             /\ spans'[s].ended <=> (spans[s].ended \/ s = cli.wait)
    BY <2>2 DEF ReceiveLog
  <2> HIDE DEF prior
  <2>4. ASSUME NEW s \in Len(spans) + 1 .. Len(spans') PROVE spans'[s].task # t
    <3>1. traced
      BY <1>1, <2>3, <2>4
    <3>2. s = Len(spans) + 1 \/ (prior # <<>> /\ s = Len(spans) + 2)
      BY <1>1, <2>3, <2>4, <3>1
    <3> QED BY <1>1, <2>2, <2>3, <3>1, <3>2
  <2>5. \A s \in 1 .. Len(spans) : spans[s].task = t => s # cli.wait
    BY <1>1, <1>6
  <2> QED BY <2>3, <2>4, <2>5 DEF Quiet
<1>11. ASSUME NEW kind \in {"request", "tools"}, StepStart(kind) PROVE Quiet(t)
  <2>1. Me # t
    BY <1>7, <1>11 DEF StepStart
  <2> QED BY <1>1, <1>3, <1>11, <2>1, StepStartLog, PlainFields
<1>12. ASSUME NEW k \in Call, ToolCall(k) PROVE Quiet(t)
  <2> DEFINE x == [Plain("tool", Me, Parent) EXCEPT !.call = k]
  <2>1. x.task = Me /\ Adds(traced, x)
    BY <1>12, ToolCallLog DEF Plain
  <2>2. Me # t
    BY <1>7, <1>12 DEF ToolCall
  <2> HIDE DEF x
  <2> QED BY <1>1, <1>3, <2>1, <2>2
<1>13. ASSUME NEW k \in Call, ToolResult(k) PROVE Quiet(t)
  <2>1. Ends({e[2] : e \in {d \in tracer.tools : d[1] = k}})
    BY <1>13, ToolResultLog
  <2>2. run.at # "idle"
    BY <1>13 DEF ToolResult
  <2> QED BY <1>4, <1>7, <2>1, <2>2
<1>14. ASSUME NEW k \in Call, Deferred(k) PROVE Quiet(t)
  <2> DEFINE x == RequestSpan(k)
  <2>1. x.task = Me /\ Adds(traced, x)
    BY <1>14, DeferredLog DEF RequestSpan, Plain
  <2>2. Me # t
    BY <1>7, <1>14 DEF Deferred
  <2> HIDE DEF x
  <2> QED BY <1>1, <1>3, <2>1, <2>2
<1>15. CASE StepEnd
  <2>1. run.at # "idle"
    BY <1>15 DEF StepEnd
  <2> QED BY <1>4, <1>7, <1>15, <2>1, StepEndLog
<1>16. CASE RunEnds \/ RunRaises \/ Finalize
  <2>1. run.at # "idle"
    BY <1>16 DEF RunEnds, RunRaises, Finalize
  <2>2. spans' = spans \/ \E state : Says(state)
    BY <1>16, RunEndsLog, RunRaisesLog, FinalizeLog
  <2> QED BY <1>2, <1>5, <1>7, <2>1, <2>2
<1>17. CASE SavePauseState
  <2> DEFINE recording == cli.root # 0
  <2>1. recording \in BOOLEAN /\ Adds(recording, Plain("wait", 0, cli.root))
    BY <1>17, SavePauseStateLog
  <2> HIDE DEF recording
  <2> QED BY <1>1, <1>3, <2>1, PlainFields
<1>18. CASE StartRun \/ Cancelled \/ SavePausedHistory \/ SaveRaises \/ HubRestarts
  BY <1>2, <1>18 DEF StartRun, Cancelled, SavePausedHistory, SaveRaises, HubRestarts
<1> QED BY <1>8, <1>9, <1>10, <1>11, <1>12, <1>13, <1>14, <1>15, <1>16, <1>17, <1>18
        DEF Next

\* The spans of t are the same, and say the same.
LEMMA QuietSpans ==
  ASSUME ShapeInv, ShapeInv', Grows, NEW t, Quiet(t)
  PROVE  /\ SpansOf(t)' = SpansOf(t)
         /\ \A name : Named(t, name)' = Named(t, name)
         /\ \A s \in SpansOf(t) :
              /\ s \in 1 .. Len(spans) /\ Alike(spans'[s], spans[s])
              /\ spans'[s].state = spans[s].state
              /\ spans'[s].ended <=> spans[s].ended
<1>1. /\ DOMAIN spans = 1 .. Len(spans) /\ DOMAIN spans' = 1 .. Len(spans')
      /\ Len(spans) \in Nat /\ Len(spans') \in Nat
  BY DEF ShapeInv
<1>2. \A s \in 1 .. Len(spans) : Alike(spans'[s], spans[s]) /\ s \in DOMAIN spans'
  BY <1>1 DEF Grows
<1>3. \A s \in DOMAIN spans' : s \in 1 .. Len(spans) \/ s \in Len(spans) + 1 .. Len(spans')
  BY <1>1
<1>4. \A s \in DOMAIN spans' : spans'[s].task = t => s \in 1 .. Len(spans)
  BY <1>3 DEF Quiet
<1>5. SpansOf(t)' = SpansOf(t)
  BY <1>1, <1>2, <1>4 DEF SpansOf, Alike
<1>6. \A s \in SpansOf(t) :
        /\ s \in 1 .. Len(spans) /\ Alike(spans'[s], spans[s])
        /\ spans'[s].state = spans[s].state
        /\ spans'[s].ended <=> spans[s].ended
  BY <1>1, <1>2 DEF SpansOf, Quiet
<1>7. \A name : Named(t, name)' = Named(t, name)
  BY <1>5, <1>6 DEF Named, Alike
<1> QED BY <1>5, <1>6, <1>7

LEMMA SettledFrame ==
  ASSUME ShapeInv, ShapeInv', Grows, NEW t, Quiet(t), Settled(t),
         tasks'[t].outcome = tasks[t].outcome, tasks'[t].deferred = tasks[t].deferred
  PROVE  Settled(t)'
<1>1. SpansOf(t)' = SpansOf(t) /\ \A name : Named(t, name)' = Named(t, name)
  BY QuietSpans
<1>2. \A s \in SpansOf(t) :
        /\ spans'[s].name = spans[s].name /\ spans'[s].call = spans[s].call
        /\ spans'[s].state = spans[s].state /\ (spans'[s].ended <=> spans[s].ended)
  BY QuietSpans DEF Alike
<1>3. \A name : \A s \in Named(t, name) : s \in SpansOf(t)
  BY DEF Named
<1>4. {spans'[s].call : s \in Named(t, "request")} = {spans[s].call : s \in Named(t, "request")}
  BY <1>2, <1>3
<1> DEFINE outcome == tasks[t].outcome
           deferred == ToSet(tasks[t].deferred)
<1>5. /\ outcome # "running"
      /\ outcome = "completed" => \A s \in SpansOf(t) : spans'[s].ended
  BY <1>2 DEF Settled
<1>6. outcome = "paused" =>
       /\ \A s \in SpansOf(t) :
            ~spans'[s].ended <=> (spans'[s].name = "tool" /\ spans'[s].call \in deferred)
       /\ Named(t, "task") # {} =>
            {spans'[s].call : s \in Named(t, "request")} = deferred
  BY <1>2, <1>4 DEF Settled
<1>7. \A s \in Named(t, "task") :
       /\ spans'[s].ended => spans'[s].state \in {"completed", "paused", "failed"}
       /\ spans'[s].state = "completed" <=> outcome = "completed"
       /\ spans'[s].state = "failed" <=> outcome = "failed"
       /\ outcome = "paused" => spans'[s].ended /\ spans'[s].state = "paused"
  BY <1>2, <1>3 DEF Settled
<1> QED BY <1>1, <1>5, <1>6, <1>7 DEF Settled

\* The task at work has one task span, which is open till the run is over.
LEMMA TaskSpanAtWork ==
  ASSUME ShapeInv, TreeInv, WorkInv, run.at # "idle"
  PROVE  /\ \A s \in SpansOf(Me) : traced /\ s \in 1 .. Len(spans) /\ AtWorkOf(s) /\ s # 0
         /\ \A s \in Named(Me, "task") :
              /\ s \in SpansOf(Me) /\ s = tracer.task /\ traced
              /\ ~spans[s].ended <=> run.at \in {"loading", "running", "finalizing"}
              /\ spans[s].state \in IF run.at \in {"pausing", "marking"}
                                    THEN {"paused"} ELSE {"running", "resumed"}
<1>1. /\ DOMAIN spans = 1 .. Len(spans) /\ Len(spans) \in Nat
  BY DEF ShapeInv
<1>2. AtWork /\ SpansAtWork
  BY AtWorkNow
<1>3. \A s \in SpansOf(Me) : /\ s \in 1 .. Len(spans) /\ s # 0 /\ spans[s].task = Me
                             /\ s \in DOMAIN spans
  BY <1>1 DEF SpansOf
<1>4. \A s \in SpansOf(Me) : traced /\ AtWorkOf(s)
  BY <1>2, <1>3, AtWorkNow, SpansAtWorkAre
<1>5. ASSUME NEW s \in Named(Me, "task")
      PROVE  /\ s \in SpansOf(Me) /\ s = tracer.task /\ traced
             /\ ~spans[s].ended <=> run.at \in {"loading", "running", "finalizing"}
             /\ spans[s].state \in IF run.at \in {"pausing", "marking"}
                                   THEN {"paused"} ELSE {"running", "resumed"}
  <2>1. s \in SpansOf(Me) /\ spans[s].name = "task"
    BY DEF Named
  <2>2. traced /\ AtWorkOf(s) /\ s # 0 /\ Is(s, "task", Me)
    BY <1>3, <1>4, <2>1 DEF Is
  <2>3. Is(tracer.task, "task", Me)
    BY <1>2, <2>2 DEF AtWork
  <2>4. s = tracer.task
    BY <2>2, <2>3, OneTaskSpan
  <2>5. s # tracer.step
    BY <2>1, <2>2, AtWorkNow DEF Is
  <2> QED BY <2>1, <2>2, <2>4, <2>5 DEF AtWorkOf, OpenNow
<1> QED BY <1>3, <1>4, <1>5

LEMMA SaidSpans ==
  ASSUME ShapeInv, ShapeInv', NEW state, Says(state), NEW t
  PROVE  /\ SpansOf(t)' = SpansOf(t)
         /\ \A name : Named(t, name)' = Named(t, name)
         /\ \A s \in SpansOf(t) :
              /\ Alike(spans'[s], spans[s])
              /\ spans'[s].state =
                   IF s = tracer.task /\ ~spans[s].ended THEN state ELSE spans[s].state
              /\ spans'[s].ended <=> (spans[s].ended \/ s = tracer.task)
<1>1. /\ DOMAIN spans = 1 .. Len(spans) /\ DOMAIN spans' = 1 .. Len(spans)
  BY DEF ShapeInv, Says
<1>2. \A s \in DOMAIN spans :
        /\ Alike(spans'[s], spans[s])
        /\ spans'[s].state =
             IF s = tracer.task /\ ~spans[s].ended THEN state ELSE spans[s].state
        /\ spans'[s].ended <=> (spans[s].ended \/ s = tracer.task)
  BY <1>1 DEF Says
<1>3. SpansOf(t)' = SpansOf(t)
  BY <1>1, <1>2 DEF SpansOf, Alike
<1>4. \A s \in SpansOf(t) : s \in DOMAIN spans
  BY DEF SpansOf
<1>5. \A name : Named(t, name)' = Named(t, name)
  BY <1>2, <1>3, <1>4 DEF Named, Alike
<1> QED BY <1>2, <1>3, <1>4, <1>5

\* Cancelled, raised in a save or lost with its hub: the spans stay as they are.
LEMMA DroppedSettles ==
  ASSUME ShapeInv, ShapeInv', TreeInv, WorkInv, Grows, run.at # "idle",
         NEW t, t = Me, Quiet(t), tasks'[t].outcome \in {"cancelled", "raised", "lost"}
  PROVE  Settled(t)'
<1>1. Named(t, "task")' = Named(t, "task")
      /\ \A s \in Named(t, "task") : /\ spans'[s].state = spans[s].state
                                     /\ spans'[s].ended <=> spans[s].ended
  <2>1. \A s \in Named(t, "task") : s \in SpansOf(t)
    BY DEF Named
  <2> QED BY <2>1, QuietSpans
<1>2. run.at \in {"loading", "running", "pausing", "marking", "finalizing"}
  BY DEF ShapeInv, Run, Finished
<1>3. \A s \in Named(t, "task") :
        /\ spans[s].ended => spans[s].state = "paused"
        /\ spans[s].state # "completed" /\ spans[s].state # "failed"
  BY <1>2, TaskSpanAtWork
<1> QED BY <1>1, <1>3 DEF Settled

LEMMA FailedSettles ==
  ASSUME ShapeInv, ShapeInv', TreeInv, WorkInv, run.at \in {"loading", "running"},
         NEW t, t = Me, Says("failed"), tasks'[t].outcome = "failed"
  PROVE  Settled(t)'
<1>1. /\ Named(t, "task")' = Named(t, "task")
      /\ \A s \in Named(t, "task") : spans'[s].state = "failed" /\ spans'[s].ended
  BY TaskSpanAtWork, SaidSpans
<1> QED BY <1>1 DEF Settled

LEMMA CompletedSettles ==
  ASSUME ShapeInv, ShapeInv', TreeInv, WorkInv, run.at = "finalizing",
         NEW t, t = Me, Says("completed"), tasks'[t].outcome = "completed"
  PROVE  Settled(t)'
<1>1. /\ Named(t, "task")' = Named(t, "task")
      /\ \A s \in Named(t, "task") : spans'[s].state = "completed" /\ spans'[s].ended
  BY TaskSpanAtWork, SaidSpans
<1>2. run.open = {} /\ tracer.step = 0
  BY AtWorkNow DEF AtWork, Finished
<1>3. \A s \in SpansOf(t) : spans'[s].ended
  <2>1. ASSUME NEW s \in SpansOf(t), ~spans[s].ended PROVE s = tracer.task
    BY <1>2, <2>1, TaskSpanAtWork DEF AtWorkOf, OpenNow
  <2> QED BY <2>1, SaidSpans
<1>4. SpansOf(t)' = SpansOf(t)
  BY SaidSpans
<1> QED BY <1>1, <1>3, <1>4 DEF Settled

LEMMA PausedSettles ==
  ASSUME ShapeInv, ShapeInv', TreeInv, WorkInv, Grows, run.at = "marking",
         NEW t, t = Me, Quiet(t), tasks'[t].outcome = "paused",
         tasks'[t].deferred = tasks[t].deferred
  PROVE  Settled(t)'
<1>1. SpansOf(t)' = SpansOf(t) /\ \A name : Named(t, name)' = Named(t, name)
  BY QuietSpans
<1>2. \A s \in SpansOf(t) :
        /\ spans'[s].name = spans[s].name /\ spans'[s].call = spans[s].call
        /\ spans'[s].state = spans[s].state /\ (spans'[s].ended <=> spans[s].ended)
  BY QuietSpans DEF Alike
<1>3. /\ tracer.step = 0 /\ run.open = run.deferred
      /\ run.deferred = ToSet(tasks[t].deferred)
      /\ traced => \A k \in run.deferred : \E s \in SpansOf(t) :
           spans[s].name = "request" /\ spans[s].call = k
  BY AtWorkNow DEF AtWork, Finished, PauseAtWork
<1>4. \A s \in SpansOf(t) : AtWorkOf(s) /\ s # 0
  BY TaskSpanAtWork
<1>5. \A s \in SpansOf(t) :
        ~spans'[s].ended <=> (/\ spans'[s].name = "tool"
                              /\ spans'[s].call \in ToSet(tasks[t].deferred))
  <2>1. ASSUME NEW s \in SpansOf(t)
        PROVE  ~spans[s].ended <=> (spans[s].name = "tool" /\ spans[s].call \in run.open)
    <3>1. ~spans[s].ended <=> OpenNow(s)
      BY <1>4 DEF AtWorkOf
    <3>2. OpenNow(s) <=> (spans[s].name = "tool" /\ spans[s].call \in run.open)
      BY <1>3, <1>4 DEF OpenNow
    <3> QED BY <3>1, <3>2
  <2> QED BY <1>2, <1>3, <2>1
<1>6. \A s \in Named(t, "task") :
        /\ s \in SpansOf(t) /\ traced
        /\ spans'[s].ended /\ spans'[s].state = "paused"
  BY <1>2, TaskSpanAtWork
<1>7. ASSUME traced
      PROVE  {spans'[s].call : s \in Named(t, "request")} = ToSet(tasks[t].deferred)
  <2>1. \A s \in Named(t, "request") : spans'[s].call \in run.deferred
    BY <1>2, <1>4 DEF Named, AtWorkOf
  <2>2. \A k \in run.deferred : \E s \in Named(t, "request") : spans'[s].call = k
    BY <1>2, <1>3, <1>7 DEF Named
  <2> QED BY <1>3, <2>1, <2>2
<1> QED BY <1>1, <1>5, <1>6, <1>7 DEF Settled

LEMMA QuietSave ==
  ASSUME ShapeInv, ShapeInv', SavePauseState, Me \in 1 .. Len(tasks)
  PROVE  Quiet(Me)
<1> DEFINE recording == cli.root # 0
<1>1. recording \in BOOLEAN /\ Adds(recording, Plain("wait", 0, cli.root))
  BY SavePauseStateLog
<1> HIDE DEF recording
<1>2. \A s \in Len(spans) + 1 .. Len(spans') : spans'[s].task = 0
  BY <1>1, AddedSpan, PlainFields
<1> QED BY <1>1, <1>2 DEF Adds, Quiet

\* A task that is over stays settled, and the end of the one at work settles it.
LEMMA DoneStep ==
  ASSUME ShapeInv, ShapeInv', IdsInv, TreeInv, CliInv, WorkInv, DoneInv, AskedInv, Next,
         Grows, TasksGrow
  PROVE  DoneInv'
<1>1. Len(tasks) \in Nat /\ Len(tasks') \in Nat /\ Me = Len(tasks) /\ Me' = Len(tasks')
      /\ DOMAIN tasks = 1 .. Len(tasks) /\ DOMAIN tasks' = 1 .. Len(tasks')
      /\ Len(spans) \in Nat /\ DOMAIN spans = 1 .. Len(spans)
  BY DEF ShapeInv, Me
\* The tasks that were over.
<1>2. ASSUME NEW t \in 1 .. Len(tasks), t # Me \/ run.at = "idle",
             tasks'[t].outcome = tasks[t].outcome, tasks'[t].deferred = tasks[t].deferred
      PROVE  Settled(t)'
  <2>1. Settled(t) /\ Quiet(t)
    BY <1>1, <1>2, QuietStep DEF DoneInv
  <2> QED BY <1>2, <2>1, SettledFrame
<1>3. ASSUME NEW t \in 1 .. Len(tasks), t # Me PROVE Settled(t)'
  BY <1>2, <1>3 DEF TasksGrow
<1>4. ASSUME UNCHANGED <<tasks, current>> PROVE DoneInv' \/ run.at # "idle"
  <2>1. SUFFICES ASSUME run.at = "idle" PROVE DoneInv'
    OBVIOUS
  <2>2. \A t \in 1 .. Len(tasks) : Settled(t)'
    BY <1>2, <1>4, <2>1
  <2> QED BY <1>1, <1>4, <2>2 DEF DoneInv, Me
<1>5. ASSUME run.at # "idle", run'.at # "idle", Len(tasks') = Len(tasks),
             tasks'[Me].outcome = tasks[Me].outcome
      PROVE  DoneInv'
  <2>1. tasks'[Me].outcome = "running"
    BY <1>5, AtWorkNow
  <2>2. Me' = Me
    BY <1>1, <1>5
  <2> QED BY <1>1, <1>3, <1>5, <2>1, <2>2 DEF DoneInv
<1>6. ASSUME Len(tasks') = Len(tasks), \A t : t = Me => Settled(t)',
             tasks'[Me].outcome \in {"completed", "paused", "failed"} => current' = 0
      PROVE  DoneInv'
  <2>1. Me' = Me
    BY <1>1, <1>6
  <2>2. \A t \in 1 .. Len(tasks) : Settled(t)'
    BY <1>3, <1>6
  <2> QED BY <1>1, <1>6, <2>1, <2>2 DEF DoneInv
\* A new task is at work, or has no spans.
<1>7. CASE SendWords \/ \E verdicts \in Answers : SendAnswers(verdicts)
  <2>1. PICK words \in Nat, verdicts \in SUBSET Verdict, turn \in Nat :
          Receive(words, verdicts, turn)
    BY <1>7, MessageReceived
  <2>2. Len(tasks') = Len(tasks) + 1 /\ tasks'[Len(tasks) + 1].outcome = "running"
        /\ \A t \in 1 .. Len(tasks) : tasks'[t] = tasks[t]
    BY <2>1, ReceivedTask
  <2>3. run.at = "idle" /\ run'.at # "idle"
    BY <2>1 DEF Receive, Idle
  <2>4. \A t \in 1 .. Len(tasks) : Settled(t)'
    BY <1>2, <2>2, <2>3
  <2>5. Me' = Len(tasks) + 1
    BY <1>1, <2>2
  <2>6. \A t \in DOMAIN tasks' : t # Len(tasks) + 1 => t \in 1 .. Len(tasks)
    BY <1>1, <2>2
  <2> QED BY <2>2, <2>3, <2>4, <2>5, <2>6 DEF DoneInv
<1>8. CASE LoadPauseRaises
  <2> DEFINE x == [turn |-> Turn, outcome |-> "raised", called |-> {}, answers |-> Me,
                   deferred |-> <<>>, command |-> cli.invocation]
  <2>1. tasks' = Append(tasks, x) /\ run.at = "idle" /\ Ends({cli.wait})
    BY <1>8, LoadPauseRaisesLog DEF LoadPauseRaises
  <2>2. Len(tasks') = Len(tasks) + 1 /\ tasks'[Len(tasks) + 1].outcome = "raised"
        /\ \A t \in 1 .. Len(tasks) : tasks'[t] = tasks[t]
    BY <2>1 DEF ShapeInv
  <2>3. \A t \in 1 .. Len(tasks) : Settled(t)'
    BY <1>2, <2>1, <2>2
  <2>4. \A s \in DOMAIN spans' : spans'[s].task # Len(tasks) + 1
    <3>1. DOMAIN spans' = 1 .. Len(spans)
      BY <2>1 DEF Ends, ShapeInv
    <3>2. \A s \in 1 .. Len(spans) :
            spans'[s].task = spans[s].task /\ spans[s].task \in 0 .. Len(tasks)
      BY <1>1, <2>1 DEF Ends, Alike, TreeInv, Placed
    <3> QED BY <1>1, <3>1, <3>2
  <2>5. Me' = Len(tasks) + 1 /\ tasks'[Me'].outcome = "raised"
    BY <1>1, <2>2
  <2>6. ASSUME NEW t, t = Len(tasks) + 1 PROVE Settled(t)'
    <3>1. Named(t, "task")' = {}
      BY <2>4, <2>6 DEF Named, SpansOf
    <3> QED BY <2>2, <2>6, <3>1 DEF Settled
  <2>7. \A t \in DOMAIN tasks' : t = Len(tasks) + 1 \/ t \in 1 .. Len(tasks)
    BY <1>1, <2>2
  <2> QED BY <2>3, <2>5, <2>6, <2>7 DEF DoneInv
\* The commands leave the tasks alone.
<1>9. CASE (\E recording \in BOOLEAN : CliStarts(recording)) \/ CliEnds
  <2>1. UNCHANGED <<tasks, current>> /\ run.at = "idle"
    BY <1>9 DEF CliStarts, CliEnds, Hub
  <2> QED BY <1>4, <2>1
\* The run goes on.
<1>10. CASE StartRun \/ StepEnd \/ RunEnds \/ SavePausedHistory
            \/ \E kind \in {"request", "tools"} : StepStart(kind)
  <2>1. tasks' = tasks /\ run.at # "idle" /\ run'.at # "idle"
    BY <1>10 DEF StartRun, StepEnd, RunEnds, SavePausedHistory, StepStart, InRun,
                 ShapeInv, Run
  <2> QED BY <1>5, <2>1
<1>11. CASE \E k \in Call : ToolCall(k) \/ ToolResult(k) \/ Deferred(k)
  <2>1. PICK k \in Call : ToolCall(k) \/ ToolResult(k) \/ Deferred(k)
    BY <1>11
  <2>2. run.at = "running"
    BY <2>1 DEF ToolCall, ToolResult, Deferred
  <2>3. run'.at = "running"
    BY <2>1, <2>2 DEF ToolCall, ToolResult, Deferred, ShapeInv, Run
  <2>4. Len(tasks) > 0 /\ Me \in 1 .. Len(tasks) /\ tasks \in Seq(Task)
    BY <2>2, AtWorkNow DEF ShapeInv
  <2>5. tasks' = tasks \/ tasks' = WithCall(k) \/ tasks' = WithDeferred(k)
    BY <2>1 DEF ToolCall, ToolResult, Deferred, InRun, WithCall, WithDeferred
  <2>6. Len(tasks') = Len(tasks) /\ tasks'[Me].outcome = tasks[Me].outcome
    <3>1. CASE tasks' = tasks
      BY <3>1
    <3>2. CASE tasks' = WithCall(k)
      BY <2>4, <3>2, CalledTasks
    <3>3. CASE tasks' = WithDeferred(k)
      BY <2>4, <3>3, DeferredTasks
    <3> QED BY <2>5, <3>1, <3>2, <3>3
  <2> QED BY <1>5, <2>2, <2>3, <2>6
\* The task at work ends.
<1>12. ASSUME run.at # "idle", NEW outcome \in Outcome, tasks' = Reported(outcome)
       PROVE  /\ Len(tasks') = Len(tasks) /\ tasks'[Me].outcome = outcome
              /\ tasks'[Me].deferred = tasks[Me].deferred /\ Me \in 1 .. Len(tasks)
  BY <1>12, AtWorkNow, ReportedTasks DEF ShapeInv
<1>13. CASE RunRaises
  <2>1. run.at \in {"loading", "running"} /\ tasks' = Reported("failed")
        /\ current' = Detached /\ Says("failed")
    BY <1>13, RunRaisesLog DEF RunRaises
  <2>2. tracer.taskToken = <<0>>
    BY <2>1, AtWorkNow DEF AtWork, Finished
  <2>3. Detached = 0
    BY <2>2, Token DEF Detached
  <2>4. Len(tasks') = Len(tasks) /\ tasks'[Me].outcome = "failed"
    BY <2>1, <1>12 DEF Outcome
  <2>5. \A t : t = Me => Settled(t)'
    BY <2>1, <2>4, FailedSettles
  <2> QED BY <1>6, <2>1, <2>3, <2>4, <2>5
<1>14. CASE Finalize
  <2>1. run.at = "finalizing" /\ tasks' = Reported("completed")
        /\ current' = current /\ Says("completed")
    BY <1>14, FinalizeLog DEF Finalize
  <2>2. current = 0
    BY <2>1, AtWorkNow DEF AtWork, Finished
  <2>3. Len(tasks') = Len(tasks) /\ tasks'[Me].outcome = "completed"
    BY <2>1, <1>12 DEF Outcome
  <2>4. \A t : t = Me => Settled(t)'
    BY <2>1, <2>3, CompletedSettles
  <2> QED BY <1>6, <2>1, <2>2, <2>3, <2>4
<1>15. CASE SavePauseState
  <2>1. run.at = "marking" /\ tasks' = Reported("paused") /\ current' = current
    BY <1>15 DEF SavePauseState
  <2>2. current = 0
    BY <2>1, AtWorkNow DEF AtWork, Finished
  <2>3. Len(tasks') = Len(tasks) /\ tasks'[Me].outcome = "paused"
        /\ tasks'[Me].deferred = tasks[Me].deferred /\ Me \in 1 .. Len(tasks)
    BY <2>1, <1>12 DEF Outcome
  <2>4. Quiet(Me)
    BY <1>15, <2>1, <2>3, QuietSave
  <2>5. \A t : t = Me => Settled(t)'
    BY <2>1, <2>3, <2>4, PausedSettles
  <2> QED BY <1>6, <2>1, <2>2, <2>3, <2>5
<1>16. CASE Cancelled \/ SaveRaises \/ (HubRestarts /\ run.at # "idle")
  <2>1. PICK outcome \in {"cancelled", "raised", "lost"} : tasks' = Reported(outcome)
    BY <1>16 DEF Cancelled, SaveRaises, HubRestarts
  <2>2. run.at # "idle" /\ spans' = spans
    BY <1>16 DEF Cancelled, SaveRaises, HubRestarts
  <2>3. Len(tasks') = Len(tasks) /\ tasks'[Me].outcome = outcome
    BY <1>12, <2>1, <2>2 DEF Outcome
  <2>4. Quiet(Me)
    BY <1>1, <2>2 DEF Quiet
  <2>5. \A t : t = Me => Settled(t)'
    BY <2>1, <2>2, <2>3, <2>4, DroppedSettles
  <2> QED BY <1>6, <2>1, <2>3, <2>5
<1>17. CASE HubRestarts /\ run.at = "idle"
  <2>1. tasks' = tasks /\ current' = 0
    BY <1>17 DEF HubRestarts
  <2>2. \A t \in 1 .. Len(tasks) : Settled(t)'
    BY <1>2, <1>17, <2>1
  <2> QED BY <1>1, <2>1, <2>2 DEF DoneInv
<1> QED BY <1>7, <1>8, <1>9, <1>10, <1>11, <1>13, <1>14, <1>15, <1>16, <1>17 DEF Next

-----------------------------------------------------------------------------
(* The pause that waits for an answer, and the answers.                    *)

LEMMA AskedStep ==
  ASSUME ShapeInv, ShapeInv', IdsInv, TreeInv, CliInv, WorkInv, AskedInv, Next, Grows
  PROVE  AskedInv'
<1>1. cli'.asked = {} => AskedInv'
  BY DEF AskedInv
<1>2. CASE \/ \E recording \in BOOLEAN : CliStarts(recording)
           \/ CliEnds \/ LoadPauseRaises
  <2>1. cli'.asked = {}
    BY <1>2 DEF CliStarts, CliEnds, LoadPauseRaises, NoCommand, ShapeInv, Command
  <2> QED BY <1>1, <2>1
<1>3. CASE SendWords \/ \E verdicts \in Answers : SendAnswers(verdicts)
  <2>1. PICK words \in Nat, verdicts \in SUBSET Verdict, turn \in Nat :
          Receive(words, verdicts, turn)
    BY <1>3, MessageReceived
  <2>2. cli' = [cli EXCEPT !.wait = 0, !.asked = {}]
    BY <2>1 DEF Receive
  <2>3. cli'.asked = {}
    BY <2>2 DEF ShapeInv, Command
  <2> QED BY <1>1, <2>3
<1>4. ASSUME run.at # "idle", cli' = cli PROVE AskedInv'
  BY <1>1, <1>4 DEF CliInv
<1>5. CASE \/ StartRun \/ StepEnd \/ RunEnds \/ RunRaises \/ Cancelled
           \/ SavePausedHistory \/ Finalize \/ SaveRaises
           \/ \E kind \in {"request", "tools"} : StepStart(kind)
  <2>1. run.at # "idle" /\ cli' = cli
    BY <1>5 DEF StartRun, StepEnd, RunEnds, RunRaises, Cancelled, SavePausedHistory,
                Finalize, SaveRaises, StepStart, InRun
  <2> QED BY <1>4, <2>1
<1>6. CASE \E k \in Call : ToolCall(k) \/ ToolResult(k) \/ Deferred(k)
  <2>1. run.at # "idle" /\ cli' = cli
    BY <1>6 DEF ToolCall, ToolResult, Deferred, InRun
  <2> QED BY <1>4, <2>1
<1>7. CASE HubRestarts
  <2>1. CASE run.at = "idle"
    <3>1. UNCHANGED <<spans, tasks, store, cli>>
      BY <1>7, <2>1 DEF HubRestarts
    <3> QED BY <3>1 DEF AskedInv, Me, Named, SpansOf, Is
  <2>2. CASE run.at # "idle"
    BY <1>4, <1>7, <2>2 DEF HubRestarts
  <2> QED BY <2>1, <2>2
<1>8. CASE SavePauseState
  <2> DEFINE pause == tracer.paused[1]
  <2>1. run.at = "marking" /\ tasks' = Reported("paused")
    BY <1>8 DEF SavePauseState
  <2>2. AtWork /\ PauseAtWork /\ Me \in 1 .. Len(tasks) /\ Len(tasks) > 0
    BY <2>1, AtWorkNow
  <2>3. Me' = Me /\ tasks'[Me].outcome = "paused"
        /\ tasks'[Me].command = tasks[Me].command /\ tasks'[Me].turn = tasks[Me].turn
        /\ tasks'[Me].deferred = tasks[Me].deferred /\ Len(tasks') = Len(tasks)
    BY <2>1, <2>2, ReportedTasks DEF ShapeInv, Me, Outcome
  <2>4. /\ tasks[Me].deferred # <<>> /\ tracer.paused # <<>>
        /\ IF traced THEN Is(pause, "request", Me)
                          /\ spans[pause].call = Last(tasks[Me].deferred)
           ELSE pause = 0
    BY <2>1, <2>2 DEF AtWork, Finished, PauseAtWork
  <2>5. store'.pause = <<[span |-> pause, input |-> run.input]>>
    BY <1>8, <2>4 DEF SavePauseState, PauseSaved, ShapeInv, Store
  <2>6. store'.pause # <<>> /\ store'.pause[1].span = pause
        /\ store'.pause[1].input = tasks[Me].turn
    <3> DEFINE x == [span |-> pause, input |-> run.input]
    <3>1. x.span = pause /\ x.input = run.input
      OBVIOUS
    <3> HIDE DEF x
    <3>2. <<x>> # <<>> /\ <<x>>[1] = x
      OBVIOUS
    <3>3. run.input = tasks[Me].turn
      BY <2>2 DEF AtWork
    <3>4. store'.pause = <<x>>
      BY <2>5 DEF x
    <3> QED BY <3>1, <3>2, <3>3, <3>4
  <2>7. cli'.open /\ cli'.invocation = cli.invocation
    BY <1>8, <2>1 DEF SavePauseState, CliInv, ShapeInv, Command
  <2>8. tasks[Me].command = cli.invocation
    BY <2>2 DEF AtWork
  <2>9. Named(Me, "task")' = Named(Me, "task")
    <3>1. Quiet(Me)
      BY <1>8, <2>2, QuietSave
    <3> QED BY <2>3, <3>1, QuietSpans DEF Named, SpansOf
  <2>10. CASE traced
    <3>1. WillBe(pause, "request", Me) /\ spans'[pause].call = Last(tasks[Me].deferred)
      BY <2>4, <2>10, IsKept DEF Grows, Is, Alike, ShapeInv
    <3>2. Named(Me, "task") # {}
      BY <2>2, <2>10 DEF AtWork, Named, SpansOf, Is
    <3> QED BY <2>2, <2>3, <2>4, <2>6, <2>7, <2>8, <2>9, <3>1, <3>2
            DEF AskedInv, Is, WillBe
  <2>11. CASE ~traced
    <3>1. Named(Me, "task") = {} /\ pause = 0
      BY <2>1, <2>4, <2>11, AtWorkNow DEF Named
    <3> QED BY <2>2, <2>3, <2>4, <2>6, <2>7, <2>8, <2>9, <3>1 DEF AskedInv
  <2> QED BY <2>10, <2>11
<1> QED BY <1>2, <1>3, <1>5, <1>6, <1>7, <1>8 DEF Next

\* A task whose own task span and decision are there keeps what Follows says.
LEMMA FollowsFrame ==
  ASSUME ShapeInv, ShapeInv', IdsInv, AskedInv, Next, Grows, TasksGrow,
         NEW t \in 1 .. Len(tasks), Follows(t)
  PROVE  Follows(t)'
<1>1. /\ Len(tasks) \in Nat /\ Len(spans) \in Nat /\ Len(spans') \in Nat
      /\ DOMAIN spans = 1 .. Len(spans) /\ DOMAIN spans' = 1 .. Len(spans')
      /\ Me = Len(tasks)
  BY DEF ShapeInv, Me
<1>2. \A s \in DOMAIN spans' : s \in DOMAIN spans \/ s \in Len(spans) + 1 .. Len(spans')
  BY <1>1
<1>3. \A s \in DOMAIN spans : Alike(spans'[s], spans[s]) /\ s \in DOMAIN spans'
                              /\ (spans[s].ended => spans'[s].ended)
  BY <1>1 DEF Grows
<1>4. \A s \in Len(spans) + 1 .. Len(spans') :
        spans'[s].name \in {"task", "decided"} => spans'[s].task = Len(tasks) + 1
  BY NewSpans
<1>5. ASSUME NEW p \in Nat, p <= Len(tasks), NEW name \in {"task", "decided"}
      PROVE  Named(p, name)' = Named(p, name)
  <2>1. \A s \in DOMAIN spans' :
          spans'[s].name = name /\ spans'[s].task = p => s \in DOMAIN spans
    BY <1>1, <1>2, <1>4, <1>5
  <2> QED BY <1>3, <2>1 DEF Named, SpansOf, Alike
<1>0. PICK p : p = tasks[t].answers
  OBVIOUS
<1>6. p \in Nat /\ tasks'[t].answers = p /\ tasks'[t].turn = tasks[t].turn
      /\ tasks'[t].command = tasks[t].command
  <2>1. tasks[t] \in Task
    BY DEF ShapeInv
  <2>2. p \in Nat
    BY <1>0, <2>1 DEF Task
  <2> QED BY <1>0, <2>2 DEF TasksGrow
<1>7. ASSUME p # 0, p < t PROVE p <= Len(tasks) /\ tasks'[p].deferred = tasks[p].deferred
  BY <1>1, <1>6, <1>7 DEF TasksGrow
<1>8. ASSUME NEW s \in Named(t, "task")
      PROVE  /\ s \in DOMAIN spans /\ Alike(spans'[s], spans[s])
  BY <1>3 DEF Named, SpansOf
<1>9. Named(t, "task")' = Named(t, "task") /\ Named(t, "decided")' = Named(t, "decided")
  BY <1>1, <1>5
<1>10. ASSUME NEW s \in Named(t, "task")
       PROVE  /\ spans'[s].input = tasks[t].turn
              /\ spans'[s].invocation \in {0, tasks[t].command}
              /\ p = 0 => Named(t, "decided") = {} /\ spans'[s].link = 0
  BY <1>0, <1>8 DEF Follows, Alike
<1>11. ASSUME NEW s \in Named(t, "task"), p # 0
       PROVE  /\ p < t
              /\ \E d \in Named(t, "decided") :
                   /\ spans'[d].link = spans'[s].link
                   /\ Named(t, "decided") = {d}
              /\ Named(p, "task")' = {} => spans'[s].link = 0
              /\ \A q \in Named(p, "task")' :
                   /\ WillBe(spans'[s].link, "request", p)
                   /\ spans'[spans'[s].link].call = Last(tasks'[p].deferred)
                   /\ spans'[spans'[s].link].ended
                   /\ spans'[s].invocation = spans'[q].invocation
  <2>1. p < t
    BY <1>0, <1>11 DEF Follows
  <2>2. p <= Len(tasks) /\ tasks'[p].deferred = tasks[p].deferred
    BY <1>7, <1>11, <2>1
  <2>3. Named(p, "task")' = Named(p, "task")
    BY <1>5, <1>6, <2>2
  <2>4. spans'[s].link = spans[s].link /\ spans'[s].invocation = spans[s].invocation
    BY <1>8 DEF Alike
  <2>5. PICK d \in Named(t, "decided") :
          spans[d].link = spans[s].link /\ Named(t, "decided") = {d}
    BY <1>0, <1>11 DEF Follows
  <2>6. d \in DOMAIN spans /\ spans'[d].link = spans[d].link
    BY <1>3 DEF Named, SpansOf, Alike
  <2>7. Named(p, "task") = {} => spans[s].link = 0
    BY <1>0, <1>11 DEF Follows
  <2>8. ASSUME NEW q \in Named(p, "task")
        PROVE  /\ WillBe(spans[s].link, "request", p)
               /\ spans'[spans[s].link].call = Last(tasks[p].deferred)
               /\ spans'[spans[s].link].ended
               /\ spans[s].invocation = spans'[q].invocation
    <3>1. /\ Is(spans[s].link, "request", p)
          /\ spans[spans[s].link].call = Last(tasks[p].deferred)
          /\ spans[spans[s].link].ended
          /\ spans[s].invocation = spans[q].invocation
      BY <1>0, <1>11 DEF Follows
    <3>2. q \in DOMAIN spans /\ spans[s].link \in DOMAIN spans
      BY <3>1 DEF Named, SpansOf, Is
    <3> QED BY <1>3, <3>1, <3>2, IsKept DEF Alike
  <2> QED BY <2>1, <2>2, <2>3, <2>4, <2>5, <2>6, <2>7, <2>8
<1> QED BY <1>6, <1>9, <1>10, <1>11 DEF Follows, Is, WillBe

\* The task of a message links to the pause it answers.
LEMMA FollowsReceived ==
  ASSUME ShapeInv, ShapeInv', IdsInv, TreeInv, CliInv, AskedInv, RequestsEnded,
         Next, Grows, TasksGrow,
         SendWords \/ \E verdicts \in Answers : SendAnswers(verdicts),
         NEW t, t = Len(tasks) + 1
  PROVE  Follows(t)'
<1> DEFINE n == Len(spans)
<1>1. PICK words \in Nat, verdicts \in SUBSET Verdict, turn \in Nat :
        /\ Receive(words, verdicts, turn)
        /\ \/ verdicts = {} /\ words = turn /\ words # 0
           \/ verdicts # {} /\ words = 0 /\ turn = Turn /\ cli.asked # {}
  BY MessageReceived
<1>2. PICK prior : prior = IF verdicts = {} THEN <<>> ELSE store.pause
  OBVIOUS
<1>3. /\ tasks'[t].turn = turn /\ tasks'[t].command = cli.invocation
      /\ tasks'[t].answers = IF verdicts = {} THEN 0 ELSE Me
  BY <1>1, ReceivedTask
<1>4. Input(words, prior) = turn
  <2>1. CASE verdicts = {}
    BY <1>1, <1>2, <2>1 DEF Input
  <2>2. CASE verdicts # {}
    BY <1>1, <1>2, <2>2 DEF Input, AskedInv, Turn
  <2> QED BY <2>1, <2>2
<1>5. /\ n \in Nat /\ DOMAIN spans = 1 .. n /\ DOMAIN spans' = 1 .. Len(spans')
      /\ Len(tasks) \in Nat /\ traced \in BOOLEAN /\ Me = Len(tasks) /\ Me' = t
  <2>1. Me' = t
    BY <1>1, ReceivedTask
  <2> QED BY <2>1 DEF ShapeInv, Me
<1>6. /\ Len(spans') = IF ~traced THEN n ELSE IF prior = <<>> THEN n + 1 ELSE n + 2
      /\ traced =>
           LET x == spans'[n + 1] IN
           /\ x.name = "task" /\ x.task = t /\ x.link = MakeLink(prior)
           /\ x.input = turn /\ x.invocation = Baggage
      /\ traced /\ prior # <<>> =>
           LET x == spans'[n + 2] IN
           x.name = "decided" /\ x.task = t /\ x.link = MakeLink(prior)
  BY <1>1, <1>2, <1>4, <1>5, ReceivedLog DEF ReceiveLog
<1>7. \A s \in DOMAIN spans : Alike(spans'[s], spans[s]) /\ s \in DOMAIN spans'
                              /\ (spans[s].ended => spans'[s].ended)
  BY <1>5 DEF Grows
<1>8. \A s \in DOMAIN spans : spans'[s].task # t
  BY <1>5, <1>7 DEF TreeInv, Placed, Alike
<1>9. ASSUME NEW s \in DOMAIN spans', spans'[s].task = t
      PROVE  traced /\ (s = n + 1 \/ (prior # <<>> /\ s = n + 2))
  <2>1. s \notin 1 .. n
    BY <1>5, <1>8, <1>9
  <2>2. traced
    BY <1>5, <1>6, <2>1
  <2> QED BY <1>5, <1>6, <2>1, <2>2
<1>10. \A s \in Named(t, "task")' : traced /\ s = n + 1
  <2>1. traced /\ prior # <<>> => spans'[n + 2].name # "task"
    BY <1>6
  <2> QED BY <1>9, <2>1 DEF Named, SpansOf
<1>11. \A s \in Named(t, "decided")' : prior # <<>> /\ s = n + 2
  <2>1. traced => spans'[n + 1].name # "decided"
    BY <1>6
  <2> QED BY <1>9, <2>1 DEF Named, SpansOf
<1>12. Baggage \in {0, cli.invocation}
  BY DEF Baggage
<1>13. CASE verdicts = {}
  <2>1. prior = <<>> /\ tasks'[t].answers = 0 /\ MakeLink(prior) = 0
    BY <1>2, <1>3, <1>13 DEF MakeLink
  <2>2. Named(t, "decided")' = {}
    BY <1>11, <2>1
  <2> QED BY <1>3, <1>6, <1>10, <1>12, <2>1, <2>2 DEF Follows
<1>14. CASE verdicts # {}
  <2>1. cli.asked # {} /\ prior = store.pause /\ tasks'[t].answers = Me
    BY <1>1, <1>2, <1>3, <1>14
  <2>2. /\ prior # <<>> /\ cli.open /\ Len(tasks) > 0
        /\ tasks[Me].command = cli.invocation
        /\ IF Named(Me, "task") = {} THEN prior[1].span = 0
           ELSE /\ Is(prior[1].span, "request", Me)
                /\ spans[prior[1].span].call = Last(tasks[Me].deferred)
    BY <2>1 DEF AskedInv
  <2>3. PICK p : p = Me
    OBVIOUS
  <2>4. PICK l : l = prior[1].span
    OBVIOUS
  <2>5. MakeLink(prior) = l
    BY <2>2, <2>4 DEF MakeLink
  <2>6. p # 0 /\ p < t /\ tasks'[p].deferred = tasks[p].deferred
    <3>1. p \in 1 .. Len(tasks)
      BY <1>5, <2>2, <2>3
    <3>2. \A u \in 1 .. Len(tasks) : tasks'[u] = tasks[u]
      BY <1>1, ReceivedTask
    <3>3. tasks'[p] = tasks[p]
      BY <3>1, <3>2
    <3> QED BY <1>5, <3>1, <3>3
  <2>7. \A s \in DOMAIN spans' : spans'[s].task = p => s \in DOMAIN spans
    <3>1. \A s \in DOMAIN spans' : s \in DOMAIN spans \/ s \in n + 1 .. Len(spans')
      BY <1>5
    <3>2. \A s \in n + 1 .. Len(spans') : spans'[s].task = t
      BY <1>5, <1>6
    <3> QED BY <1>5, <2>6, <3>1, <3>2
  <2>8. Named(p, "task")' = Named(p, "task")
    BY <1>7, <2>7 DEF Named, SpansOf, Alike
  <2>9. traced => n + 2 \in Named(t, "decided")' /\ Named(t, "decided")' = {n + 2}
    <3>1. traced => n + 2 \in DOMAIN spans'
      BY <1>5, <1>6, <2>1, <2>2
    <3>2. traced => n + 2 \in Named(t, "decided")'
      BY <1>6, <2>2, <3>1, <2>1 DEF Named, SpansOf
    <3> QED BY <1>11, <3>2
  <2>10. Named(p, "task") = {} => l = 0
    BY <2>2, <2>3, <2>4
  <2>11. ASSUME NEW q \in Named(p, "task")
         PROVE  /\ WillBe(l, "request", p)
                /\ spans'[l].call = Last(tasks'[p].deferred)
                /\ spans'[l].ended
                /\ spans'[q].invocation = Baggage
    <3>1. Is(l, "request", p) /\ spans[l].call = Last(tasks[p].deferred)
      BY <2>2, <2>3, <2>4, <2>11
    <3>2. l \in DOMAIN spans /\ spans[l].ended
      BY <3>1 DEF Is, RequestsEnded
    <3>3. q \in DOMAIN spans /\ spans[q].name = "task" /\ spans[q].task = p
      BY DEF Named, SpansOf
    <3>4. spans[q].invocation = Baggage
      BY <2>2, <2>3, <3>3 DEF CliInv
    <3>5. spans'[l].call = spans[l].call /\ spans'[l].ended
          /\ spans'[q].invocation = spans[q].invocation
      BY <1>7, <3>2, <3>3 DEF Alike
    <3> QED BY <2>6, <3>1, <3>4, <3>5, IsKept
  <2>12. ASSUME NEW s \in Named(t, "task")'
         PROVE  /\ traced /\ spans'[s].input = turn /\ spans'[s].invocation = Baggage
                /\ spans'[s].link = l
                /\ spans'[n + 2].link = l
    BY <1>6, <1>10, <2>1, <2>2, <2>5
  <2>13. tasks'[t].answers = p
    BY <2>1, <2>3
  <2> QED BY <1>3, <1>12, <2>6, <2>8, <2>9, <2>10, <2>11, <2>12, <2>13
          DEF Follows, Is, WillBe
<1> QED BY <1>13, <1>14

\* Only a message makes a task.
LEMMA SameTasks ==
  ASSUME ShapeInv, WorkInv, Next, ~SendWords,
         ~\E verdicts \in Answers : SendAnswers(verdicts), ~LoadPauseRaises
  PROVE  Len(tasks') = Len(tasks)
<1>1. tasks \in Seq(Task)
  BY DEF ShapeInv
<1>2. run.at # "idle" => Len(tasks) > 0
  BY DEF WorkInv, AtWork
<1>3. {"failed", "cancelled", "paused", "completed", "raised", "lost"} \subseteq Outcome
  BY DEF Outcome
<1>4. CASE RunRaises \/ Cancelled \/ SavePauseState \/ Finalize \/ SaveRaises
           \/ HubRestarts
  <2>1. \/ tasks' = tasks
        \/ run.at # "idle" /\ \E outcome \in Outcome : tasks' = Reported(outcome)
    BY <1>3, <1>4
       DEF RunRaises, Cancelled, SavePauseState, Finalize, SaveRaises, HubRestarts
  <2> QED BY <1>1, <1>2, <2>1, ReportedTasks
<1>5. CASE \/ CliEnds \/ StartRun \/ StepEnd \/ RunEnds \/ SavePausedHistory
           \/ \E recording \in BOOLEAN : CliStarts(recording)
           \/ \E kind \in {"request", "tools"} : StepStart(kind)
  BY <1>5 DEF CliEnds, StartRun, StepEnd, RunEnds, SavePausedHistory, CliStarts,
              StepStart, InRun
<1>6. ASSUME NEW k \in Call, ToolCall(k) \/ ToolResult(k) \/ Deferred(k)
      PROVE  Len(tasks') = Len(tasks)
  <2>1. Len(tasks) > 0
    BY <1>2, <1>6 DEF ToolCall, ToolResult, Deferred
  <2>2. tasks' = tasks \/ tasks' = WithCall(k) \/ tasks' = WithDeferred(k)
    BY <1>6 DEF ToolCall, ToolResult, Deferred, InRun, WithCall, WithDeferred
  <2>3. Len(WithCall(k)) = Len(tasks) /\ Len(WithDeferred(k)) = Len(tasks)
    BY <1>1, <2>1, CalledTasks, DeferredTasks
  <2> QED BY <2>2, <2>3
<1> QED BY <1>4, <1>5, <1>6 DEF Next

LEMMA AnswersStep ==
  ASSUME ShapeInv, ShapeInv', IdsInv, TreeInv, CliInv, AskedInv, AnswersInv, RequestsEnded,
         WorkInv, Next, Grows, TasksGrow
  PROVE  AnswersInv'
<1>1. /\ Len(tasks) \in Nat /\ DOMAIN tasks = 1 .. Len(tasks)
      /\ DOMAIN tasks' = 1 .. Len(tasks') /\ Len(tasks') \in Nat
  BY DEF ShapeInv
<1>2. \A t \in 1 .. Len(tasks) : Follows(t)'
  BY <1>1, FollowsFrame DEF AnswersInv
<1>3. CASE SendWords \/ \E verdicts \in Answers : SendAnswers(verdicts)
  <2>1. Len(tasks') = Len(tasks) + 1
    BY <1>3, MessageReceived, ReceivedTask
  <2>2. \A t : t = Len(tasks) + 1 => Follows(t)'
    BY <1>3, FollowsReceived
  <2> QED BY <1>1, <1>2, <2>1, <2>2 DEF AnswersInv
<1>4. CASE LoadPauseRaises
  <2>1. Ends({cli.wait})
    BY <1>4, LoadPauseRaisesLog
  <2>2. Len(tasks') = Len(tasks) + 1
    BY <1>4 DEF LoadPauseRaises, ShapeInv
  <2>3. \A s \in DOMAIN spans' : spans'[s].task # Len(tasks) + 1
    <3>1. DOMAIN spans' = 1 .. Len(spans)
      BY <2>1 DEF Ends, ShapeInv
    <3>2. \A s \in 1 .. Len(spans) :
            spans'[s].task = spans[s].task /\ spans[s].task \in 0 .. Len(tasks)
      BY <2>1 DEF Ends, Alike, TreeInv, Placed, ShapeInv
    <3> QED BY <1>1, <3>1, <3>2
  <2>4. ASSUME NEW t, t = Len(tasks) + 1 PROVE Follows(t)'
    <3>1. Named(t, "task")' = {}
      BY <2>3, <2>4 DEF Named, SpansOf
    <3> QED BY <3>1 DEF Follows
  <2> QED BY <1>1, <1>2, <2>2, <2>4 DEF AnswersInv
<1>5. CASE /\ ~SendWords /\ ~\E verdicts \in Answers : SendAnswers(verdicts)
           /\ ~LoadPauseRaises
  <2>1. Len(tasks') = Len(tasks)
    BY <1>5, SameTasks
  <2> QED BY <1>1, <1>2, <2>1 DEF AnswersInv
<1> QED BY <1>3, <1>4, <1>5

-----------------------------------------------------------------------------
(* The theorems.                                                           *)

LEMMA ShapeStep ==
  ASSUME TracingInv, Next
  PROVE  ShapeInv'
BY ShapeInTheCommand, ShapeInTheRun, ShapeAtTheEnd DEF TracingInv, Next

LEMMA RestStep ==
  ASSUME ShapeInv, RestInv, Next
  PROVE  RestInv'
<1>1. run' = Idle => RestInv'
  BY DEF RestInv
<1>2. CASE \/ \E recording \in BOOLEAN : CliStarts(recording)
           \/ CliEnds \/ LoadPauseRaises
  <2>1. run' = run
    BY <1>2 DEF CliStarts, CliEnds, LoadPauseRaises, Hub
  <2> QED BY <2>1 DEF RestInv
<1>3. CASE SendWords \/ \E verdicts \in Answers : SendAnswers(verdicts)
  <2>1. run'.at = "loading"
    BY <1>3 DEF SendWords, SendAnswers, Receive, Idle
  <2> QED BY <2>1 DEF RestInv
<1>4. CASE \/ StartRun \/ StepEnd \/ RunEnds \/ SavePausedHistory
           \/ \E kind \in {"request", "tools"} : StepStart(kind)
           \/ \E k \in Call : ToolCall(k) \/ ToolResult(k) \/ Deferred(k)
  <2>1. run'.at # "idle"
    BY <1>4 DEF StartRun, StepEnd, RunEnds, SavePausedHistory, StepStart, ToolCall,
                ToolResult, Deferred, ShapeInv, Run
  <2> QED BY <2>1 DEF RestInv
<1>5. CASE RunRaises \/ Cancelled \/ SavePauseState \/ Finalize \/ SaveRaises
           \/ HubRestarts
  BY <1>1, <1>5
     DEF RunRaises, Cancelled, SavePauseState, Finalize, SaveRaises, HubRestarts
<1> QED BY <1>2, <1>3, <1>4, <1>5 DEF Next

LEMMA TracingStep ==
  ASSUME TracingInv, Next
  PROVE  TracingInv'
<1>1. /\ ShapeInv /\ IdsInv /\ TreeInv /\ CliInv /\ WorkInv /\ RestInv
      /\ DoneInv /\ AskedInv /\ AnswersInv /\ RequestsEnded
  BY DEF TracingInv
<1>2. ShapeInv'
  BY ShapeStep
<1>3. Grows /\ TasksGrow
  BY <1>1, <1>2, LogGrows, TasksGrowBy
<1>4. IdsInv' /\ TreeInv' /\ CliInv'
  BY <1>1, <1>2, <1>3, IdsStep, TreeStep, CliStep
<1>5. WorkInv' /\ DoneInv' /\ RestInv'
  BY <1>1, <1>2, <1>3, WorkStep, DoneStep, RestStep
<1>6. AskedInv' /\ AnswersInv' /\ RequestsEnded'
  BY <1>1, <1>2, <1>3, AskedStep, AnswersStep, RequestsStep
<1> QED BY <1>2, <1>4, <1>5, <1>6 DEF TracingInv

LEMMA TracingUnchanged ==
  ASSUME TracingInv, UNCHANGED vars
  PROVE  TracingInv'
<1>1. UNCHANGED <<spans, tracer, current, run, tasks, store, traced, cli, faults>>
  BY DEF vars
<1>2. ShapeInv' /\ IdsInv' /\ RequestsEnded' /\ RestInv'
  BY <1>1 DEF TracingInv, ShapeInv, IdsInv, OneOf, RequestsEnded, RestInv
<1>3. TreeInv'
  BY <1>1 DEF TracingInv, TreeInv, Placed, Is
<1>4. CliInv'
  BY <1>1 DEF TracingInv, CliInv, Is, Baggage
<1>5. WorkInv'
  <2>1. AtWork' <=> AtWork
    BY <1>1 DEF AtWork, Me, Is, SpansOf
  <2>2. SpansAtWork' <=> SpansAtWork
    BY <1>1 DEF SpansAtWork, Me, Is, SpansOf, OpenNow
  <2>3. PauseAtWork' <=> PauseAtWork
    BY <1>1 DEF PauseAtWork, Me, Is, SpansOf
  <2> QED BY <1>1, <2>1, <2>2, <2>3 DEF TracingInv, WorkInv
<1>6. DoneInv'
  BY <1>1 DEF TracingInv, DoneInv, Settled, Me, Named, SpansOf
<1>7. AskedInv' /\ AnswersInv'
  BY <1>1 DEF TracingInv, AskedInv, AnswersInv, Follows, Me, Named, SpansOf, Is
<1> QED BY <1>2, <1>3, <1>4, <1>5, <1>6, <1>7 DEF TracingInv

LEMMA TracingInit ==
  ASSUME Init
  PROVE  TracingInv
<1>1. Len(spans) = 0 /\ DOMAIN spans = {} /\ Len(tasks) = 0 /\ DOMAIN tasks = {}
  BY DEF Init
<1>2. ShapeInv
  BY TracingAssumption
     DEF Init, ShapeInv, NewTracer, Idle, NoCommand, Tracer, Run, Store, Command, Tokens,
         ToolSpans, Pauses
<1>3. IdsInv
  BY <1>1 DEF Init, IdsInv, OneOf, NewTracer, NoCommand
<1>4. TreeInv /\ RequestsEnded
  BY <1>1 DEF TreeInv, RequestsEnded
<1>5. CliInv
  BY <1>1 DEF Init, CliInv, NoCommand, Idle
<1>6. WorkInv /\ AskedInv /\ RestInv
  BY DEF Init, WorkInv, AskedInv, RestInv, Idle, NoCommand
<1>7. DoneInv /\ AnswersInv
  BY <1>1 DEF Init, DoneInv, AnswersInv
<1> QED BY <1>2, <1>3, <1>4, <1>5, <1>6, <1>7 DEF TracingInv

LEMMA TracingHolds == TracingSpec => []TracingInv
<1>1. Init => TracingInv
  BY TracingInit
<1>2. TracingInv /\ [Next]_vars => TracingInv'
  BY TracingStep, TracingUnchanged
<1> QED BY <1>1, <1>2, PTL DEF TracingSpec

LEMMA OneToken ==
  ASSUME NEW n \in Nat, NEW token,
         token = <<>> \/ \E x \in 0 .. n : token = <<x>>
  PROVE  Len(token) <= 1 /\ ToSet(token) \subseteq 0 .. n
<1>1. CASE token = <<>>
  BY <1>1 DEF ToSet
<1>2. CASE \E x \in 0 .. n : token = <<x>>
  <2>1. PICK x \in 0 .. n : token = <<x>>
    BY <1>2
  <2> QED BY <2>1 DEF ToSet
<1> QED BY <1>1, <1>2

LEMMA TypesAreOK ==
  ASSUME TracingInv
  PROVE  TracingTypeOK
<1> DEFINE SpanId == 0 .. Len(spans)
<1>1. /\ ShapeInv /\ IdsInv /\ TreeInv /\ WorkInv /\ RestInv
  BY DEF TracingInv
<1>2. Len(spans) \in Nat /\ DOMAIN spans = 1 .. Len(spans) /\ DOMAIN tasks = 1 .. Len(tasks)
  BY <1>1 DEF ShapeInv
<1>3. \A s \in DOMAIN spans : spans[s] \in Span /\ spans[s].parent < s /\ spans[s].link < s
  BY <1>1, <1>2 DEF ShapeInv, TreeInv, Placed
<1>4. {tracer.task, tracer.step, current, cli.root, cli.wait} \subseteq SpanId
  BY <1>1 DEF IdsInv
<1>5. \A token \in {tracer.taskToken, tracer.stepToken, tracer.paused} :
        Len(token) <= 1 /\ ToSet(token) \subseteq SpanId
  <2>1. \A token \in {tracer.taskToken, tracer.stepToken, tracer.paused} :
          token = <<>> \/ \E x \in SpanId : token = <<x>>
    BY <1>1 DEF IdsInv, OneOf
  <2> QED BY <1>2, <2>1, OneToken
<1>6. tracer.tools \subseteq Call \X SpanId
  <2>1. tracer.tools \subseteq Call \X Nat
    BY <1>1 DEF ShapeInv, Tracer, ToolSpans
  <2>2. \A e \in tracer.tools : e[2] \in SpanId
    BY <1>1 DEF IdsInv
  <2>3. \A e \in tracer.tools : e = <<e[1], e[2]>> /\ e[1] \in Call
    BY <2>1
  <2> QED BY <2>2, <2>3
<1>7. /\ run.at \in {"idle", "loading", "running", "pausing", "marking", "finalizing"}
      /\ run.node \in {"none", "request", "tools", "after request", "after tools"}
      /\ run.open \subseteq Call
  BY <1>1 DEF ShapeInv, Run, Finished
<1>8. traced /\ run.at # "idle" => (tracer.step # 0 <=> run.node \in {"request", "tools"})
  BY <1>1 DEF WorkInv, AtWork
<1>9. run.deferred \subseteq run.open
  <2>1. run.at = "idle" => run.deferred = {}
    BY <1>1 DEF RestInv, Idle
  <2>2. run.at # "idle" => run.deferred \subseteq run.open
    BY <1>1 DEF WorkInv, PauseAtWork
  <2> QED BY <2>1, <2>2
<1>10. \A t \in DOMAIN tasks :
        tasks[t].outcome \in {"running", "paused", "completed", "failed", "raised",
                              "cancelled", "lost"}
  <2>1. \A t \in DOMAIN tasks : tasks[t] \in Task
    BY <1>1, <1>2 DEF ShapeInv
  <2> QED BY <2>1 DEF Task, Outcome
<1>11. store.pending \subseteq Call /\ Len(store.pause) <= 1
  <2>1. store.pending \subseteq Call
    BY <1>1 DEF ShapeInv, Store
  <2>2. Len(<<>>) = 0
    OBVIOUS
  <2>3. CASE store.pause = <<>>
    BY <1>1, <2>1, <2>2, <2>3
  <2>4. CASE Len(store.pause) = 1
    BY <2>1, <2>4
  <2> QED BY <1>1, <2>3, <2>4 DEF IdsInv
<1>12. traced \in BOOLEAN /\ cli.asked \subseteq Call /\ faults \in 0 .. MaxFaults
  BY <1>1 DEF ShapeInv, Command
<1> QED BY <1>3, <1>4, <1>5, <1>6, <1>7, <1>8, <1>9, <1>10, <1>11, <1>12 DEF TracingTypeOK

\* Types: spans, ids, tokens and tasks are always of their declared shapes, for
\* any number of calls, nodes, tasks, commands and faults.
THEOREM TracingTyped == TracingSpec => []TracingTypeOK
<1>1. TracingInv => TracingTypeOK
  BY TypesAreOK
<1> QED BY <1>1, TracingHolds, PTL

LEMMA AccountedFor ==
  ASSUME TracingInv
  PROVE  SpansAreAccounted
<1>1. /\ ShapeInv /\ TreeInv /\ WorkInv /\ DoneInv
  BY DEF TracingInv
<1>2. DOMAIN tasks = 1 .. Len(tasks) /\ Me = Len(tasks) /\ Len(tasks) \in Nat
  BY <1>1 DEF ShapeInv, Me
<1>3. ASSUME NEW t \in DOMAIN tasks
      PROVE  /\ \A s \in Named(t, "step") \cup Named(t, "request") \cup Named(t, "decided") :
                  spans[s].parent \in Named(t, "task")
             /\ \A s \in Named(t, "tool") : spans[s].parent \in Named(t, "step")
  BY <1>1 DEF TreeInv, Placed, Named, SpansOf, Is
<1>4. ASSUME NEW t \in DOMAIN tasks, tasks[t].outcome \in {"completed", "paused", "failed"}
      PROVE  /\ Settled(t)
             /\ t = Me => current = 0
  <2>1. t # Me \/ run.at = "idle"
    BY <1>1, <1>4 DEF WorkInv, AtWork
  <2>2. t = Me => current = 0
    BY <1>1, <1>2, <1>4 DEF DoneInv
  <2> QED BY <1>1, <2>1, <2>2 DEF DoneInv
<1>5. ASSUME NEW t \in DOMAIN tasks
      PROVE  /\ tasks[t].outcome = "completed" => \A s \in SpansOf(t) : spans[s].ended
             /\ tasks[t].outcome = "paused" =>
                  /\ \A s \in SpansOf(t) :
                       ~spans[s].ended <=> /\ spans[s].name = "tool"
                                           /\ spans[s].call \in ToSet(tasks[t].deferred)
                  /\ Named(t, "task") # {} =>
                       {spans[s].call : s \in Named(t, "request")} = ToSet(tasks[t].deferred)
  BY <1>4 DEF Settled
<1> QED BY <1>3, <1>4, <1>5 DEF SpansAreAccounted

\* _task_tracer.py:207 and :231.  Of every task the spans form one tree, and
\* those that must have ended when the hub reports a completion or a pause have,
\* whatever ran in parallel, raised or was cancelled before.
THEOREM SpansAccounted == TracingSpec => []SpansAreAccounted
<1>1. TracingInv => SpansAreAccounted
  BY AccountedFor
<1> QED BY <1>1, TracingHolds, PTL

LEMMA OutcomeTold ==
  ASSUME TracingInv
  PROVE  SpanTellsTheOutcome
<1>1. /\ ShapeInv /\ TreeInv /\ WorkInv /\ DoneInv
  BY DEF TracingInv
<1>2. SUFFICES ASSUME NEW t \in DOMAIN tasks, NEW s \in Named(t, "task")
      PROVE  /\ spans[s].ended => spans[s].state \in {"completed", "paused", "failed"}
             /\ spans[s].state = "completed" <=> tasks[t].outcome = "completed"
             /\ spans[s].state = "failed" <=> tasks[t].outcome = "failed"
             /\ tasks[t].outcome = "paused" => spans[s].ended /\ spans[s].state = "paused"
  BY DEF SpanTellsTheOutcome
<1>3. CASE t # Me \/ run.at = "idle"
  BY <1>1, <1>3 DEF DoneInv, Settled
<1>4. CASE t = Me /\ run.at # "idle"
  <2>1. tasks[t].outcome = "running"
    BY <1>1, <1>4 DEF WorkInv, AtWork
  <2>2. /\ ~spans[s].ended <=> run.at \in {"loading", "running", "finalizing"}
        /\ spans[s].state \in IF run.at \in {"pausing", "marking"}
                              THEN {"paused"} ELSE {"running", "resumed"}
    BY <1>1, <1>4, TaskSpanAtWork
  <2>3. run.at \in {"loading", "running", "pausing", "marking", "finalizing"}
    BY <1>1, <1>4 DEF ShapeInv, Run, Finished
  <2> QED BY <2>1, <2>2, <2>3
<1> QED BY <1>3, <1>4

\* executor.py:229-239, 384, 429.  No task span ever says of its task what the hub
\* did not report, and none that has ended still says "running" or "resumed".
THEOREM OutcomeOnTheSpan == TracingSpec => []SpanTellsTheOutcome
<1>1. TracingInv => SpanTellsTheOutcome
  BY OutcomeTold
<1> QED BY <1>1, TracingHolds, PTL

LEMMA PauseFollowed ==
  ASSUME TracingInv
  PROVE  ResumptionFollowsThePause
<1>1. AnswersInv /\ TreeInv
  BY DEF TracingInv
<1>2. ASSUME NEW t \in DOMAIN tasks, NEW s \in Named(t, "task")
      PROVE  /\ spans[s].input = tasks[t].turn
             /\ spans[s].invocation \in {0, tasks[t].command}
  BY <1>1 DEF AnswersInv, Follows
<1>3. ASSUME NEW t \in DOMAIN tasks, NEW s \in Named(t, "task"), tasks[t].answers = 0
      PROVE  Cardinality(Named(t, "decided")) = 0 /\ spans[s].link = 0
  <2>1. Named(t, "decided") = {} /\ spans[s].link = 0
    BY <1>1, <1>3 DEF AnswersInv, Follows
  <2> QED BY <2>1, FS_EmptySet
<1>4. ASSUME NEW t \in DOMAIN tasks, NEW s \in Named(t, "task"), NEW p,
             p = tasks[t].answers, p # 0
      PROVE  /\ Cardinality(Named(t, "decided")) = 1
             /\ \A d \in Named(t, "decided") : spans[d].link = spans[s].link
             /\ IF Named(p, "task") = {} THEN spans[s].link = 0
                ELSE /\ spans[s].link \in Named(p, "request")
                     /\ spans[spans[s].link].call = Last(tasks[p].deferred)
                     /\ spans[spans[s].link].ended
                     /\ spans[s].invocation =
                          spans[CHOOSE q \in Named(p, "task") : TRUE].invocation
  <2>1. PICK d \in Named(t, "decided") :
          spans[d].link = spans[s].link /\ Named(t, "decided") = {d}
    BY <1>1, <1>4 DEF AnswersInv, Follows
  <2>2. Cardinality(Named(t, "decided")) = 1
    BY <2>1, FS_Singleton
  <2>3. Named(p, "task") = {} => spans[s].link = 0
    BY <1>1, <1>4 DEF AnswersInv, Follows
  <2>4. ASSUME Named(p, "task") # {}
        PROVE  /\ spans[s].link \in Named(p, "request")
               /\ spans[spans[s].link].call = Last(tasks[p].deferred)
               /\ spans[spans[s].link].ended
               /\ spans[s].invocation =
                    spans[CHOOSE q \in Named(p, "task") : TRUE].invocation
    <3>1. PICK q : q = CHOOSE r \in Named(p, "task") : TRUE
      OBVIOUS
    <3>2. q \in Named(p, "task")
      BY <2>4, <3>1
    <3>3. /\ Is(spans[s].link, "request", p)
          /\ spans[spans[s].link].call = Last(tasks[p].deferred)
          /\ spans[spans[s].link].ended
          /\ spans[s].invocation = spans[q].invocation
      BY <1>1, <1>4, <3>2 DEF AnswersInv, Follows
    <3>4. spans[s].link \in Named(p, "request")
      BY <3>3 DEF Is, Named, SpansOf
    <3> QED BY <3>1, <3>3, <3>4
  <2> QED BY <2>1, <2>2, <2>3, <2>4
<1> QED BY <1>2, <1>3, <1>4 DEF ResumptionFollowsThePause

\* executor.py:193-214, _task_tracer.py:336.  An answer's task links to the request
\* of the pause it answers, with its words and its command, however many pauses,
\* restarts and failed answers came before.
THEOREM ResumptionsFollow == TracingSpec => []ResumptionFollowsThePause
<1>1. TracingInv => ResumptionFollowsThePause
  BY PauseFollowed
<1> QED BY <1>1, TracingHolds, PTL

=============================================================================
