------------------------- MODULE ConversationTurns -------------------------
(***************************************************************************)
(* What the hub promises about conversations, without the protocol by      *)
(* which it keeps the promise.  Every task works on the turns it read when *)
(* it opened its conversation; it may commit its own turn, at most once    *)
(* and on top of exactly those; and it reports success only after having   *)
(* committed, failure only without having committed.                       *)
(***************************************************************************)
CONSTANTS
  Task,       \* the tasks
  Context,    \* the conversations
  NoContext   \* a task that belongs to no conversation

VARIABLES
  turns,      \* the turns each conversation holds
  context,    \* the conversation of each task
  phase,      \* how far each task is
  base,       \* the turns the task read when it opened its conversation
  report      \* what the task's client is told

vars == <<turns, context, phase, base, report>>

Init ==
  /\ turns   = [c \in Context |-> {}]
  /\ context = [t \in Task |-> NoContext]
  /\ phase   = [t \in Task |-> "waiting"]
  /\ base    = [t \in Task |-> {}]
  /\ report  = [t \in Task |-> "none"]

Step(t, from, to) == phase[t] = from /\ phase' = [phase EXCEPT ![t] = to]

Tell(t, r) ==
  report' = IF report[t] = "canceled" THEN report
                                      ELSE [report EXCEPT ![t] = r]

Bind(t, c) ==
  /\ Step(t, "waiting", "bound")
  /\ context' = [context EXCEPT ![t] = c]
  /\ UNCHANGED <<turns, base, report>>

Open(t) ==
  /\ Step(t, "bound", "open")
  /\ base' = [base EXCEPT ![t] =
                IF context[t] = NoContext THEN {} ELSE turns[context[t]]]
  /\ UNCHANGED <<turns, context, report>>

Commit(t) ==
  /\ Step(t, "open", "committed")
  /\ turns' = IF context[t] = NoContext THEN turns
              ELSE [turns EXCEPT ![context[t]] = base[t] \cup {t}]
  /\ UNCHANGED <<context, base, report>>

Succeed(t) ==
  /\ Step(t, "committed", "closed")
  /\ Tell(t, "success")
  /\ UNCHANGED <<turns, context, base>>

Fail(t) ==
  /\ \E from \in {"bound", "open"} : Step(t, from, "closed")
  /\ Tell(t, "failure")
  /\ UNCHANGED <<turns, context, base>>

\* The task stops and its client is told nothing.
Vanish(t) ==
  /\ \E from \in {"bound", "open", "committed"} : Step(t, from, "closed")
  /\ UNCHANGED <<turns, context, base, report>>

Revoke(t) ==
  /\ report' = [report EXCEPT ![t] = "canceled"]
  /\ UNCHANGED <<turns, context, phase, base>>

\* A restart: unfinished tasks stop, and reports are forgotten.
Forget ==
  /\ phase' = [t \in Task |-> IF phase[t] = "waiting" THEN "waiting" ELSE "closed"]
  /\ report' = [t \in Task |-> "none"]
  /\ UNCHANGED <<turns, context, base>>

Next ==
  \/ \E t \in Task :
       \/ \E c \in Context \cup {NoContext} : Bind(t, c)
       \/ Open(t) \/ Commit(t) \/ Succeed(t) \/ Fail(t) \/ Vanish(t) \/ Revoke(t)
  \/ Forget

Spec == Init /\ [][Next]_vars

=============================================================================
