--------------------------- MODULE MCHubExecutor ---------------------------
(***************************************************************************)
(* Instances of HubExecutor for TLC, and the refinement it is checked for. *)
(***************************************************************************)
EXTENDS HubExecutor, TLC

Symmetry == Permutations(Task) \cup Permutations(Call)

PhaseOf(p) ==
  CASE p = "new" -> "waiting"
    [] p \in {"arrived", "submitted", "ready"} -> "bound"
    [] p \in {"running", "deferring", "closing"} -> "open"
    [] p \in {"history_saved", "pause_saved", "turn_saved", "completing"}
         -> "committed"
    [] OTHER -> "closed"

ReportOf(s) ==
  CASE s \in {"completed", "input_required"} -> "success"
    [] s \in {"failed", "auth_required"} -> "failure"
    [] s = "canceled" -> "canceled"
    [] OTHER -> "none"

\* The abstract state, read off the hub's.
turnsBar   == [c \in Context |-> history[c].turns]
contextBar == [t \in Task |-> ContextOf(t)]
phaseBar   == [t \in Task |-> PhaseOf(pc[t])]
baseBar    == [t \in Task |-> loaded[t].turns]
reportBar  == [t \in Task |-> ReportOf(status[t])]

Turns == INSTANCE ConversationTurns WITH
  turns <- turnsBar, context <- contextBar, phase <- phaseBar,
  base <- baseBar, report <- reportBar

\* Every execution of the executor is one the abstract conversations allow:
\* turns are committed at most once, on top of the history the run loaded,
\* and outcomes are reported only after the fact they report.
ImplementsTurns == Turns!Spec

=============================================================================
