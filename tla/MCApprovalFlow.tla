--------------------------- MODULE MCApprovalFlow --------------------------
(***************************************************************************)
(* Instances of ApprovalFlow for TLC.                                      *)
(***************************************************************************)
EXTENDS ApprovalFlow, TLC

\* Every session in the one conversation c, as with --resume.
OneConversation == [s \in Session |-> CHOOSE c \in Context : TRUE]

TaskSymmetry == Permutations(Task) \cup Permutations(Call)

=============================================================================
