---------------------------- MODULE ToolPolicies ----------------------------
(***************************************************************************)
(* Approval policies (agents/tools.py, agents/backend.py, agents/mcp.py).  *)
(* A policy is a default mode and an ordered list of rules; the pattern of *)
(* a rule is the set of arguments it matches.                              *)
(***************************************************************************)
EXTENDS Naturals, Sequences

CONSTANTS
  Arg,        \* arguments of a tool call, as far as rules tell them apart
  NoPolicy    \* no approval_policy

Mode   == {"never", "always"}
Rule   == [matches : SUBSET Arg, mode : Mode]
Policy == [default : Mode, rules : Seq(Rule)]

Matching(policy, arg) ==
  {i \in DOMAIN policy.rules : arg \in policy.rules[i].matches}

First(indices) == CHOOSE i \in indices : \A j \in indices : i <= j

\* evaluate: the first matching rule decides, else the default.
Evaluate(policy, arg) ==
  IF Matching(policy, arg) = {} THEN policy.default
  ELSE policy.rules[First(Matching(policy, arg))].mode

\* Mutant: only the default is asked, as if rules could only relax it.
RequiresApprovalByDefault(policy) == policy.default = "always"

\* _policy_requires_approval: asked once for the tool, before any argument is
\* known.
RequiresApproval(policy) ==
  \/ policy.default = "always"
  \/ \E i \in DOMAIN policy.rules : policy.rules[i].mode = "always"

\* An agent's own policy for the tool, else the tool's.
EffectivePolicy(own, tools) == IF own # NoPolicy THEN own ELSE tools

Gated(policy) == policy # NoPolicy /\ RequiresApproval(policy)

\* What the user must be asked about: a tool without a policy needs nobody.
MustAsk(policy, arg) == policy # NoPolicy /\ Evaluate(policy, arg) = "always"

\* The hints of an MCP server; destructiveHint counts as set when absent, and
\* an absent annotation as no promise at all.
Hint == {"none", "read_only", "destructive", "additive", "unspecified"}
HintPolicy(hint) ==
  [default |-> IF hint = "read_only" THEN "never" ELSE "always", rules |-> <<>>]

=============================================================================
