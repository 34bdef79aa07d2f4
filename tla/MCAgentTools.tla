---------------------------- MODULE MCAgentTools ----------------------------
(* A small agent: a shell tool that needs approval, a tool of one of two     *)
(* MCP servers, and a free one; two overlapping skills.                      *)
EXTENDS AgentTools, TLC

CONSTANTS c1, c2, read, git, note, s1, s2, m1, m2, safe, risky

MCProvides   == m1 :> {note} @@ m2 :> {}
MCSkillTools == s1 :> {git} @@ s2 :> {git, note}
Plain(mode)  == [default |-> mode, rules |-> <<>>]
Rules(mode, first, second) ==
  [default |-> mode,
   rules |-> <<[matches |-> {risky}, mode |-> first], [matches |-> Arg, mode |-> second]>>]
MCToolPolicy == read :> NoPolicy @@ git :> Plain("always") @@ note :> HintPolicy("read_only")

\* tool_policies for git, and none for the others.
GitPolicies ==
  {NoPolicy, Plain("never"), Rules("never", "always", "never"),
   Rules("always", "always", "never")}
MCAgentPolicies == {[t \in Tool |-> IF t = git THEN p ELSE NoPolicy] : p \in GitPolicies}

=============================================================================
