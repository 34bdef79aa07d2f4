--------------------------- MODULE MCPromptInput ---------------------------
(* Lines with references of every kind, in which references are equal, or    *)
(* the text of one is inside another, known or unknown, before it or after.  *)
EXTENDS PromptInput, TLC

CONSTANT a

MCDiff  == Ref("git_diff", "")                            \* @git:diff
MCDiffs == Ref("git_diffs", "")                           \* @git:diffs
MCPort  == Ref("host", "port@git:diff")                   \* @host:port@git:diff
MCTwice == Ref("git", "diff@git:diff")                    \* @git:diff@git:diff
MCEnv   == Ref("env", "PWD@git:diff")                     \* @env:PWD@git:diff
MCOuter == Ref("x", "@env:PWD@git:diff")                  \* @x:@env:PWD@git:diff
MCIn    == [MCDiff EXCEPT !.lead = "("]                   \* (@git:diff

MCCuts ==
  <<MCDiffs, Token(MCDiff)>> :> Word("s")
  @@ <<MCPort, Token(MCDiff)>> :> Ref("host", "port")
  @@ <<MCTwice, Token(MCDiff)>> :> MCDiff
  @@ <<MCEnv, Token(MCDiff)>> :> Ref("env", "PWD")
  @@ <<MCOuter, Token(MCDiff)>> :> Ref("x", "@env:PWD")
  @@ <<MCOuter, Token(MCEnv)>> :> Ref("x", "")

MCLines ==
  {<<Ref("file", a), Word("w"), Ref("file", a)>>, <<MCIn, Ref("history", "")>>,
   <<Ref("history", ""), Ref("history", "")>>, <<Ref("env", "TOKEN"), Ref("git_log", "")>>,
   <<MCDiffs, Word("w"), MCDiff>>, <<Word("w"), MCPort>>, <<MCPort, MCDiff>>,
   <<MCDiff, MCPort, MCIn>>, <<MCDiff, MCTwice>>, <<MCTwice, MCDiff, MCDiff>>,
   <<MCEnv, MCDiff>>, <<MCOuter, MCEnv, MCDiff>>}

=============================================================================
