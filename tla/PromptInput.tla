---------------------------- MODULE PromptInput ----------------------------
(***************************************************************************)
(* What a command makes of the line the user types: FinPrompt, its         *)
(* completion thread and resolve_at_references (cli/interaction/prompt.py) *)
(* over the context providers (context/*.py).                              *)
(*                                                                         *)
(* The world outside (files, repository, shell history) changes at any     *)
(* time; what is read of it is its version.  A line is a sequence of       *)
(* chunks, which blanks separate; the blanks are left out.  A reference    *)
(* runs to the next blank, so a chunk holds at most one, at its end.       *)
(***************************************************************************)
EXTENDS KindSequences, FiniteSets, SequencesExt

CONSTANTS
  File,        \* paths
  Thread,      \* completions that may run at once
  Lines,       \* the lines the user may type
  Cuts,        \* for a chunk with the text of a token inside its reference, as
               \* Cuts[<<chunk, token>>]: the chunk without the first of them
  MaxAsks,     \* bound: prompts
  MaxChanges   \* bound: changes of the world

\* @file: names a path, and where there is no reference there is no text of
\* one: all that looks like one is matched.
ASSUME PromptAssumption ==
  /\ MaxAsks \in Nat
  /\ MaxChanges \in Nat
  /\ \A text \in Lines :
       /\ text \in Seq(ToSet(text))
       /\ \A ref \in ToSet(text) : ref.kind = "file" => ref.name \in File
  /\ \A found \in DOMAIN Cuts : found[1].kind # "word"

VARIABLES
  world,    \* [files, git, history]: what is outside
  cache,    \* the providers' caches
  finder,   \* FinPrompt's FileFinder: _paths_cache
  thread,   \* the completion threads
  place,    \* where the command stands
  asks,     \* [count, across]: prompts so far, and those whose completions were
            \* still at work when the last one began
  line,     \* the line typed, what remains of it, and its sections
  changes

vars == <<world, cache, finder, thread, place, asks, line, changes>>

-----------------------------------------------------------------------------
\* A chunk is its reference and the text before it, or a word.
Word(w)     == [kind |-> "word", name |-> w, lead |-> ""]
Ref(k, n)   == [kind |-> k, name |-> n, lead |-> ""]
Token(item) == [kind |-> item.kind, name |-> item.name]
GitKinds    == {"git_diff", "git_log", "git_status"}
Kinds       == {"file", "history", "env"} \cup GitKinds
EnvNames    == {"PWD", "HOME", "USER", "PATH"}   \* ContextSettings' default
NoList      == [prompt |-> 0, files |-> {}]

\* An unreachable file is in a directory that must not be searched; garbled
\* output does not decode; a broken fish fails.
FileState    == {"absent", "small", "big", "unreadable", "unreachable"}
GitState     == {"missing", "no_repository", "ok", "stuck", "garbled"}
HistoryState == {"lines", "empty", "broken", "garbled"}

NoLine == [text |-> <<>>, rest |-> <<>>, sections |-> <<>>, next |-> 1, since |-> <<>>]

\* Init does not choose the world's states: it changes from here.
Init ==
  /\ world \in [files : {[f \in File |-> [state |-> "small", version |-> 0]]},
                git : {[state |-> "ok", version |-> 0]},
                history : [fish : BOOLEAN, state : {"lines"}, version : {0}]]
  /\ cache = [git |-> "unknown", fish |-> "unknown", history |-> <<>>]
  /\ finder = NoList
  /\ thread = [x \in Thread |-> [at |-> "off", list |-> NoList]]
  /\ place = "idle"
  /\ asks = [count |-> 0, across |-> {}]
  /\ line = NoLine
  /\ changes = 0

-----------------------------------------------------------------------------
(* The world.                                                              *)

Change ==
  /\ changes < MaxChanges
  /\ changes' = changes + 1
  /\ UNCHANGED <<cache, finder, thread, place, asks, line>>

FileChanges(f, state) ==
  /\ Change
  /\ world' = [world EXCEPT !.files[f] = [state |-> state, version |-> @.version + 1]]

RepositoryChanges(state) ==
  /\ Change
  /\ world' = [world EXCEPT !.git = [state |-> state, version |-> @.version + 1]]

HistoryChanges(state) ==
  /\ Change
  /\ world' = [world EXCEPT !.history.state = state, !.history.version = @ + 1]

-----------------------------------------------------------------------------
(* FileFinder: the list for completion, in a thread of its own.            *)

\* _scan_paths: the files within max_file_size; a file's contents do not
\* matter to it.
ScanPaths == {f \in File : world.files[f].state \in {"small", "unreadable"}}

\* A thread with a list, or about to have one.
AtWork(x) == thread[x].at \in {"scanning", "cached", "searching"}

\* Mutant: ask() keeps the list of the previous prompt.
InvalidateKept == finder

Invalidate == NoList

\* The thread finds the cache filled, or walks the tree.
CompletionStarts(x) ==
  /\ place = "asking"
  /\ thread[x].at = "off"
  /\ thread' = [thread EXCEPT ![x] =
       IF finder # NoList THEN [at |-> "searching", list |-> finder]
       ELSE [at |-> "scanning", list |-> [prompt |-> asks.count, files |-> ScanPaths]]]
  /\ UNCHANGED <<world, cache, finder, place, asks, line, changes>>

\* The scan fills the cache, whichever prompt is on by now.
ScanEnds(x) ==
  /\ thread[x].at = "scanning"
  /\ finder' = thread[x].list
  /\ thread' = [thread EXCEPT ![x].at = "cached"]
  /\ UNCHANGED <<world, cache, place, asks, line, changes>>

\* _get_paths returns the cache, read again: an invalidation in between
\* leaves it nothing, and the search raises in the thread.
Returns(x) ==
  /\ thread[x].at = "cached"
  /\ thread' = [thread EXCEPT ![x] =
       IF finder = NoList THEN [at |-> "raised", list |-> NoList]
       ELSE [at |-> "searching", list |-> finder]]
  /\ UNCHANGED <<world, cache, finder, place, asks, line, changes>>

\* The menu is shown, or the thread has died; a new key starts a new one.
CompletionEnds(x) ==
  /\ thread[x].at \in {"searching", "raised"}
  /\ thread' = [thread EXCEPT ![x] = [at |-> "off", list |-> NoList]]
  /\ UNCHANGED <<world, cache, finder, place, asks, line, changes>>

-----------------------------------------------------------------------------
(* FinPrompt.ask                                                           *)

Ask ==
  /\ place = "idle"
  /\ asks.count < MaxAsks
  /\ place' = "asking"
  /\ asks' = [count |-> asks.count + 1,
              across |-> {thread[x].list.prompt : x \in {y \in Thread : AtWork(y)}}]
  /\ finder' = Invalidate
  /\ line' = NoLine
  /\ UNCHANGED <<world, cache, thread, changes>>

Submit(text) ==
  /\ place = "asking"
  /\ place' = "resolving"
  /\ line' = [text |-> text, rest |-> text, sections |-> <<>>, next |-> 1,
              since |-> <<world>>]
  /\ UNCHANGED <<world, cache, finder, thread, asks, changes>>

\* Ctrl-C, Ctrl-D.
Abandon ==
  /\ place = "asking"
  /\ place' = "ended"
  /\ UNCHANGED <<world, cache, finder, thread, asks, line, changes>>

-----------------------------------------------------------------------------
(* The providers: each operator gives the outcomes of a lookup, a status   *)
(* and a version.                                                          *)

Item(status, version) == [status |-> status, version |-> version]

\* FileFinder.get_item, which the list plays no part in.
FileItem(f) ==
  LET now == world.files[f] IN
  CASE now.state = "absent" -> Item("not_found", now.version)
    [] now.state = "big"    -> Item("excluded", now.version)
    [] now.state = "unreadable" -> Item("error", now.version)
    [] now.state = "small"  -> Item("available", now.version)

\* _is_git_available and _is_fish_available keep their first finding.
Available(known, runs) ==
  IF known # "unknown" THEN known ELSE IF runs THEN "yes" ELSE "no"

GitKnown  == Available(cache.git, world.git.state # "missing")
FishKnown == Available(cache.fish, world.history.fish)

\* _get_diff, _get_log, _get_status: return codes are not looked at, so that
\* a directory without a repository reads as one without changes.
GitItem ==
  CASE GitKnown = "no" -> Item("error", world.git.version)
    [] GitKnown = "yes" /\ world.git.state \in {"missing", "stuck"} ->
         Item("error", world.git.version)
    [] GitKnown = "yes" /\ world.git.state \in {"ok", "no_repository", "garbled"} ->
         Item("available", world.git.version)

\* ShellHistory._get_history: a list once read is kept, an empty one too; a
\* failure of fish is not.
HistoryRead ==
  CASE cache.history # <<>> -> cache.history
    [] cache.history = <<>> /\ FishKnown = "yes" /\ world.history.state \in {"lines", "empty"} ->
         <<[version |-> world.history.version, lines |-> world.history.state = "lines"]>>
    [] OTHER -> <<>>

HistoryItem ==
  IF HistoryRead # <<>> /\ HistoryRead[1].lines
    THEN Item("available", HistoryRead[1].version)
    ELSE Item("not_found", 0)

\* create_default_context_registry gives Environment no settings: what the
\* user configured is not found.
EnvItem(name) ==
  IF name \in EnvNames \cup {""} THEN Item("available", 0) ELSE Item("not_found", 0)

\* _resolve_single_ref; nothing for an unknown reference.
Resolved(ref) ==
  CASE ref.kind = "file"     -> <<FileItem(ref.name)>>
    [] ref.kind \in GitKinds -> <<GitItem>>
    [] ref.kind = "history"  -> <<HistoryItem>>
    [] ref.kind = "env"      -> <<EnvItem(ref.name)>>
    [] ref.kind \notin Kinds -> <<>>

\* Mutant: the search for fish is not remembered.
LookedHistoryOnly(ref) ==
  CASE ref.kind \in GitKinds -> [cache EXCEPT !.git = GitKnown]
    [] ref.kind = "history" -> [cache EXCEPT !.history = HistoryRead]
    [] OTHER -> cache

\* What the lookup leaves in the providers.
Looked(ref) ==
  CASE ref.kind \in GitKinds -> [cache EXCEPT !.git = GitKnown]
    [] ref.kind = "history" ->
         [cache EXCEPT !.fish = IF cache.history = <<>> THEN FishKnown ELSE @,
                       !.history = HistoryRead]
    [] OTHER -> cache

-----------------------------------------------------------------------------
(* resolve_at_references                                                   *)

\* The lookups that raise: exists() where the directory must not be searched,
\* and output that is not UTF-8 (git quotes the paths in its status).
Raises(ref) ==
  \/ ref.kind = "file" /\ world.files[ref.name].state = "unreachable"
  \/ /\ ref.kind \in {"git_diff", "git_log"}
     /\ GitKnown = "yes" /\ world.git.state = "garbled"
  \/ /\ ref.kind = "history" /\ cache.history = <<>>
     /\ FishKnown = "yes" /\ world.history.state = "garbled"

\* str.replace(token, "", 1): the first place where the text occurs, which may
\* be inside another reference.
Holds(item, token) == Token(item) = token \/ <<item, token>> \in DOMAIN Cuts
Lead(item)         == IF item.lead = "" THEN <<>> ELSE <<Word(item.lead)>>
LeftOf(item, token) ==
  IF Token(item) = token THEN Lead(item) ELSE <<Cuts[<<item, token>>]>>

\* Mutant: every place where it occurs.
WithoutAll(rest, token) ==
  FlattenSeq([i \in DOMAIN rest |->
    IF Holds(rest[i], token) THEN LeftOf(rest[i], token) ELSE <<rest[i]>>])

Without(rest, token) ==
  IF \A i \in DOMAIN rest : ~Holds(rest[i], token) THEN rest
  ELSE LET i == SelectInSeq(rest, LAMBDA item : Holds(item, token)) IN
       SubSeq(rest, 1, i - 1) \o LeftOf(rest[i], token) \o SubSeq(rest, i + 1, Len(rest))

ResolveNext ==
  /\ place = "resolving"
  /\ line.next <= Len(line.text)
  /\ LET ref == line.text[line.next]
         items == Resolved(ref) IN
     /\ ~Raises(ref)
     /\ line' = [line EXCEPT
          !.next = @ + 1,
          !.rest = IF items = <<>> THEN @ ELSE Without(@, Token(ref)),
          !.sections = @ \o [i \in DOMAIN items |-> [ref |-> ref, item |-> items[i]]]]
     /\ cache' = Looked(ref)
  /\ UNCHANGED <<world, finder, thread, place, asks, changes>>

\* Nothing catches it, and the command ends.
LookupRaises ==
  /\ place = "resolving"
  /\ line.next <= Len(line.text)
  /\ Raises(line.text[line.next])
  /\ place' = "ended"
  /\ UNCHANGED <<world, cache, finder, thread, asks, line, changes>>

\* A file that goes between exists() and stat(): nor this.
FileVanishes(f) ==
  /\ place = "resolving"
  /\ line.next <= Len(line.text)
  /\ Token(line.text[line.next]) = [kind |-> "file", name |-> f]
  /\ world.files[f].state \notin {"absent", "unreachable"}
  /\ changes < MaxChanges
  /\ changes' = changes + 1
  /\ world' = [world EXCEPT !.files[f] = [state |-> "absent", version |-> @.version + 1]]
  /\ place' = "ended"
  /\ UNCHANGED <<cache, finder, thread, asks, line>>

\* The message is built: the line as it is, or the sections and what remains.
\* The chat loop goes on to the next prompt.
Send ==
  /\ place = "resolving"
  /\ line.next > Len(line.text)
  /\ line' = [line EXCEPT !.rest = IF line.sections = <<>> THEN line.text ELSE @]
  /\ place' = "idle"
  /\ UNCHANGED <<world, cache, finder, thread, asks, changes>>

Next ==
  \/ \E f \in File, state \in FileState : FileChanges(f, state)
  \/ \E state \in GitState : RepositoryChanges(state)
  \/ \E state \in HistoryState : HistoryChanges(state)
  \/ \E x \in Thread :
       CompletionStarts(x) \/ ScanEnds(x) \/ Returns(x) \/ CompletionEnds(x)
  \/ Ask
  \/ \E text \in Lines : Submit(text)
  \/ Abandon
  \/ ResolveNext
  \/ LookupRaises
  \/ \E f \in File : FileVanishes(f)
  \/ Send

PromptSpec == Init /\ [][Next]_vars

-----------------------------------------------------------------------------
\* Types: what is cached of the shell history was read with fish present.
PromptTypeOK ==
  /\ \A f \in File : world.files[f].state \in FileState
                     /\ world.files[f].version \in 0 .. MaxChanges
  /\ world.git.state \in GitState
  /\ {cache.git, cache.fish} \subseteq {"unknown", "yes", "no"}
  /\ Len(cache.history) <= 1 /\ (cache.history # <<>> => cache.fish = "yes")
  /\ finder.files \subseteq File /\ finder.prompt \in 0 .. MaxAsks
  /\ \A x \in Thread :
       thread[x].at \in {"off", "scanning", "cached", "searching", "raised"}
  /\ place \in {"idle", "asking", "resolving", "ended"}
  /\ line.next \in 1 .. Len(line.text) + 1

\* prompt.py:396, files.py:171.  What completion offers comes from a scan
\* begun in the prompt at hand, or from a completion that was still at work
\* when this prompt began: a list once dropped is not offered again.
ListsAreOfThisPrompt ==
  place = "asking" =>
    \A x \in Thread : thread[x].at = "searching" =>
      thread[x].list.prompt \in {asks.count} \cup asks.across

\* The line without its known references.
Spared(item)    == IF item.kind \in Kinds THEN Lead(item) ELSE <<item>>
Unread(items)   == FlattenSeq([i \in DOMAIN items |-> Spared(items[i])])

\* An unknown reference has the text of a known one, which follows it, inside.
Mistakable(text) ==
  \E i, j \in DOMAIN text :
    /\ i < j /\ text[i].kind \notin Kinds /\ text[j].kind \in Kinds
    /\ <<text[i], Token(text[j])>> \in DOMAIN Cuts

\* prompt.py:242-256.  The message holds one section for each reference the
\* providers know, in the order of the line, and the rest of the line word
\* for word, so long as no unknown reference contains a known one that
\* follows it; a file or a git section shows nothing older than the line,
\* whatever was looked up or listed before.
SentAsWritten ==
  place = "idle" /\ line # NoLine =>
    LET refs == [i \in DOMAIN line.sections |-> line.sections[i].ref]
        typed == line.since[1] IN
    /\ refs = OfKind(line.text, Kinds)
    /\ ~Mistakable(line.text) => line.rest = Unread(line.text)
    /\ \A i \in DOMAIN line.sections :
         LET ref == line.sections[i].ref  item == line.sections[i].item IN
         /\ ref.kind = "file" => item.version >= typed.files[ref.name].version
         /\ ref.kind \in GitKinds => item.version >= typed.git.version

\* "Unrecognised `@type:ref` tokens are left as-is" (prompt.py:232), in every
\* line.  The code breaks it where the line is Mistakable: of an unknown
\* `@git:diffs` before a `@git:diff` it leaves an "s".
UnknownLeftAsIs ==
  place = "idle" /\ line # NoLine =>
    \A item \in ToSet(line.text) : item.kind \notin Kinds => item \in ToSet(line.rest)

=============================================================================
