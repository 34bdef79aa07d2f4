------------------------- MODULE PromptInputProofs -------------------------
(***************************************************************************)
(* What PromptInput says of a prompt, its completion and the message made  *)
(* of its line, proved for any files, completion threads, lines and        *)
(* bounds.                                                                 *)
(***************************************************************************)
EXTENDS PromptInput, SequenceProofs, TLAPS

List    == [prompt : 0 .. MaxAsks, files : SUBSET File]
History == [version : 0 .. MaxChanges, lines : BOOLEAN]
Finding == [status : {"available", "excluded", "not_found", "error"}, version : 0 .. MaxChanges]

\* The types that PromptTypeOK leaves out.  Of the line only its fields are
\* said here: what they hold is LineInv's.
ShapeInv ==
  /\ world \in [files : [File -> [state : FileState, version : 0 .. MaxChanges]],
                git : [state : GitState, version : 0 .. MaxChanges],
                history : [fish : BOOLEAN, state : HistoryState, version : 0 .. MaxChanges]]
  /\ cache \in [git : {"unknown", "yes", "no"}, fish : {"unknown", "yes", "no"},
                history : Seq(History)]
  /\ finder \in List
  /\ thread \in [Thread -> [at : {"off", "scanning", "cached", "searching", "raised"},
                            list : List]]
  /\ asks \in [count : 0 .. MaxAsks, across : SUBSET (0 .. MaxAsks)]
  /\ changes \in 0 .. MaxChanges

\* Nothing outside has changed more often than anything has.
VersionInv ==
  /\ \A f \in File : world.files[f].version <= changes
  /\ world.git.version <= changes
  /\ world.history.version <= changes

\* The lists in the cache and in the threads' hands are of this prompt, or of
\* a completion that was at work when it began.
Current == {asks.count} \cup asks.across

ListInv ==
  place = "asking" =>
    /\ finder = NoList \/ finder.prompt \in Current
    /\ \A x \in Thread : AtWork(x) => thread[x].list.prompt \in Current

Taken == SubSeq(line.text, 1, line.next - 1)
Left  == SubSeq(line.text, line.next, Len(line.text))
RefsOf(sections) == [i \in DOMAIN sections |-> sections[i].ref]

Section == [ref : UNION {ToSet(text) : text \in Lines}, item : Finding]

\* A section shows nothing older than the line.
Fresh(section) ==
  /\ section.ref.kind = "file" =>
       section.item.version >= line.since[1].files[section.ref.name].version
  /\ section.ref.kind \in GitKinds => section.item.version >= line.since[1].git.version

\* While references are looked up, the sections are those of the part done,
\* and the rest is what that part keeps and all of what is left.
LineInv ==
  /\ line = [text |-> line.text, rest |-> line.rest, sections |-> line.sections,
             next |-> line.next, since |-> line.since]
  /\ line.text \in Seq(ToSet(line.text))
  /\ line.next \in 1 .. Len(line.text) + 1
  /\ place = "resolving" =>
       /\ line.text \in Lines
       /\ line.sections \in Seq(Section)
       /\ RefsOf(line.sections) = OfKind(Taken, Kinds)
       /\ ~Mistakable(line.text) => line.rest = Unread(Taken) \o Left
       /\ line.sections = <<>> => line.rest = line.text
       /\ \A i \in DOMAIN line.sections : Fresh(line.sections[i])
       /\ \A f \in File : line.since[1].files[f].version \in 0 .. world.files[f].version
       /\ line.since[1].git.version \in 0 .. world.git.version

PromptInv ==
  /\ PromptTypeOK /\ ShapeInv /\ VersionInv /\ ListInv /\ LineInv
  /\ ListsAreOfThisPrompt /\ SentAsWritten

Typed == PromptTypeOK /\ ShapeInv /\ VersionInv

-----------------------------------------------------------------------------
(* Types.                                                                  *)

LEMMA WorldTyped ==
  ASSUME Typed
  PROVE  /\ world.files \in [File -> [state : FileState, version : 0 .. MaxChanges]]
         /\ \A f \in File : /\ world.files[f].state \in FileState
                            /\ world.files[f].version \in 0 .. MaxChanges
         /\ world.git.state \in GitState /\ world.git.version \in 0 .. MaxChanges
         /\ world.history.fish \in BOOLEAN /\ world.history.version \in 0 .. MaxChanges
         /\ world.history.state \in HistoryState
         /\ cache.git \in {"unknown", "yes", "no"} /\ cache.fish \in {"unknown", "yes", "no"}
         /\ cache.history \in Seq(History) /\ Len(cache.history) <= 1
         /\ cache.history # <<>> => cache.fish = "yes"
  BY DEF Typed, PromptTypeOK, ShapeInv

LEMMA NoListTyped == NoList \in List
  BY PromptAssumption DEF NoList, List

LEMMA ThreadTyped ==
  ASSUME Typed, NEW x \in Thread
  PROVE  /\ thread[x].at \in {"off", "scanning", "cached", "searching", "raised"}
         /\ thread[x].list \in List
  BY DEF Typed, ShapeInv

LEMMA TypesAtStart ==
  ASSUME Init
  PROVE  Typed
<1>1. 0 \in 0 .. MaxChanges /\ 0 \in 0 .. MaxAsks
  BY PromptAssumption
<1>2. ShapeInv
  BY <1>1, NoListTyped DEF Init, ShapeInv, FileState, GitState, HistoryState
<1>3. VersionInv
  BY DEF Init, VersionInv
<1>4. PromptTypeOK
  <2>1. finder \in List /\ line.next = 1 /\ Len(line.text) = 0
    BY <1>2 DEF Init, ShapeInv, NoLine
  <2> QED BY <1>1, <2>1 DEF Init, PromptTypeOK, FileState, GitState, List
<1> QED BY <1>2, <1>3, <1>4 DEF Typed

\* Steps of the world outside, whoever is looking.
OutsideMoves ==
  \/ \E f \in File, state \in FileState :
       world' = [world EXCEPT !.files[f] = [state |-> state, version |-> @.version + 1]]
  \/ \E state \in GitState :
       world' = [world EXCEPT !.git = [state |-> state, version |-> @.version + 1]]
  \/ \E state \in HistoryState :
       world' = [world EXCEPT !.history.state = state, !.history.version = @ + 1]

LEMMA OutsideTyped ==
  ASSUME Typed, changes < MaxChanges, changes' = changes + 1, OutsideMoves
  PROVE  /\ world' \in [files : [File -> [state : FileState, version : 0 .. MaxChanges]],
                        git : [state : GitState, version : 0 .. MaxChanges],
                        history : [fish : BOOLEAN, state : HistoryState, version : 0 .. MaxChanges]]
         /\ VersionInv' /\ changes' \in 0 .. MaxChanges
         /\ \A f \in File : world'.files[f].version >= world.files[f].version
         /\ world'.git.version >= world.git.version
<1>1. /\ MaxChanges \in Nat /\ changes \in 0 .. MaxChanges /\ changes + 1 \in 0 .. MaxChanges
      /\ world \in [files : [File -> [state : FileState, version : 0 .. MaxChanges]],
                    git : [state : GitState, version : 0 .. MaxChanges],
                    history : [fish : BOOLEAN, state : HistoryState, version : 0 .. MaxChanges]]
      /\ VersionInv
  BY PromptAssumption DEF Typed, ShapeInv
<1>2. ASSUME NEW f \in File, NEW state \in FileState,
             world' = [world EXCEPT !.files[f] = [state |-> state, version |-> @.version + 1]]
      PROVE  /\ world'.git = world.git /\ world'.history = world.history
             /\ world'.files \in [File -> [state : FileState, version : 0 .. MaxChanges]]
             /\ world' = [files |-> world'.files, git |-> world.git, history |-> world.history]
             /\ \A g \in File : world'.files[g].version \in {world.files[g].version,
                                                            world.files[g].version + 1}
  <2> DEFINE now == [state |-> state, version |-> world.files[f].version + 1]
  <2>1. now \in [state : FileState, version : 0 .. MaxChanges] /\ now.version = world.files[f].version + 1
    BY <1>1 DEF VersionInv
  <2>2. world'.files = [world.files EXCEPT ![f] = now] /\ world'.git = world.git
        /\ world'.history = world.history
        /\ world' = [files |-> world'.files, git |-> world.git, history |-> world.history]
    BY <1>1, <1>2
  <2> HIDE DEF now
  <2>3. world.files \in [File -> [state : FileState, version : 0 .. MaxChanges]]
    BY <1>1
  <2> QED BY <2>1, <2>2, <2>3
<1>3. ASSUME NEW state \in GitState,
             world' = [world EXCEPT !.git = [state |-> state, version |-> @.version + 1]]
      PROVE  /\ world'.files = world.files /\ world'.history = world.history
             /\ world' = [files |-> world.files, git |-> world'.git, history |-> world.history]
             /\ world'.git = [state |-> state, version |-> world.git.version + 1]
             /\ world'.git \in [state : GitState, version : 0 .. MaxChanges]
  BY <1>1, <1>3 DEF VersionInv
<1>4. ASSUME NEW state \in HistoryState,
             world' = [world EXCEPT !.history.state = state, !.history.version = @ + 1]
      PROVE  /\ world'.files = world.files /\ world'.git = world.git
             /\ world' = [files |-> world.files, git |-> world.git, history |-> world'.history]
             /\ world'.history.version = world.history.version + 1
             /\ world'.history \in [fish : BOOLEAN, state : HistoryState, version : 0 .. MaxChanges]
  <2> DEFINE now == [fish |-> world.history.fish, state |-> state,
                     version |-> world.history.version + 1]
  <2>1. /\ world.history.fish \in BOOLEAN /\ world.history.version \in Nat
        /\ world.history.version + 1 \in 0 .. MaxChanges
        /\ world.history \in [fish : BOOLEAN, state : HistoryState, version : 0 .. MaxChanges]
    BY <1>1 DEF VersionInv
  <2>2. now \in [fish : BOOLEAN, state : HistoryState, version : 0 .. MaxChanges]
        /\ now.version = world.history.version + 1
    BY <2>1
  <2>3. [[world.history EXCEPT !.state = state] EXCEPT !.version = world.history.version + 1] = now
    <3> DEFINE h == world.history
               v == world.history.version + 1
    <3>1. now = [fish |-> h.fish, state |-> state, version |-> v]
      OBVIOUS
    <3>2. h \in [fish : BOOLEAN, state : HistoryState, version : 0 .. MaxChanges]
      BY <2>1
    <3> HIDE DEF h, v, now
    <3>3. h = [fish |-> h.fish, state |-> h.state, version |-> h.version]
      BY <3>2
    <3>4. ASSUME NEW fish, NEW s, NEW n
          PROVE  [[[fish |-> fish, state |-> s, version |-> n] EXCEPT !.state = state]
                    EXCEPT !.version = v] = [fish |-> fish, state |-> state, version |-> v]
      <4>1. [[fish |-> fish, state |-> s, version |-> n] EXCEPT !.state = state]
              = [fish |-> fish, state |-> state, version |-> n]
        OBVIOUS
      <4>2. [[fish |-> fish, state |-> state, version |-> n] EXCEPT !.version = v]
              = [fish |-> fish, state |-> state, version |-> v]
        OBVIOUS
      <4> QED BY <4>1, <4>2, Zenon
    <3>5. [[h EXCEPT !.state = state] EXCEPT !.version = v]
            = [fish |-> h.fish, state |-> state, version |-> v]
      BY <3>3, <3>4, Zenon
    <3> QED BY <3>1, <3>5 DEF h, v
  <2>4. world' = [files |-> world.files, git |-> world.git, history |-> now]
    BY <1>1, <1>4, <2>3
  <2> HIDE DEF now
  <2> QED BY <2>2, <2>4
<1>5. \A f \in File : world.files[f].version \in Nat
  BY <1>1
<1>6. world.git.version \in Nat /\ world.history.version \in Nat
  BY <1>1
<1>7. /\ world.files \in [File -> [state : FileState, version : 0 .. MaxChanges]]
      /\ world.git \in [state : GitState, version : 0 .. MaxChanges]
      /\ world.history \in [fish : BOOLEAN, state : HistoryState, version : 0 .. MaxChanges]
  BY <1>1
<1>8. CASE \E f \in File, state \in FileState :
             world' = [world EXCEPT !.files[f] = [state |-> state, version |-> @.version + 1]]
  <2>1. PICK f \in File, state \in FileState :
          world' = [world EXCEPT !.files[f] = [state |-> state, version |-> @.version + 1]]
    BY <1>8
  <2>2. /\ world'.git = world.git /\ world'.history = world.history
        /\ world'.files \in [File -> [state : FileState, version : 0 .. MaxChanges]]
        /\ world' = [files |-> world'.files, git |-> world.git, history |-> world.history]
        /\ \A g \in File : world'.files[g].version \in {world.files[g].version,
                                                       world.files[g].version + 1}
    BY <1>2, <2>1
  <2>3. \A g \in File : /\ world'.files[g].version >= world.files[g].version
                        /\ world'.files[g].version <= changes + 1
    BY <1>1, <1>5, <2>2 DEF VersionInv
  <2>4. VersionInv'
    BY <1>1, <1>6, <2>2, <2>3 DEF VersionInv
  <2> QED BY <1>1, <1>6, <1>7, <2>2, <2>3, <2>4
<1>9. CASE \E state \in GitState :
             world' = [world EXCEPT !.git = [state |-> state, version |-> @.version + 1]]
  BY <1>1, <1>3, <1>5, <1>6, <1>7, <1>9 DEF VersionInv
<1>10. CASE \E state \in HistoryState :
              world' = [world EXCEPT !.history.state = state, !.history.version = @ + 1]
  <2>1. PICK state \in HistoryState :
          world' = [world EXCEPT !.history.state = state, !.history.version = @ + 1]
    BY <1>10
  <2>2. /\ world'.files = world.files /\ world'.git = world.git
        /\ world' = [files |-> world.files, git |-> world.git, history |-> world'.history]
        /\ world'.history.version = world.history.version + 1
        /\ world'.history \in [fish : BOOLEAN, state : HistoryState, version : 0 .. MaxChanges]
    BY <1>4, <2>1
  <2> QED BY <1>1, <1>5, <1>6, <1>7, <2>2 DEF VersionInv
<1> QED BY <1>8, <1>9, <1>10 DEF OutsideMoves

LEMMA Typing ==
  ASSUME ShapeInv', VersionInv', place' \in {"idle", "asking", "resolving", "ended"},
         Len(cache'.history) <= 1, cache'.history # <<>> => cache'.fish = "yes",
         line'.next \in 1 .. Len(line'.text) + 1
  PROVE  Typed'
  BY DEF Typed, ShapeInv, PromptTypeOK, List

\* Steps of the world outside.
LEMMA OutsideTypes ==
  ASSUME Typed, changes < MaxChanges, changes' = changes + 1, OutsideMoves,
         place' \in {"idle", "asking", "resolving", "ended"},
         UNCHANGED <<cache, finder, thread, asks, line>>
  PROVE  Typed'
<1>1. ShapeInv' /\ VersionInv'
  BY OutsideTyped DEF Typed, ShapeInv
<1>2. /\ Len(cache'.history) <= 1 /\ (cache'.history # <<>> => cache'.fish = "yes")
      /\ line'.next \in 1 .. Len(line'.text) + 1
  BY DEF Typed, PromptTypeOK
<1> QED BY <1>1, <1>2, Typing

\* Steps of a completion thread.
LEMMA ThreadTypes ==
  ASSUME Typed, NEW x \in Thread,
         CompletionStarts(x) \/ ScanEnds(x) \/ Returns(x) \/ CompletionEnds(x)
  PROVE  Typed'
<1>1. /\ thread \in [Thread -> [at : {"off", "scanning", "cached", "searching", "raised"},
                                list : List]]
      /\ finder \in List /\ NoList \in List /\ asks.count \in 0 .. MaxAsks
      /\ thread[x].list \in List
  BY NoListTyped, ThreadTyped DEF Typed, ShapeInv
<1>2. [prompt |-> asks.count, files |-> ScanPaths] \in List
  BY <1>1 DEF List, ScanPaths
<1>3. finder' \in List
  BY <1>1 DEF CompletionStarts, ScanEnds, Returns, CompletionEnds
<1>4. thread' \in [Thread -> [at : {"off", "scanning", "cached", "searching", "raised"},
                              list : List]]
  BY <1>1, <1>2 DEF CompletionStarts, ScanEnds, Returns, CompletionEnds
<1>5. UNCHANGED <<world, cache, place, asks, line, changes>>
  BY DEF CompletionStarts, ScanEnds, Returns, CompletionEnds
<1>6. ShapeInv' /\ VersionInv'
  BY <1>3, <1>4, <1>5 DEF Typed, ShapeInv, VersionInv
<1> QED BY <1>5, <1>6, Typing DEF Typed, PromptTypeOK

\* Ask, Submit, Abandon and Send.
LEMMA CommandTypes ==
  ASSUME Typed, LineInv, Ask \/ (\E text \in Lines : Submit(text)) \/ Abandon \/ Send
  PROVE  Typed'
<1>1. UNCHANGED <<world, cache, thread, changes>>
  BY DEF Ask, Submit, Abandon, Send
<1>2. place' \in {"idle", "asking", "resolving", "ended"}
  BY DEF Ask, Submit, Abandon, Send
<1>3. finder' \in List /\ asks' \in [count : 0 .. MaxAsks, across : SUBSET (0 .. MaxAsks)]
  <2>1. /\ finder \in List /\ asks \in [count : 0 .. MaxAsks, across : SUBSET (0 .. MaxAsks)]
        /\ MaxAsks \in Nat
    BY PromptAssumption DEF Typed, ShapeInv
  <2>2. ASSUME Ask PROVE asks' \in [count : 0 .. MaxAsks, across : SUBSET (0 .. MaxAsks)]
    <3> DEFINE busy == {thread[x].list.prompt : x \in {y \in Thread : AtWork(y)}}
    <3>1. asks' = [count |-> asks.count + 1, across |-> busy] /\ asks.count < MaxAsks
      BY <2>2 DEF Ask
    <3>2. busy \subseteq 0 .. MaxAsks
      BY ThreadTyped DEF List
    <3> HIDE DEF busy
    <3> QED BY <2>1, <3>1, <3>2
  <2>3. ASSUME Ask PROVE finder' \in List
    BY <2>3, NoListTyped DEF Ask, Invalidate
  <2> QED BY <2>1, <2>2, <2>3 DEF Submit, Abandon, Send
<1>4. line'.next \in 1 .. Len(line'.text) + 1
  <2>1. ASSUME Ask PROVE line'.next \in 1 .. Len(line'.text) + 1
    <3>1. line'.next = 1 /\ Len(line'.text) = 0
      BY <2>1 DEF Ask, NoLine
    <3> QED BY <3>1
  <2>2. ASSUME NEW text \in Lines, Submit(text) PROVE line'.next \in 1 .. Len(line'.text) + 1
    <3>1. line'.next = 1 /\ line'.text = text /\ Len(text) \in Nat
      BY <2>2, PromptAssumption DEF Submit
    <3> QED BY <3>1
  <2>3. ASSUME Send PROVE line'.next = line.next /\ line'.text = line.text
    BY <2>3 DEF Send, LineInv
  <2>4. line.next \in 1 .. Len(line.text) + 1
    BY DEF LineInv
  <2> QED BY <2>1, <2>2, <2>3, <2>4 DEF Abandon
<1>5. ShapeInv' /\ VersionInv'
  BY <1>1, <1>3 DEF Typed, ShapeInv, VersionInv
<1> QED BY <1>1, <1>2, <1>4, <1>5, Typing DEF Typed, PromptTypeOK

-----------------------------------------------------------------------------
(* A reference looked up.                                                  *)

LEMMA HistoryTyped ==
  ASSUME Typed
  PROVE  /\ HistoryRead \in Seq(History) /\ Len(HistoryRead) <= 1
         /\ HistoryRead # <<>> => HistoryRead[1] \in History
         /\ HistoryRead # <<>> => cache.history # <<>> \/ FishKnown = "yes"
<1>1. cache.history \in Seq(History) /\ Len(cache.history) <= 1
  BY WorldTyped
<1> DEFINE now == [version |-> world.history.version,
                   lines |-> world.history.state = "lines"]
<1>2. now \in History
  BY WorldTyped DEF History
<1>3. HistoryRead \in {cache.history, <<now>>, <<>>}
  BY DEF HistoryRead
<1>4. cache.history = <<>> /\ HistoryRead # <<>> => FishKnown = "yes"
  BY DEF HistoryRead
<1> HIDE DEF now
<1>5. <<now>> \in Seq(History) /\ Len(<<now>>) = 1 /\ <<>> \in Seq(History) /\ Len(<<>>) = 0
  BY <1>2
<1>6. HistoryRead \in Seq(History) /\ Len(HistoryRead) <= 1
  <2>1. CASE HistoryRead = cache.history
    BY <1>1, <2>1
  <2>2. CASE HistoryRead = <<now>>
    BY <1>5, <2>2
  <2>3. CASE HistoryRead = <<>>
    BY <1>5, <2>3
  <2> QED BY <1>3, <2>1, <2>2, <2>3
<1>7. HistoryRead # <<>> => HistoryRead[1] \in History
  <2>1. SUFFICES ASSUME HistoryRead # <<>> PROVE HistoryRead[1] \in History
    OBVIOUS
  <2>2. Len(HistoryRead) # 0
    BY <1>6, <2>1, NoneLeft
  <2> QED BY ONLY <1>6, <2>2, Tailed
<1> QED BY <1>4, <1>6, <1>7

LEMMA LookedTyped ==
  ASSUME Typed, NEW ref
  PROVE  /\ Looked(ref) \in [git : {"unknown", "yes", "no"}, fish : {"unknown", "yes", "no"},
                             history : Seq(History)]
         /\ Len(Looked(ref).history) <= 1
         /\ Looked(ref).history # <<>> => Looked(ref).fish = "yes"
<1>1. /\ cache \in [git : {"unknown", "yes", "no"}, fish : {"unknown", "yes", "no"},
                    history : Seq(History)]
      /\ Len(cache.history) <= 1 /\ (cache.history # <<>> => cache.fish = "yes")
      /\ world.history.version \in 0 .. MaxChanges
  BY DEF Typed, PromptTypeOK, ShapeInv
<1>2. GitKnown \in {"unknown", "yes", "no"} /\ FishKnown \in {"unknown", "yes", "no"}
  BY <1>1 DEF GitKnown, FishKnown, Available
<1>4. /\ HistoryRead \in Seq(History) /\ Len(HistoryRead) <= 1
      /\ HistoryRead # <<>> => cache.history # <<>> \/ FishKnown = "yes"
  BY HistoryTyped
<1>5. CASE ref.kind \in GitKinds
  <2>1. Looked(ref) = [cache EXCEPT !.git = GitKnown]
    BY <1>5 DEF Looked, GitKinds
  <2> QED BY <1>1, <1>2, <2>1
<1>6. CASE ref.kind = "history"
  <2> DEFINE fish == IF cache.history = <<>> THEN FishKnown ELSE cache.fish
  <2>1. fish \in {"unknown", "yes", "no"}
    BY <1>1, <1>2
  <2>2. Looked(ref) = [cache EXCEPT !.fish = fish, !.history = HistoryRead]
    BY <1>6 DEF Looked, GitKinds
  <2>3. HistoryRead # <<>> => fish = "yes"
    BY <1>1, <1>4
  <2> HIDE DEF fish
  <2>4. /\ [cache EXCEPT !.fish = fish, !.history = HistoryRead]
              \in [git : {"unknown", "yes", "no"}, fish : {"unknown", "yes", "no"},
                   history : Seq(History)]
        /\ Looked(ref).history = HistoryRead /\ Looked(ref).fish = fish
    BY <1>1, <1>4, <2>1, <2>2
  <2> QED BY <1>4, <2>2, <2>3, <2>4
<1>7. CASE ref.kind \notin GitKinds /\ ref.kind # "history"
  <2>1. Looked(ref) = cache
    BY <1>7 DEF Looked
  <2> QED BY <1>1, <2>1
<1> QED BY <1>5, <1>6, <1>7

LEMMA FindingTyped ==
  ASSUME NEW s \in {"available", "excluded", "not_found", "error"}, NEW v \in 0 .. MaxChanges
  PROVE  Item(s, v) \in Finding /\ Item(s, v).version = v
  BY DEF Item, Finding

\* A reference that is known has one outcome, and one of what is there now,
\* unless the lookup raises.
LEMMA ResolvedKnown ==
  ASSUME Typed, NEW ref, ref.kind \in Kinds, ref.kind = "file" => ref.name \in File,
         ~Raises(ref)
  PROVE  \E item \in Finding :
           /\ Resolved(ref) = <<item>>
           /\ ref.kind = "file" => item.version = world.files[ref.name].version
           /\ ref.kind \in GitKinds => item.version = world.git.version
<1>1. CASE ref.kind = "file"
  <2>1. Resolved(ref) = <<FileItem(ref.name)>>
    BY <1>1 DEF Resolved, Kinds, GitKinds
  <2>2. /\ world.files[ref.name].state \in FileState
        /\ world.files[ref.name].version \in 0 .. MaxChanges
    BY <1>1, WorldTyped
  <2>3. world.files[ref.name].state # "unreachable"
    BY <1>1 DEF Raises
  <2>4. /\ FileItem(ref.name) \in Finding
        /\ FileItem(ref.name).version = world.files[ref.name].version
    BY <2>2, <2>3, FindingTyped DEF FileItem, FileState
  <2> QED BY <1>1, <2>1, <2>4 DEF GitKinds
<1>2. CASE ref.kind \in GitKinds
  <2>1. Resolved(ref) = <<GitItem>>
    BY <1>2 DEF Resolved, GitKinds
  <2>2. world.git.state \in GitState /\ world.git.version \in 0 .. MaxChanges
    BY WorldTyped
  <2>3. GitKnown \in {"yes", "no"}
    BY WorldTyped DEF GitKnown, Available
  <2>4. GitItem \in Finding /\ GitItem.version = world.git.version
    BY <2>2, <2>3, FindingTyped DEF GitItem, GitState
  <2> QED BY <1>2, <2>1, <2>4 DEF GitKinds
<1>3. CASE ref.kind = "history"
  <2>1. Resolved(ref) = <<HistoryItem>>
    BY <1>3 DEF Resolved, GitKinds
  <2>4. HistoryRead # <<>> => HistoryRead[1].version \in 0 .. MaxChanges
    BY HistoryTyped DEF History
  <2>5. HistoryItem \in Finding
    BY <2>4, FindingTyped, PromptAssumption DEF HistoryItem
  <2> QED BY <1>3, <2>1, <2>5 DEF GitKinds
<1>4. CASE ref.kind = "env"
  <2>1. Resolved(ref) = <<EnvItem(ref.name)>>
    BY <1>4 DEF Resolved, GitKinds
  <2>2. EnvItem(ref.name) \in Finding
    <3>1. 0 \in 0 .. MaxChanges
      BY PromptAssumption
    <3>2. Item("available", 0) \in Finding /\ Item("not_found", 0) \in Finding
      BY <3>1, FindingTyped
    <3> QED BY <3>2 DEF EnvItem
  <2> QED BY <1>4, <2>1, <2>2 DEF GitKinds
<1> QED BY <1>1, <1>2, <1>3, <1>4 DEF Kinds

LEMMA ResolvedUnknown ==
  ASSUME NEW ref, ref.kind \notin Kinds
  PROVE  Resolved(ref) = <<>>
  BY DEF Resolved, Kinds, GitKinds

-----------------------------------------------------------------------------
(* The rest of the line.                                                   *)

LEMMA LengthOfText ==
  ASSUME NEW text, text \in Seq(ToSet(text)), NEW n \in 0 .. Len(text) - 1
  PROVE  /\ Len(text) \in Nat
         /\ n \in 0 .. Len(text) /\ n + 1 \in 0 .. Len(text) /\ n \in Nat /\ n + 1 \in Nat
<1> DEFINE P == ToSet(text)
<1>1. text \in Seq(P)
  OBVIOUS
<1> HIDE DEF P
<1>2. Len(text) \in Nat
  BY <1>1
<1> QED BY <1>2

LEMMA TakenGrows ==
  ASSUME NEW text, text \in Seq(ToSet(text)), NEW n \in 0 .. Len(text) - 1, NEW kinds
  PROVE  OfKind(SubSeq(text, 1, n + 1), kinds) =
           IF text[n + 1].kind \in kinds THEN Append(OfKind(SubSeq(text, 1, n), kinds), text[n + 1])
                                         ELSE OfKind(SubSeq(text, 1, n), kinds)
<1> DEFINE m == n + 1
           items == SubSeq(text, 1, n)
           more == SubSeq(text, 1, m)
<1>1. /\ n \in Nat /\ m \in Nat /\ m = n + 1 /\ Len(items) = n /\ Len(more) = m
      /\ \A i \in 1 .. n : items[i] = more[i]
      /\ more[m] = text[m]
  <2>1. n \in 0 .. Len(text) /\ m \in 0 .. Len(text) /\ n \in Nat /\ m \in Nat /\ m = n + 1
    BY LengthOfText
  <2> HIDE DEF m
  <2>2. Len(items) = n /\ \A i \in 1 .. n : items[i] = text[i]
    BY <2>1, Prefixed DEF items
  <2>3. Len(more) = m /\ \A i \in 1 .. m : more[i] = text[i]
    BY <2>1, Prefixed DEF more
  <2> HIDE DEF items, more
  <2> QED BY <2>1, <2>2, <2>3
<1> HIDE DEF m, items, more
<1>2. OfKind(more, kinds) = IF more[m].kind \in kinds THEN Append(OfKind(items, kinds), more[m])
                                                      ELSE OfKind(items, kinds)
  BY <1>1, OfKindLonger
<1> QED BY <1>1, <1>2 DEF items, more, m

\* What a chunk among the first n leaves, when it is known or when it is not.
SparedOf(text, n) ==
  {text[i] : i \in {j \in 1 .. n : text[j].kind \notin Kinds}} \cup {Word(text[i].lead) : i \in 1 .. n}

LEMMA SparedTyped ==
  ASSUME NEW text, NEW n \in Nat, NEW i \in 1 .. n
  PROVE  Spared(text[i]) \in Seq(SparedOf(text, n))
<1> DEFINE S == SparedOf(text, n)
<1>1. Word(text[i].lead) \in S /\ (text[i].kind \notin Kinds => text[i] \in S)
  BY DEF SparedOf
<1> HIDE DEF S
<1>2. <<Word(text[i].lead)>> \in Seq(S) /\ <<>> \in Seq(S)
      /\ (text[i].kind \notin Kinds => <<text[i]>> \in Seq(S))
  BY <1>1
<1>3. Spared(text[i]) \in Seq(S)
  BY <1>2 DEF Spared, Lead
<1> QED BY <1>3 DEF S

\* What each of the first n chunks leaves.
SparedSeq(text, n) == [i \in 1 .. n |-> Spared(text[i])]

LEMMA UnreadIs ==
  ASSUME NEW text, text \in Seq(ToSet(text)), NEW n \in 0 .. Len(text)
  PROVE  /\ Unread(SubSeq(text, 1, n)) = FlattenSeq(SparedSeq(text, n))
         /\ SparedSeq(text, n) \in Seq(Seq(SparedOf(text, n)))
         /\ Unread(SubSeq(text, 1, n)) \in Seq(SparedOf(text, n))
<1> DEFINE part == SubSeq(text, 1, n)
<1>1. n \in Nat
  OBVIOUS
<1>2. Len(part) = n /\ \A i \in 1 .. n : part[i] = text[i]
  BY Prefixed
<1>3. part \in Seq(ToSet(text))
  BY Prefixed
<1> HIDE DEF part
<1>4. DOMAIN part = 1 .. n
  BY <1>2, <1>3
<1>5. [i \in DOMAIN part |-> Spared(part[i])] = SparedSeq(text, n)
  BY <1>2, <1>4 DEF SparedSeq
<1>6. Unread(part) = FlattenSeq(SparedSeq(text, n))
  BY <1>5 DEF Unread
<1>7. SparedSeq(text, n) \in Seq(Seq(SparedOf(text, n)))
  <2> DEFINE S == Seq(SparedOf(text, n))
  <2>1. \A i \in 1 .. n : Spared(text[i]) \in S
    BY <1>1, SparedTyped
  <2> HIDE DEF S
  <2>2. SparedSeq(text, n) \in Seq(S)
    BY <1>1, <2>1 DEF SparedSeq
  <2> QED BY <2>2 DEF S
<1>8. FlattenSeq(SparedSeq(text, n)) \in Seq(SparedOf(text, n))
  BY ONLY <1>7, FlattenTyped
<1> QED BY <1>6, <1>7, <1>8 DEF part

LEMMA UnreadGrows ==
  ASSUME NEW text, text \in Seq(ToSet(text)), NEW n \in 0 .. Len(text) - 1
  PROVE  Unread(SubSeq(text, 1, n + 1)) = Unread(SubSeq(text, 1, n)) \o Spared(text[n + 1])
<1> DEFINE m == n + 1
           S == SparedOf(text, m)
           x == Spared(text[m])
           seqs == SparedSeq(text, n)
           more == SparedSeq(text, m)
<1>1. n \in 0 .. Len(text) /\ m \in 0 .. Len(text) /\ n \in Nat /\ m \in Nat /\ m = n + 1
  BY LengthOfText
<1>2. /\ Unread(SubSeq(text, 1, n)) = FlattenSeq(seqs)
      /\ Unread(SubSeq(text, 1, m)) = FlattenSeq(more)
  <2> HIDE DEF m
  <2> QED BY <1>1, UnreadIs DEF seqs, more
<1>3. \A i \in 1 .. m : Spared(text[i]) \in Seq(S)
  <2> HIDE DEF m
  <2> QED BY <1>1, SparedTyped
<1>4. seqs \in Seq(Seq(S)) /\ x \in Seq(S) /\ more = Append(seqs, x)
  <2> DEFINE Q == Seq(S)
  <2>1. \A i \in 1 .. m : Spared(text[i]) \in Q
    BY <1>3
  <2> HIDE DEF Q, m, S
  <2>2. /\ seqs \in Seq(Q) /\ Len(seqs) = n /\ x \in Q
        /\ \A i \in 1 .. n : seqs[i] = Spared(text[i])
    BY <1>1, <2>1 DEF SparedSeq
  <2>3. /\ more \in Seq(Q) /\ Len(more) = m
        /\ \A i \in 1 .. m : more[i] = Spared(text[i])
    BY <1>1, <2>1 DEF SparedSeq
  <2> HIDE DEF seqs, more
  <2>4. /\ Append(seqs, x) \in Seq(Q) /\ Len(Append(seqs, x)) = m
        /\ \A i \in 1 .. n : Append(seqs, x)[i] = seqs[i]
        /\ Append(seqs, x)[m] = x
    BY <1>1, <2>2, Appended
  <2>5. \A i \in 1 .. m : more[i] = Append(seqs, x)[i]
    BY <1>1, <2>2, <2>3, <2>4
  <2>6. more = Append(seqs, x)
    BY ONLY <2>3, <2>4, <2>5, SameItems
  <2> QED BY <2>2, <2>6 DEF Q
<1> HIDE DEF S, x, seqs, more
<1>5. FlattenSeq(Append(seqs, x)) = FlattenSeq(seqs) \o x
  BY ONLY <1>4, FlattenAppend
<1> QED BY <1>2, <1>4, <1>5 DEF x

\* What the first n chunks leave does not hold a known reference that follows.
LEMMA UnreadHolds ==
  ASSUME NEW text, text \in Seq(ToSet(text)), NEW n \in 0 .. Len(text) - 1,
         ~Mistakable(text), text[n + 1].kind \in Kinds,
         NEW item \in SparedOf(text, n)
  PROVE  ~Holds(item, Token(text[n + 1]))
<1> DEFINE ref == text[n + 1]
<1>1. n \in Nat /\ n + 1 \in DOMAIN text
  BY LengthOfText
<1>2. CASE \E i \in 1 .. n : text[i].kind \notin Kinds /\ item = text[i]
  <2>1. PICK i \in 1 .. n : text[i].kind \notin Kinds /\ item = text[i]
    BY <1>2
  <2>2. i \in DOMAIN text /\ i < n + 1
    BY <1>1, LengthOfText
  <2>3. <<item, Token(ref)>> \notin DOMAIN Cuts
    BY <1>1, <2>1, <2>2 DEF Mistakable
  <2>4. Token(item).kind # Token(ref).kind
    BY <2>1 DEF Token
  <2> QED BY <2>3, <2>4 DEF Holds
<1>3. CASE \E i \in 1 .. n : item = Word(text[i].lead)
  <2>1. item.kind = "word" /\ "word" \notin Kinds
    <3>1. PICK i \in 1 .. n : item = Word(text[i].lead)
      BY <1>3
    <3>2. Word(text[i].lead).kind = "word"
      BY DEF Word
    <3>3. "word" \notin Kinds
      BY DEF Kinds, GitKinds
    <3> QED BY <3>1, <3>2, <3>3
  <2>2. <<item, Token(ref)>> \notin DOMAIN Cuts
    <3>1. \A found \in DOMAIN Cuts : found[1].kind # "word"
      BY PromptAssumption
    <3>2. <<item, Token(ref)>>[1] = item
      OBVIOUS
    <3> QED BY <2>1, <3>1, <3>2
  <2>3. Token(item).kind # Token(ref).kind
    BY <2>1 DEF Token
  <2> QED BY <2>2, <2>3 DEF Holds
<1> QED BY <1>2, <1>3 DEF SparedOf

\* Leaving an unknown item, or a word, where it is.
LEMMA ItemLeft ==
  ASSUME NEW P, NEW text \in Seq(P), NEW n \in 0 .. Len(text) - 1, NEW kept \in Seq(P)
  PROVE  Append(kept, text[n + 1]) \o SubSeq(text, n + 2, Len(text))
           = kept \o SubSeq(text, n + 1, Len(text))
<1> DEFINE l == Len(text)
           k == Len(kept)
           ref == text[n + 1]
           longer == Append(kept, ref)
           tail == SubSeq(text, n + 2, l)
           left == SubSeq(text, n + 1, l)
<1>1. /\ l \in Nat /\ k \in Nat /\ n \in Nat /\ n < l /\ ref \in P
      /\ tail \in Seq(P) /\ Len(tail) = (l - n) - 1
      /\ \A i \in 1 .. (l - n) - 1 : tail[i] = text[(n + 1) + i]
      /\ left \in Seq(P) /\ Len(left) = l - n
      /\ \A i \in 1 .. l - n : left[i] = text[n + i]
  <2>1. l \in Nat /\ k \in Nat /\ n \in 0 .. l /\ n + 1 \in 0 .. l /\ n < l
    OBVIOUS
  <2>2. ref \in P
    OBVIOUS
  <2>3. /\ tail \in Seq(P) /\ Len(tail) = l - (n + 1)
        /\ \A i \in 1 .. l - (n + 1) : tail[i] = text[(n + 1) + i]
    <3> DEFINE m == n + 1
    <3>1. m \in 0 .. Len(text) /\ n + 2 = m + 1
      BY <2>1
    <3> HIDE DEF m
    <3>2. /\ SubSeq(text, m + 1, Len(text)) \in Seq(P)
          /\ Len(SubSeq(text, m + 1, Len(text))) = Len(text) - m
          /\ \A i \in 1 .. Len(text) - m : SubSeq(text, m + 1, Len(text))[i] = text[m + i]
      BY <3>1, Suffixed
    <3>3. tail = SubSeq(text, m + 1, Len(text))
      BY <3>1
    <3> QED BY <3>2, <3>3 DEF m
  <2>4. /\ left \in Seq(P) /\ Len(left) = l - n
        /\ \A i \in 1 .. l - n : left[i] = text[n + i]
    BY <2>1, Suffixed
  <2> HIDE DEF l, k, ref, tail, left
  <2>5. l - (n + 1) = (l - n) - 1
    BY <2>1
  <2> QED BY <2>1, <2>2, <2>3, <2>4, <2>5
<1>2. /\ longer \in Seq(P) /\ Len(longer) = k + 1 /\ longer[k + 1] = ref
      /\ \A i \in 1 .. k : longer[i] = kept[i]
  BY <1>1, Appended
<1>3. text[n + 1] = ref
  OBVIOUS
<1> HIDE DEF l, k, ref, longer, tail, left
<1> DEFINE a == longer \o tail
           b == kept \o left
<1>4. /\ a \in Seq(P) /\ Len(a) = k + (l - n)
      /\ \A i \in 1 .. k + 1 : a[i] = longer[i]
      /\ \A i \in 1 .. (l - n) - 1 : a[(k + 1) + i] = tail[i]
  <2>1. /\ a \in Seq(P) /\ Len(a) = Len(longer) + Len(tail)
        /\ \A i \in 1 .. Len(longer) : a[i] = longer[i]
        /\ \A i \in 1 .. Len(tail) : a[Len(longer) + i] = tail[i]
    <3>1. longer \in Seq(P) /\ tail \in Seq(P)
      BY <1>1, <1>2
    <3> QED BY ONLY <3>1, Concatenated
  <2> HIDE DEF a
  <2> QED BY <1>1, <1>2, <2>1
<1>5. /\ b \in Seq(P) /\ Len(b) = k + (l - n)
      /\ \A i \in 1 .. k : b[i] = kept[i]
      /\ \A i \in 1 .. l - n : b[k + i] = left[i]
  <2>1. /\ b \in Seq(P) /\ Len(b) = Len(kept) + Len(left)
        /\ \A i \in 1 .. Len(kept) : b[i] = kept[i]
        /\ \A i \in 1 .. Len(left) : b[Len(kept) + i] = left[i]
    <3>1. kept \in Seq(P) /\ left \in Seq(P)
      BY <1>1
    <3> QED BY ONLY <3>1, Concatenated
  <2> HIDE DEF b
  <2> QED BY <1>1, <2>1 DEF k
<1> HIDE DEF a, b
<1>6. ASSUME NEW i \in 1 .. k + (l - n) PROVE a[i] = b[i]
  <2>1. CASE i <= k
    BY <1>1, <1>2, <1>4, <1>5, <2>1
  <2>2. CASE i = k + 1
    <3>1. a[i] = ref
      BY <1>1, <1>2, <1>4, <2>2
    <3>2. 1 \in 1 .. l - n
      BY <1>1
    <3>3. b[k + 1] = left[1] /\ left[1] = text[n + 1]
      BY <1>1, <1>5, <3>2
    <3> QED BY <1>3, <2>2, <3>1, <3>3
  <2>3. CASE i > k + 1
    <3> DEFINE j == i - (k + 1)
    <3>1. /\ j \in 1 .. (l - n) - 1 /\ j + 1 \in 1 .. l - n /\ i = (k + 1) + j
          /\ i = k + (j + 1) /\ n + (j + 1) = (n + 1) + j
      BY <1>1, <2>3
    <3> HIDE DEF j
    <3>2. a[i] = tail[j] /\ b[i] = left[j + 1]
      BY <1>4, <1>5, <3>1
    <3>3. tail[j] = text[(n + 1) + j] /\ left[j + 1] = text[n + (j + 1)]
      BY <1>1, <3>1
    <3> QED BY <3>1, <3>2, <3>3
  <2> QED BY <1>1, <2>1, <2>2, <2>3
<1>7. a = b
  <2>1. Len(a) = Len(b) /\ \A i \in 1 .. Len(a) : a[i] = b[i]
    BY <1>4, <1>5, <1>6
  <2>2. a \in Seq(P) /\ b \in Seq(P)
    BY <1>4, <1>5
  <2> QED BY ONLY <2>1, <2>2
<1> QED BY <1>7 DEF a, b, longer, tail, left, ref, l

\* The first place where a reference is found, when it is its own.
LEMMA FirstFound ==
  ASSUME NEW P, NEW rest \in Seq(P), NEW token, NEW k \in 1 .. Len(rest), Token(rest[k]) = token,
         \A i \in 1 .. k - 1 : ~Holds(rest[i], token)
  PROVE  Without(rest, token) =
           (SubSeq(rest, 1, k - 1) \o Lead(rest[k])) \o SubSeq(rest, k + 1, Len(rest))
<1> DEFINE I == {i \in 1 .. Len(rest) : Holds(rest[i], token)}
<1>1. Holds(rest[k], token) /\ LeftOf(rest[k], token) = Lead(rest[k])
  BY DEF Holds, LeftOf
<1>2. k \in I /\ \A i \in I : k <= i
  BY <1>1
<1>3. Min(I) = k
  <2>1. \A i \in I : i \in Nat
    OBVIOUS
  <2> HIDE DEF I
  <2>2. \A m \in I : (\A i \in I : m <= i) => m = k
    BY <1>2, <2>1
  <2> QED BY <1>2, <2>2 DEF Min
<1>4. SelectInSeq(rest, LAMBDA item : Holds(item, token)) = k
  BY <1>2, <1>3 DEF SelectInSeq
<1>5. ~(\A i \in DOMAIN rest : ~Holds(rest[i], token))
  BY <1>1
<1>6. Without(rest, token) =
        (SubSeq(rest, 1, k - 1) \o LeftOf(rest[k], token)) \o SubSeq(rest, k + 1, Len(rest))
  BY <1>4, <1>5 DEF Without
<1> QED BY <1>1, <1>6

LEMMA ItemTaken ==
  ASSUME NEW P, NEW text \in Seq(P), NEW n \in 0 .. Len(text) - 1, NEW kept \in Seq(P),
         \A i \in 1 .. Len(kept) : ~Holds(kept[i], Token(text[n + 1]))
  PROVE  Without(kept \o SubSeq(text, n + 1, Len(text)), Token(text[n + 1]))
           = (kept \o Lead(text[n + 1])) \o SubSeq(text, n + 2, Len(text))
<1> DEFINE l == Len(text)
           k == Len(kept)
           ref == text[n + 1]
           token == Token(ref)
           left == SubSeq(text, n + 1, l)
           tail == SubSeq(text, n + 2, l)
           rest == kept \o left
<1>1. l \in Nat /\ k \in Nat /\ n \in 0 .. l /\ n + 1 \in 0 .. l /\ n < l /\ n \in Nat
  OBVIOUS
<1>2. /\ left \in Seq(P) /\ Len(left) = l - n
      /\ \A i \in 1 .. l - n : left[i] = text[n + i]
  BY <1>1, Suffixed
<1>3. /\ tail \in Seq(P) /\ Len(tail) = l - (n + 1)
      /\ \A i \in 1 .. l - (n + 1) : tail[i] = text[(n + 1) + i]
  <2> DEFINE m == n + 1
  <2>1. m \in 0 .. Len(text) /\ n + 2 = m + 1
    BY <1>1
  <2> HIDE DEF m
  <2>2. /\ SubSeq(text, m + 1, Len(text)) \in Seq(P)
        /\ Len(SubSeq(text, m + 1, Len(text))) = Len(text) - m
        /\ \A i \in 1 .. Len(text) - m : SubSeq(text, m + 1, Len(text))[i] = text[m + i]
    BY <2>1, Suffixed
  <2>3. tail = SubSeq(text, m + 1, Len(text))
    BY <2>1
  <2> QED BY <2>2, <2>3 DEF m
<1>4. \A i \in 1 .. k : ~Holds(kept[i], token)
  OBVIOUS
<1> HIDE DEF left, tail
<1>5. /\ rest \in Seq(P) /\ Len(rest) = Len(kept) + Len(left)
      /\ \A i \in 1 .. Len(kept) : rest[i] = kept[i]
      /\ \A i \in 1 .. Len(left) : rest[Len(kept) + i] = left[i]
  <2>1. kept \in Seq(P) /\ left \in Seq(P)
    BY <1>2
  <2> QED BY ONLY <2>1, Concatenated
<1>6. text[n + 1] = ref
  OBVIOUS
<1>7. Token(ref) = token
  OBVIOUS
<1> HIDE DEF l, k, ref, rest, token
<1>8. /\ Len(rest) = k + (l - n) /\ k + 1 \in 1 .. Len(rest)
      /\ \A i \in 1 .. k : rest[i] = kept[i]
      /\ \A i \in 1 .. l - n : rest[k + i] = left[i]
  BY <1>1, <1>2, <1>5 DEF k
<1>9. rest[k + 1] = ref
  <2>1. 1 \in 1 .. l - n
    BY <1>1
  <2>2. rest[k + 1] = left[1] /\ left[1] = text[n + 1]
    BY <1>2, <1>8, <2>1
  <2> QED BY <1>6, <2>2
<1>10. Without(rest, token) =
        (SubSeq(rest, 1, k) \o Lead(ref)) \o SubSeq(rest, (k + 1) + 1, Len(rest))
  <2> DEFINE j == k + 1
  <2>1. j \in 1 .. Len(rest) /\ rest[j] = ref /\ j - 1 = k /\ Token(rest[j]) = token
    BY <1>1, <1>8, <1>9, <1>7
  <2>2. \A i \in 1 .. j - 1 : ~Holds(rest[i], token)
    BY <1>4, <1>8, <2>1
  <2> HIDE DEF j
  <2>3. Without(rest, token) = (SubSeq(rest, 1, j - 1) \o Lead(rest[j])) \o SubSeq(rest, j + 1, Len(rest))
    BY ONLY <1>5, <2>1, <2>2, FirstFound
  <2> QED BY <2>1, <2>3 DEF j
<1>11. SubSeq(rest, 1, k) = kept
  <2>1. /\ SubSeq(rest, 1, k) \in Seq(P) /\ Len(SubSeq(rest, 1, k)) = k
        /\ \A i \in 1 .. k : SubSeq(rest, 1, k)[i] = rest[i]
    BY <1>1, <1>5, <1>8
  <2> QED BY <1>1, <1>8, <2>1 DEF k
<1>12. SubSeq(rest, (k + 1) + 1, Len(rest)) = tail
  <2> DEFINE j == k + 1
             b == SubSeq(rest, j + 1, Len(rest))
  <2>1. j \in 0 .. Len(rest) /\ Len(rest) - j = l - (n + 1) /\ j = k + 1
    BY <1>1, <1>8
  <2> HIDE DEF j
  <2>2. /\ b \in Seq(P) /\ Len(b) = Len(rest) - j
        /\ \A i \in 1 .. Len(rest) - j : b[i] = rest[j + i]
    BY ONLY <1>5, <2>1, Suffixed
  <2> HIDE DEF b
  <2>3. ASSUME NEW i \in 1 .. l - (n + 1) PROVE b[i] = tail[i]
    <3>1. i + 1 \in 1 .. l - n /\ j + i = k + (i + 1) /\ n + (i + 1) = (n + 1) + i
      BY <1>1, <2>1
    <3>2. b[i] = rest[j + i] /\ rest[k + (i + 1)] = left[i + 1] /\ left[i + 1] = text[n + (i + 1)]
      BY <1>2, <1>8, <2>1, <2>2, <3>1
    <3> QED BY <1>3, <3>1, <3>2
  <2>4. Len(b) = Len(tail) /\ \A i \in 1 .. Len(b) : b[i] = tail[i]
    BY <1>3, <2>1, <2>2, <2>3
  <2>5. b \in Seq(P) /\ tail \in Seq(P)
    BY <1>3, <2>2
  <2>6. b = tail
    BY ONLY <2>4, <2>5, SameItems
  <2> QED BY <2>6 DEF b, j
<1>13. Without(rest, token) = (kept \o Lead(ref)) \o tail
  BY <1>10, <1>11, <1>12
<1> QED BY <1>13 DEF rest, token, ref, left, tail, l

-----------------------------------------------------------------------------
(* The line.                                                               *)

LEMMA RefsAppend ==
  ASSUME NEW P, NEW s \in Seq(P), NEW x \in P
  PROVE  RefsOf(Append(s, x)) = Append(RefsOf(s), x.ref)
<1> DEFINE n == Len(s)
           longer == Append(s, x)
           right == Append(RefsOf(s), x.ref)
           R == {p.ref : p \in P}
<1>1. /\ longer \in Seq(P) /\ n \in Nat /\ Len(longer) = n + 1 /\ longer[n + 1] = x
      /\ \A i \in 1 .. n : longer[i] = s[i]
  BY Appended
<1>2. \A t \in Seq(P) : /\ RefsOf(t) \in Seq(R) /\ Len(RefsOf(t)) = Len(t)
                        /\ \A i \in 1 .. Len(t) : RefsOf(t)[i] = t[i].ref
  <2>1. ASSUME NEW t \in Seq(P)
        PROVE  /\ RefsOf(t) \in Seq(R) /\ Len(RefsOf(t)) = Len(t)
               /\ \A i \in 1 .. Len(t) : RefsOf(t)[i] = t[i].ref
    <3>1. /\ DOMAIN t = 1 .. Len(t) /\ Len(t) \in Nat
          /\ \A i \in 1 .. Len(t) : t[i].ref \in R
      OBVIOUS
    <3> HIDE DEF R
    <3> QED BY <3>1 DEF RefsOf
  <2> QED BY <2>1
<1>3. x.ref \in R
  OBVIOUS
<1>4. RefsOf(s) \in Seq(R) /\ Len(RefsOf(s)) = n /\ \A i \in 1 .. n : RefsOf(s)[i] = s[i].ref
  BY <1>2
<1> HIDE DEF n, R
<1>5. /\ right \in Seq(R) /\ Len(right) = n + 1 /\ right[n + 1] = x.ref
      /\ \A i \in 1 .. n : right[i] = s[i].ref
  BY <1>1, <1>3, <1>4
<1> HIDE DEF longer, right
<1>6. /\ RefsOf(longer) \in Seq(R) /\ Len(RefsOf(longer)) = n + 1
      /\ \A i \in 1 .. n + 1 : RefsOf(longer)[i] = longer[i].ref
  BY <1>1, <1>2
<1>7. \A i \in 1 .. n + 1 : RefsOf(longer)[i] = right[i]
  BY <1>1, <1>5, <1>6
<1>8. RefsOf(longer) = right
  BY <1>5, <1>6, <1>7
<1> QED BY <1>8 DEF longer, right

LEMMA RefsEmpty == RefsOf(<<>>) = <<>>
  BY DEF RefsOf

\* What a reference of a line can be.
LEMMA LineOfLines ==
  ASSUME NEW text \in Lines, NEW i \in 1 .. Len(text)
  PROVE  /\ text \in Seq(ToSet(text)) /\ Len(text) \in Nat
         /\ text[i] \in ToSet(text)
         /\ text[i] \in UNION {ToSet(other) : other \in Lines}
         /\ text[i].kind = "file" => text[i].name \in File
<1>1. text \in Seq(ToSet(text)) /\ \A ref \in ToSet(text) : ref.kind = "file" => ref.name \in File
  BY PromptAssumption
<1>2. text[i] \in ToSet(text)
  BY <1>1
<1>3. text[i] \in UNION {ToSet(other) : other \in Lines}
  BY <1>2
<1> QED BY <1>1, <1>2, <1>3

\* The one step that reads the line.
LEMMA ResolveLine ==
  ASSUME Typed, LineInv, ResolveNext
  PROVE  LineInv'
<1> DEFINE text == line.text
           n == line.next - 1
           ref == text[n + 1]
           kept == Unread(SubSeq(text, 1, n))
           left == SubSeq(text, n + 1, Len(text))
           tail == SubSeq(text, n + 2, Len(text))
           sections == line.sections
<1>1. /\ place = "resolving" /\ text \in Lines /\ line.next \in 1 .. Len(text) + 1
      /\ line.next <= Len(text) /\ text \in Seq(ToSet(text))
      /\ line = [text |-> line.text, rest |-> line.rest, sections |-> line.sections,
                 next |-> line.next, since |-> line.since]
      /\ sections \in Seq(Section)
      /\ \A i \in DOMAIN sections : Fresh(sections[i])
      /\ \A f \in File : line.since[1].files[f].version \in 0 .. world.files[f].version
      /\ line.since[1].git.version \in 0 .. world.git.version
      /\ sections = <<>> => line.rest = text
  BY DEF LineInv, ResolveNext
<1>2. /\ Len(text) \in Nat /\ n \in 0 .. Len(text) - 1 /\ n + 1 \in 1 .. Len(text)
      /\ line.next = n + 1 /\ n \in Nat
  BY <1>1
<1>3. /\ RefsOf(sections) = OfKind(SubSeq(text, 1, n), Kinds)
      /\ ~Mistakable(text) => line.rest = kept \o left
  BY <1>1, <1>2 DEF LineInv, Taken, Left
<1>4. /\ ref \in ToSet(text) /\ ref \in UNION {ToSet(other) : other \in Lines}
      /\ ref.kind = "file" => ref.name \in File
  BY <1>1, <1>2, LineOfLines
<1>5. UNCHANGED <<world, finder, thread, place, asks, changes>> /\ ~Raises(ref)
  BY <1>2 DEF ResolveNext
<1> DEFINE items == Resolved(ref)
           more == [i \in DOMAIN items |-> [ref |-> ref, item |-> items[i]]]
<1>6. line' = [line EXCEPT !.next = line.next + 1,
                           !.rest = IF items = <<>> THEN line.rest ELSE Without(line.rest, Token(ref)),
                           !.sections = sections \o more]
  BY <1>2 DEF ResolveNext
<1>7. /\ line'.text = text /\ line'.next = n + 2 /\ line'.since = line.since
      /\ line'.rest = IF items = <<>> THEN line.rest ELSE Without(line.rest, Token(ref))
      /\ line'.sections = sections \o more
      /\ line' = [text |-> line'.text, rest |-> line'.rest, sections |-> line'.sections,
                  next |-> line'.next, since |-> line'.since]
  <2>1. line.next + 1 = n + 2
    BY <1>2
  <2> HIDE DEF text, n, ref, items, more, sections
  <2>2. line.text = text
    BY DEF text
  <2> QED BY <1>1, <1>6, <2>1, <2>2
<1>8. OfKind(SubSeq(text, 1, n + 1), Kinds) =
        IF ref.kind \in Kinds THEN Append(OfKind(SubSeq(text, 1, n), Kinds), ref)
                              ELSE OfKind(SubSeq(text, 1, n), Kinds)
  BY <1>1, <1>2, TakenGrows
<1>9. kept \in Seq(SparedOf(text, n))
  <2>1. n \in 0 .. Len(text)
    BY <1>1, <1>2, LengthOfText
  <2> QED BY <1>1, <2>1, UnreadIs
<1>10. Unread(SubSeq(text, 1, n + 1)) = kept \o Spared(ref)
  BY <1>1, <1>2, UnreadGrows
\* The set of what is in the rest, when no reference is mistaken.
<1> DEFINE P == ToSet(text) \cup SparedOf(text, n)
<1>11. text \in Seq(P) /\ kept \in Seq(P) /\ n \in 0 .. Len(text) - 1
  <2>1. ToSet(text) \subseteq P /\ SparedOf(text, n) \subseteq P
    OBVIOUS
  <2> HIDE DEF P, kept
  <2> QED BY <1>1, <1>2, <1>9, <2>1
<1> HIDE DEF P
\* What the invariant says of the new line.
<1>12. ASSUME line'.sections \in Seq(Section),
              RefsOf(line'.sections) = OfKind(SubSeq(text, 1, n + 1), Kinds),
              ~Mistakable(text) => line'.rest = Unread(SubSeq(text, 1, n + 1)) \o tail,
              line'.sections = <<>> => line'.rest = text,
              \A i \in DOMAIN line'.sections : Fresh(line'.sections[i])
       PROVE  LineInv'
  <2>1. Taken' = SubSeq(text, 1, n + 1) /\ Left' = tail
    <3>1. (n + 2) - 1 = n + 1
      BY <1>2
    <3> QED BY <1>7, <3>1 DEF Taken, Left
  <2>2. line'.next \in 1 .. Len(line'.text) + 1
    BY <1>2, <1>7
  <2>3. (\A i \in DOMAIN line.sections : Fresh(line.sections[i]))'
    BY <1>7, <1>12 DEF Fresh
  <2> HIDE DEF text, n, tail
  <2>4. line'.text = text
    BY <1>7
  <2> QED BY <1>1, <1>5, <1>7, <1>12, <2>1, <2>2, <2>3, <2>4 DEF LineInv
<1>13. CASE ref.kind \notin Kinds
  <2>1. items = <<>>
    BY <1>13, ResolvedUnknown
  <2>2. more = <<>>
    BY <2>1
  <2>3. sections \o more = sections
    <3> HIDE DEF sections, more
    <3> QED BY <1>1, <2>2
  <2>4. line'.rest = line.rest /\ line'.sections = sections
    BY <1>7, <2>1, <2>3
  <2>5. RefsOf(sections) = OfKind(SubSeq(text, 1, n + 1), Kinds)
    BY <1>3, <1>8, <1>13
  <2>6. ~Mistakable(text) => line.rest = Unread(SubSeq(text, 1, n + 1)) \o tail
    <3>1. Append(kept, ref) \o tail = kept \o left
      BY <1>11, ItemLeft
    <3>2. Unread(SubSeq(text, 1, n + 1)) = Append(kept, ref)
      <4>1. Spared(ref) = <<ref>>
        BY <1>13 DEF Spared
      <4>2. ref \in P
        BY <1>4 DEF P
      <4> HIDE DEF kept, ref
      <4>3. kept \o <<ref>> = Append(kept, ref)
        BY <1>11, <4>2
      <4> QED BY <1>10, <4>1, <4>3
    <3> QED BY <1>3, <3>1, <3>2
  <2> QED BY <1>1, <1>12, <2>4, <2>5, <2>6
<1>14. CASE ref.kind \in Kinds
  <2>1. PICK item \in Finding :
           /\ items = <<item>>
           /\ ref.kind = "file" => item.version = world.files[ref.name].version
           /\ ref.kind \in GitKinds => item.version = world.git.version
    BY <1>4, <1>5, <1>14, ResolvedKnown
  <2> DEFINE section == [ref |-> ref, item |-> item]
  <2>2. more = <<section>>
    <3>1. DOMAIN items = {1} /\ items[1] = item
      BY <2>1
    <3> HIDE DEF items
    <3>2. more = [i \in {1} |-> section]
      BY <3>1
    <3>3. <<section>> = [i \in {1} |-> section]
      OBVIOUS
    <3> QED BY <3>2, <3>3
  <2>3. section \in Section
    BY <1>4, <2>1 DEF Section
  <2>4. Fresh(section)
    BY <1>1, <1>4, <2>1 DEF Fresh
  <2>5. section.ref = ref
    OBVIOUS
  <2> HIDE DEF section
  <2>6. line'.sections = Append(sections, section)
    <3>1. sections \o <<section>> = Append(sections, section)
      <4> HIDE DEF sections
      <4> QED BY <1>1, <2>3
    <3> QED BY <1>7, <2>2, <3>1
  <2>7. /\ line'.sections \in Seq(Section) /\ line'.sections # <<>>
        /\ \A i \in DOMAIN line'.sections : Fresh(line'.sections[i])
    <3>1. /\ Append(sections, section) \in Seq(Section)
          /\ Len(sections) \in Nat /\ Len(Append(sections, section)) = Len(sections) + 1
          /\ \A i \in 1 .. Len(sections) : Append(sections, section)[i] = sections[i]
          /\ Append(sections, section)[Len(sections) + 1] = section
      BY <1>1, <2>3, Appended
    <3>2. DOMAIN Append(sections, section) = 1 .. Len(sections) + 1
      BY <3>1
    <3> HIDE DEF sections
    <3>3. \A i \in 1 .. Len(sections) : Fresh(sections[i])
      BY <1>1
    <3> DEFINE longer == Append(sections, section)
    <3>4. \A i \in DOMAIN longer : Fresh(longer[i])
      <4> HIDE DEF longer
      <4>1. SUFFICES ASSUME NEW i \in 1 .. Len(sections) + 1 PROVE Fresh(longer[i])
        BY <3>2 DEF longer
      <4>2. CASE i = Len(sections) + 1
        BY <2>4, <3>1, <4>2 DEF longer
      <4>3. CASE i # Len(sections) + 1
        <5>1. i \in 1 .. Len(sections)
          BY <3>1, <4>3
        <5>2. longer[i] = sections[i]
          BY <3>1, <5>1 DEF longer
        <5> QED BY <3>3, <5>1, <5>2
      <4> QED BY <4>2, <4>3
    <3>5. longer \in Seq(Section) /\ longer # <<>>
      <4>1. Len(longer) # 0
        BY <3>1
      <4> QED BY <3>1, <4>1
    <3> QED BY <2>6, <3>4, <3>5
  <2>8. RefsOf(line'.sections) = OfKind(SubSeq(text, 1, n + 1), Kinds)
    <3>1. RefsOf(Append(sections, section)) = Append(RefsOf(sections), section.ref)
      BY <1>1, <2>3, RefsAppend
    <3> QED BY <1>3, <1>8, <1>14, <2>5, <2>6, <3>1
  <2>9. ~Mistakable(text) => line'.rest = Unread(SubSeq(text, 1, n + 1)) \o tail
    <3>1. SUFFICES ASSUME ~Mistakable(text)
                   PROVE  line'.rest = Unread(SubSeq(text, 1, n + 1)) \o tail
      OBVIOUS
    <3>2. ASSUME NEW i \in 1 .. Len(kept) PROVE ~Holds(kept[i], Token(ref))
      <4>1. kept[i] \in SparedOf(text, n)
        BY <1>9
      <4>2. n \in 0 .. Len(text) - 1 /\ text \in Seq(ToSet(text)) /\ text[n + 1].kind \in Kinds
        BY <1>1, <1>2, <1>14
      <4> QED BY ONLY <3>1, <4>1, <4>2, UnreadHolds
    <3>3. Without(kept \o left, Token(ref)) = (kept \o Lead(ref)) \o tail
      BY <1>11, <3>2, ItemTaken
    <3>4. Unread(SubSeq(text, 1, n + 1)) = kept \o Lead(ref)
      BY <1>10, <1>14 DEF Spared
    <3>5. items # <<>>
      BY <2>1
    <3> QED BY <1>3, <1>7, <3>1, <3>3, <3>4, <3>5
  <2> QED BY <1>12, <2>7, <2>8, <2>9
<1> QED BY <1>13, <1>14

LEMMA SubmitLine ==
  ASSUME Typed, NEW text \in Lines, Submit(text)
  PROVE  LineInv'
<1>1. text \in Seq(ToSet(text)) /\ Len(text) \in Nat
  BY PromptAssumption
<1>2. /\ line' = [text |-> text, rest |-> text, sections |-> <<>>, next |-> 1,
                  since |-> <<world>>]
      /\ world' = world
  BY DEF Submit
<1>3. /\ line'.text = text /\ line'.rest = text /\ line'.sections = <<>> /\ line'.next = 1
      /\ line'.since[1] = world
      /\ line' = [text |-> line'.text, rest |-> line'.rest, sections |-> line'.sections,
                  next |-> line'.next, since |-> line'.since]
  BY <1>2
<1>4. 1 \in 1 .. Len(text) + 1
  BY <1>1
<1>5. SubSeq(text, 1, 1 - 1) = <<>>
  BY <1>1
<1>6. SubSeq(text, 1, Len(text)) = text
  BY <1>1
<1>7. Taken' = <<>> /\ Left' = text
  BY <1>3, <1>5, <1>6 DEF Taken, Left
<1>8. OfKind(<<>>, Kinds) = <<>> /\ Unread(<<>>) = <<>>
  <2>1. [i \in DOMAIN <<>> |-> Spared(<<>>[i])] = <<>>
    OBVIOUS
  <2> QED BY <2>1, OfKindEmpty, FlattenEmpty DEF Unread
<1>9. <<>> \o text = text
  BY <1>1
<1>10. /\ <<>> \in Seq(Section) /\ DOMAIN <<>> = {}
  OBVIOUS
<1>11. /\ \A f \in File : line'.since[1].files[f].version \in 0 .. world'.files[f].version
       /\ line'.since[1].git.version \in 0 .. world'.git.version
  <2>1. \A f \in File : world.files[f].version \in Nat
    BY WorldTyped
  <2>2. world.git.version \in Nat
    BY WorldTyped
  <2> QED BY <1>2, <1>3, <2>1, <2>2
<1> QED BY <1>1, <1>3, <1>4, <1>7, <1>8, <1>9, <1>10, <1>11, RefsEmpty DEF LineInv

LEMMA NoLineLine ==
  ASSUME line' = NoLine, place' # "resolving"
  PROVE  LineInv'
<1>1. /\ line'.text = <<>> /\ line'.next = 1
      /\ line' = [text |-> line'.text, rest |-> line'.rest, sections |-> line'.sections,
                  next |-> line'.next, since |-> line'.since]
  BY DEF NoLine
<1>2. <<>> \in Seq(ToSet(<<>>)) /\ 1 \in 1 .. Len(<<>>) + 1
  OBVIOUS
<1> QED BY <1>1, <1>2 DEF LineInv

LEMMA LineAtStart ==
  ASSUME Init
  PROVE  LineInv
<1>1. line = NoLine /\ place = "idle"
  BY DEF Init
<1>2. /\ line.text = <<>> /\ line.next = 1
      /\ line = [text |-> line.text, rest |-> line.rest, sections |-> line.sections,
                 next |-> line.next, since |-> line.since]
  BY <1>1 DEF NoLine
<1>3. <<>> \in Seq(ToSet(<<>>)) /\ 1 \in 1 .. Len(<<>>) + 1
  OBVIOUS
<1> QED BY <1>1, <1>2, <1>3 DEF LineInv

\* The world moves on: a section is no older for that.
LEMMA OutsideLine ==
  ASSUME Typed, LineInv, changes < MaxChanges, changes' = changes + 1, OutsideMoves,
         UNCHANGED line, place' \in {place, "ended"}
  PROVE  LineInv'
<1>1. ASSUME place' = "resolving"
      PROVE  /\ \A f \in File : line.since[1].files[f].version \in 0 .. world'.files[f].version
             /\ line.since[1].git.version \in 0 .. world'.git.version
  <2>1. /\ \A f \in File : world'.files[f].version >= world.files[f].version
        /\ world'.git.version >= world.git.version
    BY OutsideTyped
  <2>2. /\ \A f \in File : line.since[1].files[f].version \in 0 .. world.files[f].version
        /\ line.since[1].git.version \in 0 .. world.git.version
    BY <1>1 DEF LineInv
  <2>3. /\ \A f \in File : /\ world.files[f].version \in Nat
                           /\ world'.files[f].version \in Nat
        /\ world.git.version \in Nat /\ world'.git.version \in Nat
    BY WorldTyped, OutsideTyped
  <2> QED BY <2>1, <2>2, <2>3
<1>2. Taken' = Taken /\ Left' = Left
  BY DEF Taken, Left
<1>3. (\A i \in DOMAIN line.sections : Fresh(line.sections[i]))
        => (\A i \in DOMAIN line.sections : Fresh(line.sections[i]))'
  BY DEF Fresh
<1> QED BY <1>1, <1>2, <1>3 DEF LineInv

LEMMA SendLine ==
  ASSUME LineInv, Send
  PROVE  LineInv' /\ SentAsWritten'
<1> DEFINE text == line.text
<1>1. /\ line = [text |-> line.text, rest |-> line.rest, sections |-> line.sections,
                 next |-> line.next, since |-> line.since]
      /\ text \in Seq(ToSet(text)) /\ line.next \in 1 .. Len(text) + 1 /\ line.next > Len(text)
      /\ RefsOf(line.sections) = OfKind(Taken, Kinds)
      /\ ~Mistakable(text) => line.rest = Unread(Taken) \o Left
      /\ line.sections = <<>> => line.rest = text
      /\ \A i \in DOMAIN line.sections : Fresh(line.sections[i])
      /\ place' = "idle"
  BY DEF LineInv, Send
<1>2. line' = [line EXCEPT !.rest = line.rest]
  BY <1>1 DEF Send
<1>3. line' = line
  BY <1>1, <1>2
<1>4. Len(text) \in Nat /\ line.next = Len(text) + 1
  BY <1>1
<1>5. Taken = text /\ Left = <<>>
  <2>1. SubSeq(text, 1, (Len(text) + 1) - 1) = text
    BY <1>1, <1>4
  <2>2. SubSeq(text, Len(text) + 1, Len(text)) = <<>>
    BY <1>1, <1>4
  <2> QED BY <1>4, <2>1, <2>2 DEF Taken, Left
<1>6. LineInv'
  BY <1>1, <1>3 DEF LineInv
<1>7. ~Mistakable(text) => line.rest = Unread(text)
  <2> DEFINE n == Len(text)
             P == SparedOf(text, n)
  <2>1. n \in 0 .. Len(text) /\ SubSeq(text, 1, n) = text
    BY <1>1, <1>4
  <2>2. Unread(SubSeq(text, 1, n)) \in Seq(P)
    <3> HIDE DEF n
    <3> QED BY <1>1, <2>1, UnreadIs
  <2> HIDE DEF n, P
  <2>3. Unread(text) \o <<>> = Unread(text)
    BY <2>1, <2>2
  <2> QED BY <1>1, <1>5, <2>3
<1>8. SentAsWritten'
  <2>1. RefsOf(line.sections) = OfKind(text, Kinds)
    BY <1>1, <1>5
  <2> QED BY <1>1, <1>3, <1>7, <2>1 DEF SentAsWritten, RefsOf, Fresh
<1> QED BY <1>6, <1>8

-----------------------------------------------------------------------------
(* Every step.                                                             *)

\* The steps of the world, one of which ends the command.
LEMMA OutsideSteps ==
  ASSUME \/ \E f \in File, state \in FileState : FileChanges(f, state)
         \/ \E state \in GitState : RepositoryChanges(state)
         \/ \E state \in HistoryState : HistoryChanges(state)
         \/ \E f \in File : FileVanishes(f)
  PROVE  /\ changes < MaxChanges /\ changes' = changes + 1 /\ OutsideMoves
         /\ UNCHANGED <<cache, finder, thread, asks, line>>
         /\ place' \in {place, "ended"}
<1>1. "absent" \in FileState
  BY DEF FileState
<1> QED BY <1>1 DEF FileChanges, RepositoryChanges, HistoryChanges, FileVanishes, Change,
                    OutsideMoves

LEMMA TypeStep ==
  ASSUME Typed, LineInv, [Next]_vars
  PROVE  Typed'
<1>1. place \in {"idle", "asking", "resolving", "ended"}
  BY DEF Typed, PromptTypeOK
<1>2. ASSUME \/ \E f \in File, state \in FileState : FileChanges(f, state)
             \/ \E state \in GitState : RepositoryChanges(state)
             \/ \E state \in HistoryState : HistoryChanges(state)
             \/ \E f \in File : FileVanishes(f)
      PROVE  Typed'
  BY <1>1, <1>2, OutsideSteps, OutsideTypes
<1>3. ASSUME ResolveNext PROVE Typed'
  <2> DEFINE ref == line.text[line.next]
  <2>1. cache' = Looked(ref) /\ UNCHANGED <<world, finder, thread, place, asks, changes>>
    BY <1>3 DEF ResolveNext
  <2>2. LineInv'
    BY <1>3, ResolveLine
  <2>3. line'.next \in 1 .. Len(line'.text) + 1
    BY <2>2 DEF LineInv
  <2>4. /\ cache' \in [git : {"unknown", "yes", "no"}, fish : {"unknown", "yes", "no"},
                       history : Seq(History)]
        /\ Len(cache'.history) <= 1 /\ (cache'.history # <<>> => cache'.fish = "yes")
    BY <2>1, LookedTyped
  <2>5. ShapeInv' /\ VersionInv'
    BY <2>1, <2>4 DEF Typed, ShapeInv, VersionInv
  <2> QED BY <1>1, <2>1, <2>3, <2>4, <2>5, Typing
<1>4. ASSUME UNCHANGED vars PROVE Typed'
  BY <1>4 DEF vars, Typed, PromptTypeOK, ShapeInv, VersionInv
<1>5. ASSUME LookupRaises PROVE Typed'
  <2>1. place' = "ended" /\ UNCHANGED <<world, cache, finder, thread, asks, line, changes>>
    BY <1>5 DEF LookupRaises
  <2> QED BY <2>1 DEF Typed, PromptTypeOK, ShapeInv, VersionInv
<1> QED BY <1>2, <1>3, <1>4, <1>5, ThreadTypes, CommandTypes DEF Next

LEMMA LineStep ==
  ASSUME Typed, LineInv, [Next]_vars
  PROVE  LineInv'
<1>1. ASSUME UNCHANGED <<world, line>>, place' = "resolving" => place = "resolving"
      PROVE  LineInv'
  BY <1>1 DEF LineInv, Taken, Left, Fresh
<1>2. ASSUME \/ \E f \in File, state \in FileState : FileChanges(f, state)
             \/ \E state \in GitState : RepositoryChanges(state)
             \/ \E state \in HistoryState : HistoryChanges(state)
             \/ \E f \in File : FileVanishes(f)
      PROVE  LineInv'
  BY <1>2, OutsideSteps, OutsideLine
<1>3. ASSUME NEW x \in Thread,
             CompletionStarts(x) \/ ScanEnds(x) \/ Returns(x) \/ CompletionEnds(x)
      PROVE  LineInv'
  BY <1>1, <1>3 DEF CompletionStarts, ScanEnds, Returns, CompletionEnds
<1>4. ASSUME Ask PROVE LineInv'
  BY <1>4, NoLineLine DEF Ask
<1>5. ASSUME Abandon \/ LookupRaises PROVE LineInv'
  BY <1>1, <1>5 DEF Abandon, LookupRaises
<1>6. ASSUME UNCHANGED vars PROVE LineInv'
  BY <1>1, <1>6 DEF vars
<1> QED BY <1>2, <1>3, <1>4, <1>5, <1>6, SubmitLine, ResolveLine, SendLine DEF Next

LEMMA SentStep ==
  ASSUME Typed, LineInv, SentAsWritten, [Next]_vars
  PROVE  SentAsWritten'
<1>1. ASSUME UNCHANGED line, place' = "idle" => place = "idle" PROVE SentAsWritten'
  BY <1>1 DEF SentAsWritten
<1>2. ASSUME \/ \E f \in File, state \in FileState : FileChanges(f, state)
             \/ \E state \in GitState : RepositoryChanges(state)
             \/ \E state \in HistoryState : HistoryChanges(state)
             \/ \E f \in File : FileVanishes(f)
      PROVE  SentAsWritten'
  BY <1>1, <1>2, OutsideSteps
<1>3. ASSUME NEW x \in Thread,
             CompletionStarts(x) \/ ScanEnds(x) \/ Returns(x) \/ CompletionEnds(x)
      PROVE  SentAsWritten'
  BY <1>1, <1>3 DEF CompletionStarts, ScanEnds, Returns, CompletionEnds
<1>4. ASSUME Ask \/ (\E text \in Lines : Submit(text)) \/ Abandon \/ ResolveNext \/ LookupRaises
      PROVE  SentAsWritten'
  <2>1. place' # "idle"
    BY <1>4 DEF Ask, Submit, Abandon, ResolveNext, LookupRaises
  <2> QED BY <2>1 DEF SentAsWritten
<1>5. ASSUME UNCHANGED vars PROVE SentAsWritten'
  BY <1>1, <1>5 DEF vars
<1> QED BY <1>2, <1>3, <1>4, <1>5, SendLine DEF Next

LEMMA ListStep ==
  ASSUME Typed, ListInv, [Next]_vars
  PROVE  ListInv'
<1>1. ASSUME UNCHANGED <<finder, thread, asks>>, place' = "asking" => place = "asking"
      PROVE  ListInv'
  BY <1>1 DEF ListInv, Current, AtWork
<1>2. ASSUME \/ \E f \in File, state \in FileState : FileChanges(f, state)
             \/ \E state \in GitState : RepositoryChanges(state)
             \/ \E state \in HistoryState : HistoryChanges(state)
             \/ \E f \in File : FileVanishes(f)
      PROVE  ListInv'
  BY <1>1, <1>2, OutsideSteps
<1>3. ASSUME NEW x \in Thread,
             CompletionStarts(x) \/ ScanEnds(x) \/ Returns(x) \/ CompletionEnds(x)
      PROVE  ListInv'
  <2>1. /\ thread \in [Thread -> [at : {"off", "scanning", "cached", "searching", "raised"},
                                  list : List]]
        /\ UNCHANGED <<place, asks>>
    BY <1>3 DEF Typed, ShapeInv, CompletionStarts, ScanEnds, Returns, CompletionEnds
  <2>2. SUFFICES ASSUME place = "asking",
                        finder = NoList \/ finder.prompt \in Current,
                        \A y \in Thread : AtWork(y) => thread[y].list.prompt \in Current
                 PROVE  /\ finder' = NoList \/ finder'.prompt \in Current
                        /\ \A y \in Thread : AtWork(y)' => thread'[y].list.prompt \in Current
    BY <2>1 DEF ListInv, Current
  <2>3. ASSUME CompletionStarts(x)
        PROVE  /\ finder' = finder
               /\ \E list : /\ list.prompt \in Current
                            /\ \E at : thread' = [thread EXCEPT ![x] = [at |-> at, list |-> list]]
    <3>1. [prompt |-> asks.count, files |-> ScanPaths].prompt \in Current
      BY DEF Current
    <3> QED BY <2>2, <2>3, <3>1 DEF CompletionStarts
  <2>4. CASE CompletionStarts(x)
    BY <2>1, <2>2, <2>3, <2>4 DEF AtWork
  <2>5. CASE ScanEnds(x)
    BY <2>1, <2>2, <2>5 DEF ScanEnds, AtWork
  <2>6. CASE Returns(x)
    BY <2>1, <2>2, <2>6 DEF Returns, AtWork
  <2>7. CASE CompletionEnds(x)
    BY <2>1, <2>2, <2>7 DEF CompletionEnds, AtWork
  <2> QED BY <1>3, <2>4, <2>5, <2>6, <2>7
<1>4. ASSUME Ask PROVE ListInv'
  <2>1. /\ finder' = NoList /\ thread' = thread
        /\ asks'.across = {thread[x].list.prompt : x \in {y \in Thread : AtWork(y)}}
    BY <1>4 DEF Ask, Invalidate
  <2>2. \A x \in Thread : AtWork(x)' => thread'[x].list.prompt \in asks'.across
    BY <2>1 DEF AtWork
  <2> QED BY <2>1, <2>2 DEF ListInv, Current
<1>5. ASSUME (\E text \in Lines : Submit(text)) \/ Abandon \/ Send \/ ResolveNext \/ LookupRaises
      PROVE  ListInv'
  BY <1>5 DEF Submit, Abandon, Send, ResolveNext, LookupRaises, ListInv
<1>6. ASSUME UNCHANGED vars PROVE ListInv'
  BY <1>1, <1>6 DEF vars
<1> QED BY <1>2, <1>3, <1>4, <1>5, <1>6 DEF Next

-----------------------------------------------------------------------------
(* The theorems.                                                           *)

LEMMA PromptInvariant == PromptSpec => []PromptInv
<1>1. Init => PromptInv
  <2> SUFFICES ASSUME Init PROVE PromptInv
    OBVIOUS
  <2>1. ListInv /\ ListsAreOfThisPrompt /\ SentAsWritten
    BY DEF Init, ListInv, ListsAreOfThisPrompt, SentAsWritten
  <2> QED BY <2>1, TypesAtStart, LineAtStart DEF PromptInv, Typed
<1>2. PromptInv /\ [Next]_vars => PromptInv'
  <2> SUFFICES ASSUME PromptInv, [Next]_vars PROVE PromptInv'
    OBVIOUS
  <2>1. Typed /\ ListInv /\ LineInv /\ SentAsWritten
    BY DEF PromptInv, Typed
  <2>2. Typed' /\ ListInv' /\ LineInv' /\ SentAsWritten'
    BY <2>1, TypeStep, ListStep, LineStep, SentStep
  <2>3. ListsAreOfThisPrompt'
    BY <2>2 DEF ListInv, ListsAreOfThisPrompt, Current, AtWork
  <2> QED BY <2>2, <2>3 DEF PromptInv, Typed
<1> QED BY <1>1, <1>2, PTL DEF PromptSpec

\* The types of what a prompt, its completion threads and the providers hold,
\* whatever becomes of the files, the repository and the shell history.
THEOREM PromptTyped == PromptSpec => [](PromptTypeOK /\ ShapeInv)
<1>1. PromptInv => PromptTypeOK /\ ShapeInv
  BY DEF PromptInv
<1> QED BY <1>1, PromptInvariant, PTL

\* What completion offers comes from a scan begun in the prompt at hand, or from
\* a completion that was still at work when this prompt began (prompt.py ask,
\* files.py _get_paths).
THEOREM ListsOfThisPrompt == PromptSpec => []ListsAreOfThisPrompt
<1>1. PromptInv => ListsAreOfThisPrompt
  BY DEF PromptInv
<1> QED BY <1>1, PromptInvariant, PTL

\* The message holds one section for each known reference, in the order of the
\* line and no older than it, and the rest of the line word for word, so long
\* as no unknown reference contains a known one that follows it (prompt.py
\* resolve_at_references).
THEOREM SentWordForWord == PromptSpec => []SentAsWritten
<1>1. PromptInv => SentAsWritten
  BY DEF PromptInv
<1> QED BY <1>1, PromptInvariant, PTL

=============================================================================
