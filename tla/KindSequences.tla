--------------------------- MODULE KindSequences ---------------------------
(***************************************************************************)
(* Sequences of records that have a kind, as the loops over the artifacts  *)
(* of a task (cli/client.py) and over the references of a line             *)
(* (cli/interaction/prompt.py) select from them.                           *)
(***************************************************************************)
EXTENDS Naturals, Sequences

\* The items of these kinds, in their order: SelectSeq, as a function on the
\* prefixes of the sequence, by which it can be reasoned about.
OfKind(items, kinds) ==
  LET kept[n \in 0 .. Len(items)] ==
        IF n = 0 THEN <<>>
        ELSE IF items[n].kind \in kinds THEN Append(kept[n - 1], items[n])
                                        ELSE kept[n - 1]
  IN kept[Len(items)]

=============================================================================
