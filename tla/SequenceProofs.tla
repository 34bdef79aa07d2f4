--------------------------- MODULE SequenceProofs ---------------------------
(***************************************************************************)
(* What the selections of KindSequences and the concatenation of a         *)
(* sequence of sequences return, proved by induction on their length.      *)
(***************************************************************************)
EXTENDS KindSequences, SequencesExt, WellFoundedInduction, TLAPS

\* The natural numbers are well-founded: a set of them has a least one.
LEMMA LeastExists ==
  ASSUME NEW S, S \subseteq Nat, S # {}
  PROVE  \E i \in S : \A j \in S : i <= j
<1> DEFINE R == OpToRel(<, Nat)
<1>1. IsWellFoundedOn(R, Nat)
  BY NatLessThanWellFounded
<1> HIDE DEF R
<1>2. PICK i \in S : \A j \in S : <<j, i>> \notin R
  BY <1>1, WFMin, Zenon
<1>3. ASSUME NEW j \in S
      PROVE  i <= j
  <2>1. <<j, i>> \in Nat \X Nat
    OBVIOUS
  <2>2. ~(j < i)
    BY <1>2, <2>1 DEF R, OpToRel
  <2> QED
    BY <2>2
<1> QED
  BY <1>3

LEMMA NoneLeft ==
  ASSUME NEW P, NEW s \in Seq(P), Len(s) = 0
  PROVE  s = <<>>
  OBVIOUS

\* Two sequences with the same items are the same.
LEMMA SameItems ==
  ASSUME NEW P, NEW s \in Seq(P), NEW t \in Seq(P),
         Len(s) = Len(t), \A i \in 1 .. Len(s) : s[i] = t[i]
  PROVE  s = t
<1>1. s = [i \in 1 .. Len(s) |-> s[i]] /\ t = [i \in 1 .. Len(t) |-> t[i]]
  OBVIOUS
<1> QED BY <1>1

LEMMA Concatenated ==
  ASSUME NEW P, NEW s \in Seq(P), NEW t \in Seq(P)
  PROVE  /\ s \o t \in Seq(P)
         /\ Len(s \o t) = Len(s) + Len(t)
         /\ Len(s) \in Nat /\ Len(t) \in Nat
         /\ \A i \in 1 .. Len(s) : (s \o t)[i] = s[i]
         /\ \A i \in 1 .. Len(t) : (s \o t)[Len(s) + i] = t[i]
<1>1. \A i \in 1 .. Len(t) : Len(s) + i \in 1 .. Len(s) + Len(t) /\ ~(Len(s) + i <= Len(s))
                              /\ (Len(s) + i) - Len(s) = i
  OBVIOUS
<1> QED BY <1>1

LEMMA Tailed ==
  ASSUME NEW P, NEW s \in Seq(P), Len(s) # 0
  PROVE  /\ Tail(s) \in Seq(P)
         /\ Len(s) \in Nat /\ Len(Tail(s)) = Len(s) - 1
         /\ \A i \in 1 .. Len(s) - 1 : Tail(s)[i] = s[i + 1]
         /\ Head(s) = s[1] /\ s[1] \in P
  OBVIOUS

LEMMA Appended ==
  ASSUME NEW P, NEW s \in Seq(P), NEW x \in P
  PROVE  /\ Append(s, x) \in Seq(P)
         /\ Len(s) \in Nat /\ Len(Append(s, x)) = Len(s) + 1
         /\ \A i \in 1 .. Len(s) : Append(s, x)[i] = s[i]
         /\ Append(s, x)[Len(s) + 1] = x
  OBVIOUS

LEMMA Suffixed ==
  ASSUME NEW P, NEW s \in Seq(P), NEW n \in 0 .. Len(s)
  PROVE  /\ SubSeq(s, n + 1, Len(s)) \in Seq(P)
         /\ Len(SubSeq(s, n + 1, Len(s))) = Len(s) - n
         /\ \A i \in 1 .. Len(s) - n : SubSeq(s, n + 1, Len(s))[i] = s[n + i]
  OBVIOUS

LEMMA Prefixed ==
  ASSUME NEW P, NEW s \in Seq(P), NEW n \in 0 .. Len(s)
  PROVE  /\ SubSeq(s, 1, n) \in Seq(P) /\ Len(SubSeq(s, 1, n)) = n
         /\ \A i \in 1 .. n : SubSeq(s, 1, n)[i] = s[i]
  OBVIOUS

\* Induction up to n, for a set.
LEMMA UpTo ==
  ASSUME NEW n \in Nat, NEW S, 0 \in S, \A i \in 1 .. n : i - 1 \in S => i \in S
  PROVE  0 .. n \subseteq S
<1>1. SUFFICES ASSUME {i \in 0 .. n : i \notin S} # {} PROVE FALSE
  OBVIOUS
<1> DEFINE T == {i \in 0 .. n : i \notin S}
<1>2. T \subseteq Nat /\ T # {}
  BY <1>1
<1> HIDE DEF T
<1>3. PICK i \in T : \A j \in T : i <= j
  BY <1>2, LeastExists
<1>4. i \in 1 .. n /\ i \notin S
  BY <1>3 DEF T
<1>5. i - 1 \notin T
  BY <1>3, <1>4, <1>2
<1> QED BY <1>4, <1>5 DEF T

\* The function in OfKind.
Kept(items, kinds, n, f) ==
  f = [i \in 0 .. n |->
         IF i = 0 THEN <<>>
         ELSE IF items[i].kind \in kinds THEN Append(f[i - 1], items[i]) ELSE f[i - 1]]

LEMMA KeptExists ==
  ASSUME NEW items, NEW kinds, NEW n \in Nat
  PROVE  \E f : Kept(items, kinds, n, f)
<1> DEFINE S == {i \in 0 .. n : \E f : Kept(items, kinds, i, f)}
<1>1. 0 \in S
  <2> DEFINE f == [i \in 0 .. 0 |-> <<>>]
  <2>1. Kept(items, kinds, 0, f)
    BY DEF Kept
  <2> HIDE DEF f
  <2> QED BY <2>1
<1>2. ASSUME NEW i \in 1 .. n, i - 1 \in S PROVE i \in S
  <2>1. PICK f : Kept(items, kinds, i - 1, f)
    BY <1>2
  <2> DEFINE x == IF items[i].kind \in kinds THEN Append(f[i - 1], items[i]) ELSE f[i - 1]
             g == [j \in 0 .. i |-> IF j = i THEN x ELSE f[j]]
  <2>2. ASSUME NEW j \in 0 .. i
        PROVE  g[j] = IF j = 0 THEN <<>>
                      ELSE IF items[j].kind \in kinds THEN Append(g[j - 1], items[j])
                                                      ELSE g[j - 1]
    <3>1. CASE j = i
      <4>1. i # 0 /\ i - 1 \in 0 .. i /\ i - 1 # i
        BY <1>2
      <4>2. g[i - 1] = f[i - 1] /\ g[j] = x
        BY <3>1, <4>1
      <4> QED BY <3>1, <4>1, <4>2
    <3>2. CASE j # i /\ j # 0
      <4>1. j \in 0 .. i - 1 /\ j - 1 \in 0 .. i /\ j - 1 # i
        BY <1>2, <3>2
      <4>2. g[j] = f[j] /\ g[j - 1] = f[j - 1]
        BY <3>2, <4>1
      <4>3. f[j] = IF items[j].kind \in kinds THEN Append(f[j - 1], items[j]) ELSE f[j - 1]
        BY <2>1, <3>2, <4>1 DEF Kept
      <4> QED BY <3>2, <4>2, <4>3
    <3>3. CASE j = 0
      <4>1. f[0] = <<>> /\ 0 # i
        BY <1>2, <2>1 DEF Kept
      <4> QED BY <3>3, <4>1
    <3> QED BY <3>1, <3>2, <3>3
  <2>3. Kept(items, kinds, i, g)
    <3>1. g = [j \in 0 .. i |-> g[j]]
      OBVIOUS
    <3> HIDE DEF g
    <3> QED BY <2>2, <3>1 DEF Kept
  <2> HIDE DEF g
  <2> QED BY <2>3
<1> HIDE DEF S
<1>3. 0 .. n \subseteq S
  BY <1>1, <1>2, UpTo
<1> QED BY <1>3 DEF S

LEMMA KeptIs ==
  ASSUME NEW items, NEW kinds, Len(items) \in Nat
  PROVE  \E f : Kept(items, kinds, Len(items), f) /\ OfKind(items, kinds) = f[Len(items)]
<1> DEFINE f == CHOOSE f : Kept(items, kinds, Len(items), f)
<1>1. Kept(items, kinds, Len(items), f)
  BY KeptExists
<1>2. OfKind(items, kinds) = f[Len(items)]
  BY DEF OfKind, Kept
<1> HIDE DEF f
<1> QED BY <1>1, <1>2

\* Two such functions agree where both are defined and the items are the same.
LEMMA KeptAgree ==
  ASSUME NEW items, NEW more, NEW kinds, NEW n \in Nat, NEW m \in Nat, n <= m,
         NEW f, NEW g, Kept(items, kinds, n, f), Kept(more, kinds, m, g),
         \A i \in 1 .. n : items[i] = more[i]
  PROVE  \A i \in 0 .. n : f[i] = g[i]
<1> DEFINE S == {i \in 0 .. n : f[i] = g[i]}
<1>1. 0 \in S
  BY DEF Kept
<1>2. ASSUME NEW i \in 1 .. n, i - 1 \in S PROVE i \in S
  <2>1. i \in 0 .. n /\ i \in 0 .. m /\ i # 0
    OBVIOUS
  <2>2. f[i] = IF items[i].kind \in kinds THEN Append(f[i - 1], items[i]) ELSE f[i - 1]
    BY <2>1 DEF Kept
  <2>3. g[i] = IF more[i].kind \in kinds THEN Append(g[i - 1], more[i]) ELSE g[i - 1]
    BY <2>1 DEF Kept
  <2> QED BY <1>2, <2>1, <2>2, <2>3
<1> HIDE DEF S
<1>3. 0 .. n \subseteq S
  BY <1>1, <1>2, UpTo
<1> QED BY <1>3 DEF S

LEMMA OfKindEmpty ==
  ASSUME NEW kinds
  PROVE  OfKind(<<>>, kinds) = <<>>
<1>1. Len(<<>>) = 0
  OBVIOUS
<1>2. PICK f : Kept(<<>>, kinds, 0, f) /\ OfKind(<<>>, kinds) = f[0]
  BY <1>1, KeptIs
<1> QED BY <1>2 DEF Kept

\* What is selected of a longer sequence, in both at once.
LEMMA KeptMeet ==
  ASSUME NEW items, NEW more, NEW kinds, NEW n \in Nat, NEW m \in Nat, n <= m,
         Len(items) = n, Len(more) = m, \A i \in 1 .. n : items[i] = more[i]
  PROVE  \E g : /\ Kept(more, kinds, m, g)
                /\ OfKind(items, kinds) = g[n]
                /\ OfKind(more, kinds) = g[m]
<1>1. PICK f : Kept(items, kinds, n, f) /\ OfKind(items, kinds) = f[n]
  BY KeptIs
<1>2. PICK g : Kept(more, kinds, m, g) /\ OfKind(more, kinds) = g[m]
  BY KeptIs
<1>3. f[n] = g[n]
  <2>1. Kept(items, kinds, n, f) /\ Kept(more, kinds, m, g)
    BY <1>1, <1>2
  <2>2. n <= m /\ n \in Nat /\ m \in Nat /\ \A i \in 1 .. n : items[i] = more[i]
    OBVIOUS
  <2>3. \A i \in 0 .. n : f[i] = g[i]
    BY ONLY <2>1, <2>2, KeptAgree
  <2> QED BY <2>3
<1> QED BY <1>1, <1>2, <1>3

\* One item more.
LEMMA OfKindLonger ==
  ASSUME NEW items, NEW more, NEW kinds, NEW n \in Nat, NEW m \in Nat,
         Len(items) = n, m = n + 1, Len(more) = m, \A i \in 1 .. n : items[i] = more[i]
  PROVE  OfKind(more, kinds) =
           IF more[m].kind \in kinds THEN Append(OfKind(items, kinds), more[m])
                                     ELSE OfKind(items, kinds)
<1>1. /\ n \in Nat /\ m \in Nat /\ n <= m /\ Len(items) = n /\ Len(more) = m
      /\ \A i \in 1 .. n : items[i] = more[i]
  OBVIOUS
<1>2. PICK g : /\ Kept(more, kinds, m, g)
               /\ OfKind(items, kinds) = g[n]
               /\ OfKind(more, kinds) = g[m]
  BY ONLY <1>1, KeptMeet
<1>3. m \in 0 .. m /\ m # 0 /\ m - 1 = n
  OBVIOUS
<1> QED BY <1>2, <1>3 DEF Kept

LEMMA OfKindAppend ==
  ASSUME NEW P, NEW items \in Seq(P), NEW x \in P, NEW kinds
  PROVE  OfKind(Append(items, x), kinds) =
           IF x.kind \in kinds THEN Append(OfKind(items, kinds), x) ELSE OfKind(items, kinds)
<1> DEFINE n == Len(items)
           m == n + 1
           more == Append(items, x)
<1>1. n \in Nat /\ m \in Nat /\ m = n + 1
  OBVIOUS
<1>2. Len(items) = n /\ Len(more) = m /\ more[m] = x
  OBVIOUS
<1>3. \A i \in 1 .. n : items[i] = more[i]
  OBVIOUS
<1> HIDE DEF n, m, more
<1>4. OfKind(more, kinds) =
        IF more[m].kind \in kinds THEN Append(OfKind(items, kinds), more[m])
                                  ELSE OfKind(items, kinds)
  BY <1>1, <1>2, <1>3, OfKindLonger
<1>5. more = Append(items, x)
  BY DEF more
<1> QED BY <1>2, <1>4, <1>5

\* What is selected is some of the items, in a sequence of at most their length.
LEMMA KeptTyped ==
  ASSUME NEW P, NEW items \in Seq(P), NEW kinds,
         NEW f, Kept(items, kinds, Len(items), f)
  PROVE  \A i \in 0 .. Len(items) : /\ f[i] \in Seq({p \in P : p.kind \in kinds})
                                    /\ Len(f[i]) <= i
<1> DEFINE Q == {p \in P : p.kind \in kinds}
           S == {i \in 0 .. Len(items) : f[i] \in Seq(Q) /\ Len(f[i]) <= i}
<1>1. 0 \in S
  BY DEF Kept
<1>2. ASSUME NEW i \in 1 .. Len(items), i - 1 \in S PROVE i \in S
  <2>1. i \in 0 .. Len(items) /\ i # 0
    OBVIOUS
  <2>2. f[i] = IF items[i].kind \in kinds THEN Append(f[i - 1], items[i]) ELSE f[i - 1]
    BY <2>1 DEF Kept
  <2>3. items[i] \in P
    OBVIOUS
  <2>4. f[i - 1] \in Seq(Q) /\ Len(f[i - 1]) <= i - 1
    BY <1>2
  <2>5. f[i] \in Seq(Q) /\ Len(f[i]) <= i
    <3>1. CASE items[i].kind \in kinds
      <4>1. items[i] \in Q
        BY <2>3, <3>1
      <4> HIDE DEF Q
      <4>2. f[i] = Append(f[i - 1], items[i])
        BY <2>2, <3>1
      <4> QED BY <2>4, <4>1, <4>2
    <3>2. CASE items[i].kind \notin kinds
      <4> HIDE DEF Q
      <4> QED BY <2>2, <2>4, <3>2
    <3> QED BY <3>1, <3>2
  <2> QED BY <2>1, <2>5
<1>3. Len(items) \in Nat
  OBVIOUS
<1> HIDE DEF S
<1>4. 0 .. Len(items) \subseteq S
  BY <1>1, <1>2, <1>3, UpTo
<1> QED BY <1>4 DEF S

LEMMA OfKindTyped ==
  ASSUME NEW P, NEW items \in Seq(P), NEW kinds
  PROVE  /\ OfKind(items, kinds) \in Seq({p \in P : p.kind \in kinds})
         /\ OfKind(items, kinds) \in Seq(P)
         /\ Len(OfKind(items, kinds)) <= Len(items)
<1>1. Len(items) \in Nat
  OBVIOUS
<1>2. PICK f : Kept(items, kinds, Len(items), f) /\ OfKind(items, kinds) = f[Len(items)]
  BY <1>1, KeptIs
<1> DEFINE Q == {p \in P : p.kind \in kinds}
           s == OfKind(items, kinds)
<1>3. s \in Seq(Q) /\ Len(s) <= Len(items)
  BY <1>1, <1>2, KeptTyped
<1>4. Q \subseteq P
  OBVIOUS
<1> HIDE DEF Q, s
<1>5. s \in Seq(P)
  BY <1>3, <1>4
<1> QED BY <1>3, <1>5 DEF Q, s

\* What is selected of the first items is the beginning of what is selected of all.
LEMMA OfKindOfPrefix ==
  ASSUME NEW P, NEW items \in Seq(P), NEW kinds, NEW n \in 0 .. Len(items)
  PROVE  /\ Len(OfKind(SubSeq(items, 1, n), kinds)) <= Len(OfKind(items, kinds))
         /\ \A i \in 1 .. Len(OfKind(SubSeq(items, 1, n), kinds)) :
              OfKind(SubSeq(items, 1, n), kinds)[i] = OfKind(items, kinds)[i]
<1> DEFINE part == SubSeq(items, 1, n)
           m == Len(items)
<1>1. m \in Nat /\ n \in Nat /\ n <= m /\ Len(part) = n /\ part \in Seq(P)
  OBVIOUS
<1>2. \A i \in 1 .. n : part[i] = items[i]
  OBVIOUS
<1>3. m = Len(items)
  OBVIOUS
<1>4. part = SubSeq(items, 1, n)
  OBVIOUS
<1> HIDE DEF part, m
<1>5. PICK g : /\ Kept(items, kinds, m, g)
               /\ OfKind(part, kinds) = g[n]
               /\ OfKind(items, kinds) = g[m]
  BY <1>1, <1>2, <1>3, KeptMeet
<1>6. \A i \in 0 .. m : g[i] \in Seq(P) /\ Len(g[i]) \in Nat
  <2>1. Kept(items, kinds, Len(items), g)
    BY <1>3, <1>5
  <2>2. ASSUME NEW i \in 0 .. m PROVE g[i] \in Seq(P)
    <3> DEFINE Q == {p \in P : p.kind \in kinds}
    <3>1. g[i] \in Seq(Q)
      BY <1>3, <2>1, KeptTyped
    <3>2. Q \subseteq P
      OBVIOUS
    <3> HIDE DEF Q
    <3> QED BY <3>1, <3>2
  <2> QED BY <2>2
<1> DEFINE Begins(s, t) == Len(s) <= Len(t) /\ \A i \in 1 .. Len(s) : s[i] = t[i]
           S == {d \in 0 .. m - n : Begins(g[n], g[n + d])}
<1>7. 0 \in S
  BY <1>1, <1>6
<1>8. ASSUME NEW d \in 1 .. m - n, d - 1 \in S PROVE d \in S
  <2> DEFINE i == n + d
  <2>1. i \in 0 .. m /\ i # 0 /\ i - 1 = n + (d - 1) /\ i - 1 \in 0 .. m /\ n \in 0 .. m
    BY <1>1
  <2>2. g[i] = IF items[i].kind \in kinds THEN Append(g[i - 1], items[i]) ELSE g[i - 1]
    BY <1>5, <2>1 DEF Kept
  <2>3. Begins(g[n], g[i - 1])
    BY <1>8, <2>1
  <2>4. d \in 0 .. m - n
    OBVIOUS
  <2>5. Begins(g[n], g[i])
    <3> HIDE DEF i
    <3>1. Begins(g[n], Append(g[i - 1], items[i]))
      BY <1>6, <2>1, <2>3
    <3> QED BY <2>2, <2>3, <3>1
  <2> QED BY <2>4, <2>5
<1>9. m - n \in Nat /\ n + (m - n) = m
  BY <1>1
<1> HIDE DEF S
<1>10. m - n \in S
  <2>1. 0 .. m - n \subseteq S
    BY <1>7, <1>8, <1>9, UpTo
  <2> QED BY <1>9, <2>1
<1>11. Begins(g[n], g[m])
  BY <1>9, <1>10 DEF S
<1> QED BY <1>4, <1>5, <1>11

-----------------------------------------------------------------------------
\* The function in FlattenSeq.
Flat(seqs, n, f) ==
  f = [i \in 1 .. n |-> IF i = 1 THEN seqs[i] ELSE f[i - 1] \o seqs[i]]

LEMMA FlatExists ==
  ASSUME NEW seqs, NEW n \in Nat
  PROVE  \E f : Flat(seqs, n, f)
<1> DEFINE S == {i \in 0 .. n : \E f : Flat(seqs, i, f)}
<1>1. 0 \in S
  <2> DEFINE f == [i \in 1 .. 0 |-> <<>>]
  <2>1. Flat(seqs, 0, f)
    BY DEF Flat
  <2> HIDE DEF f
  <2> QED BY <2>1
<1>2. ASSUME NEW i \in 1 .. n, i - 1 \in S PROVE i \in S
  <2>1. PICK f : Flat(seqs, i - 1, f)
    BY <1>2
  <2> DEFINE x == IF i = 1 THEN seqs[i] ELSE f[i - 1] \o seqs[i]
             g == [j \in 1 .. i |-> IF j = i THEN x ELSE f[j]]
  <2>2. ASSUME NEW j \in 1 .. i
        PROVE  g[j] = IF j = 1 THEN seqs[j] ELSE g[j - 1] \o seqs[j]
    <3>1. CASE j = i /\ i # 1
      <4>1. i - 1 \in 1 .. i /\ i - 1 # i
        BY <1>2, <3>1
      <4>2. g[i - 1] = f[i - 1] /\ g[j] = f[i - 1] \o seqs[i]
        BY <3>1, <4>1
      <4> QED BY <3>1, <4>1, <4>2
    <3>2. CASE j # i /\ j # 1
      <4>1. j \in 1 .. i - 1 /\ j - 1 \in 1 .. i /\ j - 1 # i
        BY <1>2, <3>2
      <4>2. g[j] = f[j] /\ g[j - 1] = f[j - 1]
        BY <3>2, <4>1
      <4>3. f[j] = IF j = 1 THEN seqs[j] ELSE f[j - 1] \o seqs[j]
        BY <2>1, <4>1 DEF Flat
      <4> QED BY <3>2, <4>2, <4>3
    <3>3. CASE j = i /\ i = 1
      BY <3>3
    <3>4. CASE j # i /\ j = 1
      <4>1. j \in 1 .. i - 1
        BY <1>2, <3>4
      <4>2. f[j] = seqs[j] /\ g[j] = f[j]
        BY <2>1, <3>4, <4>1 DEF Flat
      <4> QED BY <3>4, <4>2
    <3> QED BY <3>1, <3>2, <3>3, <3>4
  <2>3. Flat(seqs, i, g)
    <3>1. g = [j \in 1 .. i |-> g[j]]
      OBVIOUS
    <3> HIDE DEF g
    <3> QED BY <2>2, <3>1 DEF Flat
  <2> HIDE DEF g
  <2>4. i \in 0 .. n
    OBVIOUS
  <2> QED BY <2>3, <2>4
<1> HIDE DEF S
<1>3. 0 .. n \subseteq S
  BY <1>1, <1>2, UpTo
<1> QED BY <1>3 DEF S

LEMMA FlatIs ==
  ASSUME NEW seqs, NEW n \in Nat, n # 0, Len(seqs) = n
  PROVE  \E f : Flat(seqs, n, f) /\ FlattenSeq(seqs) = f[n]
<1> DEFINE f == CHOOSE f : Flat(seqs, n, f)
<1>1. Flat(seqs, n, f)
  BY FlatExists
<1>2. FlattenSeq(seqs) = f[n]
  BY DEF FlattenSeq, Flat
<1> HIDE DEF f
<1> QED BY <1>1, <1>2

LEMMA FlatAgree ==
  ASSUME NEW seqs, NEW more, NEW n \in Nat, NEW m \in Nat, n <= m,
         NEW f, NEW g, Flat(seqs, n, f), Flat(more, m, g),
         \A i \in 1 .. n : seqs[i] = more[i]
  PROVE  \A i \in 1 .. n : f[i] = g[i]
<1> DEFINE S == {i \in 0 .. n : i # 0 => f[i] = g[i]}
<1>1. 0 \in S
  OBVIOUS
<1>2. ASSUME NEW i \in 1 .. n, i - 1 \in S PROVE i \in S
  <2>1. i \in 1 .. m /\ i \in 0 .. n
    OBVIOUS
  <2>2. f[i] = IF i = 1 THEN seqs[i] ELSE f[i - 1] \o seqs[i]
    BY DEF Flat
  <2>3. g[i] = IF i = 1 THEN more[i] ELSE g[i - 1] \o more[i]
    BY <2>1 DEF Flat
  <2>4. i # 1 => f[i - 1] = g[i - 1]
    BY <1>2
  <2> QED BY <2>1, <2>2, <2>3, <2>4
<1> HIDE DEF S
<1>3. 0 .. n \subseteq S
  BY <1>1, <1>2, UpTo
<1> QED BY <1>3 DEF S

LEMMA FlattenEmpty == FlattenSeq(<<>>) = <<>>
  BY DEF FlattenSeq

LEMMA FlattenTyped ==
  ASSUME NEW P, NEW seqs \in Seq(Seq(P))
  PROVE  FlattenSeq(seqs) \in Seq(P)
<1> DEFINE n == Len(seqs)
<1>1. n \in Nat /\ n = Len(seqs) /\ \A i \in 1 .. n : seqs[i] \in Seq(P)
  OBVIOUS
<1> HIDE DEF n
<1>2. CASE n = 0
  <2>1. seqs = <<>>
    BY <1>1, <1>2, NoneLeft
  <2>2. <<>> \in Seq(P)
    OBVIOUS
  <2> QED BY ONLY <2>1, <2>2, FlattenEmpty
<1>3. CASE n # 0
  <2>1. PICK f : Flat(seqs, n, f) /\ FlattenSeq(seqs) = f[n]
    BY <1>1, <1>3, FlatIs
  <2> DEFINE S == {i \in 0 .. n : i # 0 => f[i] \in Seq(P)}
  <2>2. 0 \in S
    BY <1>1
  <2>3. ASSUME NEW i \in 1 .. n, i - 1 \in S PROVE i \in S
    <3>1. f[i] = IF i = 1 THEN seqs[i] ELSE f[i - 1] \o seqs[i]
      BY <2>1 DEF Flat
    <3>2. i # 1 => f[i - 1] \in Seq(P)
      BY <1>1, <2>3
    <3>3. seqs[i] \in Seq(P) /\ i \in 0 .. n
      BY <1>1
    <3>4. f[i] \in Seq(P)
      BY <3>1, <3>2, <3>3
    <3> QED BY <3>3, <3>4
  <2> HIDE DEF S
  <2>4. 0 .. n \subseteq S
    BY <1>1, <2>2, <2>3, UpTo
  <2>5. f[n] \in Seq(P)
    BY <1>1, <1>3, <2>4 DEF S
  <2> QED BY <2>1, <2>5
<1> QED BY <1>2, <1>3

LEMMA FlattenLonger ==
  ASSUME NEW seqs, NEW more, NEW n \in Nat, NEW m \in Nat, n # 0, m = n + 1,
         Len(seqs) = n, Len(more) = m, \A i \in 1 .. n : seqs[i] = more[i]
  PROVE  FlattenSeq(more) = FlattenSeq(seqs) \o more[m]
<1>1. PICK f : Flat(seqs, n, f) /\ FlattenSeq(seqs) = f[n]
  BY FlatIs
<1>2. PICK g : Flat(more, m, g) /\ FlattenSeq(more) = g[m]
  BY FlatIs
<1>3. f[n] = g[n]
  <2>1. Flat(seqs, n, f) /\ Flat(more, m, g)
    BY <1>1, <1>2
  <2>2. n <= m /\ n \in Nat /\ m \in Nat /\ \A i \in 1 .. n : seqs[i] = more[i]
    OBVIOUS
  <2>3. \A i \in 1 .. n : f[i] = g[i]
    BY ONLY <2>1, <2>2, FlatAgree
  <2> QED BY <2>3
<1>4. m \in 1 .. m /\ m # 1 /\ m - 1 = n
  OBVIOUS
<1>5. g[m] = g[n] \o more[m]
  BY <1>2, <1>4 DEF Flat
<1> QED BY <1>1, <1>2, <1>3, <1>5

LEMMA FlattenAppend ==
  ASSUME NEW P, NEW seqs \in Seq(Seq(P)), NEW x \in Seq(P)
  PROVE  FlattenSeq(Append(seqs, x)) = FlattenSeq(seqs) \o x
<1> DEFINE n == Len(seqs)
           m == n + 1
           more == Append(seqs, x)
<1>1. n \in Nat /\ m \in Nat /\ m = n + 1
  OBVIOUS
<1>2. Len(seqs) = n /\ Len(more) = m /\ more[m] = x /\ more = Append(seqs, x)
  OBVIOUS
<1>3. \A i \in 1 .. n : seqs[i] = more[i]
  OBVIOUS
<1> HIDE DEF n, m, more
<1>4. CASE n # 0
  <2>1. /\ n \in Nat /\ m \in Nat /\ n # 0 /\ m = n + 1 /\ Len(seqs) = n /\ Len(more) = m
        /\ \A i \in 1 .. n : seqs[i] = more[i]
    BY <1>1, <1>2, <1>3, <1>4
  <2>2. FlattenSeq(more) = FlattenSeq(seqs) \o more[m]
    BY ONLY <2>1, FlattenLonger
  <2> QED BY <1>2, <2>2
<1>5. CASE n = 0
  <2>1. seqs = <<>> /\ m = 1
    BY <1>1, <1>2, <1>5, NoneLeft
  <2>2. PICK f : Flat(more, 1, f) /\ FlattenSeq(more) = f[1]
    <3>1. Len(more) = 1 /\ 1 \in Nat /\ 1 # 0
      BY <1>2, <2>1
    <3> QED BY ONLY <3>1, FlatIs
  <2>3. f[1] = x
    BY <1>2, <2>1, <2>2 DEF Flat
  <2>4. FlattenSeq(seqs) \o x = x
    BY <2>1, FlattenEmpty
  <2> QED BY <1>2, <2>2, <2>3, <2>4
<1> QED BY <1>4, <1>5

=============================================================================
