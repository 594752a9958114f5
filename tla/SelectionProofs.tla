--------------------------- MODULE SelectionProofs ---------------------------
(***************************************************************************)
(* Facts about numbers, sequences and loops over them, for the proofs of   *)
(* the other modules: induction, from the well-foundedness of the numbers, *)
(* and what module Selection keeps.                                        *)
(***************************************************************************)
EXTENDS Selection, WellFoundedInduction, SequenceTheorems, TLAPS

\* A non-empty set of numbers has a least one.
LEMMA LeastNumber ==
    ASSUME NEW T \in SUBSET Nat, T # {}
    PROVE  \E n \in T : \A m \in T : ~(m < n)
<1>1. PICK n \in T : \A m \in T : <<m, n>> \notin OpToRel(<, Nat)
    BY NatLessThanWellFounded, WFMin
<1>. QED
    BY <1>1 DEF OpToRel

\* A set of numbers that has 0, and with each the next, has them all.
LEMMA Induction ==
    ASSUME NEW T \in SUBSET Nat, 0 \in T, \A n \in T : n + 1 \in T
    PROVE  T = Nat
<1>. SUFFICES ASSUME Nat \ T # {} PROVE FALSE
    OBVIOUS
<1>1. PICK n \in Nat \ T : \A m \in Nat \ T : ~(m < n)
    BY LeastNumber
<1>. QED
    BY <1>1

\* Likewise of sequences, which are built from the empty one by appending.
LEMMA SequenceInduction ==
    ASSUME NEW S, NEW T \in SUBSET Seq(S), <<>> \in T,
           \A s \in T : \A e \in S : Append(s, e) \in T
    PROVE  T = Seq(S)
<1>. DEFINE N == {n \in Nat : \A s \in Seq(S) : Len(s) = n => s \in T}
<1>1. 0 \in N
    BY \A s \in Seq(S) : Len(s) = 0 => s = <<>>
<1>2. ASSUME NEW n \in N PROVE n + 1 \in N
    <2>. SUFFICES ASSUME NEW s \in Seq(S), Len(s) = n + 1 PROVE s \in T
        OBVIOUS
    <2>1. s # <<>> /\ n \in Nat
        OBVIOUS
    <2>2. PICK front \in Seq(S), e \in S : s = Append(front, e)
        BY <2>1, SequenceEmptyOrAppend
    <2>3. Len(front) = n
        BY <2>1, <2>2
    <2>. QED
        BY <2>2, <2>3
<1>3. N = Nat
    BY <1>1, <1>2, Induction
<1>4. \A s \in Seq(S) : Len(s) \in N
    BY <1>3
<1>. QED
    BY <1>4

\* Two loops that start alike, and go on alike as long as they agree, agree.
LEMMA LoopsAgree ==
    ASSUME NEW f, NEW g, NEW n \in Nat, f[0] = g[0],
           \A i \in 0..n : i < n /\ f[i] = g[i] => f[i + 1] = g[i + 1]
    PROVE  \A i \in 0..n : f[i] = g[i]
<1>. DEFINE T == {i \in Nat : i <= n => f[i] = g[i]}
<1>1. 0 \in T
    OBVIOUS
<1>2. ASSUME NEW i \in T PROVE i + 1 \in T
    OBVIOUS
<1>. HIDE DEF T
<1>3. T = Nat
    BY <1>1, <1>2, Induction DEF T
<1>. QED
    BY <1>3 DEF T

-----------------------------------------------------------------------------
\* A loop: f[i] is what it has come to after i rounds, of which the i-th
\* applies step[i].
Rounds(first, step, n, f) ==
    /\ DOMAIN f = 0..n
    /\ f[0] = first
    /\ \A i \in 1..n : f[i] = step[i][f[i - 1]]

\* Every loop whose steps stay within X comes to its end.
LEMMA LoopRuns ==
    ASSUME NEW X, NEW first \in X, NEW step \in [Nat \ {0} -> [X -> X]], NEW n \in Nat
    PROVE  \E f \in [0..n -> X] : Rounds(first, step, n, f)
<1>. DEFINE T == {m \in Nat : \E f \in [0..m -> X] : Rounds(first, step, m, f)}
<1>1. 0 \in T
    <2>. DEFINE f == [i \in 0..0 |-> first]
    <2>1. f \in [0..0 -> X] /\ Rounds(first, step, 0, f)
        BY DEF Rounds
    <2>. QED
        BY <2>1
<1>2. ASSUME NEW m \in T PROVE m + 1 \in T
    <2>1. PICK f \in [0..m -> X] : Rounds(first, step, m, f)
        OBVIOUS
    <2>2. m \in Nat
        OBVIOUS
    <2>. DEFINE g == [i \in 0..(m + 1) |-> IF i = m + 1 THEN step[m + 1][f[m]] ELSE f[i]]
    <2>3. step[m + 1][f[m]] \in X
        BY <2>2
    <2>4. g \in [0..(m + 1) -> X]
        BY <2>2, <2>3
    <2>5. ASSUME NEW i \in 1..(m + 1) PROVE g[i] = step[i][g[i - 1]]
        <3>1. CASE i = m + 1
            BY <2>2, <3>1
        <3>2. CASE i \in 1..m
            <4>1. g[i] = f[i] /\ g[i - 1] = f[i - 1]
                BY <2>2, <3>2
            <4>. QED
                BY <2>1, <3>2, <4>1 DEF Rounds
        <3>. QED
            BY <2>2, <3>1, <3>2
    <2>6. Rounds(first, step, m + 1, g)
        BY <2>1, <2>2, <2>5 DEF Rounds
    <2>. QED
        BY <2>2, <2>4, <2>6
<1>. HIDE DEF T
<1>3. T = Nat
    BY <1>1, <1>2, Induction DEF T
<1>. QED
    BY <1>3 DEF T

\* The loop of Selected.
Keeps(s, S, kept) ==
    kept = [n \in 0..Len(s) |->
               IF n = 0 THEN <<>>
               ELSE IF s[n] \in S THEN Append(kept[n - 1], s[n]) ELSE kept[n - 1]]

\* Its rounds.
LEMMA KeepsRounds ==
    ASSUME NEW s, NEW S, NEW kept, Keeps(s, S, kept), Len(s) \in Nat
    PROVE  /\ kept[0] = <<>>
           /\ \A i \in Nat : i < Len(s) =>
                 kept[i + 1] = IF s[i + 1] \in S THEN Append(kept[i], s[i + 1]) ELSE kept[i]
<1>1. kept[0] = <<>>
    BY DEF Keeps
<1>2. ASSUME NEW i \in Nat, i < Len(s)
      PROVE  kept[i + 1] = IF s[i + 1] \in S THEN Append(kept[i], s[i + 1]) ELSE kept[i]
    <2>1. i + 1 \in 0..Len(s) /\ i + 1 # 0 /\ (i + 1) - 1 = i
        BY <1>2
    <2>. QED
        BY <2>1 DEF Keeps
<1>. QED
    BY <1>1, <1>2

LEMMA SelectedLoop ==
    ASSUME NEW E, NEW s \in Seq(E), NEW S
    PROVE  \E kept : Keeps(s, S, kept) /\ Selected(s, S) = kept[Len(s)]
<1>. DEFINE step == [i \in Nat \ {0} |-> [k \in Seq(E) |->
                        IF i \in 1..Len(s) /\ s[i] \in S THEN Append(k, s[i]) ELSE k]]
<1>1. Len(s) \in Nat /\ <<>> \in Seq(E)
    OBVIOUS
<1>2. step \in [Nat \ {0} -> [Seq(E) -> Seq(E)]]
    <2>1. ASSUME NEW i \in 1..Len(s), NEW k \in Seq(E) PROVE Append(k, s[i]) \in Seq(E)
        OBVIOUS
    <2>. QED
        BY <2>1
<1>3. PICK f \in [0..Len(s) -> Seq(E)] : Rounds(<<>>, step, Len(s), f)
    <2>. HIDE DEF step
    <2>. QED
        BY <1>1, <1>2, LoopRuns
<1>4. ASSUME NEW n \in 0..Len(s)
      PROVE  f[n] = IF n = 0 THEN <<>>
                    ELSE IF s[n] \in S THEN Append(f[n - 1], s[n]) ELSE f[n - 1]
    <2>1. CASE n = 0
        BY <1>3, <2>1 DEF Rounds
    <2>2. CASE n # 0
        <3>1. n \in 1..Len(s) /\ n \in Nat \ {0} /\ f[n - 1] \in Seq(E)
            BY <1>1, <2>2
        <3>2. f[n] = step[n][f[n - 1]]
            BY <1>3, <3>1 DEF Rounds
        <3>. QED
            BY <3>1, <3>2
    <2>. QED
        BY <2>1, <2>2
<1>5. Keeps(s, S, f)
    BY <1>4 DEF Keeps
<1>6. \E kept : Keeps(s, S, kept)
    BY <1>5
<1>. DEFINE chosen == CHOOSE kept : Keeps(s, S, kept)
<1>7. Keeps(s, S, chosen)
    BY <1>6
<1>8. Selected(s, S) = chosen[Len(s)]
    BY DEF Selected, Keeps
<1>. QED
    BY <1>7, <1>8

\* What is kept of an empty sequence, and of one with an element more.
LEMMA SelectedEmpty == ASSUME NEW S PROVE Selected(<<>>, S) = <<>>
<1>1. <<>> \in Seq({}) /\ Len(<<>>) = 0
    OBVIOUS
<1>2. PICK kept : Keeps(<<>>, S, kept) /\ Selected(<<>>, S) = kept[0]
    BY <1>1, SelectedLoop
<1>. QED
    BY <1>1, <1>2 DEF Keeps

LEMMA SelectedAppend ==
    ASSUME NEW E, NEW s \in Seq(E), NEW e \in E, NEW S
    PROVE  Selected(Append(s, e), S) =
               IF e \in S THEN Append(Selected(s, S), e) ELSE Selected(s, S)
<1>. DEFINE n == Len(s)
            more == Append(s, e)
<1>1. /\ n \in Nat /\ more \in Seq(E) /\ Len(more) = n + 1 /\ more[n + 1] = e
      /\ \A i \in 1..n : more[i] = s[i]
    OBVIOUS
<1>2. PICK f : Keeps(s, S, f) /\ Selected(s, S) = f[n]
    BY SelectedLoop
<1>3. PICK g : Keeps(more, S, g) /\ Selected(more, S) = g[n + 1]
    <2>. HIDE DEF more
    <2>. QED
        BY <1>1, SelectedLoop
<1>. HIDE DEF n, more
<1>0. Len(s) = n
    BY DEF n
<1>4. \A i \in 0..n : g[i] = f[i]
    <2>0. n \in Nat /\ Len(more) = n + 1
        BY <1>1
    <2>1. f[0] = <<>> /\ g[0] = <<>>
        BY <1>0, <1>2, <1>3, <2>0, KeepsRounds
    <2>2. ASSUME NEW i \in 0..n, i < n, f[i] = g[i] PROVE f[i + 1] = g[i + 1]
        <3>1. i \in Nat /\ i + 1 \in 1..n /\ i < n + 1 /\ more[i + 1] = s[i + 1]
            BY <1>1, <2>2
        <3>2. f[i + 1] = IF s[i + 1] \in S THEN Append(f[i], s[i + 1]) ELSE f[i]
            BY <1>0, <1>2, <2>0, <2>2, <3>1, KeepsRounds
        <3>3. g[i + 1] = IF more[i + 1] \in S THEN Append(g[i], more[i + 1]) ELSE g[i]
            <4>1. i < Len(more) /\ Len(more) \in Nat
                BY <2>0, <3>1
            <4>2. Keeps(more, S, g)
                BY <1>3
            <4>. QED
                BY <3>1, <4>1, <4>2, KeepsRounds
        <3>. QED
            BY <2>2, <3>1, <3>2, <3>3
    <2>3. \A i \in 0..n : f[i] = g[i]
        BY ZenonT(60), <2>0, <2>1, <2>2, LoopsAgree
    <2>. QED
        BY <2>3
<1>5. g[n + 1] = IF e \in S THEN Append(g[n], e) ELSE g[n]
    <2>1. n + 1 \in 0..(n + 1) /\ n + 1 # 0 /\ (n + 1) - 1 = n
        BY <1>1
    <2>. QED
        BY <1>1, <1>3, <2>1 DEF Keeps
<1>. QED
    BY <1>1, <1>2, <1>3, <1>4, <1>5 DEF more

\* What is kept is a sequence of the same elements, of those in S, no longer
\* than the whole.
LEMMA SelectedTypes ==
    ASSUME NEW E, NEW S, NEW s \in Seq(E)
    PROVE  /\ Selected(s, S) \in Seq(E \cap S)
           /\ Len(Selected(s, S)) <= Len(s)
<1>. DEFINE T == {r \in Seq(E) :
                     Selected(r, S) \in Seq(E \cap S) /\ Len(Selected(r, S)) <= Len(r)}
<1>1. <<>> \in T
    <2>1. <<>> \in Seq(E) /\ <<>> \in Seq(E \cap S) /\ Len(<<>>) <= Len(<<>>)
        OBVIOUS
    <2>. QED
        BY <2>1, SelectedEmpty
<1>2. ASSUME NEW r \in T, NEW e \in E PROVE Append(r, e) \in T
    <2>1. r \in Seq(E) /\ Selected(r, S) \in Seq(E \cap S) /\ Len(Selected(r, S)) <= Len(r)
        OBVIOUS
    <2>2. Selected(Append(r, e), S) =
              IF e \in S THEN Append(Selected(r, S), e) ELSE Selected(r, S)
        BY <2>1, SelectedAppend
    <2>. DEFINE k == Selected(r, S)
    <2>3. /\ Append(r, e) \in Seq(E) /\ Len(Append(r, e)) = Len(r) + 1 /\ Len(r) \in Nat
          /\ Len(k) \in Nat
          /\ e \in S => Append(k, e) \in Seq(E \cap S) /\ Len(Append(k, e)) = Len(k) + 1
        <3>. HIDE DEF k
        <3>1. r \in Seq(E) /\ k \in Seq(E \cap S)
            BY <2>1 DEF k
        <3>. QED
            BY <3>1
    <2>4. CASE e \in S
        BY SMTT(60), <2>1, <2>2, <2>3, <2>4
    <2>5. CASE e \notin S
        BY <2>1, <2>2, <2>3, <2>5
    <2>. QED
        BY <2>4, <2>5
<1>. HIDE DEF T
<1>3. T = Seq(E)
    BY <1>1, <1>2, SequenceInduction DEF T
<1>. QED
    BY <1>3 DEF T

\* A sequence of elements that are all in S is kept whole.
LEMMA SelectedAll ==
    ASSUME NEW S, NEW s \in Seq(S)
    PROVE  Selected(s, S) = s
<1>. DEFINE T == {r \in Seq(S) : Selected(r, S) = r}
<1>1. <<>> \in T
    BY SelectedEmpty
<1>2. ASSUME NEW r \in T, NEW e \in S PROVE Append(r, e) \in T
    BY SelectedAppend
<1>. HIDE DEF T
<1>3. T = Seq(S)
    BY <1>1, <1>2, SequenceInduction DEF T
<1>. QED
    BY <1>3 DEF T
=============================================================================
