----------------------------- MODULE AuditProofs -----------------------------
(***************************************************************************)
(* Proofs about the audit log, as the logger writes it and as the dialogs  *)
(* of workloads fill it, and about those dialogs.                          *)
(***************************************************************************)
EXTENDS AuditLogger, Workloads, SequenceTheorems, TLAPS

-----------------------------------------------------------------------------
(***************************************************************************)
(* Theorems about the audit logger, for every capacity, batch size and     *)
(* number of entries.                                                      *)
(***************************************************************************)

\* Where worker and closer may stand together, and what the batch holds there.
Stages ==
    /\ worker \in {"write", "last"} => batch # <<>>
    /\ worker = "exited" => batch = <<>>
    /\ closer = "open" => worker \in {"collect", "write"}
    /\ closer \in {"flush", "closed"} => worker = "exited"

\* How long the batch can be before shutdown, and the mark taken by Close.
Lengths ==
    /\ worker = "collect" => Len(batch) < BatchSize
    /\ worker = "write" => Len(batch) <= BatchSize
    /\ mark <= Len(accepted)
    /\ CloseIsComplete

LoggerInv == TypeOK /\ OnceInOrder /\ Stages /\ Lengths
-----------------------------------------------------------------------------
\* Moving the head of one queue to the end of the queue before it leaves
\* their concatenation as it was.
LEMMA Handover ==
    ASSUME NEW S, NEW s \in Seq(S), NEW t \in Seq(S), t # <<>>
    PROVE  /\ Append(s, Head(t)) \o Tail(t) = s \o t
           /\ Append(s, Head(t)) \in Seq(S)
           /\ Tail(t) \in Seq(S)
           /\ Len(Tail(t)) = Len(t) - 1
           /\ Len(Append(s, Head(t))) = Len(s) + 1
           /\ Head(t) \in S
<1>1. Head(t) \in S /\ Tail(t) \in Seq(S) /\ Len(Tail(t)) = Len(t) - 1
  BY HeadTailProperties
<1>2. Append(s, Head(t)) \in Seq(S) /\ Len(Append(s, Head(t))) = Len(s) + 1
  BY <1>1, AppendProperties
<1>3. /\ Append(s, Head(t)) \o Tail(t) \in Seq(S)
      /\ s \o t \in Seq(S)
  BY <1>1, <1>2, ConcatProperties
<1>4. Len(Append(s, Head(t)) \o Tail(t)) = Len(s \o t)
  BY <1>1, <1>2, ConcatProperties, LenProperties
<1>5. ASSUME NEW i \in 1..Len(s \o t)
      PROVE  (Append(s, Head(t)) \o Tail(t))[i] = (s \o t)[i]
  <2>1. CASE i <= Len(s)
    BY <1>1, <1>2, <2>1, ConcatProperties, AppendProperties, LenProperties
  <2>2. CASE i = Len(s) + 1
    BY <1>1, <1>2, <2>2, ConcatProperties, AppendProperties, LenProperties, HeadTailProperties
  <2>3. CASE i > Len(s) + 1
    <3>1. (s \o t)[i] = t[i - Len(s)]
      BY <2>3, ConcatProperties, LenProperties
    <3>2. (Append(s, Head(t)) \o Tail(t))[i] = Tail(t)[i - (Len(s) + 1)]
      BY <1>1, <1>2, <1>4, <2>3, ConcatProperties, LenProperties
    <3>3. Tail(t)[i - (Len(s) + 1)] = t[i - Len(s)]
      BY <1>1, <2>3, HeadTailProperties, ConcatProperties, LenProperties
    <3>. QED  BY <3>1, <3>2, <3>3
  <2>. QED  BY <2>1, <2>2, <2>3, LenProperties
<1>. QED  BY <1>1, <1>2, <1>3, <1>4, <1>5, SeqEqual

\* Three queues in a row.
LEMMA Three ==
    ASSUME NEW S, NEW s \in Seq(S), NEW t \in Seq(S), NEW u \in Seq(S)
    PROVE  /\ s \o t \o u \in Seq(S)
           /\ (s \o t) \o u = s \o (t \o u)
           /\ Len(s \o t \o u) = Len(s) + Len(t) + Len(u)
<1>1. s \o t \in Seq(S) /\ Len(s \o t) = Len(s) + Len(t)
  BY ConcatProperties
<1>2. s \o t \o u \in Seq(S) /\ Len(s \o t \o u) = Len(s \o t) + Len(u)
  BY <1>1, ConcatProperties
<1>4. Len(s) \in Nat /\ Len(t) \in Nat /\ Len(u) \in Nat
  BY LenProperties
<1>5. Len(s \o t \o u) = Len(s) + Len(t) + Len(u)
  BY <1>1, <1>2, <1>4
<1>6. (s \o t) \o u = s \o (t \o u)
  BY ConcatAssociative
<1>. QED  BY <1>2, <1>5, <1>6

\* Queues of entries may be regrouped, and what is appended to the last one
\* is appended to the whole.
LEMMA Regroup ==
    /\ \A s, t, u \in Seq(Entry) : (s \o t) \o u = s \o (t \o u)
    /\ \A s, t \in Seq(Entry) : \A x \in Entry : Append(s \o t, x) = s \o Append(t, x)
    /\ \A s, t \in Seq(Entry) : s \o t \in Seq(Entry)
<1>1. ASSUME NEW s \in Seq(Entry), NEW t \in Seq(Entry), NEW u \in Seq(Entry)
      PROVE  (s \o t) \o u = s \o (t \o u)
  BY ConcatAssociative
<1>2. ASSUME NEW s \in Seq(Entry), NEW t \in Seq(Entry), NEW x \in Entry
      PROVE  Append(s \o t, x) = s \o Append(t, x)
  <2>1. <<x>> \in Seq(Entry) /\ s \o t \in Seq(Entry)
    BY ConcatProperties
  <2>2. Append(s \o t, x) = (s \o t) \o <<x>>
    BY <2>1, AppendIsConcat
  <2>3. Append(t, x) = t \o <<x>>
    BY AppendIsConcat
  <2>. QED  BY <2>1, <2>2, <2>3, ConcatAssociative
<1>3. ASSUME NEW s \in Seq(Entry), NEW t \in Seq(Entry)
      PROVE  s \o t \in Seq(Entry)
  BY ConcatProperties
<1>. QED  BY <1>1, <1>2, <1>3, Zenon

\* The number of entries taken is the number tried, collected and waiting.
LEMMA Count ==
    ASSUME TypeOK, OnceInOrder
    PROVE  /\ Len(accepted) = Len(written) + Len(batch) + Len(buffer)
           /\ Len(written) \in Nat /\ Len(batch) \in Nat /\ Len(buffer) \in Nat
BY Three, LenProperties DEF TypeOK, OnceInOrder
-----------------------------------------------------------------------------
(* The inductive invariant.                                                *)

LEMMA LoggerInitInv == AuditAssumption /\ Init => LoggerInv
<1>. SUFFICES ASSUME AuditAssumption, Init PROVE LoggerInv
  OBVIOUS
<1>1. <<>> \in Seq(Entry) /\ Len(<<>>) = 0 /\ <<>> \o <<>> \o <<>> = <<>>
  BY EmptySeq, ConcatEmptySeq
<1>2. TypeOK /\ OnceInOrder
  BY <1>1 DEF Init, TypeOK, OnceInOrder, AuditAssumption
<1>3. Stages
  BY DEF Init, Stages
<1>4. Lengths
  BY <1>1 DEF Init, Lengths, CloseIsComplete, AuditAssumption
<1>. QED  BY <1>2, <1>3, <1>4 DEF LoggerInv

\* Taking the head of the channel into the batch (Collect, Drain).
LEMMA TakeOK ==
    ASSUME AuditAssumption, LoggerInv, buffer # <<>>,
           batch' = Append(batch, Head(buffer)), buffer' = Tail(buffer),
           UNCHANGED <<written, accepted>>
    PROVE  /\ OnceInOrder'
           /\ batch' \in Seq(Entry) /\ Len(batch') = Len(batch) + 1 /\ batch' # <<>>
           /\ buffer' \in Seq(Entry) /\ Len(buffer') <= Capacity
<1>. USE DEF LoggerInv, TypeOK
<1>1. /\ batch' \o buffer' = batch \o buffer
      /\ batch' \in Seq(Entry) /\ Len(batch') = Len(batch) + 1
      /\ buffer' \in Seq(Entry) /\ Len(buffer') = Len(buffer) - 1
      /\ Len(buffer) \in Nat /\ Len(batch) \in Nat
  BY Handover, LenProperties
<1>2. OnceInOrder'
  <2>0. written \in Seq(Entry) /\ batch \in Seq(Entry) /\ buffer \in Seq(Entry)
    OBVIOUS
  <2>1. batch' \in Seq(Entry) /\ buffer' \in Seq(Entry)
    BY <1>1
  <2>. HIDE DEF LoggerInv, TypeOK
  <2>r. \A s, t, u \in Seq(Entry) : (s \o t) \o u = s \o (t \o u)
    BY Regroup, ZenonT(60)
  <2>2. (written \o batch) \o buffer = written \o (batch \o buffer)
    BY <2>0, <2>r, ZenonT(60)
  <2>6. (written \o batch') \o buffer' = written \o (batch' \o buffer')
    BY <2>0, <2>1, <2>r, ZenonT(60)
  <2>3. accepted = (written \o batch) \o buffer
    BY DEF LoggerInv, OnceInOrder
  <2>4. batch' \o buffer' = batch \o buffer /\ written' = written /\ accepted' = accepted
    BY <1>1
  <2>5. accepted' = (written' \o batch') \o buffer'
    BY <2>2, <2>6, <2>3, <2>4, ZenonT(60)
  <2>. QED  BY <2>5 DEF OnceInOrder
<1>3. batch' # <<>>
  BY <1>1, EmptySeq
<1>4. Len(buffer') <= Capacity
  BY <1>1 DEF AuditAssumption
<1>. QED  BY <1>1, <1>2, <1>3, <1>4

\* Trying to write the head of a queue that comes right after what was tried
\* (WriteEntry, with the rest of the channel behind; FlushEntry).
LEMMA TryOK ==
    ASSUME LoggerInv, NEW q \in Seq(Entry), q # <<>>, Create(Head(q))
    PROVE  /\ written' \in Seq(Entry)
           /\ failed' \subseteq Entry
           /\ Tail(q) \in Seq(Entry)
           /\ written' \o Tail(q) = written \o q
           /\ Len(written') = Len(written) + 1
BY ZenonT(60), Handover DEF LoggerInv, TypeOK, Create

LEMMA LoggerStep == ASSUME AuditAssumption, LoggerInv, [Next]_vars PROVE LoggerInv'
<1>. USE DEF LoggerInv
<1>0. /\ MaxEntries \in Nat /\ Capacity \in Nat \ {0} /\ BatchSize \in Nat \ {0}
      /\ Len(batch) \in Nat /\ Len(written) \in Nat /\ Len(accepted) \in Nat
      /\ mark \in Nat
  BY LenProperties DEF AuditAssumption, TypeOK
<1>1. CASE Log
  <2>1. logged' \in Entry /\ logged' \in 0..MaxEntries
    BY <1>0, <1>1 DEF Log, TypeOK, Entry
  <2>2. CASE Len(buffer) < Capacity
    <3>1. buffer' = Append(buffer, logged') /\ accepted' = Append(accepted, logged')
      BY <1>1, <2>2 DEF Log
    <3>2. /\ buffer' \in Seq(Entry) /\ Len(buffer') = Len(buffer) + 1
          /\ accepted' \in Seq(Entry) /\ Len(accepted') = Len(accepted) + 1
      BY <2>1, <3>1, AppendProperties DEF TypeOK
    <3>3. TypeOK'
      <4>1. Len(buffer) \in Nat
        BY LenProperties DEF TypeOK
      <4>2. Len(buffer') <= Capacity
        BY <1>0, <2>2, <3>2, <4>1
      <4>. QED  BY <1>1, <2>1, <3>2, <4>2 DEF Log, TypeOK
    <3>4. OnceInOrder'
      <4>1. written \in Seq(Entry) /\ batch \in Seq(Entry) /\ buffer \in Seq(Entry)
        BY DEF TypeOK
      <4>2. Append(written \o batch \o buffer, logged') = written \o batch \o Append(buffer, logged')
        <5>1. written \o batch \in Seq(Entry)
          BY <4>1, Regroup, Zenon
        <5>2. \A s, t \in Seq(Entry) : \A x \in Entry : Append(s \o t, x) = s \o Append(t, x)
          BY Regroup, Zenon
        <5>. QED  BY <2>1, <4>1, <5>1, <5>2, Zenon
      <4>3. accepted' = Append(written \o batch \o buffer, logged')
        BY <3>1 DEF OnceInOrder
      <4>4. written' = written /\ batch' = batch
        BY <1>1 DEF Log
      <4>. QED  BY <3>1, <4>2, <4>3, <4>4, Zenon DEF OnceInOrder
    <3>5. Stages' /\ Lengths'
      BY <1>0, <1>1, <3>2 DEF Log, Stages, Lengths, CloseIsComplete
    <3>. QED  BY <3>3, <3>4, <3>5
  <2>3. CASE ~(Len(buffer) < Capacity)
    BY <1>1, <2>1, <2>3 DEF Log, TypeOK, OnceInOrder, Stages, Lengths, CloseIsComplete
  <2>. QED  BY <2>2, <2>3
<1>2. CASE Collect
  <2>1. /\ OnceInOrder'
        /\ batch' \in Seq(Entry) /\ Len(batch') = Len(batch) + 1 /\ batch' # <<>>
        /\ buffer' \in Seq(Entry) /\ Len(buffer') <= Capacity
    BY <1>2, TakeOK DEF Collect
  <2>2. TypeOK'
    BY <1>2, <2>1 DEF Collect, TypeOK
  <2>3. Stages'
    BY <1>2, <2>1 DEF Collect, Stages
  <2>4. Lengths'
    BY <1>0, <1>2, <2>1 DEF Collect, Lengths, CloseIsComplete
  <2>. QED  BY <2>1, <2>2, <2>3, <2>4
<1>3. CASE FlushTick
  BY <1>0, <1>3 DEF FlushTick, TypeOK, OnceInOrder, Stages, Lengths, CloseIsComplete
<1>4. CASE WriteEntry
  <2>1. batch # <<>> /\ batch \in Seq(Entry) /\ buffer \in Seq(Entry) /\ written \in Seq(Entry)
    BY <1>4 DEF WriteEntry, Stages, TypeOK
  <2>2. Create(Head(batch)) /\ batch' = Tail(batch)
    BY <1>4 DEF WriteEntry
  <2>3. /\ written' \in Seq(Entry) /\ failed' \subseteq Entry /\ batch' \in Seq(Entry)
        /\ written' \o batch' = written \o batch
        /\ Len(written') = Len(written) + 1
    BY <2>1, <2>2, TryOK
  <2>4. Len(batch') = Len(batch) - 1 /\ (batch' = <<>> <=> ~(Len(batch) > 1))
    <3>1. Len(batch') = Len(batch) - 1
      BY <2>1, <2>2, HeadTailProperties
    <3>2. batch' = <<>> => Len(batch') = 0
      BY EmptySeq
    <3>3. batch' # <<>> => Len(batch') \in Nat \ {0}
      BY <2>3, EmptySeq
    <3>. QED  BY <1>0, <3>1, <3>2, <3>3
  <2>5. TypeOK'
    BY <1>4, <2>3 DEF WriteEntry, TypeOK
  <2>6. OnceInOrder'
    BY <1>4, <2>3 DEF WriteEntry, OnceInOrder
  <2>7. Stages'
    BY <1>4, <2>4 DEF WriteEntry, Stages
  <2>8. Lengths'
    BY <1>0, <1>4, <2>3, <2>4 DEF WriteEntry, Lengths, CloseIsComplete
  <2>. QED  BY <2>5, <2>6, <2>7, <2>8
<1>5. CASE SeeDone
  BY <1>0, <1>5 DEF SeeDone, Done, TypeOK, OnceInOrder, Stages, Lengths, CloseIsComplete
<1>6. CASE Drain
  <2>1. /\ OnceInOrder'
        /\ batch' \in Seq(Entry) /\ Len(batch') = Len(batch) + 1 /\ batch' # <<>>
        /\ buffer' \in Seq(Entry) /\ Len(buffer') <= Capacity
    BY <1>6, TakeOK DEF Drain
  <2>. QED  BY <1>0, <1>6, <2>1 DEF Drain, TypeOK, Stages, Lengths, CloseIsComplete
<1>7. CASE DrainEnd
  BY <1>0, <1>7 DEF DrainEnd, TypeOK, OnceInOrder, Stages, Lengths, CloseIsComplete
<1>8. CASE Close
  BY <1>0, <1>8 DEF Close, TypeOK, OnceInOrder, Stages, Lengths, CloseIsComplete
<1>9. CASE Join
  BY <1>0, <1>9 DEF Join, TypeOK, OnceInOrder, Stages, Lengths, CloseIsComplete
<1>10. CASE FlushEntry
  <2>1. batch = <<>> /\ buffer # <<>> /\ buffer \in Seq(Entry) /\ written \in Seq(Entry)
    BY <1>10 DEF FlushEntry, Stages, TypeOK
  <2>2. Create(Head(buffer)) /\ buffer' = Tail(buffer)
    BY <1>10 DEF FlushEntry
  <2>3. /\ written' \in Seq(Entry) /\ failed' \subseteq Entry /\ buffer' \in Seq(Entry)
        /\ written' \o buffer' = written \o buffer
        /\ Len(written') = Len(written) + 1
        /\ Len(buffer') = Len(buffer) - 1
    BY <2>1, <2>2, TryOK, HeadTailProperties
  <2>4. TypeOK'
    <3>1. Len(buffer) \in Nat
      BY <2>1, LenProperties
    <3>2. Len(buffer') <= Capacity
      BY <1>0, <2>3, <3>1 DEF TypeOK
    <3>. QED  BY <1>10, <2>3, <3>2 DEF FlushEntry, TypeOK
  <2>5. OnceInOrder'
    <3>1. batch' = <<>> /\ written' \o <<>> = written' /\ written \o <<>> = written
      BY <1>10, <2>1, <2>3, ConcatEmptySeq DEF FlushEntry
    <3>. QED  BY <1>10, <2>1, <2>3, <3>1 DEF FlushEntry, OnceInOrder
  <2>6. Stages' /\ Lengths'
    BY <1>0, <1>10, <2>3 DEF FlushEntry, Stages, Lengths, CloseIsComplete
  <2>. QED  BY <2>4, <2>5, <2>6
<1>11. CASE FlushEnd
  <2>1. Len(written) = Len(accepted)
    <3>1. batch = <<>> /\ buffer = <<>>
      BY <1>11 DEF FlushEnd, Stages
    <3>. QED  BY <1>0, <3>1, Count, EmptySeq
  <2>. QED  BY <1>0, <1>11, <2>1 DEF FlushEnd, TypeOK, OnceInOrder, Stages, Lengths, CloseIsComplete
<1>12. CASE UNCHANGED vars
  BY <1>12 DEF vars, TypeOK, OnceInOrder, Stages, Lengths, CloseIsComplete
<1>. QED
  BY <1>1, <1>2, <1>3, <1>4, <1>5, <1>6, <1>7, <1>8, <1>9, <1>10, <1>11, <1>12 DEF Next, Work

\* The invariant holds in every reachable state.
THEOREM LoggerInvariant == AuditAssumption /\ Spec => []LoggerInv
<1>. SUFFICES ASSUME AuditAssumption PROVE Spec => []LoggerInv
  OBVIOUS
<1>1. Init => LoggerInv
  BY LoggerInitInv
<1>2. LoggerInv /\ [Next]_vars => LoggerInv'
  BY LoggerStep
<1>. QED  BY <1>1, <1>2, PTL DEF Spec
-----------------------------------------------------------------------------
(* What follows from it.                                                   *)

\* The channel, the worker and Close never lose, repeat or reorder an entry.
THEOREM OrderTheorem == AuditAssumption /\ Spec => []OnceInOrder
<1>1. LoggerInv => OnceInOrder
  BY DEF LoggerInv
<1>. QED  BY <1>1, LoggerInvariant, PTL

\* When Close has returned, all that was taken before it was called is tried.
THEOREM CloseTheorem == AuditAssumption /\ Spec => []CloseIsComplete
<1>1. LoggerInv => CloseIsComplete
  BY DEF LoggerInv, Lengths
<1>. QED  BY <1>1, LoggerInvariant, PTL

\* Before shutdown at most a channel and a batch of entries are waiting.
THEOREM LossTheorem == AuditAssumption /\ Spec => []BoundedLoss
<1>. SUFFICES ASSUME AuditAssumption PROVE Spec => []BoundedLoss
  OBVIOUS
<1>1. LoggerInv => BoundedLoss
  <2>. SUFFICES ASSUME LoggerInv, closer = "open"
                PROVE  Len(accepted) - Len(written) <= Capacity + BatchSize
    BY DEF BoundedLoss
  <2>1. Len(batch) <= BatchSize /\ Len(buffer) <= Capacity
    BY LenProperties DEF LoggerInv, TypeOK, Stages, Lengths, AuditAssumption
  <2>. QED  BY <2>1, Count DEF LoggerInv, AuditAssumption
<1>. QED  BY <1>1, LoggerInvariant, PTL

\* Every reachable state is well typed.
THEOREM LoggerTypeTheorem == AuditAssumption /\ Spec => []TypeOK
<1>1. LoggerInv => TypeOK
  BY DEF LoggerInv
<1>. QED  BY <1>1, LoggerInvariant, PTL
-----------------------------------------------------------------------------
(* The work that is left: why shutdown cannot go on for ever.              *)

\* How far the worker and Close are from their ends, in steps.
Ahead(w) == IF w = "collect" THEN 3 ELSE IF w \in {"write", "drain"} THEN 2
            ELSE IF w = "last" THEN 1 ELSE 0
ToDo(c) == IF c = "open" THEN 3 ELSE IF c = "wait" THEN 2
           ELSE IF c = "flush" THEN 1 ELSE 0

\* An entry in the channel is taken, collected and tried; one in the batch may
\* still need the worker to start writing.
Left == 3 * Len(buffer) + 2 * Len(batch) + Ahead(worker) + ToDo(closer)

\* Every step of the worker and of Close leaves less to do, and a call of Log
\* adds three steps at most: once nobody logs any more, the worker and Close
\* come to their end within Left steps (worker, writeBatch, Close, Flush).
WorkShrinks == [][/\ Left \in Nat /\ Left' \in Nat
                  /\ Left' <= Left + 3
                  /\ logged' = logged => Left' < Left]_vars

LEMMA LeftIs ==
    ASSUME LoggerInv
    PROVE  /\ Len(buffer) \in Nat /\ Len(batch) \in Nat
           /\ Ahead(worker) \in 0..3 /\ ToDo(closer) \in 0..3
BY LenProperties DEF LoggerInv, TypeOK, Ahead, ToDo

\* Only calls of Log can keep the logger working.
THEOREM EndsTheorem == AuditAssumption /\ Spec => WorkShrinks
<1>. SUFFICES ASSUME AuditAssumption PROVE Spec => WorkShrinks
  OBVIOUS
<1>1. LoggerInv /\ LoggerInv' /\ [Next]_vars
          => [/\ Left \in Nat /\ Left' \in Nat
              /\ Left' <= Left + 3
              /\ logged' = logged => Left' < Left]_vars
  <2>. SUFFICES ASSUME LoggerInv, LoggerInv', Next
                PROVE  /\ Left \in Nat /\ Left' \in Nat
                       /\ Left' <= Left + 3
                       /\ logged' = logged => Left' < Left
    BY Zenon
  <2>. DEFINE k == Len(buffer)   n == Len(batch)   a == Ahead(worker)   c == ToDo(closer)
              l == Len(buffer')  m == Len(batch')  b == Ahead(worker')  d == ToDo(closer')
  <2>1. /\ k \in Nat /\ n \in Nat /\ a \in Nat /\ c \in Nat
        /\ l \in Nat /\ m \in Nat /\ b \in Nat /\ d \in Nat
    <3>1. LoggerInv' => /\ Len(buffer') \in Nat /\ Len(batch') \in Nat
                        /\ Ahead(worker') \in 0..3 /\ ToDo(closer') \in 0..3
      BY LenProperties DEF LoggerInv, TypeOK, Ahead, ToDo
    <3>. QED  BY <3>1, LeftIs
  <2>0. /\ Left \in Nat /\ Left' \in Nat
        /\ l <= k + 1 /\ m = n /\ b = a /\ d = c => Left' <= Left + 3
        /\ l = k - 1 /\ (m = n + 1 \/ m = n) /\ b <= a /\ d = c => Left' < Left
        /\ l = k /\ m = n - 1 /\ b <= a + 1 /\ d = c => Left' < Left
        /\ l = k /\ m = n /\ ((b < a /\ d = c) \/ (b = a /\ d < c)) => Left' < Left
    <3>1. Left = 3 * k + 2 * n + a + c /\ Left' = 3 * l + 2 * m + b + d
      BY DEF Left
    <3>. HIDE DEF k, n, a, c, l, m, b, d
    <3>2. /\ l = k - 1 => 3 * l = 3 * k - 3
          /\ l <= k + 1 => 3 * l <= 3 * k + 3
          /\ m = n + 1 => 2 * m = 2 * n + 2
          /\ m = n - 1 => 2 * m = 2 * n - 2
      BY <2>1
    <3>. QED  BY <2>1, <3>1, <3>2
  <2>. SUFFICES Left' < Left \/ (logged' # logged /\ Left' <= Left + 3)
    BY <2>0
  <2>2. buffer \in Seq(Entry) /\ batch \in Seq(Entry)
    BY DEF LoggerInv, TypeOK
  <2>3. buffer # <<>> => Len(Tail(buffer)) = k - 1 /\ Len(Append(batch, Head(buffer))) = n + 1
    BY <2>2, Handover
  <2>4. batch # <<>> => Len(Tail(batch)) = n - 1
    BY <2>2, HeadTailProperties
  <2>5. CASE Log
    <3>1. logged' # logged /\ worker' = worker /\ closer' = closer /\ batch' = batch
      BY <2>5 DEF Log, LoggerInv, TypeOK
    <3>2. Len(buffer') <= k + 1
      BY <2>1, <2>2, <2>5, AppendProperties DEF Log
    <3>. QED  BY <2>0, <3>1, <3>2
  <2>6. CASE Collect \/ Drain
    <3>1. /\ Len(buffer') = k - 1 /\ Len(batch') = n + 1 /\ closer' = closer
          /\ Ahead(worker') <= Ahead(worker)
      BY <2>3, <2>6 DEF Collect, Drain, Ahead
    <3>. QED  BY <2>0, <3>1
  <2>7. CASE FlushTick \/ SeeDone \/ DrainEnd
    <3>1. buffer' = buffer /\ batch' = batch /\ closer' = closer /\ Ahead(worker') < Ahead(worker)
      BY <2>7 DEF FlushTick, SeeDone, DrainEnd, Ahead
    <3>2. l = k /\ m = n /\ b < a /\ d = c
      BY <3>1
    <3>. HIDE DEF k, n, a, c, l, m, b, d
    <3>. QED  BY <2>0, <3>2
  <2>8. CASE WriteEntry
    <3>1. batch # <<>>
      BY <2>8 DEF WriteEntry, LoggerInv, Stages
    <3>2. /\ buffer' = buffer /\ Len(batch') = n - 1 /\ closer' = closer
          /\ Ahead(worker') <= Ahead(worker) + 1
      BY <2>4, <2>8, <3>1 DEF WriteEntry, Ahead
    <3>. QED  BY <2>0, <3>2
  <2>9. CASE Close \/ Join \/ FlushEnd
    <3>1. buffer' = buffer /\ batch' = batch /\ worker' = worker /\ ToDo(closer') < ToDo(closer)
      BY <2>9 DEF Close, Join, FlushEnd, ToDo
    <3>. QED  BY <2>0, <3>1
  <2>10. CASE FlushEntry
    <3>1. Len(buffer') = k - 1 /\ batch' = batch /\ worker' = worker /\ closer' = closer
      BY <2>3, <2>10 DEF FlushEntry
    <3>. QED  BY <2>0, <2>1, <3>1
  <2>. QED  BY <2>5, <2>6, <2>7, <2>8, <2>9, <2>10 DEF Next, Work
<1>. QED  BY <1>1, LoggerInvariant, PTL DEF Spec, WorkShrinks

-----------------------------------------------------------------------------
(***************************************************************************)
(* Proofs about modules Workloads and Dialogs, for any users, clusters,    *)
(* namespaces, workloads and handlers.                                     *)
(*                                                                         *)
(* The audit log: a handler that is about to log a success has made its    *)
(* change, and every change is logged, about to be logged, lost with its   *)
(* process or a rollback that reported an error.                           *)
(*                                                                         *)
(* The taps: every button carries what it stands for where its handlers    *)
(* look for it, and where they ask the context of the Kubernetes module    *)
(* instead, that is always the default cluster.                            *)
(***************************************************************************)

(* The audit log of the changes.                                           *)

\* A handler that is about to log a success has made its change, and whoever
\* is at work is at an attempt.
Handlers ==
    /\ attempts \in Nat
    /\ DOMAIN job = Handler
    /\ \A h \in Handler :
           /\ job[h].ok \in BOOLEAN
           /\ job[h].at # "idle" => job[h].id # 0
           /\ job[h].at = "audit" /\ job[h].ok => job[h].id \in changed
           /\ job[h].at = "rolled" => job[h].ok /\ job[h].id \in changed

TrailInv == Handlers /\ TrailTells

\* The changes that are logged, lost or not heard of, or about to be logged.
Told(c) ==
    \/ \E e \in trail : e.id = c
    \/ \E h \in Handler : job[h].at \in {"audit", "rolled"} /\ job[h].id = c
    \/ c \in lost \cup unheard

LEMMA TrailTellsIs ==
    TrailTells <=> /\ \A e \in trail : e.status = "success" => e.id \in changed
                   /\ \A c \in changed : Told(c)
BY DEF TrailTells, Told

\* One handler goes on, and of the log, the changes and the losses none is
\* taken back.
LEMMA HandlerKept ==
    ASSUME TrailInv, NEW h \in Handler, NEW j, job' = [job EXCEPT ![h] = j],
           attempts' \in Nat, j.ok \in BOOLEAN, j.at # "idle" => j.id # 0,
           j.at = "audit" /\ j.ok => j.id \in changed',
           j.at = "rolled" => j.ok /\ j.id \in changed',
           changed \subseteq changed', trail \subseteq trail', lost \subseteq lost',
           unheard \subseteq unheard',
           \A e \in trail' : e \in trail \/ (e.status = "success" => e.id \in changed'),
           \A c \in changed' \ changed : Told(c)',
           \A c : job[h].at \in {"audit", "rolled"} /\ c = job[h].id => Told(c)'
    PROVE  TrailInv'
<1>1. /\ DOMAIN job' = Handler /\ job'[h] = j
      /\ \A g \in Handler \ {h} : job'[g] = job[g]
    BY DEF TrailInv, Handlers
<1>2. Handlers'
    BY <1>1 DEF TrailInv, Handlers
<1>3. \A c \in changed : Told(c) => Told(c)'
    BY <1>1 DEF Told
<1>4. \A e \in trail' : e.status = "success" => e.id \in changed'
    BY TrailTellsIs DEF TrailInv
<1>5. \A c \in changed' : Told(c)'
    BY <1>3, TrailTellsIs DEF TrailInv
<1>6. TrailTells'
    BY <1>4, <1>5 DEF TrailTells, Told
<1>. QED
    BY <1>2, <1>6 DEF TrailInv

LEMMA BeginKept ==
    ASSUME TrailInv, NEW h \in Handler, NEW at \in {"scale", "rollback"}, NEW b, Begin(h, at, b),
           UNCHANGED history
    PROVE  TrailInv'
<1>. DEFINE j == [at |-> at, id |-> attempts + 1, data |-> Data(b), ok |-> FALSE]
<1>1. job' = [job EXCEPT ![h] = j] /\ attempts' = attempts + 1 /\ attempts \in Nat
    BY DEF Begin, TrailInv, Handlers
<1>2. UNCHANGED <<changed, unheard, lost, trail>> /\ job[h].at = "idle"
    BY DEF history, Begin, Idle
<1>3. /\ j.ok \in BOOLEAN /\ j.id # 0 /\ j.at # "audit" /\ j.at # "rolled"
      /\ attempts' \in Nat
    BY <1>1
<1>. HIDE DEF j
<1>4. job' = [job EXCEPT ![h] = j] /\ job[h].at \notin {"audit", "rolled"}
    BY <1>1, <1>2
<1>5. \A e \in trail' : e \in trail
    BY <1>2
<1>. QED
    BY <1>2, <1>3, <1>4, <1>5, HandlerKept

LEMMA UpdateScaleKept ==
    ASSUME TrailInv, NEW h \in Handler, UpdateScale(h) PROVE TrailInv'
<1>1. PICK happens \in BOOLEAN, ok \in BOOLEAN :
          (ok => happens) /\ Outcome(h, "audit", happens, ok)
    BY DEF UpdateScale
<1>. DEFINE j == At(h, "audit", ok)
<1>2. /\ job' = [job EXCEPT ![h] = j] /\ job[h].at = "scale"
      /\ changed' = IF happens THEN changed \cup {job[h].id} ELSE changed
      /\ UNCHANGED <<attempts, lost, trail, unheard>>
    BY <1>1 DEF Outcome, UpdateScale
<1>3. j.ok = ok /\ j.id = job[h].id /\ j.at = "audit"
    BY DEF At
<1>. HIDE DEF j
<1>4. attempts \in Nat /\ job'[h] = j /\ job[h].id # 0
    BY <1>2 DEF TrailInv, Handlers
<1>5. \A c \in changed' \ changed : Told(c)'
    BY <1>2, <1>3, <1>4 DEF Told
<1>. QED
    BY <1>1, <1>2, <1>3, <1>4, <1>5, HandlerKept

LEMMA AuditScaleKept ==
    ASSUME TrailInv, NEW h \in Handler, AuditScale(h) PROVE TrailInv'
<1>. DEFINE j == IF job[h].ok THEN At(h, "watch", TRUE) ELSE Idle
            e == [id |-> job[h].id, status |-> IF job[h].ok THEN "success" ELSE "error"]
<1>1. /\ job' = [job EXCEPT ![h] = j] /\ job[h].at = "audit" /\ trail' = trail \cup {e}
      /\ UNCHANGED <<attempts, changed, unheard, lost>>
    BY DEF AuditScale, Entries
<1>2. /\ attempts \in Nat /\ job[h].ok \in BOOLEAN /\ job[h].id # 0
      /\ job[h].ok => job[h].id \in changed
    BY <1>1 DEF TrailInv, Handlers
<1>3. j.ok \in BOOLEAN /\ j.at \in {"watch", "idle"} /\ (j.at # "idle" => j.id # 0)
    BY <1>2 DEF At, Idle
<1>4. e.id = job[h].id /\ (e.status = "success" => job[h].ok)
    BY <1>2
<1>. HIDE DEF j, e
<1>5. \A c : c = job[h].id => Told(c)'
    BY <1>1, <1>4 DEF Told
<1>. QED
    BY <1>1, <1>2, <1>3, <1>4, <1>5, HandlerKept

LEMMA RolloutWatchedKept ==
    ASSUME TrailInv, NEW h \in Handler, RolloutWatched(h) PROVE TrailInv'
<1>1. /\ job' = [job EXCEPT ![h] = Idle] /\ job[h].at = "watch"
      /\ UNCHANGED <<attempts, changed, unheard, lost, trail>>
    BY DEF RolloutWatched, history
<1>2. Idle.ok = FALSE /\ Idle.at = "idle" /\ attempts \in Nat
    BY DEF Idle, TrailInv, Handlers
<1>. QED
    BY <1>1, <1>2, HandlerKept

LEMMA RollbackKept ==
    ASSUME TrailInv, NEW h \in Handler, Rollback(h) PROVE TrailInv'
<1>1. PICK happens \in BOOLEAN, ok \in BOOLEAN :
          /\ (ok => happens) /\ Outcome(h, IF ok THEN "rolled" ELSE "failed", happens, ok)
          /\ unheard' = IF happens /\ ~ok THEN unheard \cup {job[h].id} ELSE unheard
    BY DEF Rollback
<1>. DEFINE at == IF ok THEN "rolled" ELSE "failed"
            j == At(h, at, ok)
<1>2. /\ job' = [job EXCEPT ![h] = j] /\ job[h].at = "rollback"
      /\ changed' = IF happens THEN changed \cup {job[h].id} ELSE changed
      /\ UNCHANGED <<attempts, lost, trail>>
    BY <1>1 DEF Outcome, Rollback
<1>3. /\ j.ok = ok /\ j.id = job[h].id
      /\ (ok => j.at = "rolled") /\ (~ok => j.at = "failed")
    BY DEF At
<1>. HIDE DEF j
<1>4. attempts \in Nat /\ job'[h] = j /\ job[h].id # 0
    BY <1>2 DEF TrailInv, Handlers
<1>5. \A c \in changed' \ changed : Told(c)'
    BY <1>1, <1>2, <1>3, <1>4 DEF Told
<1>. QED
    BY <1>1, <1>2, <1>3, <1>4, <1>5, HandlerKept

LEMMA RolledKept ==
    ASSUME TrailInv, NEW h \in Handler, Rolled(h) PROVE TrailInv'
<1>. DEFINE e == [id |-> job[h].id, status |-> IF job[h].ok THEN "success" ELSE "error"]
<1>1. /\ job' = [job EXCEPT ![h] = Idle] /\ job[h].at \in {"rolled", "failed"}
      /\ trail' = IF job[h].at = "rolled" THEN trail \cup {e} ELSE trail
      /\ UNCHANGED <<attempts, changed, unheard, lost>>
    BY DEF Rolled, Entries
<1>2. Idle.ok = FALSE /\ Idle.at = "idle" /\ attempts \in Nat
    BY DEF Idle, TrailInv, Handlers
<1>3. e.id = job[h].id /\ (job[h].at = "rolled" => job[h].id \in changed)
    BY DEF TrailInv, Handlers
<1>. HIDE DEF e
<1>4. \A c : job[h].at = "rolled" /\ c = job[h].id => Told(c)'
    BY <1>1, <1>3 DEF Told
<1>. QED
    BY <1>1, <1>2, <1>3, <1>4, HandlerKept

LEMMA CrashKept == ASSUME TrailInv, Crash PROVE TrailInv'
<1>1. /\ job' = [h \in Handler |-> Idle]
      /\ lost' = lost \cup ({job[h].id : h \in Handler} \ {0})
      /\ UNCHANGED <<attempts, changed, unheard, trail>>
    BY DEF Crash
<1>2. Handlers'
    BY <1>1 DEF TrailInv, Handlers, Idle
<1>3. \A c \in changed : Told(c) => Told(c)'
    BY <1>1 DEF Told, TrailInv, Handlers
<1>4. \A e \in trail' : e.status = "success" => e.id \in changed'
    BY <1>1, TrailTellsIs DEF TrailInv
<1>5. \A c \in changed' : Told(c)'
    BY <1>1, <1>3, TrailTellsIs DEF TrailInv
<1>6. TrailTells'
    BY <1>4, <1>5 DEF TrailTells, Told
<1>. QED
    BY <1>2, <1>6 DEF TrailInv

LEMMA TrailKept == ASSUME TrailInv, [Working]_workloads PROVE TrailInv'
<1>1. CASE UNCHANGED <<job, attempts, history>>
    BY <1>1 DEF TrailInv, Handlers, TrailTells, history
<1>2. ASSUME Calm \/ UNCHANGED workloads PROVE TrailInv'
    BY <1>1, <1>2 DEF Calm, workloads
<1>3. ASSUME NEW h \in Handler, Handled(h) PROVE TrailInv'
    <2>1. CASE ScaleConfirm(h)
        <3>1. UNCHANGED history /\ (UNCHANGED <<job, attempts>> \/ \E b : Begin(h, "scale", b))
            BY <2>1 DEF ScaleConfirm
        <3>. QED
            BY <1>1, <3>1, BeginKept
    <2>2. CASE RollbackConfirm(h)
        <3>1. UNCHANGED history /\ \E b : Begin(h, "rollback", b)
            BY <2>2 DEF RollbackConfirm
        <3>. QED
            BY <3>1, BeginKept
    <2>3. CASE Report(h)
        BY <1>1, <2>3 DEF Report
    <2>. QED
        BY <1>3, <2>1, <2>2, <2>3, UpdateScaleKept, AuditScaleKept, RolloutWatchedKept,
           RollbackKept, RolledKept DEF Handled
<1>. QED
    BY <1>2, <1>3, CrashKept DEF Working

\* The audit log tells what became of the workloads.
THEOREM AuditTells == WorkloadsSpec => []TrailTells
<1>1. WorkloadsInit => TrailInv
    <2>. SUFFICES ASSUME WorkloadsInit PROVE TrailInv
        OBVIOUS
    <2>1. Idle.ok = FALSE /\ Idle.at = "idle"
        BY DEF Idle
    <2>2. /\ job = [h \in Handler |-> Idle] /\ attempts = 0 /\ changed = {} /\ trail = {}
        BY DEF WorkloadsInit
    <2>. QED
        BY <2>1, <2>2 DEF TrailInv, Handlers, TrailTells
<1>2. TrailInv /\ [Working]_workloads => TrailInv'
    BY TrailKept
<1>3. TrailInv => TrailTells
    BY DEF TrailInv
<1>. QED
    BY <1>1, <1>2, <1>3, PTL DEF WorkloadsSpec

-----------------------------------------------------------------------------
(* The buttons.                                                            *)

\* What a button carries is what it stands for: where its handlers look for the
\* cluster and the namespace they find its own.  Where the handler asks the
\* context instead, that is the button's cluster too.
Said(b) ==
    /\ b.of # "helm" => b.cluster = Default
    /\ b.to = "ns" /\ b.of # "helm" /\ Len(b.data) = 1 => b.data[1] = b.ns
    /\ b.to \in {"back", "again"} \/ b.of \in {"nodes", "spaces"} => b.ns = None
    /\ b.to = "back" => b.data[2] = b.cluster
    /\ b.of = "spaces" => Len(b.data) = 1 /\ b.data[1] = b.cluster
    /\ b.of \in Lists /\ b.to \in {"page", "refresh"} => b.data[1] = b.ns /\ b.data[2] = b.cluster
    /\ b.of = "pod" => b.data[2] = b.ns /\ b.data[3] = b.cluster
    /\ b.of = "scale" /\ b.to \in {"detail", "cancel", "set"} =>
           b.data[3] = b.ns /\ b.data[4] = b.cluster
    /\ b.of = "helm" => b.data[1] = b.cluster /\ b.data[2] = b.ns

AllSaid(m) == \A b \in m : Said(b)

\* The Kubernetes module's context is never written.
Unwritten ==
    /\ selected \in [{"bot", "k8s"} -> [User -> Cluster \cup {None}]]
    /\ \A u \in User : selected["k8s"][u] = None

ActsInv ==
    /\ AllSaid(menu)
    /\ Unwritten
    /\ spaces \in [Cluster -> SUBSET Namespace]
    /\ ActsAsSaid

\* A handler finds the button's data, or a name of nothing.
LEMMA Found ==
    ASSUME NEW b
    PROVE  /\ Data(b) = b.data \/ Data(b) = <<NoName>>
           /\ Len(Data(b)) # 1 => Data(b) = b.data
BY DEF Data

LEMMA WholeFound ==
    ASSUME NEW b
    PROVE  Whole(Data(b)) = NoName \/ (Len(b.data) = 1 /\ Whole(Data(b)) = b.data[1])
BY Found DEF Whole

LEMMA SelectorSaid ==
    ASSUME NEW of \in Lists \cup {"scale"}, NEW names PROVE AllSaid(NamespaceSelector(of, Default, names))
<1>1. ASSUME NEW n PROVE Said(Btn(of, "ns", <<n>>, Default, n))
    BY DEF Said, Btn, Lists
<1>. QED
    BY <1>1 DEF AllSaid, NamespaceSelector

LEMMA PodButtonSaid ==
    ASSUME NEW to, to \notin {"ns", "back", "again"}, NEW d, NEW n, d[2] = n, d[3] = Default
    PROVE  Said(Btn("pod", to, d, Default, n))
BY DEF Said, Btn, Lists

LEMMA PodMenusSaid ==
    ASSUME NEW n
    PROVE  /\ AllSaid(PodActions(Default, n)) /\ AllSaid(EventActions(Default, n))
           /\ AllSaid(ContainerSelector(Default, n)) /\ AllSaid(RestartQuestion(Default, n))
           /\ \A tail : AllSaid(LogActions(Default, n, tail))
<1>1. \A to \in {"logs", "events", "detail", "restart", "confirm", "cancel"} :
          Said(Btn("pod", to, <<Pod, n, Default>>, Default, n))
    BY PodButtonSaid
<1>2. \A to \in {"container", "previous"} :
          Said(Btn("pod", to, <<Pod, n, Default, Container>>, Default, n))
    BY PodButtonSaid
<1>3. \A t : Said(Btn("pod", "more", <<Pod, n, Default, Container, t>>, Default, n))
    BY PodButtonSaid
<1>4. Said(Btn("pods", "back", <<n, Default>>, Default, None))
    BY DEF Said, Btn, Lists
<1>. QED
    BY <1>1, <1>2, <1>3, <1>4
    DEF AllSaid, PodActions, EventActions, ContainerSelector, RestartQuestion, LogActions

LEMMA ListMenusSaid ==
    ASSUME NEW of \in Lists, NEW n, NEW i PROVE AllSaid(ListMenu(of, Default, n, i))
<1>1. \A f \in Lists : \A j : Said(Btn(f, "page", <<n, Default, j>>, Default, n))
    BY DEF Said, Btn, Lists
<1>2. \A m : Said(Btn("pod", "detail", <<Pod, m, Default>>, Default, m))
    BY PodButtonSaid
<1>3. \A f \in Lists : Said(Btn(f, "refresh", <<n, Default>>, Default, n))
    BY DEF Said, Btn, Lists
<1>4. Said(Btn("nodes", "refresh", <<Default>>, Default, None))
    BY DEF Said, Btn, Lists
<1>5. Said(Btn("quota", "again", <<Default>>, Default, None))
    BY DEF Said, Btn, Lists
<1>6. AllSaid(Paginator("pods", Default, n, i)) /\ AllSaid(Paginator("top", Default, n, i))
    BY <1>1 DEF AllSaid, Paginator, Lists
<1>7. AllSaid(PodsMenu(Default, n, i))
    BY <1>2, <1>6 DEF AllSaid, PodsMenu, PodButtons
<1>8. AllSaid(TopMenu(Default, n, i))
    BY <1>4, <1>6 DEF AllSaid, TopMenu
<1>9. AllSaid(QuotaMenu(Default, n))
    BY <1>3, <1>5 DEF AllSaid, QuotaMenu, Lists
<1>10. AllSaid(DeploysMenu(Default, n)) /\ AllSaid(CronJobsMenu(Default, n))
    BY <1>3 DEF AllSaid, DeploysMenu, CronJobsMenu, Lists
<1>11. /\ of = "pods" => ListMenu(of, Default, n, i) = PodsMenu(Default, n, i)
       /\ of = "top" => ListMenu(of, Default, n, i) = TopMenu(Default, n, i)
       /\ of = "quota" => ListMenu(of, Default, n, i) = QuotaMenu(Default, n)
       /\ of = "deploys" => ListMenu(of, Default, n, i) = DeploysMenu(Default, n)
       /\ of = "cronjobs" => ListMenu(of, Default, n, i) = CronJobsMenu(Default, n)
    BY Zenon DEF ListMenu
<1>. QED
    BY <1>7, <1>8, <1>9, <1>10, <1>11 DEF Lists

LEMMA OtherMenusSaid == AllSaid(NodesMenu(Default)) /\ AllSaid(SpacesMenu(Default))
BY DEF AllSaid, NodesMenu, SpacesMenu, Said, Btn, Lists

LEMMA AppendFacts ==
    ASSUME NEW w \in Workload, NEW t
    PROVE  Append(w, t)[3] = w[3] /\ Append(w, t)[4] = w[4]
<1>1. ASSUME NEW a, NEW b, NEW c, NEW d
      PROVE  Append(<<a, b, c, d>>, t)[3] = c /\ Append(<<a, b, c, d>>, t)[4] = d
    <2>. DEFINE S == {a, b, c, d, t}
    <2>1. <<a, b, c, d>> \in Seq(S) /\ t \in S
        OBVIOUS
    <2>. HIDE DEF S
    <2>. QED
        BY <2>1, AppendProperties
<1>2. PICK a, b, c, d : w = <<a, b, c, d>>
    BY WorkloadsAssumption
<1>3. w[3] = c /\ w[4] = d
    BY <1>2
<1>. QED
    BY <1>1, <1>2, <1>3

LEMMA AboutSaid ==
    ASSUME NEW w, w[4] = Default, NEW to \in {"detail", "set", "cancel", "confirm"}, NEW d,
           d[3] = w[3], d[4] = w[4]
    PROVE  Said(About(w, to, d))
BY DEF Said, About, Btn, Lists

LEMMA ScaleMenusSaid ==
    /\ \A n : AllSaid(ScaleMenu(Default, n))
    /\ \A w \in Workload : w[4] = Default =>
           AllSaid(DetailMenu(w)) /\ \A t : AllSaid(AskMenu(w, t))
<1>1. \A w \in Workload : w[4] = Default =>
          Said(About(w, "detail", w)) /\ Said(About(w, "cancel", w))
    BY AboutSaid
<1>2. \A w \in Workload : \A t : w[4] = Default =>
          Said(About(w, "set", Append(w, t))) /\ Said(About(w, "confirm", Append(w, t)))
    BY AboutSaid, AppendFacts
<1>3. \A w : w[4] = Default => Said(About(w, "ns", <<w[3], w[4]>>))
    BY DEF Said, About, Btn, Lists
<1>4. Said(Btn("scale", "again", <<Default>>, Default, None))
    BY DEF Said, Btn, Lists
<1>5. ASSUME NEW n PROVE AllSaid(ScaleMenu(Default, n))
    BY <1>1, <1>4 DEF AllSaid, ScaleMenu
<1>6. ASSUME NEW w \in Workload, w[4] = Default PROVE AllSaid(DetailMenu(w))
    BY <1>2, <1>3, <1>6 DEF AllSaid, DetailMenu
<1>7. ASSUME NEW w \in Workload, w[4] = Default, NEW t PROVE AllSaid(AskMenu(w, t))
    BY <1>1, <1>2, <1>7 DEF AllSaid, AskMenu
<1>. QED
    BY <1>5, <1>6, <1>7

LEMMA HelmMenusSaid ==
    /\ AllSaid(HelmMenu)
    /\ \A c, n : /\ AllSaid(ReleaseMenu(c, n)) /\ AllSaid(ReleaseDetailMenu(c, n))
                 /\ AllSaid(RevisionMenu(c, n))
<1>1. \A to \in {"ns", "detail", "select", "confirm"} : \A d : Said(HelmBtn(to, d))
    BY DEF Said, HelmBtn, Btn, Lists
<1>. QED
    BY <1>1 DEF AllSaid, HelmMenu, ReleaseMenu, ReleaseDetailMenu, RevisionMenu
-----------------------------------------------------------------------------
(* What handlers do to the invariant.                                      *)

LEMMA NotStray ==
    ASSUME ActsInv, NEW b, NEW c, NEW n, (c = b.cluster /\ n = b.ns) \/ n = NoName \/ c = NoName
    PROVE  ~Strays(b, c, n)
BY DialogsAssumption DEF ActsInv, Strays

LEMMA AsksDefault == ASSUME ActsInv, NEW u \in User PROVE GetCluster("k8s", u) = Default
BY DEF ActsInv, Unwritten, GetCluster

LEMMA ShowKept ==
    ASSUME ActsInv, NEW menus, \A new \in menus : AllSaid(new), Show(menus),
           UNCHANGED <<strayed, selected, spaces>>
    PROVE  ActsInv'
<1>1. AllSaid(menu')
    BY DEF Show, ActsInv
<1>. QED
    BY <1>1 DEF ActsInv, AllSaid, Unwritten, ActsAsSaid

LEMMA AnswerKept ==
    ASSUME ActsInv, NEW b, NEW c, NEW n, ~Strays(b, c, n), NEW menus,
           \A new \in menus : AllSaid(new), Answer(b, c, n, menus), UNCHANGED <<selected, spaces>>
    PROVE  ActsInv'
<1>1. AllSaid(menu')
    BY DEF Answer, Show, ActsInv
<1>2. ~strayed'
    BY DEF Answer, ActsInv, ActsAsSaid
<1>. QED
    BY <1>1, <1>2 DEF ActsInv, AllSaid, Unwritten, ActsAsSaid

LEMMA SelectKept ==
    ASSUME ActsInv, NEW of \in Lists \cup {"scale"}, Select(of, Default), ~strayed'
    PROVE  ActsInv'
<1>1. AllSaid(menu')
    BY SelectorSaid DEF Select, Show, ActsInv
<1>. QED
    BY <1>1 DEF Select, ActsInv, AllSaid, Unwritten, ActsAsSaid

LEMMA SendListKept ==
    ASSUME ActsInv, NEW of \in Lists, NEW b, NEW n, NEW page, ~Strays(b, Default, n),
           SendList(b, of, Default, n, page)
    PROVE  ActsInv'
<1>. DEFINE i == IF of = "top" /\ page > pages[Default] THEN pages[Default] ELSE page
            there == IF of = "quota" THEN n # All
                     ELSE n \in spaces[Default] \cup {All} /\ i \in 1..pages[Default]
            menus == IF there THEN {ListMenu(of, Default, n, i)} ELSE {}
<1>1. Answer(b, Default, n, menus) /\ UNCHANGED <<selected, spaces>>
    BY DEF SendList, clusters
<1>. HIDE DEF i, there
<1>2. \A new \in menus : AllSaid(new)
    BY ListMenusSaid
<1>. HIDE DEF menus
<1>. QED
    BY <1>1, <1>2, AnswerKept

LEMMA CommandedKept == ASSUME ActsInv, NEW u \in User, Commanded(u) PROVE ActsInv'
<1>1. ASSUME NEW of \in Lists, Command(of, u) PROVE ActsInv'
    <2>1. Select(of, Default) /\ ~strayed'
        BY <1>1, AsksDefault DEF Command, ActsInv, ActsAsSaid
    <2>. QED
        BY <2>1, SelectKept
<1>2. ASSUME NEW menus, DirectCommand(menus), \A new \in menus : AllSaid(new) PROVE ActsInv'
    BY <1>2, ShowKept DEF DirectCommand, clusters
<1>3. CASE TopNodes(u)
    BY <1>2, <1>3, AsksDefault, OtherMenusSaid DEF TopNodes
<1>4. CASE NamespacesCommand(u)
    BY <1>2, <1>4, AsksDefault, OtherMenusSaid DEF NamespacesCommand
<1>5. CASE LogsCommand(u)
    <2>. DEFINE menus == {LogActions(Default, n, 0) : n \in spaces[Default]}
    <2>1. DirectCommand(menus)
        BY <1>5, AsksDefault DEF LogsCommand
    <2>2. \A new \in menus : AllSaid(new)
        BY PodMenusSaid
    <2>. HIDE DEF menus
    <2>. QED
        BY <1>2, <2>1, <2>2
<1>6. CASE EventsCommand(u)
    <2>. DEFINE menus == {EventActions(Default, n) : n \in Namespace}
    <2>1. DirectCommand(menus)
        BY <1>6, AsksDefault DEF EventsCommand
    <2>2. \A new \in menus : AllSaid(new)
        BY PodMenusSaid
    <2>. HIDE DEF menus
    <2>. QED
        BY <1>2, <2>1, <2>2
<1>7. CASE RestartCommand(u)
    <2>. DEFINE menus == {RestartQuestion(Default, n) : n \in spaces[Default]}
    <2>1. DirectCommand(menus)
        BY <1>7, AsksDefault DEF RestartCommand
    <2>2. \A new \in menus : AllSaid(new)
        BY PodMenusSaid
    <2>. HIDE DEF menus
    <2>. QED
        BY <1>2, <2>1, <2>2
<1>8. ASSUME NEW of \in Lists, ListCommand(of, u) PROVE ActsInv'
    <2>. DEFINE menus == {ListMenu(of, Default, n, 1) :
                              n \in {m \in spaces[Default] \cup {All} : pages[Default] > 0}}
    <2>1. DirectCommand(menus)
        BY <1>8, AsksDefault DEF ListCommand
    <2>2. \A new \in menus : AllSaid(new)
        BY ListMenusSaid
    <2>. HIDE DEF menus
    <2>. QED
        BY <1>2, <2>1, <2>2
<1>. QED
    BY <1>1, <1>3, <1>4, <1>5, <1>6, <1>7, <1>8
    DEF Commanded, PodsCommand, TopCommand, QuotaCommand, DeploysCommand, CronJobsCommand, Lists

LEMMA NamespaceSelectedKept ==
    ASSUME ActsInv, NEW u \in User, NamespaceSelected(u) PROVE ActsInv'
<1>1. ASSUME NEW of \in Lists, NamespaceTap(of, u) PROVE ActsInv'
    <2>1. PICK b \in Taps(of, "ns") : SendList(b, of, Default, Whole(Data(b)), 1)
        BY <1>1, AsksDefault DEF NamespaceTap
    <2>2. /\ b.cluster = Default
          /\ Len(b.data) = 1 => b.data[1] = b.ns
        BY DEF Taps, ActsInv, AllSaid, Said, Lists
    <2>3. ~Strays(b, Default, Whole(Data(b)))
        BY <2>2, WholeFound, NotStray
    <2>. QED
        BY <2>1, <2>3, SendListKept
<1>. QED
    BY <1>1 DEF NamespaceSelected, PodsNamespaceSelect, TopNamespaceSelect, QuotaNamespaceSelect,
                DeploysNamespaceSelect, CronJobsNamespaceSelect, Lists

\* A button with no namespace, tapped where the context is asked.
LEMMA AgainKept ==
    ASSUME ActsInv, NEW u \in User, NEW of \in Lists \cup {"scale"}, NEW b \in Taps(of, "again"),
           strayed' = (strayed \/ Strays(b, GetCluster("k8s", u), None)),
           Select(of, GetCluster("k8s", u))
    PROVE  ActsInv'
<1>1. b.cluster = Default /\ b.ns = None
    BY DEF Taps, ActsInv, AllSaid, Said, Lists
<1>2. ~Strays(b, Default, None)
    BY <1>1, NotStray
<1>. QED
    BY <1>2, AsksDefault, SelectKept DEF ActsInv, ActsAsSaid

LEMMA PageKept ==
    ASSUME ActsInv, NEW of \in Lists, Page(of) \/ Refresh(of) PROVE ActsInv'
<1>1. PICK b \in Taps(of, "page") \cup Taps(of, "refresh") :
          Len(Data(b)) # 1 /\ \E page : SendList(b, of, Data(b)[2], Data(b)[1], page)
    BY DEF Page, Refresh
<1>2. Data(b) = b.data /\ b.data[1] = b.ns /\ b.data[2] = b.cluster /\ b.cluster = Default
    BY <1>1, Found DEF Taps, ActsInv, AllSaid, Said, Lists
<1>3. ~Strays(b, Default, b.ns)
    BY <1>2, NotStray
<1>. QED
    BY <1>1, <1>2, <1>3, SendListKept

LEMMA PodTapKept ==
    ASSUME ActsInv,
           \/ Detail \/ Logs \/ LogsContainer \/ LogsMore \/ LogsPrevious \/ Events
           \/ RestartAsk \/ RestartConfirm \/ RestartCancel
    PROVE  ActsInv'
<1>1. ASSUME NEW b, b \in menu, b.of = "pod", Len(Data(b)) # 1, NEW menus,
             Answer(b, Data(b)[3], Data(b)[2], menus), UNCHANGED <<selected, clusters>>,
             menus \subseteq {PodActions(Data(b)[3], Data(b)[2]),
                              EventActions(Data(b)[3], Data(b)[2]),
                              ContainerSelector(Data(b)[3], Data(b)[2]),
                              LogActions(Data(b)[3], Data(b)[2], 0),
                              LogActions(Data(b)[3], Data(b)[2], 1),
                              RestartQuestion(Data(b)[3], Data(b)[2]), {}}
      PROVE  ActsInv'
    <2>1. Data(b) = b.data /\ b.data[2] = b.ns /\ b.data[3] = b.cluster /\ b.cluster = Default
        BY <1>1, Found DEF ActsInv, AllSaid, Said
    <2>2. ~Strays(b, Data(b)[3], Data(b)[2])
        BY <2>1, NotStray
    <2>3. \A new \in menus : AllSaid(new)
        BY <1>1, <2>1, PodMenusSaid DEF AllSaid
    <2>. QED
        BY <1>1, <2>2, <2>3, AnswerKept DEF clusters
<1>2. CASE Detail
    BY <1>1, <1>2 DEF Detail, PodTap, Taps
<1>3. CASE Logs
    BY <1>1, <1>3 DEF Logs, PodTap, Taps
<1>4. CASE LogsContainer
    BY <1>1, <1>4 DEF LogsContainer, PodTap, Taps
<1>5. CASE LogsMore
    BY <1>1, <1>5 DEF LogsMore, PodTap, Taps
<1>6. CASE LogsPrevious
    BY <1>1, <1>6 DEF LogsPrevious, PodTap, Taps
<1>7. CASE Events
    BY <1>1, <1>7 DEF Events, PodTap, Taps
<1>8. CASE RestartAsk
    BY <1>1, <1>8 DEF RestartAsk, PodTap, Taps
<1>9. CASE RestartConfirm
    BY <1>1, <1>9 DEF RestartConfirm, PodTap, Taps
<1>10. CASE RestartCancel
    BY <1>1, <1>10 DEF RestartCancel, PodTap, Taps
<1>. QED
    BY <1>2, <1>3, <1>4, <1>5, <1>6, <1>7, <1>8, <1>9, <1>10

LEMMA TappedKept == ASSUME ActsInv, NEW u \in User, Tapped(u) PROVE ActsInv'
<1>1. CASE PodsBack(u)
    <2>1. PICK b \in Taps("pods", "back") :
              LET c == IF Len(Data(b)) >= 2 THEN Data(b)[2] ELSE GetCluster("k8s", u)
              IN  strayed' = (strayed \/ Strays(b, c, None)) /\ Select("pods", c)
        BY <1>1 DEF PodsBack
    <2>. DEFINE c == IF Len(Data(b)) >= 2 THEN Data(b)[2] ELSE GetCluster("k8s", u)
    <2>2. b.cluster = Default /\ b.ns = None /\ b.data[2] = b.cluster
        BY DEF Taps, ActsInv, AllSaid, Said
    <2>3. c = Default
        <3>1. CASE Data(b) = b.data
            BY <2>1, <2>2, <3>1, AsksDefault
        <3>2. CASE Data(b) = <<NoName>>
            <4>1. ~(Len(<<NoName>>) >= 2)
                OBVIOUS
            <4>. QED
                BY <2>1, <3>2, <4>1, AsksDefault
        <3>. QED
            BY <3>1, <3>2, Found
    <2>4. ~Strays(b, c, None)
        BY <2>2, <2>3, NotStray
    <2>5. Select("pods", c) /\ (strayed' <=> strayed \/ Strays(b, c, None))
        BY <2>1
    <2>. HIDE DEF c
    <2>. QED
        BY <2>3, <2>4, <2>5, SelectKept DEF ActsInv, ActsAsSaid, Lists
<1>2. CASE QuotaBack(u) \/ TopBack(u)
    BY <1>2, AgainKept DEF QuotaBack, TopBack, Again, Lists
<1>3. CASE NodesRefresh(u)
    <2>1. PICK b \in Taps("nodes", "refresh") :
              /\ Answer(b, Default, None, {NodesMenu(Default)})
              /\ UNCHANGED <<selected, spaces>>
        BY <1>3, AsksDefault DEF NodesRefresh, clusters
    <2>2. b.cluster = Default /\ b.ns = None
        BY DEF Taps, ActsInv, AllSaid, Said
    <2>. QED
        BY <2>1, <2>2, NotStray, OtherMenusSaid, AnswerKept
<1>4. CASE NamespacesRefresh
    <2>1. PICK b \in Taps("spaces", "refresh") :
              LET c == Whole(Data(b))
              IN  /\ Answer(b, c, None, IF c \in Cluster THEN {SpacesMenu(c)} ELSE {})
                  /\ UNCHANGED <<selected, spaces>>
        BY <1>4 DEF NamespacesRefresh, clusters
    <2>. DEFINE c == Whole(Data(b))
                menus == IF c \in Cluster THEN {SpacesMenu(c)} ELSE {}
    <2>2. b.cluster = Default /\ b.ns = None /\ b.data[1] = b.cluster
        BY DEF Taps, ActsInv, AllSaid, Said
    <2>3. c \in {Default, NoName} /\ NoName \notin Cluster
        BY <2>2, WholeFound, DialogsAssumption
    <2>4. ~Strays(b, c, None)
        BY <2>2, <2>3, NotStray
    <2>5. \A new \in menus : AllSaid(new)
        BY <2>3, OtherMenusSaid
    <2>6. Answer(b, c, None, menus) /\ UNCHANGED <<selected, spaces>>
        BY <2>1
    <2>. HIDE DEF c, menus
    <2>. QED
        BY <2>4, <2>5, <2>6, AnswerKept
<1>. QED
    BY <1>1, <1>2, <1>3, <1>4, PageKept, PodTapKept
    DEF Tapped, PodsPage, TopPage, QuotaRefresh, DeploysRefresh, CronJobsRefresh, Lists

LEMMA ScaleKept ==
    ASSUME ActsInv, NEW u \in User,
           ScaleCommand(u) \/ ScaleBack(u) \/ ScaleNamespaceSelect(u)
    PROVE  ActsInv'
<1>1. CASE ScaleCommand(u)
    <2>1. Select("scale", Default) /\ ~strayed'
        BY <1>1, AsksDefault DEF ScaleCommand, ActsInv, ActsAsSaid
    <2>. QED
        BY <2>1, SelectKept
<1>2. CASE ScaleBack(u)
    BY <1>2, AgainKept DEF ScaleBack
<1>3. CASE ScaleNamespaceSelect(u)
    <2>1. PICK b \in Taps("scale", "ns") :
              /\ UNCHANGED <<selected, spaces>>
              /\ \E menus : /\ Answer(b, Default, Whole(Data(b)), menus)
                            /\ menus \subseteq {ScaleMenu(Default, Whole(Data(b)))}
        BY <1>3, AsksDefault DEF ScaleNamespaceSelect, clusters
    <2>2. b.cluster = Default /\ (Len(b.data) = 1 => b.data[1] = b.ns)
        BY DEF Taps, ActsInv, AllSaid, Said
    <2>3. ~Strays(b, Default, Whole(Data(b)))
        BY <2>2, WholeFound, NotStray
    <2>. QED
        BY <2>1, <2>3, ScaleMenusSaid, AnswerKept
<1>. QED
    BY <1>1, <1>2, <1>3

LEMMA ScaleDialogKept == ASSUME ActsInv, ScaleDetail \/ ScaleSet PROVE ActsInv'
<1>1. ASSUME NEW b \in Taps("scale", "detail") \cup Taps("scale", "cancel") \cup Taps("scale", "set"),
             Len(Data(b)) # 1, NEW menus, Answer(b, Data(b)[4], Data(b)[3], menus),
             UNCHANGED <<selected, clusters>>,
             \A new \in menus : \E w \in Workload :
                 w[4] = Data(b)[4] /\ (new = DetailMenu(w) \/ \E t : new = AskMenu(w, t))
      PROVE  ActsInv'
    <2>1. Data(b) = b.data /\ b.data[3] = b.ns /\ b.data[4] = b.cluster /\ b.cluster = Default
        BY <1>1, Found DEF Taps, ActsInv, AllSaid, Said
    <2>2. ~Strays(b, Data(b)[4], Data(b)[3])
        BY <2>1, NotStray
    <2>3. \A new \in menus : AllSaid(new)
        BY <1>1, <2>1, ScaleMenusSaid
    <2>. QED
        BY <1>1, <2>2, <2>3, AnswerKept DEF clusters
<1>2. CASE ScaleDetail
    BY SMTT(60), <1>1, <1>2 DEF ScaleDetail
<1>3. CASE ScaleSet
    <2>1. PICK b \in Taps("scale", "set") :
              LET d == Data(b)
                  w == <<d[1], d[2], d[3], d[4]>>
              IN  /\ Len(d) = 5
                  /\ Answer(b, d[4], d[3], IF w \in Workload THEN {AskMenu(w, d[5])} ELSE {})
                  /\ UNCHANGED <<selected, clusters>>
        BY <1>3 DEF ScaleSet
    <2>. DEFINE d == Data(b)
                w == <<d[1], d[2], d[3], d[4]>>
                menus == IF w \in Workload THEN {AskMenu(w, d[5])} ELSE {}
    <2>2. w[4] = d[4]
        OBVIOUS
    <2>3. /\ Len(d) # 1 /\ Answer(b, d[4], d[3], menus) /\ UNCHANGED <<selected, clusters>>
        BY <2>1
    <2>. HIDE DEF w
    <2>4. \A new \in menus : \E v \in Workload : v[4] = d[4] /\ \E t : new = AskMenu(v, t)
        BY <2>2
    <2>. HIDE DEF d, menus
    <2>. QED
        BY <1>1, <2>3, <2>4 DEF d
<1>. QED
    BY <1>2, <1>3

LEMMA HelmKept ==
    ASSUME ActsInv, HelmCommand \/ HelmNamespaceSelect \/ ReleaseDetail \/ RollbackSelect
    PROVE  ActsInv'
<1>1. CASE HelmCommand
    BY <1>1, ShowKept, HelmMenusSaid DEF HelmCommand, clusters
<1>2. ASSUME NEW b \in menu, b.of = "helm", Len(Data(b)) # 1, NEW menus,
             Answer(b, Data(b)[1], Data(b)[2], menus), UNCHANGED <<selected, clusters>>,
             \A new \in menus : AllSaid(new)
      PROVE  ActsInv'
    <2>1. Data(b) = b.data /\ b.data[1] = b.cluster /\ b.data[2] = b.ns
        BY <1>2, Found DEF ActsInv, AllSaid, Said
    <2>2. ~Strays(b, Data(b)[1], Data(b)[2])
        BY <2>1, NotStray
    <2>. QED
        BY <1>2, <2>2, AnswerKept DEF clusters
<1>3. CASE HelmNamespaceSelect
    BY <1>2, <1>3, HelmMenusSaid DEF HelmNamespaceSelect, HelmTap, Taps
<1>4. CASE ReleaseDetail
    BY <1>2, <1>4, HelmMenusSaid DEF ReleaseDetail, HelmTap, Taps
<1>5. CASE RollbackSelect
    BY <1>2, <1>5, HelmMenusSaid DEF RollbackSelect, HelmTap, Taps
<1>. QED
    BY <1>1, <1>3, <1>4, <1>5

LEMMA HandledKept == ASSUME ActsInv, NEW h \in Handler, Handled(h) PROVE ActsInv'
<1>1. UNCHANGED <<selected, spaces>> /\ (menu' = {} \/ UNCHANGED menu)
    BY DEF Handled, ScaleConfirm, UpdateScale, AuditScale, Report, RolloutWatched,
           RollbackConfirm, Rollback, Rolled, Outcome, dialogs, view, clusters
<1>2. ASSUME NEW at, NEW b, Begin(h, at, b), Len(Data(b)) # 1 PROVE ~strayed'
    BY <1>2, Found DEF Begin, ActsInv, ActsAsSaid
<1>3. ~strayed'
    <2>1. CASE ScaleConfirm(h) \/ RollbackConfirm(h)
        BY <1>2, <2>1 DEF ScaleConfirm, RollbackConfirm, ActsInv, ActsAsSaid
    <2>2. CASE ~(ScaleConfirm(h) \/ RollbackConfirm(h))
        BY <2>2 DEF Handled, UpdateScale, AuditScale, Report, RolloutWatched, Rollback, Rolled,
                    Outcome, dialogs, view, ActsInv, ActsAsSaid
    <2>. QED
        BY <2>1, <2>2
<1>. QED
    BY <1>1, <1>3 DEF ActsInv, AllSaid, Unwritten, ActsAsSaid

LEMMA ActsKept == ASSUME ActsInv, [Working]_workloads PROVE ActsInv'
<1>1. ASSUME UNCHANGED <<menu, strayed>>, Unwritten', spaces' \in [Cluster -> SUBSET Namespace]
      PROVE  ActsInv'
    BY <1>1 DEF ActsInv, AllSaid, ActsAsSaid
<1>2. CASE UNCHANGED workloads
    BY <1>1, <1>2 DEF workloads, dialogs, view, clusters, ActsInv, Unwritten
<1>3. ASSUME NEW u \in User, NEW c \in Cluster, ClusterSelect(u, c) PROVE ActsInv'
    <2>1. selected' = [selected EXCEPT !["bot"][u] = c] /\ UNCHANGED <<menu, strayed, spaces>>
        BY <1>3 DEF ClusterSelect, SetCluster, view, clusters
    <2>2. Unwritten'
        BY <2>1 DEF ActsInv, Unwritten
    <2>. QED
        BY <1>1, <2>1, <2>2 DEF ActsInv
<1>4. CASE PagesChange \/ StoredAgain \/ Expire
    BY <1>1, <1>4 DEF PagesChange, StoredAgain, Expire, view, clusters, ActsInv, Unwritten
<1>5. CASE SpacesChange
    <2>1. PICK c \in Cluster : \E s \in Spaces[c] : spaces' = [spaces EXCEPT ![c] = s]
        BY <1>5 DEF SpacesChange
    <2>2. \A s \in Spaces[c] : s \subseteq Namespace
        BY DialogsAssumption
    <2>. QED
        BY <1>1, <1>5, <2>1, <2>2 DEF SpacesChange, view, ActsInv, Unwritten
<1>6. CASE Crash
    <2>1. /\ selected' = [x \in DOMAIN selected |-> [u \in User |-> None]]
          /\ UNCHANGED <<menu, strayed, spaces>>
        BY <1>6 DEF Crash, Restart
    <2>2. Unwritten'
        BY <2>1 DEF ActsInv, Unwritten
    <2>. QED
        BY <1>1, <2>1, <2>2 DEF ActsInv
<1>7. CASE Displayed
    BY <1>3, <1>4, <1>7, CommandedKept, NamespaceSelectedKept, TappedKept DEF Displayed
<1>8. CASE Considered
    BY <1>3, <1>8, ScaleKept, ScaleDialogKept, HelmKept DEF Considered
<1>. QED
    BY <1>2, <1>4, <1>5, <1>6, <1>7, <1>8, HandledKept DEF Working, Meanwhile

\* A tap acts on what its message said, or on nothing that there is.
THEOREM TapsActAsSaid == WorkloadsSpec => []ActsAsSaid
<1>1. WorkloadsInit => ActsInv
    <2>. SUFFICES ASSUME WorkloadsInit PROVE ActsInv
        OBVIOUS
    <2>1. /\ menu = {} /\ ~strayed
          /\ selected = [x \in {"bot", "k8s"} |-> [u \in User |-> None]]
          /\ spaces = [c \in Cluster |-> CHOOSE s \in Spaces[c] : TRUE]
        BY DEF WorkloadsInit, DialogsInit
    <2>2. \A c \in Cluster : (CHOOSE s \in Spaces[c] : TRUE) \in SUBSET Namespace
        BY DialogsAssumption
    <2>3. Unwritten
        BY <2>1 DEF Unwritten
    <2>. QED
        BY <2>1, <2>2, <2>3 DEF ActsInv, AllSaid, ActsAsSaid
<1>2. ActsInv /\ [Working]_workloads => ActsInv'
    BY ActsKept
<1>3. ActsInv => ActsAsSaid
    BY DEF ActsInv
<1>. QED
    BY <1>1, <1>2, <1>3, PTL DEF WorkloadsSpec
=============================================================================
