----------------------------- MODULE GitOpsProofs -----------------------------
(***************************************************************************)
(* Proofs about module GitOps, for any applications, instances, rules and  *)
(* freezes, and any finite set of goroutines.                              *)
(*                                                                         *)
(* An execution of a gated operation is always paid for: the submit that   *)
(* failed has been counted, and until the goroutine has executed it still  *)
(* holds the MaxRetries attempts it is allowed.  A freeze that a dialog    *)
(* has once passed never comes into force again.                           *)
(***************************************************************************)
EXTENDS GitOps, FiniteSetTheorems, TLAPS

\* The goroutines about to execute t.
Runners(t) == {h \in Handler : At(h, t, "run")}

\* Executions done and executions still allowed are covered by failed submits.
PaidFor(t) == runs[t] + MaxRetries * Cardinality(Runners(t)) <= MaxRetries * failures[t]

Paid == \A t \in Task : Gated(t) => PaidFor(t)

\* A request for t is stored.
Stored(t) == \E r \in Req : subject[r] = t /\ status[r] # "none"

\* Who waits, or is about to be told to, waits for a stored request.
WaitsStored ==
    /\ \A h \in Handler, t \in Task : At(h, t, "wait") => Stored(t)
    /\ \A a \in App : screen[a] = Plain("waiting") =>
           \E k \in Kind : Stored([app |-> a, kind |-> k])

\* A freeze that was passed exists and is not in force for everyone.
PassedSpent ==
    \A t \in Task : \A f \in passed[t] : f \in Created /\ ~FreezesAll(f)

IInv == TypeOK /\ Paid /\ WaitsStored /\ PassedSpent

-----------------------------------------------------------------------------
\* The set of goroutines about to execute is finite, so its size is a number.
LEMMA RunnersFinite ==
    ASSUME NEW t
    PROVE  /\ IsFiniteSet(Runners(t)) /\ Cardinality(Runners(t)) \in Nat
           /\ IsFiniteSet(Runners(t)') /\ Cardinality(Runners(t)') \in Nat
<1>1. IsFiniteSet(Runners(t)) /\ IsFiniteSet(Runners(t)')
    BY FS_Subset, GitOpsAssumption DEF Runners
<1>. QED
    BY <1>1, FS_CardinalityType

\* Where a goroutine goes, the others stay (pc and job are written per h).
LEMMA GotoOthers ==
    ASSUME TypeOK, NEW h \in Handler, NEW t \in Task \cup {NoTask}, NEW p, Goto(h, t, p),
           NEW g \in Handler, NEW u \in Task, NEW q
    PROVE  At(g, u, q)' <=> IF g = h THEN t = u /\ p = q ELSE At(g, u, q)
    BY DEF Goto, At, TypeOK

\* A runner that leaves is one runner less.
LEMMA RunnersLeave ==
    ASSUME TypeOK, NEW h \in Handler, NEW t \in Task, NEW p, At(h, t, "run"),
           Goto(h, t, p), p # "run"
    PROVE  Cardinality(Runners(t)') + 1 = Cardinality(Runners(t))
<1>1. Runners(t)' = Runners(t) \ {h} /\ h \in Runners(t)
    BY GotoOthers DEF Runners
<1>2. Cardinality(Runners(t) \ {h}) = Cardinality(Runners(t)) - 1
    BY <1>1, RunnersFinite, FS_RemoveElement
<1>3. Cardinality(Runners(t)') = Cardinality(Runners(t)) - 1
    BY <1>1, <1>2
<1>4. Cardinality(Runners(t)) \in Nat
    BY RunnersFinite
<1>. QED
    BY <1>3, <1>4

\* A goroutine that arrives is at most one runner more.
LEMMA RunnersArrive ==
    ASSUME TypeOK, NEW h \in Handler, NEW t \in Task, Goto(h, t, "run"), NEW u \in Task
    PROVE  Cardinality(Runners(u)') <= Cardinality(Runners(u)) + (IF u = t THEN 1 ELSE 0)
<1>1. CASE u = t
    <2>1. Runners(u)' \subseteq Runners(u) \cup {h}
        BY <1>1, GotoOthers DEF Runners
    <2>2. /\ IsFiniteSet(Runners(u) \cup {h})
          /\ \/ Cardinality(Runners(u) \cup {h}) = Cardinality(Runners(u))
             \/ Cardinality(Runners(u) \cup {h}) = Cardinality(Runners(u)) + 1
        BY RunnersFinite, FS_AddElement
    <2>3. Cardinality(Runners(u)') \in Nat /\ Cardinality(Runners(u)') <= Cardinality(Runners(u) \cup {h})
        BY <2>1, <2>2, FS_Subset, FS_CardinalityType
    <2>. QED
        BY <1>1, <2>2, <2>3, RunnersFinite
<1>2. CASE u # t
    <2>1. Runners(u)' \subseteq Runners(u)
        BY <1>2, GotoOthers DEF Runners
    <2>. QED
        BY <1>2, <2>1, RunnersFinite, FS_Subset, FS_CardinalityType
<1>. QED
    BY <1>1, <1>2

\* Multiplication by the number of attempts keeps the order of counts.
LEMMA Attempts ==
    ASSUME NEW a \in Nat, NEW b \in Nat
    PROVE  /\ MaxRetries * a \in Nat
           /\ MaxRetries * (a + 1) = MaxRetries * a + MaxRetries
           /\ a <= b => MaxRetries * a <= MaxRetries * b
    BY GitOpsAssumption

-----------------------------------------------------------------------------
\* The types are kept by every step.
LEMMA TypeStep == TypeOK /\ [Next]_vars => TypeOK'
<1>. SUFFICES ASSUME TypeOK, [Next]_vars PROVE TypeOK'
    OBVIOUS
<1>. USE DEF TypeOK, Stage
<1>. MaxTime \in Nat /\ MaxRuns \in Nat /\ MaxFailures \in Nat /\ MaxRetries \in Nat /\ Duration \subseteq Nat
    BY GitOpsAssumption
<1>1. \A h \in Handler, t \in Task \cup {NoTask},
         p \in Stage :
         Goto(h, t, p) =>
             /\ pc' \in [Handler -> Stage]
             /\ job' \in [Handler -> Task \cup {NoTask}]
    BY DEF Goto
<1>2. ASSUME NEW t \in Task, NEW s \in Screen, Edit(t, s) PROVE screen' \in [App -> Screen]
    BY <1>2 DEF Edit
<1>3. \A t \in Task : /\ t.app \in App
                      /\ Choice(t) \in Screen
                      /\ Confirmation(t) \in Screen
    BY DEF Task, Choice, Confirmation, Screen
<1>4. \A s \in {"detail", "waiting", "blocked", "result"} : Plain(s) \in Screen
    BY DEF Plain, Screen
<1>5. "pending" \in Lifecycle!Status /\ Lifecycle!Resolution \subseteq Lifecycle!Status
    BY DEF Lifecycle!Status, Lifecycle!Resolution
<1>6. ASSUME NEW h \in Handler, NEW t \in Task, Open(h, t) PROVE TypeOK'
    <2>1. passed' \in [Task -> SUBSET Freeze]
        <3>1. Created \subseteq Freeze
            BY DEF Created
        <3>2. \/ passed' = passed
              \/ passed' = [passed EXCEPT ![t] = Created]
              \/ passed' = [passed EXCEPT ![t] = {}]
            BY <1>6 DEF Open
        <3>. QED
            BY <3>1, <3>2
    <2>. QED
        BY <1>1, <1>6, <2>1 DEF Open
<1>7. ASSUME NEW h \in Handler, NEW t \in Task, Choose(h, t) PROVE TypeOK'
    BY <1>1, <1>7 DEF Choose
<1>8. ASSUME NEW h \in Handler, NEW t \in Task, Leave(h, t) PROVE TypeOK'
    BY <1>1, <1>8 DEF Leave
<1>9. ASSUME NEW h \in Handler, NEW t \in Task, Confirm(h, t) PROVE TypeOK'
    BY <1>1, <1>9 DEF Confirm
<1>10. ASSUME NEW h \in Handler, NEW t \in Task, Block(h, t) PROVE TypeOK'
    BY <1>1, <1>2, <1>4, <1>10 DEF Block, Ends
<1>11. ASSUME NEW h \in Handler, NEW t \in Task, Fetch(h, t) PROVE TypeOK'
    BY <1>1, <1>2, <1>3, <1>4, <1>11 DEF Fetch, Ends
<1>12. ASSUME NEW h \in Handler, NEW t \in Task, Submit(h, t) PROVE TypeOK'
    <2>1. status' \in [Req -> Lifecycle!Status] /\ subject' \in [Req -> Task \cup {NoTask}]
        BY <1>5, <1>12 DEF Submit
    <2>2. failures' \in [Task -> 0..MaxFailures]
        <3>1. \/ failures' = failures
              \/ /\ failures[t] < MaxFailures
                 /\ failures' = [failures EXCEPT ![t] = failures[t] + 1]
            BY <1>12 DEF Submit
        <3>2. failures[t] \in 0..MaxFailures
            OBVIOUS
        <3>3. failures[t] < MaxFailures => failures[t] + 1 \in 0..MaxFailures
            BY <3>2
        <3>. QED
            BY <3>1, <3>3
    <2>3. pc' \in [Handler -> Stage]
          /\ job' \in [Handler -> Task \cup {NoTask}]
        BY <1>1, <1>12 DEF Submit
    <2>. QED
        BY <1>12, <2>1, <2>2, <2>3 DEF Submit
<1>13. ASSUME NEW h \in Handler, NEW t \in Task, Wait(h, t) PROVE TypeOK'
    BY <1>1, <1>2, <1>4, <1>13 DEF Wait, Ends
<1>14. ASSUME NEW h \in Handler, NEW t \in Task, Run(h, t) PROVE TypeOK'
    <2>1. runs' \in [Task -> 0..MaxRuns]
        <3>1. PICK n \in 0..MaxRetries : runs[t] + n <= MaxRuns /\ runs' = [runs EXCEPT ![t] = runs[t] + n]
            BY <1>14 DEF Run
        <3>2. runs[t] \in 0..MaxRuns
            OBVIOUS
        <3>3. runs[t] + n \in 0..MaxRuns
            BY <3>1, <3>2
        <3>. QED
            BY <3>1, <3>3
    <2>. QED
        BY <1>1, <1>14, <2>1 DEF Run
<1>15. ASSUME NEW h \in Handler, NEW t \in Task, Report(h, t) PROVE TypeOK'
    BY <1>1, <1>2, <1>4, <1>15 DEF Report, Ends
<1>16. ASSUME NEW h \in Handler, NEW t \in Task, Ask(h, t) \/ Detail(h, t) PROVE TypeOK'
    BY <1>1, <1>2, <1>3, <1>4, <1>16 DEF Ask, Detail, Ends
<1>17. ASSUME NEW f \in Freeze, Thaw(f) PROVE TypeOK'
    BY <1>17 DEF Thaw
<1>18. ASSUME NEW f \in Freeze, NEW s \in AllScopes, NEW d \in Duration, FreezeConfirm(f, s, d)
       PROVE  TypeOK'
    <2>1. clock + d \in 0..MaxTime
        <3>1. clock + d <= MaxTime /\ clock \in 0..MaxTime /\ d \in Nat
            BY <1>18 DEF FreezeConfirm
        <3>. QED
            BY <3>1
    <2>. QED
        BY <1>18, <2>1 DEF FreezeConfirm
<1>19. ASSUME NEW r \in Req, NEW s \in Lifecycle!Resolution, Settle(r, s) PROVE TypeOK'
    BY <1>5, <1>19 DEF Settle
<1>20. CASE Tick
    <2>1. clock \in 0..MaxTime /\ clock < MaxTime /\ clock' = clock + 1
        BY <1>20 DEF Tick
    <2>2. clock' \in 0..MaxTime
        BY <2>1
    <2>. QED
        BY <1>20, <2>2 DEF Tick
<1>21. CASE Restart
    BY <1>21 DEF Restart
<1>22. CASE UNCHANGED vars
    BY <1>22 DEF vars
<1>. QED
    BY <1>6, <1>7, <1>8, <1>9, <1>10, <1>11, <1>12, <1>13, <1>14, <1>15, <1>16,
       <1>17, <1>18, <1>19, <1>20, <1>21, <1>22 DEF Next, Tap, Advance

-----------------------------------------------------------------------------

\* Who neither executes t nor is sent to execute it leaves t paid for.
LEMMA PaidKept ==
    ASSUME TypeOK, NEW u \in Task, PaidFor(u), runs'[u] = runs[u], failures'[u] = failures[u],
           Runners(u)' \subseteq Runners(u)
    PROVE  PaidFor(u)'
<1>. DEFINE r == Cardinality(Runners(u))  s == Cardinality(Runners(u)')
<1>1. r \in Nat /\ s \in Nat /\ s <= r
    BY RunnersFinite, FS_Subset
<1>2. MaxRetries * s <= MaxRetries * r /\ MaxRetries * s \in Nat /\ MaxRetries * r \in Nat
    BY <1>1, Attempts
<1>3. runs[u] \in Nat /\ failures[u] \in Nat /\ MaxRetries * failures[u] \in Nat
    BY Attempts, GitOpsAssumption DEF TypeOK
<1>4. runs[u] + MaxRetries * r <= MaxRetries * failures[u]
    BY DEF PaidFor
<1>5. runs[u] + MaxRetries * s <= MaxRetries * failures[u]
    BY <1>2, <1>3, <1>4
<1>. QED
    BY <1>5 DEF PaidFor

\* A goroutine that goes elsewhere than to an execution of u adds no runner.
LEMMA RunnersShrink ==
    ASSUME TypeOK, NEW h \in Handler, NEW t \in Task \cup {NoTask}, NEW p, Goto(h, t, p),
           NEW u \in Task, p # "run" \/ t # u
    PROVE  Runners(u)' \subseteq Runners(u)
    BY GotoOthers DEF Runners

\* Executing spends the attempts the goroutine held; a failed submit pays for
\* those it hands out; no other step touches either side.
LEMMA PaidStep == TypeOK /\ Paid /\ [Next]_vars => Paid'
<1>. SUFFICES ASSUME TypeOK, [Next]_vars, NEW u \in Task, Gated(u), PaidFor(u)
              PROVE  PaidFor(u)'
    BY DEF Paid, Gated
<1>1. ASSUME UNCHANGED <<pc, job, runs, failures>> PROVE PaidFor(u)'
    BY <1>1 DEF PaidFor, Runners, At
<1>2. ASSUME NEW h \in Handler, NEW t \in Task \cup {NoTask}, NEW p, Goto(h, t, p),
             p # "run" \/ t # u, UNCHANGED <<runs, failures>>
      PROVE  PaidFor(u)'
    BY <1>2, RunnersShrink, PaidKept
<1>3. ASSUME NEW h \in Handler, NEW t \in Task, Open(h, t) PROVE PaidFor(u)'
    BY <1>2, <1>3 DEF Open
<1>4. ASSUME NEW h \in Handler, NEW t \in Task, Confirm(h, t) PROVE PaidFor(u)'
    <2>1. CASE Gated(t)
        BY <1>2, <1>4, <2>1 DEF Confirm
    <2>2. CASE ~Gated(t)
        BY <1>2, <1>4, <2>2 DEF Confirm
    <2>. QED
        BY <2>1, <2>2
<1>5. ASSUME NEW h \in Handler, NEW t \in Task,
             Block(h, t) \/ Fetch(h, t) \/ Ask(h, t) \/ Detail(h, t) \/ Wait(h, t) \/ Report(h, t)
      PROVE  PaidFor(u)'
    <2>1. Ends(h) /\ UNCHANGED <<runs, failures>>
        BY <1>5 DEF Block, Fetch, Ask, Detail, Wait, Report
    <2>. QED
        BY <1>2, <2>1 DEF Ends
<1>6. ASSUME NEW h \in Handler, NEW t \in Task, Submit(h, t) PROVE PaidFor(u)'
    <2>1. runs' = runs
        BY <1>6 DEF Submit
    <2>2. CASE Goto(h, t, "wait") /\ UNCHANGED failures
        BY <1>2, <2>1, <2>2
    <2>3. CASE /\ Goto(h, t, "run")
               /\ failures' = [failures EXCEPT ![t] = failures[t] + 1]
        <3>1. CASE u # t
            <4>1. Runners(u)' \subseteq Runners(u) /\ failures'[u] = failures[u]
                BY <2>3, <3>1, RunnersShrink DEF TypeOK
            <4>. QED
                BY <2>1, <4>1, PaidKept
        <3>2. CASE u = t
            <4>. DEFINE r == Cardinality(Runners(u))  s == Cardinality(Runners(u)')
            <4>1. r \in Nat /\ s \in Nat /\ s <= r + 1
                BY <2>3, <3>2, RunnersFinite, RunnersArrive
            <4>2. /\ MaxRetries * s <= MaxRetries * (r + 1)
                  /\ MaxRetries * (r + 1) = MaxRetries * r + MaxRetries
                  /\ MaxRetries * s \in Nat /\ MaxRetries * r \in Nat /\ MaxRetries \in Nat
                BY <4>1, Attempts, GitOpsAssumption
            <4>3. /\ runs[u] \in Nat /\ failures[u] \in Nat
                  /\ failures'[u] = failures[u] + 1
                BY <2>3, <3>2, GitOpsAssumption DEF TypeOK
            <4>4. /\ MaxRetries * failures[u] \in Nat
                  /\ MaxRetries * failures'[u] = MaxRetries * failures[u] + MaxRetries
                BY <4>3, Attempts
            <4>5. runs[u] + MaxRetries * r <= MaxRetries * failures[u]
                BY DEF PaidFor
            <4>6. runs[u] + MaxRetries * s <= MaxRetries * failures'[u]
                <5>. HIDE DEF r, s
                <5>. QED
                    BY <4>2, <4>3, <4>4, <4>5
            <4>. QED
                BY <2>1, <4>6 DEF PaidFor
        <3>. QED
            BY <3>1, <3>2
    <2>. QED
        BY <1>6, <2>2, <2>3 DEF Submit
<1>7. ASSUME NEW h \in Handler, NEW t \in Task, Run(h, t) PROVE PaidFor(u)'
    <2>1. PICK n \in 0..MaxRetries : runs' = [runs EXCEPT ![t] = runs[t] + n]
        BY <1>7 DEF Run
    <2>2. At(h, t, "run") /\ Goto(h, t, "report") /\ failures' = failures
        BY <1>7 DEF Run
    <2>3. CASE u # t
        <3>1. Runners(u)' \subseteq Runners(u) /\ runs'[u] = runs[u]
            BY <2>1, <2>2, <2>3, RunnersShrink DEF TypeOK
        <3>. QED
            BY <2>2, <3>1, PaidKept
    <2>4. CASE u = t
        <3>. DEFINE r == Cardinality(Runners(u))  s == Cardinality(Runners(u)')
        <3>1. r \in Nat /\ s \in Nat /\ s + 1 = r
            BY <2>2, <2>4, RunnersFinite, RunnersLeave
        <3>2. /\ MaxRetries * r = MaxRetries * s + MaxRetries
              /\ MaxRetries * s \in Nat /\ MaxRetries * r \in Nat /\ MaxRetries \in Nat
            BY <3>1, Attempts, GitOpsAssumption
        <3>3. /\ runs[u] \in Nat /\ failures[u] \in Nat /\ MaxRetries * failures[u] \in Nat
              /\ runs'[u] = runs[u] + n
            BY <2>1, <2>4, Attempts, GitOpsAssumption DEF TypeOK
        <3>4. runs[u] + MaxRetries * r <= MaxRetries * failures[u]
            BY DEF PaidFor
        <3>5. runs'[u] + MaxRetries * s <= MaxRetries * failures[u]
            <4>. HIDE DEF r, s
            <4>. QED
                BY <3>2, <3>3, <3>4
        <3>. QED
            BY <2>2, <3>5 DEF PaidFor
    <2>. QED
        BY <2>3, <2>4
<1>8. CASE Restart
    <2>1. Runners(u)' = {} /\ UNCHANGED <<runs, failures>>
        BY <1>8 DEF Restart, Runners, At
    <2>. QED
        BY <2>1, PaidKept
<1>. QED
    <2>1. ASSUME NEW h \in Handler, NEW t \in Task, Choose(h, t) \/ Leave(h, t)
          PROVE  PaidFor(u)'
        <3>1. PICK p \in {"ask", "detail"} : Goto(h, t, p)
            BY <2>1 DEF Choose, Leave
        <3>2. UNCHANGED <<runs, failures>>
            BY <2>1 DEF Choose, Leave
        <3>. QED
            BY <1>2, <3>1, <3>2
    <2>2. ASSUME NEW f \in Freeze, Thaw(f) \/ \E s \in AllScopes, d \in Duration : FreezeConfirm(f, s, d)
          PROVE  UNCHANGED <<pc, job, runs, failures>>
        BY <2>2 DEF Thaw, FreezeConfirm
    <2>3. ASSUME NEW r \in Req, NEW s \in Lifecycle!Resolution, Settle(r, s)
          PROVE  UNCHANGED <<pc, job, runs, failures>>
        BY <2>3 DEF Settle
    <2>4. Tick \/ UNCHANGED vars => UNCHANGED <<pc, job, runs, failures>>
        BY DEF Tick, vars
    <2>. QED
        BY <1>1, <1>3, <1>4, <1>5, <1>6, <1>7, <1>8, <2>1, <2>2, <2>3, <2>4
           DEF Next, Tap, Advance

-----------------------------------------------------------------------------
\* A stored request stays stored: it may be settled, never taken back.
LEMMA StoredKept ==
    ASSUME TypeOK, [Next]_vars, NEW t, Stored(t)
    PROVE  Stored(t)'
<1>1. PICK r \in Req : subject[r] = t /\ status[r] # "none"
    BY DEF Stored
<1>2. subject'[r] = subject[r] /\ status'[r] # "none"
    <2>1. ASSUME NEW h \in Handler, NEW u \in Task, Submit(h, u)
          PROVE  subject'[r] = subject[r] /\ status'[r] # "none"
        BY <1>1, <2>1 DEF Submit, TypeOK
    <2>2. ASSUME NEW q \in Req, NEW s \in Lifecycle!Resolution, Settle(q, s)
          PROVE  subject'[r] = subject[r] /\ status'[r] # "none"
        BY <1>1, <2>2 DEF Settle, TypeOK, Lifecycle!Resolution
    <2>3. ASSUME NEW h \in Handler, NEW u \in Task,
                 Tap(h, u) \/ Block(h, u) \/ Fetch(h, u) \/ Ask(h, u) \/ Detail(h, u)
                    \/ Wait(h, u) \/ Run(h, u) \/ Report(h, u)
          PROVE  UNCHANGED <<status, subject>>
        BY <2>3 DEF Tap, Open, Choose, Leave, Confirm, Block, Fetch, Ask, Detail, Wait, Run, Report
    <2>4. ASSUME NEW f \in Freeze, Thaw(f) \/ \E s \in AllScopes, d \in Duration : FreezeConfirm(f, s, d)
          PROVE  UNCHANGED <<status, subject>>
        BY <2>4 DEF Thaw, FreezeConfirm
    <2>5. Tick \/ Restart \/ UNCHANGED vars => UNCHANGED <<status, subject>>
        BY DEF Tick, Restart, vars
    <2>6. UNCHANGED <<status, subject>> => subject'[r] = subject[r] /\ status'[r] # "none"
        BY <1>1
    <2>. QED
        BY <2>1, <2>2, <2>3, <2>4, <2>5, <2>6 DEF Next, Advance
<1>. QED
    BY <1>1, <1>2 DEF Stored

\* Submit sends a goroutine to wait only with a request stored, and only Wait
\* shows the waiting text.
LEMMA WaitsStep == TypeOK /\ WaitsStored /\ [Next]_vars => WaitsStored'
<1>. SUFFICES ASSUME TypeOK, WaitsStored, [Next]_vars PROVE WaitsStored'
    OBVIOUS
<1>. DEFINE Told(a) == screen[a] = Plain("waiting")
            Has(a) == \E k \in Kind : Stored([app |-> a, kind |-> k])
<1>1. \A t \in Task : Stored(t) => Stored(t)'
    BY StoredKept
<1>2. \A a \in App : Has(a) => Has(a)'
    BY StoredKept
<1>3. \A t \in Task : t.app \in App /\ (Stored(t) => Has(t.app))
    BY DEF Task
<1>4. \A s \in {"detail", "blocked", "result"} : Plain(s) # Plain("waiting")
    BY DEF Plain
<1>5. \A t \in Task : /\ Choice(t) # Plain("waiting")
                      /\ Confirmation(t) # Plain("waiting")
    BY DEF Choice, Confirmation, Plain
<1>. DEFINE Wary == \A h \in Handler, t \in Task : At(h, t, "wait") => Stored(t)
            Kept == \A a \in App : Told(a)' => Told(a)
<1>6. Wary /\ \A a \in App : Told(a) => Has(a)
    BY DEF WaitsStored
<1>7. ASSUME NEW h \in Handler, NEW t \in Task \cup {NoTask}, NEW p, Goto(h, t, p), p # "wait"
      PROVE  Wary'
    BY <1>1, <1>6, <1>7, GotoOthers
<1>8. ASSUME UNCHANGED <<pc, job>> PROVE Wary'
    BY <1>1, <1>6, <1>8 DEF At
<1>9. ASSUME NEW t \in Task, NEW s, Edit(t, s), s # Plain("waiting") PROVE Kept
    BY <1>9 DEF Edit, TypeOK
<1>10. UNCHANGED screen => Kept
    OBVIOUS
<1>11. Wary' /\ Kept => WaitsStored'
    BY <1>2, <1>6 DEF WaitsStored
<1>12. ASSUME NEW h \in Handler, NEW t \in Task, Open(h, t) \/ Confirm(h, t) PROVE Wary' /\ Kept
    BY <1>7, <1>10, <1>12 DEF Open, Confirm
<1>13. ASSUME NEW h \in Handler, NEW t \in Task, Choose(h, t) \/ Leave(h, t) PROVE Wary' /\ Kept
    BY <1>7, <1>10, <1>13 DEF Choose, Leave
<1>14. ASSUME NEW h \in Handler, NEW t \in Task, Ask(h, t) \/ Detail(h, t) PROVE Wary' /\ Kept
    <2>1. Ends(h) /\ \E s \in {Confirmation(t), Plain("detail")} : Edit(t, s)
        BY <1>14 DEF Ask, Detail
    <2>. QED
        BY <1>4, <1>5, <1>7, <1>9, <2>1 DEF Ends
<1>15. ASSUME NEW h \in Handler, NEW t \in Task, Block(h, t) \/ Fetch(h, t) \/ Report(h, t)
       PROVE  Wary' /\ Kept
    <2>1. Ends(h)
        BY <1>15 DEF Block, Fetch, Report
    <2>2. Edit(t, Choice(t)) \/ \E s \in {"detail", "blocked", "result"} : Edit(t, Plain(s))
        BY <1>15 DEF Block, Fetch, Report
    <2>. QED
        BY <1>4, <1>5, <1>7, <1>9, <2>1, <2>2 DEF Ends
<1>16. ASSUME NEW h \in Handler, NEW t \in Task, Submit(h, t) PROVE Wary' /\ Kept
    <2>1. Kept
        BY <1>10, <1>16 DEF Submit
    <2>2. CASE Goto(h, t, "run")
        BY <1>7, <2>1, <2>2
    <2>3. CASE Goto(h, t, "wait") /\ Stored(t)'
        BY <1>1, <1>6, <2>1, <2>3, GotoOthers
    <2>4. ASSUME NEW r \in Req, status' = [status EXCEPT ![r] = "pending"],
                 subject' = [subject EXCEPT ![r] = t]
          PROVE  Stored(t)'
        BY <2>4 DEF Stored, TypeOK
    <2>. QED
        BY <1>16, <2>2, <2>3, <2>4 DEF Submit
<1>17. ASSUME NEW h \in Handler, NEW t \in Task, Wait(h, t) PROVE WaitsStored'
    <2>1. Wary'
        BY <1>7, <1>17 DEF Wait, Ends
    <2>2. Stored(t)
        BY <1>6, <1>17 DEF Wait
    <2>3. Has(t.app)'
        BY <1>2, <1>3, <2>2
    <2>4. \A a \in App : a # t.app => (Told(a)' => Told(a))
        BY <1>17 DEF Wait, Edit, TypeOK
    <2>. QED
        BY <1>2, <1>6, <2>1, <2>3, <2>4 DEF WaitsStored
<1>18. ASSUME NEW h \in Handler, NEW t \in Task, Run(h, t) PROVE Wary' /\ Kept
    BY <1>7, <1>10, <1>18 DEF Run
<1>19. ASSUME NEW f \in Freeze, Thaw(f) \/ \E s \in AllScopes, d \in Duration : FreezeConfirm(f, s, d)
       PROVE  Wary' /\ Kept
    BY <1>8, <1>10, <1>19 DEF Thaw, FreezeConfirm
<1>20. ASSUME NEW r \in Req, NEW s \in Lifecycle!Resolution, Settle(r, s) PROVE Wary' /\ Kept
    BY <1>8, <1>10, <1>20 DEF Settle
<1>21. CASE Restart
    BY <1>10, <1>11, <1>21 DEF Restart, At
<1>22. CASE Tick \/ UNCHANGED vars
    BY <1>8, <1>10, <1>11, <1>22 DEF Tick, vars
<1>. HIDE DEF Told, Has, Wary, Kept
<1>. QED
    BY <1>11, <1>12, <1>13, <1>14, <1>15, <1>16, <1>17, <1>18, <1>19, <1>20, <1>21, <1>22
       DEF Next, Tap, Advance

\* A freeze that is thawed or over stays so, and no freeze is written twice.
LEMMA SpentKept ==
    ASSUME TypeOK, [Next]_vars, NEW f \in Freeze, f \in Created, ~FreezesAll(f)
    PROVE  (f \in Created)' /\ ~FreezesAll(f)'
<1>. USE DEF Created, FreezesAll, InForce, NoFreeze
<1>1. ASSUME UNCHANGED <<freezes, clock>> PROVE (f \in Created)' /\ ~FreezesAll(f)'
    BY <1>1
<1>2. ASSUME NEW h \in Handler, NEW t \in Task, Tap(h, t) \/ Advance(h, t)
      PROVE  UNCHANGED <<freezes, clock>>
    BY <1>2 DEF Tap, Advance, Open, Choose, Leave, Confirm, Block, Fetch, Ask, Detail,
                Submit, Wait, Run, Report
<1>3. ASSUME NEW g \in Freeze, Thaw(g) PROVE (f \in Created)' /\ ~FreezesAll(f)'
    BY <1>3 DEF Thaw, TypeOK
<1>4. ASSUME NEW g \in Freeze, NEW s \in AllScopes, NEW d \in Duration, FreezeConfirm(g, s, d)
      PROVE  (f \in Created)' /\ ~FreezesAll(f)'
    BY <1>4 DEF FreezeConfirm, TypeOK
<1>5. ASSUME NEW r \in Req, NEW s \in Lifecycle!Resolution, Settle(r, s)
      PROVE  UNCHANGED <<freezes, clock>>
    BY <1>5 DEF Settle
<1>6. CASE Tick
    <2>1. freezes' = freezes /\ clock' = clock + 1 /\ clock \in Nat /\ freezes[f].until \in Nat
        BY <1>6, GitOpsAssumption DEF Tick, TypeOK
    <2>. QED
        BY <2>1
<1>7. Restart \/ UNCHANGED vars => UNCHANGED <<freezes, clock>>
    BY DEF Restart, vars
<1>. QED
    BY <1>1, <1>2, <1>3, <1>4, <1>5, <1>6, <1>7 DEF Next

\* Open passes only freezes that are spent; nobody else changes what was passed.
LEMMA PassedStep == TypeOK /\ PassedSpent /\ [Next]_vars => PassedSpent'
<1>. SUFFICES ASSUME TypeOK, PassedSpent, [Next]_vars, NEW u \in Task, NEW f \in passed'[u]
              PROVE  (f \in Created)' /\ ~FreezesAll(f)'
    BY DEF PassedSpent
<1>1. f \in passed[u] => f \in Freeze /\ f \in Created /\ ~FreezesAll(f)
    BY DEF PassedSpent, TypeOK
<1>2. ASSUME NEW h \in Handler, NEW t \in Task, Open(h, t)
      PROVE  f \in Freeze /\ f \in Created /\ ~FreezesAll(f)
    <2>1. CASE f \in passed[u]
        BY <1>1, <2>1
    <2>2. CASE f \notin passed[u]
        <3>1. Visible(t.app) = {} /\ f \in Created
            BY <1>2, <2>2 DEF Open, TypeOK
        <3>. QED
            BY <3>1 DEF Visible, Created, FreezesAll
    <2>. QED
        BY <2>1, <2>2
<1>3. ASSUME NEW h \in Handler, NEW t \in Task,
             Choose(h, t) \/ Leave(h, t) \/ Confirm(h, t) \/ Advance(h, t)
      PROVE  passed' = passed
    BY <1>3 DEF Choose, Leave, Confirm, Advance, Block, Fetch, Ask, Detail, Submit, Wait, Run, Report
<1>4. ASSUME NEW g \in Freeze, Thaw(g) \/ \E s \in AllScopes, d \in Duration : FreezeConfirm(g, s, d)
      PROVE  passed' = passed
    BY <1>4 DEF Thaw, FreezeConfirm
<1>5. ASSUME NEW r \in Req, NEW s \in Lifecycle!Resolution, Settle(r, s) PROVE passed' = passed
    BY <1>5 DEF Settle
<1>6. Tick \/ Restart \/ UNCHANGED vars => passed' = passed
    BY DEF Tick, Restart, vars
<1>7. f \in Freeze /\ f \in Created /\ ~FreezesAll(f)
    BY <1>1, <1>2, <1>3, <1>4, <1>5, <1>6 DEF Next, Tap
<1>. QED
    BY <1>7, SpentKept

-----------------------------------------------------------------------------
\* Nothing has happened at the start: no goroutine, request, execution or
\* freeze.
LEMMA InitIInv == Init => IInv
<1>. SUFFICES ASSUME Init PROVE IInv
    OBVIOUS
<1>1. TypeOK
    BY GitOpsAssumption DEF Init, TypeOK, Plain, Screen, Stage, NoFreeze, Lifecycle!Init, Lifecycle!Status
<1>2. Paid
    <2>1. ASSUME NEW t \in Task PROVE PaidFor(t)
        <3>1. Runners(t) = {} /\ runs[t] = 0 /\ failures[t] = 0
            BY DEF Init, Runners, At
        <3>2. Cardinality(Runners(t)) = 0
            BY <3>1, FS_EmptySet
        <3>. QED
            BY <3>1, <3>2, GitOpsAssumption DEF PaidFor
    <2>. QED
        BY <2>1 DEF Paid
<1>3. WaitsStored
    BY DEF Init, WaitsStored, At, Plain
<1>4. PassedSpent
    BY DEF Init, PassedSpent
<1>. QED
    BY <1>1, <1>2, <1>3, <1>4 DEF IInv

\* The invariant holds throughout.
THEOREM InductiveInvariant == Spec => []IInv
<1>1. IInv /\ [Next]_vars => IInv'
    BY TypeStep, PaidStep, WaitsStep, PassedStep DEF IInv
<1>. QED
    BY InitIInv, <1>1, PTL DEF Spec

\* Type correctness (all variables of GitOps).
THEOREM TypeTheorem == Spec => []TypeOK
<1>1. IInv => TypeOK
    BY DEF IInv
<1>. QED
    BY InductiveInvariant, <1>1, PTL

\* A gated operation is executed only for want of a request, for any number of
\* goroutines, taps, answers and restarts (CheckAndSubmit and its callers).
THEOREM GatedTheorem == Spec => []GatedRunsOnlyOnFailure
<1>1. IInv => GatedRunsOnlyOnFailure
    <2>. SUFFICES ASSUME IInv, NEW t \in Task, Gated(t)
                  PROVE  runs[t] <= MaxRetries * failures[t]
        BY DEF GatedRunsOnlyOnFailure
    <2>. DEFINE r == Cardinality(Runners(t))
    <2>1. MaxRetries * r \in Nat /\ runs[t] \in Nat /\ failures[t] \in Nat /\ MaxRetries * failures[t] \in Nat
        BY RunnersFinite, Attempts, GitOpsAssumption DEF IInv, TypeOK
    <2>2. runs[t] + MaxRetries * r <= MaxRetries * failures[t]
        BY DEF IInv, Paid, PaidFor
    <2>. QED
        BY <2>1, <2>2
<1>. QED
    BY InductiveInvariant, <1>1, PTL

\* Who is told to wait waits for a stored request (handleSyncConfirm,
\* handleRollbackConfirm).
THEOREM WaitingTheorem == Spec => []WaitingHasRequest
<1>1. IInv => WaitingHasRequest
    BY DEF IInv, WaitsStored, Stored, WaitingHasRequest
<1>. QED
    BY InductiveInvariant, <1>1, PTL

\* At an execution, a freeze of all clusters is younger than the check that the
\* dialog passed (handleSync, handleRollback).
THEOREM FreezeTheorem == Spec => FreezeHoldsOffNewDialogs
<1>1. IInv => [\A t \in Task : runs'[t] # runs[t] => \A f \in passed[t] : ~FreezesAll(f)]_vars
    BY DEF IInv, PassedSpent
<1>. QED
    BY InductiveInvariant, <1>1, PTL DEF FreezeHoldsOffNewDialogs

\* The requests that the dialogs store and others settle live the life of module
\* ApprovalLifecycle, which the workflow promises: no tap, retry or restart opens a
\* request twice or touches one that is settled (CheckAndSubmit and its callers).
THEOREM LifecycleTheorem == Spec => Lifecycle!Spec
<1>1. Init => Lifecycle!Init
    BY DEF Init
<1>2. TypeOK /\ TypeOK' /\ [Next]_vars => [Lifecycle!Next]_status
    <2>. SUFFICES ASSUME TypeOK, TypeOK', [Next]_vars, NEW r \in Req, status'[r] # status[r]
                  PROVE  Lifecycle!Move(status[r], status'[r])
        BY DEF TypeOK, Lifecycle!Next
    <2>1. ASSUME NEW h \in Handler, NEW t \in Task, Submit(h, t)
          PROVE  status[r] = "none" /\ status'[r] = "pending"
        BY <2>1 DEF Submit, TypeOK
    <2>2. ASSUME NEW q \in Req, NEW s \in Lifecycle!Resolution, Settle(q, s)
          PROVE  status[r] = "pending" /\ status'[r] \in Lifecycle!Resolution
        BY <2>2 DEF Settle, TypeOK
    <2>3. ASSUME NEW h \in Handler, NEW t \in Task,
                 Open(h, t) \/ Choose(h, t) \/ Leave(h, t) \/ Confirm(h, t)
                    \/ Block(h, t) \/ Fetch(h, t) \/ Ask(h, t) \/ Detail(h, t)
                    \/ Wait(h, t) \/ Run(h, t) \/ Report(h, t)
          PROVE  FALSE
        BY <2>3 DEF Open, Choose, Leave, Confirm, Block, Fetch, Ask, Detail, Wait, Run, Report
    <2>4. ASSUME NEW f \in Freeze, Thaw(f) \/ \E s \in AllScopes, d \in Duration : FreezeConfirm(f, s, d)
          PROVE  FALSE
        BY <2>4 DEF Thaw, FreezeConfirm
    <2>5. ~Tick /\ ~Restart /\ ~UNCHANGED vars
        BY DEF Tick, Restart, vars
    <2>. QED
        BY <2>1, <2>2, <2>3, <2>4, <2>5 DEF Next, Tap, Advance, Lifecycle!Move
<1>. QED
    BY <1>1, <1>2, TypeTheorem, PTL DEF Spec, Lifecycle!Spec
=============================================================================
