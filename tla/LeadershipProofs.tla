--------------------------- MODULE LeadershipProofs --------------------------
(***************************************************************************)
(* Proofs about what the processes share and how they take turns: the      *)
(* leader election, the cluster manager and the briefing of the leader.    *)
(***************************************************************************)
EXTENDS Leadership, ClusterManager, Briefing, TLAPS

-----------------------------------------------------------------------------
(***************************************************************************)
(* Proofs about module Leadership, for any set of replicas and any         *)
(* durations that satisfy LeadershipAssumption.                            *)
(*                                                                         *)
(* A leader holds the lease, and the lease is younger than LeaseDuration   *)
(* for as long as the leader tries: by the clock of its own renewals it is *)
(* at most Lag behind.  So nobody else finds the lease free.               *)
(***************************************************************************)

\* A leader holds the lease and knows its age up to Lag.
LeaderHolds ==
    \A p \in Replica : elector[p] = "leading" =>
        lease.holder = p /\ lease.age <= since[p] + Lag

\* Tasks of an elected replica run only under the leader's context, and
\* neither tasks nor an elector run where there is no process.
WorkUnderContext ==
    \A p \in Replica :
        /\ WorksElected(p) => elector[p] \in {"leading", "release", "cancel"}
        /\ proc[p] = "off" => live[p] = {} /\ elector[p] = "none"

LeadershipInv == TypeOK /\ LeaderHolds /\ WorkUnderContext

\* A lease that a leader holds is free for nobody else.
LEMMA HeldIsNotFree ==
    ASSUME LeadershipInv, NEW p \in Replica, NEW q \in Replica,
           elector[p] = "leading", Free(q)
    PROVE  p = q
<1>1. lease.holder = p /\ lease.age <= since[p] + Lag
    BY DEF LeadershipInv, LeaderHolds
<1>2. since[p] \in 0..Patience /\ lease.age \in Nat
    BY DEF LeadershipInv, TypeOK
<1>3. lease.age < LeaseDuration
    BY <1>1, <1>2, LeadershipAssumption
<1>4. lease.holder # Nobody
    BY <1>1, LeadershipAssumption
<1>. QED
    BY <1>1, <1>2, <1>3, <1>4, LeadershipAssumption DEF Free, Identity

-----------------------------------------------------------------------------
\* The types are kept by every step.
LEMMA LeadershipTypeStep == TypeOK /\ [Next]_vars => TypeOK'
<1>. SUFFICES ASSUME TypeOK, [Next]_vars PROVE TypeOK'
    OBVIOUS
<1>. USE LeadershipAssumption DEF TypeOK, Task, ElectorAt, Identity
<1>1. ASSUME NEW p \in Replica, Boot(p) PROVE TypeOK'
    BY <1>1 DEF Boot
<1>2. ASSUME NEW p \in Replica, Terminate(p) PROVE TypeOK'
    BY <1>2 DEF Terminate
<1>3. ASSUME NEW p \in Replica, Exit(p) PROVE TypeOK'
    BY <1>3 DEF Exit
<1>4. ASSUME NEW p \in Replica, NEW t \in Task, StopModule(p, t) PROVE TypeOK'
    BY <1>4 DEF StopModule
<1>5. ASSUME NEW p \in Replica, Write(p)
      PROVE  lease' \in [holder : Replica \cup {Nobody}, age : 0..LeaseDuration]
    BY <1>5 DEF Write
<1>6. ASSUME NEW p \in Replica, NEW a \in BOOLEAN, Acquire(p, a) PROVE TypeOK'
    BY <1>5, <1>6 DEF Acquire
<1>7. ASSUME NEW p \in Replica, NEW a \in BOOLEAN, Renew(p, a) PROVE TypeOK'
    <2>1. since' \in [Replica -> 0..Patience]
        BY <1>7 DEF Renew
    <2>. QED
        BY <1>5, <1>7, <2>1 DEF Renew
<1>8. ASSUME NEW p \in Replica, StepDown(p) PROVE TypeOK'
    <2>1. CASE GiveUp(p)
        BY <2>1 DEF GiveUp
    <2>2. CASE Release(p)
        BY <2>2 DEF Release
    <2>3. CASE CancelContext(p)
        BY <2>3 DEF CancelContext
    <2>4. CASE Withdraw(p)
        BY <2>4 DEF Withdraw
    <2>5. CASE StoppedLeading(p)
        <3>1. CASE elector[p] = "unflag"
            BY <2>5, <3>1 DEF StoppedLeading
        <3>2. CASE elector[p] \in Task
            BY <2>5, <3>2 DEF StoppedLeading
        <3>. QED
            BY <2>5, <3>1, <3>2 DEF StoppedLeading
    <2>. QED
        BY <1>8, <2>1, <2>2, <2>3, <2>4, <2>5 DEF StepDown
<1>9. ASSUME NEW p \in Replica, StartedLeading(p) PROVE TypeOK'
    <2>1. CASE callback[p] = "flag"
        BY <1>9, <2>1 DEF StartedLeading, StartTask
    <2>2. ASSUME NEW t \in Task, StartTask(p, t) PROVE TypeOK'
        <3>1. live' \in [Replica -> SUBSET Task] /\ running' \in [Replica -> SUBSET Task]
            BY <2>2 DEF StartTask
        <3>. QED
            BY <2>2, <3>1 DEF StartTask
    <2>. QED
        BY <1>9, <2>1, <2>2 DEF StartedLeading
<1>10. CASE Tick
    <2>1. lease'.age \in 0..LeaseDuration /\ lease' \in [holder : Replica \cup {Nobody}, age : 0..LeaseDuration]
        BY <1>10 DEF Tick
    <2>2. since' \in [Replica -> 0..Patience]
        BY <1>10 DEF Tick
    <2>. QED
        BY <1>10, <2>1, <2>2 DEF Tick
<1>11. CASE UNCHANGED vars
    BY <1>11 DEF vars
<1>. QED
    BY <1>1, <1>2, <1>3, <1>4, <1>6, <1>7, <1>8, <1>9, <1>10, <1>11 DEF Next

\* Nobody takes the lease from a leader, and time brings a leader no nearer
\* to the end of its lease than to the end of its patience.
LEMMA HoldStep == LeadershipInv /\ [Next]_vars => LeaderHolds'
<1>. SUFFICES ASSUME LeadershipInv, [Next]_vars PROVE LeaderHolds'
    OBVIOUS
<1>. USE LeadershipAssumption DEF LeadershipInv, TypeOK, LeaderHolds, Identity
<1>1. ASSUME NEW p \in Replica, Boot(p) PROVE LeaderHolds'
    BY <1>1 DEF Boot, ElectorAt
<1>2. ASSUME NEW p \in Replica, Terminate(p) PROVE LeaderHolds'
    BY <1>2 DEF Terminate
<1>3. ASSUME NEW p \in Replica, Exit(p) PROVE LeaderHolds'
    BY <1>3 DEF Exit, ElectorAt
<1>4. ASSUME NEW p \in Replica, NEW t \in Task, StopModule(p, t) PROVE LeaderHolds'
    BY <1>4 DEF StopModule
<1>6. ASSUME NEW p \in Replica, NEW a \in BOOLEAN, Acquire(p, a) PROVE LeaderHolds'
    <2>1. \A q \in Replica : elector[q] # "leading"
        BY <1>6, HeldIsNotFree DEF Acquire
    <2>2. lease'.holder = p /\ lease'.age <= Lag
        BY <1>6 DEF Acquire, Write
    <2>3. CASE a
        <3>1. since'[p] = 0 /\ \A q \in Replica : elector'[q] = "leading" => q = p
            BY <1>6, <2>1, <2>3 DEF Acquire, ElectorAt
        <3>. QED
            BY <2>2, <3>1
    <2>4. CASE ~a
        BY <1>6, <2>1, <2>4 DEF Acquire
    <2>. QED
        BY <2>3, <2>4
<1>7. ASSUME NEW p \in Replica, NEW a \in BOOLEAN, Renew(p, a) PROVE LeaderHolds'
    <2>1. \A q \in Replica : elector'[q] = "leading" => q = p
        BY <1>7 DEF Renew
    <2>2. lease'.holder = p /\ lease'.age \in 0..Lag
        BY <1>7 DEF Renew, Write
    <2>3. since'[p] \in Nat
        BY <1>7 DEF Renew
    <2>. QED
        BY <2>1, <2>2, <2>3
<1>8. ASSUME NEW p \in Replica, StepDown(p) PROVE LeaderHolds'
    <2>1. ASSUME NEW q \in Replica, elector'[q] = "leading"
          PROVE  elector[q] = "leading" /\ q # p
        BY <1>8, <2>1
        DEF StepDown, GiveUp, Release, CancelContext, Withdraw, StoppedLeading, ElectorAt, Task
    <2>2. ASSUME NEW q \in Replica, q # p PROVE since'[q] = since[q]
        BY <1>8, <2>2 DEF StepDown, GiveUp, Release, CancelContext, Withdraw, StoppedLeading
    <2>3. lease' = lease \/ lease.holder = p
        BY <1>8 DEF StepDown, GiveUp, Release, CancelContext, Withdraw, StoppedLeading
    <2>. QED
        BY <2>1, <2>2, <2>3
<1>9. ASSUME NEW p \in Replica, StartedLeading(p) PROVE LeaderHolds'
    BY <1>9 DEF StartedLeading, StartTask
<1>10. CASE Tick
    <2>1. lease'.holder = lease.holder /\ lease'.age <= lease.age + 1
        BY <1>10 DEF Tick
    <2>2. ASSUME NEW q \in Replica, elector[q] = "leading" PROVE since'[q] = since[q] + 1
        BY <1>10, <2>2 DEF Tick
    <2>3. lease'.age \in Nat /\ elector' = elector
        BY <1>10 DEF Tick
    <2>. QED
        BY <2>1, <2>2, <2>3
<1>11. CASE UNCHANGED vars
    BY <1>11 DEF vars
<1>. QED
    BY <1>1, <1>2, <1>3, <1>4, <1>6, <1>7, <1>8, <1>9, <1>10, <1>11 DEF Next

\* The tasks are started under the leader's context and end with it.
LEMMA WorkStep == LeadershipInv /\ [Next]_vars => WorkUnderContext'
<1>. SUFFICES ASSUME LeadershipInv, [Next]_vars PROVE WorkUnderContext'
    OBVIOUS
<1>. USE DEF LeadershipInv, TypeOK, WorkUnderContext, WorksElected, Task, ElectorAt
<1>1. ASSUME NEW p \in Replica, Boot(p) PROVE WorkUnderContext'
    <2>1. CASE elector' = [elector EXCEPT ![p] = "campaign"] /\ live' = live
        BY <1>1, <2>1 DEF Boot
    <2>2. CASE elector' = elector /\ live' = [live EXCEPT ![p] = Task]
        <3>1. ASSUME NEW q \in Replica, q # p
              PROVE  live'[q] = live[q] /\ proc'[q] = proc[q]
            BY <1>1, <2>2, <3>1 DEF Boot
        <3>2. proc'[p] = "up"
            BY <1>1 DEF Boot
        <3>3. elector[p] = "none"
            BY <1>1 DEF Boot
        <3>. QED
            BY <2>2, <3>1, <3>2, <3>3
    <2>. QED
        BY <1>1, <2>1, <2>2 DEF Boot
<1>2. ASSUME NEW p \in Replica, Terminate(p) PROVE WorkUnderContext'
    BY <1>2 DEF Terminate
<1>3. ASSUME NEW p \in Replica, Exit(p) PROVE WorkUnderContext'
    BY <1>3 DEF Exit
<1>4. ASSUME NEW p \in Replica, NEW t \in Task, StopModule(p, t) PROVE WorkUnderContext'
    BY <1>4 DEF StopModule
<1>6. ASSUME NEW p \in Replica, NEW a \in BOOLEAN, Acquire(p, a) PROVE WorkUnderContext'
    BY <1>6 DEF Acquire
<1>7. ASSUME NEW p \in Replica, NEW a \in BOOLEAN, Renew(p, a) PROVE WorkUnderContext'
    BY <1>7 DEF Renew
<1>8. ASSUME NEW p \in Replica, StepDown(p) PROVE WorkUnderContext'
    BY <1>8 DEF StepDown, GiveUp, Release, CancelContext, Withdraw, StoppedLeading
<1>9. ASSUME NEW p \in Replica, StartedLeading(p) PROVE WorkUnderContext'
    BY <1>9 DEF StartedLeading, StartTask, Leads
<1>10. CASE Tick
    BY <1>10 DEF Tick
<1>11. CASE UNCHANGED vars
    BY <1>11 DEF vars
<1>. QED
    BY <1>1, <1>2, <1>3, <1>4, <1>6, <1>7, <1>8, <1>9, <1>10, <1>11 DEF Next

LEMMA LeadershipInitInv == Init => LeadershipInv
BY LeadershipAssumption
DEF Init, LeadershipInv, TypeOK, LeaderHolds, WorkUnderContext, WorksElected, Task

\* The invariant that the theorems below follow from.
THEOREM LeadershipInvariant == Spec => []LeadershipInv
<1>1. LeadershipInv /\ [Next]_vars => LeadershipInv'
    BY LeadershipTypeStep, HoldStep, WorkStep DEF LeadershipInv
<1>. QED
    BY <1>1, LeadershipInitInv, PTL DEF Spec
-----------------------------------------------------------------------------
\* Every variable keeps to its type: in particular no leader outlives its
\* Patience and the tasks are the two that the application starts.
THEOREM LeadershipTypeTheorem == Spec => []TypeOK
<1>1. LeadershipInv => TypeOK
    BY DEF LeadershipInv
<1>. QED
    BY <1>1, LeadershipInvariant, PTL

\* At most one elector is in its renew loop (elector.Start, DefaultConfig).
THEOREM LeaderTheorem == Spec => []OneLeader
<1>1. LeadershipInv => OneLeader
    BY DEF LeadershipInv, LeaderHolds, OneLeader
<1>. QED
    BY <1>1, LeadershipInvariant, PTL

\* Elected replicas work side by side only while one of them gives the lease
\* back (startBackgroundTasks under the leader's context).
THEOREM WorkerTheorem == Spec => []OneWorker
<1>1. LeadershipInv => OneWorker
    BY DEF LeadershipInv, LeaderHolds, WorkUnderContext, OneWorker
<1>. QED
    BY <1>1, LeadershipInvariant, PTL

-----------------------------------------------------------------------------
(* What module Briefing leaves to this one: who has a scheduler.           *)

\* The processes whose briefing scheduler is running.
Briefers == {p \in Replica : "briefing" \in live[p]}

HandsOver(p) == elector[p] \in {"release", "cancel"}

\* Schedulers come and go one process at a time, and when an elected process gets
\* one beside that of another elected process, one of the two is giving its lease back
\* (startBackgroundTasks, elector.Start).
TakeTurns ==
    [][\E p \in Replica :
          \/ Briefers' = Briefers \ {p}
          \/ /\ Briefers' = Briefers \cup {p}
             /\ \A q \in Briefers \ {p} :
                   elector[p] # "none" /\ elector[q] # "none" => HandsOver(p) \/ HandsOver(q)]_Briefers

\* One process at a time gains or loses tasks; who gains the briefing does so
\* without an elector or under the context of a leader.
LEMMA OneAtATime ==
    ASSUME LeadershipInv, [Next]_vars, Briefers' # Briefers
    PROVE  \E p \in Replica :
               \/ Briefers' = Briefers \ {p}
               \/ /\ Briefers' = Briefers \cup {p}
                  /\ elector[p] = "none" \/ Leads(p)
<1>. USE DEF LeadershipInv, TypeOK, Briefers, Task, ElectorAt
<1>1. ASSUME NEW p \in Replica, NEW S, live' = [live EXCEPT ![p] = S], "briefing" \notin S
      PROVE  Briefers' = Briefers \ {p}
    BY <1>1
<1>2. ASSUME NEW p \in Replica, NEW S, live' = [live EXCEPT ![p] = S], "briefing" \in S
      PROVE  Briefers' = Briefers \cup {p}
    BY <1>2
<1>3. ASSUME NEW p \in Replica, Boot(p), live' # live
      PROVE  live' = [live EXCEPT ![p] = Task] /\ elector[p] = "none"
    BY <1>3 DEF Boot, WorkUnderContext
<1>4. ASSUME NEW p \in Replica, Terminate(p) \/ Exit(p) \/ CancelContext(p)
      PROVE  live' = [live EXCEPT ![p] = {}]
    BY <1>4 DEF Terminate, Exit, CancelContext
<1>5. ASSUME NEW p \in Replica, StoppedLeading(p), live' # live
      PROVE  live' = [live EXCEPT ![p] = live[p] \ {elector[p]}]
    BY <1>5 DEF StoppedLeading
<1>6. ASSUME NEW p \in Replica, NEW t \in Task, StartTask(p, t), live' # live
      PROVE  live' = [live EXCEPT ![p] = live[p] \cup {t}] /\ Leads(p)
    BY <1>6 DEF StartTask
<1>. QED
    <2>1. live' # live
        OBVIOUS
    <2>2. ASSUME NEW p \in Replica, NEW t \in Task, StopModule(p, t) PROVE FALSE
        BY <2>1, <2>2 DEF StopModule
    <2>3. ASSUME NEW p \in Replica, NEW a \in BOOLEAN, Acquire(p, a) \/ Renew(p, a) PROVE FALSE
        BY <2>1, <2>3 DEF Acquire, Renew
    <2>4. ASSUME NEW p \in Replica, StepDown(p) PROVE CancelContext(p) \/ StoppedLeading(p)
        BY <2>1, <2>4 DEF StepDown, GiveUp, Release, Withdraw
    <2>5. ASSUME NEW p \in Replica, StartedLeading(p) PROVE \E t \in Task : StartTask(p, t)
        BY <2>1, <2>5 DEF StartedLeading
    <2>6. PICK p \in Replica :
              \/ Boot(p) \/ Terminate(p) \/ Exit(p) \/ CancelContext(p) \/ StoppedLeading(p)
              \/ \E t \in Task : StartTask(p, t)
        BY <2>1, <2>2, <2>3, <2>4, <2>5 DEF Next, Tick, vars
    <2>7. CASE Boot(p)
        BY <1>2, <1>3, <2>1, <2>7
    <2>8. CASE Terminate(p) \/ Exit(p) \/ CancelContext(p)
        BY <1>1, <1>4, <2>8
    <2>9. CASE StoppedLeading(p)
        <3>1. live' = [live EXCEPT ![p] = live[p] \ {elector[p]}]
            BY <1>5, <2>1, <2>9
        <3>2. "briefing" \notin live[p] \ {elector[p]}
            BY <1>2, <3>1
        <3>. QED
            BY <1>1, <3>1, <3>2
    <2>10. ASSUME NEW t \in Task, StartTask(p, t)
           PROVE  Briefers' = Briefers \cup {p} /\ Leads(p)
        <3>1. live' = [live EXCEPT ![p] = live[p] \cup {t}] /\ Leads(p)
            BY <1>6, <2>1, <2>10
        <3>2. "briefing" \in live[p] \cup {t}
            BY <1>1, <3>1
        <3>. QED
            BY <1>2, <3>1, <3>2
    <2>. QED
        BY <2>6, <2>7, <2>8, <2>9, <2>10

\* The schedulers of elected processes overlap in a hand-over only.
THEOREM TurnsTheorem == Spec => TakeTurns
<1>1. LeadershipInv /\ [Next]_vars =>
          [\E p \in Replica :
              \/ Briefers' = Briefers \ {p}
              \/ /\ Briefers' = Briefers \cup {p}
                 /\ \A q \in Briefers \ {p} :
                       elector[p] # "none" /\ elector[q] # "none" =>
                           HandsOver(p) \/ HandsOver(q)]_Briefers
    <2>. SUFFICES ASSUME LeadershipInv, [Next]_vars, Briefers' # Briefers
                  PROVE  \E p \in Replica :
                            \/ Briefers' = Briefers \ {p}
                            \/ /\ Briefers' = Briefers \cup {p}
                               /\ \A q \in Briefers \ {p} :
                                     elector[p] # "none" /\ elector[q] # "none" =>
                                         HandsOver(p) \/ HandsOver(q)
        OBVIOUS
    <2>1. ASSUME NEW p \in Replica, elector[p] = "none" \/ Leads(p),
                 NEW q \in Briefers \ {p}, elector[p] # "none", elector[q] # "none"
          PROVE  HandsOver(p) \/ HandsOver(q)
        <3>1. q \in Replica /\ q # p /\ WorksElected(q)
            BY <2>1 DEF Briefers, WorksElected
        <3>2. /\ elector[p] \in {"leading", "release", "cancel"}
              /\ elector[q] \in {"leading", "release", "cancel"}
            BY <2>1, <3>1 DEF LeadershipInv, WorkUnderContext, Leads
        <3>. QED
            BY <3>1, <3>2 DEF LeadershipInv, LeaderHolds, HandsOver
    <2>. QED
        BY <2>1, OneAtATime
<1>. QED
    BY <1>1, LeadershipInvariant, PTL DEF Spec, TakeTurns

-----------------------------------------------------------------------------
(***************************************************************************)
(* Proofs about module ClusterManager, for any callers and clusters and    *)
(* any number of clients built.                                            *)
(*                                                                         *)
(* That one set of clients is built for a cluster needs no more than the   *)
(* second look under the write lock: whoever is given clients finds them   *)
(* in the entry or enters them into one that was empty.  That a writer is  *)
(* alone with the entries is shown beside it.                              *)
(***************************************************************************)

\* A caller inside getOrCreateClients knows which cluster it is there for.
AsksForOne ==
    \A p \in Caller : pc[p] \in {"look", "lock", "create"} => on[p] \in Cluster

\* A goroutine in line for the lock, or with it, is at the step that needs it, and
\* whoever is at a step that reads has the lock or is in line.
LockIsUsed ==
    /\ \A p \in readers \cup queued :
          /\ p = Checker => pc[p] = "check"
          /\ p # Checker => pc[p] \in {"look", "copy"}
    /\ \A p \in Proc : pc[p] \in {"look", "copy", "check"} => p \in readers \cup queued
    /\ writer # NoWriter => pc[writer] = "create"
    /\ \A p \in Caller : pc[p] = "create" => writer = p
    /\ pc[Checker] \in {"idle", "check"}
    /\ readers \cap queued = {}
    /\ writer = NoWriter => queued = {}

\* An invariant of the manager: while a writer is at the entries nobody reads
\* them, and one writer at most is there or on the way.
WriterIsAlone ==
    \A p, q \in Proc :
        /\ pc[p] = "create" /\ pc[q] = "create" => p = q
        /\ pc[p] = "create" /\ Locked(p) => q \notin readers

\* The goroutine has what its next step waits for.
MayGo(p) ==
    CASE pc[p] \in {"look", "copy", "check"} -> p \in readers
      [] pc[p] = "lock"                      -> writer = NoWriter
      [] pc[p] = "create"                    -> Locked(p)
      [] OTHER                               -> FALSE

\* Whoever waits does so for a goroutine that can go on, or for a writer that waits
\* only for those: no line of waiting ends nowhere, or in itself.
NobodyIsStuck ==
    \A p \in Proc : pc[p] # "idle" =>
        \/ MayGo(p)
        \/ writer # NoWriter /\ (MayGo(writer) \/ \E q \in readers : MayGo(q))

ManagerInv == ManagerTypeOK /\ AsksForOne /\ LockIsUsed /\ OneClient

-----------------------------------------------------------------------------
\* The types are kept by every step.
LEMMA ManagerTypeStep == ManagerTypeOK /\ AsksForOne /\ [Managing]_manager => ManagerTypeOK'
<1>. SUFFICES ASSUME ManagerTypeOK, AsksForOne, [Managing]_manager PROVE ManagerTypeOK'
    OBVIOUS
<1>. USE ManagerAssumption DEF ManagerTypeOK, Proc, entries, lock, Goto
<1>1. ASSUME NEW p \in Caller, NEW c \in Cluster, Ask(p, c) PROVE ManagerTypeOK'
    BY <1>1 DEF Ask, RLock
<1>2. ASSUME NEW p \in Caller, AskInfo(p) PROVE ManagerTypeOK'
    BY <1>2 DEF AskInfo, RLock
<1>3. ASSUME NEW p \in Caller, Copy(p) PROVE ManagerTypeOK'
    BY <1>3 DEF Copy, RUnlock
<1>4. ASSUME NEW p \in Caller, Look(p) PROVE ManagerTypeOK'
    <2>1. on[p] \in Cluster
        BY <1>4 DEF Look, AsksForOne
    <2>2. CASE clients[on[p]] # 0
        <3>1. handed' \in [Cluster -> SUBSET (1..MaxBuilt)]
            BY <1>4, <2>1, <2>2 DEF Look, Gives
        <3>. QED
            BY <1>4, <2>2, <3>1 DEF Look, Return, RUnlock
    <2>3. CASE clients[on[p]] = 0
        BY <1>4, <2>3 DEF Look, RUnlock
    <2>. QED
        BY <2>2, <2>3
<1>5. ASSUME NEW p \in Caller, WantLock(p) PROVE ManagerTypeOK'
    BY <1>5 DEF WantLock, Lock
<1>6. ASSUME NEW p \in Caller, Create(p) PROVE ManagerTypeOK'
    <2>. DEFINE c == on[p]
    <2>1. c \in Cluster
        BY <1>6 DEF Create, AsksForOne
    <2>2. /\ clients' \in [Cluster -> 0..MaxBuilt]
          /\ status' \in [Cluster -> {"unknown", "healthy", "unhealthy"}]
          /\ built' \in 0..MaxBuilt
          /\ handed' \in [Cluster -> SUBSET (1..MaxBuilt)]
        <3>1. CASE clients[c] # 0
            BY <1>6, <2>1, <3>1 DEF Create, Gives
        <3>2. CASE Build(c)
            BY <2>1, <3>2 DEF Build, Gives
        <3>3. CASE CannotBuild(c)
            BY <2>1, <3>3 DEF CannotBuild
        <3>. QED
            BY <1>6, <3>1, <3>2, <3>3 DEF Create
    <2>3. pc' \in [Proc -> {"idle", "copy", "look", "lock", "create", "check"}]
          /\ on' \in [Caller -> Cluster \cup {NoCluster}]
        BY <1>6 DEF Create, Return
    <2>4. readers' \subseteq Proc /\ queued' \subseteq Proc
          /\ writer' \in Caller \cup {NoWriter}
        BY <1>6 DEF Create, Unlock
    <2>. QED
        BY <1>6, <2>2, <2>3, <2>4 DEF Create
<1>7. ASSUME CheckerTick PROVE ManagerTypeOK'
    BY <1>7 DEF CheckerTick, RLock
<1>8. ASSUME NEW c \in Cluster, HealthCheck(c) PROVE ManagerTypeOK'
    BY <1>8 DEF HealthCheck
<1>9. ASSUME HealthChecked PROVE ManagerTypeOK'
    BY <1>9 DEF HealthChecked, RUnlock
<1>10. ASSUME Close PROVE ManagerTypeOK'
    BY <1>10 DEF Close
<1>11. CASE UNCHANGED manager
    BY <1>11 DEF manager
<1>. QED
    BY <1>1, <1>2, <1>3, <1>4, <1>5, <1>6, <1>7, <1>8, <1>9, <1>10, <1>11 DEF Managing

\* A caller keeps its cluster until it returns.
LEMMA AsksStep == ManagerTypeOK /\ AsksForOne /\ [Managing]_manager => AsksForOne'
<1>. SUFFICES ASSUME ManagerTypeOK, AsksForOne, [Managing]_manager, NEW q \in Caller,
                     pc'[q] \in {"look", "lock", "create"}
              PROVE  on'[q] \in Cluster
    BY DEF AsksForOne
<1>. USE ManagerAssumption DEF ManagerTypeOK, AsksForOne, Proc, Goto
<1>1. ASSUME NEW p \in Caller, NEW c \in Cluster, Ask(p, c) PROVE on'[q] \in Cluster
    BY <1>1 DEF Ask
<1>2. ASSUME NEW p \in Caller, AskInfo(p) \/ Copy(p) \/ WantLock(p) PROVE on'[q] \in Cluster
    BY <1>2 DEF AskInfo, Copy, WantLock
<1>3. ASSUME NEW p \in Caller, Look(p) \/ Create(p) PROVE on'[q] \in Cluster
    <2>1. CASE Return(p)
        BY <2>1 DEF Return
    <2>2. CASE Goto(p, "lock") /\ UNCHANGED on
        BY <1>3, <2>2 DEF Look, Create
    <2>. QED
        BY <1>3, <2>1, <2>2 DEF Look, Create
<1>4. ASSUME NEW c \in Cluster, CheckerTick \/ HealthCheck(c) \/ HealthChecked \/ Close
      PROVE  on'[q] \in Cluster
    BY <1>4 DEF CheckerTick, HealthCheck, HealthChecked, Close
<1>5. CASE UNCHANGED manager
    BY <1>5 DEF manager
<1>6. ASSUME CheckerTick \/ HealthChecked \/ Close PROVE on'[q] \in Cluster
    BY <1>6 DEF CheckerTick, HealthChecked, Close
<1>. QED
    BY <1>1, <1>2, <1>3, <1>4, <1>5, <1>6 DEF Managing

\* Readers are at the steps that read, the writer at the one that writes.
LEMMA LockStep == ManagerTypeOK /\ LockIsUsed /\ [Managing]_manager => LockIsUsed'
<1>. SUFFICES ASSUME ManagerTypeOK, LockIsUsed, [Managing]_manager PROVE LockIsUsed'
    OBVIOUS
<1>. USE ManagerAssumption DEF ManagerTypeOK, LockIsUsed, Proc, Goto, lock
<1>1. ASSUME NEW p \in Caller, NEW c \in Cluster, Ask(p, c) PROVE LockIsUsed'
    BY <1>1 DEF Ask, RLock
<1>2. ASSUME NEW p \in Caller, AskInfo(p) PROVE LockIsUsed'
    BY <1>2 DEF AskInfo, RLock
<1>3. ASSUME NEW p \in Caller, Copy(p) PROVE LockIsUsed'
    BY <1>3 DEF Copy, RUnlock
<1>4. ASSUME NEW p \in Caller, Look(p) PROVE LockIsUsed'
    <2>1. \E to \in {"idle", "lock"} : pc' = [pc EXCEPT ![p] = to]
        BY <1>4 DEF Look, Return
    <2>. QED
        BY <1>4, <2>1 DEF Look, RUnlock
<1>5. ASSUME NEW p \in Caller, WantLock(p) PROVE LockIsUsed'
    BY <1>5 DEF WantLock, Lock
<1>6. ASSUME NEW p \in Caller, Create(p) PROVE LockIsUsed'
    BY <1>6 DEF Create, Locked, Return, Unlock
<1>7. ASSUME CheckerTick PROVE LockIsUsed'
    BY <1>7 DEF CheckerTick, RLock
<1>8. ASSUME NEW c \in Cluster, HealthCheck(c) PROVE LockIsUsed'
    BY <1>8 DEF HealthCheck
<1>9. ASSUME HealthChecked PROVE LockIsUsed'
    BY <1>9 DEF HealthChecked, RUnlock
<1>10. ASSUME Close PROVE LockIsUsed'
    BY <1>10 DEF Close
<1>11. CASE UNCHANGED manager
    BY <1>11 DEF manager
<1>. QED
    BY <1>1, <1>2, <1>3, <1>4, <1>5, <1>6, <1>7, <1>8, <1>9, <1>10, <1>11 DEF Managing

\* The double check: clients are entered only where the entry was empty, and
\* of an empty entry nobody has been given any.
LEMMA OneStep == ManagerTypeOK /\ AsksForOne /\ OneClient /\ [Managing]_manager => OneClient'
<1>. SUFFICES ASSUME ManagerTypeOK, AsksForOne, OneClient, [Managing]_manager, NEW c \in Cluster
              PROVE  handed'[c] \subseteq {clients'[c]} \ {0}
    BY DEF OneClient
<1>. USE ManagerAssumption DEF ManagerTypeOK, OneClient, entries
<1>1. ASSUME NEW p \in Caller, Look(p) PROVE handed'[c] \subseteq {clients'[c]} \ {0}
    <2>1. on[p] \in Cluster
        BY <1>1 DEF Look, AsksForOne
    <2>. QED
        BY <1>1, <2>1 DEF Look, Gives
<1>2. ASSUME NEW p \in Caller, Create(p) PROVE handed'[c] \subseteq {clients'[c]} \ {0}
    <2>1. on[p] \in Cluster
        BY <1>2 DEF Create, AsksForOne
    <2>2. CASE clients[on[p]] # 0
        BY <1>2, <2>1, <2>2 DEF Create, Gives
    <2>3. CASE clients[on[p]] = 0 /\ Build(on[p])
        <3>1. handed[on[p]] = {}
            BY <2>1, <2>3
        <3>. QED
            BY <2>1, <2>3, <3>1 DEF Build, Gives
    <2>4. CASE CannotBuild(on[p])
        BY <2>4 DEF CannotBuild
    <2>. QED
        BY <1>2, <2>2, <2>3, <2>4 DEF Create
<1>3. CASE UNCHANGED <<clients, handed>>
    BY <1>3
<1>. QED
    BY <1>1, <1>2, <1>3
    DEF Managing, manager, Ask, AskInfo, Copy, WantLock, CheckerTick, HealthCheck, HealthChecked, Close
-----------------------------------------------------------------------------
\* The invariant of the proofs.
LEMMA ManagerInvariant == ManagerSpec => []ManagerInv
<1>1. ManagerInit => ManagerInv
    <2>. SUFFICES ASSUME ManagerInit PROVE ManagerInv
        OBVIOUS
    <2>. USE ManagerAssumption DEF ManagerInit, Proc
    <2>1. ManagerTypeOK
        <3>1. clients \in [Cluster -> 0..MaxBuilt] /\ built \in 0..MaxBuilt
            OBVIOUS
        <3>2. status \in [Cluster -> {"unknown", "healthy", "unhealthy"}]
            OBVIOUS
        <3>3. pc \in [Proc -> {"idle", "copy", "look", "lock", "create", "check"}]
            OBVIOUS
        <3>4. on \in [Caller -> Cluster \cup {NoCluster}]
            OBVIOUS
        <3>5. handed \in [Cluster -> SUBSET (1..MaxBuilt)]
            OBVIOUS
        <3>. QED
            BY <3>1, <3>2, <3>3, <3>4, <3>5 DEF ManagerTypeOK
    <2>2. AsksForOne
        BY DEF AsksForOne
    <2>3. LockIsUsed
        BY DEF LockIsUsed
    <2>4. OneClient
        BY DEF OneClient
    <2>. QED
        BY <2>1, <2>2, <2>3, <2>4 DEF ManagerInv
<1>2. ManagerInv /\ [Managing]_manager => ManagerInv'
    BY ManagerTypeStep, AsksStep, LockStep, OneStep DEF ManagerInv
<1>. QED
    BY <1>1, <1>2, PTL DEF ManagerSpec

\* The types hold (NewManager and every method).
THEOREM ManagerTypeTheorem == ManagerSpec => []ManagerTypeOK
<1>1. ManagerInv => ManagerTypeOK
    BY DEF ManagerInv
<1>. QED
    BY <1>1, ManagerInvariant, PTL

\* However many callers ask at once, all are given the one set of clients that
\* was built for the cluster (getOrCreateClients).
THEOREM OneClientTheorem == ManagerSpec => []OneClient
<1>1. ManagerInv => OneClient
    BY DEF ManagerInv
<1>. QED
    BY <1>1, ManagerInvariant, PTL

\* The entries are written under the write lock with nobody reading, the health
\* check's status apart (getOrCreateClients, ClientSet, List, HealthCheck).
THEOREM WriterTheorem == ManagerSpec => []WriterIsAlone
<1>1. ManagerInv => WriterIsAlone
    <2>. SUFFICES ASSUME ManagerInv, NEW p \in Proc, NEW q \in Proc, pc[p] = "create"
                  PROVE  /\ pc[q] = "create" => p = q
                         /\ Locked(p) => q \notin readers
        BY DEF WriterIsAlone
    <2>1. p \in Caller /\ writer = p
        BY DEF ManagerInv, LockIsUsed, Proc
    <2>2. pc[q] = "create" => q \in Caller /\ writer = q
        BY DEF ManagerInv, LockIsUsed, Proc
    <2>. QED
        BY <2>1, <2>2 DEF Locked
<1>. QED
    BY <1>1, ManagerInvariant, PTL

\* Who is under way can go on, or waits for a writer that can go on or waits for a
\* reader who can: readers, writers in line and readers behind them never wait for
\* one another in a circle, however many there are (getOrCreateClients,
\* HealthCheck, List).
THEOREM StuckTheorem == ManagerSpec => []NobodyIsStuck
<1>1. ManagerInv => NobodyIsStuck
    <2>. SUFFICES ASSUME ManagerInv, NEW p \in Proc, pc[p] # "idle", ~MayGo(p)
                  PROVE  writer # NoWriter /\ (MayGo(writer) \/ \E q \in readers : MayGo(q))
        BY DEF NobodyIsStuck
    <2>. USE ManagerAssumption DEF ManagerInv, ManagerTypeOK, LockIsUsed, Proc
    <2>1. pc[p] \in {"copy", "look", "lock", "create", "check"}
        OBVIOUS
    <2>2. \A q \in readers : MayGo(q)
        <3>1. ASSUME NEW q \in readers PROVE pc[q] \in {"look", "copy", "check"}
            OBVIOUS
        <3>. QED
            BY <3>1, Zenon DEF MayGo
    <2>3. p \notin readers
        BY <2>2
    <2>4. writer # NoWriter
        <3>1. CASE pc[p] \in {"look", "copy", "check"}
            BY <2>3, <3>1
        <3>2. CASE pc[p] = "lock"
            <4>1. pc[p] \notin {"look", "copy", "check"}
                BY <3>2
            <4>. QED
                BY <3>2, <4>1, Zenon DEF MayGo
        <3>3. CASE pc[p] = "create"
            BY <3>3
        <3>. QED
            BY <2>1, <3>1, <3>2, <3>3
    <2>5. ASSUME readers = {} PROVE MayGo(writer)
        <3>1. pc[writer] = "create" /\ Locked(writer)
            BY <2>4, <2>5 DEF Locked
        <3>2. pc[writer] \notin {"look", "copy", "check"} /\ pc[writer] # "lock"
            BY <3>1
        <3>. QED
            BY <3>1, <3>2, Zenon DEF MayGo
    <2>. QED
        BY <2>2, <2>4, <2>5
<1>. QED
    BY <1>1, ManagerInvariant, PTL

-----------------------------------------------------------------------------
(***************************************************************************)
(* Proofs about module Briefing, for any processes and schedulers, any     *)
(* length of a day and time of the schedule that satisfy                   *)
(* BriefingAssumption.                                                     *)
(*                                                                         *)
(* Time is counted from the minute of the schedule.  Since then a          *)
(* scheduler has run its report, or it has no tick of the minute any more; *)
(* of two schedulers one is stopped, and the other was started after the   *)
(* first had run or too late for a tick.  So the one report that starts    *)
(* leaves nobody who could start another, but for a tick that waits behind *)
(* a slow report, and for a process that has a scheduler beside another's, *)
(* which elected processes have in a hand-over only (TurnsTheorem).        *)
(***************************************************************************)

\* The units since the minute of the schedule.
Since == IF now >= At THEN now - At ELSE now - At + Day

SchedulerState ==
    [proc : Process, stopped : BOOLEAN, due : -1..Minute,
     chan : 0..(Day - 1) \cup {NoTick}, last : 0..Never, busy : BOOLEAN]

BriefingTypes ==
    /\ now \in 0..(Day - 1)
    /\ scheduler \in [Process -> Scheduler \cup {None}]
    /\ Live \subseteq Scheduler
    /\ sched \in [Live -> SchedulerState]
    /\ started \in Nat
    /\ slow \in BOOLEAN
    /\ shared \in BOOLEAN

\* What the updates of a scheduler's state do to its fields.
LEMMA Fields ==
    ASSUME NEW r \in SchedulerState
    PROVE  /\ r.proc \in Process /\ r.stopped \in BOOLEAN /\ r.due \in -1..Minute
           /\ r.chan \in 0..(Day - 1) \cup {NoTick} /\ r.last \in 0..Never /\ r.busy \in BOOLEAN
BY DEF SchedulerState

LEMMA TickedFields ==
    ASSUME NEW r \in SchedulerState, r.due <= 0, now \in 0..(Day - 1)
    PROVE  /\ Ticked(r) \in SchedulerState /\ Ticked(r).due = r.due + Minute
           /\ Ticked(r).chan = (IF r.chan = NoTick THEN now ELSE r.chan)
           /\ Ticked(r).proc = r.proc /\ Ticked(r).stopped = r.stopped
           /\ Ticked(r).last = r.last /\ Ticked(r).busy = r.busy
<1>. DEFINE due == r.due + Minute
            chan == IF r.chan = NoTick THEN now ELSE r.chan
<1>1. due \in -1..Minute /\ chan \in 0..(Day - 1) \cup {NoTick}
    BY Fields DEF Minute
<1>2. Ticked(r) = [r EXCEPT !.due = due, !.chan = chan]
    BY DEF Ticked
<1>. HIDE DEF due, chan
<1>3. /\ Ticked(r) \in SchedulerState /\ Ticked(r).due = due /\ Ticked(r).chan = chan
      /\ Ticked(r).proc = r.proc /\ Ticked(r).stopped = r.stopped
      /\ Ticked(r).last = r.last /\ Ticked(r).busy = r.busy
    BY <1>1, <1>2 DEF SchedulerState
<1>. QED
    BY <1>3 DEF due, chan

LEMMA RunningFields ==
    ASSUME NEW r \in SchedulerState
    PROVE  /\ Running(r) \in SchedulerState /\ Running(r).chan = NoTick
           /\ Running(r).last = 0 /\ Running(r).busy = TRUE
           /\ Running(r).proc = r.proc /\ Running(r).stopped = r.stopped
           /\ Running(r).due = r.due
<1>1. 0 \in 0..Never
    BY BriefingAssumption DEF Never, Minute
<1>. QED
    BY <1>1 DEF Running, SchedulerState

LEMMA SkippingFields ==
    ASSUME NEW r \in SchedulerState
    PROVE  /\ Skipping(r) \in SchedulerState /\ Skipping(r).chan = NoTick
           /\ Skipping(r).proc = r.proc /\ Skipping(r).stopped = r.stopped
           /\ Skipping(r).due = r.due /\ Skipping(r).last = r.last
           /\ Skipping(r).busy = r.busy
BY DEF Skipping, SchedulerState

LEMMA DoneFields ==
    ASSUME NEW r \in SchedulerState
    PROVE  /\ Done(r) \in SchedulerState /\ Done(r).busy = FALSE
           /\ Done(r).proc = r.proc /\ Done(r).stopped = r.stopped
           /\ Done(r).due = r.due /\ Done(r).chan = r.chan /\ Done(r).last = r.last
BY DEF Done, SchedulerState

LEMMA StoppedFields ==
    ASSUME NEW r \in SchedulerState, NEW x \in BOOLEAN
    PROVE  /\ Stopped(r, x) \in SchedulerState /\ Stopped(r, x).stopped = (r.stopped \/ x)
           /\ Stopped(r, x).proc = r.proc /\ Stopped(r, x).due = r.due
           /\ Stopped(r, x).chan = r.chan /\ Stopped(r, x).last = r.last
           /\ Stopped(r, x).busy = r.busy
BY DEF Stopped, SchedulerState

LEMMA LaterFields ==
    ASSUME NEW r \in SchedulerState, r.due >= 0
    PROVE  /\ Later(r) \in SchedulerState /\ Later(r).due = r.due - 1
           /\ Later(r).last = (IF r.last < Never THEN r.last + 1 ELSE r.last)
           /\ Later(r).proc = r.proc /\ Later(r).stopped = r.stopped
           /\ Later(r).chan = r.chan /\ Later(r).busy = r.busy
<1>1. Never \in Nat
    BY BriefingAssumption DEF Never, Minute
<1>. DEFINE due == r.due - 1
            last == IF r.last < Never THEN r.last + 1 ELSE r.last
<1>2. due \in -1..Minute /\ last \in 0..Never
    BY <1>1, Fields DEF Minute
<1>3. Later(r) = [r EXCEPT !.due = due, !.last = last]
    BY DEF Later
<1>. HIDE DEF due, last
<1>4. /\ Later(r) \in SchedulerState /\ Later(r).due = due /\ Later(r).last = last
      /\ Later(r).proc = r.proc /\ Later(r).stopped = r.stopped
      /\ Later(r).chan = r.chan /\ Later(r).busy = r.busy
    BY <1>2, <1>3 DEF SchedulerState
<1>. QED
    BY <1>4 DEF due, last

LEMMA FreshFields ==
    ASSUME NEW p \in Process
    PROVE  /\ Fresh(p) \in SchedulerState /\ ~Fresh(p).stopped /\ Fresh(p).proc = p
           /\ Fresh(p).due = Minute /\ Fresh(p).chan = NoTick /\ Fresh(p).last = Never
           /\ ~Fresh(p).busy
BY BriefingAssumption DEF Fresh, SchedulerState, Never, Minute, NoTick

-----------------------------------------------------------------------------
(* The invariant.                                                          *)

\* A scheduler that has not been stopped is its process's.
Owned == \A s \in Live : ~sched[s].stopped => scheduler[sched[s].proc] = s

\* Of the processes one has a scheduler at most, or it is on record.
OneRuns == shared \/ \A p, q \in Leading : p = q

\* s has started a report since the minute of the schedule.
Ran(s) == sched[s].last <= Since /\ sched[s].last < Never

\* s gets no tick of that minute any more: what it has is another one, and the
\* next is due after it.
Spent(s) == ~Scheduled(sched[s].chan) /\ Since + sched[s].due >= Minute

\* s was stopped before t was started: in the same unit, or t came too late.
Before(s, t) == sched[s].stopped /\ Spent(t) /\ (Ran(s) \/ sched[t].due = Minute)

InOrder == shared \/ \A s, t \in Live : s = t \/ Before(s, t) \/ Before(t, s)

\* A report under way is of this day; and so is a tick of the minute that waits
\* after it, from behind a report that was started in it.
OfToday ==
    \A s \in Live :
        /\ sched[s].busy =>
               /\ sched[s].last <= MaxBusy /\ sched[s].last <= Since
               /\ Since <= sched[s].last + MaxBusy + 1
        /\ Scheduled(sched[s].chan) /\ Since >= Minute =>
               /\ sched[s].last <= MaxBusy /\ sched[s].last <= Since
               /\ Since <= sched[s].last + 1

\* What has run is counted; and then nobody can run again, unless a report was
\* slow.
Counted == \A s \in Live : Ran(s) => started >= 1

Quick ==
    ~slow => \A s \in Live :
        /\ sched[s].busy => sched[s].last <= 2 * Minute
        /\ Scheduled(sched[s].chan) /\ Since >= Minute => sched[s].last <= 2 * Minute

Over == started >= 1 /\ ~slow /\ ~shared => \A s \in Live : Spent(s) \/ Ran(s)

BriefingInv ==
    /\ BriefingTypes /\ Owned /\ OneRuns /\ InOrder /\ OfToday
    /\ Counted /\ Quick /\ Over /\ BriefedOnce

\* A unit is in the minute of the schedule in the first two units since.
LEMMA SinceFacts ==
    ASSUME BriefingTypes
    PROVE  /\ Since \in 0..(Day - 1) /\ Never \in Nat /\ MaxBusy < Never /\ 2 * Minute < Never
           /\ Scheduled(now) <=> Since < Minute
           /\ ~Scheduled(NoTick)
BY BriefingAssumption DEF BriefingTypes, Since, Never, Scheduled, Minute, NoTick

\* Most steps start no scheduler and no report and let no time pass.
Uneventful ==
    /\ Live' \subseteq Live
    /\ UNCHANGED <<now, started, slow, shared>>
    /\ \A t \in Live' :
           /\ sched'[t].last = sched[t].last
           /\ sched[t].stopped => sched'[t].stopped
           /\ sched'[t].busy => sched[t].busy
           /\ sched[t].due = Minute => sched'[t].due = Minute
           /\ Scheduled(sched'[t].chan) /\ Since >= Minute => Scheduled(sched[t].chan)
           /\ Spent(t) => Spent(t)'

LEMMA UneventfulKept ==
    ASSUME BriefingInv, Uneventful, BriefingTypes', Owned', OneRuns' PROVE BriefingInv'
<1>1. Since' = Since
    BY DEF Uneventful, Since
<1>2. \A t \in Live' : t \in Live /\ (Ran(t)' <=> Ran(t)) /\ (Spent(t) => Spent(t)')
    BY <1>1 DEF Uneventful, Ran
<1>3. \A s, t \in Live' : Before(s, t) => Before(s, t)'
    BY <1>2 DEF Uneventful, Before
<1>4. InOrder'
    BY <1>2, <1>3 DEF BriefingInv, InOrder, Uneventful
<1>5. OfToday'
    BY <1>1, <1>2 DEF BriefingInv, OfToday, Uneventful
<1>6. Counted'
    BY <1>2 DEF BriefingInv, Counted, Uneventful
<1>7. Quick'
    BY <1>1, <1>2 DEF BriefingInv, Quick, Uneventful
<1>8. Over' /\ BriefedOnce'
    BY <1>2 DEF BriefingInv, Over, BriefedOnce, Uneventful
<1>. QED
    BY <1>4, <1>5, <1>6, <1>7, <1>8 DEF BriefingInv

LEMMA FireKept == ASSUME BriefingInv, NEW s \in Scheduler, Fire(s) PROVE BriefingInv'
<1>1. /\ s \in Live /\ sched[s].due <= 0 /\ sched[s] \in SchedulerState
      /\ UNCHANGED <<now, scheduler, started, slow, shared>>
    BY DEF Fire, BriefingInv, BriefingTypes
<1>2. /\ sched' \in [Live -> SchedulerState] /\ Live' = Live
      /\ \A t \in Live \ {s} : sched'[t] = sched[t]
      /\ sched'[s].due = sched[s].due + Minute
      /\ sched'[s].chan = (IF sched[s].chan = NoTick THEN now ELSE sched[s].chan)
      /\ sched'[s].proc = sched[s].proc /\ sched'[s].stopped = sched[s].stopped
      /\ sched'[s].last = sched[s].last /\ sched'[s].busy = sched[s].busy
    <2>1. sched' = [sched EXCEPT ![s] = Ticked(sched[s])] /\ sched \in [Live -> SchedulerState]
        BY DEF Fire, BriefingInv, BriefingTypes
    <2>2. now \in 0..(Day - 1)
        BY DEF BriefingInv, BriefingTypes
    <2>. QED
        BY <1>1, <2>1, <2>2, TickedFields DEF Live
<1>3. /\ Since' = Since /\ Since \in Nat /\ (Scheduled(now) <=> Since < Minute)
      /\ \A t \in Live : sched[t].due \in -1..Minute
    BY <1>1, SinceFacts, Fields DEF Since, BriefingInv, BriefingTypes
<1>4. BriefingTypes'
    BY <1>1, <1>2 DEF BriefingInv, BriefingTypes
<1>5. Owned' /\ OneRuns'
    BY <1>1, <1>2 DEF BriefingInv, Owned, OneRuns, Leading
<1>6. \A t \in Live : Spent(t) => Spent(t)'
    BY <1>1, <1>2, <1>3 DEF Spent, Minute
<1>7. Uneventful
    BY <1>1, <1>2, <1>3, <1>6 DEF Uneventful, Minute
<1>. QED
    BY <1>4, <1>5, <1>7, UneventfulKept

LEMMA BriefedKept ==
    ASSUME BriefingInv, NEW s \in Scheduler, Briefed(s) PROVE BriefingInv'
<1>1. /\ s \in Live /\ sched[s] \in SchedulerState
      /\ UNCHANGED <<now, scheduler, started, slow, shared>>
    BY DEF Briefed, BriefingInv, BriefingTypes
<1>2. /\ sched' \in [Live -> SchedulerState] /\ Live' = Live
      /\ \A t \in Live \ {s} : sched'[t] = sched[t]
      /\ sched'[s].busy = FALSE
      /\ sched'[s].proc = sched[s].proc /\ sched'[s].stopped = sched[s].stopped
      /\ sched'[s].due = sched[s].due /\ sched'[s].chan = sched[s].chan
      /\ sched'[s].last = sched[s].last
    <2>1. sched' = [sched EXCEPT ![s] = Done(sched[s])] /\ sched \in [Live -> SchedulerState]
        BY DEF Briefed, BriefingInv, BriefingTypes
    <2>. QED
        BY <1>1, <2>1, DoneFields DEF Live
<1>3. Since' = Since
    BY <1>1 DEF Since
<1>4. BriefingTypes'
    BY <1>1, <1>2 DEF BriefingInv, BriefingTypes
<1>5. Owned' /\ OneRuns'
    BY <1>1, <1>2 DEF BriefingInv, Owned, OneRuns, Leading
<1>6. Uneventful
    BY <1>1, <1>2, <1>3 DEF Uneventful, Spent
<1>. QED
    BY <1>4, <1>5, <1>6, UneventfulKept

LEMMA LeaveKept ==
    ASSUME BriefingInv,
           \/ \E s \in Scheduler : Leave(s)
           \/ \E p \in Process : Dies(p)
    PROVE  BriefingInv'
<1>1. /\ UNCHANGED <<now, started, slow, shared>>
      /\ Live' \subseteq Live /\ \A t \in Live' : sched'[t] = sched[t]
      /\ sched' \in [Live' -> SchedulerState]
    <2>1. ASSUME NEW S, S \subseteq Live, sched' = Restrict(sched, S)
          PROVE  /\ Live' \subseteq Live /\ \A t \in Live' : sched'[t] = sched[t]
                 /\ sched' \in [Live' -> SchedulerState]
        <3>1. sched' = [t \in S |-> sched[t]] /\ Live' = S
            BY <2>1 DEF Restrict, Live
        <3>. QED
            BY <2>1, <3>1 DEF BriefingInv, BriefingTypes
    <2>. QED
        BY ZenonT(60), <2>1 DEF Leave, Dies
<1>2. Since' = Since
    BY <1>1 DEF Since
<1>3. /\ scheduler' \in [Process -> Scheduler \cup {None}]
      /\ \A p \in Process : scheduler'[p] \in {scheduler[p], None}
    BY DEF Leave, Dies, BriefingInv, BriefingTypes
<1>4. BriefingTypes'
    BY <1>1, <1>3 DEF BriefingInv, BriefingTypes
<1>5. Owned' /\ OneRuns'
    <2>1. ASSUME NEW p \in Process, Dies(p)
          PROVE  \A s \in Live' : scheduler'[sched[s].proc] = scheduler[sched[s].proc]
        <3>1. Live' = {s \in Live : sched[s].proc # p}
            BY <2>1 DEF Dies, Restrict, Live
        <3>2. \A s \in Live : sched[s].proc \in Process
            BY Fields DEF BriefingInv, BriefingTypes
        <3>. QED
            BY <2>1, <3>1, <3>2 DEF Dies, BriefingInv, BriefingTypes
    <2>2. ASSUME NEW s \in Scheduler, Leave(s) PROVE UNCHANGED scheduler
        BY <2>2 DEF Leave
    <2>. QED
        BY <1>1, <1>3, <2>1, <2>2 DEF BriefingInv, Owned, OneRuns, Leading
<1>6. Uneventful
    BY <1>1, <1>2 DEF Uneventful, Spent
<1>. QED
    BY <1>4, <1>5, <1>6, UneventfulKept

LEMMA StopKept ==
    ASSUME BriefingInv, NEW p \in Process, StopScheduler(p) PROVE BriefingInv'
<1>1. /\ UNCHANGED <<now, started, slow, shared>> /\ sched \in [Live -> SchedulerState]
      /\ scheduler' = [scheduler EXCEPT ![p] = None]
      /\ scheduler \in [Process -> Scheduler \cup {None}]
    BY DEF StopScheduler, BriefingInv, BriefingTypes
<1>2. /\ sched' \in [Live -> SchedulerState] /\ Live' = Live
      /\ \A t \in Live :
             /\ sched'[t].stopped = (sched[t].stopped \/ t = scheduler[p])
             /\ sched'[t].proc = sched[t].proc /\ sched'[t].due = sched[t].due
             /\ sched'[t].chan = sched[t].chan /\ sched'[t].last = sched[t].last
             /\ sched'[t].busy = sched[t].busy
    <2>1. sched' = [t \in Live |-> Stopped(sched[t], t = scheduler[p])]
        BY DEF StopScheduler
    <2>2. \A t \in Live : sched[t] \in SchedulerState /\ (t = scheduler[p]) \in BOOLEAN
        BY <1>1
    <2>. QED
        BY <2>1, <2>2, StoppedFields DEF Live
<1>3. Since' = Since
    BY <1>1 DEF Since
<1>4. BriefingTypes'
    BY <1>1, <1>2 DEF BriefingInv, BriefingTypes
<1>5. Owned' /\ OneRuns'
    <2>1. \A s \in Live : sched[s].proc \in Process /\ sched[s].stopped \in BOOLEAN
        BY <1>1, Fields
    <2>2. ASSUME NEW s \in Live, ~sched'[s].stopped PROVE scheduler'[sched'[s].proc] = s
        <3>1. ~sched[s].stopped /\ s # scheduler[p]
            BY <1>2, <2>1, <2>2
        <3>2. scheduler[sched[s].proc] = s
            BY <3>1 DEF BriefingInv, Owned, OneRuns, Leading
        <3>. QED
            BY <1>1, <1>2, <2>1, <3>1, <3>2
    <2>. QED
        BY <1>1, <1>2, <2>2 DEF BriefingInv, Owned, OneRuns, Leading
<1>6. Uneventful
    BY <1>1, <1>2, <1>3 DEF Uneventful, Spent
<1>. QED
    BY <1>4, <1>5, <1>6, UneventfulKept

LEMMA StartKept ==
    ASSUME BriefingInv, NEW p \in Process, StartScheduler(p) PROVE BriefingInv'
<1>1. /\ UNCHANGED <<now, started, slow>> /\ shared' = (shared \/ Leading # {}) /\ shared \in BOOLEAN
      /\ scheduler[p] = None /\ sched \in [Live -> SchedulerState]
      /\ scheduler \in [Process -> Scheduler \cup {None}]
    BY DEF StartScheduler, BriefingInv, BriefingTypes
<1>2. PICK s \in Scheduler \ Live :
          /\ scheduler' = [scheduler EXCEPT ![p] = s]
          /\ sched' = [t \in Live \cup {s} |-> IF t = s THEN Fresh(p) ELSE sched[t]]
    BY DEF StartScheduler
<1>3. /\ sched' \in [Live \cup {s} -> SchedulerState] /\ Live' = Live \cup {s}
      /\ \A t \in Live : sched'[t] = sched[t] /\ t # s
      /\ ~sched'[s].stopped /\ sched'[s].proc = p /\ sched'[s].due = Minute
      /\ sched'[s].chan = NoTick /\ sched'[s].last = Never /\ ~sched'[s].busy
    BY <1>1, <1>2, FreshFields DEF Live
<1>4. ~shared' => \A t \in Live : sched[t].stopped
    <2>1. \A t \in Live : sched[t].proc \in Process /\ sched[t].stopped \in BOOLEAN
        BY <1>1, Fields
    <2>2. Live \subseteq Scheduler
        BY DEF BriefingInv, BriefingTypes
    <2>3. ~shared' => \A q \in Process : scheduler[q] = None
        BY <1>1 DEF Leading
    <2>. QED
        BY <2>1, <2>2, <2>3, BriefingAssumption DEF BriefingInv, Owned
<1>5. /\ Since' = Since /\ Since \in Nat /\ Never \in Nat /\ ~Scheduled(NoTick)
    BY <1>1, SinceFacts DEF Since, BriefingInv
<1>6. \A t \in Live : (Ran(t)' <=> Ran(t)) /\ (Spent(t)' <=> Spent(t))
    BY <1>3, <1>5 DEF Ran, Spent
<1>7. Spent(s)' /\ ~Ran(s)'
    BY <1>3, <1>5 DEF Ran, Spent, Minute
<1>8. BriefingTypes'
    BY <1>1, <1>2, <1>3 DEF BriefingInv, BriefingTypes
<1>9. Owned' /\ OneRuns'
    <2>1. \A q \in Process : scheduler'[q] = IF q = p THEN s ELSE scheduler[q]
        BY <1>1, <1>2
    <2>2. Owned'
        <3>1. \A t \in Live : sched[t].proc \in Process /\ sched[t].stopped \in BOOLEAN
            BY <1>1, Fields
        <3>2. ASSUME NEW t \in Live, ~sched[t].stopped
              PROVE  scheduler'[sched[t].proc] = t
            <4>1. scheduler[sched[t].proc] = t /\ t # None
                BY <3>2, BriefingAssumption DEF BriefingInv, BriefingTypes, Owned
            <4>. QED
                BY <1>1, <2>1, <3>1, <4>1
        <3>. QED
            BY <1>3, <2>1, <3>2 DEF Owned
    <2>3. OneRuns'
        <3>1. CASE shared'
            BY <3>1 DEF OneRuns
        <3>2. CASE ~shared'
            BY <1>1, <2>1, <3>2 DEF OneRuns, Leading
        <3>. QED
            BY <3>1, <3>2
    <2>. QED
        BY <2>2, <2>3
<1>10. InOrder'
    <2>1. \A t, v \in Live : Before(t, v) => Before(t, v)'
        BY <1>3, <1>6 DEF Before
    <2>2. ~shared' => \A t \in Live : Before(t, s)'
        BY <1>3, <1>4, <1>7 DEF Before
    <2>. QED
        BY <1>1, <1>3, <2>1, <2>2 DEF BriefingInv, InOrder
<1>11. OfToday' /\ Quick'
    BY <1>1, <1>3, <1>5 DEF BriefingInv, OfToday, Quick
<1>12. Counted' /\ Over' /\ BriefedOnce'
    BY <1>1, <1>3, <1>6, <1>7 DEF BriefingInv, Counted, Over, BriefedOnce
<1>. QED
    BY <1>8, <1>9, <1>10, <1>11, <1>12 DEF BriefingInv

LEMMA SkipKept ==
    ASSUME BriefingInv, NEW s \in Live, sched' = [sched EXCEPT ![s] = Skipping(sched[s])],
           UNCHANGED <<now, scheduler, started, slow, shared>>
    PROVE  BriefingInv'
<1>1. sched \in [Live -> SchedulerState]
    BY DEF BriefingInv, BriefingTypes
<1>2. /\ sched' \in [Live -> SchedulerState] /\ Live' = Live
      /\ \A t \in Live \ {s} : sched'[t] = sched[t]
      /\ sched'[s].proc = sched[s].proc /\ sched'[s].stopped = sched[s].stopped
      /\ sched'[s].due = sched[s].due /\ sched'[s].chan = NoTick
      /\ sched'[s].last = sched[s].last /\ sched'[s].busy = sched[s].busy
    BY <1>1, SkippingFields DEF Live
<1>3. Since' = Since /\ ~Scheduled(NoTick)
    BY SinceFacts DEF Since, BriefingInv
<1>4. BriefingTypes'
    BY <1>1, <1>2 DEF BriefingInv, BriefingTypes
<1>5. Owned' /\ OneRuns'
    BY <1>1, <1>2 DEF BriefingInv, Owned, OneRuns, Leading
<1>6. Uneventful
    BY <1>1, <1>2, <1>3 DEF Uneventful, Spent
<1>. QED
    BY <1>4, <1>5, <1>6, UneventfulKept

\* A report starts: nothing has run yet, and of the others nobody can any more.
LEMMA RunKept ==
    ASSUME BriefingInv, NEW s \in Live, ~sched[s].busy, Scheduled(sched[s].chan), MayRun(s),
           sched' = [sched EXCEPT ![s] = Running(sched[s])], started' = started + 1,
           UNCHANGED <<now, scheduler, slow, shared>>
    PROVE  BriefingInv'
<1>1. sched \in [Live -> SchedulerState] /\ started \in Nat
    BY DEF BriefingInv, BriefingTypes
<1>2. /\ sched' \in [Live -> SchedulerState] /\ Live' = Live
      /\ \A t \in Live \ {s} : sched'[t] = sched[t]
      /\ sched'[s].proc = sched[s].proc /\ sched'[s].stopped = sched[s].stopped
      /\ sched'[s].due = sched[s].due /\ sched'[s].chan = NoTick
      /\ sched'[s].last = 0 /\ sched'[s].busy = TRUE
    BY <1>1, RunningFields DEF Live
<1>3. /\ Since' = Since /\ ~Scheduled(NoTick) /\ Since \in Nat /\ Never \in Nat
      /\ 0 < Never /\ MaxBusy \in Nat \ {0} /\ (Scheduled(now) <=> Since < Minute)
    BY SinceFacts, BriefingAssumption DEF Since, BriefingInv, Minute
<1>4. /\ sched[s].last \in 0..Never /\ sched[s].last > 2 * Minute
      /\ sched[s].due \in -1..Minute
    BY <1>1, Fields DEF MayRun
<1>5. \A t \in Live \ {s} : (Ran(t)' <=> Ran(t)) /\ (Spent(t)' <=> Spent(t))
    BY <1>2, <1>3 DEF Ran, Spent
<1>6. Ran(s)' /\ ~Spent(s)
    BY <1>2, <1>3 DEF Ran, Spent
<1>7. Since <= MaxBusy + 1
    BY <1>1, <1>3, <1>4 DEF BriefingInv, OfToday, Minute
<1>8. ~slow /\ ~shared => started = 0
    <2>. SUFFICES ASSUME ~slow, ~shared, started >= 1 PROVE FALSE
        BY <1>1
    <2>1. Ran(s)
        BY <1>6 DEF BriefingInv, Over
    <2>2. sched[s].last <= Since /\ Since >= Minute
        BY <1>3, <1>4, <2>1 DEF Ran, Minute
    <2>3. sched[s].last <= 2 * Minute
        BY <2>2 DEF BriefingInv, Quick
    <2>. QED
        BY <1>4, <2>3 DEF Minute
<1>9. BriefingTypes'
    BY <1>1, <1>2 DEF BriefingInv, BriefingTypes
<1>10. Owned' /\ OneRuns'
    BY <1>1, <1>2 DEF BriefingInv, Owned, OneRuns, Leading
<1>11. ~shared => \A t \in Live \ {s} : Before(s, t)
    BY <1>6 DEF BriefingInv, InOrder, Before
<1>12. InOrder'
    <2>1. ~shared => \A t \in Live \ {s} : Before(s, t)'
        BY <1>2, <1>5, <1>6, <1>11 DEF Before
    <2>2. \A t, v \in Live \ {s} : Before(t, v) => Before(t, v)'
        BY <1>2, <1>5 DEF Before
    <2>. QED
        BY <1>2, <2>1, <2>2 DEF BriefingInv, InOrder
<1>13. OfToday' /\ Quick'
    BY <1>2, <1>3, <1>7 DEF BriefingInv, OfToday, Quick, Minute
<1>14. Counted'
    BY <1>1, <1>2 DEF Counted
<1>15. Over'
    BY <1>2, <1>5, <1>6, <1>11 DEF Over, Before
<1>16. BriefedOnce'
    BY <1>1, <1>8 DEF BriefingInv, BriefedOnce
<1>. QED
    BY <1>9, <1>10, <1>12, <1>13, <1>14, <1>15, <1>16 DEF BriefingInv

LEMMA ReceiveKept ==
    ASSUME BriefingInv, NEW s \in Scheduler, Receive(s) PROVE BriefingInv'
<1>1. /\ s \in Live /\ ~sched[s].busy /\ UNCHANGED <<now, scheduler, slow, shared>>
      /\ \/ /\ Scheduled(sched[s].chan) /\ MayRun(s)
            /\ sched' = [sched EXCEPT ![s] = Running(sched[s])]
            /\ started' = started + 1
         \/ /\ sched' = [sched EXCEPT ![s] = Skipping(sched[s])]
            /\ UNCHANGED started
    BY DEF Receive, Waiting
<1>. QED
    BY <1>1, SkipKept, RunKept

\* The clock goes on by one, and at the minute of the schedule a day begins.
LEMMA ClockFacts ==
    ASSUME now \in 0..(Day - 1), now' = (now + 1) % Day
    PROVE  /\ now' \in 0..(Day - 1)
           /\ now' = At <=> Since = Day - 1
           /\ Since' = IF Since = Day - 1 THEN 0 ELSE Since + 1
<1>1. now' = IF now = Day - 1 THEN 0 ELSE now + 1
    BY BriefingAssumption
<1>. QED
    BY <1>1, BriefingAssumption DEF Since, Minute

\* While a unit passes everybody who waits has an empty channel, and nobody who
\* waits is stopped.
LEMMA PassFacts ==
    ASSUME BriefingInv, Pass
    PROVE  /\ sched' \in [Live -> SchedulerState] /\ Live' = Live
           /\ \A t \in Live :
                  /\ sched[t].due \in 0..Minute /\ sched[t].last \in 0..Never
                  /\ sched[t].busy \in BOOLEAN /\ sched[t].stopped \in BOOLEAN
                  /\ sched'[t].due = sched[t].due - 1
                  /\ sched'[t].last =
                         (IF sched[t].last < Never THEN sched[t].last + 1 ELSE sched[t].last)
                  /\ sched'[t].proc = sched[t].proc /\ sched'[t].stopped = sched[t].stopped
                  /\ sched'[t].chan = sched[t].chan /\ sched'[t].busy = sched[t].busy
                  /\ sched[t].busy => sched[t].last < MaxBusy /\ sched[t].last <= Since
                  /\ Scheduled(sched[t].chan) \/ sched[t].stopped => sched[t].busy
<1>1. /\ sched \in [Live -> SchedulerState] /\ sched' = [t \in Live |-> Later(sched[t])]
      /\ \A t \in Live :
             /\ sched[t].due >= 0
             /\ ~sched[t].busy => sched[t].chan = NoTick /\ ~sched[t].stopped
             /\ sched[t].busy => sched[t].last < MaxBusy
    BY DEF Pass, Waiting, BriefingInv, BriefingTypes
<1>2. Live' = Live
    BY <1>1 DEF Live
<1>3. ~Scheduled(NoTick)
    BY SinceFacts DEF BriefingInv
<1>4. ASSUME NEW t \in Live
      PROVE  /\ sched'[t] = Later(sched[t]) /\ sched[t] \in SchedulerState
             /\ sched[t].due >= 0
    BY <1>1
<1>5. sched' \in [Live -> SchedulerState]
    BY <1>1, <1>4, LaterFields
<1>6. ASSUME NEW t \in Live
      PROVE  /\ sched[t].busy => sched[t].last < MaxBusy /\ sched[t].last <= Since
             /\ Scheduled(sched[t].chan) \/ sched[t].stopped => sched[t].busy
    BY <1>1, <1>3 DEF BriefingInv, OfToday
<1>. QED
    BY <1>2, <1>4, <1>5, <1>6, Fields, LaterFields

LEMMA PassKept == ASSUME BriefingInv, Pass PROVE BriefingInv'
<1>1. /\ UNCHANGED scheduler /\ started \in Nat /\ slow \in BOOLEAN /\ shared \in BOOLEAN
      /\ now \in 0..(Day - 1) /\ now' = (now + 1) % Day
      /\ started' = IF now' = At THEN 0 ELSE started
      /\ slow' = IF now' = At THEN FALSE
                 ELSE slow \/ \E s \in Live : sched'[s].busy /\ sched'[s].last > 2 * Minute
      /\ shared' = IF now' = At THEN \E p, q \in Leading : p # q ELSE shared
    BY DEF Pass, BriefingInv, BriefingTypes
<1>2. /\ now' \in 0..(Day - 1) /\ (now' = At <=> Since = Day - 1)
      /\ Since' = IF Since = Day - 1 THEN 0 ELSE Since + 1
    BY <1>1, ClockFacts
<1>3. /\ Since \in 0..(Day - 1) /\ Never \in Nat /\ MaxBusy < Never /\ 2 * Minute < Never
      /\ ~Scheduled(NoTick) /\ MaxBusy \in Nat \ {0} /\ 2 * MaxBusy < Day - 1 /\ Day \in Nat
    BY SinceFacts, BriefingAssumption DEF BriefingInv
<1>4. BriefingTypes'
    BY <1>1, <1>2, PassFacts DEF BriefingInv, BriefingTypes
<1>5. Owned' /\ OneRuns'
    BY <1>1, PassFacts DEF BriefingInv, Owned, OneRuns, Leading
<1>6. CASE Since # Day - 1
    <2>1. /\ Since' = Since + 1 /\ started' = started /\ shared' = shared
          /\ slow' = (slow \/ \E s \in Live : sched'[s].busy /\ sched'[s].last > 2 * Minute)
        BY <1>1, <1>2, <1>6
    <2>2. \A t \in Live : Spent(t)' <=> Spent(t)
        BY <1>3, <2>1, PassFacts DEF Spent, Minute
    <2>3. \A t \in Live : Ran(t)' => Ran(t)
        BY <1>3, <2>1, PassFacts DEF Ran
    <2>4. \A t \in Live : sched[t].busy => Ran(t)'
        BY <1>3, <2>1, PassFacts DEF Ran
    <2>5. InOrder'
        <3>1. \A s, t \in Live : Before(s, t) => Before(s, t)'
            BY <2>2, <2>4, PassFacts DEF Before
        <3>. QED
            BY <2>1, <3>1, PassFacts DEF BriefingInv, InOrder
    <2>6. OfToday'
        <3>1. ASSUME NEW t \in Live, sched[t].busy
              PROVE  /\ sched'[t].last = sched[t].last + 1 /\ sched'[t].last <= MaxBusy
                     /\ sched'[t].last <= Since'
                     /\ Since' <= sched'[t].last + MaxBusy + 1
            BY <1>3, <2>1, <3>1, PassFacts DEF BriefingInv, OfToday
        <3>2. ASSUME NEW t \in Live, Scheduled(sched[t].chan), Since' >= Minute
              PROVE  Since' <= sched'[t].last + 1
            <4>1. sched[t].busy /\ sched[t].last \in 0..Never
                BY <3>2, PassFacts
            <4>2. Since <= sched[t].last + 1
                BY <1>3, <2>1, <3>2, <4>1 DEF BriefingInv, OfToday, Minute
            <4>. QED
                BY <1>3, <2>1, <3>1, <4>1, <4>2
        <3>. QED
            BY <3>1, <3>2, PassFacts DEF OfToday
    <2>7. Counted'
        BY <2>1, <2>3, PassFacts DEF BriefingInv, Counted
    <2>8. Quick'
        <3>1. ASSUME ~slow', NEW t \in Live, sched[t].busy
              PROVE  sched'[t].last <= 2 * Minute
            <4>1. ~(sched'[t].last > 2 * Minute) /\ sched'[t].last \in Int
                BY <1>3, <2>1, <3>1, PassFacts
            <4>. QED
                BY <4>1 DEF Minute
        <3>. QED
            BY <3>1, PassFacts DEF Quick
    <2>9. Over'
        <3>1. ASSUME NEW t \in Live, Ran(t) PROVE Ran(t)' \/ Spent(t)
            <4>1. CASE sched[t].last + 1 < Never
                BY <1>3, <2>1, <3>1, <4>1, PassFacts DEF Ran
            <4>2. CASE sched[t].last + 1 >= Never
                <5>1. /\ sched[t].last > MaxBusy /\ sched[t].last <= Since
                      /\ Since >= Minute /\ sched[t].due \in 0..Minute
                    BY <1>3, <3>1, <4>2, PassFacts DEF Ran, Never, Minute
                <5>2. ~Scheduled(sched[t].chan)
                    BY <1>3, <5>1, PassFacts DEF BriefingInv, OfToday
                <5>. QED
                    BY <1>3, <5>1, <5>2 DEF Spent, Minute
            <4>. QED
                BY <1>3, <4>1, <4>2, PassFacts
        <3>. QED
            BY <2>1, <2>2, <3>1, PassFacts DEF BriefingInv, Over
    <2>10. BriefedOnce'
        BY <2>1 DEF BriefingInv, BriefedOnce
    <2>. QED
        BY <1>4, <1>5, <2>5, <2>6, <2>7, <2>8, <2>9, <2>10 DEF BriefingInv
<1>7. CASE Since = Day - 1
    <2>1. Since' = 0 /\ started' = 0 /\ slow' = FALSE /\ (shared' <=> \E p, q \in Leading : p # q)
        BY <1>1, <1>2, <1>7
    <2>2. \A t \in Live : ~sched[t].busy /\ ~sched[t].stopped /\ ~Scheduled(sched[t].chan)
        <3>1. ASSUME NEW t \in Live, sched[t].busy PROVE FALSE
            <4>1. Since <= sched[t].last + MaxBusy + 1 /\ sched[t].last < MaxBusy
                BY <3>1, PassFacts DEF BriefingInv, OfToday
            <4>. QED
                BY <1>3, <1>7, <4>1, PassFacts
        <3>. QED
            BY <3>1, PassFacts
    <2>3. ~shared' => \A s, t \in Live : s = t
        <3>1. \A t \in Live : sched[t].proc \in Process /\ t # None
            BY Fields, BriefingAssumption DEF BriefingInv, BriefingTypes
        <3>. QED
            BY <2>1, <2>2, <3>1 DEF BriefingInv, Owned, Leading
    <2>4. \A t \in Live : ~Ran(t)'
        BY <1>3, <2>1, PassFacts DEF Ran
    <2>5. InOrder'
        BY <2>3, PassFacts DEF InOrder
    <2>6. OfToday' /\ Quick'
        BY <2>2, PassFacts DEF OfToday, Quick
    <2>7. Counted' /\ Over' /\ BriefedOnce'
        BY <2>1, <2>4, PassFacts DEF Counted, Over, BriefedOnce
    <2>. QED
        BY <1>4, <1>5, <2>5, <2>6, <2>7 DEF BriefingInv
<1>. QED
    BY <1>6, <1>7

\* The inductive invariant of the briefing: who may still run a report in the
\* minute of the schedule, and who no more (run).
THEOREM BriefingInvariant == BriefingSpec => []BriefingInv
<1>1. BriefingInit => BriefingInv
    <2>. SUFFICES ASSUME BriefingInit PROVE BriefingInv
        OBVIOUS
    <2>1. Live = {} /\ now = 0 /\ started = 0 /\ slow = FALSE /\ shared = FALSE
          /\ scheduler = [p \in Process |-> None] /\ sched = [s \in {} |-> Fresh(s)]
        BY DEF BriefingInit, Live
    <2>2. BriefingTypes
        <3>1. 0 \in 0..(Day - 1)
            BY BriefingAssumption
        <3>2. sched \in [Live -> SchedulerState]
            BY <2>1
        <3>. QED
            BY <2>1, <3>1, <3>2 DEF BriefingTypes
    <2>3. Owned /\ OneRuns /\ InOrder /\ OfToday /\ Counted /\ Quick /\ Over /\ BriefedOnce
        BY <2>1 DEF Owned, OneRuns, Leading, InOrder, OfToday, Counted, Quick, Over, BriefedOnce
    <2>. QED
        BY <2>2, <2>3 DEF BriefingInv
<1>2. BriefingInv /\ [Scheduling]_briefing => BriefingInv'
    <2>. SUFFICES ASSUME BriefingInv, [Scheduling]_briefing PROVE BriefingInv'
        OBVIOUS
    <2>1. ASSUME NEW s \in Scheduler, Leave(s) \/ Fire(s) \/ Receive(s) \/ Briefed(s)
          PROVE  BriefingInv'
        BY <2>1, LeaveKept, FireKept, ReceiveKept, BriefedKept
    <2>2. CASE Pass
        BY <2>2, PassKept
    <2>3. ASSUME NEW p \in Process,
                 StartScheduler(p) \/ StopScheduler(p) \/ Dies(p)
          PROVE  BriefingInv'
        BY <2>3, StartKept, StopKept, LeaveKept
    <2>4. CASE UNCHANGED briefing
        BY <2>4 DEF briefing, BriefingInv, BriefingTypes, Owned, OneRuns, Leading, InOrder, Before, Ran, Spent,
                    OfToday, Counted, Quick, Over, BriefedOnce, Since, Live
    <2>. QED
        BY <2>1, <2>2, <2>3, <2>4 DEF Scheduling
<1>. QED
    BY <1>1, <1>2, PTL DEF BriefingSpec

\* A day has one briefing at most, unless the report was slow or the schedulers
\* of two processes were there at the same time.
THEOREM OneBriefingADay == BriefingSpec => []BriefedOnce
BY BriefingInvariant, PTL DEF BriefingInv
=============================================================================
