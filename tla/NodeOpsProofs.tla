---------------------------- MODULE NodeOpsProofs ----------------------------
(***************************************************************************)
(* Proofs about module NodeOps, for any nodes, pods, dialogs and           *)
(* goroutines, with or without a rule that asks for approval.              *)
(*                                                                         *)
(* A drain that has passed its write finds its node cordoned until someone *)
(* uncordons it, so no controller's pod is placed there behind its list;   *)
(* and the text without buttons belongs to a drain past its announcement.  *)
(***************************************************************************)
EXTENDS NodeOps, TLAPS

DrainJob(m) == [op |-> "drain", on |-> m]

\* A goroutine is idle when it has no job, and the stages of a drain that no
\* other job has are reached by drains only.
JobsOK ==
    \A h \in Handler :
        /\ pc[h] = "idle" <=> job[h] = NoJob
        /\ pc[h] \in {"submit", "announce", "list", "evict"} =>
               \E m \in Message : job[h] = DrainJob(m)

\* The node of a drain stays cordoned until someone uncordons it.
StillCordoned ==
    \A h \in Handler : pc[h] \in {"list", "evict"} /\ h \notin reopened => NodeOf(h) \in cordoned

\* h runs a drain of m that has been announced.
Drains(h, m) == pc[h] \in {"get", "put", "list", "evict"} /\ job[h] = DrainJob(m)

ProgressIsDriven ==
    \A m \in Message : screen[m].view = "progress" /\ m \notin stuck =>
        \E h \in Handler : Drains(h, m)

IInv == TypeOK /\ JobsOK /\ StillCordoned /\ DrainedIsEmpty /\ ProgressIsDriven

-----------------------------------------------------------------------------
\* What a job is for.
LEMMA JobOn ==
    ASSUME TypeOK, NEW h \in Handler, job[h] # NoJob
    PROVE  /\ NodeJob(h) => job[h].on \in Message /\ NodeOf(h) \in Node
           /\ job[h].op = "restart" => job[h].on \in Pod /\ ~NodeJob(h)
<1>1. job[h] \in Job
    BY DEF TypeOK
<1>2. CASE job[h] \in [op : NodeOp, on : Message]
    BY <1>2, NodeOpsAssumption DEF NodeJob, NodeOf, NodeOp
<1>3. CASE job[h] \in [op : {"restart"}, on : Pod]
    BY <1>3 DEF NodeJob, NodeOp
<1>. QED
    BY <1>1, <1>2, <1>3 DEF Job

\* What the editing of a message keeps.
LEMMA EditType ==
    ASSUME TypeOK, NEW m \in Message, NEW s \in Screen, Edit(m, s)
    PROVE  screen' \in [Message -> Screen] /\ stuck' \subseteq Message
    BY DEF Edit, TypeOK

\* The goroutine of a node job may edit its dialog, and what is there are
\* screens.
LEMMA Shown ==
    /\ \A v \in {"result", "progress", "gaveUp"} : Show(v) \in Screen
    /\ \A v \in {"detail", "ask"}, o \in NodeOp : [view |-> v, op |-> o] \in Screen
    BY DEF Show, Screen

\* Going on and ending keep the types of pc and job.
LEMMA ControlType ==
    ASSUME TypeOK, NEW h \in Handler
    PROVE  /\ \A s \in Stage : Goto(h, s) => pc' \in [Handler -> Stage] /\ job' \in [Handler -> Job \cup {NoJob}]
           /\ \A s \in Stage, j \in Job : Starts(h, s, j) => pc' \in [Handler -> Stage] /\ job' \in [Handler -> Job \cup {NoJob}]
           /\ Ends(h) => pc' \in [Handler -> Stage] /\ job' \in [Handler -> Job \cup {NoJob}]
    BY DEF TypeOK, Goto, Starts, Ends, Stage

\* A refused call leaves screens in the dialogs.
LEMMA RefusedType ==
    ASSUME TypeOK, NEW h \in Handler, NodeJob(h), Refused(h)
    PROVE  /\ pc' \in [Handler -> Stage] /\ job' \in [Handler -> Job \cup {NoJob}]
           /\ screen' \in [Message -> Screen] /\ stuck' \subseteq Message
<1>1. job[h].on \in Message
    BY JobOn DEF NodeJob
<1>2. CASE job[h].op = "drain"
    BY <1>1, <1>2, ControlType, EditType, Shown DEF Refused, GiveUp
<1>3. CASE job[h].op # "drain"
    BY <1>3, ControlType DEF Refused, dialogs, TypeOK
<1>. QED
    BY <1>2, <1>3

\* The types of a node's write.
LEMMA WriteType ==
    ASSUME TypeOK, NEW h \in Handler, NodeJob(h), Write(h) \/ NoWrite(h)
    PROVE  cordoned' \subseteq Node /\ fresh' \subseteq Handler /\ reopened' \subseteq Handler
<1>1. NodeOf(h) \in Node
    BY JobOn DEF NodeJob
<1>. QED
    BY <1>1 DEF Write, NoWrite, DrainsOf, TypeOK

-----------------------------------------------------------------------------
\* The types are kept by every step.
LEMMA TypeStep == TypeOK /\ JobsOK /\ [Next]_vars => TypeOK'
<1>. SUFFICES ASSUME TypeOK, JobsOK, [Next]_vars PROVE TypeOK'
    OBVIOUS
<1>. USE DEF TypeOK, nodes, pods, drains, dialogs
<1>1. ASSUME NEW m \in Message, Detail(m) PROVE TypeOK'
    BY <1>1, EditType, Shown DEF Detail, NodeOp
<1>2. ASSUME NEW m \in Message, NEW o \in NodeOp, Ask(m, o) PROVE TypeOK'
    BY <1>2, EditType, Shown DEF Ask
<1>3. ASSUME NEW h \in Handler, NEW m \in Message, Confirm(h, m) PROVE TypeOK'
    <2>1. screen[m].op \in NodeOp
        BY <1>3 DEF Confirm, Screen
    <2>2. [op |-> screen[m].op, on |-> m] \in Job
        BY <2>1 DEF Job
    <2>. QED
        BY <1>3, <2>2, ControlType DEF Confirm, Stage
<1>4. ASSUME NEW h \in Handler, NEW p \in Pod, RestartConfirm(h, p) PROVE TypeOK'
    <2>1. [op |-> "restart", on |-> p] \in Job
        BY DEF Job
    <2>. QED
        BY <1>4, <2>1, ControlType DEF RestartConfirm, Stage
<1>5. ASSUME NEW h \in Handler, pc[h] \in {"submit", "announce", "list", "evict"}
      PROVE  NodeJob(h) /\ job[h].on \in Message /\ NodeOf(h) \in Node
    <2>1. job[h] # NoJob /\ job[h].op = "drain"
        BY <1>5 DEF JobsOK, DrainJob
    <2>. QED
        BY <2>1, JobOn DEF NodeJob, NodeOp
<1>6. ASSUME NEW h \in Handler, Submit(h) PROVE TypeOK'
    BY <1>5, <1>6, ControlType DEF Submit, Stage
<1>7. ASSUME NEW h \in Handler, Announce(h) PROVE TypeOK'
    BY <1>5, <1>7, ControlType, EditType, Shown DEF Announce, Progress, Stage
<1>8. ASSUME NEW h \in Handler, GetNode(h) PROVE TypeOK'
    BY <1>8, ControlType, RefusedType DEF GetNode, Stage
<1>9. ASSUME NEW h \in Handler, PutNode(h) PROVE TypeOK'
    <2>1. NodeJob(h) /\ job[h].on \in Message
        BY <1>9, JobOn DEF PutNode, NodeJob
    <2>2. Write(h) \/ NoWrite(h)
        BY <1>9 DEF PutNode
    <2>3. /\ pc' \in [Handler -> Stage] /\ job' \in [Handler -> Job \cup {NoJob}]
          /\ screen' \in [Message -> Screen] /\ stuck' \subseteq Message
        BY <1>9, <2>1, ControlType, RefusedType, EditType, Shown DEF PutNode, Stage
    <2>. QED
        BY <1>9, <2>1, <2>2, <2>3, WriteType DEF PutNode
<1>10. ASSUME NEW h \in Handler, List(h) PROVE TypeOK'
    <2>1. todo' \in [Handler -> SUBSET Pod]
        BY <1>10 DEF List
    <2>. QED
        BY <1>5, <1>10, <2>1, ControlType, EditType, Shown DEF List, GiveUp, Stage
<1>11. ASSUME NEW h \in Handler, NEW p \in Pod, Evict(h, p) PROVE TypeOK'
    <2>1. todo' \in [Handler -> SUBSET Pod]
        BY <1>11 DEF Evict
    <2>. QED
        BY <1>5, <1>11, <2>1, EditType, Shown DEF Evict, Delete, Progress
<1>12. ASSUME NEW h \in Handler, Finish(h) PROVE TypeOK'
    BY <1>5, <1>12, ControlType, EditType, Shown DEF Finish
<1>13. ASSUME NEW h \in Handler, GetPod(h) PROVE TypeOK'
    BY <1>13, ControlType DEF GetPod, Stage
<1>14. ASSUME NEW h \in Handler, DeletePod(h) PROVE TypeOK'
    <2>1. phase' \in [Pod -> {"running", "terminating", "gone"}] /\ place' \in [Pod -> Node]
        BY <1>14 DEF DeletePod, Delete
    <2>. QED
        BY <1>14, <2>1, ControlType DEF DeletePod
<1>15. ASSUME NEW p \in Pod, Vanish(p) PROVE TypeOK'
    BY <1>15 DEF Vanish
<1>16. ASSUME NEW p \in Pod, NEW n \in Node, Recreate(p, n) PROVE TypeOK'
    BY <1>16 DEF Recreate
<1>17. CASE Crash
    BY <1>17 DEF Crash, Stage
<1>18. CASE UNCHANGED vars
    BY <1>18 DEF vars
<1>. QED
    BY <1>1, <1>2, <1>3, <1>4, <1>6, <1>7, <1>8, <1>9, <1>10, <1>11, <1>12,
       <1>13, <1>14, <1>15, <1>16, <1>17, <1>18
    DEF Next, Tap, Advance

-----------------------------------------------------------------------------
\* Jobs and stages go together after every step.
LEMMA JobsStep == TypeOK /\ JobsOK /\ [Next]_vars => JobsOK'
<1>. SUFFICES ASSUME TypeOK, JobsOK, [Next]_vars PROVE JobsOK'
    OBVIOUS
<1>. USE DEF TypeOK, JobsOK
<1>1. ASSUME NEW h \in Handler, Ends(h) PROVE JobsOK'
    BY <1>1 DEF Ends
<1>2. ASSUME NEW h \in Handler, pc[h] # "idle", NEW s \in {"get", "put"}, Goto(h, s)
      PROVE  JobsOK'
    BY <1>2 DEF Goto
<1>3. ASSUME NEW h \in Handler, pc[h] # "idle", NEW m \in Message, job[h] = DrainJob(m),
             NEW s \in Stage \ {"idle"}, Goto(h, s)
      PROVE  JobsOK'
    BY <1>3 DEF Goto
<1>4. ASSUME NEW h \in Handler, job[h] # NoJob, NodeJob(h), job[h].op = "drain"
      PROVE  \E m \in Message : job[h] = DrainJob(m)
    <2>1. job[h] \in [op : NodeOp, on : Message]
        BY <1>4, JobOn DEF Job, NodeJob
    <2>. QED
        BY <1>4, <2>1 DEF DrainJob
<1>5. ASSUME NEW h \in Handler, NEW m \in Message, Confirm(h, m) PROVE JobsOK'
    <2>1. [op |-> screen[m].op, on |-> m] \in Job
        BY <1>5 DEF Confirm, Screen, Job
    <2>2. CASE screen[m].op = "drain"
        BY <1>5, <2>1, <2>2, NodeOpsAssumption DEF Confirm, Starts, DrainJob
    <2>3. CASE screen[m].op # "drain"
        BY <1>5, <2>1, <2>3, NodeOpsAssumption DEF Confirm, Starts, DrainJob
    <2>. QED
        BY <2>2, <2>3
<1>6. ASSUME NEW h \in Handler, NEW p \in Pod, RestartConfirm(h, p) PROVE JobsOK'
    <2>1. [op |-> "restart", on |-> p] \in Job
        BY DEF Job
    <2>. QED
        BY <1>6, <2>1, NodeOpsAssumption DEF RestartConfirm, Starts
<1>7. ASSUME NEW h \in Handler, Submit(h) PROVE JobsOK'
    BY <1>1, <1>3, <1>7 DEF Submit, Stage
<1>8. ASSUME NEW h \in Handler, Announce(h) PROVE JobsOK'
    BY <1>2, <1>8 DEF Announce
<1>9. ASSUME NEW h \in Handler, Refused(h) PROVE JobsOK'
    BY <1>1, <1>9 DEF Refused, GiveUp
<1>10. ASSUME NEW h \in Handler, GetNode(h) PROVE JobsOK'
    BY <1>2, <1>9, <1>10 DEF GetNode
<1>11. ASSUME NEW h \in Handler, PutNode(h) PROVE JobsOK'
    BY <1>1, <1>3, <1>4, <1>9, <1>11 DEF PutNode, Stage
<1>12. ASSUME NEW h \in Handler, List(h) PROVE JobsOK'
    BY <1>1, <1>3, <1>12 DEF List, GiveUp, Stage
<1>13. ASSUME NEW h \in Handler, GetPod(h) PROVE JobsOK'
    BY <1>1, <1>2, <1>13 DEF GetPod, Doing
<1>14. ASSUME NEW h \in Handler, Finish(h) \/ DeletePod(h) PROVE JobsOK'
    BY <1>1, <1>14 DEF Finish, DeletePod
<1>15. CASE Crash
    BY <1>15 DEF Crash
<1>16. CASE UNCHANGED <<pc, job>>
    BY <1>16
<1>. QED
    BY <1>5, <1>6, <1>7, <1>8, <1>10, <1>11, <1>12, <1>13, <1>14, <1>15, <1>16
    DEF Next, Tap, Advance, Detail, Ask, Evict, Vanish, Recreate, vars

-----------------------------------------------------------------------------
\* A step of h leaves where another goroutine is and what it works on alone,
\* unless it is the process that stops.
LEMMA OthersStay ==
    ASSUME TypeOK, [Next]_vars, ~Crash, NEW h \in Handler, pc'[h] \in {"list", "evict"}
    PROVE  \/ pc[h] = pc'[h] /\ job[h] = job'[h]
           \/ pc[h] = "put" /\ pc'[h] = "list" /\ job[h] = job'[h] /\ NodeJob(h) /\ job[h].op = "drain" /\ Write(h)
           \/ pc[h] = "list" /\ pc'[h] = "evict" /\ job[h] = job'[h] /\ List(h)
<1>. USE DEF TypeOK
<1>1. ASSUME NEW g \in Handler, Ends(g) PROVE pc[h] = pc'[h] /\ job[h] = job'[h]
    BY <1>1 DEF Ends
<1>2. ASSUME NEW g \in Handler, NEW s \in {"announce", "get", "put"}, Goto(g, s)
      PROVE  pc[h] = pc'[h] /\ job[h] = job'[h]
    BY <1>2 DEF Goto
<1>3. ASSUME NEW g \in Handler, NEW s \in {"submit", "announce", "get"}, NEW j, Starts(g, s, j)
      PROVE  pc[h] = pc'[h] /\ job[h] = job'[h]
    BY <1>3 DEF Starts
<1>4. ASSUME NEW g \in Handler, PutNode(g), ~Ends(g) PROVE Write(g) /\ job[g].op = "drain" /\ NodeJob(g) /\ Goto(g, "list")
    BY <1>4 DEF PutNode, Refused, GiveUp
<1>5. ASSUME NEW g \in Handler, PutNode(g), ~Ends(g)
      PROVE  \/ pc[h] = pc'[h] /\ job[h] = job'[h]
             \/ pc[h] = "put" /\ pc'[h] = "list" /\ job[h] = job'[h] /\ NodeJob(h) /\ job[h].op = "drain" /\ Write(h)
    BY <1>4, <1>5 DEF Goto, PutNode
<1>6. ASSUME NEW g \in Handler, List(g), ~Ends(g)
      PROVE  \/ pc[h] = pc'[h] /\ job[h] = job'[h]
             \/ pc[h] = "list" /\ pc'[h] = "evict" /\ job[h] = job'[h] /\ List(h)
    BY <1>6 DEF List, GiveUp, Goto
<1>7. ASSUME NEW g \in Handler, NEW m \in Message, Confirm(g, m) PROVE pc[h] = pc'[h] /\ job[h] = job'[h]
    BY <1>3, <1>7 DEF Confirm
<1>8. ASSUME NEW g \in Handler, Submit(g) \/ Announce(g) \/ GetNode(g) \/ GetPod(g)
      PROVE  pc[h] = pc'[h] /\ job[h] = job'[h]
    BY <1>1, <1>2, <1>8 DEF Submit, Announce, GetNode, Refused, GiveUp, GetPod
<1>9. CASE UNCHANGED <<pc, job>>
    BY <1>9
<1>. QED
    BY <1>1, <1>3, <1>5, <1>6, <1>7, <1>8, <1>9
    DEF Next, Tap, Advance, Detail, Ask, RestartConfirm, Finish, DeletePod, Evict, Vanish, Recreate, vars

-----------------------------------------------------------------------------
\* The node that a drain works on is the one of its job.
LEMMA SameNode ==
    ASSUME NEW h \in Handler, job'[h] = job[h]
    PROVE  NodeOf(h)' = NodeOf(h)
    BY DEF NodeOf

\* Who is still a drain of its node, and not reopened, was not reopened before.
LEMMA ReopenedGrows ==
    ASSUME TypeOK, [Next]_vars, ~Crash, NEW h \in Handler,
           pc'[h] \in {"list", "evict"}, h \notin reopened'
    PROVE  h \notin reopened
<1>. USE DEF TypeOK, nodes, pods, drains, dialogs
<1>1. ASSUME NEW g \in Handler, Finish(g) \/ (List(g) /\ Ends(g)) PROVE h \notin reopened
    <2>1. g # h
        BY <1>1 DEF Finish, Ends
    <2>. QED
        BY <1>1, <2>1 DEF Finish, List, Goto, GiveUp
<1>2. ASSUME NEW g \in Handler, List(g), ~Ends(g) PROVE h \notin reopened
    BY <1>2 DEF List, GiveUp
<1>3. ASSUME NEW g \in Handler, PutNode(g) PROVE h \notin reopened
    BY <1>3 DEF PutNode, Write, NoWrite
<1>4. CASE UNCHANGED reopened
    BY <1>4
<1>. QED
    BY <1>1, <1>2, <1>3, <1>4
    DEF Next, Tap, Advance, Confirm, RestartConfirm, Submit, Announce, GetNode, Evict, GetPod,
        DeletePod, Detail, Ask, Vanish, Recreate, vars

\* A node leaves the cordoned ones only by a write that uncordons it, which
\* reopens it under every drain of it.
LEMMA UncordonReopens ==
    ASSUME TypeOK, [Next]_vars, NEW n \in cordoned, n \notin cordoned'
    PROVE  DrainsOf(n) \subseteq reopened'
<1>. USE DEF TypeOK, nodes, pods, drains, dialogs
<1>1. ASSUME NEW g \in Handler, PutNode(g) PROVE DrainsOf(n) \subseteq reopened'
    BY <1>1 DEF PutNode, Write, NoWrite
<1>2. CASE UNCHANGED cordoned
    BY <1>2
<1>. QED
    BY <1>1, <1>2
    DEF Next, Tap, Advance, Confirm, RestartConfirm, Submit, Announce, GetNode, List, Evict,
        Finish, GetPod, DeletePod, Detail, Ask, Vanish, Recreate, Crash, vars

LEMMA CordonStep == TypeOK /\ StillCordoned /\ [Next]_vars => StillCordoned'
<1>. SUFFICES ASSUME TypeOK, StillCordoned, [Next]_vars PROVE StillCordoned'
    OBVIOUS
<1>1. CASE Crash
    BY <1>1 DEF Crash, StillCordoned
<1>2. ASSUME ~Crash, NEW h \in Handler, pc'[h] \in {"list", "evict"}, h \notin reopened'
      PROVE  NodeOf(h)' \in cordoned'
    <2>1. job'[h] = job[h] /\ h \notin reopened
        BY <1>2, OthersStay, ReopenedGrows
    <2>2. NodeOf(h)' = NodeOf(h)
        BY <2>1, SameNode
    <2>3. CASE pc[h] \in {"list", "evict"}
        <3>1. NodeOf(h) \in cordoned /\ h \in DrainsOf(NodeOf(h))
            BY <2>1, <2>3 DEF StillCordoned, DrainsOf
        <3>. QED
            BY <1>2, <2>2, <3>1, UncordonReopens
    <2>4. CASE pc[h] \notin {"list", "evict"}
        <3>1. Write(h) /\ job[h].op = "drain"
            BY <1>2, <2>4, OthersStay
        <3>. QED
            BY <2>2, <3>1 DEF Write
    <2>. QED
        BY <2>3, <2>4
<1>. QED
    BY <1>1, <1>2 DEF StillCordoned

-----------------------------------------------------------------------------
\* p keeps n busy.
Busy(p, n) == place[p] = n /\ phase[p] = "running" /\ Kind[p] # "daemon"

\* Only a controller brings a pod to a node, and not to a cordoned one.
LEMMA NobodyArrives ==
    ASSUME TypeOK, [Next]_vars, NEW p \in Pod, NEW n \in Node, Busy(p, n)', n \in cordoned
    PROVE  Busy(p, n)
<1>. USE DEF TypeOK, nodes, pods, drains, dialogs, Busy
<1>1. ASSUME NEW q \in Pod, Delete(q) PROVE Busy(p, n)
    BY <1>1 DEF Delete
<1>2. ASSUME NEW q \in Pod, Vanish(q) PROVE Busy(p, n)
    BY <1>2 DEF Vanish
<1>3. ASSUME NEW q \in Pod, NEW k \in Node, Recreate(q, k) PROVE Busy(p, n)
    BY <1>3 DEF Recreate
<1>4. CASE UNCHANGED <<place, phase>>
    BY <1>4
<1>5. ASSUME NEW g \in Handler, DeletePod(g) PROVE Busy(p, n)
    BY <1>1, <1>4, <1>5 DEF DeletePod, Delete
<1>. QED
    BY <1>1, <1>2, <1>3, <1>4, <1>5
    DEF Next, Tap, Advance, Confirm, RestartConfirm, Submit, Announce, GetNode, PutNode, List, Evict,
        Finish, GetPod, Detail, Ask, Crash, vars

\* A drain crosses a pod off its list when it has counted a failure or the pod
\* no longer runs.
LEMMA CrossedOff ==
    ASSUME TypeOK, [Next]_vars, ~Crash, NEW h \in Handler, pc[h] = "evict", pc'[h] = "evict",
           h \notin failed', NEW p \in todo[h], p \notin todo'[h]
    PROVE  phase'[p] # "running"
<1>. USE DEF TypeOK, nodes, pods, drains, dialogs
<1>1. ASSUME NEW g \in Handler, NEW q \in Pod, Evict(g, q) PROVE phase'[p] # "running"
    <2>1. g = h /\ q = p
        BY <1>1 DEF Evict
    <2>. QED
        BY <1>1, <2>1 DEF Evict, Delete
<1>2. ASSUME NEW g \in Handler, List(g) PROVE FALSE
    BY <1>2 DEF List
<1>3. CASE UNCHANGED todo
    BY <1>3
<1>. QED
    BY <1>1, <1>2, <1>3
    DEF Next, Tap, Advance, Confirm, RestartConfirm, Submit, Announce, GetNode, PutNode,
        Finish, GetPod, DeletePod, Detail, Ask, Vanish, Recreate, vars

\* A failure is forgotten only with its drain.
LEMMA FailedGrows ==
    ASSUME TypeOK, [Next]_vars, ~Crash, NEW h \in Handler, pc'[h] = "evict", h \notin failed'
    PROVE  h \notin failed
<1>. USE DEF TypeOK, nodes, pods, drains, dialogs
<1>1. ASSUME NEW g \in Handler, Finish(g) PROVE h \notin failed
    BY <1>1 DEF Finish, Ends
<1>2. ASSUME NEW g \in Handler, NEW q \in Pod, Evict(g, q) PROVE h \notin failed
    BY <1>2 DEF Evict
<1>3. CASE UNCHANGED failed
    BY <1>3
<1>. QED
    BY <1>1, <1>2, <1>3
    DEF Next, Tap, Advance, Confirm, RestartConfirm, Submit, Announce, GetNode, PutNode, List,
        GetPod, DeletePod, Detail, Ask, Vanish, Recreate, vars

LEMMA DrainedStep == TypeOK /\ JobsOK /\ StillCordoned /\ DrainedIsEmpty /\ [Next]_vars => DrainedIsEmpty'
<1>. SUFFICES ASSUME TypeOK, JobsOK, StillCordoned, DrainedIsEmpty, [Next]_vars PROVE DrainedIsEmpty'
    OBVIOUS
<1>1. CASE Crash
    BY <1>1 DEF Crash, DrainedIsEmpty
<1>2. ASSUME ~Crash, NEW h \in Handler, pc'[h] = "evict", h \notin failed' \cup reopened',
             NEW p \in Pod, Busy(p, NodeOf(h))'
      PROVE  p \in todo'[h]
    <2>1. job'[h] = job[h] /\ h \notin reopened /\ h \notin failed
        BY <1>2, OthersStay, ReopenedGrows, FailedGrows
    <2>2. NodeOf(h)' = NodeOf(h)
        BY <2>1, SameNode
    <2>3. pc[h] \in {"list", "evict"}
        BY <1>2, OthersStay
    <2>4. NodeOf(h) \in cordoned /\ NodeOf(h) \in Node
        BY <2>1, <2>3 DEF StillCordoned, TypeOK
    <2>5. Busy(p, NodeOf(h))
        BY <1>2, <2>2, <2>4, NobodyArrives DEF Busy
    <2>6. CASE pc[h] = "list"
        <3>1. List(h) /\ ~Ends(h)
            BY <1>2, <2>6, OthersStay DEF Ends, TypeOK
        <3>. QED
            BY <2>5, <3>1 DEF List, GiveUp, Busy, Evictable, TypeOK
    <2>7. CASE pc[h] = "evict"
        <3>1. p \in todo[h]
            BY <2>1, <2>5, <2>7 DEF DrainedIsEmpty, Busy
        <3>. QED
            BY <1>2, <2>7, <3>1, CrossedOff DEF Busy
    <2>. QED
        BY <2>3, <2>6, <2>7
<1>. QED
    BY <1>1, <1>2 DEF DrainedIsEmpty, Busy

-----------------------------------------------------------------------------
\* An edit shows what was asked for, or is refused, and leaves the other
\* dialogs alone.
LEMMA EditShows ==
    ASSUME TypeOK, NEW m \in Message, NEW s \in Screen, Edit(m, s), NEW k \in Message,
           screen'[k].view = "progress", k \notin stuck'
    PROVE  IF k = m THEN s.view = "progress" ELSE screen[k].view = "progress" /\ k \notin stuck
    BY DEF Edit, TypeOK

LEMMA DrivenStep == TypeOK /\ JobsOK /\ ProgressIsDriven /\ [Next]_vars => ProgressIsDriven'
<1>. SUFFICES ASSUME TypeOK, JobsOK, ProgressIsDriven, [Next]_vars,
                     NEW m \in Message, screen'[m].view = "progress", m \notin stuck'
              PROVE  \E h \in Handler : Drains(h, m)'
    BY DEF ProgressIsDriven
<1>. USE DEF TypeOK, nodes, pods, drains, dialogs
<1>. DEFINE Shows == screen[m].view = "progress" /\ m \notin stuck
<1>1. Shows => \E h \in Handler : Drains(h, m)
    BY DEF ProgressIsDriven
<1>2. ASSUME NEW h \in Handler, NEW s \in {"get", "put", "list", "evict"}, Goto(h, s), Shows
      PROVE  \E g \in Handler : Drains(g, m)'
    BY <1>1, <1>2 DEF Drains, Goto
<1>3. ASSUME NEW h \in Handler, Ends(h), pc[h] \in {"idle", "submit"} \/ job[h] # DrainJob(m), Shows
      PROVE  \E g \in Handler : Drains(g, m)'
    BY <1>1, <1>3 DEF Drains, Ends
<1>4. ASSUME UNCHANGED <<pc, job>>, Shows PROVE \E g \in Handler : Drains(g, m)'
    BY <1>1, <1>4 DEF Drains
<1>5. ASSUME NEW h \in Handler, pc[h] \in {"submit", "announce", "list", "evict"}
      PROVE  \E k \in Message : job[h] = DrainJob(k)
    BY <1>5 DEF JobsOK
<1>6. ASSUME NEW h \in Handler, NodeJob(h), job[h].op = "drain"
      PROVE  \E k \in Message : job[h] = DrainJob(k)
    <2>1. job[h] \in [op : NodeOp, on : Message]
        BY <1>6, JobOn DEF Job, NodeJob
    <2>. QED
        BY <1>6, <2>1 DEF DrainJob
<1>7. ASSUME NEW h \in Handler, NEW k \in Message, job[h] = DrainJob(k), GiveUp(h)
      PROVE  \E g \in Handler : Drains(g, m)'
    <2>1. m # k /\ Shows
        BY <1>7, EditShows, Shown DEF GiveUp, Show, DrainJob
    <2>. QED
        BY <1>3, <1>7, <2>1 DEF GiveUp, DrainJob
<1>8. ASSUME NEW h \in Handler, NodeJob(h), Refused(h) PROVE \E g \in Handler : Drains(g, m)'
    <2>1. CASE job[h].op = "drain"
        BY <1>6, <1>7, <1>8, <2>1 DEF Refused
    <2>2. CASE job[h].op # "drain"
        BY <1>3, <1>8, <2>2 DEF Refused, DrainJob
    <2>. QED
        BY <2>1, <2>2
<1>9. ASSUME NEW k \in Message, NEW s \in Screen, Edit(k, s), s.view # "progress"
       PROVE  k # m /\ Shows
    BY <1>9, EditShows
<1>10. ASSUME NEW k \in Message, Detail(k) \/ \E o \in NodeOp : Ask(k, o)
       PROVE  \E g \in Handler : Drains(g, m)'
    BY <1>4, <1>9, <1>10, Shown DEF Detail, Ask, NodeOp
<1>11. ASSUME NEW h \in Handler, NEW k \in Message, Confirm(h, k) PROVE \E g \in Handler : Drains(g, m)'
    <2>1. Shows
        BY <1>11 DEF Confirm
    <2>. QED
        BY <1>1, <1>11, <2>1 DEF Confirm, Starts, Drains
<1>12. ASSUME NEW h \in Handler, NEW p \in Pod, RestartConfirm(h, p) PROVE \E g \in Handler : Drains(g, m)'
    <2>1. Shows
        BY <1>12 DEF RestartConfirm
    <2>. QED
        BY <1>1, <1>12, <2>1 DEF RestartConfirm, Starts, Drains
<1>13. ASSUME NEW h \in Handler, Submit(h) PROVE \E g \in Handler : Drains(g, m)'
    <2>1. Shows
        BY <1>13 DEF Submit
    <2>. QED
        BY <1>1, <1>13, <2>1 DEF Submit, Goto, Ends, Drains
<1>14. ASSUME NEW h \in Handler, Announce(h) \/ \E p \in Pod : Evict(h, p)
       PROVE  \E g \in Handler : Drains(g, m)'
    <2>1. PICK k \in Message : job[h] = DrainJob(k)
        BY <1>5, <1>14 DEF Announce, Evict
    <2>2. Drains(h, k)'
        BY <1>14, <2>1 DEF Announce, Evict, Goto, Drains
    <2>3. CASE k = m
        BY <2>2, <2>3
    <2>4. CASE k # m
        <3>1. Shows
            BY <1>14, <2>1, <2>4, EditShows, Shown DEF Announce, Evict, Progress, DrainJob
        <3>. QED
            BY <1>2, <1>4, <1>14, <3>1 DEF Announce, Evict
    <2>. QED
        BY <2>3, <2>4
<1>15. ASSUME NEW h \in Handler, GetNode(h) PROVE \E g \in Handler : Drains(g, m)'
    BY <1>2, <1>8, <1>15 DEF GetNode
<1>16. ASSUME NEW h \in Handler, PutNode(h) PROVE \E g \in Handler : Drains(g, m)'
    <2>1. NodeJob(h) /\ job[h].on \in Message
        BY <1>16, JobOn DEF PutNode, NodeJob
    <2>2. CASE Refused(h)
        BY <1>8, <2>1, <2>2
    <2>3. CASE job[h].op = "drain" /\ Goto(h, "list") /\ UNCHANGED dialogs
        BY <1>2, <2>3
    <2>4. CASE job[h].op # "drain" /\ Ends(h) /\ Edit(job[h].on, Show("result"))
        <3>1. Shows
            BY <1>9, <2>1, <2>4, Shown DEF Show
        <3>. QED
            BY <1>3, <2>4, <3>1 DEF DrainJob
    <2>. QED
        BY <1>16, <2>2, <2>3, <2>4 DEF PutNode
<1>17. ASSUME NEW h \in Handler, List(h) PROVE \E g \in Handler : Drains(g, m)'
    BY <1>2, <1>5, <1>7, <1>17 DEF List
<1>18. ASSUME NEW h \in Handler, Finish(h) PROVE \E g \in Handler : Drains(g, m)'
    <2>1. PICK k \in Message : job[h] = DrainJob(k)
        BY <1>5, <1>18 DEF Finish
    <2>2. k # m /\ Shows
        BY <1>9, <1>18, <2>1, Shown DEF Finish, Show, DrainJob
    <2>. QED
        BY <1>3, <1>18, <2>1, <2>2 DEF Finish, DrainJob
<1>19. ASSUME NEW h \in Handler, GetPod(h) \/ DeletePod(h) PROVE \E g \in Handler : Drains(g, m)'
    BY <1>2, <1>3, <1>19 DEF GetPod, DeletePod, Doing, DrainJob
<1>20. CASE Crash
    BY <1>20 DEF Crash
<1>21. CASE UNCHANGED <<screen, stuck, pc, job>>
    BY <1>4, <1>21
<1>. QED
    BY <1>10, <1>11, <1>12, <1>13, <1>14, <1>15, <1>16, <1>17, <1>18, <1>19, <1>20, <1>21
    DEF Next, Tap, Advance, Vanish, Recreate, vars

-----------------------------------------------------------------------------
LEMMA InitInv == Init => IInv
<1>. SUFFICES ASSUME Init PROVE IInv
    OBVIOUS
<1>1. TypeOK
    BY NodeOpsAssumption DEF Init, TypeOK, Screen, Stage, NodeOp
<1>2. JobsOK
    BY DEF Init, JobsOK
<1>3. StillCordoned /\ DrainedIsEmpty /\ ProgressIsDriven
    BY DEF Init, StillCordoned, DrainedIsEmpty, ProgressIsDriven
<1>. QED
    BY <1>1, <1>2, <1>3 DEF IInv

\* The inductive invariant holds in every state of every behaviour.
THEOREM InductiveInvariant == Spec => []IInv
<1>1. IInv /\ [Next]_vars => IInv'
    BY TypeStep, JobsStep, CordonStep, DrainedStep, DrivenStep DEF IInv
<1>. QED
    BY <1>1, InitInv, PTL DEF Spec

\* The variables keep their types.
THEOREM TypeTheorem == Spec => []TypeOK
<1>1. IInv => TypeOK
    BY DEF IInv
<1>. QED
    BY <1>1, InductiveInvariant, PTL

\* A drain that has counted no failure and whose node nobody has uncordoned has
\* every pod that keeps its node busy still before it: performDrain reports
\* success of an empty node, whatever restarts, controllers and other drains do.
THEOREM DrainedTheorem == Spec => []DrainedIsEmpty
<1>1. IInv => DrainedIsEmpty
    BY DEF IInv
<1>. QED
    BY <1>1, InductiveInvariant, PTL

\* A dialog shows progress without buttons only while a drain of it runs, unless
\* Telegram refused the last edit or the process stopped.
THEOREM ProgressTheorem == Spec => []ProgressIsLive
<1>1. IInv => ProgressIsLive
    BY DEF IInv, ProgressIsDriven, ProgressIsLive, Drains, DrainJob
<1>. QED
    BY <1>1, InductiveInvariant, PTL
-----------------------------------------------------------------------------
\* A drain goes through its list to the end: each step of it takes one pod off,
\* which is being deleted or counted as a failure, nobody else touches the list,
\* and only a crash of the process ends the drain before the list is empty (the
\* loop of performDrain, which a refused eviction does not leave).
EvictsAll ==
    [][\A h \in Handler : pc[h] = "evict" =>
          \/ /\ pc'[h] = "evict" /\ job'[h] = job[h]
             /\ \/ todo'[h] = todo[h]
                \/ \E p \in todo[h] : /\ todo'[h] = todo[h] \ {p}
                                      /\ phase'[p] = "terminating" \/ h \in failed'
          \/ pc'[h] = "idle" /\ (todo[h] = {} \/ \A g \in Handler : pc'[g] = "idle")]_vars

\* So a drain takes as many steps as it has pods left, and one more.
THEOREM EvictsAllTheorem == Spec => EvictsAll
<1>. DEFINE InTurn(h) ==
          \/ /\ pc'[h] = "evict" /\ job'[h] = job[h]
             /\ \/ todo'[h] = todo[h]
                \/ \E p \in todo[h] : /\ todo'[h] = todo[h] \ {p}
                                      /\ phase'[p] = "terminating" \/ h \in failed'
          \/ pc'[h] = "idle" /\ (todo[h] = {} \/ \A g \in Handler : pc'[g] = "idle")
<1>1. TypeOK /\ [Next]_vars => [\A h \in Handler : pc[h] = "evict" => InTurn(h)]_vars
  <2>. SUFFICES ASSUME TypeOK, Next, NEW h \in Handler, pc[h] = "evict" PROVE InTurn(h)
      BY Zenon
  <2>. USE DEF TypeOK, nodes, pods, drains, dialogs
  <2>1. ASSUME NEW g \in Handler, Tap(g) \/ Submit(g) \/ Announce(g) \/ GetNode(g) \/ PutNode(g)
                                  \/ GetPod(g) \/ DeletePod(g)
        PROVE  InTurn(h)
    <3>1. g # h
        BY <2>1 DEF Tap, Confirm, RestartConfirm, Starts, Submit, Announce, GetNode, PutNode,
                    GetPod, DeletePod, Doing
    <3>2. UNCHANGED todo
        BY <2>1 DEF Tap, Confirm, RestartConfirm, Submit, Announce, GetNode, PutNode,
                    GetPod, DeletePod
    <3>3. pc'[h] = pc[h] /\ job'[h] = job[h]
        BY <2>1, <3>1 DEF Tap, Confirm, RestartConfirm, Starts, Submit, Announce, GetNode, PutNode,
                    GetPod, DeletePod, Refused, GiveUp, Ends, Goto
    <3>. QED
        BY <3>2, <3>3
  <2>2. ASSUME NEW g \in Handler, List(g) PROVE InTurn(h)
    <3>1. g # h
        BY <2>2 DEF List
    <3>. QED
        BY <2>2, <3>1 DEF List, GiveUp, Ends, Goto
  <2>3. ASSUME NEW g \in Handler, NEW p \in Pod, Evict(g, p) PROVE InTurn(h)
    <3>1. UNCHANGED <<pc, job>> /\ p \in todo[g] /\ todo' = [todo EXCEPT ![g] = todo[g] \ {p}]
        BY <2>3 DEF Evict
    <3>2. phase'[p] = "terminating" \/ g \in failed'
        BY <2>3 DEF Evict, Delete
    <3>. QED
        BY <3>1, <3>2
  <2>4. ASSUME NEW g \in Handler, Finish(g) PROVE InTurn(h)
      BY <2>4 DEF Finish, Ends
  <2>5. CASE Crash
      BY <2>5 DEF Crash
  <2>6. CASE UNCHANGED <<pc, job, todo>>
      BY <2>6
  <2>. QED
      BY <2>1, <2>2, <2>3, <2>4, <2>5, <2>6 DEF Next, Advance, Detail, Ask, Vanish, Recreate
<1>. QED
    BY <1>1, TypeTheorem, PTL DEF Spec, EvictsAll
=============================================================================
