------------------------------- MODULE NodeOps -------------------------------
(***************************************************************************)
(* Node operations and pod restarts (internal/module/kubernetes): cordon,  *)
(* uncordon and drain dialogs on the nodes of a cluster, and the deletion  *)
(* of a pod that its controller is to bring back.                          *)
(*                                                                         *)
(* Each tap is handled by a goroutine of its own.  A node is changed by    *)
(* reading it and writing it back: the API server refuses the write if the *)
(* node was written in between.  A drain cordons the node, lists its pods  *)
(* and asks for the eviction of one after the other by name, while other   *)
(* goroutines, the controllers and the scheduler go on.                    *)
(*                                                                         *)
(* Any call to the API server may fail, with or without effect, and        *)
(* Telegram may refuse any edit of a message.  The deadlines of the calls  *)
(* show as such failures.                                                  *)
(***************************************************************************)
EXTENDS Integers, FiniteSets

CONSTANTS
    Node,
    Pod,        \* names of pods
    Kind,       \* Kind[p]: "daemon", "managed" by another controller, or "bare"
    Message,    \* node dialogs
    About,      \* About[m], the node of dialog m
    Handler,    \* goroutines
    NoJob,
    Gated       \* whether a rule asks for approval of drains

NodeOp == {"cordon", "uncordon", "drain"}

Job == [op : NodeOp, on : Message] \cup [op : {"restart"}, on : Pod]

ASSUME NodeOpsAssumption ==
    /\ Kind \in [Pod -> {"daemon", "managed", "bare"}]
    /\ About \in [Message -> Node]
    /\ NoJob \notin Job
    /\ Gated \in BOOLEAN

VARIABLES
    cordoned,   \* the nodes with spec.unschedulable
    place,      \* place[p], the node p runs on, or ran on last
    phase,      \* phase[p]: "running", "terminating" or "gone"
    screen,     \* screen[m], which buttons dialog m shows
    pc,         \* pc[h], what goroutine h does next
    job,        \* job[h], what it is for
    fresh,      \* goroutines whose copy of their node is the stored one
    todo,       \* todo[h], the pods that drain h has listed and not yet evicted
    failed,     \* drains that counted a failed eviction
    requests,   \* nodes whose drain has been submitted for approval
    reopened,   \* history: drains whose node was uncordoned after they cordoned it
    stuck       \* history: dialogs whose last edit was refused, or that were
                \* showing progress when the process stopped

nodes == <<cordoned, fresh, reopened>>
pods == <<place, phase>>
drains == <<todo, failed>>
dialogs == <<screen, stuck>>
vars == <<nodes, pods, drains, dialogs, pc, job, requests>>

Stage == {"idle", "submit", "announce", "get", "put", "list", "evict"}

\* The detail view offers to cordon or to uncordon, and to drain; a question
\* is about one operation; results lead back to the detail view; the text of
\* a drain has no buttons, whether the drain goes on or has given up.
Screen == [view : {"detail", "ask"}, op : NodeOp]
              \cup [view : {"result", "progress", "gaveUp"}, op : {"none"}]

Show(v) == [view |-> v, op |-> "none"]

\* Faulty: a pod with any owner is taken for one of a DaemonSet.
Faulty_Evictable(p) == Kind[p] = "bare"

\* isDaemonSetPod.
Evictable(p) == Kind[p] # "daemon"

\* h is at stage s of operation o.
Doing(h, s, o) == pc[h] = s /\ job[h].op = o

NodeJob(h) == job[h] # NoJob /\ job[h].op \in NodeOp

\* Faulty: the parts of the callback data are taken in the wrong order.
Faulty_NodeOf(h) == job[h].on

\* The node that h works on.
NodeOf(h) == About[job[h].on]

\* Drains of n that have cordoned it.
DrainsOf(n) ==
    {h \in Handler : pc[h] \in {"list", "evict"} /\ NodeOf(h) = n}
-----------------------------------------------------------------------------
Init ==
    /\ cordoned = {}
    /\ place \in [Pod -> Node]
    /\ phase = [p \in Pod |-> "running"]
    /\ screen = [m \in Message |-> [view |-> "detail", op |-> "cordon"]]
    /\ pc = [h \in Handler |-> "idle"]
    /\ job = [h \in Handler |-> NoJob]
    /\ fresh = {}
    /\ todo = [h \in Handler |-> {}]
    /\ failed = {}
    /\ requests = {}
    /\ reopened = {}
    /\ stuck = {}

Goto(h, s) == pc' = [pc EXCEPT ![h] = s] /\ UNCHANGED job

Starts(h, s, j) ==
    /\ pc[h] = "idle"
    /\ pc' = [pc EXCEPT ![h] = s]
    /\ job' = [job EXCEPT ![h] = j]

Ends(h) ==
    /\ pc' = [pc EXCEPT ![h] = "idle"]
    /\ job' = [job EXCEPT ![h] = NoJob]

\* Dialog m is edited to show s, or the edit is refused.
Edit(m, s) ==
    \/ /\ screen' = [screen EXCEPT ![m] = s]
       /\ stuck' = stuck \ {m}
    \/ /\ UNCHANGED screen
       /\ stuck' = stuck \cup {m}

\* updateDrainMessage, with the text of a drain that goes on or gives up.
Progress(h) == Edit(job[h].on, Show("progress"))
GiveUp(h) == Edit(job[h].on, Show("gaveUp")) /\ Ends(h)
-----------------------------------------------------------------------------
(* The dialog.                                                             *)

\* handleNodeDetail: reached from a question (Cancel), a result, the list and,
\* with a new /nodes, from a text without buttons that nobody is editing.
Detail(m) ==
    /\ screen[m].view \in {"progress", "gaveUp"} => ~\E h \in Handler : NodeJob(h) /\ job[h].on = m
    /\ Edit(m, [view |-> "detail",
                op   |-> IF About[m] \in cordoned THEN "uncordon" ELSE "cordon"])
    /\ UNCHANGED <<nodes, pods, drains, pc, job, requests>>

\* handleNodeCordon, handleNodeUncordon, handleNodeDrain.
Ask(m, o) ==
    /\ screen[m].view = "detail"
    /\ o \in {screen[m].op, "drain"}
    /\ Edit(m, [view |-> "ask", op |-> o])
    /\ UNCHANGED <<nodes, pods, drains, pc, job, requests>>

\* handleNodeCordonConfirm, handleNodeUncordonConfirm, handleNodeDrainConfirm.
Confirm(h, m) ==
    /\ screen[m].view = "ask"
    /\ LET o == screen[m].op
           first == IF o # "drain" THEN "get" ELSE IF Gated THEN "submit" ELSE "announce"
       IN  Starts(h, first, [op |-> o, on |-> m])
    /\ UNCHANGED <<nodes, pods, drains, dialogs, requests>>

\* CheckAndSubmit: a stored request ends the goroutine, which leaves the
\* dialog as it is; an error is logged and passed over.
Submit(h) ==
    /\ pc[h] = "submit"
    /\ \/ requests' = requests \cup {NodeOf(h)} /\ Ends(h)
       \/ Goto(h, "announce") /\ UNCHANGED requests
    /\ UNCHANGED <<nodes, pods, drains, dialogs>>

Announce(h) ==
    /\ pc[h] = "announce"
    /\ Progress(h)
    /\ Goto(h, "get")
    /\ UNCHANGED <<nodes, pods, drains, requests>>
-----------------------------------------------------------------------------
(* Writing the node: performCordon, and the first step of performDrain.    *)

\* An error is answered with a notice (performCordon) or ends the drain.
Refused(h) ==
    IF job[h].op = "drain" THEN GiveUp(h) ELSE Ends(h) /\ UNCHANGED dialogs

GetNode(h) ==
    /\ pc[h] = "get"
    /\ NodeJob(h)
    /\ \/ Goto(h, "put") /\ fresh' = fresh \cup {h} /\ UNCHANGED dialogs
       \/ Refused(h) /\ UNCHANGED fresh
    /\ UNCHANGED <<cordoned, reopened, pods, drains, requests>>

\* The server takes the write of a copy that is still the stored one.  If it
\* changes the node, every other copy of the node is out of date, and
\* uncordoning reopens the node under the drains that have cordoned it.
Write(h) ==
    LET n == NodeOf(h)
    IN  /\ h \in fresh
        /\ cordoned' = IF job[h].op = "uncordon" THEN cordoned \ {n} ELSE cordoned \cup {n}
        /\ fresh' = IF cordoned' = cordoned
                    THEN fresh \ {h}
                    ELSE {g \in fresh : NodeOf(g) # n}
        /\ reopened' = IF job[h].op = "uncordon" THEN reopened \cup DrainsOf(n) ELSE reopened

NoWrite(h) == fresh' = fresh \ {h} /\ UNCHANGED <<cordoned, reopened>>

\* Update.  The answer to a write that was made may be lost.
PutNode(h) ==
    /\ pc[h] = "put"
    /\ NodeJob(h)
    /\ \/ /\ Write(h)
          /\ IF job[h].op = "drain"
             THEN Goto(h, "list") /\ UNCHANGED dialogs
             ELSE Ends(h) /\ Edit(job[h].on, Show("result"))
       \/ (Write(h) \/ NoWrite(h)) /\ Refused(h)
    /\ UNCHANGED <<pods, drains, requests>>
-----------------------------------------------------------------------------
(* The rest of performDrain.                                               *)

\* Faulty: a drain that cannot list the pods returns and leaves its text.
Faulty_List(h) ==
    /\ pc[h] = "list"
    /\ \/ /\ todo' = [todo EXCEPT ![h] = {p \in Pod : place[p] = NodeOf(h) /\ phase[p] # "gone" /\ Evictable(p)}]
          /\ Goto(h, "evict")
          /\ UNCHANGED <<dialogs, reopened>>
       \/ Ends(h) /\ reopened' = reopened \ {h} /\ UNCHANGED <<dialogs, todo>>
    /\ UNCHANGED <<cordoned, fresh, pods, failed, requests>>

List(h) ==
    /\ pc[h] = "list"
    /\ \/ /\ todo' = [todo EXCEPT ![h] = {p \in Pod : place[p] = NodeOf(h) /\ phase[p] # "gone" /\ Evictable(p)}]
          /\ Goto(h, "evict")
          /\ UNCHANGED <<dialogs, reopened>>
       \/ GiveUp(h) /\ reopened' = reopened \ {h} /\ UNCHANGED todo
    /\ UNCHANGED <<cordoned, fresh, pods, failed, requests>>

\* A pod that is there starts to terminate, wherever it is by now.
Delete(p) ==
    /\ phase[p] # "gone"
    /\ phase' = [phase EXCEPT ![p] = "terminating"]
    /\ UNCHANGED place

\* Faulty: a refused eviction is tried again before the next one.
Faulty_Evict(h, p) ==
    /\ pc[h] = "evict"
    /\ p \in todo[h]
    /\ \/ Delete(p) /\ UNCHANGED failed /\ todo' = [todo EXCEPT ![h] = @ \ {p}]
       \/ (Delete(p) \/ UNCHANGED pods) /\ failed' = failed \cup {h} /\ UNCHANGED todo
    /\ Progress(h)
    /\ UNCHANGED <<nodes, pc, job, requests>>

\* One turn of the loop: an eviction by name, counted, and the text brought up
\* to date.
Evict(h, p) ==
    /\ pc[h] = "evict"
    /\ p \in todo[h]
    /\ todo' = [todo EXCEPT ![h] = @ \ {p}]
    /\ \/ Delete(p) /\ UNCHANGED failed
       \/ (Delete(p) \/ UNCHANGED pods) /\ failed' = failed \cup {h}
    /\ Progress(h)
    /\ UNCHANGED <<nodes, pc, job, requests>>

\* The counts are audited and shown.
Finish(h) ==
    /\ pc[h] = "evict"
    /\ todo[h] = {}
    /\ Edit(job[h].on, Show("result"))
    /\ Ends(h)
    /\ failed' = failed \ {h}
    /\ reopened' = reopened \ {h}
    /\ UNCHANGED <<cordoned, fresh, pods, todo, requests>>
-----------------------------------------------------------------------------
(* Restarts: handleRestartCommand and handleRestart lead to a question of  *)
(* their own, which stays until the pod has been deleted, so a restart may *)
(* be confirmed at any time.                                               *)

RestartConfirm(h, p) ==
    /\ Starts(h, "get", [op |-> "restart", on |-> p])
    /\ UNCHANGED <<nodes, pods, drains, dialogs, requests>>

\* A pod that is not found or has no controller is left alone.
GetPod(h) ==
    /\ Doing(h, "get", "restart")
    /\ \/ /\ phase[job[h].on] # "gone"
          /\ Kind[job[h].on] # "bare"
          /\ Goto(h, "put")
       \/ Ends(h)
    /\ UNCHANGED <<nodes, pods, drains, dialogs, requests>>

DeletePod(h) ==
    /\ Doing(h, "put", "restart")
    /\ Delete(job[h].on) \/ UNCHANGED pods
    /\ Ends(h)
    /\ UNCHANGED <<nodes, drains, dialogs, requests>>
-----------------------------------------------------------------------------
(* The cluster and the process.                                            *)

\* The kubelet ends a terminating pod.
Vanish(p) ==
    /\ phase[p] = "terminating"
    /\ phase' = [phase EXCEPT ![p] = "gone"]
    /\ UNCHANGED <<nodes, place, drains, dialogs, pc, job, requests>>

\* Its controller makes a pod of that name again: a DaemonSet on the same
\* node, the others wherever the scheduler finds a node that is not cordoned.
Recreate(p, n) ==
    /\ phase[p] = "gone"
    /\ \/ Kind[p] = "daemon" /\ n = place[p]
       \/ Kind[p] = "managed" /\ n \notin cordoned
    /\ phase' = [phase EXCEPT ![p] = "running"]
    /\ place' = [place EXCEPT ![p] = n]
    /\ UNCHANGED <<nodes, drains, dialogs, pc, job, requests>>

\* The process stops and starts again.
Crash ==
    /\ \E h \in Handler : pc[h] # "idle"
    /\ pc' = [h \in Handler |-> "idle"]
    /\ job' = [h \in Handler |-> NoJob]
    /\ fresh' = {}
    /\ todo' = [h \in Handler |-> {}]
    /\ failed' = {}
    /\ reopened' = {}
    /\ stuck' = stuck \cup {m \in Message : screen[m].view = "progress"}
    /\ UNCHANGED <<cordoned, pods, screen, requests>>

\* What a goroutine does once it has started.
Advance(h) ==
    \/ Submit(h) \/ Announce(h)
    \/ GetNode(h) \/ PutNode(h) \/ List(h) \/ Finish(h)
    \/ \E p \in Pod : Evict(h, p)
    \/ GetPod(h) \/ DeletePod(h)

Tap(h) ==
    \/ \E m \in Message : Confirm(h, m)
    \/ \E p \in Pod : RestartConfirm(h, p)

Next ==
    \/ \E h \in Handler : Tap(h) \/ Advance(h)
    \/ \E m \in Message : Detail(m) \/ \E o \in NodeOp : Ask(m, o)
    \/ \E p \in Pod : Vanish(p) \/ \E n \in Node : Recreate(p, n)
    \/ Crash

\* A goroutine that has started goes on to its end.
Spec == Init /\ [][Next]_vars /\ \A h \in Handler : WF_vars(Advance(h))
-----------------------------------------------------------------------------
TypeOK ==
    /\ cordoned \subseteq Node
    /\ place \in [Pod -> Node]
    /\ phase \in [Pod -> {"running", "terminating", "gone"}]
    /\ screen \in [Message -> Screen]
    /\ pc \in [Handler -> Stage]
    /\ job \in [Handler -> Job \cup {NoJob}]
    /\ fresh \subseteq Handler
    /\ todo \in [Handler -> SUBSET Pod]
    /\ failed \subseteq Handler
    /\ requests \subseteq Node
    /\ reopened \subseteq Handler
    /\ stuck \subseteq Message

\* What a drain reports is so: while a drain has not counted a failure and
\* nobody has uncordoned the node behind it, every pod that keeps the node busy
\* is one that the drain still has to evict; so none is left when it reports
\* success.  Neither restarts, nor controllers, nor other drains, nor writes
\* from an old copy of the node may put one there (performDrain).
DrainedIsEmpty ==
    \A h \in Handler : pc[h] = "evict" /\ h \notin failed \cup reopened =>
        \A p \in Pod : place[p] = NodeOf(h) /\ phase[p] = "running" /\ Kind[p] # "daemon" => p \in todo[h]

\* A dialog without buttons is not left waiting: it shows progress only while a
\* drain of it runs, unless Telegram refused the last edit or the process
\* stopped (performDrain, updateDrainMessage).
ProgressIsLive ==
    \A m \in Message : screen[m].view = "progress" /\ m \notin stuck =>
        \E h \in Handler : pc[h] # "idle" /\ job[h] = [op |-> "drain", on |-> m]

\* A drain ends, however often evictions are refused (performDrain).
DrainEnds == \A h \in Handler : pc[h] = "evict" ~> pc[h] = "idle"
-----------------------------------------------------------------------------
(* What the documentation says and the code does not do.                   *)

\* "delete all pods on the node": an eviction hits a pod of the drained node.
DrainStaysOnNode ==
    [][\A h \in Handler, p \in Pod :
          p \in todo[h] \ todo'[h] /\ phase'[p] # phase[p] => place[p] = NodeOf(h)]_vars
=============================================================================
