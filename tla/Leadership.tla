----------------------------- MODULE Leadership -----------------------------
(***************************************************************************)
(* Leader election and the background tasks it governs (internal/leader,   *)
(* internal/app, and the Start and Stop operations of the watcher and      *)
(* briefing modules).                                                      *)
(*                                                                         *)
(* A replica runs the watchers and the briefing scheduler either because   *)
(* it holds a Kubernetes Lease or, when it has no client for its default   *)
(* cluster, without asking.  The elector is client-go's; it is modelled    *)
(* from how elector.go configures and calls it: it retries until it has    *)
(* the lease, starts OnStartedLeading in a goroutine of its own, renews,   *)
(* and, when it cannot renew in time or the process is told to stop,       *)
(* releases the lease, cancels the leader's context and calls              *)
(* OnStoppedLeading.  Then it has returned: nothing starts it again.       *)
(*                                                                         *)
(* Durations are counted in ticks of a common rate; no replica reads       *)
(* another one's clock.                                                    *)
(***************************************************************************)
EXTENDS Integers

CONSTANTS
    Replica,
    Nobody,
    LeaseDuration,  \* after so long without a renewal a lease is free
    Patience,       \* RenewDeadline + RetryPeriod: how long after a renewal the
                    \* leader at the latest stops trying
    RenewDeadline,
    Lag             \* how long a call to the API server takes at most

ASSUME LeadershipAssumption ==
    /\ Nobody \notin Replica
    /\ LeaseDuration \in Nat
    /\ Patience \in Nat
    /\ RenewDeadline \in 0..Patience
    /\ Lag \in Nat
    /\ Patience + Lag < LeaseDuration

Task == {"watcher", "briefing"}

VARIABLES
    lease,      \* the Lease: its holder and the ticks since it was written
    proc,       \* proc[p], the process
    elector,    \* elector[p], where the elector's goroutine stands
    since,      \* since[p], the ticks since leader p learnt of a renewal
    callback,   \* callback[p], what OnStartedLeading does next
    isLeader,   \* isLeader[p], Elector.isLeader
    running,    \* running[p], the tasks whose module has its running flag set
    live        \* live[p], the tasks with goroutines whose context is not cancelled

vars == <<lease, proc, elector, since, callback, isLeader, running, live>>

\* The context of the leader, from which startBackgroundTasks derives those
\* of the tasks, is not cancelled.
Leads(p) == proc[p] = "up" /\ elector[p] \in {"leading", "release", "cancel"}

Init ==
    /\ lease = [holder |-> Nobody, age |-> 0]
    /\ proc = [p \in Replica |-> "off"]
    /\ elector = [p \in Replica |-> "none"]
    /\ since = [p \in Replica |-> 0]
    /\ callback = [p \in Replica |-> "none"]
    /\ isLeader = [p \in Replica |-> FALSE]
    /\ running = [p \in Replica |-> {}]
    /\ live = [p \in Replica |-> {}]

ElectorAt(p, to) == elector' = [elector EXCEPT ![p] = to]
-----------------------------------------------------------------------------
(* The process.                                                            *)

\* The elector starts; or the default cluster has no client, or leader
\* election is not enabled, and the tasks are started at once.
Boot(p) ==
    /\ proc[p] = "off"
    /\ proc' = [proc EXCEPT ![p] = "up"]
    /\ \/ /\ ElectorAt(p, "campaign")
          /\ UNCHANGED <<running, live>>
       \/ /\ running' = [running EXCEPT ![p] = Task]
          /\ live' = [live EXCEPT ![p] = Task]
          /\ UNCHANGED elector
    /\ UNCHANGED <<lease, since, callback, isLeader>>

\* SIGTERM cancels the context of Run and every context derived from it.
Terminate(p) ==
    /\ proc[p] = "up"
    /\ proc' = [proc EXCEPT ![p] = "stopping"]
    /\ live' = [live EXCEPT ![p] = {}]
    /\ UNCHANGED <<lease, elector, since, callback, isLeader, running>>

\* shutdown stops every module, the tasks' among them.
StopModule(p, t) ==
    /\ proc[p] = "stopping"
    /\ t \in running[p]
    /\ running' = [running EXCEPT ![p] = @ \ {t}]
    /\ UNCHANGED <<lease, proc, elector, since, callback, isLeader, live>>

\* The process is gone: a crash at any time, or the end of shutdown, which
\* does not wait for the elector.
Exit(p) ==
    /\ proc[p] # "off"
    /\ proc' = [proc EXCEPT ![p] = "off"]
    /\ ElectorAt(p, "none")
    /\ since' = [since EXCEPT ![p] = 0]
    /\ callback' = [callback EXCEPT ![p] = "none"]
    /\ isLeader' = [isLeader EXCEPT ![p] = FALSE]
    /\ running' = [running EXCEPT ![p] = {}]
    /\ live' = [live EXCEPT ![p] = {}]
    /\ UNCHANGED lease
-----------------------------------------------------------------------------
(* The elector.                                                            *)

\* Faulty: a name that all replicas share.
Faulty_Identity(p) == CHOOSE q \in Replica : TRUE

\* The host name, which is the pod's: it survives a restart of the process, and
\* no two replicas have the same.
Identity(p) == p

\* Faulty: only a lease that was released is taken.
Faulty_FreeReleased(p) == lease.holder \in {Nobody, Identity(p)}

\* Nobody's, one's own (of an earlier life of the process, under the same host
\* name), or not renewed for LeaseDuration.
Free(p) == lease.holder \in {Nobody, Identity(p)} \/ lease.age >= LeaseDuration

\* The lease is written a while before the answer is there, and the answer
\* may be lost.
Write(p) == \E late \in 0..Lag : lease' = [holder |-> Identity(p), age |-> late]

Acquire(p, answered) ==
    /\ elector[p] = "campaign"
    /\ Free(p)
    /\ Write(p)
    /\ IF answered
       THEN /\ ElectorAt(p, "leading")
            /\ since' = [since EXCEPT ![p] = 0]
            /\ callback' = [callback EXCEPT ![p] = "flag"]
       ELSE UNCHANGED <<elector, since, callback>>
    /\ UNCHANGED <<proc, isLeader, running, live>>

Renew(p, answered) ==
    /\ elector[p] = "leading"
    /\ lease.holder = Identity(p)
    /\ Write(p)
    /\ since' = [since EXCEPT ![p] = IF answered THEN 0 ELSE @]
    /\ UNCHANGED <<proc, elector, callback, isLeader, running, live>>

\* The renew loop ends: RenewDeadline has passed, or the process is stopping.
GiveUp(p) ==
    /\ elector[p] = "leading"
    /\ since[p] >= RenewDeadline \/ proc[p] = "stopping"
    /\ ElectorAt(p, "release")
    /\ since' = [since EXCEPT ![p] = 0]
    /\ UNCHANGED <<lease, proc, callback, isLeader, running, live>>

\* ReleaseOnCancel: the lease is given back, or the call fails; it may take
\* any time, and the leader's context is not cancelled before.
Release(p) ==
    /\ elector[p] = "release"
    /\ \/ UNCHANGED lease
       \/ lease.holder = Identity(p) /\ lease' = [holder |-> Nobody, age |-> 0]
    /\ ElectorAt(p, "cancel")
    /\ UNCHANGED <<proc, since, callback, isLeader, running, live>>

\* The leader's context is cancelled.
CancelContext(p) ==
    /\ elector[p] = "cancel"
    /\ ElectorAt(p, "unflag")
    /\ live' = [live EXCEPT ![p] = {}]
    /\ UNCHANGED <<lease, proc, since, callback, isLeader, running>>

\* Told to stop before it has led, the elector calls OnStoppedLeading too.
Withdraw(p) ==
    /\ elector[p] = "campaign"
    /\ proc[p] = "stopping"
    /\ ElectorAt(p, "unflag")
    /\ UNCHANGED <<lease, proc, since, callback, isLeader, running, live>>
-----------------------------------------------------------------------------
(* The callbacks.                                                          *)

\* OnStoppedLeading: isLeader is cleared, then StopWatchers and StopScheduler
\* are called, each of which does nothing for a task that is not running.
StoppedLeading(p) ==
    \/ /\ elector[p] = "unflag"
       /\ ElectorAt(p, "watcher")
       /\ isLeader' = [isLeader EXCEPT ![p] = FALSE]
       /\ UNCHANGED <<lease, proc, since, callback, running, live>>
    \/ /\ elector[p] \in Task
       /\ ElectorAt(p, IF elector[p] = "watcher" THEN "briefing" ELSE "ended")
       /\ running' = [running EXCEPT ![p] = @ \ {elector[p]}]
       /\ live' = [live EXCEPT ![p] = @ \ {elector[p]}]
       /\ UNCHANGED <<lease, proc, since, callback, isLeader>>

\* Faulty: the tasks are started under the context of the process.
Faulty_StartTask(p, t) ==
    /\ callback[p] = t
    /\ callback' = [callback EXCEPT ![p] = IF t = "watcher" THEN "briefing" ELSE "none"]
    /\ running' = [running EXCEPT ![p] = @ \cup {t}]
    /\ live' = IF proc[p] = "up" /\ t \notin running[p]
               THEN [live EXCEPT ![p] = @ \cup {t}] ELSE live
    /\ UNCHANGED <<lease, proc, elector, since, isLeader>>

\* StartWatchers and StartScheduler set the flag and start goroutines under
\* the leader's context, cancelled or not; a running task is left alone.
StartTask(p, t) ==
    /\ callback[p] = t
    /\ callback' = [callback EXCEPT ![p] = IF t = "watcher" THEN "briefing" ELSE "none"]
    /\ running' = [running EXCEPT ![p] = @ \cup {t}]
    /\ live' = IF Leads(p) /\ t \notin running[p]
               THEN [live EXCEPT ![p] = @ \cup {t}] ELSE live
    /\ UNCHANGED <<lease, proc, elector, since, isLeader>>

\* OnStartedLeading, in its own goroutine: isLeader is set, then both tasks
\* are started.
StartedLeading(p) ==
    \/ /\ callback[p] = "flag"
       /\ callback' = [callback EXCEPT ![p] = "watcher"]
       /\ isLeader' = [isLeader EXCEPT ![p] = TRUE]
       /\ UNCHANGED <<lease, proc, elector, since, running, live>>
    \/ \E t \in Task : StartTask(p, t)
-----------------------------------------------------------------------------
\* Faulty: a leader may go on trying for as long as it likes.
Faulty_Tick ==
    /\ lease' = [lease EXCEPT !.age = IF @ < LeaseDuration THEN @ + 1 ELSE @]
    /\ since' = [p \in Replica |-> IF elector[p] = "leading" THEN since[p] + 1 ELSE since[p]]
    /\ UNCHANGED <<proc, elector, callback, isLeader, running, live>>

\* Time passes; a leader whose Patience is over has given up by then.  The
\* age of the lease is counted up to LeaseDuration.
Tick ==
    /\ \A p \in Replica : elector[p] = "leading" => since[p] < Patience
    /\ lease' = [lease EXCEPT !.age = IF @ < LeaseDuration THEN @ + 1 ELSE @]
    /\ since' = [p \in Replica |-> IF elector[p] = "leading" THEN since[p] + 1 ELSE since[p]]
    /\ UNCHANGED <<proc, elector, callback, isLeader, running, live>>

\* What the goroutine of the elector does of itself, the campaign apart.
StepDown(p) == GiveUp(p) \/ Release(p) \/ CancelContext(p) \/ Withdraw(p) \/ StoppedLeading(p)

Next ==
    \/ \E p \in Replica :
          \/ Boot(p) \/ Terminate(p) \/ Exit(p)
          \/ \E t \in Task : StopModule(p, t)
          \/ \E answered \in BOOLEAN : Acquire(p, answered) \/ Renew(p, answered)
          \/ StepDown(p)
          \/ StartedLeading(p)
    \/ Tick

Spec == Init /\ [][Next]_vars

\* Time passes, goroutines go on, and of the retries of a campaigner that find
\* the lease free, again and again, one is answered some day: the retry loop
\* has no end.  Nothing is assumed of renewals, of crashes or of the start of
\* processes.
Fairness ==
    /\ WF_vars(Tick)
    /\ \A p \in Replica :
          /\ SF_vars(Acquire(p, TRUE))
          /\ WF_vars(StepDown(p))
          /\ WF_vars(StartedLeading(p))

FairSpec == Spec /\ Fairness
-----------------------------------------------------------------------------
TypeOK ==
    /\ lease \in [holder : Replica \cup {Nobody}, age : 0..LeaseDuration]
    /\ proc \in [Replica -> {"off", "up", "stopping"}]
    /\ elector \in [Replica -> {"none", "campaign", "leading", "release", "cancel",
                                "unflag", "ended"} \cup Task]
    /\ since \in [Replica -> 0..Patience]
    /\ callback \in [Replica -> {"none", "flag"} \cup Task]
    /\ isLeader \in [Replica -> BOOLEAN]
    /\ running \in [Replica -> SUBSET Task]
    /\ live \in [Replica -> SUBSET Task]

\* p works because it was elected, not because it fell back to direct mode.
WorksElected(p) == live[p] # {} /\ elector[p] # "none"

\* At most one elector is in its renew loop, however renewals, their answers
\* and crashes fall: the others wait longer than the leader goes on trying
\* (DefaultConfig's three durations, elector.Start).
OneLeader ==
    \A p, q \in Replica : elector[p] = "leading" /\ elector[q] = "leading" => p = q

\* Elected replicas do not work side by side, but for the time in which one
\* of them has stopped renewing and is giving the lease back; this although
\* OnStartedLeading runs in a goroutine of its own and may start tasks after
\* OnStoppedLeading has stopped them (startBackgroundTasks).
OneWorker ==
    \A p, q \in Replica :
        WorksElected(p) /\ WorksElected(q) /\ p # q =>
            \/ elector[p] \in {"release", "cancel"}
            \/ elector[q] \in {"release", "cancel"}

\* Nobody campaigns in vain: a campaign ends, or somebody leads, however the
\* holder of the lease went (Start, Stop).
Failover ==
    \A p \in Replica :
        elector[p] = "campaign" ~> elector[p] # "campaign" \/ \E q \in Replica : elector[q] = "leading"
=============================================================================
