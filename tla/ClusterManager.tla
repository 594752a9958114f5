--------------------------- MODULE ClusterManager ---------------------------
(***************************************************************************)
(* The cluster manager (internal/cluster/manager.go): the clients of the   *)
(* clusters, built when they are first asked for, and their health, both   *)
(* behind one sync.RWMutex.                                                *)
(*                                                                         *)
(* Go's RWMutex is modelled by what it does: a writer that has announced   *)
(* itself holds back new readers, waits for those it found, and lets in    *)
(* all that queued up behind it when it unlocks.                           *)
(***************************************************************************)
EXTENDS Integers

CONSTANTS
    Caller,     \* goroutines: handlers, watchers, the briefing
    Checker,    \* the goroutine of healthChecker
    Cluster,
    NoWriter,
    NoCluster,
    MaxBuilt    \* bound on the clients built

ASSUME ManagerAssumption ==
    /\ NoWriter \notin Caller \cup {Checker}
    /\ Checker \notin Caller
    /\ NoCluster \notin Cluster
    /\ MaxBuilt \in Nat

Proc == Caller \cup {Checker}

VARIABLES
    clients,    \* clients[c], the number of the entry's clients, 0 for nil
    status,     \* status[c], the entry's info.Status
    built,      \* how many clients were built
    pc,         \* pc[p], what goroutine p does next
    on,         \* on[p], the cluster a caller asks for, or None
    todo,       \* the clusters HealthCheck has not come to
    done,       \* Close has closed the channel
    readers,    \* mu: who holds the read lock
    queued,     \* who waits for it behind a writer
    writer,     \* who has announced itself as the writer
    handed      \* history: handed[c], the clients callers were given

manager == <<clients, status, built, pc, on, todo, done, readers, queued, writer, handed>>

lock == <<readers, queued, writer>>
entries == <<clients, status, built>>

\* NewManager.
ManagerInit ==
    /\ clients = [c \in Cluster |-> 0]
    /\ status = [c \in Cluster |-> "unknown"]
    /\ built = 0
    /\ pc = [p \in Proc |-> "idle"]
    /\ on = [p \in Caller |-> NoCluster]
    /\ todo = {}
    /\ done = FALSE
    /\ readers = {}
    /\ queued = {}
    /\ writer = NoWriter
    /\ handed = [c \in Cluster |-> {}]
-----------------------------------------------------------------------------
(* sync.RWMutex.                                                           *)

RLock(p) ==
    /\ IF writer = NoWriter
       THEN readers' = readers \cup {p} /\ UNCHANGED queued
       ELSE queued' = queued \cup {p} /\ UNCHANGED readers
    /\ UNCHANGED writer

RUnlock(p) == readers' = readers \ {p} /\ UNCHANGED <<queued, writer>>

\* Writers exclude one another before they announce themselves.
Lock(p) == writer = NoWriter /\ writer' = p /\ UNCHANGED <<readers, queued>>

Locked(p) == writer = p /\ readers = {}

Unlock == writer' = NoWriter /\ readers' = queued /\ queued' = {}
-----------------------------------------------------------------------------
(* Callers.                                                                *)

Goto(p, to) == pc' = [pc EXCEPT ![p] = to]

Return(p) == Goto(p, "idle") /\ on' = [on EXCEPT ![p] = NoCluster]

Gives(c, n) == handed' = [handed EXCEPT ![c] = @ \cup {n}]

\* ClientSet, MetricsClient, DynamicClient and RESTConfig ask for the clients.
Ask(p, c) ==
    /\ pc[p] = "idle"
    /\ on' = [on EXCEPT ![p] = c]
    /\ Goto(p, "look")
    /\ RLock(p)
    /\ UNCHANGED <<entries, todo, done, handed>>

\* List, Get and GetDefault copy what the entries say.
AskInfo(p) ==
    /\ pc[p] = "idle"
    /\ Goto(p, "copy")
    /\ RLock(p)
    /\ UNCHANGED <<entries, on, todo, done, handed>>

\* The copy may be torn by the health check, which writes the status under the
\* read lock: only the emoji beside a cluster's name depends on it.
Copy(p) ==
    /\ pc[p] = "copy" /\ p \in readers
    /\ Goto(p, "idle")
    /\ RUnlock(p)
    /\ UNCHANGED <<entries, on, todo, done, handed>>

\* getOrCreateClients, under the read lock.
Look(p) ==
    /\ pc[p] = "look" /\ p \in readers
    /\ IF clients[on[p]] # 0
       THEN Return(p) /\ Gives(on[p], clients[on[p]])
       ELSE Goto(p, "lock") /\ UNCHANGED <<on, handed>>
    /\ RUnlock(p)
    /\ UNCHANGED <<entries, todo, done>>

WantLock(p) ==
    /\ pc[p] = "lock"
    /\ Lock(p)
    /\ Goto(p, "create")
    /\ UNCHANGED <<entries, on, todo, done, handed>>

\* kube.NewClients fails, say because the kubeconfig has no such context.
CannotBuild(c) ==
    /\ status' = [status EXCEPT ![c] = "unhealthy"]
    /\ UNCHANGED <<clients, built, handed>>

Build(c) ==
    /\ built < MaxBuilt
    /\ built' = built + 1
    /\ clients' = [clients EXCEPT ![c] = built + 1]
    /\ status' = [status EXCEPT ![c] = "healthy"]
    /\ Gives(c, built + 1)

\* Faulty: what was found missing under the read lock is not looked for again.
Faulty_Create(p) ==
    /\ pc[p] = "create" /\ Locked(p)
    /\ Build(on[p]) \/ CannotBuild(on[p])
    /\ Return(p)
    /\ Unlock
    /\ UNCHANGED <<todo, done>>

\* getOrCreateClients, under the write lock.
Create(p) ==
    /\ pc[p] = "create" /\ Locked(p)
    /\ IF clients[on[p]] # 0
       THEN Gives(on[p], clients[on[p]]) /\ UNCHANGED entries
       ELSE Build(on[p]) \/ CannotBuild(on[p])
    /\ Return(p)
    /\ Unlock
    /\ UNCHANGED <<todo, done>>
-----------------------------------------------------------------------------
(* The health checker.                                                     *)

\* The ticker, every 30 seconds: HealthCheck takes the read lock.
CheckerTick ==
    /\ pc[Checker] = "idle" /\ ~done
    /\ Goto(Checker, "check")
    /\ RLock(Checker)
    /\ todo' = Cluster
    /\ UNCHANGED <<entries, on, done, handed>>

\* Faulty: it looks the entry up through Get, which takes the read lock again.
Faulty_HealthCheck(c) ==
    /\ pc[Checker] = "check" /\ Checker \in readers /\ writer = NoWriter
    /\ c \in todo
    /\ todo' = todo \ {c}
    /\ IF clients[c] = 0
       THEN UNCHANGED status
       ELSE \E s \in {"healthy", "unhealthy"} : status' = [status EXCEPT ![c] = s]
    /\ UNCHANGED <<clients, built, pc, on, done, lock, handed>>

\* HealthCheck comes to the next entry of the map.  It keeps the read lock while
\* the cluster answers or the client's timeout runs out.
HealthCheck(c) ==
    /\ pc[Checker] = "check" /\ Checker \in readers
    /\ c \in todo
    /\ todo' = todo \ {c}
    /\ IF clients[c] = 0
       THEN UNCHANGED status
       ELSE \E s \in {"healthy", "unhealthy"} : status' = [status EXCEPT ![c] = s]
    /\ UNCHANGED <<clients, built, pc, on, done, lock, handed>>

HealthChecked ==
    /\ pc[Checker] = "check" /\ Checker \in readers /\ todo = {}
    /\ Goto(Checker, "idle")
    /\ RUnlock(Checker)
    /\ UNCHANGED <<entries, on, todo, done, handed>>

\* Close stops the health checker; handlers that still run are served.
Close ==
    /\ ~done
    /\ done' = TRUE
    /\ UNCHANGED <<entries, pc, on, todo, lock, handed>>

Managing ==
    \/ \E p \in Caller :
          \/ AskInfo(p) \/ Copy(p) \/ Look(p) \/ WantLock(p) \/ Create(p)
          \/ \E c \in Cluster : Ask(p, c)
    \/ CheckerTick
    \/ \E c \in Cluster : HealthCheck(c)
    \/ HealthChecked
    \/ Close

ManagerSpec == ManagerInit /\ [][Managing]_manager

\* A goroutine goes on, calls to a cluster have a timeout, and a mutex that is
\* handed over in turn, as Go's is to who has waited a millisecond, is had by
\* everyone who waits for it.
FairManagerSpec ==
    /\ ManagerSpec
    /\ \A p \in Caller :
          /\ WF_manager(Copy(p) \/ Look(p) \/ Create(p))
          /\ SF_manager(WantLock(p))
    /\ WF_manager((\E c \in Cluster : HealthCheck(c)) \/ HealthChecked)
-----------------------------------------------------------------------------
ManagerTypeOK ==
    /\ clients \in [Cluster -> 0..MaxBuilt]
    /\ status \in [Cluster -> {"unknown", "healthy", "unhealthy"}]
    /\ built \in 0..MaxBuilt
    /\ pc \in [Proc -> {"idle", "copy", "look", "lock", "create", "check"}]
    /\ on \in [Caller -> Cluster \cup {NoCluster}]
    /\ todo \subseteq Cluster
    /\ done \in BOOLEAN
    /\ readers \subseteq Proc
    /\ queued \subseteq Proc
    /\ writer \in Caller \cup {NoWriter}
    /\ handed \in [Cluster -> SUBSET (1..MaxBuilt)]

\* However many ask for a cluster at once, one set of clients is built for it
\* and all are given that one (the double check of getOrCreateClients).
OneClient ==
    \A c \in Cluster : handed[c] \subseteq {clients[c]} \ {0}

\* Who calls the manager gets an answer, though health checks wait for clusters
\* with the lock in hand and writers hold back readers.
Served ==
    \A p \in Caller : pc[p] # "idle" ~> pc[p] = "idle"
=============================================================================
