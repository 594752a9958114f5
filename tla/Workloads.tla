----------------------------- MODULE Workloads -----------------------------
(***************************************************************************)
(* The dialogs that change workloads: /scale (internal/module/kubernetes/  *)
(* scale.go) and /helm (internal/module/helm).                             *)
(*                                                                         *)
(* A tap on Confirm runs in a goroutine of its own, so several run at a    *)
(* time, beside the dialogs: it asks the cluster for the change, whose     *)
(* answer may be lost, logs an audit entry and edits the message, and a    *)
(* scaling starts another goroutine that reports the rollout.              *)
(***************************************************************************)
EXTENDS Dialogs

CONSTANTS
    Handler,        \* the goroutines of handlers of Confirm
    Workload,       \* deployments and statefulsets: <<kind, name, namespace, cluster>>
    Preset,         \* the preset numbers of replicas
    ScaleMax,       \* scaleMaxDefault
    Release,        \* the name of a release, which every namespace of First has
    First,          \* the first cluster of the configuration
    MaxRevision,    \* bound on the revisions of a release
    MaxAttempts     \* bound on the changes that are confirmed

ASSUME WorkloadsAssumption ==
    /\ \A w \in Workload :
          w = <<w[1], w[2], w[3], w[4]>> /\ w[3] \in Namespace /\ w[4] \in Cluster
    /\ Preset \subseteq Nat /\ ScaleMax \in Nat
    /\ First \in Cluster
    /\ MaxRevision \in Nat \ {0} /\ MaxAttempts \in Nat

VARIABLES
    about,      \* the commands whose message is followed: displays, or changes
    replicas,   \* replicas[w], spec.replicas
    revision,   \* revision[n], the last revision of the release of namespace n
    job,        \* job[h], what handler h is at
    attempts,   \* history: how many changes have been confirmed
    changed,    \* history: the attempts that changed something
    unheard,    \* history: the Helm rollbacks among them that reported an error
    lost,       \* history: the attempts whose process died
    trail       \* the audit log: [id, status], of an attempt

work == <<replicas, revision>>
history == <<changed, unheard, lost, trail>>
workloads == <<dialogs, about, work, job, attempts, history>>

Idle == [at |-> "idle", id |-> 0, data |-> <<>>, ok |-> FALSE]

\* What h is at next, with the same attempt.
At(h, at, ok) == [at |-> at, id |-> job[h].id, data |-> job[h].data, ok |-> ok]
-----------------------------------------------------------------------------
(* Scaling.                                                                *)

Replicas(w) == replicas[w]

About(w, to, d) == Btn("scale", to, d, w[4], w[3])

\* sendScaleableResources.
ScaleMenu(c, n) ==
    {About(w, "detail", w) : w \in {v \in Workload : v[4] = c /\ n \in {All, v[3]}}}
    \cup {Btn("scale", "again", <<c>>, c, None)}

\* handleScaleDetail.  Back has the cluster too, which its handler takes for
\* a part of the name of the namespace.
DetailMenu(w) ==
    LET i == Replicas(w)
    IN  {About(w, "set", Append(w, t)) :
            t \in (({i - 1} \cap Nat) \cup Preset \cup {i + 1}) \ {i}}
        \cup {About(w, "ns", <<w[3], w[4]>>)}

AskMenu(w, t) == {About(w, "confirm", Append(w, t)), About(w, "cancel", w)}

\* /scale, and Back from the list of resources.
ScaleCommand(u) == Select("scale", GetCluster("k8s", u)) /\ UNCHANGED strayed

ScaleBack(u) ==
    \E b \in Taps("scale", "again") :
        /\ strayed' = (strayed \/ Strays(b, GetCluster("k8s", u), None))
        /\ Select("scale", GetCluster("k8s", u))

ScaleNamespaceSelect(u) ==
    \E b \in Taps("scale", "ns") :
        LET c == GetCluster("k8s", u)
            n == Whole(Data(b))
        IN  /\ Answer(b, c, n, IF Cardinality(ScaleMenu(c, n)) > 1 THEN {ScaleMenu(c, n)} ELSE {})
            /\ UNCHANGED <<selected, clusters>>

\* handleScaleDetail, which Cancel calls too.
ScaleDetail ==
    \E b \in Taps("scale", "detail") \cup Taps("scale", "cancel") :
        LET d == Data(b)
        IN  /\ Len(d) = 4
            /\ Answer(b, d[4], d[3], IF d \in Workload THEN {DetailMenu(d)} ELSE {})
            /\ UNCHANGED <<selected, clusters>>

\* handleScaleSet.
ScaleSet ==
    \E b \in Taps("scale", "set") :
        LET d == Data(b)
            w == <<d[1], d[2], d[3], d[4]>>
        IN  /\ Len(d) = 5
            /\ d[5] \in 0..ScaleMax
            /\ Answer(b, d[4], d[3], IF w \in Workload THEN {AskMenu(w, d[5])} ELSE {})
            /\ UNCHANGED <<selected, clusters>>

\* A handler starts on a change.  It strays if the change is not the one that
\* the button stands for.
Begin(h, at, b) ==
    /\ job[h] = Idle
    /\ attempts < MaxAttempts
    /\ attempts' = attempts + 1
    /\ job' = [job EXCEPT ![h] = [at |-> at, id |-> attempts', data |-> Data(b), ok |-> FALSE]]
    /\ strayed' = (strayed \/ (Data(b) # b.data /\ Len(Data(b)) = Len(b.data)))

\* handleScaleConfirm, up to the change; an approval may be needed: then the
\* handler submits a request and is done.
ScaleConfirm(h) ==
    /\ \E b \in Taps("scale", "confirm") :
          Len(Data(b)) = 5 /\ (UNCHANGED <<job, attempts, strayed>> \/ Begin(h, "scale", b))
    /\ UNCHANGED <<menu, store, selected, clusters, work, history>>

\* The change of attempt i happens or not, and is answered by success or not.
Outcome(h, at, happens, ok) ==
    /\ job' = [job EXCEPT ![h] = At(h, at, ok)]
    /\ changed' = IF happens THEN changed \cup {job[h].id} ELSE changed
    /\ UNCHANGED <<dialogs, attempts, lost, trail>>

\* UpdateScale, without a resource version.
UpdateScale(h) ==
    LET w == SubSeq(job[h].data, 1, 4)
    IN  /\ job[h].at = "scale"
        /\ \E happens, ok \in BOOLEAN :
              /\ (ok => happens) /\ (happens => w \in Workload)
              /\ Outcome(h, "audit", happens, ok)
              /\ replicas' = IF happens THEN [replicas EXCEPT ![w] = job[h].data[5]] ELSE replicas
        /\ UNCHANGED <<revision, unheard>>

\* Faulty: only success is audited.
Faulty_Entries(h) == IF job[h].ok THEN {[id |-> job[h].id, status |-> "success"]} ELSE {}

\* The audit entry of a scaling.
Entries(h) == {[id |-> job[h].id, status |-> IF job[h].ok THEN "success" ELSE "error"]}

\* The scaling is audited; if it failed the handler is done.
AuditScale(h) ==
    /\ job[h].at = "audit"
    /\ trail' = trail \cup Entries(h)
    /\ job' = [job EXCEPT ![h] = IF job[h].ok THEN At(h, "watch", TRUE) ELSE Idle]
    /\ UNCHANGED <<dialogs, work, attempts, changed, unheard, lost>>

\* The edit that reports the scaling, and those of watchRollout, take the
\* keyboard away, whatever it is by then.
Report(h) ==
    /\ job[h].at = "watch"
    /\ menu' = {} /\ store' = {}
    /\ UNCHANGED <<strayed, selected, clusters, work, job, attempts, history>>

\* watchRollout ends: enough replicas are ready, an error, or the time is up.
RolloutWatched(h) ==
    /\ job[h].at = "watch"
    /\ job' = [job EXCEPT ![h] = Idle]
    /\ UNCHANGED <<dialogs, work, attempts, history>>
-----------------------------------------------------------------------------
(* Helm.  The namespace All stands for the empty name.                     *)

HelmBtn(to, d) == Btn("helm", to, d, d[1], d[2])

\* handleHelm.
HelmMenu == {HelmBtn("ns", <<First, n>>) : n \in spaces[First] \cup {All}}

\* handleNamespaceSelect, and Refresh.
ReleaseMenu(c, n) == {HelmBtn("detail", <<c, n, Release>>), HelmBtn("ns", <<c, n>>)}

ReleaseDetailMenu(c, n) == {HelmBtn("select", <<c, n, Release>>), HelmBtn("ns", <<c, n>>)}

\* The revisions of the release, the last one too.
RevisionMenu(c, n) ==
    {HelmBtn("confirm", <<c, n, Release, v>>) :
        v \in 1..revision[IF n = All THEN CHOOSE m \in spaces[c] : TRUE ELSE n]}

HelmCommand ==
    /\ Show({HelmMenu})
    /\ UNCHANGED <<strayed, selected, clusters>>

\* clientForCluster, and what its client finds in a namespace.
Released(c, n) == c = First /\ spaces[c] # {} /\ n \in spaces[c] \cup {All}

\* A tap of so many parts on a button of the helm family.
HelmTap(to, parts, Menu(_, _)) ==
    \E b \in Taps("helm", to) :
        LET d == Data(b)
        IN  /\ Len(d) = parts
            /\ Answer(b, d[1], d[2],
                      IF Released(d[1], d[2]) THEN {Menu(d[1], d[2])} ELSE {})
            /\ UNCHANGED <<selected, clusters>>

HelmNamespaceSelect == HelmTap("ns", 2, ReleaseMenu)
ReleaseDetail == HelmTap("detail", 3, ReleaseDetailMenu)
RollbackSelect == HelmTap("select", 3, RevisionMenu)

\* handleRollbackConfirm: the edit, and the rollback begins.
RollbackConfirm(h) ==
    /\ \E b \in Taps("helm", "confirm") : Len(Data(b)) = 4 /\ Begin(h, "rollback", b)
    /\ \/ menu' = {} /\ store' = {}
       \/ UNCHANGED <<menu, store>>
    /\ UNCHANGED <<selected, clusters, work, history>>

\* Helm adds a revision, in a namespace, and waits for its resources.
Rollback(h) ==
    LET n == job[h].data[2]
    IN  /\ job[h].at = "rollback"
        /\ \E happens, ok \in BOOLEAN :
              /\ (ok => happens) /\ (happens => n \in spaces[First] /\ revision[n] < MaxRevision)
              /\ Outcome(h, IF ok THEN "rolled" ELSE "failed", happens, ok)
              /\ revision' = IF happens THEN [revision EXCEPT ![n] = @ + 1] ELSE revision
              /\ unheard' = IF happens /\ ~ok THEN unheard \cup {job[h].id} ELSE unheard
        /\ UNCHANGED replicas

\* A rollback that succeeded is audited, one that failed is not; the last edit
\* tells, and takes the keyboard away.
Rolled(h) ==
    /\ job[h].at \in {"rolled", "failed"}
    /\ trail' = IF job[h].at = "rolled" THEN trail \cup Entries(h) ELSE trail
    /\ job' = [job EXCEPT ![h] = Idle]
    /\ menu' = {} /\ store' = {}
    /\ UNCHANGED <<strayed, selected, clusters, work, attempts, changed, unheard, lost>>
-----------------------------------------------------------------------------
\* The process dies with its goroutines and restarts.
Crash ==
    /\ Restart
    /\ lost' = lost \cup ({job[h].id : h \in Handler} \ {0})
    /\ job' = [h \in Handler |-> Idle]
    /\ UNCHANGED <<work, attempts, changed, unheard, trail>>

WorkloadsInit ==
    /\ DialogsInit
    /\ about \in {"displays", "changes"}
    /\ replicas = [w \in Workload |-> 1]
    /\ revision = [n \in Namespace |-> 1]
    /\ job = [h \in Handler |-> Idle]
    /\ attempts = 0
    /\ changed = {} /\ unheard = {} /\ lost = {} /\ trail = {}

\* What leads up to a change, or to none.
Considered ==
    \/ \E u \in User :
          \/ ScaleCommand(u) \/ ScaleBack(u) \/ ScaleNamespaceSelect(u)
          \/ \E c \in Cluster : ClusterSelect(u, c)
    \/ ScaleDetail \/ ScaleSet
    \/ HelmCommand \/ HelmNamespaceSelect \/ ReleaseDetail \/ RollbackSelect

Handled(h) ==
    \/ ScaleConfirm(h) \/ UpdateScale(h) \/ AuditScale(h) \/ Report(h) \/ RolloutWatched(h)
    \/ RollbackConfirm(h) \/ Rollback(h) \/ Rolled(h)

Calm == UNCHANGED <<about, work, job, attempts, history>>

Working ==
    \/ about = "displays" /\ Displayed /\ Calm
    \/ about = "changes" /\ Considered /\ Calm
    \/ Meanwhile /\ Calm
    \/ \E h \in Handler : Handled(h) /\ UNCHANGED about
    \/ Crash /\ UNCHANGED about

WorkloadsSpec == WorkloadsInit /\ [][Working]_workloads
-----------------------------------------------------------------------------
\* The audit log tells what became of the workloads, whatever handlers run at
\* a time and whichever answers are lost: an entry of success stands for a
\* change, and a change has an entry, of success or of error, or its handler is
\* about to log it, or its process died; the exception is a rollback of Helm
\* that reported an error and yet added a revision (handleScaleConfirm,
\* handleRollbackConfirm).
TrailTells ==
    /\ {e.id : e \in {f \in trail : f.status = "success"}} \subseteq changed
    /\ changed \subseteq
          {e.id : e \in trail} \cup {job[h].id : h \in {g \in Handler : job[g].at \in {"audit", "rolled"}}}
          \cup lost \cup unheard
=============================================================================
