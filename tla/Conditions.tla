----------------------------- MODULE Conditions -----------------------------
(***************************************************************************)
(* What the watchers look for (internal/module/watcher): which state of an *)
(* object, or which change of it, makes an alarm.                          *)
(*                                                                         *)
(* One object is under watch, of a kind chosen at first.  The pod and node *)
(* watchers are called with an old and a new object by an informer, again  *)
(* and again with the same one (resync); the others poll.  The ArgoCD      *)
(* watcher keeps the last state itself, across the times it is started.    *)
(* A cooldown is one bit of a key here; Alerts has its times.              *)
(* The three pressures of a node are Pressure, a pod has one container, a  *)
(* CronJob one job, and a rule is about one object in its scope.           *)
(***************************************************************************)
EXTENDS Integers

CONSTANTS
    Pressure,     \* DiskPressure, MemoryPressure, PIDPressure
    Restarts,     \* restart counts of a container
    Percentage,   \* of the capacity of a claim that is used
    Days,         \* until a certificate expires
    Health, Sync, \* states of an application
    Millis, Hard  \* CPU that a namespace uses, in thousandths, and its quota

RestartThreshold == 5
PVCWarning == 80
PVCCritical == 90
AlertDaysBefore == 30
CriticalDaysBefore == 7
QuotaThreshold == 80
NotMeasured == -1   \* no annotation, or no capacity

ASSUME ConditionsAssumption ==
    /\ Restarts \subseteq Nat /\ Percentage \subseteq Nat /\ Days \subseteq Nat
    /\ Millis \subseteq Nat /\ Hard \in Nat \ {0}

VARIABLES
    sort,       \* of the object
    obj,        \* the object in its cluster
    watching,   \* StartWatchers was called, StopWatchers was not
    known,      \* the watcher has looked at the object since
    last,       \* as it did last (lastState of the ArgoCD watcher)
    cool,       \* the keys of which alertCache has a fresh entry
    told,       \* history: of the conditions that hold, those an alert was sent of
    excused     \* history: those it was not, at a first look or for the cooldown

conditions == <<sort, obj, watching, known, last, cool, told, excused>>

RuleTypes == {"pod_restart_count", "pod_pending_duration",
              "namespace_quota_percentage", "deployment_unavailable"}

\* Applications that are gone have no state.
Gone == [there |-> FALSE]

Objects == [
    node    |-> [ready : {"True", "False", "Unknown"}, pressures : SUBSET Pressure],
    pod     |-> [phase : {"Pending", "Late", "Running", "Failed", "Evicted"}, restarts : Restarts,
                 trouble : {"", "OOMKilled", "CrashLoopBackOff", "ImagePullBackOff"}],
    cronjob |-> [suspended : BOOLEAN, stale : BOOLEAN, failed : BOOLEAN],
    claim   |-> [bound : BOOLEAN, used : Percentage \cup {NotMeasured}],
    cert    |-> [days : Days],
    rule    |-> [type : RuleTypes, first : BOOLEAN, restarts : Restarts, late : BOOLEAN,
                 used : Millis, available : {0, 1}],
    app     |-> [there : {TRUE}, health : Health, sync : Sync] \cup {Gone}]

MutableKeys == [
    node |-> {"NotReady", "Unreachable"} \cup Pressure,
    pod  |-> {"OOMKilled", "CrashLoopBackOff", "ImagePullBackOff", "PendingTooLong",
              "HighRestarts", "Evicted"}]

Phases == [Pending |-> 0, Late |-> 1, Running |-> 2, Failed |-> 3, Evicted |-> 3]

\* A pod gets no younger, and a rule does not change.
MayTurn(old, new) ==
    CASE sort = "pod" ->
            /\ new.restarts >= old.restarts
            /\ new.phase = old.phase \/ Phases[new.phase] > Phases[old.phase]
      [] sort = "rule" -> new.type = old.type /\ new.first = old.first
      [] OTHER -> TRUE
-----------------------------------------------------------------------------
\* An alarm: the key of the cache, and the conditions that its alert tells.
Alarm(key, tells) == [key |-> key, tells |-> tells]
Said(conds) == {Alarm(c, {c}) : c \in conds}

\* Faulty: a node that is no longer heard of is not looked for.
Faulty_NodeAlarms(old, new) ==
    (IF old.ready = "True" /\ new.ready = "False" THEN {Alarm("NotReady", {"Down"})} ELSE {})
        \cup Said(new.pressures \ old.pressures)

\* checkNode: a node that was ready and is not, a pressure that sets in.
NodeAlarms(old, new) ==
    (IF old.ready = "True" /\ new.ready = "False" THEN {Alarm("NotReady", {"Down"})} ELSE {})
        \cup (IF old.ready = "True" /\ new.ready = "Unknown"
              THEN {Alarm("Unreachable", {"Down"})} ELSE {})
        \cup Said(new.pressures \ old.pressures)

NodeHolds(o) == (IF o.ready = "True" THEN {} ELSE {"Down"}) \cup o.pressures

Troubles(o) ==
    ({o.trouble} \ {""}) \cup (IF o.phase = "Late" THEN {"PendingTooLong"} ELSE {})

\* checkPod: the state of a container and a late pod whenever they are seen,
\* restarts if there are more, an eviction if the pod had not failed.
PodAlarms(old, new) ==
    Said(Troubles(new)
        \cup (IF new.restarts >= RestartThreshold /\ new.restarts > old.restarts
              THEN {"HighRestarts"} ELSE {})
        \cup (IF new.phase = "Evicted" /\ old.phase \notin {"Failed", "Evicted"}
              THEN {"Evicted"} ELSE {}))

PodHolds(o) ==
    Troubles(o) \cup (IF o.restarts >= RestartThreshold THEN {"HighRestarts"} ELSE {})
                \cup (IF o.phase = "Evicted" THEN {"Evicted"} ELSE {})

\* checkCronJob, checkRecentJobs: the jobs of a suspended CronJob are not looked
\* at; a failed job has no completion time, and so counts as recent.
CronJobHolds(o) ==
    IF o.suspended THEN {c \in {"Suspended"} : o.stale} ELSE {c \in {"JobFailed"} : o.failed}

\* checkPVCUsageEstimate, checkNamespace: one key for both severities.
AtLeast(warning, critical) ==
    (IF warning THEN {"Warning"} ELSE {}) \cup (IF critical THEN {"Critical"} ELSE {})
ClaimHolds(o) == IF o.bound THEN AtLeast(o.used >= PVCWarning, o.used >= PVCCritical) ELSE {}
CertHolds(o) == AtLeast(o.days <= AlertDaysBefore, o.days <= CriticalDaysBefore)

OneKey(conds) == IF conds = {} THEN {} ELSE {Alarm("key", conds)}

\* The four types of rules.  Value of a quantity of CPU is in whole cores, rounded
\* up; for two of them only the first namespace of the scope is looked at.
Cores(millis) == (millis + 999) \div 1000
RestartsFire(o) == o.restarts >= RestartThreshold
PendingFires(o) == o.first /\ o.late
QuotaFires(o) == (Cores(o.used) * 100) \div Cores(Hard) >= QuotaThreshold
UnavailableFires(o) == o.first /\ o.available = 0

\* evaluateRule.
RuleFires(o) ==
    CASE o.type = "pod_restart_count" -> RestartsFire(o)
      [] o.type = "pod_pending_duration" -> PendingFires(o)
      [] o.type = "namespace_quota_percentage" -> QuotaFires(o)
      [] o.type = "deployment_unavailable" -> UnavailableFires(o)
RuleHolds(o) == {c \in {"Rule"} : RuleFires(o)}

\* poll: an application is new, has another status, or is gone.
AppHolds(o) == IF o.there THEN {o.health, o.sync} ELSE {"Removed"}
AppAlarms(old, new) == IF old = new THEN {} ELSE {Alarm("app", AppHolds(new))}

Holding(o) ==
    CASE sort = "node" -> NodeHolds(o)
      [] sort = "pod" -> PodHolds(o)
      [] sort = "cronjob" -> CronJobHolds(o)
      [] sort = "claim" -> ClaimHolds(o)
      [] sort = "cert" -> CertHolds(o)
      [] sort = "rule" -> RuleHolds(o)
      [] sort = "app" -> AppHolds(o)

Alarms(old, new) ==
    CASE sort = "node" -> NodeAlarms(old, new)
      [] sort = "pod" -> PodAlarms(old, new)
      [] sort = "cronjob" -> Said(CronJobHolds(new))
      [] sort \in {"claim", "cert", "rule"} -> OneKey(Holding(new))
      [] sort = "app" -> AppAlarms(old, new)
-----------------------------------------------------------------------------
\* The object changes in its cluster.
Change ==
    /\ obj' \in {o \in Objects[sort] \ {obj} : MayTurn(obj, o)}
    /\ UNCHANGED <<sort, watching, known, last, cool, told, excused>>

\* StartWatchers: new watchers with an empty cache, but the same ArgoCD ones.
StartWatchers ==
    /\ ~watching
    /\ watching' = TRUE
    /\ known' = FALSE
    /\ cool' = {}
    /\ told' = {}
    /\ excused' = {}
    /\ UNCHANGED <<sort, obj, last>>

StopWatchers ==
    /\ watching
    /\ watching' = FALSE
    /\ UNCHANGED <<sort, obj, known, last, cool, told, excused>>

\* watchCluster: the cache of the informer fills, without a call.  Of the
\* ArgoCD watcher seedInitialState, that may fail and forgets no application.
FirstLook ==
    /\ watching /\ ~known
    /\ sort \in {"node", "pod", "app"}
    /\ known' = TRUE
    /\ \/ sort = "app" /\ UNCHANGED last
       \/ ~(sort = "app" /\ obj = Gone) /\ last' = obj
    /\ excused' = Holding(last')
    /\ UNCHANGED <<sort, obj, watching, cool, told>>

\* A call with the object as it was and is, a poll, an evaluation of the rule:
\* every alarm outside its cooldown is sent.
Look ==
    /\ watching
    /\ known \/ sort \notin {"node", "pod", "app"}
    /\ known' = TRUE
    /\ last' = obj
    /\ LET alarms == Alarms(last, obj)
           sent == {a \in alarms : a.key \notin cool}
           toldNow == UNION {a.tells : a \in sent}
       IN  /\ cool' = IF sort = "app" THEN cool ELSE cool \cup {a.key : a \in sent}
           /\ told' = (told \cap Holding(obj)) \cup toldNow
           /\ excused' = ((excused \cap Holding(obj))
                            \cup UNION {a.tells : a \in alarms \ sent}) \ told'
    /\ UNCHANGED <<sort, obj, watching>>

\* The cooldown of a key is over.
CoolEnds ==
    /\ watching
    /\ \E k \in cool : cool' = cool \ {k}
    /\ UNCHANGED <<sort, obj, watching, known, last, told, excused>>

\* muteAlert, of a pod or a node: the button of an alert, which may be old.
Mute ==
    /\ watching /\ sort \in DOMAIN MutableKeys
    /\ \E k \in MutableKeys[sort] \ cool : cool' = cool \cup {k}
    /\ UNCHANGED <<sort, obj, watching, known, last, told, excused>>

ConditionsInit ==
    /\ sort \in DOMAIN Objects
    /\ obj \in Objects[sort]
    /\ watching = FALSE
    /\ known = FALSE
    /\ last = IF sort = "app" THEN Gone ELSE obj
    /\ cool = {}
    /\ told = {}
    /\ excused = {}

Watching ==
    \/ Change \/ StartWatchers \/ StopWatchers
    \/ FirstLook \/ Look \/ CoolEnds \/ Mute

ConditionsSpec == ConditionsInit /\ [][Watching]_conditions
-----------------------------------------------------------------------------
\* Of every condition that holds of the object as the watcher has seen it, an
\* alert was sent since it set in, unless it was there when the watcher first
\* looked or set in while an alert of the same key cooled down.  The pod and
\* node watchers report changes, so that what lies between two looks must not
\* be lost (checkNode, checkPod, poll, the pollers).
SeenIsTold == watching /\ known => Holding(last) \subseteq told \cup excused
=============================================================================
