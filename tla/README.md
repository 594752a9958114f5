# Telekube in TLA+

Specifications of Telekube, a Telegram bot that operates Kubernetes clusters and
ArgoCD applications: what its concurrent parts do, checked by TLC on small
instances and, where it matters most, proved with TLAPS for all values of the
constants.  Paths below are relative to the repository.

    tlc -workers 2 -config MCApproval.cfg MCApproval      # a run
    tlapm ApprovalProofs.tla                              # a proof

## 1. The system

| Component | Where | State it keeps | Operations | Talks to |
|---|---|---|---|---|
| Approval workflow | `internal/module/approval` | rows of `approval_requests`; a mutex per process | Submit, Decide, Cancel, expiry sweep, storing the message id | the modules that gate an operation; Telegram; the database shared by replicas |
| ArgoCD module | `internal/module/argocd` | none of its own: the dialog is in the Telegram message | sync and rollback dialogs, displays | freeze table, approval checker, ArgoCD client, audit |
| Deployment freeze | `argocd/freeze.go`, `freeze_repo.go` | rows of `deployment_freezes` | create, thaw, look up | the dialogs above |
| ArgoCD client | `pkg/argocd` | a token | calls with retries | ArgoCD |
| Audit logger | `internal/audit` | a channel of 1000, the worker's batch | Log, Flush, Close, the worker | every module; the database |
| Leader election | `internal/leader` | the Lease (in the cluster), `isLeader` | Start, Stop, callbacks | API server, application |
| Application | `internal/app`, `module/registry.go` | what is started | Run, shutdown, start and stop of modules | everything |
| Watchers | `internal/module/watcher` | caches of recent alerts, informer caches, `running` | event handlers, polls, Mute, cleanup, StartWatchers, StopWatchers | clusters, Telegram, audit |
| Briefing | `internal/module/briefing` | `running`, the last run | StartScheduler, StopScheduler, a daily report | leader election, clusters, Telegram |
| Bot and middleware | `internal/bot` | the sliding window of the rate limiter | authenticate, limit, audit, dispatch | storage, every module |
| Callback store | `internal/bot/keyboard` | short keys, in memory | Store, Resolve | every dialog |
| RBAC | `internal/rbac`, `module/rbacmod` | roles and bindings (database) | HasPermission, assign, revoke | every handler |
| Cluster manager | `internal/cluster` | lazy clients, health, the cluster each user selected | ClientSet, HealthCheck, SetCluster | every Kubernetes operation |
| Kubernetes module | `internal/module/kubernetes` | none | displays; cordon, drain, scale, restart | clusters, approval, audit |
| Helm, incident, notify | `internal/module/...` | preferences (notify) | rollback; timeline; preferences | clusters, storage |
| AlertManager receiver | `internal/module/alertmanager` | silences | webhook | not wired into the program |
| Storage | `internal/storage` | SQLite or PostgreSQL | one statement per call | everything |

How they run.  telebot starts a goroutine for every update, so two taps on one
button run side by side, and with several replicas they may run on different
processes; the button stays live until a handler, usually at its end, edits the
message.  The database is shared by the replicas; mutexes, caches, the callback
store and the audit channel are not, and a restart loses them.  One replica is
elected to run the watchers and the briefing scheduler.

What is hard: handlers that read a row, talk to Telegram and write the row back;
checks made at one tap and relied upon at a later one; answers of ArgoCD and of
the API server that are lost; a shutdown that does not wait for handlers; the
hand-over between leaders; a drain that works from a list of pods while the cluster
replaces them; alert caches written in two critical sections and
lost at a failover; conditions that set in between two looks of a watcher; a ticker
that drops or keeps ticks while a report is generated; buttons that outlive the
process or the selection they were made under; rows written back whole.
`PROJECT.json` lists each of these hazards at its line.

What makes each part correct:

- approval: what a row says is what people did; a decision stands; every request ends;
- ArgoCD and freeze: nothing is executed under a freeze or without the approval that is required, and nothing twice;
- audit: what was accepted is written once, in order, before the database is closed;
- leadership: one leader, whose tasks nobody runs beside it, and always one in the end;
- alerts: no flood, no silence: cooldown, Mute, and what persists is reported;
- node operations: a drain that reports success has emptied its node, ends, and leaves no dialog waiting;
- conditions: whatever a watcher has seen of an object it has told, or had a reason not to;
- middleware and RBAC: roles move only by people who may move them, a decision is what
  the tables mean, and the limit is met in every window;
- cluster manager: one set of clients per cluster, and everybody is served;
- dialogs: a tap acts on what its message said; the audit log tells what became of workloads;
- preferences: a tap changes what it is about, and quiet hours are quiet;
- briefing: one a day;
- registry and shutdown: see the plan.

## 2. The modules

| Module | Models | Abstracted |
|---|---|---|
| `ApprovalLifecycle` | the promise: a request is opened once and settled once, for good | everything else |
| `Approval` | the workflow and its repository | texts, comments, chat ids |
| `GitOps` | the dialogs for sync and rollback, the freezes, the approval check | permissions, diffs, revisions, modes (a message is about one kind of operation) |
| `AuditLogger` | the channel, the worker and Close | the content of entries; they are numbered |
| `Leadership` | process, elector, callbacks and the tasks | observed records and retry intervals of client-go |
| `Alerts` | from a condition to a message through the cache | which fields of an object make the condition |
| `NodeOps` | cordon, uncordon, drain and pod restarts, with API server, controllers and scheduler | permissions, namespaces, grace periods, the message of a restart |
| `Policy` | the decision of the RBAC engine: built-in roles, rules, bindings | ids, display names |
| `Access` (over `Policy`, `Selection`) | users and bindings, the Auth middleware, the dialogs that assign and revoke | the lists, the texts |
| `Selection` | a loop over a slice or over rows that keeps some of the elements | |
| `RateLimiter` (over `Selection`) | the sliding window | the clock (ages instead) |
| `Preferences` (over `RateLimiter`) | the settings dialog and `ShouldNotify` | time zones, muted alerts |
| `Briefing` | the schedulers with their tickers, starts, stops and deaths | the report |
| `Conditions` | what of an object, or of its change, makes an alarm, in all watchers | texts, scopes, times (`Alerts` has them) |
| `ClusterManager` | the clients and the health checks behind the read-write lock | what a client is |
| `Dialogs` | commands, namespace menus, views, the callback store, the contexts of users | what the views show |
| `Workloads` (over `Dialogs`) | scaling and the rollback of Helm, with audit | approvals in detail (`Approval`) |
| `MCApproval`, `MCGitOps`, `MCNodeOps`, `MCAccess`, `MCWorkloads` | values of the constants for TLC | |
| `MCNotifications` | `Preferences`, `Briefing` and `Conditions` in one instance | |
| `SelectionProofs` | lemmas about numbers, sequences and loops over them | |
| `ApprovalProofs`, `GitOpsProofs`, `NodeOpsProofs`, `AccessProofs` | theorems about the module of that name | |
| `LeadershipProofs` | theorems about `Leadership`, `ClusterManager` and `Briefing` | |
| `NotificationsProofs` | theorems about `Alerts`, `Conditions`, `RateLimiter` and `Preferences` | |
| `AuditProofs` | theorems about `AuditLogger`, `Dialogs` and `Workloads` | |

Modules that are extended together, by `MCNotifications` or by a module of proofs, name
their specifications apart: `ManagerSpec`, `PreferencesSpec`, `BriefingSpec`, `WorkloadsSpec`
and so on, beside the plain `Spec` of the others.

### Approval

`db[r]` is a row, `mem[h]` the copy that goroutine `h` works on, `mu[p]` the
`Manager.mu` of process `p`.  `Submit`, `Send` and `StoreMessage` are the three
steps of `CheckAndSubmit`, with a Telegram call between each two; `Decide` and
`Cancel` read the row under the mutex and `Finish` writes the copy back and
releases it.  `Written` is the statement `UPDATE ... WHERE id`: it replaces
status, approvers, resolver and message id by the caller's copy.  `ExpireOld` is
one `UPDATE ... WHERE status = 'pending' AND expires_at < now`.  An `Update` may
fail, and may fail after the row was written.  `Restart` drops the goroutines of
a process.

### GitOps

`screen[a]` says which buttons the message of application `a` shows, which is all
the state a dialog has.  Every tap (`Open`, `Choose`, `Leave`, `Confirm`) starts a
goroutine, whose steps follow (`Fetch`, `Block`, `Ask`, `Detail`, `Submit`, `Run`,
`Report`, `Wait`); `Edit` may fail and leaves the buttons as they were.  `LeadsBack`
are the screens that Cancel or Back to App leaves for the application: not the
confirmation of a sync, whose Cancel asks ArgoCD for a name that nothing has.
`Visible` and `Gated` look a freeze and a rule up by the name of the ArgoCD
instance, as the code does, while scopes name clusters.  Requests for approval
are those of `ApprovalLifecycle`, which `Approval` implements.  `passed`
and `failures` are history variables.  `passed` is empty if the
freeze could not be read: `handleSync` goes on then.

### AuditLogger

One action per branch of the worker's `select`; `WriteEntry` is one turn of the
loop of `writeBatch`; `SeeDone` may be chosen over a waiting entry, as `select`
may.  `Close` is `close(done)`, `Join` the end of `wg.Wait`, `FlushEntry` a turn
of `Flush`.  `Log` remains possible after Close, because shutdown does not wait
for handlers.  Closing twice, which would panic, does not occur: `shutdown` is
the only caller.

### Leadership

`elector[p]` follows client-go's `Run`: acquire, renew, release (the code sets
`ReleaseOnCancel`), cancel the leader's context, OnStoppedLeading.  `callback[p]`
is the goroutine of OnStartedLeading.  `live[p]` is the set of tasks that have
goroutines under a context that is not cancelled, `running[p]` the flag that
StartWatchers and StartScheduler test.  `Boot` may also start the tasks without
election (no client for the default cluster, or election not enabled).
`Patience` is `RenewDeadline` plus a retry period, `Lag` the longest time between
the write of the lease and the answer.

### Alerts

The watchers share one scheme; a key has one of four kinds (`kind`): `state`
(reported at every event that shows it), `transition` (reported when it sets
in), `poll` (found by a poll) and `rule` (a custom rule, entered in the cache
after sending).  `Observe` is the first half of `alert`, which reads the cache;
`Mark` the second, which writes it; `Send` the loop over the chats.  `cache` holds
ages, so that no clock is needed; an entry of Mute is younger than now.

### NodeOps

`screen[m]` is the dialog of a node, `pc[h]` and `job[h]` a goroutine: the handler of
a tap, or the one that `handleNodeDrainConfirm` starts for `performDrain`.  `GetNode`
and `PutNode` are the read and the write of the node, by `performCordon` and by the
first step of a drain; `fresh` holds the goroutines whose copy has the resource
version that is stored, so a write in between makes the next one fail (`Write`).  A
write that changes nothing leaves the version alone, as the API server does.  `List`
fixes `todo`, and `Evict` is one turn of the loop with its edit of the text, in any
order of pods.  `GiveUp` is the early return of `performDrain` with
`updateDrainMessage`.  Every call may fail, also after it took effect.  `Vanish` and
`Recreate` are the cluster's: a terminating pod goes, its controller makes one of the
same name, on a node that is not cordoned (a DaemonSet's, on the same node).  The
dialog of a restart has no effect until it is confirmed, so `RestartConfirm` needs no
screen.  Pods are never placed on a cordoned node by hand, and there are no static
pods.  `reopened` (drains whose node was uncordoned after they cordoned it) and
`stuck` (dialogs whose last edit was refused or that a crash left) are history
variables.  Checks of permissions and callback keys that a restart has forgotten only
take taps away and are left out.

### Access and Policy

`Policy` is pure.  `Authorize` walks the bindings in their order, and the rules of each
role in theirs, as the engine does; `Weigh` is the body of its loop.  Go's `append` is
modelled with capacities and shared arrays (`Append2`, `Slices`), because the lists of the
built-in roles are appended to one another: `BuiltinPerms` is what the arrays hold in
the end, `WrittenPerms` what the source says.  `Access` has a goroutine for each
update, in the stages of the chain: `GetUser`, `Register` or `Rename` (both `Upsert`),
`Check` (`HasPermission`), then `Assign` and `Bind`, `Revoke` or `Reset`.  Each statement on
the database may fail, with or without effect.  `entitled` is a history variable: the
updates whose sender could manage roles at some moment since they came.

### RateLimiter and Preferences

`requests[u]` holds the ages of the updates the limiter remembers.  A tap that is let
through becomes a goroutine that reads the row (`Read`; on any error it takes the
defaults) and writes it back whole (`Store`).  `current` holds the goroutines whose copy
is still the row.  `isInQuietHours` compares hours, as the code compares strings of
equal length.

### Briefing

Every `StartScheduler` makes a goroutine with a ticker of its own, whose channel holds one
tick; `Fire` is the ticker, `Receive` the loop's turn with the guard (`MayRun`), `Briefed`
the end of a report.  A stopped scheduler ends at its next turn, so that an old and a new one may
live side by side.  Two units are a minute; `Pass` lets a tick be a unit late.  Who
leads is left to `Leadership`: any process may start a scheduler at any time, and `shared` is
history, whether two processes had one at once on this day (in a hand-over, as
`TakeTurns` says, or without election).  A report takes
less than half a day (`BriefingAssumption`), so that a report and a second one behind it
end before the minute comes again.

### Conditions

One object is under watch, of a kind chosen at first (`sort`).  `obj` is the object in
its cluster and `last` what the watcher compares with: the old object of the informer,
or `lastState`.  Each watcher is an operator from the two to a set of alarms
(`NodeAlarms`, `PodAlarms`, ..., `AppAlarms`), each with the key of its cache entry and what
it tells; `Holding` says which conditions hold of an object.  `Look` sends every alarm
outside its cooldown, which is one bit here.  `told` and `excused` are history variables:
the conditions that an alert was sent of since they set in, and those that held at the
first look or whose alert was swallowed by the cooldown or Mute.

### ClusterManager

`clients[c]` is the number of the clients in the entry of a cluster, 0 for nil.  The lock is
Go's `sync.RWMutex` by what it does: a writer that has announced itself holds back new
readers, waits for those that read, and lets in everyone who queued behind it.  `Ask`,
`Look`, `WantLock` and `Create` are the double check of `getOrCreateClients`; `HealthCheck(c)`
is one turn of the loop, with the read lock in hand.

### Dialogs and Workloads

`menu` is the keyboard of the message that is followed; a button (`Btn`) has its handler, the
data it carries and the cluster and namespace that its message said.  Data that is
too long is replaced by a short key, a hash of the data; `store` is the set of such data whose key is
known, which a `Restart` empties.  `Data` is what `withResolve` gives the handler: for a
key that is not known the key itself, which is no name of anything (`NoName`; two data of
one key are taken not to occur).  `selected` are the contexts of a user: the bot's
and the Kubernetes module's.  Every handler is an action that finds its cluster where the
code does, in the button or in the context, and notes in `strayed` whether that is what
the message said.  A restart of a pod is followed here from the pod's buttons, or from
`/restart`, to the question and its two answers; what it does to the pod is in `NodeOps`.
The lists of deployments and cron jobs also come without a keyboard of namespaces, when the
command names one (`ListCommand`).  `Workloads` adds what changes something: each tap on Confirm is a
goroutine (`job`), whose change may happen with its answer lost (`Outcome`), and which
audits and reports.  `about` splits the instance into displays and changes, which
share the contexts and the store.

## 3. The runs

| Run | Instance | What it shows |
|---|---|---|
| `approval` | 3 users, 3 handlers, 1 process, 1 request, thresholds 0-2, 4 instants | `QuorumBacked`, `ResolverAccountable`, `DecisionsFinal`, the life cycle, `EventuallyResolved` |
| `gitops` | 1 application, 2 goroutines, 1 freeze, 1 request, 2 attempts | `GatedRunsOnlyOnFailure`, `WaitingHasRequest`, `FreezeHoldsOffNewDialogs` |
| `audit` | 7 entries, channel of 2, batches of 2 | `OnceInOrder`, `CloseIsComplete`, `BoundedLoss`, `EventuallyTried` |
| `leadership` | 2 replicas, durations 4, 2, 1 | `OneLeader`, `OneWorker`, `Failover` |
| `alerts` | 2 keys of every kind, 1 Mute, 1 failover | `Spacing`, `MuteHolds`, `PersistentReported` |
| `nodes` | 2 nodes, a StatefulSet's pod and a bare one, 1 dialog, 2 goroutines, approval required | `DrainedIsEmpty`, `ProgressIsLive`, `DrainEnds` |
| `access` | an admin and a user, 2 goroutines, 5 buttons, 2 bindings, a custom role with a deny, 5 requests | `DecisionsAreMeant`, `RolesMoveByRight` |
| `notifications` | 1 user, 2 goroutines, 2 updates in 3 units, 8 hours; 2 processes, 2 schedulers, a day of 7 minutes; every kind of object with the values around each threshold | `LimitExact`, `AlertsMeant`, `OthersKept`; `BriefedOnce`; `SeenIsTold` |
| `clusters` | 3 callers, 2 clusters, the health checker | `OneClient`, `Served` |
| `workloads` | 2 clusters, 2 namespaces, one of a long name, 2 pages, a deployment, a release, 2 goroutines | `ActsAsSaid`, `TrailTells` |
| `approval_double_execution` | 2 handlers, threshold 2 | two Decide calls signal execution of one request |
| `drain_elsewhere` | as `nodes` | a drain evicts a pod that runs on another node by now |

The last two are expected to fail: each states what a document or a test says, and
`PROJECT.json` quotes it under "findings".

What some of the properties except is worth knowing.  `FreezeHoldsOffNewDialogs` is about
freezes that the first tap of a dialog could have seen: one created between that tap and
Confirm is ignored, as a finding says.  `GatedRunsOnlyOnFailure` allows every failed check
its `MaxRetries` attempts: that a lost answer makes the client sync twice is what it does; what
the property rules out is attempts that add up over taps and restarts.  `AlertsMeant` is about the
answer of `ShouldNotify`, which nothing asks yet.  `BriefedOnce` excepts a report that
takes over two minutes (`slow`) and a day on which two processes had a scheduler at once
(`shared`): then a day may have two.  `OthersKept` excepts a row that could
not be read, and one that another goroutine has written in between (`current`): then
settings are lost.  `TrailTells` excepts a rollback of Helm that reports an error though
it added a revision (`unheard`), and a process that dies.  `ActsAsSaid` needs no exception,
but for a reason nobody intended: the Kubernetes module reads a context that nothing
writes.  With one context for both, which the documents describe, a tap on a namespace
after a change of cluster would act on the other cluster; this is the run's mutant.

Bounds.  Requests and freezes do not share state with one another (but for the
sweep, which treats rows alike), so one of each shows the interleavings; three
handlers let a submitter, a decider and a canceller be at work at once; three
users give a requester and two approvers; four instants let a request be live,
late and swept, with a decision at each point.  The freeze has two durations, so
that one may run out inside a dialog and one may not.  Two attempts are the
least for which a lost answer repeats a call.  In `audit` a full channel, a full
batch, a partial batch, a drain and a late entry all occur with seven entries.
Two replicas are the least that compete; a third adds no new kind of step.
`nodes` has a second node for a pod to come back on, a pod that comes back and one that
does not, and a second goroutine to uncordon, drain or restart beside the first.  In
`alerts` an hour's mute is two cooldowns (it is twelve in the code): the entry
that Mute writes lies in the future in either case.  In `access` two goroutines register one user twice, or
rename beside an assignment; the configured admin keeps the right whatever its row
says, while `u` gains and loses it.  `notifications` has one user, as the rows and
lists of users are apart, and one part at work at a time, as the parts share nothing;
its hours are an eighth of a day, with a window over midnight (22:00 to 08:00) and one
that starts there; a day is long enough for a report of three minutes.  The values of
objects lie on, below and above each threshold.  `clusters` has a caller more than clusters, so
that two ask for one while another reads, and a writer waits behind the health check.  In
`workloads` two goroutines scale and roll back side by side or twice the same, and a
short key exists for one namespace and not for the other.  `MaxRuns`, `MaxFailures`,
`MaxTime`, `MaxBindings`, `MaxBuilt`, `MaxRevision`, `MaxAttempts`, `MaxBusy`, `MaxEntries`, `MaxMutes` and `MaxFailovers` bound counters that the
program does not bound.

Symmetry is used in `gitops`, for goroutines and freezes, and in `access`, `notifications` and
`workloads`, for goroutines; none of these runs has a liveness property.

Deadlock is checked in `leadership`, `alerts`, `nodes`, `access` and `clusters`.  The others may stop: time is
bounded, or the logger has been closed.

Fairness.  `Approval`: the worker's ticker fires for the life of a process, time
passes, and a goroutine goes on to its end.  The request's fate is asked for only
under these.  `AuditLogger`: the worker runs and Close, once called, goes on; nothing
is assumed of Log.  `Leadership`: goroutines go on; of the campaign strong fairness is assumed, because
the retry loop meets the lease free again and again and an API server that answers
at all answers one of the tries; nothing is assumed of renewals, crashes or starts.
`ClusterManager`: a goroutine goes on, since the client's calls have a time limit
of 10 s; of `WantLock` strong fairness is assumed, as Go's mutex is handed to whoever has
waited a millisecond.  `NodeOps`: a goroutine goes on to its end, since each of its calls has a deadline; nothing
is assumed of taps, controllers or the kubelet.  `Alerts`: time passes, informers resync and polls repeat; nothing is assumed of
Telegram.

## 4. What is proved

For every value of the constants that meets the named assumptions:

| Module | Theorems |
|---|---|
| `ApprovalProofs` | types, `QuorumBacked`, `ResolverAccountable`, the refinement of `ApprovalLifecycle`, `LockInv`, `RivalsElsewhere`; for one process `DecisionsFinal`, `TwiceAtMost` |
| `AuditProofs` | of `AuditLogger`: types, `OnceInOrder`, `CloseIsComplete`, `BoundedLoss`, `WorkShrinks`; of `Workloads` and `Dialogs`: `TrailTells`, `ActsAsSaid` |
| `LeadershipProofs` | of `Leadership`: types, `OneLeader`, `OneWorker`, `TakeTurns`; of `ClusterManager`: types, `OneClient`, `WriterIsAlone`, `NobodyIsStuck`; of `Briefing`: `BriefedOnce` |
| `NotificationsProofs` | of `Alerts`: types, `Spacing`, `MuteHolds`; of `Conditions`: `SeenIsTold`; of `RateLimiter` and `Preferences`: types, `LimitExact`, `OthersKept`, `AlertsMeant` |
| `AccessProofs` | types, `RolesMoveByRight`, `DecisionsAreMeant`, and that the built-in roles read their own lists |
| `GitOpsProofs` | types, `GatedRunsOnlyOnFailure`, `WaitingHasRequest`, `FreezeHoldsOffNewDialogs`, and that its requests live the `ApprovalLifecycle` |
| `NodeOpsProofs` | types, `DrainedIsEmpty`, `ProgressIsLive`, `EvictsAll` |

Every invariant and every action property that a run expects to hold has its theorem
(`DecisionsFinal` for one process, as the run has it), and so has the refinement.

Approval.  `QuorumBacked` is about rows, but a handler's copy becomes a row later,
and a late copy may overwrite anything.  The invariant therefore asks the same of
every copy (`RowOK` of `db[r]` and of `mem[h]`), and that a copy has the requester
and the threshold of its row (`CopyOK`).  `RowOK` includes that no user has two
entries: it is what makes the number of entries a number of people.  The
refinement follows from what a step does to a request that no handler holds a copy of
(`StepMoves`).  For `DecisionsFinal` in one process the invariant adds that only the holder of the
mutex has something to write (`MutexInv`).

Two theorems bound what the code does not promise.  With one process a request may be
signalled for execution twice, because the message id is stored from an old copy (the run
`approval_double_execution`), but not three times (`TwiceAtMost`): there is one such
write for a request, and `SignalsInv` keeps the account, one signal for an open row and one
more for a late write to come.  With several processes `DecisionsFinal` fails, as each has
a mutex of its own.  `LockInv` says what a mutex still guards, and `RivalsElsewhere` what
is left of the property: only goroutines of other processes, which were at the request
before it was settled, can overwrite a decision, and the late write of the message id.

AuditLogger.  `OnceInOrder` is almost inductive; what is added says what the places
of worker and closer imply for batch and channel: the batch is empty when the worker
has returned, and Close gets to its flush only then.  `WorkShrinks` is the half of
`EventuallyTried` that needs no fairness: `Left` weighs the entries in the channel, those in the
batch and the places of worker and closer, and every step but a call of `Log` makes it less.

Leadership.  The leader's own clock and the age of the lease run at one rate, and the
lease is written at most `Lag` before the leader learns of it: `LeaderHolds` says
`lease.age <= since[p] + Lag`.  With `since[p] <= Patience` and the assumption
`Patience + Lag < LeaseDuration` the lease of a leader is free to nobody else
(`HeldIsNotFree`).  `WorkUnderContext` ties the tasks to the leader's context.  `TakeTurns` says
of steps what `Briefing` has to know: schedulers come and go one process at a time, and two
elected processes have one at once only while one of them gives its lease back.

Alerts.  An entry is no older than the last alert (`since`), and no younger than what
is left of a mute allows, unless the key is in `lost`.

GitOps.  The executions done do not show how many goroutines are about to execute;
`Paid` counts them: executions plus `MaxRetries` for every goroutine at `run` are
covered by the failed checks (the set of goroutines is finite, or there would be no
number).  `PassedSpent` says that a freeze a dialog has passed never comes into force
again: it was lifted or had run out, and a thawed freeze stays thawed.  `LifecycleTheorem` joins
`GitOps` to `Approval`: the former lets requests do what the life cycle allows, the latter
keeps to it.

NodeOps.  That a drained node stays empty needs its cordon: `StillCordoned` says that
the node of a drain past its write is cordoned unless someone reopened it, so that
`NobodyArrives`; the list then covers what is there, and a pod leaves it terminating or
with a failure counted.  `ProgressIsDriven` sharpens `ProgressIsLive` to a drain that
has been announced, since one that still waits for its approval may end silently.  `EvictsAll` is the half of
`DrainEnds` that needs no fairness: each step of a drain takes one pod off its list, and only a
crash ends it before the list is empty.

ClusterManager.  `OneClient` needs only that a caller knows its cluster (`AsksForOne`): a
second look under the write lock finds the clients, or an empty entry of which nobody
has been given any.  `LockIsUsed` ties the lock to the steps that hold it; from it follows
that who builds clients is alone with the entries, and that nobody waits in a circle
(`NobodyIsStuck`), which is what can be proved of `Served`: that whoever can go on does so
in the end is left to TLC.

Conditions.  The heart is `NewIsTold`: what holds of an object at a look held at the look
before or is told by an alarm of this one.  For the pollers that is immediate, for nodes a
matter of the three values of Ready, and for pods it needs `Precedes`: between two looks the
restarts do not go down and a failed pod stays as it failed, or an eviction could hide
behind the test for one.

Loops.  `Selected`, `RuleVerdict` and `Verdict` are recursive functions over the
length of a sequence.  What they compute for every sequence takes induction; the library's
theorems of induction have an operator for the statement, which the provers do not
instantiate, so `SelectionProofs` derives one about sets of numbers (`Induction`), and one
about sets of sequences (`SequenceInduction`), from the well-foundedness of the naturals.  A
statement is then the set of the numbers, or sequences, for which it holds.

RateLimiter.  `LimitExact` speaks of what was let in within the window, `requests` holds what
the limiter remembers, which is cleaned only when the user comes again: `LimiterInv` says
that the part of it within the window is what was let in (`passed[u] = Valid(requests[u])`), and
that forgetting early or late is the same (`ForgetEarly`).

Preferences.  `HoldsOthers`: whoever is `current`, that is, has read the row that is still stored, has
in its copy the other settings as they are.  `AlertsMeant` needs the types only: the
comparison of hours is what the circle of the day says, for any number of hours.

Access.  `Underway` says that past the check of rights the sender is `entitled`, whatever has
become of its role since; a step that changes a role is then an `Assign` or a `Reset` of such a
sender, or puts a user's own role back (`Upsert` leaves the column alone for a row that exists).
`DecisionsAreMeant` is no matter of steps: by induction over the bindings, and over the
rules of each, the verdict is a function of the set of effects that apply (`VerdictIs`), so
that order and duplicates do not matter.  That the slices of the built-in roles do not
run into each other is computed from their lengths and capacities (`ReadsAre`).

Briefing.  Time is counted from the minute of the schedule (`Since`).  A scheduler has
run (`Ran`), or gets no tick of the minute any more (`Spent`), or may still run.  `InOrder`
says that of any two one was stopped, and the other, started after it, gets no tick of the
minute; `Owned` and `OneRuns` that who has not been stopped is the scheduler of its process, and of the
only one that has any; `OfToday` and `Quick` tie reports under way to this day.  So what ran
leaves nobody to run again (`Over`), unless a report was slow or schedulers were `shared`.

Workloads.  `TrailTells` is nearly inductive: a handler about to log a success has made its
change (`Handlers`), and every change is in one of the four places (`Told`).  `ActsAsSaid` is
about buttons: each carries what it stands for where its handlers look for it (`AllSaid`),
so that any step of a dialog has to show only that its new keyboard does; and no step
writes the contexts of the Kubernetes module (`Unwritten`), so that what is taken from there is always the
default cluster.

What the proofs found in the models.  `Briefing` had assumed that a report takes less than a
day, which is not enough: a report, and a second one for the tick that waited behind it, could
reach into the next day's minute.  It had also assumed that one process leads at a time, while
`Leadership` promises that only outside a hand-over (`TakeTurns`); the module no longer
assumes it, and `BriefedOnce` names the exception.  `Dialogs` showed a list of
namespaces for a cluster that is not known, where the code answers "Cluster error".

Assumptions on the environment that the proofs rest on: clocks of one rate (not one
time) on all replicas; an answer of the API server takes at most `Lag`; host names,
which are the identities, are distinct; SQL statements are atomic.

Only model-checked: liveness (`EventuallyResolved`, `EventuallyTried`, `Failover`,
`PersistentReported`, `DrainEnds`, `Served`), which is out of the prover's reach, and the two disagreements.

## 5. What is not modelled

Formatting and translations; the ArgoCD displays and the incident timeline, which read and
show; migrations, connections and start-up; the AlertManager receiver, which the program
does not construct; Redis, which it connects to and does not use; the pages of `/audit` and
the log entry of each command (`middleware/audit.go`); parsing and authentication in the
ArgoCD client.

"findings" in `PROJECT.json` holds what was seen while modelling, with the lines of the
documents, comments or tests that say otherwise.  Two of these have a run.  Others need
none, because the code shows them at once: an approved operation is executed by
nobody; a freeze is looked for only when a dialog opens; a replica that has lost the lease
never campaigns again; Mute reaches the pod and the node watcher only; the bot and the Kubernetes module
have a context each; the ArgoCD watcher writes to chat 0 and the briefing to nobody; nothing
asks `ShouldNotify`; a page of pods past the end panics; two types of rules look at one
namespace; and so on.

## 6. Plan

1. `Approval` with two processes under TLC: which of the overwrites that `RivalsElsewhere`
   leaves occur.
2. `Shutdown`: the registry's order of start and stop with the bot, the audit logger
   and the storage; composes `AuditLogger`.
3. `Briefing` composed with `Leadership`, so that `shared` is derived from the hand-over
   instead of recorded.
