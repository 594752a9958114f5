------------------------------- MODULE Alerts -------------------------------
(***************************************************************************)
(* The alerts of the watchers (internal/module/watcher): from a condition  *)
(* in a cluster to a message with a Mute button, through the cache that    *)
(* keeps one condition from being reported again and again.                *)
(*                                                                         *)
(* The watchers share one scheme and differ in three respects: whether a   *)
(* condition is reported whenever it is found or only when it sets in,     *)
(* whether the alert is entered in the cache before or after it is sent,   *)
(* and whether the Mute button reaches their cache.  One goroutine per     *)
(* cluster and watcher looks at a key; Mute is tapped and the cache is     *)
(* cleaned by others.                                                      *)
(*                                                                         *)
(* Times are kept as ages, so that no bound on the clock is needed.        *)
(***************************************************************************)
EXTENDS Integers

CONSTANTS
    Key,        \* alert keys: cluster, object and condition
    Cooldown,   \* how long an alert is not repeated
    MuteTime,   \* how long a tap on Mute lasts
    MaxMutes,   \* bound on the taps on Mute
    MaxFailovers\* bound on the starts of new watchers

ASSUME AlertsAssumption ==
    /\ Cooldown \in Nat \ {0}
    /\ MuteTime \in Nat
    /\ MuteTime >= Cooldown
    /\ MaxMutes \in Nat
    /\ MaxFailovers \in Nat

\* What reports a key: the pod watcher a state, the pod or node watcher a
\* transition (node conditions, Evicted, HighRestarts), the cronjob,
\* certificate and PVC watchers what a poll finds, or a custom rule.
Kind == {"state", "transition", "poll", "rule"}

VARIABLES
    kind,       \* kind[k], chosen once
    bad,        \* bad[k], the condition holds in the cluster
    seen,       \* seen[k], it did in the old object of the next event, for k in Edge
    cache,      \* cache[k], the age of the entry of alertCache, below 0 for an
                \* entry in the future, or Absent
    pc,         \* pc[k], what the goroutine does with k
    mutes,      \* how often Mute was tapped
    failovers,  \* how often new watchers were started
    posted,     \* history: the keys of which an alert reached a chat
    since,      \* history: since[k], ticks since the last alert of these watchers
    quiet,      \* history: quiet[k], what is left of the time a tap on Mute promised
    lost        \* history: the keys whose last tap on Mute met an alert on its
                \* way, a replica without watchers, or a failover

vars == <<kind, bad, seen, cache, pc, mutes, failovers, posted, since, quiet, lost>>

Absent == Cooldown + 2

Edge == {k \in Key : kind[k] = "transition"}    \* reported when it sets in
Late == {k \in Key : kind[k] = "rule"}          \* entered after sending
Mutable == {k \in Key : kind[k] \in {"state", "transition"}}  \* handleMute reaches it

\* Only for the keys of Edge the old object matters.
SeenNow == [k \in Key |-> k \in Edge /\ bad[k]]

Init ==
    /\ kind \in [Key -> Kind]
    /\ bad \in [Key -> BOOLEAN]
    /\ seen = SeenNow
    /\ cache = [k \in Key |-> Absent]
    /\ pc = [k \in Key |-> "idle"]
    /\ mutes = 0
    /\ failovers = 0
    /\ posted = {}
    /\ since = [k \in Key |-> Cooldown]
    /\ quiet = [k \in Key |-> 0]
    /\ lost = {}
-----------------------------------------------------------------------------
\* The condition sets in or clears.
Turn(k) ==
    /\ bad' = [bad EXCEPT ![k] = ~@]
    /\ UNCHANGED <<kind, seen, cache, pc, mutes, failovers, posted, since, quiet, lost>>

\* Faulty: an entry counts for as long as it is there.
Faulty_InCooldown(k) == cache[k] # Absent

InCooldown(k) == cache[k] # Absent /\ cache[k] < Cooldown

\* The condition is one to report.
Fires(k) == bad[k] /\ (k \in Edge => ~seen[k])

Starts(k) == since' = [since EXCEPT ![k] = 0]

\* An event, a resync or a poll shows the object: checkPod, checkNode,
\* checkCluster, evaluate, and the first half of alert, which reads the cache.
Observe(k) ==
    /\ pc[k] = "idle"
    /\ seen' = [seen EXCEPT ![k] = k \in Edge /\ bad[k]]
    /\ IF Fires(k) /\ ~InCooldown(k)
       THEN IF k \in Late
            THEN pc' = [pc EXCEPT ![k] = "send"] /\ Starts(k)
            ELSE pc' = [pc EXCEPT ![k] = "mark"] /\ UNCHANGED since
       ELSE UNCHANGED <<pc, since>>
    /\ UNCHANGED <<kind, bad, cache, mutes, failovers, posted, quiet, lost>>

\* The entry is written, whatever it has become since it was read.
Mark(k) ==
    /\ pc[k] = "mark"
    /\ cache' = [cache EXCEPT ![k] = 0]
    /\ IF k \in Late
       THEN pc' = [pc EXCEPT ![k] = "idle"] /\ UNCHANGED since
       ELSE pc' = [pc EXCEPT ![k] = "send"] /\ Starts(k)
    /\ UNCHANGED <<kind, bad, seen, mutes, failovers, posted, quiet, lost>>

\* sendToChats: what cannot be sent is logged and given up.
Send(k) ==
    /\ pc[k] = "send"
    /\ posted' \in {posted, posted \cup {k}}
    /\ pc' = [pc EXCEPT ![k] = IF k \in Late THEN "mark" ELSE "idle"]
    /\ UNCHANGED <<kind, bad, seen, cache, mutes, failovers, since, quiet, lost>>
-----------------------------------------------------------------------------
\* Faulty: Mute restarts the cooldown and adds nothing to it.
Faulty_MuteAlert(k) == [cache EXCEPT ![k] = 0]

\* Faulty: the cooldown, which is added when the entry is read, is not taken off.
Faulty_MuteAlertFull(k) == [cache EXCEPT ![k] = -MuteTime]

\* muteAlert: the entry is dated so that it is Cooldown old after MuteTime.
MuteAlert(k) == [cache EXCEPT ![k] = Cooldown - MuteTime]

\* handleMute answers "Muted for 1 hour" first.  It writes the caches of the
\* pod and the node watcher, if the replica that got the tap has them (here).
HandleMute(k, here) ==
    /\ k \in posted
    /\ mutes < MaxMutes
    /\ mutes' = mutes + 1
    /\ cache' = IF here /\ k \in Mutable THEN MuteAlert(k) ELSE cache
    /\ quiet' = [quiet EXCEPT ![k] = MuteTime]
    /\ lost' = IF here /\ pc[k] # "mark" THEN lost \ {k} ELSE lost \cup {k}
    /\ UNCHANGED <<kind, bad, seen, pc, failovers, posted, since>>

\* Faulty: the cache is emptied.
Faulty_Cleanup ==
    /\ cache' = [k \in Key |-> Absent]
    /\ UNCHANGED <<kind, bad, seen, pc, mutes, failovers, posted, since, quiet, lost>>

\* cleanupLoop drops the entries older than the cooldown.
Cleanup ==
    /\ cache' = [k \in Key |-> IF cache[k] > Cooldown THEN Absent ELSE cache[k]]
    /\ UNCHANGED <<kind, bad, seen, pc, mutes, failovers, posted, since, quiet, lost>>

\* Watchers start anew, on this replica after a restart or on the next leader:
\* with empty caches, and the first list of objects is not looked at.
Failover ==
    /\ failovers < MaxFailovers
    /\ failovers' = failovers + 1
    /\ seen' = SeenNow
    /\ cache' = [k \in Key |-> Absent]
    /\ pc' = [k \in Key |-> "idle"]
    /\ since' = [k \in Key |-> Cooldown]
    /\ lost' = Key
    /\ UNCHANGED <<kind, bad, mutes, posted, quiet>>

\* One tick older; beyond the cooldown all ages are alike.
Older(age) == IF age > Cooldown THEN age ELSE age + 1

Tick ==
    /\ cache' = [k \in Key |-> Older(cache[k])]
    /\ since' = [k \in Key |-> IF since[k] < Cooldown THEN since[k] + 1 ELSE since[k]]
    /\ quiet' = [k \in Key |-> IF quiet[k] > 0 THEN quiet[k] - 1 ELSE 0]
    /\ UNCHANGED <<kind, bad, seen, pc, mutes, failovers, posted, lost>>

Next ==
    \/ \E k \in Key :
          \/ Turn(k) \/ Observe(k) \/ Mark(k) \/ Send(k)
          \/ \E here \in BOOLEAN : HandleMute(k, here)
    \/ Cleanup
    \/ Failover
    \/ Tick

Spec == Init /\ [][Next]_vars

\* Time passes, informers resync and polls repeat, and what a goroutine has
\* begun it ends.
FairSpec ==
    /\ Spec
    /\ WF_vars(Tick)
    /\ \A k \in Key : WF_vars(Observe(k)) /\ WF_vars(Mark(k) \/ Send(k))
-----------------------------------------------------------------------------
TypeOK ==
    /\ kind \in [Key -> Kind]
    /\ bad \in [Key -> BOOLEAN]
    /\ seen \in [Key -> BOOLEAN]
    /\ cache \in [Key -> (Cooldown - MuteTime)..Absent]
    /\ pc \in [Key -> {"idle", "mark", "send"}]
    /\ mutes \in 0..MaxMutes
    /\ failovers \in 0..MaxFailovers
    /\ posted \subseteq Key
    /\ since \in [Key -> 0..Cooldown]
    /\ quiet \in [Key -> 0..MuteTime]
    /\ lost \subseteq Key

\* The same watchers do not start two alerts of one key within the cooldown,
\* though the entry is read and written in two critical sections with Mute and
\* the cleanup in between (alert, isInCooldown and markFired).
Spacing ==
    [][\A k \in Key : pc[k] # "send" /\ pc'[k] = "send" => since[k] >= Cooldown]_vars

\* A tap on Mute for a pod or node holds for its whole time: an alert that
\* gets past the cache in spite of it had overwritten it, came from other
\* watchers, or the tap was handled where there are none (muteAlert, cleanupLoop).
MuteHolds ==
    [][\A k \in Mutable : pc[k] = "idle" /\ pc'[k] # "idle" /\ quiet[k] > 0 => k \in lost]_vars

\* A condition that is reported whenever it is found and that stays is
\* reported again and again, whatever was muted, overwritten or not sent.
PersistentReported ==
    \A k \in Key : <>[](bad[k] /\ k \notin Edge) => []<>(pc[k] = "send")
=============================================================================
