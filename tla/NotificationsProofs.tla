------------------------- MODULE NotificationsProofs -------------------------
(***************************************************************************)
(* Proofs about what users are told unasked: the cooldown of the alerts,   *)
(* the conditions that make one, and the settings that let it through; and *)
(* about the rate limit of what they ask.                                  *)
(***************************************************************************)
EXTENDS Alerts, Conditions, Preferences, SelectionProofs, FiniteSetTheorems, TLAPS

-----------------------------------------------------------------------------
(***************************************************************************)
(* Proofs about module Alerts, for any set of keys and any durations that  *)
(* satisfy AlertsAssumption.                                               *)
(*                                                                         *)
(* An entry of the cache stands for the last alert as long as it is no     *)
(* older than that alert, and for the last tap on Mute as long as it leaves*)
(* as much of the cooldown as the tap has left; nothing but the two writes *)
(* and time changes it before it may be dropped.                           *)
(***************************************************************************)

\* Within the cooldown of an alert the entry is no older than the alert, unless
\* the alert is of a rule and still to be entered.
EntryStandsForAlert ==
    \A k \in Key :
        \/ since[k] >= Cooldown
        \/ cache[k] <= since[k]
        \/ k \in Late /\ pc[k] # "idle"

\* Who is about to write the entry found the cooldown over.
MarkIsDue == \A k \in Key : pc[k] = "mark" /\ k \notin Late => since[k] >= Cooldown

\* While a tap lasts, no alert is about to overwrite the entry, and the entry
\* is young enough to last as long as the tap.
EntryStandsForMute ==
    \A k \in Mutable : quiet[k] > 0 /\ k \notin lost =>
        pc[k] # "mark" /\ cache[k] <= Cooldown - quiet[k]

AlertsInv == TypeOK /\ EntryStandsForAlert /\ MarkIsDue /\ EntryStandsForMute

LEMMA Numbers ==
    /\ Cooldown \in Nat /\ Cooldown > 0 /\ MuteTime \in Nat /\ MuteTime >= Cooldown
    /\ Absent = Cooldown + 2
    /\ Cooldown - MuteTime \in Int
BY AlertsAssumption DEF Absent

\* What TypeOK says of one key.
LEMMA KeyTypes ==
    ASSUME TypeOK, NEW k \in Key
    PROVE  /\ cache[k] \in Int /\ cache[k] >= Cooldown - MuteTime /\ cache[k] <= Absent
           /\ since[k] \in Nat /\ since[k] <= Cooldown
           /\ quiet[k] \in Nat /\ quiet[k] <= MuteTime
           /\ pc[k] \in {"idle", "mark", "send"}
           /\ k \in Late => k \notin Mutable
BY Numbers DEF TypeOK, Late, Mutable

LEMMA SeenNowType == SeenNow \in [Key -> BOOLEAN]
<1>1. \A k \in Key : (k \in Edge /\ bad[k]) \in BOOLEAN
    BY Zenon
<1>. QED
    BY <1>1 DEF SeenNow

LEMMA AlertsInitInv == Init => AlertsInv
<1>. SUFFICES ASSUME Init PROVE AlertsInv
    OBVIOUS
<1>1. TypeOK
    BY Numbers, SeenNowType, AlertsAssumption DEF Init, TypeOK
<1>2. EntryStandsForAlert /\ MarkIsDue /\ EntryStandsForMute
    BY Numbers DEF Init, EntryStandsForAlert, MarkIsDue, EntryStandsForMute, Mutable
<1>. QED
    BY <1>1, <1>2 DEF AlertsInv

LEMMA AlertsTypeStep == TypeOK /\ [Next]_vars => TypeOK'
<1>. SUFFICES ASSUME TypeOK, [Next]_vars PROVE TypeOK'
    OBVIOUS
<1>. USE Numbers DEF TypeOK
<1>1. ASSUME NEW k \in Key, Turn(k) PROVE TypeOK'
    BY <1>1 DEF Turn
<1>2. ASSUME NEW k \in Key, Observe(k) PROVE TypeOK'
    <2>1. pc' \in [Key -> {"idle", "mark", "send"}] /\ since' \in [Key -> 0..Cooldown]
        BY <1>2 DEF Observe, Starts
    <2>2. seen' \in [Key -> BOOLEAN]
        BY <1>2 DEF Observe
    <2>. QED
        BY <1>2, <2>1, <2>2 DEF Observe
<1>3. ASSUME NEW k \in Key, Mark(k) PROVE TypeOK'
    BY <1>3 DEF Mark, Starts
<1>4. ASSUME NEW k \in Key, Send(k) PROVE TypeOK'
    BY <1>4 DEF Send
<1>5. ASSUME NEW k \in Key, NEW here \in BOOLEAN, HandleMute(k, here) PROVE TypeOK'
    <2>1. cache' \in [Key -> (Cooldown - MuteTime)..Absent]
        BY <1>5 DEF HandleMute, MuteAlert
    <2>2. mutes' \in 0..MaxMutes /\ quiet' \in [Key -> 0..MuteTime] /\ lost' \subseteq Key
        BY <1>5, AlertsAssumption DEF HandleMute
    <2>. QED
        BY <1>5, <2>1, <2>2 DEF HandleMute
<1>6. CASE Cleanup
    BY <1>6 DEF Cleanup
<1>7. CASE Failover
    BY <1>7, SeenNowType, AlertsAssumption DEF Failover
<1>8. CASE Tick
    BY <1>8 DEF Tick, Older
<1>9. CASE UNCHANGED vars
    BY <1>9 DEF vars
<1>. QED
    BY <1>1, <1>2, <1>3, <1>4, <1>5, <1>6, <1>7, <1>8, <1>9 DEF Next

\* The three parts of the invariant about entries, step by step.
Entries == EntryStandsForAlert /\ MarkIsDue /\ EntryStandsForMute

LEMMA EntriesStep == AlertsInv /\ [Next]_vars => Entries'
<1>. SUFFICES ASSUME AlertsInv, [Next]_vars PROVE Entries'
    OBVIOUS
<1>a. TypeOK /\ kind' = kind
    BY DEF AlertsInv, Next, vars, Turn, Observe, Mark, Send, HandleMute, Cleanup, Failover, Tick
<1>. USE Numbers, KeyTypes, <1>a
     DEF AlertsInv, Entries, EntryStandsForAlert, MarkIsDue, EntryStandsForMute, Late, Mutable
<1>1. ASSUME NEW k \in Key, Turn(k) PROVE Entries'
    BY <1>1 DEF Turn
<1>2. ASSUME NEW k \in Key, Observe(k) PROVE Entries'
    <2>1. CASE Fires(k) /\ ~InCooldown(k)
        <3>1. cache[k] >= Cooldown
            BY <2>1 DEF InCooldown
        <3>2. since[k] >= Cooldown /\ (k \in Mutable => quiet[k] = 0 \/ k \in lost)
            BY <1>2, <3>1 DEF Observe
        <3>3. pc' = [pc EXCEPT ![k] = IF kind[k] = "rule" THEN "send" ELSE "mark"]
              /\ since' = IF kind[k] = "rule" THEN [since EXCEPT ![k] = 0] ELSE since
            BY <1>2, <2>1 DEF Observe, Starts
        <3>4. UNCHANGED <<cache, quiet, lost>>
            BY <1>2 DEF Observe
        <3>5. pc \in [Key -> {"idle", "mark", "send"}] /\ since \in [Key -> 0..Cooldown]
            BY DEF TypeOK
        <3>. QED
            BY <3>2, <3>3, <3>4, <3>5
    <2>2. CASE ~(Fires(k) /\ ~InCooldown(k))
        BY <1>2, <2>2 DEF Observe
    <2>. QED
        BY <2>1, <2>2
<1>3. ASSUME NEW k \in Key, Mark(k) PROVE Entries'
    <2>1. pc \in [Key -> {"idle", "mark", "send"}] /\ since \in [Key -> 0..Cooldown]
          /\ cache \in [Key -> Int]
        BY DEF TypeOK
    <2>2. quiet[k] = 0 \/ k \in lost \/ k \notin Mutable
        BY <1>3 DEF Mark
    <2>3. cache' = [cache EXCEPT ![k] = 0] /\ UNCHANGED <<quiet, lost>>
        BY <1>3 DEF Mark
    <2>4. CASE kind[k] = "rule"
        BY <1>3, <2>1, <2>2, <2>3, <2>4 DEF Mark
    <2>5. CASE kind[k] # "rule"
        BY <1>3, <2>1, <2>2, <2>3, <2>5 DEF Mark, Starts
    <2>. QED
        BY <2>4, <2>5
<1>4. ASSUME NEW k \in Key, Send(k) PROVE Entries'
    BY <1>4 DEF Send, TypeOK
<1>5. ASSUME NEW k \in Key, NEW here \in BOOLEAN, HandleMute(k, here) PROVE Entries'
    <2>1. cache \in [Key -> Int] /\ quiet \in [Key -> 0..MuteTime]
        BY DEF TypeOK
    <2>2. UNCHANGED <<pc, since>> /\ quiet' = [quiet EXCEPT ![k] = MuteTime]
        BY <1>5 DEF HandleMute
    <2>3. CASE here /\ k \in Mutable
        <3>1. cache' = [cache EXCEPT ![k] = Cooldown - MuteTime]
            BY <1>5, <2>3 DEF HandleMute, MuteAlert
        <3>2. \A j \in Key : j # k => (j \in lost' <=> j \in lost)
            BY <1>5 DEF HandleMute
        <3>3. k \in lost' \/ pc[k] # "mark"
            BY <1>5 DEF HandleMute
        <3>. QED
            BY <2>1, <2>2, <3>1, <3>2, <3>3
    <2>4. CASE ~(here /\ k \in Mutable)
        <3>1. cache' = cache /\ (k \in lost' \/ k \notin Mutable)
            BY <1>5, <2>4 DEF HandleMute
        <3>2. \A j \in Key : j # k => (j \in lost' <=> j \in lost)
            BY <1>5 DEF HandleMute
        <3>. QED
            BY <2>1, <2>2, <3>1, <3>2
    <2>. QED
        BY <2>3, <2>4
<1>6. CASE Cleanup
    <2>1. \A j \in Key : cache'[j] = cache[j] \/ cache[j] > Cooldown
        BY <1>6 DEF Cleanup
    <2>. QED
        BY <1>6, <2>1 DEF Cleanup
<1>7. CASE Failover
    BY <1>7 DEF Failover
<1>8. CASE Tick
    <2>1. ASSUME NEW j \in Key
          PROVE  /\ cache'[j] = IF cache[j] > Cooldown THEN cache[j] ELSE cache[j] + 1
                 /\ since'[j] = IF since[j] < Cooldown THEN since[j] + 1 ELSE since[j]
                 /\ quiet'[j] = IF quiet[j] > 0 THEN quiet[j] - 1 ELSE 0
        BY <1>8 DEF Tick, Older
    <2>. QED
        BY <1>8, <2>1 DEF Tick
<1>9. CASE UNCHANGED vars
    BY <1>9 DEF vars
<1>. QED
    BY <1>1, <1>2, <1>3, <1>4, <1>5, <1>6, <1>7, <1>8, <1>9 DEF Next

\* The invariant that the theorems below follow from.
THEOREM AlertsInvariant == Spec => []AlertsInv
<1>1. AlertsInv /\ [Next]_vars => AlertsInv'
    BY AlertsTypeStep, EntriesStep DEF AlertsInv, Entries
<1>. QED
    BY <1>1, AlertsInitInv, PTL DEF Spec
-----------------------------------------------------------------------------
\* Every variable keeps to its type: in particular an entry lies at most
\* MuteTime minus the cooldown in the future.
THEOREM AlertsTypeTheorem == Spec => []TypeOK
<1>1. AlertsInv => TypeOK
    BY DEF AlertsInv
<1>. QED
    BY <1>1, AlertsInvariant, PTL

\* No two alerts of one key within the cooldown (alert, markFired).
THEOREM SpacingTheorem == Spec => Spacing
<1>1. ASSUME AlertsInv, [Next]_vars, NEW k \in Key, pc[k] # "send", pc'[k] = "send"
      PROVE  since[k] >= Cooldown
    <2>1. Observe(k) \/ Mark(k)
        BY <1>1 DEF AlertsInv, TypeOK, Next, vars, Turn, Observe, Mark, Send, HandleMute,
                    Cleanup, Failover, Tick
    <2>2. CASE Observe(k)
        <3>1. ~InCooldown(k) /\ pc[k] = "idle"
            BY <1>1, <2>2 DEF Observe
        <3>2. cache[k] >= Cooldown
            BY <3>1, <1>1, Numbers, KeyTypes DEF InCooldown, AlertsInv
        <3>3. since[k] >= Cooldown \/ cache[k] <= since[k]
            BY <3>1, <1>1 DEF AlertsInv, EntryStandsForAlert
        <3>. QED
            BY <3>2, <3>3, <1>1, Numbers, KeyTypes DEF AlertsInv
    <2>3. CASE Mark(k)
        BY <1>1, <2>3 DEF AlertsInv, TypeOK, Mark, MarkIsDue
    <2>. QED
        BY <2>1, <2>2, <2>3
<1>2. AlertsInv /\ [Next]_vars =>
        [\A k \in Key : pc[k] # "send" /\ pc'[k] = "send" => since[k] >= Cooldown]_vars
    BY <1>1
<1>. QED
    BY <1>2, AlertsInvariant, PTL DEF Spec, Spacing

\* A tap on Mute for a pod or a node holds for its whole time unless it is
\* lost in one of the ways MuteHolds names (muteAlert).
THEOREM MuteTheorem == Spec => MuteHolds
<1>1. ASSUME AlertsInv, [Next]_vars, NEW k \in Mutable, pc[k] = "idle", pc'[k] # "idle", quiet[k] > 0
      PROVE  k \in lost
    <2>1. Observe(k)
        BY <1>1 DEF Mutable, AlertsInv, TypeOK, Next, vars, Turn, Observe, Mark, Send, HandleMute,
                    Cleanup, Failover, Tick
    <2>2. ~InCooldown(k)
        BY <1>1, <2>1 DEF Observe
    <2>. QED
        BY <1>1, <2>2, Numbers, KeyTypes DEF InCooldown, AlertsInv, EntryStandsForMute, Mutable
<1>2. AlertsInv /\ [Next]_vars =>
        [\A k \in Mutable : pc[k] = "idle" /\ pc'[k] # "idle" /\ quiet[k] > 0 => k \in lost]_vars
    BY <1>1
<1>. QED
    BY <1>2, AlertsInvariant, PTL DEF Spec, MuteHolds

-----------------------------------------------------------------------------
(***************************************************************************)
(* Proofs about module Conditions, for any pressures, restart counts,      *)
(* percentages, days and states of applications.                           *)
(*                                                                         *)
(* What holds of an object at a look held at the look before, and was told *)
(* or excused then, or is told by one of the alarms of this look.  For     *)
(* pods this needs that a failed pod stays as it failed and restarts are   *)
(* never taken back.                                                       *)
(***************************************************************************)

Kinds == {"node", "pod", "cronjob", "claim", "cert", "rule", "app"}

\* How a pod may have changed since it was last looked at.
Precedes(old, new) ==
    sort = "pod" =>
        /\ new.restarts >= old.restarts
        /\ old.phase = "Failed" => new.phase = "Failed"

\* The kinds whose first look is the fill of a cache.
Seeded == {"node", "pod", "app"}

ConditionsTypes ==
    /\ sort \in Kinds
    /\ obj \in Objects[sort]
    /\ last \in Objects[sort]
    /\ known \in BOOLEAN

ConditionsInv ==
    /\ ConditionsTypes
    /\ known => Precedes(last, obj)
    /\ SeenIsTold

\* The kinds by name.
LEMMA KindsOfObjects == DOMAIN Objects = Kinds
BY DEF Objects, Kinds

\* What the fields of a pod may be.
LEMMA PodFields ==
    ASSUME sort = "pod", NEW o \in Objects[sort]
    PROVE  /\ o.phase \in {"Pending", "Late", "Running", "Failed", "Evicted"}
           /\ o.restarts \in Nat
           /\ o.trouble \in {"", "OOMKilled", "CrashLoopBackOff", "ImagePullBackOff"}
BY ConditionsAssumption DEF Objects

\* Likewise of a node.
LEMMA NodeFields ==
    ASSUME sort = "node", NEW o \in Objects[sort]
    PROVE  o.ready \in {"True", "False", "Unknown"}
BY DEF Objects

-----------------------------------------------------------------------------
\* What the alarms of a look tell.
Tells(alarms) == UNION {a.tells : a \in alarms}

\* An alarm tells what it tells, alone or with others.
LEMMA TellsOf == ASSUME NEW alarms, NEW a \in alarms, NEW c \in a.tells
                 PROVE  c \in Tells(alarms)
BY DEF Tells

\* A condition said alone is told.
LEMMA SaidTells == ASSUME NEW conds, NEW c \in conds
                   PROVE  Alarm(c, {c}) \in Said(conds) /\ c \in Alarm(c, {c}).tells
BY DEF Said, Alarm

\* The pollers tell all that holds, whenever they look.
LEMMA PollersTell ==
    ASSUME sort \in Kinds \ Seeded, NEW old, NEW new, NEW c \in Holding(new)
    PROVE  c \in Tells(Alarms(old, new))
<1>1. CASE sort = "cronjob"
    <2>1. Holding(new) = CronJobHolds(new) /\ Alarms(old, new) = Said(CronJobHolds(new))
        BY <1>1 DEF Holding, Alarms
    <2>. QED
        BY <2>1, SaidTells, TellsOf
<1>2. CASE sort \in {"claim", "cert", "rule"}
    <2>1. Alarms(old, new) = OneKey(Holding(new))
        BY <1>2 DEF Alarms
    <2>2. Alarms(old, new) = {Alarm("key", Holding(new))}
        BY <2>1 DEF OneKey
    <2>3. c \in Alarm("key", Holding(new)).tells
        BY DEF Alarm
    <2>. QED
        BY <2>2, <2>3, TellsOf
<1>. QED
    BY <1>1, <1>2 DEF Kinds, Seeded

\* What the watcher of nodes finds changed it tells.
LEMMA NodesTell ==
    ASSUME sort = "node", NEW old \in Objects[sort], NEW new \in Objects[sort],
           NEW c \in Holding(new), c \notin Holding(old)
    PROVE  c \in Tells(Alarms(old, new))
<1>1. Holding(old) = NodeHolds(old) /\ Holding(new) = NodeHolds(new)
      /\ Alarms(old, new) = NodeAlarms(old, new)
    BY DEF Holding, Alarms
<1>2. CASE c \in new.pressures
    <2>1. c \in new.pressures \ old.pressures
        BY <1>1, <1>2 DEF NodeHolds
    <2>2. Alarm(c, {c}) \in Said(new.pressures \ old.pressures) /\ c \in Alarm(c, {c}).tells
        BY <2>1, SaidTells
    <2>3. Alarm(c, {c}) \in NodeAlarms(old, new)
        BY <2>2 DEF NodeAlarms
    <2>. QED
        BY <1>1, <2>2, <2>3, TellsOf
<1>3. CASE c \notin new.pressures
    <2>1. c = "Down" /\ new.ready # "True" /\ old.ready = "True"
        BY <1>1, <1>3 DEF NodeHolds
    <2>2. new.ready \in {"False", "Unknown"}
        BY <2>1, NodeFields
    <2>3. \E k \in {"NotReady", "Unreachable"} : Alarm(k, {"Down"}) \in NodeAlarms(old, new)
        BY <2>1, <2>2 DEF NodeAlarms
    <2>4. PICK k \in {"NotReady", "Unreachable"} : Alarm(k, {"Down"}) \in NodeAlarms(old, new)
        BY <2>3
    <2>5. c \in Alarm(k, {"Down"}).tells
        BY <2>1 DEF Alarm
    <2>. QED
        BY <1>1, <2>4, <2>5, TellsOf
<1>. QED
    BY <1>2, <1>3

\* What the watcher of pods finds changed, or finds and reports at every look,
\* it tells.
LEMMA PodsTell ==
    ASSUME sort = "pod", NEW old \in Objects[sort], NEW new \in Objects[sort],
           Precedes(old, new), NEW c \in Holding(new), c \notin Holding(old)
    PROVE  c \in Tells(Alarms(old, new))
<1>. DEFINE more == IF new.restarts >= RestartThreshold /\ new.restarts > old.restarts
                    THEN {"HighRestarts"} ELSE {}
            evicted == IF new.phase = "Evicted" /\ old.phase \notin {"Failed", "Evicted"}
                       THEN {"Evicted"} ELSE {}
            conds == Troubles(new) \cup more \cup evicted
<1>1. Holding(old) = PodHolds(old) /\ Holding(new) = PodHolds(new)
      /\ Alarms(old, new) = PodAlarms(old, new)
    BY DEF Holding, Alarms
<1>2. PodAlarms(old, new) = Said(conds)
    BY DEF PodAlarms
<1>3. c \in conds
    <2>1. CASE c \in Troubles(new)
        BY <2>1
    <2>2. CASE c = "HighRestarts" /\ new.restarts >= RestartThreshold
        <3>1. ~(old.restarts >= RestartThreshold)
            BY <1>1, <2>2 DEF PodHolds
        <3>2. old.restarts \in Nat /\ new.restarts \in Nat
            BY PodFields
        <3>3. new.restarts > old.restarts
            BY <2>2, <3>1, <3>2 DEF RestartThreshold
        <3>. QED
            BY <2>2, <3>3
    <2>3. CASE c = "Evicted" /\ new.phase = "Evicted"
        <3>1. old.phase # "Evicted"
            BY <1>1, <2>3 DEF PodHolds
        <3>2. old.phase # "Failed"
            BY <2>3 DEF Precedes
        <3>. QED
            BY <2>3, <3>1, <3>2
    <2>. QED
        BY <1>1, <2>1, <2>2, <2>3 DEF PodHolds
<1>. QED
    BY <1>1, <1>2, <1>3, SaidTells, TellsOf

\* A change of an application tells all that holds of it now.
LEMMA AppsTell ==
    ASSUME sort = "app", NEW old, NEW new, NEW c \in Holding(new), c \notin Holding(old)
    PROVE  c \in Tells(Alarms(old, new))
<1>1. Holding(old) = AppHolds(old) /\ Holding(new) = AppHolds(new)
      /\ Alarms(old, new) = AppAlarms(old, new)
    BY DEF Holding, Alarms
<1>2. old # new
    OBVIOUS
<1>3. Alarms(old, new) = {Alarm("app", AppHolds(new))}
    BY <1>1, <1>2 DEF AppAlarms
<1>4. c \in Alarm("app", AppHolds(new)).tells
    BY <1>1 DEF Alarm
<1>. QED
    BY <1>3, <1>4, TellsOf

\* Nothing that sets in between two looks is lost at the second.
LEMMA NewIsTold ==
    ASSUME sort \in Kinds, NEW old \in Objects[sort], NEW new \in Objects[sort],
           Precedes(old, new), NEW c \in Holding(new), c \notin Holding(old)
    PROVE  c \in Tells(Alarms(old, new))
BY PollersTell, NodesTell, PodsTell, AppsTell DEF Kinds, Seeded

-----------------------------------------------------------------------------
\* A look keeps the books: what holds is told or excused.
LEMMA LookKeeps == ConditionsInv /\ Look => SeenIsTold'
<1>. SUFFICES ASSUME ConditionsInv, Look, NEW c \in Holding(last)'
              PROVE  c \in told' \cup excused'
    BY DEF SeenIsTold
<1>. DEFINE alarms == Alarms(last, obj)
            sent == {a \in alarms : a.key \notin cool}
<1>1. c \in Holding(obj)
    BY DEF Look, Holding
<1>2. /\ told' = (told \cap Holding(obj)) \cup UNION {a.tells : a \in sent}
      /\ excused' = ((excused \cap Holding(obj))
                        \cup UNION {a.tells : a \in alarms \ sent}) \ told'
    BY DEF Look
<1>3. CASE c \in Tells(alarms)
    <2>1. PICK a \in alarms : c \in a.tells
        BY <1>3 DEF Tells
    <2>. QED
        BY <1>2, <2>1
<1>4. CASE c \in told \cup excused
    BY <1>1, <1>2, <1>4
<1>5. CASE known
    <2>1. c \in Holding(last) => c \in told \cup excused
        BY <1>5 DEF ConditionsInv, SeenIsTold, Look
    <2>2. c \notin Holding(last) => c \in Tells(alarms)
        BY <1>1, <1>5, NewIsTold DEF ConditionsInv, ConditionsTypes
    <2>. QED
        BY <1>3, <1>4, <2>1, <2>2
<1>6. CASE ~known
    <2>1. sort \in Kinds \ Seeded
        BY <1>6 DEF ConditionsInv, ConditionsTypes, Look, Seeded
    <2>. QED
        BY <1>1, <1>3, <2>1, PollersTell
<1>. QED
    BY <1>5, <1>6

\* Every step keeps the books.
LEMMA SeenStep == ConditionsInv /\ [Watching]_conditions => SeenIsTold'
<1>. SUFFICES ASSUME ConditionsInv, [Watching]_conditions PROVE SeenIsTold'
    OBVIOUS
<1>1. CASE Look
    BY <1>1, LookKeeps
<1>2. CASE FirstLook
    BY <1>2 DEF FirstLook, SeenIsTold, Holding
<1>3. CASE StartWatchers
    BY <1>3 DEF StartWatchers, SeenIsTold
<1>4. CASE StopWatchers
    BY <1>4 DEF StopWatchers, SeenIsTold
<1>5. CASE Change \/ CoolEnds \/ Mute \/ UNCHANGED conditions
    BY <1>5 DEF Change, CoolEnds, Mute, conditions, ConditionsInv, SeenIsTold, Holding
<1>. QED
    BY <1>1, <1>2, <1>3, <1>4, <1>5 DEF Watching

\* The object was, at the last look, as one that may have turned into it.
LEMMA OlderStep == ConditionsInv /\ [Watching]_conditions => ConditionsTypes' /\ (known => Precedes(last, obj))'
<1>. SUFFICES ASSUME ConditionsInv, [Watching]_conditions
              PROVE  ConditionsTypes' /\ (known => Precedes(last, obj))'
    OBVIOUS
<1>1. ASSUME sort = "pod", NEW o \in Objects[sort] PROVE Precedes(o, o)
    <2>1. o.restarts \in Nat
        BY <1>1, PodFields
    <2>. QED
        BY <2>1 DEF Precedes
<1>2. CASE Change
    <2>1. ConditionsTypes' /\ obj' \in Objects[sort] /\ MayTurn(obj, obj')
        BY <1>2 DEF Change, ConditionsInv, ConditionsTypes
    <2>2. ASSUME known, sort = "pod" PROVE Precedes(last, obj')
        <3>1. Precedes(last, obj)
            BY <2>2 DEF ConditionsInv
        <3>2. /\ obj'.restarts >= obj.restarts
              /\ obj'.phase = obj.phase \/ Phases[obj'.phase] > Phases[obj.phase]
            BY <2>1, <2>2 DEF MayTurn
        <3>3. /\ last.restarts \in Nat /\ obj.restarts \in Nat /\ obj'.restarts \in Nat
              /\ obj'.phase \in {"Pending", "Late", "Running", "Failed", "Evicted"}
            BY <2>1, <2>2, PodFields DEF ConditionsInv, ConditionsTypes
        <3>4. obj.phase = "Failed" => obj'.phase = "Failed"
            <4>1. \A f \in {"Pending", "Late", "Running", "Failed", "Evicted"} :
                      ~(Phases[f] > Phases["Failed"])
                BY DEF Phases
            <4>. QED
                BY <3>2, <3>3, <4>1
        <3>. QED
            BY <3>1, <3>2, <3>3, <3>4 DEF Precedes
    <2>. QED
        BY <1>2, <2>1, <2>2 DEF Change, Precedes
<1>3. CASE FirstLook
    <2>1. ConditionsTypes'
        BY <1>3 DEF FirstLook, ConditionsInv, ConditionsTypes
    <2>2. sort = "pod" => last' = obj
        BY <1>3 DEF FirstLook
    <2>3. sort' = sort /\ obj' = obj /\ known' = TRUE
        BY <1>3 DEF FirstLook
    <2>4. ASSUME sort = "pod" PROVE Precedes(last, obj)'
        <3>1. Precedes(obj, obj)
            BY <1>1, <2>4 DEF ConditionsInv, ConditionsTypes
        <3>. QED
            BY <2>2, <2>3, <2>4, <3>1 DEF Precedes
    <2>. QED
        BY <2>1, <2>3, <2>4 DEF Precedes
<1>4. CASE Look
    <2>1. sort' = sort /\ obj' = obj /\ last' = obj /\ known' = TRUE
        BY <1>4 DEF Look
    <2>2. sort = "pod" => Precedes(obj, obj)
        BY <1>1 DEF ConditionsInv, ConditionsTypes
    <2>. QED
        BY <2>1, <2>2 DEF ConditionsInv, ConditionsTypes, Precedes
<1>5. CASE StartWatchers \/ StopWatchers \/ CoolEnds \/ Mute \/ UNCHANGED conditions
    <2>1. sort' = sort /\ obj' = obj /\ last' = last /\ known' \in {known, FALSE}
        BY <1>5 DEF StartWatchers, StopWatchers, CoolEnds, Mute, conditions
    <2>2. ConditionsTypes'
        BY <2>1 DEF ConditionsInv, ConditionsTypes
    <2>3. known' => Precedes(last, obj)
        BY <2>1 DEF ConditionsInv
    <2>. QED
        BY <2>1, <2>2, <2>3 DEF Precedes
<1>. QED
    BY <1>2, <1>3, <1>4, <1>5 DEF Watching

\* Every condition of an object that the watcher has seen was told of, or had
\* its reason not to be (checkPod, checkNode, the pollers and their caches).
THEOREM SeenTheorem == ConditionsSpec => []SeenIsTold
<1>1. ConditionsInit => ConditionsInv
    <2>. SUFFICES ASSUME ConditionsInit PROVE ConditionsInv
        OBVIOUS
    <2>1. sort \in Kinds /\ obj \in Objects[sort]
        BY KindsOfObjects DEF ConditionsInit
    <2>2. sort = "app" => Gone \in Objects[sort]
        BY DEF Objects
    <2>3. last \in Objects[sort]
        BY <2>1, <2>2 DEF ConditionsInit
    <2>4. known = FALSE
        BY DEF ConditionsInit
    <2>. QED
        BY <2>1, <2>3, <2>4 DEF ConditionsInv, ConditionsTypes, SeenIsTold
<1>2. ConditionsInv /\ [Watching]_conditions => ConditionsInv'
    BY SeenStep, OlderStep DEF ConditionsInv
<1>3. ConditionsInv => SeenIsTold
    BY DEF ConditionsInv
<1>. QED
    BY <1>1, <1>2, <1>3, PTL DEF ConditionsSpec

-----------------------------------------------------------------------------
(***************************************************************************)
(* Proofs about modules Preferences and RateLimiter, for any users and     *)
(* clusters, any limit and window, and any hours of quiet.                 *)
(*                                                                         *)
(* The limiter forgets a request only when it is out of the window, so     *)
(* what it holds is what it let in within the window.  A row of the        *)
(* settings is written whole by taps that read it first: as long as nobody *)
(* else wrote the row in between, what a tap holds of the other settings   *)
(* is what the row has of them.                                            *)
(***************************************************************************)

(* The rate limiter.                                                       *)

Fresh == 0..(Window - 1)

LEMMA ValidTypes ==
    ASSUME NEW s \in Seq(Age)
    PROVE  /\ Valid(s) \in Seq(Age) /\ Valid(s) \in Seq(Fresh)
           /\ Len(Valid(s)) <= Len(s) /\ Len(Valid(s)) \in Nat /\ Len(s) \in Nat
<1>1. Valid(s) \in Seq(Age \cap Fresh) /\ Len(Valid(s)) <= Len(s)
    BY SelectedTypes DEF Valid, Fresh
<1>2. Age \cap Fresh = Fresh
    BY RateLimiterAssumption DEF Age, Fresh
<1>3. \A t : t \in Seq(Fresh) => t \in Seq(Age) /\ Len(t) \in Nat
    BY RateLimiterAssumption DEF Age, Fresh
<1>. QED
    BY <1>1, <1>2, <1>3

LEMMA ValidAppend ==
    ASSUME NEW s \in Seq(Age), NEW e \in Age
    PROVE  Valid(Append(s, e)) = IF e \in Fresh THEN Append(Valid(s), e) ELSE Valid(s)
BY SelectedAppend DEF Valid, Fresh

LEMMA ValidValid == ASSUME NEW s \in Seq(Fresh) PROVE Valid(s) = s
BY SelectedAll DEF Valid, Fresh

LEMMA AgedTypes ==
    ASSUME NEW s \in Seq(Age) PROVE Aged(s) \in Seq(Age) /\ Len(Aged(s)) = Len(s)
<1>1. \A i \in 1..Len(s) : (IF s[i] < Window THEN s[i] + 1 ELSE Window) \in Age
    BY RateLimiterAssumption DEF Age
<1>2. DOMAIN s = 1..Len(s) /\ Len(s) \in Nat
    OBVIOUS
<1>. QED
    BY <1>1, <1>2 DEF Aged

\* An age, one tick later.
Later(e) == IF e < Window THEN e + 1 ELSE Window

LEMMA LaterTypes == \A e \in Age : Later(e) \in Age /\ (Later(e) \in Fresh => e \in Fresh)
BY RateLimiterAssumption DEF Later, Age, Fresh

LEMMA AgedAppend ==
    ASSUME NEW s \in Seq(Age), NEW e \in Age
    PROVE  Aged(Append(s, e)) = Append(Aged(s), Later(e))
<1>1. /\ Aged(s) \in Seq(Age) /\ Len(Aged(s)) = Len(s) /\ Len(s) \in Nat
      /\ Append(s, e) \in Seq(Age) /\ Len(Append(s, e)) = Len(s) + 1
    BY AgedTypes
<1>2. /\ Aged(Append(s, e)) \in Seq(Age) /\ Len(Aged(Append(s, e))) = Len(s) + 1
      /\ Append(Aged(s), Later(e)) \in Seq(Age) /\ Len(Append(Aged(s), Later(e))) = Len(s) + 1
    <2>1. Later(e) \in Age
        BY LaterTypes
    <2>2. Aged(Append(s, e)) \in Seq(Age) /\ Len(Aged(Append(s, e))) = Len(s) + 1
        BY <1>1, AgedTypes
    <2>3. Append(Aged(s), Later(e)) \in Seq(Age) /\ Len(Append(Aged(s), Later(e))) = Len(s) + 1
        BY <1>1, <2>1
    <2>. QED
        BY <2>2, <2>3
<1>3. ASSUME NEW i \in 1..(Len(s) + 1)
      PROVE  Aged(Append(s, e))[i] = Append(Aged(s), Later(e))[i]
    <2>1. Aged(Append(s, e))[i] = Later(Append(s, e)[i])
        BY <1>1 DEF Aged, Later
    <2>2. CASE i \in 1..Len(s)
        <3>1. Append(s, e)[i] = s[i] /\ Append(Aged(s), Later(e))[i] = Aged(s)[i]
            BY <1>1, <2>2, LaterTypes
        <3>2. Aged(s)[i] = Later(s[i])
            BY <1>1, <2>2 DEF Aged, Later
        <3>. QED
            BY <2>1, <3>1, <3>2
    <2>3. CASE i = Len(s) + 1
        BY <1>1, <2>1, <2>3, LaterTypes
    <2>. QED
        BY <1>1, <2>2, <2>3
<1>. QED
    BY <1>2, <1>3

\* To forget what is old and then wait is to wait and then forget.
LEMMA ForgetEarly ==
    ASSUME NEW s \in Seq(Age) PROVE Valid(Aged(Valid(s))) = Valid(Aged(s))
<1>. DEFINE T == {r \in Seq(Age) : Valid(Aged(Valid(r))) = Valid(Aged(r))}
<1>1. <<>> \in T
    <2>1. Valid(<<>>) = <<>>
        BY SelectedEmpty DEF Valid
    <2>. QED
        BY <2>1
<1>2. ASSUME NEW r \in T, NEW e \in Age PROVE Append(r, e) \in T
    <2>1. r \in Seq(Age) /\ Valid(Aged(Valid(r))) = Valid(Aged(r)) /\ Append(r, e) \in Seq(Age)
        OBVIOUS
    <2>2. Valid(r) \in Seq(Age) /\ Aged(r) \in Seq(Age) /\ Aged(Valid(r)) \in Seq(Age)
        BY <2>1, ValidTypes, AgedTypes
    <2>3. Aged(Append(r, e)) = Append(Aged(r), Later(e)) /\ Later(e) \in Age
        BY <2>1, AgedAppend, LaterTypes
    <2>4. Valid(Aged(Append(r, e))) =
              IF Later(e) \in Fresh THEN Append(Valid(Aged(r)), Later(e)) ELSE Valid(Aged(r))
        BY <2>2, <2>3, ValidAppend
    <2>5. CASE e \in Fresh
        <3>1. Valid(Append(r, e)) = Append(Valid(r), e)
            BY <2>1, <2>5, ValidAppend
        <3>2. Aged(Append(Valid(r), e)) = Append(Aged(Valid(r)), Later(e))
            BY <2>2, AgedAppend
        <3>3. Valid(Append(Aged(Valid(r)), Later(e))) =
                  IF Later(e) \in Fresh THEN Append(Valid(Aged(Valid(r))), Later(e))
                  ELSE Valid(Aged(Valid(r)))
            BY <2>2, <2>3, ValidAppend
        <3>. QED
            BY <2>1, <2>4, <3>1, <3>2, <3>3
    <2>6. CASE e \notin Fresh
        <3>1. Valid(Append(r, e)) = Valid(r)
            BY <2>1, <2>6, ValidAppend
        <3>2. Valid(Aged(Append(r, e))) = Valid(Aged(r))
            BY <2>4, <2>6, LaterTypes
        <3>. QED
            BY <2>1, <3>1, <3>2
    <2>. QED
        BY <2>5, <2>6
<1>. HIDE DEF T
<1>3. T = Seq(Age)
    BY <1>1, <1>2, SequenceInduction DEF T
<1>. QED
    BY <1>3 DEF T

-----------------------------------------------------------------------------
(* What the limiter remembers is what it has let through.                  *)

LimiterInv ==
    /\ LimiterTypeOK
    /\ \A u \in User : passed[u] = Valid(requests[u])
    /\ LimitExact

LEMMA LimiterInitInv == LimiterInit => LimiterInv
<1>. SUFFICES ASSUME LimiterInit PROVE LimiterInv
    OBVIOUS
<1>1. Valid(<<>>) = <<>> /\ <<>> \in Seq(Age) /\ Len(<<>>) = 0
    BY SelectedEmpty DEF Valid
<1>2. PICK u \in User : u = CHOOSE v \in User : TRUE
    BY RateLimiterAssumption
<1>. QED
    BY <1>1, <1>2, RateLimiterAssumption
       DEF LimiterInit, LimiterInv, LimiterTypeOK, LimitExact, NoDecision

\* What a decision finds: the updates let through within the window.
LEMMA Found ==
    ASSUME LimiterInv, NEW u \in User
    PROVE  /\ requests[u] \in Seq(Age) /\ passed[u] = Valid(requests[u])
           /\ Valid(requests[u]) \in Seq(Age) /\ Len(passed[u]) \in Nat
           /\ Len(Valid(requests[u])) <= Limit
           /\ Valid(Valid(requests[u])) = Valid(requests[u])
<1>1. requests[u] \in Seq(Age) /\ passed[u] = Valid(requests[u]) /\ Len(requests[u]) <= Limit
    BY DEF LimiterInv, LimiterTypeOK
<1>2. /\ Valid(requests[u]) \in Seq(Age) /\ Valid(requests[u]) \in Seq(Fresh)
      /\ Len(Valid(requests[u])) <= Len(requests[u])
      /\ Len(Valid(requests[u])) \in Nat /\ Len(requests[u]) \in Nat
    BY <1>1, ValidTypes
<1>. QED
    BY <1>1, <1>2, ValidValid, RateLimiterAssumption

LEMMA RefuseInv == ASSUME LimiterInv, NEW u \in User, Refuse(u) PROVE LimiterInv'
<1>1. /\ Valid(requests[u]) \in Seq(Age) /\ Len(passed[u]) \in Nat
      /\ Len(Valid(requests[u])) <= Limit /\ passed[u] = Valid(requests[u])
      /\ Valid(Valid(requests[u])) = Valid(requests[u])
    BY Found
<1>2. /\ requests' = [requests EXCEPT ![u] = Valid(requests[u])] /\ passed' = passed
      /\ decision' = [user |-> u, pass |-> FALSE, before |-> Len(passed[u])]
      /\ Len(Valid(requests[u])) >= Limit
    BY DEF Refuse, Decide
<1>3. requests' \in [User -> Seq(Age)] /\ \A v \in User : Len(requests'[v]) <= Limit
    BY <1>1, <1>2 DEF LimiterInv, LimiterTypeOK
<1>4. \A v \in User : passed'[v] = Valid(requests'[v])
    BY <1>1, <1>2 DEF LimiterInv, LimiterTypeOK
<1>5. decision' \in [user : User, pass : BOOLEAN, before : Nat]
    BY <1>1, <1>2
<1>6. LimitExact'
    BY <1>1, <1>2, RateLimiterAssumption DEF LimitExact
<1>7. passed' \in [User -> Seq(Age)]
    BY <1>2 DEF LimiterInv, LimiterTypeOK
<1>. QED
    BY <1>3, <1>4, <1>5, <1>6, <1>7 DEF LimiterInv, LimiterTypeOK

LEMMA AllowInv == ASSUME LimiterInv, NEW u \in User, Allow(u) PROVE LimiterInv'
<1>. DEFINE valid == Valid(requests[u])
<1>1. /\ valid \in Seq(Age) /\ Len(passed[u]) \in Nat
      /\ Len(valid) <= Limit /\ passed[u] = valid
      /\ Valid(valid) = valid
    BY Found
<1>2. /\ requests' = [requests EXCEPT ![u] = Append(valid, 0)]
      /\ passed' = [passed EXCEPT ![u] = Append(passed[u], 0)]
      /\ decision' = [user |-> u, pass |-> TRUE, before |-> Len(passed[u])]
      /\ Len(valid) < Limit
    BY DEF Allow, Decide
<1>3. requests \in [User -> Seq(Age)] /\ passed \in [User -> Seq(Age)]
    BY DEF LimiterInv, LimiterTypeOK
<1>4. \A v \in User : Len(requests[v]) <= Limit /\ passed[v] = Valid(requests[v])
    BY DEF LimiterInv, LimiterTypeOK
<1>. HIDE DEF valid
<1>5. 0 \in Age /\ 0 \in Fresh
    BY RateLimiterAssumption DEF Age, Fresh
<1>6. Append(valid, 0) \in Seq(Age) /\ Len(Append(valid, 0)) <= Limit
    <2>1. Append(valid, 0) \in Seq(Age) /\ Len(Append(valid, 0)) = Len(valid) + 1
        BY <1>1, <1>5
    <2>. QED
        BY <1>1, <1>2, <2>1, RateLimiterAssumption
<1>7. requests' \in [User -> Seq(Age)] /\ \A v \in User : Len(requests'[v]) <= Limit
    BY <1>2, <1>3, <1>4, <1>6
<1>8. Valid(Append(valid, 0)) = Append(valid, 0)
    BY <1>1, <1>5, ValidAppend
<1>9. passed' \in [User -> Seq(Age)] /\ \A v \in User : passed'[v] = Valid(requests'[v])
    BY <1>1, <1>2, <1>3, <1>4, <1>6, <1>8
<1>10. decision' \in [user : User, pass : BOOLEAN, before : Nat] /\ LimitExact'
    BY <1>1, <1>2, RateLimiterAssumption DEF LimitExact
<1>. QED
    BY <1>7, <1>9, <1>10 DEF LimiterInv, LimiterTypeOK

LEMMA TickInv == ASSUME LimiterInv, LimiterTick PROVE LimiterInv'
<1>1. ASSUME NEW u \in User
      PROVE  /\ requests'[u] \in Seq(Age) /\ Len(requests'[u]) <= Limit
             /\ passed'[u] \in Seq(Age) /\ passed'[u] = Valid(requests'[u])
    <2>1. /\ requests[u] \in Seq(Age) /\ passed[u] = Valid(requests[u])
          /\ Len(requests[u]) <= Limit
        BY DEF LimiterInv, LimiterTypeOK
    <2>2. requests'[u] = Aged(requests[u]) /\ passed'[u] = Valid(Aged(passed[u]))
        BY DEF LimiterTick
    <2>3. Aged(requests[u]) \in Seq(Age) /\ Len(Aged(requests[u])) = Len(requests[u])
        BY <2>1, AgedTypes
    <2>4. Valid(Aged(passed[u])) = Valid(Aged(requests[u]))
        BY <2>1, ForgetEarly
    <2>5. Valid(Aged(requests[u])) \in Seq(Age)
        BY <2>3, ValidTypes
    <2>. QED
        BY <2>1, <2>2, <2>3, <2>4, <2>5
<1>2. requests' \in [User -> Seq(Age)] /\ passed' \in [User -> Seq(Age)]
    <2>1. requests' = [u \in User |-> requests'[u]] /\ passed' = [u \in User |-> passed'[u]]
        BY DEF LimiterTick
    <2>. QED
        BY <1>1, <2>1
<1>3. UNCHANGED decision
    BY DEF LimiterTick
<1>. QED
    BY <1>1, <1>2, <1>3 DEF LimiterInv, LimiterTypeOK, LimitExact

LEMMA LimiterRestartInv == ASSUME LimiterRestart PROVE LimiterInv'
<1>1. Valid(<<>>) = <<>> /\ <<>> \in Seq(Age) /\ Len(<<>>) = 0
    BY SelectedEmpty DEF Valid
<1>2. PICK u \in User : u = CHOOSE v \in User : TRUE
    BY RateLimiterAssumption
<1>. QED
    BY <1>1, <1>2, RateLimiterAssumption
       DEF LimiterRestart, LimiterInv, LimiterTypeOK, LimitExact, NoDecision

-----------------------------------------------------------------------------
(* The settings.                                                           *)

\* A goroutine that reads or writes has a setting to change, and what it holds
\* of the others is what the row says, as long as the row is the one it read.
HoldsOthers ==
    /\ \A h \in Handler : at[h] # "idle" => job[h].set \in Setting
    /\ \A h \in current :
           /\ at[h] = "write"
           /\ \A s \in Setting \ {job[h].set} : pref[h][s] = Settings(row[owner[h]])[s]

SettingsOK ==
    /\ row \in [User -> Pref \cup {NoRow}]
    /\ at \in [Handler -> {"idle", "read", "write"}]
    /\ owner \in [Handler -> User]
    /\ job \in [Handler -> Job]
    /\ pref \in [Handler -> Pref]
    /\ current \subseteq Handler
    /\ HoldsOthers

PreferencesInv == LimiterInv /\ SettingsOK

LEMMA SettingsParts ==
    /\ Default \in Pref /\ NoJob \in Job
    /\ \A p \in Pref : p.severity \in Severity /\ p.muted \in SUBSET Cluster
                     /\ p.quiet \in Quiet \cup {Off}
    /\ \A r \in Pref \cup {NoRow} : Settings(r) \in Pref
    /\ (CHOOSE u \in User : TRUE) \in User
<1>1. PICK u \in User : u = CHOOSE v \in User : TRUE
    BY RateLimiterAssumption
<1>2. Default \in Pref /\ NoJob \in Job
    BY DEF Default, NoJob, Pref, Job, Severity
<1>3. \A p \in Pref : p.severity \in Severity /\ p.muted \in SUBSET Cluster
                    /\ p.quiet \in Quiet \cup {Off}
    BY DEF Pref
<1>4. \A r \in Pref \cup {NoRow} : Settings(r) \in Pref
    BY <1>2 DEF Settings
<1>. QED
    BY <1>1, <1>2, <1>3, <1>4

\* A handler changes the setting it is about and no other.
LEMMA ChangesOne ==
    ASSUME NEW p \in Pref, NEW j \in Job, j.set \in Setting
    PROVE  Changed(p, j) \in Pref /\ \A s \in Setting \ {j.set} : Changed(p, j)[s] = p[s]
<1>1. CASE j.set = "severity"
    <2>1. Changed(p, j) = WithSeverity(p, j.to)
        BY <1>1, Zenon DEF Changed
    <2>2. j.to \in Severity
        BY <1>1 DEF Job, SeverityJob, QuietJob, MuteJob
    <2>. QED
        BY <1>1, <2>1, <2>2 DEF WithSeverity, Pref, Setting
<1>2. CASE j.set = "quiet"
    <2>1. Changed(p, j) = WithQuiet(p, j.to)
        BY <1>2, Zenon DEF Changed
    <2>2. j.to \in Quiet \cup {Off}
        BY <1>2 DEF Job, SeverityJob, QuietJob, MuteJob
    <2>. QED
        BY <1>2, <2>1, <2>2 DEF WithQuiet, Pref, Setting
<1>3. CASE j.set = "muted"
    <2>1. Changed(p, j) = Toggled(p, j.to)
        BY <1>3, Zenon DEF Changed
    <2>2. j.to \in Cluster
        BY <1>3 DEF Job, SeverityJob, QuietJob, MuteJob
    <2>. QED
        BY <1>3, <2>1, <2>2 DEF Toggled, Pref, Setting
<1>. QED
    BY <1>1, <1>2, <1>3 DEF Setting

LEMMA PreferencesInitInv == PreferencesInit => PreferencesInv
<1>. SUFFICES ASSUME PreferencesInit PROVE PreferencesInv
    OBVIOUS
<1>1. LimiterInv
    BY LimiterInitInv DEF PreferencesInit
<1>2. \A c \in Cluster : [Default EXCEPT !.muted = {c}] \in Pref
    BY DEF Default, Pref, Severity
<1>3. row \in [User -> Pref \cup {NoRow}]
    BY <1>2 DEF PreferencesInit
<1>4. SettingsOK
    BY <1>3, SettingsParts DEF PreferencesInit, SettingsOK, HoldsOthers
<1>. QED
    BY <1>1, <1>4 DEF PreferencesInv

\* The limiter goes on by itself.
LEMMA LimiterStep ==
    ASSUME PreferencesInv, [PreferencesNext]_preferences PROVE LimiterInv'
<1>1. LimiterInv
    BY DEF PreferencesInv
<1>2. CASE UNCHANGED limiter
    BY <1>1, <1>2 DEF limiter, LimiterInv, LimiterTypeOK, LimitExact, Valid
<1>3. CASE \E u \in User : Allow(u) \/ Refuse(u)
    BY <1>1, <1>3, AllowInv, RefuseInv
<1>4. CASE LimiterTick
    BY <1>1, <1>4, TickInv
<1>5. CASE LimiterRestart
    BY <1>5, LimiterRestartInv
<1>. QED
    BY <1>2, <1>3, <1>4, <1>5
       DEF PreferencesNext, preferences, Tap, Read, Upsert, Other, Slow, PreferencesTick, Restart

\* What a step does to the row of a user.
RowsMove ==
    \A u \in User : row'[u] # row[u] =>
        \E h \in Handler :
            /\ at[h] = "write"
            /\ owner[h] = u
            /\ h \in current =>
                   \A s \in Setting \ {job[h].set} : Settings(row'[u])[s] = Settings(row[u])[s]

LEMMA TapKept ==
    ASSUME SettingsOK, NEW h \in Handler, NEW u \in User, NEW j \in Job, Tap(h, u, j)
    PROVE  SettingsOK' /\ RowsMove
<1>1. j.set \in Setting
    BY DEF Tap, Job, SeverityJob, QuietJob, MuteJob, Setting
<1>2. h \notin current
    BY DEF SettingsOK, HoldsOthers, Tap
<1>3. /\ at' = [at EXCEPT ![h] = "read"] /\ owner' = [owner EXCEPT ![h] = u]
      /\ job' = [job EXCEPT ![h] = j] /\ row' = row /\ pref' = pref /\ current' = current
    BY DEF Tap
<1>4. /\ at' \in [Handler -> {"idle", "read", "write"}] /\ owner' \in [Handler -> User]
      /\ job' \in [Handler -> Job]
    BY <1>3 DEF SettingsOK
<1>5. HoldsOthers'
    BY <1>1, <1>2, <1>3 DEF SettingsOK, HoldsOthers
<1>. QED
    BY <1>3, <1>4, <1>5 DEF SettingsOK, RowsMove

LEMMA ReadKept ==
    ASSUME SettingsOK, NEW h \in Handler, Read(h) PROVE SettingsOK' /\ RowsMove
<1>1. job[h].set \in Setting /\ job[h] \in Job /\ row[owner[h]] \in Pref \cup {NoRow}
    BY DEF SettingsOK, HoldsOthers, Read
<1>. DEFINE mine == Settings(row[owner[h]])
<1>2. mine \in Pref
    BY <1>1, SettingsParts
<1>3. /\ Changed(mine, job[h]) \in Pref
      /\ \A s \in Setting \ {job[h].set} : Changed(mine, job[h])[s] = mine[s]
    BY <1>1, <1>2, ChangesOne
<1>4. Changed(Default, job[h]) \in Pref
    BY <1>1, SettingsParts, ChangesOne
<1>5. /\ at' = [at EXCEPT ![h] = "write"] /\ row' = row /\ owner' = owner /\ job' = job
      /\ \/ pref' = [pref EXCEPT ![h] = Changed(mine, job[h])] /\ current' = current \cup {h}
         \/ pref' = [pref EXCEPT ![h] = Changed(Default, job[h])] /\ current' = current \ {h}
    BY DEF Read
<1>6. pref' \in [Handler -> Pref] /\ at' \in [Handler -> {"idle", "read", "write"}]
    BY <1>3, <1>4, <1>5 DEF SettingsOK
<1>7. HoldsOthers'
    BY <1>1, <1>3, <1>5 DEF SettingsOK, HoldsOthers
<1>. QED
    BY <1>5, <1>6, <1>7 DEF SettingsOK, RowsMove

LEMMA UpsertKept ==
    ASSUME SettingsOK, NEW h \in Handler, Upsert(h) PROVE SettingsOK' /\ RowsMove
<1>1. /\ at[h] = "write" /\ owner[h] \in User /\ pref[h] \in Pref
      /\ h \in current =>
             \A s \in Setting \ {job[h].set} : pref[h][s] = Settings(row[owner[h]])[s]
    BY DEF SettingsOK, HoldsOthers, Upsert
<1>. DEFINE someone == CHOOSE u \in User : TRUE
<1>2. /\ at' = [at EXCEPT ![h] = "idle"] /\ owner' = [owner EXCEPT ![h] = someone]
      /\ job' = [job EXCEPT ![h] = NoJob] /\ pref' = [pref EXCEPT ![h] = Default]
    BY DEF Upsert, Ends
<1>3. NoJob \in Job /\ Default \in Pref /\ someone \in User
    BY SettingsParts
<1>. HIDE DEF someone
<1>4. /\ at' \in [Handler -> {"idle", "read", "write"}] /\ owner' \in [Handler -> User]
      /\ job' \in [Handler -> Job] /\ pref' \in [Handler -> Pref]
    BY <1>2, <1>3 DEF SettingsOK
<1>5. CASE Store(h) /\ current' = {g \in current \ {h} : owner[g] # owner[h]}
    <2>1. row' = [row EXCEPT ![owner[h]] = pref[h]]
        BY <1>5 DEF Store
    <2>2. row' \in [User -> Pref \cup {NoRow}]
        BY <1>1, <2>1 DEF SettingsOK
    <2>3. HoldsOthers'
        BY <1>2, <1>5, <2>1 DEF SettingsOK, HoldsOthers
    <2>4. RowsMove
        <3>1. ASSUME NEW u \in User, row'[u] # row[u]
              PROVE  u = owner[h] /\ row'[u] = pref[h] /\ Settings(row'[u]) = row'[u]
            <4>1. u = owner[h] /\ row'[u] = pref[h]
                BY <1>1, <2>1, <3>1 DEF SettingsOK
            <4>. QED
                BY <1>1, <4>1, PreferencesAssumption DEF Settings
        <3>. QED
            BY <1>1, <3>1 DEF RowsMove
    <2>. QED
        BY <1>4, <1>5, <2>2, <2>3, <2>4 DEF SettingsOK
<1>6. CASE UNCHANGED row /\ current' = current \ {h}
    <2>1. HoldsOthers'
        BY <1>2, <1>6 DEF SettingsOK, HoldsOthers
    <2>. QED
        BY <1>4, <1>6, <2>1 DEF SettingsOK, RowsMove
<1>. QED
    BY <1>5, <1>6 DEF Upsert

LEMMA PreferencesStep ==
    ASSUME PreferencesInv, [PreferencesNext]_preferences PROVE PreferencesInv' /\ RowsMove
<1>1. SettingsOK
    BY DEF PreferencesInv
<1>2. SettingsOK' /\ RowsMove
    <2>1. CASE UNCHANGED <<row, local, current>>
        BY <1>1, <2>1 DEF SettingsOK, HoldsOthers, RowsMove, local
    <2>2. CASE Restart
        <3>1. HoldsOthers'
            BY <2>2 DEF Restart, HoldsOthers
        <3>. QED
            BY <1>1, <2>2, <3>1, SettingsParts DEF Restart, SettingsOK, RowsMove
    <2>. QED
        BY <1>1, <2>1, <2>2, TapKept, ReadKept, UpsertKept
           DEF PreferencesNext, preferences, Other, Slow, PreferencesTick
<1>. QED
    BY <1>2, LimiterStep DEF PreferencesInv

\* The inductive invariant of the limiter and of the settings: the window holds
\* what has passed within it, and whoever read the row last holds the others of
\* its settings (allow, handleSeverityConfirm and its like).
THEOREM PreferencesInvariant == PreferencesSpec => []PreferencesInv
<1>1. PreferencesInit => PreferencesInv
    BY PreferencesInitInv
<1>2. PreferencesInv /\ [PreferencesNext]_preferences => PreferencesInv'
    BY PreferencesStep
<1>. QED
    BY <1>1, <1>2, PTL DEF PreferencesSpec

\* The limiter, the rows and the goroutines have values of their types, and the
\* limiter never remembers more than Limit updates of a user.
THEOREM PreferencesTypeCorrect == PreferencesSpec => []PreferencesTypeOK
<1>1. PreferencesInv => PreferencesTypeOK
    BY DEF PreferencesInv, LimiterInv, SettingsOK, PreferencesTypeOK
<1>. QED
    BY <1>1, PreferencesInvariant, PTL

\* An update passes exactly if fewer than Limit of its user have passed within
\* the window before it, for every limit and every window (allow).
THEOREM LimitIsExact == PreferencesSpec => []LimitExact
<1>1. PreferencesInv => LimitExact
    BY DEF PreferencesInv, LimiterInv
<1>. QED
    BY <1>1, PreferencesInvariant, PTL

\* A tap changes one setting of a row and keeps the others, unless the row could
\* not be read or has been written since, whatever the order of the goroutines
\* (handleSeverityConfirm and its like).
THEOREM OthersAreKept == PreferencesSpec => OthersKept
<1>1. PreferencesInv /\ [PreferencesNext]_preferences =>
          [\A u \in User : row'[u] # row[u] =>
              \E h \in Handler :
                  /\ at[h] = "write"
                  /\ owner[h] = u
                  /\ h \in current =>
                         \A s \in Setting \ {job[h].set} :
                             Settings(row'[u])[s] = Settings(row[u])[s]]_preferences
    BY PreferencesStep DEF RowsMove
<1>. QED
    BY <1>1, PreferencesInvariant, PTL DEF PreferencesSpec, OthersKept

-----------------------------------------------------------------------------
(* What the settings mean.                                                 *)

LEMMA Wraps ==
    ASSUME NEW d \in Nat \ {0}, NEW a \in 0..(2 * d - 1)
    PROVE  a % d = IF a < d THEN a ELSE a - d
OBVIOUS

\* Counting the hours on from the start, the hour is met before the end.
Within(now, start, end, day) ==
    \E k \in Hour :
        /\ now = (start + k) % day
        /\ \A i \in 0..k : (start + i) % day # end

\* The two comparisons of isInQuietHours find it out, across midnight or not.
LEMMA QuietHours ==
    ASSUME NEW day \in Nat \ {0}, Hour = 0..(day - 1),
           NEW now \in Hour, NEW start \in Hour, NEW end \in Hour
    PROVE  isInQuietHours(now, start, end) <=> Within(now, start, end, day)
<1>. DEFINE hour(i) == IF start + i < day THEN start + i ELSE start + i - day
<1>1. \A i \in Hour : (start + i) % day = hour(i)
    <2>. SUFFICES ASSUME NEW i \in Hour PROVE (start + i) % day = hour(i)
        OBVIOUS
    <2>1. PICK a \in 0..(2 * day - 1) : a = start + i
        OBVIOUS
    <2>2. a % day = IF a < day THEN a ELSE a - day
        BY Wraps
    <2>3. (start + i) % day = a % day
        BY <2>1
    <2>. QED
        BY <2>1, <2>2, <2>3
<1>2. \A k \in Hour : 0..k \subseteq Hour
    OBVIOUS
<1>3. Within(now, start, end, day) <=>
          \E k \in Hour : now = hour(k) /\ \A i \in 0..k : hour(i) # end
    BY ZenonT(60), <1>1, <1>2 DEF Within
<1>4. ASSUME isInQuietHours(now, start, end)
      PROVE  \E k \in Hour : now = hour(k) /\ \A i \in 0..k : hour(i) # end
    <2>1. CASE now >= start
        <3>1. now - start \in Hour /\ now = hour(now - start)
            BY <2>1
        <3>2. \A i \in 0..(now - start) : hour(i) # end
            BY <1>4, <2>1 DEF isInQuietHours
        <3>. QED
            BY <3>1, <3>2
    <2>2. CASE now < start
        <3>1. end < start /\ now < end
            BY <1>4, <2>2 DEF isInQuietHours
        <3>2. now - start + day \in Hour /\ now = hour(now - start + day)
            BY <2>2
        <3>3. \A i \in 0..(now - start + day) : hour(i) # end
            BY <2>2, <3>1
        <3>. QED
            BY <3>2, <3>3
    <2>. QED
        BY <2>1, <2>2
<1>5. ASSUME NEW k \in Hour, now = hour(k), \A i \in 0..k : hour(i) # end
      PROVE  isInQuietHours(now, start, end)
    <2>1. CASE end >= start
        <3>1. end - start \in Hour /\ hour(end - start) = end
            BY <2>1
        <3>2. k < end - start
            BY <1>5, <3>1
        <3>. QED
            BY <1>5, <2>1, <3>2 DEF isInQuietHours
    <2>2. CASE end < start
        <3>1. end - start + day \in Hour /\ hour(end - start + day) = end
            BY <2>2
        <3>2. k < end - start + day
            BY <1>5, <3>1
        <3>. QED
            BY <1>5, <2>2, <3>2 DEF isInQuietHours
    <2>. QED
        BY <2>1, <2>2
<1>. QED
    BY <1>3, <1>4, <1>5

LEMMA Levels ==
    ASSUME NEW s \in Severity
    PROVE  severityLevel(s) =
               [r \in Severity |->
                   CASE r = "info" -> 1 [] r = "warning" -> 2 [] r = "critical" -> 3][s]
<1>1. CASE s = "info"
    BY <1>1, Zenon DEF severityLevel, Severity
<1>2. CASE s = "warning"
    BY <1>2, Zenon DEF severityLevel, Severity
<1>3. CASE s = "critical"
    BY <1>3, Zenon DEF severityLevel, Severity
<1>. QED
    BY <1>1, <1>2, <1>3 DEF Severity

LEMMA AlertsAsSet == ASSUME PreferencesTypeOK PROVE AlertsMeant
<1>. SUFFICES ASSUME NEW u \in User, NEW now \in Hour, NEW severity \in Severity,
                     NEW cluster \in Cluster
     PROVE  LET p == Settings(row[u])
                day == Cardinality(Hour)
                hush == p.quiet # Off /\ \E k \in Hour :
                             /\ now = (p.quiet[1] + k) % day
                             /\ \A i \in 0..k : (p.quiet[1] + i) % day # p.quiet[2]
                rank == [s \in Severity |->
                            CASE s = "info" -> 1 [] s = "warning" -> 2 [] s = "critical" -> 3]
            IN  ShouldNotify(p, severity, cluster, now) <=>
                    /\ cluster \notin p.muted
                    /\ rank[severity] >= rank[p.severity]
                    /\ (hush => severity = "critical")
    BY DEF AlertsMeant
<1>. DEFINE p == Settings(row[u])
            day == Cardinality(Hour)
            rank == [s \in Severity |->
                        CASE s = "info" -> 1 [] s = "warning" -> 2 [] s = "critical" -> 3]
<1>1. p.severity \in Severity /\ p.quiet \in Quiet \cup {Off}
    <2>1. p \in Pref
        BY SettingsParts DEF PreferencesTypeOK
    <2>. HIDE DEF p
    <2>. QED
        BY <2>1, SettingsParts
<1>2. severityLevel(severity) = rank[severity] /\ severityLevel(p.severity) = rank[p.severity]
    BY <1>1, Levels
<1>3. day \in Nat \ {0} /\ Hour = 0..(day - 1)
    BY PreferencesAssumption, FS_CardinalityType
<1>. HIDE DEF p, day, rank
<1>4. p.quiet # Off =>
          (isInQuietHours(now, p.quiet[1], p.quiet[2])
               <=> Within(now, p.quiet[1], p.quiet[2], day))
    <2>1. p.quiet # Off => p.quiet[1] \in Hour /\ p.quiet[2] \in Hour
        BY <1>1, PreferencesAssumption
    <2>. QED
        BY <1>3, <2>1, QuietHours
<1>5. ShouldNotify(p, severity, cluster, now) <=>
          /\ cluster \notin p.muted
          /\ rank[severity] >= rank[p.severity]
          /\ (p.quiet # Off /\ Within(now, p.quiet[1], p.quiet[2], day) => severity = "critical")
    BY <1>2, <1>4 DEF ShouldNotify
<1>. QED
    BY <1>5 DEF Within, p, day, rank

\* ShouldNotify answers what the settings say, for every length of the day and
\* every start and end of the quiet hours (isInQuietHours).
THEOREM ShouldNotifyDecides == PreferencesSpec => []AlertsMeant
<1>1. PreferencesTypeOK => AlertsMeant
    BY AlertsAsSet
<1>. QED
    BY <1>1, PreferencesTypeCorrect, PTL
=============================================================================
