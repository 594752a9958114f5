----------------------------- MODULE Preferences -----------------------------
(***************************************************************************)
(* The notification settings of a user (internal/module/notify), behind    *)
(* the rate limiter of the bot.                                            *)
(*                                                                         *)
(* A tap that the limiter lets through is handled by a goroutine of its    *)
(* own, which reads the row of the user, takes the default settings if the *)
(* read fails for any reason, changes one setting and writes the whole row *)
(* back.  Nothing holds the read and the write together.                   *)
(*                                                                         *)
(* Every severity and window of the menus may be chosen.  The menu of      *)
(* clusters offers those that are muted already, so that a first one can   *)
(* only come from outside; the row may hold one at the start.  No handler  *)
(* changes the timezone and the muted alerts.                              *)
(***************************************************************************)
EXTENDS RateLimiter

CONSTANTS
    Handler,    \* goroutines
    Cluster,
    Quiet,      \* the windows on offer, pairs of start and end
    Hour,       \* the hours of a day, 0 to the last one
    Off,        \* no quiet hours
    NoRow

Severity == {"info", "warning", "critical"}

Pref == [severity : Severity, muted : SUBSET Cluster, quiet : Quiet \cup {Off}]

Setting == {"severity", "muted", "quiet"}

\* What a tap asks for: a value for a setting, or a cluster to toggle.
SeverityJob == [set : {"severity"}, to : Severity]
QuietJob == [set : {"quiet"}, to : Quiet \cup {Off}]
MuteJob == [set : {"muted"}, to : Cluster]

Job == SeverityJob \cup QuietJob \cup MuteJob \cup [set : {"other"}, to : {Off}]

ASSUME PreferencesAssumption ==
    /\ IsFiniteSet(Hour)
    /\ Hour = 0..(Cardinality(Hour) - 1)
    /\ Quiet \subseteq Hour \X Hour
    /\ Off \notin Quiet
    /\ NoRow \notin Pref

VARIABLES
    row,        \* row[u], the row of user u, or NoRow
    at,         \* at[h], what goroutine h does next
    owner,      \* owner[h], whose tap it handles
    job,        \* job[h], what the tap asks for
    pref,       \* pref[h], the settings it holds
    current     \* history: goroutines that hold the settings of the row as it is

local == <<at, owner, job, pref>>
preferences == <<limiter, row, local, current>>

\* defaultPref.
Default == [severity |-> "info", muted |-> {}, quiet |-> Off]

\* What the user is shown.
Settings(r) == IF r = NoRow THEN Default ELSE r

NoJob == [set |-> "other", to |-> Off]
-----------------------------------------------------------------------------
PreferencesInit ==
    /\ LimiterInit
    /\ row \in [User -> {NoRow} \cup {[Default EXCEPT !.muted = {c}] : c \in Cluster}]
    /\ at = [h \in Handler |-> "idle"]
    /\ owner = [h \in Handler |-> CHOOSE u \in User : TRUE]
    /\ job = [h \in Handler |-> NoJob]
    /\ pref = [h \in Handler |-> Default]
    /\ current = {}

Ends(h) ==
    /\ at' = [at EXCEPT ![h] = "idle"]
    /\ owner' = [owner EXCEPT ![h] = CHOOSE u \in User : TRUE]
    /\ job' = [job EXCEPT ![h] = NoJob]
    /\ pref' = [pref EXCEPT ![h] = Default]

\* An update that the limiter lets through.  Of the clusters, the menu offers
\* those that were muted when it was drawn; an old menu may offer the others.
Tap(h, u, j) ==
    /\ at[h] = "idle"
    /\ j.set # "other"
    /\ Allow(u)
    /\ at' = [at EXCEPT ![h] = "read"]
    /\ owner' = [owner EXCEPT ![h] = u]
    /\ job' = [job EXCEPT ![h] = j]
    /\ UNCHANGED <<row, pref, current>>

\* Any other update.
Other(u) == Allow(u) /\ UNCHANGED <<row, local, current>>

Slow(u) == Refuse(u) /\ UNCHANGED <<row, local, current>>

\* The one setting that a handler changes: handleSeverityConfirm,
\* handleQuietHoursConfirm and handleQuietHoursClear, handleMuteClusterToggle.
WithSeverity(p, s) == [p EXCEPT !.severity = s]
WithQuiet(p, q) == [p EXCEPT !.quiet = q]
Toggled(p, c) == [p EXCEPT !.muted = IF c \in @ THEN @ \ {c} ELSE @ \cup {c}]

Changed(p, j) ==
    CASE j.set = "severity" -> WithSeverity(p, j.to)
      [] j.set = "quiet" -> WithQuiet(p, j.to)
      [] j.set = "muted" -> Toggled(p, j.to)

\* Faulty: a handler starts from the default settings.
Faulty_Read(h) ==
    /\ at[h] = "read"
    /\ at' = [at EXCEPT ![h] = "write"]
    /\ \/ /\ pref' = [pref EXCEPT ![h] = Changed(Default, job[h])]
          /\ current' = current \cup {h}
       \/ /\ pref' = [pref EXCEPT ![h] = Changed(Default, job[h])]
          /\ current' = current \ {h}
    /\ UNCHANGED <<limiter, row, owner, job>>

\* Get: the row, or the default settings after ErrNotFound or any other error.
Read(h) ==
    /\ at[h] = "read"
    /\ at' = [at EXCEPT ![h] = "write"]
    /\ \/ /\ pref' = [pref EXCEPT ![h] = Changed(Settings(row[owner[h]]), job[h])]
          /\ current' = current \cup {h}
       \/ /\ pref' = [pref EXCEPT ![h] = Changed(Default, job[h])]
          /\ current' = current \ {h}
    /\ UNCHANGED <<limiter, row, owner, job>>

\* Faulty: the quiet hours of the goroutine that wrote last are kept in the
\* wrong column.
Faulty_Store(h) ==
    row' = [row EXCEPT ![owner[h]] = [pref[h] EXCEPT !.severity = pref[h].quiet]]

\* INSERT ... ON CONFLICT DO UPDATE of every column.
Store(h) == row' = [row EXCEPT ![owner[h]] = pref[h]]

\* Upsert, which may fail with or without effect; the answer follows.
Upsert(h) ==
    /\ at[h] = "write"
    /\ \/ /\ Store(h)
          /\ current' = {g \in current \ {h} : owner[g] # owner[h]}
       \/ UNCHANGED row /\ current' = current \ {h}
    /\ Ends(h)
    /\ UNCHANGED limiter

PreferencesTick == LimiterTick /\ UNCHANGED <<row, local, current>>

Restart ==
    /\ LimiterRestart
    /\ at' = [h \in Handler |-> "idle"]
    /\ owner' = [h \in Handler |-> CHOOSE u \in User : TRUE]
    /\ job' = [h \in Handler |-> NoJob]
    /\ pref' = [h \in Handler |-> Default]
    /\ current' = {}
    /\ UNCHANGED row

PreferencesNext ==
    \/ \E h \in Handler :
           \/ \E u \in User, j \in Job : Tap(h, u, j)
           \/ Read(h) \/ Upsert(h)
    \/ \E u \in User : Other(u) \/ Slow(u)
    \/ PreferencesTick
    \/ Restart

PreferencesSpec == PreferencesInit /\ [][PreferencesNext]_preferences
-----------------------------------------------------------------------------
(* What the settings mean: ShouldNotify, which nothing calls.              *)

severityLevel(s) ==
    CASE s = "critical" -> 3 [] s = "warning" -> 2 [] s = "info" -> 1 [] OTHER -> 0

\* Faulty: a window across midnight is taken for one within the day.
Faulty_isInQuietHours(now, start, end) == now >= start /\ now < end

isInQuietHours(now, start, end) ==
    IF start <= end THEN now >= start /\ now < end ELSE now >= start \/ now < end

ShouldNotify(p, severity, cluster, now) ==
    /\ cluster \notin p.muted
    /\ severityLevel(severity) >= severityLevel(p.severity)
    /\ p.quiet # Off /\ severity # "critical" => ~isInQuietHours(now, p.quiet[1], p.quiet[2])
-----------------------------------------------------------------------------
PreferencesTypeOK ==
    /\ LimiterTypeOK
    /\ row \in [User -> Pref \cup {NoRow}]
    /\ at \in [Handler -> {"idle", "read", "write"}]
    /\ owner \in [Handler -> User]
    /\ job \in [Handler -> Job]
    /\ pref \in [Handler -> Pref]
    /\ current \subseteq Handler

\* A tap changes the setting it is about and leaves the others as they are,
\* though every write replaces the whole row: unless the row could not be read,
\* or another goroutine has written it since (handleSeverityConfirm and its
\* like).  Where those two are excepted, settings are lost.
OthersKept ==
    [][\A u \in User : row'[u] # row[u] =>
          \E h \in Handler :
              /\ at[h] = "write"
              /\ owner[h] = u
              /\ h \in current =>
                     \A s \in Setting \ {job[h].set} : Settings(row'[u])[s] = Settings(row[u])[s]]_preferences

\* ShouldNotify answers what the settings say: from the start of the quiet hours
\* up to their end, across midnight or not, yes to critical alerts only.  Nothing
\* asks it yet, so this is what a watcher would be told (isInQuietHours).
AlertsMeant ==
    \A u \in User, now \in Hour, severity \in Severity, cluster \in Cluster :
        LET p == Settings(row[u])
            day == Cardinality(Hour)
            quiet == p.quiet # Off /\ \E k \in Hour :
                        /\ now = (p.quiet[1] + k) % day
                        /\ \A i \in 0..k : (p.quiet[1] + i) % day # p.quiet[2]
            rank == [s \in Severity |-> CASE s = "info" -> 1 [] s = "warning" -> 2 [] s = "critical" -> 3]
        IN  ShouldNotify(p, severity, cluster, now) <=>
                cluster \notin p.muted /\ rank[severity] >= rank[p.severity] /\ (quiet => severity = "critical")
=============================================================================
