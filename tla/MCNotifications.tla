-------------------------- MODULE MCNotifications --------------------------
\* What the bot lets in, keeps and sends unasked, one part at a time: a user who
\* taps on the settings, the briefing schedulers of two processes, or the
\* watchers of one object.  Hours are in steps of an eighth of a day, as 22:00
\* to 08:00 and 00:00 to 06:00 are placed.
EXTENDS Preferences, Briefing, Conditions, TLC

MCQuiet == {<<7, 3>>, <<0, 2>>}

Symmetry == Permutations(Handler)

VARIABLE about

MCInit ==
    /\ about \in {"settings", "briefing", "watchers"}
    /\ PreferencesInit
    /\ about # "settings" => row = [u \in User |-> NoRow]
    /\ BriefingInit
    /\ ConditionsInit
    /\ about # "watchers" => sort = "cert" /\ obj = [days |-> 40]

Tapping == PreferencesNext /\ UNCHANGED <<briefing, conditions>>

Reporting == Scheduling /\ UNCHANGED <<preferences, conditions>>

Alarming == Watching /\ UNCHANGED <<preferences, briefing>>

MCNext ==
    /\ \/ about = "settings" /\ Tapping
       \/ about = "briefing" /\ Reporting
       \/ about = "watchers" /\ Alarming
    /\ UNCHANGED about

MCSpec == MCInit /\ [][MCNext]_<<preferences, briefing, conditions, about>>
=============================================================================
