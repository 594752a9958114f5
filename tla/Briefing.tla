------------------------------ MODULE Briefing ------------------------------
(***************************************************************************)
(* The scheduler of the daily briefing (internal/module/briefing): started *)
(* by the leader, it looks at the clock once a minute and, in the minute   *)
(* of the schedule, generates a report and sends it.                       *)
(*                                                                         *)
(* Time passes in units, two to the minute; a day is short.  The ticks of  *)
(* a ticker are a minute apart, but one may fire a unit late; the channel  *)
(* holds one tick, with its time, and while it is full others are dropped. *)
(* A scheduler that is stopped while it generates goes on to the end.      *)
(* Who leads is left to module Leadership.                                 *)
(* What a report says is left out, and so is to whom it goes.              *)
(***************************************************************************)
EXTENDS Integers, Functions

CONSTANTS
    Process,    \* the processes that may lead
    Scheduler,  \* scheduler goroutines of all processes, one after the other
    Day,        \* units of a day
    At,         \* the minute of the schedule, as its first unit
    MaxBusy     \* bound on the units that it takes to generate and send a report

Minute == 2

None == "none"
NoTick == -1

\* A late report and another one after it, for the tick that waited, are done
\* before the next day's.
ASSUME BriefingAssumption ==
    /\ Day \in Nat /\ At \in 0..(Day - Minute)
    /\ MaxBusy \in Nat \ {0} /\ 2 * MaxBusy < Day - 1
    /\ None \notin Scheduler

VARIABLES
    now,        \* the time of day
    scheduler,  \* running: scheduler[p] is p's current scheduler, or None
    sched,      \* the schedulers whose goroutine has not ended
    started,    \* history: how many briefings the minute of this day got
    slow,       \* history: one of them took more than two minutes
    shared      \* history: two processes had a scheduler at the same time

briefing == <<now, scheduler, sched, started, slow, shared>>

\* The processes that have a scheduler.
Leading == {p \in Process : scheduler[p] # None}

\* Long ago, for lastRun.
Never == 2 * Minute + 1 + MaxBusy

\* A scheduler: its process, whether it was stopped, the units to its next tick
\* (below 0 if that is late), the tick in its channel, how long ago it last
\* ran, and whether it is at a report.
Fresh(p) ==
    [proc |-> p, stopped |-> FALSE, due |-> Minute, chan |-> NoTick, last |-> Never, busy |-> FALSE]

\* What becomes of one that is stopped, whose tick fires, that takes a tick and
\* runs or does not, that has run, and for which a unit passes.
Stopped(r, stop) == [r EXCEPT !.stopped = @ \/ stop]
Ticked(r) == [r EXCEPT !.due = @ + Minute, !.chan = IF @ = NoTick THEN now ELSE @]
Running(r) == [r EXCEPT !.chan = NoTick, !.last = 0, !.busy = TRUE]
Skipping(r) == [r EXCEPT !.chan = NoTick]
Done(r) == [r EXCEPT !.busy = FALSE]
Later(r) == [r EXCEPT !.due = @ - 1, !.last = IF @ < Never THEN @ + 1 ELSE @]

Live == DOMAIN sched
Waiting(s) == s \in Live /\ ~sched[s].busy
-----------------------------------------------------------------------------
\* StartScheduler, of a scheduler that has not run.  The leader before may be
\* giving its lease back and have its own still.
StartScheduler(p) ==
    /\ scheduler[p] = None
    /\ \E s \in Scheduler \ Live :
          /\ scheduler' = [scheduler EXCEPT ![p] = s]
          /\ sched' = [t \in Live \cup {s} |-> IF t = s THEN Fresh(p) ELSE sched[t]]
    /\ shared' = (shared \/ Leading # {})
    /\ UNCHANGED <<now, started, slow>>

\* StopScheduler.
StopScheduler(p) ==
    /\ scheduler[p] # None
    /\ scheduler' = [scheduler EXCEPT ![p] = None]
    /\ sched' = [s \in Live |-> Stopped(sched[s], s = scheduler[p])]
    /\ UNCHANGED <<now, started, slow, shared>>

\* The loop of run ends.
Leave(s) ==
    /\ Waiting(s)
    /\ sched[s].stopped
    /\ sched' = Restrict(sched, Live \ {s})
    /\ UNCHANGED <<now, scheduler, started, slow, shared>>

\* A tick fires, on time or late.
Fire(s) ==
    /\ s \in Live
    /\ sched[s].due <= 0
    /\ sched' = [sched EXCEPT ![s] = Ticked(@)]
    /\ UNCHANGED <<now, scheduler, started, slow, shared>>

Scheduled(t) == t \in At..(At + Minute - 1)

\* Faulty: the last run is not looked at.
Faulty_MayRun(s) == TRUE

\* "Don't run more than once per minute window."
MayRun(s) == sched[s].last > 2 * Minute

\* The loop of run takes a tick; a stopped one may find the tick before it
\* finds that it was stopped.
Receive(s) ==
    /\ Waiting(s)
    /\ sched[s].chan # NoTick
    /\ IF Scheduled(sched[s].chan) /\ MayRun(s)
       THEN /\ sched' = [sched EXCEPT ![s] = Running(@)]
            /\ started' = started + 1
       ELSE /\ sched' = [sched EXCEPT ![s] = Skipping(@)]
            /\ UNCHANGED started
    /\ UNCHANGED <<now, scheduler, slow, shared>>

\* executeBriefing has generated the report and sent it.
Briefed(s) ==
    /\ s \in Live
    /\ sched[s].busy
    /\ sched' = [sched EXCEPT ![s] = Done(@)]
    /\ UNCHANGED <<now, scheduler, started, slow, shared>>

\* A unit passes.  No tick is more than a unit late, and a scheduler that waits
\* takes its tick at once.
Pass ==
    /\ \A s \in Live :
          /\ sched[s].due >= 0
          /\ Waiting(s) => sched[s].chan = NoTick /\ ~sched[s].stopped
          /\ sched[s].busy => sched[s].last < MaxBusy
    /\ now' = (now + 1) % Day
    /\ sched' = [s \in Live |-> Later(sched[s])]
    /\ started' = IF now' = At THEN 0 ELSE started
    /\ slow' = IF now' = At THEN FALSE
               ELSE slow \/ \E s \in Live : sched'[s].busy /\ sched'[s].last > 2 * Minute
    /\ shared' = IF now' = At THEN \E p, q \in Leading : p # q ELSE shared
    /\ UNCHANGED scheduler

\* The process of the schedulers dies.
Dies(p) ==
    /\ scheduler' = [scheduler EXCEPT ![p] = None]
    /\ sched' = Restrict(sched, {s \in Live : sched[s].proc # p})
    /\ UNCHANGED <<now, started, slow, shared>>

BriefingInit ==
    /\ now = 0
    /\ scheduler = [p \in Process |-> None]
    /\ sched = [s \in {} |-> Fresh(s)]
    /\ started = 0
    /\ slow = FALSE
    /\ shared = FALSE

Scheduling ==
    \/ \E s \in Scheduler : Leave(s) \/ Fire(s) \/ Receive(s) \/ Briefed(s)
    \/ Pass
    \/ \E p \in Process : StartScheduler(p) \/ StopScheduler(p) \/ Dies(p)

BriefingSpec == BriefingInit /\ [][Scheduling]_briefing
-----------------------------------------------------------------------------
\* A day has one briefing at most, through late and dropped ticks, a leader
\* that stops or dies and another that starts in the minute of the schedule,
\* and the same one elected again.  It may have two if the report takes over two
\* minutes, when a second tick of the minute waits in the channel until the
\* guard lets it pass, or if two processes had a scheduler since that minute,
\* each with a guard of its own (StartScheduler, run).
BriefedOnce == started <= 1 \/ slow \/ shared
=============================================================================
