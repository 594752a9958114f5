----------------------------- MODULE RateLimiter -----------------------------
(***************************************************************************)
(* The sliding window of the RateLimit middleware                          *)
(* (internal/bot/middleware/ratelimit.go): every user may send Limit       *)
(* updates within Window.  The limiter works under a mutex, so a decision  *)
(* is one step.  Time is kept as the ages of updates.                      *)
(***************************************************************************)
EXTENDS Selection, FiniteSets

CONSTANTS
    User,
    Limit,      \* telegram.rate_limit
    Window      \* one minute

ASSUME RateLimiterAssumption == User # {} /\ Limit \in Nat \ {0} /\ Window \in Nat \ {0}

VARIABLES
    requests,   \* requests[u], the ages of the updates the limiter remembers
    passed,     \* history: passed[u], the ages of the updates let through
                \* within the window
    decision    \* history: the last decision

limiter == <<requests, passed, decision>>

\* An age of Window stands for every age above it.
Age == 0..Window

NoDecision == [user |-> CHOOSE u \in User : TRUE, pass |-> TRUE, before |-> 0]

LimiterInit ==
    /\ requests = [u \in User |-> <<>>]
    /\ passed = [u \in User |-> <<>>]
    /\ decision = NoDecision

\* Only the updates that came after the cutoff count.
Valid(times) == Selected(times, 0..(Window - 1))

Decide(u, pass) ==
    /\ decision' = [user |-> u, pass |-> pass, before |-> Len(passed[u])]
    /\ passed' = IF pass THEN [passed EXCEPT ![u] = Append(@, 0)] ELSE passed

\* Faulty: an update that is refused is remembered as well.
Faulty_Refuse(u) ==
    /\ Len(Valid(requests[u])) >= Limit
    /\ requests' = [requests EXCEPT ![u] = Append(Valid(@), 0)]
    /\ Decide(u, FALSE)

\* allow returns false: the update is answered with a notice.
Refuse(u) ==
    /\ Len(Valid(requests[u])) >= Limit
    /\ requests' = [requests EXCEPT ![u] = Valid(@)]
    /\ Decide(u, FALSE)

\* allow returns true: the handler is called.
Allow(u) ==
    /\ Len(Valid(requests[u])) < Limit
    /\ requests' = [requests EXCEPT ![u] = Append(Valid(@), 0)]
    /\ Decide(u, TRUE)

Aged(times) == [i \in DOMAIN times |-> IF times[i] < Window THEN times[i] + 1 ELSE Window]

LimiterTick ==
    /\ requests' = [u \in User |-> Aged(requests[u])]
    /\ passed' = [u \in User |-> Valid(Aged(passed[u]))]
    /\ UNCHANGED decision

\* A new process starts with an empty map.
LimiterRestart ==
    /\ requests' = [u \in User |-> <<>>]
    /\ passed' = [u \in User |-> <<>>]
    /\ decision' = NoDecision
-----------------------------------------------------------------------------
LimiterTypeOK ==
    /\ requests \in [User -> Seq(Age)]
    /\ \A u \in User : Len(requests[u]) <= Limit
    /\ passed \in [User -> Seq(Age)]
    /\ decision \in [user : User, pass : BOOLEAN, before : Nat]

\* An update is let through exactly if fewer than Limit updates of its user
\* were let through within the window before it: what is refused does not
\* count, so that whoever keeps on tapping gets through again, and the limit is
\* met in every window, not only in those that start at a decision (allow).
LimitExact == decision.pass <=> decision.before < Limit
=============================================================================
