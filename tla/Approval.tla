------------------------------ MODULE Approval ------------------------------
(***************************************************************************)
(* The approval workflow (internal/module/approval and the approval        *)
(* repository of internal/storage).                                        *)
(*                                                                         *)
(* Telegram updates are handled by goroutines, one per update, on one or   *)
(* more replicas that share the database.  A handler that gates a          *)
(* dangerous operation creates a request, posts the message with the       *)
(* Approve / Reject / Cancel buttons and then stores the message id.  A    *)
(* handler of a button reads the request, changes its copy and writes the  *)
(* copy back, holding the manager's mutex of its own replica.  The expiry  *)
(* worker updates the table without that mutex.                            *)
(*                                                                         *)
(* One tick of clock is one granule of the stored RFC3339 times.           *)
(***************************************************************************)
EXTENDS Integers, Sequences, FiniteSets

CONSTANTS
    User,       \* Telegram users
    NoUser,
    Req,        \* slots for request ids (a fresh ULID each)
    NoReq,
    Replica,    \* processes
    Handler,    \* goroutines that handle updates
    NoHandler,
    Host,       \* Host[h], the process goroutine h runs in
    Required,   \* the required_approvals values the configured rules carry
    Expiry,     \* Config.DefaultExpiry
    MaxTime     \* bound on the clock

ASSUME ApprovalAssumption ==
    /\ NoUser \notin User
    /\ NoReq \notin Req
    /\ NoHandler \notin Handler
    /\ Host \in [Handler -> Replica]
    /\ Required \subseteq Nat
    /\ Expiry \in Nat
    /\ MaxTime \in Nat

VARIABLES
    clock,
    db,         \* db[r], the row of approval_requests
    posted,     \* requests whose message, with its buttons, is in the chat
    mu,         \* mu[p], the goroutine that holds Manager.mu of process p
    pc,         \* pc[h], what the goroutine does next
    job,        \* job[h], the request it works on
    mem,        \* mem[h], its in-memory copy of the row
    signals     \* signals[r], how many Decide calls returned needsExecution

vars == <<clock, db, posted, mu, pc, job, mem, signals>>

Decision == {"approved", "rejected"}
Resolved == {"approved", "rejected", "expired", "cancelled"}
Status == {"none", "pending"} \cup Resolved

Vote == [user : User, decision : Decision]

Row == [requester : User \cup {NoUser}, status : Status, approvers : Seq(Vote),
        required : Nat, expires : Nat, resolvedBy : User \cup {NoUser},
        message : BOOLEAN]

\* No row with this id.
NoRow == [requester |-> NoUser, status |-> "none", approvers |-> <<>>,
          required |-> 0, expires |-> 0, resolvedBy |-> NoUser, message |-> FALSE]
-----------------------------------------------------------------------------
(* The entity.                                                             *)

Approvals(row) == {i \in DOMAIN row.approvers : row.approvers[i].decision = "approved"}
ApprovalCount(row) == Cardinality(Approvals(row))

HasRejection(row) == \E i \in DOMAIN row.approvers : row.approvers[i].decision = "rejected"

\* Faulty: a second tap adds a second entry.
Faulty_RecordVote(votes, u, d) == Append(votes, [user |-> u, decision |-> d])

\* The caller's earlier decision is replaced (the first entry that matches),
\* otherwise the decision is appended.
RecordVote(votes, u, d) ==
    LET mine == {i \in DOMAIN votes : votes[i].user = u}
    IN  IF mine = {}
        THEN Append(votes, [user |-> u, decision |-> d])
        ELSE LET first == CHOOSE i \in mine : \A j \in mine : i <= j
             IN  [votes EXCEPT ![first] = [user |-> u, decision |-> d]]

\* The row after u's decision d.
Decided(row, u, d) ==
    LET voted == [row EXCEPT !.approvers = RecordVote(row.approvers, u, d)]
    IN  IF d = "rejected" \/ HasRejection(voted)
        THEN [voted EXCEPT !.status = "rejected", !.resolvedBy = u]
        ELSE IF ApprovalCount(voted) >= voted.required
             THEN [voted EXCEPT !.status = "approved", !.resolvedBy = u]
             ELSE voted

Cancelled(row) == [row EXCEPT !.status = "cancelled", !.resolvedBy = row.requester]

\* Faulty: the expiry is taken off the creation time.
Faulty_NewRow(u, n) ==
    [requester |-> u, status |-> "pending", approvers |-> <<>>, required |-> n,
     expires |-> clock - Expiry - 1, resolvedBy |-> NoUser, message |-> FALSE]

NewRow(u, n) ==
    [requester |-> u, status |-> "pending", approvers |-> <<>>, required |-> n,
     expires |-> clock + Expiry, resolvedBy |-> NoUser, message |-> FALSE]
-----------------------------------------------------------------------------
(* The repository.                                                         *)

\* UPDATE ... SET status, approvers, resolved_by, message_id WHERE id: it
\* writes the caller's copy over whatever the row holds.
Written(stored, row) ==
    [stored EXCEPT !.status = row.status, !.approvers = row.approvers,
                   !.resolvedBy = row.resolvedBy, !.message = row.message]

\* The row goes to the database, or the statement fails and its error is
\* reported or dropped.
Update(r, row) ==
    \/ db' = [db EXCEPT ![r] = Written(db[r], row)]
    \/ UNCHANGED db

\* Faulty: the worker expires whatever is past its time, resolved or not.
Faulty_Overdue(row) == row.status # "none" /\ row.expires < clock

\* Faulty: the worker skips requests whose message id was never stored.
Faulty_OverduePosted(row) == row.status = "pending" /\ row.expires < clock /\ row.message

Overdue(row) == row.status = "pending" /\ row.expires < clock
-----------------------------------------------------------------------------
Init ==
    /\ clock = 0
    /\ db = [r \in Req |-> NoRow]
    /\ posted = {}
    /\ mu = [p \in Replica |-> NoHandler]
    /\ pc = [h \in Handler |-> "idle"]
    /\ job = [h \in Handler |-> NoReq]
    /\ mem = [h \in Handler |-> NoRow]
    /\ signals = [r \in Req |-> 0]

\* Goroutine h ends: its copy is gone.
Ends(h) ==
    /\ pc' = [pc EXCEPT ![h] = "idle"]
    /\ job' = [job EXCEPT ![h] = NoReq]
    /\ mem' = [mem EXCEPT ![h] = NoRow]

Faulty_Lock(h) == UNCHANGED mu

Lock(h) ==
    /\ mu[Host[h]] = NoHandler
    /\ mu' = [mu EXCEPT ![Host[h]] = h]

Unlock(h) == mu' = [mu EXCEPT ![Host[h]] = NoHandler]

-----------------------------------------------------------------------------
(* CheckAndSubmit, for an operation that a rule gates.                     *)

\* The row is created.  (A failed INSERT changes nothing here; what the
\* caller then does is in module GitOps.)  The bound keeps the expiry of
\* every request within the modelled time.
Submit(h, u, r, n) ==
    /\ pc[h] = "idle"
    /\ db[r].status = "none"
    /\ clock + Expiry < MaxTime
    /\ db' = [db EXCEPT ![r] = NewRow(u, n)]
    /\ mem' = [mem EXCEPT ![h] = NewRow(u, n)]
    /\ job' = [job EXCEPT ![h] = r]
    /\ pc' = [pc EXCEPT ![h] = "send"]
    /\ UNCHANGED <<clock, posted, mu, signals>>

\* The message with the buttons is sent.  An error may mean that it was not
\* delivered, or that only the answer was lost; either way the handler is done.
Send(h) ==
    /\ pc[h] = "send"
    /\ \/ /\ posted' = posted \cup {job[h]}
          /\ pc' = [pc EXCEPT ![h] = "store"]
          /\ mem' = [mem EXCEPT ![h].message = TRUE]
          /\ UNCHANGED job
       \/ /\ posted' \in {posted, posted \cup {job[h]}}
          /\ Ends(h)
    /\ UNCHANGED <<clock, db, mu, signals>>

\* The message id is stored by writing back the copy made by Submit, without
\* the mutex; an error is ignored.
StoreMessage(h) ==
    /\ pc[h] = "store"
    /\ Update(job[h], mem[h])
    /\ Ends(h)
    /\ UNCHANGED <<clock, posted, mu, signals>>
-----------------------------------------------------------------------------
(* The buttons.                                                            *)

\* Faulty: a decision is accepted whatever the status.
Faulty_Decidable(row, u) == row.expires >= clock /\ u # row.requester

\* Pending, not past its time, and not the requester's own.
Decidable(row, u) ==
    /\ row.status = "pending"
    /\ row.expires >= clock
    /\ u # row.requester

\* Decide takes the mutex, reads the row and works on the copy.  A call that
\* a check refuses releases the mutex with nothing changed, so it takes no step.
Decide(h, u, r, d) ==
    /\ pc[h] = "idle"
    /\ r \in posted
    /\ Lock(h)
    /\ Decidable(db[r], u)
    /\ mem' = [mem EXCEPT ![h] = Decided(db[r], u, d)]
    /\ job' = [job EXCEPT ![h] = r]
    /\ pc' = [pc EXCEPT ![h] = "update"]
    /\ UNCHANGED <<clock, db, posted, signals>>

\* Cancel, by the requester, has no check of the time.
Cancel(h, u, r) ==
    /\ pc[h] = "idle"
    /\ r \in posted
    /\ Lock(h)
    /\ db[r].requester = u
    /\ db[r].status = "pending"
    /\ mem' = [mem EXCEPT ![h] = Cancelled(db[r])]
    /\ job' = [job EXCEPT ![h] = r]
    /\ pc' = [pc EXCEPT ![h] = "update"]
    /\ UNCHANGED <<clock, db, posted, signals>>

\* The end of Decide and Cancel: the copy is written back and the mutex
\* released.  A Decide that approved returns needsExecution = TRUE unless
\* Update reported an error, which it may do of a write that was made.
Finish(h) ==
    /\ pc[h] = "update"
    /\ \/ /\ db' = [db EXCEPT ![job[h]] = Written(db[job[h]], mem[h])]
          /\ mem[h].status = "approved"
          /\ signals' = [signals EXCEPT ![job[h]] = @ + 1]
       \/ /\ Update(job[h], mem[h])
          /\ UNCHANGED signals
    /\ Unlock(h)
    /\ Ends(h)
    /\ UNCHANGED <<clock, posted>>
-----------------------------------------------------------------------------
\* One sweep of the expiry worker, a single statement without the mutex.
ExpireOld ==
    /\ \E r \in Req : Overdue(db[r])
    /\ db' = [r \in Req |-> IF Overdue(db[r]) THEN [db[r] EXCEPT !.status = "expired"]
                                              ELSE db[r]]
    /\ UNCHANGED <<clock, posted, mu, pc, job, mem, signals>>

Tick ==
    /\ clock < MaxTime
    /\ clock' = clock + 1
    /\ UNCHANGED <<db, posted, mu, pc, job, mem, signals>>

\* Process p stops and starts again: its goroutines and its mutex are gone,
\* the database and the messages stay.
Restart(p) ==
    LET here == {h \in Handler : Host[h] = p}
    IN  /\ \E h \in here : pc[h] # "idle"
        /\ pc' = [h \in Handler |-> IF h \in here THEN "idle" ELSE pc[h]]
        /\ job' = [h \in Handler |-> IF h \in here THEN NoReq ELSE job[h]]
        /\ mem' = [h \in Handler |-> IF h \in here THEN NoRow ELSE mem[h]]
        /\ mu' = [mu EXCEPT ![p] = NoHandler]
        /\ UNCHANGED <<clock, db, posted, signals>>

Advance(h) == Send(h) \/ StoreMessage(h) \/ Finish(h)

Next ==
    \/ \E h \in Handler, u \in User, r \in Req :
          \/ \E n \in Required : Submit(h, u, r, n)
          \/ \E d \in Decision : Decide(h, u, r, d)
          \/ Cancel(h, u, r)
    \/ \E h \in Handler : Send(h) \/ StoreMessage(h) \/ Finish(h)
    \/ \E p \in Replica : Restart(p)
    \/ ExpireOld
    \/ Tick

Spec == Init /\ [][Next]_vars

\* The worker's ticker fires every minute for the life of the process, time
\* passes, and a goroutine that has started goes on to its end.
Fairness == /\ WF_vars(ExpireOld)
            /\ WF_vars(Tick)
            /\ \A h \in Handler : WF_vars(Advance(h))

FairSpec == Spec /\ Fairness
-----------------------------------------------------------------------------
TypeOK ==
    /\ clock \in 0..MaxTime
    /\ db \in [Req -> Row]
    /\ posted \subseteq Req
    /\ mu \in [Replica -> Handler \cup {NoHandler}]
    /\ pc \in [Handler -> {"idle", "send", "store", "update"}]
    /\ job \in [Handler -> Req \cup {NoReq}]
    /\ mem \in [Handler -> Row]
    /\ signals \in [Req -> Nat]

\* The users other than the requester whose recorded decision approves.
Backers(row) ==
    {u \in User \ {row.requester} :
        \E i \in DOMAIN row.approvers :
            row.approvers[i] = [user |-> u, decision |-> "approved"]}

\* A row that says "approved" carries at least the required number of
\* different people, none of them the requester, and nobody's rejection,
\* however the decisions, changes of mind, late writes and restarts of
\* several handlers interleave (Manager.Decide, ApprovalRequest.ApprovalCount).
QuorumBacked ==
    \A r \in Req : db[r].status = "approved" =>
        /\ Cardinality(Backers(db[r])) >= db[r].required
        /\ Backers(db[r]) # {}
        /\ ~HasRejection(db[r])

\* Whoever resolved_by names is the person whose action the status shows: an
\* approval or rejection names someone who voted that way, a cancellation the
\* requester, and a pending or expired request names nobody, although the
\* worker rewrites rows that a handler holds a copy of (Decide, Cancel, ExpireOld).
ResolverAccountable ==
    \A r \in Req :
        LET row == db[r] IN
        /\ row.status \in {"pending", "expired"} => row.resolvedBy = NoUser
        /\ row.status = "cancelled" => row.resolvedBy = row.requester
        /\ row.status \in Decision =>
              \E i \in DOMAIN row.approvers :
                 row.approvers[i] = [user |-> row.resolvedBy, decision |-> row.status]

\* With one replica, what people decided stands: an approved, rejected or
\* cancelled row changes its status only when the submitting handler, still
\* on its way to store the message id, writes its old pending copy.  The
\* mutex of Manager is what keeps every other writer out.
DecisionsFinal ==
    [][\A r \in Req :
          /\ db[r].status \in {"approved", "rejected", "cancelled"}
          /\ db'[r].status # db[r].status
          => \E h \in Handler : pc[h] = "store" /\ job[h] = r /\ db'[r].status = "pending"]_vars

\* Every request comes to rest: whatever late writes, lost messages and
\* restarts do, from some time on it is resolved and stays so (StartExpiryWorker).
EventuallyResolved ==
    \A r \in Req : db[r].status # "none" ~> [](db[r].status \in Resolved)

\* A request counts as pending while some handler still holds a copy of it.
Effective ==
    [r \in Req |-> IF \E h \in Handler : pc[h] # "idle" /\ job[h] = r
                   THEN "pending" ELSE db[r].status]

\* The workflow implements the life cycle it promises, once a status is only
\* relied on when no handler still holds an older copy of the request: opened
\* once, then settled once and for good.
Lifecycle == INSTANCE ApprovalLifecycle WITH status <- Effective
ImplementsLifecycle == Lifecycle!Spec

\* Only one call of Decide signals execution for a request.
AtMostOneExecution == \A r \in Req : signals[r] <= 1
=============================================================================
