---------------------------- MODULE AuditLogger ----------------------------
(***************************************************************************)
(* The buffered audit logger (internal/audit).                             *)
(*                                                                         *)
(* Handlers, watchers and the audit middleware log from goroutines of      *)
(* their own into a bounded channel that never blocks them.  One worker    *)
(* collects entries into a batch and writes the batch to audit_log when it *)
(* is full or when the ticker fires.  At shutdown the application closes   *)
(* the logger, while goroutines that nobody waits for may still log.       *)
(***************************************************************************)
EXTENDS Integers, Sequences, Functions

CONSTANTS
    MaxEntries, \* bound on the calls of Log
    Capacity,   \* defaultBufferSize
    BatchSize   \* flushBatchSize

ASSUME AuditAssumption ==
    /\ MaxEntries \in Nat
    /\ Capacity \in Nat \ {0}
    /\ BatchSize \in Nat \ {0}

VARIABLES
    buffer,     \* the channel auditLogger.entries
    batch,      \* what the worker has collected and not yet tried to write
    worker,     \* where the worker stands
    closer,     \* where the goroutine that calls Close stands
    written,    \* the entries handed to AuditRepository.Create, in order
    failed,     \* those whose Create returned an error
    logged,     \* history: the number of calls of Log
    accepted,   \* history: those that the channel took, in order
    mark        \* history: how many it had taken when Close began

vars == <<buffer, batch, worker, closer, written, failed, logged, accepted, mark>>

\* Entries carry a ULID; here they are numbered in the order they are logged.
Entry == 1..MaxEntries

Done == closer # "open"
-----------------------------------------------------------------------------
Init ==
    /\ buffer = <<>>
    /\ batch = <<>>
    /\ worker = "collect"
    /\ closer = "open"
    /\ written = <<>>
    /\ failed = {}
    /\ logged = 0
    /\ accepted = <<>>
    /\ mark = 0

\* Faulty: one entry more than the channel holds is taken.
Faulty_Log ==
    /\ logged < MaxEntries
    /\ logged' = logged + 1
    /\ IF Len(buffer) <= Capacity
       THEN /\ buffer' = Append(buffer, logged')
            /\ accepted' = Append(accepted, logged')
       ELSE UNCHANGED <<buffer, accepted>>
    /\ UNCHANGED <<batch, worker, closer, written, failed, mark>>

\* Log never blocks: the entry goes into the channel or, when that is full,
\* is dropped.
Log ==
    /\ logged < MaxEntries
    /\ logged' = logged + 1
    /\ IF Len(buffer) < Capacity
       THEN /\ buffer' = Append(buffer, logged')
            /\ accepted' = Append(accepted, logged')
       ELSE UNCHANGED <<buffer, accepted>>
    /\ UNCHANGED <<batch, worker, closer, written, failed, mark>>

\* The database takes entry e, or Create fails: an error, or the five seconds
\* of the batch are over.
Create(e) ==
    /\ written' = Append(written, e)
    /\ failed' \in {failed, failed \cup {e}}

-----------------------------------------------------------------------------
(* The worker.                                                             *)

\* Faulty: the batch is written one entry late.
Faulty_Collect ==
    /\ worker = "collect"
    /\ buffer # <<>>
    /\ batch' = Append(batch, Head(buffer))
    /\ buffer' = Tail(buffer)
    /\ worker' = IF Len(batch') > BatchSize THEN "write" ELSE "collect"
    /\ UNCHANGED <<closer, written, failed, logged, accepted, mark>>

\* It takes an entry; a full batch is written at once.
Collect ==
    /\ worker = "collect"
    /\ buffer # <<>>
    /\ batch' = Append(batch, Head(buffer))
    /\ buffer' = Tail(buffer)
    /\ worker' = IF Len(batch') >= BatchSize THEN "write" ELSE "collect"
    /\ UNCHANGED <<closer, written, failed, logged, accepted, mark>>

\* Faulty: the ticker writes full batches only.
Faulty_FlushTick ==
    /\ worker = "collect"
    /\ Len(batch) >= BatchSize
    /\ worker' = "write"
    /\ UNCHANGED <<buffer, batch, closer, written, failed, logged, accepted, mark>>

\* The ticker fires with something collected.
FlushTick ==
    /\ worker = "collect"
    /\ batch # <<>>
    /\ worker' = "write"
    /\ UNCHANGED <<buffer, batch, closer, written, failed, logged, accepted, mark>>

\* writeBatch tries one entry after the other and passes over the failures.
WriteEntry ==
    /\ worker \in {"write", "last"}
    /\ Create(Head(batch))
    /\ batch' = Tail(batch)
    /\ worker' = IF Len(batch) > 1 THEN worker
                 ELSE IF worker = "write" THEN "collect" ELSE "exited"
    /\ UNCHANGED <<buffer, closer, logged, accepted, mark>>

\* The worker finds done closed; select may prefer it to a waiting entry.
SeeDone ==
    /\ worker = "collect"
    /\ Done
    /\ worker' = "drain"
    /\ UNCHANGED <<buffer, batch, closer, written, failed, logged, accepted, mark>>

\* It then takes all there is, and goes on taking while others log.
Drain ==
    /\ worker = "drain"
    /\ buffer # <<>>
    /\ batch' = Append(batch, Head(buffer))
    /\ buffer' = Tail(buffer)
    /\ UNCHANGED <<worker, closer, written, failed, logged, accepted, mark>>

\* Faulty: the worker returns without the last write.
Faulty_DrainEnd ==
    /\ worker = "drain"
    /\ buffer = <<>>
    /\ worker' = "exited"
    /\ UNCHANGED <<buffer, batch, closer, written, failed, logged, accepted, mark>>

\* The channel is empty: a last write, and the worker returns.
DrainEnd ==
    /\ worker = "drain"
    /\ buffer = <<>>
    /\ worker' = IF batch = <<>> THEN "exited" ELSE "last"
    /\ UNCHANGED <<buffer, batch, closer, written, failed, logged, accepted, mark>>
-----------------------------------------------------------------------------
(* Close, called once at shutdown.                                         *)

Close ==
    /\ closer = "open"
    /\ closer' = "wait"
    /\ mark' = Len(accepted)
    /\ UNCHANGED <<buffer, batch, worker, written, failed, logged, accepted>>

\* Faulty: the flush does not wait for the worker.
Faulty_Join ==
    /\ closer = "wait"
    /\ closer' = "flush"
    /\ UNCHANGED <<buffer, batch, worker, written, failed, logged, accepted, mark>>

\* wg.Wait returns.
Join ==
    /\ closer = "wait"
    /\ worker = "exited"
    /\ closer' = "flush"
    /\ UNCHANGED <<buffer, batch, worker, written, failed, logged, accepted, mark>>

\* Flush takes what was logged since and writes it, entry by entry, until it
\* finds the channel empty.
FlushEntry ==
    /\ closer = "flush"
    /\ buffer # <<>>
    /\ Create(Head(buffer))
    /\ buffer' = Tail(buffer)
    /\ UNCHANGED <<batch, worker, closer, logged, accepted, mark>>

FlushEnd ==
    /\ closer = "flush"
    /\ buffer = <<>>
    /\ closer' = "closed"
    /\ UNCHANGED <<buffer, batch, worker, written, failed, logged, accepted, mark>>
-----------------------------------------------------------------------------
Work == Collect \/ FlushTick \/ WriteEntry \/ SeeDone \/ Drain \/ DrainEnd

Next ==
    \/ Log
    \/ Work
    \/ Close
    \/ Join \/ FlushEntry \/ FlushEnd

Spec == Init /\ [][Next]_vars

\* The worker's goroutine and its ticker run, and Close, once called, goes on.
FairSpec == Spec /\ WF_vars(Work) /\ WF_vars(Join \/ FlushEntry \/ FlushEnd)
-----------------------------------------------------------------------------
TypeOK ==
    /\ buffer \in Seq(Entry) /\ Len(buffer) <= Capacity
    /\ batch \in Seq(Entry)
    /\ worker \in {"collect", "write", "drain", "last", "exited"}
    /\ closer \in {"open", "wait", "flush", "closed"}
    /\ written \in Seq(Entry)
    /\ failed \subseteq Entry
    /\ logged \in 0..MaxEntries
    /\ accepted \in Seq(Entry)
    /\ mark \in Nat

\* An entry the channel took is, at every moment, waiting or tried exactly
\* once, and entries are tried in the order they were logged: the worker, its
\* last drain and the flush of Close hand the channel over to one another
\* without losing, repeating or overtaking an entry (worker, Flush, Close).
OnceInOrder == accepted = written \o batch \o buffer

\* When Close has returned, every entry taken before it was called has been
\* tried, so the database may be closed; what is left in the channel was
\* logged by goroutines the shutdown does not wait for (Close, App.shutdown).
CloseIsComplete == closer = "closed" => Len(written) >= mark

\* Until shutdown begins no more than a channel and a batch of entries are
\* waiting: what is lost if the process is killed (worker, defaultBufferSize).
BoundedLoss == closer = "open" => Len(accepted) - Len(written) <= Capacity + BatchSize

\* An entry taken while the logger is open is tried in the end, whether it
\* fills a batch, waits for the ticker or is overtaken by Close.
EventuallyTried ==
    \A e \in Entry :
        closer = "open" /\ (e \in Range(accepted))
            ~> e \in Range(written)
=============================================================================
