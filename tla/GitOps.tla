------------------------------- MODULE GitOps -------------------------------
(***************************************************************************)
(* The guarded ArgoCD operations (internal/module/argocd): sync and        *)
(* rollback dialogs, the deployment freeze that should hold them off and   *)
(* the approval that may be required of them.                              *)
(*                                                                         *)
(* A dialog is a Telegram message whose buttons lead from the application  *)
(* to a choice, a confirmation and a result.  Every tap is handled by a    *)
(* goroutine of its own, and a button stays live until the handler, at its *)
(* end, edits the message.  A freeze is read when the first button is      *)
(* tapped, the approval rules when Confirm is.                             *)
(*                                                                         *)
(* Requests for approval are taken as ApprovalLifecycle describes them     *)
(* (module Approval shows that the workflow implements it).                *)
(***************************************************************************)
EXTENDS Integers, FiniteSets

CONSTANTS
    App,        \* applications, each with its message in a chat
    Instance,   \* Instance[a]: the name of the ArgoCD instance of a
    Clusters,   \* Clusters[i]: the clusters that instance i deploys to
    Rules,      \* approval rules: [kind, clusters], "*" for every cluster
    Handler,    \* goroutines
    NoTask,
    Freeze,     \* slots for freezes
    Duration,   \* the durations the freeze dialog offers
    Req,        \* slots for approval requests
    MaxRetries, \* attempts of the HTTP client at one call
    MaxRuns,    \* bound on the executions of one task
    MaxFailures,\* bound on the failed submits of one task
    MaxTime     \* bound on the clock

Kind == {"sync", "rollback"}

\* What a dialog is about.
Task == [app : App, kind : Kind]

AllScopes == {"all"} \cup UNION {Clusters[Instance[a]] : a \in App}

ASSUME GitOpsAssumption ==
    /\ NoTask \notin Task
    /\ IsFiniteSet(Handler)
    /\ Rules \subseteq [kind : Kind, clusters : SUBSET STRING]
    /\ Duration \subseteq Nat \ {0}
    /\ MaxRetries \in Nat \ {0}
    /\ MaxRuns \in Nat
    /\ MaxFailures \in Nat
    /\ MaxTime \in Nat

VARIABLES
    clock,
    freezes,    \* freezes[f], the rows of deployment_freezes
    screen,     \* screen[a], which buttons the message of a shows
    pc,         \* pc[h], what the goroutine does next
    job,        \* job[h], the task it handles
    status,     \* status[r], the approval request r
    subject,    \* subject[r], the task r was submitted for
    runs,       \* runs[t], how often ArgoCD was made to do t
    passed,     \* history: the freezes that existed when t last got past the
                \* freeze check (none of them, if the check could not be read)
    failures    \* history: the executions of t that a failed Submit let through

vars == <<clock, freezes, screen, pc, job, status, subject, runs, passed, failures>>

Lifecycle == INSTANCE ApprovalLifecycle

\* The buttons of a choice and of a confirmation carry the kind of operation.
Screen == ({"detail", "waiting", "blocked", "result"} \X {"none"})
              \cup ({"choice", "confirm"} \X Kind)

\* What a goroutine does next.
Stage == {"idle", "block", "fetch", "ask", "detail", "submit", "wait", "run", "report"}

Plain(s) == <<s, "none">>

Choice(t) == <<"choice", t.kind>>
Confirmation(t) == <<"confirm", t.kind>>

NoFreeze == [scope |-> "nowhere", until |-> 0, thawed |-> FALSE]

Created == {f \in Freeze : freezes[f] # NoFreeze}

\* thawed_at IS NULL AND expires_at > now.
InForce(f) == f \in Created /\ ~freezes[f].thawed /\ freezes[f].until > clock

\* Faulty: only freezes of all clusters are looked for.
Faulty_Visible(a) == {f \in Created : InForce(f) /\ freezes[f].scope = Instance[a]}

\* GetActiveForCluster, called with the name of the instance.
Visible(a) == {f \in Created : InForce(f) /\ freezes[f].scope \in {"all", Instance[a]}}

\* RequiresApproval, called with the name of the instance.
Gated(t) ==
    \E rule \in Rules :
        rule.kind = t.kind /\ {"*", Instance[t.app]} \cap rule.clusters # {}
-----------------------------------------------------------------------------
Init ==
    /\ clock = 0
    /\ freezes = [f \in Freeze |-> NoFreeze]
    /\ screen = [a \in App |-> Plain("detail")]
    /\ pc = [h \in Handler |-> "idle"]
    /\ job = [h \in Handler |-> NoTask]
    /\ Lifecycle!Init
    /\ subject = [r \in Req |-> NoTask]
    /\ runs = [t \in Task |-> 0]
    /\ passed = [t \in Task |-> {}]
    /\ failures = [t \in Task |-> 0]

\* h is at p with task t.
At(h, t, p) == pc[h] = p /\ job[h] = t

Goto(h, t, p) ==
    /\ pc' = [pc EXCEPT ![h] = p]
    /\ job' = [job EXCEPT ![h] = t]

Ends(h) == Goto(h, NoTask, "idle")

\* The message is edited to show s, or Telegram's error is returned.
Edit(t, s) == screen' \in {screen, [screen EXCEPT ![t.app] = s]}

-----------------------------------------------------------------------------
(* The first button: handleSync, handleRollback.                           *)

\* The freeze is read before the diff or the history is fetched.  A freeze in
\* force leads to the blocked text; an error of the read is passed over.
Open(h, t) ==
    /\ pc[h] = "idle"
    /\ screen[t.app] = Plain("detail")
    /\ \/ /\ Visible(t.app) # {}
          /\ Goto(h, t, "block")
          /\ UNCHANGED passed
       \/ /\ Visible(t.app) = {}
          /\ Goto(h, t, "fetch")
          /\ passed' = [passed EXCEPT ![t] = Created]
       \/ /\ Goto(h, t, "fetch")
          /\ passed' = [passed EXCEPT ![t] = {}]
    /\ UNCHANGED <<clock, freezes, screen, status, subject, runs, failures>>

Block(h, t) ==
    /\ At(h, t, "block")
    /\ Edit(t, Plain("blocked"))
    /\ Ends(h)
    /\ UNCHANGED <<clock, freezes, status, subject, runs, passed, failures>>

\* A diff that cannot be fetched is shown empty; a history that cannot be
\* fetched, or is empty, ends a rollback.
Fetch(h, t) ==
    /\ At(h, t, "fetch")
    /\ \/ Edit(t, Choice(t))
       \/ t.kind = "rollback" /\ Edit(t, Plain("result"))
    /\ Ends(h)
    /\ UNCHANGED <<clock, freezes, status, subject, runs, passed, failures>>
-----------------------------------------------------------------------------
(* The choice of a sync mode or a revision, and the way back.              *)

\* initiateSyncConfirm, handleRollbackSelect: nothing is read before the edit.
Choose(h, t) ==
    /\ pc[h] = "idle"
    /\ screen[t.app] = Choice(t)
    /\ Goto(h, t, "ask")
    /\ UNCHANGED <<clock, freezes, screen, status, subject, runs, passed, failures>>

Ask(h, t) ==
    /\ At(h, t, "ask")
    /\ Edit(t, Confirmation(t))
    /\ Ends(h)
    /\ UNCHANGED <<clock, freezes, status, subject, runs, passed, failures>>

\* The screens whose Cancel, or Back to App under a result, leads to the
\* application.  A sync confirmation is not among them: handleAppDetail cuts
\* the callback data in two, the data of that screen has three parts, and
\* ArgoCD is asked for an application named "app|mode".
LeadsBack(t) ==
    {Choice(t), Plain("result")} \cup (IF t.kind = "rollback" THEN {Confirmation(t)} ELSE {})

\* handleSyncCancel, handleRollbackCancel, and Back to App.
Leave(h, t) ==
    /\ pc[h] = "idle"
    /\ screen[t.app] \in LeadsBack(t)
    /\ Goto(h, t, "detail")
    /\ UNCHANGED <<clock, freezes, screen, status, subject, runs, passed, failures>>

\* handleAppDetail asks ArgoCD for the application first.  When it gets no
\* answer the message stays, as it does when it cannot be edited.
Detail(h, t) ==
    /\ At(h, t, "detail")
    /\ Edit(t, Plain("detail"))
    /\ Ends(h)
    /\ UNCHANGED <<clock, freezes, status, subject, runs, passed, failures>>
-----------------------------------------------------------------------------
(* Confirm: handleSyncConfirm, handleRollbackConfirm.                      *)

Confirm(h, t) ==
    /\ pc[h] = "idle"
    /\ screen[t.app] = Confirmation(t)
    /\ Goto(h, t, IF Gated(t) THEN "submit" ELSE "run")
    /\ UNCHANGED <<clock, freezes, screen, status, subject, runs, passed, failures>>

\* Faulty: a request whose message cannot be sent is not taken for one.
Faulty_Submit(h, t) ==
    /\ At(h, t, "submit")
    /\ \E r \in Req :
          /\ status[r] = "none"
          /\ status' = [status EXCEPT ![r] = "pending"]
          /\ subject' = [subject EXCEPT ![r] = t]
    /\ \E p \in {"wait", "run"} : Goto(h, t, p)
    /\ UNCHANGED <<clock, freezes, screen, runs, passed, failures>>

\* Faulty: the handler tells the user to wait although nothing was stored.
Faulty_SubmitError(h, t) ==
    /\ At(h, t, "submit")
    /\ \/ /\ \E r \in Req :
                /\ status[r] = "none"
                /\ status' = [status EXCEPT ![r] = "pending"]
                /\ subject' = [subject EXCEPT ![r] = t]
          /\ Goto(h, t, "wait")
          /\ UNCHANGED failures
       \/ /\ failures[t] < MaxFailures
          /\ failures' = [failures EXCEPT ![t] = @ + 1]
          /\ Goto(h, t, "wait")
          /\ UNCHANGED <<status, subject>>
    /\ UNCHANGED <<clock, freezes, screen, runs, passed>>

\* CheckAndSubmit stores the request; whether its message can be sent does
\* not matter.  When it cannot store the request, the handler logs the error
\* and goes on to execute.
Submit(h, t) ==
    /\ At(h, t, "submit")
    /\ \/ /\ \E r \in Req :
                /\ status[r] = "none"
                /\ status' = [status EXCEPT ![r] = "pending"]
                /\ subject' = [subject EXCEPT ![r] = t]
          /\ Goto(h, t, "wait")
          /\ UNCHANGED failures
       \/ /\ failures[t] < MaxFailures
          /\ failures' = [failures EXCEPT ![t] = @ + 1]
          /\ Goto(h, t, "run")
          /\ UNCHANGED <<status, subject>>
    /\ UNCHANGED <<clock, freezes, screen, runs, passed>>

Wait(h, t) ==
    /\ At(h, t, "wait")
    /\ Edit(t, Plain("waiting"))
    /\ Ends(h)
    /\ UNCHANGED <<clock, freezes, status, subject, runs, passed, failures>>

\* SyncApplication or RollbackApplication.  The client repeats a call whose
\* answer is lost or is a server error, so ArgoCD may act up to MaxRetries
\* times, or not at all.
Run(h, t) ==
    /\ At(h, t, "run")
    /\ \E n \in 0..MaxRetries :
          /\ runs[t] + n <= MaxRuns
          /\ runs' = [runs EXCEPT ![t] = @ + n]
    /\ Goto(h, t, "report")
    /\ UNCHANGED <<clock, freezes, screen, status, subject, passed, failures>>

Report(h, t) ==
    /\ At(h, t, "report")
    /\ Edit(t, Plain("result"))
    /\ Ends(h)
    /\ UNCHANGED <<clock, freezes, status, subject, runs, passed, failures>>
-----------------------------------------------------------------------------
(* The freeze dialog, the approval workflow and the process.               *)

\* Faulty: minutes are taken for hours.
Faulty_FreezeConfirm(f, s, d) ==
    /\ f \notin Created
    /\ clock + d <= MaxTime
    /\ freezes' = [freezes EXCEPT ![f] = [scope |-> s, until |-> clock + 60 * d, thawed |-> FALSE]]
    /\ UNCHANGED <<clock, screen, pc, job, status, subject, runs, passed, failures>>

\* handleFreezeConfirm.
FreezeConfirm(f, s, d) ==
    /\ f \notin Created
    /\ clock + d <= MaxTime
    /\ freezes' = [freezes EXCEPT ![f] = [scope |-> s, until |-> clock + d, thawed |-> FALSE]]
    /\ UNCHANGED <<clock, screen, pc, job, status, subject, runs, passed, failures>>

\* handleFreezeThaw marks the one freeze of its button, expired or not.
Thaw(f) ==
    /\ f \in Created
    /\ ~freezes[f].thawed
    /\ freezes' = [freezes EXCEPT ![f].thawed = TRUE]
    /\ UNCHANGED <<clock, screen, pc, job, status, subject, runs, passed, failures>>

\* The request is decided, cancelled or expires.  Nothing in the workflow
\* calls back into the module that submitted it.
Settle(r, s) ==
    /\ status[r] = "pending"
    /\ Lifecycle!Move(status[r], s)
    /\ status' = [status EXCEPT ![r] = s]
    /\ UNCHANGED <<clock, freezes, screen, pc, job, subject, runs, passed, failures>>

Tick ==
    /\ clock < MaxTime
    /\ clock' = clock + 1
    /\ UNCHANGED <<freezes, screen, pc, job, status, subject, runs, passed, failures>>

\* The process stops and starts again.
Restart ==
    /\ \E h \in Handler : pc[h] # "idle"
    /\ pc' = [h \in Handler |-> "idle"]
    /\ job' = [h \in Handler |-> NoTask]
    /\ UNCHANGED <<clock, freezes, screen, status, subject, runs, passed, failures>>

Tap(h, t) == Open(h, t) \/ Choose(h, t) \/ Leave(h, t) \/ Confirm(h, t)

Advance(h, t) ==
    \/ Block(h, t) \/ Fetch(h, t) \/ Ask(h, t) \/ Detail(h, t)
    \/ Submit(h, t) \/ Wait(h, t) \/ Run(h, t) \/ Report(h, t)

Next ==
    \/ \E h \in Handler, t \in Task : Tap(h, t) \/ Advance(h, t)
    \/ \E f \in Freeze : Thaw(f) \/ \E s \in AllScopes, d \in Duration : FreezeConfirm(f, s, d)
    \/ \E r \in Req, s \in Lifecycle!Resolution : Settle(r, s)
    \/ Tick
    \/ Restart

Spec == Init /\ [][Next]_vars
-----------------------------------------------------------------------------
TypeOK ==
    /\ clock \in 0..MaxTime
    /\ freezes \in [Freeze -> [scope : AllScopes \cup {"nowhere"}, until : 0..MaxTime, thawed : BOOLEAN]]
    /\ screen \in [App -> Screen]
    /\ pc \in [Handler -> Stage]
    /\ job \in [Handler -> Task \cup {NoTask}]
    /\ status \in [Req -> Lifecycle!Status]
    /\ subject \in [Req -> Task \cup {NoTask}]
    /\ runs \in [Task -> 0..MaxRuns]
    /\ passed \in [Task -> SUBSET Freeze]
    /\ failures \in [Task -> 0..MaxFailures]

\* Freeze f is in force for everyone: it covers all clusters.
FreezesAll(f) == InForce(f) /\ freezes[f].scope = "all"

\* A freeze of all clusters holds off every dialog that starts after it: at
\* an execution under such a freeze, the freeze is younger than the check the
\* dialog passed, whatever other handlers of the same message did in between
\* (handleSync, handleRollback, GetActiveForCluster).
FreezeHoldsOffNewDialogs ==
    [][\A t \in Task : runs'[t] # runs[t] => \A f \in passed[t] : ~FreezesAll(f)]_vars

\* A gated operation is executed only for want of a request: not more often
\* than Submit failed and, for each of these, the client tried.  No answer to
\* a request, no second tap and no restart adds an execution (CheckAndSubmit).
GatedRunsOnlyOnFailure ==
    \A t \in Task : Gated(t) => runs[t] <= MaxRetries * failures[t]

\* Who is told to wait waits for something: a request for this very application
\* was stored and is pending or settled (handleSyncConfirm).
WaitingHasRequest ==
    \A a \in App : screen[a] = Plain("waiting") =>
        \E r \in Req, k \in Kind : subject[r] = [app |-> a, kind |-> k] /\ status[r] # "none"
=============================================================================
