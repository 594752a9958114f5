------------------------------- MODULE Access -------------------------------
(***************************************************************************)
(* Users and their roles: the Auth middleware, which registers whoever     *)
(* writes to the bot (internal/bot/middleware/auth.go), the admin dialogs  *)
(* that assign and revoke roles (internal/module/rbacmod), and the tables  *)
(* they share (users, roles, user_role_bindings).                          *)
(*                                                                         *)
(* Each update from Telegram is handled by a goroutine of its own, through *)
(* the chain Recovery, Auth, RateLimit, Audit, handler.  Every statement   *)
(* on the database is atomic by itself; nothing holds two of them          *)
(* together.  Any statement may fail, with or without effect.              *)
(***************************************************************************)
EXTENDS Policy, Selection

CONSTANTS
    User,
    AdminID,        \* the users that the configuration makes admins
    DefaultRole,    \* rbac.default_role
    Handler,        \* goroutines
    NoOne,
    Offer,          \* the buttons of the admin dialogs that are tapped
    Rules,          \* Rules[r], the rules of role r if it is in the table
    Request,        \* the requests that Authorize is asked about
    MaxBindings,    \* bound on the rows of user_role_bindings
    MaxTime         \* bound on time

\* The data of a button of the admin dialogs: the target, and the role to assign
\* or to revoke; "reset" takes the flat role back to viewer.  "look" stands for
\* the taps that only show something.
AssignJob == [op : {"assign"}, to : User, role : DOMAIN Rules]
RevokeJob == [op : {"revoke"}, to : User, role : DOMAIN Rules]
                \cup [op : {"reset"}, to : User, role : {"viewer"}]
LookJob == [op : {"look"}, to : User, role : {"viewer"}]

Job == AssignJob \cup RevokeJob \cup LookJob

\* A row of user_role_bindings.
Binding == [user : User, role : DOMAIN Rules, expires : 0..MaxTime \cup {NoExpiry}]

ASSUME AccessAssumption ==
    /\ User # {}
    /\ AdminID \subseteq User
    /\ NoOne \notin User
    /\ DefaultRole \in RoleName
    /\ RoleName \subseteq DOMAIN Rules
    /\ \A r \in DOMAIN Rules : Rules[r] \in Seq(ToSet(Rules[r]))
    /\ Offer \subseteq Job
    /\ \A j \in Offer : j.op = "assign" => j.role \in RoleName
    /\ MaxBindings \in Nat
    /\ MaxTime \in Nat

VARIABLES
    role,       \* role[u], the column role of the row of u, "none" without a row
    renamed,    \* users whose row has another name than Telegram
    bindings,   \* the rows of user_role_bindings, in the order of their insertion
    known,      \* the names in the table roles
    now,
    pc,         \* pc[h], what goroutine h does next
    actor,      \* actor[h], who sent the update it handles
    job,        \* job[h], what the update asks for
    copy,       \* copy[h], the role in the user that Auth holds
    entitled    \* history: goroutines whose actor could manage roles at some
                \* moment since the update came

tables == <<role, renamed, bindings, known>>
local == <<pc, actor, job, copy>>
vars == <<tables, now, local, entitled>>

Stage == {"idle", "auth", "register", "rename", "check", "write", "bind"}

NoJob == [op |-> "look", to |-> CHOOSE u \in User : TRUE, role |-> "viewer"]

HasRow(u) == role[u] # "none"

\* GetRole, when the read succeeds.
FlatRole(u) ==
    IF u \in AdminID THEN "admin" ELSE IF HasRow(u) THEN role[u] ELSE DefaultRole

\* HasPermission, when the read succeeds.
HasPermission(u, perm) == u \in AdminID \/ perm \in BuiltinPerms[FlatRole(u)]

Managers == {u \in User : HasPermission(u, "admin.rbac.manage")}

\* The updates under way of those who can manage roles after this step.
Entitle == entitled' = {h \in Handler : pc'[h] # "idle" /\ (h \in entitled \/ actor'[h] \in Managers')}
-----------------------------------------------------------------------------
Init ==
    /\ role = [u \in User |-> "none"]
    /\ renamed = {}
    /\ bindings = <<>>
    /\ known = {}
    /\ now = 0
    /\ pc = [h \in Handler |-> "idle"]
    /\ actor = [h \in Handler |-> NoOne]
    /\ job = [h \in Handler |-> NoJob]
    /\ copy = [h \in Handler |-> "none"]
    /\ entitled = {}

Goto(h, s) == pc' = [pc EXCEPT ![h] = s] /\ UNCHANGED <<actor, job>>

Ends(h) ==
    /\ pc' = [pc EXCEPT ![h] = "idle"]
    /\ actor' = [actor EXCEPT ![h] = NoOne]
    /\ job' = [job EXCEPT ![h] = NoJob]
    /\ copy' = [copy EXCEPT ![h] = "none"]

\* The rest of the chain: RateLimit, which module RateLimiter has in detail,
\* and the handler, of which nothing is left here if it only shows something.
\* Nobody reads the role in the copy any more.
Onward(h) ==
    \/ /\ job[h].op # "look"
       /\ Goto(h, "check")
       /\ copy' = [copy EXCEPT ![h] = "none"]
    \/ Ends(h)
-----------------------------------------------------------------------------
(* Auth.                                                                   *)

\* An update from u in an allowed chat.  The lists of users in the dialogs
\* hold whoever has a row, and rows stay, so a button is about such a user.
Update(h, u, j) ==
    /\ pc[h] = "idle"
    /\ j.op # "look" => HasRow(j.to)
    /\ pc' = [pc EXCEPT ![h] = "auth"]
    /\ actor' = [actor EXCEPT ![h] = u]
    /\ job' = [job EXCEPT ![h] = j]
    /\ UNCHANGED <<tables, copy, now>>

\* GetByTelegramID.  An error other than ErrNotFound ends the goroutine.
GetUser(h) ==
    /\ pc[h] = "auth"
    /\ LET u == actor[h]
           fresh == IF u \in AdminID THEN "admin" ELSE "viewer"
       IN  \/ /\ ~HasRow(u)
              /\ Goto(h, "register")
              /\ copy' = [copy EXCEPT ![h] = fresh]
           \/ /\ HasRow(u)
              /\ u \in renamed
              /\ Goto(h, "rename")
              /\ copy' = [copy EXCEPT ![h] = role[u]]
           \/ HasRow(u) /\ u \notin renamed /\ Onward(h)
           \/ Ends(h)
    /\ UNCHANGED <<tables, now>>

\* Faulty: a conflict overwrites the role as well.
Faulty_Upsert(h) ==
    /\ role' = [role EXCEPT ![actor[h]] = copy[h]]
    /\ renamed' = renamed \ {actor[h]}

\* INSERT ... ON CONFLICT DO UPDATE of the names.
Upsert(h) ==
    /\ role' = [role EXCEPT ![actor[h]] = IF HasRow(actor[h]) THEN @ ELSE copy[h]]
    /\ renamed' = renamed \ {actor[h]}

Register(h) ==
    /\ pc[h] = "register"
    /\ \/ Upsert(h) /\ (Onward(h) \/ Ends(h))
       \/ UNCHANGED <<role, renamed>> /\ Ends(h)
    /\ UNCHANGED <<bindings, known, now>>

\* Best effort: the goroutine goes on in any case.
Rename(h) ==
    /\ pc[h] = "rename"
    /\ Upsert(h) \/ UNCHANGED <<role, renamed>>
    /\ Onward(h)
    /\ UNCHANGED <<bindings, known, now>>

-----------------------------------------------------------------------------
(* The admin dialogs.                                                      *)

\* Each of their handlers starts by asking HasPermission; an error and a
\* refusal are answered with a notice.
Check(h) ==
    /\ pc[h] = "check"
    /\ IF actor[h] \in Managers THEN (Goto(h, "write") /\ UNCHANGED copy) \/ Ends(h) ELSE Ends(h)
    /\ UNCHANGED <<tables, now>>

\* Faulty: the parts of the button's data are taken the wrong way round.
Faulty_SetRole(h) == role' = [role EXCEPT ![job[h].to] = job[h].to]

\* SetRole.  The row of the target exists; the role is one of ValidRoles.
SetRole(h) == role' = [role EXCEPT ![job[h].to] = job[h].role]

\* handleAssignConfirm, up to the binding.
Assign(h) ==
    /\ pc[h] = "write"
    /\ job[h].op = "assign"
    /\ \/ SetRole(h) /\ ((Goto(h, "bind") /\ UNCHANGED copy) \/ Ends(h))
       \/ UNCHANGED role /\ Ends(h)
    /\ UNCHANGED <<renamed, bindings, known, now>>

\* AssignRole, whose error is passed over.  PostgreSQL refuses a binding to a
\* role that is not in the table; so does the one connection of SQLite that
\* has been told to, while the other connections of its pool take it.
Bind(h) ==
    /\ pc[h] = "bind"
    /\ \/ /\ Len(bindings) < MaxBindings
          /\ bindings' = Append(bindings, [user |-> job[h].to, role |-> job[h].role, expires |-> NoExpiry])
       \/ UNCHANGED bindings
    /\ Ends(h)
    /\ UNCHANGED <<role, renamed, known, now>>

\* handleRevokeConfirm for a binding: DELETE ... WHERE user_id AND role_name.
Revoke(h) ==
    /\ pc[h] = "write"
    /\ job[h].op = "revoke"
    /\ \/ bindings' = Selected(bindings, {b \in Binding : b.user # job[h].to \/ b.role # job[h].role})
       \/ UNCHANGED bindings
    /\ Ends(h)
    /\ UNCHANGED <<role, renamed, known, now>>

\* handleRevokeConfirm for __reset__.
Reset(h) ==
    /\ pc[h] = "write"
    /\ job[h].op = "reset"
    /\ SetRole(h) \/ UNCHANGED role
    /\ Ends(h)
    /\ UNCHANGED <<renamed, bindings, known, now>>
-----------------------------------------------------------------------------
(* The rest of the engine's interface, which no handler calls, and what    *)
(* goes on outside.                                                        *)

\* Engine.CreateRole.
CreateRole(r) ==
    /\ known' = known \cup {r}
    /\ UNCHANGED <<role, renamed, bindings, now, local>>

\* Engine.AssignRole with an expiry, for a role of the table.  (The bindings
\* of a configured admin are never read, and one that outlasts the run is as
\* good as one that does not expire.)
AssignRole(u, r, t) ==
    /\ r \in known
    /\ Len(bindings) < MaxBindings
    /\ bindings' = Append(bindings, [user |-> u, role |-> r, expires |-> t])
    /\ UNCHANGED <<role, renamed, known, now, local>>

\* u changes a name in Telegram.
ChangeName(u) ==
    /\ HasRow(u)
    /\ renamed' = renamed \cup {u}
    /\ UNCHANGED <<role, bindings, known, now, local>>

Tick ==
    /\ now < MaxTime
    /\ now' = now + 1
    /\ UNCHANGED <<tables, local>>

\* The process stops and starts again.
Restart ==
    /\ pc' = [h \in Handler |-> "idle"]
    /\ actor' = [h \in Handler |-> NoOne]
    /\ job' = [h \in Handler |-> NoJob]
    /\ copy' = [h \in Handler |-> "none"]
    /\ UNCHANGED <<tables, now>>

Serve(h) ==
    \/ GetUser(h) \/ Register(h) \/ Rename(h)
    \/ Check(h) \/ Assign(h) \/ Bind(h) \/ Revoke(h) \/ Reset(h)

Next ==
    /\ \/ \E h \in Handler : Serve(h) \/ \E u \in User, j \in Offer : Update(h, u, j)
       \/ \E r \in DOMAIN Rules \ RoleName :
              CreateRole(r) \/ \E u \in User \ AdminID, t \in 0..MaxTime - 1 : AssignRole(u, r, t)
       \/ \E u \in User : ChangeName(u)
       \/ Tick
       \/ Restart
    /\ Entitle

Spec == Init /\ [][Next]_vars
-----------------------------------------------------------------------------
TypeOK ==
    /\ role \in [User -> RoleName \cup {"none"}]
    /\ renamed \subseteq User
    /\ bindings \in Seq(Binding)
    /\ Len(bindings) <= MaxBindings
    /\ known \subseteq DOMAIN Rules
    /\ now \in 0..MaxTime
    /\ pc \in [Handler -> Stage]
    /\ actor \in [Handler -> User \cup {NoOne}]
    /\ job \in [Handler -> Job]
    /\ copy \in [Handler -> RoleName \cup {"none"}]
    /\ entitled \subseteq Handler

\* The role of a registered user changes only to what an update under way asks
\* for, and only if its sender could manage roles at some moment after sending
\* it: neither a second registration beside the first, nor a change of name
\* written from an old copy, nor a menu opened before its admin was made a
\* viewer may move a role (Auth, Upsert, handleAssignConfirm,
\* handleRevokeConfirm).
RolesMoveByRight ==
    [][\A u \in User : HasRow(u) /\ role'[u] # role[u] =>
          \E h \in entitled : job[h].op \in {"assign", "reset"} /\ job[h].to = u /\ job[h].role = role'[u]]_vars

\* What Authorize answers is what the tables mean, whatever the order of the
\* rows, with expired, duplicate and dangling bindings and roles that cannot be
\* read; and the slices the built-in roles share do not run into one another
\* (Authorize, HasPermission, defaultRoles).
DecisionsAreMeant ==
    \A u \in User \ AdminID, req \in Request, lost \in SUBSET known :
        LET rules == [r \in DOMAIN Rules |-> IF r \in known \ lost THEN Rules[r] ELSE <<>>]
            mine  == Selected(bindings, {b \in Binding : b.user = u})
            flat(perms) == (req.module \o "." \o req.resource \o "." \o req.action) \in perms[FlatRole(u)]
        IN  \A bs \in {mine, Reverse(mine), <<>>} :
                Authorize(bs, rules, req, now, flat(BuiltinPerms))
                    = Meant(ToSet(bs), rules, req, now, flat(WrittenPerms))
=============================================================================
