------------------------------- MODULE Policy -------------------------------
(***************************************************************************)
(* What the RBAC engine decides (internal/rbac, internal/entity/role.go):  *)
(* the permissions of the built-in roles, the rules of the roles people    *)
(* are bound to, and Authorize, which weighs one against the other.        *)
(*                                                                         *)
(* These are operators on the tables the engine reads; module Access has   *)
(* the tables and the handlers that change them.  No handler calls         *)
(* Authorize or gives a rule to a role: bindings are written and listed by *)
(* the admin dialogs, and the handlers ask HasPermission.                  *)
(***************************************************************************)
EXTENDS Integers, SequencesExt

RoleName == {"super-admin", "admin", "operator", "viewer", "on-call"}

NoExpiry == -1

-----------------------------------------------------------------------------
(* The built-in roles.  Their permissions are slices: append writes behind *)
(* the elements of its slice where the array has room, and moves to a new  *)
(* array otherwise.                                                        *)

ViewerPerms == <<
    "kubernetes.pods.list", "kubernetes.pods.get", "kubernetes.pods.logs",
    "kubernetes.pods.events", "kubernetes.metrics.view", "kubernetes.nodes.view",
    "kubernetes.quota.view", "kubernetes.namespaces.list", "kubernetes.deployments.list",
    "kubernetes.cronjobs.list", "argocd.apps.list", "argocd.apps.view">>

OperatorAdds == <<
    "kubernetes.pods.restart", "kubernetes.deployments.scale", "argocd.apps.diff",
    "helm.releases.list">>

\* Faulty: two of the permissions have been dropped from the list.
Faulty_AdminAdds == <<
    "kubernetes.pods.delete", "kubernetes.nodes.cordon", "admin.users.manage",
    "admin.rbac.manage", "admin.audit.view", "argocd.apps.sync",
    "argocd.freeze.manage", "helm.releases.rollback">>

AdminAdds == <<
    "kubernetes.pods.delete", "kubernetes.nodes.cordon", "kubernetes.nodes.drain",
    "admin.users.manage", "admin.rbac.manage", "admin.audit.view", "argocd.apps.sync",
    "argocd.apps.rollback", "argocd.freeze.manage", "helm.releases.rollback">>

OnCallAdds == <<"argocd.apps.rollback", "kubernetes.nodes.drain">>

\* A slice is the first len elements of array number at; an array holds its
\* elements and has room for cap.
Literal(s) == [at |-> 1, len |-> Len(s), arrays |-> <<[elems |-> s, cap |-> Len(s)]>>]

\* append(slice, adds...): an array that has to grow doubles.
Append2(slice, adds) ==
    LET old == slice.arrays[slice.at]
        len == slice.len + Len(adds)
        joined == SubSeq(old.elems, 1, slice.len) \o adds
    IN  IF len <= old.cap
        THEN [at |-> slice.at, len |-> len,
              arrays |-> [slice.arrays EXCEPT ![slice.at] =
                             [elems |-> joined \o SubSeq(old.elems, len + 1, Len(old.elems)),
                              cap |-> old.cap]]]
        ELSE [at |-> Len(slice.arrays) + 1, len |-> len,
              arrays |-> Append(slice.arrays,
                             [elems |-> joined, cap |-> IF len > 2 * old.cap THEN len ELSE 2 * old.cap])]

\* defaultRoles: each append goes on from the operator's slice, over the
\* arrays as the one before has left them.
Slices ==
    LET viewer   == Literal(ViewerPerms)
        operator == Append2(viewer, OperatorAdds)
        admin    == Append2(operator, AdminAdds)
        onCall   == Append2([at |-> operator.at, len |-> operator.len, arrays |-> admin.arrays],
                            OnCallAdds)
        read(s)  == {onCall.arrays[s.at].elems[i] : i \in 1..s.len}
    IN  [r \in RoleName |->
            CASE r = "viewer"   -> read(viewer)
              [] r = "operator" -> read(operator)
              [] r = "on-call"  -> read(onCall)
              [] OTHER          -> read(admin)]

\* initDefaultRoles.
BuiltinPerms == Slices
-----------------------------------------------------------------------------
(* Rules.                                                                  *)

Field == {"module", "resource", "action", "cluster", "namespace"}

\* matchesWildcard, PolicyRule.Matches: a field of a rule is the set of the
\* values it lists.
Matches(rule, req) == \A f \in Field : {"*", req[f]} \cap rule[f] # {}

\* UserRoleBinding.IsExpired.
IsExpired(b, now) == b.expires # NoExpiry /\ now > b.expires

\* Faulty: the rule met last decides.
Faulty_Weigh(verdict, rule) == IF rule.effect = "deny" THEN "deny" ELSE "allow"

\* A deny ends the evaluation, whatever comes after it; any other effect allows.
Weigh(verdict, rule) == IF "deny" \in {verdict, rule.effect} THEN "deny" ELSE "allow"

\* The verdict after the rules of a role, if it was this one before them.
RuleVerdict(verdict, rules, req) ==
    LET after[n \in 0..Len(rules)] ==
            IF n = 0 THEN verdict
            ELSE IF Matches(rules[n], req) THEN Weigh(after[n - 1], rules[n]) ELSE after[n - 1]
    IN  after[Len(rules)]

\* The verdict of the bindings bs in the order the database returns them;
\* "none" if no rule applies.  A role that cannot be read is passed over:
\* rules[r] is then empty, as it is for a role that is not in the table.
Verdict(bs, rules, req, now) ==
    LET after[n \in 0..Len(bs)] ==
            IF n = 0 THEN "none"
            ELSE IF IsExpired(bs[n], now) THEN after[n - 1]
            ELSE RuleVerdict(after[n - 1], rules[bs[n].role], req)
    IN  after[Len(bs)]

\* Authorize: flat says what HasPermission answers.  If the bindings cannot be
\* read, bs is empty.
Authorize(bs, rules, req, now, flat) ==
    CASE Verdict(bs, rules, req, now) = "none"  -> flat
      [] Verdict(bs, rules, req, now) = "deny"  -> FALSE
      [] Verdict(bs, rules, req, now) = "allow" -> TRUE
-----------------------------------------------------------------------------
(* What they are to mean, without order and without slices.                *)

WrittenPerms ==
    [r \in RoleName |->
        ToSet(ViewerPerms)
            \cup (IF r = "viewer" THEN {} ELSE ToSet(OperatorAdds))
            \cup (IF r = "on-call" THEN ToSet(OnCallAdds) ELSE {})
            \cup (IF r \in {"admin", "super-admin"} THEN ToSet(AdminAdds) ELSE {})]

\* Deny goes before allow, allow before the flat role, and a binding counts
\* until its time is over.
Meant(bs, rules, req, now, flat) ==
    LET effects == {rule.effect : rule \in
                       {r \in UNION {ToSet(rules[b.role]) :
                                     b \in {c \in bs : c.expires = NoExpiry \/ now <= c.expires}} :
                        \A f \in Field : "*" \in r[f] \/ req[f] \in r[f]}}
    IN  "deny" \notin effects /\ (effects # {} \/ flat)
=============================================================================
