------------------------------ MODULE MCAccess ------------------------------
(* The configured admin a and a user u, whom a makes admin, viewer or       *)
(* on-call; the role custom allows to scale and denies the cluster prod.    *)
EXTENDS Access

Symmetry == Permutations(Handler)

MCRules ==
    [r \in RoleName \cup {"custom"} |->
        IF r = "custom"
        THEN <<[module |-> {"kubernetes"}, resource |-> {"deployments", "pods"}, action |-> {"*"},
                cluster |-> {"*"}, namespace |-> {"*"}, effect |-> "allow"],
               [module |-> {"*"}, resource |-> {"*"}, action |-> {"*"},
                cluster |-> {"prod"}, namespace |-> {"*"}, effect |-> "deny"],
               [module |-> {"*"}, resource |-> {"deployments"}, action |-> {"scale"},
                cluster |-> {"prod", "dev"}, namespace |-> {"shop"}, effect |-> "allow"]>>
        ELSE <<>>]

Ask(m, r, a, c) == [module |-> m, resource |-> r, action |-> a, cluster |-> c, namespace |-> "shop"]

MCRequest ==
    {Ask("kubernetes", "deployments", "scale", c) : c \in {"prod", "dev"}}
        \cup {Ask("kubernetes", "pods", "delete", "dev"), Ask("argocd", "apps", "rollback", "dev"),
              Ask("kubernetes", "nodes", "cordon", "dev")}

MCOffer ==
    {[op |-> "assign", to |-> "u", role |-> r] : r \in {"admin", "on-call"}}
        \cup {[op |-> "revoke", to |-> "u", role |-> "admin"],
              [op |-> "reset", to |-> "u", role |-> "viewer"],
              [op |-> "look", to |-> "u", role |-> "viewer"]}
=============================================================================
