------------------------------ MODULE MCGitOps ------------------------------
(* Applications on one ArgoCD instance that deploys to one cluster; a sync  *)
(* needs approval, a rollback does not.                                    *)
EXTENDS GitOps, TLC

MCInstance == [a \in App |-> "argo"]
MCClusters == [i \in {"argo"} |-> {"prod"}]
MCRules == {[kind |-> "sync", clusters |-> {"*"}]}

Symmetry == Permutations(Handler) \cup Permutations(Freeze)
=============================================================================
