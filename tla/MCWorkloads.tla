----------------------------- MODULE MCWorkloads -----------------------------
\* A default cluster and another, each with two namespaces, one of a long name,
\* which the default cluster may lose; a deployment in that one.
EXTENDS Workloads, TLC

CONSTANTS c1, c2, n1, n2, deploy, app

MCSpaces == [c \in Cluster |-> IF c = c1 THEN {{n1}, {n1, n2}} ELSE {{n1, n2}}]

MCPages == [c \in Cluster |-> IF c = c1 THEN {1, 2} ELSE {1}]

MCWorkload == {<<deploy, app, n2, c1>>}

MCSymmetry == Permutations(Handler)
=============================================================================
