--------------------------- MODULE MCLoadBalancers ---------------------------
(* Small instances of LoadBalancers for TLC.                               *)
EXTENDS LoadBalancers

CONSTANTS i1, i2, g

\* One ingress has a load balancer of its own, the other one names one that a
\* user made, and may be edited to share that of the first.
OwnAndGiven == {[i \in Ingresses |-> IF i = i1 THEN None ELSE g]}
Annotations == {None, g, <<i1, 1>>}
BalancerLimit == [edit |-> 1, pass |-> 1, trouble |-> 1]
=============================================================================
