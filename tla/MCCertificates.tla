-------------------------- MODULE MCCertificates --------------------------
(* Small instances of Certificates for TLC.                                *)
EXTENDS Certificates

CONSTANTS i1, i2, s1, s2

\* Two ingresses share a secret at the start.  Then two things happen, of an
\* edit of an ingress, a new secret, and a failing call, a restart or a pass
\* for another reason.
SharedStores == {[i \in Ingresses |-> IF i = i1 THEN <<s1>> ELSE <<s2, s1>>]}
SecretSpecs == {<<s1>>, <<s2, s1>>}
SecretLimit == [edit |-> 1, secret |-> 1, trouble |-> 1]

\* Nothing fails.
CalmLimit == [edit |-> 1, secret |-> 1, trouble |-> 0]

\* One order in which the informer lists them; a restart has the other one.
OneStart == Init /\ Head(queue).key = i1
OneSpec == OneStart /\ [][Next]_vars /\ Fairness
=============================================================================
