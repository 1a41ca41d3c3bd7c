------------------------ MODULE MCIngressController ------------------------
(* Small instances of IngressController for TLC.                           *)
EXTENDS IngressDelivery

CONSTANTS i1, i2, A, B, web, api, s1, s2, r1, r2, n1, n2, p1, p2, vngcloud, nginx

P(at, tls, rule, svc) == [at |-> at, tls |-> tls, rule |-> rule, svc |-> svc]
S(annotation, class, lb, paths) ==
    [annotation |-> annotation, class |-> class, lb |-> lb, paths |-> paths]

\* Two paths; the second without the first, so that its index changes; the
\* first behind TLS while the second stays as it is.
Two     == S(None, vngcloud, A, <<P(s1, FALSE, r1, web), P(s2, FALSE, r2, api)>>)
Shifted == S(None, vngcloud, A, <<P(s1, FALSE, r2, api)>>)
Secure  == S(vngcloud, nginx, A, <<P(s1, TRUE, r1, web), P(s2, FALSE, r2, api)>>)
Moved   == S(None, vngcloud, B, <<P(s1, FALSE, r1, web)>>)
Foreign == S(nginx, vngcloud, A, <<P(s1, FALSE, r1, web)>>)

Single  == S(None, vngcloud, A, <<P(s1, FALSE, r1, web)>>)

Bounds(edit, service, node, pass_, fault, crash) ==
    [edit |-> edit, service |-> service, node |-> node,
     pass |-> pass_, fault |-> fault, crash |-> crash]

\* The event path: no passes.
EventSpecs == {Two, Shifted, Secure, Foreign}
EventLimit == Bounds(3, 0, 0, 0, 1, 0)

\* Restarts, missing services, failing calls, and passes set off by the flag.
RestartSpecs == {Single, Shifted}
RestartLimit == Bounds(2, 1, 0, 1, 1, 1)

\* A pass over an ingress while its users change it.
SyncSpecs == {Single, Shifted, Moved}
SyncLimit == Bounds(2, 0, 1, 0, 0, 0)

\* The nodes change again while a pass runs.
NodeSpecs == {Single}
NodeLimit == Bounds(1, 0, 2, 0, 0, 0)

\* A pass over two ingresses, where a call fails.
PairLimit == Bounds(2, 0, 1, 0, 1, 0)

\* The violations: one ingress, and what it takes to reach them.
StaleLimit == Bounds(2, 0, 0, 1, 0, 0)
MembersLimit == Bounds(1, 0, 1, 0, 0, 0)
RetryLimit == Bounds(1, 0, 0, 0, 1, 0)
=============================================================================
