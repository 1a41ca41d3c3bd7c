--------------------------- MODULE MCDefaultPool ---------------------------
(* Small instances of DefaultPool for TLC.                                 *)
EXTENDS DefaultPool

CONSTANTS i1, i2, web8, web80, n1, n2

\* The name of web80 begins with the name of web8.
NamePrefixes == {<<web8, web8>>, <<web80, web80>>, <<web8, web80>>}

\* Two ingresses share a default backend at the start; then an edit, another
\* node, and one failing call, restart or pass for another reason.
SharedStores == {[i \in Ingresses |-> web8]}
Replaced == {{n1}, {n2}}
PoolLimit == [edit |-> 1, node |-> 1, trouble |-> 1]

\* Ingresses and nodes are alike at the start: one order and one node of them.
OneStart == Init /\ nodes = {n1} /\ Head(queue).key = i1
OneSpec == OneStart /\ [][Next]_vars /\ Fairness
=============================================================================
