--------------------------- MODULE EventDelivery ---------------------------
(***************************************************************************)
(* What the informer, the work queue and the worker promise together       *)
(* (src/pkg/ingress/controller/controller.go:122-190, 291-369), without    *)
(* what applying an ingress takes: changes are noticed late, some versions *)
(* are skipped, what was noticed is applied one at a time and in order,    *)
(* and a restart forgets all of it but what was applied.                   *)
(***************************************************************************)
EXTENDS Naturals, Sequences

CONSTANTS
    Ingresses,   \* the namespaced names of Ingress objects
    Wishes,      \* what their users may want
    None         \* an ingress that is absent or is not of this controller

VARIABLES
    wanted,      \* what the API server stores for each ingress
    heard,       \* the ingresses the informer holds an object of
    noticed,     \* what it last saw of each
    todo,        \* what was noticed and waits to be applied, oldest first
    doing,       \* what is being applied, at most one
    applied,     \* what was applied last for each ingress
    excused,     \* ingresses for which a call failed
    missed       \* ingresses whose end came while the informer held no object

vars == <<wanted, heard, noticed, todo, doing, applied, excused, missed>>

Entry == [key : Ingresses, spec : Wishes \cup {None}]

\* Something of i waits or is being applied.
Pending(i) ==
    \/ \E n \in DOMAIN todo : todo[n].key = i
    \/ \E e \in doing : e.key = i

Caught(i) == noticed[i] = wanted[i] /\ ~Pending(i)

Init ==
    /\ wanted = [i \in Ingresses |-> None]
    /\ heard = {}
    /\ noticed = [i \in Ingresses |-> None]
    /\ todo = <<>>
    /\ doing = {}
    /\ applied = [i \in Ingresses |-> None]
    /\ excused = {}
    /\ missed = {}

\* A user creates, changes or deletes the ingress.  One that goes away before
\* the informer has ever seen it, after a restart, is never missed.
Want(i) ==
    /\ \E w \in Wishes \cup {None} :
        /\ wanted' = [wanted EXCEPT ![i] = w]
        /\ missed' = missed \cup IF i \notin heard /\ w = None THEN {i} ELSE {}
    /\ UNCHANGED <<heard, noticed, todo, doing, applied, excused>>

\* The informer sees the stored object and queues what is new about it.
Notice(i) ==
    /\ noticed' = [noticed EXCEPT ![i] = wanted[i]]
    /\ \/ heard' = heard \cup {i}
       \/ wanted[i] = None /\ heard' = heard \ {i}
    /\ todo' = IF noticed[i] = wanted[i] THEN todo
               ELSE Append(todo, [key |-> i, spec |-> wanted[i]])
    /\ UNCHANGED <<wanted, doing, applied, excused, missed>>

\* The worker takes the oldest entry.
Start ==
    /\ doing = {}
    /\ todo # <<>>
    /\ doing' = {Head(todo)}
    /\ todo' = Tail(todo)
    /\ UNCHANGED <<wanted, heard, noticed, applied, excused, missed>>

Finish ==
    /\ \E e \in doing : applied' = [applied EXCEPT ![e.key] = e.spec]
    /\ doing' = {}
    /\ UNCHANGED <<wanted, heard, noticed, todo, excused, missed>>

\* A call fails.  The entry is given up, and it is not tried again.
Drop ==
    /\ \E e \in doing : excused' = excused \cup {e.key}
    /\ doing' = {}
    /\ UNCHANGED <<wanted, heard, noticed, todo, applied, missed>>

\* A call fails that does not keep the entry from being applied, or that a
\* pass of nodeSyncLoop made.
CallFails(i) ==
    /\ excused' = excused \cup {i}
    /\ UNCHANGED <<wanted, heard, noticed, todo, doing, applied, missed>>

\* The process ends and starts again.  What had not come to rest may be lost.
Restart ==
    /\ heard' = {}
    /\ noticed' = [i \in Ingresses |-> None]
    /\ todo' = <<>>
    /\ doing' = {}
    /\ \E lost \in SUBSET Ingresses :
        /\ {i \in Ingresses : ~Caught(i)} \subseteq lost
        /\ excused' = excused \cup lost
    /\ UNCHANGED <<wanted, applied, missed>>

Next ==
    \/ \E i \in Ingresses : Want(i) \/ Notice(i) \/ CallFails(i)
    \/ Start \/ Finish \/ Drop \/ Restart

Spec == Init /\ [][Next]_vars

-----------------------------------------------------------------------------
TypeOK ==
    /\ wanted \in [Ingresses -> Wishes \cup {None}]
    /\ heard \in SUBSET Ingresses
    /\ noticed \in [Ingresses -> Wishes \cup {None}]
    /\ todo \in Seq(Entry)
    /\ doing \in SUBSET Entry
    /\ applied \in [Ingresses -> Wishes \cup {None}]
    /\ excused \in SUBSET Ingresses
    /\ missed \in SUBSET Ingresses

\* An ingress that has been noticed as it is, with nothing of it waiting, is
\* applied as its users want it, whatever was missed before it was wanted
\* again (controller.go:122-190, 291-369).
Current ==
    \A i \in Ingresses :
        Caught(i) /\ i \notin excused /\ (wanted[i] # None \/ i \notin missed)
            => applied[i] = wanted[i]

\* Why Current is true.  The last entry of an ingress, waiting or being
\* applied, is what was noticed last; once there is none, that was applied,
\* unless a restart made the informer forget an ingress that still exists, or
\* its end was missed and nothing was noticed since.
LastEntry ==
    \A n \in DOMAIN todo :
        (\A l \in n + 1 .. Len(todo) : todo[l].key # todo[n].key)
            => todo[n].spec = noticed[todo[n].key]

LastDoing ==
    /\ \A e, f \in doing : e = f
    /\ \A e \in doing : (\A n \in DOMAIN todo : todo[n].key # e.key)
                            => e.spec = noticed[e.key]

Reflected(i) ==
    \/ applied[i] = noticed[i]
    \/ i \notin heard /\ wanted[i] # None
    \/ i \in missed /\ noticed[i] = None

Settled == \A i \in Ingresses : ~Pending(i) /\ i \notin excused => Reflected(i)

Unheard == \A i \in Ingresses : i \notin heard => noticed[i] = None

DeliveryInv == TypeOK /\ LastEntry /\ LastDoing /\ Settled /\ Unheard
=============================================================================
