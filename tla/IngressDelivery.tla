-------------------------- MODULE IngressDelivery --------------------------
(* IngressController implements EventDelivery: the refinement mapping.      *)
EXTENDS IngressController

\* What an event asks for.
EventSpec(event) == IF event.type = "delete" THEN None ELSE SpecOf(event.obj)

Wanted  == [i \in Ingresses |-> SpecOf(store[i])]
Heard   == {i \in Ingresses : cache[i] # None}
Noticed == [i \in Ingresses |-> SpecOf(cache[i])]
Done    == [i \in Ingresses |-> SpecOf(applied[i])]
Excused == {i \in Ingresses : ~Spared(i, {"failed"})}
Missed  == {i \in Ingresses : ~Spared(i, {"unnoticed"})}

Todo == [n \in DOMAIN queue |->
            [key |-> queue[n].obj.key, spec |-> EventSpec(queue[n])]]

\* The worker has applied the object when only the status is left to write.
Applying(r) == Busy(r) /\ r.stage # "status"

Doing == IF Applying(run[Worker])
         THEN {[key |-> Target(run[Worker]).key, spec |-> SpecOf(run[Worker].new)]}
         ELSE {}

Delivery == INSTANCE EventDelivery WITH
    Wishes <- Specs, wanted <- Wanted, heard <- Heard, noticed <- Noticed,
    todo <- Todo, doing <- Doing, applied <- Done, excused <- Excused, missed <- Missed

\* Informer, queue and worker with all the calls between them and the vLB
\* service do what EventDelivery says: changes are applied in the order they
\* were noticed, one at a time, and only those an excuse names are lost
\* (controller.go:122-190, 291-369).
DeliverySpec == Delivery!Spec
=============================================================================
