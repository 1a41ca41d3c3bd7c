------------------------- MODULE IngressController -------------------------
(***************************************************************************)
(* The control loop of vngcloud-ingress-controller                         *)
(* (src/pkg/ingress/controller/controller.go).                             *)
(*                                                                         *)
(* An informer turns changes of Ingress objects into events on a work      *)
(* queue.  Two goroutines call ensureIngress concurrently, and no lock     *)
(* protects anything: Worker takes the events from the queue, and Sync     *)
(* (nodeSyncLoop) re-applies every ingress when the nodes change.  Every   *)
(* call to the vLB service is a step of its own, so that the two           *)
(* goroutines, the users of the cluster, failures and restarts interleave  *)
(* between any two calls.                                                  *)
(*                                                                         *)
(* Simplifications, all of them about data:                                *)
(*   - a pool or a policy is identified by its name, as in FindPoolByName  *)
(*     and FindPolicyByName, and vLB refuses to create a second one;       *)
(*   - a path is a record: at (its rule and path index), tls (its host is  *)
(*     under spec.tls), rule (host and path), svc (its backend);           *)
(*   - spec.lb is the load balancer GetLoadbalancerIDByIngress resolves    *)
(*     to; it exists;                                                      *)
(*   - the default pool, the listeners and the certificates are left out;  *)
(*   - the waits for LoadBalancerNotReady and WaitForLBActive are stutters.*)
(***************************************************************************)
EXTENDS Naturals, Sequences, FiniteSets

CONSTANTS
    Ingresses,     \* the namespaced names of Ingress objects
    LBs,           \* the load balancers of the subnet
    Services,      \* the services paths refer to
    Slots,         \* rule and path indexes
    Rules,         \* the L7 rules of a path: its path and its host
    Specs,         \* the annotations and specs the users write
    IngressClass,  \* the class of this controller, "vngcloud"
    Nodes,         \* the addresses of the nodes
    Ports,         \* the node ports of services
    None,          \* nil, or absent
    Limit          \* how often each kind of outside event may happen

Worker == "worker"
Sync   == "sync"
Processes == {Worker, Sync}

Kinds == {"edit", "service", "node", "pass", "fault", "crash"}

Path == [at : Slots, tls : BOOLEAN, rule : Rules, svc : Services]

Object == [key : Ingresses, rv : Nat, spec : Specs]

\* Every spec names a load balancer and has at most one path at an index.
ASSUME SpecsAssumption ==
    \A s \in Specs :
        /\ s.lb \in LBs
        /\ s.paths \in Seq(Path)
        /\ \A j, k \in DOMAIN s.paths : s.paths[j].at = s.paths[k].at => j = k

ASSUME NoneAssumption ==
    /\ None \notin Specs \cup LBs \cup Ports \cup Object
    /\ \A members \in SUBSET (Nodes \X Ports) : members # None
    /\ None \notin [pool : Ingresses \X Services, rule : Rules]

ASSUME LimitAssumption == Limit \in [Kinds -> Nat]

VARIABLES
    \* the cluster: what the API server stores
    store,         \* the Ingress objects, None for one that does not exist
    version,       \* the resource version each ingress last had
    vip,           \* the load balancer in the status of each ingress
    nodes,         \* the ready worker nodes
    ports,         \* the node port of each service, None without the service
    \* the controller
    cache,         \* the ingress informer's last delivered objects
    queue,         \* c.queue
    knownNodes,    \* c.knownNodes
    pass,          \* nodeSyncLoop's readyWorkerNodes and remaining ings.Items
    run,           \* where each goroutine is in ensureIngress
    \* the vLB service
    pool,          \* the members of the pools of each load balancer
    policy,        \* the policies of the listeners of each load balancer
    \* history, which no step of the program reads
    applied,       \* the object the worker last finished, None if deleted
    mishap,        \* what happened to each ingress that excuses a property
    spent          \* how many outside events of each kind happened

cluster    == <<store, version, vip, nodes, ports>>
controller == <<cache, queue, knownNodes, pass, run>>
vlb        == <<pool, policy>>
history    == <<applied, mishap>>
vars       == <<cluster, controller, vlb, history, spent>>

-----------------------------------------------------------------------------
(* Objects and the names of what belongs to them on a load balancer.       *)

\* IsValid: the annotation decides, and ingressClassName only without it.
IsValid(o) ==
    /\ o # None
    /\ \/ o.spec.annotation = IngressClass
       \/ o.spec.annotation = None /\ o.spec.class = IngressClass

Paths(o) == IF o = None THEN <<>> ELSE o.spec.paths

\* Mutant: the name of a pool leaves the ingress out.
PoolNameByService(o, path) == <<CHOOSE i \in Ingresses : TRUE, path.svc>>

PoolName(o, path)   == <<o.key, path.svc>>
PolicyName(o, path) == <<o.key, path.tls, path.at>>

AllPoolNames   == Ingresses \X Services
AllPolicyNames == Ingresses \X BOOLEAN \X Slots

PoolNames(o)   == {PoolName(o, Paths(o)[k]) : k \in DOMAIN Paths(o)}
PolicyNames(o) == {PolicyName(o, Paths(o)[k]) : k \in DOMAIN Paths(o)}

PolicyFor(o, path) == [pool |-> PoolName(o, path), rule |-> path.rule]

Policy == [pool : AllPoolNames, rule : Rules]
Members == SUBSET (Nodes \X Ports)

-----------------------------------------------------------------------------
(* The goroutines.  A run holds what ensureIngress keeps on its stack:     *)
(* the stage of actionCompareIngress, the item k of that stage's loop, the *)
(* call to make next, and what was read earlier.                           *)

Stages == {"idle", "list", "next", "inspect", "current", "pool", "policy",
           "dropPolicy", "dropPool", "status"}
Calls  == {"find", "create", "get", "update", "delete"}

Idle == [stage |-> "idle", call |-> "find", k |-> 1, old |-> None,
         new |-> None, seen |-> {}, nodes |-> {},
         ports |-> [s \in Services |-> None]]

Begin(old, new) == [Idle EXCEPT !.stage = "inspect", !.old = old, !.new = new]

\* What a goroutine does when ensureIngress returns: the worker takes the
\* next event, nodeSyncLoop the next ingress of its list.
Return(p) == IF p = Worker THEN Idle ELSE [Idle EXCEPT !.stage = "next"]

\* The ingress whose load balancer and status a run is about.
Target(r) == IF r.new # None THEN r.new ELSE r.old

Busy(r) == r.stage \notin {"idle", "list", "next"}

WorksOn(p, i) == Busy(run[p]) /\ Target(run[p]).key = i

\* Mutants: a policy is kept if any new path is at its index; every old
\* policy, or pool, is dropped; pools are dropped only for a deleted ingress.
NoPathAtIndex(r, path) == \A k \in DOMAIN Paths(r.new) : Paths(r.new)[k].at # path.at
Always(r, path) == TRUE
NothingNew(r, path) == r.new = None

\* policyWillUse and poolWillUse: the new object does not use the policy, or
\* the pool, of a path of the old one.
RedundantPolicy(r, path) == PolicyName(r.old, path) \notin PolicyNames(r.new)
RedundantPool(r, path)   == PoolName(r.old, path) \notin PoolNames(r.new)

\* What the loop of each stage goes through, and the stage that follows it.
Items(r) ==
    CASE r.stage \in {"pool", "policy"}         -> Paths(r.new)
      [] r.stage \in {"dropPolicy", "dropPool"} -> Paths(r.old)
      [] OTHER                                  -> <<>>

Following ==
    [pool |-> "policy", policy |-> "dropPolicy", dropPolicy |-> "dropPool"]

At(p, stage, call) ==
    /\ run[p].stage = stage
    /\ run[p].call = call
    /\ run[p].k <= Len(Items(run[p]))

Item(r) == Items(r)[r.k]

Goto(p, r) == run' = [run EXCEPT ![p] = r]
Then(p, call) == Goto(p, [run[p] EXCEPT !.call = call])
NextItem(p) == Goto(p, [run[p] EXCEPT !.k = @ + 1, !.call = "find"])

-----------------------------------------------------------------------------
Spend(kind) ==
    /\ spent[kind] < Limit[kind]
    /\ spent' = [spent EXCEPT ![kind] = @ + 1]

Mark(is, why) ==
    mishap' = [i \in Ingresses |-> mishap[i] \cup IF i \in is THEN {why} ELSE {}]

Reasons == {"failed", "uncovered", "overlapped", "outdated", "flapped", "unnoticed"}

\* The worker has nothing left to do for i: the informer delivered the
\* stored object, no event of i is queued and the worker is not on i.
Quiet(i) ==
    /\ cache[i] = store[i]
    /\ \A n \in DOMAIN queue : queue[n].obj.key # i
    /\ ~WorksOn(Worker, i)

Init ==
    /\ store = [i \in Ingresses |-> None]
    /\ version = [i \in Ingresses |-> 0]
    /\ vip = [i \in Ingresses |-> None]
    /\ nodes \in SUBSET Nodes
    /\ ports \in [Services -> Ports]
    /\ cache = [i \in Ingresses |-> None]
    /\ queue = <<>>
    /\ knownNodes = nodes
    /\ pass = [nodes |-> {}, todo |-> {}]
    /\ run = [p \in Processes |-> Idle]
    /\ pool = [lb \in LBs |-> [n \in AllPoolNames |-> None]]
    /\ policy = [lb \in LBs |-> [n \in AllPolicyNames |-> None]]
    /\ applied = [i \in Ingresses |-> None]
    /\ mishap = [i \in Ingresses |-> {}]
    /\ spent = [kind \in Kinds |-> 0]

-----------------------------------------------------------------------------
(* The users and the cluster.                                              *)

\* What the informer will never report: while the controller is down, or has
\* not listed the ingresses yet, an ingress goes away or changes its class.
Unnoticed(i, o) == cache[i] = None /\ ~IsValid(o)

\* What the informer never reports either, if it relists next: an ingress is
\* again what it delivered last.  A pass may have listed what was in between.
Reverted(i, o) == IsValid(cache[i]) /\ IsValid(o) /\ o.spec = cache[i].spec

Store(i, o) ==
    /\ store' = [store EXCEPT ![i] = o]
    /\ IF Unnoticed(i, o) THEN Mark({i}, "unnoticed")
       ELSE IF Reverted(i, o) THEN Mark({i}, "flapped") ELSE UNCHANGED mishap

\* A user creates the ingress or changes its annotations or its spec.
Apply(i) ==
    /\ Spend("edit")
    /\ \E s \in Specs :
        /\ store[i] # None => store[i].spec # s
        /\ Store(i, [key |-> i, rv |-> version[i] + 1, spec |-> s])
    /\ version' = [version EXCEPT ![i] = @ + 1]
    /\ vip' = IF store[i] = None THEN [vip EXCEPT ![i] = None] ELSE vip
    /\ UNCHANGED <<nodes, ports, controller, vlb, applied>>

Remove(i) ==
    /\ store[i] # None
    /\ Spend("edit")
    /\ Store(i, None)
    /\ UNCHANGED <<version, vip, nodes, ports, controller, vlb, applied>>

\* A service is deleted, or gets another node port.
ChangeService(s) ==
    /\ Spend("service")
    /\ \E port \in Ports \cup {None} :
        /\ port # ports[s]
        /\ ports' = [ports EXCEPT ![s] = port]
    /\ UNCHANGED <<store, version, vip, nodes, controller, vlb, history>>

\* Nodes join, leave, or change readiness.  A list that equals the one the
\* controller compares with hides the change in between from NodeTick.
ChangeNodes ==
    /\ Spend("node")
    /\ \E ns \in SUBSET Nodes :
        /\ ns # nodes
        /\ nodes' = ns
        /\ IF ns = knownNodes \/ (run[Sync].stage # "idle" /\ ns = pass.nodes)
           THEN Mark(Ingresses, "flapped")
           ELSE UNCHANGED mishap
    /\ UNCHANGED <<store, version, vip, ports, controller, vlb, applied>>

-----------------------------------------------------------------------------
(* The informer and its event handlers.                                    *)

CreateEvent(o)      == <<[type |-> "create", obj |-> o, old |-> None]>>
UpdateEvent(old, o) == <<[type |-> "update", obj |-> o, old |-> old]>>
DeleteEvent(o)      == <<[type |-> "delete", obj |-> o, old |-> None]>>

\* Mutants: an ingress that leaves the class stays; an ingress with a status
\* is not created again.
EventsWithoutWithdrawal(old, new) ==
    CASE ~IsValid(old) /\ IsValid(new) -> CreateEvent(new)
      [] IsValid(old) /\ new = None -> DeleteEvent(old)
      [] IsValid(old) /\ IsValid(new) /\ new.spec # old.spec -> UpdateEvent(old, new)
      [] OTHER -> <<>>
EventsWithoutStatus(old, new) ==
    CASE ~IsValid(old) /\ IsValid(new) ->
             IF vip[new.key] = None THEN CreateEvent(new) ELSE <<>>
      [] IsValid(old) /\ ~IsValid(new) -> DeleteEvent(IF new = None THEN old ELSE new)
      [] IsValid(old) /\ IsValid(new) /\ new.spec # old.spec -> UpdateEvent(old, new)
      [] OTHER -> <<>>

\* What AddFunc, UpdateFunc and DeleteFunc put on the queue when the
\* informer's object goes from old to new.
Events(old, new) ==
    CASE ~IsValid(old) /\ IsValid(new) -> CreateEvent(new)
      [] IsValid(old) /\ ~IsValid(new) -> DeleteEvent(IF new = None THEN old ELSE new)
      [] IsValid(old) /\ IsValid(new) /\ new.spec # old.spec -> UpdateEvent(old, new)
      [] OTHER -> <<>>

\* Mutant: the last event first.
EnqueueFirst(events) == events \o queue

\* AddRateLimited: the delays of events added in turn end in turn.
Enqueue(events) == queue \o events

\* The informer delivers the stored object.  After a relist it skips the
\* versions in between; without one it delivers each version, which is this
\* action taken after each change: no step depends on cache but this one.
Deliver(i) ==
    /\ cache[i] # store[i]
    /\ cache' = [cache EXCEPT ![i] = store[i]]
    /\ queue' = Enqueue(Events(cache[i], store[i]))
    /\ UNCHANGED <<cluster, knownNodes, pass, run, vlb, history, spent>>

\* Whether old and new name everything the worker last applied for i.
Covers(old, new, i) ==
    LET o == applied[i]
        target == IF new # None THEN new ELSE old
    IN  o = None
        \/ /\ o.spec.lb = target.spec.lb
           /\ PolicyNames(o) \subseteq PolicyNames(old) \cup PolicyNames(new)
           /\ PoolNames(o) \subseteq PoolNames(old) \cup PoolNames(new)

\* processItem: an update compares with the object before it, a delete
\* compares the deleted object with nothing.
RunOf(event) ==
    IF event.type = "delete" THEN Begin(event.obj, None)
                             ELSE Begin(event.old, event.obj)

Take ==
    /\ run[Worker].stage = "idle"
    /\ queue # <<>>
    /\ queue' = Tail(queue)
    /\ LET r == RunOf(Head(queue))
           i == Head(queue).obj.key
       IN  /\ Goto(Worker, r)
           /\ IF Covers(r.old, r.new, i) THEN UNCHANGED mishap ELSE Mark({i}, "uncovered")
    /\ UNCHANGED <<cluster, cache, knownNodes, pass, vlb, applied, spent>>

-----------------------------------------------------------------------------
(* One ensureIngress or deleteIngress, by either goroutine.                *)

LbOf(r) == Target(r).spec.lb
PoolOf(r) == pool[LbOf(r)][PoolName(r.new, Item(r))]
PolicyOf(r) == policy[LbOf(r)][PolicyName(r.new, Item(r))]

\* inspectIngress: one member per ready node, at the service's node port.
MembersFor(r, svc) == r.nodes \X {r.ports[svc]}

\* Mutant: only the lengths are compared.
SameNumber(ms, ns) == Cardinality(ms) = Cardinality(ns)

\* ComparePoolMembers
SameMembers(ms, ns) == ms = ns

\* Mutant: a service without a node port is accepted.
HasServicesUnchecked(o) ==
    \A k \in DOMAIN Paths(o) : ports[Paths(o)[k].svc] \in Ports \cup {None}

HasServices(o) == \A k \in DOMAIN Paths(o) : ports[Paths(o)[k].svc] # None

\* The pass writes for i something that is not the last the worker applied.
Overlaps(p, i) ==
    /\ p = Sync
    /\ \/ ~Quiet(i)
       \/ store[i] = None
       \/ store[i].spec # run[p].new.spec

\* A member list read before the nodes changed is written when no coming
\* pass will correct it.
Outdated(p) ==
    /\ run[p].nodes # nodes
    /\ nodes = knownNodes \/ (run[Sync].stage # "idle" /\ nodes = pass.nodes)

\* ensureLoadBalancer finds the load balancer; inspectIngress, for the old
\* and for the new object, reads the services and the nodes.
Inspect(p) ==
    /\ run[p].stage = "inspect"
    /\ HasServices(run[p].old) /\ HasServices(run[p].new)
    /\ Goto(p, [run[p] EXCEPT !.stage = "current", !.nodes = nodes, !.ports = ports])
    /\ UNCHANGED <<cluster, cache, queue, knownNodes, pass, vlb, history, spent>>

\* A policy of the old object gets its listener only if it is on the load
\* balancer now.
MapIDExpander(r) == {n \in PolicyNames(r.old) : policy[LbOf(r)][n] # None}

\* WaitForLBActive, inspectCurrentLB and MapIDExpander.
InspectCurrentLB(p) ==
    /\ run[p].stage = "current"
    /\ Goto(p, [run[p] EXCEPT !.stage = "pool", !.seen = MapIDExpander(run[p])])
    /\ UNCHANGED <<cluster, cache, queue, knownNodes, pass, vlb, history, spent>>

\* The end of a loop.  After the last one an ingress that still exists gets
\* its status, and a deleted one is done.
EndLoop(p) ==
    /\ run[p].stage \in DOMAIN Following
    /\ run[p].k > Len(Items(run[p]))
    /\ Goto(p, [run[p] EXCEPT !.stage = Following[@], !.k = 1, !.call = "find"])
    /\ UNCHANGED <<cluster, cache, queue, knownNodes, pass, vlb, history, spent>>

EndDrops(p) ==
    /\ run[p].stage = "dropPool"
    /\ run[p].k > Len(Items(run[p]))
    /\ Goto(p, IF run[p].new = None THEN Return(p) ELSE [run[p] EXCEPT !.stage = "status"])
    /\ applied' = IF p = Worker
                  THEN [applied EXCEPT ![Target(run[p]).key] = run[p].new] ELSE applied
    /\ UNCHANGED <<cluster, cache, queue, knownNodes, pass, vlb, mishap, spent>>

\* ensurePool
FindPool(p) ==
    /\ At(p, "pool", "find")
    /\ Then(p, IF PoolOf(run[p]) = None THEN "create" ELSE "get")
    /\ UNCHANGED <<cluster, cache, queue, knownNodes, pass, vlb, history, spent>>

CreatePool(p) ==
    /\ At(p, "pool", "create")
    /\ PoolOf(run[p]) = None
    /\ pool' = [pool EXCEPT ![LbOf(run[p])][PoolName(run[p].new, Item(run[p]))] = {}]
    /\ Then(p, "get")
    /\ LET i == Target(run[p]).key
       IN  IF Overlaps(p, i) THEN Mark({i}, "overlapped") ELSE UNCHANGED mishap
    /\ UNCHANGED <<cluster, cache, queue, knownNodes, pass, policy, applied, spent>>

\* ensurePoolMember
GetMemberPool(p) ==
    /\ At(p, "pool", "get")
    /\ PoolOf(run[p]) # None
    /\ IF SameMembers(MembersFor(run[p], Item(run[p]).svc), PoolOf(run[p]))
       THEN NextItem(p) ELSE Then(p, "update")
    /\ UNCHANGED <<cluster, cache, queue, knownNodes, pass, vlb, history, spent>>

UpdatePoolMember(p) ==
    /\ At(p, "pool", "update")
    /\ PoolOf(run[p]) # None
    /\ LET r == run[p]
       IN  pool' = [pool EXCEPT ![LbOf(r)][PoolName(r.new, Item(r))] = MembersFor(r, Item(r).svc)]
    /\ NextItem(p)
    /\ IF Outdated(p) THEN Mark({Target(run[p]).key}, "outdated") ELSE UNCHANGED mishap
    /\ UNCHANGED <<cluster, cache, queue, knownNodes, pass, policy, applied, spent>>

\* ensurePolicy
FindPolicy(p) ==
    /\ At(p, "policy", "find")
    /\ Then(p, IF PolicyOf(run[p]) = None THEN "create" ELSE "get")
    /\ UNCHANGED <<cluster, cache, queue, knownNodes, pass, vlb, history, spent>>

WritePolicy(p) ==
    LET r == run[p]
        i == Target(r).key
    IN  /\ PoolOf(r) # None
        /\ policy' = [policy EXCEPT ![LbOf(r)][PolicyName(r.new, Item(r))] = PolicyFor(r.new, Item(r))]
        /\ IF Overlaps(p, i) THEN Mark({i}, "overlapped") ELSE UNCHANGED mishap
        /\ UNCHANGED <<cluster, cache, queue, knownNodes, pass, pool, applied, spent>>

CreatePolicy(p) ==
    /\ At(p, "policy", "create")
    /\ PolicyOf(run[p]) = None
    /\ Then(p, "get")
    /\ WritePolicy(p)

GetPolicy(p) ==
    /\ At(p, "policy", "get")
    /\ PolicyOf(run[p]) # None
    /\ IF PolicyOf(run[p]) = PolicyFor(run[p].new, Item(run[p]))
       THEN NextItem(p) ELSE Then(p, "update")
    /\ UNCHANGED <<cluster, cache, queue, knownNodes, pass, vlb, history, spent>>

UpdatePolicy(p) ==
    /\ At(p, "policy", "update")
    /\ PolicyOf(run[p]) # None
    /\ NextItem(p)
    /\ WritePolicy(p)

\* deletePolicy, unless policyWillUse has the name: without a listener, or
\* without the policy, it goes on.
FindOldPolicy(p) ==
    /\ At(p, "dropPolicy", "find")
    /\ LET r == run[p]
           name == PolicyName(r.old, Item(r))
       IN  IF RedundantPolicy(r, Item(r)) /\ name \in r.seen /\ policy[LbOf(r)][name] # None
           THEN Then(p, "delete") ELSE NextItem(p)
    /\ UNCHANGED <<cluster, cache, queue, knownNodes, pass, vlb, history, spent>>

DeletePolicy(p) ==
    /\ At(p, "dropPolicy", "delete")
    /\ LET r == run[p]
       IN  policy' = [policy EXCEPT ![LbOf(r)][PolicyName(r.old, Item(r))] = None]
    /\ NextItem(p)
    /\ UNCHANGED <<cluster, cache, queue, knownNodes, pass, pool, history, spent>>

\* deletePool, unless poolWillUse has the name: vLB refuses to delete a pool
\* some policy redirects to, and the controller goes on.
InUse(lb, name) == \E n \in AllPolicyNames :
    policy[lb][n] # None /\ policy[lb][n].pool = name

FindOldPool(p) ==
    /\ At(p, "dropPool", "find")
    /\ LET r == run[p]
       IN  IF RedundantPool(r, Item(r)) /\ pool[LbOf(r)][PoolName(r.old, Item(r))] # None
           THEN Then(p, "delete") ELSE NextItem(p)
    /\ UNCHANGED <<cluster, cache, queue, knownNodes, pass, vlb, history, spent>>

DeletePool(p) ==
    /\ At(p, "dropPool", "delete")
    /\ LET lb == LbOf(run[p])
           name == PoolName(run[p].old, Item(run[p]))
       IN  IF InUse(lb, name)
           THEN UNCHANGED pool /\ Mark({Target(run[p]).key}, "failed")
           ELSE pool' = [pool EXCEPT ![lb][name] = None] /\ UNCHANGED mishap
    /\ NextItem(p)
    /\ UNCHANGED <<cluster, cache, queue, knownNodes, pass, policy, applied, spent>>

\* updateIngressStatus sends the object of the event, with the resource
\* version it had then.  A write that changes nothing keeps the version.
UpdateStatus(p) ==
    /\ run[p].stage = "status"
    /\ LET o == run[p].new
       IN  IF store[o.key] # None /\ store[o.key].rv = o.rv /\ vip[o.key] # o.spec.lb
           THEN /\ vip' = [vip EXCEPT ![o.key] = o.spec.lb]
                /\ version' = [version EXCEPT ![o.key] = @ + 1]
                /\ store' = [store EXCEPT ![o.key].rv = @ + 1]
           ELSE UNCHANGED <<vip, version, store>>
    /\ Goto(p, Return(p))
    /\ UNCHANGED <<nodes, ports, cache, queue, knownNodes, pass, vlb, history, spent>>

-----------------------------------------------------------------------------
(* Failures.                                                               *)

\* ensureIngress returns an error.  processItem logs it and returns nil, so
\* nothing is queued again; nodeSyncLoop continues with the next ingress.
Fail(p) ==
    /\ Goto(p, Return(p))
    /\ Mark({Target(run[p]).key}, "failed")
    /\ UNCHANGED <<cluster, cache, queue, knownNodes, pass, vlb, applied>>

\* inspectIngress finds no service, or no node port, for a path.
InspectFails(p) ==
    /\ run[p].stage = "inspect"
    /\ ~(HasServices(run[p].old) /\ HasServices(run[p].new))
    /\ Fail(p)
    /\ UNCHANGED spent

\* vLB refuses a call: the name exists already, or what the call refers to
\* is gone, because of the other goroutine.
Refused(p) ==
    /\ run[p].stage \in {"pool", "policy"}
    /\ run[p].k <= Len(Items(run[p]))
    /\ LET r == run[p]
           found == IF r.stage = "pool" THEN PoolOf(r) # None ELSE PolicyOf(r) # None
       IN  \/ r.call = "create" /\ found
           \/ r.call \in {"get", "update"} /\ ~found
           \/ r.stage = "policy" /\ r.call \in {"create", "update"} /\ PoolOf(r) = None
    /\ Fail(p)
    /\ UNCHANGED spent

\* Any call may fail: timeouts, quotas, errors of the service.  A call that
\* took effect and whose answer is lost is the next call failing.
CallFails(p) ==
    /\ run[p].stage \in {"inspect", "current", "pool", "policy", "status"}
    /\ Spend("fault")
    /\ Fail(p)

\* The calls that delete may fail too, and those errors are only logged.
DropFails(p) ==
    /\ \E call \in {"find", "delete"} :
        \/ At(p, "dropPolicy", call) /\ RedundantPolicy(run[p], Item(run[p]))
        \/ At(p, "dropPool", call) /\ RedundantPool(run[p], Item(run[p]))
    /\ Spend("fault")
    /\ NextItem(p)
    /\ Mark({Target(run[p]).key}, "failed")
    /\ UNCHANGED <<cluster, cache, queue, knownNodes, pass, vlb, applied>>

-----------------------------------------------------------------------------
(* nodeSyncLoop, every 60 seconds.                                         *)

StartPass ==
    /\ run[Sync].stage = "idle"
    /\ pass' = [nodes |-> nodes, todo |-> {}]
    /\ Goto(Sync, [Idle EXCEPT !.stage = "list"])
    /\ UNCHANGED <<cluster, cache, queue, knownNodes, vlb, history>>

NodeTick ==
    /\ nodes # knownNodes
    /\ StartPass
    /\ UNCHANGED spent

\* isUpdateDefaultPool is set, or a tracked secret changed: the same pass
\* with the nodes unchanged.
FlagTick ==
    /\ Spend("pass")
    /\ StartPass

ListIngresses ==
    /\ run[Sync].stage = "list"
    /\ pass' = [pass EXCEPT !.todo = {store[i] : i \in {j \in Ingresses : IsValid(store[j])}}]
    /\ Goto(Sync, [Idle EXCEPT !.stage = "next"])
    /\ UNCHANGED <<cluster, cache, queue, knownNodes, vlb, history, spent>>

\* The List call fails: the pass ends and knownNodes stays.
ListFails ==
    /\ run[Sync].stage = "list"
    /\ Spend("fault")
    /\ Goto(Sync, Idle)
    /\ pass' = [nodes |-> {}, todo |-> {}]
    /\ UNCHANGED <<cluster, cache, queue, knownNodes, vlb, history>>

\* Mutant: the loop ends after its first ingress.
SyncNextThenStops ==
    /\ run[Sync].stage = "next"
    /\ \E o \in pass.todo : Goto(Sync, Begin(None, o))
    /\ pass' = [pass EXCEPT !.todo = {}]
    /\ UNCHANGED <<cluster, cache, queue, knownNodes, vlb, history, spent>>

SyncNext ==
    /\ run[Sync].stage = "next"
    /\ \E o \in pass.todo :
        /\ pass' = [pass EXCEPT !.todo = @ \ {o}]
        /\ Goto(Sync, Begin(None, o))
    /\ UNCHANGED <<cluster, cache, queue, knownNodes, vlb, history, spent>>

\* Mutants: the list is read again at the end; it is not kept.
KnownReadAgain == nodes
KnownNotKept == knownNodes

\* knownNodes becomes the list read at the start of the pass, whether or not
\* every ingress was handled.
KnownAfterPass == pass.nodes

EndPass ==
    /\ run[Sync].stage = "next"
    /\ pass.todo = {}
    /\ knownNodes' = KnownAfterPass
    /\ pass' = [nodes |-> {}, todo |-> {}]
    /\ Goto(Sync, Idle)
    /\ UNCHANGED <<cluster, cache, queue, vlb, history, spent>>

-----------------------------------------------------------------------------
\* The process ends and starts again: queue, caches and stacks are lost, the
\* informer lists every ingress anew, Start reads the ready nodes.  An event
\* that was not handled yet is lost with what it says about the old object.
Crash ==
    /\ Spend("crash")
    /\ cache' = [i \in Ingresses |-> None]
    /\ queue' = <<>>
    /\ knownNodes' = nodes
    /\ pass' = [nodes |-> {}, todo |-> {}]
    /\ run' = [p \in Processes |-> Idle]
    /\ Mark({i \in Ingresses : ~Quiet(i)}, "failed")
    /\ UNCHANGED <<cluster, vlb, applied>>

-----------------------------------------------------------------------------
Outside ==
    \/ \E i \in Ingresses : Apply(i) \/ Remove(i)
    \/ \E s \in Services : ChangeService(s)
    \/ ChangeNodes
    \/ FlagTick
    \/ ListFails
    \/ \E p \in Processes : CallFails(p) \/ DropFails(p)
    \/ Crash

Call(p) ==
    \/ Inspect(p) \/ InspectFails(p) \/ InspectCurrentLB(p)
    \/ FindPool(p) \/ CreatePool(p) \/ GetMemberPool(p) \/ UpdatePoolMember(p)
    \/ FindPolicy(p) \/ CreatePolicy(p) \/ GetPolicy(p) \/ UpdatePolicy(p)
    \/ FindOldPolicy(p) \/ DeletePolicy(p) \/ FindOldPool(p) \/ DeletePool(p)
    \/ EndLoop(p) \/ EndDrops(p) \/ UpdateStatus(p) \/ Refused(p)

SyncLoop == NodeTick \/ ListIngresses \/ SyncNext \/ EndPass

Next ==
    \/ Outside
    \/ \E i \in Ingresses : Deliver(i)
    \/ Take
    \/ SyncLoop
    \/ \E p \in Processes : Call(p)

\* The informer keeps delivering, the worker keeps taking events, the 60
\* second timer keeps firing, and a goroutine that can make a call makes it.
Fairness ==
    /\ \A i \in Ingresses : WF_vars(Deliver(i))
    /\ WF_vars(Take)
    /\ WF_vars(SyncLoop)
    /\ \A p \in Processes : WF_vars(Call(p))

Spec == Init /\ [][Next]_vars
FairSpec == Spec /\ Fairness

-----------------------------------------------------------------------------
(* Properties.                                                             *)

Run == [stage : Stages, call : Calls, k : Nat \ {0}, old : Object \cup {None},
        new : Object \cup {None}, seen : SUBSET AllPolicyNames,
        nodes : SUBSET Nodes, ports : [Services -> Ports \cup {None}]]

Event == [type : {"create", "update", "delete"}, obj : Object, old : Object \cup {None}]

\* Every variable has its type.  A busy run has an ingress to work on, and
\* between inspectIngress and the end it holds a node port for every service
\* of the ingress it ensures, as getServiceNodePort promises.
RunOK(r) ==
    /\ Busy(r) => Target(r) # None
    /\ r.stage \in {"current", "pool", "policy"} =>
         \A k \in DOMAIN Paths(r.new) : r.ports[Paths(r.new)[k].svc] # None
    /\ r.stage = "status" => r.new # None

TypeOK ==
    /\ store \in [Ingresses -> Object \cup {None}]
    /\ version \in [Ingresses -> Nat]
    /\ vip \in [Ingresses -> LBs \cup {None}]
    /\ nodes \in SUBSET Nodes
    /\ ports \in [Services -> Ports \cup {None}]
    /\ cache \in [Ingresses -> Object \cup {None}]
    /\ queue \in Seq(Event)
    /\ knownNodes \in SUBSET Nodes
    /\ pass \in [nodes : SUBSET Nodes, todo : SUBSET Object]
    /\ run \in [Processes -> Run]
    /\ \A p \in Processes : RunOK(run[p])
    /\ pool \in [LBs -> [AllPoolNames -> Members \cup {None}]]
    /\ policy \in [LBs -> [AllPolicyNames -> Policy \cup {None}]]
    /\ applied \in [Ingresses -> Object \cup {None}]
    /\ mishap \in [Ingresses -> SUBSET Reasons]
    /\ spent \in [Kinds -> Nat]

Spared(i, reasons) == mishap[i] \cap reasons = {}

\* The policies and pools of ingress i are exactly those the last object the
\* worker applied asks for, on its load balancer and on no other: create,
\* change, reorder, move behind TLS or delete, nothing is lost or left over
\* (actionCompareIngress).  Excused: a call failed, the event did not name
\* what was there, or a pass wrote a stale snapshot.
Holds(i, o) ==
    \A lb \in LBs :
        LET mine == o # None /\ o.spec.lb = lb
        IN  /\ {n \in AllPoolNames : n[1] = i /\ pool[lb][n] # None} =
                 IF mine THEN PoolNames(o) ELSE {}
            /\ {n \in AllPolicyNames : n[1] = i /\ policy[lb][n] # None} =
                 IF mine THEN PolicyNames(o) ELSE {}
            /\ mine => \A k \in DOMAIN Paths(o) :
                 policy[lb][PolicyName(o, Paths(o)[k])] = PolicyFor(o, Paths(o)[k])

AppliedExactly ==
    \A i \in Ingresses :
        ~WorksOn(Worker, i) /\ Spared(i, {"failed", "uncovered", "overlapped"})
            => Holds(i, applied[i])

\* When the worker has nothing left to do for an ingress, what it applied
\* last is the ingress the API server stores: no order of creates, updates,
\* class changes, deletions, skipped versions and restarts loses one.  An end
\* the informer could not see is forgiven only until the ingress is back.
SpecOf(o) == IF IsValid(o) THEN o.spec ELSE None

AppliedIsCurrent ==
    \A i \in Ingresses :
        Quiet(i) /\ Spared(i, {"failed"}) /\ (IsValid(store[i]) \/ Spared(i, {"unnoticed"}))
            => SpecOf(applied[i]) = SpecOf(store[i])

\* The queued events of an ingress follow from one another: an update's old
\* object is what the event before it asked for, a create comes first or
\* after a delete, nothing but a create comes after a delete, and the last
\* event is about what the informer delivered last.
EventsChain ==
    /\ \A m, n \in DOMAIN queue :
         m < n /\ queue[m].obj.key = queue[n].obj.key
           /\ (\A l \in m + 1 .. n - 1 : queue[l].obj.key # queue[n].obj.key)
         => /\ queue[n].type = "update" => queue[n].old.spec = queue[m].obj.spec
            /\ (queue[n].type = "create") = (queue[m].type = "delete")
    /\ \A n \in DOMAIN queue :
         LET e == queue[n]
         IN  (\A l \in n + 1 .. Len(queue) : queue[l].obj.key # e.obj.key)
             => IF e.type = "delete" THEN ~IsValid(cache[e.obj.key])
                ELSE SpecOf(e.obj) = SpecOf(cache[e.obj.key])

\* While the worker applies an update, a policy that both objects ask for
\* alike serves without interruption: it is never deleted, redirected or
\* rewritten on the way (ensure everything first, delete what is unused last).
\* Excused: a call failed, or a pass wrote a stale snapshot, and the policies
\* of the old object were not all there to begin with.
KeepsServing ==
    LET r == run[Worker]
        i == Target(r).key
    IN  Busy(r) /\ r.old # None /\ r.new # None /\ r.old.spec.lb = r.new.spec.lb
          /\ Spared(i, {"failed", "overlapped"})
          /\ applied[i] # None /\ applied[i].spec = r.old.spec
        => \A j \in DOMAIN Paths(r.old), k \in DOMAIN Paths(r.new) :
             Paths(r.old)[j] = Paths(r.new)[k] =>
               policy[LbOf(r)][PolicyName(r.new, Paths(r.new)[k])] = PolicyFor(r.new, Paths(r.new)[k])

\* A pool is deleted only when no policy redirects to it any more, so that
\* vLB never refuses and the error that is only logged never leaks a pool.
DropsUnusedPools ==
    \A p \in Processes :
        At(p, "dropPool", "delete") /\ Spared(Target(run[p]).key, {"failed", "uncovered", "overlapped"})
            => ~InUse(LbOf(run[p]), PoolName(run[p].old, Item(run[p])))

\* Between passes, and with knownNodes up to date, every pool of an ingress
\* has exactly the ready nodes as members: whatever the worker and the pass
\* were doing when the nodes changed, the next pass is due or the members
\* are right.  Excused: a call failed, a run wrote a list it had read before
\* the change when the pass was under way or over, or the nodes, or the
\* ingress, changed back to what the controller had seen last.
MembersFollowNodes ==
    \A i \in Ingresses :
        /\ run[Sync].stage = "idle" /\ nodes = knownNodes
        /\ Quiet(i) /\ IsValid(store[i])
        /\ Spared(i, {"failed", "outdated", "flapped"})
        => \A name \in PoolNames(store[i]) :
             LET members == pool[store[i].spec.lb][name]
             IN  members # None /\ {m[1] : m \in members} = nodes

\* Once the users stop, every ingress is settled: the informer, the queue
\* and the worker come to rest, and the pass has seen the last node change.
ComesToRest ==
    <>[](nodes = knownNodes /\ run[Sync].stage = "idle" /\ \A i \in Ingresses : Quiet(i))

-----------------------------------------------------------------------------
(* What the documents promise and the code does not do.                    *)

\* src/test/test2.md:40, "Delete a ingress, it'll delete policy and rule
\* relate to this ingress": nothing of a deleted ingress stays on a load
\* balancer once both goroutines are done, if the informer reported it and no
\* call for it failed.  Violated: a pass that listed the ingress before it was
\* deleted creates its policies anew after the worker deleted them.
DeletedIsGone ==
    \A i \in Ingresses :
        /\ store[i] = None /\ Quiet(i) /\ run[Sync].stage = "idle"
        /\ Spared(i, {"failed", "unnoticed"})
        => Holds(i, None)

\* src/test/test5.md:3, "When scale minion up or down, pool member must
\* update".  Violated: a pass that loses a race with the worker skips the
\* ingress, and knownNodes is set as if it had updated the members.
MembersAreReadyNodes ==
    \A i \in Ingresses :
        /\ run[Sync].stage = "idle" /\ nodes = knownNodes
        /\ Quiet(i) /\ IsValid(store[i])
        => \A name \in PoolNames(store[i]) :
             LET members == pool[store[i].spec.lb][name]
             IN  members # None /\ {m[1] : m \in members} = nodes

\* controller.go:311, "Failed to process obj (will retry)": an event whose
\* handling fails is handled again, so that every ingress is applied in the
\* end.  Violated: processItem returns nil whatever happened.
FailedIsRetried ==
    \A i \in Ingresses : <>[](Quiet(i) /\ SpecOf(applied[i]) = SpecOf(store[i]))
=============================================================================
