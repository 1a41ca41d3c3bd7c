---------------------------- MODULE DefaultPool ----------------------------
(***************************************************************************)
(* The default pool of a load balancer and isUpdateDefaultPool             *)
(* (src/pkg/ingress/controller/controller.go:241-289, 799-811, 984-994,    *)
(* 1184-1266).                                                             *)
(*                                                                         *)
(* All ingresses of a load balancer share one default pool.  Each run of   *)
(* ensureIngress reads its members, merges those of the ingress's default  *)
(* backend into them and writes the result, while the other goroutine may  *)
(* do the same.  The flag asks nodeSyncLoop to apply every ingress again.  *)
(*                                                                         *)
(* An ingress is what it says of its default backend.  A backend is the    *)
(* service and port it names, and with it a node port of its own.  The     *)
(* informer delivers each version at once: IngressController has the       *)
(* delays.  What ensureIngress does besides is left out.                   *)
(***************************************************************************)
EXTENDS Naturals, Sequences, FiniteSets

CONSTANTS
    Ingresses,   \* the namespaced names of Ingress objects
    Backends,    \* what a default backend may be: a service and a port
    Specs,       \* what the users write: a default backend, or None
    Prefixes,    \* <<b, c>>: the pool name of c begins with that of b
    Nodes,       \* the addresses of the nodes
    NodeSets,    \* the sets of them that may be ready
    None,        \* an ingress without a default backend
    Absent,      \* an ingress that does not exist
    Stores,      \* what may be stored when the controller starts
    Limit        \* how often each kind of outside event may happen

Worker == "worker"
Sync   == "sync"
Processes == {Worker, Sync}

Kinds == {"edit", "node", "trouble"}
Reasons == {"lost", "stray", "flapped"}

Ingress == Specs \cup {Absent}
Member  == [owner : Ingresses, node : Nodes, backend : Backends]

\* A name begins with itself.
ASSUME PrefixesAssumption == \A b \in Backends : <<b, b>> \in Prefixes

ASSUME BackendsAssumption ==
    /\ None \notin Backends /\ Absent \notin Backends /\ None # Absent
    /\ Specs \subseteq Backends \cup {None}

ASSUME NodesAssumption ==
    IsFiniteSet(Nodes) /\ IsFiniteSet(Backends) /\ NodeSets \subseteq SUBSET Nodes

ASSUME IngressesAssumption == IsFiniteSet(Ingresses)

ASSUME StoresAssumption == Stores \subseteq [Ingresses -> Ingress]

ASSUME LimitAssumption == Limit \in [Kinds -> Nat]

VARIABLES
    store,        \* the ingresses at the API server
    nodes,        \* the ready worker nodes
    queue,        \* c.queue
    run,          \* where each goroutine is
    flag,         \* c.isUpdateDefaultPool
    knownNodes,   \* c.knownNodes
    pass,         \* nodeSyncLoop's readyWorkerNodes and remaining ings.Items
    pool,         \* the members of the default pool
    mishap,       \* history: what happened that excuses a property
    spent         \* how many outside events of each kind happened

vars == <<store, nodes, queue, run, flag, knownNodes, pass, pool, mishap, spent>>

-----------------------------------------------------------------------------
(* Members.                                                                *)

\* Mutant: an ingress without a default backend is not told apart.
MembersOfAny(i, b, ns) == [owner : {i}, node : ns, backend : {b}]

\* inspectIngress: one member per ready node, named after the backend's pool.
MembersOf(i, b, ns) ==
    IF b \in Backends THEN [owner : {i}, node : ns, backend : {b}] ELSE {}

\* strings.HasPrefix of the names of two members
HasPrefix(m, c) == m.owner = c.owner /\ <<c.backend, m.backend>> \in Prefixes

\* CheckIfPoolMemberExist compares address and port, and no names.
SameAddress(m, c) == m.node = c.node /\ m.backend = c.backend
Exists(ms, m) == \E c \in ms : SameAddress(c, m)

\* Mutants: nothing of the old object is deleted; a member that is there
\* under another name is written again.
NeedDeleteNothing(old, new) == {}
MergeTwice(got, old, new) ==
    {m \in got : \A c \in new : ~HasPrefix(m, c)} \cup new

\* What is kept of the members that are there, and what is written.
NeedDelete(old, new) == {o \in old : ~Exists(new, o)}
Kept(got, old, new) ==
    {m \in got : (\A c \in new : ~HasPrefix(m, c)) /\ ~Exists(NeedDelete(old, new), m)}
Merge(got, old, new) ==
    Kept(got, old, new) \cup {c \in new : ~Exists(Kept(got, old, new), c)}

\* ComparePoolMembers: as many, and each of the second among the first.
SameMembers(ms, ns) ==
    Cardinality(ms) = Cardinality(ns) /\ \A m \in ns : Exists(ms, m)

-----------------------------------------------------------------------------
(* The goroutines.                                                         *)

Calls == {"idle", "list", "next", "get", "compare", "update"}

Idle == [call |-> "idle", key |-> None, new |-> Absent,
         oldMembers |-> {}, newMembers |-> {}, got |-> {}]

\* ensureIngress and deleteIngress up to the default pool: the members to
\* delete, like those to write, are those of the nodes that are ready now.
Begin(i, old, new) ==
    [Idle EXCEPT !.call = "get", !.key = i, !.new = new,
       !.oldMembers = MembersOf(i, old, nodes), !.newMembers = MembersOf(i, new, nodes)]

Return(p) == IF p = Worker THEN Idle ELSE [Idle EXCEPT !.call = "next"]

Busy(r) == r.call \in {"get", "compare", "update"}

Goto(p, r) == run' = [run EXCEPT ![p] = r]
At(p, call) == run[p].call = call

Written(r) == Merge(r.got, r.oldMembers, r.newMembers)

Event(i, old, new) == [key |-> i, old |-> old, new |-> new]

Spend(kind) ==
    /\ spent[kind] < Limit[kind]
    /\ spent' = [spent EXCEPT ![kind] = @ + 1]

Mark(why, if) == mishap' = mishap \cup IF if THEN {why} ELSE {}

\* Nothing is under way and nothing is due.
Rest ==
    /\ queue = <<>>
    /\ \A p \in Processes : At(p, "idle")
    /\ ~flag
    /\ nodes = knownNodes

\* The informer lists what is stored: a create for each, in any order.
Listed(stored) ==
    LET is == {i \in Ingresses : stored[i] # Absent}
        orders == {order \in [1 .. Cardinality(is) -> is] :
                      \A i \in is : \E j \in DOMAIN order : order[j] = i}
    IN  {[j \in DOMAIN order |-> Event(order[j], Absent, stored[order[j]])] : order \in orders}

Init ==
    /\ store \in Stores
    /\ nodes \in NodeSets
    /\ queue \in Listed(store)
    /\ run = [p \in Processes |-> Idle]
    /\ flag = FALSE
    /\ knownNodes = nodes
    /\ pass = [nodes |-> {}, todo |-> {}]
    /\ pool = {}
    /\ mishap = {}
    /\ spent = [kind \in Kinds |-> 0]

-----------------------------------------------------------------------------
(* The users, the cluster, and the worker's queue.                         *)

\* A user creates, changes or deletes an ingress; its event names the object
\* before and after.
Edit(i) ==
    /\ Spend("edit")
    /\ \E new \in Ingress \ {store[i]} :
        /\ store' = [store EXCEPT ![i] = new]
        /\ queue' = Append(queue, Event(i, store[i], new))
    /\ UNCHANGED <<nodes, run, flag, knownNodes, pass, pool, mishap>>

\* The nodes nodeSyncLoop will compare with next
Known == IF At(Sync, "idle") THEN knownNodes ELSE pass.nodes

\* When the nodes change back before the next tick no pass follows.
ChangeNodes ==
    /\ Spend("node")
    /\ \E ns \in NodeSets \ {nodes} :
        /\ nodes' = ns
        /\ Mark("flapped", ns = Known)
    /\ UNCHANGED <<store, queue, run, flag, knownNodes, pass, pool>>

\* The worker takes an event.  The members of the old object's nodes may not
\* be the ones that were written.
Take ==
    /\ At(Worker, "idle")
    /\ queue # <<>>
    /\ LET e == Head(queue)
       IN  /\ Goto(Worker, Begin(e.key, e.old, e.new))
           /\ Mark("stray", \E m \in pool :
                 m.owner = e.key /\ m.backend = e.old /\ m.node \notin nodes)
    /\ queue' = Tail(queue)
    /\ UNCHANGED <<store, nodes, flag, knownNodes, pass, pool, spent>>

-----------------------------------------------------------------------------
(* ensureDefaultPoolMember.                                                *)

GetMemberPool(p) ==
    /\ At(p, "get")
    /\ Goto(p, [run[p] EXCEPT !.call = "compare", !.got = pool])
    /\ UNCHANGED <<store, nodes, queue, flag, knownNodes, pass, pool, mishap, spent>>

\* Mutant: the flag is set before the members are compared.
CompareAlwaysAsks(p) ==
    /\ At(p, "compare")
    /\ flag' = TRUE
    /\ IF SameMembers(Written(run[p]), run[p].got)
       THEN Goto(p, Return(p))
       ELSE Goto(p, [run[p] EXCEPT !.call = "update"])
    /\ UNCHANGED <<store, nodes, queue, knownNodes, pass, pool, mishap, spent>>

\* The flag is set before the members are written.
CompareMembers(p) ==
    /\ At(p, "compare")
    /\ IF SameMembers(Written(run[p]), run[p].got)
       THEN Goto(p, Return(p)) /\ UNCHANGED flag
       ELSE Goto(p, [run[p] EXCEPT !.call = "update"]) /\ flag' = TRUE
    /\ UNCHANGED <<store, nodes, queue, knownNodes, pass, pool, mishap, spent>>

UpdatePoolMember(p) ==
    /\ At(p, "update")
    /\ pool' = Written(run[p])
    /\ LET outdated == p = Sync /\ run[p].new # store[run[p].key]
       IN  Mark("stray", outdated \/ pool # run[p].got)
    /\ Goto(p, Return(p))
    /\ UNCHANGED <<store, nodes, queue, flag, knownNodes, pass, spent>>

\* ensureIngress returns an error: nothing is tried again, and what was to be
\* deleted stays.
Fail(p) ==
    /\ Goto(p, Return(p))
    /\ mishap' = mishap \cup {"lost"} \cup (IF run[p].oldMembers # {} THEN {"stray"} ELSE {})
    /\ UNCHANGED <<store, nodes, queue, flag, knownNodes, pass, pool>>

CallFails(p) ==
    /\ Busy(run[p]) /\ ~At(p, "compare")
    /\ Spend("trouble")
    /\ Fail(p)

-----------------------------------------------------------------------------
(* nodeSyncLoop.                                                           *)

\* A tick reads the nodes and consumes the flag.  The pass will repair what
\* was lost, but not what the worker is about to write.
StartPass ==
    /\ At(Sync, "idle")
    /\ pass' = [nodes |-> nodes, todo |-> {}]
    /\ flag' = FALSE
    /\ Goto(Sync, [Idle EXCEPT !.call = "list"])
    /\ mishap' = (mishap \ {"lost", "flapped"}) \cup (IF At(Worker, "update") THEN {"lost"} ELSE {})
    /\ UNCHANGED <<store, nodes, queue, knownNodes, pool>>

Tick ==
    /\ flag \/ nodes # knownNodes
    /\ StartPass
    /\ UNCHANGED spent

\* A tracked secret changed: the same pass without the flag.
SecretTick ==
    /\ ~flag
    /\ Spend("trouble")
    /\ StartPass

ListIngresses ==
    /\ At(Sync, "list")
    /\ pass' = [pass EXCEPT !.todo = {<<i, store[i]>> : i \in {j \in Ingresses : store[j] # Absent}}]
    /\ Goto(Sync, [Idle EXCEPT !.call = "next"])
    /\ UNCHANGED <<store, nodes, queue, flag, knownNodes, pool, mishap, spent>>

\* The List call fails: the pass ends, and the flag it consumed is lost.
ListFails ==
    /\ At(Sync, "list")
    /\ Spend("trouble")
    /\ Goto(Sync, Idle)
    /\ pass' = [nodes |-> {}, todo |-> {}]
    /\ mishap' = mishap \cup {"lost"}
    /\ UNCHANGED <<store, nodes, queue, flag, knownNodes, pool>>

SyncNext ==
    /\ At(Sync, "next")
    /\ \E todo \in pass.todo :
        /\ pass' = [pass EXCEPT !.todo = @ \ {todo}]
        /\ Goto(Sync, Begin(todo[1], Absent, todo[2]))
    /\ UNCHANGED <<store, nodes, queue, flag, knownNodes, pool, mishap, spent>>

\* Mutant: the flag is consumed at the end of the pass.
EndPassClearing ==
    /\ At(Sync, "next")
    /\ pass.todo = {}
    /\ knownNodes' = pass.nodes
    /\ flag' = FALSE
    /\ pass' = [nodes |-> {}, todo |-> {}]
    /\ Goto(Sync, Idle)
    /\ UNCHANGED <<store, nodes, queue, pool, mishap, spent>>

EndPass ==
    /\ At(Sync, "next")
    /\ pass.todo = {}
    /\ knownNodes' = pass.nodes
    /\ pass' = [nodes |-> {}, todo |-> {}]
    /\ Goto(Sync, Idle)
    /\ UNCHANGED <<store, nodes, queue, flag, pool, mishap, spent>>

-----------------------------------------------------------------------------
\* The process ends and starts again: queue, stacks and flag are lost, and
\* the informer lists every ingress anew, which repairs all but deletions.
Crash ==
    /\ Spend("trouble")
    /\ queue' \in Listed(store)
    /\ run' = [p \in Processes |-> Idle]
    /\ flag' = FALSE
    /\ knownNodes' = nodes
    /\ pass' = [nodes |-> {}, todo |-> {}]
    /\ mishap' = (mishap \ {"lost", "flapped"})
         \cup (IF queue # <<>> \/ ~At(Worker, "idle") THEN {"stray"} ELSE {})
    /\ UNCHANGED <<store, nodes, pool>>

-----------------------------------------------------------------------------
Call(p) ==
    \/ GetMemberPool(p) \/ CompareMembers(p) \/ UpdatePoolMember(p)

SyncLoop == Tick \/ ListIngresses \/ SyncNext \/ EndPass

Next ==
    \/ \E i \in Ingresses : Edit(i)
    \/ ChangeNodes \/ SecretTick \/ ListFails \/ Crash
    \/ Take
    \/ SyncLoop
    \/ \E p \in Processes : Call(p) \/ CallFails(p)

\* The worker keeps taking events, the 60 second timer keeps firing, and a
\* goroutine that can make a call makes it.
Fairness ==
    /\ WF_vars(Take)
    /\ WF_vars(SyncLoop)
    /\ \A p \in Processes : WF_vars(Call(p))

Spec == Init /\ [][Next]_vars
FairSpec == Spec /\ Fairness

-----------------------------------------------------------------------------
(* Properties.                                                             *)

Spared(reasons) == mishap \cap reasons = {}

\* The lists that are compared and written have one member per address, so
\* that equal length and one inclusion mean the same members, as
\* ComparePoolMembers takes for granted, and vLB never gets one twice.
Distinct(ms) == \A m, c \in ms : SameAddress(m, c) => m = c

OneMemberPerAddress ==
    /\ Distinct(pool)
    /\ \A p \in Processes :
         run[p].call \in {"compare", "update"} => Distinct(run[p].got) /\ Distinct(Written(run[p]))

\* At rest every ingress has a default member on every ready node, although
\* the deletion of another ingress may have removed the members both use,
\* and two goroutines may have written what they read before the other wrote:
\* the flag makes up for it.  Excused, until the next pass begins: a call
\* failed, or the nodes changed back unnoticed; and a tick that consumed the
\* flag before the write it was set for.
DefaultsServed ==
    Rest /\ Spared({"lost", "flapped"}) =>
        \A i \in Ingresses : store[i] \in Backends =>
            \A n \in nodes : \E m \in pool : m.node = n /\ m.backend = store[i]

\* At rest the default pool has no member of a backend no ingress has, or of
\* a node that is not ready.  Excused like DefaultsServed, and: a deletion
\* failed or was cut short, an event removed the members of the nodes of that
\* moment instead of those that were there, a pass wrote an object of before,
\* or one goroutine wrote over the other.
NoStrays ==
    Rest /\ nodes # {} /\ Spared(Reasons) =>
        \A m \in pool : m.node \in nodes /\ \E i \in Ingresses : store[i] = m.backend

\* Once the users stop the passes that ask for passes come to an end: a pass
\* that finds nothing to write does not ask for another.
PassesEnd == <>[]Rest

Run == [call : Calls, key : Ingresses \cup {None}, new : Ingress,
        oldMembers : SUBSET Member, newMembers : SUBSET Member, got : SUBSET Member]

\* Every variable has its type, a busy run is about an ingress.
TypeOK ==
    /\ store \in [Ingresses -> Ingress]
    /\ nodes \in SUBSET Nodes
    /\ queue \in Seq([key : Ingresses, old : Ingress, new : Ingress])
    /\ run \in [Processes -> Run]
    /\ \A p \in Processes : Busy(run[p]) => run[p].key \in Ingresses
    /\ flag \in BOOLEAN
    /\ knownNodes \in SUBSET Nodes
    /\ pass \in [nodes : SUBSET Nodes, todo : SUBSET (Ingresses \X Ingress)]
    /\ pool \in SUBSET Member
    /\ mishap \in SUBSET Reasons
    /\ spent \in [Kinds -> Nat]
=============================================================================
