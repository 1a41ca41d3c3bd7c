---------------------------- MODULE MembersProofs ----------------------------
(***************************************************************************)
(* The members of the pools follow the nodes, for every set of ingresses,  *)
(* specs, nodes and bounds: MembersFollowNodes of IngressController.       *)
(* The invariant says of each pool of an ingress that has no event waiting *)
(* why it needs no attention now: its members are right, a pass is due or  *)
(* has it ahead, the worker has it ahead, or the users have changed the    *)
(* ingress and an event will come.                                         *)
(***************************************************************************)
EXTENDS AppliedExactlyProofs

\* The ingresses the property is about, before all else comes to rest: known
\* to the informer, no event waiting, nothing to excuse them.
Watched(i) ==
    /\ IsValid(cache[i])
    /\ \A n \in DOMAIN queue : queue[n].obj.key # i
    /\ Spared(i, {"failed", "outdated", "flapped"})

Right(members) == members # None /\ {m[1] : m \in members} = nodes

\* NodeTick will start a pass, at once or after the one under way.
Due == nodes # knownNodes /\ (run[Sync].stage = "idle" \/ nodes # pass.nodes)

\* The users want something else than what the informer delivered last.
Changed(i) == ~IsValid(store[i]) \/ store[i].spec # cache[i].spec

\* The object asks for the pools that ingress i is known to ask for.
Asks(o, i) == o # None /\ o.key = i /\ o.spec = cache[i].spec

\* A run will give the pool the nodes of now: it has not read them yet, or
\* has read these, and has not come to the last path with that pool.
Ahead(r, name) ==
    \/ r.stage = "inspect"
    \/ r.nodes = nodes /\ r.stage = "current"
    \/ /\ r.nodes = nodes /\ r.stage = "pool"
       /\ \E k \in DOMAIN Paths(r.new) : r.k <= k /\ PoolName(r.new, Paths(r.new)[k]) = name

WillWrite(p, i, name) == Asks(run[p].new, i) /\ Ahead(run[p], name)

PassWill(i, name) ==
    /\ run[Sync].stage # "idle" /\ nodes = pass.nodes /\ nodes # knownNodes
    /\ \/ run[Sync].stage = "list"
       \/ \E o \in pass.todo : Asks(o, i)
       \/ WillWrite(Sync, i, name)

PoolIn(i, name) == pool[cache[i].spec.lb][name]

Cared(i, name) ==
    \/ Right(PoolIn(i, name))
    \/ Due
    \/ PassWill(i, name)
    \/ WillWrite(Worker, i, name)
    \/ Changed(i)

Attended == \A i \in Ingresses : Watched(i) => \A name \in PoolNames(cache[i]) : Cared(i, name)

\* At rest, the members are right.
LEMMA FollowWhenAttended == TypeOK /\ Attended => MembersFollowNodes
<1> SUFFICES ASSUME TypeOK, Attended, NEW i \in Ingresses,
                    run[Sync].stage = "idle", nodes = knownNodes, Quiet(i), IsValid(store[i]),
                    Spared(i, {"failed", "outdated", "flapped"}),
                    NEW name \in PoolNames(store[i])
             PROVE  Right(pool[store[i].spec.lb][name])
  BY DEF MembersFollowNodes, Right
<1>1. cache[i] = store[i] /\ Watched(i)
  BY DEF Quiet, Watched
<1>2. Cared(i, name)
  BY <1>1 DEF Attended
<1>3. ~Due /\ ~PassWill(i, name) /\ ~Changed(i)
  BY <1>1 DEF Due, PassWill, Changed
<1>4. ~WillWrite(Worker, i, name)
  <2>1. SUFFICES ASSUME WillWrite(Worker, i, name) PROVE FALSE
    OBVIOUS
  <2>2. Busy(run[Worker]) /\ Target(run[Worker]).key = i
    BY <2>1 DEF WillWrite, Ahead, Asks, Busy, Target
  <2> QED
    BY <2>2 DEF Quiet, WorksOn
<1> QED
  BY <1>1, <1>2, <1>3, <1>4 DEF Cared, PoolIn

-----------------------------------------------------------------------------
(* What a step leaves of what was known about an ingress.                  *)

\* The informer knows the same spec as before.
SameSpec(i) ==
    /\ IsValid(cache[i]) /\ cache'[i] # None
    /\ cache'[i].spec = cache[i].spec /\ cache'[i].key = cache[i].key

\* The parts of the queue and the cache that a step can disturb.
LEMMA Notices ==
  ASSUME [Next]_vars
  PROVE  \/ UNCHANGED <<cache, queue>>
         \/ Crash
         \/ Take /\ cache' = cache /\ queue # <<>> /\ queue' = Tail(queue)
         \/ \E i \in Ingresses : Deliver(i)
BY DEF Next, Outside, Apply, Remove, ChangeService, ChangeNodes, FlagTick, ListFails,
     CallFails, DropFails, Fail, SyncLoop, NodeTick, StartPass, ListIngresses, Take,
     SyncNext, EndPass, controller, vars, Call, Inspect, InspectFails, InspectCurrentLB, FindPool,
     CreatePool, GetMemberPool, UpdatePoolMember, FindPolicy, CreatePolicy, GetPolicy,
     UpdatePolicy, WritePolicy, FindOldPolicy, DeletePolicy, FindOldPool, DeletePool,
     EndLoop, EndDrops, Refused, UpdateStatus

\* An ingress that is watched after a step was so before, with the same spec,
\* unless the step takes its last event.
LEMMA WatchedBefore ==
  ASSUME TypeOK, QueueInv, [Next]_vars, NEW i \in Ingresses, Watched(i)'
  PROVE  \/ Watched(i) /\ SameSpec(i)
         \/ Take /\ cache'[i] = cache[i] /\ queue # <<>> /\ Head(queue).obj.key = i
<1>0. queue \in Seq(Event) /\ Spared(i, {"failed", "outdated", "flapped"})
  BY MishapGrows DEF Watched, Spared, TypeOK
<1>1. CASE UNCHANGED <<cache, queue>>
  BY <1>0, <1>1 DEF Watched, SameSpec, IsValid
<1>2. CASE Crash
  BY <1>2 DEF Crash, Watched, IsValid
<1>3. CASE Take /\ cache' = cache /\ queue # <<>> /\ queue' = Tail(queue)
  <2>1. CASE Head(queue).obj.key = i
    BY <1>3, <2>1
  <2>2. CASE Head(queue).obj.key # i
    <3> DEFINE rest == Tail(queue)
    <3>1. /\ queue[1] = Head(queue)
          /\ \A n \in DOMAIN queue : n # 1 => n - 1 \in DOMAIN rest /\ queue[n] = rest[n - 1]
      BY <1>0, <1>3
    <3> HIDE DEF rest
    <3>2. \A n \in DOMAIN rest : rest[n].obj.key # i
      BY <1>3 DEF Watched, rest
    <3>3. \A n \in DOMAIN queue : queue[n].obj.key # i
      BY <2>2, <3>1, <3>2
    <3> QED
      BY <1>0, <1>3, <3>3 DEF Watched, SameSpec, IsValid
  <2> QED
    BY <2>1, <2>2
<1>4. ASSUME NEW j \in Ingresses, Deliver(j) PROVE Watched(i) /\ SameSpec(i)
  <2> DEFINE es == Events(cache[j], store[j])
  <2>1. cache' = [cache EXCEPT ![j] = store[j]] /\ queue' = queue \o es
    BY <1>4 DEF Deliver, Enqueue
  <2>2. /\ cache[j] \in Object \cup {None} /\ store[j] \in Object \cup {None}
        /\ IsValid(cache[j]) => cache[j] # None
        /\ IsValid(store[j]) => store[j] # None
    BY DEF TypeOK, IsValid
  <2>3. es \in Seq(Event)
    BY <2>2, EventsOK
  <2>4. /\ store[j] # None => store[j].key = j
        /\ cache[j] # None => cache[j].key = j
    BY DEF QueueInv, KeysOK
  <2>5. \A n \in DOMAIN queue : n \in DOMAIN queue' /\ queue'[n] = queue[n]
    <3> HIDE DEF es
    <3> QED
      BY <1>0, <2>1, <2>3
  <2>6. \A n \in DOMAIN queue : queue[n].obj.key # i
    BY <2>5 DEF Watched
  <2>7. CASE i # j
    <3>1. cache'[i] = cache[i]
      BY <2>1, <2>7 DEF TypeOK
    <3> QED
      BY <1>0, <2>6, <3>1 DEF Watched, SameSpec, IsValid
  <2>8. CASE i = j
    <3>1. cache'[i] = store[i] /\ IsValid(store[i])
      BY <2>1, <2>8 DEF TypeOK, Watched, IsValid
    <3>2. es = <<>> \/ (es[1].obj.key = i /\ 1 \in DOMAIN es)
      <4>1. store[j].key = i
        BY <2>2, <2>4, <2>8, <3>1
      <4>2. \/ es = <<>> \/ es = CreateEvent(store[j]) \/ es = UpdateEvent(cache[j], store[j])
        BY <2>8, <3>1 DEF Events
      <4>3. es = <<>> \/ \E e : es = <<e>> /\ e.obj = store[j]
        <5> HIDE DEF es
        <5> QED
          BY <4>2 DEF CreateEvent, UpdateEvent
      <4>4. \A e : 1 \in DOMAIN <<e>> /\ <<e>>[1] = e
        OBVIOUS
      <4> HIDE DEF es
      <4> QED
        BY <4>1, <4>3, <4>4
    <3>3. 1 \in DOMAIN es => Len(queue) + 1 \in DOMAIN queue' /\ queue'[Len(queue) + 1] = es[1]
      <4> HIDE DEF es
      <4> QED
        BY <1>0, <2>1, <2>3
    <3>4. es = <<>>
      BY <3>2, <3>3 DEF Watched
    <3>5. IsValid(cache[i]) /\ store[i].spec = cache[i].spec
      BY <2>8, <3>1, <3>4 DEF Events, CreateEvent, UpdateEvent, DeleteEvent
    <3> QED
      BY <1>0, <2>2, <2>4, <2>6, <2>8, <3>1, <3>5 DEF Watched, SameSpec
  <2> QED
    BY <2>7, <2>8
<1> QED
  BY <1>1, <1>2, <1>3, <1>4, Notices

-----------------------------------------------------------------------------
(* The users.                                                              *)

\* What changes the stored objects.
LEMMA StoreWrites ==
  ASSUME [Next]_vars
  PROVE  \/ store' = store
         \/ \E i \in Ingresses : \E o : Store(i, o)
         \/ \E p \in Processes : UpdateStatus(p)
BY DEF Next, Outside, Apply, Remove, ChangeService, ChangeNodes, FlagTick, ListFails,
     CallFails, DropFails, Crash, Fail, SyncLoop, NodeTick, StartPass, ListIngresses, Take, Deliver,
     SyncNext, EndPass, cluster, vars, Call, Inspect, InspectFails, InspectCurrentLB, FindPool,
     CreatePool, GetMemberPool, UpdatePoolMember, FindPolicy, CreatePolicy, GetPolicy,
     UpdatePolicy, WritePolicy, FindOldPolicy, DeletePolicy, FindOldPool, DeletePool,
     EndLoop, EndDrops, Refused

\* A change the users take back before the informer sees it is an excuse, and
\* a status does not take it back.
LEMMA ChangedStays ==
  ASSUME TypeOK, [Next]_vars, NEW i \in Ingresses, Watched(i)', SameSpec(i), Changed(i)
  PROVE  Changed(i)'
<1>0. store \in [Ingresses -> Object \cup {None}] /\ "flapped" \notin mishap'[i]
  BY DEF TypeOK, Watched, Spared
<1>1. CASE store' = store
  BY <1>1 DEF Changed, SameSpec, IsValid
<1>2. ASSUME NEW j \in Ingresses, NEW o, Store(j, o) PROVE Changed(i)'
  <2>1. store' = [store EXCEPT ![j] = o]
    BY <1>2 DEF Store
  <2>2. CASE i # j
    <3>1. store'[i] = store[i]
      BY <1>0, <2>1, <2>2
    <3> QED
      BY <3>1 DEF Changed, SameSpec, IsValid
  <2>3. CASE i = j
    <3>1. store'[i] = o
      BY <1>0, <2>1, <2>3
    <3>2. ~Unnoticed(i, o)
      BY DEF Unnoticed, SameSpec, IsValid
    <3>3. ~Reverted(i, o)
      <4>1. SUFFICES ASSUME Reverted(i, o) PROVE FALSE
        OBVIOUS
      <4>2. Mark({i}, "flapped")
        BY <1>2, <2>3, <3>2, <4>1 DEF Store
      <4> QED
        BY <1>0, <4>2, MarkedReached
    <3> QED
      BY <3>1, <3>3 DEF Reverted, Changed, SameSpec, IsValid
  <2> QED
    BY <2>2, <2>3
<1>3. ASSUME NEW p \in Processes, UpdateStatus(p) PROVE Changed(i)'
  <2> DEFINE o == run[p].new
  <2>1. \/ store' = store
        \/ o.key \in Ingresses /\ store[o.key] # None /\ store' = [store EXCEPT ![o.key].rv = @ + 1]
    <3>1. run[p].stage = "status" /\ run[p] \in Run /\ RunOK(run[p])
      BY <1>3 DEF UpdateStatus, TypeOK
    <3>2. o \in Object
      BY <3>1 DEF RunOK, Run
    <3> QED
      BY <1>3, <3>2 DEF UpdateStatus, Object
  <2> HIDE DEF o
  <2>2. CASE store' = store
    BY <1>1, <2>2
  <2>3. CASE /\ o.key \in Ingresses /\ store[o.key] # None
             /\ store' = [store EXCEPT ![o.key].rv = @ + 1]
    <3>1. store[o.key] \in Object
      BY <1>0, <2>3
    <3> DEFINE s2 == [store[o.key] EXCEPT !.rv = @ + 1]
    <3>2. s2.spec = store[o.key].spec /\ s2 \in Object
      BY <3>1 DEF Object
    <3>3. store' = [store EXCEPT ![o.key] = s2]
      BY <2>3
    <3> HIDE DEF s2
    <3>4. store'[i] = IF i = o.key THEN s2 ELSE store[i]
      BY <1>0, <2>3, <3>3
    <3>5. IsValid(store'[i]) <=> IsValid(store[i])
      BY <2>3, <3>2, <3>4, NoneAssumption DEF IsValid
    <3>6. store'[i].spec = store[i].spec
      BY <3>2, <3>4
    <3>7. IsValid(store[i])' <=> IsValid(store'[i])
      BY DEF IsValid
    <3> QED
      BY <3>5, <3>6, <3>7 DEF Changed, SameSpec
  <2> QED
    BY <2>1, <2>2, <2>3
<1> QED
  BY <1>1, <1>2, <1>3, StoreWrites

-----------------------------------------------------------------------------
(* nodeSyncLoop and the nodes.                                             *)

\* What an object asks for, what a run will do, and what is right stay as
\* they are while what they depend on does.
LEMMA SameAsks ==
  ASSUME NEW i \in Ingresses, SameSpec(i)
  PROVE  /\ PoolNames(cache[i])' = PoolNames(cache[i])
         /\ \A name : PoolIn(i, name)' = pool'[cache[i].spec.lb][name]
         /\ \A o \in pass.todo : Asks(o, i) => o # None /\ o.key = i /\ o.spec = cache'[i].spec
         /\ \A p \in Processes : \A name :
              run'[p] = run[p] /\ nodes' = nodes => (WillWrite(p, i, name)' <=> WillWrite(p, i, name))
<1>1. cache[i] # None /\ cache'[i] # None /\ cache'[i].spec = cache[i].spec /\ cache'[i].key = cache[i].key
  BY DEF SameSpec, IsValid
<1>2. PoolNames(cache[i])' = PoolNames(cache[i])
  BY <1>1 DEF PoolNames, PoolName, Paths
<1> QED
  BY <1>1, <1>2 DEF PoolIn, Asks, WillWrite, Ahead

\* A new list of nodes is noticed, or is the one the controller compares with.
LEMMA NodesCared ==
  ASSUME TypeOK, NEW i \in Ingresses, Watched(i)', ChangeNodes, NEW name
  PROVE  Cared(i, name)'
<1>1. "flapped" \notin mishap'[i]
  BY DEF Watched, Spared
<1>2. PICK ns \in SUBSET Nodes :
        /\ nodes' = ns
        /\ IF ns = knownNodes \/ (run[Sync].stage # "idle" /\ ns = pass.nodes)
           THEN Mark(Ingresses, "flapped") ELSE UNCHANGED mishap
  BY DEF ChangeNodes
<1>3. ~(ns = knownNodes \/ (run[Sync].stage # "idle" /\ ns = pass.nodes))
  BY <1>1, <1>2, MarkedReached
<1>4. UNCHANGED <<knownNodes, run, pass>>
  BY DEF ChangeNodes, controller
<1>5. Due'
  BY <1>2, <1>3, <1>4 DEF Due
<1> QED
  BY <1>5 DEF Cared

\* A pass begins with what is due; it lists every ingress as it is stored.
LEMMA PassCared ==
  ASSUME TypeOK, Fitting, QueueInv, [Next]_vars, NEW i \in Ingresses, Watched(i), SameSpec(i),
         Changed(i) => Changed(i)', NEW name, Cared(i, name),
         SyncLoop \/ FlagTick \/ ListFails
  PROVE  Cared(i, name)'
<1>0. /\ run \in [Processes -> Run] /\ Sync \in Processes /\ Worker \in Processes /\ Sync # Worker
      /\ pass \in [nodes : SUBSET Nodes, todo : SUBSET Object]
      /\ store \in [Ingresses -> Object \cup {None}]
      /\ cache[i] # None /\ cache[i].key = i
  BY DEF TypeOK, Processes, Sync, Worker, Watched, IsValid, QueueInv, KeysOK
<1>1. nodes' = nodes /\ pool' = pool
  BY DEF SyncLoop, FlagTick, ListFails, NodeTick, StartPass, ListIngresses, SyncNext, EndPass,
     cluster, vlb
<1>2. \A r : Goto(Sync, r) => run'[Sync] = r /\ run'[Worker] = run[Worker]
  BY <1>0 DEF Goto
<1>3. run'[Worker] = run[Worker]
  BY <1>2 DEF SyncLoop, FlagTick, ListFails, NodeTick, StartPass, ListIngresses, SyncNext, EndPass
<1>4. Right(PoolIn(i, name)) => Right(PoolIn(i, name))'
  BY <1>1, SameAsks DEF Right, PoolIn
<1>5. WillWrite(Worker, i, name) => WillWrite(Worker, i, name)'
  BY <1>0, <1>1, <1>3, SameAsks
<1>6. SUFFICES ASSUME Due \/ PassWill(i, name) PROVE Due' \/ PassWill(i, name)' \/ Changed(i)'
  BY <1>4, <1>5 DEF Cared
<1>7. CASE NodeTick \/ FlagTick
  <2>1. StartPass
    BY <1>7 DEF NodeTick, FlagTick
  <2>2. /\ run[Sync].stage = "idle" /\ knownNodes' = knownNodes
        /\ pass'.nodes = nodes /\ Goto(Sync, [Idle EXCEPT !.stage = "list"])
    BY <2>1 DEF StartPass
  <2>3. run'[Sync].stage = "list"
    BY <1>2, <2>2 DEF Idle
  <2>4. nodes # knownNodes
    BY <1>6, <2>2 DEF Due, PassWill
  <2> QED
    BY <1>1, <2>2, <2>3, <2>4 DEF PassWill
<1>8. CASE ListFails
  <2>1. run'[Sync] = Idle /\ knownNodes' = knownNodes
    BY <1>2, <1>8 DEF ListFails
  <2>2. nodes # knownNodes
    BY <1>6 DEF Due, PassWill
  <2> QED
    BY <1>1, <2>1, <2>2 DEF Due, Idle
<1>9. CASE ListIngresses
  <2>1. /\ run[Sync].stage = "list" /\ knownNodes' = knownNodes /\ store' = store
        /\ pass'.nodes = pass.nodes
        /\ pass'.todo = {store[j] : j \in {j \in Ingresses : IsValid(store[j])}}
        /\ Goto(Sync, [Idle EXCEPT !.stage = "next"])
    BY <1>0, <1>9 DEF ListIngresses, cluster
  <2>2. run'[Sync].stage = "next"
    BY <1>2, <2>1 DEF Idle
  <2>3. CASE Due
    BY <1>1, <2>1, <2>2, <2>3 DEF Due
  <2>4. CASE Changed(i)
    BY <2>4
  <2>5. CASE PassWill(i, name) /\ ~Changed(i)
    <3>1. IsValid(store[i]) /\ store[i].spec = cache[i].spec
      BY <2>5 DEF Changed
    <3>2. store[i] \in pass'.todo
      BY <2>1, <3>1
    <3>3. store[i] # None /\ store[i].key = i
      BY <3>1 DEF IsValid, QueueInv, KeysOK
    <3>4. cache'[i].spec = cache[i].spec
      BY DEF SameSpec
    <3>5. Asks(store[i], i)'
      BY <2>1, <3>1, <3>3, <3>4 DEF Asks
    <3> QED
      BY <1>1, <2>1, <2>2, <2>5, <3>2, <3>5 DEF PassWill
  <2> QED
    BY <1>6, <2>3, <2>4, <2>5
<1>10. CASE SyncNext
  <2>1. PICK o \in pass.todo : pass' = [pass EXCEPT !.todo = @ \ {o}] /\ Goto(Sync, Begin(None, o))
    BY <1>10 DEF SyncNext
  <2>2. /\ run[Sync].stage = "next" /\ knownNodes' = knownNodes
        /\ pass'.nodes = pass.nodes /\ pass'.todo = pass.todo \ {o}
    BY <1>0, <1>10, <2>1 DEF SyncNext
  <2>3. run'[Sync].stage = "inspect" /\ run'[Sync].new = o
    <3>1. Begin(None, o).stage = "inspect" /\ Begin(None, o).new = o
      BY DEF Begin, Idle
    <3> QED
      BY <1>2, <2>1, <3>1
  <2>4. CASE Due
    BY <1>1, <2>2, <2>3, <2>4 DEF Due
  <2>5. CASE PassWill(i, name)
    <3>1. PICK o2 \in pass.todo : Asks(o2, i)
      BY <2>2, <2>5 DEF PassWill, WillWrite, Ahead
    <3>2. o2 # None /\ o2.key = i /\ o2.spec = cache'[i].spec
      BY <3>1, SameAsks
    <3>3. CASE o2 = o
      <4>1. WillWrite(Sync, i, name)'
        BY <2>3, <3>2, <3>3 DEF WillWrite, Asks, Ahead
      <4> QED
        BY <1>1, <2>2, <2>3, <2>5, <4>1 DEF PassWill
    <3>4. CASE o2 # o
      <4>1. o2 \in pass'.todo
        BY <2>2, <3>4
      <4>2. \E o3 \in pass'.todo : o3 # None /\ o3.key = i /\ o3.spec = cache'[i].spec
        BY <3>2, <4>1
      <4> QED
        BY <1>1, <2>2, <2>3, <2>5, <4>2 DEF PassWill, Asks
    <3> QED
      BY <3>3, <3>4
  <2> QED
    BY <1>6, <2>4, <2>5
<1>11. CASE EndPass
  <2>1. /\ run[Sync].stage = "next" /\ pass.todo = {} /\ knownNodes' = pass.nodes
        /\ run'[Sync].stage = "idle"
    BY <1>2, <1>11 DEF EndPass, KnownAfterPass, Idle
  <2>2. ~PassWill(i, name)
    BY <2>1 DEF PassWill, WillWrite, Ahead
  <2> QED
    BY <1>1, <1>6, <2>1, <2>2 DEF Due
<1> QED
  BY <1>7, <1>8, <1>9, <1>10, <1>11 DEF SyncLoop

-----------------------------------------------------------------------------
(* The worker takes an event.                                              *)

\* The event of another ingress changes nothing.
LEMMA OtherTaken ==
  ASSUME TypeOK, NEW i \in Ingresses, SameSpec(i), Changed(i) => Changed(i)',
         NEW name, Cared(i, name), Take
  PROVE  Cared(i, name)'
<1>0. /\ UNCHANGED <<nodes, knownNodes, pass, pool>>
      /\ run[Worker].stage = "idle" /\ \E r : Goto(Worker, r)
  BY DEF Take, cluster, vlb
<1>1. run'[Sync] = run[Sync] /\ Sync \in Processes
  BY <1>0 DEF Goto, TypeOK, Processes, Sync, Worker
<1>2. ~WillWrite(Worker, i, name)
  BY <1>0 DEF WillWrite, Ahead
<1>3. Right(PoolIn(i, name)) => Right(PoolIn(i, name))'
  BY <1>0, SameAsks DEF Right, PoolIn
<1>4. Due => Due'
  BY <1>0, <1>1 DEF Due
<1>5. WillWrite(Sync, i, name) => WillWrite(Sync, i, name)'
  BY <1>0, <1>1, SameAsks
<1>6. \A o \in pass.todo : Asks(o, i) => Asks(o, i)'
  BY <1>0, SameAsks DEF Asks
<1>7. PassWill(i, name) => PassWill(i, name)'
  BY <1>0, <1>1, <1>5, <1>6 DEF PassWill
<1> QED
  BY <1>2, <1>3, <1>4, <1>7 DEF Cared

\* The last event of an ingress is about what the informer delivered last:
\* the worker will see to all of its pools.
LEMMA LastTaken ==
  ASSUME TypeOK, WorksOnLatest', NEW i \in Ingresses, Watched(i)', cache'[i] = cache[i],
         Take, Head(queue).obj.key = i, NEW name
  PROVE  Cared(i, name)'
<1> DEFINE e == Head(queue)
           r == run'[Worker]
<1>1. r = RunOf(e)
  BY DEF Take, Goto, TypeOK, Processes
<1>2. e \in Event
  <2>1. queue \in Seq(Event) /\ queue # <<>>
    BY DEF Take, TypeOK
  <2> QED
    BY <2>1
<1>3. e.obj # None /\ e.obj.key = i
  BY <1>2, NoneAssumption DEF Event
<1>4. /\ r.stage = "inspect"
      /\ r.new = IF e.type = "delete" THEN None ELSE e.obj
      /\ r.old = IF e.type = "delete" THEN e.obj ELSE e.old
  <2>1. \A old, new : /\ Begin(old, new).stage = "inspect"
                      /\ Begin(old, new).old = old /\ Begin(old, new).new = new
    BY DEF Begin, Idle
  <2> QED
    BY <1>1, <2>1 DEF RunOf
<1>5. Applying(r) /\ Target(r).key = i
  BY <1>3, <1>4 DEF Applying, Busy, Target
<1>6. SpecOf(r.new) = SpecOf(cache'[i])
  <2>1. \A n \in DOMAIN queue' : queue'[n].obj.key # i
    BY DEF Watched
  <2> HIDE DEF e
  <2> QED
    BY <1>5, <2>1 DEF WorksOnLatest, SpecOf, IsValid, Applying, Busy, Target
<1>7. IsValid(cache'[i]) /\ cache'[i] \in Object
  BY DEF Watched, IsValid, TypeOK
<1>8. SpecOf(cache'[i]) = cache'[i].spec /\ cache'[i].spec # None
  BY <1>7, SpecOfOK
<1>9. IsValid(r.new) /\ r.new.spec = cache'[i].spec
  BY <1>6, <1>8 DEF SpecOf
<1>10. r.new # None /\ r.new.key = i
  BY <1>3, <1>4, <1>9 DEF IsValid
<1> HIDE DEF e
<1>11. WillWrite(Worker, i, name)'
  BY <1>4, <1>9, <1>10 DEF WillWrite, Asks, Ahead
<1> QED
  BY <1>11 DEF Cared

-----------------------------------------------------------------------------
(* A call of either goroutine.                                             *)

\* What a call has to respect.
LEMMA CallCarries ==
  ASSUME TypeOK, NEW i \in Ingresses, SameSpec(i), Changed(i) => Changed(i)',
         NEW name, Cared(i, name),
         UNCHANGED <<nodes, knownNodes, pass>>,
         (run'[Sync].stage = "idle") <=> (run[Sync].stage = "idle"),
         (run[Sync].stage = "list") => (run'[Sync].stage = "list"),
         Right(PoolIn(i, name)) => Right(PoolIn(i, name))' \/ Due,
         \A p \in Processes : WillWrite(p, i, name) =>
            WillWrite(p, i, name)' \/ Right(PoolIn(i, name))' \/ Due
  PROVE  Cared(i, name)'
<1>1. Due => Due'
  BY DEF Due
<1>2. \A o \in pass.todo : Asks(o, i) => Asks(o, i)'
  BY SameAsks DEF Asks
<1>3. PassWill(i, name) => PassWill(i, name)' \/ Right(PoolIn(i, name))' \/ Due
  BY <1>2 DEF PassWill, Processes
<1> QED
  BY <1>1, <1>3 DEF Cared, Processes

\* The members a run writes are the nodes it read.
LEMMA MembersAre ==
  ASSUME TypeOK, NEW p \in Processes, run[p].stage \in {"pool", "policy"},
         run[p].k <= Len(Items(run[p]))
  PROVE  /\ MembersFor(run[p], Item(run[p]).svc) # None
         /\ {m[1] : m \in MembersFor(run[p], Item(run[p]).svc)} = run[p].nodes
<1>1. RunsOK /\ run[p] \in Run
  BY DEF RunsOK, TypeOK
<1> DEFINE port == run[p].ports[Item(run[p]).svc]
           ns == run[p].nodes
<1>2. port \in Ports /\ ns \in SUBSET Nodes
  BY <1>1, ItemOK DEF Run
<1>3. MembersFor(run[p], Item(run[p]).svc) = ns \X {port}
  BY DEF MembersFor
<1> HIDE DEF port, ns
<1>4. ns \X {port} \in SUBSET (Nodes \X Ports)
  BY <1>2
<1>5. {m[1] : m \in ns \X {port}} = ns
  <2>1. \A n \in ns : <<n, port>> \in ns \X {port} /\ <<n, port>>[1] = n
    OBVIOUS
  <2>2. \A m \in ns \X {port} : m[1] \in ns
    OBVIOUS
  <2> QED
    BY <2>1, <2>2
<1> QED
  BY <1>3, <1>4, <1>5, NoneAssumption DEF ns

\* The pool of an item is that of the ingress the run asks for.
LEMMA ItemPool ==
  ASSUME TypeOK, Fitting, QueueInv, NEW p \in Processes,
         run[p].stage \in {"pool", "policy"}, run[p].k <= Len(Items(run[p])),
         NEW i \in Ingresses, Asks(run[p].new, i),
         NEW name, PoolName(run[p].new, Item(run[p])) = name
  PROVE  /\ PoolIn(i, name) = PoolOf(run[p])
         /\ LbOf(run[p]) = cache[i].spec.lb /\ cache[i].spec.lb \in LBs
         /\ name \in AllPoolNames /\ Target(run[p]).key = i
<1>1. /\ LbOf(run[p]) = run[p].new.spec.lb /\ LbOf(run[p]) \in LBs
      /\ PoolName(run[p].new, Item(run[p])) \in AllPoolNames
      /\ run[p].new.key = Target(run[p]).key
  BY NewItem DEF Fitting
<1> QED
  BY <1>1 DEF PoolIn, PoolOf, Asks

\* Right members stay right: they are overwritten with a list of before only
\* when a pass is due, and the pool is not deleted.
LEMMA RightKept ==
  ASSUME TypeOK, Fitting, QueueInv, WorksOnLatest, [Next]_vars, NEW i \in Ingresses,
         Watched(i), Watched(i)', SameSpec(i), nodes' = nodes,
         NEW name \in PoolNames(cache[i]), Right(PoolIn(i, name))
  PROVE  Right(PoolIn(i, name))' \/ Due
<1> DEFINE lb == cache[i].spec.lb
<1>0. /\ cache[i] \in Object /\ cache[i] # None /\ cache[i].key = i
      /\ lb \in LBs /\ name \in AllPoolNames /\ name[1] = i
  <2>1. cache[i] \in Object \cup {None} /\ cache[i] # None /\ cache[i].key = i
    BY DEF TypeOK, Watched, IsValid, QueueInv, KeysOK
  <2> QED
    BY <2>1, NamesOK DEF PoolNames
<1>1. PoolIn(i, name) = pool[lb][name] /\ PoolIn(i, name)' = pool'[lb][name]
  BY SameAsks DEF PoolIn
<1> HIDE DEF lb
<1>2. CASE pool'[lb][name] = pool[lb][name]
  BY <1>1, <1>2 DEF Right
<1>3. ASSUME NEW p \in Processes, CreatePool(p) PROVE pool'[lb][name] = pool[lb][name]
  <2>1. /\ OnePool(p, PoolName(run[p].new, Item(run[p])), {})
        /\ PoolOf(run[p]) = None
    BY <1>3, PoolWrites DEF CreatePool, Fitting
  <2>2. pool[lb][name] # None
    BY <1>1 DEF Right
  <2> QED
    BY <1>0, <2>1, <2>2 DEF OnePool, PoolOf
<1>4. ASSUME NEW p \in Processes, UpdatePoolMember(p)
      PROVE  pool'[lb][name] = pool[lb][name] \/ Right(PoolIn(i, name))' \/ Due
  <2> DEFINE mine == PoolName(run[p].new, Item(run[p]))
             ms == MembersFor(run[p], Item(run[p]).svc)
  <2>1. OnePool(p, mine, ms)
    BY <1>4, PoolWrites DEF Fitting
  <2>2. run[p].stage = "pool" /\ run[p].k <= Len(Items(run[p]))
    BY <1>4 DEF UpdatePoolMember, At
  <2>3. ms # None /\ {m[1] : m \in ms} = run[p].nodes
    BY <2>2, MembersAre
  <2>4. mine[1] = Target(run[p]).key
    BY <2>2, NewItem DEF Fitting
  <2>5. CASE run[p].nodes = nodes
    <3> HIDE DEF ms, mine
    <3>1. pool'[lb][name] = pool[lb][name] \/ pool'[lb][name] = ms
      BY <1>0, <2>1 DEF OnePool
    <3>2. pool'[lb][name] = ms => Right(PoolIn(i, name))'
      BY <1>1, <2>3, <2>5 DEF Right
    <3> QED
      BY <3>1, <3>2
  <2>6. CASE Outdated(p)
    <3>1. Mark({Target(run[p]).key}, "outdated")
      BY <1>4, <2>6 DEF UpdatePoolMember
    <3>2. Target(run[p]).key # i
      <4>1. SUFFICES ASSUME Target(run[p]).key = i PROVE FALSE
        OBVIOUS
      <4>2. "outdated" \in mishap'[i]
        BY <3>1, <4>1, MarkedReached
      <4> QED
        BY <4>2 DEF Watched, Spared
    <3> HIDE DEF ms, mine
    <3> QED
      BY <1>0, <2>1, <2>4, <3>2 DEF OnePool
  <2>7. CASE run[p].nodes # nodes /\ ~Outdated(p)
    BY <2>7 DEF Outdated, Due
  <2> QED
    BY <2>5, <2>6, <2>7
<1>5. ASSUME NEW p \in Processes, DeletePool(p) PROVE pool'[lb][name] = pool[lb][name]
  <2> DEFINE r == run[p]
             mine == PoolName(r.old, Item(r))
  <2>1. /\ r.stage = "dropPool" /\ r.k <= Len(Items(r)) /\ r.call = "delete"
        /\ RunsFit /\ RunFits(r) /\ Busy(r)
    BY <1>5 DEF DeletePool, At, Fitting, RunsFit, Busy
  <2>2. pool' = pool \/ OnePool(p, mine, None)
    BY <1>5, <2>1, PoolWrites
  <2>3. mine[1] = Target(r).key /\ r.k \in DOMAIN Paths(r.old)
    BY <2>1, OldItem
  <2>4. mine \notin PoolNames(r.new)
    BY <2>1 DEF RunFits, RedundantPool
  <2>5. p = Worker
    <3>1. p = Sync => Paths(r.old) = <<>>
      BY DEF Fitting, PassFits, Paths
    <3> QED
      BY <2>3, <3>1 DEF Processes
  <2>6. mine # name
    <3>1. SUFFICES ASSUME mine = name PROVE FALSE
      OBVIOUS
    <3>2. Target(r).key = i
      BY <1>0, <2>3, <3>1
    <3>3. Applying(r)
      BY <2>1 DEF Applying
    <3>4. SpecOf(r.new) = SpecOf(cache[i])
      BY <2>5, <3>2, <3>3 DEF WorksOnLatest, Watched
    <3>5. SpecOf(r.new) = cache[i].spec /\ cache[i].spec # None
      BY <1>0, <3>4, SpecOfOK DEF Watched
    <3>6. r.new # None /\ r.new.spec = cache[i].spec
      BY <3>5 DEF SpecOf, IsValid
    <3>7. r.new.key = i
      BY <2>1, <3>2, <3>6, BusyOK
    <3>8. PoolNames(r.new) = PoolNames(cache[i])
      BY <1>0, <3>6, <3>7 DEF PoolNames, PoolName, Paths
    <3> QED
      BY <2>4, <3>1, <3>8
  <2> HIDE DEF mine
  <2> QED
    BY <1>0, <2>2, <2>6 DEF OnePool
<1> QED
  BY <1>2, <1>3, <1>4, <1>5, Unwritten

\* A run that has a pool ahead still has it ahead after its next step, or the
\* members are right now, or a pass is due: a run that ends early is excused.
LEMMA AheadKept ==
  ASSUME TypeOK, Fitting, QueueInv, NEW p \in Processes, Call(p) \/ CallFails(p) \/ DropFails(p),
         NEW i \in Ingresses, Watched(i)', SameSpec(i), nodes' = nodes,
         NEW name \in PoolNames(cache[i]), WillWrite(p, i, name)
  PROVE  WillWrite(p, i, name)' \/ Right(PoolIn(i, name))' \/ Due
<1> DEFINE r == run[p]
           r2 == run'[p]
<1>0. /\ r \in Run /\ run \in [Processes -> Run] /\ RunFits(r) /\ RunsFit
      /\ r.new # None /\ r.new.key = i /\ r.new.spec = cache[i].spec
      /\ cache'[i].spec = cache[i].spec
      /\ cache[i] # None /\ cache[i].key = i /\ cache[i] \in Object
  BY DEF TypeOK, Fitting, RunsFit, WillWrite, Asks, SameSpec, IsValid, QueueInv, KeysOK
<1>1. /\ r.stage \in {"inspect", "current", "pool"} /\ Busy(r) /\ Target(r).key = i
      /\ r.stage # "inspect" => r.nodes = nodes
  BY <1>0 DEF WillWrite, Ahead, Busy, Target
<1>2. PoolNames(r.new) = PoolNames(cache[i])
  BY <1>0 DEF PoolNames, PoolName, Paths
<1>3. \A r3 : Goto(p, r3) => r2 = r3
  BY <1>0 DEF Goto
<1>4. ~Mark({Target(r).key}, "failed")
  <2>1. "failed" \notin mishap'[i]
    BY DEF Watched, Spared
  <2> QED
    BY <1>1, <2>1, MarkedReached
<1>5. ASSUME r2.new = r.new, Ahead(r2, name) PROVE WillWrite(p, i, name)'
  BY <1>0, <1>5 DEF WillWrite, Asks, Ahead
<1>6. CASE Inspect(p)
  <2> DEFINE r3 == [r EXCEPT !.stage = "current", !.nodes = nodes, !.ports = ports]
  <2>1. r2 = r3
    BY <1>3, <1>6 DEF Inspect
  <2>2. r3.stage = "current" /\ r3.nodes = nodes /\ r3.new = r.new
    BY <1>0 DEF Run
  <2> HIDE DEF r3
  <2> QED
    BY <1>5, <2>1, <2>2 DEF Ahead
<1>7. CASE InspectCurrentLB(p)
  <2> DEFINE r3 == [r EXCEPT !.stage = "pool", !.seen = MapIDExpander(r)]
  <2>1. r2 = r3 /\ r.stage = "current"
    BY <1>3, <1>7 DEF InspectCurrentLB
  <2>2. r3.stage = "pool" /\ r3.nodes = nodes /\ r3.new = r.new /\ r3.k = 1
    BY <1>0, <1>1, <2>1 DEF Run, RunFits
  <2>3. Paths(r.new) \in Seq(Path)
    BY <1>0, NamesOK DEF Run
  <2>4. \E k \in DOMAIN Paths(r.new) : 1 <= k /\ PoolName(r.new, Paths(r.new)[k]) = name
    BY <1>2, <2>3 DEF PoolNames
  <2> HIDE DEF r3
  <2> QED
    BY <1>5, <2>1, <2>2, <2>4 DEF Ahead
<1>8. CASE r.stage = "pool" /\ r.k <= Len(Items(r))
           /\ \/ \E call : Then(p, call)
              \/ /\ NextItem(p)
                 /\ PoolName(r.new, Item(r)) = name => Right(PoolIn(i, name))'
  <2>1. PICK k \in DOMAIN Paths(r.new) : r.k <= k /\ PoolName(r.new, Paths(r.new)[k]) = name
    BY <1>8 DEF WillWrite, Ahead
  <2>2. r.k \in Nat /\ k \in Nat
    <3>1. Paths(r.new) \in Seq(Path)
      BY <1>0, NamesOK DEF Run
    <3> QED
      BY <1>0, <3>1 DEF Run
  <2>3. CASE \E call : Then(p, call)
    <3>1. PICK call : Then(p, call)
      BY <2>3
    <3> DEFINE r3 == [r EXCEPT !.call = call]
    <3>2. r2 = r3
      BY <1>3, <3>1 DEF Then
    <3>3. r3.stage = "pool" /\ r3.nodes = nodes /\ r3.new = r.new /\ r3.k = r.k
      BY <1>0, <1>1, <1>8 DEF Run
    <3> HIDE DEF r3
    <3> QED
      BY <1>5, <2>1, <3>2, <3>3 DEF Ahead
  <2>4. CASE NextItem(p) /\ (PoolName(r.new, Item(r)) = name => Right(PoolIn(i, name))')
    <3> DEFINE r3 == [r EXCEPT !.k = @ + 1, !.call = "find"]
    <3>1. r2 = r3
      BY <1>3, <2>4 DEF NextItem
    <3>2. r3.stage = "pool" /\ r3.nodes = nodes /\ r3.new = r.new /\ r3.k = r.k + 1
      BY <1>0, <1>1, <1>8 DEF Run
    <3> HIDE DEF r3
    <3>3. CASE k = r.k
      <4>1. Item(r) = Paths(r.new)[k]
        BY <1>8, <3>3 DEF Item, Items
      <4> QED
        BY <2>1, <2>4, <4>1
    <3>4. CASE k # r.k
      <4>1. r3.k <= k
        BY <2>1, <2>2, <3>2, <3>4
      <4> QED
        BY <1>5, <2>1, <3>1, <3>2, <4>1 DEF Ahead
    <3> QED
      BY <3>3, <3>4
  <2> QED
    BY <1>8, <2>3, <2>4
<1>9. CASE FindPool(p) \/ CreatePool(p)
  BY <1>8, <1>9 DEF FindPool, CreatePool, At
<1>10. CASE GetMemberPool(p)
  <2>1. r.stage = "pool" /\ r.k <= Len(Items(r)) /\ pool' = pool
    BY <1>10 DEF GetMemberPool, At, vlb
  <2>2. CASE NextItem(p) /\ MembersFor(r, Item(r).svc) = PoolOf(r)
    <3>1. ASSUME PoolName(r.new, Item(r)) = name PROVE Right(PoolIn(i, name))'
      <4>1. PoolIn(i, name) = PoolOf(r)
        BY <2>1, <3>1, ItemPool DEF WillWrite
      <4>2. PoolIn(i, name)' = PoolOf(r)
        BY <1>0, <2>1, <4>1 DEF PoolIn
      <4>3. nodes' = r.nodes
        BY <1>1, <2>1
      <4> QED
        BY <2>1, <2>2, <4>2, <4>3, MembersAre DEF Right
    <3> QED
      BY <1>8, <2>1, <2>2, <3>1
  <2>3. CASE Then(p, "update")
    BY <1>8, <2>1, <2>3
  <2> QED
    BY <1>10, <2>2, <2>3 DEF GetMemberPool, SameMembers
<1>11. CASE UpdatePoolMember(p)
  <2>1. r.stage = "pool" /\ r.k <= Len(Items(r)) /\ NextItem(p)
    BY <1>11 DEF UpdatePoolMember, At
  <2> DEFINE ms == MembersFor(r, Item(r).svc)
  <2>2. ASSUME PoolName(r.new, Item(r)) = name PROVE Right(PoolIn(i, name))'
    <3>1. /\ LbOf(r) = cache[i].spec.lb /\ cache[i].spec.lb \in LBs /\ name \in AllPoolNames
      BY <2>1, <2>2, ItemPool DEF WillWrite
    <3>2. OnePool(p, name, ms)
      BY <1>0, <1>11, <2>2, PoolWrites
    <3>3. PoolIn(i, name)' = ms
      <4> HIDE DEF ms
      <4> QED
        BY <1>0, <3>1, <3>2 DEF PoolIn, OnePool
    <3>4. nodes' = r.nodes
      BY <1>1, <2>1
    <3> QED
      BY <2>1, <3>3, <3>4, MembersAre DEF Right
  <2> QED
    BY <1>8, <2>1, <2>2
<1>12. ~EndLoop(p)
  <2>1. SUFFICES ASSUME EndLoop(p), r.stage = "pool" PROVE FALSE
    BY <1>1 DEF EndLoop, Following
  <2>2. r.k > Len(Paths(r.new)) /\ Paths(r.new) \in Seq(Path) /\ r.k \in Nat
    BY <1>0, <2>1, NamesOK DEF EndLoop, Items, Run
  <2>3. \E k \in DOMAIN Paths(r.new) : r.k <= k
    BY <2>1 DEF WillWrite, Ahead
  <2> QED
    BY <2>2, <2>3
<1>13. ~InspectFails(p) /\ ~Refused(p) /\ ~CallFails(p) /\ ~DropFails(p)
  BY <1>4 DEF InspectFails, Refused, CallFails, DropFails, Fail
<1> QED
  BY <1>1, <1>6, <1>7, <1>9, <1>10, <1>11, <1>12, <1>13 DEF Call, FindPolicy, CreatePolicy,
     GetPolicy, UpdatePolicy, FindOldPolicy, DeletePolicy, FindOldPool, DeletePool, EndDrops,
     UpdateStatus, At

\* A call, or one that fails.
LEMMA CallCared ==
  ASSUME TypeOK, Fitting, QueueInv, WorksOnLatest, [Next]_vars, NEW i \in Ingresses,
         Watched(i), Watched(i)', SameSpec(i), NEW name \in PoolNames(cache[i]), Cared(i, name),
         NEW p \in Processes, Call(p) \/ CallFails(p) \/ DropFails(p)
  PROVE  Cared(i, name)'
<1>1. UNCHANGED <<nodes, knownNodes, pass>> /\ Busy(run[p])
  BY DEF CallFails, DropFails, Fail, cluster, Call, Inspect, InspectFails, InspectCurrentLB, FindPool,
     CreatePool, GetMemberPool, UpdatePoolMember, FindPolicy, CreatePolicy, GetPolicy,
     UpdatePolicy, WritePolicy, FindOldPolicy, DeletePolicy, FindOldPool, DeletePool,
     EndLoop, EndDrops, Refused, UpdateStatus, At, Busy, Following
<1>2. /\ \A q \in Processes : q # p => run'[q] = run[q]
      /\ run'[p] = Return(p) \/ MovesOn(run[p], run'[p])
  <2>0. run \in [Processes -> Run]
    BY DEF TypeOK
  <2>1. \E r : run' = [run EXCEPT ![p] = r]
    BY DEF CallFails, DropFails, Fail, Call, Inspect, InspectFails, InspectCurrentLB, FindPool,
     CreatePool, GetMemberPool, UpdatePoolMember, FindPolicy, CreatePolicy, GetPolicy,
     UpdatePolicy, WritePolicy, FindOldPolicy, DeletePolicy, FindOldPool, DeletePool,
     EndLoop, EndDrops, Refused, UpdateStatus, Then, NextItem, Goto
  <2>2. \A q \in Processes : q # p => run'[q] = run[q]
    BY <2>0, <2>1
  <2>3. DropFails(p) => MovesOn(run[p], run'[p])
    BY <1>1, NextItemMoves DEF DropFails, At
  <2>4. CallFails(p) => Goto(p, Return(p))
    BY DEF CallFails, Fail
  <2>5. Goto(p, Return(p)) => run'[p] = Return(p)
    BY <2>0 DEF Goto
  <2> QED
    BY <2>2, <2>3, <2>4, <2>5, CallMoves
<1>3. /\ (run'[Sync].stage = "idle") <=> (run[Sync].stage = "idle")
      /\ (run[Sync].stage = "list") => (run'[Sync].stage = "list")
  BY <1>1, <1>2 DEF MovesOn, Busy, Return, Idle, Sync, Worker, Processes
<1>4. Changed(i) => Changed(i)'
  BY ChangedStays
<1>5. Right(PoolIn(i, name)) => Right(PoolIn(i, name))' \/ Due
  BY <1>1, RightKept
<1>6. \A q \in Processes : WillWrite(q, i, name) =>
            WillWrite(q, i, name)' \/ Right(PoolIn(i, name))' \/ Due
  BY <1>1, <1>2, AheadKept, SameAsks
<1> QED
  BY <1>1, <1>3, <1>4, <1>5, <1>6, CallCarries

-----------------------------------------------------------------------------
\* Attended is an invariant.
LEMMA AttendedStep ==
  ASSUME TypeOK, Fitting, QueueInv, WorksOnLatest, WorksOnLatest', Attended, [Next]_vars
  PROVE  Attended'
<1> SUFFICES ASSUME NEW i \in Ingresses, Watched(i)', NEW name \in PoolNames(cache[i])'
             PROVE  Cared(i, name)'
  BY DEF Attended
<1>1. CASE Take /\ cache'[i] = cache[i] /\ queue # <<>> /\ Head(queue).obj.key = i
  BY <1>1, LastTaken
<1>2. CASE Watched(i) /\ SameSpec(i)
  <2>1. name \in PoolNames(cache[i]) /\ Cared(i, name)
    BY <1>2, SameAsks DEF Attended
  <2>2. Changed(i) => Changed(i)'
    BY <1>2, ChangedStays
  <2>3. CASE UNCHANGED <<nodes, knownNodes, pass, run, pool>>
    <3>1. Right(PoolIn(i, name)) => Right(PoolIn(i, name))'
      BY <1>2, <2>3, SameAsks DEF Right, PoolIn
    <3>2. \A p \in Processes : WillWrite(p, i, name) => WillWrite(p, i, name)'
      BY <1>2, <2>3, SameAsks
    <3> QED
      BY <1>2, <2>1, <2>2, <2>3, <3>1, <3>2, CallCarries
  <2>4. CASE ChangeNodes
    BY <2>4, NodesCared
  <2>5. CASE SyncLoop \/ FlagTick \/ ListFails
    BY <1>2, <2>1, <2>2, <2>5, PassCared
  <2>6. CASE Take
    BY <1>2, <2>1, <2>2, <2>6, OtherTaken
  <2>7. CASE \E p \in Processes : Call(p) \/ CallFails(p) \/ DropFails(p)
    BY <1>2, <2>1, <2>7, CallCared
  <2>8. CASE Crash
    BY <1>2, <2>8 DEF Crash, SameSpec
  <2>9. CASE \/ \E j \in Ingresses : Apply(j) \/ Remove(j) \/ Deliver(j)
             \/ \E s \in Services : ChangeService(s)
             \/ UNCHANGED vars
    BY <2>3, <2>9 DEF Apply, Remove, Deliver, ChangeService, vars, cluster, controller, vlb
  <2> QED
    BY <2>4, <2>5, <2>6, <2>7, <2>8, <2>9 DEF Next, Outside
<1> QED
  BY <1>1, <1>2, WatchedBefore

LEMMA AttendedInit == Init => Attended
BY DEF Init, Attended, Watched, IsValid

\* Between passes, with nodes as the controller knows them, the members of
\* every pool of an ingress that is done are the ready nodes: each change of
\* the nodes reaches every pool, through the pass or through the worker,
\* whichever of the two reads, writes or lists first.
THEOREM MembersFollow == Spec => []MembersFollowNodes
<1>1. Spec => []QueueInv
  BY QueueInit, QueueStep, TypeCorrect, PTL DEF Spec
<1>2. Spec => [](TypeOK /\ Fitting)
  BY AlwaysReached, PTL
<1>3. Spec => []Attended
  BY <1>1, <1>2, AlwaysLatest, AttendedInit, AttendedStep, PTL DEF Spec
<1> QED
  BY <1>2, <1>3, FollowWhenAttended, PTL
=============================================================================
