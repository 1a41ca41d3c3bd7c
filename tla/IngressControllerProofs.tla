---------------------- MODULE IngressControllerProofs ----------------------
(***************************************************************************)
(* Theorems about IngressController, for every set of ingresses, specs,    *)
(* nodes and bounds: its types, and the order of the events on its queue.  *)
(***************************************************************************)
EXTENDS IngressController, TLAPS

\* The records the goroutines start from and return to are well formed.
LEMMA IdleOK == Idle \in Run /\ RunOK(Idle)
<1> Idle \in Run
  BY DEF Idle, Run, Stages, Calls
<1> Idle.stage = "idle"
  BY DEF Idle
<1> QED
  BY DEF RunOK, Busy

\* Where a goroutine goes when ensureIngress returns.
LEMMA ReturnOK ==
  ASSUME NEW p \in Processes
  PROVE  Return(p) \in Run /\ RunOK(Return(p))
<1>1. CASE p = Worker
  BY <1>1, IdleOK DEF Return
<1>2. CASE p # Worker
  <2> DEFINE r == [Idle EXCEPT !.stage = "next"]
  <2>1. Return(p) = r
    BY <1>2 DEF Return
  <2>2. r \in Run /\ r.stage = "next"
    BY IdleOK DEF Run, Stages
  <2> HIDE DEF r
  <2> QED
    BY <2>1, <2>2 DEF RunOK, Busy
<1> QED
  BY <1>1, <1>2

\* What ensureIngress and deleteIngress start with.
LEMMA BeginOK ==
  ASSUME NEW old \in Object \cup {None}, NEW new \in Object \cup {None},
         old # None \/ new # None
  PROVE  Begin(old, new) \in Run /\ RunOK(Begin(old, new))
<1>1. Begin(old, new) \in Run
  BY IdleOK DEF Begin, Run, Stages
<1>2. /\ Begin(old, new).stage = "inspect"
      /\ Begin(old, new).old = old
      /\ Begin(old, new).new = new
  BY IdleOK DEF Begin, Run
<1> QED
  BY <1>1, <1>2 DEF RunOK, Busy, Target

\* A step of one goroutine leaves the other where it is.
LEMMA GotoOK ==
  ASSUME run \in [Processes -> Run], \A q \in Processes : RunOK(run[q]),
         NEW p \in Processes, NEW r \in Run, RunOK(r), Goto(p, r)
  PROVE  run' \in [Processes -> Run] /\ \A q \in Processes : RunOK(run'[q])
<1>1. run' = [run EXCEPT ![p] = r]
  BY DEF Goto
<1>2. run' \in [Processes -> Run]
  BY <1>1
<1>3. \A q \in Processes : run'[q] = r \/ run'[q] = run[q]
  BY <1>1
<1> QED
  BY <1>2, <1>3

\* Only listed reasons are recorded.
LEMMA MarkOK ==
  ASSUME mishap \in [Ingresses -> SUBSET Reasons], NEW is, NEW why \in Reasons,
         Mark(is, why)
  PROVE  mishap' \in [Ingresses -> SUBSET Reasons]
BY DEF Mark

\* The counters of outside events stay numbers.
LEMMA SpendOK ==
  ASSUME spent \in [Kinds -> Nat], NEW kind \in Kinds, Spend(kind)
  PROVE  spent' \in [Kinds -> Nat]
BY DEF Spend

\* What TypeOK says of the goroutines' runs.
RunsOK == run \in [Processes -> Run] /\ \A q \in Processes : RunOK(run[q])

\* The next call about the same item.
LEMMA ThenOK ==
  ASSUME RunsOK, NEW p \in Processes, NEW call \in Calls, Then(p, call)
  PROVE  RunsOK'
<1> DEFINE r == [run[p] EXCEPT !.call = call]
<1>1. r \in Run /\ r.stage = run[p].stage /\ r.old = run[p].old
        /\ r.new = run[p].new /\ r.ports = run[p].ports
  BY DEF RunsOK, Run
<1>2. RunOK(r)
  BY <1>1 DEF RunsOK, RunOK, Busy, Target
<1>3. Goto(p, r)
  BY DEF Then
<1> QED
  <2> HIDE DEF r
  <2> QED
    BY <1>1, <1>2, <1>3, GotoOK DEF RunsOK

\* The next item of the same loop.
LEMMA NextItemOK ==
  ASSUME RunsOK, NEW p \in Processes, NextItem(p)
  PROVE  RunsOK'
<1> DEFINE r == [run[p] EXCEPT !.k = @ + 1, !.call = "find"]
<1>0. run[p] \in Run /\ run[p].k + 1 \in Nat \ {0} /\ "find" \in Calls
  BY DEF RunsOK, Run, Calls
<1>1. r \in Run /\ r.stage = run[p].stage /\ r.old = run[p].old
        /\ r.new = run[p].new /\ r.ports = run[p].ports
  BY <1>0 DEF Run
<1>2. RunOK(r)
  BY <1>1 DEF RunsOK, RunOK, Busy, Target
<1>3. Goto(p, r)
  BY DEF NextItem
<1> QED
  <2> HIDE DEF r
  <2> QED
    BY <1>1, <1>2, <1>3, GotoOK DEF RunsOK

\* ensureIngress returns, for the worker or for nodeSyncLoop.
LEMMA ReturnsOK ==
  ASSUME RunsOK, NEW p \in Processes, Goto(p, Return(p))
  PROVE  RunsOK'
BY ReturnOK, GotoOK DEF RunsOK

\* The path a goroutine is at, in the two loops over the new object.
LEMMA ItemOK ==
  ASSUME RunsOK, NEW p \in Processes, run[p].stage \in {"pool", "policy"},
         run[p].k <= Len(Items(run[p]))
  PROVE  /\ Item(run[p]) \in Path
         /\ run[p].new \in Object
         /\ run[p].ports[Item(run[p]).svc] \in Ports
         /\ LbOf(run[p]) = run[p].new.spec.lb
         /\ LbOf(run[p]) \in LBs
<1> DEFINE r == run[p]
<1>1. r \in Run /\ RunOK(r)
  BY DEF RunsOK
<1>2. Items(r) = Paths(r.new)
  BY DEF Items
<1>3. r.new \in Object
  <2> SUFFICES ASSUME r.new = None PROVE FALSE
    BY <1>1 DEF Run
  <2>1. Items(r) = <<>>
    BY <1>2 DEF Paths
  <2>2. Len(Items(r)) = 0
    BY <2>1
  <2>3. r.k \in Nat \ {0}
    BY <1>1 DEF Run
  <2> QED
    BY <2>2, <2>3
<1>4. r.new # None
  BY <1>3, NoneAssumption
<1>5. r.new.spec \in Specs
  BY <1>3 DEF Object
<1>6. Paths(r.new) \in Seq(Path) /\ r.new.spec.lb \in LBs
  BY <1>4, <1>5, SpecsAssumption DEF Paths
<1>7. r.k \in DOMAIN Paths(r.new)
  BY <1>1, <1>2, <1>6 DEF Run
<1>8. Item(r) = Paths(r.new)[r.k] /\ Item(r) \in Path
  BY <1>2, <1>6, <1>7 DEF Item
<1>9. r.ports[Item(r).svc] \in Ports
  BY <1>1, <1>7, <1>8 DEF RunOK, Run, Path
<1> QED
  BY <1>3, <1>4, <1>6, <1>8, <1>9 DEF LbOf, Target

\* The process starts in a well-typed state.
LEMMA InitOK == Init => TypeOK
<1> SUFFICES ASSUME Init PROVE TypeOK
  OBVIOUS
<1>1. run \in [Processes -> Run] /\ \A p \in Processes : RunOK(run[p])
  BY IdleOK DEF Init
<1>2. queue \in Seq(Event)
  BY DEF Init
<1>3. pass \in [nodes : SUBSET Nodes, todo : SUBSET Object]
  BY DEF Init
<1>4. pool \in [LBs -> [AllPoolNames -> Members \cup {None}]]
  BY DEF Init
<1>5. policy \in [LBs -> [AllPolicyNames -> Policy \cup {None}]]
  BY DEF Init
<1> QED
  BY <1>1, <1>2, <1>3, <1>4, <1>5 DEF TypeOK, Init

\* The users and the cluster.
LEMMA StoreOK ==
  ASSUME TypeOK, NEW i \in Ingresses, NEW o \in Object \cup {None}, Store(i, o)
  PROVE  /\ store' \in [Ingresses -> Object \cup {None}]
         /\ mishap' \in [Ingresses -> SUBSET Reasons]
<1>1. mishap' \in [Ingresses -> SUBSET Reasons]
  BY MarkOK DEF Store, TypeOK, Reasons
<1> QED
  BY <1>1 DEF Store, TypeOK

\* nodeSyncLoop starts a pass.
LEMMA StartPassOK ==
  ASSUME TypeOK, StartPass, spent' \in [Kinds -> Nat]
  PROVE  TypeOK'
<1> DEFINE r == [Idle EXCEPT !.stage = "list"]
<1>1. r \in Run /\ r.stage = "list"
  BY IdleOK DEF Run, Stages
<1>2. RunOK(r)
  BY <1>1 DEF RunOK, Busy
<1>3. Goto(Sync, r) /\ Sync \in Processes
  BY DEF StartPass, Processes
<1>4. RunsOK'
  <2> HIDE DEF r
  <2> QED
    BY <1>1, <1>2, <1>3, GotoOK DEF RunsOK, TypeOK
<1>5. pass' \in [nodes : SUBSET Nodes, todo : SUBSET Object]
  BY DEF StartPass, TypeOK
<1> QED
  BY <1>4, <1>5 DEF StartPass, TypeOK, RunsOK, cluster, vlb, history

\* ensureIngress returns an error.
LEMMA FailOK ==
  ASSUME TypeOK, NEW p \in Processes, Fail(p), spent' \in [Kinds -> Nat]
  PROVE  TypeOK'
<1>1. RunsOK'
  BY ReturnsOK DEF Fail, RunsOK, TypeOK
<1>2. mishap' \in [Ingresses -> SUBSET Reasons]
  BY MarkOK DEF Fail, TypeOK, Reasons
<1> QED
  BY <1>1, <1>2 DEF Fail, TypeOK, RunsOK, cluster, vlb

\* Users, nodes, services, failing calls and restarts.
LEMMA OutsideOK ==
  ASSUME TypeOK, Outside
  PROVE  TypeOK'
<1>0. RunsOK /\ (run' = run => RunsOK')
  BY DEF TypeOK, RunsOK
<1>1. ASSUME NEW i \in Ingresses, Apply(i) PROVE TypeOK'
  <2>1. PICK s \in Specs : Store(i, [key |-> i, rv |-> version[i] + 1, spec |-> s])
    BY <1>1 DEF Apply
  <2>2. [key |-> i, rv |-> version[i] + 1, spec |-> s] \in Object
    BY DEF Object, TypeOK
  <2>3. /\ store' \in [Ingresses -> Object \cup {None}]
        /\ mishap' \in [Ingresses -> SUBSET Reasons]
    BY <2>1, <2>2, StoreOK
  <2>4. spent' \in [Kinds -> Nat]
    BY <1>1, SpendOK DEF Apply, Kinds, TypeOK
  <2>5. version' \in [Ingresses -> Nat] /\ vip' \in [Ingresses -> LBs \cup {None}]
    BY <1>1 DEF Apply, TypeOK
  <2> QED
    BY <1>1, <2>3, <2>4, <2>5 DEF Apply, TypeOK, controller, vlb
<1>2. ASSUME NEW i \in Ingresses, Remove(i) PROVE TypeOK'
  <2>1. /\ store' \in [Ingresses -> Object \cup {None}]
        /\ mishap' \in [Ingresses -> SUBSET Reasons]
    BY <1>2, StoreOK DEF Remove
  <2>2. spent' \in [Kinds -> Nat]
    BY <1>2, SpendOK DEF Remove, Kinds, TypeOK
  <2> QED
    BY <1>2, <2>1, <2>2 DEF Remove, TypeOK, controller, vlb
<1>3. ASSUME NEW s \in Services, ChangeService(s) PROVE TypeOK'
  <2>1. spent' \in [Kinds -> Nat]
    BY <1>3, SpendOK DEF ChangeService, Kinds, TypeOK
  <2>2. ports' \in [Services -> Ports \cup {None}]
    BY <1>3 DEF ChangeService, TypeOK
  <2> QED
    BY <1>3, <2>1, <2>2 DEF ChangeService, TypeOK, controller, vlb, history
<1>4. CASE ChangeNodes
  <2>1. spent' \in [Kinds -> Nat]
    BY <1>4, SpendOK DEF ChangeNodes, Kinds, TypeOK
  <2>2. nodes' \in SUBSET Nodes
    BY <1>4 DEF ChangeNodes
  <2>3. mishap' \in [Ingresses -> SUBSET Reasons]
    BY <1>4, MarkOK DEF ChangeNodes, TypeOK, Reasons
  <2> QED
    BY <1>4, <2>1, <2>2, <2>3 DEF ChangeNodes, TypeOK, controller, vlb
<1>5. CASE FlagTick
  <2>1. spent' \in [Kinds -> Nat]
    BY <1>5, SpendOK DEF FlagTick, Kinds, TypeOK
  <2>2. StartPass
    BY <1>5 DEF FlagTick
  <2> QED
    BY <2>1, <2>2, StartPassOK
<1>6. CASE ListFails
  <2>1. spent' \in [Kinds -> Nat]
    BY <1>6, SpendOK DEF ListFails, Kinds, TypeOK
  <2>2. RunsOK'
    BY <1>0, <1>6, IdleOK, GotoOK DEF ListFails, RunsOK, Processes
  <2>3. pass' \in [nodes : SUBSET Nodes, todo : SUBSET Object]
    BY <1>6 DEF ListFails
  <2> QED
    BY <1>6, <2>1, <2>2, <2>3 DEF ListFails, TypeOK, RunsOK, cluster, vlb, history
<1>7. ASSUME NEW p \in Processes, CallFails(p) PROVE TypeOK'
  <2>1. spent' \in [Kinds -> Nat]
    BY <1>7, SpendOK DEF CallFails, Kinds, TypeOK
  <2> QED
    BY <1>7, <2>1, FailOK DEF CallFails
<1>8. ASSUME NEW p \in Processes, DropFails(p) PROVE TypeOK'
  <2>1. spent' \in [Kinds -> Nat]
    BY <1>8, SpendOK DEF DropFails, Kinds, TypeOK
  <2>2. RunsOK'
    BY <1>0, <1>8, NextItemOK DEF DropFails
  <2>3. mishap' \in [Ingresses -> SUBSET Reasons]
    BY <1>8, MarkOK DEF DropFails, TypeOK, Reasons
  <2> QED
    BY <1>8, <2>1, <2>2, <2>3 DEF DropFails, TypeOK, RunsOK, cluster, vlb
<1>9. CASE Crash
  <2>1. spent' \in [Kinds -> Nat]
    BY <1>9, SpendOK DEF Crash, Kinds, TypeOK
  <2>2. RunsOK'
    BY <1>9, IdleOK DEF Crash, RunsOK
  <2>3. mishap' \in [Ingresses -> SUBSET Reasons]
    BY <1>9, MarkOK DEF Crash, TypeOK, Reasons
  <2>4. cache' \in [Ingresses -> Object \cup {None}] /\ queue' \in Seq(Event)
    BY <1>9 DEF Crash
  <2>5. pass' \in [nodes : SUBSET Nodes, todo : SUBSET Object]
    BY <1>9 DEF Crash
  <2> QED
    BY <1>9, <2>1, <2>2, <2>3, <2>4, <2>5 DEF Crash, TypeOK, RunsOK, cluster, vlb
<1> QED
  BY <1>1, <1>2, <1>3, <1>4, <1>5, <1>6, <1>7, <1>8, <1>9 DEF Outside

\* The informer: what it puts on the queue is about objects that exist.
LEMMA EventsOK ==
  ASSUME NEW old \in Object \cup {None}, NEW new \in Object \cup {None}
  PROVE  Events(old, new) \in Seq(Event)
<1>1. (IsValid(old) => old \in Object) /\ (IsValid(new) => new \in Object)
  BY DEF IsValid
<1>2. CASE ~IsValid(old) /\ IsValid(new)
  <2>1. [type |-> "create", obj |-> new, old |-> None] \in Event
    BY <1>1, <1>2 DEF Event
  <2>2. Events(old, new) = CreateEvent(new)
    BY <1>2 DEF Events
  <2> QED
    BY <2>1, <2>2 DEF CreateEvent
<1>3. CASE IsValid(old) /\ ~IsValid(new)
  <2> DEFINE o == IF new = None THEN old ELSE new
  <2>1. [type |-> "delete", obj |-> o, old |-> None] \in Event
    BY <1>1, <1>3 DEF Event
  <2>2. Events(old, new) = DeleteEvent(o)
    BY <1>3 DEF Events
  <2> QED
    BY <2>1, <2>2 DEF DeleteEvent
<1>4. CASE IsValid(old) /\ IsValid(new) /\ new.spec # old.spec
  <2>1. [type |-> "update", obj |-> new, old |-> old] \in Event
    BY <1>1, <1>4 DEF Event
  <2>2. Events(old, new) = UpdateEvent(old, new)
    BY <1>4 DEF Events
  <2> QED
    BY <2>1, <2>2 DEF UpdateEvent
<1>5. CASE /\ ~(~IsValid(old) /\ IsValid(new))
           /\ ~(IsValid(old) /\ ~IsValid(new))
           /\ ~(IsValid(old) /\ IsValid(new) /\ new.spec # old.spec)
  <2>1. Events(old, new) = <<>>
    BY <1>5 DEF Events
  <2> QED
    BY <2>1
<1> QED
  BY <1>2, <1>3, <1>4, <1>5

\* AddFunc, UpdateFunc and DeleteFunc extend the queue by well-typed events.
LEMMA DeliverOK ==
  ASSUME TypeOK, NEW i \in Ingresses, Deliver(i)
  PROVE  TypeOK'
<1>1. cache[i] \in Object \cup {None} /\ store[i] \in Object \cup {None}
  BY DEF TypeOK
<1>2. queue' = queue \o Events(cache[i], store[i])
  BY DEF Deliver, Enqueue
<1>3. queue' \in Seq(Event)
  BY <1>1, <1>2, EventsOK DEF TypeOK
<1>4. cache' \in [Ingresses -> Object \cup {None}]
  BY <1>1 DEF Deliver, TypeOK
<1> QED
  BY <1>3, <1>4 DEF Deliver, TypeOK, cluster, vlb, history

\* The worker begins on an event that names an object.
LEMMA TakeOK ==
  ASSUME TypeOK, Take
  PROVE  TypeOK'
<1>1. queue \in Seq(Event) /\ queue # <<>>
  BY DEF TypeOK, Take
<1>2. Head(queue) \in Event /\ queue' \in Seq(Event)
  BY <1>1 DEF Take
<1>3. RunOf(Head(queue)) \in Run /\ RunOK(RunOf(Head(queue)))
  BY <1>2, BeginOK, NoneAssumption DEF RunOf, Event
<1>4. RunsOK /\ Worker \in Processes /\ Goto(Worker, RunOf(Head(queue)))
  BY DEF TypeOK, RunsOK, Take, Processes
<1>5. RunsOK'
  BY <1>3, <1>4, GotoOK DEF RunsOK
<1>6. mishap' \in [Ingresses -> SUBSET Reasons]
  BY MarkOK DEF Take, TypeOK, Reasons
<1> QED
  BY <1>2, <1>5, <1>6 DEF Take, TypeOK, RunsOK, cluster, vlb

\* nodeSyncLoop.
LEMMA SyncLoopOK ==
  ASSUME TypeOK, SyncLoop
  PROVE  TypeOK'
<1>0. RunsOK /\ Sync \in Processes
  BY DEF TypeOK, RunsOK, Processes
<1>1. CASE NodeTick
  BY <1>1, StartPassOK DEF NodeTick, TypeOK
<1>2. CASE ListIngresses
  <2>1. Goto(Sync, Return(Sync))
    BY <1>2 DEF ListIngresses, Return, Worker, Sync
  <2>2. RunsOK'
    BY <1>0, <2>1, ReturnsOK
  <2>3. {store[i] : i \in {j \in Ingresses : IsValid(store[j])}} \in SUBSET Object
    BY DEF TypeOK, IsValid
  <2>4. pass' \in [nodes : SUBSET Nodes, todo : SUBSET Object]
    BY <1>2, <2>3 DEF ListIngresses, TypeOK
  <2> QED
    BY <1>2, <2>2, <2>4 DEF ListIngresses, TypeOK, RunsOK, cluster, vlb, history
<1>3. CASE SyncNext
  <2>1. PICK o \in pass.todo : /\ pass' = [pass EXCEPT !.todo = @ \ {o}]
                               /\ Goto(Sync, Begin(None, o))
    BY <1>3 DEF SyncNext
  <2>2. o \in Object /\ pass' \in [nodes : SUBSET Nodes, todo : SUBSET Object]
    BY <2>1 DEF TypeOK
  <2>3. Begin(None, o) \in Run /\ RunOK(Begin(None, o))
    BY <2>2, BeginOK, NoneAssumption
  <2>4. RunsOK'
    BY <1>0, <2>1, <2>3, GotoOK DEF RunsOK
  <2> QED
    BY <1>3, <2>2, <2>4 DEF SyncNext, TypeOK, RunsOK, cluster, vlb, history
<1>4. CASE EndPass
  <2>1. RunsOK'
    BY <1>0, <1>4, IdleOK, GotoOK DEF EndPass, RunsOK
  <2>2. knownNodes' \in SUBSET Nodes
        /\ pass' \in [nodes : SUBSET Nodes, todo : SUBSET Object]
    BY <1>4 DEF EndPass, KnownAfterPass, TypeOK
  <2> QED
    BY <1>4, <2>1, <2>2 DEF EndPass, TypeOK, RunsOK, cluster, vlb, history
<1> QED
  BY <1>1, <1>2, <1>3, <1>4 DEF SyncLoop

\* A run that moves on with the ingress and the ports it has.
LEMMA MoveOK ==
  ASSUME RunsOK, NEW p \in Processes, NEW r \in Run, Goto(p, r),
         Busy(run[p]), Busy(r), r.old = run[p].old, r.new = run[p].new,
         r.stage \in {"current", "pool", "policy"} =>
           \A k \in DOMAIN Paths(r.new) : r.ports[Paths(r.new)[k].svc] # None,
         r.stage = "status" => r.new # None
  PROVE  RunsOK'
<1>1. RunOK(r)
  BY DEF RunsOK, RunOK, Target
<1> QED
  BY <1>1, GotoOK DEF RunsOK

\* inspectIngress finds a node port for every path it goes on with.
LEMMA InspectOK ==
  ASSUME TypeOK, NEW p \in Processes, Inspect(p)
  PROVE  TypeOK'
<1> DEFINE r == [run[p] EXCEPT !.stage = "current", !.nodes = nodes, !.ports = ports]
<1>1. RunsOK /\ Goto(p, r) /\ run[p].stage = "inspect"
  BY DEF TypeOK, RunsOK, Inspect
<1>2. nodes \in SUBSET Nodes /\ ports \in [Services -> Ports \cup {None}] /\ run[p] \in Run
  BY DEF TypeOK
<1>3. /\ r \in Run /\ r.stage = "current" /\ r.old = run[p].old
      /\ r.new = run[p].new /\ r.ports = ports
  BY <1>2 DEF Run, Stages
<1>4. \A k \in DOMAIN Paths(r.new) : r.ports[Paths(r.new)[k].svc] # None
  BY <1>3 DEF Inspect, HasServices
<1> HIDE DEF r
<1>5. Busy(run[p]) /\ Busy(r)
  BY <1>1, <1>3 DEF Busy
<1>6. RunsOK'
  BY <1>1, <1>3, <1>4, <1>5, MoveOK
<1> QED
  BY <1>6 DEF Inspect, TypeOK, RunsOK, cluster, vlb, history

\* inspectCurrentLB finds names of old policies only.
LEMMA InspectCurrentLBOK ==
  ASSUME TypeOK, NEW p \in Processes, InspectCurrentLB(p)
  PROVE  TypeOK'
<1> DEFINE names == MapIDExpander(run[p])
           r == [run[p] EXCEPT !.stage = "pool", !.seen = names]
<1>1. RunsOK /\ Goto(p, r) /\ run[p].stage = "current" /\ run[p] \in Run
  BY DEF TypeOK, RunsOK, InspectCurrentLB
<1>2. names \subseteq AllPolicyNames
  <2>1. SUFFICES ASSUME NEW k \in DOMAIN Paths(run[p].old)
                 PROVE  PolicyName(run[p].old, Paths(run[p].old)[k]) \in AllPolicyNames
    BY DEF PolicyNames, MapIDExpander
  <2>2. run[p].old \in Object \/ Paths(run[p].old) = <<>>
    BY <1>1 DEF Run, Paths
  <2>3. run[p].old \in Object
    BY <2>2
  <2>4. Paths(run[p].old) \in Seq(Path)
    BY <2>3, SpecsAssumption DEF Paths, Object
  <2>5. Paths(run[p].old)[k] \in Path
    BY <2>4
  <2> QED
    BY <2>3, <2>5 DEF PolicyName, AllPolicyNames, Object, Path
<1> HIDE DEF names
<1>3. /\ r \in Run /\ r.stage = "pool" /\ r.old = run[p].old
      /\ r.new = run[p].new /\ r.ports = run[p].ports
  BY <1>1, <1>2 DEF Run, Stages
<1>4. \A k \in DOMAIN Paths(r.new) : r.ports[Paths(r.new)[k].svc] # None
  BY <1>1, <1>3 DEF RunsOK, RunOK
<1> HIDE DEF r
<1>5. Busy(run[p]) /\ Busy(r)
  BY <1>1, <1>3 DEF Busy
<1>6. RunsOK'
  BY <1>1, <1>3, <1>4, <1>5, MoveOK
<1> QED
  BY <1>6 DEF InspectCurrentLB, TypeOK, RunsOK, cluster, vlb, history

\* One loop of actionCompareIngress ends and the next begins.
LEMMA EndLoopOK ==
  ASSUME TypeOK, NEW p \in Processes, EndLoop(p)
  PROVE  TypeOK'
<1> DEFINE stage == Following[run[p].stage]
           r == [run[p] EXCEPT !.stage = stage, !.k = 1, !.call = "find"]
<1>1. RunsOK /\ Goto(p, r) /\ run[p] \in Run
  BY DEF TypeOK, RunsOK, EndLoop
<1>2. \/ run[p].stage = "pool" /\ stage = "policy"
      \/ run[p].stage = "policy" /\ stage = "dropPolicy"
      \/ run[p].stage = "dropPolicy" /\ stage = "dropPool"
  BY DEF EndLoop, Following
<1> HIDE DEF stage
<1>0. stage \in Stages /\ 1 \in Nat \ {0} /\ "find" \in Calls
  BY <1>2 DEF Stages, Calls
<1>3. /\ r \in Run /\ r.stage = stage /\ r.old = run[p].old
      /\ r.new = run[p].new /\ r.ports = run[p].ports
  BY <1>0, <1>1 DEF Run
<1>4. stage = "policy" => \A k \in DOMAIN Paths(r.new) : r.ports[Paths(r.new)[k].svc] # None
  BY <1>1, <1>2, <1>3 DEF RunsOK, RunOK
<1> HIDE DEF r
<1>5. Busy(run[p]) /\ Busy(r)
  BY <1>2, <1>3 DEF Busy
<1>6. RunsOK'
  BY <1>1, <1>2, <1>3, <1>4, <1>5, MoveOK
<1> QED
  BY <1>6 DEF EndLoop, TypeOK, RunsOK, cluster, vlb, history

\* actionCompareIngress ends.
LEMMA EndDropsOK ==
  ASSUME TypeOK, NEW p \in Processes, EndDrops(p)
  PROVE  TypeOK'
<1> DEFINE r == [run[p] EXCEPT !.stage = "status"]
<1>1. RunsOK /\ run[p] \in Run /\ run[p].stage = "dropPool"
  BY DEF TypeOK, RunsOK, EndDrops
<1>2. RunsOK'
  <2>1. CASE run[p].new = None
    BY <1>1, <2>1, ReturnsOK DEF EndDrops
  <2>2. CASE run[p].new # None
    <3>1. Goto(p, r)
      BY <2>2 DEF EndDrops
    <3>2. r \in Run /\ r.stage = "status" /\ r.old = run[p].old /\ r.new = run[p].new
      BY <1>1 DEF Run, Stages
    <3> HIDE DEF r
    <3>3. Busy(run[p]) /\ Busy(r)
      BY <1>1, <3>2 DEF Busy
    <3> QED
      BY <1>1, <2>2, <3>1, <3>2, <3>3, MoveOK
  <2> QED
    BY <2>1, <2>2
<1>3. applied' \in [Ingresses -> Object \cup {None}]
  BY <1>1 DEF EndDrops, TypeOK, Run
<1> QED
  BY <1>2, <1>3 DEF EndDrops, TypeOK, RunsOK, cluster, vlb
\* ensurePool and ensurePoolMember: a pool's members are nodes at ports.
LEMMA PoolCallsOK ==
  ASSUME TypeOK, NEW p \in Processes,
         FindPool(p) \/ CreatePool(p) \/ GetMemberPool(p) \/ UpdatePoolMember(p)
  PROVE  TypeOK'
<1>1. RunsOK /\ run[p] \in Run /\ run[p].stage = "pool" /\ run[p].k <= Len(Items(run[p]))
  BY DEF TypeOK, RunsOK, FindPool, CreatePool, GetMemberPool, UpdatePoolMember, At
<1>2. /\ Item(run[p]) \in Path
      /\ run[p].new \in Object
      /\ run[p].ports[Item(run[p]).svc] \in Ports
  BY <1>1, ItemOK
<1>3. PoolName(run[p].new, Item(run[p])) \in AllPoolNames
  BY <1>2 DEF PoolName, AllPoolNames, Object, Path
<1>4. {"create", "get", "update"} \subseteq Calls
  BY DEF Calls
<1>5. CASE FindPool(p)
  <2>1. RunsOK'
    BY <1>1, <1>4, <1>5, ThenOK DEF FindPool
  <2> QED
    BY <1>5, <2>1 DEF FindPool, TypeOK, RunsOK, cluster, vlb, history
<1>6. CASE CreatePool(p)
  <2>1. RunsOK'
    BY <1>1, <1>4, <1>6, ThenOK DEF CreatePool
  <2>2. {} \in Members
    BY DEF Members
  <2>3. pool' \in [LBs -> [AllPoolNames -> Members \cup {None}]]
    BY <1>3, <1>6, <2>2 DEF CreatePool, TypeOK
  <2>4. mishap' \in [Ingresses -> SUBSET Reasons]
    BY <1>6, MarkOK DEF CreatePool, TypeOK, Reasons
  <2> QED
    BY <1>6, <2>1, <2>3, <2>4 DEF CreatePool, TypeOK, RunsOK, cluster
<1>7. CASE GetMemberPool(p)
  <2>1. RunsOK'
    BY <1>1, <1>4, <1>7, ThenOK, NextItemOK DEF GetMemberPool
  <2> QED
    BY <1>7, <2>1 DEF GetMemberPool, TypeOK, RunsOK, cluster, vlb, history
<1>8. CASE UpdatePoolMember(p)
  <2>1. RunsOK'
    BY <1>1, <1>8, NextItemOK DEF UpdatePoolMember
  <2>2. MembersFor(run[p], Item(run[p]).svc) \in Members
    BY <1>1, <1>2 DEF MembersFor, Members, Run
  <2>3. pool' \in [LBs -> [AllPoolNames -> Members \cup {None}]]
    BY <1>3, <1>8, <2>2 DEF UpdatePoolMember, TypeOK
  <2>4. mishap' \in [Ingresses -> SUBSET Reasons]
    BY <1>8, MarkOK DEF UpdatePoolMember, TypeOK, Reasons
  <2> QED
    BY <1>8, <2>1, <2>3, <2>4 DEF UpdatePoolMember, TypeOK, RunsOK, cluster
<1> QED
  BY <1>5, <1>6, <1>7, <1>8

\* ensurePolicy: a policy redirects to a pool of its own ingress.
LEMMA PolicyCallsOK ==
  ASSUME TypeOK, NEW p \in Processes,
         FindPolicy(p) \/ CreatePolicy(p) \/ GetPolicy(p) \/ UpdatePolicy(p)
  PROVE  TypeOK'
<1>1. RunsOK /\ run[p] \in Run /\ run[p].stage = "policy" /\ run[p].k <= Len(Items(run[p]))
  BY DEF TypeOK, RunsOK, FindPolicy, CreatePolicy, GetPolicy, UpdatePolicy, At
<1>2. Item(run[p]) \in Path /\ run[p].new \in Object
  BY <1>1, ItemOK
<1>3. PolicyFor(run[p].new, Item(run[p])) \in Policy
  BY <1>2 DEF PolicyFor, Policy, PoolName, AllPoolNames, Object, Path
<1>4. {"create", "get", "update"} \subseteq Calls
  BY DEF Calls
<1>5. CASE FindPolicy(p)
  <2>1. RunsOK'
    BY <1>1, <1>4, <1>5, ThenOK DEF FindPolicy
  <2> QED
    BY <1>5, <2>1 DEF FindPolicy, TypeOK, RunsOK, cluster, vlb, history
<1>6. CASE GetPolicy(p)
  <2>1. RunsOK'
    BY <1>1, <1>4, <1>6, ThenOK, NextItemOK DEF GetPolicy
  <2> QED
    BY <1>6, <2>1 DEF GetPolicy, TypeOK, RunsOK, cluster, vlb, history
<1>7. CASE (CreatePolicy(p) \/ UpdatePolicy(p))
  <2>1. RunsOK'
    BY <1>1, <1>4, <1>7, ThenOK, NextItemOK DEF CreatePolicy, UpdatePolicy
  <2>2. WritePolicy(p)
    BY <1>7 DEF CreatePolicy, UpdatePolicy
  <2>3. policy' \in [LBs -> [AllPolicyNames -> Policy \cup {None}]]
    BY <1>3, <2>2 DEF WritePolicy, TypeOK
  <2>4. mishap' \in [Ingresses -> SUBSET Reasons]
    BY <2>2, MarkOK DEF WritePolicy, TypeOK, Reasons
  <2> QED
    BY <2>1, <2>2, <2>3, <2>4 DEF WritePolicy, TypeOK, RunsOK, cluster
<1> QED
  BY <1>5, <1>6, <1>7

\* deletePolicy and deletePool.
LEMMA DropCallsOK ==
  ASSUME TypeOK, NEW p \in Processes,
         FindOldPolicy(p) \/ DeletePolicy(p) \/ FindOldPool(p) \/ DeletePool(p)
  PROVE  TypeOK'
<1>1. RunsOK /\ "delete" \in Calls
  BY DEF TypeOK, RunsOK, Calls
<1>2. CASE FindOldPolicy(p)
  <2>1. RunsOK'
    BY <1>1, <1>2, ThenOK, NextItemOK DEF FindOldPolicy
  <2> QED
    BY <1>2, <2>1 DEF FindOldPolicy, TypeOK, RunsOK, cluster, vlb, history
<1>3. CASE DeletePolicy(p)
  <2>1. RunsOK'
    BY <1>1, <1>3, NextItemOK DEF DeletePolicy
  <2>2. policy' \in [LBs -> [AllPolicyNames -> Policy \cup {None}]]
    BY <1>3 DEF DeletePolicy, TypeOK
  <2> QED
    BY <1>3, <2>1, <2>2 DEF DeletePolicy, TypeOK, RunsOK, cluster, history
<1>4. CASE FindOldPool(p)
  <2>1. RunsOK'
    BY <1>1, <1>4, ThenOK, NextItemOK DEF FindOldPool
  <2> QED
    BY <1>4, <2>1 DEF FindOldPool, TypeOK, RunsOK, cluster, vlb, history
<1>5. CASE DeletePool(p)
  <2>1. RunsOK'
    BY <1>1, <1>5, NextItemOK DEF DeletePool
  <2>2. pool' \in [LBs -> [AllPoolNames -> Members \cup {None}]]
    <3> DEFINE lb == LbOf(run[p])
               name == PoolName(run[p].old, Item(run[p]))
    <3>1. pool' = pool \/ pool' = [pool EXCEPT ![lb][name] = None]
      BY <1>5 DEF DeletePool
    <3>2. pool \in [LBs -> [AllPoolNames -> Members \cup {None}]]
      BY DEF TypeOK
    <3> HIDE DEF lb, name
    <3> QED
      BY <3>1, <3>2
  <2>3. mishap' \in [Ingresses -> SUBSET Reasons]
    BY <1>5, MarkOK DEF DeletePool, TypeOK, Reasons
  <2> QED
    BY <1>5, <2>1, <2>2, <2>3 DEF DeletePool, TypeOK, RunsOK, cluster
<1> QED
  BY <1>2, <1>3, <1>4, <1>5

\* updateIngressStatus: the ingress it writes still exists.
LEMMA UpdateStatusOK ==
  ASSUME TypeOK, NEW p \in Processes, UpdateStatus(p)
  PROVE  TypeOK'
<1> DEFINE o == run[p].new
<1>1. RunsOK /\ run[p].stage = "status" /\ Goto(p, Return(p)) /\ run[p] \in Run
  BY DEF TypeOK, RunsOK, UpdateStatus
<1>2. RunsOK'
  BY <1>1, ReturnsOK
<1>3. o \in Object
  BY <1>1 DEF RunsOK, RunOK, Run
<1>4. o.key \in Ingresses /\ o.spec.lb \in LBs
  BY <1>3, SpecsAssumption DEF Object
<1> HIDE DEF o
<1>5. CASE UNCHANGED <<vip, version, store>>
  BY <1>2, <1>5 DEF UpdateStatus, TypeOK, RunsOK, vlb, history
<1>6. CASE /\ store[o.key] # None
           /\ vip' = [vip EXCEPT ![o.key] = o.spec.lb]
           /\ version' = [version EXCEPT ![o.key] = @ + 1]
           /\ store' = [store EXCEPT ![o.key].rv = @ + 1]
  <2>1. vip' \in [Ingresses -> LBs \cup {None}] /\ version' \in [Ingresses -> Nat]
    BY <1>4, <1>6 DEF TypeOK
  <2>2. store[o.key] \in Object
    BY <1>4, <1>6 DEF TypeOK
  <2>3. [store[o.key] EXCEPT !.rv = @ + 1] \in Object
    BY <2>2 DEF Object
  <2>4. store' \in [Ingresses -> Object \cup {None}]
    BY <1>4, <1>6, <2>3 DEF TypeOK
  <2> QED
    BY <1>2, <2>1, <2>4 DEF UpdateStatus, TypeOK, RunsOK, vlb, history
<1> QED
  BY <1>5, <1>6 DEF UpdateStatus, o

\* Every step of ensureIngress, by either goroutine.
LEMMA CallOK ==
  ASSUME TypeOK, NEW p \in Processes, Call(p)
  PROVE  TypeOK'
<1>1. CASE InspectFails(p) \/ Refused(p)
  BY <1>1, FailOK DEF InspectFails, Refused, TypeOK
<1> QED
  BY <1>1, InspectOK, InspectCurrentLBOK, EndLoopOK, EndDropsOK, PoolCallsOK,
     PolicyCallsOK, DropCallsOK, UpdateStatusOK DEF Call

\* Every variable has its type, every busy goroutine has an ingress, and no
\* goroutine ensures pools or policies without the node ports it was
\* promised by inspectIngress, however the two goroutines, the users,
\* failures and restarts interleave.
THEOREM TypeCorrect == Spec => []TypeOK
<1>1. TypeOK /\ [Next]_vars => TypeOK'
  <2> SUFFICES ASSUME TypeOK, [Next]_vars PROVE TypeOK'
    OBVIOUS
  <2>1. CASE UNCHANGED vars
    BY <2>1 DEF TypeOK, vars, cluster, controller, vlb, history
  <2>2. CASE Next
    BY <2>2, OutsideOK, DeliverOK, TakeOK, SyncLoopOK, CallOK DEF Next
  <2> QED
    BY <2>1, <2>2
<1> QED
  BY <1>1, InitOK, PTL DEF Spec

-----------------------------------------------------------------------------
(* The events on the work queue follow from one another, for every set of  *)
(* ingresses, specs and bounds.  EventsChain is not inductive by itself: a *)
(* create may follow a create if the cache could hold an object under      *)
(* another's key, or if a queued object could be of another class.         *)


\* The informer stores an object under its own key.
KeysOK ==
    \A i \in Ingresses :
        /\ store[i] # None => store[i].key = i
        /\ cache[i] # None => cache[i].key = i

\* A create or an update is about an ingress of this controller's class, and
\* an update has the object before it.
ClassesOK ==
    \A n \in DOMAIN queue :
        /\ queue[n].type # "delete" => IsValid(queue[n].obj)
        /\ queue[n].type = "update" => queue[n].old # None

QueueInv == KeysOK /\ ClassesOK /\ EventsChain

\* The same object again, or the same spec, has the same class.
LEMMA SpecOfOK ==
  ASSUME NEW o \in Object \cup {None}
  PROVE  /\ IsValid(o) => o \in Object /\ SpecOf(o) = o.spec /\ SpecOf(o) # None
         /\ ~IsValid(o) => SpecOf(o) = None
         /\ SpecOf(None) = None
BY NoneAssumption DEF SpecOf, IsValid, Object

\* The queue is empty when the process starts.
LEMMA QueueInit == Init => QueueInv
BY DEF Init, QueueInv, KeysOK, ClassesOK, EventsChain

\* What the cluster and the status writes do to the stored objects' keys.
LEMMA KeysStep ==
  ASSUME TypeOK, KeysOK, [Next]_vars
  PROVE  KeysOK'
<1>0. /\ store \in [Ingresses -> Object \cup {None}]
      /\ cache \in [Ingresses -> Object \cup {None}]
  BY DEF TypeOK
<1>1. CASE UNCHANGED <<store, cache>>
  BY <1>1 DEF KeysOK
<1>2. ASSUME NEW i \in Ingresses, Apply(i) PROVE KeysOK'
  <2>1. PICK s \in Specs : Store(i, [key |-> i, rv |-> version[i] + 1, spec |-> s])
    BY <1>2 DEF Apply
  <2>2. store' = [store EXCEPT ![i] = [key |-> i, rv |-> version[i] + 1, spec |-> s]]
    BY <2>1 DEF Store
  <2>3. cache' = cache
    BY <1>2 DEF Apply, controller
  <2> QED
    BY <1>0, <2>2, <2>3 DEF KeysOK
<1>3. ASSUME NEW i \in Ingresses, Remove(i) PROVE KeysOK'
  <2>1. store' = [store EXCEPT ![i] = None] /\ cache' = cache
    BY <1>3 DEF Remove, Store, controller
  <2> QED
    BY <1>0, <2>1 DEF KeysOK
<1>4. ASSUME NEW i \in Ingresses, Deliver(i) PROVE KeysOK'
  <2>1. store' = store /\ cache' = [cache EXCEPT ![i] = store[i]]
    BY <1>4 DEF Deliver, cluster
  <2> QED
    BY <1>0, <2>1 DEF KeysOK
<1>5. ASSUME NEW p \in Processes, UpdateStatus(p) PROVE KeysOK'
  <2> DEFINE o == run[p].new
  <2>1. cache' = cache
    BY <1>5 DEF UpdateStatus
  <2>2. \/ store' = store
        \/ store[o.key] # None /\ store' = [store EXCEPT ![o.key].rv = @ + 1]
    BY <1>5 DEF UpdateStatus
  <2> HIDE DEF o
  <2>3. CASE store' = store
    BY <1>1, <2>1, <2>3
  <2>4. CASE store[o.key] # None /\ store' = [store EXCEPT ![o.key].rv = @ + 1]
    <3>1. \A i \in Ingresses : store'[i] = store[i] \/ (i = o.key /\ store[i] # None
                                 /\ store'[i] = [store[i] EXCEPT !.rv = @ + 1])
      BY <1>0, <2>4
    <3>2. \A i \in Ingresses : store[i] # None => [store[i] EXCEPT !.rv = @ + 1].key = store[i].key
      BY <1>0 DEF Object
    <3> QED
      BY <2>1, <3>1, <3>2 DEF KeysOK
  <2> QED
    BY <2>2, <2>3, <2>4
<1>6. CASE Crash
  BY <1>6 DEF Crash, cluster, KeysOK
<1>7. CASE \/ \E s \in Services : ChangeService(s)
           \/ ChangeNodes \/ FlagTick \/ ListFails
           \/ \E p \in Processes : CallFails(p) \/ DropFails(p)
           \/ Take \/ SyncLoop
  BY <1>1, <1>7 DEF ChangeService, ChangeNodes, FlagTick, ListFails, CallFails,
     DropFails, Fail, Take, SyncLoop, NodeTick, StartPass, ListIngresses, SyncNext,
     EndPass, controller, cluster
<1>8. ASSUME NEW p \in Processes, Call(p) PROVE KeysOK'
  BY <1>1, <1>5, <1>8 DEF Call, Inspect, InspectFails, InspectCurrentLB, FindPool,
     CreatePool, GetMemberPool, UpdatePoolMember, FindPolicy, CreatePolicy, GetPolicy,
     UpdatePolicy, WritePolicy, FindOldPolicy, DeletePolicy, FindOldPool, DeletePool,
     EndLoop, EndDrops, Refused, Fail, cluster
<1>9. CASE UNCHANGED vars
  BY <1>1, <1>9 DEF vars, cluster, controller
<1> QED
  BY <1>2, <1>3, <1>4, <1>6, <1>7, <1>8, <1>9 DEF Next, Outside

\* A step that leaves the queue and the informer's objects alone.
LEMMA QueueIdle ==
  ASSUME QueueInv, UNCHANGED <<cache, queue>>
  PROVE  ClassesOK' /\ EventsChain'
BY DEF QueueInv, ClassesOK, EventsChain, IsValid, SpecOf

\* The worker takes the first event: the others keep their order.
LEMMA QueueTake ==
  ASSUME TypeOK, QueueInv, Take
  PROVE  ClassesOK' /\ EventsChain'
<1>1. queue \in Seq(Event) /\ queue # <<>> /\ queue' = Tail(queue) /\ cache' = cache
  BY DEF TypeOK, Take
<1>2. /\ Len(queue') = Len(queue) - 1
      /\ DOMAIN queue' = 1 .. Len(queue) - 1
      /\ DOMAIN queue = 1 .. Len(queue)
      /\ Len(queue) \in Nat \ {0}
      /\ \A n \in DOMAIN queue' : n + 1 \in DOMAIN queue /\ queue'[n] = queue[n + 1]
  BY <1>1
<1>3. ClassesOK'
  BY <1>2 DEF QueueInv, ClassesOK, IsValid
<1>4. ASSUME NEW m \in DOMAIN queue', NEW n \in DOMAIN queue', m < n,
             queue'[m].obj.key = queue'[n].obj.key,
             \A l \in m + 1 .. n - 1 : queue'[l].obj.key # queue'[n].obj.key
      PROVE  /\ queue'[n].type = "update" => queue'[n].old.spec = queue'[m].obj.spec
             /\ (queue'[n].type = "create") = (queue'[m].type = "delete")
  <2>1. ASSUME NEW l \in (m + 1) + 1 .. (n + 1) - 1
        PROVE  queue[l].obj.key # queue[n + 1].obj.key
    <3>1. l - 1 \in m + 1 .. n - 1 /\ l - 1 \in DOMAIN queue' /\ (l - 1) + 1 = l
      BY <1>2
    <3> QED
      BY <1>2, <1>4, <3>1
  <2>2. m + 1 \in DOMAIN queue /\ n + 1 \in DOMAIN queue /\ m + 1 < n + 1
    BY <1>2, <1>4
  <2> QED
    BY <1>2, <1>4, <2>1, <2>2 DEF QueueInv, EventsChain
<1>5. ASSUME NEW n \in DOMAIN queue',
             \A l \in n + 1 .. Len(queue') : queue'[l].obj.key # queue'[n].obj.key
      PROVE  IF queue'[n].type = "delete" THEN ~IsValid(cache'[queue'[n].obj.key])
             ELSE SpecOf(queue'[n].obj) = SpecOf(cache'[queue'[n].obj.key])
  <2>1. ASSUME NEW l \in (n + 1) + 1 .. Len(queue)
        PROVE  queue[l].obj.key # queue[n + 1].obj.key
    <3>1. l - 1 \in n + 1 .. Len(queue') /\ l - 1 \in DOMAIN queue' /\ (l - 1) + 1 = l
      BY <1>2
    <3> QED
      BY <1>2, <1>5, <3>1
  <2> QED
    BY <1>1, <1>2, <2>1 DEF QueueInv, EventsChain
<1>6. EventsChain'
  BY <1>4, <1>5 DEF EventsChain
<1> QED
  BY <1>3, <1>6

\* The informer's event joins the end of the queue: it follows the last event
\* of its ingress, because that one is about the object delivered before.
LEMMA QueueDeliver ==
  ASSUME TypeOK, QueueInv, NEW i \in Ingresses, Deliver(i)
  PROVE  ClassesOK' /\ EventsChain'
<1> DEFINE old == cache[i]
           new == store[i]
           last == Len(queue) + 1
<1>1. /\ old \in Object \cup {None} /\ new \in Object \cup {None}
      /\ old # None => old.key = i
      /\ new # None => new.key = i
      /\ queue \in Seq(Event) /\ cache \in [Ingresses -> Object \cup {None}]
  BY DEF TypeOK, QueueInv, KeysOK
<1>2. /\ queue' = queue \o Events(old, new)
      /\ cache' = [cache EXCEPT ![i] = new]
  BY DEF Deliver, Enqueue
<1>3. /\ cache'[i] = new
      /\ \A j : j # i => cache'[j] = cache[j]
  BY <1>1, <1>2
<1>4. ASSUME NEW n \in DOMAIN queue, queue[n].obj.key = i,
             \A l \in n + 1 .. Len(queue) : queue[l].obj.key # i
      PROVE  /\ queue[n].type = "delete" => ~IsValid(old)
             /\ queue[n].type # "delete" => IsValid(old) /\ queue[n].obj.spec = old.spec
  <2>1. IF queue[n].type = "delete" THEN ~IsValid(old) ELSE SpecOf(queue[n].obj) = SpecOf(old)
    BY <1>4 DEF QueueInv, EventsChain
  <2>2. queue[n].obj \in Object
    <3>1. queue[n] \in Event
      BY <1>1, <1>4
    <3> QED
      BY <3>1 DEF Event
  <2>3. queue[n].type # "delete" => SpecOf(queue[n].obj) = queue[n].obj.spec
                                      /\ SpecOf(queue[n].obj) # None
    BY <2>2, SpecOfOK DEF QueueInv, ClassesOK
  <2> QED
    BY <1>1, <2>1, <2>3, SpecOfOK
<1> HIDE DEF old, new
\* Either nothing is queued and the class and spec stay as they were ...
<1>5. CASE Events(old, new) = <<>>
  <2>1. queue' = queue
    BY <1>1, <1>2, <1>5
  <2>2. /\ IsValid(old) <=> IsValid(new)
        /\ IsValid(old) => old.spec = new.spec
    <3>1. /\ CreateEvent(new) # <<>> /\ UpdateEvent(old, new) # <<>>
          /\ \A o : DeleteEvent(o) # <<>>
      BY DEF CreateEvent, UpdateEvent, DeleteEvent
    <3>2. ~(~IsValid(old) /\ IsValid(new))
      BY <1>5, <3>1 DEF Events
    <3>3. ~(IsValid(old) /\ ~IsValid(new))
      BY <1>5, <3>1 DEF Events
    <3>4. ~(IsValid(old) /\ IsValid(new) /\ new.spec # old.spec)
      BY <1>5, <3>1, <3>2, <3>3 DEF Events
    <3> QED
      BY <3>2, <3>3, <3>4
  <2>3. SpecOf(old) = SpecOf(new)
    BY <2>2 DEF SpecOf
  <2>4. cache[i] = old
    BY DEF old
  <2>5. \A j \in Ingresses : (IsValid(cache'[j]) <=> IsValid(cache[j]))
                             /\ SpecOf(cache'[j]) = SpecOf(cache[j])
    BY <1>3, <2>2, <2>3, <2>4
  <2>6. \A n \in DOMAIN queue : queue[n].obj.key \in Ingresses
    <3>1. \A n \in DOMAIN queue : queue[n] \in Event
      BY <1>1
    <3>2. \A e \in Event : e.obj.key \in Ingresses
      BY DEF Event, Object
    <3> QED
      BY <3>1, <3>2
  <2>7. ClassesOK'
    BY <2>1 DEF QueueInv, ClassesOK, IsValid
  <2>8. ASSUME NEW n \in DOMAIN queue',
               \A l \in n + 1 .. Len(queue') : queue'[l].obj.key # queue'[n].obj.key
        PROVE  IF queue'[n].type = "delete" THEN ~IsValid(cache'[queue'[n].obj.key])
               ELSE SpecOf(queue'[n].obj) = SpecOf(cache'[queue'[n].obj.key])
    BY <2>1, <2>5, <2>6, <2>8 DEF QueueInv, EventsChain
  <2>9. EventsChain'
    BY <2>1, <2>8 DEF QueueInv, EventsChain
  <2> QED
    BY <2>7, <2>9
\* ... or one event is, whose kind fits what was known before.
<1>6. ASSUME NEW e \in Event, Events(old, new) = <<e>>,
             e.obj.key = i,
             e.type = "delete" => IsValid(old) /\ ~IsValid(new),
             e.type # "delete" => IsValid(new) /\ e.obj = new,
             e.type = "create" => ~IsValid(old),
             e.type = "update" => IsValid(old) /\ e.old = old
      PROVE  ClassesOK' /\ EventsChain'
  <2>1. /\ queue' = Append(queue, e)
        /\ Len(queue') = last /\ Len(queue) \in Nat
        /\ DOMAIN queue' = 1 .. last /\ DOMAIN queue = 1 .. last - 1
        /\ queue'[last] = e
        /\ \A n \in DOMAIN queue : n \in DOMAIN queue' /\ queue'[n] = queue[n]
    BY <1>1, <1>2, <1>6
  <2> HIDE DEF last
  <2>2. e.type \in {"create", "update", "delete"}
    BY DEF Event
  <2>3. ClassesOK'
    <3>1. ASSUME NEW n \in DOMAIN queue'
          PROVE  /\ queue'[n].type # "delete" => IsValid(queue'[n].obj)
                 /\ queue'[n].type = "update" => queue'[n].old # None
      <4>1. CASE n = last
        BY <1>6, <2>1, <4>1 DEF IsValid
      <4>2. CASE n \in DOMAIN queue
        BY <2>1, <4>2 DEF QueueInv, ClassesOK
      <4> QED
        BY <2>1, <4>1, <4>2
    <3> QED
      BY <3>1 DEF ClassesOK
  <2>4. ASSUME NEW m \in DOMAIN queue', NEW n \in DOMAIN queue', m < n,
               queue'[m].obj.key = queue'[n].obj.key,
               \A l \in m + 1 .. n - 1 : queue'[l].obj.key # queue'[n].obj.key
        PROVE  /\ queue'[n].type = "update" => queue'[n].old.spec = queue'[m].obj.spec
               /\ (queue'[n].type = "create") = (queue'[m].type = "delete")
    <3>0. m \in DOMAIN queue /\ queue'[m] = queue[m]
      BY <2>1, <2>4
    <3>1. CASE n = last
      <4>1. queue[m].obj.key = i
        BY <1>6, <2>1, <2>4, <3>0, <3>1
      <4>2. \A l \in m + 1 .. Len(queue) : queue[l].obj.key # i
        BY <1>6, <2>1, <2>4, <3>1
      <4>3. /\ queue[m].type = "delete" => ~IsValid(old)
            /\ queue[m].type # "delete" => IsValid(old) /\ queue[m].obj.spec = old.spec
        BY <1>4, <3>0, <4>1, <4>2 DEF old
      <4> QED
        BY <1>6, <2>1, <2>2, <3>0, <3>1, <4>3
    <3>2. CASE n \in DOMAIN queue
      <4>1. \A l \in m + 1 .. n - 1 : queue[l].obj.key # queue[n].obj.key
        BY <2>1, <2>4, <3>0, <3>2
      <4> QED
        BY <2>1, <2>4, <3>0, <3>2, <4>1 DEF QueueInv, EventsChain
    <3> QED
      BY <2>1, <3>1, <3>2
  <2>5. ASSUME NEW n \in DOMAIN queue',
               \A l \in n + 1 .. Len(queue') : queue'[l].obj.key # queue'[n].obj.key
        PROVE  IF queue'[n].type = "delete" THEN ~IsValid(cache'[queue'[n].obj.key])
               ELSE SpecOf(queue'[n].obj) = SpecOf(cache'[queue'[n].obj.key])
    <3>1. CASE n = last
      BY <1>3, <1>6, <2>1, <3>1
    <3>2. CASE n \in DOMAIN queue
      <4>1. queue'[n] = queue[n] /\ last \in n + 1 .. Len(queue')
        BY <2>1, <3>2
      <4>2. queue[n].obj.key # i
        BY <1>6, <2>1, <2>5, <4>1
      <4>3. \A l \in n + 1 .. Len(queue) : queue[l].obj.key # queue[n].obj.key
        BY <2>1, <2>5, <3>2
      <4>4. cache'[queue[n].obj.key] = cache[queue[n].obj.key]
        BY <1>3, <4>2
      <4> QED
        BY <3>2, <4>1, <4>3, <4>4 DEF QueueInv, EventsChain
    <3> QED
      BY <2>1, <3>1, <3>2
  <2>6. EventsChain'
    BY <2>4, <2>5 DEF EventsChain
  <2> QED
    BY <2>3, <2>6
<1>7. CASE ~IsValid(old) /\ IsValid(new)
  <2> DEFINE e == [type |-> "create", obj |-> new, old |-> None]
  <2>1. new \in Object /\ new.key = i
    BY <1>1, <1>7, SpecOfOK DEF IsValid
  <2>2. e \in Event /\ e.obj = new /\ e.type = "create"
    BY <2>1 DEF Event
  <2>3. Events(old, new) = <<e>>
    BY <1>7 DEF Events, CreateEvent
  <2> HIDE DEF e
  <2> QED
    BY <1>6, <1>7, <2>1, <2>2, <2>3
<1>8. CASE IsValid(old) /\ ~IsValid(new)
  <2> DEFINE o == IF new = None THEN old ELSE new
             e == [type |-> "delete", obj |-> o, old |-> None]
  <2>1. o \in Object /\ o.key = i
    BY <1>1, <1>8, SpecOfOK DEF IsValid
  <2>2. e \in Event /\ e.obj = o /\ e.type = "delete"
    BY <2>1 DEF Event
  <2>3. Events(old, new) = <<e>>
    BY <1>8 DEF Events, DeleteEvent
  <2> HIDE DEF e
  <2> QED
    BY <1>6, <1>8, <2>1, <2>2, <2>3
<1>9. CASE IsValid(old) /\ IsValid(new) /\ new.spec # old.spec
  <2> DEFINE e == [type |-> "update", obj |-> new, old |-> old]
  <2>1. new \in Object /\ new.key = i /\ old \in Object
    BY <1>1, <1>9, SpecOfOK DEF IsValid
  <2>2. e \in Event /\ e.obj = new /\ e.type = "update" /\ e.old = old
    BY <2>1 DEF Event
  <2>3. Events(old, new) = <<e>>
    BY <1>9 DEF Events, UpdateEvent
  <2> HIDE DEF e
  <2> QED
    BY <1>6, <1>9, <2>1, <2>2, <2>3
<1> QED
  BY <1>5, <1>7, <1>8, <1>9 DEF Events

\* Every step keeps the queue in order; a restart loses all of it.
LEMMA QueueStep ==
  ASSUME TypeOK, QueueInv, [Next]_vars
  PROVE  QueueInv'
<1>1. KeysOK'
  BY KeysStep DEF QueueInv
<1>2. CASE UNCHANGED <<cache, queue>>
  BY <1>1, <1>2, QueueIdle DEF QueueInv
<1>3. CASE \E i \in Ingresses : Deliver(i)
  BY <1>1, <1>3, QueueDeliver DEF QueueInv
<1>4. CASE Take
  BY <1>1, <1>4, QueueTake DEF QueueInv
<1>5. CASE Crash
  <2>1. queue' = <<>>
    BY <1>5 DEF Crash
  <2> QED
    BY <1>1, <2>1 DEF QueueInv, ClassesOK, EventsChain
<1>6. CASE \/ \E i \in Ingresses : Apply(i) \/ Remove(i)
           \/ \E s \in Services : ChangeService(s)
           \/ ChangeNodes \/ FlagTick \/ ListFails
           \/ \E p \in Processes : CallFails(p) \/ DropFails(p)
           \/ SyncLoop
  BY <1>2, <1>6 DEF Apply, Remove, ChangeService, ChangeNodes, FlagTick, ListFails,
     CallFails, DropFails, Fail, SyncLoop, NodeTick, StartPass, ListIngresses,
     SyncNext, EndPass, controller
<1>7. CASE \E p \in Processes : Call(p)
  BY <1>2, <1>7 DEF Call, Inspect, InspectFails, InspectCurrentLB, FindPool,
     CreatePool, GetMemberPool, UpdatePoolMember, FindPolicy, CreatePolicy, GetPolicy,
     UpdatePolicy, WritePolicy, FindOldPolicy, DeletePolicy, FindOldPool, DeletePool,
     EndLoop, EndDrops, Refused, Fail, UpdateStatus
<1>8. CASE UNCHANGED vars
  BY <1>2, <1>8 DEF vars, controller
<1> QED
  BY <1>3, <1>4, <1>5, <1>6, <1>7, <1>8 DEF Next, Outside

\* An update on the queue compares with the object the event before it asked
\* for, a create follows only a delete, and the last event of an ingress is
\* about what the informer knows: what AddFunc, UpdateFunc and DeleteFunc
\* queue never leaves a gap, for any users, skipped versions and restarts.
THEOREM EventsChained == Spec => []EventsChain
<1>1. QueueInv => EventsChain
  BY DEF QueueInv
<1> QED
  BY <1>1, QueueInit, QueueStep, TypeCorrect, PTL DEF Spec
=============================================================================
