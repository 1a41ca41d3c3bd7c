------------------------ MODULE AppliedExactlyProofs ------------------------
(***************************************************************************)
(* What the worker leaves on the load balancers is what it applied, for    *)
(* every set of ingresses, specs, nodes and bounds: AppliedExactly,        *)
(* KeepsServing and DropsUnusedPools of IngressController.  None of them   *)
(* is inductive.  The invariant that carries all three says how far the    *)
(* worker has come with its object: which pools and policies are there     *)
(* already (NothingMissing), and which may still be there (NothingMore).   *)
(***************************************************************************)
EXTENDS IngressDeliveryProofs

\* What a run keeps from where it began: both objects are of one ingress, a
\* deletion is about something the new object does not use, and the loops
\* start at their first item.
RunFits(r) ==
    /\ r.old # None /\ r.new # None => r.old.key = r.new.key
    /\ r.call = "delete" /\ r.k <= Len(Items(r)) =>
         /\ r.stage = "dropPolicy" => RedundantPolicy(r, Item(r))
         /\ r.stage = "dropPool" => RedundantPool(r, Item(r))
    /\ r.stage \in {"inspect", "current"} => r.k = 1

\* An update is about one ingress.
QueueFits == \A n \in DOMAIN queue : queue[n].old # None => queue[n].old.key = queue[n].obj.key

\* A pass ensures ingresses of this controller's class, and deletes nothing.
PassFits ==
    /\ \A o \in pass.todo : IsValid(o)
    /\ run[Sync].old = None
    /\ Busy(run[Sync]) => IsValid(run[Sync].new)

RunsFit == \A p \in Processes : RunFits(run[p])

AppliedFits == \A i \in Ingresses : applied[i] # None => applied[i].key = i

\* A policy redirects to a pool of its own ingress.
PoliciesFit ==
    \A lb \in LBs, n \in AllPolicyNames :
        policy[lb][n] # None => policy[lb][n].pool[1] = n[1]

\* Objects and names stay with their ingress.
Fitting == QueueFits /\ PassFits /\ RunsFit /\ AppliedFits /\ PoliciesFit

-----------------------------------------------------------------------------
(* Names.                                                                  *)

\* The names of an object's pools and policies are its ingress's, and no two
\* paths have a policy of one name.
LEMMA NamesOK ==
  ASSUME NEW o \in Object \cup {None}
  PROVE  /\ Paths(o) \in Seq(Path)
         /\ Paths(o) # <<>> => o # None
         /\ o # None => o \in Object /\ o.key \in Ingresses /\ o.spec.lb \in LBs
         /\ \A k \in DOMAIN Paths(o) :
              /\ o # None
              /\ Paths(o)[k] \in Path
              /\ PoolName(o, Paths(o)[k]) \in AllPoolNames
              /\ PoolName(o, Paths(o)[k])[1] = o.key
              /\ PolicyName(o, Paths(o)[k]) \in AllPolicyNames
              /\ PolicyName(o, Paths(o)[k])[1] = o.key
         /\ \A j, k \in DOMAIN Paths(o) :
              PolicyName(o, Paths(o)[j]) = PolicyName(o, Paths(o)[k]) => j = k
<1>1. CASE o = None
  <2>1. Paths(o) = <<>> /\ DOMAIN Paths(o) = {}
    BY <1>1 DEF Paths
  <2> QED
    BY <1>1, <2>1
<1>2. CASE o # None
  <2>1. /\ o \in Object /\ o.key \in Ingresses /\ o.spec \in Specs
        /\ Paths(o) = o.spec.paths
    BY <1>2 DEF Object, Paths
  <2>2. o.spec.lb \in LBs /\ Paths(o) \in Seq(Path)
    BY <2>1, SpecsAssumption
  <2>3. \A k \in DOMAIN Paths(o) : Paths(o)[k] \in Path
    BY <2>2
  <2>4. \A j, k \in DOMAIN Paths(o) : Paths(o)[k].at = Paths(o)[j].at => j = k
    BY <2>1, SpecsAssumption
  <2>5. \A k \in DOMAIN Paths(o) :
              /\ PoolName(o, Paths(o)[k]) \in AllPoolNames
              /\ PoolName(o, Paths(o)[k])[1] = o.key
              /\ PolicyName(o, Paths(o)[k]) \in AllPolicyNames
              /\ PolicyName(o, Paths(o)[k])[1] = o.key
    BY <2>1, <2>3 DEF PoolName, PolicyName, AllPoolNames, AllPolicyNames, Path
  <2>6. \A j, k \in DOMAIN Paths(o) :
              PolicyName(o, Paths(o)[j]) = PolicyName(o, Paths(o)[k]) => j = k
    BY <2>4 DEF PolicyName
  <2> QED
    BY <1>2, <2>1, <2>2, <2>3, <2>5, <2>6
<1> QED
  BY <1>1, <1>2

-----------------------------------------------------------------------------
(* What a step does with the goroutines' runs.                             *)

\* A run with nothing to work on.
Empty(r) == ~Busy(r) /\ r.call = "find" /\ r.old = None /\ r.new = None

\* A run goes on with its objects.
MovesOn(r, r2) ==
    /\ Busy(r) /\ Busy(r2)
    /\ r2.old = r.old /\ r2.new = r.new
    /\ RunFits(r) => RunFits(r2)

\* Idle runs and those between two ingresses of a pass.
LEMMA EmptyOK ==
  /\ Empty(Idle) /\ Empty([Idle EXCEPT !.stage = "list"]) /\ Empty([Idle EXCEPT !.stage = "next"])
  /\ \A p \in Processes : Empty(Return(p))
<1>1. /\ Empty(Idle) /\ Empty([Idle EXCEPT !.stage = "list"])
      /\ Empty([Idle EXCEPT !.stage = "next"])
  BY DEF Empty, Busy, Idle
<1>2. \A p \in Processes : Return(p) = Idle \/ Return(p) = [Idle EXCEPT !.stage = "next"]
  BY DEF Return
<1> QED
  BY <1>1, <1>2

\* Then and NextItem.
LEMMA ThenMoves ==
  ASSUME TypeOK, NEW p \in Processes, Busy(run[p]), NEW call,
         call = "delete" =>
            /\ run[p].stage = "dropPolicy" => RedundantPolicy(run[p], Item(run[p]))
            /\ run[p].stage = "dropPool" => RedundantPool(run[p], Item(run[p])),
         Then(p, call)
  PROVE  MovesOn(run[p], run'[p])
<1> DEFINE r == run[p]
           r2 == [r EXCEPT !.call = call]
<1>1. r \in Run /\ run'[p] = r2
  BY DEF TypeOK, Then, Goto
<1>2. r2.stage = r.stage /\ r2.call = call /\ r2.k = r.k /\ r2.old = r.old /\ r2.new = r.new
  BY <1>1 DEF Run
<1> HIDE DEF r2
<1>3. /\ Items(r2) = Items(r) /\ Item(r2) = Item(r)
      /\ RedundantPolicy(r2, Item(r)) <=> RedundantPolicy(r, Item(r))
      /\ RedundantPool(r2, Item(r)) <=> RedundantPool(r, Item(r))
  BY <1>2 DEF Items, Item, RedundantPolicy, RedundantPool
<1>4. MovesOn(r, r2)
  BY <1>2, <1>3 DEF MovesOn, RunFits, Busy
<1> QED
  BY <1>1, <1>4

LEMMA NextItemMoves ==
  ASSUME TypeOK, NEW p \in Processes, Busy(run[p]),
         run[p].stage \notin {"inspect", "current"}, NextItem(p)
  PROVE  MovesOn(run[p], run'[p])
<1> DEFINE r == run[p]
           r2 == [r EXCEPT !.k = @ + 1, !.call = "find"]
<1>1. r \in Run /\ run'[p] = r2
  BY DEF TypeOK, NextItem, Goto
<1>2. r2.stage = r.stage /\ r2.call = "find" /\ r2.old = r.old /\ r2.new = r.new
  BY <1>1 DEF Run
<1> HIDE DEF r2
<1>3. MovesOn(r, r2)
  BY <1>2 DEF MovesOn, RunFits, Busy
<1> QED
  BY <1>1, <1>3

\* A step of ensureIngress that is not its last.
LEMMA CallMoves ==
  ASSUME TypeOK, NEW p \in Processes, Call(p)
  PROVE  MovesOn(run[p], run'[p]) \/ (Goto(p, Return(p)) /\ Empty(run'[p]))
<1> DEFINE r == run[p]
<1>0. r \in Run /\ run \in [Processes -> Run]
  BY DEF TypeOK
<1>1. CASE Goto(p, Return(p))
  <2>1. run'[p] = Return(p)
    BY <1>0, <1>1 DEF Goto
  <2> QED
    BY <1>1, <2>1, EmptyOK
<1>2. CASE Inspect(p)
  <2> DEFINE r2 == [r EXCEPT !.stage = "current", !.nodes = nodes, !.ports = ports]
  <2>1. run'[p] = r2 /\ r.stage = "inspect"
    BY <1>0, <1>2 DEF Goto, Inspect
  <2>2. /\ r2.stage = "current" /\ r2.old = r.old /\ r2.new = r.new
        /\ r2.call = r.call /\ r2.k = r.k
    BY <1>0 DEF Run
  <2> HIDE DEF r2
  <2>3. MovesOn(r, r2)
    BY <2>1, <2>2 DEF MovesOn, RunFits, Busy
  <2> QED
    BY <2>1, <2>3
<1>3. CASE InspectCurrentLB(p)
  <2> DEFINE r2 == [r EXCEPT !.stage = "pool", !.seen = MapIDExpander(r)]
  <2>1. run'[p] = r2 /\ r.stage = "current"
    BY <1>0, <1>3 DEF Goto, InspectCurrentLB
  <2>2. r2.stage = "pool" /\ r2.old = r.old /\ r2.new = r.new
    BY <1>0 DEF Run
  <2> HIDE DEF r2
  <2>3. MovesOn(r, r2)
    BY <2>1, <2>2 DEF MovesOn, RunFits, Busy
  <2> QED
    BY <2>1, <2>3
<1>4. CASE EndLoop(p)
  <2> DEFINE r2 == [r EXCEPT !.stage = Following[@], !.k = 1, !.call = "find"]
  <2>1. run'[p] = r2 /\ r.stage \in {"pool", "policy", "dropPolicy"}
    BY <1>0, <1>4 DEF Goto, EndLoop, Following
  <2>2. /\ r2.stage \in {"policy", "dropPolicy", "dropPool"}
        /\ r2.old = r.old /\ r2.new = r.new /\ r2.call = "find"
    BY <1>0, <2>1 DEF Run, Following
  <2> HIDE DEF r2
  <2>3. MovesOn(r, r2)
    BY <2>1, <2>2 DEF MovesOn, RunFits, Busy
  <2> QED
    BY <2>1, <2>3
<1>5. CASE EndDrops(p) /\ r.new # None
  <2> DEFINE r2 == [r EXCEPT !.stage = "status"]
  <2>1. run'[p] = r2 /\ r.stage = "dropPool"
    BY <1>0, <1>5 DEF Goto, EndDrops
  <2>2. r2.stage = "status" /\ r2.old = r.old /\ r2.new = r.new
    BY <1>0 DEF Run
  <2> HIDE DEF r2
  <2>3. MovesOn(r, r2)
    BY <2>1, <2>2 DEF MovesOn, RunFits, Busy
  <2> QED
    BY <2>1, <2>3
<1>6. CASE \/ FindPool(p) \/ CreatePool(p) \/ GetMemberPool(p) \/ UpdatePoolMember(p)
           \/ FindPolicy(p) \/ CreatePolicy(p) \/ GetPolicy(p) \/ UpdatePolicy(p)
  <2>1. /\ r.stage \in {"pool", "policy"}
        /\ NextItem(p) \/ Then(p, "create") \/ Then(p, "get") \/ Then(p, "update")
    BY <1>6 DEF FindPool, CreatePool, GetMemberPool, UpdatePoolMember, FindPolicy,
       CreatePolicy, GetPolicy, UpdatePolicy, At
  <2> QED
    BY <2>1, ThenMoves, NextItemMoves DEF Busy
<1>7. CASE FindOldPolicy(p) \/ DeletePolicy(p)
  <2>1. /\ r.stage = "dropPolicy"
        /\ NextItem(p) \/ (Then(p, "delete") /\ RedundantPolicy(r, Item(r)))
    BY <1>7 DEF FindOldPolicy, DeletePolicy, At
  <2> QED
    BY <2>1, ThenMoves, NextItemMoves DEF Busy
<1>8. CASE FindOldPool(p) \/ DeletePool(p)
  <2>1. /\ r.stage = "dropPool"
        /\ NextItem(p) \/ (Then(p, "delete") /\ RedundantPool(r, Item(r)))
    BY <1>8 DEF FindOldPool, DeletePool, At
  <2> QED
    BY <2>1, ThenMoves, NextItemMoves DEF Busy
<1>9. CASE EndDrops(p) /\ r.new = None
  BY <1>1, <1>9 DEF EndDrops
<1>10. CASE InspectFails(p) \/ UpdateStatus(p) \/ Refused(p)
  BY <1>1, <1>10 DEF InspectFails, UpdateStatus, Refused, Fail
<1> QED
  BY <1>2, <1>3, <1>4, <1>5, <1>6, <1>7, <1>8, <1>9, <1>10 DEF Call

\* Of all the steps.
LEMMA RunsMove ==
  ASSUME TypeOK, [Next]_vars, NEW q \in Processes
  PROVE  \/ run'[q] = run[q]
         \/ Empty(run'[q])
         \/ MovesOn(run[q], run'[q])
         \/ q = Worker /\ Take /\ run'[q] = RunOf(Head(queue))
         \/ q = Sync /\ SyncNext /\ \E o \in pass.todo : run'[q] = Begin(None, o)
<1>0. run \in [Processes -> Run]
  BY DEF TypeOK
<1>1. ASSUME NEW p \in Processes, NEW r, Goto(p, r)
      PROVE  run'[q] = IF q = p THEN r ELSE run[q]
  BY <1>0, <1>1 DEF Goto
<1>2. ASSUME NEW p \in Processes, Call(p) PROVE run'[q] = run[q] \/ q = p
  <2>1. \E r : run' = [run EXCEPT ![p] = r]
    BY <1>2 DEF Call, Inspect, InspectFails, InspectCurrentLB, FindPool,
     CreatePool, GetMemberPool, UpdatePoolMember, FindPolicy, CreatePolicy, GetPolicy,
     UpdatePolicy, FindOldPolicy, DeletePolicy, FindOldPool, DeletePool,
     EndLoop, EndDrops, Refused, Fail, UpdateStatus, Then, NextItem, Goto
  <2> QED
    BY <1>0, <2>1
<1>3. ASSUME NEW p \in Processes, CallFails(p)
      PROVE run'[q] = run[q] \/ Empty(run'[q])
  BY <1>1, <1>3, EmptyOK DEF CallFails, Fail
<1>4. ASSUME NEW p \in Processes, DropFails(p)
      PROVE run'[q] = run[q] \/ MovesOn(run[q], run'[q])
  <2>1. NextItem(p) /\ Busy(run[p]) /\ run[p].stage \notin {"inspect", "current"}
    BY <1>4 DEF DropFails, At, Busy
  <2>2. run'[q] = run[q] \/ q = p
    BY <1>1, <2>1 DEF NextItem
  <2> QED
    BY <2>1, <2>2, NextItemMoves
<1>5. CASE FlagTick \/ ListFails \/ NodeTick \/ ListIngresses \/ EndPass
  BY <1>1, <1>5, EmptyOK DEF FlagTick, ListFails, NodeTick, StartPass, ListIngresses, EndPass,
     Processes
<1>6. CASE SyncNext
  <2>1. PICK o \in pass.todo : Goto(Sync, Begin(None, o))
    BY <1>6 DEF SyncNext
  <2>2. run'[q] = IF q = Sync THEN Begin(None, o) ELSE run[q]
    BY <1>1, <2>1 DEF Processes
  <2> QED
    BY <1>6, <2>2
<1>7. CASE Take
  <2>1. Goto(Worker, RunOf(Head(queue)))
    BY <1>7 DEF Take
  <2>2. run'[q] = IF q = Worker THEN RunOf(Head(queue)) ELSE run[q]
    BY <1>1, <2>1 DEF Processes
  <2> QED
    BY <1>7, <2>2
<1>8. CASE Crash
  BY <1>8, EmptyOK DEF Crash
<1>9. CASE \/ \E i \in Ingresses : Apply(i) \/ Remove(i) \/ Deliver(i)
           \/ \E s \in Services : ChangeService(s)
           \/ ChangeNodes \/ UNCHANGED vars
  BY <1>9 DEF Apply, Remove, Deliver, ChangeService, ChangeNodes, vars, controller
<1>10. ASSUME NEW p \in Processes, Call(p)
       PROVE run'[q] = run[q] \/ MovesOn(run[q], run'[q]) \/ Empty(run'[q])
  BY <1>2, <1>10, CallMoves
<1> QED
  BY <1>3, <1>4, <1>5, <1>6, <1>7, <1>8, <1>9, <1>10 DEF Next, Outside, SyncLoop

-----------------------------------------------------------------------------
(* Fitting is an invariant.                                                *)

\* A run fits when it begins, while it goes on, and when it is over.
LEMMA RunsFitStep ==
  ASSUME TypeOK, QueueFits, PassFits, RunsFit, [Next]_vars
  PROVE  RunsFit'
<1> SUFFICES ASSUME NEW q \in Processes PROVE RunFits(run'[q])
  BY DEF RunsFit
<1>1. CASE run'[q] = run[q]
  BY <1>1 DEF RunsFit
<1>2. CASE Empty(run'[q])
  BY <1>2 DEF RunFits, Empty, Busy
<1>3. CASE MovesOn(run[q], run'[q])
  BY <1>3 DEF RunsFit, MovesOn
<1>4. ASSUME NEW old, NEW new, old # None /\ new # None => old.key = new.key
      PROVE  RunFits(Begin(old, new))
  <2> DEFINE r == Begin(old, new)
  <2>1. r.stage = "inspect" /\ r.call = "find" /\ r.k = 1 /\ r.old = old /\ r.new = new
    BY DEF Begin, Idle
  <2>2. RunFits(r)
    <3> HIDE DEF r
    <3> QED
      BY <1>4, <2>1 DEF RunFits
  <2> QED
    BY <2>2
<1>5. CASE Take /\ run'[q] = RunOf(Head(queue))
  <2>1. queue \in Seq(Event) /\ queue # <<>>
    BY <1>5 DEF Take, TypeOK
  <2>2. Head(queue) = queue[1] /\ 1 \in DOMAIN queue
    BY <2>1
  <2>3. queue[1].old # None => queue[1].old.key = queue[1].obj.key
    BY <2>2 DEF QueueFits
  <2> QED
    BY <1>4, <1>5, <2>2, <2>3 DEF RunOf
<1>6. CASE \E o \in pass.todo : run'[q] = Begin(None, o)
  BY <1>4, <1>6
<1> QED
  BY <1>1, <1>2, <1>3, <1>5, <1>6, RunsMove

\* The informer compares two objects of one key.
LEMMA QueueFitsStep ==
  ASSUME TypeOK, KeysOK, QueueFits, [Next]_vars
  PROVE  QueueFits'
<1>0. queue \in Seq(Event)
  BY DEF TypeOK
<1>1. CASE queue' = queue
  BY <1>1 DEF QueueFits
<1>2. CASE queue' = <<>>
  BY <1>2 DEF QueueFits
<1>3. CASE Take
  <2>1. queue # <<>> /\ queue' = Tail(queue)
    BY <1>3 DEF Take
  <2>2. \A n \in DOMAIN queue' : n + 1 \in DOMAIN queue /\ queue'[n] = queue[n + 1]
    BY <1>0, <2>1
  <2> QED
    BY <2>2 DEF QueueFits
<1>4. ASSUME NEW i \in Ingresses, Deliver(i) PROVE QueueFits'
  <2> DEFINE old == cache[i]
             new == store[i]
  <2>1. queue' = queue \o Events(old, new)
    BY <1>4 DEF Deliver, Enqueue
  <2>2. old # None /\ new # None => old.key = new.key
    BY DEF KeysOK
  <2>3. /\ IsValid(old) => old # None
        /\ IsValid(new) => new # None
        /\ old \in Object \cup {None} /\ new \in Object \cup {None}
    BY DEF IsValid, TypeOK
  <2>4. Events(old, new) \in Seq(Event)
    BY <2>3, EventsOK
  <2> HIDE DEF old, new
  <2>5. \/ Events(old, new) = <<>>
        \/ \E e : /\ Events(old, new) = <<e>>
                  /\ e.old # None => e.old.key = e.obj.key
    BY <2>2, <2>3 DEF Events, CreateEvent, UpdateEvent, DeleteEvent
  <2>6. \A n \in DOMAIN Events(old, new) :
          Events(old, new)[n].old # None => Events(old, new)[n].old.key = Events(old, new)[n].obj.key
    BY <2>5
  <2>7. \A n \in DOMAIN queue' :
          \/ n \in DOMAIN queue /\ queue'[n] = queue[n]
          \/ n - Len(queue) \in DOMAIN Events(old, new) /\ queue'[n] = Events(old, new)[n - Len(queue)]
    BY <1>0, <2>1, <2>4
  <2> QED
    BY <2>6, <2>7 DEF QueueFits
<1>5. \/ queue' = queue \/ queue' = <<>> \/ Take \/ \E i \in Ingresses : Deliver(i)
  BY DEF Next, Outside, Apply, Remove, ChangeService, ChangeNodes, FlagTick, ListFails,
     CallFails, DropFails, Crash, Fail, SyncLoop, NodeTick, StartPass, ListIngresses,
     SyncNext, EndPass, controller, vars, Call, Inspect, InspectFails, InspectCurrentLB, FindPool,
     CreatePool, GetMemberPool, UpdatePoolMember, FindPolicy, CreatePolicy, GetPolicy,
     UpdatePolicy, WritePolicy, FindOldPolicy, DeletePolicy, FindOldPool, DeletePool,
     EndLoop, EndDrops, Refused, UpdateStatus
<1> QED
  BY <1>1, <1>2, <1>3, <1>4, <1>5

\* nodeSyncLoop lists the ingresses of the class.
LEMMA PassFitsStep ==
  ASSUME TypeOK, PassFits, [Next]_vars
  PROVE  PassFits'
<1>1. \A o \in pass'.todo : IsValid(o)
  <2>1. CASE ListIngresses
    <3>1. pass'.todo = {store[i] : i \in {j \in Ingresses : IsValid(store[j])}}
      BY <2>1 DEF ListIngresses, TypeOK
    <3> QED
      BY <3>1
  <2>2. CASE SyncNext
    BY <2>2 DEF SyncNext, PassFits, TypeOK
  <2>3. CASE pass' = pass
    BY <2>3 DEF PassFits
  <2>4. CASE pass'.todo = {}
    BY <2>4
  <2>5. \/ pass' = pass \/ ListIngresses \/ SyncNext
        \/ \E ns : pass' = [nodes |-> ns, todo |-> {}]
    BY DEF Next, Outside, Apply, Remove, ChangeService, ChangeNodes, FlagTick, ListFails,
     CallFails, DropFails, Crash, Fail, SyncLoop, NodeTick, StartPass, Take, Deliver,
     EndPass, controller, vars, Call, Inspect, InspectFails, InspectCurrentLB, FindPool,
     CreatePool, GetMemberPool, UpdatePoolMember, FindPolicy, CreatePolicy, GetPolicy,
     UpdatePolicy, WritePolicy, FindOldPolicy, DeletePolicy, FindOldPool, DeletePool,
     EndLoop, EndDrops, Refused, UpdateStatus
  <2> QED
    BY <2>1, <2>2, <2>3, <2>4, <2>5
<1>2. run'[Sync].old = None /\ (Busy(run'[Sync]) => IsValid(run'[Sync].new))
  <2>0. Sync \in Processes /\ Sync # Worker
    BY DEF Processes, Sync, Worker
  <2>1. CASE run'[Sync] = run[Sync]
    BY <2>1 DEF PassFits
  <2>2. CASE Empty(run'[Sync])
    BY <2>2 DEF Empty
  <2>3. CASE MovesOn(run[Sync], run'[Sync])
    BY <2>3 DEF MovesOn, PassFits
  <2>4. ASSUME NEW o \in pass.todo, run'[Sync] = Begin(None, o)
        PROVE  run'[Sync].old = None /\ IsValid(run'[Sync].new)
    BY <2>4 DEF PassFits, Begin, Idle
  <2> QED
    BY <2>0, <2>1, <2>2, <2>3, <2>4, RunsMove
<1> QED
  BY <1>1, <1>2 DEF PassFits, IsValid

\* The worker has applied an object to its own ingress.
LEMMA AppliedFitsStep ==
  ASSUME TypeOK, AppliedFits, [Next]_vars
  PROVE  AppliedFits'
<1>1. CASE applied' = applied
  BY <1>1 DEF AppliedFits
<1>2. CASE \E p \in Processes : EndDrops(p)
  <2>1. PICK p \in Processes : EndDrops(p)
    BY <1>2
  <2>2. \/ applied' = applied
        \/ applied' = [applied EXCEPT ![Target(run[p]).key] = run[p].new]
    BY <2>1 DEF EndDrops
  <2>3. run[p].new # None => Target(run[p]) = run[p].new
    BY DEF Target
  <2>4. applied \in [Ingresses -> Object \cup {None}]
    BY DEF TypeOK
  <2> QED
    BY <2>2, <2>3, <2>4 DEF AppliedFits
<1>3. applied' = applied \/ \E p \in Processes : EndDrops(p)
  BY DEF Next, Outside, Apply, Remove, ChangeService, ChangeNodes, FlagTick, ListFails,
     CallFails, DropFails, Crash, Fail, SyncLoop, NodeTick, StartPass, ListIngresses, Take, Deliver,
     SyncNext, EndPass, history, vars, Call, Inspect, InspectFails, InspectCurrentLB, FindPool,
     CreatePool, GetMemberPool, UpdatePoolMember, FindPolicy, CreatePolicy, GetPolicy,
     UpdatePolicy, WritePolicy, FindOldPolicy, DeletePolicy, FindOldPool, DeletePool,
     EndLoop, Refused, UpdateStatus
<1> QED
  BY <1>1, <1>2, <1>3

-----------------------------------------------------------------------------
(* What the calls write.                                                   *)

\* One value of a function of functions is replaced.
LEMMA NestedExcept ==
  ASSUME NEW S, NEW T, NEW V, NEW f \in [S -> [T -> V]], NEW x \in S, NEW y \in T, NEW v
  PROVE  \A s \in S, t \in T :
           [f EXCEPT ![x][y] = v][s][t] = IF s = x /\ t = y THEN v ELSE f[s][t]
OBVIOUS

\* A busy run has a load balancer, and both of its objects are its ingress's.
LEMMA BusyOK ==
  ASSUME TypeOK, RunsFit, NEW p \in Processes, Busy(run[p])
  PROVE  /\ run[p] \in Run
         /\ run[p].old \in Object \cup {None} /\ run[p].new \in Object \cup {None}
         /\ LbOf(run[p]) \in LBs
         /\ Target(run[p]).key \in Ingresses
         /\ run[p].old # None => run[p].old.key = Target(run[p]).key
         /\ run[p].new # None => /\ run[p].new.key = Target(run[p]).key
                                 /\ LbOf(run[p]) = run[p].new.spec.lb
<1>1. run[p] \in Run /\ Target(run[p]) # None /\ RunFits(run[p])
  BY DEF TypeOK, RunOK, RunsFit
<1>2. run[p].old \in Object \cup {None} /\ run[p].new \in Object \cup {None}
  BY <1>1 DEF Run
<1>3. Target(run[p]) \in Object
  BY <1>1, <1>2 DEF Target
<1>4. LbOf(run[p]) \in LBs /\ Target(run[p]).key \in Ingresses
  BY <1>1, <1>3, NamesOK DEF LbOf
<1> QED
  BY <1>1, <1>2, <1>4 DEF RunFits, Target, LbOf

\* The item of the loops over the new object.
LEMMA NewItem ==
  ASSUME TypeOK, RunsFit, NEW p \in Processes, run[p].stage \in {"pool", "policy"},
         run[p].k <= Len(Items(run[p]))
  PROVE  /\ run[p].k \in DOMAIN Paths(run[p].new)
         /\ Item(run[p]) = Paths(run[p].new)[run[p].k]
         /\ run[p].new \in Object /\ run[p].new # None
         /\ run[p].new.key = Target(run[p]).key
         /\ LbOf(run[p]) = run[p].new.spec.lb /\ LbOf(run[p]) \in LBs
         /\ PoolName(run[p].new, Item(run[p])) \in AllPoolNames
         /\ PoolName(run[p].new, Item(run[p]))[1] = Target(run[p]).key
         /\ PolicyName(run[p].new, Item(run[p])) \in AllPolicyNames
         /\ PolicyName(run[p].new, Item(run[p]))[1] = Target(run[p]).key
<1>1. Busy(run[p])
  BY DEF Busy
<1>2. Items(run[p]) = Paths(run[p].new)
  BY DEF Items
<1>3. run[p].k \in Nat \ {0} /\ run[p].new \in Object \cup {None}
  BY <1>1, BusyOK DEF Run
<1>4. Paths(run[p].new) \in Seq(Path)
  BY <1>3, NamesOK
<1>5. run[p].k \in DOMAIN Paths(run[p].new)
  BY <1>2, <1>3, <1>4
<1>6. Item(run[p]) = Paths(run[p].new)[run[p].k]
  BY <1>2 DEF Item
<1> QED
  BY <1>1, <1>3, <1>5, <1>6, BusyOK, NamesOK

\* The item of the loops over the old object.
LEMMA OldItem ==
  ASSUME TypeOK, RunsFit, NEW p \in Processes, run[p].stage \in {"dropPolicy", "dropPool"},
         run[p].k <= Len(Items(run[p]))
  PROVE  /\ run[p].k \in DOMAIN Paths(run[p].old)
         /\ Item(run[p]) = Paths(run[p].old)[run[p].k]
         /\ run[p].old \in Object /\ run[p].old # None
         /\ run[p].old.key = Target(run[p]).key
         /\ LbOf(run[p]) \in LBs
         /\ PoolName(run[p].old, Item(run[p])) \in AllPoolNames
         /\ PoolName(run[p].old, Item(run[p]))[1] = Target(run[p]).key
         /\ PolicyName(run[p].old, Item(run[p])) \in AllPolicyNames
         /\ PolicyName(run[p].old, Item(run[p]))[1] = Target(run[p]).key
<1>1. Busy(run[p])
  BY DEF Busy
<1>2. Items(run[p]) = Paths(run[p].old)
  BY DEF Items
<1>3. run[p].k \in Nat \ {0} /\ run[p].old \in Object \cup {None}
  BY <1>1, BusyOK DEF Run
<1>4. Paths(run[p].old) \in Seq(Path)
  BY <1>3, NamesOK
<1>5. run[p].k \in DOMAIN Paths(run[p].old)
  BY <1>2, <1>3, <1>4
<1>6. Item(run[p]) = Paths(run[p].old)[run[p].k]
  BY <1>2 DEF Item
<1> QED
  BY <1>1, <1>3, <1>5, <1>6, BusyOK, NamesOK

\* What one call does to the pools and the policies: at most one of them, of
\* the caller's ingress, appears, changes or goes.
OnePool(p, name, value) ==
    \A lb \in LBs, n \in AllPoolNames :
        pool'[lb][n] = IF lb = LbOf(run[p]) /\ n = name THEN value ELSE pool[lb][n]
OnePolicy(p, name, value) ==
    \A lb \in LBs, n \in AllPolicyNames :
        policy'[lb][n] = IF lb = LbOf(run[p]) /\ n = name THEN value ELSE policy[lb][n]

LEMMA PoolWrites ==
  ASSUME TypeOK, RunsFit, NEW p \in Processes
  PROVE  /\ CreatePool(p) => OnePool(p, PoolName(run[p].new, Item(run[p])), {})
         /\ UpdatePoolMember(p) =>
              OnePool(p, PoolName(run[p].new, Item(run[p])), MembersFor(run[p], Item(run[p]).svc))
         /\ DeletePool(p) => pool' = pool \/ OnePool(p, PoolName(run[p].old, Item(run[p])), None)
<1> DEFINE lb == LbOf(run[p])
           new == PoolName(run[p].new, Item(run[p]))
           old == PoolName(run[p].old, Item(run[p]))
<1>0. pool \in [LBs -> [AllPoolNames -> Members \cup {None}]]
  BY DEF TypeOK
<1>1. ASSUME NEW y \in AllPoolNames, NEW v, lb \in LBs, pool' = [pool EXCEPT ![lb][y] = v]
      PROVE  OnePool(p, y, v)
  <2> HIDE DEF lb
  <2>1. \A l \in LBs, n \in AllPoolNames :
           [pool EXCEPT ![lb][y] = v][l][n] = IF l = lb /\ n = y THEN v ELSE pool[l][n]
    BY <1>0, <1>1, NestedExcept
  <2> QED
    BY <1>1, <2>1 DEF OnePool, lb
<1>2. CASE CreatePool(p)
  <2>1. lb \in LBs /\ new \in AllPoolNames /\ pool' = [pool EXCEPT ![lb][new] = {}]
    BY <1>2, NewItem DEF CreatePool, At
  <2> HIDE DEF new
  <2>2. OnePool(p, new, {})
    BY <1>1, <2>1
  <2> QED
    BY <1>2, <2>2 DEF new, CreatePool, UpdatePoolMember, DeletePool, At
<1>3. CASE UpdatePoolMember(p)
  <2>1. /\ lb \in LBs /\ new \in AllPoolNames
        /\ pool' = [pool EXCEPT ![lb][new] = MembersFor(run[p], Item(run[p]).svc)]
    BY <1>3, NewItem DEF UpdatePoolMember, At
  <2> HIDE DEF new
  <2>2. OnePool(p, new, MembersFor(run[p], Item(run[p]).svc))
    BY <1>1, <2>1
  <2> QED
    BY <1>3, <2>2 DEF new, CreatePool, UpdatePoolMember, DeletePool, At
<1>4. CASE DeletePool(p)
  <2>1. /\ lb \in LBs /\ old \in AllPoolNames
        /\ pool' = pool \/ pool' = [pool EXCEPT ![lb][old] = None]
    BY <1>4, OldItem DEF DeletePool, At
  <2> HIDE DEF old
  <2>2. pool' = pool \/ OnePool(p, old, None)
    BY <1>1, <2>1
  <2> QED
    BY <1>4, <2>2 DEF old, CreatePool, UpdatePoolMember, DeletePool, At
<1> QED
  BY <1>2, <1>3, <1>4

LEMMA PolicyWrites ==
  ASSUME TypeOK, RunsFit, NEW p \in Processes
  PROVE  /\ CreatePolicy(p) \/ UpdatePolicy(p) =>
              OnePolicy(p, PolicyName(run[p].new, Item(run[p])), PolicyFor(run[p].new, Item(run[p])))
         /\ DeletePolicy(p) => OnePolicy(p, PolicyName(run[p].old, Item(run[p])), None)
<1> DEFINE lb == LbOf(run[p])
           new == PolicyName(run[p].new, Item(run[p]))
           old == PolicyName(run[p].old, Item(run[p]))
<1>0. policy \in [LBs -> [AllPolicyNames -> Policy \cup {None}]]
  BY DEF TypeOK
<1>1. ASSUME NEW y \in AllPolicyNames, NEW v, lb \in LBs, policy' = [policy EXCEPT ![lb][y] = v]
      PROVE  OnePolicy(p, y, v)
  <2> HIDE DEF lb
  <2>1. \A l \in LBs, n \in AllPolicyNames :
           [policy EXCEPT ![lb][y] = v][l][n] = IF l = lb /\ n = y THEN v ELSE policy[l][n]
    BY <1>0, <1>1, NestedExcept
  <2> QED
    BY <1>1, <2>1 DEF OnePolicy, lb
<1>2. CASE CreatePolicy(p) \/ UpdatePolicy(p)
  <2>1. /\ lb \in LBs /\ new \in AllPolicyNames
        /\ policy' = [policy EXCEPT ![lb][new] = PolicyFor(run[p].new, Item(run[p]))]
    BY <1>2, NewItem DEF CreatePolicy, UpdatePolicy, WritePolicy, At
  <2> HIDE DEF new
  <2>2. OnePolicy(p, new, PolicyFor(run[p].new, Item(run[p])))
    BY <1>1, <2>1
  <2> QED
    BY <1>2, <2>2 DEF new, CreatePolicy, UpdatePolicy, DeletePolicy, At
<1>3. CASE DeletePolicy(p)
  <2>1. /\ lb \in LBs /\ old \in AllPolicyNames
        /\ policy' = [policy EXCEPT ![lb][old] = None]
    BY <1>3, OldItem DEF DeletePolicy, At
  <2> HIDE DEF old
  <2>2. OnePolicy(p, old, None)
    BY <1>1, <2>1
  <2> QED
    BY <1>3, <2>2 DEF old, CreatePolicy, UpdatePolicy, DeletePolicy, At
<1> QED
  BY <1>2, <1>3

\* The calls that write nothing, and all the other steps.
LEMMA Unwritten ==
  ASSUME [Next]_vars
  PROVE  /\ \/ pool' = pool
            \/ \E p \in Processes : CreatePool(p) \/ UpdatePoolMember(p) \/ DeletePool(p)
         /\ \/ policy' = policy
            \/ \E p \in Processes : CreatePolicy(p) \/ UpdatePolicy(p) \/ DeletePolicy(p)
<1>1. CASE UNCHANGED vlb
  BY <1>1 DEF vlb
<1>2. UNCHANGED vlb \/ \E p \in Processes : Call(p)
  BY DEF Next, Outside, Apply, Remove, ChangeService, ChangeNodes, FlagTick, ListFails,
     CallFails, DropFails, Crash, Fail, SyncLoop, NodeTick, StartPass, ListIngresses, Take, Deliver,
     SyncNext, EndPass, vars
<1>3. ASSUME NEW p \in Processes, Call(p)
      PROVE  \/ UNCHANGED vlb
             \/ policy' = policy /\ (CreatePool(p) \/ UpdatePoolMember(p) \/ DeletePool(p))
             \/ pool' = pool /\ (CreatePolicy(p) \/ UpdatePolicy(p) \/ DeletePolicy(p))
  BY <1>3 DEF Call, Inspect, InspectFails, InspectCurrentLB, FindPool,
     CreatePool, GetMemberPool, UpdatePoolMember, FindPolicy, CreatePolicy, GetPolicy,
     UpdatePolicy, WritePolicy, FindOldPolicy, DeletePolicy, FindOldPool, DeletePool,
     EndLoop, EndDrops, Refused, Fail, UpdateStatus
<1> QED
  BY <1>1, <1>2, <1>3 DEF vlb

\* A policy is written with a pool of the ingress whose name it has.
LEMMA PoliciesFitStep ==
  ASSUME TypeOK, RunsFit, PoliciesFit, [Next]_vars
  PROVE  PoliciesFit'
<1>1. CASE policy' = policy
  BY <1>1 DEF PoliciesFit
<1>2. ASSUME NEW p \in Processes, CreatePolicy(p) \/ UpdatePolicy(p) PROVE PoliciesFit'
  <2>1. OnePolicy(p, PolicyName(run[p].new, Item(run[p])), PolicyFor(run[p].new, Item(run[p])))
    BY <1>2, PolicyWrites
  <2>2. PolicyFor(run[p].new, Item(run[p])).pool[1] = PolicyName(run[p].new, Item(run[p]))[1]
    BY DEF PolicyFor, PoolName, PolicyName
  <2> QED
    BY <2>1, <2>2 DEF OnePolicy, PoliciesFit
<1>3. ASSUME NEW p \in Processes, DeletePolicy(p) PROVE PoliciesFit'
  BY <1>3, PolicyWrites DEF OnePolicy, PoliciesFit
<1> QED
  BY <1>1, <1>2, <1>3, Unwritten

\* Nothing fits less after a step.
LEMMA FittingStep ==
  ASSUME TypeOK, KeysOK, Fitting, [Next]_vars
  PROVE  Fitting'
BY QueueFitsStep, PassFitsStep, RunsFitStep, AppliedFitsStep, PoliciesFitStep DEF Fitting

LEMMA FittingInit == Init => Fitting
<1> SUFFICES ASSUME Init PROVE Fitting
  OBVIOUS
<1>1. \A p \in Processes : run[p] = Idle
  BY DEF Init
<1>2. Empty(Idle)
  BY EmptyOK
<1>3. RunsFit /\ PassFits
  BY <1>1, <1>2 DEF RunsFit, RunFits, Empty, PassFits, Init, Busy, Processes
<1> QED
  BY <1>3 DEF Init, Fitting, QueueFits, AppliedFits, PoliciesFit


-----------------------------------------------------------------------------
(* How far the worker has come.                                            *)

\* The pool, and the policy, of the k-th path of an object are there.
PoolThere(pools, o, k) == pools[o.spec.lb][PoolName(o, Paths(o)[k])] # None
PolicyRight(policies, o, k) ==
    policies[o.spec.lb][PolicyName(o, Paths(o)[k])] = PolicyFor(o, Paths(o)[k])

\* Nothing of an object is missing.
Serves(pools, policies, o) ==
    \A k \in DOMAIN Paths(o) : PoolThere(pools, o, k) /\ PolicyRight(policies, o, k)

\* Object a is on the load balancer of o and asks for its k-th path alike.
Alike(a, o, k) ==
    /\ a # None
    /\ a.spec.lb = o.spec.lb
    /\ \E j \in DOMAIN Paths(a) : Paths(a)[j] = Paths(o)[k]

\* What is there already for a run whose ingress had a applied before: all of
\* a until the policies are written, and then, one by one, all of the new
\* object, where what both ask for alike has been there all along.
Serving(pools, policies, r, a) ==
    /\ r.stage \in {"inspect", "current", "pool"} => Serves(pools, policies, a)
    /\ r.stage = "pool" =>
         \A k \in DOMAIN Paths(r.new) : k < r.k => PoolThere(pools, r.new, k)
    /\ r.stage = "policy" =>
         \A k \in DOMAIN Paths(r.new) :
             /\ PoolThere(pools, r.new, k)
             /\ k < r.k \/ Alike(a, r.new, k) => PolicyRight(policies, r.new, k)
    /\ r.stage \in {"dropPolicy", "dropPool", "status"} => Serves(pools, policies, r.new)
    /\ r.stage = "status" => a = r.new

WorksFor(r, i) == Busy(r) /\ Target(r).key = i

Complete(pools, policies, r, a, i) ==
    IF WorksFor(r, i) THEN Serving(pools, policies, r, a) ELSE Serves(pools, policies, a)

NothingMissing(i) ==
    Spared(i, {"failed", "overlapped"}) =>
        Complete(pool, policy, run[Worker], applied[i], i)

\* What there may be while the worker is on an ingress: what either object
\* names, less what the loops over the old one have dropped.
StillPool(r, n) ==
    \/ n \in PoolNames(r.new)
    \/ \E k \in DOMAIN Paths(r.old) :
         /\ n = PoolName(r.old, Paths(r.old)[k])
         /\ r.stage = "dropPool" => r.k <= k

StillPolicy(r, n) ==
    \/ n \in PolicyNames(r.new)
    \/ \E k \in DOMAIN Paths(r.old) :
         /\ n = PolicyName(r.old, Paths(r.old)[k])
         /\ r.stage \notin {"inspect", "current"} => n \in r.seen
         /\ r.stage = "dropPolicy" => r.k <= k
         /\ r.stage # "dropPool"

Underway(r, i) == WorksFor(r, i) /\ r.stage # "status"

On(o, lb) == o # None /\ o.spec.lb = lb

MayBePool(r, a, i, lb, n) ==
    IF Underway(r, i) THEN lb = LbOf(r) /\ StillPool(r, n)
    ELSE On(a, lb) /\ n \in PoolNames(a)

MayBePolicy(r, a, i, lb, n) ==
    IF Underway(r, i) THEN lb = LbOf(r) /\ StillPolicy(r, n)
    ELSE On(a, lb) /\ n \in PolicyNames(a)

Bounded(pools, policies, r, a, i) ==
    \A lb \in LBs :
        /\ \A n \in AllPoolNames :
             n[1] = i /\ pools[lb][n] # None => MayBePool(r, a, i, lb, n)
        /\ \A n \in AllPolicyNames :
             n[1] = i /\ policies[lb][n] # None => MayBePolicy(r, a, i, lb, n)

NothingMore(i) ==
    Spared(i, {"failed", "uncovered", "overlapped"}) =>
        Bounded(pool, policy, run[Worker], applied[i], i)

Reached == \A i \in Ingresses : NothingMissing(i) /\ NothingMore(i)

-----------------------------------------------------------------------------
(* What the properties say follows.                                        *)

\* At rest, what is there is exactly what may be there.
LEMMA ExactlyWhenReached == TypeOK /\ Fitting /\ Reached => AppliedExactly
<1> SUFFICES ASSUME TypeOK, Fitting, Reached,
                    NEW i \in Ingresses, ~WorksOn(Worker, i),
                    Spared(i, {"failed", "uncovered", "overlapped"}),
                    NEW lb \in LBs
             PROVE  LET o == applied[i]
                        mine == o # None /\ o.spec.lb = lb
                    IN  /\ {n \in AllPoolNames : n[1] = i /\ pool[lb][n] # None} =
                             IF mine THEN PoolNames(o) ELSE {}
                        /\ {n \in AllPolicyNames : n[1] = i /\ policy[lb][n] # None} =
                             IF mine THEN PolicyNames(o) ELSE {}
                        /\ mine => \A k \in DOMAIN Paths(o) :
                             policy[lb][PolicyName(o, Paths(o)[k])] = PolicyFor(o, Paths(o)[k])
  BY DEF AppliedExactly, Holds
<1> DEFINE o == applied[i]
           r == run[Worker]
<1>1. ~WorksFor(r, i) /\ Spared(i, {"failed", "overlapped"})
  BY DEF WorksOn, WorksFor, Spared
<1>2. Serves(pool, policy, o) /\ Bounded(pool, policy, r, o, i)
  BY <1>1 DEF Reached, NothingMissing, NothingMore, Complete
<1>3. o \in Object \cup {None} /\ (o # None => o.key = i)
  BY DEF TypeOK, Fitting, AppliedFits
<1>4. \A p \in Policy : p # None
  BY NoneAssumption DEF Policy, AllPoolNames
<1> HIDE DEF o, r
<1>5. /\ \A n \in AllPoolNames : n[1] = i /\ pool[lb][n] # None => On(o, lb) /\ n \in PoolNames(o)
      /\ \A n \in AllPolicyNames : n[1] = i /\ policy[lb][n] # None => On(o, lb) /\ n \in PolicyNames(o)
  BY <1>1, <1>2 DEF Bounded, MayBePool, MayBePolicy, Underway
<1>6. CASE ~On(o, lb)
  BY <1>5, <1>6 DEF On, o
<1>7. CASE On(o, lb)
  <2>1. o # None /\ o.spec.lb = lb
    BY <1>7 DEF On
  <2>2. \A k \in DOMAIN Paths(o) :
          /\ pool[lb][PoolName(o, Paths(o)[k])] # None
          /\ policy[lb][PolicyName(o, Paths(o)[k])] = PolicyFor(o, Paths(o)[k])
          /\ PolicyFor(o, Paths(o)[k]) # None
    <3>1. \A k \in DOMAIN Paths(o) : PolicyFor(o, Paths(o)[k]) \in Policy
      BY <1>3, <2>1, NamesOK DEF PolicyFor, Policy, Path
    <3> QED
      BY <1>2, <1>4, <2>1, <3>1 DEF Serves, PoolThere, PolicyRight
  <2>3. {n \in AllPoolNames : n[1] = i /\ pool[lb][n] # None} = PoolNames(o)
    BY <1>3, <1>5, <2>1, <2>2, NamesOK DEF PoolNames
  <2>4. {n \in AllPolicyNames : n[1] = i /\ policy[lb][n] # None} = PolicyNames(o)
    BY <1>3, <1>5, <2>1, <2>2, NamesOK DEF PolicyNames
  <2> QED
    BY <2>1, <2>2, <2>3, <2>4 DEF o
<1> QED
  BY <1>6, <1>7

\* What the old and the new object ask for alike was there from the start,
\* and is there until the end.
LEMMA ServingWhenReached == TypeOK /\ Fitting /\ Reached => KeepsServing
<1> DEFINE r == run[Worker]
           i == Target(r).key
           a == applied[i]
<1> SUFFICES ASSUME TypeOK, Fitting, Reached,
                    Busy(r), r.old # None, r.new # None, r.old.spec.lb = r.new.spec.lb,
                    Spared(i, {"failed", "overlapped"}),
                    a # None, a.spec = r.old.spec,
                    NEW j \in DOMAIN Paths(r.old), NEW k \in DOMAIN Paths(r.new),
                    Paths(r.old)[j] = Paths(r.new)[k]
             PROVE  policy[LbOf(r)][PolicyName(r.new, Paths(r.new)[k])] =
                      PolicyFor(r.new, Paths(r.new)[k])
  BY DEF KeepsServing
<1>1. i \in Ingresses /\ r.new.key = i /\ LbOf(r) = r.new.spec.lb /\ r \in Run /\ Worker \in Processes
  BY BusyOK DEF Fitting, Processes
<1>2. a.key = i
  BY <1>1 DEF Fitting, AppliedFits
<1>3. Serving(pool, policy, r, a)
  BY <1>1 DEF Reached, NothingMissing, Complete, WorksFor
<1> HIDE DEF r, i, a
<1>4. Paths(a) = Paths(r.old) /\ a.spec.lb = r.new.spec.lb
  BY DEF Paths
<1>5. Alike(a, r.new, k)
  BY <1>4 DEF Alike
<1>6. Serves(pool, policy, a) => PolicyRight(policy, r.new, k)
  BY <1>1, <1>2, <1>4 DEF Serves, PolicyRight, PolicyName, PolicyFor, PoolName
<1>7. r.stage \in {"inspect", "current", "pool", "policy", "dropPolicy", "dropPool", "status"}
  BY <1>1 DEF Busy, Run, Stages
<1>8. PolicyRight(policy, r.new, k)
  BY <1>3, <1>5, <1>6, <1>7 DEF Serving, Serves
<1> QED
  BY <1>1, <1>8 DEF PolicyRight

\* The policies that redirected to an unused pool are gone when its turn comes.
LEMMA UnusedWhenReached == TypeOK /\ Fitting /\ Reached => DropsUnusedPools
<1> SUFFICES ASSUME TypeOK, Fitting, Reached, NEW p \in Processes,
                    At(p, "dropPool", "delete"),
                    Spared(Target(run[p]).key, {"failed", "uncovered", "overlapped"}),
                    NEW n \in AllPolicyNames,
                    policy[LbOf(run[p])][n] # None,
                    policy[LbOf(run[p])][n].pool = PoolName(run[p].old, Item(run[p]))
             PROVE  FALSE
  BY DEF DropsUnusedPools, InUse
<1> DEFINE r == run[p]
           i == Target(r).key
           lb == LbOf(r)
<1>1. /\ r.stage = "dropPool" /\ r.call = "delete" /\ r.k <= Len(Items(r))
      /\ RunsFit /\ PassFits /\ Busy(r)
  BY DEF At, Fitting, Busy
<1>2. /\ r.old # None /\ lb \in LBs /\ i \in Ingresses
      /\ PoolName(r.old, Item(r))[1] = i
      /\ r.new \in Object \cup {None}
      /\ r.new # None => r.new.key = i /\ lb = r.new.spec.lb
  BY <1>1, OldItem, BusyOK
<1>3. r = run[Worker]
  BY <1>1, <1>2 DEF PassFits, Processes
<1>4. n[1] = i
  BY <1>2 DEF Fitting, PoliciesFit
<1>5. RedundantPool(r, Item(r))
  BY <1>1 DEF RunsFit, RunFits
<1>6. Serves(pool, policy, r.new)
  <2>1. Spared(i, {"failed", "overlapped"})
    BY DEF Spared
  <2> QED
    BY <1>1, <1>2, <1>3, <2>1 DEF Reached, NothingMissing, Complete, WorksFor, Serving
<1>7. n \in PolicyNames(r.new)
  <2>1. Bounded(pool, policy, r, applied[i], i)
    BY <1>2, <1>3 DEF Reached, NothingMore
  <2> HIDE DEF r, lb
  <2>2. MayBePolicy(r, applied[i], i, lb, n)
    BY <1>2, <1>4, <2>1 DEF Bounded, r, lb
  <2> QED
    BY <1>1, <2>2 DEF MayBePolicy, Underway, WorksFor, StillPolicy
<1>8. PICK k \in DOMAIN Paths(r.new) : n = PolicyName(r.new, Paths(r.new)[k])
  BY <1>7 DEF PolicyNames
<1>9. policy[lb][n] = PolicyFor(r.new, Paths(r.new)[k])
  <2>1. r.new # None
    BY <1>2, NamesOK
  <2>2. PolicyRight(policy, r.new, k)
    BY <1>6 DEF Serves
  <2> QED
    BY <1>2, <1>8, <2>1, <2>2 DEF PolicyRight
<1>10. PoolName(r.old, Item(r)) = PoolName(r.new, Paths(r.new)[k])
  BY <1>9 DEF PolicyFor
<1> QED
  BY <1>5, <1>10 DEF RedundantPool, PoolNames


-----------------------------------------------------------------------------
(* Steps that are not about an ingress, or leave what it has alone.        *)

\* The pools and the policies of an ingress are those there were.
Untouched(pools, pools2, policies, policies2, i) ==
    \A lb \in LBs :
        /\ \A n \in AllPoolNames : n[1] = i => (pools2[lb][n] = None <=> pools[lb][n] = None)
        /\ \A n \in AllPolicyNames : n[1] = i => policies2[lb][n] = policies[lb][n]

LEMMA SameServes ==
  ASSUME NEW i, NEW o \in Object \cup {None}, o # None => o.key = i,
         NEW pools, NEW pools2, NEW policies, NEW policies2,
         Untouched(pools, pools2, policies, policies2, i)
  PROVE  /\ \A k \in DOMAIN Paths(o) :
              /\ PoolThere(pools2, o, k) <=> PoolThere(pools, o, k)
              /\ PolicyRight(policies2, o, k) <=> PolicyRight(policies, o, k)
         /\ Serves(pools2, policies2, o) <=> Serves(pools, policies, o)
<1>1. \A k \in DOMAIN Paths(o) :
              /\ PoolThere(pools2, o, k) <=> PoolThere(pools, o, k)
              /\ PolicyRight(policies2, o, k) <=> PolicyRight(policies, o, k)
  BY NamesOK DEF Untouched, PoolThere, PolicyRight
<1> QED
  BY <1>1 DEF Serves

LEMMA SameBounds ==
  ASSUME NEW i, NEW a, NEW r, NEW r2,
         NEW pools, NEW pools2, NEW policies, NEW policies2,
         Untouched(pools, pools2, policies, policies2, i),
         Underway(r, i) => r2 = r,
         ~Underway(r, i) => ~Underway(r2, i),
         Bounded(pools, policies, r, a, i)
  PROVE  Bounded(pools2, policies2, r2, a, i)
<1>1. \A lb, n : /\ MayBePool(r, a, i, lb, n) => MayBePool(r2, a, i, lb, n)
                 /\ MayBePolicy(r, a, i, lb, n) => MayBePolicy(r2, a, i, lb, n)
  BY DEF MayBePool, MayBePolicy
<1> QED
  BY <1>1 DEF Bounded, Untouched

LEMMA SameComplete ==
  ASSUME NEW i, NEW a \in Object \cup {None}, a # None => a.key = i,
         NEW r, NEW r2,
         WorksFor(r, i) => /\ r2 = r
                           /\ r.new \in Object \cup {None}
                           /\ r.new # None => r.new.key = i,
         ~WorksFor(r, i) => ~WorksFor(r2, i),
         NEW pools, NEW pools2, NEW policies, NEW policies2,
         Untouched(pools, pools2, policies, policies2, i),
         Complete(pools, policies, r, a, i)
  PROVE  Complete(pools2, policies2, r2, a, i)
<1>1. Serves(pools2, policies2, a) <=> Serves(pools, policies, a)
  BY SameServes
<1>2. CASE ~WorksFor(r, i)
  BY <1>1, <1>2 DEF Complete
<1>3. CASE WorksFor(r, i)
  <2>1. /\ \A k \in DOMAIN Paths(r.new) :
              /\ PoolThere(pools2, r.new, k) <=> PoolThere(pools, r.new, k)
              /\ PolicyRight(policies2, r.new, k) <=> PolicyRight(policies, r.new, k)
        /\ Serves(pools2, policies2, r.new) <=> Serves(pools, policies, r.new)
    BY <1>3, SameServes
  <2> QED
    BY <1>1, <1>3, <2>1 DEF Complete, Serving
<1> QED
  BY <1>2, <1>3

\* What happened to an ingress is not forgotten.
LEMMA MishapGrows ==
  ASSUME TypeOK, [Next]_vars, NEW i \in Ingresses
  PROVE  mishap[i] \subseteq mishap'[i]
<1>1. ASSUME NEW is, NEW why, Mark(is, why) PROVE mishap[i] \subseteq mishap'[i]
  BY <1>1 DEF Mark
<1>2. mishap' = mishap \/ \E is, why : Mark(is, why)
  BY DEF Next, Outside, Apply, Remove, Store, ChangeService, ChangeNodes, FlagTick, ListFails,
     CallFails, DropFails, Crash, Fail, SyncLoop, NodeTick, StartPass, ListIngresses, Take, Deliver,
     SyncNext, EndPass, history, vars, Call, Inspect, InspectFails, InspectCurrentLB, FindPool,
     CreatePool, GetMemberPool, UpdatePoolMember, FindPolicy, CreatePolicy, GetPolicy,
     UpdatePolicy, WritePolicy, FindOldPolicy, DeletePolicy, FindOldPool, DeletePool,
     EndLoop, EndDrops, Refused, UpdateStatus
<1> QED
  BY <1>1, <1>2

\* Marked ingresses are excused.
LEMMA MarkedReached ==
  ASSUME TypeOK, NEW i \in Ingresses, NEW is, NEW why, Mark(is, why), i \in is
  PROVE  why \in mishap'[i]
BY DEF Mark

\* The frame of every step.
LEMMA Elsewhere ==
  ASSUME TypeOK, Fitting, Reached, [Next]_vars, NEW i \in Ingresses,
         applied'[i] = applied[i],
         WorksFor(run[Worker], i) => run'[Worker] = run[Worker],
         ~WorksFor(run[Worker], i) => ~WorksFor(run'[Worker], i),
         Untouched(pool, pool', policy, policy', i)
  PROVE  NothingMissing(i)' /\ NothingMore(i)'
<1> DEFINE a == applied[i]
           r == run[Worker]
           r2 == run'[Worker]
<1>1. \A reasons : Spared(i, reasons)' => Spared(i, reasons)
  BY MishapGrows DEF Spared
<1>2. a \in Object \cup {None} /\ (a # None => a.key = i)
  BY DEF TypeOK, Fitting, AppliedFits
<1>3. WorksFor(r, i) => /\ r.new \in Object \cup {None}
                        /\ r.new # None => r.new.key = i
  BY BusyOK DEF WorksFor, Fitting, Processes
<1>4. NothingMissing(i) /\ NothingMore(i)
  BY DEF Reached
<1>5. Complete(pool, policy, r, a, i) => Complete(pool', policy', r2, a, i)
  <2> HIDE DEF r, r2, a
  <2> QED
    BY <1>2, <1>3, SameComplete DEF r, r2
<1>6. Bounded(pool, policy, r, a, i) => Bounded(pool', policy', r2, a, i)
  <2>1. /\ Underway(r, i) => r2 = r
        /\ ~Underway(r, i) => ~Underway(r2, i)
    BY DEF Underway
  <2> HIDE DEF r, r2, a
  <2> QED
    BY <2>1, SameBounds
<1> QED
  BY <1>1, <1>4, <1>5, <1>6 DEF NothingMissing, NothingMore


\* Both bounds carry over from one state to the next.
Advances(i) ==
    /\ Complete(pool, policy, run[Worker], applied[i], i) =>
         Complete(pool', policy', run'[Worker], applied'[i], i)
    /\ Bounded(pool, policy, run[Worker], applied[i], i) =>
         Bounded(pool', policy', run'[Worker], applied'[i], i)

LEMMA AdvancesEnough ==
  ASSUME TypeOK, Reached, [Next]_vars, NEW i \in Ingresses, Advances(i)
  PROVE  NothingMissing(i)' /\ NothingMore(i)'
<1>1. \A reasons : Spared(i, reasons)' => Spared(i, reasons)
  BY MishapGrows DEF Spared
<1>2. NothingMissing(i) /\ NothingMore(i)
  BY DEF Reached
<1> QED
  BY <1>1, <1>2 DEF Advances, NothingMissing, NothingMore

\* An ingress for which something failed is excused from both.
LEMMA FailedReached ==
  ASSUME TypeOK, NEW i \in Ingresses, NEW is, i \in is,
         Mark(is, "failed") \/ Mark(is, "overlapped")
  PROVE  NothingMissing(i)' /\ NothingMore(i)'
<1>1. "failed" \in mishap'[i] \/ "overlapped" \in mishap'[i]
  BY MarkedReached
<1> QED
  BY <1>1 DEF NothingMissing, NothingMore, Spared

\* The calls touch only what belongs to the ingress of the caller, and a new
\* list of members is no other pool.
LEMMA CallTouches ==
  ASSUME TypeOK, Fitting, NEW p \in Processes, Call(p), NEW i \in Ingresses
  PROVE  \/ Untouched(pool, pool', policy, policy', i)
         \/ /\ Target(run[p]).key = i
            /\ \/ CreatePool(p) \/ CreatePolicy(p) \/ UpdatePolicy(p)
               \/ DeletePolicy(p) \/ DeletePool(p)
<1>0. RunsFit
  BY DEF Fitting
<1>1. CASE UNCHANGED <<pool, policy>>
  BY <1>1 DEF Untouched
<1>2. CASE UpdatePoolMember(p)
  <2>1. /\ OnePool(p, PoolName(run[p].new, Item(run[p])), MembersFor(run[p], Item(run[p]).svc))
        /\ policy' = policy
    BY <1>0, <1>2, PoolWrites DEF UpdatePoolMember
  <2>2. pool[LbOf(run[p])][PoolName(run[p].new, Item(run[p]))] # None
    BY <1>2 DEF UpdatePoolMember, PoolOf
  <2>3. MembersFor(run[p], Item(run[p]).svc) # None
    <3>1. /\ RunsOK /\ run[p].stage \in {"pool", "policy"} /\ run[p].k <= Len(Items(run[p]))
          /\ run[p] \in Run
      BY <1>2 DEF UpdatePoolMember, At, RunsOK, TypeOK
    <3>2. run[p].ports[Item(run[p]).svc] \in Ports
      BY <3>1, ItemOK
    <3>3. MembersFor(run[p], Item(run[p]).svc) \in SUBSET (Nodes \X Ports)
      BY <3>1, <3>2 DEF MembersFor, Run
    <3> QED
      BY <3>3, NoneAssumption
  <2> QED
    BY <2>1, <2>2, <2>3 DEF OnePool, Untouched
<1>3. CASE CreatePool(p)
  <2>1. /\ OnePool(p, PoolName(run[p].new, Item(run[p])), {}) /\ policy' = policy
        /\ PoolName(run[p].new, Item(run[p]))[1] = Target(run[p]).key
    BY <1>0, <1>3, PoolWrites, NewItem DEF CreatePool, At
  <2> QED
    BY <1>3, <2>1 DEF OnePool, Untouched
<1>4. CASE DeletePool(p)
  <2>1. /\ pool' = pool \/ OnePool(p, PoolName(run[p].old, Item(run[p])), None)
        /\ policy' = policy
        /\ PoolName(run[p].old, Item(run[p]))[1] = Target(run[p]).key
    BY <1>0, <1>4, PoolWrites, OldItem DEF DeletePool, At
  <2> QED
    BY <1>1, <1>4, <2>1 DEF OnePool, Untouched
<1>5. CASE CreatePolicy(p) \/ UpdatePolicy(p)
  <2>1. /\ OnePolicy(p, PolicyName(run[p].new, Item(run[p])), PolicyFor(run[p].new, Item(run[p])))
        /\ pool' = pool
        /\ PolicyName(run[p].new, Item(run[p]))[1] = Target(run[p]).key
    BY <1>0, <1>5, PolicyWrites, NewItem DEF CreatePolicy, UpdatePolicy, WritePolicy, At
  <2> QED
    BY <1>5, <2>1 DEF OnePolicy, Untouched
<1>6. CASE DeletePolicy(p)
  <2>1. /\ OnePolicy(p, PolicyName(run[p].old, Item(run[p])), None) /\ pool' = pool
        /\ PolicyName(run[p].old, Item(run[p]))[1] = Target(run[p]).key
    BY <1>0, <1>6, PolicyWrites, OldItem DEF DeletePolicy, At
  <2> QED
    BY <1>6, <2>1 DEF OnePolicy, Untouched
<1>7. CASE \/ Inspect(p) \/ InspectFails(p) \/ InspectCurrentLB(p) \/ FindPool(p)
           \/ GetMemberPool(p) \/ FindPolicy(p) \/ GetPolicy(p) \/ FindOldPolicy(p)
           \/ FindOldPool(p) \/ EndLoop(p) \/ EndDrops(p) \/ UpdateStatus(p) \/ Refused(p)
  BY <1>1, <1>7 DEF Inspect, InspectFails, InspectCurrentLB, FindPool, GetMemberPool,
     FindPolicy, GetPolicy, FindOldPolicy, FindOldPool, EndLoop, EndDrops, Refused, Fail,
     UpdateStatus, vlb
<1> QED
  BY <1>2, <1>3, <1>4, <1>5, <1>6, <1>7 DEF Call

-----------------------------------------------------------------------------
(* nodeSyncLoop.                                                           *)

\* A pass that writes for an ingress the worker is done with writes what the
\* worker applied: it listed the ingress as it is now stored.
LEMMA SyncWrites ==
  ASSUME TypeOK, Fitting, AppliedIsCurrent, Reached, [Next]_vars, NEW i \in Ingresses,
         Target(run[Sync]).key = i, run'[Worker] = run[Worker], applied' = applied,
         CreatePool(Sync) \/ CreatePolicy(Sync) \/ UpdatePolicy(Sync)
  PROVE  NothingMissing(i)' /\ NothingMore(i)'
<1> DEFINE r == run[Sync]
           a == applied[i]
<1>0. Sync \in Processes /\ RunsFit /\ PassFits
  BY DEF Processes, Fitting
<1>1. CASE Overlaps(Sync, i)
  <2>1. Mark({i}, "overlapped")
    BY <1>1 DEF CreatePool, CreatePolicy, UpdatePolicy, WritePolicy
  <2> QED
    BY <2>1, FailedReached
<1>2. CASE ~Spared(i, {"failed"})
  BY <1>2, MishapGrows DEF NothingMissing, NothingMore, Spared
<1>3. CASE ~Overlaps(Sync, i) /\ Spared(i, {"failed"})
  <2>1. /\ r.stage \in {"pool", "policy"} /\ r.k <= Len(Items(r)) /\ Busy(r)
    BY DEF CreatePool, CreatePolicy, UpdatePolicy, At, Busy
  <2>2. /\ r.k \in DOMAIN Paths(r.new) /\ Item(r) = Paths(r.new)[r.k]
        /\ r.new \in Object /\ r.new # None /\ r.new.key = i /\ LbOf(r) = r.new.spec.lb
        /\ LbOf(r) \in LBs
    BY <1>0, <2>1, NewItem
  <2>3. Quiet(i) /\ store[i] # None /\ store[i].spec = r.new.spec
    BY <1>3 DEF Overlaps
  <2>4. IsValid(r.new)
    BY <1>0, <2>1 DEF PassFits
  <2>5. IsValid(store[i])
    BY <2>3, <2>4 DEF IsValid
  <2>6. SpecOf(a) = SpecOf(store[i])
    BY <1>3, <2>3, <2>5 DEF AppliedIsCurrent
  <2>7. a \in Object \cup {None} /\ (a # None => a.key = i) /\ store[i] \in Object \cup {None}
    BY DEF TypeOK, Fitting, AppliedFits
  <2>8. a # None /\ a.key = i /\ a.spec = r.new.spec
    <3>1. SpecOf(store[i]) = store[i].spec /\ SpecOf(store[i]) # None
      BY <2>5, <2>7, SpecOfOK
    <3>2. IsValid(a) /\ SpecOf(a) = a.spec
      BY <2>6, <2>7, <3>1, SpecOfOK
    <3> QED
      BY <2>3, <2>6, <2>7, <3>1, <3>2 DEF IsValid
  <2>9. ~WorksFor(run[Worker], i)
    BY <2>3 DEF Quiet, WorksOn, WorksFor
  <2> DEFINE path == Paths(a)[r.k]
  <2>10. /\ Paths(a) = Paths(r.new) /\ LbOf(r) = a.spec.lb /\ r.k \in DOMAIN Paths(a)
         /\ PoolName(r.new, Item(r)) = PoolName(a, path)
         /\ PolicyName(r.new, Item(r)) = PolicyName(a, path)
         /\ PolicyFor(r.new, Item(r)) = PolicyFor(a, path)
    BY <2>2, <2>8 DEF Paths, PoolName, PolicyName, PolicyFor
  <2>11. \/ OnePool(Sync, PoolName(a, path), {}) /\ policy' = policy
         \/ OnePolicy(Sync, PolicyName(a, path), PolicyFor(a, path)) /\ pool' = pool
    BY <1>0, <2>10, PoolWrites, PolicyWrites DEF CreatePool, CreatePolicy, UpdatePolicy, WritePolicy
  <2>12. {} # None
    BY NoneAssumption
  <2> HIDE DEF a, r
  <2>13. \A k \in DOMAIN Paths(a) :
           /\ a.spec.lb \in LBs
           /\ PoolName(a, Paths(a)[k]) \in AllPoolNames
           /\ PolicyName(a, Paths(a)[k]) \in AllPolicyNames
           /\ PolicyName(a, Paths(a)[k]) = PolicyName(a, path) => k = r.k
    BY <2>7, <2>8, <2>10, NamesOK
  <2>14. Serves(pool, policy, a) => Serves(pool', policy', a)
    BY <2>11, <2>12, <2>13 DEF Serves, PoolThere, PolicyRight, OnePool, OnePolicy
  <2>15. PoolName(a, path) \in PoolNames(a) /\ PolicyName(a, path) \in PolicyNames(a)
    BY <2>10 DEF PoolNames, PolicyNames
  <2>16. Bounded(pool, policy, run[Worker], a, i) => Bounded(pool', policy', run[Worker], a, i)
    <3>1. /\ \A lb, n : MayBePool(run[Worker], a, i, lb, n) <=> On(a, lb) /\ n \in PoolNames(a)
          /\ \A lb, n : MayBePolicy(run[Worker], a, i, lb, n) <=> On(a, lb) /\ n \in PolicyNames(a)
      BY <2>9 DEF MayBePool, MayBePolicy, Underway
    <3>2. LbOf(run[Sync]) = a.spec.lb /\ On(a, a.spec.lb)
      BY <2>8, <2>10 DEF On, r
    <3> QED
      BY <2>11, <2>15, <3>1, <3>2 DEF Bounded, OnePool, OnePolicy
  <2>17. Advances(i)
    BY <2>9, <2>14, <2>16 DEF Advances, Complete, a
  <2> QED
    BY <2>17, AdvancesEnough
<1> QED
  BY <1>1, <1>2, <1>3


-----------------------------------------------------------------------------
(* The worker, on its own ingress.                                         *)

Mine == Target(run[Worker]).key

\* Where Then and NextItem go.
LEMMA NextRun ==
  ASSUME TypeOK
  PROVE  /\ \A call : Then(Worker, call) =>
              /\ run'[Worker].stage = run[Worker].stage /\ run'[Worker].k = run[Worker].k
              /\ run'[Worker].old = run[Worker].old /\ run'[Worker].new = run[Worker].new
              /\ run'[Worker].seen = run[Worker].seen
         /\ NextItem(Worker) =>
              /\ run'[Worker].stage = run[Worker].stage /\ run'[Worker].k = run[Worker].k + 1
              /\ run'[Worker].old = run[Worker].old /\ run'[Worker].new = run[Worker].new
              /\ run'[Worker].seen = run[Worker].seen
<1>1. run[Worker] \in Run /\ run \in [Processes -> Run] /\ Worker \in Processes
  BY DEF TypeOK, Processes
<1> QED
  BY <1>1 DEF Then, NextItem, Goto, Run

\* What the worker may still find is what it could find before, or new.
LEMMA MoveBounded ==
  ASSUME NEW i, NEW a, NEW r, NEW r2, Underway(r, i), Underway(r2, i),
         r2.old = r.old, r2.new = r.new,
         NEW pools, NEW pools2, NEW policies, NEW policies2,
         \A lb \in LBs, n \in AllPoolNames : n[1] = i /\ pools2[lb][n] # None =>
            \/ lb = LbOf(r) /\ n \in PoolNames(r.new)
            \/ pools[lb][n] # None /\ (lb = LbOf(r) /\ StillPool(r, n) => StillPool(r2, n)),
         \A lb \in LBs, n \in AllPolicyNames : n[1] = i /\ policies2[lb][n] # None =>
            \/ lb = LbOf(r) /\ n \in PolicyNames(r.new)
            \/ policies[lb][n] # None /\ (lb = LbOf(r) /\ StillPolicy(r, n) => StillPolicy(r2, n)),
         Bounded(pools, policies, r, a, i)
  PROVE  Bounded(pools2, policies2, r2, a, i)
<1>1. LbOf(r2) = LbOf(r)
  BY DEF LbOf, Target
<1>2. \A lb, n : /\ MayBePool(r, a, i, lb, n) => lb = LbOf(r) /\ StillPool(r, n)
                 /\ lb = LbOf(r) /\ StillPool(r2, n) => MayBePool(r2, a, i, lb, n)
                 /\ MayBePolicy(r, a, i, lb, n) => lb = LbOf(r) /\ StillPolicy(r, n)
                 /\ lb = LbOf(r) /\ StillPolicy(r2, n) => MayBePolicy(r2, a, i, lb, n)
  BY <1>1 DEF MayBePool, MayBePolicy
<1>3. \A n : /\ n \in PoolNames(r.new) => StillPool(r2, n)
             /\ n \in PolicyNames(r.new) => StillPolicy(r2, n)
  BY DEF StillPool, StillPolicy
<1> QED
  BY <1>2, <1>3 DEF Bounded

\* What the worker's lemmas have in common: it is on its ingress before and
\* after the call, with the same objects.
LEMMA WorkerFacts ==
  ASSUME TypeOK, Fitting, Busy(run[Worker])
  PROVE  /\ Worker \in Processes /\ RunsFit /\ RunFits(run[Worker])
         /\ Mine \in Ingresses /\ LbOf(run[Worker]) \in LBs
         /\ run[Worker] \in Run /\ run[Worker].k \in Nat \ {0}
         /\ run[Worker].old \in Object \cup {None} /\ run[Worker].new \in Object \cup {None}
         /\ run[Worker].old # None => run[Worker].old.key = Mine
         /\ run[Worker].new # None => /\ run[Worker].new.key = Mine
                                      /\ LbOf(run[Worker]) = run[Worker].new.spec.lb
         /\ applied[Mine] \in Object \cup {None}
         /\ applied[Mine] # None => applied[Mine].key = Mine
         /\ WorksFor(run[Worker], Mine)
<1>1. Worker \in Processes /\ RunsFit /\ RunFits(run[Worker])
  BY DEF Processes, Fitting, RunsFit
<1>2. run[Worker].k \in Nat \ {0}
  BY <1>1 DEF TypeOK, Run
<1> QED
  BY <1>1, <1>2, BusyOK DEF TypeOK, Fitting, AppliedFits, Mine, WorksFor

\* inspectIngress and inspectCurrentLB.
LEMMA InspectAdvances ==
  ASSUME TypeOK, Fitting, Inspect(Worker) \/ InspectCurrentLB(Worker)
  PROVE  Advances(Mine)
<1> DEFINE r == run[Worker]
           r2 == run'[Worker]
           i == Mine
           a == applied[i]
<1>1. /\ r.stage \in {"inspect", "current"} /\ Busy(r)
      /\ UNCHANGED <<pool, policy, applied>>
  BY DEF Inspect, InspectCurrentLB, vlb, history, Busy
<1>2. WorksFor(r, i) /\ r \in Run /\ RunFits(r) /\ r.k = 1
  BY <1>1, WorkerFacts DEF RunFits
<1>3. /\ r2.old = r.old /\ r2.new = r.new /\ r2.k = 1
      /\ \/ r.stage = "inspect" /\ r2.stage = "current"
         \/ r.stage = "current" /\ r2.stage = "pool" /\ r2.seen = MapIDExpander(r)
  <2>1. run \in [Processes -> Run] /\ Worker \in Processes
    BY DEF TypeOK, Processes
  <2>2. CASE Inspect(Worker)
    <3>1. r2 = [r EXCEPT !.stage = "current", !.nodes = nodes, !.ports = ports] /\ r.stage = "inspect"
      BY <2>1, <2>2 DEF Inspect, Goto
    <3> QED
      BY <1>2, <3>1 DEF Run
  <2>3. CASE InspectCurrentLB(Worker)
    <3>1. r2 = [r EXCEPT !.stage = "pool", !.seen = MapIDExpander(r)] /\ r.stage = "current"
      BY <2>1, <2>3 DEF InspectCurrentLB, Goto
    <3> QED
      BY <1>2, <3>1 DEF Run
  <2> QED
    BY <2>2, <2>3
<1>4. WorksFor(r2, i) /\ Underway(r, i) /\ Underway(r2, i)
  BY <1>1, <1>2, <1>3 DEF WorksFor, Underway, Busy, Target
<1>5. \A n : StillPool(r, n) => StillPool(r2, n)
  BY <1>1, <1>3 DEF StillPool
<1>6. \A n : policy[LbOf(r)][n] # None /\ StillPolicy(r, n) => StillPolicy(r2, n)
  BY <1>1, <1>3 DEF StillPolicy, MapIDExpander, PolicyNames
<1>7. \A n \in DOMAIN Paths(r.new) : ~(n < 1)
  BY <1>1, WorkerFacts, NamesOK
<1> HIDE DEF r, r2, i, a
<1>8. Serving(pool, policy, r, a) => Serving(pool, policy, r2, a)
  BY <1>1, <1>3, <1>7 DEF Serving
<1>9. Bounded(pool, policy, r, a, i) => Bounded(pool, policy, r2, a, i)
  BY <1>3, <1>4, <1>5, <1>6, MoveBounded
<1> QED
  BY <1>1, <1>2, <1>4, <1>8, <1>9 DEF Advances, Complete, r, r2, i, a

\* ensurePool and ensurePoolMember: after its turn the pool of a path is there.
LEMMA PoolAdvances ==
  ASSUME TypeOK, Fitting,
         \/ FindPool(Worker) \/ CreatePool(Worker)
         \/ GetMemberPool(Worker) \/ UpdatePoolMember(Worker)
  PROVE  Advances(Mine)
<1> DEFINE r == run[Worker]
           r2 == run'[Worker]
           i == Mine
           a == applied[i]
           name == PoolName(r.new, Item(r))
<1>1. /\ r.stage = "pool" /\ r.k <= Len(Items(r)) /\ Busy(r)
      /\ UNCHANGED <<policy, applied>>
  BY DEF FindPool, CreatePool, GetMemberPool, UpdatePoolMember, At, Busy, vlb, history
<1>2. WorksFor(r, i) /\ r \in Run /\ RunsFit /\ Worker \in Processes /\ r.k \in Nat
      /\ r.new \in Object \cup {None} /\ a \in Object \cup {None}
  BY <1>1, WorkerFacts
<1>3. /\ r.k \in DOMAIN Paths(r.new) /\ Item(r) = Paths(r.new)[r.k]
      /\ r.new # None /\ LbOf(r) = r.new.spec.lb /\ LbOf(r) \in LBs
      /\ name \in AllPoolNames
  BY <1>1, <1>2, NewItem
<1>4. /\ r2.stage = "pool" /\ r2.old = r.old /\ r2.new = r.new /\ r2.seen = r.seen
      /\ r2.k = r.k \/ (r2.k = r.k + 1 /\ pool[LbOf(r)][name] # None)
  BY <1>1, NextRun DEF FindPool, CreatePool, GetMemberPool, UpdatePoolMember, PoolOf
<1>5. \/ pool' = pool
      \/ \E value : value # None /\ OnePool(Worker, name, value)
  <2>1. {} # None
    BY NoneAssumption
  <2>2. CASE CreatePool(Worker)
    BY <1>2, <2>1, <2>2, PoolWrites
  <2>3. CASE UpdatePoolMember(Worker)
    <3>1. OnePool(Worker, name, MembersFor(r, Item(r).svc))
      BY <1>2, <2>3, PoolWrites
    <3>2. r.ports[Item(r).svc] \in Ports
      BY <1>1, <1>2, ItemOK DEF RunsOK, TypeOK
    <3>3. MembersFor(r, Item(r).svc) \in SUBSET (Nodes \X Ports)
      BY <1>2, <3>2 DEF MembersFor, Run
    <3> QED
      BY <3>1, <3>3, NoneAssumption
  <2>4. CASE FindPool(Worker) \/ GetMemberPool(Worker)
    BY <2>4 DEF FindPool, GetMemberPool, vlb
  <2> QED
    BY <2>2, <2>3, <2>4
<1>6. /\ \A lb \in LBs, n \in AllPoolNames : pool[lb][n] # None => pool'[lb][n] # None
      /\ \A lb \in LBs, n \in AllPoolNames : pool'[lb][n] # None =>
           pool[lb][n] # None \/ (lb = LbOf(r) /\ n = name)
  BY <1>5 DEF OnePool
<1>7. WorksFor(r2, i) /\ Underway(r, i) /\ Underway(r2, i)
  BY <1>1, <1>2, <1>4 DEF WorksFor, Underway, Busy, Target
<1>8. name \in PoolNames(r.new)
  BY <1>3 DEF PoolNames
<1>9. \A n : (StillPool(r, n) => StillPool(r2, n)) /\ (StillPolicy(r, n) => StillPolicy(r2, n))
  BY <1>1, <1>4 DEF StillPool, StillPolicy
<1> HIDE DEF r, r2, i, a
<1>10. Serves(pool, policy, a) => Serves(pool', policy, a)
  BY <1>2, <1>6, NamesOK DEF Serves, PoolThere
<1>11. \A k \in DOMAIN Paths(r.new) : k < r.k /\ PoolThere(pool, r.new, k) => PoolThere(pool', r.new, k)
  BY <1>2, <1>6, NamesOK DEF PoolThere
<1>12. r2.k = r.k + 1 => PoolThere(pool', r.new, r.k)
  BY <1>2, <1>3, <1>4, <1>6 DEF PoolThere
<1>13. \A k \in DOMAIN Paths(r.new) : k < r2.k => k < r.k \/ (k = r.k /\ r2.k = r.k + 1)
  BY <1>2, <1>4, NamesOK
<1> HIDE DEF name
<1>14. Serving(pool, policy, r, a) => Serving(pool', policy, r2, a)
  BY <1>1, <1>4, <1>10, <1>11, <1>12, <1>13 DEF Serving
<1>15. Bounded(pool, policy, r, a, i) => Bounded(pool', policy, r2, a, i)
  BY <1>4, <1>6, <1>7, <1>8, <1>9, MoveBounded
<1> QED
  BY <1>1, <1>2, <1>7, <1>14, <1>15 DEF Advances, Complete, r, r2, i, a


\* ensurePolicy: after its turn the policy of a path is right, and no other
\* policy changed.
LEMMA PolicyAdvances ==
  ASSUME TypeOK, Fitting,
         \/ FindPolicy(Worker) \/ CreatePolicy(Worker)
         \/ GetPolicy(Worker) \/ UpdatePolicy(Worker)
  PROVE  Advances(Mine)
<1> DEFINE r == run[Worker]
           r2 == run'[Worker]
           i == Mine
           a == applied[i]
           name == PolicyName(r.new, Item(r))
           value == PolicyFor(r.new, Item(r))
<1>1. /\ r.stage = "policy" /\ r.k <= Len(Items(r)) /\ Busy(r)
      /\ UNCHANGED <<pool, applied>>
  BY DEF FindPolicy, CreatePolicy, GetPolicy, UpdatePolicy, WritePolicy, At, Busy, vlb, history
<1>2. /\ WorksFor(r, i) /\ r \in Run /\ RunsFit /\ Worker \in Processes /\ r.k \in Nat
      /\ r.new \in Object \cup {None} /\ a \in Object \cup {None}
  BY <1>1, WorkerFacts
<1>3. /\ r.k \in DOMAIN Paths(r.new) /\ Item(r) = Paths(r.new)[r.k]
      /\ r.new # None /\ LbOf(r) = r.new.spec.lb /\ LbOf(r) \in LBs
      /\ name \in AllPolicyNames
  BY <1>1, <1>2, NewItem
<1>4. \/ policy' = policy \/ OnePolicy(Worker, name, value)
  BY <1>2, PolicyWrites DEF FindPolicy, CreatePolicy, GetPolicy, UpdatePolicy, vlb
<1>5. /\ r2.stage = "policy" /\ r2.old = r.old /\ r2.new = r.new /\ r2.seen = r.seen
      /\ r2.k = r.k \/ (r2.k = r.k + 1 /\ policy'[LbOf(r)][name] = value)
  <2>1. CASE UpdatePolicy(Worker)
    <3>1. OnePolicy(Worker, name, value)
      BY <1>2, <2>1, PolicyWrites
    <3>2. policy'[LbOf(r)][name] = value
      BY <1>3, <3>1 DEF OnePolicy
    <3>3. NextItem(Worker)
      BY <2>1 DEF UpdatePolicy
    <3> QED
      BY <1>1, <3>2, <3>3, NextRun
  <2>2. CASE FindPolicy(Worker) \/ CreatePolicy(Worker)
    BY <1>1, <2>2, NextRun DEF FindPolicy, CreatePolicy
  <2>3. CASE GetPolicy(Worker)
    <3>1. policy' = policy /\ (policy[LbOf(r)][name] = value \/ \E call : Then(Worker, call))
          /\ (NextItem(Worker) \/ \E call : Then(Worker, call))
      BY <2>3 DEF GetPolicy, PolicyOf, vlb
    <3> QED
      BY <1>1, <3>1, NextRun
  <2> QED
    BY <2>1, <2>2, <2>3
<1>6. \A lb \in LBs, n \in AllPolicyNames :
        \/ policy'[lb][n] = policy[lb][n]
        \/ lb = LbOf(r) /\ n = name /\ policy'[lb][n] = value
  BY <1>4 DEF OnePolicy
<1>7. WorksFor(r2, i) /\ Underway(r, i) /\ Underway(r2, i)
  BY <1>1, <1>2, <1>5 DEF WorksFor, Underway, Busy, Target
<1>8. name \in PolicyNames(r.new)
  BY <1>3 DEF PolicyNames
<1>9. \A n : (StillPool(r, n) => StillPool(r2, n)) /\ (StillPolicy(r, n) => StillPolicy(r2, n))
  BY <1>1, <1>5 DEF StillPool, StillPolicy
<1>10. \A k \in DOMAIN Paths(r.new) :
         PolicyName(r.new, Paths(r.new)[k]) = name => PolicyFor(r.new, Paths(r.new)[k]) = value
  BY <1>2, <1>3, NamesOK
<1>11. \A k \in DOMAIN Paths(r.new) : PolicyName(r.new, Paths(r.new)[k]) \in AllPolicyNames
  BY <1>2, NamesOK
<1> HIDE DEF r, r2, i, a
<1>12. \A k \in DOMAIN Paths(r.new) : PolicyRight(policy, r.new, k) => PolicyRight(policy', r.new, k)
  BY <1>3, <1>6, <1>10, <1>11 DEF PolicyRight
<1>13. r2.k = r.k + 1 => PolicyRight(policy', r.new, r.k)
  BY <1>2, <1>3, <1>5 DEF PolicyRight
<1>14. \A k \in DOMAIN Paths(r.new) : k < r2.k => k < r.k \/ (k = r.k /\ r2.k = r.k + 1)
  BY <1>2, <1>5, NamesOK
<1> HIDE DEF name, value
<1>15. Serving(pool, policy, r, a) => Serving(pool, policy', r2, a)
  BY <1>1, <1>5, <1>12, <1>13, <1>14 DEF Serving
<1>16. Bounded(pool, policy, r, a, i) => Bounded(pool, policy', r2, a, i)
  BY <1>5, <1>6, <1>7, <1>8, <1>9, MoveBounded
<1> QED
  BY <1>1, <1>2, <1>7, <1>15, <1>16 DEF Advances, Complete, r, r2, i, a

\* The end of a loop: all of its pools are there, all of its policies are
\* right, or all that the new object does not use are gone.
LEMMA EndLoopAdvances ==
  ASSUME TypeOK, Fitting, EndLoop(Worker)
  PROVE  Advances(Mine)
<1> DEFINE r == run[Worker]
           r2 == run'[Worker]
           i == Mine
           a == applied[i]
<1>1. /\ r.stage \in {"pool", "policy", "dropPolicy"} /\ Busy(r) /\ r.k > Len(Items(r))
      /\ UNCHANGED <<pool, policy, applied>>
  BY DEF EndLoop, Following, Busy, vlb, history
<1>2. /\ WorksFor(r, i) /\ r \in Run /\ r.k \in Nat
      /\ r.new \in Object \cup {None} /\ r.old \in Object \cup {None} /\ a \in Object \cup {None}
      /\ r.new # None => r.new.key = i
      /\ a # None => a.key = i
  BY <1>1, WorkerFacts
<1>3. /\ r2.old = r.old /\ r2.new = r.new /\ r2.seen = r.seen /\ r2.k = 1
      /\ \/ r.stage = "pool" /\ r2.stage = "policy"
         \/ r.stage = "policy" /\ r2.stage = "dropPolicy"
         \/ r.stage = "dropPolicy" /\ r2.stage = "dropPool"
  <2>1. r2 = [r EXCEPT !.stage = Following[@], !.k = 1, !.call = "find"]
    BY DEF EndLoop, Goto, TypeOK, Processes
  <2> QED
    BY <1>1, <1>2, <2>1 DEF Run, Following
<1>4. /\ r.stage \in {"pool", "policy"} => \A k \in DOMAIN Paths(r.new) : k < r.k
      /\ r.stage = "dropPolicy" => \A k \in DOMAIN Paths(r.old) : k < r.k
  BY <1>1, <1>2, NamesOK DEF Items
<1>5. WorksFor(r2, i) /\ Underway(r, i) /\ Underway(r2, i)
  BY <1>1, <1>2, <1>3 DEF WorksFor, Underway, Busy, Target
<1>6. \A k \in DOMAIN Paths(r.old) : ~(r.k <= k) \/ r.stage # "dropPolicy"
  BY <1>2, <1>4, NamesOK
<1>7. \A k \in DOMAIN Paths(r.old) : 1 <= k
  BY <1>2, NamesOK
<1>8. \A k \in DOMAIN Paths(r.new) : ~(k < 1)
  BY <1>2, NamesOK
<1> HIDE DEF r, r2, i, a
<1>9. \A n : StillPool(r, n) => StillPool(r2, n)
  BY <1>1, <1>3, <1>7 DEF StillPool
<1>10. \A n : StillPolicy(r, n) => StillPolicy(r2, n)
  BY <1>1, <1>3, <1>6, <1>7 DEF StillPolicy
<1>11. \A k \in DOMAIN Paths(r.new) :
         Serves(pool, policy, a) /\ Alike(a, r.new, k) => PolicyRight(policy, r.new, k)
  <2>1. SUFFICES ASSUME NEW k \in DOMAIN Paths(r.new), Serves(pool, policy, a), Alike(a, r.new, k)
                 PROVE  PolicyRight(policy, r.new, k)
    OBVIOUS
  <2>2. PICK j \in DOMAIN Paths(a) : Paths(a)[j] = Paths(r.new)[k]
    BY <2>1 DEF Alike
  <2>3. a # None /\ a.spec.lb = r.new.spec.lb /\ r.new # None
    BY <1>2, <2>1, NamesOK DEF Alike
  <2>4. a.key = r.new.key
    BY <1>2, <2>3
  <2>5. PolicyRight(policy, a, j)
    BY <2>1 DEF Serves
  <2> QED
    BY <2>2, <2>3, <2>4, <2>5 DEF PolicyRight, PolicyName, PolicyFor, PoolName
<1>12. Serving(pool, policy, r, a) => Serving(pool, policy, r2, a)
  <2>1. CASE r.stage = "pool" /\ r2.stage = "policy"
    BY <1>3, <1>4, <1>8, <1>11, <2>1 DEF Serving
  <2>2. CASE r.stage = "policy" /\ r2.stage = "dropPolicy"
    BY <1>3, <1>4, <2>2 DEF Serving, Serves
  <2>3. CASE r.stage = "dropPolicy" /\ r2.stage = "dropPool"
    BY <1>3, <2>3 DEF Serving
  <2> QED
    BY <1>3, <2>1, <2>2, <2>3
<1>13. Bounded(pool, policy, r, a, i) => Bounded(pool, policy, r2, a, i)
  BY <1>3, <1>5, <1>9, <1>10, MoveBounded
<1> QED
  BY <1>1, <1>2, <1>5, <1>12, <1>13 DEF Advances, Complete, r, r2, i, a


\* deletePolicy: nothing the new object uses goes, and after its turn a
\* policy only the old object uses is gone.
LEMMA DropPolicyAdvances ==
  ASSUME TypeOK, Fitting, FindOldPolicy(Worker) \/ DeletePolicy(Worker)
  PROVE  Advances(Mine)
<1> DEFINE r == run[Worker]
           r2 == run'[Worker]
           i == Mine
           a == applied[i]
           name == PolicyName(r.old, Item(r))
<1>1. /\ r.stage = "dropPolicy" /\ r.k <= Len(Items(r)) /\ Busy(r)
      /\ UNCHANGED <<pool, applied>>
  BY DEF FindOldPolicy, DeletePolicy, At, Busy, vlb, history
<1>2. /\ WorksFor(r, i) /\ r \in Run /\ RunsFit /\ RunFits(r) /\ Worker \in Processes /\ r.k \in Nat
      /\ r.new \in Object \cup {None} /\ r.old \in Object \cup {None}
      /\ r.new # None => LbOf(r) = r.new.spec.lb
  BY <1>1, WorkerFacts
<1>3. /\ r.k \in DOMAIN Paths(r.old) /\ Item(r) = Paths(r.old)[r.k]
      /\ LbOf(r) \in LBs /\ name \in AllPolicyNames
  BY <1>1, <1>2, OldItem
<1>4. /\ r2.stage = "dropPolicy" /\ r2.old = r.old /\ r2.new = r.new /\ r2.seen = r.seen
      /\ r2.k = r.k \/ r2.k = r.k + 1
  BY <1>1, NextRun DEF FindOldPolicy, DeletePolicy
<1>5. \/ policy' = policy
      \/ OnePolicy(Worker, name, None) /\ name \notin PolicyNames(r.new)
  <2>1. DeletePolicy(Worker) => OnePolicy(Worker, name, None)
    BY <1>2, PolicyWrites
  <2>2. DeletePolicy(Worker) => name \notin PolicyNames(r.new)
    BY <1>1, <1>2 DEF DeletePolicy, At, RunFits, RedundantPolicy
  <2> QED
    BY <2>1, <2>2 DEF FindOldPolicy, vlb
<1>6. r2.k = r.k + 1 => \/ policy'[LbOf(r)][name] = None
                        \/ name \in PolicyNames(r.new)
                        \/ name \notin r.seen
  <2>1. CASE DeletePolicy(Worker)
    <3>1. OnePolicy(Worker, name, None)
      BY <1>2, <2>1, PolicyWrites
    <3> QED
      BY <1>3, <3>1 DEF OnePolicy
  <2>2. CASE FindOldPolicy(Worker)
    <3>1. /\ policy' = policy
          /\ \/ policy[LbOf(r)][name] = None \/ name \in PolicyNames(r.new) \/ name \notin r.seen
             \/ Then(Worker, "delete")
      BY <2>2 DEF FindOldPolicy, RedundantPolicy, vlb
    <3>2. Then(Worker, "delete") => r2.k = r.k
      BY NextRun
    <3>3. r.k # r.k + 1
      BY <1>2
    <3> QED
      BY <3>1, <3>2, <3>3
  <2> QED
    BY <2>1, <2>2
<1>7. \A lb \in LBs, n \in AllPolicyNames :
        \/ policy'[lb][n] = policy[lb][n]
        \/ n \notin PolicyNames(r.new) /\ policy'[lb][n] = None
  BY <1>5 DEF OnePolicy
<1>8. WorksFor(r2, i) /\ Underway(r, i) /\ Underway(r2, i)
  BY <1>1, <1>2, <1>4 DEF WorksFor, Underway, Busy, Target
<1>9. \A k \in DOMAIN Paths(r.old) : r.k <= k => r2.k <= k \/ (k = r.k /\ r2.k = r.k + 1)
  BY <1>2, <1>4, NamesOK
<1>10. \A k \in DOMAIN Paths(r.new) :
         /\ PolicyName(r.new, Paths(r.new)[k]) \in AllPolicyNames
         /\ PolicyName(r.new, Paths(r.new)[k]) \in PolicyNames(r.new)
         /\ r.new # None /\ LbOf(r) = r.new.spec.lb
  BY <1>2, NamesOK DEF PolicyNames
<1> HIDE DEF r, r2, i, a
<1>11. \A n \in AllPolicyNames : policy'[LbOf(r)][n] # None /\ StillPolicy(r, n) => StillPolicy(r2, n)
  BY <1>1, <1>3, <1>4, <1>6, <1>9 DEF StillPolicy
<1>12. \A n : StillPool(r, n) => StillPool(r2, n)
  BY <1>1, <1>4 DEF StillPool
<1> HIDE DEF name
<1>13. Serves(pool, policy, r.new) => Serves(pool, policy', r.new)
  BY <1>3, <1>7, <1>10 DEF Serves, PolicyRight
<1>14. Serving(pool, policy, r, a) => Serving(pool, policy', r2, a)
  BY <1>1, <1>4, <1>13 DEF Serving
<1>15. Bounded(pool, policy, r, a, i) => Bounded(pool, policy', r2, a, i)
  BY <1>4, <1>7, <1>8, <1>11, <1>12, MoveBounded
<1> QED
  BY <1>1, <1>2, <1>8, <1>14, <1>15 DEF Advances, Complete, r, r2, i, a

\* deletePool, likewise: unless vLB refuses, which is noted as a failure.
LEMMA DropPoolAdvances ==
  ASSUME TypeOK, Fitting, FindOldPool(Worker) \/ DeletePool(Worker)
  PROVE  Advances(Mine) \/ Mark({Mine}, "failed")
<1> DEFINE r == run[Worker]
           r2 == run'[Worker]
           i == Mine
           a == applied[i]
           name == PoolName(r.old, Item(r))
<1> SUFFICES ASSUME ~Mark({Mine}, "failed") PROVE Advances(Mine)
  OBVIOUS
<1>1. /\ r.stage = "dropPool" /\ r.k <= Len(Items(r)) /\ Busy(r)
      /\ UNCHANGED <<policy, applied>>
  BY DEF FindOldPool, DeletePool, At, Busy, vlb, history
<1>2. /\ WorksFor(r, i) /\ r \in Run /\ RunsFit /\ RunFits(r) /\ Worker \in Processes /\ r.k \in Nat
      /\ r.new \in Object \cup {None} /\ r.old \in Object \cup {None}
      /\ r.new # None => LbOf(r) = r.new.spec.lb
  BY <1>1, WorkerFacts
<1>3. /\ r.k \in DOMAIN Paths(r.old) /\ Item(r) = Paths(r.old)[r.k]
      /\ LbOf(r) \in LBs /\ name \in AllPoolNames
  BY <1>1, <1>2, OldItem
<1>4. /\ r2.stage = "dropPool" /\ r2.old = r.old /\ r2.new = r.new /\ r2.seen = r.seen
      /\ r2.k = r.k \/ r2.k = r.k + 1
  BY <1>1, NextRun DEF FindOldPool, DeletePool
<1>5. DeletePool(Worker) => OnePool(Worker, name, None) /\ name \notin PoolNames(r.new)
  <2> SUFFICES ASSUME DeletePool(Worker)
               PROVE  OnePool(Worker, name, None) /\ name \notin PoolNames(r.new)
    OBVIOUS
  <2>1. pool' = [pool EXCEPT ![LbOf(r)][name] = None]
    BY DEF DeletePool, Mine
  <2>2. pool \in [LBs -> [AllPoolNames -> Members \cup {None}]]
    BY DEF TypeOK
  <2> DEFINE lb == LbOf(r)
  <2>3. lb \in LBs /\ pool' = [pool EXCEPT ![lb][name] = None]
    BY <1>3, <2>1
  <2>4. OnePool(Worker, name, None)
    <3> HIDE DEF lb, name
    <3>1. \A l \in LBs, n \in AllPoolNames :
            [pool EXCEPT ![lb][name] = None][l][n] = IF l = lb /\ n = name THEN None ELSE pool[l][n]
      BY <1>3, <2>2, <2>3, NestedExcept
    <3> QED
      BY <2>3, <3>1 DEF OnePool, lb
  <2> QED
    BY <1>1, <1>2, <2>4 DEF DeletePool, At, RunFits, RedundantPool
<1>6. r2.k = r.k + 1 => pool'[LbOf(r)][name] = None \/ name \in PoolNames(r.new)
  <2>1. CASE DeletePool(Worker)
    BY <1>3, <1>5, <2>1 DEF OnePool
  <2>2. CASE FindOldPool(Worker)
    <3>1. /\ pool' = pool
          /\ \/ pool[LbOf(r)][name] = None \/ name \in PoolNames(r.new)
             \/ Then(Worker, "delete")
      BY <2>2 DEF FindOldPool, RedundantPool, vlb
    <3>2. Then(Worker, "delete") => r2.k = r.k
      BY NextRun
    <3>3. r.k # r.k + 1
      BY <1>2
    <3> QED
      BY <3>1, <3>2, <3>3
  <2> QED
    BY <2>1, <2>2
<1>7. \A lb \in LBs, n \in AllPoolNames :
        \/ pool'[lb][n] = pool[lb][n]
        \/ n \notin PoolNames(r.new) /\ pool'[lb][n] = None
  <2>1. pool' = pool \/ DeletePool(Worker)
    BY DEF FindOldPool, vlb
  <2> QED
    BY <1>5, <2>1 DEF OnePool
<1>8. WorksFor(r2, i) /\ Underway(r, i) /\ Underway(r2, i)
  BY <1>1, <1>2, <1>4 DEF WorksFor, Underway, Busy, Target
<1>9. \A k \in DOMAIN Paths(r.old) : r.k <= k => r2.k <= k \/ (k = r.k /\ r2.k = r.k + 1)
  BY <1>2, <1>4, NamesOK
<1>10. \A k \in DOMAIN Paths(r.new) :
         /\ PoolName(r.new, Paths(r.new)[k]) \in AllPoolNames
         /\ PoolName(r.new, Paths(r.new)[k]) \in PoolNames(r.new)
         /\ r.new # None /\ LbOf(r) = r.new.spec.lb
  BY <1>2, NamesOK DEF PoolNames
<1> HIDE DEF r, r2, i, a
<1>11. \A n \in AllPoolNames : pool'[LbOf(r)][n] # None /\ StillPool(r, n) => StillPool(r2, n)
  BY <1>1, <1>3, <1>4, <1>6, <1>9 DEF StillPool
<1>12. \A n : StillPolicy(r, n) => StillPolicy(r2, n)
  BY <1>1, <1>4 DEF StillPolicy
<1> HIDE DEF name
<1>13. Serves(pool, policy, r.new) => Serves(pool', policy, r.new)
  BY <1>3, <1>7, <1>10 DEF Serves, PoolThere
<1>14. Serving(pool, policy, r, a) => Serving(pool', policy, r2, a)
  BY <1>1, <1>4, <1>13 DEF Serving
<1>15. Bounded(pool, policy, r, a, i) => Bounded(pool', policy, r2, a, i)
  BY <1>4, <1>7, <1>8, <1>11, <1>12, MoveBounded
<1> QED
  BY <1>1, <1>2, <1>8, <1>14, <1>15 DEF Advances, Complete, r, r2, i, a

\* The end of actionCompareIngress: nothing but the new object is left.
LEMMA EndDropsAdvances ==
  ASSUME TypeOK, Fitting, EndDrops(Worker)
  PROVE  Advances(Mine)
<1> DEFINE r == run[Worker]
           r2 == run'[Worker]
           i == Mine
           a == applied[i]
           a2 == applied'[i]
<1>1. /\ r.stage = "dropPool" /\ Busy(r) /\ r.k > Len(Items(r))
      /\ UNCHANGED <<pool, policy>>
  BY DEF EndDrops, Busy, vlb
<1>2. /\ WorksFor(r, i) /\ r \in Run /\ r.k \in Nat /\ i \in Ingresses
      /\ r.new \in Object \cup {None} /\ r.old \in Object \cup {None}
      /\ r.new # None => LbOf(r) = r.new.spec.lb
  BY <1>1, WorkerFacts
<1>3. a2 = r.new
  BY <1>2 DEF EndDrops, TypeOK, Mine
<1>4. \A k \in DOMAIN Paths(r.old) : ~(r.k <= k)
  BY <1>1, <1>2, NamesOK DEF Items
<1>5. /\ r.new = None => ~Busy(r2)
      /\ r.new # None => r2.stage = "status" /\ r2.new = r.new /\ WorksFor(r2, i)
  <2>1. run \in [Processes -> Run] /\ Worker \in Processes
    BY DEF TypeOK, Processes
  <2>2. CASE r.new = None
    <3>1. r2 = Return(Worker)
      BY <2>1, <2>2 DEF EndDrops, Goto
    <3> QED
      BY <2>1, <2>2, <3>1, EmptyOK DEF Empty
  <2>3. CASE r.new # None
    <3>1. r2 = [r EXCEPT !.stage = "status"]
      BY <2>1, <2>3 DEF EndDrops, Goto
    <3>2. r2.stage = "status" /\ r2.new = r.new
      BY <1>2, <3>1 DEF Run
    <3> QED
      BY <1>2, <2>3, <3>2 DEF WorksFor, Busy, Target
  <2> QED
    BY <2>2, <2>3
<1>6. Underway(r, i) /\ ~Underway(r2, i)
  BY <1>1, <1>2, <1>5 DEF Underway, WorksFor
<1>7. \A n : ~(n \in PoolNames(None) \/ n \in PolicyNames(None))
  BY DEF PoolNames, PolicyNames, Paths
<1> HIDE DEF r, r2, i, a, a2
<1>8. \A lb, n : MayBePool(r, a, i, lb, n) => MayBePool(r2, a2, i, lb, n)
  BY <1>1, <1>2, <1>3, <1>4, <1>6, <1>7 DEF MayBePool, StillPool, On
<1>9. \A lb, n : MayBePolicy(r, a, i, lb, n) => MayBePolicy(r2, a2, i, lb, n)
  BY <1>1, <1>2, <1>3, <1>6, <1>7 DEF MayBePolicy, StillPolicy, On
<1>10. Serving(pool, policy, r, a) => Complete(pool, policy, r2, a2, i)
  <2>1. CASE r.new = None
    <3>1. Serves(pool, policy, None)
      BY DEF Serves, Paths
    <3> QED
      BY <1>3, <1>5, <2>1, <3>1 DEF Complete, WorksFor
  <2>2. CASE r.new # None
    BY <1>1, <1>3, <1>5, <2>2 DEF Complete, Serving
  <2> QED
    BY <2>1, <2>2
<1> QED
  BY <1>1, <1>2, <1>8, <1>9, <1>10 DEF Advances, Complete, Bounded, r, r2, i, a, a2

\* updateIngressStatus: the worker is done.
LEMMA StatusAdvances ==
  ASSUME TypeOK, Fitting, UpdateStatus(Worker)
  PROVE  Advances(Mine)
<1> DEFINE r == run[Worker]
           r2 == run'[Worker]
           i == Mine
           a == applied[i]
<1>1. /\ r.stage = "status" /\ Busy(r)
      /\ UNCHANGED <<pool, policy, applied>>
  BY DEF UpdateStatus, Busy, vlb, history
<1>2. WorksFor(r, i)
  BY <1>1, WorkerFacts
<1>3. ~Busy(r2)
  <2>1. run \in [Processes -> Run] /\ Worker \in Processes
    BY DEF TypeOK, Processes
  <2>2. r2 = Return(Worker)
    BY <2>1 DEF UpdateStatus, Goto
  <2> QED
    BY <2>1, <2>2, EmptyOK DEF Empty
<1>4. ~Underway(r, i) /\ ~Underway(r2, i)
  BY <1>1, <1>3 DEF Underway, WorksFor
<1> HIDE DEF r, r2, i, a
<1>5. \A lb, n : /\ MayBePool(r, a, i, lb, n) => MayBePool(r2, a, i, lb, n)
                 /\ MayBePolicy(r, a, i, lb, n) => MayBePolicy(r2, a, i, lb, n)
  BY <1>4 DEF MayBePool, MayBePolicy
<1>6. Serving(pool, policy, r, a) => Serves(pool, policy, a)
  BY <1>1 DEF Serving
<1> QED
  BY <1>1, <1>2, <1>3, <1>5, <1>6 DEF Advances, Complete, Bounded, WorksFor, r, r2, i, a


-----------------------------------------------------------------------------
(* All the steps.                                                          *)

\* The worker takes an event: everything the object before asked for is still
\* there, and the event names all that is there or says that it does not.
LEMMA TakeReached ==
  ASSUME TypeOK, Fitting, Reached, [Next]_vars, Take, NEW i \in Ingresses
  PROVE  NothingMissing(i)' /\ NothingMore(i)'
<1> DEFINE e == Head(queue)
           r == run[Worker]
           r2 == run'[Worker]
           a == applied[i]
<1>1. /\ r.stage = "idle" /\ UNCHANGED <<pool, policy, applied>>
      /\ run \in [Processes -> Run] /\ Worker \in Processes
      /\ queue \in Seq(Event) /\ queue # <<>>
  BY DEF Take, vlb, TypeOK, Processes
<1>2. r2 = RunOf(e) /\ e \in Event
  BY <1>1 DEF Take, Goto
<1>3. /\ r2.stage = "inspect" /\ Target(r2).key = e.obj.key
      /\ r2 = Begin(r2.old, r2.new)
  <2>1. e.obj # None
    BY <1>2, NoneAssumption DEF Event
  <2>2. \A old, new : /\ Begin(old, new).stage = "inspect"
                      /\ Begin(old, new).old = old /\ Begin(old, new).new = new
    BY DEF Begin, Idle
  <2> QED
    BY <1>2, <2>1, <2>2 DEF RunOf, Target
<1>4. ~WorksFor(r, i) /\ ~Underway(r, i)
  BY <1>1 DEF WorksFor, Underway, Busy
<1>5. CASE i # e.obj.key
  <2>1. ~WorksFor(r2, i)
    BY <1>3, <1>5 DEF WorksFor
  <2>2. Untouched(pool, pool', policy, policy', i)
    BY <1>1 DEF Untouched
  <2> QED
    BY <1>1, <1>4, <2>1, <2>2, Elsewhere
<1>6. CASE i = e.obj.key
  <2>1. WorksFor(r2, i) /\ Underway(r2, i)
    BY <1>3, <1>6 DEF WorksFor, Underway, Busy
  <2>2. \A reasons : Spared(i, reasons)' => Spared(i, reasons)
    BY MishapGrows DEF Spared
  <2>3. Complete(pool, policy, r, a, i) => Complete(pool, policy, r2, a, i)
    <3> HIDE DEF r, r2, a
    <3> QED
      BY <1>3, <1>4, <2>1 DEF Complete, Serving
  <2>4. Spared(i, {"uncovered"})' => Covers(r2.old, r2.new, i)
    <3> SUFFICES ASSUME ~Covers(r2.old, r2.new, i) PROVE "uncovered" \in mishap'[i]
      BY DEF Spared
    <3>1. Mark({i}, "uncovered")
      BY <1>2, <1>6 DEF Take
    <3> QED
      BY <3>1, MarkedReached
  <2>5. Covers(r2.old, r2.new, i) /\ Bounded(pool, policy, r, a, i)
          => Bounded(pool, policy, r2, a, i)
    <3> SUFFICES ASSUME Covers(r2.old, r2.new, i)
                 PROVE  Bounded(pool, policy, r, a, i) => Bounded(pool, policy, r2, a, i)
      OBVIOUS
    <3>1. a = None \/ (/\ a.spec.lb = LbOf(r2)
                       /\ PolicyNames(a) \subseteq PolicyNames(r2.old) \cup PolicyNames(r2.new)
                       /\ PoolNames(a) \subseteq PoolNames(r2.old) \cup PoolNames(r2.new))
      BY DEF Covers, LbOf, Target
    <3> HIDE DEF r, r2, a
    <3>2. /\ \A n : n \in PoolNames(r2.old) \cup PoolNames(r2.new) => StillPool(r2, n)
          /\ \A n : n \in PolicyNames(r2.old) \cup PolicyNames(r2.new) => StillPolicy(r2, n)
      BY <1>3 DEF StillPool, StillPolicy, PoolNames, PolicyNames
    <3>3. \A lb, n : /\ MayBePool(r, a, i, lb, n) => MayBePool(r2, a, i, lb, n)
                     /\ MayBePolicy(r, a, i, lb, n) => MayBePolicy(r2, a, i, lb, n)
      BY <1>4, <2>1, <3>1, <3>2 DEF MayBePool, MayBePolicy, On
    <3> QED
      BY <3>3 DEF Bounded
  <2>6. Spared(i, {"failed", "uncovered", "overlapped"})' => Spared(i, {"uncovered"})'
    BY DEF Spared
  <2>7. NothingMissing(i) /\ NothingMore(i)
    BY DEF Reached
  <2> QED
    BY <1>1, <2>2, <2>3, <2>4, <2>5, <2>6, <2>7 DEF NothingMissing, NothingMore
<1> QED
  BY <1>5, <1>6

\* A restart: an ingress the worker was done with is as it was.
LEMMA CrashReached ==
  ASSUME TypeOK, Fitting, Reached, [Next]_vars, Crash, NEW i \in Ingresses
  PROVE  NothingMissing(i)' /\ NothingMore(i)'
<1>1. CASE ~Quiet(i)
  <2> DEFINE lost == {j \in Ingresses : ~Quiet(j)}
  <2>1. Mark(lost, "failed") /\ i \in lost
    BY <1>1 DEF Crash
  <2> HIDE DEF lost
  <2> QED
    BY <2>1, FailedReached
<1>2. CASE Quiet(i)
  <2>1. ~WorksFor(run[Worker], i)
    BY <1>2 DEF Quiet, WorksOn, WorksFor
  <2>2. ~WorksFor(run'[Worker], i)
    BY EmptyOK DEF Crash, Processes, Empty, WorksFor
  <2>3. UNCHANGED <<pool, policy, applied>>
    BY DEF Crash, vlb
  <2>4. Untouched(pool, pool', policy, policy', i)
    BY <2>3 DEF Untouched
  <2> QED
    BY <2>1, <2>2, <2>3, <2>4, Elsewhere
<1> QED
  BY <1>1, <1>2

\* The worker gives up, or a deletion fails.
LEMMA FailReached ==
  ASSUME TypeOK, Fitting, Reached, [Next]_vars, Busy(run[Worker]), NEW i \in Ingresses,
         Fail(Worker) \/ DropFails(Worker)
  PROVE  NothingMissing(i)' /\ NothingMore(i)'
<1>1. Mark({Mine}, "failed") /\ UNCHANGED <<pool, policy, applied>>
  BY DEF Fail, DropFails, Mine, vlb
<1>2. CASE i = Mine
  BY <1>1, <1>2, FailedReached
<1>3. CASE i # Mine
  <2>1. ~WorksFor(run[Worker], i)
    BY <1>3 DEF Mine, WorksFor
  <2>2. ~WorksFor(run'[Worker], i)
    <3>1. CASE Fail(Worker)
      <4>1. run'[Worker] = Return(Worker) /\ Worker \in Processes
        BY <3>1 DEF Fail, Goto, TypeOK, Processes
      <4> QED
        BY <4>1, EmptyOK DEF Empty, WorksFor
    <3>2. CASE DropFails(Worker)
      <4>1. run'[Worker].old = run[Worker].old /\ run'[Worker].new = run[Worker].new
        BY <3>2, NextRun DEF DropFails
      <4>2. Target(run'[Worker]) = Target(run[Worker])
        BY <4>1 DEF Target
      <4> QED
        BY <1>3, <4>2 DEF Mine, WorksFor
    <3> QED
      BY <3>1, <3>2
  <2>3. Untouched(pool, pool', policy, policy', i)
    BY <1>1 DEF Untouched
  <2> QED
    BY <1>1, <2>1, <2>2, <2>3, Elsewhere
<1> QED
  BY <1>2, <1>3

\* A call of the worker.
LEMMA WorkerReached ==
  ASSUME TypeOK, Fitting, Reached, [Next]_vars, Call(Worker), NEW i \in Ingresses
  PROVE  NothingMissing(i)' /\ NothingMore(i)'
<1>0. Busy(run[Worker]) /\ Worker \in Processes
  BY DEF Call, Inspect, InspectFails, InspectCurrentLB, FindPool,
     CreatePool, GetMemberPool, UpdatePoolMember, FindPolicy, CreatePolicy, GetPolicy,
     UpdatePolicy, FindOldPolicy, DeletePolicy, FindOldPool, DeletePool,
     EndLoop, EndDrops, Refused, UpdateStatus, At, Busy, Following, Processes
<1>1. CASE InspectFails(Worker) \/ Refused(Worker)
  BY <1>0, <1>1, FailReached DEF InspectFails, Refused
<1>2. CASE ~(InspectFails(Worker) \/ Refused(Worker)) /\ i = Mine
  <2>1. Advances(Mine) \/ Mark({Mine}, "failed")
    BY <1>2, InspectAdvances, PoolAdvances, PolicyAdvances, EndLoopAdvances,
       DropPolicyAdvances, DropPoolAdvances, EndDropsAdvances, StatusAdvances DEF Call
  <2> QED
    BY <1>2, <2>1, AdvancesEnough, FailedReached
<1>3. CASE i # Mine
  <2>1. ~WorksFor(run[Worker], i)
    BY <1>3 DEF Mine, WorksFor
  <2>2. ~WorksFor(run'[Worker], i)
    <3>1. CASE Empty(run'[Worker])
      BY <3>1 DEF Empty, WorksFor
    <3>2. CASE MovesOn(run[Worker], run'[Worker])
      <4>1. Target(run'[Worker]) = Target(run[Worker])
        BY <3>2 DEF MovesOn, Target
      <4> QED
        BY <1>3, <4>1 DEF Mine, WorksFor
    <3> QED
      BY <1>0, <3>1, <3>2, CallMoves
  <2>3. Untouched(pool, pool', policy, policy', i)
    BY <1>0, <1>3, CallTouches DEF Mine
  <2>4. applied'[i] = applied[i]
    <3>1. applied' = applied \/ applied' = [applied EXCEPT ![Mine] = run[Worker].new]
      BY DEF Call, Inspect, InspectFails, InspectCurrentLB, FindPool,
       CreatePool, GetMemberPool, UpdatePoolMember, FindPolicy, CreatePolicy, GetPolicy,
       UpdatePolicy, WritePolicy, FindOldPolicy, DeletePolicy, FindOldPool, DeletePool,
       EndLoop, EndDrops, Refused, Fail, UpdateStatus, history, Mine
    <3> QED
      BY <1>3, <3>1 DEF TypeOK
  <2> QED
    BY <2>1, <2>2, <2>3, <2>4, Elsewhere
<1> QED
  BY <1>1, <1>2, <1>3

\* A call of nodeSyncLoop.
LEMMA SyncReached ==
  ASSUME TypeOK, Fitting, AppliedIsCurrent, Reached, [Next]_vars, Call(Sync), NEW i \in Ingresses
  PROVE  NothingMissing(i)' /\ NothingMore(i)'
<1>0. Sync \in Processes /\ RunsFit /\ PassFits
  BY DEF Processes, Fitting
<1>1. run'[Worker] = run[Worker] /\ applied' = applied
  <2>1. (\E r : run' = [run EXCEPT ![Sync] = r]) /\ applied' = applied
    BY DEF Call, Inspect, InspectFails, InspectCurrentLB, FindPool, history, Sync, Worker,
     CreatePool, GetMemberPool, UpdatePoolMember, FindPolicy, CreatePolicy, GetPolicy,
     UpdatePolicy, WritePolicy, FindOldPolicy, DeletePolicy, FindOldPool, DeletePool,
     EndLoop, EndDrops, Refused, Fail, UpdateStatus, Then, NextItem, Goto
  <2> QED
    BY <2>1 DEF TypeOK, Processes, Worker, Sync
<1>2. CASE Untouched(pool, pool', policy, policy', i)
  BY <1>1, <1>2, Elsewhere
<1>3. CASE DeletePolicy(Sync) \/ DeletePool(Sync)
  <2>1. run[Sync].k \in DOMAIN Paths(run[Sync].old)
    BY <1>0, <1>3, OldItem DEF DeletePolicy, DeletePool, At
  <2>2. Paths(run[Sync].old) = <<>>
    BY <1>0 DEF PassFits, Paths
  <2> QED
    BY <2>1, <2>2
<1>4. CASE Target(run[Sync]).key = i /\ (CreatePool(Sync) \/ CreatePolicy(Sync) \/ UpdatePolicy(Sync))
  BY <1>1, <1>4, SyncWrites
<1> QED
  BY <1>0, <1>2, <1>3, <1>4, CallTouches

\* Both bounds are an invariant of the controller.
LEMMA ReachedStep ==
  ASSUME TypeOK, Fitting, AppliedIsCurrent, Reached, [Next]_vars
  PROVE  Reached'
<1> SUFFICES ASSUME NEW i \in Ingresses PROVE NothingMissing(i)' /\ NothingMore(i)'
  BY DEF Reached
<1>1. CASE UNCHANGED <<pool, policy, applied>> /\ run'[Worker] = run[Worker]
  <2>1. Untouched(pool, pool', policy, policy', i)
    BY <1>1 DEF Untouched
  <2> QED
    BY <1>1, <2>1, Elsewhere
<1>2. \A r : Goto(Sync, r) => run'[Worker] = run[Worker]
  BY DEF Goto, TypeOK, Processes, Worker, Sync
<1>3. CASE \/ \E j \in Ingresses : Apply(j) \/ Remove(j) \/ Deliver(j)
           \/ \E s \in Services : ChangeService(s)
           \/ ChangeNodes \/ FlagTick \/ ListFails \/ SyncLoop \/ UNCHANGED vars
  BY <1>1, <1>2, <1>3 DEF Apply, Remove, Deliver, ChangeService, ChangeNodes, FlagTick, ListFails,
     SyncLoop, NodeTick, StartPass, ListIngresses, SyncNext, EndPass, vars, controller, vlb, history
<1>4. CASE CallFails(Sync) \/ DropFails(Sync)
  BY <1>1, <1>2, <1>4 DEF CallFails, DropFails, Fail, NextItem, vlb
<1>5. CASE CallFails(Worker) \/ DropFails(Worker)
  <2>1. Busy(run[Worker]) /\ (Fail(Worker) \/ DropFails(Worker))
    BY <1>5 DEF CallFails, DropFails, At, Busy
  <2> QED
    BY <2>1, FailReached
<1>6. CASE \E p \in Processes : Call(p)
  BY <1>6, WorkerReached, SyncReached DEF Processes
<1> QED
  BY <1>3, <1>4, <1>5, <1>6, TakeReached, CrashReached DEF Next, Outside, Processes

LEMMA ReachedInit == Init => Reached
<1> SUFFICES ASSUME Init, NEW i \in Ingresses PROVE NothingMissing(i) /\ NothingMore(i)
  BY DEF Reached
<1>1. ~Busy(run[Worker]) /\ applied[i] = None
  BY EmptyOK DEF Init, Empty, Processes
<1>2. Serves(pool, policy, None)
  BY DEF Serves, Paths
<1> QED
  BY <1>1, <1>2 DEF Init, NothingMissing, NothingMore, Complete, Bounded, WorksFor

\* What all three theorems rest on.
LEMMA AlwaysReached == Spec => [](TypeOK /\ Fitting /\ Reached)
<1>1. Init => KeysOK
  BY QueueInit DEF QueueInv
<1> QED
  BY <1>1, KeysStep, FittingInit, FittingStep, ReachedInit, ReachedStep,
     TypeCorrect, AppliedCurrent, PTL DEF Spec

\* actionCompareIngress leaves exactly what the object asks for: creates,
\* updates, moves and deletions, in any order, with restarts and passes in
\* between, lose no policy and no pool and leave none behind, unless a call
\* failed, the event did not name what was there, or a pass wrote a stale
\* snapshot.
THEOREM ExactlyApplied == Spec => []AppliedExactly
BY AlwaysReached, ExactlyWhenReached, PTL

\* While the worker applies an update, what both objects ask for alike is
\* served without interruption.
THEOREM Uninterrupted == Spec => []KeepsServing
BY AlwaysReached, ServingWhenReached, PTL

\* vLB never has a reason to refuse the deletion of a pool: all policies that
\* redirected to it are gone by then.
THEOREM UnusedDropped == Spec => []DropsUnusedPools
BY AlwaysReached, UnusedWhenReached, PTL
=============================================================================
