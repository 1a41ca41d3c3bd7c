-------------------------- MODULE DefaultPoolProofs --------------------------
(***************************************************************************)
(* Proofs about DefaultPool, for all sets of ingresses, backends, names    *)
(* and nodes: type correctness; no list of members that is compared or     *)
(* written has an address twice, so that comparing lengths and one         *)
(* inclusion is exact; at rest every ingress has its default members, and  *)
(* no member is left of a backend or a node of before.                     *)
(***************************************************************************)
EXTENDS DefaultPool, FiniteSetTheorems, SequenceTheorems, TLAPS

Events == [key : Ingresses, old : Ingress, new : Ingress]
RunsOK ==
    /\ run \in [Processes -> Run]
    /\ \A p \in Processes : Busy(run[p]) => run[p].key \in Ingresses
RestOK ==
    /\ store \in [Ingresses -> Ingress]
    /\ nodes \in SUBSET Nodes
    /\ queue \in Seq(Events)
    /\ flag \in BOOLEAN
    /\ knownNodes \in SUBSET Nodes
    /\ pass \in [nodes : SUBSET Nodes, todo : SUBSET (Ingresses \X Ingress)]
    /\ pool \in SUBSET Member
    /\ mishap \in SUBSET Reasons
    /\ spent \in [Kinds -> Nat]

Typed == RunsOK /\ RestOK

\* The parts of type correctness that are shown one by one.
LEMMA Parted == TypeOK <=> Typed
BY DEF TypeOK, Typed, RunsOK, RestOK, Events

-----------------------------------------------------------------------------
(* Members.                                                                *)

\* The members of an ingress are members, one per node.
LEMMA MembersOfOK ==
    ASSUME NEW i \in Ingresses, NEW b, NEW ns \in SUBSET Nodes
    PROVE  MembersOf(i, b, ns) \in SUBSET Member /\ Distinct(MembersOf(i, b, ns))
<1>1. CASE b \in Backends
  <2> DEFINE ms == [owner : {i}, node : ns, backend : {b}]
  <2>1. MembersOf(i, b, ns) = ms
    BY <1>1 DEF MembersOf
  <2>2. ms \in SUBSET Member
    BY <1>1 DEF Member
  <2>3. \A m, c \in ms : m.node = c.node => m = c
    OBVIOUS
  <2> HIDE DEF ms
  <2> QED
    BY <2>1, <2>2, <2>3 DEF Distinct, SameAddress
<1>2. CASE b \notin Backends
    BY <1>2 DEF MembersOf, Distinct
<1> QED
    BY <1>1, <1>2

\* What is written are members that were there or are new ones.
LEMMA MergeOK ==
    ASSUME NEW got \in SUBSET Member, NEW old, NEW new \in SUBSET Member
    PROVE  Merge(got, old, new) \in SUBSET Member
BY DEF Merge, Kept

\* Merging two lists without double addresses gives another one: a new member
\* whose address is there under another name is not written again.
LEMMA MergeDistinct ==
    ASSUME NEW got, NEW old, NEW new, Distinct(got), Distinct(new)
    PROVE  Distinct(Merge(got, old, new))
<1> DEFINE kept == Kept(got, old, new)
           added == {c \in new : ~Exists(kept, c)}
<1>1. kept \subseteq got
    BY DEF Kept
<1>2. Distinct(kept) /\ Distinct(added)
    BY <1>1 DEF Distinct
<1>3. \A m \in kept, c \in added : ~SameAddress(m, c) /\ ~SameAddress(c, m)
    BY DEF Exists, SameAddress
<1>4. Merge(got, old, new) = kept \cup added
    BY DEF Merge
<1> HIDE DEF kept, added
<1> QED
    BY <1>2, <1>3, <1>4 DEF Distinct

-----------------------------------------------------------------------------
(* Runs.                                                                   *)

\* The informer's list is a queue of creates.
LEMMA ListedQueues ==
    ASSUME NEW stored \in [Ingresses -> Ingress], NEW q \in Listed(stored)
    PROVE  q \in Seq(Events)
<1> DEFINE is == {i \in Ingresses : stored[i] # Absent}
           orders == {order \in [1 .. Cardinality(is) -> is] :
                         \A i \in is : \E j \in DOMAIN order : order[j] = i}
<1>1. PICK order \in orders : q = [j \in DOMAIN order |-> Event(order[j], Absent, stored[order[j]])]
    BY DEF Listed
<1>2. Cardinality(is) \in Nat
    BY IngressesAssumption, FS_Subset, FS_CardinalityType
<1>3. order \in [1 .. Cardinality(is) -> Ingresses]
    OBVIOUS
<1>4. \A j \in 1 .. Cardinality(is) : Event(order[j], Absent, stored[order[j]]) \in Events
    BY <1>3 DEF Event, Ingress, Events
<1> HIDE DEF is
<1>5. q \in [1 .. Cardinality(is) -> Events]
    BY <1>1, <1>3, <1>4
<1> QED
    BY <1>2, <1>5

\* The points between two ensured ingresses.
LEMMA BetweenOK ==
    ASSUME NEW call \in {"idle", "list", "next"}
    PROVE  /\ [Idle EXCEPT !.call = call] \in Run
           /\ ~Busy([Idle EXCEPT !.call = call])
           /\ Idle \in Run /\ ~Busy(Idle)
BY DEF Idle, Run, Calls, Busy, Ingress

\* Where ensureIngress and deleteIngress return to.
LEMMA ReturnOK ==
    ASSUME NEW p \in Processes
    PROVE  Return(p) \in Run /\ ~Busy(Return(p))
BY BetweenOK DEF Return

\* A run begins with the members of the nodes that are ready.
LEMMA BeginOK ==
    ASSUME RestOK, NEW i \in Ingresses, NEW old \in Ingress, NEW new \in Ingress
    PROVE  /\ Begin(i, old, new) \in Run
           /\ Begin(i, old, new).key = i /\ Begin(i, old, new).call = "get"
           /\ Distinct(Begin(i, old, new).newMembers)
<1> DEFINE ms == MembersOf(i, old, nodes)
           ns == MembersOf(i, new, nodes)
<1>1. ms \in SUBSET Member /\ ns \in SUBSET Member /\ Distinct(ns)
    BY MembersOfOK DEF RestOK
<1>2. Begin(i, old, new) = [Idle EXCEPT !.call = "get", !.key = i, !.new = new,
                              !.oldMembers = ms, !.newMembers = ns]
    BY DEF Begin
<1> HIDE DEF ms, ns
<1>3. Idle \in Run
    BY BetweenOK
<1>4. Begin(i, old, new) \in Run
    BY <1>1, <1>2, <1>3 DEF Run, Calls
<1>5. /\ Begin(i, old, new).key = i /\ Begin(i, old, new).call = "get"
      /\ Begin(i, old, new).newMembers = ns
    BY <1>2, <1>3 DEF Run
<1> QED
    BY <1>1, <1>4, <1>5

\* A step of one goroutine leaves the other where it is.
LEMMA GotoOK ==
    ASSUME RunsOK, NEW p \in Processes, NEW r \in Run, Busy(r) => r.key \in Ingresses, Goto(p, r)
    PROVE  RunsOK' /\ run'[p] = r /\ \A q \in Processes \ {p} : run'[q] = run[q]
<1>1. run' = [run EXCEPT ![p] = r]
    BY DEF Goto
<1>2. run' \in [Processes -> Run]
    BY <1>1 DEF RunsOK
<1>3. run'[p] = r /\ \A q \in Processes \ {p} : run'[q] = run[q]
    BY <1>1 DEF RunsOK
<1> QED
    BY <1>2, <1>3 DEF RunsOK

\* Only listed reasons are recorded.
LEMMA MarkOK ==
    ASSUME mishap \subseteq Reasons, NEW why \in Reasons, NEW if \in BOOLEAN, Mark(why, if)
    PROVE  mishap' \in SUBSET Reasons
BY DEF Mark

\* The counters of outside events stay numbers.
LEMMA SpendOK ==
    ASSUME spent \in [Kinds -> Nat], NEW kind \in Kinds, Spend(kind)
    PROVE  spent' \in [Kinds -> Nat]
BY DEF Spend

-----------------------------------------------------------------------------
(* Each action keeps the types.                                            *)

\* The users, the nodes and the queue.
LEMMA QueueTypes ==
    ASSUME Typed, (\E i \in Ingresses : Edit(i)) \/ ChangeNodes \/ Take
    PROVE  Typed'
<1>0. RunsOK /\ RestOK
    BY DEF Typed
<1>1. CASE \E i \in Ingresses : Edit(i)
  <2>1. PICK i \in Ingresses : Edit(i)
    BY <1>1
  <2>2. PICK new \in Ingress \ {store[i]} :
           /\ store' = [store EXCEPT ![i] = new]
           /\ queue' = Append(queue, Event(i, store[i], new))
    BY <2>1 DEF Edit
  <2>3. store' \in [Ingresses -> Ingress] /\ Event(i, store[i], new) \in Events
    BY <1>0, <2>2 DEF RestOK, Event, Events
  <2>4. queue' \in Seq(Events)
    BY <1>0, <2>2, <2>3, AppendProperties DEF RestOK
  <2>5. spent' \in [Kinds -> Nat]
    BY <1>0, <2>1, SpendOK DEF Edit, RestOK, Kinds
  <2> QED
    BY <1>0, <2>1, <2>3, <2>4, <2>5 DEF Edit, Typed, RunsOK, RestOK
<1>2. CASE ChangeNodes
  <2>1. spent' \in [Kinds -> Nat]
    BY <1>0, <1>2, SpendOK DEF ChangeNodes, RestOK, Kinds
  <2>2. nodes' \in SUBSET Nodes
    BY <1>2, NodesAssumption DEF ChangeNodes
  <2>3. mishap' \in SUBSET Reasons
    BY <1>0, <1>2, MarkOK DEF ChangeNodes, RestOK, Reasons
  <2> QED
    BY <1>0, <1>2, <2>1, <2>2, <2>3 DEF ChangeNodes, Typed, RunsOK, RestOK
<1>3. CASE Take
  <2> DEFINE e == Head(queue)
  <2>1. e \in Events /\ queue' \in Seq(Events)
    BY <1>0, <1>3, HeadTailProperties DEF Take, RestOK
  <2>2. Goto(Worker, Begin(e.key, e.old, e.new)) /\ mishap' \in SUBSET Reasons
    BY <1>0, <1>3, MarkOK DEF Take, RestOK, Reasons
  <2> HIDE DEF e
  <2>3. RunsOK'
    BY <1>0, <2>1, <2>2, BeginOK, GotoOK DEF Processes, Events
  <2> QED
    BY <1>0, <1>3, <2>1, <2>2, <2>3 DEF Take, Typed, RestOK
<1> QED
    BY <1>1, <1>2, <1>3

\* ensureDefaultPoolMember.
LEMMA CallTypes ==
    ASSUME Typed, NEW p \in Processes, Call(p) \/ CallFails(p)
    PROVE  Typed'
<1>0. RunsOK /\ RestOK /\ run[p] \in Run /\ (Busy(run[p]) => run[p].key \in Ingresses)
    BY DEF Typed, RunsOK
<1>1. CASE GetMemberPool(p)
  <2> DEFINE r == [run[p] EXCEPT !.call = "compare", !.got = pool]
  <2>1. run[p].call = "get" /\ Goto(p, r)
    BY <1>1 DEF GetMemberPool, At
  <2>2. r \in Run /\ r.key \in Ingresses
    BY <1>0, <2>1 DEF Run, Calls, RestOK, Busy
  <2> HIDE DEF r
  <2>3. RunsOK'
    BY <1>0, <2>1, <2>2, GotoOK
  <2> QED
    BY <1>0, <1>1, <2>3 DEF GetMemberPool, Typed, RestOK
<1>2. CASE CompareMembers(p)
  <2> DEFINE r == [run[p] EXCEPT !.call = "update"]
  <2>1. run[p].call = "compare" /\ (Goto(p, r) \/ Goto(p, Return(p)))
    BY <1>2 DEF CompareMembers, At
  <2>2. r \in Run /\ r.key \in Ingresses
    BY <1>0, <2>1 DEF Run, Calls, Busy
  <2> HIDE DEF r
  <2>3. RunsOK'
    BY <1>0, <2>1, <2>2, ReturnOK, GotoOK
  <2>4. flag' \in BOOLEAN
    BY <1>0, <1>2 DEF CompareMembers, RestOK
  <2> QED
    BY <1>0, <1>2, <2>3, <2>4 DEF CompareMembers, Typed, RestOK
<1>3. CASE UpdatePoolMember(p)
  <2>1. RunsOK'
    BY <1>0, <1>3, ReturnOK, GotoOK DEF UpdatePoolMember
  <2>2. pool' \in SUBSET Member
    BY <1>0, <1>3, MergeOK DEF UpdatePoolMember, Written, Run
  <2>3. mishap' \in SUBSET Reasons
    BY <1>0, <1>3, MarkOK DEF UpdatePoolMember, RestOK, Reasons
  <2> QED
    BY <1>0, <1>3, <2>1, <2>2, <2>3 DEF UpdatePoolMember, Typed, RestOK
<1>4. CASE CallFails(p)
  <2>1. RunsOK'
    BY <1>0, <1>4, ReturnOK, GotoOK DEF CallFails, Fail
  <2>2. spent' \in [Kinds -> Nat]
    BY <1>0, <1>4, SpendOK DEF CallFails, RestOK, Kinds
  <2>3. mishap' \in SUBSET Reasons
    BY <1>0, <1>4 DEF CallFails, Fail, RestOK, Reasons
  <2> QED
    BY <1>0, <1>4, <2>1, <2>2, <2>3 DEF CallFails, Fail, Typed, RestOK
<1> QED
    BY <1>1, <1>2, <1>3, <1>4 DEF Call

\* The start of a pass.
LEMMA StartTypes ==
    ASSUME Typed, StartPass
    PROVE  /\ RunsOK'
           /\ pass' \in [nodes : SUBSET Nodes, todo : SUBSET (Ingresses \X Ingress)]
           /\ flag' \in BOOLEAN /\ mishap' \in SUBSET Reasons
           /\ UNCHANGED <<store, nodes, queue, knownNodes, pool>>
<1>0. RunsOK /\ RestOK /\ Sync \in Processes
    BY DEF Typed, Processes
<1>1. RunsOK'
    BY <1>0, BetweenOK, GotoOK DEF StartPass
<1>2. mishap' \in SUBSET Reasons
    BY <1>0 DEF StartPass, RestOK, Reasons
<1> QED
    BY <1>0, <1>1, <1>2 DEF StartPass, RestOK

\* nodeSyncLoop.
LEMMA SyncTypes ==
    ASSUME Typed, SyncLoop \/ SecretTick \/ ListFails
    PROVE  Typed'
<1>0. RunsOK /\ RestOK /\ Sync \in Processes
    BY DEF Typed, Processes
<1>1. CASE Tick
    BY <1>0, <1>1, StartTypes DEF Tick, Typed, RestOK
<1>2. CASE SecretTick
  <2>1. spent' \in [Kinds -> Nat]
    BY <1>0, <1>2, SpendOK DEF SecretTick, RestOK, Kinds
  <2> QED
    BY <1>0, <1>2, <2>1, StartTypes DEF SecretTick, Typed, RestOK
<1>3. CASE ListIngresses
  <2> DEFINE items == {<<i, store[i]>> : i \in {j \in Ingresses : store[j] # Absent}}
  <2>1. items \in SUBSET (Ingresses \X Ingress) /\ pass' = [pass EXCEPT !.todo = items]
    BY <1>0, <1>3 DEF ListIngresses, RestOK
  <2> HIDE DEF items
  <2>2. pass' \in [nodes : SUBSET Nodes, todo : SUBSET (Ingresses \X Ingress)]
    BY <1>0, <2>1 DEF RestOK
  <2>3. RunsOK'
    BY <1>0, <1>3, BetweenOK, GotoOK DEF ListIngresses
  <2> QED
    BY <1>0, <1>3, <2>2, <2>3 DEF ListIngresses, Typed, RestOK
<1>4. CASE ListFails
  <2>1. RunsOK'
    BY <1>0, <1>4, BetweenOK, GotoOK DEF ListFails
  <2>2. spent' \in [Kinds -> Nat]
    BY <1>0, <1>4, SpendOK DEF ListFails, RestOK, Kinds
  <2> QED
    BY <1>0, <1>4, <2>1, <2>2 DEF ListFails, Typed, RestOK, Reasons
<1>5. CASE SyncNext
  <2>1. PICK todo \in pass.todo :
           /\ pass' = [pass EXCEPT !.todo = @ \ {todo}]
           /\ Goto(Sync, Begin(todo[1], Absent, todo[2]))
    BY <1>5 DEF SyncNext
  <2>2. todo[1] \in Ingresses /\ todo[2] \in Ingress /\ Absent \in Ingress
    BY <1>0 DEF RestOK, Ingress
  <2>3. RunsOK'
    BY <1>0, <2>1, <2>2, BeginOK, GotoOK
  <2>4. pass' \in [nodes : SUBSET Nodes, todo : SUBSET (Ingresses \X Ingress)]
    BY <1>0, <2>1 DEF RestOK
  <2> QED
    BY <1>0, <1>5, <2>3, <2>4 DEF SyncNext, Typed, RestOK
<1>6. CASE EndPass
  <2>1. RunsOK'
    BY <1>0, <1>6, BetweenOK, GotoOK DEF EndPass
  <2> QED
    BY <1>0, <1>6, <2>1 DEF EndPass, Typed, RestOK
<1> QED
    BY <1>1, <1>2, <1>3, <1>4, <1>5, <1>6 DEF SyncLoop

\* A restart.
LEMMA CrashTypes ==
    ASSUME Typed, Crash
    PROVE  Typed'
<1>0. RunsOK /\ RestOK
    BY DEF Typed
<1>1. RunsOK'
    BY BetweenOK DEF Crash, RunsOK
<1>2. queue' \in Seq(Events)
    BY <1>0, ListedQueues DEF Crash, RestOK
<1>3. spent' \in [Kinds -> Nat]
    BY <1>0, SpendOK DEF Crash, RestOK, Kinds
<1>4. mishap' \in SUBSET Reasons
    BY <1>0 DEF Crash, RestOK, Reasons
<1> QED
    BY <1>0, <1>1, <1>2, <1>3, <1>4 DEF Crash, Typed, RestOK

-----------------------------------------------------------------------------
\* What holds when the controller starts.
LEMMA InitTypes == Init => Typed
<1> SUFFICES ASSUME Init PROVE Typed
    OBVIOUS
<1>1. RunsOK
    BY BetweenOK DEF Init, RunsOK
<1>2. store \in [Ingresses -> Ingress] /\ nodes \in SUBSET Nodes
    BY StoresAssumption, NodesAssumption DEF Init
<1>3. queue \in Seq(Events)
    BY <1>2, ListedQueues DEF Init
<1> QED
    BY <1>1, <1>2, <1>3 DEF Init, Typed, RestOK

\* Every step keeps the types.
LEMMA NextTypes == Typed /\ [Next]_vars => Typed'
<1> SUFFICES ASSUME Typed, [Next]_vars PROVE Typed'
    OBVIOUS
<1>1. CASE UNCHANGED vars
    BY <1>1 DEF vars, Typed, RunsOK, RestOK
<1>2. CASE Next
    BY <1>2, QueueTypes, CallTypes, SyncTypes, CrashTypes DEF Next
<1> QED
    BY <1>1, <1>2

\* Type correctness of DefaultPool: what is read, merged and written are
\* members of ingresses on nodes, and a busy run is about an ingress.
THEOREM TypeCorrect == Spec => []TypeOK
BY InitTypes, NextTypes, Parted, PTL DEF Spec

-----------------------------------------------------------------------------
(* No address twice.                                                       *)

\* The lists a run holds: its own members, and those it got.
ListsOf(r) ==
    /\ Busy(r) => Distinct(r.newMembers)
    /\ r.call \in {"compare", "update"} => Distinct(r.got)

Lists == Distinct(pool) /\ \A p \in Processes : ListsOf(run[p])

\* A step that leaves the pool alone, and one goroutine with such lists.
LEMMA ListsStep ==
    ASSUME RunsOK, Lists, NEW p \in Processes, NEW r \in Run, ListsOf(r),
           Busy(r) => r.key \in Ingresses, Goto(p, r), Distinct(pool')
    PROVE  Lists'
<1>1. run'[p] = r /\ \A q \in Processes \ {p} : run'[q] = run[q]
    BY GotoOK
<1> QED
    BY <1>1 DEF Lists

\* Between two ingresses there are no lists.
LEMMA NoLists ==
    ASSUME NEW r, ~Busy(r)
    PROVE  ListsOf(r)
BY DEF ListsOf, Busy

\* The pool and the lists read from it have no address twice, although names
\* are prefixes of other names and two goroutines write over each other.
LEMMA AlwaysLists == Spec => []Lists
<1>1. Init => Lists
  <2> SUFFICES ASSUME Init PROVE Lists
    OBVIOUS
  <2>1. \A p \in Processes : ListsOf(run[p])
    BY BetweenOK, NoLists DEF Init
  <2> QED
    BY <2>1 DEF Init, Lists, Distinct
<1>2. Typed /\ Lists /\ [Next]_vars => Lists'
  <2> SUFFICES ASSUME Typed, Lists, [Next]_vars PROVE Lists'
    OBVIOUS
  <2>0. RunsOK /\ RestOK /\ Distinct(pool) /\ Sync \in Processes /\ Worker \in Processes
    BY DEF Typed, Lists, Processes
  <2>1. ASSUME UNCHANGED <<run, pool>> PROVE Lists'
    BY <2>1 DEF Lists
  <2>2. CASE UNCHANGED vars \/ ChangeNodes \/ \E i \in Ingresses : Edit(i)
    BY <2>1, <2>2 DEF vars, ChangeNodes, Edit
  <2>3. CASE Take
    <3> DEFINE e == Head(queue)
               r == Begin(e.key, e.old, e.new)
    <3>1. e \in Events
      BY <2>0, <2>3, HeadTailProperties DEF Take, RestOK
    <3>2. r \in Run /\ r.key \in Ingresses /\ ListsOf(r)
      BY <2>0, <3>1, BeginOK DEF Events, ListsOf
    <3>3. Goto(Worker, r) /\ pool' = pool
      BY <2>3 DEF Take
    <3> HIDE DEF r
    <3> QED
      BY <2>0, <3>2, <3>3, ListsStep
  <2>4. CASE SyncNext
    <3>1. PICK todo \in pass.todo : Goto(Sync, Begin(todo[1], Absent, todo[2]))
      BY <2>4 DEF SyncNext
    <3> DEFINE r == Begin(todo[1], Absent, todo[2])
    <3>2. todo[1] \in Ingresses /\ todo[2] \in Ingress /\ Absent \in Ingress
      BY <2>0 DEF RestOK, Ingress
    <3>3. r \in Run /\ r.key \in Ingresses /\ ListsOf(r)
      BY <2>0, <3>2, BeginOK DEF ListsOf
    <3>4. Goto(Sync, r) /\ pool' = pool
      BY <2>4, <3>1 DEF SyncNext
    <3> HIDE DEF r
    <3> QED
      BY <2>0, <3>3, <3>4, ListsStep
  <2>5. CASE Tick \/ SecretTick \/ ListIngresses \/ ListFails \/ EndPass
    <3>1. PICK r \in Run : ~Busy(r) /\ Goto(Sync, r)
      BY <2>5, BetweenOK DEF Tick, SecretTick, StartPass, ListIngresses, ListFails, EndPass
    <3>2. pool' = pool
      BY <2>5 DEF Tick, SecretTick, StartPass, ListIngresses, ListFails, EndPass
    <3> QED
      BY <2>0, <3>1, <3>2, NoLists, ListsStep
  <2>6. CASE Crash
    <3>1. \A p \in Processes : ListsOf(run'[p])
      BY <2>6, BetweenOK, NoLists DEF Crash
    <3> QED
      BY <2>0, <2>6, <3>1 DEF Crash, Lists
  <2>7. ASSUME NEW p \in Processes, Call(p) \/ CallFails(p) PROVE Lists'
    <3>0. run[p] \in Run /\ (Busy(run[p]) => run[p].key \in Ingresses) /\ ListsOf(run[p])
      BY <2>0 DEF RunsOK, Lists
    <3>1. CASE GetMemberPool(p)
      <4> DEFINE r == [run[p] EXCEPT !.call = "compare", !.got = pool]
      <4>1. run[p].call = "get" /\ Goto(p, r) /\ pool' = pool
        BY <3>1 DEF GetMemberPool, At
      <4>2. r \in Run /\ r.key \in Ingresses /\ r.got = pool
              /\ r.newMembers = run[p].newMembers
        BY <2>0, <3>0, <4>1 DEF Run, Calls, RestOK, Busy
      <4> HIDE DEF r
      <4>3. ListsOf(r)
        BY <2>0, <3>0, <4>1, <4>2 DEF ListsOf, Busy
      <4> QED
        BY <2>0, <4>1, <4>2, <4>3, ListsStep
    <3>2. CASE CompareMembers(p)
      <4> DEFINE r == [run[p] EXCEPT !.call = "update"]
      <4>1. /\ run[p].call = "compare"
            /\ Goto(p, r) \/ Goto(p, Return(p))
            /\ pool' = pool
        BY <3>2 DEF CompareMembers, At
      <4>2. r \in Run /\ r.key \in Ingresses /\ r.got = run[p].got
              /\ r.newMembers = run[p].newMembers
        BY <3>0, <4>1 DEF Run, Calls, Busy
      <4> HIDE DEF r
      <4>3. ListsOf(r)
        BY <3>0, <4>1, <4>2 DEF ListsOf, Busy
      <4> QED
        BY <2>0, <4>1, <4>2, <4>3, ReturnOK, NoLists, ListsStep
    <3>3. CASE UpdatePoolMember(p)
      <4>1. Distinct(pool')
        BY <3>0, <3>3, MergeDistinct DEF UpdatePoolMember, Written, ListsOf, At, Busy
      <4> QED
        BY <2>0, <3>3, <4>1, ReturnOK, NoLists, ListsStep DEF UpdatePoolMember
    <3>4. CASE CallFails(p)
      BY <2>0, <3>4, ReturnOK, NoLists, ListsStep DEF CallFails, Fail
    <3> QED
      BY <2>7, <3>1, <3>2, <3>3, <3>4 DEF Call
  <2> QED
    BY <2>2, <2>3, <2>4, <2>5, <2>6, <2>7 DEF Next, SyncLoop
<1> QED
  <2>1. Spec => []Typed
    BY InitTypes, NextTypes, PTL DEF Spec
  <2> QED
    BY <1>1, <1>2, <2>1, PTL DEF Spec

\* OneMemberPerAddress of DefaultPool: ComparePoolMembers may take equal
\* lengths and one inclusion for the same members, and no member is sent to
\* vLB twice, although names are prefixes of other names and two goroutines
\* write over each other.
THEOREM OneMember == Spec => []OneMemberPerAddress
<1>1. Lists => OneMemberPerAddress
  <2> SUFFICES ASSUME Lists, NEW p \in Processes, run[p].call \in {"compare", "update"}
               PROVE  Distinct(run[p].got) /\ Distinct(Written(run[p]))
    BY DEF OneMemberPerAddress, Lists
  <2>1. Distinct(run[p].got) /\ Distinct(run[p].newMembers)
    BY DEF Lists, ListsOf, Busy
  <2> QED
    BY <2>1, MergeDistinct DEF Written
<1> QED
  BY <1>1, AlwaysLists, PTL
-----------------------------------------------------------------------------
(* ComparePoolMembers.                                                     *)

Addresses(ms) == {<<m.node, m.backend>> : m \in ms}

\* There are finitely many members.
LEMMA FiniteMembers == IsFiniteSet(Member)
<1> DEFINE All == (Ingresses \X Nodes) \X Backends
           f == [m \in Member |-> <<<<m.owner, m.node>>, m.backend>>]
<1>1. IsFiniteSet(All)
  BY FS_Product, IngressesAssumption, NodesAssumption
<1>2. f \in [Member -> All]
  BY DEF Member
<1>3. \A m, c \in Member : f[m] = f[c] => m = c
  BY DEF Member
<1>4. f \in Injection(Member, All)
  BY <1>2, <1>3 DEF Injection, IsInjective
<1> QED
  BY <1>1, <1>4, FS_Injection

\* A list with one member per address has as many members as addresses.
LEMMA AsManyAddresses ==
    ASSUME NEW ms \in SUBSET Member, Distinct(ms)
    PROVE  /\ IsFiniteSet(ms) /\ IsFiniteSet(Addresses(ms))
           /\ Cardinality(ms) = Cardinality(Addresses(ms))
<1> DEFINE f == [m \in ms |-> <<m.node, m.backend>>]
<1>1. IsFiniteSet(ms)
  BY FiniteMembers, FS_Subset
<1>2. f \in Surjection(ms, Addresses(ms))
  BY DEF Surjection, Addresses
<1>3. f \in Injection(ms, Addresses(ms))
  <2>1. f \in [ms -> Addresses(ms)]
    BY DEF Addresses
  <2>2. \A m, c \in ms : f[m] = f[c] => m = c
    BY DEF Distinct, SameAddress
  <2> QED
    BY <2>1, <2>2 DEF Injection, IsInjective
<1> HIDE DEF f
<1> QED
  BY <1>1, <1>2, <1>3, FS_Surjection

\* Between such lists ComparePoolMembers, which compares the lengths and one
\* inclusion, tells whether the addresses are the same.
LEMMA SameMembersExact ==
    ASSUME NEW ms \in SUBSET Member, Distinct(ms), NEW ns \in SUBSET Member, Distinct(ns)
    PROVE  SameMembers(ms, ns) <=> Addresses(ms) = Addresses(ns)
<1>1. /\ IsFiniteSet(Addresses(ms)) /\ IsFiniteSet(Addresses(ns))
      /\ Cardinality(ms) = Cardinality(Addresses(ms))
      /\ Cardinality(ns) = Cardinality(Addresses(ns))
  BY AsManyAddresses
<1>2. (\A m \in ns : Exists(ms, m)) <=> Addresses(ns) \subseteq Addresses(ms)
  <2>1. ASSUME \A m \in ns : Exists(ms, m), NEW a \in Addresses(ns) PROVE a \in Addresses(ms)
    BY <2>1 DEF Exists, SameAddress, Addresses
  <2>2. ASSUME Addresses(ns) \subseteq Addresses(ms), NEW m \in ns PROVE Exists(ms, m)
    <3>1. <<m.node, m.backend>> \in Addresses(ms)
      BY <2>2 DEF Addresses
    <3>2. PICK c \in ms : <<m.node, m.backend>> = <<c.node, c.backend>>
      BY <3>1 DEF Addresses
    <3> QED
      BY <3>2 DEF Exists, SameAddress
  <2> QED
    BY <2>1, <2>2
<1>3. ASSUME SameMembers(ms, ns) PROVE Addresses(ms) = Addresses(ns)
  BY <1>1, <1>2, <1>3, FS_Subset DEF SameMembers
<1>4. ASSUME Addresses(ms) = Addresses(ns) PROVE SameMembers(ms, ns)
  BY <1>1, <1>2, <1>4 DEF SameMembers
<1> QED
  BY <1>3, <1>4

\* ensureDefaultPoolMember finds nothing to write exactly when the addresses
\* it wants are those it read (controller.go:1253, utils.go:177).
ComparesAddresses ==
    \A p \in Processes :
        At(p, "compare") =>
            (SameMembers(Written(run[p]), run[p].got)
                <=> Addresses(Written(run[p])) = Addresses(run[p].got))

\* The comparison by length and one inclusion is never fooled, although it
\* would be by a list that has an address twice.
THEOREM ComparisonExact == Spec => []ComparesAddresses
<1>1. Typed /\ OneMemberPerAddress => ComparesAddresses
  <2> SUFFICES ASSUME Typed, OneMemberPerAddress, NEW p \in Processes, At(p, "compare")
               PROVE  SameMembers(Written(run[p]), run[p].got)
                        <=> Addresses(Written(run[p])) = Addresses(run[p].got)
    BY DEF ComparesAddresses
  <2>1. /\ run[p].got \in SUBSET Member
        /\ run[p].newMembers \in SUBSET Member
    BY DEF Typed, RunsOK, Run
  <2>2. Written(run[p]) \in SUBSET Member
    BY <2>1, MergeOK DEF Written
  <2>3. Distinct(Written(run[p])) /\ Distinct(run[p].got)
    BY DEF OneMemberPerAddress, At
  <2> QED
    BY <2>1, <2>2, <2>3, SameMembersExact
<1>2. TypeOK => Typed
  BY Parted
<1> QED
  BY <1>1, <1>2, TypeCorrect, OneMember, PTL

-----------------------------------------------------------------------------
(* Every ingress has its default members.                                  *)

\* A merge that changes nothing found every new member, no member whose name
\* makes room for the new ones, and none that was to be deleted.
LEMMA MergeSame ==
    ASSUME NEW got \in SUBSET Member, NEW old, NEW new \in SUBSET Member,
           Distinct(got), Distinct(new), SameMembers(Merge(got, old, new), got)
    PROVE  /\ \A c \in new : Exists(got, c)
           /\ \A m \in got : \A c \in new : HasPrefix(m, c) => Exists(new, m)
           /\ \A m \in got : m \in old => Exists(new, m)
<1> DEFINE ms == Merge(got, old, new)
           kept == Kept(got, old, new)
<1>1. ms \in SUBSET Member /\ Distinct(ms)
  BY MergeOK, MergeDistinct
<1>2. Addresses(ms) = Addresses(got)
  BY <1>1, SameMembersExact
<1>3. ms = kept \cup {c \in new : ~Exists(kept, c)} /\ kept \subseteq got
  BY DEF Merge, Kept
<1>4. \A m : m \in kept => (\A c \in new : ~HasPrefix(m, c)) /\ ~Exists(NeedDelete(old, new), m)
  BY DEF Kept
<1> HIDE DEF ms, kept
<1>5. ASSUME NEW c \in new PROVE Exists(got, c)
  <2>1. PICK w \in ms : SameAddress(w, c)
    BY <1>3 DEF Exists, SameAddress
  <2>2. <<w.node, w.backend>> \in Addresses(ms)
    BY DEF Addresses
  <2>3. PICK m \in got : <<w.node, w.backend>> = <<m.node, m.backend>>
    BY <1>2, <2>2 DEF Addresses
  <2> QED
    BY <2>1, <2>3 DEF Exists, SameAddress
<1>6. ASSUME NEW m \in got PROVE m \in kept \/ Exists(new, m)
  <2>0. <<m.node, m.backend>> \in Addresses(got)
    BY DEF Addresses
  <2>1. PICK w \in ms : <<m.node, m.backend>> = <<w.node, w.backend>>
    BY <1>2, <2>0 DEF Addresses
  <2>2. SameAddress(w, m)
    BY <2>1 DEF SameAddress
  <2>3. w \in kept => w = m
    BY <1>3, <2>2 DEF Distinct
  <2> QED
    BY <1>3, <2>2, <2>3 DEF Exists
<1>7. ASSUME NEW m \in got, m \in old, ~Exists(new, m) PROVE Exists(NeedDelete(old, new), m)
  BY <1>7 DEF NeedDelete, Exists, SameAddress
<1> QED
  BY <1>4, <1>5, <1>6, <1>7

\* What a run starts with.
LEMMA BeginFields ==
    ASSUME NEW i \in Ingresses, NEW old \in Ingress, NEW new \in Ingress
    PROVE  /\ Begin(i, old, new).call = "get" /\ Begin(i, old, new).key = i
           /\ Begin(i, old, new).new = new
           /\ Begin(i, old, new).oldMembers = MembersOf(i, old, nodes)
           /\ Begin(i, old, new).newMembers = MembersOf(i, new, nodes)
<1> DEFINE ms == MembersOf(i, old, nodes)
           ns == MembersOf(i, new, nodes)
<1>1. Begin(i, old, new) = [Idle EXCEPT !.call = "get", !.key = i, !.new = new,
                              !.oldMembers = ms, !.newMembers = ns]
    BY DEF Begin
<1> HIDE DEF ms, ns
<1>2. Idle \in Run
    BY BetweenOK
<1> QED
    BY <1>1, <1>2 DEF Run, ms, ns

\* What waits for the worker.
Waiting(i) == \E n \in DOMAIN queue : queue[n].key = i

\* The last event of an ingress is about what is stored.
Latest ==
    \A n \in DOMAIN queue :
        (\A m \in DOMAIN queue : n < m => queue[m].key # queue[n].key)
            => queue[n].new = store[queue[n].key]

\* What a goroutine is about to write asks for a pass.
Flagged == "lost" \notin mishap => \A p \in Processes : At(p, "update") => flag

\* The members of an ingress are there, and none of its nodes of before.
Covers(i) ==
    /\ \A n \in nodes : \E m \in pool : m.node = n /\ m.backend = store[i]
    /\ nodes # {} =>
         \A m \in pool : m.owner = i /\ m.backend = store[i] => m.node \in nodes

\* A run will find that, or write and so ask for a pass.
Covering(r, i) ==
    /\ r.call \in {"get", "compare"} /\ r.key = i /\ r.new = store[i]
    /\ r.newMembers = MembersOf(i, store[i], nodes)
    /\ r.call = "compare" => r.got = pool

CoveredFor(i) ==
    \/ Waiting(i)
    \/ At(Sync, "list") \/ <<i, store[i]>> \in pass.todo
    \/ \E p \in Processes : Covering(run[p], i)
    \/ Covers(i)

\* No pass is to follow, because of the flag or of the nodes.
Calm == ~flag /\ nodes = Known /\ Spared({"lost", "flapped"})

AllCovered == Calm => \A i \in Ingresses : store[i] \in Backends => CoveredFor(i)

\* Between the passes nothing is left of one.
PassOver == At(Sync, "idle") => pass.todo = {}

ServedInv == Latest /\ Flagged /\ PassOver /\ AllCovered

\* A run that finds nothing to write has found what it covers.
LEMMA FoundCovers ==
    ASSUME Typed, Lists, NEW p \in Processes, NEW i \in Ingresses, store[i] \in Backends,
           Covering(run[p], i), At(p, "compare"), SameMembers(Written(run[p]), run[p].got)
    PROVE  Covers(i)
<1> DEFINE r == run[p]
           ns == r.newMembers
<1>1. /\ r \in Run /\ pool \in SUBSET Member /\ ns \in SUBSET Member /\ Distinct(pool)
      /\ Distinct(ns) /\ r.got = pool
    BY DEF Typed, RunsOK, RestOK, Run, Lists, ListsOf, Covering, At, Busy
<1>2. ns = [owner : {i}, node : nodes, backend : {store[i]}]
    BY DEF Covering, MembersOf
<1>3. SameMembers(Merge(pool, r.oldMembers, ns), pool)
    BY <1>1 DEF Written
<1> HIDE DEF r, ns
<1>4. /\ \A c \in ns : Exists(pool, c)
      /\ \A m \in pool : \A c \in ns : HasPrefix(m, c) => Exists(ns, m)
    BY <1>1, <1>3, MergeSame
<1>5. ASSUME NEW n \in nodes PROVE \E m \in pool : m.node = n /\ m.backend = store[i]
  <2> DEFINE c == [owner |-> i, node |-> n, backend |-> store[i]]
  <2>1. c \in ns
    BY <1>2
  <2> QED
    BY <1>4, <2>1 DEF Exists, SameAddress
<1>6. ASSUME NEW m \in pool, m.owner = i, m.backend = store[i], NEW n \in nodes
      PROVE  m.node \in nodes
  <2> DEFINE c == [owner |-> i, node |-> n, backend |-> store[i]]
  <2>1. c \in ns /\ HasPrefix(m, c)
    BY <1>2, <1>6, PrefixesAssumption DEF HasPrefix
  <2>2. PICK d \in ns : SameAddress(d, m)
    BY <1>4, <2>1 DEF Exists
  <2> QED
    BY <1>2, <2>2 DEF SameAddress
<1> QED
    BY <1>5, <1>6 DEF Covers

\* The informer lists what is stored, and all of it.
LEMMA ListedStored ==
    ASSUME NEW stored \in [Ingresses -> Ingress], NEW q \in Listed(stored)
    PROVE  /\ \A n \in DOMAIN q : /\ q[n].new = stored[q[n].key] /\ q[n].new # Absent
                                  /\ q[n].old = Absent
           /\ \A i \in Ingresses : stored[i] # Absent => \E n \in DOMAIN q : q[n].key = i
<1> DEFINE is == {i \in Ingresses : stored[i] # Absent}
           orders == {order \in [1 .. Cardinality(is) -> is] :
                         \A i \in is : \E j \in DOMAIN order : order[j] = i}
<1>1. PICK order \in orders : q = [j \in DOMAIN order |-> Event(order[j], Absent, stored[order[j]])]
    BY DEF Listed
<1>2. \A j \in DOMAIN order : order[j] \in is
    OBVIOUS
<1>3. \A i \in is : \E j \in DOMAIN order : order[j] = i
    OBVIOUS
<1>4. DOMAIN q = DOMAIN order
    BY <1>1
<1>5. \A j \in DOMAIN q : /\ q[j].key = order[j] /\ q[j].new = stored[order[j]]
                          /\ q[j].old = Absent
    BY <1>1 DEF Event
<1> QED
    BY <1>2, <1>3, <1>4, <1>5

\* An event that is queued, and the one that is taken.
LEMMA QueueGrows ==
    ASSUME RestOK, NEW e \in Events, queue' = Append(queue, e)
    PROVE  /\ \E l \in Nat : /\ DOMAIN queue' = DOMAIN queue \cup {l} /\ queue'[l] = e
                             /\ \A n \in DOMAIN queue : queue'[n] = queue[n] /\ n < l /\ n # l
           /\ \A n \in DOMAIN queue : queue[n] \in Events
<1>1. queue \in Seq(Events)
    BY DEF RestOK
<1> DEFINE l == Len(queue) + 1
<1>2. /\ DOMAIN queue' = DOMAIN queue \cup {l} /\ queue'[l] = e /\ l \in Nat
      /\ \A n \in DOMAIN queue : queue'[n] = queue[n] /\ n < l /\ n # l
    BY <1>1, LenProperties, AppendProperties
<1> HIDE DEF l
<1> QED
    BY <1>1, <1>2

LEMMA QueueShrinks ==
    ASSUME RestOK, Take
    PROVE  /\ Head(queue) \in Events /\ Head(queue) = queue[1] /\ 1 \in DOMAIN queue
           /\ \A n \in DOMAIN queue' : /\ n + 1 \in DOMAIN queue /\ n \in Nat
                                       /\ queue'[n] = queue[n + 1]
           /\ \A n \in DOMAIN queue : n # 1 =>
                /\ n - 1 \in DOMAIN queue' /\ queue'[n - 1] = queue[n] /\ n \in Nat /\ n > 1
<1>1. queue \in Seq(Events) /\ queue # <<>> /\ queue' = Tail(queue)
    BY DEF RestOK, Take
<1> DEFINE q == Tail(queue)
<1>2. /\ Head(queue) \in Events /\ q \in Seq(Events) /\ Len(q) = Len(queue) - 1
      /\ Len(queue) \in Nat
    BY <1>1, HeadTailProperties, LenProperties
<1>3. Head(queue) = queue[1] /\ 1 \in DOMAIN queue /\ \A n \in DOMAIN q : q[n] = queue[n + 1]
    BY <1>1, EmptySeq, LenProperties
<1>4. /\ \A n \in DOMAIN q : n + 1 \in DOMAIN queue /\ n \in Nat
      /\ \A n \in DOMAIN queue : n # 1 => n - 1 \in DOMAIN q /\ q[n - 1] = queue[n] /\ n \in Nat /\ n > 1
    BY <1>1, <1>2, <1>3
<1> HIDE DEF q
<1> QED
    BY <1>1, <1>2, <1>3, <1>4 DEF q

\* The queue ends with what is stored.
LEMMA LatestStep ==
    ASSUME Typed, Latest, [Next]_vars
    PROVE  Latest'
<1>0. RestOK
    BY DEF Typed
<1>1. CASE \E i \in Ingresses : Edit(i)
  <2>1. PICK i \in Ingresses, new \in Ingress :
           /\ store' = [store EXCEPT ![i] = new]
           /\ queue' = Append(queue, Event(i, store[i], new))
    BY <1>1 DEF Edit
  <2> DEFINE e == Event(i, store[i], new)
  <2>2. e \in Events /\ e.key = i /\ e.new = new
    BY <1>0, <2>1 DEF Event, Events, RestOK
  <2>3. queue' = Append(queue, e)
    BY <2>1
  <2> HIDE DEF e
  <2>4. PICK l : /\ DOMAIN queue' = DOMAIN queue \cup {l} /\ queue'[l] = e
                 /\ \A n \in DOMAIN queue : queue'[n] = queue[n] /\ n < l /\ n # l
    BY <1>0, <2>2, <2>3, QueueGrows
  <2>5. \A n \in DOMAIN queue : queue[n] \in Events
    BY <1>0, <2>2, <2>3, QueueGrows
  <2>6. \A j \in Ingresses : store'[j] = IF j = i THEN new ELSE store[j]
    BY <1>0, <2>1 DEF RestOK
  <2> SUFFICES ASSUME NEW n \in DOMAIN queue',
                      \A m \in DOMAIN queue' : n < m => queue'[m].key # queue'[n].key
               PROVE  queue'[n].new = store'[queue'[n].key]
    BY DEF Latest
  <2>7. CASE n = l
    BY <2>2, <2>4, <2>6, <2>7
  <2>8. CASE n # l
    <3>1. n \in DOMAIN queue /\ queue'[n] = queue[n]
      BY <2>4, <2>8
    <3>2. queue[n].key \in Ingresses
      BY <2>5, <3>1 DEF Events
    <3>3. queue[n].key # i
      <4>1. l \in DOMAIN queue' /\ n < l /\ queue'[l].key = i
        BY <2>2, <2>4, <3>1
      <4> QED
        BY <3>1, <4>1
    <3> QED
      BY <2>4, <2>6, <3>1, <3>2, <3>3 DEF Latest
  <2> QED
    BY <2>7, <2>8
<1>2. CASE Take
  <2> SUFFICES ASSUME NEW n \in DOMAIN queue',
                      \A m \in DOMAIN queue' : n < m => queue'[m].key # queue'[n].key
               PROVE  queue'[n].new = store[queue'[n].key]
    BY <1>2 DEF Latest, Take
  <2>0. n \in Nat /\ n + 1 \in DOMAIN queue /\ queue'[n] = queue[n + 1]
    BY <1>0, <1>2, QueueShrinks
  <2>1. ASSUME NEW m \in DOMAIN queue, n + 1 < m PROVE queue[m].key # queue[n + 1].key
    <3>0. m # 1
      BY <2>0, <2>1
    <3>1. m \in Nat /\ m - 1 \in DOMAIN queue' /\ queue'[m - 1] = queue[m]
      BY <1>0, <1>2, <3>0, QueueShrinks
    <3>2. n < m - 1
      BY <2>0, <2>1, <3>1
    <3> QED
      BY <2>0, <3>1, <3>2
  <2> QED
    BY <2>0, <2>1 DEF Latest
<1>3. CASE Crash
    BY <1>0, <1>3, ListedStored DEF Crash, Latest, RestOK
<1>4. CASE UNCHANGED <<store, queue>>
    BY <1>4 DEF Latest
<1> QED
    BY <1>1, <1>2, <1>3, <1>4 DEF Next, vars, ChangeNodes, SecretTick, StartPass, ListFails, SyncLoop,
       Tick, ListIngresses, SyncNext, EndPass, Call, GetMemberPool, CompareMembers,
       UpdatePoolMember, CallFails, Fail

\* Whoever is about to write has set the flag, and no tick cleared it since.
LEMMA FlaggedStep ==
    ASSUME Typed, Flagged, [Next]_vars
    PROVE  Flagged'
<1>0. RunsOK /\ Worker \in Processes /\ Sync \in Processes /\ Worker # Sync
    BY DEF Typed, Processes, Worker, Sync
<1> SUFFICES ASSUME "lost" \notin mishap', NEW p \in Processes, run'[p].call = "update"
             PROVE  flag'
    BY DEF Flagged, At
<1>1. CASE UNCHANGED <<run, flag, mishap>>
    BY <1>1 DEF Flagged, At
<1>2. CASE (\E i \in Ingresses : Edit(i)) \/ ChangeNodes
    BY <1>2 DEF Edit, ChangeNodes, Mark, Flagged, At
<1>3. CASE Take \/ SyncNext
  <2>1. PICK q \in Processes, i \in Ingresses, old \in Ingress, new \in Ingress :
          Goto(q, Begin(i, old, new)) /\ Begin(i, old, new).call = "get"
    <3>1. CASE Take
      <4> DEFINE e == Head(queue)
      <4>1. e \in Events
        BY <3>1, QueueShrinks DEF Typed
      <4>2. Goto(Worker, Begin(e.key, e.old, e.new))
        BY <3>1 DEF Take
      <4> HIDE DEF e
      <4> QED
        BY <1>0, <4>1, <4>2, BeginFields DEF Events
    <3>2. CASE SyncNext
      <4>1. PICK t \in pass.todo : Goto(Sync, Begin(t[1], Absent, t[2]))
        BY <3>2 DEF SyncNext
      <4>2. t[1] \in Ingresses /\ t[2] \in Ingress /\ Absent \in Ingress
        BY DEF Typed, RestOK, Ingress
      <4> QED
        BY <1>0, <4>1, <4>2, BeginFields
    <3> QED
      BY <1>3, <3>1, <3>2
  <2>2. p # q /\ run'[p] = run[p] /\ (flag' = flag)
    BY <1>0, <1>3, <2>1 DEF Goto, RunsOK, Take, SyncNext
  <2>3. "lost" \notin mishap
    BY <1>3 DEF Take, SyncNext, Mark
  <2> QED
    BY <2>2, <2>3 DEF Flagged, At
<1>4. CASE Tick \/ SecretTick
  <2>1. StartPass
    BY <1>4 DEF Tick, SecretTick
  <2>2. p = Worker /\ run'[p] = run[p]
    BY <1>0, <2>1, BetweenOK DEF StartPass, Goto, RunsOK, Processes, Busy
  <2> QED
    BY <2>1, <2>2 DEF StartPass, At
<1>5. CASE ListIngresses \/ ListFails \/ EndPass
  <2>1. PICK r : Goto(Sync, r) /\ ~Busy(r)
    BY <1>5, BetweenOK DEF ListIngresses, ListFails, EndPass
  <2>2. p # Sync /\ run'[p] = run[p] /\ flag' = flag
    BY <1>0, <1>5, <2>1 DEF Goto, RunsOK, Busy, ListIngresses, ListFails, EndPass
  <2> QED
    BY <1>5, <2>2 DEF ListIngresses, ListFails, EndPass, Flagged, At
<1>6. CASE Crash
    BY <1>6, BetweenOK DEF Crash, Busy
<1>7. ASSUME NEW q \in Processes, Call(q) \/ CallFails(q)
      PROVE  flag'
  <2>0. "lost" \notin mishap
    BY <1>7 DEF Call, CallFails, Fail, GetMemberPool, CompareMembers, UpdatePoolMember, Mark
  <2>1. CASE CompareMembers(q)
    <3>1. CASE flag' = TRUE
      BY <3>1
    <3>2. CASE Goto(q, Return(q)) /\ flag' = flag
      BY <1>0, <2>0, <3>2, ReturnOK DEF Goto, RunsOK, Busy, Flagged, At
    <3> QED
      BY <2>1, <3>1, <3>2 DEF CompareMembers
  <2>2. CASE UpdatePoolMember(q) \/ CallFails(q)
    BY <1>0, <2>0, <2>2, ReturnOK DEF UpdatePoolMember, CallFails, Fail, Goto, RunsOK, Busy, Flagged, At
  <2>3. CASE GetMemberPool(q)
    <3> DEFINE r == [run[q] EXCEPT !.call = "compare", !.got = pool]
    <3>1. Goto(q, r) /\ flag' = flag
      BY <2>3 DEF GetMemberPool
    <3>2. r.call = "compare"
      BY <1>0 DEF RunsOK, Run
    <3> HIDE DEF r
    <3> QED
      BY <1>0, <2>0, <3>1, <3>2 DEF Goto, RunsOK, Flagged, At
  <2> QED
    BY <1>7, <2>1, <2>2, <2>3 DEF Call
<1> QED
    BY <1>1, <1>2, <1>3, <1>4, <1>5, <1>6, <1>7 DEF Next, SyncLoop, vars

\* A pass ends without anything left to do, and only a pass has something.
LEMMA PassOverStep ==
    ASSUME Typed, PassOver, [Next]_vars
    PROVE  PassOver'
<1>0. RunsOK /\ Worker \in Processes /\ Sync \in Processes /\ Worker # Sync
    BY DEF Typed, Processes, Worker, Sync
<1>1. CASE UNCHANGED <<run, pass>>
    BY <1>1 DEF PassOver, At
<1>2. CASE Tick \/ SecretTick \/ ListFails \/ EndPass \/ Crash
  <2>1. pass'.todo = {}
    BY <1>2 DEF Tick, SecretTick, StartPass, ListFails, EndPass, Crash
  <2> QED
    BY <2>1 DEF PassOver
<1>3. CASE ListIngresses
  <2>1. run'[Sync] = [Idle EXCEPT !.call = "next"]
    BY <1>0, <1>3 DEF ListIngresses, Goto, RunsOK
  <2> QED
    BY <2>1, BetweenOK DEF PassOver, At, Run
<1>4. CASE SyncNext
  <2>1. PICK t \in pass.todo : Goto(Sync, Begin(t[1], Absent, t[2]))
    BY <1>4 DEF SyncNext
  <2>2. t[1] \in Ingresses /\ t[2] \in Ingress /\ Absent \in Ingress
    BY DEF Typed, RestOK, Ingress
  <2> DEFINE r == Begin(t[1], Absent, t[2])
  <2>3. Goto(Sync, r) /\ r.call = "get"
    BY <2>1, <2>2, BeginFields
  <2> HIDE DEF r
  <2>4. run'[Sync] = r
    BY <1>0, <2>3 DEF Goto, RunsOK
  <2> QED
    BY <2>3, <2>4 DEF PassOver, At
<1>5. CASE Take
  <2>1. run'[Sync] = run[Sync] /\ pass' = pass
    BY <1>0, <1>5 DEF Take, Goto, RunsOK
  <2> QED
    BY <2>1 DEF PassOver, At
<1>6. ASSUME NEW p \in Processes, Call(p) \/ CallFails(p)
      PROVE  PassOver'
  <2>1. pass' = pass
    BY <1>6 DEF Call, CallFails, Fail, GetMemberPool, CompareMembers, UpdatePoolMember
  <2>2. CASE p = Worker
    <3>1. run'[Sync] = run[Sync]
      BY <1>0, <1>6, <2>2 DEF Call, CallFails, Fail, GetMemberPool, CompareMembers, UpdatePoolMember,
         Goto, RunsOK
    <3> QED
      BY <2>1, <3>1 DEF PassOver, At
  <2>3. CASE p = Sync
    <3>1. Return(p).call = "next"
      BY <1>0, <2>3, BetweenOK DEF Return, Run
    <3>2. [run[p] EXCEPT !.call = "compare", !.got = pool].call = "compare"
           /\ [run[p] EXCEPT !.call = "update"].call = "update"
      BY <1>0, <2>3 DEF RunsOK, Run
    <3> DEFINE r == [run[p] EXCEPT !.call = "compare", !.got = pool]
               w == [run[p] EXCEPT !.call = "update"]
    <3>3. Goto(p, r) \/ Goto(p, w) \/ Goto(p, Return(p))
      BY <1>6 DEF Call, CallFails, Fail, GetMemberPool, CompareMembers, UpdatePoolMember
    <3>4. r.call # "idle" /\ w.call # "idle"
      BY <3>2
    <3> HIDE DEF r, w
    <3>5. run'[Sync].call # "idle"
      BY <1>0, <2>3, <3>1, <3>3, <3>4 DEF Goto, RunsOK
    <3> QED
      BY <3>5 DEF PassOver, At
  <2> QED
    BY <2>2, <2>3 DEF Processes
<1> QED
    BY <1>1, <1>2, <1>3, <1>4, <1>5, <1>6 DEF Next, SyncLoop, vars, Edit, ChangeNodes

\* What leaves the pool, the objects and the nodes alone leaves an ingress
\* covered as long as its event, its pass or its run is there.
LEMMA CoveredStays ==
    ASSUME UNCHANGED <<nodes, pool>>, NEW i \in Ingresses, store'[i] = store[i], CoveredFor(i),
           Waiting(i) => Waiting(i)', At(Sync, "list") => At(Sync, "list")',
           <<i, store[i]>> \in pass.todo => <<i, store[i]>> \in pass'.todo,
           NEW p \in Processes, \A q \in Processes \ {p} : run'[q] = run[q],
           Covering(run[p], i) => Covering(run[p], i)' \/ Covers(i)
    PROVE  CoveredFor(i)'
<1>1. Covers(i) => Covers(i)'
    BY DEF Covers
<1>2. ASSUME NEW q \in Processes, Covering(run[q], i)
      PROVE  Covers(i) \/ Covering(run[q], i)'
  <2>1. CASE q = p
    BY <1>2, <2>1
  <2>2. CASE q # p
    BY <1>2, <2>2 DEF Covering
  <2> QED
    BY <2>1, <2>2
<1> QED
    BY <1>1, <1>2 DEF CoveredFor

\* The users and the nodes: an edit queues its event, and nodes that change
\* either differ from the known ones or are noted to be back.
LEMMA UsersCovered ==
    ASSUME Typed, AllCovered, (\E i \in Ingresses : Edit(i)) \/ ChangeNodes
    PROVE  AllCovered'
<1>1. CASE \E i \in Ingresses : Edit(i)
  <2>1. PICK i \in Ingresses, new \in Ingress :
           /\ store' = [store EXCEPT ![i] = new]
           /\ queue' = Append(queue, Event(i, store[i], new))
           /\ UNCHANGED <<nodes, run, flag, knownNodes, pass, pool, mishap>>
    BY <1>1 DEF Edit
  <2> DEFINE e == Event(i, store[i], new)
  <2>2. e \in Events /\ e.key = i
    BY <2>1 DEF Event, Events, Typed, RestOK
  <2>3. queue' = Append(queue, e)
    BY <2>1
  <2> HIDE DEF e
  <2>4. PICK l : /\ DOMAIN queue' = DOMAIN queue \cup {l} /\ queue'[l] = e
                 /\ \A n \in DOMAIN queue : queue'[n] = queue[n]
    BY <2>2, <2>3, QueueGrows DEF Typed
  <2>5. Waiting(i)' /\ \A j : Waiting(j) => Waiting(j)'
    BY <2>2, <2>4 DEF Waiting
  <2>6. \A j \in Ingresses : j # i => store'[j] = store[j]
    BY <2>1 DEF Typed, RestOK
  <2> SUFFICES ASSUME Calm', NEW j \in Ingresses, store'[j] \in Backends
               PROVE  CoveredFor(j)'
    BY DEF AllCovered
  <2>7. CASE j = i
    BY <2>5, <2>7 DEF CoveredFor
  <2>8. CASE j # i
    <3>1. Calm
      BY <2>1 DEF Calm, Known, At, Spared
    <3>2. CoveredFor(j) /\ store'[j] = store[j]
      BY <2>6, <2>8, <3>1 DEF AllCovered
    <3>3. Covering(run[Worker], j) => Covering(run[Worker], j)'
      BY <2>1, <3>2 DEF Covering
    <3> QED
      BY <2>1, <2>5, <3>2, <3>3, CoveredStays DEF At, Processes
  <2> QED
    BY <2>7, <2>8
<1>2. CASE ChangeNodes
  <2>1. PICK ns : nodes' = ns /\ Mark("flapped", ns = Known)
    BY <1>2 DEF ChangeNodes
  <2>2. Known' = Known
    BY <1>2 DEF ChangeNodes, Known, At
  <2>3. ~Calm'
    BY <2>1, <2>2 DEF Calm, Mark, Spared
  <2> QED
    BY <2>3 DEF AllCovered
<1> QED
    BY <1>1, <1>2

\* The worker takes up an ingress as it is stored, or another event follows.
LEMMA TakeCovered ==
    ASSUME Typed, Latest, AllCovered, Take
    PROVE  AllCovered'
<1> DEFINE e == Head(queue)
           r == Begin(e.key, e.old, e.new)
<1>0. RunsOK /\ Worker \in Processes /\ Sync \in Processes /\ Worker # Sync
    BY DEF Typed, Processes, Worker, Sync
<1>1. /\ e \in Events /\ e = queue[1] /\ 1 \in DOMAIN queue
      /\ \A n \in DOMAIN queue : n # 1 =>
           /\ n - 1 \in DOMAIN queue' /\ queue'[n - 1] = queue[n] /\ n \in Nat /\ n > 1
    BY QueueShrinks DEF Typed
<1>2. /\ Goto(Worker, r) /\ run[Worker].call = "idle"
      /\ UNCHANGED <<store, nodes, flag, knownNodes, pass, pool>> /\ mishap \subseteq mishap'
    BY DEF Take, At, Mark
<1>3. /\ r.call = "get" /\ r.key = e.key /\ r.new = e.new
      /\ r.newMembers = MembersOf(e.key, e.new, nodes)
    BY <1>1, BeginFields DEF Events
<1> HIDE DEF e, r
<1>4. run'[Worker] = r /\ \A q \in Processes \ {Worker} : run'[q] = run[q]
    BY <1>0, <1>2 DEF Goto, RunsOK
<1> SUFFICES ASSUME Calm', NEW i \in Ingresses, store[i] \in Backends
             PROVE  CoveredFor(i)'
    BY <1>2 DEF AllCovered
<1>5. Calm
    BY <1>0, <1>2, <1>4 DEF Calm, Known, At, Spared
<1>6. CoveredFor(i)
    BY <1>5 DEF AllCovered
<1>7. ~Covering(run[Worker], i)
    BY <1>2 DEF Covering
<1>8. CASE Waiting(i) => Waiting(i)'
    BY <1>0, <1>2, <1>4, <1>6, <1>7, <1>8, CoveredStays DEF At
<1>9. CASE Waiting(i) /\ ~Waiting(i)'
  <2>1. \A m \in DOMAIN queue : m # 1 => queue[m].key # i
    BY <1>1, <1>9 DEF Waiting
  <2>2. e.key = i /\ e.new = store[i]
    BY <1>1, <1>9, <2>1 DEF Waiting, Latest
  <2>3. Covering(run[Worker], i)'
    BY <1>2, <1>3, <1>4, <2>2 DEF Covering
  <2> QED
    BY <1>0, <2>3 DEF CoveredFor
<1> QED
    BY <1>8, <1>9

\* ensureDefaultPoolMember finds what it covers, or sets the flag.
LEMMA CallCovered ==
    ASSUME Typed, Lists, Flagged, AllCovered, NEW p \in Processes, Call(p) \/ CallFails(p)
    PROVE  AllCovered'
<1>0. RunsOK
    BY DEF Typed
<1> SUFFICES ASSUME Calm', NEW i \in Ingresses, store'[i] \in Backends
             PROVE  CoveredFor(i)'
    BY DEF AllCovered
<1>1. CASE GetMemberPool(p)
  <2> DEFINE r == [run[p] EXCEPT !.call = "compare", !.got = pool]
  <2>1. /\ Goto(p, r) /\ run[p].call = "get"
        /\ UNCHANGED <<store, nodes, queue, flag, knownNodes, pass, pool, mishap>>
    BY <1>1 DEF GetMemberPool, At
  <2>2. /\ r.call = "compare" /\ r.got = pool /\ r.key = run[p].key /\ r.new = run[p].new
        /\ r.newMembers = run[p].newMembers
    BY <1>0 DEF RunsOK, Run
  <2> HIDE DEF r
  <2>3. run'[p] = r /\ \A q \in Processes \ {p} : run'[q] = run[q]
    BY <1>0, <2>1 DEF Goto, RunsOK
  <2>4. \A q \in Processes : (At(q, "idle")' <=> At(q, "idle")) /\ (At(q, "list")' <=> At(q, "list"))
    BY <2>1, <2>2, <2>3 DEF At
  <2>5. Calm
    BY <2>1, <2>4 DEF Calm, Known, Spared, Processes
  <2>6. CoveredFor(i)
    BY <2>1, <2>5 DEF AllCovered
  <2>7. Covering(run[p], i) => Covering(run[p], i)'
    BY <2>1, <2>2, <2>3 DEF Covering
  <2>8. (Waiting(i) => Waiting(i)') /\ (At(Sync, "list") => At(Sync, "list")')
    BY <2>1, <2>4 DEF Waiting, Processes
  <2> QED
    BY <2>1, <2>3, <2>6, <2>7, <2>8, CoveredStays
<1>2. CASE CompareMembers(p)
  <2>1. /\ SameMembers(Written(run[p]), run[p].got) /\ Goto(p, Return(p)) /\ run[p].call = "compare"
        /\ UNCHANGED <<store, nodes, queue, flag, knownNodes, pass, pool, mishap>>
    BY <1>2 DEF CompareMembers, At, Calm
  <2>2. run'[p] = Return(p) /\ \A q \in Processes \ {p} : run'[q] = run[q]
    BY <1>0, <2>1 DEF Goto, RunsOK
  <2>3. p = Sync => Return(p).call = "next"
    BY BetweenOK DEF Return, Worker, Sync, Run
  <2>4. (At(Sync, "idle")' <=> At(Sync, "idle")) /\ (At(Sync, "list") => At(Sync, "list")')
    BY <2>1, <2>2, <2>3 DEF At, Processes
  <2>5. Calm
    BY <2>1, <2>4 DEF Calm, Known, Spared
  <2>6. CoveredFor(i)
    BY <2>1, <2>5 DEF AllCovered
  <2>7. Covering(run[p], i) => Covers(i)
    BY <2>1, FoundCovers DEF At
  <2>8. Waiting(i) => Waiting(i)'
    BY <2>1 DEF Waiting
  <2> QED
    BY <2>1, <2>2, <2>4, <2>6, <2>7, <2>8, CoveredStays
<1>3. CASE UpdatePoolMember(p) \/ CallFails(p)
  <2>1. "lost" \notin mishap'
    BY DEF Calm, Spared
  <2>2. ~CallFails(p)
    BY <2>1 DEF CallFails, Fail
  <2>3. At(p, "update") /\ flag' = flag /\ "lost" \notin mishap
    BY <1>3, <2>1, <2>2 DEF UpdatePoolMember, Mark
  <2> QED
    BY <2>3 DEF Flagged, Calm
<1> QED
    BY <1>1, <1>2, <1>3 DEF Call

\* A pass goes through all that is stored.
LEMMA SyncCovered ==
    ASSUME Typed, AllCovered, SyncLoop \/ SecretTick \/ ListFails
    PROVE  AllCovered'
<1>0. RunsOK /\ RestOK /\ Worker \in Processes /\ Sync \in Processes /\ Worker # Sync
    BY DEF Typed, Processes, Worker, Sync
<1> SUFFICES ASSUME Calm', NEW i \in Ingresses, store'[i] \in Backends
             PROVE  CoveredFor(i)'
    BY DEF AllCovered
<1>1. CASE Tick \/ SecretTick
  <2>1. run'[Sync] = [Idle EXCEPT !.call = "list"]
    BY <1>0, <1>1 DEF Tick, SecretTick, StartPass, Goto, RunsOK
  <2>2. run'[Sync].call = "list"
    BY <2>1, BetweenOK DEF Run
  <2> QED
    BY <2>2 DEF CoveredFor, At
<1>2. CASE ListIngresses
  <2>1. pass'.todo = {<<j, store[j]>> : j \in {k \in Ingresses : store[k] # Absent}} /\ store' = store
    BY <1>0, <1>2 DEF ListIngresses, RestOK
  <2>2. <<i, store[i]>> \in pass'.todo
    BY <2>1, BackendsAssumption
  <2> QED
    BY <2>1, <2>2 DEF CoveredFor
<1>3. CASE ListFails
    BY <1>3 DEF ListFails, Calm, Spared
<1>4. CASE SyncNext
  <2>1. PICK t \in pass.todo :
           /\ pass' = [pass EXCEPT !.todo = @ \ {t}]
           /\ Goto(Sync, Begin(t[1], Absent, t[2]))
           /\ UNCHANGED <<store, nodes, queue, flag, knownNodes, pool, mishap>>
           /\ run[Sync].call = "next"
    BY <1>4 DEF SyncNext, At
  <2> DEFINE r == Begin(t[1], Absent, t[2])
  <2>2. t[1] \in Ingresses /\ t[2] \in Ingress /\ Absent \in Ingress /\ t = <<t[1], t[2]>>
    BY <1>0 DEF RestOK, Ingress
  <2>3. /\ r.call = "get" /\ r.key = t[1] /\ r.new = t[2]
        /\ r.newMembers = MembersOf(t[1], t[2], nodes)
    BY <2>2, BeginFields
  <2>4. Goto(Sync, r)
    BY <2>1
  <2> HIDE DEF r
  <2>5. run'[Sync] = r /\ \A q \in Processes \ {Sync} : run'[q] = run[q]
    BY <1>0, <2>4 DEF Goto, RunsOK
  <2>6. pass'.todo = pass.todo \ {t} /\ pass'.nodes = pass.nodes
    BY <1>0, <2>1 DEF RestOK
  <2>7. Calm
    BY <2>1, <2>3, <2>5, <2>6 DEF Calm, Known, Spared, At
  <2>8. CoveredFor(i)
    BY <2>1, <2>7 DEF AllCovered
  <2>9. ~Covering(run[Sync], i) /\ ~At(Sync, "list")
    BY <2>1 DEF Covering, At
  <2>10. CASE t = <<i, store[i]>>
    <3>1. Covering(run[Sync], i)'
      BY <2>1, <2>3, <2>5, <2>10 DEF Covering
    <3> QED
      BY <1>0, <3>1 DEF CoveredFor
  <2>11. CASE t # <<i, store[i]>>
    BY <1>0, <2>1, <2>5, <2>6, <2>8, <2>9, <2>11, CoveredStays DEF Waiting
  <2> QED
    BY <2>10, <2>11
<1>5. CASE EndPass
  <2>1. /\ run[Sync].call = "next" /\ pass.todo = {} /\ knownNodes' = pass.nodes /\ Goto(Sync, Idle)
        /\ UNCHANGED <<store, nodes, queue, flag, pool, mishap>>
    BY <1>5 DEF EndPass, At
  <2>2. run'[Sync] = Idle /\ \A q \in Processes \ {Sync} : run'[q] = run[q]
    BY <1>0, <2>1 DEF Goto, RunsOK
  <2>3. Calm
    BY <2>1, <2>2 DEF Calm, Known, Spared, At, Idle
  <2>4. CoveredFor(i)
    BY <2>1, <2>3 DEF AllCovered
  <2>5. ~Covering(run[Sync], i) /\ ~At(Sync, "list")
    BY <2>1 DEF Covering, At
  <2> QED
    BY <1>0, <2>1, <2>2, <2>4, <2>5, CoveredStays DEF Waiting
<1> QED
    BY <1>1, <1>2, <1>3, <1>4, <1>5 DEF SyncLoop

\* No ingress is forgotten: its event waits, a pass is on its way to it, a run
\* is at it, or its members are there.
LEMMA AlwaysServed == Spec => []ServedInv
<1>1. Init => ServedInv
  <2> SUFFICES ASSUME Init PROVE ServedInv
    OBVIOUS
  <2>1. store \in [Ingresses -> Ingress] /\ queue \in Listed(store)
    BY InitTypes DEF Init, Typed, RestOK
  <2>2. \A i \in Ingresses : store[i] \in Backends => Waiting(i)
    BY <2>1, ListedStored, BackendsAssumption DEF Waiting
  <2>3. Latest
    BY <2>1, ListedStored DEF Latest
  <2>4. Flagged
    BY BetweenOK DEF Init, Flagged, At, Busy
  <2>5. PassOver
    BY DEF Init, PassOver
  <2> QED
    BY <2>2, <2>3, <2>4, <2>5 DEF ServedInv, AllCovered, CoveredFor
<1>2. Typed /\ Lists /\ ServedInv /\ [Next]_vars => ServedInv'
  <2> SUFFICES ASSUME Typed, Lists, Latest, Flagged, PassOver, AllCovered, [Next]_vars PROVE AllCovered'
    BY LatestStep, FlaggedStep, PassOverStep DEF ServedInv
  <2>1. CASE UNCHANGED vars
    BY <2>1 DEF vars, AllCovered, Calm, Known, Spared, CoveredFor, Waiting, Covering, Covers, At
  <2>2. CASE Crash
    <3>1. \A i \in Ingresses : store[i] # Absent => Waiting(i)'
      BY <2>2, ListedStored DEF Crash, Typed, RestOK, Waiting
    <3> QED
      BY <2>2, <3>1, BackendsAssumption DEF Crash, AllCovered, CoveredFor
  <2> QED
    BY <2>1, <2>2, UsersCovered, TakeCovered, CallCovered, SyncCovered DEF Next
<1>3. Spec => []Typed
  BY InitTypes, NextTypes, PTL DEF Spec
<1> QED
  BY <1>1, <1>2, <1>3, AlwaysLists, PTL DEF Spec

\* At rest nothing else is left of these than the members.
LEMMA RestCovers ==
    ASSUME Typed, ServedInv, Rest, Spared({"lost", "flapped"}), NEW i \in Ingresses,
           store[i] \in Backends
    PROVE  Covers(i)
<1>0. Worker \in Processes /\ Sync \in Processes
    BY DEF Processes
<1>1. Calm
    BY <1>0 DEF Rest, Calm, Known
<1>2. ~Waiting(i)
    BY DEF Rest, Waiting
<1>3. ~At(Sync, "list") /\ pass.todo = {}
    BY <1>0 DEF Rest, At, ServedInv, PassOver
<1>4. \A p \in Processes : ~Covering(run[p], i)
    BY DEF Rest, At, Covering
<1> QED
    BY <1>1, <1>2, <1>3, <1>4 DEF ServedInv, AllCovered, CoveredFor

\* DefaultsServed of DefaultPool: every default backend has a member on every
\* ready node once all is quiet, for any number of ingresses that share the
\* pool, any nodes and any interleaving of the two goroutines.
THEOREM Served == Spec => []DefaultsServed
<1>1. Typed /\ ServedInv => DefaultsServed
    BY RestCovers DEF DefaultsServed, Covers
<1>2. Spec => []Typed
    BY InitTypes, NextTypes, PTL DEF Spec
<1> QED
    BY <1>1, <1>2, AlwaysServed, PTL

-----------------------------------------------------------------------------
(* What is in the pool is wanted.                                          *)

\* An event that takes away what an ingress had waits for the worker.
Leaves(i, b) == \E n \in DOMAIN queue : queue[n].key = i /\ queue[n].old = b

\* Each event is a change, from where the one before it left the ingress.
Chained ==
    \A n \in DOMAIN queue :
        /\ queue[n].old # queue[n].new
        /\ \/ store[queue[n].key] = queue[n].new
           \/ \E m \in DOMAIN queue :
                n < m /\ queue[m].key = queue[n].key /\ queue[m].old = queue[n].new

\* What the worker writes is what is stored, or an event takes it away again.
RunChained ==
    LET r == run[Worker]
    IN  Busy(r) => store[r.key] = r.new \/ Leaves(r.key, r.new)

\* The members a run writes and deletes; a pass has no object of before.
MembersRight(p, r) ==
    Busy(r) =>
        /\ \A m \in r.newMembers : m.owner = r.key /\ m.backend = r.new
        /\ \A m \in r.oldMembers : m.backend # r.new
        /\ p = Sync => r.oldMembers = {}

RunMembers == \A p \in Processes : MembersRight(p, run[p])

\* The worker will delete a member, or find that it has to.
Deletes(r, m) ==
    /\ Busy(r) /\ r.key = m.owner /\ m \in r.oldMembers
    /\ r.call # "get" => m \in r.got

\* A member belongs to the ingress it is named after, until its event or the
\* worker takes it away.
Owned(m) ==
    \/ store[m.owner] = m.backend
    \/ Leaves(m.owner, m.backend)
    \/ Deletes(run[Worker], m)

OwnedOrDue == "stray" \notin mishap => \A m \in pool : Owned(m)

StrayInv == Chained /\ RunChained /\ RunMembers /\ OwnedOrDue

\* What a call of ensureDefaultPoolMember leaves of its run.
LEMMA CallFields ==
    ASSUME Typed, NEW p \in Processes, Call(p) \/ CallFails(p)
    PROVE  /\ \A q \in Processes \ {p} : run'[q] = run[q]
           /\ Busy(run[p]) /\ UNCHANGED <<store, queue>> /\ mishap \subseteq mishap'
           /\ Busy(run'[p]) =>
                /\ run'[p].key = run[p].key /\ run'[p].new = run[p].new
                /\ run'[p].oldMembers = run[p].oldMembers
                /\ run'[p].newMembers = run[p].newMembers
<1>0. RunsOK
    BY DEF Typed
<1> DEFINE r == [run[p] EXCEPT !.call = "compare", !.got = pool]
           w == [run[p] EXCEPT !.call = "update"]
           ret == Return(p)
<1>1. /\ r.key = run[p].key /\ r.new = run[p].new
      /\ r.oldMembers = run[p].oldMembers /\ r.newMembers = run[p].newMembers
      /\ w.key = run[p].key /\ w.new = run[p].new
      /\ w.oldMembers = run[p].oldMembers /\ w.newMembers = run[p].newMembers
    BY <1>0 DEF RunsOK, Run
<1>2. ~Busy(ret)
    BY ReturnOK
<1>3. Goto(p, r) \/ Goto(p, w) \/ Goto(p, ret)
    BY DEF Call, CallFails, Fail, GetMemberPool, CompareMembers, UpdatePoolMember
<1>4. Busy(run[p]) /\ UNCHANGED <<store, queue>> /\ mishap \subseteq mishap'
    BY DEF Call, CallFails, Fail, GetMemberPool, CompareMembers, UpdatePoolMember, Mark, At, Busy
<1> HIDE DEF r, w, ret
<1>5. \A q \in Processes \ {p} : run'[q] = run[q]
    BY <1>0, <1>3 DEF Goto, RunsOK
<1>6. run'[p] \in {r, w, ret}
    BY <1>0, <1>3 DEF Goto, RunsOK
<1> QED
    BY <1>1, <1>2, <1>4, <1>5, <1>6

\* What a step of nodeSyncLoop leaves alone, and where it goes.
LEMMA SyncFields ==
    ASSUME Typed, SyncLoop \/ SecretTick \/ ListFails
    PROVE  /\ UNCHANGED <<store, queue, pool>> /\ run'[Worker] = run[Worker]
           /\ "stray" \in mishap => "stray" \in mishap'
           /\ Busy(run'[Sync]) =>
                \E i \in Ingresses, b \in Ingress : run'[Sync] = Begin(i, Absent, b)
<1>0. RunsOK /\ Worker \in Processes /\ Sync \in Processes /\ Worker # Sync
    BY DEF Typed, Processes, Worker, Sync
<1>1. /\ UNCHANGED <<store, queue, pool>>
      /\ "stray" \in mishap => "stray" \in mishap'
    BY DEF SyncLoop, Tick, SecretTick, StartPass, ListIngresses, ListFails, SyncNext, EndPass
<1>2. CASE SyncNext
  <2>1. PICK t \in pass.todo : Goto(Sync, Begin(t[1], Absent, t[2]))
    BY <1>2 DEF SyncNext
  <2>2. t[1] \in Ingresses /\ t[2] \in Ingress
    BY DEF Typed, RestOK
  <2>3. run'[Worker] = run[Worker] /\ run'[Sync] = Begin(t[1], Absent, t[2])
    BY <1>0, <2>1 DEF Goto, RunsOK
  <2> QED
    BY <1>1, <2>2, <2>3
<1>3. CASE ~SyncNext
  <2>1. PICK r : Goto(Sync, r) /\ ~Busy(r)
    BY <1>3, BetweenOK DEF SyncLoop, Tick, SecretTick, StartPass, ListIngresses, ListFails, EndPass
  <2> QED
    BY <1>0, <1>1, <2>1 DEF Goto, RunsOK
<1> QED
    BY <1>2, <1>3

\* What taking an event starts.
LEMMA TakeFields ==
    ASSUME Typed, Take
    PROVE  LET e == queue[1]
           IN  /\ e \in Events /\ 1 \in DOMAIN queue
               /\ run'[Worker] = Begin(e.key, e.old, e.new) /\ run'[Sync] = run[Sync]
               /\ ~Busy(run[Worker]) /\ UNCHANGED <<store, nodes, pool>> /\ mishap \subseteq mishap'
               /\ Mark("stray", \E m \in pool :
                     m.owner = e.key /\ m.backend = e.old /\ m.node \notin nodes)
<1>0. RunsOK /\ Worker \in Processes /\ Sync \in Processes /\ Worker # Sync
    BY DEF Typed, Processes, Worker, Sync
<1> DEFINE e == Head(queue)
<1>1. e \in Events /\ e = queue[1] /\ 1 \in DOMAIN queue
    BY QueueShrinks DEF Typed
<1>2. /\ Goto(Worker, Begin(e.key, e.old, e.new)) /\ ~Busy(run[Worker])
      /\ UNCHANGED <<store, nodes, pool>> /\ mishap \subseteq mishap'
      /\ Mark("stray", \E m \in pool :
            m.owner = e.key /\ m.backend = e.old /\ m.node \notin nodes)
    BY DEF Take, At, Busy, Mark
<1> HIDE DEF e
<1>3. run'[Worker] = Begin(e.key, e.old, e.new) /\ run'[Sync] = run[Sync]
    BY <1>0, <1>2 DEF Goto, RunsOK
<1> QED
    BY <1>1, <1>2, <1>3

\* The steps that neither change an object nor take an event.
Quiet == UNCHANGED <<store, queue>>

LEMMA Steps ==
    ASSUME Typed, [Next]_vars
    PROVE  \/ \E i \in Ingresses : Edit(i)
           \/ Take \/ Crash
           \/ Quiet /\ (SyncLoop \/ SecretTick \/ ListFails)
           \/ Quiet /\ \E p \in Processes : Call(p) \/ CallFails(p)
           \/ Quiet /\ UNCHANGED <<run, pool>> /\ mishap \subseteq mishap'
<1>1. CASE SyncLoop \/ SecretTick \/ ListFails
    BY <1>1, SyncFields DEF Quiet
<1>2. CASE \E p \in Processes : Call(p) \/ CallFails(p)
    BY <1>2, CallFields DEF Quiet
<1>3. CASE ChangeNodes \/ UNCHANGED vars
    BY <1>3 DEF Quiet, ChangeNodes, vars, Mark
<1> QED
    BY <1>1, <1>2, <1>3 DEF Next

\* What an edit does to the object and to the queue.
LEMMA EditFields ==
    ASSUME Typed, NEW i \in Ingresses, Edit(i)
    PROVE  /\ UNCHANGED <<run, pool, mishap>>
           /\ \A j \in Ingresses : j # i => store'[j] = store[j]
           /\ \A j, b : Leaves(j, b) => Leaves(j, b)'
           /\ \A b : b = store[i] => Leaves(i, b)'
           /\ \E l \in DOMAIN queue' :
                /\ DOMAIN queue' = DOMAIN queue \cup {l} /\ queue'[l].key = i
                /\ queue'[l].old = store[i] /\ queue'[l].new = store'[i] /\ store'[i] # store[i]
                /\ \A n \in DOMAIN queue : queue'[n] = queue[n] /\ n < l
           /\ \A n \in DOMAIN queue : queue[n].key \in Ingresses
<1>1. PICK new \in Ingress :
         /\ new # store[i] /\ store' = [store EXCEPT ![i] = new]
         /\ queue' = Append(queue, Event(i, store[i], new))
    BY DEF Edit
<1> DEFINE e == Event(i, store[i], new)
<1>2. e \in Events /\ e.key = i /\ e.old = store[i] /\ e.new = new
    BY <1>1 DEF Event, Events, Typed, RestOK
<1>3. queue' = Append(queue, e)
    BY <1>1
<1> HIDE DEF e
<1>4. /\ \E l \in Nat : /\ DOMAIN queue' = DOMAIN queue \cup {l} /\ queue'[l] = e
                        /\ \A n \in DOMAIN queue : queue'[n] = queue[n] /\ n < l
      /\ \A n \in DOMAIN queue : queue[n].key \in Ingresses
    BY <1>2, <1>3, QueueGrows DEF Typed, Events
<1>5. store'[i] = new /\ \A j \in Ingresses : j # i => store'[j] = store[j]
    BY <1>1 DEF Typed, RestOK
<1>6. UNCHANGED <<run, pool, mishap>>
    BY DEF Edit
<1> QED
    BY <1>1, <1>2, <1>4, <1>5, <1>6 DEF Leaves

\* An event that is taken is the only one that goes.
LEMMA TakeLeaves ==
    ASSUME Typed, Take, NEW i, NEW b, Leaves(i, b)
    PROVE  Leaves(i, b)' \/ (queue[1].key = i /\ queue[1].old = b)
<1>1. PICK n \in DOMAIN queue : queue[n].key = i /\ queue[n].old = b
    BY DEF Leaves
<1>2. CASE n # 1
  <2>1. n - 1 \in DOMAIN queue' /\ queue'[n - 1] = queue[n]
    BY <1>2, QueueShrinks DEF Typed
  <2> QED
    BY <1>1, <2>1 DEF Leaves
<1> QED
    BY <1>1, <1>2

\* The events of an ingress follow on each other, up to what is stored.
LEMMA ChainedStep ==
    ASSUME Typed, Chained, [Next]_vars
    PROVE  Chained'
<1>1. CASE \E i \in Ingresses : Edit(i)
  <2>1. PICK i \in Ingresses : Edit(i)
    BY <1>1
  <2>2. PICK l \in DOMAIN queue' :
                /\ DOMAIN queue' = DOMAIN queue \cup {l} /\ queue'[l].key = i
                /\ queue'[l].old = store[i] /\ queue'[l].new = store'[i] /\ store'[i] # store[i]
                /\ \A n \in DOMAIN queue : queue'[n] = queue[n] /\ n < l
    BY <2>1, EditFields
  <2>3. /\ \A j \in Ingresses : j # i => store'[j] = store[j]
        /\ \A n \in DOMAIN queue : queue[n].key \in Ingresses
    BY <2>1, EditFields
  <2> SUFFICES ASSUME NEW n \in DOMAIN queue'
               PROVE  /\ queue'[n].old # queue'[n].new
                      /\ \/ store'[queue'[n].key] = queue'[n].new
                         \/ \E m \in DOMAIN queue' :
                              n < m /\ queue'[m].key = queue'[n].key /\ queue'[m].old = queue'[n].new
    BY DEF Chained
  <2>4. CASE n = l
    BY <2>2, <2>4
  <2>5. CASE n # l
    <3>1. n \in DOMAIN queue /\ queue'[n] = queue[n] /\ n < l
      BY <2>2, <2>5
    <3>2. CASE store[queue[n].key] = queue[n].new
      BY <2>2, <2>3, <3>1, <3>2 DEF Chained
    <3>3. CASE \E m \in DOMAIN queue :
                 n < m /\ queue[m].key = queue[n].key /\ queue[m].old = queue[n].new
      BY <2>2, <3>1, <3>3 DEF Chained
    <3> QED
      BY <3>1, <3>2, <3>3 DEF Chained
  <2> QED
    BY <2>4, <2>5
<1>2. CASE Take
  <2> SUFFICES ASSUME NEW n \in DOMAIN queue'
               PROVE  /\ queue'[n].old # queue'[n].new
                      /\ \/ store[queue'[n].key] = queue'[n].new
                         \/ \E m \in DOMAIN queue' :
                              n < m /\ queue'[m].key = queue'[n].key /\ queue'[m].old = queue'[n].new
    BY <1>2 DEF Chained, Take
  <2>1. n \in Nat /\ n + 1 \in DOMAIN queue /\ queue'[n] = queue[n + 1]
    BY <1>2, QueueShrinks DEF Typed
  <2>2. CASE \E m \in DOMAIN queue : n + 1 < m /\ queue[m].key = queue[n + 1].key
                                      /\ queue[m].old = queue[n + 1].new
    <3>1. PICK m \in DOMAIN queue : n + 1 < m /\ queue[m].key = queue[n + 1].key
                                      /\ queue[m].old = queue[n + 1].new
      BY <2>2
    <3>2. m # 1
      BY <2>1, <3>1
    <3>3. m \in Nat /\ m - 1 \in DOMAIN queue' /\ queue'[m - 1] = queue[m]
      BY <1>2, <3>2, QueueShrinks DEF Typed
    <3>4. n < m - 1
      BY <2>1, <3>1, <3>3
    <3> QED
      BY <2>1, <3>1, <3>3, <3>4 DEF Chained
  <2> QED
    BY <2>1, <2>2 DEF Chained
<1>3. CASE Crash
  <2>1. queue' \in Listed(store) /\ store' = store /\ store \in [Ingresses -> Ingress]
    BY <1>3 DEF Crash, Typed, RestOK
  <2> QED
    BY <2>1, ListedStored DEF Chained
<1>4. CASE Quiet
    BY <1>4 DEF Quiet, Chained
<1> QED
    BY <1>1, <1>2, <1>3, <1>4, Steps

\* The worker writes what is stored, or what an event takes away again.
LEMMA RunChainedStep ==
    ASSUME Typed, Chained, RunChained, [Next]_vars
    PROVE  RunChained'
<1>0. RunsOK /\ Worker \in Processes /\ Sync \in Processes /\ Worker # Sync
    BY DEF Typed, Processes, Worker, Sync
<1>1. CASE \E i \in Ingresses : Edit(i)
  <2>1. PICK i \in Ingresses : Edit(i)
    BY <1>1
  <2>2. /\ run' = run /\ \A b : b = store[i] => Leaves(i, b)'
        /\ \A j \in Ingresses : j # i => store'[j] = store[j]
        /\ \A j, b : Leaves(j, b) => Leaves(j, b)'
    BY <2>1, EditFields
  <2> DEFINE r == run[Worker]
  <2>3. Busy(r) => r.key \in Ingresses
    BY <1>0 DEF RunsOK
  <2>4. Busy(r) => store[r.key] = r.new \/ Leaves(r.key, r.new)
    BY DEF RunChained
  <2>5. PICK k, b : k = r.key /\ b = r.new
    OBVIOUS
  <2>6. Busy(r) => store'[k] = b \/ Leaves(k, b)'
    BY <2>2, <2>3, <2>4, <2>5
  <2> QED
    BY <2>2, <2>5, <2>6 DEF RunChained, Leaves
<1>2. CASE Take
  <2> DEFINE e == queue[1]
             r == Begin(e.key, e.old, e.new)
  <2>1. e \in Events /\ 1 \in DOMAIN queue /\ run'[Worker] = r /\ store' = store
    BY <1>2, TakeFields
  <2>2. r.key = e.key /\ r.new = e.new
    BY <2>1, BeginFields DEF Events
  <2> HIDE DEF r
  <2>3. CASE \E m \in DOMAIN queue : 1 < m /\ queue[m].key = e.key /\ queue[m].old = e.new
    <3>1. PICK m \in DOMAIN queue : 1 < m /\ queue[m].key = e.key /\ queue[m].old = e.new
      BY <2>3
    <3>2. m - 1 \in DOMAIN queue' /\ queue'[m - 1] = queue[m]
      BY <1>2, <3>1, QueueShrinks DEF Typed
    <3> QED
      BY <2>1, <2>2, <3>1, <3>2 DEF RunChained, Leaves
  <2>4. CASE store[e.key] = e.new
    BY <2>1, <2>2, <2>4 DEF RunChained
  <2> QED
    BY <2>1, <2>3, <2>4 DEF Chained
<1>3. CASE Crash
    BY <1>0, <1>3, BetweenOK DEF Crash, RunChained
<1>4. CASE Quiet /\ (SyncLoop \/ SecretTick \/ ListFails)
    BY <1>4, SyncFields DEF RunChained, Leaves
<1>5. ASSUME NEW p \in Processes, Call(p) \/ CallFails(p), Quiet
      PROVE  RunChained'
    BY <1>0, <1>5, CallFields DEF Quiet, RunChained, Leaves
<1>6. CASE Quiet /\ UNCHANGED run
    BY <1>6 DEF Quiet, RunChained, Leaves
<1> QED
    BY <1>1, <1>2, <1>3, <1>4, <1>5, <1>6, Steps

\* A run has the members of its own ingress, old and new apart.
LEMMA RunMembersStep ==
    ASSUME Typed, Chained, RunMembers, [Next]_vars
    PROVE  RunMembers'
<1>0. RunsOK /\ Worker \in Processes /\ Sync \in Processes /\ Worker # Sync
    BY DEF Typed, Processes, Worker, Sync
<1>1. ASSUME NEW i \in Ingresses, NEW old \in Ingress, NEW new \in Ingress, old # new,
             NEW p \in Processes, p = Sync => old = Absent
      PROVE  MembersRight(p, Begin(i, old, new))
  <2>1. MembersOf(i, Absent, nodes) = {}
    BY BackendsAssumption DEF MembersOf
  <2>2. \A m \in MembersOf(i, new, nodes) : m.owner = i /\ m.backend = new
    BY DEF MembersOf
  <2>3. \A m \in MembersOf(i, old, nodes) : m.backend = old
    BY DEF MembersOf
  <2> QED
    BY <1>1, <2>1, <2>2, <2>3, BeginFields DEF MembersRight
<1>2. CASE Take
  <2>1. queue[1] \in Events /\ queue[1].old # queue[1].new
    BY <1>2, TakeFields DEF Chained
  <2>2. MembersRight(Worker, run'[Worker]) /\ run'[Sync] = run[Sync]
    BY <1>0, <1>1, <1>2, <2>1, TakeFields DEF Events
  <2> QED
    BY <2>2 DEF RunMembers, Processes
<1>3. CASE SyncLoop \/ SecretTick \/ ListFails
  <2>1. run'[Worker] = run[Worker]
    BY <1>3, SyncFields
  <2>2. CASE ~Busy(run'[Sync])
    BY <2>1, <2>2 DEF RunMembers, MembersRight, Processes
  <2>3. CASE Busy(run'[Sync])
    <3>1. PICK i \in Ingresses, b \in Ingress : run'[Sync] = Begin(i, Absent, b)
      BY <1>3, <2>3, SyncFields
    <3>2. Absent \in Ingress
      BY DEF Ingress
    <3>3. CASE b # Absent
      <4>1. MembersRight(Sync, run'[Sync])
        BY <1>0, <1>1, <3>1, <3>2, <3>3
      <4> QED
        BY <2>1, <4>1 DEF RunMembers, Processes
    <3>4. CASE b = Absent
      <4>1. MembersOf(i, Absent, nodes) = {}
        BY BackendsAssumption DEF MembersOf
      <4>2. MembersRight(Sync, run'[Sync])
        BY <3>1, <3>2, <3>4, <4>1, BeginFields DEF MembersRight
      <4> QED
        BY <2>1, <4>2 DEF RunMembers, Processes
    <3> QED
      BY <3>3, <3>4
  <2> QED
    BY <2>2, <2>3
<1>4. ASSUME NEW p \in Processes, Call(p) \/ CallFails(p)
      PROVE  RunMembers'
  <2>1. MembersRight(p, run[p])
    BY DEF RunMembers
  <2>2. MembersRight(p, run'[p])
    BY <1>4, <2>1, CallFields DEF MembersRight
  <2> QED
    BY <1>4, <2>2, CallFields DEF RunMembers
<1>5. CASE Crash
    BY <1>5, BetweenOK DEF Crash, RunMembers, MembersRight
<1>6. CASE UNCHANGED run
    BY <1>6 DEF RunMembers
<1> QED
    BY <1>2, <1>3, <1>4, <1>5, <1>6, Steps, EditFields

\* A member that is to be deleted is not kept, and not found to be in order.
LEMMA DeletedGoes ==
    ASSUME Typed, Lists, RunMembers, NEW p \in Processes, NEW m \in pool,
           Deletes(run[p], m), run[p].call # "get"
    PROVE  /\ m \notin Written(run[p])
           /\ ~SameMembers(Written(run[p]), run[p].got)
<1> DEFINE r == run[p]
           old == r.oldMembers
           new == r.newMembers
           got == r.got
<1>1. /\ r \in Run /\ got \in SUBSET Member /\ new \in SUBSET Member
      /\ Distinct(got) /\ Distinct(new)
    BY DEF Typed, RunsOK, Run, Lists, ListsOf, Deletes, Busy
<1>2. /\ m \in old /\ m \in got /\ m.backend # r.new
      /\ \A c \in new : c.backend = r.new
    BY DEF Deletes, RunMembers, MembersRight
<1>3. Written(r) = Merge(got, old, new)
    BY DEF Written
<1> HIDE DEF r, old, new, got
<1>4. ~Exists(new, m)
    BY <1>2 DEF Exists, SameAddress
<1>5. m \in NeedDelete(old, new)
    BY <1>2, <1>4 DEF NeedDelete
<1>6. m \notin Kept(got, old, new) /\ m \notin new
    BY <1>2, <1>5 DEF Kept, Exists, SameAddress
<1>7. ~SameMembers(Merge(got, old, new), got)
    BY <1>1, <1>2, <1>4, MergeSame
<1> QED
    BY <1>3, <1>6, <1>7 DEF Merge, r, got

\* What is written belongs to an ingress or is on its way out.
LEMMA WrittenOwned ==
    ASSUME Typed, Lists, StrayInv, "stray" \notin mishap', NEW p \in Processes, UpdatePoolMember(p),
           NEW m \in pool'
    PROVE  Owned(m)'
<1>0. RunsOK /\ Worker \in Processes /\ Sync \in Processes /\ Worker # Sync
    BY DEF Typed, Processes, Worker, Sync
<1>1. /\ pool' = Written(run[p]) /\ run[p].call = "update" /\ Busy(run[p])
      /\ UNCHANGED <<store, queue>> /\ "stray" \notin mishap
      /\ Mark("stray", (p = Sync /\ run[p].new # store[run[p].key]) \/ pool # run[p].got)
    BY DEF UpdatePoolMember, Mark, At, Busy
<1>2. pool = run[p].got /\ (p = Sync => run[p].new = store[run[p].key])
    BY <1>1 DEF Mark
<1>3. m \in pool \/ m \in run[p].newMembers
    BY <1>1, <1>2 DEF Written, Merge, Kept
<1>4. \A i, b : Leaves(i, b) => Leaves(i, b)'
    BY <1>1 DEF Leaves
<1>5. CASE m \in run[p].newMembers
  <2>1. m.owner = run[p].key /\ m.backend = run[p].new
    BY <1>1, <1>5 DEF StrayInv, RunMembers, MembersRight
  <2>2. store[m.owner] = m.backend \/ Leaves(m.owner, m.backend)
    BY <1>1, <1>2, <2>1 DEF StrayInv, RunChained, Processes
  <2> QED
    BY <1>1, <1>4, <2>2 DEF Owned
<1>6. CASE m \in pool
  <2>1. Owned(m)
    BY <1>1, <1>6 DEF StrayInv, OwnedOrDue
  <2>2. CASE Deletes(run[Worker], m)
    <3>1. p # Worker
      BY <1>1, <1>6, <2>2, DeletedGoes DEF StrayInv
    <3>2. run'[Worker] = run[Worker]
      BY <1>0, <3>1, CallFields DEF Call
    <3> QED
      BY <2>2, <3>2 DEF Owned, Deletes
  <2> QED
    BY <1>1, <1>4, <2>1, <2>2 DEF Owned
<1> QED
    BY <1>3, <1>5, <1>6

\* A call finds what the worker has to delete, and then deletes it.
LEMMA CallOwned ==
    ASSUME Typed, Lists, StrayInv, NEW p \in Processes, Call(p) \/ CallFails(p)
    PROVE  OwnedOrDue'
<1>0. RunsOK /\ Worker \in Processes /\ Sync \in Processes /\ Worker # Sync
    BY DEF Typed, Processes, Worker, Sync
<1> SUFFICES ASSUME "stray" \notin mishap', NEW m \in pool'
             PROVE  Owned(m)'
    BY DEF OwnedOrDue
<1>1. CASE UpdatePoolMember(p)
    BY <1>1, WrittenOwned
<1>2. CASE ~UpdatePoolMember(p)
  <2>1. pool' = pool /\ UNCHANGED <<store, queue>> /\ "stray" \notin mishap
    BY <1>2, CallFields DEF Call, CallFails, Fail, GetMemberPool, CompareMembers
  <2>2. Owned(m)
    BY <2>1 DEF StrayInv, OwnedOrDue
  <2>3. ASSUME Deletes(run[Worker], m) PROVE Deletes(run'[Worker], m)
    <3>1. CASE p # Worker
      BY <1>0, <2>3, <3>1, CallFields
    <3>2. CASE p = Worker
      <4>1. CASE GetMemberPool(p)
        <5> DEFINE r == [run[p] EXCEPT !.call = "compare", !.got = pool]
        <5>1. Goto(p, r)
          BY <4>1 DEF GetMemberPool
        <5>2. r.call = "compare" /\ r.got = pool
          BY <1>0 DEF RunsOK, Run
        <5> HIDE DEF r
        <5>3. run'[p] = r
          BY <1>0, <5>1 DEF Goto, RunsOK
        <5> QED
          BY <2>1, <2>3, <3>2, <5>2, <5>3, CallFields DEF Deletes, Busy
      <4>2. CASE CompareMembers(p)
        <5> DEFINE r == [run[p] EXCEPT !.call = "update"]
        <5>1. ~SameMembers(Written(run[p]), run[p].got)
          BY <2>1, <2>3, <3>2, <4>2, DeletedGoes DEF StrayInv, CompareMembers, At
        <5>2. Goto(p, r) /\ run[p].call = "compare"
          BY <4>2, <5>1 DEF CompareMembers, At
        <5>3. r.call = "update" /\ r.got = run[p].got
          BY <1>0 DEF RunsOK, Run
        <5> HIDE DEF r
        <5>4. run'[p] = r
          BY <1>0, <5>2 DEF Goto, RunsOK
        <5> QED
          BY <2>3, <3>2, <5>2, <5>3, <5>4, CallFields DEF Deletes, Busy
      <4>3. CASE CallFails(p)
        BY <2>3, <3>2, <4>3 DEF CallFails, Fail, Deletes
      <4> QED
        BY <1>2, <4>1, <4>2, <4>3 DEF Call
    <3> QED
      BY <3>1, <3>2
  <2> QED
    BY <2>1, <2>2, <2>3 DEF Owned, Leaves
<1> QED
    BY <1>1, <1>2

\* Every member of the pool is wanted, or on its way out.
LEMMA OwnedStep ==
    ASSUME Typed, Lists, StrayInv, [Next]_vars
    PROVE  OwnedOrDue'
<1>0. RunsOK /\ Worker \in Processes /\ pool \in SUBSET Member
    BY DEF Typed, RestOK, Processes
<1>1. CASE \E i \in Ingresses : Edit(i)
  <2>1. PICK i \in Ingresses : Edit(i)
    BY <1>1
  <2>2. /\ UNCHANGED <<run, pool, mishap>>
        /\ \A j \in Ingresses : j # i => store'[j] = store[j]
        /\ \A j, b : Leaves(j, b) => Leaves(j, b)'
        /\ \A b : b = store[i] => Leaves(i, b)'
    BY <2>1, EditFields
  <2> SUFFICES ASSUME "stray" \notin mishap, NEW m \in pool
               PROVE  Owned(m)'
    BY <2>2 DEF OwnedOrDue
  <2>3. Owned(m) /\ m.owner \in Ingresses
    BY <1>0 DEF StrayInv, OwnedOrDue, Member
  <2> QED
    BY <2>2, <2>3 DEF Owned, Deletes
<1>2. CASE Take
  <2> SUFFICES ASSUME "stray" \notin mishap', NEW m \in pool
               PROVE  Owned(m)'
    BY <1>2 DEF OwnedOrDue, Take
  <2> DEFINE e == queue[1]
             r == Begin(e.key, e.old, e.new)
  <2>1. /\ e \in Events /\ run'[Worker] = r /\ ~Busy(run[Worker]) /\ store' = store
        /\ "stray" \notin mishap
        /\ Mark("stray", \E c \in pool :
              c.owner = e.key /\ c.backend = e.old /\ c.node \notin nodes)
    BY <1>2, TakeFields
  <2>2. Owned(m) /\ ~Deletes(run[Worker], m)
    BY <2>1 DEF StrayInv, OwnedOrDue, Deletes
  <2>3. CASE e.key = m.owner /\ e.old = m.backend
    <3>1. m.node \in nodes
      BY <2>1, <2>3 DEF Mark
    <3>2. m \in MembersOf(e.key, e.old, nodes)
      BY <1>0, <2>3, <3>1 DEF MembersOf, Member
    <3>3. /\ r.call = "get" /\ r.key = m.owner
          /\ r.oldMembers = MembersOf(e.key, e.old, nodes)
      BY <2>1, <2>3, BeginFields DEF Events
    <3> HIDE DEF r
    <3> QED
      BY <2>1, <3>2, <3>3 DEF Owned, Deletes, Busy
  <2>4. CASE Leaves(m.owner, m.backend)'
    BY <2>4 DEF Owned
  <2> QED
    BY <1>2, <2>1, <2>2, <2>3, <2>4, TakeLeaves DEF Owned
<1>3. CASE Crash
  <2> SUFFICES ASSUME "stray" \notin mishap', NEW m \in pool
               PROVE  Owned(m)'
    BY <1>3 DEF OwnedOrDue, Crash
  <2>1. "stray" \notin mishap /\ queue = <<>> /\ ~Busy(run[Worker]) /\ store' = store
    BY <1>3 DEF Crash, At, Busy
  <2>2. ~Leaves(m.owner, m.backend) /\ ~Deletes(run[Worker], m)
    BY <2>1 DEF Leaves, Deletes
  <2> QED
    BY <2>1, <2>2 DEF StrayInv, OwnedOrDue, Owned
<1>4. CASE Quiet /\ (SyncLoop \/ SecretTick \/ ListFails)
    BY <1>4, SyncFields DEF StrayInv, OwnedOrDue, Owned, Leaves, Deletes
<1>5. CASE \E p \in Processes : Call(p) \/ CallFails(p)
    BY <1>5, CallOwned
<1>6. CASE Quiet /\ UNCHANGED <<run, pool>> /\ mishap \subseteq mishap'
    BY <1>6 DEF Quiet, StrayInv, OwnedOrDue, Owned, Leaves, Deletes
<1> QED
    BY <1>1, <1>2, <1>3, <1>4, <1>5, <1>6, Steps

\* Nothing of what an ingress had before stays in the pool for good.
LEMMA AlwaysOwned == Spec => []StrayInv
<1>1. Init => StrayInv
  <2> SUFFICES ASSUME Init PROVE StrayInv
    OBVIOUS
  <2>1. store \in [Ingresses -> Ingress] /\ queue \in Listed(store)
    BY InitTypes DEF Init, Typed, RestOK
  <2>2. Chained
    BY <2>1, ListedStored DEF Chained
  <2>3. RunChained /\ RunMembers
    BY BetweenOK DEF Init, RunChained, RunMembers, MembersRight, Processes
  <2> QED
    BY <2>2, <2>3 DEF Init, StrayInv, OwnedOrDue
<1>2. Typed /\ Lists /\ StrayInv /\ [Next]_vars => StrayInv'
    BY ChainedStep, RunChainedStep, RunMembersStep, OwnedStep DEF StrayInv
<1>3. Spec => []Typed
    BY InitTypes, NextTypes, PTL DEF Spec
<1> QED
    BY <1>1, <1>2, <1>3, AlwaysLists, PTL DEF Spec

\* NoStrays of DefaultPool: at rest every member of the pool is of a ready
\* node and of a backend some ingress has, unless a deletion failed, was cut
\* short or missed a member, or one goroutine wrote over the other.
THEOREM NothingStrays == Spec => []NoStrays
<1>1. Typed /\ ServedInv /\ StrayInv => NoStrays
  <2> SUFFICES ASSUME Typed, ServedInv, StrayInv, Rest, nodes # {}, Spared(Reasons), NEW m \in pool
               PROVE  m.node \in nodes /\ \E i \in Ingresses : store[i] = m.backend
    BY DEF NoStrays
  <2>1. m \in Member /\ "stray" \notin mishap /\ Spared({"lost", "flapped"})
    BY DEF Typed, RestOK, Spared, Reasons
  <2>2. Owned(m)
    BY <2>1 DEF StrayInv, OwnedOrDue
  <2>3. ~Leaves(m.owner, m.backend) /\ ~Deletes(run[Worker], m)
    BY DEF Rest, Leaves, Deletes, At, Busy, Processes
  <2>4. store[m.owner] = m.backend /\ m.owner \in Ingresses /\ m.backend \in Backends
    BY <2>1, <2>2, <2>3 DEF Owned, Member
  <2>5. Covers(m.owner)
    BY <2>1, <2>4, RestCovers
  <2> QED
    BY <2>4, <2>5 DEF Covers
<1>2. Spec => []Typed
    BY InitTypes, NextTypes, PTL DEF Spec
<1> QED
    BY <1>1, <1>2, AlwaysServed, AlwaysOwned, PTL
=============================================================================
