------------------------- MODULE LoadBalancersProofs -------------------------
(***************************************************************************)
(* Proofs about LoadBalancers, for all sets of ingresses and load          *)
(* balancers: type correctness; that two load balancers of one name come   *)
(* of nothing but two goroutines that both found none; that nothing of an  *)
(* ingress is left where it does not ask for it; and that an ingress is    *)
(* served where it asks.                                                   *)
(***************************************************************************)
EXTENDS LoadBalancers, FiniteSetTheorems, SequenceTheorems, TLAPS

Events == [key : Ingresses, old : Ingress, new : Ingress]
RunsOK == run \in [Processes -> Run] /\ \A p \in Processes : RunOK(run[p])
LbsOK  == DOMAIN lbs \subseteq Balancers /\ lbs \in [DOMAIN lbs -> Balancer]
RestOK ==
    /\ store \in [Ingresses -> Ingress]
    /\ queue \in Seq(Events)
    /\ todo \in SUBSET (Ingresses \X Ingress)
    /\ made \in [Ingresses -> Nat]
    /\ mishap \in SUBSET Reasons
    /\ spent \in [Kinds -> Nat]

Typed == RunsOK /\ LbsOK /\ RestOK

\* The parts of type correctness that are shown one by one.
LEMMA Parted == TypeOK <=> Typed
BY DEF TypeOK, Typed, RunsOK, LbsOK, RestOK, Events

-----------------------------------------------------------------------------
\* The informer's list is a queue of creates.
LEMMA ListedQueues ==
    ASSUME NEW stored \in [Ingresses -> Ingress], NEW q \in Listed(stored)
    PROVE  q \in Seq(Events)
<1> DEFINE is == {i \in Ingresses : stored[i] # Absent}
           orders == {order \in [1 .. Cardinality(is) -> is] :
                         \A i \in is : \E j \in DOMAIN order : order[j] = i}
<1>1. PICK order \in orders : q = [j \in DOMAIN order |-> Event(order[j], Absent, stored[order[j]])]
    BY DEF Listed
<1>2. Cardinality(is) \in Nat
    BY IngressesAssumption, FS_Subset, FS_CardinalityType
<1>3. order \in [1 .. Cardinality(is) -> Ingresses]
    OBVIOUS
<1>4. \A j \in 1 .. Cardinality(is) : Event(order[j], Absent, stored[order[j]]) \in Events
    BY <1>3 DEF Event, Ingress, Events
<1> HIDE DEF is
<1>5. q \in [1 .. Cardinality(is) -> Events]
    BY <1>1, <1>3, <1>4
<1> QED
    BY <1>2, <1>5

\* Where the goroutines start, and return to.
LEMMA IdleOK == Idle \in Run /\ RunOK(Idle) /\ Idle.call = "idle"
BY DEF Idle, Calls, Run, RunOK, Busy

\* The other points between two ensured ingresses.
LEMMA BetweenOK ==
    ASSUME NEW call \in {"idle", "list", "next"}
    PROVE  [Idle EXCEPT !.call = call] \in Run /\ RunOK([Idle EXCEPT !.call = call])
<1> DEFINE r == [Idle EXCEPT !.call = call]
<1>1. r \in Run /\ r.call = call
    BY IdleOK DEF Run, Calls
<1> HIDE DEF r
<1>2. RunOK(r)
    BY <1>1 DEF RunOK, Busy
<1> QED
    BY <1>1, <1>2 DEF r

\* Where ensureIngress and deleteIngress return to.
LEMMA ReturnOK ==
    ASSUME NEW p \in Processes
    PROVE  Return(p) \in Run /\ RunOK(Return(p)) /\ Return(p).call \in {"idle", "next"}
BY IdleOK, BetweenOK DEF Return, Idle

\* What ensureIngress and deleteIngress start with.
LEMMA BeginOK ==
    ASSUME NEW i \in Ingresses, NEW ask \in Ingress
    PROVE  /\ Ensuring(i, ask) \in Run /\ RunOK(Ensuring(i, ask))
           /\ Deleting(i, ask) \in Run /\ RunOK(Deleting(i, ask))
           /\ Ensuring(i, ask).call = "find" /\ Deleting(i, ask).call = "find"
<1>1. <<"pool", "policy">> \in Seq(Parts) /\ <<"policy", "pool">> \in Seq(Parts)
    BY DEF Parts
<1>2. <<"pool", "policy">> # <<>> /\ <<"policy", "pool">> # <<>>
    OBVIOUS
<1> DEFINE pp == <<"pool", "policy">>
           pq == <<"policy", "pool">>
<1>3. Ensuring(i, ask) = [Idle EXCEPT !.call = "find", !.key = i, !.ask = ask, !.parts = pp]
    BY DEF Ensuring
<1>4. Deleting(i, ask) =
        [Idle EXCEPT !.call = "find", !.key = i, !.ask = ask, !.deletes = TRUE, !.parts = pq]
    BY DEF Deleting
<1>5. pp \in Seq(Parts) /\ pq \in Seq(Parts) /\ pp # <<>> /\ pq # <<>>
    BY <1>1, <1>2
<1> HIDE DEF pp, pq
<1>6. Ensuring(i, ask) \in Run /\ RunOK(Ensuring(i, ask)) /\ Ensuring(i, ask).call = "find"
    BY <1>3, <1>5, IdleOK DEF Run, RunOK, Busy, Calls
<1>7. Deleting(i, ask) \in Run /\ RunOK(Deleting(i, ask)) /\ Deleting(i, ask).call = "find"
    BY <1>4, <1>5, IdleOK DEF Run, RunOK, Busy, Calls
<1> QED
    BY <1>6, <1>7

\* A step of one goroutine leaves the other where it is.
LEMMA GotoOK ==
    ASSUME RunsOK, NEW p \in Processes, NEW r \in Run, RunOK(r), Goto(p, r)
    PROVE  RunsOK'
<1>1. run' = [run EXCEPT ![p] = r]
    BY DEF Goto
<1>2. run' \in [Processes -> Run]
    BY <1>1 DEF RunsOK
<1>3. \A q \in Processes : run'[q] = r \/ run'[q] = run[q]
    BY <1>1 DEF RunsOK
<1> QED
    BY <1>2, <1>3 DEF RunsOK

\* Only listed reasons are recorded.
LEMMA MarkOK ==
    ASSUME mishap \subseteq Reasons, NEW why \in Reasons, NEW if \in BOOLEAN, Mark(why, if)
    PROVE  mishap' \subseteq Reasons
BY DEF Mark

\* The counters of outside events stay numbers.
LEMMA SpendOK ==
    ASSUME spent \in [Kinds -> Nat], NEW kind \in Kinds, Spend(kind)
    PROVE  spent' \in [Kinds -> Nat]
BY DEF Spend

\* A load balancer of an ingress's name is one.
LEMMA CreatedOK ==
    ASSUME LbsOK, made \in [Ingresses -> Nat], NEW i \in Ingresses, Created(i)
    PROVE  /\ LbsOK'
           /\ made' \in [Ingresses -> Nat]
           /\ <<i, made'[i]>> \in Balancers /\ <<i, made'[i]>> # None
<1>1. made' \in [Ingresses -> Nat] /\ made'[i] \in Nat
    BY DEF Created
<1>2. <<i, made'[i]>> \in Balancers /\ <<i, made'[i]>> # None
    BY <1>1, SpecsAssumption DEF Balancers
<1> DEFINE d == DOMAIN lbs \cup {<<i, made'[i]>>}
           new == [name |-> i, status |-> "CREATING", serves |-> {}]
<1>3. new \in Balancer
    BY DEF Balancer
<1>4. lbs' = [b \in d |-> IF b \in DOMAIN lbs THEN lbs[b] ELSE new]
    BY DEF Created
<1>5. d \subseteq Balancers
    BY <1>2 DEF LbsOK
<1> HIDE DEF d, new
<1>6. lbs' \in [d -> Balancer] /\ DOMAIN lbs' = d
    BY <1>3, <1>4 DEF LbsOK
<1> QED
    BY <1>1, <1>2, <1>5, <1>6 DEF LbsOK

\* What is left of a sequence of several.
LEMMA TailOK ==
    ASSUME NEW S, NEW s \in Seq(S), s # <<>>, Len(s) # 1
    PROVE  Tail(s) \in Seq(S) /\ Tail(s) # <<>>
<1>1. Tail(s) \in Seq(S) /\ Len(Tail(s)) = Len(s) - 1
    BY HeadTailProperties
<1>2. Len(s) \in Nat /\ Len(s) # 0
    BY EmptySeq, LenProperties
<1>3. \A t : Len(t) # 0 => t # <<>>
    OBVIOUS
<1>4. Len(Tail(s)) # 0
    BY <1>1, <1>2
<1> QED
    BY <1>1, <1>3, <1>4

\* What a run goes on with after it wrote a part.
LEMMA FollowingOK ==
    ASSUME RunsOK, NEW p \in Processes, At(p, "write")
    PROVE  /\ Following(p) \in Run /\ RunOK(Following(p)) /\ Following(p).call # "make"
           /\ Awaiting(p) \in Run /\ RunOK(Awaiting(p)) /\ Awaiting(p).call # "make"
<1>0. /\ run[p] \in Run /\ RunOK(run[p]) /\ run[p].call = "write"
      /\ run[p].parts \in Seq(Parts) /\ run[p].parts # <<>>
    BY DEF RunsOK, RunOK, Run, At
<1>3. Awaiting(p) \in Run /\ RunOK(Awaiting(p)) /\ Awaiting(p).call # "make"
  <2> DEFINE t == Tail(run[p].parts)
  <2>1. t \in Seq(Parts)
    BY <1>0, HeadTailProperties
  <2>2. Awaiting(p) = [run[p] EXCEPT !.call = "wait", !.parts = t]
    BY DEF Awaiting
  <2> HIDE DEF t
  <2> QED
    BY <1>0, <2>1, <2>2 DEF Run, RunOK, Busy, Calls
<1>1. CASE Len(run[p].parts) = 1
    BY <1>1, <1>3, ReturnOK DEF Following
<1>2. CASE Len(run[p].parts) # 1
  <2> DEFINE s == run[p].parts
             t == Tail(s)
  <2>1. s \in Seq(Parts) /\ s # <<>> /\ Len(s) # 1
    BY <1>0, <1>2
  <2>2. t \in Seq(Parts) /\ t # <<>>
    <3> HIDE DEF s
    <3> QED BY <2>1, TailOK
  <2>3. Following(p) = [run[p] EXCEPT !.parts = t]
    BY <1>2 DEF Following
  <2> HIDE DEF t
  <2> QED
    BY <1>0, <1>3, <2>2, <2>3 DEF Run, RunOK, Busy
<1> QED
    BY <1>1, <1>2, <1>3

\* What a run goes on with after a write: it waits, or has nothing to wait for.
AfterWrite(p) == IF WaitsAfter(run[p]) THEN Awaiting(p) ELSE Following(p)

-----------------------------------------------------------------------------
(* Each action keeps the types.                                            *)

\* The users and the queue.
LEMMA QueueTypes ==
    ASSUME Typed, (\E i \in Ingresses : Edit(i)) \/ Take
    PROVE  Typed'
<1>0. RunsOK /\ LbsOK /\ RestOK
    BY DEF Typed
<1>1. CASE \E i \in Ingresses : Edit(i)
  <2>1. PICK i \in Ingresses : Edit(i)
    BY <1>1
  <2>2. PICK new \in Ingress \ {store[i]} :
           /\ store' = [store EXCEPT ![i] = new]
           /\ queue' = Append(queue, Event(i, store[i], new))
           /\ Mark("moved", store[i] # Absent /\ new # Absent)
    BY <2>1 DEF Edit
  <2>3. store' \in [Ingresses -> Ingress] /\ Event(i, store[i], new) \in Events
    BY <1>0, <2>2 DEF RestOK, Event, Events
  <2>4. queue' \in Seq(Events)
    BY <1>0, <2>2, <2>3, AppendProperties DEF RestOK
  <2>5. mishap' \in SUBSET Reasons
    BY <1>0, <2>2, MarkOK DEF RestOK, Reasons
  <2>6. spent' \in [Kinds -> Nat]
    BY <1>0, <2>1, SpendOK DEF Edit, RestOK, Kinds
  <2>7. UNCHANGED <<run, todo, lbs, made>>
    BY <2>1 DEF Edit
  <2> QED
    BY <1>0, <2>3, <2>4, <2>5, <2>6, <2>7 DEF Typed, RunsOK, LbsOK, RestOK
<1>2. CASE Take
  <2> DEFINE e == Head(queue)
             r == IF e.new = Absent THEN Deleting(e.key, e.old) ELSE Ensuring(e.key, e.new)
  <2>1. e \in Events /\ queue' \in Seq(Events)
    BY <1>0, <1>2, HeadTailProperties DEF Take, RestOK
  <2>2. r \in Run /\ RunOK(r)
    BY <2>1, BeginOK DEF Events
  <2>3. Goto(Worker, r)
    BY <1>2 DEF Take
  <2> HIDE DEF e, r
  <2>4. RunsOK'
    BY <1>0, <2>2, <2>3, GotoOK DEF Processes
  <2>5. UNCHANGED <<store, todo, lbs, made, mishap, spent>>
    BY <1>2 DEF Take
  <2> QED
    BY <1>0, <2>1, <2>4, <2>5 DEF Typed, LbsOK, RestOK
<1> QED
    BY <1>1, <1>2

\* ensureLoadBalancer and WaitForLBActive.
LEMMA FindTypes ==
    ASSUME Typed, NEW p \in Processes,
           Find(p) \/ FindNothing(p) \/ CreateLB(p) \/ WaitForLBActive(p)
    PROVE  Typed'
<1>0. RunsOK /\ LbsOK /\ RestOK /\ run[p] \in Run /\ RunOK(run[p])
    BY DEF Typed, RunsOK
<1>1. CASE Find(p)
  <2>1. PICK b \in Found(run[p]) : Goto(p, [run[p] EXCEPT !.call = "wait", !.lb = b])
    BY <1>1 DEF Find
  <2>2. b \in Balancers /\ b # None
    BY <1>0, SpecsAssumption DEF Found, Named, LbsOK
  <2> DEFINE r == [run[p] EXCEPT !.call = "wait", !.lb = b]
  <2>3. run[p].call = "find"
    BY <1>1 DEF Find, At
  <2>4. r \in Run /\ RunOK(r)
    BY <1>0, <2>2, <2>3 DEF Run, RunOK, Busy, Calls
  <2> HIDE DEF r
  <2>5. RunsOK'
    BY <1>0, <2>1, <2>4, GotoOK DEF r
  <2> QED
    BY <1>0, <1>1, <2>5 DEF Typed, Find, LbsOK, RestOK
<1>2. CASE FindNothing(p)
  <2> DEFINE r == [run[p] EXCEPT !.call = "make"]
  <2>1. run[p].call = "find" /\ Goto(p, r)
    BY <1>2 DEF FindNothing, At
  <2>2. r \in Run /\ RunOK(r)
    BY <1>0, <2>1 DEF Run, RunOK, Busy, Calls
  <2> HIDE DEF r
  <2>3. RunsOK'
    BY <1>0, <2>1, <2>2, GotoOK
  <2>4. mishap' \in SUBSET Reasons
    BY <1>0, <1>2, MarkOK DEF FindNothing, RestOK, Reasons
  <2> QED
    BY <1>0, <1>2, <2>3, <2>4 DEF Typed, FindNothing, LbsOK, RestOK
<1>3. CASE CreateLB(p)
  <2> DEFINE b == <<run[p].key, made'[run[p].key]>>
             r == [run[p] EXCEPT !.call = "wait", !.lb = b]
  <2>1. run[p].call = "make" /\ run[p].key \in Ingresses /\ Created(run[p].key) /\ Goto(p, r)
    BY <1>0, <1>3 DEF CreateLB, At, RunOK, Busy
  <2>2. LbsOK' /\ made' \in [Ingresses -> Nat] /\ b \in Balancers /\ b # None
    BY <1>0, <2>1, CreatedOK DEF RestOK
  <2> HIDE DEF b
  <2>3. r \in Run /\ RunOK(r)
    BY <1>0, <2>1, <2>2 DEF Run, RunOK, Busy, Calls
  <2> HIDE DEF r
  <2>4. RunsOK'
    BY <1>0, <2>1, <2>3, GotoOK
  <2> QED
    BY <1>0, <1>3, <2>2, <2>4 DEF Typed, CreateLB, RestOK
<1>4. CASE WaitForLBActive(p)
  <2> DEFINE r == IF run[p].parts = <<>> THEN Return(p) ELSE [run[p] EXCEPT !.call = "write"]
  <2>1. run[p].call = "wait" /\ Goto(p, r)
    BY <1>4 DEF WaitForLBActive, At
  <2>2. r \in Run /\ RunOK(r)
    <3>1. CASE run[p].parts = <<>>
      BY <3>1, ReturnOK
    <3>2. CASE run[p].parts # <<>>
      BY <1>0, <2>1, <3>2 DEF Run, RunOK, Busy, Calls
    <3> QED
      BY <3>1, <3>2
  <2> HIDE DEF r
  <2>3. RunsOK'
    BY <1>0, <2>1, <2>2, GotoOK
  <2> QED
    BY <1>0, <1>4, <2>3 DEF Typed, WaitForLBActive, LbsOK, RestOK
<1> QED
    BY <1>1, <1>2, <1>3, <1>4

\* The writes of one goroutine.
LEMMA WriteTypes ==
    ASSUME Typed, NEW p \in Processes, Write(p)
    PROVE  Typed'
<1>0. RunsOK /\ LbsOK /\ RestOK /\ run[p] \in Run /\ RunOK(run[p]) /\ run[p].call = "write"
    BY DEF Typed, RunsOK, Write, At
<1> DEFINE b == run[p].lb
           after == After(run[p])
           status == IF Changes(run[p]) THEN "PENDING" ELSE lbs[b].status
<1>1. b \in DOMAIN lbs /\ lbs[b] \in Balancer /\ run[p].key \in Ingresses
        /\ Head(run[p].parts) \in Parts
    BY <1>0, HeadTailProperties DEF Write, Possible, LbsOK, RunOK, Busy, Run
<1>2. after \in SUBSET (Ingresses \X Parts)
    BY <1>1 DEF After, Balancer
<1>3. status \in {"CREATING", "PENDING", "ACTIVE", "ERROR"}
    BY <1>1 DEF Balancer
<1>4. lbs' = [lbs EXCEPT ![b].serves = after, ![b].status = status]
    BY DEF Write, Written
<1> HIDE DEF b, after, status
<1>5. LbsOK'
  <2>1. [lbs[b] EXCEPT !.serves = after, !.status = status] \in Balancer
    BY <1>1, <1>2, <1>3 DEF Balancer
  <2>2. lbs' = [lbs EXCEPT ![b] = [lbs[b] EXCEPT !.serves = after, !.status = status]]
    BY <1>0, <1>1, <1>4 DEF LbsOK
  <2> QED
    BY <1>0, <1>1, <2>1, <2>2 DEF LbsOK
<1>6. RunsOK'
  <2>1. AfterWrite(p) \in Run /\ RunOK(AfterWrite(p)) /\ Goto(p, AfterWrite(p))
    BY <1>0, FollowingOK DEF AfterWrite, Write, Written, At
  <2> QED
    BY <1>0, <2>1, GotoOK
<1>7. Outdated(p) \in BOOLEAN
    BY DEF Outdated
<1>8. mishap' \in SUBSET Reasons
    BY <1>0, <1>7, MarkOK DEF Write, Written, RestOK, Reasons
<1> QED
    BY <1>0, <1>5, <1>6, <1>8 DEF Typed, Write, RestOK

\* ensureIngress and deleteIngress return an error.
LEMMA FailTypes ==
    ASSUME RunsOK, RestOK, NEW p \in Processes, Fail(p)
    PROVE  /\ RunsOK'
           /\ mishap' \in SUBSET Reasons
           /\ UNCHANGED <<store, queue, todo>>
<1>1. RunsOK'
    BY ReturnOK, GotoOK DEF Fail
<1>2. mishap' \in SUBSET Reasons
    BY DEF Fail, RestOK, Reasons
<1> QED
    BY <1>1, <1>2 DEF Fail

\* The failures of one goroutine.
LEMMA FailuresTypes ==
    ASSUME Typed, NEW p \in Processes,
           Refused(p) \/ CallFails(p) \/ CreateFails(p) \/ DeleteFails(p)
    PROVE  Typed'
<1>0. RunsOK /\ LbsOK /\ RestOK /\ RunOK(run[p])
    BY DEF Typed, RunsOK
<1>1. CASE Refused(p)
    BY <1>0, <1>1, FailTypes DEF Refused, Typed, LbsOK, RestOK
<1>2. CASE CallFails(p)
  <2>1. spent' \in [Kinds -> Nat]
    BY <1>0, <1>2, SpendOK DEF CallFails, RestOK, Kinds
  <2> QED
    BY <1>0, <1>2, <2>1, FailTypes DEF CallFails, Typed, LbsOK, RestOK
<1>3. CASE CreateFails(p)
  <2>1. spent' \in [Kinds -> Nat]
    BY <1>0, <1>3, SpendOK DEF CreateFails, RestOK, Kinds
  <2>2. run[p].key \in Ingresses
    BY <1>0, <1>3 DEF CreateFails, At, RunOK, Busy
  <2>3. LbsOK' /\ made' \in [Ingresses -> Nat]
    BY <1>0, <1>3, <2>2, CreatedOK DEF CreateFails, LbsOK, RestOK
  <2> QED
    BY <1>0, <1>3, <2>1, <2>3, FailTypes DEF CreateFails, Typed, RestOK
<1>4. CASE DeleteFails(p)
  <2>1. spent' \in [Kinds -> Nat]
    BY <1>0, <1>4, SpendOK DEF DeleteFails, RestOK, Kinds
  <2>2. mishap' \in SUBSET Reasons
    BY <1>0, <1>4, MarkOK DEF DeleteFails, RestOK, Reasons
  <2>3. RunsOK'
    BY <1>0, <1>4, FollowingOK, GotoOK DEF DeleteFails
  <2> QED
    BY <1>0, <1>4, <2>1, <2>2, <2>3 DEF DeleteFails, Typed, LbsOK, RestOK
<1> QED
    BY <1>1, <1>2, <1>3, <1>4

\* A restart, of itself or after GetLB.
LEMMA RestartTypes ==
    ASSUME Typed, Crash \/ \E p \in Processes : GetLBPanics(p)
    PROVE  Typed'
<1>0. RunsOK /\ LbsOK /\ RestOK
    BY DEF Typed
<1>1. Restart
    BY DEF Crash, GetLBPanics
<1>2. RunsOK'
    BY <1>1, IdleOK DEF Restart, RunsOK
<1>3. queue' \in Seq(Events)
    BY <1>0, <1>1, ListedQueues DEF Restart, RestOK
<1>4. mishap' \in SUBSET Reasons /\ todo' = {} /\ UNCHANGED <<store, lbs, made>>
    BY <1>0, <1>1 DEF Restart, RestOK, Reasons
<1>5. spent' \in [Kinds -> Nat]
    BY <1>0, SpendOK DEF Crash, GetLBPanics, RestOK, Kinds
<1> QED
    BY <1>0, <1>2, <1>3, <1>4, <1>5 DEF Typed, LbsOK, RestOK

\* What vLB and its users do.
LEMMA BalancerTypes ==
    ASSUME Typed, NEW b \in DOMAIN lbs, Activate(b) \/ Break(b) \/ Drop(b)
    PROVE  Typed'
<1>0. RunsOK /\ LbsOK /\ RestOK
    BY DEF Typed
<1>1. LbsOK'
  <2>1. CASE Activate(b)
    BY <1>0, <2>1 DEF Activate, LbsOK, Balancer
  <2>2. CASE Break(b)
    BY <1>0, <2>2 DEF Break, LbsOK, Balancer
  <2>3. CASE Drop(b)
    BY <1>0, <2>3 DEF Drop, LbsOK
  <2> QED
    BY <2>1, <2>2, <2>3
<1>2. mishap' \in SUBSET Reasons
    BY <1>0, MarkOK DEF Activate, Break, Drop, RestOK, Reasons
<1>3. spent' \in [Kinds -> Nat]
    BY <1>0, SpendOK DEF Activate, Break, Drop, RestOK, Kinds
<1>4. UNCHANGED <<store, queue, run, todo, made>>
    BY DEF Activate, Break, Drop
<1> QED
    BY <1>0, <1>1, <1>2, <1>3, <1>4 DEF Typed, RunsOK, RestOK

\* nodeSyncLoop.
LEMMA SyncTypes ==
    ASSUME Typed, Tick \/ SyncLoop
    PROVE  Typed'
<1>0. RunsOK /\ LbsOK /\ RestOK /\ Sync \in Processes
    BY DEF Typed, Processes
<1>1. CASE Tick
  <2>1. RunsOK'
    BY <1>0, <1>1, BetweenOK, GotoOK DEF Tick
  <2>2. spent' \in [Kinds -> Nat]
    BY <1>0, <1>1, SpendOK DEF Tick, RestOK, Kinds
  <2> QED
    BY <1>0, <1>1, <2>1, <2>2 DEF Tick, Typed, LbsOK, RestOK
<1>2. CASE ListIngresses
  <2>1. RunsOK'
    BY <1>0, <1>2, BetweenOK, GotoOK DEF ListIngresses
  <2>2. todo' \in SUBSET (Ingresses \X Ingress)
    BY <1>0, <1>2 DEF ListIngresses, RestOK
  <2> QED
    BY <1>0, <1>2, <2>1, <2>2 DEF ListIngresses, Typed, LbsOK, RestOK
<1>3. CASE SyncNext
  <2>1. PICK t \in todo : todo' = todo \ {t} /\ Goto(Sync, Ensuring(t[1], t[2]))
    BY <1>3 DEF SyncNext
  <2>2. t[1] \in Ingresses /\ t[2] \in Ingress
    BY <1>0 DEF RestOK
  <2>3. RunsOK'
    BY <1>0, <2>1, <2>2, BeginOK, GotoOK
  <2> QED
    BY <1>0, <1>3, <2>1, <2>3 DEF SyncNext, Typed, LbsOK, RestOK
<1>4. CASE EndPass
    BY <1>0, <1>4, IdleOK, GotoOK DEF EndPass, Typed, LbsOK, RestOK
<1> QED
    BY <1>1, <1>2, <1>3, <1>4 DEF SyncLoop

-----------------------------------------------------------------------------
\* Type correctness of LoadBalancers: a goroutine never asks for the state of
\* a load balancer, or writes to one, before one was found or made.
THEOREM TypeCorrect == Spec => []TypeOK
<1>1. Init => Typed
  <2> SUFFICES ASSUME Init PROVE Typed
    OBVIOUS
  <2>1. RunsOK
    BY IdleOK DEF Init, RunsOK
  <2>2. LbsOK
    BY DEF Init, LbsOK, Balancers, Balancer
  <2>3. store \in [Ingresses -> Ingress]
    BY StoresAssumption DEF Init
  <2>4. queue \in Seq(Events)
    BY <2>3, ListedQueues DEF Init
  <2> QED
    BY <2>1, <2>2, <2>3, <2>4 DEF Init, Typed, RestOK
<1>2. Typed /\ [Next]_vars => Typed'
  <2> SUFFICES ASSUME Typed, [Next]_vars PROVE Typed'
    OBVIOUS
  <2>1. CASE UNCHANGED vars
    BY <2>1 DEF vars, Typed, RunsOK, LbsOK, RestOK
  <2>2. CASE Next
    BY <2>2, QueueTypes, FindTypes, WriteTypes, FailuresTypes, RestartTypes,
       BalancerTypes, SyncTypes DEF Next, Call
  <2> QED
    BY <2>1, <2>2
<1> QED
    BY <1>1, <1>2, Parted, PTL DEF Spec

-----------------------------------------------------------------------------
(* One load balancer of a name.                                            *)

Single == \A i \in Ingresses : \A b, c \in Named(i) : b = c

\* A goroutine about to create one found none, none has been created since,
\* and the other goroutine is not about to create one of the same name.
Alone ==
    /\ \A p \in Processes : At(p, "make") => Named(run[p].key) = {}
    /\ \A p, q \in Processes :
         At(p, "make") /\ At(q, "make") /\ run[p].key = run[q].key => p = q

OneInv == "raced" \notin mishap => Single /\ Alone

NoNewNames == \A b \in DOMAIN lbs' : b \in DOMAIN lbs /\ lbs'[b].name = lbs[b].name

\* Nobody is about to create a load balancer who was not before.
NobodyNew ==
    \A p \in Processes :
        run'[p].call = "make" => run[p].call = "make" /\ run'[p].key = run[p].key

StillRaced == "raced" \in mishap => "raced" \in mishap'

\* Most steps create nothing and do not prepare it.
LEMMA CalmStep ==
    ASSUME OneInv, NoNewNames, NobodyNew, StillRaced
    PROVE  OneInv'
<1> SUFFICES ASSUME "raced" \notin mishap' PROVE Single' /\ Alone'
    BY DEF OneInv
<1>1. Single /\ Alone
    BY DEF OneInv, StillRaced
<1>2. \A i : Named(i)' \subseteq Named(i)
    BY DEF NoNewNames, Named
<1>3. Single'
    BY <1>1, <1>2 DEF Single
<1>4. Alone'
    BY <1>1, <1>2 DEF Alone, NobodyNew, At
<1> QED
    BY <1>3, <1>4

\* vLB and its users change no names.
LEMMA BalancerNames ==
    ASSUME LbsOK, NEW b \in DOMAIN lbs, Activate(b) \/ Break(b) \/ Drop(b)
    PROVE  NoNewNames /\ run' = run
<1>1. CASE Activate(b) \/ Break(b)
  <2>1. PICK status : lbs' = [lbs EXCEPT ![b].status = status]
    BY <1>1 DEF Activate, Break
  <2>2. \A c \in DOMAIN lbs : lbs'[c].name = lbs[c].name
    BY <2>1 DEF LbsOK, Balancer
  <2> QED
    BY <1>1, <2>1, <2>2 DEF NoNewNames, Activate, Break
<1>2. CASE Drop(b)
    BY <1>2 DEF Drop, NoNewNames
<1> QED
    BY <1>1, <1>2

\* A step of one goroutine that does not prepare a creation.
LEMMA GotoElsewhere ==
    ASSUME RunsOK, NEW p \in Processes, NEW r, Goto(p, r), r.call # "make"
    PROVE  NobodyNew
<1>1. \A q \in Processes : run'[q] = IF q = p THEN r ELSE run[q]
    BY DEF Goto, RunsOK
<1> QED
    BY <1>1 DEF NobodyNew

\* A goroutine that found none is about to create one.
LEMMA FindNothingOne ==
    ASSUME Typed, OneInv, NEW p \in Processes, FindNothing(p)
    PROVE  OneInv'
<1> SUFFICES ASSUME "raced" \notin mishap' PROVE Single' /\ Alone'
    BY DEF OneInv
<1> DEFINE r == [run[p] EXCEPT !.call = "make"]
<1>1. Single /\ Alone
    BY DEF OneInv, FindNothing, Mark
<1>2. ~ \E q \in Processes \ {p} : At(q, "make") /\ run[q].key = run[p].key
    BY DEF FindNothing, Mark
<1>3. Named(run[p].key) = {} /\ lbs' = lbs /\ Goto(p, r)
    BY DEF FindNothing, Found
<1>4. run[p] \in Run
    BY DEF Typed, RunsOK
<1>5. r.call = "make" /\ r.key = run[p].key
    BY <1>4 DEF Run
<1> HIDE DEF r
<1>6. \A q \in Processes : run'[q] = IF q = p THEN r ELSE run[q]
    BY <1>3 DEF Goto, Typed, RunsOK
<1>7. \A i : Named(i)' = Named(i)
    BY <1>3 DEF Named
<1>8. Single'
    BY <1>1, <1>7 DEF Single
<1>9. Alone'
    BY <1>1, <1>2, <1>3, <1>5, <1>6, <1>7 DEF Alone, At
<1> QED
    BY <1>8, <1>9

\* A goroutine creates one and goes on.
LEMMA CreatedOne ==
    ASSUME Typed, OneInv, StillRaced, NEW p \in Processes, At(p, "make"),
           Created(run[p].key), NEW r, Goto(p, r), r.call # "make"
    PROVE  OneInv'
<1> SUFFICES ASSUME "raced" \notin mishap' PROVE Single' /\ Alone'
    BY DEF OneInv
<1> DEFINE i == run[p].key
           new == <<i, made'[i]>>
<1>1. Single /\ Alone
    BY DEF OneInv, StillRaced
<1>2. Named(i) = {}
    BY <1>1 DEF Alone
<1>3. \A q \in Processes : run'[q] = IF q = p THEN r ELSE run[q]
    BY DEF Goto, Typed, RunsOK
<1>4. lbs' = [b \in DOMAIN lbs \cup {new} |->
                IF b \in DOMAIN lbs THEN lbs[b] ELSE [name |-> i, status |-> "CREATING", serves |-> {}]]
    BY DEF Created
<1> HIDE DEF i, new
<1>5. \A j : Named(j)' \subseteq Named(j) \cup {new}
    BY <1>4 DEF Named
<1>6. \A j : j # i => Named(j)' \subseteq Named(j)
    BY <1>4 DEF Named
<1>7. Single'
    BY <1>1, <1>2, <1>5, <1>6 DEF Single
<1>8. \A q \in Processes : run'[q].call = "make" => run'[q] = run[q] /\ q # p
    BY <1>3
<1>9. \A q \in Processes : run'[q].call = "make" => run[q].key # i
    BY <1>1, <1>8 DEF Alone, At, i
<1>10. Alone'
    BY <1>1, <1>6, <1>8, <1>9 DEF Alone, At
<1> QED
    BY <1>7, <1>10

\* The invariant: every step keeps it.
LEMMA OneBalancers == Spec => []OneInv
<1>1. Init => OneInv
  <2> SUFFICES ASSUME Init PROVE Single /\ Alone
    BY DEF OneInv
  <2>1. \A i \in Ingresses : Named(i) = {}
    BY SpecsAssumption DEF Init, Named
  <2>2. \A p \in Processes : run[p].call = "idle"
    BY IdleOK DEF Init
  <2> QED
    BY <2>1, <2>2 DEF Single, Alone, At
<1>2. TypeOK /\ OneInv /\ [Next]_vars => OneInv'
  <2> SUFFICES ASSUME Typed, OneInv, [Next]_vars PROVE OneInv'
    BY Parted
  <2>0. RunsOK
    BY DEF Typed
  <2>1. CASE UNCHANGED vars
    BY <2>1, CalmStep DEF vars, NoNewNames, NobodyNew, StillRaced
  <2>2. CASE \E i \in Ingresses : Edit(i)
    BY <2>2, CalmStep DEF Edit, Mark, NoNewNames, NobodyNew, StillRaced
  <2>3. CASE Take
    <3> DEFINE e == Head(queue)
               r == IF e.new = Absent THEN Deleting(e.key, e.old) ELSE Ensuring(e.key, e.new)
    <3>1. e \in Events
      BY <2>3, HeadTailProperties DEF Take, Typed, RestOK
    <3>2. Goto(Worker, r) /\ r.call = "find" /\ Worker \in Processes
      BY <2>3, <3>1, BeginOK DEF Take, Events, Processes
    <3> HIDE DEF r
    <3> QED
      BY <2>0, <2>3, <3>2, GotoElsewhere, CalmStep DEF Take, NoNewNames, StillRaced
  <2>4. CASE Tick \/ SyncLoop
    <3>1. PICK r : Goto(Sync, r) /\ r.call # "make"
      <4>1. CASE SyncNext
        BY <4>1, BeginOK DEF SyncNext, Typed, RestOK
      <4>2. CASE Tick
        BY <4>2, IdleOK DEF Tick, Run
      <4>3. CASE ListIngresses
        BY <4>3, IdleOK DEF ListIngresses, Run
      <4>4. CASE EndPass
        BY <4>4, IdleOK DEF EndPass
      <4> QED
        BY <2>4, <4>1, <4>2, <4>3, <4>4 DEF SyncLoop
    <3>2. UNCHANGED <<lbs, mishap>> /\ Sync \in Processes
      BY <2>4 DEF Tick, SyncLoop, ListIngresses, SyncNext, EndPass, Processes
    <3> QED
      BY <2>0, <3>1, <3>2, GotoElsewhere, CalmStep DEF NoNewNames, StillRaced
  <2>5. CASE Crash \/ \E p \in Processes : GetLBPanics(p)
    <3>1. Restart
      BY <2>5 DEF Crash, GetLBPanics
    <3> QED
      BY <3>1, IdleOK, CalmStep DEF Restart, NoNewNames, NobodyNew, StillRaced
  <2>6. CASE \E b \in DOMAIN lbs : Activate(b) \/ Break(b) \/ Drop(b)
    <3>0. PICK b \in DOMAIN lbs : Activate(b) \/ Break(b) \/ Drop(b)
      BY <2>6
    <3>1. NoNewNames /\ run' = run
      BY <3>0, BalancerNames DEF Typed
    <3>2. StillRaced
      BY <2>6 DEF Activate, Break, Drop, Mark, StillRaced
    <3> QED
      BY <3>1, <3>2, CalmStep DEF NobodyNew
  <2>7. ASSUME NEW p \in Processes, Find(p) \/ WaitForLBActive(p) PROVE OneInv'
    <3>0. run[p] \in Run
      BY <2>0 DEF RunsOK
    <3>1. PICK r : Goto(p, r) /\ r.call # "make"
      <4>1. CASE Find(p)
        <5>1. PICK b : Goto(p, [run[p] EXCEPT !.call = "wait", !.lb = b])
          BY <4>1 DEF Find
        <5>2. [run[p] EXCEPT !.call = "wait", !.lb = b].call = "wait"
          BY <3>0 DEF Run
        <5> QED
          BY <5>1, <5>2
      <4>2. CASE WaitForLBActive(p)
        <5>1. Goto(p, Return(p)) \/ Goto(p, [run[p] EXCEPT !.call = "write"])
          BY <4>2 DEF WaitForLBActive
        <5>2. [run[p] EXCEPT !.call = "write"].call = "write"
          BY <3>0 DEF Run
        <5> QED
          BY <5>1, <5>2, ReturnOK
      <4> QED
        BY <2>7, <4>1, <4>2
    <3>2. UNCHANGED <<lbs, mishap>>
      BY <2>7 DEF Find, WaitForLBActive
    <3> QED
      BY <2>0, <3>1, <3>2, GotoElsewhere, CalmStep DEF NoNewNames, StillRaced
  <2>8. ASSUME NEW p \in Processes, FindNothing(p) PROVE OneInv'
    BY <2>8, FindNothingOne
  <2>9. ASSUME NEW p \in Processes, CreateLB(p) PROVE OneInv'
    <3> DEFINE r == [run[p] EXCEPT !.call = "wait", !.lb = <<run[p].key, made'[run[p].key]>>]
    <3>1. run[p] \in Run /\ r.call = "wait" /\ Goto(p, r)
      BY <2>0, <2>9 DEF RunsOK, Run, CreateLB
    <3> HIDE DEF r
    <3> QED
      BY <2>9, <3>1, CreatedOne DEF CreateLB, StillRaced
  <2>10. ASSUME NEW p \in Processes, Write(p) PROVE OneInv'
    <3>1. NoNewNames
      BY <2>10 DEF Write, Written, NoNewNames, Typed, LbsOK, Balancer
    <3>2. Goto(p, AfterWrite(p)) /\ StillRaced /\ At(p, "write")
      BY <2>10 DEF Write, Written, AfterWrite, Mark, StillRaced
    <3>3. AfterWrite(p).call # "make"
      BY <2>0, <3>2, FollowingOK DEF AfterWrite
    <3> QED
      BY <2>0, <3>1, <3>2, <3>3, GotoElsewhere, CalmStep
  <2>11. ASSUME NEW p \in Processes, Refused(p) \/ CallFails(p) PROVE OneInv'
    <3>1. Goto(p, Return(p)) /\ UNCHANGED lbs /\ StillRaced
      BY <2>11 DEF Refused, CallFails, Fail, StillRaced
    <3> QED
      BY <2>0, <3>1, ReturnOK, GotoElsewhere, CalmStep DEF NoNewNames
  <2>12. ASSUME NEW p \in Processes, CreateFails(p) PROVE OneInv'
    <3>1. Goto(p, Return(p)) /\ Return(p).call # "make" /\ StillRaced /\ At(p, "make")
      BY <2>12, ReturnOK DEF CreateFails, Fail, StillRaced
    <3>2. CASE Created(run[p].key)
      BY <3>1, <3>2, CreatedOne
    <3>3. CASE UNCHANGED <<lbs, made>>
      BY <2>0, <3>1, <3>3, GotoElsewhere, CalmStep DEF NoNewNames
    <3> QED
      BY <2>12, <3>2, <3>3 DEF CreateFails
  <2>13. ASSUME NEW p \in Processes, DeleteFails(p) PROVE OneInv'
    <3>1. Goto(p, Following(p)) /\ At(p, "write") /\ UNCHANGED lbs /\ StillRaced
      BY <2>13 DEF DeleteFails, Mark, StillRaced
    <3> QED
      BY <2>0, <3>1, FollowingOK, GotoElsewhere, CalmStep DEF NoNewNames
  <2> QED
    BY <2>1, <2>2, <2>3, <2>4, <2>5, <2>6, <2>7, <2>8, <2>9, <2>10, <2>11, <2>12, <2>13
       DEF Next, Call
<1> QED
    BY <1>1, <1>2, TypeCorrect, PTL DEF Spec

\* OneBalancerPerName of LoadBalancers: two load balancers of one name are the
\* work of two goroutines that both found none; no failure, lost answer,
\* restart or deletion leads to a second one.
THEOREM OneBalancer == Spec => []OneBalancerPerName
<1>1. OneInv => OneBalancerPerName
    BY DEF OneInv, Single, OneBalancerPerName
<1> QED
    BY <1>1, OneBalancers, PTL
-----------------------------------------------------------------------------
(* Nothing of an ingress is left where it does not ask for it.             *)

Clean == mishap \subseteq {"lost"}

\* The load balancers an object with this annotation asks for
Asks(ask, i, b) == ask = b \/ (ask = None /\ b \in Named(i))

Deletes(e, i, old) == e.key = i /\ e.old = old /\ e.new = Absent

\* The load balancers of the name of an ingress are the ones made for it.
NamesOK == \A b \in DOMAIN lbs : \A i \in Ingresses : lbs[b].name = i <=> b \in {i} \X Nat

\* Only the worker deletes, the policy before the pool; only an object
\* without annotation gets a new load balancer; and a goroutine that has a load
\* balancer has one its object asks for.
Targeted(p, r) ==
    /\ Busy(r) /\ r.deletes => p = Worker /\ r.parts \in {<<"policy", "pool">>, <<"pool">>, <<>>}
    /\ Busy(r) /\ ~r.deletes /\ p = Worker => r.ask # Absent
    /\ r.call = "make" => r.ask = None
    /\ r.call \in {"wait", "write"} =>
         r.lb = r.ask \/ (r.ask = None /\ r.lb \in {r.key} \X Nat)

Placed == NamesOK /\ \A p \in Processes : Targeted(p, run[p])

\* An object that waits or is being ensured is the stored one, or its deletion
\* waits behind it.
Chained ==
    \A n \in DOMAIN queue : queue[n].new # Absent =>
        \/ store[queue[n].key] = queue[n].new
        \/ \E m \in DOMAIN queue : n < m /\ Deletes(queue[m], queue[n].key, queue[n].new)

RunChained ==
    LET r == run[Worker]
    IN  Busy(r) /\ ~r.deletes =>
            \/ store[r.key] = r.ask
            \/ \E m \in DOMAIN queue : Deletes(queue[m], r.key, r.ask)

\* What will take a part of an ingress off a load balancer it no longer asks
\* for: a deletion that waits, or the one the worker is at.
Waits(i, b) == \E m \in DOMAIN queue :
                  queue[m].key = i /\ queue[m].new = Absent /\ Asks(queue[m].old, i, b)
Undoes(r, i, part, b) ==
    /\ Busy(r) /\ r.deletes /\ r.key = i /\ Asks(r.ask, i, b)
    /\ r.parts = <<"policy", "pool">> \/ (r.parts = <<"pool">> /\ part = "pool")

Covered ==
    \A b \in DOMAIN lbs : \A i \in Ingresses : \A part \in Parts :
        <<i, part>> \in lbs[b].serves =>
            AsksFor(i, b) \/ Waits(i, b) \/ Undoes(run[Worker], i, part, b)

LeftInv == Clean => Chained /\ RunChained /\ Covered

\* Names and load balancers are kept when none is made and no run gets one.
LEMMA NamesKept ==
    ASSUME NamesOK, NoNewNames
    PROVE  NamesOK'
BY DEF NamesOK, NoNewNames

\* A step of one goroutine leaves the load balancer of the other.
LEMMA GotoTargeted ==
    ASSUME RunsOK, \A p \in Processes : Targeted(p, run[p]),
           NEW p \in Processes, NEW r, Goto(p, r), Targeted(p, r)
    PROVE  \A q \in Processes : Targeted(q, run'[q])
<1>1. \A q \in Processes : run'[q] = IF q = p THEN r ELSE run[q]
    BY DEF Goto, RunsOK
<1> QED
    BY <1>1

\* Idle goroutines have none.
LEMMA RestTargeted ==
    ASSUME NEW p, NEW r, r.call \in {"idle", "list", "next"}
    PROVE  Targeted(p, r)
BY DEF Targeted, Busy

\* The runs that begin have none yet, and end where deletions do.
LEMMA BeginTargeted ==
    ASSUME NEW i \in Ingresses, NEW ask \in Ingress
    PROVE  /\ Targeted(Worker, Deleting(i, ask))
           /\ Targeted(Sync, Ensuring(i, ask))
           /\ ask # Absent => Targeted(Worker, Ensuring(i, ask))
           /\ ~Ensuring(i, ask).deletes /\ Deleting(i, ask).deletes
           /\ Ensuring(i, ask).key = i /\ Ensuring(i, ask).ask = ask
           /\ Deleting(i, ask).key = i /\ Deleting(i, ask).ask = ask
           /\ Deleting(i, ask).parts = <<"policy", "pool">>
<1> DEFINE pp == <<"pool", "policy">>
           pq == <<"policy", "pool">>
<1>1. Ensuring(i, ask) = [Idle EXCEPT !.call = "find", !.key = i, !.ask = ask, !.parts = pp]
    BY DEF Ensuring
<1>2. Deleting(i, ask) =
        [Idle EXCEPT !.call = "find", !.key = i, !.ask = ask, !.deletes = TRUE, !.parts = pq]
    BY DEF Deleting
<1> HIDE DEF pp, pq
<1>3. /\ Ensuring(i, ask).call = "find" /\ ~Ensuring(i, ask).deletes
      /\ Ensuring(i, ask).key = i /\ Ensuring(i, ask).ask = ask
    BY <1>1, IdleOK DEF Run, Idle
<1>4. /\ Deleting(i, ask).call = "find" /\ Deleting(i, ask).deletes
      /\ Deleting(i, ask).key = i /\ Deleting(i, ask).ask = ask
      /\ Deleting(i, ask).parts = pq
    BY <1>2, IdleOK DEF Run, Idle
<1> QED
    BY <1>3, <1>4 DEF Targeted, Worker, Sync, pq

\* Where ensureIngress and deleteIngress return to has none.
LEMMA ReturnTargeted ==
    ASSUME NEW p \in Processes
    PROVE  Targeted(p, Return(p)) /\ ~Busy(Return(p))
BY ReturnOK, RestTargeted DEF Busy

\* What a run goes on with after a part, or while it waits: the pool after the
\* policy.
LEMMA FollowingTargeted ==
    ASSUME RunsOK, NEW p \in Processes, At(p, "write"), Targeted(p, run[p]),
           NEW q \in {Following(p), Awaiting(p)}
    PROVE  /\ Targeted(p, q)
           /\ Busy(q) => q.key = run[p].key /\ q.ask = run[p].ask /\ q.deletes = run[p].deletes
           /\ run[p].deletes =>
                \/ run[p].parts = <<"policy", "pool">> /\ Busy(q) /\ q.parts = <<"pool">>
                \/ run[p].parts = <<"pool">> /\ (Busy(q) => q.parts = <<>>)
<1>0. run[p] \in Run /\ run[p].call = "write" /\ Busy(run[p]) /\ run[p].parts # <<>>
    BY DEF RunsOK, RunOK, At, Busy
<1> DEFINE s == run[p].parts
           t == Tail(s)
<1>1. run[p].deletes =>
         \/ s = <<"policy", "pool">> /\ t = <<"pool">> /\ Len(s) # 1
         \/ s = <<"pool">> /\ t = <<>> /\ Len(s) = 1
  <2>1. run[p].deletes => s \in {<<"policy", "pool">>, <<"pool">>}
    BY <1>0 DEF Targeted
  <2>2. /\ Len(<<"pool">>) = 1 /\ Tail(<<"pool">>) = <<>>
        /\ Len(<<"policy", "pool">>) = 2 /\ Tail(<<"policy", "pool">>) = <<"pool">>
    OBVIOUS
  <2>3. CASE s = <<"policy", "pool">>
    <3>1. t = <<"pool">> /\ Len(s) = 2
      BY ONLY <2>2, <2>3
    <3> QED
      BY ONLY <2>3, <3>1
  <2>4. CASE s = <<"pool">>
    <3>1. t = <<>> /\ Len(s) = 1
      BY ONLY <2>2, <2>4
    <3> QED
      BY ONLY <2>4, <3>1
  <2> QED
    BY <2>1, <2>3, <2>4
<1>2. CASE q = Return(p) /\ Len(s) = 1
    BY <1>1, <1>2, ReturnTargeted
<1>3. CASE q = Awaiting(p) \/ (q = [run[p] EXCEPT !.parts = t] /\ Len(s) # 1)
  <2> HIDE DEF t
  <2>1. /\ q.key = run[p].key /\ q.ask = run[p].ask /\ q.deletes = run[p].deletes
        /\ q.lb = run[p].lb /\ q.parts = t /\ q.call \in {"wait", "write"}
    BY <1>0, <1>3 DEF Awaiting, Run, t
  <2>2. Busy(q)
    BY <2>1 DEF Busy
  <2>3. Targeted(p, q)
    BY <1>0, <1>1, <2>1, <2>2 DEF Targeted
  <2> QED
    BY <1>1, <2>1, <2>2, <2>3
<1> QED
    BY <1>2, <1>3 DEF Following

\* One that is made has the name of its ingress.
LEMMA CreatedNames ==
    ASSUME Typed, NamesOK, NEW i \in Ingresses, Created(i)
    PROVE  /\ NamesOK'
           /\ \A b \in DOMAIN lbs : b \in DOMAIN lbs' /\ lbs'[b] = lbs[b]
           /\ \A b \in DOMAIN lbs' : b \in DOMAIN lbs \/ lbs'[b].serves = {}
<1> DEFINE new == <<i, made'[i]>>
<1>1. lbs' = [b \in DOMAIN lbs \cup {new} |->
                IF b \in DOMAIN lbs THEN lbs[b] ELSE [name |-> i, status |-> "CREATING", serves |-> {}]]
    BY DEF Created
<1>2. made'[i] \in Nat
    BY CreatedOK DEF Typed, RestOK
<1>3. \A j \in Ingresses : new \in {j} \X Nat <=> j = i
    BY <1>2
<1> HIDE DEF new
<1>4. NamesOK'
    BY <1>1, <1>3 DEF NamesOK
<1> QED
    BY <1>1, <1>4

\* The steps of one goroutine keep names and load balancers in order.
LEMMA CallPlaced ==
    ASSUME Typed, Placed, NEW p \in Processes,
           \/ Find(p) \/ FindNothing(p) \/ CreateLB(p) \/ WaitForLBActive(p) \/ Write(p)
           \/ Refused(p) \/ CallFails(p) \/ CreateFails(p) \/ DeleteFails(p)
    PROVE  Placed'
<1>0. RunsOK /\ LbsOK /\ NamesOK /\ run[p] \in Run /\ RunOK(run[p]) /\ Targeted(p, run[p])
    BY DEF Typed, Placed, RunsOK
<1> SUFFICES NamesOK' /\ \E r : Goto(p, r) /\ Targeted(p, r)
    BY <1>0, GotoTargeted DEF Placed
<1>1. CASE Find(p)
  <2>1. PICK b \in Found(run[p]) : Goto(p, [run[p] EXCEPT !.call = "wait", !.lb = b])
    BY <1>1 DEF Find
  <2>2. run[p].call = "find" /\ run[p].key \in Ingresses /\ lbs' = lbs
    BY <1>0, <1>1 DEF Find, At, RunOK, Busy
  <2>3. b = run[p].ask \/ (run[p].ask = None /\ b \in {run[p].key} \X Nat)
    BY <1>0, <2>2 DEF Found, Named, NamesOK
  <2> DEFINE r == [run[p] EXCEPT !.call = "wait", !.lb = b]
  <2>4. /\ r.call = "wait" /\ r.lb = b /\ r.key = run[p].key /\ r.ask = run[p].ask
        /\ r.deletes = run[p].deletes /\ r.parts = run[p].parts
    BY <1>0 DEF Run
  <2> HIDE DEF r
  <2>5. Targeted(p, r)
    BY <1>0, <2>2, <2>3, <2>4 DEF Targeted, Busy
  <2> QED
    BY <1>0, <2>1, <2>2, <2>5 DEF r, NamesOK
<1>2. CASE FindNothing(p)
  <2> DEFINE r == [run[p] EXCEPT !.call = "make"]
  <2>1. run[p].call = "find" /\ run[p].ask = None /\ lbs' = lbs /\ Goto(p, r)
    BY <1>2 DEF FindNothing, At
  <2>2. /\ r.call = "make" /\ r.ask = run[p].ask
        /\ r.deletes = run[p].deletes /\ r.parts = run[p].parts
    BY <1>0 DEF Run
  <2> HIDE DEF r
  <2>3. Targeted(p, r)
    BY <1>0, <2>1, <2>2 DEF Targeted, Busy
  <2> QED
    BY <1>0, <2>1, <2>3 DEF NamesOK
<1>3. CASE CreateLB(p)
  <2> DEFINE b == <<run[p].key, made'[run[p].key]>>
             r == [run[p] EXCEPT !.call = "wait", !.lb = b]
  <2>1. run[p].call = "make" /\ run[p].key \in Ingresses /\ Created(run[p].key) /\ Goto(p, r)
    BY <1>0, <1>3 DEF CreateLB, At, RunOK, Busy
  <2>2. b \in {run[p].key} \X Nat
    BY <1>0, <2>1, CreatedOK DEF Typed, RestOK
  <2> HIDE DEF b
  <2>3. /\ r.call = "wait" /\ r.lb = b /\ r.key = run[p].key /\ r.ask = run[p].ask
        /\ r.deletes = run[p].deletes /\ r.parts = run[p].parts
    BY <1>0 DEF Run
  <2> HIDE DEF r
  <2>4. Targeted(p, r)
    BY <1>0, <2>1, <2>2, <2>3 DEF Targeted, Busy
  <2> QED
    BY <1>0, <2>1, <2>4, CreatedNames
<1>4. CASE WaitForLBActive(p)
  <2> DEFINE r == [run[p] EXCEPT !.call = "write"]
  <2>1. run[p].call = "wait" /\ lbs' = lbs /\ (Goto(p, r) \/ Goto(p, Return(p)))
    BY <1>4 DEF WaitForLBActive, At
  <2>2. /\ r.call = "write" /\ r.lb = run[p].lb /\ r.key = run[p].key /\ r.ask = run[p].ask
        /\ r.deletes = run[p].deletes /\ r.parts = run[p].parts
    BY <1>0 DEF Run
  <2> HIDE DEF r
  <2>3. Targeted(p, r)
    BY <1>0, <2>1, <2>2 DEF Targeted, Busy
  <2> QED
    BY <1>0, <2>1, <2>3, ReturnTargeted DEF NamesOK
<1>5. CASE Write(p)
  <2>1. NoNewNames
    BY <1>0, <1>5 DEF Write, Written, NoNewNames, LbsOK, Balancer
  <2> QED
    BY <1>0, <1>5, <2>1, NamesKept, FollowingTargeted DEF Write, Written
<1>6. CASE Refused(p) \/ CallFails(p)
    BY <1>0, <1>6, ReturnTargeted DEF Refused, CallFails, Fail, NamesOK
<1>7. CASE CreateFails(p)
  <2>1. run[p].key \in Ingresses
    BY <1>0, <1>7 DEF CreateFails, At, RunOK, Busy
  <2>2. NamesOK'
    BY <1>0, <1>7, <2>1, CreatedNames DEF CreateFails, NamesOK
  <2> QED
    BY <1>7, <2>2, ReturnTargeted DEF CreateFails, Fail
<1>8. CASE DeleteFails(p)
    BY <1>0, <1>8, FollowingTargeted DEF DeleteFails, NamesOK
<1> QED
    BY <1>1, <1>2, <1>3, <1>4, <1>5, <1>6, <1>7, <1>8

\* So do all others.
LEMMA PlacedStep ==
    ASSUME Typed, Placed, [Next]_vars
    PROVE  Placed'
<1>0. RunsOK /\ LbsOK /\ NamesOK /\ Worker \in Processes /\ Sync \in Processes
        /\ \A p \in Processes : Targeted(p, run[p])
    BY DEF Typed, Placed, Processes
<1>1. CASE UNCHANGED vars \/ \E i \in Ingresses : Edit(i)
    BY <1>1 DEF vars, Edit, Placed, NamesOK
<1>2. CASE Take
  <2> DEFINE e == Head(queue)
             r == IF e.new = Absent THEN Deleting(e.key, e.old) ELSE Ensuring(e.key, e.new)
  <2>1. e \in Events
    BY <1>2, HeadTailProperties DEF Take, Typed, RestOK
  <2>2. Goto(Worker, r) /\ lbs' = lbs
    BY <1>2 DEF Take
  <2>3. Targeted(Worker, r)
    BY <2>1, BeginTargeted DEF Events
  <2> HIDE DEF r
  <2> QED
    BY <1>0, <2>2, <2>3, GotoTargeted DEF Placed, NamesOK
<1>3. CASE Tick \/ SyncLoop
  <2>1. PICK r : Goto(Sync, r) /\ Targeted(Sync, r)
    <3>1. CASE SyncNext
      BY <3>1, BeginTargeted DEF SyncNext, Typed, RestOK
    <3>2. CASE Tick
      BY <3>2, IdleOK, RestTargeted DEF Tick, Run
    <3>3. CASE ListIngresses
      BY <3>3, IdleOK, RestTargeted DEF ListIngresses, Run
    <3>4. CASE EndPass
      BY <3>4, IdleOK, RestTargeted DEF EndPass
    <3> QED
      BY <1>3, <3>1, <3>2, <3>3, <3>4 DEF SyncLoop
  <2>2. lbs' = lbs
    BY <1>3 DEF Tick, SyncLoop, ListIngresses, SyncNext, EndPass
  <2> QED
    BY <1>0, <2>1, <2>2, GotoTargeted DEF Placed, NamesOK
<1>4. CASE Crash \/ \E p \in Processes : GetLBPanics(p)
    BY <1>0, <1>4, IdleOK, RestTargeted DEF Crash, GetLBPanics, Restart, Placed, NamesOK
<1>5. CASE \E b \in DOMAIN lbs : Activate(b) \/ Break(b) \/ Drop(b)
  <2>1. NoNewNames /\ run' = run
    BY <1>0, <1>5, BalancerNames
  <2> QED
    BY <1>0, <2>1, NamesKept DEF Placed
<1> QED
    BY <1>1, <1>2, <1>3, <1>4, <1>5, CallPlaced DEF Next, Call

\* A goroutine goes on with what it was at, a deletion with all of it.
Kept(r, q) ==
    /\ Busy(q) => Busy(r) /\ q.key = r.key /\ q.ask = r.ask /\ q.deletes = r.deletes
    /\ Busy(r) /\ r.deletes /\ r.parts # <<>> => Busy(q) /\ q.parts = r.parts

NothingWritten ==
    \A b \in DOMAIN lbs' :
        \/ lbs'[b].serves = {}
        \/ b \in DOMAIN lbs /\ lbs'[b].serves = lbs[b].serves /\ lbs'[b].name = lbs[b].name

\* Most steps write nothing and give up no deletion, or say so.
LEMMA QuietLeft ==
    ASSUME LeftInv, NothingWritten, Clean' => Clean /\ Kept(run[Worker], run'[Worker]),
           UNCHANGED <<store, queue>>
    PROVE  LeftInv'
<1> SUFFICES ASSUME Clean' PROVE Chained' /\ RunChained' /\ Covered'
    BY DEF LeftInv
<1>1. Chained /\ RunChained /\ Covered /\ Kept(run[Worker], run'[Worker])
    BY DEF LeftInv
<1>2. Chained'
    BY <1>1 DEF Chained, Deletes
<1>3. RunChained'
    BY <1>1 DEF RunChained, Kept, Deletes
<1>4. Covered'
  <2> SUFFICES ASSUME NEW b \in DOMAIN lbs', NEW i \in Ingresses, NEW part \in Parts,
                      <<i, part>> \in lbs'[b].serves
               PROVE  AsksFor(i, b)' \/ Waits(i, b)' \/ Undoes(run[Worker], i, part, b)'
    BY DEF Covered
  <2>1. b \in DOMAIN lbs /\ lbs'[b].serves = lbs[b].serves /\ lbs'[b].name = lbs[b].name
    BY DEF NothingWritten
  <2>2. b \in Named(i) => b \in Named(i)'
    BY <2>1 DEF Named
  <2>3. \A ask : Asks(ask, i, b) => Asks(ask, i, b)'
    BY <2>2 DEF Asks
  <2>4. CASE AsksFor(i, b)
    BY <2>2, <2>4 DEF AsksFor
  <2>5. CASE Waits(i, b)
    BY <2>3, <2>5 DEF Waits
  <2>6. CASE Undoes(run[Worker], i, part, b)
    <3>0. <<"policy", "pool">> # <<>> /\ <<"pool">> # <<>>
      OBVIOUS
    <3>1. run[Worker].parts # <<>>
      BY <2>6, <3>0 DEF Undoes
    <3> QED
      BY <1>1, <2>3, <2>6, <3>1 DEF Undoes, Kept
  <2> QED
    BY <1>1, <2>1, <2>4, <2>5, <2>6 DEF Covered
<1> QED
    BY <1>2, <1>3, <1>4

\* What a step of one goroutine means for the worker.
LEMMA GotoKept ==
    ASSUME RunsOK, NEW p \in Processes, NEW r, Goto(p, r), p = Worker => Kept(run[p], r)
    PROVE  Kept(run[Worker], run'[Worker])
<1>1. \A q \in Processes : run'[q] = IF q = p THEN r ELSE run[q]
    BY DEF Goto, RunsOK
<1>2. Worker \in Processes /\ Kept(run[Worker], run[Worker])
    BY DEF Processes, Kept
<1> QED
    BY <1>1, <1>2

\* Where nothing is written, nothing is.
LEMMA LbsUnwritten ==
    ASSUME lbs' = lbs
    PROVE  NothingWritten
BY DEF NothingWritten

\* An edit creates the object or deletes it.  Its deletion waits then for all
\* that asked for the object.
LEMMA EditLeft ==
    ASSUME Typed, Placed, LeftInv, NEW i \in Ingresses, Edit(i)
    PROVE  LeftInv'
<1> SUFFICES ASSUME Clean' PROVE Chained' /\ RunChained' /\ Covered'
    BY DEF LeftInv
<1>1. PICK new \in Ingress \ {store[i]} :
         /\ store' = [store EXCEPT ![i] = new]
         /\ queue' = Append(queue, Event(i, store[i], new))
         /\ Mark("moved", store[i] # Absent /\ new # Absent)
    BY DEF Edit
<1>2. Clean /\ (store[i] = Absent \/ new = Absent)
    BY <1>1 DEF Mark, Clean
<1>3. Chained /\ RunChained /\ Covered
    BY <1>2 DEF LeftInv
<1> DEFINE e == Event(i, store[i], new)
           l == Len(queue) + 1
<1>4. /\ queue \in Seq(Events) /\ e.key = i /\ e.old = store[i] /\ e.new = new
      /\ e \in Events /\ store \in [Ingresses -> Ingress]
    BY <1>1 DEF Typed, RestOK, Event, Events
<1>5. /\ DOMAIN queue = 1 .. Len(queue) /\ DOMAIN queue' = 1 .. l /\ Len(queue) \in Nat
      /\ queue'[l] = e /\ \A n \in DOMAIN queue : queue'[n] = queue[n]
    <2>1. queue' = Append(queue, e)
        BY <1>1
    <2> HIDE DEF e
    <2> QED BY <1>4, <2>1
<1>6. UNCHANGED <<run, lbs>>
    BY DEF Edit
<1> HIDE DEF e
<1>7. \A j, x : x # Absent /\ (store[j] = x \/ \E m \in DOMAIN queue : Deletes(queue[m], j, x)) /\ j \in Ingresses
          => store'[j] = x \/ \E m \in DOMAIN queue' : Deletes(queue'[m], j, x)
  <2> SUFFICES ASSUME NEW j \in Ingresses, NEW x, x # Absent,
                      store[j] = x \/ \E m \in DOMAIN queue : Deletes(queue[m], j, x)
               PROVE  store'[j] = x \/ \E m \in DOMAIN queue' : Deletes(queue'[m], j, x)
    OBVIOUS
  <2>1. CASE store[j] = x /\ j = i
    <3>1. new = Absent
        BY <1>2, <2>1
    <3>2. Deletes(queue'[l], j, x) /\ l \in DOMAIN queue'
        BY <1>4, <1>5, <2>1, <3>1 DEF Deletes
    <3> QED BY <3>2
  <2>2. CASE store[j] = x /\ j # i
    BY <1>1, <1>4, <2>2
  <2>3. CASE \E m \in DOMAIN queue : Deletes(queue[m], j, x)
    BY <1>5, <2>3
  <2> QED
    BY <2>1, <2>2, <2>3
<1>8. Chained'
  <2> SUFFICES ASSUME NEW n \in DOMAIN queue', queue'[n].new # Absent
               PROVE  \/ store'[queue'[n].key] = queue'[n].new
                      \/ \E m \in DOMAIN queue' : n < m /\ Deletes(queue'[m], queue'[n].key, queue'[n].new)
    BY DEF Chained
  <2>1. CASE n = l
    BY <1>1, <1>4, <1>5, <2>1
  <2>2. CASE n # l
    <3>1. n \in DOMAIN queue /\ queue'[n] = queue[n] /\ n < l
        BY <1>5, <2>2
    <3>0. queue[n] \in Events
        BY <1>4, <3>1
    <3>2. queue[n].key \in Ingresses
        BY <3>0 DEF Events
    <3>3. CASE store[queue[n].key] = queue[n].new /\ queue[n].key = i
      <4>1. new = Absent
        BY <1>2, <2>2, <3>1, <3>3
      <4>2. Deletes(queue'[l], i, queue[n].new) /\ l \in DOMAIN queue'
        BY <1>4, <1>5, <3>3, <4>1 DEF Deletes
      <4> QED BY <3>1, <3>3, <4>2
    <3>4. CASE store[queue[n].key] = queue[n].new /\ queue[n].key # i
      BY <1>1, <1>4, <3>1, <3>2, <3>4
    <3>5. CASE \E m \in DOMAIN queue : n < m /\ Deletes(queue[m], queue[n].key, queue[n].new)
      BY <1>5, <3>1, <3>5
    <3> QED
      BY <1>3, <3>1, <3>3, <3>4, <3>5 DEF Chained
  <2> QED
    BY <2>1, <2>2
<1>9. RunChained'
  <2> SUFFICES ASSUME Busy(run[Worker]), ~run[Worker].deletes
               PROVE  \/ store'[run[Worker].key] = run[Worker].ask
                      \/ \E m \in DOMAIN queue' : Deletes(queue'[m], run[Worker].key, run[Worker].ask)
    BY <1>6 DEF RunChained
  <2>1. run[Worker].key \in Ingresses /\ run[Worker].ask # Absent
    BY DEF Typed, RunsOK, RunOK, Placed, Targeted, Processes
  <2> QED
    BY <1>3, <1>7, <2>1 DEF RunChained
<1>10. Covered'
  <2> SUFFICES ASSUME NEW b \in DOMAIN lbs, NEW j \in Ingresses, NEW part \in Parts,
                      <<j, part>> \in lbs[b].serves
               PROVE  AsksFor(j, b)' \/ Waits(j, b)' \/ Undoes(run[Worker], j, part, b)'
    BY <1>6 DEF Covered
  <2>1. \A ask : Asks(ask, j, b)' <=> Asks(ask, j, b)
    BY <1>6 DEF Asks, Named
  <2>2. CASE AsksFor(j, b) /\ j = i
    <3>1. store[i] # Absent /\ Asks(store[i], i, b)
        BY <2>2, SpecsAssumption DEF AsksFor, Asks, Typed, LbsOK
    <3>2. new = Absent
        BY <1>2, <3>1
    <3> QED
        BY <1>4, <1>5, <2>1, <2>2, <3>1, <3>2 DEF Waits
  <2>3. CASE AsksFor(j, b) /\ j # i
    BY <1>1, <1>4, <1>6, <2>3 DEF AsksFor, Named
  <2>4. CASE Waits(j, b)
    BY <1>5, <2>1, <2>4 DEF Waits
  <2>5. CASE Undoes(run[Worker], j, part, b)
    BY <1>6, <2>1, <2>5 DEF Undoes
  <2> QED
    BY <1>3, <2>2, <2>3, <2>4, <2>5 DEF Covered
<1> QED
    BY <1>8, <1>9, <1>10

\* The worker takes an event: what waited is what it is at.
LEMMA TakeLeft ==
    ASSUME Typed, LeftInv, Take
    PROVE  LeftInv'
<1> SUFFICES ASSUME Clean' PROVE Chained' /\ RunChained' /\ Covered'
    BY DEF LeftInv
<1> DEFINE e == Head(queue)
           r == IF e.new = Absent THEN Deleting(e.key, e.old) ELSE Ensuring(e.key, e.new)
           q == Tail(queue)
<1>1. Chained /\ RunChained /\ Covered
    BY DEF LeftInv, Take, Clean
<1>2. /\ queue \in Seq(Events) /\ queue # <<>> /\ ~Busy(run[Worker])
      /\ queue' = q /\ Goto(Worker, r) /\ UNCHANGED <<store, lbs>>
    BY DEF Typed, RestOK, Take, At, Busy
<1>3. e \in Events /\ q \in Seq(Events) /\ Len(q) = Len(queue) - 1 /\ Len(queue) \in Nat
    BY <1>2, HeadTailProperties, LenProperties
<1>4. e = queue[1] /\ 1 \in DOMAIN queue /\ \A n \in DOMAIN q : q[n] = queue[n + 1]
    BY <1>2, EmptySeq, LenProperties
<1>5. /\ \A n \in DOMAIN q : n + 1 \in DOMAIN queue /\ n \in Nat
      /\ \A n \in DOMAIN queue : n # 1 => n - 1 \in DOMAIN q /\ q[n - 1] = queue[n] /\ n \in Nat /\ n > 1
    BY <1>2, <1>3, <1>4
<1>6. run'[Worker] = r
    BY <1>2 DEF Goto, Typed, RunsOK, Processes
<1>7. /\ e.new = Absent => r.deletes /\ r.key = e.key /\ r.ask = e.old
                           /\ r.parts = <<"policy", "pool">> /\ Busy(r)
      /\ e.new # Absent => ~r.deletes /\ r.key = e.key /\ r.ask = e.new
    BY <1>3, BeginOK, BeginTargeted DEF Events, Busy
<1> HIDE DEF e, r, q
<1>8. Chained'
  <2> SUFFICES ASSUME NEW n \in DOMAIN q, q[n].new # Absent,
                      store[q[n].key] # q[n].new
               PROVE  \E m \in DOMAIN q : n < m /\ Deletes(q[m], q[n].key, q[n].new)
    BY <1>2 DEF Chained
  <2>1. PICK m \in DOMAIN queue : n + 1 < m /\ Deletes(queue[m], q[n].key, q[n].new)
    BY <1>1, <1>4, <1>5 DEF Chained
  <2>2. m - 1 \in DOMAIN q /\ n < m - 1 /\ Deletes(q[m - 1], q[n].key, q[n].new)
    BY <1>5, <2>1
  <2> QED
    BY <2>2
<1>9. RunChained'
  <2> SUFFICES ASSUME e.new # Absent, store[e.key] # e.new
               PROVE  \E m \in DOMAIN q : Deletes(q[m], e.key, e.new)
    BY <1>2, <1>6, <1>7 DEF RunChained
  <2>1. PICK m \in DOMAIN queue : 1 < m /\ Deletes(queue[m], e.key, e.new)
    BY <1>1, <1>4 DEF Chained
  <2>2. m - 1 \in DOMAIN q /\ Deletes(q[m - 1], e.key, e.new)
    BY <1>5, <2>1
  <2> QED
    BY <2>2
<1>10. Covered'
  <2> SUFFICES ASSUME NEW b \in DOMAIN lbs, NEW i \in Ingresses, NEW part \in Parts,
                      <<i, part>> \in lbs[b].serves
               PROVE  AsksFor(i, b)' \/ Waits(i, b)' \/ Undoes(run[Worker], i, part, b)'
    BY <1>2 DEF Covered
  <2>1. \A ask : Asks(ask, i, b)' <=> Asks(ask, i, b)
    BY <1>2 DEF Asks, Named
  <2>2. CASE AsksFor(i, b)
    BY <1>2, <2>2 DEF AsksFor, Named
  <2>3. CASE Waits(i, b)
    <3>1. PICK m \in DOMAIN queue :
             queue[m].key = i /\ queue[m].new = Absent /\ Asks(queue[m].old, i, b)
      BY <2>3 DEF Waits
    <3>2. CASE m = 1
      BY <1>4, <1>6, <1>7, <2>1, <3>1, <3>2 DEF Undoes
    <3>3. CASE m # 1
      <4>1. m - 1 \in DOMAIN q /\ q[m - 1] = queue[m]
        BY <1>5, <3>3
      <4> QED
        BY <1>2, <2>1, <3>1, <4>1 DEF Waits
    <3> QED
      BY <3>2, <3>3
  <2> QED
    BY <1>1, <1>2, <2>2, <2>3 DEF Covered, Undoes
<1> QED
    BY <1>8, <1>9, <1>10

\* The informer lists objects that are stored.
LEMMA ListedStored ==
    ASSUME NEW stored \in [Ingresses -> Ingress], NEW q \in Listed(stored)
    PROVE  \A n \in DOMAIN q : q[n].new = stored[q[n].key] /\ q[n].new # Absent
<1> DEFINE is == {i \in Ingresses : stored[i] # Absent}
           orders == {order \in [1 .. Cardinality(is) -> is] :
                         \A i \in is : \E j \in DOMAIN order : order[j] = i}
<1>1. PICK order \in orders : q = [j \in DOMAIN order |-> Event(order[j], Absent, stored[order[j]])]
    BY DEF Listed
<1>2. \A j \in DOMAIN order : order[j] \in is
    OBVIOUS
<1> QED
    BY <1>1, <1>2 DEF Event

\* A restart at rest finds nothing to cover; any other is recorded.
LEMMA RestartLeft ==
    ASSUME Typed, LeftInv, Restart
    PROVE  LeftInv'
<1> SUFFICES ASSUME Clean' PROVE Chained' /\ RunChained' /\ Covered'
    BY DEF LeftInv
<1>1. Clean /\ Rest
    BY DEF Clean, Restart
<1>2. Covered /\ queue = <<>> /\ ~Busy(run[Worker])
    BY <1>1 DEF LeftInv, Rest, At, Busy, Processes
<1>3. UNCHANGED <<store, lbs>> /\ run'[Worker] = Idle /\ ~Busy(Idle)
    BY IdleOK DEF Restart, Busy, Processes
<1>4. \A n \in DOMAIN queue' : queue'[n].new = store[queue'[n].key]
    BY ListedStored DEF Restart, Typed, RestOK
<1>5. Chained'
    BY <1>3, <1>4 DEF Chained
<1>6. RunChained'
    BY <1>3 DEF RunChained
<1>7. \A i, b : ~Waits(i, b)
    BY <1>2 DEF Waits
<1>8. \A i \in Ingresses : \A b : AsksFor(i, b) => AsksFor(i, b)'
    BY <1>3 DEF AsksFor, Named
<1>9. Covered'
    BY <1>2, <1>3, <1>7, <1>8 DEF Covered, Undoes
<1> QED
    BY <1>5, <1>6, <1>9

\* What a write finds: the load balancer is one the object asks for, and only
\* parts of its ingress change there.
LEMMA WrittenThere ==
    ASSUME Typed, Placed, NEW p \in Processes, Write(p)
    PROVE  /\ Busy(run[p]) /\ run[p].key \in Ingresses /\ Head(run[p].parts) \in Parts
           /\ run[p].lb \in DOMAIN lbs /\ Asks(run[p].ask, run[p].key, run[p].lb)
           /\ DOMAIN lbs' = DOMAIN lbs
           /\ \A b \in DOMAIN lbs : lbs'[b].name = lbs[b].name
           /\ \A b \in DOMAIN lbs : b # run[p].lb => lbs'[b] = lbs[b]
           /\ lbs'[run[p].lb].serves = After(run[p])
<1> DEFINE r == run[p]
<1>1. r \in Run /\ RunOK(r) /\ r.call = "write" /\ Targeted(p, r) /\ r.lb \in DOMAIN lbs
    BY DEF Typed, RunsOK, Placed, Write, At, Possible
<1>2. Busy(r) /\ r.key \in Ingresses /\ Head(r.parts) \in Parts
    BY <1>1, HeadTailProperties DEF RunOK, Busy, Run
<1>3. Asks(r.ask, r.key, r.lb)
    BY <1>1, <1>2 DEF Targeted, Asks, Placed, NamesOK, Named
<1>4. PICK status : lbs' = [lbs EXCEPT ![r.lb].serves = After(r), ![r.lb].status = status]
    BY DEF Write, Written
<1>5. lbs \in [DOMAIN lbs -> Balancer]
    BY DEF Typed, LbsOK
<1> HIDE DEF r
<1>6. /\ DOMAIN lbs' = DOMAIN lbs
      /\ \A b \in DOMAIN lbs : lbs'[b].name = lbs[b].name
      /\ \A b \in DOMAIN lbs : b # r.lb => lbs'[b] = lbs[b]
      /\ lbs'[r.lb].serves = After(r)
    BY <1>1, <1>4, <1>5 DEF Balancer
<1> QED
    BY <1>1, <1>2, <1>3, <1>6 DEF r

\* A write of an object puts its parts where a later deletion will find them,
\* or where they are asked for.
LEMMA WriteLeft ==
    ASSUME Typed, Placed, OneInv, LeftInv, NEW p \in Processes, Write(p)
    PROVE  LeftInv'
<1> SUFFICES ASSUME Clean' PROVE Chained' /\ RunChained' /\ Covered'
    BY DEF LeftInv
<1> DEFINE r == run[p]
           q == AfterWrite(p)
<1>0. /\ RunsOK /\ At(p, "write") /\ Targeted(p, r) /\ UNCHANGED <<store, queue>>
      /\ Goto(p, q) /\ Mark("left", Outdated(p))
    BY DEF Typed, Placed, Write, Written, AfterWrite
<1>1. Clean /\ ~Outdated(p)
    BY <1>0 DEF Clean, Mark
<1>2. Chained /\ RunChained /\ Covered /\ Single
    BY <1>1 DEF LeftInv, OneInv, Clean
<1>3. /\ Busy(r) /\ r.key \in Ingresses /\ Head(r.parts) \in Parts
      /\ r.lb \in DOMAIN lbs /\ Asks(r.ask, r.key, r.lb)
      /\ DOMAIN lbs' = DOMAIN lbs
      /\ \A b \in DOMAIN lbs : lbs'[b].name = lbs[b].name
      /\ \A b \in DOMAIN lbs : b # r.lb => lbs'[b] = lbs[b]
      /\ lbs'[r.lb].serves = After(r)
    BY WrittenThere
<1>4. /\ Busy(q) => q.key = r.key /\ q.ask = r.ask /\ q.deletes = r.deletes
      /\ r.deletes => \/ r.parts = <<"policy", "pool">> /\ Busy(q) /\ q.parts = <<"pool">>
                      \/ r.parts = <<"pool">>
    BY <1>0, FollowingTargeted DEF AfterWrite
<1>5. \A x \in Processes : run'[x] = IF x = p THEN q ELSE run[x]
    BY <1>0 DEF Goto, RunsOK
<1>6. Worker \in Processes /\ \A i \in Ingresses : Named(i)' = Named(i)
    BY <1>3 DEF Processes, Named
<1> HIDE DEF q
<1>7. Chained'
    BY <1>0, <1>2 DEF Chained, Deletes
<1>8. RunChained'
  <2>1. CASE p = Worker
    BY <1>0, <1>2, <1>3, <1>4, <1>5, <2>1 DEF RunChained, Deletes
  <2>2. CASE p # Worker
    BY <1>0, <1>2, <1>5, <1>6, <2>2 DEF RunChained, Deletes
  <2> QED
    BY <2>1, <2>2
<1>9. Covered'
  <2> SUFFICES ASSUME NEW b \in DOMAIN lbs, NEW i \in Ingresses, NEW part \in Parts,
                      <<i, part>> \in lbs'[b].serves
               PROVE  AsksFor(i, b)' \/ Waits(i, b)' \/ Undoes(run[Worker], i, part, b)'
    BY <1>3 DEF Covered
  <2>1. /\ \A ask : Asks(ask, i, b)' <=> Asks(ask, i, b)
        /\ AsksFor(i, b)' <=> AsksFor(i, b)
        /\ Waits(i, b)' <=> Waits(i, b)
    BY <1>0, <1>6 DEF Asks, AsksFor, Waits
  <2>2. CASE ~r.deletes /\ b = r.lb /\ i = r.key
    <3>1. CASE p = Sync
      <4>1. r.ask = store[r.key]
        BY <1>1, <3>1 DEF Outdated
      <4> QED
        BY <1>3, <2>1, <2>2, <4>1 DEF Asks, AsksFor
    <3>2. CASE p = Worker
      <4>1. store[r.key] = r.ask \/ \E m \in DOMAIN queue : Deletes(queue[m], r.key, r.ask)
        BY <1>2, <1>3, <2>2, <3>2 DEF RunChained
      <4> QED
        BY <1>3, <2>1, <2>2, <4>1 DEF Asks, AsksFor, Waits, Deletes
    <3> QED
      BY <3>1, <3>2 DEF Processes
  <2>3. CASE r.deletes /\ b = r.lb /\ i = r.key
    <3>1. p = Worker
      BY <1>0, <1>3, <2>3 DEF Targeted
    <3>2. CASE r.parts = <<"policy", "pool">> /\ Busy(q) /\ q.parts = <<"pool">>
      <4>0. Head(r.parts) = "policy"
        BY <3>2
      <4>1. part # "policy"
        BY <1>3, <2>3, <4>0 DEF After
      <4> QED
        BY <1>3, <1>4, <1>5, <1>6, <2>1, <2>3, <3>1, <3>2, <4>1 DEF Undoes, Parts
    <3>3. CASE r.parts = <<"pool">>
      <4>1. r.parts = <<"pool">> /\ Head(r.parts) = "pool"
        BY <3>3
      <4>2. <<i, "policy">> \in lbs[b].serves
        BY <1>3, <2>3, <4>1 DEF After, Parts
      <4>3. ~Undoes(run[Worker], i, "policy", b)
        BY <3>1, <4>1 DEF Undoes
      <4> QED
        BY <1>2, <2>1, <4>2, <4>3 DEF Covered, Parts
    <3> QED
      BY <1>4, <2>3, <3>2, <3>3
  <2>4. CASE b # r.lb \/ i # r.key
    <3>1. <<i, part>> \in lbs[b].serves
      BY <1>3, <2>4 DEF After
    <3>2. CASE Undoes(run[Worker], i, part, b)
      <4>1. CASE p = Worker
        <5>1. i = r.key /\ r.deletes /\ Asks(r.ask, i, b)
          BY <3>2, <4>1 DEF Undoes
        <5>2. b # None /\ r.lb # None
          BY <1>3, SpecsAssumption DEF Typed, LbsOK
        <5>3. b = r.lb
          BY <1>2, <1>3, <5>1, <5>2 DEF Asks, Single
        <5> QED
          BY <2>4, <5>1, <5>3
      <4>2. CASE p # Worker
        BY <1>5, <1>6, <2>1, <3>2, <4>2 DEF Undoes
      <4> QED
        BY <4>1, <4>2
    <3> QED
      BY <1>2, <2>1, <3>1, <3>2 DEF Covered
  <2> QED
    BY <2>2, <2>3, <2>4
<1> QED
    BY <1>7, <1>8, <1>9

\* The steps that write nothing: a goroutine looks, waits, makes or fails.
LEMMA CallLeft ==
    ASSUME Typed, Placed, LeftInv, NEW p \in Processes,
           \/ Find(p) \/ FindNothing(p) \/ CreateLB(p) \/ WaitForLBActive(p)
           \/ Refused(p) \/ CallFails(p) \/ CreateFails(p) \/ DeleteFails(p)
    PROVE  LeftInv'
<1> DEFINE r == run[p]
<1>0. RunsOK /\ NamesOK /\ r \in Run /\ RunOK(r)
    BY DEF Typed, Placed, RunsOK
<1>1. UNCHANGED <<store, queue>>
    BY DEF Find, FindNothing, CreateLB, WaitForLBActive, Refused, CallFails, CreateFails,
           DeleteFails, Fail
<1>2. NothingWritten
  <2>1. CASE lbs' = lbs
    BY <2>1, LbsUnwritten
  <2>2. CASE Created(r.key) /\ r.key \in Ingresses
    BY <1>0, <2>2, CreatedNames DEF Typed, NothingWritten
  <2>3. (CreateLB(p) \/ CreateFails(p)) => r.key \in Ingresses
    BY <1>0 DEF CreateLB, CreateFails, At, RunOK, Busy
  <2> QED
    BY <2>1, <2>2, <2>3 DEF Find, FindNothing, CreateLB, WaitForLBActive, Refused, CallFails,
                            CreateFails, DeleteFails
<1>3. CASE Find(p) \/ FindNothing(p) \/ CreateLB(p) \/ WaitForLBActive(p)
  <2>1. PICK q : Goto(p, q) /\ Kept(r, q)
    <3>1. CASE Find(p)
      <4>1. PICK b : Goto(p, [r EXCEPT !.call = "wait", !.lb = b])
        BY <3>1 DEF Find
      <4>2. Kept(r, [r EXCEPT !.call = "wait", !.lb = b])
        BY <1>0, <3>1 DEF Find, At, Kept, Busy, Run
      <4> QED
        BY <4>1, <4>2
    <3>2. CASE FindNothing(p)
      <4>1. Kept(r, [r EXCEPT !.call = "make"])
        BY <1>0, <3>2 DEF FindNothing, At, Kept, Busy, Run
      <4> QED
        BY <3>2, <4>1 DEF FindNothing
    <3>3. CASE CreateLB(p)
      <4> DEFINE b == <<r.key, made'[r.key]>>
      <4>1. Goto(p, [r EXCEPT !.call = "wait", !.lb = b])
        BY <3>3 DEF CreateLB
      <4> HIDE DEF b
      <4>2. Kept(r, [r EXCEPT !.call = "wait", !.lb = b])
        BY <1>0, <3>3 DEF CreateLB, At, Kept, Busy, Run
      <4> QED
        BY <4>1, <4>2
    <3>4. CASE WaitForLBActive(p)
      <4>1. Kept(r, [r EXCEPT !.call = "write"])
        BY <1>0, <3>4 DEF WaitForLBActive, At, Kept, Busy, Run
      <4>2. r.parts = <<>> => Kept(r, Return(p))
        BY ReturnTargeted DEF Kept
      <4> QED
        BY <3>4, <4>1, <4>2 DEF WaitForLBActive
    <3> QED
      BY <1>3, <3>1, <3>2, <3>3, <3>4
  <2>2. Clean' => Clean
    BY <1>3 DEF Find, FindNothing, CreateLB, WaitForLBActive, Mark, Clean
  <2> QED
    BY <1>0, <1>1, <1>2, <2>1, <2>2, GotoKept, QuietLeft
<1>4. CASE Refused(p) \/ CallFails(p) \/ CreateFails(p)
  <2>1. Fail(p)
    BY <1>4 DEF Refused, CallFails, CreateFails
  <2>2. Clean' => Clean /\ ~r.deletes
    BY <2>1 DEF Fail, Clean
  <2>3. ~r.deletes => Kept(r, Return(p))
    BY ReturnTargeted DEF Kept
  <2> QED
    BY <1>0, <1>1, <1>2, <2>1, <2>2, <2>3, GotoKept, QuietLeft DEF Fail
<1>5. CASE DeleteFails(p)
    BY <1>5 DEF DeleteFails, Mark, LeftInv, Clean
<1> QED
    BY <1>3, <1>4, <1>5

\* Names and load balancers are always in order.
LEMMA AlwaysPlaced == Spec => []Placed
<1>1. Init => Placed
  <2> SUFFICES ASSUME Init PROVE Placed
    OBVIOUS
  <2>1. \A p \in Processes : run[p] = Idle
    BY DEF Init
  <2>2. NamesOK
    BY SpecsAssumption DEF Init, NamesOK
  <2> QED
    BY <2>1, <2>2, IdleOK, RestTargeted DEF Placed
<1>2. Typed /\ Placed /\ [Next]_vars => Placed'
    BY PlacedStep
<1> QED
    BY <1>1, <1>2, TypeCorrect, Parted, PTL DEF Spec

\* NothingElsewhere of LoadBalancers: at rest a load balancer has nothing of an
\* ingress that is gone or asks for another one, for any number of ingresses,
\* edits, passes and failures, but for what the excuses name.
THEOREM NothingLeftElsewhere == Spec => []NothingElsewhere
<1>1. Init => LeftInv
  <2> SUFFICES ASSUME Init PROVE LeftInv
    OBVIOUS
  <2>1. \A p \in Processes : run[p] = Idle
    BY DEF Init
  <2>2. Chained
    BY StoresAssumption, ListedStored DEF Init, Chained
  <2>3. RunChained
    BY <2>1, IdleOK DEF RunChained, Busy, Processes
  <2>4. Covered
    BY DEF Init, Covered
  <2> QED
    BY <2>2, <2>3, <2>4 DEF LeftInv
<1>2. Spec => []Placed
    BY AlwaysPlaced
<1>3. Typed /\ Placed /\ OneInv /\ LeftInv /\ [Next]_vars => LeftInv'
  <2> SUFFICES ASSUME Typed, Placed, OneInv, LeftInv, [Next]_vars PROVE LeftInv'
    OBVIOUS
  <2>0. Kept(run[Worker], run[Worker]) /\ RunsOK /\ Sync \in Processes /\ Sync # Worker
    BY DEF Kept, Typed, Processes, Sync, Worker
  <2>1. CASE UNCHANGED vars
    BY <2>0, <2>1, LbsUnwritten, QuietLeft DEF vars, Clean
  <2>2. CASE \E i \in Ingresses : Edit(i)
    BY <2>2, EditLeft
  <2>3. CASE Take
    BY <2>3, TakeLeft
  <2>4. CASE Tick \/ SyncLoop
    <3>1. UNCHANGED <<store, queue, lbs, mishap>> /\ \E r : Goto(Sync, r)
      BY <2>4 DEF Tick, SyncLoop, ListIngresses, SyncNext, EndPass
    <3>2. Kept(run[Worker], run'[Worker])
      BY <2>0, <3>1, GotoKept
    <3> QED
      BY <3>1, <3>2, LbsUnwritten, QuietLeft DEF Clean
  <2>5. CASE Crash \/ \E p \in Processes : GetLBPanics(p)
    BY <2>5, RestartLeft DEF Crash, GetLBPanics
  <2>6. CASE \E b \in DOMAIN lbs : Activate(b) \/ Break(b) \/ Drop(b)
    <3>1. PICK b \in DOMAIN lbs : Activate(b) \/ Break(b) \/ Drop(b)
      BY <2>6
    <3>2. NothingWritten
      <4>1. CASE Activate(b) \/ Break(b)
        <5>1. PICK status : lbs' = [lbs EXCEPT ![b].status = status]
          BY <4>1 DEF Activate, Break
        <5> QED
          BY <5>1 DEF NothingWritten, Typed, LbsOK, Balancer
      <4>2. CASE Drop(b)
        BY <4>2 DEF Drop, NothingWritten
      <4> QED
        BY <3>1, <4>1, <4>2
    <3>3. UNCHANGED <<store, queue, run>> /\ (Clean' => Clean)
      BY <3>1 DEF Activate, Break, Drop, Mark, Clean
    <3> QED
      BY <2>0, <3>2, <3>3, QuietLeft
  <2>7. ASSUME NEW p \in Processes, Write(p) PROVE LeftInv'
    BY <2>7, WriteLeft
  <2>8. ASSUME NEW p \in Processes,
               \/ Find(p) \/ FindNothing(p) \/ CreateLB(p) \/ WaitForLBActive(p)
               \/ Refused(p) \/ CallFails(p) \/ CreateFails(p) \/ DeleteFails(p)
        PROVE  LeftInv'
    BY <2>8, CallLeft
  <2> QED
    BY <2>1, <2>2, <2>3, <2>4, <2>5, <2>6, <2>7, <2>8 DEF Next, Call
<1>4. Typed /\ LeftInv => NothingElsewhere
  <2> SUFFICES ASSUME Typed, LeftInv, Rest, mishap \subseteq {"lost"},
                      NEW b \in DOMAIN lbs, NEW s \in lbs[b].serves
               PROVE  AsksFor(s[1], b)
    BY DEF NothingElsewhere
  <2>1. PICK i \in Ingresses, part \in Parts : s = <<i, part>>
    BY DEF Typed, LbsOK, Balancer
  <2>2. Covered /\ queue = <<>> /\ ~Busy(run[Worker])
    BY DEF LeftInv, Clean, Rest, At, Busy, Processes
  <2>3. ~Waits(i, b) /\ ~Undoes(run[Worker], i, part, b)
    BY <2>2 DEF Waits, Undoes
  <2> QED
    BY <2>1, <2>2, <2>3 DEF Covered
<1>5. Spec => []OneInv
    BY OneBalancers
<1> QED
    BY <1>1, <1>2, <1>3, <1>4, <1>5, TypeCorrect, Parted, PTL DEF Spec

-----------------------------------------------------------------------------
(* What an ingress has is where it asks for it.                            *)

Queued(i) == \E n \in DOMAIN queue : queue[n].key = i

\* The last event of an ingress is about what is stored, and so is what the
\* worker is at when no event follows.
Latest ==
    \A n \in DOMAIN queue :
        (\A m \in DOMAIN queue : n < m => queue[m].key # queue[n].key)
            => queue[n].new = store[queue[n].key]

WorksLatest ==
    LET r == run[Worker]
    IN  Busy(r) /\ ~Queued(r.key) => store[r.key] = IF r.deletes THEN Absent ELSE r.ask

\* ensureIngress ends with the policy.
EndsRight(r) == Busy(r) /\ ~r.deletes => r.parts \in {<<"pool", "policy">>, <<"policy">>, <<>>}
PolicyLast == \A p \in Processes : EndsRight(run[p])

ServedSomewhere(i) ==
    \E b \in DOMAIN lbs : AsksFor(i, b) /\ \A part \in Parts : <<i, part>> \in lbs[b].serves

\* The worker is at an ingress with something left to write.
Ahead(r, i) == Busy(r) /\ r.key = i /\ r.parts # <<>>

\* An ingress is served, or its event waits, or the worker is at it.
Provided ==
    "lost" \notin mishap =>
        \A i \in Ingresses : store[i] # Absent =>
            Queued(i) \/ Ahead(run[Worker], i) \/ ServedSomewhere(i)

ServedInv == Latest /\ WorksLatest /\ PolicyLast /\ Provided

\* No load balancer loses its name or a part of an ingress.
Still(i) ==
    \A b \in DOMAIN lbs :
        /\ b \in DOMAIN lbs' /\ lbs'[b].name = lbs[b].name
        /\ \A part \in Parts : <<i, part>> \in lbs[b].serves => <<i, part>> \in lbs'[b].serves

LEMMA StillServed ==
    ASSUME NEW i \in Ingresses, Still(i), store'[i] = store[i], ServedSomewhere(i)
    PROVE  ServedSomewhere(i)'
<1>1. PICK b \in DOMAIN lbs : AsksFor(i, b) /\ \A part \in Parts : <<i, part>> \in lbs[b].serves
    BY DEF ServedSomewhere
<1>2. /\ b \in DOMAIN lbs' /\ AsksFor(i, b)'
      /\ \A part \in Parts : <<i, part>> \in lbs'[b].serves
    BY <1>1 DEF Still, AsksFor, Named
<1> QED
    BY <1>2 DEF ServedSomewhere

\* A goroutine goes on with what it was at or ends it: what it deletes is not
\* stored any more, or an event waits, and what it ensured is there.
LEMMA RunServed ==
    ASSUME Typed, ServedInv, UNCHANGED <<store, queue>>, NEW p \in Processes, NEW q,
           Goto(p, q), EndsRight(q), "lost" \in mishap => "lost" \in mishap',
           Busy(q) => /\ Busy(run[p]) /\ q.key = run[p].key
                      /\ q.ask = run[p].ask /\ q.deletes = run[p].deletes,
           \A i \in Ingresses :
               Still(i) \/ (p = Worker /\ Busy(run[p]) /\ run[p].deletes /\ i = run[p].key),
           \A i \in Ingresses :
               p = Worker /\ Ahead(run[p], i) /\ ~run[p].deletes /\ ~Ahead(q, i) =>
                   "lost" \in mishap' \/ Queued(i) \/ ServedSomewhere(i)'
    PROVE  ServedInv'
<1>1. /\ \A o \in Processes : run'[o] = IF o = p THEN q ELSE run[o]
      /\ Worker \in Processes
    BY DEF Goto, Typed, RunsOK, Processes
<1>2. PolicyLast' /\ Latest' /\ \A i : Queued(i)' <=> Queued(i)
    BY <1>1 DEF ServedInv, PolicyLast, Latest, Queued
<1>3. WorksLatest'
    BY <1>1, <1>2 DEF ServedInv, WorksLatest
<1>4. Provided'
  <2> SUFFICES ASSUME "lost" \notin mishap', NEW i \in Ingresses, store[i] # Absent, ~Queued(i),
                      ~Ahead(run'[Worker], i)
               PROVE  ServedSomewhere(i)'
    BY <1>2 DEF Provided
  <2>0. Busy(run[Worker]) /\ run[Worker].key = i => ~run[Worker].deletes
    BY DEF ServedInv, WorksLatest
  <2>1. CASE Ahead(run[Worker], i)
    <3>1. p = Worker /\ ~Ahead(q, i) /\ ~run[p].deletes
      BY <1>1, <2>0, <2>1 DEF Ahead
    <3> QED
      BY <2>1, <3>1
  <2>2. CASE ~Ahead(run[Worker], i)
    BY <2>0, <2>2, StillServed DEF ServedInv, Provided
  <2> QED
    BY <2>1, <2>2
<1> QED
    BY <1>2, <1>3, <1>4 DEF ServedInv

\* ensureIngress writes the pool, then the policy.
LEMMA EnsuringParts ==
    ASSUME NEW i \in Ingresses, NEW ask \in Ingress
    PROVE  Ensuring(i, ask).parts = <<"pool", "policy">>
<1> DEFINE pp == <<"pool", "policy">>
<1>1. Ensuring(i, ask) = [Idle EXCEPT !.call = "find", !.key = i, !.ask = ask, !.parts = pp]
    BY DEF Ensuring
<1> HIDE DEF pp
<1>2. Ensuring(i, ask).parts = pp
    BY <1>1, IdleOK DEF Run
<1> QED
    BY <1>2 DEF pp

\* Users queue what they store.
LEMMA EditServed ==
    ASSUME Typed, ServedInv, NEW i \in Ingresses, Edit(i)
    PROVE  ServedInv'
<1>1. PICK new \in Ingress \ {store[i]} :
         /\ store' = [store EXCEPT ![i] = new]
         /\ queue' = Append(queue, Event(i, store[i], new))
         /\ Mark("moved", store[i] # Absent /\ new # Absent)
         /\ UNCHANGED <<run, todo, lbs, made>>
    BY DEF Edit
<1> DEFINE e == Event(i, store[i], new)
           l == Len(queue) + 1
<1>2. e.key = i /\ e.new = new /\ store' = [store EXCEPT ![i] = new] /\ queue' = Append(queue, e)
    BY <1>1 DEF Event
<1>3. queue \in Seq(Events) /\ e \in Events /\ store \in [Ingresses -> Ingress]
    BY <1>1 DEF Event, Events, Typed, RestOK
<1> HIDE DEF e
<1>4. /\ DOMAIN queue' = DOMAIN queue \cup {l} /\ queue'[l] = e
      /\ \A n \in DOMAIN queue : queue'[n] = queue[n] /\ n < l /\ n # l
    BY <1>2, <1>3, LenProperties, AppendProperties
<1>5. \A j \in Ingresses : store'[j] = IF j = i THEN new ELSE store[j]
    BY <1>2, <1>3
<1>6. Queued(i)' /\ \A j : Queued(j) => Queued(j)'
    BY <1>2, <1>4 DEF Queued
<1> HIDE DEF l
<1>7. Latest'
  <2> SUFFICES ASSUME NEW n \in DOMAIN queue',
                      \A m \in DOMAIN queue' : n < m => queue'[m].key # queue'[n].key
               PROVE  queue'[n].new = store'[queue'[n].key]
    BY DEF Latest
  <2>1. CASE n = l
    BY <1>2, <1>4, <1>5, <2>1
  <2>2. CASE n # l
    <3>0. n \in DOMAIN queue /\ queue'[n] = queue[n]
      BY <1>4, <2>2
    <3>1. n \in DOMAIN queue /\ queue'[n] = queue[n] /\ queue[n].key \in Ingresses
      <4>1. queue[n] \in Events
        BY <1>3, <3>0
      <4> QED
        BY <3>0, <4>1 DEF Events
    <3>2. queue[n].key # i
      <4>1. l \in DOMAIN queue' /\ n < l /\ queue'[l].key = i
        BY <1>2, <1>4, <3>1
      <4> QED
        BY <3>1, <4>1
    <3> QED
      BY <1>4, <1>5, <3>1, <3>2 DEF ServedInv, Latest
  <2> QED
    BY <2>1, <2>2
<1>8. WorksLatest'
  <2>1. Busy(run[Worker]) => run[Worker].key \in Ingresses
    BY DEF Typed, RunsOK, RunOK, Processes
  <2>2. \A j \in Ingresses : ~Queued(j)' => store'[j] = store[j] /\ ~Queued(j)
    BY <1>5, <1>6
  <2> QED
    BY <1>1, <2>1, <2>2 DEF ServedInv, WorksLatest
<1>9. Provided'
  <2> SUFFICES ASSUME "lost" \notin mishap', NEW j \in Ingresses, store'[j] # Absent, ~Queued(j)',
                      ~Ahead(run[Worker], j)
               PROVE  ServedSomewhere(j)'
    BY <1>1 DEF Provided
  <2>1. store'[j] = store[j] /\ ~Queued(j) /\ "lost" \notin mishap
    BY <1>1, <1>5, <1>6 DEF Mark
  <2>2. ServedSomewhere(j)
    BY <2>1 DEF ServedInv, Provided
  <2>3. Still(j)
    BY <1>1 DEF Still
  <2> QED
    BY <2>1, <2>2, <2>3, StillServed
<1> QED
    BY <1>1, <1>7, <1>8, <1>9 DEF ServedInv, PolicyLast

\* The worker takes up what it is to write, or an event follows.
LEMMA TakeServed ==
    ASSUME Typed, ServedInv, Take
    PROVE  ServedInv'
<1> DEFINE e == Head(queue)
           r == IF e.new = Absent THEN Deleting(e.key, e.old) ELSE Ensuring(e.key, e.new)
           q == Tail(queue)
<1>2. /\ queue \in Seq(Events) /\ queue # <<>> /\ ~Busy(run[Worker])
      /\ queue' = q /\ Goto(Worker, r) /\ UNCHANGED <<store, lbs, mishap>>
    BY DEF Typed, RestOK, Take, At, Busy
<1>3. e \in Events /\ q \in Seq(Events) /\ Len(q) = Len(queue) - 1 /\ Len(queue) \in Nat
    BY <1>2, HeadTailProperties, LenProperties
<1>4. e = queue[1] /\ 1 \in DOMAIN queue /\ \A n \in DOMAIN q : q[n] = queue[n + 1]
    BY <1>2, EmptySeq, LenProperties
<1>5. /\ \A n \in DOMAIN q : n + 1 \in DOMAIN queue /\ n \in Nat
      /\ \A n \in DOMAIN queue : n # 1 => n - 1 \in DOMAIN q /\ q[n - 1] = queue[n] /\ n \in Nat /\ n > 1
    BY <1>2, <1>3, <1>4
<1>6. /\ \A p \in Processes : run'[p] = IF p = Worker THEN r ELSE run[p]
      /\ Worker \in Processes
    BY <1>2 DEF Goto, Typed, RunsOK, Processes
<1>7. /\ e.new = Absent => r.deletes
      /\ e.new # Absent => ~r.deletes /\ r.ask = e.new /\ r.parts = <<"pool", "policy">>
      /\ r.key = e.key /\ Busy(r) /\ EndsRight(r) /\ r.parts # <<>>
  <2>1. e.key \in Ingresses /\ e.old \in Ingress /\ e.new \in Ingress
    BY <1>3 DEF Events
  <2>2. CASE e.new = Absent
    BY <2>1, <2>2, BeginOK, BeginTargeted DEF Busy, EndsRight, RunOK
  <2>3. CASE e.new # Absent
    <3>1. <<"pool", "policy">> # <<>>
      OBVIOUS
    <3>2. r = Ensuring(e.key, e.new)
      BY <2>3
    <3> HIDE DEF r
    <3> QED
      BY <2>1, <2>3, <3>1, <3>2, BeginOK, BeginTargeted, EnsuringParts DEF Busy, EndsRight, RunOK
  <2> QED
    BY <2>2, <2>3
<1> HIDE DEF e, r, q
<1>8. \A i : i # e.key => (Queued(i)' <=> Queued(i))
    BY <1>2, <1>4, <1>5 DEF Queued
<1>9. Latest'
  <2> SUFFICES ASSUME NEW n \in DOMAIN q, \A m \in DOMAIN q : n < m => q[m].key # q[n].key
               PROVE  q[n].new = store[q[n].key]
    BY <1>2 DEF Latest
  <2>1. \A m \in DOMAIN queue : n + 1 < m => queue[m].key # queue[n + 1].key
    <3> SUFFICES ASSUME NEW m \in DOMAIN queue, n + 1 < m PROVE queue[m].key # queue[n + 1].key
      OBVIOUS
    <3>1. m - 1 \in DOMAIN q /\ q[m - 1] = queue[m] /\ n < m - 1
      BY <1>5
    <3> QED
      BY <1>4, <3>1
  <2> QED
    BY <1>4, <1>5, <2>1 DEF ServedInv, Latest
<1>10. WorksLatest'
  <2>1. run'[Worker] = r
    BY <1>6
  <2>2. CASE \E n \in DOMAIN q : q[n].key = e.key
    BY <1>2, <1>7, <2>1, <2>2 DEF WorksLatest, Queued
  <2>3. CASE \A n \in DOMAIN q : q[n].key # e.key
    <3>1. \A m \in DOMAIN queue : 1 < m => queue[m].key # queue[1].key
      <4> SUFFICES ASSUME NEW m \in DOMAIN queue, 1 < m PROVE queue[m].key # queue[1].key
        OBVIOUS
      <4>1. m - 1 \in DOMAIN q /\ q[m - 1] = queue[m]
        BY <1>5
      <4> QED
        BY <1>4, <2>3, <4>1
    <3>2. store[e.key] = e.new
      BY <1>4, <3>1 DEF ServedInv, Latest
    <3> QED
      BY <1>2, <1>7, <2>1, <3>2 DEF WorksLatest
  <2> QED
    BY <2>2, <2>3
<1>11. Provided'
  <2> SUFFICES ASSUME "lost" \notin mishap, NEW i \in Ingresses, store[i] # Absent, ~Queued(i)',
                      i # e.key
               PROVE  ServedSomewhere(i)'
    BY <1>2, <1>6, <1>7 DEF Provided, Ahead
  <2>1. ServedSomewhere(i)
    BY <1>2, <1>8 DEF ServedInv, Provided, Ahead
  <2>2. Still(i)
    BY <1>2 DEF Still
  <2> QED
    BY <1>2, <2>1, <2>2, StillServed
<1> QED
    BY <1>6, <1>7, <1>9, <1>10, <1>11 DEF ServedInv, PolicyLast

\* The informer lists everything that is stored.
LEMMA ListedAll ==
    ASSUME NEW stored \in [Ingresses -> Ingress], NEW q \in Listed(stored),
           NEW i \in Ingresses, stored[i] # Absent
    PROVE  \E n \in DOMAIN q : q[n].key = i
<1> DEFINE is == {j \in Ingresses : stored[j] # Absent}
           orders == {order \in [1 .. Cardinality(is) -> is] :
                         \A j \in is : \E n \in DOMAIN order : order[n] = j}
<1>1. PICK order \in orders : q = [n \in DOMAIN order |-> Event(order[n], Absent, stored[order[n]])]
    BY DEF Listed
<1>2. PICK n \in DOMAIN order : order[n] = i
    OBVIOUS
<1> QED
    BY <1>1, <1>2 DEF Event

\* After a restart all of it waits.
LEMMA RestartServed ==
    ASSUME Typed, Restart
    PROVE  ServedInv'
<1>1. /\ store' = store /\ store \in [Ingresses -> Ingress] /\ queue' \in Listed(store)
      /\ \A p \in Processes : ~Busy(run'[p])
    BY IdleOK DEF Restart, Typed, RestOK, Busy
<1>2. \A n \in DOMAIN queue' : queue'[n].new = store'[queue'[n].key]
    BY <1>1, ListedStored
<1>3. \A i \in Ingresses : store'[i] # Absent => Queued(i)'
    BY <1>1, ListedAll DEF Queued
<1> QED
    BY <1>1, <1>2, <1>3 DEF ServedInv, Latest, WorksLatest, PolicyLast, EndsRight, Provided, Processes

\* What a goroutine goes on with after a part ends with the policy too, and
\* has nothing left to write after the policy only.
LEMMA FollowingRight ==
    ASSUME RunsOK, NEW p \in Processes, At(p, "write"), EndsRight(run[p]),
           NEW q \in {Following(p), Awaiting(p)}
    PROVE  /\ EndsRight(q)
           /\ ~run[p].deletes /\ (Busy(q) => q.parts = <<>>) => Head(run[p].parts) = "policy"
<1> DEFINE s == run[p].parts
           t == Tail(s)
<1>0. run[p] \in Run /\ run[p].call = "write" /\ Busy(run[p]) /\ s # <<>>
    BY DEF RunsOK, RunOK, At, Busy
<1>1. ~run[p].deletes =>
         \/ s = <<"pool", "policy">> /\ t = <<"policy">> /\ Len(s) # 1 /\ t # <<>>
         \/ s = <<"policy">> /\ t = <<>> /\ Len(s) = 1 /\ Head(s) = "policy"
  <2>1. ~run[p].deletes => s \in {<<"pool", "policy">>, <<"policy">>}
    BY <1>0 DEF EndsRight
  <2>2. /\ Len(<<"policy">>) = 1 /\ Tail(<<"policy">>) = <<>> /\ Head(<<"policy">>) = "policy"
        /\ Len(<<"pool", "policy">>) = 2 /\ Tail(<<"pool", "policy">>) = <<"policy">>
        /\ <<"policy">> # <<>>
    OBVIOUS
  <2>3. CASE s = <<"pool", "policy">>
    <3>1. t = <<"policy">> /\ Len(s) = 2
      BY ONLY <2>2, <2>3
    <3> QED
      BY ONLY <2>2, <2>3, <3>1
  <2>4. CASE s = <<"policy">>
    <3>1. t = <<>> /\ Len(s) = 1 /\ Head(s) = "policy"
      BY ONLY <2>2, <2>4
    <3> QED
      BY ONLY <2>4, <3>1
  <2> QED
    BY <2>1, <2>3, <2>4
<1>2. CASE q = Return(p) /\ Len(s) = 1
    BY <1>1, <1>2, ReturnTargeted DEF EndsRight
<1>3. CASE q = Awaiting(p) \/ (q = [run[p] EXCEPT !.parts = t] /\ Len(s) # 1)
  <2> HIDE DEF t
  <2>1. q.deletes = run[p].deletes /\ q.parts = t /\ q.call \in {"wait", "write"}
    BY <1>0, <1>3 DEF Awaiting, Run, t
  <2>2. Busy(q)
    BY <2>1 DEF Busy
  <2> QED
    BY <1>1, <2>1, <2>2 DEF EndsRight
<1> QED
    BY <1>2, <1>3 DEF Following

\* A write adds a part, or is the worker's deletion of one of its ingress; the
\* last part added is a policy, whose pool is there.
LEMMA WriteServed ==
    ASSUME Typed, Placed, ServedInv, NEW p \in Processes, Write(p)
    PROVE  ServedInv'
<1> DEFINE r == run[p]
           q == AfterWrite(p)
<1>0. /\ RunsOK /\ At(p, "write") /\ Targeted(p, r) /\ EndsRight(r)
      /\ UNCHANGED <<store, queue>> /\ Goto(p, q) /\ Mark("left", Outdated(p)) /\ Possible(r)
    BY DEF Typed, Placed, Write, Written, AfterWrite, ServedInv, PolicyLast
<1>1. /\ Busy(r) /\ r.key \in Ingresses /\ Head(r.parts) \in Parts
      /\ r.lb \in DOMAIN lbs /\ Asks(r.ask, r.key, r.lb)
      /\ DOMAIN lbs' = DOMAIN lbs
      /\ \A b \in DOMAIN lbs : lbs'[b].name = lbs[b].name
      /\ \A b \in DOMAIN lbs : b # r.lb => lbs'[b] = lbs[b]
      /\ lbs'[r.lb].serves = After(r)
    BY WrittenThere
<1>2. /\ EndsRight(q)
      /\ ~r.deletes /\ (Busy(q) => q.parts = <<>>) => Head(r.parts) = "policy"
      /\ Busy(q) => q.key = r.key /\ q.ask = r.ask /\ q.deletes = r.deletes
    BY <1>0, FollowingTargeted, FollowingRight DEF AfterWrite
<1>3. "lost" \in mishap => "lost" \in mishap'
    BY <1>0 DEF Mark
<1> DEFINE part == Head(r.parts)
           there == lbs[r.lb].serves
<1>4. /\ ~r.deletes => After(r) = there \cup {<<r.key, part>>}
      /\ r.deletes => there \ {<<r.key, part>>} \subseteq After(r)
    BY DEF After
<1>5. r.deletes => p = Worker
    BY <1>0, <1>1 DEF Targeted
<1> HIDE DEF q, r, part
<1>6. ASSUME NEW i \in Ingresses, ~(r.deletes /\ i = r.key)
      PROVE  Still(i)
    BY <1>1, <1>4, <1>6 DEF Still
<1>7. ASSUME NEW i \in Ingresses, ~r.deletes, i = r.key, p = Worker, ~Ahead(q, i)
      PROVE  Queued(i) \/ ServedSomewhere(i)'
  <2>0. PICK b \in DOMAIN lbs : b = r.lb
    BY <1>1
  <2>1. part = "policy" /\ <<i, "pool">> \in there
    BY <1>0, <1>2, <1>7 DEF Possible, Ahead, part, r
  <2>2. \A x \in Parts : <<i, x>> \in lbs'[r.lb].serves
    BY <1>1, <1>4, <1>7, <2>1 DEF Parts
  <2>3. ~Queued(i) => store[i] = r.ask
    <3>1. r = run[Worker]
      BY <1>7 DEF r
    <3>2. Busy(run[Worker]) /\ ~run[Worker].deletes /\ run[Worker].key = i
      BY <1>1, <1>7, <3>1
    <3> QED
      BY <3>1, <3>2 DEF ServedInv, WorksLatest
  <2>4. ~Queued(i) => AsksFor(i, b)'
    <3>1. Asks(r.ask, i, b) /\ b \in DOMAIN lbs
      BY <1>1, <1>7, <2>0
    <3>2. b \in Named(i) => b \in Named(i)'
      BY <1>1, <3>1 DEF Named
    <3> QED
      BY <1>0, <2>3, <3>1, <3>2 DEF Asks, AsksFor
  <2> QED
    BY <1>1, <2>0, <2>2, <2>4 DEF ServedSomewhere
<1> QED
    BY <1>0, <1>1, <1>2, <1>3, <1>5, <1>6, <1>7, RunServed DEF q, r, Ahead

\* What fails gives up an ensured ingress with `lost`; every other call writes
\* nothing and goes on.
LEMMA CallServed ==
    ASSUME Typed, Placed, ServedInv, NEW p \in Processes,
           \/ Find(p) \/ FindNothing(p) \/ CreateLB(p) \/ WaitForLBActive(p)
           \/ Refused(p) \/ CallFails(p) \/ CreateFails(p) \/ DeleteFails(p)
    PROVE  ServedInv'
<1> DEFINE r == run[p]
<1>0. RunsOK /\ NamesOK /\ r \in Run /\ RunOK(r) /\ EndsRight(r)
    BY DEF Typed, Placed, RunsOK, ServedInv, PolicyLast
<1>1. UNCHANGED <<store, queue>>
    BY DEF Find, FindNothing, CreateLB, WaitForLBActive, Refused, CallFails, CreateFails,
           DeleteFails, Fail
<1>2. \A i \in Ingresses : Still(i)
  <2>1. CASE lbs' = lbs
    BY <2>1 DEF Still
  <2>2. CASE Created(r.key) /\ r.key \in Ingresses
    BY <1>0, <2>2, CreatedNames DEF Typed, Still
  <2>3. (CreateLB(p) \/ CreateFails(p)) => r.key \in Ingresses
    BY <1>0 DEF CreateLB, CreateFails, At, RunOK, Busy
  <2> QED
    BY <2>1, <2>2, <2>3 DEF Find, FindNothing, CreateLB, WaitForLBActive, Refused, CallFails,
                            CreateFails, DeleteFails
<1>3. "lost" \in mishap => "lost" \in mishap'
    BY DEF Find, FindNothing, CreateLB, WaitForLBActive, Refused, CallFails, CreateFails,
           DeleteFails, Fail, Mark
<1>4. CASE \/ Find(p) \/ FindNothing(p) \/ CreateLB(p)
           \/ WaitForLBActive(p) /\ r.parts # <<>>
  <2>1. PICK q : /\ Goto(p, q) /\ Busy(r) /\ Busy(q) /\ q.key = r.key /\ q.ask = r.ask
                 /\ q.deletes = r.deletes /\ q.parts = r.parts
    <3>1. CASE Find(p)
      <4>1. PICK b : Goto(p, [r EXCEPT !.call = "wait", !.lb = b])
        BY <3>1 DEF Find
      <4> DEFINE q == [r EXCEPT !.call = "wait", !.lb = b]
      <4>2. /\ Busy(r) /\ Busy(q) /\ q.key = r.key /\ q.ask = r.ask
            /\ q.deletes = r.deletes /\ q.parts = r.parts
        BY <1>0, <3>1 DEF Find, At, Busy, Run
      <4> QED
        BY <4>1, <4>2
    <3>2. CASE FindNothing(p)
      <4>1. Goto(p, [r EXCEPT !.call = "make"])
        BY <3>2 DEF FindNothing
      <4> QED
        BY <1>0, <3>2, <4>1 DEF FindNothing, At, Busy, Run
    <3>3. CASE CreateLB(p)
      <4> DEFINE b == <<r.key, made'[r.key]>>
      <4>1. Goto(p, [r EXCEPT !.call = "wait", !.lb = b])
        BY <3>3 DEF CreateLB
      <4> HIDE DEF b
      <4> DEFINE q == [r EXCEPT !.call = "wait", !.lb = b]
      <4>2. /\ Busy(r) /\ Busy(q) /\ q.key = r.key /\ q.ask = r.ask
            /\ q.deletes = r.deletes /\ q.parts = r.parts
        BY <1>0, <3>3 DEF CreateLB, At, Busy, Run
      <4> QED
        BY <4>1, <4>2
    <3>4. CASE WaitForLBActive(p) /\ r.parts # <<>>
      <4>1. Goto(p, [r EXCEPT !.call = "write"])
        BY <3>4 DEF WaitForLBActive
      <4> QED
        BY <1>0, <3>4, <4>1 DEF WaitForLBActive, At, Busy, Run
    <3> QED
      BY <1>4, <3>1, <3>2, <3>3, <3>4
  <2>2. EndsRight(q)
    BY <1>0, <2>1 DEF EndsRight
  <2>3. \A i : Ahead(r, i) => Ahead(q, i)
    BY <2>1 DEF Ahead
  <2> QED
    BY <1>1, <1>2, <1>3, <2>1, <2>2, <2>3, RunServed
<1>5. CASE Refused(p) \/ CallFails(p) \/ CreateFails(p)
  <2>1. Fail(p)
    BY <1>5 DEF Refused, CallFails, CreateFails
  <2>2. ~Busy(Return(p)) /\ EndsRight(Return(p))
    BY ReturnTargeted DEF EndsRight
  <2>3. Goto(p, Return(p)) /\ (~r.deletes => "lost" \in mishap')
    BY <2>1 DEF Fail
  <2> QED
    BY <1>1, <1>2, <1>3, <2>2, <2>3, RunServed DEF Ahead
<1>7. CASE WaitForLBActive(p) /\ r.parts = <<>>
  <2>1. Goto(p, Return(p))
    BY <1>7 DEF WaitForLBActive
  <2>2. ~Busy(Return(p)) /\ EndsRight(Return(p))
    BY ReturnTargeted DEF EndsRight
  <2>3. \A i : ~Ahead(r, i)
    BY <1>7 DEF Ahead
  <2> QED
    BY <1>1, <1>2, <1>3, <2>1, <2>2, <2>3, RunServed
<1>6. CASE DeleteFails(p)
  <2>1. /\ Goto(p, Following(p)) /\ At(p, "write") /\ r.deletes /\ Busy(r) /\ Targeted(p, r)
    BY <1>6 DEF DeleteFails, At, Busy, Placed
  <2>2. EndsRight(Following(p))
    BY <1>0, <2>1, FollowingRight
  <2>3. Busy(Following(p)) => /\ Following(p).key = r.key /\ Following(p).ask = r.ask
                              /\ Following(p).deletes = r.deletes
    BY <1>0, <2>1, FollowingTargeted
  <2> QED
    BY <1>1, <1>2, <1>3, <2>1, <2>2, <2>3, RunServed
<1> QED
    BY <1>4, <1>5, <1>6, <1>7

\* ServedWhereAsked of LoadBalancers: at rest an ingress has its pool and its
\* policy on a load balancer it asks for, for any number of ingresses, edits,
\* passes and restarts, unless a call failed since the last restart or a user
\* deleted a load balancer.
THEOREM Served == Spec => []ServedWhereAsked
<1>1. Init => ServedInv
  <2> SUFFICES ASSUME Init PROVE ServedInv
    OBVIOUS
  <2>1. store \in [Ingresses -> Ingress] /\ queue \in Listed(store)
        /\ \A p \in Processes : ~Busy(run[p])
    BY StoresAssumption, IdleOK DEF Init, Busy
  <2>2. \A n \in DOMAIN queue : queue[n].new = store[queue[n].key]
    BY <2>1, ListedStored
  <2>3. \A i \in Ingresses : store[i] # Absent => Queued(i)
    BY <2>1, ListedAll DEF Queued
  <2> QED
    BY <2>1, <2>2, <2>3 DEF ServedInv, Latest, WorksLatest, PolicyLast, EndsRight, Provided, Processes
<1>2. Typed /\ Placed /\ ServedInv /\ [Next]_vars => ServedInv'
  <2> SUFFICES ASSUME Typed, Placed, ServedInv, [Next]_vars PROVE ServedInv'
    OBVIOUS
  <2>0. RunsOK /\ Sync \in Processes /\ Sync # Worker /\ Worker \in Processes
    BY DEF Typed, Processes, Sync, Worker
  <2>1. CASE UNCHANGED vars
    BY <2>1 DEF vars, ServedInv, Latest, WorksLatest, PolicyLast, Provided, Queued,
                ServedSomewhere, AsksFor, Named
  <2>2. CASE \E i \in Ingresses : Edit(i)
    BY <2>2, EditServed
  <2>3. CASE Take
    BY <2>3, TakeServed
  <2>4. CASE Tick \/ SyncLoop
    <3>1. UNCHANGED <<store, queue, lbs, mishap>>
      BY <2>4 DEF Tick, SyncLoop, ListIngresses, SyncNext, EndPass
    <3>2. PICK q : Goto(Sync, q) /\ EndsRight(q)
      <4>1. CASE SyncNext
        BY <4>1, EnsuringParts DEF SyncNext, EndsRight, Typed, RestOK
      <4>2. CASE Tick \/ ListIngresses \/ EndPass
        BY <4>2, IdleOK DEF Tick, ListIngresses, EndPass, EndsRight, Busy, Run
      <4> QED
        BY <2>4, <4>1, <4>2 DEF SyncLoop
    <3>3. /\ \A p \in Processes : run'[p] = IF p = Sync THEN q ELSE run[p]
      BY <2>0, <3>2 DEF Goto, RunsOK
    <3>4. PolicyLast' /\ run'[Worker] = run[Worker]
      BY <2>0, <3>2, <3>3 DEF ServedInv, PolicyLast
    <3> QED
      BY <3>1, <3>4 DEF ServedInv, Latest, WorksLatest, Provided, Queued,
                        ServedSomewhere, AsksFor, Named
  <2>5. CASE Crash \/ \E p \in Processes : GetLBPanics(p)
    BY <2>5, RestartServed DEF Crash, GetLBPanics
  <2>6. CASE \E b \in DOMAIN lbs : Activate(b) \/ Break(b) \/ Drop(b)
    <3>1. PICK b \in DOMAIN lbs : Activate(b) \/ Break(b) \/ Drop(b)
      BY <2>6
    <3>2. UNCHANGED <<store, queue, run>>
      BY <3>1 DEF Activate, Break, Drop
    <3>3. "lost" \in mishap' \/ (mishap' = mishap /\ \A i \in Ingresses : Still(i))
      <4>1. CASE Activate(b) \/ Break(b)
        <5>1. PICK status : lbs' = [lbs EXCEPT ![b].status = status]
          BY <4>1 DEF Activate, Break
        <5> QED
          BY <4>1, <5>1 DEF Activate, Break, Still, Typed, LbsOK, Balancer
      <4>2. CASE Drop(b)
        BY <4>2 DEF Drop, Mark
      <4> QED
        BY <3>1, <4>1, <4>2
    <3>4. \A i : Queued(i)' <=> Queued(i)
      BY <3>2 DEF Queued
    <3>5. Provided'
      BY <3>2, <3>3, <3>4, StillServed DEF ServedInv, Provided
    <3> QED
      BY <3>2, <3>5 DEF ServedInv, Latest, WorksLatest, PolicyLast, Queued
  <2>7. ASSUME NEW p \in Processes, Write(p) PROVE ServedInv'
    BY <2>7, WriteServed
  <2>8. ASSUME NEW p \in Processes,
               \/ Find(p) \/ FindNothing(p) \/ CreateLB(p) \/ WaitForLBActive(p)
               \/ Refused(p) \/ CallFails(p) \/ CreateFails(p) \/ DeleteFails(p)
        PROVE  ServedInv'
    BY <2>8, CallServed
  <2> QED
    BY <2>1, <2>2, <2>3, <2>4, <2>5, <2>6, <2>7, <2>8 DEF Next, Call
<1>3. ServedInv => ServedWhereAsked
    BY DEF ServedInv, ServedWhereAsked, Provided, Ahead, ServedSomewhere, Rest, Queued, At, Busy, Processes
<1> QED
    BY <1>1, <1>2, <1>3, AlwaysPlaced, TypeCorrect, Parted, PTL DEF Spec
=============================================================================
