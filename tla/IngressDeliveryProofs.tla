----------------------- MODULE IngressDeliveryProofs -----------------------
(***************************************************************************)
(* IngressController implements EventDelivery, for all constants, and so   *)
(* inherits its promise: AppliedIsCurrent.  Every action of the controller *)
(* is an action of EventDelivery or changes nothing that it sees.          *)
(***************************************************************************)
EXTENDS IngressControllerProofs, IngressDelivery, SequenceTheorems

\* The proved form of the abstract specification, under the same mapping.
Promise == INSTANCE EventDeliveryProofs WITH
    Wishes <- Specs, wanted <- Wanted, heard <- Heard, noticed <- Noticed,
    todo <- Todo, doing <- Doing, applied <- Done, excused <- Excused, missed <- Missed

Step == [Delivery!Next]_(Delivery!vars)

-----------------------------------------------------------------------------
(* What the parts of the mapping depend on.                                *)

\* Only some variables matter to each part of the mapping.
LEMMA Unseen ==
  /\ store' = store => Wanted' = Wanted
  /\ cache' = cache => Heard' = Heard /\ Noticed' = Noticed
  /\ queue' = queue => Todo' = Todo
  /\ applied' = applied => Done' = Done
  /\ mishap' = mishap => Excused' = Excused /\ Missed' = Missed
  /\ run'[Worker] = run[Worker] => Doing' = Doing
BY DEF Wanted, Heard, Noticed, Todo, Done, Excused, Missed, Doing, SpecOf, IsValid, EventSpec,
   Spared, Applying, Busy, Target

\* A step that changes no part of the mapping is a stutter.
LEMMA Stutter ==
  ASSUME Wanted' = Wanted, Heard' = Heard, Noticed' = Noticed, Todo' = Todo,
         Doing' = Doing, Done' = Done, Excused' = Excused, Missed' = Missed
  PROVE  Step
BY DEF Step, Delivery!vars

\* Two reasons are seen, and they excuse the ingresses they are noted for.
LEMMA Excuses ==
  ASSUME TypeOK, NEW is, NEW why, Mark(is, why)
  PROVE  /\ Excused' = IF why = "failed" THEN Excused \cup (is \cap Ingresses) ELSE Excused
         /\ Missed' = IF why = "unnoticed" THEN Missed \cup (is \cap Ingresses) ELSE Missed
<1>1. \A i \in Ingresses : mishap'[i] = mishap[i] \cup IF i \in is THEN {why} ELSE {}
  BY DEF Mark
<1> QED
  BY <1>1 DEF Excused, Missed, Spared

\* The worker goes on with the same objects.
LEMMA GoesOn ==
  ASSUME TypeOK, NEW p \in Processes, NEW r, Goto(p, r),
         r.old = run[p].old, r.new = run[p].new,
         Applying(r) <=> Applying(run[p])
  PROVE  Doing' = Doing
<1>1. run' = [run EXCEPT ![p] = r] /\ DOMAIN run = Processes
  BY DEF Goto, TypeOK
<1>2. CASE p = Worker
  <2>1. run'[Worker] = r
    BY <1>1, <1>2
  <2> QED
    BY <1>2, <2>1 DEF Doing, SpecOf, IsValid, Target
<1>3. CASE p # Worker
  <2>1. run'[Worker] = run[Worker]
    BY <1>1, <1>3 DEF Processes
  <2> QED
    BY <2>1, Unseen
<1> QED
  BY <1>2, <1>3

\* Whatever nodeSyncLoop does with its own stack is not seen.
LEMMA SyncUnseen ==
  ASSUME TypeOK, NEW r, Goto(Sync, r)
  PROVE  Doing' = Doing
<1>1. run'[Worker] = run[Worker]
  BY DEF Goto, TypeOK, Processes, Worker, Sync
<1> QED
  BY <1>1, Unseen

\* A busy goroutine works on one of the ingresses.
LEMMA TargetKey ==
  ASSUME TypeOK, NEW p \in Processes, Busy(run[p])
  PROVE  Target(run[p]).key \in Ingresses
<1>1. run[p] \in Run /\ Target(run[p]) # None
  BY DEF TypeOK, RunOK
<1>2. Target(run[p]) \in Object
  BY <1>1 DEF Target, Run
<1> QED
  BY <1>2 DEF Object

-----------------------------------------------------------------------------
(* The actions of the users and of the cluster.                            *)

\* A user's change is Want.
LEMMA WantStep ==
  ASSUME TypeOK, NEW i \in Ingresses, NEW o \in Object \cup {None}, Store(i, o),
         UNCHANGED <<cache, queue, run, applied>>
  PROVE  Step
<1>1. store' = [store EXCEPT ![i] = o] /\ store \in [Ingresses -> Object \cup {None}]
  BY DEF Store, TypeOK
<1>2. Wanted' = [Wanted EXCEPT ![i] = SpecOf(o)]
  BY <1>1 DEF Wanted, SpecOf, IsValid
<1>3. SpecOf(o) \in Specs \cup {None}
  BY SpecOfOK DEF Object
<1>4. Unnoticed(i, o) <=> i \notin Heard /\ SpecOf(o) = None
  BY SpecOfOK DEF Unnoticed, Heard
<1>5. /\ Missed' = Missed \cup IF i \notin Heard /\ SpecOf(o) = None THEN {i} ELSE {}
      /\ Excused' = Excused
  <2>1. CASE Unnoticed(i, o)
    <3>1. Mark({i}, "unnoticed")
      BY <2>1 DEF Store
    <3> QED
      BY <1>4, <2>1, <3>1, Excuses
  <2>2. CASE ~Unnoticed(i, o)
    <3>1. mishap' = mishap \/ Mark({i}, "flapped")
      BY <2>2 DEF Store
    <3> QED
      BY <1>4, <2>2, <3>1, Unseen, Excuses
  <2> QED
    BY <2>1, <2>2
<1>6. UNCHANGED <<Heard, Noticed, Todo, Doing, Done>>
  BY Unseen
<1>7. Delivery!Want(i)
  BY <1>2, <1>3, <1>5, <1>6 DEF Delivery!Want
<1> QED
  BY <1>7 DEF Step, Delivery!Next

\* Quiet means caught up: a restart loses nothing else.
LEMMA QuietIsCaught ==
  ASSUME TypeOK, NEW i \in Ingresses, Quiet(i)
  PROVE  Delivery!Caught(i)
<1>1. cache[i] = store[i]
  BY DEF Quiet
<1>2. Noticed[i] = Wanted[i]
  BY <1>1 DEF Noticed, Wanted
<1>3. \A n \in DOMAIN Todo : Todo[n].key # i
  BY DEF Todo, Quiet
<1>4. \A e \in Doing : e.key # i
  BY DEF Doing, Quiet, WorksOn, Applying
<1> QED
  BY <1>2, <1>3, <1>4 DEF Delivery!Caught, Delivery!Pending

\* A restart of the process is Restart.
LEMMA RestartStep ==
  ASSUME TypeOK, Crash
  PROVE  Step
<1> DEFINE lost == {i \in Ingresses : ~Quiet(i)}
<1>1. Heard' = {} /\ Noticed' = [i \in Ingresses |-> None]
  BY SpecOfOK DEF Crash, Heard, Noticed
<1>2. Todo' = <<>>
  BY DEF Crash, Todo
<1>3. Doing' = {}
  BY DEF Crash, Doing, Applying, Busy, Idle, Processes
<1>4. Excused' = Excused \cup lost /\ Missed' = Missed
  <2>1. Mark(lost, "failed")
    BY DEF Crash
  <2> HIDE DEF lost
  <2>2. Excused' = Excused \cup (lost \cap Ingresses) /\ Missed' = Missed
    BY <2>1, Excuses
  <2> QED
    BY <2>2 DEF lost
<1>5. {i \in Ingresses : ~Delivery!Caught(i)} \subseteq lost
  BY QuietIsCaught
<1>6. Wanted' = Wanted /\ Done' = Done
  BY Unseen DEF Crash, cluster
<1>7. Delivery!Restart
  <2>1. lost \in SUBSET Ingresses
    OBVIOUS
  <2> HIDE DEF lost
  <2> QED
    BY <2>1, <1>1, <1>2, <1>3, <1>4, <1>5, <1>6 DEF Delivery!Restart
<1> QED
  BY <1>7 DEF Step, Delivery!Next

-----------------------------------------------------------------------------
(* The informer and the worker.                                            *)

\* An event is queued exactly when what is wanted of the ingress changed.
LEMMA EventOf ==
  ASSUME TypeOK, KeysOK, NEW i \in Ingresses, cache[i] # store[i]
  PROVE  IF SpecOf(cache[i]) = SpecOf(store[i]) THEN Events(cache[i], store[i]) = <<>>
         ELSE \E e \in Event : /\ Events(cache[i], store[i]) = <<e>>
                               /\ e.obj.key = i /\ EventSpec(e) = SpecOf(store[i])
<1> DEFINE old == cache[i]
           new == store[i]
<1>1. /\ old \in Object \cup {None} /\ new \in Object \cup {None}
      /\ old # None => old.key = i
      /\ new # None => new.key = i
  BY DEF TypeOK, KeysOK
<1> HIDE DEF old, new
<1>2. /\ IsValid(old) => old \in Object /\ SpecOf(old) = old.spec /\ SpecOf(old) # None
      /\ ~IsValid(old) => SpecOf(old) = None
      /\ IsValid(new) => new \in Object /\ SpecOf(new) = new.spec /\ SpecOf(new) # None
      /\ ~IsValid(new) => SpecOf(new) = None
      /\ IsValid(new) => new # None
      /\ IsValid(old) => old # None
  BY <1>1, SpecOfOK DEF IsValid
<1>3. IF SpecOf(old) = SpecOf(new) THEN Events(old, new) = <<>>
      ELSE \E e \in Event : /\ Events(old, new) = <<e>>
                            /\ e.obj.key = i /\ EventSpec(e) = SpecOf(new)
  <2>1. CASE ~IsValid(old) /\ IsValid(new)
    <3> DEFINE e == [type |-> "create", obj |-> new, old |-> None]
    <3>1. e \in Event /\ e.obj.key = i /\ EventSpec(e) = SpecOf(new)
      BY <1>1, <1>2, <2>1 DEF Event, EventSpec
    <3>2. Events(old, new) = <<e>>
      BY <2>1 DEF Events, CreateEvent
    <3> HIDE DEF e
    <3> QED
      BY <2>1, <1>2, <3>1, <3>2
  <2>2. CASE IsValid(old) /\ ~IsValid(new)
    <3> DEFINE o == IF new = None THEN old ELSE new
               e == [type |-> "delete", obj |-> o, old |-> None]
    <3>1. o \in Object /\ o.key = i
      BY <1>1, <1>2, <2>2
    <3>2. Events(old, new) = <<e>>
      BY <2>2 DEF Events, DeleteEvent
    <3> HIDE DEF o
    <3>3. e \in Event /\ e.obj.key = i /\ EventSpec(e) = SpecOf(new)
      BY <1>2, <2>2, <3>1 DEF Event, EventSpec
    <3> HIDE DEF e
    <3> QED
      BY <2>2, <1>2, <3>2, <3>3
  <2>3. CASE IsValid(old) /\ IsValid(new) /\ new.spec # old.spec
    <3> DEFINE e == [type |-> "update", obj |-> new, old |-> old]
    <3>1. e \in Event /\ e.obj.key = i /\ EventSpec(e) = SpecOf(new)
      BY <1>1, <1>2, <2>3 DEF Event, EventSpec
    <3>2. Events(old, new) = <<e>>
      BY <2>3 DEF Events, UpdateEvent
    <3> HIDE DEF e
    <3> QED
      BY <2>3, <1>2, <3>1, <3>2
  <2>4. CASE \/ ~IsValid(old) /\ ~IsValid(new)
             \/ IsValid(old) /\ IsValid(new) /\ new.spec = old.spec
    <3>1. Events(old, new) = <<>>
      BY <2>4 DEF Events
    <3> QED
      BY <2>4, <1>2, <3>1
  <2> QED
    BY <2>1, <2>2, <2>3, <2>4
<1> QED
  BY <1>3 DEF old, new

\* The queue maps to a sequence of entries of the same length.
LEMMA TodoOK ==
  ASSUME TypeOK
  PROVE  Todo \in Seq(Delivery!Entry) /\ Len(Todo) = Len(queue)
<1>1. queue \in Seq(Event) /\ Len(queue) \in Nat /\ DOMAIN queue = 1 .. Len(queue)
  BY DEF TypeOK
<1>2. ASSUME NEW n \in DOMAIN queue
      PROVE  [key |-> queue[n].obj.key, spec |-> EventSpec(queue[n])] \in Delivery!Entry
  <2>1. queue[n] \in Event
    BY <1>1, <1>2
  <2>2. queue[n].obj \in Object
    BY <2>1 DEF Event
  <2>3. EventSpec(queue[n]) \in Specs \cup {None}
    BY <2>2, SpecOfOK DEF EventSpec, Object
  <2> QED
    BY <2>2, <2>3 DEF Delivery!Entry, Object
<1> QED
  BY <1>1, <1>2 DEF Todo

\* Append as a function.
LEMMA AppendIs ==
  ASSUME NEW S, NEW s \in Seq(S), NEW e \in S
  PROVE  Append(s, e) = [n \in 1 .. Len(s) + 1 |-> IF n = Len(s) + 1 THEN e ELSE s[n]]
<1> DEFINE t == Append(s, e)
<1>1. /\ t \in Seq(S) /\ Len(t) = Len(s) + 1 /\ t[Len(s) + 1] = e
      /\ \A n \in 1 .. Len(s) : t[n] = s[n]
  BY AppendProperties
<1>2. Len(s) \in Nat
  BY LenProperties
<1> HIDE DEF t
<1>3. t \in [1 .. Len(s) + 1 -> S]
  BY <1>1, LenProperties
<1>4. \A n \in 1 .. Len(s) + 1 : t[n] = IF n = Len(s) + 1 THEN e ELSE s[n]
  BY <1>1, <1>2
<1>5. t = [n \in 1 .. Len(s) + 1 |-> IF n = Len(s) + 1 THEN e ELSE s[n]]
  BY <1>3, <1>4
<1> QED
  BY <1>5 DEF t

\* Tail as a function.
LEMMA TailIs ==
  ASSUME NEW S, NEW s \in Seq(S), s # <<>>
  PROVE  Tail(s) = [n \in 1 .. Len(s) - 1 |-> s[n + 1]]
<1>1. /\ Len(Tail(s)) = Len(s) - 1
      /\ Tail(s) \in [1 .. Len(Tail(s)) -> S]
      /\ \A n \in 1 .. Len(Tail(s)) : Tail(s)[n] = s[n + 1]
  BY HeadTailProperties, LenProperties
<1> QED
  BY <1>1

\* A notification of the informer is Notice.
LEMMA NoticeStep ==
  ASSUME TypeOK, KeysOK, NEW i \in Ingresses, Deliver(i)
  PROVE  Step
<1>1. /\ cache[i] # store[i]
      /\ cache' = [cache EXCEPT ![i] = store[i]]
      /\ queue' = queue \o Events(cache[i], store[i])
      /\ cache \in [Ingresses -> Object \cup {None}]
      /\ queue \in Seq(Event)
  BY DEF Deliver, Enqueue, TypeOK
<1>2. Noticed' = [Noticed EXCEPT ![i] = Wanted[i]]
  BY <1>1 DEF Noticed, Wanted, SpecOf, IsValid
<1>3. \/ Heard' = Heard \cup {i}
      \/ Wanted[i] = None /\ Heard' = Heard \ {i}
  <2>1. CASE store[i] # None
    BY <1>1, <2>1 DEF Heard
  <2>2. CASE store[i] = None
    BY <1>1, <2>2, SpecOfOK DEF Heard, Wanted
  <2> QED
    BY <2>1, <2>2
<1>4. Noticed[i] = SpecOf(cache[i]) /\ Wanted[i] = SpecOf(store[i])
  BY DEF Noticed, Wanted
<1>5. Todo' = IF Noticed[i] = Wanted[i] THEN Todo
              ELSE Append(Todo, [key |-> i, spec |-> Wanted[i]])
  <2>1. CASE Noticed[i] = Wanted[i]
    <3>1. Events(cache[i], store[i]) = <<>>
      BY <1>1, <1>4, <2>1, EventOf
    <3>2. queue' = queue
      BY <1>1, <3>1
    <3> QED
      BY <2>1, <3>2, Unseen
  <2>2. CASE Noticed[i] # Wanted[i]
    <3>1. PICK e \in Event : /\ Events(cache[i], store[i]) = <<e>>
                             /\ e.obj.key = i /\ EventSpec(e) = SpecOf(store[i])
      BY <1>1, <1>4, <2>2, EventOf
    <3>2. queue' = Append(queue, e)
      BY <1>1, <3>1
    <3>3. /\ DOMAIN queue = 1 .. Len(queue) /\ Len(queue) \in Nat
          /\ DOMAIN queue' = 1 .. Len(queue) + 1
          /\ \A n \in DOMAIN queue : queue'[n] = queue[n]
          /\ queue'[Len(queue) + 1] = e
      BY <1>1, <3>2
    <3> DEFINE ItemOf(event) == [key |-> event.obj.key, spec |-> EventSpec(event)]
    <3>4. Todo' = [n \in DOMAIN queue' |-> ItemOf(queue'[n])]
      BY DEF Todo, EventSpec, SpecOf, IsValid
    <3>5. ItemOf(e) = [key |-> i, spec |-> Wanted[i]]
      BY <3>1, <1>4
    <3>6. Todo = [n \in DOMAIN queue |-> ItemOf(queue[n])]
      BY DEF Todo
    <3> HIDE DEF ItemOf
    <3>7. Todo \in Seq(Delivery!Entry) /\ Len(Todo) = Len(queue)
      BY TodoOK
    <3> DEFINE it == [key |-> i, spec |-> Wanted[i]]
    <3>8. Append(Todo, it) = [n \in 1 .. Len(queue) + 1 |->
                                  IF n = Len(queue) + 1 THEN it ELSE Todo[n]]
      <4>1. it \in Delivery!Entry
        <5>1. store[i] \in Object \cup {None}
          BY DEF TypeOK
        <5> QED
          BY <1>4, <5>1, SpecOfOK DEF Delivery!Entry, Object
      <4> HIDE DEF it
      <4> QED
        BY <3>7, <4>1, AppendIs
    <3>9. Todo' = [n \in 1 .. Len(queue) + 1 |->
                                  IF n = Len(queue) + 1 THEN it ELSE Todo[n]]
      <4>1. \A n \in 1 .. Len(queue) + 1 :
              /\ n \in DOMAIN queue'
              /\ ItemOf(queue'[n]) = IF n = Len(queue) + 1 THEN it ELSE Todo[n]
        BY <3>3, <3>5, <3>6
      <4> QED
        BY <4>1, <3>3, <3>4
    <3> QED
      BY <2>2, <3>8, <3>9
  <2> QED
    BY <2>1, <2>2
<1>6. Wanted' = Wanted /\ Doing' = Doing /\ Done' = Done /\ Excused' = Excused /\ Missed' = Missed
  BY Unseen DEF Deliver, cluster, history
<1>7. Delivery!Notice(i)
  BY <1>2, <1>3, <1>5, <1>6 DEF Delivery!Notice
<1> QED
  BY <1>7 DEF Step, Delivery!Next

\* The worker's queue.Get is Start.
LEMMA StartStep ==
  ASSUME TypeOK, Take
  PROVE  Step
<1>1. /\ run[Worker].stage = "idle" /\ queue # <<>> /\ queue' = Tail(queue)
      /\ Goto(Worker, RunOf(Head(queue)))
      /\ mishap' = mishap \/ Mark({Head(queue).obj.key}, "uncovered")
      /\ UNCHANGED <<store, cache, applied>>
  BY DEF Take, cluster
<1>2. queue \in Seq(Event) /\ Head(queue) = queue[1] /\ queue[1] \in Event /\ Len(queue) \in Nat \ {0}
  BY <1>1 DEF TypeOK
<1> DEFINE e == queue[1]
           r == RunOf(e)
           item == [key |-> e.obj.key, spec |-> EventSpec(e)]
<1>3. Doing = {}
  BY <1>1 DEF Doing, Applying, Busy
<1>4. e.obj \in Object /\ e.obj # None /\ e.type \in {"create", "update", "delete"}
  BY <1>2, NoneAssumption DEF Event
<1>5. /\ r.stage = "inspect"
      /\ e.type = "delete" => r.old = e.obj /\ r.new = None
      /\ e.type # "delete" => r.new = e.obj
  BY DEF RunOf, Begin, Idle
<1>6. run'[Worker] = r
  BY <1>1, <1>2 DEF Goto, TypeOK, Processes
<1> HIDE DEF r
<1>7. Doing' = {item}
  <2>1. Doing' = {[key |-> Target(r).key, spec |-> SpecOf(r.new)]}
    BY <1>5, <1>6 DEF Doing, Applying, Busy, SpecOf, IsValid, Target
  <2>2. Target(r).key = e.obj.key
    BY <1>4, <1>5 DEF Target
  <2>3. SpecOf(r.new) = EventSpec(e)
    BY <1>4, <1>5, SpecOfOK DEF EventSpec
  <2> QED
    BY <2>1, <2>2, <2>3
<1>8. /\ Len(Todo) = Len(queue) /\ Todo # <<>> /\ Head(Todo) = item
      /\ Todo \in Seq(Delivery!Entry)
  <2>1. Todo \in Seq(Delivery!Entry) /\ Len(Todo) = Len(queue)
    BY TodoOK
  <2>2. Todo[1] = item
    BY <1>2 DEF Todo
  <2> QED
    BY <1>2, <2>1, <2>2
<1>9. Todo' = Tail(Todo)
  <2> DEFINE ItemOf(event) == [key |-> event.obj.key, spec |-> EventSpec(event)]
  <2>1. Todo' = [n \in DOMAIN queue' |-> ItemOf(queue'[n])]
    BY DEF Todo, EventSpec, SpecOf, IsValid
  <2>2. Todo = [n \in DOMAIN queue |-> ItemOf(queue[n])]
    BY DEF Todo
  <2> HIDE DEF ItemOf
  <2>3. /\ DOMAIN queue = 1 .. Len(queue)
        /\ DOMAIN queue' = 1 .. Len(queue) - 1
        /\ \A n \in 1 .. Len(queue) - 1 : queue'[n] = queue[n + 1]
    BY <1>1, <1>2
  <2>4. Tail(Todo) = [n \in 1 .. Len(queue) - 1 |-> Todo[n + 1]]
    BY <1>8, TailIs
  <2>5. Todo' = [n \in 1 .. Len(queue) - 1 |-> Todo[n + 1]]
    <3>1. \A n \in 1 .. Len(queue) - 1 : n + 1 \in DOMAIN queue /\ queue'[n] = queue[n + 1]
      BY <2>3, <1>2
    <3> QED
      BY <2>1, <2>2, <2>3, <3>1
  <2> QED
    BY <2>4, <2>5
<1>10. Wanted' = Wanted /\ Heard' = Heard /\ Noticed' = Noticed /\ Done' = Done
  BY <1>1, Unseen
<1>11. Excused' = Excused /\ Missed' = Missed
  <2>1. CASE mishap' = mishap
    BY <2>1, Unseen
  <2>2. CASE Mark({Head(queue).obj.key}, "uncovered")
    BY <2>2, Excuses
  <2> QED
    BY <1>1, <2>1, <2>2
<1> HIDE DEF item
<1>12. Delivery!Start
  BY <1>3, <1>7, <1>8, <1>9, <1>10, <1>11 DEF Delivery!Start
<1> QED
  BY <1>12 DEF Step, Delivery!Next

-----------------------------------------------------------------------------
(* The calls of ensureIngress.                                             *)

\* A call of either goroutine fails for its ingress: only the excuse is seen.
LEMMA ExcuseStep ==
  ASSUME TypeOK, NEW i \in Ingresses, Mark({i}, "failed"), Doing' = Doing,
         Wanted' = Wanted, UNCHANGED <<cache, queue, applied>>
  PROVE  Step
<1>1. Excused' = Excused \cup {i} /\ Missed' = Missed
  BY Excuses
<1>2. Heard' = Heard /\ Noticed' = Noticed /\ Todo' = Todo /\ Done' = Done
  BY Unseen
<1>3. Delivery!CallFails(i)
  BY <1>1, <1>2 DEF Delivery!CallFails
<1> QED
  BY <1>3 DEF Step, Delivery!Next

\* What the worker puts on its stack when an ingress is done, or given up.
LEMMA WorkerReturns ==
  ASSUME TypeOK, Goto(Worker, Return(Worker))
  PROVE  Doing' = {}
<1>1. run'[Worker].stage = "idle"
  BY DEF Goto, Return, Idle, TypeOK, Processes
<1> QED
  BY <1>1 DEF Doing, Applying, Busy

\* ensureIngress returns an error: Drop when the worker was applying.
LEMMA FailStep ==
  ASSUME TypeOK, NEW p \in Processes, Busy(run[p]), Fail(p)
  PROVE  Step
<1> DEFINE i == Target(run[p]).key
<1>1. i \in Ingresses
  BY TargetKey
<1>2. Mark({i}, "failed") /\ Goto(p, Return(p)) /\ UNCHANGED <<store, cache, queue, applied>>
  BY DEF Fail, cluster
<1> HIDE DEF i
<1>3. Wanted' = Wanted /\ Heard' = Heard /\ Noticed' = Noticed /\ Todo' = Todo /\ Done' = Done
  BY <1>2, Unseen
<1>4. Excused' = Excused \cup {i} /\ Missed' = Missed
  BY <1>1, <1>2, Excuses
<1>5. CASE p = Worker /\ Applying(run[p])
  <2>1. \E e \in Doing : e.key = i
    BY <1>5 DEF Doing, i
  <2>2. Doing' = {}
    BY <1>2, <1>5, WorkerReturns
  <2>3. Delivery!Drop
    BY <1>3, <1>4, <2>1, <2>2 DEF Delivery!Drop
  <2> QED
    BY <2>3 DEF Step, Delivery!Next
<1>6. CASE p = Worker /\ ~Applying(run[p])
  <2>1. Doing = {}
    BY <1>6 DEF Doing
  <2>2. Doing' = {}
    BY <1>2, <1>6, WorkerReturns
  <2> QED
    BY <1>1, <1>2, <1>3, <2>1, <2>2, ExcuseStep
<1>7. CASE p = Sync
  <2>1. Doing' = Doing
    BY <1>2, <1>7, SyncUnseen
  <2> QED
    BY <1>1, <1>2, <1>3, <2>1, ExcuseStep
<1> QED
  BY <1>5, <1>6, <1>7 DEF Processes

\* A call that moves its goroutine on within the objects it works with, and
\* notes nothing or what EventDelivery does not look at.
LEMMA MoveStep ==
  ASSUME TypeOK, NEW p \in Processes, NEW r, Goto(p, r),
         r.old = run[p].old, r.new = run[p].new,
         Applying(r) <=> Applying(run[p]),
         UNCHANGED <<store, cache, queue, applied>>,
         Excused' = Excused /\ Missed' = Missed
  PROVE  Step
BY GoesOn, Unseen, Stutter

\* A move to another call, stage or item leaves the objects alone.
LEMMA Moves ==
  ASSUME TypeOK, NEW p \in Processes
  PROVE  /\ \A call : LET r == [run[p] EXCEPT !.call = call]
                      IN  r.old = run[p].old /\ r.new = run[p].new /\ r.stage = run[p].stage
         /\ LET r == [run[p] EXCEPT !.k = @ + 1, !.call = "find"]
            IN  r.old = run[p].old /\ r.new = run[p].new /\ r.stage = run[p].stage
<1>1. run[p] \in Run
  BY DEF TypeOK
<1> QED
  BY <1>1 DEF Run

\* Then and NextItem do not change what is being applied.
LEMMA ThenStep ==
  ASSUME TypeOK, NEW p \in Processes, (\E call : Then(p, call)) \/ NextItem(p)
  PROVE  Doing' = Doing
<1>1. ASSUME NEW call, Then(p, call) PROVE Doing' = Doing
  <2> DEFINE r == [run[p] EXCEPT !.call = call]
  <2>1. r.old = run[p].old /\ r.new = run[p].new /\ r.stage = run[p].stage
    BY Moves
  <2>2. Goto(p, r)
    BY <1>1 DEF Then
  <2> HIDE DEF r
  <2>3. Applying(r) <=> Applying(run[p])
    BY <2>1 DEF Applying, Busy
  <2> QED
    BY <2>1, <2>2, <2>3, GoesOn
<1>2. CASE NextItem(p)
  <2> DEFINE r == [run[p] EXCEPT !.k = @ + 1, !.call = "find"]
  <2>1. r.old = run[p].old /\ r.new = run[p].new /\ r.stage = run[p].stage
    BY Moves
  <2>2. Goto(p, r)
    BY <1>2 DEF NextItem
  <2> HIDE DEF r
  <2>3. Applying(r) <=> Applying(run[p])
    BY <2>1 DEF Applying, Busy
  <2> QED
    BY <2>1, <2>2, <2>3, GoesOn
<1> QED
  BY <1>1, <1>2

\* A call of a stage's loop: only its goroutine moves on.
LEMMA LoopStep ==
  ASSUME TypeOK, NEW p \in Processes,
         \/ FindPool(p) \/ CreatePool(p) \/ GetMemberPool(p) \/ UpdatePoolMember(p)
         \/ FindPolicy(p) \/ CreatePolicy(p) \/ GetPolicy(p) \/ UpdatePolicy(p)
         \/ FindOldPolicy(p) \/ DeletePolicy(p) \/ FindOldPool(p)
  PROVE  Step
<1>1. /\ (\E call : Then(p, call)) \/ NextItem(p)
      /\ UNCHANGED <<store, cache, queue, applied>>
      /\ \/ mishap' = mishap
         \/ \E is : Mark(is, "overlapped") \/ Mark(is, "outdated")
  BY DEF FindPool, CreatePool, GetMemberPool, UpdatePoolMember, FindPolicy, CreatePolicy,
     GetPolicy, UpdatePolicy, WritePolicy, FindOldPolicy, DeletePolicy, FindOldPool,
     cluster, vlb, history
<1>2. Doing' = Doing
  BY <1>1, ThenStep
<1>3. Excused' = Excused /\ Missed' = Missed
  <2>1. CASE mishap' = mishap
    BY <2>1, Unseen
  <2>2. ASSUME NEW is, Mark(is, "overlapped") PROVE Excused' = Excused /\ Missed' = Missed
    BY <2>2, Excuses
  <2>3. ASSUME NEW is, Mark(is, "outdated") PROVE Excused' = Excused /\ Missed' = Missed
    BY <2>3, Excuses
  <2> QED
    BY <1>1, <2>1, <2>2, <2>3
<1> QED
  BY <1>1, <1>2, <1>3, Unseen, Stutter

\* A deletion that is refused, or that fails, is noted as a failure.
LEMMA DropStep ==
  ASSUME TypeOK, NEW p \in Processes, DeletePool(p) \/ DropFails(p)
  PROVE  Step
<1> DEFINE i == Target(run[p]).key
<1>1. /\ NextItem(p) /\ Busy(run[p])
      /\ UNCHANGED <<store, cache, queue, applied>>
      /\ mishap' = mishap \/ Mark({i}, "failed")
  BY DEF DeletePool, DropFails, At, Busy, cluster
<1>2. i \in Ingresses
  BY <1>1, TargetKey
<1> HIDE DEF i
<1>3. Doing' = Doing
  BY <1>1, ThenStep
<1>4. CASE mishap' = mishap
  BY <1>1, <1>3, <1>4, Unseen, Stutter
<1>5. CASE Mark({i}, "failed")
  BY <1>1, <1>2, <1>3, <1>5, Unseen, ExcuseStep
<1> QED
  BY <1>1, <1>4, <1>5

\* The steps between the loops keep the objects and go on applying them.
LEMMA StageStep ==
  ASSUME TypeOK, NEW p \in Processes, Inspect(p) \/ InspectCurrentLB(p) \/ EndLoop(p)
  PROVE  Step
<1>1. run[p] \in Run
  BY DEF TypeOK
<1>2. UNCHANGED <<store, cache, queue, applied, mishap>>
  BY DEF Inspect, InspectCurrentLB, EndLoop, cluster, history
<1>3. CASE Inspect(p)
  <2> DEFINE r == [run[p] EXCEPT !.stage = "current", !.nodes = nodes, !.ports = ports]
  <2>1. r.old = run[p].old /\ r.new = run[p].new /\ r.stage = "current"
    BY <1>1 DEF Run
  <2>2. Goto(p, r) /\ run[p].stage = "inspect"
    BY <1>3 DEF Inspect
  <2> HIDE DEF r
  <2> QED
    BY <1>2, <2>1, <2>2, MoveStep, Unseen DEF Applying, Busy
<1>4. CASE InspectCurrentLB(p)
  <2> DEFINE r == [run[p] EXCEPT !.stage = "pool", !.seen = MapIDExpander(run[p])]
  <2>1. r.old = run[p].old /\ r.new = run[p].new /\ r.stage = "pool"
    BY <1>1 DEF Run
  <2>2. Goto(p, r) /\ run[p].stage = "current"
    BY <1>4 DEF InspectCurrentLB
  <2> HIDE DEF r
  <2> QED
    BY <1>2, <2>1, <2>2, MoveStep, Unseen DEF Applying, Busy
<1>5. CASE EndLoop(p)
  <2> DEFINE r == [run[p] EXCEPT !.stage = Following[@], !.k = 1, !.call = "find"]
  <2>1. run[p].stage \in {"pool", "policy", "dropPolicy"}
    BY <1>5 DEF EndLoop, Following
  <2>2. /\ r.old = run[p].old /\ r.new = run[p].new
        /\ r.stage \in {"policy", "dropPolicy", "dropPool"}
    BY <1>1, <2>1 DEF Run, Following
  <2>3. Goto(p, r)
    BY <1>5 DEF EndLoop
  <2> HIDE DEF r
  <2> QED
    BY <1>2, <2>1, <2>2, <2>3, MoveStep, Unseen DEF Applying, Busy
<1> QED
  BY <1>3, <1>4, <1>5

\* The end of the worker's last loop is Finish.
LEMMA FinishStep ==
  ASSUME TypeOK, NEW p \in Processes, EndDrops(p)
  PROVE  Step
<1>1. /\ run[p].stage = "dropPool" /\ run[p] \in Run
      /\ UNCHANGED <<store, cache, queue, mishap>>
      /\ Goto(p, IF run[p].new = None THEN Return(p) ELSE [run[p] EXCEPT !.stage = "status"])
  BY DEF EndDrops, TypeOK, cluster
<1>2. Wanted' = Wanted /\ Heard' = Heard /\ Noticed' = Noticed /\ Todo' = Todo /\ Excused' = Excused /\ Missed' = Missed
  BY <1>1, Unseen
<1>3. CASE p = Sync
  <2>1. applied' = applied
    BY <1>3 DEF EndDrops, Sync, Worker
  <2> QED
    BY <1>1, <1>2, <1>3, <2>1, SyncUnseen, Unseen, Stutter
<1>4. CASE p = Worker
  <2> DEFINE i == Target(run[Worker]).key
             e == [key |-> i, spec |-> SpecOf(run[Worker].new)]
  <2>1. i \in Ingresses
    BY <1>1, <1>4, TargetKey DEF Busy
  <2>2. applied' = [applied EXCEPT ![i] = run[Worker].new]
    BY <1>4 DEF EndDrops
  <2>3. Done' = [Done EXCEPT ![i] = SpecOf(run[Worker].new)]
    BY <2>1, <2>2 DEF Done, SpecOf, IsValid, TypeOK
  <2>4. Doing = {e}
    BY <1>1, <1>4 DEF Doing, Applying, Busy
  <2>5. Doing' = {}
    <3>1. CASE run[Worker].new = None
      BY <1>1, <1>4, <3>1, WorkerReturns
    <3>2. CASE run[Worker].new # None
      <4>1. run'[Worker] = [run[Worker] EXCEPT !.stage = "status"]
        BY <1>1, <1>4, <3>2 DEF Goto, TypeOK, Processes
      <4>2. run'[Worker].stage = "status"
        BY <1>1, <1>4, <4>1 DEF Run
      <4> QED
        BY <4>2 DEF Doing, Applying
    <3> QED
      BY <3>1, <3>2
  <2>6. e.key = i /\ e.spec = SpecOf(run[Worker].new)
    OBVIOUS
  <2> HIDE DEF e
  <2>7. Delivery!Finish
    BY <1>2, <2>3, <2>4, <2>5, <2>6 DEF Delivery!Finish
  <2> QED
    BY <2>7 DEF Step, Delivery!Next
<1> QED
  BY <1>3, <1>4 DEF Processes

\* Writing the status changes the resource version only.
LEMMA StatusStep ==
  ASSUME TypeOK, NEW p \in Processes, UpdateStatus(p)
  PROVE  Step
<1> DEFINE k == run[p].new.key
<1>1. /\ run[p].stage = "status" /\ Goto(p, Return(p))
      /\ UNCHANGED <<cache, queue, applied, mishap>>
      /\ store' = store \/ (store[k] # None /\ store' = [store EXCEPT ![k].rv = @ + 1])
  BY DEF UpdateStatus, history
<1> HIDE DEF k
<1>2. Wanted' = Wanted
  <2>1. \A i \in Ingresses : SpecOf(store'[i]) = SpecOf(store[i])
    <3> SUFFICES ASSUME NEW i \in Ingresses PROVE SpecOf(store'[i]) = SpecOf(store[i])
      OBVIOUS
    <3>0. store[i] \in Object \cup {None} /\ store \in [Ingresses -> Object \cup {None}]
      BY DEF TypeOK
    <3>1. CASE store'[i] = store[i]
      BY <3>1 DEF SpecOf, IsValid
    <3>2. CASE store[i] # None /\ store'[i] = [store[i] EXCEPT !.rv = @ + 1]
      <4>1. /\ store[i] \in Object /\ store'[i] \in Object
            /\ store'[i].spec = store[i].spec
        BY <3>0, <3>2 DEF Object
      <4>2. store'[i] # None
        BY <4>1, NoneAssumption
      <4> QED
        BY <3>2, <4>1, <4>2 DEF SpecOf, IsValid
    <3> QED
      BY <1>1, <3>0, <3>1, <3>2
  <2> QED
    BY <2>1 DEF Wanted, SpecOf, IsValid
<1>3. Doing' = Doing
  <2>1. CASE p = Worker
    <3>1. Doing = {}
      BY <1>1, <2>1 DEF Doing, Applying
    <3> QED
      BY <1>1, <2>1, <3>1, WorkerReturns
  <2>2. CASE p = Sync
    BY <1>1, <2>2, SyncUnseen
  <2> QED
    BY <2>1, <2>2 DEF Processes
<1> QED
  BY <1>1, <1>2, <1>3, Unseen, Stutter

\* Every call of ensureIngress, whoever makes it.
LEMMA CallStep ==
  ASSUME TypeOK, NEW p \in Processes, Call(p)
  PROVE  Step
<1>1. CASE InspectFails(p) \/ Refused(p)
  <2>1. Busy(run[p]) /\ Fail(p)
    BY <1>1 DEF InspectFails, Refused, Busy
  <2> QED
    BY <2>1, FailStep
<1> QED
  BY <1>1, LoopStep, DropStep, StageStep, FinishStep, StatusStep DEF Call

-----------------------------------------------------------------------------
(* nodeSyncLoop and the rest of the outside.                               *)

\* The passes themselves, and the nodes and services, are not seen.
LEMMA PassStep ==
  ASSUME TypeOK,
         \/ SyncLoop \/ FlagTick \/ ListFails \/ ChangeNodes
         \/ \E s \in Services : ChangeService(s)
  PROVE  Step
<1>1. CASE SyncLoop \/ FlagTick \/ ListFails
  <2>1. /\ \E r : Goto(Sync, r)
        /\ UNCHANGED <<store, cache, queue, applied, mishap>>
    BY <1>1 DEF SyncLoop, FlagTick, ListFails, NodeTick, StartPass, ListIngresses,
       SyncNext, EndPass, cluster, history
  <2>2. Doing' = Doing
    BY <2>1, SyncUnseen
  <2> QED
    BY <2>1, <2>2, Unseen, Stutter
<1>2. CASE ChangeNodes \/ \E s \in Services : ChangeService(s)
  <2>1. /\ UNCHANGED <<store, cache, queue, applied, run>>
        /\ mishap' = mishap \/ Mark(Ingresses, "flapped")
    BY <1>2 DEF ChangeNodes, ChangeService, controller, history
  <2>2. Excused' = Excused /\ Missed' = Missed
    <3>1. CASE mishap' = mishap
      BY <3>1, Unseen
    <3>2. CASE Mark(Ingresses, "flapped")
      BY <3>2, Excuses
    <3> QED
      BY <2>1, <3>1, <3>2
  <2> QED
    BY <2>1, <2>2, Unseen, Stutter
<1> QED
  BY <1>1, <1>2

\* Every step of the controller and of its environment.
LEMMA EveryStep ==
  ASSUME TypeOK, QueueInv, [Next]_vars
  PROVE  Step
<1>1. ASSUME NEW i \in Ingresses, Apply(i) PROVE Step
  <2>1. PICK s \in Specs : Store(i, [key |-> i, rv |-> version[i] + 1, spec |-> s])
    BY <1>1 DEF Apply
  <2>2. [key |-> i, rv |-> version[i] + 1, spec |-> s] \in Object
    BY DEF Object, TypeOK
  <2>3. UNCHANGED <<cache, queue, run, applied>>
    BY <1>1 DEF Apply, controller
  <2> DEFINE o == [key |-> i, rv |-> version[i] + 1, spec |-> s]
  <2>4. o \in Object \cup {None} /\ Store(i, o)
    BY <2>1, <2>2
  <2> HIDE DEF o
  <2> QED
    BY <2>3, <2>4, WantStep
<1>2. ASSUME NEW i \in Ingresses, Remove(i) PROVE Step
  <2>1. Store(i, None) /\ None \in Object \cup {None} /\ UNCHANGED <<cache, queue, run, applied>>
    BY <1>2 DEF Remove, controller
  <2> QED
    BY <2>1, WantStep
<1>3. ASSUME NEW i \in Ingresses, Deliver(i) PROVE Step
  BY <1>3, NoticeStep DEF QueueInv
<1>4. ASSUME NEW p \in Processes, CallFails(p) PROVE Step
  BY <1>4, FailStep DEF CallFails, Busy
<1>5. CASE UNCHANGED vars
  <2>1. UNCHANGED <<store, cache, queue, run, applied, mishap>>
    BY <1>5 DEF vars, cluster, controller, history
  <2> QED
    BY <2>1, Unseen, Stutter
<1> QED
  BY <1>1, <1>2, <1>3, <1>4, <1>5, PassStep, DropStep, RestartStep, StartStep, CallStep
  DEF Next, Outside

\* The initial states map to the initial state.
LEMMA StartsEmpty == Init => Delivery!Init
BY SpecOfOK DEF Init, Delivery!Init, Wanted, Heard, Noticed, Done, Excused, Missed, Todo, Doing,
   Applying, Busy, Idle, Processes, Spared

-----------------------------------------------------------------------------
\* Informer, queue and worker with all the calls between them and the vLB
\* service, with the other goroutine at work on the same ingresses, with
\* failures and restarts, implement EventDelivery.
THEOREM ImplementsDelivery == Spec => DeliverySpec
<1>1. TypeOK /\ QueueInv /\ [Next]_vars => [Delivery!Next]_(Delivery!vars)
  BY EveryStep DEF Step
<1>2. Spec => []QueueInv
  BY QueueInit, QueueStep, TypeCorrect, PTL DEF Spec
<1> QED
  BY <1>1, <1>2, StartsEmpty, TypeCorrect, PTL DEF Spec, DeliverySpec, Delivery!Spec

\* EventDelivery with its own invariant, under the same mapping.
LEMMA KeepsPromise == Spec => Promise!Spec
<1>1. [Delivery!Next]_(Delivery!vars) => [Promise!Next]_(Promise!vars)
  <2>1. \A i \in Ingresses : Delivery!Want(i) => Promise!Want(i)
    BY DEF Delivery!Want, Promise!Want
  <2>2. \A i \in Ingresses : Delivery!Notice(i) => Promise!Notice(i)
    BY DEF Delivery!Notice, Promise!Notice
  <2>3. \A i \in Ingresses : Delivery!CallFails(i) => Promise!CallFails(i)
    BY DEF Delivery!CallFails, Promise!CallFails
  <2>4. /\ Delivery!Start => Promise!Start
        /\ Delivery!Finish => Promise!Finish
        /\ Delivery!Drop => Promise!Drop
    BY DEF Delivery!Start, Promise!Start, Delivery!Finish, Promise!Finish,
       Delivery!Drop, Promise!Drop
  <2>5. Delivery!Restart => Promise!Restart
    BY DEF Delivery!Restart, Promise!Restart, Delivery!Caught, Promise!Caught,
       Delivery!Pending, Promise!Pending
  <2>6. Delivery!Next => Promise!Next
    BY <2>1, <2>2, <2>3, <2>4, <2>5 DEF Delivery!Next, Promise!Next
  <2> QED
    BY <2>6 DEF Delivery!vars, Promise!vars
<1>2. Delivery!Init => Promise!Init
  BY DEF Delivery!Init, Promise!Init
<1>3. Delivery!Spec => Promise!Spec
  BY <1>1, <1>2, PTL DEF Delivery!Spec, Promise!Spec
<1> QED
  BY <1>3, ImplementsDelivery, PTL DEF DeliverySpec

\* The object the worker is applying is the one the informer delivered last,
\* when no event of its ingress waits.
WorksOnLatest ==
    \A i \in Ingresses :
        /\ \A n \in DOMAIN queue : queue[n].obj.key # i
        /\ Applying(run[Worker]) /\ Target(run[Worker]).key = i
        => SpecOf(run[Worker].new) = SpecOf(cache[i])

LEMMA AlwaysLatest == Spec => []WorksOnLatest
<1>1. Promise!DeliveryInv => WorksOnLatest
  <2> SUFFICES ASSUME Promise!LastDoing, NEW i \in Ingresses,
                      \A n \in DOMAIN queue : queue[n].obj.key # i,
                      Applying(run[Worker]), Target(run[Worker]).key = i
               PROVE  SpecOf(run[Worker].new) = SpecOf(cache[i])
    BY DEF Promise!DeliveryInv, WorksOnLatest
  <2> DEFINE e == [key |-> i, spec |-> SpecOf(run[Worker].new)]
  <2>1. e \in Doing
    BY DEF Doing
  <2>2. \A n \in DOMAIN Todo : Todo[n].key # e.key
    BY DEF Todo
  <2>3. e.spec = Noticed[e.key]
    BY <2>1, <2>2 DEF Promise!LastDoing
  <2> QED
    BY <2>3 DEF Noticed
<1> QED
  BY <1>1, KeepsPromise, Promise!DeliveryInvariant, PTL

\* When the worker has nothing left to do for an ingress that no failed call
\* and no missed end excuses, the last object it applied is the stored
\* one, for any number of ingresses, edits, passes and restarts.
THEOREM AppliedCurrent == Spec => []AppliedIsCurrent
<1>1. TypeOK /\ Promise!Current => AppliedIsCurrent
  <2> SUFFICES ASSUME TypeOK, Promise!Current, NEW i \in Ingresses,
                      Quiet(i), Spared(i, {"failed"}),
                      IsValid(store[i]) \/ Spared(i, {"unnoticed"})
               PROVE  SpecOf(applied[i]) = SpecOf(store[i])
    BY DEF AppliedIsCurrent
  <2>1. Delivery!Caught(i)
    BY QuietIsCaught
  <2>2. Promise!Caught(i)
    BY <2>1 DEF Delivery!Caught, Promise!Caught, Delivery!Pending, Promise!Pending
  <2>3. i \notin Excused /\ (Wanted[i] # None \/ i \notin Missed)
    BY SpecOfOK DEF Excused, Missed, Wanted, TypeOK
  <2>4. Done[i] = Wanted[i]
    BY <2>2, <2>3 DEF Promise!Current
  <2> QED
    BY <2>4 DEF Done, Wanted
<1> QED
  BY <1>1, KeepsPromise, Promise!DeliveryIsCurrent, TypeCorrect, PTL
=============================================================================
