---------------------------- MODULE LoadBalancers ----------------------------
(***************************************************************************)
(* Which load balancer an ingress is on, and the calls that wait for it:   *)
(* find by annotation or by name, or create; WaitForLBActive before the    *)
(* first call that changes something and after each; the calls repeated    *)
(* while vLB answers LoadBalancerNotReady                                  *)
(* (src/pkg/ingress/controller/controller.go:572-631, 876-932, 1137-1183,  *)
(* 1350-1436, api.go:40-209, 478-516).                                     *)
(*                                                                         *)
(* An ingress is what its annotation load-balancer-id names, None without  *)
(* one.  What it has on a load balancer is a pool and a policy, each       *)
(* written by one call: IngressController has the calls in between.  A     *)
(* load balancer is not ready after each change until vLB has carried it   *)
(* out, whichever goroutine asked for it.                                  *)
(***************************************************************************)
EXTENDS Naturals, Sequences, FiniteSets

CONSTANTS
    Ingresses,   \* the namespaced names of Ingress objects
    Given,       \* load balancers the users made
    Specs,       \* what the users write: load balancers, or None
    None,        \* nothing there
    Absent,      \* an ingress that does not exist
    Stores,      \* what may be stored when the controller starts
    Limit,       \* how often each kind of outside event may happen
    Total        \* and how many of them together

Worker == "worker"
Sync   == "sync"
Processes == {Worker, Sync}

Parts == {"pool", "policy"}
Kinds == {"edit", "pass", "trouble"}
Reasons == {"lost", "left", "moved", "raced"}

Ingress == Specs \cup {Absent}

\* The k-th load balancer of the name of ingress i is <<i, k>>.
Balancers == Given \cup (Ingresses \X Nat)

ASSUME IngressesAssumption == IsFiniteSet(Ingresses)

ASSUME SpecsAssumption ==
    /\ Specs \subseteq Balancers \cup {None}
    /\ None \notin Balancers \cup Ingresses
    /\ Absent \notin Balancers \cup {None}
    /\ Given \cap (Ingresses \X Nat) = {}

ASSUME StoresAssumption == Stores \subseteq [Ingresses -> Ingress]

ASSUME LimitAssumption == Limit \in [Kinds -> Nat] /\ Total \in Nat

VARIABLES
    store,       \* the ingresses at the API server
    queue,       \* c.queue
    run,         \* where each goroutine is
    todo,        \* nodeSyncLoop's remaining ings.Items
    lbs,         \* the load balancers of the subnet
    made,        \* how many load balancers of each name there have been
    mishap,      \* history: what happened that excuses a property
    spent        \* how many outside events of each kind happened

vars == <<store, queue, run, todo, lbs, made, mishap, spent>>

-----------------------------------------------------------------------------
Calls == {"idle", "list", "next", "find", "make", "wait", "write"}

\* ask: the annotation of the object that is ensured or deleted; parts: what
\* is still to be written, or deleted.
Idle == [call |-> "idle", key |-> None, ask |-> None, deletes |-> FALSE,
         lb |-> None, parts |-> <<>>]

\* ensureIngress writes the pool before the policy that redirects to it.
Ensuring(i, new) ==
    [Idle EXCEPT !.call = "find", !.key = i, !.ask = new, !.parts = <<"pool", "policy">>]

\* Mutant: an object that is deleted keeps its pool.
DeletingPolicy(i, old) ==
    [Idle EXCEPT !.call = "find", !.key = i, !.ask = old, !.deletes = TRUE, !.parts = <<"policy">>]

\* deleteIngress looks for the load balancer like ensureIngress.
Deleting(i, old) ==
    [Idle EXCEPT !.call = "find", !.key = i, !.ask = old, !.deletes = TRUE,
       !.parts = <<"policy", "pool">>]

Return(p) == IF p = Worker THEN Idle ELSE [Idle EXCEPT !.call = "next"]

Busy(r) == r.call \in {"find", "make", "wait", "write"}

Goto(p, r) == run' = [run EXCEPT ![p] = r]
At(p, call) == run[p].call = call

Event(i, old, new) == [key |-> i, old |-> old, new |-> new]

Spend(kind) ==
    /\ spent[kind] < Limit[kind]
    /\ spent["edit"] + spent["pass"] + spent["trouble"] < Total
    /\ spent' = [spent EXCEPT ![kind] = @ + 1]

Mark(why, if) == mishap' = mishap \cup (IF if THEN {why} ELSE {})

\* Nothing is under way and nothing is due.
Rest == queue = <<>> /\ \A p \in Processes : At(p, "idle")

\* The informer lists what is stored: a create for each, in any order.
Listed(stored) ==
    LET is == {i \in Ingresses : stored[i] # Absent}
        orders == {order \in [1 .. Cardinality(is) -> is] :
                      \A i \in is : \E j \in DOMAIN order : order[j] = i}
    IN  {[j \in DOMAIN order |-> Event(order[j], Absent, stored[order[j]])] : order \in orders}

Init ==
    /\ store \in Stores
    /\ queue \in Listed(store)
    /\ run = [p \in Processes |-> Idle]
    /\ todo = {}
    /\ lbs = [b \in Given |-> [name |-> None, status |-> "ACTIVE", serves |-> {}]]
    /\ made = [i \in Ingresses |-> 0]
    /\ mishap = {}
    /\ spent = [kind \in Kinds |-> 0]

-----------------------------------------------------------------------------
(* The users, and the worker's queue.                                      *)

\* What an ingress has on a load balancer its annotation named before is
\* looked for on the one it names now, and stays.
Edit(i) ==
    /\ Spend("edit")
    /\ \E new \in Ingress \ {store[i]} :
        /\ store' = [store EXCEPT ![i] = new]
        /\ queue' = Append(queue, Event(i, store[i], new))
        /\ Mark("moved", store[i] # Absent /\ new # Absent)
    /\ UNCHANGED <<run, todo, lbs, made>>

Take ==
    /\ At(Worker, "idle")
    /\ queue # <<>>
    /\ LET e == Head(queue)
       IN  Goto(Worker, IF e.new = Absent THEN Deleting(e.key, e.old) ELSE Ensuring(e.key, e.new))
    /\ queue' = Tail(queue)
    /\ UNCHANGED <<store, todo, lbs, made, mishap, spent>>

-----------------------------------------------------------------------------
(* ensureLoadBalancer.                                                     *)

Named(i) == {b \in DOMAIN lbs : lbs[b].name = i}

\* Mutants: only load balancers that are active count; the annotation is not
\* compared with the list.
FoundActive(r) ==
    IF r.ask # None THEN {r.ask} \cap DOMAIN lbs
                    ELSE {b \in Named(r.key) : lbs[b].status = "ACTIVE"}
FoundTrusting(r) == IF r.ask # None THEN {r.ask} ELSE Named(r.key)

\* The load balancers GetLoadbalancerIDByIngress may return.
Found(r) == IF r.ask # None THEN {r.ask} \cap DOMAIN lbs ELSE Named(r.key)

Find(p) ==
    /\ At(p, "find")
    /\ \E b \in Found(run[p]) : Goto(p, [run[p] EXCEPT !.call = "wait", !.lb = b])
    /\ UNCHANGED <<store, queue, todo, lbs, made, mishap, spent>>

\* None of the name: this goroutine will create one, and so will the other if
\* it has found out the same.
FindNothing(p) ==
    /\ At(p, "find")
    /\ run[p].ask = None /\ Found(run[p]) = {}
    /\ Goto(p, [run[p] EXCEPT !.call = "make"])
    /\ Mark("raced", \E q \in Processes \ {p} : At(q, "make") /\ run[q].key = run[p].key)
    /\ UNCHANGED <<store, queue, todo, lbs, made, spent>>

Created(i) ==
    /\ made' = [made EXCEPT ![i] = @ + 1]
    /\ lbs' = [b \in DOMAIN lbs \cup {<<i, made'[i]>>} |->
                 IF b \in DOMAIN lbs THEN lbs[b]
                 ELSE [name |-> i, status |-> "CREATING", serves |-> {}]]

\* Mutant: the id of the new load balancer is forgotten.
CreateLBForgotten(p) ==
    /\ At(p, "make")
    /\ Created(run[p].key)
    /\ Goto(p, [run[p] EXCEPT !.call = "wait"])
    /\ UNCHANGED <<store, queue, todo, mishap, spent>>

\* An object that is deleted gets a load balancer too.
CreateLB(p) ==
    /\ At(p, "make")
    /\ Created(run[p].key)
    /\ Goto(p, [run[p] EXCEPT !.call = "wait", !.lb = <<run[p].key, made'[run[p].key]>>])
    /\ UNCHANGED <<store, queue, todo, mishap, spent>>

\* GetLB answers ACTIVE; other states are asked for again, for ever.  After
\* the last part there is nothing more to do.
WaitForLBActive(p) ==
    /\ At(p, "wait")
    /\ run[p].lb \in DOMAIN lbs
    /\ lbs[run[p].lb].status = "ACTIVE"
    /\ Goto(p, IF run[p].parts = <<>> THEN Return(p) ELSE [run[p] EXCEPT !.call = "write"])
    /\ UNCHANGED <<store, queue, todo, lbs, made, mishap, spent>>

-----------------------------------------------------------------------------
(* actionCompareIngress, as far as it changes the load balancer.           *)

\* What is on the load balancer after the next part.  A part that is there
\* is found and kept; vLB does not delete a pool a policy redirects to.
After(r) ==
    LET there == lbs[r.lb].serves
        part  == Head(r.parts)
    IN  CASE ~r.deletes -> there \cup {<<r.key, part>>}
          [] r.deletes /\ part = "pool" /\ <<r.key, "policy">> \in there -> there
          [] OTHER -> there \ {<<r.key, part>>}

\* vLB refuses a policy to a pool the other goroutine deleted.
Possible(r) ==
    /\ r.lb \in DOMAIN lbs
    /\ ~r.deletes /\ Head(r.parts) = "policy" => <<r.key, "pool">> \in lbs[r.lb].serves

Changes(r) == After(r) # lbs[r.lb].serves

\* What changes nothing is not answered LoadBalancerNotReady.
Ready(r) == Changes(r) => lbs[r.lb].status = "ACTIVE"

\* The object a pass writes is not the one stored now.
Outdated(p) == p = Sync /\ run[p].ask # store[run[p].key]

Following(p) ==
    IF Len(run[p].parts) = 1 THEN Return(p) ELSE [run[p] EXCEPT !.parts = Tail(@)]

Awaiting(p) == [run[p] EXCEPT !.call = "wait", !.parts = Tail(@)]

\* ensurePool, ensurePoolMember and ensurePolicy wait in any case, deletePool
\* and deletePolicy when they have deleted something.
WaitsAfter(r) == ~r.deletes \/ Changes(r)

Written(p) ==
    LET r == run[p]
    IN  /\ lbs' = [lbs EXCEPT ![r.lb].serves = After(r),
                              ![r.lb].status = IF Changes(r) THEN "PENDING" ELSE @]
        /\ Goto(p, IF WaitsAfter(r) THEN Awaiting(p) ELSE Following(p))
        /\ Mark("left", Outdated(p))

\* Mutant: LoadBalancerNotReady is an error like others.
WriteOnce(p) ==
    /\ At(p, "write")
    /\ Possible(run[p])
    /\ IF Ready(run[p]) THEN Written(p)
       ELSE Goto(p, Return(p)) /\ UNCHANGED <<lbs, mishap>>
    /\ UNCHANGED <<store, queue, todo, made, spent>>

\* A call that changes something is repeated until the load balancer is ready.
Write(p) ==
    /\ At(p, "write")
    /\ Possible(run[p]) /\ Ready(run[p])
    /\ Written(p)
    /\ UNCHANGED <<store, queue, todo, made, spent>>

-----------------------------------------------------------------------------
(* Failures.                                                               *)

\* ensureIngress or deleteIngress returns an error: nothing is tried again.
Fail(p) ==
    /\ Goto(p, Return(p))
    /\ mishap' = mishap \cup {IF run[p].deletes THEN "left" ELSE "lost"}
    /\ UNCHANGED <<store, queue, todo>>

\* ErrLoadBalancerIDNotFoundAnnotation, or vLB cannot do what it is asked.
Refused(p) ==
    /\ \/ At(p, "find") /\ run[p].ask # None /\ Found(run[p]) = {}
       \/ At(p, "write") /\ ~Possible(run[p])
    /\ Fail(p)
    /\ UNCHANGED <<lbs, made, spent>>

CallFails(p) ==
    /\ \/ At(p, "find")
       \/ At(p, "write") /\ ~run[p].deletes
    /\ Spend("trouble")
    /\ Fail(p)
    /\ UNCHANGED <<lbs, made>>

\* CreateLB answers with an error, and has or has not created one.
CreateFails(p) ==
    /\ At(p, "make")
    /\ Spend("trouble")
    /\ Fail(p)
    /\ Created(run[p].key) \/ UNCHANGED <<lbs, made>>

\* The error of deletePolicy or deletePool is only logged.
DeleteFails(p) ==
    /\ At(p, "write") /\ run[p].deletes
    /\ Spend("trouble")
    /\ Goto(p, Following(p))
    /\ Mark("left", TRUE)
    /\ UNCHANGED <<store, queue, todo, lbs, made>>

\* The process ends and starts again: queue and stacks are lost, and the
\* informer lists every ingress anew, which repairs what is not to be deleted.
Restart ==
    /\ queue' \in Listed(store)
    /\ run' = [p \in Processes |-> Idle]
    /\ todo' = {}
    /\ mishap' = (mishap \ {"lost"}) \cup (IF Rest THEN {} ELSE {"left"})
    /\ UNCHANGED <<store, lbs, made>>

Crash == Restart /\ Spend("trouble")

\* WaitForLBActive reads the status of a load balancer GetLB did not return.
GetLBPanics(p) ==
    /\ At(p, "wait")
    /\ run[p].lb \notin DOMAIN lbs
    /\ Restart
    /\ UNCHANGED spent

-----------------------------------------------------------------------------
(* vLB, and whoever else uses it.                                          *)

Activate(b) ==
    /\ lbs[b].status \in {"CREATING", "PENDING"}
    /\ lbs' = [lbs EXCEPT ![b].status = "ACTIVE"]
    /\ UNCHANGED <<store, queue, run, todo, made, mishap, spent>>

Break(b) ==
    /\ lbs[b].status \in {"CREATING", "PENDING"}
    /\ Spend("trouble")
    /\ lbs' = [lbs EXCEPT ![b].status = "ERROR"]
    /\ UNCHANGED <<store, queue, run, todo, made, mishap>>

\* A user deletes a load balancer; the controller never does.
Drop(b) ==
    /\ Spend("trouble")
    /\ lbs' = [c \in DOMAIN lbs \ {b} |-> lbs[c]]
    /\ Mark("lost", TRUE)
    /\ UNCHANGED <<store, queue, run, todo, made>>

-----------------------------------------------------------------------------
(* nodeSyncLoop.                                                           *)

\* The nodes or a secret changed, or the default pool asks for a pass.
Tick ==
    /\ At(Sync, "idle")
    /\ Spend("pass")
    /\ Goto(Sync, [Idle EXCEPT !.call = "list"])
    /\ UNCHANGED <<store, queue, todo, lbs, made, mishap>>

ListIngresses ==
    /\ At(Sync, "list")
    /\ todo' = {<<i, store[i]>> : i \in {j \in Ingresses : store[j] # Absent}}
    /\ Goto(Sync, [Idle EXCEPT !.call = "next"])
    /\ UNCHANGED <<store, queue, lbs, made, mishap, spent>>

SyncNext ==
    /\ At(Sync, "next")
    /\ \E t \in todo :
        /\ todo' = todo \ {t}
        /\ Goto(Sync, Ensuring(t[1], t[2]))
    /\ UNCHANGED <<store, queue, lbs, made, mishap, spent>>

EndPass ==
    /\ At(Sync, "next")
    /\ todo = {}
    /\ Goto(Sync, Idle)
    /\ UNCHANGED <<store, queue, todo, lbs, made, mishap, spent>>

-----------------------------------------------------------------------------
Call(p) ==
    \/ Find(p) \/ FindNothing(p) \/ CreateLB(p) \/ WaitForLBActive(p) \/ Write(p)
    \/ Refused(p) \/ GetLBPanics(p)

SyncLoop == ListIngresses \/ SyncNext \/ EndPass

Next ==
    \/ \E i \in Ingresses : Edit(i)
    \/ \E b \in DOMAIN lbs : Activate(b) \/ Break(b) \/ Drop(b)
    \/ Take \/ Tick \/ SyncLoop \/ Crash
    \/ \E p \in Processes : Call(p) \/ CallFails(p) \/ CreateFails(p) \/ DeleteFails(p)

\* The worker keeps taking events, a pass goes on, a goroutine that can make a
\* call makes it, and a load balancer becomes active unless it breaks.
Fairness ==
    /\ WF_vars(Take)
    /\ WF_vars(SyncLoop)
    /\ \A p \in Processes : WF_vars(Call(p))
    /\ WF_vars(\E b \in DOMAIN lbs : Activate(b))

Spec == Init /\ [][Next]_vars
FairSpec == Spec /\ Fairness

-----------------------------------------------------------------------------
(* Properties.                                                             *)

\* The load balancers an object of an ingress asks for
AsksFor(i, b) == store[i] = b \/ (store[i] = None /\ b \in Named(i))

\* No second load balancer of a name is made, whatever is edited, fails or is
\* answered too late, and although an object that is deleted gets one as
\* well: a restart finds the one made before.  Excused: both goroutines found
\* none before either made one.
OneBalancerPerName ==
    "raced" \notin mishap => \A i \in Ingresses : \A b, c \in Named(i) : b = c

\* At rest an ingress has its pool and its policy on the load balancer it
\* asks for, although the other goroutine kept it from being ready, and a
\* pass or the deletion of another ingress went on at the same time.
\* Excused: a call failed since the last restart, or a user deleted the load
\* balancer.
ServedWhereAsked ==
    Rest /\ "lost" \notin mishap =>
        \A i \in Ingresses : store[i] # Absent =>
            \E b \in DOMAIN lbs :
                AsksFor(i, b) /\ \A part \in Parts : <<i, part>> \in lbs[b].serves

\* At rest a load balancer has nothing of an ingress that does not exist or
\* asks for another one.  Excused: the annotation changed, a deletion failed
\* or was lost in a restart, a pass wrote an object of before, or there are
\* two of a name.
NothingElsewhere ==
    Rest /\ mishap \subseteq {"lost"} =>
        \A b \in DOMAIN lbs : \A s \in lbs[b].serves : AsksFor(s[1], b)

\* Everything comes to an end unless a goroutine waits for a load balancer
\* that will never be ready: the goroutines do not keep each other waiting,
\* and a load balancer that is gone ends the process once and not after each
\* restart again.
Settles ==
    <>[]Rest \/ <>[](\E p \in Processes :
                        run[p].lb \in DOMAIN lbs /\ lbs[run[p].lb].status = "ERROR")

Balancer == [name : Ingresses \cup {None}, serves : SUBSET (Ingresses \X Parts),
             status : {"CREATING", "PENDING", "ACTIVE", "ERROR"}]

Run == [call : Calls, key : Ingresses \cup {None}, ask : Ingress \cup {None}, deletes : BOOLEAN,
        lb : Balancers \cup {None}, parts : Seq(Parts)]

\* A busy goroutine has an ingress, and something to write unless it waits for
\* the last part; one that waits or writes has a load balancer.
RunOK(r) ==
    /\ Busy(r) => r.key \in Ingresses
    /\ r.call \in {"find", "make", "write"} => r.parts # <<>>
    /\ r.call \in {"wait", "write"} => r.lb # None

\* Every variable has its type, and every run is one its calls can handle: a
\* load balancer was found or made before its state is asked for.
TypeOK ==
    /\ store \in [Ingresses -> Ingress]
    /\ queue \in Seq([key : Ingresses, old : Ingress, new : Ingress])
    /\ run \in [Processes -> Run]
    /\ \A p \in Processes : RunOK(run[p])
    /\ todo \in SUBSET (Ingresses \X Ingress)
    /\ DOMAIN lbs \subseteq Balancers
    /\ lbs \in [DOMAIN lbs -> Balancer]
    /\ made \in [Ingresses -> Nat]
    /\ mishap \in SUBSET Reasons
    /\ spent \in [Kinds -> Nat]
=============================================================================
