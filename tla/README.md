# vngcloud-ingress-controller in TLA+

The controller turns Kubernetes `Ingress` objects into pools, members and L7
policies of a vLB load balancer. This directory holds TLA+ modules of its
control logic, TLC runs that check them on small instances, and theorems proved
with TLAPS. All line numbers are of `src/pkg/ingress/controller/controller.go`
unless a file is named.

## The system

| component | state | operations |
|---|---|---|
| ingress informer (122-190) | the last delivered objects | `AddFunc`, `UpdateFunc`, `DeleteFunc`: classify a change with `IsValid` and queue a CREATE, UPDATE (with the old object) or DELETE event |
| work queue and worker (291-369) | `c.queue` | `processNextItem` takes an event, `processItem` calls `ensureIngress` or `deleteIngress` and returns nil whatever happened |
| ensuring an ingress (371-430, 605-1182, 1268-1285, 1349-1435) | none but the stack; reads vLB, services, nodes | find the load balancer, `inspectIngress` of the old and the new object, `inspectCurrentLB`, then `actionCompareIngress`: pools with their members, policies, unused policies, unused pools; then the status |
| `nodeSyncLoop` (241-289), every 60 s | `knownNodes`, `isUpdateDefaultPool`, secret versions | when one of them changed, list all ingresses and `ensureIngress(nil, ing)` each, then set `knownNodes` |
| default pool (1184-1266) | `isUpdateDefaultPool`; one pool shared by all ingresses of a load balancer | merge the members of the default backends |
| certificates (750-765, 944-982, 1115-1131), `secretTracker.go` | `SecretTrackers` | import, attach, delete unused ones; notice changed secrets |
| listeners (1287-1347) | at vLB | find or create, set the default pool and certificate |
| load balancers (572-603, 904-932) | at vLB | find by annotation or name, or create |
| vLB client, `api.go` | none | repeat a call answered `LoadBalancerNotReady`; wait for `ACTIVE` |
| names and comparisons, `utils.go`, `controller_utils.go` | none | names of pools and policies, node predicates, member comparison |
| start, configuration, metadata, metrics | constants | start-up I/O |

The components interact through the queue (informer to worker), through the API
server (objects, status, services, nodes) and above all through vLB: the worker
and `nodeSyncLoop` are two goroutines that run `ensureIngress` on the same
ingresses without a lock, each of them a sequence of a dozen remote calls whose
decisions rest on what earlier calls returned.

What is hard here, and what makes each part correct:

* **informer and queue**: versions may be skipped, the class may change, the
  process may restart. Correct when the last event of an ingress is about its
  last object and each update names the object before it (`EventsChain`,
  `AppliedIsCurrent`, and the whole as the refinement `DeliverySpec`).
* **ensuring an ingress**: policies are named after their index, so an insertion
  renames all that follow; the errors of deletions are ignored. Correct when
  exactly what the object asks for is on the load balancer afterwards
  (`AppliedExactly`), what did not change was served all the time
  (`KeepsServing`), and no deletion of a pool is refused (`DropsUnusedPools`).
* **`nodeSyncLoop`**: it works from a list that grows old while it runs, and
  counts a pass as done whatever failed in it. Correct when the members follow
  the nodes (`MembersFollowNodes`), deleted ingresses stay deleted
  (`DeletedIsGone`, violated) and passes come to an end (`ComesToRest`).
* **default pool**: two goroutines read, merge and write the members of one pool
  that all ingresses share, and set and clear a flag. Correct when every default
  backend keeps its members although others remove theirs (`DefaultsServed`),
  nothing else stays (`NoStrays`), the comparison by length and one inclusion is
  exact (`OneMemberPerAddress`) and the flag does not keep asking (`PassesEnd`).
* **certificates**: one tracker for a secret of several ingresses, versions
  recorded before the import, a secret read twice, deletion of what is not in
  use at that moment. Correct when the listener has the secret as it is
  (`CertificateFollows`), what is used stays tracked (`SecretsTracked`), the
  certificates of secrets that no ingress uses any more go (`NothingLeftOver`; older
  versions of a used secret may stay) and changes are noticed once (`PassesEnd`).
* **load balancers**: find-or-create by two goroutines, calls repeated without a
  bound. Correct when no second load balancer of a name is made
  (`OneBalancerPerName`), an ingress is served where it asks and nowhere else
  (`ServedWhereAsked`, `NothingElsewhere`), and waiting ends (`Settles`).

`PROJECT.json` lists each hazard at its line with the properties that watch it.

## The modules

* `IngressController`: the core. Informer, queue, worker, `nodeSyncLoop`,
  `ensureIngress` call by call, the users, services, nodes, failing calls and
  restarts.
* `EventDelivery`: the abstract promise of informer, queue and worker, with no
  vLB and no calls: changes are noticed late, some are skipped, what was noticed
  is applied one at a time and in order.
* `IngressDelivery`: the refinement mapping from the first to the second.
* `DefaultPool`, `Certificates`, `LoadBalancers`: one shared part each, with the
  same two goroutines around it. Each takes from `ensureIngress` only the calls
  that concern its part, and gives the informer's events at once and in order,
  which is what `EventDelivery` lets them rely on.
* `MCIngressController` (extends `IngressDelivery`), `MCDefaultPool`,
  `MCCertificates`, `MCLoadBalancers`: small instances for TLC.
* `IngressControllerProofs`, `EventDeliveryProofs`, `IngressDeliveryProofs`,
  `AppliedExactlyProofs`, `MembersProofs`, `DefaultPoolProofs`,
  `CertificatesProofs`, `LoadBalancersProofs`: the theorems.

The lines each definition stands for are under `map` in `PROJECT.json`.

### The core: `IngressController`

| variable | code |
|---|---|
| `store`, `version`, `vip`, `nodes`, `ports` | the API server: Ingress objects with resource versions, their status, the ready nodes, the services' node ports (the node and service listers are taken to be up to date) |
| `cache`, `queue` | the informer's store, `c.queue` |
| `knownNodes` | `c.knownNodes` |
| `pass` | `readyWorkerNodes` and what is left of `ings.Items` in `nodeSyncLoop` |
| `run` | the stack of each goroutine: stage of `actionCompareIngress`, item of its loop, next call, the nodes and ports read by `inspectIngress`, the policies found by `inspectCurrentLB` |
| `pool`, `policy` | vLB: members of each pool, pool and rule of each policy, by load balancer and name |
| `applied`, `mishap`, `spent` | history only: the last object the worker finished, what excuses a property, how many outside events there were |

`Deliver` is a notification of the informer with the handler that follows it;
`Take` is `queue.Get`; `Inspect`, `InspectCurrentLB`, `FindPool`, `CreatePool`,
`GetMemberPool`, `UpdatePoolMember`, `FindPolicy`, `CreatePolicy`, `GetPolicy`,
`UpdatePolicy`, `FindOldPolicy`, `DeletePolicy`, `FindOldPool`, `DeletePool` and
`UpdateStatus` are one remote call each, with the decision taken on its answer;
`EndLoop` and `EndDrops` leave a loop of `actionCompareIngress`. The two loops of
deletions go over all paths of the old object; `RedundantPolicy` and
`RedundantPool` are the tests with `policyWillUse` and `poolWillUse` in them. `Refused` is a
call vLB rejects because the other goroutine was faster. `Fail` is the error
return: the worker forgets the event, the pass goes on with its next ingress.
`NodeTick`, `FlagTick`, `ListIngresses`, `SyncNext` and `EndPass` are
`nodeSyncLoop`; `Crash` is a restart.

A call whose answer is lost after it took effect needs no action of its own: it
is the call, and then the failure of the next one.

Simplifications: names are tuples of what they are built from; members are pairs
of node and port; rule and host of a path are one value. `inspectIngress` reads
nodes and services of all paths in one step. Pools and policies are identified
by name, not by UUID. The load balancer exists, the waits for it are stutters,
and default pool, listener and certificates are left to their modules. vLB is
taken to refuse a second pool or policy of one name, and the deletion of a pool
in use; the code is written for that.

### The promise: `EventDelivery` and `IngressDelivery`

| `EventDelivery` | in `IngressController` |
|---|---|
| `wanted[i]` | the spec in `store[i]`, `None` for an ingress that is absent or of another class |
| `heard`, `noticed[i]` | whether `cache` has an object of `i`, and its spec |
| `todo` | `queue`, each event as the spec it asks for |
| `doing` | the worker's ingress and object, until only the status is left to write |
| `applied[i]` | the spec in `applied[i]` |
| `excused` | the ingresses with `failed` in `mishap` |
| `missed` | the ingresses with `unnoticed` in `mishap`: their end is forgiven only until they are back |

The calls of the worker, all of `nodeSyncLoop`, status writes and everything
about services and nodes are stutters. The last call that is not about the
status is `Finish`; an error before it is `Drop`, any other failing call is
`CallFails`; a crash is `Restart`.

### `DefaultPool`

`pool` is the shared pool, `flag` is `isUpdateDefaultPool`; `run` holds what
`ensureDefaultPoolMember` has on its stack: the members of the old and the new
object's backend (taken at `Take` and `SyncNext` from the ready nodes, as
`inspectIngress` does) and the members it got. `GetMemberPool`, `CompareMembers`
and `UpdatePoolMember` are its three steps; `CompareMembers` sets the flag before
the write it announces (1258-1259). `Merge` is the code's filter by name prefix
and address. `Tick` reads the nodes and clears the flag in one step (250-266);
the flag is cleared before `List` (`ListIngresses`, `ListFails`). `SecretTick` is
a pass for another reason. The pool's own find-or-create is left out, it has no
further state.

### `Certificates`

A secret is its version, which stands for its contents. `Inspect` reads the
secrets of both objects, `Track` does all removals and additions of
`SecretTrackers`, `ListCertificate` and `ImportCertificate` are
`EnsureCertificate` for all secrets (the import reads the secret again,
`toVngCloudCertificate`), `FindListener`, `CreateListener` and `UpdateListener` are
`ensureListener`, `ListRedundant` and `DeleteCertificate` are
`DeleteRedundantCertificate`. `SecretTick` is `CheckSecretTrackerChange`.
`SecretMissing` and `Refused` are errors that need no failing call. vLB is taken
to refuse a second listener of the port, a certificate that does not exist, and
the deletion of one in use. All ingresses are on one load balancer. Every entry
of `spec.tls` is taken to have a host: the code imports and tracks the secret of
one without hosts too, but ensures no HTTPS listener for it (633-643).

### `LoadBalancers`

`lbs` are the load balancers of the subnet with name, state and what each
ingress has there; `<<i, k>>` is the k-th one created for ingress `i`. `Find`,
`FindNothing` and `CreateLB` are `ensureLoadBalancer`; `WaitForLBActive` and
`Write` are enabled only when the load balancer is in the state the code loops
for, so a loop is a wait. What an ingress has is one pool and one policy, written
or deleted in the order of `actionCompareIngress`; the calls in between are in the
core. After each part the goroutine waits again (`Awaiting`), also when nothing was
to be changed; only a deletion that deleted nothing does not (`WaitsAfter`). `Activate`, `Break` and `Drop` are vLB and its other users. `GetLBPanics`:
when the load balancer is gone `GetLB` returns nil, `WaitForLBActive` reads its
status (api.go:486) and the process restarts.

Assumed: the list of load balancers shows one as soon as it was created, vLB
answers `LoadBalancerNotReady` to every change while a load balancer is not
active, and not to a call that changes nothing.

## The runs

Every run is bounded by its `Limit`: how often each kind of outside event (edit
by a user, change of a service, secret or the nodes, pass for another reason,
failing call, restart) may happen, and in two modules by `Total`, how many of
them together. What the program does in between is not bounded. When the budget
is spent and all is done the system stops, hence `CHECK_DEADLOCK FALSE`. `spent`,
`Limit` and `Total` are the only bounds; resource versions, the versions of
secrets and the number of load balancers are bounded by the edits and creations
they count.

| run | instance | shows |
|---|---|---|
| `core_events` | 2 ingresses; four specs (two paths, the first removed so that the other moves up, the first behind TLS while the other stays, another class); 3 edits, 1 fault | `AppliedExactly`, `AppliedIsCurrent`, `EventsChain`, `KeepsServing`, `DropsUnusedPools`, and the refinement `DeliverySpec` |
| `core_restart` | 1 ingress; 2 edits, 1 service change, 1 pass, 1 fault, 1 restart | `TypeOK`, `AppliedExactly`, `AppliedIsCurrent` |
| `core_sync` | 1 ingress, 2 load balancers, 2 nodes; 2 edits, 1 node change | `AppliedExactly`, `MembersFollowNodes` |
| `core_nodes` | 1 ingress, 2 nodes; 1 edit, 2 node changes; with fairness | `MembersFollowNodes`, `ComesToRest` |
| `core_pair` | 2 ingresses; 2 edits, 1 node change, 1 fault | `AppliedExactly`, `MembersFollowNodes` |
| `default_pool` | 2 ingresses that share a backend, a second backend whose name has that of the first as a prefix; 1 edit, 1 node replaced, 1 failing call, restart or other pass; with fairness | `TypeOK`, `OneMemberPerAddress`, `DefaultsServed`, `NoStrays`, `PassesEnd` |
| `certificates` | 2 ingresses that share a secret, a second secret; 2 outside events of any kinds; with fairness | `TypeOK`, `CertificateFollows`, `SecretsTracked`, `NothingLeftOver`, `PassesEnd` |
| `load_balancers` | 2 ingresses, one with a load balancer of its own, one on a user's, the edit may share the first; 3 outside events; with fairness | `TypeOK`, `OneBalancerPerName`, `ServedWhereAsked`, `NothingElsewhere`, `Settles` |
| `stale_pass` | 1 ingress; 2 edits, 1 pass; the informer reports both edits, no call fails | `DeletedIsGone` is violated |
| `stale_members` | 1 ingress, 2 nodes; 1 edit, 1 node change | `MembersAreReadyNodes` is violated |
| `no_retry` | 1 ingress; 1 edit, 1 fault; with fairness | `FailedIsRetried` is violated |
| `stale_certificate` | the ingresses of `certificates`; 1 edit, 1 new version, nothing fails | `SecretIsFollowed` is violated |

Why the bounds are enough: a property of one ingress is violated by what happens
between the last object applied and the next, so two objects and one more edit
reach every pair of old and new object; two goroutines exist; two nodes tell the
lists before, during and after a pass apart; two ingresses show what a pass does
to the second when the first fails, whether names mix, and what one does to a
part both share. Three edits in `core_events` queue a create, an update and a
delete before the first is taken. In the runs of the shared parts the system starts with
both ingresses stored, so the bound is spent on what happens to them and not on
creating them. In `default_pool` and `certificates` the informer lists the first
ingress first, one order of two that symmetry makes alike
(`OneStart`); the other order comes with a restart.

### Excuses

A property says in `Spared`, or in its premise, which mishaps excuse it. Each is
recorded at the step where it happens and is needed by some property: without it
TLC finds a violation (for `flapped` in `DefaultPool`, and for an ingress that
changes back in the core, beyond the runs' bounds). They are the flaws of the code;
the properties say that nothing else can go wrong. The violated properties are what the documents say,
without excuses.

Core:
* `failed`: a call for this ingress failed, or a restart cut its handling short.
  Nothing is retried.
* `uncovered`: the event did not name what was there, for example after the
  load-balancer annotation changed.
* `overlapped`: a pass wrote an object that is not the one applied last.
  `KeepsServing` needs it too: an interrupted update leaves what the pass wrote,
  so the policies of the old object need not be there when the next update
  begins.
* `outdated`: members read before a node change were written when no pass was
  to follow.
* `flapped`: the nodes changed back to a list the controller had seen, or an
  ingress to what the informer had delivered last (`Reverted`). A pass lists the API
  server (269): if it runs in between it sees the ingress changed or gone, and a
  relist of the informer then shows no difference, so no event corrects the
  members. The proof of `MembersFollowNodes` asked for the second; TLC finds the
  violation without it in the instance of `core_nodes` with `edit |-> 3`, where the
  ingress is deleted and created again while a pass for new nodes lists none.
* `unnoticed`: an ingress went away while the controller was down.

`DefaultPool`:
* `lost`: a call failed, the `List` of a pass failed after the flag was cleared,
  or the flag was consumed between 1258 and the write it was set for. The next
  pass repairs the first two, so it is forgiven when a pass begins or the process
  restarts, unless the worker is about to write.
* `flapped`: the nodes changed back to the list the next comparison will be made
  with, so that no pass follows; forgiven like `lost`. This takes three changes of the
  nodes, more than `default_pool` has: the proof of `DefaultsServed` asked for it,
  and TLC then found the violation without it in that run's instance with one
  ingress and `node |-> 3`.
* `stray`: an event removed the members of the ready nodes of that moment instead
  of those that were there, a deletion failed or was cut short, a pass wrote an
  object of before, or one goroutine wrote over what the other had written since
  it read.

`Certificates`:
* `lost`: a call failed or a secret was missing, or a secret two ingresses share
  was tracked no more (945-948).
* `stale`: a goroutine attached a certificate older than the tracked version, a
  pass one of an object of before, or the ingress of the default certificate
  went away or gave up TLS.
* `left`: the same two, a failed call or list, or a restart before the deletions.

`LoadBalancers`:
* `lost`: a call failed since the last restart, or a user deleted a load balancer.
* `left`: a deletion failed or was cut short, or a pass wrote an object of before.
* `moved`: the annotation changed; what was on the old load balancer stays (872).
* `raced`: both goroutines found no load balancer before either created one.

### Fairness

Every `FairSpec` has weak fairness of `Take` (`wait.Until(c.runWorker)`, 234), of
`nodeSyncLoop` (235, every 60 seconds), of the calls of each goroutine (a Go
goroutine that can run does, and calls answer), in the core of `Deliver` (the
informer watches), and in `LoadBalancers` of vLB making a load balancer active;
its waits are not fair by themselves, and `Settles` excepts the load balancer in
an error state, for which api.go:478 waits for ever. Users, nodes, failures and
restarts have no fairness.

### Disagreements without a run

Two more were met in the core, both visible in one line: the node port of a
service that changes is not followed until something else asks for a pass
(94 and 122 watch no services' ports; `test/.overview.md`:81 expects it), and an
ingress without any class is ignored (`controller_utils.go`:46), where
`config.go`:48 has the controller serve it by default.

## The proofs

All theorems hold for all values of the constants: all sets of ingresses, load
balancers, services, secrets, rules, specs and nodes and all limits. They use
the named assumptions of the modules: `SpecsAssumption` (what the users write is
of the right shape), `NoneAssumption` and its like (`None` and `Absent` are none
of the values they stand beside), `NodesAssumption` and `IngressesAssumption`
(finite sets), `PrefixesAssumption` (a name begins with itself).

Type correctness (`TypeCorrect`, in four modules) is inductive because `TypeOK`
says more than types:

* `IngressController`: by `RunOK` a busy goroutine has an object, and from
  `inspectIngress` to the end of the policies it holds a node port for every path
  of the new object. Without the second part the members written by
  `UpdatePoolMember` would not be pairs of nodes and ports.
* `DefaultPool`: a busy goroutine has an ingress.
* `Certificates`: a goroutine that ensures the listener has a certificate for
  each of the ingress's secrets, or `certArr[0]` would not be one.
* `LoadBalancers`: by its `RunOK` a goroutine that waits or writes has found or
  made a load balancer, and has something left to write unless it waits for the
  last part.

Safety:

* `EventsChained == Spec => []EventsChain`. The strengthening `QueueInv` adds
  that objects are stored under their own key and that a queued create or update
  is about an object of this class. Only `Take`, `Deliver` and `Crash` touch
  the queue: `QueueTake` shifts the positions, `QueueDeliver` shows that the new
  event fits the last one of its ingress, because that one is about the object
  the informer held.
* `DeliveryIsCurrent`: `EventDelivery` keeps `Current`. `Current` speaks of rest
  only; `DeliveryInv` says where the last object is at any time: last in `todo`,
  else in `doing`, else in `applied`.
* `ImplementsDelivery == Spec => Delivery!Spec`: each action of the core maps to
  a step of `EventDelivery` or a stutter, from `TypeOK`, `QueueInv` and that
  excuses are never taken back. `AppliedCurrent == Spec => []AppliedIsCurrent`
  follows from the two: the property of the core is `Current` seen through the
  mapping.
* `ExactlyApplied == Spec => []AppliedExactly`, `Uninterrupted == Spec =>
  []KeepsServing` and `UnusedDropped == Spec => []DropsUnusedPools`, in
  `AppliedExactlyProofs`, are three consequences of one invariant. `Fitting` says
  that objects, names and runs belong together: an update is about one ingress, a
  pass writes objects of this class, a policy redirects to a pool of its own
  ingress. `Reached` says how far the worker has come with an ingress that no
  mishap excuses: `NothingMissing` which pools and policies of the old and the
  new object are there at each stage and item of the loops, `NothingMore` which
  may still be there because their deletion lies ahead. The step has a frame
  part, `Elsewhere`: what works for one ingress leaves the pools and policies of
  the others alone, because a name begins with its ingress. A pass writes too:
  unless it is `overlapped` its object is the one applied last, and then it
  changes nothing but members; that the worker has nothing newer to write is
  `AppliedIsCurrent`, which is why that theorem comes first.
* `MembersFollow == Spec => []MembersFollowNodes`, in `MembersProofs`. `Attended`
  says of each pool of an ingress that is known, has no event waiting and is not
  excused why nothing has to be done about it (`Cared`): its members are the nodes; or
  a pass is `Due`; or the pass under way has it ahead (`PassWill`: it has not listed
  yet, has the ingress on its list, or is at it); or the worker has (`WillWrite`); or
  the users changed the ingress (`Changed`), so an event will come. `Due` is the
  negation of what makes a write `Outdated` and a change of the nodes `flapped`,
  hence the case split: a step that spoils right members is excused or finds a pass due.
  A run counts only with the nodes of now (`Ahead`): with a list of before it may
  find the members as it expects and go on, which is no write and no excuse, and
  then the pool is still the pass's. That the worker's object is the newest when no
  event waits is `WorksOnLatest`, from the invariant of `EventDelivery` through the
  refinement.
* `OneMember == Spec => []OneMemberPerAddress`: the lists in flight are written
  or read from a pool that has the property, and a merge keeps it because
  `NeedDelete`, `Kept` and the new members are told apart by address.
  `ComparisonExact == Spec => []ComparesAddresses`: therefore the comparison by
  length and one inclusion is equality of the addresses, by cardinality.
* `DefaultPoolProofs!Served == Spec => []DefaultsServed`. The flag is what
  connects the two goroutines: it is set before each write, so while it is clear
  and the nodes are those the last pass began with, no pass is to follow and the
  pool has not changed since (`Calm`). Then `AllCovered`: the members of an
  ingress are there, or its event waits, or the pass has it still to do, or a run
  is about to compare them, and will find them or write and set the flag. At rest
  only the first is left. `Latest` says that the last event waiting for an ingress
  is about what is stored.
* `NothingStrays == Spec => []NoStrays`. A member is `Owned`: its backend is what
  its ingress has, or an event that takes it away waits, or the worker has it
  among the members to delete. `Chained` (each queued event begins where the one
  before it ended, and the last one ends at what is stored) finds that event. The
  nodes come from the pass that went over the pool, as above.
* `Tracked == Spec => []SecretsTracked`. `TrackInv` covers the time before rest:
  a secret an ingress uses is tracked, or a queued event or the worker's run is
  about to track it. The case of two ingresses that share it is the excuse.
* `Follows == Spec => []CertificateFollows`, from six invariants (`FollowInv`).
  `Serving`: there is a listener or an ingress that needs one is coming, and the
  secret of its default certificate is the first of some ingress, or an event or
  the worker is about to replace it; `Objects` has the chain of events and that
  the certificates of a run are named as it read their secrets. `Fresh`: the
  default is not older than the tracker, or a goroutine that read a version as
  new as the tracker's is on its way to attach it. `Bounded`: a certificate's
  content is at least as new as its name, and no newer than the secret. At rest
  the tracker has the secret's version, so name, content and secret are squeezed
  together, although the import reads the secret a second time.
* `NothingLeft == Spec => []NothingLeftOver`. `NoneLeft`: a certificate is needed by
  an ingress, in use, or `Doomed`: an event whose old object used it waits, or the
  worker (for its old object) or a pass (for its new one) has it ahead, or on its
  list. The default that an update replaces is in use until then; that it is
  needed or doomed afterwards is `DefaultWanted`, the second half of `Serving`.
* `OneBalancer == Spec => []OneBalancerPerName`. `OneInv` adds that a goroutine
  about to create has none of the name there, and that it is alone with that
  unless `raced`.
* `NothingLeftElsewhere == Spec => []NothingElsewhere`. `Placed` says that a
  goroutine's load balancer is one its object asks for, `LeftInv` that every part
  on a load balancer is asked for there, or a queued deletion or the worker's own
  will remove it: `Chained` finds that deletion behind every queued or running
  write of an object that is no longer stored. The pool is the hard case: its
  deletion does nothing while the policy is there, and then the policy's reason
  to be there is the pool's. A goroutine that waits after its last part has nothing
  left, so what it did must already count when it starts to wait (`AfterWrite`).
* `LoadBalancersProofs!Served == Spec => []ServedWhereAsked`. `Provided`: an ingress
  is served, or its event waits, or the worker is at it; what the worker does last
  is its newest object (`WorksLatest`) and ends with the policy (`PolicyLast`), when
  the pool is there. A pass adds parts and takes none away.

Only model-checked: everything temporal (`ComesToRest`, `PassesEnd`, `Settles`).
Liveness under fairness and ENABLED are out of the prover's reach, and so is
induction over data. Every invariant and the refinement that a passing run checks
are also proved.

## Not modelled

* The HTTP listener: created once, with a default pool that never changes.
* Hashing and trimming of names, and ports by name. The core takes names to be
  distinct; `DefaultPool` has the prefixes that `strings.HasPrefix` confuses.
* `NodeSlicesEqual` compares names: a node that comes back with another address
  under its name is not seen. The modules identify a node with its address.
* Configuration, metadata, version and metrics keep no state that changes.
* The HTTP encoding of the calls, `DeleteLB` and `ClearSecretTracker`, which
  nothing calls.
* The data race on annotation maps at 146-147, which touches a key no property
  reads.

## Plan

Done, in the order of importance: the core with its runs; `EventDelivery` and the
refinement; `DefaultPool`; `Certificates`; `LoadBalancers`; the theorems above.

Left:

1. `Naming`: names of nodes against their addresses in `NodeSlicesEqual`, pool
   names cut to length, against reference definitions over bounded inputs.
