-------------------------- MODULE CertificatesProofs --------------------------
(***************************************************************************)
(* Proofs about Certificates: type correctness, with what it says of a     *)
(* goroutine that ensures the listener; the secrets of an ingress are      *)
(* tracked; the listener's certificate is the one an ingress wants and     *)
(* follows its secret; no certificate is left that nothing needs.  For all *)
(* sets of ingresses and secrets, all edits, passes, failures and restarts.*)
(***************************************************************************)
EXTENDS Certificates, FiniteSetTheorems, SequenceTheorems, TLAPS

Events    == [key : Ingresses, old : Ingress, new : Ingress]
Listeners == Listener \cup {None}
Versions  == [Secrets -> Nat \cup {None}]

\* The versions of the secrets have been read: inspectIngress fails without.
Read(r) == \A s \in Used(r.new) : r.versions[s] \in Nat

RunOK(r) ==
    /\ Busy(r) => r.key \in Ingresses
    /\ Busy(r) /\ r.call # "inspect" => Read(r)
    /\ r.call \in {"find", "create", "update"} => HasTLS(r.new) /\ Missing(r) = {}

\* A listener that is to be updated is there.
RunsOK ==
    /\ run \in [Processes -> Run]
    /\ \A p \in Processes : RunOK(run[p]) /\ (run[p].call = "update" => listener # None)
RestOK ==
    /\ store \in [Ingresses -> Ingress]
    /\ secret \in Versions
    /\ queue \in Seq(Events)
    /\ tracker \in Versions
    /\ todo \in SUBSET (Ingresses \X Ingress)
    /\ certs \in SUBSET Cert
    /\ listener \in Listeners
    /\ mishap \in SUBSET Reasons
    /\ spent \in [Kinds -> Nat]

\* Type correctness alone is not kept by ImportCertificate: the version it
\* gives the certificate must have been read.
Typed == RunsOK /\ RestOK

\* The strengthened invariant implies the type invariant.
LEMMA TypedOK == Typed => TypeOK
BY DEF TypeOK, Typed, RunsOK, RunOK, RestOK, Events, Listeners, Versions

-----------------------------------------------------------------------------
(* Runs.                                                                   *)

\* The informer's list is a queue of creates.
LEMMA ListedQueues ==
    ASSUME NEW stored \in [Ingresses -> Ingress], NEW q \in Listed(stored)
    PROVE  q \in Seq(Events)
<1> DEFINE is == {i \in Ingresses : stored[i] # Absent}
           orders == {order \in [1 .. Cardinality(is) -> is] :
                         \A i \in is : \E j \in DOMAIN order : order[j] = i}
<1>1. PICK order \in orders : q = [j \in DOMAIN order |-> Event(order[j], Absent, stored[order[j]])]
    BY DEF Listed
<1>2. Cardinality(is) \in Nat
    BY IngressesAssumption, FS_Subset, FS_CardinalityType
<1>3. order \in [1 .. Cardinality(is) -> Ingresses]
    OBVIOUS
<1>4. \A j \in 1 .. Cardinality(is) : Event(order[j], Absent, stored[order[j]]) \in Events
    BY <1>3 DEF Event, Ingress, Events
<1> HIDE DEF is
<1>5. q \in [1 .. Cardinality(is) -> Events]
    BY <1>1, <1>3, <1>4
<1> QED
    BY <1>2, <1>5

\* An ingress names secrets, and one with TLS has a first one.
LEMMA UsedOK ==
    ASSUME NEW spec \in Ingress
    PROVE  /\ Used(spec) \in SUBSET Secrets
           /\ HasTLS(spec) => Head(spec) \in Used(spec)
<1>1. CASE spec = Absent
    BY <1>1 DEF Used, HasTLS
<1>2. CASE spec # Absent
  <2>1. spec \in Seq(Secrets) /\ Used(spec) = {spec[k] : k \in DOMAIN spec}
    BY <1>2, SpecsAssumption DEF Ingress, Used
  <2>2. \A k \in DOMAIN spec : spec[k] \in Secrets
    BY <2>1, ElementOfSeq, LenProperties
  <2>3. HasTLS(spec) => spec # <<>>
    BY <2>1 DEF HasTLS
  <2>4. spec # <<>> => 1 \in DOMAIN spec /\ Head(spec) = spec[1]
    BY <2>1, EmptySeq, LenProperties, HeadTailProperties
  <2> QED
    BY <2>1, <2>2, <2>3, <2>4
<1> QED
    BY <1>1, <1>2

\* The points between two ensured ingresses.
LEMMA BetweenOK ==
    ASSUME NEW call \in {"idle", "list", "next"}
    PROVE  /\ [Idle EXCEPT !.call = call] \in Run /\ RunOK([Idle EXCEPT !.call = call])
           /\ [Idle EXCEPT !.call = call].call = call
           /\ Idle \in Run /\ RunOK(Idle) /\ Idle.call = "idle"
<1>1. Nothing \in Versions /\ Nothing \in [Secrets -> Cert \cup {None}]
    BY DEF Nothing, Versions
<1>2. Idle \in Run /\ Idle.call = "idle"
    BY <1>1 DEF Idle, Run, Calls, Ingress, Versions
<1> DEFINE r == [Idle EXCEPT !.call = call]
<1>3. r \in Run /\ r.call = call
    BY <1>2 DEF Run, Calls
<1> HIDE DEF r
<1>4. RunOK(r) /\ RunOK(Idle)
    BY <1>2, <1>3 DEF RunOK, Busy
<1> QED
    BY <1>2, <1>3, <1>4 DEF r

\* Where ensureIngress and deleteIngress return to.
LEMMA ReturnOK ==
    ASSUME NEW p \in Processes
    PROVE  Return(p) \in Run /\ RunOK(Return(p)) /\ Return(p).call # "update"
BY BetweenOK DEF Return

\* A run begins with the secrets.
LEMMA BeginOK ==
    ASSUME NEW i \in Ingresses, NEW old \in Ingress, NEW new \in Ingress
    PROVE  /\ Begin(i, old, new) \in Run /\ RunOK(Begin(i, old, new))
           /\ Begin(i, old, new).call = "inspect"
<1>1. Begin(i, old, new) = [Idle EXCEPT !.call = "inspect", !.key = i, !.old = old, !.new = new]
    BY DEF Begin
<1>2. Begin(i, old, new) \in Run
    BY <1>1, BetweenOK DEF Run, Calls
<1>3. Begin(i, old, new).call = "inspect" /\ Begin(i, old, new).key = i
    BY <1>1, BetweenOK DEF Run
<1> QED
    BY <1>2, <1>3 DEF RunOK

\* A step of one goroutine leaves the other where it is, and there is a
\* listener for both if they are to update one.
LEMMA GotoOK ==
    ASSUME RunsOK, NEW p \in Processes, NEW r \in Run, RunOK(r), Goto(p, r),
           r.call = "update" => listener' # None, listener # None => listener' # None
    PROVE  RunsOK'
<1>1. run' = [run EXCEPT ![p] = r]
    BY DEF Goto
<1>2. run' \in [Processes -> Run]
    BY <1>1 DEF RunsOK
<1>3. \A q \in Processes : run'[q] = r \/ run'[q] = run[q]
    BY <1>1 DEF RunsOK
<1>4. \A q \in Processes : RunOK(run'[q]) /\ (run'[q].call = "update" => listener' # None)
    BY <1>3 DEF RunsOK
<1> QED
    BY <1>2, <1>4 DEF RunsOK, RunOK, Busy, Read, Missing

\* A run that goes on to a call that does not need the certificates.
LEMMA CallOK ==
    ASSUME NEW r \in Run, r.key \in Ingresses, Read(r),
           NEW call \in {"track", "certs", "import", "pruneOld", "pruneNew", "deleteOld", "deleteNew"}
    PROVE  /\ [r EXCEPT !.call = call] \in Run /\ RunOK([r EXCEPT !.call = call])
           /\ [r EXCEPT !.call = call].call = call
<1> DEFINE q == [r EXCEPT !.call = call]
<1>1. q \in Run /\ q.call = call /\ q.key = r.key /\ q.new = r.new /\ q.versions = r.versions
    BY DEF Run, Calls
<1> HIDE DEF q
<1>2. RunOK(q)
    BY <1>1 DEF RunOK, Read
<1> QED
    BY <1>1, <1>2 DEF q

\* A run that is done with the listener.
LEMMA PruneOK ==
    ASSUME NEW r \in Run, r.key \in Ingresses, Read(r)
    PROVE  /\ Prune(r) \in Run /\ RunOK(Prune(r))
           /\ Prune(r).call \in {"pruneOld", "pruneNew"} /\ Prune(r).old = r.old
<1> DEFINE call == AfterListener(r)
           q == [r EXCEPT !.call = call, !.uuid = Nothing]
<1>1. call \in {"pruneOld", "pruneNew"} /\ call \in Calls
    BY DEF AfterListener, Calls
<1>2. Nothing \in [Secrets -> Cert \cup {None}]
    BY DEF Nothing
<1>3. Prune(r) = q
    BY DEF Prune
<1> HIDE DEF call
<1>4. /\ q \in Run /\ q.call = call /\ q.key = r.key /\ q.old = r.old /\ q.new = r.new
      /\ q.versions = r.versions
    BY <1>1, <1>2 DEF Run
<1> HIDE DEF q
<1>5. RunOK(q)
    BY <1>1, <1>4 DEF RunOK, Read
<1> QED
    BY <1>1, <1>3, <1>4, <1>5

\* A run that goes on with the listener.
LEMMA ListenerOK ==
    ASSUME NEW r \in Run, r.key \in Ingresses, Read(r), HasTLS(r.new), Missing(r) = {},
           NEW call \in {"find", "create", "update"}
    PROVE  /\ [r EXCEPT !.call = call] \in Run /\ RunOK([r EXCEPT !.call = call])
           /\ [r EXCEPT !.call = call].call = call
<1> DEFINE q == [r EXCEPT !.call = call]
<1>1. call \in Calls
    BY DEF Calls
<1>2. /\ q \in Run /\ q.call = call /\ q.key = r.key /\ q.new = r.new
      /\ q.versions = r.versions /\ q.uuid = r.uuid
    BY <1>1 DEF Run
<1> HIDE DEF q
<1>3. RunOK(q)
    BY <1>2 DEF RunOK, Read, Missing
<1> QED
    BY <1>2, <1>3 DEF q

\* The listener comes after the last import.
LEMMA ImportedOK ==
    ASSUME NEW r \in Run, r.key \in Ingresses, Read(r)
    PROVE  Imported(r) \in Run /\ RunOK(Imported(r)) /\ Imported(r).call # "update"
<1>1. CASE Missing(r) # {}
    BY <1>1, CallOK DEF Imported
<1>2. CASE Missing(r) = {} /\ HasTLS(r.new)
    BY <1>2, ListenerOK DEF Imported
<1>3. CASE Missing(r) = {} /\ ~HasTLS(r.new)
    BY <1>3, PruneOK DEF Imported
<1> QED
    BY <1>1, <1>2, <1>3

\* The two lists of redundant certificates, and the return.
LEMMA DeletingOK ==
    ASSUME NEW p \in Processes, NEW r \in Run, r.key \in Ingresses, Read(r),
           NEW call \in {"deleteOld", "deleteNew"}, NEW doomed \in SUBSET Cert
    PROVE  /\ Deleting(p, [r EXCEPT !.call = call, !.doomed = doomed]) \in Run
           /\ RunOK(Deleting(p, [r EXCEPT !.call = call, !.doomed = doomed]))
           /\ Deleting(p, [r EXCEPT !.call = call, !.doomed = doomed]).call # "update"
<1> DEFINE q == [r EXCEPT !.call = call, !.doomed = doomed]
<1>1. q \in Run /\ q.call = call /\ q.key = r.key /\ q.new = r.new /\ q.versions = r.versions
    BY DEF Run, Calls
<1> HIDE DEF q
<1>2. RunOK(q) /\ Read(q)
    BY <1>1 DEF RunOK, Read
<1>3. Deleting(p, q) \in Run /\ RunOK(Deleting(p, q)) /\ Deleting(p, q).call # "update"
    BY <1>1, <1>2, CallOK, ReturnOK DEF Deleting
<1> QED
    BY <1>3 DEF q

\* Only listed reasons are recorded.
LEMMA MarkOK ==
    ASSUME mishap \subseteq Reasons, NEW why \in SUBSET Reasons, NEW if \in BOOLEAN, Mark(why, if)
    PROVE  mishap' \in SUBSET Reasons
BY DEF Mark

\* The counters of outside events stay numbers.
LEMMA SpendOK ==
    ASSUME spent \in [Kinds -> Nat], NEW kind \in Kinds, Spend(kind)
    PROVE  spent' \in [Kinds -> Nat]
BY DEF Spend

-----------------------------------------------------------------------------
(* Each action keeps the types.                                            *)

\* The users, their secrets and the queue.
LEMMA QueueTypes ==
    ASSUME Typed,
           (\E i \in Ingresses : Edit(i)) \/ (\E s \in Secrets : ChangeSecret(s)) \/ Take
    PROVE  Typed'
<1>0. RunsOK /\ RestOK
    BY DEF Typed
<1>1. CASE \E i \in Ingresses : Edit(i)
  <2>1. PICK i \in Ingresses : Edit(i)
    BY <1>1
  <2>2. PICK new \in Ingress \ {store[i]} :
           /\ store' = [store EXCEPT ![i] = new]
           /\ queue' = Append(queue, Event(i, store[i], new))
    BY <2>1 DEF Edit
  <2>3. store' \in [Ingresses -> Ingress] /\ Event(i, store[i], new) \in Events
    BY <1>0, <2>2 DEF RestOK, Event, Events
  <2>4. queue' \in Seq(Events)
    BY <1>0, <2>2, <2>3, AppendProperties DEF RestOK
  <2>5. spent' \in [Kinds -> Nat]
    BY <1>0, <2>1, SpendOK DEF Edit, RestOK, Kinds
  <2>6. UNCHANGED <<secret, run, tracker, todo, certs, listener, mishap>>
    BY <2>1 DEF Edit
  <2>7. RunsOK'
    BY <1>0, <2>6 DEF RunsOK, RunOK, Busy, Read, Missing
  <2> QED
    BY <1>0, <2>3, <2>4, <2>5, <2>6, <2>7 DEF Typed, RestOK, Versions, Listeners
<1>2. CASE \E s \in Secrets : ChangeSecret(s)
  <2>1. PICK s \in Secrets : ChangeSecret(s)
    BY <1>2
  <2>2. spent' \in [Kinds -> Nat] /\ spent["secret"] + 1 \in Nat
    BY <1>0, <2>1, SpendOK DEF ChangeSecret, RestOK, Kinds
  <2>3. secret' \in Versions
    BY <1>0, <2>1, <2>2 DEF ChangeSecret, RestOK, Versions
  <2>4. UNCHANGED <<store, queue, run, tracker, todo, certs, listener, mishap>>
    BY <2>1 DEF ChangeSecret
  <2>5. RunsOK'
    BY <1>0, <2>4 DEF RunsOK, RunOK, Busy, Read, Missing
  <2> QED
    BY <1>0, <2>2, <2>3, <2>4, <2>5 DEF Typed, RestOK, Listeners
<1>3. CASE Take
  <2> DEFINE e == Head(queue)
  <2>1. e \in Events /\ queue' \in Seq(Events)
    BY <1>0, <1>3, HeadTailProperties DEF Take, RestOK
  <2>2. Goto(Worker, Begin(e.key, e.old, e.new)) /\ listener' = listener
    BY <1>3 DEF Take
  <2> HIDE DEF e
  <2>3. RunsOK'
    BY <1>0, <2>1, <2>2, BeginOK, GotoOK DEF Processes, Events
  <2> QED
    BY <1>0, <1>3, <2>1, <2>3 DEF Take, Typed, RestOK, Listeners, Versions
<1> QED
    BY <1>1, <1>2, <1>3

\* inspectIngress and the trackers.
LEMMA TrackTypes ==
    ASSUME Typed, NEW p \in Processes, Inspect(p) \/ Track(p)
    PROVE  Typed'
<1>0. RunsOK /\ RestOK /\ run[p] \in Run /\ RunOK(run[p])
    BY DEF Typed, RunsOK
<1>1. CASE Inspect(p)
  <2> DEFINE used == Used(run[p].old) \cup Used(run[p].new)
             versions == [s \in Secrets |-> IF s \in used THEN secret[s] ELSE None]
             r == [run[p] EXCEPT !.versions = versions]
             q == [r EXCEPT !.call = "track"]
  <2>1. \A s \in used : secret[s] # None
    BY <1>1 DEF Inspect
  <2>2. run[p].call = "inspect" /\ run[p].key \in Ingresses
    BY <1>0, <1>1 DEF Inspect, At, RunOK, Busy
  <2>3. versions \in Versions
    BY <1>0 DEF RestOK, Versions
  <2>4. Used(run[p].new) \in SUBSET Secrets
    BY <1>0, UsedOK DEF Run
  <2>5. \A s \in Used(run[p].new) : versions[s] \in Nat
    BY <1>0, <2>1, <2>4 DEF RestOK, Versions
  <2>6. Goto(p, [run[p] EXCEPT !.call = "track", !.versions = versions]) /\ listener' = listener
    BY <1>1 DEF Inspect
  <2> HIDE DEF versions
  <2>7. r \in Run /\ r.key \in Ingresses /\ r.new = run[p].new /\ r.versions = versions
    BY <1>0, <2>2, <2>3 DEF Run, Versions
  <2>8. [run[p] EXCEPT !.call = "track", !.versions = versions] = q
    BY <1>0 DEF Run
  <2> HIDE DEF r
  <2>9. Read(r)
    BY <2>5, <2>7 DEF Read
  <2>10. q \in Run /\ RunOK(q) /\ q.call = "track"
    BY <2>7, <2>9, CallOK
  <2> HIDE DEF q
  <2>11. RunsOK'
    BY <1>0, <2>6, <2>8, <2>10, GotoOK
  <2> QED
    BY <1>0, <1>1, <2>11 DEF Inspect, Typed, RestOK, Listeners, Versions
<1>2. CASE Track(p)
  <2>1. run[p].call = "track" /\ run[p].key \in Ingresses /\ Read(run[p])
    BY <1>0, <1>2 DEF Track, At, RunOK, Busy
  <2>2. RunsOK'
    BY <1>0, <1>2, <2>1, CallOK, GotoOK DEF Track, Then
  <2>3. tracker' \in Versions
    <3>1. Trackers(run[p]) \in Versions
      BY <1>0, <2>1 DEF Trackers, Read, RestOK, Versions
    <3> QED
      BY <1>2, <3>1 DEF Track
  <2>4. mishap' \in SUBSET Reasons
    <3>1. PICK untracked \in BOOLEAN, orphaned \in BOOLEAN :
            mishap' = mishap \cup (IF untracked THEN {"lost"} ELSE {})
                             \cup (IF orphaned THEN {"stale", "left"} ELSE {})
      BY <1>2 DEF Track
    <3> QED
      BY <1>0, <3>1 DEF RestOK, Reasons
  <2>5. UNCHANGED <<store, secret, queue, todo, certs, listener, spent>>
    BY <1>2 DEF Track
  <2> QED
    BY <1>0, <2>2, <2>3, <2>4, <2>5 DEF Typed, RestOK, Listeners, Versions
<1> QED
    BY <1>1, <1>2

\* An import names the certificate after the version that was read.
LEMMA ImportsCert ==
    ASSUME Typed, NEW p \in Processes, ImportCertificate(p)
    PROVE  \E s \in Missing(run[p]), c \in Cert :
              /\ certs' = certs \cup {c}
              /\ Goto(p, Imported([run[p] EXCEPT !.uuid[s] = c])) /\ listener' = listener
<1>0. RestOK /\ run[p] \in Run /\ Read(run[p])
    BY DEF Typed, RunsOK, RunOK, ImportCertificate, At, Busy
<1>1. PICK s \in Missing(run[p]) :
        LET c == [secret |-> s, version |-> run[p].versions[s], content |-> secret[s], by |-> p]
        IN  /\ secret[s] # None
            /\ certs' = certs \cup {c}
            /\ Goto(p, Imported([run[p] EXCEPT !.uuid[s] = c]))
    BY DEF ImportCertificate
<1> DEFINE c == [secret |-> s, version |-> run[p].versions[s], content |-> secret[s], by |-> p]
<1>2. s \in Used(run[p].new) /\ s \in Secrets
    BY <1>0, UsedOK DEF Missing, Run
<1>3. secret[s] \in Nat /\ run[p].versions[s] \in Nat
    BY <1>0, <1>1, <1>2 DEF RestOK, Versions, Read
<1>4. c \in Cert
    BY <1>2, <1>3 DEF Cert
<1>5. /\ certs' = certs \cup {c}
      /\ Goto(p, Imported([run[p] EXCEPT !.uuid[s] = c])) /\ listener' = listener
    BY <1>1 DEF ImportCertificate
<1> HIDE DEF c
<1> QED
    BY <1>4, <1>5

\* EnsureCertificate.
LEMMA CertificateTypes ==
    ASSUME Typed, NEW p \in Processes, ListCertificate(p) \/ ImportCertificate(p)
    PROVE  Typed'
<1>0. RunsOK /\ RestOK /\ run[p] \in Run /\ RunOK(run[p])
    BY DEF Typed, RunsOK
<1>1. run[p].key \in Ingresses /\ Read(run[p])
    BY <1>0 DEF ListCertificate, ImportCertificate, At, RunOK, Busy
<1>2. CASE ListCertificate(p)
  <2>1. PICK uuid \in [Secrets -> certs \cup {None}] :
           Goto(p, Imported([run[p] EXCEPT !.uuid = uuid])) /\ listener' = listener
    BY <1>2 DEF ListCertificate
  <2> DEFINE r == [run[p] EXCEPT !.uuid = uuid]
  <2>2. uuid \in [Secrets -> Cert \cup {None}]
    BY <1>0 DEF RestOK
  <2>3. r \in Run /\ r.key = run[p].key /\ r.new = run[p].new /\ r.versions = run[p].versions
    BY <1>0, <2>2 DEF Run
  <2> HIDE DEF r
  <2>4. Imported(r) \in Run /\ RunOK(Imported(r)) /\ Imported(r).call # "update"
    BY <1>1, <2>3, ImportedOK DEF Read
  <2>5. RunsOK'
    BY <1>0, <2>1, <2>4, GotoOK DEF r
  <2> QED
    BY <1>0, <1>2, <2>5 DEF ListCertificate, Typed, RestOK, Listeners, Versions
<1>3. CASE ImportCertificate(p)
  <2>1. PICK s \in Missing(run[p]), c \in Cert :
           /\ certs' = certs \cup {c}
           /\ Goto(p, Imported([run[p] EXCEPT !.uuid[s] = c])) /\ listener' = listener
    BY <1>3, ImportsCert
  <2> DEFINE r == [run[p] EXCEPT !.uuid[s] = c]
  <2>2. r \in Run /\ r.key = run[p].key /\ r.new = run[p].new /\ r.versions = run[p].versions
    BY <1>0 DEF Run
  <2> HIDE DEF r
  <2>3. Imported(r) \in Run /\ RunOK(Imported(r)) /\ Imported(r).call # "update"
    BY <1>1, <2>2, ImportedOK DEF Read
  <2>4. RunsOK'
    BY <1>0, <2>1, <2>3, GotoOK DEF r
  <2>5. certs' \in SUBSET Cert
    BY <1>0, <2>1 DEF RestOK
  <2> QED
    BY <1>0, <1>3, <2>4, <2>5 DEF ImportCertificate, Typed, RestOK, Listeners, Versions
<1> QED
    BY <1>2, <1>3

\* ensureListener.
LEMMA ListenerTypes ==
    ASSUME Typed, NEW p \in Processes, FindListener(p) \/ CreateListener(p) \/ UpdateListener(p)
    PROVE  Typed'
<1>0. RunsOK /\ RestOK /\ run[p] \in Run /\ RunOK(run[p])
    BY DEF Typed, RunsOK
<1>1. run[p].call \in {"find", "create", "update"}
    BY DEF FindListener, CreateListener, UpdateListener, At
<1>2. /\ run[p].key \in Ingresses /\ Read(run[p])
      /\ HasTLS(run[p].new) /\ Missing(run[p]) = {}
    BY <1>0, <1>1 DEF RunOK, Busy
<1>3. \A s \in Used(run[p].new) : run[p].uuid[s] \in Cert
    BY <1>0, <1>2, UsedOK DEF Missing, Run
<1>4. Default(run[p]) \in Cert
    BY <1>0, <1>2, <1>3, UsedOK DEF Default, Run
<1>5. Outdated(p) \in BOOLEAN
    BY DEF Outdated
<1>6. CASE FindListener(p)
  <2>1. RunsOK'
    <3>1. CASE Goto(p, Prune(run[p]))
      BY <1>0, <1>2, <1>6, <3>1, PruneOK, GotoOK DEF FindListener
    <3>2. CASE ~Goto(p, Prune(run[p]))
      <4>1. PICK call \in {"create", "update"} :
               /\ Then(p, call)
               /\ call = "update" => listener # None
        BY <1>6, <3>2 DEF FindListener
      <4> QED
        BY <1>0, <1>2, <1>6, <4>1, ListenerOK, GotoOK DEF Then, FindListener
    <3> QED
      BY <3>1, <3>2
  <2> QED
    BY <1>0, <1>6, <2>1 DEF FindListener, Typed, RestOK, Listeners, Versions
<1>7. CASE CreateListener(p)
  <2>1. listener' \in Listener /\ listener' # None
    BY <1>3, <1>4, <1>7, NoneAssumption DEF CreateListener, Listener
  <2>2. RunsOK'
    BY <1>0, <1>2, <1>7, <2>1, ListenerOK, GotoOK DEF CreateListener, Then
  <2>3. mishap' \in SUBSET Reasons
    BY <1>0, <1>5, <1>7, MarkOK DEF CreateListener, RestOK, Reasons
  <2> QED
    BY <1>0, <1>7, <2>1, <2>2, <2>3 DEF CreateListener, Typed, RestOK, Listeners, Versions
<1>8. CASE UpdateListener(p)
  <2>1. listener \in Listener
    BY <1>0, <1>8 DEF UpdateListener, At, RunsOK, RestOK, Listeners
  <2>2. listener' \in Listener /\ listener' # None
    BY <1>4, <1>8, <2>1, NoneAssumption DEF UpdateListener, Listener
  <2>3. RunsOK'
    BY <1>0, <1>2, <1>8, <2>2, PruneOK, GotoOK DEF UpdateListener
  <2>4. mishap' \in SUBSET Reasons
    BY <1>0, <1>5, <1>8, MarkOK DEF UpdateListener, RestOK, Reasons
  <2> QED
    BY <1>0, <1>8, <2>2, <2>3, <2>4 DEF UpdateListener, Typed, RestOK, Listeners, Versions
<1> QED
    BY <1>6, <1>7, <1>8

\* DeleteRedundantCertificate.
LEMMA PruneTypes ==
    ASSUME Typed, NEW p \in Processes, ListRedundant(p) \/ DeleteCertificate(p) \/ DeleteFails(p)
    PROVE  Typed'
<1>0. RunsOK /\ RestOK /\ run[p] \in Run /\ RunOK(run[p])
    BY DEF Typed, RunsOK
<1>1. run[p].call \in {"pruneOld", "pruneNew", "deleteOld", "deleteNew"}
    BY DEF ListRedundant, DeleteCertificate, DeleteFails, At
<1>2. run[p].key \in Ingresses /\ Read(run[p])
    BY <1>0, <1>1 DEF RunOK, Busy
<1>3. CASE ListRedundant(p)
  <2>1. PICK call \in {"deleteOld", "deleteNew"}, used \in {Used(run[p].old), Used(run[p].new)} :
           /\ Goto(p, Deleting(p, [run[p] EXCEPT !.call = call, !.doomed = Redundant(used)]))
           /\ listener' = listener
    BY <1>3 DEF ListRedundant
  <2> DEFINE doomed == Redundant(used)
  <2>2. doomed \in SUBSET Cert
    BY <1>0 DEF Redundant, RestOK
  <2> HIDE DEF doomed
  <2>3. RunsOK'
    BY <1>0, <1>2, <2>1, <2>2, DeletingOK, GotoOK DEF doomed
  <2> QED
    BY <1>0, <1>3, <2>3 DEF ListRedundant, Typed, RestOK, Listeners, Versions
<1>4. CASE DeleteCertificate(p) \/ DeleteFails(p)
  <2>1. PICK c \in run[p].doomed :
           Goto(p, Deleting(p, [run[p] EXCEPT !.doomed = @ \ {c}])) /\ listener' = listener
    BY <1>4 DEF DeleteCertificate, DeleteFails
  <2> DEFINE doomed == run[p].doomed \ {c}
             call == run[p].call
  <2>2. call \in {"deleteOld", "deleteNew"}
    BY <1>4 DEF DeleteCertificate, DeleteFails, At
  <2>3. doomed \in SUBSET Cert
    BY <1>0 DEF Run
  <2>4. [run[p] EXCEPT !.doomed = @ \ {c}] = [run[p] EXCEPT !.call = call, !.doomed = doomed]
    BY <1>0 DEF Run
  <2> HIDE DEF call, doomed
  <2>5. RunsOK'
    BY <1>0, <1>2, <2>1, <2>2, <2>3, <2>4, DeletingOK, GotoOK
  <2>6. CASE DeleteCertificate(p)
    <3>1. certs' \in SUBSET Cert
      BY <1>0, <2>6 DEF DeleteCertificate, RestOK
    <3> QED
      BY <1>0, <2>5, <2>6, <3>1 DEF DeleteCertificate, Typed, RestOK, Listeners, Versions
  <2>7. CASE DeleteFails(p)
    <3>1. spent' \in [Kinds -> Nat]
      BY <1>0, <2>7, SpendOK DEF DeleteFails, RestOK, Kinds
    <3>2. mishap' \in SUBSET Reasons
      BY <1>0, <2>7, MarkOK DEF DeleteFails, RestOK, Reasons
    <3> QED
      BY <1>0, <2>5, <2>7, <3>1, <3>2 DEF DeleteFails, Typed, RestOK, Listeners, Versions
  <2> QED
    BY <1>4, <2>6, <2>7
<1> QED
    BY <1>3, <1>4

\* The failures of one goroutine.
LEMMA FailuresTypes ==
    ASSUME Typed, NEW p \in Processes,
           SecretMissing(p) \/ Refused(p) \/ CallFails(p) \/ ListFails(p)
    PROVE  Typed'
<1>0. RunsOK /\ RestOK /\ run[p] \in Run /\ RunOK(run[p])
    BY DEF Typed, RunsOK
<1>1. spent' \in [Kinds -> Nat]
    BY <1>0, SpendOK DEF SecretMissing, Refused, CallFails, ListFails, RestOK, Kinds
<1>2. CASE SecretMissing(p) \/ Refused(p) \/ CallFails(p)
  <2>1. Fail(p)
    BY <1>2 DEF SecretMissing, Refused, CallFails
  <2>2. RunsOK'
    BY <1>0, <2>1, ReturnOK, GotoOK DEF Fail
  <2> QED
    BY <1>0, <1>1, <2>1, <2>2 DEF Fail, Typed, RestOK, Reasons, Listeners, Versions
<1>3. CASE ListFails(p)
  <2>1. run[p].call \in {"certs", "pruneOld", "pruneNew"}
    BY <1>3 DEF ListFails, At
  <2>2. run[p].key \in Ingresses /\ Read(run[p])
    BY <1>0, <2>1 DEF RunOK, Busy
  <2>3. /\ Goto(p, Imported(run[p])) \/ Then(p, "pruneNew") \/ Goto(p, Return(p))
        /\ listener' = listener
    BY <1>3 DEF ListFails
  <2>4. RunsOK'
    BY <1>0, <2>2, <2>3, ImportedOK, CallOK, ReturnOK, GotoOK DEF Then
  <2>5. mishap' \in SUBSET Reasons
    BY <1>0, <1>3, MarkOK DEF ListFails, RestOK, Reasons, At
  <2> QED
    BY <1>0, <1>1, <1>3, <2>4, <2>5 DEF ListFails, Typed, RestOK, Listeners, Versions
<1> QED
    BY <1>2, <1>3

\* nodeSyncLoop.
LEMMA SyncTypes ==
    ASSUME Typed, SyncLoop \/ OtherTick
    PROVE  Typed'
<1>0. RunsOK /\ RestOK /\ Sync \in Processes
    BY DEF Typed, Processes
<1>1. CASE StartPass /\ (SecretTick \/ OtherTick)
  <2>1. RunsOK'
    BY <1>0, <1>1, BetweenOK, GotoOK DEF StartPass
  <2>2. spent' \in [Kinds -> Nat]
    BY <1>0, <1>1, SpendOK DEF SecretTick, OtherTick, RestOK, Kinds
  <2> QED
    BY <1>0, <1>1, <2>1, <2>2 DEF StartPass, Typed, RestOK, Listeners, Versions
<1>2. CASE ListIngresses
  <2>1. RunsOK'
    BY <1>0, <1>2, BetweenOK, GotoOK DEF ListIngresses
  <2>2. todo' \in SUBSET (Ingresses \X Ingress)
    BY <1>0, <1>2 DEF ListIngresses, RestOK
  <2> QED
    BY <1>0, <1>2, <2>1, <2>2 DEF ListIngresses, Typed, RestOK, Listeners, Versions
<1>3. CASE SyncNext
  <2>1. PICK t \in todo : todo' = todo \ {t} /\ Goto(Sync, Begin(t[1], Absent, t[2]))
                             /\ listener' = listener
    BY <1>3 DEF SyncNext
  <2>2. t[1] \in Ingresses /\ t[2] \in Ingress /\ Absent \in Ingress
    BY <1>0 DEF RestOK, Ingress
  <2>3. RunsOK'
    BY <1>0, <2>1, <2>2, BeginOK, GotoOK
  <2> QED
    BY <1>0, <1>3, <2>1, <2>3 DEF SyncNext, Typed, RestOK, Listeners, Versions
<1>4. CASE EndPass
  <2>1. RunsOK'
    BY <1>0, <1>4, BetweenOK, GotoOK DEF EndPass
  <2> QED
    BY <1>0, <1>4, <2>1 DEF EndPass, Typed, RestOK, Listeners, Versions
<1> QED
    BY <1>1, <1>2, <1>3, <1>4 DEF SyncLoop, SecretTick, OtherTick

\* A restart.
LEMMA CrashTypes ==
    ASSUME Typed, Crash
    PROVE  Typed'
<1>0. RunsOK /\ RestOK
    BY DEF Typed
<1>1. RunsOK'
  <2>1. run' \in [Processes -> Run] /\ \A p \in Processes : run'[p] = Idle
    BY BetweenOK DEF Crash
  <2>2. \A p \in Processes : RunOK(run'[p]) /\ run'[p].call = "idle"
    BY <2>1, BetweenOK
  <2> QED
    BY <2>1, <2>2 DEF RunsOK, RunOK, Busy, Read, Missing
<1>2. queue' \in Seq(Events)
    BY <1>0, ListedQueues DEF Crash, RestOK
<1>3. spent' \in [Kinds -> Nat]
    BY <1>0, SpendOK DEF Crash, RestOK, Kinds
<1>4. mishap' \in SUBSET Reasons
    BY <1>0 DEF Crash, RestOK, Reasons
<1>5. tracker' \in Versions
    BY DEF Crash, Nothing, Versions
<1> QED
    BY <1>0, <1>1, <1>2, <1>3, <1>4, <1>5 DEF Crash, Typed, RestOK, Listeners, Versions

-----------------------------------------------------------------------------
\* What holds when the controller starts.
LEMMA InitTypes == Init => Typed
<1> SUFFICES ASSUME Init PROVE Typed
    OBVIOUS
<1>1. RunsOK
  <2>1. \A p \in Processes : run[p] = Idle
    BY DEF Init
  <2>2. \A p \in Processes : RunOK(run[p]) /\ run[p].call = "idle"
    BY <2>1, BetweenOK
  <2> QED
    BY <2>1, <2>2, BetweenOK DEF Init, RunsOK
<1>2. store \in [Ingresses -> Ingress]
    BY StoresAssumption DEF Init
<1>3. queue \in Seq(Events)
    BY <1>2, ListedQueues DEF Init
<1>4. secret \in Versions /\ tracker \in Versions
    BY DEF Init, Nothing, Versions
<1> QED
    BY <1>1, <1>2, <1>3, <1>4 DEF Init, Typed, RestOK, Listeners

\* Every step keeps the types.
LEMMA NextTypes == Typed /\ [Next]_vars => Typed'
<1> SUFFICES ASSUME Typed, [Next]_vars PROVE Typed'
    OBVIOUS
<1>1. CASE UNCHANGED vars
    BY <1>1 DEF vars, Typed, RunsOK, RunOK, Busy, Read, Missing, RestOK, Listeners, Versions
<1>2. CASE Next
    BY <1>2, QueueTypes, TrackTypes, CertificateTypes, ListenerTypes, PruneTypes,
       FailuresTypes, SyncTypes, CrashTypes DEF Next, Call
<1> QED
    BY <1>1, <1>2

\* Type correctness of Certificates: a goroutine that ensures the listener has
\* a certificate for each secret of its ingress, and a certificate is named
\* after a version that was read, in whatever order things happen or fail.
THEOREM TypeCorrect == Spec => []TypeOK
BY InitTypes, NextTypes, TypedOK, PTL DEF Spec

-----------------------------------------------------------------------------
(* The trackers.                                                           *)

Queued(i) == \E k \in 1 .. Len(queue) : queue[k].key = i

\* The last event of an ingress has the object that is stored.
LastEvent(i) ==
    \A k \in 1 .. Len(queue) :
        queue[k].key = i /\ (\A l \in k + 1 .. Len(queue) : queue[l].key # i)
            => queue[k].new = store[i]

\* The worker is about to track the secrets of the ingress.
Tracking(i) == run[Worker].key = i /\ run[Worker].call \in {"inspect", "track"}

Followed(i) ==
    "lost" \notin mishap =>
        \A s \in Used(store[i]) : Queued(i) \/ Tracking(i) \/ tracker[s] # None

\* An ingress without an event waits for nothing but the run about it, and
\* that has the object that is stored.
TrackInv ==
    /\ \A i \in Ingresses :
        /\ LastEvent(i)
        /\ Tracking(i) /\ ~Queued(i) => run[Worker].new = store[i]
        /\ Followed(i)
    /\ run[Sync].old = Absent

\* A step that leaves the queue, the store and the trackers alone.
LEMMA TrackCalm ==
    ASSUME TrackInv, UNCHANGED <<store, queue, tracker>>, mishap \cap {"lost"} \subseteq mishap',
           \A i \in Ingresses : Tracking(i)' => Tracking(i) /\ run'[Worker].new = run[Worker].new,
           \A i \in Ingresses : Tracking(i) => Tracking(i)' \/ "lost" \in mishap',
           run'[Sync].old = Absent
    PROVE  TrackInv'
<1> SUFFICES ASSUME NEW i \in Ingresses
             PROVE  /\ LastEvent(i)'
                    /\ (Tracking(i) /\ ~Queued(i) => run[Worker].new = store[i])'
                    /\ Followed(i)'
    BY DEF TrackInv
<1>1. LastEvent(i)'
    BY DEF TrackInv, LastEvent
<1>2. Queued(i)' <=> Queued(i)
    BY DEF Queued
<1>3. (Tracking(i) /\ ~Queued(i) => run[Worker].new = store[i])'
    BY <1>2 DEF TrackInv
<1>4. Followed(i)'
    BY <1>2 DEF TrackInv, Followed
<1> QED
    BY <1>1, <1>3, <1>4

\* The informer lists every ingress as it is stored.
LEMMA ListedAll ==
    ASSUME NEW stored \in [Ingresses -> Ingress], NEW q \in Listed(stored), NEW i \in Ingresses
    PROVE  /\ \A k \in 1 .. Len(q) : q[k].key = i => q[k].new = stored[i]
           /\ stored[i] # Absent => \E k \in 1 .. Len(q) : q[k].key = i
<1> DEFINE is == {j \in Ingresses : stored[j] # Absent}
           n == Cardinality(is)
           orders == {order \in [1 .. n -> is] : \A j \in is : \E k \in DOMAIN order : order[k] = j}
<1>1. PICK order \in orders : q = [j \in DOMAIN order |-> Event(order[j], Absent, stored[order[j]])]
    BY DEF Listed
<1>2. n \in Nat
    BY IngressesAssumption, FS_Subset, FS_CardinalityType
<1>3. order \in [1 .. n -> is] /\ \A j \in is : \E k \in 1 .. n : order[k] = j
    OBVIOUS
<1> HIDE DEF n
<1>4. Len(q) = n
  <2>1. q \in Seq(Events) /\ DOMAIN q = 1 .. n
    BY <1>1, <1>3, ListedQueues
  <2> QED
    BY <1>2, <2>1, LenProperties
<1>5. \A k \in 1 .. n : q[k].key = order[k] /\ q[k].new = stored[order[k]]
    BY <1>1, <1>3 DEF Event
<1> QED
    BY <1>3, <1>4, <1>5

\* A step of one goroutine, and where the other one is.
LEMMA GotoElsewhere ==
    ASSUME RunsOK, NEW p \in Processes, NEW r, Goto(p, r)
    PROVE  run'[p] = r /\ \A q \in Processes \ {p} : run'[q] = run[q]
BY DEF RunsOK, Goto

\* An edit makes its event the last one of its ingress.
LEMMA EditTracks ==
    ASSUME Typed, TrackInv, NEW e \in Ingresses, Edit(e)
    PROVE  TrackInv'
<1>1. PICK new \in Ingress \ {store[e]} :
         /\ store' = [store EXCEPT ![e] = new]
         /\ queue' = Append(queue, Event(e, store[e], new))
    BY DEF Edit
<1>2. UNCHANGED <<run, tracker, mishap>>
    BY DEF Edit
<1> DEFINE n == Len(queue)
           event == Event(e, store[e], new)
<1>3. queue \in Seq(Events) /\ store \in [Ingresses -> Ingress] /\ event \in Events
    BY DEF Typed, RestOK, Event, Events
<1>4. event.key = e /\ event.new = new
    BY DEF Event
<1> HIDE DEF event
<1>5. n \in Nat /\ Len(queue') = n + 1 /\ queue'[n + 1] = event
        /\ \A k \in 1 .. n : queue'[k] = queue[k]
    BY <1>1, <1>3, AppendProperties, LenProperties DEF event
<1> HIDE DEF n
<1>6. store'[e] = new /\ \A i \in Ingresses \ {e} : store'[i] = store[i]
    BY <1>1, <1>3
<1> SUFFICES ASSUME NEW i \in Ingresses
             PROVE  /\ LastEvent(i)'
                    /\ (Tracking(i) /\ ~Queued(i) => run[Worker].new = store[i])'
                    /\ Followed(i)'
    BY <1>2 DEF TrackInv
<1>7. CASE i = e
  <2>1. Queued(i)'
    BY <1>4, <1>5, <1>7 DEF Queued
  <2>2. LastEvent(i)'
    <3> SUFFICES ASSUME NEW k \in 1 .. Len(queue'),
                        \A l \in k + 1 .. Len(queue') : queue'[l].key # i
                 PROVE  queue'[k].new = store'[i]
      BY DEF LastEvent
    <3>1. k = n + 1
      BY <1>4, <1>5, <1>7
    <3> QED
      BY <1>4, <1>5, <1>6, <1>7, <3>1
  <2> QED
    BY <2>1, <2>2 DEF Followed
<1>8. CASE i # e
  <2>1. Queued(i)' <=> Queued(i)
    BY <1>4, <1>5, <1>8 DEF Queued, n
  <2>2. LastEvent(i)'
    <3> SUFFICES ASSUME NEW k \in 1 .. Len(queue'), queue'[k].key = i,
                        \A l \in k + 1 .. Len(queue') : queue'[l].key # i
                 PROVE  queue'[k].new = store'[i]
      BY DEF LastEvent
    <3>1. k \in 1 .. n /\ queue[k].key = i /\ queue'[k] = queue[k]
      BY <1>4, <1>5, <1>8
    <3>2. \A l \in k + 1 .. n : queue[l].key # i
      BY <1>5, <3>1
    <3> QED
      BY <1>6, <1>8, <3>1, <3>2 DEF TrackInv, LastEvent, n
  <2>3. (Tracking(i) /\ ~Queued(i) => run[Worker].new = store[i])'
    BY <1>2, <1>6, <1>8, <2>1 DEF TrackInv, Tracking
  <2>4. Followed(i)'
    BY <1>2, <1>6, <1>8, <2>1 DEF TrackInv, Followed, Tracking
  <2> QED
    BY <2>2, <2>3, <2>4
<1> QED
    BY <1>7, <1>8

\* The last event of an ingress leaves the queue with what is stored.
LEMMA TakeTracks ==
    ASSUME Typed, TrackInv, Take
    PROVE  TrackInv'
<1> DEFINE e == Head(queue)
           n == Len(queue)
<1>1. queue \in Seq(Events) /\ queue # <<>> /\ RunsOK
    BY DEF Take, Typed, RestOK
<1>2. e \in Events /\ e = queue[1]
    BY <1>1, HeadTailProperties
<1>3. n \in Nat \ {0} /\ Len(queue') = n - 1 /\ \A k \in 1 .. n - 1 : queue'[k] = queue[k + 1]
    BY <1>1, HeadTailProperties, EmptySeq, LenProperties DEF Take
<1>4. run'[Worker] = Begin(e.key, e.old, e.new) /\ run'[Sync] = run[Sync]
    BY <1>1, GotoElsewhere DEF Take, Processes, Worker, Sync
<1> HIDE DEF e
<1>5. run'[Worker].key = e.key /\ run'[Worker].call = "inspect" /\ run'[Worker].new = e.new
    BY <1>4 DEF Begin, Idle
<1>6. UNCHANGED <<store, tracker, mishap>> /\ run[Worker].call = "idle"
    BY DEF Take, At
<1> HIDE DEF n
<1> SUFFICES ASSUME NEW i \in Ingresses
             PROVE  /\ LastEvent(i)'
                    /\ (Tracking(i) /\ ~Queued(i) => run[Worker].new = store[i])'
                    /\ Followed(i)'
    BY <1>4 DEF TrackInv
<1>7. LastEvent(i)'
  <2> SUFFICES ASSUME NEW k \in 1 .. Len(queue'), queue'[k].key = i,
                      \A l \in k + 1 .. Len(queue') : queue'[l].key # i
               PROVE  queue'[k].new = store'[i]
    BY DEF LastEvent
  <2>1. k + 1 \in 1 .. n /\ queue[k + 1].key = i /\ queue'[k] = queue[k + 1]
    BY <1>3
  <2>2. ASSUME NEW l \in (k + 1) + 1 .. n PROVE queue[l].key # i
    <3>1. l - 1 \in k + 1 .. Len(queue') /\ l - 1 \in 1 .. n - 1 /\ (l - 1) + 1 = l
      BY <1>3
    <3> QED
      BY <1>3, <3>1
  <2> QED
    BY <1>6, <2>1, <2>2 DEF TrackInv, LastEvent, n
<1>8. ASSUME NEW k \in 2 .. n, queue[k].key = i PROVE Queued(i)'
  <2>1. k - 1 \in 1 .. Len(queue') /\ k - 1 \in 1 .. n - 1 /\ (k - 1) + 1 = k
    BY <1>3
  <2>2. queue'[k - 1] = queue[k]
    BY <1>3, <2>1
  <2> QED
    BY <1>8, <2>1, <2>2 DEF Queued
<1>9. (Tracking(i) /\ ~Queued(i) => run[Worker].new = store[i])'
  <2> SUFFICES ASSUME Tracking(i)', ~Queued(i)' PROVE run'[Worker].new = store'[i]
    OBVIOUS
  <2>1. queue[1].key = i /\ 1 \in 1 .. n
    BY <1>2, <1>3, <1>5 DEF Tracking
  <2>2. \A l \in 1 + 1 .. n : queue[l].key # i
    BY <1>8
  <2>3. queue[1].new = store[i]
    BY <2>1, <2>2 DEF TrackInv, LastEvent, n
  <2> QED
    BY <1>2, <1>5, <1>6, <2>3
<1>10. Followed(i)'
  <2> SUFFICES ASSUME "lost" \notin mishap', NEW s \in Used(store'[i])
               PROVE  Queued(i)' \/ Tracking(i)' \/ tracker'[s] # None
    BY DEF Followed
  <2>1. Queued(i) \/ tracker[s] # None
    BY <1>6 DEF TrackInv, Followed, Tracking
  <2>2. CASE Queued(i)
    <3>1. PICK k \in 1 .. n : queue[k].key = i
      BY <2>2 DEF Queued, n
    <3>2. CASE k = 1
      BY <1>2, <1>5, <3>1, <3>2 DEF Tracking
    <3>3. CASE k # 1
      BY <1>3, <1>8, <3>1, <3>3
    <3> QED
      BY <3>2, <3>3
  <2> QED
    BY <1>6, <2>1, <2>2
<1> QED
    BY <1>7, <1>9, <1>10

\* Trackers that are removed belong to no ingress any more, or that is
\* recorded; the ones of the run's object are set.
LEMMA TrackTracks ==
    ASSUME Typed, TrackInv, NEW p \in Processes, Track(p)
    PROVE  TrackInv'
<1> DEFINE r == run[p]
           q == [r EXCEPT !.call = "certs"]
<1>1. RunsOK /\ r \in Run /\ r.call = "track" /\ Read(r)
    BY DEF Typed, RunsOK, Track, At, RunOK, Busy
<1>2. run'[p] = q /\ \A o \in Processes \ {p} : run'[o] = run[o]
    BY <1>1, GotoElsewhere DEF Track, Then
<1>3. q.call = "certs" /\ q.old = r.old
    BY <1>1 DEF Run
<1>4. tracker' = Trackers(r) /\ UNCHANGED <<store, queue>>
    BY DEF Track
<1>5. "lost" \notin mishap' =>
        /\ "lost" \notin mishap
        /\ \A i \in Ingresses \ {r.key} : (Used(r.old) \ Used(r.new)) \cap Used(store[i]) = {}
    BY DEF Track
<1>6. \A s \in Used(r.new) : r.versions[s] # None
    BY <1>1, NoneAssumption DEF Read
<1>7. \A s \in Secrets :
        tracker[s] # None \/ s \in Used(r.new) =>
            tracker'[s] # None \/ s \in Used(r.old) \ Used(r.new)
    BY <1>4, <1>6 DEF Trackers
<1> HIDE DEF q
<1>8. \A i \in Ingresses : Queued(i)' <=> Queued(i)
    BY <1>4 DEF Queued
<1>9. \A i \in Ingresses : Tracking(i)' => Tracking(i) /\ run'[Worker].new = run[Worker].new
    BY <1>2, <1>3 DEF Tracking, Processes
<1> SUFFICES ASSUME NEW i \in Ingresses
             PROVE  /\ LastEvent(i)'
                    /\ (Tracking(i) /\ ~Queued(i) => run[Worker].new = store[i])'
                    /\ Followed(i)'
  <2>1. run'[Sync].old = Absent
    BY <1>2, <1>3 DEF TrackInv, Processes
  <2> QED
    BY <2>1 DEF TrackInv
<1>10. LastEvent(i)'
    BY <1>4 DEF TrackInv, LastEvent
<1>11. (Tracking(i) /\ ~Queued(i) => run[Worker].new = store[i])'
    BY <1>4, <1>8, <1>9 DEF TrackInv
<1>12. Followed(i)'
  <2> SUFFICES ASSUME "lost" \notin mishap', NEW s \in Used(store[i]), ~Queued(i), ~Tracking(i)'
               PROVE  tracker'[s] # None
    BY <1>4, <1>8 DEF Followed
  <2>1. s \in Secrets
    BY UsedOK DEF Typed, RestOK
  <2>2. CASE Tracking(i)
    <3>1. p = Worker
      BY <1>2, <2>2 DEF Tracking, Processes
    <3>2. run[Worker].new = store[i]
      BY <2>2 DEF TrackInv
    <3> QED
      BY <1>7, <2>1, <3>1, <3>2
  <2>3. CASE ~Tracking(i)
    <3>1. tracker[s] # None
      BY <1>5, <2>3 DEF TrackInv, Followed
    <3>2. CASE p = Worker
      <4>1. r.key # i
        BY <1>1, <2>3, <3>2 DEF Tracking
      <4> QED
        BY <1>5, <1>7, <2>1, <3>1, <4>1
    <3>3. CASE p = Sync
      <4>1. Used(r.old) = {}
        BY <3>3 DEF TrackInv, Used
      <4> QED
        BY <1>7, <2>1, <3>1, <4>1
    <3> QED
      BY <3>2, <3>3 DEF Processes
  <2> QED
    BY <2>2, <2>3
<1> QED
    BY <1>10, <1>11, <1>12

\* A restart queues an event for every ingress.
LEMMA CrashTracks ==
    ASSUME Typed, Crash
    PROVE  TrackInv'
<1>1. store' = store /\ store \in [Ingresses -> Ingress] /\ queue' \in Listed(store)
    BY DEF Typed, RestOK, Crash
<1>2. \A i \in Ingresses : LastEvent(i)'
    BY <1>1, ListedAll DEF LastEvent
<1>3. \A i \in Ingresses : Used(store[i]) # {} => Queued(i)'
    BY <1>1, ListedAll DEF Used, Queued
<1>4. run'[Worker].call = "idle" /\ run'[Sync].old = Absent
    BY DEF Crash, Processes, Idle
<1> QED
    BY <1>1, <1>2, <1>3, <1>4 DEF TrackInv, Followed, Tracking

\* After the trackers no call leads back to them before the run is over.
Later(p, r) == r.old \in {run[p].old, Absent} /\ r.call \notin {"inspect", "track"}

\* One call follows another.
LEMMA CallLater ==
    ASSUME NEW p \in Processes, NEW r \in Run, r.old = run[p].old,
           NEW call \in Calls \ {"inspect", "track"}
    PROVE  Later(p, [r EXCEPT !.call = call])
BY DEF Later, Run

\* The deletions follow the listener.
LEMMA PruneLater ==
    ASSUME NEW p \in Processes, NEW r \in Run, r.old = run[p].old
    PROVE  Later(p, Prune(r))
BY DEF Later, Prune, AfterListener, Run

\* The listener follows the imports.
LEMMA ImportedLater ==
    ASSUME NEW p \in Processes, NEW r \in Run, r.old = run[p].old
    PROVE  Later(p, Imported(r))
<1>1. CASE Imported(r) = Prune(r)
    BY <1>1, PruneLater
<1>2. CASE Imported(r) # Prune(r)
  <2>1. PICK call \in Calls \ {"inspect", "track"} : Imported(r) = [r EXCEPT !.call = call]
    BY <1>2 DEF Imported, Calls
  <2> QED
    BY <2>1, CallLater
<1> QED
    BY <1>1, <1>2

\* The second list follows the first.
LEMMA DeletingLater ==
    ASSUME NEW p \in Processes, NEW r \in Run, r.old = run[p].old,
           NEW call \in {"deleteOld", "deleteNew"}, NEW doomed \in SUBSET Cert
    PROVE  Later(p, Deleting(p, [r EXCEPT !.call = call, !.doomed = doomed]))
<1> DEFINE q == [r EXCEPT !.call = call, !.doomed = doomed]
<1>1. q \in Run /\ q.call = call /\ q.old = r.old
    BY DEF Run, Calls
<1>2. Later(p, Return(p))
    BY DEF Return, Idle, Later
<1> HIDE DEF q
<1>3. "pruneNew" \in Calls
    BY DEF Calls
<1>4. Later(p, [q EXCEPT !.call = "pruneNew"])
    BY <1>1, <1>3, CallLater
<1>5. Later(p, Deleting(p, q))
    BY <1>1, <1>2, <1>4 DEF Deleting, Later
<1> QED
    BY <1>5 DEF q

\* The other calls of one goroutine come before or after its trackers.
LEMMA CallTracks ==
    ASSUME Typed, TrackInv, NEW p \in Processes,
           \/ Inspect(p) \/ ListCertificate(p) \/ ImportCertificate(p)
           \/ FindListener(p) \/ CreateListener(p) \/ UpdateListener(p)
           \/ ListRedundant(p) \/ DeleteCertificate(p)
           \/ SecretMissing(p) \/ Refused(p) \/ CallFails(p) \/ ListFails(p) \/ DeleteFails(p)
    PROVE  TrackInv'
<1>0. RunsOK /\ run[p] \in Run /\ (Busy(run[p]) => run[p].key \in Ingresses)
    BY DEF Typed, RunsOK, RunOK
<1>1. UNCHANGED <<store, queue, tracker>> /\ mishap \cap {"lost"} \subseteq mishap'
    BY DEF Inspect, ListCertificate, ImportCertificate, FindListener, CreateListener,
       UpdateListener, ListRedundant, DeleteCertificate, SecretMissing, Refused,
       CallFails, ListFails, DeleteFails, Fail, Mark
<1>2. CASE SecretMissing(p) \/ Refused(p) \/ CallFails(p)
  <2>1. "lost" \in mishap' /\ Goto(p, Return(p))
    BY <1>2 DEF SecretMissing, Refused, CallFails, Fail
  <2>2. Return(p).old = Absent /\ Return(p).call \notin {"inspect", "track"}
    BY DEF Return, Idle
  <2>3. /\ run'[Sync].old = Absent
        /\ \A i \in Ingresses : Tracking(i)' => Tracking(i) /\ run'[Worker].new = run[Worker].new
    BY <1>0, <2>1, <2>2, GotoElsewhere DEF TrackInv, Tracking, Processes
  <2> QED
    BY <1>1, <2>1, <2>3, TrackCalm
<1>3. CASE Inspect(p)
  <2>1. PICK versions : Goto(p, [run[p] EXCEPT !.call = "track", !.versions = versions])
    BY <1>3 DEF Inspect
  <2> DEFINE r == [run[p] EXCEPT !.call = "track", !.versions = versions]
  <2>2. r.call = "track" /\ r.key = run[p].key /\ r.old = run[p].old /\ r.new = run[p].new
    BY <1>0 DEF Run
  <2>3. run[p].call = "inspect"
    BY <1>3 DEF Inspect, At
  <2> HIDE DEF r
  <2>4. run'[p] = r /\ \A q \in Processes \ {p} : run'[q] = run[q]
    BY <1>0, <2>1, GotoElsewhere DEF r
  <2>5. /\ run'[Sync].old = Absent
        /\ \A i \in Ingresses : Tracking(i)' <=> Tracking(i)
        /\ run'[Worker].new = run[Worker].new
    BY <2>2, <2>3, <2>4 DEF TrackInv, Tracking, Processes
  <2> QED
    BY <1>1, <2>5, TrackCalm
<1>4. CASE ~(SecretMissing(p) \/ Refused(p) \/ CallFails(p)) /\ ~Inspect(p)
  <2>1. run[p].call \in Calls \ {"idle", "list", "next", "inspect", "track"}
    BY <1>0, <1>4 DEF ListCertificate, ImportCertificate, FindListener, CreateListener,
       UpdateListener, ListRedundant, DeleteCertificate, ListFails, DeleteFails, At, Calls
  <2>2. PICK r : Goto(p, r) /\ Later(p, r)
    <3>1. CASE \/ FindListener(p) \/ CreateListener(p) \/ UpdateListener(p)
               \/ ListFails(p) /\ At(p, "pruneOld")
      <4>1. CASE Goto(p, Prune(run[p]))
        BY <1>0, <4>1, PruneLater
      <4>2. CASE ~Goto(p, Prune(run[p]))
        <5>1. PICK call \in Calls \ {"inspect", "track"} : Then(p, call)
          BY <3>1, <4>2 DEF FindListener, CreateListener, UpdateListener, ListFails, At, Calls
        <5> QED
          BY <1>0, <5>1, CallLater DEF Then
      <4> QED
        BY <4>1, <4>2
    <3>2. CASE ListCertificate(p)
      <4>1. PICK uuid \in [Secrets -> certs \cup {None}] :
               Goto(p, Imported([run[p] EXCEPT !.uuid = uuid]))
        BY <3>2 DEF ListCertificate
      <4> DEFINE r == [run[p] EXCEPT !.uuid = uuid]
      <4>2. r \in Run /\ r.old = run[p].old
        BY <1>0 DEF Run, Typed, RestOK
      <4> HIDE DEF r
      <4> QED
        BY <4>1, <4>2, ImportedLater DEF r
    <3>3. CASE ImportCertificate(p)
      <4>1. PICK s \in Missing(run[p]), c \in Cert :
               Goto(p, Imported([run[p] EXCEPT !.uuid[s] = c]))
        BY <3>3, ImportsCert
      <4> DEFINE r == [run[p] EXCEPT !.uuid[s] = c]
      <4>2. r \in Run /\ r.old = run[p].old
        BY <1>0 DEF Run
      <4> HIDE DEF r
      <4> QED
        BY <4>1, <4>2, ImportedLater DEF r
    <3>4. CASE ListFails(p) /\ ~At(p, "pruneOld")
      <4>1. Goto(p, Imported(run[p])) \/ Goto(p, Return(p))
        BY <3>4 DEF ListFails
      <4>2. Later(p, Return(p))
        BY DEF Return, Idle, Later
      <4> QED
        BY <1>0, <4>1, <4>2, ImportedLater
    <3>5. CASE ListRedundant(p)
      <4>1. PICK call \in {"deleteOld", "deleteNew"}, used \in {Used(run[p].old), Used(run[p].new)} :
               Goto(p, Deleting(p, [run[p] EXCEPT !.call = call, !.doomed = Redundant(used)]))
        BY <3>5 DEF ListRedundant
      <4>2. Redundant(used) \in SUBSET Cert
        BY DEF Redundant, Typed, RestOK
      <4> QED
        BY <1>0, <4>1, <4>2, DeletingLater
    <3>6. CASE DeleteCertificate(p) \/ DeleteFails(p)
      <4>1. PICK c \in run[p].doomed : Goto(p, Deleting(p, [run[p] EXCEPT !.doomed = @ \ {c}]))
        BY <3>6 DEF DeleteCertificate, DeleteFails
      <4> DEFINE doomed == run[p].doomed \ {c}
                 call == run[p].call
      <4>2. call \in {"deleteOld", "deleteNew"}
        BY <3>6 DEF DeleteCertificate, DeleteFails, At
      <4>3. doomed \in SUBSET Cert
        BY <1>0 DEF Run
      <4>4. [run[p] EXCEPT !.doomed = @ \ {c}] = [run[p] EXCEPT !.call = call, !.doomed = doomed]
        BY <1>0 DEF Run
      <4> HIDE DEF call, doomed
      <4> QED
        BY <1>0, <4>1, <4>2, <4>3, <4>4, DeletingLater
    <3> QED
      BY <1>4, <3>1, <3>2, <3>3, <3>4, <3>5, <3>6
  <2>3. run'[p] = r /\ \A q \in Processes \ {p} : run'[q] = run[q]
    BY <1>0, <2>2, GotoElsewhere
  <2>4. /\ run'[Sync].old = Absent
        /\ \A i \in Ingresses : ~Tracking(i)' \/ (Tracking(i) /\ run'[Worker].new = run[Worker].new)
        /\ \A i \in Ingresses : Tracking(i) => Tracking(i)'
    BY <2>1, <2>2, <2>3 DEF Later, TrackInv, Tracking, Processes
  <2> QED
    BY <1>1, <2>4, TrackCalm
<1> QED
    BY <1>2, <1>3, <1>4

\* nodeSyncLoop removes no tracker: it has no old object.
LEMMA SyncTracks ==
    ASSUME Typed, TrackInv, SyncLoop \/ OtherTick
    PROVE  TrackInv'
<1>1. UNCHANGED <<store, queue, tracker, mishap>>
    BY DEF SyncLoop, SecretTick, OtherTick, StartPass, ListIngresses, SyncNext, EndPass
<1>2. PICK r : Goto(Sync, r) /\ r.old = Absent
  <2>1. CASE SyncNext
    <3>1. PICK t \in todo : Goto(Sync, Begin(t[1], Absent, t[2]))
      BY <2>1 DEF SyncNext
    <3>2. Begin(t[1], Absent, t[2]).old = Absent
      BY DEF Begin, Idle
    <3> QED
      BY <3>1, <3>2
  <2>2. CASE StartPass
    <3>1. [Idle EXCEPT !.call = "list"].old = Absent
      BY DEF Idle
    <3> QED
      BY <2>2, <3>1 DEF StartPass
  <2>3. CASE ListIngresses
    <3>1. [Idle EXCEPT !.call = "next"].old = Absent
      BY DEF Idle
    <3> QED
      BY <2>3, <3>1 DEF ListIngresses
  <2>4. CASE EndPass
    BY <2>4 DEF EndPass, Idle
  <2> QED
    BY <2>1, <2>2, <2>3, <2>4 DEF SyncLoop, SecretTick, OtherTick
<1>3. run'[Sync] = r /\ run'[Worker] = run[Worker]
    BY <1>2, GotoElsewhere DEF Typed, Processes, Worker, Sync
<1> QED
    BY <1>1, <1>2, <1>3, TrackCalm DEF Tracking

LEMMA AlwaysTyped == Spec => []Typed
BY InitTypes, NextTypes, PTL DEF Spec

LEMMA AlwaysTracking == Spec => []TrackInv
<1>1. Init => TrackInv
  <2> SUFFICES ASSUME Init PROVE TrackInv
    OBVIOUS
  <2>1. store \in [Ingresses -> Ingress] /\ queue \in Listed(store)
    BY StoresAssumption DEF Init
  <2>2. \A i \in Ingresses : LastEvent(i)
    BY <2>1, ListedAll DEF LastEvent
  <2>3. \A i \in Ingresses : Used(store[i]) # {} => Queued(i)
    BY <2>1, ListedAll DEF Used, Queued
  <2>4. run[Worker].call = "idle" /\ run[Sync].old = Absent
    BY DEF Init, Processes, Idle
  <2> QED
    BY <2>2, <2>3, <2>4 DEF TrackInv, Followed, Tracking
<1>2. Typed /\ TrackInv /\ [Next]_vars => TrackInv'
  <2> SUFFICES ASSUME Typed, TrackInv, [Next]_vars PROVE TrackInv'
    OBVIOUS
  <2>1. CASE UNCHANGED vars \/ \E s \in Secrets : ChangeSecret(s)
    <3>1. UNCHANGED <<store, queue, run, tracker, mishap>>
      BY <2>1 DEF vars, ChangeSecret
    <3> QED
      BY <3>1, TrackCalm DEF Tracking, TrackInv
  <2> QED
    BY <2>1, EditTracks, TakeTracks, TrackTracks, CallTracks, SyncTracks, CrashTracks
       DEF Next, Call
<1> QED
    BY <1>1, <1>2, AlwaysTyped, PTL DEF Spec

\* SecretsTracked of Certificates: a secret of an ingress is tracked once its
\* events are handled, unless a call failed or an ingress that shared it gave
\* it up, for all edits, changed secrets, passes and restarts.
THEOREM Tracked == Spec => []SecretsTracked
<1>1. TrackInv => SecretsTracked
  <2> SUFFICES ASSUME TrackInv, Rest, "lost" \notin mishap, NEW i \in TLS, NEW s \in Used(store[i])
               PROVE  tracker[s] # None
    BY DEF SecretsTracked
  <2>1. ~Queued(i) /\ ~Tracking(i)
    BY DEF Rest, Queued, Tracking, At, Processes
  <2> QED
    BY <2>1 DEF TrackInv, Followed, TLS
<1> QED
    BY <1>1, AlwaysTracking, PTL

-----------------------------------------------------------------------------
(* What the calls of a run do to it.                                       *)

\* A run goes on about the same ingress.
Same(r, q) ==
    q.key = r.key /\ q.old = r.old /\ q.new = r.new /\ q.versions = r.versions

\* The deletions come next.
Pruning(r, q) == Same(r, q) /\ q.call = AfterListener(r) /\ q.uuid = Nothing

\* So do the imports and the listener, of an ingress that has secrets.
Importing(r, q) ==
    /\ Same(r, q)
    /\ HasTLS(r.new) => q.call \in {"import", "find"} /\ q.uuid = r.uuid
    /\ ~HasTLS(r.new) => q.call = AfterListener(r) /\ q.uuid = Nothing

\* A run is over.
Over(q) == ~Busy(q) /\ q.old = Absent /\ q.versions = Nothing /\ q.uuid = Nothing

AnyCall(p) == Call(p) \/ CallFails(p) \/ ListFails(p) \/ DeleteFails(p)

LEMMA ThenFields ==
    ASSUME NEW r \in Run, NEW call
    PROVE  LET q == [r EXCEPT !.call = call]
           IN  Same(r, q) /\ q.call = call /\ q.uuid = r.uuid /\ q.doomed = r.doomed
BY DEF Same, Run

LEMMA PruneFields ==
    ASSUME NEW r \in Run
    PROVE  Pruning(r, Prune(r))
BY DEF Prune, Pruning, Same, Run

LEMMA ImportedFields ==
    ASSUME NEW r \in Run
    PROVE  Importing(r, Imported(r))
<1>1. CASE Missing(r) # {}
  <2>1. HasTLS(r.new)
    BY <1>1 DEF Missing, HasTLS
  <2> QED
    BY <1>1, <2>1, ThenFields DEF Imported, Importing
<1>2. CASE Missing(r) = {} /\ HasTLS(r.new)
    BY <1>2, ThenFields DEF Imported, Importing
<1>3. CASE Missing(r) = {} /\ ~HasTLS(r.new)
    BY <1>3, PruneFields DEF Imported, Importing, Pruning
<1> QED
    BY <1>1, <1>2, <1>3

LEMMA OverFields ==
    ASSUME NEW p \in Processes
    PROVE  Over(Return(p)) /\ Over(Idle) /\ \A call \in {"idle", "list", "next"} : Over([Idle EXCEPT !.call = call])
BY DEF Return, Over, Idle, Busy

LEMMA BeginFields ==
    ASSUME NEW i \in Ingresses, NEW old \in Ingress, NEW new \in Ingress
    PROVE  LET q == Begin(i, old, new)
           IN  /\ q.call = "inspect" /\ q.key = i /\ q.old = old /\ q.new = new
               /\ q.versions = Nothing /\ q.uuid = Nothing
BY DEF Begin, Idle

\* inspectIngress.
LEMMA InspectFields ==
    ASSUME Typed, NEW p \in Processes, Inspect(p)
    PROVE  LET r == run[p]
               q == run'[p]
           IN  /\ r.call = "inspect" /\ q.call = "track"
               /\ q.key = r.key /\ q.old = r.old /\ q.new = r.new /\ q.uuid = r.uuid
               /\ \A s \in Secrets : q.versions[s] # None => q.versions[s] = secret[s]
<1>0. RunsOK /\ run[p] \in Run
    BY DEF Typed, RunsOK
<1> DEFINE used == Used(run[p].old) \cup Used(run[p].new)
           versions == [s \in Secrets |-> IF s \in used THEN secret[s] ELSE None]
           q == [run[p] EXCEPT !.call = "track", !.versions = versions]
<1>1. Goto(p, q) /\ run[p].call = "inspect"
    BY DEF Inspect, At
<1>2. \A s \in Secrets : versions[s] # None => versions[s] = secret[s]
    OBVIOUS
<1> HIDE DEF versions
<1>3. /\ q.call = "track" /\ q.key = run[p].key /\ q.old = run[p].old /\ q.new = run[p].new
      /\ q.uuid = run[p].uuid /\ q.versions = versions
    BY <1>0 DEF Run
<1> HIDE DEF q
<1>4. run'[p] = q
    BY <1>0, <1>1, GotoElsewhere
<1> QED
    BY <1>1, <1>2, <1>3, <1>4

\* The trackers.
LEMMA TrackFields ==
    ASSUME Typed, NEW p \in Processes, Track(p)
    PROVE  LET r == run[p]
               q == run'[p]
           IN  r.call = "track" /\ q.call = "certs" /\ Same(r, q) /\ q.uuid = r.uuid
<1>0. RunsOK /\ run[p] \in Run
    BY DEF Typed, RunsOK
<1> DEFINE q == [run[p] EXCEPT !.call = "certs"]
<1>1. Goto(p, q) /\ run[p].call = "track"
    BY DEF Track, Then, At
<1>2. q.call = "certs" /\ Same(run[p], q) /\ q.uuid = run[p].uuid
    BY <1>0, ThenFields
<1> HIDE DEF q
<1> QED
    BY <1>0, <1>1, <1>2, GotoElsewhere

\* EnsureCertificate: the certificates that are there.
LEMMA ListFields ==
    ASSUME Typed, NEW p \in Processes, ListCertificate(p)
    PROVE  \E uuid \in [Secrets -> certs \cup {None}] :
              LET r == run[p]
                  q == run'[p]
              IN  /\ r.call = "certs" /\ Same(r, q)
                  /\ HasTLS(r.new) => q.call \in {"import", "find"} /\ q.uuid = uuid
                  /\ ~HasTLS(r.new) => q.call = AfterListener(r) /\ q.uuid = Nothing
                  /\ \A s \in Secrets : uuid[s] # None =>
                       uuid[s] \in certs /\ uuid[s].secret = s /\ uuid[s].version = r.versions[s]
<1>0. RunsOK /\ run[p] \in Run /\ certs \in SUBSET Cert
    BY DEF Typed, RunsOK, RestOK
<1>1. PICK uuid \in [Secrets -> certs \cup {None}] :
         /\ \A s \in Secrets :
             LET named == IF s \in Used(run[p].new) THEN Named(s, run[p].versions[s]) ELSE {}
             IN  IF named = {} THEN uuid[s] = None ELSE uuid[s] \in named
         /\ Goto(p, Imported([run[p] EXCEPT !.uuid = uuid]))
    BY DEF ListCertificate
<1>2. \A s \in Secrets : uuid[s] # None =>
         uuid[s] \in certs /\ uuid[s].secret = s /\ uuid[s].version = run[p].versions[s]
    BY <1>1 DEF Named
<1> DEFINE r == [run[p] EXCEPT !.uuid = uuid]
<1>3. r \in Run /\ Same(run[p], r) /\ r.uuid = uuid
    BY <1>0 DEF Run, Same
<1>4. Goto(p, Imported(r)) /\ run[p].call = "certs"
    BY <1>1 DEF ListCertificate, At
<1> HIDE DEF r
<1>5. Importing(r, run'[p])
    BY <1>0, <1>3, <1>4, GotoElsewhere, ImportedFields
<1>6. AfterListener(r) = AfterListener(run[p])
    BY <1>3 DEF AfterListener, Same
<1> QED
    BY <1>2, <1>3, <1>4, <1>5, <1>6 DEF Importing, Same

\* toVngCloudCertificate and ImportCertificate.
LEMMA ImportFields ==
    ASSUME Typed, NEW p \in Processes, ImportCertificate(p)
    PROVE  \E s \in Secrets, c \in Cert :
              LET r == run[p]
                  q == run'[p]
              IN  /\ r.call = "import" /\ Same(r, q) /\ HasTLS(r.new) /\ s \in Used(r.new)
                  /\ q.call \in {"import", "find"} /\ certs' = certs \cup {c}
                  /\ c.secret = s /\ c.version = r.versions[s] /\ c.content = secret[s]
                  /\ r.versions[s] \in Nat /\ secret[s] \in Nat
                  /\ \A t \in Secrets : q.uuid[t] = IF t = s THEN c ELSE r.uuid[t]
<1>0. RunsOK /\ RestOK /\ run[p] \in Run /\ Read(run[p]) /\ run[p].call = "import"
    BY DEF Typed, RunsOK, RunOK, ImportCertificate, At, Busy
<1>1. PICK s \in Missing(run[p]) :
        LET c == [secret |-> s, version |-> run[p].versions[s], content |-> secret[s], by |-> p]
        IN  /\ secret[s] # None
            /\ certs' = certs \cup {c}
            /\ Goto(p, Imported([run[p] EXCEPT !.uuid[s] = c]))
    BY DEF ImportCertificate
<1> DEFINE c == [secret |-> s, version |-> run[p].versions[s], content |-> secret[s], by |-> p]
           r == [run[p] EXCEPT !.uuid[s] = c]
<1>2. s \in Used(run[p].new) /\ s \in Secrets
    BY <1>0, UsedOK DEF Missing, Run
<1>3. secret[s] \in Nat /\ run[p].versions[s] \in Nat
    BY <1>0, <1>1, <1>2 DEF RestOK, Versions, Read
<1>4. c \in Cert /\ c.secret = s /\ c.version = run[p].versions[s] /\ c.content = secret[s]
    BY <1>2, <1>3 DEF Cert
<1>5. certs' = certs \cup {c} /\ Goto(p, Imported(r))
    BY <1>1
<1> HIDE DEF c
<1>6. /\ r \in Run /\ Same(run[p], r)
      /\ \A t \in Secrets : r.uuid[t] = IF t = s THEN c ELSE run[p].uuid[t]
    BY <1>0, <1>2, <1>4 DEF Run, Same
<1> HIDE DEF r
<1>7. Importing(r, run'[p])
    BY <1>0, <1>5, <1>6, GotoElsewhere, ImportedFields
<1>8. HasTLS(r.new)
    BY <1>2, <1>6 DEF HasTLS, Same
<1> QED
    BY <1>0, <1>2, <1>3, <1>4, <1>5, <1>6, <1>7, <1>8 DEF Importing, Same

\* ensureListener finds the listener, and what it is to become.
LEMMA FindFields ==
    ASSUME Typed, NEW p \in Processes, FindListener(p)
    PROVE  LET r == run[p]
               q == run'[p]
           IN  /\ r.call = "find" /\ HasTLS(r.new)
               /\ \/ Same(r, q) /\ q.call = "create" /\ q.uuid = r.uuid
                  \/ Same(r, q) /\ q.call = "update" /\ q.uuid = r.uuid
                  \/ Pruning(r, q) /\ listener # None /\ listener.default = Default(r)
<1>0. RunsOK /\ run[p] \in Run /\ run[p].call = "find" /\ HasTLS(run[p].new)
    BY DEF Typed, RunsOK, RunOK, FindListener, At
<1>1. CASE Then(p, "create") \/ Then(p, "update")
  <2>1. PICK call \in {"create", "update"} : Then(p, call)
    BY <1>1
  <2> DEFINE q == [run[p] EXCEPT !.call = call]
  <2>2. Same(run[p], q) /\ q.call = call /\ q.uuid = run[p].uuid /\ Goto(p, q)
    BY <1>0, <2>1, ThenFields DEF Then
  <2> HIDE DEF q
  <2> QED
    BY <1>0, <2>2, GotoElsewhere
<1>2. CASE Goto(p, Prune(run[p])) /\ listener # None /\ listener.default = Default(run[p])
    BY <1>0, <1>2, GotoElsewhere, PruneFields
<1> QED
    BY <1>1, <1>2 DEF FindListener

\* The certificate to be attached is that of the first secret.
LEMMA DefaultOK ==
    ASSUME NEW r \in Run, RunOK(r), r.call \in {"find", "create", "update"}
    PROVE  /\ Head(r.new) \in Used(r.new) /\ Head(r.new) \in Secrets
           /\ Default(r) = r.uuid[Head(r.new)] /\ Default(r) \in Cert
<1>1. HasTLS(r.new) /\ Missing(r) = {}
    BY DEF RunOK
<1>2. Head(r.new) \in Used(r.new) /\ Head(r.new) \in Secrets
    BY <1>1, UsedOK DEF Run
<1> QED
    BY <1>1, <1>2 DEF Missing, Default, Run

LEMMA CreateFields ==
    ASSUME Typed, NEW p \in Processes, CreateListener(p)
    PROVE  LET r == run[p]
               q == run'[p]
           IN  /\ r.call = "create" /\ HasTLS(r.new)
               /\ Same(r, q) /\ q.call = "find" /\ q.uuid = r.uuid
               /\ listener = None /\ listener' # None /\ listener'.default = Default(r)
               /\ Mark({"stale", "left"}, Outdated(p))
<1>0. RunsOK /\ run[p] \in Run /\ RunOK(run[p]) /\ run[p].call = "create" /\ HasTLS(run[p].new)
    BY DEF Typed, RunsOK, RunOK, CreateListener, At
<1> DEFINE attached == {run[p].uuid[s] : s \in Used(run[p].new)}
           l == [default |-> Default(run[p]), others |-> attached]
           q == [run[p] EXCEPT !.call = "find"]
<1>1. /\ listener = None /\ listener' = l /\ Mark({"stale", "left"}, Outdated(p)) /\ Goto(p, q)
    BY DEF CreateListener, Then
<1>2. l \in Listener
  <2>1. attached \in SUBSET Cert
    BY <1>0, UsedOK DEF RunOK, Missing, Run
  <2> QED
    BY <1>0, <2>1, DefaultOK DEF Listener
<1>3. Same(run[p], q) /\ q.call = "find" /\ q.uuid = run[p].uuid
    BY <1>0, ThenFields
<1> HIDE DEF q, attached
<1> QED
    BY <1>0, <1>1, <1>2, <1>3, GotoElsewhere, NoneAssumption

LEMMA UpdateFields ==
    ASSUME Typed, NEW p \in Processes, UpdateListener(p)
    PROVE  LET r == run[p]
               q == run'[p]
           IN  /\ r.call = "update" /\ HasTLS(r.new) /\ Pruning(r, q)
               /\ listener # None /\ listener' # None
               /\ listener'.default = Default(r) /\ listener'.others = listener.others
               /\ Mark({"stale", "left"}, Outdated(p))
<1>0. /\ RunsOK /\ run[p] \in Run /\ RunOK(run[p]) /\ run[p].call = "update" /\ HasTLS(run[p].new)
      /\ listener \in Listener
    BY DEF Typed, RunsOK, RunOK, RestOK, Listeners, UpdateListener, At
<1>1. /\ listener' = [listener EXCEPT !.default = Default(run[p])]
      /\ Mark({"stale", "left"}, Outdated(p)) /\ Goto(p, Prune(run[p]))
    BY DEF UpdateListener
<1>2. listener' \in Listener /\ listener'.default = Default(run[p]) /\ listener'.others = listener.others
    BY <1>0, <1>1, DefaultOK DEF Listener
<1> QED
    BY <1>0, <1>1, <1>2, GotoElsewhere, PruneFields, NoneAssumption

\* DeleteRedundantCertificate: the list of the old object, and that of the
\* new one.  Without redundant certificates the next thing follows.
LEMMA DeletingFields ==
    ASSUME NEW p \in Processes, NEW r, NEW w \in Run, Same(r, w), w.uuid = r.uuid,
           w.call \in {"deleteOld", "deleteNew"}, NEW q, q = Deleting(p, w)
    PROVE  \/ Same(r, q) /\ q.uuid = r.uuid /\ q.call = w.call /\ q.doomed = w.doomed
           \/ /\ Same(r, q) /\ q.uuid = r.uuid /\ q.call = "pruneNew"
              /\ w.call = "deleteOld" /\ w.doomed = {}
           \/ Over(q) /\ w.call = "deleteNew" /\ w.doomed = {}
<1>1. CASE w.doomed # {}
    BY <1>1 DEF Deleting
<1>2. CASE w.doomed = {} /\ w.call = "deleteOld"
  <2> DEFINE v == [w EXCEPT !.call = "pruneNew"]
  <2>1. Same(w, v) /\ v.call = "pruneNew" /\ v.uuid = w.uuid
    BY ThenFields
  <2>2. q = v
    BY <1>2 DEF Deleting
  <2> HIDE DEF v
  <2> QED
    BY <1>2, <2>1, <2>2 DEF Same
<1>3. CASE w.doomed = {} /\ w.call = "deleteNew"
  <2>1. q = Return(p)
    BY <1>3 DEF Deleting
  <2> QED
    BY <1>3, <2>1, OverFields
<1> QED
    BY <1>1, <1>2, <1>3

LEMMA RedundantFields ==
    ASSUME Typed, NEW p \in Processes, ListRedundant(p)
    PROVE  LET r == run[p]
               q == run'[p]
               doomed == Redundant(Used(IF r.call = "pruneOld" THEN r.old ELSE r.new))
               call == IF r.call = "pruneOld" THEN "deleteOld" ELSE "deleteNew"
           IN  /\ r.call \in {"pruneOld", "pruneNew"}
               /\ \/ Same(r, q) /\ q.uuid = r.uuid /\ q.call = call /\ q.doomed = doomed
                  \/ /\ Same(r, q) /\ q.uuid = r.uuid /\ q.call = "pruneNew"
                     /\ r.call = "pruneOld" /\ doomed = {}
                  \/ Over(q) /\ r.call = "pruneNew" /\ doomed = {}
<1> DEFINE r == run[p]
           doomed == Redundant(Used(IF r.call = "pruneOld" THEN r.old ELSE r.new))
           call == IF r.call = "pruneOld" THEN "deleteOld" ELSE "deleteNew"
           w == [r EXCEPT !.call = call, !.doomed = doomed]
<1>0. RunsOK /\ r \in Run /\ doomed \in SUBSET Cert
    BY DEF Typed, RunsOK, RestOK, Redundant
<1>1. r.call \in {"pruneOld", "pruneNew"} /\ Goto(p, Deleting(p, w))
    BY DEF ListRedundant, At
<1>2. run'[p] = Deleting(p, w)
    BY <1>0, <1>1, GotoElsewhere
<1> HIDE DEF doomed
<1>3. /\ w \in Run /\ Same(r, w) /\ w.uuid = r.uuid /\ w.call = call /\ w.doomed = doomed
      /\ w.call \in {"deleteOld", "deleteNew"}
    BY <1>0 DEF Run, Calls, Same
<1> HIDE DEF w
<1>4. PICK q, v :
         /\ q = run'[p] /\ q = Deleting(p, v) /\ v \in Run /\ Same(r, v) /\ v.uuid = r.uuid
         /\ v.call = call /\ v.doomed = doomed /\ v.call \in {"deleteOld", "deleteNew"}
    BY <1>2, <1>3
<1>5. \/ Same(r, q) /\ q.uuid = r.uuid /\ q.call = v.call /\ q.doomed = v.doomed
      \/ /\ Same(r, q) /\ q.uuid = r.uuid /\ q.call = "pruneNew"
         /\ v.call = "deleteOld" /\ v.doomed = {}
      \/ Over(q) /\ v.call = "deleteNew" /\ v.doomed = {}
  <2> HIDE DEF r
  <2> QED
    BY <1>4, DeletingFields
<1> QED
    BY <1>1, <1>4, <1>5 DEF doomed

LEMMA DeleteFields ==
    ASSUME Typed, NEW p \in Processes, DeleteCertificate(p) \/ DeleteFails(p)
    PROVE  \E c \in run[p].doomed :
              LET r == run[p]
                  q == run'[p]
              IN  /\ r.call \in {"deleteOld", "deleteNew"}
                  /\ \/ Same(r, q) /\ q.uuid = r.uuid /\ q.call = r.call /\ q.doomed = r.doomed \ {c}
                     \/ /\ Same(r, q) /\ q.uuid = r.uuid /\ q.call = "pruneNew"
                        /\ r.call = "deleteOld" /\ r.doomed \subseteq {c}
                     \/ Over(q) /\ r.call = "deleteNew" /\ r.doomed \subseteq {c}
                  /\ \/ DeleteFails(p)
                     \/ certs' = IF InUse(c) THEN certs ELSE certs \ {c}
<1> DEFINE r == run[p]
<1>0. RunsOK /\ r \in Run /\ r.call \in {"deleteOld", "deleteNew"}
    BY DEF Typed, RunsOK, DeleteCertificate, DeleteFails, At
<1>1. PICK c \in r.doomed :
         /\ Goto(p, Deleting(p, [r EXCEPT !.doomed = @ \ {c}]))
         /\ DeleteFails(p) \/ certs' = IF InUse(c) THEN certs ELSE certs \ {c}
    BY DEF DeleteCertificate, DeleteFails
<1> DEFINE w == [r EXCEPT !.doomed = @ \ {c}]
<1>2. run'[p] = Deleting(p, w)
    BY <1>0, <1>1, GotoElsewhere
<1>3. w \in Run /\ Same(r, w) /\ w.uuid = r.uuid /\ w.call = r.call /\ w.doomed = r.doomed \ {c}
    BY <1>0 DEF Run, Same
<1>4. PICK q, v : q = run'[p] /\ v = w
    OBVIOUS
<1> HIDE DEF w
<1>5. \/ Same(r, q) /\ q.uuid = r.uuid /\ q.call = v.call /\ q.doomed = v.doomed
      \/ /\ Same(r, q) /\ q.uuid = r.uuid /\ q.call = "pruneNew"
         /\ v.call = "deleteOld" /\ v.doomed = {}
      \/ Over(q) /\ v.call = "deleteNew" /\ v.doomed = {}
    BY <1>0, <1>2, <1>3, <1>4, DeletingFields
<1> QED
    BY <1>0, <1>1, <1>3, <1>4, <1>5

\* A run that fails.
LEMMA FailFields ==
    ASSUME Typed, NEW p \in Processes, SecretMissing(p) \/ Refused(p) \/ CallFails(p)
    PROVE  /\ Over(run'[p]) /\ mishap' = mishap \cup {"lost", "left"}
           /\ UNCHANGED <<store, secret, queue, tracker, todo, certs, listener>>
BY GotoElsewhere, OverFields DEF Typed, SecretMissing, Refused, CallFails, Fail

\* A list that fails.
LEMMA ListFailsFields ==
    ASSUME Typed, NEW p \in Processes, ListFails(p)
    PROVE  LET r == run[p]
               q == run'[p]
           IN  /\ UNCHANGED <<store, secret, queue, tracker, todo, certs, listener>>
               /\ \/ r.call = "certs" /\ Importing(r, q) /\ mishap' = mishap
                  \/ /\ mishap' = mishap \cup {"left"} /\ r.call \in {"pruneOld", "pruneNew"}
                     /\ Over(q) \/ (Same(r, q) /\ q.call = "pruneNew" /\ q.uuid = r.uuid)
<1>0. RunsOK /\ run[p] \in Run
    BY DEF Typed, RunsOK
<1>1. UNCHANGED <<store, secret, queue, tracker, todo, certs, listener>>
    BY DEF ListFails
<1>2. CASE At(p, "certs")
  <2>1. Goto(p, Imported(run[p]))
    BY <1>2 DEF ListFails, At
  <2>3. mishap' = mishap
    BY <1>2 DEF ListFails, Mark
  <2> QED
    BY <1>0, <1>1, <1>2, <2>1, <2>3, GotoElsewhere, ImportedFields DEF At
<1>3. CASE ~At(p, "certs")
  <2>0. mishap' = mishap \cup {"left"}
    BY <1>3 DEF ListFails, Mark
  <2>1. CASE At(p, "pruneOld")
    <3> DEFINE q == [run[p] EXCEPT !.call = "pruneNew"]
    <3>1. Goto(p, q)
      BY <2>1 DEF ListFails, Then, At
    <3>2. Same(run[p], q) /\ q.call = "pruneNew" /\ q.uuid = run[p].uuid
      BY <1>0, ThenFields
    <3> HIDE DEF q
    <3> QED
      BY <1>0, <1>1, <2>0, <2>1, <3>1, <3>2, GotoElsewhere DEF At
  <2>2. CASE At(p, "pruneNew") /\ Goto(p, Return(p))
    BY <1>0, <1>1, <2>0, <2>2, GotoElsewhere, OverFields DEF At
  <2> QED
    BY <1>3, <2>1, <2>2 DEF ListFails, At
<1> QED
    BY <1>2, <1>3

\* What every call of a run leaves alone.
LEMMA CallFrame ==
    ASSUME Typed, NEW p \in Processes, AnyCall(p)
    PROVE  /\ \A q \in Processes \ {p} : run'[q] = run[q]
           /\ Busy(run[p]) /\ run[p] \in Run /\ run[p].key \in Ingresses
           /\ UNCHANGED <<store, secret, queue, todo>> /\ mishap \subseteq mishap'
           /\ spent'["secret"] = spent["secret"]
           /\ \/ Over(run'[p])
              \/ /\ run'[p].key = run[p].key /\ run'[p].old = run[p].old
                 /\ run'[p].new = run[p].new
<1>0. RunsOK /\ RestOK /\ run[p] \in Run /\ (Busy(run[p]) => run[p].key \in Ingresses)
    BY DEF Typed, RunsOK, RunOK
<1>1. Busy(run[p])
    BY DEF AnyCall, Call, CallFails, ListFails, DeleteFails, Inspect, Track, ListCertificate,
       ImportCertificate, FindListener, CreateListener, UpdateListener, ListRedundant,
       DeleteCertificate, SecretMissing, Refused, At, Busy
<1>2. UNCHANGED <<store, secret, queue, todo>> /\ mishap \subseteq mishap'
    BY DEF AnyCall, Call, CallFails, ListFails, DeleteFails, Inspect, Track, ListCertificate,
       ImportCertificate, FindListener, CreateListener, UpdateListener, ListRedundant,
       DeleteCertificate, SecretMissing, Refused, Fail, Mark
<1>3. spent'["secret"] = spent["secret"]
  <2>1. CASE Spend("trouble")
    BY <1>0, <2>1 DEF Spend, RestOK, Kinds
  <2>2. CASE UNCHANGED spent
    BY <2>2
  <2> QED
    BY <2>1, <2>2 DEF AnyCall, Call, CallFails, ListFails, DeleteFails, Inspect, Track,
       ListCertificate, ImportCertificate, FindListener, CreateListener, UpdateListener,
       ListRedundant, DeleteCertificate, SecretMissing, Refused
<1>4. \A q \in Processes \ {p} : run'[q] = run[q]
  <2>1. PICK r : Goto(p, r)
    BY DEF AnyCall, Call, CallFails, ListFails, DeleteFails, Inspect, Track, ListCertificate,
       ImportCertificate, FindListener, CreateListener, UpdateListener, ListRedundant,
       DeleteCertificate, SecretMissing, Refused, Fail, Then
  <2> QED
    BY <1>0, <2>1, GotoElsewhere
<1>5. \/ Over(run'[p])
      \/ /\ run'[p].key = run[p].key /\ run'[p].old = run[p].old
         /\ run'[p].new = run[p].new
  <2>1. CASE Inspect(p) \/ Track(p)
    BY <2>1, InspectFields, TrackFields DEF Same
  <2>2. CASE ListCertificate(p) \/ ImportCertificate(p)
    BY <2>2, ListFields, ImportFields DEF Same
  <2>3. CASE FindListener(p) \/ CreateListener(p) \/ UpdateListener(p)
    BY <2>3, FindFields, CreateFields, UpdateFields DEF Same, Pruning
  <2>4. CASE ListRedundant(p)
    BY <2>4, RedundantFields DEF Same
  <2>5. CASE DeleteCertificate(p) \/ DeleteFails(p)
    BY <2>5, DeleteFields DEF Same
  <2>6. CASE SecretMissing(p) \/ Refused(p) \/ CallFails(p)
    BY <2>6, FailFields
  <2>7. CASE ListFails(p)
    BY <2>7, ListFailsFields DEF Same, Importing
  <2> QED
    BY <2>1, <2>2, <2>3, <2>4, <2>5, <2>6, <2>7 DEF AnyCall, Call
<1> QED
    BY <1>0, <1>1, <1>2, <1>3, <1>4, <1>5

\* What a step of nodeSyncLoop leaves alone, and where it goes.
LEMMA SyncFields ==
    ASSUME Typed, SyncLoop \/ OtherTick
    PROVE  /\ UNCHANGED <<store, secret, queue, tracker, certs, listener, mishap>>
           /\ run'[Worker] = run[Worker] /\ spent'["secret"] = spent["secret"]
           /\ ~Busy(run[Sync])
           /\ \/ Over(run'[Sync])
              \/ \E i \in Ingresses, b \in Ingress : run'[Sync] = Begin(i, Absent, b)
<1>0. RunsOK /\ RestOK /\ Worker \in Processes /\ Sync \in Processes /\ Worker # Sync
    BY DEF Typed, Processes, Worker, Sync
<1>1. UNCHANGED <<store, secret, queue, tracker, certs, listener, mishap>> /\ ~Busy(run[Sync])
    BY DEF SyncLoop, SecretTick, OtherTick, StartPass, ListIngresses, SyncNext, EndPass, At, Busy
<1>2. spent'["secret"] = spent["secret"]
  <2>1. CASE Spend("trouble")
    BY <1>0, <2>1 DEF Spend, RestOK, Kinds
  <2> QED
    BY <2>1 DEF SyncLoop, SecretTick, OtherTick, ListIngresses, SyncNext, EndPass
<1>3. CASE SyncNext
  <2>1. PICK t \in todo : Goto(Sync, Begin(t[1], Absent, t[2]))
    BY <1>3 DEF SyncNext
  <2>2. t[1] \in Ingresses /\ t[2] \in Ingress
    BY <1>0 DEF RestOK
  <2>3. run'[Worker] = run[Worker] /\ run'[Sync] = Begin(t[1], Absent, t[2])
    BY <1>0, <2>1, GotoElsewhere
  <2> QED
    BY <1>1, <1>2, <2>2, <2>3
<1>4. CASE ~SyncNext
  <2>1. PICK r : Goto(Sync, r) /\ Over(r)
    BY <1>0, <1>4, OverFields DEF SyncLoop, SecretTick, OtherTick, StartPass, ListIngresses, EndPass
  <2> QED
    BY <1>0, <1>1, <1>2, <2>1, GotoElsewhere
<1> QED
    BY <1>3, <1>4

\* An event that takes away what an ingress had waits for the worker.
Leaves(i, b) == \E n \in DOMAIN queue : queue[n].key = i /\ queue[n].old = b

\* What an edit does to the object and to the queue.
LEMMA EditFields ==
    ASSUME Typed, NEW i \in Ingresses, Edit(i)
    PROVE  /\ UNCHANGED <<secret, run, tracker, todo, certs, listener, mishap>>
           /\ spent'["secret"] = spent["secret"]
           /\ \A j \in Ingresses : j # i => store'[j] = store[j]
           /\ \A j, b : Leaves(j, b) => Leaves(j, b)'
           /\ \A b : b = store[i] => Leaves(i, b)'
           /\ \E l \in DOMAIN queue' :
                /\ DOMAIN queue' = DOMAIN queue \cup {l} /\ queue'[l].key = i
                /\ queue'[l].old = store[i] /\ queue'[l].new = store'[i] /\ store'[i] # store[i]
                /\ \A n \in DOMAIN queue : queue'[n] = queue[n] /\ n < l
           /\ \A n \in DOMAIN queue : queue[n].key \in Ingresses
<1>0. RestOK /\ queue \in Seq(Events)
    BY DEF Typed, RestOK
<1>1. PICK new \in Ingress :
         /\ new # store[i] /\ store' = [store EXCEPT ![i] = new]
         /\ queue' = Append(queue, Event(i, store[i], new))
    BY DEF Edit
<1> DEFINE e == Event(i, store[i], new)
<1>2. e \in Events /\ e.key = i /\ e.old = store[i] /\ e.new = new
    BY <1>0, <1>1 DEF Event, Events, RestOK
<1>3. queue' = Append(queue, e)
    BY <1>1
<1> HIDE DEF e
<1> DEFINE l == Len(queue) + 1
<1>4. /\ DOMAIN queue' = DOMAIN queue \cup {l} /\ queue'[l] = e
      /\ \A n \in DOMAIN queue : queue'[n] = queue[n] /\ n < l
    BY <1>0, <1>2, <1>3, LenProperties, AppendProperties
<1> HIDE DEF l
<1>5. store'[i] = new /\ \A j \in Ingresses : j # i => store'[j] = store[j]
    BY <1>0, <1>1 DEF RestOK
<1>6. UNCHANGED <<secret, run, tracker, todo, certs, listener, mishap>>
    BY DEF Edit
<1>7. spent'["secret"] = spent["secret"]
    BY <1>0 DEF Edit, Spend, RestOK, Kinds
<1>8. \A n \in DOMAIN queue : queue[n].key \in Ingresses
  <2>1. \A n \in DOMAIN queue : queue[n] \in Events
    BY <1>0
  <2> QED
    BY <2>1 DEF Events
<1> QED
    BY <1>1, <1>2, <1>4, <1>5, <1>6, <1>7, <1>8 DEF Leaves

\* The event that is taken, and those that stay.
LEMMA TakeFields ==
    ASSUME Typed, Take
    PROVE  /\ queue[1] \in Events /\ 1 \in DOMAIN queue
           /\ run'[Worker] = Begin(queue[1].key, queue[1].old, queue[1].new)
           /\ run'[Sync] = run[Sync] /\ ~Busy(run[Worker])
           /\ UNCHANGED <<store, secret, tracker, todo, certs, listener, mishap, spent>>
           /\ \A n \in DOMAIN queue' : /\ n + 1 \in DOMAIN queue /\ n \in Nat
                                       /\ queue'[n] = queue[n + 1]
           /\ \A n \in DOMAIN queue : n # 1 =>
                /\ n - 1 \in DOMAIN queue' /\ queue'[n - 1] = queue[n] /\ n \in Nat /\ n > 1
<1>0. RunsOK /\ Worker \in Processes /\ Sync \in Processes /\ Worker # Sync
    BY DEF Typed, Processes, Worker, Sync
<1>1. queue \in Seq(Events) /\ queue # <<>> /\ queue' = Tail(queue)
    BY DEF Typed, RestOK, Take
<1> DEFINE q == Tail(queue)
           e == Head(queue)
<1>2. e \in Events /\ q \in Seq(Events) /\ Len(q) = Len(queue) - 1 /\ Len(queue) \in Nat
    BY <1>1, HeadTailProperties, LenProperties
<1>3. e = queue[1] /\ 1 \in DOMAIN queue /\ \A n \in DOMAIN q : q[n] = queue[n + 1]
    BY <1>1, EmptySeq, LenProperties
<1>4. /\ \A n \in DOMAIN q : n + 1 \in DOMAIN queue /\ n \in Nat
      /\ \A n \in DOMAIN queue : n # 1 => n - 1 \in DOMAIN q /\ q[n - 1] = queue[n] /\ n \in Nat /\ n > 1
    BY <1>1, <1>2, <1>3
<1>5. /\ Goto(Worker, Begin(e.key, e.old, e.new)) /\ ~Busy(run[Worker])
      /\ UNCHANGED <<store, secret, tracker, todo, certs, listener, mishap, spent>>
    BY DEF Take, At, Busy
<1> HIDE DEF q, e
<1>6. run'[Worker] = Begin(e.key, e.old, e.new) /\ run'[Sync] = run[Sync]
    BY <1>0, <1>5, GotoElsewhere
<1> QED
    BY <1>1, <1>2, <1>3, <1>4, <1>5, <1>6 DEF q

\* A restart.
LEMMA CrashFields ==
    ASSUME Typed, Crash
    PROVE  /\ \A p \in Processes : run'[p] = Idle /\ Over(run'[p])
           /\ store \in [Ingresses -> Ingress] /\ queue' \in Listed(store)
           /\ tracker' = Nothing /\ UNCHANGED <<store, secret, certs, listener>>
           /\ spent'["secret"] = spent["secret"]
           /\ mishap' = (mishap \cap {"left"}) \cup (IF Rest THEN {} ELSE {"left"})
<1>1. spent'["secret"] = spent["secret"]
    BY DEF Crash, Spend, Typed, RestOK, Kinds
<1>2. \A p \in Processes : run'[p] = Idle /\ Over(run'[p])
    BY OverFields DEF Crash
<1> QED
    BY <1>1, <1>2 DEF Crash, Typed, RestOK

\* The steps, by what they are about.
LEMMA Steps ==
    ASSUME [Next]_vars
    PROVE  \/ \E i \in Ingresses : Edit(i)
           \/ \E s \in Secrets : ChangeSecret(s)
           \/ Take \/ Crash
           \/ SyncLoop \/ OtherTick
           \/ \E p \in Processes : AnyCall(p)
           \/ UNCHANGED vars
BY DEF Next, AnyCall

-----------------------------------------------------------------------------
(* The objects of a run, and its certificates.                             *)

\* Each event is a change, from where the one before it left the ingress.
Chained ==
    \A n \in DOMAIN queue :
        \/ store[queue[n].key] = queue[n].new
        \/ \E m \in DOMAIN queue :
             n < m /\ queue[m].key = queue[n].key /\ queue[m].old = queue[n].new

\* What the worker ensures is what is stored, or an event takes it away.
RunChained ==
    LET r == run[Worker]
    IN  Busy(r) => store[r.key] = r.new \/ Leaves(r.key, r.new)

\* The certificates of a run are named after the secrets as it has read them.
Known(r) ==
    /\ \A s \in Secrets : r.uuid[s] # None => r.uuid[s].secret = s /\ r.uuid[s].version = r.versions[s]
    /\ r.call \in {"inspect", "track", "certs"} => r.uuid = Nothing

RunsKnown == \A p \in Processes : Known(run[p])

Objects == Chained /\ RunChained /\ RunsKnown

\* Every ingress of the informer's list is as it is stored.
LEMMA ListedStored ==
    ASSUME NEW stored \in [Ingresses -> Ingress], NEW q \in Listed(stored), NEW n \in DOMAIN q
    PROVE  q[n].key \in Ingresses /\ stored[q[n].key] = q[n].new
<1>1. q \in Seq(Events)
    BY ListedQueues
<1>2. q[n] \in Events /\ n \in 1 .. Len(q)
    BY <1>1
<1>3. q[n].key \in Ingresses
    BY <1>2 DEF Events
<1> QED
    BY <1>2, <1>3, ListedAll

LEMMA ChainedStep ==
    ASSUME Typed, Chained, [Next]_vars
    PROVE  Chained'
<1>1. ASSUME NEW i \in Ingresses, Edit(i)
      PROVE  Chained'
  <2>1. PICK l \in DOMAIN queue' :
                /\ DOMAIN queue' = DOMAIN queue \cup {l} /\ queue'[l].key = i
                /\ queue'[l].old = store[i] /\ queue'[l].new = store'[i] /\ store'[i] # store[i]
                /\ \A n \in DOMAIN queue : queue'[n] = queue[n] /\ n < l
    BY <1>1, EditFields
  <2>2. /\ \A j \in Ingresses : j # i => store'[j] = store[j]
        /\ \A n \in DOMAIN queue : queue[n].key \in Ingresses
    BY <1>1, EditFields
  <2> SUFFICES ASSUME NEW n \in DOMAIN queue'
               PROVE  \/ store'[queue'[n].key] = queue'[n].new
                      \/ \E m \in DOMAIN queue' :
                           n < m /\ queue'[m].key = queue'[n].key /\ queue'[m].old = queue'[n].new
    BY DEF Chained
  <2>3. CASE n = l
    BY <2>1, <2>3
  <2>4. CASE n # l
    <3>1. n \in DOMAIN queue /\ queue'[n] = queue[n] /\ n < l
      BY <2>1, <2>4
    <3>2. CASE store[queue[n].key] = queue[n].new
      BY <2>1, <2>2, <3>1, <3>2
    <3>3. CASE \E m \in DOMAIN queue :
                 n < m /\ queue[m].key = queue[n].key /\ queue[m].old = queue[n].new
      BY <2>1, <3>1, <3>3
    <3> QED
      BY <3>1, <3>2, <3>3 DEF Chained
  <2> QED
    BY <2>3, <2>4
<1>2. CASE Take
  <2>1. /\ store' = store
        /\ \A n \in DOMAIN queue' : n + 1 \in DOMAIN queue /\ n \in Nat /\ queue'[n] = queue[n + 1]
        /\ \A n \in DOMAIN queue : n # 1 =>
             n - 1 \in DOMAIN queue' /\ queue'[n - 1] = queue[n] /\ n \in Nat /\ n > 1
    BY <1>2, TakeFields
  <2> SUFFICES ASSUME NEW n \in DOMAIN queue'
               PROVE  \/ store'[queue'[n].key] = queue'[n].new
                      \/ \E m \in DOMAIN queue' :
                           n < m /\ queue'[m].key = queue'[n].key /\ queue'[m].old = queue'[n].new
    BY DEF Chained
  <2>2. n \in Nat /\ n + 1 \in DOMAIN queue /\ queue'[n] = queue[n + 1]
    BY <2>1
  <2>3. CASE \E m \in DOMAIN queue : n + 1 < m /\ queue[m].key = queue[n + 1].key
                                      /\ queue[m].old = queue[n + 1].new
    <3>1. PICK m \in DOMAIN queue : n + 1 < m /\ queue[m].key = queue[n + 1].key
                                      /\ queue[m].old = queue[n + 1].new
      BY <2>3
    <3>2. m # 1
      BY <2>2, <3>1
    <3>3. m \in Nat /\ m - 1 \in DOMAIN queue' /\ queue'[m - 1] = queue[m]
      BY <2>1, <3>2
    <3>4. n < m - 1
      BY <2>2, <3>1, <3>3
    <3> QED
      BY <2>2, <3>1, <3>3, <3>4
  <2> QED
    BY <2>1, <2>2, <2>3 DEF Chained
<1>3. CASE Crash
  <2>1. queue' \in Listed(store) /\ store' = store /\ store \in [Ingresses -> Ingress]
    BY <1>3, CrashFields
  <2> QED
    BY <2>1, ListedStored DEF Chained
<1>4. ASSUME UNCHANGED <<store, queue>>
      PROVE  Chained'
    BY <1>4 DEF Chained
<1>5. ASSUME NEW p \in Processes, AnyCall(p)
      PROVE  Chained'
    BY <1>4, <1>5, CallFrame
<1>6. CASE SyncLoop \/ OtherTick
    BY <1>4, <1>6, SyncFields
<1>7. CASE UNCHANGED vars \/ \E s \in Secrets : ChangeSecret(s)
    BY <1>4, <1>7 DEF vars, ChangeSecret
<1> QED
    BY <1>1, <1>2, <1>3, <1>5, <1>6, <1>7, Steps

LEMMA RunChainedStep ==
    ASSUME Typed, Chained, RunChained, [Next]_vars
    PROVE  RunChained'
<1>0. RunsOK /\ Worker \in Processes /\ Sync \in Processes /\ Worker # Sync
    BY DEF Typed, Processes, Worker, Sync
<1>1. ASSUME NEW i \in Ingresses, Edit(i)
      PROVE  RunChained'
  <2>1. /\ run' = run /\ \A b : b = store[i] => Leaves(i, b)'
        /\ \A j \in Ingresses : j # i => store'[j] = store[j]
        /\ \A j, b : Leaves(j, b) => Leaves(j, b)'
    BY <1>1, EditFields
  <2> DEFINE r == run[Worker]
  <2>2. Busy(r) => r.key \in Ingresses
    BY <1>0 DEF RunsOK, RunOK
  <2>3. Busy(r) => store[r.key] = r.new \/ Leaves(r.key, r.new)
    BY DEF RunChained
  <2>4. PICK k, b : k = r.key /\ b = r.new
    OBVIOUS
  <2>5. Busy(r) => store'[k] = b \/ Leaves(k, b)'
    BY <2>1, <2>2, <2>3, <2>4
  <2> QED
    BY <2>1, <2>4, <2>5 DEF RunChained, Leaves
<1>2. CASE Take
  <2> DEFINE e == queue[1]
             r == Begin(e.key, e.old, e.new)
  <2>1. e \in Events /\ 1 \in DOMAIN queue /\ run'[Worker] = r /\ store' = store
    BY <1>2, TakeFields
  <2>2. r.key = e.key /\ r.new = e.new
    BY <2>1, BeginFields DEF Events
  <2> HIDE DEF r
  <2>3. CASE \E m \in DOMAIN queue : 1 < m /\ queue[m].key = e.key /\ queue[m].old = e.new
    <3>1. PICK m \in DOMAIN queue : 1 < m /\ queue[m].key = e.key /\ queue[m].old = e.new
      BY <2>3
    <3>2. m - 1 \in DOMAIN queue' /\ queue'[m - 1] = queue[m]
      BY <1>2, <3>1, TakeFields
    <3> QED
      BY <2>1, <2>2, <3>1, <3>2 DEF RunChained, Leaves
  <2>4. CASE store[e.key] = e.new
    BY <2>1, <2>2, <2>4 DEF RunChained
  <2> QED
    BY <2>1, <2>3, <2>4 DEF Chained
<1>3. CASE Crash
    BY <1>0, <1>3, CrashFields DEF Over, RunChained
<1>4. CASE SyncLoop \/ OtherTick
    BY <1>4, SyncFields DEF RunChained, Leaves
<1>5. ASSUME NEW p \in Processes, AnyCall(p)
      PROVE  RunChained'
  <2>1. CASE p # Worker
    BY <1>0, <1>5, <2>1, CallFrame DEF RunChained, Leaves
  <2>2. CASE p = Worker
    BY <1>5, <2>2, CallFrame DEF RunChained, Leaves, Over
  <2> QED
    BY <2>1, <2>2
<1>6. CASE UNCHANGED vars \/ \E s \in Secrets : ChangeSecret(s)
    BY <1>6 DEF vars, ChangeSecret, RunChained, Leaves
<1> QED
    BY <1>1, <1>2, <1>3, <1>4, <1>5, <1>6, Steps

\* Nothing is known of a run that begins or is over.
LEMMA KnownAnew ==
    ASSUME NEW r, r.uuid = Nothing
    PROVE  Known(r)
BY DEF Known, Nothing

LEMMA CallKnown ==
    ASSUME Typed, NEW p \in Processes, AnyCall(p), Known(run[p])
    PROVE  Known(run'[p])
<1>1. CASE Inspect(p)
    BY <1>1, InspectFields, KnownAnew DEF Known
<1>2. CASE Track(p)
    BY <1>2, TrackFields, KnownAnew DEF Known
<1>3. CASE ListCertificate(p)
  <2>1. PICK uuid :
              LET r == run[p]
                  q == run'[p]
              IN  /\ r.call = "certs" /\ Same(r, q)
                  /\ HasTLS(r.new) => q.call \in {"import", "find"} /\ q.uuid = uuid
                  /\ ~HasTLS(r.new) => q.call = AfterListener(r) /\ q.uuid = Nothing
                  /\ \A s \in Secrets : uuid[s] # None =>
                       uuid[s] \in certs /\ uuid[s].secret = s /\ uuid[s].version = r.versions[s]
    BY <1>3, ListFields
  <2>2. CASE HasTLS(run[p].new)
    BY <2>1, <2>2 DEF Known, Same
  <2> QED
    BY <2>1, <2>2, KnownAnew
<1>4. CASE ImportCertificate(p)
    BY <1>4, ImportFields DEF Known, Same
<1>5. CASE FindListener(p) \/ CreateListener(p) \/ UpdateListener(p)
  <2>1. CASE Pruning(run[p], run'[p])
    BY <2>1, KnownAnew DEF Pruning
  <2>2. CASE ~Pruning(run[p], run'[p])
    BY <1>5, <2>2, FindFields, CreateFields, UpdateFields DEF Known, Same
  <2> QED
    BY <2>1, <2>2
<1>6. CASE ListRedundant(p)
  <2>1. \/ /\ Same(run[p], run'[p]) /\ run'[p].uuid = run[p].uuid
           /\ run'[p].call \in {"deleteOld", "deleteNew", "pruneNew"}
        \/ Over(run'[p])
    BY <1>6, RedundantFields
  <2> QED
    BY <2>1, KnownAnew DEF Known, Same, Over
<1>7. CASE DeleteCertificate(p) \/ DeleteFails(p)
  <2>1. \/ /\ Same(run[p], run'[p]) /\ run'[p].uuid = run[p].uuid
           /\ run'[p].call \in {"deleteOld", "deleteNew", "pruneNew"}
        \/ Over(run'[p])
    BY <1>7, DeleteFields
  <2> QED
    BY <2>1, KnownAnew DEF Known, Same, Over
<1>8. CASE SecretMissing(p) \/ Refused(p) \/ CallFails(p)
    BY <1>8, FailFields, KnownAnew DEF Over
<1>9. CASE ListFails(p)
  <2>1. \/ run[p].call = "certs" /\ Importing(run[p], run'[p])
        \/ Over(run'[p])
        \/ Same(run[p], run'[p]) /\ run'[p].call = "pruneNew" /\ run'[p].uuid = run[p].uuid
    BY <1>9, ListFailsFields
  <2> QED
    BY <2>1, KnownAnew DEF Known, Same, Over, Importing
<1> QED
    BY <1>1, <1>2, <1>3, <1>4, <1>5, <1>6, <1>7, <1>8, <1>9 DEF AnyCall, Call

LEMMA ObjectsStep ==
    ASSUME Typed, Objects, [Next]_vars
    PROVE  Objects'
<1>0. Processes = {Worker, Sync} /\ Worker # Sync
    BY DEF Processes, Worker, Sync
<1>1. RunsKnown'
  <2>1. CASE Take
    <3>1. queue[1] \in Events /\ run'[Sync] = run[Sync]
          /\ run'[Worker] = Begin(queue[1].key, queue[1].old, queue[1].new)
      BY <2>1, TakeFields
    <3>2. run'[Worker].uuid = Nothing
      BY <3>1, BeginFields DEF Events
    <3> QED
      BY <1>0, <3>1, <3>2, KnownAnew DEF Objects, RunsKnown
  <2>2. CASE Crash
    BY <2>2, CrashFields, KnownAnew DEF Over, RunsKnown
  <2>3. CASE SyncLoop \/ OtherTick
    <3>1. run'[Worker] = run[Worker] /\ run'[Sync].uuid = Nothing
      <4>1. CASE Over(run'[Sync])
        BY <2>3, <4>1, SyncFields DEF Over
      <4>2. CASE ~Over(run'[Sync])
        <5>1. PICK i \in Ingresses, b \in Ingress : run'[Sync] = Begin(i, Absent, b)
          BY <2>3, <4>2, SyncFields
        <5>2. Begin(i, Absent, b).uuid = Nothing
          BY BeginFields DEF Ingress
        <5> QED
          BY <2>3, <5>1, <5>2, SyncFields
      <4> QED
        BY <4>1, <4>2
    <3> QED
      BY <1>0, <3>1, KnownAnew DEF Objects, RunsKnown
  <2>4. ASSUME NEW p \in Processes, AnyCall(p)
        PROVE  RunsKnown'
    BY <2>4, CallFrame, CallKnown DEF Objects, RunsKnown
  <2>5. ASSUME UNCHANGED run
        PROVE  RunsKnown'
    BY <2>5 DEF Objects, RunsKnown
  <2>6. CASE UNCHANGED vars \/ \E s \in Secrets : ChangeSecret(s)
    BY <2>5, <2>6 DEF vars, ChangeSecret
  <2>7. ASSUME NEW i \in Ingresses, Edit(i)
        PROVE  RunsKnown'
    BY <2>5, <2>7, EditFields
  <2> QED
    BY <2>1, <2>2, <2>3, <2>4, <2>6, <2>7, Steps
<1> QED
    BY <1>1, ChainedStep, RunChainedStep DEF Objects

LEMMA ObjectsInit ==
    ASSUME Init
    PROVE  Objects
<1>1. store \in [Ingresses -> Ingress] /\ queue \in Listed(store)
    BY StoresAssumption DEF Init
<1>2. \A p \in Processes : Over(run[p])
    BY OverFields DEF Init
<1>3. Chained
    BY <1>1, ListedStored DEF Chained
<1>4. RunChained
    BY <1>2 DEF RunChained, Over, Processes
<1> QED
    BY <1>2, <1>3, <1>4, KnownAnew DEF Objects, RunsKnown, Over

-----------------------------------------------------------------------------
(* Where a call leads.                                                     *)

Before == {"inspect", "track"}
Past   == {"certs", "import", "find", "create", "update"}
Ahead  == Before \cup Past

\* The listener's default is the certificate that a run is about.
Held(r) ==
    /\ HasTLS(r.new) /\ listener # None
    /\ listener.default.secret = Head(r.new)
    /\ listener.default.version = r.versions[Head(r.new)]

\* The listener stays, or it is given the certificate that a run is about.
Listens(p) ==
    \/ UNCHANGED listener
    \/ /\ Held(run[p])' /\ Same(run[p], run'[p]) /\ run[p].call \in Past
       /\ listener'.default = Default(run[p])
       /\ Outdated(p) => {"stale", "left"} \subseteq mishap'

Falls(p) ==
    /\ Over(run'[p]) /\ {"lost", "left"} \subseteq mishap'
    /\ UNCHANGED <<tracker, certs, listener>>

\* On the way to the listener, and there.
Onward(p) ==
    /\ run[p].call \in Past /\ run'[p].call \in Past
    /\ Same(run[p], run'[p]) /\ HasTLS(run[p].new) /\ UNCHANGED tracker

Arrives(p) ==
    /\ run[p].call \in Past /\ run'[p].call = AfterListener(run[p])
    /\ Same(run[p], run'[p]) /\ UNCHANGED <<tracker, certs>>
    /\ HasTLS(run[p].new) => Held(run[p])'

\* Behind it.
Cleans(p) ==
    /\ run[p].call \notin Ahead /\ run'[p].call \notin Ahead
    /\ UNCHANGED <<tracker, listener>>

\* The certificate to attach is the one of the first secret, as it was read.
LEMMA AttachOK ==
    ASSUME Typed, RunsKnown, NEW p \in Processes, run[p].call \in {"find", "create", "update"}
    PROVE  LET r == run[p]
           IN  /\ Default(r).secret = Head(r.new) /\ Default(r).version = r.versions[Head(r.new)]
               /\ Head(r.new) \in Used(r.new) /\ Head(r.new) \in Secrets
               /\ Default(r) = r.uuid[Head(r.new)] /\ Default(r) # None
<1>1. run[p] \in Run /\ RunOK(run[p])
    BY DEF Typed, RunsOK
<1>2. /\ Head(run[p].new) \in Used(run[p].new) /\ Head(run[p].new) \in Secrets
      /\ Default(run[p]) = run[p].uuid[Head(run[p].new)]
    BY <1>1, DefaultOK
<1>3. Missing(run[p]) = {}
    BY <1>1 DEF RunOK
<1> QED
    BY <1>2, <1>3 DEF Missing, RunsKnown, Known

LEMMA Ways ==
    ASSUME Typed, RunsKnown, NEW p \in Processes, AnyCall(p)
    PROVE  /\ Listens(p)
           /\ Falls(p) \/ Inspect(p) \/ Track(p) \/ Onward(p) \/ Arrives(p) \/ Cleans(p)
<1>1. CASE Inspect(p) \/ Track(p)
    BY <1>1 DEF Inspect, Track, Listens
<1>2. CASE ListCertificate(p)
  <2>1. UNCHANGED <<tracker, certs, listener>>
    BY <1>2 DEF ListCertificate
  <2>2. /\ run[p].call = "certs" /\ Same(run[p], run'[p])
        /\ HasTLS(run[p].new) => run'[p].call \in {"import", "find"}
        /\ ~HasTLS(run[p].new) => run'[p].call = AfterListener(run[p])
    BY <1>2, ListFields
  <2> QED
    BY <2>1, <2>2 DEF Listens, Onward, Arrives, Past
<1>3. CASE ImportCertificate(p)
  <2>1. UNCHANGED <<tracker, listener>>
    BY <1>3 DEF ImportCertificate
  <2>2. /\ run[p].call = "import" /\ Same(run[p], run'[p]) /\ HasTLS(run[p].new)
        /\ run'[p].call \in {"import", "find"}
    BY <1>3, ImportFields
  <2> QED
    BY <2>1, <2>2 DEF Listens, Onward, Past
<1>4. CASE FindListener(p)
  <2>1. UNCHANGED <<tracker, certs, listener>>
    BY <1>4 DEF FindListener
  <2>2. /\ run[p].call = "find" /\ HasTLS(run[p].new)
        /\ \/ Same(run[p], run'[p]) /\ run'[p].call \in {"create", "update"}
           \/ /\ Pruning(run[p], run'[p]) /\ listener # None
              /\ listener.default = Default(run[p])
    BY <1>4, FindFields
  <2> QED
    BY <2>1, <2>2, AttachOK DEF Listens, Onward, Arrives, Past, Pruning, Same, Held
<1>5. CASE CreateListener(p)
  <2>1. UNCHANGED <<tracker, certs>>
    BY <1>5 DEF CreateListener
  <2> QED
    BY <1>5, <2>1, CreateFields, AttachOK DEF Listens, Onward, Past, Same, Held, Mark
<1>6. CASE UpdateListener(p)
  <2>1. UNCHANGED <<tracker, certs>>
    BY <1>6 DEF UpdateListener
  <2> QED
    BY <1>6, <2>1, UpdateFields, AttachOK DEF Listens, Arrives, Past, Pruning, Same, Held, Mark
<1>7. CASE ListRedundant(p)
  <2>1. UNCHANGED <<tracker, listener>> /\ run[p].call \in {"pruneOld", "pruneNew"}
    BY <1>7 DEF ListRedundant, At
  <2>2. run'[p].call \in {"deleteOld", "deleteNew", "pruneNew"} \/ Over(run'[p])
    BY <1>7, RedundantFields
  <2> QED
    BY <2>1, <2>2 DEF Listens, Cleans, Ahead, Before, Past, Over, Busy
<1>8. CASE DeleteCertificate(p) \/ DeleteFails(p)
  <2>1. UNCHANGED <<tracker, listener>>
    BY <1>8 DEF DeleteCertificate, DeleteFails
  <2>2. /\ run[p].call \in {"deleteOld", "deleteNew"}
        /\ run'[p].call \in {"deleteOld", "deleteNew", "pruneNew"} \/ Over(run'[p])
    BY <1>8, DeleteFields
  <2> QED
    BY <2>1, <2>2 DEF Listens, Cleans, Ahead, Before, Past, Over, Busy
<1>9. CASE SecretMissing(p) \/ Refused(p) \/ CallFails(p)
    BY <1>9, FailFields DEF Falls, Listens
<1>10. CASE ListFails(p)
  <2>1. UNCHANGED <<tracker, certs, listener>>
    BY <1>10, ListFailsFields
  <2>2. CASE run[p].call = "certs" /\ Importing(run[p], run'[p])
    BY <2>1, <2>2 DEF Importing, Listens, Onward, Arrives, Past
  <2>3. CASE /\ run[p].call \in {"pruneOld", "pruneNew"}
             /\ Over(run'[p]) \/ run'[p].call = "pruneNew"
    BY <2>1, <2>3 DEF Listens, Cleans, Ahead, Before, Past, Over, Busy
  <2> QED
    BY <1>10, <2>2, <2>3, ListFailsFields
<1> QED
    BY <1>1, <1>2, <1>3, <1>4, <1>5, <1>6, <1>7, <1>8, <1>9, <1>10 DEF AnyCall, Call

-----------------------------------------------------------------------------
(* The versions that have been read.                                       *)

\* The secret was written so far: what is there now is not older.
Upto(s, v) == v \in Nat /\ v <= spent["secret"] /\ (secret[s] # None => v <= secret[s])

\* A certificate contains what its secret was at its version, or later.
Fits(c) == c.version \in Nat /\ c.version <= c.content /\ Upto(c.secret, c.content)

RunBounded(r) ==
    \A s \in Secrets : /\ r.versions[s] # None => Upto(s, r.versions[s])
                       /\ r.uuid[s] # None => Fits(r.uuid[s])

Bounded ==
    /\ \A s \in Secrets : secret[s] # None => Upto(s, secret[s])
    /\ \A p \in Processes : RunBounded(run[p])
    /\ \A c \in certs : Fits(c)
    /\ listener # None => Fits(listener.default)

\* Versions only grow.
LEMMA SecretsGrow ==
    ASSUME Typed, [Next]_vars
    PROVE  /\ spent'["secret"] \in Nat /\ spent["secret"] \in Nat
           /\ spent'["secret"] >= spent["secret"]
           /\ \A s \in Secrets : \/ secret'[s] = secret[s]
                                 \/ secret'[s] \in {None, spent'["secret"]}
<1>0. RestOK /\ RestOK'
    BY NextTypes DEF Typed
<1>1. spent'["secret"] \in Nat /\ spent["secret"] \in Nat
    BY <1>0 DEF RestOK, Kinds
<1>2. ASSUME NEW s \in Secrets, ChangeSecret(s)
      PROVE  /\ spent'["secret"] = spent["secret"] + 1
             /\ \A t \in Secrets : secret'[t] = secret[t] \/ secret'[t] \in {None, spent["secret"] + 1}
    BY <1>0, <1>2 DEF ChangeSecret, Spend, RestOK, Kinds, Versions
<1>3. CASE spent'["secret"] = spent["secret"] /\ UNCHANGED secret
    BY <1>1, <1>3
<1>4. CASE UNCHANGED vars
    BY <1>3, <1>4 DEF vars
<1> QED
    BY <1>1, <1>2, <1>3, <1>4, Steps, EditFields, TakeFields, CrashFields, SyncFields, CallFrame

LEMMA UptoKept ==
    ASSUME Typed, [Next]_vars, NEW s \in Secrets, NEW v, Upto(s, v)
    PROVE  Upto(s, v)'
<1>1. v \in Nat /\ v <= spent["secret"] /\ (secret[s] # None => v <= secret[s])
    BY DEF Upto
<1>2. v <= spent'["secret"]
    BY <1>1, SecretsGrow
<1>3. secret'[s] # None => v <= secret'[s]
    BY <1>1, <1>2, SecretsGrow
<1> QED
    BY <1>1, <1>2, <1>3 DEF Upto

LEMMA FitsKept ==
    ASSUME Typed, [Next]_vars, NEW c, c.secret \in Secrets, Fits(c)
    PROVE  Fits(c)'
<1>1. PICK s, v : s = c.secret /\ v = c.content
    OBVIOUS
<1>2. Upto(s, v)'
    BY <1>1, UptoKept DEF Fits
<1> QED
    BY <1>1, <1>2 DEF Fits, Upto

LEMMA RunBoundedKept ==
    ASSUME Typed, [Next]_vars, NEW r, r.uuid \in [Secrets -> Cert \cup {None}], RunBounded(r)
    PROVE  RunBounded(r)'
<1> SUFFICES ASSUME NEW s \in Secrets
             PROVE  /\ r.versions[s] # None => Upto(s, r.versions[s])'
                    /\ r.uuid[s] # None => Fits(r.uuid[s])'
    BY DEF RunBounded
<1>1. PICK v, c : v = r.versions[s] /\ c = r.uuid[s]
    OBVIOUS
<1>2. v # None => Upto(s, v)'
    BY <1>1, UptoKept DEF RunBounded
<1>3. c # None => c.secret \in Secrets
    BY <1>1 DEF Cert
<1>4. c # None => Fits(c)'
    BY <1>1, <1>3, FitsKept DEF RunBounded
<1> QED
    BY <1>1, <1>2, <1>4 DEF Upto, Fits

\* A run without certificates, with its versions or without.
LEMMA BoundedAnew ==
    ASSUME NEW r, r.versions = Nothing, r.uuid = Nothing
    PROVE  RunBounded(r)
BY DEF RunBounded, Nothing

\* The run that goes on without another certificate.
LEMMA BoundedOn ==
    ASSUME NEW r, NEW q, RunBounded(r), q.versions = r.versions, q.uuid \in {r.uuid, Nothing}
    PROVE  RunBounded(q)
BY DEF RunBounded, Nothing

LEMMA OverBounded ==
    ASSUME NEW q, Over(q)
    PROVE  RunBounded(q)
BY BoundedAnew DEF Over

\* The certificate that is imported contains the secret as it is now, which
\* may be newer than the version in its name.
LEMMA ImportBounded ==
    ASSUME Typed, Bounded, NEW p \in Processes, ImportCertificate(p)
    PROVE  RunBounded(run'[p]) /\ \A c \in certs' : Fits(c)
<1>1. PICK s \in Secrets, c \in Cert :
         LET r == run[p]
             q == run'[p]
         IN  /\ Same(r, q) /\ certs' = certs \cup {c}
             /\ c.secret = s /\ c.version = r.versions[s] /\ c.content = secret[s]
             /\ r.versions[s] \in Nat /\ secret[s] \in Nat
             /\ \A t \in Secrets : q.uuid[t] = IF t = s THEN c ELSE r.uuid[t]
    BY ImportFields
<1>2. /\ RunBounded(run[p]) /\ \A d \in certs : Fits(d)
      /\ Upto(s, secret[s]) /\ secret[s] # None /\ run[p].versions[s] # None
    BY <1>1, NoneAssumption DEF Bounded
<1>3. Upto(s, run[p].versions[s])
    BY <1>2 DEF RunBounded
<1>4. Fits(c)
    BY <1>1, <1>2, <1>3 DEF Fits, Upto
<1> QED
    BY <1>1, <1>2, <1>4 DEF RunBounded, Same

LEMMA CallBounded ==
    ASSUME Typed, RunsKnown, Bounded, NEW p \in Processes, AnyCall(p)
    PROVE  RunBounded(run'[p])
<1>0. RunBounded(run[p]) /\ Known(run[p])
    BY DEF Bounded, RunsKnown
<1>1. CASE Inspect(p)
  <2>1. run'[p].uuid = Nothing
    BY <1>0, <1>1, InspectFields DEF Known
  <2>2. \A s \in Secrets : run'[p].versions[s] # None => Upto(s, run'[p].versions[s])
    BY <1>1, InspectFields DEF Bounded
  <2> QED
    BY <2>1, <2>2 DEF RunBounded, Nothing
<1>2. CASE Track(p)
    BY <1>0, <1>2, TrackFields, BoundedOn DEF Same
<1>3. CASE ListCertificate(p)
  <2>1. PICK uuid :
              LET r == run[p]
                  q == run'[p]
              IN  /\ Same(r, q) /\ q.uuid \in {uuid, Nothing}
                  /\ \A s \in Secrets : uuid[s] # None => uuid[s] \in certs
    BY <1>3, ListFields
  <2> QED
    BY <1>0, <2>1 DEF RunBounded, Bounded, Same, Nothing
<1>4. CASE ImportCertificate(p)
    BY <1>4, ImportBounded
<1>5. CASE FindListener(p) \/ CreateListener(p) \/ UpdateListener(p)
    BY <1>0, <1>5, FindFields, CreateFields, UpdateFields, BoundedOn DEF Pruning, Same
<1>6. CASE ListRedundant(p)
    BY <1>0, <1>6, RedundantFields, BoundedOn, OverBounded DEF Same
<1>7. CASE DeleteCertificate(p) \/ DeleteFails(p)
    BY <1>0, <1>7, DeleteFields, BoundedOn, OverBounded DEF Same
<1>8. CASE SecretMissing(p) \/ Refused(p) \/ CallFails(p)
    BY <1>8, FailFields, OverBounded
<1>9. CASE ListFails(p)
  <2>1. CASE Importing(run[p], run'[p])
    BY <1>0, <2>1, BoundedOn DEF Importing, Same
  <2> QED
    BY <1>0, <1>9, <2>1, ListFailsFields, BoundedOn, OverBounded DEF Same
<1> QED
    BY <1>1, <1>2, <1>3, <1>4, <1>5, <1>6, <1>7, <1>8, <1>9 DEF AnyCall, Call

\* Certificates come by imports only.
LEMMA CertsFrame ==
    ASSUME Typed, NEW p \in Processes, AnyCall(p)
    PROVE  certs' \subseteq certs \/ ImportCertificate(p)
<1>1. CASE DeleteCertificate(p) \/ DeleteFails(p)
    BY <1>1 DEF DeleteCertificate, DeleteFails
<1> QED
    BY <1>1 DEF AnyCall, Call, CallFails, ListFails, DeleteFails, Inspect, Track,
       ListCertificate, FindListener, CreateListener, UpdateListener,
       ListRedundant, SecretMissing, Refused, Fail

\* The listener gets one of them.
LEMMA ListenerBounded ==
    ASSUME Typed, RunsKnown, Bounded, NEW p \in Processes, AnyCall(p), listener' # None
    PROVE  Fits(listener'.default)
<1>1. CASE UNCHANGED listener
    BY <1>1 DEF Bounded
<1>2. CASE CreateListener(p) \/ UpdateListener(p)
  <2>1. listener'.default = Default(run[p]) /\ run[p].call \in {"create", "update"}
    BY <1>2, CreateFields, UpdateFields
  <2>2. Head(run[p].new) \in Secrets /\ Default(run[p]) = run[p].uuid[Head(run[p].new)]
        /\ Default(run[p]) # None
    BY <2>1, AttachOK
  <2> QED
    BY <2>1, <2>2 DEF Bounded, RunBounded
<1> QED
    BY <1>1, <1>2 DEF AnyCall, Call, CallFails, ListFails, DeleteFails, Inspect, Track,
       ListCertificate, ImportCertificate, FindListener, ListRedundant, DeleteCertificate,
       SecretMissing, Refused, Fail

LEMMA BoundedStep ==
    ASSUME Typed, RunsKnown, Bounded, [Next]_vars
    PROVE  Bounded'
<1>0. /\ Processes = {Worker, Sync} /\ Worker # Sync
      /\ Typed' /\ RestOK' /\ RunsOK'
    BY NextTypes DEF Typed, Processes, Worker, Sync
<1> DEFINE New == /\ \A p \in Processes : RunBounded(run'[p])
                  /\ \A c \in certs' : Fits(c)
                  /\ listener' # None => Fits(listener'.default)
<1>1. New
  <2>0. ASSUME UNCHANGED <<run, certs, listener>>
        PROVE  New
    BY <2>0 DEF Bounded
  <2>1. CASE Take
    <3>1. queue[1] \in Events /\ run'[Sync] = run[Sync] /\ UNCHANGED <<certs, listener>>
          /\ run'[Worker] = Begin(queue[1].key, queue[1].old, queue[1].new)
      BY <2>1, TakeFields
    <3>2. run'[Worker].uuid = Nothing /\ run'[Worker].versions = Nothing
      BY <3>1, BeginFields DEF Events
    <3> QED
      BY <1>0, <3>1, <3>2, BoundedAnew DEF Bounded
  <2>2. CASE Crash
    BY <2>2, CrashFields, OverBounded DEF Bounded
  <2>3. CASE SyncLoop \/ OtherTick
    <3>1. run'[Worker] = run[Worker] /\ RunBounded(run'[Sync])
      <4>1. CASE Over(run'[Sync])
        BY <2>3, <4>1, SyncFields, OverBounded
      <4>2. CASE ~Over(run'[Sync])
        <5>1. PICK i \in Ingresses, b \in Ingress : run'[Sync] = Begin(i, Absent, b)
          BY <2>3, <4>2, SyncFields
        <5>2. Begin(i, Absent, b).uuid = Nothing /\ Begin(i, Absent, b).versions = Nothing
          BY BeginFields DEF Ingress
        <5> QED
          BY <2>3, <5>1, <5>2, SyncFields, BoundedAnew
      <4> QED
        BY <4>1, <4>2
    <3> QED
      BY <1>0, <2>3, <3>1, SyncFields DEF Bounded
  <2>4. ASSUME NEW p \in Processes, AnyCall(p)
        PROVE  New
    <3>1. \A c \in certs' : Fits(c)
      BY <2>4, CertsFrame, ImportBounded DEF Bounded
    <3>2. \A q \in Processes : RunBounded(run'[q])
      BY <2>4, CallFrame, CallBounded DEF Bounded
    <3> QED
      BY <2>4, <3>1, <3>2, ListenerBounded
  <2>5. CASE UNCHANGED vars \/ \E s \in Secrets : ChangeSecret(s)
    BY <2>0, <2>5 DEF vars, ChangeSecret
  <2>6. ASSUME NEW i \in Ingresses, Edit(i)
        PROVE  New
    BY <2>0, <2>6, EditFields
  <2> QED
    BY <2>1, <2>2, <2>3, <2>4, <2>5, <2>6, Steps
<1>2. \A s \in Secrets : secret'[s] # None => Upto(s, secret[s])'
  <2> SUFFICES ASSUME NEW s \in Secrets, secret'[s] # None PROVE Upto(s, secret[s])'
    OBVIOUS
  <2>1. CASE secret'[s] = spent'["secret"]
    BY <2>1, SecretsGrow DEF Upto
  <2>2. CASE secret'[s] = secret[s]
    <3>1. PICK v : v = secret[s]
      OBVIOUS
    <3>2. Upto(s, v)'
      BY <2>2, <3>1, UptoKept DEF Bounded
    <3> QED
      BY <2>2, <3>1, <3>2 DEF Upto
  <2> QED
    BY <2>1, <2>2, SecretsGrow
<1>3. \A p \in Processes : RunBounded(run[p])'
  <2> SUFFICES ASSUME NEW p \in Processes PROVE RunBounded(run[p])'
    OBVIOUS
  <2>1. PICK q : q = run'[p]
    OBVIOUS
  <2>2. q.uuid \in [Secrets -> Cert \cup {None}] /\ RunBounded(q)
    BY <1>0, <1>1, <2>1 DEF RunsOK, Run
  <2>3. RunBounded(q)'
    BY <2>2, RunBoundedKept
  <2> QED
    BY <2>1, <2>3 DEF RunBounded, Upto, Fits
<1>4. \A c \in certs' : Fits(c)'
  <2> SUFFICES ASSUME NEW c \in certs' PROVE Fits(c)'
    OBVIOUS
  <2>1. c.secret \in Secrets
    BY <1>0 DEF RestOK, Cert
  <2> QED
    BY <1>1, <2>1, FitsKept
<1>5. listener' # None => Fits(listener.default)'
  <2> SUFFICES ASSUME listener' # None PROVE Fits(listener.default)'
    OBVIOUS
  <2>1. PICK c : c = listener'.default
    OBVIOUS
  <2>2. c.secret \in Secrets
    BY <1>0, <2>1 DEF RestOK, Listeners, Listener, Cert
  <2>3. Fits(c)'
    BY <1>1, <2>1, <2>2, FitsKept
  <2> QED
    BY <2>1, <2>3 DEF Fits, Upto
<1> QED
    BY <1>2, <1>3, <1>4, <1>5 DEF Bounded

LEMMA BoundedInit ==
    ASSUME Init
    PROVE  Bounded
<1>1. \A s \in Secrets : Upto(s, secret[s])
    BY DEF Init, Upto, Kinds
<1>2. \A p \in Processes : RunBounded(run[p])
    BY OverFields, OverBounded DEF Init
<1> QED
    BY <1>1, <1>2 DEF Bounded, Init

-----------------------------------------------------------------------------
(* The default certificate is one that an ingress wants.                   *)

HeadIs(spec, s) == HasTLS(spec) /\ Head(spec) = s

Wanted(s) == \E i \in Ingresses : HeadIs(store[i], s)

\* An event of an ingress that wanted it before waits, or the worker is about
\* to give the listener another one.
Given(s) == \E n \in DOMAIN queue : HeadIs(queue[n].old, s)

Replaces(r, s) ==
    /\ HeadIs(r.old, s)
    /\ r.call \in Before \/ (r.call \in Past /\ HasTLS(r.new))

Replaced(s) == Given(s) \/ Replaces(run[Worker], s)

\* The worker will ensure the listener.
Coming ==
    \/ \E n \in DOMAIN queue : HasTLS(queue[n].new)
    \/ run[Worker].call \in Ahead /\ HasTLS(run[Worker].new)

\* There is a listener unless the worker has not come to the first ingress
\* that needs it.
HasListener == "lost" \notin mishap /\ TLS # {} => listener # None \/ Coming

\* With an ingress to come, what a restart left behind does not matter.
DefaultWanted ==
    LET s == listener.default.secret
    IN  /\ listener # None /\ {"lost", "stale"} \cap mishap = {} /\ TLS # {} =>
              Wanted(s) \/ Replaced(s) \/ Coming
        /\ listener # None /\ "left" \notin mishap => Wanted(s) \/ Replaced(s)

Serving == HasListener /\ DefaultWanted

\* What the worker ensures is wanted, or was until an event that waits.
LEMMA EnsuredWanted ==
    ASSUME Typed, Objects, NEW p \in Processes, Busy(run[p]),
           p = Worker \/ run[p].new = store[run[p].key], NEW s, HeadIs(run[p].new, s)
    PROVE  Wanted(s) \/ Given(s)
<1>1. run[p].key \in Ingresses
    BY DEF Typed, RunsOK, RunOK
<1>2. store[run[p].key] = run[p].new \/ Leaves(run[p].key, run[p].new)
    BY DEF Objects, RunChained
<1> QED
    BY <1>1, <1>2 DEF Wanted, Given, Leaves

\* So is the certificate that a call gives to the listener.
LEMMA HeldWanted ==
    ASSUME Typed, Objects, NEW p \in Processes, AnyCall(p), p = Worker \/ ~Outdated(p),
           Same(run[p], run'[p]), Held(run[p])', NEW s, s = listener'.default.secret
    PROVE  Wanted(s)' \/ Replaced(s)'
<1>1. Busy(run[p]) /\ UNCHANGED <<store, queue>>
    BY CallFrame
<1>2. HeadIs(run[p].new, s)
    BY DEF Held, Same, HeadIs
<1>3. p = Worker \/ run[p].new = store[run[p].key]
    BY DEF Outdated, Processes
<1>4. Wanted(s) \/ Given(s)
    BY <1>1, <1>2, <1>3, EnsuredWanted
<1> QED
    BY <1>1, <1>4 DEF Wanted, Given, Replaced

\* Tracking an ingress without TLS leaves its certificate in the listener.
LEMMA TrackMarks ==
    ASSUME NEW p \in Processes, Track(p), ~HasTLS(run[p].new), listener # None,
           listener.default.secret \in Used(run[p].old)
    PROVE  {"stale", "left"} \subseteq mishap'
BY DEF Track

\* A goroutine on its way: it falls, or comes to the listener.
LEMMA AheadLater ==
    ASSUME Typed, Objects, NEW p \in Processes, AnyCall(p), run[p].call \in Ahead
    PROVE  \/ Falls(p)
           \/ /\ run'[p].call \in Ahead /\ run'[p].new = run[p].new
              /\ run'[p].old = run[p].old
              /\ run[p].call \in Past => run'[p].call \in Past
              /\ run'[p].call \in Past => run[p].call \in Past \/ Track(p)
           \/ Arrives(p)
<1>1. Falls(p) \/ Inspect(p) \/ Track(p) \/ Onward(p) \/ Arrives(p) \/ Cleans(p)
    BY Ways DEF Objects
<1>2. CASE Inspect(p)
    BY <1>2, InspectFields DEF Ahead, Before, Past
<1>3. CASE Track(p)
    BY <1>3, TrackFields DEF Ahead, Before, Past, Same
<1>4. CASE Onward(p)
    BY <1>4 DEF Onward, Ahead, Same
<1> QED
    BY <1>1, <1>2, <1>3, <1>4 DEF Cleans

LEMMA ComingLater ==
    ASSUME Typed, Objects, NEW p \in Processes, AnyCall(p), Coming
    PROVE  \/ Falls(p) \/ Coming'
           \/ p = Worker /\ Same(run[p], run'[p]) /\ Held(run[p])'
<1>0. UNCHANGED queue /\ \A q \in Processes \ {p} : run'[q] = run[q]
    BY CallFrame
<1>1. CASE \E n \in DOMAIN queue : HasTLS(queue[n].new)
    BY <1>0, <1>1 DEF Coming
<1>2. CASE run[Worker].call \in Ahead /\ HasTLS(run[Worker].new)
  <2>1. CASE p = Worker
    BY <1>2, <2>1, AheadLater DEF Coming, Arrives
  <2> QED
    BY <1>0, <1>2, <2>1 DEF Coming, Processes
<1> QED
    BY <1>1, <1>2 DEF Coming

LEMMA ReplacedLater ==
    ASSUME Typed, Objects, NEW p \in Processes, AnyCall(p), UNCHANGED listener, listener # None,
           NEW s, s = listener.default.secret, Replaced(s)
    PROVE  Wanted(s)' \/ Replaced(s)' \/ Falls(p) \/ {"stale", "left"} \subseteq mishap'
<1>0. UNCHANGED queue /\ (\A q \in Processes \ {p} : run'[q] = run[q]) /\ run[p] \in Run
    BY CallFrame
<1>1. CASE Given(s)
    BY <1>0, <1>1 DEF Given, Replaced
<1>2. CASE Replaces(run[Worker], s) /\ p # Worker
    BY <1>0, <1>2 DEF Replaced, Replaces, Processes
<1>3. CASE Replaces(run[Worker], s) /\ p = Worker
  <2>1. run[Worker].call \in Ahead
    BY <1>3 DEF Replaces, Ahead
  <2>2. CASE Arrives(Worker)
    <3>1. HasTLS(run[Worker].new)
      BY <1>3, <2>2 DEF Replaces, Arrives, Before, Past
    <3> QED
      BY <1>3, <2>2, <3>1, HeldWanted DEF Arrives
  <2>3. CASE Track(Worker)
    <3>1. s \in Used(run[Worker].old)
      BY <1>0, <1>3, UsedOK DEF Replaces, HeadIs, Run
    <3>2. CASE HasTLS(run[Worker].new)
      BY <1>3, <2>3, <3>2, TrackFields DEF Replaced, Replaces, Past, Same
    <3> QED
      BY <1>3, <2>3, <3>1, <3>2, TrackMarks
  <2>4. ASSUME ~Falls(Worker), ~Arrives(Worker), ~Track(Worker)
        PROVE  Replaced(s)'
    <3>1. /\ run'[Worker].call \in Ahead /\ run'[Worker].new = run[Worker].new
          /\ run'[Worker].old = run[Worker].old
          /\ run[Worker].call \in Past <=> run'[Worker].call \in Past
      BY <1>3, <2>1, <2>4, AheadLater
    <3>2. run'[Worker].call \in Before \/ run'[Worker].call \in Past
      BY <3>1 DEF Ahead
    <3>3. Before \cap Past = {}
      BY DEF Before, Past
    <3>4. run[Worker].call \in Before => run'[Worker].call \in Before
      BY <3>1, <3>2, <3>3
    <3>5. Replaces(run'[Worker], s)
      BY <1>3, <3>1, <3>4 DEF Replaces
    <3> QED
      BY <3>5 DEF Replaced, Replaces
  <2> QED
    BY <1>3, <2>2, <2>3, <2>4
<1> QED
    BY <1>1, <1>2, <1>3 DEF Replaced

LEMMA CallServes ==
    ASSUME Typed, Objects, Serving, NEW p \in Processes, AnyCall(p)
    PROVE  Serving'
<1>0. /\ UNCHANGED <<store, queue>> /\ mishap \subseteq mishap' /\ TLS' = TLS
      /\ listener # None => listener' # None
  <2>1. UNCHANGED <<store, queue>> /\ mishap \subseteq mishap'
    BY CallFrame
  <2>2. listener # None => listener' # None
    BY Ways DEF Listens, Held, Objects
  <2> QED
    BY <2>1, <2>2 DEF TLS
<1>1. HasListener'
    BY <1>0, ComingLater DEF Serving, HasListener, Falls, Held
<1>2. PICK s : s = listener'.default.secret
    OBVIOUS
<1>3. SUFFICES ASSUME listener' # None, ~Wanted(s)', ~Replaced(s)'
               PROVE  /\ {"lost", "stale"} \cap mishap' = {} /\ TLS' # {} => Coming'
                      /\ "left" \in mishap'
    BY <1>1, <1>2 DEF Serving, DefaultWanted, Wanted, Replaced, Given, Replaces
<1>4. CASE ~UNCHANGED listener
  <2>1. {"stale", "left"} \subseteq mishap'
    BY <1>2, <1>3, <1>4, Ways, HeldWanted DEF Listens, Objects
  <2> QED
    BY <2>1
<1>5. CASE Falls(p) \/ {"stale", "left"} \subseteq mishap'
    BY <1>5 DEF Falls
<1>6. CASE UNCHANGED listener /\ ~Falls(p) /\ ~({"stale", "left"} \subseteq mishap')
  <2>1. listener # None /\ s = listener.default.secret
    BY <1>2, <1>3, <1>6
  <2>2. ~Wanted(s)
    BY <1>0, <1>3 DEF Wanted
  <2>3. ~Replaced(s)
    BY <1>3, <1>6, <2>1, ReplacedLater
  <2>4. "left" \in mishap'
    BY <1>0, <2>1, <2>2, <2>3 DEF Serving, DefaultWanted
  <2>5. ASSUME {"lost", "stale"} \cap mishap' = {}, TLS' # {}
        PROVE  Coming'
    <3>1. Coming
      BY <1>0, <2>1, <2>2, <2>3, <2>5 DEF Serving, DefaultWanted
    <3> QED
      BY <1>2, <1>3, <1>6, <3>1, ComingLater, HeldWanted
  <2> QED
    BY <2>4, <2>5
<1> QED
    BY <1>4, <1>5, <1>6

LEMMA EditServes ==
    ASSUME Typed, Serving, NEW i \in Ingresses, Edit(i)
    PROVE  Serving'
<1>1. /\ UNCHANGED <<run, listener, mishap>>
      /\ \A j \in Ingresses : j # i => store'[j] = store[j]
    BY EditFields
<1>2. PICK l \in DOMAIN queue' :
        /\ DOMAIN queue' = DOMAIN queue \cup {l}
        /\ queue'[l].old = store[i] /\ queue'[l].new = store'[i]
        /\ \A n \in DOMAIN queue : queue'[n] = queue[n]
    BY EditFields
<1>3. Coming => Coming'
    BY <1>1, <1>2 DEF Coming
<1>4. TLS' # {} => TLS # {} \/ Coming'
    BY <1>1, <1>2 DEF TLS, Coming
<1>5. ASSUME NEW s, Wanted(s) \/ Replaced(s)
      PROVE  Wanted(s)' \/ Replaced(s)'
  <2>1. CASE Wanted(s)
    BY <1>1, <1>2, <2>1 DEF Wanted, Replaced, Given
  <2>2. CASE Replaced(s)
    BY <1>1, <1>2, <2>2 DEF Replaced, Given, Replaces
  <2> QED
    BY <1>5, <2>1, <2>2
<1>6. HasListener'
    BY <1>1, <1>3, <1>4 DEF Serving, HasListener
<1>7. PICK s : s = listener.default.secret
    OBVIOUS
<1>8. DefaultWanted'
  <2>1. /\ listener # None /\ {"lost", "stale"} \cap mishap = {} /\ TLS # {} =>
              Wanted(s) \/ Replaced(s) \/ Coming
        /\ listener # None /\ "left" \notin mishap => Wanted(s) \/ Replaced(s)
    BY <1>7 DEF Serving, DefaultWanted
  <2>2. /\ listener # None /\ {"lost", "stale"} \cap mishap = {} /\ TLS' # {} =>
              Wanted(s)' \/ Replaced(s)' \/ Coming'
        /\ listener # None /\ "left" \notin mishap => Wanted(s)' \/ Replaced(s)'
    BY <1>3, <1>4, <1>5, <2>1
  <2> QED
    BY <1>1, <1>7, <2>2 DEF DefaultWanted, Wanted, Replaced, Given, Replaces
<1> QED
    BY <1>6, <1>8 DEF Serving

LEMMA TakeServes ==
    ASSUME Typed, Serving, Take
    PROVE  Serving'
<1>1. /\ queue[1] \in Events /\ 1 \in DOMAIN queue
      /\ run'[Worker] = Begin(queue[1].key, queue[1].old, queue[1].new) /\ ~Busy(run[Worker])
      /\ UNCHANGED <<store, listener, mishap>>
      /\ \A n \in DOMAIN queue : n # 1 => n - 1 \in DOMAIN queue' /\ queue'[n - 1] = queue[n]
    BY TakeFields
<1>2. run'[Worker].call = "inspect" /\ run'[Worker].old = queue[1].old /\ run'[Worker].new = queue[1].new
    BY <1>1, BeginFields DEF Events
<1>3. run[Worker].call \notin Ahead
    BY <1>1 DEF Busy, Ahead, Before, Past
<1>4. Coming => Coming'
  <2> SUFFICES ASSUME NEW n \in DOMAIN queue, HasTLS(queue[n].new) PROVE Coming'
    BY <1>3 DEF Coming
  <2>1. CASE n = 1
    BY <1>2, <2>1 DEF Coming, Ahead, Before
  <2>2. CASE n # 1
    BY <1>1, <2>2 DEF Coming
  <2> QED
    BY <2>1, <2>2
<1>5. ASSUME NEW s, Replaced(s)
      PROVE  Replaced(s)'
  <2>1. PICK n \in DOMAIN queue : HeadIs(queue[n].old, s)
    BY <1>3, <1>5 DEF Replaced, Replaces, Given, Ahead
  <2>2. CASE n = 1
    BY <1>2, <2>1, <2>2 DEF Replaced, Replaces, Before
  <2>3. CASE n # 1
    BY <1>1, <2>1, <2>3 DEF Replaced, Given
  <2> QED
    BY <2>2, <2>3
<1>6. TLS' = TLS
    BY <1>1 DEF TLS
<1>7. PICK s : s = listener.default.secret
    OBVIOUS
<1>8. (Wanted(s) => Wanted(s)') /\ (Replaced(s) => Replaced(s)')
    BY <1>1, <1>5 DEF Wanted
<1>9. HasListener'
    BY <1>1, <1>4, <1>6 DEF Serving, HasListener
<1>10. DefaultWanted'
    BY <1>1, <1>4, <1>6, <1>7, <1>8 DEF Serving, DefaultWanted, Wanted, Replaced, Given, Replaces
<1> QED
    BY <1>9, <1>10 DEF Serving

\* The ingresses that need a listener come again.
LEMMA ListedComing ==
    ASSUME NEW stored \in [Ingresses -> Ingress], NEW q \in Listed(stored),
           NEW i \in Ingresses, HasTLS(stored[i])
    PROVE  \E n \in DOMAIN q : HasTLS(q[n].new)
<1>1. stored[i] # Absent
    BY DEF HasTLS, Used
<1>2. q \in Seq(Events)
    BY ListedQueues
<1>3. PICK n \in 1 .. Len(q) : q[n].key = i
    BY <1>1, ListedAll
<1>4. q[n].new = stored[i] /\ n \in DOMAIN q
    BY <1>2, <1>3, ListedAll
<1> QED
    BY <1>4

LEMMA CrashServes ==
    ASSUME Typed, Serving, Crash
    PROVE  Serving'
<1>1. /\ store \in [Ingresses -> Ingress] /\ queue' \in Listed(store) /\ UNCHANGED <<store, listener>>
      /\ mishap' = (mishap \cap {"left"}) \cup (IF Rest THEN {} ELSE {"left"})
    BY CrashFields
<1>2. TLS' # {} => Coming'
    BY <1>1, ListedComing DEF TLS, Coming
<1>3. PICK s : s = listener.default.secret
    OBVIOUS
<1>4. ASSUME "left" \notin mishap', listener # None
      PROVE  Wanted(s)'
  <2>1. Rest /\ "left" \notin mishap
    BY <1>1, <1>4
  <2>2. ~Replaced(s)
    BY <2>1 DEF Rest, At, Replaced, Replaces, Given, Processes, Before, Past
  <2>3. Wanted(s)
    BY <1>3, <1>4, <2>1, <2>2 DEF Serving, DefaultWanted
  <2> QED
    BY <1>1, <2>3 DEF Wanted
<1> QED
    BY <1>1, <1>2, <1>3, <1>4 DEF Serving, HasListener, DefaultWanted, Wanted

LEMMA ServingStep ==
    ASSUME Typed, Objects, Serving, [Next]_vars
    PROVE  Serving'
<1>1. ASSUME UNCHANGED <<store, queue, listener, mishap>>, run'[Worker] = run[Worker]
      PROVE  Serving'
    BY <1>1 DEF Serving, HasListener, DefaultWanted, Wanted, Replaced, Given, Replaces, Coming, TLS
<1>2. CASE SyncLoop \/ OtherTick
    BY <1>1, <1>2, SyncFields
<1>3. CASE UNCHANGED vars \/ \E s \in Secrets : ChangeSecret(s)
    BY <1>1, <1>3 DEF vars, ChangeSecret
<1> QED
    BY <1>2, <1>3, CallServes, EditServes, TakeServes, CrashServes, Steps

LEMMA ServingInit ==
    ASSUME Init
    PROVE  Serving
<1>1. store \in [Ingresses -> Ingress] /\ queue \in Listed(store) /\ listener = None
    BY StoresAssumption DEF Init
<1>2. TLS # {} => Coming
    BY <1>1, ListedComing DEF TLS, Coming
<1> QED
    BY <1>1, <1>2 DEF Serving, HasListener, DefaultWanted

-----------------------------------------------------------------------------
(* The default certificate is not older than what is tracked.              *)

NotOlder(s, v) == tracker[s] = None \/ tracker[s] <= v

\* A goroutine has read a version that is not older, and will attach it.
Attaches(r) ==
    r.call \in Past /\ HasTLS(r.new) /\ NotOlder(Head(r.new), r.versions[Head(r.new)])

Fresh ==
    listener # None /\ {"lost", "stale"} \cap mishap = {} =>
        \/ NotOlder(listener.default.secret, listener.default.version)
        \/ \E p \in Processes : Attaches(run[p])

\* Tracking: the goroutine that tracks a version goes on to attach it, and
\* without one no secret has a tracker that it had not before.
LEMMA TrackFresh ==
    ASSUME Typed, Fresh, NEW p \in Processes, Track(p)
    PROVE  Fresh'
<1>0. /\ run[p] \in Run /\ RunOK(run[p]) /\ run[p].call = "track" /\ RestOK /\ RestOK'
      /\ Same(run[p], run'[p]) /\ run'[p].call = "certs" /\ \A q \in Processes \ {p} : run'[q] = run[q]
    BY TrackFields, CallFrame, NextTypes DEF Typed, RunsOK, AnyCall, Call, Next
<1>1. tracker' = Trackers(run[p]) /\ mishap \subseteq mishap' /\ UNCHANGED listener
    BY DEF Track
<1>2. CASE HasTLS(run[p].new)
  <2> DEFINE s == Head(run[p].new)
  <2>1. s \in Used(run[p].new) /\ s \in Secrets
    BY <1>0, <1>2, UsedOK DEF Run
  <2>2. run[p].versions[s] \in Nat
    BY <1>0, <2>1 DEF RunOK, Busy, Read
  <2>3. tracker'[s] = run[p].versions[s]
    BY <1>1, <2>1 DEF Trackers
  <2>4. tracker'[s] <= run[p].versions[s]
    BY <2>2, <2>3
  <2>5. Attaches(run[p])'
    BY <1>0, <1>2, <2>4 DEF Attaches, NotOlder, Same, Past
  <2> QED
    BY <2>5 DEF Fresh
<1>3. CASE ~HasTLS(run[p].new)
  <2>1. \A s \in Secrets : tracker'[s] \in {None, tracker[s]}
    BY <1>1, <1>3 DEF Trackers, HasTLS
  <2>2. \A s \in Secrets : \A v : NotOlder(s, v) => tracker'[s] = None \/ tracker'[s] <= v
    BY <2>1 DEF NotOlder
  <2>3. listener # None => listener.default.secret \in Secrets
    BY <1>0 DEF RestOK, Listeners, Listener, Cert
  <2>4. ASSUME NEW q \in Processes, Attaches(run[q])
        PROVE  Attaches(run[q])'
    <3>1. run'[q] = run[q]
      BY <1>0, <2>4 DEF Attaches, Past
    <3>2. Head(run[q].new) \in Secrets
      BY <2>4, UsedOK DEF Attaches, Typed, RunsOK, Run
    <3> QED
      BY <2>2, <2>4, <3>1, <3>2 DEF Attaches, NotOlder
  <2> QED
    BY <1>1, <2>2, <2>3, <2>4 DEF Fresh, NotOlder
<1> QED
    BY <1>2, <1>3

\* What is attached without being excused is not older.
LEMMA HeldFresh ==
    ASSUME Typed, RunsKnown, Typed', NEW p \in Processes, UNCHANGED tracker, ~Outdated(p),
           Held(run[p])', Same(run[p], run'[p]), listener'.default = Default(run[p])
    PROVE  NotOlder(listener.default.secret, listener.default.version)'
<1> DEFINE c == listener'.default
<1>1. c \in Cert /\ c.secret \in Secrets /\ c.version \in Nat
    BY DEF Typed, RestOK, Listeners, Listener, Cert, Held
<1>2. tracker[c.secret] = None \/ tracker[c.secret] \in Nat
    BY <1>1 DEF Typed, RestOK, Versions
<1>3. tracker[c.secret] = None \/ ~(tracker[c.secret] > c.version)
    BY DEF Outdated
<1> QED
    BY <1>1, <1>2, <1>3 DEF NotOlder

LEMMA CallFresh ==
    ASSUME Typed, Objects, Fresh, NEW p \in Processes, AnyCall(p), ~Track(p)
    PROVE  Fresh'
<1>0. /\ Typed' /\ mishap \subseteq mishap' /\ RunsKnown
      /\ \A q \in Processes \ {p} : run'[q] = run[q]
    BY CallFrame, NextTypes DEF Objects, Next, AnyCall
<1>1. Listens(p) /\ (Falls(p) \/ Inspect(p) \/ Onward(p) \/ Arrives(p) \/ Cleans(p))
    BY <1>0, Ways
<1>2. UNCHANGED tracker
    BY <1>1 DEF Falls, Inspect, Onward, Arrives, Cleans
<1> SUFFICES ASSUME listener' # None, {"lost", "stale"} \cap mishap' = {}
             PROVE  \/ NotOlder(listener.default.secret, listener.default.version)'
                    \/ \E q \in Processes : Attaches(run[q])'
    BY DEF Fresh
<1>3. CASE UNCHANGED listener
  <2>1. CASE NotOlder(listener.default.secret, listener.default.version)
    BY <1>2, <1>3, <2>1 DEF NotOlder
  <2>2. ASSUME NEW q \in Processes \ {p}, Attaches(run[q])
        PROVE  Attaches(run[q])'
    BY <1>0, <1>2, <2>2 DEF Attaches, NotOlder
  <2>3. CASE Attaches(run[p])
    <3>1. run[p].call \in Past /\ HasTLS(run[p].new)
      BY <2>3 DEF Attaches
    <3>2. CASE Onward(p)
      BY <1>2, <2>3, <3>2 DEF Attaches, NotOlder, Onward, Same
    <3>3. CASE Arrives(p)
      BY <1>2, <2>3, <3>3 DEF Attaches, NotOlder, Arrives, Held, Same
    <3> QED
      BY <1>1, <3>1, <3>2, <3>3 DEF Falls, Inspect, At, Cleans, Ahead, Past
  <2> QED
    BY <1>0, <1>3, <2>1, <2>2, <2>3 DEF Fresh
<1>4. CASE ~UNCHANGED listener
    BY <1>0, <1>1, <1>2, <1>4, HeldFresh DEF Listens
<1> QED
    BY <1>3, <1>4

LEMMA FreshStep ==
    ASSUME Typed, Objects, Fresh, [Next]_vars
    PROVE  Fresh'
<1>0. Processes = {Worker, Sync} /\ Worker # Sync
    BY DEF Processes, Worker, Sync
<1>1. ASSUME UNCHANGED <<tracker, listener, mishap>>,
             \A p \in Processes : run'[p] = run[p] \/ ~Busy(run[p])
      PROVE  Fresh'
  <2>1. \A p \in Processes : Attaches(run[p]) => Attaches(run[p])'
    BY <1>1 DEF Attaches, NotOlder, Past, Busy
  <2> QED
    BY <1>1, <2>1 DEF Fresh, NotOlder
<1>2. CASE Crash
  <2>1. tracker' = Nothing /\ UNCHANGED listener /\ RestOK
    BY <1>2, CrashFields DEF Typed
  <2>2. listener # None => listener.default.secret \in Secrets
    BY <2>1 DEF RestOK, Listeners, Listener, Cert
  <2> QED
    BY <2>1, <2>2 DEF Fresh, NotOlder, Nothing
<1>3. CASE SyncLoop \/ OtherTick
    BY <1>0, <1>1, <1>3, SyncFields
<1>4. CASE Take
    BY <1>0, <1>1, <1>4, TakeFields
<1>5. CASE UNCHANGED vars \/ \E s \in Secrets : ChangeSecret(s)
    BY <1>1, <1>5 DEF vars, ChangeSecret
<1>6. ASSUME NEW i \in Ingresses, Edit(i)
      PROVE  Fresh'
    BY <1>1, <1>6, EditFields
<1> QED
    BY <1>2, <1>3, <1>4, <1>5, <1>6, CallFresh, TrackFresh, Steps

\* All that CertificateFollows rests on.
FollowInv == Typed /\ TrackInv /\ Objects /\ Bounded /\ Serving /\ Fresh

LEMMA AlwaysFollowing == Spec => []FollowInv
<1>1. Init => Objects /\ Bounded /\ Serving /\ Fresh
    BY ObjectsInit, BoundedInit, ServingInit DEF Fresh, Init
<1>2. Typed /\ Objects /\ Bounded /\ Serving /\ Fresh /\ [Next]_vars
        => (Objects /\ Bounded /\ Serving /\ Fresh)'
    BY ObjectsStep, BoundedStep, ServingStep, FreshStep DEF Objects
<1>3. Typed /\ TrackInv /\ Objects /\ Bounded /\ Serving /\ Fresh => FollowInv
    BY DEF FollowInv
<1> QED
    BY <1>1, <1>2, <1>3, AlwaysTyped, AlwaysTracking, PTL DEF Spec

\* CertificateFollows of Certificates: at rest the listener has the first
\* certificate of an ingress, made of what the secret contains now, unless a
\* call failed, a shared secret lost its tracker or an outdated certificate
\* was attached; for all edits, new versions, passes and restarts.
THEOREM Follows == Spec => []CertificateFollows
<1>1. FollowInv => CertificateFollows
  <2> SUFFICES ASSUME FollowInv, Rest, {"lost", "stale"} \cap mishap = {}, TLS # {}
               PROVE  /\ listener # None
                      /\ \E i \in TLS : listener.default.secret = Head(store[i])
                      /\ listener.default.content = secret[listener.default.secret]
    BY DEF CertificateFollows
  <2>0. RestOK /\ (\A p \in Processes : run[p].call = "idle") /\ queue = <<>> /\ ~Changed
    BY DEF FollowInv, Typed, Rest, At
  <2>1. ~Coming
    BY <2>0 DEF Coming, Processes, Ahead, Before, Past
  <2>2. listener # None
    BY <2>1 DEF FollowInv, Serving, HasListener
  <2> DEFINE c == listener.default
             s == c.secret
  <2>3. s \in Secrets /\ c.version \in Nat /\ c.content \in Nat
    BY <2>0, <2>2 DEF RestOK, Listeners, Listener, Cert
  <2>4. ~Replaced(s)
    BY <2>0 DEF Replaced, Replaces, Given, Processes, Before, Past
  <2>5. PICK i \in Ingresses : HeadIs(store[i], s)
    BY <2>1, <2>2, <2>4 DEF FollowInv, Serving, DefaultWanted, Wanted
  <2>6. i \in TLS /\ s = Head(store[i]) /\ s \in Used(store[i])
    BY <2>0, <2>5, UsedOK DEF HeadIs, TLS, RestOK
  <2>7. ~Queued(i) /\ ~Tracking(i)
    BY <2>0 DEF Queued, Tracking, Processes
  <2>8. tracker[s] # None
    BY <2>6, <2>7 DEF FollowInv, TrackInv, Followed
  <2>9. secret[s] = tracker[s] /\ secret[s] \in Nat
    BY <2>0, <2>3, <2>8 DEF Changed, RestOK, Versions
  <2>10. ~\E p \in Processes : Attaches(run[p])
    BY <2>0 DEF Attaches, Past
  <2>11. tracker[s] <= c.version
    BY <2>2, <2>8, <2>10 DEF FollowInv, Fresh, NotOlder
  <2>12. c.version <= c.content /\ c.content <= secret[s]
    BY <2>2, <2>8, <2>9 DEF FollowInv, Bounded, Fits, Upto
  <2>13. c.content = secret[s]
    BY <2>3, <2>9, <2>11, <2>12
  <2> QED
    BY <2>2, <2>6, <2>13
<1> QED
    BY <1>1, AlwaysFollowing, PTL

-----------------------------------------------------------------------------
(* A certificate that nothing needs is to be deleted.                      *)

Needed(c) == \E i \in Ingresses : c.secret \in Used(store[i])

\* The worker deletes what the old object had, a pass what the new one has
\* and the listener does not use.
WorkerDooms(r, c) ==
    \/ r.call \in Ahead \cup {"pruneOld"} /\ c.secret \in Used(r.old)
    \/ r.call = "deleteOld" /\ c \in r.doomed

SyncDooms(r, c) ==
    \/ r.call \in Ahead \cup {"pruneNew"} /\ c.secret \in Used(r.new)
    \/ r.call = "deleteNew" /\ c \in r.doomed

Doomed(c) ==
    \/ \E n \in DOMAIN queue : c.secret \in Used(queue[n].old)
    \/ WorkerDooms(run[Worker], c)
    \/ SyncDooms(run[Sync], c)

NoneLeft == "left" \notin mishap => \A c \in certs : Needed(c) \/ InUse(c) \/ Doomed(c)

\* Behind the listener every call but a failing one lists or deletes.
LEMMA PruneCalls ==
    ASSUME NEW p \in Processes, AnyCall(p), "left" \notin mishap'
    PROVE  /\ run[p].call \in {"pruneOld", "pruneNew"} => ListRedundant(p)
           /\ run[p].call \in {"deleteOld", "deleteNew"} => DeleteCertificate(p)
BY DEF AnyCall, Call, CallFails, ListFails, DeleteFails, Inspect, Track, ListCertificate,
   ImportCertificate, FindListener, CreateListener, UpdateListener, ListRedundant,
   DeleteCertificate, SecretMissing, Refused, Fail, Mark, At

\* What is listed is deleted, but for what is in use.
LEMMA ListedDooms ==
    ASSUME Typed, NEW p \in Processes, ListRedundant(p), NEW c \in certs', ~InUse(c)',
           c.secret \in Used(IF run[p].call = "pruneOld" THEN run[p].old ELSE run[p].new)
    PROVE  /\ c \in run'[p].doomed
           /\ run'[p].call = IF run[p].call = "pruneOld" THEN "deleteOld" ELSE "deleteNew"
<1>1. c \in Redundant(Used(IF run[p].call = "pruneOld" THEN run[p].old ELSE run[p].new))
    BY DEF ListRedundant, InUse, Redundant
<1> QED
    BY <1>1, RedundantFields

LEMMA DeletedDooms ==
    ASSUME Typed, NEW p \in Processes, DeleteCertificate(p), "left" \notin mishap',
           NEW c \in certs', ~InUse(c)', c \in run[p].doomed
    PROVE  c \in run'[p].doomed /\ run'[p].call = run[p].call
<1>1. ~DeleteFails(p) /\ UNCHANGED listener
    BY DEF DeleteFails, DeleteCertificate, Mark
<1>2. PICK d \in run[p].doomed :
         LET r == run[p]
             q == run'[p]
         IN  /\ \/ q.call = r.call /\ q.doomed = r.doomed \ {d}
                \/ r.doomed \subseteq {d}
             /\ certs' = IF InUse(d) THEN certs ELSE certs \ {d}
    BY <1>1, DeleteFields
<1>3. ~InUse(c)
    BY <1>1 DEF InUse
<1>4. c # d
    BY <1>2, <1>3
<1> QED
    BY <1>2, <1>4

\* A goroutine on its way comes to the deletions, with the same objects.
LEMMA AheadDooms ==
    ASSUME Typed, Objects, NEW p \in Processes, AnyCall(p), run[p].call \in Ahead,
           "left" \notin mishap'
    PROVE  /\ run'[p].old = run[p].old /\ run'[p].new = run[p].new
           /\ run'[p].call \in Ahead \/ run'[p].call = AfterListener(run[p])
BY AheadLater DEF Falls, Arrives, Same

LEMMA WorkerDoomsLater ==
    ASSUME Typed, Objects, AnyCall(Worker), "left" \notin mishap',
           NEW c \in certs', ~InUse(c)', WorkerDooms(run[Worker], c)
    PROVE  WorkerDooms(run'[Worker], c)
<1>0. Worker \in Processes
    BY DEF Processes
<1>1. CASE run[Worker].call \in Ahead /\ c.secret \in Used(run[Worker].old)
    BY <1>0, <1>1, AheadDooms DEF WorkerDooms, AfterListener
<1>2. CASE run[Worker].call = "pruneOld" /\ c.secret \in Used(run[Worker].old)
    BY <1>0, <1>2, PruneCalls, ListedDooms DEF WorkerDooms
<1>3. CASE run[Worker].call = "deleteOld" /\ c \in run[Worker].doomed
    BY <1>0, <1>3, PruneCalls, DeletedDooms DEF WorkerDooms
<1> QED
    BY <1>1, <1>2, <1>3 DEF WorkerDooms

LEMMA SyncDoomsLater ==
    ASSUME Typed, TrackInv, Objects, AnyCall(Sync), "left" \notin mishap',
           NEW c \in certs', ~InUse(c)', SyncDooms(run[Sync], c)
    PROVE  SyncDooms(run'[Sync], c)
<1>0. Sync \in Processes /\ Used(run[Sync].old) = {}
    BY DEF Processes, TrackInv, Used
<1>1. CASE run[Sync].call \in Ahead /\ c.secret \in Used(run[Sync].new)
    BY <1>0, <1>1, AheadDooms DEF SyncDooms, AfterListener
<1>2. CASE run[Sync].call = "pruneNew" /\ c.secret \in Used(run[Sync].new)
    BY <1>0, <1>2, PruneCalls, ListedDooms DEF SyncDooms
<1>3. CASE run[Sync].call = "deleteNew" /\ c \in run[Sync].doomed
    BY <1>0, <1>3, PruneCalls, DeletedDooms DEF SyncDooms
<1> QED
    BY <1>1, <1>2, <1>3 DEF SyncDooms

\* The one that is imported is of an object that is ensured.
LEMMA ImportLeaves ==
    ASSUME Typed, Objects, NEW p \in Processes, ImportCertificate(p), NEW c \in certs' \ certs
    PROVE  Needed(c)' \/ Doomed(c)'
<1>1. /\ run[p].call = "import" /\ c.secret \in Used(run[p].new) /\ run'[p].new = run[p].new
      /\ run'[p].call \in {"import", "find"}
    BY ImportFields DEF Same
<1>2. UNCHANGED <<store, queue>>
    BY DEF ImportCertificate
<1>3. CASE p = Worker
  <2>1. Busy(run[Worker]) /\ run[Worker].key \in Ingresses
    BY <1>1, <1>3 DEF Busy, Typed, RunsOK, RunOK
  <2> QED
    BY <1>1, <1>2, <1>3, <2>1 DEF Objects, RunChained, Leaves, Needed, Doomed
<1>4. CASE p = Sync
    BY <1>1, <1>4 DEF Doomed, SyncDooms, Ahead, Past
<1> QED
    BY <1>3, <1>4 DEF Processes

\* The default that the listener gives up is wanted, or to be deleted.
LEMMA GivenUp ==
    ASSUME Typed, DefaultWanted, NEW p \in Processes, UpdateListener(p), "left" \notin mishap,
           NEW c, InUse(c), ~InUse(c)'
    PROVE  Needed(c) \/ Doomed(c)
<1>1. listener # None /\ listener' # None /\ listener'.others = listener.others
    BY UpdateFields
<1>2. c = listener.default
    BY <1>1 DEF InUse
<1>3. /\ \A spec \in Ingress : HeadIs(spec, c.secret) => c.secret \in Used(spec)
      /\ \A n \in DOMAIN queue : queue[n].old \in Ingress
      /\ \A i \in Ingresses : store[i] \in Ingress
      /\ run[Worker].old \in Ingress
  <2>1. \A n \in DOMAIN queue : queue[n] \in Events
    BY DEF Typed, RestOK
  <2> QED
    BY <2>1, UsedOK DEF HeadIs, Typed, RestOK, RunsOK, Run, Events, Processes
<1>4. Wanted(c.secret) \/ Given(c.secret) \/ Replaces(run[Worker], c.secret)
    BY <1>1, <1>2 DEF DefaultWanted, Replaced
<1> QED
    BY <1>3, <1>4 DEF Wanted, Given, Replaces, Needed, Doomed, WorkerDooms, Ahead

LEMMA CallLeavesNone ==
    ASSUME Typed, TrackInv, Objects, DefaultWanted, NoneLeft, NEW p \in Processes, AnyCall(p)
    PROVE  NoneLeft'
<1>0. /\ UNCHANGED <<store, queue>> /\ mishap \subseteq mishap'
      /\ \A q \in Processes \ {p} : run'[q] = run[q]
    BY CallFrame
<1> SUFFICES ASSUME "left" \notin mishap', NEW c \in certs', ~Needed(c)', ~InUse(c)'
             PROVE  Doomed(c)'
    BY DEF NoneLeft
<1>1. CASE c \notin certs
    BY <1>1, CertsFrame, ImportLeaves
<1>2. CASE c \in certs
  <2>1. ~Needed(c)
    BY <1>0 DEF Needed
  <2>2. Needed(c) \/ InUse(c) \/ Doomed(c)
    BY <1>0, <1>2 DEF NoneLeft
  <2>3. InUse(c) => UpdateListener(p)
    BY DEF InUse, AnyCall, Call, CallFails, ListFails, DeleteFails, Inspect, Track,
       ListCertificate, ImportCertificate, FindListener, CreateListener, ListRedundant,
       DeleteCertificate, SecretMissing, Refused, Fail
  <2>4. Doomed(c)
    BY <1>0, <2>1, <2>2, <2>3, GivenUp
  <2>5. CASE \E n \in DOMAIN queue : c.secret \in Used(queue[n].old)
    BY <1>0, <2>5 DEF Doomed
  <2>6. CASE WorkerDooms(run[Worker], c)
    <3>1. WorkerDooms(run'[Worker], c)
      BY <1>0, <2>6, WorkerDoomsLater DEF Processes
    <3> QED
      BY <3>1 DEF Doomed, WorkerDooms
  <2>7. CASE SyncDooms(run[Sync], c)
    <3>1. SyncDooms(run'[Sync], c)
      BY <1>0, <2>7, SyncDoomsLater DEF Processes
    <3> QED
      BY <3>1 DEF Doomed, SyncDooms
  <2> QED
    BY <2>4, <2>5, <2>6, <2>7 DEF Doomed
<1> QED
    BY <1>1, <1>2

LEMMA NoneLeftStep ==
    ASSUME Typed, TrackInv, Objects, DefaultWanted, NoneLeft, [Next]_vars
    PROVE  NoneLeft'
<1>1. ASSUME UNCHANGED <<store, queue, certs, listener, mishap>>,
             run'[Worker] = run[Worker], run'[Sync] = run[Sync] \/ ~Busy(run[Sync])
      PROVE  NoneLeft'
  <2>1. ~Busy(run[Sync]) => \A c : ~SyncDooms(run[Sync], c)
    BY DEF Busy, SyncDooms, Ahead, Before, Past
  <2> QED
    BY <1>1, <2>1 DEF NoneLeft, Needed, InUse, Doomed, WorkerDooms, SyncDooms
<1>2. ASSUME NEW i \in Ingresses, Edit(i)
      PROVE  NoneLeft'
  <2>1. /\ UNCHANGED <<run, certs, listener, mishap>>
        /\ \A j \in Ingresses : j # i => store'[j] = store[j]
    BY <1>2, EditFields
  <2>2. PICK l \in DOMAIN queue' :
          /\ DOMAIN queue' = DOMAIN queue \cup {l} /\ queue'[l].old = store[i]
          /\ \A n \in DOMAIN queue : queue'[n] = queue[n]
    BY <1>2, EditFields
  <2>3. \A c : Needed(c) => Needed(c)' \/ Doomed(c)'
    BY <2>1, <2>2 DEF Needed, Doomed
  <2>4. \A c : (InUse(c) => InUse(c)') /\ (Doomed(c) => Doomed(c)')
    BY <2>1, <2>2 DEF InUse, Doomed, WorkerDooms, SyncDooms
  <2> QED
    BY <2>1, <2>3, <2>4 DEF NoneLeft
<1>3. CASE Take
  <2>1. /\ queue[1] \in Events /\ 1 \in DOMAIN queue
        /\ run'[Worker] = Begin(queue[1].key, queue[1].old, queue[1].new) /\ ~Busy(run[Worker])
        /\ UNCHANGED <<store, certs, listener, mishap>> /\ run'[Sync] = run[Sync]
        /\ \A n \in DOMAIN queue : n # 1 => n - 1 \in DOMAIN queue' /\ queue'[n - 1] = queue[n]
    BY <1>3, TakeFields
  <2>2. run'[Worker].call = "inspect" /\ run'[Worker].old = queue[1].old
    BY <2>1, BeginFields DEF Events
  <2>3. ASSUME NEW c, Doomed(c)
        PROVE  Doomed(c)'
    <3>1. ~WorkerDooms(run[Worker], c)
      BY <2>1 DEF Busy, WorkerDooms, Ahead, Before, Past
    <3>2. CASE SyncDooms(run[Sync], c)
      BY <2>1, <3>2 DEF Doomed, SyncDooms
    <3>3. ASSUME NEW n \in DOMAIN queue, c.secret \in Used(queue[n].old)
          PROVE  Doomed(c)'
      <4>1. CASE n = 1
        BY <2>2, <3>3, <4>1 DEF Doomed, WorkerDooms, Ahead, Before
      <4>2. CASE n # 1
        BY <2>1, <3>3, <4>2 DEF Doomed
      <4> QED
        BY <4>1, <4>2
    <3> QED
      BY <2>3, <3>1, <3>2, <3>3 DEF Doomed
  <2> QED
    BY <2>1, <2>3 DEF NoneLeft, Needed, InUse
<1>4. CASE Crash
  <2>1. /\ UNCHANGED <<store, certs, listener>>
        /\ mishap' = (mishap \cap {"left"}) \cup (IF Rest THEN {} ELSE {"left"})
    BY <1>4, CrashFields
  <2>2. Rest => \A c : ~Doomed(c)
    BY DEF Rest, At, Doomed, WorkerDooms, SyncDooms, Processes, Ahead, Before, Past
  <2> QED
    BY <2>1, <2>2 DEF NoneLeft, Needed, InUse
<1>5. CASE SyncLoop \/ OtherTick
    BY <1>1, <1>5, SyncFields
<1>6. CASE UNCHANGED vars \/ \E s \in Secrets : ChangeSecret(s)
    BY <1>1, <1>6 DEF vars, ChangeSecret
<1> QED
    BY <1>2, <1>3, <1>4, <1>5, <1>6, CallLeavesNone, Steps

\* NothingLeftOver of Certificates: at rest a certificate is of a secret that
\* an ingress uses, or in use by the listener, unless a call failed or was cut
\* short; whichever goroutine imported it, replaced it or listed it.
THEOREM NothingLeft == Spec => []NothingLeftOver
<1>1. Init => NoneLeft
    BY DEF Init, NoneLeft
<1>2. FollowInv /\ NoneLeft /\ [Next]_vars => NoneLeft'
    BY NoneLeftStep DEF FollowInv, Serving
<1>3. NoneLeft => NothingLeftOver
  <2> SUFFICES ASSUME NoneLeft, Rest, "left" \notin mishap, NEW c \in certs
               PROVE  InUse(c) \/ \E i \in TLS : c.secret \in Used(store[i])
    BY DEF NothingLeftOver
  <2>1. ~Doomed(c)
    BY DEF Rest, At, Doomed, WorkerDooms, SyncDooms, Processes, Ahead, Before, Past
  <2> QED
    BY <2>1 DEF NoneLeft, Needed, TLS, HasTLS
<1> QED
    BY <1>1, <1>2, <1>3, AlwaysFollowing, PTL DEF Spec
=============================================================================
