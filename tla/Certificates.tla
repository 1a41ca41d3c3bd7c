---------------------------- MODULE Certificates ----------------------------
(***************************************************************************)
(* TLS secrets, the certificates made of them, the HTTPS listener that     *)
(* uses them and the tracker that notices changed secrets                  *)
(* (src/pkg/ingress/controller/secretTracker.go, controller.go:259-264,    *)
(* 749-765, 944-982, 1014-1036, 1115-1131, 1287-1347).                     *)
(*                                                                         *)
(* An ingress is the sequence of the secrets its spec.tls names, each with *)
(* a host; all ingresses are on one load balancer.  A secret is its        *)
(* resource version, which stands for its contents too.  The certificates  *)
(* of a secret carry its version in their name; who imported it tells two  *)
(* of one name apart.  The informer delivers each version at once:         *)
(* IngressController has the delays.  What ensureIngress does besides is   *)
(* left out, and so is the content of a secret that is no certificate.     *)
(***************************************************************************)
EXTENDS Naturals, Sequences, FiniteSets

CONSTANTS
    Ingresses,   \* the namespaced names of Ingress objects
    Secrets,     \* the secrets of their namespace
    Specs,       \* what the users write: sequences of secrets
    None,        \* nothing there
    Absent,      \* an ingress that does not exist
    Stores,      \* what may be stored when the controller starts
    Limit,       \* how often each kind of outside event may happen
    Total        \* and how many of them together

Worker == "worker"
Sync   == "sync"
Processes == {Worker, Sync}

Kinds == {"edit", "secret", "trouble"}
Reasons == {"lost", "stale", "left"}

Ingress  == Specs \cup {Absent}
Cert     == [secret : Secrets, version : Nat, content : Nat, by : Processes]
Listener == [default : Cert, others : SUBSET Cert]

ASSUME NoneAssumption == None \notin Listener /\ None \notin Nat

ASSUME IngressesAssumption == IsFiniteSet(Ingresses)

ASSUME SpecsAssumption == Specs \subseteq Seq(Secrets) /\ Absent \notin Specs

ASSUME StoresAssumption == Stores \subseteq [Ingresses -> Ingress]

ASSUME LimitAssumption == Limit \in [Kinds -> Nat] /\ Total \in Nat

VARIABLES
    store,       \* the ingresses at the API server
    secret,      \* the version of each secret, None for one that is not there
    queue,       \* c.queue
    run,         \* where each goroutine is
    tracker,     \* c.SecretTrackers: the version of each tracked secret, or None
    todo,        \* nodeSyncLoop's remaining ings.Items
    certs,       \* the certificates of the project
    listener,    \* the HTTPS listener: its default and its other certificates
    mishap,      \* history: what happened that excuses a property
    spent        \* how many outside events of each kind happened

vars == <<store, secret, queue, run, tracker, todo, certs, listener, mishap, spent>>

-----------------------------------------------------------------------------
\* The secrets of an ingress
Used(spec) == IF spec = Absent THEN {} ELSE {spec[k] : k \in DOMAIN spec}

HasTLS(spec) == Used(spec) # {}

\* lc.InUse: the listener refers to the certificate.
InUse(c) == listener # None /\ c \in {listener.default} \cup listener.others

\* Mutant: a certificate of any version of the secret will do.
NamedOfAny(s, v) == {c \in certs : c.secret = s}

\* c.Name + c.Version is the name of the certificate.
Named(s, v) == {c \in certs : c.secret = s /\ c.version = v}

Calls == {"idle", "list", "next", "inspect", "track", "certs", "import", "find",
          "create", "update", "pruneOld", "pruneNew", "deleteOld", "deleteNew"}

\* versions: of the secrets as inspectIngress read them; uuid: the
\* certificates found or imported; doomed: what is to be deleted.
Nothing == [s \in Secrets |-> None]
Idle == [call |-> "idle", key |-> None, old |-> Absent, new |-> Absent,
         versions |-> Nothing, uuid |-> Nothing, doomed |-> {}]

Begin(i, old, new) ==
    [Idle EXCEPT !.call = "inspect", !.key = i, !.old = old, !.new = new]

Return(p) == IF p = Worker THEN Idle ELSE [Idle EXCEPT !.call = "next"]

Busy(r) == r.call \notin {"idle", "list", "next"}

Goto(p, r) == run' = [run EXCEPT ![p] = r]
At(p, call) == run[p].call = call
Then(p, call) == Goto(p, [run[p] EXCEPT !.call = call])

\* The certificate the listener is to have as its default, certArr[0].
Default(r) == r.uuid[Head(r.new)]

Event(i, old, new) == [key |-> i, old |-> old, new |-> new]

Spend(kind) ==
    /\ spent[kind] < Limit[kind]
    /\ spent["edit"] + spent["secret"] + spent["trouble"] < Total
    /\ spent' = [spent EXCEPT ![kind] = @ + 1]

Mark(why, if) == mishap' = mishap \cup (IF if THEN why ELSE {})

\* The informer lists what is stored: a create for each, in any order.
Listed(stored) ==
    LET is == {i \in Ingresses : stored[i] # Absent}
        orders == {order \in [1 .. Cardinality(is) -> is] :
                      \A i \in is : \E j \in DOMAIN order : order[j] = i}
    IN  {[j \in DOMAIN order |-> Event(order[j], Absent, stored[order[j]])] : order \in orders}

Init ==
    /\ store \in Stores
    /\ secret = [s \in Secrets |-> 0]
    /\ queue \in Listed(store)
    /\ run = [p \in Processes |-> Idle]
    /\ tracker = Nothing
    /\ todo = {}
    /\ certs = {}
    /\ listener = None
    /\ mishap = {}
    /\ spent = [kind \in Kinds |-> 0]

-----------------------------------------------------------------------------
(* The users, and the worker's queue.                                      *)

Edit(i) ==
    /\ Spend("edit")
    /\ \E new \in Ingress \ {store[i]} :
        /\ store' = [store EXCEPT ![i] = new]
        /\ queue' = Append(queue, Event(i, store[i], new))
    /\ UNCHANGED <<secret, run, tracker, todo, certs, listener, mishap>>

\* A user deletes a secret, or creates it or writes another certificate to it.
ChangeSecret(s) ==
    /\ Spend("secret")
    /\ \E v \in {None, spent["secret"] + 1} :
        /\ v # secret[s]
        /\ secret' = [secret EXCEPT ![s] = v]
    /\ UNCHANGED <<store, queue, run, tracker, todo, certs, listener, mishap>>

Take ==
    /\ At(Worker, "idle")
    /\ queue # <<>>
    /\ LET e == Head(queue) IN Goto(Worker, Begin(e.key, e.old, e.new))
    /\ queue' = Tail(queue)
    /\ UNCHANGED <<store, secret, tracker, todo, certs, listener, mishap, spent>>

-----------------------------------------------------------------------------
(* One ensureIngress or deleteIngress.                                     *)

\* inspectIngress of the old and of the new object reads their secrets.
Inspect(p) ==
    /\ At(p, "inspect")
    /\ LET r == run[p]
           used == Used(r.old) \cup Used(r.new)
       IN  /\ \A s \in used : secret[s] # None
           /\ Goto(p, [r EXCEPT !.call = "track",
                !.versions = [s \in Secrets |-> IF s \in used THEN secret[s] ELSE None]])
    /\ UNCHANGED <<store, secret, queue, tracker, todo, certs, listener, mishap, spent>>

\* Mutants: the new secrets are added before the old ones are removed; a
\* tracker that is there keeps its version.
TrackersAddedFirst(r) ==
    [s \in Secrets |-> CASE s \in Used(r.old) -> None
                         [] s \in Used(r.new) -> r.versions[s]
                         [] OTHER -> tracker[s]]
TrackersKept(r) ==
    [s \in Secrets |-> CASE tracker[s] = None /\ s \in Used(r.new) -> r.versions[s]
                         [] s \in Used(r.old) \ Used(r.new) -> None
                         [] OTHER -> tracker[s]]

\* RemoveSecretTracker for the old secrets, then AddSecretTracker for the new.
Trackers(r) ==
    [s \in Secrets |-> CASE s \in Used(r.new) -> r.versions[s]
                         [] s \in Used(r.old) \ Used(r.new) -> None
                         [] OTHER -> tracker[s]]

\* The trackers have the new versions before there are certificates of them.
\* A secret another ingress uses as well is tracked no more; and a listener
\* that has the default certificate of an ingress without TLS now keeps it.
Track(p) ==
    /\ At(p, "track")
    /\ LET r == run[p]
           untracked == \E i \in Ingresses \ {r.key} :
                            (Used(r.old) \ Used(r.new)) \cap Used(store[i]) # {}
           orphaned  == /\ ~HasTLS(r.new) /\ listener # None
                        /\ listener.default.secret \in Used(r.old)
       IN  /\ tracker' = Trackers(r)
           /\ mishap' = mishap \cup (IF untracked THEN {"lost"} ELSE {})
                               \cup (IF orphaned THEN {"stale", "left"} ELSE {})
           /\ Then(p, "certs")
    /\ UNCHANGED <<store, secret, queue, todo, certs, listener, spent>>

Missing(r) == {s \in Used(r.new) : r.uuid[s] = None}

\* Mutant: only the certificates of the new object are looked at.
PruneNewOnly(r) == "pruneNew"

\* A list of redundant certificates is of no use to an object without secrets.
AfterListener(r) == IF Used(r.old) # {} THEN "pruneOld" ELSE "pruneNew"

\* What the listener needed is not looked at again.
Prune(r) == [r EXCEPT !.call = AfterListener(r), !.uuid = Nothing]

\* Mutant: the listener is ensured after the first import.
ImportedOne(r) == [r EXCEPT !.call = IF HasTLS(r.new) THEN "find" ELSE AfterListener(r)]

\* The next call: a secret without a certificate is imported first.
Imported(r) ==
    CASE Missing(r) # {} -> [r EXCEPT !.call = "import"]
      [] Missing(r) = {} /\ HasTLS(r.new) -> [r EXCEPT !.call = "find"]
      [] OTHER -> Prune(r)

\* EnsureCertificate: the list decides which certificates are imported.
ListCertificate(p) ==
    /\ At(p, "certs")
    /\ \E uuid \in [Secrets -> certs \cup {None}] :
        /\ \A s \in Secrets :
             LET named == IF s \in Used(run[p].new) THEN Named(s, run[p].versions[s]) ELSE {}
             IN  IF named = {} THEN uuid[s] = None ELSE uuid[s] \in named
        /\ Goto(p, Imported([run[p] EXCEPT !.uuid = uuid]))
    /\ UNCHANGED <<store, secret, queue, tracker, todo, certs, listener, mishap, spent>>

\* toVngCloudCertificate reads the secret again, which may be newer than the
\* version in the certificate's name.
ImportCertificate(p) ==
    /\ At(p, "import")
    /\ \E s \in Missing(run[p]) :
        LET c == [secret |-> s, version |-> run[p].versions[s], content |-> secret[s], by |-> p]
        IN  /\ secret[s] # None
            /\ certs' = certs \cup {c}
            /\ Goto(p, Imported([run[p] EXCEPT !.uuid[s] = c]))
    /\ UNCHANGED <<store, secret, queue, tracker, todo, listener, mishap, spent>>

-----------------------------------------------------------------------------
(* ensureListener of the HTTPS listener.                                   *)

FindListener(p) ==
    /\ At(p, "find")
    /\ CASE listener = None -> Then(p, "create")
         [] listener # None /\ listener.default # Default(run[p]) -> Then(p, "update")
         [] OTHER -> Goto(p, Prune(run[p]))
    /\ UNCHANGED <<store, secret, queue, tracker, todo, certs, listener, mishap, spent>>

\* The certificate to attach, or the object it is for, is not the last one.
Outdated(p) ==
    LET c == Default(run[p])
    IN  \/ tracker[c.secret] # None /\ tracker[c.secret] > c.version
        \/ p = Sync /\ run[p].new # store[run[p].key]

\* The listener that was created is found and compared again.
CreateListener(p) ==
    /\ At(p, "create")
    /\ listener = None
    /\ LET attached == {run[p].uuid[s] : s \in Used(run[p].new)}
       IN  /\ attached \subseteq certs
           /\ listener' = [default |-> Default(run[p]), others |-> attached]
    /\ Mark({"stale", "left"}, Outdated(p))
    /\ Then(p, "find")
    /\ UNCHANGED <<store, secret, queue, tracker, todo, certs, spent>>

\* Only the default certificate is updated, not the others.
UpdateListener(p) ==
    /\ At(p, "update")
    /\ Default(run[p]) \in certs
    /\ listener' = [listener EXCEPT !.default = Default(run[p])]
    /\ Mark({"stale", "left"}, Outdated(p))
    /\ Goto(p, Prune(run[p]))
    /\ UNCHANGED <<store, secret, queue, tracker, todo, certs, spent>>

-----------------------------------------------------------------------------
(* DeleteRedundantCertificate of the old object, then of the new one.      *)

\* The certificates whose names begin like those of the secrets.
Redundant(used) == {c \in certs : c.secret \in used /\ ~InUse(c)}

\* The second list follows the last deletion of the first.
Deleting(p, r) ==
    CASE r.doomed # {} -> r
      [] r.doomed = {} /\ r.call = "deleteOld" -> [r EXCEPT !.call = "pruneNew"]
      [] OTHER -> Return(p)

ListRedundant(p) ==
    /\ \/ /\ At(p, "pruneOld")
          /\ Goto(p, Deleting(p, [run[p] EXCEPT !.call = "deleteOld",
                                    !.doomed = Redundant(Used(run[p].old))]))
       \/ /\ At(p, "pruneNew")
          /\ Goto(p, Deleting(p, [run[p] EXCEPT !.call = "deleteNew",
                                    !.doomed = Redundant(Used(run[p].new))]))
    /\ UNCHANGED <<store, secret, queue, tracker, todo, certs, listener, mishap, spent>>

\* vLB does not delete what came into use since; the error is only logged.
DeleteCertificate(p) ==
    /\ At(p, "deleteOld") \/ At(p, "deleteNew")
    /\ \E c \in run[p].doomed :
        /\ Goto(p, Deleting(p, [run[p] EXCEPT !.doomed = @ \ {c}]))
        /\ certs' = IF InUse(c) THEN certs ELSE certs \ {c}
    /\ UNCHANGED <<store, secret, queue, tracker, todo, listener, mishap, spent>>

-----------------------------------------------------------------------------
(* Failures.                                                               *)

\* ensureIngress returns an error: nothing is tried again, whatever was
\* tracked or imported before.
Fail(p) ==
    /\ Goto(p, Return(p))
    /\ mishap' = mishap \cup {"lost", "left"}
    /\ UNCHANGED <<store, secret, queue, tracker, todo, certs, listener>>

\* A secret of the old or of the new object is gone.
SecretMissing(p) ==
    /\ \/ At(p, "inspect") /\ \E s \in Used(run[p].old) \cup Used(run[p].new) : secret[s] = None
       \/ At(p, "import") /\ \E s \in Missing(run[p]) : secret[s] = None
    /\ Fail(p)
    /\ UNCHANGED spent

\* vLB refuses a second listener of the port, and a certificate that the
\* other goroutine deleted before it came into use.
Refused(p) ==
    /\ \/ At(p, "create") /\ (listener # None \/ \E s \in Used(run[p].new) : run[p].uuid[s] \notin certs)
       \/ At(p, "update") /\ Default(run[p]) \notin certs
    /\ Fail(p)
    /\ UNCHANGED spent

CallFails(p) ==
    /\ run[p].call \in {"inspect", "import", "find", "create", "update"}
    /\ Spend("trouble")
    /\ Fail(p)

\* The error of ListCertificate is dropped: every certificate is imported
\* again, or none is deleted.
ListFails(p) ==
    /\ Spend("trouble")
    /\ CASE At(p, "certs") -> Goto(p, Imported(run[p]))
         [] At(p, "pruneOld") -> Then(p, "pruneNew")
         [] At(p, "pruneNew") -> Goto(p, Return(p))
         [] OTHER -> FALSE
    /\ Mark({"left"}, ~At(p, "certs"))
    /\ UNCHANGED <<store, secret, queue, tracker, todo, certs, listener>>

\* The error of DeleteCertificate is only logged.
DeleteFails(p) ==
    /\ At(p, "deleteOld") \/ At(p, "deleteNew")
    /\ Spend("trouble")
    /\ \E c \in run[p].doomed : Goto(p, Deleting(p, [run[p] EXCEPT !.doomed = @ \ {c}]))
    /\ Mark({"left"}, TRUE)
    /\ UNCHANGED <<store, secret, queue, tracker, todo, certs, listener>>

-----------------------------------------------------------------------------
(* nodeSyncLoop.                                                           *)

\* CheckSecretTrackerChange: a tracked secret has another version, or cannot
\* be read.
Changed == \E s \in Secrets : tracker[s] # None /\ secret[s] # tracker[s]

\* Nothing is under way and nothing is due.
Rest == queue = <<>> /\ (\A p \in Processes : At(p, "idle")) /\ ~Changed

StartPass ==
    /\ At(Sync, "idle")
    /\ Goto(Sync, [Idle EXCEPT !.call = "list"])
    /\ UNCHANGED <<store, secret, queue, tracker, todo, certs, listener, mishap>>

SecretTick == Changed /\ StartPass /\ UNCHANGED spent

\* The nodes changed, or the default pool asks for a pass.
OtherTick == Spend("trouble") /\ StartPass

ListIngresses ==
    /\ At(Sync, "list")
    /\ todo' = {<<i, store[i]>> : i \in {j \in Ingresses : store[j] # Absent}}
    /\ Goto(Sync, [Idle EXCEPT !.call = "next"])
    /\ UNCHANGED <<store, secret, queue, tracker, certs, listener, mishap, spent>>

SyncNext ==
    /\ At(Sync, "next")
    /\ \E t \in todo :
        /\ todo' = todo \ {t}
        /\ Goto(Sync, Begin(t[1], Absent, t[2]))
    /\ UNCHANGED <<store, secret, queue, tracker, certs, listener, mishap, spent>>

EndPass ==
    /\ At(Sync, "next")
    /\ todo = {}
    /\ Goto(Sync, Idle)
    /\ UNCHANGED <<store, secret, queue, tracker, todo, certs, listener, mishap, spent>>

-----------------------------------------------------------------------------
\* The process ends and starts again: trackers, queue and stacks are lost,
\* and the informer lists every ingress anew.  Each is ensured again, which
\* repairs what went wrong before, but for certificates left behind.
Crash ==
    /\ Spend("trouble")
    /\ queue' \in Listed(store)
    /\ run' = [p \in Processes |-> Idle]
    /\ tracker' = Nothing
    /\ todo' = {}
    /\ mishap' = (mishap \cap {"left"}) \cup (IF Rest THEN {} ELSE {"left"})
    /\ UNCHANGED <<store, secret, certs, listener>>

-----------------------------------------------------------------------------
Call(p) ==
    \/ Inspect(p) \/ Track(p) \/ ListCertificate(p) \/ ImportCertificate(p)
    \/ FindListener(p) \/ CreateListener(p) \/ UpdateListener(p)
    \/ ListRedundant(p) \/ DeleteCertificate(p)
    \/ SecretMissing(p) \/ Refused(p)

SyncLoop == SecretTick \/ ListIngresses \/ SyncNext \/ EndPass

Next ==
    \/ \E i \in Ingresses : Edit(i)
    \/ \E s \in Secrets : ChangeSecret(s)
    \/ OtherTick \/ Crash
    \/ Take
    \/ SyncLoop
    \/ \E p \in Processes : Call(p) \/ CallFails(p) \/ ListFails(p) \/ DeleteFails(p)

\* The worker keeps taking events, the 60 second timer keeps firing, and a
\* goroutine that can make a call makes it.
Fairness ==
    /\ WF_vars(Take)
    /\ WF_vars(SyncLoop)
    /\ \A p \in Processes : WF_vars(Call(p))

Spec == Init /\ [][Next]_vars
FairSpec == Spec /\ Fairness

-----------------------------------------------------------------------------
(* Properties.                                                             *)

TLS == {i \in Ingresses : HasTLS(store[i])}

\* At rest the listener's default certificate is the one an ingress wants,
\* made of what its secret contains now: whatever the order of edits, new
\* versions, passes and restarts, and although the import may read a newer
\* secret than the one it is named after.  Excused: a call failed, a secret
\* two ingresses share was tracked no more, a goroutine attached a
\* certificate it had found earlier, or the ingress of the default is gone.
CertificateFollows ==
    Rest /\ {"lost", "stale"} \cap mishap = {} /\ TLS # {} =>
        /\ listener # None
        /\ \E i \in TLS : listener.default.secret = Head(store[i])
        /\ listener.default.content = secret[listener.default.secret]

\* At rest every secret of an ingress is tracked, or a change of it would
\* never be noticed: an update of an ingress that keeps a secret keeps its
\* tracker too.  Excused: a call failed, or a secret two ingresses share was
\* tracked no more.
SecretsTracked ==
    Rest /\ "lost" \notin mishap =>
        \A i \in TLS : \A s \in Used(store[i]) : tracker[s] # None

\* At rest a certificate of a secret no ingress uses is in use by the listener
\* or deleted: when an update gives up a secret its certificates go once the
\* listener has the others, whichever goroutine imported them.  It says nothing
\* of older versions of a secret that is still used.  Excused: a call failed, or a
\* restart cut an update short.
NothingLeftOver ==
    Rest /\ "left" \notin mishap =>
        \A c \in certs : InUse(c) \/ \E i \in TLS : c.secret \in Used(store[i])

\* Once the users stop the passes come to an end, unless a tracked secret is
\* gone: an import takes what is there, and tracks what it took.
PassesEnd == <>[]Rest \/ <>[](\E s \in Secrets : tracker[s] # None /\ secret[s] = None)

Run == [call : Calls, key : Ingresses \cup {None}, old : Ingress, new : Ingress,
        versions : [Secrets -> Nat \cup {None}], uuid : [Secrets -> Cert \cup {None}],
        doomed : SUBSET Cert]

\* Every variable has its type, and a goroutine that ensures the listener has
\* a certificate for each of the ingress's secrets.
TypeOK ==
    /\ store \in [Ingresses -> Ingress]
    /\ secret \in [Secrets -> Nat \cup {None}]
    /\ queue \in Seq([key : Ingresses, old : Ingress, new : Ingress])
    /\ run \in [Processes -> Run]
    /\ \A p \in Processes :
        /\ Busy(run[p]) => run[p].key \in Ingresses
        /\ run[p].call \in {"find", "create", "update"} => HasTLS(run[p].new) /\ Missing(run[p]) = {}
    /\ tracker \in [Secrets -> Nat \cup {None}]
    /\ todo \in SUBSET (Ingresses \X Ingress)
    /\ certs \in SUBSET Cert
    /\ listener \in Listener \cup {None}
    /\ mishap \in SUBSET Reasons
    /\ spent \in [Kinds -> Nat]

-----------------------------------------------------------------------------
(* What the documents promise and the code does not do.                    *)

\* src/test/test4.md:3, when the user updates the secret "a new certificate
\* will be created, the load balancer must update".  Violated: two ingresses
\* share a secret, and deleting one of them removes the tracker of both.
SecretIsFollowed ==
    Rest /\ listener # None =>
        \A i \in TLS :
            listener.default.secret = Head(store[i])
                => listener.default.content = secret[Head(store[i])]
=============================================================================
