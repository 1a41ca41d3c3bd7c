------------------------ MODULE EventDeliveryProofs ------------------------
(* EventDelivery keeps its promise, for all ingresses and all wishes.       *)
EXTENDS EventDelivery, TLAPS

(* What a queue looks like after Append and Tail. *)
LEMMA AppendFacts ==
    ASSUME NEW S, NEW s \in Seq(S), NEW e \in S
    PROVE  /\ Append(s, e) \in Seq(S)
           /\ Len(Append(s, e)) = Len(s) + 1
           /\ DOMAIN Append(s, e) = 1 .. Len(s) + 1
           /\ \A n \in DOMAIN s : Append(s, e)[n] = s[n]
           /\ Append(s, e)[Len(s) + 1] = e
  OBVIOUS

(* Taking the first entry shifts the others by one. *)
LEMMA TailFacts ==
    ASSUME NEW S, NEW s \in Seq(S), s # <<>>
    PROVE  /\ Tail(s) \in Seq(S)
           /\ Head(s) \in S
           /\ 1 \in DOMAIN s
           /\ Head(s) = s[1]
           /\ Len(Tail(s)) = Len(s) - 1
           /\ DOMAIN Tail(s) = 1 .. Len(s) - 1
           /\ \A n \in DOMAIN Tail(s) : n + 1 \in DOMAIN s /\ Tail(s)[n] = s[n + 1]
           /\ \A n \in DOMAIN s : n # 1 => n - 1 \in DOMAIN Tail(s) /\ Tail(s)[n - 1] = s[n]
  OBVIOUS

(* Every action keeps the types. *)
LEMMA TypesStep == TypeOK /\ [Next]_vars => TypeOK'
  <1> SUFFICES ASSUME TypeOK, [Next]_vars PROVE TypeOK'
    OBVIOUS
  <1>1. CASE UNCHANGED vars
    BY <1>1 DEF vars, TypeOK
  <1>2. ASSUME NEW i \in Ingresses, Want(i) PROVE TypeOK'
    BY <1>2 DEF Want, TypeOK
  <1>3. ASSUME NEW i \in Ingresses, Notice(i) PROVE TypeOK'
    <2>1. [key |-> i, spec |-> wanted[i]] \in Entry
      BY DEF TypeOK, Entry
    <2>2. todo' \in Seq(Entry)
      BY <1>3, <2>1, AppendFacts DEF Notice, TypeOK
    <2> QED
      BY <1>3, <2>2 DEF Notice, TypeOK
  <1>4. ASSUME NEW i \in Ingresses, CallFails(i) PROVE TypeOK'
    BY <1>4 DEF CallFails, TypeOK
  <1>5. CASE Start
    BY <1>5, TailFacts DEF Start, TypeOK
  <1>6. CASE Finish
    BY <1>6 DEF Finish, TypeOK, Entry
  <1>7. CASE Drop
    BY <1>7 DEF Drop, TypeOK, Entry
  <1>8. CASE Restart
    BY <1>8 DEF Restart, TypeOK
  <1> QED
    BY <1>1, <1>2, <1>3, <1>4, <1>5, <1>6, <1>7, <1>8 DEF Next

(* The last entry of an ingress stays what was noticed last. *)
LEMMA LastEntryStep == DeliveryInv /\ [Next]_vars => LastEntry'
  <1> SUFFICES ASSUME DeliveryInv, [Next]_vars PROVE LastEntry'
    OBVIOUS
  <1> USE DEF DeliveryInv
  <1>1. ASSUME UNCHANGED <<todo, noticed>> PROVE LastEntry'
    BY <1>1 DEF LastEntry
  <1>2. ASSUME NEW i \in Ingresses, Notice(i) PROVE LastEntry'
    <2>1. CASE noticed[i] = wanted[i]
      <3>1. todo' = todo /\ noticed' = noticed
        BY <1>2, <2>1 DEF Notice, TypeOK
      <3> QED
        BY <3>1, <1>1
    <2>2. CASE noticed[i] # wanted[i]
      <3> DEFINE e == [key |-> i, spec |-> wanted[i]]
      <3>1. e \in Entry /\ e.key = i /\ e.spec = wanted[i]
        BY DEF TypeOK, Entry
      <3>2. todo' = Append(todo, e)
        BY <1>2, <2>2 DEF Notice
      <3>3. noticed'[i] = wanted[i] /\ \A j \in Ingresses : j # i => noticed'[j] = noticed[j]
        BY <1>2 DEF Notice, TypeOK
      <3> HIDE DEF e
      <3>4. /\ Len(todo') = Len(todo) + 1
            /\ DOMAIN todo' = 1 .. Len(todo) + 1
            /\ \A n \in DOMAIN todo : todo'[n] = todo[n]
            /\ todo'[Len(todo) + 1] = e
        BY <3>1, <3>2, AppendFacts DEF TypeOK
      <3>5. Len(todo) \in Nat /\ DOMAIN todo = 1 .. Len(todo)
        BY DEF TypeOK
      <3> SUFFICES ASSUME NEW n \in DOMAIN todo',
                          \A l \in n + 1 .. Len(todo') : todo'[l].key # todo'[n].key
                   PROVE  todo'[n].spec = noticed'[todo'[n].key]
        BY DEF LastEntry
      <3>6. CASE n = Len(todo) + 1
        BY <3>6, <3>4, <3>1, <3>3
      <3>7. CASE n # Len(todo) + 1
        <4>0. n \in DOMAIN todo
          BY <3>7, <3>4, <3>5
        <4>1. n \in DOMAIN todo /\ todo'[n] = todo[n] /\ todo[n].key \in Ingresses
          <5>1. todo \in Seq(Entry) /\ todo[n] \in Entry
            BY <4>0 DEF TypeOK
          <5>2. todo'[n] = todo[n]
            BY <4>0, <3>4
          <5> QED
            BY <4>0, <5>1, <5>2 DEF Entry
        <4>2. todo[n].key # i
          BY <4>1, <3>4, <3>5, <3>1
        <4>3. \A l \in n + 1 .. Len(todo) : todo[l].key # todo[n].key
          BY <4>1, <3>4, <3>5
        <4> QED
          BY <4>1, <4>2, <4>3, <3>3 DEF LastEntry
      <3> QED
        BY <3>6, <3>7
    <2> QED
      BY <2>1, <2>2
  <1>3. CASE Start
    <2>1. /\ todo' = Tail(todo) /\ todo # <<>> /\ noticed' = noticed
          /\ todo \in Seq(Entry)
      BY <1>3 DEF Start, TypeOK
    <2>2. /\ Len(todo') = Len(todo) - 1
          /\ DOMAIN todo' = 1 .. Len(todo) - 1
          /\ \A n \in DOMAIN todo' : n + 1 \in DOMAIN todo /\ todo'[n] = todo[n + 1]
          /\ Len(todo) \in Nat
      BY <2>1, TailFacts
    <2> SUFFICES ASSUME NEW n \in DOMAIN todo',
                        \A l \in n + 1 .. Len(todo') : todo'[l].key # todo'[n].key
                 PROVE  todo'[n].spec = noticed'[todo'[n].key]
      BY DEF LastEntry
    <2>3. n \in Nat /\ n + 1 \in DOMAIN todo /\ todo'[n] = todo[n + 1]
      BY <2>2
    <2>4. ASSUME NEW l \in (n + 1) + 1 .. Len(todo) PROVE todo[l].key # todo[n + 1].key
      <3>1. l - 1 \in n + 1 .. Len(todo') /\ l - 1 \in DOMAIN todo' /\ (l - 1) + 1 = l
        BY <2>2, <2>3
      <3>2. todo'[l - 1] = todo[l]
        BY <3>1, <2>2
      <3> QED
        BY <3>1, <3>2, <2>3
    <2> QED
      BY <2>1, <2>3, <2>4 DEF LastEntry
  <1>4. CASE Restart
    BY <1>4 DEF Restart, LastEntry
  <1>5. CASE UNCHANGED vars
    BY <1>5, <1>1 DEF vars
  <1>6. ASSUME NEW i \in Ingresses, Want(i) \/ CallFails(i) PROVE LastEntry'
    BY <1>6, <1>1 DEF Want, CallFails
  <1>7. CASE Finish \/ Drop
    BY <1>7, <1>1 DEF Finish, Drop
  <1> QED
    BY <1>2, <1>3, <1>4, <1>5, <1>6, <1>7 DEF Next

(* What is being applied is what was noticed last, unless more is waiting. *)
LEMMA LastDoingStep == DeliveryInv /\ [Next]_vars => LastDoing'
  <1> SUFFICES ASSUME DeliveryInv, [Next]_vars PROVE LastDoing'
    OBVIOUS
  <1> USE DEF DeliveryInv
  <1>1. ASSUME UNCHANGED <<doing, todo, noticed>> PROVE LastDoing'
    BY <1>1 DEF LastDoing
  <1>2. ASSUME doing' = {} PROVE LastDoing'
    BY <1>2 DEF LastDoing
  <1>3. ASSUME NEW i \in Ingresses, Notice(i) PROVE LastDoing'
    <2>1. CASE noticed[i] = wanted[i]
      <3>1. todo' = todo /\ noticed' = noticed /\ doing' = doing
        BY <1>3, <2>1 DEF Notice, TypeOK
      <3> QED
        BY <3>1, <1>1
    <2>2. CASE noticed[i] # wanted[i]
      <3> DEFINE e == [key |-> i, spec |-> wanted[i]]
      <3>1. e \in Entry /\ e.key = i
        BY DEF TypeOK, Entry
      <3>2. todo' = Append(todo, e) /\ doing' = doing
        BY <1>3, <2>2 DEF Notice
      <3>3. \A j \in Ingresses : j # i => noticed'[j] = noticed[j]
        BY <1>3 DEF Notice, TypeOK
      <3> HIDE DEF e
      <3>4. /\ DOMAIN todo' = 1 .. Len(todo) + 1
            /\ \A n \in DOMAIN todo : n \in DOMAIN todo' /\ todo'[n] = todo[n]
            /\ Len(todo) + 1 \in DOMAIN todo' /\ todo'[Len(todo) + 1] = e
        BY <3>1, <3>2, AppendFacts DEF TypeOK
      <3>5. ASSUME NEW f \in doing', \A n \in DOMAIN todo' : todo'[n].key # f.key
            PROVE  f.spec = noticed'[f.key]
        <4>1. f \in doing /\ f.key \in Ingresses /\ f.key # i
          BY <3>2, <3>4, <3>5, <3>1 DEF TypeOK, Entry
        <4>2. \A n \in DOMAIN todo : todo[n].key # f.key
          BY <3>4, <3>5
        <4> QED
          BY <4>1, <4>2, <3>3 DEF LastDoing
      <3> QED
        BY <3>2, <3>5 DEF LastDoing
    <2> QED
      BY <2>1, <2>2
  <1>4. CASE Start
    <2>1. /\ doing' = {Head(todo)} /\ todo' = Tail(todo) /\ todo # <<>> /\ noticed' = noticed
          /\ todo \in Seq(Entry)
      BY <1>4 DEF Start, TypeOK
    <2>2. /\ 1 \in DOMAIN todo /\ Head(todo) = todo[1]
          /\ \A n \in DOMAIN todo : n # 1 => n - 1 \in DOMAIN todo' /\ todo'[n - 1] = todo[n]
          /\ DOMAIN todo = 1 .. Len(todo) /\ Len(todo) \in Nat
      BY <2>1, TailFacts
    <2>3. ASSUME \A n \in DOMAIN todo' : todo'[n].key # todo[1].key
          PROVE  todo[1].spec = noticed[todo[1].key]
      <3>1. \A l \in 1 + 1 .. Len(todo) : todo[l].key # todo[1].key
        BY <2>2, <2>3
      <3> QED
        BY <3>1, <2>2 DEF LastEntry
    <2> QED
      BY <2>1, <2>2, <2>3 DEF LastDoing
  <1>5. CASE UNCHANGED vars
    BY <1>5, <1>1 DEF vars
  <1>6. ASSUME NEW i \in Ingresses, Want(i) \/ CallFails(i) PROVE LastDoing'
    BY <1>6, <1>1 DEF Want, CallFails
  <1>7. CASE Finish \/ Drop \/ Restart
    BY <1>7, <1>2 DEF Finish, Drop, Restart
  <1> QED
    BY <1>3, <1>4, <1>5, <1>6, <1>7 DEF Next

(* Only ingresses the informer holds were noticed. *)
LEMMA UnheardStep == DeliveryInv /\ [Next]_vars => Unheard'
  <1> SUFFICES ASSUME DeliveryInv, [Next]_vars PROVE Unheard'
    OBVIOUS
  <1> USE DEF DeliveryInv
  <1>1. ASSUME UNCHANGED <<heard, noticed>> PROVE Unheard'
    BY <1>1 DEF Unheard
  <1>2. ASSUME NEW i \in Ingresses, Notice(i) PROVE Unheard'
    BY <1>2 DEF Notice, Unheard, TypeOK
  <1>3. CASE Restart
    BY <1>3 DEF Restart, Unheard
  <1>4. ASSUME NEW i \in Ingresses, Want(i) \/ CallFails(i) PROVE Unheard'
    BY <1>4, <1>1 DEF Want, CallFails
  <1>5. CASE Start \/ Finish \/ Drop \/ UNCHANGED vars
    BY <1>5, <1>1 DEF Start, Finish, Drop, vars
  <1> QED
    BY <1>2, <1>3, <1>4, <1>5 DEF Next
(* An ingress of which nothing waits is applied as noticed. *)
LEMMA SettledStep == DeliveryInv /\ [Next]_vars => Settled'
  <1> SUFFICES ASSUME DeliveryInv, [Next]_vars PROVE Settled'
    OBVIOUS
  <1> USE DEF DeliveryInv
  <1>1. ASSUME UNCHANGED <<todo, doing, applied, noticed, heard, wanted>>,
               excused \subseteq excused', missed \subseteq missed'
        PROVE  Settled'
    BY <1>1 DEF Settled, Reflected, Pending
  <1>2. ASSUME NEW i \in Ingresses, Want(i) PROVE Settled'
    <2> SUFFICES ASSUME NEW j \in Ingresses, ~Pending(j)', j \notin excused'
                 PROVE  Reflected(j)'
      BY DEF Settled
    <2>1. PICK w \in Wishes \cup {None} :
            /\ wanted' = [wanted EXCEPT ![i] = w]
            /\ missed' = missed \cup IF i \notin heard /\ w = None THEN {i} ELSE {}
      BY <1>2 DEF Want
    <2>2. ~Pending(j) /\ j \notin excused /\ applied' = applied /\ noticed' = noticed /\ heard' = heard
      BY <1>2, <2>1 DEF Want, Pending
    <2>3. Reflected(j)
      BY <2>2 DEF Settled
    <2>4. CASE j = i
      BY <2>1, <2>2, <2>3, <2>4 DEF TypeOK, Reflected, Unheard
    <2>5. CASE j # i
      BY <2>1, <2>2, <2>3, <2>5 DEF TypeOK, Reflected
    <2> QED
      BY <2>4, <2>5
  <1>3. ASSUME NEW i \in Ingresses, Notice(i) PROVE Settled'
    <2> SUFFICES ASSUME NEW j \in Ingresses, ~Pending(j)', j \notin excused'
                 PROVE  Reflected(j)'
      BY DEF Settled
    <2>0. /\ doing' = doing /\ applied' = applied /\ wanted' = wanted /\ UNCHANGED <<excused, missed>>
          /\ noticed' = [noticed EXCEPT ![i] = wanted[i]]
          /\ j # i => (j \in heard' <=> j \in heard)
      BY <1>3 DEF Notice
    <2>1. CASE noticed[i] = wanted[i]
      <3>1. todo' = todo
        BY <1>3, <2>1 DEF Notice
      <3>2. ~Pending(j)
        BY <2>0, <3>1 DEF Pending
      <3>3. Reflected(j)
        BY <3>2, <2>0 DEF Settled
      <3>4. CASE j = i
        BY <3>3, <3>4, <2>0, <2>1 DEF Unheard, TypeOK, Reflected
      <3>5. CASE j # i
        BY <3>3, <3>5, <2>0 DEF TypeOK, Reflected
      <3> QED
        BY <3>4, <3>5
    <2>2. CASE noticed[i] # wanted[i]
      <3> DEFINE e == [key |-> i, spec |-> wanted[i]]
      <3>1. e \in Entry /\ e.key = i
        BY DEF TypeOK, Entry
      <3>2. todo' = Append(todo, e)
        BY <1>3, <2>2 DEF Notice
      <3> HIDE DEF e
      <3>3. /\ \A n \in DOMAIN todo : n \in DOMAIN todo' /\ todo'[n] = todo[n]
            /\ Len(todo) + 1 \in DOMAIN todo' /\ todo'[Len(todo) + 1] = e
        BY <3>1, <3>2, AppendFacts DEF TypeOK
      <3>4. j # i /\ ~Pending(j)
        BY <3>1, <3>3, <2>0 DEF Pending
      <3> QED
        BY <3>4, <2>0 DEF Settled, Reflected, TypeOK
    <2> QED
      BY <2>1, <2>2
  <1>4. CASE Start
    <2> SUFFICES ASSUME NEW j \in Ingresses, ~Pending(j)', j \notin excused'
                 PROVE  Reflected(j)'
      BY DEF Settled
    <2>1. /\ doing = {} /\ doing' = {Head(todo)} /\ todo' = Tail(todo) /\ todo # <<>>
          /\ todo \in Seq(Entry)
          /\ UNCHANGED <<noticed, applied, wanted, heard, excused, missed>>
      BY <1>4 DEF Start, TypeOK
    <2>2. /\ Head(todo) = todo[1]
          /\ \A n \in DOMAIN todo : n # 1 => n - 1 \in DOMAIN todo' /\ todo'[n - 1] = todo[n]
      BY <2>1, TailFacts
    <2>3. ~Pending(j)
      BY <2>1, <2>2 DEF Pending
    <2> QED
      BY <2>1, <2>3 DEF Settled, Reflected
  <1>5. CASE Finish
    <2> SUFFICES ASSUME NEW j \in Ingresses, ~Pending(j)', j \notin excused'
                 PROVE  Reflected(j)'
      BY DEF Settled
    <2>1. PICK e \in doing : applied' = [applied EXCEPT ![e.key] = e.spec]
      BY <1>5 DEF Finish
    <2>2. UNCHANGED <<wanted, heard, noticed, todo, excused, missed>>
      BY <1>5 DEF Finish
    <2>3. e.key \in Ingresses /\ \A f \in doing : f = e
      BY <2>1 DEF TypeOK, Entry, LastDoing
    <2>4. CASE j = e.key
      <3>1. \A n \in DOMAIN todo : todo[n].key # e.key
        BY <2>2, <2>4 DEF Pending
      <3>2. e.spec = noticed[j]
        BY <3>1, <2>4 DEF LastDoing
      <3> QED
        BY <3>2, <2>1, <2>2, <2>3, <2>4 DEF Reflected, TypeOK
    <2>5. CASE j # e.key
      <3>1. ~Pending(j)
        BY <2>2, <2>3, <2>5 DEF Pending
      <3> QED
        BY <3>1, <2>1, <2>2, <2>3, <2>5 DEF Settled, Reflected, TypeOK
    <2> QED
      BY <2>4, <2>5
  <1>6. CASE Drop
    <2> SUFFICES ASSUME NEW j \in Ingresses, ~Pending(j)', j \notin excused'
                 PROVE  Reflected(j)'
      BY DEF Settled
    <2>1. PICK e \in doing : excused' = excused \cup {e.key}
      BY <1>6 DEF Drop
    <2>2. UNCHANGED <<wanted, heard, noticed, todo, applied, missed>>
      BY <1>6 DEF Drop
    <2>3. \A f \in doing : f = e
      BY <2>1 DEF LastDoing
    <2>4. ~Pending(j) /\ j \notin excused
      BY <2>1, <2>2, <2>3 DEF Pending
    <2> QED
      BY <2>2, <2>4 DEF Settled, Reflected
  <1>7. CASE Restart
    <2> SUFFICES ASSUME NEW j \in Ingresses, j \notin excused'
                 PROVE  Reflected(j)'
      BY DEF Settled
    <2>1. Caught(j) /\ j \notin excused
      BY <1>7 DEF Restart
    <2>2. Reflected(j)
      BY <2>1 DEF Settled, Caught
    <2> QED
      BY <1>7, <2>1, <2>2 DEF Restart, Reflected, Caught
  <1>8. ASSUME NEW i \in Ingresses, CallFails(i) PROVE Settled'
    BY <1>8, <1>1 DEF CallFails
  <1>9. CASE UNCHANGED vars
    BY <1>9, <1>1 DEF vars
  <1> QED
    BY <1>2, <1>3, <1>4, <1>5, <1>6, <1>7, <1>8, <1>9 DEF Next

(* The inductive invariant of the abstract specification. *)
LEMMA DeliveryInvariant == Spec => []DeliveryInv
  <1>1. Init => DeliveryInv
    BY DEF Init, DeliveryInv, TypeOK, LastEntry, LastDoing, Settled, Reflected, Unheard
  <1>2. DeliveryInv /\ [Next]_vars => DeliveryInv'
    BY TypesStep, LastEntryStep, LastDoingStep, SettledStep, UnheardStep DEF DeliveryInv
  <1> QED
    BY <1>1, <1>2, PTL DEF Spec

(* Whatever is noticed late, skipped or dropped, an ingress that came to rest
   and is not excused is applied as its users want it: what the informer, the
   queue and the worker are for. *)
THEOREM DeliveryIsCurrent == Spec => []Current
  <1>1. DeliveryInv => Current
    <2> SUFFICES ASSUME DeliveryInv, NEW i \in Ingresses, Caught(i), i \notin excused,
                        wanted[i] # None \/ i \notin missed
                 PROVE  applied[i] = wanted[i]
      BY DEF Current
    <2>1. Reflected(i)
      BY DEF DeliveryInv, Settled, Caught
    <2> QED
      BY <2>1 DEF DeliveryInv, Reflected, Unheard, Caught
  <1> QED
    BY <1>1, DeliveryInvariant, PTL
=============================================================================
