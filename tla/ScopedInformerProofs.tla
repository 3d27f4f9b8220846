------------------------ MODULE ScopedInformerProofs ------------------------
(***************************************************************************)
(* Proofs about ScopedInformer, for any clusters, names, states of objects *)
(* and number of pending notifications.  The heart is Leads: what it says  *)
(* of two sequences it says of one after the other, and of the rest when   *)
(* the first notification has been delivered.                              *)
(***************************************************************************)
EXTENDS ScopedInformer, FiniteSetTheorems, SequenceTheorems, TLAPS

Notifications == [type : {"add", "update", "delete"},
                  object : [key : Key, version : Version], tombstone : BOOLEAN]

LEMMA OwnKeys == \A n \in Name : OwnKey(n) \in Key
BY ScopedInformerAssumption DEF OwnKey, Key

LEMMA LeadsConcat ==
  ASSUME NEW s \in Seq(Notifications), NEW t \in Seq(Notifications), NEW n \in Name,
         NEW a, NEW b, NEW c, Leads(s, n, a, b), Leads(t, n, b, c)
  PROVE  Leads(s \o t, n, a, c)
<1> DEFINE u == s \o t
<1>1. /\ Len(s) \in Nat /\ Len(t) \in Nat /\ Len(u) = Len(s) + Len(t)
      /\ \A i \in 1..Len(s) : u[i] = s[i]
      /\ \A i \in 1..Len(t) : u[Len(s) + i] = t[i]
  BY ConcatProperties, LenProperties
<1>2. \A i \in 1..Len(u) : i \in 1..Len(s) \/ (i - Len(s) \in 1..Len(t) /\ u[i] = t[i - Len(s)])
  BY <1>1
<1> HIDE DEF u
<1>3. ASSUME NEW i \in 1..Len(u), IsOf(u[i], n), \A j \in i+1..Len(u) : ~IsOf(u[j], n)
      PROVE  After(u[i]) = c
  <2>1. CASE i \in 1..Len(s)
    <3>1. \A j \in i+1..Len(s) : ~IsOf(s[j], n)
      BY <1>1, <1>3, <2>1
    <3>2. \A j \in 1..Len(t) : ~IsOf(t[j], n)
      BY <1>1, <1>3, <2>1
    <3> QED
      BY <1>1, <1>3, <2>1, <3>1, <3>2 DEF Leads
  <2>2. CASE i - Len(s) \in 1..Len(t) /\ u[i] = t[i - Len(s)]
    <3>1. ASSUME NEW j \in (i - Len(s))+1..Len(t) PROVE ~IsOf(t[j], n)
      <4>1. Len(s) + j \in i+1..Len(u) /\ j \in 1..Len(t)
        BY <1>1, <2>2
      <4> QED
        BY <1>1, <1>3, <4>1
    <3> QED
      BY <1>3, <2>2, <3>1 DEF Leads
  <2> QED
    BY <1>2, <2>1, <2>2
<1>4. ASSUME NEW i \in 1..Len(u), IsOf(u[i], n), \A j \in 1..i-1 : ~IsOf(u[j], n)
      PROVE  u[i].type = "add" <=> a = Absent
  <2>1. CASE i \in 1..Len(s)
    <3>1. \A j \in 1..i-1 : ~IsOf(s[j], n)
      BY <1>1, <1>4, <2>1
    <3> QED
      BY <1>1, <1>4, <2>1, <3>1 DEF Leads
  <2>2. CASE i - Len(s) \in 1..Len(t) /\ u[i] = t[i - Len(s)]
    <3>1. \A j \in 1..Len(s) : ~IsOf(s[j], n)
      BY <1>1, <1>4, <2>2
    <3>2. \A j \in 1..(i - Len(s))-1 : ~IsOf(t[j], n)
      BY <1>1, <1>4, <2>2
    <3> QED
      BY <1>4, <2>2, <3>1, <3>2 DEF Leads
  <2> QED
    BY <1>2, <2>1, <2>2
<1>5. ASSUME NEW i \in 1..Len(u), NEW j \in 1..Len(u), i < j, IsOf(u[i], n), IsOf(u[j], n),
             \A l \in i+1..j-1 : ~IsOf(u[l], n)
      PROVE  u[j].type = "add" <=> After(u[i]) = Absent
  <2>1. CASE j \in 1..Len(s)
    <3>1. i \in 1..Len(s) /\ \A l \in i+1..j-1 : ~IsOf(s[l], n)
      BY <1>1, <1>5, <2>1
    <3> QED
      BY <1>1, <1>5, <2>1, <3>1 DEF Leads
  <2>2. CASE i \in 1..Len(s) /\ j - Len(s) \in 1..Len(t) /\ u[j] = t[j - Len(s)]
    <3>1. ASSUME NEW l \in i+1..Len(s) PROVE ~IsOf(s[l], n)
      <4>1. l \in i+1..j-1 /\ l \in 1..Len(s)
        BY <1>1, <2>2
      <4> QED
        BY <1>1, <1>5, <4>1
    <3>2. ASSUME NEW l \in 1..(j - Len(s))-1 PROVE ~IsOf(t[l], n)
      <4>1. Len(s) + l \in i+1..j-1 /\ l \in 1..Len(t)
        BY <1>1, <2>2
      <4> QED
        BY <1>1, <1>5, <4>1
    <3>3. After(u[i]) = b
      BY <1>1, <1>5, <2>2, <3>1 DEF Leads
    <3> QED
      BY <1>5, <2>2, <3>2, <3>3 DEF Leads
  <2>3. CASE /\ i - Len(s) \in 1..Len(t) /\ u[i] = t[i - Len(s)]
             /\ j - Len(s) \in 1..Len(t) /\ u[j] = t[j - Len(s)]
    <3>1. \A l \in (i - Len(s))+1..(j - Len(s))-1 : ~IsOf(t[l], n)
      BY <1>1, <1>5, <2>3
    <3>2. i - Len(s) < j - Len(s)
      BY <1>1, <1>5
    <3> DEFINE x == i - Len(s)
               y == j - Len(s)
    <3>3. /\ x \in 1..Len(t) /\ y \in 1..Len(t) /\ x < y
          /\ IsOf(t[x], n) /\ IsOf(t[y], n) /\ \A l \in x+1..y-1 : ~IsOf(t[l], n)
      BY <1>5, <2>3, <3>1, <3>2
    <3> HIDE DEF x, y
    <3>4. t[y].type = "add" <=> After(t[x]) = Absent
      BY <3>3 DEF Leads
    <3> QED
      BY <2>3, <3>4 DEF x, y
  <2> QED
    BY <1>2, <2>1, <2>2, <2>3
<1>6. ASSUME \A i \in 1..Len(u) : ~IsOf(u[i], n)
      PROVE  a = c
  <2>1. \A i \in 1..Len(s) : ~IsOf(s[i], n)
    BY <1>1, <1>6
  <2>2. \A i \in 1..Len(t) : ~IsOf(t[i], n)
    BY <1>1, <1>6
  <2> QED
    BY <2>1, <2>2 DEF Leads
<1>7. Leads(u, n, a, c)
  BY <1>3, <1>4, <1>5, <1>6 DEF Leads
<1> QED
  BY <1>7 DEF u

LEMMA LeadsTail ==
  ASSUME NEW s \in Seq(Notifications), s # <<>>, NEW n \in Name,
         NEW a, NEW b, Leads(s, n, a, b)
  PROVE  Leads(Tail(s), n, IF IsOf(Head(s), n) THEN After(Head(s)) ELSE a, b)
<1> DEFINE t == Tail(s)
           d == IF IsOf(Head(s), n) THEN After(Head(s)) ELSE a
<1>1. /\ Len(s) \in Nat /\ Len(s) >= 1 /\ Head(s) = s[1]
      /\ Len(t) = Len(s) - 1
      /\ \A i \in 1..Len(t) : t[i] = s[i + 1]
  BY HeadTailProperties, LenProperties, EmptySeq
<1> HIDE DEF t
<1>2. ASSUME NEW i \in 1..Len(t), IsOf(t[i], n), \A j \in i+1..Len(t) : ~IsOf(t[j], n)
      PROVE  After(t[i]) = b
  <2>1. \A j \in (i+1)+1..Len(s) : ~IsOf(s[j], n)
    <3> TAKE j \in (i+1)+1..Len(s)
    <3>1. j - 1 \in i+1..Len(t) /\ t[j - 1] = s[(j - 1) + 1] /\ (j - 1) + 1 = j
      BY <1>1
    <3> QED
      BY <1>2, <3>1
  <2>2. i + 1 \in 1..Len(s) /\ t[i] = s[i + 1]
    BY <1>1
  <2> QED
    BY <1>2, <2>1, <2>2 DEF Leads
<1>3. ASSUME NEW i \in 1..Len(t), IsOf(t[i], n), \A j \in 1..i-1 : ~IsOf(t[j], n)
      PROVE  t[i].type = "add" <=> d = Absent
  <2>1. \A j \in 2..(i+1)-1 : ~IsOf(s[j], n)
    <3> TAKE j \in 2..(i+1)-1
    <3>1. j - 1 \in 1..i-1 /\ t[j - 1] = s[(j - 1) + 1] /\ (j - 1) + 1 = j
      BY <1>1
    <3> QED
      BY <1>3, <3>1
  <2>2. i + 1 \in 1..Len(s) /\ t[i] = s[i + 1] /\ 1 \in 1..Len(s) /\ 1 < i + 1
    BY <1>1
  <2>3. CASE IsOf(s[1], n)
    <3>1. \A l \in 1+1..(i+1)-1 : ~IsOf(s[l], n)
      BY <2>1
    <3> QED
      BY <1>1, <1>3, <2>2, <2>3, <3>1 DEF Leads
  <2>4. CASE ~IsOf(s[1], n)
    <3>1. \A j \in 1..(i+1)-1 : ~IsOf(s[j], n)
      BY <2>1, <2>4
    <3> QED
      BY <1>1, <1>3, <2>2, <2>4, <3>1 DEF Leads
  <2> QED
    BY <2>3, <2>4
<1>4. ASSUME NEW i \in 1..Len(t), NEW j \in 1..Len(t), i < j, IsOf(t[i], n), IsOf(t[j], n),
             \A l \in i+1..j-1 : ~IsOf(t[l], n)
      PROVE  t[j].type = "add" <=> After(t[i]) = Absent
  <2>1. \A l \in (i+1)+1..(j+1)-1 : ~IsOf(s[l], n)
    <3> TAKE l \in (i+1)+1..(j+1)-1
    <3>1. l - 1 \in i+1..j-1 /\ t[l - 1] = s[(l - 1) + 1] /\ (l - 1) + 1 = l
      BY <1>1
    <3> QED
      BY <1>4, <3>1
  <2>2. /\ i + 1 \in 1..Len(s) /\ j + 1 \in 1..Len(s) /\ i + 1 < j + 1
        /\ t[i] = s[i + 1] /\ t[j] = s[j + 1]
    BY <1>1, <1>4
  <2> QED
    BY <1>4, <2>1, <2>2 DEF Leads
<1>5. ASSUME \A i \in 1..Len(t) : ~IsOf(t[i], n)
      PROVE  d = b
  <2>1. \A j \in 2..Len(s) : ~IsOf(s[j], n)
    <3> TAKE j \in 2..Len(s)
    <3>1. j - 1 \in 1..Len(t) /\ t[j - 1] = s[(j - 1) + 1] /\ (j - 1) + 1 = j
      BY <1>1
    <3> QED
      BY <1>5, <3>1
  <2>2. CASE IsOf(s[1], n)
    <3>1. 1 \in 1..Len(s) /\ \A j \in 1+1..Len(s) : ~IsOf(s[j], n)
      BY <1>1, <2>1
    <3> QED
      BY <1>1, <2>2, <3>1 DEF Leads
  <2>3. CASE ~IsOf(s[1], n)
    <3>1. \A j \in 1..Len(s) : ~IsOf(s[j], n)
      BY <1>1, <2>1, <2>3
    <3> QED
      BY <1>1, <2>3, <3>1 DEF Leads
  <2> QED
    BY <2>2, <2>3
<1> HIDE DEF d
<1>6. Leads(t, n, d, b)
  BY <1>2, <1>3, <1>4, <1>5 DEF Leads
<1> QED
  BY <1>6 DEF t, d

-----------------------------------------------------------------------------
(* What the wildcard informer adds to the queue.                           *)

LEMMA OrderFacts ==
  ASSUME NEW S, IsFiniteSet(S), NEW f \in Orders(S)
  PROVE  /\ Cardinality(S) \in Nat
         /\ f \in [1..Cardinality(S) -> S]
         /\ \A x \in S : \E i \in 1..Cardinality(S) : f[i] = x
         /\ \A i, j \in 1..Cardinality(S) : f[i] = f[j] => i = j
<1>1. Cardinality(S) \in Nat
  BY FS_CardinalityType
<1>2. f \in [1..Cardinality(S) -> S] /\ \A x \in S : \E i \in 1..Cardinality(S) : f[i] = x
  BY DEF Orders
<1>3. f \in Surjection(1..Cardinality(S), S)
  BY <1>2 DEF Surjection
<1>4. IsFiniteSet(1..Cardinality(S)) /\ Cardinality(1..Cardinality(S)) = Cardinality(S)
  BY <1>1, FS_Interval
<1>5. f \in Injection(1..Cardinality(S), S)
  BY <1>3, <1>4, FS_SurjSameCardinalityImpliesInj
<1>6. \A i, j \in 1..Cardinality(S) : f[i] = f[j] => i = j
  BY <1>2, <1>5 DEF Injection, IsInjective
<1> QED
  BY <1>1, <1>2, <1>6

LEMMA RepeatFacts ==
  ASSUME TypeOK, IsFiniteSet(Present), NEW f \in Orders(Present), NEW type \in {"add", "update"}
  PROVE  /\ Repeat(type, f) \in Seq(Notifications)
         /\ Len(Repeat(type, f)) = Cardinality(Present)
         /\ \A i \in 1..Cardinality(Present) :
              /\ Repeat(type, f)[i].type = type
              /\ Repeat(type, f)[i].object.key = f[i]
              /\ After(Repeat(type, f)[i]) = store[f[i]]
<1> DEFINE s == Repeat(type, f)
<1>1. /\ Cardinality(Present) \in Nat
      /\ f \in [1..Cardinality(Present) -> Present]
  BY OrderFacts
<1>2. \A k \in Present : k \in Key /\ store[k] \in Version
  BY DEF Present, TypeOK, State
<1>3. s = [i \in 1..Cardinality(Present) |->
            [type |-> type, object |-> [key |-> f[i], version |-> store[f[i]]], tombstone |-> FALSE]]
  BY <1>1 DEF Repeat, Notification
<1>4. \A i \in 1..Cardinality(Present) : s[i] \in Notifications
  BY <1>1, <1>2, <1>3 DEF Notifications
<1>5. s \in [1..Cardinality(Present) -> Notifications]
  BY <1>3, <1>4
<1>6. s \in Seq(Notifications) /\ Len(s) = Cardinality(Present)
  BY <1>1, <1>5
<1>7. \A i \in 1..Cardinality(Present) :
        s[i].type = type /\ s[i].object.key = f[i] /\ After(s[i]) = store[f[i]]
  BY <1>3 DEF After
<1> QED
  BY <1>6, <1>7

(* A resync leads from what the wildcard informer has to the same.         *)
LEMMA UpdatesLead ==
  ASSUME TypeOK, IsFiniteSet(Present), NEW f \in Orders(Present), NEW n \in Name
  PROVE  Leads(Repeat("update", f), n, store[OwnKey(n)], store[OwnKey(n)])
<1> DEFINE s == Repeat("update", f)
<1>1. /\ Len(s) = Cardinality(Present)
      /\ \A i \in 1..Len(s) :
           s[i].type = "update" /\ s[i].object.key = f[i] /\ After(s[i]) = store[f[i]]
  BY RepeatFacts
<1>2. \A i \in 1..Len(s) : store[f[i]] # Absent
  BY <1>1, OrderFacts DEF Present
<1> HIDE DEF s
<1>3. Leads(s, n, store[OwnKey(n)], store[OwnKey(n)])
  BY <1>1, <1>2 DEF Leads, IsOf
<1> QED
  BY <1>3 DEF s

(* What a new handler is told leads from nothing to what there is.         *)
LEMMA AddsLead ==
  ASSUME TypeOK, IsFiniteSet(Present), NEW f \in Orders(Present), NEW n \in Name
  PROVE  Leads(Repeat("add", f), n, Absent, store[OwnKey(n)])
<1> DEFINE s == Repeat("add", f)
<1>1. /\ Len(s) = Cardinality(Present) /\ Len(s) \in Nat
      /\ \A i \in 1..Len(s) :
           s[i].type = "add" /\ s[i].object.key = f[i] /\ After(s[i]) = store[f[i]]
  BY RepeatFacts, OrderFacts
<1>2. \A i, j \in 1..Len(s) : f[i] = f[j] => i = j
  BY <1>1, OrderFacts
<1>3. (\A i \in 1..Len(s) : f[i] # OwnKey(n)) => store[OwnKey(n)] = Absent
  <2>1. \A k \in Present : \E i \in 1..Len(s) : f[i] = k
    BY <1>1, OrderFacts
  <2> QED
    BY <2>1, OwnKeys DEF Present
<1> HIDE DEF s
<1>4. ASSUME NEW i \in 1..Len(s), NEW j \in 1..Len(s), IsOf(s[i], n), IsOf(s[j], n)
      PROVE  i = j
  BY <1>1, <1>2, <1>4 DEF IsOf
<1>5. \A i, j \in 1..Len(s) : i < j => ~(IsOf(s[i], n) /\ IsOf(s[j], n))
  BY <1>1, <1>4
<1>6. \A i \in 1..Len(s) : IsOf(s[i], n) => After(s[i]) = store[OwnKey(n)]
  BY <1>1 DEF IsOf
<1>7. (\A i \in 1..Len(s) : ~IsOf(s[i], n)) => store[OwnKey(n)] = Absent
  BY <1>1, <1>3 DEF IsOf
<1>8. Leads(s, n, Absent, store[OwnKey(n)])
  BY <1>1, <1>5, <1>6, <1>7 DEF Leads
<1> QED
  BY <1>8 DEF s

(* One notification leads from the old state of its object to the new one. *)
LEMMA OneLeads ==
  ASSUME NEW m \in Notifications, NEW n \in Name, NEW a, NEW b,
         IsOf(m, n) => After(m) = b /\ (m.type = "add" <=> a = Absent),
         ~IsOf(m, n) => a = b
  PROVE  Leads(<<m>>, n, a, b)
<1> DEFINE s == <<m>>
<1>1. Len(s) = 1 /\ s[1] = m
  OBVIOUS
<1> HIDE DEF s
<1>2. Leads(s, n, a, b)
  BY <1>1 DEF Leads
<1> QED
  BY <1>2 DEF s

-----------------------------------------------------------------------------
(* The steps.                                                              *)

Inductive == ScopedInv /\ IsFiniteSet(Present)

LEMMA Initially == Init => Inductive
<1> SUFFICES ASSUME Init PROVE Inductive
  OBVIOUS
<1>1. TypeOK
  BY EmptySeq DEF Init, TypeOK, State
<1>2. Present = {}
  BY DEF Init, Present
<1> QED
  BY <1>1, <1>2, FS_EmptySet DEF Init, Inductive, ScopedInv

LEMMA WriteStep ==
  ASSUME Inductive, NEW k \in Key, NEW v \in State, Write(k, v)
  PROVE  Inductive'
<1>1. TypeOK'
  BY DEF Inductive, ScopedInv, Write, TypeOK
<1>2. Present' = Present
  BY DEF Write, Present
<1> QED
  BY <1>1, <1>2 DEF Inductive, ScopedInv, Write

LEMMA ObserveStep ==
  ASSUME Inductive, NEW k \in Key, NEW relist \in BOOLEAN, Observe(k, relist)
  PROVE  Inductive'
<1> DEFINE m == IF server[k] = Absent THEN Notification("delete", k, store[k], relist)
                ELSE Notification(IF store[k] = Absent THEN "add" ELSE "update",
                                  k, server[k], FALSE)
<1>1. /\ TypeOK /\ store[k] # server[k] /\ store[k] \in State /\ server[k] \in State
      /\ store' = [store EXCEPT ![k] = server[k]]
      /\ Enqueue(<<m>>)
      /\ UNCHANGED <<server, added, told>>
  BY DEF Inductive, ScopedInv, Observe, TypeOK
<1>2. /\ m \in Notifications
      /\ m.object.key = k
      /\ After(m) = server[k]
      /\ m.type = "add" <=> store[k] = Absent
  BY <1>1 DEF Notification, Notifications, After, State
<1> HIDE DEF m
<1>3. IsFiniteSet(Present')
  <2>1. IsFiniteSet(Present \cup {k})
    BY FS_AddElement DEF Inductive
  <2>2. Present' \in SUBSET (Present \cup {k})
    BY <1>1 DEF Present, TypeOK
  <2> QED
    BY <2>1, <2>2, FS_Subset
<1>4. CASE ~added
  BY <1>1, <1>3, <1>4 DEF Inductive, ScopedInv, TypeOK, Enqueue
<1>5. CASE added
  <2>1. pending' = pending \o <<m>> /\ pending \in Seq(Notifications) /\ <<m>> \in Seq(Notifications)
    BY <1>1, <1>2, <1>5 DEF Enqueue, TypeOK, Notifications
  <2>2. pending' \in Seq(Notifications)
    BY <2>1, ConcatProperties
  <2>3. TypeOK'
    BY <1>1, <2>2 DEF TypeOK, Notifications
  <2>4. ASSUME NEW n \in Name
        PROVE  Leads(pending', n, told'[n], store'[OwnKey(n)])
    <3>1. Leads(pending, n, told[n], store[OwnKey(n)])
      BY <1>5 DEF Inductive, ScopedInv
    <3>2. IsOf(m, n) => After(m) = store'[OwnKey(n)] /\ (m.type = "add" <=> store[OwnKey(n)] = Absent)
      BY <1>1, <1>2 DEF IsOf, TypeOK
    <3>3. ~IsOf(m, n) => store[OwnKey(n)] = store'[OwnKey(n)]
      BY <1>1, <1>2, OwnKeys DEF IsOf, TypeOK
    <3>4. Leads(<<m>>, n, store[OwnKey(n)], store'[OwnKey(n)])
      BY <1>2, <3>2, <3>3, OneLeads
    <3>5. Leads(pending \o <<m>>, n, told[n], store'[OwnKey(n)])
      BY <2>1, <3>1, <3>4, LeadsConcat
    <3> QED
      BY <1>1, <2>1, <3>5
  <2> QED
    BY <1>1, <1>3, <1>5, <2>3, <2>4 DEF Inductive, ScopedInv, Leads, IsOf, OwnKey, After
<1> QED
  BY <1>4, <1>5

LEMMA ResyncStep ==
  ASSUME Inductive, Resync
  PROVE  Inductive'
<1>1. PICK f \in Orders(Present) : Enqueue(Repeat("update", f))
  BY DEF Resync
<1>2. TypeOK /\ IsFiniteSet(Present) /\ added /\ UNCHANGED <<server, store, added, told>>
  BY DEF Inductive, ScopedInv, Resync
<1>3. /\ pending' = pending \o Repeat("update", f)
      /\ pending \in Seq(Notifications) /\ Repeat("update", f) \in Seq(Notifications)
  BY <1>1, <1>2, RepeatFacts DEF Enqueue, TypeOK, Notifications
<1>4. TypeOK'
  BY <1>2, <1>3, ConcatProperties DEF TypeOK, Notifications
<1>5. ASSUME NEW n \in Name
      PROVE  Leads(pending', n, told'[n], store'[OwnKey(n)])
  <2>1. Leads(pending, n, told[n], store[OwnKey(n)])
    BY <1>2 DEF Inductive, ScopedInv
  <2>2. Leads(Repeat("update", f), n, store[OwnKey(n)], store[OwnKey(n)])
    BY <1>2, UpdatesLead
  <2> QED
    BY <1>2, <1>3, <2>1, <2>2, LeadsConcat
<1>6. Present' = Present
  BY <1>2 DEF Present
<1> QED
  BY <1>2, <1>4, <1>5, <1>6 DEF Inductive, ScopedInv, Leads, IsOf, OwnKey, After

LEMMA AddEventHandlerStep ==
  ASSUME Inductive, AddEventHandler
  PROVE  Inductive'
<1>1. PICK f \in Orders(Present) : pending' = Repeat("add", f)
  BY DEF AddEventHandler
<1>2. TypeOK /\ IsFiniteSet(Present) /\ added' = TRUE /\ UNCHANGED <<server, store, told>>
      /\ \A n \in Name : told[n] = Absent
  BY DEF Inductive, ScopedInv, AddEventHandler
<1>3. pending' \in Seq(Notifications)
  BY <1>1, <1>2, RepeatFacts
<1>4. TypeOK'
  BY <1>2, <1>3 DEF TypeOK, Notifications
<1>5. ASSUME NEW n \in Name
      PROVE  Leads(pending', n, told'[n], store'[OwnKey(n)])
  BY <1>1, <1>2, AddsLead
<1>6. Present' = Present
  BY <1>2 DEF Present
<1> QED
  BY <1>2, <1>4, <1>5, <1>6 DEF Inductive, ScopedInv, Leads, IsOf, OwnKey, After

(* The wrapped handler changes what it should and nothing else.            *)
LEMMA DeliverTold ==
  ASSUME TypeOK, Deliver, NEW n \in Name
  PROVE  /\ pending # <<>> /\ Head(pending) \in Notifications
         /\ told' \in [Name -> State]
         /\ told'[n] = IF IsOf(Head(pending), n) THEN After(Head(pending)) ELSE told[n]
<1>1. pending \in Seq(Notifications) /\ pending # <<>> /\ Wrapped(Head(pending))
  BY DEF Deliver, TypeOK, Notifications
<1>2. Head(pending) \in Notifications
  BY <1>1, HeadTailProperties
<1> DEFINE h == Head(pending)
<1> HIDE DEF h
<1>3. h \in Notifications /\ Wrapped(h)
  BY <1>1, <1>2 DEF h
<1>4. h.object.key \in Key /\ h.object.key = <<h.object.key[1], h.object.key[2]>>
      /\ h.object.key[2] \in Name /\ After(h) \in State
  BY <1>3 DEF Notifications, Key, State, After
<1>5. IsOf(h, n) <=> From(h.object) = clusterName /\ h.object.key[2] = n
  BY <1>4 DEF IsOf, OwnKey, From
<1>6. told' \in [Name -> State] /\ told'[n] = IF IsOf(h, n) THEN After(h) ELSE told[n]
  BY <1>3, <1>4, <1>5 DEF Wrapped, Called, NotCalled, TypeOK
<1> QED
  BY <1>1, <1>2, <1>6 DEF h

LEMMA DeliverStep ==
  ASSUME Inductive, Deliver
  PROVE  Inductive'
<1>1. /\ TypeOK /\ added /\ pending # <<>> /\ pending \in Seq(Notifications)
      /\ pending' = Tail(pending) /\ UNCHANGED <<server, store, added>>
  BY DEF Inductive, ScopedInv, Deliver, TypeOK, Notifications
<1>2. pending' \in Seq(Notifications)
  BY <1>1, HeadTailProperties
<1>3. told' \in [Name -> State]
  <2>1. CASE Name = {}
    BY <1>1, <2>1 DEF Deliver, Wrapped, Called, NotCalled, TypeOK
  <2>2. CASE Name # {}
    BY <1>1, <2>2, DeliverTold
  <2> QED
    BY <2>1, <2>2
<1>4. TypeOK'
  BY <1>1, <1>2, <1>3 DEF TypeOK, Notifications
<1>5. ASSUME NEW n \in Name
      PROVE  Leads(pending', n, told'[n], store'[OwnKey(n)])
  <2>1. Leads(pending, n, told[n], store[OwnKey(n)])
    BY <1>1 DEF Inductive, ScopedInv
  <2> QED
    BY <1>1, <2>1, DeliverTold, LeadsTail
<1>6. Present' = Present
  BY <1>1 DEF Present
<1> QED
  BY <1>1, <1>4, <1>5, <1>6 DEF Inductive, ScopedInv, Leads, IsOf, OwnKey, After

LEMMA AlwaysInductive == Spec => []Inductive
<1>1. Inductive /\ [Next]_vars => Inductive'
  <2> SUFFICES ASSUME Inductive, [Next]_vars PROVE Inductive'
    OBVIOUS
  <2>1. CASE UNCHANGED vars
    <3>1. TypeOK' /\ Present' = Present
      BY <2>1 DEF vars, Inductive, ScopedInv, TypeOK, Present
    <3>2. ASSUME NEW n \in Name, added'
          PROVE  Leads(pending', n, told'[n], store'[OwnKey(n)])
      BY <2>1, <3>2 DEF vars, Inductive, ScopedInv
    <3> QED
      BY <2>1, <3>1, <3>2 DEF vars, Inductive, ScopedInv, Leads, IsOf, OwnKey, After
  <2> QED
    BY <2>1, WriteStep, ObserveStep, ResyncStep, AddEventHandlerStep, DeliverStep DEF Next
<1> QED
  BY <1>1, Initially, PTL DEF Spec

(* The inductive invariant: what is pending leads every object of the      *)
(* cluster from what the handler knows to what the wildcard informer has   *)
(* (cache.go:124-176).                                                     *)
THEOREM PendingLeads == Spec => []ScopedInv
<1>1. Inductive => ScopedInv
  BY DEF Inductive
<1> QED
  BY <1>1, AlwaysInductive, PTL

(* With no word of an object on the way the handler knows it as the        *)
(* wildcard informer does, whatever the other clusters do                  *)
(* (cache.go:125-148).                                                     *)
THEOREM HandlerKnowsItsCluster == Spec => []KnowsItsCluster
<1>1. ScopedInv => KnowsItsCluster
  BY DEF ScopedInv, KnowsItsCluster, Leads
<1> QED
  BY <1>1, PendingLeads, PTL

(* Every call of the handler makes sense to it: what is added was absent,  *)
(* and what changes or goes was not (cache.go:127-147, 154-174).           *)
THEOREM HandlerMakesSense == Spec => MakesSense
<1>1. ASSUME ScopedInv, [Next]_vars, NEW n \in Name, told'[n] # told[n]
      PROVE  told[n] = Absent <=> Head(pending).type = "add"
  <2>1. Deliver
    BY <1>1 DEF Next, Write, Observe, Resync, AddEventHandler, vars
  <2>2. TypeOK /\ added /\ Leads(pending, n, told[n], store[OwnKey(n)])
    BY <1>1, <2>1 DEF ScopedInv, Deliver
  <2>3. pending # <<>> /\ IsOf(Head(pending), n)
    BY <1>1, <2>1, <2>2, DeliverTold
  <2>4. Len(pending) \in Nat /\ 1 \in 1..Len(pending) /\ Head(pending) = pending[1]
    BY <2>2, <2>3, HeadTailProperties, LenProperties, EmptySeq DEF TypeOK
  <2>5. \A j \in 1..1-1 : ~IsOf(pending[j], n)
    OBVIOUS
  <2> QED
    BY <2>2, <2>3, <2>4, <2>5 DEF Leads
<1>2. ScopedInv /\ [Next]_vars
        => [\A n \in Name : told'[n] # told[n] =>
              (told[n] = Absent <=> Head(pending).type = "add")]_vars
  BY <1>1
<1> QED
  BY <1>2, PendingLeads, PTL DEF Spec, MakesSense

=============================================================================
