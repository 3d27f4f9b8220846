----------------------- MODULE ScopedInformerRefinement -----------------------
(***************************************************************************)
(* ScopedInformer implements Informer: a proof for any clusters, names and *)
(* states of objects.  What the cluster's part of a queue is, OwnPart, is  *)
(* defined by recursion along the queue; facts about it are proved by the  *)
(* least counterexample, a set of natural numbers that is not empty having *)
(* a least element.                                                        *)
(***************************************************************************)
EXTENDS ScopedInformerProofs, WellFoundedInduction

(* A set of natural numbers that holds 0, and with every number the next,  *)
(* up to N, holds all of them up to N.                                     *)
LEMMA UpTo ==
  ASSUME NEW N \in Nat, NEW S, 0 \in S, \A i \in 1..N : i - 1 \in S => i \in S
  PROVE  \A i \in 0..N : i \in S
<1> DEFINE R == OpToRel(<, Nat)
           B == {i \in 0..N : i \notin S}
<1>1. R = {p \in Nat \X Nat : p[1] < p[2]}
  BY DEF OpToRel
<1>2. IsWellFoundedOn(R, Nat)
  BY NatLessThanWellFounded
<1>3. B \in SUBSET Nat
  OBVIOUS
<1> SUFFICES ASSUME B # {} PROVE FALSE
  OBVIOUS
<1> HIDE DEF R, B
<1>4. PICK m \in B : \A k \in B : ~(<<k, m>> \in R)
  BY <1>2, <1>3, WFMin
<1>5. m \in 0..N /\ m \notin S
  BY DEF B
<1>6. m \in 1..N /\ m - 1 \in 0..N /\ m - 1 \notin S
  BY <1>5
<1>7. m - 1 \in B /\ <<m - 1, m>> \in R
  BY <1>1, <1>6 DEF B
<1> QED
  BY <1>4, <1>7

-----------------------------------------------------------------------------
(* The cluster's part of a queue.                                          *)

(* One step of the recursion: what the part up to i is, given the function *)
(* g that says what it is up to a smaller number.                          *)
OwnRule(s, g, i) ==
  IF i = 0 THEN <<>>
  ELSE IF IsOwn(s[i]) THEN Append(g[i - 1], Brief(s[i])) ELSE g[i - 1]

(* The recursion has a solution ...                                        *)
LEMMA OwnUpToExists ==
  ASSUME NEW s, NEW N \in Nat
  PROVE  \E g : g = [i \in 0..N |-> OwnRule(s, g, i)]
<1> DEFINE S == {n \in Nat : \E g : g = [i \in 0..n |-> OwnRule(s, g, i)]}
<1>1. 0 \in S
  <2> DEFINE g == [i \in 0..0 |-> <<>>]
  <2>1. g = [i \in 0..0 |-> OwnRule(s, g, i)]
    BY DEF OwnRule
  <2> QED
    BY <2>1
<1>2. ASSUME NEW n \in 1..N, n - 1 \in S
      PROVE  n \in S
  <2>1. PICK g : g = [i \in 0..n - 1 |-> OwnRule(s, g, i)]
    BY <1>2
  <2> DEFINE h == [i \in 0..n |-> IF i = n THEN OwnRule(s, g, n) ELSE g[i]]
  <2>2. \A i \in 0..n - 1 : h[i] = g[i] /\ g[i] = OwnRule(s, g, i)
    BY <2>1
  <2>3. h[n] = OwnRule(s, g, n)
    OBVIOUS
  <2>4. \A i \in 0..n : h[i] = OwnRule(s, h, i)
    <3> TAKE i \in 0..n
    <3>1. i = 0 \/ i - 1 \in 0..n - 1
      OBVIOUS
    <3>2. OwnRule(s, h, i) = OwnRule(s, g, i)
      BY <2>2, <3>1 DEF OwnRule
    <3> QED
      BY <2>2, <2>3, <3>2
  <2>5. h = [i \in 0..n |-> OwnRule(s, h, i)]
    BY <2>4
  <2> HIDE DEF h
  <2>6. \E f : f = [i \in 0..n |-> OwnRule(s, f, i)]
    BY <2>5
  <2> QED
    BY <2>6
<1> HIDE DEF S
<1>3. N \in S
  BY <1>1, <1>2, UpTo
<1> QED
  BY <1>3 DEF S

(* ... so that OwnUpTo is one.                                             *)
LEMMA OwnUpToDef ==
  ASSUME NEW s, Len(s) \in Nat
  PROVE  OwnUpTo(s) = [i \in 0..Len(s) |-> OwnRule(s, OwnUpTo(s), i)]
<1>1. OwnUpTo(s) = CHOOSE g : g = [i \in 0..Len(s) |-> OwnRule(s, g, i)]
  BY DEF OwnUpTo, OwnRule
<1>2. \E g : g = [i \in 0..Len(s) |-> OwnRule(s, g, i)]
  BY OwnUpToExists
<1> QED
  BY <1>1, <1>2

LEMMA OwnUpToAt ==
  ASSUME NEW s, Len(s) \in Nat
  PROVE  /\ OwnUpTo(s)[0] = <<>>
         /\ \A i \in 1..Len(s) :
              OwnUpTo(s)[i] = IF IsOwn(s[i]) THEN Append(OwnUpTo(s)[i - 1], Brief(s[i]))
                              ELSE OwnUpTo(s)[i - 1]
<1> DEFINE g == OwnUpTo(s)
<1>1. g = [i \in 0..Len(s) |-> OwnRule(s, g, i)]
  BY OwnUpToDef
<1> HIDE DEF g
<1>2. \A i \in 0..Len(s) : g[i] = OwnRule(s, g, i)
  BY <1>1
<1>3. g[0] = <<>> /\ \A i \in 1..Len(s) :
        g[i] = IF IsOwn(s[i]) THEN Append(g[i - 1], Brief(s[i])) ELSE g[i - 1]
  BY <1>2 DEF OwnRule
<1> QED
  BY <1>3 DEF g

Briefs == [type : {"add", "update", "delete"}, name : Name, version : State]

LEMMA BriefType ==
  ASSUME NEW m \in Notifications
  PROVE  Brief(m) \in Briefs
BY DEF Notifications, Key, Brief, Briefs, After, State

LEMMA OwnUpToType ==
  ASSUME NEW s \in Seq(Notifications)
  PROVE  \A i \in 0..Len(s) : OwnUpTo(s)[i] \in Seq(Briefs)
<1> DEFINE g == OwnUpTo(s)
           S == {i \in Nat : g[i] \in Seq(Briefs)}
<1>1. Len(s) \in Nat /\ \A i \in 1..Len(s) : s[i] \in Notifications
  BY LenProperties, ElementOfSeq
<1>2. /\ g[0] = <<>>
      /\ \A i \in 1..Len(s) :
           g[i] = IF IsOwn(s[i]) THEN Append(g[i - 1], Brief(s[i])) ELSE g[i - 1]
  BY <1>1, OwnUpToAt
<1> HIDE DEF g
<1>3. 0 \in S
  BY <1>2, EmptySeq
<1>4. ASSUME NEW i \in 1..Len(s), i - 1 \in S
      PROVE  i \in S
  <2>1. g[i - 1] \in Seq(Briefs) /\ Brief(s[i]) \in Briefs /\ i \in Nat
    BY <1>1, <1>4, BriefType
  <2>2. Append(g[i - 1], Brief(s[i])) \in Seq(Briefs)
    BY <2>1, AppendProperties
  <2>3. g[i] \in Seq(Briefs)
    BY <1>2, <2>1, <2>2
  <2> QED
    BY <2>1, <2>3
<1> HIDE DEF S
<1>5. \A i \in 0..Len(s) : i \in S
  BY <1>1, <1>3, <1>4, UpTo
<1> QED
  BY <1>5 DEF S, g

LEMMA OwnPartType ==
  ASSUME NEW s \in Seq(Notifications)
  PROVE  OwnPart(s) \in Seq(Briefs)
BY OwnUpToType, LenProperties DEF OwnPart

LEMMA AppendConcat ==
  ASSUME NEW S, NEW q \in Seq(S), NEW r \in Seq(S), NEW e \in S
  PROVE  q \o Append(r, e) = Append(q \o r, e)
<1>1. Append(r, e) = r \o <<e>> /\ <<e>> \in Seq(S)
  BY AppendIsConcat
<1>2. q \o r \in Seq(S) /\ (q \o r) \o <<e>> = q \o (r \o <<e>>)
  BY <1>1, ConcatProperties, ConcatAssociative
<1>3. Append(q \o r, e) = (q \o r) \o <<e>>
  BY <1>2, AppendIsConcat
<1> QED
  BY <1>1, <1>2, <1>3

(* The part of two queues, one after the other, is that of the first       *)
(* followed by that of the second.                                         *)
LEMMA OwnPartConcat ==
  ASSUME NEW s \in Seq(Notifications), NEW t \in Seq(Notifications)
  PROVE  OwnPart(s \o t) = OwnPart(s) \o OwnPart(t)
<1> DEFINE u == s \o t
           f == OwnUpTo(s)
           g == OwnUpTo(t)
           h == OwnUpTo(u)
           L == Len(s)
           S == {i \in Nat : h[i] = f[i]}
           T == {i \in Nat : h[L + i] = f[L] \o g[i]}
<1>1. /\ L \in Nat /\ Len(t) \in Nat /\ Len(u) = L + Len(t)
      /\ u \in Seq(Notifications)
      /\ \A i \in 1..L : u[i] = s[i]
      /\ \A i \in 1..Len(t) : u[L + i] = t[i]
  BY ConcatProperties, LenProperties
<1>2. /\ f[0] = <<>>
      /\ \A i \in 1..L : f[i] = IF IsOwn(s[i]) THEN Append(f[i - 1], Brief(s[i])) ELSE f[i - 1]
  BY <1>1, OwnUpToAt
<1>3. /\ g[0] = <<>>
      /\ \A i \in 1..Len(t) :
           g[i] = IF IsOwn(t[i]) THEN Append(g[i - 1], Brief(t[i])) ELSE g[i - 1]
  BY <1>1, OwnUpToAt
<1>4. Len(u) \in Nat
  BY <1>1
<1>5. /\ h[0] = <<>>
      /\ \A i \in 1..Len(u) :
           h[i] = IF IsOwn(u[i]) THEN Append(h[i - 1], Brief(u[i])) ELSE h[i - 1]
  BY <1>4, OwnUpToAt
<1>6. f[L] \in Seq(Briefs) /\ \A i \in 0..Len(t) : g[i] \in Seq(Briefs)
  BY <1>1, OwnUpToType
<1>7. \A i \in 1..Len(t) : t[i] \in Notifications
  BY ElementOfSeq
<1> HIDE DEF u, f, g, h, L
<1>8. \A i \in 0..L : i \in S
  <2>1. 0 \in S
    BY <1>2, <1>5
  <2>2. ASSUME NEW i \in 1..L, i - 1 \in S
        PROVE  i \in S
    <3>1. i \in 1..Len(u) /\ u[i] = s[i] /\ h[i - 1] = f[i - 1]
      BY <1>1, <2>2
    <3>2. h[i] = f[i]
      BY <1>2, <1>5, <3>1
    <3> QED
      BY <3>2
  <2> HIDE DEF S
  <2> QED
    BY <1>1, <2>1, <2>2, UpTo
<1>9. \A i \in 0..Len(t) : i \in T
  <2>1. 0 \in T
    <3>1. h[L] = f[L] /\ L + 0 = L
      BY <1>1, <1>8
    <3>2. f[L] \o <<>> = f[L]
      BY <1>6, ConcatEmptySeq
    <3> QED
      BY <1>3, <3>1, <3>2
  <2>2. ASSUME NEW i \in 1..Len(t), i - 1 \in T
        PROVE  i \in T
    <3>1. /\ L + i \in 1..Len(u) /\ (L + i) - 1 = L + (i - 1)
          /\ i - 1 \in 0..Len(t) /\ i \in Nat
      BY <1>1
    <3>2. u[L + i] = t[i] /\ h[L + (i - 1)] = f[L] \o g[i - 1]
      BY <1>1, <2>2
    <3>3. f[L] \o Append(g[i - 1], Brief(t[i])) = Append(f[L] \o g[i - 1], Brief(t[i]))
      <4>1. f[L] \in Seq(Briefs) /\ g[i - 1] \in Seq(Briefs)
        BY <1>6, <3>1
      <4>2. Brief(t[i]) \in Briefs
        BY <1>7, BriefType
      <4>3. \A q, r \in Seq(Briefs), e \in Briefs : q \o Append(r, e) = Append(q \o r, e)
        BY AppendConcat
      <4> QED
        BY <4>1, <4>2, <4>3
    <3>4. h[L + i] = IF IsOwn(t[i]) THEN Append(f[L] \o g[i - 1], Brief(t[i])) ELSE f[L] \o g[i - 1]
      BY <1>5, <3>1, <3>2
    <3>5. g[i] = IF IsOwn(t[i]) THEN Append(g[i - 1], Brief(t[i])) ELSE g[i - 1]
      BY <1>3
    <3>6. h[L + i] = f[L] \o g[i]
      BY <3>3, <3>4, <3>5
    <3> QED
      BY <3>1, <3>6
  <2> HIDE DEF T
  <2> QED
    BY <1>1, <2>1, <2>2, UpTo
<1>10. h[L + Len(t)] = f[L] \o g[Len(t)]
  <2>1. Len(t) \in 0..Len(t)
    BY <1>1
  <2>2. Len(t) \in T
    BY <1>9, <2>1
  <2> QED
    BY <2>2
<1> QED
  BY <1>1, <1>10 DEF OwnPart, u, f, g, h, L

LEMMA OwnPartEmpty == OwnPart(<<>>) = <<>>
BY OwnUpToAt DEF OwnPart

LEMMA OwnPartOne ==
  ASSUME NEW m \in Notifications
  PROVE  OwnPart(<<m>>) = IF IsOwn(m) THEN <<Brief(m)>> ELSE <<>>
<1> DEFINE s == <<m>>
<1>1. Len(s) = 1 /\ s[1] = m
  OBVIOUS
<1> HIDE DEF s
<1>2. /\ OwnUpTo(s)[0] = <<>>
      /\ OwnUpTo(s)[1] = IF IsOwn(m) THEN Append(OwnUpTo(s)[0], Brief(m)) ELSE OwnUpTo(s)[0]
  <2>1. Len(s) \in Nat /\ 1 \in 1..Len(s) /\ 1 - 1 = 0
    BY <1>1
  <2> QED
    BY <1>1, <2>1, OwnUpToAt
<1>3. OwnPart(s) = IF IsOwn(m) THEN <<Brief(m)>> ELSE <<>>
  BY <1>1, <1>2 DEF OwnPart
<1> QED
  BY <1>3 DEF s

(* Delivery takes the first notification from the part as well, if it is   *)
(* about the cluster.                                                      *)
LEMMA OwnPartTail ==
  ASSUME NEW s \in Seq(Notifications), s # <<>>
  PROVE  IF IsOwn(Head(s))
         THEN /\ OwnPart(s) # <<>>
              /\ Head(OwnPart(s)) = Brief(Head(s))
              /\ Tail(OwnPart(s)) = OwnPart(Tail(s))
         ELSE OwnPart(s) = OwnPart(Tail(s))
<1> DEFINE h == Head(s)
           t == Tail(s)
<1>1. h \in Notifications /\ t \in Seq(Notifications) /\ s = <<h>> \o t
  BY HeadTailProperties
<1> HIDE DEF h, t
<1>2. OwnPart(s) = OwnPart(<<h>>) \o OwnPart(t)
  <2>1. <<h>> \in Seq(Notifications)
    BY <1>1
  <2> QED
    BY <1>1, <2>1, OwnPartConcat
<1>3. OwnPart(<<h>>) = IF IsOwn(h) THEN <<Brief(h)>> ELSE <<>>
  BY <1>1, OwnPartOne
<1>4. OwnPart(t) \in Seq(Briefs) /\ Brief(h) \in Briefs
  BY <1>1, OwnPartType, BriefType
<1> DEFINE b == Brief(h)
           q == OwnPart(t)
<1>5. b \in Briefs /\ q \in Seq(Briefs)
  BY <1>4
<1> HIDE DEF b, q
<1>6. <<b>> \o q # <<>> /\ Head(<<b>> \o q) = b /\ Tail(<<b>> \o q) = q /\ <<>> \o q = q
  BY <1>5
<1> QED
  BY <1>2, <1>3, <1>6 DEF h, t, b, q
-----------------------------------------------------------------------------
(* What a resync or a new handler puts into the queue.                     *)

(* The part holds what it should, each notification once if it was in the  *)
(* queue once.                                                             *)
LEMMA OwnPartHolds ==
  ASSUME NEW s \in Seq(Notifications),
         \A i, j \in 1..Len(s) : s[i].object.key = s[j].object.key => i = j
  PROVE  /\ \A j \in 1..Len(OwnPart(s)) :
              \E i \in 1..Len(s) : IsOwn(s[i]) /\ OwnPart(s)[j] = Brief(s[i])
         /\ \A i \in 1..Len(s) :
              IsOwn(s[i]) => \E j \in 1..Len(OwnPart(s)) : OwnPart(s)[j] = Brief(s[i])
         /\ \A j, l \in 1..Len(OwnPart(s)) :
              OwnPart(s)[j].name = OwnPart(s)[l].name => j = l
<1> DEFINE g == OwnUpTo(s)
           From1(i) == \A j \in 1..Len(g[i]) :
                         \E m \in 1..i : IsOwn(s[m]) /\ g[i][j] = Brief(s[m])
           All(i) == \A m \in 1..i :
                       IsOwn(s[m]) => \E j \in 1..Len(g[i]) : g[i][j] = Brief(s[m])
           Once(i) == \A j, l \in 1..Len(g[i]) : g[i][j].name = g[i][l].name => j = l
           S == {i \in Nat : From1(i) /\ All(i) /\ Once(i)}
<1>1. Len(s) \in Nat /\ \A i \in 1..Len(s) : s[i] \in Notifications
  BY LenProperties, ElementOfSeq
<1>2. /\ g[0] = <<>>
      /\ \A i \in 1..Len(s) :
           g[i] = IF IsOwn(s[i]) THEN Append(g[i - 1], Brief(s[i])) ELSE g[i - 1]
  BY <1>1, OwnUpToAt
<1>3. \A i \in 0..Len(s) : g[i] \in Seq(Briefs)
  BY OwnUpToType
<1>4. \A i, m \in 1..Len(s) :
        IsOwn(s[i]) /\ IsOwn(s[m]) /\ Brief(s[i]).name = Brief(s[m]).name => i = m
  <2> SUFFICES ASSUME NEW i \in 1..Len(s), NEW m \in 1..Len(s), IsOwn(s[i]), IsOwn(s[m]),
                      Brief(s[i]).name = Brief(s[m]).name
               PROVE  i = m
    OBVIOUS
  <2>1. s[i].object.key \in Cluster \X Name /\ s[m].object.key \in Cluster \X Name
    BY <1>1 DEF Notifications, Key
  <2>2. s[i].object.key = s[m].object.key
    BY <2>1 DEF IsOwn, From, Brief
  <2> QED
    BY <2>2
<1> HIDE DEF g
<1>5. 0 \in S
  BY <1>2
<1>6. ASSUME NEW i \in 1..Len(s), i - 1 \in S
      PROVE  i \in S
  <2>1. /\ i - 1 \in 0..Len(s) /\ i \in Nat /\ i - 1 \in Nat /\ 1..i = (1..i - 1) \cup {i}
        /\ i \in 1..i /\ 1..i - 1 \in SUBSET (1..Len(s))
    BY <1>1
  <2>2. From1(i - 1) /\ All(i - 1) /\ Once(i - 1)
    BY <1>6
  <2>3. CASE ~IsOwn(s[i])
    <3>1. g[i] = g[i - 1]
      BY <1>2, <2>3
    <3>2. From1(i) /\ All(i) /\ Once(i)
      BY <2>1, <2>2, <2>3, <3>1
    <3> QED
      BY <2>1, <3>2
  <2>4. CASE IsOwn(s[i])
    <3> DEFINE q == g[i - 1]
               b == Brief(s[i])
    <3>1. g[i] = Append(q, b) /\ q \in Seq(Briefs) /\ b \in Briefs
      BY <1>1, <1>2, <1>3, <2>1, <2>4, BriefType
    <3>2. /\ Len(q) \in Nat /\ Len(g[i]) = Len(q) + 1
          /\ \A j \in 1..Len(q) : g[i][j] = q[j]
          /\ g[i][Len(q) + 1] = b
      BY <3>1, AppendProperties, LenProperties
    <3>3. \A j \in 1..Len(q) : \E m \in 1..i - 1 : IsOwn(s[m]) /\ q[j] = Brief(s[m])
      BY <2>2
    <3>4. \A m \in 1..i - 1 : IsOwn(s[m]) => \E j \in 1..Len(q) : q[j] = Brief(s[m])
      BY <2>2
    <3>5. \A j, l \in 1..Len(q) : q[j].name = q[l].name => j = l
      BY <2>2
    <3> HIDE DEF q, b
    <3>6. \A j \in 1..Len(g[i]) : j \in 1..Len(q) \/ j = Len(q) + 1
      BY <3>2
    <3>7. From1(i)
      BY <2>1, <2>4, <3>2, <3>3, <3>6 DEF b
    <3>8. All(i)
      <4>1. Len(q) + 1 \in 1..Len(g[i]) /\ \A j \in 1..Len(q) : j \in 1..Len(g[i])
        BY <3>2
      <4> QED
        BY <2>1, <3>2, <3>4, <4>1 DEF b
    <3>9. \A j \in 1..Len(q) : q[j].name # b.name
      <4> SUFFICES ASSUME NEW j \in 1..Len(q), q[j].name = b.name PROVE FALSE
        OBVIOUS
      <4>1. PICK m \in 1..i - 1 : IsOwn(s[m]) /\ q[j] = Brief(s[m])
        BY <3>3
      <4>2. m = i
        BY <1>4, <2>1, <2>4, <4>1 DEF b
      <4> QED
        BY <2>1, <4>2
    <3>10. Once(i)
      BY <3>2, <3>5, <3>6, <3>9
    <3> QED
      BY <2>1, <3>7, <3>8, <3>10
  <2> QED
    BY <2>3, <2>4
<1> HIDE DEF S
<1>7. Len(s) \in S
  <2>1. \A i \in 0..Len(s) : i \in S
    BY <1>1, <1>5, <1>6, UpTo
  <2> QED
    BY <1>1, <2>1
<1>8. OwnPart(s) = g[Len(s)]
  BY DEF OwnPart, g
<1>9. From1(Len(s)) /\ All(Len(s)) /\ Once(Len(s))
  BY <1>7 DEF S
<1> QED
  BY <1>8, <1>9

(* An instance has its own name for what it takes from a standard module.  *)
LEMMA SameCardinality == \A S : ClusterInformer!Cardinality(S) = Cardinality(S)
BY DEF ClusterInformer!Cardinality, Cardinality

LEMMA RepeatIsAnOrder ==
  ASSUME TypeOK, IsFiniteSet(Present), NEW f \in Orders(Present), NEW type \in {"add", "update"}
  PROVE  \E g \in ClusterInformer!Orders(ClusterInformer!Present) :
           OwnPart(Repeat(type, f)) =
             [i \in 1..ClusterInformer!Cardinality(ClusterInformer!Present) |->
                ClusterInformer!Notification(type, g[i], [n \in Name |-> store[<<clusterName, n>>]][g[i]])]
<1> DEFINE s == Repeat(type, f)
           q == OwnPart(s)
           P == {n \in Name : store[OwnKey(n)] # Absent}
           g == [j \in 1..Len(q) |-> q[j].name]
<1>1. /\ s \in Seq(Notifications)
      /\ \A i \in 1..Len(s) :
           s[i].type = type /\ s[i].object.key = f[i] /\ After(s[i]) = store[f[i]]
      /\ Len(s) = Cardinality(Present)
  BY RepeatFacts
<1>2. /\ \A i \in 1..Len(s) : f[i] \in Present
      /\ \A k \in Present : \E i \in 1..Len(s) : f[i] = k
      /\ \A i, j \in 1..Len(s) : f[i] = f[j] => i = j
  BY <1>1, OrderFacts
<1> HIDE DEF s
<1>3. \A i, j \in 1..Len(s) : s[i].object.key = s[j].object.key => i = j
  BY <1>1, <1>2
<1>4. \A i \in 1..Len(s) :
        IsOwn(s[i]) => /\ f[i][2] \in P /\ f[i] = OwnKey(f[i][2])
                       /\ Brief(s[i]) = [type |-> type, name |-> f[i][2], version |-> store[f[i]]]
  <2> SUFFICES ASSUME NEW i \in 1..Len(s), IsOwn(s[i])
               PROVE  /\ f[i][2] \in P /\ f[i] = OwnKey(f[i][2])
                      /\ Brief(s[i]) = [type |-> type, name |-> f[i][2], version |-> store[f[i]]]
    OBVIOUS
  <2>1. f[i] \in Cluster \X Name /\ store[f[i]] # Absent /\ f[i][1] = clusterName
    BY <1>1, <1>2 DEF IsOwn, From, Present, Key
  <2>2. f[i][2] \in Name /\ f[i] = <<clusterName, f[i][2]>>
    BY <2>1
  <2> QED
    BY <1>1, <2>1, <2>2 DEF Brief, OwnKey
<1>5. /\ q \in Seq(Briefs)
      /\ \A j \in 1..Len(q) : \E i \in 1..Len(s) : IsOwn(s[i]) /\ q[j] = Brief(s[i])
      /\ \A i \in 1..Len(s) : IsOwn(s[i]) => \E j \in 1..Len(q) : q[j] = Brief(s[i])
      /\ \A j, l \in 1..Len(q) : q[j].name = q[l].name => j = l
  BY <1>1, <1>3, OwnPartHolds, OwnPartType
<1> HIDE DEF q
<1>6. \A j \in 1..Len(q) :
        q[j].name \in P
        /\ q[j] = [type |-> type, name |-> q[j].name, version |-> store[OwnKey(q[j].name)]]
  <2> TAKE j \in 1..Len(q)
  <2>1. PICK i \in 1..Len(s) : IsOwn(s[i]) /\ q[j] = Brief(s[i])
    BY <1>5
  <2>2. f[i][2] \in P /\ f[i] = OwnKey(f[i][2])
    BY <1>4, <2>1
  <2>3. q[j] = [type |-> type, name |-> f[i][2], version |-> store[f[i]]]
    BY <1>4, <2>1
  <2>4. q[j].name = f[i][2]
    BY <2>3
  <2> QED
    BY <2>2, <2>3, <2>4
<1>7. \A n \in P : \E j \in 1..Len(q) : q[j].name = n
  <2> TAKE n \in P
  <2>1. OwnKey(n) \in Present
    BY OwnKeys DEF Present
  <2>2. PICK i \in 1..Len(s) : f[i] = OwnKey(n)
    BY <1>2, <2>1
  <2>3. IsOwn(s[i])
    BY <1>1, <2>2 DEF IsOwn, From, OwnKey
  <2>4. PICK j \in 1..Len(q) : q[j] = Brief(s[i])
    BY <1>5, <2>3
  <2>5. f[i][2] = n
    BY <2>2 DEF OwnKey
  <2>6. q[j] = [type |-> type, name |-> n, version |-> store[f[i]]]
    BY <1>4, <2>3, <2>4, <2>5
  <2>7. q[j].name = n
    BY <2>6
  <2> QED
    BY <2>7
<1>8. Len(q) \in Nat
  BY <1>5, LenProperties
<1> HIDE DEF P
<1>9. /\ g \in [1..Len(q) -> P]
      /\ \A n \in P : \E j \in 1..Len(q) : g[j] = n
      /\ \A j, l \in 1..Len(q) : g[j] = g[l] => j = l
  BY <1>5, <1>6, <1>7
<1>10. Cardinality(P) = Len(q)
  <2> HIDE DEF g
  <2>1. g \in Bijection(1..Len(q), P)
    <3>1. g \in Injection(1..Len(q), P)
      BY <1>9 DEF Injection, IsInjective
    <3>2. g \in Surjection(1..Len(q), P)
      BY <1>9 DEF Surjection
    <3> QED
      BY <3>1, <3>2 DEF Bijection
  <2>2. IsFiniteSet(1..Len(q)) /\ Cardinality(1..Len(q)) = Len(q)
    <3>1. 1 \in Int /\ Len(q) \in Int
      BY <1>8
    <3>2. /\ IsFiniteSet(1..Len(q))
          /\ Cardinality(1..Len(q)) = IF 1 > Len(q) THEN 0 ELSE Len(q) - 1 + 1
      BY <3>1, FS_Interval
    <3> QED
      BY <1>8, <3>2
  <2>3. ExistsBijection(1..Len(q), P)
    BY <2>1 DEF ExistsBijection
  <2> QED
    BY <2>2, <2>3, FS_Bijection
<1>11. ClusterInformer!Present = P
  BY DEF ClusterInformer!Present, P, OwnKey
<1>12. g \in ClusterInformer!Orders(P)
  <2> HIDE DEF g
  <2>1. ClusterInformer!Cardinality(P) = Len(q)
    BY <1>10, SameCardinality
  <2> QED
    BY <1>9, <2>1 DEF ClusterInformer!Orders
<1>13. q = [i \in 1..ClusterInformer!Cardinality(P) |->
              ClusterInformer!Notification(type, g[i], [n \in Name |-> store[<<clusterName, n>>]][g[i]])]
  <2>1. q = [i \in 1..Len(q) |-> q[i]]
    BY <1>5
  <2>2. \A i \in 1..Len(q) :
          q[i] = ClusterInformer!Notification(type, g[i], [n \in Name |-> store[<<clusterName, n>>]][g[i]])
    BY <1>6 DEF ClusterInformer!Notification, OwnKey, P
  <2>3. ClusterInformer!Cardinality(P) = Len(q)
    BY <1>10, SameCardinality
  <2> HIDE DEF g
  <2> QED
    BY <2>1, <2>2, <2>3
<1> HIDE DEF g
<1> QED
  BY <1>11, <1>12, <1>13 DEF q, s

-----------------------------------------------------------------------------
(* The steps.                                                              *)

Objects == [n \in Name |-> store[<<clusterName, n>>]]

LEMMA InformerInit == Init => ClusterInformer!Init
<1> SUFFICES ASSUME Init PROVE ClusterInformer!Init
  OBVIOUS
<1>1. OwnPart(pending) = <<>>
  BY OwnPartEmpty DEF Init
<1>2. [n \in Name |-> store[<<clusterName, n>>]] = [n \in Name |-> Absent]
  BY OwnKeys DEF Init, OwnKey
<1> QED
  BY <1>1, <1>2 DEF Init, ClusterInformer!Init

(* The API server is ahead of every informer.                              *)
LEMMA WriteStutters ==
  ASSUME NEW k \in Key, NEW v \in State, Write(k, v)
  PROVE  UNCHANGED ClusterInformer!vars
BY DEF Write, ClusterInformer!vars, OwnPart, OwnUpTo, IsOwn, Brief, From, After

(* What the wildcard informer sees of another cluster is not seen; what it *)
(* sees of this one is a change of the cluster's object.                   *)
LEMMA ObserveIsChange ==
  ASSUME Inductive, NEW k \in Key, NEW relist \in BOOLEAN, Observe(k, relist)
  PROVE  [ClusterInformer!Next]_(ClusterInformer!vars)
<1> DEFINE m == IF server[k] = Absent THEN Notification("delete", k, store[k], relist)
                ELSE Notification(IF store[k] = Absent THEN "add" ELSE "update",
                                  k, server[k], FALSE)
<1>1. /\ TypeOK /\ store[k] # server[k] /\ store[k] \in State /\ server[k] \in State
      /\ store' = [store EXCEPT ![k] = server[k]]
      /\ Enqueue(<<m>>)
      /\ UNCHANGED <<server, added, told>>
  BY DEF Inductive, ScopedInv, Observe, TypeOK
<1>2. /\ m \in Notifications
      /\ IsOwn(m) <=> k[1] = clusterName
      /\ Brief(m) = [type |-> IF server[k] = Absent THEN "delete"
                              ELSE IF store[k] = Absent THEN "add" ELSE "update",
                     name |-> k[2], version |-> server[k]]
  BY <1>1 DEF Notification, Notifications, After, State, IsOwn, From, Brief
<1> HIDE DEF m
<1>3. OwnPart(pending)' = IF added THEN OwnPart(pending) \o OwnPart(<<m>>) ELSE OwnPart(pending)
  <2>1. OwnPart(pending)' = OwnPart(pending')
    BY DEF OwnPart, OwnUpTo, IsOwn, Brief, From, After
  <2>2. pending \in Seq(Notifications) /\ <<m>> \in Seq(Notifications)
    BY <1>1, <1>2 DEF TypeOK, Notifications
  <2>3. OwnPart(pending \o <<m>>) = OwnPart(pending) \o OwnPart(<<m>>)
    BY <2>2, OwnPartConcat
  <2> QED
    BY <1>1, <2>1, <2>3 DEF Enqueue
<1>4. OwnPart(pending) \in Seq(Briefs)
  BY <1>1, OwnPartType DEF TypeOK, Notifications
<1>5. CASE k[1] # clusterName
  <2>1. \A n \in Name : store'[<<clusterName, n>>] = store[<<clusterName, n>>]
    BY <1>1, <1>5, OwnKeys DEF OwnKey, TypeOK
  <2>2. OwnPart(pending)' = OwnPart(pending)
    BY <1>2, <1>3, <1>4, <1>5, OwnPartOne, ConcatEmptySeq
  <2> QED
    BY <1>1, <2>1, <2>2 DEF ClusterInformer!vars
<1>6. CASE k[1] = clusterName
  <2>1. PICK o \in Name, w \in Version \cup {Absent} :
          k = <<clusterName, o>> /\ k[2] = o /\ w = server[k]
    BY <1>1, <1>6 DEF Key, State
  <2>2. Objects' = [Objects EXCEPT ![o] = w] /\ Objects[o] = store[k] /\ Objects[o] # w
    <3>1. \A n \in Name : <<clusterName, n>> \in Key /\ (<<clusterName, n>> = k <=> n = o)
      BY <2>1, OwnKeys DEF OwnKey
    <3>2. \A n \in Name :
            store'[<<clusterName, n>>] = IF n = o THEN w ELSE store[<<clusterName, n>>]
      <4>1. \A q \in Key : store'[q] = IF q = k THEN w ELSE store[q]
        BY <1>1, <2>1 DEF TypeOK
      <4> QED
        BY <3>1, <4>1
    <3>3. Objects' = [Objects EXCEPT ![o] = w]
      BY <3>2 DEF Objects
    <3> QED
      BY <1>1, <2>1, <3>3 DEF Objects
  <2>3. OwnPart(<<m>>) = <<Brief(m)>>
    BY <1>2, <1>6, OwnPartOne
  <2>4. OwnPart(pending) \o <<Brief(m)>> = Append(OwnPart(pending), Brief(m))
    BY <1>2, <1>4, BriefType, AppendIsConcat
  <2>5. OwnPart(pending)' =
          IF ~added THEN OwnPart(pending)
          ELSE Append(OwnPart(pending),
                      ClusterInformer!Notification(IF w = Absent THEN "delete"
                                                   ELSE IF Objects[o] = Absent THEN "add"
                                                   ELSE "update", o, w))
    BY <1>2, <1>3, <2>1, <2>2, <2>3, <2>4 DEF ClusterInformer!Notification
  <2>6. ClusterInformer!Change(o, w)
    BY <1>1, <2>2, <2>5 DEF ClusterInformer!Change, Objects
  <2> QED
    BY <2>6 DEF ClusterInformer!Next
<1> QED
  BY <1>5, <1>6

LEMMA ResyncIsResync ==
  ASSUME Inductive, Resync
  PROVE  ClusterInformer!Resync
<1>1. PICK f \in Orders(Present) : Enqueue(Repeat("update", f))
  BY DEF Resync
<1>2. /\ TypeOK /\ IsFiniteSet(Present) /\ added /\ WithResync
      /\ UNCHANGED <<server, store, added, told>>
  BY DEF Inductive, ScopedInv, Resync
<1>3. /\ pending' = pending \o Repeat("update", f)
      /\ pending \in Seq(Notifications) /\ Repeat("update", f) \in Seq(Notifications)
  BY <1>1, <1>2, RepeatFacts DEF Enqueue, TypeOK, Notifications
<1>4. OwnPart(pending)' = OwnPart(pending) \o OwnPart(Repeat("update", f))
  <2>1. OwnPart(pending)' = OwnPart(pending')
    BY DEF OwnPart, OwnUpTo, IsOwn, Brief, From, After
  <2> QED
    BY <1>3, <2>1, OwnPartConcat
<1>5. PICK g \in ClusterInformer!Orders(ClusterInformer!Present) :
        OwnPart(Repeat("update", f)) =
          [i \in 1..ClusterInformer!Cardinality(ClusterInformer!Present) |->
             ClusterInformer!Notification("update", g[i], [n \in Name |-> store[<<clusterName, n>>]][g[i]])]
  BY <1>2, RepeatIsAnOrder
<1> QED
  BY <1>2, <1>4, <1>5 DEF ClusterInformer!Resync

LEMMA AddIsAdd ==
  ASSUME Inductive, AddEventHandler
  PROVE  ClusterInformer!AddHandler
<1>1. PICK f \in Orders(Present) : pending' = Repeat("add", f)
  BY DEF AddEventHandler
<1>2. /\ TypeOK /\ IsFiniteSet(Present) /\ ~added /\ added' = TRUE
      /\ UNCHANGED <<server, store, told>>
  BY DEF Inductive, ScopedInv, AddEventHandler
<1>3. OwnPart(pending)' = OwnPart(Repeat("add", f))
  BY <1>1 DEF OwnPart, OwnUpTo, IsOwn, Brief, From, After
<1>4. PICK g \in ClusterInformer!Orders(ClusterInformer!Present) :
        OwnPart(Repeat("add", f)) =
          [i \in 1..ClusterInformer!Cardinality(ClusterInformer!Present) |->
             ClusterInformer!Notification("add", g[i], [n \in Name |-> store[<<clusterName, n>>]][g[i]])]
  BY <1>2, RepeatIsAnOrder
<1> QED
  BY <1>2, <1>3, <1>4 DEF ClusterInformer!AddHandler

(* The handler is called, or the notification was not for it.              *)
LEMMA DeliverIsDeliver ==
  ASSUME Inductive, Deliver
  PROVE  [ClusterInformer!Next]_(ClusterInformer!vars)
<1> DEFINE h == Head(pending)
<1>1. /\ TypeOK /\ pending # <<>> /\ pending \in Seq(Notifications)
      /\ Wrapped(h) /\ pending' = Tail(pending) /\ UNCHANGED <<server, store, added>>
  BY DEF Inductive, ScopedInv, Deliver, TypeOK, Notifications
<1>2. OwnPart(pending)' = OwnPart(Tail(pending))
  BY <1>1 DEF OwnPart, OwnUpTo, IsOwn, Brief, From, After
<1>3. CASE ~IsOwn(h)
  <2>1. OwnPart(pending)' = OwnPart(pending) /\ told' = told
    BY <1>1, <1>2, <1>3, OwnPartTail DEF Wrapped, NotCalled, IsOwn
  <2> QED
    BY <1>1, <2>1 DEF ClusterInformer!vars
<1>4. CASE IsOwn(h)
  <2>1. /\ OwnPart(pending) # <<>>
        /\ Head(OwnPart(pending)) = Brief(h)
        /\ OwnPart(pending)' = Tail(OwnPart(pending))
    BY <1>1, <1>2, <1>4, OwnPartTail
  <2>2. told' = [told EXCEPT ![Brief(h).name] = Brief(h).version]
    BY <1>1, <1>4 DEF Wrapped, Called, IsOwn, Brief
  <2>3. ClusterInformer!Deliver
    BY <1>1, <2>1, <2>2 DEF ClusterInformer!Deliver
  <2> QED
    BY <2>3 DEF ClusterInformer!Next
<1> QED
  BY <1>3, <1>4

(* The scoped informer is an informer of its cluster alone: whatever the   *)
(* other clusters do, its handler is told what an informer would tell it   *)
(* that knew no other cluster (cache.go:118-176).                          *)
THEOREM ScopedIsAnInformer == Spec => ImplementsInformer
<1>1. Inductive /\ [Next]_vars => [ClusterInformer!Next]_(ClusterInformer!vars)
  <2> SUFFICES ASSUME Inductive, [Next]_vars
               PROVE  [ClusterInformer!Next]_(ClusterInformer!vars)
    OBVIOUS
  <2>1. CASE UNCHANGED vars
    BY <2>1 DEF vars, ClusterInformer!vars, OwnPart, OwnUpTo, IsOwn, Brief, From, After
  <2>2. ASSUME NEW k \in Key, NEW v \in State, Write(k, v)
        PROVE  UNCHANGED ClusterInformer!vars
    BY <2>2, WriteStutters
  <2>3. Resync => ClusterInformer!Next
    BY ResyncIsResync DEF ClusterInformer!Next
  <2>4. AddEventHandler => ClusterInformer!Next
    BY AddIsAdd DEF ClusterInformer!Next
  <2> QED
    BY <2>1, <2>2, <2>3, <2>4, ObserveIsChange, DeliverIsDeliver DEF Next
<1> QED
  BY <1>1, InformerInit, AlwaysInductive, PTL DEF Spec, ImplementsInformer, ClusterInformer!Spec

=============================================================================
