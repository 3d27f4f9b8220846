------------------------- MODULE ScopedReaderProofs -------------------------
(***************************************************************************)
(* Proof that the reader of a logical cluster cannot tell the store that   *)
(* all clusters share from one of its own: every step of CacheReader is,   *)
(* with the objects of other clusters taken away, a step of CacheReader    *)
(* where this cluster is the only one, or nothing.                         *)
(***************************************************************************)
EXTENDS ScopedReader, CacheReaderProofs

(* An instance has its own name for what it takes from a standard module.  *)
LEMMA SameCardinality == \A S : Alone!Cardinality(S) = Cardinality(S)
BY DEF Alone!Cardinality, Cardinality

LEMMA SameOrders == \A S : Alone!Orders(S) = Orders(S)
BY SameCardinality DEF Alone!Orders, Orders

(* What does not depend on the store or on the other clusters.             *)
LEMMA SameRequests ==
  /\ Alone!GetOptions = GetOptions
  /\ \A o : Alone!Refused(o) <=> Refused(o)
  /\ \A o : Alone!StoreKey(o) = StoreKey(o)
  /\ \A name : Alone!Indexed(name) <=> Indexed(name)
  /\ Alone!LimitReached <=> LimitReached
  /\ \A x : Alone!LabelMatches(x) <=> LabelMatches(x)
<1>1. Alone!GetOptions = GetOptions
  BY DEF Alone!GetOptions, Alone!AnyNamespace, GetOptions, AnyNamespace
<1>2. \A o : Alone!Refused(o) <=> Refused(o)
  BY DEF Alone!Refused, Alone!RequiresExactMatch, Refused, RequiresExactMatch
<1>3. \A o : Alone!StoreKey(o) = StoreKey(o)
  BY DEF Alone!StoreKey, StoreKey
<1>4. \A name : Alone!Indexed(name) <=> Indexed(name)
  BY DEF Alone!Indexed, Alone!ClusterIndexName, Alone!ClusterAndNamespaceIndexName,
         Alone!FieldIndexName, Alone!IndexedFieldName,
         Indexed, ClusterIndexName, ClusterAndNamespaceIndexName,
         FieldIndexName, IndexedFieldName
<1>5. Alone!LimitReached <=> LimitReached
  BY DEF Alone!LimitReached, LimitReached
<1>6. \A x : Alone!LabelMatches(x) <=> LabelMatches(x)
  BY DEF Alone!LabelMatches, LabelMatches
<1> QED
  BY <1>1, <1>2, <1>3, <1>4, <1>5, <1>6

(* The keys of the cluster, and the objects under them.                    *)
LEMMA OwnKeys ==
  /\ Alone!Key = OwnKey
  /\ OwnKey \subseteq Key
  /\ \A k \in Key : k \in OwnKey <=> k.cluster = clusterName
<1>1. clusterName \in Cluster
  BY CacheReaderAssumption
<1>2. Alone!Key = [cluster : {clusterName}, namespace : AnyNamespace, name : Name]
  BY DEF Alone!Key, Alone!AnyNamespace, AnyNamespace
<1> QED
  BY <1>1, <1>2 DEF OwnKey, Key

LEMMA SameStored == Alone!Stored = OwnObjects /\ Alone!OwnObjects = OwnObjects
<1>1. Alone!Object = [key : OwnKey, value : Value]
  BY OwnKeys DEF Alone!Object
<1>2. \A o \in Object : o \in Alone!Object <=> o.key.cluster = clusterName
  BY <1>1, OwnKeys DEF Object
<1>3. Alone!Object \subseteq Object
  BY <1>1, OwnKeys DEF Object
<1>4. \A o \in Alone!Object : o.key \in OwnKey
  BY <1>1
<1>5. Alone!Stored = {o \in Alone!Object : store[o.key] = o.value}
  BY <1>4 DEF Alone!Stored
<1>6. Alone!Stored = OwnObjects
  BY <1>2, <1>3, <1>5 DEF Stored, OwnObjects
<1>7. Alone!OwnObjects = OwnObjects
  BY <1>6 DEF Alone!OwnObjects, OwnObjects
<1> QED
  BY <1>6, <1>7

LEMMA SameIndex == \A name, x : Alone!IndexFunc(name, x) = IndexFunc(name, x)
<1>1. \A x : Alone!FieldIndexFunc(x) = FieldIndexFunc(x)
  BY DEF Alone!FieldIndexFunc, Alone!KeyToNamespacedKey, FieldIndexFunc, KeyToNamespacedKey
<1> QED
  BY <1>1
     DEF Alone!IndexFunc, Alone!ClusterIndexName, Alone!ClusterAndNamespaceIndexName,
         Alone!ClusterIndexKey, Alone!ClusterAndNamespaceIndexKey,
         IndexFunc, ClusterIndexName, ClusterAndNamespaceIndexName,
         ClusterIndexKey, ClusterAndNamespaceIndexKey

(* What the indexes yield, less what is not the cluster's.                 *)
LEMMA OwnOfIndex ==
  /\ \A name, value : Alone!ByIndex(name, value) = ByIndex(name, value) \cap OwnObjects
  /\ \A o, n : Alone!Satisfying(o, n) = Satisfying(o, n) \cap OwnObjects
<1>1. \A name, value : Alone!ByIndex(name, value) = ByIndex(name, value) \cap OwnObjects
  BY SameStored, SameIndex, StoredType DEF Alone!ByIndex, ByIndex
<1>2. \A o, req : Alone!IndexedValue(o, req) = IndexedValue(o, req)
  BY DEF Alone!IndexedValue, Alone!KeyToClusteredKey, Alone!KeyToNamespacedKey,
         IndexedValue, KeyToClusteredKey, KeyToNamespacedKey
<1>3. \A f : Alone!FieldIndexName(f) = FieldIndexName(f)
  BY DEF Alone!FieldIndexName, FieldIndexName
<1>4. \A o, n : Alone!Satisfying(o, n) = Satisfying(o, n) \cap OwnObjects
  BY <1>2, <1>3, SameStored, SameIndex, StoredType DEF Alone!Satisfying, Satisfying
<1> QED
  BY <1>1, <1>4

(* So a List has the same items, and misses the same indexes.              *)
LEMMA SameItems ==
  ASSUME NEW o \in ListOptions, ~Refused(o)
  PROVE  Alone!Items(o) = Items(o)
<1>1. Alone!Items(o) = Items(o) \cap OwnObjects
  BY OwnOfIndex
     DEF Alone!Items, Alone!ClusterIndexName, Alone!ClusterAndNamespaceIndexName,
         Alone!ClusterIndexKey, Alone!ClusterAndNamespaceIndexKey,
         Items, ClusterIndexName, ClusterAndNamespaceIndexName,
         ClusterIndexKey, ClusterAndNamespaceIndexKey
<1>2. Items(o) \subseteq OwnObjects
  BY ItemsOwn
<1> QED
  BY <1>1, <1>2

LEMMA SameMissing ==
  ASSUME NEW o \in ListOptions, o.fields # Nil, ~Refused(o)
  PROVE  Alone!MissingIndex(o) <=> MissingIndex(o)
<1>1. DOMAIN o.fields = 1..Len(o.fields) /\ Len(o.fields) \in Nat
  BY SelectorLength
<1>2. ASSUME NEW i \in DOMAIN o.fields, i # 1
      PROVE  Satisfying(o, i - 1) = {} /\ Alone!Satisfying(o, i - 1) = {}
  <2>1. i - 1 \in Nat \ {0}
    BY <1>1, <1>2
  <2>2. Satisfying(o, i - 1) = {}
    BY <2>1, FieldsFindNothing
  <2> QED
    BY <2>2, OwnOfIndex
<1>3. \A i \in DOMAIN o.fields :
        Alone!Indexed(Alone!FieldIndexName(o.fields[i].field))
          <=> Indexed(FieldIndexName(o.fields[i].field))
  BY SameRequests DEF Alone!FieldIndexName, FieldIndexName
<1> QED
  BY <1>2, <1>3 DEF Alone!MissingIndex, MissingIndex

-----------------------------------------------------------------------------
(* The steps.                                                              *)

LEMMA InitAlone == Init => Alone!Init
<1> SUFFICES ASSUME Init PROVE Alone!Init
  OBVIOUS
<1>1. [k \in OwnKey |-> store[k]] = [k \in Alone!Key |-> Absent]
  BY OwnKeys DEF Init
<1> QED
  BY <1>1 DEF Init, Alone!Init, NoRequest, Alone!NoRequest

(* The informer changes the object under one key.                          *)
LEMMA OwnStore ==
  ASSUME TypeOK, NEW k \in Key, NEW v, store' = [store EXCEPT ![k] = v]
  PROVE  [j \in OwnKey |-> store'[j]] =
           IF k \in OwnKey THEN [[j \in OwnKey |-> store[j]] EXCEPT ![k] = v]
                           ELSE [j \in OwnKey |-> store[j]]
<1>1. \A j \in OwnKey : store'[j] = IF j = k THEN v ELSE store[j]
  BY OwnKeys DEF TypeOK
<1> QED
  BY <1>1

LEMMA StoreAlone ==
  ASSUME TypeOK, NEW k \in Key, Remove(k) \/ \E v \in Value : Put(k, v)
  PROVE  [Alone!Next]_(Alone!vars)
<1> DEFINE own == [j \in OwnKey |-> store[j]]
<1>1. PICK v \in Value \cup {Absent} :
        /\ store' = [store EXCEPT ![k] = v]
        /\ UNCHANGED <<scopeName, fieldIndexes, pc, opts, todo, out, status, asked>>
        /\ store[k] # v
        /\ v \in Value => InScope(k)
  BY CacheReaderAssumption DEF Remove, Put, TypeOK
<1>2. CASE k \in OwnKey
  <2>1. [j \in OwnKey |-> store'[j]] = [own EXCEPT ![k] = v] /\ own[k] = store[k]
    BY <1>1, <1>2, OwnStore
  <2>2. k \in Alone!Key
    BY <1>2, OwnKeys
  <2>3. CASE v \in Value
    <3>1. Alone!InScope(k)
      BY <1>1, <2>3 DEF InScope, Alone!InScope
    <3>2. Alone!Put(k, v)
      BY <1>1, <2>1, <3>1 DEF Alone!Put
    <3> QED
      BY <2>2, <2>3, <3>2 DEF Alone!Next
  <2>4. CASE v = Absent
    <3>1. Alone!Remove(k)
      BY <1>1, <2>1, <2>4 DEF Alone!Remove
    <3> QED
      BY <2>2, <3>1 DEF Alone!Next
  <2> QED
    BY <2>3, <2>4
<1>3. CASE k \notin OwnKey
  <2>1. [j \in OwnKey |-> store'[j]] = own
    BY <1>1, <1>3, OwnStore
  <2> QED
    BY <1>1, <2>1 DEF Alone!vars
<1> QED
  BY <1>2, <1>3

LEMMA GetAlone ==
  ASSUME NEW o \in GetOptions, Get(o)
  PROVE  Alone!Next
<1> DEFINE k == StoreKey(o)
<1>1. k \in Key <=> k \in Alone!Key
  <2>1. k.cluster = clusterName
    BY DEF StoreKey
  <2> QED
    BY <2>1, OwnKeys
<1>2. k \in Alone!Key => [j \in OwnKey |-> store[j]][k] = store[k]
  BY OwnKeys
<1>3. Alone!StoreKey(o) = k /\ Alone!OwnObjects = OwnObjects
  BY SameRequests, SameStored
<1> HIDE DEF k
<1>4. /\ pc = "idle" /\ opts' = o /\ asked' = OwnObjects
      /\ UNCHANGED <<scopeName, store, fieldIndexes, pc, todo>>
      /\ IF k \in Key /\ store[k] # Absent
         THEN status' = "ok" /\ out' = <<[key |-> k, value |-> store[k]]>>
         ELSE status' = "notfound" /\ out' = <<>>
  BY DEF Get, k
<1>5. Alone!Get(o)
  BY <1>1, <1>2, <1>3, <1>4 DEF Alone!Get
<1> QED
  BY <1>5, SameRequests DEF Alone!Next

LEMMA AnswerAlone ==
  ASSUME NEW o, NEW result, Answer(o, result)
  PROVE  Alone!Answer(o, result)
BY SameStored DEF Answer, Alone!Answer

LEMMA ListAlone ==
  ASSUME NEW o \in Queries, ListRefused(o) \/ ListNoIndex(o) \/ List(o)
  PROVE  Alone!Next
<1>0. o \in ListOptions
  BY QueriesAssumption
<1>1. CASE ListRefused(o)
  <2>1. Alone!ListRefused(o)
    BY <1>1, AnswerAlone, SameRequests DEF ListRefused, Alone!ListRefused
  <2> QED
    BY <2>1 DEF Alone!Next
<1>2. CASE ListNoIndex(o)
  <2>1. Alone!ListNoIndex(o)
    BY <1>0, <1>2, AnswerAlone, SameRequests, SameMissing DEF ListNoIndex, Alone!ListNoIndex
  <2> QED
    BY <2>1 DEF Alone!Next
<1>3. CASE List(o)
  <2>1. ~Refused(o) /\ ~Alone!Refused(o)
    BY <1>3, SameRequests DEF List
  <2>2. o.fields # Nil => ~Alone!MissingIndex(o)
    BY <1>0, <1>3, <2>1, SameMissing DEF List
  <2>3. todo' \in Alone!Orders(Alone!Items(o))
    BY <1>0, <1>3, <2>1, SameItems, SameOrders DEF List
  <2>4. Alone!List(o)
    BY <1>3, <2>1, <2>2, <2>3, SameStored DEF List, Alone!List
  <2> QED
    BY <2>4 DEF Alone!Next
<1> QED
  BY <1>1, <1>2, <1>3

LEMMA LoopAlone ==
  ASSUME Collect \/ FinishList
  PROVE  Alone!Next
<1>1. CASE Collect
  <2>1. Alone!Collect
    BY <1>1, SameRequests DEF Collect, Alone!Collect
  <2> QED
    BY <2>1 DEF Alone!Next
<1>2. CASE FinishList
  <2>1. Alone!FinishList
    BY <1>2, SameRequests DEF FinishList, Alone!FinishList
  <2> QED
    BY <2>1 DEF Alone!Next
<1> QED
  BY <1>1, <1>2

(* The reader of a cluster reads as if the cluster were alone              *)
(* (forked_cache_reader.go:63-204; indexes.go:27-53; wildcard.go:147-158). *)
THEOREM ScopedReadsAlone == Spec => ReadsAlone
<1>1. Init => Alone!Init
  BY InitAlone
<1>2. TypeOK /\ [Next]_vars => [Alone!Next]_(Alone!vars)
  <2> SUFFICES ASSUME TypeOK, [Next]_vars PROVE [Alone!Next]_(Alone!vars)
    OBVIOUS
  <2>1. CASE \E k \in Key : Remove(k) \/ \E v \in Value : Put(k, v)
    BY <2>1, StoreAlone
  <2>2. CASE \E f \in Field : IndexField(f)
    BY <2>2 DEF IndexField, Alone!IndexField, Alone!Next
  <2>3. CASE \E o \in GetOptions : Get(o)
    BY <2>3, GetAlone
  <2>4. CASE \E o \in Queries : ListRefused(o) \/ ListNoIndex(o) \/ List(o)
    BY <2>4, ListAlone
  <2>5. CASE Collect \/ FinishList
    BY <2>5, LoopAlone
  <2>6. CASE UNCHANGED vars
    BY <2>6 DEF vars, Alone!vars
  <2> QED
    BY <2>1, <2>2, <2>3, <2>4, <2>5, <2>6 DEF Next
<1>3. ReaderInv => TypeOK
  BY DEF ReaderInv
<1> QED
  BY <1>1, <1>2, <1>3, ReaderInvariant, PTL DEF Spec, ReadsAlone, Alone!Spec

=============================================================================
