-------------------------- MODULE CacheReaderProofs --------------------------
(***************************************************************************)
(* Proofs about CacheReader: ReaderInv is inductive, hence what Get and    *)
(* List return is exact for every set of clusters, namespaces, names,      *)
(* values and options.                                                     *)
(***************************************************************************)
EXTENDS CacheReader, FiniteSetTheorems, SequenceTheorems, TLAPS

(* What is stored is an object.                                            *)
LEMMA StoredType == Stored \subseteq Object /\ OwnObjects \subseteq Stored
BY DEF Stored, OwnObjects

(* An order of finitely many objects is a sequence of them, each once.     *)
LEMMA OrdersType ==
  ASSUME NEW S \in SUBSET Object, NEW f \in Orders(S)
  PROVE  f \in Seq(Object) /\ Injective(f) /\ Elements(f) = S
<1>1. IsFiniteSet(S)
  BY ObjectAssumption, FS_Subset
<1>2. Cardinality(S) \in Nat
  BY <1>1, FS_CardinalityType
<1>3. f \in [1..Cardinality(S) -> S]
  BY DEF Orders
<1>4. f \in Seq(Object)
  BY <1>2, <1>3, IsASeq
<1>5. DOMAIN f = 1..Cardinality(S)
  BY <1>3
<1>6. Injective(f)
  BY <1>5 DEF Orders, Injective
<1>7. Elements(f) = S
  BY <1>3, <1>5 DEF Orders, Elements
<1> QED
  BY <1>4, <1>6, <1>7

(* The indexes select the objects of the reader's cluster, and of the      *)
(* namespace if there is one: the prefix in the keys is enough.            *)
LEMMA ItemsExact ==
  ASSUME NEW o \in ListOptions, o.fields = Nil
  PROVE  Items(o) = {x \in OwnObjects : o.namespace \in {NoNamespace, x.key.namespace}}
<1>1. CASE o.namespace # NoNamespace
  <2>1. ASSUME NEW x \in Stored
        PROVE  ClusterAndNamespaceIndexKey(clusterName, o.namespace)
                 \in IndexFunc(ClusterAndNamespaceIndexName, x)
               <=> x.key.cluster = clusterName /\ x.key.namespace = o.namespace
    <3>1. ClusterIndexName # ClusterAndNamespaceIndexName
      BY DEF ClusterIndexName, ClusterAndNamespaceIndexName
    <3>2. IndexFunc(ClusterAndNamespaceIndexName, x)
            = {ClusterAndNamespaceIndexKey(x.key.cluster, x.key.namespace)}
      BY <3>1 DEF IndexFunc
    <3> QED
      BY <3>2 DEF ClusterAndNamespaceIndexKey
  <2> QED
    BY <1>1, <2>1 DEF Items, ByIndex, OwnObjects
<1>2. CASE o.namespace = NoNamespace
  <2>1. ASSUME NEW x \in Stored
        PROVE  ClusterIndexKey(clusterName) \in IndexFunc(ClusterIndexName, x)
               <=> x.key.cluster = clusterName
    <3>1. ClusterIndexName # ClusterAndNamespaceIndexName
      BY DEF ClusterIndexName, ClusterAndNamespaceIndexName
    <3>2. IndexFunc(ClusterIndexName, x) = {ClusterIndexKey(x.key.cluster)}
      BY <3>1 DEF IndexFunc
    <3> QED
      BY <3>2 DEF ClusterIndexKey
  <2> QED
    BY <1>2, <2>1 DEF Items, ByIndex, OwnObjects
<1> QED
  BY <1>1, <1>2

(* No value of a field's index is what List looks for under its name, so a *)
(* List by fields that finds every index it needs finds nothing.           *)
LEMMA FieldsFindNothing ==
  ASSUME NEW o \in ListOptions, o.fields # Nil, ~Refused(o), NEW n \in Nat \ {0}
  PROVE  Satisfying(o, n) = {}
<1> DEFINE req == o.fields[1]
<1>1. FieldIndexName(req.field) # ClusterIndexName
  <2>1. Len(FieldIndexName(req.field)) = 2 /\ Len(ClusterIndexName) = 1
    BY DEF FieldIndexName, ClusterIndexName
  <2> QED
    BY <2>1
<1>2. FieldIndexName(req.field) # ClusterAndNamespaceIndexName
  <2>1. Len(FieldIndexName(req.field)) = 2 /\ Len(ClusterAndNamespaceIndexName) = 1
    BY DEF FieldIndexName, ClusterAndNamespaceIndexName
  <2> QED
    BY <2>1
<1>3. ASSUME NEW x \in Stored
      PROVE  IndexedValue(o, req) \notin IndexFunc(FieldIndexName(req.field), x)
  <2>1. IndexFunc(FieldIndexName(req.field), x) = FieldIndexFunc(x)
    BY <1>1, <1>2 DEF IndexFunc
  <2>2. \A v \in FieldIndexFunc(x) : v[2] = "/"
    BY DEF FieldIndexFunc, KeyToNamespacedKey
  <2>3. IndexedValue(o, req)[2] = "|"
    BY DEF IndexedValue, KeyToClusteredKey
  <2> QED
    BY <2>1, <2>2, <2>3
<1>4. 1 \in 1..n
  OBVIOUS
<1> QED
  BY <1>3, <1>4 DEF Satisfying

LEMMA SelectorLength ==
  ASSUME NEW o \in ListOptions, o.fields # Nil, ~Refused(o)
  PROVE  o.fields \in Seq(Requirement) /\ Len(o.fields) \in Nat \ {0}
<1>1. o.fields \in Seq(Requirement) /\ o.fields # <<>>
  BY DEF ListOptions, Refused, RequiresExactMatch
<1> QED
  BY <1>1, LenProperties, EmptySeq

(* Whatever the options, the items are objects of the cluster.             *)
LEMMA ItemsOwn ==
  ASSUME NEW o \in ListOptions, ~Refused(o)
  PROVE  Items(o) \subseteq {x \in OwnObjects : o.namespace \in {NoNamespace, x.key.namespace}}
<1>1. CASE o.fields = Nil
  BY <1>1, ItemsExact
<1>2. CASE o.fields # Nil
  BY <1>2, SelectorLength, FieldsFindNothing DEF Items
<1> QED
  BY <1>1, <1>2

LEMMA ItemsType ==
  ASSUME NEW o
  PROVE  Items(o) \in SUBSET Object
BY StoredType DEF Items, Satisfying, ByIndex

(* Get and List take different options.                                    *)
LEMMA OptionsDiffer ==
  /\ \A o \in GetOptions : o.op = "get"
  /\ \A o \in ListOptions : o.op = "list"
  /\ NoRequest.op = "none"
BY DEF GetOptions, ListOptions, NoRequest

LEMMA InitInv == Init => ReaderInv
<1> SUFFICES ASSUME Init PROVE ReaderInv
  OBVIOUS
<1>1. TypeOK
  BY EmptySeq DEF Init, TypeOK, InScope
<1>2. LoopOK
  BY DEF Init, LoopOK
<1>3. ListExact /\ GetExact
  BY OptionsDiffer DEF Init, ListExact, GetExact
<1> QED
  BY <1>1, <1>2, <1>3 DEF ReaderInv

(* A request that is answered at once with nothing.                        *)
LEMMA AnswerInv ==
  ASSUME ReaderInv, pc = "idle", NEW o \in ListOptions,
         NEW result \in {"refused", "noindex"}, Answer(o, result)
  PROVE  ReaderInv'
<1>1. TypeOK'
  BY EmptySeq, StoredType DEF ReaderInv, TypeOK, InScope, Answer
<1>2. LoopOK'
  BY DEF Answer, LoopOK
<1>3. ListExact' /\ GetExact'
  BY OptionsDiffer DEF Answer, ListExact, GetExact
<1> QED
  BY <1>1, <1>2, <1>3 DEF ReaderInv

(* Changes of the store and of the indexes do not touch the reader.        *)
LEMMA StoreInv ==
  ASSUME ReaderInv, TypeOK', UNCHANGED <<scopeName, pc, opts, todo, out, status, asked>>
  PROVE  ReaderInv'
<1>1. LoopOK'
  BY DEF ReaderInv, LoopOK, Wanted, InNamespace, LabelMatches
<1>2. ListExact'
  BY DEF ReaderInv, ListExact, Wanted, InNamespace, LabelMatches
<1>3. GetExact'
  BY DEF ReaderInv, GetExact, Named
<1> QED
  BY <1>1, <1>2, <1>3 DEF ReaderInv

LEMMA GetInv ==
  ASSUME ReaderInv, NEW o \in GetOptions, Get(o)
  PROVE  ReaderInv'
<1> DEFINE k == StoreKey(o)
<1>1. CASE k \in Key /\ store[k] # Absent
  <2>0. PICK x : x = [key |-> k, value |-> store[k]]
    OBVIOUS
  <2>1. x \in OwnObjects
    <3>1. store[k] \in Value
      BY <1>1 DEF ReaderInv, TypeOK, InScope
    <3>2. x \in Object
      BY <1>1, <2>0, <3>1 DEF Object
    <3>3. x \in Stored
      BY <2>0, <3>2 DEF Stored
    <3>4. x.key.cluster = clusterName
      BY <2>0 DEF StoreKey
    <3> QED
      BY <3>3, <3>4 DEF OwnObjects
  <2>2. out' = <<x>> /\ status' = "ok" /\ opts' = o /\ asked' = OwnObjects /\ pc' = "idle" /\ todo' = todo
    BY <1>1, <2>0 DEF Get
  <2>3. TypeOK'
    <3>1. <<x>> \in Seq(Object)
      BY <2>1, StoredType
    <3> QED
      BY <2>2, <3>1, StoredType DEF ReaderInv, TypeOK, InScope, Get
  <2>4. x.key.name = o.name /\ (scopeName = "namespace" => x.key.namespace = o.namespace)
    BY <2>0 DEF StoreKey
  <2>5. GetExact'
    <3>1. Named(x)'
      BY <2>2, <2>4 DEF Named, Get
    <3> QED
      BY <2>1, <2>2, <3>1 DEF GetExact
  <2>6. LoopOK' /\ ListExact'
    BY <2>2, OptionsDiffer DEF LoopOK, ListExact
  <2> QED
    BY <2>3, <2>5, <2>6 DEF ReaderInv
<1>2. CASE ~(k \in Key /\ store[k] # Absent)
  <2>1. out' = <<>> /\ status' = "notfound" /\ opts' = o /\ asked' = OwnObjects /\ pc' = "idle" /\ todo' = todo
    BY <1>2 DEF Get
  <2>2. TypeOK'
    BY <2>1, StoredType, EmptySeq DEF ReaderInv, TypeOK, InScope, Get
  <2>3. ASSUME NEW x \in OwnObjects, x.key.name = o.name,
               scopeName = "namespace" => x.key.namespace = o.namespace
        PROVE  FALSE
    <3>1. x.key \in Key /\ x.value \in Value /\ store[x.key] = x.value /\ x.key.cluster = clusterName
      BY StoredType DEF OwnObjects, Stored, Object
    <3>2. x.key.namespace = k.namespace
      BY <2>3, <3>1, CacheReaderAssumption DEF StoreKey, Key, ReaderInv, TypeOK, InScope
    <3>3. x.key = [cluster |-> x.key.cluster, name |-> x.key.name, namespace |-> x.key.namespace]
      BY <3>1 DEF Key
    <3>4. x.key = k
      BY <2>3, <3>1, <3>2, <3>3 DEF StoreKey
    <3> QED
      BY <1>2, <3>1, <3>4, CacheReaderAssumption
  <2>4. GetExact'
    BY <2>1, <2>3 DEF GetExact, Named, Get
  <2>5. LoopOK' /\ ListExact'
    BY <2>1, OptionsDiffer DEF LoopOK, ListExact
  <2> QED
    BY <2>2, <2>4, <2>5 DEF ReaderInv
<1> QED
  BY <1>1, <1>2

LEMMA ListInv ==
  ASSUME ReaderInv, NEW o \in ListOptions, List(o)
  PROVE  ReaderInv'
<1>1. /\ todo' \in Orders(Items(o)) /\ pc' = "listing" /\ opts' = o
      /\ out' = <<>> /\ status' = "none" /\ asked' = OwnObjects
      /\ UNCHANGED <<scopeName, store, fieldIndexes>>
  BY DEF List
<1>2. todo' \in Seq(Object) /\ Injective(todo') /\ Elements(todo') = Items(o)
  BY <1>1, ItemsType, OrdersType
<1>3. TypeOK'
  BY <1>1, <1>2, EmptySeq, StoredType DEF ReaderInv, TypeOK, InScope
<1>4. out' \o todo' = todo'
  BY <1>1, <1>2, ConcatEmptySeq
<1>5. Elements(out') = {}
  BY <1>1 DEF Elements
<1>6. LoopOK'
  <2>1. o.limit \in Nat /\ Len(out') = 0
    BY <1>1, EmptySeq DEF ListOptions
  <2>0. (Elements(out \o todo) \subseteq {x \in asked : InNamespace(x)})'
    <3>1. ~Refused(o)
      BY DEF List
    <3>2. Elements(out' \o todo')
            \subseteq {x \in OwnObjects : o.namespace \in {NoNamespace, x.key.namespace}}
      BY <1>2, <1>4, <3>1, ItemsOwn
    <3> QED
      BY <1>1, <3>2 DEF Elements, InNamespace
  <2>2. ASSUME o.fields = Nil
        PROVE  (Wanted \subseteq Elements(out \o todo))'
    <3>1. Elements(out' \o todo') = {x \in OwnObjects : o.namespace \in {NoNamespace, x.key.namespace}}
      BY <1>2, <1>4, <2>2, ItemsExact
    <3> QED
      BY <1>1, <3>1 DEF Elements, Wanted, InNamespace
  <2>3. Injective(out \o todo)'
    BY <1>2, <1>4 DEF Injective
  <2>4. \A x \in Elements(out)' : LabelMatches(x)'
    BY <1>5 DEF Elements
  <2> QED
    BY <1>1, <2>0, <2>1, <2>2, <2>3, <2>4 DEF LoopOK
<1>7. ListExact' /\ GetExact'
  BY <1>1, OptionsDiffer DEF ListExact, GetExact
<1> QED
  BY <1>3, <1>6, <1>7 DEF ReaderInv

(* The elements of what is left, and of a sequence with one more.          *)
LEMMA TailElements ==
  ASSUME NEW s \in Seq(Object), NEW t \in Seq(Object), t # <<>>
  PROVE  /\ Append(s, Head(t)) \o Tail(t) = s \o t
         /\ Append(s, Head(t)) \in Seq(Object) /\ Tail(t) \in Seq(Object)
         /\ Head(t) \in Object
         /\ Len(Append(s, Head(t))) = Len(s) + 1
         /\ Elements(Append(s, Head(t))) = Elements(s) \cup {Head(t)}
<1>1. Head(t) \in Object /\ Tail(t) \in Seq(Object)
  BY HeadTailProperties
<1>2. Append(s, Head(t)) \in Seq(Object) /\ Len(Append(s, Head(t))) = Len(s) + 1
  BY <1>1, AppendProperties
<1>3. Append(s, Head(t)) \o Tail(t) = s \o t
  <2>1. t = <<Head(t)>> \o Tail(t)
    BY <1>1
  <2> QED
    BY <1>1, <1>2
<1>4. Elements(Append(s, Head(t))) = Elements(s) \cup {Head(t)}
  BY <1>1, AppendProperties DEF Elements
<1> QED
  BY <1>1, <1>2, <1>3, <1>4

(* An item that is passed over: what is left is the rest.                  *)
LEMMA SkipElements ==
  ASSUME NEW s \in Seq(Object), NEW t \in Seq(Object), t # <<>>, Injective(s \o t)
  PROVE  /\ Injective(s \o Tail(t))
         /\ Elements(s \o Tail(t)) \subseteq Elements(s \o t)
         /\ Elements(s \o t) \subseteq Elements(s \o Tail(t)) \cup {Head(t)}
<1>1. Len(t) \in Nat \ {0} /\ Len(s) \in Nat /\ Tail(t) \in Seq(Object) /\ Len(Tail(t)) = Len(t) - 1
  BY HeadTailProperties, LenProperties, EmptySeq
<1>2. /\ DOMAIN (s \o t) = 1..(Len(s) + Len(t))
      /\ DOMAIN (s \o Tail(t)) = 1..(Len(s) + Len(t) - 1)
  BY <1>1
<1>3. \A i \in 1..(Len(s) + Len(t) - 1) :
        (s \o Tail(t))[i] = (s \o t)[IF i <= Len(s) THEN i ELSE i + 1]
  BY <1>1
<1> DEFINE g(i) == IF i <= Len(s) THEN i ELSE i + 1
<1>g. \A i \in 1..(Len(s) + Len(t) - 1) : g(i) \in 1..(Len(s) + Len(t)) /\ (s \o Tail(t))[i] = (s \o t)[g(i)]
  BY <1>1, <1>3
<1>h. \A i, j \in 1..(Len(s) + Len(t) - 1) : g(i) = g(j) => i = j
  BY <1>1
<1> HIDE DEF g
<1>4. Injective(s \o Tail(t))
  <2>1. ASSUME NEW i \in 1..(Len(s) + Len(t) - 1), NEW j \in 1..(Len(s) + Len(t) - 1),
               (s \o Tail(t))[i] = (s \o Tail(t))[j]
        PROVE  i = j
    <3>1. (s \o t)[g(i)] = (s \o t)[g(j)] /\ g(i) \in DOMAIN (s \o t) /\ g(j) \in DOMAIN (s \o t)
      BY <1>2, <1>g, <2>1
    <3>2. g(i) = g(j)
      BY <3>1 DEF Injective
    <3> QED
      BY <1>h, <3>2
  <2> QED
    BY <1>2, <2>1 DEF Injective
<1>5. Elements(s \o Tail(t)) \subseteq Elements(s \o t)
  BY <1>2, <1>g DEF Elements
<1>6. ASSUME NEW j \in 1..(Len(s) + Len(t))
      PROVE  (s \o t)[j] \in Elements(s \o Tail(t)) \cup {Head(t)}
  <2>1. CASE j <= Len(s)
    BY <1>1, <1>2, <1>3, <2>1 DEF Elements
  <2>2. CASE j = Len(s) + 1
    BY <1>1, <2>2
  <2>3. CASE j > Len(s) + 1
    <3>1. j - 1 \in 1..(Len(s) + Len(t) - 1) /\ ~(j - 1 <= Len(s))
      BY <1>1, <2>3
    <3>2. (s \o Tail(t))[j - 1] = (s \o t)[j]
      BY <1>1, <1>3, <3>1
    <3> QED
      BY <1>2, <3>1, <3>2 DEF Elements
  <2> QED
    BY <1>1, <2>1, <2>2, <2>3
<1> QED
  BY <1>2, <1>4, <1>5, <1>6 DEF Elements

LEMMA CollectInv ==
  ASSUME ReaderInv, Collect
  PROVE  ReaderInv'
<1>1. /\ todo \in Seq(Object) /\ out \in Seq(Object) /\ todo # <<>> /\ pc = "listing"
      /\ opts \in ListOptions /\ LoopOK /\ TypeOK
  BY DEF ReaderInv, TypeOK, InScope, LoopOK, Collect
<1>2. /\ todo' = Tail(todo) /\ ~LimitReached
      /\ UNCHANGED <<scopeName, store, fieldIndexes, pc, opts, status, asked>>
  BY DEF Collect
<1>3. opts.limit \in Nat /\ Len(out) \in Nat /\ opts.op = "list"
  BY <1>1, LenProperties DEF ListOptions
<1>4. /\ \A x : LabelMatches(x)' <=> LabelMatches(x)
      /\ Wanted' = Wanted
      /\ {x \in asked : InNamespace(x)}' = {x \in asked : InNamespace(x)}
  BY <1>2 DEF LabelMatches, Wanted, InNamespace
<1>5. Injective(out \o todo)
  BY <1>1 DEF LoopOK
<1>6. CASE LabelMatches(Head(todo))
  <2>1. out' = Append(out, Head(todo))
    BY <1>6 DEF Collect
  <2>2. /\ out' \o todo' = out \o todo
        /\ out' \in Seq(Object) /\ todo' \in Seq(Object)
        /\ Len(out') = Len(out) + 1
        /\ Elements(out') = Elements(out) \cup {Head(todo)}
    BY <1>1, <1>2, <2>1, TailElements
  <2>3. TypeOK'
    BY <1>1, <1>2, <2>2 DEF TypeOK, InScope
  <2>4. LoopOK'
    <3>1. Injective(out \o todo)'
      BY <1>5, <2>2 DEF Injective
    <3>2. \A x \in Elements(out)' : LabelMatches(x)'
      <4>1. \A x \in Elements(out') : LabelMatches(x)
        BY <1>1, <1>6, <2>2 DEF LoopOK
      <4> QED
        BY <1>4, <4>1 DEF Elements
    <3>3. (opts.limit > 0 => Len(out) <= opts.limit)'
      BY <1>2, <1>3, <2>2 DEF LimitReached
    <3>4. /\ (Elements(out \o todo) \subseteq {x \in asked : InNamespace(x)})'
          /\ opts.fields = Nil => (Wanted \subseteq Elements(out \o todo))'
      <4>1. /\ Elements(out \o todo) \subseteq {x \in asked : InNamespace(x)}
            /\ opts.fields = Nil => Wanted \subseteq Elements(out \o todo)
        BY <1>1 DEF LoopOK
      <4> QED
        BY <1>4, <2>2, <4>1 DEF Elements
    <3> QED
      BY <1>1, <1>2, <3>1, <3>2, <3>3, <3>4 DEF LoopOK
  <2> QED
    BY <1>1, <1>2, <1>3, <2>3, <2>4 DEF ReaderInv, ListExact, GetExact
<1>7. CASE ~LabelMatches(Head(todo))
  <2>1. out' = out
    BY <1>7 DEF Collect
  <2>2. /\ Injective(out \o Tail(todo))
        /\ Elements(out \o Tail(todo)) \subseteq Elements(out \o todo)
        /\ Elements(out \o todo) \subseteq Elements(out \o Tail(todo)) \cup {Head(todo)}
    BY <1>1, <1>5, SkipElements
  <2>3. TypeOK'
    <3>1. Tail(todo) \in Seq(Object)
      BY <1>1, HeadTailProperties
    <3> QED
      BY <1>1, <1>2, <2>1, <3>1 DEF TypeOK, InScope
  <2>4. LoopOK'
    <3>1. Injective(out \o todo)'
      BY <1>2, <2>1, <2>2 DEF Injective
    <3>2. \A x \in Elements(out)' : LabelMatches(x)'
      <4>1. \A x \in Elements(out) : LabelMatches(x)
        BY <1>1 DEF LoopOK
      <4> QED
        BY <1>4, <2>1, <4>1 DEF Elements
    <3>3. (opts.limit > 0 => Len(out) <= opts.limit)'
      BY <1>1, <1>2, <2>1 DEF LoopOK
    <3>4. /\ (Elements(out \o todo) \subseteq {x \in asked : InNamespace(x)})'
          /\ opts.fields = Nil => (Wanted \subseteq Elements(out \o todo))'
      <4>1. /\ Elements(out \o todo) \subseteq {x \in asked : InNamespace(x)}
            /\ opts.fields = Nil => Wanted \subseteq Elements(out \o todo)
        BY <1>1 DEF LoopOK
      <4>2. Head(todo) \notin Wanted
        BY <1>7 DEF Wanted
      <4>3. /\ Elements(out' \o todo') \subseteq {x \in asked : InNamespace(x)}
            /\ opts.fields = Nil => Wanted \subseteq Elements(out' \o todo')
        BY <1>2, <2>1, <2>2, <4>1, <4>2
      <4> QED
        BY <1>4, <4>3 DEF Elements
    <3> QED
      BY <1>1, <1>2, <3>1, <3>2, <3>3, <3>4 DEF LoopOK
  <2> QED
    BY <1>1, <1>2, <1>3, <2>3, <2>4 DEF ReaderInv, ListExact, GetExact
<1> QED
  BY <1>6, <1>7

LEMMA FinishInv ==
  ASSUME ReaderInv, FinishList
  PROVE  ReaderInv'
<1>1. /\ todo \in Seq(Object) /\ out \in Seq(Object) /\ pc = "listing"
      /\ opts \in ListOptions /\ LoopOK /\ TypeOK
  BY DEF ReaderInv, TypeOK, InScope, LoopOK, FinishList
<1>2. /\ todo = <<>> \/ LimitReached
      /\ pc' = "idle" /\ status' = "ok" /\ todo' = <<>>
      /\ UNCHANGED <<scopeName, store, fieldIndexes, opts, out, asked>>
  BY DEF FinishList
<1>3. TypeOK'
  BY <1>1, <1>2, EmptySeq DEF TypeOK, InScope
<1>4. LoopOK' /\ GetExact'
  BY <1>1, <1>2, OptionsDiffer DEF LoopOK, GetExact
<1>5. ListExact'
  <2>1. opts.limit \in Nat /\ Len(out) \in Nat /\ Len(todo) \in Nat
    BY <1>1, LenProperties DEF ListOptions
  <2>2. DOMAIN (out \o todo) = 1..(Len(out) + Len(todo))
        /\ \A i \in 1..Len(out) : (out \o todo)[i] = out[i]
    BY <1>1, <2>1
  <2>3. DOMAIN out = 1..Len(out)
    BY <1>1
  <2>4. Elements(out) \subseteq Elements(out \o todo)
    BY <2>1, <2>2, <2>3 DEF Elements
  <2>5. Injective(out)
    <3>1. Injective(out \o todo)
      BY <1>1 DEF LoopOK
    <3> QED
      BY <2>1, <2>2, <2>3, <3>1 DEF Injective
  <2>6. opts.limit > 0 => Len(out) <= opts.limit
    BY <1>1 DEF LoopOK
  <2>7. /\ Elements(out) \subseteq Wanted
        /\ opts.fields = Nil =>
             (opts.limit = 0 \/ Len(out) < opts.limit => Wanted \subseteq Elements(out))
    <3>1. /\ Elements(out \o todo) \subseteq {x \in asked : InNamespace(x)}
          /\ opts.fields = Nil => Wanted \subseteq Elements(out \o todo)
          /\ \A x \in Elements(out) : LabelMatches(x)
      BY <1>1 DEF LoopOK
    <3>2. Elements(out) \subseteq Wanted
      BY <2>4, <3>1 DEF Wanted
    <3>3. ASSUME opts.fields = Nil, opts.limit = 0 \/ Len(out) < opts.limit
          PROVE  Wanted \subseteq Elements(out)
      <4>1. ~LimitReached
        BY <2>1, <3>3 DEF LimitReached
      <4>2. out \o todo = out
        BY <1>1, <1>2, <4>1, ConcatEmptySeq
      <4> QED
        BY <3>1, <3>3, <4>2
    <3> QED
      BY <3>2, <3>3
  <2>8. Wanted' = Wanted /\ Elements(out)' = Elements(out)
    BY <1>2 DEF Wanted, InNamespace, LabelMatches, Elements
  <2> QED
    BY <1>2, <2>5, <2>6, <2>7, <2>8 DEF ListExact, Injective
<1> QED
  BY <1>3, <1>4, <1>5 DEF ReaderInv

LEMMA NextInv == ReaderInv /\ [Next]_vars => ReaderInv'
<1> SUFFICES ASSUME ReaderInv, [Next]_vars PROVE ReaderInv'
  OBVIOUS
<1>t. TypeOK
  BY DEF ReaderInv
<1>1. CASE \E k \in Key : Remove(k) \/ \E v \in Value : Put(k, v)
  <2>1. UNCHANGED <<scopeName, pc, opts, todo, out, status, asked>>
    BY <1>1 DEF Remove, Put
  <2>2. TypeOK'
    BY <1>1, <1>t DEF Remove, Put, TypeOK, InScope
  <2> QED
    BY <2>1, <2>2, StoreInv
<1>2. CASE \E f \in Field : IndexField(f)
  <2>1. UNCHANGED <<scopeName, pc, opts, todo, out, status, asked>>
    BY <1>2 DEF IndexField
  <2>2. TypeOK'
    BY <1>2, <1>t DEF IndexField, TypeOK, InScope
  <2> QED
    BY <2>1, <2>2, StoreInv
<1>3. CASE \E o \in GetOptions : Get(o)
  BY <1>3, GetInv
<1>4. CASE \E o \in Queries : ListRefused(o) \/ ListNoIndex(o) \/ List(o)
  BY <1>4, AnswerInv, ListInv, QueriesAssumption DEF ListRefused, ListNoIndex
<1>5. CASE Collect
  BY <1>5, CollectInv
<1>6. CASE FinishList
  BY <1>6, FinishInv
<1>7. CASE UNCHANGED vars
  <2>1. UNCHANGED <<scopeName, pc, opts, todo, out, status, asked>>
    BY <1>7 DEF vars
  <2>2. TypeOK'
    BY <1>7, <1>t DEF vars, TypeOK, InScope
  <2> QED
    BY <2>1, <2>2, StoreInv
<1> QED
  BY <1>1, <1>2, <1>3, <1>4, <1>5, <1>6, <1>7 DEF Next

(* The reader's loop, its answers and their types, in every state          *)
(* (forked_cache_reader.go:65-202).                                        *)
THEOREM ReaderInvariant == Spec => []ReaderInv
BY InitInv, NextInv, PTL DEF Spec

(* Every List is of its own cluster and of one moment; but for field       *)
(* selectors it is complete (forked_cache_reader.go:135-202).              *)
THEOREM ListsAreExact == Spec => []ListExact
<1>1. ReaderInv => ListExact
  BY DEF ReaderInv
<1> QED
  BY <1>1, ReaderInvariant, PTL

(* Every Get is exact (forked_cache_reader.go:65-91).                      *)
THEOREM GetsAreExact == Spec => []GetExact
<1>1. ReaderInv => GetExact
  BY DEF ReaderInv
<1> QED
  BY <1>1, ReaderInvariant, PTL

(* Between two requests the loop has nothing left to look at.              *)
LoopDone == pc = "idle" => todo = <<>>

LEMMA LoopEnds == Spec => []LoopDone
<1>1. Init => LoopDone
  BY DEF Init, LoopDone
<1>2. LoopDone /\ [Next]_vars => LoopDone'
  BY DEF LoopDone, Next, Remove, Put, IndexField, Get, ListRefused, ListNoIndex, Answer,
         List, Collect, FinishList, vars
<1> QED
  BY <1>1, <1>2, PTL DEF Spec

(* Lists by fields are not only refused for want of an index: they never   *)
(* find anything, for any fields and any values                            *)
(* (wildcard.go:149-157; forked_cache_reader.go:214-221, 271-287).         *)
THEOREM FieldListsFindNothing == Spec => []NothingByFields
<1>1. Init => NothingByFields
  BY OptionsDiffer DEF Init, NothingByFields
<1>2. NothingByFields /\ LoopDone /\ [Next]_vars => NothingByFields'
  <2> SUFFICES ASSUME NothingByFields, LoopDone, [Next]_vars PROVE NothingByFields'
    OBVIOUS
  <2>1. CASE UNCHANGED <<opts, todo, out>>
    BY <2>1 DEF NothingByFields
  <2>2. CASE \E o \in GetOptions : Get(o)
    BY <2>2, OptionsDiffer DEF Get, NothingByFields
  <2>3. ASSUME NEW o \in Queries, ListRefused(o) \/ ListNoIndex(o)
        PROVE  NothingByFields'
    BY <2>3 DEF ListRefused, ListNoIndex, Answer, LoopDone, NothingByFields
  <2>4. ASSUME NEW o \in Queries, List(o), o.fields # Nil
        PROVE  todo' = <<>>
    <3>1. o \in ListOptions /\ ~Refused(o) /\ todo' \in Orders(Items(o))
      BY <2>4, QueriesAssumption DEF List
    <3>2. Items(o) = {}
      BY <2>4, <3>1, SelectorLength, FieldsFindNothing DEF Items
    <3>3. todo' \in Seq(Object) /\ Elements(todo') = {}
      BY <3>1, <3>2, OrdersType
    <3>4. Len(todo') \in Nat /\ DOMAIN todo' = 1..Len(todo')
      BY <3>3, LenProperties
    <3>5. Len(todo') = 0
      <4>1. ASSUME 1 \in DOMAIN todo' PROVE todo'[1] \in Elements(todo')
        BY <4>1 DEF Elements
      <4>2. 1 \notin 1..Len(todo')
        BY <3>3, <3>4, <4>1
      <4> QED
        BY <3>4, <4>2
    <3> QED
      BY <3>3, <3>5, EmptySeq
  <2>5. CASE \E o \in Queries : List(o)
    BY <2>4, <2>5 DEF List, NothingByFields
  <2>6. CASE Collect \/ FinishList
    BY <2>6 DEF Collect, FinishList, NothingByFields
  <2> QED
    BY <2>1, <2>2, <2>3, <2>5, <2>6 DEF Next, Remove, Put, IndexField, vars
<1> QED
  BY <1>1, <1>2, LoopEnds, PTL DEF Spec

=============================================================================
