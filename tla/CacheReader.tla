----------------------------- MODULE CacheReader -----------------------------
(***************************************************************************)
(* cacheReader, src/virtualworkspace/forked_cache_reader.go: Get and List  *)
(* of one logical cluster, out of the indexer of a wildcard informer that  *)
(* holds the objects of every cluster; with the indexes of indexes.go and  *)
(* those that IndexField of wildcard.go adds.                              *)
(*                                                                         *)
(* The indexer is locked for one call at a time: Get makes one, List takes *)
(* its items with one and then goes through them while the informer        *)
(* changes the store.  Keys are formatted strings in the code; here a key  *)
(* is the tuple of its parts, led by the format where two formats differ.  *)
(***************************************************************************)
EXTENDS Naturals, Sequences, FiniteSets

CONSTANTS
  Cluster,      \* logical cluster names
  Namespace,    \* namespaces
  NoNamespace,  \* "": of a cluster-scoped object, of a key or an option
  Name,         \* object names
  Value,        \* what an object is selected by: its label, its field
  Field,        \* names of fields that may be indexed
  Absent,       \* no object under a key
  Nil,          \* an option that is not given
  clusterName,  \* the cluster the reader is for
  Queries       \* bound: the options that List is called with

ASSUME CacheReaderAssumption ==
  /\ clusterName \in Cluster
  /\ NoNamespace \notin Namespace
  /\ Absent \notin Value
  /\ Nil \notin Value

VARIABLES
  scopeName,    \* the scope of the resource, which does not change
  store,        \* the indexer's objects, by key
  fieldIndexes, \* fields the informer has an index for
  pc,           \* where the reader is
  opts,         \* the request being answered, or answered last
  todo,         \* List: items not looked at yet
  out,          \* objects to return
  status,       \* how the last request ended
  asked         \* history: the objects of the cluster when the store was read

vars == <<scopeName, store, fieldIndexes, pc, opts, todo, out, status, asked>>

(* The informer's store key (kcp's key function): cluster|namespace/name,  *)
(* or cluster|name for an object without a namespace.                      *)
AnyNamespace == Namespace \cup {NoNamespace}

Key == [cluster : Cluster, namespace : AnyNamespace, name : Name]

InScope(k) == k.namespace = NoNamespace <=> scopeName = "root"

Object == [key : Key, value : Value]

ASSUME ObjectAssumption == IsFiniteSet(Object)

Stored == {o \in Object : store[o.key] = o.value}

(* What a reader of a cache of this cluster alone would read from.         *)
OwnObjects == {o \in Stored : o.key.cluster = clusterName}

-----------------------------------------------------------------------------
(* indexes.go, wildcard.go: the indexes of an informer.                    *)

ClusterIndexName == <<"cluster">>
ClusterAndNamespaceIndexName == <<"cluster-and-namespace">>

ClusterIndexKey(c) == <<c>>

(* Mutant of ClusterAndNamespaceIndexKey: the index controller-runtime has *)
(* for namespaces, which knows of no cluster.                              *)
ClusterAndNamespaceIndexKeyBare(c, n) == <<n>>

ClusterAndNamespaceIndexKey(c, n) == <<c, "/", n>>

KeyToNamespacedKey(n, k) == IF n # NoNamespace THEN <<n, "/", k>> ELSE <<"all", "/", k>>
KeyToClusteredKey(c, n, k) == <<c, "|", KeyToNamespacedKey(n, k)>>

(* IndexField gives the field another name and every value two prefixes;   *)
(* controller-runtime adds those of the namespace.                         *)
IndexedFieldName(f) == <<"cluster/", f>>
FieldIndexName(f) == <<"field:", f>>

FieldIndexFunc(o) ==
  {KeyToNamespacedKey(n, <<c, "/", o.value>>) :
     n \in {o.key.namespace, NoNamespace}, c \in {o.key.cluster, "*"}}

Indexed(name) ==
  \/ name \in {ClusterIndexName, ClusterAndNamespaceIndexName}
  \/ \E f \in fieldIndexes : name = FieldIndexName(IndexedFieldName(f))

IndexFunc(name, o) ==
  CASE name = ClusterIndexName -> {ClusterIndexKey(o.key.cluster)}
    [] name = ClusterAndNamespaceIndexName ->
         {ClusterAndNamespaceIndexKey(o.key.cluster, o.key.namespace)}
    [] OTHER -> FieldIndexFunc(o)

ByIndex(name, value) == {o \in Stored : value \in IndexFunc(name, o)}

-----------------------------------------------------------------------------
(* Requests.                                                               *)

GetOptions == [op : {"get"}, namespace : AnyNamespace, name : Name]

(* A requirement of a field selector is exact (=, ==) or not (!=).         *)
Requirement ==
  [field : Field \cup {IndexedFieldName(f) : f \in Field}, exact : BOOLEAN, value : Value]

ListOptions ==
  [op : {"list"}, namespace : AnyNamespace, label : Value \cup {Nil},
   fields : {Nil} \cup Seq(Requirement), continue : BOOLEAN, limit : Nat]

ASSUME QueriesAssumption == Queries \subseteq ListOptions

NoRequest == [op |-> "none"]

TypeOK ==
  /\ scopeName \in {"root", "namespace"}
  /\ store \in [Key -> Value \cup {Absent}]
  /\ \A k \in Key : store[k] # Absent => InScope(k)
  /\ fieldIndexes \in SUBSET Field
  /\ pc \in {"idle", "listing"}
  /\ opts \in {NoRequest} \cup GetOptions \cup ListOptions
  /\ todo \in Seq(Object)
  /\ out \in Seq(Object)
  /\ status \in {"none", "ok", "notfound", "refused", "noindex"}
  /\ asked \in SUBSET Object

Init ==
  /\ scopeName \in {"root", "namespace"}
  /\ store = [k \in Key |-> Absent]
  /\ fieldIndexes = {}
  /\ pc = "idle"
  /\ opts = NoRequest
  /\ todo = <<>>
  /\ out = <<>>
  /\ status = "none"
  /\ asked = {}

(* The informer: objects are added and replaced, or deleted.               *)
Put(k, v) ==
  /\ InScope(k)
  /\ store[k] # v
  /\ store' = [store EXCEPT ![k] = v]
  /\ UNCHANGED <<scopeName, fieldIndexes, pc, opts, todo, out, status, asked>>

Remove(k) ==
  /\ store[k] # Absent
  /\ store' = [store EXCEPT ![k] = Absent]
  /\ UNCHANGED <<scopeName, fieldIndexes, pc, opts, todo, out, status, asked>>

IndexField(f) ==
  /\ f \notin fieldIndexes
  /\ fieldIndexes' = fieldIndexes \cup {f}
  /\ UNCHANGED <<scopeName, store, pc, opts, todo, out, status, asked>>

-----------------------------------------------------------------------------
(* Get: one look at the store.                                             *)

(* Mutant of StoreKey: the namespace asked for counts for every resource.  *)
StoreKeyVerbatim(o) == [cluster |-> clusterName, name |-> o.name, namespace |-> o.namespace]

(* The namespace asked for counts only for a namespaced resource.          *)
StoreKey(o) ==
  [cluster |-> clusterName, name |-> o.name,
   namespace |-> IF scopeName = "root" THEN NoNamespace ELSE o.namespace]

Get(o) ==
  /\ pc = "idle"
  /\ opts' = o
  /\ asked' = OwnObjects
  /\ LET k == StoreKey(o) IN
       IF k \in Key /\ store[k] # Absent
       THEN status' = "ok" /\ out' = <<[key |-> k, value |-> store[k]]>>
       ELSE status' = "notfound" /\ out' = <<>>
  /\ UNCHANGED <<scopeName, store, fieldIndexes, pc, todo>>

-----------------------------------------------------------------------------
(* List: checks, one look at the store, and a loop over what was found.    *)

RequiresExactMatch(sel) == sel # <<>> /\ \A i \in DOMAIN sel : sel[i].exact

Refused(o) == o.continue \/ (o.fields # Nil /\ ~RequiresExactMatch(o.fields))

Answer(o, result) ==
  /\ opts' = o
  /\ status' = result
  /\ asked' = OwnObjects
  /\ out' = <<>>
  /\ UNCHANGED <<scopeName, store, fieldIndexes, pc, todo>>

ListRefused(o) ==
  /\ pc = "idle"
  /\ Refused(o)
  /\ Answer(o, "refused")

(* byIndexes: the first requirement by its index, the others by theirs if  *)
(* there is anything left to look at; all with the cluster in the value.   *)
IndexedValue(o, req) == KeyToClusteredKey(clusterName, o.namespace, req.value)

Satisfying(o, n) ==
  {x \in Stored : \A i \in 1..n :
     IndexedValue(o, o.fields[i]) \in IndexFunc(FieldIndexName(o.fields[i].field), x)}

MissingIndex(o) ==
  \E i \in DOMAIN o.fields :
    /\ ~Indexed(FieldIndexName(o.fields[i].field))
    /\ i = 1 \/ Satisfying(o, i - 1) # {}

ListNoIndex(o) ==
  /\ pc = "idle"
  /\ ~Refused(o)
  /\ o.fields # Nil
  /\ MissingIndex(o)
  /\ Answer(o, "noindex")

Items(o) ==
  IF o.fields # Nil THEN Satisfying(o, Len(o.fields))
  ELSE IF o.namespace # NoNamespace
  THEN ByIndex(ClusterAndNamespaceIndexName, ClusterAndNamespaceIndexKey(clusterName, o.namespace))
  ELSE ByIndex(ClusterIndexName, ClusterIndexKey(clusterName))

(* An index yields its objects in no particular order.                     *)
Orders(S) ==
  {f \in [1..Cardinality(S) -> S] :
     /\ \A i, j \in 1..Cardinality(S) : f[i] = f[j] => i = j
     /\ \A x \in S : \E i \in 1..Cardinality(S) : f[i] = x}

(* Mutant of List: the index of namespaces that all clusters share.        *)
ListAnyCluster(o) ==
  /\ pc = "idle"
  /\ ~Refused(o)
  /\ o.fields = Nil
  /\ pc' = "listing"
  /\ opts' = o
  /\ todo' \in Orders({x \in Stored : o.namespace \in {x.key.namespace, NoNamespace}})
  /\ out' = <<>>
  /\ status' = "none"
  /\ asked' = OwnObjects
  /\ UNCHANGED <<scopeName, store, fieldIndexes>>

List(o) ==
  /\ pc = "idle"
  /\ ~Refused(o)
  /\ o.fields # Nil => ~MissingIndex(o)
  /\ pc' = "listing"
  /\ opts' = o
  /\ todo' \in Orders(Items(o))
  /\ out' = <<>>
  /\ status' = "none"
  /\ asked' = OwnObjects
  /\ UNCHANGED <<scopeName, store, fieldIndexes>>

LimitReached == opts.limit > 0 /\ Len(out) >= opts.limit

LabelMatches(x) == opts.label \in {Nil, x.value}

(* Mutant of Collect: the limit counts the items looked at.                *)
CollectLimitsItems ==
  /\ pc = "listing"
  /\ todo # <<>>
  /\ todo' = IF opts.limit = 1 THEN <<>> ELSE Tail(todo)
  /\ out' = IF LabelMatches(Head(todo)) THEN Append(out, Head(todo)) ELSE out
  /\ UNCHANGED <<scopeName, store, fieldIndexes, pc, opts, status, asked>>

(* One turn of the loop: an item whose labels do not match is passed over. *)
Collect ==
  /\ pc = "listing"
  /\ todo # <<>>
  /\ ~LimitReached
  /\ todo' = Tail(todo)
  /\ out' = IF LabelMatches(Head(todo)) THEN Append(out, Head(todo)) ELSE out
  /\ UNCHANGED <<scopeName, store, fieldIndexes, pc, opts, status, asked>>

FinishList ==
  /\ pc = "listing"
  /\ todo = <<>> \/ LimitReached
  /\ pc' = "idle"
  /\ status' = "ok"
  /\ todo' = <<>>
  /\ UNCHANGED <<scopeName, store, fieldIndexes, opts, out, asked>>

Next ==
  \/ \E k \in Key : Remove(k) \/ \E v \in Value : Put(k, v)
  \/ \E f \in Field : IndexField(f)
  \/ \E o \in GetOptions : Get(o)
  \/ \E o \in Queries : ListRefused(o) \/ ListNoIndex(o) \/ List(o)
  \/ Collect
  \/ FinishList

Spec == Init /\ [][Next]_vars

-----------------------------------------------------------------------------
(* Properties.  The reference is what a cache of this cluster alone would  *)
(* answer out of the objects it had at one moment: asked, filtered.        *)

InNamespace(x) == opts.namespace \in {NoNamespace, x.key.namespace}

Wanted == {x \in asked : InNamespace(x) /\ LabelMatches(x)}

Injective(s) == \A i, j \in DOMAIN s : s[i] = s[j] => i = j
Elements(s) == {s[i] : i \in DOMAIN s}

(* A List returns objects of its own cluster only, those of one moment,    *)
(* each once and no more than the limit, whatever other clusters hold and  *)
(* whatever changes while the loop runs; without a field selector it       *)
(* returns all that are wanted, or as many as the limit                    *)
(* (forked_cache_reader.go:135-202).                                       *)
ListExact ==
  opts.op = "list" /\ pc = "idle" /\ status = "ok" =>
    /\ Elements(out) \subseteq Wanted
    /\ Injective(out)
    /\ opts.limit > 0 => Len(out) <= opts.limit
    /\ opts.fields = Nil =>
         (opts.limit = 0 \/ Len(out) < opts.limit => Wanted \subseteq Elements(out))

(* A Get finds the one object of its own cluster that has the name, in the *)
(* namespace if the resource has namespaces, and nothing else              *)
(* (forked_cache_reader.go:65-91).                                         *)
Named(x) ==
  /\ x.key.name = opts.name
  /\ scopeName = "namespace" => x.key.namespace = opts.namespace

GetExact ==
  opts.op = "get" =>
    /\ status \in {"ok", "notfound"}
    /\ status = "ok" => \E x \in asked : Named(x) /\ out = <<x>>
    /\ status = "notfound" => ~\E x \in asked : Named(x)

(* What the loop has done so far and what it still has to look at are the  *)
(* items of one moment (forked_cache_reader.go:168-200); with it ListExact *)
(* is inductive.                                                           *)
LoopOK ==
  pc = "listing" =>
    /\ opts \in ListOptions
    /\ Injective(out \o todo)
    /\ \A x \in Elements(out) : LabelMatches(x)
    /\ opts.limit > 0 => Len(out) <= opts.limit
    /\ Elements(out \o todo) \subseteq {x \in asked : InNamespace(x)}
    /\ opts.fields = Nil => Wanted \subseteq Elements(out \o todo)

ReaderInv == TypeOK /\ LoopOK /\ ListExact /\ GetExact

(* No List by fields has anything to return, whatever is stored, indexed   *)
(* and asked for: the values in a field's index are not those that List    *)
(* looks for (wildcard.go:149-157; forked_cache_reader.go:214-221,         *)
(* 271-287).                                                               *)
NothingByFields == opts.op = "list" /\ opts.fields # Nil => todo = <<>> /\ out = <<>>

(* "IndexField adds an index for the given object kind" (wildcard.go:147), *)
(* with which List can "list all objects by the field selector"            *)
(* (forked_cache_reader.go:143-145).                                       *)
FieldSelected ==
  opts.op = "list" /\ opts.fields # Nil =>
    \A f \in fieldIndexes, v \in Value :
      opts.fields = <<[field |-> f, exact |-> TRUE, value |-> v]>> =>
        status # "noindex"

=============================================================================
