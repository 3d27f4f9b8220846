---------------------------- MODULE ScopedInformer ----------------------------
(***************************************************************************)
(* scopedInformer, src/virtualworkspace/cache.go: an informer for one      *)
(* logical cluster.  It wraps the handler it is given in filters and adds  *)
(* the wrapped handler to the wildcard informer, which notifies it of the  *)
(* objects of every cluster.  The wildcard informer is client-go's; it may *)
(* miss changes while its watch is broken and find out by listing again:   *)
(* an object that is gone then is reported in a tombstone, with the state  *)
(* it had when it was last seen.                                           *)
(***************************************************************************)
EXTENDS Naturals, Sequences, FiniteSets

CONSTANTS
  Cluster,      \* logical cluster names
  Name,         \* names of objects within a cluster
  Version,      \* states of an object
  Absent,       \* no object
  clusterName,  \* the cluster the informer is for
  WithResync,   \* is the handler added by AddEventHandlerWithResyncPeriod?
  MaxPending    \* bound: notifications queued for the handler

ASSUME ScopedInformerAssumption ==
  /\ clusterName \in Cluster
  /\ Absent \notin Version
  /\ WithResync \in BOOLEAN
  /\ MaxPending \in Nat

VARIABLES
  server,   \* the state of every object at the API server
  store,    \* the state of every object in the wildcard informer
  added,    \* the wrapped handler has been added
  pending,  \* notifications on their way to the wrapped handler
  told      \* what the handler has been told, by the name of the object

vars == <<server, store, added, pending, told>>

Key == Cluster \X Name
State == Version \cup {Absent}

(* What the wildcard informer calls the wrapped handler with; the object   *)
(* of a delete, or of the tombstone around it, is its last known state.    *)
Notification(type, k, v, tomb) ==
  [type |-> type, object |-> [key |-> k, version |-> v], tombstone |-> tomb]

(* The state of the object that a handler is left with.                    *)
After(n) == IF n.type = "delete" THEN Absent ELSE n.object.version

(* logicalcluster.From: the annotation kcp puts on every object.           *)
From(object) == object.key[1]

TypeOK ==
  /\ server \in [Key -> State]
  /\ store \in [Key -> State]
  /\ added \in BOOLEAN
  /\ pending \in Seq([type : {"add", "update", "delete"},
                      object : [key : Key, version : Version], tombstone : BOOLEAN])
  /\ told \in [Name -> State]

Init ==
  /\ server = [k \in Key |-> Absent]
  /\ store = [k \in Key |-> Absent]
  /\ added = FALSE
  /\ pending = <<>>
  /\ told = [n \in Name |-> Absent]

-----------------------------------------------------------------------------
(* The API server and the wildcard informer.                               *)

Write(k, v) ==
  /\ server[k] # v
  /\ server' = [server EXCEPT ![k] = v]
  /\ UNCHANGED <<store, added, pending, told>>

Present == {k \in Key : store[k] # Absent}

Orders(S) ==
  {f \in [1..Cardinality(S) -> S] : \A x \in S : \E i \in 1..Cardinality(S) : f[i] = x}

Enqueue(s) ==
  IF added THEN Len(pending) + Len(s) <= MaxPending /\ pending' = pending \o s
           ELSE UNCHANGED pending

(* The informer catches up on one object, by an event of the watch or, if  *)
(* it had missed some, by a list; a deletion found by a list is reported   *)
(* with a tombstone.                                                       *)
Observe(k, relist) ==
  /\ store[k] # server[k]
  /\ store' = [store EXCEPT ![k] = server[k]]
  /\ Enqueue(<<IF server[k] = Absent THEN Notification("delete", k, store[k], relist)
               ELSE Notification(IF store[k] = Absent THEN "add" ELSE "update",
                                 k, server[k], FALSE)>>)
  /\ UNCHANGED <<server, added, told>>

Repeat(type, f) == [i \in DOMAIN f |-> Notification(type, f[i], store[f[i]], FALSE)]

(* Only a handler that was added with a period is told again.              *)
Resync ==
  /\ added
  /\ WithResync
  /\ \E f \in Orders(Present) : Enqueue(Repeat("update", f))
  /\ UNCHANGED <<server, store, added, told>>

-----------------------------------------------------------------------------
(* scopedInformer.                                                         *)

(* AddEventHandler, AddEventHandlerWithResyncPeriod: the wrapped handler   *)
(* is first told of every object of every cluster.                         *)
AddEventHandler ==
  /\ ~added
  /\ Cardinality(Present) <= MaxPending
  /\ added' = TRUE
  /\ \E f \in Orders(Present) : pending' = Repeat("add", f)
  /\ UNCHANGED <<server, store, told>>

Called(n) == told' = [told EXCEPT ![n.object.key[2]] = After(n)]

NotCalled == UNCHANGED told

(* Mutants of Wrapped: a tombstone is not understood; updates are not      *)
(* looked at.                                                              *)
WrappedNoTombstone(n) ==
  IF From(n.object) = clusterName /\ ~n.tombstone THEN Called(n) ELSE NotCalled

WrappedUpdatesAll(n) ==
  IF From(n.object) = clusterName \/ n.type = "update" THEN Called(n) ELSE NotCalled

(* AddFunc, UpdateFunc and DeleteFunc: the handler is called if the object *)
(* (the new one, or the one in the tombstone) is of the cluster.           *)
Wrapped(n) ==
  IF From(n.object) = clusterName THEN Called(n) ELSE NotCalled

Deliver ==
  /\ pending # <<>>
  /\ Wrapped(Head(pending))
  /\ pending' = Tail(pending)
  /\ UNCHANGED <<server, store, added>>

Next ==
  \/ \E k \in Key, v \in State : Write(k, v)
  \/ \E k \in Key, relist \in BOOLEAN : Observe(k, relist)
  \/ Resync
  \/ AddEventHandler
  \/ Deliver

Spec == Init /\ [][Next]_vars

(* The listener goroutine goes on.                                         *)
FairSpec == Spec /\ WF_vars(Deliver)

-----------------------------------------------------------------------------
(* Properties.                                                             *)

IsOwn(n) == From(n.object) = clusterName

(* What the handler is told by a notification: the name, not the cluster.  *)
Brief(n) == [type |-> n.type, name |-> n.object.key[2], version |-> After(n)]

(* The notifications of s about objects of the cluster.  Not SelectSeq,    *)
(* which the provers do not unfold.                                        *)
OwnUpTo(s) ==
  LET own[i \in 0..Len(s)] ==
        IF i = 0 THEN <<>>
        ELSE IF IsOwn(s[i]) THEN Append(own[i - 1], Brief(s[i])) ELSE own[i - 1]
  IN own

OwnPart(s) == OwnUpTo(s)[Len(s)]

(* The scoped informer is an informer of its cluster alone: cut down to    *)
(* the cluster, the store and the queue of the wildcard informer are those *)
(* of an informer that knows no other (cache.go:118-176).                  *)
ClusterInformer == INSTANCE Informer
  WITH objects <- [n \in Name |-> store[<<clusterName, n>>]],
       queue <- OwnPart(pending)

ImplementsInformer == ClusterInformer!Spec

(* An object that settles down in the wildcard informer ends up with the   *)
(* handler as it is, with resyncs going on and whatever other objects do   *)
(* (cache.go:125-148).                                                     *)
CatchesUp ==
  \A n \in Name, v \in State :
    <>[](added /\ store[<<clusterName, n>>] = v) => <>[](told[n] = v)

(* The handler is called in a sequence it can make sense of: no object     *)
(* appears twice, and none changes or goes that had not appeared           *)
(* (cache.go:127-147, 154-174).                                            *)
MakesSense ==
  [][\A n \in Name : told'[n] # told[n] =>
       (told[n] = Absent <=> Head(pending).type = "add")]_vars

(* The notification is about object n of the cluster.                      *)
OwnKey(n) == <<clusterName, n>>
IsOf(m, n) == m.object.key = OwnKey(n)

(* What the handler knows of an object of its cluster is what the wildcard *)
(* informer has, unless word of it is on the way, whatever other objects   *)
(* and clusters have pending (cache.go:125-148).                           *)
KnowsItsCluster ==
  added => \A n \in Name :
    (\A i \in 1..Len(pending) : ~IsOf(pending[i], n)) => told[n] = store[OwnKey(n)]

-----------------------------------------------------------------------------
(* The inductive invariant behind KnowsItsCluster and MakesSense.          *)

(* The notifications s lead a handler that knows object n to be "before"   *)
(* to know it to be "after": the last one about n says so, an object that  *)
(* is absent is added and any other is not, and where there is none        *)
(* nothing changes.                                                        *)
Leads(s, n, before, after) ==
  /\ \A i \in 1..Len(s) :
       IsOf(s[i], n) /\ (\A j \in i+1..Len(s) : ~IsOf(s[j], n)) => After(s[i]) = after
  /\ \A i \in 1..Len(s) :
       IsOf(s[i], n) /\ (\A j \in 1..i-1 : ~IsOf(s[j], n))
         => (s[i].type = "add" <=> before = Absent)
  /\ \A i, j \in 1..Len(s) :
       i < j /\ IsOf(s[i], n) /\ IsOf(s[j], n) /\ (\A l \in i+1..j-1 : ~IsOf(s[l], n))
         => (s[j].type = "add" <=> After(s[i]) = Absent)
  /\ (\A i \in 1..Len(s) : ~IsOf(s[i], n)) => before = after

(* What is pending leads from what the handler knows to what the wildcard  *)
(* informer has, for every object of the cluster (cache.go:124-176).       *)
ScopedInv ==
  /\ TypeOK
  /\ ~added => pending = <<>> /\ \A n \in Name : told[n] = Absent
  /\ added => \A n \in Name : Leads(pending, n, told[n], store[OwnKey(n)])

=============================================================================
