--------------------------- MODULE ProviderProofs ---------------------------
(***************************************************************************)
(* Proofs about Provider, for every set of clusters, objects, calls of Run *)
(* and bounds.  The inductive invariant is proved in layers: types and     *)
(* handlers first, then the maps, then the notifications, then engagement. *)
(***************************************************************************)
EXTENDS Provider, FiniteSetTheorems, SequenceTheorems, TLAPS

(* What Head, Tail and Append do to the notifications of a listener.       *)
LEMMA PopFacts ==
  ASSUME NEW s \in Seq(Event), s # <<>>
  PROVE  /\ Len(s) \in Nat /\ Len(s) >= 1
         /\ Head(s) = s[1]
         /\ Head(s) \in Event
         /\ Tail(s) \in Seq(Event)
         /\ Len(Tail(s)) = Len(s) - 1
         /\ \A k \in 1..(Len(s) - 1) : Tail(s)[k] = s[k + 1]
BY HeadTailProperties, EmptySeq

LEMMA PushFacts ==
  ASSUME NEW s \in Seq(Event), NEW e \in Event
  PROVE  /\ Len(s) \in Nat
         /\ Append(s, e) \in Seq(Event)
         /\ Append(s, e) # <<>>
         /\ Len(Append(s, e)) = Len(s) + 1
         /\ Append(s, e)[Len(s) + 1] = e
         /\ \A k \in 1..Len(s) : Append(s, e)[k] = s[k]
         /\ s # <<>> => Head(Append(s, e)) = Head(s)
<1>1. Append(s, e) # <<>> /\ Len(Append(s, e)) = Len(s) + 1 /\ Append(s, e) \in Seq(Event)
  BY AppendProperties
<1>2. Append(s, e)[Len(s) + 1] = e /\ \A k \in 1..Len(s) : Append(s, e)[k] = s[k]
  BY AppendProperties
<1>3. ASSUME s # <<>> PROVE Head(Append(s, e)) = Head(s)
  <2>1. Len(s) >= 1 /\ Len(s) \in Nat
    BY <1>3, PopFacts
  <2>2. Head(s) = s[1] /\ Head(Append(s, e)) = Append(s, e)[1]
    BY <1>1, <1>3, PopFacts
  <2> QED
    BY <1>2, <2>1, <2>2
<1> QED
  BY <1>1, <1>2, <1>3, LenProperties

LEMMA EventFacts ==
  ASSUME NEW c \in Cluster
  PROVE  /\ Add(c) \in Event /\ Del(c) \in Event
         /\ Add(c).type = "add" /\ Add(c).cluster = c
         /\ Del(c).type = "del" /\ Del(c).cluster = c
         /\ \A e \in Event : e.type = "add" => e = Add(e.cluster)
         /\ \A e \in Event : e.type = "del" => e = Del(e.cluster)
         /\ \A e \in Event : e.cluster \in Cluster /\ e.type \in {"add", "del"}
BY DEF Event, Add, Del

(* The notifications a new listener is given first.                        *)
LEMMA RegisterFacts ==
  ASSUME NEW S \in SUBSET Object, NEW order \in [1..Cardinality(S) -> S]
  PROVE  /\ Cardinality(S) \in Nat
         /\ [k \in 1..Cardinality(S) |-> Add(ClusterOf[order[k]])] \in Seq(Event)
         /\ Len([k \in 1..Cardinality(S) |-> Add(ClusterOf[order[k]])]) = Cardinality(S)
<1>1. Cardinality(S) \in Nat
  BY FS_Subset, FS_CardinalityType, ProviderAssumption
<1>2. \A k \in 1..Cardinality(S) : Add(ClusterOf[order[k]]) \in Event
  BY ProviderAssumption DEF Event, Add
<1>3. [k \in 1..Cardinality(S) |-> Add(ClusterOf[order[k]])] \in [1..Cardinality(S) -> Event]
  BY <1>2
<1> QED
  BY <1>1, <1>3

-----------------------------------------------------------------------------
(* First layer: types, and where a handler is.                             *)

(* The notification in hand is about a cluster, and its handler listens.   *)
LEMMA NameFacts ==
  ASSUME TypeOK, HandlerOK, NEW r \in Runs, pending[r] # <<>>
  PROVE  Name(r) \in Cluster /\ r \in registered
<1>1. pending[r] \in Seq(Event)
  BY DEF TypeOK
<1>2. Head(pending[r]) \in Event
  BY <1>1, PopFacts
<1>3. Name(r) \in Cluster
  BY <1>2 DEF Name, Event
<1>4. r \in registered
  BY DEF HandlerOK
<1> QED
  BY <1>3, <1>4

(* Only the handlers that are busy are at a given place; a pop is typed.   *)
LEMMA ReturnOK ==
  ASSUME TypeOK, HandlerOK, NEW r \in Runs, pending[r] # <<>>, Return(r),
         run' = run
  PROVE  /\ pending' \in [Runs -> Seq(Event)]
         /\ pc' \in [Runs -> {"idle", "slow", "engage", "rollback", "disengage"}]
         /\ cl' \in [Runs -> Inst \cup {NoInst}]
         /\ registered' = registered /\ store' = store
         /\ HandlerOK'
<1>1. Tail(pending[r]) \in Seq(Event)
  BY PopFacts DEF TypeOK
<1>2. pending' = [pending EXCEPT ![r] = Tail(@)] /\ pc' = [pc EXCEPT ![r] = "idle"]
      /\ cl' = [cl EXCEPT ![r] = NoInst] /\ registered' = registered /\ store' = store
  BY DEF Return
<1>3. ASSUME NEW s \in Runs
      PROVE  /\ pc'[s] \in {"slow", "engage", "rollback"} => Handles(s, "add")'
             /\ pc'[s] = "disengage" => Handles(s, "del")'
             /\ pc'[s] \in {"engage", "rollback"} <=> cl'[s] # NoInst
             /\ pending'[s] # <<>> => s \in registered'
             /\ s \in registered' => run'[s] # "idle"
  <2>1. CASE s = r
    BY <1>2, <2>1 DEF TypeOK, HandlerOK
  <2>2. CASE s # r
    BY <1>2, <2>2 DEF TypeOK, HandlerOK, Handles
  <2> QED
    BY <2>1, <2>2
<1>4. HandlerOK'
  BY <1>3 DEF HandlerOK
<1> QED
  BY <1>1, <1>2, <1>4 DEF TypeOK

LEMMA ContinueOK ==
  ASSUME TypeOK, HandlerOK, NEW r \in Runs, NEW where, NEW local \in Inst \cup {NoInst},
         Continue(r, where, local),
         \/ where = "slow" /\ Handles(r, "add") /\ local = NoInst
         \/ where \in {"engage", "rollback"} /\ Handles(r, "add") /\ local # NoInst
         \/ where = "disengage" /\ Handles(r, "del") /\ local = NoInst,
         run' = run
  PROVE  /\ pc' \in [Runs -> {"idle", "slow", "engage", "rollback", "disengage"}]
         /\ cl' \in [Runs -> Inst \cup {NoInst}]
         /\ pending' = pending /\ registered' = registered /\ store' = store
         /\ HandlerOK'
<1>1. pc' = [pc EXCEPT ![r] = where] /\ cl' = [cl EXCEPT ![r] = local]
      /\ pending' = pending /\ registered' = registered /\ store' = store
  BY DEF Continue, informerVars
<1>2. ASSUME NEW s \in Runs
      PROVE  /\ pc'[s] \in {"slow", "engage", "rollback"} => Handles(s, "add")'
             /\ pc'[s] = "disengage" => Handles(s, "del")'
             /\ pc'[s] \in {"engage", "rollback"} <=> cl'[s] # NoInst
             /\ pending'[s] # <<>> => s \in registered'
             /\ s \in registered' => run'[s] # "idle"
  BY <1>1 DEF TypeOK, HandlerOK, Handles
<1>3. HandlerOK'
  BY <1>2 DEF HandlerOK
<1> QED
  BY <1>1, <1>3 DEF TypeOK

LEMMA NotifyOK ==
  ASSUME TypeOK, HandlerOK, NEW e \in Event, Notify(e),
         registered' = registered, pc' = pc, cl' = cl, run' = run
  PROVE  pending' \in [Runs -> Seq(Event)] /\ HandlerOK'
<1>1. pending' = [r \in Runs |-> IF r \in registered
                                 THEN Append(pending[r], e) ELSE pending[r]]
  BY DEF Notify
<1>2. ASSUME NEW r \in Runs
      PROVE  /\ Append(pending[r], e) \in Seq(Event)
             /\ Append(pending[r], e) # <<>>
             /\ pending[r] # <<>> => Head(Append(pending[r], e)) = Head(pending[r])
  BY PushFacts DEF TypeOK
<1>3. pending' \in [Runs -> Seq(Event)]
  BY <1>1, <1>2 DEF TypeOK
<1>4. ASSUME NEW s \in Runs
      PROVE  /\ pc'[s] \in {"slow", "engage", "rollback"} => Handles(s, "add")'
             /\ pc'[s] = "disengage" => Handles(s, "del")'
             /\ pc'[s] \in {"engage", "rollback"} <=> cl'[s] # NoInst
             /\ pending'[s] # <<>> => s \in registered'
             /\ s \in registered' => run'[s] # "idle"
  BY <1>1, <1>2 DEF HandlerOK, Handles
<1>5. HandlerOK'
  BY <1>4 DEF HandlerOK
<1> QED
  BY <1>3, <1>5

(* What a process starts with; failures counts on across processes.        *)
Blank ==
  /\ store = {}
  /\ registered = {}
  /\ pending = [r \in Runs |-> <<>>]
  /\ clusters = [c \in Cluster |-> NoInst]
  /\ cancelFns = [c \in Cluster |-> NoInst]
  /\ ctx = [i \in Inst |-> NoRun]
  /\ pc = [r \in Runs |-> "idle"]
  /\ cl = [r \in Runs |-> NoInst]
  /\ engaged = {}
  /\ run = [r \in Runs |-> "idle"]
  /\ starter = [r \in Runs |-> "none"]
  /\ groupDone = {}
  /\ stopped = FALSE
  /\ failed = {}
  /\ failures \in Nat

LEMMA InitIsBlank == Init => Blank
BY DEF Init, Blank

LEMMA TypesBlank == Blank => TypeOK /\ HandlerOK
<1> SUFFICES ASSUME Blank PROVE TypeOK /\ HandlerOK
  OBVIOUS
<1>1. TypeOK
  BY EmptySeq DEF Blank, TypeOK
<1>2. HandlerOK
  BY DEF Blank, HandlerOK
<1> QED
  BY <1>1, <1>2

(* A handler step keeps types and control consistent.                      *)
LEMMA TypesHandler ==
  ASSUME TypeOK, HandlerOK, NEW r \in Runs, HandlerStep(r)
  PROVE  TypeOK' /\ HandlerOK'
<1>0. NoInst \notin Inst
  BY ProviderAssumption
<1>1. CASE AddFast(r)
  <2>1. CASE Return(r)
    BY <1>1, <2>1, ReturnOK DEF AddFast, Handles, TypeOK, mapVars, runVars, historyVars
  <2>2. CASE Continue(r, "slow", NoInst)
    BY <1>1, <2>2, ContinueOK DEF AddFast, TypeOK, mapVars, runVars, historyVars
  <2> QED
    BY <1>1, <2>1, <2>2 DEF AddFast
<1>2. CASE AddExists(r)
  BY <1>2, ReturnOK DEF AddExists, HandlerOK, Handles, TypeOK, mapVars, runVars, historyVars
<1>3. CASE AddCreateFails(r)
  <2>1. Name(r) \in Cluster
    BY <1>3, NameFacts DEF AddCreateFails, HandlerOK, Handles
  <2> QED
    BY <1>3, <2>1, ReturnOK DEF AddCreateFails, Fail, HandlerOK, Handles, TypeOK, mapVars, runVars
<1>4. CASE AddInserts(r)
  <2>1. PICK i \in Inst : InsertCluster(r, i)
    BY <1>4 DEF AddInserts
  <2>2. Handles(r, "add") /\ run' = run
    BY <1>4, <2>1 DEF AddInserts, InsertCluster, HandlerOK, runVars
  <2> QED
    BY <1>0, <2>1, <2>2, ContinueOK DEF InsertCluster, TypeOK, runVars
<1>5. CASE EngageSucceeds(r)
  <2>1. cl[r] \in Inst
    BY <1>5 DEF EngageSucceeds, HandlerOK, TypeOK
  <2> QED
    BY <1>5, <2>1, ReturnOK DEF EngageSucceeds, HandlerOK, Handles, TypeOK, mapVars, runVars, historyVars
<1>6. CASE EngageFails(r)
  BY <1>6, ContinueOK DEF EngageFails, Fail, HandlerOK, TypeOK, mapVars, runVars
<1>7. CASE Rollback(r)
  <2>1. Name(r) \in Cluster
    BY <1>7, NameFacts DEF Rollback, HandlerOK, Handles
  <2>2. /\ clusters' \in [Cluster -> Inst \cup {NoInst}]
        /\ cancelFns' \in [Cluster -> Inst \cup {NoInst}]
        /\ ctx' \in [Inst -> Runs \cup {NoRun}]
        /\ failed' \in SUBSET Cluster
    BY <1>7, <2>1 DEF Rollback, TypeOK
  <2> QED
    BY <1>7, <2>2, ReturnOK DEF Rollback, HandlerOK, Handles, TypeOK, runVars
<1>8. CASE DeleteChecks(r)
  <2>1. CASE Return(r)
    BY <1>8, <2>1, ReturnOK DEF DeleteChecks, Handles, TypeOK, mapVars, runVars, historyVars
  <2>2. CASE Continue(r, "disengage", NoInst)
    BY <1>8, <2>2, ContinueOK DEF DeleteChecks, TypeOK, mapVars, runVars, historyVars
  <2> QED
    BY <1>8, <2>1, <2>2 DEF DeleteChecks
<1>9. CASE Disengage(r)
  <2>1. /\ clusters' \in [Cluster -> Inst \cup {NoInst}]
        /\ cancelFns' \in [Cluster -> Inst \cup {NoInst}]
        /\ ctx' \in [Inst -> Runs \cup {NoRun}]
    BY <1>9 DEF Disengage, TypeOK, mapVars
  <2> QED
    BY <1>9, <2>1, ReturnOK DEF Disengage, HandlerOK, Handles, TypeOK, runVars, historyVars
<1> QED
  BY <1>1, <1>2, <1>3, <1>4, <1>5, <1>6, <1>7, <1>8, <1>9 DEF HandlerStep

(* So does a step of Run.                                                  *)
LEMMA TypesRun ==
  ASSUME TypeOK, HandlerOK, NEW r \in Runs, RunStep(r)
  PROVE  TypeOK' /\ HandlerOK'
<1> USE DEF informerVars, mapVars, handlerVars, runVars, historyVars, Becomes
<1>1. CASE RunFailsEarly(r)
  BY <1>1 DEF RunFailsEarly, Fail, TypeOK, HandlerOK, Handles
<1>2. CASE RegisterHandler(r)
  <2>1. pending' \in [Runs -> Seq(Event)]
    <3>1. store \in SUBSET Object
      BY DEF TypeOK
    <3>2. PICK order \in [1..Cardinality(store) -> store] :
            pending' = [pending EXCEPT ![r] =
              [k \in 1..Cardinality(store) |-> Add(ClusterOf[order[k]])]]
      BY <1>2 DEF RegisterHandler
    <3>3. [k \in 1..Cardinality(store) |-> Add(ClusterOf[order[k]])] \in Seq(Event)
      BY <3>1, RegisterFacts
    <3> QED
      BY <3>2, <3>3 DEF TypeOK
  <2>2. \A s \in Runs : s # r => pending'[s] = pending[s]
    BY <1>2 DEF RegisterHandler, TypeOK
  <2>3. pc[r] = "idle" /\ pending[r] = <<>>
    BY <1>2 DEF RegisterHandler, HandlerOK, TypeOK, Handles
  <2>4. registered' = registered \cup {r} /\ run' = [run EXCEPT ![r] = "registered"]
        /\ pc' = pc /\ cl' = cl
    BY <1>2 DEF RegisterHandler
  <2>5. ASSUME NEW s \in Runs
        PROVE  /\ pc'[s] \in {"slow", "engage", "rollback"} => Handles(s, "add")'
               /\ pc'[s] = "disengage" => Handles(s, "del")'
               /\ pc'[s] \in {"engage", "rollback"} <=> cl'[s] # NoInst
               /\ pending'[s] # <<>> => s \in registered'
               /\ s \in registered' => run'[s] # "idle"
    BY <2>2, <2>3, <2>4 DEF HandlerOK, TypeOK, Handles
  <2>6. HandlerOK'
    BY <2>5 DEF HandlerOK
  <2> QED
    BY <1>2, <2>1, <2>4, <2>6 DEF RegisterHandler, TypeOK
<1>3. CASE StartCache(r)
  BY <1>3 DEF StartCache, TypeOK, HandlerOK, Handles
<1>4. CASE CacheStart(r)
  <2>1. HandlerOK'
    BY <1>4 DEF CacheStart, HandlerOK, Handles
  <2>2. /\ starter' \in [Runs -> {"none", "spawned", "running", "finished", "failed"}]
        /\ groupDone' \in SUBSET Runs
    BY <1>4 DEF CacheStart, TypeOK
  <2> QED
    BY <1>4, <2>1, <2>2 DEF CacheStart, TypeOK
<1>5. CASE CacheStop(r)
  BY <1>5 DEF CacheStop, TypeOK, HandlerOK, Handles
<1>6. CASE SyncSucceeds(r)
  BY <1>6 DEF SyncSucceeds, TypeOK, HandlerOK, Handles
<1>7. CASE SyncFails(r)
  BY <1>7 DEF SyncFails, Fail, TypeOK, HandlerOK, Handles
<1>8. CASE WaitReturns(r)
  BY <1>8 DEF WaitReturns, TypeOK, HandlerOK, Handles
<1> QED
  BY <1>1, <1>2, <1>3, <1>4, <1>5, <1>6, <1>7, <1>8 DEF RunStep

LEMMA TypesStep ==
  ASSUME TypeOK, HandlerOK, [Next]_vars
  PROVE  TypeOK' /\ HandlerOK'
<1> USE DEF informerVars, mapVars, handlerVars, runVars, historyVars
<1>1. ASSUME NEW o \in Object, StoreAdd(o) \/ StoreDelete(o)
      PROVE  TypeOK' /\ HandlerOK'
  <2>1. Add(ClusterOf[o]) \in Event /\ Del(ClusterOf[o]) \in Event
    BY ProviderAssumption, EventFacts
  <2>2. pending' \in [Runs -> Seq(Event)] /\ HandlerOK'
    BY <1>1, <2>1, NotifyOK DEF StoreAdd, StoreDelete
  <2> QED
    BY <1>1, <2>2 DEF StoreAdd, StoreDelete, TypeOK
<1>2. ASSUME NEW i \in Inst, ManagerDrops(i)
      PROVE  TypeOK' /\ HandlerOK'
  BY <1>2 DEF ManagerDrops, TypeOK, HandlerOK, Handles
<1>3. CASE Shutdown
  BY <1>3 DEF Shutdown, TypeOK, HandlerOK, Handles
<1>4. CASE UNCHANGED vars
  BY <1>4 DEF vars, TypeOK, HandlerOK, Handles
<1> QED
  BY <1>1, <1>2, <1>3, <1>4, TypesHandler, TypesRun DEF Next

(* Every variable keeps its type, whatever the informer, the handlers and  *)
(* any number of calls of Run do.                                          *)
THEOREM TypeCorrect == Spec => []TypeOK
<1>1. TypeOK /\ HandlerOK /\ [Next]_vars => (TypeOK /\ HandlerOK)'
  BY TypesStep
<1> QED
  BY <1>1, InitIsBlank, TypesBlank, PTL DEF Spec

-----------------------------------------------------------------------------
(* Second layer: the maps.                                                 *)

MapsOK == ContextTracked /\ LocalIsOwn /\ FailedAbsent /\ RegisteredFirst

(* No handler but one that inserts gets a new object or a new notification *)
(* for the object it has.                                                  *)
LocalsKept ==
  \A s \in Runs : cl'[s] # NoInst => cl'[s] = cl[s] /\ Name(s)' = Name(s)

LEMMA ReturnLocals ==
  ASSUME TypeOK, HandlerOK, NEW r \in Runs, Return(r)
  PROVE  LocalsKept
BY DEF TypeOK, Return, LocalsKept, Name

LEMMA ContinueLocals ==
  ASSUME TypeOK, HandlerOK, NEW r \in Runs, NEW where, NEW local,
         Continue(r, where, local), local \in {NoInst, cl[r]}
  PROVE  LocalsKept
BY DEF TypeOK, Continue, LocalsKept, Name, informerVars

LEMMA NotifyLocals ==
  ASSUME TypeOK, HandlerOK, NEW e \in Event, Notify(e), pc' = pc, cl' = cl
  PROVE  LocalsKept
<1> SUFFICES ASSUME NEW s \in Runs, cl'[s] # NoInst
             PROVE  cl'[s] = cl[s] /\ Name(s)' = Name(s)
  BY DEF LocalsKept
<1>1. pending[s] # <<>>
  BY DEF HandlerOK, Handles
<1>2. Head(Append(pending[s], e)) = Head(pending[s])
  BY <1>1, PushFacts DEF TypeOK
<1>3. pending'[s] = Append(pending[s], e) \/ pending'[s] = pending[s]
  BY DEF Notify
<1> QED
  BY <1>2, <1>3 DEF Name

LEMMA RunLocals ==
  ASSUME TypeOK, HandlerOK, NEW r \in Runs, RunStep(r)
  PROVE  LocalsKept
<1> USE DEF informerVars, mapVars, handlerVars, runVars, historyVars
<1>1. CASE RegisterHandler(r)
  <2>1. cl[r] = NoInst
    BY <1>1 DEF RegisterHandler, HandlerOK, Handles
  <2>2. \A s \in Runs : s # r => pending'[s] = pending[s]
    BY <1>1 DEF RegisterHandler, TypeOK
  <2> QED
    BY <1>1, <2>1, <2>2 DEF RegisterHandler, LocalsKept, Name
<1>2. CASE pending' = pending /\ cl' = cl
  BY <1>2 DEF LocalsKept, Name
<1> QED
  BY <1>1, <1>2 DEF RunStep, RunFailsEarly, StartCache, CacheStart, CacheStop,
                    SyncSucceeds, SyncFails, WaitReturns

LEMMA MapsKept ==
  ASSUME TypeOK, MapsOK, LocalsKept, UNCHANGED <<mapVars, failed>>,
         registered \subseteq registered'
  PROVE  MapsOK'
<1>1. ContextTracked' /\ FailedAbsent' /\ RegisteredFirst'
  BY DEF MapsOK, ContextTracked, FailedAbsent, RegisteredFirst, mapVars
<1>2. LocalIsOwn'
  BY DEF MapsOK, LocalIsOwn, LocalsKept, mapVars
<1> QED
  BY <1>1, <1>2 DEF MapsOK

(* The critical section that inserts: the new object gets the only entry   *)
(* that refers to it.                                                      *)
LEMMA MapsInsert ==
  ASSUME TypeOK, HandlerOK, MapsOK, NEW r \in Runs, NEW i \in Inst,
         pc[r] = "slow", clusters[Name(r)] = NoInst, InsertCluster(r, i)
  PROVE  MapsOK'
<1> DEFINE n == Name(r)
<1>0. NoInst \notin Inst /\ NoRun \notin Runs
  BY ProviderAssumption
<1>1. n \in Cluster /\ r \in registered /\ registered' = registered
  BY NameFacts DEF HandlerOK, Handles, InsertCluster, Continue, informerVars
<1>2. /\ clusters' = [clusters EXCEPT ![n] = i]
      /\ cancelFns' = [cancelFns EXCEPT ![n] = i]
      /\ ctx' = [ctx EXCEPT ![i] = r]
      /\ failed' = failed \ {n}
      /\ pending' = pending
      /\ cl' = [cl EXCEPT ![r] = i]
  BY DEF InsertCluster, Continue, informerVars
<1>3. /\ ctx[i] = NoRun
      /\ \A c \in Cluster : clusters[c] # i /\ cancelFns[c] # i
      /\ \A s \in Runs : cl[s] # i
  BY DEF InsertCluster, Fresh
<1>4. clusters = cancelFns /\ cancelFns[n] = NoInst
  BY DEF MapsOK, ContextTracked
<1>5. \A j \in Inst : ctx'[j] # NoRun <=> \E c \in Cluster : cancelFns'[c] = j
  <2> TAKE j \in Inst
  <2>1. CASE j = i
    BY <1>0, <1>1, <1>2, <2>1 DEF TypeOK
  <2>2. CASE j # i
    <3>1. ctx'[j] = ctx[j]
      BY <1>2, <2>2 DEF TypeOK
    <3>2. \A c \in Cluster : cancelFns'[c] = j <=> cancelFns[c] = j
      BY <1>0, <1>1, <1>2, <1>4, <2>2 DEF TypeOK
    <3> QED
      BY <3>1, <3>2 DEF MapsOK, ContextTracked
  <2> QED
    BY <2>1, <2>2
<1>6. \A c, d \in Cluster : clusters'[c] = clusters'[d] /\ clusters'[c] # NoInst => c = d
  BY <1>1, <1>2, <1>3 DEF MapsOK, ContextTracked, TypeOK
<1>7. ContextTracked'
  BY <1>2, <1>4, <1>5, <1>6 DEF ContextTracked
<1>8. LocalIsOwn'
  BY <1>1, <1>2, <1>3 DEF MapsOK, LocalIsOwn, TypeOK, Name
<1>9. FailedAbsent' /\ RegisteredFirst'
  BY <1>1, <1>2 DEF MapsOK, FailedAbsent, RegisteredFirst, TypeOK
<1> QED
  BY <1>7, <1>8, <1>9 DEF MapsOK

(* A cluster's entry and its context go in one step.                       *)
LEMMA MapsRemove ==
  ASSUME TypeOK, MapsOK, LocalsKept, NEW n \in Cluster, clusters[n] # NoInst,
         clusters' = [clusters EXCEPT ![n] = NoInst],
         cancelFns' = [cancelFns EXCEPT ![n] = NoInst],
         ctx' = [ctx EXCEPT ![clusters[n]] = NoRun],
         failed' \in {failed, failed \cup {n}},
         registered' = registered
  PROVE  MapsOK'
<1>0. NoInst \notin Inst
  BY ProviderAssumption
<1>1. clusters = cancelFns /\ clusters[n] \in Inst
  BY DEF MapsOK, ContextTracked, TypeOK
<1>2. \A j \in Inst : ctx'[j] # NoRun <=> \E c \in Cluster : cancelFns'[c] = j
  <2> TAKE j \in Inst
  <2>1. CASE j = clusters[n]
    <3>1. \A c \in Cluster : cancelFns'[c] # j
      BY <1>0, <1>1, <2>1 DEF MapsOK, ContextTracked, TypeOK
    <3> QED
      BY <1>1, <2>1, <3>1 DEF TypeOK
  <2>2. CASE j # clusters[n]
    <3>1. ctx'[j] = ctx[j]
      BY <1>1, <2>2 DEF TypeOK
    <3>2. \A c \in Cluster : cancelFns'[c] = j <=> cancelFns[c] = j
      BY <1>0, <1>1, <2>2 DEF TypeOK
    <3> QED
      BY <3>1, <3>2 DEF MapsOK, ContextTracked
  <2> QED
    BY <2>1, <2>2
<1>3. \A c, d \in Cluster : clusters'[c] = clusters'[d] /\ clusters'[c] # NoInst => c = d
  BY DEF MapsOK, ContextTracked, TypeOK
<1>4. ContextTracked'
  BY <1>1, <1>2, <1>3 DEF ContextTracked
<1>5. LocalIsOwn'
  BY DEF MapsOK, LocalIsOwn, LocalsKept, TypeOK
<1>6. FailedAbsent' /\ RegisteredFirst'
  BY DEF MapsOK, FailedAbsent, RegisteredFirst, TypeOK
<1> QED
  BY <1>4, <1>5, <1>6 DEF MapsOK

(* What a step that removes an entry does to the maps.                     *)
Removes(n) ==
  /\ clusters[n] # NoInst
  /\ clusters' = [clusters EXCEPT ![n] = NoInst]
  /\ cancelFns' = [cancelFns EXCEPT ![n] = NoInst]
  /\ ctx' = [ctx EXCEPT ![clusters[n]] = NoRun]

LEMMA RollbackFacts ==
  ASSUME TypeOK, HandlerOK, MapsOK, NEW r \in Runs, Rollback(r)
  PROVE  /\ Name(r) \in Cluster
         /\ cl[r] \in Inst
         /\ \/ Removes(Name(r)) /\ clusters[Name(r)] = cl[r]
               /\ failed' = failed \cup {Name(r)}
            \/ UNCHANGED <<clusters, cancelFns, ctx, failed>>
               /\ \A c \in Cluster : clusters[c] # cl[r]
<1>1. cl[r] \in Inst /\ pending[r] # <<>>
  BY DEF Rollback, HandlerOK, Handles, TypeOK
<1>2. Name(r) \in Cluster
  BY <1>1, NameFacts
<1>3. CASE clusters[Name(r)] = cl[r]
  BY <1>1, <1>2, <1>3, ProviderAssumption DEF Rollback, Removes
<1>4. CASE clusters[Name(r)] # cl[r]
  <2>1. \A c \in Cluster : clusters[c] # cl[r]
    BY <1>1, <1>4, ProviderAssumption DEF MapsOK, LocalIsOwn
  <2>2. ctx[cl[r]] = NoRun
    BY <1>1, <2>1 DEF MapsOK, ContextTracked
  <2>3. ctx' = [ctx EXCEPT ![cl[r]] = NoRun]
    BY DEF Rollback
  <2>4. ctx' = ctx
    BY <1>1, <2>2, <2>3 DEF TypeOK
  <2> QED
    BY <1>1, <1>2, <1>4, <2>1, <2>4 DEF Rollback
<1> QED
  BY <1>3, <1>4

LEMMA DisengageFacts ==
  ASSUME TypeOK, HandlerOK, MapsOK, NEW r \in Runs, Disengage(r)
  PROVE  /\ Name(r) \in Cluster
         /\ clusters'[Name(r)] = NoInst
         /\ Removes(Name(r)) \/ UNCHANGED <<clusters, cancelFns, ctx>>
<1>1. Name(r) \in Cluster
  BY NameFacts DEF Disengage, HandlerOK, Handles
<1>2. clusters = cancelFns
  BY DEF MapsOK, ContextTracked
<1>3. CASE cancelFns[Name(r)] = NoInst
  BY <1>1, <1>2, <1>3 DEF Disengage, mapVars
<1>4. CASE cancelFns[Name(r)] # NoInst
  BY <1>1, <1>2, <1>4 DEF Disengage, Removes, TypeOK
<1> QED
  BY <1>1, <1>3, <1>4

LEMMA MapsHandler ==
  ASSUME TypeOK, HandlerOK, MapsOK, NEW r \in Runs, HandlerStep(r)
  PROVE  MapsOK'
<1>1. CASE AddFast(r)
  <2>1. LocalsKept /\ registered' = registered
    BY <1>1, ReturnLocals, ContinueLocals DEF AddFast, Return, Continue, informerVars
  <2> QED
    BY <1>1, <2>1, MapsKept DEF AddFast, historyVars
<1>2. CASE AddExists(r)
  BY <1>2, ReturnLocals, MapsKept DEF AddExists, Return, historyVars
<1>3. CASE AddCreateFails(r)
  <2>1. LocalsKept /\ registered' = registered
    BY <1>3, ReturnLocals DEF AddCreateFails, Return
  <2>2. Name(r) \in Cluster /\ clusters[Name(r)] = NoInst
    BY <1>3, NameFacts DEF AddCreateFails, HandlerOK, Handles
  <2>3. UNCHANGED mapVars /\ failed' = failed \cup {Name(r)}
    BY <1>3 DEF AddCreateFails
  <2>4. ContextTracked' /\ RegisteredFirst'
    BY <2>1, <2>3 DEF MapsOK, ContextTracked, RegisteredFirst, mapVars
  <2>5. LocalIsOwn'
    BY <2>1, <2>3 DEF MapsOK, LocalIsOwn, LocalsKept, mapVars
  <2>6. FailedAbsent'
    BY <2>2, <2>3 DEF MapsOK, FailedAbsent, mapVars
  <2> QED
    BY <2>4, <2>5, <2>6 DEF MapsOK
<1>4. CASE AddInserts(r)
  BY <1>4, MapsInsert DEF AddInserts
<1>5. CASE EngageSucceeds(r)
  BY <1>5, ReturnLocals, MapsKept DEF EngageSucceeds, Return, historyVars
<1>6. CASE EngageFails(r)
  <2>1. LocalsKept /\ registered' = registered
    BY <1>6, ContinueLocals DEF EngageFails, Continue, informerVars
  <2> QED
    BY <1>6, <2>1, MapsKept DEF EngageFails
<1>7. CASE Rollback(r)
  <2>1. LocalsKept /\ registered' = registered
    BY <1>7, ReturnLocals DEF Rollback, Return
  <2> QED
    BY <1>7, <2>1, RollbackFacts, MapsRemove, MapsKept DEF Removes, mapVars
<1>8. CASE DeleteChecks(r)
  <2>1. LocalsKept /\ registered' = registered
    BY <1>8, ReturnLocals, ContinueLocals DEF DeleteChecks, Return, Continue, informerVars
  <2> QED
    BY <1>8, <2>1, MapsKept DEF DeleteChecks, historyVars
<1>9. CASE Disengage(r)
  <2>1. LocalsKept /\ registered' = registered /\ failed' = failed
    BY <1>9, ReturnLocals DEF Disengage, Return, historyVars
  <2> QED
    BY <1>9, <2>1, DisengageFacts, MapsRemove, MapsKept DEF Removes, mapVars
<1> QED
  BY <1>1, <1>2, <1>3, <1>4, <1>5, <1>6, <1>7, <1>8, <1>9 DEF HandlerStep

LEMMA RunKeepsMaps ==
  ASSUME NEW r \in Runs, RunStep(r)
  PROVE  UNCHANGED <<mapVars, failed>> /\ registered \subseteq registered'
BY DEF RunStep, RunFailsEarly, RegisterHandler, StartCache, CacheStart, CacheStop,
       SyncSucceeds, SyncFails, WaitReturns, informerVars, historyVars

LEMMA MapsStep ==
  ASSUME TypeOK, HandlerOK, MapsOK, [Next]_vars
  PROVE  MapsOK'
<1>1. ASSUME NEW o \in Object, StoreAdd(o) \/ StoreDelete(o)
      PROVE  MapsOK'
  <2>1. Add(ClusterOf[o]) \in Event /\ Del(ClusterOf[o]) \in Event
    BY ProviderAssumption, EventFacts
  <2>2. LocalsKept
    BY <1>1, <2>1, NotifyLocals DEF StoreAdd, StoreDelete, handlerVars
  <2> QED
    BY <1>1, <2>2, MapsKept DEF StoreAdd, StoreDelete, historyVars
<1>2. CASE UNCHANGED <<informerVars, mapVars, handlerVars, historyVars>>
  BY <1>2, MapsKept DEF informerVars, handlerVars, historyVars, LocalsKept, Name
<1>3. ASSUME NEW r \in Runs, RunStep(r)
      PROVE  MapsOK'
  BY <1>3, RunLocals, RunKeepsMaps, MapsKept
<1> QED
  BY <1>1, <1>2, <1>3, MapsHandler
     DEF Next, ManagerDrops, Shutdown, vars

LEMMA MapsBlank == Blank => MapsOK
<1> SUFFICES ASSUME Blank PROVE MapsOK
  OBVIOUS
<1>1. NoInst \notin Inst
  BY ProviderAssumption
<1> QED
  BY <1>1 DEF Blank, MapsOK, ContextTracked, LocalIsOwn, FailedAbsent, RegisteredFirst

(* The maps agree, every live context has exactly one entry and every      *)
(* entry one live context, however many handlers of however many calls of  *)
(* Run race for the lock (provider.go:126-162, 189-197).                   *)
THEOREM ContextsTracked == Spec => []ContextTracked
<1> DEFINE I == TypeOK /\ HandlerOK /\ MapsOK
<1>1. Init => I
  BY InitIsBlank, TypesBlank, MapsBlank
<1>2. I /\ [Next]_vars => I'
  BY TypesStep, MapsStep
<1>3. I => ContextTracked
  BY DEF MapsOK
<1> QED
  BY <1>1, <1>2, <1>3, PTL DEF Spec

(* What a step does to the objects that handlers have in hand.             *)
Offered == {cl[r] : r \in Runs} \ {NoInst}

LEMMA OfferedReturn ==
  ASSUME TypeOK, MapsOK, NEW r \in Runs, Return(r)
  PROVE  Offered' = Offered \ {cl[r]}
BY DEF Return, Offered, MapsOK, LocalIsOwn, TypeOK

LEMMA OfferedKept ==
  ASSUME TypeOK, MapsOK, NEW r \in Runs, NEW where, Continue(r, where, cl[r])
  PROVE  Offered' = Offered
BY DEF Continue, Offered, TypeOK

(* Every step of the provider is one of the directory or is not seen in    *)
(* it: entries are added only where there is none, with a context of their *)
(* own, and leave with it; every object is offered once, then engaged or   *)
(* taken back.                                                             *)
LEMMA DirectoryStep ==
  ASSUME TypeOK, HandlerOK, MapsOK, [Next]_vars
  PROVE  [Directory!Next]_(Directory!vars)
<1> USE DEF Directory!vars, Directory!Listed
<1> USE DEF Offered
<1>0. NoInst \notin Inst
  BY ProviderAssumption
<1>1. ASSUME UNCHANGED <<clusters, ctx, engaged, Offered>>, stopped => stopped',
             groupDone \subseteq groupDone'
      PROVE  UNCHANGED (Directory!vars) \/ Directory!End
  BY <1>1 DEF Directory!End
<1>2. ASSUME NEW n \in Cluster, Removes(n)
      PROVE  /\ clusters[n] \in Inst
             /\ {i \in Inst : ctx'[i] # NoRun} = {i \in Inst : ctx[i] # NoRun} \ {clusters[n]}
  <2>1. clusters[n] \in Inst /\ ctx' = [ctx EXCEPT ![clusters[n]] = NoRun]
    BY <1>2 DEF Removes, TypeOK
  <2> QED
    BY <2>1 DEF TypeOK
<1>3. ASSUME NEW r \in Runs, AddInserts(r)
      PROVE  \E c \in Cluster, i \in Inst : Directory!Represent(c, i)
  <2>1. PICK i \in Inst : InsertCluster(r, i)
    BY <1>3 DEF AddInserts
  <2>2. Name(r) \in Cluster /\ clusters[Name(r)] = NoInst
    BY <1>3, NameFacts DEF AddInserts, HandlerOK, Handles
  <2>3. ctx[i] = NoRun /\ (\A c \in Cluster : clusters[c] # i)
        /\ (\A s \in Runs : cl[s] # i) /\ i \notin engaged
        /\ ctx' = [ctx EXCEPT ![i] = r] /\ cl' = [cl EXCEPT ![r] = i]
        /\ clusters' = [clusters EXCEPT ![Name(r)] = i]
        /\ UNCHANGED <<engaged, stopped, groupDone>>
    BY <2>1 DEF InsertCluster, Fresh, Continue, runVars
  <2>4. {j \in Inst : ctx'[j] # NoRun} = {j \in Inst : ctx[j] # NoRun} \cup {i}
    BY <2>3, ProviderAssumption DEF TypeOK
  <2>5. cl[r] = NoInst
    BY <1>3 DEF AddInserts, HandlerOK
  <2>6. Offered' = Offered \cup {i} /\ i \notin Offered
    BY <1>0, <2>3, <2>5 DEF TypeOK
  <2> QED
    BY <2>2, <2>3, <2>4, <2>6 DEF Directory!Represent
<1>4. ASSUME NEW r \in Runs, EngageSucceeds(r)
      PROVE  \E i \in Inst : Directory!Engage(i)
  <2>1. cl[r] \in Inst /\ cl[r] \in Offered
    BY <1>0, <1>4 DEF EngageSucceeds, HandlerOK, TypeOK
  <2>2. Offered' = Offered \ {cl[r]}
    BY <1>4, OfferedReturn DEF EngageSucceeds
  <2>3. engaged' = engaged \cup {cl[r]} /\ UNCHANGED <<clusters, ctx, stopped, groupDone>>
    BY <1>4 DEF EngageSucceeds, mapVars, runVars
  <2> QED
    BY <2>1, <2>2, <2>3 DEF Directory!Engage
<1>5. ASSUME NEW r \in Runs, Rollback(r)
      PROVE  \E i \in Inst : Directory!Refuse(i)
  <2>1. Name(r) \in Cluster /\ cl[r] \in Inst /\ cl[r] \in Offered
    BY <1>0, <1>5, RollbackFacts
  <2>2. Offered' = Offered \ {cl[r]} /\ UNCHANGED <<engaged, stopped, groupDone>>
    BY <1>5, OfferedReturn DEF Rollback, runVars
  <2>3. CASE Removes(Name(r)) /\ clusters[Name(r)] = cl[r]
    <3>1. clusters' = [c \in Cluster |-> IF clusters[c] = cl[r] THEN NoInst ELSE clusters[c]]
      BY <1>0, <2>1, <2>3 DEF Removes, MapsOK, LocalIsOwn, TypeOK
    <3> QED
      BY <1>2, <2>1, <2>2, <2>3, <3>1 DEF Directory!Refuse
  <2>4. CASE UNCHANGED <<clusters, ctx>> /\ \A c \in Cluster : clusters[c] # cl[r]
    <3>1. clusters' = [c \in Cluster |-> IF clusters[c] = cl[r] THEN NoInst ELSE clusters[c]]
      BY <2>4 DEF TypeOK
    <3>2. ctx[cl[r]] = NoRun
      BY <2>1, <2>4 DEF MapsOK, ContextTracked
    <3> QED
      BY <2>1, <2>2, <2>4, <3>1, <3>2 DEF Directory!Refuse
  <2> QED
    BY <1>5, <2>3, <2>4, RollbackFacts
<1>6. ASSUME NEW r \in Runs, Disengage(r)
      PROVE  UNCHANGED (Directory!vars) \/ \E c \in Cluster : Directory!Forget(c)
  <2>1. cl[r] = NoInst
    BY <1>6 DEF Disengage, HandlerOK
  <2>2. Offered' = Offered /\ UNCHANGED <<engaged, stopped, groupDone>>
    BY <1>6, <2>1, OfferedReturn DEF Disengage, runVars
  <2>3. CASE Removes(Name(r))
    BY <1>2, <1>6, <2>2, <2>3, DisengageFacts DEF Removes, Directory!Forget
  <2>4. CASE UNCHANGED <<clusters, ctx>>
    BY <2>2, <2>4
  <2> QED
    BY <1>6, <2>3, <2>4, DisengageFacts
<1>7. ASSUME NEW r \in Runs,
             AddFast(r) \/ AddExists(r) \/ AddCreateFails(r) \/ EngageFails(r) \/ DeleteChecks(r)
      PROVE  UNCHANGED (Directory!vars)
  <2>1. UNCHANGED <<clusters, ctx, engaged, stopped, groupDone>>
    BY <1>7 DEF AddFast, AddExists, AddCreateFails, EngageFails, DeleteChecks, mapVars, runVars
  <2>2. CASE EngageFails(r)
    BY <2>1, <2>2, OfferedKept DEF EngageFails
  <2>3. CASE ~EngageFails(r)
    <3>1. cl[r] = NoInst
      BY <1>7, <2>3 DEF AddFast, AddExists, AddCreateFails, DeleteChecks, HandlerOK
    <3>2. Return(r) \/ Continue(r, "slow", cl[r]) \/ Continue(r, "disengage", cl[r])
      BY <1>7, <2>3, <3>1 DEF AddFast, AddExists, AddCreateFails, DeleteChecks
    <3>3. Offered' = Offered
      BY <3>1, <3>2, OfferedReturn, OfferedKept
    <3> QED
      BY <2>1, <3>3
  <2> QED
    BY <2>2, <2>3
<1>8. ASSUME NEW r \in Runs, RunStep(r)
      PROVE  UNCHANGED (Directory!vars) \/ Directory!End
  <2>1. UNCHANGED <<clusters, ctx, cl, engaged>> /\ stopped' = stopped
        /\ groupDone \subseteq groupDone'
    BY <1>8 DEF RunStep, RunFailsEarly, RegisterHandler, StartCache, CacheStart, CacheStop,
                SyncSucceeds, SyncFails, WaitReturns, mapVars, handlerVars
  <2> QED
    BY <1>1, <2>1
<1>9. ASSUME NEW i \in Inst, ManagerDrops(i)
      PROVE  Directory!Drop(i)
  BY <1>9 DEF ManagerDrops, CtxDone, RunCtxDone, mapVars, handlerVars, runVars, Directory!Drop
<1>10. CASE Shutdown \/ \E o \in Object : StoreAdd(o) \/ StoreDelete(o)
  <2>1. UNCHANGED <<clusters, ctx, cl, engaged, groupDone>> /\ (stopped => stopped')
    BY <1>10 DEF Shutdown, StoreAdd, StoreDelete, mapVars, handlerVars, runVars
  <2> QED
    BY <1>1, <2>1 DEF Directory!Next
<1>11. CASE UNCHANGED vars
  BY <1>11 DEF vars, mapVars, handlerVars, runVars
<1> QED
  BY <1>3, <1>4, <1>5, <1>6, <1>7, <1>8, <1>9, <1>10, <1>11
     DEF Next, HandlerStep, Directory!Next

LEMMA DirectoryInit == Init => Directory!Init
BY ProviderAssumption DEF Init, Directory!Init

(* The provider implements the directory that multicluster-runtime is      *)
(* promised (provider.go:141-163, 189-197).                                *)
THEOREM ImplementsDirectory == Spec => DirectorySpec
<1> DEFINE I == TypeOK /\ HandlerOK /\ MapsOK
<1>1. Init => I
  BY InitIsBlank, TypesBlank, MapsBlank
<1>2. I /\ [Next]_vars => I'
  BY TypesStep, MapsStep
<1>3. I /\ [Next]_vars => [Directory!Next]_(Directory!vars)
  BY DirectoryStep
<1> QED
  BY <1>1, <1>2, <1>3, DirectoryInit, PTL DEF Spec, DirectorySpec, Directory!Spec

-----------------------------------------------------------------------------
(* Third layer: the notifications.                                         *)

LEMMA Pops ==
  ASSUME TypeOK, NEW r \in Runs, pending[r] # <<>>, Return(r)
  PROVE  /\ \A s \in Runs : s # r => pending'[s] = pending[s] /\ pc'[s] = pc[s]
         /\ pc'[r] = "idle"
         /\ Len(pending[r]) \in Nat /\ Len(pending[r]) >= 1
         /\ Len(pending'[r]) = Len(pending[r]) - 1
         /\ \A k \in 1..(Len(pending[r]) - 1) : pending'[r][k] = pending[r][k + 1]
         /\ Head(pending[r]) = pending[r][1]
         /\ registered' = registered /\ store' = store
<1>1. pending' = [pending EXCEPT ![r] = Tail(@)] /\ pc' = [pc EXCEPT ![r] = "idle"]
      /\ registered' = registered /\ store' = store
  BY DEF Return
<1>2. pending'[r] = Tail(pending[r]) /\ pc'[r] = "idle"
  BY <1>1 DEF TypeOK
<1>3. \A s \in Runs : s # r => pending'[s] = pending[s] /\ pc'[s] = pc[s]
  BY <1>1 DEF TypeOK
<1> QED
  BY <1>1, <1>2, <1>3, PopFacts DEF TypeOK

LEMMA Pushes ==
  ASSUME TypeOK, NEW e \in Event, Notify(e), NEW s \in Runs
  PROVE  /\ Len(pending[s]) \in Nat
         /\ \A k \in 1..Len(pending[s]) : pending'[s][k] = pending[s][k]
         /\ s \notin registered => pending'[s] = pending[s]
         /\ s \in registered => /\ Len(pending'[s]) = Len(pending[s]) + 1
                                /\ pending'[s][Len(pending[s]) + 1] = e
<1>1. pending'[s] = IF s \in registered THEN Append(pending[s], e) ELSE pending[s]
  BY DEF Notify
<1> QED
  BY <1>1, PushFacts DEF TypeOK

(* What is behind the notification in hand.                                *)
AddBehind(r, c) == \E k \in 2..Len(pending[r]) : pending[r][k] = Add(c)
DelBehind(r, c) == \E k \in 2..Len(pending[r]) : pending[r][k] = Del(c)

LEMMA Behind ==
  ASSUME TypeOK, NEW r \in Runs, NEW c \in Cluster, pending[r] # <<>>
  PROVE  /\ AddQueued(r, c) =>
              AddBehind(r, c) \/ (pc[r] \in {"idle", "slow"} /\ Handles(r, "add") /\ Name(r) = c)
         /\ AddBehind(r, c) => AddQueued(r, c)
         /\ DelQueued(r, c) => DelBehind(r, c) \/ (Handles(r, "del") /\ Name(r) = c)
         /\ DelBehind(r, c) => DelQueued(r, c)
<1>1. Len(pending[r]) \in Nat /\ Head(pending[r]) = pending[r][1]
  BY PopFacts DEF TypeOK
<1>2. \A k \in 1..Len(pending[r]) : k = 1 \/ k \in 2..Len(pending[r])
  BY <1>1
<1>3. \A k \in 2..Len(pending[r]) : k \in 1..Len(pending[r]) /\ k # 1
  BY <1>1
<1>4. AddQueued(r, c) =>
        AddBehind(r, c) \/ (pc[r] \in {"idle", "slow"} /\ pending[r][1] = Add(c))
  BY <1>2 DEF AddQueued, AddBehind
<1>5. AddBehind(r, c) => AddQueued(r, c)
  BY <1>3 DEF AddQueued, AddBehind
<1>6. DelQueued(r, c) => DelBehind(r, c) \/ pending[r][1] = Del(c)
  BY <1>2 DEF DelQueued, DelBehind
<1>7. DelBehind(r, c) => DelQueued(r, c)
  BY <1>3 DEF DelQueued, DelBehind
<1> QED
  BY <1>1, <1>4, <1>5, <1>6, <1>7, EventFacts DEF Handles, Name

LEMMA QueuedAfterReturn ==
  ASSUME TypeOK, NEW r \in Runs, pending[r] # <<>>, Return(r), NEW c \in Cluster
  PROVE  /\ AddBehind(r, c) => AddQueued(r, c)'
         /\ DelBehind(r, c) => DelQueued(r, c)'
         /\ \A s \in Runs : s # r /\ AddQueued(s, c) => AddQueued(s, c)'
         /\ \A s \in Runs : s # r /\ DelQueued(s, c) => DelQueued(s, c)'
<1>1. \A k \in 2..Len(pending[r]) :
        /\ k - 1 \in 1..Len(pending'[r])
        /\ pending'[r][k - 1] = pending[r][k]
  BY Pops
<1>2. pc'[r] = "idle"
  BY Pops
<1>3. AddBehind(r, c) => AddQueued(r, c)'
  BY <1>1, <1>2 DEF AddBehind, AddQueued
<1>4. DelBehind(r, c) => DelQueued(r, c)'
  BY <1>1 DEF DelBehind, DelQueued
<1>5. \A s \in Runs : s # r => pending'[s] = pending[s] /\ pc'[s] = pc[s]
  BY Pops
<1> QED
  BY <1>3, <1>4, <1>5 DEF AddQueued, DelQueued

LEMMA QueuedAfterNotify ==
  ASSUME TypeOK, HandlerOK, NEW e \in Event, Notify(e), pc' = pc, NEW s \in Runs, NEW c \in Cluster
  PROVE  /\ AddQueued(s, c) => AddQueued(s, c)'
         /\ DelQueued(s, c) => DelQueued(s, c)'
         /\ s \in registered /\ e = Add(c) => AddQueued(s, c)'
         /\ s \in registered /\ e = Del(c) => DelQueued(s, c)'
<1>1. \A k \in 1..Len(pending[s]) : k \in 1..Len(pending'[s]) /\ pending'[s][k] = pending[s][k]
  BY Pushes
<1>2. s \in registered => /\ Len(pending[s]) + 1 \in 1..Len(pending'[s])
                          /\ pending'[s][Len(pending[s]) + 1] = e
  BY Pushes
<1>3. Len(pending[s]) + 1 = 1 => pc[s] \in {"idle", "slow"}
  <2> SUFFICES ASSUME Len(pending[s]) + 1 = 1 PROVE pc[s] \in {"idle", "slow"}
    OBVIOUS
  <2>1. pending[s] = <<>>
    BY EmptySeq DEF TypeOK
  <2> QED
    BY <2>1 DEF HandlerOK, Handles, TypeOK
<1>4. AddQueued(s, c) => AddQueued(s, c)'
  BY <1>1 DEF AddQueued
<1>5. DelQueued(s, c) => DelQueued(s, c)'
  BY <1>1 DEF DelQueued
<1>6. s \in registered /\ e = Add(c) => AddQueued(s, c)'
  BY <1>2, <1>3 DEF AddQueued
<1>7. s \in registered /\ e = Del(c) => DelQueued(s, c)'
  BY <1>2 DEF DelQueued
<1> QED
  BY <1>4, <1>5, <1>6, <1>7

(* Returning loses nothing but the notification in hand: it is enough that *)
(* no cluster depends on that one.                                         *)
LEMMA ReturnKeeps ==
  ASSUME TypeOK, HandlerOK, NoLostNotification,
         NEW r \in Runs, pending[r] # <<>>, Return(r),
         \A c \in Cluster :
           clusters'[c] = NoInst /\ c \notin failed' /\ Indexed(c) =>
             \/ clusters[c] = NoInst /\ c \notin failed
                /\ ~(pc[r] \in {"idle", "slow"} /\ Handles(r, "add") /\ Name(r) = c)
             \/ AddBehind(r, c),
         \A c \in Cluster :
           clusters'[c] # NoInst /\ ~Indexed(c) =>
             clusters[c] # NoInst /\ ~(Handles(r, "del") /\ Name(r) = c)
  PROVE  NoLostNotification'
<1>0. r \in registered /\ registered' = registered /\ store' = store
  BY Pops DEF HandlerOK
<1>1. AbsentHasAdd'
  <2> SUFFICES ASSUME NEW c \in Cluster, Indexed(c), clusters'[c] = NoInst, c \notin failed'
               PROVE  \E s \in registered : AddQueued(s, c)'
    BY <1>0 DEF AbsentHasAdd, Indexed
  <2>1. CASE AddBehind(r, c)
    BY <1>0, <2>1, QueuedAfterReturn
  <2>2. CASE ~AddBehind(r, c)
    <3>1. PICK s \in registered : AddQueued(s, c)
      BY <1>0, <2>2 DEF NoLostNotification, AbsentHasAdd
    <3>2. s \in Runs
      BY DEF TypeOK
    <3>3. s # r
      BY <2>2, <3>1, Behind
    <3> QED
      BY <3>1, <3>2, <3>3, QueuedAfterReturn
  <2> QED
    BY <2>1, <2>2
<1>2. EmptyHasDelete'
  <2> SUFFICES ASSUME NEW c \in Cluster, ~Indexed(c), clusters'[c] # NoInst
               PROVE  \E s \in registered : DelQueued(s, c)'
    BY <1>0 DEF EmptyHasDelete, Indexed
  <2>1. PICK s \in registered : DelQueued(s, c)
    BY DEF NoLostNotification, EmptyHasDelete
  <2>2. s \in Runs
    BY DEF TypeOK
  <2>3. s = r => DelBehind(r, c)
    BY <2>1, Behind
  <2> QED
    BY <2>1, <2>2, <2>3, QueuedAfterReturn
<1>3. DisengageHasAdd'
  <2> SUFFICES ASSUME NEW s \in Runs, pc'[s] = "disengage", Indexed(Name(s))'
               PROVE  AddQueued(s, Name(s))'
    BY DEF DisengageHasAdd
  <2>1. s # r /\ pending'[s] = pending[s] /\ pc'[s] = pc[s]
    BY Pops
  <2> QED
    BY <1>0, <2>1 DEF NoLostNotification, DisengageHasAdd, AddQueued, Indexed, Name
<1>4. StaleAddHasDelete'
  <2> SUFFICES ASSUME NEW s \in Runs, NEW k \in 1..Len(pending'[s]),
                      pending'[s][k].type = "add", ~Indexed(pending'[s][k].cluster)
               PROVE  \E m \in k+1..Len(pending'[s]) :
                        pending'[s][m] = Del(pending'[s][k].cluster)
    BY <1>0 DEF StaleAddHasDelete, Indexed
  <2>1. CASE s # r
    BY <2>1, Pops DEF NoLostNotification, StaleAddHasDelete
  <2>2. CASE s = r
    <3>1. k + 1 \in 1..Len(pending[r]) /\ pending'[r][k] = pending[r][k + 1]
      BY <2>2, Pops
    <3>2. PICK m \in (k + 1) + 1..Len(pending[r]) : pending[r][m] = Del(pending[r][k + 1].cluster)
      BY <2>2, <3>1 DEF NoLostNotification, StaleAddHasDelete
    <3>3. m - 1 \in k + 1..Len(pending'[r]) /\ pending'[r][m - 1] = pending[r][m]
      BY <2>2, <3>1, <3>2, Pops
    <3> QED
      BY <2>2, <3>1, <3>2, <3>3
  <2> QED
    BY <2>1, <2>2
<1> QED
  BY <1>1, <1>2, <1>3, <1>4 DEF NoLostNotification

(* Going on to another place in the handler: the queues stay.              *)
LEMMA ContinueKeeps ==
  ASSUME TypeOK, HandlerOK, NoLostNotification,
         NEW r \in Runs, pending[r] # <<>>, NEW where, NEW local, Continue(r, where, local),
         \A c \in Cluster :
           clusters'[c] = NoInst /\ c \notin failed' /\ Indexed(c) =>
             clusters[c] = NoInst /\ c \notin failed
             /\ (where = "slow" \/ ~(pc[r] \in {"idle", "slow"} /\ Handles(r, "add") /\ Name(r) = c)),
         \A c \in Cluster :
           clusters'[c] # NoInst /\ ~Indexed(c) =>
             clusters[c] # NoInst \/ DelBehind(r, c),
         where = "disengage" => ~Indexed(Name(r))
  PROVE  NoLostNotification'
<1>0. r \in registered /\ registered' = registered /\ store' = store /\ pending' = pending
  BY DEF HandlerOK, Continue, informerVars
<1>1. pc'[r] = where /\ \A s \in Runs : s # r => pc'[s] = pc[s]
  BY DEF Continue, TypeOK
<1>2. AbsentHasAdd'
  <2> SUFFICES ASSUME NEW c \in Cluster, Indexed(c), clusters'[c] = NoInst, c \notin failed'
               PROVE  \E s \in registered : AddQueued(s, c)'
    BY <1>0 DEF AbsentHasAdd, Indexed
  <2>1. PICK s \in registered : AddQueued(s, c)
    BY <1>0 DEF NoLostNotification, AbsentHasAdd
  <2>2. s \in Runs
    BY DEF TypeOK
  <2>3. CASE s # r
    BY <1>0, <1>1, <2>1, <2>2, <2>3 DEF AddQueued
  <2>4. CASE s = r /\ where = "slow"
    BY <1>0, <1>1, <2>1, <2>2, <2>4 DEF AddQueued
  <2>5. CASE s = r /\ where # "slow"
    <3>1. AddBehind(r, c)
      BY <2>1, <2>5, Behind
    <3>2. PICK k \in 2..Len(pending[r]) : pending[r][k] = Add(c)
      BY <3>1 DEF AddBehind
    <3>3. k \in 1..Len(pending[r]) /\ k # 1
      BY <3>2, LenProperties DEF TypeOK
    <3> QED
      BY <1>0, <2>5, <3>2, <3>3 DEF AddQueued
  <2> QED
    BY <2>3, <2>4, <2>5
<1>3. EmptyHasDelete'
  <2> SUFFICES ASSUME NEW c \in Cluster, ~Indexed(c), clusters'[c] # NoInst
               PROVE  \E s \in registered : DelQueued(s, c)
    BY <1>0 DEF EmptyHasDelete, Indexed, DelQueued
  <2>1. CASE DelBehind(r, c)
    BY <1>0, <2>1, Behind
  <2>2. CASE clusters[c] # NoInst
    BY <2>2 DEF NoLostNotification, EmptyHasDelete
  <2> QED
    BY <2>1, <2>2
<1>4. DisengageHasAdd'
  <2> SUFFICES ASSUME NEW s \in Runs, pc'[s] = "disengage", Indexed(Name(s))
               PROVE  AddQueued(s, Name(s))'
    BY <1>0 DEF DisengageHasAdd, Indexed, Name
  <2>1. s # r /\ pc'[s] = pc[s]
    BY <1>1
  <2> QED
    BY <1>0, <2>1 DEF NoLostNotification, DisengageHasAdd, AddQueued, Name
<1>5. StaleAddHasDelete'
  BY <1>0 DEF NoLostNotification, StaleAddHasDelete, Indexed
<1> QED
  BY <1>2, <1>3, <1>4, <1>5 DEF NoLostNotification

LEMMA NotificationsHandler ==
  ASSUME TypeOK, HandlerOK, MapsOK, NoLostNotification, NEW r \in Runs, HandlerStep(r)
  PROVE  NoLostNotification'
<1>0. pending[r] # <<>>
  BY DEF HandlerStep, HandlerOK, Handles, AddFast, AddExists, AddCreateFails, AddInserts,
         EngageSucceeds, EngageFails, Rollback, DeleteChecks, Disengage
<1>n. Name(r) \in Cluster
  BY <1>0, NameFacts
<1>h. ~(Handles(r, "add") /\ Handles(r, "del"))
  BY DEF Handles
<1>1. CASE AddFast(r)
  <2>1. CASE clusters[Name(r)] # NoInst
    BY <1>0, <1>1, <1>h, <2>1, ReturnKeeps DEF AddFast, mapVars, historyVars
  <2>2. CASE clusters[Name(r)] = NoInst
    BY <1>0, <1>1, <2>2, ContinueKeeps DEF AddFast, mapVars, historyVars
  <2> QED
    BY <2>1, <2>2
<1>2. CASE AddExists(r)
  <2>1. Handles(r, "add")
    BY <1>2 DEF AddExists, HandlerOK
  <2> QED
    BY <1>0, <1>2, <1>h, <2>1, ReturnKeeps DEF AddExists, mapVars, historyVars
<1>3. CASE AddCreateFails(r)
  <2>1. Handles(r, "add")
    BY <1>3 DEF AddCreateFails, HandlerOK
  <2>2. clusters' = clusters /\ failed' = failed \cup {Name(r)} /\ Return(r)
    BY <1>3 DEF AddCreateFails, mapVars
  <2> QED
    BY <1>0, <1>h, <2>1, <2>2, ReturnKeeps
<1>4. CASE AddInserts(r)
  <2>1. PICK i \in Inst : InsertCluster(r, i)
    BY <1>4 DEF AddInserts
  <2>2. /\ clusters' = [clusters EXCEPT ![Name(r)] = i]
        /\ failed' = failed \ {Name(r)}
        /\ Continue(r, "engage", i)
    BY <2>1 DEF InsertCluster
  <2>3. Handles(r, "add") /\ pc[r] = "slow"
    BY <1>4 DEF AddInserts, HandlerOK
  <2>4. ~Indexed(Name(r)) => DelBehind(r, Name(r))
    <3>1. pending[r][1].type = "add" /\ pending[r][1].cluster = Name(r)
          /\ Len(pending[r]) \in Nat /\ Len(pending[r]) >= 1
      BY <1>0, <2>3, PopFacts DEF TypeOK, Handles, Name
    <3>2. 1 \in 1..Len(pending[r]) /\ 1 + 1 = 2
      BY <3>1
    <3> QED
      BY <3>1, <3>2 DEF NoLostNotification, StaleAddHasDelete, DelBehind
  <2>5. \A c \in Cluster : c # Name(r) => clusters'[c] = clusters[c]
    BY <2>2 DEF TypeOK
  <2>6. clusters'[Name(r)] # NoInst
    BY <1>n, <2>2, ProviderAssumption DEF TypeOK
  <2> QED
    BY <1>0, <2>2, <2>4, <2>5, <2>6, ContinueKeeps
<1>5. CASE EngageSucceeds(r)
  <2>1. Handles(r, "add")
    BY <1>5 DEF EngageSucceeds, HandlerOK
  <2> QED
    BY <1>0, <1>5, <1>h, <2>1, ReturnKeeps DEF EngageSucceeds, mapVars, historyVars
<1>6. CASE EngageFails(r)
  BY <1>0, <1>6, ContinueKeeps DEF EngageFails, mapVars
<1>7. CASE Rollback(r)
  <2>1. Handles(r, "add") /\ Return(r) /\ pc[r] = "rollback"
    BY <1>7 DEF Rollback, HandlerOK
  <2>2. \/ UNCHANGED <<clusters, failed>>
        \/ /\ clusters' = [clusters EXCEPT ![Name(r)] = NoInst]
           /\ failed' = failed \cup {Name(r)}
    BY <1>7, RollbackFacts DEF Removes
  <2>3. CASE UNCHANGED <<clusters, failed>>
    BY <1>0, <1>h, <2>1, <2>3, ReturnKeeps
  <2>4. CASE /\ clusters' = [clusters EXCEPT ![Name(r)] = NoInst]
             /\ failed' = failed \cup {Name(r)}
    <3>1. \A c \in Cluster : c # Name(r) => clusters'[c] = clusters[c]
      BY <2>4 DEF TypeOK
    <3>2. clusters'[Name(r)] = NoInst /\ Name(r) \in failed' /\ failed \subseteq failed'
      BY <1>n, <2>4 DEF TypeOK
    <3> QED
      BY <1>0, <1>h, <2>1, <3>1, <3>2, ReturnKeeps
  <2> QED
    BY <2>2, <2>3, <2>4
<1>8. CASE DeleteChecks(r)
  <2>1. CASE Indexed(Name(r))
    BY <1>0, <1>8, <1>h, <2>1, ReturnKeeps DEF DeleteChecks, mapVars, historyVars
  <2>2. CASE ~Indexed(Name(r))
    BY <1>0, <1>8, <1>h, <2>2, ContinueKeeps DEF DeleteChecks, mapVars, historyVars
  <2> QED
    BY <2>1, <2>2
<1>9. CASE Disengage(r)
  <2>1. Handles(r, "del") /\ Return(r) /\ pc[r] = "disengage" /\ failed' = failed
    BY <1>9 DEF Disengage, HandlerOK, historyVars
  <2>2. Indexed(Name(r)) => AddBehind(r, Name(r))
    BY <1>0, <1>h, <1>n, <2>1, Behind DEF NoLostNotification, DisengageHasAdd
  <2>3. clusters'[Name(r)] = NoInst
        /\ \A c \in Cluster : c # Name(r) => clusters'[c] = clusters[c]
    BY <1>9, DisengageFacts DEF Removes, TypeOK
  <2> QED
    BY <1>0, <2>1, <2>2, <2>3, ReturnKeeps
<1> QED
  BY <1>1, <1>2, <1>3, <1>4, <1>5, <1>6, <1>7, <1>8, <1>9 DEF HandlerStep

(* The store changes and every listener is told in the same step.          *)
LEMMA NotificationsStore ==
  ASSUME TypeOK, HandlerOK, MapsOK, NoLostNotification, NEW o \in Object,
         StoreAdd(o) \/ StoreDelete(o)
  PROVE  NoLostNotification'
<1> DEFINE c0 == ClusterOf[o]
           e == IF StoreAdd(o) THEN Add(c0) ELSE Del(c0)
<1>1. /\ UNCHANGED <<registered, clusters, failed, pc>>
      /\ Notify(e)
      /\ store' = IF StoreAdd(o) THEN store \cup {o} ELSE store \ {o}
  BY DEF StoreAdd, StoreDelete, mapVars, handlerVars, historyVars
<1>2. c0 \in Cluster /\ e \in Event
  BY ProviderAssumption, EventFacts
<1>3. ASSUME StoreAdd(o)
      PROVE  e = Add(c0) /\ \A c \in Cluster : Indexed(c)' <=> Indexed(c) \/ c = c0
  BY <1>1, <1>3 DEF Indexed
<1>4. ASSUME ~StoreAdd(o)
      PROVE  e = Del(c0) /\ \A c \in Cluster : /\ Indexed(c)' => Indexed(c)
                                               /\ Indexed(c) => Indexed(c)' \/ c = c0
  BY <1>1, <1>4 DEF Indexed
<1>5. \A s \in Runs, c \in Cluster :
        /\ AddQueued(s, c) => AddQueued(s, c)'
        /\ DelQueued(s, c) => DelQueued(s, c)'
        /\ s \in registered /\ e = Add(c) => AddQueued(s, c)'
        /\ s \in registered /\ e = Del(c) => DelQueued(s, c)'
  BY <1>1, <1>2, QueuedAfterNotify
<1>6. registered \subseteq Runs
  BY DEF TypeOK
<1>7. AbsentHasAdd'
  <2> SUFFICES ASSUME NEW c \in Cluster, registered # {}, Indexed(c)',
                      clusters[c] = NoInst, c \notin failed
               PROVE  \E s \in registered : AddQueued(s, c)'
    BY <1>1 DEF AbsentHasAdd
  <2>1. CASE Indexed(c)
    BY <1>5, <1>6, <2>1 DEF NoLostNotification, AbsentHasAdd
  <2>2. CASE ~Indexed(c)
    BY <1>3, <1>4, <1>5, <1>6, <2>2
  <2> QED
    BY <2>1, <2>2
<1>8. EmptyHasDelete'
  <2> SUFFICES ASSUME NEW c \in Cluster, ~Indexed(c)', clusters[c] # NoInst
               PROVE  \E s \in registered : DelQueued(s, c)'
    BY <1>1 DEF EmptyHasDelete
  <2>1. CASE Indexed(c)
    <3>1. e = Del(c)
      BY <1>3, <1>4, <2>1
    <3>2. registered # {}
      BY DEF MapsOK, RegisteredFirst
    <3> QED
      BY <1>5, <1>6, <3>1, <3>2
  <2>2. CASE ~Indexed(c)
    BY <1>5, <1>6, <2>2 DEF NoLostNotification, EmptyHasDelete
  <2> QED
    BY <2>1, <2>2
<1>9. DisengageHasAdd'
  <2> SUFFICES ASSUME NEW s \in Runs, pc[s] = "disengage", Indexed(Name(s))'
               PROVE  AddQueued(s, Name(s))'
    BY <1>1 DEF DisengageHasAdd
  <2>1. pending[s] # <<>> /\ s \in registered
    BY DEF HandlerOK, Handles
  <2>2. Name(s)' = Name(s) /\ Name(s) \in Cluster
    <3>1. Head(Append(pending[s], e)) = Head(pending[s])
      BY <1>2, <2>1, PushFacts DEF TypeOK
    <3>2. pending'[s] = Append(pending[s], e)
      BY <1>1, <2>1 DEF Notify
    <3>3. Name(s) \in Cluster
      BY <2>1, NameFacts
    <3> QED
      BY <3>1, <3>2, <3>3 DEF Name
  <2>3. Indexed(Name(s))' => (\E c \in Cluster : c = Name(s) /\ Indexed(c)')
    BY <2>2 DEF Indexed
  <2>4. Indexed(Name(s)) \/ e = Add(Name(s))
    BY <1>3, <1>4, <2>3
  <2>5. \E c \in Cluster : c = Name(s) /\ AddQueued(s, c)'
    BY <1>5, <2>1, <2>2, <2>4 DEF NoLostNotification, DisengageHasAdd
  <2> QED
    BY <2>2, <2>5 DEF AddQueued
<1>10. StaleAddHasDelete'
  <2> SUFFICES ASSUME NEW s \in Runs, NEW k \in 1..Len(pending'[s]),
                      pending'[s][k].type = "add",
                      ~\E x \in store' : ClusterOf[x] = pending'[s][k].cluster
               PROVE  \E m \in k+1..Len(pending'[s]) :
                        pending'[s][m] = Del(pending'[s][k].cluster)
    BY DEF StaleAddHasDelete, Indexed
  <2> DEFINE n == Len(pending[s])
  <2>0. n \in Nat
    BY LenProperties DEF TypeOK
  <2>1. CASE k \in 1..n
    <3>1. pending'[s][k] = pending[s][k]
      BY <1>1, <1>2, <2>1, Pushes
    <3>2. PICK c \in Cluster : c = pending[s][k].cluster
      BY <1>2, <2>1, ElementOfSeq, EventFacts DEF TypeOK
    <3>3. ~Indexed(c)'
      BY <3>1, <3>2 DEF Indexed
    <3>4. CASE ~Indexed(c)
      <4>1. PICK m \in k+1..n : pending[s][m] = Del(c)
        BY <2>1, <3>1, <3>2, <3>4 DEF NoLostNotification, StaleAddHasDelete
      <4>2. m \in 1..n /\ m \in k+1..Len(pending'[s])
        BY <1>1, <1>2, <2>0, <2>1, <4>1, Pushes
      <4>3. pending'[s][m] = pending[s][m]
        BY <1>1, <1>2, <4>2, Pushes
      <4> QED
        BY <3>1, <3>2, <4>1, <4>2, <4>3
    <3>5. CASE Indexed(c)
      <4>1. e = Del(c)
        BY <1>3, <1>4, <3>2, <3>3, <3>5
      <4>2. pending[s] # <<>>
        BY <2>1, EmptySeq
      <4>3. s \in registered
        BY <4>2 DEF HandlerOK
      <4>4. pending'[s][n + 1] = e /\ Len(pending'[s]) = n + 1
        BY <1>1, <1>2, <4>3, Pushes
      <4>5. n + 1 \in k+1..Len(pending'[s])
        BY <2>0, <2>1, <4>4
      <4> QED
        BY <3>1, <3>2, <4>1, <4>4, <4>5
    <3> QED
      BY <3>4, <3>5
  <2>2. CASE k \notin 1..n
    <3>1. s \in registered /\ k = n + 1 /\ pending'[s][k] = e
      BY <1>1, <1>2, <2>0, <2>2, Pushes
    <3>2. e = Add(c0) /\ StoreAdd(o)
      BY <1>2, <1>4, <3>1, EventFacts
    <3>3. Indexed(c0)'
      BY <1>2, <1>3, <3>2
    <3>4. e.cluster = c0
      BY <1>2, <3>2, EventFacts
    <3> QED
      BY <3>1, <3>3, <3>4 DEF Indexed
  <2> QED
    BY <2>1, <2>2
<1> QED
  BY <1>7, <1>8, <1>9, <1>10 DEF NoLostNotification

(* A new listener is told of every object in the store.                    *)
LEMMA NotificationsRegister ==
  ASSUME TypeOK, HandlerOK, NoLostNotification, NEW r \in Runs, RegisterHandler(r)
  PROVE  NoLostNotification'
<1> DEFINE n == Cardinality(store)
<1>1. /\ UNCHANGED <<store, clusters, failed, pc>>
      /\ registered' = registered \cup {r}
      /\ run[r] = "idle"
  BY DEF RegisterHandler, mapVars, handlerVars, historyVars
<1>2. PICK order \in [1..n -> store] :
        /\ \A o \in store : \E k \in 1..n : order[k] = o
        /\ pending' = [pending EXCEPT ![r] = [k \in 1..n |-> Add(ClusterOf[order[k]])]]
  BY DEF RegisterHandler
<1>3. store \in SUBSET Object
  BY DEF TypeOK
<1>4. /\ n \in Nat
      /\ Len([k \in 1..n |-> Add(ClusterOf[order[k]])]) = n
  BY <1>3, RegisterFacts
<1>5. /\ Len(pending'[r]) = n
      /\ \A k \in 1..n : pending'[r][k] = Add(ClusterOf[order[k]])
  BY <1>2, <1>4 DEF TypeOK
<1>6. \A s \in Runs : s # r => pending'[s] = pending[s]
  BY <1>2 DEF TypeOK
<1>7. pending[r] = <<>> /\ pc[r] = "idle" /\ r \notin registered
  BY <1>1 DEF HandlerOK, Handles, TypeOK
<1>8. registered \subseteq Runs
  BY DEF TypeOK
<1>9. AbsentHasAdd'
  <2> SUFFICES ASSUME NEW c \in Cluster, Indexed(c) PROVE AddQueued(r, c)'
    BY <1>1 DEF AbsentHasAdd, Indexed
  <2>1. PICK o \in store : ClusterOf[o] = c
    BY DEF Indexed
  <2>2. PICK k \in 1..n : order[k] = o
    BY <1>2
  <2> QED
    BY <1>1, <1>5, <1>7, <2>1, <2>2 DEF AddQueued
<1>10. EmptyHasDelete'
  <2> SUFFICES ASSUME NEW c \in Cluster, ~Indexed(c), clusters[c] # NoInst
               PROVE  \E s \in registered : DelQueued(s, c)'
    BY <1>1 DEF EmptyHasDelete, Indexed
  <2>1. PICK s \in registered : DelQueued(s, c)
    BY DEF NoLostNotification, EmptyHasDelete
  <2> QED
    BY <1>6, <1>7, <1>8, <2>1 DEF DelQueued
<1>11. DisengageHasAdd'
  <2> SUFFICES ASSUME NEW s \in Runs, pc[s] = "disengage", Indexed(Name(s))'
               PROVE  AddQueued(s, Name(s))'
    BY <1>1 DEF DisengageHasAdd
  <2>1. pending'[s] = pending[s]
    BY <1>6, <1>7
  <2> QED
    BY <1>1, <2>1 DEF NoLostNotification, DisengageHasAdd, AddQueued, Indexed, Name
<1>12. StaleAddHasDelete'
  <2> SUFFICES ASSUME NEW s \in Runs, NEW k \in 1..Len(pending'[s]),
                      pending'[s][k].type = "add", ~Indexed(pending'[s][k].cluster)
               PROVE  \E m \in k+1..Len(pending'[s]) :
                        pending'[s][m] = Del(pending'[s][k].cluster)
    BY <1>1 DEF StaleAddHasDelete, Indexed
  <2>1. CASE s # r
    BY <1>6, <2>1 DEF NoLostNotification, StaleAddHasDelete
  <2>2. CASE s = r
    <3>1. k \in 1..n /\ order[k] \in store /\ pending'[s][k] = Add(ClusterOf[order[k]])
      BY <1>5, <2>2
    <3> QED
      BY <3>1 DEF Indexed, Add
  <2> QED
    BY <2>1, <2>2
<1> QED
  BY <1>9, <1>10, <1>11, <1>12 DEF NoLostNotification

LEMMA NotificationsKept ==
  ASSUME NoLostNotification, UNCHANGED <<store, registered, pending, clusters, pc, failed>>
  PROVE  NoLostNotification'
<1>1. AbsentHasAdd' /\ EmptyHasDelete'
  BY DEF NoLostNotification, AbsentHasAdd, EmptyHasDelete, AddQueued, DelQueued, Indexed
<1>2. DisengageHasAdd'
  BY DEF NoLostNotification, DisengageHasAdd, AddQueued, Indexed, Name
<1>3. StaleAddHasDelete'
  BY DEF NoLostNotification, StaleAddHasDelete, Indexed
<1> QED
  BY <1>1, <1>2, <1>3 DEF NoLostNotification

LEMMA NotificationsStep ==
  ASSUME TypeOK, HandlerOK, MapsOK, NoLostNotification, [Next]_vars
  PROVE  NoLostNotification'
<1> USE DEF informerVars, mapVars, handlerVars, historyVars
<1>1. ASSUME NEW r \in Runs, RunStep(r) PROVE NoLostNotification'
  <2>1. CASE RegisterHandler(r)
    BY <2>1, NotificationsRegister
  <2>2. CASE ~RegisterHandler(r)
    <3>1. UNCHANGED <<store, registered, pending, clusters, pc, failed>>
      BY <1>1, <2>2 DEF RunStep, RunFailsEarly, StartCache, CacheStart, CacheStop,
                        SyncSucceeds, SyncFails, WaitReturns
    <3> QED
      BY <3>1, NotificationsKept
  <2> QED
    BY <2>1, <2>2
<1>2. CASE UNCHANGED <<store, registered, pending, clusters, pc, failed>>
  BY <1>2, NotificationsKept
<1> QED
  BY <1>1, <1>2, NotificationsStore, NotificationsHandler
     DEF Next, ManagerDrops, Shutdown, vars

LEMMA NotificationsBlank == Blank => NoLostNotification
<1> SUFFICES ASSUME Blank PROVE NoLostNotification
  OBVIOUS
<1>1. \A r \in Runs : Len(pending[r]) = 0
  BY EmptySeq DEF Blank
<1> QED
  BY <1>1 DEF Blank, NoLostNotification, AbsentHasAdd, EmptyHasDelete,
              DisengageHasAdd, StaleAddHasDelete

-----------------------------------------------------------------------------
(* Fourth layer: engagement.                                               *)

LEMMA CtxDoneStays ==
  ASSUME TypeOK, NEW i \in Inst, CtxDone(i), [Next]_vars,
         ctx'[i] \in {ctx[i], NoRun}
  PROVE  CtxDone(i)'
<1>1. (stopped => stopped') /\ groupDone \subseteq groupDone'
  BY DEF Next, vars, StoreAdd, StoreDelete, ManagerDrops, Shutdown, RunStep, HandlerStep,
         RunFailsEarly, RegisterHandler, StartCache, CacheStart, CacheStop, SyncSucceeds,
         SyncFails, WaitReturns, AddFast, AddExists, AddCreateFails, AddInserts,
         InsertCluster, EngageSucceeds, EngageFails, Rollback, DeleteChecks, Disengage,
         runVars
<1> QED
  BY <1>1 DEF CtxDone, RunCtxDone

(* A handler is busy with object i.                                        *)
Busy(r, i) == pc[r] \in {"engage", "rollback"} /\ cl[r] = i

LEMMA EngagedKept ==
  ASSUME TypeOK, RepresentedIsEngaged, [Next]_vars,
         \A c \in Cluster : clusters'[c] # NoInst => clusters'[c] = clusters[c],
         \A i \in Inst : ctx'[i] \in {ctx[i], NoRun},
         \A i \in engaged : i \in engaged' \/ CtxDone(i),
         \A r \in Runs, i \in Inst :
           Busy(r, i) /\ (\E c \in Cluster : clusters'[c] = i) =>
             Busy(r, i)' \/ i \in engaged'
  PROVE  RepresentedIsEngaged'
<1> SUFFICES ASSUME NEW c \in Cluster, NEW i \in Inst, clusters'[c] = i, ~CtxDone(i)'
             PROVE  i \in engaged' \/ \E r \in Runs : Busy(r, i)'
  BY DEF RepresentedIsEngaged, Get, Busy
<1>1. clusters[c] = i /\ i # NoInst
  BY ProviderAssumption
<1>2. ~CtxDone(i)
  BY CtxDoneStays
<1>3. i \in engaged \/ \E r \in Runs : Busy(r, i)
  BY <1>1, <1>2 DEF RepresentedIsEngaged, Get, Busy
<1>4. \A r \in Runs : Busy(r, i) => Busy(r, i)' \/ i \in engaged'
  OBVIOUS
<1> QED
  BY <1>2, <1>3, <1>4

LEMMA EngagedReturn ==
  ASSUME TypeOK, NEW r \in Runs, Return(r), NEW s \in Runs, NEW i \in Inst,
         Busy(s, i), ~(s = r /\ cl[r] = i)
  PROVE  Busy(s, i)'
BY DEF Return, Busy, TypeOK

LEMMA EngagedHandler ==
  ASSUME TypeOK, HandlerOK, MapsOK, RepresentedIsEngaged,
         NEW r \in Runs, HandlerStep(r), [Next]_vars
  PROVE  RepresentedIsEngaged'
<1>0. NoInst \notin Inst
  BY ProviderAssumption
<1>1. CASE AddFast(r) \/ AddExists(r) \/ AddCreateFails(r) \/ DeleteChecks(r)
  <2>1. UNCHANGED <<clusters, ctx, engaged>>
    BY <1>1 DEF AddFast, AddExists, AddCreateFails, DeleteChecks, mapVars
  <2>2. pc[r] \notin {"engage", "rollback"}
    BY <1>1 DEF AddFast, AddExists, AddCreateFails, DeleteChecks
  <2>3. \A s \in Runs : s # r => pc'[s] = pc[s] /\ cl'[s] = cl[s]
    BY <1>1 DEF AddFast, AddExists, AddCreateFails, DeleteChecks, Return, Continue, TypeOK
  <2>4. \A s \in Runs, i \in Inst : Busy(s, i) => Busy(s, i)'
    BY <2>2, <2>3 DEF Busy
  <2> QED
    BY <2>1, <2>4, EngagedKept
<1>2. CASE AddInserts(r)
  <2>1. PICK j \in Inst : InsertCluster(r, j)
    BY <1>2 DEF AddInserts
  <2>2. /\ clusters' = [clusters EXCEPT ![Name(r)] = j]
        /\ ctx' = [ctx EXCEPT ![j] = r]
        /\ engaged' = engaged
        /\ UNCHANGED <<stopped, groupDone>>
        /\ pc' = [pc EXCEPT ![r] = "engage"] /\ cl' = [cl EXCEPT ![r] = j]
        /\ pc[r] = "slow"
    BY <1>2, <2>1 DEF AddInserts, InsertCluster, Continue, runVars
  <2>3. Busy(r, j)'
    BY <2>2 DEF Busy, TypeOK
  <2>4. \A s \in Runs, i \in Inst : Busy(s, i) => Busy(s, i)'
    BY <2>2 DEF Busy, TypeOK
  <2>5. \A i \in Inst : i # j => (CtxDone(i)' <=> CtxDone(i))
    BY <2>2 DEF CtxDone, RunCtxDone, TypeOK
  <2>6. ASSUME NEW c \in Cluster, NEW i \in Inst, clusters'[c] = i, ~CtxDone(i)', i # j
        PROVE  i \in engaged' \/ \E s \in Runs : Busy(s, i)'
    <3>1. clusters[c] = i
      BY <2>2, <2>6 DEF TypeOK
    <3> QED
      BY <2>2, <2>4, <2>5, <2>6, <3>1 DEF RepresentedIsEngaged, Get, Busy
  <2> QED
    BY <2>3, <2>6 DEF RepresentedIsEngaged, Get, Busy
<1>3. CASE EngageSucceeds(r)
  <2>1. UNCHANGED <<clusters, ctx>> /\ engaged' = engaged \cup {cl[r]} /\ Return(r)
    BY <1>3 DEF EngageSucceeds, mapVars
  <2>2. \A s \in Runs, i \in Inst : Busy(s, i) => Busy(s, i)' \/ i \in engaged'
    BY <2>1, EngagedReturn
  <2> QED
    BY <2>1, <2>2, EngagedKept
<1>4. CASE EngageFails(r)
  <2>1. UNCHANGED <<clusters, ctx, engaged>>
    BY <1>4 DEF EngageFails, mapVars
  <2>2. \A s \in Runs, i \in Inst : Busy(s, i) => Busy(s, i)'
    BY <1>4 DEF EngageFails, Continue, Busy, TypeOK
  <2> QED
    BY <2>1, <2>2, EngagedKept
<1>5. CASE Rollback(r)
  <2>1. Return(r) /\ engaged' = engaged
    BY <1>5 DEF Rollback
  <2>2. \A c \in Cluster : clusters'[c] # cl[r]
    <3>1. cl[r] \in Inst /\ Name(r) \in Cluster
      BY <1>5, RollbackFacts
    <3>2. CASE Removes(Name(r)) /\ clusters[Name(r)] = cl[r]
      <4>1. \A c \in Cluster : c # Name(r) => clusters[c] # cl[r]
        BY <1>0, <3>1, <3>2 DEF MapsOK, ContextTracked
      <4> QED
        BY <1>0, <3>1, <3>2, <4>1 DEF Removes, TypeOK
    <3>3. CASE clusters' = clusters /\ \A c \in Cluster : clusters[c] # cl[r]
      BY <3>3
    <3> QED
      BY <1>5, <3>2, <3>3, RollbackFacts
  <2>3. \A c \in Cluster : clusters'[c] # NoInst => clusters'[c] = clusters[c]
    BY <1>5, RollbackFacts DEF Removes, TypeOK
  <2>4. \A i \in Inst : ctx'[i] \in {ctx[i], NoRun}
    BY <1>5, RollbackFacts DEF Removes, TypeOK
  <2>5. \A s \in Runs, i \in Inst :
          Busy(s, i) /\ (\E c \in Cluster : clusters'[c] = i) => Busy(s, i)'
    BY <2>1, <2>2, EngagedReturn
  <2> QED
    BY <2>1, <2>3, <2>4, <2>5, EngagedKept
<1>6. CASE Disengage(r)
  <2>1. Return(r) /\ engaged' = engaged /\ cl[r] = NoInst
    BY <1>6 DEF Disengage, HandlerOK
  <2>2. \A c \in Cluster : clusters'[c] # NoInst => clusters'[c] = clusters[c]
    BY <1>6, DisengageFacts DEF Removes, TypeOK
  <2>3. \A i \in Inst : ctx'[i] \in {ctx[i], NoRun}
    BY <1>6, DisengageFacts DEF Removes, TypeOK
  <2>4. \A s \in Runs, i \in Inst : Busy(s, i) => Busy(s, i)'
    BY <1>0, <2>1, EngagedReturn
  <2> QED
    BY <2>1, <2>2, <2>3, <2>4, EngagedKept
<1> QED
  BY <1>1, <1>2, <1>3, <1>4, <1>5, <1>6 DEF HandlerStep

LEMMA EngagedStep ==
  ASSUME TypeOK, HandlerOK, MapsOK, RepresentedIsEngaged, [Next]_vars
  PROVE  RepresentedIsEngaged'
<1> USE DEF informerVars, mapVars, handlerVars
<1>1. ASSUME UNCHANGED <<clusters, ctx, pc, cl>>,
             \A i \in engaged : i \in engaged' \/ CtxDone(i)
      PROVE  RepresentedIsEngaged'
  BY <1>1, EngagedKept DEF Busy
<1>2. ASSUME NEW r \in Runs, HandlerStep(r) PROVE RepresentedIsEngaged'
  BY <1>2, EngagedHandler
<1>3. ASSUME NEW r \in Runs, RunStep(r) PROVE RepresentedIsEngaged'
  BY <1>1, <1>3 DEF RunStep, RunFailsEarly, RegisterHandler, StartCache, CacheStart,
                    CacheStop, SyncSucceeds, SyncFails, WaitReturns
<1>4. ASSUME NEW i \in Inst, ManagerDrops(i) PROVE RepresentedIsEngaged'
  <2>1. \A j \in engaged : j \in engaged' \/ CtxDone(j)
    BY <1>4 DEF ManagerDrops
  <2> QED
    BY <1>1, <1>4, <2>1 DEF ManagerDrops
<1>5. ASSUME NEW o \in Object, StoreAdd(o) \/ StoreDelete(o) PROVE RepresentedIsEngaged'
  BY <1>1, <1>5 DEF StoreAdd, StoreDelete
<1>6. CASE Shutdown
  BY <1>1, <1>6 DEF Shutdown
<1>7. CASE UNCHANGED vars
  BY <1>1, <1>7 DEF vars
<1> QED
  BY <1>2, <1>3, <1>4, <1>5, <1>6, <1>7 DEF Next

-----------------------------------------------------------------------------
(* Fifth layer: the groups of the calls of Run.                            *)

LEMMA GroupsStep ==
  ASSUME TypeOK, GroupsOK, [Next]_vars
  PROVE  GroupsOK'
<1>1. ASSUME UNCHANGED <<starter, groupDone>>, stopped => stopped',
             \A r \in Runs : run'[r] \in {"idle", "registered"} => run[r] \in {"idle", "registered"}
      PROVE  GroupsOK'
  BY <1>1 DEF GroupsOK
<1>2. ASSUME NEW r \in Runs, RunStep(r)
      PROVE  GroupsOK'
  <2>1. CASE StartCache(r)
    BY <2>1 DEF StartCache, Becomes, GroupsOK, TypeOK
  <2>2. CASE CacheStart(r)
    BY <2>2 DEF CacheStart, GroupsOK, TypeOK
  <2>3. CASE CacheStop(r)
    BY <2>3 DEF CacheStop, RunCtxDone, GroupsOK, TypeOK
  <2>4. CASE WaitReturns(r)
    BY <2>4 DEF WaitReturns, Becomes, GroupsOK, TypeOK
  <2>5. CASE RunFailsEarly(r) \/ RegisterHandler(r) \/ SyncSucceeds(r) \/ SyncFails(r)
    <3>1. /\ UNCHANGED <<starter, groupDone, stopped>>
          /\ run[r] \in {"idle", "syncing"}
          /\ \E w \in {"registered", "waiting", "returned"} :
               run' = [run EXCEPT ![r] = w] /\ (run[r] = "syncing" => w # "registered")
      BY <2>5 DEF RunFailsEarly, RegisterHandler, SyncSucceeds, SyncFails, Becomes
    <3> QED
      BY <1>1, <3>1 DEF TypeOK
  <2> QED
    BY <1>2, <2>1, <2>2, <2>3, <2>4, <2>5 DEF RunStep
<1>3. ASSUME NEW r \in Runs, HandlerStep(r)
      PROVE  GroupsOK'
  BY <1>1, <1>3 DEF HandlerStep, AddFast, AddExists, AddCreateFails, AddInserts, InsertCluster,
                    EngageSucceeds, EngageFails, Rollback, DeleteChecks, Disengage, runVars
<1> QED
  BY <1>1, <1>2, <1>3 DEF Next, StoreAdd, StoreDelete, ManagerDrops, Shutdown, vars, runVars

-----------------------------------------------------------------------------
(* The invariant and what follows from it.                                 *)

LEMMA IInvParts == IInv <=> /\ TypeOK /\ HandlerOK /\ MapsOK
                            /\ NoLostNotification /\ RepresentedIsEngaged /\ GroupsOK
BY DEF IInv, MapsOK

LEMMA IInvBlank == Blank => IInv
<1>1. Blank => RepresentedIsEngaged /\ GroupsOK
  BY ProviderAssumption DEF Blank, RepresentedIsEngaged, Get, GroupsOK
<1> QED
  BY <1>1, TypesBlank, MapsBlank, NotificationsBlank, IInvParts

LEMMA IInvStep == IInv /\ [Next]_vars => IInv'
<1>1. IInv' <=> (TypeOK /\ HandlerOK /\ MapsOK
                 /\ NoLostNotification /\ RepresentedIsEngaged /\ GroupsOK)'
  BY IInvParts, PTL
<1> QED
  BY <1>1, IInvParts, TypesStep, MapsStep, NotificationsStep, EngagedStep, GroupsStep

(* Everything the safety properties rest on holds in every state, for any  *)
(* number of clusters, objects, calls of Run and failures                  *)
(* (provider.go:104-213).                                                  *)
THEOREM InductiveInvariant == Spec => []IInv
BY InitIsBlank, IInvBlank, IInvStep, PTL DEF Spec

(* Only shutdown, or a second Run whose Start failed, lists a cluster with *)
(* a context that is done (provider.go:105, 141, 204-212).                 *)
THEOREM ListedAreLive == Spec => []ListedIsLive
<1>1. IInv => ListedIsLive
  <2> SUFFICES ASSUME IInv, NEW c \in Cluster, Get(c) # NoInst, CtxDone(Get(c)), ~stopped
               PROVE  starter[ctx[Get(c)]] = "failed"
    BY DEF ListedIsLive
  <2>1. Get(c) \in Inst /\ ctx[Get(c)] # NoRun
    BY DEF IInv, TypeOK, ContextTracked, Get
  <2>2. ctx[Get(c)] \in Runs /\ ctx[Get(c)] \in groupDone
    BY <2>1 DEF IInv, TypeOK, CtxDone, RunCtxDone
  <2> QED
    BY <2>2 DEF IInv, GroupsOK
<1> QED
  BY <1>1, InductiveInvariant, PTL

(* No notification is lost to the time that passes between the store's     *)
(* change, the look at the index and the critical sections                 *)
(* (provider.go:126-139, 182-198).                                         *)
THEOREM NothingLost == Spec => []NoLostNotification
<1>1. IInv => NoLostNotification
  BY DEF IInv
<1> QED
  BY <1>1, InductiveInvariant, PTL

(* A cluster that Get returns with a live context has been, or is being,   *)
(* handed to the manager (provider.go:149-163).                            *)
THEOREM RepresentedAreEngaged == Spec => []RepresentedIsEngaged
<1>1. IInv => RepresentedIsEngaged
  BY DEF IInv
<1> QED
  BY <1>1, InductiveInvariant, PTL

(* Listeners at rest have left exactly the clusters with objects in the    *)
(* directory, those given up on excepted (provider.go:116-200).            *)
THEOREM ConvergesToIndex == Spec => []Converged
<1>1. IInv => Converged
  <2> SUFFICES ASSUME IInv, Quiet, NEW c \in Cluster
               PROVE  Get(c) # NoInst <=> Indexed(c) /\ c \notin failed
    BY DEF Converged
  <2>1. \A r \in registered : Len(pending[r]) = 0
    BY EmptySeq DEF Quiet
  <2>2. \A r \in registered : ~AddQueued(r, c) /\ ~DelQueued(r, c)
    BY <2>1 DEF AddQueued, DelQueued
  <2>3. ASSUME Get(c) # NoInst PROVE Indexed(c) /\ c \notin failed
    BY <2>2, <2>3 DEF IInv, Get, NoLostNotification, EmptyHasDelete, FailedAbsent
  <2>4. ASSUME Indexed(c), c \notin failed PROVE Get(c) # NoInst
    BY <2>2, <2>4 DEF IInv, Get, NoLostNotification, AbsentHasAdd, Quiet
  <2> QED
    BY <2>3, <2>4
<1> QED
  BY <1>1, InductiveInvariant, PTL

=============================================================================
