------------------------------ MODULE Provider ------------------------------
(***************************************************************************)
(* The virtual-workspace cluster provider, src/virtualworkspace/           *)
(* provider.go: its two maps, the event handler each call of Run registers *)
(* with the wildcard informer, and Run itself with its errgroup.           *)
(*                                                                         *)
(* Three parties act: the shared informer of client-go, which changes its  *)
(* store and queues a notification for every listener; the listener        *)
(* goroutines, which run AddFunc and DeleteFunc one notification at a time *)
(* and read the store only then; and the goroutines of Run.  A critical    *)
(* section under p.lock is one action; everything between two critical     *)
(* sections may interleave.                                                *)
(***************************************************************************)
EXTENDS Naturals, Sequences, FiniteSets

CONSTANTS
  Cluster,     \* logical cluster names
  Object,      \* keys of the watched objects (APIBindings)
  ClusterOf,   \* the kcp.io/cluster annotation of every object
  Runs,        \* calls of Run: each registers one event handler
  NoRun,       \* "no call of Run"
  Inst,        \* addresses of scopedCluster values
  NoInst,      \* "no entry" in the maps, nil in the handlers
  MaxPending,  \* bound: notifications queued for one listener
  MaxFailures  \* bound: failed calls and timeouts in one behaviour

ASSUME ProviderAssumption ==
  /\ IsFiniteSet(Object)
  /\ ClusterOf \in [Object -> Cluster]
  /\ NoRun \notin Runs
  /\ NoInst \notin Inst
  /\ MaxPending \in Nat
  /\ MaxFailures \in Nat

VARIABLES
  store,       \* objects in the informer's indexer
  registered,  \* runs whose handler has been added to the informer
  pending,     \* per run: notifications, the head being the one in hand
  clusters,    \* p.clusters
  cancelFns,   \* p.cancelFns, each function named by the object it cancels
  ctx,         \* run a cluster's live context derives from; NoRun: cancelled
  pc,          \* per run: where the handler is in AddFunc or DeleteFunc
  cl,          \* per run: the handler's local variable cl
  engaged,     \* cluster objects the manager has started operations on
  run,         \* per run: where Run is
  starter,     \* per run: the goroutine that runs p.cache.Start
  groupDone,   \* runs whose errgroup context is cancelled
  stopped,     \* the context given to Run is cancelled
  failed,      \* history: clusters given up on by the last attempt
  failures     \* history: number of failures so far

informerVars == <<store, registered, pending>>
mapVars == <<clusters, cancelFns, ctx>>
handlerVars == <<pc, cl>>
runVars == <<run, starter, groupDone, stopped>>
historyVars == <<failed, failures>>
vars == <<informerVars, mapVars, handlerVars, engaged, runVars, historyVars>>

Event == [type : {"add", "del"}, cluster : Cluster]
Add(c) == [type |-> "add", cluster |-> c]
Del(c) == [type |-> "del", cluster |-> c]

TypeOK ==
  /\ store \in SUBSET Object
  /\ registered \in SUBSET Runs
  /\ pending \in [Runs -> Seq(Event)]
  /\ clusters \in [Cluster -> Inst \cup {NoInst}]
  /\ cancelFns \in [Cluster -> Inst \cup {NoInst}]
  /\ ctx \in [Inst -> Runs \cup {NoRun}]
  /\ pc \in [Runs -> {"idle", "slow", "engage", "rollback", "disengage"}]
  /\ cl \in [Runs -> Inst \cup {NoInst}]
  /\ engaged \in SUBSET Inst
  /\ run \in [Runs -> {"idle", "registered", "syncing", "waiting", "returned"}]
  /\ starter \in [Runs -> {"none", "spawned", "running", "finished", "failed"}]
  /\ groupDone \in SUBSET Runs
  /\ stopped \in BOOLEAN
  /\ failed \in SUBSET Cluster
  /\ failures \in Nat

Init ==
  /\ store = {}
  /\ registered = {}
  /\ pending = [r \in Runs |-> <<>>]
  /\ clusters = [c \in Cluster |-> NoInst]
  /\ cancelFns = [c \in Cluster |-> NoInst]
  /\ ctx = [i \in Inst |-> NoRun]
  /\ pc = [r \in Runs |-> "idle"]
  /\ cl = [r \in Runs |-> NoInst]
  /\ engaged = {}
  /\ run = [r \in Runs |-> "idle"]
  /\ starter = [r \in Runs |-> "none"]
  /\ groupDone = {}
  /\ stopped = FALSE
  /\ failed = {}
  /\ failures = 0

-----------------------------------------------------------------------------
(* The informer (client-go) and the manager (multicluster-runtime).        *)

(* Start of the wildcard cache serves one caller; the others get an error. *)
InformerRunning == \E r \in Runs : starter[r] = "running"
AlreadyStarted == \E r \in Runs : starter[r] \in {"running", "finished"}

RunCtxDone(r) == stopped \/ r \in groupDone

(* The index keys under a cluster name: is any object of c in the store?   *)
Indexed(c) == \E o \in store : ClusterOf[o] = c

(* The store changed: every registered listener is told, in order.         *)
Notify(e) ==
  /\ \A r \in registered : Len(pending[r]) < MaxPending
  /\ pending' = [r \in Runs |-> IF r \in registered
                                THEN Append(pending[r], e) ELSE pending[r]]

StoreAdd(o) ==
  /\ InformerRunning
  /\ o \notin store
  /\ store' = store \cup {o}
  /\ Notify(Add(ClusterOf[o]))
  /\ UNCHANGED <<registered, mapVars, handlerVars, engaged, runVars, historyVars>>

(* A watch event, or a relist that no longer has the object (a tombstone). *)
StoreDelete(o) ==
  /\ InformerRunning
  /\ o \in store
  /\ store' = store \ {o}
  /\ Notify(Del(ClusterOf[o]))
  /\ UNCHANGED <<registered, mapVars, handlerVars, engaged, runVars, historyVars>>

(* The context of a cluster ends with its cancel function or with the      *)
(* errgroup context of the run it was derived from.                        *)
CtxDone(i) == ctx[i] = NoRun \/ RunCtxDone(ctx[i])

(* The manager ends its operations on a cluster whose context is done.     *)
ManagerDrops(i) ==
  /\ i \in engaged
  /\ CtxDone(i)
  /\ engaged' = engaged \ {i}
  /\ UNCHANGED <<informerVars, mapVars, handlerVars, runVars, historyVars>>

-----------------------------------------------------------------------------
(* AddFunc and DeleteFunc.                                                 *)

Handles(r, type) == pending[r] # <<>> /\ Head(pending[r]).type = type
Name(r) == Head(pending[r]).cluster

(* The handler returns: the listener takes the next notification.          *)
Return(r) ==
  /\ pending' = [pending EXCEPT ![r] = Tail(@)]
  /\ pc' = [pc EXCEPT ![r] = "idle"]
  /\ cl' = [cl EXCEPT ![r] = NoInst]
  /\ UNCHANGED <<store, registered>>

Continue(r, where, local) ==
  /\ pc' = [pc EXCEPT ![r] = where]
  /\ cl' = [cl EXCEPT ![r] = local]
  /\ UNCHANGED informerVars

Fail == failures < MaxFailures /\ failures' = failures + 1

(* A new object has an address nothing refers to; a context that is not    *)
(* cancelled is referred to by its parent context.                         *)
Fresh(i) ==
  /\ ctx[i] = NoRun
  /\ \A c \in Cluster : clusters[c] # i /\ cancelFns[c] # i
  /\ \A r \in Runs : cl[r] # i
  /\ i \notin engaged

(* AddFunc, fast path: return if the cluster is there, else want the lock. *)
AddFast(r) ==
  /\ pc[r] = "idle"
  /\ Handles(r, "add")
  /\ IF clusters[Name(r)] # NoInst THEN Return(r) ELSE Continue(r, "slow", NoInst)
  /\ UNCHANGED <<mapVars, engaged, runVars, historyVars>>

(* Insert a new cluster with a context derived from the run's and go on to *)
(* mgr.Engage.                                                             *)
InsertCluster(r, i) ==
  /\ Fresh(i)
  /\ clusters' = [clusters EXCEPT ![Name(r)] = i]
  /\ cancelFns' = [cancelFns EXCEPT ![Name(r)] = i]
  /\ ctx' = [ctx EXCEPT ![i] = r]
  /\ failed' = failed \ {Name(r)}
  /\ Continue(r, "engage", i)
  /\ UNCHANGED <<failures, engaged, runVars>>

(* AddFunc, slow path under the lock: the cluster appeared meanwhile, or   *)
(* newScopedCluster fails, or the new cluster is stored in both maps.      *)
AddExists(r) ==
  /\ pc[r] = "slow"
  /\ clusters[Name(r)] # NoInst
  /\ Return(r)
  /\ UNCHANGED <<mapVars, engaged, runVars, historyVars>>

AddCreateFails(r) ==
  /\ pc[r] = "slow"
  /\ clusters[Name(r)] = NoInst
  /\ Fail
  /\ failed' = failed \cup {Name(r)}
  /\ Return(r)
  /\ UNCHANGED <<mapVars, engaged, runVars>>

(* Mutant of AddInserts: the map is not looked at again under the lock.    *)
AddInsertsUnchecked(r) ==
  /\ pc[r] = "slow"
  /\ \E i \in Inst : InsertCluster(r, i)

AddInserts(r) ==
  /\ pc[r] = "slow"
  /\ clusters[Name(r)] = NoInst
  /\ \E i \in Inst : InsertCluster(r, i)

(* mgr.Engage returns nil.                                                 *)
EngageSucceeds(r) ==
  /\ pc[r] = "engage"
  /\ engaged' = engaged \cup {cl[r]}
  /\ Return(r)
  /\ UNCHANGED <<mapVars, runVars, historyVars>>

(* Mutant of EngageFails: the error is only logged.                        *)
EngageFailsIgnored(r) ==
  /\ pc[r] = "engage"
  /\ Fail
  /\ Return(r)
  /\ UNCHANGED <<mapVars, engaged, runVars, failed>>

(* mgr.Engage returns an error: the handler will want the lock again.      *)
EngageFails(r) ==
  /\ pc[r] = "engage"
  /\ Fail
  /\ Continue(r, "rollback", cl[r])
  /\ UNCHANGED <<mapVars, engaged, runVars, failed>>

(* Mutants of Rollback: the name is removed whoever has it now; the cancel *)
(* function is forgotten in its map.                                       *)
RollbackUnchecked(r) ==
  /\ pc[r] = "rollback"
  /\ ctx' = [ctx EXCEPT ![cl[r]] = NoRun]
  /\ clusters' = [clusters EXCEPT ![Name(r)] = NoInst]
  /\ cancelFns' = [cancelFns EXCEPT ![Name(r)] = NoInst]
  /\ failed' = failed \cup {Name(r)}
  /\ Return(r)
  /\ UNCHANGED <<engaged, runVars, failures>>

RollbackClustersOnly(r) ==
  /\ pc[r] = "rollback"
  /\ ctx' = [ctx EXCEPT ![cl[r]] = NoRun]
  /\ clusters' = IF clusters[Name(r)] = cl[r]
                 THEN [clusters EXCEPT ![Name(r)] = NoInst] ELSE clusters
  /\ failed' = failed \cup {Name(r)}
  /\ Return(r)
  /\ UNCHANGED <<cancelFns, engaged, runVars, failures>>

(* The error branch under the lock: cancel, and remove the entries unless  *)
(* the name has been taken over by another object.                         *)
Rollback(r) ==
  /\ pc[r] = "rollback"
  /\ ctx' = [ctx EXCEPT ![cl[r]] = NoRun]
  /\ LET own == clusters[Name(r)] = cl[r] IN
     /\ clusters' = IF own THEN [clusters EXCEPT ![Name(r)] = NoInst] ELSE clusters
     /\ cancelFns' = IF own THEN [cancelFns EXCEPT ![Name(r)] = NoInst] ELSE cancelFns
     /\ failed' = IF own THEN failed \cup {Name(r)} ELSE failed
  /\ Return(r)
  /\ UNCHANGED <<engaged, runVars, failures>>

(* Mutants of DeleteChecks: one object left counts as none; a tombstone is *)
(* not understood.                                                         *)
DeleteChecksLast(r) ==
  /\ pc[r] = "idle"
  /\ Handles(r, "del")
  /\ IF Cardinality({o \in store : ClusterOf[o] = Name(r)}) > 1
     THEN Return(r) ELSE Continue(r, "disengage", NoInst)
  /\ UNCHANGED <<mapVars, engaged, runVars, historyVars>>

DeleteChecksNoTombstone(r) ==
  /\ pc[r] = "idle"
  /\ Handles(r, "del")
  /\ Return(r) \/ (~Indexed(Name(r)) /\ Continue(r, "disengage", NoInst))
  /\ UNCHANGED <<mapVars, engaged, runVars, historyVars>>

(* DeleteFunc reads the index without the lock: only if no object of the   *)
(* cluster is left does it go on to disengage.                             *)
DeleteChecks(r) ==
  /\ pc[r] = "idle"
  /\ Handles(r, "del")
  /\ IF Indexed(Name(r)) THEN Return(r) ELSE Continue(r, "disengage", NoInst)
  /\ UNCHANGED <<mapVars, engaged, runVars, historyVars>>

(* Mutant of Disengage: the cluster itself stays in its map.               *)
DisengageFnsOnly(r) ==
  /\ pc[r] = "disengage"
  /\ IF cancelFns[Name(r)] # NoInst
     THEN /\ ctx' = [ctx EXCEPT ![cancelFns[Name(r)]] = NoRun]
          /\ cancelFns' = [cancelFns EXCEPT ![Name(r)] = NoInst]
          /\ UNCHANGED clusters
     ELSE UNCHANGED mapVars
  /\ Return(r)
  /\ UNCHANGED <<engaged, runVars, historyVars>>

(* DeleteFunc under the lock: cancel the context and remove both entries.  *)
Disengage(r) ==
  /\ pc[r] = "disengage"
  /\ IF cancelFns[Name(r)] # NoInst
     THEN /\ ctx' = [ctx EXCEPT ![cancelFns[Name(r)]] = NoRun]
          /\ cancelFns' = [cancelFns EXCEPT ![Name(r)] = NoInst]
          /\ clusters' = [clusters EXCEPT ![Name(r)] = NoInst]
     ELSE UNCHANGED mapVars
  /\ Return(r)
  /\ UNCHANGED <<engaged, runVars, historyVars>>

(* Provider.Get under the read lock.                                       *)
Get(name) == clusters[name]

HandlerStep(r) ==
  \/ AddFast(r) \/ AddExists(r) \/ AddCreateFails(r) \/ AddInserts(r)
  \/ EngageSucceeds(r) \/ EngageFails(r) \/ Rollback(r)
  \/ DeleteChecks(r) \/ Disengage(r)

-----------------------------------------------------------------------------
(* Run: get the informer, add the handler, start the cache in the errgroup, *)
(* wait for it to sync, wait for the group.                                 *)

InformerStopped == \E r \in Runs : starter[r] = "finished"

Becomes(r, where) == run' = [run EXCEPT ![r] = where]

(* GetInformer, getSharedInformer or AddEventHandler fails.                *)
RunFailsEarly(r) ==
  /\ run[r] = "idle"
  /\ \/ Fail
     \/ InformerStopped /\ UNCHANGED failures
  /\ Becomes(r, "returned")
  /\ UNCHANGED <<informerVars, mapVars, handlerVars, engaged, starter, groupDone, stopped, failed>>

(* AddEventHandler: the new listener is first told of every object that is *)
(* in the store already, in no particular order.                           *)
RegisterHandler(r) ==
  /\ run[r] = "idle"
  /\ ~InformerStopped
  /\ Cardinality(store) <= MaxPending
  /\ \E order \in [1..Cardinality(store) -> store] :
       /\ \A o \in store : \E k \in 1..Cardinality(store) : order[k] = o
       /\ pending' = [pending EXCEPT ![r] =
            [k \in 1..Cardinality(store) |-> Add(ClusterOf[order[k]])]]
  /\ registered' = registered \cup {r}
  /\ Becomes(r, "registered")
  /\ UNCHANGED <<store, mapVars, handlerVars, engaged, starter, groupDone, stopped, historyVars>>

StartCache(r) ==
  /\ run[r] = "registered"
  /\ Becomes(r, "syncing")
  /\ starter' = [starter EXCEPT ![r] = "spawned"]
  /\ UNCHANGED <<informerVars, mapVars, handlerVars, engaged, groupDone, stopped, historyVars>>

(* p.cache.Start, in its goroutine: a second Start returns an error, which *)
(* cancels the context of that run's errgroup.                             *)
CacheStart(r) ==
  /\ starter[r] = "spawned"
  /\ IF AlreadyStarted
     THEN /\ starter' = [starter EXCEPT ![r] = "failed"]
          /\ groupDone' = groupDone \cup {r}
     ELSE /\ starter' = [starter EXCEPT ![r] = "running"]
          /\ UNCHANGED groupDone
  /\ UNCHANGED <<informerVars, mapVars, handlerVars, engaged, run, stopped, historyVars>>

(* Mutant of CacheStop: the cache is started with a context of its own.    *)
CacheStopDetached(r) ==
  /\ starter[r] = "running"
  /\ r \in groupDone
  /\ starter' = [starter EXCEPT ![r] = "finished"]
  /\ UNCHANGED <<informerVars, mapVars, handlerVars, engaged, run, groupDone, stopped, historyVars>>

CacheStop(r) ==
  /\ starter[r] = "running"
  /\ RunCtxDone(r)
  /\ starter' = [starter EXCEPT ![r] = "finished"]
  /\ UNCHANGED <<informerVars, mapVars, handlerVars, engaged, run, groupDone, stopped, historyVars>>

SyncSucceeds(r) ==
  /\ run[r] = "syncing"
  /\ AlreadyStarted
  /\ Becomes(r, "waiting")
  /\ UNCHANGED <<informerVars, mapVars, handlerVars, engaged, starter, groupDone, stopped, historyVars>>

(* Mutant of SyncFails: Run cancels its errgroup's context on the way out. *)
SyncFailsCancels(r) ==
  /\ run[r] = "syncing"
  /\ \/ Fail
     \/ RunCtxDone(r) /\ UNCHANGED failures
  /\ Becomes(r, "returned")
  /\ groupDone' = groupDone \cup {r}
  /\ UNCHANGED <<informerVars, mapVars, handlerVars, engaged, starter, stopped, failed>>

(* The wait ends unsynced, by the timeout of 30 seconds or with the        *)
(* context: Run returns without waiting for, or cancelling, its errgroup.  *)
SyncFails(r) ==
  /\ run[r] = "syncing"
  /\ \/ Fail
     \/ RunCtxDone(r) /\ UNCHANGED failures
  /\ Becomes(r, "returned")
  /\ UNCHANGED <<informerVars, mapVars, handlerVars, engaged, starter, groupDone, stopped, failed>>

(* g.Wait returns when the only goroutine of the group has, and cancels    *)
(* the context of the group.                                               *)
WaitReturns(r) ==
  /\ run[r] = "waiting"
  /\ starter[r] \in {"failed", "finished"}
  /\ Becomes(r, "returned")
  /\ groupDone' = groupDone \cup {r}
  /\ UNCHANGED <<informerVars, mapVars, handlerVars, engaged, starter, stopped, historyVars>>

(* The caller cancels the context that it gave to every call of Run.       *)
Shutdown ==
  /\ ~stopped
  /\ stopped' = TRUE
  /\ UNCHANGED <<informerVars, mapVars, handlerVars, engaged, run, starter, groupDone, historyVars>>

RunStep(r) ==
  \/ RunFailsEarly(r) \/ RegisterHandler(r) \/ StartCache(r)
  \/ CacheStart(r) \/ CacheStop(r)
  \/ SyncSucceeds(r) \/ SyncFails(r) \/ WaitReturns(r)

(* A listener takes notifications once the informer has been started.      *)
Next ==
  \/ \E o \in Object : StoreAdd(o) \/ StoreDelete(o)
  \/ \E i \in Inst : ManagerDrops(i)
  \/ \E r \in Runs : AlreadyStarted /\ HandlerStep(r)
  \/ \E r \in Runs : RunStep(r)
  \/ Shutdown

Spec == Init /\ [][Next]_vars

(* Goroutines that can run do run; calls to the manager return; a context  *)
(* that is done is noticed.  The environment (objects, Shutdown, calls of  *)
(* Run) owes nothing, and a stopped informer need not deliver.             *)
Fairness ==
  /\ \A r \in Runs :
       /\ WF_vars(InformerRunning /\ HandlerStep(r))
       /\ WF_vars(StartCache(r))
       /\ WF_vars(CacheStart(r) \/ CacheStop(r))
       /\ WF_vars(SyncSucceeds(r) \/ SyncFails(r))
       /\ WF_vars(WaitReturns(r))
  /\ \A i \in Inst : WF_vars(ManagerDrops(i))

FairSpec == Spec /\ Fairness

-----------------------------------------------------------------------------
(* Properties.                                                             *)

(* The two maps agree, no object is stored under two names, and the        *)
(* contexts not cancelled by the provider are exactly those whose cancel   *)
(* function is stored: no goroutine leaks with a lost cancel function, and *)
(* no live cluster is missing from the directory (provider.go:149-162,     *)
(* 189-197, under any interleaving of handlers).                           *)
ContextTracked ==
  /\ clusters = cancelFns
  /\ \A i \in Inst : ctx[i] # NoRun <=> \E c \in Cluster : cancelFns[c] = i
  /\ \A c, d \in Cluster : clusters[c] = clusters[d] /\ clusters[c] # NoInst => c = d

(* What Get returns with a live context is engaged with the manager, or    *)
(* some handler is about to engage it or to take it back out               *)
(* (provider.go:149-163: the entry is visible before Engage is called).    *)
RepresentedIsEngaged ==
  \A c \in Cluster, i \in Inst :
    Get(c) = i /\ ~CtxDone(i) =>
      \/ i \in engaged
      \/ \E r \in Runs : pc[r] \in {"engage", "rollback"} /\ cl[r] = i

(* A cluster is listed with a context that is done only after shutdown, or *)
(* by the handler of a Run whose Start failed because another Run came     *)
(* first: a Run that gives up on the sync leaves its cache, and with it    *)
(* its clusters, alive (provider.go:105, 141, 204-212).                    *)
ListedIsLive ==
  \A c \in Cluster :
    Get(c) # NoInst /\ CtxDone(Get(c)) => stopped \/ starter[ctx[Get(c)]] = "failed"

(* Notifications the handler of r still has to act on.                     *)
AddQueued(r, c) ==
  \E k \in 1..Len(pending[r]) :
    /\ pending[r][k] = Add(c)
    /\ k = 1 => pc[r] \in {"idle", "slow"}

DelQueued(r, c) == \E k \in 1..Len(pending[r]) : pending[r][k] = Del(c)

(* A cluster with objects that is not represented has an Add on the way,   *)
(* or was given up on.                                                     *)
AbsentHasAdd ==
  \A c \in Cluster :
    registered # {} /\ Indexed(c) /\ clusters[c] = NoInst /\ c \notin failed
      => \E r \in registered : AddQueued(r, c)

(* A cluster without objects that is represented has a Delete on the way.  *)
EmptyHasDelete ==
  \A c \in Cluster :
    ~Indexed(c) /\ clusters[c] # NoInst => \E r \in registered : DelQueued(r, c)

(* A handler about to disengage a cluster whose objects have come back has *)
(* an Add for it behind it.                                                *)
DisengageHasAdd ==
  \A r \in Runs : pc[r] = "disengage" /\ Indexed(Name(r)) => AddQueued(r, Name(r))

(* An Add of a cluster that is empty again has its Delete behind it.       *)
StaleAddHasDelete ==
  \A r \in Runs : \A k \in 1..Len(pending[r]) :
    pending[r][k].type = "add" /\ ~Indexed(pending[r][k].cluster) =>
      \E m \in k+1..Len(pending[r]) : pending[r][m] = Del(pending[r][k].cluster)

(* The provider compares the store of NOW with notifications of THEN, and  *)
(* still loses nothing (provider.go:126-139, 182-198: the index and the    *)
(* maps are read at different times).                                      *)
NoLostNotification ==
  AbsentHasAdd /\ EmptyHasDelete /\ DisengageHasAdd /\ StaleAddHasDelete

(* When the listeners have nothing left to do, the directory is exactly    *)
(* the set of clusters with objects, those given up on excepted            *)
(* (provider.go:46-47, "represents each logical cluster").                 *)
Quiet == registered # {} /\ \A r \in registered : pending[r] = <<>>

Converged ==
  Quiet => \A c \in Cluster :
             Get(c) # NoInst <=> Indexed(c) /\ c \notin failed

(* The provider implements the directory that multicluster-runtime is      *)
(* promised: entries come and go with their contexts, and every object is  *)
(* offered to the manager once (provider.go:141-163, 189-197).             *)
Directory == INSTANCE ClusterDirectory
               WITH dir <- clusters, active <- {i \in Inst : ctx[i] # NoRun},
                    offered <- {cl[r] : r \in Runs} \ {NoInst},
                    over <- stopped \/ groupDone # {}

DirectorySpec == Directory!Spec

(* A cluster that keeps an object while Run is not stopped, and is not     *)
(* given up on, ends up represented by an engaged object, for good; a      *)
(* cluster that stays empty ends up forgotten (provider.go:116-200).       *)
Serving(c) == Get(c) # NoInst /\ Get(c) \in engaged

EventuallyServed ==
  \A c \in Cluster :
    <>[](/\ registered # {} /\ Indexed(c) /\ c \notin failed
         /\ InformerRunning /\ ~stopped) => <>[]Serving(c)

EventuallyForgotten ==
  \A c \in Cluster :
    <>[](~Indexed(c) /\ InformerRunning) => <>[](Get(c) = NoInst)

(* Once the context given to Run is cancelled every call of Run returns    *)
(* and the manager's operations end (provider.go:204-212).                 *)
ShutdownReturns ==
  /\ \A r \in Runs : stopped /\ run[r] # "idle" ~> run[r] = "returned"
  /\ stopped /\ engaged # {} ~> engaged = {}

(* The package's own words: the provider "represents each logical cluster" *)
(* (provider.go:46-47); one error from newScopedCluster or mgr.Engage      *)
(* (provider.go:142-163) breaks it, as nothing retries.                    *)
RepresentsEachCluster ==
  \A c \in Cluster :
    <>[](registered # {} /\ Indexed(c) /\ InformerRunning /\ ~stopped)
      => <>[](Get(c) # NoInst)

-----------------------------------------------------------------------------
(* The inductive invariant behind the safety properties.                   *)

(* Where a handler is agrees with the notification it has in hand, and     *)
(* only the handlers that were added are notified.                         *)
HandlerOK ==
  \A r \in Runs :
    /\ pc[r] \in {"slow", "engage", "rollback"} => Handles(r, "add")
    /\ pc[r] = "disengage" => Handles(r, "del")
    /\ pc[r] \in {"engage", "rollback"} <=> cl[r] # NoInst
    /\ pending[r] # <<>> => r \in registered
    /\ r \in registered => run[r] # "idle"

(* The object a handler has created is stored under no other name, and no  *)
(* other handler has it.                                                   *)
LocalIsOwn ==
  \A r \in Runs : cl[r] # NoInst =>
    /\ \A c \in Cluster : clusters[c] = cl[r] => c = Name(r)
    /\ \A s \in Runs : cl[s] = cl[r] => s = r

FailedAbsent == \A c \in failed : clusters[c] = NoInst

(* A cluster is only ever represented by a handler that was added.         *)
RegisteredFirst == \A c \in Cluster : clusters[c] # NoInst => registered # {}

(* The cache stops with the caller's context; a group ends with its cache, *)
(* and not before Run has started it.                                      *)
GroupsOK ==
  \A r \in Runs :
    /\ run[r] \in {"idle", "registered"} => starter[r] = "none" /\ r \notin groupDone
    /\ starter[r] = "finished" => stopped
    /\ r \in groupDone => starter[r] = "failed" \/ stopped

(* Everything together: no part but TypeOK and HandlerOK is inductive on   *)
(* its own (provider.go:116-213).                                          *)
IInv ==
  /\ TypeOK
  /\ HandlerOK
  /\ LocalIsOwn
  /\ FailedAbsent
  /\ RegisteredFirst
  /\ ContextTracked
  /\ NoLostNotification
  /\ RepresentedIsEngaged
  /\ GroupsOK

=============================================================================
