---------------------------- MODULE Application ----------------------------
(***************************************************************************)
(* The example controller of examples/crd: ApplicationReconciler           *)
(* (internal/controller/application_controller.go) under the controller    *)
(* that cmd/main.go builds.  One worker takes requests from a queue and    *)
(* reconciles an Application of a tenant's logical cluster by creating a   *)
(* Deployment, a Service and a Secret in the provider's own cluster, then  *)
(* reports Ready in the Application's status.  Every API call is a step;   *)
(* tenants, administrators, crashes and the provider act in between, the   *)
(* provider as ClusterDirectory says, which Provider implements.           *)
(* Clients are not cached (cluster.go:52-58): reads see the API server.    *)
(***************************************************************************)
EXTENDS Naturals

CONSTANTS
  Cluster,       \* logical cluster names
  Namespace,     \* namespaces of the tenants' clusters
  Name,          \* names of Applications
  RefNamespace,  \* spec.databaseSecretRef.namespace of every Application
  NoApp,         \* "the worker has no request"
  Inst,          \* cluster objects of the provider
  NoInst,        \* "no entry" in its directory
  NameOf,        \* the logical cluster of every cluster object
  MaxVersion,    \* bound: writes to one Application
  MaxFailures    \* bound: failures, crashes, deleted children in one behaviour

(* An Application, and what identifies its children in the provider's      *)
(* cluster: they are put in a namespace named after the logical cluster.   *)
App == [cluster : Cluster, namespace : Namespace, name : Name]
Home == [cluster : Cluster, name : Name]
HomeOf(a) == [cluster |-> a.cluster, name |-> a.name]

Kind == {"deployment", "service", "secret"}

ASSUME ApplicationAssumption ==
  /\ RefNamespace \in [App -> Namespace]
  /\ NoApp \notin App
  /\ NameOf \in [Inst -> Cluster]
  /\ NoInst \notin Inst
  /\ MaxVersion \in Nat
  /\ MaxFailures \in Nat

VARIABLES
  apps,         \* Applications that exist
  version,      \* resourceVersion of every Application
  ready,        \* Applications whose status says Ready
  secrets,      \* <<cluster, namespace>> where the database secret exists
  children,     \* state of every child object in the provider's cluster
  namespaces,   \* namespaces of the provider's cluster
  dir,          \* the provider's directory: what mgr.GetCluster returns
  active,       \* cluster objects whose context is not cancelled
  offered,      \* cluster objects mgr.Engage has been called with
  engaged,      \* cluster objects whose Applications the controller watches
  over,         \* the process has been told to stop
  queue,        \* requests waiting for the worker
  pc,           \* where the worker is in Reconcile
  req,          \* the request it works on
  seen,         \* the resourceVersion of the Application it has read
  failures      \* history: how many of those so far

tenantVars == <<apps, version, ready, secrets>>
providerVars == <<children, namespaces>>
workerVars == <<pc, req, seen>>
directoryVars == <<dir, active, offered, engaged, over>>
vars == <<tenantVars, providerVars, directoryVars, queue, workerVars, failures>>

Directory == INSTANCE ClusterDirectory

Place == {"idle", "cluster", "get", "secret", "status"} \cup
         {"deploy", "expose", "configure"}

TypeOK ==
  /\ apps \in SUBSET App
  /\ version \in [App -> Nat]
  /\ ready \in SUBSET App
  /\ secrets \in SUBSET (Cluster \X Namespace)
  /\ children \in [Kind \X Home -> {"absent", "live", "terminating"}]
  /\ namespaces \in SUBSET Cluster
  /\ dir \in [Cluster -> Inst \cup {NoInst}]
  /\ active \in SUBSET Inst
  /\ offered \in SUBSET Inst
  /\ engaged \in SUBSET Inst
  /\ over \in BOOLEAN
  /\ queue \in SUBSET App
  /\ pc \in Place
  /\ req \in App \cup {NoApp}
  /\ pc # "idle" <=> req # NoApp
  /\ seen \in Nat
  /\ failures \in Nat

Init ==
  /\ apps = {}
  /\ version = [a \in App |-> 0]
  /\ ready = {}
  /\ secrets = {}
  /\ children = [x \in Kind \X Home |-> "absent"]
  /\ namespaces = {}
  /\ Directory!Init
  /\ queue = {}
  /\ pc = "idle"
  /\ req = NoApp
  /\ seen = 0
  /\ failures = 0

Fail == failures < MaxFailures /\ failures' = failures + 1

-----------------------------------------------------------------------------
(* Tenants and administrators.                                             *)

(* The controller watches a cluster; its watch of one is starting or       *)
(* ending.                                                                 *)
Watched(c) == ~over /\ \E i \in engaged \cap active : NameOf[i] = c
HalfWatched(c) == \E i \in offered \cup engaged : NameOf[i] = c

(* A watch event puts the request in the queue.                            *)
Enqueue(a) ==
  \/ HalfWatched(a.cluster) /\ queue' = queue \cup {a}
  \/ ~Watched(a.cluster) /\ UNCHANGED queue

Written(a) == version[a] < MaxVersion /\ version' = [version EXCEPT ![a] = @ + 1]

CreateApp(a) ==
  /\ a \notin apps
  /\ apps' = apps \cup {a}
  /\ Written(a)
  /\ Enqueue(a)
  /\ UNCHANGED <<ready, secrets, providerVars, directoryVars, workerVars, failures>>

(* Spec, labels or annotations change.                                     *)
UpdateApp(a) ==
  /\ a \in apps
  /\ Written(a)
  /\ Enqueue(a)
  /\ UNCHANGED <<apps, ready, secrets, providerVars, directoryVars, workerVars, failures>>

(* The reconciler puts no finalizer on the Application: it goes at once.   *)
DeleteApp(a) ==
  /\ a \in apps
  /\ apps' = apps \ {a}
  /\ ready' = ready \ {a}
  /\ Enqueue(a)
  /\ UNCHANGED <<version, secrets, providerVars, directoryVars, workerVars, failures>>

CreateSecret(c, n) ==
  /\ <<c, n>> \notin secrets
  /\ secrets' = secrets \cup {<<c, n>>}
  /\ UNCHANGED <<apps, version, ready, providerVars, directoryVars, queue, workerVars, failures>>

DeleteSecret(c, n) ==
  /\ <<c, n>> \in secrets
  /\ secrets' = secrets \ {<<c, n>>}
  /\ UNCHANGED <<apps, version, ready, providerVars, directoryVars, queue, workerVars, failures>>

(* Nothing in the repository creates the namespaces of the children.       *)
CreateNamespace(c) ==
  /\ c \notin namespaces
  /\ namespaces' = namespaces \cup {c}
  /\ UNCHANGED <<tenantVars, children, directoryVars, queue, workerVars, failures>>

(* Mutant of DeleteChild: the children have no finalizer.                  *)
DeleteChildNow(k, h) ==
  /\ children[<<k, h>>] = "live"
  /\ children' = [children EXCEPT ![<<k, h>>] = "absent"]
  /\ UNCHANGED <<tenantVars, namespaces, directoryVars, queue, workerVars, failures>>

(* Somebody deletes a child: its finalizer keeps it, terminating for good, *)
(* as nothing removes that finalizer.                                      *)
DeleteChild(k, h) ==
  /\ children[<<k, h>>] = "live"
  /\ Fail
  /\ children' = [children EXCEPT ![<<k, h>>] = "terminating"]
  /\ UNCHANGED <<tenantVars, namespaces, directoryVars, queue, workerVars>>

-----------------------------------------------------------------------------
(* The provider, and the process of the controller.                        *)

(* The provider lists a cluster: GetCluster returns it from now on.        *)
ClusterListed(i) ==
  /\ Directory!Represent(NameOf[i], i)
  /\ UNCHANGED <<tenantVars, providerVars, queue, workerVars, failures>>

(* The manager engages it with the controller, whose watch has by then     *)
(* listed the Applications, unless the context was done.                   *)
ClusterEngaged(i) ==
  /\ Directory!Engage(i)
  /\ \/ queue' = queue \cup {a \in apps : a.cluster = NameOf[i]}
     \/ (over \/ i \notin active) /\ UNCHANGED queue
  /\ UNCHANGED <<tenantVars, providerVars, workerVars, failures>>

ClusterRefused(i) ==
  /\ Fail
  /\ Directory!Refuse(i)
  /\ UNCHANGED <<tenantVars, providerVars, queue, workerVars>>

(* Mutant of ClusterForgotten: the context is not cancelled.               *)
ClusterForgottenLeaks(c) ==
  /\ Fail
  /\ dir[c] # NoInst
  /\ dir' = [dir EXCEPT ![c] = NoInst]
  /\ UNCHANGED <<active, offered, engaged, over>>
  /\ UNCHANGED <<tenantVars, providerVars, queue, workerVars>>

(* The cluster is unlisted at once; the watch ends later.                  *)
ClusterForgotten(c) ==
  /\ Fail
  /\ Directory!Forget(c)
  /\ UNCHANGED <<tenantVars, providerVars, queue, workerVars>>

WatchEnds(i) ==
  /\ Directory!Drop(i)
  /\ UNCHANGED <<tenantVars, providerVars, queue, workerVars, failures>>

(* The first signal: every context ends, the worker goes on for a while.   *)
Signal ==
  /\ ~over
  /\ Fail
  /\ Directory!End
  /\ UNCHANGED <<tenantVars, providerVars, queue, workerVars>>

(* The process ends, anywhere, and starts again with nothing.              *)
Crash ==
  /\ IF over THEN UNCHANGED failures ELSE Fail
  /\ Directory!Reset
  /\ queue' = {}
  /\ pc' = "idle"
  /\ req' = NoApp
  /\ seen' = 0
  /\ UNCHANGED <<tenantVars, providerVars>>

-----------------------------------------------------------------------------
(* Reconcile.                                                              *)

Take(a) ==
  /\ pc = "idle"
  /\ a \in queue
  /\ queue' = queue \ {a}
  /\ pc' = "cluster"
  /\ req' = a
  /\ UNCHANGED <<tenantVars, providerVars, directoryVars, seen, failures>>

GoTo(place) == pc' = place /\ UNCHANGED <<req, seen>>

(* Reconcile returns nil: the request is forgotten.                        *)
Succeed ==
  /\ pc' = "idle"
  /\ req' = NoApp
  /\ seen' = 0
  /\ UNCHANGED queue

(* Mutant of ReturnError: the error is swallowed.                          *)
ReturnErrorIgnored == Succeed

(* Reconcile returns an error: the request is queued again.                *)
ReturnError ==
  /\ pc' = "idle"
  /\ req' = NoApp
  /\ seen' = 0
  /\ queue' = queue \cup {req}

(* Any call to an API server may fail.                                     *)
CallFails ==
  /\ pc \notin {"idle", "cluster"}
  /\ Fail
  /\ ReturnError
  /\ UNCHANGED <<tenantVars, providerVars, directoryVars>>

(* mgr.GetCluster.                                                         *)
GetCluster ==
  /\ pc = "cluster"
  /\ IF dir[req.cluster] # NoInst THEN GoTo("get") /\ UNCHANGED queue ELSE ReturnError
  /\ UNCHANGED <<tenantVars, providerVars, directoryVars, failures>>

(* Mutant of GetApp: the read is answered by a cache that lags behind.     *)
GetAppCached ==
  /\ pc = "get"
  /\ IF req \in apps
     THEN pc' = "secret" /\ seen' \in 0..version[req] /\ UNCHANGED <<req, queue>>
     ELSE Succeed
  /\ UNCHANGED <<tenantVars, providerVars, directoryVars, failures>>

(* Get of the Application: one that is gone is not an error.               *)
GetApp ==
  /\ pc = "get"
  /\ IF req \in apps
     THEN pc' = "secret" /\ seen' = version[req] /\ UNCHANGED <<req, queue>>
     ELSE Succeed
  /\ UNCHANGED <<tenantVars, providerVars, directoryVars, failures>>

(* Get of the database secret: by the name the spec gives, but in the      *)
(* namespace of the request.                                               *)
GetSecret ==
  /\ pc = "secret"
  /\ IF <<req.cluster, req.namespace>> \in secrets
     THEN GoTo("deploy") /\ UNCHANGED queue
     ELSE ReturnError
  /\ UNCHANGED <<tenantVars, providerVars, directoryVars, failures>>

(* CreateOrUpdate with a mutation that changes nothing: a child that is    *)
(* there, terminating or not, is left as it is; one that is not is         *)
(* created, if its namespace exists.                                       *)
Ensure(place, k, next) ==
  /\ pc = place
  /\ \/ /\ children[<<k, HomeOf(req)>>] # "absent"
        /\ GoTo(next)
        /\ UNCHANGED <<children, queue>>
     \/ /\ children[<<k, HomeOf(req)>>] = "absent"
        /\ req.cluster \in namespaces
        /\ children' = [children EXCEPT ![<<k, HomeOf(req)>>] = "live"]
        /\ GoTo(next)
        /\ UNCHANGED queue
     \/ /\ children[<<k, HomeOf(req)>>] = "absent"
        /\ req.cluster \notin namespaces
        /\ ReturnError
        /\ UNCHANGED children
  /\ UNCHANGED <<tenantVars, namespaces, directoryVars, failures>>

EnsureDeployment == Ensure("deploy", "deployment", "expose")

(* Mutant of EnsureService: Ready before the server secret is there.       *)
EnsureServiceLast == Ensure("expose", "service", "status")

EnsureService == Ensure("expose", "service", "configure")

EnsureServerSecret == Ensure("configure", "secret", "status")

(* Mutant of UpdateStatus: what is written differs every time.             *)
UpdateStatusAlways ==
  /\ pc = "status"
  /\ IF req \in apps /\ version[req] = seen
     THEN /\ ready' = ready \cup {req}
          /\ Enqueue(req)
          /\ pc' = "idle" /\ req' = NoApp /\ seen' = 0
     ELSE ReturnError /\ UNCHANGED ready
  /\ UNCHANGED <<apps, version, secrets, providerVars, directoryVars, failures>>

(* Status().Update with the resourceVersion that was read: a conflict is   *)
(* an error; a write that changes nothing causes no event.                 *)
UpdateStatus ==
  /\ pc = "status"
  /\ \/ /\ req \in apps
        /\ version[req] = seen
        /\ req \in ready
        /\ Succeed
        /\ UNCHANGED <<version, ready>>
     \/ /\ req \in apps
        /\ version[req] = seen
        /\ req \notin ready
        /\ ready' = ready \cup {req}
        /\ version' = [version EXCEPT ![req] = @ + 1]
        /\ Enqueue(req)
        /\ pc' = "idle" /\ req' = NoApp /\ seen' = 0
     \/ /\ req \notin apps \/ version[req] # seen
        /\ ReturnError
        /\ UNCHANGED <<version, ready>>
  /\ UNCHANGED <<apps, secrets, providerVars, directoryVars, failures>>

Reconcile ==
  \/ GetCluster \/ GetApp \/ GetSecret
  \/ EnsureDeployment \/ EnsureService \/ EnsureServerSecret
  \/ UpdateStatus

Next ==
  \/ \E a \in App : CreateApp(a) \/ UpdateApp(a) \/ DeleteApp(a)
  \/ \E c \in Cluster, n \in Namespace : CreateSecret(c, n) \/ DeleteSecret(c, n)
  \/ \E c \in Cluster : CreateNamespace(c)
  \/ \E k \in Kind, h \in Home : DeleteChild(k, h)
  \/ \E i \in Inst : ClusterListed(i) \/ ClusterEngaged(i) \/ ClusterRefused(i) \/ WatchEnds(i)
  \/ \E c \in Cluster : ClusterForgotten(c)
  \/ Signal \/ Crash
  \/ \E a \in App : Take(a)
  \/ CallFails
  \/ Reconcile

Spec == Init /\ [][Next]_vars

(* The worker goes on, and the queue is first in, first out: a request     *)
(* that keeps coming back does not keep another one from its turn.         *)
(* mgr.Engage returns.                                                     *)
Fairness ==
  /\ WF_vars(Reconcile)
  /\ \A i \in Inst : WF_vars(ClusterEngaged(i) \/ ClusterRefused(i))
  /\ \A a \in App : SF_vars(Take(a))

FairSpec == Spec /\ Fairness

-----------------------------------------------------------------------------
(* Properties.                                                             *)

(* An Application that says Ready has all its children, whatever is        *)
(* deleted afterwards: the status comes last, and the finalizers keep the  *)
(* children (application_controller.go:117-124, 137-141, 175, 198).        *)
ReadyMeansDeployed ==
  ready \subseteq apps /\ \A a \in ready, k \in Kind : children[<<k, HomeOf(a)>>] # "absent"

(* No Application is forgotten: one that is not Ready, in a cluster that   *)
(* is watched, is queued or worked on, through errors, conflicts,          *)
(* crashes and clusters that come and go (application_controller.go:64-146,*)
(* main.go:264-285).                                                       *)
NotForgotten ==
  \A a \in apps \ ready : Watched(a.cluster) => a \in queue \/ req = a

(* Work on an Application that has changed since it was read will be done  *)
(* again (application_controller.go:67-70: obj is used after four more     *)
(* calls).                                                                 *)
StaleIsQueued ==
  pc \notin {"idle", "cluster", "get"} /\ req \in apps /\ Watched(req.cluster)
    => version[req] = seen \/ req \in queue

(* While a process is not told to stop, each cluster has one live watch at *)
(* most, and what a request from it finds in GetCluster is that very       *)
(* cluster object, however often the cluster came and went                 *)
(* (application_controller.go:58-61; provider.go:142-151, 189-197).        *)
WatchesTheListed == \A i \in engaged \cap active : dir[NameOf[i]] = i

(* What is listed is listed under its own name.                            *)
ListedByName == \A c \in Cluster : dir[c] # NoInst => NameOf[dir[c]] = c

(* What the worker has done for the request it works on stays done; with   *)
(* the three properties about the queue and the status, and what is listed *)
(* where, it is inductive                                                  *)
(* (application_controller.go:88-141: the children in order, then status). *)
Progress ==
  /\ pc \in {"expose", "configure", "status"} => children[<<"deployment", HomeOf(req)>>] # "absent"
  /\ pc \in {"configure", "status"} => children[<<"service", HomeOf(req)>>] # "absent"
  /\ pc = "status" => children[<<"secret", HomeOf(req)>>] # "absent"

ApplicationInv ==
  /\ TypeOK /\ Progress /\ ReadyMeansDeployed /\ NotForgotten /\ StaleIsQueued
  /\ Directory!Consistent /\ ListedByName

(* What an Application needs to become Ready.                              *)
Served(a) == a \in apps /\ ~over /\ dir[a.cluster] # NoInst /\ a.cluster \in namespaces

(* An Application whose needs are met becomes Ready and stays so, whatever *)
(* failed on the way (application_controller.go:64-146).                   *)
EventuallyReady ==
  \A a \in App :
    <>[](Served(a) /\ <<a.cluster, a.namespace>> \in secrets) => <>[](a \in ready)

(* The controller comes to rest: its own status update causes one more     *)
(* reconciliation and not a loop (application_controller.go:137-143).      *)
Quiesces ==
  <>[](/\ ~over
       /\ \A c \in Cluster : dir[c] # NoInst /\ c \in namespaces
       /\ \A a \in apps : <<a.cluster, a.namespace>> \in secrets)
    => <>[](pc = "idle" /\ queue = {})

(* "It has enough information to retrieve secret in any namespace"         *)
(* (apiresourceschema-applications.apis.contrib.kcp.io.yaml:46-47): the    *)
(* code looks in the Application's own namespace only.                     *)
AnyNamespaceServed ==
  \A a \in App :
    <>[](Served(a) /\ <<a.cluster, RefNamespace[a]>> \in secrets) => <>[](a \in ready)

=============================================================================
