-------------------------- MODULE ApplicationProofs --------------------------
(***************************************************************************)
(* Proofs about Application: the safety properties hold for every set of   *)
(* clusters, namespaces and names, with any number of failures.            *)
(***************************************************************************)
EXTENDS Application, TLAPS

LEMMA KeyFacts ==
  /\ \A a \in App : a.cluster \in Cluster /\ a.namespace \in Namespace /\ HomeOf(a) \in Home
  /\ \A k \in Kind, h \in Home : <<k, h>> \in Kind \X Home
BY DEF App, HomeOf, Home

LEMMA Initially == Init => ApplicationInv
<1> SUFFICES ASSUME Init PROVE ApplicationInv
  OBVIOUS
<1>1. TypeOK
  BY ApplicationAssumption DEF Init, Directory!Init, TypeOK, Place
<1>2. Progress /\ ReadyMeansDeployed /\ NotForgotten /\ StaleIsQueued
  BY DEF Init, Progress, ReadyMeansDeployed, NotForgotten, StaleIsQueued
<1>3. Directory!Consistent /\ ListedByName
  BY DEF Init, Directory!Init, Directory!Consistent, Directory!Listed, ListedByName
<1> QED
  BY <1>1, <1>2, <1>3 DEF ApplicationInv

LEMMA TypesStep ==
  ASSUME TypeOK, [Next]_vars
  PROVE  TypeOK'
<1> USE ApplicationAssumption, KeyFacts
    DEF TypeOK, tenantVars, providerVars, workerVars, directoryVars, vars
<1>1. ASSUME NEW a \in App, CreateApp(a) \/ UpdateApp(a) \/ DeleteApp(a)
      PROVE  TypeOK'
  BY <1>1 DEF CreateApp, UpdateApp, DeleteApp, Written, Enqueue
<1>2. ASSUME NEW c \in Cluster, NEW n \in Namespace, CreateSecret(c, n) \/ DeleteSecret(c, n)
      PROVE  TypeOK'
  BY <1>2 DEF CreateSecret, DeleteSecret
<1>3. ASSUME NEW c \in Cluster, CreateNamespace(c) \/ ClusterForgotten(c)
      PROVE  TypeOK'
  BY <1>3 DEF CreateNamespace, ClusterForgotten, Directory!Forget, Fail
<1>4. ASSUME NEW k \in Kind, NEW h \in Home, DeleteChild(k, h)
      PROVE  TypeOK'
  BY <1>4 DEF DeleteChild, Fail
<1>5. CASE Crash
  <2>1. failures' \in Nat
    BY <1>5 DEF Crash, Fail
  <2>2. dir' \in [Cluster -> Inst \cup {NoInst}]
    BY <1>5 DEF Crash, Directory!Reset
  <2>3. pc' = "idle" /\ req' = NoApp /\ seen' = 0 /\ over' = FALSE /\ queue' = {}
    BY <1>5 DEF Crash, Directory!Reset
  <2>4. active' = {} /\ offered' = {} /\ engaged' = {}
    BY <1>5 DEF Crash, Directory!Reset
  <2>5. UNCHANGED <<tenantVars, providerVars>>
    BY <1>5 DEF Crash
  <2> QED
    BY <2>1, <2>2, <2>3, <2>4, <2>5 DEF Place
<1>16. CASE Signal
  BY <1>16 DEF Signal, Directory!End, Fail
<1>6. ASSUME NEW a \in App, Take(a) PROVE TypeOK'
  BY <1>6 DEF Take, Place
<1>7. CASE CallFails
  BY <1>7 DEF CallFails, Fail, ReturnError, Place
<1>8. CASE GetCluster \/ GetApp \/ GetSecret
  BY <1>8 DEF GetCluster, GetApp, GetSecret, GoTo, ReturnError, Succeed, Place
<1>9. ASSUME NEW place \in Place \ {"idle"}, NEW k \in Kind, NEW next \in Place \ {"idle"},
             Ensure(place, k, next)
      PROVE  TypeOK'
  <2>1. HomeOf(req) \in Home /\ <<k, HomeOf(req)>> \in Kind \X Home /\ req \in App
    BY <1>9 DEF Ensure
  <2>2. /\ UNCHANGED <<tenantVars, namespaces, directoryVars, failures, seen>> \/ ReturnError
        /\ UNCHANGED <<apps, version, ready, secrets, namespaces, directoryVars, failures>>
    BY <1>9 DEF Ensure, GoTo
  <2>3. children' \in [Kind \X Home -> {"absent", "live", "terminating"}]
    BY <1>9, <2>1 DEF Ensure
  <2>4. \/ pc' = next /\ req' = req /\ seen' = seen /\ queue' = queue
        \/ pc' = "idle" /\ req' = NoApp /\ seen' = 0 /\ queue' = queue \cup {req}
    BY <1>9 DEF Ensure, GoTo, ReturnError
  <2> QED
    BY <1>9, <2>1, <2>2, <2>3, <2>4 DEF Place
<1>10. CASE UpdateStatus
  BY <1>10 DEF UpdateStatus, Succeed, ReturnError, Enqueue, Place
<1>11. CASE UNCHANGED vars
  BY <1>11
<1>12. CASE EnsureDeployment \/ EnsureService \/ EnsureServerSecret
  <2>1. {"deployment", "service", "secret"} = Kind
        /\ {"deploy", "expose", "configure", "status"} \subseteq Place \ {"idle"}
    BY DEF Kind, Place
  <2> QED
    BY <1>9, <1>12, <2>1 DEF EnsureDeployment, EnsureService, EnsureServerSecret
<1>13. ASSUME NEW i \in Inst, ClusterListed(i)
       PROVE  TypeOK'
  BY <1>13 DEF ClusterListed, Directory!Represent
<1>14. ASSUME NEW i \in Inst, ClusterEngaged(i) \/ WatchEnds(i)
       PROVE  TypeOK'
  BY <1>14 DEF ClusterEngaged, Directory!Engage, WatchEnds, Directory!Drop
<1>15. ASSUME NEW i \in Inst, ClusterRefused(i)
       PROVE  TypeOK'
  BY <1>15 DEF ClusterRefused, Directory!Refuse, Fail
<1> QED
  BY <1>1, <1>2, <1>3, <1>4, <1>5, <1>6, <1>7, <1>8, <1>10, <1>11, <1>12, <1>13, <1>14, <1>15, <1>16
     DEF Next, Reconcile

-----------------------------------------------------------------------------
(* Children are never absent again.                                        *)

LEMMA ChildrenStay ==
  ASSUME TypeOK, [Next]_vars, NEW k \in Kind, NEW h \in Home,
         children[<<k, h>>] # "absent"
  PROVE  children'[<<k, h>>] # "absent"
<1> USE KeyFacts DEF tenantVars, providerVars, workerVars, vars
<1>1. ASSUME NEW j \in Kind, NEW g \in Home, DeleteChild(j, g)
      PROVE  children'[<<k, h>>] # "absent"
  BY <1>1 DEF DeleteChild, TypeOK
<1>2. ASSUME NEW place, NEW j \in Kind, NEW next, Ensure(place, j, next)
      PROVE  children'[<<k, h>>] # "absent"
  BY <1>2 DEF Ensure, TypeOK
<1>3. CASE EnsureDeployment \/ EnsureService \/ EnsureServerSecret
  <2>1. {"deployment", "service", "secret"} = Kind
    BY DEF Kind
  <2> QED
    BY <1>2, <1>3, <2>1 DEF EnsureDeployment, EnsureService, EnsureServerSecret
<1>4. CASE children' = children
  BY <1>4
<1> QED
  BY <1>1, <1>3, <1>4
     DEF Next, Reconcile, CreateApp, UpdateApp, DeleteApp, CreateSecret, DeleteSecret,
         CreateNamespace, ClusterListed, ClusterEngaged, ClusterRefused, ClusterForgotten,
         WatchEnds, Signal, Crash, Take, CallFails, GetCluster,
         GetApp, GetSecret, UpdateStatus

LEMMA EnsureDone ==
  ASSUME TypeOK, NEW place \in Place \ {"idle"}, NEW k \in Kind, NEW next,
         Ensure(place, k, next)
  PROVE  \/ pc' = next /\ req' = req /\ children'[<<k, HomeOf(req)>>] # "absent"
         \/ pc' = "idle"
<1>1. req \in App /\ HomeOf(req) \in Home
  BY KeyFacts DEF Ensure, TypeOK
<1> QED
  BY <1>1, KeyFacts DEF Ensure, GoTo, ReturnError, TypeOK

LEMMA ProgressStep ==
  ASSUME TypeOK, Progress, [Next]_vars
  PROVE  Progress'
<1> USE DEF tenantVars, providerVars, workerVars, vars
<1>0. {"deployment", "service", "secret"} = Kind
      /\ {"deploy", "expose", "configure"} \subseteq Place \ {"idle"}
  BY DEF Kind, Place
<1>1. CASE pc' = pc /\ req' = req
  <2>1. pc # "idle" => HomeOf(req) \in Home
    BY KeyFacts DEF TypeOK
  <2> QED
    BY <1>0, <1>1, <2>1, ChildrenStay DEF Progress
<1>2. CASE pc' \in {"idle", "cluster", "get", "secret", "deploy"}
  BY <1>2 DEF Progress
<1>3. CASE EnsureDeployment
  <2>1. \/ pc' = "expose" /\ req' = req
           /\ children'[<<"deployment", HomeOf(req)>>] # "absent"
        \/ pc' = "idle"
    BY <1>0, <1>3, EnsureDone DEF EnsureDeployment
  <2> QED
    BY <2>1 DEF Progress
<1>4. CASE EnsureService
  <2>1. \/ pc' = "configure" /\ req' = req
           /\ children'[<<"service", HomeOf(req)>>] # "absent"
        \/ pc' = "idle"
    BY <1>0, <1>4, EnsureDone DEF EnsureService
  <2>2. pc = "expose" /\ HomeOf(req) \in Home
    BY <1>4, KeyFacts DEF EnsureService, Ensure, TypeOK
  <2>3. children'[<<"deployment", HomeOf(req)>>] # "absent"
    BY <1>0, <2>2, ChildrenStay DEF Progress
  <2> QED
    BY <2>1, <2>3 DEF Progress
<1>5. CASE EnsureServerSecret
  <2>1. \/ pc' = "status" /\ req' = req
           /\ children'[<<"secret", HomeOf(req)>>] # "absent"
        \/ pc' = "idle"
    BY <1>0, <1>5, EnsureDone DEF EnsureServerSecret
  <2>2. pc = "configure" /\ HomeOf(req) \in Home
    BY <1>5, KeyFacts DEF EnsureServerSecret, Ensure, TypeOK
  <2>3. /\ children'[<<"deployment", HomeOf(req)>>] # "absent"
        /\ children'[<<"service", HomeOf(req)>>] # "absent"
    BY <1>0, <2>2, ChildrenStay DEF Progress
  <2> QED
    BY <2>1, <2>3 DEF Progress
<1> QED
  BY <1>1, <1>2, <1>3, <1>4, <1>5
     DEF Next, Reconcile, CreateApp, UpdateApp, DeleteApp, CreateSecret, DeleteSecret,
         CreateNamespace, DeleteChild, ClusterListed, ClusterEngaged, ClusterRefused, ClusterForgotten,
         WatchEnds, Signal, Crash, Take, CallFails,
         GetCluster, GetApp, GetSecret, UpdateStatus, GoTo, ReturnError, Succeed

LEMMA ReadyStep ==
  ASSUME TypeOK, Progress, ReadyMeansDeployed, [Next]_vars
  PROVE  ReadyMeansDeployed'
<1> USE DEF tenantVars, providerVars, workerVars, vars
<1>1. ready' \subseteq apps'
  BY DEF ReadyMeansDeployed, Next, Reconcile, CreateApp, UpdateApp, DeleteApp,
         CreateSecret, DeleteSecret, CreateNamespace, DeleteChild, ClusterListed, ClusterEngaged, ClusterRefused, ClusterForgotten,
         WatchEnds, Signal,
         Crash, Take, CallFails, GetCluster, GetApp, GetSecret, EnsureDeployment,
         EnsureService, EnsureServerSecret, Ensure, UpdateStatus
<1>2. \A a \in ready' : a \in ready \/ (UpdateStatus /\ a = req)
  BY DEF Next, Reconcile, CreateApp, UpdateApp, DeleteApp,
         CreateSecret, DeleteSecret, CreateNamespace, DeleteChild, ClusterListed, ClusterEngaged, ClusterRefused, ClusterForgotten,
         WatchEnds, Signal,
         Crash, Take, CallFails, GetCluster, GetApp, GetSecret, EnsureDeployment,
         EnsureService, EnsureServerSecret, Ensure, UpdateStatus
<1>3. ASSUME NEW a \in ready', NEW k \in Kind
      PROVE  children'[<<k, HomeOf(a)>>] # "absent"
  <2>1. a \in App /\ HomeOf(a) \in Home
    BY <1>2, KeyFacts DEF TypeOK, UpdateStatus
  <2>2. children[<<k, HomeOf(a)>>] # "absent"
    BY <1>2 DEF ReadyMeansDeployed, Progress, UpdateStatus, Kind
  <2> QED
    BY <2>1, <2>2, ChildrenStay
<1> QED
  BY <1>1, <1>3 DEF ReadyMeansDeployed

-----------------------------------------------------------------------------
(* The queue.                                                              *)

(* A watch that there is after the provider's step was there before, or    *)
(* has just listed the Applications.                                       *)
LEMMA WatchStep ==
  ASSUME TypeOK,
         \/ \E i \in Inst : ClusterListed(i) \/ ClusterEngaged(i) \/ ClusterRefused(i) \/ WatchEnds(i)
         \/ \E c \in Cluster : ClusterForgotten(c)
         \/ Signal
  PROVE  /\ UNCHANGED <<apps, version, ready, pc, req, seen>>
         /\ queue \subseteq queue'
         /\ \A d \in Cluster :
              Watched(d)' => Watched(d) \/ {a \in apps : a.cluster = d} \subseteq queue'
<1> USE DEF tenantVars, workerVars, directoryVars, Watched
<1>1. CASE \E i \in Inst : ClusterListed(i)
  BY <1>1 DEF ClusterListed, Directory!Represent
<1>2. CASE \E i \in Inst : ClusterEngaged(i)
  BY <1>2 DEF ClusterEngaged, Directory!Engage
<1>3. CASE \E i \in Inst : ClusterRefused(i)
  BY <1>3 DEF ClusterRefused, Directory!Refuse
<1>4. CASE \E i \in Inst : WatchEnds(i)
  BY <1>4 DEF WatchEnds, Directory!Drop
<1>5. CASE \E c \in Cluster : ClusterForgotten(c)
  BY <1>5 DEF ClusterForgotten, Directory!Forget
<1>6. CASE Signal
  BY <1>6 DEF Signal, Directory!End
<1> QED
  BY <1>1, <1>2, <1>3, <1>4, <1>5, <1>6

LEMMA QueueStep ==
  ASSUME TypeOK, NotForgotten, StaleIsQueued, [Next]_vars
  PROVE  NotForgotten' /\ StaleIsQueued'
<1> USE DEF tenantVars, providerVars, workerVars, directoryVars, vars, NotForgotten,
            StaleIsQueued
<1>1. ASSUME NEW a \in App, CreateApp(a) \/ UpdateApp(a) \/ DeleteApp(a)
      PROVE  NotForgotten' /\ StaleIsQueued'
  BY <1>1 DEF CreateApp, UpdateApp, DeleteApp, Written, Enqueue, Watched, HalfWatched, TypeOK
<1>2. CASE \/ \E i \in Inst : ClusterListed(i) \/ ClusterEngaged(i) \/ ClusterRefused(i) \/ WatchEnds(i)
           \/ \E c \in Cluster : ClusterForgotten(c)
           \/ Signal
  BY <1>2, WatchStep, KeyFacts DEF TypeOK
<1>3. CASE Crash
  BY <1>3 DEF Crash, Directory!Reset, Watched
<1>4. ASSUME NEW a \in App, Take(a) PROVE NotForgotten' /\ StaleIsQueued'
  BY <1>4, ApplicationAssumption DEF Take, Watched, TypeOK
<1>5. CASE ReturnError /\ UNCHANGED <<apps, version, ready, directoryVars>>
  BY <1>5 DEF ReturnError, Watched, TypeOK
<1>6. CASE UNCHANGED <<apps, version, ready, directoryVars, queue, req, seen>>
           /\ (pc' \in {pc, "idle", "cluster", "get"} \/ pc \in {"secret", "deploy", "expose", "configure"})
  BY <1>6 DEF Watched, TypeOK
<1>7. CASE GetApp
  BY <1>7 DEF GetApp, Succeed, Watched, TypeOK
<1>8. CASE UpdateStatus
  BY <1>5, <1>8 DEF UpdateStatus, Succeed, Enqueue, Watched, HalfWatched, TypeOK
<1>9. CASE GetCluster \/ GetSecret
  BY <1>5, <1>6, <1>9 DEF GetCluster, GetSecret, GoTo
<1>10. CASE EnsureDeployment \/ EnsureService \/ EnsureServerSecret
  BY <1>5, <1>6, <1>10 DEF EnsureDeployment, EnsureService, EnsureServerSecret, Ensure, GoTo
<1>11. CASE CallFails
  BY <1>5, <1>11 DEF CallFails
<1> QED
  BY <1>1, <1>2, <1>3, <1>4, <1>6, <1>7, <1>8, <1>9, <1>10, <1>11
     DEF Next, Reconcile, CreateSecret, DeleteSecret, CreateNamespace, DeleteChild

-----------------------------------------------------------------------------
(* The directory.                                                          *)

(* A step of the directory leaves what is listed to be what has a context. *)
LEMMA ConsistentStep ==
  ASSUME TypeOK, Directory!Consistent, [Directory!Next \/ Directory!Reset]_(Directory!vars)
  PROVE  Directory!Consistent'
<1> USE ApplicationAssumption DEF TypeOK, Directory!Consistent, Directory!Listed
<1>1. ASSUME NEW c \in Cluster, NEW i \in Inst, Directory!Represent(c, i)
      PROVE  Directory!Consistent'
  BY <1>1 DEF Directory!Represent
<1>2. ASSUME NEW i \in Inst, Directory!Refuse(i)
      PROVE  Directory!Consistent'
  BY <1>2 DEF Directory!Refuse
<1>3. ASSUME NEW c \in Cluster, Directory!Forget(c)
      PROVE  Directory!Consistent'
  BY <1>3 DEF Directory!Forget
<1>4. CASE Directory!Reset
  BY <1>4 DEF Directory!Reset
<1>5. CASE UNCHANGED <<dir, active>>
  BY <1>5
<1> QED
  BY <1>1, <1>2, <1>3, <1>4, <1>5
     DEF Directory!Next, Directory!vars, Directory!Engage, Directory!Drop, Directory!End

(* What happens around the controller is a step of the directory or is not *)
(* seen in it.                                                             *)
LEMMA AroundStep ==
  ASSUME [Next]_vars
  PROVE  [Directory!Next \/ Directory!Reset]_(Directory!vars)
<1> USE DEF tenantVars, providerVars, workerVars, directoryVars, vars, Directory!vars
<1>1. ASSUME NEW i \in Inst, ClusterListed(i)
      PROVE  Directory!Next
  BY <1>1, ApplicationAssumption DEF ClusterListed, Directory!Next
<1>2. ASSUME NEW i \in Inst, ClusterEngaged(i) \/ ClusterRefused(i) \/ WatchEnds(i)
      PROVE  Directory!Next
  BY <1>2 DEF ClusterEngaged, ClusterRefused, WatchEnds, Directory!Next
<1>3. ASSUME NEW c \in Cluster, ClusterForgotten(c)
      PROVE  Directory!Next
  BY <1>3 DEF ClusterForgotten, Directory!Next
<1>4. CASE Signal
  BY <1>4 DEF Signal, Directory!Next
<1>5. CASE Crash
  BY <1>5 DEF Crash
<1>6. CASE UNCHANGED directoryVars
  BY <1>6
<1> QED
  BY <1>1, <1>2, <1>3, <1>4, <1>5, <1>6
     DEF Next, Reconcile, CreateApp, UpdateApp, DeleteApp, CreateSecret, DeleteSecret,
         CreateNamespace, DeleteChild, Take, CallFails, GetCluster, GetApp, GetSecret,
         EnsureDeployment, EnsureService, EnsureServerSecret, Ensure, UpdateStatus

LEMMA ListedByNameStep ==
  ASSUME TypeOK, ListedByName, [Next]_vars
  PROVE  ListedByName'
<1> USE ApplicationAssumption DEF TypeOK, ListedByName, directoryVars, vars
<1>1. ASSUME NEW i \in Inst, ClusterListed(i)
      PROVE  ListedByName'
  BY <1>1 DEF ClusterListed, Directory!Represent
<1>2. CASE \A c \in Cluster : dir'[c] = dir[c] \/ dir'[c] = NoInst
  BY <1>2
<1>3. ASSUME NEW i \in Inst, ClusterRefused(i)
      PROVE  ListedByName'
  BY <1>2, <1>3 DEF ClusterRefused, Directory!Refuse
<1>4. ASSUME NEW c \in Cluster, ClusterForgotten(c)
      PROVE  ListedByName'
  BY <1>2, <1>4 DEF ClusterForgotten, Directory!Forget
<1>5. CASE Crash
  BY <1>2, <1>5 DEF Crash, Directory!Reset
<1>6. CASE dir' = dir
  BY <1>6
<1> QED
  BY <1>1, <1>3, <1>4, <1>5, <1>6
     DEF Next, Reconcile, CreateApp, UpdateApp, DeleteApp, CreateSecret, DeleteSecret,
         CreateNamespace, DeleteChild, ClusterEngaged, Directory!Engage, WatchEnds,
         Directory!Drop, Signal, Directory!End, Take, CallFails, GetCluster, GetApp,
         GetSecret, EnsureDeployment, EnsureService, EnsureServerSecret, Ensure, UpdateStatus

(* The inductive invariant, which the results below rest on.               *)
THEOREM InductiveInvariant == Spec => []ApplicationInv
<1>1. ApplicationInv /\ [Next]_vars => ApplicationInv'
  BY TypesStep, ProgressStep, ReadyStep, QueueStep, AroundStep, ConsistentStep,
     ListedByNameStep DEF ApplicationInv
<1> QED
  BY <1>1, Initially, PTL DEF Spec

(* Ready is only ever said of an Application with all its children.        *)
THEOREM ReadyAreDeployed == Spec => []ReadyMeansDeployed
<1>1. ApplicationInv => ReadyMeansDeployed
  BY DEF ApplicationInv
<1> QED
  BY <1>1, InductiveInvariant, PTL

(* No Application is forgotten by the queue, through any number of errors, *)
(* conflicts, disengagements and restarts.                                 *)
THEOREM NoneForgotten == Spec => []NotForgotten
<1>1. ApplicationInv => NotForgotten
  BY DEF ApplicationInv
<1> QED
  BY <1>1, InductiveInvariant, PTL

(* Work on what is no longer the current Application is always repeated.   *)
THEOREM StaleWorkRepeated == Spec => []StaleIsQueued
<1>1. ApplicationInv => StaleIsQueued
  BY DEF ApplicationInv
<1> QED
  BY <1>1, InductiveInvariant, PTL

(* There is one live watch of a cluster at most, and GetCluster returns    *)
(* the very object that is watched (application_controller.go:58-61).      *)
THEOREM WatchedAreListed == Spec => []WatchesTheListed
<1>1. ApplicationInv => WatchesTheListed
  <2> SUFFICES ASSUME ApplicationInv, NEW i \in engaged \cap active
               PROVE  dir[NameOf[i]] = i
    BY DEF WatchesTheListed
  <2>1. PICK c \in Cluster : dir[c] = i /\ i # NoInst
    BY DEF ApplicationInv, Directory!Consistent, Directory!Listed
  <2>2. NameOf[i] = c
    BY <2>1 DEF ApplicationInv, ListedByName
  <2> QED
    BY <2>1, <2>2
<1> QED
  BY <1>1, InductiveInvariant, PTL

=============================================================================
