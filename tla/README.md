# A verification of kcp-multicluster-provider

This directory holds TLA+ models of the kcp provider for multicluster-runtime
(`src/virtualworkspace`) and of the example controller that runs on it
(`src/examples/crd`), the TLC configurations that check them on small
instances, and TLAPS proofs of their main properties for every instance.

## 1. Inventory

kcp serves many *logical clusters* from one API server. A *virtual workspace*
serves the objects of all of them under one wildcard endpoint, each object
annotated with its cluster. The provider watches that endpoint once and
presents every logical cluster to multicluster-runtime as a cluster of its own.

| Component (source) | State it keeps | Operations | Talks to |
|---|---|---|---|
| `Provider` (`virtualworkspace/provider.go`) | `clusters`, `cancelFns`, `lock` | `New`, `Run`, `AddFunc`, `DeleteFunc`, `Get`, `GetWildcard`, `IndexField` | wildcard informer (callbacks), `mgr.Engage` (call), `wildcardCache` |
| `wildcardCache`, `informerTracker` (`wildcard.go`) | three maps of informers, `lock` | the `NewInformer` hook, `getSharedInformer`, `IndexField`, and all of `cache.Cache` | controller-runtime's cache, which calls the hook with its mutex held |
| `scopedCache`, `scopedInformer` (`cache.go`) | `clusterName` | `Get`, `List`, `GetInformer`, two `AddEventHandler` forms | tracker, `cacheReader`, wildcard informers |
| `cacheReader`, index functions (`forked_cache_reader.go`, `indexes.go`) | none of its own | `Get`, `List`, `byIndexes` | the indexer of one wildcard informer |
| `scopedCluster` (`cluster.go`) | clients and accessors | accessors | `scopedCache` |
| Application controller (`examples/crd/internal/controller`, `cmd/main.go`) | the work queue, the request in hand | `Reconcile` | `mgr.GetCluster`, a tenant's API, the provider's own API |
| the process of the example (`examples/crd/cmd/main.go`) | none that survives it | set-up, `provider.Run` in a goroutine, `mgr.Start`, exit | signals, `Provider`, whatever restarts it |
| ConfigMap example (`examples/configmap`) | none | reads and logs | the manager |

### What is hard in it, and what correctness means

*Provider.* Notifications are handled long after the store changed, yet
`DeleteFunc` compares one with the index as it is *now*, outside the lock.
`AddFunc` publishes a cluster before it engages it, calls the manager without
the lock, and takes the cluster out again if that fails, perhaps when someone
else has put another there. `Run` may return before its goroutines do. Correct
means: the two maps agree; every live context has its cancel function kept;
what is listed is alive, and engaged or being worked on; no notification is
lost; the directory converges to the set of clusters with objects; shutdown
ends.

*cacheReader.* All clusters share one store. A missing cluster prefix in one
key or index leaks one tenant's objects to another or hides them. The loop of
`List` runs while the store changes, and counts a limit after a label filter.
Correct means: exactly the answer a cache of that one cluster could have given.

*wildcardCache.* Two maps, two locks, changed at different times; the tracker
has no removal, a creation may fail between the two changes, and the readers do
not wait for an informer to sync. Correct means: both maps name one informer per
kind, every call returns, every read has an indexer, and one that is current once
somebody has waited for it.

*scopedInformer.* Every handler sees every cluster's notifications through a
filter that must understand tombstones. Correct means: what the handler sees is
an informer of its cluster.

*Application controller.* Seven API calls, any of which may fail, on an object
that changes meanwhile; a crash loses every request; a cluster is listed before
its objects are watched, and watched for a while after it was unlisted or came
back as another object; the controller's own status update wakes it. Correct
means: Ready is true when said, nothing is forgotten, everything that can become
Ready does, and it comes to rest.

*Process.* `Run` returns by itself after a failure or a sync that timed out,
next to a manager that goes on; a signal may come in the set-up, in the sync, or
while serving; the exit cuts handlers off anywhere. Correct means: a failure
costs one restart, what a cluster lost while no process watched is noticed, and
a signal always ends the process.

## 2. Modules

| Module | Models | Extends |
|---|---|---|
| `ClusterDirectory` | abstract: what a provider promises its manager | |
| `Provider` | `provider.go`, with informer, manager, errgroup as environment; implements `ClusterDirectory` | |
| `MCProvider`, `ProviderProofs` | instances; proofs | `Provider` |
| `Process` | `cmd/main.go` around the provider: set-up, exits, signals, restarts; implements `ClusterDirectory` with its restarts | `Provider` |
| `MCProcess`, `ProcessProofs` | instance; proof | `Process`; `ProviderProofs` |
| `CacheReader` | `forked_cache_reader.go`, `indexes.go`, `IndexField` of `wildcard.go` | |
| `ScopedReader` | the same reader with a store of its own cluster, which `CacheReader` implements | `CacheReader` |
| `MCCacheReader` | instances | `ScopedReader` |
| `CacheReaderProofs`, `ScopedReaderProofs` | proofs; proof that it implements the reader on a store of its own | `CacheReader`; `ScopedReader`, `CacheReaderProofs` |
| `WildcardCache` | the hook, the tracker, `getSharedInformer` of `wildcard.go`; which informer `Get` and `List` of `cache.go` find, and whether it has synced | |
| `MCWildcardCache`, `WildcardCacheProofs` | instances; proofs | `WildcardCache` |
| `Informer` | abstract: client-go's promise to an event handler | |
| `ScopedInformer` | the filters of `cache.go`; implements `Informer` | |
| `ScopedInformerProofs`, `ScopedInformerRefinement` | proofs; proof that it implements `Informer` | `ScopedInformer`; `ScopedInformerProofs` |
| `Application` | `Reconcile` and its controller, under a provider that takes the steps of `ClusterDirectory` | |
| `MCApplication`, `ApplicationProofs` | instances; proofs | `Application` |

A definition whose name contains the name of another one and whose comment
begins with "Mutant of" is a plausible bug in the code behind that other one;
it is not part of a specification, and shows that a property notices the bug.

### ClusterDirectory

What a controller may rely on: an object is listed together with a context of
its own, is offered to the manager once, is engaged or refused (and may be
unlisted by the time the manager answers), and leaves the directory in the step
that cancels its context; the manager lets it go later. It is used three times.
`Provider` implements its `Spec`, the directory of one process: `DirectorySpec`.
`Process` implements its `RestartSpec`, in which `Reset` ends a process and
everything in it: `DirectoryAcrossRestarts`. Both are checked and proved.
`Application` takes its actions, `Reset` for a crash among them, for what happens
around the controller, so what is shown of the controller rests on nothing that
a process with the provider in it does not do.

### Provider

| State | In the code |
|---|---|
| `clusters`, `cancelFns` | the maps of `Provider`; a cancel function is named by the object it cancels |
| `ctx[i]` | the run whose errgroup context the live context of `i` derives from, `NoRun` once cancelled |
| `pc[r]`, `cl[r]` | where the handler of run `r` is, and its local `cl` |
| `store`, `registered`, `pending[r]` | the informer's indexer, its listeners and their queues |
| `engaged` | what the manager operates on; it drops an object whose context is done. The objects offered to it are those in `cl` |
| `run[r]`, `starter[r]`, `groupDone`, `stopped` | `Run`, the goroutine of `p.cache.Start`, the errgroup's context, the caller's context |
| `failed`, `failures` | history: what the provider gave up on; the bound on failures |

One action is one critical section or one call: `AddFast` (126-131), `AddExists`
/ `AddCreateFails` / `AddInserts` (134-151), `EngageSucceeds` / `EngageFails`
(154), `Rollback` (156-162), `DeleteChecks` (182-188), `Disengage` (189-197),
and the steps of `Run` (104-212). A listener works off its queue one
notification at a time, as client-go does, and starts when the informer has
been started. `mgr.Engage` returns either way at any later time.

`Runs` has more than one member in one instance. `Run` is exported and neither
guards against a second call nor undoes the first when it returns an error (the
sync timeout, 208); a caller that retries gets two handlers on one pair of maps.
The examples exit instead (`Process`). With one run the second look under the
lock (135-138) could never matter. A second `Run` whose `Start` fails, as the
cache runs already, ends with a context that is done while its handler stays
registered: it lists clusters that the manager drops at once. `ListedIsLive`
says that nothing else lists such a cluster; a `Run` that has given up on the
sync in particular leaves its cache, and with it its clusters, alive. All calls
are given one context, the way a retry in one caller would; callers with contexts
of their own are not modelled.

### Process

`process` is where `main` is. `SetupFails` stands for every `os.Exit(1)` up to
the second health check (206-315), `SetupDone` for the rest of the way to
`mgr.Start`. While it is "running" the provider's steps go on as in `Provider`;
`ProviderExits` is the goroutine that exits with the error of `Run` (319-325),
`ManagerFails` and `ManagerReturns` the end of `mgr.Start` (328-331). A `Run`
that returns because its context ended normally returns nil and exits nothing;
`NeverWithoutProvider` says that this is the only way to return nil.
`Signal` is `signals.SetupSignalHandler`: the first one cancels the context, the
second exits. `bindings` is what exists at the API server and outlives the
process; `Watch` is the one way into the provider's `store`. `Restart` is
external: the manifests run the process as a Deployment.

### CacheReader

A key is the tuple of its parts, led by the format where two formats differ
(`"*"` stands for any cluster, `"all"` for `__all_namespaces`). `Get` is one action, as it
calls the indexer once. `List` takes its items in one (`ListRefused`,
`ListNoIndex`, `List`) and then goes through them in `Collect` steps between
which the store may change. The order an index yields is arbitrary. `asked`
remembers the cluster's objects at the moment the store was read: the reference
that `ListExact` and `GetExact` compare with. `ListExact` holds for field selectors too,
but for completeness: such a `List` finds no index, or nothing in it. `scopeName` is chosen at the start
and does not change, as it belongs to the kind.

`ReadsAlone` (`ScopedReader`) has no reference answer to compare with: it is the
specification itself, with one cluster and with the part of `store` that is that
cluster's. What happens to other clusters' objects is a stutter, every other step
the same step. So a reader cannot tell the shared store from one of its own, by
any request, in any state of the loop. `NothingByFields` says what a `List` with
a field selector finds in either.

### WildcardCache

`informers` and `mutex` are controller-runtime's, modelled from how the code
uses it (its source is not in the repository), `tracker` and `lock` are the
repository's. `Peek`, `Create`, `NewInformer`, `Publish` are the steps of
`GetInformer`; the hook runs between the two maps' changes with the mutex held. A panic in it releases the mutex
(`defer`) but not `lock`. One kind stands for a group-version-kind and a
flavour (structured, unstructured, metadata), as the three maps are disjoint.
`current` are the informers that have listed their objects (`Sync`), `known` the
kinds for which a `GetInformer` has waited for that (`AwaitSync`). `Get` and
`List` of `scopedCache` do not wait, and `KnownIsCurrent` says when they need not.
A call may fail before the hook (`GetInformerFails`), between the hook and the
cache's map (`CreationFails`, which leaves the tracker's entry behind), or while it
waits for a sync (`AwaitFails`); `scopedCache.GetInformer` returns all three errors.
`abandoned` are the kinds whose informer was removed or whose creation failed after
the hook. `TrackedIsRunning` says that tracker and cache differ on these and, but for
what is being published, on no others, and for ever: a retry for such a kind
panics, a call for another kind never does. The finding `WildcardCacheRemove` is one
way there, a creation that fails after the hook is the other one; the bounds of that
run leave the removal only.

One assumption stands behind all of this: the options name at most one of
`DefaultNamespaces`, as those of `New` do, which names none. With several,
controller-runtime creates an informer of one kind for each of them, and the second
call of the hook panics at once.

### ScopedInformer

`server`, `store`, `pending` are the API server and the wildcard informer, which
may miss changes and find out by listing again: a deletion found so is a
tombstone with the last known state. `Wrapped` is the filter; `told` is what the
wrapped handler knows. `Leads(s, n, before, after)` says that the notifications
`s` take a handler of object `n` from one state to the other, by its first and
last notification and every two that follow each other: `ScopedInv` has it of
`pending` and every object, and `KnowsItsCluster` is the case of an object of
which nothing is pending.

The handler is an `Informer` of its cluster alone (`ImplementsInformer`): the
store of that informer is the part of `store` that is the cluster's, and its
queue is `OwnPart(pending)`, what the filter lets through, in order. The other
cluster's notifications are stutters, and so is what the filter drops.
`CatchesUp` is the liveness side: what the handler knows of an object becomes
what the store has, once that stays.

### Application

`pc` is the API call that comes next. `children[<<kind, home>>]` are the objects
in the provider's cluster, in a namespace named after the logical cluster; they
carry a finalizer nothing removes, so one that is deleted stays terminating.
`CreateOrUpdate` has an empty mutation, so `Ensure` only creates. `queue` has the
set semantics of client-go's queue: a request in hand can be added again.

`dir`, `active`, `offered`, `engaged`, `over` are those of `ClusterDirectory`.
`mgr.GetCluster` reads `dir` (`Provider.Get`). The controller's watch of a cluster
starts with its engagement, which lists the Applications (`ClusterEngaged`), and
ends some time after the context (`WatchEnds`): between `offered` and `engaged`,
and again once the context is done, an event may reach the queue or not
(`HalfWatched`, `Watched`). `ClusterForgotten` and `ClusterRefused` take a cluster
away in the middle of a reconciliation, `ClusterListed` may bring it back as
another object while the watch of the old one is still ending. `WatchesTheListed`
says that a live watch is always that of the object `mgr.GetCluster` returns. After `Signal`
the worker goes on until `Crash`, which is any end of the process, and
starts over with nothing.

## 3. Runs

| Run | Question | Instance |
|---|---|---|
| `ProviderTwoClusters` | Is anything lost, is the directory right, is every cluster served in the end, does shutdown end? | 2 clusters, 3 objects, 1 run, 3 addresses, 3 queued, 1 failure |
| `ProviderTwoRuns` | Do two handlers keep the maps, the contexts and the promise of `ClusterDirectory`? Is what is listed alive? Is `IInv` an invariant? | 1 cluster, 2 objects, 2 runs, 3 addresses, 3 queued, 1 failure |
| `ProviderNoRetry` | finding: a failed `Engage` leaves the cluster out for good | 1 cluster, 1 failure |
| `Process` | Does a failure cost more than a restart? Is anything missed while no process runs? Does a signal, in any state, cost more? Is it a `ClusterDirectory` throughout? | 1 cluster, 2 objects, 1 run per process, 2 queued, 2 failures, two signals per process |
| `CacheReader` | Are `Get` and `List` those of a cache of one cluster? Can the reader tell whether there are others? | 2 clusters, 2 namespaces, 1 name, 2 values, both scopes |
| `CacheReaderField` | finding: a field index that `List` does not find | the same, 1 namespace |
| `WildcardCacheTracker` | Do tracker and cache agree, do reads of a kind somebody waited for find a synced informer, for which kinds can the hook panic, does every call return? | 2 goroutines, 2 kinds, any removal, any failure |
| `WildcardCacheRemove` | finding: get, remove, get again panics with the lock held | 1 kind, 1 removal, no failure after the hook |
| `WildcardCacheReads` | finding: `Get` and `List` go on with a nil informer | 1 kind |
| `ScopedInformerResync` | Is the filtered informer an `Informer`, and does its handler know its cluster, and catch up? | 2 clusters, 1 name, 2 versions, 4 queued |
| `ApplicationShared` | Is Ready true, is nothing forgotten, is the cluster watched through the object that is listed, does everything finish, while the provider lists, engages, refuses and forgets it? | 1 cluster, 2 objects for it, 2 Applications of one name, 2 writes each, 1 failure |
| `ApplicationSecretRef` | finding: the reference's namespace is ignored | reference into another namespace, 1 write, no failure |

The runs marked "finding" fail, and are meant to: section 6.

### Bounds

* `MaxPending` bounds a listener's queue. The longest pattern the code can
  confuse is an Add in hand with a Delete and an Add behind it; three cover it.
  In `Process` two do: the two bindings of one cluster, and what is missed in the
  queue is found in the store, as `Watch` compares the store with `bindings`. In
  `ScopedInformer` four cover the two clusters' Adds and a resync of both.
* `Inst` bounds the addresses of clusters. One is reused only when nothing
  refers to it. Three are one listed, one whose handler is still at it, one that
  the manager has yet to drop; with one handler and one cluster two are enough.
* `MaxFailures` is 1 in most runs: any single failure at any point, the second of
  a pair being the same step in a state already reached. It is 2 in `Process`,
  where the second failure may meet the process that the first one caused. In
  `Application` a cluster that is forgotten, a signal, a crash and the deletion of
  a child count as failures too. The proofs need no such bound.
* `MaxVersion` is 2: a change while the worker has the old version. The write of
  the status is not bounded.
* `Queries` covers each branch of `List`: continue, non-exact and empty
  selectors, one and two indexed requirements, a label of one object and not of
  another, limits 0 to 2. The proofs hold for any `Queries`.
* `Removable` and `Failing` are the kinds whose informer may be removed or whose
  creation may fail after the hook: all of them, but in the runs of the findings. As
  no kind recovers from either, nothing else bounds them.
* Two clusters suffice for isolation, as no code compares three.

`SYMMETRY` is used in `ProviderTwoRuns` and, of namespaces, in `CacheReader`; neither
checks liveness.

### Fairness

* Handler steps while the informer runs: a listener goroutine runs its
  callbacks, and `mgr.Engage` is assumed to return, for the provider as for the
  controller (`ClusterEngaged \/ ClusterRefused`). Not when it is stopped.
* Each goroutine of `Run`; `ManagerDrops`, as the manager selects on the context.
* In `Process`, `main` itself: the set-up ends one way or the other, a goroutine
  that is to exit does, `mgr.Start` returns when its context has ended, and the
  Deployment restarts what has exited. `SF` for `Watch(o)`: a binding that exists
  is reported though the queue may be full now and then.
* `SF` for the steps of a goroutine in `WildcardCache`: Go's locks do not starve
  a waiter when the lock is free again and again.
* `SF_vars(Take(a))` in `Application`: the queue is first in, first out and its
  rate limit ends; `WF_vars(Reconcile)`: API calls return.
* Never: objects that come or go, calls of `Run` outside `main`, shutdown,
  signals, crashes, tenants, syncs of the wildcard cache.

`CHECK_DEADLOCK FALSE` stands where the system may stop: after shutdown
(`Provider`), and when a panic has left `lock` held (`WildcardCacheTracker`).
`Process` never stops, as it is restarted.

## 4. Proofs

TLAPS proves these for every value of the constants that satisfies the `ASSUME`
of the module, for any number of clusters, runs and failures.

* `ProviderProofs`. `IInv` is inductive. `ContextTracked` needs to know which
  notification a handler has in hand (`HandlerOK`) and that its new object is
  listed under that name only (`LocalIsOwn`): otherwise `Rollback` could remove
  another name. `NoLostNotification` has four parts, none inductive alone: an
  Add in the queue is enough only if a stale one is followed by its Delete
  (`StaleAddHasDelete`), a `Disengage` under way is harmless only if an object
  that came back is announced behind it (`DisengageHasAdd`). `Converged` and
  `RepresentedIsEngaged` follow. `ListedIsLive` follows from `GroupsOK`: a group
  ends with its cache, and a cache that ran ends with the caller's context.
  `ImplementsDirectory` maps every step to a step or a stutter of
  `ClusterDirectory`, an object being offered while it is some handler's `cl`;
  that the object is fresh, and one handler's only, is what makes it true.
  Assumed: finitely many objects.
* `ProcessProofs`. `Blank` is all the invariant needs to start from, and both
  `Init` and a restart establish it (`InitIsBlank`, `IInvBlank`); every other step
  of a process is a step of its provider, or leaves it alone (`ProcessStep`). So
  the provider's invariant holds in every process (`SafeAcrossRestarts`), and
  everything that follows from it: a manager is never left without its provider
  (`NeverWithoutProvider`, from `GroupsOK`), and the process implements
  `ClusterDirectory` with restarts (`DirectoryOfEveryProcess`), a restart being a
  `Reset` and every other step what `ProviderProofs` shows of it
  (`DirectoryStep`).
* `CacheReaderProofs`. `ReaderInv` adds the loop invariant `LoopOK`: what is
  collected and what is left are, together, each once, all the items of the
  moment the store was read. Lemma `ItemsExact` says that the prefixes in the
  index keys select just the objects of the cluster. For field selectors,
  `FieldsFindNothing` shows that no value of an index the code adds is one that
  `List` looks for: no `List` by fields shows another cluster's object, and none
  ever has anything to return, for any fields, values and contents of the store
  (`FieldListsFindNothing`; section 6). That needs `LoopDone`: a loop leaves nothing
  behind for the next request.
* `ScopedReaderProofs` (`ScopedReadsAlone`). The store of the cluster's own holds
  `OwnObjects`, and a change of it is a change of `store` at a key of the cluster
  (`OwnStore`). With that, each request is answered by the same items: `SameItems`,
  where the objects of others drop out as no index value of theirs is one that is
  asked for, and `SameMissing`, as which index a selector misses depends on what
  the requirements before it have left, and that is nothing. One step per action
  then maps it to itself, or a change of another cluster's object to a stutter.
* `WildcardCacheProofs`. `TrackerInv` contains that tracker and cache never hold
  different informers (`SameInformer`, theorem `TrackerIsCache`): a goroutine
  between the hook and the publication holds the mutex and has tracked what it will
  publish (or drop, if the creation fails); no informer serves two kinds (`OwnInformer`), so that removing one leaves the others
  current (`KnownAreCurrent`). With it `TrackedIsRunning` is inductive
  (`PanicHasCause`): the mutex makes the peek of `GetInformer`, its hook and its
  publication, or its failure, one step for everybody else. It holds with calls
  that fail anywhere.
* `ScopedInformerProofs`. `ScopedInv` is inductive: the lemmas say what `Leads`
  becomes when a notification is appended, taken off the front or repeated by a
  resync, for the object it is about and for every other one. It speaks of
  positions in the queue, which keeps the argument free of induction over
  sequences. `KnowsItsCluster` and the action property `MakesSense` follow.
* `ScopedInformerRefinement` (`ScopedIsAnInformer`). `OwnPart` does need induction:
  it is what a recursive function gives for the whole queue. Lemma `UpTo` makes
  the argument by a least counterexample, as the order of the naturals is
  well-founded (`WFMin`), and says of every prefix what it yields; from it follow
  `OwnPart` of a concatenation (`OwnPartConcat`), of one notification and of a tail.
  Then every action is mapped: a change of an own object to a change, a resync,
  the repeats of `Repeat` in any order, to a resync (`RepeatIsAnOrder`: the own
  ones come once each), a delivery that passes the filter to a delivery, the rest
  to stutters. That a delivery makes sense to the handler is `ScopedInv`.
* `ApplicationProofs`. `ApplicationInv` adds `Progress` (the children made so
  far stay) to the three properties about queue and status. They need nothing of
  the directory: an Application is queued or worked on if its cluster is watched,
  and every way to begin a watch lists what is there. `WatchesTheListed` does: it
  rests on `Consistent`, which every step of `ClusterDirectory` preserves
  (`ConsistentStep`), and on `ListedByName`.

Only model-checked: liveness, as fairness and `ENABLED` are beyond TLAPS:
`EventuallyServed`, `EventuallyForgotten`, `ShutdownReturns`, `ServedAcrossRestarts`,
`ForgottenAcrossRestarts`, `CallsReturn`, `CatchesUp`,
`EventuallyReady`, `Quiesces`. Every safety property of a run that passes is
stated by a theorem. The findings are runs: one counterexample is all there is to
show. `FieldListsFindNothing` is what holds in the place of the second.

## 5. Not modelled

* The ConfigMap example: its reconciler reads one object and logs, keeps no
  state, and lines 89-95 of its `main.go` are not valid Go.
* How `mgr.Engage` waits: it runs in the listener's goroutine and may wait for an
  informer to sync, which holds up all later notifications. It is in
  multicluster-runtime; the model lets it take any time and assumes it returns.
* Leader election, metrics and webhook servers, the certificate watcher: one way
  or another for the set-up or the manager to fail (`SetupFails`, `ManagerFails`).
* Clients, schemes and REST mappers: construction and pass-through.
  `newScopedCluster` appears as a call that may fail; `mapper.RESTMapping` as one
  that may fail before the tracker is looked at.
* The indexer without a cluster index and a reader with an empty cluster name:
  `NewWildcardCache` always adds the index and kcp annotates every object.
* Branches for what cannot happen while the parts fit together: objects of an
  unexpected type, an index that is missing in `DeleteFunc`, a kind the scheme
  does not know (a panic of the hook before it locks anything).
* Defaulting of options, certificates, flags, health checks, deep copies.
* A cache with several `DefaultNamespaces`, which `New` does not make: see
  `WildcardCache` above.
* The multicluster manager beyond `Engage` and dropping what is done;
  controller-runtime's cache beyond `GetInformer` and `RemoveInformer`.

## 6. Findings

1. `ProviderNoRetry`: after an error of `newScopedCluster` or `mgr.Engage` nothing
   retries (`provider.go:142-163`), so "each logical cluster" is not represented.
2. `CacheReaderField`: `IndexField` builds one index name and value format,
   `List` looks for another (`wildcard.go:149`, `forked_cache_reader.go:206-230`).
   A selector with the index's own name, `cluster/` and the field, finds the index
   and nothing in it: theorem `FieldListsFindNothing` shows that this is so of every
   selector.
3. `WildcardCacheRemove`: `RemoveInformer` leaves the tracker's entry (and so does a
   creation that fails after the hook); the next
   `GetInformer` panics in the hook and leaves `lock` held (`wildcard.go:99-105`).
   `scopedCache` refuses the call, a user of the wildcard cache can make it.
4. `WildcardCacheReads`: `Get` goes on with a nil informer where nobody asked for
   one, and `List` asks for the list kind, never tracked (`cache.go:55-64, 76-85`).
5. `ApplicationSecretRef`: the namespace of the secret reference is ignored
   (`application_controller.go:74`).

Also seen in the models, and without a run, as no line of the repository says
otherwise:

* A sync that takes more than 30 seconds makes `Run` return (`provider.go:208`)
  while its goroutine and handler go on; `ProviderTwoRuns` explores what a later
  `Run` then meets, `Process` what the example does: it exits and starts over.
* A second `Run` lists clusters whose context is done from the start
  (`ListedIsLive` excepts it). Nothing takes them out until a Delete comes.
* The children of an Application outlive it: the finalizer is on them and not on
  the Application, and nothing removes it (`application_controller.go:121`).
* `CreateOrUpdate` never repairs a child, so one that is terminating counts as
  deployed (`application_controller.go:93`): "Ready" means that the children were
  made.
* `ServedAcrossRestarts` needs one binding that stays, and signals that end. A set
  of bindings that is never empty, but of which none stays, may keep a cluster
  coming and going.

## 7. Plan

Done, in this order: `Provider` with `ClusterDirectory`; `Application`;
`CacheReader`; `WildcardCache`; `ScopedInformer` with `Informer`; the proofs of the
first four; synced and unsynced informers in `WildcardCache`; engagement in
`ClusterDirectory`, and a second `Run` whose `Start` fails; `Application` composed
with `ClusterDirectory`; `Process`; the proofs of `ScopedInformer` and `Process`;
the refinements of `Informer` by `ScopedInformer` and of `ClusterDirectory`, restarts
included, by `Process`, both proved; the proofs about the directory in
`Application`, the panic in `WildcardCache` and field selectors in `CacheReader`;
`ScopedReader` and its proof; calls that fail in `WildcardCache`, and signals that
come and end in `Process`.

Left:

1. Compose `WildcardCache` and `CacheReader`, so that a `List` is exact from the
   moment of a sync on: each half is checked, and their conjunction is not.
2. `CacheReader`: the answer to a selector if the index names agreed, and
   `byIndexes` against a reference definition.
3. Two replicas of the process under leader election, if the example comes to
   be deployed so.
