---------------------------- MODULE WildcardCache ----------------------------
(***************************************************************************)
(* wildcardCache and its informerTracker, src/virtualworkspace/            *)
(* wildcard.go, under the calls that scopedCache (cache.go) and Provider   *)
(* make.  The informers belong to the cache of controller-runtime, which   *)
(* creates each through the NewInformer hook while it holds its own mutex; *)
(* the hook keeps them in the tracker, under the tracker's lock, where     *)
(* getSharedInformer finds them.  The two maps are changed at different    *)
(* times.  A kind here is a group-version-kind together with the flavour   *)
(* of its objects (structured, unstructured, metadata): one map of each    *)
(* sort stands for the three.                                              *)
(*                                                                         *)
(* Assumed: the options name one namespace at most (DefaultNamespaces),    *)
(* so that controller-runtime has one such cache; with several it has one  *)
(* for each, and calls the hook for the same kind in every one of them.    *)
(***************************************************************************)

CONSTANTS
  Caller,       \* goroutines
  NoCaller,     \* "nobody": a lock is free
  Kind,         \* kinds of objects with their flavour
  ListKind,     \* the list kind of every kind: what a list object is
  NoKind,       \* "no kind"
  Informer,     \* informers
  NoInformer,   \* nil
  Removable,    \* bound: kinds whose informer may be removed
  Failing       \* bound: kinds whose creation may fail after the hook

ASSUME WildcardCacheAssumption ==
  /\ NoCaller \notin Caller
  /\ NoInformer \notin Informer
  /\ NoKind \notin Kind
  /\ \A k \in Kind : ListKind[k] \notin Kind

VARIABLES
  informers,   \* controller-runtime: the informer of a kind
  mutex,       \* controller-runtime: who holds its mutex for writing
  tracker,     \* informerTracker: the informer of a kind
  lock,        \* informerTracker: who holds lock for writing
  pc,          \* where a caller is
  kind,        \* the kind it asks for
  inf,         \* the informer it has
  current,     \* informers that run and have synced
  known,       \* kinds whose informer somebody has waited for
  abandoned    \* history: kinds removed, or given up after the hook

cacheVars == <<informers, mutex>>
trackerVars == <<tracker, lock>>
callerVars == <<pc, kind, inf>>
syncVars == <<current, known>>
vars == <<cacheVars, trackerVars, callerVars, syncVars, abandoned>>

Place == {"idle", "peek", "create", "track", "publish", "lookup", "read",
          "got", "synced", "failed", "answered", "panicked"}

TypeOK ==
  /\ informers \in [Kind -> Informer \cup {NoInformer}]
  /\ mutex \in Caller \cup {NoCaller}
  /\ tracker \in [Kind -> Informer \cup {NoInformer}]
  /\ lock \in Caller \cup {NoCaller}
  /\ pc \in [Caller -> Place]
  /\ kind \in [Caller -> Kind \cup {NoKind} \cup {ListKind[k] : k \in Kind}]
  /\ inf \in [Caller -> Informer \cup {NoInformer}]
  /\ current \in SUBSET Informer
  /\ known \in SUBSET Kind
  /\ abandoned \in SUBSET Kind

Init ==
  /\ informers = [k \in Kind |-> NoInformer]
  /\ mutex = NoCaller
  /\ tracker = [k \in Kind |-> NoInformer]
  /\ lock = NoCaller
  /\ pc = [p \in Caller |-> "idle"]
  /\ kind = [p \in Caller |-> NoKind]
  /\ inf = [p \in Caller |-> NoInformer]
  /\ current = {}
  /\ known = {}
  /\ abandoned = {}

GoTo(p, where, i) ==
  /\ pc' = [pc EXCEPT ![p] = where]
  /\ inf' = [inf EXCEPT ![p] = i]
  /\ UNCHANGED kind

Waiting(p) == pc[p] \notin {"idle", "got", "synced", "failed", "answered", "panicked"}

Call(p, where, k) ==
  /\ ~Waiting(p)
  /\ pc' = [pc EXCEPT ![p] = where]
  /\ kind' = [kind EXCEPT ![p] = k]
  /\ inf' = [inf EXCEPT ![p] = NoInformer]
  /\ UNCHANGED <<cacheVars, trackerVars, syncVars, abandoned>>

-----------------------------------------------------------------------------
(* GetInformer: of controller-runtime, but for the hook.  It may fail at   *)
(* any stage, and scopedCache returns its error.                           *)

GetInformer(p, k) == Call(p, "peek", k)

(* The object has no kind, or there is no way to list and watch its kind:  *)
(* the call fails before the hook.                                         *)
GetInformerFails(p) ==
  /\ \/ pc[p] = "peek"
     \/ pc[p] = "create" /\ mutex = NoCaller /\ informers[kind[p]] = NoInformer
  /\ GoTo(p, "failed", NoInformer)
  /\ UNCHANGED <<cacheVars, trackerVars, syncVars, abandoned>>

(* A read lock: the informer is there, or has to be created.               *)
Peek(p) ==
  /\ pc[p] = "peek"
  /\ mutex = NoCaller
  /\ LET i == informers[kind[p]] IN GoTo(p, IF i # NoInformer THEN "got" ELSE "create", i)
  /\ UNCHANGED <<cacheVars, trackerVars, syncVars, abandoned>>

(* The mutex is taken, and the map looked at again.                        *)
Create(p) ==
  /\ pc[p] = "create"
  /\ mutex = NoCaller
  /\ IF informers[kind[p]] # NoInformer
     THEN GoTo(p, "got", informers[kind[p]]) /\ UNCHANGED mutex
     ELSE GoTo(p, "track", NoInformer) /\ mutex' = p
  /\ UNCHANGED <<informers, trackerVars, syncVars, abandoned>>

Unused(i) == \A k \in Kind : i \notin {informers[k], tracker[k]}

(* Mutants of NewInformer: an informer in the tracker is kept; the lock is *)
(* not released.                                                           *)
NewInformerKeepsOld(p) ==
  /\ pc[p] = "track"
  /\ lock = NoCaller
  /\ \E i \in Informer :
       /\ Unused(i)
       /\ tracker' = IF tracker[kind[p]] # NoInformer THEN tracker
                     ELSE [tracker EXCEPT ![kind[p]] = i]
       /\ GoTo(p, "publish", i)
  /\ UNCHANGED <<cacheVars, lock, syncVars, abandoned>>

NewInformerStaysLocked(p) ==
  /\ pc[p] = "track"
  /\ lock = NoCaller
  /\ \E i \in Informer :
       /\ Unused(i)
       /\ tracker' = [tracker EXCEPT ![kind[p]] = i]
       /\ GoTo(p, "publish", i)
  /\ lock' = p
  /\ UNCHANGED <<cacheVars, syncVars, abandoned>>

(* The hook, under the lock: an informer that is in the tracker already    *)
(* makes it panic.  The panic releases the mutex, which controller-runtime *)
(* releases by defer, but not the lock.                                    *)
NewInformer(p) ==
  /\ pc[p] = "track"
  /\ lock = NoCaller
  /\ IF tracker[kind[p]] # NoInformer
     THEN /\ lock' = p
          /\ mutex' = NoCaller
          /\ GoTo(p, "panicked", NoInformer)
          /\ UNCHANGED tracker
     ELSE /\ \E i \in Informer :
               /\ Unused(i)
               /\ tracker' = [tracker EXCEPT ![kind[p]] = i]
               /\ GoTo(p, "publish", i)
          /\ UNCHANGED <<lock, mutex>>
  /\ UNCHANGED <<informers, syncVars, abandoned>>

Publish(p) ==
  /\ pc[p] = "publish"
  /\ informers' = [informers EXCEPT ![kind[p]] = inf[p]]
  /\ mutex' = NoCaller
  /\ GoTo(p, "got", inf[p])
  /\ UNCHANGED <<trackerVars, syncVars, abandoned>>

(* What comes between the hook and the map fails (the transformation, the  *)
(* mapping of the kind): the mutex is released, and the tracker not told.  *)
CreationFails(p) ==
  /\ pc[p] = "publish"
  /\ kind[p] \in Failing
  /\ mutex' = NoCaller
  /\ abandoned' = abandoned \cup {kind[p]}
  /\ GoTo(p, "failed", NoInformer)
  /\ UNCHANGED <<informers, trackerVars, syncVars>>

(* An informer that runs has listed its objects.                           *)
Sync(k) ==
  /\ informers[k] \notin current \cup {NoInformer}
  /\ current' = current \cup {informers[k]}
  /\ UNCHANGED <<cacheVars, trackerVars, callerVars, known, abandoned>>

(* A caller that has got the informer returns with it at once if the cache *)
(* has not started or the options say so, as those of Run do; otherwise it *)
(* waits for the informer to sync, or until its own context ends.          *)
AwaitSync(p) ==
  /\ pc[p] = "got"
  /\ inf[p] \in current
  /\ known' = known \cup {kind[p]}
  /\ GoTo(p, "synced", inf[p])
  /\ UNCHANGED <<cacheVars, trackerVars, current, abandoned>>

AwaitFails(p) ==
  /\ pc[p] = "got"
  /\ GoTo(p, "failed", NoInformer)
  /\ UNCHANGED <<cacheVars, trackerVars, syncVars, abandoned>>

(* RemoveInformer, which wildcardCache has from cache.Cache: the informer  *)
(* is stopped, and the tracker is not told.                                *)
RemoveInformer(k) ==
  /\ mutex = NoCaller
  /\ informers[k] # NoInformer
  /\ k \in Removable
  /\ abandoned' = abandoned \cup {k}
  /\ informers' = [informers EXCEPT ![k] = NoInformer]
  /\ current' = current \ {informers[k]}
  /\ known' = known \ {k}
  /\ UNCHANGED <<mutex, trackerVars, callerVars>>

-----------------------------------------------------------------------------
(* scopedCache.Get and scopedCache.List, and getSharedInformer for both.   *)

Get(p, k) == Call(p, "lookup", k)

(* List looks for the kind of the list, not of its items.                  *)
List(p, k) == Call(p, "lookup", ListKind[k])

Tracked(k) == IF k \in Kind THEN tracker[k] ELSE NoInformer

(* The mapper fails, or does not know the kind: an error is returned.      *)
MapperFails(p) ==
  /\ pc[p] = "lookup"
  /\ GoTo(p, "answered", NoInformer)
  /\ UNCHANGED <<cacheVars, trackerVars, syncVars, abandoned>>

(* The lookup, under a read lock.                                          *)
GetSharedInformer(p) ==
  /\ pc[p] = "lookup"
  /\ lock = NoCaller
  /\ GoTo(p, "read", Tracked(kind[p]))
  /\ UNCHANGED <<cacheVars, trackerVars, syncVars, abandoned>>

(* The indexer of what was found is read; nil has no indexer.              *)
Read(p) ==
  /\ pc[p] = "read"
  /\ GoTo(p, IF inf[p] = NoInformer THEN "panicked" ELSE "answered", inf[p])
  /\ UNCHANGED <<cacheVars, trackerVars, syncVars, abandoned>>

Step(p) ==
  \/ Peek(p) \/ Create(p) \/ NewInformer(p) \/ Publish(p)
  \/ GetInformerFails(p) \/ CreationFails(p)
  \/ MapperFails(p) \/ GetSharedInformer(p) \/ Read(p)

Next ==
  \/ \E p \in Caller, k \in Kind : GetInformer(p, k) \/ Get(p, k) \/ List(p, k)
  \/ \E p \in Caller : Step(p) \/ AwaitSync(p) \/ AwaitFails(p)
  \/ \E k \in Kind : Sync(k) \/ RemoveInformer(k)

Spec == Init /\ [][Next]_vars

(* Goroutines go on, and who waits for a lock that is free again and again *)
(* gets it.                                                                *)
FairSpec == Spec /\ \A p \in Caller : SF_vars(Step(p))

-----------------------------------------------------------------------------
(* Properties.                                                             *)

(* The informer that the cache runs is the one that getSharedInformer      *)
(* finds: Run adds its handler to the one and reads the index of the other *)
(* (provider.go:108-115, 183; wildcard.go:99-105).                         *)
SameInformer ==
  /\ \A k \in Kind : informers[k] # NoInformer => tracker[k] = informers[k]
  /\ \A p \in Caller : pc[p] = "got" => tracker[kind[p]] = inf[p]

(* Who creates an informer holds the mutex, and has put into the tracker   *)
(* what it is about to publish (wildcard.go:85-108).                       *)
CreatorOK ==
  /\ mutex # NoCaller => pc[mutex] \in {"track", "publish"}
  /\ \A p \in Caller :
       /\ pc[p] \in {"peek", "create", "track", "publish", "got"} => kind[p] \in Kind
       /\ pc[p] \in {"track", "publish"} => mutex = p /\ informers[kind[p]] = NoInformer
       /\ pc[p] = "publish" => tracker[kind[p]] = inf[p]
       /\ pc[p] \in {"publish", "got"} => inf[p] # NoInformer

(* Get and List read whatever the tracker has without asking whether it    *)
(* has synced (cache.go:54-64, 75-85).  Once somebody has waited for a     *)
(* kind's informer in GetInformer, what they find is synced and goes on,   *)
(* unless the informer is removed.                                         *)
KnownIsCurrent == \A k \in known : tracker[k] \in current

(* No informer serves two kinds: stopping one leaves the others current    *)
(* (wildcard.go:85-108).                                                   *)
OwnInformer ==
  \A k, h \in Kind : tracker[k] = tracker[h] /\ tracker[k] # NoInformer => k = h

(* Together they are inductive (wildcard.go:85-108).                       *)
TrackerInv == TypeOK /\ CreatorOK /\ SameInformer /\ OwnInformer /\ KnownIsCurrent

(* The tracker and the cache differ on the abandoned kinds, for ever: the  *)
(* panic in the hook, with the lock in its hands, needs a kind whose       *)
(* informer was removed or whose creation failed after the hook, and is    *)
(* all that a retry for such a kind can come to.  For every other kind     *)
(* what is tracked runs, or is about to be published by the one goroutine  *)
(* that holds the mutex, so that no other gets to the hook for its kind    *)
(* (wildcard.go:99-105; cache.go:97-100).                                  *)
TrackedIsRunning ==
  /\ \A k \in Kind \ abandoned : tracker[k] # NoInformer =>
       \/ informers[k] = tracker[k]
       \/ \E p \in Caller : pc[p] = "publish" /\ kind[p] = k
  /\ \A k \in abandoned : tracker[k] # NoInformer /\ informers[k] = NoInformer
  /\ \A p \in Caller : pc[p] = "publish" => kind[p] \notin abandoned
  /\ lock # NoCaller => abandoned # {}

(* As long as no kind is abandoned, every call gets as far as an answer,   *)
(* an error or an informer (for whose sync it may then wait), whatever     *)
(* locks the others take, the mutex before the lock, and whichever call    *)
(* fails before the hook (wildcard.go:99-105, 139-142).                    *)
CallsReturn ==
  [](abandoned = {}) => \A p \in Caller : Waiting(p) ~> ~Waiting(p)

(* "informer for %s already exists" (wildcard.go:102) is never said: no    *)
(* caller panics in NewInformer with the lock in its hands.                *)
NoDuplicate == lock = NoCaller

(* "Get returns a single object from the cache" (cache.go:53), "List       *)
(* returns a list of objects from the cache" (cache.go:74): neither ends   *)
(* in a nil pointer.  But nobody need have asked for the informer, and a   *)
(* List looks for that of the list kind, which is never there              *)
(* (cache.go:55-64, 76-85).                                                *)
ReadsAnswer == \A p \in Caller : pc[p] = "read" => inf[p] # NoInformer

=============================================================================
